------------------------------- MODULE MCWidths -------------------------------
(* Two pointers to one cell and one to another; integers at the borders of *)
(* every type; runs that compute, that go through memory, and that branch. *)
EXTENDS Widths

MCCell == [p |-> "here", alias |-> "here", other |-> "there"]
MCPointers == {"p", "alias", "other"}
MCLiterals == {-4, -2, -1, 0, 1, 2, 3, 7}
MCPlans == {<<"compute", "compute", "branch">>,
            <<"store", "store", "load">>,
            <<"store", "call", "load">>,
            <<"store", "copy", "load">>,
            <<"branch">>}
=============================================================================
