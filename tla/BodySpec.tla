------------------------------ MODULE BodySpec ------------------------------
(***************************************************************************)
(* What a compiled function body promises.  The state is the next effect,  *)
(* `at`; a step performs it, with any outcome a condition or a value can   *)
(* have, and goes on to the next one.  Lower is shown to implement this.   *)
(***************************************************************************)
EXTENDS Statements

VARIABLES
    prog,           \* the function body, any
    at              \* the next effect, <<"at", path>>, or how the run ended

vars == <<prog, at>>

Init == at = Start(prog)

Perform ==
    /\ at[1] = "at"
    /\ at' \in Following(prog, at[2])
    /\ UNCHANGED prog

Spec == Init /\ [][Perform]_vars
=============================================================================
