----------------------------- MODULE MCX86Frame -----------------------------
(***************************************************************************)
(* Bounded programs for X86Frame: a start-up, a princeps and a helper that *)
(* calls itself, with every parity of frame parts and argument counts on   *)
(* both sides of the register limits.                                      *)
(***************************************************************************)
EXTENDS X86Frame

F(locals, spills, pushes, params, calls, heap, file) ==
  [locals |-> locals, spills |-> spills, pushes |-> pushes, params |-> params,
   calls |-> calls, heap |-> heap, file |-> file]

To(g, n) == [callee |-> g, nargs |-> n]

(* __scorivm_init does input/output, princeps calls the helper and an      *)
(* extern, the helper, with n parameters, calls itself and maybe an extern.*)
Program(opt, locals, spills, pushes, n, ext) ==
  [opt |-> opt,
   fns |-> <<F(1, 0, pushes, 0, <<>>, FALSE, TRUE),
             F(locals, 1, 1, 2, <<To(3, n), To(Extern, ext)>>, TRUE, FALSE),
             F(locals, spills, pushes, n, <<To(3, n), To(Extern, 0)>>, spills = 0, FALSE)>>]

MCPrograms ==
  {Program(2, l, s, p, n, 6) : l \in 0..1, s \in 0..1, p \in 0..1, n \in {0, 3, 6, 7, 8}}
  \cup {Program(2, 1, 1, 7, n, x) : n \in {7, 8}, x \in {2, 5}}
  \cup {Program(o, l, s, p, n, 5) : o \in {0, 1}, l \in 0..1, s \in 0..1, p \in 0..1, n \in {2, 4}}

(* A function of five parameters at -O1.                                   *)
FiveParams == {Program(1, 0, 0, 1, 5, 0)}
=============================================================================
