---------------------------- MODULE MCRegAlloc ----------------------------
(***************************************************************************)
(* Bounded inputs for RegAlloc: every function of a few control-flow       *)
(* shapes whose blocks draw their instructions from a menu, and a few      *)
(* longer functions under register pressure.                               *)
(***************************************************************************)
EXTENDS RegAlloc

I(op, dest, args) == [op |-> op, dest |-> dest, args |-> args, imm |-> 0]

Menu == {I("SIR_OP", 1, <<>>), I("SIR_OP", 2, <<1, 1>>), I("SIR_OP", 3, <<1, 2>>),
         I("SIR_OP", 1, <<3>>), I("SIR_CALL", 2, <<3>>), I("SIR_SYS_READ", NoDest, <<1>>)}

MaybeOne == {<<>>} \cup {<<i>> : i \in Menu}

Br(v) == I("SIR_OP", NoDest, <<v>>)
Jmp   == I("SIR_OP", NoDest, <<>>)

(* A diamond, a loop entered at its head, a loop with an early exit that   *)
(* is laid out before its head, and a switch with a repeated successor.    *)
Shapes ==
  {[succ |-> <<{2, 3}, {4}, {4}, {}>>, term |-> <<Br(1), Jmp, Jmp, Br(2)>>],
   [succ |-> <<{2}, {3, 4}, {2}, {}>>, term |-> <<Jmp, Br(1), Jmp, Br(3)>>],
   [succ |-> <<{3}, {}, {2, 4}, {3}>>, term |-> <<Jmp, Br(2), Br(3), Jmp>>]}

ShapedFunctions ==
  {[n |-> 4, succ |-> s.succ,
    code |-> [b \in 1..4 |-> Append(IF b = 4 THEN last
                                    ELSE IF b = 1 THEN first ELSE mid[b], s.term[b])]] :
     s \in Shapes, first \in MaybeOne \ {<<>>}, mid \in [2..3 -> MaybeOne],
     last \in {<<>>, <<I("SIR_CALL", 2, <<3>>)>>}}

(* Straight-line code that defines the four vregs and then uses them in    *)
(* some order, with or without a call in between.                          *)
PressureFunctions ==
  {[n |-> 1, succ |-> <<{}>>,
    code |-> <<<<I("SIR_OP", 1, <<>>), I("SIR_OP", 2, <<>>), I("SIR_OP", 3, a),
                 I(o, 4, <<>>), m, I("SIR_OP", NoDest, u)>>>>] :
     a \in {<<>>, <<1>>, <<2, 1>>}, o \in {"SIR_OP", "SIR_SYS_ALLOC"}, m \in Menu,
     u \in {<<1, 2, 3, 4>>, <<4, 2>>, <<3, 4, 4>>, <<2, 3>>}}

MCFunctions == ShapedFunctions \cup PressureFunctions
=============================================================================
