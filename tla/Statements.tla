----------------------------- MODULE Statements -----------------------------
(***************************************************************************)
(* What a function body means: the order in which its effects happen.      *)
(* Everything between two effects (entering blocks, leaving loops,         *)
(* following gotos) is a walk from point to point of the tree.  The        *)
(* definitions follow docs/SYNTAX.md, section 4 (control flow).            *)
(***************************************************************************)
EXTENDS Syntax

CONSTANTS
    Values,         \* the values the operand of a switch may have
    Fuel            \* more than any way from one effect to the next is long

ASSUME FuelAssumption == Fuel \in Nat

(* A point is <<"enter", path, 0>>, control arrives at a node, or          *)
(* <<"leave", path, value>>, it is done and yields a value.                *)

Points == {"enter", "leave"} \X Seq(Nat) \X Int

Enter(p) == <<"enter", p, 0>>
Leave(p, v) == <<"leave", p, v>>

\* Where control goes from node p of t, which has no effect of its own.
From(t, p) ==
    LET n == NodeAt(t, p)
        loop == Innermost(t, p, Loops)
    IN  CASE n.op = "const" -> Leave(p, n.vals[1])
          [] n.op = "none" -> Leave(p, 1)
          [] n.op = "break" -> Leave(Innermost(t, p, Loops \cup {"switch"}), 0)
          [] n.op = "continue" -> Enter(Kid(loop, IF NodeAt(t, loop).op = "for" THEN 3 ELSE 1))
          [] n.op = "goto" -> Enter(CHOOSE q \in Labels(t, n.name) : TRUE)
          [] n.op = "label" \/ n.kids = <<>> -> Leave(p, 0)
          [] OTHER -> Enter(Kid(p, 1))

\* Where control goes when the k-th part of node q has yielded v.
After(t, q, k, v) ==
    LET n == NodeAt(t, q)
        case == CaseOf(n, v)
        Part(i) == IF i \in DOMAIN n.kids THEN Enter(Kid(q, i)) ELSE Leave(q, 0)
    IN  CASE n.op = "block" -> Part(k + 1)
          [] n.op = "and" -> IF k = 1 /\ v = 1 THEN Part(2) ELSE Leave(q, v)
          [] n.op = "or" -> IF k = 1 /\ v = 0 THEN Part(2) ELSE Leave(q, v)
          [] n.op = "if" -> IF k = 1 THEN Part(3 - v) ELSE Leave(q, 0)
          [] n.op = "while" -> IF k = 2 THEN Part(1) ELSE IF v = 1 THEN Part(2) ELSE Leave(q, 0)
          [] n.op = "for" /\ k \in {1, 3} -> Part(2)
          [] n.op = "for" /\ k = 2 -> IF v = 1 THEN Part(4) ELSE Leave(q, 0)
          [] n.op = "for" /\ k = 4 -> Part(3)
          [] n.op = "switch" /\ k > 1 -> Leave(q, 0)
          [] n.op = "switch" /\ k = 1 ->
                IF case # 0 THEN Part(case + 1)
                ELSE IF HasDefault(n) THEN Part(Len(n.kids)) ELSE Leave(q, 0)

\* The run has come to the end of the body.
Through(point) == point[1] = "leave" /\ point[2] = <<>>

Visible(t, point) == point[1] = "enter" /\ NodeAt(t, point[2]).op \in Effects

Silent(t, point) == ~Through(point) /\ ~Visible(t, point)

\* The next point, if the one at hand has no effect.
Onward(t, point) ==
    IF point[1] = "enter" THEN From(t, point[2])
    ELSE After(t, Front(point[2]), Last(point[2]), point[3])

\* The next effect from point on; a run without one goes on for ever.
NextEffect(t, point) ==
    LET on[q \in Points, i \in 0..Fuel] ==
            CASE Through(q) -> <<"returned", <<>>>>
              [] Visible(t, q) -> <<"at", q[2]>>
              [] Silent(t, q) -> IF i = 0 THEN <<"diverges", <<>>>> ELSE on[Onward(t, q), i - 1]
    IN  on[point, Fuel]

Start(t) == NextEffect(t, Enter(<<>>))

Outcomes(n) == CASE n.op = "any" -> {0, 1} [] n.op = "pick" -> Values [] OTHER -> {0}

\* What may come after effect p.
Following(t, p) ==
    LET n == NodeAt(t, p)
    IN  CASE n.op = "return" -> {<<"returned", <<>>>>}
          [] n.op = "trap" -> {<<"trapped", <<>>>>}
          [] OTHER -> {NextEffect(t, Leave(p, v)) : v \in Outcomes(n)}
=============================================================================
