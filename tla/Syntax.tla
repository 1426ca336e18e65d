------------------------------- MODULE Syntax -------------------------------
(***************************************************************************)
(* The bodies of Scorivm's functions as syntax trees, as far as control    *)
(* flow goes.  A node is a record                                          *)
(*     op    the kind of statement or expression (Kinds)                   *)
(*     name  the label of a goto or label, the variable of an assignment   *)
(*     vals  a constant's value; for a switch, the values of each case     *)
(*     kids  the parts, in the order in which the source lists them        *)
(* and is identified by its path, the sequence of child numbers that leads *)
(* from the root to it.  Truth values are 0 and 1.                         *)
(*                                                                         *)
(*   block   statements            if      condition, then (, else)        *)
(*   while   condition, body       for     initialiser, condition,         *)
(*   switch  value, cases                    increment, body               *)
(*           (, default)           and, or   left, right                   *)
(*                                                                         *)
(* A part of a for that is left out is a node of kind none.  do and assign *)
(* are a statement with an effect (an expression, a declaration, an        *)
(* assignment of a constant or variable to a scalar variable), any and     *)
(* pick an expression with an effect and a truth value or number.          *)
(***************************************************************************)
EXTENDS Integers, Sequences, FiniteSetsExt, SequencesExt

CONSTANT Depth      \* no path is longer

ASSUME DepthAssumption == Depth \in Nat

Effects == {"do", "assign", "any", "pick", "return", "trap"}

Kinds == Effects \cup
    {"block", "const", "and", "or", "if", "while", "for", "switch", "break", "continue",
     "goto", "label", "none"}

Loops == {"while", "for"}

NodeAt(t, p) ==
    LET down[i \in 0..Len(p)] == IF i = 0 THEN t ELSE down[i - 1].kids[p[i]]
    IN  down[Len(p)]

Kid(p, k) == Append(p, k)

\* The paths of all nodes of t, found level by level.
Paths(t) ==
    LET KidsOf(p) == {Kid(p, k) : k \in DOMAIN NodeAt(t, p).kids}
        level[i \in 0..Depth] ==
            IF i = 0 THEN {<<>>} ELSE UNION {KidsOf(p) : p \in level[i - 1]}
    IN  UNION {level[i] : i \in 0..Depth}

\* How long the paths of the nodes around p are whose kind is in ops, and
\* the innermost of them.
Around(t, p, ops) == {i \in 0..(Len(p) - 1) : NodeAt(t, SubSeq(p, 1, i)).op \in ops}

Innermost(t, p, ops) == SubSeq(p, 1, Max(Around(t, p, ops)))

Labels(t, l) == {p \in Paths(t) : NodeAt(t, p).op = "label" /\ NodeAt(t, p).name = l}

-----------------------------------------------------------------------------
(* What the parser makes.                                                  *)

\* The conditions among the parts of node n: expressions with a truth value.
CondKids(n) ==
    CASE n.op \in {"if", "while"} -> {1}
      [] n.op = "for" -> {k \in {2} : n.kids[k].op # "none"}
      [] n.op \in {"and", "or"} -> {1, 2}
      [] OTHER -> {}

IsCondition(c) == c.op \in {"any", "and", "or"} \/ (c.op = "const" /\ c.vals[1] \in {0, 1})

\* Node n has the parts that belong to its kind.
IsNode(n) ==
    LET size == Len(n.kids)
    IN  /\ n.op \in Kinds
        /\ n.kids \in Seq(Range(n.kids)) /\ n.vals \in Seq(Range(n.vals))
        /\ CASE n.op = "block" -> TRUE
             [] n.op = "if" -> size \in {2, 3}
             [] n.op \in {"while", "and", "or"} -> size = 2
             [] n.op = "for" -> size = 4
             [] n.op = "switch" -> size - Len(n.vals) \in {1, 2}
             [] OTHER -> size = 0
        /\ \A k \in CondKids(n) : IsCondition(n.kids[k])

IsBody(t) ==
    \A p \in Paths(t) : IsNode(NodeAt(t, p)) /\ (Len(p) < Depth \/ NodeAt(t, p).kids = <<>>)

-----------------------------------------------------------------------------
(* What the type checker lets through: break and continue where            *)
(* loop_depth is not zero, which every loop and every case of a switch     *)
(* raises; gotos and labels are not looked at.                             *)

Accepted(t) ==
    \A p \in Paths(t) :
        NodeAt(t, p).op \in {"break", "continue"} => Around(t, p, Loops \cup {"switch"}) # {}

(* What the manual gives a meaning to: continue goes on with a loop, and   *)
(* goto leads to the one label of that name in the function.               *)

Meaningful(t) ==
    /\ Accepted(t)
    /\ \A p \in Paths(t) :
        /\ NodeAt(t, p).op = "continue" => Around(t, p, Loops) # {}
        /\ NodeAt(t, p).op = "goto" => Labels(t, NodeAt(t, p).name) # {}
        /\ NodeAt(t, p).op = "label" => Labels(t, NodeAt(t, p).name) = {p}

\* The first case of switch n that lists v, or 0.
CaseOf(n, v) == SelectInSeq(n.vals, LAMBDA c : v \in Range(c))

HasDefault(n) == Len(n.kids) = Len(n.vals) + 2
=============================================================================
