----------------------------- MODULE X86MirProofs -----------------------------
(***************************************************************************)
(* Proofs about RegAlloc and X86Mir.  First the allocator: for every       *)
(* function, every number of vregs and every register file.  Then the      *)
(* selection that works with what it gives, whatever the colouring: the    *)
(* code selected does what the SIR says wherever the patterns of           *)
(* Undisturbed are respected.                                              *)
(***************************************************************************)
EXTENDS X86Mir, FiniteSetTheorems, WellFoundedInduction, SequenceTheorems, TLAPS

(* Least picks a member: the natural numbers are well founded.             *)
LEMMA LeastIsMember ==
  ASSUME NEW S \in SUBSET Nat, S # {}
  PROVE  Least(S) \in S /\ \A d \in S : Least(S) <= d
<1> DEFINE T == {1..n : n \in S}
<1>1. T \subseteq FiniteSubsetsOf(Nat) /\ T # {}
  <2>1. \A n \in S : 1..n \subseteq Nat /\ IsFiniteSet(1..n)
    BY FS_Interval
  <2>2. QED
    BY <2>1 DEF FiniteSubsetsOf
<1>2. PICK x \in T : \A y \in T : ~(<<y, x>> \in StrictSubsetOrdering(Nat))
  <2> HIDE DEF T
  <2>1. QED
    BY <1>1, FS_StrictSubsetOrderingWellFounded, WFMin
<1>3. PICK c \in S : x = 1..c
  OBVIOUS
<1>4. ASSUME NEW d \in S PROVE c <= d
  <2>1. ~(1..d \subseteq 1..c /\ 1..d # 1..c)
    <3>1. 1..d \in T /\ 1..d \in SUBSET Nat /\ 1..c \in SUBSET Nat
      OBVIOUS
    <3>2. ~(<<1..d, 1..c>> \in StrictSubsetOrdering(Nat))
      BY <1>2, <1>3, <3>1
    <3> HIDE DEF T
    <3>3. QED
      BY <3>1, <3>2 DEF StrictSubsetOrdering
  <2>2. SUFFICES ASSUME d < c PROVE FALSE
    OBVIOUS
  <2>3. c \in 1..c /\ c \notin 1..d
    BY <2>2
  <2>4. 1..d \subseteq 1..c
    BY <2>2
  <2>5. QED
    BY <2>1, <2>3, <2>4
<1>5. QED
  BY <1>4 DEF Least

(* Every set of vregs is finite, so its cardinality is a number.           *)
LEMMA VregSetCardinality ==
  ASSUME NEW S \in SUBSET Vregs
  PROVE  IsFiniteSet(S) /\ Cardinality(S) \in Nat
<1>1. IsFiniteSet(Vregs)
  BY FS_Interval, MaxVregAssumption DEF Vregs
<1>2. QED
  BY <1>1, FS_Subset, FS_CardinalityType

(* One element more or less.                                               *)
LEMMA CountFacts ==
  ASSUME NEW S \in SUBSET Vregs, NEW x
  PROVE  /\ Cardinality(S) \in Nat
         /\ Cardinality(S \cup {x}) \in Nat /\ Cardinality(S \cup {x}) <= Cardinality(S) + 1
         /\ Cardinality(S \ {x}) \in Nat /\ Cardinality(S \ {x}) <= Cardinality(S)
         /\ x \in S => Cardinality(S \ {x}) = Cardinality(S) - 1
<1>1. IsFiniteSet(S) /\ Cardinality(S) \in Nat
  BY VregSetCardinality
<1>2. Cardinality(S \cup {x}) = IF x \in S THEN Cardinality(S) ELSE Cardinality(S) + 1
  BY <1>1, FS_AddElement
<1>3. Cardinality(S \ {x}) = IF x \in S THEN Cardinality(S) - 1 ELSE Cardinality(S)
  BY <1>1, FS_RemoveElement
<1>4. Cardinality(S \ {x}) \in Nat
  BY VregSetCardinality
<1>5. QED
  BY <1>1, <1>2, <1>3, <1>4

(* What a well-formed function makes of Code, Dest and ArgSet.             *)
LEMMA CodeFacts ==
  ASSUME fn \in Functions
  PROVE  /\ fn.n \in Nat \ {0}
         /\ \A b \in Blocks :
              /\ fn.succ[b] \subseteq Blocks
              /\ Code(b) \in Seq(Insts)
              /\ \A i \in 1..Len(Code(b)) :
                   /\ Dest(b, i) \in Vregs \cup {NoDest}
                   /\ ArgSet(b, i) \subseteq Vregs
<1>1. IsFunction(fn)
  BY FunctionAssumption
<1>2. \A b \in Blocks : fn.succ[b] \subseteq Blocks /\ Code(b) \in Seq(Insts)
  BY <1>1 DEF IsFunction, Blocks, Code
<1>3. ASSUME NEW b \in Blocks, NEW i \in 1..Len(Code(b))
      PROVE  Dest(b, i) \in Vregs \cup {NoDest} /\ ArgSet(b, i) \subseteq Vregs
  <2>1. Code(b)[i] \in Insts
    BY <1>2, <1>3
  <2>2. Code(b)[i].dest \in Vregs \cup {NoDest} /\ Code(b)[i].args \in Seq(Vregs \cup {Const})
    BY <2>1 DEF Insts
  <2>3. QED
    BY <2>2 DEF Dest, ArgSet
<1>4. QED
  BY <1>1, <1>2, <1>3 DEF IsFunction

(* Every colour the preference lists can produce is one get_phys_reg       *)
(* knows, it is not a neighbour's, and it is callee-saved for a vreg that  *)
(* crosses a call.                                                         *)
LEMMA ColorForIsFree ==
  ASSUME TypeOK, NEW v \in Vregs
  PROVE  /\ ColorFor(v) \in Colors \cup {Spilled}
         /\ ColorFor(v) # Spilled => ColorFor(v) \notin UsedByNeighbours(v)
         /\ v \in crosses => ColorFor(v) \in CalleeSaved \cup {Spilled}
<1> DEFINE callee == CalleeSaved \ UsedByNeighbours(v)
           caller == CallerSaved \ UsedByNeighbours(v)
<1>1. callee \in SUBSET Nat /\ caller \in SUBSET Nat
  BY PhysRegAssumption DEF CalleeSaved, CallerSaved
<1>2. callee # {} => Least(callee) \in callee
  BY <1>1, LeastIsMember
<1>3. caller # {} => Least(caller) \in caller
  BY <1>1, LeastIsMember
<1>4. ColorFor(v) = IF v \notin crosses /\ caller # {} THEN Least(caller)
                    ELSE IF callee # {} THEN Least(callee) ELSE Spilled
  BY DEF ColorFor
<1>5. CalleeSaved \subseteq Colors /\ CallerSaved \subseteq Colors
  BY PhysRegAssumption DEF CalleeSaved, CallerSaved, Colors
<1> HIDE DEF callee, caller
<1>6. CASE v \notin crosses /\ caller # {}
  <2>1. ColorFor(v) \in caller
    BY <1>3, <1>4, <1>6
  <2>2. QED
    BY <1>5, <1>6, <2>1 DEF caller
<1>7. CASE ~(v \notin crosses /\ caller # {}) /\ callee # {}
  <2>1. ColorFor(v) \in callee
    BY <1>2, <1>4, <1>7
  <2>2. QED
    BY <1>5, <2>1 DEF callee
<1>8. CASE ~(v \notin crosses /\ caller # {}) /\ callee = {}
  BY <1>4, <1>8
<1>9. QED
  BY <1>6, <1>7, <1>8

-----------------------------------------------------------------------------
(* Type correctness.                                                       *)

LEMMA InitTypeOK == Init => TypeOK
<1> SUFFICES ASSUME Init PROVE TypeOK
  OBVIOUS
<1>1. fn.n \in Nat \ {0}
  BY CodeFacts DEF Init
<1>2. color \in [Vregs -> Colors \cup {Spilled}] /\ degree \in [Vregs -> Int]
  BY DEF Init
<1>3. stack \in Seq(Vregs)
  BY DEF Init
<1>4. QED
  BY <1>1, <1>2, <1>3 DEF Init, TypeOK, Phases

LEMMA InterfereTypeOK == TypeOK /\ InterfereInst => TypeOK'
<1> SUFFICES ASSUME TypeOK, InterfereInst PROVE TypeOK'
  OBVIOUS
<1> DEFINE d     == Dest(blk, inst)
           edges == NewEdges(blk, inst)
<1>1. /\ adj' = [v \in Vregs |->
                      IF v = d THEN adj[v] \cup edges
                      ELSE IF v \in edges THEN adj[v] \cup {d} ELSE adj[v]]
      /\ degree' = [v \in Vregs |->
                      IF v = d THEN degree[v] + Cardinality(edges)
                      ELSE IF v \in edges THEN degree[v] + 1 ELSE degree[v]]
      /\ crosses' = IF CrossesCall(Code(blk)[inst].op)
                    THEN crosses \cup (curLive \ {d}) ELSE crosses
      /\ curLive' = (curLive \ {d}) \cup ArgSet(blk, inst)
  BY DEF InterfereInst
<1>2. edges \subseteq Vregs /\ (edges # {} => d # NoDest)
  BY DEF NewEdges, Conflicts, TypeOK
<1>3. degree' \in [Vregs -> Int]
  BY <1>1, <1>2, VregSetCardinality DEF TypeOK
<1>4. curLive' \subseteq Vregs /\ crosses' \subseteq Vregs
  <2>1. blk \in Blocks /\ inst \in 1..Len(Code(blk)) /\ fn \in Functions
    BY DEF InterfereInst, TypeOK
  <2>2. ArgSet(blk, inst) \subseteq Vregs
    BY <2>1, CodeFacts
  <2>3. QED
    BY <1>1, <2>2 DEF TypeOK
<1>5. adj' \in [Vregs -> SUBSET Vregs]
  <2>1. edges # {} => d \in Vregs
    BY <1>2, CodeFacts DEF InterfereInst, TypeOK, NoDest
  <2>2. ASSUME NEW v \in Vregs
        PROVE  (IF v = d THEN adj[v] \cup edges
                ELSE IF v \in edges THEN adj[v] \cup {d} ELSE adj[v]) \subseteq Vregs
    BY <1>2, <2>1 DEF TypeOK
  <2> HIDE DEF d, edges
  <2>3. QED
    BY <1>1, <2>2
<1>6. /\ inst' \in Nat
      /\ phase' = "interfere" => blk' \in Blocks' /\ inst' <= Len(Code(blk))'
  BY DEF InterfereInst, TypeOK, Blocks, Code
<1>7. UNCHANGED <<fn, opt, phase, blk, stack, liveVars, colorVars>>
  BY DEF InterfereInst
<1>8. QED
  BY <1>3, <1>4, <1>5, <1>6, <1>7 DEF TypeOK, liveVars, colorVars, Blocks

(* The steps of the liveness sweep.                                        *)
LEMMA LivenessTypeOK ==
  ASSUME TypeOK, LiveBlock \/ EndSweep \/ NextBlock
  PROVE  TypeOK'
<1> USE DEF Blocks, Code, liveVars, graphVars, colorVars
<1>0. fn \in Functions /\ fn.n \in Nat \ {0}
  BY CodeFacts DEF TypeOK
<1>1. CASE LiveBlock
  <2>1. OutOf(blk) \subseteq Vregs /\ InOf(blk, OutOf(blk)) \subseteq Vregs
    <3>1. blk \in Blocks
      BY <1>1 DEF LiveBlock, TypeOK
    <3>2. fn.succ[blk] \subseteq Blocks
      BY <3>1, CodeFacts DEF TypeOK
    <3>3. QED
      BY <3>1, <3>2 DEF OutOf, InOf, UseSet, TypeOK
  <2>2. liveIn' \in [Blocks -> SUBSET Vregs] /\ liveOut' \in [Blocks -> SUBSET Vregs]
    BY <1>1, <2>1 DEF LiveBlock, TypeOK
  <2>3. changed' \in BOOLEAN
    BY <1>1 DEF LiveBlock, TypeOK
  <2>4. QED
    BY <1>0, <1>1, <2>2, <2>3 DEF LiveBlock, TypeOK
<1>2. ASSUME NEW b \in Blocks, EnterBlock(b)
      PROVE  inst' \in Nat /\ blk' = b /\ inst' <= Len(Code(b)) /\ curLive' \subseteq Vregs
  <2>1. Len(Code(b)) \in Nat
    BY <1>0, CodeFacts
  <2>2. blk' = b /\ inst' = Len(Code(b)) /\ curLive' = liveOut[b]
    BY <1>2 DEF EnterBlock
  <2>3. liveOut[b] \in SUBSET Vregs
    BY DEF TypeOK
  <2>4. inst' \in Nat /\ inst' <= Len(Code(b))
    BY <2>1, <2>2
  <2>5. QED
    BY <2>2, <2>3, <2>4
<1>3. CASE EndSweep
  <2>1. CASE changed
    <3>1. blk' = fn.n /\ changed' = FALSE /\ UNCHANGED <<phase, inst, curLive>>
      BY <1>3, <2>1 DEF EndSweep, BeginSweep
    <3>2. fn.n \in 0..fn.n
      BY <1>0
    <3>3. QED
      BY <1>3, <3>1, <3>2 DEF EndSweep, TypeOK
  <2>2. CASE ~changed
    <3>1. EnterBlock(1) /\ 1 \in Blocks
      BY <1>0, <1>3, <2>2 DEF EndSweep
    <3>2. QED
      BY <1>0, <1>2, <1>3, <2>2, <3>1 DEF EndSweep, TypeOK, Phases
  <2>3. QED
    BY <2>1, <2>2
<1>4. CASE NextBlock
  <2>1. CASE blk < fn.n
    <3>1. EnterBlock(blk + 1) /\ blk + 1 \in Blocks
      BY <1>0, <1>4, <2>1 DEF NextBlock, TypeOK
    <3>2. QED
      BY <1>0, <1>2, <1>4, <2>1, <3>1 DEF NextBlock, TypeOK
  <2>2. CASE ~(blk < fn.n)
    BY <1>4, <2>2 DEF NextBlock, TypeOK, Phases
  <2>3. QED
    BY <2>1, <2>2
<1>5. QED
  BY <1>1, <1>3, <1>4

(* The steps of simplify and select.                                       *)
LEMMA ColoringTypeOK ==
  ASSUME TypeOK, (\E v \in Vregs : SimplifyNode(v)) \/ EndSimplify \/ SelectNode \/ EndSelect
  PROVE  TypeOK'
<1> USE DEF Blocks, Code, liveVars, graphVars, colorVars
<1>1. ASSUME NEW v \in Vregs, SimplifyNode(v) PROVE TypeOK'
  <2>1. stack' \in Seq(Vregs) /\ degree' \in [Vregs -> Int]
    BY <1>1 DEF SimplifyNode, TypeOK
  <2>2. QED
    BY <1>1, <2>1 DEF SimplifyNode, TypeOK
<1>2. CASE EndSimplify \/ EndSelect
  BY <1>2 DEF EndSimplify, EndSelect, TypeOK, Phases
<1>3. CASE SelectNode
  <2> DEFINE v == stack[Len(stack)]
  <2>1. v \in Vregs /\ stack' \in Seq(Vregs)
    BY <1>3 DEF SelectNode, TypeOK
  <2>2. ColorFor(v) \in Colors \cup {Spilled}
    BY <2>1, ColorForIsFree
  <2>3. /\ color' \in [Vregs -> Colors \cup {Spilled}]
        /\ usedCalleeSaved' \subseteq Colors
    BY <1>3, <2>1, <2>2 DEF SelectNode, TypeOK
  <2>4. QED
    BY <1>3, <2>1, <2>3 DEF SelectNode, TypeOK
<1>4. QED
  BY <1>1, <1>2, <1>3

LEMMA NextTypeOK == TypeOK /\ [Next]_vars => TypeOK'
<1> SUFFICES ASSUME TypeOK, [Next]_vars PROVE TypeOK'
  OBVIOUS
<1> USE DEF Blocks, Code, liveVars, graphVars, colorVars
<1>1. CASE SkipAtO0
  BY <1>1 DEF SkipAtO0, TypeOK, Phases
<1>2. CASE StartLiveness
  <2>1. fn.n \in Nat \ {0}
    BY CodeFacts DEF TypeOK
  <2>2. blk' = fn.n /\ changed' = FALSE /\ phase' = "liveness"
    BY <1>2 DEF StartLiveness, BeginSweep
  <2>3. fn.n \in 0..fn.n /\ "liveness" \in Phases
    BY <2>1 DEF Phases
  <2>4. QED
    BY <1>2, <2>2, <2>3 DEF StartLiveness, TypeOK
<1>3. CASE UNCHANGED vars
  BY <1>3 DEF vars, TypeOK
<1>4. QED
  BY <1>1, <1>2, <1>3, InterfereTypeOK, LivenessTypeOK, ColoringTypeOK DEF Next

(* The allocator never leaves its types: in particular every colour it     *)
(* stores indexes get_phys_reg's table and the scans stay inside their     *)
(* block (reg_alloc_build_and_color).                                      *)
THEOREM TypeCorrect == Spec => []TypeOK
<1>1. QED
  BY InitTypeOK, NextTypeOK, PTL DEF Spec

-----------------------------------------------------------------------------
(* The liveness sweep.                                                     *)

(* A sweep step only adds: the live-out set of the block becomes the union *)
(* of its successors' live-in sets and its live-in set does not shrink.    *)
LEMMA LiveBlockGrows ==
  ASSUME TypeOK, SweepInv, LiveBlock
  PROVE  /\ blk \in Blocks
         /\ OutOf(blk) = UNION {liveIn[s] : s \in fn.succ[blk]}
         /\ liveOut' = [liveOut EXCEPT ![blk] = OutOf(blk)]
         /\ liveIn' = [liveIn EXCEPT ![blk] = InOf(blk, OutOf(blk))]
         /\ liveIn[blk] \subseteq InOf(blk, OutOf(blk))
         /\ \A b \in Blocks : liveIn[b] \subseteq liveIn'[b]
<1>1. blk \in Blocks
  BY DEF LiveBlock, TypeOK, Blocks
<1>2. OutOf(blk) = UNION {liveIn[s] : s \in fn.succ[blk]}
  BY <1>1 DEF OutOf, SweepInv
<1>3. /\ liveOut' = [liveOut EXCEPT ![blk] = OutOf(blk)]
      /\ liveIn' = [liveIn EXCEPT ![blk] = InOf(blk, OutOf(blk))]
  BY DEF LiveBlock
<1>4. liveIn[blk] \subseteq InOf(blk, OutOf(blk))
  <2>1. liveIn[blk] \subseteq InOf(blk, liveOut[blk])
    BY <1>1 DEF SweepInv
  <2>2. liveOut[blk] \subseteq OutOf(blk)
    BY DEF OutOf
  <2>3. QED
    BY <2>1, <2>2 DEF InOf
<1>5. \A b \in Blocks : liveIn[b] \subseteq liveIn'[b]
  BY <1>1, <1>3, <1>4 DEF TypeOK
<1>6. QED
  BY <1>1, <1>2, <1>3, <1>4, <1>5

LEMMA LiveBlockSweepInv ==
  ASSUME TypeOK, SweepInv, LiveBlock
  PROVE  SweepInv'
<1> USE LiveBlockGrows
<1>0. fn' = fn /\ blk' = blk - 1 /\ Blocks' = Blocks
  BY DEF LiveBlock, Blocks
<1>1. ASSUME NEW b \in Blocks
      PROVE  /\ liveOut'[b] \subseteq UNION {liveIn'[s] : s \in fn.succ[b]}
             /\ liveIn'[b] \subseteq InOf(b, liveOut'[b])
  <2>1. \A s \in fn.succ[b] : liveIn[s] \subseteq liveIn'[s]
    BY CodeFacts DEF TypeOK
  <2>2. UNION {liveIn[s] : s \in fn.succ[b]} \subseteq UNION {liveIn'[s] : s \in fn.succ[b]}
    BY <2>1
  <2>3. CASE b = blk
    <3>1. liveOut'[b] = OutOf(blk) /\ liveIn'[b] = InOf(b, OutOf(blk))
      BY <2>3 DEF TypeOK
    <3>2. OutOf(blk) = UNION {liveIn[s] : s \in fn.succ[b]}
      BY <2>3
    <3>3. QED
      BY <2>2, <3>1, <3>2
  <2>4. CASE b # blk
    <3>1. liveOut'[b] = liveOut[b] /\ liveIn'[b] = liveIn[b]
      BY <2>4 DEF TypeOK
    <3>2. QED
      BY <2>2, <3>1 DEF SweepInv
  <2>5. QED
    BY <2>3, <2>4
<1>2. ASSUME changed' = FALSE, NEW b \in blk..fn.n
      PROVE  /\ liveOut'[b] = UNION {liveIn'[s] : s \in fn.succ[b]}
             /\ liveIn'[b] = InOf(b, liveOut'[b])
  <2>1. ~changed /\ InOf(blk, OutOf(blk)) = liveIn[blk]
    BY <1>2 DEF LiveBlock, TypeOK
  <2>2. liveIn' = liveIn
    BY <2>1 DEF TypeOK
  <2>3. b \in Blocks
    BY CodeFacts DEF TypeOK, Blocks
  <2>4. CASE b = blk
    BY <2>1, <2>2, <2>3, <2>4 DEF TypeOK
  <2>5. CASE b # blk
    <3>1. liveOut'[b] = liveOut[b]
      BY <2>3, <2>5 DEF TypeOK
    <3>2. b \in (blk + 1)..fn.n /\ phase = "liveness"
      BY <2>5, CodeFacts DEF LiveBlock, TypeOK, Blocks
    <3>3. LiveOutEquation(b) /\ LiveInEquation(b)
      BY <2>1, <3>2 DEF SweepInv
    <3>4. QED
      BY <2>2, <3>1, <3>3 DEF LiveOutEquation, LiveInEquation
  <2>6. QED
    BY <2>4, <2>5
<1>3. \A b : InOf(b, liveOut[b])' = InOf(b, liveOut'[b])
  BY <1>0 DEF InOf, UseSet, DefSet, Code, ArgSet, Dest
<1>4. changed' \in BOOLEAN
  BY NextTypeOK DEF Next, TypeOK
<1>5. blk' + 1 = blk
  BY <1>0 DEF TypeOK
<1>6. \A b \in Blocks' : /\ liveOut'[b] \subseteq UNION {liveIn'[s] : s \in fn'.succ[b]}
                          /\ liveIn'[b] \subseteq InOf(b, liveOut[b])'
  BY <1>0, <1>1, <1>3
<1>7. ~changed' => \A b \in (blk' + 1)..fn'.n :
                      /\ liveOut'[b] = UNION {liveIn'[s] : s \in fn'.succ[b]}
                      /\ liveIn'[b] = InOf(b, liveOut[b])'
  BY <1>0, <1>2, <1>3, <1>4, <1>5
<1>8. QED
  BY <1>6, <1>7 DEF SweepInv, LiveOutEquation, LiveInEquation

(* The equations and the sweep invariant only look at the function and the *)
(* live sets.                                                              *)
LEMMA SweepInvFrame ==
  ASSUME SweepInv, UNCHANGED <<fn, liveIn, liveOut>>,
         phase' = "liveness" /\ ~changed' => blk' = fn.n /\ fn.n \in Nat
  PROVE  SweepInv'
<1>1. Blocks' = Blocks /\ \A b : InOf(b, liveOut[b])' = InOf(b, liveOut[b])
  BY DEF Blocks, InOf, UseSet, DefSet, Code, ArgSet, Dest
<1>2. \A b \in (fn.n + 1)..fn.n : fn.n \in Nat => FALSE
  OBVIOUS
<1>3. QED
  BY <1>1, <1>2 DEF SweepInv, LiveOutEquation, LiveInEquation

LEMMA NextSweepInv ==
  ASSUME TypeOK, SweepInv, [Next]_vars
  PROVE  SweepInv'
<1> USE DEF liveVars
<1>0. fn.n \in Nat /\ fn.n > 0
  BY CodeFacts DEF TypeOK
<1>1. CASE LiveBlock
  BY <1>1, LiveBlockSweepInv
<1>2. CASE StartLiveness \/ EndSweep
  BY <1>0, <1>2, SweepInvFrame DEF StartLiveness, EndSweep, BeginSweep, TypeOK
<1>3. CASE SkipAtO0 \/ InterfereInst \/ NextBlock \/ EndSimplify \/ SelectNode \/ EndSelect
  BY <1>3, SweepInvFrame
     DEF SkipAtO0, InterfereInst, NextBlock, EndSimplify, SelectNode, EndSelect
<1>4. ASSUME NEW v \in Vregs, SimplifyNode(v) PROVE SweepInv'
  BY <1>4, SweepInvFrame DEF SimplifyNode
<1>5. CASE UNCHANGED vars
  <2>1. Blocks' = Blocks /\ \A b : InOf(b, liveOut[b])' = InOf(b, liveOut[b])
    BY <1>5 DEF vars, Blocks, InOf, UseSet, DefSet, Code, ArgSet, Dest
  <2>2. QED
    BY <1>5, <2>1 DEF vars, SweepInv, LiveOutEquation, LiveInEquation
<1>6. QED
  BY <1>1, <1>2, <1>3, <1>4, <1>5 DEF Next

LEMMA NextFixpoint ==
  ASSUME TypeOK, SweepInv, LivenessIsFixpoint, [Next]_vars
  PROVE  LivenessIsFixpoint'
<1> USE DEF liveVars
<1>1. CASE EndSweep
  <2>1. CASE changed
    BY <1>1, <2>1 DEF EndSweep, LivenessIsFixpoint
  <2>2. CASE ~changed
    <3>1. \A b \in Blocks : LiveOutEquation(b) /\ LiveInEquation(b)
      BY <1>1, <2>2 DEF EndSweep, SweepInv, Blocks
    <3>2. UNCHANGED <<fn, liveIn, liveOut>>
      BY <1>1 DEF EndSweep
    <3>3. Blocks' = Blocks /\ \A b : InOf(b, liveOut[b])' = InOf(b, liveOut[b])
      BY <3>2 DEF Blocks, InOf, UseSet, DefSet, Code, ArgSet, Dest
    <3>4. QED
      BY <3>1, <3>2, <3>3 DEF LivenessIsFixpoint, LiveOutEquation, LiveInEquation
  <2>3. QED
    BY <2>1, <2>2
<1>2. CASE SkipAtO0 \/ StartLiveness \/ LiveBlock
  BY <1>2 DEF SkipAtO0, StartLiveness, LiveBlock, LivenessIsFixpoint
<1>3. ASSUME UNCHANGED <<fn, opt, liveIn, liveOut>>, phase \notin {"start", "liveness"} \/ phase' = phase
      PROVE  LivenessIsFixpoint'
  <2>1. Blocks' = Blocks /\ \A b : InOf(b, liveOut[b])' = InOf(b, liveOut[b])
    BY <1>3 DEF Blocks, InOf, UseSet, DefSet, Code, ArgSet, Dest
  <2>2. QED
    BY <1>3, <2>1 DEF LivenessIsFixpoint, LiveOutEquation, LiveInEquation
<1>4. CASE InterfereInst \/ NextBlock \/ EndSimplify \/ SelectNode \/ EndSelect
  BY <1>3, <1>4 DEF InterfereInst, NextBlock, EndSimplify, SelectNode, EndSelect
<1>5. ASSUME NEW v \in Vregs, SimplifyNode(v) PROVE LivenessIsFixpoint'
  BY <1>3, <1>5 DEF SimplifyNode
<1>6. CASE UNCHANGED vars
  BY <1>3, <1>6 DEF vars
<1>7. QED
  BY <1>1, <1>2, <1>4, <1>5, <1>6 DEF Next

LEMMA NextOptInv == OptInv /\ [Next]_vars => OptInv'
BY DEF OptInv, Next, vars, SkipAtO0, StartLiveness, LiveBlock, EndSweep, InterfereInst,
       NextBlock, SimplifyNode, EndSimplify, SelectNode, EndSelect

-----------------------------------------------------------------------------
(* The interference graph.                                                 *)

(* Everything live out of the block is live after its last instruction.    *)
LEMMA LiveAfterLast ==
  ASSUME NEW b \in Blocks, Len(Code(b)) \in Nat, NEW out \in SUBSET Vregs
  PROVE  LiveAfter(b, Len(Code(b)), out) = out
BY DEF LiveAfter

(* One instruction backwards: what it defines dies, what it reads is live. *)
LEMMA LiveBefore ==
  ASSUME fn \in Functions, NEW b \in Blocks, NEW i \in 1..Len(Code(b)), NEW out
  PROVE  LiveAfter(b, i - 1, out) = (LiveAfter(b, i, out) \ {Dest(b, i)}) \cup ArgSet(b, i)
<1> DEFINE len == Len(Code(b))
<1>1. len \in Nat /\ ArgSet(b, i) \subseteq Vregs
  BY CodeFacts
<1> HIDE DEF len
<1>2. i \in 1..len
  BY DEF len
<1>3. ASSUME NEW v \in Vregs
      PROVE  v \in LiveAfter(b, i - 1, out) <=>
               v \in (LiveAfter(b, i, out) \ {Dest(b, i)}) \cup ArgSet(b, i)
  <2>1. v \in LiveAfter(b, i - 1, out) <=>
          \/ \E j \in i..len : v \in ArgSet(b, j) /\ \A k \in i..(j - 1) : Dest(b, k) # v
          \/ v \in out /\ \A k \in i..len : Dest(b, k) # v
    BY <1>1, <1>2 DEF LiveAfter, len
  <2>2. v \in LiveAfter(b, i, out) <=>
          \/ \E j \in (i + 1)..len : v \in ArgSet(b, j) /\ \A k \in (i + 1)..(j - 1) : Dest(b, k) # v
          \/ v \in out /\ \A k \in (i + 1)..len : Dest(b, k) # v
    BY DEF LiveAfter, len
  <2>3. CASE v \in ArgSet(b, i)
    <3>1. \A k \in i..(i - 1) : FALSE
      BY <1>2
    <3>2. i \in i..len
      BY <1>1, <1>2
    <3>3. QED
      BY <2>1, <2>3, <3>1, <3>2
  <2>4. CASE v \notin ArgSet(b, i) /\ v = Dest(b, i)
    <3>1. \A j \in i..len : j # i => i \in i..(j - 1)
      BY <1>1, <1>2
    <3>2. i \in i..len
      BY <1>1, <1>2
    <3>3. QED
      BY <2>1, <2>4, <3>1, <3>2
  <2>5. CASE v \notin ArgSet(b, i) /\ v # Dest(b, i)
    <3>1. ASSUME NEW j \in i..len PROVE j = i \/ j \in (i + 1)..len
      BY <1>1, <1>2
    <3>2. ASSUME NEW j \in (i + 1)..len PROVE j \in i..len
      BY <1>1, <1>2
    <3>3. ASSUME NEW m \in Int, NEW k \in i..m PROVE k = i \/ k \in (i + 1)..m
      BY <1>2
    <3>4. ASSUME NEW m \in Int, NEW k \in (i + 1)..m PROVE k \in i..m
      BY <1>2
    <3>5. \A m \in Int : (\A k \in i..m : Dest(b, k) # v) <=>
                         (\A k \in (i + 1)..m : Dest(b, k) # v)
      BY <2>5, <3>3, <3>4
    <3>6. len \in Int /\ \A j \in i..len : j - 1 \in Int
      BY <1>1, <1>2
    <3>7. QED
      BY <2>1, <2>2, <2>5, <3>1, <3>2, <3>5, <3>6
  <2>6. QED
    BY <2>3, <2>4, <2>5
<1>4. LiveAfter(b, i - 1, out) \subseteq Vregs /\ LiveAfter(b, i, out) \subseteq Vregs
  BY DEF LiveAfter
<1>5. QED
  BY <1>1, <1>3, <1>4

(* Steps that leave the graph alone and scan nothing.                      *)
LEMMA GraphFrame ==
  ASSUME TypeOK, GraphInv, UNCHANGED <<fn, adj, crosses>>,
         \A b \in Blocks : \A i \in 1..Len(Code(b)) :
           Scanned(b, i)' => Scanned(b, i) /\ UNCHANGED liveOut,
         phase' = "interfere" => /\ UNCHANGED liveOut /\ blk' \in Blocks
                                 /\ curLive' = LiveAfter(blk', inst', liveOut[blk'])
  PROVE  GraphInv'
<1>1. \A b, i, out : /\ LiveAfter(b, i, out)' = LiveAfter(b, i, out')
                     /\ Code(b)' = Code(b) /\ Dest(b, i)' = Dest(b, i)
  BY DEF LiveAfter, Code, ArgSet, Dest
<1>2. Blocks' = Blocks
  BY DEF Blocks
<1>3. \A u, v \in Vregs : v \in adj'[u] => u \in adj'[v] /\ u # v
  BY DEF GraphInv
<1>4. phase' = "interfere" => curLive' = LiveAfter(blk, inst, liveOut[blk])'
  BY <1>1
<1>5. ASSUME NEW b \in Blocks, NEW i \in 1..Len(Code(b)), Scanned(b, i)'
      PROVE  \A v \in LiveAfter(b, i, liveOut[b])' \ {Dest(b, i)} :
               /\ Dest(b, i) # NoDest => v \in adj'[Dest(b, i)]
               /\ CrossesCall(Code(b)[i].op) => v \in crosses'
  <2>1. Scanned(b, i) /\ liveOut' = liveOut
    BY <1>5
  <2>2. LiveAfter(b, i, liveOut[b])' = LiveAfter(b, i, liveOut[b])
    BY <1>1, <2>1
  <2>3. QED
    BY <2>1, <2>2 DEF GraphInv
<1>6. QED
  BY <1>1, <1>2, <1>3, <1>4, <1>5 DEF GraphInv, CrossesCall

(* The scan of one instruction.                                            *)
LEMMA InterfereGraphInv ==
  ASSUME TypeOK, GraphInv, InterfereInst
  PROVE  GraphInv'
<1> DEFINE d     == Dest(blk, inst)
           edges == NewEdges(blk, inst)
<1>1. /\ adj' = [v \in Vregs |->
                      IF v = d THEN adj[v] \cup edges
                      ELSE IF v \in edges THEN adj[v] \cup {d} ELSE adj[v]]
      /\ crosses' = IF CrossesCall(Code(blk)[inst].op)
                    THEN crosses \cup (curLive \ {d}) ELSE crosses
      /\ curLive' = (curLive \ {d}) \cup ArgSet(blk, inst)
      /\ inst' = inst - 1 /\ phase = "interfere" /\ UNCHANGED <<fn, opt, phase, blk, liveOut>>
  BY DEF InterfereInst, liveVars
<1>2. /\ blk \in Blocks /\ inst \in 1..Len(Code(blk)) /\ fn \in Functions
      /\ d \in Vregs \cup {NoDest}
  BY CodeFacts DEF InterfereInst, TypeOK
<1>3. \A b, i, out : /\ LiveAfter(b, i, out)' = LiveAfter(b, i, out')
                     /\ Code(b)' = Code(b) /\ Dest(b, i)' = Dest(b, i)
  BY <1>1 DEF LiveAfter, Code, ArgSet, Dest
<1>4. curLive = LiveAfter(blk, inst, liveOut[blk]) /\ curLive \subseteq Vregs
  BY <1>1 DEF GraphInv, TypeOK
<1>5. edges = IF d = NoDest THEN {} ELSE (curLive \ {d}) \ adj[d]
  BY DEF NewEdges, Conflicts
<1>6. \A u, v \in Vregs : v \in adj'[u] => u \in adj'[v] /\ u # v
  <2> HIDE DEF d, edges
  <2>1. ASSUME NEW u \in Vregs, NEW v \in Vregs, v \in adj'[u]
        PROVE  u \in adj'[v] /\ u # v
    <3>1. v \in adj[u] => u \in adj[v] /\ u # v
      BY DEF GraphInv
    <3>2. d \notin edges
      BY <1>5
    <3>3. \/ v \in adj[u]
          \/ u = d /\ v \in edges
          \/ u # d /\ u \in edges /\ v = d
      BY <1>1, <2>1
    <3>4. QED
      BY <1>1, <3>1, <3>2, <3>3
  <2>2. QED
    BY <2>1
<1>7. curLive' = LiveAfter(blk, inst, liveOut[blk])'
  BY <1>1, <1>2, <1>3, <1>4, LiveBefore
<1>8. ASSUME NEW u \in Vregs PROVE adj[u] \subseteq adj'[u]
  BY <1>1
<1>9. ASSUME NEW b \in Blocks, NEW i \in 1..Len(Code(b)), Scanned(b, i)',
             NEW v \in LiveAfter(b, i, liveOut[b]) \ {Dest(b, i)}
      PROVE  /\ Dest(b, i) # NoDest => v \in adj'[Dest(b, i)]
             /\ CrossesCall(Code(b)[i].op) => v \in crosses'
  <2>0. Dest(b, i) \in Vregs \cup {NoDest}
    BY <1>2, CodeFacts
  <2>1. CASE b = blk /\ i = inst
    <3>1. v \in curLive \ {d} /\ Dest(b, i) = d
      BY <1>4, <1>9, <2>1
    <3> HIDE DEF d, edges
    <3>2. d # NoDest => v \in adj'[d]
      <4>1. SUFFICES ASSUME d # NoDest PROVE v \in adj'[d]
        OBVIOUS
      <4>2. d \in Vregs
        BY <1>2, <4>1
      <4>3. adj'[d] = adj[d] \cup edges
        BY <1>1, <4>2
      <4>4. v \in adj[d] \/ v \in edges
        BY <1>5, <3>1, <4>1
      <4>5. QED
        BY <4>3, <4>4
    <3>3. CrossesCall(Code(b)[i].op) => v \in crosses'
      BY <1>1, <2>1, <3>1
    <3>4. QED
      BY <3>1, <3>2, <3>3
  <2>2. CASE ~(b = blk /\ i = inst)
    <3>1. Scanned(b, i)
      BY <1>1, <1>2, <1>9, <2>2 DEF Scanned, Blocks
    <3>2. /\ Dest(b, i) # NoDest => v \in adj[Dest(b, i)]
          /\ CrossesCall(Code(b)[i].op) => v \in crosses
      BY <1>9, <3>1 DEF GraphInv
    <3>3. crosses \subseteq crosses'
      BY <1>1
    <3>4. QED
      BY <1>8, <2>0, <3>2, <3>3
  <2>3. QED
    BY <2>1, <2>2
<1>10. Blocks' = Blocks
  BY <1>1 DEF Blocks
<1>11. \A b : LiveAfter(b, 0, liveOut[b])' = LiveAfter(b, 0, liveOut[b])
  BY <1>1, <1>3
<1>12. \A b, i : LiveAfter(b, i, liveOut[b])' = LiveAfter(b, i, liveOut[b])
  BY <1>1, <1>3
<1>13. QED
  BY <1>3, <1>6, <1>7, <1>9, <1>10, <1>12 DEF GraphInv, CrossesCall

LEMMA NextGraphInv ==
  ASSUME TypeOK, GraphInv, OptInv, [Next]_vars
  PROVE  GraphInv'
<1> USE DEF liveVars, graphVars, colorVars
<1>0. fn \in Functions /\ fn.n \in Nat \ {0} /\ 1 \in Blocks
  BY CodeFacts DEF TypeOK, Blocks
<1>1. CASE InterfereInst
  BY <1>1, InterfereGraphInv
<1>2. CASE SkipAtO0 \/ StartLiveness \/ LiveBlock
  <2>1. UNCHANGED <<fn, adj, crosses>> /\ phase' # "interfere"
    BY <1>2 DEF SkipAtO0, StartLiveness, LiveBlock
  <2>2. \A b, i : ~Scanned(b, i)'
    BY <1>2 DEF SkipAtO0, StartLiveness, LiveBlock, Scanned, OptInv
  <2>3. QED
    BY <2>1, <2>2, GraphFrame
<1>3. ASSUME NEW b \in Blocks, EnterBlock(b), UNCHANGED <<fn, liveOut>>
      PROVE  /\ blk' \in Blocks /\ blk' = b /\ inst' = Len(Code(b))
             /\ curLive' = LiveAfter(blk', inst', liveOut[blk'])
  <2>1. Len(Code(b)) \in Nat /\ liveOut[b] \in SUBSET Vregs
    BY <1>0, CodeFacts DEF TypeOK
  <2>2. QED
    BY <1>3, <2>1, LiveAfterLast DEF EnterBlock
<1>4. CASE EndSweep
  <2>1. UNCHANGED <<fn, adj, crosses, liveOut>>
    BY <1>4 DEF EndSweep
  <2>2. CASE changed
    BY <1>4, <2>1, <2>2, GraphFrame DEF EndSweep, Scanned
  <2>3. CASE ~changed
    <3>1. EnterBlock(1) /\ phase' = "interfere"
      BY <1>4, <2>3 DEF EndSweep
    <3>2. \A b \in Blocks : \A i \in 1..Len(Code(b)) : ~Scanned(b, i)'
      <4>1. blk' = 1 /\ inst' = Len(Code(1))
        BY <3>1 DEF EnterBlock
      <4>2. Len(Code(1)) \in Nat
        BY <1>0, CodeFacts
      <4>3. QED
        BY <3>1, <4>1, <4>2 DEF Scanned, Blocks
    <3>3. QED
      BY <1>0, <1>3, <2>1, <3>1, <3>2, GraphFrame
  <2>4. QED
    BY <2>2, <2>3
<1>5. CASE NextBlock
  <2>1. UNCHANGED <<fn, opt, adj, crosses, liveOut>> /\ inst = 0 /\ phase = "interfere"
    BY <1>5 DEF NextBlock
  <2>2. blk \in Blocks
    BY <2>1 DEF TypeOK
  <2>3. CASE blk < fn.n
    <3>1. EnterBlock(blk + 1) /\ blk + 1 \in Blocks /\ phase' = "interfere"
      BY <1>0, <1>5, <2>2, <2>3 DEF NextBlock, Blocks
    <3>2. \A b \in Blocks : \A i \in 1..Len(Code(b)) : Scanned(b, i)' => Scanned(b, i)
      <4>1. blk' = blk + 1 /\ inst' = Len(Code(blk + 1))
        BY <3>1 DEF EnterBlock
      <4>2. QED
        BY <1>0, <2>1, <2>2, <3>1, <4>1 DEF Scanned, Blocks
    <3>3. QED
      BY <1>3, <2>1, <3>1, <3>2, GraphFrame
  <2>4. CASE ~(blk < fn.n)
    <3>1. phase' = "simplify" /\ blk = fn.n
      BY <1>0, <1>5, <2>2, <2>4 DEF NextBlock, Blocks
    <3>2. \A b \in Blocks : \A i \in 1..Len(Code(b)) : Scanned(b, i)
      BY <1>0, <2>1, <3>1 DEF Scanned, Blocks
    <3>3. QED
      BY <2>1, <3>1, <3>2, GraphFrame
  <2>5. QED
    BY <2>3, <2>4
<1>6. CASE EndSimplify \/ SelectNode \/ EndSelect \/ \E v \in Vregs : SimplifyNode(v)
  <2>1. UNCHANGED <<fn, opt, adj, crosses, liveOut>> /\ phase' # "interfere"
    BY <1>6 DEF EndSimplify, SelectNode, EndSelect, SimplifyNode
  <2>2. \A b, i : Scanned(b, i)' => Scanned(b, i)
    BY <1>6 DEF EndSimplify, SelectNode, EndSelect, SimplifyNode, Scanned
  <2>3. QED
    BY <2>1, <2>2, GraphFrame
<1>7. CASE UNCHANGED vars
  <2>1. \A b, i : Scanned(b, i)' => Scanned(b, i)
    BY <1>7 DEF vars, Scanned
  <2>2. phase' = "interfere" => blk' \in Blocks /\ curLive' = LiveAfter(blk', inst', liveOut[blk'])
    BY <1>7 DEF vars, GraphInv, TypeOK
  <2>3. QED
    BY <1>7, <2>1, <2>2, GraphFrame DEF vars
<1>8. QED
  BY <1>1, <1>2, <1>4, <1>5, <1>6, <1>7 DEF Next

-----------------------------------------------------------------------------
(* The colours.                                                            *)

LEMMA SelectColorInv ==
  ASSUME TypeOK, GraphInv, ColorInv, OptInv, SelectNode
  PROVE  ColorInv'
<1> DEFINE v == stack[Len(stack)]
<1>1. v \in Vregs
  BY DEF SelectNode, TypeOK
<1>2. color' = [color EXCEPT ![v] = ColorFor(v)] /\ phase' = "select" /\ opt # 0
  BY DEF SelectNode, OptInv
<1>3. UNCHANGED <<opt, adj, crosses>>
  BY DEF SelectNode, graphVars
<1> HIDE DEF v
<1>4. color'[v] = ColorFor(v) /\ \A u \in Vregs \ {v} : color'[u] = color[u]
  BY <1>1, <1>2 DEF TypeOK
<1>5. ASSUME NEW u \in Vregs, NEW w \in adj[u], color'[u] # Spilled, color'[w] # Spilled
      PROVE  color'[u] # color'[w]
  <2>1. w \in Vregs /\ u \in adj[w] /\ u # w
    BY <1>5 DEF TypeOK, GraphInv
  <2>2. CASE u = v
    <3>1. color[w] \in UsedByNeighbours(v)
      BY <1>5, <2>2 DEF UsedByNeighbours
    <3>2. color'[w] = color[w]
      BY <1>4, <2>1, <2>2
    <3>3. QED
      BY <1>1, <1>4, <1>5, <2>2, <3>1, <3>2, ColorForIsFree
  <2>3. CASE w = v
    <3>1. color[u] \in UsedByNeighbours(v)
      BY <2>1, <2>3 DEF UsedByNeighbours
    <3>2. color'[u] = color[u]
      BY <1>4, <2>1, <2>3
    <3>3. QED
      BY <1>1, <1>4, <1>5, <2>3, <3>1, <3>2, ColorForIsFree
  <2>4. CASE u # v /\ w # v
    BY <1>4, <1>5, <2>1, <2>4 DEF ColorInv
  <2>5. QED
    BY <2>2, <2>3, <2>4
<1>6. ASSUME NEW u \in crosses PROVE color'[u] \in CalleeSaved \cup {Spilled}
  <2>1. u \in Vregs
    BY DEF TypeOK
  <2>2. CASE u = v
    BY <1>1, <1>4, <2>2, ColorForIsFree
  <2>3. CASE u # v
    BY <1>4, <2>1, <2>3 DEF ColorInv
  <2>4. QED
    BY <2>2, <2>3
<1>7. QED
  BY <1>2, <1>3, <1>5, <1>6 DEF ColorInv, CalleeSaved

LEMMA NextColorInv ==
  ASSUME TypeOK, GraphInv, ColorInv, OptInv, [Next]_vars
  PROVE  ColorInv'
<1> USE DEF liveVars, graphVars, colorVars
<1>1. CASE SelectNode
  BY <1>1, SelectColorInv
<1>2. CASE InterfereInst
  <2>1. UNCHANGED <<opt, phase, color>> /\ \A v \in Vregs : color[v] = Spilled
    BY <1>2 DEF InterfereInst, ColorInv
  <2>2. crosses' \subseteq Vregs /\ \A v \in Vregs : adj'[v] \subseteq Vregs
    BY <1>2, InterfereTypeOK DEF TypeOK
  <2>3. QED
    BY <2>1, <2>2 DEF ColorInv
<1>3. ASSUME UNCHANGED <<opt, adj, crosses, color>>,
             phase' \notin {"select", "done"} => phase \notin {"select", "done"}
      PROVE  ColorInv'
  BY <1>3 DEF ColorInv, CalleeSaved
<1>4. CASE SkipAtO0 \/ StartLiveness \/ LiveBlock \/ EndSweep \/ NextBlock
           \/ EndSimplify \/ EndSelect
  BY <1>3, <1>4
     DEF SkipAtO0, StartLiveness, LiveBlock, EndSweep, NextBlock, EndSimplify, EndSelect
<1>5. ASSUME NEW v \in Vregs, SimplifyNode(v) PROVE ColorInv'
  BY <1>3, <1>5 DEF SimplifyNode
<1>6. CASE UNCHANGED vars
  BY <1>3, <1>6 DEF vars
<1>7. QED
  BY <1>1, <1>2, <1>4, <1>5, <1>6 DEF Next

-----------------------------------------------------------------------------
(* The theorems.                                                           *)

LEMMA InitIInv == Init => IInv
<1> SUFFICES ASSUME Init PROVE IInv
  OBVIOUS
<1>1. TypeOK
  BY InitTypeOK
<1>2. SweepInv /\ LivenessIsFixpoint
  BY DEF Init, SweepInv, LivenessIsFixpoint
<1>3. GraphInv
  BY DEF Init, GraphInv, Scanned
<1>4. ColorInv /\ OptInv
  BY DEF Init, ColorInv, OptInv
<1>5. QED
  BY <1>1, <1>2, <1>3, <1>4 DEF IInv

LEMMA NextIInv == IInv /\ [Next]_vars => IInv'
BY NextTypeOK, NextSweepInv, NextFixpoint, NextGraphInv, NextColorInv, NextOptInv DEF IInv

(* The inductive invariant: types, the sweep, the graph over the           *)
(* instructions scanned so far and the colours given so far.               *)
THEOREM Inductive == Spec => []IInv
<1>1. QED
  BY InitIInv, NextIInv, PTL DEF Spec

LEMMA InvNoClobber == IInv => NoClobber
<1>1. SUFFICES ASSUME IInv, phase = "done", NEW b \in Blocks, NEW i \in DOMAIN Code(b),
                      NEW v \in LiveAfter(b, i, liveOut[b]),
                      Dest(b, i) \notin {NoDest, v}, color[Dest(b, i)] # Spilled
               PROVE  color[v] # color[Dest(b, i)]
  BY DEF NoClobber
<1>2. i \in 1..Len(Code(b)) /\ Dest(b, i) \in Vregs
  BY <1>1, CodeFacts DEF IInv, TypeOK
<1>3. Scanned(b, i)
  BY <1>1, <1>2 DEF IInv, ColorInv, Scanned
<1>4. v \in adj[Dest(b, i)]
  BY <1>1, <1>2, <1>3 DEF IInv, GraphInv
<1>5. QED
  BY <1>1, <1>2, <1>4 DEF IInv, ColorInv

(* The result of an instruction never shares its register with a vreg that *)
(* is live after it (interference scan and select loop).                   *)
THEOREM ResultsClobberNothing == Spec => []NoClobber
<1>1. QED
  BY Inductive, InvNoClobber, PTL

LEMMA InvCallSurvivors == IInv => CallSurvivors
<1>1. SUFFICES ASSUME IInv, phase = "done", NEW b \in Blocks, NEW i \in DOMAIN Code(b),
                      Code(b)[i].op \notin PlainOps,
                      NEW v \in LiveAfter(b, i, liveOut[b]) \ {Dest(b, i)}
               PROVE  color[v] \in CalleeSaved \cup {Spilled}
  BY DEF CallSurvivors
<1>2. i \in 1..Len(Code(b)) /\ Code(b)[i] \in Insts /\ v \in Vregs
  BY <1>1, CodeFacts DEF IInv, TypeOK, LiveAfter
<1>3. CrossesCall(Code(b)[i].op)
  BY <1>1, <1>2 DEF Insts, Opcodes, CrossesCall
<1>4. CASE opt = 0
  BY <1>1, <1>2, <1>4 DEF IInv, ColorInv
<1>5. CASE opt # 0
  BY <1>1, <1>2, <1>3, <1>5 DEF IInv, GraphInv, Scanned, ColorInv
<1>6. QED
  BY <1>4, <1>5

(* A vreg live across a call is on the stack or in a callee-saved register *)
(* (crosses_call in the interference scan and the select loop).            *)
THEOREM CallsClobberNothing == Spec => []CallSurvivors
<1>1. QED
  BY Inductive, InvCallSurvivors, PTL

(* When the liveness loop stops, its sets solve the data-flow equations.   *)
THEOREM SweepReachesFixpoint == Spec => []LivenessIsFixpoint
<1>1. QED
  BY Inductive, PTL DEF IInv

-----------------------------------------------------------------------------
(* Chaitin's guarantee.                                                    *)

(* The pigeonhole of select: fewer neighbours coloured before than there   *)
(* are registers leave one free.                                           *)
LEMMA ColourLeft ==
  ASSUME TypeOK, NEW v \in Vregs, NEW U \in SUBSET adj[v],
         \A u \in adj[v] \ U : color[u] = Spilled,
         Cardinality(U) < NumPhysRegs, v \notin crosses
  PROVE  ColorFor(v) # Spilled
<1> DEFINE callee == CalleeSaved \ UsedByNeighbours(v)
           caller == CallerSaved \ UsedByNeighbours(v)
<1>1. callee \in SUBSET Nat /\ caller \in SUBSET Nat
  BY PhysRegAssumption DEF CalleeSaved, CallerSaved
<1>2. ColorFor(v) = IF caller # {} THEN Least(caller)
                    ELSE IF callee # {} THEN Least(callee) ELSE Spilled
  BY DEF ColorFor
<1>3. SUFFICES ASSUME caller = {}, callee = {} PROVE FALSE
  <2>1. \A S \in SUBSET Nat : S # {} => Least(S) # Spilled
    BY LeastIsMember DEF Spilled
  <2> HIDE DEF caller, callee
  <2>2. QED
    BY <1>1, <1>2, <2>1
<1>4. ASSUME NEW c \in Colors PROVE \E u \in U : color[u] = c
  <2>1. c \in CalleeSaved \/ c \in CallerSaved
    BY PhysRegAssumption DEF Colors, CalleeSaved, CallerSaved
  <2>2. PICK u \in adj[v] : color[u] = c
    BY <1>3, <2>1 DEF UsedByNeighbours
  <2>3. c # Spilled
    BY PhysRegAssumption DEF Colors, Spilled
  <2>4. QED
    BY <2>2, <2>3
<1> DEFINE f == [c \in Colors |-> CHOOSE u \in U : color[u] = c]
<1>5. f \in [Colors -> U] /\ \A c \in Colors : color[f[c]] = c
  BY <1>4
<1>6. IsFiniteSet(U) /\ IsFiniteSet(Colors) /\ Cardinality(Colors) = NumPhysRegs
  <2>1. U \in SUBSET Vregs
    BY DEF TypeOK
  <2>2. NumPhysRegs \in Nat /\ NumPhysRegs - 1 \in Int
    BY PhysRegAssumption
  <2>3. /\ IsFiniteSet(0..(NumPhysRegs - 1))
        /\ Cardinality(0..(NumPhysRegs - 1))
             = IF 0 > NumPhysRegs - 1 THEN 0 ELSE (NumPhysRegs - 1) - 0 + 1
    BY <2>2, FS_Interval
  <2>4. IsFiniteSet(U)
    BY <2>1, VregSetCardinality
  <2>5. QED
    BY <2>2, <2>3, <2>4 DEF Colors
<1> HIDE DEF f
<1>7. \E b, c \in Colors : b # c /\ f[b] = f[c]
  BY <1>5, <1>6, FS_PigeonHole
<1>8. QED
  BY <1>5, <1>7

(* Steps that leave graph, stack and colours alone.                        *)
LEMMA SimplifyFrame ==
  ASSUME SimplifyInv, UNCHANGED <<fn, opt, adj, degree, stack, color, crosses>>,
         phase' \in {"start", "liveness", "interfere", "done"} => stack = <<>>,
         phase' \notin {"select", "done"} => phase \notin {"select", "done"},
         phase' \in {"select", "done"} /\ opt # 0 => phase = "select" \/ phase = "done"
                                                      \/ Remaining = {}
  PROVE  SimplifyInv'
<1>1. OnStack' = OnStack /\ \A k : RemovedBefore(k)' = RemovedBefore(k)
  BY DEF OnStack, RemovedBefore
<1>2. \A v : UseCount(v)' = UseCount(v) /\ (Low(v)' <=> Low(v))
  BY DEF UseCount, Points, Code, Dest, Blocks, Low
<1>3. \A v \in Vregs \ OnStack : ~(Remaining = {} /\ UseCount(v) > 0)
  BY DEF Remaining
<1>4. QED
  BY <1>1, <1>2, <1>3 DEF SimplifyInv

(* An edge counts once at both of its ends.                                *)
LEMMA InterfereSimplifyInv ==
  ASSUME TypeOK, SimplifyInv, InterfereInst
  PROVE  SimplifyInv'
<1> DEFINE d     == Dest(blk, inst)
           edges == NewEdges(blk, inst)
<1>1. /\ adj' = [v \in Vregs |->
                      IF v = d THEN adj[v] \cup edges
                      ELSE IF v \in edges THEN adj[v] \cup {d} ELSE adj[v]]
      /\ degree' = [v \in Vregs |->
                      IF v = d THEN degree[v] + Cardinality(edges)
                      ELSE IF v \in edges THEN degree[v] + 1 ELSE degree[v]]
      /\ phase = "interfere" /\ UNCHANGED <<stack, phase>>
  BY DEF InterfereInst
<1>2. stack = <<>> /\ OnStack = {} /\ OnStack' = {} /\ DOMAIN stack = {}
  BY <1>1 DEF SimplifyInv, OnStack
<1>3. edges \in SUBSET Vregs /\ (d \in Vregs => edges \cap adj[d] = {})
  BY DEF NewEdges, Conflicts, TypeOK
<1>4. ASSUME NEW v \in Vregs PROVE Cardinality(adj'[v]) <= degree'[v]
  <2>1. adj[v] \in SUBSET Vregs /\ degree[v] \in Int /\ Cardinality(adj[v]) <= degree[v]
    BY <1>1, <1>2 DEF SimplifyInv, TypeOK
  <2>2. IsFiniteSet(adj[v]) /\ Cardinality(adj[v]) \in Nat
        /\ IsFiniteSet(edges) /\ Cardinality(edges) \in Nat
    BY <1>3, <2>1, VregSetCardinality
  <2> HIDE DEF d, edges
  <2>3. CASE v = d
    <3>1. Cardinality(adj[v] \cup edges) = Cardinality(adj[v]) + Cardinality(edges)
      <4>1. Cardinality(adj[v] \cap edges) = 0
        <5>1. adj[v] \cap edges = {}
          BY <1>3, <2>3
        <5>2. QED
          BY <5>1, FS_EmptySet
      <4>2. Cardinality(adj[v] \cup edges)
              = Cardinality(adj[v]) + Cardinality(edges) - Cardinality(adj[v] \cap edges)
        BY <2>2, FS_Union
      <4>3. QED
        BY <2>2, <4>1, <4>2
    <3>2. QED
      BY <1>1, <2>1, <2>2, <2>3, <3>1
  <2>4. CASE v # d /\ v \in edges
    <3>1. Cardinality(adj[v] \cup {d}) \in Nat
          /\ Cardinality(adj[v] \cup {d}) <= Cardinality(adj[v]) + 1
      BY <2>1, CountFacts
    <3>2. QED
      BY <1>1, <2>1, <2>2, <2>4, <3>1
  <2>5. CASE v # d /\ v \notin edges
    BY <1>1, <2>1, <2>5
  <2>6. QED
    BY <2>3, <2>4, <2>5
<1>5. \A v \in Vregs : adj'[v] \ {} = adj'[v]
  OBVIOUS
<1>6. QED
  BY <1>1, <1>2, <1>4, <1>5 DEF SimplifyInv

(* Removing a node costs each neighbour that stays one.                    *)
LEMMA SimplifyNodeInv ==
  ASSUME TypeOK, GraphInv, ColorInv, SimplifyInv, NEW v \in Vregs, SimplifyNode(v)
  PROVE  SimplifyInv'
<1>0. PICK len \in Nat : len = Len(stack)
  BY DEF TypeOK
<1>1. /\ stack' = Append(stack, v) /\ v \in Remaining /\ phase = "simplify"
      /\ degree' = [u \in Vregs |-> IF u \in LoweredBy(v) THEN degree[u] - 1 ELSE degree[u]]
      /\ UNCHANGED <<fn, opt, phase, adj, crosses, color>>
  BY DEF SimplifyNode, graphVars, colorVars
<1>2. /\ stack \in Seq(Vregs) /\ len \in Nat /\ DOMAIN stack = 1..len
      /\ DOMAIN stack' = 1..(len + 1) /\ stack'[len + 1] = v
      /\ \A k \in 1..len : stack'[k] = stack[k]
  BY <1>0, <1>1 DEF TypeOK
<1>3. v \notin OnStack /\ \A k \in 1..len : stack[k] # v /\ stack[k] \notin Remaining
  BY <1>1, <1>2 DEF Remaining, OnStack
<1>4. OnStack' = OnStack \cup {v}
  <2>1. \A k : k \in 1..(len + 1) <=> k \in 1..len \/ k = len + 1
    BY <1>2
  <2>2. QED
    BY <1>2, <2>1 DEF OnStack
<1>5. \A k \in 1..len : RemovedBefore(k)' = RemovedBefore(k)
  BY <1>2 DEF RemovedBefore
<1>6. RemovedBefore(len + 1)' = OnStack
  <2>1. RemovedBefore(len + 1)' = {stack'[j] : j \in 1..((len + 1) - 1)}
    BY DEF RemovedBefore
  <2>2. (len + 1) - 1 = len
    BY <1>2
  <2>3. QED
    BY <1>2, <2>1, <2>2 DEF OnStack
<1>7. color[v] = Spilled
  BY <1>1 DEF ColorInv
<1>8. \A k \in 1..len : degree'[stack[k]] = degree[stack[k]]
  BY <1>1, <1>2, <1>3 DEF LoweredBy
<1>9. degree'[v] = degree[v] /\ Cardinality(adj[v] \ OnStack) <= degree[v]
  BY <1>1, <1>3 DEF LoweredBy, SimplifyInv
<1>10. ASSUME NEW u \in Vregs \ OnStack'
       PROVE  Cardinality(adj[u] \ OnStack') <= degree'[u]
  <2>1. /\ Cardinality(adj[u] \ OnStack) <= degree[u] /\ degree[u] \in Int
        /\ adj[u] \ OnStack \in SUBSET Vregs
    BY <1>1, <1>4 DEF SimplifyInv, TypeOK
  <2>2. IsFiniteSet(adj[u] \ OnStack) /\ Cardinality(adj[u] \ OnStack) \in Nat
    BY <2>1, VregSetCardinality
  <2>3. adj[u] \ OnStack' = (adj[u] \ OnStack) \ {v}
    BY <1>4
  <2>4. CASE u \in LoweredBy(v)
    <3>1. v \in adj[u] \ OnStack
      BY <1>3, <2>4 DEF GraphInv, LoweredBy
    <3>2. Cardinality(adj[u] \ OnStack') = Cardinality(adj[u] \ OnStack) - 1
      BY <2>1, <2>3, <3>1, CountFacts
    <3>3. QED
      BY <1>1, <2>1, <2>2, <2>4, <3>2
  <2>5. CASE u \notin LoweredBy(v)
    <3>1. Cardinality(adj[u] \ OnStack') \in Nat
          /\ Cardinality(adj[u] \ OnStack') <= Cardinality(adj[u] \ OnStack)
      BY <2>1, <2>3, CountFacts
    <3>2. QED
      BY <1>1, <2>1, <2>2, <2>5, <3>1
  <2>6. QED
    BY <2>4, <2>5
<1>11. \A j, k \in DOMAIN stack' : stack'[j] = stack'[k] => j = k
  <2>1. \A k \in 1..(len + 1) : k \in 1..len \/ k = len + 1
    BY <1>2
  <2>2. \A j, k \in 1..len : stack[j] = stack[k] => j = k
    BY <1>2 DEF SimplifyInv
  <2>3. QED
    BY <1>2, <1>3, <2>1, <2>2
<1>12. ASSUME NEW k \in DOMAIN stack'
       PROVE  /\ color'[stack'[k]] = Spilled
              /\ Cardinality(adj'[stack'[k]] \ RemovedBefore(k)') <= degree'[stack'[k]]
  <2>1. CASE k \in 1..len
    <3>1. /\ color[stack[k]] = Spilled
          /\ Cardinality(adj[stack[k]] \ RemovedBefore(k)) <= degree[stack[k]]
      BY <1>2, <2>1 DEF SimplifyInv
    <3>2. stack'[k] = stack[k] /\ RemovedBefore(k)' = RemovedBefore(k)
          /\ degree'[stack[k]] = degree[stack[k]]
      BY <1>2, <1>5, <1>8, <2>1
    <3>3. QED
      BY <1>1, <3>1, <3>2
  <2>2. CASE k = len + 1
    <3>1. RemovedBefore(k)' = OnStack
      BY <1>6, <2>2
    <3>2. stack'[k] = v
      BY <1>2, <2>2
    <3>3. QED
      BY <1>1, <1>7, <1>9, <3>1, <3>2
  <2>3. QED
    BY <1>2, <2>1, <2>2
<1>13. QED
  BY <1>1, <1>10, <1>11, <1>12 DEF SimplifyInv

(* The node on top gets its colour before the nodes removed before it.     *)
LEMMA SelectNodeInv ==
  ASSUME TypeOK, OptInv, SimplifyInv, SelectNode
  PROVE  SimplifyInv'
<1>0. PICK len \in Nat : len = Len(stack)
  BY DEF TypeOK
<1> DEFINE v == stack[len]
<1>1. /\ phase = "select" /\ stack # <<>> /\ stack' = SubSeq(stack, 1, len - 1)
      /\ color' = [color EXCEPT ![v] = ColorFor(v)]
      /\ UNCHANGED <<fn, opt, phase, adj, crosses, degree>>
  BY <1>0 DEF SelectNode, graphVars
<1>2. /\ stack \in Seq(Vregs) /\ DOMAIN stack = 1..len /\ len # 0 /\ v \in Vregs
      /\ DOMAIN stack' = 1..(len - 1) /\ \A k \in 1..(len - 1) : stack'[k] = stack[k]
      /\ len \in 1..len
  <2>1. stack \in Seq(Vregs) /\ DOMAIN stack = 1..len
    BY <1>0 DEF TypeOK
  <2>2. len # 0
    BY <1>0, <1>1, <2>1
  <2>3. len \in 1..len /\ len - 1 \in Nat
    BY <2>2
  <2>4. QED
    BY <1>0, <1>1, <2>1, <2>2, <2>3
<1>3. \A k \in 1..(len - 1) : k \in 1..len /\ k # len
  BY <1>2
<1>4. \A k \in 1..(len - 1) : stack[k] # v /\ RemovedBefore(k)' = RemovedBefore(k)
  <2>1. ASSUME NEW k \in 1..(len - 1) PROVE stack[k] # v
    BY <1>2, <1>3 DEF SimplifyInv
  <2>2. ASSUME NEW k \in 1..(len - 1) PROVE RemovedBefore(k)' = RemovedBefore(k)
    BY <1>2 DEF RemovedBefore
  <2>3. QED
    BY <2>1, <2>2
<1>5. OnStack = OnStack' \cup {v}
  <2>1. \A k : k \in 1..len <=> k \in 1..(len - 1) \/ k = len
    BY <1>2
  <2>2. QED
    BY <1>2, <2>1 DEF OnStack
<1> DEFINE U == adj[v] \ RemovedBefore(len)
<1>6. Cardinality(U) <= degree[v] /\ color[v] = Spilled
  BY <1>2 DEF SimplifyInv
<1>7. \A u \in adj[v] \ U : color[u] = Spilled
  <2>1. ASSUME NEW u \in RemovedBefore(len) PROVE color[u] = Spilled
    <3>1. PICK j \in 1..(len - 1) : u = stack[j]
      BY <2>1 DEF RemovedBefore
    <3>2. j \in DOMAIN stack
      BY <1>2, <1>3
    <3>3. QED
      BY <3>1, <3>2 DEF SimplifyInv
  <2>2. QED
    BY <2>1
<1>8. Low(v) /\ v \notin crosses => ColorFor(v) # Spilled
  <2>1. SUFFICES ASSUME degree[v] < NumPhysRegs, v \notin crosses PROVE ColorFor(v) # Spilled
    BY DEF Low
  <2>2. U \in SUBSET Vregs /\ degree[v] \in Int /\ NumPhysRegs \in Int
    BY <1>2, PhysRegAssumption DEF TypeOK
  <2>3. Cardinality(U) \in Nat
    BY <2>2, CountFacts
  <2> HIDE DEF U
  <2>4. Cardinality(U) < NumPhysRegs
    BY <1>6, <2>1, <2>2, <2>3
  <2>5. U \in SUBSET adj[v]
    BY DEF U
  <2> HIDE DEF v
  <2>6. QED
    BY <1>2, <1>7, <2>1, <2>4, <2>5, ColourLeft
<1> HIDE DEF U
<1>9. \A w : UseCount(w)' = UseCount(w) /\ (Low(w)' <=> Low(w))
  BY <1>1 DEF UseCount, Points, Code, Dest, Blocks, Low
<1>10. ASSUME NEW w \in Vregs \ OnStack', UseCount(w) > 0, Low(w), w \notin crosses
       PROVE  color'[w] # Spilled
  <2>1. CASE w = v
    BY <1>1, <1>2, <1>8, <1>10, <2>1 DEF TypeOK
  <2>2. CASE w # v
    <3>1. w \notin OnStack /\ opt # 0
      BY <1>1, <1>5, <2>2 DEF OptInv
    <3>2. QED
      BY <1>1, <1>2, <1>10, <2>2, <3>1 DEF TypeOK, SimplifyInv
  <2>3. QED
    BY <2>1, <2>2
<1>11. \A k \in DOMAIN stack' :
         /\ color'[stack'[k]] = Spilled
         /\ Cardinality(adj'[stack'[k]] \ RemovedBefore(k)') <= degree'[stack'[k]]
  <2>1. ASSUME NEW k \in 1..(len - 1)
        PROVE  /\ color'[stack'[k]] = Spilled
               /\ Cardinality(adj'[stack'[k]] \ RemovedBefore(k)') <= degree'[stack'[k]]
    <3>1. /\ color[stack[k]] = Spilled /\ stack[k] \in Vregs
          /\ Cardinality(adj[stack[k]] \ RemovedBefore(k)) <= degree[stack[k]]
      <4>1. k \in DOMAIN stack /\ k \in 1..len
        BY <1>2, <1>3
      <4>2. stack[k] \in Vregs
        BY <1>2, <4>1
      <4>3. QED
        BY <4>1, <4>2 DEF SimplifyInv
    <3>2. stack'[k] = stack[k] /\ RemovedBefore(k)' = RemovedBefore(k) /\ stack[k] # v
      BY <1>2, <1>4
    <3>3. color'[stack[k]] = color[stack[k]]
      BY <1>1, <3>1, <3>2 DEF TypeOK
    <3>4. QED
      BY <1>1, <3>1, <3>2, <3>3
  <2>2. QED
    BY <1>2, <2>1
<1>12. \A j, k \in DOMAIN stack' : stack'[j] = stack'[k] => j = k
  BY <1>2, <1>3 DEF SimplifyInv
<1>13. QED
  BY <1>1, <1>9, <1>10, <1>11, <1>12 DEF SimplifyInv

LEMMA NextSimplifyInv == IInv /\ SimplifyInv /\ [Next]_vars => SimplifyInv'
<1> SUFFICES ASSUME IInv, SimplifyInv, [Next]_vars PROVE SimplifyInv'
  OBVIOUS
<1>0. TypeOK /\ GraphInv /\ ColorInv /\ OptInv
  BY DEF IInv
<1>1. CASE SkipAtO0
  BY <1>1, SimplifyFrame DEF SkipAtO0, SimplifyInv, graphVars, colorVars
<1>2. CASE StartLiveness \/ LiveBlock \/ EndSweep \/ NextBlock
  <2>1. /\ UNCHANGED <<fn, opt, adj, degree, stack, color, crosses>>
        /\ phase \in {"start", "liveness", "interfere"}
        /\ phase' \in {"start", "liveness", "interfere", "simplify"}
    BY <1>2 DEF StartLiveness, LiveBlock, EndSweep, NextBlock, graphVars, colorVars
  <2>2. stack = <<>>
    BY <2>1 DEF SimplifyInv
  <2>3. QED
    BY <2>1, <2>2, SimplifyFrame
<1>3. CASE EndSimplify
  <2>1. /\ UNCHANGED <<fn, opt, adj, degree, stack, color, crosses>>
        /\ phase' = "select" /\ Remaining = {}
    BY <1>3 DEF EndSimplify, graphVars, colorVars
  <2>2. QED
    BY <2>1, SimplifyFrame
<1>4. CASE EndSelect
  <2>1. /\ UNCHANGED <<fn, opt, adj, degree, stack, color, crosses>>
        /\ phase' = "done" /\ phase = "select" /\ stack = <<>>
    BY <1>4 DEF EndSelect, graphVars, colorVars
  <2>2. QED
    BY <2>1, SimplifyFrame
<1>5. CASE UNCHANGED vars
  BY <1>5, SimplifyFrame DEF vars, SimplifyInv
<1>6. QED
  BY <1>0, <1>1, <1>2, <1>3, <1>4, <1>5, InterfereSimplifyInv, SimplifyNodeInv, SelectNodeInv
     DEF Next

LEMMA InitSimplifyInv == Init => SimplifyInv
<1> SUFFICES ASSUME Init PROVE SimplifyInv
  OBVIOUS
<1>1. DOMAIN stack = {} /\ OnStack = {} /\ stack = <<>> /\ phase = "start"
  BY DEF Init, OnStack
<1>2. ASSUME NEW v \in Vregs PROVE Cardinality(adj[v] \ OnStack) <= degree[v]
  <2>1. adj[v] \ OnStack = {} /\ degree[v] = 0
    BY DEF Init
  <2>2. QED
    BY <2>1, FS_EmptySet
<1>3. QED
  BY <1>1, <1>2 DEF SimplifyInv

(* Simplify keeps its promise (reg_alloc_build_and_color): on every        *)
(* function, a vreg removed with fewer neighbours left than there are      *)
(* registers, and not live across a call, ends up in a register.           *)
THEOREM LowDegreeIsColored == Spec => []LowDegreeGetsColor
<1>1. SimplifyInv => LowDegreeGetsColor
  BY DEF SimplifyInv, LowDegreeGetsColor, OnStack
<1>2. IInv /\ [Next]_vars /\ SimplifyInv => SimplifyInv'
  BY NextSimplifyInv
<1>3. QED
  BY <1>1, <1>2, InitSimplifyInv, Inductive, PTL DEF Spec

-----------------------------------------------------------------------------
(* Liveness is what paths say it is.                                       *)

(* A path may go in circles; without them it has no more blocks than the   *)
(* function.                                                               *)
LEMMA WitnessShort ==
  ASSUME fn \in Functions, NEW b \in Blocks, NEW v, NEW m \in Nat \ {0},
         NEW path \in [1..m -> Blocks], IsWitness(path, m, b, v)
  PROVE  \E n \in Blocks : \E q \in [1..n -> Blocks] : IsWitness(q, n, b, v)
<1> DEFINE S == {n \in Nat : n # 0 /\ \E q \in [1..n -> Blocks] : IsWitness(q, n, b, v)}
<1>1. m \in S /\ S \in SUBSET Nat
  OBVIOUS
<1>2. PICK n \in S : \A d \in S : n <= d
  <2> HIDE DEF S
  <2>1. QED
    BY <1>1, LeastIsMember
<1>3. PICK q \in [1..n -> Blocks] : IsWitness(q, n, b, v)
  BY <1>2
<1>4. n \in Nat /\ n # 0 /\ fn.n \in Nat
  BY <1>2, CodeFacts
<1>5. ASSUME NEW i \in 1..n, NEW j \in 1..n, i < j PROVE q[i] # q[j]
  <2>1. SUFFICES ASSUME q[i] = q[j] PROVE FALSE
    OBVIOUS
  <2> DEFINE len  == n - (j - i)
             r    == [k \in 1..len |-> IF k <= i THEN q[k] ELSE q[k + (j - i)]]
  <2>2. len \in Nat /\ len # 0 /\ len < n /\ i <= len
    BY <1>4, <1>5
  <2>3. \A k \in 1..len : k + (j - i) \in 1..n /\ (k <= i => k \in 1..n)
    BY <1>4, <1>5
  <2>4. r \in [1..len -> Blocks]
    BY <2>3
  <2>5. /\ q[1] = b /\ v \in UseSet(q[n])
        /\ \A k \in 1..(n - 1) : q[k + 1] \in fn.succ[q[k]] /\ v \notin DefSet(q[k])
    BY <1>3 DEF IsWitness
  <2>6. r[1] = b
    BY <2>2, <2>5
  <2>7. r[len] = q[n]
    <3>1. CASE len <= i
      <4>1. len = i /\ j = n
        BY <1>4, <2>2, <3>1
      <4>2. QED
        BY <2>1, <2>2, <4>1
    <3>2. CASE ~(len <= i)
      <4>1. len + (j - i) = n
        BY <1>4
      <4>2. QED
        BY <2>2, <3>2, <4>1
    <3>3. QED
      BY <3>1, <3>2
  <2>8. ASSUME NEW k \in 1..(len - 1)
        PROVE  r[k + 1] \in fn.succ[r[k]] /\ v \notin DefSet(r[k])
    <3>1. k \in 1..len /\ k + 1 \in 1..len
      BY <2>2
    <3>2. CASE k < i
      <4>1. r[k] = q[k] /\ r[k + 1] = q[k + 1] /\ k \in 1..(n - 1)
        BY <1>4, <3>1, <3>2
      <4>2. QED
        BY <2>5, <4>1
    <3>3. CASE k = i
      <4>1. r[k] = q[j] /\ r[k + 1] = q[(k + 1) + (j - i)]
        BY <1>4, <2>1, <3>1, <3>3
      <4>2. (k + 1) + (j - i) = j + 1 /\ j \in 1..(n - 1)
        BY <1>4, <2>2, <3>3
      <4>3. QED
        BY <2>5, <4>1, <4>2
    <3>4. CASE k > i
      <4>1. r[k] = q[k + (j - i)] /\ r[k + 1] = q[(k + 1) + (j - i)]
        BY <1>4, <3>1, <3>4
      <4>2. (k + 1) + (j - i) = (k + (j - i)) + 1 /\ k + (j - i) \in 1..(n - 1)
        BY <1>4, <2>2, <3>4
      <4>3. QED
        BY <2>5, <4>1, <4>2
    <3>5. QED
      BY <3>2, <3>3, <3>4
  <2> HIDE DEF len, r
  <2>9. IsWitness(r, len, b, v)
    BY <2>5, <2>6, <2>7, <2>8 DEF IsWitness
  <2>10. len \in S
    BY <2>2, <2>4, <2>9
  <2>11. n <= len
    BY <1>2, <2>10
  <2>12. QED
    BY <1>4, <2>2, <2>11
<1>6. n <= fn.n
  <2>1. SUFFICES ASSUME fn.n < n PROVE FALSE
    BY <1>4
  <2>2. /\ IsFiniteSet(1..n) /\ Cardinality(1..n) = n
        /\ IsFiniteSet(Blocks) /\ Cardinality(Blocks) = fn.n
    <3>1. \A N \in Nat \ {0} : IsFiniteSet(1..N) /\ Cardinality(1..N) = N
      <4>1. ASSUME NEW N \in Nat \ {0} PROVE IsFiniteSet(1..N) /\ Cardinality(1..N) = N
        <5>1. Cardinality(1..N) = IF 1 > N THEN 0 ELSE N - 1 + 1
          BY FS_Interval
        <5>2. QED
          BY <5>1, FS_Interval
      <4>2. QED
        BY <4>1
    <3>2. fn.n \in Nat \ {0} /\ n \in Nat \ {0} /\ Blocks = 1..fn.n
      BY <1>4, CodeFacts DEF Blocks
    <3>3. QED
      BY <3>1, <3>2
  <2>3. PICK x, y \in 1..n : x # y /\ q[x] = q[y]
    BY <2>1, <2>2, FS_PigeonHole
  <2>4. x < y \/ y < x
    BY <2>3
  <2>5. QED
    BY <1>5, <2>3, <2>4
<1>7. n \in Blocks
  BY <1>4, <1>6 DEF Blocks
<1>8. QED
  BY <1>3, <1>7

(* What a block adds is read in the block or found live in a successor.    *)
LEMMA LiveBlockWitness ==
  ASSUME TypeOK, SweepInv, WitnessInv, LiveBlock
  PROVE  WitnessInv'
<1>1. /\ blk \in Blocks /\ fn \in Functions /\ UNCHANGED fn
      /\ liveIn' = [liveIn EXCEPT ![blk] = InOf(blk, OutOf(blk))]
      /\ fn.succ[blk] \subseteq Blocks
  BY CodeFacts DEF LiveBlock, TypeOK, Blocks
<1>2. /\ Blocks' = Blocks
      /\ \A path, n, b, v : IsWitness(path, n, b, v)' <=> IsWitness(path, n, b, v)
  BY <1>1 DEF Blocks, IsWitness, UseSet, DefSet, Code, Dest, ArgSet
<1>3. ASSUME NEW v \in InOf(blk, OutOf(blk))
      PROVE  \E n \in Blocks : \E path \in [1..n -> Blocks] : IsWitness(path, n, blk, v)
  <2>1. CASE v \in UseSet(blk)
    <3> DEFINE path == [k \in 1..1 |-> blk]
    <3>1. path \in [1..1 -> Blocks] /\ path[1] = blk
      BY <1>1
    <3>2. IsWitness(path, 1, blk, v)
      BY <2>1, <3>1 DEF IsWitness
    <3>3. 1 \in Nat \ {0}
      OBVIOUS
    <3> HIDE DEF path
    <3>4. QED
      BY <1>1, <3>1, <3>2, <3>3, WitnessShort
  <2>2. CASE v \in OutOf(blk) \ DefSet(blk)
    <3>1. PICK s \in fn.succ[blk] : v \in liveIn[s]
      BY <1>1, <2>2 DEF OutOf, SweepInv
    <3>2. PICK n \in Blocks : \E p \in [1..n -> Blocks] : IsWitness(p, n, s, v)
      BY <1>1, <3>1 DEF WitnessInv
    <3>3. PICK p \in [1..n -> Blocks] : IsWitness(p, n, s, v)
      BY <3>2
    <3>4. n \in Nat \ {0} /\ n + 1 \in Nat \ {0} /\ (n + 1) - 1 = n
      BY DEF Blocks
    <3> DEFINE path == [k \in 1..(n + 1) |-> IF k = 1 THEN blk ELSE p[k - 1]]
    <3>5. /\ path \in [1..(n + 1) -> Blocks] /\ path[1] = blk
          /\ \A k \in 1..n : path[k + 1] = p[k]
      <4>1. \A k \in 1..(n + 1) : k = 1 \/ k - 1 \in 1..n
        BY <3>4
      <4>2. \A k \in 1..n : k + 1 \in 1..(n + 1) /\ k + 1 # 1 /\ (k + 1) - 1 = k
        BY <3>4
      <4>3. 1 \in 1..(n + 1)
        BY <3>4
      <4>4. QED
        BY <1>1, <4>1, <4>2, <4>3
    <3> HIDE DEF path
    <3>6. ASSUME NEW k \in 1..n
          PROVE  path[k + 1] \in fn.succ[path[k]] /\ v \notin DefSet(path[k])
      <4>1. CASE k = 1
        BY <2>2, <3>1, <3>3, <3>5, <4>1 DEF IsWitness
      <4>2. CASE k # 1
        <5>1. k - 1 \in 1..(n - 1) /\ k - 1 \in 1..n /\ (k - 1) + 1 = k
          BY <3>4, <4>2
        <5>2. path[k] = p[k - 1] /\ path[k + 1] = p[(k - 1) + 1]
          BY <3>5, <5>1
        <5>3. QED
          BY <3>3, <5>1, <5>2 DEF IsWitness
      <4>3. QED
        BY <4>1, <4>2
    <3>7. v \in UseSet(path[n + 1])
      <4>1. path[n + 1] = p[n]
        BY <3>4, <3>5
      <4>2. QED
        BY <3>3, <4>1 DEF IsWitness
    <3>8. IsWitness(path, n + 1, blk, v)
      BY <3>4, <3>5, <3>6, <3>7 DEF IsWitness
    <3>9. QED
      BY <1>1, <3>4, <3>5, <3>8, WitnessShort
  <2>3. QED
    BY <2>1, <2>2 DEF InOf
<1>4. \A b \in Blocks : liveIn'[b] = IF b = blk THEN InOf(blk, OutOf(blk)) ELSE liveIn[b]
  BY <1>1 DEF TypeOK
<1>5. QED
  BY <1>2, <1>3, <1>4 DEF WitnessInv

LEMMA NextWitnessInv == IInv /\ WitnessInv /\ [Next]_vars => WitnessInv'
<1> SUFFICES ASSUME IInv, WitnessInv, [Next]_vars PROVE WitnessInv'
  OBVIOUS
<1>1. CASE LiveBlock
  BY <1>1, LiveBlockWitness DEF IInv
<1>2. CASE UNCHANGED <<fn, liveIn>>
  <2>1. /\ Blocks' = Blocks
        /\ \A path, n, b, v : IsWitness(path, n, b, v)' <=> IsWitness(path, n, b, v)
    BY <1>2 DEF Blocks, IsWitness, UseSet, DefSet, Code, Dest, ArgSet
  <2>2. QED
    BY <1>2, <2>1 DEF WitnessInv
<1>3. QED
  BY <1>1, <1>2
     DEF Next, SkipAtO0, StartLiveness, EndSweep, InterfereInst, NextBlock, SimplifyNode,
         EndSimplify, SelectNode, EndSelect, liveVars, vars

(* A solution of the equations holds at least what paths demand.           *)
LEMMA PathsAreLive ==
  ASSUME fn \in Functions, \A b \in Blocks : LiveOutEquation(b) /\ LiveInEquation(b),
         NEW n \in Nat \ {0}, NEW path \in [1..n -> Blocks], NEW v \in Vregs,
         \A k \in 1..(n - 1) : path[k + 1] \in fn.succ[path[k]] /\ v \notin DefSet(path[k]),
         v \in UseSet(path[n])
  PROVE  v \in liveIn[path[1]]
<1> DEFINE S == {d \in 0..(n - 1) : v \notin liveIn[path[n - d]]}
<1>1. SUFFICES S = {}
  <2>1. n - 1 \in 0..(n - 1) /\ n - (n - 1) = 1
    OBVIOUS
  <2>2. QED
    BY <2>1
<1>2. SUFFICES ASSUME S # {} PROVE FALSE
  OBVIOUS
<1>3. S \in SUBSET Nat
  OBVIOUS
<1>4. PICK d \in S : \A e \in S : d <= e
  <2> HIDE DEF S
  <2>1. QED
    BY <1>2, <1>3, LeastIsMember
<1>5. d \in 0..(n - 1) /\ v \notin liveIn[path[n - d]] /\ n - d \in 1..n
  BY <1>4
<1>6. path[n - d] \in Blocks
  BY <1>5
<1>7. CASE d = 0
  <2>1. n - d = n
    BY <1>7
  <2>2. QED
    BY <1>5, <1>6, <2>1 DEF LiveInEquation, InOf
<1>8. CASE d # 0
  <2>1. d - 1 \in 0..(n - 1) /\ n - (d - 1) = (n - d) + 1 /\ n - d \in 1..(n - 1)
        /\ ~(d <= d - 1) /\ (n - d) + 1 \in 1..n
    BY <1>5, <1>8
  <2>2. v \in liveIn[path[(n - d) + 1]]
    BY <1>4, <2>1
  <2>3. path[(n - d) + 1] \in fn.succ[path[n - d]] /\ v \notin DefSet(path[n - d])
    BY <2>1
  <2>4. v \in liveOut[path[n - d]]
    BY <1>6, <2>2, <2>3 DEF LiveOutEquation
  <2>5. QED
    BY <1>5, <1>6, <2>3, <2>4 DEF LiveInEquation, InOf
<1>9. QED
  BY <1>7, <1>8

LEMMA InvLivenessIsExact == IInv /\ WitnessInv => LivenessIsExact
<1> SUFFICES ASSUME IInv, WitnessInv, phase \notin {"start", "liveness"}, opt # 0,
                    NEW b \in Blocks
             PROVE  liveOut[b] =
                      {v \in Vregs :
                         \E n \in Blocks : \E path \in [1..n -> Blocks] :
                           /\ path[1] \in fn.succ[b]
                           /\ \A k \in 1..(n - 1) : path[k + 1] \in fn.succ[path[k]]
                                                    /\ v \notin DefSet(path[k])
                           /\ v \in UseSet(path[n])}
  BY DEF LivenessIsExact
<1>1. /\ fn \in Functions /\ liveOut[b] \in SUBSET Vregs /\ fn.succ[b] \subseteq Blocks
      /\ \A a \in Blocks : LiveOutEquation(a) /\ LiveInEquation(a)
      /\ Blocks \subseteq Nat \ {0}
  BY CodeFacts DEF IInv, TypeOK, LivenessIsFixpoint, Blocks
<1>2. ASSUME NEW v \in liveOut[b]
      PROVE  \E n \in Blocks : \E path \in [1..n -> Blocks] :
               /\ path[1] \in fn.succ[b]
               /\ \A k \in 1..(n - 1) : path[k + 1] \in fn.succ[path[k]]
                                        /\ v \notin DefSet(path[k])
               /\ v \in UseSet(path[n])
  <2>1. PICK s \in fn.succ[b] : v \in liveIn[s]
    BY <1>1 DEF LiveOutEquation
  <2>2. s \in Blocks
    BY <1>1
  <2>3. QED
    BY <2>1, <2>2 DEF WitnessInv, IsWitness
<1>3. ASSUME NEW v \in Vregs, NEW n \in Blocks, NEW path \in [1..n -> Blocks],
             path[1] \in fn.succ[b],
             \A k \in 1..(n - 1) : path[k + 1] \in fn.succ[path[k]] /\ v \notin DefSet(path[k]),
             v \in UseSet(path[n])
      PROVE  v \in liveOut[b]
  <2>1. v \in liveIn[path[1]]
    BY <1>1, <1>3, PathsAreLive
  <2>2. QED
    BY <1>1, <1>3, <2>1 DEF LiveOutEquation
<1>4. QED
  BY <1>1, <1>2, <1>3

(* The sweep stops at exactly what paths say (the backward dataflow loop   *)
(* of reg_alloc_build_and_color): on every function, a vreg is live out of *)
(* a block if and only if some path of the function reads it before it     *)
(* defines it.                                                             *)
THEOREM LivenessIsExactly == Spec => []LivenessIsExact
<1>1. Init => WitnessInv
  BY DEF Init, WitnessInv
<1>2. IInv /\ [Next]_vars /\ WitnessInv => WitnessInv'
  BY NextWitnessInv
<1>3. QED
  BY <1>1, <1>2, InvLivenessIsExact, Inductive, PTL DEF Spec

-----------------------------------------------------------------------------
(* Instruction selection.                                                  *)

(* The registers selection uses without asking the allocator.              *)
Scratch == {RAX, RCX, RDX}

(* What place an operand's value is taken from before the instruction.     *)
Place(m, v) == IF v = Const THEN ConstVal ELSE Home(m, v)

(* m1 differs from m in the registers R at most.                           *)
SameBut(m1, m, R) ==
  /\ IsMachine(m1)
  /\ m1.slot = m.slot
  /\ \A q \in Regs \ R : m1.reg[q] = m.reg[q]

-----------------------------------------------------------------------------
(* Registers and machines.                                                 *)

LEMMA RegisterFacts ==
  /\ R8 \in Nat /\ R9 \in Nat /\ R10 \in Nat /\ R11 \in Nat
  /\ R8 \in Nat /\ R9 = R8 + 1 /\ R10 = R8 + 2 /\ R11 = R8 + 3 /\ R8 >= 3
  /\ RAX = -2 /\ RCX = -3 /\ RDX = -4 /\ Spilled = -1 /\ RSI = 1 /\ RDI = 2
  /\ Regs = {-2, -3, -4} \cup 0..R11
  /\ CalleeSaved = 0..(R8 - 1)
  /\ Colors \subseteq 0..R11
BY RegisterFileAssumption, PhysRegAssumption
   DEF RAX, RCX, RDX, R8, R9, R10, R11, RSI, RDI, Spilled, Regs, CalleeSaved, Colors

(* The argument registers are six, and neither RAX nor callee-saved.       *)
LEMMA ArgRegFacts ==
  /\ \A k \in 1..6 : ArgRegs[k] \in Regs /\ ArgRegs[k] # RAX /\ ArgRegs[k] \notin CalleeSaved
  /\ \A j, k \in 1..6 : j # k => ArgRegs[j] # ArgRegs[k]
<1>1. /\ ArgRegs[1] = RCX /\ ArgRegs[2] = RDX /\ ArgRegs[3] = R8
      /\ ArgRegs[4] = R9 /\ ArgRegs[5] = R10 /\ ArgRegs[6] = R11
  BY DEF ArgRegs
<1>2. \A k \in 1..6 : ArgRegs[k] = IF k = 1 THEN -3 ELSE IF k = 2 THEN -4 ELSE R8 + k - 3
  <2>1. ASSUME NEW k \in 1..6
        PROVE  k = 1 \/ k = 2 \/ k = 3 \/ k = 4 \/ k = 5 \/ k = 6
    OBVIOUS
  <2>2. QED
    BY <1>1, <2>1, RegisterFacts
<1>3. ASSUME NEW k \in 1..6
      PROVE  /\ ArgRegs[k] \in Regs /\ ArgRegs[k] # RAX /\ ArgRegs[k] \notin CalleeSaved
             /\ \A j \in 1..6 : j # k => ArgRegs[j] # ArgRegs[k]
  <2>1. ArgRegs[k] = -3 \/ ArgRegs[k] = -4 \/ ArgRegs[k] \in R8..R11
    BY <1>2, RegisterFacts
  <2>2. ArgRegs[k] \in Regs /\ ArgRegs[k] # RAX
    BY <2>1, RegisterFacts
  <2>3. ArgRegs[k] \notin CalleeSaved
    BY <2>1, RegisterFacts
  <2>4. ASSUME NEW j \in 1..6, j # k PROVE ArgRegs[j] # ArgRegs[k]
    <3>1. ArgRegs[j] = IF j = 1 THEN -3 ELSE IF j = 2 THEN -4 ELSE R8 + j - 3
      BY <1>2
    <3>2. ArgRegs[k] = IF k = 1 THEN -3 ELSE IF k = 2 THEN -4 ELSE R8 + k - 3
      BY <1>2
    <3>3. R8 \in Nat
      BY RegisterFacts
    <3> HIDE DEF ArgRegs
    <3>4. QED
      BY <2>4, <3>1, <3>2, <3>3
  <2>5. QED
    BY <2>2, <2>3, <2>4
<1>4. QED
  BY <1>3

LEMMA SetFacts ==
  ASSUME NEW m, IsMachine(m), NEW r \in Regs, NEW x
  PROVE  /\ SameBut(Set(m, r, x), m, {r}) /\ IsMachine(Set(m, r, x))
         /\ Set(m, r, x).reg[r] = x
<1>1. Set(m, r, x) = [reg |-> [q \in Regs |-> IF q = r THEN x ELSE m.reg[q]], slot |-> m.slot]
  BY DEF Set, IsMachine
<1>2. QED
  BY <1>1 DEF IsMachine, SameBut

LEMMA SlotFacts ==
  ASSUME NEW m, IsMachine(m), NEW v \in Vregs, NEW x
  PROVE  /\ IsMachine([m EXCEPT !.slot[v] = x])
         /\ [m EXCEPT !.slot[v] = x].reg = m.reg
         /\ [m EXCEPT !.slot[v] = x].slot = [w \in Vregs |-> IF w = v THEN x ELSE m.slot[w]]
<1>1. [m EXCEPT !.slot[v] = x] =
        [reg |-> m.reg, slot |-> [w \in Vregs |-> IF w = v THEN x ELSE m.slot[w]]]
  BY DEF IsMachine
<1>2. QED
  BY <1>1 DEF IsMachine

LEMMA MovFacts ==
  ASSUME NEW m, IsMachine(m), NEW r \in Regs, NEW s \in Regs
  PROVE  /\ SameBut(Mov(m, r, s), m, {r}) /\ IsMachine(Mov(m, r, s))
         /\ Mov(m, r, s).reg[r] = m.reg[s]
BY SetFacts DEF Mov

(* Colours are registers, never scratch ones.                              *)
LEMMA HomeFacts ==
  ASSUME TypeOK, NEW v \in Vregs \cup {Const}
  PROVE  /\ InReg(v) => color[v] \in Regs \ Scratch /\ color[v] # Spilled
         /\ v # Const => v \in Vregs
         /\ InReg(v) <=> v # Const /\ color[v] # Spilled
         /\ \A s : RegOf(v, s) = IF InReg(v) THEN color[v] ELSE s
<1>1. v # Const => v \in Vregs /\ color[v] \in Colors \cup {Spilled}
  BY DEF TypeOK
<1>2. InReg(v) => color[v] \in Regs \ Scratch /\ color[v] # Spilled
  <2>1. ASSUME NEW c \in Colors PROVE c \in Regs \ Scratch
    <3>1. c \in 0..R11 /\ c >= 0
      BY RegisterFacts
    <3>2. QED
      BY <3>1, RegisterFacts DEF Scratch
  <2>2. QED
    BY <1>1, <2>1 DEF InReg
<1>3. QED
  BY <1>1, <1>2 DEF InReg, RegOf

(* An operand is where RegOf says once it is loaded, and only the scratch  *)
(* register was touched.                                                   *)
LEMMA LoadFacts ==
  ASSUME TypeOK, NEW m, IsMachine(m), NEW v \in Vregs \cup {Const}, NEW s \in Regs
  PROVE  /\ SameBut(Load(m, v, s), m, {s}) /\ IsMachine(Load(m, v, s))
         /\ RegOf(v, s) \in Regs
         /\ Load(m, v, s).reg[RegOf(v, s)] = Place(m, v)
         /\ InReg(v) => Load(m, v, s) = m
<1>1. CASE InReg(v)
  <2>1. Load(m, v, s) = m /\ RegOf(v, s) = color[v] /\ Place(m, v) = m.reg[color[v]]
    BY <1>1, HomeFacts DEF Load, Place, Home
  <2>2. QED
    BY <1>1, <2>1, HomeFacts DEF SameBut
<1>2. CASE ~InReg(v)
  <2>1. Load(m, v, s) = Set(m, s, Place(m, v)) /\ RegOf(v, s) = s
    BY <1>2, HomeFacts DEF Load, Place, Home
  <2>2. QED
    BY <1>2, <2>1, SetFacts
<1>3. QED
  BY <1>1, <1>2

LEMMA LoadToFacts ==
  ASSUME TypeOK, NEW m, IsMachine(m), NEW v \in Vregs \cup {Const},
         NEW s \in Regs, NEW r \in Regs
  PROVE  /\ SameBut(LoadTo(m, v, s, r), m, {s, r}) /\ IsMachine(LoadTo(m, v, s, r))
         /\ LoadTo(m, v, s, r).reg[r] = Place(m, v)
<1> DEFINE m1 == Load(m, v, s)
<1>1. SameBut(m1, m, {s}) /\ IsMachine(m1) /\ RegOf(v, s) \in Regs
      /\ m1.reg[RegOf(v, s)] = Place(m, v)
  BY LoadFacts DEF SameBut
<1>2. LoadTo(m, v, s, r) = Mov(m1, r, RegOf(v, s))
  BY DEF LoadTo
<1> HIDE DEF m1
<1>3. SameBut(Mov(m1, r, RegOf(v, s)), m1, {r}) /\ Mov(m1, r, RegOf(v, s)).reg[r] = Place(m, v)
  BY <1>1, MovFacts
<1>4. QED
  BY <1>1, <1>2, <1>3 DEF SameBut

LEMMA LoadHere ==
  ASSUME TypeOK, NEW m, IsMachine(m), NEW v \in Vregs \cup {Const}, NEW r \in Regs
  PROVE  /\ SameBut(LoadTo(m, v, r, r), m, {r}) /\ IsMachine(LoadTo(m, v, r, r))
         /\ LoadTo(m, v, r, r).reg[r] = Place(m, v)
<1>1. {r, r} = {r}
  OBVIOUS
<1>2. QED
  BY <1>1, LoadToFacts

(* An operand's place still holds it when its register was left alone.     *)
LEMMA PlaceKept ==
  ASSUME TypeOK, NEW m, NEW m1, NEW R, SameBut(m1, m, R),
         NEW v \in Vregs \cup {Const}, InReg(v) => color[v] \notin R
  PROVE  Place(m1, v) = Place(m, v)
<1>1. CASE InReg(v)
  BY <1>1, HomeFacts DEF SameBut, Place, Home
<1>2. CASE ~InReg(v)
  BY <1>2, HomeFacts DEF SameBut, Place, Home
<1>3. QED
  BY <1>1, <1>2

-----------------------------------------------------------------------------
(* The instruction at hand.                                                *)

(* The code is running what the allocator left.                            *)
Running == IInv /\ SavesRecorded /\ RunInv /\ stage = "running"

(* What is live after the instruction at hand; at -O0 every vreg counts.   *)
LiveNext == IF opt = 0 THEN Vregs ELSE LiveAfter(pc, pi, liveOut[pc])

LEMMA InstFacts ==
  ASSUME Running
  PROVE  /\ TypeOK /\ phase = "done" /\ fn \in Functions
         /\ pc \in Blocks /\ pi \in 1..Len(Code(pc)) /\ pi \in DOMAIN Code(pc)
         /\ Code(pc) \in Seq(Insts) /\ Inst \in Insts
         /\ Inst = Code(pc)[pi] /\ Dest(pc, pi) = Inst.dest
         /\ Inst.dest \in Vregs \cup {NoDest}
         /\ Inst.args \in Seq(Vregs \cup {Const})
         /\ WellShaped(Inst)
         /\ Inst.op \in Terminators <=> pi = Len(Code(pc))
<1>1. TypeOK /\ phase = "done" /\ fn \in Functions /\ pc \in Blocks /\ pi \in 1..Len(Code(pc))
  BY DEF Running, RunInv, IInv, TypeOK
<1>2. Code(pc) \in Seq(Insts)
  BY <1>1, CodeFacts
<1>3. Inst \in Insts /\ pi \in DOMAIN Code(pc)
  BY <1>1, <1>2 DEF Inst
<1>4. Inst.dest \in Vregs \cup {NoDest} /\ Inst.args \in Seq(Vregs \cup {Const})
  BY <1>3 DEF Insts
<1>5. WellShaped(Inst) /\ (Inst.op \in Terminators <=> pi = Len(Code(pc)))
  BY <1>1, <1>3, MirFunctionAssumption DEF IsMirFunction, Inst, Code, Blocks
<1>6. QED
  BY <1>1, <1>2, <1>3, <1>4, <1>5 DEF Inst, Dest

(* Every operand is a vreg or Const; where the arity is known, the tuple   *)
(* of their values can be written out.                                     *)
LEMMA ArgFacts ==
  ASSUME Running
  PROVE  /\ \A k \in DOMAIN Inst.args : Arg(k) \in Vregs \cup {Const}
         /\ Inst.op \in OneArgOps =>
              1 \in DOMAIN Inst.args /\ Operands = <<Value(Arg(1))>>
         /\ Inst.op \in TwoArgOps =>
              1 \in DOMAIN Inst.args /\ 2 \in DOMAIN Inst.args
              /\ Operands = <<Value(Arg(1)), Value(Arg(2))>>
         /\ Inst.op \in ThreeArgOps =>
              1 \in DOMAIN Inst.args /\ 2 \in DOMAIN Inst.args /\ 3 \in DOMAIN Inst.args
              /\ Operands = <<Value(Arg(1)), Value(Arg(2)), Value(Arg(3))>>
<1>1. Inst.args \in Seq(Vregs \cup {Const}) /\ WellShaped(Inst)
  BY InstFacts
<1>2. \A k \in DOMAIN Inst.args : Arg(k) \in Vregs \cup {Const}
  BY <1>1 DEF Arg
<1>3. CASE Inst.op \in OneArgOps
  <2>1. Len(Inst.args) = 1
    BY <1>1, <1>3 DEF WellShaped
  <2>2. DOMAIN Inst.args = 1..1
    BY <1>1, <2>1
  <2>3. [k \in 1..1 |-> Value(Arg(k))] = <<Value(Arg(1))>>
    OBVIOUS
  <2>4. Operands = <<Value(Arg(1))>>
    BY <2>2, <2>3 DEF Operands
  <2>5. QED
    BY <1>2, <1>3, <2>2, <2>4
       DEF OneArgOps, TwoArgOps, ThreeArgOps, AluOps, FloatOps, FixedOps
<1>4. CASE Inst.op \in TwoArgOps
  <2>1. Len(Inst.args) = 2
    BY <1>1, <1>4 DEF WellShaped
  <2>2. DOMAIN Inst.args = 1..2
    BY <1>1, <2>1
  <2>3. [k \in 1..2 |-> Value(Arg(k))] = <<Value(Arg(1)), Value(Arg(2))>>
    OBVIOUS
  <2>4. Operands = <<Value(Arg(1)), Value(Arg(2))>>
    BY <2>2, <2>3 DEF Operands
  <2>5. QED
    BY <1>2, <1>4, <2>2, <2>4
       DEF OneArgOps, TwoArgOps, ThreeArgOps, AluOps, FloatOps, FixedOps
<1>5. CASE Inst.op \in ThreeArgOps
  <2>1. Len(Inst.args) = 3
    BY <1>1, <1>5 DEF WellShaped
  <2>2. DOMAIN Inst.args = 1..3
    BY <1>1, <2>1
  <2>3. [k \in 1..3 |-> Value(Arg(k))] = <<Value(Arg(1)), Value(Arg(2)), Value(Arg(3))>>
    OBVIOUS
  <2>4. Operands = <<Value(Arg(1)), Value(Arg(2)), Value(Arg(3))>>
    BY <2>2, <2>3 DEF Operands
  <2>5. QED
    BY <1>2, <1>5, <2>2, <2>4
       DEF OneArgOps, TwoArgOps, ThreeArgOps, AluOps, FloatOps, FixedOps
<1>6. QED
  BY <1>2, <1>3, <1>4, <1>5

(* What the allocator guarantees about the instruction at hand.            *)
LEMMA LiveFacts ==
  ASSUME Running
  PROVE  /\ LiveHere \subseteq Vregs /\ LiveNext \subseteq Vregs
         /\ ArgSet(pc, pi) \subseteq LiveHere
         /\ LiveNext \ {Inst.dest} \subseteq LiveHere
         /\ \A v \in LiveNext \ {Inst.dest} :
              InReg(Inst.dest) => color[v] # color[Inst.dest]
         /\ Inst.op \in CallOps =>
              \A v \in LiveNext \ {Inst.dest} : color[v] \in CalleeSaved \cup {Spilled}
<1>0. IInv
  BY DEF Running
<1>1. ArgSet(pc, pi) \subseteq Vregs /\ LiveAfter(pc, pi, liveOut[pc]) \subseteq Vregs
  BY InstFacts, CodeFacts DEF LiveAfter
<1>2. LiveAfter(pc, pi - 1, liveOut[pc]) =
        (LiveAfter(pc, pi, liveOut[pc]) \ {Inst.dest}) \cup ArgSet(pc, pi)
  BY InstFacts, LiveBefore
<1>3. opt = 0 => \A v \in Vregs : color[v] = Spilled
  BY <1>0 DEF IInv, ColorInv
<1>4. ASSUME NEW v \in LiveNext \ {Inst.dest}, InReg(Inst.dest)
      PROVE  color[v] # color[Inst.dest]
  <2>1. Inst.dest \in Vregs /\ Inst.dest # NoDest /\ color[Inst.dest] # Spilled
    BY <1>4, InstFacts DEF InReg, NoDest, Const
  <2>2. v \in LiveAfter(pc, pi, liveOut[pc])
    BY <1>3, <1>4, <2>1 DEF LiveNext
  <2>3. QED
    BY <1>0, <1>4, <2>1, <2>2, InstFacts, InvNoClobber DEF NoClobber
<1>5. ASSUME Inst.op \in CallOps, NEW v \in LiveNext \ {Inst.dest}
      PROVE  color[v] \in CalleeSaved \cup {Spilled}
  <2>1. CASE opt = 0
    BY <1>3, <1>5, <2>1 DEF LiveNext
  <2>2. CASE opt # 0
    BY <1>0, <1>5, <2>2, InstFacts, InvCallSurvivors, PlainOpsAssumption
       DEF LiveNext, CallSurvivors
  <2>3. QED
    BY <2>1, <2>2
<1>6. QED
  BY <1>1, <1>2, <1>4, <1>5 DEF LiveHere, LiveNext

(* While the homes hold, the place of an operand holds its value.          *)
LEMMA OperandHeld ==
  ASSUME Running, HomesHoldValues, NEW k \in DOMAIN Inst.args
  PROVE  Place(mach, Arg(k)) = Value(Arg(k))
<1>1. Arg(k) = Const \/ Arg(k) \in ArgSet(pc, pi)
  BY DEF Arg, ArgSet, Inst
<1>2. Arg(k) # Const => Home(mach, Arg(k)) = vals[Arg(k)]
  BY <1>1, LiveFacts DEF HomesHoldValues, Running
<1>3. QED
  BY <1>2 DEF Place, Value

(* The register of the result.                                             *)
LEMMA DestFacts ==
  ASSUME Running
  PROVE  /\ DestReg \in Regs
         /\ InReg(Inst.dest) => DestReg = color[Inst.dest] /\ DestReg \notin Scratch
                                /\ DestReg \in usedCalleeSaved /\ Inst.dest \in Vregs
         /\ ~InReg(Inst.dest) => DestReg = RAX
         /\ \A v \in LiveNext \ {Inst.dest} :
              InReg(v) => color[v] \notin Scratch \cup {DestReg}
<1>1. Inst.dest \in Vregs \cup {Const} /\ TypeOK
  BY InstFacts DEF NoDest, Const
<1>2. RAX \in Regs /\ RAX \in Scratch
  BY DEF Regs, Scratch
<1>3. InReg(Inst.dest) => color[Inst.dest] \in usedCalleeSaved
  BY <1>1, HomeFacts DEF Running, SavesRecorded
<1>4. ASSUME NEW v \in LiveNext \ {Inst.dest}, InReg(v)
      PROVE  color[v] \notin Scratch \cup {DestReg}
  <2>1. v \in Vregs
    BY LiveFacts
  <2>2. color[v] \notin Scratch
    BY <1>1, <1>4, <2>1, HomeFacts
  <2>3. QED
    BY <1>1, <1>2, <2>2, LiveFacts, HomeFacts DEF DestReg
<1>5. QED
  BY <1>1, <1>2, <1>3, <1>4, HomeFacts DEF DestReg

(* What store_result_mir changes: the home of the destination.             *)
LEMMA StoreFacts ==
  ASSUME Running, NEW m, IsMachine(m), NEW r \in Regs
  PROVE  /\ IsMachine(Store(m, r))
         /\ Inst.dest = NoDest => Store(m, r) = m
         /\ Inst.dest # NoDest => Home(Store(m, r), Inst.dest) = m.reg[r]
         /\ \A v \in LiveNext \ {Inst.dest} : Home(Store(m, r), v) = Home(m, v)
         /\ \A q \in Regs \ {DestReg} : Store(m, r).reg[q] = m.reg[q]
<1>0. Inst.dest \in Vregs \cup {Const} /\ TypeOK /\ NoDest = Const /\ LiveNext \subseteq Vregs
  BY InstFacts, LiveFacts DEF NoDest, Const
<1>1. CASE Inst.dest = NoDest
  BY <1>1 DEF Store
<1>2. CASE InReg(Inst.dest)
  <2>1. Store(m, r) = Mov(m, DestReg, r) /\ DestReg = color[Inst.dest] /\ DestReg \in Regs
        /\ Inst.dest \in Vregs /\ color[Inst.dest] # Spilled
    BY <1>0, <1>2, DestFacts, HomeFacts DEF Store
  <2>2. SameBut(Store(m, r), m, {DestReg}) /\ Store(m, r).reg[DestReg] = m.reg[r]
    BY <2>1, MovFacts
  <2>3. ASSUME NEW v \in LiveNext \ {Inst.dest} PROVE Home(Store(m, r), v) = Home(m, v)
    <3>1. color[v] # Spilled => color[v] \in Regs /\ color[v] # DestReg
      BY <1>0, <2>1, DestFacts, HomeFacts DEF InReg, Const, Vregs
    <3>2. QED
      BY <2>2, <3>1 DEF SameBut, Home
  <2>4. QED
    BY <1>0, <1>2, <2>1, <2>2, <2>3, HomeFacts DEF SameBut, Home
<1>3. CASE Inst.dest # NoDest /\ ~InReg(Inst.dest)
  <2>1. Store(m, r) = [m EXCEPT !.slot[Inst.dest] = m.reg[r]] /\ Inst.dest \in Vregs
        /\ color[Inst.dest] = Spilled
    BY <1>0, <1>3, HomeFacts DEF Store
  <2>2. /\ IsMachine(Store(m, r)) /\ Store(m, r).reg = m.reg
        /\ Store(m, r).slot = [w \in Vregs |-> IF w = Inst.dest THEN m.reg[r] ELSE m.slot[w]]
    BY <2>1, SlotFacts
  <2>3. QED
    BY <1>0, <1>3, <2>1, <2>2 DEF Home
<1>4. QED
  BY <1>0, <1>1, <1>2, <1>3, HomeFacts

-----------------------------------------------------------------------------
(* Steps that leave the allocator's result alone.                          *)

LEMMA AllocatorFrame ==
  ASSUME UNCHANGED vars
  PROVE  /\ IInv => IInv'
         /\ SavesRecorded => SavesRecorded'
         /\ Undisturbed' <=> Undisturbed
         /\ Blocks' = Blocks /\ \A b : Code(b)' = Code(b)
         /\ \A b, i, out : LiveAfter(b, i, out)' = LiveAfter(b, i, out')
         /\ \A m, v : Home(m, v)' = Home(m', v)
<1> USE DEF vars
<1>1. IInv => IInv'
  BY NextIInv
<1>2. \A b : Code(b)' = Code(b)
  BY DEF Code
<1>3. \A b, i : Dest(b, i)' = Dest(b, i) /\ ArgSet(b, i)' = ArgSet(b, i)
  BY DEF Code, Dest, ArgSet
<1>4. \A b, i, out : LiveAfter(b, i, out)' = LiveAfter(b, i, out')
  BY <1>2, <1>3 DEF LiveAfter
<1>5. /\ \A v : InReg(v)' <=> InReg(v)
      /\ \A v, s : RegOf(v, s)' = RegOf(v, s')
  BY DEF InReg, RegOf
<1>6. Blocks' = Blocks /\ MaxRegArgs' = MaxRegArgs
  BY DEF Blocks, MaxRegArgs
<1>7. ParamsFetchedInTime' <=> ParamsFetchedInTime
  BY <1>2, <1>3, <1>5, <1>6 DEF ParamsFetchedInTime
<1>8. SelectsHaveScratch' <=> SelectsHaveScratch
  <2>1. \A b, i : SelectScratch(b, i)' = SelectScratch(b, i)
    BY <1>3, <1>5 DEF SelectScratch
  <2>2. \A b, i : LiveAfter(b, i, liveOut[b])' = LiveAfter(b, i, liveOut[b])
    BY <1>4
  <2>3. QED
    BY <1>2, <1>3, <1>5, <1>6, <2>1, <2>2 DEF SelectsHaveScratch
<1>9. CalleesOutOfTheWay' <=> CalleesOutOfTheWay
  BY <1>2, <1>6 DEF CalleesOutOfTheWay, CalleeSaved
<1>10. QED
  BY <1>1, <1>2, <1>4, <1>6, <1>7, <1>8, <1>9 DEF SavesRecorded, Undisturbed, Home

(* What every step of the code must keep, and, as far as the instruction   *)
(* at hand matters for later fetches of parameters, leave alone.           *)
Keeps ==
  /\ UNCHANGED vars
  /\ RunInv'
  /\ \A q \in CalleeSaved \ usedCalleeSaved : mach'.reg[q] = mach.reg[q]
  /\ ParamsWait => ParamsWait'

(* The homes hold after the step, and it consumed what was meant.          *)
Right == HomesHoldValues' /\ ReadsWhatIsMeant'

(* An instruction that ends in store_result_mir of r: m is the machine     *)
(* before it, and only the registers R were touched.                       *)
LEMMA FinishKeeps ==
  ASSUME Running, NEW m, NEW r \in Regs, NEW rd, NEW want, NEW result,
         Inst.op \notin Terminators, NEW R, SameBut(m, mach, R),
         R \cap CalleeSaved \subseteq {DestReg},
         Inst.op = "SIR_GET_PARAM" => R \subseteq {RAX, DestReg},
         Finish(Store(m, r), rd, want, result)
  PROVE  Keeps
<1>1. /\ mach' = Store(m, r) /\ read' = rd /\ meant' = want
      /\ vals' = IF Inst.dest = NoDest THEN vals ELSE [vals EXCEPT ![Inst.dest] = result]
      /\ pi' = pi + 1 /\ UNCHANGED <<stage, pc, vars>>
  BY DEF Finish
<1>2. IsMachine(m) /\ \A q \in Regs \ R : m.reg[q] = mach.reg[q]
  BY DEF SameBut
<1>3. IsMachine(mach') /\ \A q \in Regs \ (R \cup {DestReg}) : mach'.reg[q] = mach.reg[q]
  BY <1>1, <1>2, StoreFacts
<1>4. RunInv'
  <2>1. pc' \in Blocks' /\ pi' \in 1..Len(Code(pc))'
    <3>1. pi \in 1..Len(Code(pc)) /\ pi # Len(Code(pc)) /\ Len(Code(pc)) \in Nat /\ pc \in Blocks
      BY InstFacts
    <3>2. Blocks' = Blocks /\ Code(pc)' = Code(pc)
      BY <1>1 DEF vars, Blocks, Code
    <3>3. QED
      BY <1>1, <3>1, <3>2
  <2>2. vals' = [v \in Vregs |-> vals'[v]]
    BY <1>1 DEF Running, RunInv
  <2>3. IsMachine(mach)'
    BY <1>3 DEF IsMachine
  <2>4. QED
    BY <1>1, <2>1, <2>2, <2>3, InstFacts DEF Running, RunInv, vars
<1>5. \A q \in CalleeSaved \ usedCalleeSaved : mach'.reg[q] = mach.reg[q]
  <2>1. ASSUME NEW q \in CalleeSaved \ usedCalleeSaved PROVE q \in Regs /\ q # DestReg
    <3>1. q \in Regs /\ q # RAX
      BY RegisterFacts
    <3>2. QED
      BY <3>1, DestFacts
  <2>2. QED
    BY <1>3, <2>1
<1>6. ASSUME ParamsWait PROVE ParamsWait'
  <2>1. SUFFICES ASSUME pc = 1, Undisturbed, NEW i \in (pi + 1)..Len(Code(1)),
                        Code(1)[i].op = "SIR_GET_PARAM", Code(1)[i].imm < MaxRegArgs
                 PROVE  mach'.reg[ArgRegs[Code(1)[i].imm + 1]] = Param(Code(1)[i].imm)
    <3>1. Code(1)' = Code(1) /\ MaxRegArgs' = MaxRegArgs /\ (Undisturbed' <=> Undisturbed)
      BY <1>1, AllocatorFrame DEF vars, MaxRegArgs
    <3>2. QED
      BY <1>1, <2>1, <3>1 DEF ParamsWait, Running
  <2> DEFINE a == ArgRegs[Code(1)[i].imm + 1]
  <2>2. i \in DOMAIN Code(1) /\ pi \in 1..(i - 1) /\ 1 \in Blocks /\ i \in pi..Len(Code(1))
    BY <2>1, InstFacts
  <2>3. Inst.op = "SIR_GET_PARAM" /\ (InReg(Inst.dest) => DestReg # a)
    <3>1. Code(1)[pi].op = "SIR_GET_PARAM" /\ (InReg(Dest(1, pi)) => color[Dest(1, pi)] # a)
      BY <2>1, <2>2 DEF Undisturbed, ParamsFetchedInTime
    <3>2. QED
      BY <2>1, <3>1, InstFacts, DestFacts
  <2>4. a \in Regs /\ a # RAX
    <3>1. Code(1)[i].imm + 1 \in 1..6
      <4>1. Code(1)[i].imm \in Nat
        <5>1. Code(1) \in Seq(Insts) /\ i \in 1..Len(Code(1))
          BY <2>1, <2>2, InstFacts
        <5>2. Code(1)[i] \in Insts
          BY <5>1
        <5>3. QED
          BY <5>2 DEF Insts
      <4>2. QED
        BY <2>1, <4>1 DEF MaxRegArgs
    <3>2. QED
      BY <3>1, ArgRegFacts
  <2>5. a # DestReg
    BY <2>3, <2>4, DestFacts
  <2>6. mach.reg[a] = Param(Code(1)[i].imm)
    BY <1>6, <2>1, <2>2 DEF ParamsWait, Running
  <2>7. QED
    BY <1>3, <2>3, <2>4, <2>5, <2>6
<1>7. QED
  BY <1>1, <1>4, <1>5, <1>6 DEF Keeps

LEMMA FinishRight ==
  ASSUME Running, HomesHoldValues, NEW m, NEW r \in Regs, NEW rd, NEW want, NEW result,
         NEW R, SameBut(m, mach, R),
         \A v \in LiveNext \ {Inst.dest} : InReg(v) => color[v] \notin R,
         rd = want, m.reg[r] = result,
         Finish(Store(m, r), rd, want, result)
  PROVE  Right
<1>1. /\ mach' = Store(m, r) /\ read' = rd /\ meant' = want
      /\ vals' = IF Inst.dest = NoDest THEN vals ELSE [vals EXCEPT ![Inst.dest] = result]
      /\ pi' = pi + 1 /\ UNCHANGED <<stage, pc, vars>>
  BY DEF Finish
<1>2. LiveHere' = LiveNext
  <2>1. pi' - 1 = pi
    BY <1>1, InstFacts
  <2>2. LiveAfter(pc, pi - 1, liveOut[pc])' = LiveAfter(pc, pi, liveOut[pc])
    BY <1>1, <2>1, AllocatorFrame DEF vars
  <2>3. QED
    BY <1>1, <2>2 DEF LiveHere, LiveNext, vars
<1>3. IsMachine(m) /\ m.slot = mach.slot /\ \A q \in Regs \ R : m.reg[q] = mach.reg[q]
  BY DEF SameBut
<1>4. ASSUME NEW v \in LiveNext PROVE Home(mach, v)' = vals'[v]
  <2>0. Home(mach, v)' = Home(Store(m, r), v) /\ v \in Vregs
    BY <1>1, AllocatorFrame, LiveFacts
  <2>1. CASE v = Inst.dest
    <3>1. v # NoDest
      BY LiveFacts DEF Vregs, NoDest
    <3>2. vals'[v] = result
      BY <1>1, <2>0, <2>1, <3>1 DEF Running, RunInv
    <3>3. QED
      BY <1>3, <2>0, <2>1, <3>1, <3>2, StoreFacts
  <2>2. CASE v # Inst.dest
    <3>1. Home(Store(m, r), v) = Home(m, v)
      BY <1>3, <2>2, StoreFacts
    <3>2. Home(m, v) = Home(mach, v)
      <4>1. color[v] # Spilled => color[v] \in Regs \ R
        BY <2>0, <2>2, InstFacts, HomeFacts DEF InReg, Vregs, Const
      <4>2. QED
        BY <1>3, <4>1 DEF Home
    <3>3. Home(mach, v) = vals[v]
      BY <2>2, LiveFacts DEF HomesHoldValues, Running
    <3>4. vals'[v] = vals[v]
      BY <1>1, <2>0, <2>2 DEF Running, RunInv
    <3>5. QED
      BY <2>0, <3>1, <3>2, <3>3, <3>4
  <2>3. QED
    BY <2>1, <2>2
<1>5. QED
  BY <1>1, <1>2, <1>4 DEF Right, HomesHoldValues, ReadsWhatIsMeant

(* Most instructions touch only the scratch registers and the destination. *)
LEMMA FinishPlain ==
  ASSUME Running, NEW m, NEW r \in Regs, NEW rd, NEW want, NEW result,
         Inst.op \notin Terminators, Inst.op # "SIR_GET_PARAM",
         SameBut(m, mach, Scratch \cup {DestReg}),
         Finish(Store(m, r), rd, want, result)
  PROVE  /\ Keeps
         /\ HomesHoldValues /\ rd = want /\ m.reg[r] = result => Right
<1>1. (Scratch \cup {DestReg}) \cap CalleeSaved \subseteq {DestReg}
  BY RegisterFacts DEF Scratch
<1>2. Keeps
  BY <1>1, FinishKeeps
<1>3. ASSUME HomesHoldValues, rd = want, m.reg[r] = result PROVE Right
  BY <1>3, DestFacts, FinishRight
<1>4. QED
  BY <1>2, <1>3

-----------------------------------------------------------------------------
(* One lemma per action: what the step keeps, and that it is right when    *)
(* the homes hold before it.                                               *)

(* Two operands loaded one after the other, into scratch registers that do *)
(* not get into each other's way.                                          *)
LEMMA LoadTwo ==
  ASSUME TypeOK, NEW m, IsMachine(m), NEW a \in Vregs \cup {Const}, NEW b \in Vregs \cup {Const},
         NEW s \in Regs, NEW t \in Regs, InReg(b) => color[b] # s, RegOf(a, s) # t
  PROVE  /\ SameBut(Load(Load(m, a, s), b, t), m, {s, t})
         /\ Load(Load(m, a, s), b, t).reg[RegOf(a, s)] = Place(m, a)
         /\ Load(Load(m, a, s), b, t).reg[RegOf(b, t)] = Place(m, b)
         /\ RegOf(a, s) \in Regs /\ RegOf(b, t) \in Regs
<1> DEFINE m1 == Load(m, a, s)
           m2 == Load(m1, b, t)
<1>1. SameBut(m1, m, {s}) /\ IsMachine(m1) /\ RegOf(a, s) \in Regs
      /\ m1.reg[RegOf(a, s)] = Place(m, a)
  BY LoadFacts DEF SameBut
<1> HIDE DEF m1
<1>2. SameBut(m2, m1, {t}) /\ RegOf(b, t) \in Regs /\ m2.reg[RegOf(b, t)] = Place(m1, b)
  BY <1>1, LoadFacts
<1>3. Place(m1, b) = Place(m, b)
  BY <1>1, PlaceKept
<1>4. m2.reg[RegOf(a, s)] = m1.reg[RegOf(a, s)]
  BY <1>1, <1>2 DEF SameBut
<1>5. SameBut(m2, m, {s, t})
  BY <1>1, <1>2 DEF SameBut
<1>6. QED
  BY <1>1, <1>2, <1>3, <1>4, <1>5 DEF m1

LEMMA LoadTwoScratch ==
  ASSUME Running, NEW k \in DOMAIN Inst.args, NEW l \in DOMAIN Inst.args,
         NEW s \in Scratch, NEW t \in Scratch, s # t
  PROVE  LET m2 == Load(Load(mach, Arg(k), s), Arg(l), t)
         IN  /\ SameBut(m2, mach, {s, t})
             /\ m2.reg[RegOf(Arg(k), s)] = Place(mach, Arg(k))
             /\ m2.reg[RegOf(Arg(l), t)] = Place(mach, Arg(l))
             /\ RegOf(Arg(k), s) \in Regs /\ RegOf(Arg(l), t) \in Regs
<1>1. TypeOK /\ IsMachine(mach) /\ Scratch \subseteq Regs
      /\ Arg(k) \in Vregs \cup {Const} /\ Arg(l) \in Vregs \cup {Const}
  BY InstFacts, ArgFacts DEF Running, RunInv, Regs, Scratch
<1>2. InReg(Arg(l)) => color[Arg(l)] # s
  BY <1>1, HomeFacts
<1>3. RegOf(Arg(k), s) # t
  BY <1>1, HomeFacts
<1>4. QED
  BY <1>1, <1>2, <1>3, LoadTwo

(* The facts about registers every one of the following lemmas needs.      *)
LEMMA ScratchFacts ==
  ASSUME Running
  PROVE  /\ Scratch = {RAX, RCX, RDX} /\ Scratch \subseteq Regs
         /\ RAX # RCX /\ RAX # RDX /\ RCX # RDX /\ RAX # Spilled
         /\ RAX \in Scratch /\ RCX \in Scratch /\ RDX \in Scratch
         /\ DestReg \in Regs /\ DestReg \notin {RCX, RDX, Spilled}
         /\ TypeOK /\ IsMachine(mach)
<1>1. DestReg = RAX \/ (DestReg = color[Inst.dest] /\ DestReg \notin Scratch /\ Inst.dest \in Vregs
                         /\ InReg(Inst.dest))
  BY DestFacts
<1>2. TypeOK /\ IsMachine(mach)
  BY InstFacts DEF Running, RunInv
<1>3. QED
  BY <1>1, <1>2, DestFacts, RegisterFacts DEF Scratch, InReg

LEMMA AllocaStep ==
  ASSUME Running, Alloca
  PROVE  Keeps /\ (HomesHoldValues => Right)
<1> DEFINE m1 == Set(mach, DestReg, Fresh)
<1>1. SameBut(m1, mach, {DestReg}) /\ m1.reg[DestReg] = Fresh
  BY SetFacts, DestFacts DEF Running, RunInv
<1>2. SameBut(m1, mach, Scratch \cup {DestReg})
  BY <1>1 DEF SameBut
<1>3. Finish(Store(m1, DestReg), Operands, Operands, Fresh) /\ Inst.op = "SIR_ALLOCA"
  BY DEF Alloca, At
<1> HIDE DEF m1
<1>4. QED
  BY <1>1, <1>2, <1>3, FinishPlain, DestFacts DEF Terminators, JumpOps

(* The result of an instruction that consumed rd appears in register r.    *)
LEMMA ResultIn ==
  ASSUME Running, NEW m, SameBut(m, mach, Scratch \cup {DestReg}),
         NEW r \in Scratch \cup {DestReg}, NEW rd, NEW want,
         Inst.op \notin Terminators, Inst.op # "SIR_GET_PARAM",
         Finish(Store(Set(m, r, Out(rd, want)), r), rd, want, Fresh)
  PROVE  /\ Keeps
         /\ HomesHoldValues /\ rd = want => Right
<1> DEFINE m1 == Set(m, r, Out(rd, want))
<1>1. r \in Regs /\ IsMachine(m)
  BY DestFacts DEF SameBut, Regs, Scratch
<1>2. SameBut(m1, m, {r}) /\ m1.reg[r] = Out(rd, want)
  BY <1>1, SetFacts
<1>3. SameBut(m1, mach, Scratch \cup {DestReg})
  BY <1>2 DEF SameBut
<1>4. rd = want => Out(rd, want) = Fresh
  BY DEF Out
<1>5. Finish(Store(m1, r), rd, want, Fresh)
  OBVIOUS
<1> HIDE DEF m1
<1>6. QED
  BY <1>1, <1>2, <1>3, <1>4, <1>5, FinishPlain

LEMMA LoadMemStep ==
  ASSUME Running, LoadMem
  PROVE  Keeps /\ (HomesHoldValues => Right)
<1> DEFINE m1 == Load(mach, Arg(1), RCX)
           rd == <<m1.reg[RegOf(Arg(1), RCX)]>>
<1>1. Inst.op = "SIR_LOAD" /\ Arg(1) \in Vregs \cup {Const} /\ Operands = <<Value(Arg(1))>>
      /\ 1 \in DOMAIN Inst.args
  BY ArgFacts DEF LoadMem, At, OneArgOps
<1>2. SameBut(m1, mach, {RCX}) /\ m1.reg[RegOf(Arg(1), RCX)] = Place(mach, Arg(1))
  BY <1>1, LoadFacts, InstFacts DEF Running, RunInv, Regs
<1>3. SameBut(m1, mach, Scratch \cup {DestReg})
  BY <1>2 DEF SameBut, Scratch
<1>4. HomesHoldValues => rd = Operands
  BY <1>1, <1>2, OperandHeld
<1>5. Finish(Store(Set(m1, DestReg, Out(rd, Operands)), DestReg), rd, Operands, Fresh)
  BY DEF LoadMem
<1> HIDE DEF m1, rd
<1>6. QED
  BY <1>1, <1>3, <1>4, <1>5, ResultIn DEF Terminators, JumpOps

(* An instruction without a result, after which the machine is m.          *)
LEMMA NoResult ==
  ASSUME Running, NEW m, SameBut(m, mach, Scratch \cup {DestReg}), NEW rd, NEW want, NEW result,
         Inst.op \notin Terminators, Inst.op # "SIR_GET_PARAM", Inst.dest = NoDest,
         Finish(m, rd, want, result)
  PROVE  Keeps /\ (HomesHoldValues /\ rd = want => Right)
<1>1. Finish(Store(m, RAX), rd, want, m.reg[RAX]) /\ RAX \in Regs
  BY DEF Finish, Store, Regs
<1>2. QED
  BY <1>1, FinishPlain

LEMMA StoreMemStep ==
  ASSUME Running, StoreMem
  PROVE  Keeps /\ (HomesHoldValues => Right)
<1> DEFINE m2 == Load(Load(mach, Arg(1), RAX), Arg(2), RCX)
           rd == <<m2.reg[RegOf(Arg(1), RAX)], m2.reg[RegOf(Arg(2), RCX)]>>
<1>1. /\ Inst.op = "SIR_STORE" /\ 1 \in DOMAIN Inst.args /\ 2 \in DOMAIN Inst.args
      /\ Operands = <<Value(Arg(1)), Value(Arg(2))>> /\ Inst.dest = NoDest
  BY ArgFacts, InstFacts DEF StoreMem, At, TwoArgOps, WellShaped
<1>2. /\ SameBut(m2, mach, {RAX, RCX})
      /\ rd = <<Place(mach, Arg(1)), Place(mach, Arg(2))>>
  BY <1>1, LoadTwoScratch, ScratchFacts
<1>3. SameBut(m2, mach, Scratch \cup {DestReg})
  BY <1>2, ScratchFacts DEF SameBut
<1>4. HomesHoldValues => rd = Operands
  BY <1>1, <1>2, OperandHeld
<1>5. Finish(m2, rd, Operands, Fresh)
  BY DEF StoreMem
<1> HIDE DEF m2, rd
<1>6. QED
  BY <1>1, <1>3, <1>4, <1>5, NoResult DEF Terminators, JumpOps

LEMMA AluStep ==
  ASSUME Running, Alu
  PROVE  Keeps /\ (HomesHoldValues => Right)
<1> DEFINE W == WorkReg
           m1 == LoadTo(mach, Arg(1), W, W)
           m2 == Load(m1, Arg(2), RCX)
           rd == <<m2.reg[W], m2.reg[RegOf(Arg(2), RCX)]>>
           m3 == Mov(Set(m2, W, Out(rd, Operands)), DestReg, W)
<1>1. /\ Inst.op \in AluOps /\ Arg(1) \in Vregs \cup {Const} /\ Arg(2) \in Vregs \cup {Const}
      /\ 1 \in DOMAIN Inst.args /\ 2 \in DOMAIN Inst.args
      /\ Operands = <<Value(Arg(1)), Value(Arg(2))>>
  BY ArgFacts DEF Alu, At, TwoArgOps
<1>2. /\ W \in {RAX, DestReg} /\ W \in Regs /\ W # RCX
      /\ InReg(Arg(2)) => color[Arg(2)] # W
  BY <1>1, ScratchFacts, HomeFacts DEF WorkReg
<1>3. Finish(Store(m3, DestReg), rd, Operands, Fresh)
  BY DEF Alu
<1> HIDE DEF W
<1>4. SameBut(m1, mach, {W}) /\ IsMachine(m1) /\ m1.reg[W] = Place(mach, Arg(1))
  BY <1>1, <1>2, LoadHere, ScratchFacts
<1> HIDE DEF m1
<1>5. SameBut(m2, m1, {RCX}) /\ m2.reg[RegOf(Arg(2), RCX)] = Place(m1, Arg(2))
  BY <1>1, <1>4, LoadFacts, ScratchFacts
<1>6. Place(m1, Arg(2)) = Place(mach, Arg(2))
  BY <1>1, <1>2, <1>4, PlaceKept, ScratchFacts
<1>7. rd = <<Place(mach, Arg(1)), Place(mach, Arg(2))>>
  BY <1>2, <1>4, <1>5, <1>6 DEF SameBut
<1>8. HomesHoldValues => rd = Operands
  BY <1>1, <1>7, OperandHeld
<1>9. SameBut(m2, mach, {RCX, W}) /\ IsMachine(m2)
  BY <1>4, <1>5 DEF SameBut
<1> HIDE DEF m2, rd
<1>10. SameBut(m3, mach, Scratch \cup {DestReg}) /\ m3.reg[DestReg] = Out(rd, Operands)
  <2> DEFINE m4 == Set(m2, W, Out(rd, Operands))
  <2>1. SameBut(m4, m2, {W}) /\ IsMachine(m4) /\ m4.reg[W] = Out(rd, Operands)
    BY <1>2, <1>9, SetFacts DEF SameBut
  <2> HIDE DEF m4
  <2>2. SameBut(Mov(m4, DestReg, W), m4, {DestReg}) /\ Mov(m4, DestReg, W).reg[DestReg] = m4.reg[W]
    BY <1>2, <2>1, MovFacts, ScratchFacts
  <2>3. m3 = Mov(m4, DestReg, W)
    BY DEF m4
  <2>4. QED
    BY <1>2, <1>9, <2>1, <2>2, <2>3, ScratchFacts DEF SameBut
<1>11. rd = Operands => Out(rd, Operands) = Fresh
  BY DEF Out
<1> HIDE DEF m3
<1>12. QED
  BY <1>1, <1>3, <1>8, <1>10, <1>11, FinishPlain, ScratchFacts DEF AluOps, Terminators, JumpOps

LEMMA ViaRaxRcxStep ==
  ASSUME Running, Inst.op \in {"SIR_DIV", "SIR_MOD", "SIR_SHL", "SIR_SHR", "SIR_FCMP"},
         NEW res \in {RAX, RDX}, ViaRaxRcx(res)
  PROVE  Keeps /\ (HomesHoldValues => Right)
<1> DEFINE m1 == Load(Load(mach, Arg(1), RAX), Arg(2), RCX)
           m2 == Mov(m1, RAX, RegOf(Arg(1), RAX))
           m3 == Mov(m2, RCX, RegOf(Arg(2), RCX))
           rd == <<m3.reg[RAX], m3.reg[RCX]>>
<1>1. /\ Arg(1) \in Vregs \cup {Const} /\ Arg(2) \in Vregs \cup {Const}
      /\ 1 \in DOMAIN Inst.args /\ 2 \in DOMAIN Inst.args
      /\ Operands = <<Value(Arg(1)), Value(Arg(2))>>
  BY ArgFacts DEF TwoArgOps, FixedOps
<1>2. /\ SameBut(m1, mach, {RAX, RCX}) /\ IsMachine(m1)
      /\ m1.reg[RegOf(Arg(1), RAX)] = Place(mach, Arg(1))
      /\ m1.reg[RegOf(Arg(2), RCX)] = Place(mach, Arg(2))
      /\ RegOf(Arg(1), RAX) \in Regs /\ RegOf(Arg(2), RCX) \in Regs
  BY <1>1, LoadTwoScratch, ScratchFacts DEF SameBut
<1>3. RegOf(Arg(2), RCX) # RAX
  BY <1>1, HomeFacts, ScratchFacts
<1>4. Finish(Store(Set(m3, res, Out(rd, Operands)), res), rd, Operands, Fresh)
  BY DEF ViaRaxRcx
<1> HIDE DEF m1
<1>5. SameBut(m2, m1, {RAX}) /\ IsMachine(m2) /\ m2.reg[RAX] = Place(mach, Arg(1))
  BY <1>2, MovFacts, ScratchFacts
<1> HIDE DEF m2
<1>6. SameBut(m3, m2, {RCX}) /\ m3.reg[RCX] = m2.reg[RegOf(Arg(2), RCX)]
  BY <1>2, <1>5, MovFacts, ScratchFacts
<1>7. m2.reg[RegOf(Arg(2), RCX)] = Place(mach, Arg(2))
  BY <1>2, <1>3, <1>5 DEF SameBut
<1>8. m3.reg[RAX] = Place(mach, Arg(1)) /\ m3.reg[RCX] = Place(mach, Arg(2))
  BY <1>5, <1>6, <1>7, ScratchFacts DEF SameBut
<1>9. HomesHoldValues => rd = Operands
  BY <1>1, <1>8, OperandHeld
<1>10. SameBut(m3, mach, Scratch \cup {DestReg})
  BY <1>2, <1>5, <1>6, ScratchFacts DEF SameBut
<1> HIDE DEF m3, rd
<1>11. QED
  BY <1>4, <1>9, <1>10, ResultIn, ScratchFacts DEF Terminators, JumpOps

LEMMA FixedSteps ==
  ASSUME Running, DivMod \/ Shift \/ FCmp
  PROVE  Keeps /\ (HomesHoldValues => Right)
BY ViaRaxRcxStep DEF DivMod, Shift, FCmp, At

LEMMA ICmpStep ==
  ASSUME Running, ICmp
  PROVE  Keeps /\ (HomesHoldValues => Right)
<1> DEFINE m1 == Load(Load(mach, Arg(1), RAX), Arg(2), RCX)
           rd == <<m1.reg[RegOf(Arg(1), RAX)], m1.reg[RegOf(Arg(2), RCX)]>>
<1>1. /\ Inst.op = "SIR_ICMP" /\ 1 \in DOMAIN Inst.args /\ 2 \in DOMAIN Inst.args
      /\ Operands = <<Value(Arg(1)), Value(Arg(2))>>
  BY ArgFacts DEF ICmp, At, TwoArgOps, FixedOps
<1>2. /\ SameBut(m1, mach, {RAX, RCX})
      /\ rd = <<Place(mach, Arg(1)), Place(mach, Arg(2))>>
  BY <1>1, LoadTwoScratch, ScratchFacts
<1>3. HomesHoldValues => rd = Operands
  BY <1>1, <1>2, OperandHeld
<1>4. SameBut(m1, mach, Scratch \cup {DestReg})
  BY <1>2, ScratchFacts DEF SameBut
<1>5. Finish(Store(Set(m1, RAX, Out(rd, Operands)), RAX), rd, Operands, Fresh)
  BY DEF ICmp
<1> HIDE DEF m1, rd
<1>6. QED
  BY <1>1, <1>3, <1>4, <1>5, ResultIn, ScratchFacts DEF Terminators, JumpOps

LEMMA FloatStep ==
  ASSUME Running, FloatArith
  PROVE  Keeps /\ (HomesHoldValues => Right)
<1> DEFINE W     == WorkReg
           left  == RegOf(Arg(1), W)
           right == RegOf(Arg(2), RCX)
           m2    == Load(Load(mach, Arg(1), W), Arg(2), RCX)
           m3a   == Mov(m2, DestReg, left)
           m3    == Mov(m3a, RCX, right)
           inPlace == right = DestReg /\ left # DestReg
           m4    == IF inPlace THEN m2 ELSE m3
           rd    == IF inPlace THEN <<m2.reg[left], m2.reg[right]>>
                    ELSE <<m3.reg[DestReg], m3.reg[RCX]>>
<1>1. /\ Inst.op \in FloatOps /\ Arg(1) \in Vregs \cup {Const} /\ Arg(2) \in Vregs \cup {Const}
      /\ 1 \in DOMAIN Inst.args /\ 2 \in DOMAIN Inst.args
      /\ Operands = <<Value(Arg(1)), Value(Arg(2))>>
  BY ArgFacts DEF FloatArith, At, TwoArgOps
<1>2. /\ W \in {RAX, DestReg} /\ W \in Regs /\ W # RCX
      /\ InReg(Arg(2)) => color[Arg(2)] # W
      /\ left # RCX
      /\ right = DestReg /\ left = DestReg => W = RAX
  BY <1>1, ScratchFacts, HomeFacts DEF WorkReg
<1>3. Finish(Store(Set(m4, DestReg, Out(rd, Operands)), DestReg), rd, Operands, Fresh)
  BY DEF FloatArith
<1> HIDE DEF W
<1>4. /\ SameBut(m2, mach, {W, RCX}) /\ IsMachine(m2)
      /\ m2.reg[left] = Place(mach, Arg(1)) /\ m2.reg[right] = Place(mach, Arg(2))
      /\ left \in Regs /\ right \in Regs
  BY <1>1, <1>2, LoadTwo, ScratchFacts DEF SameBut
<1> HIDE DEF m2, left, right
<1>5. SameBut(m3a, m2, {DestReg}) /\ IsMachine(m3a) /\ m3a.reg[DestReg] = m2.reg[left]
  BY <1>4, MovFacts, ScratchFacts
<1>6. ~inPlace => m3a.reg[right] = m2.reg[right]
  BY <1>4, <1>5 DEF SameBut
<1> HIDE DEF m3a
<1>7. SameBut(m3, m3a, {RCX}) /\ m3.reg[RCX] = m3a.reg[right]
  BY <1>4, <1>5, MovFacts, ScratchFacts
<1>8. m3.reg[DestReg] = m2.reg[left]
  BY <1>5, <1>7, ScratchFacts DEF SameBut
<1>9. rd = <<Place(mach, Arg(1)), Place(mach, Arg(2))>>
  BY <1>4, <1>6, <1>7, <1>8
<1>10. HomesHoldValues => rd = Operands
  BY <1>1, <1>9, OperandHeld
<1>11. SameBut(m4, mach, Scratch \cup {DestReg})
  BY <1>2, <1>4, <1>5, <1>7, ScratchFacts DEF SameBut
<1> HIDE DEF m4, rd
<1>12. QED
  BY <1>1, <1>3, <1>10, <1>11, ResultIn, ScratchFacts DEF FloatOps, Terminators, JumpOps

LEMMA CastStep ==
  ASSUME Running, Cast
  PROVE  Keeps /\ (HomesHoldValues => Right)
<1> DEFINE m1 == LoadTo(mach, Arg(1), RAX, RAX)
           rd == <<m1.reg[RAX]>>
<1>1. Inst.op = "SIR_CAST" /\ Arg(1) \in Vregs \cup {Const} /\ Operands = <<Value(Arg(1))>>
      /\ 1 \in DOMAIN Inst.args
  BY ArgFacts DEF Cast, At, OneArgOps
<1>2. SameBut(m1, mach, {RAX}) /\ m1.reg[RAX] = Place(mach, Arg(1))
  BY <1>1, LoadHere, ScratchFacts
<1>3. HomesHoldValues => rd = Operands
  BY <1>1, <1>2, OperandHeld
<1>4. SameBut(m1, mach, Scratch \cup {DestReg})
  BY <1>2, ScratchFacts DEF SameBut
<1>5. Finish(Store(Set(m1, RAX, Out(rd, Operands)), RAX), rd, Operands, Fresh)
  BY DEF Cast
<1> HIDE DEF m1, rd
<1>6. QED
  BY <1>1, <1>3, <1>4, <1>5, ResultIn, ScratchFacts DEF Terminators, JumpOps

LEMMA GepConstStep ==
  ASSUME Running, GepConst
  PROVE  Keeps /\ (HomesHoldValues => Right)
<1> DEFINE m1 == Load(mach, Arg(1), DestReg)
           rd == <<m1.reg[RegOf(Arg(1), DestReg)], ConstVal>>
<1>1. /\ Inst.op = "SIR_GEP" /\ Arg(1) \in Vregs \cup {Const} /\ 1 \in DOMAIN Inst.args
      /\ Operands = <<Value(Arg(1)), ConstVal>>
  BY ArgFacts DEF GepConst, At, TwoArgOps, Value
<1>2. SameBut(m1, mach, {DestReg}) /\ m1.reg[RegOf(Arg(1), DestReg)] = Place(mach, Arg(1))
  BY <1>1, LoadFacts, ScratchFacts
<1>3. HomesHoldValues => rd = Operands
  BY <1>1, <1>2, OperandHeld
<1>4. SameBut(m1, mach, Scratch \cup {DestReg})
  BY <1>2 DEF SameBut
<1>5. Finish(Store(Set(m1, DestReg, Out(rd, Operands)), DestReg), rd, Operands, Fresh)
  BY DEF GepConst
<1> HIDE DEF m1, rd
<1>6. QED
  BY <1>1, <1>3, <1>4, <1>5, ResultIn DEF Terminators, JumpOps

LEMMA GepVarStep ==
  ASSUME Running, GepVar
  PROVE  Keeps /\ (HomesHoldValues => Right)
<1> DEFINE pscr == IF DestReg = RAX THEN RCX ELSE RAX
           ptr  == RegOf(Arg(1), pscr)
           iscr == IF ptr = RCX THEN RDX ELSE RCX
           m2   == Load(Load(mach, Arg(1), pscr), Arg(2), iscr)
           idx  == RegOf(Arg(2), iscr)
           m3a  == Mov(m2, iscr, idx)
           m3b  == Mov(m2, DestReg, ptr)
           m3   == IF idx = DestReg /\ ptr # DestReg
                   THEN Mov(m3a, DestReg, ptr) ELSE Mov(m3b, iscr, idx)
           rd   == <<m3.reg[DestReg], m3.reg[iscr]>>
<1>1. /\ Inst.op = "SIR_GEP" /\ Arg(1) \in Vregs \cup {Const} /\ Arg(2) \in Vregs \cup {Const}
      /\ 1 \in DOMAIN Inst.args /\ 2 \in DOMAIN Inst.args
      /\ Operands = <<Value(Arg(1)), Value(Arg(2))>>
  BY ArgFacts DEF GepVar, At, TwoArgOps
<1>2. /\ pscr \in Scratch /\ iscr \in Scratch /\ ptr # iscr /\ iscr # DestReg
      /\ InReg(Arg(2)) => color[Arg(2)] # pscr
  BY <1>1, ScratchFacts, HomeFacts
<1>3. Finish(Store(Set(m3, DestReg, Out(rd, Operands)), DestReg), rd, Operands, Fresh)
  BY DEF GepVar
<1>4. /\ SameBut(m2, mach, {pscr, iscr}) /\ IsMachine(m2)
      /\ m2.reg[ptr] = Place(mach, Arg(1)) /\ m2.reg[idx] = Place(mach, Arg(2))
      /\ ptr \in Regs /\ idx \in Regs
  <2>1. pscr \in Regs /\ iscr \in Regs /\ RegOf(Arg(1), pscr) # iscr
    BY <1>2, ScratchFacts
  <2> HIDE DEF pscr, iscr
  <2>2. QED
    BY <1>1, <1>2, <2>1, LoadTwo, ScratchFacts DEF SameBut
<1> HIDE DEF pscr, ptr, iscr, m2, idx
<1>5. iscr \in Regs
  BY <1>2, ScratchFacts
<1>6. /\ SameBut(m3a, m2, {iscr}) /\ IsMachine(m3a) /\ m3a.reg[iscr] = m2.reg[idx]
      /\ SameBut(m3b, m2, {DestReg}) /\ IsMachine(m3b) /\ m3b.reg[DestReg] = m2.reg[ptr]
  BY <1>4, <1>5, MovFacts, ScratchFacts
<1> HIDE DEF m3a, m3b
<1>7. CASE idx = DestReg /\ ptr # DestReg
  <2>1. m3 = Mov(m3a, DestReg, ptr)
    BY <1>7
  <2>2. SameBut(m3, m3a, {DestReg}) /\ m3.reg[DestReg] = m3a.reg[ptr]
    BY <1>4, <1>6, <2>1, MovFacts, ScratchFacts
  <2>3. m3.reg[iscr] = m3a.reg[iscr] /\ m3a.reg[ptr] = m2.reg[ptr]
    BY <1>2, <1>4, <1>5, <1>6, <2>2 DEF SameBut
  <2>4. SameBut(m3, mach, Scratch \cup {DestReg})
    BY <1>2, <1>4, <1>6, <2>2 DEF SameBut
  <2>5. HomesHoldValues => rd = Operands
    BY <1>1, <1>4, <1>6, <2>2, <2>3, OperandHeld
  <2> HIDE DEF m3, rd
  <2>6. QED
    BY <1>1, <1>3, <2>4, <2>5, ResultIn DEF Terminators, JumpOps
<1>8. CASE ~(idx = DestReg /\ ptr # DestReg)
  <2>1. m3 = Mov(m3b, iscr, idx)
    BY <1>8
  <2>2. SameBut(m3, m3b, {iscr}) /\ m3.reg[iscr] = m3b.reg[idx]
    <3> HIDE DEF m3
    <3>1. SameBut(Mov(m3b, iscr, idx), m3b, {iscr}) /\ Mov(m3b, iscr, idx).reg[iscr] = m3b.reg[idx]
      BY <1>4, <1>5, <1>6, MovFacts
    <3>2. QED
      BY <2>1, <3>1
  <2>3. m3.reg[DestReg] = m3b.reg[DestReg] /\ m3b.reg[idx] = m2.reg[idx]
    BY <1>2, <1>4, <1>6, <1>8, <2>2, ScratchFacts DEF SameBut
  <2>4. SameBut(m3, mach, Scratch \cup {DestReg})
    BY <1>2, <1>4, <1>6, <2>2 DEF SameBut
  <2>5. HomesHoldValues => rd = Operands
    BY <1>1, <1>4, <1>6, <2>2, <2>3, OperandHeld
  <2> HIDE DEF m3, rd
  <2>6. QED
    BY <1>1, <1>3, <2>4, <2>5, ResultIn DEF Terminators, JumpOps
<1>9. QED
  BY <1>7, <1>8

(* The operands of the block copy arrive in RDI and RSI whichever of the   *)
(* two they come from.                                                     *)
LEMMA CopyOperandsFacts ==
  ASSUME NEW m, IsMachine(m), NEW dst \in Regs, NEW src \in Regs
  PROVE  /\ CopyOperands(m, dst, src).reg[RDI] = m.reg[dst]
         /\ CopyOperands(m, dst, src).reg[RSI] = m.reg[src]
<1>1. RDI \in Regs /\ RSI \in Regs /\ RDI # RSI
  BY RegisterFacts
<1>2. CASE dst = RSI /\ src = RDI
  <2> DEFINE m1 == Set(m, RDI, m.reg[RSI])
  <2>1. SameBut(m1, m, {RDI}) /\ IsMachine(m1) /\ m1.reg[RDI] = m.reg[RSI]
    BY <1>1, SetFacts
  <2>2. CopyOperands(m, dst, src) = Set(m1, RSI, m.reg[RDI])
    BY <1>2 DEF CopyOperands
  <2> HIDE DEF m1
  <2>3. SameBut(Set(m1, RSI, m.reg[RDI]), m1, {RSI}) /\ Set(m1, RSI, m.reg[RDI]).reg[RSI] = m.reg[RDI]
    BY <1>1, <2>1, SetFacts
  <2>4. QED
    BY <1>1, <1>2, <2>1, <2>2, <2>3 DEF SameBut
<1>3. CASE src = RDI /\ dst # RSI
  <2> DEFINE m1 == Mov(m, RSI, src)
  <2>1. SameBut(m1, m, {RSI}) /\ IsMachine(m1) /\ m1.reg[RSI] = m.reg[src]
    BY <1>1, MovFacts
  <2>2. CopyOperands(m, dst, src) = Mov(m1, RDI, dst)
    BY <1>3 DEF CopyOperands
  <2> HIDE DEF m1
  <2>3. SameBut(Mov(m1, RDI, dst), m1, {RDI}) /\ Mov(m1, RDI, dst).reg[RDI] = m1.reg[dst]
    BY <1>1, <2>1, MovFacts
  <2>4. QED
    BY <1>1, <1>3, <2>1, <2>2, <2>3 DEF SameBut
<1>4. CASE src # RDI
  <2> DEFINE m1 == Mov(m, RDI, dst)
  <2>1. SameBut(m1, m, {RDI}) /\ IsMachine(m1) /\ m1.reg[RDI] = m.reg[dst]
    BY <1>1, MovFacts
  <2>2. CopyOperands(m, dst, src) = Mov(m1, RSI, src)
    BY <1>4 DEF CopyOperands
  <2> HIDE DEF m1
  <2>3. SameBut(Mov(m1, RSI, src), m1, {RSI}) /\ Mov(m1, RSI, src).reg[RSI] = m1.reg[src]
    BY <1>1, <2>1, MovFacts
  <2>4. QED
    BY <1>1, <1>4, <2>1, <2>2, <2>3 DEF SameBut
<1>5. QED
  BY <1>2, <1>3, <1>4

LEMMA MemcpyStep ==
  ASSUME Running, Memcpy
  PROVE  Keeps /\ (HomesHoldValues => Right)
<1> DEFINE m1 == Load(Load(mach, Arg(1), RAX), Arg(2), RDX)
           m2 == CopyOperands(m1, RegOf(Arg(1), RAX), RegOf(Arg(2), RDX))
           rd == <<m2.reg[RDI], m2.reg[RSI]>>
<1>1. /\ Inst.op = "SIR_MEMCPY" /\ 1 \in DOMAIN Inst.args /\ 2 \in DOMAIN Inst.args
      /\ Operands = <<Value(Arg(1)), Value(Arg(2))>> /\ Inst.dest = NoDest
  BY ArgFacts, InstFacts DEF Memcpy, At, TwoArgOps, WellShaped
<1>2. /\ SameBut(m1, mach, {RAX, RDX})
      /\ m1.reg[RegOf(Arg(1), RAX)] = Place(mach, Arg(1))
      /\ m1.reg[RegOf(Arg(2), RDX)] = Place(mach, Arg(2))
      /\ RegOf(Arg(1), RAX) \in Regs /\ RegOf(Arg(2), RDX) \in Regs
  BY <1>1, LoadTwoScratch, ScratchFacts
<1>3. IsMachine(m1)
  BY <1>2 DEF SameBut
<1>4. Finish(m1, rd, Operands, Fresh)
  BY DEF Memcpy
<1> HIDE DEF m1
<1>5. rd = <<Place(mach, Arg(1)), Place(mach, Arg(2))>>
  BY <1>2, <1>3, CopyOperandsFacts
<1>6. HomesHoldValues => rd = Operands
  BY <1>1, <1>5, OperandHeld
<1>7. SameBut(m1, mach, Scratch \cup {DestReg})
  BY <1>2, ScratchFacts DEF SameBut
<1> HIDE DEF rd
<1>8. QED
  BY <1>1, <1>4, <1>6, <1>7, NoResult DEF Terminators, JumpOps

LEMMA SelectConstStep ==
  ASSUME Running, SelectConst
  PROVE  Keeps /\ (HomesHoldValues => Right)
<1> DEFINE k      == IF Inst.imm = 1 THEN 2 ELSE 3
           want   == <<Value(Arg(k))>>
           m1     == LoadTo(mach, Arg(k), DestReg, DestReg)
           rd     == <<m1.reg[DestReg]>>
<1>1. Inst.op = "SIR_SELECT" /\ k \in DOMAIN Inst.args /\ Arg(k) \in Vregs \cup {Const}
  BY ArgFacts DEF SelectConst, At, ThreeArgOps
<1>2. Finish(Store(Set(m1, DestReg, Out(rd, want)), DestReg), rd, want, Fresh)
  BY DEF SelectConst
<1> HIDE DEF k
<1>3. SameBut(m1, mach, {DestReg}) /\ m1.reg[DestReg] = Place(mach, Arg(k))
  BY <1>1, LoadHere, ScratchFacts
<1>4. HomesHoldValues => rd = want
  BY <1>1, <1>3, OperandHeld
<1>5. SameBut(m1, mach, Scratch \cup {DestReg})
  BY <1>3 DEF SameBut
<1> HIDE DEF m1, rd, want
<1>6. QED
  BY <1>1, <1>2, <1>4, <1>5, ResultIn DEF Terminators, JumpOps

(* The condition of a conditional move is out of the way of RCX and the    *)
(* destination; only the scratch register R8 or R9 may be disturbed.       *)
LEMMA SelectVarStep ==
  ASSUME Running, SelectVar
  PROVE  Keeps /\ (HomesHoldValues /\ Undisturbed => Right)
<1> DEFINE cscr == IF DestReg = R8 THEN R9 ELSE R8
           inPlace == InReg(Arg(1)) /\ color[Arg(1)] # DestReg
           m1   == Load(mach, Arg(1), cscr)
           here == RegOf(Arg(1), cscr) = DestReg
           m2   == IF here THEN Mov(m1, cscr, DestReg) ELSE m1
           cond == IF here THEN cscr ELSE RegOf(Arg(1), cscr)
           T    == IF inPlace THEN {} ELSE {cscr}
           ma   == LoadTo(m2, Arg(2), RCX, RCX)
           mb   == LoadTo(m2, Arg(3), DestReg, DestReg)
           m3   == IF RegOf(Arg(2), Spilled) = DestReg
                   THEN LoadTo(ma, Arg(3), DestReg, DestReg)
                   ELSE LoadTo(mb, Arg(2), RCX, RCX)
           rd   == <<m3.reg[cond], m3.reg[RCX], m3.reg[DestReg]>>
           m4   == Set(m3, DestReg, Out(rd, Operands))
<1>1. /\ Inst.op = "SIR_SELECT" /\ \A k \in 1..3 : k \in DOMAIN Inst.args /\ Arg(k) \in Vregs \cup {Const}
      /\ Arg(1) \in Vregs \cup {Const} /\ Arg(2) \in Vregs \cup {Const}
      /\ Arg(3) \in Vregs \cup {Const} /\ Arg(1) # Const
      /\ Operands = <<Value(Arg(1)), Value(Arg(2)), Value(Arg(3))>>
  <2>1. \A k \in 1..3 : k = 1 \/ k = 2 \/ k = 3
    OBVIOUS
  <2>2. QED
    BY <2>1, ArgFacts DEF SelectVar, At, ThreeArgOps
<1>2. Finish(Store(m4, DestReg), rd, Operands, Fresh)
  BY DEF SelectVar
<1>3. cscr \in Regs \ (Scratch \cup CalleeSaved) /\ cscr \in {R8, R9} /\ cscr # DestReg
  BY RegisterFacts DEF Scratch
<1> HIDE DEF cscr
<1>4. /\ SameBut(m2, mach, T) /\ IsMachine(m2) /\ m2.reg[cond] = Place(mach, Arg(1))
      /\ cond \in Regs \ (Scratch \cup {DestReg})
  <2>1. SameBut(m1, mach, {cscr}) /\ IsMachine(m1) /\ m1.reg[RegOf(Arg(1), cscr)] = Place(mach, Arg(1))
        /\ (InReg(Arg(1)) => m1 = mach) /\ RegOf(Arg(1), cscr) \in Regs
    BY <1>1, <1>3, LoadFacts, ScratchFacts
  <2>2. CASE ~InReg(Arg(1))
    <3>1. RegOf(Arg(1), cscr) = cscr
      BY <2>2, <1>1, HomeFacts, ScratchFacts
    <3>2. QED
      BY <1>3, <2>1, <2>2, <3>1
  <2>3. CASE inPlace
    <3>1. RegOf(Arg(1), cscr) = color[Arg(1)] /\ color[Arg(1)] \in Regs \ Scratch
      BY <2>3, <1>1, HomeFacts, ScratchFacts
    <3>2. m2 = mach /\ cond = RegOf(Arg(1), cscr) /\ T = {}
      BY <2>1, <2>3, <3>1
    <3>3. QED
      BY <2>1, <2>3, <3>1, <3>2, ScratchFacts DEF SameBut
  <2>4. CASE InReg(Arg(1)) /\ ~inPlace
    <3>1. RegOf(Arg(1), cscr) = DestReg /\ m1 = mach
      BY <2>1, <2>4, <1>1, HomeFacts, ScratchFacts
    <3>2. m2 = Mov(mach, cscr, DestReg) /\ cond = cscr /\ T = {cscr}
      BY <2>4, <3>1
    <3>3. /\ SameBut(Mov(mach, cscr, DestReg), mach, {cscr}) /\ IsMachine(Mov(mach, cscr, DestReg))
          /\ Mov(mach, cscr, DestReg).reg[cscr] = mach.reg[DestReg]
      BY <1>3, MovFacts, ScratchFacts
    <3> HIDE DEF m1, m2, cond, T
    <3>4. QED
      BY <1>3, <2>1, <3>1, <3>2, <3>3
  <2>5. QED
    BY <2>2, <2>3, <2>4
<1>5. ASSUME Undisturbed
      PROVE  /\ \A k \in 1..3 : InReg(Arg(k)) => color[Arg(k)] \notin T
             /\ \A v \in LiveNext \ {Inst.dest} : InReg(v) => color[v] \notin Scratch \cup {DestReg} \cup T
  <2>1. CASE inPlace
    BY <2>1, DestFacts
  <2>2. CASE ~inPlace
    <3>1. /\ pc \in Blocks /\ pi \in DOMAIN Code(pc) /\ Inst = Code(pc)[pi]
          /\ Dest(pc, pi) = Inst.dest
      BY InstFacts
    <3>2. RegOf(Inst.dest, RAX) = DestReg /\ SelectScratch(pc, pi) = cscr
      BY <3>1 DEF DestReg, SelectScratch, cscr
    <3>3. \A v \in LiveAfter(pc, pi, liveOut[pc]) \cup ArgSet(pc, pi) : color[v] # cscr
      BY <1>1, <1>5, <2>2, <3>1, <3>2 DEF Undisturbed, SelectsHaveScratch, Arg
    <3>4. \A k \in 1..3 : InReg(Arg(k)) => Arg(k) \in ArgSet(pc, pi)
      BY <1>1, <3>1 DEF Arg, ArgSet, InReg
    <3>5. ASSUME NEW v \in LiveNext, InReg(v) PROVE v \in LiveAfter(pc, pi, liveOut[pc])
      BY <3>5, LiveFacts DEF LiveNext, Running, IInv, ColorInv, InReg
    <3>6. QED
      BY <3>3, <3>4, <3>5, DestFacts
  <2>3. QED
    BY <2>1, <2>2
<1> HIDE DEF m1, m2, cond, T
<1>6. /\ SameBut(ma, m2, {RCX}) /\ IsMachine(ma) /\ ma.reg[RCX] = Place(m2, Arg(2))
      /\ SameBut(mb, m2, {DestReg}) /\ IsMachine(mb) /\ mb.reg[DestReg] = Place(m2, Arg(3))
  <2>1. RCX \in Regs /\ DestReg \in Regs /\ TypeOK
    BY ScratchFacts
  <2> HIDE DEF m2
  <2>2. SameBut(ma, m2, {RCX}) /\ IsMachine(ma) /\ ma.reg[RCX] = Place(m2, Arg(2))
    BY <1>1, <1>4, <2>1, LoadHere
  <2>3. SameBut(mb, m2, {DestReg}) /\ IsMachine(mb) /\ mb.reg[DestReg] = Place(m2, Arg(3))
    BY <1>1, <1>4, <2>1, LoadHere
  <2>4. QED
    BY <2>2, <2>3
<1> HIDE DEF ma, mb
<1>7. /\ SameBut(m3, m2, {RCX, DestReg}) /\ IsMachine(m3)
      /\ m3.reg[RCX] = Place(m2, Arg(2)) /\ m3.reg[DestReg] = Place(m2, Arg(3))
  <2>1. CASE RegOf(Arg(2), Spilled) = DestReg
    <3>1. Place(ma, Arg(3)) = Place(m2, Arg(3))
      BY <1>1, <1>6, PlaceKept, HomeFacts, ScratchFacts
    <3>2. SameBut(m3, ma, {DestReg}) /\ IsMachine(m3) /\ m3.reg[DestReg] = Place(ma, Arg(3))
      <4>1. m3 = LoadTo(ma, Arg(3), DestReg, DestReg)
        BY <2>1
      <4> HIDE DEF m3
      <4>2. DestReg \in Regs /\ TypeOK
        BY ScratchFacts
      <4>3. QED
        BY <1>1, <1>6, <4>1, <4>2, LoadHere
    <3> HIDE DEF m3
    <3>3. QED
      BY <1>6, <3>1, <3>2, ScratchFacts DEF SameBut
  <2>2. CASE RegOf(Arg(2), Spilled) # DestReg
    <3>1. Place(mb, Arg(2)) = Place(m2, Arg(2))
      BY <1>1, <1>6, <2>2, PlaceKept, HomeFacts, ScratchFacts
    <3>2. SameBut(m3, mb, {RCX}) /\ IsMachine(m3) /\ m3.reg[RCX] = Place(mb, Arg(2))
      <4>1. m3 = LoadTo(mb, Arg(2), RCX, RCX)
        BY <2>2
      <4> HIDE DEF m3
      <4>2. RCX \in Regs /\ TypeOK
        BY ScratchFacts
      <4>3. QED
        BY <1>1, <1>6, <4>1, <4>2, LoadHere
    <3> HIDE DEF m3
    <3>3. QED
      BY <1>6, <3>1, <3>2, ScratchFacts DEF SameBut
  <2>3. QED
    BY <2>1, <2>2
<1> HIDE DEF m3
<1>8. m3.reg[cond] = Place(mach, Arg(1))
  BY <1>4, <1>7, ScratchFacts DEF SameBut
<1> HIDE DEF rd
<1>9. SameBut(m4, m3, {DestReg}) /\ m4.reg[DestReg] = Out(rd, Operands)
  BY <1>7, SetFacts, ScratchFacts
<1> HIDE DEF m4
<1>10. SameBut(m4, mach, Scratch \cup {DestReg} \cup T)
  BY <1>4, <1>7, <1>9, ScratchFacts DEF SameBut
<1>11. Keeps
  <2>1. (Scratch \cup {DestReg} \cup T) \cap CalleeSaved \subseteq {DestReg}
    BY <1>3, RegisterFacts DEF Scratch, T
  <2>2. Inst.op \notin Terminators /\ Inst.op # "SIR_GET_PARAM"
    BY <1>1 DEF Terminators, JumpOps
  <2>3. QED
    BY <1>2, <1>10, <2>1, <2>2, FinishKeeps, ScratchFacts
<1>12. ASSUME HomesHoldValues, Undisturbed PROVE Right
  <2>1. \A k \in 2..3 : Place(m2, Arg(k)) = Place(mach, Arg(k))
    BY <1>1, <1>4, <1>5, <1>12, PlaceKept, ScratchFacts
  <2>2. rd = Operands
    BY <1>1, <1>7, <1>8, <1>12, <2>1, OperandHeld DEF rd
  <2>3. m4.reg[DestReg] = Fresh
    BY <1>9, <2>2 DEF Out
  <2>4. QED
    BY <1>2, <1>5, <1>10, <1>12, <2>2, <2>3, FinishRight, ScratchFacts
<1>13. QED
  BY <1>11, <1>12

(* A register parameter is fetched before anything touched its register.   *)
LEMMA GetRegParamStep ==
  ASSUME Running, GetRegParam
  PROVE  Keeps /\ (HomesHoldValues /\ Undisturbed /\ ParamsWait => Right)
<1> DEFINE src == ArgRegs[Inst.imm + 1]
           rd  == <<mach.reg[src]>>
           want == <<Param(Inst.imm)>>
<1>1. Inst.op = "SIR_GET_PARAM" /\ Inst.imm < MaxRegArgs /\ Inst.imm \in Nat
  BY InstFacts DEF GetRegParam, At, Insts
<1>2. src \in Regs
  <2>1. Inst.imm + 1 \in 1..6
    BY <1>1 DEF MaxRegArgs
  <2>2. QED
    BY <2>1, ArgRegFacts
<1>3. Finish(Store(mach, src), rd, want, Param(Inst.imm))
  BY DEF GetRegParam
<1>4. SameBut(mach, mach, {}) /\ Inst.op \notin Terminators
  BY <1>1, ScratchFacts DEF SameBut, Terminators, JumpOps
<1>5. ASSUME Undisturbed, ParamsWait PROVE mach.reg[src] = Param(Inst.imm)
  <2>1. pc = 1
    BY <1>1, <1>5, InstFacts DEF Undisturbed, ParamsFetchedInTime
  <2>2. pi \in pi..Len(Code(1)) /\ Inst = Code(1)[pi]
    BY <2>1, InstFacts
  <2>3. QED
    BY <1>1, <1>5, <2>1, <2>2 DEF ParamsWait, Running
<1> HIDE DEF src
<1>6. Keeps
  BY <1>2, <1>3, <1>4, FinishKeeps
<1>7. ASSUME HomesHoldValues, Undisturbed, ParamsWait PROVE Right
  <2>1. rd = want
    BY <1>5, <1>7
  <2> HIDE DEF rd, want
  <2>2. QED
    BY <1>2, <1>3, <1>4, <1>5, <1>7, <2>1, FinishRight
<1>8. QED
  BY <1>6, <1>7

LEMMA GetStackParamStep ==
  ASSUME Running, GetStackParam
  PROVE  Keeps /\ (HomesHoldValues => Right)
<1> DEFINE want == <<Param(Inst.imm)>>
           m1   == Set(mach, DestReg, Param(Inst.imm))
<1>1. Inst.op = "SIR_GET_PARAM" /\ Inst.op \notin Terminators
  BY DEF GetStackParam, At, Terminators, JumpOps
<1>2. Finish(Store(m1, DestReg), want, want, Param(Inst.imm))
  BY DEF GetStackParam
<1>3. SameBut(m1, mach, {DestReg}) /\ m1.reg[DestReg] = Param(Inst.imm)
  BY SetFacts, ScratchFacts
<1> HIDE DEF m1, want
<1>4. Keeps
  BY <1>1, <1>2, <1>3, FinishKeeps, ScratchFacts
<1>5. ASSUME HomesHoldValues PROVE Right
  BY <1>2, <1>3, <1>5, FinishRight, ScratchFacts, DestFacts
<1>6. QED
  BY <1>4, <1>5

-----------------------------------------------------------------------------
(* Calls.                                                                  *)

(* The result of a call, which leaves only the callee-saved registers: all *)
(* that is needed later is in those or on the stack.                       *)
LEMMA CallResult ==
  ASSUME Running, Inst.op \in CallOps, NEW m, SameBut(m, mach, Regs \ CalleeSaved),
         NEW rd, NEW want,
         Finish(Store(Set(AfterCall(m), RAX, Out(rd, want)), RAX), rd, want, Fresh)
  PROVE  Keeps /\ (HomesHoldValues /\ rd = want => Right)
<1> DEFINE m1 == AfterCall(m)
           m2 == Set(m1, RAX, Out(rd, want))
           R  == Regs \ CalleeSaved
<1>1. IsMachine(m1) /\ SameBut(m1, m, R)
  <2>1. m1 = [reg |-> [r \in Regs |-> IF r \in CalleeSaved THEN m.reg[r] ELSE Junk], slot |-> m.slot]
        /\ IsMachine(m)
    BY DEF AfterCall, SameBut, IsMachine
  <2>2. QED
    BY <2>1 DEF IsMachine, SameBut
<1> HIDE DEF m1
<1>2. SameBut(m2, m1, {RAX}) /\ m2.reg[RAX] = Out(rd, want) /\ RAX \in Regs /\ RAX \notin CalleeSaved
  BY <1>1, SetFacts, RegisterFacts
<1>3. Finish(Store(m2, RAX), rd, want, Fresh)
  BY DEF m1
<1> HIDE DEF m2
<1>4. SameBut(m2, mach, R)
  BY <1>1, <1>2 DEF SameBut
<1>5. Keeps
  <2>1. Inst.op \notin Terminators /\ Inst.op # "SIR_GET_PARAM" /\ R \cap CalleeSaved \subseteq {DestReg}
    BY DEF CallOps, Terminators, JumpOps
  <2>2. QED
    BY <1>2, <1>3, <1>4, <2>1, FinishKeeps
<1>6. ASSUME HomesHoldValues, rd = want PROVE Right
  <2>1. \A v \in LiveNext \ {Inst.dest} : InReg(v) => color[v] \notin R
    BY LiveFacts DEF InReg
  <2>2. m2.reg[RAX] = Fresh
    BY <1>2, <1>6 DEF Out
  <2>3. QED
    BY <1>2, <1>3, <1>4, <1>6, <2>1, <2>2, FinishRight
<1>7. QED
  BY <1>5, <1>6

LEMMA SysHeapStep ==
  ASSUME Running, SysHeap
  PROVE  Keeps /\ (HomesHoldValues => Right)
<1> DEFINE m1 == Load(mach, Arg(1), RAX)
           rd == <<m1.reg[RegOf(Arg(1), RAX)]>>
<1>1. /\ Inst.op \in {"SIR_SYS_ALLOC", "SIR_SYS_FREE"} /\ Arg(1) \in Vregs \cup {Const}
      /\ Operands = <<Value(Arg(1))>> /\ 1 \in DOMAIN Inst.args
  BY ArgFacts DEF SysHeap, At, OneArgOps
<1>2. SameBut(m1, mach, {RAX}) /\ m1.reg[RegOf(Arg(1), RAX)] = Place(mach, Arg(1))
  BY <1>1, LoadFacts, ScratchFacts
<1>3. HomesHoldValues => rd = Operands
  BY <1>1, <1>2, OperandHeld
<1>4. SameBut(m1, mach, Regs \ CalleeSaved)
  BY <1>2, RegisterFacts DEF SameBut
<1>5. Finish(Store(Set(AfterCall(m1), RAX, Out(rd, Operands)), RAX), rd, Operands, Fresh)
  BY DEF SysHeap
<1> HIDE DEF m1, rd
<1>6. QED
  BY <1>1, <1>3, <1>4, <1>5, CallResult DEF CallOps

LEMMA SysFileStep ==
  ASSUME Running, SysFile
  PROVE  Keeps /\ (HomesHoldValues => Right)
<1> DEFINE m1 == Load(mach, Arg(2), RAX)
           m2 == Load(m1, Arg(3), R10)
           rd == <<m1.reg[RegOf(Arg(2), RAX)], m2.reg[RegOf(Arg(3), R10)]>>
           want == <<Value(Arg(2)), Value(Arg(3))>>
<1>1. /\ Inst.op \in {"SIR_SYS_READ", "SIR_SYS_WRITE"}
      /\ Arg(2) \in Vregs \cup {Const} /\ Arg(3) \in Vregs \cup {Const}
      /\ 2 \in DOMAIN Inst.args /\ 3 \in DOMAIN Inst.args
  BY ArgFacts DEF SysFile, At, ThreeArgOps
<1>2. R10 \in Regs \ CalleeSaved /\ RAX \in Regs \ CalleeSaved
  BY RegisterFacts
<1>3. SameBut(m1, mach, {RAX}) /\ IsMachine(m1) /\ m1.reg[RegOf(Arg(2), RAX)] = Place(mach, Arg(2))
  BY <1>1, LoadFacts, ScratchFacts
<1>4. Finish(Store(Set(AfterCall(m2), RAX, Out(rd, want)), RAX), rd, want, Fresh)
  BY DEF SysFile
<1> HIDE DEF m1
<1>5. SameBut(m2, m1, {R10}) /\ m2.reg[RegOf(Arg(3), R10)] = Place(m1, Arg(3))
  BY <1>1, <1>2, <1>3, LoadFacts, ScratchFacts
<1>6. Place(m1, Arg(3)) = Place(mach, Arg(3))
  BY <1>1, <1>3, PlaceKept, HomeFacts, ScratchFacts
<1>7. HomesHoldValues => rd = want
  BY <1>1, <1>3, <1>5, <1>6, OperandHeld
<1>8. SameBut(m2, mach, Regs \ CalleeSaved)
  BY <1>2, <1>3, <1>5 DEF SameBut
<1> HIDE DEF m2, rd, want
<1>9. QED
  BY <1>1, <1>4, <1>7, <1>8, CallResult DEF CallOps

(* The arguments of the call at hand.                                      *)
LEMMA CallArgs ==
  ASSUME Running, Inst.op = "SIR_CALL"
  PROVE  /\ 1 \in DOMAIN Inst.args /\ Len(Args) \in Nat
         /\ \A k \in 1..Len(Args) : Args[k] = Arg(k + 1) /\ k + 1 \in DOMAIN Inst.args
                                    /\ Args[k] \in Vregs \cup {Const}
         /\ Len(Inst.args) = Len(Args) + 1
         /\ RegArgs \in 0..6 /\ RegArgs <= Len(Args)
<1>1. Inst.args \in Seq(Vregs \cup {Const}) /\ Len(Inst.args) >= 1
  BY InstFacts DEF WellShaped
<1>2. Args \in Seq(Vregs \cup {Const}) /\ Len(Args) = Len(Inst.args) - 1
      /\ \A k \in 1..Len(Args) : Args[k] = Inst.args[k + 1]
  BY <1>1 DEF Args
<1>3. CallRegs \in {4, 6}
  BY DEF CallRegs
<1>4. RegArgs = IF Len(Args) < CallRegs THEN Len(Args) ELSE CallRegs
  BY DEF RegArgs
<1> HIDE DEF Args, CallRegs
<1>5. Len(Args) \in Nat
  BY <1>2
<1>6. RegArgs \in 0..6 /\ RegArgs <= Len(Args)
  <2>1. ASSUME NEW l \in Nat, NEW c \in {4, 6}
        PROVE  (IF l < c THEN l ELSE c) \in 0..6 /\ (IF l < c THEN l ELSE c) <= l
    OBVIOUS
  <2>2. QED
    BY <1>3, <1>4, <1>5, <2>1
<1>7. QED
  BY <1>1, <1>2, <1>5, <1>6 DEF Arg

(* The operand before the call, as it is stored or moved.                  *)
LEMMA MachValueFacts ==
  ASSUME Running, NEW v \in Vregs \cup {Const}
  PROVE  MachValue(v) = Place(mach, v)
BY LoadFacts, ScratchFacts DEF MachValue

LEMMA PassTwoFacts ==
  ASSUME Running, Inst.op = "SIR_CALL", RegArgs = 2
  PROVE  /\ SameBut(PassTwo, mach, Scratch \cup {R10, R11})
         /\ PassTwo.reg[RCX] = Place(mach, Args[1]) /\ PassTwo.reg[RDX] = Place(mach, Args[2])
<1> DEFINE a == Args[1]
           b == Args[2]
           m1   == Load(mach, a, RAX)
           scr2 == IF RegOf(a, RAX) = R10 THEN R11 ELSE R10
           m2   == Load(m1, b, scr2)
           m3   == Mov(m2, RCX, RegOf(a, RAX))
<1>1. a \in Vregs \cup {Const} /\ b \in Vregs \cup {Const}
  BY CallArgs
<1>2. PassTwo = Mov(m3, RDX, RegOf(b, scr2))
  BY DEF PassTwo
<1>3. scr2 \in Regs /\ scr2 \in {R10, R11} /\ scr2 # RegOf(a, RAX) /\ scr2 \notin Scratch
  BY RegisterFacts DEF Scratch
<1> HIDE DEF scr2
<1>4. InReg(b) => color[b] # RAX
  BY <1>1, HomeFacts, ScratchFacts
<1> HIDE DEF a, b
<1>5. /\ SameBut(m2, mach, {RAX, scr2}) /\ m2.reg[RegOf(a, RAX)] = Place(mach, a)
      /\ m2.reg[RegOf(b, scr2)] = Place(mach, b)
      /\ RegOf(a, RAX) \in Regs /\ RegOf(b, scr2) \in Regs
  <2>1. TypeOK /\ IsMachine(mach) /\ RAX \in Regs
    BY ScratchFacts
  <2>2. scr2 \in Regs /\ RegOf(a, RAX) # scr2
    BY <1>3
  <2> HIDE DEF m2, m1
  <2>3. /\ SameBut(Load(Load(mach, a, RAX), b, scr2), mach, {RAX, scr2})
        /\ Load(Load(mach, a, RAX), b, scr2).reg[RegOf(a, RAX)] = Place(mach, a)
        /\ Load(Load(mach, a, RAX), b, scr2).reg[RegOf(b, scr2)] = Place(mach, b)
        /\ RegOf(a, RAX) \in Regs /\ RegOf(b, scr2) \in Regs
    BY <1>1, <1>4, <2>1, <2>2, LoadTwo
  <2>4. m2 = Load(Load(mach, a, RAX), b, scr2)
    BY DEF m1, m2
  <2>5. QED
    BY <2>3, <2>4
<1>6. IsMachine(m2)
  BY <1>5 DEF SameBut
<1>7. RegOf(b, scr2) # RCX
  BY <1>1, <1>3, HomeFacts, ScratchFacts
<1> HIDE DEF m1, m2
<1>8. SameBut(m3, m2, {RCX}) /\ IsMachine(m3) /\ m3.reg[RCX] = m2.reg[RegOf(a, RAX)]
  BY <1>5, <1>6, MovFacts, ScratchFacts
<1>9. m3.reg[RegOf(b, scr2)] = m2.reg[RegOf(b, scr2)]
  BY <1>5, <1>7, <1>8 DEF SameBut
<1> HIDE DEF m3
<1>10. SameBut(PassTwo, m3, {RDX}) /\ PassTwo.reg[RDX] = m3.reg[RegOf(b, scr2)]
  BY <1>2, <1>5, <1>8, MovFacts, ScratchFacts
<1>11. PassTwo.reg[RCX] = m3.reg[RCX]
  BY <1>10, ScratchFacts DEF SameBut
<1>12. SameBut(PassTwo, mach, Scratch \cup {R10, R11})
  BY <1>3, <1>5, <1>8, <1>10, ScratchFacts DEF SameBut
<1>13. QED
  BY <1>5, <1>8, <1>9, <1>10, <1>11, <1>12 DEF a, b

LEMMA PassManyFacts ==
  ASSUME Running, Inst.op = "SIR_CALL"
  PROVE  /\ SameBut(PassMany, mach, Regs \ CalleeSaved)
         /\ \A k \in 1..RegArgs : PassMany.reg[ArgRegs[k]] = Place(mach, Args[k])
<1> DEFINE which(r) == CHOOSE k \in 1..RegArgs : ArgRegs[k] = r
           given(r) == \E k \in 1..RegArgs : ArgRegs[k] = r
<1>1. PassMany = [reg |-> [r \in Regs |-> IF given(r) THEN MachValue(Args[which(r)]) ELSE mach.reg[r]],
                  slot |-> mach.slot]
  BY ScratchFacts DEF PassMany, IsMachine
<1>2. \A k \in 1..RegArgs : k \in 1..6 /\ k \in 1..Len(Args)
  BY CallArgs
<1>3. ASSUME NEW k \in 1..RegArgs
      PROVE  ArgRegs[k] \in Regs /\ given(ArgRegs[k]) /\ which(ArgRegs[k]) = k
  BY <1>2, ArgRegFacts
<1>4. ASSUME NEW r \in CalleeSaved PROVE ~given(r)
  BY <1>2, <1>4, ArgRegFacts
<1> HIDE DEF which, given
<1>5. SameBut(PassMany, mach, Regs \ CalleeSaved)
  <2> DEFINE f == [r \in Regs |-> IF given(r) THEN MachValue(Args[which(r)]) ELSE mach.reg[r]]
  <2>1. f = [r \in Regs |-> f[r]] /\ \A r \in Regs : ~given(r) => f[r] = mach.reg[r]
    OBVIOUS
  <2>2. PassMany = [reg |-> f, slot |-> mach.slot]
    BY <1>1
  <2> HIDE DEF f
  <2>3. \A r \in Regs \ (Regs \ CalleeSaved) : f[r] = mach.reg[r]
    BY <1>4, <2>1
  <2>4. mach.slot = [v \in Vregs |-> mach.slot[v]]
    BY ScratchFacts DEF IsMachine
  <2>5. QED
    BY <2>1, <2>2, <2>3, <2>4 DEF SameBut, IsMachine
<1>6. ASSUME NEW k \in 1..RegArgs PROVE PassMany.reg[ArgRegs[k]] = Place(mach, Args[k])
  <2>1. PassMany.reg[ArgRegs[k]] = MachValue(Args[k])
    BY <1>1, <1>3
  <2>2. Args[k] \in Vregs \cup {Const}
    BY <1>2, CallArgs
  <2>3. QED
    BY <2>1, <2>2, MachValueFacts
<1>7. QED
  BY <1>5, <1>6

(* The arguments arrive in their registers, and the callee is still where  *)
(* it was when it is fetched.                                              *)
LEMMA CallStep ==
  ASSUME Running, Call
  PROVE  Keeps /\ (HomesHoldValues /\ Undisturbed => Right)
<1> DEFINE m1 == CASE RegArgs = 0 -> mach
                   [] RegArgs = 1 -> LoadTo(mach, Args[1], RAX, RCX)
                   [] RegArgs = 2 -> PassTwo
                   [] OTHER -> PassMany
           m2 == Load(m1, Arg(1), RAX)
           rd == [k \in DOMAIN Inst.args |->
                    IF k = 1 THEN m2.reg[RegOf(Arg(1), RAX)]
                    ELSE IF k - 1 <= RegArgs THEN m1.reg[ArgRegs[k - 1]]
                    ELSE MachValue(Arg(k))]
<1>1. Inst.op = "SIR_CALL" /\ 1 \in DOMAIN Inst.args /\ Arg(1) \in Vregs \cup {Const}
  BY CallArgs, ArgFacts DEF Call, At
<1>2. Finish(Store(Set(AfterCall(m2), RAX, Out(rd, Operands)), RAX), rd, Operands, Fresh)
  BY DEF Call
<1>3. /\ SameBut(m1, mach, Regs \ CalleeSaved) /\ IsMachine(m1)
      /\ \A k \in 1..RegArgs : m1.reg[ArgRegs[k]] = Place(mach, Args[k])
      /\ RegArgs <= 1 => SameBut(m1, mach, {RAX, RCX})
  <2>0. RegArgs \in 0..6 /\ RegArgs <= Len(Args) /\ Len(Args) \in Nat
        /\ ArgRegs[1] = RCX /\ ArgRegs[2] = RDX
    BY <1>1, CallArgs DEF ArgRegs
  <2>1. CASE RegArgs = 0
    <3>1. m1 = mach
      BY <2>1
    <3> HIDE DEF m1
    <3>2. QED
      BY <2>1, <3>1, ScratchFacts DEF SameBut
  <2>2. CASE RegArgs = 1
    <3>1. m1 = LoadTo(mach, Args[1], RAX, RCX)
      BY <2>2
    <3>2. Args[1] \in Vregs \cup {Const}
      BY <1>1, <2>0, <2>2, CallArgs
    <3> HIDE DEF m1
    <3>3. /\ SameBut(m1, mach, {RAX, RCX}) /\ IsMachine(m1)
          /\ m1.reg[RCX] = Place(mach, Args[1])
      BY <3>1, <3>2, LoadToFacts, ScratchFacts
    <3>4. \A k \in 1..RegArgs : k = 1
      BY <2>2
    <3>5. SameBut(m1, mach, Regs \ CalleeSaved)
      BY <3>3, RegisterFacts DEF SameBut
    <3>6. QED
      BY <2>0, <3>3, <3>4, <3>5
  <2>3. CASE RegArgs = 2
    <3>1. m1 = PassTwo
      BY <2>3
    <3> HIDE DEF m1
    <3>2. /\ SameBut(m1, mach, Scratch \cup {R10, R11})
          /\ m1.reg[RCX] = Place(mach, Args[1]) /\ m1.reg[RDX] = Place(mach, Args[2])
      BY <1>1, <2>3, <3>1, PassTwoFacts
    <3>3. \A k \in 1..RegArgs : k = 1 \/ k = 2
      BY <2>3
    <3>4. SameBut(m1, mach, Regs \ CalleeSaved)
      BY <3>2, RegisterFacts DEF SameBut, Scratch
    <3>5. QED
      BY <2>0, <2>3, <3>2, <3>3, <3>4 DEF SameBut
  <2>4. CASE RegArgs \notin {0, 1, 2}
    <3>1. m1 = PassMany /\ ~(RegArgs <= 1)
      BY <2>0, <2>4
    <3> HIDE DEF m1
    <3>2. QED
      BY <1>1, <3>1, PassManyFacts DEF SameBut
  <2>5. QED
    BY <2>1, <2>2, <2>3, <2>4
<1>4. ASSUME Undisturbed PROVE Place(m1, Arg(1)) = Place(mach, Arg(1))
  <2>1. CASE RegArgs <= 1
    <3> HIDE DEF m1
    <3>1. QED
      BY <1>1, <1>3, <2>1, PlaceKept, HomeFacts, ScratchFacts
  <2>2. CASE ~(RegArgs <= 1)
    <3>1. Len(Inst.args) > 2
      BY <1>1, <2>2, CallArgs
    <3>2. Arg(1) # Const => color[Arg(1)] \in CalleeSaved \cup {Spilled}
      BY <1>1, <1>4, <3>1, InstFacts DEF Undisturbed, CalleesOutOfTheWay, Arg
    <3>3. InReg(Arg(1)) => color[Arg(1)] \notin Regs \ CalleeSaved
      BY <3>2 DEF InReg
    <3> HIDE DEF m1
    <3>4. QED
      BY <1>1, <1>3, <3>3, PlaceKept, ScratchFacts
  <2>3. QED
    BY <2>1, <2>2
<1> HIDE DEF m1
<1>5. SameBut(m2, m1, {RAX}) /\ m2.reg[RegOf(Arg(1), RAX)] = Place(m1, Arg(1))
  BY <1>1, <1>3, LoadFacts, ScratchFacts
<1>6. SameBut(m2, mach, Regs \ CalleeSaved)
  BY <1>3, <1>5, RegisterFacts DEF SameBut
<1>7. ASSUME HomesHoldValues, Undisturbed PROVE rd = Operands
  <2>1. ASSUME NEW k \in DOMAIN Inst.args PROVE rd[k] = Value(Arg(k))
    <3>1. Place(mach, Arg(k)) = Value(Arg(k)) /\ Arg(k) \in Vregs \cup {Const}
      BY <1>7, OperandHeld, ArgFacts
    <3>2. CASE k = 1
      BY <1>4, <1>5, <1>7, <3>1, <3>2
    <3>3. CASE k # 1 /\ k - 1 <= RegArgs
      <4>1. k \in Nat /\ k >= 1 /\ k - 1 \in 1..RegArgs /\ k - 1 \in 1..Len(Args) /\ (k - 1) + 1 = k
        BY <1>1, <3>3, CallArgs, InstFacts
      <4>2. m1.reg[ArgRegs[k - 1]] = Place(mach, Arg(k))
        BY <1>1, <1>3, <4>1, CallArgs
      <4>3. QED
        BY <3>1, <3>3, <4>2
    <3>4. CASE k # 1 /\ ~(k - 1 <= RegArgs)
      BY <3>1, <3>4, MachValueFacts
    <3>5. QED
      BY <3>2, <3>3, <3>4
  <2>2. rd = [k \in DOMAIN Inst.args |-> rd[k]]
    OBVIOUS
  <2> HIDE DEF rd
  <2>3. QED
    BY <2>1, <2>2 DEF Operands
<1> HIDE DEF m2, rd
<1>8. QED
  BY <1>1, <1>2, <1>6, <1>7, CallResult DEF CallOps

-----------------------------------------------------------------------------
(* Terminators.                                                            *)

(* The scratch register a terminator reads its operand in.                 *)
LEMMA TerminatorFacts ==
  ASSUME Running, Inst.op \in Terminators
  PROVE  /\ Inst.dest = NoDest
         /\ Inst.args = <<>> => Operands = <<>>
         /\ Inst.args # <<>> => /\ 1 \in DOMAIN Inst.args /\ Arg(1) \in Vregs \cup {Const}
                                /\ Operands = <<Value(Arg(1))>>
<1>1. Inst.args \in Seq(Vregs \cup {Const}) /\ Len(Inst.args) <= 1 /\ Inst.dest = NoDest
  BY InstFacts DEF WellShaped
<1>2. CASE Inst.args = <<>>
  <2>1. DOMAIN Inst.args = {}
    BY <1>2
  <2>2. Operands = [k \in {} |-> Value(Arg(k))]
    BY <2>1 DEF Operands
  <2>3. [k \in {} |-> Value(Arg(k))] = <<>>
    OBVIOUS
  <2>4. QED
    BY <1>1, <1>2, <2>2, <2>3
<1>3. CASE Inst.args # <<>>
  <2>1. Len(Inst.args) = 1 /\ DOMAIN Inst.args = 1..1
    <3>1. ASSUME NEW S, NEW q \in Seq(S), q # <<>>, Len(q) <= 1
          PROVE  Len(q) = 1 /\ DOMAIN q = 1..1
      <4>1. Len(q) \in Nat /\ DOMAIN q = 1..Len(q)
        BY <3>1
      <4>2. Len(q) # 0
        BY <3>1, EmptySeq
      <4>3. Len(q) = 1
        BY <3>1, <4>1, <4>2
      <4>4. QED
        BY <4>1, <4>3
    <3> HIDE DEF Inst
    <3>2. QED
      BY <1>1, <1>3, <3>1, Zenon
  <2>2. [k \in 1..1 |-> Value(Arg(k))] = <<Value(Arg(1))>>
    OBVIOUS
  <2>3. Operands = <<Value(Arg(1))>>
    BY <2>1, <2>2 DEF Operands
  <2>4. QED
    BY <1>1, <1>3, <2>1, <2>3 DEF Arg
<1>4. QED
  BY <1>2, <1>3

(* What is live at the start of a successor is live at the jump.           *)
LEMMA LiveAcrossJump ==
  ASSUME Running, Inst.op \in Terminators, opt # 0, NEW s \in fn.succ[pc]
  PROVE  LiveAfter(s, 0, liveOut[s]) \subseteq LiveHere
<1>1. pc \in Blocks /\ s \in Blocks /\ fn \in Functions /\ pi = Len(Code(pc)) /\ Inst.dest = NoDest
      /\ Len(Code(pc)) \in Nat
  BY InstFacts, CodeFacts, TerminatorFacts
<1>2. LiveInEquation(s) /\ LiveOutEquation(pc)
  BY <1>1, InstFacts DEF Running, IInv, LivenessIsFixpoint
<1>3. liveIn[s] \subseteq liveOut[pc] /\ liveOut[pc] \in SUBSET Vregs
  BY <1>1, <1>2, InstFacts DEF LiveOutEquation, TypeOK
<1>4. LiveAfter(s, 0, liveOut[s]) \subseteq liveIn[s]
  <2>1. ASSUME NEW v \in LiveAfter(s, 0, liveOut[s]) PROVE v \in InOf(s, liveOut[s])
    <3>1. v \in Vregs /\ 0 + 1 = 1
      BY DEF LiveAfter
    <3>2. \/ \E j \in 1..Len(Code(s)) : v \in ArgSet(s, j) /\ \A k \in 1..(j - 1) : Dest(s, k) # v
          \/ v \in liveOut[s] /\ \A k \in 1..Len(Code(s)) : Dest(s, k) # v
      BY <3>1 DEF LiveAfter
    <3>3. DOMAIN Code(s) = 1..Len(Code(s))
      BY <1>1, CodeFacts
    <3>4. QED
      BY <3>1, <3>2, <3>3 DEF InOf, UseSet, DefSet
  <2>2. QED
    BY <1>2, <2>1 DEF LiveInEquation
<1>5. liveOut[pc] \subseteq LiveHere
  <2>1. LiveAfter(pc, pi, liveOut[pc]) = liveOut[pc]
    BY <1>1, <1>3, LiveAfterLast
  <2>2. LiveNext = liveOut[pc] /\ NoDest \notin Vregs
    BY <2>1 DEF LiveNext, NoDest, Vregs
  <2>3. QED
    BY <1>1, <1>3, <2>2, LiveFacts
<1>6. QED
  BY <1>3, <1>4, <1>5

LEMMA JumpStep ==
  ASSUME Running, Jump
  PROVE  Keeps /\ (HomesHoldValues => Right)
<1> DEFINE m1 == IF Inst.args = <<>> THEN mach ELSE Load(mach, Arg(1), RAX)
           rd == IF Inst.args = <<>> THEN <<>> ELSE <<m1.reg[RegOf(Arg(1), RAX)]>>
<1>1. Inst.op \in Terminators /\ IInv
  BY DEF Jump, At, Terminators, Running
<1>2. /\ mach' = m1 /\ read' = rd /\ meant' = Operands
      /\ pc' \in fn.succ[pc] /\ pi' = 1 /\ UNCHANGED <<stage, vals, vars>>
  BY DEF Jump
<1>3. /\ SameBut(m1, mach, {RAX})
      /\ Inst.args # <<>> => m1.reg[RegOf(Arg(1), RAX)] = Place(mach, Arg(1))
  <2>1. CASE Inst.args = <<>>
    BY <2>1, ScratchFacts DEF SameBut
  <2>2. CASE Inst.args # <<>>
    BY <1>1, <2>2, LoadFacts, TerminatorFacts, ScratchFacts
  <2>3. QED
    BY <2>1, <2>2
<1>4. HomesHoldValues => rd = Operands
  BY <1>1, <1>3, OperandHeld, TerminatorFacts
<1> HIDE DEF m1, rd
<1>5. pc' \in Blocks /\ Code(pc') # <<>> /\ Code(pc') \in Seq(Insts)
  BY <1>2, InstFacts, CodeFacts, MirFunctionAssumption DEF IsMirFunction, Code, Blocks
<1>6. RunInv'
  <2>1. 1 \in 1..Len(Code(pc'))
    BY <1>5
  <2>2. Code(pc)' = Code(pc') /\ Blocks' = Blocks
    BY <1>2 DEF vars, Code, Blocks
  <2>3. IsMachine(mach)'
    BY <1>2, <1>3 DEF SameBut, IsMachine
  <2>4. QED
    BY <1>2, <1>5, <2>1, <2>2, <2>3, InstFacts DEF Running, RunInv, vars
<1>7. ParamsWait'
  <2>1. SUFFICES ASSUME pc' = 1, Undisturbed, NEW i \in 1..Len(Code(1)),
                        Code(1)[i].op = "SIR_GET_PARAM", Code(1)[i].imm < MaxRegArgs
                 PROVE  FALSE
    <3>1. Code(1)' = Code(1) /\ MaxRegArgs' = MaxRegArgs /\ (Undisturbed' <=> Undisturbed)
      BY <1>2, AllocatorFrame DEF vars, MaxRegArgs
    <3>2. QED
      BY <1>2, <2>1, <3>1 DEF ParamsWait
  <2>2. 1 \in Blocks /\ i \in DOMAIN Code(1) /\ pc \in Blocks
    BY <1>5, <2>1, InstFacts
  <2>3. QED
    BY <1>2, <2>1, <2>2 DEF Undisturbed, ParamsFetchedInTime
<1>8. Keeps
  <2>1. \A q \in CalleeSaved : q \in Regs \ {RAX}
    BY RegisterFacts
  <2>2. QED
    BY <1>2, <1>3, <1>6, <1>7, <2>1 DEF SameBut, Keeps
<1>9. ASSUME HomesHoldValues PROVE Right
  <2>1. LiveHere' = IF opt = 0 THEN Vregs ELSE LiveAfter(pc', 0, liveOut[pc'])
    <3>1. pi' - 1 = 0
      BY <1>2
    <3>2. LiveAfter(pc, pi - 1, liveOut[pc])' = LiveAfter(pc', 0, liveOut[pc'])
      BY <1>2, <3>1, AllocatorFrame DEF vars
    <3>3. QED
      BY <1>2, <3>2 DEF LiveHere, vars
  <2>2. LiveHere' \subseteq LiveHere
    BY <1>1, <1>2, <2>1, LiveAcrossJump DEF LiveHere
  <2>3. ASSUME NEW v \in LiveHere PROVE Home(mach, v)' = vals'[v]
    <3>1. v \in Vregs /\ Home(mach, v) = vals[v]
      BY <1>9, LiveFacts DEF HomesHoldValues, Running
    <3>2. color[v] # Spilled => color[v] \in Regs \ {RAX}
      BY <3>1, HomeFacts, ScratchFacts DEF InReg, Const, Vregs
    <3>3. Home(m1, v) = Home(mach, v)
      BY <1>3, <3>2 DEF SameBut, Home
    <3>4. QED
      BY <1>2, <3>1, <3>3, AllocatorFrame
  <2>4. QED
    BY <1>2, <1>4, <1>9, <2>2, <2>3 DEF Right, HomesHoldValues, ReadsWhatIsMeant
<1>10. QED
  BY <1>8, <1>9

LEMMA ReturnStep ==
  ASSUME Running, Return
  PROVE  Keeps /\ (HomesHoldValues => Right)
<1> DEFINE m1 == IF Inst.args = <<>> THEN mach ELSE LoadTo(mach, Arg(1), RAX, RAX)
           rd == IF Inst.args = <<>> THEN <<>> ELSE <<m1.reg[RAX]>>
<1>1. Inst.op \in Terminators
  BY DEF Return, At, Terminators
<1>2. /\ mach' = m1 /\ read' = rd /\ meant' = Operands
      /\ stage' = "returned" /\ UNCHANGED <<pc, pi, vals, vars>>
  BY DEF Return
<1>3. /\ SameBut(m1, mach, {RAX})
      /\ Inst.args # <<>> => m1.reg[RAX] = Place(mach, Arg(1))
  <2>1. CASE Inst.args = <<>>
    BY <2>1, ScratchFacts DEF SameBut
  <2>2. CASE Inst.args # <<>>
    BY <1>1, <2>2, LoadHere, TerminatorFacts, ScratchFacts
  <2>3. QED
    BY <2>1, <2>2
<1>4. HomesHoldValues => rd = Operands
  BY <1>1, <1>3, OperandHeld, TerminatorFacts
<1> HIDE DEF m1, rd
<1>5. Keeps
  <2>1. \A q \in CalleeSaved : q \in Regs \ {RAX}
    BY RegisterFacts
  <2>2. IsMachine(mach)'
    BY <1>2, <1>3 DEF SameBut, IsMachine
  <2>3. RunInv'
    BY <1>2, <2>2 DEF Running, RunInv, vars
  <2>4. ParamsWait'
    BY <1>2 DEF ParamsWait
  <2>5. QED
    BY <1>2, <1>3, <2>1, <2>3, <2>4 DEF SameBut, Keeps
<1>6. QED
  BY <1>2, <1>4, <1>5 DEF Right, HomesHoldValues, ReadsWhatIsMeant

LEMMA ExecuteStep ==
  ASSUME Running, Execute
  PROVE  Keeps /\ (HomesHoldValues /\ Undisturbed /\ ParamsWait => Right)
BY AllocaStep, LoadMemStep, StoreMemStep, MemcpyStep, GepConstStep, GepVarStep, AluStep,
   FixedSteps, ICmpStep, FloatStep, CastStep, SelectConstStep, SelectVarStep,
   GetRegParamStep, GetStackParamStep, CallStep, SysHeapStep, SysFileStep, JumpStep,
   ReturnStep, Zenon DEF Execute

-----------------------------------------------------------------------------
(* Before the code runs.                                                   *)

(* A step of the allocator records every colour it gives.                  *)
LEMMA ColoursRecorded ==
  ASSUME TypeOK, SavesRecorded, Next
  PROVE  SavesRecorded'
<1>1. CASE SelectNode
  <2>1. \A w \in Vregs : color'[w] = IF w = stack[Len(stack)] THEN ColorFor(w) ELSE color[w]
    BY <1>1 DEF SelectNode, TypeOK
  <2>2. usedCalleeSaved' = usedCalleeSaved \cup ({ColorFor(stack[Len(stack)])} \ {Spilled})
    BY <1>1 DEF SelectNode
  <2>3. QED
    BY <2>1, <2>2 DEF SavesRecorded
<1>2. CASE UNCHANGED colorVars
  BY <1>2 DEF SavesRecorded, colorVars
<1>3. QED
  BY <1>1, <1>2
     DEF Next, SkipAtO0, StartLiveness, LiveBlock, EndSweep, InterfereInst, NextBlock,
         SimplifyNode, EndSimplify, EndSelect

LEMMA AllocateStep ==
  ASSUME MirInv, Allocate
  PROVE  MirInv'
<1>1. stage = "compile" /\ stage' = "compile" /\ Next /\ UNCHANGED mirVars
  BY DEF Allocate, mirVars
<1>2. IInv'
  BY <1>1, NextIInv DEF MirInv
<1>3. SavesRecorded'
  BY <1>1, ColoursRecorded DEF MirInv, IInv
<1>4. RunInv'
  <2>1. RunInv /\ IsMachine(mach)' /\ read' = meant'
    BY <1>1 DEF MirInv, RunInv, mirVars, IsMachine
  <2>2. QED
    BY <1>1, <2>1 DEF RunInv, mirVars
<1>5. ParamsWait' /\ HomesHoldValues'
  BY <1>1 DEF ParamsWait, HomesHoldValues
<1>6. QED
  BY <1>1, <1>2, <1>3, <1>4, <1>5 DEF MirInv

(* The caller has put the parameters where the entry block fetches them.   *)
LEMMA EntryFacts ==
  /\ IsMachine(AtEntry)
  /\ \A k \in Nat : k < MaxRegArgs => AtEntry.reg[ArgRegs[k + 1]] = Param(k)
<1>1. IsMachine(AtEntry)
  BY DEF AtEntry, IsMachine
<1>2. ASSUME NEW k \in Nat, k < MaxRegArgs PROVE AtEntry.reg[ArgRegs[k + 1]] = Param(k)
  <2>1. k + 1 \in 1..MaxRegArgs /\ 1..MaxRegArgs \subseteq 1..6
    BY <1>2 DEF MaxRegArgs
  <2>2. \A j \in 1..MaxRegArgs : ArgRegs[j] = ArgRegs[k + 1] <=> j = k + 1
    BY <2>1, ArgRegFacts
  <2>3. (CHOOSE j \in 1..MaxRegArgs : ArgRegs[j] = ArgRegs[k + 1]) = k + 1
    BY <2>1, <2>2
  <2>4. ArgRegs[k + 1] \in Regs
    BY <2>1, ArgRegFacts
  <2>5. AtEntry.reg[ArgRegs[k + 1]] = Param((k + 1) - 1)
    BY <2>1, <2>3, <2>4 DEF AtEntry
  <2>6. QED
    BY <2>5
<1>3. QED
  BY <1>1, <1>2

LEMMA EnterStep ==
  ASSUME MirInv, Enter
  PROVE  MirInv'
<1>1. /\ stage' = "running" /\ pc' = 1 /\ pi' = 1 /\ mach' = AtEntry
      /\ vals' = [v \in Vregs |-> Home(AtEntry, v)] /\ UNCHANGED <<read, meant, vars>>
      /\ phase = "done" /\ stage = "compile"
  BY DEF Enter
<1>2. IInv' /\ SavesRecorded' /\ fn \in Functions /\ read = meant
  BY <1>1, AllocatorFrame DEF MirInv, IInv, TypeOK, RunInv
<1>3. 1 \in Blocks /\ Code(1) \in Seq(Insts) /\ Code(1) # <<>>
  <2>1. 1 \in Blocks
    BY <1>2, FunctionAssumption DEF IsFunction, Blocks
  <2>2. QED
    BY <1>2, <2>1, CodeFacts, MirFunctionAssumption DEF IsMirFunction, Code, Blocks
<1>4. RunInv'
  <2>1. 1 \in 1..Len(Code(1))
    <3>1. Len(Code(1)) \in Nat \ {0}
      BY <1>3, EmptySeq, Zenon
    <3>2. QED
      BY <3>1
  <2>2. IsMachine(mach)' /\ Blocks' = Blocks /\ Code(1)' = Code(1)
    BY <1>1, EntryFacts, AllocatorFrame DEF IsMachine
  <2>3. vals' = [v \in Vregs |-> vals'[v]] /\ phase' = "done"
    BY <1>1 DEF vars
  <2>4. QED
    BY <1>1, <1>3, <2>1, <2>2, <2>3 DEF RunInv
<1>5. ParamsWait'
  <2>1. Code(1)' = Code(1) /\ MaxRegArgs' = MaxRegArgs
    BY <1>1, AllocatorFrame DEF vars, MaxRegArgs
  <2>2. ASSUME NEW i \in 1..Len(Code(1)), Code(1)[i].imm < MaxRegArgs
        PROVE  AtEntry.reg[ArgRegs[Code(1)[i].imm + 1]] = Param(Code(1)[i].imm)
    <3>1. Code(1)[i] \in Insts
      BY <1>3
    <3>2. Code(1)[i].imm \in Nat
      BY <3>1 DEF Insts
    <3>3. QED
      BY <2>2, <3>2, EntryFacts
  <2>3. QED
    BY <1>1, <2>1, <2>2 DEF ParamsWait
<1>6. HomesHoldValues'
  <2>1. LiveHere' \subseteq Vregs
    BY DEF LiveHere, LiveAfter
  <2>2. \A v \in Vregs : Home(mach, v)' = vals'[v]
    BY <1>1, AllocatorFrame
  <2>3. QED
    BY <2>1, <2>2 DEF HomesHoldValues
<1>7. QED
  BY <1>1, <1>2, <1>4, <1>5, <1>6 DEF MirInv, ReadsWhatIsMeant

-----------------------------------------------------------------------------
(* The composed system.                                                    *)

LEMMA InitMirInv == MirInit => MirInv
<1> SUFFICES ASSUME MirInit PROVE MirInv
  OBVIOUS
<1>1. Init /\ stage = "compile" /\ read = meant
  BY DEF MirInit
<1>2. IInv /\ SavesRecorded
  BY <1>1, InitIInv DEF Init, SavesRecorded
<1>3. RunInv
  BY <1>1 DEF MirInit, RunInv, IsMachine
<1>4. QED
  BY <1>1, <1>2, <1>3 DEF MirInv, ParamsWait, HomesHoldValues

LEMMA NextMirInv == MirInv /\ [MirNext]_allVars => MirInv'
<1> SUFFICES ASSUME MirInv, [MirNext]_allVars PROVE MirInv'
  OBVIOUS
<1>1. CASE Execute
  <2>1. Running
    BY <1>1 DEF MirInv, Running, Execute, Alloca, LoadMem, StoreMem, Memcpy, GepConst,
       GepVar, Alu, DivMod, Shift, ICmp, FCmp, FloatArith, Cast, SelectConst, SelectVar,
       GetRegParam, GetStackParam, Call, SysHeap, SysFile, Jump, Return, At
  <2>2. Keeps /\ (Undisturbed => Right)
    BY <1>1, <2>1, ExecuteStep DEF MirInv
  <2>3. IInv' /\ SavesRecorded' /\ (Undisturbed' <=> Undisturbed)
    BY <2>1, <2>2, AllocatorFrame DEF Keeps, Running
  <2>4. QED
    BY <2>2, <2>3 DEF MirInv, Keeps, Right
<1>2. CASE UNCHANGED allVars
  <2>1. UNCHANGED vars /\ UNCHANGED mirVars
    BY <1>2 DEF allVars
  <2>2. /\ IInv' /\ SavesRecorded' /\ (Undisturbed' <=> Undisturbed)
        /\ Blocks' = Blocks /\ \A b : Code(b)' = Code(b)
    BY <2>1, AllocatorFrame DEF MirInv
  <2>3. RunInv'
    BY <2>1, <2>2 DEF MirInv, RunInv, IsMachine, mirVars, vars
  <2>4. ParamsWait'
    BY <2>1, <2>2 DEF MirInv, ParamsWait, MaxRegArgs, mirVars, vars
  <2>5. HomesHoldValues' <=> HomesHoldValues
    BY <2>1, AllocatorFrame DEF HomesHoldValues, LiveHere, mirVars, vars
  <2>6. QED
    BY <2>1, <2>2, <2>3, <2>4, <2>5 DEF MirInv, ReadsWhatIsMeant, mirVars
<1>3. QED
  BY <1>1, <1>2, AllocateStep, EnterStep DEF MirNext

(* The inductive invariant of the composed system: what the allocator      *)
(* guarantees, the parameters still waiting in their registers, and every  *)
(* value still needed in its home.                                         *)
THEOREM MirInductive == MirSpec => []MirInv
<1>1. QED
  BY InitMirInv, NextMirInv, PTL DEF MirSpec

(* Virtual registers are as good as real ones: outside the patterns of     *)
(* Undisturbed, the home of every vreg still needed holds its value at     *)
(* every point of every execution.                                         *)
THEOREM HomesHold == MirSpec => [](Undisturbed => HomesHoldValues)
<1>1. MirInv => (Undisturbed => HomesHoldValues)
  BY DEF MirInv
<1>2. QED
  BY <1>1, MirInductive, PTL

(* The selected code does what the SIR says: outside the patterns of       *)
(* Undisturbed, every machine instruction consumes the operands its SIR    *)
(* instruction names.                                                      *)
THEOREM SelectionIsRight == MirSpec => [](Undisturbed => ReadsWhatIsMeant)
<1>1. MirInv => (Undisturbed => ReadsWhatIsMeant)
  BY DEF MirInv, RunInv, ReadsWhatIsMeant
<1>2. QED
  BY <1>1, MirInductive, PTL

(* The code writes no callee-saved register the prologue does not save,    *)
(* whatever the function.                                                  *)
THEOREM OnlySavedAreWritten == MirSpec => SavesWhatItWrites
<1> DEFINE Saves == stage = "running" =>
              \A c \in CalleeSaved \ usedCalleeSaved : mach'.reg[c] = mach.reg[c]
<1>1. MirInv /\ [MirNext]_allVars => [Saves]_allVars
  <2> SUFFICES ASSUME MirInv, MirNext, stage = "running" PROVE Saves
    BY DEF MirNext, allVars
  <2>1. Running /\ Execute
    BY DEF MirInv, Running, MirNext, Allocate, Enter
  <2>2. QED
    BY <2>1, ExecuteStep DEF Keeps
<1>2. QED
  BY <1>1, MirInductive, PTL DEF MirSpec, SavesWhatItWrites
=============================================================================
