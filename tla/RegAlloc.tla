------------------------------ MODULE RegAlloc ------------------------------
(***************************************************************************)
(* The graph-colouring register allocator of the x86-64 backend,           *)
(* reg_alloc_build_and_color in src/src/backend/reg_alloc.c.               *)
(*                                                                         *)
(* One behaviour allocates one SIR function: a backward liveness sweep     *)
(* repeated until nothing changes, the interference graph built            *)
(* instruction by instruction from the end of every block, Chaitin's       *)
(* simplify loop that stacks the nodes, and the select loop that pops them *)
(* and gives each the first free colour of its preference list.            *)
(*                                                                         *)
(* A function is a record: n blocks, numbered in layout order, the code    *)
(* of each block and the successors its last instruction names.  An        *)
(* instruction keeps its opcode, the vreg it defines (NoDest if none), its *)
(* operands in order, each a vreg or Const (a constant, a global), and an  *)
(* immediate; the terminator is the last instruction of its block.         *)
(***************************************************************************)
EXTENDS Integers, Sequences, FiniteSets

CONSTANTS
  MaxVreg,         \* allocator->max_vreg: vregs are 1..MaxVreg
  NumPhysRegs,     \* NUM_PHYS_REGS (11 in the code)
  NumCalleeSaved,  \* colours below it are callee-saved (7 in the code)
  PlainOps,        \* the opcodes that call nothing
  Functions,       \* the functions allocation may start from
  OptLevels        \* the -O levels allocation may run at

Vregs   == 1..MaxVreg
NoDest  == 0
Const   == 0
Spilled == -1
Colors  == 0..(NumPhysRegs - 1)

(* The opcodes after which a caller-saved register no longer holds what it *)
(* held.                                                                   *)
CallOps == {"SIR_CALL", "SIR_SYS_ALLOC", "SIR_SYS_FREE", "SIR_SYS_WRITE",
            "SIR_SYS_READ", "SIR_SYS_EXIT"}
Opcodes == CallOps \cup PlainOps

Insts == [op : Opcodes, dest : Vregs \cup {NoDest},
          args : Seq(Vregs \cup {Const}), imm : Nat]

IsFunction(f) ==
  /\ f.n \in Nat \ {0}
  /\ f.code \in [1..f.n -> Seq(Insts)]
  /\ f.succ \in [1..f.n -> SUBSET (1..f.n)]

ASSUME MaxVregAssumption == MaxVreg \in Nat
ASSUME PhysRegAssumption ==
  /\ NumPhysRegs \in Nat \ {0}
  /\ NumCalleeSaved \in 0..NumPhysRegs
ASSUME PlainOpsAssumption == PlainOps \cap CallOps = {}
ASSUME FunctionAssumption == \A f \in Functions : IsFunction(f)

VARIABLES
  fn,       \* the function being allocated
  opt,      \* its -O level
  phase,    \* where allocation stands
  blk,      \* the block the liveness sweep or the interference scan is at
  inst,     \* the instruction of blk the interference scan takes next
  changed,  \* whether this sweep changed a live-in set
  liveIn, liveOut,  \* per block, accumulated over the sweeps
  curLive,  \* current_live of the interference scan
  adj,      \* the interference graph: the neighbours of every vreg
  degree,   \* neighbours not yet removed; frozen when the vreg is removed
  crosses,  \* crosses_call: the vregs live across a call
  stack,    \* nodes in the order simplify removed them
  color,    \* the result: a colour or Spilled
  usedCalleeSaved   \* the colours given out, read by the prologue

vars == <<fn, opt, phase, blk, inst, changed, liveIn, liveOut, curLive, adj,
          degree, crosses, stack, color, usedCalleeSaved>>
liveVars  == <<changed, liveIn, liveOut>>
graphVars == <<inst, curLive, adj, crosses>>
colorVars == <<color, usedCalleeSaved>>

Phases == {"start", "liveness", "interfere", "simplify", "select", "done"}

-----------------------------------------------------------------------------
(* What the allocator reads off the function.                              *)

Blocks       == 1..fn.n
Code(b)      == fn.code[b]
ArgSet(b, i) == {Code(b)[i].args[k] : k \in DOMAIN Code(b)[i].args} \ {Const}
Dest(b, i)   == Code(b)[i].dest

(* Operands read before the block defines them, and the vregs it defines.  *)
UseSet(b) == {v \in Vregs : \E i \in DOMAIN Code(b) :
                /\ v \in ArgSet(b, i)
                /\ \A j \in 1..(i - 1) : Dest(b, j) # v}
DefSet(b) == {v \in Vregs : \E i \in DOMAIN Code(b) : Dest(b, i) = v}

Points == UNION {{<<b, i>> : i \in DOMAIN Code(b)} : b \in Blocks}

(* use_count: every operand occurrence and every definition counts once.   *)
UseCount(v) ==
  LET uses == UNION {{<<p, k>> : k \in DOMAIN Code(p[1])[p[2]].args} : p \in Points}
  IN  Cardinality({u \in uses : Code(u[1][1])[u[1][2]].args[u[2]] = v})
      + Cardinality({p \in Points : Dest(p[1], p[2]) = v})

-----------------------------------------------------------------------------
(* Liveness.                                                               *)

Init ==
  /\ fn \in Functions
  /\ opt \in OptLevels
  /\ phase = "start"
  /\ blk = 0 /\ inst = 0 /\ changed = TRUE
  /\ liveIn  = [b \in Blocks |-> {}]
  /\ liveOut = [b \in Blocks |-> {}]
  /\ curLive = {}
  /\ adj     = [v \in Vregs |-> {}]
  /\ degree  = [v \in Vregs |-> 0]
  /\ crosses = {}
  /\ stack   = <<>>
  /\ color   = [v \in Vregs |-> Spilled]
  /\ usedCalleeSaved = {}

(* -O0 returns before anything is computed: every vreg stays on the stack. *)
SkipAtO0 ==
  /\ phase = "start"
  /\ opt = 0
  /\ phase' = "done"
  /\ UNCHANGED <<fn, opt, blk, degree, stack, liveVars, graphVars, colorVars>>

(* A fault: the flag of the previous sweep is not cleared.                 *)
BeginSweepStale ==
  /\ UNCHANGED changed
  /\ blk' = fn.n

BeginSweep ==
  /\ changed' = FALSE
  /\ blk' = fn.n

StartLiveness ==
  /\ phase = "start"
  /\ opt # 0
  /\ phase' = "liveness"
  /\ BeginSweep
  /\ UNCHANGED <<fn, opt, degree, stack, liveIn, liveOut, graphVars, colorVars>>

OutOf(b)     == liveOut[b] \cup UNION {liveIn[s] : s \in fn.succ[b]}
InOf(b, out) == UseSet(b) \cup (out \ DefSet(b))

(* One block of the backward sweep; it reads the sets as this very sweep   *)
(* has left them.                                                          *)
LiveBlock ==
  /\ phase = "liveness"
  /\ blk > 0
  /\ LET out == OutOf(blk)
         in  == InOf(blk, out)
     IN  /\ liveOut' = [liveOut EXCEPT ![blk] = out]
         /\ liveIn'  = [liveIn EXCEPT ![blk] = in]
         /\ changed' = (changed \/ in # liveIn[blk])
  /\ blk' = blk - 1
  /\ UNCHANGED <<fn, opt, phase, degree, stack, graphVars, colorVars>>

(* The interference scan of block b starts after its last instruction.     *)
EnterBlock(b) ==
  /\ blk' = b
  /\ inst' = Len(Code(b))
  /\ curLive' = liveOut[b]

(* A fault: one sweep only, as if the code had no back edges.              *)
EndSweepOnce ==
  /\ phase = "liveness"
  /\ blk = 0
  /\ phase' = "interfere" /\ EnterBlock(1)
  /\ UNCHANGED <<fn, opt, degree, stack, liveVars, adj, crosses, colorVars>>

EndSweep ==
  /\ phase = "liveness"
  /\ blk = 0
  /\ IF changed
     THEN /\ BeginSweep
          /\ UNCHANGED <<phase, inst, curLive>>
     ELSE /\ phase' = "interfere"
          /\ EnterBlock(1)
          /\ UNCHANGED changed
  /\ UNCHANGED <<fn, opt, degree, stack, liveIn, liveOut, adj, crosses, colorVars>>

-----------------------------------------------------------------------------
(* Interference.                                                           *)

(* A fault: an operand is never taken to conflict with the result.         *)
ConflictsSparingArgs(b, i) ==
  IF Dest(b, i) = NoDest THEN {} ELSE curLive \ (ArgSet(b, i) \cup {Dest(b, i)})

(* What the result of an instruction conflicts with: all that is live      *)
(* after it.                                                               *)
Conflicts(b, i) ==
  IF Dest(b, i) = NoDest THEN {} ELSE curLive \ {Dest(b, i)}

(* The neighbours the graph did not have yet: only these count in degree.  *)
NewEdges(b, i) ==
  IF Dest(b, i) = NoDest THEN {} ELSE Conflicts(b, i) \ adj[Dest(b, i)]

(* A fault: only SIR_CALL is taken to cross a call.                        *)
CrossesOnlyCall(op) == op = "SIR_CALL"

CrossesCall(op) == op \in CallOps

(* One instruction, backwards: edges of its result, the result dies, what  *)
(* remains live crosses it if it is a call, its operands become live.      *)
InterfereInst ==
  /\ phase = "interfere"
  /\ inst > 0
  /\ LET d     == Dest(blk, inst)
         edges == NewEdges(blk, inst)
         live  == curLive \ {d}
     IN  /\ adj' = [v \in Vregs |->
                      IF v = d THEN adj[v] \cup edges
                      ELSE IF v \in edges THEN adj[v] \cup {d} ELSE adj[v]]
         /\ degree' = [v \in Vregs |->
                      IF v = d THEN degree[v] + Cardinality(edges)
                      ELSE IF v \in edges THEN degree[v] + 1 ELSE degree[v]]
         /\ crosses' = IF CrossesCall(Code(blk)[inst].op)
                       THEN crosses \cup live ELSE crosses
         /\ curLive' = live \cup ArgSet(blk, inst)
  /\ inst' = inst - 1
  /\ UNCHANGED <<fn, opt, phase, blk, stack, liveVars, colorVars>>

NextBlock ==
  /\ phase = "interfere"
  /\ inst = 0
  /\ IF blk < fn.n
     THEN EnterBlock(blk + 1) /\ UNCHANGED phase
     ELSE phase' = "simplify" /\ UNCHANGED <<blk, inst, curLive>>
  /\ UNCHANGED <<fn, opt, degree, stack, liveVars, adj, crosses, colorVars>>

-----------------------------------------------------------------------------
(* Simplify.                                                               *)

OnStack   == {stack[k] : k \in DOMAIN stack}
Remaining == {v \in Vregs : UseCount(v) > 0} \ OnStack
Low(v)    == degree[v] < NumPhysRegs

(* Node u is a better choice than v: certainly colourable before doubtful, *)
(* colourable ones by larger degree, doubtful ones by smaller              *)
(* use_count/degree and then by larger degree.                             *)
Beats(u, v) ==
  \/ Low(u) /\ ~Low(v)
  \/ Low(u) /\ Low(v) /\ degree[u] > degree[v]
  \/ /\ ~Low(u) /\ ~Low(v)
     /\ \/ UseCount(u) * degree[v] < UseCount(v) * degree[u]
        \/ /\ UseCount(u) * degree[v] = UseCount(v) * degree[u]
           /\ degree[u] > degree[v]

(* The node the ascending scan ends with: the first of the best.           *)
IsBest(v) ==
  \A u \in Remaining \ {v} : ~Beats(u, v) /\ (Beats(v, u) \/ v < u)

(* A fault: the degree of nodes already removed is lowered too.            *)
LoweredByAlsoRemoved(v) == adj[v]

(* The neighbours whose degree the removal of v lowers.                    *)
LoweredBy(v) == adj[v] \cap (Remaining \ {v})

SimplifyNode(v) ==
  /\ phase = "simplify"
  /\ v \in Remaining
  /\ IsBest(v)
  /\ stack' = Append(stack, v)
  /\ degree' = [u \in Vregs |-> IF u \in LoweredBy(v) THEN degree[u] - 1 ELSE degree[u]]
  /\ UNCHANGED <<fn, opt, phase, blk, liveVars, graphVars, colorVars>>

EndSimplify ==
  /\ phase = "simplify"
  /\ Remaining = {}
  /\ phase' = "select"
  /\ UNCHANGED <<fn, opt, blk, degree, stack, liveVars, graphVars, colorVars>>

-----------------------------------------------------------------------------
(* Select.                                                                 *)

CalleeSaved == 0..(NumCalleeSaved - 1)

(* A fault: the loop over the caller-saved colours runs one too far.       *)
CallerSavedOneTooFar == NumCalleeSaved..NumPhysRegs

CallerSaved == NumCalleeSaved..(NumPhysRegs - 1)

Least(S) == CHOOSE c \in S : \A d \in S : c <= d

UsedByNeighbours(v) == {color[u] : u \in adj[v]}

(* A fault: a vreg that crosses a call may still get a caller-saved colour *)
(* once the callee-saved ones are exhausted.                               *)
ColorForAnyLeft(v) ==
  LET callee == CalleeSaved \ UsedByNeighbours(v)
      caller == CallerSaved \ UsedByNeighbours(v)
  IN  IF v \notin crosses /\ caller # {} THEN Least(caller)
      ELSE IF callee # {} THEN Least(callee)
      ELSE IF caller # {} THEN Least(caller) ELSE Spilled

(* Caller-saved first unless v crosses a call, then callee-saved, else     *)
(* the stack.                                                              *)
ColorFor(v) ==
  LET callee == CalleeSaved \ UsedByNeighbours(v)
      caller == CallerSaved \ UsedByNeighbours(v)
  IN  IF v \notin crosses /\ caller # {} THEN Least(caller)
      ELSE IF callee # {} THEN Least(callee) ELSE Spilled

(* A fault: only the colour of a vreg that crosses a call is recorded.     *)
SelectNodeUnrecorded ==
  /\ phase = "select"
  /\ stack # <<>>
  /\ LET v == stack[Len(stack)]
     IN  /\ color' = [color EXCEPT ![v] = ColorFor(v)]
         /\ usedCalleeSaved' = IF v \in crosses
                               THEN usedCalleeSaved \cup ({ColorFor(v)} \ {Spilled})
                               ELSE usedCalleeSaved
  /\ stack' = SubSeq(stack, 1, Len(stack) - 1)
  /\ UNCHANGED <<fn, opt, phase, blk, degree, liveVars, graphVars>>

SelectNode ==
  /\ phase = "select"
  /\ stack # <<>>
  /\ LET v == stack[Len(stack)]
     IN  /\ color' = [color EXCEPT ![v] = ColorFor(v)]
         /\ usedCalleeSaved' = usedCalleeSaved \cup ({ColorFor(v)} \ {Spilled})
  /\ stack' = SubSeq(stack, 1, Len(stack) - 1)
  /\ UNCHANGED <<fn, opt, phase, blk, degree, liveVars, graphVars>>

EndSelect ==
  /\ phase = "select"
  /\ stack = <<>>
  /\ phase' = "done"
  /\ UNCHANGED <<fn, opt, blk, degree, stack, liveVars, graphVars, colorVars>>

Next ==
  \/ SkipAtO0 \/ StartLiveness
  \/ LiveBlock \/ EndSweep
  \/ InterfereInst \/ NextBlock
  \/ \E v \in Vregs : SimplifyNode(v)
  \/ EndSimplify
  \/ SelectNode \/ EndSelect

Spec == Init /\ [][Next]_vars

(* The allocator is one sequential call: while a step remains, it is taken. *)
FairSpec == Spec /\ WF_vars(Next)

-----------------------------------------------------------------------------
(* Properties.                                                             *)

(* The types of the allocator's arrays: every colour indexes get_phys_reg, *)
(* live sets and neighbours are vregs of this function.                    *)
TypeOK ==
  /\ fn \in Functions /\ opt \in OptLevels /\ phase \in Phases
  /\ blk \in 0..fn.n /\ inst \in Nat /\ changed \in BOOLEAN
  /\ phase = "interfere" => blk \in Blocks /\ inst <= Len(Code(blk))
  /\ liveIn \in [Blocks -> SUBSET Vregs]
  /\ liveOut \in [Blocks -> SUBSET Vregs]
  /\ curLive \subseteq Vregs /\ crosses \subseteq Vregs
  /\ adj \in [Vregs -> SUBSET Vregs]
  /\ degree \in [Vregs -> Int]
  /\ stack \in Seq(Vregs)
  /\ color \in [Vregs -> Colors \cup {Spilled}]
  /\ usedCalleeSaved \subseteq Colors

(* v is live right after instruction i of b, given what is live out of b:  *)
(* a later instruction of b reads it before any redefines it, or it leaves *)
(* the block alive.                                                        *)
LiveAfter(b, i, out) ==
  {v \in Vregs :
    \/ \E j \in (i + 1)..Len(Code(b)) :
         /\ v \in ArgSet(b, j)
         /\ \A k \in (i + 1)..(j - 1) : Dest(b, k) # v
    \/ /\ v \in out
       /\ \A k \in (i + 1)..Len(Code(b)) : Dest(b, k) # v}

(* Once allocation is done, writing an instruction's result never destroys *)
(* a value still needed: the result's register is not the register of any  *)
(* vreg live after the instruction (the guarantee the whole instruction    *)
(* selection of x86_mir.c builds on).                                      *)
NoClobber ==
  phase = "done" =>
    \A b \in Blocks : \A i \in DOMAIN Code(b) : \A v \in LiveAfter(b, i, liveOut[b]) :
      LET d == Dest(b, i)
      IN  d \notin {NoDest, v} /\ color[d] # Spilled => color[v] # color[d]

(* Once allocation is done, a vreg needed after a call it was live before  *)
(* is on the stack or in a callee-saved register: the call cannot destroy  *)
(* it (the comment in the select loop).                                    *)
CallSurvivors ==
  phase = "done" =>
    \A b \in Blocks : \A i \in DOMAIN Code(b) :
      Code(b)[i].op \notin PlainOps =>
        \A v \in LiveAfter(b, i, liveOut[b]) \ {Dest(b, i)} :
          color[v] \in CalleeSaved \cup {Spilled}

(* The sweep stops at the right answer: a vreg is in the live-out set of a *)
(* block exactly when some path from one of its successors reaches a block *)
(* that reads the vreg first and passes no block that defines it.          *)
LivenessIsExact ==
  phase \notin {"start", "liveness"} /\ opt # 0 =>
    \A b \in Blocks : liveOut[b] =
      {v \in Vregs :
        \E n \in Blocks : \E path \in [1..n -> Blocks] :
          /\ path[1] \in fn.succ[b]
          /\ \A k \in 1..(n - 1) : path[k + 1] \in fn.succ[path[k]]
                                   /\ v \notin DefSet(path[k])
          /\ v \in UseSet(path[n])}

(* Chaitin's guarantee: a node removed while it had fewer neighbours left  *)
(* than there are registers is never spilled for want of a register; only  *)
(* the call-crossing restriction, which the degree test ignores, can       *)
(* spill it.                                                               *)
LowDegreeGetsColor ==
  phase = "done" /\ opt # 0 =>
    \A v \in Vregs : UseCount(v) > 0 /\ Low(v) /\ v \notin crosses => color[v] # Spilled

(* Allocation ends on every function: the sweeps reach a fixpoint and the  *)
(* loops run out of nodes.                                                 *)
Terminates == <>(phase = "done")

-----------------------------------------------------------------------------
(* The inductive invariant behind NoClobber, CallSurvivors and the         *)
(* fixpoint of the liveness sweep.                                         *)

LiveOutEquation(b) == liveOut[b] = UNION {liveIn[s] : s \in fn.succ[b]}
LiveInEquation(b)  == liveIn[b] = InOf(b, liveOut[b])

(* The accumulated sets never overshoot, live-in never lags behind the     *)
(* live-out it came from, and the blocks a sweep has passed without a      *)
(* change already satisfy both equations.                                  *)
SweepInv ==
  /\ \A b \in Blocks :
       /\ liveOut[b] \subseteq UNION {liveIn[s] : s \in fn.succ[b]}
       /\ liveIn[b] \subseteq InOf(b, liveOut[b])
  /\ phase = "liveness" /\ ~changed =>
       \A b \in (blk + 1)..fn.n : LiveOutEquation(b) /\ LiveInEquation(b)

(* The sweep stops at a solution of the data-flow equations.               *)
LivenessIsFixpoint ==
  phase \notin {"start", "liveness"} /\ opt # 0 =>
    \A b \in Blocks : LiveOutEquation(b) /\ LiveInEquation(b)

(* The interference scan has passed instruction i of b.                    *)
Scanned(b, i) ==
  \/ phase = "interfere" /\ (b < blk \/ (b = blk /\ i > inst))
  \/ phase \in {"simplify", "select", "done"} /\ opt # 0

(* The graph is symmetric and irreflexive, and holds every conflict and    *)
(* every call crossing of the instructions scanned so far.                 *)
GraphInv ==
  /\ \A u, v \in Vregs : v \in adj[u] => u \in adj[v] /\ u # v
  /\ phase = "interfere" => curLive = LiveAfter(blk, inst, liveOut[blk])
  /\ \A b \in Blocks : \A i \in 1..Len(Code(b)) : Scanned(b, i) =>
       \A v \in LiveAfter(b, i, liveOut[b]) \ {Dest(b, i)} :
         /\ Dest(b, i) # NoDest => v \in adj[Dest(b, i)]
         /\ CrossesCall(Code(b)[i].op) => v \in crosses

(* Coloured neighbours differ, call-crossing vregs stay out of the         *)
(* caller-saved registers, and nothing is coloured before select.          *)
ColorInv ==
  /\ phase \notin {"select", "done"} \/ opt = 0 => \A v \in Vregs : color[v] = Spilled
  /\ \A u \in Vregs : \A v \in adj[u] :
       color[u] # Spilled /\ color[v] # Spilled => color[u] # color[v]
  /\ \A v \in crosses : color[v] \in CalleeSaved \cup {Spilled}

(* -O0 never leaves "start" except to "done".                              *)
OptInv == opt = 0 => phase \in {"start", "done"}

IInv == TypeOK /\ SweepInv /\ LivenessIsFixpoint /\ GraphInv /\ ColorInv /\ OptInv

-----------------------------------------------------------------------------
(* The invariants behind LowDegreeGetsColor and LivenessIsExact.           *)

RemovedBefore(k) == {stack[j] : j \in 1..(k - 1)}

(* A degree counts at least the neighbours not yet removed, and stays what *)
(* it was when the node was removed; what is on the stack is there once,   *)
(* uncoloured, and comes off it in the opposite order.                     *)
SimplifyInv ==
  /\ phase \in {"start", "liveness", "interfere", "done"} => stack = <<>>
  /\ \A j, k \in DOMAIN stack : stack[j] = stack[k] => j = k
  /\ \A k \in DOMAIN stack :
       /\ color[stack[k]] = Spilled
       /\ Cardinality(adj[stack[k]] \ RemovedBefore(k)) <= degree[stack[k]]
  /\ phase \notin {"select", "done"} =>
       \A v \in Vregs \ OnStack : Cardinality(adj[v] \ OnStack) <= degree[v]
  /\ phase \in {"select", "done"} /\ opt # 0 =>
       \A v \in Vregs \ OnStack :
         UseCount(v) > 0 /\ Low(v) /\ v \notin crosses => color[v] # Spilled

(* A path of n blocks from b that reaches a use of v before a definition.  *)
IsWitness(path, n, b, v) ==
  /\ path[1] = b
  /\ \A k \in 1..(n - 1) : path[k + 1] \in fn.succ[path[k]] /\ v \notin DefSet(path[k])
  /\ v \in UseSet(path[n])

(* Whatever the sweep has found live, it has found for a reason.           *)
WitnessInv ==
  \A b \in Blocks : \A v \in liveIn[b] :
    \E n \in Blocks : \E path \in [1..n -> Blocks] : IsWitness(path, n, b, v)
=============================================================================
