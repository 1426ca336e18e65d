------------------------------ MODULE Optimize ------------------------------
(***************************************************************************)
(* ir_optimize_module (ir/ir_builder.c) from -O1 to -O3: inlining,         *)
(* propagation with local common subexpressions, dead code, the fast path, *)
(* jump threading, expansion of base cases, execution at compile time,     *)
(* removal of unused functions.  One action is one turn of a pass's loop;  *)
(* after each of them the module must mean what the source means.          *)
(***************************************************************************)
EXTENDS Sir

CONSTANTS
    Sources,        \* modules as ir_gen leaves them
    Levels,         \* the -O levels to optimize at, 1 to 3
    Inputs,         \* what external functions return
    InlineLimit,    \* the largest function that is inlined: 60
    GrowLimit,      \* functions of that size take no more: 200
    EvalDepth       \* how deep the evaluation of base cases goes: 15

ASSUME LimitsAssumption == {InlineLimit, GrowLimit, EvalDepth} \subseteq Nat

VARIABLES
    meaning,        \* what the source does on each input
    level,          \* opt_level
    module,         \* the module, its functions in the order of their list
    nextBlock,      \* next_block_id
    phase,          \* the pass
    at,             \* the function the pass is at
    test,           \* test_val
    dirty,          \* cfg_changed, bce_changed or vm_changed
    pure            \* is_pure

vars == <<meaning, level, module, nextBlock, phase, at, test, dirty, pure>>

-----------------------------------------------------------------------------
(* prune_dead_blocks: what the last instructions of blocks do not lead to. *)

ReachableShort(f) ==            \* A fault: what a switch leads to is forgotten.
    LET Ends(b) == b.insts # <<>> /\ Last(b.insts).op # "switch"
        Onward(S) == S \cup UNION {TargetsOf(Last(b.insts)) :
                                    b \in {c \in Range(f.blocks) : c.id \in S /\ Ends(c)}}
    IN  FoldLeft(LAMBDA S, b : Onward(S), {f.blocks[1].id}, f.blocks)

Reachable(f) ==
    LET Onward(S) == S \cup UNION {TargetsOf(Last(b.insts)) :
                                    b \in {c \in Range(f.blocks) : c.id \in S /\ c.insts # <<>>}}
    IN  FoldLeft(LAMBDA S, b : Onward(S), {f.blocks[1].id}, f.blocks)

Prune(f) ==
    LET reachable == Reachable(f)
    IN  [f EXCEPT !.blocks = SelectSeq(@, LAMBDA b : b.id \in reachable)]

-----------------------------------------------------------------------------
(* Inlining, at -O2.                                                       *)

Returns(f) == Len(SelectSeq(InstsOf(f), LAMBDA i : i.op = "ret"))

CallsItself(f) == \E i \in Range(InstsOf(f)) : i.op = "call" /\ i.args[1] = F(f.name)

CanInline(f) ==
    /\ ~ \E i \in Range(InstsOf(f)) : i.op = "alloca"
    /\ ~CallsItself(f)
    /\ Len(InstsOf(f)) <= InlineLimit
    /\ Returns(f) > 0

InlinableAlways(m, k, inst) ==  \* A fault: functions grow without end.
    /\ inst.op = "call"
    /\ LET callee == Callee(m, inst) IN callee # 0 /\ callee # k /\ CanInline(m[callee])

Inlinable(m, k, inst) ==
    /\ inst.op = "call"
    /\ LET callee == Callee(m, inst) IN callee # 0 /\ callee # k /\ CanInline(m[callee])
    /\ Len(InstsOf(m[k])) < GrowLimit

\* One instruction of the callee, cloned.  c holds what the callee's blocks
\* and vregs have become (block_map, vreg_map), the next vreg, and the
\* instructions made so far.
MapArg(c, a) ==
    CASE IsV(a) /\ a[2] \in DOMAIN c.map -> [c EXCEPT !.args = Append(@, c.map[a[2]])]
      [] IsV(a) /\ a[2] \notin DOMAIN c.map ->
            [c EXCEPT !.args = Append(@, V(c.next)), !.map = (a[2] :> V(c.next)) @@ @, !.next = @ + 1]
      [] a[1] = "b" -> [c EXCEPT !.args = Append(@, B(c.ids[a[2]]))]
      [] OTHER -> [c EXCEPT !.args = Append(@, a)]

MapArgs(c, args) == FoldLeft(MapArg, [c EXCEPT !.args = <<>>], args)

CloneInst(c, inst, call, slot, post) ==
    LET dst == IF inst.dst = 0 THEN 0 ELSE c.next
        defined == IF inst.dst = 0 THEN c
                   ELSE [c EXCEPT !.map = (inst.dst :> V(c.next)) @@ @, !.next = @ + 1]
        clone == MapArgs(defined, inst.args)
        value == MapArgs(c, inst.args)
        jump == Op("jmp", 0, <<B(post)>>)
    IN  CASE inst.op = "param" ->
                IF inst.args[1][2] + 1 < Len(call.args)
                THEN [c EXCEPT !.map = (inst.dst :> call.args[inst.args[1][2] + 2]) @@ @]
                ELSE c
          [] inst.op = "ret" ->
                IF inst.args = <<>> \/ call.dst = 0 THEN [c EXCEPT !.insts = Append(@, jump)]
                ELSE [value EXCEPT !.insts = @ \o
                        <<IF slot # 0 THEN Op("store", 0, <<value.args[1], V(slot)>>)
                                      ELSE Op("cast", call.dst, value.args), jump>>]
          [] OTHER -> [clone EXCEPT !.insts = Append(@, Op(inst.op, dst, clone.args))]

\* Instruction i of block b of function f, a call of g, replaced by g's
\* blocks.  If g returns at several places they store the result in a slot.
Inlined(f, b, i, g, nb) ==
    LET insts == f.blocks[b].insts
        call == insts[i]
        slotted == call.dst # 0 /\ Returns(g) > 1
        slot == IF slotted THEN MaxVreg(f) + 1 ELSE 0
        ids == [id \in {c.id : c \in Range(g.blocks)} |-> nb + BlockAt(g, id) - 1]
        post == nb + Len(g.blocks)
        start == [ids |-> ids, map |-> <<>>, next |-> MaxVreg(f) + (IF slotted THEN 2 ELSE 1),
                  args |-> <<>>, insts |-> <<>>, blocks |-> <<>>]
        CloneBlock(c, block) ==
            LET done == FoldLeft(LAMBDA d, inst : CloneInst(d, inst, call, slot, post),
                                 [c EXCEPT !.insts = <<>>], block.insts)
            IN  [done EXCEPT !.blocks = Append(@, [id |-> ids[block.id], insts |-> done.insts])]
        loaded == IF slotted THEN <<Op("load", call.dst, <<V(slot)>>)>> ELSE <<>>
        before == SubSeq(insts, 1, i - 1) \o <<Op("jmp", 0, <<B(nb)>>)>>
        after == loaded \o SubSeq(insts, i + 1, Len(insts))
        blocks == [f.blocks EXCEPT ![b].insts = before]
                  \o FoldLeft(CloneBlock, start, g.blocks).blocks
                  \o <<[id |-> post, insts |-> after]>>
    IN  [f EXCEPT !.blocks =
            IF slotted THEN [blocks EXCEPT ![1].insts = <<Op("alloca", slot, <<>>)>> \o @]
            ELSE blocks]

NewBlocks(g) == Len(g.blocks) + 1

HasInlinable(k) == \E i \in Range(InstsOf(module[k])) : Inlinable(module, k, i)

\* The first call that can be inlined is; then the search starts again.
InlineCall ==
    /\ phase = "inline" /\ \E j \in DOMAIN module : HasInlinable(j)
    /\ LET k == Min({j \in DOMAIN module : HasInlinable(j)})
           f == module[k]
           b == SelectInSeq(f.blocks, LAMBDA c : \E i \in Range(c.insts) : Inlinable(module, k, i))
           i == SelectInSeq(f.blocks[b].insts, LAMBDA c : Inlinable(module, k, c))
           g == module[Callee(module, f.blocks[b].insts[i])]
       IN  /\ module' = [module EXCEPT ![k] = Prune(Inlined(f, b, i, g, nextBlock))]
           /\ nextBlock' = nextBlock + NewBlocks(g)
    /\ UNCHANGED <<meaning, level, phase, at, test, dirty, pure>>

InliningEnds ==
    /\ phase = "inline" /\ ~ \E j \in DOMAIN module : HasInlinable(j)
    /\ phase' = "propagate"
    /\ UNCHANGED <<meaning, level, module, nextBlock, at, test, dirty, pure>>

-----------------------------------------------------------------------------
(* Propagation of constants and copies, folding, common subexpressions.    *)

PureCompute == Arithmetic \cup Comparisons \cup {"cast", "select"}

Commutative == {"add", "mul", "eq", "ne"}

None == <<>>

\* What the result of an instruction can be replaced by.  Additions and
\* multiplications of two constants are not folded: the tests for the neutral
\* element come first in the chain.
Replacement(inst) ==
    LET a == inst.args
        Both == IsInt(a[1]) /\ IsInt(a[2])
        Neutral(n, orElse) == IF a[2] = I(n) THEN a[1] ELSE orElse
        SwappedNeutral(n) == Neutral(n, IF a[1] = I(n) THEN a[2] ELSE None)
        value == Compute(inst.op, a[1][2], a[2][2])
    IN  CASE inst.op = "cast" -> a[1]
          [] inst.op = "add" -> SwappedNeutral(0)
          [] inst.op = "mul" -> SwappedNeutral(1)
          [] inst.op = "sub" -> Neutral(0, IF Both THEN I(value) ELSE None)
          [] inst.op = "select" -> IF IsBool(a[1]) THEN a[IF a[1][2] = 1 THEN 2 ELSE 3] ELSE None
          [] inst.op \in Comparisons -> IF Both THEN <<"bool", value>> ELSE None
          [] OTHER -> None

\* At -O3, after execution, only this much.
TidyReplacement(inst) ==
    CASE inst.op = "cast" -> IF IsInt(inst.args[1]) THEN inst.args[1] ELSE None
      [] inst.op = "add" -> IF inst.args[2] = I(0) THEN inst.args[1] ELSE None
      [] OTHER -> None

\* A branch or switch on a constant is a jump.
Folded(inst) ==
    CASE inst.op = "br" /\ IsBool(inst.args[1]) ->
            Op("jmp", 0, <<inst.args[IF inst.args[1][2] = 1 THEN 2 ELSE 3]>>)
      [] inst.op = "switch" /\ IsInt(inst.args[1]) ->
            Op("jmp", 0, <<SwitchTarget(inst.args, inst.args[1][2])>>)
      [] OTHER -> inst

SameValue(i, j) ==
    /\ i.op = j.op
    /\ \/ i.args = j.args
       \/ /\ i.op \in Commutative
          /\ i.args[1] = j.args[2] /\ i.args[2] = j.args[1]

Replaced(reps, args) ==
    [i \in DOMAIN args |-> IF IsV(args[i]) /\ args[i][2] \in DOMAIN reps THEN reps[args[i][2]] ELSE args[i]]

\* One round over a function.  p holds the replacements found so far, the
\* instructions of this block whose values may be used again, and what has
\* been rewritten.  The propagation after execution is not the full one.
PropagateInst(p, inst, full) ==
    LET replaced == [inst EXCEPT !.args = Replaced(p.reps, @)]
        now == IF full THEN Folded(replaced) ELSE replaced
        rep == IF full THEN Replacement(now) ELSE TidyReplacement(now)
        twin == SelectInSeq(p.seen, LAMBDA s : SameValue(s, now))
        found == IF rep # None THEN rep
                 ELSE IF full /\ now.op \in PureCompute /\ twin # 0 THEN V(p.seen[twin].dst) ELSE None
    IN  [reps |-> IF now.dst # 0 /\ found # None THEN (now.dst :> found) @@ p.reps ELSE p.reps,
         seen |-> IF full /\ now.op \in PureCompute /\ found = None THEN Append(p.seen, now) ELSE p.seen,
         insts |-> Append(p.insts, now),
         blocks |-> p.blocks,
         cfg |-> p.cfg \/ now # replaced]

AcrossBlocks(p) == [p EXCEPT !.insts = <<>>]   \* A fault: values of one block are used in another.

NewBlock(p) == [p EXCEPT !.insts = <<>>, !.seen = <<>>]

PropagateRound(f, full) ==
    LET OverBlock(p, block) ==
            LET q == FoldLeft(LAMBDA r, inst : PropagateInst(r, inst, full),
                              NewBlock(p), block.insts)
            IN  [q EXCEPT !.blocks = Append(@, [block EXCEPT !.insts = q.insts])]
        start == [reps |-> <<>>, seen |-> <<>>, insts |-> <<>>, blocks |-> <<>>, cfg |-> FALSE]
        end == FoldLeft(OverBlock, start, f.blocks)
    IN  [f |-> [f EXCEPT !.blocks = end.blocks], cfg |-> end.cfg]

Propagate ==
    /\ phase = "propagate"
    /\ LET round == PropagateRound(module[at], TRUE)
           changed == round.f # module[at]
       IN  /\ module' = [module EXCEPT ![at] = IF changed \/ ~dirty THEN round.f ELSE Prune(round.f)]
           /\ phase' = IF changed THEN phase ELSE "sweep"
           /\ dirty' = (changed /\ (dirty \/ round.cfg))
    /\ UNCHANGED <<meaning, level, nextBlock, at, test, pure>>

-----------------------------------------------------------------------------
(* Dead code, the fast path, jump threading.                               *)

SideEffectFree == PureCompute \cup {"load", "param"}

SweepRound(f) ==
    LET used == Used(f)
        Dead(inst) == inst.dst # 0 /\ inst.op \in SideEffectFree /\ inst.dst \notin used
    IN  [f EXCEPT !.blocks = [b \in DOMAIN @ |->
            [@[b] EXCEPT !.insts = SelectSeq(@, LAMBDA i : ~Dead(i))]]]

Sweep ==
    /\ phase = "sweep"
    /\ module' = [module EXCEPT ![at] = SweepRound(@)]
    /\ phase' = IF SweepRound(module[at]) = module[at] THEN "fast" ELSE phase
    /\ UNCHANGED <<meaning, level, nextBlock, at, test, dirty, pure>>

\* The function starts with a comparison of its first parameter with a
\* constant, and a branch on it.
StartsWithTest(insts) ==
    /\ Len(insts) >= 3
    /\ insts[1].op = "param" /\ insts[1].args[1] = I(0)
    /\ insts[2].op \in Comparisons
    /\ insts[2].args[1] = V(insts[1].dst) /\ IsInt(insts[2].args[2])
    /\ insts[3].op = "br" /\ insts[3].args[1] = V(insts[2].dst)

IsLoneReturn(block) == Len(block.insts) = 1 /\ block.insts[1].op = "ret"

\* A return without a value has no operand to compare.
Crashes(block) == IsLoneReturn(block) /\ block.insts[1].args = <<>>

\* The function with that side of its first branch, 1 or 0, taken out as the
\* fast path.  The comparison goes too.
WithFastPath(f, side) ==
    LET insts == f.blocks[1].insts
        other == insts[3].args[2 + side]
    IN  Prune([f EXCEPT
            !.fast = <<insts[2].op, insts[2].args[2][2], side>>,
            !.blocks[1].insts = <<insts[1], Op("jmp", 0, <<other>>)>>])

FastPath ==
    /\ phase = "fast"
    /\ LET f == module[at]
           insts == f.blocks[1].insts
           Side(i) == f.blocks[BlockAt(f, insts[3].args[i][2])]
           Returns1(i) == IsLoneReturn(Side(i)) /\ Side(i).insts[1].args = <<V(insts[1].dst)>>
       IN  IF ~StartsWithTest(insts) THEN phase' = "thread" /\ UNCHANGED module
           ELSE IF Crashes(Side(2)) \/ (~Returns1(2) /\ Crashes(Side(3)))
                THEN phase' = "crashed" /\ UNCHANGED module
           ELSE /\ phase' = "thread"
                /\ module' = [module EXCEPT ![at] =
                        IF Returns1(2) THEN WithFastPath(f, 1)
                        ELSE IF Returns1(3) THEN WithFastPath(f, 0) ELSE f]
    /\ UNCHANGED <<meaning, level, nextBlock, at, test, dirty, pure>>

Past(f, b, id) ==
    LET to == f.blocks[BlockAt(f, id)]
    IN  IF to.id # f.blocks[b].id /\ Len(to.insts) = 1 /\ to.insts[1].op = "jmp"
        THEN to.insts[1].args[1] ELSE B(id)

ThreadRound(f) ==
    LET Threaded(g, b) ==
            [i \in DOMAIN g.blocks[b].insts |->
                [g.blocks[b].insts[i] EXCEPT !.args =
                    [j \in DOMAIN @ |-> IF @[j][1] = "b" THEN Past(g, b, @[j][2]) ELSE @[j]]]]
    IN  FoldLeft(LAMBDA g, b : [g EXCEPT !.blocks[b].insts = Threaded(g, b)],
                 f, [b \in DOMAIN f.blocks |-> b])

Thread ==
    /\ phase = "thread"
    /\ module' = [module EXCEPT ![at] = ThreadRound(@)]
    /\ IF ThreadRound(module[at]) # module[at] THEN UNCHANGED <<phase, at>>
       ELSE IF at < Len(module)
       THEN at' = at + 1 /\ phase' = IF level >= 2 THEN "propagate" ELSE "sweep"
       ELSE at' = 1 /\ phase' = IF level >= 2 THEN "expand" ELSE "done"
    /\ UNCHANGED <<meaning, level, nextBlock, test, dirty, pure>>
-----------------------------------------------------------------------------
(* Expansion of base cases: a function of one integer that calls itself    *)
(* gets the results for 2, 3 and 4, if they can be computed.               *)

Expandable(f) ==
    /\ f.blocks[1].insts # <<>>
    /\ f.blocks[1].insts[1].op = "param" /\ f.blocks[1].insts[1].args[1] = I(0)
    /\ CallsItself(f)

EvaluableDeep(m, s) ==          \* A fault: the depth is not limited.
    LET inst == Ahead(m, s)
        a == inst.args
    IN  /\ inst.op \in Computing
        /\ inst.op = "param" => a[1] = I(0)
        /\ inst.op = "call" =>
              a[1] = F(m[Last(s.frames).f].name) /\ Len(a) = 2
        /\ inst.op \in {"ret", "call"} => \A v \in Range(a) : ~IsBool(v)
        /\ inst.op = "select" => ~IsBool(a[2]) /\ ~IsBool(a[3])
        /\ inst.op \in {"br", "select"} => ~IsInt(a[1])
        /\ inst.op = "switch" => ~IsBool(a[1])

\* What try_evaluate_pure_func can follow.
Evaluable(m, s) ==
    LET inst == Ahead(m, s)
        a == inst.args
    IN  /\ inst.op \in Computing
        /\ inst.op = "param" => a[1] = I(0)
        /\ inst.op = "call" =>
              a[1] = F(m[Last(s.frames).f].name) /\ Len(a) = 2 /\ Len(s.frames) <= EvalDepth
        /\ inst.op \in {"ret", "call"} => \A v \in Range(a) : ~IsBool(v)
        /\ inst.op = "select" => ~IsBool(a[2]) /\ ~IsBool(a[3])
        /\ inst.op \in {"br", "select"} => ~IsInt(a[1])
        /\ inst.op = "switch" => ~IsBool(a[1])

Evaluated(m, k, n) == RunWhile(m, k, <<n>>, 0, LAMBDA s : Evaluable(m, s))

\* Two blocks in front of the function: is the argument n?  then return v.
Expanded(f, n, v, nb) ==
    LET p == MaxVreg(f) + 1
        entry == <<Op("param", p, <<I(0)>>), Op("eq", p + 1, <<V(p), I(n)>>),
                   Op("br", 0, <<V(p + 1), B(nb + 1), B(f.blocks[1].id)>>)>>
        return == <<Op("ret", 0, <<I(v)>>)>>
    IN  [f EXCEPT !.blocks = <<[id |-> nb, insts |-> entry], [id |-> nb + 1, insts |-> return]>> \o @]

LastTest == 4

\* The next function, or the end of the pass.
Expansion(m, changed) ==
    IF at < Len(module)
    THEN at' = at + 1 /\ test' = 2 /\ module' = m /\ dirty' = changed /\ UNCHANGED <<phase, pure>>
    ELSE /\ at' = 1 /\ test' = 2 /\ dirty' = FALSE
         /\ module' = IF changed THEN [k \in DOMAIN m |-> Prune(m[k])] ELSE m
         /\ phase' = IF level >= 3 THEN "purify" ELSE "collect"
         /\ pure' = IF level >= 3 THEN DOMAIN module ELSE {}

SkipBases ==
    /\ phase = "expand" /\ ~Expandable(module[at])
    /\ Expansion(module, dirty)
    /\ UNCHANGED <<meaning, level, nextBlock>>

\* The evaluation has no limit on its steps: where it does not end, neither
\* does the compiler.
ExpandBase ==
    /\ phase = "expand" /\ Expandable(module[at])
    /\ LET run == Evaluated(module, at, test)
           found == run.end = "returned"
           m == IF found THEN [module EXCEPT ![at] = Expanded(@, test, run.result, nextBlock)] ELSE module
       IN  IF Running(run)
           THEN phase' = "hangs" /\ UNCHANGED <<module, nextBlock, at, test, dirty, pure>>
           ELSE /\ nextBlock' = IF found THEN nextBlock + 2 ELSE nextBlock
                /\ IF test < LastTest
                   THEN /\ test' = test + 1 /\ module' = m /\ dirty' = (dirty \/ found)
                        /\ UNCHANGED <<phase, at, pure>>
                   ELSE Expansion(m, dirty \/ found)
    /\ UNCHANGED <<meaning, level>>

-----------------------------------------------------------------------------
(* Execution of pure functions, at -O3.                                    *)

Clean(m, f, p) ==
    \A i \in Range(InstsOf(f)) :
        /\ i.op \notin {"alloca", "load", "store"}
        /\ i.op = "call" => Callee(m, i) \in p

PurityRound ==
    /\ phase = "purify"
    /\ pure' = FoldLeft(LAMBDA p, k : IF k \in p /\ ~Clean(module, module[k], p) THEN p \ {k} ELSE p,
                        pure, [k \in DOMAIN module |-> k])
    /\ phase' = IF pure' = pure THEN "execute" ELSE phase
    /\ UNCHANGED <<meaning, level, module, nextBlock, at, test, dirty>>

Executable(m, inst) ==
    /\ inst.op = "call" /\ Callee(m, inst) \in pure
    /\ \A i \in 2..Len(inst.args) : ~IsV(inst.args[i])

Executed(m, inst) ==
    LET run == RunWhile(m, Callee(m, inst), [i \in 1..(Len(inst.args) - 1) |-> inst.args[i + 1][2]], 0,
                        LAMBDA s : Ahead(m, s).op \in Computing
                                   /\ (Ahead(m, s).op = "call" => Callee(m, Ahead(m, s)) \in pure))
    IN  IF run.end # "returned" THEN inst
        ELSE IF inst.dst # 0 THEN Op("cast", inst.dst, <<I(run.result)>>)
        ELSE Op("add", MaxVreg(m[at]) + 1, <<I(0), I(0)>>)

Execute ==
    /\ phase = "execute"
    /\ LET f == module[at]
           InBlock(m, b) ==
               FoldLeft(LAMBDA n, i : [n EXCEPT ![at].blocks[b].insts[i] =
                                          IF Executable(n, @) THEN Executed(n, @) ELSE @],
                        m, [i \in DOMAIN f.blocks[b].insts |-> i])
       IN  module' = FoldLeft(InBlock, module, [b \in DOMAIN f.blocks |-> b])
    /\ dirty' = (dirty \/ module' # module)
    /\ IF at < Len(module) THEN at' = at + 1 /\ UNCHANGED phase
       ELSE at' = 1 /\ phase' = IF dirty' THEN "tidy" ELSE "collect"
    /\ UNCHANGED <<meaning, level, nextBlock, test, pure>>

Tidy ==
    /\ phase = "tidy"
    /\ LET round == PropagateRound(module[at], FALSE).f
       IN  /\ module' = [module EXCEPT ![at] = round]
           /\ phase' = IF round = module[at] THEN "resweep" ELSE phase
    /\ UNCHANGED <<meaning, level, nextBlock, at, test, dirty, pure>>

Resweep ==
    /\ phase = "resweep"
    /\ module' = [module EXCEPT ![at] = SweepRound(@)]
    /\ IF module' # module THEN UNCHANGED <<phase, at>>
       ELSE IF at < Len(module) THEN at' = at + 1 /\ phase' = "tidy"
       ELSE at' = 1 /\ phase' = "collect"
    /\ UNCHANGED <<meaning, level, nextBlock, test, dirty, pure>>

-----------------------------------------------------------------------------
(* Functions that nothing leads to go.                                     *)

Roots == {"princeps", "__scorivm_init"}

Mentions(f) == {a[2] : a \in {b \in UNION {Range(i.args) : i \in Range(InstsOf(f))} : b[1] = "f"}}

Kept(m) ==
    FoldLeft(LAMBDA names, k : names \cup UNION {Mentions(f) : f \in {g \in Range(m) : g.name \in names}},
             Roots, m)

Collect ==
    /\ phase = "collect"
    /\ module' = LET kept == Kept(module) IN SelectSeq(module, LAMBDA f : f.name \in kept)
    /\ phase' = "done"
    /\ UNCHANGED <<meaning, level, nextBlock, at, test, dirty, pure>>

-----------------------------------------------------------------------------
Means(m) == [x \in Inputs |-> Behaviour(m, "princeps", x)]

Init ==
    /\ module \in Sources /\ level \in Levels
    /\ meaning = Means(module)
    /\ nextBlock = 1 + Max(UNION {{b.id : b \in Range(f.blocks)} : f \in Range(module)})
    /\ phase = IF level >= 2 THEN "inline" ELSE "sweep"
    /\ at = 1 /\ test = 2 /\ dirty = FALSE /\ pure = {}

Next ==
    \/ InlineCall \/ InliningEnds
    \/ Propagate \/ Sweep \/ FastPath \/ Thread
    \/ SkipBases \/ ExpandBase
    \/ PurityRound \/ Execute \/ Tidy \/ Resweep
    \/ Collect

Ended == {"done", "crashed", "hangs"}

\* The compiler goes on until it ends.  Every step changes something and one
\* is possible unless it has ended, so this is WF_vars(Next), in a form that
\* does not make TLC look for that step.
Fairness == []<>(phase \in Ended) \/ []<><<TRUE>>_vars

Spec == Init /\ [][Next]_vars /\ Fairness

-----------------------------------------------------------------------------
\* After every step of every pass the module does what the source does.
KeepsMeaning == Means(module) = meaning

\* What the code generator takes for granted: a vreg that is used has one
\* definition, a jump leads to a block of its own function.
WellFormed ==
    \A f \in Range(module) :
        LET insts == InstsOf(f)
        IN  /\ \A v \in Used(f) : Len(SelectSeq(insts, LAMBDA i : i.dst = v)) = 1
            /\ \A i \in Range(insts) : TargetsOf(i) \subseteq {b.id : b \in Range(f.blocks)}

\* However functions call each other, inlining does not blow any of them up.
GrowthBounded ==
    phase = "inline" => \A f \in Range(module) : Len(InstsOf(f)) <= GrowLimit + 2 * InlineLimit + 1

\* Every loop of every pass ends, and so does the compiler.
Terminates == <>(phase = "done")
=============================================================================
