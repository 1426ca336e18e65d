------------------------------- MODULE Lower --------------------------------
(***************************************************************************)
(* Generation of SIR for a function body (ir/ir_gen.c, gen_statement and   *)
(* the control flow of gen_expression), with the builder calls it makes    *)
(* (ir/ir_builder.c), the parts of ir_optimize_module that rewrite jumps   *)
(* at -O1, and the run of the result.                                      *)
(*                                                                         *)
(* gen_statement and gen_expression call each other recursively: `stack`   *)
(* holds their activations, and an action is the code of one activation    *)
(* from one recursive call to the next.  Blocks are numbered in the order  *)
(* of their creation, in which they are also emitted; an instruction is a  *)
(* record of its opcode, the nodes p and q it stands for, the blocks `to`  *)
(* it names and the values `vals` it holds.  Of instructions without       *)
(* effect only the loads and stores of short-circuit results are kept.     *)
(***************************************************************************)
EXTENDS Statements

CONSTANTS
    Programs,       \* function bodies
    Levels          \* the -O levels to generate code at, 0 or 1

ASSUME ProgramsAssumption == \A t \in Programs : IsBody(t)

VARIABLES
    prog,           \* the function body
    phase,          \* "generate", "sweep", "thread", "run", or how the run ended
    stack,          \* the activations of gen_statement and gen_expression
    blocks,         \* the function's blocks, each with its name and insts
    cur,            \* current_block
    val,            \* the SirValue the last gen_expression returned
    loopCond,       \* current_loop_cond, 0 if NULL
    loopExit,       \* current_loop_exit, 0 if NULL
    threading,      \* block jump threading is at, and whether a round changed any
    machine         \* the run: block, instruction, condition register, slots

generating == <<stack, blocks, cur, val, loopCond, loopExit>>
vars == <<prog, phase, generating, threading, machine>>

-----------------------------------------------------------------------------
(* The builder.  Every operator takes the blocks and returns them changed. *)

Terminators == {"ret", "jmp", "br", "switch", "trap"}

Inst(op, p, to, vals) == [op |-> op, p |-> p, q |-> <<>>, to |-> to, vals |-> vals]

Ends(block) == block.insts # <<>> /\ Last(block.insts).op \in Terminators

\* ir_builder_create_block, for blocks with these names
Create(bs, names) == bs \o [i \in DOMAIN names |-> [name |-> names[i], insts |-> <<>>]]

\* create_inst: after a terminator an instruction is dropped.
EmitAnyway(bs, b, inst) ==  \* A fault: it is appended all the same.
    [bs EXCEPT ![b].insts = Append(@, inst)]

Emit(bs, b, inst) ==
    IF Ends(bs[b]) THEN bs ELSE [bs EXCEPT ![b].insts = Append(@, inst)]

Jmp(bs, b, to) == Emit(bs, b, Inst("jmp", <<>>, <<to>>, <<>>))

\* A value is an immediate constant or the result of an instruction.
Imm(v) == <<"const", v>>
Reg == <<"vreg", 0>>
IsImm(v) == v[1] = "const"

Br(bs, b, v, true, false) ==
    IF IsImm(v) THEN Jmp(bs, b, IF v[2] = 1 THEN true ELSE false)
    ELSE IF true = false THEN Jmp(bs, b, true)
    ELSE Emit(bs, b, Inst("br", <<>>, <<true, false>>, <<>>))

Switch(bs, b, v, default, vals, targets) ==
    IF IsImm(v)
    THEN LET i == SelectInSeq(vals, LAMBDA c : c = v[2])
         IN  Jmp(bs, b, IF i = 0 THEN default ELSE targets[i])
    ELSE Emit(bs, b, Inst("switch", <<>>, <<default>> \o targets, vals))

\* ir_builder_get_or_create_label_block; 0 if there is no such block yet
LabelBlock(bs, l) == SelectInSeq(bs, LAMBDA b : b.name = <<"lbl", l>>)

Block(name) == <<name, "">>

-----------------------------------------------------------------------------
(* Activations.                                                            *)

\* An activation holds its argument, the blocks it has made, and the loop
\* targets it has put aside.
Activation(p, stmt) ==
    [path |-> p, stmt |-> stmt, stage |-> "enter", made |-> <<>>, outer |-> <<>>]

Top == Last(stack)
Node == Top.stmt
Made == Top.made

Gen(op, stage) ==
    /\ phase = "generate" /\ stack # <<>>
    /\ Top.stage = stage /\ Node.op = op

\* The activation at the top calls gen_... for its k-th part; when that
\* returns it is at this stage.
CallAs(frame, k) ==
    stack' = Append(Append(Front(stack), frame), Activation(Kid(Top.path, k), Node.kids[k]))

Call(k, stage) == CallAs([Top EXCEPT !.stage = stage], k)

CallWith(k, stage, made) == CallAs([Top EXCEPT !.stage = stage, !.made = made], k)

Return == stack' = Front(stack)

Build(bs, b) == blocks' = bs /\ cur' = b

KeepLoops == UNCHANGED <<loopCond, loopExit>>

Rest == UNCHANGED <<prog, phase, threading, machine>>

\* The end of a case, and a label met on the way: jump there unless the block
\* has ended.  (The lists of terminators tested leave SIR_SWITCH out, but what
\* they let through create_inst would drop.)
Close(bs, b, exit) == Jmp(bs, b, exit)

N == Len(blocks)

-----------------------------------------------------------------------------
(* Expressions: gen_expression.                                            *)

GenEffect ==
    /\ \E op \in {"do", "assign", "any", "pick"} : Gen(op, "enter")
    /\ Build(Emit(blocks, cur, Inst("eval", Top.path, <<>>, <<>>)), cur)
    /\ val' = Reg
    /\ Return /\ KeepLoops /\ Rest

GenConst ==
    /\ Gen("const", "enter")
    /\ val' = Imm(Node.vals[1])
    /\ Build(blocks, cur)
    /\ Return /\ KeepLoops /\ Rest

GenNothing ==
    /\ Gen("none", "enter")
    /\ Build(blocks, cur)
    /\ Return /\ KeepLoops /\ Rest
    /\ UNCHANGED val

\* Short-circuit evaluation: the left operand ...
GenLogic ==
    /\ \E op \in {"and", "or"} : Gen(op, "enter")
    /\ Build(Create(blocks, <<Block("logic.dextra"), Block("logic.exitus")>>), cur)
    /\ CallWith(1, "left", <<N + 1, N + 2>>)
    /\ UNCHANGED val /\ KeepLoops /\ Rest

\* ... is stored and decides, by a branch, whether the right one ...
GenLogicLeft ==
    /\ \E op \in {"and", "or"} : Gen(op, "left")
    /\ LET right == Made[1]
           merge == Made[2]
           stored == Emit(blocks, cur, Inst("store", <<>>, <<merge>>, <<val>>))
       IN  Build(IF Node.op = "and" THEN Br(stored, cur, val, right, merge)
                                    ELSE Br(stored, cur, val, merge, right), right)
    /\ Call(2, "right")
    /\ UNCHANGED val /\ KeepLoops /\ Rest

\* ... is stored over it; the result is loaded where the ways meet.
GenLogicRight ==
    /\ \E op \in {"and", "or"} : Gen(op, "right")
    /\ LET merge == Made[2]
           stored == Emit(blocks, cur, Inst("store", <<>>, <<merge>>, <<val>>))
       IN  Build(Emit(Jmp(stored, cur, merge), merge, Inst("load", <<>>, <<merge>>, <<>>)), merge)
    /\ val' = Reg
    /\ Return /\ KeepLoops /\ Rest

-----------------------------------------------------------------------------
(* Statements: gen_statement.                                              *)

\* A block calls gen_statement for each statement; `made` counts them.
GenBlock ==
    /\ Gen("block", "enter")
    /\ LET i == Len(Made) + 1
       IN  IF i \in DOMAIN Node.kids THEN CallWith(i, "enter", Append(Made, i)) ELSE Return
    /\ Build(blocks, cur)
    /\ UNCHANGED val /\ KeepLoops /\ Rest

GenReturn ==
    /\ Gen("return", "enter")
    /\ Build(Emit(blocks, cur, Inst("ret", Top.path, <<>>, <<>>)), cur)
    /\ Return /\ UNCHANGED val /\ KeepLoops /\ Rest

GenTrap ==
    /\ Gen("trap", "enter")
    /\ Build(Emit(blocks, cur, Inst("trap", Top.path, <<>>, <<>>)), cur)
    /\ Return /\ UNCHANGED val /\ KeepLoops /\ Rest

\* is_simple_assign looks through a block of one statement.
Simple(p) ==
    LET n == NodeAt(prog, p)
    IN  IF n.op = "block" /\ Len(n.kids) = 1 THEN Kid(p, 1) ELSE p

Then == Simple(Kid(Top.path, 2))
Else == Simple(Kid(Top.path, 3))

\* Both branches only assign to the same variable.
IsSelect ==
    /\ Len(Node.kids) = 3
    /\ NodeAt(prog, Then).op = "assign" /\ NodeAt(prog, Else).op = "assign"
    /\ NodeAt(prog, Then).name = NodeAt(prog, Else).name

GenIf ==
    /\ Gen("if", "enter")
    /\ Build(blocks, cur)
    /\ Call(1, "condition")
    /\ UNCHANGED val /\ KeepLoops /\ Rest

\* A conditional move and a store instead of two branches.
GenSelect ==
    /\ Gen("if", "condition") /\ IsSelect
    /\ Build(Emit(blocks, cur,
                  IF IsImm(val)
                  THEN Inst("eval", IF val[2] = 1 THEN Then ELSE Else, <<>>, <<>>)
                  ELSE [Inst("select", Then, <<>>, <<>>) EXCEPT !.q = Else]), cur)
    /\ Return /\ UNCHANGED val /\ KeepLoops /\ Rest

\* The condition is known: only the branch taken is generated.
GenIfKnown ==
    /\ Gen("if", "condition") /\ ~IsSelect /\ IsImm(val)
    /\ LET k == 3 - val[2]
       IN  IF k \in DOMAIN Node.kids THEN Call(k, "known") ELSE Return
    /\ Build(blocks, cur)
    /\ UNCHANGED val /\ KeepLoops /\ Rest

\* No code is generated for the node at p of t: it is in the branch that the constant
\* condition of an if rules out.
Skipped(t, p) ==
    \E i \in 0..(Len(p) - 1) :
        LET n == NodeAt(t, SubSeq(p, 1, i))
        IN  /\ n.op = "if" /\ n.kids[1].op = "const"
            /\ p[i + 1] \notin {1, 3 - n.kids[1].vals[1]}

GenIfBranches ==
    /\ Gen("if", "condition") /\ ~IsSelect /\ ~IsImm(val)
    /\ LET hasElse == Len(Node.kids) = 3
           names == IF hasElse
                    THEN <<Block("si.verum"), Block("si.falsum"), Block("si.exitus")>>
                    ELSE <<Block("si.verum"), Block("si.exitus")>>
           merge == N + Len(names)
       IN  /\ Build(Br(Create(blocks, names), cur, val, N + 1, N + 2), N + 1)
           /\ CallWith(2, "then", <<N + 2, merge>>)
    /\ UNCHANGED val /\ KeepLoops /\ Rest

GenIfThen ==
    /\ Gen("if", "then")
    /\ Build(Jmp(blocks, cur, Made[2]), Made[1])
    /\ IF Len(Node.kids) = 3 THEN Call(3, "else") ELSE Return
    /\ UNCHANGED val /\ KeepLoops /\ Rest

GenIfElse ==
    /\ Gen("if", "else")
    /\ Build(Jmp(blocks, cur, Made[2]), Made[2])
    /\ Return /\ UNCHANGED val /\ KeepLoops /\ Rest

GenIfDone ==
    /\ Gen("if", "known")
    /\ Build(blocks, cur)
    /\ Return /\ UNCHANGED val /\ KeepLoops /\ Rest

\* Entering a loop: the targets of break and continue are set, those of
\* the surrounding loop are put aside.
Loop(cond, exit) == loopCond' = cond /\ loopExit' = exit

LoopFrame(stage, made) ==
    [Top EXCEPT !.stage = stage, !.made = made, !.outer = <<loopCond, loopExit>>]

GenWhile ==
    /\ Gen("while", "enter")
    /\ LET names == <<Block("dum.corpus"), Block("dum.cond"), Block("dum.exitus")>>
       IN  Build(Jmp(Create(blocks, names), cur, N + 2), N + 1)
    /\ Loop(N + 2, N + 3)
    /\ CallAs(LoopFrame("body", <<N + 1, N + 2, N + 3>>), 2)
    /\ UNCHANGED val /\ Rest

GenWhileBody ==
    /\ Gen("while", "body")
    /\ Build(Jmp(blocks, cur, Made[2]), Made[2])
    /\ Call(1, "condition")
    /\ UNCHANGED val /\ KeepLoops /\ Rest

\* The end of a loop or switch: the targets put aside are valid again.
LoopEndForgetful(bs, exit) ==  \* A fault: they are not restored.
    /\ Build(bs, exit)
    /\ KeepLoops
    /\ Return /\ UNCHANGED val /\ Rest

LoopEnd(bs, exit) ==
    /\ Build(bs, exit)
    /\ Loop(Top.outer[1], Top.outer[2])
    /\ Return /\ UNCHANGED val /\ Rest

GenWhileTest ==
    /\ Gen("while", "condition")
    /\ LoopEnd(IF val = Imm(0) THEN Jmp(blocks, cur, Made[3])
               ELSE Br(blocks, cur, val, Made[1], Made[3]), Made[3])

\* The initialiser, if there is one, comes before the blocks.
GenFor ==
    /\ Gen("for", "enter")
    /\ Build(blocks, cur)
    /\ Call(1, "blocks")
    /\ UNCHANGED val /\ KeepLoops /\ Rest

\* continue goes to the increment.
GenForBlocks ==
    /\ Gen("for", "blocks")
    /\ LET names == <<Block("per.corpus"), Block("per.inc"),
                      Block("per.cond"), Block("per.exitus")>>
       IN  Build(Jmp(Create(blocks, names), cur, N + 3), N + 1)
    /\ Loop(N + 2, N + 4)
    /\ CallAs(LoopFrame("body", <<N + 1, N + 2, N + 3, N + 4>>), 4)
    /\ UNCHANGED val /\ Rest

GenForBody ==
    /\ Gen("for", "body")
    /\ Build(Jmp(blocks, cur, Made[2]), Made[2])
    /\ Call(3, "increment")
    /\ UNCHANGED val /\ KeepLoops /\ Rest

GenForIncrement ==
    /\ Gen("for", "increment")
    /\ Build(Jmp(blocks, cur, Made[3]), Made[3])
    /\ Call(2, "condition")
    /\ UNCHANGED val /\ KeepLoops /\ Rest

GenForTest ==
    /\ Gen("for", "condition")
    /\ LoopEnd(CASE Node.kids[2].op = "none" -> Jmp(blocks, cur, Made[1])
                 [] OTHER -> IF val = Imm(0) THEN Jmp(blocks, cur, Made[4])
                             ELSE Br(blocks, cur, val, Made[1], Made[4]), Made[4])

GenBreak ==
    /\ Gen("break", "enter")
    /\ Build(IF loopExit # 0 THEN Jmp(blocks, cur, loopExit) ELSE blocks, cur)
    /\ Return /\ UNCHANGED val /\ KeepLoops /\ Rest

GenContinue ==
    /\ Gen("continue", "enter")
    /\ Build(IF loopCond # 0 THEN Jmp(blocks, cur, loopCond) ELSE blocks, cur)
    /\ Return /\ UNCHANGED val /\ KeepLoops /\ Rest

\* The blocks with one for label l among them.
WithLabel(bs, l) == IF LabelBlock(bs, l) # 0 THEN bs ELSE Create(bs, <<<<"lbl", l>>>>)

GenGoto ==
    /\ Gen("goto", "enter")
    /\ LET labelled == WithLabel(blocks, Node.name)
           jumped == Jmp(labelled, cur, LabelBlock(labelled, Node.name))
       IN  Build(Create(jumped, <<Block("post_sali")>>), Len(jumped) + 1)
    /\ Return /\ UNCHANGED val /\ KeepLoops /\ Rest

GenLabel ==
    /\ Gen("label", "enter")
    /\ LET labelled == WithLabel(blocks, Node.name)
           here == LabelBlock(labelled, Node.name)
       IN  Build(Close(labelled, cur, here), here)
    /\ Return /\ UNCHANGED val /\ KeepLoops /\ Rest

GenSwitch ==
    /\ Gen("switch", "enter")
    /\ Build(blocks, cur)
    /\ Call(1, "cases")
    /\ UNCHANGED val /\ KeepLoops /\ Rest

\* One block for the default, one for the exit and one for each case; every
\* value of a case leads to the case's block.  Made: the blocks of default
\* and exit, and how many cases have been generated.
GenSwitchCases ==
    /\ Gen("switch", "cases")
    /\ LET names == <<Block("elige.aliter"), Block("elige.exitus")>>
                    \o [i \in DOMAIN Node.vals |-> Block("elige.casus")]
           ToCase(i) == [j \in DOMAIN Node.vals[i] |-> N + 2 + i]
           targets == FlattenSeq([i \in DOMAIN Node.vals |-> ToCase(i)])
       IN  Build(Switch(Create(blocks, names), cur, val, N + 1, FlattenSeq(Node.vals), targets), cur)
    /\ Loop(loopCond, N + 2)
    /\ stack' = Append(Front(stack), LoopFrame("case", <<N + 1, N + 2, 0>>))
    /\ UNCHANGED val /\ Rest

\* A case that ends without a jump goes to the exit.
CasesClosed == IF Made[3] = 0 THEN blocks ELSE Close(blocks, cur, Made[2])

GenSwitchCase ==
    /\ Gen("switch", "case") /\ Made[3] < Len(Node.vals)
    /\ Build(CasesClosed, Made[2] + Made[3] + 1)
    /\ CallWith(Made[3] + 2, "case", [Made EXCEPT ![3] = @ + 1])
    /\ UNCHANGED val /\ KeepLoops /\ Rest

GenSwitchDefault ==
    /\ Gen("switch", "case") /\ Made[3] = Len(Node.vals)
    /\ HasDefault(Node)
    /\ Build(CasesClosed, Made[1])
    /\ Call(Len(Node.kids), "default")
    /\ UNCHANGED val /\ KeepLoops /\ Rest

GenSwitchExit ==
    \/ /\ Gen("switch", "case") /\ Made[3] = Len(Node.vals)
       /\ ~HasDefault(Node)
       /\ LoopEnd(Close(CasesClosed, Made[1], Made[2]), Made[2])
    \/ /\ Gen("switch", "default")
       /\ LoopEnd(Close(blocks, cur, Made[2]), Made[2])

GenStatement ==
    \/ GenBlock \/ GenReturn \/ GenTrap
    \/ GenIf \/ GenSelect \/ GenIfKnown \/ GenIfBranches \/ GenIfThen \/ GenIfElse \/ GenIfDone
    \/ GenWhile \/ GenWhileBody \/ GenWhileTest
    \/ GenFor \/ GenForBlocks \/ GenForBody \/ GenForIncrement \/ GenForTest
    \/ GenBreak \/ GenContinue \/ GenGoto \/ GenLabel
    \/ GenSwitch \/ GenSwitchCases \/ GenSwitchCase \/ GenSwitchDefault \/ GenSwitchExit

GenExpression ==
    \/ GenEffect \/ GenConst \/ GenNothing
    \/ GenLogic \/ GenLogicLeft \/ GenLogicRight

\* A body that does not end with a return gets one; that the last
\* instruction may be a jump is left to create_inst.
FinishFunction ==
    /\ phase = "generate" /\ stack = <<>>
    /\ blocks' = Emit(blocks, cur, Inst("ret", <<>>, <<>>, <<>>))
    /\ \E level \in Levels : phase' = IF level = 0 THEN "run" ELSE "sweep"
    /\ machine' = [machine EXCEPT !.slots = [b \in DOMAIN blocks |-> 0]]
    /\ UNCHANGED <<prog, stack, cur, val, loopCond, loopExit, threading>>

-----------------------------------------------------------------------------
(* ir_optimize_module at -O1.                                              *)

\* Dead code: a short-circuit result nothing reads.  Its load is the first
\* instruction of its block, and only the next one could read it.
Unread(insts) ==
    /\ insts # <<>> /\ insts[1].op = "load"
    /\ ~ /\ Len(insts) > 1
         /\ insts[2].op \in {"br", "switch", "select", "store"}
         /\ insts[2].op = "store" => insts[2].vals = <<Reg>>

Sweep ==
    /\ phase = "sweep"
    /\ blocks' = [b \in DOMAIN blocks |->
                    IF Unread(blocks[b].insts)
                    THEN [blocks[b] EXCEPT !.insts = Tail(@)]
                    ELSE blocks[b]]
    /\ phase' = "thread"
    /\ UNCHANGED <<prog, stack, cur, val, loopCond, loopExit, threading, machine>>

\* A target that only jumps on, seen from block b
OnlyJumps(b, to) ==
    /\ to # b
    /\ Len(blocks[to].insts) = 1
    /\ blocks[to].insts[1].op = "jmp"

Past(b, to) == IF OnlyJumps(b, to) THEN blocks[to].insts[1].to[1] ELSE to

Threaded(b) ==
    [i \in DOMAIN blocks[b].insts |->
        LET inst == blocks[b].insts[i]
        IN  IF inst.op \in {"jmp", "br", "switch"}
            THEN [inst EXCEPT !.to = [j \in DOMAIN inst.to |-> Past(b, inst.to[j])]]
            ELSE inst]

\* Whether a target of block b changes.
ChangesWheneverThreaded(b) ==  \* A fault: also if the new target is the old one.
    \E inst \in Range(blocks[b].insts) :
        inst.op \in {"jmp", "br", "switch"} /\ \E to \in Range(inst.to) : OnlyJumps(b, to)

Changes(b) == Threaded(b) # blocks[b].insts

\* Jump threading takes the blocks in order, again and again until a round
\* changes nothing.
ThreadJumps ==
    /\ phase = "thread"
    /\ LET b == threading.block
           changed == threading.changed \/ Changes(b)
           last == b = Len(blocks)
       IN  /\ blocks' = [blocks EXCEPT ![b].insts = Threaded(b)]
           /\ threading' = [block |-> IF last THEN 1 ELSE b + 1, changed |-> ~last /\ changed]
           /\ phase' = IF last /\ ~changed THEN "run" ELSE phase
    /\ UNCHANGED <<prog, stack, cur, val, loopCond, loopExit, machine>>

-----------------------------------------------------------------------------
(* The run.  A block without a terminator falls through to the next one.   *)

Machines == [block : Nat, inst : Nat, reg : Int, slots : Seq(Int)]

Insts(m) == blocks[m.block].insts
InstAt(m) == Insts(m)[m.inst]

Astray(m) == m.block > Len(blocks)

AtSilent(m) ==
    /\ ~Astray(m)
    /\ m.inst > Len(Insts(m)) \/ InstAt(m).op \in {"jmp", "br", "switch", "store", "load"}

Jumped(m, b) == [m EXCEPT !.block = b, !.inst = 1]

\* Over one instruction without effect.
MovedOn(m) ==
    LET inst == InstAt(m)
        i == SelectInSeq(inst.vals, LAMBDA v : v = m.reg)
        past == [m EXCEPT !.inst = @ + 1]
    IN  IF m.inst > Len(Insts(m)) THEN Jumped(m, m.block + 1)
        ELSE CASE inst.op = "jmp" -> Jumped(m, inst.to[1])
               [] inst.op = "br" -> Jumped(m, inst.to[2 - m.reg])
               [] inst.op = "switch" -> Jumped(m, inst.to[i + 1])
               [] inst.op = "load" -> [past EXCEPT !.reg = m.slots[inst.to[1]]]
               [] inst.op = "store" ->
                    [past EXCEPT !.slots[inst.to[1]] =
                        IF IsImm(inst.vals[1]) THEN inst.vals[1][2] ELSE m.reg]

\* Up to the next instruction that has an effect.
Settled(m) ==
    LET on[q \in Machines, i \in 0..Fuel] ==
            IF AtSilent(q) /\ i > 0 THEN on[MovedOn(q), i - 1] ELSE q
    IN  on[m, Fuel]

\* The node whose effect comes next, or how the run ends.
EffectAt[m \in Machines] ==
    LET inst == InstAt(m)
    IN  CASE Astray(m) -> <<"astray", <<>>>>
          [] ~Astray(m) /\ AtSilent(m) -> <<"diverges", <<>>>>
          [] OTHER -> CASE inst.op = "select" -> <<"at", IF m.reg = 1 THEN inst.p ELSE inst.q>>
                        [] inst.op = "ret" /\ inst.p = <<>> -> <<"returned", <<>>>>
                        [] OTHER -> <<"at", inst.p>>

MachineEffect == EffectAt[Settled(machine)]

Execute ==
    /\ phase = "run" /\ MachineEffect[1] = "at"
    /\ LET m == Settled(machine)
           op == InstAt(m).op
           outcomes == IF op = "eval" THEN Outcomes(NodeAt(prog, InstAt(m).p)) ELSE {0}
       IN  CASE op = "ret" -> phase' = "returned" /\ UNCHANGED machine
             [] op = "trap" -> phase' = "trapped" /\ UNCHANGED machine
             [] OTHER -> /\ \E v \in outcomes : machine' = [m EXCEPT !.inst = @ + 1, !.reg = v]
                         /\ UNCHANGED phase
    /\ UNCHANGED <<prog, generating, threading>>

-----------------------------------------------------------------------------
Init ==
    /\ prog \in Programs
    /\ phase = "generate"
    /\ stack = <<Activation(<<>>, prog)>>
    /\ blocks = Create(<<>>, <<Block("ingressus")>>)
    /\ cur = 1 /\ val = Reg
    /\ loopCond = 0 /\ loopExit = 0
    /\ threading = [block |-> 1, changed |-> FALSE]
    /\ machine = [block |-> 1, inst |-> 1, reg |-> 0, slots |-> <<>>]

Next ==
    \/ GenStatement \/ GenExpression \/ FinishFunction
    \/ Sweep \/ ThreadJumps
    \/ Execute

\* The compiler is one sequential process.
Spec == Init /\ [][Next]_vars /\ WF_vars(Next)

-----------------------------------------------------------------------------
Generated == phase \notin {"generate", "sweep", "thread"}

effect ==
    CASE phase = "run" -> MachineEffect
      [] phase \in {"returned", "trapped"} -> <<phase, <<>>>>
      [] OTHER -> Start(prog)

Meaning == INSTANCE BodySpec WITH at <- effect

\* The generated code performs the effects of the source in the order of
\* the source, whatever conditions and values turn out to be: no statement
\* is skipped, repeated or run that the source does not reach
\* (gen_statement, ir_build_br, ir_build_switch, create_inst, and jump
\* threading together).
Implements == Meaning!Spec

\* Every block of the finished function ends with a jump or a return, and nothing
\* follows one in its block.  However much code stands behind a break, goto or
\* return in the source, create_inst drops it (ir_builder.c:212) and no pass brings
\* it back; and what the ends of labels, cases and loops add, when they do, and
\* what the end of the function adds, is exactly what is missing
\* (docs/IR_DESIGN.md:24).
BlocksEndOnce ==
    \A b \in DOMAIN blocks :
        /\ \A i \in DOMAIN blocks[b].insts :
              i # Len(blocks[b].insts) => blocks[b].insts[i].op \notin Terminators
        /\ phase # "generate" => Ends(blocks[b])

\* Every goto leads to a label that code is generated for.  A label in a branch that is
\* left out keeps the empty block its goto has made.
GotosLead(t) ==
    \A p \in Paths(t) : NodeAt(t, p).op = "goto" /\ ~Skipped(t, p) =>
        \E q \in Labels(t, NodeAt(t, p).name) : ~Skipped(t, q)

\* Generation and jump threading come to an end, for bodies with loops of
\* empty blocks and gotos that lead round in circles too.
Finishes == <>Generated
=============================================================================
