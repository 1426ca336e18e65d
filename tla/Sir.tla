-------------------------------- MODULE Sir ---------------------------------
(***************************************************************************)
(* SIR, the intermediate language (ir/sir.h), and what running it means.   *)
(*                                                                         *)
(* A module is a sequence of functions, a function has a name, a sequence  *)
(* of blocks and perhaps a fast path, a block an id and a sequence of      *)
(* instructions, an instruction an opcode, the vreg it defines (0 for      *)
(* none) and its operands.  An operand is a pair:                          *)
(*     <<"v", n>>  virtual register n      <<"b", n>>  the block with id n *)
(*     <<"int", k>>, <<"bool", k>>         constants                       *)
(*     <<"f", name>>                       a function                      *)
(* Integers are unbounded, there is one integer type besides bool, memory  *)
(* is the slots of allocas, which have no size.  A function that is not in *)
(* the module is external: calling it is an effect, it returns the input.  *)
(***************************************************************************)
EXTENDS Integers, Sequences, SequencesExt

CONSTANT Fuel       \* a run of Fuel * Fuel steps is taken to be endless

ASSUME FuelAssumption == Fuel \in Nat \ {0}

Arithmetic == {"add", "sub", "mul"}
Comparisons == {"eq", "ne", "lt", "le", "gt", "ge"}

\* What an evaluation at compile time can follow.
Computing == Arithmetic \cup Comparisons \cup {"param", "cast", "select", "call", "jmp", "br", "switch", "ret"}

Opcodes == Computing \cup {"alloca", "load", "store", "trap"}

V(n) == <<"v", n>>
I(k) == <<"int", k>>
B(id) == <<"b", id>>
F(name) == <<"f", name>>
IsV(a) == a[1] = "v"
IsInt(a) == a[1] = "int"
IsBool(a) == a[1] = "bool"

Op(op, dst, args) == [op |-> op, dst |-> dst, args |-> args]

Truth(b) == IF b THEN 1 ELSE 0

Compute(op, l, r) ==
    CASE op = "add" -> l + r
      [] op = "sub" -> l - r
      [] op = "mul" -> l * r
      [] op = "eq" -> Truth(l = r)
      [] op = "ne" -> Truth(l # r)
      [] op = "lt" -> Truth(l < r)
      [] op = "le" -> Truth(l <= r)
      [] op = "gt" -> Truth(l > r)
      [] op = "ge" -> Truth(l >= r)

-----------------------------------------------------------------------------
InstsOf(f) == FlattenSeq([b \in DOMAIN f.blocks |-> f.blocks[b].insts])

VregsIn(args) == {a[2] : a \in {c \in Range(args) : IsV(c)}}

Used(f) == UNION {VregsIn(i.args) : i \in Range(InstsOf(f))}

DefinedIn(f) == {i.dst : i \in Range(InstsOf(f))} \ {0}

\* get_max_vreg
MaxVreg(f) == Max({0} \cup Used(f) \cup DefinedIn(f))

BlockAt(f, id) == SelectInSeq(f.blocks, LAMBDA b : b.id = id)

\* The first function of that name, 0 if there is none.
FunctionAt(m, name) == SelectInSeq(m, LAMBDA f : f.name = name)

Callee(m, inst) == FunctionAt(m, inst.args[1][2])

TargetsOf(inst) == {a[2] : a \in {c \in Range(inst.args) : c[1] = "b"}}

\* Where a switch on v leads, given its operands <<value, default, v1, b1, ...>>.
SwitchTarget(args, v) ==
    LET cases == {i \in 1..((Len(args) - 2) \div 2) : args[2 * i + 1][2] = v}
    IN  IF cases = {} THEN args[2] ELSE args[2 * Min(cases) + 2]

\* A fast path, <<op, immediate, value>>: the function returns its argument
\* at once if comparing it with the immediate gives that value.
NoFastPath == <<>>

TakesFastPath(f, args) ==
    f.fast # NoFastPath /\ Compute(f.fast[1], args[1], f.fast[2]) = f.fast[3]

-----------------------------------------------------------------------------
(* Runs.  `end` is "" while the run goes on.                               *)

Frame(k, args) ==
    [f |-> k, block |-> 1, inst |-> 1, args |-> args, regs |-> <<>>, slots |-> <<>>]

Entered(k, args) == [frames |-> <<Frame(k, args)>>, trace |-> <<>>, end |-> "", result |-> 0]

\* One step of s in module m; external functions return x.
Step(m, x, s) ==
    LET fr == Last(s.frames)
        f == m[fr.f]
        insts == f.blocks[fr.block].insts
        inst == insts[fr.inst]
        args == inst.args
        Val(a) == IF IsV(a) THEN fr.regs[a[2]] ELSE a[2]
        Stop(how) == [s EXCEPT !.end = how]
        With(frame) == [s EXCEPT !.frames[Len(s.frames)] = frame]
        Past(frame, dst, v) ==
            [frame EXCEPT !.inst = @ + 1, !.regs = IF dst = 0 THEN @ ELSE (dst :> v) @@ @]
        Yield(v) == With(Past(fr, inst.dst, v))
        Goto(b) == With([fr EXCEPT !.block = BlockAt(f, b[2]), !.inst = 1])
        Leave(v) ==
            IF Len(s.frames) = 1 THEN [s EXCEPT !.end = "returned", !.result = v]
            ELSE LET to == s.frames[Len(s.frames) - 1]
                     dst == m[to.f].blocks[to.block].insts[to.inst].dst
                 IN  [s EXCEPT !.frames = Append(SubSeq(@, 1, Len(@) - 2), Past(to, dst, v))]
        actual == [i \in 1..(Len(args) - 1) |-> Val(args[i + 1])]
        callee == Callee(m, inst)
    IN  CASE fr.inst > Len(insts) -> Stop("astray")
          [] fr.inst <= Len(insts) /\ ~(VregsIn(args) \subseteq DOMAIN fr.regs) -> Stop("undefined")
          [] OTHER ->
             CASE inst.op = "param" -> Yield(fr.args[args[1][2] + 1])
               [] inst.op \in Arithmetic \cup Comparisons ->
                    Yield(Compute(inst.op, Val(args[1]), Val(args[2])))
               [] inst.op = "cast" -> Yield(Val(args[1]))
               [] inst.op = "select" -> Yield(Val(args[IF Val(args[1]) = 1 THEN 2 ELSE 3]))
               [] inst.op = "alloca" -> Yield(0)
               [] inst.op = "load" ->
                    IF args[1][2] \in DOMAIN fr.slots THEN Yield(fr.slots[args[1][2]])
                    ELSE Stop("undefined")
               [] inst.op = "store" ->
                    With([Past(fr, 0, 0) EXCEPT !.slots = (args[2][2] :> Val(args[1])) @@ @])
               [] inst.op = "call" ->
                    IF callee = 0 THEN [Yield(x) EXCEPT !.trace = Append(@, <<args[1][2], actual>>)]
                    ELSE IF TakesFastPath(m[callee], actual) THEN Yield(actual[1])
                    ELSE [s EXCEPT !.frames = Append(@, Frame(callee, actual))]
               [] inst.op = "jmp" -> Goto(args[1])
               [] inst.op = "br" -> Goto(args[IF Val(args[1]) = 1 THEN 2 ELSE 3])
               [] inst.op = "switch" -> Goto(SwitchTarget(args, Val(args[1])))
               [] inst.op = "trap" -> Stop("trapped")
               [] inst.op = "ret" -> Leave(IF args = <<>> THEN 0 ELSE Val(args[1]))

Running(s) == s.end = ""

\* The next instruction, if the run is at one.
Ahead(m, s) ==
    LET fr == Last(s.frames) IN m[fr.f].blocks[fr.block].insts[fr.inst]

\* The run of function k, stopped where Follows does not hold of the state.
RunWhile(m, k, args, x, Follows(_)) ==
    LET start == IF TakesFastPath(m[k], args)
                 THEN [Entered(k, args) EXCEPT !.end = "returned", !.result = args[1]]
                 ELSE Entered(k, args)
        On(s) == IF ~Running(s) THEN s
                 ELSE IF Follows(s) THEN Step(m, x, s) ELSE [s EXCEPT !.end = "fails"]
        Turn(s) == LET on[i \in 0..Fuel] == IF i = 0 THEN s ELSE On(on[i - 1])
                   IN  IF Running(s) THEN on[Fuel] ELSE s
        turn[i \in 0..Fuel] == IF i = 0 THEN start ELSE Turn(turn[i - 1])
    IN  turn[Fuel]

Run(m, k, args, x) == RunWhile(m, k, args, x, LAMBDA s : TRUE)

\* What can be seen of a run: the calls of external functions, and its end.
Behaviour(m, name, x) ==
    LET s == Run(m, FunctionAt(m, name), <<>>, x) IN <<s.trace, s.end, s.result>>
=============================================================================
