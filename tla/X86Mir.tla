------------------------------- MODULE X86Mir -------------------------------
(***************************************************************************)
(* Instruction selection, x86_mir_build in src/src/backend/x86_mir.c, on   *)
(* top of the register allocator: RegAlloc colours a function, then the    *)
(* machine code selected for it runs beside the SIR it was selected from.  *)
(*                                                                         *)
(* One step executes one SIR instruction twice: vals is what its virtual   *)
(* registers hold, mach what the physical registers and the spill slots    *)
(* hold after the sequence of moves the code emits for it.  Values are     *)
(* tokens.  What an instruction computes is uninterpreted: a fresh token   *)
(* on the SIR side, and the same token on the machine side exactly when    *)
(* the machine instruction consumed the operands the SIR instruction       *)
(* names; otherwise Junk.                                                  *)
(*                                                                         *)
(* Operand widths, immediates that fit an instruction, memory, flags and   *)
(* the XMM argument registers are left out.  get_phys_reg never yields     *)
(* RAX, RCX or RDX, so the tests of the code whether an operand or the     *)
(* destination lives in one of them are folded away.  Operands that are    *)
(* sizes or blocks are not in args, and SIR_SYS_EXIT is never built.       *)
(***************************************************************************)
EXTENDS RegAlloc

(* Registers are numbers: colour c is register c, the three registers      *)
(* never allocated lie below.                                              *)
RAX == -2
RCX == -3
RDX == -4
RSI == 1
RDI == 2
R8  == NumCalleeSaved
R9  == NumCalleeSaved + 1
R10 == NumCalleeSaved + 2
R11 == NumCalleeSaved + 3
ArgRegs == <<RCX, RDX, R8, R9, R10, R11>>
Regs    == {RAX, RCX, RDX} \cup 0..R11

ASSUME RegisterFileAssumption ==
  /\ NumCalleeSaved >= 3
  /\ NumPhysRegs <= NumCalleeSaved + 4

AluOps   == {"SIR_ADD", "SIR_SUB", "SIR_MUL", "SIR_AND", "SIR_OR", "SIR_XOR"}
FloatOps == {"SIR_FADD", "SIR_FSUB", "SIR_FMUL", "SIR_FDIV"}
FixedOps == {"SIR_DIV", "SIR_MOD", "SIR_SHL", "SIR_SHR", "SIR_ICMP", "SIR_FCMP"}
JumpOps  == {"SIR_JMP", "SIR_BR", "SIR_SWITCH"}
MirPlainOps == AluOps \cup FloatOps \cup FixedOps \cup JumpOps \cup
  {"SIR_ALLOCA", "SIR_LOAD", "SIR_STORE", "SIR_GEP", "SIR_CAST", "SIR_SELECT",
   "SIR_GET_PARAM", "SIR_MEMCPY", "SIR_RET", "SIR_TRAP"}

ASSUME MirOpsAssumption == PlainOps = MirPlainOps

(* The shape create_inst gives an instruction: its operands, and for those *)
(* that only act no result.                                                *)
Terminators == JumpOps \cup {"SIR_RET", "SIR_TRAP"}
OneArgOps   == {"SIR_LOAD", "SIR_CAST", "SIR_SYS_ALLOC", "SIR_SYS_FREE"}
TwoArgOps   == AluOps \cup FloatOps \cup FixedOps \cup {"SIR_STORE", "SIR_GEP", "SIR_MEMCPY"}
ThreeArgOps == {"SIR_SELECT", "SIR_SYS_READ", "SIR_SYS_WRITE"}

WellShaped(c) ==
  /\ c.op \in Terminators => Len(c.args) <= 1
  /\ c.op \in OneArgOps => Len(c.args) = 1
  /\ c.op \in TwoArgOps => Len(c.args) = 2
  /\ c.op \in ThreeArgOps => Len(c.args) = 3
  /\ c.op = "SIR_CALL" => Len(c.args) >= 1
  /\ c.op \in Terminators \cup {"SIR_STORE", "SIR_MEMCPY"} => c.dest = NoDest
  /\ c.op # "SIR_SYS_EXIT"

(* Every block ends in its first terminator.                               *)
IsMirFunction(f) ==
  \A b \in 1..f.n :
    /\ f.code[b] # <<>>
    /\ \A i \in DOMAIN f.code[b] :
         /\ WellShaped(f.code[b][i])
         /\ f.code[b][i].op \in Terminators <=> i = Len(f.code[b])

ASSUME MirFunctionAssumption == \A f \in Functions : IsMirFunction(f)

VARIABLES
  stage,     \* "compile", then the code is "running", then it has "returned"
  pc, pi,    \* the block and the instruction about to run
  vals,      \* the values of the virtual registers
  mach,      \* the machine: the registers and the spill slots
  read,      \* the operand values the last machine instruction consumed
  meant      \* the operand values the SIR instruction names

mirVars == <<stage, pc, pi, vals, mach, read, meant>>
allVars == <<vars, mirVars>>

-----------------------------------------------------------------------------
(* Values.                                                                 *)

Junk     == 0
ConstVal == -100
Param(k) == -1 - k

Held  == {vals[v] : v \in Vregs} \cup {mach.reg[r] : r \in Regs}
         \cup {mach.slot[v] : v \in Vregs}
Fresh == CHOOSE t \in 1..(2 * MaxVreg + R11 + 5) :
           t \notin Held /\ \A u \in 1..(t - 1) : u \in Held

Inst == Code(pc)[pi]
Arg(k) == Inst.args[k]

(* The SIR value of operand v.                                             *)
Value(v) == IF v = Const THEN ConstVal ELSE vals[v]
Operands == [k \in DOMAIN Inst.args |-> Value(Arg(k))]

(* The result of an instruction that consumed rd where it meant want.      *)
Out(rd, want) == IF rd = want THEN Fresh ELSE Junk

-----------------------------------------------------------------------------
(* The moves every selection is made of.  m is a machine.                  *)

InReg(v)    == v # Const /\ color[v] # Spilled
RegOf(v, s) == IF InReg(v) THEN color[v] ELSE s
DestReg     == RegOf(Inst.dest, RAX)

Set(m, r, x)     == [m EXCEPT !.reg[r] = x]
Mov(m, dst, src) == Set(m, dst, m.reg[src])

(* load_operand_mir: a coloured vreg stays where it is, everything else is *)
(* brought to the scratch register.                                        *)
Load(m, v, s) ==
  IF InReg(v) THEN m ELSE Set(m, s, IF v = Const THEN ConstVal ELSE m.slot[v])

(* load_operand_mir and a move to r if the operand is not there.           *)
LoadTo(m, v, s, r) == Mov(Load(m, v, s), r, RegOf(v, s))

(* store_result_mir.                                                       *)
Store(m, r) ==
  IF Inst.dest = NoDest THEN m
  ELSE IF InReg(Inst.dest) THEN Mov(m, color[Inst.dest], r)
  ELSE [m EXCEPT !.slot[Inst.dest] = m.reg[r]]

(* What a call leaves of the registers: the callee-saved ones, which the   *)
(* prologue and epilogue of the callee preserve.                           *)
AfterCall(m) ==
  [m EXCEPT !.reg = [r \in Regs |-> IF r \in CalleeSaved THEN m.reg[r] ELSE Junk]]

-----------------------------------------------------------------------------
(* Entering the function: the register arguments are in their registers,   *)
(* the other registers and the frame hold anything.  A vreg read before it *)
(* is defined has whatever value its home happens to hold.                 *)

MaxRegArgs == IF opt >= 2 THEN 6 ELSE 4

AtEntry ==
  [reg |-> [r \in Regs |->
     IF \E k \in 1..MaxRegArgs : ArgRegs[k] = r
     THEN Param((CHOOSE k \in 1..MaxRegArgs : ArgRegs[k] = r) - 1) ELSE Junk],
   slot |-> [v \in Vregs |-> Junk]]

Home(m, v) == IF color[v] # Spilled THEN m.reg[color[v]] ELSE m.slot[v]

MirInit ==
  /\ Init
  /\ stage = "compile"
  /\ pc = 0 /\ pi = 0
  /\ vals = [v \in Vregs |-> Junk]
  /\ mach = [reg |-> [r \in Regs |-> Junk], slot |-> [v \in Vregs |-> Junk]]
  /\ read = <<>> /\ meant = <<>>

Allocate == stage = "compile" /\ Next /\ UNCHANGED mirVars

Enter ==
  /\ stage = "compile" /\ phase = "done"
  /\ stage' = "running"
  /\ pc' = 1 /\ pi' = 1
  /\ mach' = AtEntry
  /\ vals' = [v \in Vregs |-> Home(AtEntry, v)]
  /\ UNCHANGED <<read, meant, vars>>

-----------------------------------------------------------------------------
(* One action per opcode.                                                  *)

At(ops) == stage = "running" /\ Inst.op \in ops

(* The instruction is done: the machine is m, it consumed rd where it      *)
(* meant want, and its virtual destination holds result.                   *)
Finish(m, rd, want, result) ==
  /\ mach' = m /\ read' = rd /\ meant' = want
  /\ vals' = IF Inst.dest = NoDest THEN vals ELSE [vals EXCEPT ![Inst.dest] = result]
  /\ pi' = pi + 1
  /\ UNCHANGED <<stage, pc, vars>>

Alloca ==
  /\ At({"SIR_ALLOCA"})
  /\ LET m1 == Set(mach, DestReg, Fresh)
     IN  Finish(Store(m1, DestReg), Operands, Operands, Fresh)

LoadMem ==
  /\ At({"SIR_LOAD"})
  /\ LET m1 == Load(mach, Arg(1), RCX)
         rd == <<m1.reg[RegOf(Arg(1), RCX)]>>
         m2 == Set(m1, DestReg, Out(rd, Operands))
     IN  Finish(Store(m2, DestReg), rd, Operands, Fresh)

StoreMem ==
  /\ At({"SIR_STORE"})
  /\ LET m1 == Load(mach, Arg(1), RAX)
         m2 == Load(m1, Arg(2), RCX)
     IN  Finish(m2, <<m2.reg[RegOf(Arg(1), RAX)], m2.reg[RegOf(Arg(2), RCX)]>>,
                Operands, Fresh)

(* A fault: the left operand is always worked on in the destination, even  *)
(* when the right one lives there.                                         *)
WorkRegAlwaysDest == DestReg

(* The destination, unless the right operand lives there.                  *)
WorkReg ==
  IF RegOf(Arg(2), Spilled) = DestReg THEN RAX ELSE DestReg

Alu ==
  /\ At(AluOps)
  /\ LET m1 == LoadTo(mach, Arg(1), WorkReg, WorkReg)
         m2 == Load(m1, Arg(2), RCX)
         rd == <<m2.reg[WorkReg], m2.reg[RegOf(Arg(2), RCX)]>>
         m3 == Mov(Set(m2, WorkReg, Out(rd, Operands)), DestReg, WorkReg)
     IN  Finish(Store(m3, DestReg), rd, Operands, Fresh)

(* Both operands moved to RAX and RCX, which fixed-register instructions   *)
(* work on; the result appears in res.                                     *)
ViaRaxRcx(res) ==
  LET m1 == Load(Load(mach, Arg(1), RAX), Arg(2), RCX)
      m2 == Mov(Mov(m1, RAX, RegOf(Arg(1), RAX)), RCX, RegOf(Arg(2), RCX))
      rd == <<m2.reg[RAX], m2.reg[RCX]>>
  IN  Finish(Store(Set(m2, res, Out(rd, Operands)), res), rd, Operands, Fresh)

DivMod == At({"SIR_DIV", "SIR_MOD"}) /\ ViaRaxRcx(IF Inst.op = "SIR_MOD" THEN RDX ELSE RAX)
Shift  == At({"SIR_SHL", "SIR_SHR"}) /\ ViaRaxRcx(RAX)
FCmp   == At({"SIR_FCMP"}) /\ ViaRaxRcx(RAX)

(* An integer comparison is made where the operands are; the result is set *)
(* in RAX.                                                                 *)
ICmp ==
  /\ At({"SIR_ICMP"})
  /\ LET m1 == Load(Load(mach, Arg(1), RAX), Arg(2), RCX)
         rd == <<m1.reg[RegOf(Arg(1), RAX)], m1.reg[RegOf(Arg(2), RCX)]>>
     IN  Finish(Store(Set(m1, RAX, Out(rd, Operands)), RAX), rd, Operands, Fresh)

(* Float arithmetic: into XMM0 and XMM1 straight from where the operands   *)
(* are when the right one lives in the destination, else through the       *)
(* destination and a scratch register.                                     *)
FloatArith ==
  /\ At(FloatOps)
  /\ LET m1    == Load(mach, Arg(1), WorkReg)
         left  == RegOf(Arg(1), WorkReg)
         m2    == Load(m1, Arg(2), RCX)
         right == RegOf(Arg(2), RCX)
         m3    == Mov(Mov(m2, DestReg, left), RCX, right)
         m4    == IF right = DestReg /\ left # DestReg THEN m2 ELSE m3
         rd    == IF right = DestReg /\ left # DestReg
                  THEN <<m2.reg[left], m2.reg[right]>>
                  ELSE <<m3.reg[DestReg], m3.reg[RCX]>>
     IN  Finish(Store(Set(m4, DestReg, Out(rd, Operands)), DestReg), rd, Operands, Fresh)

(* Element address with a constant index: one LEA from the base.           *)
GepConst ==
  /\ At({"SIR_GEP"}) /\ Arg(2) = Const
  /\ LET m1 == Load(mach, Arg(1), DestReg)
         rd == <<m1.reg[RegOf(Arg(1), DestReg)], ConstVal>>
     IN  Finish(Store(Set(m1, DestReg, Out(rd, Operands)), DestReg), rd, Operands, Fresh)

(* Element address with a variable index: the base goes to the             *)
(* destination, the index to a scratch register, in the order that         *)
(* overwrites neither.                                                     *)
GepVar ==
  /\ At({"SIR_GEP"}) /\ Arg(2) # Const
  /\ LET pscr == IF DestReg = RAX THEN RCX ELSE RAX
         m1   == Load(mach, Arg(1), pscr)
         ptr  == RegOf(Arg(1), pscr)
         iscr == IF ptr = RCX THEN RDX ELSE RCX
         m2   == Load(m1, Arg(2), iscr)
         idx  == RegOf(Arg(2), iscr)
         m3   == IF idx = DestReg /\ ptr # DestReg
                 THEN Mov(Mov(m2, iscr, idx), DestReg, ptr)
                 ELSE Mov(Mov(m2, DestReg, ptr), iscr, idx)
         rd   == <<m3.reg[DestReg], m3.reg[iscr]>>
     IN  Finish(Store(Set(m3, DestReg, Out(rd, Operands)), DestReg), rd, Operands, Fresh)

Cast ==
  /\ At({"SIR_CAST"})
  /\ LET m1 == LoadTo(mach, Arg(1), RAX, RAX)
         rd == <<m1.reg[RAX]>>
     IN  Finish(Store(Set(m1, RAX, Out(rd, Operands)), RAX), rd, Operands, Fresh)

(* A fault: RSI and RDI are filled one after the other even when each     *)
(* holds the other's operand.                                              *)
CopyOperandsNoSwap(m, dst, src) ==
  IF src = RDI THEN Mov(Mov(m, RSI, src), RDI, dst) ELSE Mov(Mov(m, RDI, dst), RSI, src)

(* The operands of a block copy, dst and src, go to RDI and RSI.           *)
CopyOperands(m, dst, src) ==
  IF dst = RSI /\ src = RDI THEN Set(Set(m, RDI, m.reg[RSI]), RSI, m.reg[RDI])
  ELSE IF src = RDI THEN Mov(Mov(m, RSI, src), RDI, dst)
  ELSE Mov(Mov(m, RDI, dst), RSI, src)

(* A fault: the pops after the copy are missing.                           *)
MemcpyNoPops ==
  /\ At({"SIR_MEMCPY"})
  /\ LET m1 == Load(Load(mach, Arg(1), RAX), Arg(2), RDX)
         m2 == CopyOperands(m1, RegOf(Arg(1), RAX), RegOf(Arg(2), RDX))
     IN  Finish(m2, <<m2.reg[RDI], m2.reg[RSI]>>, Operands, Fresh)

(* The copy runs between pushes and pops of RDI, RSI and RCX: nothing      *)
(* else sees its operands there.                                           *)
Memcpy ==
  /\ At({"SIR_MEMCPY"})
  /\ LET m1 == Load(Load(mach, Arg(1), RAX), Arg(2), RDX)
         m2 == CopyOperands(m1, RegOf(Arg(1), RAX), RegOf(Arg(2), RDX))
     IN  Finish(m1, <<m2.reg[RDI], m2.reg[RSI]>>, Operands, Fresh)

(* A conditional move with a known condition: the operand it picks.        *)
SelectConst ==
  /\ At({"SIR_SELECT"}) /\ Arg(1) = Const
  /\ LET chosen == IF Inst.imm = 1 THEN Arg(2) ELSE Arg(3)
         want   == <<Value(chosen)>>
         m1     == LoadTo(mach, chosen, DestReg, DestReg)
         rd     == <<m1.reg[DestReg]>>
     IN  Finish(Store(Set(m1, DestReg, Out(rd, want)), DestReg), rd, want, Fresh)

(* A conditional move: the condition is kept out of the destination and of *)
(* RCX in R8 or R9, which the allocator also gives out; the operand that   *)
(* sits in the destination is moved first.                                 *)
SelectVar ==
  /\ At({"SIR_SELECT"}) /\ Arg(1) # Const
  /\ LET cscr == IF DestReg = R8 THEN R9 ELSE R8
         m1   == Load(mach, Arg(1), cscr)
         m2   == IF RegOf(Arg(1), cscr) = DestReg THEN Mov(m1, cscr, DestReg) ELSE m1
         cond == IF RegOf(Arg(1), cscr) = DestReg THEN cscr ELSE RegOf(Arg(1), cscr)
         m3   == IF RegOf(Arg(2), Spilled) = DestReg
                 THEN LoadTo(LoadTo(m2, Arg(2), RCX, RCX), Arg(3), DestReg, DestReg)
                 ELSE LoadTo(LoadTo(m2, Arg(3), DestReg, DestReg), Arg(2), RCX, RCX)
         rd   == <<m3.reg[cond], m3.reg[RCX], m3.reg[DestReg]>>
     IN  Finish(Store(Set(m3, DestReg, Out(rd, Operands)), DestReg), rd, Operands, Fresh)

(* The parameter in a register is stored straight from it, at whatever     *)
(* point of the function the instruction stands.                           *)
GetRegParam ==
  /\ At({"SIR_GET_PARAM"}) /\ Inst.imm < MaxRegArgs
  /\ LET src == ArgRegs[Inst.imm + 1]
     IN  Finish(Store(mach, src), <<mach.reg[src]>>, <<Param(Inst.imm)>>, Param(Inst.imm))

(* The parameter on the stack of the caller.                               *)
GetStackParam ==
  /\ At({"SIR_GET_PARAM"}) /\ Inst.imm >= MaxRegArgs
  /\ LET want == <<Param(Inst.imm)>>
     IN  Finish(Store(Set(mach, DestReg, Param(Inst.imm)), DestReg), want, want,
                Param(Inst.imm))

(* HeapAlloc and HeapFree: the operand waits in the frame while            *)
(* GetProcessHeap is called.                                               *)
SysHeap ==
  /\ At({"SIR_SYS_ALLOC", "SIR_SYS_FREE"})
  /\ LET m1 == Load(mach, Arg(1), RAX)
         rd == <<m1.reg[RegOf(Arg(1), RAX)]>>
     IN  Finish(Store(Set(AfterCall(m1), RAX, Out(rd, Operands)), RAX), rd, Operands, Fresh)

(* ReadFile and WriteFile: buffer and length wait in the frame while       *)
(* GetStdHandle is called; the first operand is not looked at.             *)
SysFile ==
  /\ At({"SIR_SYS_READ", "SIR_SYS_WRITE"})
  /\ LET m1   == Load(mach, Arg(2), RAX)
         m2   == Load(m1, Arg(3), R10)
         rd   == <<m1.reg[RegOf(Arg(2), RAX)], m2.reg[RegOf(Arg(3), R10)]>>
         want == <<Value(Arg(2)), Value(Arg(3))>>
     IN  Finish(Store(Set(AfterCall(m2), RAX, Out(rd, want)), RAX), rd, want, Fresh)

-----------------------------------------------------------------------------
(* Calls.  The first operand is the callee, Const for a function or extern *)
(* function called by name; imm = 1 marks an extern.                       *)

Args     == Tail(Inst.args)
CallRegs == IF Inst.imm = 1 \/ opt < 2 THEN 4 ELSE 6
RegArgs  == IF Len(Args) < CallRegs THEN Len(Args) ELSE CallRegs

(* An operand as the machine holds it before the call.                     *)
MachValue(v) == Load(mach, v, RAX).reg[RegOf(v, RAX)]

(* A fault: the second of two arguments is fetched through RAX, like the   *)
(* first.                                                                  *)
PassTwoThroughRax ==
  LET m1 == Load(mach, Args[1], RAX)
      m2 == Load(m1, Args[2], RAX)
  IN  Mov(Mov(m2, RCX, RegOf(Args[1], RAX)), RDX, RegOf(Args[2], RAX))

(* Two arguments: both are fetched, then both moved to their registers.    *)
PassTwo ==
  LET m1   == Load(mach, Args[1], RAX)
      scr2 == IF RegOf(Args[1], RAX) = R10 THEN R11 ELSE R10
      m2   == Load(m1, Args[2], scr2)
  IN  Mov(Mov(m2, RCX, RegOf(Args[1], RAX)), RDX, RegOf(Args[2], scr2))

(* Three or more: they are all put in the frame first, then loaded into    *)
(* their registers from there.                                             *)
PassMany ==
  [mach EXCEPT !.reg = [r \in Regs |->
     IF \E k \in 1..RegArgs : ArgRegs[k] = r
     THEN MachValue(Args[CHOOSE k \in 1..RegArgs : ArgRegs[k] = r])
     ELSE mach.reg[r]]]

(* Arguments beyond the registers go to the frame before any other; then   *)
(* the register arguments; the callee of an indirect call is fetched last. *)
Call ==
  /\ At({"SIR_CALL"})
  /\ LET m1 == CASE RegArgs = 0 -> mach
                 [] RegArgs = 1 -> LoadTo(mach, Args[1], RAX, RCX)
                 [] RegArgs = 2 -> PassTwo
                 [] OTHER -> PassMany
         m2 == Load(m1, Arg(1), RAX)
         rd == [k \in DOMAIN Inst.args |->
                  IF k = 1 THEN m2.reg[RegOf(Arg(1), RAX)]
                  ELSE IF k - 1 <= RegArgs THEN m1.reg[ArgRegs[k - 1]]
                  ELSE MachValue(Arg(k))]
         m3 == Set(AfterCall(m2), RAX, Out(rd, Operands))
     IN  Finish(Store(m3, RAX), rd, Operands, Fresh)

-----------------------------------------------------------------------------
(* Terminators.                                                            *)

(* A branch tests its condition, a switch compares it, with RAX as the     *)
(* scratch register; both and SIR_JMP go to one of the successors.         *)
Jump ==
  /\ At(JumpOps) /\ fn.succ[pc] # {}
  /\ LET m1 == IF Inst.args = <<>> THEN mach ELSE Load(mach, Arg(1), RAX)
         rd == IF Inst.args = <<>> THEN <<>> ELSE <<m1.reg[RegOf(Arg(1), RAX)]>>
     IN  /\ mach' = m1 /\ read' = rd /\ meant' = Operands
         /\ pc' \in fn.succ[pc] /\ pi' = 1
         /\ UNCHANGED <<stage, vals, vars>>

Return ==
  /\ At({"SIR_RET", "SIR_TRAP"})
  /\ LET m1 == IF Inst.args = <<>> THEN mach ELSE LoadTo(mach, Arg(1), RAX, RAX)
         rd == IF Inst.args = <<>> THEN <<>> ELSE <<m1.reg[RAX]>>
     IN  /\ mach' = m1 /\ read' = rd /\ meant' = Operands
         /\ stage' = "returned"
         /\ UNCHANGED <<pc, pi, vals, vars>>

Execute ==
  \/ Alloca \/ LoadMem \/ StoreMem \/ Memcpy \/ GepConst \/ GepVar
  \/ Alu \/ DivMod \/ Shift \/ ICmp \/ FCmp \/ FloatArith \/ Cast
  \/ SelectConst \/ SelectVar
  \/ GetRegParam \/ GetStackParam
  \/ Call \/ SysHeap \/ SysFile
  \/ Jump \/ Return

MirNext == Allocate \/ Enter \/ Execute

MirSpec == MirInit /\ [][MirNext]_allVars

-----------------------------------------------------------------------------
(* Properties.                                                             *)

(* The code does what the SIR says: whatever an instruction consumes       *)
(* (operands, arguments, the callee, the condition of a branch, the value  *)
(* returned) is what the SIR instruction names, on every path, whatever    *)
(* registers and spill slots the allocator chose.                          *)
ReadsWhatIsMeant == read = meant

(* Virtual registers are as good as real ones (IR_DESIGN.md, section 2):   *)
(* at every point of the execution the home of a vreg still needed, a      *)
(* register or a spill slot, holds the value of the vreg.                  *)
LiveHere == IF opt = 0 THEN Vregs ELSE LiveAfter(pc, pi - 1, liveOut[pc])
HomesHoldValues ==
  stage = "running" => \A v \in LiveHere : Home(mach, v) = vals[v]

(* The prologue pushes the registers of used_callee_saved and no other, so *)
(* the code of the function leaves every other callee-saved register as it *)
(* found it.                                                               *)
SavesWhatItWrites ==
  [][stage = "running" =>
       \A c \in CalleeSaved \ usedCalleeSaved : mach'.reg[c] = mach.reg[c]]_allVars

-----------------------------------------------------------------------------
(* What the proofs need besides: the inductive invariant of the composed   *)
(* system, and the code patterns under which selection is known to fail.   *)

(* The register parameters are fetched first thing in the entry block, and *)
(* none is overwritten by the result of an earlier fetch: the entry block  *)
(* is never entered again (ir_gen.c:1848 puts the fetches there; nothing   *)
(* keeps a colour out of R8 and R9 meanwhile).                             *)
ParamsFetchedInTime ==
  /\ \A b \in Blocks : \A i \in DOMAIN Code(b) :
       Code(b)[i].op = "SIR_GET_PARAM" /\ Code(b)[i].imm < MaxRegArgs =>
         /\ b = 1 /\ \A p \in Blocks : 1 \notin fn.succ[p]
         /\ \A j \in 1..(i - 1) :
              /\ Code(1)[j].op = "SIR_GET_PARAM"
              /\ InReg(Dest(1, j)) => color[Dest(1, j)] # ArgRegs[Code(1)[i].imm + 1]

(* R8, or R9 if the result lives in R8, is free wherever a conditional     *)
(* move brings its condition there.                                        *)
SelectScratch(b, i) == IF RegOf(Dest(b, i), RAX) = R8 THEN R9 ELSE R8
SelectsHaveScratch ==
  \A b \in Blocks : \A i \in DOMAIN Code(b) :
    LET c == Code(b)[i]
        inPlace == InReg(c.args[1]) /\ color[c.args[1]] # RegOf(c.dest, RAX)
    IN  c.op = "SIR_SELECT" /\ c.args[1] # Const /\ ~inPlace =>
          \A v \in LiveAfter(b, i, liveOut[b]) \cup ArgSet(b, i) :
            color[v] # SelectScratch(b, i)

(* The callee of an indirect call of two arguments or more is on the stack *)
(* or in a callee-saved register.                                          *)
CalleesOutOfTheWay ==
  \A b \in Blocks : \A i \in DOMAIN Code(b) :
    LET c == Code(b)[i]
    IN  c.op = "SIR_CALL" /\ Len(c.args) > 2 /\ c.args[1] # Const =>
          color[c.args[1]] \in CalleeSaved \cup {Spilled}

Undisturbed == ParamsFetchedInTime /\ SelectsHaveScratch /\ CalleesOutOfTheWay

(* Every colour given out from the callee-saved registers is recorded.     *)
SavesRecorded == \A v \in Vregs : color[v] # Spilled => color[v] \in usedCalleeSaved

(* The parameters still to be fetched are in their registers.              *)
ParamsWait ==
  stage = "running" /\ pc = 1 /\ Undisturbed =>
    \A i \in pi..Len(Code(1)) :
      Code(1)[i].op = "SIR_GET_PARAM" /\ Code(1)[i].imm < MaxRegArgs =>
        mach.reg[ArgRegs[Code(1)[i].imm + 1]] = Param(Code(1)[i].imm)

IsMachine(m) ==
  /\ m = [reg |-> m.reg, slot |-> m.slot]
  /\ m.reg = [r \in Regs |-> m.reg[r]]
  /\ m.slot = [v \in Vregs |-> m.slot[v]]

(* The code runs only what the allocator has finished with, and within it. *)
RunInv ==
  /\ stage \in {"compile", "running", "returned"}
  /\ stage = "compile" => read = meant
  /\ stage # "compile" => phase = "done"
  /\ stage = "running" => pc \in Blocks /\ pi \in 1..Len(Code(pc))
  /\ IsMachine(mach) /\ vals = [v \in Vregs |-> vals[v]]

MirInv ==
  /\ IInv /\ SavesRecorded /\ RunInv
  /\ ParamsWait
  /\ Undisturbed => HomesHoldValues /\ (stage # "compile" => ReadsWhatIsMeant)
=============================================================================
