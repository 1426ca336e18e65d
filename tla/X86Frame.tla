------------------------------ MODULE X86Frame ------------------------------
(***************************************************************************)
(* The stack of the generated program: the frame x86_mir_build lays out    *)
(* for every function (src/src/backend/x86_mir.c), how calls pass          *)
(* arguments through it, and the start-up stub of pe_linker.c.             *)
(*                                                                         *)
(* Every size and offset of the code is a multiple of 8; the model counts  *)
(* in slots of 8 bytes.  From low to high addresses a frame is             *)
(*   outgoing area | (alignment) | spill slots, locals | saved registers   *)
(*   | return address                                                      *)
(* and rsp points at the outgoing area while the body runs.                *)
(*                                                                         *)
(* A function is what x86_mir_build's prescan and the allocator know of    *)
(* it: the slots of its ALLOCAs and of its spilled vregs, the callee-saved *)
(* registers it uses, its parameters, its call sites (Extern or an index   *)
(* of the program) and whether it allocates memory or does input/output.   *)
(* The body may run these in any order.  Memory holds tokens that name     *)
(* what was stored.                                                        *)
(***************************************************************************)
EXTENDS Integers, Sequences, FiniteSets

CONSTANTS
  Programs,   \* sets of functions compiled at some -O level
  Top,        \* the stack pointer at process entry, in slots
  MaxDepth    \* bound: the call depth explored

Extern   == 0
InitFn   == 1   \* __scorivm_init
Princeps == 2
Shadow   == 4   \* slots a callee may use of its caller's frame

(* The functions of a program of n functions.                              *)
CallSites(n) == [callee : 0..n, nargs : Nat]
Fns(n) == [locals : Nat, spills : Nat, pushes : 0..7, params : Nat,
           calls : Seq(CallSites(n)), heap : BOOLEAN, file : BOOLEAN]

IsProgram(p) ==
  /\ p.opt \in 0..3
  /\ p.fns \in Seq(Fns(Len(p.fns)))
  /\ Princeps <= Len(p.fns)

(* Windows enters the process with rsp 8 bytes off a multiple of 16.       *)
ASSUME TopAssumption == Top \in Nat /\ Top % 2 = 1
ASSUME ProgramsAssumption == \A p \in Programs : IsProgram(p)

VARIABLES
  prog,     \* the program
  boot,     \* where the start-up stub is
  rsp,      \* the stack pointer while a body runs
  mem,      \* the stack
  frames,   \* the active frames, outermost first
  got,      \* what the last reader of stack arguments or staging slots read
  want      \* what had been stored there for it

vars == <<prog, boot, rsp, mem, frames, got, want>>

Addresses == 0..(Top + 2)
Junk      == <<>>

-----------------------------------------------------------------------------
(* The frame of one function.                                              *)

MaxRegArgs(callee) == IF callee = Extern \/ prog.opt < 2 THEN 4 ELSE 6

Larger(a, b) == IF a >= b THEN a ELSE b
RoundUp(n)   == n + (n % 2)

(* A fault: only the arguments passed on the stack are counted.            *)
CallNeedsStackOnly(f) ==
  {Shadow + Larger(f.calls[s].nargs - MaxRegArgs(f.calls[s].callee), 0) : s \in DOMAIN f.calls}

(* The shadow space and a slot for every argument, staged or on the stack. *)
CallNeeds(f) == {Shadow + f.calls[s].nargs : s \in DOMAIN f.calls}
SysNeeds(f)  == (IF f.file THEN {7} ELSE {}) \cup (IF f.heap THEN {5} ELSE {})

(* The largest need of any call, at least the shadow space.                *)
Outgoing(f) ==
  LET needs == {Shadow} \cup CallNeeds(f) \cup SysNeeds(f)
  IN  CHOOSE n \in needs : \A m \in needs : m <= n

Data(f) == f.locals + f.spills

(* A fault: the registers pushed before the frame are not counted.         *)
FrameSizeIgnoringPushes(f) ==
  LET size == Data(f) + RoundUp(Outgoing(f))
  IN  IF (size + 1) % 2 # 0 THEN size + 1 ELSE size

(* stack_sub_size: locals, spills and the outgoing area rounded up to 16   *)
(* bytes, one slot more if the pushes and the return address leave rsp     *)
(* unaligned.                                                              *)
FrameSize(f) ==
  LET size == Data(f) + RoundUp(Outgoing(f))
  IN  IF (size + f.pushes + 1) % 2 # 0 THEN size + 1 ELSE size

Depth   == Len(frames)
Running == frames[Depth]
Fn(d)   == prog.fns[frames[d].fn]

(* Slot j of the locals and spills of the frame at depth d.                *)
DataSlot(d, j) == frames[d].base + FrameSize(Fn(d)) - j
SavedSlots(d)  == LET hi == frames[d].base + FrameSize(Fn(d))
                  IN  hi..(hi + Fn(d).pushes - 1)
RetSlot(d)     == frames[d].base + FrameSize(Fn(d)) + Fn(d).pushes

(* Where the caller puts stack argument k (counted from 0), from its rsp.  *)
ArgSlot(callee, k) ==
  (IF callee = Extern \/ prog.opt < 2 THEN Shadow ELSE 0) + k - MaxRegArgs(callee)

(* A fault: the pushed registers lie between frame and return address.     *)
ParamSlotBelowSaved(d, k) ==
  frames[d].base + 1 + FrameSize(Fn(d)) + k - MaxRegArgs(frames[d].fn)

(* Where SIR_GET_PARAM of the frame at depth d finds parameter k.          *)
ParamSlot(d, k) ==
  frames[d].base + 1 + FrameSize(Fn(d)) + Fn(d).pushes + k - MaxRegArgs(frames[d].fn)

-----------------------------------------------------------------------------
(* Calls.                                                                  *)

(* Tokens: what the frame at depth d stores in its slots.                  *)
Slot(d, j)    == <<"slot", d, j>>
Saved(d, a)   == <<"saved", d, a>>
Ret(d)        == <<"ret", d>>
ArgOf(d, s, k) == <<"arg", d, s, k>>

(* The memory of a call with arguments: those for the stack, then, if      *)
(* there are three register arguments or more, all of them in the staging  *)
(* area above the stack arguments.                                         *)
PassArgs(m, r, s, c) ==
  LET regs   == MaxRegArgs(c.callee)
      stack  == IF c.nargs > regs THEN c.nargs - regs ELSE 0
      staged == IF c.nargs - stack >= 3 THEN c.nargs - stack ELSE 0
  IN  [a \in Addresses |->
         IF a \in {r + Shadow + stack + k : k \in 0..(staged - 1)}
         THEN ArgOf(Depth, s, a - r - Shadow - stack)
         ELSE IF a \in {r + ArgSlot(c.callee, k) : k \in regs..(c.nargs - 1)}
         THEN ArgOf(Depth, s, a - r - ArgSlot(c.callee, 0))
         ELSE m[a]]

(* CALL and the prologue of function g, called with stack pointer r: the   *)
(* return address, the saved registers, then the frame.  Bound: only while *)
(* the stack has room.                                                     *)
NewFrame(g, site, m, r) ==
  LET f  == prog.fns[g]
      lo == r - 1 - f.pushes
      d  == Depth + 1
  IN  /\ lo >= FrameSize(f)
      /\ frames' = Append(frames, [fn |-> g, site |-> site, base |-> lo - FrameSize(f),
                                   ready |-> FALSE, used |-> FALSE])
      /\ rsp' = lo - FrameSize(f)
      /\ mem' = [a \in Addresses |->
                   IF a = r - 1 THEN Ret(d)
                   ELSE IF a \in lo..(r - 2) THEN Saved(d, a) ELSE m[a]]

(* What a called system or extern function does to the stack: it may use   *)
(* its caller's shadow space and everything below rsp.                     *)
AfterExtern(m, r) == [a \in Addresses |-> IF a < r + Shadow THEN Junk ELSE m[a]]

Write(m, a, x) == [m EXCEPT ![a] = x]

-----------------------------------------------------------------------------
(* The stub: argc and argv wait above its frame, in the shadow space of    *)
(* the caller, while __scorivm_init runs.                                  *)

Init ==
  /\ prog \in Programs
  /\ boot = "entry"
  /\ rsp = Top
  /\ mem = [a \in Addresses |-> Junk]
  /\ frames = <<>>
  /\ got = <<>> /\ want = <<>>

BootInit ==
  /\ boot = "entry"
  /\ boot' = "init"
  /\ NewFrame(InitFn, 0, Write(Write(mem, rsp + 1, <<"argc">>), rsp + 2, <<"argv">>), rsp - 5)
  /\ UNCHANGED <<prog, got, want>>

BootPrinceps ==
  /\ boot = "init" /\ frames = <<>>
  /\ boot' = "princeps"
  /\ got' = <<mem[rsp + 6], mem[rsp + 7]>> /\ want' = <<<<"argc">>, <<"argv">>>>
  /\ NewFrame(Princeps, 0, mem, rsp)
  /\ UNCHANGED prog

-----------------------------------------------------------------------------
(* The body of the running function.                                       *)

(* The parameters passed on the stack are read at the start of the body.   *)
ReadParams ==
  /\ frames # <<>> /\ ~Running.ready
  /\ frames' = [frames EXCEPT ![Depth].ready = TRUE]
  /\ LET stack == MaxRegArgs(Running.fn)..(Fn(Depth).params - 1)
     IN  IF Running.site = 0 THEN UNCHANGED <<got, want>>
         ELSE /\ got'  = [k \in stack |-> mem[ParamSlot(Depth, k)]]
              /\ want' = [k \in stack |-> ArgOf(Depth - 1, Running.site, k)]
  /\ UNCHANGED <<prog, boot, rsp, mem>>

Body == frames # <<>> /\ Running.ready

(* The body stores to its locals and spill slots.                          *)
UseData ==
  /\ Body /\ ~Running.used
  /\ frames' = [frames EXCEPT ![Depth].used = TRUE]
  /\ mem' = [a \in Addresses |->
               IF \E j \in 1..Data(Fn(Depth)) : a = DataSlot(Depth, j)
               THEN Slot(Depth, rsp + FrameSize(Fn(Depth)) - a) ELSE mem[a]]
  /\ UNCHANGED <<prog, boot, rsp, got, want>>

CallFn(s) ==
  /\ Body /\ Depth < MaxDepth
  /\ LET c == Fn(Depth).calls[s]
     IN  c.callee # Extern /\ NewFrame(c.callee, s, PassArgs(mem, rsp, s, c), rsp)
  /\ UNCHANGED <<prog, boot, got, want>>

(* An extern finds argument k >= 4 above its shadow space.                 *)
CallExtern(s) ==
  /\ Body
  /\ LET c == Fn(Depth).calls[s]
         m == PassArgs(mem, rsp, s, c)
     IN  /\ c.callee = Extern
         /\ got'  = [k \in 4..(c.nargs - 1) |-> m[rsp + k]]
         /\ want' = [k \in 4..(c.nargs - 1) |-> ArgOf(Depth, s, k)]
         /\ mem' = AfterExtern(m, rsp)
  /\ UNCHANGED <<prog, boot, rsp, frames>>

(* HeapAlloc and HeapFree: the operand waits at rsp+32 for GetProcessHeap. *)
SysHeap ==
  /\ Body /\ Fn(Depth).heap
  /\ LET m1 == AfterExtern(Write(mem, rsp + 4, <<"operand">>), rsp)
     IN  /\ got' = <<m1[rsp + 4]>> /\ want' = <<<<"operand">>>>
         /\ mem' = AfterExtern(m1, rsp)
  /\ UNCHANGED <<prog, boot, rsp, frames>>

(* ReadFile and WriteFile: buffer and length wait at rsp+32 and rsp+40 for *)
(* GetStdHandle; then rsp+32 is the fifth argument and rsp+48 receives the *)
(* byte count.                                                             *)
SysFile ==
  /\ Body /\ Fn(Depth).file
  /\ LET m1 == AfterExtern(Write(Write(mem, rsp + 4, <<"buffer">>), rsp + 5, <<"length">>), rsp)
         m2 == Write(Write(m1, rsp + 6, <<"zero">>), rsp + 4, <<"zero">>)
         m3 == Write(AfterExtern(m2, rsp), rsp + 6, <<"count">>)
     IN  /\ got'  = <<m1[rsp + 4], m1[rsp + 5], m2[rsp + 4], m3[rsp + 6]>>
         /\ want' = <<<<"buffer">>, <<"length">>, <<"zero">>, <<"count">>>>
         /\ mem' = m3
  /\ UNCHANGED <<prog, boot, rsp, frames>>

(* rsp after the epilogue (add rsp, pop the saved registers) and RET.      *)
AfterReturn == rsp + FrameSize(Fn(Depth)) + Fn(Depth).pushes + 1

(* The epilogue reads back the saved registers and the return address;     *)
(* what lies below rsp then belongs to nobody.                             *)
Return ==
  /\ Body
  /\ LET owned == SavedSlots(Depth) \cup {RetSlot(Depth)}
     IN  /\ got'  = [a \in owned |-> mem[a]]
         /\ want' = [a \in owned |-> IF a = RetSlot(Depth) THEN Ret(Depth) ELSE Saved(Depth, a)]
  /\ rsp' = AfterReturn
  /\ mem' = [a \in Addresses |-> IF a < AfterReturn THEN Junk ELSE mem[a]]
  /\ frames' = SubSeq(frames, 1, Depth - 1)
  /\ UNCHANGED <<prog, boot>>

Exit ==
  /\ boot = "princeps" /\ frames = <<>>
  /\ boot' = "exit"
  /\ UNCHANGED <<prog, rsp, mem, frames, got, want>>

Next ==
  \/ BootInit \/ BootPrinceps \/ Exit
  \/ ReadParams \/ UseData \/ SysHeap \/ SysFile \/ Return
  \/ \E s \in 1..(IF frames = <<>> THEN 0 ELSE Len(Fn(Depth).calls)) :
       CallFn(s) \/ CallExtern(s)

Spec == Init /\ [][Next]_vars

-----------------------------------------------------------------------------
(* Properties.                                                             *)

(* Everything an active frame owns stays as it was stored, whatever its    *)
(* own calls, its callees, their callees and the system do: its return     *)
(* address, the registers it saved for its caller, its locals and spills;  *)
(* and so do the argc and argv of the stub.                                *)
FramesIntact ==
  /\ \A d \in 1..Depth :
       /\ mem[RetSlot(d)] = Ret(d)
       /\ \A a \in SavedSlots(d) : mem[a] = Saved(d, a)
       /\ frames[d].used =>
            \A j \in 1..Data(Fn(d)) : mem[DataSlot(d, j)] = Slot(d, j)
  /\ boot = "init" => mem[Top + 1] = <<"argc">> /\ mem[Top + 2] = <<"argv">>

(* Whoever reads the stack finds what was put there for it: a callee its   *)
(* stack arguments, an extern its fifth and later ones, the system calls   *)
(* their staged operands, the epilogue the return address.                 *)
ReadersFindTheirs == got = want

(* Calls happen with rsp on a multiple of 16, as the ABI and every extern  *)
(* demand: whenever a body runs, and whenever the stub calls.              *)
Aligned == frames # <<>> => rsp % 2 = 0

-----------------------------------------------------------------------------
(* The inductive invariant behind the properties.                          *)

FrameRecords == [fn : Nat, site : Nat, base : Nat, ready : BOOLEAN, used : BOOLEAN]

(* The stack pointer the frame at depth d was called with.                 *)
CallerRsp(d) == IF d = 1 THEN Top - 5 ELSE frames[d - 1].base

(* The frames tile the stack without gaps, aligned, down to rsp.           *)
StackInv ==
  /\ prog \in Programs /\ boot \in {"entry", "init", "princeps", "exit"}
  /\ mem = [a \in Addresses |-> mem[a]]
  /\ frames \in Seq(FrameRecords)
  /\ \A d \in 1..Depth :
       /\ frames[d].fn \in DOMAIN prog.fns
       /\ frames[d].base % 2 = 0
       /\ RetSlot(d) + 1 = CallerRsp(d) /\ RetSlot(d) < Top - 5
       /\ \A e \in 1..(d - 1) : RetSlot(d) < frames[e].base
  /\ boot # "entry" => Top >= 5
  /\ rsp = IF frames # <<>> THEN Running.base
           ELSE IF boot = "entry" THEN Top ELSE Top - 5
  /\ frames # <<>> => boot \in {"init", "princeps"}

(* Programs whose stack arguments are found: -O2 and above, or no function *)
(* with more parameters than argument registers; and every call passes as  *)
(* many arguments as the type checker demands.                             *)
Tame ==
  /\ prog.opt >= 2 \/ \A g \in DOMAIN prog.fns : prog.fns[g].params <= 4
  /\ \A g \in DOMAIN prog.fns : \A s \in DOMAIN prog.fns[g].calls :
       LET c == prog.fns[g].calls[s]
       IN  c.callee # Extern => prog.fns[c.callee].params <= c.nargs

(* Until the callee has read them, its stack arguments are where it looks; *)
(* a function that has called another has read its own.                    *)
ArgsInv ==
  /\ \A d \in 1..(Depth - 1) : frames[d].ready
  /\ Tame /\ frames # <<>> /\ ~Running.ready /\ Running.site # 0 =>
       \A k \in MaxRegArgs(Running.fn)..(Fn(Depth).params - 1) :
         mem[ParamSlot(Depth, k)] = ArgOf(Depth - 1, Running.site, k)
=============================================================================
