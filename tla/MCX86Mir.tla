------------------------------ MODULE MCX86Mir ------------------------------
(***************************************************************************)
(* Bounded inputs for X86Mir: functions that put one instruction under     *)
(* test between definitions and uses of six vregs, so that its operands    *)
(* and result end up in every kind of place (callee-saved, caller-saved,   *)
(* spilled, shared), and a few functions with branches and loops.          *)
(***************************************************************************)
EXTENDS X86Mir

I(op, dest, args)       == [op |-> op, dest |-> dest, args |-> args, imm |-> 0]
II(op, dest, args, imm) == [op |-> op, dest |-> dest, args |-> args, imm |-> imm]
GetParam(d, k)          == II("SIR_GET_PARAM", d, <<>>, k)
ByName(d, args)         == I("SIR_CALL", d, <<Const>> \o args)

Straight(code) == [n |-> 1, succ |-> <<{}>>, code |-> <<code>>]

(* The vregs 1, 2, 3, 5, 6 are defined, 4 is left to the instruction under *)
(* test; parameter 5 is in R11 at -O2 and on the stack below.              *)
Prefix == <<GetParam(1, 0), GetParam(2, 1), GetParam(5, 5),
            I("SIR_ALLOCA", 3, <<Const>>), I("SIR_LOAD", 6, <<3>>)>>

UseAll  == <<I("SIR_STORE", NoDest, <<1, 2>>), I("SIR_STORE", NoDest, <<3, 4>>),
             I("SIR_STORE", NoDest, <<5, 6>>), I("SIR_RET", NoDest, <<4>>)>>
UseSome == <<I("SIR_STORE", NoDest, <<2, 3>>), I("SIR_RET", NoDest, <<1>>)>>
Suffixes == {UseAll, UseSome, <<ByName(NoDest, <<1>>)>> \o UseAll}

BinaryTests ==
  {I(op, d, <<a[1], a[2]>>) :
     op \in {"SIR_SUB", "SIR_FSUB", "SIR_MOD", "SIR_SHL"},
     d \in {1, 2, 4}, a \in {<<1, 2>>, <<2, 2>>, <<1, Const>>, <<Const, 2>>}}
  \cup {I(op, d, <<1, 2>>) : op \in {"SIR_ICMP", "SIR_FCMP", "SIR_DIV"}, d \in {1, 4}}
  \cup {I("SIR_GEP", d, a) : d \in {1, 2, 4}, a \in {<<1, 2>>, <<2, 2>>, <<3, Const>>}}

OtherTests ==
  {I(op, d, <<1>>) : op \in {"SIR_CAST", "SIR_LOAD"}, d \in {1, 4}}
  \cup {I("SIR_STORE", NoDest, a) : a \in {<<1, 2>>, <<Const, 6>>}}
  \cup {I("SIR_MEMCPY", NoDest, a) : a \in {p \in (1..6) \X (1..6) : p[1] # 4 /\ p[2] # 4}}
  \cup {II("SIR_SELECT", d, <<Const, 1, 2>>, k) : d \in {2, 4}, k \in {0, 1}}

CallTests ==
  {II("SIR_CALL", d, <<Const>> \o a, x) :
     d \in {NoDest, 1}, x \in {0, 1},
     a \in {<<>>, <<2>>, <<6, 5>>, <<5, Const>>, <<3, 2, 1>>,
            <<1, 2, 3, 5, 6>>, <<6, 5, 3, 2, 1, Const, 1>>}}
  \cup {I("SIR_CALL", d, <<3>> \o a) : d \in {NoDest, 4}, a \in {<<2>>, <<6, 5>>, <<5, 1, 2>>}}
  \cup {I("SIR_SYS_ALLOC", 4, <<2>>), I("SIR_SYS_FREE", NoDest, <<3>>),
        I("SIR_SYS_WRITE", 4, <<Const, 6, 5>>), I("SIR_SYS_READ", 1, <<Const, 3, Const>>)}

(* A conditional move with every operand kept across a call, so that R8    *)
(* and R9 are free: it takes them without asking (x86_mir.c:779).      *)
SelectTests ==
  {I("SIR_SELECT", d, a) : d \in {1, 2, 4}, a \in {<<1, 2, 3>>, <<5, 2, 1>>, <<6, Const, 2>>}}

StraightFunctions ==
  {Straight(Prefix \o <<t>> \o s) : t \in BinaryTests \cup OtherTests \cup CallTests,
                                    s \in Suffixes}
  \cup {Straight(Prefix \o <<t, ByName(NoDest, <<>>)>> \o UseAll) : t \in SelectTests}

(* A loop with a switch in its body, and a diamond whose arms call.        *)
LoopFunctions ==
  {[n |-> 4, succ |-> <<{2}, {3, 4}, {2, 3, 4}, {}>>,
    code |-> <<Prefix \o <<I("SIR_ADD", 4, <<1, 2>>), I("SIR_JMP", NoDest, <<>>)>>,
               <<I("SIR_ICMP", 1, <<4, 5>>), I("SIR_BR", NoDest, <<1>>)>>,
               <<t, I("SIR_SWITCH", NoDest, <<6>>)>>,
               UseAll>>] : t \in {I("SIR_ADD", 4, <<4, 6>>), ByName(5, <<4, 6, 2>>)}}
  \cup
  {[n |-> 4, succ |-> <<{2, 3}, {4}, {4}, {}>>,
    code |-> <<Prefix \o <<I("SIR_BR", NoDest, <<6>>)>>,
               <<ByName(4, <<1, 5>>), I("SIR_JMP", NoDest, <<>>)>>,
               <<t, I("SIR_JMP", NoDest, <<>>)>>,
               UseAll>>] : t \in {I("SIR_ADD", 4, <<2, 1>>), I("SIR_GEP", 4, <<3, 5>>)}}

MCFunctions == StraightFunctions \cup LoopFunctions

=============================================================================
