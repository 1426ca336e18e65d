-------------------------------- MODULE Widths --------------------------------
(***************************************************************************)
(* What becomes of integers: the builder folds constants in the host's     *)
(* int64_t, drops instructions it knows the answer of and answers loads    *)
(* with the value last stored; the machine then computes in registers      *)
(* wider than most types, whose upper bits nobody defines.                 *)
(*                                                                         *)
(* One straight run through a function is followed while it is built: each *)
(* action is one call of the builder, the instruction it emits (if any) is *)
(* carried out at once as x86_mir_build translates it, and beside every    *)
(* value stands the integer the source program means by it.  Sizes are     *)
(* scaled: "small" stands for one and two bytes, "word" for four, "full"   *)
(* for eight, the width of a register and of int64_t.                      *)
(*                                                                         *)
(* The source means exact integer arithmetic, and the programs modelled    *)
(* are those that never leave it: no operation overflows its type, divides *)
(* by zero or shifts by more bits than there are, and no value reaches     *)
(* 2^63 (here 2^(full - 1)).  Left out as well: floating point, indices    *)
(* into arrays and, unless NarrowOperands, the two places where what is    *)
(* above a small value matters: its division, and the fast path.           *)
(***************************************************************************)
EXTENDS Integers, Sequences, Bitwise

CONSTANTS Pointers,          \* pointer values the block uses
          Cell,              \* [Pointers -> cells]: pointers may be aliases
          Literals,          \* the integers that occur as constants
          Plans,             \* the kinds of calls a run makes, in order
          NarrowOperands     \* small values are divided and take the fast
                             \* path whatever is above them

ASSUME WidthsAssumption ==
    /\ Pointers = DOMAIN Cell
    /\ 0 \in Literals /\ Literals \subseteq Int
    /\ NarrowOperands \in BOOLEAN

VARIABLES type,              \* the integer type of the parameter and the cells
          junk,              \* what undefined upper bits hold: 0 or 1
          vals,              \* the SirValues built, with what the machine holds
          mem,               \* the bits in each cell
          heap,              \* the integer the source means each cell to hold
          last,              \* last STORE, CALL or MEMCPY of the current block
          branch,            \* the last branch: where it went, where it should
          plan               \* the kinds of calls still to come

vars == <<type, junk, vals, mem, heap, last, branch, plan>>

-----------------------------------------------------------------------------
(* Widths and bit patterns. *)

Width == [small |-> 2, word |-> 3, full |-> 4]
Sizes == DOMAIN Width
IntTypes == [size : Sizes, signed : BOOLEAN, truth : {FALSE}]
Logica == [size |-> "small", signed |-> FALSE, truth |-> TRUE]

Low(x, size) == x % (2 ^ Width[size])

(* The integer the low bits of a pattern stand for, and the 64 bits (here   *)
(* Width.full) of an integer.                                               *)
Value(x, size, signed) ==
    LET low == Low(x, size)
    IN  IF signed /\ low >= 2 ^ (Width[size] - 1) THEN low - 2 ^ Width[size] ELSE low
Pattern(n) == n % (2 ^ Width.full)

Typed(x, t) == Value(x, t.size, t.signed)
Host(x) == Value(x, "full", TRUE)                         \* as an int64_t
Extended(x, t) == Pattern(Typed(x, t))                    \* MOVSX, MOVZX

(* The low bits of x under undefined upper ones. *)
Under(x, size) ==
    Low(x, size) + (IF junk = 0 THEN 0 ELSE 2 ^ Width.full - 2 ^ Width[size])

Fits(n, t) == n = Typed(Pattern(n), t) /\ n = Host(Pattern(n))

Abs(n) == IF n < 0 THEN -n ELSE n
Sign(n) == IF n < 0 THEN -1 ELSE 1
Quotient(a, b) == Sign(a) * Sign(b) * (Abs(a) \div Abs(b))     \* as in C
Remainder(a, b) == a - b * Quotient(a, b)

-----------------------------------------------------------------------------
(* Values.  "id" tells SirValue objects apart; "bits" is the constant, or   *)
(* what the register or the stack slot of the vreg holds; "means" is what   *)
(* the source means.                                                        *)

SirValue(kind, t, bits, means) ==
    [id |-> Len(vals) + 1, kind |-> kind, type |-> t, bits |-> bits, means |-> means]
ConstInt(t, n, means) == SirValue("int", t, Pattern(n), means)
ConstBool(b, means) == SirValue("bool", Logica, IF b THEN 1 ELSE 0, means)
Homes == {"register", "slot"}

IsInt(v) == v.kind = "int"
IsBool(v) == v.kind = "bool"

(* load_operand_mir: what the register an operand is read from holds. *)
Operand(v) ==
    IF v.kind = "slot" /\ (v.type.size = "small" \/ (v.type.size = "word" /\ v.type.signed))
    THEN Extended(v.bits, v.type)
    ELSE v.bits

(* store_result_mir: x moved to the home of a vreg of type t.  A four-byte  *)
(* move clears the upper half of a register; a smaller one, and any store   *)
(* to the stack, leave what was above.                                      *)
Kept(home, t, x) ==
    IF home = "register" /\ t.size = "word" THEN Low(x, "word") ELSE Under(x, t.size)

(* An instruction that reads memory straight into the register of its       *)
(* result: MOVSX and MOVZX of small values extend them to 32 bits there.    *)
Loaded(home, t, x) ==
    IF home = "slot" THEN Kept(home, t, x)
    ELSE IF t.size = "small" THEN Low(Extended(x, t), "word")
    ELSE Extended(x, t)

-----------------------------------------------------------------------------
(* Operations. *)

Arithmetic == {"add", "sub", "mul", "div", "mod", "and", "or", "xor", "shl", "shr"}
Comparisons == {"eq", "ne", "lt", "le", "gt", "ge"}
Divisions == {"div", "mod"}

Truth(b) == IF b THEN 1 ELSE 0
BitsOf(op, x, y) ==
    CASE op = "and" -> x & y  [] op = "or" -> x | y  [] op = "xor" -> x ^^ y

(* Exact arithmetic on two integers. *)
Result(op, a, b) ==
    CASE op = "add" -> a + b
      [] op = "sub" -> a - b
      [] op = "mul" -> a * b
      [] op = "div" -> Quotient(a, b)
      [] op = "mod" -> Remainder(a, b)
      [] op = "shl" -> a * 2 ^ b
      [] op = "shr" -> a \div 2 ^ b
      [] op = "eq"  -> Truth(a = b)
      [] op = "ne"  -> Truth(a # b)
      [] op = "lt"  -> Truth(a < b)
      [] op = "le"  -> Truth(a <= b)
      [] op = "gt"  -> Truth(a > b)
      [] op = "ge"  -> Truth(a >= b)
      [] OTHER      -> Host(BitsOf(op, Pattern(a), Pattern(b)))

(* The program stays within exact arithmetic. *)
Defined(op, t, a, b) ==
    /\ op \in Divisions => b # 0 /\ Fits(Quotient(a, b), t)
    /\ op \in {"shl", "shr"} => b \in 0 .. Width[t.size] - 1
    /\ op \in Arithmetic => Fits(Result(op, a, b), t)

(* The size the machine computes in: divisions of small values are done in  *)
(* a word.                                                                  *)
ComputedIn(op, t) == IF op \in Divisions /\ t.size = "small" THEN "word" ELSE t.size

(* The SIR_ADD ... SIR_ICMP_GE cases of x86_mir_build on two registers.  A  *)
(* multiplication, division or remainder by a power of two that is done     *)
(* with a shift or a mask gives the same bits.                              *)
Computed(op, t, x, y) ==
    LET size == ComputedIn(op, t)
    IN  Pattern(Result(op, Value(x, size, t.signed), Value(y, size, t.signed)))

(* Nothing undefined is above the value in the word it is divided in. *)
Clean(v) == Low(Operand(v), "word") = Low(Extended(Operand(v), v.type), "word")

(* ir_build_binary on two constants, in int64_t whatever their type. *)
Folded(op, l, r, means) ==
    LET n == Result(op, Host(l.bits), Host(r.bits))
    IN  IF op \in Comparisons THEN ConstBool(n = 1, means) ELSE ConstInt(l.type, n, means)

(* ir_build_binary, the algebraic simplifications: the value that stands    *)
(* for the result, if a rule applies.                                       *)
Simplified(op, l, r) ==
    LET Is(v, n) == IsInt(v) /\ Host(v.bits) = n
        Const(n) == ConstInt(l.type, n, n)
        same == l.id = r.id
    IN  CASE op \in {"add", "or", "xor", "sub"} /\ Is(r, 0) -> <<l>>
          [] op \in {"add", "or", "xor"} /\ Is(l, 0)        -> <<r>>
          [] op \in {"mul", "div"} /\ Is(r, 1)              -> <<l>>
          [] op = "mul" /\ Is(l, 1)                         -> <<r>>
          [] op \in {"mul", "and"} /\ (Is(r, 0) \/ Is(l, 0)) -> <<Const(0)>>
          [] op \in {"sub", "xor"} /\ same                  -> <<Const(0)>>
          [] op = "div" /\ same                             -> <<Const(1)>>
          [] op \in {"and", "or"} /\ same                   -> <<l>>
          [] OTHER                                          -> <<>>

(* ir_build_binary: the value it returns, the vreg of a new instruction     *)
(* living in "home".                                                        *)
BuildBinary(op, l, r, home, means) ==
    LET t == IF op \in Comparisons THEN Logica ELSE l.type
        x == Computed(op, l.type, Operand(l), Operand(r))
    IN  IF IsInt(l) /\ IsInt(r) THEN Folded(op, l, r, means)
        ELSE IF Simplified(op, l, r) # <<>>
             THEN [Simplified(op, l, r)[1] EXCEPT !.means = means]
             ELSE SirValue(home, t, Kept(home, t, x), means)

(* ir_build_cast, on a constant and on a vreg. *)
CastConst(v, t) ==
    ConstInt(t, IF t.size = "full" THEN Host(v.bits) ELSE Typed(v.bits, t),
             Typed(Pattern(v.means), t))

Converted(x, from, to) ==
    IF Width[to.size] > Width[from.size] THEN Extended(x, from)
    ELSE IF to.size = "full" THEN x ELSE Extended(x, to)

BuildCast(v, t, home) ==
    IF IsInt(v) THEN CastConst(v, t)
    ELSE SirValue(home, t, Kept(home, t, Converted(Operand(v), v.type, t)),
                  Typed(Pattern(v.means), t))

(* ir_build_select: the operand itself if the condition is a constant, else *)
(* a conditional move.                                                      *)
\* A fault: the whole register is tested.
TestedWhole(v) == Operand(v)
TestedBits(v) == Low(Operand(v), v.type.size)
IsTaken(v) == IF IsBool(v) THEN v.bits = 1 ELSE TestedBits(v) # 0

BuildSelect(cond, yes, no, home) ==
    LET means == IF cond.means = 1 THEN yes.means ELSE no.means
        chosen == IF IsTaken(cond) THEN yes ELSE no
    IN  IF IsBool(cond) THEN [chosen EXCEPT !.means = means]
        ELSE SirValue(home, yes.type, Kept(home, yes.type, Operand(chosen)), means)

-----------------------------------------------------------------------------
(* The run. *)

Existing == {vals[i] : i \in DOMAIN vals}
Newest == vals[Len(vals)]
LiteralsOf(t) ==
    IF t = Logica THEN {ConstBool(TRUE, 1), ConstBool(FALSE, 0)}
    ELSE {ConstInt(t, n, n) : n \in {m \in Literals : Fits(m, t)}}

Going(kind) == plan # <<>> /\ Head(plan) = kind /\ plan' = Tail(plan)
Gives(v) == vals' = Append(vals, v)
Nothing == [op |-> "none"]

Init ==
    /\ type \in IntTypes
    /\ junk \in {0, 1}
    /\ plan \in Plans
    /\ \E n \in {m \in Literals : Fits(m, type)}, home \in Homes, passed \in Homes :
          vals = <<[id |-> 1, kind |-> home, type |-> type, means |-> n,
                    bits |-> IF passed = "register" THEN Kept(home, type, Pattern(n))
                             ELSE Loaded(home, type, Pattern(n))]>>
    /\ heap = [c \in {Cell[p] : p \in Pointers} |-> 0]
    /\ mem = heap
    /\ last = Nothing
    /\ branch = [to |-> 0, meant |-> 0]

(* The operands of a call: the newest value and another, or a literal. *)
Operands ==
    {Newest} \X (Existing \cup LiteralsOf(Newest.type))
      \cup (Existing \cup LiteralsOf(Newest.type)) \X {Newest}

(* a OP b; on truth values only what comparing and "!" make of them. *)
Binary ==
    /\ Going("compute")
    /\ \E op \in Arithmetic \cup Comparisons, home \in Homes, lr \in Operands :
          LET l == lr[1]
              r == lr[2]
          IN  /\ l.type = r.type
              /\ l.type = Logica => op \in {"eq", "ne"} \/ (op = "xor" /\ IsBool(r))
              /\ Defined(op, l.type, l.means, r.means)
              /\ op \in Divisions /\ l.type.size = "small" /\ ~NarrowOperands
                   => Clean(l) /\ Clean(r)
              /\ Gives(BuildBinary(op, l, r, home, Result(op, l.means, r.means)))
    /\ UNCHANGED <<type, junk, mem, heap, last, branch>>

Cast ==
    /\ Going("compute")
    /\ \E t \in IntTypes, home \in Homes :
          /\ Fits(Typed(Pattern(Newest.means), t), t)
          /\ Gives(BuildCast(Newest, t, home))
    /\ UNCHANGED <<type, junk, mem, heap, last, branch>>

Select ==
    /\ Going("compute")
    /\ \E cond \in {v \in Existing : v.type = Logica}, yes, no \in Existing, home \in Homes :
          /\ yes.type = no.type
          /\ Gives(BuildSelect(cond, yes, no, home))
    /\ UNCHANGED <<type, junk, mem, heap, last, branch>>

(* ir_build_store; the cells hold values of "type". *)
Store ==
    /\ Going("store")
    /\ \E p \in Pointers, v \in Existing \cup LiteralsOf(type) :
          /\ v.type = type
          /\ mem' = [mem EXCEPT ![Cell[p]] = Low(Operand(v), type.size)]
          /\ heap' = [heap EXCEPT ![Cell[p]] = v.means]
          /\ last' = [op |-> "store", val |-> v, ptr |-> p]
    /\ UNCHANGED <<type, junk, vals, branch>>

(* ir_build_load: the scan back through the block ends at the first STORE,  *)
(* CALL or MEMCPY it meets.                                                 *)
\* A fault: the store that is found need not be through the same pointer.
ForwardsAny(p) == last.op = "store"
Forwards(p) == last.op = "store" /\ last.ptr = p

Load ==
    /\ Going("load")
    /\ \E p \in Pointers, home \in Homes :
          LET n == heap[Cell[p]]
          IN  Gives(IF Forwards(p) THEN [last.val EXCEPT !.means = n]
                    ELSE SirValue(home, type, Loaded(home, type, mem[Cell[p]]), n))
    /\ UNCHANGED <<type, junk, mem, heap, last, branch>>

(* ir_build_call: the callee may write any cell. *)
Call ==
    /\ Going("call")
    /\ \E c \in DOMAIN mem, n \in {m \in Literals : Fits(m, type)} :
          /\ mem' = [mem EXCEPT ![c] = Low(Pattern(n), type.size)]
          /\ heap' = [heap EXCEPT ![c] = n]
    /\ last' = [op |-> "call"]
    /\ UNCHANGED <<type, junk, vals, branch>>

Memcpy ==
    /\ Going("copy")
    /\ \E p, q \in Pointers :
          /\ mem' = [mem EXCEPT ![Cell[p]] = mem[Cell[q]]]
          /\ heap' = [heap EXCEPT ![Cell[p]] = heap[Cell[q]]]
    /\ last' = [op |-> "memcpy"]
    /\ UNCHANGED <<type, junk, vals, branch>>

(* ir_build_br, which begins a new block. *)
Br ==
    /\ Going("branch")
    /\ Newest.type = Logica
    /\ branch' = [to |-> Truth(IsTaken(Newest)), meant |-> Newest.means]
    /\ last' = Nothing
    /\ UNCHANGED <<type, junk, vals, mem, heap>>

(* ir_build_switch with two cases, the second zero: a constant is compared  *)
(* here, in 64 bits, anything else by the machine in the size of its type.  *)
MatchesCase(v, n) ==
    IF IsInt(v) THEN Host(v.bits) = n
    ELSE Low(Operand(v), v.type.size) = Low(Pattern(n), v.type.size)

Switch ==
    /\ Going("branch")
    /\ Newest.type # Logica
    /\ \E n \in {m \in Literals \ {0} : Fits(m, Newest.type)} :
          branch' = [to |-> CASE MatchesCase(Newest, n) -> 1
                              [] ~MatchesCase(Newest, n) /\ MatchesCase(Newest, 0) -> 2
                              [] OTHER -> 0,
                     meant |-> CASE Newest.means = n -> 1
                                 [] Newest.means = 0 -> 2
                                 [] OTHER -> 0]
    /\ last' = Nothing
    /\ UNCHANGED <<type, junk, vals, mem, heap>>

(* The fast path: a comparison of the first parameter with a constant that  *)
(* begins the function is made before the prologue, on RCX as the caller    *)
(* left it and with the constant cut to 32 bits.  A constant of 64 bits     *)
(* that does not survive the cut is left out.                               *)
FastPath ==
    /\ Going("branch")
    /\ vals = <<Newest>>
    /\ type.size = "small" => NarrowOperands
    /\ \E op \in Comparisons, n \in {m \in Literals : Fits(m, type)} :
          LET rcx == Under(Pattern(vals[1].means), type.size)
              imm == Value(Pattern(n), "word", TRUE)
              size == IF type.size = "full" THEN "full" ELSE "word"
          IN  /\ type.size = "full" => imm = n
              /\ branch' = [to |-> Result(op, Value(rcx, size, type.signed),
                                         Value(Pattern(imm), size, type.signed)),
                            meant |-> Result(op, vals[1].means, n)]
    /\ last' = Nothing
    /\ UNCHANGED <<type, junk, vals, mem, heap>>

Finished == plan = <<>> /\ UNCHANGED vars

Next == \/ Binary \/ Cast \/ Select
        \/ Store \/ Load \/ Call \/ Memcpy
        \/ Br \/ Switch \/ FastPath
        \/ Finished

Spec == Init /\ [][Next]_vars

-----------------------------------------------------------------------------
(* Properties. *)

(* In a program that never overflows, whatever was folded, simplified away, *)
(* forwarded from a store or computed under undefined upper bits, the value *)
(* an expression is given is what the source means: a constant exactly, for *)
(* it is folded further in 64 bits, a vreg in the bits of its type.         *)
ValuesAreMeant ==
    \A v \in Existing :
        v.means = CASE IsInt(v)  -> Host(v.bits)
                    [] IsBool(v) -> v.bits
                    [] OTHER     -> Typed(v.bits, v.type)

(* A branch and a switch go where the source says, folded or not. *)
BranchesGoWhereMeant == branch.to = branch.meant

=============================================================================
