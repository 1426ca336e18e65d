------------------------------- MODULE Layout -------------------------------
(***************************************************************************)
(* Sizes and offsets of structures (middleend/types.c), and the code that  *)
(* stores and reads their fields, bit fields included (ir/ir_gen.c).       *)
(*                                                                         *)
(* A program is a sequence of structures, each of which may contain those  *)
(* before it; the last one is then used.  type_get_size() and              *)
(* type_get_field_layout() walk over the fields separately, with the same  *)
(* locals: here one step is the same turn of both walks.  (The second is   *)
(* cut off by its return at the field asked for; places keeps what it      *)
(* would return for each field.)                                           *)
(*                                                                         *)
(* Memory is a function on bits.  A bit of a stored value is a token, so   *)
(* that one run stands for all values: <<n, k>> is bit k of the n-th value *)
(* stored.                                                                 *)
(***************************************************************************)
EXTENDS Integers, Sequences, FiniteSets

CONSTANTS Programs,   \* sequences of [unio, densa, fields]; a field is [type, bits],
                      \* bits = 0 without mica; a type is <<name>>, <<"forma", k>> for the
                      \* k-th structure of the program, or <<"acies", length, type of these>>
          MaxStores   \* bound on the stores into the structure

VARIABLES
  decls, d,           \* the program; the structure being laid out
  i,                  \* index of the walks
  sized, alignment,   \* locals of type_get_size(); max_align of type_get_align()
  placed, places,     \* locals of type_get_field_layout(); its results so far
  done,               \* what both returned for the structures before d: [size, align]
  memory,             \* bits from the first of the structure on
  mode,               \* "walk"; then "local", "literal" or "data"
  stores,             \* number of stores so far
  last                \* the number of the value each field should hold; 0: zero, -1: undefined

layoutVars == <<decls, d, i, sized, alignment, placed, places, done>>
useVars    == <<memory, mode, stores, last>>
vars       == <<layoutVars, useVars>>

Struct == decls[d]
Fields == Struct.fields

-----------------------------------------------------------------------------
(* Types. *)

BasicSize ==
  [ nihil |-> 0, i8 |-> 1, p8 |-> 1, littera |-> 1, logica |-> 1, i16 |-> 2, p16 |-> 2,
    i32 |-> 4, p32 |-> 4, f32 |-> 4, ordo |-> 4, i64 |-> 8, p64 |-> 8, f64 |-> 8,
    via |-> 8, actio |-> 8, cohors |-> 16 ]
BasicAlign ==
  [ n \in DOMAIN BasicSize |->
      IF n = "nihil" THEN 1 ELSE IF n = "cohors" THEN 8 ELSE BasicSize[n] ]

Signed   == {"i8", "i16", "i32", "i64", "ordo"}

Element(t) == IF t[1] = "acies" THEN t[3] ELSE t
Length(t)  == IF t[1] = "acies" THEN t[2] ELSE 1
ElementSize(e)  == IF e[1] = "forma" THEN done[e[2]].size ELSE BasicSize[e[1]]
SizeOf(t)  == Length(t) * ElementSize(Element(t))
AlignOf(t) == LET e == Element(t) IN IF e[1] = "forma" THEN done[e[2]].align ELSE BasicAlign[e[1]]

\* What the type checker lets through: a type made of basic types and of structures before
\* the k-th, bit fields of integers or logica in formae only.
BitTypes == {"i8", "i16", "i32", "i64", "p8", "p16", "p32", "p64", "logica"}
ProperType(t, k) ==
  /\ Length(t) \in Nat
  /\ \/ Element(t)[1] = "forma" /\ Element(t)[2] \in 1 .. k - 1
     \/ Element(t)[1] # "forma" /\ Element(t)[1] \in DOMAIN BasicSize
ProperStruct(s, k) ==
  /\ s.unio \in BOOLEAN /\ s.densa \in BOOLEAN
  /\ Len(s.fields) \in Nat /\ DOMAIN s.fields = 1 .. Len(s.fields)
  /\ \A n \in DOMAIN s.fields :
       /\ ProperType(s.fields[n].type, k)
       /\ s.fields[n].bits \in Nat
       /\ s.unio => s.fields[n].bits = 0
       /\ s.fields[n].bits > 0 => s.fields[n].type[1] \in BitTypes
ASSUME ProgramsAssumption ==
  \A p \in Programs :
    /\ Len(p) \in Nat \ {0} /\ DOMAIN p = 1 .. Len(p)
    /\ \A k \in 1 .. Len(p) : ProperStruct(p[k], k)

-----------------------------------------------------------------------------
(* The walks. *)

\* (n + a - 1) & ~(a - 1), for a power of two
Up(n, a) == CASE a = 1 -> n
              [] a = 2 -> ((n + 1) \div 2) * 2
              [] a = 4 -> ((n + 3) \div 4) * 4
              [] a = 8 -> ((n + 7) \div 8) * 8
Bytes(bits) == (bits + 7) \div 8
Larger(m, n) == IF m > n THEN m ELSE n

FieldAlign(f) == IF Struct.densa THEN 1 ELSE AlignOf(f.type)

\* The next bit field does not fit behind the bits already in the unit.
Overflows(w, f) ==
  LET unit == SizeOf(f.type) * 8 IN w.bit > 0 /\ (w.bit % unit) + f.bits > unit

\* A fault: the bits in front of an ordinary field are forgotten.
SizeTurnUnflushed(w, f) ==
  LET a == FieldAlign(f)
  IN [byte |-> IF f.bits > 0 THEN w.byte ELSE Up(w.byte, a) + SizeOf(f.type),
      bit  |-> IF f.bits > 0 THEN w.bit + f.bits ELSE 0]

\* One turn of the loop of type_get_size().
SizeTurn(w, f) ==
  LET a == FieldAlign(f)
  IN IF f.bits > 0
     THEN IF Struct.densa         THEN [byte |-> w.byte, bit |-> w.bit + f.bits]
          ELSE IF Overflows(w, f) THEN [byte |-> Up(w.byte + Bytes(w.bit), a), bit |-> f.bits]
          ELSE [byte |-> IF w.bit = 0 THEN Up(w.byte, a) ELSE w.byte, bit |-> w.bit + f.bits]
     ELSE [byte |-> Up(w.byte + Bytes(w.bit), a) + SizeOf(f.type), bit |-> 0]

\* A fault: the last byte of the bits is shared with the next field.
FlushedShort(w, f) == [byte |-> Up(w.byte + w.bit \div 8, FieldAlign(f)), bit |-> 0]

\* The next unit behind the bits that are not flushed yet.
Flushed(w, f) == [byte |-> Up(w.byte + Bytes(w.bit), FieldAlign(f)), bit |-> 0]

\* The first half of a turn of type_get_field_layout(): where the field begins.
Begins(w, f) ==
  IF f.bits = 0        THEN Flushed(w, f)
  ELSE IF Struct.densa   THEN w
  ELSE IF Overflows(w, f) THEN Flushed(w, f)
  ELSE IF w.bit = 0       THEN [byte |-> Up(w.byte, FieldAlign(f)), bit |-> 0]
  ELSE w

\* The second half.
Behind(w, f) ==
  IF f.bits > 0 THEN [byte |-> w.byte, bit |-> w.bit + f.bits]
                ELSE [byte |-> w.byte + SizeOf(f.type), bit |-> w.bit]

\* What it returns for the field.
Place(w) ==
  IF Struct.densa THEN [byte |-> w.byte + w.bit \div 8, bit |-> w.bit % 8] ELSE w

Zero2 == [byte |-> 0, bit |-> 0]
WalkTurn ==
  /\ mode = "walk" /\ ~Struct.unio /\ i <= Len(Fields)
  /\ LET f == Fields[i]
         w == Begins(placed, f)
     IN /\ sized' = SizeTurn(sized, f)
        /\ alignment' = Larger(alignment, FieldAlign(f))
        /\ placed' = Behind(w, f)
        /\ places' = Append(places, Place(w))
  /\ i' = i + 1
  /\ UNCHANGED <<decls, d, done, useVars>>

\* In a union every field is at its beginning; the size is the largest.
UnionTurn ==
  /\ mode = "walk" /\ Struct.unio /\ i <= Len(Fields)
  /\ sized' = [sized EXCEPT !.byte = Larger(@, SizeOf(Fields[i].type))]
  /\ alignment' = Larger(alignment, FieldAlign(Fields[i]))
  /\ places' = Append(places, Zero2)
  /\ i' = i + 1
  /\ UNCHANGED <<decls, d, placed, done, useVars>>

\* A fault: the size is not rounded up.
FinalSizeUnrounded == sized.byte + Bytes(sized.bit)

\* Behind the loop of type_get_size().
FinalSize == LET n == sized.byte + Bytes(sized.bit)
             IN IF Struct.densa THEN n ELSE Up(n, alignment)

NextStruct ==
  /\ mode = "walk" /\ i > Len(Fields) /\ d < Len(decls)
  /\ done' = Append(done, [size |-> FinalSize, align |-> alignment])
  /\ d' = d + 1 /\ i' = 1
  /\ sized' = Zero2 /\ placed' = Zero2 /\ places' = <<>> /\ alignment' = 1
  /\ UNCHANGED <<decls, useVars>>

-----------------------------------------------------------------------------
(* Using the last structure. *)

Outside == 8                  \* bytes behind the structure that are looked at
ZeroBit == <<0, 0>>
Garbage(k) == <<-1, k>>

\* type_get_size() as all users of the structure see it.
Size == FinalSize

\* The variable: uninitialised (alloca), zeroed by the code of a literal, or the zeroed
\* buffer of a constant.
Begin(m) ==
  /\ mode = "walk" /\ i > Len(Fields) /\ d = Len(decls)
  /\ mode' = m
  /\ memory' = [k \in 0 .. 8 * (Size + Outside) - 1 |->
                  IF m # "local" /\ k < 8 * Size THEN ZeroBit ELSE Garbage(k)]
  /\ last' = [n \in DOMAIN Fields |-> IF m = "local" THEN -1 ELSE 0]
  /\ UNCHANGED <<layoutVars, stores>>

(* Machine integers of w bits, as functions on 0 .. w - 1. *)
Mask(v, bits)  == [k \in DOMAIN v |-> IF k < bits THEN v[k] ELSE ZeroBit]
\* The processor takes the shift amount modulo 32, or 64 for 64-bit operands.
Amount(v, n)   == n % (IF Cardinality(DOMAIN v) = 64 THEN 64 ELSE 32)
Shl(v, n)      == [k \in DOMAIN v |-> IF k < n THEN ZeroBit ELSE v[k - n]]
Shr(v, n, top) == [k \in DOMAIN v |-> IF k + n \in DOMAIN v THEN v[k + n] ELSE top]
Top(v, signed) == IF signed THEN v[Cardinality(DOMAIN v) - 1] ELSE ZeroBit
Or(v, w)       == [k \in DOMAIN v |-> IF v[k] = ZeroBit THEN w[k]
                                      ELSE IF w[k] = ZeroBit THEN v[k] ELSE <<-2, k>>]
Cleared(v, from, bits) == [k \in DOMAIN v |-> IF from <= k /\ k < from + bits THEN ZeroBit ELSE v[k]]

\* The bits of memory a field's type covers at the field's address.
Width(n)  == 8 * SizeOf(Fields[n].type)
Load(n)   == [k \in 0 .. Width(n) - 1 |-> memory[8 * places[n].byte + k]]
StoreAt(n, v) ==
  [k \in DOMAIN memory |-> LET b == k - 8 * places[n].byte IN IF b \in DOMAIN v THEN v[b] ELSE memory[k]]

\* The value being stored.
Value(n) == [k \in 0 .. Width(n) - 1 |-> <<stores + 1, k>>]

\* A fault: the old bits stay.
MergedOver(n) == Or(Load(n), Shl(Mask(Value(n), Fields[n].bits), Amount(Value(n), places[n].bit)))

\* Read, clear, insert: the generated code, computing in the width of the field's type.
Merged(n) ==
  LET v == Shl(Mask(Value(n), Fields[n].bits), Amount(Value(n), places[n].bit))
  IN Or(Cleared(Load(n), places[n].bit, Fields[n].bits), v)

Stored(n, v) ==
  /\ stores < MaxStores /\ stores' = stores + 1
  /\ memory' = StoreAt(n, v)
  /\ last' = [m \in DOMAIN last |-> IF m = n THEN stores + 1 ELSE IF Struct.unio THEN -1 ELSE last[m]]
  /\ UNCHANGED layoutVars

\* A field of a structure literal.
LiteralField(n) ==
  /\ mode = "literal" /\ last[n] = 0
  /\ Stored(n, IF Fields[n].bits > 0 THEN Merged(n) ELSE Value(n))
  /\ UNCHANGED mode

\* An assignment; for += and its kin the value is made of what ReadField yields.
Assign(n) ==
  /\ mode \in {"local", "literal", "data"}
  /\ Stored(n, IF Fields[n].bits > 0 THEN Merged(n) ELSE Value(n))
  /\ mode' = "local"

\* The compiler's own integers, 64 bits wide whatever the type.
Wide(v) == [k \in 0 .. 63 |-> IF k \in DOMAIN v THEN v[k] ELSE ZeroBit]
ConstantMerged(n) ==
  LET merged == Or(Cleared(Wide(Load(n)), places[n].bit, Fields[n].bits),
                   Shl(Mask(Wide(Value(n)), Fields[n].bits), places[n].bit))
  IN [k \in 0 .. Width(n) - 1 |-> merged[k]]

\* A field of a literal that is evaluated by the compiler: 64 bits wide, then cut off.
ConstantField(n) ==
  /\ mode = "data" /\ last[n] = 0
  /\ Stored(n, IF Fields[n].bits > 0 THEN ConstantMerged(n) ELSE Value(n))
  /\ UNCHANGED mode

\* The value of s.f.
ReadField(n) ==
  LET bits   == Fields[n].bits
      signed == Fields[n].type[1] \in Signed
      low    == Mask(Shr(Load(n), Amount(Load(n), places[n].bit), Top(Load(n), signed)), bits)
      shift  == Width(n) - bits
      high   == Shl(low, shift)
  IN IF bits = 0 THEN Load(n)
     ELSE IF signed /\ shift > 0 THEN Shr(high, shift, Top(high, TRUE))
     ELSE low

-----------------------------------------------------------------------------
Init ==
  /\ decls \in Programs /\ d = 1 /\ i = 1
  /\ sized = Zero2 /\ alignment = 1 /\ placed = Zero2 /\ places = <<>> /\ done = <<>>
  /\ memory = <<>> /\ mode = "walk" /\ stores = 0 /\ last = <<>>

Next ==
  \/ WalkTurn \/ UnionTurn \/ NextStruct
  \/ \E m \in {"local", "literal", "data"} : Begin(m)
  \/ \E n \in DOMAIN last : LiteralField(n) \/ Assign(n) \/ ConstantField(n)

Spec == Init /\ [][Next]_vars

-----------------------------------------------------------------------------
(* Correctness. *)

\* The bits of a field: from Start to before End, counted from the structure.
Start(n) == 8 * places[n].byte + places[n].bit
End(n)   == Start(n) + (IF Fields[n].bits > 0 THEN Fields[n].bits ELSE 8 * SizeOf(Fields[n].type))

\* The places type_get_field_layout() gives to the fields of a structure follow each
\* other without overlap, whatever mixture of bit fields and others it has.
FieldsApart ==
  ~Struct.unio =>
    \A m, n \in DOMAIN places : m < n => End(m) <= Start(n)

\* All fields lie inside of the size that type_get_size() computes with a walk of its own.
SizeCovers ==
  i > Len(Fields) => \A n \in DOMAIN places : End(n) <= 8 * FinalSize

\* Where C requires it, in structures without densa, fields that are not bit fields
\* are aligned, also in every element of an array of such structures
\* (docs/SYNTAX.md:131).
Aligned ==
  ~Struct.densa =>
    /\ \A n \in DOMAIN places : Fields[n].bits = 0 => places[n].byte % AlignOf(Fields[n].type) = 0
    /\ i > Len(Fields) =>
         /\ FinalSize % alignment = 0
         /\ \A n \in DOMAIN places : alignment % AlignOf(Fields[n].type) = 0

\* Every bit field lies inside of the unit it is read and written with.
Tame == \A n \in DOMAIN places :
          Fields[n].bits > 0 => places[n].bit + Fields[n].bits <= 8 * SizeOf(Fields[n].type)

\* What field n should read as.
Expected(n) ==
  LET bits == IF Fields[n].bits > 0 THEN Fields[n].bits ELSE Width(n)
      top  == IF Fields[n].type[1] \in Signed THEN bits - 1 ELSE -1
      bit(k) == IF last[n] = 0 THEN ZeroBit ELSE <<last[n], k>>
  IN [k \in 0 .. Width(n) - 1 |-> IF k < bits THEN bit(k) ELSE IF top >= 0 THEN bit(top) ELSE ZeroBit]

\* Each field reads as the value last stored into it, extended by its sign, whatever
\* was stored into the fields around it and by whichever of the three pieces of code,
\* and nothing behind the structure changes.
FieldsKeepValues ==
  mode # "walk" =>
    /\ \A n \in DOMAIN last : last[n] >= 0 => ReadField(n) = Expected(n)
    /\ \A k \in DOMAIN memory : k >= 8 * Size => memory[k] = Garbage(k)

TameFieldsKeepValues == Tame => FieldsKeepValues
=============================================================================
