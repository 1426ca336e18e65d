---------------------------- MODULE LayoutProofs ----------------------------
(***************************************************************************)
(* The layout of Layout.tla for every program: fields do not overlap, the  *)
(* size computed by the walk of type_get_size() covers the places that the *)
(* walk of type_get_field_layout() gives to them, ordinary fields are      *)
(* aligned, and every field reads back as it was stored.  The two walks    *)
(* agree turn by turn (sized = placed), and all fields before the index    *)
(* end where the walk stands; memory is described bit by bit.              *)
(***************************************************************************)
EXTENDS Layout, FiniteSetTheorems, TLAPS

Powers == {1, 2, 4, 8}
Spot   == [byte : Nat, bit : Nat]
At(w)  == 8 * w.byte + w.bit

LEMMA UpBounds == \A n \in Nat, a \in Powers : Up(n, a) \in Nat /\ Up(n, a) >= n
  BY DEF Up, Powers

LEMMA BytesBounds == \A n \in Nat : Bytes(n) \in Nat /\ 8 * Bytes(n) >= n
  BY DEF Bytes

LEMMA LargerPowers == \A a, b \in Powers : Larger(a, b) \in Powers
  BY DEF Larger, Powers

LEMMA LargerBounds == \A a, b \in Nat : Larger(a, b) \in Nat /\ Larger(a, b) >= a /\ Larger(a, b) >= b
  BY DEF Larger

-----------------------------------------------------------------------------
(* One turn of a walk over a forma. *)

\* The flush goes to a later place, at a byte.
LEMMA FlushForward ==
  ASSUME NEW w \in Spot, NEW f, FieldAlign(f) \in Powers
  PROVE  /\ Flushed(w, f) \in Spot
         /\ Flushed(w, f).bit = 0
         /\ At(Flushed(w, f)) >= At(w)
<1> DEFINE b == w.byte + Bytes(w.bit)
<1>1. w.byte \in Nat /\ w.bit \in Nat
  BY DEF Spot
<1>2. Bytes(w.bit) \in Nat /\ 8 * Bytes(w.bit) >= w.bit
  BY <1>1, BytesBounds
<1>3. b \in Nat
  BY <1>1, <1>2
<1>4. Up(b, FieldAlign(f)) \in Nat /\ Up(b, FieldAlign(f)) >= b
  BY <1>3, UpBounds
<1>5. Flushed(w, f) = [byte |-> Up(b, FieldAlign(f)), bit |-> 0]
  BY DEF Flushed
<1> HIDE DEF b
<1>6. At(Flushed(w, f)) = 8 * Up(b, FieldAlign(f))
  BY <1>4, <1>5 DEF At
<1>7. 8 * Up(b, FieldAlign(f)) >= 8 * w.byte + w.bit
  BY <1>1, <1>2, <1>3, <1>4 DEF b
<1> QED
  BY <1>4, <1>5, <1>6, <1>7 DEF At, Spot

\* A field begins at or behind the place where the walk stands.
LEMMA BeginsForward ==
  ASSUME NEW w \in Spot, NEW f, FieldAlign(f) \in Powers
  PROVE  Begins(w, f) \in Spot /\ At(Begins(w, f)) >= At(w)
<1>1. CASE Begins(w, f) = Flushed(w, f)
  BY <1>1, FlushForward
<1>2. CASE Begins(w, f) = w
  BY <1>2 DEF At, Spot
<1>3. CASE w.bit = 0 /\ Begins(w, f) = [byte |-> Up(w.byte, FieldAlign(f)), bit |-> 0]
  <2>1. w.byte \in Nat /\ w.bit \in Nat
    BY DEF Spot
  <2>2. Up(w.byte, FieldAlign(f)) \in Nat /\ Up(w.byte, FieldAlign(f)) >= w.byte
    BY <2>1, UpBounds
  <2> QED
    BY <1>3, <2>1, <2>2 DEF At, Spot
<1> QED
  BY <1>1, <1>2, <1>3 DEF Begins

\* The walk of type_get_size() ends its turn where the other walk ends it.
LEMMA SameTurn ==
  ASSUME NEW w \in Spot, NEW f, f.bits \in Nat
  PROVE  SizeTurn(w, f) = Behind(Begins(w, f), f)
<1> DEFINE a == FieldAlign(f)
<1>1. w = [byte |-> w.byte, bit |-> w.bit]
  BY DEF Spot
<1>2. CASE f.bits = 0
  <2>1. Begins(w, f) = [byte |-> Up(w.byte + Bytes(w.bit), a), bit |-> 0]
    BY <1>2 DEF Begins, Flushed
  <2>2. Behind(Begins(w, f), f) = [byte |-> Up(w.byte + Bytes(w.bit), a) + SizeOf(f.type), bit |-> 0]
    BY <1>2, <2>1 DEF Behind
  <2> QED
    BY <1>2, <2>2 DEF SizeTurn
<1>3. CASE f.bits > 0 /\ Struct.densa
  BY <1>3 DEF SizeTurn, Begins, Behind
<1>4. CASE f.bits > 0 /\ ~Struct.densa /\ Overflows(w, f)
  <2>1. Begins(w, f) = [byte |-> Up(w.byte + Bytes(w.bit), a), bit |-> 0]
    BY <1>4 DEF Begins, Flushed
  <2>2. Behind(Begins(w, f), f) = [byte |-> Up(w.byte + Bytes(w.bit), a), bit |-> f.bits]
    BY <1>4, <2>1 DEF Behind
  <2> QED
    BY <1>4, <2>2 DEF SizeTurn
<1>5. CASE f.bits > 0 /\ ~Struct.densa /\ ~Overflows(w, f) /\ w.bit = 0
  <2>1. Begins(w, f) = [byte |-> Up(w.byte, a), bit |-> 0]
    BY <1>1, <1>5 DEF Begins
  <2>2. Behind(Begins(w, f), f) = [byte |-> Up(w.byte, a), bit |-> f.bits]
    BY <1>5, <2>1 DEF Behind
  <2> QED
    BY <1>5, <2>2 DEF SizeTurn
<1>6. CASE f.bits > 0 /\ ~Struct.densa /\ ~Overflows(w, f) /\ w.bit # 0
  <2>1. Begins(w, f) = w
    BY <1>6 DEF Begins
  <2>2. Behind(Begins(w, f), f) = [byte |-> w.byte, bit |-> w.bit + f.bits]
    BY <1>1, <1>6, <2>1 DEF Behind
  <2> QED
    BY <1>6, <2>2 DEF SizeTurn
<1> QED
  BY <1>2, <1>3, <1>4, <1>5, <1>6

\* The place returned names the bit where the field begins.
LEMMA PlaceIsAt ==
  ASSUME NEW w \in Spot
  PROVE  Place(w) \in Spot /\ At(Place(w)) = At(w)
<1>1. w.byte \in Nat /\ w.bit \in Nat
  BY DEF Spot
<1>2. CASE Struct.densa
  <2>1. Place(w) = [byte |-> w.byte + w.bit \div 8, bit |-> w.bit % 8]
    BY <1>2 DEF Place
  <2>2. /\ w.bit \div 8 \in Nat /\ w.bit % 8 \in Nat
        /\ w.bit = 8 * (w.bit \div 8) + (w.bit % 8)
    BY <1>1
  <2> QED
    BY <1>1, <2>1, <2>2 DEF At, Spot
<1>3. CASE ~Struct.densa
  BY <1>3 DEF Place
<1> QED
  BY <1>2, <1>3

\* The number of bits a field takes.
Extent(f) == IF f.bits > 0 THEN f.bits ELSE 8 * SizeOf(f.type)

LEMMA BehindTheField ==
  ASSUME NEW w \in Spot, NEW f, f.bits \in Nat, SizeOf(f.type) \in Nat
  PROVE  Behind(w, f) \in Spot /\ At(Behind(w, f)) = At(w) + Extent(f)
<1>1. w = [byte |-> w.byte, bit |-> w.bit] /\ w.byte \in Nat /\ w.bit \in Nat
  BY DEF Spot
<1>2. CASE f.bits > 0
  <2>1. Behind(w, f) = [byte |-> w.byte, bit |-> w.bit + f.bits]
    BY <1>1, <1>2 DEF Behind
  <2> QED
    BY <1>1, <1>2, <2>1 DEF At, Extent, Spot
<1>3. CASE f.bits = 0
  <2>1. Behind(w, f) = [byte |-> w.byte + SizeOf(f.type), bit |-> w.bit]
    BY <1>1, <1>3 DEF Behind
  <2> QED
    BY <1>1, <1>3, <2>1 DEF At, Extent, Spot
<1> QED
  BY <1>2, <1>3
-----------------------------------------------------------------------------
(* The inductive invariant. *)

Done == [size : Nat, align : Powers]

\* The structures already laid out, and the walks' index and alignment.
Positions ==
  /\ decls \in Programs
  /\ d \in 1 .. Len(decls)
  /\ i \in 1 .. Len(Fields) + 1
  /\ done \in Seq(Done) /\ Len(done) = d - 1
  /\ alignment \in Powers
  /\ places \in Seq(Spot) /\ Len(places) = i - 1
  /\ sized \in Spot /\ placed \in Spot

\* In a forma the walks stand at the same place, and every field before the index ends
\* where they stand or before, and before the next field begins.
Behindhand ==
  ~Struct.unio =>
    /\ sized = placed
    /\ \A n \in DOMAIN places : At(places[n]) + Extent(Fields[n]) <= At(placed)
    /\ \A m, n \in DOMAIN places : m < n => At(places[m]) + Extent(Fields[m]) <= At(places[n])

\* In a union they start at its beginning and the size is at least theirs.
Within ==
  Struct.unio => \A n \in DOMAIN places :
                   places[n] = Zero2 /\ SizeOf(Fields[n].type) <= sized.byte

LayoutInv == Positions /\ Behindhand /\ Within

LEMMA BasicTypes ==
  \A n \in DOMAIN BasicSize : BasicSize[n] \in Nat /\ BasicAlign[n] \in Powers
<1> DEFINE names == {"nihil", "i8", "p8", "littera", "logica", "i16", "p16", "i32", "p32", "f32",
                     "ordo", "i64", "p64", "f64", "via", "actio", "cohors"}
<1>1. DOMAIN BasicSize = names
  BY DEF BasicSize
<1>2. \A n \in names : BasicSize[n] \in Nat /\ (n \notin {"nihil", "cohors"} => BasicSize[n] \in Powers)
  BY DEF BasicSize, Powers
<1> QED
  BY <1>1, <1>2 DEF BasicAlign, Powers

LEMMA FieldIsProper ==
  ASSUME LayoutInv, NEW n \in DOMAIN Fields
  PROVE  /\ DOMAIN Fields = 1 .. Len(Fields) /\ Len(Fields) \in Nat
         /\ Fields[n].bits \in Nat
         /\ Struct.unio => Fields[n].bits = 0
         /\ SizeOf(Fields[n].type) \in Nat
         /\ FieldAlign(Fields[n]) \in Powers
         /\ Struct.unio \in BOOLEAN
<1> DEFINE t == Fields[n].type
           e == Element(t)
<1>1. ProperStruct(Struct, d)
  BY ProgramsAssumption DEF LayoutInv, Positions, Struct
<1>2. /\ DOMAIN Fields = 1 .. Len(Fields) /\ Len(Fields) \in Nat
      /\ ProperType(t, d) /\ Fields[n].bits \in Nat /\ (Struct.unio => Fields[n].bits = 0)
      /\ Struct.unio \in BOOLEAN
  BY <1>1 DEF ProperStruct, Fields
<1>3. Length(t) \in Nat
  BY <1>2 DEF ProperType
<1>4. ElementSize(e) \in Nat /\ AlignOf(t) \in Powers
  <2>1. CASE e[1] = "forma"
    <3>1. e[2] \in 1 .. d - 1
      BY <1>2, <2>1 DEF ProperType
    <3>2. done[e[2]] \in Done
      BY <3>1 DEF LayoutInv, Positions
    <3> QED
      BY <2>1, <3>2 DEF ElementSize, AlignOf, Done
  <2>2. CASE e[1] # "forma"
    <3>1. e[1] \in DOMAIN BasicSize
      BY <1>2, <2>2 DEF ProperType
    <3>2. BasicSize[e[1]] \in Nat /\ BasicAlign[e[1]] \in Powers
      BY <3>1, BasicTypes
    <3> QED
      BY <2>2, <3>2 DEF ElementSize, AlignOf
  <2> QED
    BY <2>1, <2>2
<1>5. SizeOf(t) \in Nat
  <2> HIDE DEF t
  <2>1. \A a, b \in Nat : a * b \in Nat
    OBVIOUS
  <2> QED
    BY <1>3, <1>4, <2>1 DEF SizeOf, e
<1>6. FieldAlign(Fields[n]) \in Powers
  BY <1>4 DEF FieldAlign, Powers
<1> QED
  BY <1>2, <1>5, <1>6

-----------------------------------------------------------------------------
(* Every step keeps it. *)

LEMMA InitInv == Init => LayoutInv
<1> SUFFICES ASSUME Init PROVE LayoutInv
  OBVIOUS
<1>1. Zero2 \in Spot
  BY DEF Zero2, Spot
<1>2. Len(decls) \in Nat \ {0} /\ ProperStruct(Struct, 1)
  BY ProgramsAssumption DEF Init, Struct
<1>3. Len(Fields) \in Nat
  BY <1>2 DEF ProperStruct, Fields
<1>4. Positions
  BY <1>1, <1>2, <1>3 DEF Init, Positions, Powers
<1>5. DOMAIN places = {}
  BY DEF Init
<1> QED
  BY <1>4, <1>5 DEF Init, LayoutInv, Behindhand, Within

\* What a turn of either walk leaves alone.
LEMMA TurnFrame ==
  ASSUME UNCHANGED <<decls, d, done>>
  PROVE  /\ Struct' = Struct /\ Fields' = Fields
         /\ \A n : Extent(Fields[n])' = Extent(Fields[n])
         /\ \A n : SizeOf(Fields[n].type)' = SizeOf(Fields[n].type)
<1>1. Struct' = Struct /\ Fields' = Fields
  BY DEF Struct, Fields
<1>2. \A n : SizeOf(Fields[n].type)' = SizeOf(Fields[n].type)
  BY DEF SizeOf, ElementSize, Fields, Struct
<1>3. \A n : Extent(Fields[n])' = Extent(Fields[n])
  BY DEF Extent, SizeOf, ElementSize, Fields, Struct
<1> QED
  BY <1>1, <1>2, <1>3

LEMMA WalkTurnKeeps == LayoutInv /\ WalkTurn => LayoutInv'
<1> SUFFICES ASSUME LayoutInv, WalkTurn PROVE LayoutInv'
  OBVIOUS
<1> DEFINE f == Fields[i]
           w == Begins(placed, f)
<1>1. UNCHANGED <<decls, d, done>> /\ i' = i + 1 /\ ~Struct.unio
  BY DEF WalkTurn
<1>2. i \in Nat /\ i \in DOMAIN Fields /\ placed \in Spot /\ places \in Seq(Spot) /\ Len(places) = i - 1
  <2>1. ProperStruct(Struct, d)
    BY ProgramsAssumption DEF LayoutInv, Positions, Struct
  <2>2. DOMAIN Fields = 1 .. Len(Fields) /\ Len(Fields) \in Nat
    BY <2>1 DEF ProperStruct, Fields
  <2>3. i <= Len(Fields)
    BY DEF WalkTurn
  <2> QED
    BY <2>2, <2>3 DEF LayoutInv, Positions
<1>3. /\ Len(Fields) \in Nat /\ f.bits \in Nat /\ SizeOf(f.type) \in Nat /\ FieldAlign(f) \in Powers
      /\ DOMAIN Fields = 1 .. Len(Fields)
  BY <1>2, FieldIsProper
<1>4. w \in Spot /\ At(w) >= At(placed)
  BY <1>2, <1>3, BeginsForward
<1>5. Place(w) \in Spot /\ At(Place(w)) = At(w)
  BY <1>4, PlaceIsAt
<1>6. placed' \in Spot /\ At(placed') = At(w) + Extent(f)
  BY <1>3, <1>4, BehindTheField DEF WalkTurn
<1>7. sized' = placed'
  <2>1. sized = placed
    BY <1>1 DEF LayoutInv, Behindhand
  <2>2. SizeTurn(placed, f) = Behind(w, f)
    BY <1>2, <1>3, SameTurn
  <2> QED
    BY <2>1, <2>2 DEF WalkTurn
<1>8. /\ places' \in Seq(Spot) /\ Len(places') = i
      /\ places'[i] = Place(w)
      /\ \A n \in 1 .. i - 1 : places'[n] = places[n]
  <2>1. places' = Append(places, Place(w))
    BY DEF WalkTurn
  <2> HIDE DEF w
  <2> QED
    BY <1>2, <1>5, <2>1
<1>9. \A n : Extent(Fields[n])' = Extent(Fields[n])
  BY <1>1, TurnFrame
<1>10. Struct' = Struct /\ Fields' = Fields
  BY <1>1, TurnFrame
<1>11. Positions'
  <2>1. alignment' \in Powers
    BY <1>3, LargerPowers DEF LayoutInv, Positions, WalkTurn
  <2> QED
    BY <1>1, <1>2, <1>3, <1>6, <1>7, <1>8, <1>10, <2>1 DEF LayoutInv, Positions
<1>12. Behindhand'
  <2> DEFINE E(n) == At(places[n]) + Extent(Fields[n])
  <2>1. \A n \in 1 .. i : Extent(Fields[n]) \in Nat
    BY <1>2, <1>3, FieldIsProper DEF Extent
  <2>2. \A n \in 1 .. i - 1 : At(places[n]) \in Nat
    <3>1. \A n \in 1 .. i - 1 : places[n] \in Spot
      BY <1>2
    <3>2. \A v \in Spot : At(v) \in Nat
      BY DEF At, Spot
    <3> QED
      BY <3>1, <3>2
  <2>3. At(placed) \in Nat /\ At(w) \in Nat /\ At(placed') \in Nat
    BY <1>2, <1>4, <1>6 DEF At, Spot
  <2>4. \A n \in 1 .. i - 1 : E(n) <= At(placed)
    BY <1>1, <1>2 DEF LayoutInv, Behindhand
  <2>5. \A m, n \in 1 .. i - 1 : m < n => E(m) <= At(places[n])
    BY <1>1, <1>2 DEF LayoutInv, Behindhand
  <2>6. \A n \in 1 .. i - 1 : E(n) \in Nat
    BY <1>2, <2>1, <2>2
  <2>7. \A n \in 1 .. i - 1 : E(n) <= At(w) /\ E(n) <= At(placed')
    BY <1>2, <1>4, <1>6, <2>1, <2>3, <2>4, <2>6
  <2>8. DOMAIN places' = 1 .. i
    BY <1>2, <1>8
  <2>9. \A n \in 1 .. i : At(places'[n]) + Extent(Fields[n]) <= At(placed')
    BY <1>2, <1>5, <1>6, <1>8, <2>1, <2>3, <2>7
  <2>10. ASSUME NEW m \in 1 .. i, NEW n \in 1 .. i, m < n
         PROVE  At(places'[m]) + Extent(Fields[m]) <= At(places'[n])
    <3>1. m \in 1 .. i - 1
      BY <1>2, <2>10
    <3>2. CASE n = i
      BY <1>5, <1>8, <2>7, <3>1, <3>2
    <3>3. CASE n \in 1 .. i - 1
      BY <1>8, <2>5, <2>10, <3>1, <3>3
    <3> QED
      BY <1>2, <3>2, <3>3
  <2>11. \A n : At(places[n])' = At(places'[n]) /\ At(placed)' = At(placed')
    BY DEF At
  <2> QED
    BY <1>7, <1>9, <2>8, <2>9, <2>10, <2>11 DEF Behindhand
<1>13. Within'
  BY <1>1, <1>10 DEF Within
<1> QED
  BY <1>11, <1>12, <1>13 DEF LayoutInv

LEMMA UnionTurnKeeps == LayoutInv /\ UnionTurn => LayoutInv'
<1> SUFFICES ASSUME LayoutInv, UnionTurn PROVE LayoutInv'
  OBVIOUS
<1> DEFINE f == Fields[i]
<1>1. UNCHANGED <<decls, d, done, placed>> /\ i' = i + 1 /\ Struct.unio
  BY DEF UnionTurn
<1>2. i \in Nat /\ i \in DOMAIN Fields /\ sized \in Spot /\ places \in Seq(Spot) /\ Len(places) = i - 1
  <2>1. ProperStruct(Struct, d)
    BY ProgramsAssumption DEF LayoutInv, Positions, Struct
  <2>2. DOMAIN Fields = 1 .. Len(Fields) /\ Len(Fields) \in Nat
    BY <2>1 DEF ProperStruct, Fields
  <2>3. i <= Len(Fields)
    BY DEF UnionTurn
  <2> QED
    BY <2>2, <2>3 DEF LayoutInv, Positions
<1>3. /\ Len(Fields) \in Nat /\ SizeOf(f.type) \in Nat /\ FieldAlign(f) \in Powers
      /\ DOMAIN Fields = 1 .. Len(Fields)
  BY <1>2, FieldIsProper
<1>4. /\ sized' \in Spot /\ sized'.byte >= sized.byte /\ sized'.byte >= SizeOf(f.type)
  <2>1. sized' = [sized EXCEPT !.byte = Larger(sized.byte, SizeOf(f.type))]
    BY DEF UnionTurn
  <2>2. sized.byte \in Nat
    BY <1>2 DEF Spot
  <2> DEFINE b == Larger(sized.byte, SizeOf(f.type))
  <2>3. b \in Nat /\ b >= sized.byte /\ b >= SizeOf(f.type)
    BY <1>3, <2>2, LargerBounds
  <2> HIDE DEF b, f
  <2>4. sized' = [sized EXCEPT !.byte = b]
    BY <2>1 DEF b
  <2> QED
    BY <1>2, <2>3, <2>4 DEF Spot
<1>5. Zero2 \in Spot
  BY DEF Zero2, Spot
<1>6. /\ places' \in Seq(Spot) /\ Len(places') = i
      /\ places'[i] = Zero2
      /\ \A n \in 1 .. i - 1 : places'[n] = places[n]
  <2>1. places' = Append(places, Zero2)
    BY DEF UnionTurn
  <2> QED
    BY <1>2, <1>5, <2>1
<1>7. Struct' = Struct /\ Fields' = Fields /\ \A n : SizeOf(Fields[n].type)' = SizeOf(Fields[n].type)
  BY <1>1, TurnFrame
<1>8. Positions'
  <2>1. alignment' \in Powers
    BY <1>3, LargerPowers DEF LayoutInv, Positions, UnionTurn
  <2> QED
    BY <1>1, <1>2, <1>3, <1>4, <1>6, <1>7, <2>1 DEF LayoutInv, Positions
<1>9. Behindhand'
  BY <1>1, <1>7 DEF Behindhand
<1>10. Within'
  <2>1. DOMAIN places' = 1 .. i
    BY <1>2, <1>6
  <2>2. \A n \in 1 .. i - 1 : places[n] = Zero2 /\ SizeOf(Fields[n].type) <= sized.byte
    BY <1>1, <1>2 DEF LayoutInv, Within
  <2>3. \A n \in 1 .. i : SizeOf(Fields[n].type) \in Nat
    BY <1>2, <1>3, FieldIsProper
  <2>4. sized.byte \in Nat /\ sized'.byte \in Nat
    BY <1>2, <1>4 DEF Spot
  <2>5. \A n \in 1 .. i : places'[n] = Zero2 /\ SizeOf(Fields[n].type) <= sized'.byte
    BY <1>2, <1>4, <1>6, <2>2, <2>3, <2>4
  <2> QED
    BY <1>7, <2>1, <2>5 DEF Within
<1> QED
  BY <1>8, <1>9, <1>10 DEF LayoutInv

\* The size of a structure whose fields are all laid out.
LEMMA FinalSizeIsBehind ==
  ASSUME LayoutInv
  PROVE  FinalSize \in Nat /\ At(sized) <= 8 * FinalSize /\ sized.byte <= FinalSize
<1> DEFINE n == sized.byte + Bytes(sized.bit)
<1>1. sized.byte \in Nat /\ sized.bit \in Nat /\ alignment \in Powers
  BY DEF LayoutInv, Positions, Spot
<1>2. Bytes(sized.bit) \in Nat /\ 8 * Bytes(sized.bit) >= sized.bit
  BY <1>1, BytesBounds
<1>3. n \in Nat /\ At(sized) <= 8 * n /\ sized.byte <= n
  BY <1>1, <1>2 DEF At
<1>4. Up(n, alignment) \in Nat /\ Up(n, alignment) >= n
  BY <1>1, <1>3, UpBounds
<1>5. FinalSize = n \/ FinalSize = Up(n, alignment)
  BY DEF FinalSize
<1>6. At(sized) \in Nat
  BY <1>1 DEF At
<1> HIDE DEF n
<1> QED
  BY <1>1, <1>3, <1>4, <1>5, <1>6

LEMMA NextStructKeeps == LayoutInv /\ NextStruct => LayoutInv'
<1> SUFFICES ASSUME LayoutInv, NextStruct PROVE LayoutInv'
  OBVIOUS
<1>1. /\ decls' = decls /\ d' = d + 1 /\ i' = 1 /\ d < Len(decls)
      /\ sized' = Zero2 /\ placed' = Zero2 /\ places' = <<>> /\ alignment' = 1
      /\ done' = Append(done, [size |-> FinalSize, align |-> alignment])
  BY DEF NextStruct
<1>2. Len(decls) \in Nat /\ d \in 1 .. Len(decls) /\ done \in Seq(Done) /\ Len(done) = d - 1
  BY ProgramsAssumption DEF LayoutInv, Positions
<1>3. [size |-> FinalSize, align |-> alignment] \in Done
  BY FinalSizeIsBehind DEF Done, LayoutInv, Positions
<1>4. done' \in Seq(Done) /\ Len(done') = d' - 1 /\ d' \in 1 .. Len(decls)
  BY <1>1, <1>2, <1>3
<1>5. Len(Fields') \in Nat
  <2>1. ProperStruct(decls[d'], d')
    BY <1>4, ProgramsAssumption DEF LayoutInv, Positions
  <2>2. Fields' = decls[d'].fields
    BY <1>1 DEF Fields, Struct
  <2> QED
    BY <2>1, <2>2 DEF ProperStruct
<1>6. Zero2 \in Spot
  BY DEF Zero2, Spot
<1>7. Positions'
  BY <1>1, <1>4, <1>5, <1>6 DEF LayoutInv, Positions, Powers
<1>8. DOMAIN places' = {} /\ sized' = placed'
  BY <1>1
<1> QED
  BY <1>7, <1>8 DEF LayoutInv, Behindhand, Within

LEMMA StepKeeps == LayoutInv /\ [Next]_vars => LayoutInv'
<1> SUFFICES ASSUME LayoutInv, [Next]_vars PROVE LayoutInv'
  OBVIOUS
<1>1. CASE WalkTurn
  BY <1>1, WalkTurnKeeps
<1>2. CASE UnionTurn
  BY <1>2, UnionTurnKeeps
<1>3. CASE NextStruct
  BY <1>3, NextStructKeeps
<1>4. CASE UNCHANGED layoutVars
  <2>1. Struct' = Struct /\ Fields' = Fields /\ \A n : Extent(Fields[n])' = Extent(Fields[n])
    BY <1>4, TurnFrame DEF layoutVars
  <2>2. \A n : SizeOf(Fields[n].type)' = SizeOf(Fields[n].type)
    BY <1>4, TurnFrame DEF layoutVars
  <2>3. Positions'
    BY <1>4, <2>1 DEF layoutVars, LayoutInv, Positions
  <2>4. Behindhand'
    BY <1>4, <2>1 DEF layoutVars, LayoutInv, Behindhand, At
  <2>5. Within'
    BY <1>4, <2>1, <2>2 DEF layoutVars, LayoutInv, Within
  <2> QED
    BY <2>3, <2>4, <2>5 DEF LayoutInv
<1>5. CASE \E m \in {"local", "literal", "data"} : Begin(m)
  BY <1>4, <1>5 DEF Begin
<1>6. CASE \E n \in DOMAIN last : LiteralField(n) \/ Assign(n) \/ ConstantField(n)
  BY <1>4, <1>6 DEF LiteralField, Assign, ConstantField, Stored
<1>7. CASE UNCHANGED vars
  BY <1>4, <1>7 DEF vars
<1> QED
  BY <1>1, <1>2, <1>3, <1>5, <1>6, <1>7 DEF Next

\* The walks stay together, in every reachable state and for every program.
THEOREM LayoutInvariance == Spec => []LayoutInv
<1>1. Init => LayoutInv
  BY InitInv
<1>2. LayoutInv /\ [Next]_vars => LayoutInv'
  BY StepKeeps
<1> QED
  BY <1>1, <1>2, PTL DEF Spec

-----------------------------------------------------------------------------

LEMMA BitsOfAField ==
  ASSUME NEW n
  PROVE  Start(n) = At(places[n]) /\ End(n) = At(places[n]) + Extent(Fields[n])
BY DEF Start, End, At, Extent

LEMMA PlacesAreFields ==
  ASSUME LayoutInv
  PROVE  /\ DOMAIN places = 1 .. i - 1
         /\ \A n \in DOMAIN places : n \in DOMAIN Fields /\ places[n] \in Spot
<1>1. ProperStruct(Struct, d)
  BY ProgramsAssumption DEF LayoutInv, Positions, Struct
<1>2. DOMAIN Fields = 1 .. Len(Fields) /\ Len(Fields) \in Nat
  BY <1>1 DEF ProperStruct, Fields
<1> QED
  BY <1>2 DEF LayoutInv, Positions

\* type_get_field_layout() never gives two fields of a forma a bit in common, whatever
\* the structure (types.c:245).
THEOREM FieldsNeverOverlap == Spec => []FieldsApart
<1>1. LayoutInv => FieldsApart
  BY BitsOfAField DEF LayoutInv, Behindhand, FieldsApart
<1> QED
  BY <1>1, LayoutInvariance, PTL

\* The size type_get_size() computes covers every field, in formae and unions, with and
\* without densa (types.c:317).
THEOREM SizesCoverFields == Spec => []SizeCovers
<1>1. ASSUME LayoutInv, i > Len(Fields), NEW n \in DOMAIN places
      PROVE  End(n) <= 8 * FinalSize
  <2>1. n \in DOMAIN Fields /\ places[n] \in Spot
    BY <1>1, PlacesAreFields
  <2>2. FinalSize \in Nat /\ At(sized) <= 8 * FinalSize /\ sized.byte <= FinalSize
    BY <1>1, FinalSizeIsBehind
  <2>3. sized.byte \in Nat /\ At(sized) \in Nat
    <3>1. sized \in Spot
      BY <1>1 DEF LayoutInv, Positions
    <3> QED
      BY <3>1 DEF Spot, At
  <2>4. /\ Fields[n].bits \in Nat /\ SizeOf(Fields[n].type) \in Nat
        /\ Struct.unio => Fields[n].bits = 0
    BY <1>1, <2>1, FieldIsProper
  <2>5. End(n) = At(places[n]) + Extent(Fields[n])
    BY BitsOfAField
  <2>6. CASE Struct.unio
    <3>1. At(places[n]) = 0
      BY <1>1, <2>6 DEF LayoutInv, Within, At, Zero2
    <3>2. Extent(Fields[n]) = 8 * SizeOf(Fields[n].type)
      BY <2>4, <2>6 DEF Extent
    <3>3. SizeOf(Fields[n].type) <= sized.byte
      BY <1>1, <2>6 DEF LayoutInv, Within
    <3> QED
      BY <2>2, <2>3, <2>4, <2>5, <3>1, <3>2, <3>3
  <2>7. CASE ~Struct.unio
    <3>1. End(n) <= At(sized)
      BY <1>1, <2>5, <2>7 DEF LayoutInv, Behindhand
    <3>2. End(n) \in Nat
      BY <2>1, <2>4, <2>5 DEF At, Spot, Extent
    <3> QED
      BY <2>2, <2>3, <3>1, <3>2
  <2> QED
    BY <2>6, <2>7
<1>2. LayoutInv => SizeCovers
  BY <1>1 DEF SizeCovers
<1> QED
  BY <1>2, LayoutInvariance, PTL

-----------------------------------------------------------------------------
(* Alignment. *)

\* Every field that is not a bit field stands at a multiple of its alignment, and the
\* alignment of the structure so far is a multiple of that of every field.
AlignedInv ==
  ~Struct.densa =>
    \A n \in DOMAIN places :
      /\ Fields[n].bits = 0 => places[n].byte % FieldAlign(Fields[n]) = 0
      /\ FieldAlign(Fields[n]) <= alignment

LEMMA UpIsMultiple == \A n \in Nat, a \in Powers : Up(n, a) % a = 0
<1> SUFFICES ASSUME NEW n \in Nat, NEW a \in Powers PROVE Up(n, a) % a = 0
  OBVIOUS
<1>1. CASE a = 1
  BY <1>1 DEF Up
<1>2. CASE a = 2
  BY <1>2 DEF Up
<1>3. CASE a = 4
  BY <1>3 DEF Up
<1>4. CASE a = 8
  BY <1>4 DEF Up
<1> QED
  BY <1>1, <1>2, <1>3, <1>4 DEF Powers

\* Of two powers of two the smaller divides the larger.
LEMMA PowersDivide == \A a, b \in Powers : b <= a => a % b = 0
  BY DEF Powers

\* An ordinary field, in a forma, is put where its alignment asks for.
LEMMA BeginsAligned ==
  ASSUME NEW w \in Spot, NEW f, FieldAlign(f) \in Powers, f.bits = 0, ~Struct.densa
  PROVE  Place(Begins(w, f)).byte % FieldAlign(f) = 0
<1> DEFINE b == w.byte + Bytes(w.bit)
<1>1. b \in Nat
  BY BytesBounds DEF Spot
<1>2. Place(Begins(w, f)).byte = Up(b, FieldAlign(f))
  BY DEF Place, Begins, Flushed
<1> HIDE DEF b
<1> QED
  BY <1>1, <1>2, UpIsMultiple

LEMMA TurnsKeepAligned ==
  ASSUME LayoutInv, AlignedInv, WalkTurn \/ UnionTurn
  PROVE  AlignedInv'
<1> DEFINE f == Fields[i]
<1>1. UNCHANGED <<decls, d, done>> /\ i' = i + 1 /\ alignment' = Larger(alignment, FieldAlign(f))
      /\ i <= Len(Fields)
  BY DEF WalkTurn, UnionTurn
<1>2. i \in Nat /\ i \in DOMAIN Fields /\ placed \in Spot /\ places \in Seq(Spot)
      /\ Len(places) = i - 1 /\ alignment \in Powers
  <2>1. ProperStruct(Struct, d)
    BY ProgramsAssumption DEF LayoutInv, Positions, Struct
  <2>2. DOMAIN Fields = 1 .. Len(Fields) /\ Len(Fields) \in Nat
    BY <2>1 DEF ProperStruct, Fields
  <2> QED
    BY <1>1, <2>2 DEF LayoutInv, Positions
<1>3. FieldAlign(f) \in Powers /\ Zero2 \in Spot
  BY <1>2, FieldIsProper DEF Zero2, Spot
<1>4. PICK p \in Spot : places' = Append(places, p)
                        /\ (f.bits = 0 /\ ~Struct.densa => p.byte % FieldAlign(f) = 0)
  <2>1. CASE WalkTurn
    <3>1. places' = Append(places, Place(Begins(placed, f)))
      BY <2>1 DEF WalkTurn
    <3>2. Place(Begins(placed, f)) \in Spot
      BY <1>2, <1>3, BeginsForward, PlaceIsAt
    <3>3. f.bits = 0 /\ ~Struct.densa => Place(Begins(placed, f)).byte % FieldAlign(f) = 0
      BY <1>2, <1>3, BeginsAligned
    <3> QED
      BY <3>1, <3>2, <3>3
  <2>2. CASE UnionTurn
    <3>1. places' = Append(places, Zero2)
      BY <2>2 DEF UnionTurn
    <3>2. \A a \in Powers : 0 % a = 0
      BY DEF Powers
    <3> QED
      BY <1>3, <3>1, <3>2 DEF Zero2
  <2> QED
    BY <2>1, <2>2
<1>5. /\ DOMAIN places = 1 .. i - 1 /\ DOMAIN places' = 1 .. i
      /\ places'[i] = p /\ \A n \in 1 .. i - 1 : places'[n] = places[n]
  BY <1>2, <1>4
<1>6. Struct' = Struct /\ Fields' = Fields /\ \A n : FieldAlign(Fields[n])' = FieldAlign(Fields[n])
  BY <1>1 DEF Struct, Fields, FieldAlign, AlignOf
<1>7. Larger(alignment, FieldAlign(f)) >= alignment /\ Larger(alignment, FieldAlign(f)) >= FieldAlign(f)
  BY <1>2, <1>3, LargerBounds DEF Powers
<1>8. ASSUME ~Struct.densa, NEW n \in 1 .. i
      PROVE  /\ Fields[n].bits = 0 => places'[n].byte % FieldAlign(Fields[n]) = 0
             /\ FieldAlign(Fields[n]) <= alignment'
  <2>1. CASE n = i
    BY <1>1, <1>4, <1>5, <1>7, <1>8, <2>1
  <2>2. CASE n # i
    <3>1. n \in 1 .. i - 1 /\ n \in DOMAIN Fields
      BY <1>1, <1>2, <2>2, FieldIsProper
    <3>2. /\ Fields[n].bits = 0 => places[n].byte % FieldAlign(Fields[n]) = 0
          /\ FieldAlign(Fields[n]) <= alignment
      BY <1>5, <1>8, <3>1 DEF AlignedInv
    <3>3. FieldAlign(Fields[n]) \in Nat /\ alignment \in Nat /\ alignment' \in Nat
      <4>1. FieldAlign(Fields[n]) \in Powers
        BY <3>1, FieldIsProper
      <4>2. alignment' \in Powers
        BY <1>1, <1>2, <1>3, LargerPowers
      <4> QED
        BY <1>2, <4>1, <4>2 DEF Powers
    <3>4. FieldAlign(Fields[n]) <= alignment'
      BY <1>1, <1>7, <3>2, <3>3
    <3>5. places'[n] = places[n]
      BY <1>5, <3>1
    <3> QED
      BY <3>2, <3>4, <3>5, Zenon
  <2> QED
    BY <2>1, <2>2
<1> QED
  BY <1>5, <1>6, <1>8 DEF AlignedInv

LEMMA StepKeepsAligned == LayoutInv /\ AlignedInv /\ [Next]_vars => AlignedInv'
<1> SUFFICES ASSUME LayoutInv, AlignedInv, [Next]_vars PROVE AlignedInv'
  OBVIOUS
<1>1. CASE WalkTurn \/ UnionTurn
  BY <1>1, TurnsKeepAligned
<1>2. CASE NextStruct
  <2>1. DOMAIN places' = {}
    BY <1>2 DEF NextStruct
  <2> QED
    BY <2>1 DEF AlignedInv
<1>3. CASE UNCHANGED layoutVars
  BY <1>3 DEF layoutVars, AlignedInv, Struct, Fields, FieldAlign, AlignOf
<1> QED
  BY <1>1, <1>2, <1>3
     DEF Next, vars, Begin, LiteralField, Assign, ConstantField, Stored

\* Fields that are not bit fields are aligned, in formae and unions without densa, and
\* so are they in every element of an array: the size is a multiple of the largest
\* alignment (types.c:317).
THEOREM FieldsAreAligned == Spec => []Aligned
<1>1. Init => AlignedInv
  BY DEF Init, AlignedInv
<1>2. ASSUME LayoutInv, AlignedInv PROVE Aligned
  <2>1. SUFFICES ASSUME ~Struct.densa
                 PROVE  /\ \A n \in DOMAIN places :
                             Fields[n].bits = 0 => places[n].byte % AlignOf(Fields[n].type) = 0
                        /\ FinalSize % alignment = 0
                        /\ \A n \in DOMAIN places : alignment % AlignOf(Fields[n].type) = 0
    BY DEF Aligned
  <2>2. \A n : FieldAlign(Fields[n]) = AlignOf(Fields[n].type)
    BY <2>1 DEF FieldAlign
  <2>3. alignment \in Powers /\ sized.byte + Bytes(sized.bit) \in Nat
    <3>1. alignment \in Powers /\ sized \in Spot
      BY <1>2 DEF LayoutInv, Positions
    <3>2. sized.byte \in Nat /\ sized.bit \in Nat
      BY <3>1 DEF Spot
    <3>3. Bytes(sized.bit) \in Nat
      BY <3>2, BytesBounds
    <3> QED
      BY <3>1, <3>2, <3>3
  <2>4. FinalSize % alignment = 0
    BY <2>1, <2>3, UpIsMultiple DEF FinalSize
  <2>5. ASSUME NEW n \in DOMAIN places PROVE alignment % AlignOf(Fields[n].type) = 0
    <3>1. FieldAlign(Fields[n]) <= alignment
      BY <1>2, <2>1 DEF AlignedInv
    <3>2. FieldAlign(Fields[n]) \in Powers
      BY <1>2, PlacesAreFields, FieldIsProper
    <3>3. alignment % FieldAlign(Fields[n]) = 0
      BY <2>3, <3>1, <3>2, PowersDivide
    <3> QED
      BY <2>2, <3>3
  <2> QED
    BY <1>2, <2>1, <2>2, <2>4, <2>5 DEF AlignedInv
<1>3. LayoutInv /\ [Next]_vars /\ AlignedInv => AlignedInv'
  BY StepKeepsAligned
<1> QED
  BY <1>1, <1>2, <1>3, LayoutInvariance, PTL DEF Spec
-----------------------------------------------------------------------------
(* What the fields hold. *)

\* The k-th bit of the value that field n should hold.
BitOf(n, k) == IF last[n] = 0 THEN ZeroBit ELSE <<last[n], k>>

\* An ordinary field begins with a byte.
WholeBytes == \A n \in DOMAIN places : Fields[n].bits = 0 => places[n].bit = 0

\* Every defined field has the bits of its value in the places that are its own, in their
\* order, and what was behind the structure is still there.
MemoryHolds ==
  /\ \A n \in DOMAIN last : last[n] >= 0 =>
       \A k \in 0 .. Extent(Fields[n]) - 1 : memory[Start(n) + k] = BitOf(n, k)
  /\ \A k \in DOMAIN memory : k >= 8 * Size => memory[k] = Garbage(k)

ValuesInv ==
  /\ stores \in Nat
  /\ WholeBytes
  /\ mode # "walk" =>
       /\ i = Len(Fields) + 1
       /\ DOMAIN memory = 0 .. 8 * (Size + Outside) - 1
       /\ DOMAIN last = DOMAIN Fields
       /\ Tame => MemoryHolds

\* The unit of a bit field is one of the four of the processor.
LEMMA UnitOfBits ==
  ASSUME LayoutInv, NEW n \in DOMAIN Fields, Fields[n].bits > 0
  PROVE  Width(n) \in {8, 16, 32, 64}
<1> DEFINE t == Fields[n].type
<1>1. ProperStruct(Struct, d)
  BY ProgramsAssumption DEF LayoutInv, Positions, Struct
<1>2. t[1] \in BitTypes
  BY <1>1 DEF ProperStruct, Fields
<1>3. t[1] # "acies" /\ t[1] # "forma"
  BY <1>2 DEF BitTypes
<1>4. SizeOf(t) = 1 * BasicSize[t[1]]
  BY <1>3 DEF SizeOf, Length, Element, ElementSize
<1>5. \A b \in BitTypes : BasicSize[b] \in {1, 2, 4, 8}
  BY DEF BitTypes, BasicSize
<1>6. SizeOf(t) \in {1, 2, 4, 8}
  BY <1>2, <1>4, <1>5
<1> QED
  BY <1>6 DEF Width

\* A shift by less than the width is what it says.
LEMMA ShiftIsMeant ==
  ASSUME NEW w \in {8, 16, 32, 64}, NEW v, DOMAIN v = 0 .. w - 1, NEW s \in Nat, s < w
  PROVE  Amount(v, s) = s
<1>1. Cardinality(0 .. w - 1) = w
  <2>1. w - 1 \in Int /\ 0 \in Int /\ w > 0 /\ w \in Int
    OBVIOUS
  <2> QED
    BY <2>1, FS_Interval
<1>2. Amount(v, s) = s % (IF w = 64 THEN 64 ELSE 32)
  BY <1>1 DEF Amount
<1>3. CASE w = 64
  BY <1>2, <1>3
<1>4. CASE w # 64
  <2>1. s < 32
    BY <1>4
  <2> QED
    BY <1>2, <1>4, <2>1
<1> QED
  BY <1>3, <1>4

LEMMA UnitReaches ==
  ASSUME NEW y \in Nat, NEW b \in Nat, NEW e \in Nat, NEW z \in Nat, NEW w \in Nat,
         8 * y + b + e <= 8 * z, w = e \/ (e > 0 /\ w <= 64)
  PROVE  8 * y + w <= 8 * (z + 8)
  OBVIOUS

\* Where a field and its unit lie, in a finished structure.
LEMMA FieldFits ==
  ASSUME LayoutInv, SizeCovers, WholeBytes, i = Len(Fields) + 1, NEW n \in DOMAIN Fields
  PROVE  /\ n \in DOMAIN places /\ places[n] \in Spot
         /\ Size \in Nat /\ Width(n) \in Nat /\ Fields[n].bits \in Nat
         /\ Extent(Fields[n]) \in Nat /\ Start(n) \in Nat
         /\ Start(n) = 8 * places[n].byte + places[n].bit
         /\ End(n) = Start(n) + Extent(Fields[n]) /\ End(n) <= 8 * Size
         /\ 8 * places[n].byte + Width(n) <= 8 * (Size + Outside)
         /\ Tame => places[n].bit + Extent(Fields[n]) <= Width(n)
<1>1. n \in DOMAIN places /\ places[n] \in Spot
  BY PlacesAreFields, FieldIsProper
<1>2. /\ Fields[n].bits \in Nat /\ Width(n) \in Nat
      /\ places[n].byte \in Nat /\ places[n].bit \in Nat
  BY <1>1, FieldIsProper DEF Width, Spot
<1>3. Extent(Fields[n]) = IF Fields[n].bits > 0 THEN Fields[n].bits ELSE Width(n)
  BY DEF Extent, Width
<1>4. /\ Start(n) = 8 * places[n].byte + places[n].bit
      /\ End(n) = Start(n) + Extent(Fields[n])
  BY DEF Start, End, Extent
<1>5. Size \in Nat
  <2>1. sized \in Spot /\ alignment \in Powers
    BY DEF LayoutInv, Positions
  <2>2. sized.byte \in Nat /\ Bytes(sized.bit) \in Nat
    BY <2>1, BytesBounds DEF Spot
  <2>3. Up(sized.byte + Bytes(sized.bit), alignment) \in Nat
    BY <2>1, <2>2, UpBounds
  <2> QED
    BY <2>2, <2>3 DEF Size, FinalSize
<1>6. End(n) <= 8 * Size
  <2>1. Len(Fields) \in Nat
    BY FieldIsProper
  <2> QED
    BY <1>1, <2>1 DEF SizeCovers, Size
<1>9. Extent(Fields[n]) \in Nat
  BY <1>2, <1>3
<1>7. 8 * places[n].byte + Width(n) <= 8 * (Size + Outside)
  <2>1. 8 * places[n].byte + places[n].bit + Extent(Fields[n]) <= 8 * Size
    BY <1>4, <1>6
  <2>2. Width(n) = Extent(Fields[n]) \/ (Extent(Fields[n]) > 0 /\ Width(n) <= 64)
    <3>1. CASE Fields[n].bits > 0
      <4>1. Width(n) \in {8, 16, 32, 64}
        BY <3>1, UnitOfBits
      <4> QED
        BY <1>3, <3>1, <4>1
    <3> QED
      BY <1>3, <3>1
  <2>3. 8 * places[n].byte + Width(n) <= 8 * (Size + 8)
    BY <1>2, <1>5, <1>9, <2>1, <2>2, UnitReaches
  <2> QED
    BY <2>3 DEF Outside
<1>8. ASSUME Tame PROVE places[n].bit + Extent(Fields[n]) <= Width(n)
  <2>1. CASE Fields[n].bits > 0
    BY <1>1, <1>3, <1>8, <2>1 DEF Tame, Width
  <2>2. CASE Fields[n].bits = 0
    BY <1>1, <1>2, <1>3, <2>2 DEF WholeBytes
  <2> QED
    BY <1>2, <2>1, <2>2
<1> QED
  <2>0. \A a, b \in Nat : 8 * a + b \in Nat
    OBVIOUS
  <2>1. Start(n) \in Nat
    BY <1>2, <1>4, <2>0
  <2> QED
    BY <1>1, <1>2, <1>4, <1>5, <1>6, <1>7, <1>8, <1>9, <2>1

-----------------------------------------------------------------------------
(* What is written. *)

\* A unit that holds the new value in the field's bits and what was there in all others.
Carries(n, v) ==
  /\ DOMAIN v = 0 .. Width(n) - 1
  /\ \A k \in 0 .. Width(n) - 1 :
       v[k] = LET b == k - places[n].bit
              IN  IF b \in 0 .. Extent(Fields[n]) - 1 THEN <<stores + 1, b>>
                                                      ELSE memory[8 * places[n].byte + k]

LEMMA ValueCarries ==
  ASSUME LayoutInv, WholeBytes, NEW n \in DOMAIN places, Fields[n].bits = 0
  PROVE  Carries(n, Value(n))
<1>1. places[n].bit = 0 /\ Extent(Fields[n]) = Width(n)
  BY DEF WholeBytes, Extent, Width
<1>2. Width(n) \in Nat
  BY PlacesAreFields, FieldIsProper DEF Width
<1>3. \A k \in 0 .. Width(n) - 1 : k - 0 = k /\ Value(n)[k] = <<stores + 1, k>>
  BY <1>2 DEF Value
<1>4. DOMAIN Value(n) = 0 .. Width(n) - 1
  BY DEF Value
<1> QED
  BY <1>1, <1>2, <1>3, <1>4 DEF Carries

LEMMA MergedCarries ==
  ASSUME LayoutInv, SizeCovers, WholeBytes, Tame, i = Len(Fields) + 1,
         NEW n \in DOMAIN Fields, Fields[n].bits > 0, stores \in Nat
  PROVE  Carries(n, Merged(n))
<1> DEFINE w == Width(n)
           b == places[n].bit
           c == Fields[n].bits
           low == Mask(Value(n), c)
           v == Shl(low, Amount(Value(n), b))
           u == Cleared(Load(n), b, c)
<1>1. /\ w \in {8, 16, 32, 64} /\ c \in Nat /\ b \in Nat
      /\ Extent(Fields[n]) = c /\ b + c <= w
  BY UnitOfBits, FieldFits DEF Extent, Spot
<1>2. DOMAIN Value(n) = 0 .. w - 1 /\ \A k \in 0 .. w - 1 : Value(n)[k] = <<stores + 1, k>>
  BY DEF Value
<1>3. Amount(Value(n), b) = b
  <2>1. b < w
    BY <1>1
  <2> HIDE DEF w, b
  <2> QED
    BY <1>1, <1>2, <2>1, ShiftIsMeant
<1>4. DOMAIN Load(n) = 0 .. w - 1
      /\ \A k \in 0 .. w - 1 : Load(n)[k] = memory[8 * places[n].byte + k]
  BY DEF Load
<1>5. DOMAIN low = 0 .. w - 1
      /\ \A k \in 0 .. w - 1 : low[k] = IF k < c THEN <<stores + 1, k>> ELSE ZeroBit
  BY <1>2 DEF Mask
<1>6. DOMAIN v = 0 .. w - 1
      /\ \A k \in 0 .. w - 1 : v[k] = IF k < b THEN ZeroBit ELSE low[k - b]
  BY <1>3, <1>5 DEF Shl
<1>7. DOMAIN u = 0 .. w - 1
      /\ \A k \in 0 .. w - 1 :
           u[k] = IF b <= k /\ k < b + c THEN ZeroBit ELSE memory[8 * places[n].byte + k]
  BY <1>4 DEF Cleared
<1>8. Merged(n) = Or(u, v)
  BY DEF Merged
<1>9. DOMAIN Merged(n) = 0 .. w - 1
      /\ \A k \in 0 .. w - 1 :
           Merged(n)[k] = IF u[k] = ZeroBit THEN v[k]
                          ELSE IF v[k] = ZeroBit THEN u[k] ELSE <<-2, k>>
  BY <1>7, <1>8 DEF Or
<1> HIDE DEF w, b, c, low, v, u
<1>11. w \in Nat
  BY <1>1
<1>10. ASSUME NEW k \in 0 .. w - 1
       PROVE  Merged(n)[k] = IF k - b \in 0 .. c - 1 THEN <<stores + 1, k - b>>
                                                     ELSE memory[8 * places[n].byte + k]
  <2>1. CASE b <= k /\ k < b + c
    <3>1. k - b \in 0 .. c - 1 /\ k - b \in 0 .. w - 1 /\ k - b < c /\ ~(k < b)
      BY <1>1, <1>11, <2>1
    <3>2. Merged(n)[k] = v[k]
      BY <1>7, <1>9, <2>1
    <3>3. v[k] = <<stores + 1, k - b>>
      BY <1>5, <1>6, <3>1
    <3> QED
      BY <3>1, <3>2, <3>3
  <2>2. CASE ~(b <= k /\ k < b + c)
    <3>1. k - b \notin 0 .. c - 1
      BY <1>1, <2>2
    <3>2. v[k] = ZeroBit
      <4>1. CASE k < b
        BY <1>6, <4>1
      <4>2. CASE k >= b + c
        <5>1. ~(k < b) /\ k - b \in 0 .. w - 1 /\ ~(k - b < c)
          BY <1>1, <4>2
        <5> QED
          BY <1>5, <1>6, <5>1
      <4> QED
        BY <1>1, <2>2, <4>1, <4>2
    <3>3. Merged(n)[k] = u[k]
      BY <1>9, <3>2
    <3> QED
      BY <1>7, <2>2, <3>1, <3>3
  <2> QED
    BY <2>1, <2>2
<1> QED
  BY <1>1, <1>9, <1>10 DEF Carries, w, b, c

LEMMA ConstantCarries ==
  ASSUME LayoutInv, SizeCovers, WholeBytes, Tame, i = Len(Fields) + 1,
         NEW n \in DOMAIN Fields, Fields[n].bits > 0, stores \in Nat
  PROVE  Carries(n, ConstantMerged(n))
<1> DEFINE w == Width(n)
           b == places[n].bit
           c == Fields[n].bits
           low == Mask(Wide(Value(n)), c)
           v == Shl(low, b)
           u == Cleared(Wide(Load(n)), b, c)
<1>1. /\ w \in {8, 16, 32, 64} /\ c \in Nat /\ b \in Nat
      /\ Extent(Fields[n]) = c /\ b + c <= w
  BY UnitOfBits, FieldFits DEF Extent, Spot
<1>2. DOMAIN Value(n) = 0 .. w - 1 /\ \A k \in 0 .. w - 1 : Value(n)[k] = <<stores + 1, k>>
  BY DEF Value
<1>4. DOMAIN Load(n) = 0 .. w - 1
      /\ \A k \in 0 .. w - 1 : Load(n)[k] = memory[8 * places[n].byte + k]
  BY DEF Load
<1>12. w \in Nat /\ 0 .. w - 1 \subseteq 0 .. 63
  <2> HIDE DEF w
  <2>1. w \in Nat /\ w <= 64
    BY <1>1
  <2> QED
    BY <2>1
<1>13. \A x : DOMAIN x = 0 .. w - 1 =>
          /\ DOMAIN Wide(x) = 0 .. 63
          /\ \A k \in 0 .. w - 1 : Wide(x)[k] = x[k]
  BY <1>12 DEF Wide
<1>5. DOMAIN low = 0 .. 63
      /\ \A k \in 0 .. w - 1 : low[k] = IF k < c THEN <<stores + 1, k>> ELSE ZeroBit
  BY <1>2, <1>12, <1>13 DEF Mask
<1>6. \A k \in 0 .. w - 1 : v[k] = IF k < b THEN ZeroBit ELSE low[k - b]
  BY <1>5, <1>12 DEF Shl
<1>7. DOMAIN u = 0 .. 63
      /\ \A k \in 0 .. w - 1 :
           u[k] = IF b <= k /\ k < b + c THEN ZeroBit ELSE memory[8 * places[n].byte + k]
  BY <1>4, <1>12, <1>13 DEF Cleared
<1>8. ConstantMerged(n) = [k \in 0 .. w - 1 |-> Or(u, v)[k]]
  BY DEF ConstantMerged
<1>9. DOMAIN ConstantMerged(n) = 0 .. w - 1
      /\ \A k \in 0 .. w - 1 :
           ConstantMerged(n)[k] = IF u[k] = ZeroBit THEN v[k]
                                  ELSE IF v[k] = ZeroBit THEN u[k] ELSE <<-2, k>>
  <2> HIDE DEF w, b, c, low, v, u
  <2>1. \A k \in 0 .. w - 1 :
          Or(u, v)[k] = IF u[k] = ZeroBit THEN v[k]
                        ELSE IF v[k] = ZeroBit THEN u[k] ELSE <<-2, k>>
    BY <1>7, <1>12 DEF Or
  <2> QED
    BY <1>8, <2>1
<1> HIDE DEF w, b, c, low, v, u
<1>10. ASSUME NEW k \in 0 .. w - 1
       PROVE  ConstantMerged(n)[k] = IF k - b \in 0 .. c - 1 THEN <<stores + 1, k - b>>
                                     ELSE memory[8 * places[n].byte + k]
  <2>1. CASE b <= k /\ k < b + c
    <3>1. k - b \in 0 .. c - 1 /\ k - b \in 0 .. w - 1 /\ k - b < c /\ ~(k < b)
      BY <1>1, <1>12, <2>1
    <3>2. ConstantMerged(n)[k] = v[k]
      BY <1>7, <1>9, <2>1
    <3>3. v[k] = <<stores + 1, k - b>>
      BY <1>5, <1>6, <3>1
    <3> QED
      BY <3>1, <3>2, <3>3
  <2>2. CASE ~(b <= k /\ k < b + c)
    <3>1. k - b \notin 0 .. c - 1
      BY <1>1, <2>2
    <3>2. v[k] = ZeroBit
      <4>1. CASE k < b
        BY <1>6, <4>1
      <4>2. CASE k >= b + c
        <5>1. ~(k < b) /\ k - b \in 0 .. w - 1 /\ ~(k - b < c)
          BY <1>1, <1>12, <4>2
        <5> QED
          BY <1>5, <1>6, <5>1
      <4> QED
        BY <1>1, <2>2, <4>1, <4>2
    <3>3. ConstantMerged(n)[k] = u[k]
      BY <1>9, <3>2
    <3> QED
      BY <1>7, <2>2, <3>1, <3>3
  <2> QED
    BY <2>1, <2>2
<1> QED
  BY <1>1, <1>9, <1>10 DEF Carries, w, b, c

-----------------------------------------------------------------------------
(* A store disturbs no other field, and what was stored is read. *)

\* Two fields of a forma have no bit in common.
LEMMA FieldsApartBothWays ==
  ASSUME FieldsApart, ~Struct.unio, NEW m \in DOMAIN places, NEW n \in DOMAIN places, m # n,
         DOMAIN places \subseteq Nat
  PROVE  End(m) <= Start(n) \/ End(n) <= Start(m)
  BY DEF FieldsApart

LEMMA StoredKeeps ==
  ASSUME LayoutInv, ValuesInv, FieldsApart, SizeCovers, mode # "walk",
         NEW n \in DOMAIN last, NEW v, DOMAIN v = 0 .. Width(n) - 1, Tame => Carries(n, v),
         Stored(n, v)
  PROVE  /\ DOMAIN memory' = DOMAIN memory /\ DOMAIN last' = DOMAIN last /\ stores' \in Nat
         /\ Tame => MemoryHolds'
<1>1. /\ i = Len(Fields) + 1 /\ WholeBytes /\ stores \in Nat
      /\ DOMAIN memory = 0 .. 8 * (Size + Outside) - 1
      /\ n \in DOMAIN Fields /\ DOMAIN last = DOMAIN Fields
  BY DEF ValuesInv
<1>2. UNCHANGED layoutVars /\ memory' = StoreAt(n, v) /\ stores' = stores + 1
      /\ last' = [m \in DOMAIN last |-> IF m = n THEN stores + 1
                                        ELSE IF Struct.unio THEN -1 ELSE last[m]]
  BY DEF Stored
<1>3. /\ DOMAIN memory' = DOMAIN memory
      /\ \A k \in DOMAIN memory :
           memory'[k] = LET b == k - 8 * places[n].byte IN IF b \in DOMAIN v THEN v[b] ELSE memory[k]
  BY <1>2 DEF StoreAt
<1>4. DOMAIN last' = DOMAIN last /\ stores' \in Nat
  BY <1>1, <1>2
<1>5. /\ Struct' = Struct /\ Fields' = Fields /\ Size' = Size
      /\ \A m : Start(m)' = Start(m)
  BY <1>2 DEF layoutVars, Struct, Fields, Size, FinalSize, Start
<1>6. \A m : Extent(Fields[m])' = Extent(Fields[m])
  BY <1>2, <1>5 DEF layoutVars, Extent, SizeOf, Length, Element, ElementSize
<1>7. ASSUME Tame PROVE MemoryHolds'
  <2> DEFINE s == Start(n)
             e == Extent(Fields[n])
             y == 8 * places[n].byte
             b == places[n].bit
             w == Width(n)
  <2>1. /\ Size \in Nat /\ w \in Nat /\ e \in Nat /\ s \in Nat /\ s = y + b /\ b \in Nat
        /\ y \in Nat /\ s + e <= 8 * Size /\ y + w <= 8 * (Size + Outside) /\ b + e <= w
    <3>1. places[n].byte \in Nat /\ b \in Nat
      BY <1>1, FieldFits DEF Spot
    <3>2. y \in Nat
      BY <3>1
    <3> QED
      BY <1>1, <1>7, <3>1, <3>2, FieldFits
  <2>2. /\ DOMAIN v = 0 .. w - 1
        /\ \A k \in 0 .. w - 1 : v[k] = IF k - b \in 0 .. e - 1 THEN <<stores + 1, k - b>>
                                                                ELSE memory[y + k]
    BY <1>7 DEF Carries
  <2>3. \A k \in DOMAIN memory : memory'[k] = IF k - y \in DOMAIN v THEN v[k - y] ELSE memory[k]
    BY <1>3
  <2>4. DOMAIN memory = 0 .. 8 * (Size + Outside) - 1
    BY <1>1
  <2>5. Fields' = Fields /\ Size' = Size /\ Start(n)' = s /\ Extent(Fields[n])' = e
    BY <1>5, <1>6
  <2> HIDE DEF s, e, y, b, w
  <2>6. ASSUME NEW k \in DOMAIN memory, ~(s <= k /\ k < s + e) PROVE memory'[k] = memory[k]
    <3>0. k \in Int
      BY <2>4
    <3>1. CASE k - y \in 0 .. w - 1
      <4>1. (k - y) - b \notin 0 .. e - 1
        <5>1. s = y + b /\ y \in Nat /\ b \in Nat /\ e \in Nat
          BY <2>1
        <5>2. (k - y) - b = k - s /\ k - s \in Int
          BY <3>0, <5>1
        <5>3. k - s \notin 0 .. e - 1
          BY <2>6, <3>0, <5>1
        <5> QED
          BY <5>2, <5>3
      <4>2. y + (k - y) = k
        BY <2>1, <3>0
      <4>3. v[k - y] = memory[k]
        BY <2>2, <3>1, <4>1, <4>2
      <4> QED
        BY <2>2, <2>3, <3>1, <4>3
    <3> QED
      BY <2>2, <2>3, <3>1
  <2>7. ASSUME NEW k \in 0 .. e - 1
        PROVE  s + k \in DOMAIN memory /\ memory'[s + k] = <<stores + 1, k>>
    <3>1. s + k \in DOMAIN memory
      BY <2>1, <2>4 DEF Outside
    <3>2. (s + k) - y \in 0 .. w - 1 /\ ((s + k) - y) - b = k
      BY <2>1
    <3> QED
      BY <2>2, <2>3, <3>1, <3>2
  <2>8. ASSUME NEW m \in DOMAIN last', last'[m] >= 0, NEW k \in 0 .. Extent(Fields[m])' - 1
        PROVE  memory'[Start(m)' + k] = BitOf(m, k)'
    <3>1. CASE m = n
      <4>1. last'[m] = stores + 1 /\ stores + 1 # 0
        BY <1>1, <1>2, <3>1
      <4>2. BitOf(m, k)' = <<stores + 1, k>>
        BY <4>1 DEF BitOf
      <4>3. k \in 0 .. e - 1
        BY <2>5, <2>8, <3>1
      <4> QED
        BY <2>5, <2>7, <3>1, <4>2, <4>3
    <3>2. CASE m # n
      <4>1. m \in DOMAIN last /\ m \in DOMAIN Fields
        BY <1>1, <1>4
      <4>2. last'[m] = IF Struct.unio THEN -1 ELSE last[m]
        BY <1>2, <3>2, <4>1
      <4>3. ~Struct.unio /\ last'[m] = last[m]
        BY <2>8, <4>2
      <4>4. /\ Start(m) \in Nat /\ Extent(Fields[m]) \in Nat
            /\ End(m) = Start(m) + Extent(Fields[m]) /\ End(m) <= 8 * Size
            /\ m \in DOMAIN places /\ n \in DOMAIN places
            /\ End(n) = s + e /\ Start(n) = s
        BY <1>1, <4>1, FieldFits DEF s, e
      <4>5. k \in 0 .. Extent(Fields[m]) - 1
        BY <1>6, <2>8
      <4>6. Start(m) + k \in DOMAIN memory
        BY <2>1, <2>4, <4>4, <4>5 DEF Outside
      <4>7. End(m) <= s \/ s + e <= Start(m)
        <5>1. DOMAIN places \subseteq Nat
          BY PlacesAreFields DEF LayoutInv, Positions
        <5> QED
          BY <3>2, <4>3, <4>4, <5>1, FieldsApartBothWays
      <4>8. ~(s <= Start(m) + k /\ Start(m) + k < s + e)
        <5>1. /\ s \in Nat /\ e \in Nat /\ k \in Int /\ k >= 0 /\ k < Extent(Fields[m])
              /\ (Start(m) + Extent(Fields[m]) <= s \/ s + e <= Start(m))
          BY <2>1, <4>4, <4>5, <4>7
        <5> QED
          BY <4>4, <5>1
      <4>9. memory'[Start(m) + k] = memory[Start(m) + k]
        BY <2>6, <4>6, <4>8
      <4>10. memory[Start(m) + k] = BitOf(m, k)
        BY <1>7, <2>8, <4>1, <4>3, <4>5 DEF ValuesInv, MemoryHolds
      <4>11. BitOf(m, k)' = BitOf(m, k)
        BY <4>3 DEF BitOf
      <4> QED
        BY <1>5, <4>9, <4>10, <4>11
    <3> QED
      BY <3>1, <3>2
  <2>9. ASSUME NEW k \in DOMAIN memory', k >= 8 * Size' PROVE memory'[k] = Garbage(k)
    <3>1. k \in DOMAIN memory /\ k \in Int
      BY <1>3, <2>4
    <3>2. ~(s <= k /\ k < s + e)
      BY <2>1, <2>5, <2>9, <3>1
    <3>3. memory[k] = Garbage(k)
      BY <1>7, <2>5, <2>9, <3>1 DEF ValuesInv, MemoryHolds
    <3> QED
      BY <2>6, <3>1, <3>2, <3>3
  <2> QED
    BY <2>8, <2>9 DEF MemoryHolds, Garbage
<1> QED
  BY <1>3, <1>4, <1>7

LEMMA BeginKeeps ==
  ASSUME LayoutInv, ValuesInv, SizeCovers, NEW m \in {"local", "literal", "data"}, Begin(m)
  PROVE  ValuesInv'
<1>1. /\ UNCHANGED layoutVars /\ UNCHANGED stores /\ mode' = m /\ i > Len(Fields)
      /\ memory' = [k \in 0 .. 8 * (Size + Outside) - 1 |->
                      IF m # "local" /\ k < 8 * Size THEN ZeroBit ELSE Garbage(k)]
      /\ last' = [n \in DOMAIN Fields |-> IF m = "local" THEN -1 ELSE 0]
  BY DEF Begin
<1>2. i = Len(Fields) + 1
  <2>1. ProperStruct(Struct, d)
    BY ProgramsAssumption DEF LayoutInv, Positions, Struct
  <2>2. Len(Fields) \in Nat /\ i \in 1 .. Len(Fields) + 1
    BY <2>1 DEF ProperStruct, Fields, LayoutInv, Positions
  <2> QED
    BY <1>1, <2>2
<1>3. /\ Struct' = Struct /\ Fields' = Fields /\ Size' = Size /\ i' = i /\ places' = places
      /\ \A n : Start(n)' = Start(n)
  BY <1>1 DEF layoutVars, Struct, Fields, Size, FinalSize, Start
<1>4. \A n : Extent(Fields[n])' = Extent(Fields[n])
  BY <1>1, <1>3 DEF layoutVars, Extent, SizeOf, Length, Element, ElementSize
<1>5. DOMAIN memory' = 0 .. 8 * (Size + Outside) - 1 /\ DOMAIN last' = DOMAIN Fields
  BY <1>1
<1>6. ASSUME NEW n \in DOMAIN last', last'[n] >= 0, NEW k \in 0 .. Extent(Fields[n])' - 1
      PROVE  memory'[Start(n)' + k] = BitOf(n, k)'
  <2>1. n \in DOMAIN Fields /\ m # "local" /\ last'[n] = 0
    BY <1>1, <1>6
  <2>2. /\ Size \in Nat /\ Start(n) \in Nat /\ Extent(Fields[n]) \in Nat
        /\ Start(n) + Extent(Fields[n]) <= 8 * Size
    BY <1>2, <2>1, FieldFits DEF ValuesInv
  <2>3. k \in 0 .. Extent(Fields[n]) - 1
    BY <1>4, <1>6
  <2>4. Start(n) + k \in 0 .. 8 * (Size + Outside) - 1 /\ Start(n) + k < 8 * Size
    BY <2>2, <2>3 DEF Outside
  <2>5. memory'[Start(n) + k] = ZeroBit
    BY <1>1, <2>1, <2>4
  <2> QED
    BY <1>3, <2>1, <2>5 DEF BitOf
<1>7. \A k \in DOMAIN memory' : k >= 8 * Size' => memory'[k] = Garbage(k)
  <2>1. Size \in Nat
    <3>1. sized \in Spot /\ alignment \in Powers
      BY DEF LayoutInv, Positions
    <3>2. sized.byte \in Nat /\ Bytes(sized.bit) \in Nat
      BY <3>1, BytesBounds DEF Spot
    <3>3. Up(sized.byte + Bytes(sized.bit), alignment) \in Nat
      BY <3>1, <3>2, UpBounds
    <3> QED
      BY <3>2, <3>3 DEF Size, FinalSize
  <2> QED
    BY <1>1, <1>3, <1>5, <2>1
<1>8. MemoryHolds'
  BY <1>6, <1>7 DEF MemoryHolds, Garbage
<1> QED
  BY <1>1, <1>2, <1>3, <1>5, <1>8 DEF ValuesInv, WholeBytes

\* An ordinary field is put at the start of a byte.
LEMMA TurnsKeepValues ==
  ASSUME LayoutInv, ValuesInv, WalkTurn \/ UnionTurn
  PROVE  ValuesInv'
<1> DEFINE f == Fields[i]
<1>1. UNCHANGED <<decls, d, done>> /\ UNCHANGED useVars /\ mode = "walk" /\ i <= Len(Fields)
  BY DEF WalkTurn, UnionTurn
<1>2. PICK p : places' = Append(places, p) /\ (f.bits = 0 => p.bit = 0)
  <2>1. CASE WalkTurn
    <3>1. places' = Append(places, Place(Begins(placed, f)))
      BY <2>1 DEF WalkTurn
    <3>2. ASSUME f.bits = 0 PROVE Place(Begins(placed, f)).bit = 0
      BY <3>2 DEF Place, Begins, Flushed
    <3> QED
      BY <3>1, <3>2
  <2>2. CASE UnionTurn
    BY <2>2 DEF UnionTurn, Zero2
  <2> QED
    BY <2>1, <2>2
<1>3. places \in Seq(Spot) /\ Len(places) = i - 1 /\ i \in Nat
  <2>1. ProperStruct(Struct, d)
    BY ProgramsAssumption DEF LayoutInv, Positions, Struct
  <2>2. Len(Fields) \in Nat
    BY <2>1 DEF ProperStruct, Fields
  <2> QED
    BY <2>2 DEF LayoutInv, Positions
<1>4. /\ DOMAIN places = 1 .. i - 1 /\ DOMAIN places' = 1 .. i
      /\ places'[i] = p /\ \A n \in 1 .. i - 1 : places'[n] = places[n]
  BY <1>2, <1>3
<1>5. Fields' = Fields
  BY <1>1 DEF Fields, Struct
<1>6. WholeBytes'
  <2>1. ASSUME NEW n \in 1 .. i, Fields[n].bits = 0 PROVE places'[n].bit = 0
    <3>1. CASE n = i
      BY <1>2, <1>4, <2>1, <3>1
    <3>2. CASE n # i
      <4>1. n \in 1 .. i - 1
        BY <1>3, <3>2
      <4> QED
        BY <1>4, <2>1, <4>1 DEF ValuesInv, WholeBytes
    <3> QED
      BY <3>1, <3>2
  <2> QED
    BY <1>4, <1>5, <2>1 DEF WholeBytes
<1> QED
  BY <1>1, <1>6 DEF ValuesInv, useVars

LEMMA StoreKeepsValues ==
  ASSUME LayoutInv, ValuesInv, FieldsApart, SizeCovers,
         NEW n \in DOMAIN last, LiteralField(n) \/ Assign(n) \/ ConstantField(n)
  PROVE  ValuesInv'
<1>1. mode # "walk" /\ mode' # "walk"
  BY DEF LiteralField, Assign, ConstantField
<1>2. /\ i = Len(Fields) + 1 /\ n \in DOMAIN Fields /\ WholeBytes /\ stores \in Nat
      /\ DOMAIN memory = 0 .. 8 * (Size + Outside) - 1 /\ DOMAIN last = DOMAIN Fields
  BY <1>1 DEF ValuesInv
<1>3. n \in DOMAIN places /\ Fields[n].bits \in Nat
  BY <1>2, FieldFits
<1>4. DOMAIN Value(n) = 0 .. Width(n) - 1 /\ DOMAIN Merged(n) = 0 .. Width(n) - 1
      /\ DOMAIN ConstantMerged(n) = 0 .. Width(n) - 1
  BY DEF Value, Merged, ConstantMerged, Or, Cleared, Load
<1>5. PICK v : /\ Stored(n, v) /\ DOMAIN v = 0 .. Width(n) - 1
               /\ Tame => Carries(n, v)
  <2>1. CASE Fields[n].bits = 0
    <3>1. Stored(n, Value(n))
      BY <2>1 DEF LiteralField, Assign, ConstantField
    <3> QED
      BY <1>2, <1>3, <1>4, <2>1, <3>1, ValueCarries
  <2>2. CASE Fields[n].bits > 0
    <3>1. Stored(n, Merged(n)) \/ Stored(n, ConstantMerged(n))
      BY <2>2 DEF LiteralField, Assign, ConstantField
    <3> QED
      BY <1>2, <1>4, <2>2, <3>1, MergedCarries, ConstantCarries
  <2> QED
    BY <1>3, <2>1, <2>2
<1>6. /\ DOMAIN memory' = DOMAIN memory /\ DOMAIN last' = DOMAIN last /\ stores' \in Nat
      /\ Tame => MemoryHolds'
  BY <1>1, <1>5, StoredKeeps
<1>7. UNCHANGED layoutVars
  BY <1>5 DEF Stored
<1>8. Fields' = Fields /\ Size' = Size /\ i' = i /\ places' = places /\ Tame' = Tame
  BY <1>7 DEF layoutVars, Struct, Fields, Size, FinalSize, Tame, SizeOf, Length, Element, ElementSize
<1> QED
  BY <1>1, <1>2, <1>6, <1>8 DEF ValuesInv, WholeBytes

LEMMA StepKeepsValues ==
  LayoutInv /\ ValuesInv /\ FieldsApart /\ SizeCovers /\ [Next]_vars => ValuesInv'
<1> SUFFICES ASSUME LayoutInv, ValuesInv, FieldsApart, SizeCovers, [Next]_vars
             PROVE  ValuesInv'
  OBVIOUS
<1>1. CASE WalkTurn \/ UnionTurn
  BY <1>1, TurnsKeepValues
<1>2. CASE NextStruct
  <2>1. DOMAIN places' = {} /\ stores' = stores /\ mode' = "walk"
    BY <1>2 DEF NextStruct, useVars
  <2> QED
    BY <2>1 DEF ValuesInv, WholeBytes
<1>3. CASE \E m \in {"local", "literal", "data"} : Begin(m)
  BY <1>3, BeginKeeps
<1>4. CASE \E n \in DOMAIN last : LiteralField(n) \/ Assign(n) \/ ConstantField(n)
  BY <1>4, StoreKeepsValues
<1>5. CASE UNCHANGED vars
  <2>1. UNCHANGED layoutVars /\ UNCHANGED useVars
    BY <1>5 DEF vars
  <2>2. Struct' = Struct /\ Fields' = Fields /\ Size' = Size /\ \A m : Start(m)' = Start(m)
    BY <2>1 DEF layoutVars, Struct, Fields, Size, FinalSize, Start
  <2>3. Tame' = Tame /\ \A m : Extent(Fields[m])' = Extent(Fields[m])
    BY <2>1, <2>2 DEF layoutVars, Tame, Extent, SizeOf, Length, Element, ElementSize
  <2>4. MemoryHolds' = MemoryHolds
    BY <2>1, <2>2, <2>3 DEF useVars, MemoryHolds, BitOf, Garbage
  <2> QED
    BY <2>1, <2>2, <2>3, <2>4 DEF layoutVars, useVars, ValuesInv, WholeBytes
<1> QED
  BY <1>1, <1>2, <1>3, <1>4, <1>5 DEF Next

\* Shifted down to its place and extended, the field's bits read as its value.
LEMMA ReadsBack ==
  ASSUME LayoutInv, SizeCovers, ValuesInv, Tame, mode # "walk",
         NEW n \in DOMAIN last, last[n] >= 0
  PROVE  ReadField(n) = Expected(n)
<1> DEFINE w == Width(n)
           b == places[n].bit
           c == Fields[n].bits
           e == Extent(Fields[n])
           y == 8 * places[n].byte
           signed == Fields[n].type[1] \in Signed
           low == Mask(Shr(Load(n), Amount(Load(n), b), Top(Load(n), signed)), c)
           high == Shl(low, w - c)
<1>1. /\ i = Len(Fields) + 1 /\ n \in DOMAIN Fields /\ WholeBytes /\ MemoryHolds
  BY DEF ValuesInv
<1>2. w \in Nat /\ c \in Nat /\ b \in Nat /\ y \in Nat /\ e \in Nat /\ b + e <= w
  <2>1. b \in Nat /\ places[n].byte \in Nat
    BY <1>1, FieldFits DEF Spot
  <2>2. y \in Nat
    BY <2>1
  <2> QED
    BY <1>1, <2>1, <2>2, FieldFits
<1>3. e = IF c > 0 THEN c ELSE w
  BY DEF Extent, Width
<1>4. \A k \in 0 .. e - 1 : memory[y + b + k] = BitOf(n, k)
  BY <1>1 DEF MemoryHolds, Start
<1>5. DOMAIN Load(n) = 0 .. w - 1 /\ \A k \in 0 .. w - 1 : Load(n)[k] = memory[y + k]
  BY DEF Load
<1>6. Expected(n) = [k \in 0 .. w - 1 |-> IF k < e THEN BitOf(n, k)
                                          ELSE IF signed /\ e - 1 >= 0 THEN BitOf(n, e - 1)
                                          ELSE ZeroBit]
  <2>1. Expected(n) = [k \in 0 .. w - 1 |->
                         IF k < e THEN BitOf(n, k)
                         ELSE IF (IF signed THEN e - 1 ELSE -1) >= 0
                              THEN BitOf(n, IF signed THEN e - 1 ELSE -1) ELSE ZeroBit]
    BY DEF Expected, Extent, Width, BitOf
  <2> QED
    BY <2>1, <1>2
<1> HIDE DEF y, e
<1>7. CASE c = 0
  <2>1. ReadField(n) = Load(n) /\ e = w /\ b = 0
    BY <1>1, <1>2, <1>3, <1>7, FieldFits DEF ReadField, WholeBytes
  <2> HIDE DEF w, b
  <2>2. \A k \in 0 .. w - 1 : k < e /\ Load(n)[k] = BitOf(n, k) /\ y + b + k = y + k
    BY <1>2, <1>4, <1>5, <2>1
  <2>3. Load(n) = [k \in 0 .. w - 1 |-> Load(n)[k]]
    BY DEF Load, w
  <2> QED
    BY <1>6, <2>1, <2>2, <2>3
<1>8. CASE c > 0
  <2>1. w \in {8, 16, 32, 64} /\ e = c /\ b < w
    BY <1>1, <1>2, <1>3, <1>8, UnitOfBits
  <2>2. Amount(Load(n), b) = b
    <3> HIDE DEF w, b
    <3> QED
      BY <1>2, <1>5, <2>1, ShiftIsMeant
  <2>3. DOMAIN low = 0 .. w - 1
        /\ \A k \in 0 .. w - 1 : low[k] = IF k < c THEN BitOf(n, k) ELSE ZeroBit
    <3> DEFINE sh == Shr(Load(n), Amount(Load(n), b), Top(Load(n), signed))
    <3>1. DOMAIN sh = 0 .. w - 1
          /\ \A k \in 0 .. w - 1 : k + b \in 0 .. w - 1 => sh[k] = Load(n)[k + b]
      BY <1>5, <2>2 DEF Shr
    <3>2. low = [k \in 0 .. w - 1 |-> IF k < c THEN sh[k] ELSE ZeroBit]
      BY <3>1 DEF Mask
    <3> HIDE DEF sh, w, b, c, low
    <3>3. ASSUME NEW k \in 0 .. w - 1, k < c PROVE sh[k] = BitOf(n, k)
      <4>1. k + b \in 0 .. w - 1 /\ y + b + k = y + (k + b) /\ k \in 0 .. e - 1
        BY <1>2, <2>1, <3>3
      <4> QED
        BY <1>4, <1>5, <3>1, <4>1
    <3> QED
      BY <3>2, <3>3
  <2>4. ReadField(n) = IF signed /\ w - c > 0 THEN Shr(high, w - c, Top(high, TRUE)) ELSE low
    <3>1. ReadField(n) = IF c = 0 THEN Load(n)
                         ELSE IF signed /\ w - c > 0 THEN Shr(high, w - c, Top(high, TRUE)) ELSE low
      BY DEF ReadField
    <3>2. c # 0
      BY <1>2, <1>8
    <3> HIDE DEF w, c, low, high, signed
    <3> QED
      BY <3>1, <3>2
  <2>5. CASE ~(signed /\ w - c > 0)
    <3>1. ReadField(n) = low
      BY <2>4, <2>5
    <3>2. low = [k \in 0 .. w - 1 |-> low[k]]
      BY <1>5 DEF Mask, Shr
    <3> HIDE DEF w, b, c, low, signed
    <3>3. \A k \in 0 .. w - 1 : ~(k < c) => ~signed
      BY <1>2, <2>1, <2>5
    <3>4. \A k \in 0 .. w - 1 : low[k] = IF k < e THEN BitOf(n, k)
                                          ELSE IF signed /\ e - 1 >= 0 THEN BitOf(n, e - 1)
                                          ELSE ZeroBit
      BY <2>1, <2>3, <3>3
    <3> QED
      BY <1>6, <3>1, <3>2, <3>4
  <2>6. CASE signed /\ w - c > 0
    <3> DEFINE z == w - c
               top == Top(high, TRUE)
    <3>1. DOMAIN high = 0 .. w - 1
          /\ \A k \in 0 .. w - 1 : high[k] = IF k < z THEN ZeroBit ELSE low[k - z]
      BY <2>3 DEF Shl
    <3>2. ReadField(n) = [k \in 0 .. w - 1 |-> IF k + z \in 0 .. w - 1 THEN high[k + z] ELSE top]
      BY <2>4, <2>6, <3>1 DEF Shr
    <3>3. z \in Nat /\ z = w - c /\ c \in Nat /\ c > 0 /\ w \in Nat /\ w > 0
      BY <1>2, <1>8, <2>6
    <3>4. top = high[w - 1]
      <4>1. Cardinality(0 .. w - 1) = w
        <5>1. w - 1 \in Int /\ 0 \in Int /\ ~(0 > w - 1) /\ (w - 1) - 0 + 1 = w
          BY <3>3
        <5> HIDE DEF w
        <5> QED
          BY <5>1, FS_Interval
      <4> QED
        BY <3>1, <4>1 DEF Top
    <3> HIDE DEF w, b, c, low, high, signed, z, top
    <3>5. ASSUME NEW k \in 0 .. w - 1
          PROVE  (IF k + z \in 0 .. w - 1 THEN high[k + z] ELSE top)
                    = IF k < e THEN BitOf(n, k) ELSE BitOf(n, e - 1)
      <4>1. CASE k < c
        <5>1. k + z \in 0 .. w - 1 /\ ~(k + z < z) /\ (k + z) - z = k
          BY <3>3, <4>1
        <5>2. high[k + z] = low[k]
          BY <3>1, <5>1
        <5> QED
          BY <2>1, <2>3, <4>1, <5>1, <5>2
      <4>2. CASE ~(k < c)
        <5>1. k + z \notin 0 .. w - 1
          BY <3>3, <4>2
        <5>2. w - 1 \in 0 .. w - 1 /\ ~(w - 1 < z) /\ (w - 1) - z = c - 1
              /\ c - 1 \in 0 .. w - 1 /\ c - 1 < c
          BY <1>2, <2>1, <3>3
        <5>3. top = low[c - 1]
          BY <3>1, <3>4, <5>2
        <5>4. low[c - 1] = BitOf(n, c - 1)
          BY <2>3, <5>2
        <5> QED
          BY <2>1, <4>2, <5>1, <5>3, <5>4
      <4> QED
        BY <4>1, <4>2
    <3>6. signed /\ e - 1 >= 0
      BY <2>1, <2>6, <3>3
    <3> QED
      BY <1>6, <3>2, <3>5, <3>6
  <2> QED
    BY <2>5, <2>6
<1> QED
  BY <1>2, <1>7, <1>8

\* Every field reads as the value last stored into it, extended by its sign, whatever was
\* stored into the fields around it and by whichever of the three pieces of code, if every
\* bit field lies inside of its unit (ir_gen.c:47, 920 and 953).
THEOREM FieldsHoldTheirValues == Spec => []TameFieldsKeepValues
<1>1. Init => ValuesInv
  BY DEF Init, ValuesInv, WholeBytes
<1>2. ASSUME LayoutInv, ValuesInv, SizeCovers PROVE TameFieldsKeepValues
  <2>1. SUFFICES ASSUME Tame, mode # "walk"
                 PROVE  /\ \A n \in DOMAIN last : last[n] >= 0 => ReadField(n) = Expected(n)
                        /\ \A k \in DOMAIN memory : k >= 8 * Size => memory[k] = Garbage(k)
    BY DEF TameFieldsKeepValues, FieldsKeepValues
  <2>2. MemoryHolds
    BY <1>2, <2>1 DEF ValuesInv
  <2> QED
    BY <1>2, <2>1, <2>2, ReadsBack DEF MemoryHolds
<1>3. LayoutInv /\ FieldsApart /\ SizeCovers /\ ValuesInv /\ [Next]_vars => ValuesInv'
  BY StepKeepsValues
<1> QED
  BY <1>1, <1>2, <1>3, LayoutInvariance, FieldsNeverOverlap, SizesCoverFields, PTL DEF Spec
=============================================================================
