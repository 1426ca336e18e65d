---------------------------- MODULE PeLinkProofs ----------------------------
(***************************************************************************)
(* The executable of PeLink.tla for every program.  The two passes walk    *)
(* over the same instructions and meet every one of them at the same       *)
(* place, so that the second moves no block; the sections lie apart; and   *)
(* every displacement, whatever list, table and section it went through,   *)
(* leads to what its instruction is about.                                 *)
(***************************************************************************)
EXTENDS PeLink, SequenceTheorems, WellFoundedInduction, TLAPS

-----------------------------------------------------------------------------
(* The walk. *)

\* Where the cursor may stand, and the order in which it passes there.
Cursors ==
  {c \in [f : Nat, b : Nat, i : Nat] :
     \/ c = End
     \/ /\ c.f \in 1 .. Len(program.funcs) /\ c.b \in 1 .. Len(BlocksOf(c.f))
        /\ c.i \in 0 .. Len(BlocksOf(c.f)[c.b])}

\* The size of the text behind what stands at the cursor.
After(c, t) == IF c.i = 0 THEN AlignUp(t, 16) ELSE t + InstSize(InstAt(c), t)

\* A record of the places of the first pass, up to the cursor e.
Walked(pos, e) ==
  /\ pos[Start] = 0
  /\ \A c \in Cursors : Before(c, e) =>
       /\ pos[Advanced(c)] = After(c, pos[c])
       /\ c.i = 0 => offset[<<c.f, c.b>>] = AlignUp(pos[c], 16)

WalkInv ==
  /\ program \in Programs
  /\ offset \in [BlockIds(program) -> Nat]
  /\ phase \in {"externs", "globals", "strings"} => pass = 0 /\ cursor = Start /\ text = 0
  /\ phase = "emit" =>
       /\ pass \in {0, 1} /\ cursor \in Cursors
       /\ \E pos \in [Cursors -> Nat] :
            Walked(pos, IF pass = 0 THEN cursor ELSE End) /\ text = pos[cursor]

LEMMA AlignUpNat ==
  \A n \in Nat, a \in Nat \ {0} :
    /\ AlignUp(n, a) \in Nat /\ AlignUp(n, a) >= n /\ AlignUp(n, a) < n + a
    /\ AlignUp(n, a) % a = 0
<1> SUFFICES ASSUME NEW n \in Nat, NEW a \in Nat \ {0}
             PROVE  /\ AlignUp(n, a) \in Nat /\ AlignUp(n, a) >= n /\ AlignUp(n, a) < n + a
                    /\ AlignUp(n, a) % a = 0
  OBVIOUS
<1> DEFINE m == n + a - 1
           q == m \div a
<1>1. m \in Nat
  OBVIOUS
<1> HIDE DEF m
<1>2. q \in Nat /\ m = a * q + (m % a) /\ m % a \in 0 .. a - 1
  BY <1>1
<1>3. AlignUp(n, a) = q * a
  BY DEF AlignUp, m, q
<1> HIDE DEF q
<1>4. q * a = a * q /\ q * a \in Nat
  BY <1>2
<1>5. (q * a) % a = 0
  BY <1>2
<1> QED
  BY <1>2, <1>3, <1>4, <1>5 DEF m

LEMMA ShapeOfProgram ==
  ASSUME program \in Programs
  PROVE  /\ Len(program.funcs) \in Nat /\ DOMAIN program.funcs = 1 .. Len(program.funcs)
         /\ \A f \in 1 .. Len(program.funcs) :
              /\ Len(BlocksOf(f)) \in Nat \ {0} /\ DOMAIN BlocksOf(f) = 1 .. Len(BlocksOf(f))
              /\ \A b \in 1 .. Len(BlocksOf(f)) :
                   /\ Len(BlocksOf(f)[b]) \in Nat
                   /\ DOMAIN BlocksOf(f)[b] = 1 .. Len(BlocksOf(f)[b])
                   /\ \A i \in 1 .. Len(BlocksOf(f)[b]) : BlocksOf(f)[b][i].pre \in Nat
<1>1. IsSeq(program.funcs) /\ \A f \in DOMAIN program.funcs : ProperFunc(program.funcs[f], program)
  BY PeLinkAssumption
<1>2. Len(program.funcs) \in Nat /\ DOMAIN program.funcs = 1 .. Len(program.funcs)
  BY <1>1 DEF IsSeq
<1>3. ASSUME NEW f \in 1 .. Len(program.funcs)
      PROVE  /\ Len(BlocksOf(f)) \in Nat \ {0} /\ DOMAIN BlocksOf(f) = 1 .. Len(BlocksOf(f))
             /\ \A b \in 1 .. Len(BlocksOf(f)) :
                  /\ Len(BlocksOf(f)[b]) \in Nat
                  /\ DOMAIN BlocksOf(f)[b] = 1 .. Len(BlocksOf(f)[b])
                  /\ \A i \in 1 .. Len(BlocksOf(f)[b]) : BlocksOf(f)[b][i].pre \in Nat
  <2>1. ProperFunc(program.funcs[f], program)
    BY <1>1, <1>2
  <2>2. IsSeq(BlocksOf(f)) /\ Len(BlocksOf(f)) > 0
    BY <2>1 DEF ProperFunc, BlocksOf
  <2>3. Len(BlocksOf(f)) \in Nat \ {0} /\ DOMAIN BlocksOf(f) = 1 .. Len(BlocksOf(f))
    BY <2>2 DEF IsSeq
  <2>4. \A b \in DOMAIN BlocksOf(f) : /\ IsSeq(BlocksOf(f)[b])
                                      /\ \A i \in DOMAIN BlocksOf(f)[b] : BlocksOf(f)[b][i].pre \in Nat
    BY <2>1 DEF ProperFunc, BlocksOf
  <2> QED
    BY <2>3, <2>4 DEF IsSeq
<1> QED
  BY <1>2, <1>3

LEMMA StartIsCursor ==
  ASSUME program \in Programs
  PROVE  Start \in Cursors /\ End \in Cursors
<1>1. End \in [f : Nat, b : Nat, i : Nat]
  BY ShapeOfProgram DEF End
<1>2. CASE Len(program.funcs) = 0
  BY <1>1, <1>2 DEF Start, End, Cursors
<1>3. CASE Len(program.funcs) # 0
  <2>1. 1 \in 1 .. Len(program.funcs)
    BY <1>3, ShapeOfProgram
  <2>2. 1 \in 1 .. Len(BlocksOf(1)) /\ 0 \in 0 .. Len(BlocksOf(1)[1])
    BY <2>1, ShapeOfProgram
  <2> QED
    BY <1>1, <2>1, <2>2 DEF Start, Cursors
<1> QED
  BY <1>2, <1>3

\* The cursor goes on to the next place in the order.
LEMMA AdvancedIsNext ==
  ASSUME program \in Programs, NEW c \in Cursors, c # End
  PROVE  /\ Advanced(c) \in Cursors
         /\ \A e \in Cursors : Before(e, Advanced(c)) => e = c \/ Before(e, c)
         /\ Before(c, Advanced(c)) /\ Before(c, End)
         /\ \A e \in Cursors : Before(e, c) => e # c
<1> DEFINE n == Len(program.funcs)
           nb(f) == Len(BlocksOf(f))
           ni(f, b) == Len(BlocksOf(f)[b])
<1>1. /\ n \in Nat
      /\ \A f \in 1 .. n : nb(f) \in Nat \ {0}
      /\ \A f \in 1 .. n : \A b \in 1 .. nb(f) : ni(f, b) \in Nat
  BY ShapeOfProgram
<1>2. /\ c = [f |-> c.f, b |-> c.b, i |-> c.i]
      /\ c.f \in 1 .. n /\ c.b \in 1 .. nb(c.f) /\ c.i \in 0 .. ni(c.f, c.b)
  BY DEF Cursors
<1>3. /\ c.i < ni(c.f, c.b) => Advanced(c) = [f |-> c.f, b |-> c.b, i |-> c.i + 1]
      /\ c.i = ni(c.f, c.b) /\ c.b < nb(c.f) => Advanced(c) = [f |-> c.f, b |-> c.b + 1, i |-> 0]
      /\ c.i = ni(c.f, c.b) /\ c.b = nb(c.f) => Advanced(c) = [f |-> c.f + 1, b |-> 1, i |-> 0]
  <2>1. /\ c.i < ni(c.f, c.b) => Advanced(c) = [c EXCEPT !.i = c.i + 1]
        /\ c.i = ni(c.f, c.b) /\ c.b < nb(c.f) => Advanced(c) = [c EXCEPT !.b = c.b + 1, !.i = 0]
        /\ c.i = ni(c.f, c.b) /\ c.b = nb(c.f) => Advanced(c) = [f |-> c.f + 1, b |-> 1, i |-> 0]
    BY <1>1, <1>2 DEF Advanced
  <2> QED
    BY <1>2, <2>1
<1>4. \A e \in Cursors :
        /\ e = [f |-> e.f, b |-> e.b, i |-> e.i] /\ e.f \in Nat /\ e.b \in Nat /\ e.i \in Nat
        /\ e = End \/ (e.f \in 1 .. n /\ e.b \in 1 .. nb(e.f) /\ e.i \in 0 .. ni(e.f, e.b))
  BY DEF Cursors
<1>5. End = [f |-> n + 1, b |-> 1, i |-> 0]
  BY DEF End
<1>6. \A x \in [f : Nat, b : Nat, i : Nat] :
        \/ x = End
        \/ x.f \in 1 .. n /\ x.b \in 1 .. nb(x.f) /\ x.i \in 0 .. ni(x.f, x.b)
        => x \in Cursors
  BY DEF Cursors
<1> HIDE DEF n, nb, ni
<1>7. CASE c.i < ni(c.f, c.b)
  <2>1. Advanced(c) = [f |-> c.f, b |-> c.b, i |-> c.i + 1]
    BY <1>3, <1>7
  <2>2. Advanced(c) \in Cursors
    BY <1>1, <1>2, <1>6, <1>7, <2>1
  <2> QED
    BY <1>1, <1>2, <1>4, <1>5, <2>1, <2>2 DEF Before
<1>8. CASE c.i = ni(c.f, c.b) /\ c.b < nb(c.f)
  <2>1. Advanced(c) = [f |-> c.f, b |-> c.b + 1, i |-> 0]
    BY <1>3, <1>8
  <2>2. Advanced(c) \in Cursors
    BY <1>1, <1>2, <1>6, <1>8, <2>1
  <2> QED
    BY <1>1, <1>2, <1>4, <1>5, <1>8, <2>1, <2>2 DEF Before
<1>9. CASE c.i = ni(c.f, c.b) /\ c.b = nb(c.f)
  <2>1. Advanced(c) = [f |-> c.f + 1, b |-> 1, i |-> 0]
    BY <1>3, <1>9
  <2>2. Advanced(c) \in Cursors
    BY <1>1, <1>2, <1>5, <1>6, <1>9, <2>1
  <2> QED
    BY <1>1, <1>2, <1>4, <1>5, <1>9, <2>1, <2>2 DEF Before
<1> QED
  BY <1>1, <1>2, <1>7, <1>8, <1>9

\* What is emitted at the cursor.
LEMMA AtTheCursor ==
  ASSUME program \in Programs, NEW c \in Cursors, c # End, NEW t \in Nat
  PROVE  /\ After(c, t) \in Nat
         /\ <<c.f, c.b>> \in BlockIds(program)
         /\ c.i > 0 => InstSize(InstAt(c), t) \in Nat
<1>1. /\ c.f \in 1 .. Len(program.funcs) /\ c.b \in 1 .. Len(BlocksOf(c.f))
      /\ c.i \in 0 .. Len(BlocksOf(c.f)[c.b])
  BY DEF Cursors
<1>2. /\ Len(BlocksOf(c.f)[c.b]) \in Nat
      /\ \A i \in 1 .. Len(BlocksOf(c.f)[c.b]) : BlocksOf(c.f)[c.b][i].pre \in Nat
  BY <1>1, ShapeOfProgram
<1>3. c.i > 0 => InstSize(InstAt(c), t) \in Nat
  <2>1. SUFFICES ASSUME c.i > 0 PROVE InstSize(InstAt(c), t) \in Nat
    OBVIOUS
  <2>2. c.i \in 1 .. Len(BlocksOf(c.f)[c.b])
    BY <1>1, <1>2, <2>1
  <2>3. InstAt(c).pre \in Nat
    BY <1>2, <2>2 DEF InstAt
  <2> QED
    BY <2>3 DEF InstSize
<1>4. After(c, t) \in Nat
  <2>1. CASE c.i = 0
    <3>1. AlignUp(t, 16) \in Nat
      BY AlignUpNat
    <3> QED
      BY <2>1, <3>1 DEF After
  <2>2. CASE c.i # 0
    <3>1. c.i > 0
      BY <1>1, <1>2, <2>2
    <3> QED
      BY <1>3, <2>2, <3>1 DEF After
  <2> QED
    BY <2>1, <2>2
<1>5. <<c.f, c.b>> \in BlockIds(program)
  <2>1. c.f \in DOMAIN program.funcs /\ c.b \in DOMAIN program.funcs[c.f].blocks
    BY <1>1, ShapeOfProgram DEF BlocksOf
  <2> QED
    BY <2>1 DEF BlockIds
<1> QED
  BY <1>3, <1>4, <1>5

\* A step of a walk: the record grows in the first pass and is met again in the second.
LEMMA EmitKeeps ==
  ASSUME WalkInv, BeginBlock \/ EmitInst
  PROVE  /\ WalkInv'
         /\ pass = 1 => offset' = offset
<1>1. /\ phase = "emit" /\ cursor # End /\ cursor' = Advanced(cursor)
      /\ UNCHANGED <<program, phase, pass>>
  BY DEF BeginBlock, EmitInst
<1>2. /\ program \in Programs /\ offset \in [BlockIds(program) -> Nat]
      /\ pass \in {0, 1} /\ cursor \in Cursors
  BY <1>1 DEF WalkInv
<1>3. PICK pos \in [Cursors -> Nat] :
        Walked(pos, IF pass = 0 THEN cursor ELSE End) /\ text = pos[cursor]
  BY <1>1 DEF WalkInv
<1>4. /\ text \in Nat /\ Start \in Cursors /\ Advanced(cursor) \in Cursors
      /\ After(cursor, text) \in Nat /\ <<cursor.f, cursor.b>> \in BlockIds(program)
  BY <1>1, <1>2, <1>3, StartIsCursor, AdvancedIsNext, AtTheCursor
<1>5. /\ text' = After(cursor, text)
      /\ cursor.i = 0 => offset' = [offset EXCEPT ![<<cursor.f, cursor.b>>] = text']
      /\ cursor.i # 0 => offset' = offset
  <2>1. CASE BeginBlock
    BY <2>1 DEF BeginBlock, After
  <2>2. CASE EmitInst
    <3>1. cursor.i # 0 /\ offset' = offset
      BY <2>2 DEF EmitInst
    <3>2. text' = text + InstSize(InstAt(cursor), text)
      BY <2>2 DEF EmitInst
    <3> QED
      BY <3>1, <3>2 DEF After
  <2> QED
    BY <2>1, <2>2
<1>6. offset' \in [BlockIds(program) -> Nat]
  BY <1>2, <1>4, <1>5
<1>7. cursor.i = 0 => text' = AlignUp(text, 16)
  BY <1>5 DEF After
<1>8. Cursors' = Cursors /\ Start' = Start /\ End' = End
      /\ (\A c : Advanced(c)' = Advanced(c)) /\ (\A c, t : After(c, t)' = After(c, t))
  BY <1>1 DEF Cursors, Start, End, Advanced, After, BlocksOf, InstAt, InstSize
<1>9. CASE pass = 0
  <2>0. PICK q : q = [pos EXCEPT ![Advanced(cursor)] = After(cursor, text)]
    OBVIOUS
  <2>1. q \in [Cursors -> Nat] /\ q[Advanced(cursor)] = text'
    BY <1>4, <1>5, <2>0
  <2>2. ASSUME NEW e \in Cursors, e = cursor \/ Before(e, cursor) PROVE q[e] = pos[e]
    <3>1. e # Advanced(cursor)
      <4>1. e = cursor \/ Before(e, cursor) => Before(e, Advanced(cursor))
        <5>1. Before(cursor, Advanced(cursor))
          BY <1>1, <1>2, AdvancedIsNext
        <5>2. cursor.f \in Nat /\ cursor.b \in Nat /\ cursor.i \in Nat
              /\ e.f \in Nat /\ e.b \in Nat /\ e.i \in Nat
              /\ Advanced(cursor).f \in Nat /\ Advanced(cursor).b \in Nat /\ Advanced(cursor).i \in Nat
          BY <1>2, <1>4 DEF Cursors
        <5> QED
          BY <5>1, <5>2 DEF Before
      <4>2. e.f \in Nat /\ e.b \in Nat /\ e.i \in Nat
        BY DEF Cursors
      <4>3. ~Before(e, e)
        BY <4>2 DEF Before
      <4> QED
        BY <2>2, <4>1, <4>3
    <3> QED
      BY <1>4, <2>0, <3>1
  <2>3. q[Start] = 0
    <3>1. Start = cursor \/ Before(Start, cursor)
      <4>1. cursor.f \in Nat /\ cursor.b \in Nat /\ cursor.i \in Nat
            /\ cursor = [f |-> cursor.f, b |-> cursor.b, i |-> cursor.i]
        BY <1>2 DEF Cursors
      <4>2. cursor.f >= 1 /\ cursor.b >= 1
        BY <1>1, <1>2, ShapeOfProgram DEF Cursors
      <4> QED
        BY <4>1, <4>2 DEF Before, Start
    <3> QED
      BY <1>3, <1>4, <2>2, <3>1 DEF Walked
  <2>4. ASSUME NEW c \in Cursors, Before(c, Advanced(cursor))
        PROVE  /\ q[Advanced(c)] = After(c, q[c])
               /\ c.i = 0 => offset'[<<c.f, c.b>>] = AlignUp(q[c], 16)
    <3>1. CASE c = cursor
      <4>1. q[c] = text
        BY <1>3, <2>2, <3>1
      <4> QED
        BY <1>2, <1>4, <1>5, <1>7, <2>1, <3>1, <4>1
    <3>2. CASE c # cursor
      <4>1. Before(c, cursor)
        BY <1>1, <1>2, <2>4, <3>2, AdvancedIsNext
      <4>2. c # End
        <5>1. Before(cursor, End)
          BY <1>1, <1>2, AdvancedIsNext
        <5>2. cursor.f \in Nat /\ cursor.b \in Nat /\ cursor.i \in Nat
              /\ c.f \in Nat /\ c.b \in Nat /\ c.i \in Nat
          BY <1>2 DEF Cursors
        <5> QED
          BY <4>1, <5>1, <5>2 DEF Before
      <4>3. Advanced(c) = cursor \/ Before(Advanced(c), cursor)
        <5>1. Before(c, Advanced(c)) /\ Advanced(c) \in Cursors
              /\ \A e \in Cursors : Before(e, Advanced(c)) => e = c \/ Before(e, c)
          BY <1>2, <4>2, AdvancedIsNext
        <5>2. ~Before(cursor, c) /\ cursor # c
          <6>1. cursor.f \in Nat /\ cursor.b \in Nat /\ cursor.i \in Nat
                /\ c.f \in Nat /\ c.b \in Nat /\ c.i \in Nat
            BY <1>2 DEF Cursors
          <6> QED
            BY <3>2, <4>1, <6>1 DEF Before
        <5>3. ~Before(cursor, Advanced(c))
          BY <1>2, <5>1, <5>2
        <5>4. /\ cursor = [f |-> cursor.f, b |-> cursor.b, i |-> cursor.i]
              /\ cursor.f \in Nat /\ cursor.b \in Nat /\ cursor.i \in Nat
          BY <1>2 DEF Cursors
        <5>5. /\ Advanced(c) = [f |-> Advanced(c).f, b |-> Advanced(c).b, i |-> Advanced(c).i]
              /\ Advanced(c).f \in Nat /\ Advanced(c).b \in Nat /\ Advanced(c).i \in Nat
          BY <5>1 DEF Cursors
        <5> QED
          BY <5>3, <5>4, <5>5 DEF Before
      <4>4. q[c] = pos[c] /\ q[Advanced(c)] = pos[Advanced(c)]
        BY <1>2, <2>2, <4>1, <4>2, <4>3, AdvancedIsNext
      <4>5. pos[Advanced(c)] = After(c, pos[c])
            /\ (c.i = 0 => offset[<<c.f, c.b>>] = AlignUp(pos[c], 16))
        BY <1>3, <1>9, <4>1 DEF Walked
      <4>6. c.i = 0 => offset'[<<c.f, c.b>>] = offset[<<c.f, c.b>>]
        <5>1. SUFFICES ASSUME c.i = 0, cursor.i = 0
                       PROVE  offset'[<<c.f, c.b>>] = offset[<<c.f, c.b>>]
          BY <1>5
        <5>2. <<c.f, c.b>> # <<cursor.f, cursor.b>>
          BY <1>2, <3>2, <5>1 DEF Cursors
        <5>3. <<c.f, c.b>> \in BlockIds(program)
          BY <1>2, <4>2, AtTheCursor
        <5> QED
          BY <1>2, <1>5, <5>1, <5>2, <5>3
      <4> QED
        BY <4>4, <4>5, <4>6
    <3> QED
      BY <3>1, <3>2
  <2>5. Walked(q, cursor)'
    BY <1>1, <1>8, <2>3, <2>4 DEF Walked
  <2>6. text' = q[cursor']
    BY <1>1, <2>1
  <2> QED
    BY <1>1, <1>2, <1>4, <1>6, <1>8, <1>9, <2>1, <2>5, <2>6 DEF WalkInv
<1>10. CASE pass = 1
  <2>1. Walked(pos, End)
    BY <1>3, <1>10
  <2>2. Before(cursor, End)
    BY <1>1, <1>2, AdvancedIsNext
  <2>3. /\ pos[Advanced(cursor)] = After(cursor, text)
        /\ cursor.i = 0 => offset[<<cursor.f, cursor.b>>] = AlignUp(text, 16)
    BY <1>2, <1>3, <2>1, <2>2 DEF Walked
  <2>4. offset' = offset
    BY <1>2, <1>4, <1>5, <1>7, <2>3
  <2>5. Walked(pos, End)'
    BY <1>8, <2>1, <2>4 DEF Walked
  <2>6. text' = pos[cursor']
    BY <1>1, <1>5, <2>3
  <2> QED
    BY <1>1, <1>2, <1>4, <1>6, <1>8, <1>10, <2>4, <2>5, <2>6 DEF WalkInv
<1> QED
  BY <1>2, <1>9, <1>10

\* The stub ends a pass; the second starts with the record of the first.
LEMMA EmitStartKeeps == WalkInv /\ EmitStart => WalkInv'
<1> SUFFICES ASSUME WalkInv, EmitStart PROVE WalkInv'
  OBVIOUS
<1>1. /\ phase = "emit" /\ cursor = End /\ UNCHANGED <<program, offset>>
      /\ program \in Programs /\ offset \in [BlockIds(program) -> Nat]
  BY DEF EmitStart, WalkInv
<1>2. CASE pass = 0
  <2>1. text' = 0 /\ pass' = 1 /\ cursor' = Start /\ phase' = phase
    BY <1>2 DEF EmitStart
  <2>2. PICK pos \in [Cursors -> Nat] : Walked(pos, End)
    BY <1>1, <1>2 DEF WalkInv
  <2>3. Cursors' = Cursors /\ Start' = Start /\ End' = End
        /\ (\A c : Advanced(c)' = Advanced(c)) /\ (\A c, t : After(c, t)' = After(c, t))
    BY <1>1 DEF Cursors, Start, End, Advanced, After, BlocksOf, InstAt, InstSize
  <2>4. Walked(pos, End)'
    BY <1>1, <2>2, <2>3 DEF Walked
  <2>5. text' = pos[cursor']
    BY <2>1, <2>2 DEF Walked
  <2> QED
    BY <1>1, <2>1, <2>2, <2>3, <2>4, <2>5, StartIsCursor DEF WalkInv
<1>3. CASE pass # 0
  <2>1. phase' = "imports"
    BY <1>3 DEF EmitStart
  <2> QED
    BY <1>1, <2>1 DEF WalkInv
<1> QED
  BY <1>2, <1>3

LEMMA EmitBegins ==
  ASSUME WalkInv, CollectString
  PROVE  WalkInv'
<1>1. /\ phase = "strings" /\ phase' \in {"strings", "emit"}
      /\ UNCHANGED <<program, pass, cursor, text, offset>>
  BY DEF CollectString
<1>2. /\ program \in Programs /\ offset \in [BlockIds(program) -> Nat]
      /\ pass = 0 /\ cursor = Start /\ text = 0
  BY <1>1 DEF WalkInv
<1>3. Cursors' = Cursors /\ Start' = Start /\ End' = End
  BY <1>1 DEF Cursors, Start, End, BlocksOf
<1>4. PICK pos : pos = [c \in Cursors |-> 0]
  OBVIOUS
<1>5. pos \in [Cursors -> Nat] /\ pos[Start] = 0 /\ Start \in Cursors
  BY <1>2, <1>4, StartIsCursor
<1>6. \A c \in Cursors : ~Before(c, Start)
  <2>1. SUFFICES ASSUME NEW c \in Cursors PROVE ~Before(c, Start)
    OBVIOUS
  <2>2. c.f \in Nat /\ c.b \in Nat /\ c.i \in Nat /\ c.f >= 1 /\ c.b >= 1
    BY <1>2, ShapeOfProgram DEF Cursors, End
  <2> QED
    BY <2>2 DEF Before, Start
<1>7. Walked(pos, Start)'
  BY <1>3, <1>5, <1>6 DEF Walked, Before
<1> QED
  BY <1>1, <1>2, <1>3, <1>5, <1>7 DEF WalkInv

LEMMA StepKeepsWalk == WalkInv /\ [Next]_vars => WalkInv'
<1> SUFFICES ASSUME WalkInv, [Next]_vars PROVE WalkInv'
  OBVIOUS
<1>1. CASE BeginBlock \/ EmitInst
  BY <1>1, EmitKeeps
<1>2. CASE EmitStart
  BY <1>2, EmitStartKeeps
<1>3. CASE CollectString
  BY <1>3, EmitBegins
<1>4. CASE AddSysExtern \/ PlaceGlobal \/ AddImport \/ AllotPiece \/ JoinTables \/ LayOut \/ Patch
  <2>1. /\ UNCHANGED <<program, pass, cursor, text, offset>>
        /\ phase' # "emit" /\ (phase' \in {"externs", "globals", "strings"} =>
                                  phase \in {"externs", "globals", "strings"})
    <3>1. CASE AddSysExtern
      BY <3>1 DEF AddSysExtern
    <3>2. CASE PlaceGlobal
      BY <3>2 DEF PlaceGlobal
    <3>3. CASE AddImport
      BY <3>3 DEF AddImport
    <3>4. CASE AllotPiece
      BY <3>4 DEF AllotPiece
    <3>5. CASE JoinTables
      BY <3>5 DEF JoinTables
    <3>6. CASE LayOut
      BY <3>6 DEF LayOut
    <3>7. CASE Patch
      BY <3>7 DEF Patch
    <3> QED
      BY <1>4, <3>1, <3>2, <3>3, <3>4, <3>5, <3>6, <3>7
  <2> QED
    BY <2>1 DEF WalkInv, Start
<1>5. CASE Finished \/ UNCHANGED vars
  <2>1. UNCHANGED vars
    BY <1>5 DEF Finished
  <2>2. UNCHANGED <<program, phase, pass, cursor, text, offset>>
    BY <2>1 DEF vars
  <2>3. Cursors' = Cursors /\ Start' = Start /\ End' = End
        /\ (\A c : Advanced(c)' = Advanced(c)) /\ (\A c, t : After(c, t)' = After(c, t))
    BY <2>2 DEF Cursors, Start, End, Advanced, After, BlocksOf, InstAt, InstSize
  <2>4. \A pos, e : Walked(pos, e)' = Walked(pos, e)
    BY <2>2, <2>3 DEF Walked
  <2> QED
    BY <2>2, <2>3, <2>4 DEF WalkInv
<1> QED
  BY <1>1, <1>2, <1>3, <1>4, <1>5 DEF Next

THEOREM WalkInvariance == Spec => []WalkInv
<1>1. Init => WalkInv
  BY DEF Init, WalkInv
<1> QED
  BY <1>1, StepKeepsWalk, PTL DEF Spec

\* The second pass finds every block where the first one put it (pe_linker.c:277).
THEOREM BlocksStay == Spec => SecondPassMovesNothing
<1>1. WalkInv /\ [Next]_vars => [phase = "emit" /\ pass = 1 => offset' = offset]_vars
  <2>1. SUFFICES ASSUME WalkInv, Next, phase = "emit", pass = 1 PROVE offset' = offset
    OBVIOUS
  <2>2. CASE BeginBlock \/ EmitInst
    BY <2>1, <2>2, EmitKeeps
  <2>3. CASE EmitStart
    BY <2>3 DEF EmitStart
  <2>4. CASE Finished
    BY <2>4 DEF Finished, vars
  <2> QED
    BY <2>1, <2>2, <2>3, <2>4
       DEF Next, AddSysExtern, PlaceGlobal, CollectString, AddImport, AllotPiece, JoinTables,
           LayOut, Patch
<1> QED
  BY <1>1, WalkInvariance, PTL DEF Spec, SecondPassMovesNothing

-----------------------------------------------------------------------------
(* Sequences and smallest numbers. *)

LEMMA LeastNat ==
  ASSUME NEW T \in SUBSET Nat, T # {}
  PROVE  \E x \in T : \A y \in T : x <= y
<1>1. PICK x \in T : \A y \in T : ~(<<y, x>> \in OpToRel(<, Nat))
  BY WFMin, NatLessThanWellFounded, Zenon
<1>2. ASSUME NEW y \in T PROVE x <= y
  <2>1. x \in Nat /\ y \in Nat
    OBVIOUS
  <2>2. ~(<<y, x>> \in OpToRel(<, Nat)) /\ <<y, x>> \in Nat \X Nat
    BY <1>1, <2>1
  <2>3. ~(y < x)
    BY <2>2, Zenon DEF OpToRel
  <2> QED
    BY <2>1, <2>3
<1> QED
  BY <1>2

LEMMA FirstIsOne ==
  ASSUME NEW I, I \subseteq Nat \ {0}
  PROVE  /\ I = {} => First(I) = 0
         /\ I # {} => First(I) \in I /\ First(I) # 0
<1>1. ASSUME I # {} PROVE First(I) \in I
  <2>1. \E x \in I : \A y \in I : x <= y
    BY <1>1, LeastNat
  <2>2. First(I) = CHOOSE x \in I : \A y \in I : x =< y
    BY <1>1 DEF First, Min
  <2> QED
    BY <2>1, <2>2
<1> QED
  BY <1>1 DEF First

LEMMA SeqOfItself ==
  ASSUME NEW s, IsSeq(s)
  PROVE  /\ Len(s) \in Nat /\ DOMAIN s = 1 .. Len(s)
         /\ s \in Seq(ToSet(s))
<1>1. Len(s) \in Nat /\ s = [i \in 1 .. Len(s) |-> s[i]]
  BY DEF IsSeq
<1>2. DOMAIN s = 1 .. Len(s)
  BY <1>1
<1>3. s \in [1 .. Len(s) -> ToSet(s)]
  BY <1>1, <1>2 DEF ToSet
<1>4. s \in UNION {[1 .. n -> ToSet(s)] : n \in Nat}
  BY <1>1, <1>3
<1> QED
  BY <1>1, <1>2, <1>4, SeqDef, Zenon

LEMMA SeqIsSeq ==
  ASSUME NEW S, NEW s \in Seq(S)
  PROVE  IsSeq(s)
BY LenProperties DEF IsSeq

LEMMA AppendIsSeq ==
  ASSUME NEW s, IsSeq(s), NEW e
  PROVE  /\ IsSeq(Append(s, e)) /\ Append(s, e) # <<>>
         /\ Len(Append(s, e)) = Len(s) + 1 /\ Last(Append(s, e)) = e
         /\ DOMAIN Append(s, e) = 1 .. Len(s) + 1
         /\ \A i \in 1 .. Len(s) : Append(s, e)[i] = s[i]
         /\ Append(s, e)[Len(s) + 1] = e
         /\ ToSet(Append(s, e)) = ToSet(s) \cup {e}
<1> DEFINE S == ToSet(s) \cup {e}
           t == Append(s, e)
<1>1. s \in Seq(S) /\ Len(s) \in Nat /\ DOMAIN s = 1 .. Len(s)
  BY SeqOfItself, SeqMonotonic
<1>2. e \in S
  OBVIOUS
<1>3. /\ t \in Seq(S) /\ t # <<>> /\ Len(t) = Len(s) + 1
      /\ \A i \in 1 .. Len(s) : t[i] = s[i]
      /\ t[Len(s) + 1] = e
  BY <1>1, <1>2, AppendProperties
<1>4. IsSeq(t)
  BY <1>3, SeqIsSeq
<1>5. DOMAIN t = 1 .. Len(s) + 1
  BY <1>3, <1>4, SeqOfItself
<1>6. Last(t) = e
  BY <1>3 DEF Last
<1> HIDE DEF t
<1>7. ToSet(t) = ToSet(s) \cup {e}
  <2>1. \A i \in DOMAIN t : i \in 1 .. Len(s) \/ i = Len(s) + 1
    BY <1>1, <1>5
  <2>2. \A i \in DOMAIN s : i \in DOMAIN t
    BY <1>1, <1>5
  <2>3. Len(s) + 1 \in DOMAIN t
    BY <1>1, <1>5
  <2> QED
    BY <1>1, <1>3, <2>1, <2>2, <2>3 DEF ToSet
<1> QED
  BY <1>3, <1>4, <1>5, <1>6, <1>7 DEF t

LEMMA ConcatIsSeq ==
  ASSUME NEW s, IsSeq(s), NEW t, IsSeq(t)
  PROVE  /\ IsSeq(s \o t) /\ Len(s \o t) = Len(s) + Len(t)
         /\ DOMAIN (s \o t) = 1 .. Len(s) + Len(t)
         /\ \A i \in 1 .. Len(s) : (s \o t)[i] = s[i]
         /\ \A i \in 1 .. Len(t) : (s \o t)[Len(s) + i] = t[i]
         /\ \A i \in 1 .. Len(s) + Len(t) :
              i \in 1 .. Len(s) \/ (i - Len(s) \in 1 .. Len(t) /\ (s \o t)[i] = t[i - Len(s)])
         /\ ToSet(s \o t) = ToSet(s) \cup ToSet(t)
<1> DEFINE S == ToSet(s) \cup ToSet(t)
           u == s \o t
<1>1. /\ s \in Seq(S) /\ Len(s) \in Nat /\ DOMAIN s = 1 .. Len(s)
      /\ t \in Seq(S) /\ Len(t) \in Nat /\ DOMAIN t = 1 .. Len(t)
  BY SeqOfItself, SeqMonotonic
<1>2. /\ u \in Seq(S) /\ Len(u) = Len(s) + Len(t)
      /\ \A i \in 1 .. Len(s) + Len(t) : u[i] = IF i <= Len(s) THEN s[i] ELSE t[i - Len(s)]
  BY <1>1, ConcatProperties
<1>3. IsSeq(u)
  BY <1>2, SeqIsSeq
<1>4. DOMAIN u = 1 .. Len(s) + Len(t)
  BY <1>2, <1>3, SeqOfItself
<1> HIDE DEF u
<1>5. \A i \in 1 .. Len(s) : u[i] = s[i]
  BY <1>1, <1>2
<1>6. \A i \in 1 .. Len(t) : u[Len(s) + i] = t[i]
  <2>1. SUFFICES ASSUME NEW i \in 1 .. Len(t) PROVE u[Len(s) + i] = t[i]
    OBVIOUS
  <2>2. Len(s) + i \in 1 .. Len(s) + Len(t) /\ ~(Len(s) + i <= Len(s)) /\ Len(s) + i - Len(s) = i
    BY <1>1
  <2> QED
    BY <1>2, <2>2
<1>7. \A i \in 1 .. Len(s) + Len(t) :
        i \in 1 .. Len(s) \/ (i - Len(s) \in 1 .. Len(t) /\ u[i] = t[i - Len(s)])
  BY <1>1, <1>2
<1>8. ToSet(u) = S
  <2>1. ToSet(u) \subseteq S
    BY <1>1, <1>4, <1>5, <1>7 DEF ToSet
  <2>2. \A i \in DOMAIN s : i \in DOMAIN u /\ u[i] = s[i]
    BY <1>1, <1>4, <1>5
  <2>3. \A i \in DOMAIN t : Len(s) + i \in DOMAIN u /\ u[Len(s) + i] = t[i]
    BY <1>1, <1>4, <1>6
  <2> QED
    BY <2>1, <2>2, <2>3 DEF ToSet
<1> QED
  BY <1>2, <1>3, <1>4, <1>5, <1>6, <1>7, <1>8 DEF u

LEMMA FunctionIsSeq ==
  ASSUME NEW n \in Nat, NEW s, DOMAIN s = 1 .. n, s = [i \in DOMAIN s |-> s[i]]
  PROVE  IsSeq(s) /\ Len(s) = n
<1>1. s \in [1 .. n -> {s[i] : i \in 1 .. n}]
  OBVIOUS
<1>2. s \in Seq({s[i] : i \in 1 .. n})
  BY <1>1, SeqDef, Zenon
<1>3. Len(s) \in Nat /\ DOMAIN s = 1 .. Len(s)
  BY <1>2, LenProperties
<1>4. Len(s) = n
  BY <1>3
<1> QED
  BY <1>2, <1>4, SeqIsSeq

-----------------------------------------------------------------------------
(* Items one behind the other. *)

IsItem(x) == x = Item(x.kind, x.at, x.size, x.holds)
Tiles(items) ==
  /\ IsSeq(items) /\ \A k \in 1 .. Len(items) : IsItem(items[k])
  /\ \A k \in 1 .. Len(items) : items[k].at \in Nat /\ items[k].size \in Nat
  /\ \A j, k \in 1 .. Len(items) : j < k => items[j].at + items[j].size <= items[k].at

LEMMA TilesEnd ==
  ASSUME NEW items, Tiles(items)
  PROVE  /\ SizeOf(items) \in Nat
         /\ \A k \in 1 .. Len(items) : items[k].at + items[k].size <= SizeOf(items)
<1>1. Len(items) \in Nat /\ DOMAIN items = 1 .. Len(items) /\ items \in Seq(ToSet(items))
  BY SeqOfItself DEF Tiles
<1>2. CASE items = <<>>
  BY <1>2 DEF SizeOf
<1>3. CASE items # <<>>
  <2>1. Len(items) \in 1 .. Len(items)
    BY <1>1, <1>3, EmptySeq
  <2>2. SizeOf(items) = items[Len(items)].at + items[Len(items)].size
    BY <1>3 DEF SizeOf, Last
  <2>3. /\ items[Len(items)].at \in Nat /\ items[Len(items)].size \in Nat
        /\ \A k \in 1 .. Len(items) : items[k].at \in Nat /\ items[k].size \in Nat
        /\ \A k \in 1 .. Len(items) :
             k < Len(items) => items[k].at + items[k].size <= items[Len(items)].at
    BY <2>1 DEF Tiles
  <2>4. ASSUME NEW k \in 1 .. Len(items)
        PROVE  items[k].at + items[k].size <= SizeOf(items)
    <3>1. CASE k = Len(items)
      BY <2>2, <2>3, <3>1
    <3>2. CASE k < Len(items)
      <4>1. items[k].at + items[k].size <= items[Len(items)].at
        BY <2>3, <3>2
      <4> QED
        BY <2>2, <2>3, <4>1
    <3>3. Len(items) \in Nat
      BY <1>1
    <3>4. k = Len(items) \/ k < Len(items)
      BY <3>3
    <3> QED
      BY <3>1, <3>2, <3>4
  <2> QED
    BY <2>2, <2>3, <2>4
<1> QED
  BY <1>2, <1>3

LEMMA TilesGrow ==
  ASSUME NEW items, Tiles(items), NEW item, IsItem(item), item.at \in Nat, item.size \in Nat,
         item.at >= SizeOf(items)
  PROVE  Tiles(Append(items, item)) /\ SizeOf(Append(items, item)) = item.at + item.size
<1> DEFINE new == Append(items, item)
<1>1. /\ IsSeq(new) /\ new # <<>> /\ Len(new) = Len(items) + 1 /\ Last(new) = item
      /\ \A i \in 1 .. Len(items) : new[i] = items[i]
      /\ new[Len(items) + 1] = item /\ Len(items) \in Nat
  BY AppendIsSeq, SeqOfItself DEF Tiles
<1>2. SizeOf(items) \in Nat /\ \A k \in 1 .. Len(items) : items[k].at + items[k].size <= SizeOf(items)
  BY TilesEnd
<1>3. SizeOf(new) = item.at + item.size
  BY <1>1 DEF SizeOf
<1> HIDE DEF new
<1>4. \A k \in 1 .. Len(new) : IsItem(new[k]) /\ new[k].at \in Nat /\ new[k].size \in Nat
  <2>1. SUFFICES ASSUME NEW k \in 1 .. Len(new)
                 PROVE  IsItem(new[k]) /\ new[k].at \in Nat /\ new[k].size \in Nat
    OBVIOUS
  <2>2. k \in 1 .. Len(items) \/ k = Len(items) + 1
    BY <1>1
  <2> QED
    BY <1>1, <2>2 DEF Tiles
<1>5. \A j, k \in 1 .. Len(new) : j < k => new[j].at + new[j].size <= new[k].at
  <2>1. SUFFICES ASSUME NEW j \in 1 .. Len(new), NEW k \in 1 .. Len(new), j < k
                 PROVE  new[j].at + new[j].size <= new[k].at
    OBVIOUS
  <2>2. j \in 1 .. Len(items) /\ (k \in 1 .. Len(items) \/ k = Len(items) + 1)
    BY <1>1, <2>1
  <2>3. CASE k \in 1 .. Len(items)
    BY <1>1, <2>1, <2>2, <2>3 DEF Tiles
  <2>4. CASE k = Len(items) + 1
    <3>1. items[j].at + items[j].size <= SizeOf(items)
          /\ items[j].at \in Nat /\ items[j].size \in Nat
      BY <1>2, <2>2 DEF Tiles
    <3> QED
      BY <1>1, <1>2, <2>2, <2>4, <3>1
  <2> QED
    BY <2>2, <2>3, <2>4
<1> QED
  BY <1>1, <1>3, <1>4, <1>5 DEF Tiles, new

-----------------------------------------------------------------------------
(* What is put together before the code is emitted: the externs, the        *)
(* globals and the strings.                                                 *)

ExternsInv ==
  /\ program \in Programs
  /\ IsSeq(externs)
  /\ \A e \in DOMAIN externs :
       NameLength[externs[e].name] \in Nat /\ NameLength[externs[e].dll] \in Nat
  /\ NamesIn(program.externs) \subseteq NamesIn(externs)
  /\ NamesIn(externs) \subseteq NamesIn(program.externs) \cup ToSet(SysExterns)
  /\ phase = "externs" =>
       count \in 0 .. 7 /\ \A k \in 1 .. count : SysExterns[k] \in NamesIn(externs)
  /\ phase # "externs" => ToSet(SysExterns) \subseteq NamesIn(externs)

LEMMA SysExternsShape ==
  /\ Len(SysExterns) = 7 /\ DOMAIN SysExterns = 1 .. 7
  /\ ToSet(SysExterns) = {SysExterns[k] : k \in 1 .. 7}
  /\ \A k \in 1 .. 7 : NameLength[SysExterns[k]] \in Nat
  /\ NameLength["kernel32.dll"] \in Nat
  /\ "ExitProcess" \in ToSet(SysExterns)
<1>1. Len(SysExterns) = 7 /\ DOMAIN SysExterns = 1 .. 7
  BY DEF SysExterns
<1>2. ToSet(SysExterns) = {SysExterns[k] : k \in 1 .. 7}
  BY <1>1 DEF ToSet
<1>3. SysExterns[7] = "ExitProcess" /\ 7 \in 1 .. 7
  BY DEF SysExterns
<1> QED
  BY <1>1, <1>2, <1>3, NameLengthAssumption

LEMMA FrontExtern ==
  ASSUME NEW s, IsSeq(s), NEW x
  PROVE  /\ IsSeq(<<x>> \o s)
         /\ NamesIn(<<x>> \o s) = {x.name} \cup NamesIn(s)
         /\ \A e \in DOMAIN (<<x>> \o s) : (<<x>> \o s)[e] = x \/ \E d \in DOMAIN s : (<<x>> \o s)[e] = s[d]
<1>0. PICK u : u = <<x>>
  OBVIOUS
<1>1. IsSeq(u) /\ Len(u) = 1 /\ u[1] = x
  BY <1>0 DEF IsSeq
<1>2. Len(s) \in Nat /\ DOMAIN s = 1 .. Len(s)
  BY SeqOfItself
<1>2a. IsSeq(u) /\ IsSeq(s)
  BY <1>1
<1>a. /\ IsSeq(u \o s) /\ DOMAIN (u \o s) = 1 .. Len(u) + Len(s)
      /\ \A i \in 1 .. Len(u) : (u \o s)[i] = u[i]
      /\ \A i \in 1 .. Len(u) + Len(s) :
           i \in 1 .. Len(u) \/ (i - Len(u) \in 1 .. Len(s) /\ (u \o s)[i] = s[i - Len(u)])
  BY <1>2a, ConcatIsSeq, Zenon
<1>b. \A i \in 1 .. Len(s) : (u \o s)[Len(u) + i] = s[i]
  BY <1>2a, ConcatIsSeq
<1> DEFINE t == u \o s
<1>3. /\ IsSeq(t) /\ DOMAIN t = 1 .. 1 + Len(s)
      /\ \A i \in 1 .. 1 : t[i] = u[i]
      /\ \A i \in 1 .. Len(s) : t[1 + i] = s[i]
      /\ \A i \in 1 .. 1 + Len(s) : i \in 1 .. 1 \/ (i - 1 \in 1 .. Len(s) /\ t[i] = s[i - 1])
  BY <1>1, <1>a, <1>b
<1> HIDE DEF t
<1>4. t[1] = x /\ 1 \in DOMAIN t
  BY <1>1, <1>2, <1>3
<1>5. \A e \in DOMAIN t : t[e] = x \/ \E d \in DOMAIN s : t[e] = s[d]
  <2>1. SUFFICES ASSUME NEW e \in DOMAIN t, t[e] # x PROVE \E d \in DOMAIN s : t[e] = s[d]
    OBVIOUS
  <2>2. e # 1 /\ e \in 1 .. 1 + Len(s)
    BY <1>3, <1>4, <2>1
  <2>3. e \notin 1 .. 1
    BY <1>2, <2>2
  <2> QED
    BY <1>2, <1>3, <2>2, <2>3
<1>6. \A d \in DOMAIN s : 1 + d \in DOMAIN t /\ t[1 + d] = s[d]
  BY <1>2, <1>3
<1>7. NamesIn(t) = {x.name} \cup NamesIn(s)
  BY <1>4, <1>5, <1>6 DEF NamesIn
<1> QED
  BY <1>0, <1>3, <1>5, <1>7 DEF t

LEMMA StepKeepsExterns == ExternsInv /\ [Next]_vars => ExternsInv'
<1> SUFFICES ASSUME ExternsInv, [Next]_vars PROVE ExternsInv'
  OBVIOUS
<1>1. CASE AddSysExtern
  <2>1. CASE count < 7
    <3>1. PICK name : name = SysExterns[count + 1]
      OBVIOUS
    <3>2. /\ externs' = IF name \in NamesIn(externs) THEN externs
                        ELSE <<[name |-> name, dll |-> "kernel32.dll"]>> \o externs
          /\ count' = count + 1 /\ phase = "externs" /\ phase' = "externs" /\ program' = program
      BY <1>1, <2>1, <3>1, SysExternsShape DEF AddSysExtern
    <3>3. count \in 0 .. 7 /\ count + 1 \in 1 .. 7
      BY <2>1, <3>2 DEF ExternsInv
    <3>4. name \in ToSet(SysExterns) /\ NameLength[name] \in Nat
      BY <3>1, <3>3, SysExternsShape
    <3>5. PICK x : x = [name |-> name, dll |-> "kernel32.dll"]
      OBVIOUS
    <3>a. PICK more : more = <<x>> \o externs
      OBVIOUS
    <3>b. IsSeq(externs)
      BY DEF ExternsInv
    <3>c. x.name = name
      BY <3>5
    <3>6. /\ IsSeq(more)
          /\ NamesIn(more) = {name} \cup NamesIn(externs)
          /\ \A e \in DOMAIN more : more[e] = x \/ \E d \in DOMAIN externs : more[e] = externs[d]
      <4>1. IsSeq(more)
        BY <3>a, <3>b, FrontExtern
      <4>2. NamesIn(more) = {x.name} \cup NamesIn(externs)
        BY <3>a, <3>b, FrontExtern
      <4>3. \A e \in DOMAIN more : more[e] = x \/ \E d \in DOMAIN externs : more[e] = externs[d]
        BY <3>a, <3>b, FrontExtern
      <4> QED
        BY <3>c, <4>1, <4>2, <4>3
    <3>7. externs' = externs \/ externs' = more
      BY <3>2, <3>5, <3>a
    <3>8. IsSeq(externs')
      BY <3>6, <3>7 DEF ExternsInv
    <3>9. \A e \in DOMAIN externs' :
            NameLength[externs'[e].name] \in Nat /\ NameLength[externs'[e].dll] \in Nat
      <4>1. NameLength[x.name] \in Nat /\ NameLength[x.dll] \in Nat
        BY <3>4, <3>5, SysExternsShape
      <4>2. \A e \in DOMAIN externs :
              NameLength[externs[e].name] \in Nat /\ NameLength[externs[e].dll] \in Nat
        BY DEF ExternsInv
      <4>3. \A e \in DOMAIN more :
              NameLength[more[e].name] \in Nat /\ NameLength[more[e].dll] \in Nat
        BY <3>6, <4>1, <4>2
      <4> QED
        BY <3>7, <4>2, <4>3
    <3>10. NamesIn(externs') = {name} \cup NamesIn(externs)
      BY <3>2, <3>5, <3>6, <3>a
    <3>11. \A k \in 1 .. count' : k \in 1 .. count \/ k = count + 1
      BY <3>2, <3>3
    <3>12. \A k \in 1 .. count' : SysExterns[k] \in NamesIn(externs')
      BY <3>1, <3>2, <3>10, <3>11 DEF ExternsInv
    <3>13. count' \in 0 .. 7
      BY <3>2, <3>3
    <3> QED
      BY <3>2, <3>4, <3>8, <3>9, <3>10, <3>12, <3>13 DEF ExternsInv
  <2>2. CASE ~(count < 7)
    <3>1. /\ phase = "externs" /\ phase' = "globals" /\ externs' = externs /\ program' = program
      BY <1>1, <2>2, SysExternsShape DEF AddSysExtern
    <3>2. count = 7
      BY <2>2, <3>1 DEF ExternsInv
    <3>3. ToSet(SysExterns) \subseteq NamesIn(externs)
      BY <3>1, <3>2, SysExternsShape DEF ExternsInv
    <3> QED
      BY <3>1, <3>3 DEF ExternsInv
  <2> QED
    BY <2>1, <2>2
<1>2. CASE ~AddSysExtern
  <2>1. /\ UNCHANGED <<program, externs>>
        /\ UNCHANGED <<phase, count>> \/ (phase # "externs" /\ phase' # "externs")
    <3>1. CASE PlaceGlobal \/ CollectString
      BY <3>1 DEF PlaceGlobal, CollectString
    <3>2. CASE BeginBlock \/ EmitInst \/ EmitStart
      BY <3>2 DEF BeginBlock, EmitInst, EmitStart
    <3>3. CASE AddImport \/ AllotPiece \/ JoinTables
      BY <3>3 DEF AddImport, AllotPiece, JoinTables
    <3>4. CASE LayOut \/ Patch
      BY <3>4 DEF LayOut, Patch
    <3>5. CASE Finished \/ UNCHANGED vars
      BY <3>5 DEF Finished, vars
    <3> QED
      BY <1>2, <3>1, <3>2, <3>3, <3>4, <3>5 DEF Next
  <2> QED
    BY <2>1 DEF ExternsInv
<1> QED
  BY <1>1, <1>2

LEMMA ExternsFirst == Init => ExternsInv
<1> SUFFICES ASSUME Init PROVE ExternsInv
  OBVIOUS
<1>1. program \in Programs /\ phase = "externs" /\ count = 0 /\ externs = program.externs
  BY DEF Init
<1>2. IsSeq(externs)
  BY <1>1, PeLinkAssumption
<1>3. \A e \in DOMAIN externs :
        NameLength[externs[e].name] \in Nat /\ NameLength[externs[e].dll] \in Nat
  BY <1>1, NameLengthAssumption
<1>4. count \in 0 .. 7 /\ \A k \in 1 .. count : FALSE
  BY <1>1
<1> QED
  BY <1>1, <1>2, <1>3, <1>4 DEF ExternsInv

DataInv ==
  /\ program \in Programs
  /\ Tiles(data) /\ Len(data) <= Len(program.globals)
  /\ \A k \in 1 .. Len(data) : /\ data[k].holds = program.globals[k].name
                               /\ data[k].size = program.globals[k].size
  /\ phase \notin {"externs", "globals"} => Len(data) = Len(program.globals)

LEMMA EmptyTiles == Tiles(<<>>)
<1>1. IsSeq(<<>>) /\ Len(<<>>) = 0
  BY DEF IsSeq
<1>2. \A k \in 1 .. Len(<<>>) : FALSE
  BY <1>1
<1> QED
  BY <1>1, <1>2 DEF Tiles

LEMMA StepKeepsData == DataInv /\ [Next]_vars => DataInv'
<1> SUFFICES ASSUME DataInv, [Next]_vars PROVE DataInv'
  OBVIOUS
<1>0. /\ Len(program.globals) \in Nat /\ DOMAIN program.globals = 1 .. Len(program.globals)
      /\ \A g \in 1 .. Len(program.globals) : program.globals[g].size \in Nat
      /\ Len(data) \in Nat
  <2>1. IsSeq(program.globals) /\ \A g \in DOMAIN program.globals : program.globals[g].size \in Nat
    BY PeLinkAssumption DEF DataInv
  <2> QED
    BY <2>1, SeqOfItself DEF DataInv, Tiles
<1>1. CASE PlaceGlobal
  <2>1. phase = "globals" /\ program' = program
    BY <1>1 DEF PlaceGlobal
  <2>2. CASE Len(data) < Len(program.globals)
    <3>1. PICK g : g = program.globals[Len(data) + 1]
      OBVIOUS
    <3>2. PICK item : item = Item("global", AlignUp(SizeOf(data), 8), g.size, g.name)
      OBVIOUS
    <3>3. data' = Append(data, item) /\ phase' = phase
      BY <1>1, <2>2, <3>1, <3>2 DEF PlaceGlobal
    <3>4. Len(data) + 1 \in 1 .. Len(program.globals)
      BY <1>0, <2>2
    <3>5. /\ item.at = AlignUp(SizeOf(data), 8) /\ item.size = g.size /\ item.holds = g.name
          /\ IsItem(item)
      BY <3>2 DEF Item, IsItem
    <3>6. SizeOf(data) \in Nat
      BY TilesEnd DEF DataInv
    <3>7. item.at \in Nat /\ item.at >= SizeOf(data) /\ item.size \in Nat
      <4>1. AlignUp(SizeOf(data), 8) \in Nat /\ AlignUp(SizeOf(data), 8) >= SizeOf(data)
        BY <3>6, AlignUpNat
      <4>2. g.size \in Nat
        BY <1>0, <3>1, <3>4
      <4> QED
        BY <3>5, <4>1, <4>2
    <3>8. Tiles(data')
      BY <3>3, <3>5, <3>7, TilesGrow DEF DataInv
    <3>9. /\ Len(data') = Len(data) + 1 /\ data'[Len(data) + 1] = item
          /\ \A k \in 1 .. Len(data) : data'[k] = data[k]
      BY <3>3, AppendIsSeq DEF DataInv, Tiles
    <3>10. \A k \in 1 .. Len(data') : k \in 1 .. Len(data) \/ k = Len(data) + 1
      BY <1>0, <3>9
    <3>11. \A k \in 1 .. Len(data') : /\ data'[k].holds = program.globals[k].name
                                      /\ data'[k].size = program.globals[k].size
      BY <3>1, <3>5, <3>9, <3>10 DEF DataInv
    <3>12. Len(data') <= Len(program.globals)
      BY <1>0, <2>2, <3>9
    <3> QED
      BY <2>1, <3>3, <3>8, <3>11, <3>12 DEF DataInv
  <2>3. CASE ~(Len(data) < Len(program.globals))
    <3>1. data' = data
      BY <1>1, <2>3 DEF PlaceGlobal
    <3>2. Len(data) = Len(program.globals)
      BY <1>0, <2>3 DEF DataInv
    <3> QED
      BY <2>1, <3>1, <3>2 DEF DataInv
  <2> QED
    BY <2>2, <2>3
<1>2. CASE ~PlaceGlobal
  <2>1. /\ UNCHANGED <<program, data>>
        /\ phase' = phase \/ phase' = "globals" \/ phase \notin {"externs", "globals"}
    <3>1. CASE AddSysExtern \/ CollectString
      BY <3>1 DEF AddSysExtern, CollectString
    <3>2. CASE BeginBlock \/ EmitInst \/ EmitStart
      BY <3>2 DEF BeginBlock, EmitInst, EmitStart
    <3>3. CASE AddImport \/ AllotPiece \/ JoinTables
      BY <3>3 DEF AddImport, AllotPiece, JoinTables
    <3>4. CASE LayOut \/ Patch
      BY <3>4 DEF LayOut, Patch
    <3>5. CASE Finished \/ UNCHANGED vars
      BY <3>5 DEF Finished, vars
    <3> QED
      BY <1>2, <3>1, <3>2, <3>3, <3>4, <3>5 DEF Next
  <2> QED
    BY <2>1 DEF DataInv
<1> QED
  BY <1>1, <1>2

LEMMA DataFirst == Init => DataInv
<1> SUFFICES ASSUME Init PROVE DataInv
  OBVIOUS
<1>1. program \in Programs /\ phase = "externs" /\ data = <<>>
  BY DEF Init
<1>2. IsSeq(program.globals)
  BY <1>1, PeLinkAssumption
<1>3. Len(data) = 0 /\ Len(program.globals) \in Nat
  BY <1>1, <1>2, SeqOfItself
<1>4. \A k \in 1 .. Len(data) : FALSE
  BY <1>3
<1>5. Len(data) <= Len(program.globals)
  BY <1>3
<1> QED
  BY <1>1, <1>4, <1>5, EmptyTiles DEF DataInv

\* Instructions and the first of some.
LEMMA InstsShape ==
  ASSUME program \in Programs
  PROVE  \A c \in Insts :
           /\ c \in [f : Nat, b : Nat, i : Nat]
           /\ c.f \in DOMAIN program.funcs /\ c.b \in DOMAIN BlocksOf(c.f)
           /\ InstAt(c).pre \in Nat
           /\ ProperWants(InstAt(c).wants, program, program.funcs[c.f])
<1> SUFFICES ASSUME NEW c \in Insts
             PROVE  /\ c \in [f : Nat, b : Nat, i : Nat]
                    /\ c.f \in DOMAIN program.funcs /\ c.b \in DOMAIN BlocksOf(c.f)
                    /\ InstAt(c).pre \in Nat
                    /\ ProperWants(InstAt(c).wants, program, program.funcs[c.f])
  OBVIOUS
<1>0. PICK x \in BlockIds(program) : \E i \in DOMAIN BlocksOf(x[1])[x[2]] :
        c = [f |-> x[1], b |-> x[2], i |-> i]
  BY DEF Insts
<1>1. PICK i \in DOMAIN BlocksOf(x[1])[x[2]] : c = [f |-> x[1], b |-> x[2], i |-> i]
  BY <1>0
<1>a. PICK f \in DOMAIN program.funcs : \E b \in DOMAIN program.funcs[f].blocks : x = <<f, b>>
  BY DEF BlockIds
<1>2. PICK b \in DOMAIN program.funcs[f].blocks : x = <<f, b>>
  BY <1>a
<1>3. c.f = f /\ c.b = b /\ c.i = i /\ i \in DOMAIN BlocksOf(f)[b] /\ b \in DOMAIN BlocksOf(f)
  BY <1>1, <1>2 DEF BlocksOf
<1>4. ProperFunc(program.funcs[f], program)
  BY PeLinkAssumption
<1>5. /\ IsSeq(BlocksOf(f)[b])
      /\ BlocksOf(f)[b][i].pre \in Nat
      /\ ProperWants(BlocksOf(f)[b][i].wants, program, program.funcs[f])
  BY <1>2, <1>3, <1>4 DEF ProperFunc, BlocksOf
<1>6. f \in Nat /\ b \in Nat /\ i \in Nat
  <2>1. f \in 1 .. Len(program.funcs) /\ Len(program.funcs) \in Nat
    BY ShapeOfProgram
  <2>2. b \in 1 .. Len(BlocksOf(f)) /\ Len(BlocksOf(f)) \in Nat
    BY <1>3, <2>1, ShapeOfProgram
  <2>3. i \in 1 .. Len(BlocksOf(f)[b]) /\ Len(BlocksOf(f)[b]) \in Nat
    BY <1>3, <2>1, <2>2, ShapeOfProgram
  <2> QED
    BY <2>1, <2>2, <2>3
<1> QED
  BY <1>1, <1>2, <1>3, <1>5, <1>6 DEF InstAt

LEMMA FirstOfInsts ==
  ASSUME NEW T, T \subseteq [f : Nat, b : Nat, i : Nat], T # {}
  PROVE  \E c \in T : \A e \in T : e = c \/ Before(c, e)
<1>1. PICK f \in {c.f : c \in T} : \A y \in {c.f : c \in T} : f <= y
  <2>1. {c.f : c \in T} \in SUBSET Nat /\ {c.f : c \in T} # {}
    OBVIOUS
  <2> QED
    BY <2>1, LeastNat
<1>2. PICK b \in {c.b : c \in {d \in T : d.f = f}} : \A y \in {c.b : c \in {d \in T : d.f = f}} : b <= y
  <2>1. {c.b : c \in {d \in T : d.f = f}} \in SUBSET Nat /\ {c.b : c \in {d \in T : d.f = f}} # {}
    BY <1>1
  <2> QED
    BY <2>1, LeastNat
<1> DEFINE I == {c.i : c \in {d \in T : d.f = f /\ d.b = b}}
<1>3. PICK i \in I : \A y \in I : i <= y
  <2>1. I \in SUBSET Nat /\ I # {}
    BY <1>2
  <2> QED
    BY <2>1, LeastNat
<1>4. PICK c \in T : c.f = f /\ c.b = b /\ c.i = i
  BY <1>3
<1>5. ASSUME NEW e \in T PROVE e = c \/ Before(c, e)
  <2>1. /\ e = [f |-> e.f, b |-> e.b, i |-> e.i] /\ e.f \in Nat /\ e.b \in Nat /\ e.i \in Nat
        /\ c = [f |-> c.f, b |-> c.b, i |-> c.i] /\ c.f \in Nat /\ c.b \in Nat /\ c.i \in Nat
    OBVIOUS
  <2>2. c.f <= e.f
    BY <1>1, <1>4
  <2>3. e.f = c.f => c.b <= e.b
    BY <1>2, <1>4
  <2>4. e.f = c.f /\ e.b = c.b => c.i <= e.i
    BY <1>3, <1>4
  <2> QED
    BY <2>1, <2>2, <2>3, <2>4 DEF Before
<1> QED
  BY <1>5

BeforeJoin == {"externs", "globals", "strings", "emit", "imports", "tables"}
StringsInv ==
  /\ program \in Programs
  /\ IsSeq(strings)
  /\ phase \in BeforeJoin =>
       /\ Tiles(rdata) /\ Len(strings) = Len(rdata)
       /\ \A s \in 1 .. Len(rdata) : /\ rdata[s].kind = "string"
                                     /\ rdata[s].at = strings[s].at
                                     /\ rdata[s].holds = strings[s].contents
  /\ phase \notin {"externs", "globals", "strings"} => StringsMissing = {}

LEMMA StepKeepsStrings == StringsInv /\ [Next]_vars => StringsInv'
<1> SUFFICES ASSUME StringsInv, [Next]_vars PROVE StringsInv'
  OBVIOUS
<1>1. CASE CollectString
  <2>1. phase = "strings" /\ program' = program /\ program \in Programs /\ phase \in BeforeJoin
    BY <1>1 DEF CollectString, StringsInv, BeforeJoin
  <2>2. CASE StringsMissing # {}
    <3>1. PICK c : c = CHOOSE x \in StringsMissing : \A e \in StringsMissing : e = x \/ Before(x, e)
      OBVIOUS
    <3>2. c \in StringsMissing
      <4>1. StringsMissing \subseteq Insts
        BY DEF StringsMissing
      <4>2. StringsMissing \subseteq [f : Nat, b : Nat, i : Nat]
        BY <2>1, <4>1, InstsShape
      <4>3. \E x \in StringsMissing : \A e \in StringsMissing : e = x \/ Before(x, e)
        BY <2>2, <4>2, FirstOfInsts
      <4> QED
        BY <3>1, <4>3
    <3>3. PICK w : w = InstAt(c).wants
      OBVIOUS
    <3>4. w # <<>> /\ w[1] = "string" /\ w[3] \in Nat
      <4>1. c \in Insts /\ w # <<>> /\ w[1] = "string"
        BY <3>2, <3>3 DEF StringsMissing
      <4>2. ProperWants(w, program, program.funcs[c.f])
        BY <2>1, <3>3, <4>1, InstsShape
      <4> QED
        BY <4>1, <4>2 DEF ProperWants
    <3>5. PICK at : at = SizeOf(rdata)
      OBVIOUS
    <3>6. PICK item : item = Item("string", at, w[3], w[2])
      OBVIOUS
    <3>7. PICK entry : entry = [contents |-> w[2], at |-> at]
      OBVIOUS
    <3>8. strings' = Append(strings, entry) /\ rdata' = Append(rdata, item) /\ phase' = phase
      BY <1>1, <2>2, <3>1, <3>3, <3>5, <3>6, <3>7 DEF CollectString
    <3>9. /\ item.at = at /\ item.size = w[3] /\ item.kind = "string" /\ item.holds = w[2]
          /\ entry.contents = w[2] /\ entry.at = at /\ IsItem(item)
      BY <3>6, <3>7 DEF Item, IsItem
    <3>10. Tiles(rdata) /\ IsSeq(rdata) /\ IsSeq(strings) /\ Len(strings) = Len(rdata)
      BY <2>1 DEF StringsInv, Tiles
    <3>11. at \in Nat /\ at >= SizeOf(rdata)
      BY <3>5, <3>10, TilesEnd
    <3>12. Tiles(rdata')
      BY <3>4, <3>8, <3>9, <3>10, <3>11, TilesGrow
    <3>13. /\ Len(rdata') = Len(rdata) + 1 /\ rdata'[Len(rdata) + 1] = item
           /\ \A s \in 1 .. Len(rdata) : rdata'[s] = rdata[s]
           /\ Len(rdata) \in Nat
      BY <3>8, <3>10, AppendIsSeq, SeqOfItself
    <3>14. /\ IsSeq(strings') /\ Len(strings') = Len(strings) + 1 /\ strings'[Len(strings) + 1] = entry
           /\ \A s \in 1 .. Len(strings) : strings'[s] = strings[s]
      BY <3>8, <3>10, AppendIsSeq
    <3>15. \A s \in 1 .. Len(rdata') : s \in 1 .. Len(rdata) \/ s = Len(rdata) + 1
      BY <3>13
    <3>16. \A s \in 1 .. Len(rdata') : /\ rdata'[s].kind = "string"
                                       /\ rdata'[s].at = strings'[s].at
                                       /\ rdata'[s].holds = strings'[s].contents
      BY <2>1, <3>9, <3>10, <3>13, <3>14, <3>15 DEF StringsInv
    <3> QED
      BY <2>1, <3>8, <3>10, <3>12, <3>13, <3>14, <3>16 DEF StringsInv
  <2>3. CASE ~(StringsMissing # {})
    <3>1. strings' = strings /\ rdata' = rdata /\ phase' = "emit"
      BY <1>1, <2>3 DEF CollectString
    <3>2. StringsMissing' = StringsMissing
      BY <2>1, <3>1 DEF StringsMissing, Insts, InstAt, BlocksOf
    <3> QED
      BY <2>1, <2>3, <3>1, <3>2 DEF StringsInv, BeforeJoin
  <2> QED
    BY <2>2, <2>3
<1>2. CASE ~CollectString
  <2>1. /\ UNCHANGED <<program, strings>>
        /\ phase' \in BeforeJoin => rdata' = rdata /\ phase \in BeforeJoin
        /\ phase' \notin {"externs", "globals", "strings"} =>
             phase \notin {"externs", "globals", "strings"}
    <3>1. CASE AddSysExtern \/ PlaceGlobal
      BY <3>1 DEF AddSysExtern, PlaceGlobal, BeforeJoin
    <3>2. CASE BeginBlock \/ EmitInst \/ EmitStart
      BY <3>2 DEF BeginBlock, EmitInst, EmitStart, BeforeJoin
    <3>3. CASE AddImport \/ AllotPiece \/ JoinTables
      BY <3>3 DEF AddImport, AllotPiece, JoinTables, BeforeJoin
    <3>4. CASE LayOut \/ Patch
      BY <3>4 DEF LayOut, Patch, BeforeJoin
    <3>5. CASE Finished \/ UNCHANGED vars
      BY <3>5 DEF Finished, vars, BeforeJoin
    <3> QED
      BY <1>2, <3>1, <3>2, <3>3, <3>4, <3>5 DEF Next
  <2>2. StringsMissing' = StringsMissing
    BY <2>1 DEF StringsMissing, Insts, InstAt, BlocksOf
  <2> QED
    BY <2>1, <2>2 DEF StringsInv
<1> QED
  BY <1>1, <1>2

LEMMA StringsFirst == Init => StringsInv
<1> SUFFICES ASSUME Init PROVE StringsInv
  OBVIOUS
<1>1. program \in Programs /\ phase = "externs" /\ rdata = <<>> /\ strings = <<>>
  BY DEF Init
<1>2. IsSeq(strings) /\ Len(strings) = 0 /\ Len(rdata) = 0
  BY <1>1 DEF IsSeq
<1>3. \A s \in 1 .. Len(rdata) : FALSE
  BY <1>2
<1> QED
  BY <1>1, <1>2, <1>3, EmptyTiles DEF StringsInv

-----------------------------------------------------------------------------
(* The table of imports. *)

TableShape(table, n) ==
  /\ IsSeq(table)
  /\ \A d \in DOMAIN table :
       /\ table[d] = [name |-> table[d].name, funcs |-> table[d].funcs]
       /\ NameLength[table[d].name] \in Nat
       /\ IsSeq(table[d].funcs) /\ Len(table[d].funcs) \in 1 .. n
       /\ \A j \in DOMAIN table[d].funcs : NameLength[table[d].funcs[j]] \in Nat
InTable(table, extern) ==
  \E d \in DOMAIN table :
    /\ Caseless[table[d].name] = Caseless[extern.dll]
    /\ \E j \in DOMAIN table[d].funcs : table[d].funcs[j] = extern.name

LEMMA AddedKeeps ==
  ASSUME NEW n \in Nat, NEW table, TableShape(table, n), NEW extern,
         NameLength[extern.name] \in Nat, NameLength[extern.dll] \in Nat
  PROVE  /\ TableShape(Added(table, extern), n + 1)
         /\ InTable(Added(table, extern), extern)
         /\ \A e : InTable(table, e) => InTable(Added(table, extern), e)
<1> DEFINE I == {e \in DOMAIN table : Caseless[table[e].name] = Caseless[extern.dll]}
<1>1. IsSeq(table) /\ Len(table) \in Nat /\ DOMAIN table = 1 .. Len(table)
  BY SeqOfItself DEF TableShape
<1>2. PICK d : d = First(I)
  OBVIOUS
<1>3. PICK new : new = Added(table, extern)
  OBVIOUS
<1>4. (I = {} /\ d = 0) \/ (d \in I /\ d # 0)
  <2>1. I \subseteq Nat \ {0}
    BY <1>1
  <2> QED
    BY <1>2, <2>1, FirstIsOne
<1>5. new = CASE d = 0 -> Append(table, [name |-> extern.dll, funcs |-> <<extern.name>>])
              [] d # 0 /\ Contains(table[d].funcs, extern.name) -> table
              [] OTHER -> [table EXCEPT ![d].funcs = Append(@, extern.name)]
  BY <1>2, <1>3 DEF Added
<1> HIDE DEF I
<1>6. \A e \in DOMAIN table :
        /\ table[e] = [name |-> table[e].name, funcs |-> table[e].funcs]
        /\ NameLength[table[e].name] \in Nat
        /\ IsSeq(table[e].funcs) /\ Len(table[e].funcs) \in 1 .. n + 1
        /\ \A j \in DOMAIN table[e].funcs : NameLength[table[e].funcs[j]] \in Nat
  BY DEF TableShape
<1>7. CASE d = 0
  <2>1. PICK row : row = [name |-> extern.dll, funcs |-> <<extern.name>>]
    OBVIOUS
  <2>2. PICK names : names = <<extern.name>>
    OBVIOUS
  <2>3. /\ row.name = extern.dll /\ row.funcs = names
        /\ row = [name |-> row.name, funcs |-> row.funcs]
        /\ IsSeq(names) /\ Len(names) = 1 /\ DOMAIN names = 1 .. 1 /\ names[1] = extern.name
    BY <2>1, <2>2 DEF IsSeq
  <2>4. new = Append(table, row)
    BY <1>5, <1>7, <2>1
  <2>5. /\ IsSeq(new) /\ DOMAIN new = 1 .. Len(table) + 1
        /\ \A e \in 1 .. Len(table) : new[e] = table[e]
        /\ new[Len(table) + 1] = row
    BY <1>1, <2>4, AppendIsSeq
  <2>6. \A e \in DOMAIN new : (e \in DOMAIN table /\ new[e] = table[e]) \/ new[e] = row
    BY <1>1, <2>5
  <2>7. /\ Len(row.funcs) \in 1 .. n + 1 /\ NameLength[row.name] \in Nat
        /\ \A j \in DOMAIN row.funcs : NameLength[row.funcs[j]] \in Nat
    BY <2>3
  <2>8. TableShape(new, n + 1)
    BY <1>6, <2>3, <2>5, <2>6, <2>7 DEF TableShape
  <2>9. InTable(new, extern)
    <3>1. Len(table) + 1 \in DOMAIN new /\ 1 \in DOMAIN names
      BY <1>1, <2>3, <2>5
    <3> QED
      BY <2>3, <2>5, <3>1 DEF InTable
  <2>10. \A e \in DOMAIN table : e \in DOMAIN new /\ new[e] = table[e]
    BY <1>1, <2>5
  <2>11. \A e : InTable(table, e) => InTable(new, e)
    BY <2>10 DEF InTable
  <2> QED
    BY <1>3, <2>8, <2>9, <2>11
<1>8. CASE d # 0 /\ Contains(table[d].funcs, extern.name)
  <2>1. new = table
    BY <1>5, <1>8
  <2>2. TableShape(new, n + 1)
    BY <1>1, <1>6, <2>1 DEF TableShape
  <2>3. PICK j \in 1 .. Len(table[d].funcs) : table[d].funcs[j] = extern.name
    BY <1>8 DEF Contains
  <2>4. d \in DOMAIN table /\ Caseless[table[d].name] = Caseless[extern.dll]
    BY <1>4, <1>8 DEF I
  <2>5. j \in DOMAIN table[d].funcs
    BY <1>6, <2>3, <2>4, SeqOfItself
  <2>6. InTable(new, extern)
    BY <2>1, <2>3, <2>4, <2>5 DEF InTable
  <2> QED
    BY <1>3, <2>1, <2>2, <2>6
<1>9. CASE d # 0 /\ ~Contains(table[d].funcs, extern.name)
  <2>1. d \in DOMAIN table /\ Caseless[table[d].name] = Caseless[extern.dll]
    BY <1>4, <1>9 DEF I
  <2>2. PICK old : old = table[d].funcs
    OBVIOUS
  <2>3. PICK more : more = Append(old, extern.name)
    OBVIOUS
  <2>4. new = [table EXCEPT ![d].funcs = Append(@, extern.name)]
    BY <1>5, <1>9
  <2>5. /\ DOMAIN new = DOMAIN table
        /\ \A e \in DOMAIN table : e # d => new[e] = table[e]
        /\ new[d] = [name |-> table[d].name, funcs |-> more]
        /\ IsSeq(new)
    <3>1. table = [e \in 1 .. Len(table) |-> table[e]]
      BY <1>1 DEF IsSeq
    <3>2. DOMAIN new = DOMAIN table /\ \A e \in DOMAIN table : e # d => new[e] = table[e]
      BY <2>1, <2>4
    <3>3. new[d] = [table[d] EXCEPT !.funcs = more]
      BY <2>1, <2>2, <2>3, <2>4
    <3>4. new[d] = [name |-> table[d].name, funcs |-> more]
      BY <1>6, <2>1, <3>3
    <3>5. new = [e \in DOMAIN new |-> new[e]]
      BY <2>4
    <3>6. IsSeq(new)
      BY <1>1, <3>2, <3>5, FunctionIsSeq
    <3> QED
      BY <3>2, <3>4, <3>6
  <2>6. /\ IsSeq(more) /\ Len(more) = Len(old) + 1 /\ DOMAIN more = 1 .. Len(old) + 1
        /\ \A j \in 1 .. Len(old) : more[j] = old[j]
        /\ more[Len(old) + 1] = extern.name
        /\ Len(old) \in Nat /\ DOMAIN old = 1 .. Len(old)
    BY <1>6, <2>1, <2>2, <2>3, AppendIsSeq, SeqOfItself
  <2>7. /\ new[d].name = table[d].name /\ new[d].funcs = more
        /\ new[d] = [name |-> new[d].name, funcs |-> new[d].funcs]
    BY <2>5
  <2>8. Len(more) \in 1 .. n + 1
    <3>1. Len(old) \in 1 .. n
      BY <2>1, <2>2 DEF TableShape
    <3> QED
      BY <2>6, <3>1
  <2>9. \A j \in DOMAIN more : NameLength[more[j]] \in Nat
    <3>1. \A j \in DOMAIN more : j \in DOMAIN old \/ j = Len(old) + 1
      BY <2>6
    <3> QED
      BY <1>6, <2>1, <2>2, <2>6, <3>1
  <2>10. TableShape(new, n + 1)
    <3>1. ASSUME NEW e \in DOMAIN new
          PROVE  /\ new[e] = [name |-> new[e].name, funcs |-> new[e].funcs]
                 /\ NameLength[new[e].name] \in Nat
                 /\ IsSeq(new[e].funcs) /\ Len(new[e].funcs) \in 1 .. n + 1
                 /\ \A j \in DOMAIN new[e].funcs : NameLength[new[e].funcs[j]] \in Nat
      <4>1. CASE e = d
        BY <1>6, <2>1, <2>6, <2>7, <2>8, <2>9, <4>1
      <4>2. CASE e # d
        BY <1>6, <2>5, <4>2
      <4> QED
        BY <4>1, <4>2
    <3> QED
      BY <2>5, <3>1 DEF TableShape
  <2>11. Len(old) + 1 \in DOMAIN more /\ \A j \in DOMAIN old : j \in DOMAIN more /\ more[j] = old[j]
    BY <2>6
  <2>12. InTable(new, extern)
    BY <2>1, <2>5, <2>6, <2>7, <2>11 DEF InTable
  <2>13. ASSUME NEW e, InTable(table, e) PROVE InTable(new, e)
    <3>1. PICK k \in DOMAIN table :
            /\ Caseless[table[k].name] = Caseless[e.dll]
            /\ \E j \in DOMAIN table[k].funcs : table[k].funcs[j] = e.name
      BY <2>13 DEF InTable
    <3>2. CASE k = d
      BY <2>2, <2>5, <2>7, <2>11, <3>1, <3>2 DEF InTable
    <3>3. CASE k # d
      BY <2>5, <3>1, <3>3 DEF InTable
    <3> QED
      BY <3>2, <3>3
  <2> QED
    BY <1>3, <2>10, <2>12, <2>13
<1> QED
  BY <1>7, <1>8, <1>9

ImportsInv ==
  /\ phase \in {"globals", "strings", "emit"} => count = 0
  /\ phase \in {"externs", "globals", "strings", "emit"} => dlls = <<>>
  /\ phase = "imports" =>
       /\ count \in 0 .. Len(externs) + 1 /\ TableShape(dlls, count)
       /\ count > 0 => InTable(dlls, ExitProcess)
       /\ \A e \in 1 .. Len(externs) : e < count => InTable(dlls, externs[e])
  /\ phase \in {"tables", "headers", "patch", "done"} =>
       /\ TableShape(dlls, Len(externs) + 1) /\ InTable(dlls, ExitProcess)
       /\ \A e \in 1 .. Len(externs) : InTable(dlls, externs[e])

LEMMA EmptyTable == TableShape(<<>>, 0)
<1>1. IsSeq(<<>>) /\ DOMAIN <<>> = {}
  BY DEF IsSeq
<1> QED
  BY <1>1 DEF TableShape

LEMMA StepKeepsImports == ExternsInv /\ ImportsInv /\ [Next]_vars => ImportsInv'
<1> SUFFICES ASSUME ExternsInv, ImportsInv, [Next]_vars PROVE ImportsInv'
  OBVIOUS
<1>0. Len(externs) \in Nat /\ DOMAIN externs = 1 .. Len(externs)
  BY SeqOfItself DEF ExternsInv
<1>1. CASE AddImport
  <2>1. phase = "imports" /\ externs' = externs
    BY <1>1 DEF AddImport
  <2>2. /\ count \in 0 .. Len(externs) + 1 /\ TableShape(dlls, count)
        /\ count > 0 => InTable(dlls, ExitProcess)
        /\ \A e \in 1 .. Len(externs) : e < count => InTable(dlls, externs[e])
    BY <2>1 DEF ImportsInv
  <2>3. CASE count <= Len(externs)
    <3>1. PICK extern : extern = IF count = 0 THEN ExitProcess ELSE externs[count]
      OBVIOUS
    <3>2. dlls' = Added(dlls, extern) /\ count' = count + 1 /\ phase' = phase
      BY <1>1, <2>3, <3>1 DEF AddImport
    <3>3. NameLength[extern.name] \in Nat /\ NameLength[extern.dll] \in Nat
      <4>1. CASE count = 0
        <5>1. extern.name = "ExitProcess" /\ extern.dll = "kernel32.dll"
          BY <3>1, <4>1 DEF ExitProcess
        <5> QED
          BY <5>1, SysExternsShape, NameLengthAssumption
      <4>2. CASE count # 0
        <5>1. count \in DOMAIN externs
          BY <1>0, <2>2, <2>3, <4>2
        <5> QED
          BY <3>1, <4>2, <5>1 DEF ExternsInv
      <4> QED
        BY <4>1, <4>2
    <3>4. count \in Nat
      BY <1>0, <2>2
    <3>5. /\ TableShape(dlls', count + 1) /\ InTable(dlls', extern)
          /\ \A e : InTable(dlls, e) => InTable(dlls', e)
      BY <2>2, <3>2, <3>3, <3>4, AddedKeeps
    <3>6. InTable(dlls', ExitProcess)
      BY <2>2, <3>1, <3>4, <3>5
    <3>7. ASSUME NEW e \in 1 .. Len(externs), e < count' PROVE InTable(dlls', externs[e])
      <4>1. e < count \/ (e = count /\ count # 0)
        BY <1>0, <3>2, <3>4, <3>7
      <4> QED
        BY <2>2, <3>1, <3>5, <4>1
    <3>8. count' \in 0 .. Len(externs) + 1
      BY <1>0, <2>3, <3>2, <3>4
    <3> QED
      BY <2>1, <3>2, <3>5, <3>6, <3>7, <3>8 DEF ImportsInv, InTable, ExitProcess
  <2>4. CASE ~(count <= Len(externs))
    <3>1. dlls' = dlls /\ phase' = "tables"
      BY <1>1, <2>4 DEF AddImport
    <3>2. count = Len(externs) + 1
      BY <1>0, <2>2, <2>4
    <3>3. InTable(dlls, ExitProcess) /\ \A e \in 1 .. Len(externs) : InTable(dlls, externs[e])
      BY <1>0, <2>2, <3>2
    <3> QED
      BY <2>1, <2>2, <3>1, <3>2, <3>3 DEF ImportsInv, InTable, ExitProcess
  <2> QED
    BY <2>3, <2>4
<1>2. CASE AddSysExtern
  <2>1. phase = "externs" /\ dlls' = dlls /\ phase' \in {"externs", "globals"}
        /\ (phase' = "globals" => count' = 0)
    BY <1>2 DEF AddSysExtern, importVars
  <2> QED
    BY <2>1 DEF ImportsInv
<1>3. CASE EmitStart
  <2>1. phase = "emit" /\ UNCHANGED <<dlls, count, externs>> /\ phase' \in {"emit", "imports"}
    BY <1>3 DEF EmitStart, importVars
  <2>2. dlls = <<>> /\ count = 0
    BY <2>1 DEF ImportsInv
  <2>3. ~(count > 0) /\ count \in 0 .. Len(externs) + 1 /\ \A e \in 1 .. Len(externs) : ~(e < count)
    BY <1>0, <2>2
  <2> QED
    BY <2>1, <2>2, <2>3, EmptyTable DEF ImportsInv
<1>4. CASE ~(AddImport \/ AddSysExtern \/ EmitStart)
  <2>1. /\ UNCHANGED <<externs, count, dlls>>
        /\ \/ phase' = phase
           \/ phase \in {"globals", "strings"} /\ phase' \in {"strings", "emit"}
           \/ phase \in {"tables", "headers", "patch"} /\ phase' \in {"headers", "patch", "done"}
    <3>1. CASE PlaceGlobal \/ CollectString
      BY <3>1 DEF PlaceGlobal, CollectString, importVars
    <3>2. CASE BeginBlock \/ EmitInst
      BY <3>2 DEF BeginBlock, EmitInst, importVars
    <3>3. CASE AllotPiece \/ JoinTables
      BY <3>3 DEF AllotPiece, JoinTables, importVars
    <3>4. CASE LayOut \/ Patch
      BY <3>4 DEF LayOut, Patch, importVars
    <3>5. CASE Finished \/ UNCHANGED vars
      BY <3>5 DEF Finished, vars
    <3> QED
      BY <1>4, <3>1, <3>2, <3>3, <3>4, <3>5 DEF Next
  <2> QED
    BY <2>1 DEF ImportsInv, InTable, ExitProcess
<1> QED
  BY <1>1, <1>2, <1>3, <1>4

LEMMA ImportsFirst == Init => ImportsInv
BY DEF Init, ImportsInv

-----------------------------------------------------------------------------
(* The pieces of the tables and the order they are allotted in. *)

Kinds == {"iat", "int", "hint", "dll", "dir"}
KindNo == [iat |-> 1, int |-> 2, hint |-> 3, dll |-> 4, dir |-> 5, end |-> 6]
IsPiece(kind, d, j) == kind \in Kinds /\ d \in 1 .. Rows(kind) /\ j \in 1 .. Columns(kind, d)
IsPlaceOf(p) == p = <<p[1], p[2], p[3]>> /\ IsPiece(p[1], p[2], p[3])
EarlierPiece(p, q) ==
  \/ KindNo[p[1]] < KindNo[q[1]]
  \/ p[1] = q[1] /\ p[2] < q[2]
  \/ p[1] = q[1] /\ p[2] = q[2] /\ p[3] < q[3]

LEMMA KindsInOrder ==
  /\ \A k \in Kinds : /\ Following[k] \in Kinds \cup {"end"}
                      /\ KindNo[Following[k]] = KindNo[k] + 1
                      /\ Following[k] \in {"iat", "int"} => k = "iat"
                      /\ Following[k] # "iat"
  /\ \A k \in Kinds \cup {"end"} : KindNo[k] \in 1 .. 6
  /\ \A k, l \in Kinds \cup {"end"} : KindNo[k] = KindNo[l] => k = l
  /\ "end" \notin Kinds
BY DEF Kinds, KindNo, Following

LEMMA RowsAndColumns ==
  ASSUME NEW n \in Nat, TableShape(dlls, n), Len(dlls) > 0
  PROVE  /\ \A k \in Kinds : Rows(k) \in Nat \ {0}
         /\ \A k \in Kinds : \A d \in 1 .. Rows(k) : Columns(k, d) \in Nat \ {0}
         /\ \A k \in Kinds \ {"dir"} : Rows(k) = Len(dlls)
         /\ Len(dlls) \in Nat /\ DOMAIN dlls = 1 .. Len(dlls)
         /\ \A d \in 1 .. Len(dlls) : /\ Len(dlls[d].funcs) \in Nat \ {0}
                                      /\ DOMAIN dlls[d].funcs = 1 .. Len(dlls[d].funcs)
<1>1. Len(dlls) \in Nat /\ DOMAIN dlls = 1 .. Len(dlls)
  BY SeqOfItself DEF TableShape
<1>2. \A d \in 1 .. Len(dlls) : /\ Len(dlls[d].funcs) \in Nat \ {0}
                                /\ DOMAIN dlls[d].funcs = 1 .. Len(dlls[d].funcs)
  <2>1. SUFFICES ASSUME NEW d \in 1 .. Len(dlls)
                 PROVE  /\ Len(dlls[d].funcs) \in Nat \ {0}
                        /\ DOMAIN dlls[d].funcs = 1 .. Len(dlls[d].funcs)
    OBVIOUS
  <2>2. IsSeq(dlls[d].funcs) /\ Len(dlls[d].funcs) \in 1 .. n
    BY <1>1 DEF TableShape
  <2> QED
    BY <2>2, SeqOfItself
<1>3. \A k \in Kinds : Rows(k) \in Nat \ {0} /\ (k # "dir" => Rows(k) = Len(dlls))
  <2>1. Len(dlls) \in Nat \ {0}
    BY <1>1
  <2>2. Len(dlls) + 1 \in Nat \ {0}
    BY <2>1
  <2> QED
    BY <2>1, <2>2 DEF Rows
<1>4. ASSUME NEW k \in Kinds, NEW d \in 1 .. Rows(k) PROVE Columns(k, d) \in Nat \ {0}
  <2>1. CASE k \in {"iat", "int"}
    BY <1>2, <1>3, <2>1 DEF Columns
  <2>2. CASE k = "hint"
    BY <1>2, <1>3, <2>2 DEF Columns
  <2>3. CASE k \in {"dll", "dir"}
    BY <2>3 DEF Columns
  <2> QED
    BY <2>1, <2>2, <2>3 DEF Kinds
<1> QED
  BY <1>1, <1>2, <1>3, <1>4

LEMMA NextPieceFollows ==
  ASSUME NEW n \in Nat, TableShape(dlls, n), Len(dlls) > 0,
         NEW kind, NEW d, NEW j, IsPiece(kind, d, j), NEW q, q = NextPiece(kind, d, j)
  PROVE  /\ q = <<"end", 1, 1>> \/ IsPlaceOf(q)
         /\ \A p : IsPlaceOf(p) => (EarlierPiece(p, q) <=> EarlierPiece(p, <<kind, d, j>>) \/ p = <<kind, d, j>>)
         /\ ~EarlierPiece(<<kind, d, j>>, <<kind, d, j>>)
         /\ q[1] \in {"iat", "int"} => kind \in {"iat", "int"}
         /\ q[1] \in {"iat", "int"} /\ q[3] > 1 => q = <<kind, d, j + 1>>
         /\ q[1] = "dir" /\ q[2] > 1 => q = <<kind, d + 1, 1>>
<1>1. /\ kind \in Kinds /\ d \in 1 .. Rows(kind) /\ j \in 1 .. Columns(kind, d)
      /\ Rows(kind) \in Nat \ {0}
      /\ \A e \in 1 .. Rows(kind) : Columns(kind, e) \in Nat \ {0}
      /\ d \in Nat /\ j \in Nat
  BY RowsAndColumns DEF IsPiece
<1>2. \A p : IsPlaceOf(p) =>
        /\ p = <<p[1], p[2], p[3]>> /\ p[1] \in Kinds
        /\ p[2] \in Nat /\ p[3] \in Nat /\ p[2] >= 1 /\ p[3] >= 1
        /\ p[2] <= Rows(p[1]) /\ p[3] <= Columns(p[1], p[2])
  <2>1. SUFFICES ASSUME NEW p, IsPlaceOf(p)
                 PROVE  /\ p = <<p[1], p[2], p[3]>> /\ p[1] \in Kinds
                        /\ p[2] \in Nat /\ p[3] \in Nat /\ p[2] >= 1 /\ p[3] >= 1
                        /\ p[2] <= Rows(p[1]) /\ p[3] <= Columns(p[1], p[2])
    OBVIOUS
  <2>2. p = <<p[1], p[2], p[3]>> /\ p[1] \in Kinds /\ p[2] \in 1 .. Rows(p[1])
        /\ p[3] \in 1 .. Columns(p[1], p[2])
    BY <2>1 DEF IsPlaceOf, IsPiece
  <2>3. Rows(p[1]) \in Nat /\ Columns(p[1], p[2]) \in Nat
    BY <2>2, RowsAndColumns
  <2> QED
    BY <2>2, <2>3
<1>3. PICK r : r = <<kind, d, j>>
  OBVIOUS
<1>4. r[1] = kind /\ r[2] = d /\ r[3] = j
  BY <1>3
<1>5. KindNo[kind] \in 1 .. 6
  BY <1>1, KindsInOrder
<1>6. ~EarlierPiece(r, r)
  BY <1>1, <1>4, <1>5 DEF EarlierPiece
<1>7. CASE j < Columns(kind, d)
  <2>1. q = <<kind, d, j + 1>>
    BY <1>1, <1>7 DEF NextPiece
  <2>2. q[1] = kind /\ q[2] = d /\ q[3] = j + 1
    BY <2>1
  <2>3. j + 1 \in 1 .. Columns(kind, d)
    BY <1>1, <1>7
  <2>4. IsPlaceOf(q)
    BY <1>1, <2>1, <2>2, <2>3 DEF IsPlaceOf, IsPiece
  <2>5. ASSUME NEW p, IsPlaceOf(p) PROVE EarlierPiece(p, q) <=> EarlierPiece(p, r) \/ p = r
    <3>1. p = <<p[1], p[2], p[3]>> /\ p[2] \in Nat /\ p[3] \in Nat
      BY <1>2, <2>5
    <3>2. p = r <=> p[1] = kind /\ p[2] = d /\ p[3] = j
      BY <1>3, <1>4, <3>1
    <3>3. p[3] < j + 1 <=> p[3] < j \/ p[3] = j
      BY <1>1, <3>1
    <3> QED
      BY <1>4, <2>2, <3>2, <3>3 DEF EarlierPiece
  <2>7. kind = "dir" => FALSE
    <3>1. kind = "dir" => Columns(kind, d) = 1
      BY DEF Columns
    <3> QED
      BY <1>1, <1>7, <3>1
  <2> QED
    BY <1>3, <1>6, <2>1, <2>2, <2>4, <2>5, <2>7
<1>8. CASE j = Columns(kind, d) /\ d < Rows(kind)
  <2>1. q = <<kind, d + 1, 1>>
    BY <1>1, <1>8 DEF NextPiece
  <2>2. q[1] = kind /\ q[2] = d + 1 /\ q[3] = 1
    BY <2>1
  <2>3. d + 1 \in 1 .. Rows(kind)
    BY <1>1, <1>8
  <2>4. 1 \in 1 .. Columns(kind, d + 1)
    BY <1>1, <2>3
  <2>5. IsPlaceOf(q)
    BY <1>1, <2>1, <2>2, <2>3, <2>4 DEF IsPlaceOf, IsPiece
  <2>6. ASSUME NEW p, IsPlaceOf(p) PROVE EarlierPiece(p, q) <=> EarlierPiece(p, r) \/ p = r
    <3>1. p = <<p[1], p[2], p[3]>> /\ p[2] \in Nat /\ p[3] \in Nat /\ p[3] >= 1
          /\ p[3] <= Columns(p[1], p[2])
      BY <1>2, <2>6
    <3>2. p = r <=> p[1] = kind /\ p[2] = d /\ p[3] = j
      BY <1>3, <1>4, <3>1
    <3>3. p[1] = kind /\ p[2] = d => p[3] <= j
      BY <1>8, <3>1
    <3>4. ~(p[3] < 1)
      BY <3>1
    <3>5. p[2] < d + 1 <=> p[2] < d \/ p[2] = d
      BY <1>1, <3>1
    <3>6. p[3] <= j <=> p[3] < j \/ p[3] = j
      BY <1>1, <3>1
    <3> QED
      BY <1>4, <2>2, <3>2, <3>3, <3>4, <3>5, <3>6 DEF EarlierPiece
  <2> QED
    BY <1>3, <1>6, <2>1, <2>2, <2>5, <2>6
<1>9. CASE j = Columns(kind, d) /\ d = Rows(kind)
  <2>1. q = <<Following[kind], 1, 1>>
    BY <1>1, <1>9 DEF NextPiece
  <2>2. q[1] = Following[kind] /\ q[2] = 1 /\ q[3] = 1
    BY <2>1
  <2>3. Following[kind] = "end" \/ Following[kind] \in Kinds
    BY <1>1, KindsInOrder
  <2>4. Following[kind] \in Kinds => IsPlaceOf(q)
    <3>1. SUFFICES ASSUME Following[kind] \in Kinds PROVE IsPlaceOf(q)
      OBVIOUS
    <3>2. 1 \in 1 .. Rows(Following[kind])
      BY <3>1, RowsAndColumns
    <3>3. 1 \in 1 .. Columns(Following[kind], 1)
      BY <3>1, <3>2, RowsAndColumns
    <3> QED
      BY <2>1, <2>2, <3>1, <3>2, <3>3 DEF IsPlaceOf, IsPiece
  <2>5. ASSUME NEW p, IsPlaceOf(p) PROVE EarlierPiece(p, q) <=> EarlierPiece(p, r) \/ p = r
    <3>1. p = <<p[1], p[2], p[3]>> /\ p[1] \in Kinds /\ p[2] \in Nat /\ p[3] \in Nat
          /\ p[2] >= 1 /\ p[3] >= 1 /\ p[2] <= Rows(p[1]) /\ p[3] <= Columns(p[1], p[2])
      BY <1>2, <2>5
    <3>2. p = r <=> p[1] = kind /\ p[2] = d /\ p[3] = j
      BY <1>3, <1>4, <3>1
    <3>3. /\ p[1] = kind => p[2] < d \/ p[2] = d
          /\ p[1] = kind /\ p[2] = d => p[3] < j \/ p[3] = j
      BY <1>1, <1>9, <3>1
    <3>4. ~(p[2] < 1) /\ ~(p[3] < 1)
      BY <3>1
    <3>5. KindNo[p[1]] < KindNo[q[1]] <=> KindNo[p[1]] < KindNo[kind] \/ p[1] = kind
      <4>1. KindNo[q[1]] = KindNo[kind] + 1
        BY <1>1, <2>2, KindsInOrder
      <4>2. KindNo[p[1]] \in 1 .. 6
        BY <3>1, KindsInOrder
      <4>3. KindNo[p[1]] = KindNo[kind] <=> p[1] = kind
        BY <1>1, <3>1, KindsInOrder
      <4>4. KindNo[p[1]] < KindNo[kind] + 1 <=> KindNo[p[1]] < KindNo[kind] \/ KindNo[p[1]] = KindNo[kind]
        BY <1>5, <4>2
      <4> QED
        BY <4>1, <4>3, <4>4
    <3> QED
      BY <1>4, <2>2, <3>2, <3>3, <3>4, <3>5 DEF EarlierPiece
  <2>6. q[1] \in {"iat", "int"} => kind \in {"iat", "int"}
    BY <1>1, <2>2, KindsInOrder
  <2> QED
    BY <1>3, <1>6, <2>1, <2>2, <2>3, <2>4, <2>5, <2>6
<1> QED
  BY <1>1, <1>7, <1>8, <1>9

\* The slots, the names and the directory are rows without gaps.
RowsOf(P) ==
  \A p \in DOMAIN P :
    /\ p[1] \in {"iat", "int"} =>
         /\ <<p[1], p[2], 1>> \in DOMAIN P
         /\ P[p] = P[<<p[1], p[2], 1>>] + 8 * (p[3] - 1)
    /\ p[1] = "dir" =>
         <<"dir", 1, 1>> \in DOMAIN P /\ P[p] = P[<<"dir", 1, 1>>] + 20 * (p[2] - 1)

Allotting ==
  /\ Tiles(tables) /\ (piece = <<"end", 1, 1>> \/ IsPlaceOf(piece))
  /\ \A p : IsPlaceOf(p) /\ EarlierPiece(p, piece) => p \in DOMAIN places
  /\ \A p \in DOMAIN places : IsPlaceOf(p) /\ EarlierPiece(p, piece) /\ places[p] \in Nat
  /\ \A p \in DOMAIN places : \E k \in 1 .. Len(tables) :
       tables[k].kind = p[1] /\ tables[k].at = places[p] /\ tables[k].holds = p
  /\ \A k \in 1 .. Len(tables) : tables[k].size > 0 /\ tables[k].kind \in Kinds
  /\ RowsOf(places)
  /\ piece[1] \in {"iat", "int"} =>
       /\ SizeOf(tables) % 8 = 0
       /\ piece[3] > 1 =>
            SizeOf(tables) = places[<<piece[1], piece[2], 1>>] + 8 * (piece[3] - 1)
  /\ piece[1] = "dir" /\ piece[2] > 1 =>
       SizeOf(tables) = places[<<"dir", 1, 1>>] + 20 * (piece[2] - 1)

TablesInv ==
  /\ phase \in BeforeJoin \ {"tables"} =>
       tables = <<>> /\ places = <<>> /\ piece = <<"iat", 1, 1>>
  /\ phase = "tables" => Allotting

LEMMA TableOfImports ==
  ASSUME ExternsInv, ImportsInv, phase \in {"tables", "headers", "patch", "done"}
  PROVE  /\ Len(externs) + 1 \in Nat /\ TableShape(dlls, Len(externs) + 1) /\ Len(dlls) > 0
         /\ InTable(dlls, ExitProcess)
         /\ \A e \in DOMAIN externs : InTable(dlls, externs[e])
<1>1. Len(externs) \in Nat /\ DOMAIN externs = 1 .. Len(externs)
  BY SeqOfItself DEF ExternsInv
<1>2. /\ TableShape(dlls, Len(externs) + 1) /\ InTable(dlls, ExitProcess)
      /\ \A e \in 1 .. Len(externs) : InTable(dlls, externs[e])
  BY DEF ImportsInv
<1>3. Len(dlls) \in Nat /\ DOMAIN dlls = 1 .. Len(dlls)
  BY <1>2, SeqOfItself DEF TableShape
<1>4. DOMAIN dlls # {}
  BY <1>2 DEF InTable
<1>5. Len(dlls) > 0
  BY <1>3, <1>4
<1> QED
  BY <1>1, <1>2, <1>5

LEMMA SizeOfPiece ==
  ASSUME NEW n \in Nat, TableShape(dlls, n), Len(dlls) > 0, NEW k, NEW d, NEW j, IsPiece(k, d, j)
  PROVE  /\ PieceSize(k, d, j) \in Nat \ {0}
         /\ k \in {"iat", "int"} => PieceSize(k, d, j) = 8
         /\ k = "dir" => PieceSize(k, d, j) = 20
         /\ Alignment(k, d) \in Nat \ {0}
<1>1. k \in Kinds /\ d \in 1 .. Rows(k) /\ j \in 1 .. Columns(k, d)
  BY DEF IsPiece
<1>2. Alignment(k, d) \in Nat \ {0}
  BY <1>1 DEF Alignment, Kinds
<1>3. CASE k \in {"iat", "int"}
  BY <1>2, <1>3 DEF PieceSize
<1>4. CASE k = "dir"
  BY <1>2, <1>4 DEF PieceSize
<1>5. CASE k = "dll"
  <2>1. d \in DOMAIN dlls
    BY <1>1, <1>5, RowsAndColumns DEF Kinds
  <2>2. NameLength[dlls[d].name] \in Nat
    BY <2>1 DEF TableShape
  <2>3. PieceSize(k, d, j) = NameLength[dlls[d].name] + 1
    BY <1>5 DEF PieceSize
  <2> QED
    BY <1>2, <1>5, <2>2, <2>3
<1>6. CASE k = "hint"
  <2>1. d \in DOMAIN dlls
    BY <1>1, <1>6, RowsAndColumns DEF Kinds
  <2>2. Columns(k, d) = Len(dlls[d].funcs)
    BY <1>6 DEF Columns
  <2>3. j \in DOMAIN dlls[d].funcs
    BY <1>1, <2>1, <2>2, RowsAndColumns
  <2>4. NameLength[dlls[d].funcs[j]] \in Nat
    BY <2>1, <2>3 DEF TableShape
  <2>5. PICK m : m = 3 + NameLength[dlls[d].funcs[j]]
    OBVIOUS
  <2>6. m \in Nat /\ m > 0
    BY <2>4, <2>5
  <2>7. AlignUp(m, 2) \in Nat /\ AlignUp(m, 2) >= m
    <3>1. m \in Nat /\ 2 \in Nat \ {0}
      BY <2>6
    <3> QED
      BY <3>1, AlignUpNat
  <2>8. PieceSize(k, d, j) = AlignUp(m, 2)
    <3>1. PieceSize(k, d, j) = AlignUp(3 + NameLength[dlls[d].funcs[j]], 2)
      BY <1>6 DEF PieceSize
    <3> QED
      BY <2>5, <3>1
  <2> QED
    BY <1>2, <1>6, <2>6, <2>7, <2>8
<1> QED
  BY <1>1, <1>3, <1>4, <1>5, <1>6 DEF Kinds

LEMMA AlignedStays ==
  /\ \A n \in Nat : n % 8 = 0 => AlignUp(n, 8) = n
  /\ \A n \in Nat : AlignUp(n, 1) = n
  /\ \A n \in Nat : n % 8 = 0 => (n + 8) % 8 = 0
<1>1. \A n \in Nat : n % 8 = 0 => AlignUp(n, 8) = n
  BY DEF AlignUp
<1>2. \A n \in Nat : AlignUp(n, 1) = n
  BY DEF AlignUp
<1>3. \A n \in Nat : n % 8 = 0 => (n + 8) % 8 = 0
  OBVIOUS
<1> QED
  BY <1>1, <1>2, <1>3

LEMMA AllottingBegins ==
  ASSUME NEW n \in Nat, TableShape(dlls, n), Len(dlls) > 0,
         tables = <<>>, places = <<>>, piece = <<"iat", 1, 1>>
  PROVE  Allotting
<1>1. piece[1] = "iat" /\ piece[2] = 1 /\ piece[3] = 1 /\ "iat" \in Kinds
  BY DEF Kinds
<1>2. 1 \in 1 .. Rows("iat")
  BY <1>1, RowsAndColumns
<1>3. 1 \in 1 .. Columns("iat", 1)
  BY <1>1, <1>2, RowsAndColumns
<1>4. IsPlaceOf(piece)
  BY <1>1, <1>2, <1>3 DEF IsPlaceOf, IsPiece
<1>5. ASSUME NEW p, IsPlaceOf(p), EarlierPiece(p, piece) PROVE FALSE
  <2>1. p[1] \in Kinds /\ p[2] \in 1 .. Rows(p[1]) /\ p[3] \in 1 .. Columns(p[1], p[2])
    BY <1>5 DEF IsPlaceOf, IsPiece
  <2>2. Rows(p[1]) \in Nat /\ Columns(p[1], p[2]) \in Nat
    BY <2>1, RowsAndColumns
  <2>3. ~(p[2] < 1) /\ ~(p[3] < 1)
    BY <2>1, <2>2
  <2>4. ~(KindNo[p[1]] < KindNo["iat"])
    BY <2>1 DEF KindNo, Kinds
  <2> QED
    BY <1>1, <1>5, <2>3, <2>4 DEF EarlierPiece
<1>6. DOMAIN places = {} /\ SizeOf(tables) = 0 /\ Len(tables) = 0
  BY DEF SizeOf
<1>7. \A k \in 1 .. Len(tables) : FALSE
  BY <1>6
<1>8. SizeOf(tables) % 8 = 0
  BY <1>6
<1> QED
  BY <1>1, <1>4, <1>5, <1>6, <1>7, <1>8, EmptyTiles DEF Allotting, RowsOf

LEMMA AllotKeeps ==
  ASSUME NEW n \in Nat, TableShape(dlls, n), Len(dlls) > 0, Allotting, AllotPiece
  PROVE  Allotting'
<1>1. PICK kind, d, j : kind = piece[1] /\ d = piece[2] /\ j = piece[3]
  OBVIOUS
<1>2. /\ phase = "tables" /\ kind # "end" /\ dlls' = dlls
      /\ piece' = NextPiece(kind, d, j)
  BY <1>1 DEF AllotPiece
<1>3. PICK at : at = AlignUp(SizeOf(tables), Alignment(kind, d))
  OBVIOUS
<1>4. PICK size : size = PieceSize(kind, d, j)
  OBVIOUS
<1>5. PICK item : item = Item(kind, at, size, piece)
  OBVIOUS
<1>6. /\ tables' = Append(tables, item)
      /\ places' = [p \in DOMAIN places \cup {piece} |-> IF p = piece THEN at ELSE places[p]]
  BY <1>1, <1>3, <1>4, <1>5 DEF AllotPiece
<1>7. IsPlaceOf(piece) /\ piece = <<kind, d, j>> /\ IsPiece(kind, d, j)
  <2>1. piece # <<"end", 1, 1>>
    BY <1>1, <1>2
  <2>2. IsPlaceOf(piece)
    BY <2>1 DEF Allotting
  <2> QED
    BY <1>1, <2>2 DEF IsPlaceOf
<1>8. kind \in Kinds /\ d \in Nat /\ j \in Nat /\ d >= 1 /\ j >= 1
  <2>1. kind \in Kinds /\ d \in 1 .. Rows(kind) /\ j \in 1 .. Columns(kind, d)
    BY <1>7 DEF IsPiece
  <2>2. Rows(kind) \in Nat /\ Columns(kind, d) \in Nat
    BY <2>1, RowsAndColumns
  <2> QED
    BY <2>1, <2>2
<1>9. /\ SizeOf(tables) \in Nat /\ at \in Nat /\ at >= SizeOf(tables)
      /\ size \in Nat \ {0}
      /\ kind \in {"iat", "int"} => size = 8
      /\ kind = "dir" => size = 20
  <2>1. SizeOf(tables) \in Nat
    BY TilesEnd DEF Allotting
  <2>2. Alignment(kind, d) \in Nat \ {0} /\ size \in Nat \ {0}
        /\ (kind \in {"iat", "int"} => size = 8) /\ (kind = "dir" => size = 20)
    BY <1>4, <1>7, SizeOfPiece
  <2>3. at \in Nat /\ at >= SizeOf(tables)
    BY <1>3, <2>1, <2>2, AlignUpNat
  <2> QED
    BY <2>1, <2>2, <2>3
<1>10. /\ item.kind = kind /\ item.at = at /\ item.size = size /\ item.holds = piece
       /\ IsItem(item)
  BY <1>5 DEF Item, IsItem
<1>11. Tiles(tables) /\ IsSeq(tables) /\ Len(tables) \in Nat
  BY SeqOfItself DEF Allotting, Tiles
<1>12. /\ Tiles(tables') /\ SizeOf(tables)' = at + size
  <2>1. item.at \in Nat /\ item.size \in Nat /\ item.at >= SizeOf(tables)
    BY <1>9, <1>10
  <2>2. Tiles(Append(tables, item)) /\ SizeOf(Append(tables, item)) = item.at + item.size
    BY <1>10, <1>11, <2>1, TilesGrow
  <2>3. SizeOf(tables)' = SizeOf(Append(tables, item))
    BY <1>6 DEF SizeOf
  <2> QED
    BY <1>6, <1>10, <2>2, <2>3
<1>13. /\ Len(tables') = Len(tables) + 1 /\ tables'[Len(tables) + 1] = item
       /\ \A k \in 1 .. Len(tables) : tables'[k] = tables[k]
  BY <1>6, <1>11, AppendIsSeq
<1>14. /\ piece' = <<"end", 1, 1>> \/ IsPlaceOf(piece')
       /\ \A p : IsPlaceOf(p) => (EarlierPiece(p, piece') <=> EarlierPiece(p, piece) \/ p = piece)
       /\ ~EarlierPiece(piece, piece)
       /\ piece'[1] \in {"iat", "int"} => kind \in {"iat", "int"}
       /\ piece'[1] \in {"iat", "int"} /\ piece'[3] > 1 => piece' = <<kind, d, j + 1>>
       /\ piece'[1] = "dir" /\ piece'[2] > 1 => piece' = <<kind, d + 1, 1>>
  BY <1>2, <1>7, NextPieceFollows
<1>15. piece \notin DOMAIN places
  BY <1>14 DEF Allotting
<1>16. /\ DOMAIN places' = DOMAIN places \cup {piece}
       /\ places'[piece] = at
       /\ \A p \in DOMAIN places : places'[p] = places[p] /\ p # piece
  BY <1>6, <1>15
<1>17. \A p : IsPlaceOf(p)' <=> IsPlaceOf(p)
  BY <1>2 DEF IsPlaceOf, IsPiece, Rows, Columns
<1>18. \A p : IsPlaceOf(p) /\ EarlierPiece(p, piece') => p \in DOMAIN places'
  BY <1>14, <1>16 DEF Allotting
<1>19. \A p \in DOMAIN places' :
         IsPlaceOf(p) /\ EarlierPiece(p, piece') /\ places'[p] \in Nat
  BY <1>7, <1>9, <1>14, <1>16 DEF Allotting
<1>20. \A p \in DOMAIN places' : \E k \in 1 .. Len(tables') :
         tables'[k].kind = p[1] /\ tables'[k].at = places'[p] /\ tables'[k].holds = p
  <2>1. SUFFICES ASSUME NEW p \in DOMAIN places'
                 PROVE  \E k \in 1 .. Len(tables') :
                   tables'[k].kind = p[1] /\ tables'[k].at = places'[p] /\ tables'[k].holds = p
    OBVIOUS
  <2>2. CASE p = piece
    <3>1. Len(tables) + 1 \in 1 .. Len(tables')
      BY <1>11, <1>13
    <3> QED
      BY <1>1, <1>10, <1>13, <1>16, <2>2, <3>1
  <2>3. CASE p # piece
    <3>1. p \in DOMAIN places /\ places'[p] = places[p]
      BY <1>16, <2>3
    <3>2. PICK k \in 1 .. Len(tables) :
            tables[k].kind = p[1] /\ tables[k].at = places[p] /\ tables[k].holds = p
      BY <3>1 DEF Allotting
    <3>3. k \in 1 .. Len(tables')
      BY <1>11, <1>13
    <3> QED
      BY <1>13, <3>1, <3>2, <3>3
  <2> QED
    BY <2>2, <2>3
<1>21. \A k \in 1 .. Len(tables') : tables'[k].size > 0 /\ tables'[k].kind \in Kinds
  <2>1. \A k \in 1 .. Len(tables') : k \in 1 .. Len(tables) \/ k = Len(tables) + 1
    BY <1>11, <1>13
  <2>2. size > 0
    BY <1>9
  <2> QED
    BY <1>8, <1>10, <1>13, <2>1, <2>2 DEF Allotting
\* Where the piece is put in a row.
<1>22. kind \in {"iat", "int"} =>
         /\ <<kind, d, 1>> \in DOMAIN places'
         /\ at = places'[<<kind, d, 1>>] + 8 * (j - 1)
         /\ at % 8 = 0
  <2>1. SUFFICES ASSUME kind \in {"iat", "int"}
                 PROVE  /\ <<kind, d, 1>> \in DOMAIN places'
                        /\ at = places'[<<kind, d, 1>>] + 8 * (j - 1)
                        /\ at % 8 = 0
    OBVIOUS
  <2>2. /\ SizeOf(tables) % 8 = 0
        /\ j > 1 => SizeOf(tables) = places[<<kind, d, 1>>] + 8 * (j - 1)
    BY <1>1, <2>1 DEF Allotting
  <2>3. at = SizeOf(tables)
    <3>1. Alignment(kind, d) = 8
      BY <2>1 DEF Alignment
    <3> QED
      BY <1>3, <1>9, <2>2, <3>1, AlignedStays
  <2>4. CASE j = 1
    <3>1. <<kind, d, 1>> = piece
      BY <1>7, <2>4
    <3>2. at = at + 8 * (j - 1)
      BY <1>9, <2>4
    <3> QED
      BY <1>16, <2>2, <2>3, <3>1, <3>2
  <2>5. CASE j # 1
    <3>1. j > 1
      BY <1>8, <2>5
    <3>2. PICK p : p = <<kind, d, 1>>
      OBVIOUS
    <3>3. p[1] = kind /\ p[2] = d /\ p[3] = 1
      BY <3>2
    <3>4. IsPlaceOf(p)
      <4>1. d \in 1 .. Rows(kind) /\ kind \in Kinds
        BY <1>7 DEF IsPiece
      <4>2. 1 \in 1 .. Columns(kind, d)
        BY <4>1, RowsAndColumns
      <4> QED
        BY <3>2, <3>3, <4>1, <4>2 DEF IsPlaceOf, IsPiece
    <3>5. EarlierPiece(p, piece)
      BY <1>1, <3>1, <3>3 DEF EarlierPiece
    <3>6. p \in DOMAIN places
      BY <3>4, <3>5 DEF Allotting
    <3> QED
      BY <1>16, <2>2, <2>3, <3>1, <3>2, <3>6
  <2> QED
    BY <2>4, <2>5
<1>23. kind = "dir" =>
         /\ <<"dir", 1, 1>> \in DOMAIN places' /\ j = 1
         /\ at = places'[<<"dir", 1, 1>>] + 20 * (d - 1)
  <2>1. SUFFICES ASSUME kind = "dir"
                 PROVE  /\ <<"dir", 1, 1>> \in DOMAIN places' /\ j = 1
                        /\ at = places'[<<"dir", 1, 1>>] + 20 * (d - 1)
    OBVIOUS
  <2>2. j = 1
    <3>1. j \in 1 .. Columns(kind, d) /\ Columns(kind, d) = 1
      BY <1>7, <2>1 DEF IsPiece, Columns
    <3> QED
      BY <1>8, <3>1
  <2>3. CASE d = 1
    <3>1. <<"dir", 1, 1>> = piece /\ at = at + 20 * (d - 1)
      BY <1>7, <1>9, <2>1, <2>2, <2>3
    <3> QED
      BY <1>16, <2>2, <3>1
  <2>4. CASE d # 1
    <3>1. d > 1
      BY <1>8, <2>4
    <3>2. at = SizeOf(tables)
      <4>1. Alignment(kind, d) = 1
        BY <2>1, <2>4 DEF Alignment
      <4> QED
        BY <1>3, <1>9, <4>1, AlignedStays
    <3>3. SizeOf(tables) = places[<<"dir", 1, 1>>] + 20 * (d - 1)
      BY <1>1, <2>1, <3>1 DEF Allotting
    <3>4. PICK p : p = <<"dir", 1, 1>>
      OBVIOUS
    <3>5. p[1] = "dir" /\ p[2] = 1 /\ p[3] = 1
      BY <3>4
    <3>6. IsPlaceOf(p)
      <4>1. 1 \in 1 .. Rows("dir") /\ "dir" \in Kinds
        BY RowsAndColumns DEF Kinds
      <4>2. 1 \in 1 .. Columns("dir", 1)
        BY <4>1, RowsAndColumns
      <4> QED
        BY <3>4, <3>5, <4>1, <4>2 DEF IsPlaceOf, IsPiece
    <3>7. EarlierPiece(p, piece)
      BY <1>1, <2>1, <3>1, <3>5 DEF EarlierPiece
    <3>8. p \in DOMAIN places
      BY <3>6, <3>7 DEF Allotting
    <3> QED
      BY <1>16, <2>2, <3>2, <3>3, <3>4, <3>8
  <2> QED
    BY <2>3, <2>4
<1>24. RowsOf(places')
  <2>1. SUFFICES ASSUME NEW p \in DOMAIN places'
                 PROVE  /\ p[1] \in {"iat", "int"} =>
                             /\ <<p[1], p[2], 1>> \in DOMAIN places'
                             /\ places'[p] = places'[<<p[1], p[2], 1>>] + 8 * (p[3] - 1)
                        /\ p[1] = "dir" =>
                             /\ <<"dir", 1, 1>> \in DOMAIN places'
                             /\ places'[p] = places'[<<"dir", 1, 1>>] + 20 * (p[2] - 1)
    BY DEF RowsOf
  <2>2. CASE p = piece
    BY <1>1, <1>16, <1>22, <1>23, <2>2
  <2>3. CASE p # piece
    <3>1. p \in DOMAIN places
      BY <1>16, <2>3
    <3>2. /\ p[1] \in {"iat", "int"} =>
               /\ <<p[1], p[2], 1>> \in DOMAIN places
               /\ places[p] = places[<<p[1], p[2], 1>>] + 8 * (p[3] - 1)
          /\ p[1] = "dir" =>
               <<"dir", 1, 1>> \in DOMAIN places /\ places[p] = places[<<"dir", 1, 1>>] + 20 * (p[2] - 1)
      BY <3>1 DEF Allotting, RowsOf
    <3> QED
      BY <1>16, <3>1, <3>2
  <2> QED
    BY <2>2, <2>3
<1>25. piece'[1] \in {"iat", "int"} =>
         /\ SizeOf(tables)' % 8 = 0
         /\ piece'[3] > 1 =>
              SizeOf(tables)' = places'[<<piece'[1], piece'[2], 1>>] + 8 * (piece'[3] - 1)
  <2>1. SUFFICES ASSUME piece'[1] \in {"iat", "int"}
                 PROVE  /\ SizeOf(tables)' % 8 = 0
                        /\ piece'[3] > 1 =>
                             SizeOf(tables)' = places'[<<piece'[1], piece'[2], 1>>] + 8 * (piece'[3] - 1)
    OBVIOUS
  <2>2. /\ <<kind, d, 1>> \in DOMAIN places' /\ at % 8 = 0
        /\ at = places'[<<kind, d, 1>>] + 8 * (j - 1) /\ size = 8
    BY <1>9, <1>14, <1>22, <2>1
  <2>3. SizeOf(tables)' = at + 8
    BY <1>12, <2>2
  <2>4. SizeOf(tables)' % 8 = 0
    BY <1>9, <2>2, <2>3, AlignedStays
  <2>5. ASSUME piece'[3] > 1
        PROVE  SizeOf(tables)' = places'[<<piece'[1], piece'[2], 1>>] + 8 * (piece'[3] - 1)
    <3>1. piece' = <<kind, d, j + 1>>
      BY <1>14, <2>1, <2>5
    <3>2. piece'[1] = kind /\ piece'[2] = d /\ piece'[3] = j + 1
      BY <3>1
    <3>3. places'[<<kind, d, 1>>] \in Nat
      BY <1>19, <2>2
    <3>4. at + 8 = places'[<<kind, d, 1>>] + 8 * ((j + 1) - 1)
      BY <1>8, <2>2, <3>3
    <3> QED
      BY <2>3, <3>2, <3>4
  <2> QED
    BY <2>4, <2>5
<1>26. piece'[1] = "dir" /\ piece'[2] > 1 =>
         SizeOf(tables)' = places'[<<"dir", 1, 1>>] + 20 * (piece'[2] - 1)
  <2>1. SUFFICES ASSUME piece'[1] = "dir", piece'[2] > 1
                 PROVE  SizeOf(tables)' = places'[<<"dir", 1, 1>>] + 20 * (piece'[2] - 1)
    OBVIOUS
  <2>2. piece' = <<kind, d + 1, 1>>
    BY <1>14, <2>1
  <2>3. kind = "dir" /\ piece'[2] = d + 1
    BY <2>1, <2>2
  <2>4. /\ <<"dir", 1, 1>> \in DOMAIN places' /\ size = 20
        /\ at = places'[<<"dir", 1, 1>>] + 20 * (d - 1)
    BY <1>9, <1>23, <2>3
  <2>5. places'[<<"dir", 1, 1>>] \in Nat
    BY <1>19, <2>4
  <2>6. at + 20 = places'[<<"dir", 1, 1>>] + 20 * ((d + 1) - 1)
    BY <1>8, <2>4, <2>5
  <2> QED
    BY <1>12, <2>3, <2>4, <2>6
<1>27. \A p : EarlierPiece(p, piece)' <=> EarlierPiece(p, piece')
  BY DEF EarlierPiece
<1>28. Tiles(tables)' /\ RowsOf(places)'
  BY <1>12, <1>24 DEF RowsOf, Tiles, IsSeq, IsItem
<1>29. (piece = <<"end", 1, 1>> \/ IsPlaceOf(piece))'
  <2>1. IsPlaceOf(piece)' <=> IsPlaceOf(piece')
    BY <1>2 DEF IsPlaceOf, IsPiece, Rows, Columns
  <2> QED
    BY <1>14, <2>1
<1> QED
  BY <1>17, <1>18, <1>19, <1>20, <1>21, <1>25, <1>26, <1>27, <1>28, <1>29 DEF Allotting

LEMMA StepKeepsTables == ExternsInv /\ ImportsInv /\ TablesInv /\ [Next]_vars => TablesInv'
<1> SUFFICES ASSUME ExternsInv, ImportsInv, TablesInv, [Next]_vars PROVE TablesInv'
  OBVIOUS
<1>1. CASE AllotPiece
  <2>1. phase = "tables" /\ phase' = "tables"
    BY <1>1 DEF AllotPiece
  <2>2. Allotting'
    BY <1>1, <2>1, TableOfImports, AllotKeeps DEF TablesInv
  <2> QED
    BY <2>1, <2>2 DEF TablesInv
<1>2. CASE AddImport
  <2>1. /\ phase = "imports" /\ UNCHANGED <<externs, tables, piece, places>>
        /\ phase' \in {"imports", "tables"}
        /\ phase' = "tables" => UNCHANGED dlls
    BY <1>2 DEF AddImport
  <2>2. tables = <<>> /\ places = <<>> /\ piece = <<"iat", 1, 1>>
    BY <2>1 DEF TablesInv, BeforeJoin
  <2>3. CASE phase' = "imports"
    BY <2>1, <2>2, <2>3 DEF TablesInv
  <2>4. CASE phase' = "tables"
    <3>1. Len(externs) \in Nat
      BY SeqOfItself DEF ExternsInv
    <3>2. ~(count <= Len(externs))
      BY <1>2, <2>1, <2>4 DEF AddImport
    <3>3. count \in 0 .. Len(externs) + 1 /\ TableShape(dlls, count)
          /\ (count > 0 => InTable(dlls, ExitProcess))
      BY <2>1 DEF ImportsInv
    <3>4. count \in Nat /\ count > 0
      BY <3>1, <3>2, <3>3
    <3>5. Len(dlls) > 0
      <4>1. Len(dlls) \in Nat /\ DOMAIN dlls = 1 .. Len(dlls)
        BY <3>3, SeqOfItself DEF TableShape
      <4>2. DOMAIN dlls # {}
        BY <3>3, <3>4 DEF InTable
      <4> QED
        BY <4>1, <4>2
    <3>6. Allotting
      BY <2>2, <3>3, <3>4, <3>5, AllottingBegins
    <3>7. Allotting'
      BY <2>1, <2>4, <3>6
         DEF Allotting, EarlierPiece, IsPlaceOf, IsPiece, Rows, Columns, RowsOf, Tiles, SizeOf, Last
    <3> QED
      BY <2>4, <3>7 DEF TablesInv
  <2> QED
    BY <2>1, <2>3, <2>4
<1>3. CASE JoinTables
  BY <1>3 DEF JoinTables, TablesInv, BeforeJoin
<1>4. CASE ~(AllotPiece \/ AddImport \/ JoinTables)
  <2>1. /\ UNCHANGED <<dlls, tables, piece, places>>
        /\ phase' = "tables" => phase = "tables"
        /\ phase' \in BeforeJoin \ {"tables"} => phase \in BeforeJoin \ {"tables"}
    <3>1. CASE AddSysExtern \/ PlaceGlobal \/ CollectString
      BY <3>1 DEF AddSysExtern, PlaceGlobal, CollectString, importVars, BeforeJoin
    <3>2. CASE BeginBlock \/ EmitInst \/ EmitStart
      BY <3>2 DEF BeginBlock, EmitInst, EmitStart, importVars, BeforeJoin
    <3>4. CASE LayOut \/ Patch
      BY <3>4 DEF LayOut, Patch, importVars, BeforeJoin
    <3>5. CASE Finished \/ UNCHANGED vars
      BY <3>5 DEF Finished, vars
    <3> QED
      BY <1>4, <3>1, <3>2, <3>4, <3>5 DEF Next
  <2>2. Allotting' <=> Allotting
    BY <2>1 DEF Allotting, EarlierPiece, IsPlaceOf, IsPiece, Rows, Columns, RowsOf, Tiles, SizeOf,
                Last
  <2> QED
    BY <2>1, <2>2 DEF TablesInv
<1> QED
  BY <1>1, <1>2, <1>3, <1>4

LEMMA TablesFirst == Init => TablesInv
BY DEF Init, TablesInv

-----------------------------------------------------------------------------
(* The tables joined with the strings. *)

Joined ==
  /\ Tiles(rdata) /\ RowsOf(places) /\ Shift \in Nat
  /\ \A k, d, j : IsPiece(k, d, j) =>
       /\ <<k, d, j>> \in DOMAIN places /\ places[<<k, d, j>>] \in Nat
       /\ \E i \in 1 .. Len(rdata) : /\ rdata[i].kind = k
                                     /\ rdata[i].at = places[<<k, d, j>>]
                                     /\ rdata[i].holds = Held(k, d, j)
  /\ \A i \in 1 .. Len(rdata) : rdata[i].kind \in Kinds => rdata[i].size > 0
  /\ \A s \in 1 .. Len(strings) :
       \E i \in 1 .. Len(rdata) : /\ rdata[i].kind = "string"
                                  /\ rdata[i].at = strings[s].at + Shift
                                  /\ rdata[i].holds = strings[s].contents
JoinedInv == phase \in {"headers", "patch", "done"} => Joined

LEMMA JoinKeeps ==
  ASSUME ExternsInv, ImportsInv, StringsInv, TablesInv, JoinTables
  PROVE  Joined'
<1>1. /\ phase = "tables" /\ piece[1] = "end"
      /\ UNCHANGED <<text, dlls, strings, tables, places>>
  BY DEF JoinTables, importVars
<1>2. /\ Len(externs) + 1 \in Nat /\ TableShape(dlls, Len(externs) + 1) /\ Len(dlls) > 0
      /\ Allotting
  BY <1>1, TableOfImports DEF TablesInv
<1>3. /\ Tiles(rdata) /\ Len(strings) = Len(rdata)
      /\ \A s \in 1 .. Len(rdata) : /\ rdata[s].kind = "string"
                                    /\ rdata[s].at = strings[s].at
                                    /\ rdata[s].holds = strings[s].contents
  BY <1>1 DEF StringsInv, BeforeJoin
<1>4. PICK t : t = [k \in DOMAIN tables |->
                      [tables[k] EXCEPT !.holds = Held(@[1], @[2], @[3])]]
  OBVIOUS
<1>5. PICK r : r = [k \in DOMAIN rdata |-> [rdata[k] EXCEPT !.at = @ + Shift]]
  OBVIOUS
<1>6. rdata' = t \o r
  BY <1>4, <1>5 DEF JoinTables
<1>7. /\ Tiles(tables) /\ Len(tables) \in Nat /\ DOMAIN tables = 1 .. Len(tables)
      /\ Len(rdata) \in Nat /\ DOMAIN rdata = 1 .. Len(rdata)
      /\ \A k \in 1 .. Len(tables) :
           IsItem(tables[k]) /\ tables[k].at \in Nat /\ tables[k].size \in Nat
      /\ \A k \in 1 .. Len(rdata) :
           IsItem(rdata[k]) /\ rdata[k].at \in Nat /\ rdata[k].size \in Nat
  BY <1>2, <1>3, SeqOfItself DEF Tiles, Allotting
<1>8. /\ Shift \in Nat
      /\ \A k \in 1 .. Len(tables) : tables[k].at + tables[k].size <= Shift
  BY <1>7, TilesEnd DEF Shift
<1>9. IsSeq(t) /\ Len(t) = Len(tables) /\ IsSeq(r) /\ Len(r) = Len(rdata)
  BY <1>4, <1>5, <1>7, FunctionIsSeq
<1>10. \A k \in 1 .. Len(tables) :
         /\ t[k].kind = tables[k].kind /\ t[k].at = tables[k].at /\ t[k].size = tables[k].size
         /\ t[k].holds = Held(tables[k].holds[1], tables[k].holds[2], tables[k].holds[3])
         /\ IsItem(t[k])
  <2>1. SUFFICES ASSUME NEW k \in 1 .. Len(tables)
                 PROVE  /\ t[k].kind = tables[k].kind /\ t[k].at = tables[k].at
                        /\ t[k].size = tables[k].size
                        /\ t[k].holds = Held(tables[k].holds[1], tables[k].holds[2], tables[k].holds[3])
                        /\ IsItem(t[k])
    OBVIOUS
  <2>2. PICK h : h = Held(tables[k].holds[1], tables[k].holds[2], tables[k].holds[3])
    OBVIOUS
  <2>3. t[k] = [tables[k] EXCEPT !.holds = h]
    BY <1>4, <1>7, <2>2
  <2>4. tables[k] = [kind |-> tables[k].kind, at |-> tables[k].at, size |-> tables[k].size,
                     holds |-> tables[k].holds]
    BY <1>7 DEF IsItem, Item
  <2>5. t[k] = [kind |-> tables[k].kind, at |-> tables[k].at, size |-> tables[k].size, holds |-> h]
    BY <2>3, <2>4
  <2> QED
    BY <2>2, <2>5 DEF IsItem, Item
<1>11. \A k \in 1 .. Len(rdata) :
         /\ r[k].kind = rdata[k].kind /\ r[k].at = rdata[k].at + Shift
         /\ r[k].size = rdata[k].size /\ r[k].holds = rdata[k].holds /\ IsItem(r[k])
  <2>1. SUFFICES ASSUME NEW k \in 1 .. Len(rdata)
                 PROVE  /\ r[k].kind = rdata[k].kind /\ r[k].at = rdata[k].at + Shift
                        /\ r[k].size = rdata[k].size /\ r[k].holds = rdata[k].holds /\ IsItem(r[k])
    OBVIOUS
  <2>2. PICK a : a = rdata[k].at + Shift
    OBVIOUS
  <2>3. r[k] = [rdata[k] EXCEPT !.at = a]
    BY <1>5, <1>7, <2>2
  <2>4. rdata[k] = [kind |-> rdata[k].kind, at |-> rdata[k].at, size |-> rdata[k].size,
                    holds |-> rdata[k].holds]
    BY <1>7 DEF IsItem, Item
  <2>5. r[k] = [kind |-> rdata[k].kind, at |-> a, size |-> rdata[k].size, holds |-> rdata[k].holds]
    BY <2>3, <2>4
  <2> QED
    BY <2>2, <2>5 DEF IsItem, Item
<1>12. PICK u : u = t \o r
  OBVIOUS
<1>13. /\ IsSeq(u) /\ Len(u) = Len(tables) + Len(rdata)
       /\ \A i \in 1 .. Len(tables) : u[i] = t[i]
       /\ \A i \in 1 .. Len(rdata) : u[Len(tables) + i] = r[i]
       /\ \A i \in 1 .. Len(tables) + Len(rdata) :
            i \in 1 .. Len(tables) \/ (i - Len(tables) \in 1 .. Len(rdata) /\ u[i] = r[i - Len(tables)])
  <2>1. IsSeq(u) /\ Len(u) = Len(t) + Len(r)
    BY <1>9, <1>12, ConcatIsSeq
  <2>2. \A i \in 1 .. Len(t) : u[i] = t[i]
    BY <1>9, <1>12, ConcatIsSeq
  <2>3. \A i \in 1 .. Len(r) : u[Len(t) + i] = r[i]
    BY <1>9, <1>12, ConcatIsSeq
  <2>4. \A i \in 1 .. Len(t) + Len(r) :
          i \in 1 .. Len(t) \/ (i - Len(t) \in 1 .. Len(r) /\ u[i] = r[i - Len(t)])
    BY <1>9, <1>12, ConcatIsSeq
  <2> QED
    BY <1>9, <2>1, <2>2, <2>3, <2>4
<1>14. \A i \in 1 .. Len(u) :
         \/ i \in 1 .. Len(tables) /\ u[i] = t[i]
         \/ i - Len(tables) \in 1 .. Len(rdata) /\ i > Len(tables) /\ u[i] = r[i - Len(tables)]
  BY <1>7, <1>13
<1>15. Tiles(u)
  <2>1. ASSUME NEW i \in 1 .. Len(u)
        PROVE  IsItem(u[i]) /\ u[i].at \in Nat /\ u[i].size \in Nat
    <3>1. CASE i \in 1 .. Len(tables) /\ u[i] = t[i]
      BY <1>7, <1>10, <3>1
    <3>2. CASE i - Len(tables) \in 1 .. Len(rdata) /\ u[i] = r[i - Len(tables)]
      <4>1. PICK k : k = i - Len(tables)
        OBVIOUS
      <4>2. k \in 1 .. Len(rdata) /\ u[i] = r[k]
        BY <3>2, <4>1
      <4>3. IsItem(r[k]) /\ r[k].at = rdata[k].at + Shift /\ r[k].size = rdata[k].size
        BY <1>11, <4>2
      <4>4. rdata[k].at \in Nat /\ rdata[k].size \in Nat
        BY <1>7, <4>2
      <4>5. rdata[k].at + Shift \in Nat
        BY <1>8, <4>4
      <4> QED
        BY <4>2, <4>3, <4>4, <4>5
    <3> QED
      BY <1>14, <3>1, <3>2
  <2>2. ASSUME NEW i \in 1 .. Len(u), NEW k \in 1 .. Len(u), i < k
        PROVE  u[i].at + u[i].size <= u[k].at
    <3>1. CASE i \in 1 .. Len(tables) /\ u[i] = t[i] /\ k \in 1 .. Len(tables) /\ u[k] = t[k]
      BY <1>2, <1>10, <2>2, <3>1 DEF Tiles, Allotting
    <3>2. CASE /\ i \in 1 .. Len(tables) /\ u[i] = t[i]
               /\ k - Len(tables) \in 1 .. Len(rdata) /\ u[k] = r[k - Len(tables)]
      <4>1. u[i].at + u[i].size <= Shift /\ u[i].at \in Nat /\ u[i].size \in Nat
        BY <1>7, <1>8, <1>10, <3>2
      <4>2. u[k].at = rdata[k - Len(tables)].at + Shift /\ rdata[k - Len(tables)].at \in Nat
        BY <1>7, <1>11, <3>2
      <4> QED
        BY <1>8, <4>1, <4>2
    <3>3. CASE /\ i - Len(tables) \in 1 .. Len(rdata) /\ u[i] = r[i - Len(tables)]
               /\ k - Len(tables) \in 1 .. Len(rdata) /\ u[k] = r[k - Len(tables)]
      <4>1. PICK x, y : x = i - Len(tables) /\ y = k - Len(tables)
        OBVIOUS
      <4>2. x < y /\ x \in 1 .. Len(rdata) /\ y \in 1 .. Len(rdata)
        BY <1>7, <1>13, <2>2, <3>3, <4>1
      <4>3. rdata[x].at + rdata[x].size <= rdata[y].at
        BY <1>3, <4>2 DEF Tiles
      <4>4. u[i].at = rdata[x].at + Shift /\ u[i].size = rdata[x].size /\ u[k].at = rdata[y].at + Shift
        BY <1>11, <3>3, <4>1, <4>2
      <4>5. rdata[x].at \in Nat /\ rdata[x].size \in Nat /\ rdata[y].at \in Nat
        BY <1>7, <4>2
      <4>6. PICK a, z, b, h : /\ a = rdata[x].at /\ z = rdata[x].size /\ b = rdata[y].at
                              /\ h = Shift
        OBVIOUS
      <4>7. a \in Nat /\ z \in Nat /\ b \in Nat /\ h \in Nat /\ a + z <= b
        BY <1>8, <4>3, <4>5, <4>6
      <4>8. (a + h) + z <= b + h
        BY <4>7
      <4> QED
        BY <4>4, <4>6, <4>8
    <3>4. ~(i > Len(tables) /\ k \in 1 .. Len(tables))
      BY <1>7, <1>13, <2>2
    <3> QED
      BY <1>14, <3>1, <3>2, <3>3, <3>4
  <2> QED
    BY <1>13, <2>1, <2>2 DEF Tiles
<1>16. ASSUME NEW k, NEW d, NEW j, IsPiece(k, d, j)
       PROVE  /\ <<k, d, j>> \in DOMAIN places /\ places[<<k, d, j>>] \in Nat
              /\ \E i \in 1 .. Len(u) : /\ u[i].kind = k /\ u[i].at = places[<<k, d, j>>]
                                        /\ u[i].holds = Held(k, d, j)
  <2>1. PICK p : p = <<k, d, j>>
    OBVIOUS
  <2>2. p[1] = k /\ p[2] = d /\ p[3] = j
    BY <2>1
  <2>3. IsPlaceOf(p)
    BY <1>16, <2>1, <2>2 DEF IsPlaceOf
  <2>4. EarlierPiece(p, piece)
    <3>1. k \in Kinds
      BY <1>16 DEF IsPiece
    <3>2. KindNo[k] < KindNo["end"]
      BY <3>1 DEF KindNo, Kinds
    <3> QED
      BY <1>1, <2>2, <3>2 DEF EarlierPiece
  <2>5. p \in DOMAIN places /\ places[p] \in Nat
    BY <1>2, <2>3, <2>4 DEF Allotting
  <2>6. PICK i \in 1 .. Len(tables) :
          tables[i].kind = p[1] /\ tables[i].at = places[p] /\ tables[i].holds = p
    BY <1>2, <2>5 DEF Allotting
  <2>7. i \in 1 .. Len(u) /\ u[i] = t[i]
    BY <1>7, <1>13
  <2>8. t[i].holds = Held(k, d, j) /\ t[i].kind = k /\ t[i].at = places[p]
    BY <1>10, <2>2, <2>6
  <2> QED
    BY <2>1, <2>5, <2>7, <2>8
<1>17. ASSUME NEW i \in 1 .. Len(u), u[i].kind \in Kinds PROVE u[i].size > 0
  <2>1. CASE i \in 1 .. Len(tables) /\ u[i] = t[i]
    BY <1>2, <1>10, <2>1 DEF Allotting
  <2>2. CASE i - Len(tables) \in 1 .. Len(rdata) /\ u[i] = r[i - Len(tables)]
    <3>1. u[i].kind = "string"
      BY <1>3, <1>11, <2>2
    <3> QED
      BY <1>17, <3>1 DEF Kinds
  <2> QED
    BY <1>14, <2>1, <2>2
<1>18. ASSUME NEW s \in 1 .. Len(strings)
       PROVE  \E i \in 1 .. Len(u) : /\ u[i].kind = "string" /\ u[i].at = strings[s].at + Shift
                                     /\ u[i].holds = strings[s].contents
  <2>1. s \in 1 .. Len(rdata)
    BY <1>3
  <2>2. Len(tables) + s \in 1 .. Len(u) /\ u[Len(tables) + s] = r[s]
    BY <1>7, <1>13, <2>1
  <2> QED
    BY <1>3, <1>11, <2>1, <2>2
<1>19. /\ \A k, d, j : IsPiece(k, d, j)' <=> IsPiece(k, d, j)
       /\ \A k, d, j : Held(k, d, j)' = Held(k, d, j)
       /\ Shift' = Shift /\ Shift' \in Nat
  BY <1>1, <1>8 DEF IsPiece, Rows, Columns, Held, RvaOf, RdataVA, Shift, SizeOf, Last, AlignUp, TextVA
<1>20. rdata' = u
  BY <1>6, <1>12
<1>21. RowsOf(places)' /\ Tiles(rdata)'
  BY <1>1, <1>2, <1>15, <1>20 DEF RowsOf, Allotting, Tiles, IsSeq, IsItem
<1>22. (\A k, d, j : IsPiece(k, d, j) =>
          /\ <<k, d, j>> \in DOMAIN places /\ places[<<k, d, j>>] \in Nat
          /\ \E i \in 1 .. Len(rdata) : /\ rdata[i].kind = k
                                        /\ rdata[i].at = places[<<k, d, j>>]
                                        /\ rdata[i].holds = Held(k, d, j))'
  <2>1. ASSUME NEW k, NEW d, NEW j, IsPiece(k, d, j)'
        PROVE  /\ <<k, d, j>> \in DOMAIN places' /\ places'[<<k, d, j>>] \in Nat
               /\ \E i \in 1 .. Len(rdata') : /\ rdata'[i].kind = k
                                              /\ rdata'[i].at = places'[<<k, d, j>>]
                                              /\ rdata'[i].holds = Held(k, d, j)'
    <3>1. IsPiece(k, d, j)
      BY <1>19, <2>1
    <3>2. Held(k, d, j)' = Held(k, d, j)
      BY <1>19
    <3> QED
      BY <1>1, <1>16, <1>20, <3>1, <3>2
  <2> QED
    BY <2>1
<1>23. (\A i \in 1 .. Len(rdata) : rdata[i].kind \in Kinds => rdata[i].size > 0)'
  BY <1>17, <1>20 DEF Kinds
<1>24. (\A s \in 1 .. Len(strings) :
          \E i \in 1 .. Len(rdata) : /\ rdata[i].kind = "string"
                                     /\ rdata[i].at = strings[s].at + Shift
                                     /\ rdata[i].holds = strings[s].contents)'
  BY <1>1, <1>18, <1>19, <1>20
<1> QED
  BY <1>19, <1>21, <1>22, <1>23, <1>24 DEF Joined

LEMMA StepKeepsJoined ==
  ExternsInv /\ ImportsInv /\ StringsInv /\ TablesInv /\ JoinedInv /\ [Next]_vars => JoinedInv'
<1> SUFFICES ASSUME ExternsInv, ImportsInv, StringsInv, TablesInv, JoinedInv, [Next]_vars
             PROVE  JoinedInv'
  OBVIOUS
<1>1. CASE JoinTables
  BY <1>1, JoinKeeps DEF JoinedInv
<1>2. CASE LayOut \/ Patch \/ Finished \/ UNCHANGED vars
  <2>1. /\ UNCHANGED <<text, dlls, strings, tables, places, rdata>>
        /\ phase' \in {"headers", "patch", "done"} => phase \in {"headers", "patch", "done"}
    <3>1. CASE LayOut \/ Patch
      BY <3>1 DEF LayOut, Patch, importVars
    <3>2. CASE Finished \/ UNCHANGED vars
      BY <3>2 DEF Finished, vars
    <3> QED
      BY <1>2, <3>1, <3>2
  <2>2. Joined => Joined'
    <3>1. (Tiles(rdata) /\ RowsOf(places))' = (Tiles(rdata) /\ RowsOf(places))
      BY <2>1 DEF Tiles, RowsOf
    <3>2. /\ \A k, d, j : IsPiece(k, d, j)' = IsPiece(k, d, j)
          /\ \A k, d, j : Held(k, d, j)' = Held(k, d, j)
          /\ Shift' = Shift
      BY <2>1 DEF IsPiece, Rows, Columns, Held, RvaOf, RdataVA, Shift
    <3> QED
      BY <2>1, <3>1, <3>2 DEF Joined
  <2> QED
    BY <2>1, <2>2 DEF JoinedInv
<1>3. CASE ~(JoinTables \/ LayOut \/ Patch \/ Finished \/ UNCHANGED vars)
  <2>1. phase' \notin {"headers", "patch", "done"}
    <3>1. CASE AddSysExtern \/ PlaceGlobal \/ CollectString
      BY <3>1 DEF AddSysExtern, PlaceGlobal, CollectString
    <3>2. CASE BeginBlock \/ EmitInst \/ EmitStart
      BY <3>2 DEF BeginBlock, EmitInst, EmitStart
    <3>3. CASE AddImport \/ AllotPiece
      BY <3>3 DEF AddImport, AllotPiece
    <3> QED
      BY <1>3, <3>1, <3>2, <3>3 DEF Next
  <2> QED
    BY <2>1 DEF JoinedInv
<1> QED
  BY <1>1, <1>2, <1>3

-----------------------------------------------------------------------------
(* The sections. *)

TextInv == text \in Nat

LEMMA StepKeepsText == WalkInv /\ TextInv /\ [Next]_vars => TextInv'
<1> SUFFICES ASSUME WalkInv, TextInv, [Next]_vars PROVE TextInv'
  OBVIOUS
<1>1. CASE BeginBlock \/ EmitInst
  <2>1. phase' = "emit" /\ WalkInv'
    BY <1>1, EmitKeeps DEF BeginBlock, EmitInst, WalkInv
  <2>2. cursor' \in Cursors' /\ \E pos \in [Cursors' -> Nat] : text' = pos[cursor']
    BY <2>1 DEF WalkInv
  <2> QED
    BY <2>2 DEF TextInv
<1>2. CASE EmitStart
  <2>1. text' = 0 \/ text' = text + 43
    BY <1>2 DEF EmitStart
  <2> QED
    BY <2>1 DEF TextInv
<1>3. CASE ~(BeginBlock \/ EmitInst \/ EmitStart)
  <2>1. text' = text
    <3>1. CASE AddSysExtern \/ PlaceGlobal \/ CollectString
      BY <3>1 DEF AddSysExtern, PlaceGlobal, CollectString
    <3>2. CASE AddImport \/ AllotPiece \/ JoinTables
      BY <3>2 DEF AddImport, AllotPiece, JoinTables
    <3>3. CASE LayOut \/ Patch
      BY <3>3 DEF LayOut, Patch
    <3>4. CASE Finished \/ UNCHANGED vars
      BY <3>4 DEF Finished, vars
    <3> QED
      BY <1>3, <3>1, <3>2, <3>3, <3>4 DEF Next
  <2> QED
    BY <2>1 DEF TextInv
<1> QED
  BY <1>1, <1>2, <1>3

LEMMA FirstOfThree ==
  ASSUME NEW a, NEW b, NEW c, NEW n \in {2, 3}, NEW s, s = SubSeq(<<a, b, c>>, 1, n)
  PROVE  /\ Len(s) = n /\ DOMAIN s = 1 .. n /\ s[1] = a /\ s[2] = b /\ (n = 3 => s[3] = c)
         /\ Last(s) = s[n]
<1> DEFINE S == {a, b, c}
           u == <<a, b, c>>
<1>1. u[1] = a /\ u[2] = b /\ u[3] = c
  OBVIOUS
<1>2. \A i \in 1 .. n : i \in {1, 2, 3}
  OBVIOUS
<1>3. \A i \in 1 .. n : u[i] \in S
  BY <1>1, <1>2
<1> HIDE DEF u
<1>4. SubSeq(u, 1, n) \in Seq(S) /\ Len(SubSeq(u, 1, n)) = n
      /\ \A i \in 1 .. n : SubSeq(u, 1, n)[i] = u[i]
  <2>1. /\ SubSeq(u, 1, n) \in Seq(S)
        /\ Len(SubSeq(u, 1, n)) = (IF 1 <= n THEN n - 1 + 1 ELSE 0)
        /\ \A i \in 1 .. n - 1 + 1 : SubSeq(u, 1, n)[i] = u[1 + i - 1]
    BY <1>3, SubSeqProperties
  <2>2. n - 1 + 1 = n /\ 1 <= n /\ \A i \in 1 .. n : 1 + i - 1 = i
    OBVIOUS
  <2> QED
    BY <2>1, <2>2
<1>5. s = SubSeq(u, 1, n)
  BY DEF u
<1>6. s \in Seq(S) /\ Len(s) = n /\ \A i \in 1 .. n : s[i] = u[i]
  BY <1>4, <1>5
<1>7. DOMAIN s = 1 .. n
  BY <1>6, LenProperties
<1>8. 1 \in 1 .. n /\ 2 \in 1 .. n /\ (n = 3 => 3 \in 1 .. n)
  OBVIOUS
<1> QED
  BY <1>1, <1>6, <1>7, <1>8 DEF Last

ImageInv ==
  image = [entry |-> image.entry, headers |-> image.headers, sections |-> image.sections,
           size |-> image.size]

LEMMA StepKeepsImage == ImageInv /\ [Next]_vars => ImageInv'
<1> SUFFICES ASSUME ImageInv, [Next]_vars PROVE ImageInv'
  OBVIOUS
<1>1. CASE EmitStart
  <2>1. image' = image \/ image' = [image EXCEPT !.entry = text]
    BY <1>1 DEF EmitStart
  <2> QED
    BY <2>1 DEF ImageInv
<1>2. CASE LayOut
  BY <1>2 DEF LayOut, ImageInv
<1>3. CASE ~(EmitStart \/ LayOut)
  <2>1. image' = image
    <3>1. CASE AddSysExtern \/ PlaceGlobal \/ CollectString
      BY <3>1 DEF AddSysExtern, PlaceGlobal, CollectString
    <3>2. CASE BeginBlock \/ EmitInst \/ AddImport
      BY <3>2 DEF BeginBlock, EmitInst, AddImport
    <3>3. CASE AllotPiece \/ JoinTables \/ Patch
      BY <3>3 DEF AllotPiece, JoinTables, Patch
    <3>4. CASE Finished \/ UNCHANGED vars
      BY <3>4 DEF Finished, vars
    <3> QED
      BY <1>3, <3>1, <3>2, <3>3, <3>4 DEF Next
  <2> QED
    BY <2>1 DEF ImageInv
<1> QED
  BY <1>1, <1>2, <1>3

DataSectionInv ==
  phase \in {"patch", "done"} =>
    /\ Len(image.sections) = 3 <=> SizeOf(data) > 0
    /\ Len(image.sections) = 3 => image.sections[3].va \in Nat

LEMMA LaidOutApart ==
  ASSUME TextInv, DataInv, ImageInv, Joined, LayOut
  PROVE  SectionsApart' /\ DataSectionInv'
<1>1. /\ phase' = "patch" /\ UNCHANGED <<text, data, rdata>>
  BY DEF LayOut
<1> DEFINE n == IF SizeOf(data) > 0 THEN 3 ELSE 2
           headers == AlignUp(64 + 24 + 240 + 40 * n, 512)
           t == Section(TextVA, headers, text)
           r == Section(RdataVA, headers + t.rawSize, SizeOf(rdata))
           d == Section(DataVA(r.size), r.raw + r.rawSize, SizeOf(data))
           s == SubSeq(<<t, r, d>>, 1, n)
           size == AlignUp(s[n].va + s[n].size, 4096)
<1>2. n = IF SizeOf(data) > 0 THEN 3 ELSE 2
  OBVIOUS
<1>3. headers = AlignUp(64 + 24 + 240 + 40 * n, 512)
  OBVIOUS
<1>4. t = Section(TextVA, headers, text)
  OBVIOUS
<1>5. r = Section(RdataVA, headers + t.rawSize, SizeOf(rdata))
  OBVIOUS
<1>6. d = Section(DataVA(r.size), r.raw + r.rawSize, SizeOf(data))
  OBVIOUS
<1>7. s = SubSeq(<<t, r, d>>, 1, n)
  OBVIOUS
<1>8. size = AlignUp(s[n].va + s[n].size, 4096)
  OBVIOUS
<1>9. image' = [image EXCEPT !.headers = headers, !.sections = s, !.size = size]
  BY DEF LayOut
<1> HIDE DEF n, headers, t, r, d, s, size
<1>10. image'.headers = headers /\ image'.sections = s /\ image'.size = size
  BY <1>9 DEF ImageInv
<1>11. /\ n \in {2, 3} /\ Len(s) = n /\ DOMAIN s = 1 .. n /\ s[1] = t /\ s[2] = r
       /\ n = 3 => s[3] = d
       /\ Last(s) = s[n]
  <2>1. n \in {2, 3}
    BY <1>2
  <2>2. Len(s) = n /\ DOMAIN s = 1 .. n
    BY <1>7, <2>1, FirstOfThree
  <2>3. s[1] = t /\ s[2] = r
    BY <1>7, <2>1, FirstOfThree
  <2>4. n = 3 => s[3] = d
    BY <1>7, <2>1, FirstOfThree
  <2>5. Last(s) = s[n]
    BY <2>2 DEF Last
  <2> QED
    BY <2>1, <2>2, <2>3, <2>4, <2>5
<1>12. /\ text \in Nat /\ SizeOf(rdata) \in Nat /\ SizeOf(data) \in Nat
       /\ Tiles(rdata) /\ Tiles(data)
  BY TilesEnd DEF TextInv, DataInv, Joined
<1>13. PICK rs, ds : rs = SizeOf(rdata) /\ ds = SizeOf(data)
  OBVIOUS
<1>14. /\ t = [va |-> 4096, size |-> text, raw |-> headers, rawSize |-> AlignUp(text, 512)]
       /\ r = [va |-> RdataVA, size |-> rs, raw |-> headers + t.rawSize,
               rawSize |-> AlignUp(rs, 512)]
       /\ d = [va |-> DataVA(r.size), size |-> ds, raw |-> r.raw + r.rawSize,
               rawSize |-> AlignUp(ds, 512)]
  BY <1>4, <1>5, <1>6, <1>13 DEF Section, TextVA
<1>15. /\ t.va = 4096 /\ t.size = text /\ t.raw = headers /\ t.rawSize = AlignUp(text, 512)
       /\ r.va = AlignUp(4096 + text, 4096) /\ r.size = rs /\ r.raw = headers + t.rawSize
       /\ r.rawSize = AlignUp(rs, 512)
       /\ d.va = AlignUp(r.va + rs, 4096) /\ d.size = ds /\ d.raw = r.raw + r.rawSize
       /\ d.rawSize = AlignUp(ds, 512)
  BY <1>14 DEF RdataVA, DataVA, TextVA
<1>16. headers \in Nat /\ headers % 512 = 0
  <2>1. 64 + 24 + 240 + 40 * n \in Nat /\ 512 \in Nat \ {0}
    BY <1>11
  <2> QED
    BY <1>3, <2>1, AlignUpNat
<1>17. /\ t.rawSize \in Nat /\ t.rawSize % 512 = 0 /\ t.size <= t.rawSize
       /\ r.rawSize \in Nat /\ r.rawSize % 512 = 0 /\ r.size <= r.rawSize
       /\ d.rawSize \in Nat /\ d.rawSize % 512 = 0 /\ d.size <= d.rawSize
  <2>1. rs \in Nat /\ ds \in Nat
    BY <1>12, <1>13
  <2>2. \A k \in Nat : AlignUp(k, 512) \in Nat /\ AlignUp(k, 512) % 512 = 0 /\ k <= AlignUp(k, 512)
    <3>1. 512 \in Nat \ {0}
      OBVIOUS
    <3>2. SUFFICES ASSUME NEW k \in Nat
                   PROVE  /\ AlignUp(k, 512) \in Nat /\ AlignUp(k, 512) % 512 = 0
                          /\ k <= AlignUp(k, 512)
      OBVIOUS
    <3>3. PICK q : q = AlignUp(k, 512)
      OBVIOUS
    <3>4. q \in Nat /\ q >= k /\ q % 512 = 0
      BY <3>1, <3>3, AlignUpNat
    <3> QED
      BY <3>3, <3>4
  <2> QED
    BY <1>12, <1>15, <2>1, <2>2
<1>18. /\ r.va \in Nat /\ r.va % 4096 = 0 /\ r.va >= 4096 + text /\ r.va < 4096 + text + 4096
  <2>1. 4096 \in Nat \ {0} /\ 4096 + text \in Nat
    BY <1>12
  <2> QED
    BY <1>15, <2>1, AlignUpNat
<1>19. /\ d.va \in Nat /\ d.va % 4096 = 0 /\ d.va >= r.va + rs /\ d.va < r.va + rs + 4096
  <2>1. 4096 \in Nat \ {0} /\ r.va + rs \in Nat
    BY <1>12, <1>13, <1>18
  <2> QED
    BY <1>15, <2>1, AlignUpNat
<1>20. /\ r.raw \in Nat /\ d.raw \in Nat
       /\ t.raw % 512 = 0 /\ r.raw % 512 = 0 /\ d.raw % 512 = 0
  BY <1>15, <1>16, <1>17
<1>21. size >= s[n].va + s[n].size
  <2>1. s[n].va + s[n].size \in Nat
    BY <1>11, <1>12, <1>13, <1>15, <1>18, <1>19
  <2>2. PICK m, a : m = s[n].va + s[n].size /\ a = 4096
    OBVIOUS
  <2>3. m \in Nat /\ a \in Nat \ {0}
    BY <2>1, <2>2
  <2>4. AlignUp(m, a) >= m
    BY <2>3, AlignUpNat
  <2> QED
    BY <1>8, <2>2, <2>4
<1>22. Fits(rdata, r) /\ Fits(data, d)
  <2>1. \A section : section.size = rs => Fits(rdata, section)
    BY <1>12, <1>13 DEF Fits, Tiles
  <2>2. \A section : section.size = ds => Fits(data, section)
    BY <1>12, <1>13 DEF Fits, Tiles
  <2> QED
    BY <1>15, <2>1, <2>2
<1>23. n = 2 => SizeOf(data) = 0
  BY <1>2, <1>12
<1>24. \A k \in DOMAIN s : s[k].va % 4096 = 0 /\ s[k].raw % 512 = 0 /\ s[k].size <= s[k].rawSize
  <2>1. \A k \in DOMAIN s : s[k] = t \/ s[k] = r \/ s[k] = d
    BY <1>11
  <2>2. t.va % 4096 = 0
    BY <1>15
  <2> QED
    BY <1>17, <1>18, <1>19, <1>20, <2>1, <2>2
<1>25. \A k \in 1 .. Len(s) - 1 : /\ s[k + 1].va >= s[k].va + s[k].size
                                  /\ s[k + 1].va - (s[k].va + s[k].size) < 4096
                                  /\ s[k + 1].raw >= s[k].raw + s[k].rawSize
  <2>1. \A k \in 1 .. Len(s) - 1 : k = 1 \/ (k = 2 /\ n = 3)
    BY <1>11
  <2>2. /\ r.va >= t.va + t.size /\ r.va - (t.va + t.size) < 4096 /\ r.raw >= t.raw + t.rawSize
    BY <1>12, <1>15, <1>16, <1>17, <1>18
  <2>3. /\ d.va >= r.va + r.size /\ d.va - (r.va + r.size) < 4096 /\ d.raw >= r.raw + r.rawSize
    BY <1>12, <1>13, <1>15, <1>17, <1>18, <1>19, <1>20
  <2> QED
    BY <1>11, <2>1, <2>2, <2>3
<1>26. s[1].raw >= headers
  BY <1>11, <1>15, <1>16
<1>27. Fits(rdata, s[2]) /\ IF Len(s) = 3 THEN Fits(data, s[3]) ELSE SizeOf(data) = 0
  BY <1>11, <1>22, <1>23
<1> QED
  <2>1. /\ \A k \in DOMAIN image'.sections :
             /\ image'.sections[k].va % 4096 = 0 /\ image'.sections[k].raw % 512 = 0
             /\ image'.sections[k].size <= image'.sections[k].rawSize
        /\ \A k \in 1 .. Len(image'.sections) - 1 :
             /\ image'.sections[k + 1].va >= image'.sections[k].va + image'.sections[k].size
             /\ image'.sections[k + 1].va - (image'.sections[k].va + image'.sections[k].size) < 4096
             /\ image'.sections[k + 1].raw >= image'.sections[k].raw + image'.sections[k].rawSize
        /\ image'.sections[1].raw >= image'.headers
        /\ image'.size >= Last(image'.sections).va + Last(image'.sections).size
    BY <1>10, <1>11, <1>21, <1>24, <1>25, <1>26
  <2>2. /\ Fits(rdata', image'.sections[2])
        /\ IF Len(image'.sections) = 3 THEN Fits(data', image'.sections[3]) ELSE SizeOf(data') = 0
    BY <1>1, <1>10, <1>27
  <2>3. SectionsApart'
    BY <2>1, <2>2 DEF SectionsApart
  <2>4. /\ Len(image'.sections) = 3 <=> SizeOf(data') > 0
        /\ Len(image'.sections) = 3 => image'.sections[3].va \in Nat
    BY <1>1, <1>2, <1>10, <1>11, <1>19
  <2> QED
    BY <2>3, <2>4 DEF DataSectionInv

LEMMA StepKeepsSections ==
  TextInv /\ DataInv /\ ImageInv /\ JoinedInv /\ SectionsApart /\ DataSectionInv /\ [Next]_vars
    => SectionsApart' /\ DataSectionInv'
<1> SUFFICES ASSUME TextInv, DataInv, ImageInv, JoinedInv, SectionsApart, DataSectionInv, [Next]_vars
             PROVE  SectionsApart' /\ DataSectionInv'
  OBVIOUS
<1>1. CASE LayOut
  <2>1. Joined
    BY <1>1 DEF JoinedInv, LayOut
  <2> QED
    BY <1>1, <2>1, LaidOutApart
<1>2. CASE Patch \/ Finished \/ UNCHANGED vars
  <2>1. /\ UNCHANGED <<data, rdata, image>>
        /\ phase' \in {"patch", "done"} => phase \in {"patch", "done"}
    <3>1. CASE Patch
      BY <3>1 DEF Patch
    <3>2. CASE Finished \/ UNCHANGED vars
      BY <3>2 DEF Finished, vars
    <3> QED
      BY <1>2, <3>1, <3>2
  <2> QED
    BY <2>1 DEF SectionsApart, DataSectionInv
<1>3. CASE ~(LayOut \/ Patch \/ Finished \/ UNCHANGED vars)
  <2>1. phase' \notin {"patch", "done"}
    <3>1. CASE AddSysExtern \/ PlaceGlobal \/ CollectString
      BY <3>1 DEF AddSysExtern, PlaceGlobal, CollectString
    <3>2. CASE BeginBlock \/ EmitInst \/ EmitStart
      BY <3>2 DEF BeginBlock, EmitInst, EmitStart
    <3>3. CASE AddImport \/ AllotPiece \/ JoinTables
      BY <3>3 DEF AddImport, AllotPiece, JoinTables
    <3> QED
      BY <1>3, <3>1, <3>2, <3>3 DEF Next
  <2> QED
    BY <2>1 DEF SectionsApart, DataSectionInv
<1> QED
  BY <1>1, <1>2, <1>3

-----------------------------------------------------------------------------
(* What is known of the executable while it is made. *)

MadeInv ==
  /\ WalkInv /\ ExternsInv /\ DataInv /\ StringsInv /\ ImportsInv /\ TablesInv
  /\ JoinedInv /\ TextInv /\ ImageInv /\ SectionsApart /\ DataSectionInv

LEMMA MadeInvariance == Spec => []MadeInv
<1>1. Init => MadeInv
  <2> SUFFICES ASSUME Init PROVE MadeInv
    OBVIOUS
  <2>1. JoinedInv /\ TextInv /\ SectionsApart /\ DataSectionInv
    BY DEF Init, JoinedInv, TextInv, SectionsApart, DataSectionInv
  <2>2. ImageInv
    BY DEF Init, ImageInv
  <2>3. WalkInv
    BY DEF Init, WalkInv
  <2> QED
    BY <2>1, <2>2, <2>3, ExternsFirst, DataFirst, StringsFirst, ImportsFirst, TablesFirst
    DEF MadeInv
<1>2. MadeInv /\ [Next]_vars => MadeInv'
  BY StepKeepsWalk, StepKeepsExterns, StepKeepsData, StepKeepsStrings, StepKeepsImports,
     StepKeepsTables, StepKeepsJoined, StepKeepsText, StepKeepsImage, StepKeepsSections
  DEF MadeInv
<1> QED
  BY <1>1, <1>2, PTL DEF Spec

\* The sections follow each other in memory and in the file and hold all that was put into
\* them, whatever the program (pe_linker.c:586-601).
THEOREM SectionsLieApart == Spec => []SectionsApart
<1>1. MadeInv => SectionsApart
  BY DEF MadeInv
<1> QED
  BY <1>1, MadeInvariance, PTL

-----------------------------------------------------------------------------
(* Names and where they are found. *)

LEMMA FoundByName ==
  ASSUME NEW s, IsSeq(s), NEW name, NEW i, i = First({k \in DOMAIN s : s[k].name = name})
  PROVE  /\ name \in NamesIn(s) => i \in DOMAIN s /\ i # 0 /\ i \in Nat /\ s[i].name = name
         /\ name \notin NamesIn(s) => i = 0
<1> DEFINE I == {k \in DOMAIN s : s[k].name = name}
<1>1. I \subseteq Nat \ {0}
  BY DEF IsSeq
<1>2. i = First(I)
  OBVIOUS
<1>3. (I = {} => i = 0) /\ (I # {} => i \in I /\ i # 0)
  BY <1>1, <1>2, FirstIsOne
<1>4. name \in NamesIn(s) <=> I # {}
  BY DEF NamesIn
<1> QED
  BY <1>1, <1>3, <1>4

\* Functions, globals and externs do not share names.
LEMMA NamesApart ==
  ASSUME ExternsInv, phase # "externs"
  PROVE  /\ IsSeq(program.funcs) /\ IsSeq(program.globals) /\ IsSeq(externs)
         /\ NamesIn(program.funcs) \cap (NamesIn(program.globals) \cup NamesIn(externs)) = {}
         /\ NamesIn(program.externs) \cup ToSet(SysExterns) \subseteq NamesIn(externs)
         /\ {"princeps", "__scorivm_init"} \subseteq NamesIn(program.funcs)
<1>1. program \in Programs /\ IsSeq(externs)
      /\ NamesIn(externs) \subseteq NamesIn(program.externs) \cup ToSet(SysExterns)
      /\ NamesIn(program.externs) \cup ToSet(SysExterns) \subseteq NamesIn(externs)
  BY DEF ExternsInv
<1>2. /\ IsSeq(program.funcs) /\ IsSeq(program.globals)
      /\ NamesIn(program.funcs) \cap (NamesIn(program.globals) \cup NamesIn(program.externs)) = {}
      /\ (NamesIn(program.funcs) \cup NamesIn(program.globals)) \cap ToSet(SysExterns) = {}
      /\ {"princeps", "__scorivm_init"} \subseteq NamesIn(program.funcs)
  BY <1>1, PeLinkAssumption
<1> QED
  BY <1>1, <1>2

\* A function has an entry, and so a place.
LEMMA FuncPlace ==
  ASSUME WalkInv, NEW name \in NamesIn(program.funcs)
  PROVE  FuncNamed(name) # 0 /\ FuncOffset(name) \in Nat
<1>1. /\ program \in Programs /\ offset \in [BlockIds(program) -> Nat]
      /\ IsSeq(program.funcs)
  BY PeLinkAssumption DEF WalkInv
<1>2. PICK f : f = FuncNamed(name)
  OBVIOUS
<1>3. f \in DOMAIN program.funcs /\ f # 0
  BY <1>1, <1>2, FoundByName DEF FuncNamed
<1>4. Len(BlocksOf(f)) \in Nat \ {0} /\ DOMAIN BlocksOf(f) = 1 .. Len(BlocksOf(f))
  BY <1>1, <1>3, ShapeOfProgram
<1>5. <<f, 1>> \in BlockIds(program)
  BY <1>3, <1>4 DEF BlockIds, BlocksOf
<1> QED
  BY <1>1, <1>2, <1>3, <1>5 DEF FuncOffset

-----------------------------------------------------------------------------
(* The displacements and the entries for them. *)

\* The entries of the lists of places to be filled in, as Patch takes them.
Entries == UNION {{l} \X ToSet(relocs[l]) : l \in DOMAIN relocs}

\* What a displacement may be about, the entry noted for it and where it leads without one.
Meant(w) ==
  \/ w[1] = "block" /\ <<w[2], w[3]>> \in BlockIds(program)
  \/ w[1] = "func" /\ w[2] \in NamesIn(program.funcs)
  \/ w[1] = "name" /\ w[2] \in NamesIn(program.funcs) \cup NamesIn(program.globals)
                                 \cup NamesIn(externs)
  \/ w[1] = "string" /\ \E s \in DOMAIN strings : strings[s].contents = w[2]
  \/ w[1] = "exit"
Listed(w) == IF w[1] = "exit" THEN <<"exit", 0>> ELSE Noted(w)
Straight(w) == IF w[1] = "block" THEN offset[<<w[2], w[3]>>] ELSE FuncOffset(w[2])

\* Filled in at once with no entry for it, or left to all the entries there are for it.
Settled(f) ==
  /\ f = [at |-> f.at, rel |-> f.rel, wants |-> f.wants]
  /\ f.at \in Nat /\ f.at + 4 <= text /\ Meant(f.wants)
  /\ \/ /\ \A e \in Entries : e[2].at # f.at
        /\ f.wants[1] \in {"block", "func"} /\ f.rel = Straight(f.wants) - (f.at + 4)
     \/ /\ f.wants[1] # "block" /\ \E e \in Entries : e[2].at = f.at
        /\ \A e \in Entries : e[2].at = f.at => <<e[1], e[2].to>> = Listed(f.wants)

LEMMA OneOrThree ==
  ASSUME NEW a, NEW b, NEW c
  PROVE  /\ IsSeq(<<a>>) /\ ToSet(<<a>>) = {a}
         /\ IsSeq(<<a, b, c>>) /\ ToSet(<<a, b, c>>) = {a, b, c} /\ Len(<<a, b, c>>) = 3
<1>1. IsSeq(<<a>>) /\ IsSeq(<<a, b, c>>) /\ Len(<<a, b, c>>) = 3
  BY DEF IsSeq
<1>2. ToSet(<<a>>) = {a}
  BY DEF ToSet
<1>3. ToSet(<<a, b, c>>) = {a, b, c}
  <2>1. PICK s : s = <<a, b, c>>
    OBVIOUS
  <2>2. DOMAIN s = {1, 2, 3} /\ s[1] = a /\ s[2] = b /\ s[3] = c
    BY <2>1
  <2> QED
    BY <2>1, <2>2 DEF ToSet
<1> QED
  BY <1>1, <1>2, <1>3

LEMMA AppendedOne ==
  ASSUME NEW s, IsSeq(s), NEW x
  PROVE  Append(s, x) = s \o <<x>> /\ Len(<<x>>) = 1 /\ <<x>>[1] = x
<1>1. PICK S : S = ToSet(s) \cup {x}
  OBVIOUS
<1>2. s \in Seq(ToSet(s)) /\ x \in S /\ ToSet(s) \subseteq S
  BY <1>1, SeqOfItself
<1>3. s \in Seq(S)
  BY <1>2
<1> QED
  BY <1>2, <1>3, AppendIsConcat

LEMMA EntriesGrow ==
  ASSUME relocs = [l \in DOMAIN NoRelocs |-> relocs[l]], \A l \in DOMAIN relocs : IsSeq(relocs[l]),
         NEW list \in DOMAIN NoRelocs, NEW x, relocs' = [relocs EXCEPT ![list] = Append(@, x)]
  PROVE  /\ relocs' = [l \in DOMAIN NoRelocs |-> relocs'[l]]
         /\ \A l \in DOMAIN relocs' : IsSeq(relocs'[l])
         /\ \A l \in DOMAIN NoRelocs : l # list => relocs'[l] = relocs[l]
         /\ \A e : e \in Entries' <=> e \in Entries \/ e = <<list, x>>
<1>1. /\ DOMAIN relocs = DOMAIN NoRelocs /\ DOMAIN relocs' = DOMAIN NoRelocs
      /\ \A l \in DOMAIN NoRelocs : l # list => relocs'[l] = relocs[l]
      /\ relocs'[list] = Append(relocs[list], x)
      /\ relocs' = [l \in DOMAIN NoRelocs |-> relocs'[l]]
  OBVIOUS
<1>2. IsSeq(relocs[list])
  BY <1>1
<1>3. IsSeq(relocs'[list]) /\ ToSet(relocs'[list]) = ToSet(relocs[list]) \cup {x}
  BY <1>1, <1>2, AppendIsSeq
<1>4. \A l \in DOMAIN relocs' : IsSeq(relocs'[l])
  BY <1>1, <1>3
<1>5. \A e : e \in Entries <=> \E l \in DOMAIN NoRelocs : e \in {l} \X ToSet(relocs[l])
  BY <1>1 DEF Entries
<1>6. \A e : e \in Entries' <=> \E l \in DOMAIN NoRelocs : e \in {l} \X ToSet(relocs'[l])
  BY <1>1 DEF Entries
<1>7. ASSUME NEW e PROVE e \in Entries' <=> e \in Entries \/ e = <<list, x>>
  <2>1. \A l \in DOMAIN NoRelocs : l # list => ToSet(relocs'[l]) = ToSet(relocs[l])
    BY <1>1
  <2>2. e \in {list} \X ToSet(relocs'[list]) <=> e \in {list} \X ToSet(relocs[list]) \/ e = <<list, x>>
    BY <1>3
  <2> QED
    BY <1>5, <1>6, <2>1, <2>2
<1> QED
  BY <1>1, <1>4, <1>7

\* The list and the place a reference is noted with.
LEMMA NotedIsEntry ==
  ASSUME NEW w, w[1] \in {"func", "name", "string"}
  PROVE  /\ Noted(w)[1] \in {"data", "func", "string", "extern"}
         /\ Noted(w) = <<Noted(w)[1], Noted(w)[2]>>
<1>1. CASE w[1] = "string"
  BY <1>1 DEF Noted
<1>2. CASE w[1] = "func"
  BY <1>2 DEF Noted
<1>3. CASE w[1] = "name" /\ GlobalNamed(w[2]) # 0
  BY <1>3 DEF Noted
<1>4. CASE w[1] = "name" /\ GlobalNamed(w[2]) = 0 /\ ExternNamed(w[2]) # 0
  BY <1>4 DEF Noted
<1>5. CASE w[1] = "name" /\ GlobalNamed(w[2]) = 0 /\ ExternNamed(w[2]) = 0
  BY <1>5 DEF Noted
<1> QED
  BY <1>1, <1>2, <1>3, <1>4, <1>5

\* What an instruction refers to is there when it is emitted.
LEMMA ReferenceIsMeant ==
  ASSUME WalkInv, ExternsInv, StringsInv, phase = "emit", cursor # End, cursor.i > 0,
         NEW w, w = InstAt(cursor).wants
  PROVE  /\ InstAt(cursor).pre \in Nat
         /\ \/ w = <<>>
            \/ w # <<>> /\ w[1] = "block" /\ <<cursor.f, w[2]>> \in BlockIds(program)
            \/ w # <<>> /\ w[1] \in {"func", "name", "string"} /\ Meant(w)
<1>1. program \in Programs /\ cursor \in Cursors
  BY DEF WalkInv
<1>2. /\ cursor = [f |-> cursor.f, b |-> cursor.b, i |-> cursor.i]
      /\ cursor.f \in 1 .. Len(program.funcs) /\ cursor.b \in 1 .. Len(BlocksOf(cursor.f))
      /\ cursor.i \in 1 .. Len(BlocksOf(cursor.f)[cursor.b])
  <2>1. /\ cursor = [f |-> cursor.f, b |-> cursor.b, i |-> cursor.i]
        /\ cursor.f \in 1 .. Len(program.funcs) /\ cursor.b \in 1 .. Len(BlocksOf(cursor.f))
        /\ cursor.i \in 0 .. Len(BlocksOf(cursor.f)[cursor.b])
    BY <1>1 DEF Cursors
  <2>2. Len(BlocksOf(cursor.f)[cursor.b]) \in Nat
    BY <1>1, <2>1, ShapeOfProgram
  <2> QED
    BY <2>1, <2>2
<1>3. /\ cursor.f \in DOMAIN program.funcs /\ cursor.b \in DOMAIN BlocksOf(cursor.f)
      /\ cursor.i \in DOMAIN BlocksOf(cursor.f)[cursor.b]
  BY <1>1, <1>2, ShapeOfProgram
<1>4. cursor \in Insts
  <2>1. PICK x : x = <<cursor.f, cursor.b>>
    OBVIOUS
  <2>2. x \in BlockIds(program) /\ x[1] = cursor.f /\ x[2] = cursor.b
    BY <1>3, <2>1 DEF BlockIds, BlocksOf
  <2> QED
    BY <1>2, <1>3, <2>2 DEF Insts
<1>5. /\ InstAt(cursor).pre \in Nat
      /\ ProperWants(w, program, program.funcs[cursor.f])
  BY <1>1, <1>4, InstsShape
<1>6. CASE w # <<>> /\ w[1] = "block"
  <2>1. w[2] \in DOMAIN program.funcs[cursor.f].blocks
    BY <1>5, <1>6 DEF ProperWants
  <2> QED
    BY <1>3, <1>5, <1>6, <2>1 DEF BlockIds
<1>7. CASE w # <<>> /\ w[1] = "func"
  BY <1>5, <1>7 DEF ProperWants, Meant
<1>8. CASE w # <<>> /\ w[1] = "name"
  <2>1. w[2] \in NamesIn(program.funcs) \cup NamesIn(program.globals)
                   \cup NamesIn(program.externs) \cup ToSet(SysExterns)
    BY <1>5, <1>8 DEF ProperWants
  <2> QED
    BY <1>5, <1>8, <2>1, NamesApart DEF Meant
<1>9. CASE w # <<>> /\ w[1] = "string"
  <2>1. StringsMissing = {}
    BY DEF StringsInv
  <2>2. w[2] \in {strings[i].contents : i \in DOMAIN strings}
    BY <1>4, <1>9, <2>1 DEF StringsMissing
  <2> QED
    BY <1>5, <1>9, <2>2 DEF Meant
<1> QED
  BY <1>5, <1>6, <1>7, <1>8, <1>9 DEF ProperWants

LEMMA SameMeaning ==
  ASSUME UNCHANGED <<program, externs, strings, data, offset>>
  PROVE  \A w : /\ Noted(w)' = Noted(w) /\ Meant(w)' = Meant(w)
                /\ Listed(w)' = Listed(w) /\ Straight(w)' = Straight(w)
<1>1. /\ \A name : FuncNamed(name)' = FuncNamed(name) /\ GlobalNamed(name)' = GlobalNamed(name)
      /\ \A name : ExternNamed(name)' = ExternNamed(name)
  BY DEF FuncNamed, GlobalNamed, ExternNamed
<1>2. \A name : FuncOffset(name)' = FuncOffset(name)
  BY <1>1 DEF FuncOffset
<1>3. \A w : Noted(w)' = Noted(w)
  BY <1>1, <1>2 DEF Noted
<1>4. \A w : Meant(w)' = Meant(w)
  BY DEF Meant
<1> QED
  BY <1>2, <1>3, <1>4 DEF Listed, Straight

LEMMA SettledStays ==
  ASSUME NEW f, Settled(f), text \in Nat, text' \in Nat, text' >= text,
         UNCHANGED <<program, externs, strings, data, offset>>,
         \A e \in Entries : e \in Entries',
         \A e \in Entries' : e \in Entries \/ (e[2].at \in Nat /\ e[2].at >= text)
  PROVE  Settled(f)'
<1>1. /\ f = [at |-> f.at, rel |-> f.rel, wants |-> f.wants]
      /\ f.at \in Nat /\ f.at + 4 <= text /\ Meant(f.wants)
  BY DEF Settled
<1>2. /\ Meant(f.wants)' = Meant(f.wants) /\ Listed(f.wants)' = Listed(f.wants)
      /\ Straight(f.wants)' = Straight(f.wants)
  BY SameMeaning
<1>3. \A e \in Entries' : e[2].at = f.at => e \in Entries
  BY <1>1
<1>4. f.at + 4 <= text'
  BY <1>1
<1>5. \/ /\ \A e \in Entries' : e[2].at # f.at
         /\ f.wants[1] \in {"block", "func"} /\ f.rel = Straight(f.wants)' - (f.at + 4)
      \/ /\ f.wants[1] # "block" /\ \E e \in Entries' : e[2].at = f.at
         /\ \A e \in Entries' : e[2].at = f.at => <<e[1], e[2].to>> = Listed(f.wants)'
  <2>1. CASE /\ \A e \in Entries : e[2].at # f.at
             /\ f.wants[1] \in {"block", "func"} /\ f.rel = Straight(f.wants) - (f.at + 4)
    BY <1>2, <1>3, <2>1
  <2>2. CASE /\ f.wants[1] # "block" /\ \E e \in Entries : e[2].at = f.at
             /\ \A e \in Entries : e[2].at = f.at => <<e[1], e[2].to>> = Listed(f.wants)
    BY <1>2, <1>3, <2>2
  <2> QED
    BY <2>1, <2>2 DEF Settled
<1> QED
  BY <1>1, <1>2, <1>4, <1>5 DEF Settled

\* The displacements are settled one by one.
AllSettled ==
  /\ IsSeq(fields) /\ \A k \in 1 .. Len(fields) : Settled(fields[k])
  /\ relocs = [l \in DOMAIN NoRelocs |-> relocs[l]]
  /\ \A l \in DOMAIN relocs : IsSeq(relocs[l])
  /\ \A e \in Entries : e[2].at \in Nat /\ e[2].at + 4 <= text

LEMMA FieldAdded ==
  ASSUME AllSettled, text \in Nat, text' \in Nat, text' >= text,
         UNCHANGED <<program, externs, strings, data, offset>>,
         relocs' = [l \in DOMAIN NoRelocs |-> relocs'[l]], \A l \in DOMAIN relocs' : IsSeq(relocs'[l]),
         \A e \in Entries : e \in Entries',
         \A e \in Entries' : \/ e \in Entries
                             \/ e[2].at \in Nat /\ e[2].at >= text /\ e[2].at + 4 <= text',
         NEW new, IsSeq(new), fields' = fields \o new,
         \A k \in 1 .. Len(new) : Settled(new[k])'
  PROVE  AllSettled'
<1>1. /\ IsSeq(fields') /\ Len(fields') = Len(fields) + Len(new)
      /\ \A k \in 1 .. Len(fields) + Len(new) :
           \/ k \in 1 .. Len(fields)
           \/ k - Len(fields) \in 1 .. Len(new) /\ fields'[k] = new[k - Len(fields)]
      /\ \A k \in 1 .. Len(fields) : fields'[k] = fields[k]
  BY ConcatIsSeq DEF AllSettled
<1>2. ASSUME NEW k \in 1 .. Len(fields'), NEW f, f = fields'[k] PROVE Settled(f)'
  <2>1. CASE k \in 1 .. Len(fields)
    <3>1. Settled(f)
      BY <1>1, <1>2, <2>1 DEF AllSettled
    <3> QED
      BY <3>1, SettledStays
  <2>2. CASE k - Len(fields) \in 1 .. Len(new) /\ fields'[k] = new[k - Len(fields)]
    <3>1. PICK j \in 1 .. Len(new) : f = new[j]
      BY <1>2, <2>2
    <3> QED
      BY <3>1
  <2> QED
    BY <1>1, <2>1, <2>2
<1>3. (\A k \in 1 .. Len(fields) : Settled(fields[k]))'
  <2>1. SUFFICES ASSUME NEW k \in 1 .. Len(fields') PROVE Settled(fields[k])'
    OBVIOUS
  <2>2. PICK f : f = fields'[k]
    OBVIOUS
  <2>3. Settled(f)'
    BY <1>2, <2>2
  <2> QED
    BY <2>2, <2>3 DEF Settled
<1>4. \A e \in Entries' : e[2].at \in Nat /\ e[2].at + 4 <= text'
  BY DEF AllSettled
<1> QED
  BY <1>1, <1>3, <1>4 DEF AllSettled

FieldsInv ==
  (phase = "emit" /\ pass = 1) \/ phase \in {"imports", "tables", "headers", "patch"} =>
    /\ AllSettled
    /\ phase = "emit" => relocs["exit"] = <<>>
    /\ \A s \in DOMAIN strings : strings[s].at \in Nat

\* An instruction of the second pass settles what it refers to.
LEMMA EmitSettles ==
  ASSUME FieldsInv, WalkInv, ExternsInv, StringsInv, TextInv, TextInv', EmitInst, pass = 1
  PROVE  FieldsInv'
<1>1. /\ phase = "emit" /\ phase' = phase /\ pass' = pass /\ cursor # End /\ cursor.i > 0
      /\ UNCHANGED <<program, externs, strings, data, offset>>
  BY DEF EmitInst
<1>2. PICK w, pre : w = InstAt(cursor).wants /\ pre = InstAt(cursor).pre
  OBVIOUS
<1>3. /\ AllSettled /\ relocs["exit"] = <<>> /\ text \in Nat /\ text' \in Nat
      /\ \A s \in DOMAIN strings : strings[s].at \in Nat
  BY <1>1 DEF FieldsInv, TextInv
<1>4. /\ pre \in Nat
      /\ \/ w = <<>>
         \/ w # <<>> /\ w[1] = "block" /\ <<cursor.f, w[2]>> \in BlockIds(program)
         \/ w # <<>> /\ w[1] \in {"func", "name", "string"} /\ Meant(w)
  BY <1>1, <1>2, ReferenceIsMeant
<1>5. PICK at : at = text + pre
  OBVIOUS
<1>6. /\ at \in Nat /\ text <= at
      /\ w = <<>> => text' = at
      /\ w # <<>> => text' = at + 4
  <2>1. text' = text + InstSize(InstAt(cursor), text)
    BY DEF EmitInst
  <2>2. InstSize(InstAt(cursor), text) = pre + (IF w = <<>> THEN 0 ELSE 4)
    BY <1>2 DEF InstSize
  <2>3. text' = text + (pre + (IF w = <<>> THEN 0 ELSE 4))
    BY <2>1, <2>2
  <2>4. at \in Nat /\ text <= at
    BY <1>3, <1>4, <1>5
  <2>5. w = <<>> => text' = at
    <3>1. CASE w = <<>>
      <4>1. text' = text + (pre + 0)
        BY <2>3, <3>1
      <4> QED
        BY <4>1, <1>3, <1>4, <1>5
    <3> QED
      BY <3>1
  <2>6. w # <<>> => text' = at + 4
    <3>1. CASE w # <<>>
      <4>1. text' = text + (pre + 4)
        BY <2>3, <3>1
      <4> QED
        BY <4>1, <1>3, <1>4, <1>5
    <3> QED
      BY <3>1
  <2> QED
    BY <2>4, <2>5, <2>6
<1>7. text' >= text
  BY <1>3, <1>6
<1>8. CASE w = <<>>
  <2>1. UNCHANGED <<fields, relocs>>
    BY <1>2, <1>8 DEF EmitInst
  <2>2. Entries' = Entries
    BY <2>1 DEF Entries
  <2>3. IsSeq(<<>>) /\ Len(<<>>) = 0
    BY DEF IsSeq
  <2>4. fields' = fields \o <<>>
    <3>1. fields \in Seq(ToSet(fields))
      BY <1>3, SeqOfItself DEF AllSettled
    <3> QED
      BY <2>1, <3>1, ConcatEmptySeq
  <2>5. AllSettled'
    <3>1. PICK none : none = <<>>
      OBVIOUS
    <3>2. IsSeq(none) /\ fields' = fields \o none /\ \A k \in 1 .. Len(none) : Settled(none[k])'
      BY <2>3, <2>4, <3>1
    <3>3. /\ relocs' = [l \in DOMAIN NoRelocs |-> relocs'[l]]
          /\ \A l \in DOMAIN relocs' : IsSeq(relocs'[l])
      BY <1>3, <2>1 DEF AllSettled
    <3>4. /\ \A e \in Entries : e \in Entries'
          /\ \A e \in Entries' : e \in Entries
      BY <2>2
    <3> QED
      BY <1>1, <1>3, <1>7, <3>2, <3>3, <3>4, FieldAdded
  <2> QED
    BY <1>1, <1>3, <2>1, <2>5 DEF FieldsInv
<1>9. CASE w # <<>> /\ w[1] = "block"
  <2>1. PICK x : x = [at |-> at, rel |-> offset[<<cursor.f, w[2]>>] - text',
                      wants |-> <<"block", cursor.f, w[2]>>]
    OBVIOUS
  <2>2. fields' = Append(fields, x) /\ relocs' = relocs
    BY <1>2, <1>5, <1>6, <1>9, <2>1 DEF EmitInst, InstSize
  <2>3. Entries' = Entries
    BY <2>2 DEF Entries
  <2>4. /\ x = [at |-> x.at, rel |-> x.rel, wants |-> x.wants] /\ x.at = at
        /\ x.wants = <<"block", cursor.f, w[2]>>
        /\ x.rel = offset[<<cursor.f, w[2]>>] - text'
    BY <2>1
  <2>5. Meant(x.wants)' /\ Straight(x.wants)' = offset[<<cursor.f, w[2]>>]
    <3>1. Meant(x.wants) /\ Straight(x.wants) = offset[<<cursor.f, w[2]>>]
      BY <1>4, <1>9, <2>4 DEF Meant, Straight
    <3> QED
      BY <1>1, <3>1, SameMeaning
  <2>6. \A e \in Entries' : e[2].at # x.at
    BY <1>3, <1>6, <2>3, <2>4 DEF AllSettled
  <2>7. x.rel = Straight(x.wants)' - (x.at + 4)
    BY <1>6, <1>9, <2>4, <2>5
  <2>8. Settled(x)'
    BY <1>6, <1>9, <2>4, <2>5, <2>6, <2>7 DEF Settled
  <2>9. IsSeq(<<x>>) /\ Len(<<x>>) = 1 /\ fields' = fields \o <<x>>
    BY <1>3, <2>2, OneOrThree, AppendedOne DEF AllSettled
  <2>10. \A k \in 1 .. Len(<<x>>) : Settled(<<x>>[k])'
    BY <2>8, <2>9
  <2>11. AllSettled'
    BY <1>1, <1>3, <1>7, <2>2, <2>3, <2>9, <2>10, FieldAdded DEF AllSettled
  <2> QED
    BY <1>1, <1>3, <2>2, <2>11 DEF FieldsInv
<1>10. CASE w # <<>> /\ w[1] \in {"func", "name", "string"}
  <2>1. PICK x, list, y : /\ x = [at |-> at, rel |-> 0, wants |-> w] /\ list = Noted(w)[1]
                          /\ y = [at |-> at, to |-> Noted(w)[2]]
    OBVIOUS
  <2>2. fields' = Append(fields, x) /\ relocs' = [relocs EXCEPT ![list] = Append(@, y)]
    BY <1>2, <1>5, <1>10, <2>1 DEF EmitInst
  <2>3. list \in {"data", "func", "string", "extern"} /\ Noted(w) = <<list, y.to>>
        /\ y.at = at
    BY <1>10, <2>1, NotedIsEntry
  <2>4. list \in DOMAIN NoRelocs /\ list # "exit" /\ "exit" \in DOMAIN NoRelocs
    BY <2>3 DEF NoRelocs
  <2>5. /\ relocs' = [l \in DOMAIN NoRelocs |-> relocs'[l]]
        /\ \A l \in DOMAIN relocs' : IsSeq(relocs'[l])
    BY <1>3, <2>2, <2>4, EntriesGrow DEF AllSettled
  <2>6. \A l \in DOMAIN NoRelocs : l # list => relocs'[l] = relocs[l]
    BY <1>3, <2>2, <2>4, EntriesGrow DEF AllSettled
  <2>7. \A e : e \in Entries' <=> e \in Entries \/ e = <<list, y>>
    BY <1>3, <2>2, <2>4, EntriesGrow DEF AllSettled
  <2>8. \A e \in Entries' : e \in Entries \/ (e[2].at \in Nat /\ e[2].at >= text /\ e[2].at + 4 <= text')
    BY <1>6, <1>10, <2>3, <2>7
  <2>9. x = [at |-> x.at, rel |-> x.rel, wants |-> x.wants] /\ x.at = at /\ x.wants = w
    BY <2>1
  <2>10. Meant(x.wants)' /\ Listed(x.wants)' = <<list, y.to>>
    <3>1. Meant(x.wants) /\ Listed(x.wants) = <<list, y.to>>
      BY <1>4, <1>10, <2>3, <2>9 DEF Listed
    <3> QED
      BY <1>1, <3>1, SameMeaning
  <2>11. \E e \in Entries' : e[2].at = x.at
    <3>1. PICK e : e = <<list, y>>
      OBVIOUS
    <3> QED
      BY <2>3, <2>7, <2>9, <3>1
  <2>12. \A e \in Entries' : e[2].at = x.at => <<e[1], e[2].to>> = Listed(x.wants)'
    <3>1. SUFFICES ASSUME NEW e \in Entries', e[2].at = at
                   PROVE  e[1] = list /\ e[2].to = y.to
      BY <2>9, <2>10
    <3>2. e \notin Entries
      BY <1>3, <1>6, <3>1 DEF AllSettled
    <3>3. e = <<list, y>>
      BY <2>7, <3>1, <3>2
    <3> QED
      BY <3>3
  <2>13. Settled(x)'
    BY <1>6, <1>10, <2>9, <2>10, <2>11, <2>12 DEF Settled
  <2>14. IsSeq(<<x>>) /\ Len(<<x>>) = 1 /\ fields' = fields \o <<x>>
    BY <1>3, <2>2, OneOrThree, AppendedOne DEF AllSettled
  <2>15. \A k \in 1 .. Len(<<x>>) : Settled(<<x>>[k])'
    BY <2>13, <2>14
  <2>16. AllSettled'
    BY <1>1, <1>3, <1>7, <2>5, <2>7, <2>8, <2>14, <2>15, FieldAdded
  <2> QED
    BY <1>1, <1>3, <2>4, <2>6, <2>16 DEF FieldsInv
<1> QED
  BY <1>4, <1>8, <1>9, <1>10

\* The second pass begins with nothing noted.
LEMMA SecondPassBegins ==
  ASSUME StringsInv, EmitStart, pass = 0
  PROVE  FieldsInv'
<1>1. /\ phase = "emit" /\ fields' = <<>> /\ relocs' = NoRelocs /\ strings' = strings
  BY DEF EmitStart
<1>2. \A s \in DOMAIN strings : strings[s].at \in Nat
  <2>1. /\ Tiles(rdata) /\ Len(strings) = Len(rdata) /\ IsSeq(strings)
        /\ \A s \in 1 .. Len(rdata) : rdata[s].at = strings[s].at
    BY <1>1 DEF StringsInv, BeforeJoin
  <2>2. DOMAIN strings = 1 .. Len(strings)
    BY <2>1, SeqOfItself
  <2> QED
    BY <2>1, <2>2 DEF Tiles
<1>3. IsSeq(<<>>) /\ Len(<<>>) = 0 /\ ToSet(<<>>) = {}
  BY DEF IsSeq, ToSet
<1>4. \A l \in DOMAIN NoRelocs : NoRelocs[l] = <<>>
  BY DEF NoRelocs
<1>5. NoRelocs = [l \in DOMAIN NoRelocs |-> NoRelocs[l]]
  BY DEF NoRelocs
<1>6. \A l \in DOMAIN relocs' : IsSeq(relocs'[l])
  BY <1>1, <1>3, <1>4
<1>7. Entries' = {}
  BY <1>1, <1>3, <1>4 DEF Entries
<1>8. AllSettled'
  <2>1. IsSeq(fields') /\ \A k \in 1 .. Len(fields') : FALSE
    BY <1>1, <1>3
  <2> QED
    BY <1>1, <1>5, <1>6, <1>7, <2>1 DEF AllSettled
<1>9. relocs'["exit"] = <<>>
  BY <1>1, <1>4 DEF NoRelocs
<1> QED
  BY <1>1, <1>2, <1>8, <1>9 DEF FieldsInv

\* The stub settles its two calls and leaves the third to the linker.
LEMMA StubSettles ==
  ASSUME FieldsInv, WalkInv, ExternsInv, TextInv, EmitStart, pass = 1
  PROVE  FieldsInv'
<1>1. /\ phase = "emit" /\ phase' = "imports" /\ text' = text + 43
      /\ UNCHANGED <<program, externs, strings, data, offset>>
  BY DEF EmitStart
<1>2. /\ AllSettled /\ relocs["exit"] = <<>> /\ text \in Nat
      /\ \A s \in DOMAIN strings : strings[s].at \in Nat
  BY <1>1 DEF FieldsInv, TextInv
<1>3. PICK y : y = [at |-> text + 39, to |-> 0]
  OBVIOUS
<1>4. PICK initial, princeps, exit :
        /\ initial = [at |-> text + 15, rel |-> FuncOffset("__scorivm_init") - (text + 19),
                      wants |-> <<"func", "__scorivm_init">>]
        /\ princeps = [at |-> text + 30, rel |-> FuncOffset("princeps") - (text + 34),
                       wants |-> <<"func", "princeps">>]
        /\ exit = [at |-> text + 39, rel |-> 0, wants |-> <<"exit">>]
  OBVIOUS
<1>5. PICK new : new = <<initial, princeps, exit>>
  OBVIOUS
<1>6. fields' = fields \o new /\ relocs' = [relocs EXCEPT !["exit"] = <<y>>]
  <2>0. pass # 0
    OBVIOUS
  <2>1. fields' = fields \o
          <<[at |-> text + 15, wants |-> <<"func", "__scorivm_init">>,
             rel |-> FuncOffset("__scorivm_init") - (text + 19)],
            [at |-> text + 30, wants |-> <<"func", "princeps">>,
             rel |-> FuncOffset("princeps") - (text + 34)],
            [at |-> text + 39, wants |-> <<"exit">>, rel |-> 0]>>
    BY <2>0, Zenon DEF EmitStart
  <2>2. relocs' = [relocs EXCEPT !["exit"] = <<y>>]
    BY <1>3 DEF EmitStart
  <2> QED
    BY <1>4, <1>5, <2>1, <2>2
<1>7. relocs["exit"] = <<>> /\ "exit" \in DOMAIN NoRelocs /\ Append(<<>>, y) = <<y>>
  BY <1>2 DEF NoRelocs
<1>8. relocs' = [relocs EXCEPT !["exit"] = Append(@, y)]
  BY <1>6, <1>7
<1>9. /\ relocs' = [l \in DOMAIN NoRelocs |-> relocs'[l]]
      /\ \A l \in DOMAIN relocs' : IsSeq(relocs'[l])
  BY <1>2, <1>7, <1>8, EntriesGrow DEF AllSettled
<1>10. \A e : e \in Entries' <=> e \in Entries \/ e = <<"exit", y>>
  BY <1>2, <1>7, <1>8, EntriesGrow DEF AllSettled
<1>11. y.at = text + 39 /\ y.to = 0
  BY <1>3
<1>12. \A e \in Entries : e[2].at \in Nat /\ e[2].at + 4 <= text
  BY <1>2 DEF AllSettled
<1>13. \A e \in Entries' : \/ e \in Entries
                           \/ e[2].at \in Nat /\ e[2].at >= text /\ e[2].at + 4 <= text'
  BY <1>1, <1>2, <1>10, <1>11
<1>14. ASSUME NEW f, NEW k \in {15, 30}, NEW name \in {"__scorivm_init", "princeps"},
              f = [at |-> text + k, rel |-> FuncOffset(name) - (text + k + 4),
                   wants |-> <<"func", name>>]
       PROVE  Settled(f)'
  <2>1. /\ f = [at |-> f.at, rel |-> f.rel, wants |-> f.wants] /\ f.at = text + k
        /\ f.wants = <<"func", name>> /\ f.rel = FuncOffset(name) - (text + k + 4)
    BY <1>14
  <2>2. Meant(f.wants)' /\ Straight(f.wants)' = FuncOffset(name)
    <3>1. Meant(f.wants) /\ Straight(f.wants) = FuncOffset(name)
      BY <1>1, <2>1, NamesApart DEF Meant, Straight
    <3> QED
      BY <1>1, <3>1, SameMeaning
  <2>3. \A e \in Entries' : e[2].at # f.at
    BY <1>2, <1>10, <1>11, <1>12, <2>1
  <2>4. f.at \in Nat /\ f.at + 4 <= text' /\ f.rel = Straight(f.wants)' - (f.at + 4)
    BY <1>1, <1>2, <2>1, <2>2
  <2>5. f.wants[1] \in {"block", "func"}
    BY <2>1
  <2> QED
    BY <2>1, <2>2, <2>3, <2>4, <2>5 DEF Settled
<1>15. Settled(initial)' /\ Settled(princeps)'
  <2>1. text + 15 + 4 = text + 19 /\ text + 30 + 4 = text + 34
    BY <1>2
  <2> QED
    BY <1>4, <1>14, <2>1
<1>16. Settled(exit)'
  <2>1. /\ exit = [at |-> exit.at, rel |-> exit.rel, wants |-> exit.wants] /\ exit.at = text + 39
        /\ exit.wants = <<"exit">>
    BY <1>4
  <2>2. Meant(exit.wants)' /\ Listed(exit.wants)' = <<"exit", 0>>
    BY <2>1 DEF Meant, Listed
  <2>3. \E e \in Entries' : e[2].at = exit.at
    <3>1. PICK e : e = <<"exit", y>>
      OBVIOUS
    <3> QED
      BY <1>10, <1>11, <2>1, <3>1
  <2>4. \A e \in Entries' : e[2].at = exit.at => <<e[1], e[2].to>> = Listed(exit.wants)'
    <3>1. SUFFICES ASSUME NEW e \in Entries', e[2].at = text + 39
                   PROVE  e[1] = "exit" /\ e[2].to = 0
      BY <2>1, <2>2
    <3>2. e \notin Entries
      BY <1>2, <1>12, <3>1
    <3>3. e = <<"exit", y>>
      BY <1>10, <3>1, <3>2
    <3> QED
      BY <1>11, <3>3
  <2>5. exit.at \in Nat /\ exit.at + 4 <= text'
    BY <1>1, <1>2, <2>1
  <2> QED
    BY <2>1, <2>2, <2>3, <2>4, <2>5 DEF Settled
<1>17. IsSeq(new) /\ Len(new) = 3 /\ \A k \in 1 .. Len(new) : Settled(new[k])'
  <2>1. IsSeq(new) /\ Len(new) = 3
    BY <1>5, OneOrThree
  <2>2. \A k \in 1 .. 3 : new[k] = initial \/ new[k] = princeps \/ new[k] = exit
    BY <1>5
  <2> QED
    BY <1>15, <1>16, <2>1, <2>2
<1>18. \A e \in Entries : e \in Entries'
  BY <1>10
<1>19. AllSettled'
  <2>1. text' \in Nat /\ text' >= text
    BY <1>1, <1>2
  <2> QED
    BY <1>1, <1>2, <1>6, <1>9, <1>13, <1>17, <1>18, <2>1, FieldAdded
<1> QED
  BY <1>1, <1>2, <1>19 DEF FieldsInv

LEMMA StepKeepsFields ==
  MadeInv /\ FieldsInv /\ [Next]_vars => FieldsInv'
<1> SUFFICES ASSUME MadeInv, FieldsInv, [Next]_vars PROVE FieldsInv'
  OBVIOUS
<1>1. /\ WalkInv /\ ExternsInv /\ StringsInv /\ TextInv
  BY DEF MadeInv
<1>2. CASE EmitStart
  <2>1. pass \in {0, 1}
    BY <1>1, <1>2 DEF WalkInv, EmitStart
  <2> QED
    BY <1>1, <1>2, <2>1, SecondPassBegins, StubSettles
<1>3. CASE EmitInst
  <2>1. phase = "emit" /\ pass' = pass /\ phase' = phase /\ pass \in {0, 1}
    BY <1>1, <1>3 DEF WalkInv, EmitInst
  <2>2. TextInv'
    BY <1>1, <1>3, StepKeepsText DEF Next
  <2>3. CASE pass = 0
    BY <2>1, <2>3 DEF FieldsInv
  <2>4. CASE pass = 1
    BY <1>1, <1>3, <2>2, <2>4, EmitSettles
  <2> QED
    BY <2>1, <2>3, <2>4
<1>4. CASE BeginBlock
  <2>1. /\ phase = "emit" /\ phase' = phase /\ pass' = pass /\ pass \in {0, 1}
        /\ UNCHANGED <<program, externs, strings, data, fields, relocs>>
        /\ text' = AlignUp(text, 16)
    BY <1>1, <1>4 DEF WalkInv, BeginBlock
  <2>2. text \in Nat /\ text' \in Nat /\ text' >= text
    BY <1>1, <2>1, AlignUpNat DEF TextInv
  <2>3. CASE pass = 0
    BY <2>1, <2>3 DEF FieldsInv
  <2>4. CASE pass = 1
    <3>1. offset' = offset
      BY <1>1, <1>4, <2>4, EmitKeeps
    <3>2. AllSettled /\ Entries' = Entries
      BY <2>1, <2>4 DEF FieldsInv, Entries
    <3>3. ASSUME NEW k \in 1 .. Len(fields'), NEW f, f = fields'[k] PROVE Settled(f)'
      <4>1. Settled(f)
        BY <2>1, <3>2, <3>3 DEF AllSettled
      <4> QED
        BY <2>1, <2>2, <3>1, <3>2, <4>1, SettledStays
    <3>4. (\A k \in 1 .. Len(fields) : Settled(fields[k]))'
      <4>1. SUFFICES ASSUME NEW k \in 1 .. Len(fields') PROVE Settled(fields[k])'
        OBVIOUS
      <4>2. PICK f : f = fields'[k]
        OBVIOUS
      <4>3. Settled(f)'
        BY <3>3, <4>2
      <4> QED
        BY <4>2, <4>3 DEF Settled
    <3>5. \A e \in Entries : e[2].at \in Nat /\ e[2].at + 4 <= text'
      BY <2>2, <3>2 DEF AllSettled
    <3>6. AllSettled'
      BY <2>1, <3>2, <3>4, <3>5 DEF AllSettled
    <3> QED
      BY <2>1, <2>4, <3>6 DEF FieldsInv
  <2> QED
    BY <2>1, <2>3, <2>4
<1>5. CASE \/ AddImport \/ AllotPiece \/ JoinTables \/ LayOut \/ Finished \/ UNCHANGED vars
  <2>1. /\ UNCHANGED <<program, pass, externs, strings, data, offset, text, fields, relocs>>
        /\ \/ phase' = phase
           \/ phase \in {"imports", "tables", "headers"} /\ phase' \in {"tables", "headers", "patch"}
    <3>1. CASE AddImport
      BY <3>1 DEF AddImport
    <3>2. CASE AllotPiece
      BY <3>2 DEF AllotPiece
    <3>3. CASE JoinTables
      BY <3>3 DEF JoinTables, importVars
    <3>4. CASE LayOut
      BY <3>4 DEF LayOut
    <3>5. CASE Finished \/ UNCHANGED vars
      BY <3>5 DEF Finished, vars
    <3> QED
      BY <1>5, <3>1, <3>2, <3>3, <3>4, <3>5
  <2>2. Entries' = Entries /\ NoRelocs' = NoRelocs
    BY <2>1 DEF Entries, NoRelocs
  <2>3. \A f : Settled(f)' = Settled(f)
    BY <2>1, <2>2, SameMeaning DEF Settled
  <2>4. AllSettled => AllSettled'
    <3>1. SUFFICES ASSUME AllSettled PROVE AllSettled'
      OBVIOUS
    <3>2. (\A k \in 1 .. Len(fields) : Settled(fields[k]))'
      <4>1. SUFFICES ASSUME NEW k \in 1 .. Len(fields') PROVE Settled(fields[k])'
        OBVIOUS
      <4>2. PICK f : f = fields'[k]
        OBVIOUS
      <4>3. Settled(f)'
        BY <2>1, <2>3, <3>1, <4>2 DEF AllSettled
      <4> QED
        BY <4>2, <4>3 DEF Settled
    <3> QED
      BY <2>1, <2>2, <3>1, <3>2 DEF AllSettled
  <2> QED
    BY <2>1, <2>4 DEF FieldsInv
<1>6. CASE AddSysExtern \/ PlaceGlobal \/ CollectString \/ Patch
  <2>1. /\ phase' \notin {"imports", "tables", "headers", "patch"}
        /\ phase' = "emit" => pass' = 0
    <3>1. CASE AddSysExtern \/ PlaceGlobal \/ Patch
      BY <3>1 DEF AddSysExtern, PlaceGlobal, Patch
    <3>2. CASE CollectString
      BY <1>1, <3>2 DEF CollectString, WalkInv
    <3> QED
      BY <1>6, <3>1, <3>2
  <2> QED
    BY <2>1 DEF FieldsInv
<1> QED
  BY <1>2, <1>3, <1>4, <1>5, <1>6 DEF Next

-----------------------------------------------------------------------------
(* What Windows makes of the tables. *)

LEMMA PieceIsHeld ==
  ASSUME Joined, RdataVA \in Nat, NEW k, NEW d, NEW j, IsPiece(k, d, j)
  PROVE  /\ RvaOf(k, d, j) \in Nat /\ RvaOf(k, d, j) >= RdataVA
         /\ HeldAt(RvaOf(k, d, j), k) = Held(k, d, j)
         /\ Holds(RvaOf(k, d, j), k, Held(k, d, j))
<1>1. <<k, d, j>> \in DOMAIN places /\ places[<<k, d, j>>] \in Nat
  BY DEF Joined
<1>2. PICK i \in 1 .. Len(rdata) : /\ rdata[i].kind = k /\ rdata[i].at = places[<<k, d, j>>]
                                   /\ rdata[i].holds = Held(k, d, j)
  BY DEF Joined
<1>3. PICK rva : rva = RvaOf(k, d, j)
  OBVIOUS
<1>4. rva = RdataVA + places[<<k, d, j>>]
  BY <1>3 DEF RvaOf
<1>5. rva \in Nat /\ rva >= RdataVA
  BY <1>1, <1>4
<1>6. /\ Len(rdata) \in Nat /\ DOMAIN rdata = 1 .. Len(rdata)
      /\ \A m \in 1 .. Len(rdata) : rdata[m].at \in Nat /\ rdata[m].size \in Nat
      /\ \A m, n \in 1 .. Len(rdata) : m < n => rdata[m].at + rdata[m].size <= rdata[n].at
      /\ \A m \in 1 .. Len(rdata) : rdata[m].kind \in Kinds => rdata[m].size > 0
  <2>1. Tiles(rdata) /\ IsSeq(rdata)
    BY DEF Joined, Tiles
  <2> QED
    BY <2>1, SeqOfItself DEF Joined, Tiles
<1>7. rdata[i] \in RdataAt(rva) /\ rdata[i].kind = k
  BY <1>2, <1>4, <1>6 DEF RdataAt
<1>8. ASSUME NEW p \in RdataAt(rva), p.kind = k PROVE p = rdata[i]
  <2>1. PICK m \in 1 .. Len(rdata) : RdataVA + rdata[m].at = rva /\ p = rdata[m]
    BY <1>6, <1>8 DEF RdataAt
  <2>2. rdata[m].at = rdata[i].at
    BY <1>1, <1>2, <1>4, <1>6, <2>1
  <2>3. rdata[m].size > 0 /\ rdata[i].size > 0
    BY <1>2, <1>6, <1>8, <2>1 DEF IsPiece
  <2>4. ~(m < i) /\ ~(i < m)
    BY <1>6, <2>2, <2>3
  <2>5. m = i
    BY <2>4
  <2> QED
    BY <2>1, <2>5
<1>9. (CHOOSE p \in RdataAt(rva) : p.kind = k) = rdata[i]
  BY <1>7, <1>8
<1>10. HeldAt(rva, k) = Held(k, d, j)
  BY <1>2, <1>9 DEF HeldAt
<1>11. Holds(rva, k, Held(k, d, j))
  BY <1>2, <1>7 DEF Holds
<1> QED
  BY <1>3, <1>5, <1>10, <1>11

LEMMA AlongARow ==
  ASSUME Joined, RdataVA \in Nat, NEW k, NEW d \in Nat, NEW j \in Nat, IsPiece(k, d, j),
         Rows(k) \in Nat, Columns(k, d) \in Nat
  PROVE  /\ k \in {"iat", "int"} => RvaOf(k, d, 1) + 8 * (j - 1) = RvaOf(k, d, j)
         /\ k = "dir" /\ j = 1 => RvaOf(k, 1, 1) + 20 * (d - 1) = RvaOf(k, d, 1)
<1>1. PICK p : p = <<k, d, j>>
  OBVIOUS
<1>2. p \in DOMAIN places /\ RowsOf(places) /\ p[1] = k /\ p[2] = d /\ p[3] = j
  BY <1>1 DEF Joined
<1>3. CASE k \in {"iat", "int"}
  <2>1. <<k, d, 1>> \in DOMAIN places /\ places[p] = places[<<k, d, 1>>] + 8 * (j - 1)
    BY <1>2, <1>3 DEF RowsOf
  <2>2. places[<<k, d, 1>>] \in Nat
    <3>1. 1 \in 1 .. Columns(k, d)
      BY DEF IsPiece
    <3>2. IsPiece(k, d, 1)
      BY <3>1 DEF IsPiece
    <3> QED
      BY <3>2 DEF Joined
  <2>3. k # "dir"
    BY <1>3
  <2>4. RvaOf(k, d, 1) = RdataVA + places[<<k, d, 1>>] /\ RvaOf(k, d, j) = RdataVA + places[p]
    BY <1>1 DEF RvaOf
  <2>5. RvaOf(k, d, 1) + 8 * (j - 1) = RvaOf(k, d, j)
    BY <2>1, <2>2, <2>4
  <2> QED
    BY <2>3, <2>5
<1>4. CASE k = "dir" /\ j = 1
  <2>1. <<"dir", 1, 1>> \in DOMAIN places /\ places[p] = places[<<"dir", 1, 1>>] + 20 * (d - 1)
    BY <1>2, <1>4 DEF RowsOf
  <2>2. places[<<"dir", 1, 1>>] \in Nat
    <3>1. 1 \in 1 .. Rows("dir") /\ Columns("dir", 1) = 1
      BY <1>4 DEF IsPiece, Columns
    <3>2. IsPiece("dir", 1, 1)
      BY <3>1 DEF IsPiece, Kinds
    <3> QED
      BY <3>2 DEF Joined
  <2>3. RvaOf("dir", 1, 1) = RdataVA + places[<<"dir", 1, 1>>] /\ RvaOf("dir", d, 1) = RdataVA + places[p]
    BY <1>1, <1>4 DEF RvaOf
  <2>4. RvaOf("dir", 1, 1) + 20 * (d - 1) = RvaOf("dir", d, 1)
    BY <2>1, <2>2, <2>3
  <2> QED
    BY <1>4, <2>4
<1>5. CASE k \notin {"iat", "int"} /\ ~(k = "dir" /\ j = 1)
  BY <1>5
<1> QED
  BY <1>3, <1>4, <1>5

\* The slot looked up for a function is that of its name under its DLL.
LEMMA SlotIsFound ==
  ASSUME NEW n \in Nat, TableShape(dlls, n), NEW extern, InTable(dlls, extern)
  PROVE  \E d \in 1 .. Len(dlls) : \E j \in 1 .. Len(dlls[d].funcs) :
           /\ Caseless[dlls[d].name] = Caseless[extern.dll]
           /\ dlls[d].funcs[j] = extern.name
           /\ SlotOf(extern) = RvaOf("iat", d, j)
<1>1. /\ Len(dlls) \in Nat /\ DOMAIN dlls = 1 .. Len(dlls)
      /\ \A d \in 1 .. Len(dlls) : IsSeq(dlls[d].funcs)
  BY SeqOfItself DEF TableShape
<1>2. \A d \in 1 .. Len(dlls) : DOMAIN dlls[d].funcs = 1 .. Len(dlls[d].funcs)
  BY <1>1, SeqOfItself
<1> DEFINE D == {e \in DOMAIN dlls : /\ Caseless[dlls[e].name] = Caseless[extern.dll]
                                     /\ Contains(dlls[e].funcs, extern.name)}
<1>3. PICK d : d = First(D)
  OBVIOUS
<1>4. D # {} /\ D \subseteq Nat \ {0}
  <2>1. D \subseteq Nat \ {0}
    BY <1>1
  <2>2. PICK e \in DOMAIN dlls : /\ Caseless[dlls[e].name] = Caseless[extern.dll]
                                 /\ \E i \in DOMAIN dlls[e].funcs : dlls[e].funcs[i] = extern.name
    BY DEF InTable
  <2>3. e \in D
    BY <1>1, <1>2, <2>2 DEF Contains
  <2> QED
    BY <2>1, <2>3
<1>5. d \in D /\ d # 0
  BY <1>3, <1>4, FirstIsOne
<1>6. /\ d \in 1 .. Len(dlls) /\ Caseless[dlls[d].name] = Caseless[extern.dll]
      /\ \E i \in 1 .. Len(dlls[d].funcs) : dlls[d].funcs[i] = extern.name
  BY <1>1, <1>5 DEF Contains
<1> DEFINE J == {k \in DOMAIN dlls[d].funcs : dlls[d].funcs[k] = extern.name}
<1>7. PICK j : j = First(J)
  OBVIOUS
<1>8. J # {} /\ J \subseteq Nat \ {0}
  BY <1>2, <1>6
<1>9. j \in J
  BY <1>7, <1>8, FirstIsOne
<1>10. j \in 1 .. Len(dlls[d].funcs) /\ dlls[d].funcs[j] = extern.name
  BY <1>2, <1>6, <1>9
<1>11. SlotOf(extern) = RdataVA + (IF d = 0 THEN 0 ELSE places[<<"iat", d, j>>])
  BY <1>3, <1>7 DEF SlotOf
<1>12. SlotOf(extern) = RvaOf("iat", d, j)
  BY <1>5, <1>11 DEF RvaOf
<1> QED
  BY <1>6, <1>10, <1>12

\* Windows binds a function that is in the table to the slot that is looked up for it.
LEMMA BoundHolds ==
  ASSUME NEW n \in Nat, TableShape(dlls, n + 1), n = Len(externs), Len(dlls) > 0, Joined,
         RdataVA \in Nat \ {0}, NEW extern, InTable(dlls, extern)
  PROVE  Bound(SlotOf(extern), extern) /\ SlotOf(extern) \in Nat
<1>1. n + 1 \in Nat
  OBVIOUS
<1>2. PICK d \in 1 .. Len(dlls) : \E j \in 1 .. Len(dlls[d].funcs) :
        /\ Caseless[dlls[d].name] = Caseless[extern.dll]
        /\ dlls[d].funcs[j] = extern.name
        /\ SlotOf(extern) = RvaOf("iat", d, j)
  BY <1>1, SlotIsFound
<1>3. PICK j \in 1 .. Len(dlls[d].funcs) :
        /\ Caseless[dlls[d].name] = Caseless[extern.dll]
        /\ dlls[d].funcs[j] = extern.name
        /\ SlotOf(extern) = RvaOf("iat", d, j)
  BY <1>2
<1>4. /\ \A k \in Kinds : Rows(k) \in Nat
      /\ \A k \in Kinds : \A e \in 1 .. Rows(k) : Columns(k, e) \in Nat
      /\ Len(dlls) \in Nat /\ Len(dlls[d].funcs) \in Nat
  BY <1>1, RowsAndColumns
<1>5. Len(dlls[d].funcs) <= n + 1
  <2>1. Len(dlls[d].funcs) \in 1 .. n + 1
    BY <1>1, RowsAndColumns DEF TableShape
  <2> QED
    BY <1>1, <1>4, <2>1
<1>6. d \in Nat /\ j \in Nat /\ d >= 1 /\ j >= 1 /\ d <= Len(dlls) /\ j <= Len(dlls[d].funcs)
  BY <1>4
\* Which pieces there are.
<1>7. /\ \A e \in 1 .. Len(dlls) : IsPiece("dir", e, 1) /\ IsPiece("int", e, 1) /\ IsPiece("dll", e, 1)
      /\ \A i \in 1 .. Len(dlls[d].funcs) : IsPiece("int", d, i) /\ IsPiece("hint", d, i)
      /\ IsPiece("iat", d, j) /\ IsPiece("iat", d, 1)
  <2>1. /\ \A e \in 1 .. Len(dlls) : Len(dlls[e].funcs) \in Nat
        /\ \A e : Columns("dir", e) = 1 /\ Columns("dll", e) = 1 /\ Columns("hint", e) = Len(dlls[e].funcs)
        /\ \A e : Columns("int", e) = Len(dlls[e].funcs) + 1 /\ Columns("iat", e) = Len(dlls[e].funcs) + 1
        /\ Rows("dir") = Len(dlls) + 1 /\ Rows("dll") = Len(dlls) /\ Rows("hint") = Len(dlls)
        /\ Rows("int") = Len(dlls) /\ Rows("iat") = Len(dlls)
    BY <1>1, RowsAndColumns DEF Rows, Columns
  <2>2. PICK l : l = Len(dlls[d].funcs)
    OBVIOUS
  <2>3. 1 \in 1 .. 1 /\ \A e \in 1 .. Len(dlls) : e \in 1 .. Len(dlls) + 1
    BY <1>4
  <2>4. \A e \in 1 .. Len(dlls) : 1 \in 1 .. Len(dlls[e].funcs) + 1
    BY <2>1
  <2>5. \A i \in 1 .. Len(dlls[d].funcs) : i \in 1 .. Len(dlls[d].funcs) + 1
    BY <1>4
  <2>6. \A e \in 1 .. Len(dlls) : IsPiece("dir", e, 1)
    BY <2>1, <2>3 DEF IsPiece, Kinds
  <2>7. \A e \in 1 .. Len(dlls) : IsPiece("int", e, 1)
    BY <2>1, <2>4 DEF IsPiece, Kinds
  <2>8. \A e \in 1 .. Len(dlls) : IsPiece("dll", e, 1)
    BY <2>1, <2>3 DEF IsPiece, Kinds
  <2>9. \A i \in 1 .. Len(dlls[d].funcs) : IsPiece("int", d, i) /\ IsPiece("hint", d, i)
    BY <2>1, <2>5 DEF IsPiece, Kinds
  <2>10. IsPiece("iat", d, j) /\ IsPiece("iat", d, 1)
    BY <2>1, <2>4, <2>5 DEF IsPiece, Kinds
  <2> QED
    BY <2>6, <2>7, <2>8, <2>9, <2>10
<1>8. PICK rva : rva = RdataVA
  OBVIOUS
<1>9. rva \in Nat \ {0}
  BY <1>8
\* The directory down to the entry of the DLL.
<1>10. ASSUME NEW m \in 1 .. Len(dlls), NEW e \in Nat, m = e + 1
       PROVE  LET entry == HeldAt(Directory + 20 * e, "dir")
              IN  /\ entry.names = RvaOf("int", m, 1) /\ entry.dll = RvaOf("dll", m, 1)
                  /\ entry.slots = RvaOf("iat", m, 1)
  <2>1. m \in Nat /\ m - 1 = e /\ 1 \in Nat /\ m <= Len(dlls)
    BY <1>4, <1>10
  <2>2. IsPiece("dir", m, 1) /\ "dir" \in Kinds /\ m \in 1 .. Rows("dir")
    BY <1>7 DEF IsPiece
  <2>3. RvaOf("dir", 1, 1) + 20 * (m - 1) = RvaOf("dir", m, 1)
    BY <1>4, <2>1, <2>2, AlongARow
  <2>4. Directory + 20 * e = RvaOf("dir", m, 1)
    BY <2>1, <2>3 DEF Directory
  <2>5. HeldAt(RvaOf("dir", m, 1), "dir") = Held("dir", m, 1)
    BY <2>2, PieceIsHeld
  <2>6. Held("dir", m, 1) = [names |-> RvaOf("int", m, 1), dll |-> RvaOf("dll", m, 1),
                             slots |-> RvaOf("iat", m, 1)]
    BY <2>1 DEF Held
  <2> QED
    BY <2>4, <2>5, <2>6
<1>11. \A e \in 1 .. Len(dlls) : RvaOf("int", e, 1) \in Nat /\ RvaOf("int", e, 1) # 0
  <2>1. SUFFICES ASSUME NEW e \in 1 .. Len(dlls)
                 PROVE  RvaOf("int", e, 1) \in Nat /\ RvaOf("int", e, 1) # 0
    OBVIOUS
  <2>2. RvaOf("int", e, 1) \in Nat /\ RvaOf("int", e, 1) >= rva
    BY <1>7, <1>8, PieceIsHeld
  <2> QED
    BY <1>9, <2>2
<1>12. PICK d0, j0 : d0 = d - 1 /\ j0 = j - 1
  OBVIOUS
<1>13. /\ d0 \in 0 .. Len(dlls) /\ j0 \in 0 .. Len(externs) /\ d0 \in 0 .. Len(dlls) - 1
       /\ d0 + 1 = d /\ j0 + 1 = j /\ d0 \in Nat /\ j0 \in Nat
  BY <1>4, <1>5, <1>6, <1>12
<1>14. PICK entry : entry = HeldAt(Directory + 20 * d0, "dir")
  OBVIOUS
<1>15. /\ entry.names = RvaOf("int", d, 1) /\ entry.dll = RvaOf("dll", d, 1)
       /\ entry.slots = RvaOf("iat", d, 1)
  BY <1>10, <1>13, <1>14
<1>16. \A e \in 0 .. d0 : HeldAt(Directory + 20 * e, "dir").names # 0
  <2>1. SUFFICES ASSUME NEW e \in 0 .. d0 PROVE HeldAt(Directory + 20 * e, "dir").names # 0
    OBVIOUS
  <2>2. PICK m : m = e + 1
    OBVIOUS
  <2>3. e \in Nat /\ m \in 1 .. Len(dlls)
    BY <1>4, <1>13, <2>2
  <2>4. HeldAt(Directory + 20 * e, "dir").names = RvaOf("int", m, 1)
    BY <1>10, <2>2, <2>3
  <2> QED
    BY <1>11, <2>3, <2>4
\* The names of the DLL down to that of the function.
<1>17. ASSUME NEW k \in 0 .. Len(dlls[d].funcs) - 1
       PROVE  HeldAt(entry.names + 8 * k, "int") = RvaOf("hint", d, k + 1)
  <2>1. PICK m : m = k + 1
    OBVIOUS
  <2>2. m \in 1 .. Len(dlls[d].funcs) /\ m \in Nat /\ m - 1 = k
    BY <1>4, <2>1
  <2>3. IsPiece("int", d, m) /\ "int" \in Kinds /\ d \in 1 .. Rows("int")
    BY <1>7, <2>2 DEF IsPiece
  <2>4. RvaOf("int", d, 1) + 8 * (m - 1) = RvaOf("int", d, m)
    BY <1>4, <1>6, <2>2, <2>3, AlongARow
  <2>5. HeldAt(RvaOf("int", d, m), "int") = Held("int", d, m)
    BY <2>3, PieceIsHeld
  <2>6. m <= Len(dlls[d].funcs)
    BY <1>4, <2>2
  <2>7. Held("int", d, m) = RvaOf("hint", d, m)
    BY <2>6 DEF Held
  <2> QED
    BY <1>15, <2>1, <2>2, <2>4, <2>5, <2>7
<1>18. \A k \in 0 .. j0 : HeldAt(entry.names + 8 * k, "int") # 0
  <2>1. SUFFICES ASSUME NEW k \in 0 .. j0 PROVE HeldAt(entry.names + 8 * k, "int") # 0
    OBVIOUS
  <2>2. k \in 0 .. Len(dlls[d].funcs) - 1 /\ k + 1 \in 1 .. Len(dlls[d].funcs)
    BY <1>4, <1>6, <1>13
  <2>3. IsPiece("hint", d, k + 1)
    BY <1>7, <2>2
  <2>4. RvaOf("hint", d, k + 1) \in Nat /\ RvaOf("hint", d, k + 1) >= rva
    BY <1>8, <2>3, PieceIsHeld
  <2> QED
    BY <1>9, <1>17, <2>2, <2>4
<1>19. Caseless[HeldAt(entry.dll, "dll")] = Caseless[extern.dll]
  <2>1. HeldAt(RvaOf("dll", d, 1), "dll") = Held("dll", d, 1)
    BY <1>7, PieceIsHeld
  <2> QED
    BY <1>3, <1>15, <2>1 DEF Held
<1>20. Holds(HeldAt(entry.names + 8 * j0, "int"), "hint", extern.name)
  <2>1. j0 \in 0 .. Len(dlls[d].funcs) - 1
    BY <1>4, <1>6, <1>13
  <2>2. HeldAt(entry.names + 8 * j0, "int") = RvaOf("hint", d, j)
    BY <1>13, <1>17, <2>1
  <2>3. Holds(RvaOf("hint", d, j), "hint", Held("hint", d, j))
    BY <1>7, PieceIsHeld
  <2>4. Held("hint", d, j) = extern.name
    BY <1>3 DEF Held
  <2> QED
    BY <2>2, <2>3, <2>4
<1>21. SlotOf(extern) = entry.slots + 8 * j0 /\ SlotOf(extern) \in Nat
  <2>1. "iat" \in Kinds /\ d \in 1 .. Rows("iat")
    BY <1>7 DEF IsPiece
  <2>2. RvaOf("iat", d, 1) + 8 * (j - 1) = RvaOf("iat", d, j)
    BY <1>4, <1>6, <1>7, <2>1, AlongARow
  <2>3. RvaOf("iat", d, j) \in Nat
    BY <1>7, PieceIsHeld
  <2> QED
    BY <1>3, <1>12, <1>15, <2>2, <2>3
<1> QED
  BY <1>13, <1>14, <1>16, <1>18, <1>19, <1>20, <1>21 DEF Bound

-----------------------------------------------------------------------------
(* Where the displacements lead. *)

LEMMA RdataIsMapped == TextInv => RdataVA \in Nat \ {0}
<1> SUFFICES ASSUME TextInv PROVE RdataVA \in Nat \ {0}
  OBVIOUS
<1>1. PICK t, a : t = TextVA + text /\ a = 4096
  OBVIOUS
<1>2. t \in Nat /\ t > 0 /\ a \in Nat \ {0}
  BY <1>1 DEF TextInv, TextVA
<1>3. AlignUp(t, a) \in Nat /\ AlignUp(t, a) >= t
  BY <1>2, AlignUpNat
<1> QED
  BY <1>1, <1>2, <1>3 DEF RdataVA

LEMMA FuncLeads ==
  ASSUME WalkInv, ExternsInv, phase # "externs",
         NEW w, w[1] \in {"func", "name"}, w[2] \in NamesIn(program.funcs)
  PROVE  /\ TextVA + FuncOffset(w[2]) \in Nat
         /\ LeadsTo(TextVA + FuncOffset(w[2]), w)
<1>1. FuncNamed(w[2]) # 0 /\ FuncOffset(w[2]) \in Nat
  BY FuncPlace
<1>2. TextVA + FuncOffset(w[2]) \in Nat
  BY <1>1 DEF TextVA
<1>3. GlobalNamed(w[2]) = 0
  BY NamesApart, FoundByName DEF GlobalNamed
<1>4. LeadsTo(TextVA + FuncOffset(w[2]), w)
  <2>1. CASE w[1] = "func"
    BY <1>1, <2>1 DEF LeadsTo
  <2>2. CASE w[1] = "name"
    BY <1>1, <1>3, <2>2 DEF LeadsTo
  <2> QED
    BY <2>1, <2>2
<1> QED
  BY <1>2, <1>4

\* What is settled at once.
LEMMA StraightLeads ==
  ASSUME WalkInv, ExternsInv, phase # "externs", NEW w, Meant(w), w[1] \in {"block", "func"}
  PROVE  Straight(w) \in Nat /\ LeadsTo(TextVA + Straight(w), w)
<1>1. CASE w[1] = "block"
  <2>1. <<w[2], w[3]>> \in BlockIds(program) /\ offset \in [BlockIds(program) -> Nat]
    BY <1>1 DEF Meant, WalkInv
  <2> QED
    BY <1>1, <2>1 DEF Straight, LeadsTo
<1>2. CASE w[1] = "func"
  <2>1. w[2] \in NamesIn(program.funcs)
    BY <1>2 DEF Meant
  <2>2. FuncOffset(w[2]) \in Nat /\ LeadsTo(TextVA + FuncOffset(w[2]), w)
    BY <1>2, <2>1, FuncPlace, FuncLeads
  <2> QED
    BY <1>2, <2>2 DEF Straight
<1> QED
  BY <1>1, <1>2

LEMMA StringLeads ==
  ASSUME StringsInv, Joined, RdataVA \in Nat, NEW w, Meant(w), w[1] = "string",
         \A s \in DOMAIN strings : strings[s].at \in Nat
  PROVE  /\ Target(Listed(w)[1], Listed(w)[2]) \in Nat
         /\ LeadsTo(Target(Listed(w)[1], Listed(w)[2]), w)
<1> DEFINE S == {s \in DOMAIN strings : strings[s].contents = w[2]}
<1>1. PICK s : s = First(S)
  OBVIOUS
<1>2. IsSeq(strings) /\ DOMAIN strings = 1 .. Len(strings) /\ Len(strings) \in Nat
  BY SeqOfItself DEF StringsInv
<1>3. S # {} /\ S \subseteq Nat \ {0}
  BY <1>2 DEF Meant
<1>4. s \in DOMAIN strings /\ strings[s].contents = w[2]
  BY <1>1, <1>3, FirstIsOne
<1>5. Listed(w) = <<"string", strings[s].at>>
  BY <1>1 DEF Listed, Noted
<1>6. PICK to : to = strings[s].at
  OBVIOUS
<1>7. Target(Listed(w)[1], Listed(w)[2]) = RdataVA + Shift + to
  BY <1>5, <1>6 DEF Target
<1>8. PICK i \in 1 .. Len(rdata) : /\ rdata[i].kind = "string" /\ rdata[i].at = to + Shift
                                   /\ rdata[i].holds = w[2]
  BY <1>2, <1>4, <1>6 DEF Joined
<1>9. RdataVA + Shift + to \in Nat /\ RdataVA + Shift + to = RdataVA + rdata[i].at
  BY <1>4, <1>6, <1>8 DEF Joined
<1>10. i \in DOMAIN rdata
  BY SeqOfItself DEF Joined, Tiles
<1>11. Holds(RdataVA + Shift + to, "string", w[2])
  BY <1>8, <1>9, <1>10 DEF Holds, RdataAt
<1>12. LeadsTo(RdataVA + Shift + to, w)
  BY <1>11 DEF LeadsTo
<1> QED
  BY <1>7, <1>9, <1>12

\* A global without a byte may lead anywhere.
LEMMA GlobalLeads ==
  ASSUME ExternsInv, DataInv, DataSectionInv, phase = "patch",
         NEW w, w[1] = "name", w[2] \in NamesIn(program.globals)
  PROVE  \/ \A t : LeadsTo(t, w)
         \/ /\ Target(Listed(w)[1], Listed(w)[2]) \in Nat
            /\ LeadsTo(Target(Listed(w)[1], Listed(w)[2]), w)
<1>1. PICK g : g = GlobalNamed(w[2])
  OBVIOUS
<1>2. g \in DOMAIN program.globals /\ g # 0 /\ program.globals[g].name = w[2]
  BY <1>1, NamesApart, FoundByName DEF GlobalNamed
<1>3. FuncNamed(w[2]) = 0
  BY NamesApart, FoundByName DEF FuncNamed
<1>4. \A t : LeadsTo(t, w) <=>
               \/ program.globals[g].size = 0
               \/ /\ Len(image.sections) = 3
                  /\ \E x \in ToSet(data) : x.holds = w[2] /\ t = image.sections[3].va + x.at
  <2>1. SUFFICES ASSUME NEW t
                 PROVE  LeadsTo(t, w) <=>
                          \/ program.globals[g].size = 0
                          \/ /\ Len(image.sections) = 3
                             /\ \E x \in ToSet(data) : /\ x.holds = w[2]
                                                       /\ t = image.sections[3].va + x.at
    OBVIOUS
  <2>2. /\ w[1] # "block" /\ w[1] # "string" /\ w[1] # "exit"
        /\ ~(w[1] \in {"func", "name"} /\ FuncNamed(w[2]) # 0)
        /\ w[1] = "name" /\ GlobalNamed(w[2]) # 0
    BY <1>1, <1>2, <1>3
  <2>3. LeadsTo(t, w) <=>
          \/ program.globals[GlobalNamed(w[2])].size = 0
          \/ /\ Len(image.sections) = 3
             /\ \E x \in ToSet(data) : x.holds = w[2] /\ t = image.sections[3].va + x.at
    BY <2>2 DEF LeadsTo
  <2> QED
    BY <1>1, <2>3
<1>5. CASE program.globals[g].size = 0
  BY <1>4, <1>5
<1>6. CASE program.globals[g].size # 0
  <2>1. /\ IsSeq(program.globals) /\ DOMAIN program.globals = 1 .. Len(program.globals)
        /\ Len(data) = Len(program.globals) /\ Tiles(data) /\ IsSeq(data)
    BY NamesApart, SeqOfItself DEF DataInv, Tiles
  <2>2. g \in 1 .. Len(data) /\ g \in DOMAIN data
    BY <1>2, <2>1, SeqOfItself
  <2>3. /\ data[g].holds = w[2] /\ data[g].size # 0 /\ data[g].at \in Nat /\ data[g].size \in Nat
        /\ data[g] \in ToSet(data)
    BY <1>2, <1>6, <2>1, <2>2 DEF DataInv, Tiles, ToSet
  <2>4. SizeOf(data) > 0
    <3>1. SizeOf(data) \in Nat /\ data[g].at + data[g].size <= SizeOf(data)
      BY <2>1, <2>2, TilesEnd
    <3> QED
      BY <2>3, <3>1
  <2>5. Len(image.sections) = 3 /\ image.sections[3].va \in Nat
    BY <2>4 DEF DataSectionInv
  <2>6. Listed(w) = <<"data", data[g].at>>
    BY <1>1, <1>2 DEF Listed, Noted
  <2>7. PICK t : t = image.sections[3].va + data[g].at
    OBVIOUS
  <2>8. Target(Listed(w)[1], Listed(w)[2]) = t
    BY <2>5, <2>6, <2>7 DEF Target
  <2>9. t \in Nat
    BY <2>3, <2>5, <2>7
  <2>10. LeadsTo(t, w)
    BY <1>4, <2>3, <2>5, <2>7
  <2> QED
    BY <2>8, <2>9, <2>10
<1> QED
  BY <1>5, <1>6

LEMMA ExternLeads ==
  ASSUME ExternsInv, ImportsInv, Joined, RdataVA \in Nat \ {0}, phase = "patch",
         NEW w, w[1] = "name", w[2] \in NamesIn(externs), w[2] \notin NamesIn(program.globals)
  PROVE  /\ Target(Listed(w)[1], Listed(w)[2]) \in Nat
         /\ LeadsTo(Target(Listed(w)[1], Listed(w)[2]), w)
<1>1. PICK e : e = ExternNamed(w[2])
  OBVIOUS
<1>2. e \in DOMAIN externs /\ e # 0
  BY <1>1, NamesApart, FoundByName DEF ExternNamed
<1>3. FuncNamed(w[2]) = 0 /\ GlobalNamed(w[2]) = 0
  BY NamesApart, FoundByName DEF FuncNamed, GlobalNamed
<1>4. Listed(w) = <<"extern", e>>
  BY <1>1, <1>2, <1>3 DEF Listed, Noted
<1>5. Target(Listed(w)[1], Listed(w)[2]) = SlotOf(externs[e])
  BY <1>4 DEF Target
<1>6. /\ Len(externs) \in Nat /\ TableShape(dlls, Len(externs) + 1) /\ Len(dlls) > 0
      /\ InTable(dlls, externs[e])
  BY <1>2, TableOfImports, SeqOfItself DEF ExternsInv
<1>7. PICK extern : extern = externs[e]
  OBVIOUS
<1>8. Bound(SlotOf(extern), extern) /\ SlotOf(extern) \in Nat
  BY <1>6, <1>7, BoundHolds
<1>9. LeadsTo(SlotOf(extern), w)
  BY <1>1, <1>3, <1>7, <1>8 DEF LeadsTo
<1> QED
  BY <1>5, <1>7, <1>8, <1>9

LEMMA ExitLeads ==
  ASSUME ExternsInv, ImportsInv, Joined, RdataVA \in Nat \ {0}, phase = "patch",
         NEW w, w[1] = "exit"
  PROVE  /\ Target(Listed(w)[1], Listed(w)[2]) \in Nat
         /\ LeadsTo(Target(Listed(w)[1], Listed(w)[2]), w)
<1>1. Target(Listed(w)[1], Listed(w)[2]) = SlotOf(ExitProcess)
  BY DEF Listed, Target
<1>2. /\ Len(externs) \in Nat /\ TableShape(dlls, Len(externs) + 1) /\ Len(dlls) > 0
      /\ InTable(dlls, ExitProcess)
  BY TableOfImports, SeqOfItself DEF ExternsInv
<1>3. Bound(SlotOf(ExitProcess), ExitProcess) /\ SlotOf(ExitProcess) \in Nat
  BY <1>2, BoundHolds
<1>4. LeadsTo(SlotOf(ExitProcess), w)
  BY <1>3 DEF LeadsTo
<1> QED
  BY <1>1, <1>3, <1>4

\* What is left to an entry of a list.
LEMMA ListedLeads ==
  ASSUME MadeInv, FieldsInv, phase = "patch", NEW w, Meant(w), w[1] # "block"
  PROVE  \/ \A t : LeadsTo(t, w)
         \/ /\ Target(Listed(w)[1], Listed(w)[2]) \in Nat
            /\ LeadsTo(Target(Listed(w)[1], Listed(w)[2]), w)
<1>1. /\ WalkInv /\ ExternsInv /\ DataInv /\ StringsInv /\ ImportsInv /\ Joined /\ DataSectionInv
      /\ RdataVA \in Nat \ {0}
      /\ \A s \in DOMAIN strings : strings[s].at \in Nat
  BY RdataIsMapped DEF MadeInv, JoinedInv, FieldsInv
<1>2. CASE w[1] = "string"
  BY <1>1, <1>2, StringLeads
<1>3. CASE w[1] = "exit"
  BY <1>1, <1>3, ExitLeads
<1>4. CASE w[1] = "name" /\ w[2] \in NamesIn(program.globals)
  BY <1>1, <1>4, GlobalLeads
<1>5. CASE w[1] = "name" /\ w[2] \notin NamesIn(program.globals) /\ w[2] \in NamesIn(externs)
  BY <1>1, <1>5, ExternLeads
<1>6. CASE \/ w[1] = "func"
           \/ /\ w[1] = "name" /\ w[2] \notin NamesIn(program.globals) /\ w[2] \notin NamesIn(externs)
  <2>1. w[2] \in NamesIn(program.funcs)
    BY <1>6 DEF Meant
  <2>2. w[1] = "name" => GlobalNamed(w[2]) = 0 /\ ExternNamed(w[2]) = 0
    BY <1>1, <1>6, NamesApart, FoundByName DEF GlobalNamed, ExternNamed
  <2>3. Listed(w) = <<"func", FuncOffset(w[2])>>
    <3>1. CASE w[1] = "func"
      BY <3>1 DEF Listed, Noted
    <3>2. CASE w[1] = "name"
      BY <2>2, <3>2 DEF Listed, Noted
    <3> QED
      BY <1>6, <3>1, <3>2
  <2>4. Target(Listed(w)[1], Listed(w)[2]) = TextVA + FuncOffset(w[2])
    BY <2>3 DEF Target
  <2> QED
    BY <1>1, <1>6, <2>1, <2>4, FuncLeads
<1> QED
  BY <1>2, <1>3, <1>4, <1>5, <1>6 DEF Meant

LEMMA SameDestinations ==
  ASSUME UNCHANGED <<program, externs, text, offset, data, rdata, dlls, places, image>>
  PROVE  \A t, w : LeadsTo(t, w)' = LeadsTo(t, w)
<1>1. /\ \A name : FuncNamed(name)' = FuncNamed(name) /\ GlobalNamed(name)' = GlobalNamed(name)
      /\ \A name : ExternNamed(name)' = ExternNamed(name)
  BY DEF FuncNamed, GlobalNamed, ExternNamed
<1>2. \A name : FuncOffset(name)' = FuncOffset(name)
  BY <1>1 DEF FuncOffset
<1>3. RdataVA' = RdataVA
  BY DEF RdataVA
<1>4. /\ \A rva : RdataAt(rva)' = RdataAt(rva)
      /\ Directory' = Directory
  BY <1>3 DEF RdataAt, Directory, RvaOf
<1>5. /\ \A rva, kind : HeldAt(rva, kind)' = HeldAt(rva, kind)
      /\ \A rva, kind, value : Holds(rva, kind, value)' = Holds(rva, kind, value)
  BY <1>4 DEF HeldAt, Holds
<1>6. \A rva, extern : Bound(rva, extern)' = Bound(rva, extern)
  <2>1. SUFFICES ASSUME NEW rva, NEW extern PROVE Bound(rva, extern)' = Bound(rva, extern)
    OBVIOUS
  <2>2. Bound(rva, extern) => Bound(rva, extern)'
    BY <1>4, <1>5, SMTT(30) DEF Bound
  <2>3. Bound(rva, extern)' => Bound(rva, extern)
    BY <1>4, <1>5, SMTT(30) DEF Bound
  <2> QED
    BY <2>2, <2>3 DEF Bound
<1>7. \A t, w : LeadsTo(t, w)' = LeadsTo(t, w)
  BY <1>1, <1>2, <1>5, <1>6 DEF LeadsTo
<1> QED
  BY <1>7

\* The linker fills in what was left to the lists and nothing else.
LEMMA PatchLeads ==
  ASSUME MadeInv, FieldsInv, Patch
  PROVE  ReferencesResolve'
<1>1. /\ phase = "patch"
      /\ UNCHANGED <<program, externs, text, offset, data, rdata, dlls, places, image>>
  BY DEF Patch, importVars
<1>2. /\ AllSettled /\ WalkInv /\ ExternsInv
  BY <1>1 DEF FieldsInv, MadeInv
<1>3. DOMAIN fields = 1 .. Len(fields) /\ DOMAIN fields' = DOMAIN fields
  BY <1>2, SeqOfItself DEF AllSettled, Patch
<1>4. ASSUME NEW k \in 1 .. Len(fields), NEW f, f = fields[k]
      PROVE  fields'[k] = IF \E e \in Entries : e[2].at = f.at
                          THEN LET e == CHOOSE e \in Entries : e[2].at = f.at
                               IN  [f EXCEPT !.rel = Target(e[1], e[2].to) - (TextVA + f.at + 4)]
                          ELSE f
  BY <1>3, <1>4 DEF Patch, Entries
<1>5. ASSUME NEW k \in 1 .. Len(fields), NEW h, h = fields'[k]
      PROVE  LeadsTo(TextVA + h.at + 4 + h.rel, h.wants)
  <2>1. PICK f : f = fields[k]
    OBVIOUS
  <2>2. /\ f = [at |-> f.at, rel |-> f.rel, wants |-> f.wants]
        /\ f.at \in Nat /\ Meant(f.wants)
        /\ \/ /\ \A e \in Entries : e[2].at # f.at
              /\ f.wants[1] \in {"block", "func"} /\ f.rel = Straight(f.wants) - (f.at + 4)
           \/ /\ f.wants[1] # "block" /\ \E e \in Entries : e[2].at = f.at
              /\ \A e \in Entries : e[2].at = f.at => <<e[1], e[2].to>> = Listed(f.wants)
    BY <1>2, <2>1 DEF AllSettled, Settled
  <2>3. CASE /\ \A e \in Entries : e[2].at # f.at
             /\ f.wants[1] \in {"block", "func"} /\ f.rel = Straight(f.wants) - (f.at + 4)
    <3>1. h = f
      BY <1>4, <1>5, <2>1, <2>3
    <3>2. Straight(f.wants) \in Nat /\ LeadsTo(TextVA + Straight(f.wants), f.wants)
      BY <1>1, <1>2, <2>2, <2>3, StraightLeads
    <3>3. TextVA + f.at + 4 + f.rel = TextVA + Straight(f.wants)
      BY <2>2, <2>3, <3>2 DEF TextVA
    <3> QED
      BY <3>1, <3>2, <3>3
  <2>4. CASE /\ f.wants[1] # "block" /\ \E e \in Entries : e[2].at = f.at
             /\ \A e \in Entries : e[2].at = f.at => <<e[1], e[2].to>> = Listed(f.wants)
    <3>1. PICK e : e = CHOOSE d \in Entries : d[2].at = f.at
      OBVIOUS
    <3>2. e \in Entries /\ e[2].at = f.at
      BY <2>4, <3>1
    <3>3. e[1] = Listed(f.wants)[1] /\ e[2].to = Listed(f.wants)[2]
      <4>1. <<e[1], e[2].to>> = Listed(f.wants)
        BY <2>4, <3>2
      <4> QED
        BY <4>1
    <3>4. PICK t : t = Target(Listed(f.wants)[1], Listed(f.wants)[2])
      OBVIOUS
    <3>5. h = [f EXCEPT !.rel = t - (TextVA + f.at + 4)]
      BY <1>4, <1>5, <2>1, <2>4, <3>1, <3>3, <3>4
    <3>6. h.at = f.at /\ h.wants = f.wants /\ h.rel = t - (TextVA + f.at + 4)
      BY <2>2, <3>5
    <3>8. (\A s : LeadsTo(s, f.wants)) \/ (t \in Nat /\ LeadsTo(t, f.wants))
      BY <1>1, <2>2, <2>4, <3>4, ListedLeads
    <3>9. t \in Nat => TextVA + h.at + 4 + h.rel = t
      BY <2>2, <3>6 DEF TextVA
    <3> QED
      BY <3>6, <3>8, <3>9
  <2> QED
    BY <2>2, <2>3, <2>4
<1>6. \A h \in ToSet(fields') : LeadsTo(TextVA + h.at + 4 + h.rel, h.wants)
  BY <1>3, <1>5 DEF ToSet
<1>7. \A t, w : LeadsTo(t, w)' = LeadsTo(t, w)
  BY <1>1, SameDestinations
<1> QED
  BY <1>6, <1>7 DEF ReferencesResolve, TextVA

LEMMA StepKeepsReferences ==
  MadeInv /\ FieldsInv /\ ReferencesResolve /\ [Next]_vars => ReferencesResolve'
<1> SUFFICES ASSUME MadeInv, FieldsInv, ReferencesResolve, [Next]_vars PROVE ReferencesResolve'
  OBVIOUS
<1>1. CASE Patch
  BY <1>1, PatchLeads
<1>2. CASE Finished \/ UNCHANGED vars
  <2>1. /\ UNCHANGED <<program, externs, text, offset, data, rdata, dlls, places, image>>
        /\ UNCHANGED <<phase, fields>>
    BY <1>2 DEF Finished, vars
  <2>2. \A t, w : LeadsTo(t, w)' = LeadsTo(t, w)
    BY <2>1, SameDestinations
  <2> QED
    BY <2>1, <2>2 DEF ReferencesResolve, TextVA
<1>3. CASE ~(Patch \/ Finished \/ UNCHANGED vars)
  <2>1. phase' # "done"
    <3>1. CASE AddSysExtern \/ PlaceGlobal \/ CollectString
      BY <3>1 DEF AddSysExtern, PlaceGlobal, CollectString
    <3>2. CASE BeginBlock \/ EmitInst \/ EmitStart
      BY <3>2 DEF BeginBlock, EmitInst, EmitStart
    <3>3. CASE AddImport \/ AllotPiece \/ JoinTables \/ LayOut
      BY <3>3 DEF AddImport, AllotPiece, JoinTables, LayOut
    <3> QED
      BY <1>3, <3>1, <3>2, <3>3 DEF Next
  <2> QED
    BY <2>1 DEF ReferencesResolve
<1> QED
  BY <1>1, <1>2, <1>3

\* Whatever the program, every displacement of its executable leads to what its instruction is
\* about (pe_linker.c, emit_mem_op to the last of the relocations).
THEOREM ReferencesLead == Spec => []ReferencesResolve
<1>1. Init => FieldsInv /\ ReferencesResolve
  BY DEF Init, FieldsInv, ReferencesResolve
<1>2. MadeInv /\ FieldsInv /\ ReferencesResolve /\ [Next]_vars => FieldsInv' /\ ReferencesResolve'
  BY StepKeepsFields, StepKeepsReferences
<1> QED
  BY <1>1, <1>2, MadeInvariance, PTL DEF Spec

=============================================================================
