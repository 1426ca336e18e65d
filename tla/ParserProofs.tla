---------------------------- MODULE ParserProofs ----------------------------
(***************************************************************************)
(* Proofs about Parser, for every text: what lies on the stack under a     *)
(* declaration, and how often and where errors are reported.               *)
(***************************************************************************)
EXTENDS Parser, WellFoundedInduction, TLAPS

(* The words of the grammar that items name.                               *)
Words ==
  { "(", ")", ",", "->", ".", ":", ";", "=", "[", "]", "acies", "actio", "aliter",
    "arm", "array", "assign", "barbara", "binary", "block", "call", "casus",
    "cohors", "consule", "crea", "de", "densa", "dll", "dum", "edita", "elige", "etc",
    "excerpe", "expr", "f64", "forma", "imago", "index", "init", "lege", "lex",
    "liber", "magnitudo", "member", "mica", "morere", "muta", "named", "neca",
    "ordo", "param", "per", "perge", "program", "purus", "qualified", "recede", "redde",
    "rumpe", "s", "sali", "scribe", "si", "sit", "struct", "unary", "unio", "vade",
    "variant", "via", "{", "}", "||", "&&", "==", "!=", ">", ">=", "<", "<=", "|",
    "^", "&", "<<", ">>", "+", "-", "*", "/", "%", "!", "~", "locus", "tene", "+=",
    "-=", "*=", "/=", "%=", "&=", "|=", "^=", "<<=", ">>=" }

(* The items by what they may put on the stack: those of a list that is    *)
(* repeated, those of an expression or a type (Inner), and those of a      *)
(* declaration or a statement (Outer).                                     *)
Leaves ==
  ({"consume"} \X Words) \cup ({"make"} \X Seq(Words) \X Nat) \cup {Name, Add, Expression, Type}
Listed == Leaves \cup ({"option"} \X Words \X {<<Expression>>})
PutTrees == {<<"list">>, <<"null">>, <<"expr", <<"null">>>>, <<"etc", <<"null">>>>}

Parts ==
  Listed \cup ({"put"} \X PutTrees) \cup ({"comma"} \X Seq(Listed))
    \cup ({"listUntil"} \X Words \X Seq(Listed)) \cup ({"loops"} \X (1 .. 10) \X (1 .. 11))
    \cup {<<"affix">>, <<"qualifier">>, <<"assigns">>, <<"unaries">>, <<"suffixes">>,
          <<"primary">>, <<"sizeof">>}
Inner == Parts \cup ({"assign"} \X Words \X Nat)

Outer ==
  ({"option"} \X Words \X {<<Statement>>, <<Type>>}) \cup ({"unless"} \X Words \X {<<Expression>>})
    \cup ({"variable", "value"} \X Words)
    \cup ({"modifiers", "dll"} \X (SUBSET Words) \X (SUBSET Words))
    \cup ({"params", "moreParams"} \X BOOLEAN)
    \cup {Statement, <<"endExpression">>, <<"initial">>, <<"etc">>, <<"firstParam">>,
          <<"body">>, <<"fields">>, <<"typed">>, <<"declaration">>}

(* The items that stay on the stack while declarations are parsed, and     *)
(* what lies under them.                                                   *)
Recover == <<"recover">>
Arms    == <<"cases">>
EndArms == {<<"addCase">>, <<"setDefault">>}
Close     == C("}")
AtClose   == Current = "}"
FileLoop  == Loop({"eof"})
BlockLoop == Loop({"}", "eof"})
ArmLoop   == Loop(ArmEnds)
Frame ==
  {Recover, Arms} \cup EndArms \cup ({"landed"} \X Nat)
    \cup {FileLoop, BlockLoop, ArmLoop}

Items == Inner \cup Outer \cup Frame

Link(s, j) ==
  /\ s[j] = Recover => j + 2 <= Len(s) /\ s[j + 1] = Add /\ s[j + 2][1] = "landed"
  /\ s[j][1] = "landed" => j + 1 <= Len(s) /\ s[j + 1][1] = "loop"
  /\ s[j] = BlockLoop => j + 1 <= Len(s) /\ s[j + 1] = Close
  /\ s[j] = ArmLoop => j + 2 <= Len(s) /\ s[j + 1][1] = "make" /\ s[j + 2] \in EndArms
  /\ s[j] \in EndArms => j + 1 <= Len(s) /\ s[j + 1] = Arms
  /\ s[j] = Arms => j + 1 <= Len(s) /\ s[j + 1] = Close
Links(s) == \A j \in 1 .. Len(s) : Link(s, j)

(* The last report is at p; the last two are.                              *)
Once(p)  == reported # <<>> /\ reported[Len(reported)] = p
Twice(p) == Len(reported) >= 2 /\ reported[Len(reported)] = p /\ reported[Len(reported) - 1] = p

TypeInv ==
  /\ text \in Texts /\ pos \in 1 .. Len(Tokens) + 1
  /\ panic \in BOOLEAN /\ reported \in Seq(Nat) /\ todo \in Seq(Items)

(* An assignment whose value is being parsed: only parts of expressions    *)
(* are above it, and unless the parser panics no error is behind it.       *)
NotBehind(r, calm, a) ==
  calm => /\ r = <<>> \/ r[Len(r)] <= a
          /\ ~(Len(r) >= 2 /\ r[Len(r)] = a /\ r[Len(r) - 1] = a)
Assigned(a) == NotBehind(reported, ~panic, a)
AssignInv ==
  \A j \in 1 .. Len(todo) : todo[j][1] = "assign" =>
    /\ \A i \in 1 .. j : todo[i] \in Inner
    /\ todo[j][3] < pos /\ Assigned(todo[j][3])

(* The declaration that is recovered from next began at the cursor.        *)
Fresh ==
  \E j \in 1 .. Len(todo) :
    /\ todo[j] = Recover /\ j + 2 <= Len(todo) /\ todo[j + 2] = <<"landed", pos>>
    /\ \A i \in 1 .. j - 1 : todo[i] # Recover

(* Back from synchronize() with the cursor where it is: the loops that end *)
(* here, or that begin another declaration.                                *)
Landing ==
  /\ todo # <<>>
  /\ Do = "landed" \/ (Do = "add" /\ Len(todo) >= 2 /\ todo[2][1] = "landed")
LandedAt(p) ==
  /\ todo # <<>>
  /\ \/ todo[1] = <<"landed", p>>
     \/ todo[1] = Add /\ Len(todo) >= 2 /\ todo[2] = <<"landed", p>>
Closing ==
  \/ Landing \/ Do = "loop"
  \/ /\ Current \in ArmEnds /\ todo # <<>>
     /\ \/ Do = "make" /\ Len(todo) >= 2 /\ todo[2] \in EndArms
        \/ todo[1] \in EndArms \cup {Arms}
  \/ AtClose /\ todo # <<>> /\ todo[1] = Close

SettledInv ==
  pos <= Len(Tokens) =>
    /\ ~panic /\ Once(pos) => Closing \/ Fresh
    /\ ~panic /\ Twice(pos) => LandedAt(pos)
    /\ panic /\ Twice(pos) => Fresh

ReportsInv == NoErrorThrice /\ \A i \in 1 .. Len(reported) : reported[i] <= pos

IInv == TypeInv /\ Links(todo) /\ AssignInv /\ SettledInv /\ ReportsInv

-----------------------------------------------------------------------------
(* Sequences, and where the cursor goes.                                   *)

LEMMA LeastNat ==
  ASSUME NEW S \in SUBSET Nat, S # {}
  PROVE  \E m \in S : \A x \in S : m <= x
<1>1. PICK m \in S : \A y \in S : ~(<<y, m>> \in OpToRel(<, Nat))
  BY WFMin, NatLessThanWellFounded, Zenon
<1>2. ASSUME NEW y \in S PROVE m <= y
  <2>1. m \in Nat /\ y \in Nat
    OBVIOUS
  <2>2. ~(<<y, m>> \in OpToRel(<, Nat)) /\ <<y, m>> \in Nat \X Nat
    BY <1>1, <2>1
  <2>3. ~(y < m)
    BY <2>2, Zenon DEF OpToRel
  <2>4. QED
    BY <2>1, <2>3
<1>3. QED
  BY <1>2

LEMMA AfterFrom ==
  ASSUME text \in Texts, NEW i \in 0 .. Len(Tokens) + 1
  PROVE  /\ After(i) \in i .. Len(Tokens) + 1
         /\ i <= Len(Tokens) => After(i) > i
         /\ i > Len(Tokens) => After(i) = i /\ i = Len(Tokens) + 1
<1> DEFINE S == {j \in i + 1 .. Len(Tokens) : Tokens[j] # "?"} \cup {Len(Tokens) + 1}
<1>1. Tokens \in Seq(STRING)
  BY TextsAssumption DEF Tokens
<1>2. S \in SUBSET Nat /\ S # {} /\ \A x \in S : x = Len(Tokens) + 1 \/ x \in i + 1 .. Len(Tokens)
  BY <1>1
<1>3. PICK m \in S : \A x \in S : m <= x
  BY <1>2, LeastNat
<1>4. After(i) = Min(S)
  BY DEF After
<1> HIDE DEF S
<1>5. Min(S) \in S
  BY <1>3 DEF Min
<1>6. PICK a, n : a = After(i) /\ n = Len(Tokens)
  OBVIOUS
<1>7. n \in Nat /\ i \in 0 .. n + 1 /\ (a = n + 1 \/ a \in i + 1 .. n)
  <2>1. a \in S
    BY <1>4, <1>5, <1>6
  <2>2. a = Len(Tokens) + 1 \/ a \in i + 1 .. Len(Tokens)
    BY <1>2, <2>1
  <2>3. QED
    BY <1>1, <1>6, <2>2
<1>8. /\ a \in i .. n + 1
      /\ i <= n => a > i
      /\ i > n => a = i /\ i = n + 1
  BY <1>7
<1>9. QED
  BY <1>6, <1>8

LEMMA AfterIsAhead ==
  ASSUME TypeInv
  PROVE  /\ After(pos) \in pos .. Len(Tokens) + 1
         /\ pos <= Len(Tokens) => After(pos) > pos
         /\ pos > Len(Tokens) => After(pos) = pos /\ pos = Len(Tokens) + 1
<1>1. text \in Texts /\ pos \in 0 .. Len(Tokens) + 1
  BY TextsAssumption DEF TypeInv, Tokens
<1>2. QED
  BY <1>1, AfterFrom

LEMMA Pushed ==
  ASSUME NEW s \in Seq(Items), s # <<>>, NEW items \in Seq(Items)
  PROVE  /\ items \o Tail(s) \in Seq(Items)
         /\ Len(items \o Tail(s)) = Len(items) + Len(s) - 1
         /\ Len(items) \in Nat /\ Len(s) \in Nat /\ Len(s) >= 1 /\ Head(s) = s[1]
         /\ \A i \in 1 .. Len(items) : (items \o Tail(s))[i] = items[i]
         /\ \A i \in Len(items) + 1 .. Len(items) + Len(s) - 1 :
              (items \o Tail(s))[i] = s[i - Len(items) + 1]
         /\ \A i \in 2 .. Len(s) : (items \o Tail(s))[i + Len(items) - 1] = s[i]
<1>1. /\ Tail(s) \in Seq(Items) /\ Len(Tail(s)) = Len(s) - 1
      /\ \A i \in 1 .. Len(s) - 1 : Tail(s)[i] = s[i + 1]
      /\ Len(items) \in Nat /\ Len(s) \in Nat /\ Len(s) >= 1 /\ Head(s) = s[1]
  OBVIOUS
<1>2. /\ items \o Tail(s) \in Seq(Items)
      /\ Len(items \o Tail(s)) = Len(items) + Len(Tail(s))
      /\ \A i \in 1 .. Len(items) : (items \o Tail(s))[i] = items[i]
      /\ \A i \in Len(items) + 1 .. Len(items) + Len(Tail(s)) :
           (items \o Tail(s))[i] = Tail(s)[i - Len(items)]
  BY <1>1
<1>3. \A i \in Len(items) + 1 .. Len(items) + Len(s) - 1 :
        (items \o Tail(s))[i] = s[i - Len(items) + 1]
  BY <1>1, <1>2
<1>4. \A i \in 2 .. Len(s) : (items \o Tail(s))[i + Len(items) - 1] = s[i]
  <2>1. TAKE i \in 2 .. Len(s)
  <2>2. i + Len(items) - 1 \in Len(items) + 1 .. Len(items) + Len(s) - 1
        /\ (i + Len(items) - 1) - Len(items) + 1 = i
    BY <1>1
  <2>3. QED
    BY <1>3, <2>2
<1>5. QED
  BY <1>1, <1>2, <1>3, <1>4

(* What a step does to the cursor and the errors.                          *)
Moves   == pos' = After(pos) /\ (IF After(pos) > pos + 1 THEN Report(pos + 1) ELSE UNCHANGED <<panic, reported>>)
Stays   == UNCHANGED <<pos, panic, reported>>
Fails   == pos' = pos /\ Report(pos)
Skips   == pos' = After(pos) /\ Report(pos)
Stumbles == pos' = After(pos) /\ pos <= Len(Tokens) /\ Report(pos + 1)
Cursor  == Moves \/ Stays \/ Fails \/ Skips \/ Stumbles

LEMMA Reporting ==
  ASSUME TypeInv, ReportsInv, NEW at \in Nat, Report(at),
         ~panic => /\ reported = <<>> \/ reported[Len(reported)] <= at
                   /\ Twice(at) => at > Len(Tokens)
  PROVE  /\ panic' = TRUE /\ reported' \in Seq(Nat)
         /\ panic => reported' = reported
         /\ \A i \in 1 .. Len(reported') : reported'[i] <= pos \/ reported'[i] = at
         /\ ~panic => /\ Len(reported') = Len(reported) + 1 /\ reported'[Len(reported) + 1] = at
                       /\ \A i \in 1 .. Len(reported) : reported'[i] = reported[i]
         /\ \A i \in 1 .. Len(reported') - 1 :
              /\ reported'[i] <= reported'[i + 1]
              /\ i + 2 <= Len(reported') /\ reported'[i] <= Len(Tokens) => reported'[i] < reported'[i + 2]
<1>1. /\ panic \in BOOLEAN /\ reported \in Seq(Nat) /\ pos \in Nat /\ Len(Tokens) \in Nat
      /\ Len(reported) \in Nat
  BY TextsAssumption DEF TypeInv, Tokens
<1>2. panic' = TRUE
  BY DEF Report
<1>3. CASE panic
  <2>1. reported' = reported
    BY <1>3 DEF Report
  <2>2. QED
    BY <1>1, <1>2, <1>3, <2>1 DEF ReportsInv, NoErrorThrice
<1>4. CASE ~panic
  <2> DEFINE r == Append(reported, at)
             n == Len(reported)
  <2>1. reported' = r
    BY <1>4 DEF Report
  <2>2. /\ r \in Seq(Nat) /\ Len(r) = n + 1 /\ r[n + 1] = at /\ n \in Nat
        /\ \A i \in 1 .. n : r[i] = reported[i]
    BY <1>1
  <2>3. \A i \in 1 .. n : reported[i] \in Nat /\ reported[i] <= pos
    BY <1>1 DEF ReportsInv
  <2>4. n >= 1 => reported[n] <= at
    BY <1>1, <1>4
  <2>5. n >= 2 /\ reported[n] = at /\ reported[n - 1] = at => at > Len(Tokens)
    BY <1>4 DEF Twice
  <2>6. \A i \in 1 .. n - 1 :
          /\ reported[i] <= reported[i + 1]
          /\ i + 2 <= n /\ reported[i] <= Len(Tokens) => reported[i] < reported[i + 2]
    BY DEF ReportsInv, NoErrorThrice
  <2> HIDE DEF r
  <2>7. \A i \in 1 .. Len(r) : r[i] <= pos \/ r[i] = at
    BY <2>2, <2>3
  <2>8. ASSUME NEW i \in 1 .. Len(r) - 1
        PROVE  /\ r[i] <= r[i + 1]
               /\ i + 2 <= Len(r) /\ r[i] <= Len(Tokens) => r[i] < r[i + 2]
    <3>1. i \in 1 .. n /\ r[i] = reported[i]
      BY <2>2
    <3>2. CASE i = n
      BY <2>2, <2>4, <3>1, <3>2
    <3>3. CASE i # n
      <4>1. i \in 1 .. n - 1 /\ i + 1 \in 1 .. n /\ r[i + 1] = reported[i + 1] /\ reported[i] <= reported[i + 1]
        BY <2>2, <2>6, <3>1, <3>3
      <4>2. CASE i + 2 <= n
        BY <2>2, <2>6, <3>1, <4>1, <4>2
      <4>3. CASE i = n - 1
        <5>1. r[i + 2] = at /\ reported[n] = reported[i + 1] /\ n >= 2 /\ reported[n - 1] = reported[i]
          BY <2>2, <3>1, <4>1, <4>3
        <5>2. reported[i] \in Nat /\ reported[i + 1] \in Nat
          BY <2>3, <4>1, <3>1
        <5>3. reported[i] <= Len(Tokens) => reported[i] < at
          <6>1. reported[i + 1] <= at /\ reported[i] <= reported[i + 1]
            BY <2>4, <4>1, <5>1
          <6>2. reported[i] = at /\ reported[i + 1] = at => at > Len(Tokens)
            BY <2>5, <5>1
          <6>3. QED
            BY <1>1, <5>2, <6>1, <6>2
        <5>4. QED
          BY <3>1, <4>1, <5>1, <5>3
      <4>4. QED
        BY <2>2, <3>1, <4>1, <4>2, <4>3
    <3>4. QED
      BY <3>2, <3>3
  <2>9. QED
    BY <1>2, <1>4, <2>1, <2>2, <2>7, <2>8
<1>5. QED
  BY <1>1, <1>3, <1>4

LEMMA CursorFacts ==
  ASSUME TypeInv, ReportsInv, text' = text, Cursor,
         (Fails \/ Skips) /\ ~panic /\ Twice(pos) => pos > Len(Tokens)
  PROVE  /\ pos' \in pos .. Len(Tokens) + 1 /\ pos' \in 1 .. Len(Tokens) + 1
         /\ panic' \in BOOLEAN /\ reported' \in Seq(Nat)
         /\ panic => panic' /\ reported' = reported
         /\ ~panic' => reported' = reported
         /\ \A i \in 1 .. Len(reported') : reported'[i] <= pos'
         /\ \A i \in 1 .. Len(reported') - 1 :
              /\ reported'[i] <= reported'[i + 1]
              /\ i + 2 <= Len(reported') /\ reported'[i] <= Len(Tokens) => reported'[i] < reported'[i + 2]
         /\ pos' # pos => (~panic' => ~Once(pos)') /\ ~Twice(pos)'
         /\ pos' = pos /\ reported' # reported => (Twice(pos)' => Once(pos)) /\ panic' /\ (Fails \/ Skips)
<1>1. /\ panic \in BOOLEAN /\ reported \in Seq(Nat) /\ pos \in 1 .. Len(Tokens) + 1 /\ Len(Tokens) \in Nat
      /\ Len(reported) \in Nat /\ pos \in Nat
  BY TextsAssumption DEF TypeInv, Tokens
<1>2. /\ After(pos) \in pos .. Len(Tokens) + 1
      /\ pos <= Len(Tokens) => After(pos) > pos
      /\ pos > Len(Tokens) => After(pos) = pos /\ pos = Len(Tokens) + 1
  BY AfterIsAhead
<1>3. \A i \in 1 .. Len(reported) : reported[i] \in Nat /\ reported[i] <= pos
  BY <1>1 DEF ReportsInv
<1>4. \A i \in 1 .. Len(reported) - 1 :
        /\ reported[i] <= reported[i + 1]
        /\ i + 2 <= Len(reported) /\ reported[i] <= Len(Tokens) => reported[i] < reported[i + 2]
  BY DEF ReportsInv, NoErrorThrice
<1>5. CASE panic' = panic /\ reported' = reported /\ (pos' = pos \/ pos' = After(pos))
  <2>1. pos' \in pos .. Len(Tokens) + 1 /\ pos' >= pos /\ pos' \in Nat
    BY <1>1, <1>2, <1>5
  <2>2. \A i \in 1 .. Len(reported') : reported'[i] <= pos'
    BY <1>1, <1>3, <1>5, <2>1
  <2>3. pos' # pos => ~Once(pos)' /\ ~Twice(pos)'
    <3>1. HAVE pos' # pos
    <3>2. pos' > pos
      BY <2>1, <3>1, <1>1
    <3>3. Len(reported) >= 1 => reported[Len(reported)] < pos'
      BY <1>1, <1>3, <3>2, <2>1
    <3>4. reported # <<>> => Len(reported) >= 1
      BY <1>1
    <3>5. QED
      BY <1>1, <1>5, <3>3, <3>4, <2>1 DEF Once, Twice
  <2>4. QED
    BY <1>1, <1>4, <1>5, <2>1, <2>2, <2>3
<1>6. ASSUME NEW at \in Nat, Report(at), at = pos \/ (at = pos + 1 /\ pos' > pos),
             pos' = pos \/ pos' = After(pos), at = pos => Fails \/ Skips
      PROVE  /\ pos' \in pos .. Len(Tokens) + 1 /\ pos' \in 1 .. Len(Tokens) + 1
             /\ panic' \in BOOLEAN /\ reported' \in Seq(Nat)
             /\ panic => panic' /\ reported' = reported
             /\ ~panic' => reported' = reported
             /\ \A i \in 1 .. Len(reported') : reported'[i] <= pos'
             /\ \A i \in 1 .. Len(reported') - 1 :
                  /\ reported'[i] <= reported'[i + 1]
                  /\ i + 2 <= Len(reported') /\ reported'[i] <= Len(Tokens) => reported'[i] < reported'[i + 2]
             /\ pos' # pos => (~panic' => ~Once(pos)') /\ ~Twice(pos)'
             /\ pos' = pos /\ reported' # reported => (Twice(pos)' => Once(pos)) /\ panic' /\ (Fails \/ Skips)
  <2>1. pos' \in pos .. Len(Tokens) + 1 /\ pos' >= pos /\ pos' \in Nat
    BY <1>1, <1>2, <1>6
  <2>2. Len(reported) >= 1 => reported[Len(reported)] \in Nat /\ reported[Len(reported)] <= pos
    BY <1>1, <1>3
  <2>3. reported = <<>> \/ reported[Len(reported)] <= at
    <3>1. reported = <<>> \/ Len(reported) >= 1
      BY <1>1
    <3>2. QED
      BY <1>1, <2>2, <3>1, <1>6
  <2>4. Twice(at) => at = pos
    BY <1>1, <2>2, <1>6 DEF Twice
  <2>5. ~panic /\ Twice(at) => at > Len(Tokens)
    BY <2>4, <1>6
  <2>6. /\ panic' = TRUE /\ reported' \in Seq(Nat)
        /\ panic => reported' = reported
        /\ \A i \in 1 .. Len(reported') : reported'[i] <= pos \/ reported'[i] = at
        /\ ~panic => /\ Len(reported') = Len(reported) + 1 /\ reported'[Len(reported) + 1] = at
                     /\ \A i \in 1 .. Len(reported) : reported'[i] = reported[i]
        /\ \A i \in 1 .. Len(reported') - 1 :
             /\ reported'[i] <= reported'[i + 1]
             /\ i + 2 <= Len(reported') /\ reported'[i] <= Len(Tokens) => reported'[i] < reported'[i + 2]
    BY <1>6, <2>3, <2>5, Reporting
  <2>7. \A i \in 1 .. Len(reported') : reported'[i] <= pos'
    <3>1. TAKE i \in 1 .. Len(reported')
    <3>2. reported'[i] \in Nat
      BY <2>6
    <3>3. QED
      BY <1>1, <1>6, <2>1, <2>6, <3>2
  <2>8. pos' # pos => ~Twice(pos)'
    <3>1. HAVE pos' # pos
    <3>2. pos' > pos
      BY <2>1, <3>1, <1>1
    <3>3. CASE panic
      BY <1>1, <2>2, <2>6, <3>2, <3>3, <2>1 DEF Twice
    <3>4. CASE ~panic
      <4>1. Len(reported) >= 1 => reported'[Len(reported)] <= pos
        BY <1>1, <2>2, <2>6, <3>4
      <4>2. Len(reported') >= 2 => Len(reported) >= 1 /\ Len(reported') - 1 = Len(reported)
        BY <1>1, <2>6, <3>4
      <4>3. Len(reported) >= 1 => reported'[Len(reported)] \in Nat
        BY <1>1, <2>2, <2>6, <3>4
      <4>4. QED
        BY <1>1, <2>1, <3>2, <4>1, <4>2, <4>3 DEF Twice
    <3>5. QED
      BY <3>3, <3>4
  <2>9. pos' = pos /\ reported' # reported => (Twice(pos)' => Once(pos)) /\ (Fails \/ Skips)
    <3>1. HAVE pos' = pos /\ reported' # reported
    <3>2. at = pos /\ ~panic
      BY <1>1, <1>6, <2>6, <3>1
    <3>3. ASSUME Twice(pos)' PROVE Once(pos)
      <4>1. Len(reported) >= 1 /\ Len(reported') - 1 = Len(reported)
        BY <1>1, <2>6, <3>2, <3>3 DEF Twice
      <4>2. reported'[Len(reported)] = pos
        BY <3>1, <3>3, <4>1 DEF Twice
      <4>3. reported[Len(reported)] = pos
        <5>1. PICK n : n = Len(reported)
          OBVIOUS
        <5>2. n \in 1 .. n
          BY <1>1, <4>1, <5>1
        <5>3. reported'[n] = reported[n]
          BY <2>6, <3>2, <5>1, <5>2
        <5>4. QED
          BY <4>2, <5>1, <5>3
      <4>4. QED
        BY <1>1, <4>1, <4>3 DEF Once
    <3>4. QED
      BY <1>6, <3>2, <3>3
  <2>10. QED
    BY <1>1, <2>1, <2>6, <2>7, <2>8, <2>9
<1>7. CASE Stays
  BY <1>5, <1>7 DEF Stays
<1>8. CASE Moves
  <2>1. CASE After(pos) > pos + 1
    <3>1. PICK at : at = pos + 1
      OBVIOUS
    <3>2. Report(at)
      <4>1. Report(pos + 1)
        BY <1>8, <2>1 DEF Moves
      <4>2. QED
        BY <3>1, <4>1
    <3>4. pos' = After(pos)
      BY <1>8 DEF Moves
    <3>5. at \in Nat /\ pos' > pos /\ at # pos
      BY <1>1, <1>2, <2>1, <3>1, <3>4
    <3>6. QED
      BY <1>6, <3>1, <3>2, <3>4, <3>5
  <2>2. CASE ~(After(pos) > pos + 1)
    BY <1>5, <1>8, <2>2 DEF Moves
  <2>3. QED
    BY <2>1, <2>2
<1>9. CASE Fails \/ Skips
  BY <1>1, <1>6, <1>9 DEF Fails, Skips
<1>10. CASE Stumbles
  BY <1>1, <1>2, <1>6, <1>10 DEF Stumbles
<1>11. QED
  BY <1>7, <1>8, <1>9, <1>10 DEF Cursor

-----------------------------------------------------------------------------
(* The stack.                                                              *)

FrameKinds == {"recover", "cases", "addCase", "setDefault", "landed", "loop"}

LEMMA LeafKinds ==
  ASSUME NEW x \in Listed
  PROVE  x[1] \in {"consume", "make", "name", "add", "expression", "type", "option"}
<1>1. CASE x \in {"consume"} \X Words
  BY <1>1
<1>2. CASE x \in {"make"} \X Seq(Words) \X Nat
  BY <1>2
<1>3. CASE x \in {Name, Add, Expression, Type}
  BY <1>3 DEF Name, Add, Expression, Type
<1>4. CASE x \in {"option"} \X Words \X {<<Expression>>}
  BY <1>4
<1>5. QED
  BY <1>1, <1>2, <1>3, <1>4 DEF Listed, Leaves

InnerKinds ==
  {"consume", "make", "name", "add", "expression", "type", "option", "put", "comma", "listUntil",
   "loops", "assign", "affix", "qualifier", "assigns", "unaries", "suffixes", "primary", "sizeof"}

LEMMA PartKinds ==
  ASSUME NEW x \in Inner
  PROVE  /\ x[1] \in InnerKinds
         /\ x \in Parts <=> x[1] # "assign"
<1>1. CASE x \in Listed
  BY <1>1, LeafKinds DEF InnerKinds, Parts
<1>2. CASE x \in {"put"} \X PutTrees
  BY <1>2 DEF InnerKinds, Parts
<1>3. CASE x \in {"comma"} \X Seq(Listed)
  BY <1>3 DEF InnerKinds, Parts
<1>4. CASE x \in {"listUntil"} \X Words \X Seq(Listed)
  BY <1>4 DEF InnerKinds, Parts
<1>5. CASE x \in {"loops"} \X (1 .. 10) \X (1 .. 11)
  BY <1>5 DEF InnerKinds, Parts
<1>6. CASE x \in {<<"affix">>, <<"qualifier">>, <<"assigns">>, <<"unaries">>, <<"suffixes">>,
                  <<"primary">>, <<"sizeof">>}
  BY <1>6 DEF InnerKinds, Parts
<1>7. CASE x \in {"assign"} \X Words \X Nat
  <2>1. x[1] = "assign"
    BY <1>7
  <2>2. x \notin Listed
    BY <2>1, LeafKinds
  <2>3. x \notin Parts
    BY <2>1, <2>2 DEF Parts
  <2>4. QED
    BY <2>1, <2>3 DEF InnerKinds
<1>8. QED
  BY <1>1, <1>2, <1>3, <1>4, <1>5, <1>6, <1>7 DEF Inner, Parts

OuterKinds ==
  {"unless", "variable", "value", "modifiers", "params", "moreParams", "statement", "endExpression",
   "initial", "dll", "etc", "firstParam", "body", "fields", "typed", "declaration"}

LEMMA OuterItemKinds ==
  ASSUME NEW x \in Outer
  PROVE  x[1] \in OuterKinds \/ (x[1] = "option" /\ x[3] \in {<<Statement>>, <<Type>>})
<1>1. CASE x \in {"option"} \X Words \X {<<Statement>>, <<Type>>}
  BY <1>1
<1>2. CASE x \in {"unless"} \X Words \X {<<Expression>>}
  BY <1>2 DEF OuterKinds
<1>3. CASE x \in {"variable", "value"} \X Words
  BY <1>3 DEF OuterKinds
<1>4. CASE x \in {"modifiers", "dll"} \X (SUBSET Words) \X (SUBSET Words)
  BY <1>4 DEF OuterKinds
<1>5. CASE x \in {"params", "moreParams"} \X BOOLEAN
  BY <1>5 DEF OuterKinds
<1>6. CASE x \in {Statement, <<"endExpression">>, <<"initial">>, <<"etc">>, <<"firstParam">>,
                  <<"body">>, <<"fields">>, <<"typed">>, <<"declaration">>}
  BY <1>6 DEF OuterKinds, Statement
<1>7. QED
  BY <1>1, <1>2, <1>3, <1>4, <1>5, <1>6 DEF Outer

LEMMA CloseItem ==
  Close[1] = "consume" /\ (AtClose => Current = Close[2])
<1>1. Close[1] = "consume" /\ Close[2] = "}"
  BY DEF Close, C
<1>2. QED
  BY <1>1 DEF AtClose

LEMMA LoopStops ==
  /\ FileLoop[2] = {"eof"} /\ BlockLoop[2] = {"}", "eof"} /\ ArmLoop[2] = ArmEnds
  BY DEF FileLoop, BlockLoop, ArmLoop, Loop

LEMMA LoopKind ==
  /\ FileLoop[1] = "loop" /\ BlockLoop[1] = "loop" /\ ArmLoop[1] = "loop"
  /\ FileLoop # BlockLoop /\ FileLoop # ArmLoop /\ BlockLoop # ArmLoop
<1>1. FileLoop[1] = "loop" /\ BlockLoop[1] = "loop" /\ ArmLoop[1] = "loop"
  BY DEF FileLoop, BlockLoop, ArmLoop, Loop
<1>2. /\ "}" \notin {"eof"} /\ "}" \in {"}", "eof"} /\ "casus" \notin {"}", "eof"}
      /\ "casus" \in ArmEnds /\ "}" \in ArmEnds
  BY DEF ArmEnds
<1>3. QED
  BY <1>1, <1>2, LoopStops

LEMMA FrameItemKinds ==
  ASSUME NEW x \in Frame
  PROVE  x[1] \in FrameKinds
<1>1. CASE x \in {"landed"} \X Nat
  BY <1>1 DEF FrameKinds
<1>2. CASE x \in {Recover, Arms} \cup EndArms
  BY <1>2 DEF FrameKinds, Recover, Arms, EndArms
<1>3. CASE x \in {FileLoop, BlockLoop, ArmLoop}
  BY <1>3, LoopKind DEF FrameKinds
<1>4. QED
  BY <1>1, <1>2, <1>3 DEF Frame

LEMMA Kinds ==
  ASSUME NEW x \in Items
  PROVE  /\ x \in Inner => x[1] \in InnerKinds
         /\ x[1] \in FrameKinds <=> x \in Frame
         /\ x[1] \in OuterKinds => x \in Outer /\ x \notin Inner
         /\ x[1] \in InnerKinds \ {"option"} => x \in Inner
         /\ x[1] \in FrameKinds => x \notin Inner
<1>1. x \in Inner => x[1] \in InnerKinds
  BY PartKinds
<1>2. x \in Outer => x[1] \in OuterKinds \/ x[1] = "option"
  BY OuterItemKinds
<1>3. x \in Frame => x[1] \in FrameKinds
  BY FrameItemKinds
<1>4. x \in Inner \/ x \in Outer \/ x \in Frame
  BY DEF Items
<1>5. QED
  BY <1>1, <1>2, <1>3, <1>4 DEF InnerKinds, OuterKinds, FrameKinds

(* What lies under an item goes with it when the top of the stack changes. *)
LEMMA LinkBelow ==
  ASSUME NEW s \in Seq(Items), s # <<>>, NEW items \in Seq(Items), NEW i \in 2 .. Len(s), Link(s, i)
  PROVE  Link(items \o Tail(s), i + Len(items) - 1)
<1> DEFINE r == items \o Tail(s)
           k == Len(items) - 1
<1>1. /\ Len(items) \in Nat /\ Len(s) \in Nat /\ Len(r) = Len(s) + k
      /\ \A j \in 2 .. Len(s) : r[j + k] = s[j]
  <2>1. Len(items) \in Nat /\ Len(s) \in Nat /\ Len(r) = Len(items) + Len(s) - 1
    BY Pushed
  <2>2. \A j \in 2 .. Len(s) : r[j + Len(items) - 1] = s[j]
    BY Pushed
  <2>3. \A j \in 2 .. Len(s) : j + Len(items) - 1 = j + k
    BY <2>1
  <2>4. QED
    BY <2>1, <2>2, <2>3
<1>2. PICK j : j = i + k
  OBVIOUS
<1> HIDE DEF r, k
<1>3. k \in Int /\ i \in Nat /\ i >= 2 /\ i <= Len(s) /\ j \in Int /\ j = i + k
  BY <1>1, <1>2 DEF k
<1>4. r[j] = s[i]
  BY <1>1, <1>2
<1>5. i + 1 <= Len(s) => j + 1 <= Len(r) /\ r[j + 1] = s[i + 1]
  <2>1. HAVE i + 1 <= Len(s)
  <2>2. i + 1 \in 2 .. Len(s) /\ (i + 1) + k = j + 1
    BY <1>1, <1>3, <2>1
  <2>3. QED
    BY <1>1, <1>3, <2>1, <2>2
<1>6. i + 2 <= Len(s) => j + 2 <= Len(r) /\ r[j + 2] = s[i + 2] /\ i + 1 <= Len(s)
  <2>1. HAVE i + 2 <= Len(s)
  <2>2. i + 2 \in 2 .. Len(s) /\ (i + 2) + k = j + 2
    BY <1>1, <1>3, <2>1
  <2>3. QED
    BY <1>1, <1>3, <2>1, <2>2
<1>7. Link(r, j)
  BY <1>4, <1>5, <1>6 DEF Link
<1>8. i + Len(items) - 1 = j
  BY <1>1, <1>2 DEF k
<1>9. QED
  BY <1>7, <1>8 DEF r

LEMMA LinksPushed ==
  ASSUME NEW s \in Seq(Items), s # <<>>, NEW items \in Seq(Items), Links(s),
         \A j \in 1 .. Len(items) : Link(items \o Tail(s), j)
  PROVE  Links(items \o Tail(s))
<1>1. Len(items) \in Nat /\ Len(s) \in Nat /\ Len(items \o Tail(s)) = Len(items) + Len(s) - 1
  BY Pushed
<1>2. SUFFICES ASSUME NEW j \in 1 .. Len(items \o Tail(s)), ~(j \in 1 .. Len(items))
               PROVE  Link(items \o Tail(s), j)
  BY DEF Links
<1>3. PICK i : i = j - Len(items) + 1
  OBVIOUS
<1>4. i \in 2 .. Len(s) /\ i + Len(items) - 1 = j
  BY <1>1, <1>2, <1>3
<1>5. i \in 1 .. Len(s)
  BY <1>1, <1>4
<1>6. QED
  BY <1>4, <1>5, LinkBelow DEF Links

LEMMA NoLink ==
  ASSUME NEW s \in Seq(Items), NEW j \in 1 .. Len(s), s[j] \notin Frame
  PROVE  Link(s, j)
<1>1. s[j] \in Items
  OBVIOUS
<1>2. s[j][1] \notin FrameKinds
  BY <1>1, Kinds
<1>3. /\ s[j] # Recover /\ s[j] # Arms /\ s[j] \notin EndArms /\ s[j][1] # "landed"
      /\ s[j] # BlockLoop /\ s[j] # ArmLoop
  <2>1. s[j] # Recover /\ s[j] # Arms /\ s[j] \notin EndArms /\ s[j][1] # "landed"
    BY <1>2 DEF FrameKinds, Recover, Arms, EndArms
  <2>2. s[j][1] # "loop"
    BY <1>2 DEF FrameKinds
  <2>3. QED
    BY <2>1, <2>2, LoopKind
<1>4. QED
  BY <1>3 DEF Link

LEMMA PlainPushed ==
  ASSUME NEW s \in Seq(Items), s # <<>>, NEW items \in Seq(Items), Links(s),
         \A j \in 1 .. Len(items) : items[j] \notin Frame
  PROVE  Links(items \o Tail(s))
<1>1. SUFFICES ASSUME NEW j \in 1 .. Len(items) PROVE Link(items \o Tail(s), j)
  BY LinksPushed
<1>2. /\ items \o Tail(s) \in Seq(Items) /\ Len(items) \in Nat /\ Len(s) \in Nat /\ Len(s) >= 1
      /\ Len(items \o Tail(s)) = Len(items) + Len(s) - 1
  BY Pushed
<1>3. (items \o Tail(s))[j] = items[j]
  BY Pushed
<1>4. j \in 1 .. Len(items \o Tail(s)) /\ (items \o Tail(s))[j] \notin Frame
  BY <1>2, <1>3
<1>5. QED
  BY <1>2, <1>4, NoLink

(* Items whose links are among themselves.                                 *)
LEMMA LinkedPushed ==
  ASSUME NEW s \in Seq(Items), s # <<>>, NEW items \in Seq(Items), Links(s), Links(items)
  PROVE  Links(items \o Tail(s))
<1>1. SUFFICES ASSUME NEW j \in 1 .. Len(items) PROVE Link(items \o Tail(s), j)
  BY LinksPushed
<1>2. PICK r : r = items \o Tail(s)
  OBVIOUS
<1>3. /\ Len(items) \in Nat /\ Len(s) \in Nat /\ Len(s) >= 1 /\ Len(r) = Len(items) + Len(s) - 1
      /\ \A i \in 1 .. Len(items) : r[i] = items[i]
  BY <1>2, Pushed
<1>4. Link(items, j) /\ r[j] = items[j]
  BY <1>3 DEF Links
<1>5. j + 1 <= Len(items) => j + 1 <= Len(r) /\ r[j + 1] = items[j + 1]
  BY <1>3
<1>6. j + 2 <= Len(items) => j + 2 <= Len(r) /\ r[j + 2] = items[j + 2] /\ j + 1 <= Len(items)
  BY <1>3
<1>7. Link(r, j)
  BY <1>4, <1>5, <1>6 DEF Link
<1>8. QED
  BY <1>2, <1>7

LEMMA AssignItem ==
  ASSUME NEW x \in Inner, x[1] = "assign"
  PROVE  x[2] \in Words /\ x[3] \in Nat
<1>1. x \notin Parts
  BY PartKinds
<1>2. x \in {"assign"} \X Words \X Nat
  BY <1>1 DEF Inner
<1>3. QED
  BY <1>2

(* A step at the same place under the same declaration.                    *)
LEMMA FreshStays ==
  ASSUME todo \in Seq(Items), todo # <<>>, Head(todo) # Recover,
         NEW items \in Seq(Items), todo' = items \o Tail(todo),
         \A j \in 1 .. Len(items) : items[j] # Recover,
         Fresh, pos' = pos
  PROVE  Fresh'
<1>1. PICK j \in 1 .. Len(todo) :
        /\ todo[j] = Recover /\ j + 2 <= Len(todo) /\ todo[j + 2] = <<"landed", pos>>
        /\ \A i \in 1 .. j - 1 : todo[i] # Recover
  BY DEF Fresh
<1>2. /\ Len(items) \in Nat /\ Len(todo) \in Nat /\ Head(todo) = todo[1]
      /\ Len(todo') = Len(items) + Len(todo) - 1
      /\ \A i \in 1 .. Len(items) : todo'[i] = items[i]
      /\ \A i \in Len(items) + 1 .. Len(items) + Len(todo) - 1 : todo'[i] = todo[i - Len(items) + 1]
      /\ \A i \in 2 .. Len(todo) : todo'[i + Len(items) - 1] = todo[i]
  BY Pushed
<1>3. j \in 2 .. Len(todo) /\ j + 2 \in 2 .. Len(todo)
  BY <1>1, <1>2
<1>4. PICK m : m = j + Len(items) - 1
  OBVIOUS
<1>5. m \in 1 .. Len(todo') /\ m + 2 <= Len(todo') /\ m + 2 = (j + 2) + Len(items) - 1
  BY <1>1, <1>2, <1>3, <1>4
<1>6. todo'[m] = Recover /\ todo'[m + 2] = <<"landed", pos'>>
  BY <1>1, <1>2, <1>3, <1>4, <1>5
<1>7. ASSUME NEW i \in 1 .. m - 1 PROVE todo'[i] # Recover
  <2>1. CASE i <= Len(items)
    BY <1>2, <1>3, <1>4, <2>1
  <2>2. CASE i > Len(items)
    <3>1. i \in Len(items) + 1 .. Len(items) + Len(todo) - 1
      BY <1>2, <1>3, <1>4, <2>2
    <3>2. i - Len(items) + 1 \in 1 .. j - 1
      BY <1>2, <1>3, <1>4, <2>2
    <3>3. QED
      BY <1>1, <1>2, <3>1, <3>2
  <2>3. QED
    BY <1>2, <1>3, <1>4, <2>1, <2>2
<1>8. QED
  BY <1>5, <1>6, <1>7 DEF Fresh

LEMMA AssignsStay ==
  ASSUME IInv, text' = text, todo # <<>>,
         NEW items \in Seq(Items), todo' = items \o Tail(todo),
         Head(todo) \in Inner => \A j \in 1 .. Len(items) : items[j] \in Inner,
         \A j \in 1 .. Len(items) : items[j][1] = "assign" =>
            Head(todo) \in Inner /\ items[j][3] < pos' /\ NotBehind(reported', ~panic', items[j][3]),
         pos' \in Nat, pos' >= pos,
         ~panic' => (~panic /\ reported' = reported) \/ Head(todo) \notin Inner
  PROVE  AssignInv'
<1>1. /\ Len(items) \in Nat /\ Len(todo) \in Nat /\ Head(todo) = todo[1] /\ Len(todo) >= 1
      /\ Len(todo') = Len(items) + Len(todo) - 1
      /\ \A i \in 1 .. Len(items) : todo'[i] = items[i]
      /\ \A i \in Len(items) + 1 .. Len(items) + Len(todo) - 1 : todo'[i] = todo[i - Len(items) + 1]
  BY Pushed DEF IInv, TypeInv
<1>2. pos \in Nat
  BY TextsAssumption DEF IInv, TypeInv, Tokens
<1>3. SUFFICES ASSUME NEW j \in 1 .. Len(todo'), todo'[j][1] = "assign"
               PROVE  /\ \A i \in 1 .. j : todo'[i] \in Inner
                      /\ todo'[j][3] < pos' /\ NotBehind(reported', ~panic', todo'[j][3])
  BY DEF AssignInv, Assigned
<1>4. CASE j <= Len(items)
  <2>1. j \in 1 .. Len(items) /\ todo'[j] = items[j]
    BY <1>1, <1>4
  <2>2. Head(todo) \in Inner /\ items[j][3] < pos' /\ NotBehind(reported', ~panic', items[j][3])
    BY <1>3, <2>1
  <2>3. ASSUME NEW i \in 1 .. j PROVE todo'[i] \in Inner
    <3>1. i \in 1 .. Len(items)
      BY <1>1, <2>1
    <3>2. QED
      BY <1>1, <2>2, <3>1
  <2>4. NotBehind(reported', ~panic', todo'[j][3])
    BY <2>1, <2>2
  <2>5. QED
    BY <2>1, <2>2, <2>3, <2>4
<1>5. CASE j > Len(items)
  <2>1. PICK k : k = j - Len(items) + 1
    OBVIOUS
  <2>2. k \in 2 .. Len(todo) /\ k \in 1 .. Len(todo) /\ 1 \in 1 .. k /\ todo'[j] = todo[k]
    BY <1>1, <1>5, <2>1
  <2>3. /\ \A i \in 1 .. k : todo[i] \in Inner
        /\ todo[k][3] < pos /\ Assigned(todo[k][3])
    BY <1>3, <2>2 DEF IInv, AssignInv
  <2>4. Head(todo) \in Inner
    BY <1>1, <2>2, <2>3
  <2>5. ASSUME NEW i \in 1 .. j PROVE todo'[i] \in Inner
    <3>1. CASE i <= Len(items)
      BY <1>1, <2>4, <3>1
    <3>2. CASE i > Len(items)
      <4>1. i - Len(items) + 1 \in 1 .. k /\ i \in Len(items) + 1 .. Len(items) + Len(todo) - 1
        BY <1>1, <2>1, <2>2, <3>2
      <4>2. QED
        BY <1>1, <2>3, <4>1
    <3>3. QED
      BY <1>1, <3>1, <3>2
  <2>6. todo[k][3] \in Nat
    <3>1. todo[k] \in Inner
      BY <2>2, <2>3
    <3>2. QED
      BY <1>3, <2>2, <3>1, AssignItem
  <2>7. todo'[j][3] < pos'
    BY <1>2, <2>2, <2>3, <2>6
  <2>8. NotBehind(reported', ~panic', todo'[j][3])
    BY <2>2, <2>3, <2>4 DEF Assigned, NotBehind
  <2>9. QED
    BY <2>5, <2>7, <2>8
<1>6. QED
  BY <1>1, <1>4, <1>5

LEMMA ReportsStay ==
  ASSUME IInv, text' = text, Cursor, (Fails \/ Skips) /\ ~panic => ~LandedAt(pos)
  PROVE  /\ pos' \in pos .. Len(Tokens) + 1 /\ pos' \in 1 .. Len(Tokens) + 1
         /\ panic' \in BOOLEAN /\ reported' \in Seq(Nat)
         /\ panic => panic' /\ reported' = reported
         /\ ~panic' => reported' = reported
         /\ ReportsInv'
         /\ pos' # pos => (~panic' => ~Once(pos)') /\ ~Twice(pos)'
         /\ pos' = pos /\ reported' # reported => (Twice(pos)' => Once(pos)) /\ panic' /\ (Fails \/ Skips)
<1>1. Len(Tokens) \in Nat /\ pos \in 1 .. Len(Tokens) + 1 /\ Tokens' = Tokens
  BY TextsAssumption DEF IInv, TypeInv, Tokens
<1>2. (Fails \/ Skips) /\ ~panic /\ Twice(pos) => pos > Len(Tokens)
  BY <1>1 DEF IInv, SettledInv
<1>3. /\ pos' \in pos .. Len(Tokens) + 1 /\ pos' \in 1 .. Len(Tokens) + 1
      /\ panic' \in BOOLEAN /\ reported' \in Seq(Nat)
      /\ panic => panic' /\ reported' = reported
      /\ ~panic' => reported' = reported
      /\ \A i \in 1 .. Len(reported') : reported'[i] <= pos'
      /\ \A i \in 1 .. Len(reported') - 1 :
           /\ reported'[i] <= reported'[i + 1]
           /\ i + 2 <= Len(reported') /\ reported'[i] <= Len(Tokens) => reported'[i] < reported'[i + 2]
      /\ pos' # pos => (~panic' => ~Once(pos)') /\ ~Twice(pos)'
      /\ pos' = pos /\ reported' # reported => (Twice(pos)' => Once(pos)) /\ panic' /\ (Fails \/ Skips)
  BY <1>2, CursorFacts DEF IInv
<1>4. ReportsInv'
  BY <1>1, <1>3 DEF ReportsInv, NoErrorThrice
<1>5. QED
  BY <1>3, <1>4

LEMMA Turn ==
  ASSUME IInv, text' = text, todo # <<>>, Head(todo) # Recover,
         NEW items \in Seq(Items), todo' = items \o Tail(todo),
         (\A j \in 1 .. Len(items) : items[j] # Recover) \/ Fresh',
         Links(todo'),
         Head(todo) \in Inner => \A j \in 1 .. Len(items) : items[j] \in Inner,
         \A j \in 1 .. Len(items) : items[j][1] = "assign" =>
            Head(todo) \in Inner /\ items[j][3] = pos /\ pos <= Len(Tokens) /\ ~Closing /\ Moves,
         Cursor,
         \/ ~Closing
         \/ Moves
         \/ /\ Stays
            /\ ~panic /\ Once(pos) /\ pos <= Len(Tokens) => Closing' \/ Fresh'
            /\ LandedAt(pos) => LandedAt(pos)'
  PROVE  IInv'
<1>1. /\ Len(Tokens) \in Nat /\ pos \in 1 .. Len(Tokens) + 1 /\ Tokens' = Tokens /\ text \in Texts
      /\ todo \in Seq(Items) /\ panic \in BOOLEAN /\ pos \in Nat
      /\ reported \in Seq(Nat) /\ Len(reported) \in Nat
  BY TextsAssumption DEF IInv, TypeInv, Tokens
<1>2. LandedAt(pos) => Closing
  <2>1. todo # <<>> => Head(todo) = todo[1]
    BY <1>1
  <2>2. HAVE LandedAt(pos)
  <2>3. todo # <<>> /\ Do = todo[1][1]
    BY <2>1, <2>2 DEF LandedAt, Do
  <2>4. CASE todo[1] = <<"landed", pos>>
    <3>1. Do = "landed"
      BY <2>3, <2>4
    <3>2. Landing
      BY <2>3, <3>1 DEF Landing
    <3>3. QED
      BY <3>2 DEF Closing
  <2>5. CASE todo[1] = Add /\ Len(todo) >= 2 /\ todo[2] = <<"landed", pos>>
    <3>1. Do = "add" /\ todo[2][1] = "landed"
      BY <2>3, <2>5 DEF Add
    <3>2. Landing
      BY <2>3, <2>5, <3>1 DEF Landing
    <3>3. QED
      BY <3>2 DEF Closing
  <2>6. QED
    BY <2>2, <2>4, <2>5 DEF LandedAt
<1>a. /\ Moves /\ pos <= Len(Tokens) => pos' > pos
      /\ Moves /\ pos > Len(Tokens) => pos' = pos
  BY AfterIsAhead DEF IInv, Moves
<1>3. CASE (Fails \/ Skips) /\ ~panic => ~LandedAt(pos)
  <2>1. /\ pos' \in pos .. Len(Tokens) + 1 /\ pos' \in 1 .. Len(Tokens) + 1
        /\ panic' \in BOOLEAN /\ reported' \in Seq(Nat)
        /\ panic => panic' /\ reported' = reported
        /\ ~panic' => reported' = reported
        /\ ReportsInv'
        /\ pos' # pos => (~panic' => ~Once(pos)') /\ ~Twice(pos)'
        /\ pos' = pos /\ reported' # reported => (Twice(pos)' => Once(pos)) /\ panic' /\ (Fails \/ Skips)
    BY <1>3, ReportsStay
  <2>2. TypeInv'
    <3>1. todo' \in Seq(Items)
      BY <1>1, Pushed
    <3>2. QED
      BY <1>1, <2>1, <3>1 DEF TypeInv
  <2>3. pos' \in Nat /\ pos' >= pos
    BY <1>1, <2>1
  <2>4. AssignInv'
    <3>1. ASSUME NEW j \in 1 .. Len(items), items[j][1] = "assign"
          PROVE  Head(todo) \in Inner /\ items[j][3] < pos' /\ NotBehind(reported', ~panic', items[j][3])
      <4>1. Head(todo) \in Inner /\ items[j][3] = pos /\ pos <= Len(Tokens) /\ ~Closing /\ Moves
        BY <3>1
      <4>2. pos' > pos
        BY <4>1, <1>a
      <4>3. ~panic' => ~panic /\ reported' = reported
        BY <2>1
      <4>4. ~panic => ~Twice(pos)
        BY <1>2, <4>1 DEF IInv, SettledInv
      <4>5. reported = <<>> \/ reported[Len(reported)] <= pos
        <5>1. reported = <<>> \/ Len(reported) \in 1 .. Len(reported)
          BY <1>1
        <5>2. QED
          BY <5>1 DEF IInv, ReportsInv
      <4>6. NotBehind(reported', ~panic', pos)
        BY <4>3, <4>4, <4>5 DEF NotBehind, Twice
      <4>7. QED
        BY <4>1, <4>2, <4>6
    <3>2. ~panic' => ~panic /\ reported' = reported
      BY <2>1
    <3>3. QED
      BY <1>1, <2>3, <3>1, <3>2, AssignsStay
  <2>5. SettledInv'
    <3>1. SUFFICES ASSUME pos' <= Len(Tokens)
                   PROVE  /\ ~panic' /\ Once(pos)' => Closing' \/ Fresh'
                          /\ ~panic' /\ Twice(pos)' => LandedAt(pos)'
                          /\ panic' /\ Twice(pos)' => Fresh'
      BY <1>1 DEF SettledInv
    <3>2. CASE pos' # pos
      <4>1. Twice(pos)' => Once(pos)'
        BY <2>1 DEF Twice, Once
      <4>2. QED
        BY <2>1, <3>2
    <3>3. CASE pos' = pos
      <4>1. /\ ~panic /\ Once(pos) => Closing \/ Fresh
            /\ ~panic /\ Twice(pos) => LandedAt(pos)
            /\ panic /\ Twice(pos) => Fresh
        BY <3>1, <3>3 DEF IInv, SettledInv
      <4>2. Fresh => Fresh'
        BY <1>1, <3>3, FreshStays
      <4>3. ~Moves
        BY <1>1, <1>a, <3>1, <3>3
      <4>4. CASE reported' = reported
        <5>1. /\ Once(pos)' => Once(pos)
              /\ Twice(pos)' => Twice(pos)
          BY <3>3, <4>4 DEF Once, Twice
        <5>2. CASE ~panic'
          <6>1. ~panic
            BY <2>1, <5>2
          <6>2. CASE ~Closing
            BY <1>2, <4>1, <4>2, <5>1, <5>2, <6>1, <6>2
          <6>3. CASE Closing
            <7>1. /\ Stays
                  /\ ~panic /\ Once(pos) /\ pos <= Len(Tokens) => Closing' \/ Fresh'
                  /\ LandedAt(pos) => LandedAt(pos)'
              BY <4>3, <6>3
            <7>2. QED
              BY <3>1, <3>3, <4>1, <5>1, <5>2, <6>1, <7>1
          <6>4. QED
            BY <6>2, <6>3
        <5>3. CASE panic'
          <6>1. CASE panic
            BY <4>1, <4>2, <5>1, <5>3, <6>1
          <6>2. CASE ~panic
            <7>1. ~Stays
              BY <5>3, <6>2 DEF Stays
            <7>2. ~Closing
              BY <4>3, <7>1
            <7>3. Twice(pos)' => FALSE
              BY <1>2, <4>1, <5>1, <6>2, <7>2
            <7>4. QED
              BY <5>3, <7>3
          <6>3. QED
            BY <6>1, <6>2
        <5>4. QED
          BY <5>2, <5>3
      <4>5. CASE reported' # reported
        <5>1. panic' /\ (Twice(pos)' => Once(pos)) /\ ~panic
          BY <2>1, <3>3, <4>5
        <5>2. ~Stays
          BY <4>5 DEF Stays
        <5>3. ~Closing
          BY <4>3, <5>2
        <5>4. QED
          BY <4>1, <4>2, <5>1, <5>3
      <4>6. QED
        BY <4>4, <4>5
    <3>4. QED
      BY <3>2, <3>3
  <2>6. QED
    BY <2>1, <2>2, <2>4, <2>5 DEF IInv
<1>4. CASE (Fails \/ Skips) /\ ~panic /\ LandedAt(pos)
  <2>1. Moves \/ Stays
    BY <1>2, <1>4
  <2>2. reported' = Append(reported, pos)
    BY <1>4 DEF Fails, Skips, Report
  <2>3. Len(reported') = Len(reported) + 1 /\ reported'[Len(reported')] = pos
    BY <1>1, <2>2
  <2>4. reported' # reported
    BY <1>1, <2>3
  <2>5. reported' = Append(reported, pos + 1)
    BY <1>4, <2>1, <2>4 DEF Moves, Stays, Report
  <2>6. reported'[Len(reported) + 1] = pos + 1
    BY <1>1, <2>5
  <2>7. QED
    BY <1>1, <2>3, <2>6
<1>5. QED
  BY <1>3, <1>4

-----------------------------------------------------------------------------
(* The items the functions push.                                           *)

LEMMA Singles ==
  ASSUME NEW S
  PROVE  \A a, b \in S : <<a>> \in Seq(S) /\ <<a, b>> \in Seq(S)
<1>1. ASSUME NEW a \in S PROVE <<a>> \in Seq(S)
  OBVIOUS
<1>2. ASSUME NEW a \in S, NEW b \in S PROVE <<a, b>> \in Seq(S)
  OBVIOUS
<1>3. QED
  BY <1>1, <1>2

LEMMA AreWords ==
  /\ "(" \in Words /\ ")" \in Words /\ "," \in Words /\ "->" \in Words
  /\ "." \in Words /\ ":" \in Words /\ ";" \in Words /\ "=" \in Words
  /\ "[" \in Words /\ "]" \in Words /\ "acies" \in Words /\ "actio" \in Words
  /\ "aliter" \in Words /\ "arm" \in Words /\ "array" \in Words /\ "assign" \in Words
  /\ "barbara" \in Words /\ "binary" \in Words /\ "block" \in Words /\ "call" \in Words
  /\ "casus" \in Words /\ "cohors" \in Words /\ "consule" \in Words /\ "crea" \in Words
  /\ "de" \in Words /\ "densa" \in Words /\ "dum" \in Words /\ "edita" \in Words
  /\ "elige" \in Words /\ "etc" \in Words /\ "excerpe" \in Words /\ "expr" \in Words
  /\ "f64" \in Words /\ "forma" \in Words /\ "imago" \in Words /\ "index" \in Words
  /\ "init" \in Words /\ "lege" \in Words /\ "lex" \in Words /\ "liber" \in Words
  /\ "magnitudo" \in Words /\ "member" \in Words /\ "mica" \in Words /\ "morere" \in Words
  /\ "muta" \in Words /\ "named" \in Words /\ "neca" \in Words /\ "ordo" \in Words
  /\ "param" \in Words /\ "per" \in Words /\ "perge" \in Words /\ "purus" \in Words
  /\ "qualified" \in Words /\ "recede" \in Words /\ "redde" \in Words /\ "rumpe" \in Words
  /\ "s" \in Words /\ "sali" \in Words /\ "scribe" \in Words /\ "si" \in Words
  /\ "sit" \in Words /\ "struct" \in Words /\ "unary" \in Words /\ "unio" \in Words
  /\ "vade" \in Words /\ "variant" \in Words /\ "via" \in Words /\ "{" \in Words
  /\ "}" \in Words /\ "||" \in Words /\ "&&" \in Words /\ "==" \in Words
  /\ "!=" \in Words /\ ">" \in Words /\ ">=" \in Words /\ "<" \in Words
  /\ "<=" \in Words /\ "|" \in Words /\ "^" \in Words /\ "&" \in Words
  /\ "<<" \in Words /\ ">>" \in Words /\ "+" \in Words /\ "-" \in Words
  /\ "*" \in Words /\ "/" \in Words /\ "%" \in Words /\ "!" \in Words
  /\ "~" \in Words /\ "locus" \in Words /\ "tene" \in Words /\ "+=" \in Words
  /\ "-=" \in Words /\ "*=" \in Words /\ "/=" \in Words /\ "%=" \in Words
  /\ "&=" \in Words /\ "|=" \in Words /\ "^=" \in Words /\ "<<=" \in Words
  /\ ">>=" \in Words /\ "dll" \in Words /\ "program" \in Words
  BY DEF Words

LEMMA ListedItems ==
  /\ \A k \in Words : C(k) \in Listed /\ Option(k, <<Expression>>) \in Listed
  /\ Name \in Listed /\ Add \in Listed /\ Expression \in Listed /\ Type \in Listed
  /\ \A k \in Words, n \in Nat : Make(<<k>>, n) \in Listed
  /\ \A k, o \in Words, n \in Nat : Make(<<k, o>>, n) \in Listed
<1>1. \A k \in Words : C(k) \in {"consume"} \X Words
  BY DEF C
<1>2. \A k \in Words : Option(k, <<Expression>>) \in {"option"} \X Words \X {<<Expression>>}
  BY DEF Option
<1>3. \A h \in Seq(Words), n \in Nat : Make(h, n) \in {"make"} \X Seq(Words) \X Nat
  BY DEF Make
<1>4. \A k, o \in Words : <<k>> \in Seq(Words) /\ <<k, o>> \in Seq(Words)
  BY Singles
<1>5. /\ \A k \in Words, n \in Nat : Make(<<k>>, n) \in {"make"} \X Seq(Words) \X Nat
      /\ \A k, o \in Words, n \in Nat : Make(<<k, o>>, n) \in {"make"} \X Seq(Words) \X Nat
  BY <1>3, <1>4
<1>6. QED
  BY <1>1, <1>2, <1>5 DEF Listed, Leaves

LEMMA PartItems ==
  /\ \A k \in Words : C(k) \in Parts /\ Option(k, <<Expression>>) \in Parts
  /\ Name \in Parts /\ Add \in Parts /\ Expression \in Parts /\ Type \in Parts
  /\ \A k \in Words, n \in Nat : Make(<<k>>, n) \in Parts
  /\ \A k, o \in Words, n \in Nat : Make(<<k, o>>, n) \in Parts
  /\ EmptyList \in Parts /\ Nil \in Parts
  /\ Put(<<"expr", <<"null">>>>) \in Parts /\ Put(<<"etc", <<"null">>>>) \in Parts
  /\ \A s \in Seq(Listed) : Comma(s) \in Parts /\ \A k \in Words : ListUntil(k, s) \in Parts
  /\ \A i \in 1 .. 10, j \in 1 .. 11 : <<"loops", i, j>> \in Parts
  /\ <<"affix">> \in Parts /\ <<"qualifier">> \in Parts /\ <<"assigns">> \in Parts
  /\ <<"unaries">> \in Parts /\ <<"suffixes">> \in Parts /\ <<"primary">> \in Parts /\ <<"sizeof">> \in Parts
<1>1. Listed \subseteq Parts
  BY DEF Parts
<1>2. \A t \in PutTrees : Put(t) \in Parts
  BY DEF Put, Parts
<1>3. /\ <<"list">> \in PutTrees /\ <<"null">> \in PutTrees
      /\ <<"expr", <<"null">>>> \in PutTrees /\ <<"etc", <<"null">>>> \in PutTrees
  BY DEF PutTrees
<1>4. \A s \in Seq(Listed) : Comma(s) \in {"comma"} \X Seq(Listed)
  BY DEF Comma
<1>5. \A s \in Seq(Listed), k \in Words : ListUntil(k, s) \in {"listUntil"} \X Words \X Seq(Listed)
  BY DEF ListUntil
<1>6. \A i \in 1 .. 10, j \in 1 .. 11 : <<"loops", i, j>> \in {"loops"} \X (1 .. 10) \X (1 .. 11)
  OBVIOUS
<1>7. \A s \in Seq(Listed) : Comma(s) \in Parts /\ \A k \in Words : ListUntil(k, s) \in Parts
  BY <1>4, <1>5 DEF Parts
<1>8. \A i \in 1 .. 10, j \in 1 .. 11 : <<"loops", i, j>> \in Parts
  BY <1>6 DEF Parts
<1>9. EmptyList \in Parts /\ Nil \in Parts
  BY <1>2, <1>3 DEF EmptyList, Nil
<1>10. /\ <<"affix">> \in Parts /\ <<"qualifier">> \in Parts /\ <<"assigns">> \in Parts
       /\ <<"unaries">> \in Parts /\ <<"suffixes">> \in Parts /\ <<"primary">> \in Parts /\ <<"sizeof">> \in Parts
  BY DEF Parts
<1>11. /\ \A k \in Words : C(k) \in Parts /\ Option(k, <<Expression>>) \in Parts
       /\ Name \in Parts /\ Add \in Parts /\ Expression \in Parts /\ Type \in Parts
       /\ \A k \in Words, n \in Nat : Make(<<k>>, n) \in Parts
       /\ \A k, o \in Words, n \in Nat : Make(<<k, o>>, n) \in Parts
  BY <1>1, ListedItems
<1>12. QED
  BY <1>2, <1>3, <1>7, <1>8, <1>9, <1>10, <1>11

LEMMA OuterItems ==
  /\ \A k \in Words : /\ Option(k, <<Statement>>) \in Outer /\ Option(k, <<Type>>) \in Outer
                       /\ Unless(k, <<Expression>>) \in Outer
                       /\ Variable(k) \in Outer /\ <<"value", k>> \in Outer
  /\ \A a, f \in SUBSET Words : <<"modifiers", a, f>> \in Outer /\ <<"dll", a, f>> \in Outer
  /\ \A b \in BOOLEAN : <<"params", b>> \in Outer /\ <<"moreParams", b>> \in Outer
  /\ Statement \in Outer /\ <<"endExpression">> \in Outer /\ <<"initial">> \in Outer
  /\ <<"etc">> \in Outer /\ <<"firstParam">> \in Outer /\ <<"body">> \in Outer /\ <<"fields">> \in Outer
  /\ <<"typed">> \in Outer /\ <<"declaration">> \in Outer
<1>1. \A k \in Words : /\ Option(k, <<Statement>>) \in {"option"} \X Words \X {<<Statement>>, <<Type>>}
                        /\ Option(k, <<Type>>) \in {"option"} \X Words \X {<<Statement>>, <<Type>>}
  BY DEF Option
<1>2. \A k \in Words : Unless(k, <<Expression>>) \in {"unless"} \X Words \X {<<Expression>>}
  BY DEF Unless
<1>3. \A k \in Words : Variable(k) \in {"variable", "value"} \X Words /\ <<"value", k>> \in {"variable", "value"} \X Words
  BY DEF Variable
<1>4. \A a, f \in SUBSET Words :
        /\ <<"modifiers", a, f>> \in {"modifiers", "dll"} \X (SUBSET Words) \X (SUBSET Words)
        /\ <<"dll", a, f>> \in {"modifiers", "dll"} \X (SUBSET Words) \X (SUBSET Words)
  OBVIOUS
<1>5. \A b \in BOOLEAN : <<"params", b>> \in {"params", "moreParams"} \X BOOLEAN
                         /\ <<"moreParams", b>> \in {"params", "moreParams"} \X BOOLEAN
  OBVIOUS
<1>6. /\ Statement \in Outer /\ <<"endExpression">> \in Outer /\ <<"initial">> \in Outer
      /\ <<"etc">> \in Outer /\ <<"firstParam">> \in Outer /\ <<"body">> \in Outer /\ <<"fields">> \in Outer
      /\ <<"typed">> \in Outer /\ <<"declaration">> \in Outer
  BY DEF Outer
<1>7. QED
  BY <1>1, <1>2, <1>3, <1>4, <1>5, <1>6 DEF Outer

LEMMA NotClosing ==
  ASSUME IInv, todo # <<>>, Do \notin FrameKinds \cup {"add", "make", "consume"}
  PROVE  ~Closing
<1>1. Do = todo[1][1]
  BY DEF Do, IInv, TypeInv
<1>2. ~Landing /\ Do # "loop" /\ Do # "make"
  BY DEF Landing, FrameKinds
<1>3. todo[1] \notin EndArms \cup {Arms}
  BY <1>1 DEF FrameKinds, EndArms, Arms
<1>4. todo[1] # Close
  <2>1. Close[1] = "consume"
    BY CloseItem
  <2>2. QED
    BY <1>1, <2>1
<1>5. QED
  BY <1>2, <1>3, <1>4 DEF Closing

LEMMA Moving ==
  ASSUME NEW items, Take(items) \/ Go(items) \/ Fail(items)
  PROVE  /\ Cursor /\ todo' = items \o Tail(todo)
         /\ Take(items) => Moves
         /\ Go(items) => Stays
  BY DEF Take, Go, Fail, Advance, Continue, Cursor, Moves, Stays, Fails

LEMMA HeadIs ==
  ASSUME IInv, NEW k \in FrameKinds \cup InnerKinds \cup OuterKinds, Do = k
  PROVE  /\ todo # <<>> /\ Head(todo) = todo[1] /\ Head(todo) \in Items /\ Head(todo)[1] = k
         /\ Head(todo) # Recover <=> k # "recover"
         /\ k \in InnerKinds \ {"option"} => Head(todo) \in Inner
         /\ k \in OuterKinds => Head(todo) \in Outer /\ Head(todo) \notin Inner
         /\ k \in FrameKinds => Head(todo) \in Frame /\ Head(todo) \notin Inner
<1>1. todo # <<>>
  BY DEF Do, FrameKinds, InnerKinds, OuterKinds
<1>2. Head(todo)[1] = k /\ Head(todo) = todo[1] /\ Head(todo) \in Items
  BY <1>1 DEF Do, IInv, TypeInv
<1>3. Head(todo) # Recover <=> k # "recover"
  <2>1. Head(todo) = Recover => k = "recover"
    BY <1>2 DEF Recover
  <2>2. k = "recover" => Head(todo) = Recover
    <3>1. HAVE k = "recover"
    <3>2. Head(todo) \in Frame
      BY <1>2, <3>1, Kinds DEF FrameKinds
    <3>3. CASE Head(todo) \in {"landed"} \X Nat
      BY <1>2, <3>1, <3>3
    <3>4. CASE Head(todo) \in {FileLoop, BlockLoop, ArmLoop}
      BY <1>2, <3>1, <3>4, LoopKind
    <3>5. CASE Head(todo) \in {Arms} \cup EndArms
      BY <1>2, <3>1, <3>5 DEF Arms, EndArms
    <3>6. QED
      BY <3>2, <3>3, <3>4, <3>5 DEF Frame
  <2>3. QED
    BY <2>1, <2>2
<1>4. QED
  BY <1>1, <1>2, <1>3, Kinds

Plain == Parts \cup Outer

LEMMA PlainItems ==
  /\ Seq(Plain) \subseteq Seq(Items) /\ Seq(Parts) \subseteq Seq(Plain)
  /\ \A x \in Plain : /\ x \notin Frame /\ x # Recover /\ x[1] # "assign"
                      /\ x \in Parts => x \in Inner
<1>1. Plain \subseteq Items /\ Parts \subseteq Plain /\ Parts \subseteq Inner
  BY DEF Plain, Items, Inner
<1>2. \A x \in Parts : x[1] \in InnerKinds /\ x[1] # "assign"
  BY <1>1, PartKinds
<1>3. \A x \in Outer : x[1] \in OuterKinds \/ x[1] = "option"
  BY OuterItemKinds
<1>4. ASSUME NEW x \in Plain PROVE x \notin Frame /\ x # Recover /\ x[1] # "assign"
  <2>1. x[1] \in InnerKinds \cup OuterKinds /\ x[1] # "assign" /\ x \in Items
    BY <1>1, <1>2, <1>3, <1>4 DEF Plain, InnerKinds, OuterKinds
  <2>2. x[1] \notin FrameKinds
    BY <2>1 DEF InnerKinds, OuterKinds, FrameKinds
  <2>3. x # Recover
    BY <2>2 DEF Recover, FrameKinds
  <2>4. QED
    BY <2>1, <2>2, <2>3, Kinds
<1>5. Seq(Plain) \subseteq Seq(Items) /\ Seq(Parts) \subseteq Seq(Plain)
  BY <1>1
<1>6. QED
  BY <1>1, <1>4, <1>5

PartList(s)  == s \in Seq(Parts)
PlainList(s) == s \in Seq(Plain)

LEMMA PartLists ==
  /\ PartList(<<>>)
  /\ \A a \in Parts : PartList(<<a>>)
  /\ \A a, b \in Parts : PartList(<<a, b>>)
  /\ \A a, b, c \in Parts : PartList(<<a, b, c>>)
  /\ \A a, b, c, d \in Parts : PartList(<<a, b, c, d>>)
  /\ \A a, b, c, d, e \in Parts : PartList(<<a, b, c, d, e>>)
  /\ \A a, b, c, d, e, f \in Parts : PartList(<<a, b, c, d, e, f>>)
  /\ \A a, b, c, d, e, f, g \in Parts : PartList(<<a, b, c, d, e, f, g>>)
  /\ \A a, b, c, d, e, f, g, h \in Parts : PartList(<<a, b, c, d, e, f, g, h>>)
  /\ \A a, b, c, d, e, f, g, h, i \in Parts : PartList(<<a, b, c, d, e, f, g, h, i>>)
  /\ \A s, t : PartList(s) /\ PartList(t) => PartList(s \o t)
  /\ \A s, x : PartList(s) /\ x \in Parts => PartList(Append(s, x))
  BY DEF PartList

LEMMA PlainLists ==
  /\ PlainList(<<>>)
  /\ \A a \in Plain : PlainList(<<a>>)
  /\ \A a, b \in Plain : PlainList(<<a, b>>)
  /\ \A a, b, c \in Plain : PlainList(<<a, b, c>>)
  /\ \A a, b, c, d \in Plain : PlainList(<<a, b, c, d>>)
  /\ \A a, b, c, d, e \in Plain : PlainList(<<a, b, c, d, e>>)
  /\ \A a, b, c, d, e, f \in Plain : PlainList(<<a, b, c, d, e, f>>)
  /\ \A a, b, c, d, e, f, g \in Plain : PlainList(<<a, b, c, d, e, f, g>>)
  /\ \A a, b, c, d, e, f, g, h \in Plain : PlainList(<<a, b, c, d, e, f, g, h>>)
  /\ \A a, b, c, d, e, f, g, h, i \in Plain : PlainList(<<a, b, c, d, e, f, g, h, i>>)
  /\ \A s, t : PlainList(s) /\ PlainList(t) => PlainList(s \o t)
  /\ \A s, x : PlainList(s) /\ x \in Plain => PlainList(Append(s, x))
  BY DEF PlainList

LEMMA PlainMembers ==
  (\A x \in Parts : x \in Plain) /\ (\A x \in Outer : x \in Plain) /\ (\A s : PartList(s) => PlainList(s))
  BY PlainItems DEF Plain, PartList, PlainList

LEMMA PlainTurn ==
  ASSUME IInv, text' = text, todo # <<>>, Head(todo) # Recover, NEW items \in Seq(Plain),
         Take(items) \/ Go(items) \/ Fail(items),
         Head(todo) \in Inner => items \in Seq(Parts),
         ~Closing \/ Take(items)
  PROVE  IInv'
<1>1. /\ Cursor /\ todo' = items \o Tail(todo) /\ (Take(items) => Moves)
  BY Moving
<1>2. items \in Seq(Items) /\ \A j \in 1 .. Len(items) : items[j] \in Plain
  BY PlainItems
<1>3. \A j \in 1 .. Len(items) : items[j] \notin Frame /\ items[j] # Recover /\ items[j][1] # "assign"
  BY <1>2, PlainItems
<1>4. Links(todo')
  BY <1>1, <1>2, <1>3, PlainPushed DEF IInv, TypeInv
<1>5. Head(todo) \in Inner => \A j \in 1 .. Len(items) : items[j] \in Inner
  <2>1. HAVE Head(todo) \in Inner
  <2>2. \A j \in 1 .. Len(items) : items[j] \in Parts
    BY <2>1
  <2>3. QED
    BY <1>2, <2>2, PlainItems
<1>6. QED
  BY <1>1, <1>2, <1>3, <1>4, <1>5, Turn

LEMMA PartTurn ==
  ASSUME IInv, text' = text, NEW k \in InnerKinds \ {"add", "make", "consume"}, Do = k,
         NEW items, PartList(items), Take(items) \/ Go(items) \/ Fail(items)
  PROVE  IInv'
<1>1. todo # <<>> /\ Head(todo) # Recover
  BY HeadIs DEF InnerKinds
<1>2. ~Closing
  BY <1>1, NotClosing DEF InnerKinds, FrameKinds
<1>3. items \in Seq(Parts) /\ items \in Seq(Plain)
  BY PlainItems DEF PartList
<1>4. QED
  BY <1>1, <1>2, <1>3, PlainTurn

LEMMA OuterTurn ==
  ASSUME IInv, text' = text, NEW k \in OuterKinds, Do = k,
         NEW items, PlainList(items), Take(items) \/ Go(items) \/ Fail(items)
  PROVE  IInv'
<1>1. todo # <<>> /\ Head(todo) # Recover /\ Head(todo) \notin Inner
  BY HeadIs DEF OuterKinds
<1>2. ~Closing
  BY <1>1, NotClosing DEF OuterKinds, FrameKinds
<1>3. items \in Seq(Plain)
  BY DEF PlainList
<1>4. QED
  BY <1>1, <1>2, <1>3, PlainTurn

LEMMA TheEndIsNoToken ==
  ASSUME IInv
  PROVE  /\ Len(Tokens) \in Nat /\ pos \in 1 .. Len(Tokens) + 1
         /\ Current # "eof" => pos <= Len(Tokens)
         /\ Current = "eof" => pos = Len(Tokens) + 1
<1>1. /\ Tokens \in Seq(STRING) /\ \A i \in DOMAIN Tokens : Tokens[i] # "eof"
      /\ pos \in 1 .. Len(Tokens) + 1 /\ Len(Tokens) \in Nat
  BY TextsAssumption DEF IInv, TypeInv, Tokens
<1>2. CASE pos <= Len(Tokens)
  <2>1. pos \in DOMAIN Tokens /\ Current = Tokens[pos]
    BY <1>1, <1>2 DEF Current
  <2>2. QED
    BY <1>1, <1>2, <2>1
<1>3. CASE ~(pos <= Len(Tokens))
  <2>1. Current = "eof"
    BY <1>3 DEF Current
  <2>2. pos = Len(Tokens) + 1
    BY <1>1, <1>3
  <2>3. QED
    BY <1>1, <2>1, <2>2
<1>4. QED
  BY <1>2, <1>3

LEMMA ParseTypeTurns ==
  ASSUME IInv, text' = text, ParseType
  PROVE  IInv'
<1>1. Do = "type"
  BY DEF ParseType
<1>2. /\ \A k \in {"via", "cohors"} : PartList(<<Type, Make(<<k>>, 1)>>)
      /\ PartList(<<C("["), Expression, C("]"), Type, Make(<<"acies">>, 2)>>)
      /\ PartList(<<<<"affix">>>>) /\ PartList(<<<<"qualifier">>>>) /\ PartList(<<>>)
  BY AreWords, PartItems, PartLists
<1>3. PICK items : PartList(items) /\ (Take(items) \/ Go(items) \/ Fail(items))
  BY <1>2 DEF ParseType
<1>4. QED
  BY <1>1, <1>3, PartTurn DEF InnerKinds

LEMMA QualifierTurns ==
  ASSUME IInv, text' = text, Qualifier
  PROVE  IInv'
<1>1. Do = "qualifier"
  BY DEF Qualifier
<1>2. /\ PartList(<<Name, Make(<<"qualified">>, 2), <<"affix">>>>)
      /\ PartList(<<Make(<<"named">>, 1), <<"affix">>>>)
  BY AreWords, PartItems, PartLists
<1>3. PICK items : PartList(items) /\ (Take(items) \/ Go(items) \/ Fail(items))
  BY <1>2 DEF Qualifier
<1>4. QED
  BY <1>1, <1>3, PartTurn DEF InnerKinds

(* The rest of an affix is behind purus.                                   *)
LEMMA AffixTurns ==
  ASSUME IInv, text' = text, Affix
  PROVE  IInv'
<1>1. Do = "affix"
  BY DEF Affix
<1>2. PartList(<<>>)
  BY PartLists
<1>3. CASE Take(<<>>) \/ Go(<<>>) \/ Fail(<<>>)
  BY <1>1, <1>2, <1>3, PartTurn DEF InnerKinds
<1>4. CASE Current = "purus" /\ prev' = Current /\ pos' = After(pos) /\ Report(pos + 1) /\ Continue(<<>>)
  <2>1. Stumbles
    BY <1>4, TheEndIsNoToken DEF Stumbles
  <2>2. todo # <<>> /\ Head(todo) # Recover /\ ~Closing
    BY <1>1, HeadIs, NotClosing DEF InnerKinds, FrameKinds
  <2>3. PICK items : items = <<>> /\ items \in Seq(Items) /\ 1 .. Len(items) = {}
    <3>1. <<>> \in Seq(Items) /\ Len(<<>>) = 0
      OBVIOUS
    <3>2. 1 .. 0 = {}
      OBVIOUS
    <3>3. QED
      BY <3>1, <3>2
  <2>4. todo' = items \o Tail(todo)
    BY <1>4, <2>3 DEF Continue
  <2>5. Links(todo')
    BY <2>2, <2>3, <2>4, PlainPushed DEF IInv, TypeInv
  <2>6. Cursor
    BY <2>1 DEF Cursor
  <2>7. QED
    BY <2>2, <2>3, <2>4, <2>5, <2>6, Turn
<1>5. QED
  BY <1>3, <1>4 DEF Affix

LEMMA Operators ==
  /\ Len(BinaryOps) = 10
  /\ \A i \in 1 .. 10 : \A o \in BinaryOps[i] : o \in Words
  /\ \A o \in UnaryOps : o \in Words
  /\ \A o \in AssignOps : o \in Words
<1>1. Len(BinaryOps) = 10
  BY DEF BinaryOps
<1>2. ASSUME NEW i \in 1 .. 10, NEW o \in BinaryOps[i] PROVE o \in Words
  <2>1. i = 1 \/ i = 2 \/ i = 3 \/ i = 4 \/ i = 5 \/ i = 6 \/ i = 7 \/ i = 8 \/ i = 9 \/ i = 10
    OBVIOUS
  <2>2. o \in { "||", "&&", "==", "!=", ">", ">=", "<", "<=", "|", "^", "&", "<<", ">>", "+", "-", "*", "/", "%" }
    BY <1>2, <2>1 DEF BinaryOps
  <2>3. QED
    BY <2>2, AreWords
<1>3. \A o \in UnaryOps : o \in Words
  BY AreWords DEF UnaryOps
<1>4. \A o \in AssignOps : o \in Words
  BY AreWords DEF AssignOps
<1>5. QED
  BY <1>1, <1>2, <1>3, <1>4

LEMMA LadderList ==
  \A k \in 1 .. 11 : PartList(Ladder(k))
<1>1. TAKE k \in 1 .. 11
<1>2. <<"unaries">> \in Parts /\ <<"loops", Len(BinaryOps), k>> \in Parts
  <2>1. PICK n : n = Len(BinaryOps)
    OBVIOUS
  <2>2. n \in 1 .. 10
    BY <2>1, Operators
  <2>3. <<"loops", n, k>> \in Parts /\ <<"unaries">> \in Parts
    BY <2>2, PartItems
  <2>4. QED
    BY <2>1, <2>3
<1>3. QED
  BY <1>2, PartLists DEF Ladder

LEMMA LoopsItem ==
  ASSUME IInv, Do = "loops"
  PROVE  Of(2) \in 1 .. 10 /\ Of(3) \in 1 .. 11
<1>1. Head(todo) \in Inner /\ Head(todo)[1] = "loops"
  BY HeadIs DEF InnerKinds
<1>2. Head(todo) \notin Listed
  BY <1>1, LeafKinds
<1>3. Head(todo) \in {"loops"} \X (1 .. 10) \X (1 .. 11)
  BY <1>1, <1>2 DEF Inner, Parts
<1>4. QED
  BY <1>3 DEF Of

LEMMA Lists ==
  /\ <<Expression, Add>> \in Seq(Listed) /\ <<Name, Add>> \in Seq(Listed)
  /\ <<Name, C(":"), Expression, Make(<<"init">>, 2), Add>> \in Seq(Listed)
  /\ <<Name, Option("=", <<Expression>>), Make(<<"variant">>, 2), Add>> \in Seq(Listed)
<1>1. /\ Name \in Listed /\ Add \in Listed /\ Expression \in Listed
      /\ C(":") \in Listed /\ Make(<<"init">>, 2) \in Listed /\ Make(<<"variant">>, 2) \in Listed
      /\ Option("=", <<Expression>>) \in Listed
  BY AreWords, ListedItems
<1>2. QED
  BY <1>1

LEMMA ExprsList ==
  /\ PartList(Inits)
  /\ \A k \in Words : PartList(Exprs(k))
<1>1. PartList(Inits)
  <2>1. ListUntil("}", <<Name, C(":"), Expression, Make(<<"init">>, 2), Add>>) \in Parts
    BY AreWords, PartItems, Lists
  <2>2. QED
    BY <2>1, AreWords, PartItems, PartLists DEF Inits
<1>2. ASSUME NEW k \in Words PROVE PartList(Exprs(k))
  <2>1. ListUntil(k, <<Expression, Add>>) \in Parts
    BY PartItems, Lists
  <2>2. QED
    BY <2>1, PartItems, PartLists DEF Exprs
<1>3. QED
  BY <1>1, <1>2

LEMMA AssignmentTurns ==
  ASSUME IInv, text' = text, Assignment
  PROVE  IInv'
<1>1. Do = "expression"
  BY DEF Assignment
<1>2. /\ PartList(Append(Ladder(1), <<"assigns">>))
  BY LadderList, PartItems, PartLists
<1>3. PICK items : PartList(items) /\ (Take(items) \/ Go(items) \/ Fail(items))
  BY <1>2 DEF Assignment
<1>4. QED
  BY <1>1, <1>3, PartTurn DEF InnerKinds

LEMMA UnaryOperatorTurns ==
  ASSUME IInv, text' = text, UnaryOperator
  PROVE  IInv'
<1>1. Do = "unaries"
  BY DEF UnaryOperator
<1>2. /\ \A k \in UnaryOps : PartList(<<<<"unaries">>, Make(<<"unary", k>>, 1)>>)
      /\ PartList(<<<<"primary">>, <<"suffixes">>>>)
  BY AreWords, Operators, PartItems, PartLists
<1>3. PICK items : PartList(items) /\ (Take(items) \/ Go(items) \/ Fail(items))
  BY <1>2 DEF UnaryOperator
<1>4. QED
  BY <1>1, <1>3, PartTurn DEF InnerKinds

LEMMA PostfixLoopTurns ==
  ASSUME IInv, text' = text, PostfixLoop
  PROVE  IInv'
<1>1. Do = "suffixes"
  BY DEF PostfixLoop
<1>2. /\ PartList(Exprs(")") \o <<Make(<<"call">>, 2), <<"suffixes">>>>)
      /\ PartList(<<Expression, C("]"), Make(<<"index">>, 2), <<"suffixes">>>>)
      /\ \A k \in {".", "->"} : PartList(<<Name, Make(<<"member", k>>, 2), <<"suffixes">>>>)
      /\ PartList(Inits \o <<Make(<<"struct">>, 2), <<"suffixes">>>>)
      /\ PartList(<<>>)
  BY AreWords, ExprsList, PartItems, PartLists
<1>3. PICK items : PartList(items) /\ (Take(items) \/ Go(items) \/ Fail(items))
  BY <1>2 DEF PostfixLoop
<1>4. QED
  BY <1>1, <1>3, PartTurn DEF InnerKinds

LEMMA SizeOfTurns ==
  ASSUME IInv, text' = text, SizeOf
  PROVE  IInv'
<1>1. Do = "sizeof"
  BY DEF SizeOf
<1>2. /\ PartList(<<Type>>)
      /\ PartList(<<Expression>>)
  BY PartItems, PartLists
<1>3. PICK items : PartList(items) /\ (Take(items) \/ Go(items) \/ Fail(items))
  BY <1>2 DEF SizeOf
<1>4. QED
  BY <1>1, <1>3, PartTurn DEF InnerKinds

LEMMA BinaryLoopsTurns ==
  ASSUME IInv, text' = text, BinaryLoops
  PROVE  IInv'
<1>1. Do = "loops"
  BY DEF BinaryLoops
<1>2. CASE Go(<<>>)
  BY <1>1, <1>2, PartLists, PartTurn DEF InnerKinds
<1>3. ASSUME NEW i \in Of(3) .. Of(2), Current \in BinaryOps[i],
             Take(Ladder(i + 1) \o <<Make(<<"binary", Current>>, 2), <<"loops", i, Of(3)>>>>)
      PROVE  IInv'
  <2>1. i \in 1 .. 10 /\ i + 1 \in 1 .. 11 /\ Of(3) \in 1 .. 11
    BY <1>1, LoopsItem
  <2>2. Current \in Words /\ PartList(Ladder(i + 1)) /\ <<"loops", i, Of(3)>> \in Parts
    BY <1>3, <2>1, Operators, LadderList, PartItems
  <2>3. PartList(Ladder(i + 1) \o <<Make(<<"binary", Current>>, 2), <<"loops", i, Of(3)>>>>)
    BY <2>2, AreWords, PartItems, PartLists
  <2>4. QED
    BY <1>1, <1>3, <2>3, PartTurn DEF InnerKinds
<1>4. QED
  BY <1>2, <1>3 DEF BinaryLoops

LEMMA ParensList ==
  \A s : PartList(s) => PartList(Parens(s))
  BY AreWords, PartItems, PartLists DEF Parens

LEMMA BuiltinList ==
  \A k \in Builtins : PartList(Builtin(k))
<1>1. TAKE k \in Builtins
<1>2. k \in Words
  BY AreWords DEF Builtins
<1>3. /\ PartList(<<Type, C(","), Expression>>) /\ PartList(<<Expression, C(","), Expression>>)
      /\ PartList(<<Type, Option(",", <<Expression>>)>>) /\ PartList(<<Expression>>)
      /\ PartList(<<<<"sizeof">>>>) /\ PartList(<<C("(")>>) /\ PartList(Exprs(")"))
      /\ PartList(<<Make(<<k>>, 1)>>) /\ PartList(<<Make(<<k>>, 2)>>)
  BY <1>2, AreWords, ExprsList, PartItems, PartLists
<1>4. /\ PartList(Parens(<<Type, C(","), Expression>>)) /\ PartList(Parens(<<Expression, C(","), Expression>>))
      /\ PartList(Parens(<<Type, Option(",", <<Expression>>)>>)) /\ PartList(Parens(<<Expression>>))
      /\ PartList(Parens(<<<<"sizeof">>>>)) /\ PartList(<<C("(")>> \o Exprs(")"))
  BY <1>3, ParensList, PartLists
<1>5. /\ PartList(Parens(<<Type, C(","), Expression>>) \o <<Make(<<k>>, 2)>>)
      /\ PartList(Parens(<<Expression, C(","), Expression>>) \o <<Make(<<k>>, 2)>>)
      /\ PartList(Parens(<<Type, Option(",", <<Expression>>)>>) \o <<Make(<<k>>, 2)>>)
      /\ PartList(Parens(<<Expression>>) \o <<Make(<<k>>, 1)>>)
      /\ PartList(Parens(<<<<"sizeof">>>>) \o <<Make(<<k>>, 1)>>)
      /\ PartList(<<C("(")>> \o Exprs(")") \o <<Make(<<k>>, 1)>>)
  BY <1>3, <1>4, PartLists
<1>6. QED
  BY <1>5 DEF Builtin, Builtins

LEMMA PrimaryTurns ==
  ASSUME IInv, text' = text, Primary
  PROVE  IInv'
<1>1. Do = "primary"
  BY DEF Primary
<1>2. /\ PartList(<<>>)
      /\ \A k \in Builtins : PartList(Builtin(k))
      /\ PartList(Append(Exprs("]"), Make(<<"array">>, 1)))
      /\ PartList(<<Nil>> \o Inits \o <<Make(<<"struct">>, 2)>>)
      /\ PartList(<<Expression, C(")")>>)
  BY AreWords, BuiltinList, ExprsList, PartItems, PartLists
<1>3. PICK items : PartList(items) /\ (Take(items) \/ Go(items) \/ Fail(items))
  BY <1>2 DEF Primary
<1>4. QED
  BY <1>1, <1>3, PartTurn DEF InnerKinds

(* A token that closes a block, where an error has been, is taken.         *)
LEMMA ConsumeTurns ==
  ASSUME IInv, text' = text, Consume
  PROVE  IInv'
<1>1. Do = "consume"
  BY DEF Consume
<1>2. todo # <<>> /\ Head(todo) # Recover /\ Head(todo) = todo[1] /\ Head(todo)[1] = "consume"
  BY <1>1, HeadIs DEF InnerKinds
<1>3. PICK items : items = <<>> /\ PartList(items)
  BY PartLists
<1>4. items \in Seq(Plain) /\ items \in Seq(Parts)
  BY <1>3, PlainItems DEF PartList
<1>5. Take(items) \/ Fail(items)
  BY <1>3 DEF Consume
<1>6. ~Closing \/ Take(items)
  <2>1. SUFFICES ASSUME Closing PROVE Take(items)
    OBVIOUS
  <2>2. ~Landing /\ Do # "loop" /\ Do # "make"
    BY <1>1 DEF Landing
  <2>3. todo[1] \notin EndArms \cup {Arms}
    BY <1>2 DEF EndArms, Arms
  <2>4. AtClose /\ Head(todo) = Close
    BY <1>2, <2>1, <2>2, <2>3 DEF Closing
  <2>5. Current = Of(2)
    <3>1. Of(2) = Close[2]
      BY <2>4 DEF Of
    <3>2. QED
      BY <2>4, <3>1, CloseItem
  <2>6. QED
    BY <1>3, <2>5 DEF Consume
<1>7. QED
  BY <1>2, <1>4, <1>5, <1>6, PlainTurn

LEMMA TakeNameTurns ==
  ASSUME IInv, text' = text, TakeName
  PROVE  IInv'
<1>1. Do = "name"
  BY DEF TakeName
<1>2. /\ PartList(<<>>)
  BY PartLists
<1>3. PICK items : PartList(items) /\ (Take(items) \/ Go(items) \/ Fail(items))
  BY <1>2 DEF TakeName
<1>4. QED
  BY <1>1, <1>3, PartTurn DEF InnerKinds

LEMMA PutTreeTurns ==
  ASSUME IInv, text' = text, PutTree
  PROVE  IInv'
<1>1. Do = "put"
  BY DEF PutTree
<1>2. /\ PartList(<<>>)
  BY PartLists
<1>3. PICK items : PartList(items) /\ (Take(items) \/ Go(items) \/ Fail(items))
  BY <1>2 DEF PutTree
<1>4. QED
  BY <1>1, <1>3, PartTurn DEF InnerKinds

LEMMA Popped ==
  ASSUME IInv, text' = text, todo # <<>>, Head(todo) # Recover, Go(<<>>),
         \/ ~Closing
         \/ /\ ~panic /\ Once(pos) /\ pos <= Len(Tokens) => Closing' \/ Fresh'
            /\ LandedAt(pos) => LandedAt(pos)'
  PROVE  IInv'
<1>1. PICK items : items = <<>> /\ items \in Seq(Items) /\ 1 .. Len(items) = {}
  <2>1. <<>> \in Seq(Items) /\ Len(<<>>) = 0
    OBVIOUS
  <2>2. 1 .. 0 = {}
    OBVIOUS
  <2>3. QED
    BY <2>1, <2>2
<1>2. Cursor /\ Stays /\ todo' = items \o Tail(todo)
  BY <1>1, Moving
<1>3. Links(todo')
  BY <1>1, <1>2, PlainPushed DEF IInv, TypeInv
<1>4. QED
  BY <1>1, <1>2, <1>3, Turn

LEMMA Below ==
  ASSUME IInv, todo # <<>>, Go(<<>>)
  PROVE  /\ todo' = Tail(todo) /\ Len(todo') = Len(todo) - 1 /\ Len(todo) \in Nat
         /\ \A i \in 1 .. Len(todo) - 1 : todo'[i] = todo[i + 1]
         /\ pos' = pos /\ panic' = panic /\ reported' = reported
<1>1. todo \in Seq(Items)
  BY DEF IInv, TypeInv
<1>2. Tail(todo) \in Seq(Items) /\ <<>> \o Tail(todo) = Tail(todo)
  BY <1>1
<1>3. todo' = Tail(todo) /\ pos' = pos /\ panic' = panic /\ reported' = reported
  BY <1>2 DEF Go, Continue
<1>4. QED
  BY <1>1, <1>3

LEMMA AddToListTurns ==
  ASSUME IInv, text' = text, AddToList
  PROVE  IInv'
<1>1. Do = "add" /\ Go(<<>>)
  BY DEF AddToList
<1>2. todo # <<>> /\ Head(todo) # Recover /\ Head(todo) = todo[1] /\ Head(todo)[1] = "add"
  BY <1>1, HeadIs DEF InnerKinds
<1>3. /\ Len(todo') = Len(todo) - 1 /\ Len(todo) \in Nat
      /\ \A i \in 1 .. Len(todo) - 1 : todo'[i] = todo[i + 1]
      /\ pos' = pos
  BY <1>1, <1>2, Below
<1>4. ASSUME Closing PROVE Closing' /\ (LandedAt(pos) => LandedAt(pos)')
  <2>1. todo[1] \notin EndArms \cup {Arms}
    BY <1>2 DEF EndArms, Arms
  <2>2. todo[1] # Close
    <3>1. Close[1] = "consume"
      BY CloseItem
    <3>2. QED
      BY <1>2, <3>1
  <2>3. Landing
    BY <1>1, <1>4, <2>1, <2>2 DEF Closing
  <2>4. Len(todo) >= 2 /\ todo[2][1] = "landed"
    BY <1>1, <2>3 DEF Landing
  <2>5. todo'[1] = todo[2] /\ todo' # <<>>
    BY <1>3, <2>4
  <2>6. Do' = "landed"
    <3>1. todo' = Tail(todo) /\ todo \in Seq(Items)
      BY <1>1, <1>2, Below DEF IInv, TypeInv
    <3>2. Head(todo') = todo'[1]
      BY <2>5, <3>1
    <3>3. QED
      BY <2>4, <2>5, <3>2 DEF Do
  <2>7. Landing'
    BY <2>5, <2>6 DEF Landing
  <2>8. Closing'
    BY <2>7 DEF Closing
  <2>9. LandedAt(pos) => LandedAt(pos)'
    <3>1. HAVE LandedAt(pos)
    <3>2. todo[2] = <<"landed", pos>>
      BY <1>2, <3>1 DEF LandedAt
    <3>3. QED
      BY <1>3, <2>5, <3>2 DEF LandedAt
  <2>10. QED
    BY <2>8, <2>9
<1>5. QED
  BY <1>1, <1>2, <1>4, Popped

LEMMA MakeNodeTurns ==
  ASSUME IInv, text' = text, MakeNode
  PROVE  IInv'
<1>1. Do = "make" /\ Go(<<>>)
  BY DEF MakeNode
<1>2. todo # <<>> /\ Head(todo) # Recover /\ Head(todo) = todo[1] /\ Head(todo)[1] = "make"
  BY <1>1, HeadIs DEF InnerKinds
<1>3. /\ Len(todo') = Len(todo) - 1 /\ Len(todo) \in Nat
      /\ \A i \in 1 .. Len(todo) - 1 : todo'[i] = todo[i + 1]
      /\ pos' = pos
  BY <1>1, <1>2, Below
<1>4. ~LandedAt(pos)
  BY <1>2 DEF LandedAt, Add
<1>5. ASSUME Closing PROVE Closing'
  <2>1. todo[1] \notin EndArms \cup {Arms}
    BY <1>2 DEF EndArms, Arms
  <2>2. todo[1] # Close
    <3>1. Close[1] = "consume"
      BY CloseItem
    <3>2. QED
      BY <1>2, <3>1
  <2>3. ~Landing
    BY <1>1 DEF Landing
  <2>4. Current \in ArmEnds /\ Len(todo) >= 2 /\ todo[2] \in EndArms
    BY <1>1, <1>5, <2>1, <2>2, <2>3 DEF Closing
  <2>5. todo'[1] \in EndArms /\ todo' # <<>>
    BY <1>3, <2>4
  <2>6. Current' = Current
    BY <1>3 DEF Current, Tokens
  <2>7. QED
    BY <2>4, <2>5, <2>6 DEF Closing
<1>6. QED
  BY <1>1, <1>2, <1>4, <1>5, Popped

LEMMA OptionItem ==
  ASSUME IInv, Do = "option"
  PROVE  /\ PlainList(Of(3))
         /\ Head(todo) \in Inner => PartList(Of(3))
<1>1. Head(todo) \in Items /\ Head(todo)[1] = "option"
  BY HeadIs DEF InnerKinds
<1>2. Head(todo) \notin Frame
  BY <1>1, Kinds DEF FrameKinds
<1>3. CASE Head(todo) \in Inner
  <2>1. Head(todo) \in Listed
    <3>1. Head(todo) \in Parts
      BY <1>1, <1>3, PartKinds
    <3>2. QED
      BY <1>1, <3>1 DEF Parts
  <2>2. Head(todo) \in {"option"} \X Words \X {<<Expression>>}
    <3>1. Head(todo) \notin ({"consume"} \X Words) \cup ({"make"} \X Seq(Words) \X Nat)
      BY <1>1
    <3>2. Head(todo) \notin {Name, Add, Expression, Type}
      BY <1>1 DEF Name, Add, Expression, Type
    <3>3. QED
      BY <2>1, <3>1, <3>2 DEF Listed, Leaves
  <2>3. Of(3) = <<Expression>>
    BY <2>2 DEF Of
  <2>4. QED
    BY <2>3, PartItems, PartLists, PlainMembers
<1>4. CASE Head(todo) \notin Inner
  <2>1. Head(todo) \in Outer
    BY <1>1, <1>2, <1>4 DEF Items
  <2>2. Of(3) \in {<<Statement>>, <<Type>>}
    BY <1>1, <2>1, OuterItemKinds DEF Of, OuterKinds
  <2>3. PlainList(<<Statement>>) /\ PlainList(<<Type>>)
    BY OuterItems, PartItems, PlainMembers, PlainLists
  <2>4. QED
    BY <1>4, <2>2, <2>3
<1>5. QED
  BY <1>3, <1>4

LEMMA OptionallyTurns ==
  ASSUME IInv, text' = text, Optionally
  PROVE  IInv'
<1>1. Do = "option" /\ (Take(Of(3)) \/ Go(<<Nil>>))
  BY DEF Optionally
<1>2. todo # <<>> /\ Head(todo) # Recover
  BY <1>1, HeadIs DEF InnerKinds
<1>3. ~Closing
  BY <1>1, <1>2, NotClosing DEF FrameKinds
<1>4. PartList(<<Nil>>) /\ PlainList(<<Nil>>)
  BY PartItems, PartLists, PlainMembers
<1>5. PICK items : /\ PlainList(items) /\ (Head(todo) \in Inner => PartList(items))
                   /\ Take(items) \/ Go(items) \/ Fail(items)
  BY <1>1, <1>4, OptionItem
<1>6. items \in Seq(Plain) /\ (Head(todo) \in Inner => items \in Seq(Parts))
  BY <1>5 DEF PlainList, PartList
<1>7. QED
  BY <1>2, <1>3, <1>5, <1>6, PlainTurn

LEMMA UnlessTokenTurns ==
  ASSUME IInv, text' = text, UnlessToken
  PROVE  IInv'
<1>1. Do = "unless"
  BY DEF UnlessToken
<1>2. Head(todo) \in Outer /\ Head(todo)[1] = "unless"
  BY <1>1, HeadIs DEF OuterKinds
<1>3. Of(3) = <<Expression>>
  <2>1. Head(todo) \in {"unless"} \X Words \X {<<Expression>>}
    <3>1. /\ Head(todo) \notin {"option"} \X Words \X {<<Statement>>, <<Type>>}
          /\ Head(todo) \notin {"variable", "value"} \X Words
          /\ Head(todo) \notin {"modifiers", "dll"} \X (SUBSET Words) \X (SUBSET Words)
          /\ Head(todo) \notin {"params", "moreParams"} \X BOOLEAN
      BY <1>2
    <3>2. Head(todo) \notin {Statement, <<"endExpression">>, <<"initial">>, <<"etc">>,
                             <<"firstParam">>, <<"body">>, <<"fields">>, <<"typed">>, <<"declaration">>}
      BY <1>2 DEF Statement
    <3>3. QED
      BY <1>2, <3>1, <3>2 DEF Outer
  <2>2. QED
    BY <2>1 DEF Of
<1>4. PlainList(<<Nil>>) /\ PlainList(<<Expression>>)
  BY PartItems, PartLists, PlainMembers
<1>5. PICK items : PlainList(items) /\ (Take(items) \/ Go(items) \/ Fail(items))
  BY <1>3, <1>4 DEF UnlessToken
<1>6. QED
  BY <1>1, <1>5, OuterTurn DEF OuterKinds

LEMMA SeparatedTurns ==
  ASSUME IInv, text' = text, Separated
  PROVE  IInv'
<1>1. Do \in {"comma", "listUntil"}
  BY DEF Separated
<1>2. Head(todo) \in Inner /\ Head(todo)[1] = Do
  BY <1>1, HeadIs DEF InnerKinds
<1>3. /\ Do = "comma" => Of(2) \in Seq(Listed)
      /\ Do = "listUntil" => Of(3) \in Seq(Listed)
  <2>1. Head(todo) \notin Listed
    BY <1>1, <1>2, LeafKinds
  <2>2. Head(todo) \in Parts
    BY <1>1, <1>2, PartKinds
  <2>3. Head(todo) \in ({"comma"} \X Seq(Listed)) \cup ({"listUntil"} \X Words \X Seq(Listed))
    <3>1. Head(todo) \notin ({"put"} \X PutTrees) \cup ({"loops"} \X (1 .. 10) \X (1 .. 11))
      BY <1>1, <1>2
    <3>2. Head(todo) \notin {<<"affix">>, <<"qualifier">>, <<"assigns">>, <<"unaries">>, <<"suffixes">>,
                             <<"primary">>, <<"sizeof">>}
      BY <1>1, <1>2
    <3>3. QED
      BY <2>1, <2>2, <3>1, <3>2 DEF Parts
  <2>4. CASE Head(todo) \in {"comma"} \X Seq(Listed)
    BY <1>2, <2>4 DEF Of
  <2>5. CASE Head(todo) \in {"listUntil"} \X Words \X Seq(Listed)
    BY <1>2, <2>5 DEF Of
  <2>6. QED
    BY <2>3, <2>4, <2>5
<1>4. \A s \in Seq(Listed) : PartList(Append(s, Comma(s)))
  <2>1. TAKE s \in Seq(Listed)
  <2>2. \A x \in Listed : x \in Parts
    BY DEF Parts
  <2>3. PartList(s)
    BY <2>2 DEF PartList
  <2>4. QED
    BY <2>3, PartItems, PartLists
<1>5. PartList(<<>>)
  BY PartLists
<1>6. PICK items : PartList(items) /\ (Take(items) \/ Go(items) \/ Fail(items))
  BY <1>1, <1>3, <1>4, <1>5 DEF Separated
<1>7. QED
  BY <1>1, <1>6, PartTurn DEF InnerKinds

(* No error is behind an operator that assigns, unless the parser panics.  *)
LEMMA AssignsTurns ==
  ASSUME IInv, text' = text, Assigns
  PROVE  IInv'
<1>1. Do = "assigns"
  BY DEF Assigns
<1>2. CASE Go(<<>>)
  BY <1>1, <1>2, PartLists, PartTurn DEF InnerKinds
<1>3. CASE Current \in AssignOps /\ Take(<<Expression, <<"assign", Current, pos>>>>)
  <2>1. todo # <<>> /\ Head(todo) # Recover /\ Head(todo) \in Inner
    BY <1>1, HeadIs DEF InnerKinds
  <2>2. ~Closing
    BY <1>1, <2>1, NotClosing DEF FrameKinds
  <2>3. pos \in Nat /\ pos <= Len(Tokens)
    <3>1. Current # "eof"
      BY <1>3 DEF AssignOps
    <3>2. QED
      BY <3>1, TheEndIsNoToken
  <2>4. PICK x : x = <<"assign", Current, pos>>
    OBVIOUS
  <2>5. x \in {"assign"} \X Words \X Nat /\ x[1] = "assign" /\ x[3] = pos
    BY <1>3, <2>3, <2>4, Operators
  <2>6. x \in Inner /\ Expression \in Inner /\ Expression[1] # "assign"
    <3>1. Expression \in Parts
      BY PartItems
    <3>2. QED
      BY <2>5, <3>1 DEF Inner, Expression
  <2>7. x # Recover /\ Expression # Recover /\ x \notin Frame /\ Expression \notin Frame
        /\ x \in Items /\ Expression \in Items
    <3>1. x \in Items /\ Expression \in Items
      BY <2>6 DEF Items
    <3>2. x \notin Frame /\ Expression \notin Frame
      BY <2>6, <3>1, Kinds
    <3>3. QED
      BY <3>1, <3>2 DEF Frame
  <2>8. PICK items : items = <<Expression, x>>
    OBVIOUS
  <2>9. items \in Seq(Items) /\ Len(items) = 2 /\ items[1] = Expression /\ items[2] = x
    BY <2>7, <2>8
  <2>10. \A j \in 1 .. Len(items) : j = 1 \/ j = 2
    BY <2>9
  <2>11. Cursor /\ todo' = items \o Tail(todo) /\ Moves
    BY <1>3, <2>4, <2>8, Moving
  <2>12. \A j \in 1 .. Len(items) : items[j] \notin Frame /\ items[j] # Recover /\ items[j] \in Inner
    BY <2>6, <2>7, <2>9, <2>10
  <2>13. Links(todo')
    BY <2>1, <2>9, <2>11, <2>12, PlainPushed DEF IInv, TypeInv
  <2>14. \A j \in 1 .. Len(items) : items[j][1] = "assign" =>
            Head(todo) \in Inner /\ items[j][3] = pos /\ pos <= Len(Tokens) /\ ~Closing /\ Moves
    BY <2>1, <2>2, <2>3, <2>5, <2>6, <2>9, <2>10, <2>11
  <2>15. QED
    BY <2>1, <2>2, <2>9, <2>11, <2>12, <2>13, <2>14, Turn
<1>4. QED
  BY <1>2, <1>3 DEF Assigns

LEMMA MakeAssignmentTurns ==
  ASSUME IInv, text' = text, MakeAssignment
  PROVE  IInv'
<1>1. Do = "assign"
  BY DEF MakeAssignment
<1>2. todo # <<>> /\ Head(todo) # Recover /\ Head(todo) \in Inner /\ Head(todo) = todo[1] /\ Head(todo)[1] = "assign"
  BY <1>1, HeadIs DEF InnerKinds
<1>3. Of(2) \in Words /\ Of(3) \in Nat
  BY <1>2, AssignItem DEF Of
<1>4. CASE Go(<<Make(<<"assign", Of(2)>>, 2)>>)
  <2>1. PartList(<<Make(<<"assign", Of(2)>>, 2)>>)
    BY <1>3, AreWords, PartItems, PartLists
  <2>2. QED
    BY <1>1, <1>4, <2>1, PartTurn DEF InnerKinds
<1>5. CASE pos' = pos /\ Report(Of(3)) /\ Continue(<<>>)
  <2>1. /\ Len(Tokens) \in Nat /\ pos \in 1 .. Len(Tokens) + 1 /\ Tokens' = Tokens /\ text \in Texts
        /\ todo \in Seq(Items) /\ panic \in BOOLEAN /\ pos \in Nat /\ Len(todo) \in Nat
        /\ reported \in Seq(Nat) /\ Len(reported) \in Nat
    BY TextsAssumption DEF IInv, TypeInv, Tokens
  <2>2. Of(3) < pos /\ Assigned(Of(3))
    <3>1. 1 \in 1 .. Len(todo)
      BY <1>2, <2>1
    <3>2. QED
      BY <1>2, <3>1 DEF IInv, AssignInv, Of
  <2>3. ~panic => /\ reported = <<>> \/ reported[Len(reported)] <= Of(3)
                  /\ Twice(Of(3)) => Of(3) > Len(Tokens)
    BY <2>2 DEF Assigned, NotBehind, Twice
  <2>4. /\ panic' = TRUE /\ reported' \in Seq(Nat)
        /\ panic => reported' = reported
        /\ \A i \in 1 .. Len(reported') : reported'[i] <= pos \/ reported'[i] = Of(3)
        /\ ~panic => /\ Len(reported') = Len(reported) + 1 /\ reported'[Len(reported) + 1] = Of(3)
                      /\ \A i \in 1 .. Len(reported) : reported'[i] = reported[i]
        /\ \A i \in 1 .. Len(reported') - 1 :
             /\ reported'[i] <= reported'[i + 1]
             /\ i + 2 <= Len(reported') /\ reported'[i] <= Len(Tokens) => reported'[i] < reported'[i + 2]
    BY <1>3, <1>5, <2>3, Reporting DEF IInv
  <2>5. ReportsInv'
    <3>1. \A i \in 1 .. Len(reported') : reported'[i] <= pos'
      BY <1>3, <1>5, <2>1, <2>2, <2>4
    <3>2. QED
      BY <2>1, <2>4, <3>1 DEF ReportsInv, NoErrorThrice
  <2>6. PICK items : items = <<>> /\ items \in Seq(Items) /\ 1 .. Len(items) = {}
    <3>1. <<>> \in Seq(Items) /\ Len(<<>>) = 0
      OBVIOUS
    <3>2. 1 .. 0 = {}
      OBVIOUS
    <3>3. QED
      BY <3>1, <3>2
  <2>7. todo' = items \o Tail(todo)
    BY <1>5, <2>6 DEF Continue
  <2>8. TypeInv'
    <3>1. todo' \in Seq(Items)
      BY <1>2, <2>1, <2>6, <2>7, Pushed
    <3>2. QED
      BY <1>5, <2>1, <2>4, <3>1 DEF TypeInv
  <2>9. Links(todo')
    BY <1>2, <2>1, <2>6, <2>7, PlainPushed DEF IInv
  <2>10. AssignInv'
    <3>1. pos' \in Nat /\ pos' >= pos /\ panic'
      BY <1>5, <2>1, <2>4
    <3>2. \A j \in 1 .. Len(items) : items[j] \in Inner
      BY <2>6
    <3>3. \A j \in 1 .. Len(items) : items[j][1] = "assign" =>
            Head(todo) \in Inner /\ items[j][3] < pos' /\ NotBehind(reported', ~panic', items[j][3])
      BY <2>6
    <3>4. QED
      BY <1>2, <2>6, <2>7, <3>1, <3>2, <3>3, AssignsStay
  <2>11. SettledInv'
    <3>1. SUFFICES ASSUME pos' <= Len(Tokens), Twice(pos)' PROVE Fresh'
      BY <2>1, <2>4 DEF SettledInv
    <3>2. CASE panic
      <4>1. Twice(pos)
        BY <1>5, <2>4, <3>1, <3>2 DEF Twice
      <4>2. Fresh
        BY <1>5, <3>1, <3>2, <4>1 DEF IInv, SettledInv
      <4>3. QED
        BY <1>2, <1>5, <2>1, <2>6, <2>7, <4>2, FreshStays
    <3>3. CASE ~panic
      <4>1. reported'[Len(reported')] = Of(3)
        BY <2>4, <3>3
      <4>2. reported'[Len(reported')] = pos
        BY <1>5, <3>1 DEF Twice
      <4>3. QED
        BY <1>3, <2>1, <2>2, <4>1, <4>2
    <3>4. QED
      BY <3>2, <3>3
  <2>12. QED
    BY <2>5, <2>8, <2>9, <2>10, <2>11 DEF IInv
<1>6. QED
  BY <1>4, <1>5 DEF MakeAssignment

-----------------------------------------------------------------------------
(* Declarations and statements.                                            *)

LEMMA EndExpressionTurns ==
  ASSUME IInv, text' = text, EndExpression
  PROVE  IInv'
<1>1. Do = "endExpression"
  BY DEF EndExpression
<1>2. /\ PlainList(<<>>)
      /\ PlainList(<<C(";"), Make(<<"expr">>, 1)>>)
  BY AreWords, PartItems, OuterItems, PlainMembers, PlainLists
<1>3. PICK items : PlainList(items) /\ (Take(items) \/ Go(items) \/ Fail(items))
  BY <1>2 DEF EndExpression
<1>4. QED
  BY <1>1, <1>3, OuterTurn DEF OuterKinds

LEMMA InitialTurns ==
  ASSUME IInv, text' = text, Initial
  PROVE  IInv'
<1>1. Do = "initial"
  BY DEF Initial
<1>2. /\ PlainList(<<Nil>>)
      /\ PlainList(<<Variable("sit")>>)
      /\ PlainList(ExpressionStatement)
  BY AreWords, PartItems, OuterItems, PlainMembers, PlainLists DEF ExpressionStatement
<1>3. PICK items : PlainList(items) /\ (Take(items) \/ Go(items) \/ Fail(items))
  BY <1>2 DEF Initial
<1>4. QED
  BY <1>1, <1>3, OuterTurn DEF OuterKinds

LEMMA NamedItem ==
  ASSUME IInv, Do \in {"variable", "value"}
  PROVE  Of(2) \in Words
<1>1. Head(todo) \in Outer /\ Head(todo)[1] = Do
  BY HeadIs DEF OuterKinds
<1>2. Head(todo) \in {"variable", "value"} \X Words
  <2>1. /\ Head(todo) \notin {"option"} \X Words \X {<<Statement>>, <<Type>>}
        /\ Head(todo) \notin {"unless"} \X Words \X {<<Expression>>}
        /\ Head(todo) \notin {"modifiers", "dll"} \X (SUBSET Words) \X (SUBSET Words)
        /\ Head(todo) \notin {"params", "moreParams"} \X BOOLEAN
    BY <1>1
  <2>2. Head(todo) \notin {Statement, <<"endExpression">>, <<"initial">>, <<"etc">>,
                           <<"firstParam">>, <<"body">>, <<"fields">>, <<"typed">>, <<"declaration">>}
    BY <1>1 DEF Statement
  <2>3. QED
    BY <1>1, <2>1, <2>2 DEF Outer
<1>3. QED
  BY <1>2 DEF Of

LEMMA ModifierSets ==
  /\ {"edita"} \in SUBSET Words /\ {} \in SUBSET Words
  /\ {"edita", "barbara"} \in SUBSET Words /\ {"edita", "densa"} \in SUBSET Words
  BY AreWords

LEMMA ExportItem ==
  Export \in Outer
  BY ModifierSets, OuterItems DEF Export

LEMMA ParseVariableTurns ==
  ASSUME IInv, text' = text, ParseVariable
  PROVE  IInv'
<1>1. Do = "variable"
  BY DEF ParseVariable
<1>a. Of(2) \in Words
  BY <1>1, NamedItem
<1>2. /\ PlainList(<<Export, Name, Option(":", <<Type>>), Option("mica", <<Expression>>), <<"value", Of(2)>>,
                     <<"typed">>, C(";"), Make(<<Of(2)>>, 5)>>)
  BY <1>a, AreWords, PartItems, OuterItems, PlainMembers, PlainLists, ExportItem
<1>3. PICK items : PlainList(items) /\ (Take(items) \/ Go(items) \/ Fail(items))
  BY <1>2 DEF ParseVariable
<1>4. QED
  BY <1>1, <1>3, OuterTurn DEF OuterKinds

LEMMA ValueTurns ==
  ASSUME IInv, text' = text, Value
  PROVE  IInv'
<1>1. Do = "value"
  BY DEF Value
<1>2. /\ PlainList(<<Nil>>)
      /\ PlainList(<<Expression>>)
  BY AreWords, PartItems, OuterItems, PlainMembers, PlainLists
<1>3. PICK items : PlainList(items) /\ (Take(items) \/ Go(items) \/ Fail(items))
  BY <1>2 DEF Value
<1>4. QED
  BY <1>1, <1>3, OuterTurn DEF OuterKinds

LEMMA TypedTurns ==
  ASSUME IInv, text' = text, Typed
  PROVE  IInv'
<1>1. Do = "typed"
  BY DEF Typed
<1>2. /\ PlainList(<<>>)
  BY AreWords, PartItems, OuterItems, PlainMembers, PlainLists
<1>3. PICK items : PlainList(items) /\ (Take(items) \/ Go(items) \/ Fail(items))
  BY <1>2 DEF Typed
<1>4. QED
  BY <1>1, <1>3, OuterTurn DEF OuterKinds

LEMMA ModifiersItem ==
  ASSUME IInv, Do \in {"modifiers", "dll"}
  PROVE  Of(2) \in SUBSET Words /\ Of(3) \in SUBSET Words
<1>1. Head(todo) \in Outer /\ Head(todo)[1] = Do
  BY HeadIs DEF OuterKinds
<1>2. Head(todo) \in {"modifiers", "dll"} \X (SUBSET Words) \X (SUBSET Words)
  <2>1. /\ Head(todo) \notin {"option"} \X Words \X {<<Statement>>, <<Type>>}
        /\ Head(todo) \notin {"unless"} \X Words \X {<<Expression>>}
        /\ Head(todo) \notin {"variable", "value"} \X Words
        /\ Head(todo) \notin {"params", "moreParams"} \X BOOLEAN
    BY <1>1
  <2>2. Head(todo) \notin {Statement, <<"endExpression">>, <<"initial">>, <<"etc">>,
                           <<"firstParam">>, <<"body">>, <<"fields">>, <<"typed">>, <<"declaration">>}
    BY <1>1 DEF Statement
  <2>3. QED
    BY <1>1, <2>1, <2>2 DEF Outer
<1>3. QED
  BY <1>2 DEF Of

LEMMA ModifiersTurns ==
  ASSUME IInv, text' = text, Modifiers
  PROVE  IInv'
<1>1. Do = "modifiers"
  BY DEF Modifiers
<1>2. Of(2) \in SUBSET Words /\ Of(3) \in SUBSET Words
  BY <1>1, ModifiersItem
<1>3. CASE Go(<<>>)
  BY <1>1, <1>3, PlainLists, OuterTurn DEF OuterKinds
<1>4. ASSUME Current \in Of(2),
             Take(<< <<IF Current = "barbara" THEN "dll" ELSE "modifiers",
                       IF Of(2) = {"edita"} THEN {} ELSE Of(2), Of(3) \cup {Current}>> >>)
      PROVE  IInv'
  <2>1. PICK a, f : a = (IF Of(2) = {"edita"} THEN {} ELSE Of(2)) /\ f = Of(3) \cup {Current}
    OBVIOUS
  <2>2. a \in SUBSET Words /\ f \in SUBSET Words
    BY <1>2, <1>4, <2>1
  <2>3. PlainList(<< <<"dll", a, f>> >>) /\ PlainList(<< <<"modifiers", a, f>> >>)
    BY <2>2, OuterItems, PlainMembers, PlainLists
  <2>4. Take(<< <<"dll", a, f>> >>) \/ Take(<< <<"modifiers", a, f>> >>)
    BY <1>4, <2>1
  <2>5. QED
    BY <1>1, <2>3, <2>4, OuterTurn DEF OuterKinds
<1>5. QED
  BY <1>3, <1>4 DEF Modifiers

LEMMA DllTurns ==
  ASSUME IInv, text' = text, Dll
  PROVE  IInv'
<1>1. Do = "dll"
  BY DEF Dll
<1>2. Of(2) \in SUBSET Words /\ Of(3) \in SUBSET Words
  BY <1>1, ModifiersItem
<1>3. Of(3) \cup {"dll"} \in SUBSET Words
  BY <1>2, AreWords
<1>4. /\ PlainList(<<C("s"), C(")"), <<"modifiers", Of(2), Of(3) \cup {"dll"}>>>>)
      /\ PlainList(<< <<"modifiers", Of(2), Of(3)>> >>)
  BY <1>2, <1>3, AreWords, PartItems, OuterItems, PlainMembers, PlainLists
<1>5. PICK items : PlainList(items) /\ (Take(items) \/ Go(items) \/ Fail(items))
  BY <1>4 DEF Dll
<1>6. QED
  BY <1>1, <1>5, OuterTurn DEF OuterKinds

LEMMA ParamsItem ==
  ASSUME IInv, Do \in {"params", "moreParams"}
  PROVE  Of(2) \in BOOLEAN
<1>1. Head(todo) \in Outer /\ Head(todo)[1] = Do
  BY HeadIs DEF OuterKinds
<1>2. Head(todo) \in {"params", "moreParams"} \X BOOLEAN
  <2>1. /\ Head(todo) \notin {"option"} \X Words \X {<<Statement>>, <<Type>>}
        /\ Head(todo) \notin {"unless"} \X Words \X {<<Expression>>}
        /\ Head(todo) \notin {"variable", "value"} \X Words
        /\ Head(todo) \notin {"modifiers", "dll"} \X (SUBSET Words) \X (SUBSET Words)
    BY <1>1
  <2>2. Head(todo) \notin {Statement, <<"endExpression">>, <<"initial">>, <<"etc">>,
                           <<"firstParam">>, <<"body">>, <<"fields">>, <<"typed">>, <<"declaration">>}
    BY <1>1 DEF Statement
  <2>3. QED
    BY <1>1, <2>1, <2>2 DEF Outer
<1>3. QED
  BY <1>2 DEF Of

LEMMA ParameterList ==
  ASSUME NEW etc, PlainList(etc)
  PROVE  PlainList(Parameter(etc))
<1>1. PlainList(<<Name, C(":"), Type, Make(<<"param">>, 2)>>) /\ PlainList(<<Add>>)
  BY AreWords, PartItems, PlainMembers, PlainLists
<1>2. PlainList(<<Name, C(":"), Type, Make(<<"param">>, 2)>> \o etc)
  BY <1>1, PlainLists
<1>3. QED
  BY <1>1, <1>2, PlainLists DEF Parameter

LEMMA NoMore ==
  /\ <<"moreParams", FALSE>> \in Plain /\ <<"moreParams", TRUE>> \in Plain
  /\ <<"params", FALSE>> \in Plain
<1>1. \A b \in BOOLEAN : <<"moreParams", b>> \in Plain /\ <<"params", b>> \in Plain
  BY OuterItems, PlainMembers
<1>2. QED
  BY <1>1

LEMMA ParamsTurns ==
  ASSUME IInv, text' = text, Params
  PROVE  IInv'
<1>1. Do = "params"
  BY DEF Params
<1>2. /\ PlainList(<<>>)
      /\ PlainList(<<<<"etc">>>>)
      /\ PlainList(Append(Parameter(<<>>), <<"moreParams", FALSE>>))
  BY ParameterList, NoMore, OuterItems, PlainMembers, PlainLists
<1>3. PICK items : PlainList(items) /\ (Take(items) \/ Go(items) \/ Fail(items))
  BY <1>2 DEF Params
<1>4. QED
  BY <1>1, <1>3, OuterTurn DEF OuterKinds

LEMMA EtcTurns ==
  ASSUME IInv, text' = text, Etc
  PROVE  IInv'
<1>1. Do = "etc"
  BY DEF Etc
<1>2. /\ PlainList(<<Put(<<"etc", <<"null">>>>), Add>>)
      /\ PlainList(Append(Parameter(<<Make(<<"etc">>, 1)>>), <<"moreParams", TRUE>>))
  BY AreWords, PartItems, ParameterList, NoMore, OuterItems, PlainMembers, PlainLists
<1>3. PICK items : PlainList(items) /\ (Take(items) \/ Go(items) \/ Fail(items))
  BY <1>2 DEF Etc
<1>4. QED
  BY <1>1, <1>3, OuterTurn DEF OuterKinds

LEMMA MoreParamsTurns ==
  ASSUME IInv, text' = text, MoreParams
  PROVE  IInv'
<1>1. Do = "moreParams"
  BY DEF MoreParams
<1>a. Of(2) \in BOOLEAN
  BY <1>1, ParamsItem
<1>2. /\ PlainList(<<>>)
      /\ PlainList(<<<<"params", Of(2)>>>>)
  BY <1>a, OuterItems, PlainMembers, PlainLists
<1>3. PICK items : PlainList(items) /\ (Take(items) \/ Go(items) \/ Fail(items))
  BY <1>2 DEF MoreParams
<1>4. QED
  BY <1>1, <1>3, OuterTurn DEF OuterKinds

LEMMA FirstParamTurns ==
  ASSUME IInv, text' = text, FirstParam
  PROVE  IInv'
<1>1. Do = "firstParam"
  BY DEF FirstParam
<1>2. /\ PlainList(<<>>)
      /\ PlainList(<<<<"params", FALSE>>>>)
  BY NoMore, PlainLists
<1>3. PICK items : PlainList(items) /\ (Take(items) \/ Go(items) \/ Fail(items))
  BY <1>2 DEF FirstParam
<1>4. QED
  BY <1>1, <1>3, OuterTurn DEF OuterKinds

(* Lists with a loop in them: what it leads to follows it.                 *)
LinkedList(s) ==
  /\ s \in Seq(Items) /\ Links(s)
  /\ \A j \in 1 .. Len(s) : s[j] # Recover /\ s[j][1] # "assign"

LEMMA LinkMoves ==
  ASSUME NEW s, NEW i, NEW r, NEW j, Link(s, i), r[j] = s[i],
         i + 1 <= Len(s) => j + 1 <= Len(r) /\ r[j + 1] = s[i + 1],
         i + 2 <= Len(s) => j + 2 <= Len(r) /\ r[j + 2] = s[i + 2] /\ i + 1 <= Len(s)
  PROVE  Link(r, j)
  BY DEF Link

LEMMA LoopLink ==
  ASSUME NEW s, NEW j, s[j] \in {FileLoop, BlockLoop, ArmLoop},
         s[j] = BlockLoop => j + 1 <= Len(s) /\ s[j + 1] = Close,
         s[j] = ArmLoop => j + 2 <= Len(s) /\ s[j + 1][1] = "make" /\ s[j + 2] \in EndArms
  PROVE  Link(s, j)
<1>1. s[j][1] = "loop"
  BY LoopKind
<1>2. s[j] # Recover /\ s[j] # Arms /\ s[j] \notin EndArms /\ s[j][1] # "landed"
  BY <1>1 DEF Recover, Arms, EndArms
<1>3. QED
  BY <1>2 DEF Link

LEMMA ArmsLink ==
  ASSUME NEW s, NEW j, s[j] \in {Arms} \cup EndArms, j + 1 <= Len(s),
         s[j] = Arms => s[j + 1] = Close, s[j] \in EndArms => s[j + 1] = Arms
  PROVE  Link(s, j)
<1>1. s[j][1] # "loop" /\ s[j][1] # "landed" /\ s[j] # Recover
  BY DEF Arms, EndArms, Recover
<1>2. s[j] # BlockLoop /\ s[j] # ArmLoop
  BY <1>1, LoopKind
<1>3. QED
  BY <1>1, <1>2 DEF Link

LEMMA LinkedPlain ==
  ASSUME NEW s, PlainList(s)
  PROVE  LinkedList(s)
<1>1. s \in Seq(Items) /\ \A j \in 1 .. Len(s) : s[j] \in Plain
  BY PlainItems DEF PlainList
<1>2. \A j \in 1 .. Len(s) : s[j] \notin Frame /\ s[j] # Recover /\ s[j][1] # "assign"
  BY <1>1, PlainItems
<1>3. Links(s)
  BY <1>1, <1>2, NoLink DEF Links
<1>4. QED
  BY <1>1, <1>2, <1>3 DEF LinkedList

LEMMA LinkedJoined ==
  ASSUME NEW s, NEW t, LinkedList(s), LinkedList(t)
  PROVE  LinkedList(s \o t)
<1>1. PICK r : r = s \o t
  OBVIOUS
<1>2. /\ s \in Seq(Items) /\ t \in Seq(Items) /\ Links(s) /\ Links(t)
      /\ \A j \in 1 .. Len(s) : s[j] # Recover /\ s[j][1] # "assign"
      /\ \A j \in 1 .. Len(t) : t[j] # Recover /\ t[j][1] # "assign"
  BY DEF LinkedList
<1>3. /\ r \in Seq(Items) /\ Len(r) = Len(s) + Len(t) /\ Len(s) \in Nat /\ Len(t) \in Nat
      /\ \A j \in 1 .. Len(s) : r[j] = s[j]
      /\ \A j \in Len(s) + 1 .. Len(s) + Len(t) : r[j] = t[j - Len(s)]
  BY <1>1, <1>2
<1>4. ASSUME NEW j \in 1 .. Len(r) PROVE Link(r, j) /\ r[j] # Recover /\ r[j][1] # "assign"
  <2>1. CASE j <= Len(s)
    <3>1. j \in 1 .. Len(s) /\ r[j] = s[j] /\ Link(s, j)
      BY <1>2, <1>3, <2>1 DEF Links
    <3>2. j + 1 <= Len(s) => j + 1 <= Len(r) /\ r[j + 1] = s[j + 1]
      BY <1>3, <3>1
    <3>3. j + 2 <= Len(s) => j + 2 <= Len(r) /\ r[j + 2] = s[j + 2] /\ j + 1 <= Len(s)
      BY <1>3, <3>1
    <3>4. Link(r, j)
      BY <3>1, <3>2, <3>3, LinkMoves
    <3>5. QED
      BY <1>2, <3>1, <3>4
  <2>2. CASE ~(j <= Len(s))
    <3>1. PICK i : i = j - Len(s)
      OBVIOUS
    <3>2. i \in 1 .. Len(t) /\ r[j] = t[i] /\ Link(t, i)
      BY <1>2, <1>3, <2>2, <3>1 DEF Links
    <3>3. i + 1 <= Len(t) => j + 1 <= Len(r) /\ r[j + 1] = t[i + 1]
      <4>1. HAVE i + 1 <= Len(t)
      <4>2. j + 1 \in Len(s) + 1 .. Len(s) + Len(t) /\ (j + 1) - Len(s) = i + 1
        BY <1>3, <3>1, <3>2, <4>1
      <4>3. QED
        BY <1>3, <4>2
    <3>4. i + 2 <= Len(t) => j + 2 <= Len(r) /\ r[j + 2] = t[i + 2] /\ i + 1 <= Len(t)
      <4>1. HAVE i + 2 <= Len(t)
      <4>2. j + 2 \in Len(s) + 1 .. Len(s) + Len(t) /\ (j + 2) - Len(s) = i + 2 /\ i + 1 <= Len(t)
        BY <1>3, <3>1, <3>2, <4>1
      <4>3. QED
        BY <1>3, <4>2
    <3>5. Link(r, j)
      BY <3>2, <3>3, <3>4, LinkMoves
    <3>6. QED
      BY <1>2, <3>2, <3>5
  <2>3. QED
    BY <2>1, <2>2
<1>5. LinkedList(r)
  BY <1>3, <1>4 DEF LinkedList, Links
<1>6. QED
  BY <1>1, <1>5

LEMMA LinkedTurn ==
  ASSUME IInv, text' = text, todo # <<>>, Head(todo) \notin Inner, Head(todo) # Recover,
         NEW items, LinkedList(items), Take(items) \/ Go(items) \/ Fail(items),
         ~Closing \/ Take(items)
  PROVE  IInv'
<1>1. /\ Cursor /\ todo' = items \o Tail(todo) /\ (Take(items) => Moves)
  BY Moving
<1>2. /\ items \in Seq(Items) /\ Links(items)
      /\ \A j \in 1 .. Len(items) : items[j] # Recover /\ items[j][1] # "assign"
  BY DEF LinkedList
<1>3. Links(todo')
  BY <1>1, <1>2, LinkedPushed DEF IInv, TypeInv
<1>4. QED
  BY <1>1, <1>2, <1>3, Turn

LEMMA OuterLinkedTurn ==
  ASSUME IInv, text' = text, NEW k \in OuterKinds, Do = k,
         NEW items, LinkedList(items), Take(items) \/ Go(items) \/ Fail(items)
  PROVE  IInv'
<1>1. todo # <<>> /\ Head(todo) # Recover /\ Head(todo) \notin Inner
  BY HeadIs DEF OuterKinds
<1>2. ~Closing
  BY <1>1, NotClosing DEF OuterKinds, FrameKinds
<1>3. QED
  BY <1>1, <1>2, LinkedTurn

LEMMA FrameItems ==
  /\ Plain \subseteq Items /\ Recover \in Items /\ Arms \in Items /\ EndArms \subseteq Items
  /\ \A n \in Nat : <<"landed", n>> \in Items
  /\ FileLoop \in Items /\ BlockLoop \in Items /\ ArmLoop \in Items
<1>1. Plain \subseteq Items
  BY DEF Plain, Items, Inner
<1>2. \A n \in Nat : <<"landed", n>> \in {"landed"} \X Nat
  OBVIOUS
<1>3. QED
  BY <1>1, <1>2 DEF Items, Frame

LEMMA MostlyPlain ==
  ASSUME NEW s \in Seq(Items),
         \A j \in 1 .. Len(s) :
           s[j] \in Plain \/ (Link(s, j) /\ s[j] # Recover /\ s[j][1] # "assign")
  PROVE  LinkedList(s)
<1>1. ASSUME NEW j \in 1 .. Len(s) PROVE Link(s, j) /\ s[j] # Recover /\ s[j][1] # "assign"
  <2>1. CASE s[j] \in Plain
    BY <2>1, PlainItems, NoLink
  <2>2. QED
    BY <2>1
<1>2. QED
  BY <1>1 DEF LinkedList, Links

LEMMA BlockList ==
  LinkedList(BlockBody)
<1>1. PICK a, d : a = EmptyList /\ d = Make(<<"block">>, 1)
  OBVIOUS
<1>2. a \in Plain /\ d \in Plain /\ Close \in Plain
  BY <1>1, AreWords, PartItems, PlainMembers DEF Close
<1>3. PICK s : s = <<a, BlockLoop, Close, d>>
  OBVIOUS
<1>4. s \in Seq(Items) /\ Len(s) = 4 /\ s[1] = a /\ s[2] = BlockLoop /\ s[3] = Close /\ s[4] = d
  BY <1>2, <1>3, FrameItems
<1>5. Link(s, 2) /\ s[2] # Recover /\ s[2][1] # "assign"
  BY <1>4, LoopLink, LoopKind DEF Recover
<1>6. \A j \in 1 .. Len(s) : j = 1 \/ j = 2 \/ j = 3 \/ j = 4
  BY <1>4
<1>7. LinkedList(s)
  BY <1>2, <1>4, <1>5, <1>6, MostlyPlain
<1>8. s = BlockBody
  BY <1>1, <1>3 DEF BlockBody, BlockLoop, Close
<1>9. QED
  BY <1>7, <1>8

LEMMA BodyTurns ==
  ASSUME IInv, text' = text, Body
  PROVE  IInv'
<1>1. Do = "body"
  BY DEF Body
<1>2. PlainList(<<Nil>>) /\ PlainList(<<C("{")>>)
  BY AreWords, PartItems, PlainMembers, PlainLists
<1>3. LinkedList(<<Nil>>) /\ LinkedList(<<C("{")>> \o BlockBody)
  BY <1>2, BlockList, LinkedPlain, LinkedJoined
<1>4. PICK items : LinkedList(items) /\ (Take(items) \/ Go(items) \/ Fail(items))
  BY <1>3 DEF Body
<1>5. QED
  BY <1>1, <1>4, OuterLinkedTurn DEF OuterKinds

LEMMA CasesList ==
  LinkedList(<<C("{"), EmptyList, Nil, Arms, Close, Make(<<"elige">>, 3)>>)
<1>1. PICK a, b, c, f : a = C("{") /\ b = EmptyList /\ c = Nil /\ f = Make(<<"elige">>, 3)
  OBVIOUS
<1>2. a \in Plain /\ b \in Plain /\ c \in Plain /\ f \in Plain /\ Close \in Plain
  BY <1>1, AreWords, PartItems, PlainMembers DEF Close
<1>3. PICK s : s = <<a, b, c, Arms, Close, f>>
  OBVIOUS
<1>4. /\ s \in Seq(Items) /\ Len(s) = 6 /\ s[1] = a /\ s[2] = b /\ s[3] = c
      /\ s[4] = Arms /\ s[5] = Close /\ s[6] = f
  BY <1>2, <1>3, FrameItems
<1>5. Arms \notin EndArms /\ Arms # Recover /\ Arms[1] # "assign"
  BY DEF Arms, EndArms, Recover
<1>6. Link(s, 4) /\ s[4] # Recover /\ s[4][1] # "assign"
  BY <1>4, <1>5, ArmsLink
<1>7. \A j \in 1 .. Len(s) : j = 1 \/ j = 2 \/ j = 3 \/ j = 4 \/ j = 5 \/ j = 6
  BY <1>4
<1>8. LinkedList(s)
  BY <1>2, <1>4, <1>6, <1>7, MostlyPlain
<1>9. QED
  BY <1>1, <1>3, <1>8

LEMMA PlainParens ==
  \A s : PlainList(s) => PlainList(Parens(s))
<1>1. PlainList(<<C("(")>>) /\ PlainList(<<C(")")>>)
  BY AreWords, PartItems, PlainMembers, PlainLists
<1>2. QED
  BY <1>1, PlainLists DEF Parens

LEMMA FormList ==
  \A k \in Forms : LinkedList(Form(k))
<1>1. TAKE k \in Forms
<1>2. k \in Words
  BY AreWords DEF Forms
<1>3. /\ PlainList(<<Expression>>)
      /\ PlainList(<<Statement, Option("aliter", <<Statement>>), Make(<<k>>, 3)>>)
      /\ PlainList(<<Statement, Make(<<k>>, 2)>>)
      /\ PlainList(<<<<"initial">>, Unless(";", <<Expression>>), C(";"), Unless(")", <<Expression>>)>>)
      /\ PlainList(<<Statement, Make(<<k>>, 4)>>)
      /\ PlainList(<<Name, C(";"), Make(<<k>>, 1)>>)
      /\ PlainList(<<Unless(";", <<Expression>>), C(";"), Make(<<k>>, 1)>>)
      /\ PlainList(<<C(";"), Make(<<k>>, 0)>>)
      /\ PlainList(<<Put(<<"expr", <<"null">>>>)>>)
  BY <1>2, AreWords, PartItems, OuterItems, PlainMembers, PlainLists
<1>4. /\ PlainList(Parens(<<Expression>>))
      /\ PlainList(Parens(<<<<"initial">>, Unless(";", <<Expression>>), C(";"), Unless(")", <<Expression>>)>>))
  BY <1>3, PlainParens
<1>5. /\ LinkedList(Parens(<<Expression>>) \o <<Statement, Option("aliter", <<Statement>>), Make(<<k>>, 3)>>)
      /\ LinkedList(Parens(<<Expression>>) \o <<Statement, Make(<<k>>, 2)>>)
      /\ LinkedList(Parens(<<<<"initial">>, Unless(";", <<Expression>>), C(";"), Unless(")", <<Expression>>)>>)
                      \o <<Statement, Make(<<k>>, 4)>>)
      /\ LinkedList(Parens(<<Expression>>) \o <<C("{"), EmptyList, Nil, Arms, Close, Make(<<"elige">>, 3)>>)
  BY <1>3, <1>4, CasesList, LinkedPlain, LinkedJoined
<1>6. /\ LinkedList(<<Name, C(";"), Make(<<k>>, 1)>>)
      /\ LinkedList(<<Unless(";", <<Expression>>), C(";"), Make(<<k>>, 1)>>)
      /\ LinkedList(<<C(";"), Make(<<k>>, 0)>>)
      /\ LinkedList(<<Put(<<"expr", <<"null">>>>)>>)
  BY <1>3, LinkedPlain
<1>7. CASE k = "elige"
  <2>1. Form(k) = Parens(<<Expression>>) \o <<C("{"), EmptyList, Nil, Arms, Close, Make(<<"elige">>, 3)>>
    BY <1>7 DEF Form, Arms, Close
  <2>2. QED
    BY <1>5, <2>1
<1>8. CASE k = "{"
  BY <1>8, BlockList DEF Form
<1>9. CASE k \notin {"elige", "{"}
  BY <1>5, <1>6, <1>9 DEF Form, Forms
<1>10. QED
  BY <1>7, <1>8, <1>9

LEMMA ParseStatementTurns ==
  ASSUME IInv, text' = text, ParseStatement
  PROVE  IInv'
<1>1. Do = "statement"
  BY DEF ParseStatement
<1>2. PlainList(ExpressionStatement)
  BY OuterItems, PartItems, PlainMembers, PlainLists DEF ExpressionStatement
<1>3. LinkedList(ExpressionStatement) /\ \A k \in Forms : LinkedList(Form(k))
  BY <1>2, FormList, LinkedPlain
<1>4. PICK items : LinkedList(items) /\ (Take(items) \/ Go(items) \/ Fail(items))
  BY <1>3 DEF ParseStatement
<1>5. QED
  BY <1>1, <1>4, OuterLinkedTurn DEF OuterKinds

LEMMA DeclaredList ==
  \A k \in Keywords : PlainList(Declared(k))
<1>1. TAKE k \in Keywords
<1>2. k \in Words
  BY AreWords DEF Keywords
<1>3. /\ <<"modifiers", {"edita", "barbara"}, {}>> \in Plain
      /\ <<"modifiers", {"edita", "densa"}, {}>> \in Plain /\ Export \in Plain
  BY ModifierSets, OuterItems, ExportItem, PlainMembers
<1>4. /\ Comma(<<Name, Add>>) \in Plain
      /\ ListUntil("}", <<Name, Option("=", <<Expression>>), Make(<<"variant">>, 2), Add>>) \in Plain
  <2>1. PICK x, y : x = Option("=", <<Expression>>) /\ y = Make(<<"variant">>, 2)
    OBVIOUS
  <2>2. Name \in Listed /\ Add \in Listed /\ x \in Listed /\ y \in Listed
    BY <2>1, AreWords, ListedItems
  <2>3. <<Name, Add>> \in Seq(Listed) /\ <<Name, x, y, Add>> \in Seq(Listed)
    BY <2>2
  <2>4. QED
    BY <2>1, <2>3, AreWords, PartItems, PlainMembers
<1>5. /\ PlainList(<<Name, C(";"), Make(<<k>>, 1)>>)
      /\ PlainList(<<C("liber"), Name, C(";"), Make(<<k>>, 1)>>)
      /\ PlainList(<<Name, C("excerpe"), EmptyList, Name, Add, Comma(<<Name, Add>>), C(";"), Make(<<k>>, 2)>>)
      /\ PlainList(<<Variable(k)>>)
      /\ PlainList(<<Export, Name, C("="), Type, C(";"), Make(<<k>>, 3)>>)
  BY <1>2, <1>3, <1>4, AreWords, PartItems, OuterItems, PlainMembers, PlainLists
<1>6. PlainList(<< <<"modifiers", {"edita", "barbara"}, {}>>, Name, C("("), EmptyList, <<"firstParam">>,
                   C(")"), Option("->", <<Type>>), <<"body">>, Make(<<k>>, 5) >>)
  BY <1>2, <1>3, AreWords, PartItems, OuterItems, PlainMembers, PlainLists
<1>7. PlainList(<< <<"modifiers", {"edita", "densa"}, {}>>, Name, C("{"), EmptyList,
                   <<"fields">>, C("}"), Make(<<k>>, 3) >>)
  BY <1>2, <1>3, AreWords, PartItems, OuterItems, PlainMembers, PlainLists
<1>8. PlainList(<< Export, Name, C("{"), EmptyList,
                   ListUntil("}", <<Name, Option("=", <<Expression>>), Make(<<"variant">>, 2), Add>>),
                   C("}"), Make(<<k>>, 3) >>)
  BY <1>2, <1>3, <1>4, AreWords, PartItems, PlainMembers, PlainLists
<1>9. QED
  BY <1>5, <1>6, <1>7, <1>8 DEF Declared, Keywords

LEMMA DeclarationTurns ==
  ASSUME IInv, text' = text, Declaration
  PROVE  IInv'
<1>1. Do = "declaration"
  BY DEF Declaration
<1>2. PlainList(<<Statement>>)
  BY OuterItems, PlainMembers, PlainLists
<1>3. PICK items : PlainList(items) /\ (Take(items) \/ Go(items) \/ Fail(items))
  BY <1>2, DeclaredList DEF Declaration
<1>4. QED
  BY <1>1, <1>3, OuterTurn DEF OuterKinds

LEMMA FieldsTurns ==
  ASSUME IInv, text' = text, Fields
  PROVE  IInv'
<1>a. Do = "fields"
  BY DEF Fields
<1>1. Do = "fields" /\ todo # <<>> /\ Head(todo) # Recover /\ Head(todo) \notin Inner
  BY <1>a, HeadIs DEF OuterKinds
<1>2. PlainList(<<>>) /\ PlainList(<<Variable("sit"), Add, <<"fields">>>>) /\ PlainList(<<<<"fields">>>>)
  BY AreWords, OuterItems, PartItems, PlainMembers, PlainLists
<1>3. CASE Go(<<>>) \/ Take(<<Variable("sit"), Add, <<"fields">>>>)
  BY <1>1, <1>2, <1>3, OuterTurn DEF OuterKinds
<1>4. CASE pos' = After(pos) /\ Report(pos) /\ Continue(<<<<"fields">>>>)
  <2>1. PICK items : items = <<<<"fields">>>> /\ LinkedList(items)
    BY <1>2, LinkedPlain
  <2>2. /\ items \in Seq(Items) /\ Links(items)
        /\ \A j \in 1 .. Len(items) : items[j] # Recover /\ items[j][1] # "assign"
    BY <2>1 DEF LinkedList
  <2>3. Cursor /\ todo' = items \o Tail(todo)
    BY <1>4, <2>1 DEF Cursor, Skips, Continue
  <2>4. Links(todo')
    BY <1>1, <2>2, <2>3, LinkedPushed DEF IInv, TypeInv
  <2>5. ~Closing
    BY <1>1, NotClosing DEF FrameKinds
  <2>6. QED
    BY <1>1, <2>2, <2>3, <2>4, <2>5, Turn
<1>5. QED
  BY <1>3, <1>4 DEF Fields

-----------------------------------------------------------------------------
(* The loops, and what stays under a declaration.                          *)

LEMMA Tails ==
  ASSUME NEW s \in Seq(Items), Len(s) >= 2
  PROVE  /\ Tail(s) \in Seq(Items) /\ Tail(s) # <<>> /\ Head(Tail(s)) = Tail(s)[1] /\ Tail(s)[1] = s[2]
         /\ Len(s) >= 3 => Len(Tail(s)) >= 2 /\ Tail(s)[2] = s[3]
<1>1. Len(s) \in Nat /\ s # <<>>
  OBVIOUS
<1>2. PICK t : t = Tail(s)
  OBVIOUS
<1>3. t \in Seq(Items) /\ Len(t) = Len(s) - 1 /\ \A i \in 1 .. Len(s) - 1 : t[i] = s[i + 1]
  BY <1>1, <1>2
<1>4. Len(t) >= 1 /\ t # <<>> /\ Head(t) = t[1] /\ t[1] = s[2]
  BY <1>1, <1>3
<1>5. Len(s) >= 3 => Len(t) >= 2 /\ t[2] = s[3]
  BY <1>1, <1>3
<1>6. QED
  BY <1>2, <1>3, <1>4, <1>5

LEMMA FrameHead ==
  ASSUME IInv, NEW k \in FrameKinds, Do = k
  PROVE  /\ todo # <<>> /\ todo \in Seq(Items) /\ Len(todo) \in Nat /\ Len(todo) >= 1
         /\ Head(todo) = todo[1] /\ todo[1][1] = k /\ Link(todo, 1) /\ todo[1] \notin Inner
         /\ todo[1] \in Frame /\ (k # "recover" => todo[1] # Recover)
         /\ k = "recover" => todo[1] = Recover
         /\ k = "cases" => todo[1] = Arms
         /\ k \in {"addCase", "setDefault"} => todo[1] \in EndArms
         /\ k = "landed" => todo[1] \in {"landed"} \X Nat
         /\ k = "loop" => todo[1] \in {FileLoop, BlockLoop, ArmLoop}
<1>1. todo # <<>> /\ Head(todo) = todo[1] /\ todo[1][1] = k /\ todo[1] \in Frame /\ todo[1] \notin Inner
  BY HeadIs
<1>2. todo \in Seq(Items)
  BY DEF IInv, TypeInv
<1>3. Len(todo) \in Nat /\ Len(todo) >= 1
  BY <1>1, <1>2
<1>4. Link(todo, 1)
  BY <1>3 DEF IInv, Links
<1>5. todo[1] \in {"landed"} \X Nat => k = "landed"
  BY <1>1
<1>6. todo[1] \in {FileLoop, BlockLoop, ArmLoop} => k = "loop"
  BY <1>1, LoopKind
<1>7. /\ todo[1] = Recover => k = "recover"
      /\ todo[1] = Arms => k = "cases"
      /\ todo[1] \in EndArms => k \in {"addCase", "setDefault"}
  BY <1>1 DEF Recover, Arms, EndArms
<1>8. /\ todo[1] = Recover \/ todo[1] = Arms \/ todo[1] \in EndArms
         \/ todo[1] \in {"landed"} \X Nat \/ todo[1] \in {FileLoop, BlockLoop, ArmLoop}
  BY <1>1 DEF Frame
<1>9. QED
  BY <1>1, <1>2, <1>3, <1>4, <1>5, <1>6, <1>7, <1>8

(* The function on top is left for others and will be back.                *)
LEMMA AgainPushed ==
  ASSUME NEW s \in Seq(Items), s # <<>>, Links(s), NEW items \in Seq(Items), Len(items) >= 1,
         items[Len(items)] = s[1],
         \A j \in 1 .. Len(items) - 1 : items[j] \in Plain \/ Link(items, j)
  PROVE  Links(items \o Tail(s))
<1>1. SUFFICES ASSUME NEW j \in 1 .. Len(items) PROVE Link(items \o Tail(s), j)
  BY LinksPushed
<1>2. PICK r : r = items \o Tail(s)
  OBVIOUS
<1>3. /\ r \in Seq(Items) /\ Len(items) \in Nat /\ Len(s) \in Nat /\ Len(s) >= 1
      /\ Len(r) = Len(items) + Len(s) - 1
      /\ \A i \in 1 .. Len(items) : r[i] = items[i]
      /\ \A i \in 2 .. Len(s) : r[i + Len(items) - 1] = s[i]
  BY <1>2, Pushed
<1>4. CASE j = Len(items)
  <2>1. r[j] = s[1] /\ Link(s, 1)
    BY <1>3, <1>4 DEF Links
  <2>2. 2 <= Len(s) => j + 1 <= Len(r) /\ r[j + 1] = s[2]
    <3>1. HAVE 2 <= Len(s)
    <3>2. 2 \in 2 .. Len(s) /\ 2 + Len(items) - 1 = j + 1
      BY <1>3, <1>4, <3>1
    <3>3. QED
      BY <1>3, <1>4, <3>1, <3>2
  <2>3. 3 <= Len(s) => j + 2 <= Len(r) /\ r[j + 2] = s[3] /\ 2 <= Len(s)
    <3>1. HAVE 3 <= Len(s)
    <3>2. 3 \in 2 .. Len(s) /\ 3 + Len(items) - 1 = j + 2
      BY <1>3, <1>4, <3>1
    <3>3. QED
      BY <1>3, <1>4, <3>1, <3>2
  <2>4. /\ 1 + 1 <= Len(s) => j + 1 <= Len(r) /\ r[j + 1] = s[1 + 1]
        /\ 1 + 2 <= Len(s) => j + 2 <= Len(r) /\ r[j + 2] = s[1 + 2] /\ 1 + 1 <= Len(s)
    BY <2>2, <2>3
  <2>5. Link(r, j)
    BY <2>1, <2>4, LinkMoves
  <2>6. QED
    BY <1>2, <2>5
<1>5. CASE j # Len(items)
  <2>1. j \in 1 .. Len(items) - 1 /\ r[j] = items[j] /\ j \in 1 .. Len(r)
    BY <1>3, <1>5
  <2>2. CASE items[j] \in Plain
    <3>1. r[j] \notin Frame
      BY <2>1, <2>2, PlainItems
    <3>2. Link(r, j)
      BY <1>3, <2>1, <3>1, NoLink
    <3>3. QED
      BY <1>2, <3>2
  <2>3. CASE Link(items, j)
    <3>1. j + 1 <= Len(items) => j + 1 <= Len(r) /\ r[j + 1] = items[j + 1]
      BY <1>3, <2>1
    <3>2. j + 2 <= Len(items) => j + 2 <= Len(r) /\ r[j + 2] = items[j + 2] /\ j + 1 <= Len(items)
      BY <1>3, <2>1
    <3>3. Link(r, j)
      BY <2>1, <2>3, <3>1, <3>2, LinkMoves
    <3>4. QED
      BY <1>2, <3>3
  <2>4. QED
    BY <2>1, <2>2, <2>3
<1>6. QED
  BY <1>4, <1>5

LEMMA EndArmTurns ==
  ASSUME IInv, text' = text, EndArm
  PROVE  IInv'
<1>1. PICK k \in {"addCase", "setDefault"} : Do = k /\ Go(<<>>)
  BY DEF EndArm
<1>2. /\ todo # <<>> /\ todo \in Seq(Items) /\ Len(todo) \in Nat /\ Len(todo) >= 1
      /\ Head(todo) = todo[1] /\ todo[1] \in EndArms /\ Link(todo, 1) /\ todo[1] # Recover
      /\ todo[1][1] = k
  BY <1>1, FrameHead DEF FrameKinds
<1>3. /\ Len(todo') = Len(todo) - 1
      /\ \A i \in 1 .. Len(todo) - 1 : todo'[i] = todo[i + 1]
      /\ pos' = pos
  BY <1>1, <1>2, Below
<1>4. 1 + 1 <= Len(todo) /\ todo[1 + 1] = Arms
  BY <1>2 DEF Link
<1>5. todo' # <<>> /\ todo'[1] = Arms
  BY <1>2, <1>3, <1>4
<1>6. ~LandedAt(pos)
  BY <1>2 DEF LandedAt, EndArms, Add
<1>7. Closing => Closing'
  <2>1. HAVE Closing
  <2>2. ~Landing /\ Do # "loop" /\ Do # "make"
    BY <1>1 DEF Landing
  <2>3. todo[1] # Close
    BY <1>1, <1>2, CloseItem
  <2>4. Current \in ArmEnds
    BY <2>1, <2>2, <2>3 DEF Closing
  <2>5. Current' = Current
    BY <1>3 DEF Current, Tokens
  <2>6. QED
    BY <1>5, <2>4, <2>5 DEF Closing
<1>8. QED
  BY <1>1, <1>2, <1>6, <1>7, Popped

LEMMA LandedTurns ==
  ASSUME IInv, text' = text, Landed
  PROVE  IInv'
<1>1. Do = "landed"
  BY DEF Landed
<1>2. /\ todo # <<>> /\ todo \in Seq(Items) /\ Len(todo) \in Nat /\ Len(todo) >= 1
      /\ Head(todo) = todo[1] /\ todo[1][1] = "landed" /\ Link(todo, 1) /\ todo[1] # Recover
      /\ todo[1] \notin Inner /\ todo[1] \in {"landed"} \X Nat
  BY <1>1, FrameHead DEF FrameKinds
<1>3. CASE Take(<<>>)
  <2>1. PICK items : items = <<>> /\ LinkedList(items)
    BY PlainLists, LinkedPlain
  <2>2. QED
    BY <1>2, <1>3, <2>1, LinkedTurn
<1>4. CASE pos # Of(2) /\ Go(<<>>)
  <2>1. /\ Len(todo') = Len(todo) - 1 /\ todo' = Tail(todo)
        /\ \A i \in 1 .. Len(todo) - 1 : todo'[i] = todo[i + 1]
        /\ pos' = pos
    BY <1>4, <1>2, Below
  <2>a. 1 + 1 <= Len(todo) /\ todo[1 + 1][1] = "loop"
    BY <1>2 DEF Link
  <2>2. 2 <= Len(todo) /\ todo[2][1] = "loop"
    BY <2>a
  <2>3. todo' # <<>> /\ todo'[1][1] = "loop" /\ Head(todo') = todo'[1]
    <3>1. todo' # <<>> /\ todo'[1] = todo[2]
      BY <1>2, <2>1, <2>2, Tails
    <3>2. Head(todo') = todo'[1]
      BY <1>2, <2>1, <2>2, Tails
    <3>3. QED
      BY <2>2, <3>1, <3>2
  <2>4. Do' = "loop"
    BY <2>3 DEF Do
  <2>5. Closing'
    BY <2>4 DEF Closing
  <2>6. ~LandedAt(pos)
    <3>1. todo[1] # Add
      BY <1>2 DEF Add
    <3>2. todo[1] # <<"landed", pos>>
      BY <1>2, <1>4 DEF Of
    <3>3. QED
      BY <3>1, <3>2 DEF LandedAt
  <2>7. QED
    BY <1>2, <1>4, <2>5, <2>6, Popped
<1>5. QED
  BY <1>3, <1>4 DEF Landed

LEMMA ArmList ==
  \A i \in 1 .. 2 : LET s == IF i = 1
                             THEN << EmptyList, Expression, Add, Comma(<<Expression, Add>>), C(":"), EmptyList,
                                     ArmLoop, Make(<<"casus">>, 2), <<"addCase">>, Arms >>
                             ELSE << C(":"), EmptyList, ArmLoop, Make(<<"arm">>, 1), <<"setDefault">>, Arms >>
                    IN /\ s \in Seq(Items) /\ Len(s) >= 1 /\ s[Len(s)] = Arms
                       /\ \A j \in 1 .. Len(s) - 1 : s[j] \in Plain \/ Link(s, j)
                       /\ \A j \in 1 .. Len(s) : s[j] # Recover /\ s[j][1] # "assign"
<1>1. PICK a, b, c, d, e, f, g : /\ a = EmptyList /\ b = Comma(<<Expression, Add>>) /\ c = C(":")
                                 /\ d = Make(<<"casus">>, 2) /\ e = Make(<<"arm">>, 1)
                                 /\ f = <<"addCase">> /\ g = <<"setDefault">>
  OBVIOUS
<1>2. b \in Plain
  <2>1. <<Expression, Add>> \in Seq(Listed)
    BY ListedItems
  <2>2. QED
    BY <1>1, <2>1, PartItems, PlainMembers
<1>3. /\ a \in Plain /\ c \in Plain /\ d \in Plain /\ e \in Plain
      /\ Expression \in Plain /\ Add \in Plain
  BY <1>1, AreWords, PartItems, PlainMembers
<1>4. f \in EndArms /\ g \in EndArms /\ d[1] = "make" /\ e[1] = "make"
  BY <1>1 DEF EndArms, Make
<1>5. f \in Items /\ g \in Items /\ Arms \in Items /\ ArmLoop \in Items
  BY <1>4, FrameItems
<1>6. \A x \in EndArms \cup {Arms, ArmLoop} : x # Recover /\ x[1] # "assign"
  BY LoopKind DEF EndArms, Arms, Recover
<1>7. ASSUME NEW s, s = <<a, Expression, Add, b, c, a, ArmLoop, d, f, Arms>>
      PROVE  /\ s \in Seq(Items) /\ Len(s) >= 1 /\ s[Len(s)] = Arms
             /\ \A j \in 1 .. Len(s) - 1 : s[j] \in Plain \/ Link(s, j)
             /\ \A j \in 1 .. Len(s) : s[j] # Recover /\ s[j][1] # "assign"
  <2>1. /\ s \in Seq(Items) /\ Len(s) = 10 /\ s[10] = Arms /\ s[7] = ArmLoop /\ s[8] = d /\ s[9] = f
        /\ \A j \in 1 .. 10 : s[j] \in Plain \/ j = 7 \/ j = 9 \/ j = 10
    BY <1>2, <1>3, <1>5, <1>7, FrameItems
  <2>2. Link(s, 7)
    BY <1>4, <2>1, LoopLink, LoopKind
  <2>3. Link(s, 9)
    <3>1. f # Arms
      BY <1>4 DEF EndArms, Arms
    <3>2. QED
      BY <1>4, <2>1, <3>1, ArmsLink
  <2>4. \A j \in 1 .. Len(s) : s[j] # Recover /\ s[j][1] # "assign"
    BY <1>4, <1>6, <2>1, PlainItems
  <2>5. QED
    BY <2>1, <2>2, <2>3, <2>4
<1>8. ASSUME NEW s, s = <<c, a, ArmLoop, e, g, Arms>>
      PROVE  /\ s \in Seq(Items) /\ Len(s) >= 1 /\ s[Len(s)] = Arms
             /\ \A j \in 1 .. Len(s) - 1 : s[j] \in Plain \/ Link(s, j)
             /\ \A j \in 1 .. Len(s) : s[j] # Recover /\ s[j][1] # "assign"
  <2>1. /\ s \in Seq(Items) /\ Len(s) = 6 /\ s[6] = Arms /\ s[3] = ArmLoop /\ s[4] = e /\ s[5] = g
        /\ \A j \in 1 .. 6 : s[j] \in Plain \/ j = 3 \/ j = 5 \/ j = 6
    BY <1>3, <1>5, <1>8, FrameItems
  <2>2. Link(s, 3)
    BY <1>4, <2>1, LoopLink, LoopKind
  <2>3. Link(s, 5)
    <3>1. g # Arms
      BY <1>4 DEF EndArms, Arms
    <3>2. QED
      BY <1>4, <2>1, <3>1, ArmsLink
  <2>4. \A j \in 1 .. Len(s) : s[j] # Recover /\ s[j][1] # "assign"
    BY <1>4, <1>6, <2>1, PlainItems
  <2>5. QED
    BY <2>1, <2>2, <2>3, <2>4
<1>9. QED
  BY <1>1, <1>7, <1>8

LEMMA CasesTurns ==
  ASSUME IInv, text' = text, Cases
  PROVE  IInv'
<1>1. Do = "cases"
  BY DEF Cases
<1>2. /\ todo # <<>> /\ todo \in Seq(Items) /\ Len(todo) \in Nat /\ Len(todo) >= 1
      /\ Head(todo) = todo[1] /\ todo[1] = Arms /\ Link(todo, 1) /\ todo[1] # Recover
      /\ todo[1][1] = "cases" /\ todo[1] \notin Inner
  BY <1>1, FrameHead DEF FrameKinds
<1>3. 2 <= Len(todo) /\ todo[2] = Close
  <2>1. 1 + 1 <= Len(todo) /\ todo[1 + 1] = Close
    BY <1>2 DEF Link
  <2>2. QED
    BY <2>1
<1>4. ~LandedAt(pos)
  BY <1>2 DEF LandedAt, Arms, Add
<1>5. Closing => Current \in ArmEnds
  <2>1. HAVE Closing
  <2>2. ~Landing /\ Do # "loop" /\ Do # "make"
    BY <1>1 DEF Landing
  <2>3. todo[1] # Close
    BY <1>2, CloseItem
  <2>4. QED
    BY <2>1, <2>2, <2>3 DEF Closing
<1>6. ASSUME NEW items, items \in Seq(Items), Len(items) >= 1, items[Len(items)] = Arms,
             \A j \in 1 .. Len(items) - 1 : items[j] \in Plain \/ Link(items, j),
             \A j \in 1 .. Len(items) : items[j] # Recover /\ items[j][1] # "assign",
             Cursor, todo' = items \o Tail(todo), Moves \/ ~Closing
      PROVE  IInv'
  <2>1. Links(todo')
    BY <1>2, <1>6, AgainPushed DEF IInv
  <2>2. QED
    BY <1>2, <1>6, <2>1, Turn
<1>7. CASE \/ Take(<< EmptyList, Expression, Add, Comma(<<Expression, Add>>), C(":"), EmptyList, ArmLoop,
                      Make(<<"casus">>, 2), <<"addCase">>, Arms >>)
           \/ Take(<< C(":"), EmptyList, ArmLoop, Make(<<"arm">>, 1), <<"setDefault">>, Arms >>)
  <2>1. PICK i \in 1 .. 2 :
          Take(IF i = 1 THEN << EmptyList, Expression, Add, Comma(<<Expression, Add>>), C(":"), EmptyList,
                                ArmLoop, Make(<<"casus">>, 2), <<"addCase">>, Arms >>
               ELSE << C(":"), EmptyList, ArmLoop, Make(<<"arm">>, 1), <<"setDefault">>, Arms >>)
    <3>1. 1 \in 1 .. 2 /\ 2 \in 1 .. 2 /\ 1 # 2
      OBVIOUS
    <3>2. QED
      BY <1>7, <3>1
  <2>2. PICK items : /\ items \in Seq(Items) /\ Len(items) >= 1 /\ items[Len(items)] = Arms
                     /\ \A j \in 1 .. Len(items) - 1 : items[j] \in Plain \/ Link(items, j)
                     /\ \A j \in 1 .. Len(items) : items[j] # Recover /\ items[j][1] # "assign"
                     /\ Take(items)
    BY <2>1, ArmList
  <2>3. Cursor /\ todo' = items \o Tail(todo) /\ Moves
    BY <2>2, Moving
  <2>4. QED
    BY <1>6, <2>2, <2>3
<1>8. CASE Current \in {"}", "eof"} /\ Go(<<>>)
  <2>1. /\ Len(todo') = Len(todo) - 1
        /\ \A i \in 1 .. Len(todo) - 1 : todo'[i] = todo[i + 1]
        /\ pos' = pos
    BY <1>2, <1>8, Below
  <2>2. todo' # <<>> /\ todo'[1] = Close
    BY <1>2, <1>3, <2>1
  <2>3. ASSUME pos <= Len(Tokens) PROVE Closing'
    <3>1. Current # "eof"
      BY <2>3, TheEndIsNoToken
    <3>2. AtClose
      BY <1>8, <3>1 DEF AtClose
    <3>3. AtClose'
      BY <2>1, <3>2 DEF AtClose, Current, Tokens
    <3>4. QED
      BY <2>2, <3>3 DEF Closing
  <2>4. QED
    BY <1>2, <1>4, <1>8, <2>3, Popped
<1>9. CASE Current \notin ArmEnds /\ pos' = After(pos) /\ Report(pos) /\ Continue(<<Arms>>)
  <2>1. PICK items : items = <<Arms>>
    OBVIOUS
  <2>2. /\ items \in Seq(Items) /\ Len(items) = 1 /\ items[1] = Arms
        /\ \A j \in 1 .. Len(items) : j = 1
    BY <2>1, FrameItems
  <2>3. Arms # Recover /\ Arms[1] # "assign"
    BY DEF Arms, Recover
  <2>4. Cursor /\ todo' = items \o Tail(todo)
    BY <1>9, <2>1 DEF Cursor, Skips, Continue
  <2>5. /\ Len(items) >= 1 /\ items[Len(items)] = Arms
        /\ \A j \in 1 .. Len(items) - 1 : items[j] \in Plain \/ Link(items, j)
        /\ \A j \in 1 .. Len(items) : items[j] # Recover /\ items[j][1] # "assign"
    BY <2>2, <2>3
  <2>6. ~Closing
    BY <1>5, <1>9
  <2>7. QED
    BY <1>6, <2>2, <2>4, <2>5, <2>6
<1>10. QED
  BY <1>7, <1>8, <1>9 DEF Cases, Arms, ArmLoop

(* A loop ends at a token that the items under it expect; otherwise the    *)
(* next declaration begins where the cursor is.                            *)
LEMMA DeclarationsTurns ==
  ASSUME IInv, text' = text, Declarations
  PROVE  IInv'
<1>1. Do = "loop"
  BY DEF Declarations
<1>2. /\ todo # <<>> /\ todo \in Seq(Items) /\ Len(todo) \in Nat /\ Len(todo) >= 1
      /\ Head(todo) = todo[1] /\ todo[1] \in {FileLoop, BlockLoop, ArmLoop} /\ Link(todo, 1)
      /\ todo[1] # Recover /\ todo[1][1] = "loop" /\ todo[1] \notin Inner
  BY <1>1, FrameHead DEF FrameKinds
<1>3. /\ todo[1] = BlockLoop => 2 <= Len(todo) /\ todo[2] = Close
      /\ todo[1] = ArmLoop => 3 <= Len(todo) /\ todo[2][1] = "make" /\ todo[3] \in EndArms
  <2>1. /\ todo[1] = BlockLoop => 1 + 1 <= Len(todo) /\ todo[1 + 1] = Close
        /\ todo[1] = ArmLoop => 1 + 2 <= Len(todo) /\ todo[1 + 1][1] = "make" /\ todo[1 + 2] \in EndArms
    BY <1>2 DEF Link
  <2>2. 1 + 1 = 2 /\ 1 + 2 = 3
    OBVIOUS
  <2>3. QED
    BY <2>1, <2>2
<1>4. ~LandedAt(pos)
  BY <1>2 DEF LandedAt, Add
<1>5. CASE Current \in Of(2) /\ Go(<<>>)
  <2>1. /\ Len(todo') = Len(todo) - 1 /\ todo' = Tail(todo)
        /\ \A i \in 1 .. Len(todo) - 1 : todo'[i] = todo[i + 1]
        /\ pos' = pos
    BY <1>2, <1>5, Below
  <2>2. Current' = Current /\ (AtClose => AtClose')
    BY <2>1 DEF Current, Tokens, AtClose
  <2>3. ASSUME pos <= Len(Tokens) PROVE Closing'
    <3>1. Current # "eof"
      BY <2>3, TheEndIsNoToken
    <3>2. Current \in todo[1][2]
      BY <1>2, <1>5 DEF Of
    <3>3. CASE todo[1] = FileLoop
      BY <3>1, <3>2, <3>3, LoopStops
    <3>4. CASE todo[1] = BlockLoop
      <4>1. todo' # <<>> /\ todo'[1] = Close
        BY <1>2, <1>3, <2>1, <3>4, Tails
      <4>2. AtClose
        BY <3>1, <3>2, <3>4, LoopStops DEF AtClose
      <4>3. QED
        BY <2>2, <4>1, <4>2 DEF Closing
    <3>5. CASE todo[1] = ArmLoop
      <4>1. Current \in ArmEnds
        BY <3>2, <3>5, LoopStops
      <4>2. todo' # <<>> /\ Len(todo') >= 2 /\ todo'[1] = todo[2] /\ todo'[2] = todo[3]
        BY <1>2, <1>3, <2>1, <3>5, Tails
      <4>3. Head(todo') = todo'[1]
        BY <1>2, <1>3, <2>1, <3>5, Tails
      <4>4. Do' = "make" /\ todo'[2] \in EndArms
        BY <1>3, <3>5, <4>2, <4>3 DEF Do
      <4>5. QED
        BY <2>2, <4>1, <4>2, <4>4 DEF Closing
    <3>6. QED
      BY <1>2, <3>3, <3>4, <3>5
  <2>4. QED
    BY <1>2, <1>4, <1>5, <2>3, Popped
<1>6. CASE Go(<<<<"declaration">>, Recover, Add, <<"landed", pos>>, Head(todo)>>)
  <2>1. pos \in Nat
    BY TheEndIsNoToken
  <2>2. PICK d, l : d = <<"declaration">> /\ l = <<"landed", pos>>
    OBVIOUS
  <2>3. PICK items : items = <<d, Recover, Add, l, todo[1]>>
    OBVIOUS
  <2>4. d \in Plain /\ Add \in Plain /\ d # Recover /\ d[1] # "assign"
    BY <2>2, OuterItems, PartItems, PlainMembers DEF Recover
  <2>5. d \in Items /\ Recover \in Items /\ Add \in Items /\ l \in Items /\ todo[1] \in Items
    BY <1>2, <2>1, <2>2, <2>4, FrameItems
  <2>6. /\ items \in Seq(Items) /\ Len(items) = 5 /\ items[1] = d /\ items[2] = Recover /\ items[3] = Add
        /\ items[4] = l /\ items[5] = todo[1]
    BY <2>3, <2>5
  <2>7. Cursor /\ Stays /\ todo' = items \o Tail(todo) /\ pos' = pos
    <3>1. Go(items)
      BY <1>2, <1>6, <2>2, <2>3
    <3>2. QED
      BY <3>1, Moving DEF Stays
  <2>8. l[1] = "landed" /\ l # Recover /\ Recover \notin EndArms /\ l \notin EndArms
    BY <2>2 DEF Recover, EndArms
  <2>9. Link(items, 2) /\ Link(items, 4)
    <3>1. /\ Recover # Arms /\ Recover[1] # "landed" /\ Recover # BlockLoop /\ Recover # ArmLoop
          /\ l # Arms /\ l # BlockLoop /\ l # ArmLoop
      BY <2>8, LoopKind DEF Recover, Arms
    <3>2. Link(items, 2)
      BY <2>6, <2>8, <3>1 DEF Link
    <3>3. Link(items, 4)
      BY <1>2, <2>6, <2>8, <3>1 DEF Link
    <3>4. QED
      BY <3>2, <3>3
  <2>10. Links(todo')
    <3>1. \A j \in 1 .. Len(items) - 1 : items[j] \in Plain \/ Link(items, j)
      <4>1. \A j \in 1 .. Len(items) - 1 : j = 1 \/ j = 2 \/ j = 3 \/ j = 4
        BY <2>6
      <4>2. QED
        BY <2>4, <2>6, <2>9, <4>1
    <3>2. Len(items) >= 1 /\ items[Len(items)] = todo[1]
      BY <2>6
    <3>3. QED
      BY <1>2, <2>6, <2>7, <3>1, <3>2, AgainPushed DEF IInv
  <2>11. Fresh'
    <3>a. /\ Len(todo') = Len(items) + Len(todo) - 1
          /\ \A i \in 1 .. Len(items) : todo'[i] = items[i]
      BY <1>2, <2>6, <2>7, Pushed
    <3>1. /\ Len(todo') = 5 + Len(todo) - 1
          /\ \A i \in 1 .. 5 : todo'[i] = items[i]
      BY <2>6, <3>a
    <3>2. 2 \in 1 .. Len(todo') /\ 2 + 2 <= Len(todo')
      BY <1>2, <3>1
    <3>3. todo'[1] = d /\ todo'[2] = Recover /\ todo'[2 + 2] = <<"landed", pos'>>
      BY <2>2, <2>6, <2>7, <3>1
    <3>4. \A i \in 1 .. 2 - 1 : todo'[i] # Recover
      BY <2>4, <3>3
    <3>5. QED
      BY <3>2, <3>3, <3>4 DEF Fresh
  <2>12. \A j \in 1 .. Len(items) : items[j][1] # "assign"
    <3>1. \A j \in 1 .. Len(items) : j = 1 \/ j = 2 \/ j = 3 \/ j = 4 \/ j = 5
      BY <2>6
    <3>2. Recover[1] # "assign" /\ Add[1] # "assign"
      BY DEF Recover, Add
    <3>3. QED
      BY <1>2, <2>4, <2>6, <2>8, <3>1, <3>2
  <2>13. QED
    BY <1>2, <1>4, <2>6, <2>7, <2>10, <2>11, <2>12, Turn
<1>7. QED
  BY <1>5, <1>6 DEF Declarations, Recover

(* Back in the loop that the declaration came from; the parser is calm.    *)
LEMMA SynchronizeTurns ==
  ASSUME IInv, text' = text, Synchronize
  PROVE  IInv'
<1>1. Do = "recover"
  BY DEF Synchronize
<1>2. /\ todo # <<>> /\ todo \in Seq(Items) /\ Len(todo) \in Nat /\ Len(todo) >= 1
      /\ Head(todo) = todo[1] /\ todo[1] = Recover /\ Link(todo, 1)
      /\ todo[1][1] = "recover" /\ todo[1] \notin Inner
  BY <1>1, FrameHead DEF FrameKinds
<1>3. 3 <= Len(todo) /\ todo[2] = Add /\ todo[3][1] = "landed"
  <2>1. 1 + 2 <= Len(todo) /\ todo[1 + 1] = Add /\ todo[1 + 2][1] = "landed"
    BY <1>2 DEF Link
  <2>2. 1 + 1 = 2 /\ 1 + 2 = 3
    OBVIOUS
  <2>3. QED
    BY <2>1, <2>2
<1>4. Fresh => todo[3] = <<"landed", pos>>
  <2>1. HAVE Fresh
  <2>2. PICK j \in 1 .. Len(todo) :
          todo[j + 2] = <<"landed", pos>> /\ \A i \in 1 .. j - 1 : todo[i] # Recover
    BY <2>1 DEF Fresh
  <2>3. j = 1
    BY <1>2, <2>2
  <2>4. j + 2 = 3
    BY <2>3
  <2>5. QED
    BY <2>2, <2>4
<1>5. ~LandedAt(pos) /\ ~Closing
  <2>1. ~LandedAt(pos)
    BY <1>2 DEF LandedAt, Recover, Add
  <2>2. ~Landing /\ Do # "loop" /\ Do # "make"
    BY <1>1 DEF Landing
  <2>3. todo[1] # Close
    BY <1>2, CloseItem
  <2>4. todo[1] \notin EndArms \cup {Arms}
    BY <1>2 DEF EndArms, Arms
  <2>5. QED
    BY <2>1, <2>2, <2>3, <2>4 DEF Closing
<1>6. /\ Len(Tokens) \in Nat /\ pos \in 1 .. Len(Tokens) + 1 /\ Tokens' = Tokens /\ text \in Texts
      /\ panic \in BOOLEAN /\ reported \in Seq(Nat) /\ pos \in Nat
  BY TextsAssumption DEF IInv, TypeInv, Tokens
<1>7. CASE Continue(<<>>) /\ UNCHANGED <<pos, reported>> /\ panic' = FALSE
  <2>1. PICK items : items = <<>> /\ items \in Seq(Items) /\ 1 .. Len(items) = {}
    <3>1. <<>> \in Seq(Items) /\ Len(<<>>) = 0 /\ 1 .. 0 = {}
      OBVIOUS
    <3>2. QED
      BY <3>1
  <2>2. todo' = items \o Tail(todo) /\ pos' = pos /\ reported' = reported /\ panic' = FALSE
    BY <1>7, <2>1 DEF Continue
  <2>3. todo' \in Seq(Items) /\ Links(todo')
    BY <1>2, <2>1, <2>2, Pushed, PlainPushed DEF IInv
  <2>4. todo' = Tail(todo)
    <3>1. Tail(todo) \in Seq(Items) /\ <<>> \o Tail(todo) = Tail(todo)
      BY <1>2
    <3>2. QED
      BY <2>1, <2>2, <3>1
  <2>5. /\ todo' # <<>> /\ Len(todo') >= 2 /\ todo'[1] = Add /\ todo'[2] = todo[3]
        /\ Head(todo') = todo'[1]
    <3>1. Len(todo) >= 2
      BY <1>2, <1>3
    <3>2. QED
      BY <1>2, <1>3, <2>4, <3>1, Tails
  <2>6. Closing'
    <3>1. Do' = "add" /\ todo'[2][1] = "landed"
      BY <1>3, <2>5 DEF Do, Add
    <3>2. Landing'
      BY <2>5, <3>1 DEF Landing
    <3>3. QED
      BY <3>2 DEF Closing
  <2>7. Fresh => LandedAt(pos)'
    <3>1. HAVE Fresh
    <3>2. todo'[2] = <<"landed", pos'>>
      BY <1>4, <2>2, <2>5, <3>1
    <3>3. QED
      BY <2>5, <3>2 DEF LandedAt
  <2>8. AssignInv'
    <3>1. \A j \in 1 .. Len(items) : items[j] \in Inner /\ items[j][1] # "assign"
      BY <2>1
    <3>2. items \in Seq(Items)
      BY <2>1
    <3>3. pos' \in Nat /\ pos' >= pos
      BY <1>6, <2>2
    <3>4. todo' = items \o Tail(todo)
      BY <2>2
    <3>5. QED
      BY <1>2, <3>1, <3>2, <3>3, <3>4, AssignsStay
  <2>9. SettledInv'
    <3>1. SUFFICES ASSUME pos <= Len(Tokens), Twice(pos) PROVE LandedAt(pos)'
      BY <1>6, <2>2, <2>6 DEF SettledInv, Twice
    <3>2. Fresh
      BY <1>5, <1>6, <3>1 DEF IInv, SettledInv
    <3>3. QED
      BY <2>7, <3>2
  <2>10. TypeInv'
    BY <1>6, <2>2, <2>3 DEF TypeInv
  <2>11. ReportsInv'
    BY <1>6, <2>2 DEF IInv, ReportsInv, NoErrorThrice
  <2>12. QED
    BY <2>3, <2>8, <2>9, <2>10, <2>11 DEF IInv
<1>8. CASE panic /\ Take(<<Recover>>)
  <2>1. PICK items : items = <<Recover>>
    OBVIOUS
  <2>2. /\ items \in Seq(Items) /\ Len(items) = 1 /\ items[1] = Recover
        /\ \A j \in 1 .. Len(items) : j = 1
    BY <2>1, FrameItems
  <2>3. Cursor /\ Moves /\ todo' = items \o Tail(todo)
    <3>1. Take(items)
      BY <1>8, <2>1
    <3>2. QED
      BY <3>1, Moving
  <2>4. /\ pos' \in pos .. Len(Tokens) + 1 /\ pos' \in 1 .. Len(Tokens) + 1
        /\ panic' \in BOOLEAN /\ reported' \in Seq(Nat)
        /\ panic' /\ reported' = reported
        /\ ReportsInv'
        /\ pos' # pos => ~Twice(pos)'
    BY <1>5, <1>8, <2>3, ReportsStay
  <2>5. todo' \in Seq(Items)
    BY <1>2, <2>2, <2>3, Pushed
  <2>6. Links(todo')
    <3>1. Len(items) >= 1 /\ items[Len(items)] = todo[1]
      BY <1>2, <2>2
    <3>2. \A j \in 1 .. Len(items) - 1 : items[j] \in Plain \/ Link(items, j)
      BY <2>2
    <3>3. QED
      BY <1>2, <2>2, <2>3, <3>1, <3>2, AgainPushed DEF IInv
  <2>7. AssignInv'
    <3>1. \A j \in 1 .. Len(items) : items[j][1] # "assign"
      BY <2>2 DEF Recover
    <3>2. pos' \in Nat /\ pos' >= pos
      BY <1>6, <2>4
    <3>3. QED
      BY <1>2, <2>2, <2>3, <2>4, <3>1, <3>2, AssignsStay
  <2>8. SettledInv'
    <3>1. SUFFICES ASSUME pos' <= Len(Tokens), Twice(pos)' PROVE FALSE
      BY <1>6, <2>4 DEF SettledInv
    <3>2. pos' = pos
      BY <2>4, <3>1
    <3>3. pos' > pos
      <4>1. pos <= Len(Tokens)
        BY <3>1, <3>2
      <4>2. QED
        BY <2>3, <4>1, AfterIsAhead DEF IInv, Moves
    <3>4. QED
      BY <1>6, <3>2, <3>3
  <2>9. TypeInv'
    BY <1>6, <2>4, <2>5 DEF TypeInv
  <2>10. QED
    BY <2>4, <2>6, <2>7, <2>8, <2>9 DEF IInv
<1>9. QED
  <2>1. CASE ~panic /\ Go(<<>>)
    <3>1. panic' = FALSE /\ UNCHANGED <<pos, reported>> /\ Continue(<<>>)
      BY <1>6, <2>1 DEF Go
    <3>2. QED
      BY <1>7, <3>1
  <2>2. QED
    BY <1>7, <1>8, <2>1 DEF Synchronize, Recover

-----------------------------------------------------------------------------
(* The theorems.                                                           *)

LEMMA StartList ==
  LinkedList(<<EmptyList, FileLoop, Make(<<"program">>, 1)>>)
<1>1. PICK a, c : a = EmptyList /\ c = Make(<<"program">>, 1)
  OBVIOUS
<1>2. a \in Plain /\ c \in Plain
  BY <1>1, AreWords, PartItems, PlainMembers
<1>3. PICK s : s = <<a, FileLoop, c>>
  OBVIOUS
<1>4. s \in Seq(Items) /\ Len(s) = 3 /\ s[1] = a /\ s[2] = FileLoop /\ s[3] = c
  BY <1>2, <1>3, FrameItems
<1>5. Link(s, 2) /\ s[2] # Recover /\ s[2][1] # "assign"
  BY <1>4, LoopLink, LoopKind DEF Recover
<1>6. \A j \in 1 .. Len(s) : j = 1 \/ j = 2 \/ j = 3
  BY <1>4
<1>7. LinkedList(s)
  BY <1>2, <1>4, <1>5, <1>6, MostlyPlain
<1>8. QED
  BY <1>1, <1>3, <1>7

LEMMA Starts ==
  ASSUME Init
  PROVE  IInv
<1>1. text \in Texts /\ pos = After(0) /\ Tokens \in Seq(STRING) /\ Len(Tokens) \in Nat
  BY TextsAssumption DEF Init, Tokens
<1>2. pos \in 1 .. Len(Tokens) + 1
  <2>1. 0 \in 0 .. Len(Tokens) + 1 /\ 0 <= Len(Tokens)
    BY <1>1
  <2>2. After(0) \in 0 .. Len(Tokens) + 1 /\ After(0) > 0
    BY <1>1, <2>1, AfterFrom
  <2>3. QED
    BY <1>1, <2>2
<1>3. panic \in BOOLEAN /\ reported \in {<<>>, <<1>>} /\ (~panic => reported = <<>>)
  <2>1. panic = (After(0) > 1) /\ reported = (IF After(0) > 1 THEN <<1>> ELSE <<>>)
    BY DEF Init
  <2>2. CASE After(0) > 1
    <3>1. panic = TRUE /\ reported = <<1>>
      BY <2>1, <2>2, Zenon
    <3>2. QED
      BY <3>1, Zenon
  <2>3. CASE ~(After(0) > 1)
    <3>1. (After(0) > 1) = FALSE
      BY <2>3
    <3>2. panic = FALSE /\ reported = <<>>
      BY <2>1, <2>3, <3>1, Zenon
    <3>3. QED
      BY <3>2, Zenon
  <2>4. QED
    BY <2>2, <2>3, Zenon
<1>4. /\ reported \in Seq(Nat) /\ Len(reported) \in Nat /\ Len(reported) <= 1
      /\ \A i \in 1 .. Len(reported) : reported[i] <= pos
      /\ \A i \in 1 .. Len(reported) - 1 : FALSE
  <2>1. CASE reported = <<>>
    BY <2>1
  <2>2. CASE reported = <<1>>
    <3>1. reported \in Seq(Nat) /\ Len(reported) = 1 /\ reported[1] = 1
      BY <2>2
    <3>2. QED
      BY <1>2, <3>1
  <2>3. QED
    BY <1>3, <2>1, <2>2
<1>5. LinkedList(todo)
  <2>1. todo = <<EmptyList, FileLoop, Make(<<"program">>, 1)>>
    BY DEF Init, FileLoop
  <2>2. QED
    BY <2>1, StartList
<1>6. TypeInv
  BY <1>1, <1>2, <1>3, <1>4, <1>5 DEF TypeInv, LinkedList
<1>7. Links(todo) /\ AssignInv
  BY <1>5 DEF LinkedList, AssignInv
<1>8. SettledInv
  BY <1>3, <1>4 DEF SettledInv, Once, Twice
<1>9. ReportsInv
  BY <1>4 DEF ReportsInv, NoErrorThrice
<1>10. QED
  BY <1>6, <1>7, <1>8, <1>9 DEF IInv

LEMMA Turns ==
  ASSUME IInv, text' = text, Step
  PROVE  IInv'
<1>1. CASE Consume \/ TakeName \/ PutTree \/ AddToList \/ MakeNode \/ Optionally \/ UnlessToken \/ Separated
  BY <1>1, ConsumeTurns, TakeNameTurns, PutTreeTurns, AddToListTurns, MakeNodeTurns, OptionallyTurns,
     UnlessTokenTurns, SeparatedTurns
<1>2. CASE ParseType \/ Qualifier \/ Affix
  BY <1>2, ParseTypeTurns, QualifierTurns, AffixTurns
<1>3. CASE Assignment \/ Assigns \/ MakeAssignment \/ BinaryLoops \/ UnaryOperator \/ PostfixLoop \/ Primary
           \/ SizeOf
  BY <1>3, AssignmentTurns, AssignsTurns, MakeAssignmentTurns, BinaryLoopsTurns, UnaryOperatorTurns,
     PostfixLoopTurns, PrimaryTurns, SizeOfTurns
<1>4. CASE EndExpression \/ ParseStatement \/ Initial \/ Cases \/ EndArm \/ Declarations \/ Landed
  BY <1>4, EndExpressionTurns, ParseStatementTurns, InitialTurns, CasesTurns, EndArmTurns, DeclarationsTurns,
     LandedTurns
<1>5. CASE ParseVariable \/ Value \/ Typed \/ Modifiers \/ Dll \/ Params \/ Etc \/ MoreParams \/ FirstParam
           \/ Body
  BY <1>5, ParseVariableTurns, ValueTurns, TypedTurns, ModifiersTurns, DllTurns, ParamsTurns, EtcTurns,
     MoreParamsTurns, FirstParamTurns, BodyTurns
<1>6. CASE Fields \/ Declaration \/ Synchronize
  BY <1>6, FieldsTurns, DeclarationTurns, SynchronizeTurns
<1>7. QED
  BY <1>1, <1>2, <1>3, <1>4, <1>5, <1>6, Zenon DEF Step

LEMMA Rests ==
  ASSUME IInv, UNCHANGED vars
  PROVE  IInv'
<1>1. /\ text' = text /\ pos' = pos /\ todo' = todo /\ panic' = panic /\ reported' = reported
  BY DEF vars
<1>2. Tokens' = Tokens /\ Current' = Current /\ Do' = Do
  BY <1>1 DEF Tokens, Current, Do
<1>3. TypeInv' /\ Links(todo)'
  BY <1>1, <1>2 DEF IInv, TypeInv
<1>4. AssignInv'
  BY <1>1 DEF IInv, AssignInv, Assigned
<1>5. (Closing <=> Closing') /\ (LandedAt(pos) <=> LandedAt(pos)') /\ (Fresh <=> Fresh')
  <2>1. (Landing <=> Landing') /\ (AtClose <=> AtClose')
    BY <1>1, <1>2 DEF Landing, AtClose
  <2>2. Closing <=> Closing'
    BY <1>1, <1>2, <2>1 DEF Closing
  <2>3. QED
    BY <1>1, <2>2 DEF LandedAt, Fresh
<1>6. (Once(pos) <=> Once(pos)') /\ (Twice(pos) <=> Twice(pos)')
  BY <1>1 DEF Once, Twice
<1>7. SettledInv'
  BY <1>1, <1>2, <1>5, <1>6 DEF IInv, SettledInv
<1>8. ReportsInv'
  BY <1>1, <1>2 DEF IInv, ReportsInv, NoErrorThrice
<1>9. QED
  BY <1>3, <1>4, <1>7, <1>8 DEF IInv

(* Between the calls of the parser's functions the items on the stack are  *)
(* linked as declaration() and the loops around it leave them, and an error *)
(* where the cursor is leads to a loop that ends there, or to one that      *)
(* moves on (parser.c:568, :1107).                                          *)
THEOREM ParserInductive ==
  Spec => []IInv
<1>1. Init => IInv
  BY Starts
<1>2. IInv /\ [Next]_vars => IInv'
  <2>1. SUFFICES ASSUME IInv, [Next]_vars PROVE IInv'
    OBVIOUS
  <2>2. CASE Step /\ UNCHANGED text
    BY <2>1, <2>2, Turns
  <2>3. CASE UNCHANGED vars
    BY <2>1, <2>3, Rests
  <2>4. QED
    BY <2>1, <2>2, <2>3 DEF Next, Done
<1>3. QED
  BY <1>1, <1>2, PTL DEF Spec

(* Whatever the text, no three errors are reported at one token of it, and *)
(* none behind an earlier one (error_at(), synchronize()).                 *)
THEOREM NeverThrice ==
  Spec => []NoErrorThrice
<1>1. IInv => NoErrorThrice
  BY DEF IInv, ReportsInv
<1>2. QED
  BY <1>1, ParserInductive, PTL
====
