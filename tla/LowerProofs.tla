---------------------------- MODULE LowerProofs -----------------------------
(***************************************************************************)
(* Theorems about Lower: whatever the body and the -O level, the function  *)
(* that is generated consists of blocks that end in their only jump.       *)
(***************************************************************************)
EXTENDS Lower, SequenceTheorems, WellFoundedInduction, TLAPS

-----------------------------------------------------------------------------
(* Smallest numbers and sequences. *)

LEMMA LeastNat ==
  ASSUME NEW T \in SUBSET Nat, T # {}
  PROVE  \E x \in T : \A y \in T : x <= y
<1>1. PICK x \in T : \A y \in T : ~(<<y, x>> \in OpToRel(<, Nat))
  BY WFMin, NatLessThanWellFounded, Zenon
<1>2. ASSUME NEW y \in T PROVE x <= y
  <2>1. x \in Nat /\ y \in Nat
    OBVIOUS
  <2>2. ~(<<y, x>> \in OpToRel(<, Nat)) /\ <<y, x>> \in Nat \X Nat
    BY <1>1, <2>1
  <2>3. ~(y < x)
    BY <2>2, Zenon DEF OpToRel
  <2> QED
    BY <2>1, <2>3
<1> QED
  BY <1>2

IsSeq(s) == Len(s) \in Nat /\ s = [i \in 1..Len(s) |-> s[i]]

LEMMA SeqOfItself ==
  ASSUME NEW s, IsSeq(s)
  PROVE  /\ Len(s) \in Nat /\ DOMAIN s = 1..Len(s)
         /\ s \in Seq(ToSet(s))
<1>1. Len(s) \in Nat /\ s = [i \in 1..Len(s) |-> s[i]]
  BY DEF IsSeq
<1>2. DOMAIN s = 1..Len(s)
  BY <1>1
<1>3. s \in [1..Len(s) -> ToSet(s)]
  BY <1>1, <1>2 DEF ToSet
<1>4. s \in UNION {[1..n -> ToSet(s)] : n \in Nat}
  BY <1>1, <1>3
<1> QED
  BY <1>1, <1>2, <1>4, SeqDef, Zenon

LEMMA SeqIsSeq ==
  ASSUME NEW S, NEW s \in Seq(S)
  PROVE  IsSeq(s)
BY LenProperties DEF IsSeq

LEMMA FunctionIsSeq ==
  ASSUME NEW n \in Nat, NEW s, s = [i \in 1..n |-> s[i]]
  PROVE  IsSeq(s) /\ Len(s) = n /\ DOMAIN s = 1..n
<1>1. s \in [1..n -> {s[i] : i \in 1..n}]
  OBVIOUS
<1>2. s \in Seq({s[i] : i \in 1..n})
  BY <1>1, SeqDef, Zenon
<1>3. Len(s) \in Nat /\ DOMAIN s = 1..Len(s)
  BY <1>2, LenProperties
<1>4. Len(s) = n
  BY <1>3
<1> QED
  BY <1>2, <1>4, SeqIsSeq

LEMMA AppendIsSeq ==
  ASSUME NEW s, IsSeq(s), NEW e
  PROVE  /\ IsSeq(Append(s, e)) /\ Append(s, e) # <<>>
         /\ Len(Append(s, e)) = Len(s) + 1 /\ Last(Append(s, e)) = e
         /\ DOMAIN Append(s, e) = 1..(Len(s) + 1)
         /\ \A i \in 1..Len(s) : Append(s, e)[i] = s[i]
         /\ Append(s, e)[Len(s) + 1] = e
<1> DEFINE S == ToSet(s) \cup {e}
           t == Append(s, e)
<1>0. ToSet(s) \subseteq S
  OBVIOUS
<1> HIDE DEF S
<1>1. s \in Seq(S) /\ Len(s) \in Nat /\ DOMAIN s = 1..Len(s)
  BY <1>0, SeqOfItself, SeqMonotonic
<1>2. e \in S
  BY DEF S
<1>3. /\ t \in Seq(S) /\ t # <<>> /\ Len(t) = Len(s) + 1
      /\ \A i \in 1..Len(s) : t[i] = s[i]
      /\ t[Len(s) + 1] = e
  BY <1>1, <1>2, AppendProperties
<1>4. IsSeq(t)
  BY <1>3, SeqIsSeq
<1>5. DOMAIN t = 1..(Len(s) + 1)
  BY <1>3, <1>4, SeqOfItself
<1>6. Last(t) = e
  BY <1>3 DEF Last
<1> QED
  BY <1>3, <1>4, <1>5, <1>6

LEMMA ConcatIsSeq ==
  ASSUME NEW s, IsSeq(s), NEW t, IsSeq(t)
  PROVE  /\ IsSeq(s \o t) /\ Len(s \o t) = Len(s) + Len(t)
         /\ DOMAIN (s \o t) = 1..(Len(s) + Len(t))
         /\ \A i \in 1..Len(s) : (s \o t)[i] = s[i]
         /\ \A i \in 1..(Len(s) + Len(t)) :
              i \in 1..Len(s) \/ (i - Len(s) \in 1..Len(t) /\ (s \o t)[i] = t[i - Len(s)])
<1> DEFINE S == ToSet(s) \cup ToSet(t)
           u == s \o t
<1>0. ToSet(s) \subseteq S /\ ToSet(t) \subseteq S
  OBVIOUS
<1> HIDE DEF S
<1>1. /\ s \in Seq(S) /\ Len(s) \in Nat /\ DOMAIN s = 1..Len(s)
      /\ t \in Seq(S) /\ Len(t) \in Nat /\ DOMAIN t = 1..Len(t)
  BY <1>0, SeqOfItself, SeqMonotonic
<1>2. /\ u \in Seq(S) /\ Len(u) = Len(s) + Len(t)
      /\ \A i \in 1..(Len(s) + Len(t)) : u[i] = IF i <= Len(s) THEN s[i] ELSE t[i - Len(s)]
  BY <1>1, ConcatProperties
<1>3. IsSeq(u)
  BY <1>2, SeqIsSeq
<1>4. DOMAIN u = 1..(Len(s) + Len(t))
  BY <1>2, <1>3, SeqOfItself
<1> HIDE DEF u
<1>5. \A i \in 1..Len(s) : u[i] = s[i]
  BY <1>1, <1>2
<1>6. \A i \in 1..(Len(s) + Len(t)) :
        i \in 1..Len(s) \/ (i - Len(s) \in 1..Len(t) /\ u[i] = t[i - Len(s)])
  BY <1>1, <1>2
<1> QED
  BY <1>2, <1>3, <1>4, <1>5, <1>6 DEF u

LEMMA FrontIsSeq ==
  ASSUME NEW s, IsSeq(s), s # <<>>
  PROVE  /\ IsSeq(Front(s)) /\ Len(Front(s)) = Len(s) - 1 /\ Len(s) \in Nat \ {0}
         /\ \A i \in 1..(Len(s) - 1) : Front(s)[i] = s[i]
         /\ Last(s) = s[Len(s)]
<1>1. Len(s) \in Nat /\ DOMAIN s = 1..Len(s) /\ s \in Seq(ToSet(s))
  BY SeqOfItself
<1>2. Len(s) # 0
  BY <1>1, EmptySeq
<1>3. /\ Front(s) \in Seq(ToSet(s))
      /\ Len(Front(s)) = Len(s) - 1
      /\ \A i \in 1..(Len(s) - 1) : Front(s)[i] = s[i]
  <2>1. PICK n : n = Len(s) - 1
    OBVIOUS
  <2>2. n \in Nat /\ n \in Int /\ 1 \in Int
    BY <1>1, <1>2, <2>1
  <2>3. \A i \in 1..n : s[i] \in ToSet(s)
    BY <1>1, <1>2, <2>1 DEF ToSet
  <2>4. /\ SubSeq(s, 1, n) \in Seq(ToSet(s))
        /\ Len(SubSeq(s, 1, n)) = IF 1 <= n THEN n - 1 + 1 ELSE 0
        /\ \A i \in 1..(n - 1 + 1) : SubSeq(s, 1, n)[i] = s[1 + i - 1]
    BY <2>2, <2>3, SubSeqProperties
  <2>5. n - 1 + 1 = n /\ \A i \in 1..n : 1 + i - 1 = i
    BY <2>2
  <2>6. Len(SubSeq(s, 1, n)) = n
    BY <2>2, <2>4
  <2> QED
    BY <2>1, <2>2, <2>4, <2>5, <2>6 DEF Front
<1> QED
  BY <1>1, <1>2, <1>3, SeqIsSeq DEF Last

-----------------------------------------------------------------------------
(* Nodes and their paths. *)

\* f leads from t down the path p, n steps.
Leads(t, p, n, f) == f = [i \in 0..n |-> IF i = 0 THEN t ELSE f[i - 1].kids[p[i]]]

LEMMA WayExists ==
  ASSUME NEW t, NEW p, NEW n \in Nat
  PROVE  \E f : Leads(t, p, n, f)
<1>1. PICK T : T = {m \in 0..n : ~ \E f : Leads(t, p, m, f)}
  OBVIOUS
<1>2. SUFFICES ASSUME T # {} PROVE FALSE
  BY <1>1
<1>3. T \in SUBSET Nat
  BY <1>1
<1>4. PICK m \in T : \A k \in T : m <= k
  BY <1>2, <1>3, LeastNat
<1>5. m \in 0..n /\ ~ \E f : Leads(t, p, m, f)
  BY <1>1, <1>4
<1>6. CASE m = 0
  <2>1. PICK g : g = [i \in 0..m |-> t]
    OBVIOUS
  <2>2. Leads(t, p, m, g)
    BY <1>6, <2>1 DEF Leads
  <2> QED
    BY <1>5, <2>2
<1>7. CASE m # 0
  <2>1. m - 1 \in 0..n /\ ~(m <= m - 1) /\ m \in Nat
    BY <1>5, <1>7
  <2>2. m - 1 \notin T
    BY <1>4, <2>1
  <2>3. PICK f : f = [i \in 0..(m - 1) |-> IF i = 0 THEN t ELSE f[i - 1].kids[p[i]]]
    BY <1>1, <2>1, <2>2 DEF Leads
  <2>4. PICK v : v = f[m - 1].kids[p[m]]
    OBVIOUS
  <2>5. PICK g : g = [i \in 0..m |-> IF i = m THEN v ELSE f[i]]
    OBVIOUS
  <2>6. ASSUME NEW i \in 0..m
        PROVE  g[i] = IF i = 0 THEN t ELSE g[i - 1].kids[p[i]]
    <3>1. CASE i = m
      <4>1. g[i - 1] = f[m - 1]
        BY <1>5, <1>7, <2>5, <3>1
      <4> QED
        BY <1>7, <2>4, <2>5, <3>1, <4>1
    <3>2. CASE i # m
      <4>1. i \in 0..(m - 1) /\ g[i] = f[i]
        BY <2>1, <2>5, <2>6, <3>2
      <4>2. i # 0 => g[i - 1] = f[i - 1]
        BY <2>1, <2>5, <4>1
      <4>3. f[i] = IF i = 0 THEN t ELSE f[i - 1].kids[p[i]]
        BY <2>3, <4>1
      <4> QED
        BY <4>1, <4>2, <4>3
    <3> QED
      BY <3>1, <3>2
  <2>7. Leads(t, p, m, g)
    <3>1. g = [i \in 0..m |-> g[i]]
      BY <2>5
    <3> QED
      BY <2>6, <3>1 DEF Leads
  <2> QED
    BY <1>5, <2>7
<1> QED
  BY <1>6, <1>7

Agree(p, q, n) == \A i \in 1..n : p[i] = q[i]

LEMMA WaysAgree ==
  ASSUME NEW t, NEW p, NEW q, NEW f, NEW g, NEW n \in Nat, NEW m \in Nat, n <= m,
         Agree(p, q, n), Leads(t, p, n, f), Leads(t, q, m, g)
  PROVE  f[n] = g[n]
<1>0. \A i \in 1..n : p[i] = q[i]
  BY DEF Agree
<1>1. \A i \in 0..n : f[i] = IF i = 0 THEN t ELSE f[i - 1].kids[p[i]]
  <2>1. f = [i \in 0..n |-> IF i = 0 THEN t ELSE f[i - 1].kids[p[i]]]
    BY DEF Leads
  <2> QED
    BY <2>1
<1>2. \A i \in 0..n : g[i] = IF i = 0 THEN t ELSE g[i - 1].kids[q[i]]
  <2>1. g = [i \in 0..m |-> IF i = 0 THEN t ELSE g[i - 1].kids[q[i]]]
    BY DEF Leads
  <2>2. \A i \in 0..n : i \in 0..m
    OBVIOUS
  <2> QED
    BY <2>1, <2>2
<1>3. PICK T : T = {i \in 0..n : f[i] # g[i]}
  OBVIOUS
<1>4. SUFFICES ASSUME T # {} PROVE FALSE
  BY <1>3
<1>5. T \in SUBSET Nat
  BY <1>3
<1>6. PICK i \in T : \A k \in T : i <= k
  BY <1>4, <1>5, LeastNat
<1>7. i \in 0..n /\ f[i] # g[i]
  BY <1>3, <1>6
<1>8. i # 0
  BY <1>1, <1>2, <1>7
<1>9. i \in 1..n /\ i - 1 \in 0..n /\ ~(i <= i - 1)
  BY <1>7, <1>8
<1>10. f[i - 1] = g[i - 1]
  BY <1>3, <1>6, <1>9
<1> QED
  BY <1>0, <1>1, <1>2, <1>7, <1>8, <1>9, <1>10

\* NodeAt means what its recursive definition says.
LEMMA NodeAtIs ==
  ASSUME NEW t, NEW p, Len(p) \in Nat
  PROVE  \E f : Leads(t, p, Len(p), f) /\ NodeAt(t, p) = f[Len(p)]
<1>1. PICK n \in Nat : n = Len(p)
  OBVIOUS
<1>2. \E f : f = [i \in 0..n |-> IF i = 0 THEN t ELSE f[i - 1].kids[p[i]]]
  <2>1. PICK f : Leads(t, p, n, f)
    BY WayExists
  <2>2. f = [i \in 0..n |-> IF i = 0 THEN t ELSE f[i - 1].kids[p[i]]]
    BY <2>1 DEF Leads
  <2> QED
    BY <2>2
<1>3. PICK g : g = (CHOOSE f : f = [i \in 0..n |-> IF i = 0 THEN t ELSE f[i - 1].kids[p[i]]])
  OBVIOUS
<1>4. g = [i \in 0..n |-> IF i = 0 THEN t ELSE g[i - 1].kids[p[i]]]
  BY <1>2, <1>3
<1>5. NodeAt(t, p) = g[n]
  BY <1>1, <1>3, Zenon DEF NodeAt
<1> QED
  BY <1>1, <1>4, <1>5 DEF Leads

LEMMA NodeAtRoot == ASSUME NEW t PROVE NodeAt(t, <<>>) = t
<1>1. Len(<<>>) = 0 /\ Len(<<>>) \in Nat
  OBVIOUS
<1>2. PICK f : Leads(t, <<>>, Len(<<>>), f) /\ NodeAt(t, <<>>) = f[Len(<<>>)]
  BY <1>1, NodeAtIs
<1>3. PICK n : n = 0
  OBVIOUS
<1>4. f = [i \in 0..n |-> IF i = 0 THEN t ELSE f[i - 1].kids[<<>>[i]]]
  BY <1>1, <1>2, <1>3 DEF Leads
<1>5. f[n] = t
  BY <1>3, <1>4
<1> QED
  BY <1>1, <1>2, <1>3, <1>5

LEMMA NodeAtKid ==
  ASSUME NEW t, NEW p, IsSeq(p), NEW k
  PROVE  NodeAt(t, Kid(p, k)) = NodeAt(t, p).kids[k]
<1>0. Len(p) \in Nat
  BY DEF IsSeq
<1>1. PICK n \in Nat : n = Len(p)
  BY <1>0
<1>11. PICK q : q = Kid(p, k)
  OBVIOUS
<1>2. Len(q) = n + 1 /\ Len(q) \in Nat /\ q[n + 1] = k /\ \A i \in 1..n : p[i] = q[i]
  BY <1>1, <1>11, AppendIsSeq DEF Kid
<1>3. PICK f : Leads(t, p, n, f) /\ NodeAt(t, p) = f[n]
  BY <1>1, NodeAtIs
<1>4. PICK g : Leads(t, q, n + 1, g) /\ NodeAt(t, q) = g[n + 1]
  BY <1>2, NodeAtIs
<1>5. f[n] = g[n]
  <2>1. Agree(p, q, n)
    BY <1>2 DEF Agree
  <2>2. PICK m \in Nat : m = n + 1
    OBVIOUS
  <2>3. n <= m /\ Leads(t, q, m, g)
    BY <1>4, <2>2
  <2> QED
    BY <1>3, <2>1, <2>3, WaysAgree
<1>6. g[n + 1] = g[n].kids[k]
  <2>1. g = [i \in 0..(n + 1) |-> IF i = 0 THEN t ELSE g[i - 1].kids[q[i]]]
    BY <1>4 DEF Leads
  <2>2. n + 1 \in 0..(n + 1) /\ n + 1 # 0 /\ n + 1 - 1 = n
    OBVIOUS
  <2> QED
    BY <1>2, <2>1, <2>2
<1> QED
  BY <1>1, <1>11, <1>3, <1>4, <1>5, <1>6

\* The paths, level by level.
KidsOf(t, p) == {Kid(p, k) : k \in DOMAIN NodeAt(t, p).kids}

NextLevel(t, S) == UNION {KidsOf(t, p) : p \in S}

AreLevels(t, n, f) == f = [i \in 0..n |-> IF i = 0 THEN {<<>>} ELSE NextLevel(t, f[i - 1])]

LEMMA LevelsExist ==
  ASSUME NEW t, NEW n \in Nat
  PROVE  \E f : AreLevels(t, n, f)
<1>1. PICK T : T = {m \in 0..n : ~ \E f : AreLevels(t, m, f)}
  OBVIOUS
<1>2. SUFFICES ASSUME T # {} PROVE FALSE
  BY <1>1
<1>3. T \in SUBSET Nat
  BY <1>1
<1>4. PICK m \in T : \A k \in T : m <= k
  BY <1>2, <1>3, LeastNat
<1>5. m \in 0..n /\ ~ \E f : AreLevels(t, m, f)
  BY <1>1, <1>4
<1>6. CASE m = 0
  <2>1. PICK g : g = [i \in 0..m |-> {<<>>}]
    OBVIOUS
  <2>2. AreLevels(t, m, g)
    BY <1>6, <2>1 DEF AreLevels
  <2> QED
    BY <1>5, <2>2
<1>7. CASE m # 0
  <2>1. m - 1 \in 0..n /\ ~(m <= m - 1) /\ m \in Nat
    BY <1>5, <1>7
  <2>2. m - 1 \notin T
    BY <1>4, <2>1
  <2>3. PICK f : f = [i \in 0..(m - 1) |-> IF i = 0 THEN {<<>>} ELSE NextLevel(t, f[i - 1])]
    BY <1>1, <2>1, <2>2 DEF AreLevels
  <2>4. PICK v : v = NextLevel(t, f[m - 1])
    OBVIOUS
  <2>5. PICK g : g = [i \in 0..m |-> IF i = m THEN v ELSE f[i]]
    OBVIOUS
  <2>6. ASSUME NEW i \in 0..m
        PROVE  g[i] = IF i = 0 THEN {<<>>} ELSE NextLevel(t, g[i - 1])
    <3>1. CASE i = m
      <4>1. g[i - 1] = f[m - 1]
        BY <1>5, <1>7, <2>5, <3>1
      <4> QED
        BY <1>7, <2>4, <2>5, <3>1, <4>1
    <3>2. CASE i # m
      <4>1. i \in 0..(m - 1) /\ g[i] = f[i]
        BY <2>1, <2>5, <2>6, <3>2
      <4>2. i # 0 => g[i - 1] = f[i - 1]
        BY <2>1, <2>5, <4>1
      <4>3. f[i] = IF i = 0 THEN {<<>>} ELSE NextLevel(t, f[i - 1])
        BY <2>3, <4>1
      <4> QED
        BY <4>1, <4>2, <4>3
    <3> QED
      BY <3>1, <3>2
  <2>7. AreLevels(t, m, g)
    <3>1. g = [i \in 0..m |-> g[i]]
      BY <2>5
    <3> QED
      BY <2>6, <3>1 DEF AreLevels
  <2> QED
    BY <1>5, <2>7
<1> QED
  BY <1>6, <1>7

LEMMA NextLevelIs ==
  ASSUME NEW t, NEW S, NEW q
  PROVE  q \in NextLevel(t, S) <=> \E p \in S : \E k \in DOMAIN NodeAt(t, p).kids : q = Kid(p, k)
<1>1. q \in NextLevel(t, S) <=> \E p \in S : q \in KidsOf(t, p)
  BY DEF NextLevel
<1>2. ASSUME NEW p
      PROVE  q \in KidsOf(t, p) <=> \E k \in DOMAIN NodeAt(t, p).kids : q = Kid(p, k)
  BY DEF KidsOf
<1> QED
  BY <1>1, <1>2

LEMMA PathsAreLevels ==
  ASSUME NEW t
  PROVE  \E f : AreLevels(t, Depth, f) /\ Paths(t) = UNION {f[i] : i \in 0..Depth}
<1>1. \E f : f = [i \in 0..Depth |->
                    IF i = 0 THEN {<<>>}
                    ELSE UNION {{Kid(p, k) : k \in DOMAIN NodeAt(t, p).kids} : p \in f[i - 1]}]
  <2>1. PICK f : AreLevels(t, Depth, f)
    BY DepthAssumption, LevelsExist
  <2> QED
    BY <2>1, Zenon DEF AreLevels, NextLevel, KidsOf
<1>2. PICK g : g = CHOOSE f : f = [i \in 0..Depth |->
                    IF i = 0 THEN {<<>>}
                    ELSE UNION {{Kid(p, k) : k \in DOMAIN NodeAt(t, p).kids} : p \in f[i - 1]}]
  OBVIOUS
<1>3. g = [i \in 0..Depth |->
                    IF i = 0 THEN {<<>>}
                    ELSE UNION {{Kid(p, k) : k \in DOMAIN NodeAt(t, p).kids} : p \in g[i - 1]}]
  BY <1>1, <1>2
<1>4. AreLevels(t, Depth, g)
  BY <1>3, Zenon DEF AreLevels, NextLevel, KidsOf
<1>5. Paths(t) = UNION {g[i] : i \in 0..Depth}
  BY <1>2, Zenon DEF Paths
<1> QED
  BY <1>4, <1>5

LEMMA LevelIs ==
  ASSUME NEW t, NEW f, AreLevels(t, Depth, f), NEW i \in 0..Depth, NEW q
  PROVE  /\ i = 0 => (q \in f[i] <=> q = <<>>)
         /\ i # 0 => (q \in f[i] <=> \E p \in f[i - 1] : \E k \in DOMAIN NodeAt(t, p).kids : q = Kid(p, k))
<1>1. f[i] = IF i = 0 THEN {<<>>} ELSE NextLevel(t, f[i - 1])
  <2>1. f = [j \in 0..Depth |-> IF j = 0 THEN {<<>>} ELSE NextLevel(t, f[j - 1])]
    BY DEF AreLevels
  <2> QED
    BY <2>1
<1>2. CASE i = 0
  BY <1>1, <1>2
<1>3. CASE i # 0
  <2>1. PICK S : S = f[i - 1]
    OBVIOUS
  <2>2. f[i] = NextLevel(t, S)
    BY <1>1, <1>3, <2>1
  <2>3. q \in NextLevel(t, S) <=> \E p \in S : \E k \in DOMAIN NodeAt(t, p).kids : q = Kid(p, k)
    BY NextLevelIs
  <2> QED
    BY <1>3, <2>1, <2>2, <2>3
<1> QED
  BY <1>2, <1>3

\* A path on level i has i parts.
LEMMA LevelLength ==
  ASSUME NEW t, NEW f, AreLevels(t, Depth, f), NEW i \in 0..Depth, NEW q \in f[i]
  PROVE  IsSeq(q) /\ Len(q) = i
<1>1. PICK T : T = {j \in 0..Depth : \E p \in f[j] : ~(IsSeq(p) /\ Len(p) = j)}
  OBVIOUS
<1>2. SUFFICES ASSUME T # {} PROVE FALSE
  BY <1>1
<1>3. T \in SUBSET Nat
  BY <1>1
<1>4. PICK j \in T : \A k \in T : j <= k
  BY <1>2, <1>3, LeastNat
<1>5. j \in 0..Depth /\ \E p \in f[j] : ~(IsSeq(p) /\ Len(p) = j)
  BY <1>1, <1>4
<1>6. PICK p \in f[j] : ~(IsSeq(p) /\ Len(p) = j)
  BY <1>5
<1>7. j # 0
  <2>1. SUFFICES ASSUME j = 0 PROVE FALSE
    OBVIOUS
  <2>2. p = <<>>
    BY <1>5, <1>6, <2>1, LevelIs
  <2>3. IsSeq(<<>>) /\ Len(<<>>) = 0
    <3>1. << >> \in Seq({}) /\ Len(<<>>) = 0
      OBVIOUS
    <3> QED
      BY <3>1, SeqIsSeq
  <2> QED
    BY <1>6, <2>1, <2>2, <2>3
<1>8. PICK r \in f[j - 1] : \E k \in DOMAIN NodeAt(t, r).kids : p = Kid(r, k)
  BY <1>5, <1>6, <1>7, LevelIs
<1>9. j - 1 \in 0..Depth /\ ~(j <= j - 1) /\ j \in Nat
  BY <1>5, <1>7, DepthAssumption
<1>10. IsSeq(r) /\ Len(r) = j - 1
  BY <1>1, <1>4, <1>8, <1>9
<1>11. PICK k : p = Kid(r, k)
  BY <1>8
<1>12. IsSeq(p) /\ Len(p) = j - 1 + 1
  BY <1>10, <1>11, AppendIsSeq DEF Kid
<1> QED
  BY <1>6, <1>9, <1>12

LEMMA RootIsPath == ASSUME NEW t PROVE << >> \in Paths(t)
<1>1. PICK f : AreLevels(t, Depth, f) /\ Paths(t) = UNION {f[i] : i \in 0..Depth}
  BY PathsAreLevels
<1>2. 0 \in 0..Depth
  BY DepthAssumption
<1>3. << >> \in f[0]
  BY <1>1, <1>2, LevelIs
<1> QED
  BY <1>1, <1>2, <1>3

LEMMA PathIsSeq ==
  ASSUME NEW t, NEW q \in Paths(t)
  PROVE  IsSeq(q) /\ Len(q) \in 0..Depth
<1>1. PICK f : AreLevels(t, Depth, f) /\ Paths(t) = UNION {f[i] : i \in 0..Depth}
  BY PathsAreLevels
<1>2. PICK i \in 0..Depth : q \in f[i]
  BY <1>1
<1> QED
  BY <1>1, <1>2, LevelLength

LEMMA KidIsPath ==
  ASSUME NEW t, NEW p \in Paths(t), Len(p) < Depth, NEW k \in DOMAIN NodeAt(t, p).kids
  PROVE  Kid(p, k) \in Paths(t)
<1>1. PICK f : AreLevels(t, Depth, f) /\ Paths(t) = UNION {f[i] : i \in 0..Depth}
  BY PathsAreLevels
<1>2. PICK i \in 0..Depth : p \in f[i]
  BY <1>1
<1>3. Len(p) = i
  BY <1>1, <1>2, LevelLength
<1>4. PICK j : j = i + 1
  OBVIOUS
<1>5. j \in 0..Depth /\ j # 0 /\ j - 1 = i
  BY <1>2, <1>3, <1>4, DepthAssumption
<1>6. Kid(p, k) \in f[j]
  BY <1>1, <1>2, <1>5, LevelIs
<1> QED
  BY <1>1, <1>5, <1>6

LEMMA PathIsKid ==
  ASSUME NEW t, NEW q \in Paths(t), Len(q) # 0
  PROVE  \E p \in Paths(t) : \E k \in DOMAIN NodeAt(t, p).kids : q = Kid(p, k)
<1>1. PICK f : AreLevels(t, Depth, f) /\ Paths(t) = UNION {f[i] : i \in 0..Depth}
  BY PathsAreLevels
<1>2. PICK i \in 0..Depth : q \in f[i]
  BY <1>1
<1>3. Len(q) = i
  BY <1>1, <1>2, LevelLength
<1>4. i # 0 /\ i - 1 \in 0..Depth
  BY <1>2, <1>3, DepthAssumption
<1>5. \E p \in f[i - 1] : \E k \in DOMAIN NodeAt(t, p).kids : q = Kid(p, k)
  BY <1>1, <1>2, <1>4, LevelIs
<1> QED
  BY <1>1, <1>4, <1>5

-----------------------------------------------------------------------------
(* Paths below other paths. *)

\* Path q leads through the node at p and on.
Below(p, q) == Len(p) < Len(q) /\ Agree(p, q, Len(p))

LEMMA SeqsEqual ==
  ASSUME NEW p, IsSeq(p), NEW q, IsSeq(q), Len(p) = Len(q), Agree(p, q, Len(p))
  PROVE  p = q
<1>1. PICK n : n = Len(p)
  OBVIOUS
<1>2. p = [i \in 1..n |-> p[i]] /\ q = [i \in 1..n |-> q[i]]
  BY <1>1 DEF IsSeq
<1>3. \A i \in 1..n : p[i] = q[i]
  BY <1>1 DEF Agree
<1> QED
  BY <1>2, <1>3

LEMMA PrefixIs ==
  ASSUME NEW p, IsSeq(p), NEW q, IsSeq(q), Below(p, q)
  PROVE  SubSeq(q, 1, Len(p)) = p
<1>1. PICK n : n = Len(p)
  OBVIOUS
<1>2. n \in Nat /\ Len(q) \in Nat /\ n < Len(q) /\ \A i \in 1..n : p[i] = q[i]
  BY <1>1 DEF IsSeq, Below, Agree
<1>3. DOMAIN q = 1..Len(q)
  BY SeqOfItself
<1>4. \A i \in 1..n : q[i] \in ToSet(q)
  BY <1>2, <1>3 DEF ToSet
<1>5. n \in Int /\ 1 \in Int /\ n - 1 + 1 = n /\ \A i \in 1..n : 1 + i - 1 = i
  BY <1>2
<1>6. /\ SubSeq(q, 1, n) \in Seq(ToSet(q))
      /\ Len(SubSeq(q, 1, n)) = IF 1 <= n THEN n - 1 + 1 ELSE 0
      /\ \A i \in 1..(n - 1 + 1) : SubSeq(q, 1, n)[i] = q[1 + i - 1]
  BY <1>4, <1>5, SubSeqProperties
<1>7. PICK r : r = SubSeq(q, 1, n)
  OBVIOUS
<1>8. Len(r) = n
  BY <1>2, <1>5, <1>6, <1>7
<1>9. IsSeq(r)
  BY <1>6, <1>7, SeqIsSeq
<1>10. \A i \in 1..n : r[i] = p[i]
  BY <1>2, <1>5, <1>6, <1>7
<1>11. Agree(r, p, n)
  BY <1>10 DEF Agree
<1>12. r = p
  BY <1>1, <1>8, <1>9, <1>11, SeqsEqual
<1> QED
  BY <1>1, <1>7, <1>12

LEMMA PrefixesAgree ==
  ASSUME NEW p, IsSeq(p), NEW q, IsSeq(q), Below(p, q), NEW i \in 0..Len(p)
  PROVE  SubSeq(q, 1, i) = SubSeq(p, 1, i)
<1>1. i \in Int /\ 1 \in Int /\ i \in Nat /\ i - 1 + 1 = i /\ \A j \in 1..i : 1 + j - 1 = j
  BY DEF IsSeq
<1>2. PICK T : T = ToSet(p) \cup ToSet(q)
  OBVIOUS
<1>3. /\ \A j \in 1..i : p[j] \in T /\ q[j] \in T /\ p[j] = q[j]
  <2>1. DOMAIN p = 1..Len(p) /\ DOMAIN q = 1..Len(q) /\ Len(p) \in Nat /\ Len(q) \in Nat
    BY SeqOfItself
  <2>2. \A j \in 1..i : j \in 1..Len(p) /\ j \in 1..Len(q)
    BY <1>1, <2>1 DEF Below
  <2>3. \A j \in 1..i : p[j] = q[j]
    BY <2>2 DEF Below, Agree
  <2> QED
    BY <1>2, <2>1, <2>2, <2>3 DEF ToSet
<1>4. /\ SubSeq(p, 1, i) \in Seq(T)
      /\ Len(SubSeq(p, 1, i)) = IF 1 <= i THEN i - 1 + 1 ELSE 0
      /\ \A j \in 1..(i - 1 + 1) : SubSeq(p, 1, i)[j] = p[1 + j - 1]
  BY <1>1, <1>3, SubSeqProperties
<1>5. /\ SubSeq(q, 1, i) \in Seq(T)
      /\ Len(SubSeq(q, 1, i)) = IF 1 <= i THEN i - 1 + 1 ELSE 0
      /\ \A j \in 1..(i - 1 + 1) : SubSeq(q, 1, i)[j] = q[1 + j - 1]
  BY <1>1, <1>3, SubSeqProperties
<1>6. PICK r : r = SubSeq(p, 1, i)
  OBVIOUS
<1>7. PICK s : s = SubSeq(q, 1, i)
  OBVIOUS
<1>8. Len(r) = i /\ Len(s) = i
  BY <1>1, <1>4, <1>5, <1>6, <1>7
<1>9. \A j \in 1..i : r[j] = s[j]
  BY <1>1, <1>3, <1>4, <1>5, <1>6, <1>7
<1>10. Agree(r, s, i)
  BY <1>9 DEF Agree
<1>11. IsSeq(r) /\ IsSeq(s)
  BY <1>4, <1>5, <1>6, <1>7, SeqIsSeq
<1>12. r = s
  BY <1>8, <1>10, <1>11, SeqsEqual
<1> QED
  BY <1>6, <1>7, <1>12

LEMMA BelowKid ==
  ASSUME NEW p, IsSeq(p), NEW k
  PROVE  /\ IsSeq(Kid(p, k)) /\ Len(Kid(p, k)) = Len(p) + 1 /\ Len(p) \in Nat
         /\ Kid(p, k)[Len(p) + 1] = k /\ Below(p, Kid(p, k))
<1>1. PICK n : n = Len(p)
  OBVIOUS
<1>2. PICK q : q = Kid(p, k)
  OBVIOUS
<1>3. n \in Nat
  BY <1>1 DEF IsSeq
<1>4. IsSeq(q) /\ Len(q) = n + 1 /\ q[n + 1] = k /\ \A i \in 1..n : q[i] = p[i]
  BY <1>1, <1>2, AppendIsSeq DEF Kid
<1>5. Below(p, q)
  BY <1>1, <1>3, <1>4 DEF Below, Agree
<1> QED
  BY <1>1, <1>2, <1>3, <1>4, <1>5

\* A path leads through each of its beginnings, on to one of the parts of that node.
LEMMA PathThrough ==
  ASSUME NEW t, NEW q \in Paths(t), NEW p, IsSeq(p), Below(p, q)
  PROVE  p \in Paths(t) /\ q[Len(p) + 1] \in DOMAIN NodeAt(t, p).kids
<1> DEFINE Wrong(r) == Below(p, r) /\ ~(p \in Paths(t) /\ r[Len(p) + 1] \in DOMAIN NodeAt(t, p).kids)
           T == {i \in Nat : \E r \in Paths(t) : Len(r) = i /\ Wrong(r)}
<1>1. SUFFICES ASSUME Wrong(q) PROVE FALSE
  OBVIOUS
<1>2. Len(q) \in T
  <2>1. Len(q) \in Nat
    BY PathIsSeq, DepthAssumption
  <2> QED
    BY <1>1, <2>1
<1>3. T \in SUBSET Nat /\ T # {}
  BY <1>2
<1>4. PICK i \in T : \A j \in T : i <= j
  <2> HIDE DEF T
  <2> QED
    BY <1>3, LeastNat
<1>5. PICK r \in Paths(t) : Len(r) = i /\ Wrong(r)
  BY <1>4
<1>6. i \in Nat
  BY <1>4
<1>7. Below(p, r) /\ ~(p \in Paths(t) /\ r[Len(p) + 1] \in DOMAIN NodeAt(t, p).kids)
  BY <1>5
<1>8. PICK m \in Nat : m = Len(p)
  BY DEF IsSeq
<1>9. m < i /\ i # 0
  BY <1>5, <1>6, <1>7, <1>8 DEF Below
<1>10. PICK s \in Paths(t) : \E k \in DOMAIN NodeAt(t, s).kids : r = Kid(s, k)
  BY <1>5, <1>9, PathIsKid
<1>11. PICK k \in DOMAIN NodeAt(t, s).kids : r = Kid(s, k)
  BY <1>10
<1>12. IsSeq(s)
  BY <1>10, PathIsSeq
<1>13. PICK n \in Nat : n = Len(s)
  BY <1>12 DEF IsSeq
<1>14. i = n + 1 /\ r[n + 1] = k /\ Below(s, r)
  BY <1>5, <1>11, <1>12, <1>13, BelowKid
<1>15. /\ \A j \in 1..m : r[j] = p[j]
       /\ \A j \in 1..n : r[j] = s[j]
  BY <1>7, <1>8, <1>13, <1>14 DEF Below, Agree
<1>16. CASE m = n
  <2>1. Agree(p, s, m)
    BY <1>15, <1>16 DEF Agree
  <2>2. p = s
    BY <1>8, <1>12, <1>13, <1>16, <2>1, SeqsEqual
  <2> QED
    BY <1>7, <1>10, <1>11, <1>13, <1>14, <2>2
<1>17. CASE m # n
  <2>1. m < n
    BY <1>8, <1>9, <1>13, <1>14, <1>17
  <2>2. \A j \in 1..m : p[j] = s[j]
    BY <1>8, <1>13, <1>15, <2>1
  <2>3. Below(p, s)
    BY <1>8, <1>13, <2>1, <2>2 DEF Below, Agree
  <2>4. r[m + 1] = s[m + 1]
    BY <1>8, <1>13, <1>15, <2>1
  <2>5. Wrong(s)
    BY <1>7, <1>8, <2>3, <2>4
  <2>6. n \in T
    BY <1>10, <1>13, <2>5
  <2>7. ~(i <= n)
    BY <1>13, <1>14
  <2> QED
    BY <1>4, <2>6, <2>7
<1> QED
  BY <1>16, <1>17

LEMMA KidOrBelow ==
  ASSUME NEW p, IsSeq(p), NEW q, IsSeq(q), Below(p, q), NEW k, k = q[Len(p) + 1]
  PROVE  q = Kid(p, k) \/ Below(Kid(p, k), q)
<1>1. PICK r : r = Kid(p, k)
  OBVIOUS
<1>2. PICK n \in Nat : n = Len(p)
  BY DEF IsSeq
<1>3. PICK m \in Nat : m = Len(q)
  BY DEF IsSeq
<1>4. IsSeq(r) /\ Len(r) = n + 1 /\ r[n + 1] = k /\ Below(p, r)
  BY <1>1, <1>2, BelowKid
<1>5. n < m /\ (\A i \in 1..n : q[i] = p[i]) /\ (\A i \in 1..n : r[i] = p[i])
  BY <1>2, <1>3, <1>4 DEF Below, Agree
<1>6. \A i \in 1..(n + 1) : r[i] = q[i]
  BY <1>2, <1>4, <1>5
<1>7. Agree(r, q, n + 1)
  BY <1>6 DEF Agree
<1>8. CASE n + 1 = m
  <2>1. r = q
    BY <1>3, <1>4, <1>7, <1>8, SeqsEqual
  <2> QED
    BY <1>1, <2>1
<1>9. CASE n + 1 # m
  <2>1. n + 1 < m
    BY <1>2, <1>3, <1>5, <1>9
  <2>2. Below(r, q)
    BY <1>3, <1>4, <1>7, <2>1 DEF Below
  <2> QED
    BY <1>1, <2>2
<1> QED
  BY <1>8, <1>9

\* What is skipped: the branches a constant condition rules out, and what is in them.
RuledOut(n, k) == n.op = "if" /\ n.kids[1].op = "const" /\ k \notin {1, 3 - n.kids[1].vals[1]}

LEMMA SkippedIs ==
  ASSUME NEW t, NEW p
  PROVE  Skipped(t, p) <=> \E i \in 0..(Len(p) - 1) : RuledOut(NodeAt(t, SubSeq(p, 1, i)), p[i + 1])
BY DEF Skipped, RuledOut

LEMMA SkippedBelow ==
  ASSUME NEW t, NEW p, IsSeq(p), NEW q, IsSeq(q), Below(p, q), RuledOut(NodeAt(t, p), q[Len(p) + 1])
  PROVE  Skipped(t, q)
<1>1. Len(p) \in 0..(Len(q) - 1)
  BY DEF IsSeq, Below
<1>2. SubSeq(q, 1, Len(p)) = p
  BY PrefixIs
<1> QED
  BY <1>1, <1>2, SkippedIs

LEMMA SkippedKid ==
  ASSUME NEW t, NEW p, IsSeq(p), NEW k, Skipped(t, Kid(p, k))
  PROVE  Skipped(t, p) \/ RuledOut(NodeAt(t, p), k)
<1>1. PICK q : q = Kid(p, k)
  OBVIOUS
<1>2. PICK n \in Nat : n = Len(p)
  BY DEF IsSeq
<1>3. IsSeq(q) /\ Len(q) = n + 1 /\ q[n + 1] = k /\ Below(p, q)
  BY <1>1, <1>2, BelowKid
<1>4. PICK i \in 0..(Len(q) - 1) : RuledOut(NodeAt(t, SubSeq(q, 1, i)), q[i + 1])
  BY <1>1, SkippedIs
<1>5. i \in 0..n
  BY <1>2, <1>3, <1>4
<1>6. CASE i = n
  <2>1. SubSeq(q, 1, n) = p
    BY <1>2, <1>3, PrefixIs
  <2> QED
    BY <1>3, <1>4, <1>6, <2>1
<1>7. CASE i # n
  <2>1. i \in 0..(Len(p) - 1) /\ i \in 0..Len(p) /\ i + 1 \in 1..n
    BY <1>2, <1>5, <1>7
  <2>2. SubSeq(q, 1, i) = SubSeq(p, 1, i)
    BY <1>3, <2>1, PrefixesAgree
  <2>3. q[i + 1] = p[i + 1]
    BY <1>2, <1>3, <2>1 DEF Below, Agree
  <2>4. RuledOut(NodeAt(t, SubSeq(p, 1, i)), p[i + 1])
    BY <1>4, <2>2, <2>3
  <2> QED
    BY <2>1, <2>4, SkippedIs
<1> QED
  BY <1>6, <1>7

-----------------------------------------------------------------------------
(* The builder. *)

\* A list of blocks: instructions are records, and nothing follows a terminator.
IsInst(x) == x = [op |-> x.op, p |-> x.p, q |-> x.q, to |-> x.to, vals |-> x.vals]

IsBlock(b) ==
  /\ b = [name |-> b.name, insts |-> b.insts]
  /\ IsSeq(b.insts)
  /\ \A i \in 1..Len(b.insts) :
       /\ IsInst(b.insts[i])
       /\ i # Len(b.insts) => b.insts[i].op \notin Terminators

Blks(bs) == IsSeq(bs) /\ \A b \in 1..Len(bs) : IsBlock(bs[b])

\* What the builder may do to a list of blocks.
Grown(bs, cs) ==
  /\ Len(bs) <= Len(cs)
  /\ \A b \in 1..Len(bs) : cs[b].name = bs[b].name /\ (Ends(bs[b]) => Ends(cs[b]))

LEMMA BlksIsSeq ==
  ASSUME NEW bs, Blks(bs)
  PROVE  IsSeq(bs) /\ Len(bs) \in Nat /\ DOMAIN bs = 1..Len(bs) /\ bs = [b \in 1..Len(bs) |-> bs[b]]
BY SeqOfItself DEF Blks, IsSeq

LEMMA GrownSame == ASSUME NEW bs, Blks(bs) PROVE Grown(bs, bs)
BY BlksIsSeq DEF Grown

LEMMA GrownOn ==
  ASSUME NEW bs, NEW cs, NEW ds, Blks(bs), Blks(cs), Blks(ds), Grown(bs, cs), Grown(cs, ds)
  PROVE  Grown(bs, ds)
<1>1. Len(bs) \in Nat /\ Len(cs) \in Nat /\ Len(ds) \in Nat
  BY BlksIsSeq
<1>2. Len(bs) <= Len(cs) /\ Len(cs) <= Len(ds)
  BY DEF Grown
<1>3. ASSUME NEW b \in 1..Len(bs) PROVE ds[b].name = bs[b].name /\ (Ends(bs[b]) => Ends(ds[b]))
  <2>1. b \in 1..Len(cs)
    BY <1>1, <1>2
  <2> QED
    BY <2>1 DEF Grown
<1> QED
  BY <1>1, <1>2, <1>3 DEF Grown

LEMMA InstIsInst ==
  ASSUME NEW op, NEW p, NEW to, NEW vals
  PROVE  IsInst(Inst(op, p, to, vals)) /\ Inst(op, p, to, vals).op = op
BY DEF IsInst, Inst

LEMMA EmitBuilds ==
  ASSUME NEW bs, Blks(bs), NEW b \in 1..Len(bs), NEW x, IsInst(x)
  PROVE  /\ Blks(Emit(bs, b, x)) /\ Grown(bs, Emit(bs, b, x)) /\ Len(Emit(bs, b, x)) = Len(bs)
         /\ x.op \in Terminators => Ends(Emit(bs, b, x)[b])
<1>1. CASE Ends(bs[b])
  <2>1. Emit(bs, b, x) = bs
    BY <1>1 DEF Emit
  <2> QED
    BY <1>1, <2>1, GrownSame
<1>2. CASE ~Ends(bs[b])
  <2>1. PICK n \in Nat : n = Len(bs)
    BY BlksIsSeq
  <2>2. bs = [i \in 1..n |-> bs[i]] /\ b \in 1..n /\ DOMAIN bs = 1..n
    BY <2>1, BlksIsSeq
  <2>3. PICK is : is = bs[b].insts
    OBVIOUS
  <2>4. /\ bs[b] = [name |-> bs[b].name, insts |-> is] /\ IsSeq(is)
        /\ \A i \in 1..Len(is) : IsInst(is[i]) /\ (i # Len(is) => is[i].op \notin Terminators)
    BY <2>1, <2>2, <2>3 DEF Blks, IsBlock
  <2>5. PICK js : js = Append(is, x)
    OBVIOUS
  <2>6. /\ IsSeq(js) /\ js # <<>> /\ Len(js) = Len(is) + 1 /\ Last(js) = x
        /\ \A i \in 1..Len(is) : js[i] = is[i]
        /\ js[Len(is) + 1] = x
    BY <2>4, <2>5, AppendIsSeq
  <2>7. \A i \in 1..Len(is) : js[i].op \notin Terminators
    <3>1. SUFFICES ASSUME NEW i \in 1..Len(is) PROVE is[i].op \notin Terminators
      BY <2>6
    <3>2. CASE i # Len(is)
      BY <2>4, <3>1, <3>2
    <3>3. CASE i = Len(is)
      <4>1. is # <<>>
        <5>1. SUFFICES ASSUME is = <<>> PROVE FALSE
          OBVIOUS
        <5>2. Len(is) = 0
          BY <5>1
        <5> QED
          BY <3>1, <5>2
      <4>2. Last(is) = is[i]
        BY <3>3 DEF Last
      <4> QED
        BY <1>2, <2>3, <4>1, <4>2 DEF Ends
    <3> QED
      BY <3>2, <3>3
  <2>8. PICK c : c = [name |-> bs[b].name, insts |-> js]
    OBVIOUS
  <2>9. IsBlock(c)
    <3>1. c.name = bs[b].name /\ c.insts = js
      BY <2>8
    <3>2. Len(is) \in Nat
      BY <2>4 DEF IsSeq
    <3>3. \A i \in 1..Len(js) : i # Len(js) => i \in 1..Len(is)
      BY <2>6, <3>2
    <3>4. \A i \in 1..Len(js) : i = Len(is) + 1 \/ i \in 1..Len(is)
      BY <2>6, <3>2
    <3>5. \A i \in 1..Len(js) : IsInst(js[i])
      BY <2>4, <2>6, <3>4
    <3>6. \A i \in 1..Len(js) : i # Len(js) => js[i].op \notin Terminators
      BY <2>7, <3>3
    <3> QED
      BY <2>6, <2>8, <3>1, <3>5, <3>6 DEF IsBlock
  <2>10. PICK cs : cs = [i \in 1..n |-> IF i = b THEN c ELSE bs[i]]
    OBVIOUS
  <2>11. Emit(bs, b, x) = cs
    <3>1. Emit(bs, b, x) = [bs EXCEPT ![b].insts = Append(@, x)]
      BY <1>2 DEF Emit
    <3>2. [bs EXCEPT ![b].insts = Append(@, x)] = [i \in 1..n |-> IF i = b THEN [bs[b] EXCEPT !.insts = js] ELSE bs[i]]
      BY <2>2, <2>3, <2>5
    <3>3. [bs[b] EXCEPT !.insts = js] = c
      BY <2>4, <2>8
    <3> QED
      BY <2>10, <3>1, <3>2, <3>3
  <2>12. IsSeq(cs) /\ Len(cs) = n
    <3>1. cs = [i \in 1..n |-> cs[i]]
      BY <2>10
    <3> QED
      BY <2>1, <3>1, FunctionIsSeq
  <2>13. \A i \in 1..n : cs[i] = IF i = b THEN c ELSE bs[i]
    BY <2>10
  <2>14. Blks(cs)
    <3>1. \A i \in 1..n : IsBlock(bs[i])
      BY <2>1 DEF Blks
    <3> QED
      BY <2>9, <2>12, <2>13, <3>1 DEF Blks
  <2>15. c.name = bs[b].name /\ c.insts = js
    BY <2>8
  <2>16. Grown(bs, cs)
    BY <1>2, <2>1, <2>12, <2>13, <2>15 DEF Grown
  <2>17. x.op \in Terminators => Ends(cs[b])
    BY <2>2, <2>6, <2>13, <2>15 DEF Ends
  <2> QED
    BY <2>1, <2>11, <2>12, <2>14, <2>16, <2>17
<1> QED
  BY <1>1, <1>2

LEMMA CreateBuilds ==
  ASSUME NEW bs, Blks(bs), NEW names, IsSeq(names)
  PROVE  /\ Blks(Create(bs, names)) /\ Grown(bs, Create(bs, names))
         /\ Len(Create(bs, names)) = Len(bs) + Len(names)
         /\ \A b \in 1..Len(bs) : Create(bs, names)[b] = bs[b]
         /\ \A b \in 1..(Len(bs) + Len(names)) :
              b \in 1..Len(bs) \/ Create(bs, names)[b].name = names[b - Len(bs)]
<1>1. PICK n \in Nat : n = Len(bs)
  BY BlksIsSeq
<1>2. PICK m \in Nat : m = Len(names)
  BY DEF IsSeq
<1>3. DOMAIN names = 1..m
  BY <1>2, SeqOfItself
<1>4. PICK new : new = [i \in DOMAIN names |-> [name |-> names[i], insts |-> <<>>]]
  OBVIOUS
<1>5. new = [i \in 1..m |-> new[i]] /\ \A i \in 1..m : new[i] = [name |-> names[i], insts |-> <<>>]
  BY <1>3, <1>4
<1>6. IsSeq(new) /\ Len(new) = m
  BY <1>2, <1>5, FunctionIsSeq
<1>7. PICK cs : cs = bs \o new
  OBVIOUS
<1>8. Create(bs, names) = cs
  BY <1>4, <1>7 DEF Create
<1>9. /\ IsSeq(cs) /\ Len(cs) = n + m
      /\ \A i \in 1..n : cs[i] = bs[i]
      /\ \A i \in 1..(n + m) : i \in 1..n \/ (i - n \in 1..m /\ cs[i] = new[i - n])
  <2>1. IsSeq(bs)
    BY BlksIsSeq
  <2> QED
    BY <1>1, <1>6, <1>7, <2>1, ConcatIsSeq
<1>10. ASSUME NEW i \in 1..m PROVE IsBlock(new[i]) /\ new[i].name = names[i]
  <2>1. new[i] = [name |-> names[i], insts |-> <<>>]
    BY <1>5
  <2>2. new[i].name = names[i] /\ new[i].insts = <<>>
    BY <2>1
  <2>3. IsSeq(<<>>) /\ Len(<<>>) = 0
    <3>1. << >> \in Seq({}) /\ Len(<<>>) = 0
      OBVIOUS
    <3> QED
      BY <3>1, SeqIsSeq
  <2> QED
    BY <2>1, <2>2, <2>3 DEF IsBlock
<1>11. \A i \in 1..n : IsBlock(bs[i])
  BY <1>1 DEF Blks
<1>12. Blks(cs)
  BY <1>9, <1>10, <1>11 DEF Blks
<1>13. Grown(bs, cs)
  BY <1>1, <1>2, <1>9 DEF Grown
<1>14. \A b \in 1..(n + m) : b \in 1..n \/ cs[b].name = names[b - n]
  BY <1>9, <1>10
<1> QED
  BY <1>1, <1>2, <1>8, <1>9, <1>12, <1>13, <1>14

\* A jump, a branch and a switch end the block they are emitted to.
Ended(bs, b, cs) == Blks(cs) /\ Grown(bs, cs) /\ Len(cs) = Len(bs) /\ Ends(cs[b])

LEMMA JmpEnds ==
  ASSUME NEW bs, Blks(bs), NEW b \in 1..Len(bs), NEW to
  PROVE  Ended(bs, b, Jmp(bs, b, to))
<1>1. PICK x : x = Inst("jmp", <<>>, <<to>>, <<>>)
  OBVIOUS
<1>2. IsInst(x) /\ x.op = "jmp"
  BY <1>1, InstIsInst
<1>3. Jmp(bs, b, to) = Emit(bs, b, x)
  BY <1>1 DEF Jmp
<1>4. x.op \in Terminators
  BY <1>2 DEF Terminators
<1> QED
  BY <1>2, <1>3, <1>4, EmitBuilds DEF Ended

LEMMA BrEnds ==
  ASSUME NEW bs, Blks(bs), NEW b \in 1..Len(bs), NEW v, NEW true, NEW false
  PROVE  Ended(bs, b, Br(bs, b, v, true, false))
<1>1. PICK x : x = Inst("br", <<>>, <<true, false>>, <<>>)
  OBVIOUS
<1>2. IsInst(x) /\ x.op = "br"
  BY <1>1, InstIsInst
<1>3. \/ \E to : Br(bs, b, v, true, false) = Jmp(bs, b, to)
      \/ Br(bs, b, v, true, false) = Emit(bs, b, x)
  BY <1>1, Zenon DEF Br
<1>4. x.op \in Terminators
  BY <1>2 DEF Terminators
<1>5. Ended(bs, b, Emit(bs, b, x))
  BY <1>2, <1>4, EmitBuilds DEF Ended
<1>6. CASE \E to : Br(bs, b, v, true, false) = Jmp(bs, b, to)
  BY <1>6, JmpEnds
<1> QED
  BY <1>3, <1>5, <1>6

LEMMA SwitchEnds ==
  ASSUME NEW bs, Blks(bs), NEW b \in 1..Len(bs), NEW v, NEW default, NEW vals, NEW targets
  PROVE  Ended(bs, b, Switch(bs, b, v, default, vals, targets))
<1>1. PICK x : x = Inst("switch", <<>>, <<default>> \o targets, vals)
  OBVIOUS
<1>2. IsInst(x) /\ x.op = "switch"
  BY <1>1, InstIsInst
<1>3. \/ \E to : Switch(bs, b, v, default, vals, targets) = Jmp(bs, b, to)
      \/ Switch(bs, b, v, default, vals, targets) = Emit(bs, b, x)
  BY <1>1, Zenon DEF Switch
<1>4. x.op \in Terminators
  BY <1>2 DEF Terminators
<1>5. Ended(bs, b, Emit(bs, b, x))
  BY <1>2, <1>4, EmitBuilds DEF Ended
<1>6. CASE \E to : Switch(bs, b, v, default, vals, targets) = Jmp(bs, b, to)
  BY <1>6, JmpEnds
<1> QED
  BY <1>3, <1>5, <1>6

-----------------------------------------------------------------------------
(* The blocks of labels. *)

LEMMA LabelBlockIs ==
  ASSUME NEW bs, Blks(bs), NEW l
  PROVE  \/ LabelBlock(bs, l) = 0 /\ \A b \in 1..Len(bs) : bs[b].name # <<"lbl", l>>
         \/ /\ LabelBlock(bs, l) \in 1..Len(bs) /\ bs[LabelBlock(bs, l)].name = <<"lbl", l>>
            /\ \A b \in 1..Len(bs) : bs[b].name = <<"lbl", l>> => LabelBlock(bs, l) <= b
<1>1. PICK I : I = {b \in 1..Len(bs) : bs[b].name = <<"lbl", l>>}
  OBVIOUS
<1>2. LabelBlock(bs, l) = IF I # {} THEN Min(I) ELSE 0
  BY <1>1, Zenon DEF LabelBlock, SelectInSeq
<1>3. CASE I = {}
  BY <1>1, <1>2, <1>3
<1>4. CASE I # {}
  <2>1. I \in SUBSET Nat
    BY <1>1, BlksIsSeq
  <2>2. \E x \in I : \A y \in I : x <= y
    BY <1>4, <2>1, LeastNat
  <2>3. Min(I) \in I /\ \A y \in I : Min(I) <= y
    BY <2>2, Zenon DEF Min
  <2> QED
    BY <1>1, <1>2, <1>4, <2>3
<1> QED
  BY <1>3, <1>4

LEMMA LabelBlockStays ==
  ASSUME NEW bs, NEW cs, Blks(bs), Blks(cs), Grown(bs, cs), NEW l, LabelBlock(bs, l) # 0
  PROVE  LabelBlock(cs, l) = LabelBlock(bs, l)
<1>1. PICK b : b = LabelBlock(bs, l)
  OBVIOUS
<1>2. PICK c : c = LabelBlock(cs, l)
  OBVIOUS
<1>3. /\ b \in 1..Len(bs) /\ bs[b].name = <<"lbl", l>>
      /\ \A i \in 1..Len(bs) : bs[i].name = <<"lbl", l>> => b <= i
  BY <1>1, LabelBlockIs
<1>4. PICK n \in Nat : n = Len(bs)
  BY BlksIsSeq
<1>5. PICK m \in Nat : m = Len(cs)
  BY BlksIsSeq
<1>6. n <= m /\ \A i \in 1..n : cs[i].name = bs[i].name
  BY <1>4, <1>5 DEF Grown
<1>7. b \in 1..m /\ cs[b].name = <<"lbl", l>>
  BY <1>3, <1>4, <1>5, <1>6
<1>8. /\ c \in 1..m /\ cs[c].name = <<"lbl", l>>
      /\ \A i \in 1..m : cs[i].name = <<"lbl", l>> => c <= i
  BY <1>2, <1>5, <1>7, LabelBlockIs
<1>9. c <= b
  BY <1>7, <1>8
<1>10. c \in 1..n /\ bs[c].name = <<"lbl", l>>
  BY <1>3, <1>4, <1>6, <1>8, <1>9
<1>11. b <= c
  BY <1>3, <1>4, <1>10
<1> QED
  BY <1>1, <1>2, <1>3, <1>4, <1>8, <1>9, <1>11

LEMMA WithLabelBuilds ==
  ASSUME NEW bs, Blks(bs), NEW l
  PROVE  /\ Blks(WithLabel(bs, l)) /\ Grown(bs, WithLabel(bs, l))
         /\ LabelBlock(WithLabel(bs, l), l) \in 1..Len(WithLabel(bs, l))
         /\ \/ WithLabel(bs, l) = bs
            \/ /\ LabelBlock(bs, l) = 0 /\ Len(WithLabel(bs, l)) = Len(bs) + 1
               /\ LabelBlock(WithLabel(bs, l), l) = Len(bs) + 1
<1>1. CASE LabelBlock(bs, l) # 0
  <2>1. WithLabel(bs, l) = bs
    BY <1>1 DEF WithLabel
  <2> QED
    BY <1>1, <2>1, LabelBlockIs, GrownSame
<1>2. CASE LabelBlock(bs, l) = 0
  <2>1. PICK names : names = <<<<"lbl", l>>>>
    OBVIOUS
  <2>2. IsSeq(names) /\ Len(names) = 1 /\ names[1] = <<"lbl", l>>
    <3>1. names \in Seq({<<"lbl", l>>}) /\ Len(names) = 1 /\ names[1] = <<"lbl", l>>
      BY <2>1
    <3> QED
      BY <3>1, SeqIsSeq
  <2>3. PICK cs : cs = Create(bs, names)
    OBVIOUS
  <2>4. WithLabel(bs, l) = cs
    BY <1>2, <2>1, <2>3 DEF WithLabel
  <2>5. PICK n \in Nat : n = Len(bs)
    BY BlksIsSeq
  <2>6. /\ Blks(cs) /\ Grown(bs, cs) /\ Len(cs) = n + 1
        /\ \A b \in 1..n : cs[b] = bs[b]
        /\ \A b \in 1..(n + 1) : b \in 1..n \/ cs[b].name = names[b - n]
    <3>1. /\ Blks(cs) /\ Grown(bs, cs) /\ Len(cs) = Len(bs) + Len(names)
          /\ \A b \in 1..Len(bs) : cs[b] = bs[b]
          /\ \A b \in 1..(Len(bs) + Len(names)) : b \in 1..Len(bs) \/ cs[b].name = names[b - Len(bs)]
      BY <2>2, <2>3, CreateBuilds, Zenon
    <3> QED
      BY <2>2, <2>5, <3>1
  <2>7. cs[n + 1].name = <<"lbl", l>> /\ n + 1 \in 1..(n + 1)
    <3>1. n + 1 \in 1..(n + 1) /\ n + 1 \notin 1..n /\ n + 1 - n = 1
      OBVIOUS
    <3> QED
      BY <2>2, <2>6, <3>1
  <2>8. PICK c : c = LabelBlock(cs, l)
    OBVIOUS
  <2>9. c \in 1..(n + 1) /\ cs[c].name = <<"lbl", l>>
    BY <2>6, <2>7, <2>8, LabelBlockIs
  <2>10. \A b \in 1..n : bs[b].name # <<"lbl", l>>
    <3>1. ~(LabelBlock(bs, l) \in 1..n)
      BY <1>2
    <3> QED
      BY <2>5, <3>1, LabelBlockIs
  <2>11. c = n + 1
    BY <2>6, <2>9, <2>10
  <2> QED
    BY <1>2, <2>4, <2>5, <2>6, <2>8, <2>9, <2>11
<1> QED
  BY <1>1, <1>2

-----------------------------------------------------------------------------
(* The inductive invariant. *)

\* The parts of its node that activation f has still to call the generator for, once the
\* call under way returns.
Left(f) ==
  CASE f.stage = "enter" /\ f.stmt.op # "block" -> 1..Len(f.stmt.kids)
    [] f.stage = "enter" /\ f.stmt.op = "block" -> (Len(f.made) + 1)..Len(f.stmt.kids)
    [] f.stage = "left" -> {2}
    [] f.stage = "condition" /\ f.stmt.op = "if" -> {2, 3}
    [] f.stage = "then" -> {3}
    [] f.stage = "body" /\ f.stmt.op = "while" -> {1}
    [] f.stage = "body" /\ f.stmt.op = "for" -> {2, 3}
    [] f.stage = "blocks" -> {2, 3, 4}
    [] f.stage = "increment" -> {2}
    [] f.stage = "cases" -> 2..Len(f.stmt.kids)
    [] f.stage = "case" -> (f.made[3] + 2)..Len(f.stmt.kids)
    [] OTHER -> {}

\* The blocks of activation f that it is going to move to.
Promised(f) ==
  CASE f.stage = "left" -> {f.made[1], f.made[2]}
    [] f.stage = "right" -> {f.made[2]}
    [] f.stage = "then" -> {f.made[1], f.made[2]}
    [] f.stage = "else" -> {f.made[2]}
    [] f.stage = "body" /\ f.stmt.op = "while" -> {f.made[2], f.made[3]}
    [] f.stage = "body" /\ f.stmt.op = "for" -> {f.made[2], f.made[3], f.made[4]}
    [] f.stage = "increment" -> {f.made[3], f.made[4]}
    [] f.stage = "condition" /\ f.stmt.op = "while" -> {f.made[3]}
    [] f.stage = "condition" /\ f.stmt.op = "for" -> {f.made[4]}
    [] f.stage = "case" ->
         {f.made[1], f.made[2]} \cup {f.made[2] + j : j \in (f.made[3] + 1)..Len(f.stmt.vals)}
    [] f.stage = "default" -> {f.made[2]}
    [] OTHER -> {}

IsFrame(f) ==
  f = [path |-> f.path, stmt |-> f.stmt, stage |-> f.stage, made |-> f.made, outer |-> f.outer]

MadeOk(bs, f) ==
  /\ Promised(f) \subseteq 1..Len(bs)
  /\ f.stmt.op = "block" => IsSeq(f.made)
  /\ f.stage = "case" =>
       /\ f.made = <<f.made[1], f.made[2], f.made[3]>> /\ f.made[3] \in 0..Len(f.stmt.vals)
       /\ f.stmt.op = "switch"
  /\ f.stage = "then" =>
       f.stmt.kids[1].op # "const" /\ (Len(f.stmt.kids) = 2 => f.made[1] = f.made[2])

FrameOk(t, bs, f) ==
  /\ IsFrame(f)
  /\ f.path \in Paths(t) /\ f.stmt = NodeAt(t, f.path) /\ ~Skipped(t, f.path)
  /\ MadeOk(bs, f)

Awaits(f, q) == q = f.path \/ (Below(f.path, q) /\ q[Len(f.path) + 1] \in Left(f))

ToCome(st, q) == \E i \in 1..Len(st) : Awaits(st[i], q)

\* The labels that code is generated for.
Landings(t) == {q \in Paths(t) : NodeAt(t, q).op = "label" /\ ~Skipped(t, q)}

LandingBlock(t, bs, q) == LabelBlock(bs, NodeAt(t, q).name)

\* The activation g above f is of the condition if f waits for one; a switch that calls
\* for a case has counted it.
Linked(f, g) ==
  /\ f.stmt.op = "if" /\ f.stage = "condition" => g.stmt = f.stmt.kids[1]
  /\ f.stage = "case" => f.made[3] # 0

\* v can be the value of the condition n.
ValueOf(n, v) ==
  /\ n.op = "const" => v = Imm(n.vals[1])
  /\ n.op \in {"any", "and", "or"} => v = Reg

AtTop(bs, c, v, f) ==
  /\ f.stmt.op = "if" /\ f.stage = "condition" => ValueOf(f.stmt.kids[1], v)
  /\ f.stage = "case" /\ f.made[3] = 0 => Ends(bs[c])

\* Block b ends, or the generator comes back to it.
Accounted(t, st, bs, c, b) ==
  \/ Ends(bs[b])
  \/ b = c
  \/ \E i \in 1..Len(st) : b \in Promised(st[i])
  \/ \E q \in Landings(t) : ToCome(st, q) /\ b = LandingBlock(t, bs, q)

StackOk(t, st, bs, c, v) ==
  /\ IsSeq(st)
  /\ \A i \in 1..Len(st) : FrameOk(t, bs, st[i])
  /\ \A i \in 1..(Len(st) - 1) : Linked(st[i], st[i + 1])
  /\ st # <<>> => AtTop(bs, c, v, st[Len(st)])

Landed(t, st, bs) == \A q \in Landings(t) : ToCome(st, q) \/ LandingBlock(t, bs, q) # 0

AllAccounted(t, st, bs, c) ==
  GotosLead(t) => \A b \in 1..Len(bs) : Accounted(t, st, bs, c, b)

GenOk(t, st, bs, c, v) ==
  /\ StackOk(t, st, bs, c, v)
  /\ Blks(bs) /\ c \in 1..Len(bs)
  /\ Landed(t, st, bs)
  /\ AllAccounted(t, st, bs, c)

AllEnd(t, bs) == GotosLead(t) => \A b \in 1..Len(bs) : Ends(bs[b])

LowerInv ==
  /\ prog \in Programs
  /\ phase = "generate" => GenOk(prog, stack, blocks, cur, val)
  /\ phase # "generate" => Blks(blocks) /\ 1 \in 1..Len(blocks) /\ AllEnd(prog, blocks)
  /\ phase \in {"generate", "sweep"} => threading.block = 1
  /\ phase = "thread" => threading.block \in 1..Len(blocks)

-----------------------------------------------------------------------------
(* From one call of the generator to the next. *)

\* What the builder did moves on from block c to block d and ends what it leaves.
Moves(bs, c, cs, d) ==
  /\ Blks(cs) /\ Grown(bs, cs) /\ d \in 1..Len(cs)
  /\ c = d \/ Ends(cs[c])

\* What is to be shown of the activations that st2 has instead of those of st.
Carries(t, st, bs, st2, cs, d) ==
  /\ \A q \in Landings(t) :
       ToCome(st, q) => ToCome(st2, q) \/ (LandingBlock(t, cs, q) # 0 /\ LandingBlock(t, cs, q) = d)
  /\ \A i \in 1..Len(st) : \A b \in Promised(st[i]) :
       Ends(cs[b]) \/ b = d \/ \E j \in 1..Len(st2) : b \in Promised(st2[j])
  /\ GotosLead(t) => \A b \in 1..Len(cs) : b \in 1..Len(bs) \/ Accounted(t, st2, cs, d, b)

LEMMA CarriesOn ==
  ASSUME NEW t, NEW st, NEW bs, NEW c, NEW st2, NEW cs, NEW d, Blks(bs), c \in 1..Len(bs),
         Landed(t, st, bs), AllAccounted(t, st, bs, c),
         Moves(bs, c, cs, d), Carries(t, st, bs, st2, cs, d)
  PROVE  Landed(t, st2, cs) /\ AllAccounted(t, st2, cs, d)
<1>1. Blks(cs) /\ Grown(bs, cs) /\ (c = d \/ Ends(cs[c]))
  BY DEF Moves
<1>2. ASSUME NEW q \in Landings(t), LandingBlock(t, bs, q) # 0
      PROVE  LandingBlock(t, cs, q) = LandingBlock(t, bs, q)
  <2>1. PICK l : l = NodeAt(t, q).name
    OBVIOUS
  <2>2. LabelBlock(bs, l) # 0
    BY <1>2, <2>1 DEF LandingBlock
  <2>3. LabelBlock(cs, l) = LabelBlock(bs, l)
    BY <1>1, <2>2, LabelBlockStays
  <2> QED
    BY <2>1, <2>3 DEF LandingBlock
<1>3. ASSUME NEW q \in Landings(t) PROVE ToCome(st2, q) \/ LandingBlock(t, cs, q) # 0
  <2>1. CASE ToCome(st, q)
    BY <2>1 DEF Carries
  <2>2. CASE LandingBlock(t, bs, q) # 0
    BY <1>2, <2>2
  <2> QED
    BY <2>1, <2>2 DEF Landed
<1>4. ASSUME GotosLead(t), NEW b \in 1..Len(cs)
      PROVE  Accounted(t, st2, cs, d, b)
  <2>1. CASE b \notin 1..Len(bs)
    BY <1>4, <2>1 DEF Carries
  <2>2. CASE b \in 1..Len(bs)
    <3>1. Accounted(t, st, bs, c, b)
      BY <1>4, <2>2 DEF AllAccounted
    <3>2. CASE Ends(bs[b])
      <4>1. Ends(cs[b])
        BY <1>1, <2>2, <3>2 DEF Grown
      <4> QED
        BY <4>1 DEF Accounted
    <3>3. CASE b = c
      BY <1>1, <3>3 DEF Accounted
    <3>4. CASE \E i \in 1..Len(st) : b \in Promised(st[i])
      <4>1. Ends(cs[b]) \/ b = d \/ \E j \in 1..Len(st2) : b \in Promised(st2[j])
        BY <3>4 DEF Carries
      <4> QED
        BY <4>1 DEF Accounted
    <3>5. CASE \E q \in Landings(t) : ToCome(st, q) /\ b = LandingBlock(t, bs, q)
      <4>1. PICK q \in Landings(t) : ToCome(st, q) /\ b = LandingBlock(t, bs, q)
        BY <3>5
      <4>2. b # 0
        BY <2>2, BlksIsSeq
      <4>3. b = LandingBlock(t, cs, q)
        BY <1>2, <4>1, <4>2
      <4>4. ToCome(st2, q) \/ b = d
        BY <4>1, <4>3 DEF Carries
      <4> QED
        BY <4>1, <4>3, <4>4 DEF Accounted
    <3> QED
      BY <3>1, <3>2, <3>3, <3>4, <3>5 DEF Accounted
  <2> QED
    BY <2>1, <2>2
<1>5. Landed(t, st2, cs)
  BY <1>3 DEF Landed
<1>6. AllAccounted(t, st2, cs, d)
  BY <1>4 DEF AllAccounted
<1> QED
  BY <1>5, <1>6

LEMMA FrameStays ==
  ASSUME NEW t, NEW bs, NEW cs, Blks(bs), Blks(cs), Grown(bs, cs), NEW f, FrameOk(t, bs, f)
  PROVE  FrameOk(t, cs, f)
<1>1. Len(bs) \in Nat /\ Len(cs) \in Nat /\ Len(bs) <= Len(cs)
  BY BlksIsSeq DEF Grown
<1>2. Promised(f) \subseteq 1..Len(cs)
  <2>1. Promised(f) \subseteq 1..Len(bs)
    BY DEF FrameOk, MadeOk
  <2> QED
    BY <1>1, <2>1
<1> QED
  BY <1>2 DEF FrameOk, MadeOk

LEMMA PathsNode ==
  ASSUME NEW t, IsBody(t), NEW p \in Paths(t), NEW n, n = NodeAt(t, p)
  PROVE  /\ IsNode(n) /\ n.op \in Kinds
         /\ IsSeq(n.kids) /\ DOMAIN n.kids = 1..Len(n.kids) /\ Len(n.kids) \in Nat
         /\ IsSeq(n.vals) /\ DOMAIN n.vals = 1..Len(n.vals) /\ Len(n.vals) \in Nat
         /\ Len(n.kids) # 0 => Len(p) < Depth
<1>1. IsNode(n) /\ (Len(p) < Depth \/ n.kids = <<>>)
  BY DEF IsBody
<1>2. n.op \in Kinds /\ n.kids \in Seq(Range(n.kids)) /\ n.vals \in Seq(Range(n.vals))
  BY <1>1, Zenon DEF IsNode
<1>3. IsSeq(n.kids) /\ IsSeq(n.vals)
  BY <1>2, SeqIsSeq
<1>4. n.kids = <<>> => Len(n.kids) = 0
  <2>1. Len(<<>>) = 0
    OBVIOUS
  <2> QED
    BY <2>1
<1> QED
  BY <1>1, <1>2, <1>3, <1>4, SeqOfItself

LEMMA KidIs ==
  ASSUME NEW t, IsBody(t), NEW p \in Paths(t), NEW n, n = NodeAt(t, p), NEW k \in 1..Len(n.kids)
  PROVE  Kid(p, k) \in Paths(t) /\ NodeAt(t, Kid(p, k)) = n.kids[k]
<1>1. DOMAIN n.kids = 1..Len(n.kids) /\ Len(n.kids) \in Nat /\ (Len(n.kids) # 0 => Len(p) < Depth)
  BY PathsNode
<1>2. Len(p) < Depth /\ k \in DOMAIN NodeAt(t, p).kids
  BY <1>1
<1>3. IsSeq(p)
  BY PathIsSeq
<1> QED
  BY <1>2, <1>3, KidIsPath, NodeAtKid

LEMMA ActivationIs ==
  ASSUME NEW p, NEW n, NEW g, g = Activation(p, n)
  PROVE  /\ IsFrame(g) /\ g.path = p /\ g.stmt = n /\ g.stage = "enter" /\ g.made = <<>>
         /\ Promised(g) = {} /\ Left(g) = 1..Len(n.kids)
<1>1. IsFrame(g) /\ g.path = p /\ g.stmt = n /\ g.stage = "enter" /\ g.made = <<>>
  BY DEF Activation, IsFrame
<1>2. Promised(g) = {}
  BY <1>1 DEF Promised
<1>3. Len(<<>>) + 1 = 1
  OBVIOUS
<1>4. Left(g) = 1..Len(n.kids)
  BY <1>1, <1>3 DEF Left
<1> QED
  BY <1>1, <1>2, <1>4

\* A new activation awaits all that is below it.
LEMMA KidAwaits ==
  ASSUME NEW t, IsBody(t), NEW p \in Paths(t), NEW n, n = NodeAt(t, p),
         NEW q \in Paths(t), Below(p, q), NEW k, k = q[Len(p) + 1]
  PROVE  k \in 1..Len(n.kids) /\ Awaits(Activation(Kid(p, k), n.kids[k]), q)
<1>1. IsSeq(p) /\ IsSeq(q)
  BY PathIsSeq
<1>2. k \in 1..Len(n.kids)
  BY <1>1, PathThrough, PathsNode
<1>3. PICK r : r = Kid(p, k)
  OBVIOUS
<1>4. r \in Paths(t) /\ NodeAt(t, r) = n.kids[k]
  BY <1>2, <1>3, KidIs
<1>5. PICK g : g = Activation(r, n.kids[k])
  OBVIOUS
<1>6. g.path = r /\ Left(g) = 1..Len(n.kids[k].kids)
  BY <1>5, ActivationIs
<1>7. CASE q = r
  BY <1>2, <1>3, <1>5, <1>6, <1>7 DEF Awaits
<1>8. CASE Below(r, q)
  <2>1. IsSeq(r)
    BY <1>4, PathIsSeq
  <2>2. q[Len(r) + 1] \in DOMAIN NodeAt(t, r).kids
    BY <1>8, <2>1, PathThrough
  <2>3. q[Len(r) + 1] \in Left(g)
    BY <1>4, <1>6, <2>2, PathsNode
  <2> QED
    BY <1>2, <1>3, <1>5, <1>6, <1>8, <2>3 DEF Awaits
<1> QED
  BY <1>1, <1>3, <1>7, <1>8, KidOrBelow

LEMMA StackIs ==
  ASSUME NEW st, IsSeq(st), st # <<>>, NEW f, NEW g
  PROVE  /\ Len(st) \in Nat \ {0} /\ Last(st) = st[Len(st)]
         /\ IsSeq(Front(st)) /\ Len(Front(st)) = Len(st) - 1
         /\ \A i \in 1..(Len(st) - 1) : Front(st)[i] = st[i]
         /\ IsSeq(Append(Front(st), f)) /\ Append(Front(st), f) # <<>>
         /\ Len(Append(Front(st), f)) = Len(st)
         /\ \A i \in 1..(Len(st) - 1) : Append(Front(st), f)[i] = st[i]
         /\ Append(Front(st), f)[Len(st)] = f
         /\ IsSeq(Append(Append(Front(st), f), g)) /\ Append(Append(Front(st), f), g) # <<>>
         /\ Len(Append(Append(Front(st), f), g)) = Len(st) + 1
         /\ \A i \in 1..(Len(st) - 1) : Append(Append(Front(st), f), g)[i] = st[i]
         /\ Append(Append(Front(st), f), g)[Len(st)] = f
         /\ Append(Append(Front(st), f), g)[Len(st) + 1] = g
<1>1. PICK n : n = Len(st)
  OBVIOUS
<1>2. PICK u : u = Front(st)
  OBVIOUS
<1>3. PICK v : v = Append(u, f)
  OBVIOUS
<1>4. PICK w : w = Append(v, g)
  OBVIOUS
<1>5. /\ n \in Nat \ {0} /\ Last(st) = st[n] /\ IsSeq(u) /\ Len(u) = n - 1
      /\ \A i \in 1..(n - 1) : u[i] = st[i]
  BY <1>1, <1>2, FrontIsSeq
<1>6. /\ IsSeq(v) /\ v # <<>> /\ Len(v) = Len(u) + 1
      /\ \A i \in 1..Len(u) : v[i] = u[i]
      /\ v[Len(u) + 1] = f
  BY <1>3, <1>5, AppendIsSeq
<1>7. /\ IsSeq(w) /\ w # <<>> /\ Len(w) = Len(v) + 1
      /\ \A i \in 1..Len(v) : w[i] = v[i]
      /\ w[Len(v) + 1] = g
  BY <1>4, <1>6, AppendIsSeq
<1>8. Len(v) = n /\ v[n] = f /\ \A i \in 1..(n - 1) : v[i] = st[i]
  BY <1>5, <1>6
<1>9. Len(w) = n + 1 /\ w[n + 1] = g /\ w[n] = f /\ \A i \in 1..(n - 1) : w[i] = st[i]
  BY <1>5, <1>7, <1>8
<1> QED
  BY <1>1, <1>2, <1>3, <1>4, <1>5, <1>6, <1>7, <1>8, <1>9

\* The top activation f becomes g and calls the generator for its k-th part.
CallOk(bs, c, f, g, k, cs, d) ==
  /\ IsFrame(g) /\ g.path = f.path /\ g.stmt = f.stmt
  /\ MadeOk(cs, g)
  /\ k \in 1..Len(f.stmt.kids) /\ ~RuledOut(f.stmt, k)
  /\ g.stmt.op = "if" /\ g.stage = "condition" => k = 1
  /\ g.stage = "case" => g.made[3] # 0
  /\ Moves(bs, c, cs, d)
  /\ \A j \in Left(f) : j \in 1..Len(f.stmt.kids) => j \in Left(g) \/ j = k \/ RuledOut(f.stmt, j)
  /\ \A b \in Promised(f) : b \in Promised(g) \/ b = d \/ Ends(cs[b])
  /\ \A b \in 1..Len(cs) : b \in 1..Len(bs) \/ b = d \/ b \in Promised(g)

\* The top activation becomes g, and nothing is called.
StayOk(bs, c, f, g, cs, d, w) ==
  /\ IsFrame(g) /\ g.path = f.path /\ g.stmt = f.stmt
  /\ MadeOk(cs, g)
  /\ f.stmt.op # "label"
  /\ AtTop(cs, d, w, g)
  /\ Moves(bs, c, cs, d)
  /\ \A j \in Left(f) : j \in 1..Len(f.stmt.kids) => j \in Left(g) \/ RuledOut(f.stmt, j)
  /\ \A b \in Promised(f) : b \in Promised(g) \/ b = d \/ Ends(cs[b])
  /\ \A b \in 1..Len(cs) : b \in 1..Len(bs) \/ b = d \/ b \in Promised(g)

\* The top activation f returns.
ReturnOk(t, st, bs, c, f, cs, d, w) ==
  /\ ValueOf(f.stmt, w)
  /\ Moves(bs, c, cs, d)
  /\ \A q \in Landings(t) :
       Awaits(f, q) => LandingBlock(t, cs, q) # 0 /\ LandingBlock(t, cs, q) = d
  /\ \A b \in Promised(f) : b = d \/ Ends(cs[b])
  /\ GotosLead(t) => \A b \in 1..Len(cs) :
       \/ b \in 1..Len(bs) \/ b = d
       \/ \E q \in Landings(t) : ToCome(st, q) /\ ~Awaits(f, q) /\ b = LandingBlock(t, cs, q)

LEMMA LandingIs ==
  ASSUME NEW t, NEW q \in Landings(t)
  PROVE  q \in Paths(t) /\ NodeAt(t, q).op = "label" /\ ~Skipped(t, q)
BY DEF Landings

\* What the top activation awaits: a part that is left.
LEMMA TopAwaits ==
  ASSUME NEW t, IsBody(t), NEW bs, NEW f, FrameOk(t, bs, f), NEW q \in Landings(t), Awaits(f, q)
  PROVE  \/ q = f.path /\ f.stmt.op = "label"
         \/ \E k \in 1..Len(f.stmt.kids) :
              /\ k \in Left(f) /\ ~RuledOut(f.stmt, k)
              /\ Below(f.path, q) /\ k = q[Len(f.path) + 1]
              /\ Awaits(Activation(Kid(f.path, k), f.stmt.kids[k]), q)
<1>1. PICK p : p = f.path
  OBVIOUS
<1>2. PICK n : n = f.stmt
  OBVIOUS
<1>3. p \in Paths(t) /\ n = NodeAt(t, p)
  BY <1>1, <1>2 DEF FrameOk
<1>4. q \in Paths(t) /\ NodeAt(t, q).op = "label" /\ ~Skipped(t, q)
  BY LandingIs
<1>5. q = p \/ (Below(p, q) /\ q[Len(p) + 1] \in Left(f))
  BY <1>1 DEF Awaits
<1>6. CASE q = p
  BY <1>1, <1>2, <1>3, <1>4, <1>6
<1>7. CASE Below(p, q) /\ q[Len(p) + 1] \in Left(f)
  <2>1. PICK k : k = q[Len(p) + 1]
    OBVIOUS
  <2>2. k \in 1..Len(n.kids) /\ Awaits(Activation(Kid(p, k), n.kids[k]), q)
    BY <1>3, <1>4, <1>7, <2>1, KidAwaits
  <2>3. IsSeq(p) /\ IsSeq(q)
    BY <1>3, <1>4, PathIsSeq
  <2>4. ~RuledOut(n, k)
    BY <1>3, <1>4, <1>7, <2>1, <2>3, SkippedBelow
  <2> QED
    BY <1>1, <1>2, <1>7, <2>1, <2>2, <2>4
<1> QED
  BY <1>5, <1>6, <1>7

\* The activations below the top one stay: Carries has to be shown of the top.
LEMMA CarriesIf ==
  ASSUME NEW t, NEW st, IsSeq(st), st # <<>>, NEW bs, NEW st2, IsSeq(st2), NEW cs, NEW d,
         NEW n, n = Len(st), n <= Len(st2) + 1, \A i \in 1..(n - 1) : st2[i] = st[i],
         \A q \in Landings(t) : Awaits(st[n], q) =>
            ToCome(st2, q) \/ (LandingBlock(t, cs, q) # 0 /\ LandingBlock(t, cs, q) = d),
         \A b \in Promised(st[n]) :
            Ends(cs[b]) \/ b = d \/ \E j \in 1..Len(st2) : b \in Promised(st2[j]),
         GotosLead(t) => \A b \in 1..Len(cs) : b \in 1..Len(bs) \/ Accounted(t, st2, cs, d, b)
  PROVE  Carries(t, st, bs, st2, cs, d)
<1>1. n \in Nat \ {0} /\ Len(st2) \in Nat
  BY StackIs DEF IsSeq
<1>2. \A i \in 1..n : i = n \/ (i \in 1..(n - 1) /\ i \in 1..Len(st2))
  BY <1>1
<1>3. ASSUME NEW q \in Landings(t), ToCome(st, q)
      PROVE  ToCome(st2, q) \/ (LandingBlock(t, cs, q) # 0 /\ LandingBlock(t, cs, q) = d)
  <2>1. PICK i \in 1..n : Awaits(st[i], q)
    BY <1>3 DEF ToCome
  <2>2. CASE i = n
    BY <2>1, <2>2
  <2>3. CASE i # n
    <3>1. i \in 1..Len(st2) /\ st2[i] = st[i]
      BY <1>2, <2>3
    <3> QED
      BY <2>1, <3>1 DEF ToCome
  <2> QED
    BY <2>2, <2>3
<1>4. ASSUME NEW i \in 1..Len(st), NEW b \in Promised(st[i])
      PROVE  Ends(cs[b]) \/ b = d \/ \E j \in 1..Len(st2) : b \in Promised(st2[j])
  <2>1. CASE i = n
    BY <1>4, <2>1
  <2>2. CASE i # n
    <3>1. i \in 1..Len(st2) /\ st2[i] = st[i]
      BY <1>2, <1>4, <2>2
    <3> QED
      BY <1>4, <3>1
  <2> QED
    BY <2>1, <2>2
<1> QED
  BY <1>3, <1>4 DEF Carries

LEMMA CallStep ==
  ASSUME NEW t, IsBody(t), NEW st, NEW bs, NEW c, NEW v, GenOk(t, st, bs, c, v), st # <<>>,
         NEW f, f = Last(st), NEW g, NEW k, NEW cs, NEW d, NEW w, CallOk(bs, c, f, g, k, cs, d)
  PROVE  GenOk(t, Append(Append(Front(st), g), Activation(Kid(f.path, k), f.stmt.kids[k])),
               cs, d, w)
<1>1. PICK h : h = Activation(Kid(f.path, k), f.stmt.kids[k])
  OBVIOUS
<1>2. PICK st2 : st2 = Append(Append(Front(st), g), h)
  OBVIOUS
<1>3. PICK n : n = Len(st)
  OBVIOUS
<1>4. IsSeq(st) /\ Blks(bs) /\ c \in 1..Len(bs) /\ Landed(t, st, bs) /\ AllAccounted(t, st, bs, c)
  BY DEF GenOk, StackOk
<1>5. /\ n \in Nat \ {0} /\ f = st[n]
      /\ IsSeq(st2) /\ st2 # <<>> /\ Len(st2) = n + 1
      /\ \A i \in 1..(n - 1) : st2[i] = st[i]
      /\ st2[n] = g /\ st2[n + 1] = h
  BY <1>2, <1>3, <1>4, StackIs
<1>6. \A i \in 1..n : FrameOk(t, bs, st[i])
  BY <1>3 DEF GenOk, StackOk
<1>7. FrameOk(t, bs, f)
  BY <1>5, <1>6
<1>8. f.path \in Paths(t) /\ f.stmt = NodeAt(t, f.path) /\ ~Skipped(t, f.path)
  BY <1>7 DEF FrameOk
<1>9. /\ IsFrame(g) /\ g.path = f.path /\ g.stmt = f.stmt /\ MadeOk(cs, g)
      /\ k \in 1..Len(f.stmt.kids) /\ ~RuledOut(f.stmt, k)
      /\ Moves(bs, c, cs, d)
  BY DEF CallOk
<1>10. Blks(cs) /\ Grown(bs, cs) /\ d \in 1..Len(cs)
  BY <1>9 DEF Moves
<1>11. /\ IsFrame(h) /\ h.path = Kid(f.path, k) /\ h.stmt = f.stmt.kids[k] /\ h.stage = "enter"
       /\ h.made = <<>> /\ Promised(h) = {}
  BY <1>1, ActivationIs
<1>12. FrameOk(t, cs, g)
  BY <1>8, <1>9 DEF FrameOk
<1>13. FrameOk(t, cs, h)
  <2>1. h.path \in Paths(t) /\ h.stmt = NodeAt(t, h.path)
    BY <1>8, <1>9, <1>11, KidIs
  <2>2. ~Skipped(t, h.path)
    <3>1. IsSeq(f.path)
      BY <1>8, PathIsSeq
    <3> QED
      BY <1>8, <1>9, <1>11, <3>1, SkippedKid
  <2>3. IsSeq(<<>>)
    <3>1. << >> \in Seq({})
      OBVIOUS
    <3> QED
      BY <3>1, SeqIsSeq
  <2>4. MadeOk(cs, h)
    BY <1>11, <2>3 DEF MadeOk
  <2> QED
    BY <1>11, <2>1, <2>2, <2>4 DEF FrameOk
<1>14. ASSUME NEW i \in 1..Len(st2) PROVE FrameOk(t, cs, st2[i])
  <2>1. i \in 1..(n - 1) \/ i = n \/ i = n + 1
    BY <1>5
  <2>2. CASE i \in 1..(n - 1)
    <3>1. i \in 1..n /\ st2[i] = st[i]
      BY <1>5, <2>2
    <3> QED
      BY <1>4, <1>6, <1>10, <3>1, FrameStays
  <2> QED
    BY <1>5, <1>12, <1>13, <2>1, <2>2
<1>15. ASSUME NEW i \in 1..(Len(st2) - 1) PROVE Linked(st2[i], st2[i + 1])
  <2>1. i \in 1..n
    BY <1>5
  <2>2. \A j \in 1..(n - 1) : Linked(st[j], st[j + 1])
    BY <1>3 DEF GenOk, StackOk
  <2>3. CASE i = n
    <3>1. g.stmt.op = "if" /\ g.stage = "condition" => k = 1
      BY DEF CallOk
    <3>2. g.stage = "case" => g.made[3] # 0
      BY DEF CallOk
    <3>3. Linked(g, h)
      BY <1>9, <1>11, <3>1, <3>2 DEF Linked
    <3> QED
      BY <1>5, <2>3, <3>3
  <2>4. CASE i # n
    <3>1. i \in 1..(n - 1) /\ (i + 1 \in 1..(n - 1) \/ i + 1 = n)
      BY <1>5, <2>1, <2>4
    <3>2. Linked(st[i], st[i + 1])
      BY <2>2, <3>1
    <3>3. CASE i + 1 \in 1..(n - 1)
      BY <1>5, <3>1, <3>2, <3>3
    <3>4. CASE i + 1 = n
      <4>1. st2[i] = st[i] /\ st2[i + 1] = g /\ st[i + 1] = f
        BY <1>5, <3>1, <3>4
      <4>2. Linked(st[i], f)
        BY <3>2, <4>1
      <4>3. Linked(st[i], g)
        BY <1>9, <4>2 DEF Linked
      <4> QED
        BY <4>1, <4>3
    <3> QED
      BY <3>1, <3>3, <3>4
  <2> QED
    BY <2>3, <2>4
<1>16. AtTop(cs, d, w, h)
  BY <1>11 DEF AtTop
<1>17. StackOk(t, st2, cs, d, w)
  BY <1>5, <1>14, <1>15, <1>16 DEF StackOk
<1>18. n \in 1..Len(st2) /\ n + 1 \in 1..Len(st2)
  BY <1>5
<1>19. ASSUME NEW q \in Landings(t), Awaits(f, q) PROVE ToCome(st2, q)
  <2>1. CASE q = f.path /\ f.stmt.op = "label"
    <3>1. IsNode(f.stmt) /\ Len(f.stmt.kids) \in Nat
      BY <1>8, PathsNode
    <3>2. Len(f.stmt.kids) = 0
      BY <2>1, <3>1, SMTT(30) DEF IsNode
    <3> QED
      BY <1>9, <3>2
  <2>2. CASE \E j \in 1..Len(f.stmt.kids) :
              /\ j \in Left(f) /\ ~RuledOut(f.stmt, j)
              /\ Below(f.path, q) /\ j = q[Len(f.path) + 1]
              /\ Awaits(Activation(Kid(f.path, j), f.stmt.kids[j]), q)
    <3>1. PICK j \in 1..Len(f.stmt.kids) :
              /\ j \in Left(f) /\ ~RuledOut(f.stmt, j)
              /\ Below(f.path, q) /\ j = q[Len(f.path) + 1]
              /\ Awaits(Activation(Kid(f.path, j), f.stmt.kids[j]), q)
      BY <2>2
    <3>2. j \in Left(g) \/ j = k
      BY <3>1 DEF CallOk
    <3>3. CASE j \in Left(g)
      <4>1. Awaits(g, q)
        BY <1>9, <3>1, <3>3 DEF Awaits
      <4> QED
        BY <1>5, <1>18, <4>1 DEF ToCome
    <3>4. CASE j = k
      <4>1. Awaits(h, q)
        BY <1>1, <3>1, <3>4
      <4> QED
        BY <1>5, <1>18, <4>1 DEF ToCome
    <3> QED
      BY <3>2, <3>3, <3>4
  <2> QED
    BY <1>7, <1>19, <2>1, <2>2, TopAwaits
<1>20. ASSUME NEW b \in Promised(f)
       PROVE  Ends(cs[b]) \/ b = d \/ \E j \in 1..Len(st2) : b \in Promised(st2[j])
  <2>1. b \in Promised(g) \/ b = d \/ Ends(cs[b])
    BY DEF CallOk
  <2> QED
    BY <1>5, <1>18, <2>1
<1>21. ASSUME NEW b \in 1..Len(cs) PROVE b \in 1..Len(bs) \/ Accounted(t, st2, cs, d, b)
  <2>1. b \in 1..Len(bs) \/ b = d \/ b \in Promised(g)
    BY DEF CallOk
  <2> QED
    BY <1>5, <1>18, <2>1 DEF Accounted
<1>22. Carries(t, st, bs, st2, cs, d)
  <2>1. n <= Len(st2) + 1
    BY <1>5
  <2>2. \A q \in Landings(t) : Awaits(st[n], q) =>
            ToCome(st2, q) \/ (LandingBlock(t, cs, q) # 0 /\ LandingBlock(t, cs, q) = d)
    BY <1>5, <1>19
  <2>3. \A b \in Promised(st[n]) :
            Ends(cs[b]) \/ b = d \/ \E j \in 1..Len(st2) : b \in Promised(st2[j])
    BY <1>5, <1>20
  <2>4. GotosLead(t) => \A b \in 1..Len(cs) : b \in 1..Len(bs) \/ Accounted(t, st2, cs, d, b)
    BY <1>21
  <2>5. \A i \in 1..(n - 1) : st2[i] = st[i]
    BY <1>5
  <2> QED
    BY <1>3, <1>4, <1>5, <2>1, <2>2, <2>3, <2>4, <2>5, CarriesIf
<1>23. Landed(t, st2, cs) /\ AllAccounted(t, st2, cs, d)
  BY <1>4, <1>9, <1>22, CarriesOn
<1>24. GenOk(t, st2, cs, d, w)
  BY <1>10, <1>17, <1>23 DEF GenOk
<1> QED
  BY <1>1, <1>2, <1>24

LEMMA StayStep ==
  ASSUME NEW t, IsBody(t), NEW st, NEW bs, NEW c, NEW v, GenOk(t, st, bs, c, v), st # <<>>,
         NEW f, f = Last(st), NEW g, NEW cs, NEW d, NEW w, StayOk(bs, c, f, g, cs, d, w)
  PROVE  GenOk(t, Append(Front(st), g), cs, d, w)
<1>1. PICK u : u = Front(st)
  OBVIOUS
<1>2. PICK st2 : st2 = Append(Front(st), g)
  OBVIOUS
<1>3. PICK n : n = Len(st)
  OBVIOUS
<1>4. IsSeq(st) /\ Blks(bs) /\ c \in 1..Len(bs) /\ Landed(t, st, bs) /\ AllAccounted(t, st, bs, c)
  BY DEF GenOk, StackOk
<1>5. /\ n \in Nat \ {0} /\ f = st[n]
      /\ IsSeq(st2) /\ st2 # <<>> /\ Len(st2) = n
      /\ \A i \in 1..(n - 1) : st2[i] = st[i]
      /\ st2[n] = g
  <2>1. /\ n \in Nat \ {0} /\ Last(st) = st[n] /\ IsSeq(u) /\ Len(u) = n - 1
        /\ \A i \in 1..(n - 1) : u[i] = st[i]
    BY <1>1, <1>3, <1>4, FrontIsSeq
  <2>2. /\ IsSeq(st2) /\ st2 # <<>> /\ Len(st2) = Len(u) + 1
        /\ \A i \in 1..Len(u) : st2[i] = u[i]
        /\ st2[Len(u) + 1] = g
    BY <1>1, <1>2, <2>1, AppendIsSeq
  <2> QED
    BY <2>1, <2>2
<1>6. \A i \in 1..n : FrameOk(t, bs, st[i])
  BY <1>3 DEF GenOk, StackOk
<1>7. FrameOk(t, bs, f)
  BY <1>5, <1>6
<1>8. f.path \in Paths(t) /\ f.stmt = NodeAt(t, f.path) /\ ~Skipped(t, f.path)
  BY <1>7 DEF FrameOk
<1>9. /\ IsFrame(g) /\ g.path = f.path /\ g.stmt = f.stmt /\ MadeOk(cs, g)
      /\ f.stmt.op # "label" /\ AtTop(cs, d, w, g)
      /\ Moves(bs, c, cs, d)
  BY DEF StayOk
<1>10. Blks(cs) /\ Grown(bs, cs) /\ d \in 1..Len(cs)
  BY <1>9 DEF Moves
<1>12. FrameOk(t, cs, g)
  BY <1>8, <1>9 DEF FrameOk
<1>14. ASSUME NEW i \in 1..Len(st2) PROVE FrameOk(t, cs, st2[i])
  <2>1. i \in 1..(n - 1) \/ i = n
    BY <1>5
  <2>2. CASE i \in 1..(n - 1)
    <3>1. i \in 1..n /\ st2[i] = st[i]
      BY <1>5, <2>2
    <3> QED
      BY <1>4, <1>6, <1>10, <3>1, FrameStays
  <2> QED
    BY <1>5, <1>12, <2>1, <2>2
<1>15. ASSUME NEW i \in 1..(Len(st2) - 1) PROVE Linked(st2[i], st2[i + 1])
  <2>1. i \in 1..(n - 1) /\ (i + 1 \in 1..(n - 1) \/ i + 1 = n)
    BY <1>5
  <2>2. Linked(st[i], st[i + 1])
    BY <1>3, <2>1 DEF GenOk, StackOk
  <2>3. CASE i + 1 \in 1..(n - 1)
    BY <1>5, <2>1, <2>2, <2>3
  <2>4. CASE i + 1 = n
    <3>1. st2[i] = st[i] /\ st2[i + 1] = g /\ st[i + 1] = f
      BY <1>5, <2>1, <2>4
    <3>2. Linked(st[i], f)
      BY <2>2, <3>1
    <3>3. Linked(st[i], g)
      BY <1>9, <3>2 DEF Linked
    <3> QED
      BY <3>1, <3>3
  <2> QED
    BY <2>1, <2>3, <2>4
<1>16. StackOk(t, st2, cs, d, w)
  BY <1>5, <1>9, <1>14, <1>15 DEF StackOk
<1>18. n \in 1..Len(st2)
  BY <1>5
<1>19. ASSUME NEW q \in Landings(t), Awaits(f, q) PROVE ToCome(st2, q)
  <2>1. PICK j \in 1..Len(f.stmt.kids) :
              /\ j \in Left(f) /\ ~RuledOut(f.stmt, j)
              /\ Below(f.path, q) /\ j = q[Len(f.path) + 1]
    BY <1>7, <1>9, <1>19, TopAwaits
  <2>2. j \in Left(g)
    BY <2>1 DEF StayOk
  <2>3. Awaits(g, q)
    BY <1>9, <2>1, <2>2 DEF Awaits
  <2> QED
    BY <1>5, <1>18, <2>3 DEF ToCome
<1>20. ASSUME NEW b \in Promised(f)
       PROVE  Ends(cs[b]) \/ b = d \/ \E j \in 1..Len(st2) : b \in Promised(st2[j])
  <2>1. b \in Promised(g) \/ b = d \/ Ends(cs[b])
    BY DEF StayOk
  <2> QED
    BY <1>5, <1>18, <2>1
<1>21. ASSUME NEW b \in 1..Len(cs) PROVE b \in 1..Len(bs) \/ Accounted(t, st2, cs, d, b)
  <2>1. b \in 1..Len(bs) \/ b = d \/ b \in Promised(g)
    BY DEF StayOk
  <2> QED
    BY <1>5, <1>18, <2>1 DEF Accounted
<1>22. Carries(t, st, bs, st2, cs, d)
  <2>1. n <= Len(st2) + 1
    BY <1>5
  <2>2. \A q \in Landings(t) : Awaits(st[n], q) =>
            ToCome(st2, q) \/ (LandingBlock(t, cs, q) # 0 /\ LandingBlock(t, cs, q) = d)
    BY <1>5, <1>19
  <2>3. \A b \in Promised(st[n]) :
            Ends(cs[b]) \/ b = d \/ \E j \in 1..Len(st2) : b \in Promised(st2[j])
    BY <1>5, <1>20
  <2>4. GotosLead(t) => \A b \in 1..Len(cs) : b \in 1..Len(bs) \/ Accounted(t, st2, cs, d, b)
    BY <1>21
  <2>5. \A i \in 1..(n - 1) : st2[i] = st[i]
    BY <1>5
  <2> QED
    BY <1>3, <1>4, <1>5, <2>1, <2>2, <2>3, <2>4, <2>5, CarriesIf
<1>23. Landed(t, st2, cs) /\ AllAccounted(t, st2, cs, d)
  BY <1>4, <1>9, <1>22, CarriesOn
<1>24. GenOk(t, st2, cs, d, w)
  BY <1>10, <1>16, <1>23 DEF GenOk
<1> QED
  BY <1>2, <1>24

LEMMA ReturnStep ==
  ASSUME NEW t, IsBody(t), NEW st, NEW bs, NEW c, NEW v, GenOk(t, st, bs, c, v), st # <<>>,
         NEW f, f = Last(st), NEW cs, NEW d, NEW w, ReturnOk(t, st, bs, c, f, cs, d, w)
  PROVE  GenOk(t, Front(st), cs, d, w)
<1>2. PICK st2 : st2 = Front(st)
  OBVIOUS
<1>3. PICK n : n = Len(st)
  OBVIOUS
<1>4. IsSeq(st) /\ Blks(bs) /\ c \in 1..Len(bs) /\ Landed(t, st, bs) /\ AllAccounted(t, st, bs, c)
  BY DEF GenOk, StackOk
<1>5. /\ n \in Nat \ {0} /\ f = st[n]
      /\ IsSeq(st2) /\ Len(st2) = n - 1
      /\ \A i \in 1..(n - 1) : st2[i] = st[i]
  BY <1>2, <1>3, <1>4, StackIs
<1>6. \A i \in 1..n : FrameOk(t, bs, st[i])
  BY <1>3 DEF GenOk, StackOk
<1>7. Moves(bs, c, cs, d) /\ ValueOf(f.stmt, w)
  BY DEF ReturnOk
<1>8. Blks(cs) /\ Grown(bs, cs) /\ d \in 1..Len(cs)
  BY <1>7 DEF Moves
<1>9. ASSUME NEW i \in 1..Len(st2) PROVE FrameOk(t, cs, st2[i])
  <2>1. i \in 1..n /\ st2[i] = st[i]
    BY <1>5
  <2> QED
    BY <1>4, <1>6, <1>8, <2>1, FrameStays
<1>10. \A i \in 1..(n - 1) : Linked(st[i], st[i + 1])
  BY <1>3 DEF GenOk, StackOk
<1>11. ASSUME NEW i \in 1..(Len(st2) - 1) PROVE Linked(st2[i], st2[i + 1])
  <2>1. i \in 1..(n - 1) /\ i + 1 \in 1..(n - 1)
    BY <1>5
  <2> QED
    BY <1>5, <1>10, <2>1
<1>12. ASSUME st2 # <<>> PROVE AtTop(cs, d, w, st2[Len(st2)])
  <2>1. PICK m : m = n - 1
    OBVIOUS
  <2>2. Len(st2) # 0
    BY <1>5, <1>12, FrontIsSeq
  <2>3. m \in 1..(n - 1) /\ m + 1 = n
    BY <1>5, <2>1, <2>2
  <2>4. Linked(st[m], f) /\ st2[Len(st2)] = st[m]
    BY <1>5, <1>10, <2>1, <2>3
  <2> QED
    BY <1>7, <2>4 DEF Linked, AtTop
<1>13. StackOk(t, st2, cs, d, w)
  BY <1>5, <1>9, <1>11, <1>12 DEF StackOk
<1>14. ASSUME NEW q \in Landings(t), Awaits(f, q)
       PROVE  LandingBlock(t, cs, q) # 0 /\ LandingBlock(t, cs, q) = d
  BY <1>14 DEF ReturnOk
<1>15. ASSUME NEW q \in Landings(t), ToCome(st, q), ~Awaits(f, q) PROVE ToCome(st2, q)
  <2>1. PICK i \in 1..n : Awaits(st[i], q)
    BY <1>3, <1>15 DEF ToCome
  <2>2. i # n
    BY <1>5, <1>15, <2>1
  <2>3. i \in 1..(n - 1) /\ i \in 1..Len(st2)
    BY <1>5, <2>2
  <2> QED
    BY <1>5, <2>1, <2>3 DEF ToCome
<1>16. ASSUME GotosLead(t), NEW b \in 1..Len(cs)
       PROVE  b \in 1..Len(bs) \/ Accounted(t, st2, cs, d, b)
  <2>1. \/ b \in 1..Len(bs) \/ b = d
        \/ \E q \in Landings(t) : ToCome(st, q) /\ ~Awaits(f, q) /\ b = LandingBlock(t, cs, q)
    BY <1>16 DEF ReturnOk
  <2> QED
    BY <1>15, <2>1 DEF Accounted
<1>17. Carries(t, st, bs, st2, cs, d)
  <2>1. n <= Len(st2) + 1
    BY <1>5
  <2>2. \A q \in Landings(t) : Awaits(st[n], q) =>
            ToCome(st2, q) \/ (LandingBlock(t, cs, q) # 0 /\ LandingBlock(t, cs, q) = d)
    BY <1>5, <1>14
  <2>3. \A b \in Promised(st[n]) :
            Ends(cs[b]) \/ b = d \/ \E j \in 1..Len(st2) : b \in Promised(st2[j])
    BY <1>5 DEF ReturnOk
  <2>4. GotosLead(t) => \A b \in 1..Len(cs) : b \in 1..Len(bs) \/ Accounted(t, st2, cs, d, b)
    BY <1>16
  <2>5. \A i \in 1..(n - 1) : st2[i] = st[i]
    BY <1>5
  <2> QED
    BY <1>3, <1>4, <1>5, <2>1, <2>2, <2>3, <2>4, <2>5, CarriesIf
<1>18. Landed(t, st2, cs) /\ AllAccounted(t, st2, cs, d)
  BY <1>4, <1>7, <1>17, CarriesOn
<1>19. GenOk(t, st2, cs, d, w)
  BY <1>8, <1>13, <1>18 DEF GenOk
<1> QED
  BY <1>2, <1>19

-----------------------------------------------------------------------------
(* What the actions have in common. *)

Inner == {"block", "if", "while", "and", "or", "for", "switch"}

LEMMA Sizes ==
  ASSUME NEW n, IsNode(n)
  PROVE  /\ n.op = "if" => Len(n.kids) \in {2, 3}
         /\ n.op \in {"while", "and", "or"} => Len(n.kids) = 2
         /\ n.op = "for" => Len(n.kids) = 4
         /\ n.op = "switch" => Len(n.kids) - Len(n.vals) \in {1, 2}
         /\ n.op \notin Inner => Len(n.kids) = 0
<1>1. n.op = "if" => Len(n.kids) \in {2, 3}
  BY DEF IsNode
<1>2. n.op \in {"while", "and", "or"} => Len(n.kids) = 2
  BY DEF IsNode
<1>3. n.op = "for" => Len(n.kids) = 4
  BY DEF IsNode
<1>4. n.op = "switch" => Len(n.kids) - Len(n.vals) \in {1, 2}
  BY DEF IsNode
<1>5. n.op \notin Inner => Len(n.kids) = 0
  BY DEF IsNode, Inner
<1> QED
  BY <1>1, <1>2, <1>3, <1>4, <1>5

\* The condition of an if.
LEMMA IfCondition ==
  ASSUME NEW n, IsNode(n), n.op = "if"
  PROVE  IsCondition(n.kids[1])
<1>1. \A k \in CondKids(n) : IsCondition(n.kids[k])
  BY Zenon DEF IsNode
<1>2. CondKids(n) = {1}
  BY DEF CondKids
<1> QED
  BY <1>1, <1>2

LEMMA TopIs ==
  ASSUME IsBody(prog), GenOk(prog, stack, blocks, cur, val),
         NEW op, NEW stage, Gen(op, stage), NEW f, f = Top
  PROVE  /\ phase = "generate" /\ stack # <<>> /\ f = Last(stack)
         /\ f.stage = stage /\ f.stmt.op = op
         /\ FrameOk(prog, blocks, f) /\ IsFrame(f) /\ MadeOk(blocks, f)
         /\ f.path \in Paths(prog) /\ f.stmt = NodeAt(prog, f.path)
         /\ Blks(blocks) /\ Len(blocks) \in Nat /\ cur \in 1..Len(blocks)
         /\ AtTop(blocks, cur, val, f)
         /\ IsNode(f.stmt) /\ Len(f.stmt.kids) \in Nat /\ Len(f.stmt.vals) \in Nat
<1>1. phase = "generate" /\ stack # <<>> /\ f = Last(stack) /\ f.stage = stage /\ f.stmt.op = op
  BY DEF Gen, Top, Node
<1>2. StackOk(prog, stack, blocks, cur, val) /\ Blks(blocks) /\ cur \in 1..Len(blocks)
  BY DEF GenOk
<1>3. PICK n : n = Len(stack)
  OBVIOUS
<1>4. n \in Nat \ {0} /\ f = stack[n]
  <2>1. IsSeq(stack)
    BY <1>2 DEF StackOk
  <2> QED
    BY <1>1, <1>3, <2>1, FrontIsSeq
<1>5. FrameOk(prog, blocks, f) /\ AtTop(blocks, cur, val, f)
  BY <1>1, <1>2, <1>3, <1>4 DEF StackOk
<1>6. IsFrame(f) /\ MadeOk(blocks, f) /\ f.path \in Paths(prog) /\ f.stmt = NodeAt(prog, f.path)
  BY <1>5 DEF FrameOk
<1>7. IsNode(f.stmt) /\ Len(f.stmt.kids) \in Nat /\ Len(f.stmt.vals) \in Nat
  BY <1>6, PathsNode
<1> QED
  BY <1>1, <1>2, <1>5, <1>6, <1>7, BlksIsSeq

LEMMA FrameStage ==
  ASSUME NEW f, IsFrame(f), NEW s, NEW g, g = [f EXCEPT !.stage = s]
  PROVE  IsFrame(g) /\ g.path = f.path /\ g.stmt = f.stmt /\ g.stage = s /\ g.made = f.made
<1>1. f = [path |-> f.path, stmt |-> f.stmt, stage |-> f.stage, made |-> f.made, outer |-> f.outer]
  BY DEF IsFrame
<1>2. g = [path |-> f.path, stmt |-> f.stmt, stage |-> s, made |-> f.made, outer |-> f.outer]
  BY <1>1
<1> QED
  BY <1>2 DEF IsFrame

LEMMA FrameMade ==
  ASSUME NEW f, IsFrame(f), NEW s, NEW m, NEW g, g = [f EXCEPT !.stage = s, !.made = m]
  PROVE  IsFrame(g) /\ g.path = f.path /\ g.stmt = f.stmt /\ g.stage = s /\ g.made = m
<1>1. PICK h : h = [f EXCEPT !.stage = s]
  OBVIOUS
<1>2. h = [path |-> h.path, stmt |-> h.stmt, stage |-> h.stage, made |-> h.made, outer |-> h.outer]
  BY <1>1, FrameStage DEF IsFrame
<1>3. h.path = f.path /\ h.stmt = f.stmt /\ h.stage = s
  BY <1>1, FrameStage
<1>4. g = [h EXCEPT !.made = m]
  BY <1>1 DEF IsFrame
<1>5. g = [path |-> h.path, stmt |-> h.stmt, stage |-> h.stage, made |-> m, outer |-> h.outer]
  BY <1>2, <1>4
<1> QED
  BY <1>3, <1>5 DEF IsFrame

LEMMA FrameOuter ==
  ASSUME NEW f, IsFrame(f), NEW s, NEW m, NEW o,
         NEW g, g = [f EXCEPT !.stage = s, !.made = m, !.outer = o]
  PROVE  IsFrame(g) /\ g.path = f.path /\ g.stmt = f.stmt /\ g.stage = s /\ g.made = m
<1>1. PICK h : h = [f EXCEPT !.stage = s, !.made = m]
  OBVIOUS
<1>2. h = [path |-> h.path, stmt |-> h.stmt, stage |-> h.stage, made |-> h.made, outer |-> h.outer]
  BY <1>1, FrameMade DEF IsFrame
<1>3. h.path = f.path /\ h.stmt = f.stmt /\ h.stage = s /\ h.made = m
  BY <1>1, FrameMade DEF IsFrame
<1>4. g = [h EXCEPT !.outer = o]
  BY <1>1 DEF IsFrame
<1>5. g = [path |-> h.path, stmt |-> h.stmt, stage |-> h.stage, made |-> h.made, outer |-> o]
  BY <1>2, <1>4
<1> QED
  BY <1>3, <1>5 DEF IsFrame

LEMMA CreateIs ==
  ASSUME NEW bs, Blks(bs), NEW names, IsSeq(names), NEW cs, cs = Create(bs, names)
  PROVE  Blks(cs) /\ Grown(bs, cs) /\ Len(cs) = Len(bs) + Len(names)
BY CreateBuilds

\* The top activation f, with nothing left to call for, returns, and no block is new.
PlainReturn(bs, c, f, cs, d, w) ==
  /\ f.stmt.op # "label"
  /\ \A j \in Left(f) : j \in 1..Len(f.stmt.kids) => RuledOut(f.stmt, j)
  /\ ValueOf(f.stmt, w)
  /\ Moves(bs, c, cs, d) /\ Len(cs) = Len(bs)
  /\ \A b \in Promised(f) : b = d \/ Ends(cs[b])

LEMMA NoneAwaited ==
  ASSUME NEW t, IsBody(t), NEW bs, NEW f, FrameOk(t, bs, f), f.stmt.op # "label",
         \A j \in Left(f) : j \in 1..Len(f.stmt.kids) => RuledOut(f.stmt, j),
         NEW q \in Landings(t)
  PROVE  ~Awaits(f, q)
BY TopAwaits

LEMMA PlainReturnStep ==
  ASSUME NEW t, IsBody(t), NEW st, NEW bs, NEW c, NEW v, GenOk(t, st, bs, c, v), st # <<>>,
         NEW f, f = Last(st), FrameOk(t, bs, f),
         NEW cs, NEW d, NEW w, PlainReturn(bs, c, f, cs, d, w)
  PROVE  GenOk(t, Front(st), cs, d, w)
<1>1. ASSUME NEW q \in Landings(t) PROVE ~Awaits(f, q)
  BY <1>1, NoneAwaited DEF PlainReturn
<1>2. ReturnOk(t, st, bs, c, f, cs, d, w)
  BY <1>1 DEF PlainReturn, ReturnOk
<1> QED
  BY <1>2, ReturnStep

LEMMA TupleIsSeq ==
  ASSUME NEW a, NEW b, NEW c, NEW d
  PROVE  /\ IsSeq(<<a>>) /\ Len(<<a>>) = 1
         /\ IsSeq(<<a, b>>) /\ Len(<<a, b>>) = 2
         /\ IsSeq(<<a, b, c>>) /\ Len(<<a, b, c>>) = 3
         /\ IsSeq(<<a, b, c, d>>) /\ Len(<<a, b, c, d>>) = 4
<1>1. <<a>> \in Seq({a, b, c, d}) /\ <<a, b>> \in Seq({a, b, c, d})
  OBVIOUS
<1>2. <<a, b, c>> \in Seq({a, b, c, d}) /\ <<a, b, c, d>> \in Seq({a, b, c, d})
  OBVIOUS
<1>3. Len(<<a>>) = 1 /\ Len(<<a, b>>) = 2 /\ Len(<<a, b, c>>) = 3 /\ Len(<<a, b, c, d>>) = 4
  OBVIOUS
<1> QED
  BY <1>1, <1>2, <1>3, SeqIsSeq

LEMMA MovesNowhere ==
  ASSUME NEW bs, Blks(bs), NEW c \in 1..Len(bs)
  PROVE  Moves(bs, c, bs, c)
BY GrownSame DEF Moves

LEMMA EndedMoves ==
  ASSUME NEW bs, NEW c, NEW cs, Ended(bs, c, cs), NEW d \in 1..Len(bs)
  PROVE  Moves(bs, c, cs, d)
BY DEF Moves, Ended

\* First an instruction is added, then the block is ended.
LEMMA EndedAfter ==
  ASSUME NEW bs, NEW cs, NEW ds, Blks(bs), Blks(cs), Grown(bs, cs), NEW c, Ended(cs, c, ds)
  PROVE  Blks(ds) /\ Grown(bs, ds) /\ Len(ds) = Len(cs) /\ Ends(ds[c])
BY GrownOn DEF Ended

-----------------------------------------------------------------------------
(* Expressions. *)

\* An activation of a node without parts that adds one instruction at most.
LEMMA LeafStep ==
  ASSUME IsBody(prog), GenOk(prog, stack, blocks, cur, val),
         NEW op, Gen(op, "enter"), op \notin Inner, op # "label", NEW f, f = Top,
         NEW cs, Blks(cs), Grown(blocks, cs), Len(cs) = Len(blocks), NEW w, ValueOf(f.stmt, w)
  PROVE  GenOk(prog, Front(stack), cs, cur, w)
<1>1. /\ stack # <<>> /\ f = Last(stack) /\ f.stage = "enter" /\ f.stmt.op = op
      /\ FrameOk(prog, blocks, f) /\ cur \in 1..Len(blocks) /\ IsNode(f.stmt)
  BY TopIs
<1>2. Len(f.stmt.kids) = 0
  BY <1>1, Sizes
<1>3. Promised(f) = {}
  BY <1>1 DEF Promised
<1>4. Moves(blocks, cur, cs, cur)
  BY <1>1 DEF Moves
<1>5. PlainReturn(blocks, cur, f, cs, cur, w)
  BY <1>1, <1>2, <1>3, <1>4 DEF PlainReturn
<1> QED
  BY <1>1, <1>5, PlainReturnStep

LEMMA EffectKeeps ==
  ASSUME IsBody(prog), GenOk(prog, stack, blocks, cur, val), GenEffect
  PROVE  GenOk(prog, stack', blocks', cur', val')
<1>1. PICK op \in {"do", "assign", "any", "pick"} : Gen(op, "enter")
  BY DEF GenEffect
<1>2. PICK f : f = Top
  OBVIOUS
<1>3. Blks(blocks) /\ cur \in 1..Len(blocks) /\ f.stmt.op = op
  BY <1>1, <1>2, TopIs
<1>4. PICK x : x = Inst("eval", Top.path, <<>>, <<>>)
  OBVIOUS
<1>5. PICK cs : cs = Emit(blocks, cur, x)
  OBVIOUS
<1>6. Blks(cs) /\ Grown(blocks, cs) /\ Len(cs) = Len(blocks)
  BY <1>3, <1>4, <1>5, InstIsInst, EmitBuilds
<1>7. stack' = Front(stack) /\ blocks' = cs /\ cur' = cur /\ val' = Reg
  BY <1>4, <1>5 DEF GenEffect, Build, Return
<1>8. ValueOf(f.stmt, Reg)
  BY <1>1, <1>3 DEF ValueOf
<1>9. op \notin Inner /\ op # "label"
  BY <1>1 DEF Inner
<1> QED
  BY <1>1, <1>2, <1>6, <1>7, <1>8, <1>9, LeafStep

LEMMA ConstKeeps ==
  ASSUME IsBody(prog), GenOk(prog, stack, blocks, cur, val), GenConst
  PROVE  GenOk(prog, stack', blocks', cur', val')
<1>1. Gen("const", "enter")
  BY DEF GenConst
<1>2. PICK f : f = Top
  OBVIOUS
<1>3. Blks(blocks) /\ f.stmt.op = "const"
  BY <1>1, <1>2, TopIs
<1>4. Grown(blocks, blocks)
  BY <1>3, GrownSame
<1>5. PICK w : w = Imm(Node.vals[1])
  OBVIOUS
<1>6. stack' = Front(stack) /\ blocks' = blocks /\ cur' = cur /\ val' = w
  BY <1>5 DEF GenConst, Build, Return
<1>7. ValueOf(f.stmt, w)
  BY <1>2, <1>3, <1>5 DEF ValueOf, Node
<1>8. "const" \notin Inner /\ "const" # "label"
  BY DEF Inner
<1> QED
  BY <1>1, <1>2, <1>3, <1>4, <1>6, <1>7, <1>8, LeafStep

LEMMA NothingKeeps ==
  ASSUME IsBody(prog), GenOk(prog, stack, blocks, cur, val), GenNothing
  PROVE  GenOk(prog, stack', blocks', cur', val')
<1>1. Gen("none", "enter")
  BY DEF GenNothing
<1>2. PICK f : f = Top
  OBVIOUS
<1>3. Blks(blocks) /\ f.stmt.op = "none"
  BY <1>1, <1>2, TopIs
<1>4. Grown(blocks, blocks)
  BY <1>3, GrownSame
<1>6. stack' = Front(stack) /\ blocks' = blocks /\ cur' = cur
  BY DEF GenNothing, Build, Return
<1>7. ValueOf(f.stmt, val')
  BY <1>3 DEF ValueOf
<1>8. "none" \notin Inner /\ "none" # "label"
  BY DEF Inner
<1> QED
  BY <1>1, <1>2, <1>3, <1>4, <1>6, <1>7, <1>8, LeafStep

LEMMA LogicKeeps ==
  ASSUME IsBody(prog), GenOk(prog, stack, blocks, cur, val), GenLogic
  PROVE  GenOk(prog, stack', blocks', cur', val')
<1>1. PICK op \in {"and", "or"} : Gen(op, "enter")
  BY DEF GenLogic
<1>2. PICK f : f = Top
  OBVIOUS
<1>3. /\ stack # <<>> /\ f = Last(stack) /\ f.stage = "enter" /\ f.stmt.op = op /\ IsFrame(f)
      /\ Blks(blocks) /\ cur \in 1..Len(blocks) /\ Len(blocks) \in Nat /\ IsNode(f.stmt)
  BY <1>1, <1>2, TopIs
<1>4. Len(f.stmt.kids) = 2
  BY <1>1, <1>3, Sizes
<1>5. PICK names : names = <<Block("logic.dextra"), Block("logic.exitus")>>
  OBVIOUS
<1>6. IsSeq(names) /\ Len(names) = 2
  BY <1>5, TupleIsSeq
<1>7. PICK n : n = Len(blocks)
  OBVIOUS
<1>8. PICK cs : cs = Create(blocks, names)
  OBVIOUS
<1>9. Blks(cs) /\ Grown(blocks, cs) /\ Len(cs) = n + 2
  <2>1. Blks(cs) /\ Grown(blocks, cs) /\ Len(cs) = Len(blocks) + Len(names)
    BY <1>3, <1>6, <1>8, CreateIs, Zenon
  <2> QED
    BY <1>3, <1>6, <1>7, <2>1
<1>10. PICK m : m = <<n + 1, n + 2>>
  OBVIOUS
<1>11. PICK g : g = [f EXCEPT !.stage = "left", !.made = m]
  OBVIOUS
<1>12. IsFrame(g) /\ g.path = f.path /\ g.stmt = f.stmt /\ g.stage = "left" /\ g.made = m
  BY <1>3, <1>11, FrameMade DEF IsFrame
<1>13. /\ stack' = Append(Append(Front(stack), g), Activation(Kid(f.path, 1), f.stmt.kids[1]))
       /\ blocks' = cs /\ cur' = cur
  BY <1>2, <1>5, <1>7, <1>8, <1>10, <1>11 DEF GenLogic, Build, CallWith, CallAs, N, Node
<1>14. m[1] = n + 1 /\ m[2] = n + 2
  BY <1>10
<1>15. Promised(g) = {n + 1, n + 2}
  BY <1>12, <1>14 DEF Promised
<1>16. MadeOk(cs, g)
  BY <1>1, <1>3, <1>7, <1>9, <1>12, <1>15 DEF MadeOk
<1>17. Left(g) = {2} /\ Promised(f) = {}
  BY <1>3, <1>12 DEF Left, Promised
<1>18. Moves(blocks, cur, cs, cur)
  BY <1>3, <1>7, <1>9 DEF Moves
<1>19. ~RuledOut(f.stmt, 1)
  BY DEF RuledOut
<1>20. \A j \in Left(f) : j \in 1..Len(f.stmt.kids) => j \in Left(g) \/ j = 1 \/ RuledOut(f.stmt, j)
  BY <1>4, <1>17
<1>21. \A b \in 1..Len(cs) : b \in 1..Len(blocks) \/ b = cur \/ b \in Promised(g)
  BY <1>3, <1>7, <1>9, <1>15
<1>22. CallOk(blocks, cur, f, g, 1, cs, cur)
  BY <1>1, <1>3, <1>4, <1>12, <1>16, <1>17, <1>18, <1>19, <1>20, <1>21 DEF CallOk
<1> QED
  BY <1>3, <1>13, <1>22, CallStep

LEMMA LogicLeftKeeps ==
  ASSUME IsBody(prog), GenOk(prog, stack, blocks, cur, val), GenLogicLeft
  PROVE  GenOk(prog, stack', blocks', cur', val')
<1>1. PICK op \in {"and", "or"} : Gen(op, "left")
  BY DEF GenLogicLeft
<1>2. PICK f : f = Top
  OBVIOUS
<1>3. /\ stack # <<>> /\ f = Last(stack) /\ f.stage = "left" /\ f.stmt.op = op /\ IsFrame(f)
      /\ Blks(blocks) /\ cur \in 1..Len(blocks) /\ Len(blocks) \in Nat /\ IsNode(f.stmt)
      /\ MadeOk(blocks, f)
  BY <1>1, <1>2, TopIs
<1>4. Len(f.stmt.kids) = 2
  BY <1>1, <1>3, Sizes
<1>5. PICK right : right = f.made[1]
  OBVIOUS
<1>6. PICK merge : merge = f.made[2]
  OBVIOUS
<1>7. Promised(f) = {right, merge} /\ Left(f) = {2}
  BY <1>3, <1>5, <1>6 DEF Promised, Left
<1>8. right \in 1..Len(blocks) /\ merge \in 1..Len(blocks)
  BY <1>3, <1>7 DEF MadeOk
<1>9. PICK x : x = Inst("store", <<>>, <<merge>>, <<val>>)
  OBVIOUS
<1>10. PICK stored : stored = Emit(blocks, cur, x)
  OBVIOUS
<1>11. Blks(stored) /\ Grown(blocks, stored) /\ Len(stored) = Len(blocks)
  BY <1>3, <1>9, <1>10, InstIsInst, EmitBuilds
<1>12. PICK cs : cs = IF Node.op = "and" THEN Br(stored, cur, val, right, merge)
                                         ELSE Br(stored, cur, val, merge, right)
  OBVIOUS
<1>13. Ended(stored, cur, cs)
  <2>1. cur \in 1..Len(stored)
    BY <1>3, <1>11
  <2> QED
    BY <1>11, <1>12, <2>1, BrEnds
<1>14. Blks(cs) /\ Grown(blocks, cs) /\ Len(cs) = Len(blocks) /\ Ends(cs[cur])
  BY <1>3, <1>11, <1>13, EndedAfter
<1>15. PICK g : g = [f EXCEPT !.stage = "right"]
  OBVIOUS
<1>16. IsFrame(g) /\ g.path = f.path /\ g.stmt = f.stmt /\ g.stage = "right" /\ g.made = f.made
  BY <1>3, <1>15, FrameStage DEF IsFrame
<1>17. /\ stack' = Append(Append(Front(stack), g), Activation(Kid(f.path, 2), f.stmt.kids[2]))
       /\ blocks' = cs /\ cur' = right
  BY <1>2, <1>5, <1>6, <1>9, <1>10, <1>12, <1>15 DEF GenLogicLeft, Build, Call, CallAs, Made, Node
<1>18. Promised(g) = {merge}
  BY <1>6, <1>16 DEF Promised
<1>19. MadeOk(cs, g)
  BY <1>1, <1>3, <1>8, <1>14, <1>16, <1>18 DEF MadeOk
<1>20. Moves(blocks, cur, cs, right)
  BY <1>8, <1>14 DEF Moves
<1>21. ~RuledOut(f.stmt, 2)
  BY <1>1, <1>3 DEF RuledOut
<1>22. CallOk(blocks, cur, f, g, 2, cs, right)
  BY <1>1, <1>3, <1>4, <1>7, <1>14, <1>16, <1>18, <1>19, <1>20, <1>21 DEF CallOk
<1> QED
  BY <1>3, <1>17, <1>22, CallStep

LEMMA LogicRightKeeps ==
  ASSUME IsBody(prog), GenOk(prog, stack, blocks, cur, val), GenLogicRight
  PROVE  GenOk(prog, stack', blocks', cur', val')
<1>1. PICK op \in {"and", "or"} : Gen(op, "right")
  BY DEF GenLogicRight
<1>2. PICK f : f = Top
  OBVIOUS
<1>3. /\ stack # <<>> /\ f = Last(stack) /\ f.stage = "right" /\ f.stmt.op = op
      /\ FrameOk(prog, blocks, f) /\ Blks(blocks) /\ cur \in 1..Len(blocks) /\ MadeOk(blocks, f)
      /\ Len(blocks) \in Nat
  BY <1>1, <1>2, TopIs
<1>4. PICK merge : merge = f.made[2]
  OBVIOUS
<1>5. Promised(f) = {merge} /\ Left(f) = {}
  BY <1>3, <1>4 DEF Promised, Left
<1>6. merge \in 1..Len(blocks)
  BY <1>3, <1>5 DEF MadeOk
<1>7. PICK x : x = Inst("store", <<>>, <<merge>>, <<val>>)
  OBVIOUS
<1>8. PICK stored : stored = Emit(blocks, cur, x)
  OBVIOUS
<1>9. Blks(stored) /\ Grown(blocks, stored) /\ Len(stored) = Len(blocks)
  BY <1>3, <1>7, <1>8, InstIsInst, EmitBuilds
<1>10. PICK jumped : jumped = Jmp(stored, cur, merge)
  OBVIOUS
<1>11. Blks(jumped) /\ Grown(blocks, jumped) /\ Len(jumped) = Len(blocks) /\ Ends(jumped[cur])
  <2>1. Ended(stored, cur, jumped)
    BY <1>3, <1>9, <1>10, JmpEnds
  <2> QED
    BY <1>3, <1>9, <2>1, EndedAfter
<1>12. PICK y : y = Inst("load", <<>>, <<merge>>, <<>>)
  OBVIOUS
<1>13. PICK cs : cs = Emit(jumped, merge, y)
  OBVIOUS
<1>14. Blks(cs) /\ Grown(jumped, cs) /\ Len(cs) = Len(blocks)
  <2>1. merge \in 1..Len(jumped)
    BY <1>6, <1>11
  <2> QED
    BY <1>11, <1>12, <1>13, <2>1, InstIsInst, EmitBuilds
<1>15. Grown(blocks, cs)
  BY <1>3, <1>11, <1>14, GrownOn
<1>16. Ends(cs[cur])
  BY <1>3, <1>11, <1>14 DEF Grown
<1>17. stack' = Front(stack) /\ blocks' = cs /\ cur' = merge /\ val' = Reg
  BY <1>2, <1>4, <1>7, <1>8, <1>10, <1>12, <1>13 DEF GenLogicRight, Build, Return, Made
<1>18. Moves(blocks, cur, cs, merge)
  BY <1>6, <1>14, <1>15, <1>16 DEF Moves
<1>19. ValueOf(f.stmt, Reg)
  BY <1>1, <1>3 DEF ValueOf
<1>20. PlainReturn(blocks, cur, f, cs, merge, Reg)
  BY <1>1, <1>3, <1>5, <1>14, <1>18, <1>19 DEF PlainReturn
<1> QED
  BY <1>3, <1>17, <1>20, PlainReturnStep

LEMMA GenExpressionKeeps ==
  ASSUME IsBody(prog), GenOk(prog, stack, blocks, cur, val), GenExpression
  PROVE  GenOk(prog, stack', blocks', cur', val')
BY EffectKeeps, ConstKeeps, NothingKeeps, LogicKeeps, LogicLeftKeeps, LogicRightKeeps, Zenon
   DEF GenExpression

-----------------------------------------------------------------------------
(* Statements. *)

LEMMA BlockKeeps ==
  ASSUME IsBody(prog), GenOk(prog, stack, blocks, cur, val), GenBlock
  PROVE  GenOk(prog, stack', blocks', cur', val')
<1>1. Gen("block", "enter")
  BY DEF GenBlock
<1>2. PICK f : f = Top
  OBVIOUS
<1>3. /\ stack # <<>> /\ f = Last(stack) /\ f.stage = "enter" /\ f.stmt.op = "block" /\ IsFrame(f)
      /\ Blks(blocks) /\ cur \in 1..Len(blocks) /\ Len(blocks) \in Nat /\ IsNode(f.stmt)
      /\ MadeOk(blocks, f) /\ FrameOk(prog, blocks, f)
      /\ f.path \in Paths(prog) /\ f.stmt = NodeAt(prog, f.path)
  BY <1>1, <1>2, TopIs
<1>4. DOMAIN f.stmt.kids = 1..Len(f.stmt.kids) /\ Len(f.stmt.kids) \in Nat
  BY <1>3, PathsNode
<1>5. IsSeq(f.made) /\ Len(f.made) \in Nat
  BY <1>3 DEF MadeOk, IsSeq
<1>6. PICK k : k = Len(f.made) + 1
  OBVIOUS
<1>7. Promised(f) = {} /\ Left(f) = k..Len(f.stmt.kids) /\ k \in Nat \ {0}
  BY <1>3, <1>5, <1>6 DEF Promised, Left
<1>8. blocks' = blocks /\ cur' = cur
  BY DEF GenBlock, Build
<1>9. Moves(blocks, cur, blocks, cur)
  BY <1>3, MovesNowhere
<1>10. CASE k \in DOMAIN Node.kids
  <2>1. PICK m : m = Append(f.made, k)
    OBVIOUS
  <2>2. IsSeq(m) /\ Len(m) = k
    BY <1>5, <1>6, <2>1, AppendIsSeq
  <2>3. PICK g : g = [f EXCEPT !.stage = "enter", !.made = m]
    OBVIOUS
  <2>4. IsFrame(g) /\ g.path = f.path /\ g.stmt = f.stmt /\ g.stage = "enter" /\ g.made = m
    BY <1>3, <2>3, FrameMade DEF IsFrame
  <2>5. stack' = Append(Append(Front(stack), g), Activation(Kid(f.path, k), f.stmt.kids[k]))
    BY <1>2, <1>6, <1>10, <2>1, <2>3 DEF GenBlock, CallWith, CallAs, Made, Node
  <2>6. Promised(g) = {} /\ Left(g) = (k + 1)..Len(f.stmt.kids)
    BY <1>3, <2>2, <2>4 DEF Promised, Left
  <2>7. MadeOk(blocks, g)
    BY <2>2, <2>4, <2>6 DEF MadeOk
  <2>8. ~RuledOut(f.stmt, k)
    BY <1>3 DEF RuledOut
  <2>9. k \in 1..Len(f.stmt.kids)
    BY <1>2, <1>4, <1>10 DEF Node
  <2>10. \A j \in Left(f) : j \in Left(g) \/ j = k
    BY <1>4, <1>7, <2>6
  <2>11. CallOk(blocks, cur, f, g, k, blocks, cur)
    BY <1>3, <1>7, <1>9, <2>4, <2>7, <2>8, <2>9, <2>10 DEF CallOk
  <2> QED
    BY <1>3, <1>8, <2>5, <2>11, CallStep
<1>11. CASE k \notin DOMAIN Node.kids
  <2>1. stack' = Front(stack)
    BY <1>2, <1>6, <1>11 DEF GenBlock, Return, Made
  <2>2. \A j \in Left(f) : j \notin 1..Len(f.stmt.kids)
    BY <1>2, <1>4, <1>7, <1>11 DEF Node
  <2>3. ValueOf(f.stmt, val')
    BY <1>3 DEF ValueOf
  <2>4. PlainReturn(blocks, cur, f, blocks, cur, val')
    BY <1>3, <1>7, <1>9, <2>2, <2>3 DEF PlainReturn
  <2> QED
    BY <1>3, <1>8, <2>1, <2>4, PlainReturnStep
<1> QED
  BY <1>10, <1>11

LEMMA ReturnKeeps ==
  ASSUME IsBody(prog), GenOk(prog, stack, blocks, cur, val), GenReturn \/ GenTrap
  PROVE  GenOk(prog, stack', blocks', cur', val')
<1>1. PICK op \in {"return", "trap"} : Gen(op, "enter")
  BY DEF GenReturn, GenTrap
<1>2. PICK f : f = Top
  OBVIOUS
<1>3. Blks(blocks) /\ cur \in 1..Len(blocks) /\ f.stmt.op = op
  BY <1>1, <1>2, TopIs
<1>4. PICK x : IsInst(x) /\ blocks' = Emit(blocks, cur, x)
  <2>1. CASE GenReturn
    BY <2>1, InstIsInst DEF GenReturn, Build
  <2>2. CASE GenTrap
    BY <2>2, InstIsInst DEF GenTrap, Build
  <2> QED
    BY <2>1, <2>2
<1>5. PICK cs : cs = Emit(blocks, cur, x)
  OBVIOUS
<1>6. Blks(cs) /\ Grown(blocks, cs) /\ Len(cs) = Len(blocks)
  BY <1>3, <1>4, <1>5, EmitBuilds
<1>7. stack' = Front(stack) /\ blocks' = cs /\ cur' = cur
  BY <1>4, <1>5 DEF GenReturn, GenTrap, Build, Return
<1>8. ValueOf(f.stmt, val')
  BY <1>1, <1>3 DEF ValueOf
<1>9. op \notin Inner /\ op # "label"
  BY <1>1 DEF Inner
<1> QED
  BY <1>1, <1>2, <1>6, <1>7, <1>8, <1>9, LeafStep

LEMMA IfKeeps ==
  ASSUME IsBody(prog), GenOk(prog, stack, blocks, cur, val), GenIf
  PROVE  GenOk(prog, stack', blocks', cur', val')
<1>1. Gen("if", "enter")
  BY DEF GenIf
<1>2. PICK f : f = Top
  OBVIOUS
<1>3. /\ stack # <<>> /\ f = Last(stack) /\ f.stage = "enter" /\ f.stmt.op = "if" /\ IsFrame(f)
      /\ Blks(blocks) /\ cur \in 1..Len(blocks) /\ Len(blocks) \in Nat /\ IsNode(f.stmt)
  BY <1>1, <1>2, TopIs
<1>4. Len(f.stmt.kids) \in {2, 3}
  BY <1>3, Sizes
<1>5. Promised(f) = {} /\ Left(f) = 1..Len(f.stmt.kids)
  BY <1>3 DEF Promised, Left
<1>6. PICK g : g = [f EXCEPT !.stage = "condition"]
  OBVIOUS
<1>7. IsFrame(g) /\ g.path = f.path /\ g.stmt = f.stmt /\ g.stage = "condition" /\ g.made = f.made
  BY <1>3, <1>6, FrameStage DEF IsFrame
<1>8. /\ stack' = Append(Append(Front(stack), g), Activation(Kid(f.path, 1), f.stmt.kids[1]))
      /\ blocks' = blocks /\ cur' = cur
  BY <1>2, <1>6 DEF GenIf, Build, Call, CallAs, Node
<1>9. Promised(g) = {} /\ Left(g) = {2, 3}
  BY <1>3, <1>7 DEF Promised, Left
<1>10. MadeOk(blocks, g)
  BY <1>3, <1>7, <1>9 DEF MadeOk
<1>11. Moves(blocks, cur, blocks, cur)
  BY <1>3, MovesNowhere
<1>12. ~RuledOut(f.stmt, 1)
  BY DEF RuledOut
<1>13. \A j \in Left(f) : j \in Left(g) \/ j = 1
  <2>1. CASE Len(f.stmt.kids) = 2
    BY <1>5, <1>9, <2>1
  <2>2. CASE Len(f.stmt.kids) = 3
    BY <1>5, <1>9, <2>2
  <2> QED
    BY <1>4, <2>1, <2>2
<1>14. 1 \in 1..Len(f.stmt.kids)
  <2>1. CASE Len(f.stmt.kids) = 2
    BY <2>1
  <2>2. CASE Len(f.stmt.kids) = 3
    BY <2>2
  <2> QED
    BY <1>4, <2>1, <2>2
<1>15. CallOk(blocks, cur, f, g, 1, blocks, cur)
  BY <1>3, <1>5, <1>7, <1>10, <1>11, <1>12, <1>13, <1>14 DEF CallOk
<1> QED
  BY <1>3, <1>8, <1>15, CallStep

\* A branch of a single assignment holds no label.
LEMMA SimpleHasNoLabel ==
  ASSUME IsBody(prog), NEW p \in Paths(prog), NodeAt(prog, Simple(p)).op = "assign",
         NEW q \in Paths(prog), q = p \/ Below(p, q)
  PROVE  NodeAt(prog, q).op # "label"
<1>1. PICK n : n = NodeAt(prog, p)
  OBVIOUS
<1>2. IsSeq(p) /\ IsSeq(q)
  BY PathIsSeq
<1>3. Len(n.kids) \in Nat /\ DOMAIN n.kids = 1..Len(n.kids)
  BY <1>1, PathsNode
<1>4. CASE n.op = "block" /\ Len(n.kids) = 1
  <2>1. Simple(p) = Kid(p, 1)
    BY <1>1, <1>4 DEF Simple
  <2>2. PICK r : r = Kid(p, 1)
    OBVIOUS
  <2>3. PICK m : m = NodeAt(prog, r)
    OBVIOUS
  <2>4. r \in Paths(prog) /\ m.op = "assign"
    <3>1. 1 \in 1..Len(n.kids)
      BY <1>4
    <3>2. r \in Paths(prog)
      BY <1>1, <2>2, <3>1, KidIs
    <3>3. m.op = "assign"
      BY <2>1, <2>2, <2>3
    <3> QED
      BY <3>2, <3>3
  <2>5. Len(m.kids) = 0 /\ DOMAIN m.kids = 1..Len(m.kids)
    <3>1. IsNode(m) /\ DOMAIN m.kids = 1..Len(m.kids)
      BY <2>3, <2>4, PathsNode
    <3> QED
      BY <2>4, <3>1, Sizes DEF Inner
  <2>6. CASE q = p
    BY <1>1, <1>4, <2>6
  <2>7. CASE Below(p, q)
    <3>1. PICK k : k = q[Len(p) + 1]
      OBVIOUS
    <3>2. k \in DOMAIN n.kids
      BY <1>1, <1>2, <2>7, <3>1, PathThrough
    <3>3. k = 1
      BY <1>3, <1>4, <3>2
    <3>4. q = r \/ Below(r, q)
      BY <1>2, <2>2, <2>7, <3>1, <3>3, KidOrBelow
    <3>5. ~Below(r, q)
      <4>1. IsSeq(r)
        BY <2>4, PathIsSeq
      <4> QED
        BY <2>3, <2>5, <4>1, PathThrough
    <3> QED
      BY <2>3, <2>4, <3>4, <3>5
  <2> QED
    BY <2>6, <2>7
<1>5. CASE ~(n.op = "block" /\ Len(n.kids) = 1)
  <2>1. Simple(p) = p
    BY <1>1, <1>5 DEF Simple
  <2>2. n.op = "assign"
    BY <1>1, <2>1
  <2>3. Len(n.kids) = 0
    <3>1. IsNode(n)
      BY <1>1, PathsNode
    <3> QED
      BY <2>2, <3>1, Sizes DEF Inner
  <2>4. ~Below(p, q)
    BY <1>1, <1>2, <1>3, <2>3, PathThrough
  <2> QED
    BY <1>1, <2>2, <2>4
<1> QED
  BY <1>4, <1>5

LEMMA SelectKeeps ==
  ASSUME IsBody(prog), GenOk(prog, stack, blocks, cur, val), GenSelect
  PROVE  GenOk(prog, stack', blocks', cur', val')
<1>1. Gen("if", "condition") /\ IsSelect
  BY DEF GenSelect
<1>2. PICK f : f = Top
  OBVIOUS
<1>3. /\ stack # <<>> /\ f = Last(stack) /\ f.stage = "condition" /\ f.stmt.op = "if"
      /\ FrameOk(prog, blocks, f) /\ f.path \in Paths(prog) /\ f.stmt = NodeAt(prog, f.path)
      /\ Blks(blocks) /\ cur \in 1..Len(blocks)
  BY <1>1, <1>2, TopIs
<1>4. Promised(f) = {} /\ Left(f) = {2, 3}
  BY <1>3 DEF Promised, Left
<1>5. /\ Len(f.stmt.kids) = 3
      /\ NodeAt(prog, Simple(Kid(f.path, 2))).op = "assign"
      /\ NodeAt(prog, Simple(Kid(f.path, 3))).op = "assign"
  BY <1>1, <1>2 DEF IsSelect, Then, Else, Node
<1>6. ASSUME NEW q \in Landings(prog) PROVE ~Awaits(f, q)
  <2>1. SUFFICES ASSUME Awaits(f, q) PROVE FALSE
    OBVIOUS
  <2>2. PICK k \in 1..Len(f.stmt.kids) :
          k \in Left(f) /\ Below(f.path, q) /\ k = q[Len(f.path) + 1]
    BY <1>3, <2>1, TopAwaits
  <2>3. PICK p : p = Kid(f.path, k)
    OBVIOUS
  <2>4. q \in Paths(prog) /\ NodeAt(prog, q).op = "label"
    BY LandingIs
  <2>5. IsSeq(f.path) /\ IsSeq(q)
    BY <1>3, <2>4, PathIsSeq
  <2>6. q = p \/ Below(p, q)
    BY <2>2, <2>3, <2>5, KidOrBelow
  <2>7. p \in Paths(prog)
    BY <1>3, <2>2, <2>3, KidIs
  <2>8. NodeAt(prog, Simple(p)).op = "assign"
    BY <1>4, <1>5, <2>2, <2>3
  <2> QED
    BY <2>4, <2>6, <2>7, <2>8, SimpleHasNoLabel
<1>7. PICK x : IsInst(x) /\ blocks' = Emit(blocks, cur, x)
  <2>1. CASE IsImm(val)
    BY <2>1, InstIsInst DEF GenSelect, Build
  <2>2. CASE ~IsImm(val)
    <3>1. IsInst([Inst("select", Then, <<>>, <<>>) EXCEPT !.q = Else])
      BY DEF Inst, IsInst
    <3> QED
      BY <2>2, <3>1 DEF GenSelect, Build
  <2> QED
    BY <2>1, <2>2
<1>8. PICK cs : cs = Emit(blocks, cur, x)
  OBVIOUS
<1>9. Blks(cs) /\ Grown(blocks, cs) /\ Len(cs) = Len(blocks)
  BY <1>3, <1>7, <1>8, EmitBuilds
<1>10. stack' = Front(stack) /\ blocks' = cs /\ cur' = cur
  BY <1>7, <1>8 DEF GenSelect, Build, Return
<1>11. Moves(blocks, cur, cs, cur)
  BY <1>3, <1>9 DEF Moves
<1>12. ValueOf(f.stmt, val')
  BY <1>3 DEF ValueOf
<1>13. ReturnOk(prog, stack, blocks, cur, f, cs, cur, val')
  BY <1>4, <1>6, <1>9, <1>11, <1>12 DEF ReturnOk
<1> QED
  BY <1>3, <1>10, <1>13, ReturnStep

\* A constant condition is known, another one is not.
LEMMA KnownIs ==
  ASSUME NEW n, IsNode(n), n.op = "if", NEW v, ValueOf(n.kids[1], v)
  PROVE  /\ IsImm(v) => n.kids[1].op = "const" /\ v[2] = n.kids[1].vals[1] /\ v[2] \in {0, 1}
         /\ ~IsImm(v) => n.kids[1].op # "const"
<1>1. PICK c : c = n.kids[1]
  OBVIOUS
<1>2. c.op \in {"any", "and", "or"} \/ (c.op = "const" /\ c.vals[1] \in {0, 1})
  BY <1>1, IfCondition DEF IsCondition
<1>3. CASE c.op \in {"any", "and", "or"}
  <2>1. v = <<"vreg", 0>>
    BY <1>1, <1>3 DEF ValueOf, Reg
  <2>2. v[1] = "vreg"
    BY <2>1
  <2>3. ~IsImm(v)
    BY <2>2 DEF IsImm
  <2> QED
    BY <1>1, <1>3, <2>3
<1>4. CASE c.op = "const" /\ c.vals[1] \in {0, 1}
  <2>1. v = <<"const", c.vals[1]>>
    BY <1>1, <1>4 DEF ValueOf, Imm
  <2>2. v[1] = "const" /\ v[2] = c.vals[1]
    BY <2>1
  <2>3. IsImm(v)
    BY <2>2 DEF IsImm
  <2> QED
    BY <1>1, <1>4, <2>2, <2>3
<1> QED
  BY <1>2, <1>3, <1>4

LEMMA IfKnownKeeps ==
  ASSUME IsBody(prog), GenOk(prog, stack, blocks, cur, val), GenIfKnown
  PROVE  GenOk(prog, stack', blocks', cur', val')
<1>1. Gen("if", "condition") /\ IsImm(val)
  BY DEF GenIfKnown
<1>2. PICK f : f = Top
  OBVIOUS
<1>3. /\ stack # <<>> /\ f = Last(stack) /\ f.stage = "condition" /\ f.stmt.op = "if" /\ IsFrame(f)
      /\ Blks(blocks) /\ cur \in 1..Len(blocks) /\ Len(blocks) \in Nat /\ IsNode(f.stmt)
      /\ FrameOk(prog, blocks, f) /\ AtTop(blocks, cur, val, f)
      /\ f.path \in Paths(prog) /\ f.stmt = NodeAt(prog, f.path)
  BY <1>1, <1>2, TopIs
<1>4. DOMAIN f.stmt.kids = 1..Len(f.stmt.kids) /\ Len(f.stmt.kids) \in Nat
  BY <1>3, PathsNode
<1>5. Promised(f) = {} /\ Left(f) = {2, 3}
  BY <1>3 DEF Promised, Left
<1>6. f.stmt.kids[1].op = "const" /\ val[2] = f.stmt.kids[1].vals[1] /\ val[2] \in {0, 1}
  BY <1>1, <1>3, KnownIs DEF AtTop
<1>7. PICK k : k = 3 - val[2]
  OBVIOUS
<1>8. k \in {2, 3} /\ ~RuledOut(f.stmt, k) /\ \A j \in {2, 3} : j = k \/ RuledOut(f.stmt, j)
  BY <1>3, <1>6, <1>7 DEF RuledOut
<1>9. blocks' = blocks /\ cur' = cur
  BY DEF GenIfKnown, Build
<1>10. Moves(blocks, cur, blocks, cur)
  BY <1>3, MovesNowhere
<1>11. CASE k \in DOMAIN Node.kids
  <2>1. PICK g : g = [f EXCEPT !.stage = "known"]
    OBVIOUS
  <2>2. IsFrame(g) /\ g.path = f.path /\ g.stmt = f.stmt /\ g.stage = "known" /\ g.made = f.made
    BY <1>3, <2>1, FrameStage DEF IsFrame
  <2>3. stack' = Append(Append(Front(stack), g), Activation(Kid(f.path, k), f.stmt.kids[k]))
    BY <1>2, <1>7, <1>11, <2>1 DEF GenIfKnown, Call, CallAs, Node
  <2>4. Promised(g) = {} /\ Left(g) = {}
    BY <2>2 DEF Promised, Left
  <2>5. MadeOk(blocks, g)
    BY <1>3, <2>2, <2>4 DEF MadeOk
  <2>6. k \in 1..Len(f.stmt.kids)
    BY <1>2, <1>4, <1>11 DEF Node
  <2>7. CallOk(blocks, cur, f, g, k, blocks, cur)
    BY <1>3, <1>5, <1>8, <1>10, <2>2, <2>5, <2>6 DEF CallOk
  <2> QED
    BY <1>3, <1>9, <2>3, <2>7, CallStep
<1>12. CASE k \notin DOMAIN Node.kids
  <2>1. stack' = Front(stack)
    BY <1>7, <1>12 DEF GenIfKnown, Return
  <2>2. \A j \in Left(f) : j \in 1..Len(f.stmt.kids) => RuledOut(f.stmt, j)
    BY <1>2, <1>4, <1>5, <1>8, <1>12 DEF Node
  <2>3. ValueOf(f.stmt, val')
    BY <1>3 DEF ValueOf
  <2>4. PlainReturn(blocks, cur, f, blocks, cur, val')
    BY <1>3, <1>5, <1>10, <2>2, <2>3 DEF PlainReturn
  <2> QED
    BY <1>3, <1>9, <2>1, <2>4, PlainReturnStep
<1> QED
  BY <1>11, <1>12

LEMMA IfBranchesKeeps ==
  ASSUME IsBody(prog), GenOk(prog, stack, blocks, cur, val), GenIfBranches
  PROVE  GenOk(prog, stack', blocks', cur', val')
<1>1. Gen("if", "condition") /\ ~IsImm(val)
  BY DEF GenIfBranches
<1>2. PICK f : f = Top
  OBVIOUS
<1>3. /\ stack # <<>> /\ f = Last(stack) /\ f.stage = "condition" /\ f.stmt.op = "if" /\ IsFrame(f)
      /\ Blks(blocks) /\ cur \in 1..Len(blocks) /\ Len(blocks) \in Nat /\ IsNode(f.stmt)
      /\ AtTop(blocks, cur, val, f)
  BY <1>1, <1>2, TopIs
<1>4. Len(f.stmt.kids) = 2 \/ Len(f.stmt.kids) = 3
  BY <1>3, Sizes
<1>5. Promised(f) = {} /\ Left(f) = {2, 3}
  BY <1>3 DEF Promised, Left
<1>6. f.stmt.kids[1].op # "const"
  BY <1>1, <1>3, KnownIs DEF AtTop
<1>7. PICK names : names = IF Len(f.stmt.kids) = 3
                    THEN <<Block("si.verum"), Block("si.falsum"), Block("si.exitus")>>
                    ELSE <<Block("si.verum"), Block("si.exitus")>>
  OBVIOUS
<1>8. PICK s : s = Len(names)
  OBVIOUS
<1>9. IsSeq(names) /\ (s = 2 \/ s = 3) /\ (Len(f.stmt.kids) = 2 => s = 2)
  <2>1. CASE Len(f.stmt.kids) = 3
    BY <1>7, <1>8, <2>1, TupleIsSeq
  <2>2. CASE Len(f.stmt.kids) # 3
    BY <1>7, <1>8, <2>2, TupleIsSeq
  <2> QED
    BY <2>1, <2>2
<1>10. PICK n : n = Len(blocks)
  OBVIOUS
<1>11. PICK made : made = Create(blocks, names)
  OBVIOUS
<1>12. Blks(made) /\ Grown(blocks, made) /\ Len(made) = n + s
  <2>1. Blks(made) /\ Grown(blocks, made) /\ Len(made) = Len(blocks) + Len(names)
    BY <1>3, <1>9, <1>11, CreateIs, Zenon
  <2> QED
    BY <1>8, <1>10, <2>1
<1>13. PICK cs : cs = Br(made, cur, val, n + 1, n + 2)
  OBVIOUS
<1>14. Blks(cs) /\ Grown(blocks, cs) /\ Len(cs) = n + s /\ Ends(cs[cur])
  <2>1. cur \in 1..Len(made)
    BY <1>3, <1>9, <1>10, <1>12
  <2>2. Ended(made, cur, cs)
    BY <1>12, <1>13, <2>1, BrEnds
  <2> QED
    BY <1>3, <1>12, <2>2, EndedAfter
<1>15. PICK merge : merge = n + s
  OBVIOUS
<1>16. PICK m : m = <<n + 2, merge>>
  OBVIOUS
<1>17. m[1] = n + 2 /\ m[2] = merge
  BY <1>16
<1>18. PICK g : g = [f EXCEPT !.stage = "then", !.made = m]
  OBVIOUS
<1>19. IsFrame(g) /\ g.path = f.path /\ g.stmt = f.stmt /\ g.stage = "then" /\ g.made = m
  BY <1>3, <1>18, FrameMade DEF IsFrame
<1>20. PICK d : d = n + 1
  OBVIOUS
<1>21. /\ stack' = Append(Append(Front(stack), g), Activation(Kid(f.path, 2), f.stmt.kids[2]))
       /\ blocks' = cs /\ cur' = d
  BY <1>2, <1>7, <1>8, <1>10, <1>11, <1>13, <1>15, <1>16, <1>18, <1>20
  DEF GenIfBranches, Build, CallWith, CallAs, N, Node
<1>22. Promised(g) = {n + 2, merge} /\ Left(g) = {3}
  BY <1>17, <1>19 DEF Promised, Left
<1>23. n \in Nat /\ merge = Len(cs) /\ (merge = n + 2 \/ merge = n + 3)
  BY <1>3, <1>9, <1>10, <1>14, <1>15
<1>24. Promised(g) \subseteq 1..Len(cs)
  BY <1>22, <1>23
<1>25. MadeOk(cs, g)
  <2>1. Len(g.stmt.kids) = 2 => g.made[1] = g.made[2]
    BY <1>9, <1>15, <1>17, <1>19
  <2> QED
    BY <1>3, <1>6, <1>19, <1>24, <2>1 DEF MadeOk
<1>26. Moves(blocks, cur, cs, d)
  <2>1. d \in 1..Len(cs)
    BY <1>20, <1>23
  <2> QED
    BY <1>14, <2>1 DEF Moves
<1>27. ~RuledOut(f.stmt, 2)
  BY <1>6 DEF RuledOut
<1>28. \A b \in 1..Len(cs) : b \in 1..Len(blocks) \/ b = d \/ b \in Promised(g)
  BY <1>10, <1>20, <1>22, <1>23
<1>29. 2 \in 1..Len(f.stmt.kids)
  BY <1>4
<1>30. CallOk(blocks, cur, f, g, 2, cs, d)
  BY <1>5, <1>19, <1>22, <1>25, <1>26, <1>27, <1>28, <1>29 DEF CallOk
<1> QED
  BY <1>3, <1>21, <1>30, CallStep

LEMMA IfThenKeeps ==
  ASSUME IsBody(prog), GenOk(prog, stack, blocks, cur, val), GenIfThen
  PROVE  GenOk(prog, stack', blocks', cur', val')
<1>1. Gen("if", "then")
  BY DEF GenIfThen
<1>2. PICK f : f = Top
  OBVIOUS
<1>3. /\ stack # <<>> /\ f = Last(stack) /\ f.stage = "then" /\ f.stmt.op = "if" /\ IsFrame(f)
      /\ Blks(blocks) /\ cur \in 1..Len(blocks) /\ Len(blocks) \in Nat /\ IsNode(f.stmt)
      /\ MadeOk(blocks, f) /\ FrameOk(prog, blocks, f)
  BY <1>1, <1>2, TopIs
<1>4. Len(f.stmt.kids) = 2 \/ Len(f.stmt.kids) = 3
  BY <1>3, Sizes
<1>5. PICK d : d = f.made[1]
  OBVIOUS
<1>6. PICK merge : merge = f.made[2]
  OBVIOUS
<1>7. Promised(f) = {d, merge} /\ Left(f) = {3}
  BY <1>3, <1>5, <1>6 DEF Promised, Left
<1>8. d \in 1..Len(blocks) /\ merge \in 1..Len(blocks) /\ f.stmt.kids[1].op # "const"
  BY <1>3, <1>7 DEF MadeOk
<1>9. PICK cs : cs = Jmp(blocks, cur, merge)
  OBVIOUS
<1>10. Ended(blocks, cur, cs)
  BY <1>3, <1>9, JmpEnds
<1>11. Blks(cs) /\ Len(cs) = Len(blocks) /\ Moves(blocks, cur, cs, d)
  BY <1>8, <1>10, EndedMoves DEF Ended
<1>12. blocks' = cs /\ cur' = d
  BY <1>2, <1>5, <1>6, <1>9 DEF GenIfThen, Build, Made
<1>13. CASE Len(f.stmt.kids) = 3
  <2>1. PICK g : g = [f EXCEPT !.stage = "else"]
    OBVIOUS
  <2>2. IsFrame(g) /\ g.path = f.path /\ g.stmt = f.stmt /\ g.stage = "else" /\ g.made = f.made
    BY <1>3, <2>1, FrameStage DEF IsFrame
  <2>3. stack' = Append(Append(Front(stack), g), Activation(Kid(f.path, 3), f.stmt.kids[3]))
    BY <1>2, <1>13, <2>1 DEF GenIfThen, Call, CallAs, Node
  <2>4. Promised(g) = {merge}
    BY <1>6, <2>2 DEF Promised
  <2>5. MadeOk(cs, g)
    BY <1>3, <1>8, <1>11, <2>2, <2>4 DEF MadeOk
  <2>6. ~RuledOut(f.stmt, 3) /\ 3 \in 1..Len(f.stmt.kids)
    BY <1>8, <1>13 DEF RuledOut
  <2>7. CallOk(blocks, cur, f, g, 3, cs, d)
    BY <1>3, <1>7, <1>11, <2>2, <2>4, <2>5, <2>6 DEF CallOk
  <2> QED
    BY <1>3, <1>12, <2>3, <2>7, CallStep
<1>14. CASE Len(f.stmt.kids) = 2
  <2>1. stack' = Front(stack)
    BY <1>2, <1>14 DEF GenIfThen, Return, Node
  <2>2. \A j \in Left(f) : j \notin 1..Len(f.stmt.kids)
    BY <1>7, <1>14
  <2>3. ValueOf(f.stmt, val')
    BY <1>3 DEF ValueOf
  <2>4. merge = d
    BY <1>3, <1>5, <1>6, <1>14 DEF MadeOk
  <2>5. PlainReturn(blocks, cur, f, cs, d, val')
    BY <1>3, <1>7, <1>11, <2>2, <2>3, <2>4 DEF PlainReturn
  <2> QED
    BY <1>3, <1>12, <2>1, <2>5, PlainReturnStep
<1> QED
  BY <1>4, <1>13, <1>14

LEMMA IfElseKeeps ==
  ASSUME IsBody(prog), GenOk(prog, stack, blocks, cur, val), GenIfElse
  PROVE  GenOk(prog, stack', blocks', cur', val')
<1>1. Gen("if", "else")
  BY DEF GenIfElse
<1>2. PICK f : f = Top
  OBVIOUS
<1>3. /\ stack # <<>> /\ f = Last(stack) /\ f.stage = "else" /\ f.stmt.op = "if"
      /\ Blks(blocks) /\ cur \in 1..Len(blocks) /\ MadeOk(blocks, f) /\ FrameOk(prog, blocks, f)
  BY <1>1, <1>2, TopIs
<1>4. PICK d : d = f.made[2]
  OBVIOUS
<1>5. Promised(f) = {d} /\ Left(f) = {}
  BY <1>3, <1>4 DEF Promised, Left
<1>6. d \in 1..Len(blocks)
  BY <1>3, <1>5 DEF MadeOk
<1>7. PICK cs : cs = Jmp(blocks, cur, d)
  OBVIOUS
<1>8. Ended(blocks, cur, cs)
  BY <1>3, <1>7, JmpEnds
<1>9. Len(cs) = Len(blocks) /\ Moves(blocks, cur, cs, d)
  BY <1>6, <1>8, EndedMoves DEF Ended
<1>10. stack' = Front(stack) /\ blocks' = cs /\ cur' = d
  BY <1>2, <1>4, <1>7 DEF GenIfElse, Build, Made, Return
<1>11. ValueOf(f.stmt, val')
  BY <1>3 DEF ValueOf
<1>12. PlainReturn(blocks, cur, f, cs, d, val')
  BY <1>3, <1>5, <1>9, <1>11 DEF PlainReturn
<1> QED
  BY <1>3, <1>10, <1>12, PlainReturnStep

LEMMA IfDoneKeeps ==
  ASSUME IsBody(prog), GenOk(prog, stack, blocks, cur, val), GenIfDone
  PROVE  GenOk(prog, stack', blocks', cur', val')
<1>1. Gen("if", "known")
  BY DEF GenIfDone
<1>2. PICK f : f = Top
  OBVIOUS
<1>3. /\ stack # <<>> /\ f = Last(stack) /\ f.stage = "known" /\ f.stmt.op = "if"
      /\ Blks(blocks) /\ cur \in 1..Len(blocks) /\ FrameOk(prog, blocks, f)
  BY <1>1, <1>2, TopIs
<1>4. Promised(f) = {} /\ Left(f) = {}
  BY <1>3 DEF Promised, Left
<1>5. stack' = Front(stack) /\ blocks' = blocks /\ cur' = cur
  BY DEF GenIfDone, Build, Return
<1>6. Moves(blocks, cur, blocks, cur)
  BY <1>3, MovesNowhere
<1>7. ValueOf(f.stmt, val')
  BY <1>3 DEF ValueOf
<1>8. PlainReturn(blocks, cur, f, blocks, cur, val')
  BY <1>3, <1>4, <1>6, <1>7 DEF PlainReturn
<1> QED
  BY <1>3, <1>5, <1>8, PlainReturnStep

LEMMA WhileKeeps ==
  ASSUME IsBody(prog), GenOk(prog, stack, blocks, cur, val), GenWhile
  PROVE  GenOk(prog, stack', blocks', cur', val')
<1>1. Gen("while", "enter")
  BY DEF GenWhile
<1>2. PICK f : f = Top
  OBVIOUS
<1>3. /\ stack # <<>> /\ f = Last(stack) /\ f.stage = "enter" /\ f.stmt.op = "while" /\ IsFrame(f)
      /\ Blks(blocks) /\ cur \in 1..Len(blocks) /\ Len(blocks) \in Nat /\ IsNode(f.stmt)
  BY <1>1, <1>2, TopIs
<1>4. Len(f.stmt.kids) = 2
  BY <1>3, Sizes
<1>5. Promised(f) = {} /\ Left(f) = 1..2
  BY <1>3, <1>4 DEF Promised, Left
<1>6. PICK names : names = <<Block("dum.corpus"), Block("dum.cond"), Block("dum.exitus")>>
  OBVIOUS
<1>7. IsSeq(names) /\ Len(names) = 3
  BY <1>6, TupleIsSeq
<1>8. PICK n : n = Len(blocks)
  OBVIOUS
<1>9. PICK made : made = Create(blocks, names)
  OBVIOUS
<1>10. Blks(made) /\ Grown(blocks, made) /\ Len(made) = n + 3 /\ n \in Nat
  <2>1. Blks(made) /\ Grown(blocks, made) /\ Len(made) = Len(blocks) + Len(names)
    BY <1>3, <1>7, <1>9, CreateIs, Zenon
  <2> QED
    BY <1>3, <1>7, <1>8, <2>1
<1>11. PICK cs : cs = Jmp(made, cur, n + 2)
  OBVIOUS
<1>12. Blks(cs) /\ Grown(blocks, cs) /\ Len(cs) = n + 3 /\ Ends(cs[cur])
  <2>1. cur \in 1..Len(made)
    BY <1>3, <1>8, <1>10
  <2>2. Ended(made, cur, cs)
    BY <1>10, <1>11, <2>1, JmpEnds
  <2> QED
    BY <1>3, <1>10, <2>2, EndedAfter
<1>13. PICK m : m = <<n + 1, n + 2, n + 3>>
  OBVIOUS
<1>14. m[2] = n + 2 /\ m[3] = n + 3
  BY <1>13
<1>15. PICK o : o = <<loopCond, loopExit>>
  OBVIOUS
<1>16. PICK g : g = [f EXCEPT !.stage = "body", !.made = m, !.outer = o]
  OBVIOUS
<1>17. IsFrame(g) /\ g.path = f.path /\ g.stmt = f.stmt /\ g.stage = "body" /\ g.made = m
  BY <1>3, <1>16, FrameOuter DEF IsFrame
<1>18. PICK d : d = n + 1
  OBVIOUS
<1>19. /\ stack' = Append(Append(Front(stack), g), Activation(Kid(f.path, 2), f.stmt.kids[2]))
       /\ blocks' = cs /\ cur' = d
  BY <1>2, <1>6, <1>8, <1>9, <1>11, <1>13, <1>15, <1>16, <1>18
  DEF GenWhile, Build, CallAs, LoopFrame, N, Node
<1>20. Promised(g) = {n + 2, n + 3} /\ Left(g) = {1}
  BY <1>3, <1>14, <1>17 DEF Promised, Left
<1>21. MadeOk(cs, g)
  <2>1. Promised(g) \subseteq 1..Len(cs)
    BY <1>10, <1>12, <1>20
  <2> QED
    BY <1>3, <1>17, <2>1 DEF MadeOk
<1>22. Moves(blocks, cur, cs, d)
  BY <1>10, <1>12, <1>18 DEF Moves
<1>23. ~RuledOut(f.stmt, 2)
  BY <1>3 DEF RuledOut
<1>24. \A b \in 1..Len(cs) : b \in 1..Len(blocks) \/ b = d \/ b \in Promised(g)
  BY <1>8, <1>10, <1>12, <1>18, <1>20
<1>25. \A j \in Left(f) : j \in Left(g) \/ j = 2
  BY <1>5, <1>20
<1>26. CallOk(blocks, cur, f, g, 2, cs, d)
  BY <1>3, <1>4, <1>5, <1>17, <1>21, <1>22, <1>23, <1>24, <1>25 DEF CallOk
<1> QED
  BY <1>3, <1>19, <1>26, CallStep

\* The top activation f jumps to one of the blocks it has made and goes on with its k-th part.
LEMMA OnwardStep ==
  ASSUME IsBody(prog), GenOk(prog, stack, blocks, cur, val),
         NEW op \in {"while", "for"}, NEW stage, Gen(op, stage), NEW f, f = Top,
         NEW d \in Promised(f), NEW cs, cs = Jmp(blocks, cur, d),
         NEW s \in {"condition", "increment"}, NEW g, g = [f EXCEPT !.stage = s],
         Promised(f) \subseteq Promised(g) \cup {d}, Promised(g) \subseteq Promised(f),
         NEW k \in 1..Len(f.stmt.kids), Left(f) \subseteq Left(g) \cup {k}, NEW w
  PROVE  GenOk(prog, Append(Append(Front(stack), g), Activation(Kid(f.path, k), f.stmt.kids[k])),
               cs, d, w)
<1>1. /\ stack # <<>> /\ f = Last(stack) /\ f.stmt.op = op /\ IsFrame(f)
      /\ Blks(blocks) /\ cur \in 1..Len(blocks) /\ MadeOk(blocks, f)
  BY TopIs
<1>2. IsFrame(g) /\ g.path = f.path /\ g.stmt = f.stmt /\ g.stage = s /\ g.made = f.made
  BY <1>1, FrameStage DEF IsFrame
<1>3. Promised(f) \subseteq 1..Len(blocks)
  BY <1>1 DEF MadeOk
<1>4. Ended(blocks, cur, cs)
  BY <1>1, JmpEnds
<1>5. Len(cs) = Len(blocks) /\ Moves(blocks, cur, cs, d)
  BY <1>3, <1>4, EndedMoves DEF Ended
<1>6. MadeOk(cs, g)
  BY <1>1, <1>2, <1>3, <1>5 DEF MadeOk
<1>7. ~RuledOut(f.stmt, k)
  BY <1>1 DEF RuledOut
<1>8. CallOk(blocks, cur, f, g, k, cs, d)
  BY <1>1, <1>2, <1>5, <1>6, <1>7 DEF CallOk
<1> QED
  BY <1>1, <1>8, CallStep

LEMMA WhileBodyKeeps ==
  ASSUME IsBody(prog), GenOk(prog, stack, blocks, cur, val), GenWhileBody
  PROVE  GenOk(prog, stack', blocks', cur', val')
<1>1. Gen("while", "body")
  BY DEF GenWhileBody
<1>2. PICK f : f = Top
  OBVIOUS
<1>3. f.stage = "body" /\ f.stmt.op = "while" /\ IsFrame(f) /\ IsNode(f.stmt)
  BY <1>1, <1>2, TopIs
<1>4. Len(f.stmt.kids) = 2
  BY <1>3, Sizes
<1>5. PICK d : d = f.made[2]
  OBVIOUS
<1>6. Promised(f) = {d, f.made[3]} /\ Left(f) = {1}
  BY <1>3, <1>5 DEF Promised, Left
<1>7. PICK g : g = [f EXCEPT !.stage = "condition"]
  OBVIOUS
<1>8. g.stmt = f.stmt /\ g.stage = "condition" /\ g.made = f.made
  BY <1>3, <1>7, FrameStage DEF IsFrame
<1>9. Promised(g) = {f.made[3]}
  BY <1>3, <1>8 DEF Promised
<1>10. PICK cs : cs = Jmp(blocks, cur, d)
  OBVIOUS
<1>11. /\ stack' = Append(Append(Front(stack), g), Activation(Kid(f.path, 1), f.stmt.kids[1]))
       /\ blocks' = cs /\ cur' = d
  BY <1>2, <1>5, <1>7, <1>10 DEF GenWhileBody, Build, Call, CallAs, Made, Node
<1>12. /\ Promised(f) \subseteq Promised(g) \cup {d} /\ Promised(g) \subseteq Promised(f)
       /\ d \in Promised(f) /\ 1 \in 1..Len(f.stmt.kids) /\ Left(f) \subseteq Left(g) \cup {1}
  BY <1>4, <1>6, <1>9
<1> QED
  BY <1>1, <1>2, <1>7, <1>10, <1>11, <1>12, OnwardStep

LEMMA LoopEndIs ==
  ASSUME NEW cs, NEW d, LoopEnd(cs, d)
  PROVE  stack' = Front(stack) /\ blocks' = cs /\ cur' = d
BY DEF LoopEnd, Build, Return

\* The top activation f is done and goes on in the last block it has made.
LEMMA ExitStep ==
  ASSUME IsBody(prog), GenOk(prog, stack, blocks, cur, val),
         NEW op \in {"while", "for", "switch"}, NEW stage, Gen(op, stage), NEW f, f = Top,
         Left(f) = {}, NEW d, Promised(f) = {d}, NEW cs, Ended(blocks, cur, cs), NEW w
  PROVE  GenOk(prog, Front(stack), cs, d, w)
<1>1. /\ stack # <<>> /\ f = Last(stack) /\ f.stmt.op = op
      /\ FrameOk(prog, blocks, f) /\ MadeOk(blocks, f)
  BY TopIs
<1>2. d \in 1..Len(blocks)
  BY <1>1 DEF MadeOk
<1>3. Len(cs) = Len(blocks) /\ Moves(blocks, cur, cs, d)
  BY <1>2, EndedMoves DEF Ended
<1>4. ValueOf(f.stmt, w)
  BY <1>1 DEF ValueOf
<1>5. PlainReturn(blocks, cur, f, cs, d, w)
  BY <1>1, <1>3, <1>4 DEF PlainReturn
<1> QED
  BY <1>1, <1>5, PlainReturnStep

LEMMA WhileTestKeeps ==
  ASSUME IsBody(prog), GenOk(prog, stack, blocks, cur, val), GenWhileTest
  PROVE  GenOk(prog, stack', blocks', cur', val')
<1>1. Gen("while", "condition")
  BY DEF GenWhileTest
<1>2. PICK f : f = Top
  OBVIOUS
<1>3. /\ f.stage = "condition" /\ f.stmt.op = "while"
      /\ Blks(blocks) /\ cur \in 1..Len(blocks)
  BY <1>1, <1>2, TopIs
<1>4. PICK d : d = f.made[3]
  OBVIOUS
<1>5. Promised(f) = {d} /\ Left(f) = {}
  BY <1>3, <1>4 DEF Promised, Left
<1>6. PICK cs : cs = IF val = Imm(0) THEN Jmp(blocks, cur, Made[3])
                     ELSE Br(blocks, cur, val, Made[1], Made[3])
  OBVIOUS
<1>7. Ended(blocks, cur, cs)
  BY <1>3, <1>6, JmpEnds, BrEnds
<1>8. stack' = Front(stack) /\ blocks' = cs /\ cur' = d
  <2>1. LoopEnd(cs, d)
    BY <1>2, <1>4, <1>6 DEF GenWhileTest, Made
  <2> QED
    BY <2>1, LoopEndIs
<1> QED
  BY <1>1, <1>2, <1>5, <1>7, <1>8, ExitStep

LEMMA ForKeeps ==
  ASSUME IsBody(prog), GenOk(prog, stack, blocks, cur, val), GenFor
  PROVE  GenOk(prog, stack', blocks', cur', val')
<1>1. Gen("for", "enter")
  BY DEF GenFor
<1>2. PICK f : f = Top
  OBVIOUS
<1>3. /\ stack # <<>> /\ f = Last(stack) /\ f.stage = "enter" /\ f.stmt.op = "for" /\ IsFrame(f)
      /\ Blks(blocks) /\ cur \in 1..Len(blocks) /\ IsNode(f.stmt)
  BY <1>1, <1>2, TopIs
<1>4. Len(f.stmt.kids) = 4
  BY <1>3, Sizes
<1>5. Promised(f) = {} /\ Left(f) = 1..4
  BY <1>3, <1>4 DEF Promised, Left
<1>6. PICK g : g = [f EXCEPT !.stage = "blocks"]
  OBVIOUS
<1>7. IsFrame(g) /\ g.path = f.path /\ g.stmt = f.stmt /\ g.stage = "blocks" /\ g.made = f.made
  BY <1>3, <1>6, FrameStage DEF IsFrame
<1>8. /\ stack' = Append(Append(Front(stack), g), Activation(Kid(f.path, 1), f.stmt.kids[1]))
      /\ blocks' = blocks /\ cur' = cur
  BY <1>2, <1>6 DEF GenFor, Build, Call, CallAs, Node
<1>9. Promised(g) = {} /\ Left(g) = {2, 3, 4}
  BY <1>3, <1>7 DEF Promised, Left
<1>10. MadeOk(blocks, g)
  BY <1>3, <1>7, <1>9 DEF MadeOk
<1>11. Moves(blocks, cur, blocks, cur)
  BY <1>3, MovesNowhere
<1>12. ~RuledOut(f.stmt, 1)
  BY DEF RuledOut
<1>13. \A j \in Left(f) : j \in Left(g) \/ j = 1
  BY <1>5, <1>9
<1>14. CallOk(blocks, cur, f, g, 1, blocks, cur)
  BY <1>3, <1>4, <1>5, <1>7, <1>10, <1>11, <1>12, <1>13 DEF CallOk
<1> QED
  BY <1>3, <1>8, <1>14, CallStep

LEMMA ForBlocksKeeps ==
  ASSUME IsBody(prog), GenOk(prog, stack, blocks, cur, val), GenForBlocks
  PROVE  GenOk(prog, stack', blocks', cur', val')
<1>1. Gen("for", "blocks")
  BY DEF GenForBlocks
<1>2. PICK f : f = Top
  OBVIOUS
<1>3. /\ stack # <<>> /\ f = Last(stack) /\ f.stage = "blocks" /\ f.stmt.op = "for" /\ IsFrame(f)
      /\ Blks(blocks) /\ cur \in 1..Len(blocks) /\ Len(blocks) \in Nat /\ IsNode(f.stmt)
  BY <1>1, <1>2, TopIs
<1>4. Len(f.stmt.kids) = 4
  BY <1>3, Sizes
<1>5. Promised(f) = {} /\ Left(f) = {2, 3, 4}
  BY <1>3 DEF Promised, Left
<1>6. PICK names : names = <<Block("per.corpus"), Block("per.inc"),
                             Block("per.cond"), Block("per.exitus")>>
  OBVIOUS
<1>7. IsSeq(names) /\ Len(names) = 4
  BY <1>6, TupleIsSeq
<1>8. PICK n : n = Len(blocks)
  OBVIOUS
<1>9. PICK made : made = Create(blocks, names)
  OBVIOUS
<1>10. Blks(made) /\ Grown(blocks, made) /\ Len(made) = n + 4 /\ n \in Nat
  <2>1. Blks(made) /\ Grown(blocks, made) /\ Len(made) = Len(blocks) + Len(names)
    BY <1>3, <1>7, <1>9, CreateIs, Zenon
  <2> QED
    BY <1>3, <1>7, <1>8, <2>1
<1>11. PICK cs : cs = Jmp(made, cur, n + 3)
  OBVIOUS
<1>12. Blks(cs) /\ Grown(blocks, cs) /\ Len(cs) = n + 4 /\ Ends(cs[cur])
  <2>1. cur \in 1..Len(made)
    BY <1>3, <1>8, <1>10
  <2>2. Ended(made, cur, cs)
    BY <1>10, <1>11, <2>1, JmpEnds
  <2> QED
    BY <1>3, <1>10, <2>2, EndedAfter
<1>13. PICK m : m = <<n + 1, n + 2, n + 3, n + 4>>
  OBVIOUS
<1>14. m[2] = n + 2 /\ m[3] = n + 3 /\ m[4] = n + 4
  BY <1>13
<1>15. PICK o : o = <<loopCond, loopExit>>
  OBVIOUS
<1>16. PICK g : g = [f EXCEPT !.stage = "body", !.made = m, !.outer = o]
  OBVIOUS
<1>17. IsFrame(g) /\ g.path = f.path /\ g.stmt = f.stmt /\ g.stage = "body" /\ g.made = m
  BY <1>3, <1>16, FrameOuter DEF IsFrame
<1>18. PICK d : d = n + 1
  OBVIOUS
<1>19. /\ stack' = Append(Append(Front(stack), g), Activation(Kid(f.path, 4), f.stmt.kids[4]))
       /\ blocks' = cs /\ cur' = d
  BY <1>2, <1>6, <1>8, <1>9, <1>11, <1>13, <1>15, <1>16, <1>18
  DEF GenForBlocks, Build, CallAs, LoopFrame, N, Node
<1>20. Promised(g) = {n + 2, n + 3, n + 4} /\ Left(g) = {2, 3}
  BY <1>3, <1>14, <1>17 DEF Promised, Left
<1>21. MadeOk(cs, g)
  <2>1. Promised(g) \subseteq 1..Len(cs)
    BY <1>10, <1>12, <1>20
  <2> QED
    BY <1>3, <1>17, <2>1 DEF MadeOk
<1>22. Moves(blocks, cur, cs, d)
  BY <1>10, <1>12, <1>18 DEF Moves
<1>23. ~RuledOut(f.stmt, 4)
  BY <1>3 DEF RuledOut
<1>24. \A b \in 1..Len(cs) : b \in 1..Len(blocks) \/ b = d \/ b \in Promised(g)
  BY <1>8, <1>10, <1>12, <1>18, <1>20
<1>25. \A j \in Left(f) : j \in Left(g) \/ j = 4
  BY <1>5, <1>20
<1>26. CallOk(blocks, cur, f, g, 4, cs, d)
  BY <1>3, <1>4, <1>5, <1>17, <1>21, <1>22, <1>23, <1>24, <1>25 DEF CallOk
<1> QED
  BY <1>3, <1>19, <1>26, CallStep

LEMMA ForBodyKeeps ==
  ASSUME IsBody(prog), GenOk(prog, stack, blocks, cur, val), GenForBody
  PROVE  GenOk(prog, stack', blocks', cur', val')
<1>1. Gen("for", "body")
  BY DEF GenForBody
<1>2. PICK f : f = Top
  OBVIOUS
<1>3. f.stage = "body" /\ f.stmt.op = "for" /\ IsFrame(f) /\ IsNode(f.stmt)
  BY <1>1, <1>2, TopIs
<1>4. Len(f.stmt.kids) = 4
  BY <1>3, Sizes
<1>5. PICK d : d = f.made[2]
  OBVIOUS
<1>6. Promised(f) = {d, f.made[3], f.made[4]} /\ Left(f) = {2, 3}
  BY <1>3, <1>5 DEF Promised, Left
<1>7. PICK g : g = [f EXCEPT !.stage = "increment"]
  OBVIOUS
<1>8. g.stmt = f.stmt /\ g.stage = "increment" /\ g.made = f.made
  BY <1>3, <1>7, FrameStage DEF IsFrame
<1>9. Promised(g) = {f.made[3], f.made[4]} /\ Left(g) = {2}
  BY <1>3, <1>8 DEF Promised, Left
<1>10. PICK cs : cs = Jmp(blocks, cur, d)
  OBVIOUS
<1>11. /\ stack' = Append(Append(Front(stack), g), Activation(Kid(f.path, 3), f.stmt.kids[3]))
       /\ blocks' = cs /\ cur' = d
  BY <1>2, <1>5, <1>7, <1>10 DEF GenForBody, Build, Call, CallAs, Made, Node
<1>12. /\ Promised(f) \subseteq Promised(g) \cup {d} /\ Promised(g) \subseteq Promised(f)
       /\ d \in Promised(f) /\ 3 \in 1..Len(f.stmt.kids) /\ Left(f) \subseteq Left(g) \cup {3}
  BY <1>4, <1>6, <1>9
<1> QED
  BY <1>1, <1>2, <1>7, <1>10, <1>11, <1>12, OnwardStep

LEMMA ForIncrementKeeps ==
  ASSUME IsBody(prog), GenOk(prog, stack, blocks, cur, val), GenForIncrement
  PROVE  GenOk(prog, stack', blocks', cur', val')
<1>1. Gen("for", "increment")
  BY DEF GenForIncrement
<1>2. PICK f : f = Top
  OBVIOUS
<1>3. f.stage = "increment" /\ f.stmt.op = "for" /\ IsFrame(f) /\ IsNode(f.stmt)
  BY <1>1, <1>2, TopIs
<1>4. Len(f.stmt.kids) = 4
  BY <1>3, Sizes
<1>5. PICK d : d = f.made[3]
  OBVIOUS
<1>6. Promised(f) = {d, f.made[4]} /\ Left(f) = {2}
  BY <1>3, <1>5 DEF Promised, Left
<1>7. PICK g : g = [f EXCEPT !.stage = "condition"]
  OBVIOUS
<1>8. g.stmt = f.stmt /\ g.stage = "condition" /\ g.made = f.made
  BY <1>3, <1>7, FrameStage DEF IsFrame
<1>9. Promised(g) = {f.made[4]}
  BY <1>3, <1>8 DEF Promised
<1>10. PICK cs : cs = Jmp(blocks, cur, d)
  OBVIOUS
<1>11. /\ stack' = Append(Append(Front(stack), g), Activation(Kid(f.path, 2), f.stmt.kids[2]))
       /\ blocks' = cs /\ cur' = d
  BY <1>2, <1>5, <1>7, <1>10 DEF GenForIncrement, Build, Call, CallAs, Made, Node
<1>12. /\ Promised(f) \subseteq Promised(g) \cup {d} /\ Promised(g) \subseteq Promised(f)
       /\ d \in Promised(f) /\ 2 \in 1..Len(f.stmt.kids) /\ Left(f) \subseteq Left(g) \cup {2}
  BY <1>4, <1>6, <1>9
<1> QED
  BY <1>1, <1>2, <1>7, <1>10, <1>11, <1>12, OnwardStep

LEMMA ForTestKeeps ==
  ASSUME IsBody(prog), GenOk(prog, stack, blocks, cur, val), GenForTest
  PROVE  GenOk(prog, stack', blocks', cur', val')
<1>1. Gen("for", "condition")
  BY DEF GenForTest
<1>2. PICK f : f = Top
  OBVIOUS
<1>3. /\ f.stage = "condition" /\ f.stmt.op = "for"
      /\ Blks(blocks) /\ cur \in 1..Len(blocks)
  BY <1>1, <1>2, TopIs
<1>4. PICK d : d = f.made[4]
  OBVIOUS
<1>5. Promised(f) = {d} /\ Left(f) = {}
  BY <1>3, <1>4 DEF Promised, Left
<1>6. PICK cs : cs = CASE Node.kids[2].op = "none" -> Jmp(blocks, cur, Made[1])
                       [] OTHER -> IF val = Imm(0) THEN Jmp(blocks, cur, Made[4])
                                   ELSE Br(blocks, cur, val, Made[1], Made[4])
  OBVIOUS
<1>7. Ended(blocks, cur, cs)
  <2>1. Ended(blocks, cur, Jmp(blocks, cur, Made[1]))
    BY <1>3, JmpEnds
  <2>2. Ended(blocks, cur, Jmp(blocks, cur, Made[4]))
    BY <1>3, JmpEnds
  <2>3. Ended(blocks, cur, Br(blocks, cur, val, Made[1], Made[4]))
    BY <1>3, BrEnds
  <2> QED
    BY <1>6, <2>1, <2>2, <2>3
<1>8. stack' = Front(stack) /\ blocks' = cs /\ cur' = d
  <2>1. LoopEnd(cs, d)
    BY <1>2, <1>4, <1>6 DEF GenForTest, Made
  <2> QED
    BY <2>1, LoopEndIs
<1> QED
  BY <1>1, <1>2, <1>5, <1>7, <1>8, ExitStep

LEMMA BreakKeeps ==
  ASSUME IsBody(prog), GenOk(prog, stack, blocks, cur, val), GenBreak \/ GenContinue
  PROVE  GenOk(prog, stack', blocks', cur', val')
<1>1. PICK op \in {"break", "continue"} : Gen(op, "enter")
  BY DEF GenBreak, GenContinue
<1>2. PICK f : f = Top
  OBVIOUS
<1>3. Blks(blocks) /\ cur \in 1..Len(blocks) /\ f.stmt.op = op
  BY <1>1, <1>2, TopIs
<1>4. blocks' = blocks \/ \E to : blocks' = Jmp(blocks, cur, to)
  <2>1. CASE GenBreak
    BY <2>1 DEF GenBreak, Build
  <2>2. CASE GenContinue
    BY <2>2 DEF GenContinue, Build
  <2> QED
    BY <2>1, <2>2
<1>5. PICK cs : cs = blocks'
  OBVIOUS
<1>6. Blks(cs) /\ Grown(blocks, cs) /\ Len(cs) = Len(blocks)
  <2>1. CASE cs = blocks
    BY <1>3, <2>1, GrownSame
  <2>2. CASE \E to : cs = Jmp(blocks, cur, to)
    BY <1>3, <2>2, JmpEnds DEF Ended
  <2> QED
    BY <1>4, <1>5, <2>1, <2>2
<1>7. stack' = Front(stack) /\ blocks' = cs /\ cur' = cur
  BY <1>5 DEF GenBreak, GenContinue, Build, Return
<1>8. ValueOf(f.stmt, val')
  BY <1>1, <1>3 DEF ValueOf
<1>9. op \notin Inner /\ op # "label"
  BY <1>1 DEF Inner
<1> QED
  BY <1>1, <1>2, <1>6, <1>7, <1>8, <1>9, LeafStep

LEMMA GotoKeeps ==
  ASSUME IsBody(prog), GenOk(prog, stack, blocks, cur, val), GenGoto
  PROVE  GenOk(prog, stack', blocks', cur', val')
<1>1. Gen("goto", "enter")
  BY DEF GenGoto
<1>2. PICK f : f = Top
  OBVIOUS
<1>3. /\ stack # <<>> /\ f = Last(stack) /\ f.stage = "enter" /\ f.stmt.op = "goto"
      /\ FrameOk(prog, blocks, f) /\ f.path \in Paths(prog) /\ f.stmt = NodeAt(prog, f.path)
      /\ Blks(blocks) /\ cur \in 1..Len(blocks) /\ Len(blocks) \in Nat /\ IsNode(f.stmt)
  BY <1>1, <1>2, TopIs
<1>4. Len(f.stmt.kids) = 0
  BY <1>3, Sizes DEF Inner
<1>5. PICK l : l = f.stmt.name
  OBVIOUS
<1>6. PICK n : n = Len(blocks)
  OBVIOUS
<1>7. PICK labelled : labelled = WithLabel(blocks, l)
  OBVIOUS
<1>8. PICK here : here = LabelBlock(labelled, l)
  OBVIOUS
<1>9. /\ Blks(labelled) /\ Grown(blocks, labelled) /\ here \in 1..Len(labelled)
      /\ \/ Len(labelled) = n
         \/ LabelBlock(blocks, l) = 0 /\ Len(labelled) = n + 1 /\ here = n + 1
  BY <1>3, <1>6, <1>7, <1>8, WithLabelBuilds
<1>10. PICK jumped : jumped = Jmp(labelled, cur, here)
  OBVIOUS
<1>11. cur \in 1..Len(labelled)
  BY <1>3, <1>6, <1>9
<1>12. Ended(labelled, cur, jumped)
  BY <1>9, <1>10, <1>11, JmpEnds
<1>13. PICK names : names = <<Block("post_sali")>>
  OBVIOUS
<1>14. IsSeq(names) /\ Len(names) = 1
  BY <1>13, TupleIsSeq
<1>15. PICK cs : cs = Create(jumped, names)
  OBVIOUS
<1>16. Blks(cs) /\ Grown(jumped, cs) /\ Len(cs) = Len(jumped) + Len(names)
  <2>1. Blks(jumped)
    BY <1>12 DEF Ended
  <2> QED
    BY <1>14, <1>15, <2>1, CreateIs, Zenon
<1>17. PICK d : d = Len(jumped) + 1
  OBVIOUS
<1>18. /\ Len(labelled) \in Nat /\ Len(jumped) = Len(labelled) /\ d = Len(labelled) + 1
       /\ Len(cs) = d /\ d \in 1..Len(cs)
  BY <1>3, <1>6, <1>9, <1>12, <1>14, <1>16, <1>17 DEF Ended
<1>19. Blks(jumped) /\ Grown(labelled, jumped) /\ Ends(jumped[cur])
  BY <1>12 DEF Ended
<1>20. Grown(labelled, cs)
  BY <1>9, <1>16, <1>19, GrownOn
<1>21. Grown(blocks, cs)
  BY <1>3, <1>9, <1>16, <1>20, GrownOn
<1>22. Ends(cs[cur])
  BY <1>11, <1>16, <1>18, <1>19 DEF Grown
<1>23. stack' = Front(stack) /\ blocks' = cs /\ cur' = d
  BY <1>2, <1>5, <1>7, <1>8, <1>10, <1>13, <1>15, <1>17 DEF GenGoto, Build, Return, Node
<1>24. Moves(blocks, cur, cs, d)
  BY <1>16, <1>18, <1>21, <1>22 DEF Moves
<1>25. ASSUME NEW q \in Landings(prog) PROVE ~Awaits(f, q)
  <2>1. f.stmt.op # "label"
    BY <1>3
  <2>2. \A j \in Left(f) : j \in 1..Len(f.stmt.kids) => RuledOut(f.stmt, j)
    BY <1>4
  <2> QED
    BY <1>3, <1>25, <2>1, <2>2, NoneAwaited
<1>26. ASSUME GotosLead(prog), NEW b \in 1..Len(cs), b \notin 1..Len(blocks), b # d
       PROVE  \E q \in Landings(prog) :
                ToCome(stack, q) /\ ~Awaits(f, q) /\ b = LandingBlock(prog, cs, q)
  <2>1. b \in 1..Len(labelled)
    BY <1>18, <1>26
  <2>2. LabelBlock(blocks, l) = 0 /\ b = here /\ here # 0
    BY <1>3, <1>6, <1>9, <1>18, <1>26, <2>1
  <2>3. LabelBlock(cs, l) = b
    BY <1>8, <1>9, <1>16, <1>20, <2>2, LabelBlockStays
  <2>4. ~Skipped(prog, f.path)
    BY <1>3 DEF FrameOk
  <2>5. PICK q \in Labels(prog, l) : ~Skipped(prog, q)
    BY <1>3, <1>5, <1>26, <2>4 DEF GotosLead
  <2>6. q \in Landings(prog) /\ NodeAt(prog, q).name = l
    BY <2>5 DEF Labels, Landings
  <2>7. LandingBlock(prog, blocks, q) = 0 /\ LandingBlock(prog, cs, q) = b
    BY <2>2, <2>3, <2>6 DEF LandingBlock
  <2>8. ToCome(stack, q)
    BY <2>6, <2>7 DEF GenOk, Landed
  <2> QED
    BY <1>25, <2>6, <2>7, <2>8
<1>27. ValueOf(f.stmt, val') /\ Promised(f) = {}
  BY <1>3 DEF ValueOf, Promised
<1>28. ReturnOk(prog, stack, blocks, cur, f, cs, d, val')
  BY <1>24, <1>25, <1>26, <1>27 DEF ReturnOk
<1> QED
  BY <1>3, <1>23, <1>28, ReturnStep

LEMMA LabelKeeps ==
  ASSUME IsBody(prog), GenOk(prog, stack, blocks, cur, val), GenLabel
  PROVE  GenOk(prog, stack', blocks', cur', val')
<1>1. Gen("label", "enter")
  BY DEF GenLabel
<1>2. PICK f : f = Top
  OBVIOUS
<1>3. /\ stack # <<>> /\ f = Last(stack) /\ f.stage = "enter" /\ f.stmt.op = "label"
      /\ FrameOk(prog, blocks, f) /\ f.path \in Paths(prog) /\ f.stmt = NodeAt(prog, f.path)
      /\ Blks(blocks) /\ cur \in 1..Len(blocks) /\ Len(blocks) \in Nat /\ IsNode(f.stmt)
  BY <1>1, <1>2, TopIs
<1>4. Len(f.stmt.kids) = 0
  BY <1>3, Sizes DEF Inner
<1>5. PICK l : l = f.stmt.name
  OBVIOUS
<1>6. PICK n : n = Len(blocks)
  OBVIOUS
<1>7. PICK labelled : labelled = WithLabel(blocks, l)
  OBVIOUS
<1>8. PICK here : here = LabelBlock(labelled, l)
  OBVIOUS
<1>9. /\ Blks(labelled) /\ Grown(blocks, labelled) /\ here \in 1..Len(labelled)
      /\ \/ Len(labelled) = n
         \/ Len(labelled) = n + 1 /\ here = n + 1
  BY <1>3, <1>6, <1>7, <1>8, WithLabelBuilds
<1>10. PICK cs : cs = Jmp(labelled, cur, here)
  OBVIOUS
<1>11. cur \in 1..Len(labelled)
  BY <1>3, <1>6, <1>9
<1>12. Ended(labelled, cur, cs)
  BY <1>9, <1>10, <1>11, JmpEnds
<1>13. Blks(cs) /\ Grown(labelled, cs) /\ Len(cs) = Len(labelled) /\ Ends(cs[cur])
  BY <1>12 DEF Ended
<1>14. Grown(blocks, cs)
  BY <1>3, <1>9, <1>13, GrownOn
<1>15. stack' = Front(stack) /\ blocks' = cs /\ cur' = here
  BY <1>2, <1>5, <1>7, <1>8, <1>10 DEF GenLabel, Build, Return, Close, Node
<1>16. Moves(blocks, cur, cs, here)
  BY <1>9, <1>13, <1>14 DEF Moves
<1>17. here # 0 /\ LabelBlock(cs, l) = here
  <2>1. here # 0
    BY <1>9, BlksIsSeq
  <2> QED
    BY <1>8, <1>9, <1>13, <2>1, LabelBlockStays
<1>18. ASSUME NEW q \in Landings(prog), Awaits(f, q)
       PROVE  LandingBlock(prog, cs, q) # 0 /\ LandingBlock(prog, cs, q) = here
  <2>1. q = f.path
    BY <1>3, <1>4, <1>18, TopAwaits
  <2> QED
    BY <1>3, <1>5, <1>17, <2>1 DEF LandingBlock
<1>19. \A b \in 1..Len(cs) : b \in 1..Len(blocks) \/ b = here
  BY <1>3, <1>6, <1>9, <1>13
<1>20. ValueOf(f.stmt, val') /\ Promised(f) = {}
  BY <1>3 DEF ValueOf, Promised
<1>21. ReturnOk(prog, stack, blocks, cur, f, cs, here, val')
  BY <1>16, <1>18, <1>19, <1>20 DEF ReturnOk
<1> QED
  BY <1>3, <1>15, <1>21, ReturnStep

LEMMA SwitchKeeps ==
  ASSUME IsBody(prog), GenOk(prog, stack, blocks, cur, val), GenSwitch
  PROVE  GenOk(prog, stack', blocks', cur', val')
<1>1. Gen("switch", "enter")
  BY DEF GenSwitch
<1>2. PICK f : f = Top
  OBVIOUS
<1>3. /\ stack # <<>> /\ f = Last(stack) /\ f.stage = "enter" /\ f.stmt.op = "switch" /\ IsFrame(f)
      /\ Blks(blocks) /\ cur \in 1..Len(blocks) /\ IsNode(f.stmt)
      /\ Len(f.stmt.kids) \in Nat /\ Len(f.stmt.vals) \in Nat
  BY <1>1, <1>2, TopIs
<1>4. 1 \in 1..Len(f.stmt.kids)
  <2>1. Len(f.stmt.kids) - Len(f.stmt.vals) \in {1, 2}
    BY <1>3, Sizes
  <2> QED
    BY <1>3, <2>1
<1>5. Promised(f) = {} /\ Left(f) = 1..Len(f.stmt.kids)
  BY <1>3 DEF Promised, Left
<1>6. PICK g : g = [f EXCEPT !.stage = "cases"]
  OBVIOUS
<1>7. IsFrame(g) /\ g.path = f.path /\ g.stmt = f.stmt /\ g.stage = "cases" /\ g.made = f.made
  BY <1>3, <1>6, FrameStage DEF IsFrame
<1>8. /\ stack' = Append(Append(Front(stack), g), Activation(Kid(f.path, 1), f.stmt.kids[1]))
      /\ blocks' = blocks /\ cur' = cur
  BY <1>2, <1>6 DEF GenSwitch, Build, Call, CallAs, Node
<1>9. Promised(g) = {} /\ Left(g) = 2..Len(f.stmt.kids)
  BY <1>3, <1>7 DEF Promised, Left
<1>10. MadeOk(blocks, g)
  BY <1>3, <1>7, <1>9 DEF MadeOk
<1>11. Moves(blocks, cur, blocks, cur)
  BY <1>3, MovesNowhere
<1>12. ~RuledOut(f.stmt, 1)
  BY DEF RuledOut
<1>13. \A j \in Left(f) : j \in Left(g) \/ j = 1
  BY <1>3, <1>5, <1>9
<1>14. CallOk(blocks, cur, f, g, 1, blocks, cur)
  BY <1>3, <1>4, <1>5, <1>7, <1>10, <1>11, <1>12, <1>13 DEF CallOk
<1> QED
  BY <1>3, <1>8, <1>14, CallStep

LEMMA SwitchCasesKeeps ==
  ASSUME IsBody(prog), GenOk(prog, stack, blocks, cur, val), GenSwitchCases
  PROVE  GenOk(prog, stack', blocks', cur', val')
<1>1. Gen("switch", "cases")
  BY DEF GenSwitchCases
<1>2. PICK f : f = Top
  OBVIOUS
<1>3. /\ stack # <<>> /\ f = Last(stack) /\ f.stage = "cases" /\ f.stmt.op = "switch" /\ IsFrame(f)
      /\ Blks(blocks) /\ cur \in 1..Len(blocks) /\ Len(blocks) \in Nat /\ IsNode(f.stmt)
      /\ f.path \in Paths(prog) /\ f.stmt = NodeAt(prog, f.path)
  BY <1>1, <1>2, TopIs
<1>4. PICK c : c = Len(f.stmt.vals)
  OBVIOUS
<1>5. c \in Nat /\ DOMAIN f.stmt.vals = 1..c
  BY <1>3, <1>4, PathsNode
<1>6. Promised(f) = {} /\ Left(f) = 2..Len(f.stmt.kids)
  BY <1>3 DEF Promised, Left
<1>7. PICK casus : casus = [i \in DOMAIN Node.vals |-> Block("elige.casus")]
  OBVIOUS
<1>8. IsSeq(casus) /\ Len(casus) = c
  <2>1. casus = [i \in 1..c |-> casus[i]]
    BY <1>2, <1>5, <1>7 DEF Node
  <2> QED
    BY <1>5, <2>1, FunctionIsSeq
<1>9. PICK two : two = <<Block("elige.aliter"), Block("elige.exitus")>>
  OBVIOUS
<1>10. IsSeq(two) /\ Len(two) = 2
  BY <1>9, TupleIsSeq
<1>11. PICK names : names = two \o casus
  OBVIOUS
<1>12. IsSeq(names) /\ Len(names) = 2 + c
  <2>1. IsSeq(names) /\ Len(names) = Len(two) + Len(casus)
    BY <1>8, <1>10, <1>11, ConcatIsSeq
  <2> QED
    BY <1>8, <1>10, <2>1
<1>13. PICK n : n = Len(blocks)
  OBVIOUS
<1>14. PICK made : made = Create(blocks, names)
  OBVIOUS
<1>15. Blks(made) /\ Grown(blocks, made) /\ Len(made) = n + 2 + c /\ n \in Nat
  <2>1. Blks(made) /\ Grown(blocks, made) /\ Len(made) = Len(blocks) + Len(names)
    BY <1>3, <1>12, <1>14, CreateIs, Zenon
  <2> QED
    BY <1>3, <1>5, <1>12, <1>13, <2>1
<1>16. PICK cs : \E default, vals, targets : cs = Switch(made, cur, val, default, vals, targets)
                                             /\ blocks' = cs /\ cur' = cur
  <2>1. PICK vals, targets : Build(Switch(made, cur, val, N + 1, vals, targets), cur)
    BY <1>7, <1>9, <1>11, <1>14, Zenon DEF GenSwitchCases
  <2> QED
    BY <2>1 DEF Build
<1>17. blocks' = cs /\ cur' = cur
  BY <1>16
<1>18. Blks(cs) /\ Grown(blocks, cs) /\ Len(cs) = n + 2 + c /\ Ends(cs[cur])
  <2>1. cur \in 1..Len(made)
    BY <1>3, <1>5, <1>13, <1>15
  <2>2. Ended(made, cur, cs)
    BY <1>15, <1>16, <2>1, SwitchEnds
  <2> QED
    BY <1>3, <1>15, <2>2, EndedAfter
<1>19. PICK m : m = <<n + 1, n + 2, 0>>
  OBVIOUS
<1>20. m[1] = n + 1 /\ m[2] = n + 2 /\ m[3] = 0 /\ m = <<m[1], m[2], m[3]>>
  BY <1>19
<1>21. PICK o : o = <<loopCond, loopExit>>
  OBVIOUS
<1>22. PICK g : g = [f EXCEPT !.stage = "case", !.made = m, !.outer = o]
  OBVIOUS
<1>23. IsFrame(g) /\ g.path = f.path /\ g.stmt = f.stmt /\ g.stage = "case" /\ g.made = m
  BY <1>3, <1>22, FrameOuter DEF IsFrame
<1>24. stack' = Append(Front(stack), g)
  BY <1>2, <1>13, <1>19, <1>21, <1>22 DEF GenSwitchCases, LoopFrame, N
<1>25. Promised(g) = {n + 1, n + 2} \cup {n + 2 + j : j \in (0 + 1)..c}
  BY <1>4, <1>20, <1>23 DEF Promised
<1>26. Left(g) = (0 + 2)..Len(f.stmt.kids)
  BY <1>20, <1>23 DEF Left
<1>27. MadeOk(cs, g)
  <2>1. Promised(g) \subseteq 1..Len(cs)
    BY <1>5, <1>15, <1>18, <1>25
  <2>2. g.made[3] \in 0..Len(g.stmt.vals)
    BY <1>4, <1>5, <1>20, <1>23
  <2> QED
    BY <1>3, <1>20, <1>23, <2>1, <2>2 DEF MadeOk
<1>28. Moves(blocks, cur, cs, cur)
  BY <1>3, <1>5, <1>13, <1>15, <1>18 DEF Moves
<1>29. \A b \in 1..Len(cs) : b \in 1..Len(blocks) \/ b \in Promised(g)
  <2>1. SUFFICES ASSUME NEW b \in (n + 1)..(n + 2 + c) PROVE b \in Promised(g)
    BY <1>5, <1>13, <1>15, <1>18
  <2>2. CASE b \in {n + 1, n + 2}
    BY <1>25, <2>2
  <2>3. CASE b \notin {n + 1, n + 2}
    <3>1. PICK j : j = b - (n + 2)
      OBVIOUS
    <3>2. j \in (0 + 1)..c /\ b = n + 2 + j
      BY <1>5, <1>15, <2>1, <2>3, <3>1
    <3> QED
      BY <1>25, <3>2
  <2> QED
    BY <2>2, <2>3
<1>30. AtTop(cs, cur, val', g)
  BY <1>18, <1>23 DEF AtTop
<1>31. Left(f) \subseteq Left(g)
  BY <1>6, <1>26
<1>32. StayOk(blocks, cur, f, g, cs, cur, val')
  BY <1>3, <1>6, <1>23, <1>27, <1>28, <1>29, <1>30, <1>31 DEF StayOk
<1> QED
  BY <1>3, <1>17, <1>24, <1>32, StayStep

\* However the case before ended, its block has ended.
LEMMA CasesClosedEnded ==
  ASSUME IsBody(prog), GenOk(prog, stack, blocks, cur, val), Gen("switch", "case")
  PROVE  Ended(blocks, cur, CasesClosed)
<1>1. PICK f : f = Top
  OBVIOUS
<1>2. /\ f.stage = "case" /\ Blks(blocks) /\ cur \in 1..Len(blocks) /\ AtTop(blocks, cur, val, f)
  BY <1>1, TopIs
<1>3. CASE Made[3] = 0
  <2>1. CasesClosed = blocks
    BY <1>3 DEF CasesClosed
  <2>2. Ends(blocks[cur])
    BY <1>1, <1>2, <1>3 DEF AtTop, Made
  <2> QED
    BY <1>2, <2>1, <2>2, GrownSame DEF Ended
<1>4. CASE Made[3] # 0
  <2>1. CasesClosed = Jmp(blocks, cur, Made[2])
    BY <1>4 DEF CasesClosed, Close
  <2> QED
    BY <1>2, <2>1, JmpEnds
<1> QED
  BY <1>3, <1>4

LEMMA SwitchCaseKeeps ==
  ASSUME IsBody(prog), GenOk(prog, stack, blocks, cur, val), GenSwitchCase
  PROVE  GenOk(prog, stack', blocks', cur', val')
<1>1. Gen("switch", "case") /\ Made[3] < Len(Node.vals)
  BY DEF GenSwitchCase
<1>2. PICK f : f = Top
  OBVIOUS
<1>3. /\ stack # <<>> /\ f = Last(stack) /\ f.stage = "case" /\ f.stmt.op = "switch" /\ IsFrame(f)
      /\ Blks(blocks) /\ cur \in 1..Len(blocks) /\ Len(blocks) \in Nat /\ IsNode(f.stmt)
      /\ MadeOk(blocks, f) /\ Len(f.stmt.kids) \in Nat /\ Len(f.stmt.vals) \in Nat
  BY <1>1, <1>2, TopIs
<1>4. PICK c : c = Len(f.stmt.vals)
  OBVIOUS
<1>5. PICK a : a = f.made[1]
  OBVIOUS
<1>6. PICK e : e = f.made[2]
  OBVIOUS
<1>7. PICK i : i = f.made[3]
  OBVIOUS
<1>8. f.made = <<a, e, i>> /\ i \in 0..c /\ i < c /\ c \in Nat
  <2>1. f.made = <<a, e, i>> /\ i \in 0..c
    BY <1>3, <1>4, <1>5, <1>6, <1>7 DEF MadeOk
  <2>2. i < c /\ c \in Nat
    BY <1>1, <1>2, <1>3, <1>4, <1>7 DEF Made, Node
  <2> QED
    BY <2>1, <2>2
<1>9. Promised(f) = {a, e} \cup {e + j : j \in (i + 1)..c} /\ Left(f) = (i + 2)..Len(f.stmt.kids)
  BY <1>3, <1>4, <1>5, <1>6, <1>7 DEF Promised, Left
<1>10. Promised(f) \subseteq 1..Len(blocks)
  BY <1>3 DEF MadeOk
<1>11. a \in 1..Len(blocks) /\ e \in 1..Len(blocks) /\ e \in Nat
  BY <1>3, <1>9, <1>10
<1>12. PICK cs : cs = CasesClosed
  OBVIOUS
<1>13. Ended(blocks, cur, cs)
  BY <1>1, <1>12, CasesClosedEnded
<1>14. PICK d : d = e + i + 1
  OBVIOUS
<1>15. d \in Promised(f) /\ d = e + (i + 1)
  <2>1. i + 1 \in (i + 1)..c /\ d = e + (i + 1)
    BY <1>8, <1>11, <1>14
  <2> QED
    BY <1>9, <2>1
<1>16. Len(cs) = Len(blocks) /\ Moves(blocks, cur, cs, d)
  BY <1>10, <1>13, <1>15, EndedMoves DEF Ended
<1>17. PICK k : k = i + 2
  OBVIOUS
<1>18. k \in 1..Len(f.stmt.kids)
  <2>1. Len(f.stmt.kids) - c \in {1, 2}
    BY <1>3, <1>4, Sizes
  <2>2. PICK z : z = Len(f.stmt.kids)
    OBVIOUS
  <2>3. z \in Nat /\ c \in Nat /\ i \in Nat
    BY <1>3, <1>8, <2>2
  <2>4. z - c = 1 \/ z - c = 2
    BY <2>1, <2>2
  <2>5. CASE z - c = 1
    <3>1. z = c + 1
      BY <2>3, <2>5
    <3> QED
      BY <1>8, <1>17, <2>2, <2>3, <3>1
  <2>6. CASE z - c = 2
    <3>1. z = c + 2
      BY <2>3, <2>6
    <3> QED
      BY <1>8, <1>17, <2>2, <2>3, <3>1
  <2> QED
    BY <2>4, <2>5, <2>6
<1>19. PICK m : m = <<a, e, i + 1>>
  OBVIOUS
<1>20. m[1] = a /\ m[2] = e /\ m[3] = i + 1 /\ m = <<m[1], m[2], m[3]>>
  BY <1>19
<1>21. [Made EXCEPT ![3] = @ + 1] = m
  BY <1>2, <1>8, <1>19 DEF Made
<1>22. PICK g : g = [f EXCEPT !.stage = "case", !.made = m]
  OBVIOUS
<1>23. IsFrame(g) /\ g.path = f.path /\ g.stmt = f.stmt /\ g.stage = "case" /\ g.made = m
  BY <1>3, <1>22, FrameMade DEF IsFrame
<1>24. /\ stack' = Append(Append(Front(stack), g), Activation(Kid(f.path, k), f.stmt.kids[k]))
       /\ blocks' = cs /\ cur' = d
  <2>1. Made[2] + Made[3] + 1 = d /\ Made[3] + 2 = k
    BY <1>2, <1>6, <1>7, <1>14, <1>17 DEF Made
  <2> QED
    BY <1>2, <1>12, <1>21, <1>22, <2>1 DEF GenSwitchCase, Build, CallWith, CallAs, Node
<1>25. /\ Promised(g) = {a, e} \cup {e + j : j \in (i + 1 + 1)..c}
       /\ Left(g) = (i + 1 + 2)..Len(f.stmt.kids)
  BY <1>4, <1>20, <1>23 DEF Promised, Left
<1>26. Promised(g) \subseteq Promised(f) /\ \A b \in Promised(f) : b \in Promised(g) \/ b = d
  <2>1. \A j \in (i + 1)..c : j = i + 1 \/ j \in (i + 1 + 1)..c
    BY <1>8
  <2>2. \A j \in (i + 1 + 1)..c : j \in (i + 1)..c
    BY <1>8
  <2>3. Promised(g) \subseteq Promised(f)
    BY <1>9, <1>25, <2>2
  <2>4. ASSUME NEW b \in Promised(f) PROVE b \in Promised(g) \/ b = d
    <3>1. CASE b \in {a, e}
      BY <1>25, <3>1
    <3>2. CASE b \notin {a, e}
      <4>1. PICK j \in (i + 1)..c : b = e + j
        BY <1>9, <2>4, <3>2
      <4> QED
        BY <1>15, <1>25, <2>1, <4>1
    <3> QED
      BY <3>1, <3>2
  <2> QED
    BY <2>3, <2>4
<1>27. MadeOk(cs, g)
  <2>1. g.made[3] \in 0..Len(g.stmt.vals)
    BY <1>4, <1>8, <1>20, <1>23
  <2>2. Promised(g) \subseteq 1..Len(cs)
    BY <1>10, <1>16, <1>26
  <2> QED
    BY <1>3, <1>20, <1>23, <2>1, <2>2 DEF MadeOk
<1>28. ~RuledOut(f.stmt, k)
  BY <1>3 DEF RuledOut
<1>29. \A j \in Left(f) : j \in Left(g) \/ j = k
  BY <1>3, <1>8, <1>9, <1>17, <1>25
<1>30. g.made[3] # 0
  BY <1>8, <1>20, <1>23
<1>31. CallOk(blocks, cur, f, g, k, cs, d)
  BY <1>3, <1>16, <1>18, <1>23, <1>26, <1>27, <1>28, <1>29, <1>30 DEF CallOk
<1> QED
  BY <1>3, <1>24, <1>31, CallStep

LEMMA SwitchDefaultKeeps ==
  ASSUME IsBody(prog), GenOk(prog, stack, blocks, cur, val), GenSwitchDefault
  PROVE  GenOk(prog, stack', blocks', cur', val')
<1>1. Gen("switch", "case") /\ Made[3] = Len(Node.vals) /\ HasDefault(Node)
  BY DEF GenSwitchDefault
<1>2. PICK f : f = Top
  OBVIOUS
<1>3. /\ stack # <<>> /\ f = Last(stack) /\ f.stage = "case" /\ f.stmt.op = "switch" /\ IsFrame(f)
      /\ Blks(blocks) /\ cur \in 1..Len(blocks) /\ Len(blocks) \in Nat
      /\ MadeOk(blocks, f) /\ Len(f.stmt.vals) \in Nat
  BY <1>1, <1>2, TopIs
<1>4. PICK c : c = Len(f.stmt.vals)
  OBVIOUS
<1>5. PICK d : d = f.made[1]
  OBVIOUS
<1>6. PICK e : e = f.made[2]
  OBVIOUS
<1>7. f.made[3] = c /\ c \in Nat /\ Len(f.stmt.kids) = c + 2
  BY <1>1, <1>2, <1>3, <1>4 DEF Made, Node, HasDefault
<1>8. Promised(f) = {d, e} /\ Left(f) = (c + 2)..(c + 2)
  <2>1. /\ Promised(f) = {d, e} \cup {e + j : j \in (c + 1)..c}
        /\ Left(f) = (c + 2)..(c + 2)
    BY <1>3, <1>4, <1>5, <1>6, <1>7 DEF Promised, Left
  <2>2. (c + 1)..c = {}
    BY <1>7
  <2> QED
    BY <2>1, <2>2
<1>9. d \in 1..Len(blocks) /\ e \in 1..Len(blocks)
  BY <1>3, <1>8 DEF MadeOk
<1>10. PICK cs : cs = CasesClosed
  OBVIOUS
<1>11. Ended(blocks, cur, cs)
  BY <1>1, <1>10, CasesClosedEnded
<1>12. Len(cs) = Len(blocks) /\ Moves(blocks, cur, cs, d)
  BY <1>9, <1>11, EndedMoves DEF Ended
<1>13. PICK k : k = Len(f.stmt.kids)
  OBVIOUS
<1>14. k \in 1..Len(f.stmt.kids) /\ \A j \in Left(f) : j = k
  BY <1>7, <1>8, <1>13
<1>15. PICK g : g = [f EXCEPT !.stage = "default"]
  OBVIOUS
<1>16. IsFrame(g) /\ g.path = f.path /\ g.stmt = f.stmt /\ g.stage = "default" /\ g.made = f.made
  BY <1>3, <1>15, FrameStage DEF IsFrame
<1>17. /\ stack' = Append(Append(Front(stack), g), Activation(Kid(f.path, k), f.stmt.kids[k]))
       /\ blocks' = cs /\ cur' = d
  BY <1>2, <1>5, <1>10, <1>13, <1>15 DEF GenSwitchDefault, Build, Call, CallAs, Made, Node
<1>18. Promised(g) = {e}
  BY <1>6, <1>16 DEF Promised
<1>19. MadeOk(cs, g)
  BY <1>3, <1>9, <1>12, <1>16, <1>18 DEF MadeOk
<1>20. ~RuledOut(f.stmt, k)
  BY <1>3 DEF RuledOut
<1>21. CallOk(blocks, cur, f, g, k, cs, d)
  BY <1>3, <1>8, <1>12, <1>14, <1>16, <1>18, <1>19, <1>20 DEF CallOk
<1> QED
  BY <1>3, <1>17, <1>21, CallStep

LEMMA SwitchExitKeeps ==
  ASSUME IsBody(prog), GenOk(prog, stack, blocks, cur, val), GenSwitchExit
  PROVE  GenOk(prog, stack', blocks', cur', val')
<1>1. CASE /\ Gen("switch", "case") /\ Made[3] = Len(Node.vals)
           /\ ~HasDefault(Node)
           /\ LoopEnd(Close(CasesClosed, Made[1], Made[2]), Made[2])
  <2>2. PICK f : f = Top
    OBVIOUS
  <2>3. /\ stack # <<>> /\ f = Last(stack) /\ f.stage = "case" /\ f.stmt.op = "switch"
        /\ Blks(blocks) /\ cur \in 1..Len(blocks) /\ MadeOk(blocks, f)
        /\ Len(f.stmt.vals) \in Nat /\ Len(f.stmt.kids) \in Nat
        /\ IsNode(f.stmt) /\ FrameOk(prog, blocks, f)
    BY <1>1, <2>2, TopIs
  <2>4. PICK c : c = Len(f.stmt.vals)
    OBVIOUS
  <2>5. PICK a : a = f.made[1]
    OBVIOUS
  <2>6. PICK d : d = f.made[2]
    OBVIOUS
  <2>7. f.made[3] = c /\ c \in Nat /\ Len(f.stmt.kids) = c + 1
    <3>1. Len(f.stmt.kids) - c \in {1, 2}
      BY <2>3, <2>4, Sizes
    <3>2. Len(f.stmt.kids) # c + 2
      BY <1>1, <2>2, <2>4 DEF Node, HasDefault
    <3> QED
      BY <1>1, <2>2, <2>3, <2>4, <3>1, <3>2 DEF Made, Node
  <2>8. Promised(f) = {a, d} /\ Left(f) = {}
    <3>1. /\ Promised(f) = {a, d} \cup {d + j : j \in (c + 1)..c}
          /\ Left(f) = (c + 2)..(c + 1)
      BY <2>3, <2>4, <2>5, <2>6, <2>7 DEF Promised, Left
    <3>2. (c + 1)..c = {} /\ (c + 2)..(c + 1) = {}
      BY <2>7
    <3> QED
      BY <3>1, <3>2
  <2>9. a \in 1..Len(blocks) /\ d \in 1..Len(blocks)
    BY <2>3, <2>8 DEF MadeOk
  <2>10. PICK closed : closed = CasesClosed
    OBVIOUS
  <2>11. Blks(closed) /\ Grown(blocks, closed) /\ Len(closed) = Len(blocks) /\ Ends(closed[cur])
    BY <1>1, <2>10, CasesClosedEnded DEF Ended
  <2>12. PICK cs : cs = Jmp(closed, a, d)
    OBVIOUS
  <2>13. Ended(closed, a, cs)
    BY <2>9, <2>11, <2>12, JmpEnds
  <2>14. Blks(cs) /\ Grown(blocks, cs) /\ Len(cs) = Len(blocks) /\ Ends(cs[a])
    BY <2>3, <2>11, <2>13, EndedAfter
  <2>15. Ends(cs[cur])
    BY <2>3, <2>11, <2>13 DEF Grown, Ended
  <2>16. Moves(blocks, cur, cs, d)
    BY <2>9, <2>14, <2>15 DEF Moves
  <2>17. stack' = Front(stack) /\ blocks' = cs /\ cur' = d
    <3>1. LoopEnd(cs, d)
      BY <1>1, <2>2, <2>5, <2>6, <2>10, <2>12 DEF Made, Close
    <3> QED
      BY <3>1, LoopEndIs
  <2>18. ValueOf(f.stmt, val')
    BY <2>3 DEF ValueOf
  <2>19. PlainReturn(blocks, cur, f, cs, d, val')
    BY <2>3, <2>8, <2>14, <2>16, <2>18 DEF PlainReturn
  <2> QED
    BY <2>3, <2>17, <2>19, PlainReturnStep
<1>2. CASE /\ Gen("switch", "default")
           /\ LoopEnd(Close(blocks, cur, Made[2]), Made[2])
  <2>1. PICK f : f = Top
    OBVIOUS
  <2>2. f.stage = "default" /\ f.stmt.op = "switch" /\ Blks(blocks) /\ cur \in 1..Len(blocks)
    BY <1>2, <2>1, TopIs
  <2>3. PICK d : d = f.made[2]
    OBVIOUS
  <2>4. Promised(f) = {d} /\ Left(f) = {}
    BY <2>2, <2>3 DEF Promised, Left
  <2>5. PICK cs : cs = Jmp(blocks, cur, d)
    OBVIOUS
  <2>6. Ended(blocks, cur, cs)
    BY <2>2, <2>5, JmpEnds
  <2>7. stack' = Front(stack) /\ blocks' = cs /\ cur' = d
    <3>1. LoopEnd(cs, d)
      BY <1>2, <2>1, <2>3, <2>5 DEF Made, Close
    <3> QED
      BY <3>1, LoopEndIs
  <2> QED
    BY <1>2, <2>1, <2>4, <2>6, <2>7, ExitStep
<1> QED
  BY <1>1, <1>2 DEF GenSwitchExit

LEMMA GenStatementKeeps ==
  ASSUME IsBody(prog), GenOk(prog, stack, blocks, cur, val), GenStatement
  PROVE  GenOk(prog, stack', blocks', cur', val')
<1>1. CASE GenBlock \/ GenReturn \/ GenTrap
  BY <1>1, BlockKeeps, ReturnKeeps, Zenon
<1>2. CASE GenIf \/ GenSelect \/ GenIfKnown \/ GenIfBranches \/ GenIfThen \/ GenIfElse \/ GenIfDone
  BY <1>2, IfKeeps, SelectKeeps, IfKnownKeeps, IfBranchesKeeps, IfThenKeeps, IfElseKeeps,
     IfDoneKeeps, Zenon
<1>3. CASE GenWhile \/ GenWhileBody \/ GenWhileTest
  BY <1>3, WhileKeeps, WhileBodyKeeps, WhileTestKeeps, Zenon
<1>4. CASE GenFor \/ GenForBlocks \/ GenForBody \/ GenForIncrement \/ GenForTest
  BY <1>4, ForKeeps, ForBlocksKeeps, ForBodyKeeps, ForIncrementKeeps, ForTestKeeps, Zenon
<1>5. CASE GenBreak \/ GenContinue \/ GenGoto \/ GenLabel
  BY <1>5, BreakKeeps, GotoKeeps, LabelKeeps, Zenon
<1>6. CASE GenSwitch \/ GenSwitchCases \/ GenSwitchCase \/ GenSwitchDefault \/ GenSwitchExit
  BY <1>6, SwitchKeeps, SwitchCasesKeeps, SwitchCaseKeeps, SwitchDefaultKeeps, SwitchExitKeeps,
     Zenon
<1> QED
  BY <1>1, <1>2, <1>3, <1>4, <1>5, <1>6, Zenon DEF GenStatement

-----------------------------------------------------------------------------
(* The invariant. *)

\* The generator itself changes neither the function nor the phase.
LEMMA GeneratorRests ==
  ASSUME GenStatement \/ GenExpression
  PROVE  phase = "generate" /\ UNCHANGED <<prog, phase, threading>>
<1>1. CASE GenBlock \/ GenReturn \/ GenTrap
  BY <1>1, Zenon DEF GenBlock, GenReturn, GenTrap, Gen, Rest
<1>2. CASE GenIf \/ GenSelect \/ GenIfKnown \/ GenIfBranches \/ GenIfThen \/ GenIfElse \/ GenIfDone
  BY <1>2, Zenon DEF GenIf, GenSelect, GenIfKnown, GenIfBranches, GenIfThen, GenIfElse, GenIfDone,
     Gen, Rest
<1>3. CASE GenWhile \/ GenWhileBody \/ GenWhileTest
  BY <1>3, Zenon DEF GenWhile, GenWhileBody, GenWhileTest, LoopEnd, Gen, Rest
<1>4. CASE GenFor \/ GenForBlocks \/ GenForBody \/ GenForIncrement \/ GenForTest
  BY <1>4, Zenon DEF GenFor, GenForBlocks, GenForBody, GenForIncrement, GenForTest, LoopEnd, Gen, Rest
<1>5. CASE GenBreak \/ GenContinue \/ GenGoto \/ GenLabel
  BY <1>5, Zenon DEF GenBreak, GenContinue, GenGoto, GenLabel, Gen, Rest
<1>6. CASE GenSwitch \/ GenSwitchCases \/ GenSwitchCase \/ GenSwitchDefault \/ GenSwitchExit
  BY <1>6, Zenon DEF GenSwitch, GenSwitchCases, GenSwitchCase, GenSwitchDefault, GenSwitchExit,
     LoopEnd, Gen, Rest
<1>7. CASE GenExpression
  BY <1>7, Zenon DEF GenExpression, GenEffect, GenConst, GenNothing, GenLogic, GenLogicLeft,
     GenLogicRight, Gen, Rest
<1> QED
  BY <1>1, <1>2, <1>3, <1>4, <1>5, <1>6, <1>7, Zenon DEF GenStatement

LEMMA EmptyIsSeq == IsSeq(<<>>)
<1>1. <<>> = [i \in 1..0 |-> <<>>[i]]
  OBVIOUS
<1>2. Len(<<>>) = 0
  OBVIOUS
<1> QED
  BY <1>1, <1>2 DEF IsSeq

\* Before the first step everything is to come.
LEMMA InitOk ==
  ASSUME NEW t, IsBody(t), NEW v
  PROVE  GenOk(t, <<Activation(<<>>, t)>>, Create(<<>>, <<Block("ingressus")>>), 1, v)
<1>1. PICK g : g = Activation(<<>>, t)
  OBVIOUS
<1>2. /\ IsFrame(g) /\ g.path = <<>> /\ g.stmt = t /\ g.stage = "enter" /\ g.made = <<>>
      /\ Promised(g) = {} /\ Left(g) = 1..Len(t.kids)
  BY <1>1, ActivationIs
<1>3. PICK st : st = <<g>>
  OBVIOUS
<1>4. IsSeq(st) /\ Len(st) = 1 /\ st[1] = g
  BY <1>3, TupleIsSeq
<1>5. PICK names : names = <<Block("ingressus")>>
  OBVIOUS
<1>6. IsSeq(names) /\ Len(names) = 1
  BY <1>5, TupleIsSeq
<1>7. Blks(<<>>)
  BY EmptyIsSeq DEF Blks
<1>8. PICK bs : bs = Create(<<>>, names)
  OBVIOUS
<1>9. Blks(bs) /\ Len(bs) = 1
  BY <1>6, <1>7, <1>8, CreateBuilds
<1>10. <<>> \in Paths(t) /\ NodeAt(t, <<>>) = t
  BY RootIsPath, NodeAtRoot
<1>11. ~Skipped(t, <<>>)
  <2>1. 0..(Len(<<>>) - 1) = {}
    OBVIOUS
  <2> QED
    BY <2>1 DEF Skipped
<1>12. MadeOk(bs, g)
  BY <1>2, EmptyIsSeq DEF MadeOk
<1>13. FrameOk(t, bs, g)
  BY <1>2, <1>10, <1>11, <1>12 DEF FrameOk
<1>14. AtTop(bs, 1, v, g)
  BY <1>2 DEF AtTop
<1>15. StackOk(t, st, bs, 1, v)
  <2>1. \A i \in 1..Len(st) : FrameOk(t, bs, st[i])
    BY <1>4, <1>13
  <2>2. \A i \in 1..(Len(st) - 1) : Linked(st[i], st[i + 1])
    BY <1>4
  <2>3. AtTop(bs, 1, v, st[Len(st)])
    BY <1>4, <1>14
  <2> QED
    BY <1>4, <2>1, <2>2, <2>3 DEF StackOk
<1>16. ASSUME NEW q \in Landings(t) PROVE ToCome(st, q)
  <2>1. q \in Paths(t) /\ IsSeq(q)
    BY PathIsSeq DEF Landings
  <2>2. Awaits(g, q)
    <3>1. CASE Len(q) = 0
      <4>1. q = <<>>
        BY <2>1, <3>1, EmptyIsSeq DEF IsSeq
      <4> QED
        BY <1>2, <4>1 DEF Awaits
    <3>2. CASE Len(q) # 0
      <4>1. Below(<<>>, q)
        BY <2>1, <3>2 DEF Below, Agree, IsSeq
      <4>2. PICK p : p = <<>>
        OBVIOUS
      <4>3. IsSeq(p) /\ Below(p, q) /\ p \in Paths(t) /\ NodeAt(t, p) = t
        BY <1>10, <4>1, <4>2, EmptyIsSeq
      <4>4. q[Len(p) + 1] \in DOMAIN NodeAt(t, p).kids
        BY <2>1, <4>3, PathThrough
      <4>5. DOMAIN t.kids = 1..Len(t.kids)
        BY <4>3, PathsNode
      <4>6. q[Len(g.path) + 1] \in Left(g) /\ Below(g.path, q)
        BY <1>2, <4>2, <4>3, <4>4, <4>5
      <4> QED
        BY <4>6 DEF Awaits
    <3> QED
      BY <3>1, <3>2
  <2> QED
    BY <1>4, <2>2 DEF ToCome
<1>17. Landed(t, st, bs)
  BY <1>16 DEF Landed
<1>18. AllAccounted(t, st, bs, 1)
  BY <1>9 DEF AllAccounted, Accounted
<1>19. GenOk(t, st, bs, 1, v)
  BY <1>9, <1>15, <1>17, <1>18 DEF GenOk
<1> QED
  BY <1>1, <1>3, <1>5, <1>8, <1>19

LEMMA InitEstablishes == ASSUME Init PROVE LowerInv
<1>1. IsBody(prog)
  BY ProgramsAssumption DEF Init
<1>2. GenOk(prog, <<Activation(<<>>, prog)>>, Create(<<>>, <<Block("ingressus")>>), 1, val)
  BY <1>1, InitOk
<1>3. GenOk(prog, stack, blocks, cur, val)
  BY <1>2 DEF Init
<1> QED
  BY <1>3 DEF Init, LowerInv

\* At the end no activation is left, and nothing is to come.
LEMMA FinishOk ==
  ASSUME NEW t, NEW bs, NEW c, NEW v, GenOk(t, <<>>, bs, c, v), NEW x, IsInst(x),
         x.op \in Terminators
  PROVE  LET cs == Emit(bs, c, x)
         IN  Blks(cs) /\ 1 \in 1..Len(cs) /\ AllEnd(t, cs)
<1>1. Blks(bs) /\ c \in 1..Len(bs) /\ AllAccounted(t, <<>>, bs, c)
  BY DEF GenOk
<1>2. PICK cs : cs = Emit(bs, c, x)
  OBVIOUS
<1>3. Blks(cs) /\ Grown(bs, cs) /\ Len(cs) = Len(bs) /\ Ends(cs[c])
  BY <1>1, <1>2, EmitBuilds
<1>4. 1 \in 1..Len(cs)
  BY <1>1, <1>3, BlksIsSeq
<1>5. ASSUME GotosLead(t), NEW b \in 1..Len(cs) PROVE Ends(cs[b])
  <2>1. Accounted(t, <<>>, bs, c, b)
    BY <1>1, <1>3, <1>5 DEF AllAccounted
  <2>2. 1..Len(<<>>) = {}
    OBVIOUS
  <2>3. Ends(bs[b]) \/ b = c
    BY <2>1, <2>2 DEF Accounted, ToCome
  <2> QED
    BY <1>3, <1>5, <2>3 DEF Grown
<1>6. AllEnd(t, cs)
  BY <1>5 DEF AllEnd
<1> QED
  BY <1>2, <1>3, <1>4, <1>6

LEMMA FinishKeeps == ASSUME LowerInv, FinishFunction PROVE LowerInv'
<1>1. GenOk(prog, <<>>, blocks, cur, val) /\ threading.block = 1
  BY DEF LowerInv, FinishFunction
<1>2. PICK x : x = Inst("ret", <<>>, <<>>, <<>>)
  OBVIOUS
<1>3. IsInst(x) /\ x.op = "ret"
  BY <1>2, InstIsInst
<1>4. PICK cs : cs = Emit(blocks, cur, x)
  OBVIOUS
<1>5. Blks(cs) /\ 1 \in 1..Len(cs) /\ AllEnd(prog, cs)
  <2>1. x.op \in Terminators
    BY <1>3 DEF Terminators
  <2> QED
    BY <1>1, <1>3, <1>4, <2>1, FinishOk
<1>6. blocks' = cs
  BY <1>2, <1>4 DEF FinishFunction
<1>7. prog' = prog /\ threading' = threading /\ phase' \in {"run", "sweep"}
  BY DEF FinishFunction
<1>8. Blks(blocks') /\ 1 \in 1..Len(blocks') /\ AllEnd(prog', blocks')
  BY <1>5, <1>6, <1>7
<1>9. prog' \in Programs /\ threading'.block = 1
  BY <1>1, <1>7 DEF LowerInv
<1> QED
  BY <1>7, <1>8, <1>9 DEF LowerInv

-----------------------------------------------------------------------------
(* The passes. *)

LEMMA TailIsSeq ==
  ASSUME NEW s, IsSeq(s), Len(s) > 1
  PROVE  /\ IsSeq(Tail(s)) /\ Len(Tail(s)) = Len(s) - 1 /\ Tail(s) # <<>>
         /\ \A i \in 1..(Len(s) - 1) : Tail(s)[i] = s[i + 1]
         /\ Last(Tail(s)) = Last(s)
<1>1. s \in Seq(ToSet(s)) /\ Len(s) \in Nat
  BY SeqOfItself
<1>2. s # <<>>
  BY <1>1
<1>3. PICK u : u = Tail(s)
  OBVIOUS
<1>4. u \in Seq(ToSet(s)) /\ Len(u) = Len(s) - 1 /\ \A i \in 1..Len(u) : u[i] = s[i + 1]
  BY <1>1, <1>2, <1>3, HeadTailProperties
<1>5. IsSeq(u)
  BY <1>4, SeqIsSeq
<1>6. u # <<>>
  BY <1>1, <1>4
<1>7. Len(s) - 1 \in 1..(Len(s) - 1) /\ Len(s) - 1 + 1 = Len(s)
  BY <1>1
<1>8. Last(u) = Last(s)
  BY <1>4, <1>7 DEF Last
<1> QED
  BY <1>3, <1>4, <1>5, <1>6, <1>8

\* A list of as many blocks, of which those end that did.
Reworked(bs, cs) ==
  /\ IsSeq(cs) /\ Len(cs) = Len(bs)
  /\ \A b \in 1..Len(bs) : IsBlock(cs[b]) /\ (Ends(bs[b]) => Ends(cs[b]))

LEMMA ReworkedAllEnd ==
  ASSUME NEW t, NEW bs, AllEnd(t, bs), Blks(bs), NEW cs, Reworked(bs, cs)
  PROVE  Blks(cs) /\ AllEnd(t, cs)
BY DEF Reworked, AllEnd, Blks

Swept(c) == [c EXCEPT !.insts = Tail(@)]

LEMMA LoadSwept ==
  ASSUME NEW c, IsBlock(c), Unread(c.insts), NEW d, d = Swept(c)
  PROVE  IsBlock(d) /\ (Ends(c) => Ends(d))
<1>1. PICK is : is = c.insts
  OBVIOUS
<1>2. PICK n \in Nat : n = Len(is)
  BY <1>1 DEF IsBlock, IsSeq
<1>3. /\ c = [name |-> c.name, insts |-> is] /\ IsSeq(is)
      /\ \A i \in 1..n : IsInst(is[i]) /\ (i # n => is[i].op \notin Terminators)
  BY <1>1, <1>2 DEF IsBlock
<1>4. is # <<>> /\ is[1].op = "load"
  BY <1>1 DEF Unread
<1>5. PICK js : js = Tail(is)
  OBVIOUS
<1>6. d = [name |-> c.name, insts |-> js] /\ d.name = c.name /\ d.insts = js
  <2>1. d = [name |-> c.name, insts |-> js]
    BY <1>1, <1>3, <1>5 DEF Swept
  <2> QED
    BY <2>1
<1>7. n # 0
  BY <1>2, <1>3, <1>4, SeqOfItself, EmptySeq
<1>8. CASE n = 1
  <2>1. Last(is) = is[1]
    BY <1>2, <1>8 DEF Last
  <2>2. ~Ends(c)
    BY <1>1, <1>4, <2>1 DEF Ends, Terminators
  <2>3. is \in Seq(ToSet(is))
    BY <1>3, SeqOfItself
  <2>4. js \in Seq(ToSet(is)) /\ Len(js) = Len(is) - 1
    BY <1>4, <1>5, <2>3, HeadTailProperties
  <2>5. IsSeq(js)
    BY <2>4, SeqIsSeq
  <2>6. Len(js) = 0
    <3>1. Len(is) = 1
      BY <1>2, <1>8
    <3> QED
      BY <2>4, <3>1
  <2>7. IsBlock(d)
    BY <1>6, <2>5, <2>6 DEF IsBlock
  <2> QED
    BY <2>2, <2>7
<1>9. CASE n > 1
  <2>1. /\ IsSeq(js) /\ Len(js) = n - 1 /\ js # <<>>
        /\ \A i \in 1..(n - 1) : js[i] = is[i + 1]
        /\ Last(js) = Last(is)
    BY <1>2, <1>3, <1>5, <1>9, TailIsSeq
  <2>2. ASSUME NEW i \in 1..(n - 1)
        PROVE  IsInst(js[i]) /\ (i # n - 1 => js[i].op \notin Terminators)
    <3>1. i + 1 \in 1..n /\ (i # n - 1 => i + 1 # n)
      BY <1>9
    <3> QED
      BY <1>3, <2>1, <3>1
  <2>3. IsBlock(d)
    BY <1>6, <2>1, <2>2 DEF IsBlock
  <2>4. Ends(c) => Ends(d)
    BY <1>1, <1>6, <2>1 DEF Ends
  <2> QED
    BY <2>3, <2>4
<1> QED
  BY <1>7, <1>8, <1>9

LEMMA SweepKeeps == ASSUME LowerInv, Sweep PROVE LowerInv'
<1>1. Blks(blocks) /\ 1 \in 1..Len(blocks) /\ AllEnd(prog, blocks) /\ threading.block = 1
  BY DEF LowerInv, Sweep
<1>2. PICK n \in Nat : n = Len(blocks)
  BY <1>1, BlksIsSeq
<1>3. PICK cs : cs = [b \in 1..n |-> IF Unread(blocks[b].insts)
                                     THEN [blocks[b] EXCEPT !.insts = Tail(@)]
                                     ELSE blocks[b]]
  OBVIOUS
<1>4. blocks' = cs
  <2>1. DOMAIN blocks = 1..n
    BY <1>1, <1>2, BlksIsSeq
  <2> QED
    BY <1>3, <2>1 DEF Sweep
<1>5. IsSeq(cs) /\ Len(cs) = n
  <2>1. cs = [b \in 1..n |-> cs[b]]
    BY <1>3
  <2> QED
    BY <2>1, FunctionIsSeq
<1>6. ASSUME NEW b \in 1..n
      PROVE  IsBlock(cs[b]) /\ (Ends(blocks[b]) => Ends(cs[b]))
  <2>1. IsBlock(blocks[b])
    BY <1>1, <1>2 DEF Blks
  <2>2. CASE Unread(blocks[b].insts)
    <3>1. cs[b] = Swept(blocks[b])
      BY <1>3, <2>2 DEF Swept
    <3> QED
      BY <2>1, <2>2, <3>1, LoadSwept
  <2>3. CASE ~Unread(blocks[b].insts)
    <3>1. cs[b] = blocks[b]
      BY <1>3, <2>3
    <3> QED
      BY <2>1, <3>1
  <2> QED
    BY <2>2, <2>3
<1>7. Reworked(blocks, cs)
  BY <1>2, <1>5, <1>6 DEF Reworked
<1>8. Blks(cs) /\ AllEnd(prog, cs)
  BY <1>1, <1>7, ReworkedAllEnd
<1>9. prog' = prog /\ threading' = threading /\ phase' = "thread"
  BY DEF Sweep
<1>10. Blks(blocks') /\ 1 \in 1..Len(blocks') /\ AllEnd(prog', blocks')
  BY <1>1, <1>2, <1>4, <1>5, <1>8, <1>9
<1>11. prog' \in Programs /\ threading'.block \in 1..Len(blocks')
  BY <1>1, <1>9, <1>10 DEF LowerInv
<1> QED
  BY <1>9, <1>10, <1>11 DEF LowerInv

\* Threading renames blocks in jumps; the opcodes stay.
LEMMA ThreadedIs ==
  ASSUME NEW b, IsBlock(blocks[b]), NEW d, d = [blocks[b] EXCEPT !.insts = Threaded(b)]
  PROVE  IsBlock(d) /\ (Ends(blocks[b]) => Ends(d))
<1>1. PICK is : is = blocks[b].insts
  OBVIOUS
<1>2. PICK n \in Nat : n = Len(is)
  BY <1>1 DEF IsBlock, IsSeq
<1>3. /\ blocks[b] = [name |-> blocks[b].name, insts |-> is] /\ IsSeq(is) /\ DOMAIN is = 1..n
      /\ \A i \in 1..n : IsInst(is[i]) /\ (i # n => is[i].op \notin Terminators)
  BY <1>1, <1>2, SeqOfItself DEF IsBlock
<1>4. PICK js : js = Threaded(b)
  OBVIOUS
<1>5. DOMAIN js = 1..n /\ js = [i \in 1..n |-> js[i]]
  BY <1>1, <1>3, <1>4 DEF Threaded
<1>6. IsSeq(js) /\ Len(js) = n
  BY <1>5, FunctionIsSeq
<1>7. ASSUME NEW i \in 1..n PROVE IsInst(js[i]) /\ js[i].op = is[i].op
  <2>1. PICK x : x = is[i]
    OBVIOUS
  <2>2. IsInst(x)
    BY <1>3, <2>1
  <2>3. CASE x.op \in {"jmp", "br", "switch"}
    <3>1. PICK to : to = [j \in DOMAIN x.to |-> Past(b, x.to[j])]
      OBVIOUS
    <3>2. js[i] = [x EXCEPT !.to = to]
      BY <1>1, <1>3, <1>4, <2>1, <2>3, <3>1 DEF Threaded
    <3>3. js[i] = [op |-> x.op, p |-> x.p, q |-> x.q, to |-> to, vals |-> x.vals]
      BY <2>2, <3>2 DEF IsInst
    <3> QED
      BY <2>1, <3>3 DEF IsInst
  <2>4. CASE x.op \notin {"jmp", "br", "switch"}
    <3>1. js[i] = x
      BY <1>1, <1>3, <1>4, <2>1, <2>4 DEF Threaded
    <3> QED
      BY <2>1, <2>2, <3>1
  <2> QED
    BY <2>3, <2>4
<1>8. d = [name |-> blocks[b].name, insts |-> js]
  BY <1>1, <1>3, <1>4
<1>9. d.name = blocks[b].name /\ d.insts = js
  BY <1>8
<1>10. IsBlock(d)
  BY <1>3, <1>6, <1>7, <1>8, <1>9 DEF IsBlock
<1>11. ASSUME Ends(blocks[b]) PROVE Ends(d)
  <2>1. is # <<>> /\ is[n].op \in Terminators
    BY <1>1, <1>2, <1>11 DEF Ends, Last
  <2>2. n # 0
    BY <1>2, <1>3, <2>1, SeqOfItself, EmptySeq
  <2>3. n \in 1..n
    BY <2>2
  <2>4. js # <<>> /\ Last(js) = js[n]
    BY <1>6, <2>2 DEF Last
  <2> QED
    BY <1>7, <1>9, <2>1, <2>3, <2>4 DEF Ends
<1> QED
  BY <1>10, <1>11

LEMMA ThreadJumpsKeeps == ASSUME LowerInv, ThreadJumps PROVE LowerInv'
<1>1. /\ Blks(blocks) /\ 1 \in 1..Len(blocks) /\ AllEnd(prog, blocks)
      /\ threading.block \in 1..Len(blocks)
  BY DEF LowerInv, ThreadJumps
<1>2. PICK n \in Nat : n = Len(blocks)
  BY <1>1, BlksIsSeq
<1>3. PICK b \in 1..n : b = threading.block
  BY <1>1, <1>2
<1>4. PICK d : d = [blocks[b] EXCEPT !.insts = Threaded(b)]
  OBVIOUS
<1>5. PICK cs : cs = [i \in 1..n |-> IF i = b THEN d ELSE blocks[i]]
  OBVIOUS
<1>6. blocks' = cs
  <2>1. DOMAIN blocks = 1..n /\ blocks = [i \in 1..n |-> blocks[i]]
    BY <1>1, <1>2, BlksIsSeq
  <2>2. blocks' = [blocks EXCEPT ![b].insts = Threaded(b)]
    BY <1>3 DEF ThreadJumps
  <2> QED
    BY <1>4, <1>5, <2>1, <2>2
<1>7. IsSeq(cs) /\ Len(cs) = n
  <2>1. cs = [i \in 1..n |-> cs[i]]
    BY <1>5
  <2> QED
    BY <2>1, FunctionIsSeq
<1>8. \A i \in 1..n : IsBlock(blocks[i])
  BY <1>1, <1>2 DEF Blks
<1>9. IsBlock(d) /\ (Ends(blocks[b]) => Ends(d))
  BY <1>4, <1>8, ThreadedIs
<1>10. Reworked(blocks, cs)
  BY <1>2, <1>5, <1>7, <1>8, <1>9 DEF Reworked
<1>11. Blks(cs) /\ AllEnd(prog, cs)
  BY <1>1, <1>10, ReworkedAllEnd
<1>12. prog' = prog /\ phase' \in {"run", "thread"}
  BY DEF ThreadJumps
<1>13. Blks(blocks') /\ 1 \in 1..Len(blocks') /\ AllEnd(prog', blocks')
  BY <1>1, <1>2, <1>6, <1>7, <1>11, <1>12
<1>14. threading'.block = IF b = n THEN 1 ELSE b + 1
  BY <1>2, <1>3 DEF ThreadJumps
<1>15. threading'.block \in 1..Len(blocks')
  BY <1>2, <1>6, <1>7, <1>13, <1>14
<1>16. prog' \in Programs
  BY <1>12 DEF LowerInv
<1> QED
  BY <1>12, <1>13, <1>15, <1>16 DEF LowerInv

LEMMA ExecuteKeeps == ASSUME LowerInv, Execute PROVE LowerInv'
<1>1. phase = "run"
  BY DEF Execute
<1>2. blocks' = blocks /\ prog' = prog
  BY DEF Execute, generating
<1>3. phase' \in {"run", "returned", "trapped"}
  <2>1. PICK op : op = InstAt(Settled(machine)).op
    OBVIOUS
  <2>2. CASE op = "ret"
    BY <2>1, <2>2, Zenon DEF Execute
  <2>3. CASE op = "trap" /\ op # "ret"
    BY <2>1, <2>3, Zenon DEF Execute
  <2>4. CASE op \notin {"ret", "trap"}
    <3>1. phase' = phase
      BY <2>1, <2>4, Zenon DEF Execute
    <3> QED
      BY <1>1, <3>1
  <2> QED
    BY <2>2, <2>3, <2>4
<1>4. Blks(blocks) /\ 1 \in 1..Len(blocks) /\ AllEnd(prog, blocks) /\ prog \in Programs
  BY <1>1 DEF LowerInv
<1>5. Blks(blocks') /\ 1 \in 1..Len(blocks') /\ AllEnd(prog', blocks') /\ prog' \in Programs
  BY <1>2, <1>4
<1> QED
  BY <1>3, <1>5 DEF LowerInv

LEMMA GenerationKeeps == ASSUME LowerInv, GenStatement \/ GenExpression PROVE LowerInv'
<1>1. phase = "generate" /\ prog' = prog /\ phase' = phase /\ threading' = threading
  BY GeneratorRests
<1>2. GenOk(prog, stack, blocks, cur, val) /\ prog \in Programs /\ threading.block = 1
  BY <1>1 DEF LowerInv
<1>3. IsBody(prog)
  BY <1>2, ProgramsAssumption
<1>4. GenOk(prog, stack', blocks', cur', val')
  BY <1>2, <1>3, GenStatementKeeps, GenExpressionKeeps
<1>5. GenOk(prog', stack', blocks', cur', val') /\ prog' \in Programs /\ threading'.block = 1
  BY <1>1, <1>2, <1>4
<1> QED
  BY <1>1, <1>5 DEF LowerInv

-----------------------------------------------------------------------------
(* The theorems. *)

\* LowerInv is inductive: the activations of gen_statement know between them every block
\* that has no terminator yet, and the generator comes back to each of them.
THEOREM LowerInductive == Spec => []LowerInv
<1>1. Init => LowerInv
  BY InitEstablishes
<1>2. ASSUME LowerInv, [Next]_vars PROVE LowerInv'
  <2>1. CASE GenStatement \/ GenExpression
    BY <1>2, <2>1, GenerationKeeps
  <2>2. CASE FinishFunction
    BY <1>2, <2>2, FinishKeeps
  <2>3. CASE Sweep
    BY <1>2, <2>3, SweepKeeps
  <2>4. CASE ThreadJumps
    BY <1>2, <2>4, ThreadJumpsKeeps
  <2>5. CASE Execute
    BY <1>2, <2>5, ExecuteKeeps
  <2>6. CASE UNCHANGED vars
    <3>1. UNCHANGED <<prog, phase, stack, blocks, cur, val, threading>>
      BY <2>6 DEF vars, generating
    <3> QED
      BY <1>2, <3>1 DEF LowerInv
  <2> QED
    BY <1>2, <2>1, <2>2, <2>3, <2>4, <2>5, <2>6 DEF Next
<1> QED
  BY <1>1, <1>2, PTL DEF Spec

\* Nothing stands behind a terminator: whatever follows a break, goto or return in the
\* source, and however often the end of a statement asks for another jump, create_inst
\* drops it (ir_builder.c:212), and neither the sweep nor jump threading brings it back.
NothingFollows ==
    \A b \in DOMAIN blocks : \A i \in DOMAIN blocks[b].insts :
        i # Len(blocks[b].insts) => blocks[b].insts[i].op \notin Terminators

LEMMA InvNothingFollows == LowerInv => NothingFollows
<1>1. SUFFICES ASSUME LowerInv PROVE NothingFollows
  OBVIOUS
<1>2. Blks(blocks)
  BY <1>1 DEF LowerInv, GenOk
<1>3. DOMAIN blocks = 1..Len(blocks)
  BY <1>2, BlksIsSeq
<1>4. ASSUME NEW b \in 1..Len(blocks), NEW i \in DOMAIN blocks[b].insts, i # Len(blocks[b].insts)
      PROVE  blocks[b].insts[i].op \notin Terminators
  <2>1. IsBlock(blocks[b])
    BY <1>2 DEF Blks
  <2>2. DOMAIN blocks[b].insts = 1..Len(blocks[b].insts)
    BY <2>1, SeqOfItself DEF IsBlock
  <2> QED
    BY <1>4, <2>1, <2>2 DEF IsBlock
<1> QED
  BY <1>3, <1>4 DEF NothingFollows

LEMMA InvBlocksEndOnce == LowerInv /\ GotosLead(prog) => BlocksEndOnce
<1>1. SUFFICES ASSUME LowerInv, GotosLead(prog) PROVE BlocksEndOnce
  OBVIOUS
<1>2. NothingFollows
  BY <1>1, InvNothingFollows
<1>3. ASSUME phase # "generate", NEW b \in DOMAIN blocks PROVE Ends(blocks[b])
  <2>1. Blks(blocks) /\ AllEnd(prog, blocks)
    BY <1>1, <1>3 DEF LowerInv
  <2>2. b \in 1..Len(blocks)
    BY <2>1, BlksIsSeq
  <2> QED
    BY <1>1, <2>1, <2>2 DEF AllEnd
<1> QED
  BY <1>2, <1>3 DEF BlocksEndOnce, NothingFollows

\* In every function body whatever, meaningful or not, no instruction stands behind a
\* terminator, at any time during generation or after it.
THEOREM NothingEverFollows == Spec => []NothingFollows
BY LowerInductive, InvNothingFollows, PTL

\* Every block of a finished function ends with exactly one terminator, for every body
\* whose gotos lead to labels that code is generated for (gen_statement, create_inst,
\* ir_builder_get_or_create_label_block, the dead-code and jump-threading passes).
THEOREM BlocksAlwaysEndOnce == Spec => [](GotosLead(prog) => BlocksEndOnce)
<1>1. LowerInv => (GotosLead(prog) => BlocksEndOnce)
  BY InvBlocksEndOnce
<1> QED
  BY <1>1, LowerInductive, PTL
====
