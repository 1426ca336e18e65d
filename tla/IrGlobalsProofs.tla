--------------------------- MODULE IrGlobalsProofs ---------------------------
(***************************************************************************)
(* What TypeChecker.tla and IrGlobals.tla make of every program: names     *)
(* reach what the scoping rules say, constant evaluation finds exactly the *)
(* constants, every global is initialised once, in order, and the code     *)
(* refers to the declarations the checker found.                           *)
(***************************************************************************)
EXTENDS IrGlobals, FiniteSetTheorems, WellFoundedInduction, TLAPS

-----------------------------------------------------------------------------
(* Least numbers, and the depth of blocks. *)

LEMMA LeastNat ==
  ASSUME NEW T \in SUBSET Nat, T # {}
  PROVE  \E x \in T : \A y \in T : x <= y
<1>1. PICK x \in T : \A y \in T : ~(<<y, x>> \in OpToRel(<, Nat))
  BY WFMin, NatLessThanWellFounded, Zenon
<1>2. ASSUME NEW y \in T PROVE x <= y
  <2>1. x \in Nat /\ y \in Nat
    OBVIOUS
  <2>2. ~(<<y, x>> \in OpToRel(<, Nat)) /\ <<y, x>> \in Nat \X Nat
    BY <1>1, <2>1
  <2>3. ~(y < x)
    BY <2>2, Zenon DEF OpToRel
  <2> QED
    BY <2>1, <2>3
<1> QED
  BY <1>2

LEMMA LeastIsMember ==
  ASSUME NEW T \in SUBSET Nat, T # {}
  PROVE  Least(T) \in T /\ \A y \in T : Least(T) <= y
  BY LeastNat DEF Least

\* The least member stays the least when larger ones join.
LEMMA LeastStays ==
  ASSUME NEW T \in SUBSET Nat, NEW U \in SUBSET Nat, T # {}, T \subseteq U,
         \A y \in U : y \in T \/ \A x \in T : x <= y
  PROVE  Least(U) = Least(T)
<1>1. Least(T) \in T /\ \A y \in T : Least(T) <= y
  BY LeastIsMember
<1>2. Least(U) \in U /\ \A y \in U : Least(U) <= y
  BY LeastIsMember
<1>3. PICK t, u : t = Least(T) /\ u = Least(U)
  OBVIOUS
<1>4. t \in Nat /\ u \in Nat /\ t \in U
  BY <1>1, <1>2, <1>3
<1>5. u <= t
  BY <1>2, <1>3, <1>4
<1>6. t <= u
  BY <1>1, <1>2, <1>3, <1>4
<1>7. t = u
  BY <1>4, <1>5, <1>6
<1> QED
  BY <1>3, <1>7

LEMMA GreatestBelow ==
  ASSUME NEW m \in Nat, NEW T \in SUBSET (1 .. m), T # {}
  PROVE  \E x \in T : \A y \in T : y <= x
<1>1. PICK U : U = {m - x : x \in T}
  OBVIOUS
<1>2. U # {}
  BY <1>1
<1>3. PICK u \in U : \A y \in U : u <= y
  <2>1. U \in SUBSET Nat
    BY <1>1
  <2> QED
    BY <1>2, <2>1, LeastNat
<1>4. PICK x \in T : u = m - x
  BY <1>1, <1>3
<1>5. ASSUME NEW y \in T PROVE y <= x
  <2>1. m - y \in U
    BY <1>1
  <2> QED
    BY <1>3, <1>4, <2>1
<1> QED
  BY <1>5

LEMMA CountStep ==
  ASSUME NEW j \in Nat, NEW S \in SUBSET (1 .. (j + 1))
  PROVE  /\ Cardinality(S) \in Nat /\ Cardinality(S \ {j + 1}) \in Nat
         /\ Cardinality(S) = Cardinality(S \ {j + 1}) + (IF j + 1 \in S THEN 1 ELSE 0)
<1>1. IsFiniteSet(1 .. (j + 1))
  BY FS_Interval
<1>2. IsFiniteSet(S) /\ IsFiniteSet(S \ {j + 1})
  BY <1>1, FS_Subset
<1>3. Cardinality(S) \in Nat /\ Cardinality(S \ {j + 1}) \in Nat
  BY <1>2, FS_CardinalityType
<1>4. CASE j + 1 \in S
  BY <1>2, <1>3, <1>4, FS_RemoveElement
<1>5. CASE j + 1 \notin S
  <2>1. S \ {j + 1} = S
    BY <1>5
  <2> QED
    BY <1>3, <1>5, <2>1
<1> QED
  BY <1>4, <1>5

LEMMA DepthStep ==
  ASSUME NEW body, NEW j \in Nat
  PROVE  /\ Depth(body, 0) = 0
         /\ Depth(body, j) \in Int
         /\ Depth(body, j + 1) = Depth(body, j) + (IF body[j + 1].op = "open" THEN 1 ELSE 0)
                                                - (IF body[j + 1].op = "close" THEN 1 ELSE 0)
<1>1. PICK O, C : /\ O = {k \in 1 .. (j + 1) : body[k].op = "open"}
                  /\ C = {k \in 1 .. (j + 1) : body[k].op = "close"}
  OBVIOUS
<1>2. /\ O \ {j + 1} = {k \in 1 .. j : body[k].op = "open"}
      /\ C \ {j + 1} = {k \in 1 .. j : body[k].op = "close"}
  BY <1>1
<1>3. /\ Depth(body, j + 1) = Cardinality(O) - Cardinality(C)
      /\ Depth(body, j) = Cardinality(O \ {j + 1}) - Cardinality(C \ {j + 1})
  BY <1>1, <1>2 DEF Depth
<1>4. j + 1 \in O <=> body[j + 1].op = "open"
  BY <1>1
<1>5. j + 1 \in C <=> body[j + 1].op = "close"
  BY <1>1
<1>6. O \in SUBSET (1 .. (j + 1)) /\ C \in SUBSET (1 .. (j + 1))
  BY <1>1
<1>7. /\ Cardinality(O) \in Nat /\ Cardinality(O \ {j + 1}) \in Nat
      /\ Cardinality(O) = Cardinality(O \ {j + 1}) + (IF body[j + 1].op = "open" THEN 1 ELSE 0)
  BY <1>4, <1>6, CountStep
<1>8. /\ Cardinality(C) \in Nat /\ Cardinality(C \ {j + 1}) \in Nat
      /\ Cardinality(C) = Cardinality(C \ {j + 1}) + (IF body[j + 1].op = "close" THEN 1 ELSE 0)
  BY <1>5, <1>6, CountStep
<1>9. Depth(body, 0) = 0
  <2>1. /\ {k \in 1 .. 0 : body[k].op = "open"} = {}
        /\ {k \in 1 .. 0 : body[k].op = "close"} = {}
    OBVIOUS
  <2> QED
    BY <2>1, FS_EmptySet DEF Depth
<1> QED
  BY <1>3, <1>7, <1>8, <1>9

-----------------------------------------------------------------------------
(* Which declarations and imports of a file its scope already holds.       *)

AllDecls(g) == prog[g].decls

Begun(g, d) == g < file \/ (g = file /\ d < decl)

Collected(g) ==
  {d \in DOMAIN AllDecls(g) :
     /\ AllDecls(g)[d].kind # "importa"
     /\ pass # "modules"
     /\ \/ pass # "collect"
        \/ Begun(g, d)
        \/ g = file /\ decl > 0 /\ AllDecls(g)[d].kind \in {"forma", "imago"}}

Brings(g, d, n) ==
  /\ AllDecls(g)[d].kind = "importa"
  /\ \/ \E i \in DOMAIN AllDecls(g)[d].items : AllDecls(g)[d].items[i] = n
     \/ AllDecls(g)[d].items = <<>> /\ AllDecls(g)[d].from = n

Imported(g, n) ==
  {d \in DOMAIN AllDecls(g) :
     /\ Brings(g, d, n)
     /\ pass \notin {"modules", "collect"}
     /\ pass # "imports" \/ Begun(g, d)}

OwnNow(g, n) == {d \in Collected(g) : AllDecls(g)[d].name = n}

\* An error in one of these passes ends the check with that pass.
Failing(passes) == pass = "rejected" \/ (pass \in passes /\ hadError)

PlaceInv ==
  /\ prog \in Programs /\ file \in DOMAIN prog
  /\ decl \in Nat /\ stmt \in Nat /\ hadError \in BOOLEAN
  /\ pass \in {"modules", "collect", "imports", "bodies", "accepted", "rejected", "crashed",
               "register", "constants", "emit", "done", "fatal"}
  /\ decl = 0 => pass \in {"collect", "rejected"}
  /\ decl <= Len(Decls) \/ decl = 1
  /\ scope = [f \in DOMAIN prog |-> scope[f]]
  /\ pass = "bodies" /\ stmt > 0 => Decl.kind = "actio" /\ stmt <= Len(Decl.body) + 1
  /\ pass \in {"modules", "collect", "imports"} => stmt = 0
  /\ stmt = 0 => locals = <<>>

SeenModules == IF pass = "modules" THEN 1 .. (file - 1) ELSE DOMAIN prog

UniverseInv ==
  Failing({"modules"}) \/
    /\ \A f \in SeenModules : /\ prog[f].name \in DOMAIN universe
                              /\ universe[prog[f].name] = Symbol("module", Module, TRUE, <<f>>)
    /\ \A n \in DOMAIN universe : \E f \in SeenModules : prog[f].name = n

OwnInv ==
  Failing({"modules", "collect"}) \/
    \A g \in DOMAIN prog : \A d \in Collected(g) :
      LET x == AllDecls(g)[d]
      IN  /\ x.name \in DOMAIN scope[g]
          /\ scope[g][x.name] = Symbol(x.kind, scope[g][x.name].type, x.pub, <<g, d>>)

\* What an import made of a symbol: a module, or a copy of something public.
BroughtBy(i, n, sym) ==
  /\ sym = [kind |-> sym.kind, type |-> sym.type, pub |-> FALSE, id |-> sym.id, alias |-> sym.alias]
  /\ IF i.items = <<>>
     THEN ModuleNamed(n) = {sym.id} /\ sym.kind = "module"
     ELSE Public(n, ModuleNamed(i.from)) = {sym.id} /\ sym.kind = DeclOf(sym.id).kind

\* Every name of a scope is the file's own or the first import's of it.
AccountedFor(g) ==
  /\ \A n \in DOMAIN scope[g] : OwnNow(g, n) # {} \/ Imported(g, n) # {}
  /\ \A n : OwnNow(g, n) = {} /\ Imported(g, n) # {} =>
       n \in DOMAIN scope[g] /\ BroughtBy(AllDecls(g)[Least(Imported(g, n))], n, scope[g][n])

ScopeInv ==
  Failing({"modules", "collect", "imports"}) \/ \A g \in DOMAIN prog : AccountedFor(g)

\* The declarations of n in the body at hand that are visible at depth l.
VisibleAt(l, n) ==
  {k \in 1 .. (stmt - 1) :
     /\ Decl.body[k].op = "sit" /\ Decl.body[k].name = n
     /\ Depth(Decl.body, k) = l
     /\ \A j \in k .. (stmt - 1) : Depth(Decl.body, j) >= l}

ParamsNamed(n) == {i \in DOMAIN Decl.params : Decl.params[i].name = n}

IsLocalSymbol(sym, id) == sym = Symbol("sit", sym.type, FALSE, id)

HoldsParams(sc) ==
  \A n : /\ n \in DOMAIN sc <=> ParamsNamed(n) # {}
         /\ n \in DOMAIN sc => IsLocalSymbol(sc[n], <<file, decl, "param", Least(ParamsNamed(n))>>)

HoldsBlock(sc, l) ==
  \A n : /\ n \in DOMAIN sc <=> VisibleAt(l, n) # {}
         /\ n \in DOMAIN sc => IsLocalSymbol(sc[n], <<file, decl, "local", Least(VisibleAt(l, n))>>)

LocalsInv ==
  pass = "bodies" /\ stmt > 0 =>
    /\ IsSeq(locals) /\ Len(locals) = 2 + Depth(Decl.body, stmt - 1)
    /\ HoldsParams(locals[1])
    /\ \A i \in 2 .. Len(locals) : HoldsBlock(locals[i], i - 2)

NamesInv == PlaceInv /\ UniverseInv /\ OwnInv /\ ScopeInv /\ LocalsInv /\ UsesReachVisible
-----------------------------------------------------------------------------
(* Where the check is. *)

LEMMA ProgramIsProper ==
  ASSUME PlaceInv
  PROVE  /\ Len(prog) \in Nat /\ Len(prog) > 0 /\ DOMAIN prog = 1 .. Len(prog)
         /\ \A g \in DOMAIN prog :
              /\ Len(AllDecls(g)) \in Nat /\ DOMAIN AllDecls(g) = 1 .. Len(AllDecls(g))
              /\ \A d \in DOMAIN AllDecls(g) : ProperDeclaration(AllDecls(g)[d])
<1>1. prog \in Programs
  BY DEF PlaceInv
<1>2. /\ IsSeq(prog) /\ Len(prog) > 0
      /\ \A g \in DOMAIN prog : /\ IsSeq(prog[g].decls)
                                /\ \A d \in DOMAIN prog[g].decls : ProperDeclaration(prog[g].decls[d])
  BY <1>1, ProgramsAssumption
<1>3. ASSUME NEW s, IsSeq(s) PROVE Len(s) \in Nat /\ DOMAIN s = 1 .. Len(s)
  BY <1>3 DEF IsSeq
<1>4. Len(prog) \in Nat /\ DOMAIN prog = 1 .. Len(prog)
  BY <1>2, <1>3
<1>5. \A g \in DOMAIN prog : Len(AllDecls(g)) \in Nat /\ DOMAIN AllDecls(g) = 1 .. Len(AllDecls(g))
  BY <1>2, <1>3 DEF AllDecls
<1> QED
  BY <1>2, <1>4, <1>5 DEF AllDecls

LEMMA DeclAtHand ==
  ASSUME PlaceInv
  PROVE  /\ file \in DOMAIN prog /\ Decls = AllDecls(file)
         /\ decl \in DOMAIN Decls => /\ Decl = AllDecls(file)[decl] /\ ProperDeclaration(Decl)
                                     /\ Decl.kind # "none"
         /\ decl \notin DOMAIN Decls => Decl.kind = "none"
<1>1. file \in DOMAIN prog /\ Decls = AllDecls(file)
  BY DEF PlaceInv, Decls, AllDecls
<1>2. \A d \in DOMAIN Decls : ProperDeclaration(AllDecls(file)[d])
  BY <1>1, ProgramIsProper
<1>3. CASE decl \in DOMAIN Decls
  <2>1. Decl = AllDecls(file)[decl]
    BY <1>1, <1>3 DEF Decl
  <2>2. ProperDeclaration(Decl)
    BY <1>2, <1>3, <2>1
  <2>3. Decl.kind # "none"
    BY <2>2 DEF ProperDeclaration
  <2> QED
    BY <1>1, <1>3, <2>1, <2>2, <2>3
<1>4. CASE decl \notin DOMAIN Decls
  <2>1. Decl = [kind |-> "none"]
    BY <1>4 DEF Decl
  <2> QED
    BY <1>1, <1>4, <2>1
<1> QED
  BY <1>3, <1>4

\* What Advance does, whatever the errors.
Moves ==
  /\ stmt' = 0 /\ hadError' \in BOOLEAN /\ (hadError => hadError')
  /\ IF pass # "modules" /\ decl < Len(Decls)
     THEN decl' = decl + 1 /\ UNCHANGED <<pass, file>>
     ELSE IF file < Len(prog)
     THEN file' = file + 1 /\ decl' = First(pass) /\ UNCHANGED pass
     ELSE IF hadError'
     THEN pass' = "rejected" /\ UNCHANGED <<file, decl>>
     ELSE pass' = NextPass(pass) /\ file' = 1 /\ decl' = First(NextPass(pass))

LEMMA AdvanceMoves ==
  ASSUME PlaceInv, NEW error \in BOOLEAN, Advance(error)
  PROVE  Moves
  BY DEF Moves, Advance, PlaceInv

\* The declarations begun: the one at hand joins them, and at the end of a
\* pass they are all.
LEMMA AdvanceBegins ==
  ASSUME PlaceInv, Moves, prog' = prog, pass \in {"collect", "imports", "bodies"}
  PROVE  /\ stmt' = 0 /\ hadError' \in BOOLEAN
         /\ file' \in DOMAIN prog /\ decl' \in Nat
         /\ decl' <= Len(AllDecls(file')) \/ decl' = 1
         /\ decl' = 0 => pass' \in {"collect", "rejected"}
         /\ \/ /\ pass' = pass
               /\ \A g \in DOMAIN prog : \A d \in DOMAIN AllDecls(g) :
                    Begun(g, d)' <=> Begun(g, d) \/ (g = file /\ d = decl)
            \/ pass' = "rejected"
            \/ /\ pass' = NextPass(pass) /\ ~hadError' /\ file' = 1 /\ decl' = First(pass')
               /\ \A g \in DOMAIN prog : \A d \in DOMAIN AllDecls(g) :
                    Begun(g, d) \/ (g = file /\ d = decl)
<1>1. /\ Len(prog) \in Nat /\ Len(prog) > 0 /\ DOMAIN prog = 1 .. Len(prog)
      /\ \A g \in DOMAIN prog : Len(AllDecls(g)) \in Nat /\ DOMAIN AllDecls(g) = 1 .. Len(AllDecls(g))
  BY ProgramIsProper
<1>2. /\ file \in 1 .. Len(prog) /\ decl \in Nat /\ Decls = AllDecls(file)
      /\ decl <= Len(AllDecls(file)) \/ decl = 1
      /\ decl = 0 => pass = "collect"
  BY <1>1, DeclAtHand DEF PlaceInv
<1>3. Len(AllDecls(file)) \in Nat
  BY <1>1, <1>2
<1>4. /\ hadError' \in BOOLEAN /\ stmt' = 0
      /\ IF decl < Len(AllDecls(file))
         THEN decl' = decl + 1 /\ pass' = pass /\ file' = file
         ELSE IF file < Len(prog)
         THEN file' = file + 1 /\ decl' = First(pass) /\ pass' = pass
         ELSE IF hadError'
         THEN pass' = "rejected" /\ file' = file /\ decl' = decl
         ELSE pass' = NextPass(pass) /\ file' = 1 /\ decl' = First(NextPass(pass))
  BY <1>2 DEF Moves
<1>5. \A p : First(p) \in {0, 1} /\ (First(p) = 0 <=> p = "collect")
  BY DEF First
<1>6. CASE decl < Len(AllDecls(file))
  <2>1. decl' = decl + 1 /\ pass' = pass /\ file' = file
    BY <1>4, <1>6
  <2>2. ASSUME NEW g \in DOMAIN prog, NEW d \in DOMAIN AllDecls(g)
        PROVE  Begun(g, d)' <=> Begun(g, d) \/ (g = file /\ d = decl)
    <3>1. g \in Nat /\ d \in Nat /\ file \in Nat
      BY <1>1, <1>2
    <3> QED
      BY <1>2, <2>1, <3>1 DEF Begun
  <2> QED
    BY <1>1, <1>2, <1>3, <1>4, <1>6, <2>1, <2>2
<1>7. CASE ~(decl < Len(AllDecls(file))) /\ file < Len(prog)
  <2>1. file' = file + 1 /\ decl' = First(pass) /\ pass' = pass
    BY <1>4, <1>7
  <2>2. ASSUME NEW g \in DOMAIN prog, NEW d \in DOMAIN AllDecls(g)
        PROVE  Begun(g, d)' <=> Begun(g, d) \/ (g = file /\ d = decl)
    <3>1. g \in Nat /\ d \in Nat /\ file \in Nat /\ d >= 1 /\ d <= Len(AllDecls(g))
      BY <1>1, <1>2
    <3>2. Begun(g, d)' <=> g <= file
      BY <1>5, <2>1, <3>1 DEF Begun
    <3>3. Begun(g, d) \/ (g = file /\ d = decl) <=> g <= file
      BY <1>2, <1>3, <1>7, <3>1 DEF Begun
    <3> QED
      BY <3>2, <3>3
  <2>3. decl' \in {0, 1} /\ (decl' = 0 => pass' = "collect")
    BY <1>5, <2>1
  <2>4. file' \in DOMAIN prog
    BY <1>1, <1>2, <1>7, <2>1
  <2>5. Len(AllDecls(file')) \in Nat
    BY <1>1, <2>4
  <2> QED
    BY <1>4, <2>1, <2>2, <2>3, <2>4, <2>5
<1>8. CASE ~(decl < Len(AllDecls(file))) /\ ~(file < Len(prog)) /\ hadError'
  BY <1>1, <1>2, <1>4, <1>8
<1>9. CASE ~(decl < Len(AllDecls(file))) /\ ~(file < Len(prog)) /\ ~hadError'
  <2>1. pass' = NextPass(pass) /\ file' = 1 /\ decl' = First(NextPass(pass))
    BY <1>4, <1>9
  <2>2. ASSUME NEW g \in DOMAIN prog, NEW d \in DOMAIN AllDecls(g)
        PROVE  Begun(g, d) \/ (g = file /\ d = decl)
    <3>1. g \in Nat /\ d \in Nat /\ file \in Nat /\ d >= 1 /\ d <= Len(AllDecls(g)) /\ g <= Len(prog)
      BY <1>1, <1>2
    <3> QED
      BY <1>2, <1>3, <1>9, <3>1 DEF Begun
  <2>3. decl' \in {0, 1} /\ (decl' = 0 => pass' = "collect")
    BY <1>5, <2>1
  <2>4. file' \in DOMAIN prog
    BY <1>1, <2>1
  <2>5. Len(AllDecls(file')) \in Nat
    BY <1>1, <2>4
  <2> QED
    BY <1>4, <1>9, <2>1, <2>2, <2>3, <2>4, <2>5
<1> QED
  BY <1>6, <1>7, <1>8, <1>9
\* A declaration done: the invariant of the place, in every pass of the check.
LEMMA AdvanceKeepsPlace ==
  ASSUME PlaceInv, Moves, prog' = prog, locals' = <<>>,
         pass \in {"modules", "collect", "imports", "bodies"},
         scope' = [f \in DOMAIN prog |-> scope'[f]]
  PROVE  PlaceInv'
<1>1. stmt' = 0 /\ hadError' \in BOOLEAN
  BY DEF Moves
<1>2. prog' \in Programs /\ scope' = [f \in DOMAIN prog' |-> scope'[f]]
  BY DEF PlaceInv
<1>3. /\ Decls' = AllDecls(file')
      /\ \A g \in DOMAIN prog : Len(AllDecls(g)) \in Nat
  BY ProgramIsProper DEF Decls, AllDecls
<1>4. /\ file' \in DOMAIN prog /\ decl' \in Nat
      /\ decl' <= Len(AllDecls(file')) \/ decl' = 1
      /\ decl' = 0 => pass' \in {"collect", "rejected"}
      /\ pass' \in {"modules", "collect", "imports", "bodies", "accepted", "rejected"}
  <2>1. CASE pass = "modules"
    <3>1. /\ Len(prog) \in Nat /\ Len(prog) > 0 /\ DOMAIN prog = 1 .. Len(prog)
          /\ file \in 1 .. Len(prog) /\ decl \in Nat
          /\ Decls = AllDecls(file) /\ Len(AllDecls(file)) \in Nat
          /\ decl <= Len(Decls) \/ decl = 1
          /\ decl # 0
      BY <2>1, ProgramIsProper, DeclAtHand DEF PlaceInv
    <3>2. First("modules") = 1 /\ First("collect") = 0 /\ NextPass("modules") = "collect"
      BY DEF First, NextPass
    <3>3. \/ file' = file + 1 /\ file < Len(prog) /\ decl' = 1 /\ pass' = pass
          \/ pass' = "rejected" /\ file' = file /\ decl' = decl
          \/ pass' = "collect" /\ file' = 1 /\ decl' = 0
      BY <2>1, <3>2 DEF Moves
    <3>4. CASE file' = file + 1 /\ file < Len(prog) /\ decl' = 1 /\ pass' = pass
      BY <2>1, <3>1, <3>4
    <3>5. CASE pass' = "rejected" /\ file' = file /\ decl' = decl
      BY <3>1, <3>5
    <3>6. CASE pass' = "collect" /\ file' = 1 /\ decl' = 0
      <4>1. file' \in DOMAIN prog
        BY <3>1, <3>6
      <4>2. Len(AllDecls(file')) \in Nat
        BY <1>3, <4>1
      <4> QED
        BY <3>6, <4>1, <4>2
    <3> QED
      BY <3>3, <3>4, <3>5, <3>6
  <2>2. CASE pass \in {"collect", "imports", "bodies"}
    <3>1. \A p \in {"collect", "imports", "bodies"} : NextPass(p) \in {"imports", "bodies", "accepted"}
      BY DEF NextPass
    <3> QED
      BY <2>2, <3>1, AdvanceBegins
  <2> QED
    BY <2>1, <2>2
<1> QED
  BY <1>1, <1>2, <1>3, <1>4 DEF PlaceInv

\* The actions of the check that finish a declaration.
LEMMA WhoAdvances ==
  ASSUME PlaceInv,
         \/ RegisterModule \/ CollectTypeNames \/ CollectDeclaration \/ ImportDeclaration
         \/ CheckGlobal /\ pass' # "crashed"
         \/ EnterFunction /\ stmt' = 0
         \/ LeaveFunction \/ SkipDeclaration
  PROVE  /\ Moves
         /\ prog' = prog /\ locals' = <<>>
         /\ pass \in {"modules", "collect", "imports", "bodies"}
         /\ scope' = [f \in DOMAIN prog |-> scope'[f]]
         /\ \A f \in DOMAIN prog : f # file => scope'[f] = scope[f]
<1>1. /\ pass \in {"modules", "collect", "imports"} => locals = <<>>
      /\ stmt = 0 => locals = <<>>
  BY DEF PlaceInv
<1>2. /\ pass = "bodies" /\ Decl.kind # "actio" => stmt = 0
      /\ file \in DOMAIN prog /\ scope = [f \in DOMAIN prog |-> scope[f]]
  BY DEF PlaceInv
<1> DEFINE Kept == /\ scope' = [f \in DOMAIN prog |-> scope'[f]]
                   /\ \A f \in DOMAIN prog : f # file => scope'[f] = scope[f]
<1>k. ASSUME NEW v, scope' = [scope EXCEPT ![file] = v] PROVE Kept
  BY <1>2, <1>k
<1>u. ASSUME scope' = scope PROVE Kept
  BY <1>2, <1>u
<1> HIDE DEF Kept
<1>3. CASE RegisterModule
  <2>1. PICK error : error = (prog[file].name \in DOMAIN universe)
    OBVIOUS
  <2>2. error \in BOOLEAN
    BY <2>1
  <2>3. Advance(error)
    BY <1>3, <2>1 DEF RegisterModule
  <2>5. Moves
    BY <2>2, <2>3, AdvanceMoves
  <2>4. Kept
    BY <1>u, <1>3 DEF RegisterModule
  <2> QED
    BY <1>1, <1>3, <2>5, <2>4 DEF RegisterModule, Kept
<1>4. CASE CollectTypeNames
  <2>1. PICK types : types = {d \in DOMAIN Decls : Decls[d].kind \in {"forma", "imago"}}
    OBVIOUS
  <2>2. PICK error : error = (Cardinality({Decls[d].name : d \in types}) # Cardinality(types))
    OBVIOUS
  <2>3. error \in BOOLEAN
    BY <2>2
  <2>4. Advance(error)
    BY <1>4, <2>1, <2>2 DEF CollectTypeNames
  <2>5. Kept
    BY <1>k, <1>4 DEF CollectTypeNames
  <2>6. Moves
    BY <2>3, <2>4, AdvanceMoves
  <2> QED
    BY <1>1, <1>4, <2>5, <2>6 DEF CollectTypeNames, Kept
<1>5. CASE CollectDeclaration
  <2>1. PICK bad : bad = (\E r \in RefsOf(Decl) : Bad(Scopes, r))
    OBVIOUS
  <2>2. PICK again : again = (bad \/ Decl.name \in DOMAIN scope[file])
    OBVIOUS
  <2>3. bad \in BOOLEAN /\ again \in BOOLEAN
    BY <2>1, <2>2
  <2>4. Advance(bad) \/ Advance(again)
    BY <1>5, <2>1, <2>2 DEF CollectDeclaration
  <2>5. Kept
    BY <1>k, <1>5 DEF CollectDeclaration
  <2>6. Moves
    BY <2>3, <2>4, AdvanceMoves
  <2> QED
    BY <1>1, <1>5, <2>5, <2>6 DEF CollectDeclaration, Kept
<1>6. CASE ImportDeclaration
  <2>1. PICK m, items : /\ m = Find(universe, Decl.from)
                        /\ items = {Decl.items[i] : i \in DOMAIN Decl.items}
    OBVIOUS
  <2>2. PICK error : error = (m = NoSymbol \/ {n \in items : Member(m, n) # NoSymbol} # items)
    OBVIOUS
  <2>3. error \in BOOLEAN
    BY <2>2
  <2>4. Advance(FALSE) \/ Advance(error)
    BY <1>6, <2>1, <2>2 DEF ImportDeclaration
  <2>5. Kept
    BY <1>k, <1>u, <1>6 DEF ImportDeclaration
  <2>6. Moves
    BY <2>3, <2>4, AdvanceMoves
  <2> QED
    BY <1>1, <1>6, <2>5, <2>6 DEF ImportDeclaration, Kept
<1>7. CASE CheckGlobal /\ pass' # "crashed"
  <2>1. PICK error : error = InitBad(Find(scope[file], Decl.name).type, Decl.init)
    OBVIOUS
  <2>2. error \in BOOLEAN
    BY <2>1 DEF InitBad
  <2>3. ~Crash
    BY <1>7 DEF Crash
  <2>4. Advance(error)
    BY <1>7, <2>1, <2>3 DEF CheckGlobal
  <2>5. Kept
    BY <1>k, <1>7, <2>3 DEF CheckGlobal
  <2>6. locals' = <<>> /\ prog' = prog /\ pass = "bodies"
    BY <1>1, <1>2, <1>7, <2>3 DEF CheckGlobal
  <2>7. Moves
    BY <2>2, <2>4, AdvanceMoves
  <2> QED
    BY <2>5, <2>6, <2>7 DEF Kept
<1>8. CASE EnterFunction /\ stmt' = 0
  <2>1. Decl.barbara /\ UNCHANGED locals
    BY <1>8 DEF EnterFunction
  <2>2. Moves
    <3>1. ParamsBad \in BOOLEAN
      BY DEF ParamsBad
    <3>2. PICK error \in BOOLEAN : error = ParamsBad
      BY <3>1
    <3>3. Advance(error)
      BY <1>8, <2>1, <3>2 DEF EnterFunction
    <3> QED
      BY <3>3, AdvanceMoves
  <2> QED
    BY <1>1, <1>u, <1>8, <2>1, <2>2 DEF EnterFunction, Kept
<1>9. CASE LeaveFunction
  <2>1. PICK error : error = (/\ ReturnType # <<"nihil">>
                              /\ \A s \in DOMAIN Decl.body : Decl.body[s].op # "redde")
    OBVIOUS
  <2>2. error \in BOOLEAN
    BY <2>1
  <2>3. Advance(error)
    BY <1>9, <2>1 DEF LeaveFunction
  <2>4. Moves
    BY <2>2, <2>3, AdvanceMoves
  <2> QED
    BY <1>u, <1>9, <2>4 DEF LeaveFunction, Kept
<1>10. CASE SkipDeclaration
  <2>1. Advance(FALSE)
    BY <1>10 DEF SkipDeclaration
  <2>2. Moves
    BY <2>1, AdvanceMoves
  <2> QED
    BY <1>1, <1>2, <1>u, <1>10, <2>2 DEF SkipDeclaration, Kept
<1> QED
  BY <1>3, <1>4, <1>5, <1>6, <1>7, <1>8, <1>9, <1>10 DEF Kept
\* The actions that take a body one statement further.
LEMMA WhoFollows ==
  ASSUME PlaceInv,
         \/ EnterFunction /\ stmt' # 0
         \/ OpenBlock \/ CloseBlock
         \/ (DeclareLocal \/ Evaluate \/ Return) /\ pass' # "crashed"
  PROVE  /\ pass = "bodies" /\ UNCHANGED <<prog, pass, file, decl, universe, scope>>
         /\ Decl.kind = "actio" /\ ProperDeclaration(Decl)
         /\ stmt \in Nat /\ stmt' = stmt + 1 /\ stmt <= Len(Decl.body) /\ Len(Decl.body) \in Nat
         /\ hadError' \in BOOLEAN
<1>1. /\ pass = "bodies" => Decl.kind = "actio" \/ stmt = 0
      /\ stmt \in Nat /\ hadError \in BOOLEAN
  BY DEF PlaceInv
<1>2. Decl.kind = "actio" => ProperDeclaration(Decl) /\ Len(Decl.body) \in Nat
  <2>1. Decl.kind = "actio" => ProperDeclaration(Decl)
    BY DeclAtHand
  <2> QED
    BY <2>1 DEF ProperDeclaration, IsSeq
<1>3. CASE EnterFunction /\ stmt' # 0
  <2>1. ~Decl.barbara
    BY <1>3 DEF EnterFunction, Advance
  <2>2. ParamsBad \in BOOLEAN
    BY DEF ParamsBad
  <2>3. hadError' = (hadError \/ ParamsBad)
    BY <1>3, <2>1 DEF EnterFunction
  <2>4. hadError' \in BOOLEAN
    BY <1>1, <2>2, <2>3
  <2> QED
    BY <1>1, <1>2, <1>3, <2>1, <2>4 DEF EnterFunction
<1>4. ASSUME NEW op, InBody(op)
      PROVE  pass = "bodies" /\ Decl.kind = "actio" /\ stmt > 0 /\ stmt <= Len(Decl.body)
  BY <1>1, <1>4 DEF InBody
<1>5. ASSUME NEW error \in BOOLEAN, Follow(error)
      PROVE  /\ stmt' = stmt + 1 /\ hadError' \in BOOLEAN
             /\ UNCHANGED <<prog, pass, file, decl, universe, scope>>
  BY <1>1, <1>5 DEF Follow
<1>6. CASE OpenBlock \/ CloseBlock
  BY <1>1, <1>2, <1>4, <1>5, <1>6 DEF OpenBlock, CloseBlock
<1>7. pass' # "crashed" => ~Crash
  BY DEF Crash
<1>8. CASE DeclareLocal /\ pass' # "crashed"
  <2>1. PICK declared : declared = IF Stmt.type = NoRef THEN NoType ELSE ResolveType(Scopes, Stmt.type)
    OBVIOUS
  <2>2. PICK error : error = (\/ InitBad(declared, Stmt.init) \/ declared = Unknown
                              \/ Stmt.name \in DOMAIN locals[Inner])
    OBVIOUS
  <2>3. error \in BOOLEAN
    BY <2>2
  <2>4. Follow(error)
    BY <1>7, <1>8, <2>1, <2>2 DEF DeclareLocal
  <2>5. InBody("sit")
    BY <1>8 DEF DeclareLocal
  <2> QED
    BY <1>1, <1>2, <1>4, <1>5, <2>3, <2>4, <2>5
<1>9. CASE Evaluate /\ pass' # "crashed"
  <2>1. hadError' \in BOOLEAN /\ stmt' = stmt + 1
        /\ UNCHANGED <<prog, pass, file, decl, universe, scope>>
    BY <1>1, <1>7, <1>9 DEF Evaluate, Follow
  <2>2. InBody("eval")
    BY <1>9 DEF Evaluate
  <2> QED
    BY <1>1, <1>2, <1>4, <2>1, <2>2
<1>10. CASE Return /\ pass' # "crashed"
  <2>1. hadError' \in BOOLEAN /\ stmt' = stmt + 1
        /\ UNCHANGED <<prog, pass, file, decl, universe, scope>>
    BY <1>1, <1>7, <1>10 DEF Return, Follow
  <2>2. InBody("redde")
    BY <1>10 DEF Return
  <2> QED
    BY <1>1, <1>2, <1>4, <2>1, <2>2
<1> QED
  BY <1>3, <1>6, <1>8, <1>9, <1>10

Later == {"accepted", "register", "constants", "emit", "done", "fatal"}

\* The actions of code generation leave alone what the check has found.
LEMMA WhoGenerates ==
  ASSUME PlaceInv,
         \/ Generate \/ Register \/ EvaluateConstant \/ EmitGlobal \/ EmitBody \/ EmitNothing
  PROVE  /\ UNCHANGED Checked /\ pass \in Later /\ pass' \in Later
         /\ file' \in DOMAIN prog /\ decl' \in Nat \ {0}
         /\ decl' <= Len(AllDecls(file')) \/ decl' = 1
<1>1. /\ Len(prog) \in Nat /\ Len(prog) > 0 /\ DOMAIN prog = 1 .. Len(prog)
      /\ \A g \in DOMAIN prog : Len(AllDecls(g)) \in Nat
      /\ file \in DOMAIN prog /\ Decls = AllDecls(file) /\ decl \in Nat
      /\ decl <= Len(AllDecls(file)) \/ decl = 1
      /\ pass \in Later => decl # 0
  BY ProgramIsProper, DeclAtHand DEF PlaceInv, Later
<1>2. PICK n \in Nat : n = Len(AllDecls(file))
  BY <1>1
<1>3. ASSUME Step, pass \in {"register", "constants", "emit"}
      PROVE  /\ pass' \in Later
             /\ file' \in DOMAIN prog /\ decl' \in Nat \ {0}
             /\ decl' <= Len(AllDecls(file')) \/ decl' = 1
  <2>1. CASE decl < n
    <3>1. decl' = decl + 1 /\ pass' = pass /\ file' = file
      BY <1>1, <1>2, <1>3, <2>1 DEF Step
    <3> QED
      BY <1>1, <1>2, <1>3, <2>1, <3>1 DEF Later
  <2>2. CASE ~(decl < n) /\ file < Len(prog)
    <3>1. file' = file + 1 /\ decl' = 1 /\ pass' = pass
      BY <1>1, <1>2, <1>3, <2>2 DEF Step
    <3> QED
      BY <1>1, <1>2, <1>3, <2>2, <3>1 DEF Later
  <2>3. CASE ~(decl < n) /\ ~(file < Len(prog))
    <3>1. /\ pass' = NextIrPass(pass)
          /\ IF pass = "emit" THEN UNCHANGED <<file, decl>> ELSE file' = 1 /\ decl' = 1
      BY <1>1, <1>2, <1>3, <2>3 DEF Step
    <3>2. pass' \in Later
      BY <1>3, <3>1 DEF NextIrPass, Later
    <3> QED
      BY <1>1, <1>2, <1>3, <3>1, <3>2 DEF Later
  <2> QED
    BY <2>1, <2>2, <2>3
<1>4. CASE Generate
  BY <1>1, <1>4 DEF Generate, Later
<1>5. CASE Register
  BY <1>3, <1>5 DEF Register, Later
<1>6. CASE EvaluateConstant
  BY <1>3, <1>6 DEF EvaluateConstant, Later
<1>7. CASE EmitGlobal
  BY <1>1, <1>3, <1>7 DEF EmitGlobal, Later
<1>8. CASE EmitBody
  BY <1>3, <1>8 DEF EmitBody, Later
<1>9. CASE EmitNothing
  BY <1>3, <1>9 DEF EmitNothing, Later
<1> QED
  BY <1>4, <1>5, <1>6, <1>7, <1>8, <1>9

\* Every step of the check is of one of these kinds.
LEMMA CheckStepKinds ==
  ASSUME PlaceInv, CheckStep
  PROVE  \/ RegisterModule \/ CollectTypeNames \/ CollectDeclaration \/ ImportDeclaration
         \/ CheckGlobal /\ pass' # "crashed"
         \/ EnterFunction /\ stmt' = 0
         \/ LeaveFunction \/ SkipDeclaration
         \/ EnterFunction /\ stmt' # 0
         \/ OpenBlock \/ CloseBlock
         \/ (DeclareLocal \/ Evaluate \/ Return) /\ pass' # "crashed"
         \/ Crash /\ pass = "bodies"
<1>1. /\ CheckGlobal /\ pass' = "crashed" => Crash /\ pass = "bodies"
      /\ DeclareLocal /\ pass' = "crashed" => Crash /\ pass = "bodies"
      /\ Evaluate /\ pass' = "crashed" => Crash /\ pass = "bodies"
      /\ Return /\ pass' = "crashed" => Crash /\ pass = "bodies"
  BY DEF CheckGlobal, DeclareLocal, Evaluate, Return, InBody, Follow, Advance, NextPass
<1> QED
  BY <1>1 DEF CheckStep, Next

LEMMA PlaceStep ==
  ASSUME PlaceInv, [IrNext]_<<vars, irVars>>
  PROVE  PlaceInv'
<1>1. CASE \/ RegisterModule \/ CollectTypeNames \/ CollectDeclaration \/ ImportDeclaration
           \/ CheckGlobal /\ pass' # "crashed"
           \/ EnterFunction /\ stmt' = 0
           \/ LeaveFunction \/ SkipDeclaration
  BY <1>1, WhoAdvances, AdvanceKeepsPlace
<1>2. CASE \/ EnterFunction /\ stmt' # 0
           \/ OpenBlock \/ CloseBlock
           \/ (DeclareLocal \/ Evaluate \/ Return) /\ pass' # "crashed"
  BY <1>2, WhoFollows DEF PlaceInv, Decl, Decls
<1>3. CASE Crash /\ pass = "bodies"
  BY <1>3 DEF Crash, PlaceInv, Decl, Decls
<1>4. CASE Generate \/ Register \/ EvaluateConstant \/ EmitGlobal \/ EmitBody \/ EmitNothing
  BY <1>4, WhoGenerates DEF PlaceInv, Decl, Decls, AllDecls, Checked, Later
<1>5. CASE UNCHANGED <<vars, irVars>>
  BY <1>5 DEF PlaceInv, Decl, Decls, vars
<1> QED
  BY <1>1, <1>2, <1>3, <1>4, <1>5, CheckStepKinds DEF IrNext
\* How the passes follow each other.
LEMMA MovesOn ==
  ASSUME PlaceInv, Moves, pass \in {"modules", "collect", "imports", "bodies"}
  PROVE  /\ pass' \in {pass, "rejected", NextPass(pass)}
         /\ pass' = NextPass(pass) => ~hadError'
         /\ pass' = "rejected" => hadError'
         /\ \A p \in {"modules", "collect", "imports", "bodies"} :
              /\ NextPass(p) \notin {p, "rejected", "modules"}
              /\ NextPass(p) \in {"collect", "imports", "bodies", "accepted"}
<1>1. \A p \in {"modules", "collect", "imports", "bodies"} :
        /\ NextPass(p) \notin {p, "rejected", "modules"}
        /\ NextPass(p) \in {"collect", "imports", "bodies", "accepted"}
  BY DEF NextPass
<1> QED
  BY <1>1 DEF Moves

-----------------------------------------------------------------------------
(* Modules. *)

\* After the first pass nothing happens to the scope of the modules.
LEMMA UniverseStays ==
  ASSUME PlaceInv, [IrNext]_<<vars, irVars>>
  PROVE  /\ prog' = prog
         /\ \/ RegisterModule
            \/ UNCHANGED <<vars, irVars>>
            \/ universe' = universe /\ pass \notin {"modules", "rejected"} /\ pass' # "modules"
<1>1. CASE RegisterModule
  BY <1>1 DEF RegisterModule
<1>2. CASE \/ CollectTypeNames \/ CollectDeclaration \/ ImportDeclaration
           \/ CheckGlobal /\ pass' # "crashed"
           \/ EnterFunction /\ stmt' = 0
           \/ LeaveFunction \/ SkipDeclaration
  <2>1. Moves /\ prog' = prog
    BY <1>2, WhoAdvances
  <2>2. universe' = universe /\ pass \in {"collect", "imports", "bodies"}
    BY <1>2 DEF CollectTypeNames, CollectDeclaration, ImportDeclaration, CheckGlobal, Crash,
                EnterFunction, LeaveFunction, SkipDeclaration
  <2> QED
    BY <2>1, <2>2, MovesOn
<1>3. CASE \/ EnterFunction /\ stmt' # 0
           \/ OpenBlock \/ CloseBlock
           \/ (DeclareLocal \/ Evaluate \/ Return) /\ pass' # "crashed"
  BY <1>3, WhoFollows
<1>4. CASE Crash /\ pass = "bodies"
  BY <1>4 DEF Crash
<1>5. CASE Generate \/ Register \/ EvaluateConstant \/ EmitGlobal \/ EmitBody \/ EmitNothing
  BY <1>5, WhoGenerates DEF Checked, Later
<1>6. CASE UNCHANGED <<vars, irVars>>
  BY <1>6 DEF vars
<1> QED
  BY <1>1, <1>2, <1>3, <1>4, <1>5, <1>6, CheckStepKinds DEF IrNext

LEMMA DefineIs ==
  ASSUME NEW sc, NEW n, NEW sym
  PROVE  Define(sc, n, sym) = [m \in DOMAIN sc \cup {n} |-> IF m \in DOMAIN sc THEN sc[m] ELSE sym]
<1>1. PICK more : more = [m \in {n} |-> sym]
  OBVIOUS
<1>2. Define(sc, n, sym) = [m \in DOMAIN sc \cup DOMAIN more |->
                              IF m \in DOMAIN sc THEN sc[m] ELSE more[m]]
  BY <1>1 DEF Define, Completed
<1> QED
  BY <1>1, <1>2

LEMMA UniverseStep ==
  ASSUME PlaceInv, UniverseInv, [IrNext]_<<vars, irVars>>
  PROVE  UniverseInv'
<1>1. CASE RegisterModule
  <2>1. /\ pass = "modules" /\ prog' = prog
        /\ universe' = Define(universe, prog[file].name, Symbol("module", Module, TRUE, <<file>>))
    BY <1>1 DEF RegisterModule
  <2>2. hadError \/ prog[file].name \in DOMAIN universe => hadError'
    BY <1>1 DEF RegisterModule, Advance
  <2>3. Moves
    BY <1>1, WhoAdvances
  <2>4. pass' \in {"modules", "rejected", "collect"} /\ (pass' = "collect" => ~hadError')
    BY <2>1, <2>3, MovesOn DEF NextPass
  <2>5. CASE hadError'
    BY <2>4, <2>5 DEF UniverseInv, Failing
  <2>6. CASE ~hadError'
    <3>1. ~Failing({"modules"}) /\ prog[file].name \notin DOMAIN universe
      BY <2>1, <2>2, <2>6 DEF Failing
    <3>2. /\ Len(prog) \in Nat /\ DOMAIN prog = 1 .. Len(prog)
          /\ file \in 1 .. Len(prog) /\ decl \in Nat
      BY ProgramIsProper DEF PlaceInv
    <3>3. SeenModules = 1 .. (file - 1)
      BY <2>1 DEF SeenModules
    <3>4. SeenModules' = SeenModules \cup {file}
      <4>1. \/ pass' = "modules" /\ file' = file + 1 /\ file < Len(prog)
            \/ pass' = "collect" /\ file = Len(prog)
        BY <2>1, <2>3, <2>6, <3>2 DEF Moves, NextPass
      <4>2. SeenModules' = 1 .. file
        <5>1. CASE pass' = "modules" /\ file' = file + 1
          <6>1. file' - 1 = file
            BY <3>2, <5>1
          <6> QED
            BY <5>1, <6>1 DEF SeenModules
        <5>2. CASE pass' = "collect" /\ file = Len(prog)
          BY <2>1, <3>2, <5>2 DEF SeenModules
        <5> QED
          BY <4>1, <5>1, <5>2
      <4> QED
        BY <3>2, <3>3, <4>2
    <3>5. /\ DOMAIN universe' = DOMAIN universe \cup {prog[file].name}
          /\ \A n \in DOMAIN universe : universe'[n] = universe[n]
          /\ universe'[prog[file].name] = Symbol("module", Module, TRUE, <<file>>)
      <4>1. PICK n, sym : n = prog[file].name /\ sym = Symbol("module", Module, TRUE, <<file>>)
        OBVIOUS
      <4>2. universe' = Define(universe, n, sym) /\ n \notin DOMAIN universe
        BY <2>1, <3>1, <4>1
      <4> QED
        BY <4>1, <4>2, DefineIs
    <3>6. /\ \A f \in SeenModules : /\ prog[f].name \in DOMAIN universe
                                    /\ universe[prog[f].name] = Symbol("module", Module, TRUE, <<f>>)
          /\ \A n \in DOMAIN universe : \E f \in SeenModules : prog[f].name = n
      BY <3>1 DEF UniverseInv
    <3>7. /\ \A f \in SeenModules' : /\ prog'[f].name \in DOMAIN universe'
                                     /\ universe'[prog'[f].name] = Symbol("module", Module, TRUE, <<f>>)
          /\ \A n \in DOMAIN universe' : \E f \in SeenModules' : prog'[f].name = n
      BY <2>1, <3>4, <3>5, <3>6
    <3> QED
      BY <3>7 DEF UniverseInv, Symbol, Module
  <2> QED
    BY <2>5, <2>6
<1>2. CASE UNCHANGED <<vars, irVars>>
  BY <1>2 DEF UniverseInv, Failing, SeenModules, vars
<1>3. CASE universe' = universe /\ pass \notin {"modules", "rejected"} /\ pass' # "modules"
  BY <1>3, UniverseStays DEF UniverseInv, Failing, SeenModules
<1> QED
  BY <1>1, <1>2, <1>3, UniverseStays

\* A module's name means the module.
LEMMA ModuleIsFound ==
  ASSUME PlaceInv, UniverseInv, ~Failing({"modules"}), pass # "modules", NEW n
  PROVE  /\ n \in DOMAIN universe => /\ ModuleNamed(n) = {universe[n].id}
                                     /\ universe[n].kind = "module" /\ universe[n].pub = TRUE
                                     /\ \E f \in DOMAIN prog : /\ prog[f].name = n
                                                               /\ universe[n].id = <<f>>
         /\ n \notin DOMAIN universe => ModuleNamed(n) = {}
<1>1. /\ \A f \in DOMAIN prog : /\ prog[f].name \in DOMAIN universe
                                /\ universe[prog[f].name] = Symbol("module", Module, TRUE, <<f>>)
      /\ \A m \in DOMAIN universe : \E f \in DOMAIN prog : prog[f].name = m
  BY DEF UniverseInv, SeenModules
<1>2. CASE n \in DOMAIN universe
  <2>1. PICK f \in DOMAIN prog : prog[f].name = n
    BY <1>1, <1>2
  <2>2. universe[n] = Symbol("module", Module, TRUE, <<f>>)
    BY <1>1, <2>1
  <2>3. universe[n].id = <<f>> /\ universe[n].kind = "module" /\ universe[n].pub = TRUE
    BY <2>2 DEF Symbol
  <2>4. \A g \in DOMAIN prog : prog[g].name = n => <<g>> = <<f>>
    <3>1. \A g \in DOMAIN prog : universe[prog[g].name].id = <<g>>
      <4> TAKE g \in DOMAIN prog
      <4>1. universe[prog[g].name] = Symbol("module", Module, TRUE, <<g>>)
        BY <1>1
      <4>2. Symbol("module", Module, TRUE, <<g>>).id = <<g>>
        BY DEF Symbol
      <4> QED
        BY <4>1, <4>2
    <3> QED
      BY <2>3, <3>1
  <2>5. \A g \in DOMAIN prog : prog[g].name = n => g = f
    BY <2>4
  <2>6. {g \in DOMAIN prog : prog[g].name = n} = {f}
    BY <2>1, <2>5
  <2>7. ModuleNamed(n) = {<<f>>}
    BY <2>6 DEF ModuleNamed
  <2> QED
    BY <1>2, <2>1, <2>3, <2>7
<1>3. CASE n \notin DOMAIN universe
  BY <1>1, <1>3 DEF ModuleNamed
<1> QED
  BY <1>2, <1>3
-----------------------------------------------------------------------------
(* What becomes of the symbols of a scope. *)

\* The same symbol, but perhaps for its type.
Retyped(s, r) == r = s \/ \E t : r = [s EXCEPT !.type = t]

LEMMA RetypedKeeps ==
  ASSUME NEW s, NEW r, Retyped(s, r), NEW k, NEW p, NEW i, NEW a,
         s = [kind |-> k, type |-> s.type, pub |-> p, id |-> i, alias |-> a]
  PROVE  r = [kind |-> k, type |-> r.type, pub |-> p, id |-> i, alias |-> a]
<1>1. CASE r = s
  BY <1>1
<1>2. ASSUME NEW t, r = [s EXCEPT !.type = t]
      PROVE  r = [kind |-> k, type |-> r.type, pub |-> p, id |-> i, alias |-> a]
  <2>1. r = [kind |-> k, type |-> t, pub |-> p, id |-> i, alias |-> a]
    BY <1>2
  <2> QED
    BY <2>1
<1> QED
  BY <1>1, <1>2 DEF Retyped

LEMMA ForcedKeeps ==
  ASSUME NEW rs
  PROVE  /\ DOMAIN Forced(rs) = DOMAIN scope[file]
         /\ \A n \in DOMAIN scope[file] : Retyped(scope[file][n], Forced(rs)[n])
<1>1. PICK met : met = UNION {Chain(Scopes, a) : a \in {sym \in {TypeSymbol(Scopes, r) : r \in rs} : IsPending(sym)}}
  OBVIOUS
<1>2. Forced(rs) = [n \in DOMAIN scope[file] |->
                      IF scope[file][n] \in met
                      THEN [scope[file][n] EXCEPT !.type = ResolvedAlias(Scopes, scope[file][n])]
                      ELSE scope[file][n]]
  BY <1>1 DEF Forced
<1>3. ASSUME NEW n \in DOMAIN scope[file] PROVE Retyped(scope[file][n], Forced(rs)[n])
  <2>1. CASE scope[file][n] \in met
    BY <1>2, <1>3, <2>1 DEF Retyped
  <2>2. CASE scope[file][n] \notin met
    BY <1>2, <1>3, <2>2 DEF Retyped
  <2> QED
    BY <2>1, <2>2
<1> QED
  BY <1>2, <1>3

\* What Completed and Define leave alone.
LEMMA CompletedKeeps ==
  ASSUME NEW sc, NEW more
  PROVE  Completed(sc, more) = [n \in DOMAIN sc \cup DOMAIN more |->
                                  IF n \in DOMAIN sc THEN sc[n] ELSE more[n]]
  BY DEF Completed

KeptIn(g) == \A n \in DOMAIN scope[g] : n \in DOMAIN scope'[g] /\ Retyped(scope[g][n], scope'[g][n])

\* What each of the actions that write a scope makes of that scope.
LEMMA CollectWrites ==
  ASSUME PlaceInv, CollectDeclaration
  PROVE  /\ KeptIn(file)
         /\ Decl.kind \in {"sit", "lex", "actio"} =>
              /\ DOMAIN scope'[file] = DOMAIN scope[file] \cup {Decl.name}
              /\ Decl.name \notin DOMAIN scope[file] =>
                   \E t : scope'[file][Decl.name] = Symbol(Decl.kind, t, Decl.pub, <<file, decl>>)
              /\ Decl.name \in DOMAIN scope[file] => hadError'
         /\ Decl.kind \notin {"sit", "lex", "actio"} => DOMAIN scope'[file] = DOMAIN scope[file]
<1>1. file \in DOMAIN prog /\ scope = [f \in DOMAIN prog |-> scope[f]]
  BY DEF PlaceInv
<1>2. CASE Decl.kind \in {"sit", "lex", "actio"}
  <2>1. PICK type, forced, sym :
          /\ scope' = [scope EXCEPT ![file] = Define(forced, Decl.name, sym)]
          /\ forced = Forced(RefsOf(Decl))
          /\ sym = Symbol(Decl.kind, type, Decl.pub, <<file, decl>>)
    BY <1>2 DEF CollectDeclaration
  <2>2. scope'[file] = Define(forced, Decl.name, sym)
    BY <1>1, <2>1
  <2>3. /\ DOMAIN forced = DOMAIN scope[file]
        /\ \A n \in DOMAIN scope[file] : Retyped(scope[file][n], forced[n])
    BY <2>1, ForcedKeeps
  <2>4. scope'[file] = [m \in DOMAIN forced \cup {Decl.name} |-> IF m \in DOMAIN forced THEN forced[m] ELSE sym]
    BY <2>2, DefineIs
  <2>5. Decl.name \in DOMAIN scope[file] => hadError'
    BY <1>2 DEF CollectDeclaration, Advance
  <2>6. KeptIn(file)
    BY <2>3, <2>4 DEF KeptIn
  <2> QED
    BY <1>2, <2>1, <2>3, <2>4, <2>5, <2>6
<1>3. CASE Decl.kind \notin {"sit", "lex", "actio"}
  <2>1. PICK rs : scope' = [scope EXCEPT ![file] = Forced(rs)]
    BY <1>3 DEF CollectDeclaration
  <2>2. scope'[file] = Forced(rs)
    BY <1>1, <2>1
  <2>3. PICK forced : forced = Forced(rs)
    OBVIOUS
  <2>4. /\ DOMAIN forced = DOMAIN scope[file]
        /\ \A n \in DOMAIN scope[file] : Retyped(scope[file][n], forced[n])
    BY <2>3, ForcedKeeps
  <2> QED
    BY <1>3, <2>2, <2>3, <2>4 DEF KeptIn
<1> QED
  BY <1>2, <1>3

LEMMA ImportKeeps ==
  ASSUME PlaceInv, ImportDeclaration
  PROVE  KeptIn(file)
<1>1. file \in DOMAIN prog /\ scope = [f \in DOMAIN prog |-> scope[f]]
  BY DEF PlaceInv
<1>2. ASSUME NEW sc, scope'[file] = Completed(scope[file], sc) PROVE KeptIn(file)
  <2>1. scope'[file] = [n \in DOMAIN scope[file] \cup DOMAIN sc |->
                          IF n \in DOMAIN scope[file] THEN scope[file][n] ELSE sc[n]]
    BY <1>2, CompletedKeeps
  <2> QED
    BY <2>1 DEF KeptIn, Retyped
<1>3. ASSUME scope'[file] = scope[file] PROVE KeptIn(file)
  BY <1>3 DEF KeptIn, Retyped
<1>4. CASE Decl.kind # "importa"
  BY <1>3, <1>4 DEF ImportDeclaration
<1>5. CASE Decl.kind = "importa"
  <2>1. PICK m, items : /\ m = Find(universe, Decl.from)
                        /\ items = {Decl.items[i] : i \in DOMAIN Decl.items}
    OBVIOUS
  <2>2. PICK brought, self : /\ brought = [n \in {n \in items : Member(m, n) # NoSymbol} |-> Alias(Member(m, n))]
                             /\ self = [m EXCEPT !.pub = FALSE]
    OBVIOUS
  <2>3. scope'[file] = IF m = NoSymbol THEN scope[file]
                       ELSE IF items = {} THEN Define(scope[file], Decl.from, self)
                       ELSE Completed(scope[file], brought)
    BY <1>1, <1>5, <2>1, <2>2 DEF ImportDeclaration
  <2>4. PICK one : one = [n \in {Decl.from} |-> self]
    OBVIOUS
  <2>5. Define(scope[file], Decl.from, self) = Completed(scope[file], one)
    BY <2>4 DEF Define
  <2> QED
    BY <1>2, <1>3, <2>3, <2>5
<1> QED
  BY <1>4, <1>5

LEMMA GlobalKeeps ==
  ASSUME PlaceInv, CheckGlobal
  PROVE  KeptIn(file) /\ DOMAIN scope'[file] = DOMAIN scope[file]
<1>1. file \in DOMAIN prog /\ scope = [f \in DOMAIN prog |-> scope[f]]
  BY DEF PlaceInv
<1>2. CASE scope' = scope
  BY <1>2 DEF KeptIn, Retyped
<1>3. ASSUME NEW t, scope' = [scope EXCEPT ![file][Decl.name].type = t]
      PROVE  KeptIn(file) /\ DOMAIN scope'[file] = DOMAIN scope[file]
  <2>1. scope'[file] = [scope[file] EXCEPT ![Decl.name] = [scope[file][Decl.name] EXCEPT !.type = t]]
    BY <1>1, <1>3
  <2>2. DOMAIN scope'[file] = DOMAIN scope[file]
    BY <2>1
  <2>3. ASSUME NEW n \in DOMAIN scope[file] PROVE Retyped(scope[file][n], scope'[file][n])
    <3>1. CASE n = Decl.name
      <4>1. scope'[file][n] = [scope[file][n] EXCEPT !.type = t]
        BY <2>1, <2>3, <3>1
      <4> QED
        BY <4>1 DEF Retyped
    <3>2. CASE n # Decl.name
      <4>1. scope'[file][n] = scope[file][n]
        BY <2>1, <2>3, <3>2
      <4> QED
        BY <4>1 DEF Retyped
    <3> QED
      BY <3>1, <3>2
  <2> QED
    BY <2>2, <2>3 DEF KeptIn
<1> QED
  BY <1>2, <1>3 DEF CheckGlobal, Crash
\* A pass with an error comes to its end, and then the check is over.
LEMMA FailingStays ==
  ASSUME PlaceInv, [IrNext]_<<vars, irVars>>,
         NEW P, P \in {{"modules"}, {"modules", "collect"}, {"modules", "collect", "imports"}},
         Failing(P)
  PROVE  Failing(P)'
<1>1. pass \in {"modules", "collect", "imports", "rejected"} /\ (pass = "rejected" \/ (pass \in P /\ hadError))
  <2>1. pass = "rejected" \/ (pass \in P /\ hadError)
    BY DEF Failing
  <2>2. \A p \in P : p \in {"modules", "collect", "imports"}
    OBVIOUS
  <2> QED
    BY <2>1, <2>2
<1>2. CASE \/ RegisterModule \/ CollectTypeNames \/ CollectDeclaration \/ ImportDeclaration
           \/ CheckGlobal /\ pass' # "crashed"
           \/ EnterFunction /\ stmt' = 0
           \/ LeaveFunction \/ SkipDeclaration
  <2>1. Moves
    BY <1>2, WhoAdvances
  <2>2. pass \in P /\ hadError
    BY <1>1, <1>2, WhoAdvances
  <2>3. hadError'
    BY <2>1, <2>2 DEF Moves
  <2>4. pass' \in {pass, "rejected"}
    BY <1>1, <2>1, <2>2, <2>3, MovesOn
  <2> QED
    BY <2>2, <2>3, <2>4 DEF Failing
<1>3. CASE \/ EnterFunction /\ stmt' # 0
           \/ OpenBlock \/ CloseBlock
           \/ (DeclareLocal \/ Evaluate \/ Return) /\ pass' # "crashed"
  BY <1>1, <1>3, WhoFollows
<1>4. CASE Crash /\ pass = "bodies"
  BY <1>1, <1>4
<1>5. CASE Generate \/ Register \/ EvaluateConstant \/ EmitGlobal \/ EmitBody \/ EmitNothing
  BY <1>1, <1>5, WhoGenerates DEF Later
<1>6. CASE UNCHANGED <<vars, irVars>>
  BY <1>6 DEF vars, Failing
<1> QED
  BY <1>2, <1>3, <1>4, <1>5, <1>6, CheckStepKinds DEF IrNext

\* A symbol in a scope stays there, but for the scope that is just begun.
LEMMA ScopesGrow ==
  ASSUME PlaceInv, [IrNext]_<<vars, irVars>>, NEW g \in DOMAIN prog
  PROVE  \/ CollectTypeNames /\ g = file
         \/ KeptIn(g)
<1>1. ASSUME scope' = scope PROVE KeptIn(g)
  BY <1>1 DEF KeptIn, Retyped
<1>2. ASSUME scope'[g] = scope[g] PROVE KeptIn(g)
  BY <1>2 DEF KeptIn, Retyped
<1>3. CASE CheckGlobal
  <2>1. g # file => scope'[g] = scope[g]
    <3>1. CASE pass' = "crashed"
      <4>1. CheckGlobal => Crash
        BY <3>1 DEF CheckGlobal, Advance, NextPass
      <4> QED
        BY <1>3, <4>1 DEF Crash
    <3>2. CASE pass' # "crashed"
      BY <1>3, <3>2, WhoAdvances
    <3> QED
      BY <3>1, <3>2
  <2> QED
    BY <1>2, <1>3, <2>1, GlobalKeeps
<1>4. CASE CollectTypeNames
  BY <1>2, <1>4, WhoAdvances
<1>5. CASE CollectDeclaration
  BY <1>2, <1>5, WhoAdvances, CollectWrites
<1>6. CASE ImportDeclaration
  BY <1>2, <1>6, WhoAdvances, ImportKeeps
<1>7. CASE RegisterModule \/ EnterFunction \/ LeaveFunction \/ SkipDeclaration
  BY <1>1, <1>7 DEF RegisterModule, EnterFunction, LeaveFunction, SkipDeclaration
<1>8. CASE OpenBlock \/ CloseBlock \/ DeclareLocal \/ Evaluate \/ Return
  BY <1>1, <1>8 DEF OpenBlock, CloseBlock, DeclareLocal, Evaluate, Return, Follow, Crash
<1>9. CASE Generate \/ Register \/ EvaluateConstant \/ EmitGlobal \/ EmitBody \/ EmitNothing
  BY <1>1, <1>9, WhoGenerates DEF Checked
<1>10. CASE UNCHANGED <<vars, irVars>>
  BY <1>1, <1>10 DEF vars
<1> QED
  BY <1>3, <1>4, <1>5, <1>6, <1>7, <1>8, <1>9, <1>10 DEF IrNext, CheckStep, Next

-----------------------------------------------------------------------------
(* What a file declares. *)

LEMMA CollectedStep ==
  ASSUME PlaceInv, Moves, prog' = prog, pass = "collect", pass' # "rejected",
         NEW g \in DOMAIN prog, NEW d \in DOMAIN AllDecls(g)
  PROVE  d \in Collected(g)' <=>
           \/ d \in Collected(g)
           \/ /\ g = file /\ AllDecls(g)[d].kind # "importa"
              /\ \/ d = decl
                 \/ decl = 0 /\ AllDecls(g)[d].kind \in {"forma", "imago"}
<1>1. /\ AllDecls(g)' = AllDecls(g) /\ Len(AllDecls(g)) \in Nat /\ DOMAIN AllDecls(g) = 1 .. Len(AllDecls(g))
      /\ g \in Nat /\ file \in Nat /\ decl \in Nat /\ d \in 1 .. Len(AllDecls(g))
      /\ file \in DOMAIN prog /\ Decls = AllDecls(file) /\ Len(Decls) \in Nat
  BY ProgramIsProper, DeclAtHand DEF PlaceInv, AllDecls
<1>2. CASE pass' = "collect"
  <2>1. Begun(g, d)' <=> Begun(g, d) \/ (g = file /\ d = decl)
    BY <1>2, AdvanceBegins, MovesOn DEF NextPass
  <2>2. d \in Collected(g)' <=>
          /\ AllDecls(g)[d].kind # "importa"
          /\ Begun(g, d)' \/ (g = file' /\ decl' > 0 /\ AllDecls(g)[d].kind \in {"forma", "imago"})
    BY <1>1, <1>2 DEF Collected
  <2>3. d \in Collected(g) <=>
          /\ AllDecls(g)[d].kind # "importa"
          /\ Begun(g, d) \/ (g = file /\ decl > 0 /\ AllDecls(g)[d].kind \in {"forma", "imago"})
    BY <1>1 DEF Collected
  <2>4. \/ decl < Len(Decls) /\ decl' = decl + 1 /\ file' = file
        \/ ~(decl < Len(Decls)) /\ decl' = 0 /\ file' = file + 1
    BY <1>2 DEF Moves, First, NextPass
  <2>5. CASE decl < Len(Decls) /\ decl' = decl + 1 /\ file' = file
    <3>1. decl' > 0
      BY <1>1, <2>5
    <3>2. decl > 0 \/ decl = 0
      BY <1>1
    <3> QED
      BY <2>1, <2>2, <2>3, <2>5, <3>1, <3>2
  <2>6. CASE ~(decl < Len(Decls)) /\ decl' = 0 /\ file' = file + 1
    <3>1. g = file => Begun(g, d) \/ (g = file /\ d = decl)
      BY <1>1, <2>6 DEF Begun
    <3>2. ~(decl' > 0)
      BY <2>6
    <3> QED
      BY <2>1, <2>2, <2>3, <3>1, <3>2
  <2> QED
    BY <2>4, <2>5, <2>6
<1>3. CASE pass' # "collect"
  <2>1. /\ pass' = "imports"
        /\ Begun(g, d) \/ (g = file /\ d = decl)
    BY <1>3, AdvanceBegins DEF NextPass
  <2>2. d \in Collected(g)' <=> AllDecls(g)[d].kind # "importa"
    BY <1>1, <2>1 DEF Collected
  <2>3. d \in Collected(g) <=>
          /\ AllDecls(g)[d].kind # "importa"
          /\ Begun(g, d) \/ (g = file /\ decl > 0 /\ AllDecls(g)[d].kind \in {"forma", "imago"})
    BY <1>1 DEF Collected
  <2> QED
    BY <2>1, <2>2, <2>3
<1> QED
  BY <1>2, <1>3

LEMMA CollectedStays ==
  ASSUME PlaceInv, [IrNext]_<<vars, irVars>>, pass # "collect" \/ UNCHANGED vars, pass' # "rejected",
         NEW g \in DOMAIN prog
  PROVE  Collected(g)' = Collected(g)
<1>1. prog' = prog
  BY UniverseStays
<1>2. CASE UNCHANGED vars
  BY <1>2 DEF Collected, Begun, AllDecls, vars
<1>3. CASE pass = "modules" /\ RegisterModule
  <2>1. Moves
    BY <1>3, WhoAdvances
  <2>2. \/ pass' = "modules"
        \/ pass' = "collect" /\ file' = 1 /\ decl' = 0
    BY <1>3, <2>1 DEF Moves, NextPass, First
  <2>3. Collected(g) = {}
    BY <1>3 DEF Collected
  <2>4. CASE pass' = "modules"
    BY <2>3, <2>4 DEF Collected
  <2>5. CASE pass' = "collect" /\ file' = 1 /\ decl' = 0
    <3>1. ASSUME NEW d \in DOMAIN AllDecls(g) PROVE ~Begun(g, d)'
      BY <2>5, ProgramIsProper DEF Begun
    <3>2. Collected(g)' = {}
      BY <1>1, <2>5, <3>1 DEF Collected, AllDecls
    <3> QED
      BY <2>3, <3>2
  <2> QED
    BY <2>2, <2>4, <2>5
<1>4. CASE pass \notin {"modules", "collect", "rejected"} /\ pass' \notin {"modules", "collect"}
  BY <1>1, <1>4 DEF Collected, AllDecls
<1>5. CASE \/ RegisterModule \/ CollectTypeNames \/ CollectDeclaration \/ ImportDeclaration
           \/ CheckGlobal /\ pass' # "crashed"
           \/ EnterFunction /\ stmt' = 0
           \/ LeaveFunction \/ SkipDeclaration
  <2>1. CASE RegisterModule
    BY <1>3, <2>1 DEF RegisterModule
  <2>2. CASE pass # "modules"
    <3>1. Moves /\ pass \in {"modules", "collect", "imports", "bodies"}
      BY <1>5, WhoAdvances
    <3>2. pass # "collect" => Collected(g)' = Collected(g)
      BY <1>4, <2>2, <3>1, MovesOn DEF NextPass
    <3> QED
      BY <1>2, <3>2
  <2>3. pass = "modules" => RegisterModule
    BY <1>5 DEF RegisterModule, CollectTypeNames, CollectDeclaration, ImportDeclaration,
                CheckGlobal, EnterFunction, LeaveFunction, SkipDeclaration
  <2> QED
    BY <2>1, <2>2, <2>3
<1>6. CASE \/ EnterFunction /\ stmt' # 0
           \/ OpenBlock \/ CloseBlock
           \/ (DeclareLocal \/ Evaluate \/ Return) /\ pass' # "crashed"
  BY <1>4, <1>6, WhoFollows
<1>7. CASE Crash /\ pass = "bodies"
  BY <1>4, <1>7 DEF Crash
<1>8. CASE Generate \/ Register \/ EvaluateConstant \/ EmitGlobal \/ EmitBody \/ EmitNothing
  BY <1>4, <1>8, WhoGenerates DEF Later
<1> QED
  BY <1>2, <1>5, <1>6, <1>7, <1>8, CheckStepKinds DEF IrNext
\* The names of a file's types, if no two are the same.
LEMMA TypesWritten ==
  ASSUME PlaceInv, CollectTypeNames, ~hadError'
  PROVE  /\ \A d \in DOMAIN Decls : Decls[d].kind \in {"forma", "imago"} =>
              /\ Decls[d].name \in DOMAIN scope'[file]
              /\ scope'[file][Decls[d].name] =
                   Symbol(Decls[d].kind, scope'[file][Decls[d].name].type, Decls[d].pub, <<file, d>>)
         /\ \A n \in DOMAIN scope'[file] :
              \E d \in DOMAIN Decls : Decls[d].kind \in {"forma", "imago"} /\ Decls[d].name = n
<1> DEFINE types == {d \in DOMAIN Decls : Decls[d].kind \in {"forma", "imago"}}
           names == {Decls[d].name : d \in types}
           FirstOf(n) == CHOOSE d \in {e \in types : Decls[e].name = n} :
                           \A e \in {e \in types : Decls[e].name = n} : d <= e
<1>1. scope' = [scope EXCEPT ![file] =
                  [n \in names |->
                     Symbol(Decls[FirstOf(n)].kind,
                            IF Decls[FirstOf(n)].kind = "forma" THEN <<"forma", n>> ELSE NoType,
                            Decls[FirstOf(n)].pub, <<file, FirstOf(n)>>)]]
  BY DEF CollectTypeNames
<1>2. /\ types = {d \in DOMAIN Decls : Decls[d].kind \in {"forma", "imago"}}
      /\ names = {Decls[d].name : d \in types}
      /\ \A n : FirstOf(n) = CHOOSE d \in {e \in types : Decls[e].name = n} :
                              \A e \in {e \in types : Decls[e].name = n} : d <= e
      /\ Cardinality(names) = Cardinality(types)
  BY DEF CollectTypeNames, Advance
<1> HIDE DEF types, names, FirstOf
<1>3. /\ file \in DOMAIN prog /\ scope = [f \in DOMAIN prog |-> scope[f]]
      /\ Len(Decls) \in Nat /\ DOMAIN Decls = 1 .. Len(Decls)
  BY ProgramIsProper, DeclAtHand DEF PlaceInv
<1>5. IsFiniteSet(types) /\ types \in SUBSET Nat
  <2>1. types \subseteq 1 .. Len(Decls)
    BY <1>2, <1>3
  <2>2. IsFiniteSet(1 .. Len(Decls))
    BY <1>3, FS_Interval
  <2> QED
    BY <1>3, <2>1, <2>2, FS_Subset
<1>6. \A d, e \in types : Decls[d].name = Decls[e].name => d = e
  <2>1. PICK nm : nm = [d \in types |-> Decls[d].name]
    OBVIOUS
  <2>2. nm \in Surjection(types, names)
    BY <1>2, <2>1 DEF Surjection
  <2>3. nm \in Injection(types, names)
    BY <1>2, <1>5, <2>2, FS_Surjection
  <2>4. \A d, e \in types : nm[d] = nm[e] => d = e
    BY <2>1, <2>3 DEF Injection, IsInjective
  <2> QED
    BY <2>1, <2>4
<1>8. \A d \in types : FirstOf(Decls[d].name) = d
  <2> TAKE d \in types
  <2>1. {e \in types : Decls[e].name = Decls[d].name} = {d}
    BY <1>6
  <2>2. Decls[d].name \in names /\ d \in Nat
    BY <1>2, <1>5
  <2>3. FirstOf(Decls[d].name) = CHOOSE x \in {d} : \A e \in {d} : x <= e
    BY <1>2, <2>1
  <2>4. d <= d
    BY <2>2
  <2> QED
    BY <2>3, <2>4
<1>9. scope'[file] = [n \in names |->
                     Symbol(Decls[FirstOf(n)].kind,
                            IF Decls[FirstOf(n)].kind = "forma" THEN <<"forma", n>> ELSE NoType,
                            Decls[FirstOf(n)].pub, <<file, FirstOf(n)>>)]
  BY <1>1, <1>3
<1>10. ASSUME NEW d \in types
       PROVE  /\ Decls[d].name \in DOMAIN scope'[file]
              /\ scope'[file][Decls[d].name] =
                   Symbol(Decls[d].kind, scope'[file][Decls[d].name].type, Decls[d].pub, <<file, d>>)
  <2>1. PICK n : n = Decls[d].name
    OBVIOUS
  <2>2. n \in names /\ FirstOf(n) = d
    BY <1>2, <1>8, <2>1
  <2>3. PICK t : t = IF Decls[d].kind = "forma" THEN <<"forma", n>> ELSE NoType
    OBVIOUS
  <2>4. n \in DOMAIN scope'[file] /\ scope'[file][n] = Symbol(Decls[d].kind, t, Decls[d].pub, <<file, d>>)
    BY <1>9, <2>2, <2>3
  <2>5. scope'[file][n].type = t
    BY <2>4 DEF Symbol
  <2> QED
    BY <2>1, <2>4, <2>5
<1>11. \A n \in DOMAIN scope'[file] : \E d \in types : Decls[d].name = n
  BY <1>2, <1>9
<1> QED
  BY <1>2, <1>10, <1>11

LEMMA OwnStep ==
  ASSUME PlaceInv, OwnInv, [IrNext]_<<vars, irVars>>
  PROVE  OwnInv'
<1>1. CASE Failing({"modules", "collect"})'
  BY <1>1 DEF OwnInv
<1>2. CASE ~Failing({"modules", "collect"})'
  <2>1. prog' = prog /\ pass' # "rejected"
    BY <1>2, UniverseStays DEF Failing
  <2>2. ~Failing({"modules", "collect"})
    BY <1>2, FailingStays
  <2>3. \A g \in DOMAIN prog : \A d \in Collected(g) :
          /\ AllDecls(g)[d].name \in DOMAIN scope[g]
          /\ scope[g][AllDecls(g)[d].name] =
               Symbol(AllDecls(g)[d].kind, scope[g][AllDecls(g)[d].name].type, AllDecls(g)[d].pub, <<g, d>>)
    BY <2>2 DEF OwnInv
  <2>4. ASSUME NEW g \in DOMAIN prog, NEW d \in DOMAIN AllDecls(g), d \in Collected(g)'
        PROVE  /\ AllDecls(g)[d].name \in DOMAIN scope'[g]
               /\ scope'[g][AllDecls(g)[d].name] =
                    Symbol(AllDecls(g)[d].kind, scope'[g][AllDecls(g)[d].name].type,
                           AllDecls(g)[d].pub, <<g, d>>)
    <3>1. PICK n, x : x = AllDecls(g)[d] /\ n = x.name
      OBVIOUS
    <3>2. CASE d \in Collected(g) /\ KeptIn(g)
      <4>1. n \in DOMAIN scope[g] /\ scope[g][n] = Symbol(x.kind, scope[g][n].type, x.pub, <<g, d>>)
        BY <2>3, <3>1, <3>2
      <4>2. n \in DOMAIN scope'[g] /\ Retyped(scope[g][n], scope'[g][n])
        BY <3>2, <4>1 DEF KeptIn
      <4>3. PICK s, r : s = scope[g][n] /\ r = scope'[g][n]
        OBVIOUS
      <4>4. /\ Retyped(s, r)
            /\ s = [kind |-> x.kind, type |-> s.type, pub |-> x.pub, id |-> <<g, d>>, alias |-> FALSE]
        BY <4>1, <4>2, <4>3 DEF Symbol
      <4>5. r = [kind |-> x.kind, type |-> r.type, pub |-> x.pub, id |-> <<g, d>>, alias |-> FALSE]
        BY <4>4, RetypedKeeps
      <4> QED
        BY <3>1, <4>2, <4>3, <4>5 DEF Symbol
    <3>3. CASE pass # "collect" \/ UNCHANGED vars
      <4>1. d \in Collected(g)
        BY <2>1, <2>4, <3>3, CollectedStays
      <4>2. KeptIn(g)
        <5>1. CASE UNCHANGED vars
          BY <5>1 DEF KeptIn, Retyped, vars
        <5>2. CASE pass # "collect"
          BY <5>2, ScopesGrow DEF CollectTypeNames
        <5> QED
          BY <3>3, <5>1, <5>2
      <4> QED
        BY <3>2, <4>1, <4>2
    <3>4. CASE pass = "collect" /\ CollectTypeNames
      <4>1. Moves /\ decl = 0 /\ ~hadError' /\ file \in DOMAIN prog /\ Decls = AllDecls(file)
        <5>1. Moves
          BY <3>4, WhoAdvances
        <5>2. ~hadError'
          BY <1>2, <2>1, <3>4, <5>1, MovesOn DEF Failing, NextPass
        <5> QED
          BY <3>4, <5>1, <5>2, DeclAtHand DEF CollectTypeNames
      <4>2. \/ d \in Collected(g)
            \/ g = file /\ (d = decl \/ x.kind \in {"forma", "imago"})
        BY <2>1, <2>4, <3>1, <3>4, <4>1, CollectedStep
      <4>3. d \in Nat \ {0} /\ file \in Nat
        BY <2>4, ProgramIsProper DEF PlaceInv
      <4>4. CASE g = file /\ x.kind \in {"forma", "imago"}
        BY <3>1, <3>4, <4>1, <4>4, TypesWritten
      <4>5. CASE d \in Collected(g) /\ g # file
        BY <3>2, <4>5, ScopesGrow
      <4>6. d \in Collected(g) => g # file
        BY <3>4, <4>1, <4>3 DEF Collected, Begun
      <4> QED
        BY <4>1, <4>2, <4>3, <4>4, <4>5, <4>6
    <3>5. CASE pass = "collect" /\ CollectDeclaration
      <4>1. Moves /\ ~hadError' /\ file \in DOMAIN prog /\ Decls = AllDecls(file) /\ decl # 0
        <5>1. Moves
          BY <3>5, WhoAdvances
        <5>2. ~hadError'
          BY <1>2, <2>1, <3>5, <5>1, MovesOn DEF Failing, NextPass
        <5>3. decl # 0
          <6>1. decl > 0
            BY <3>5 DEF CollectDeclaration
          <6>2. decl \in Nat
            BY DEF PlaceInv
          <6> QED
            BY <6>1, <6>2
        <5> QED
          BY <5>1, <5>2, <5>3, DeclAtHand
      <4>2. KeptIn(g)
        BY <3>5, <4>1, ScopesGrow DEF CollectTypeNames
      <4>3. \/ d \in Collected(g)
            \/ g = file /\ d = decl /\ x.kind # "importa"
        BY <2>1, <2>4, <3>1, <3>5, <4>1, CollectedStep
      <4>4. CASE g = file /\ d = decl /\ x.kind # "importa" /\ d \notin Collected(g)
        <5>1. Decl = x /\ ProperDeclaration(x)
          BY <2>4, <3>1, <4>1, <4>4, DeclAtHand
        <5>2. x.kind \in {"sit", "lex", "actio"}
          <6>1. decl > 0
            BY <4>1 DEF PlaceInv
          <6>2. x.kind \notin {"forma", "imago"}
            BY <3>1, <3>5, <4>4, <6>1 DEF Collected
          <6> QED
            BY <4>4, <5>1, <6>2 DEF ProperDeclaration
        <5>3. PICK t : n \in DOMAIN scope'[file] /\ scope'[file][n] = Symbol(x.kind, t, x.pub, <<file, decl>>)
          BY <3>1, <3>5, <4>1, <5>1, <5>2, CollectWrites
        <5>4. scope'[file][n].type = t
          BY <5>3 DEF Symbol
        <5> QED
          BY <3>1, <4>4, <5>3, <5>4
      <4> QED
        BY <3>2, <4>2, <4>3, <4>4
    <3>6. pass = "collect" => CollectTypeNames \/ CollectDeclaration \/ UNCHANGED vars
      <4>1. ASSUME pass = "collect", CheckStep PROVE CollectTypeNames \/ CollectDeclaration
        BY <4>1 DEF CheckStep, Next, RegisterModule, ImportDeclaration, CheckGlobal, EnterFunction,
                    OpenBlock, CloseBlock, DeclareLocal, Evaluate, Return, LeaveFunction,
                    SkipDeclaration, InBody
      <4>2. ASSUME pass = "collect" PROVE ~(Generate \/ Register \/ EvaluateConstant \/ EmitGlobal \/ EmitBody \/ EmitNothing)
        BY <4>2, WhoGenerates DEF Later
      <4> QED
        BY <4>1, <4>2 DEF IrNext, vars
    <3> QED
      BY <3>3, <3>4, <3>5, <3>6
  <2>5. \A g \in DOMAIN prog : AllDecls(g)' = AllDecls(g) /\ Collected(g)' \subseteq DOMAIN AllDecls(g)
    BY <2>1 DEF AllDecls, Collected
  <2> QED
    BY <2>1, <2>4, <2>5 DEF OwnInv, Symbol
<1> QED
  BY <1>1, <1>2
-----------------------------------------------------------------------------
(* What a file imports. *)

LEMMA ImportedStep ==
  ASSUME PlaceInv, Moves, prog' = prog, pass = "imports", pass' # "rejected",
         NEW g \in DOMAIN prog, NEW n, NEW d \in DOMAIN AllDecls(g)
  PROVE  d \in Imported(g, n)' <=> \/ d \in Imported(g, n)
                                   \/ g = file /\ d = decl /\ Brings(g, d, n)
<1>1. Brings(g, d, n)' <=> Brings(g, d, n)
  BY DEF Brings, AllDecls
<1>2. AllDecls(g)' = AllDecls(g)
  BY DEF AllDecls
<1>3. CASE pass' = "imports"
  <2>1. Begun(g, d)' <=> Begun(g, d) \/ (g = file /\ d = decl)
    BY <1>3, AdvanceBegins, MovesOn DEF NextPass
  <2> QED
    BY <1>1, <1>2, <1>3, <2>1 DEF Imported
<1>4. CASE pass' = "bodies"
  <2>1. Begun(g, d) \/ (g = file /\ d = decl)
    BY <1>4, AdvanceBegins
  <2> QED
    BY <1>1, <1>2, <1>4, <2>1 DEF Imported
<1>5. pass' \in {"imports", "bodies"}
  BY MovesOn DEF NextPass
<1> QED
  BY <1>3, <1>4, <1>5

\* What each step does to the pass.
LEMMA PassKinds ==
  ASSUME PlaceInv, [IrNext]_<<vars, irVars>>
  PROVE  \/ UNCHANGED <<vars, irVars>>
         \/ pass = "modules" /\ RegisterModule
         \/ pass = "collect" /\ (CollectTypeNames \/ CollectDeclaration)
         \/ pass = "imports" /\ ImportDeclaration
         \/ pass \notin {"modules", "collect", "imports", "rejected"} /\ pass' \notin {"modules", "collect", "imports"}
<1>1. CASE RegisterModule
  BY <1>1 DEF RegisterModule
<1>2. CASE CollectTypeNames \/ CollectDeclaration
  BY <1>2 DEF CollectTypeNames, CollectDeclaration
<1>3. CASE ImportDeclaration
  BY <1>3 DEF ImportDeclaration
<1>4. CASE \/ CheckGlobal /\ pass' # "crashed"
           \/ EnterFunction /\ stmt' = 0
           \/ LeaveFunction \/ SkipDeclaration
  <2>1. Moves /\ pass = "bodies"
    BY <1>4, WhoAdvances DEF CheckGlobal, EnterFunction, LeaveFunction, SkipDeclaration
  <2> QED
    BY <2>1, MovesOn DEF NextPass
<1>5. CASE \/ EnterFunction /\ stmt' # 0
           \/ OpenBlock \/ CloseBlock
           \/ (DeclareLocal \/ Evaluate \/ Return) /\ pass' # "crashed"
  BY <1>5, WhoFollows
<1>6. CASE Crash /\ pass = "bodies"
  BY <1>6 DEF Crash
<1>7. CASE Generate \/ Register \/ EvaluateConstant \/ EmitGlobal \/ EmitBody \/ EmitNothing
  BY <1>7, WhoGenerates DEF Later
<1> QED
  BY <1>1, <1>2, <1>3, <1>4, <1>5, <1>6, <1>7, CheckStepKinds DEF IrNext

LEMMA ImportedStays ==
  ASSUME PlaceInv, [IrNext]_<<vars, irVars>>, pass # "imports" \/ UNCHANGED <<vars, irVars>>,
         pass' # "rejected", NEW g \in DOMAIN prog, NEW n
  PROVE  Imported(g, n)' = Imported(g, n)
<1>1. prog' = prog
  BY UniverseStays
<1>2. \A d : Brings(g, d, n)' <=> Brings(g, d, n)
  BY <1>1 DEF Brings, AllDecls
<1>3. AllDecls(g)' = AllDecls(g)
  BY <1>1 DEF AllDecls
<1>4. CASE UNCHANGED <<vars, irVars>>
  BY <1>2, <1>3, <1>4 DEF Imported, Begun, vars
<1>5. CASE pass = "modules" /\ RegisterModule
  <2>1. pass' \in {"modules", "collect"}
    BY <1>5, WhoAdvances, MovesOn DEF NextPass
  <2> QED
    BY <1>5, <2>1 DEF Imported
<1>6. CASE pass = "collect" /\ (CollectTypeNames \/ CollectDeclaration)
  <2>1. Moves
    BY <1>6, WhoAdvances
  <2>2. \/ pass' = "collect"
        \/ pass' = "imports" /\ file' = 1 /\ decl' = 1
    BY <1>6, <2>1 DEF Moves, NextPass, First
  <2>3. Imported(g, n) = {}
    BY <1>6 DEF Imported
  <2>4. CASE pass' = "collect"
    BY <2>3, <2>4 DEF Imported
  <2>5. CASE pass' = "imports" /\ file' = 1 /\ decl' = 1
    <3>1. ASSUME NEW d \in DOMAIN AllDecls(g) PROVE ~Begun(g, d)'
      BY <2>5, ProgramIsProper DEF Begun
    <3>2. Imported(g, n)' = {}
      BY <1>3, <2>5, <3>1 DEF Imported
    <3> QED
      BY <2>3, <3>2
  <2> QED
    BY <2>2, <2>4, <2>5
<1>7. CASE pass \notin {"modules", "collect", "imports", "rejected"} /\ pass' \notin {"modules", "collect", "imports"}
  BY <1>2, <1>3, <1>7 DEF Imported
<1> QED
  BY <1>4, <1>5, <1>6, <1>7, PassKinds

Settled == ~Failing({"modules", "collect", "imports"}) /\ pass \notin {"modules", "collect"}

LEMMA SettledFacts ==
  ASSUME Settled
  PROVE  ~Failing({"modules"}) /\ ~Failing({"modules", "collect"})
  BY DEF Settled, Failing

\* Of a file whose declarations are collected, others see the public ones.
LEMMA PublicIsFound ==
  ASSUME PlaceInv, OwnInv, ScopeInv, Settled, NEW h \in DOMAIN prog, NEW n, NEW s, s = Find(scope[h], n)
  PROVE  /\ s.pub \in BOOLEAN
         /\ s.pub => /\ \E d \in DOMAIN AllDecls(h) : s.id = <<h, d>>
                     /\ s = [kind |-> s.kind, type |-> s.type, pub |-> s.pub, id |-> s.id, alias |-> s.alias]
                     /\ s.kind = DeclOf(s.id).kind /\ s.kind # "importa"
                     /\ Public(n, {<<h>>}) = {s.id}
         /\ ~s.pub => Public(n, {<<h>>}) = {}
<1>1. /\ \A d \in Collected(h) :
           LET x == AllDecls(h)[d]
           IN  /\ x.name \in DOMAIN scope[h]
               /\ scope[h][x.name] = Symbol(x.kind, scope[h][x.name].type, x.pub, <<h, d>>)
      /\ \A m \in DOMAIN scope[h] : OwnNow(h, m) # {} \/ Imported(h, m) # {}
      /\ \A m : OwnNow(h, m) = {} /\ Imported(h, m) # {} =>
           m \in DOMAIN scope[h] /\ BroughtBy(AllDecls(h)[Least(Imported(h, m))], m, scope[h][m])
  BY SettledFacts DEF OwnInv, ScopeInv, AccountedFor, Settled
<1>2. Collected(h) = {d \in DOMAIN AllDecls(h) : AllDecls(h)[d].kind # "importa"}
  BY DEF Collected, Settled
<1>3. Own(h, n) = {<<h, d>> : d \in OwnNow(h, n)}
  BY <1>2 DEF Own, OwnNow, AllDecls
<1>4. Public(n, {<<h>>}) = {id \in Own(h, n) : DeclOf(id).pub}
  <2>1. {Own(f[1], n) : f \in {<<h>>}} = {Own(h, n)}
    OBVIOUS
  <2> QED
    BY <2>1 DEF Public
<1>5. CASE OwnNow(h, n) # {}
  <2>1. PICK d \in Collected(h) : AllDecls(h)[d].name = n
    BY <1>5 DEF OwnNow
  <2>2. PICK x : x = AllDecls(h)[d]
    OBVIOUS
  <2>3. n \in DOMAIN scope[h] /\ scope[h][n] = Symbol(x.kind, scope[h][n].type, x.pub, <<h, d>>)
    BY <1>1, <2>1, <2>2
  <2>4. s = Symbol(x.kind, s.type, x.pub, <<h, d>>)
    BY <2>3 DEF Find
  <2>5. /\ s.kind = x.kind /\ s.pub = x.pub /\ s.id = <<h, d>>
        /\ s = [kind |-> s.kind, type |-> s.type, pub |-> s.pub, id |-> s.id, alias |-> s.alias]
    BY <2>4 DEF Symbol
  <2>6. x.pub \in BOOLEAN /\ x.kind # "importa" /\ d \in DOMAIN AllDecls(h)
    BY <1>2, <2>1, <2>2, ProgramIsProper DEF ProperDeclaration
  <2>7. \A e \in OwnNow(h, n) : <<h, e>> = <<h, d>>
    <3> TAKE e \in OwnNow(h, n)
    <3>1. e \in Collected(h) /\ AllDecls(h)[e].name = n
      BY DEF OwnNow
    <3>2. scope[h][n] = Symbol(AllDecls(h)[e].kind, scope[h][n].type, AllDecls(h)[e].pub, <<h, e>>)
      BY <1>1, <3>1
    <3>3. scope[h][n].id = <<h, e>>
      BY <3>2 DEF Symbol
    <3>4. scope[h][n].id = <<h, d>>
      BY <2>3 DEF Symbol
    <3> QED
      BY <3>3, <3>4
  <2>8. Own(h, n) = {<<h, d>>}
    BY <1>3, <1>5, <2>7
  <2>9. DeclOf(<<h, d>>) = x
    BY <2>2 DEF DeclOf, AllDecls
  <2>10. Public(n, {<<h>>}) = IF x.pub THEN {<<h, d>>} ELSE {}
    BY <1>4, <2>8, <2>9
  <2> QED
    BY <2>5, <2>6, <2>9, <2>10
<1>6. CASE OwnNow(h, n) = {}
  <2>1. Public(n, {<<h>>}) = {}
    BY <1>3, <1>4, <1>6
  <2>2. CASE n \in DOMAIN scope[h]
    <3>1. BroughtBy(AllDecls(h)[Least(Imported(h, n))], n, s)
      BY <1>1, <1>6, <2>2 DEF Find
    <3>2. s.pub = FALSE
      BY <3>1 DEF BroughtBy
    <3> QED
      BY <2>1, <3>2
  <2>3. CASE n \notin DOMAIN scope[h]
    <3>1. s.pub = FALSE
      BY <2>3 DEF Find, NoSymbol, Symbol
    <3> QED
      BY <2>1, <3>1
  <2> QED
    BY <2>2, <2>3
<1> QED
  BY <1>5, <1>6

\* What a name qualified by a module's symbol reaches.
LEMMA MemberIsPublic ==
  ASSUME PlaceInv, OwnInv, ScopeInv, Settled, NEW h \in DOMAIN prog, NEW n, NEW m,
         m.kind = "module", m.id = <<h>>
  PROVE  \/ Member(m, n) = NoSymbol /\ Public(n, {m.id}) = {}
         \/ /\ Public(n, {m.id}) = {Member(m, n).id}
            /\ \E d \in DOMAIN AllDecls(h) : Member(m, n).id = <<h, d>>
            /\ Member(m, n) = [kind |-> Member(m, n).kind, type |-> Member(m, n).type, pub |-> Member(m, n).pub,
                               id |-> Member(m, n).id, alias |-> Member(m, n).alias]
            /\ Member(m, n).kind = DeclOf(Member(m, n).id).kind
<1>1. PICK s, r : s = Find(scope[h], n) /\ r = Member(m, n)
  OBVIOUS
<1>2. r = IF s.pub THEN s ELSE NoSymbol
  BY <1>1 DEF Member
<1>3. /\ s.pub \in BOOLEAN
      /\ s.pub => /\ \E d \in DOMAIN AllDecls(h) : s.id = <<h, d>>
                  /\ s = [kind |-> s.kind, type |-> s.type, pub |-> s.pub, id |-> s.id, alias |-> s.alias]
                  /\ s.kind = DeclOf(s.id).kind
                  /\ Public(n, {<<h>>}) = {s.id}
      /\ ~s.pub => Public(n, {<<h>>}) = {}
  BY <1>1, PublicIsFound
<1>4. CASE s.pub
  <2>1. r = s
    BY <1>2, <1>4
  <2> QED
    BY <1>1, <1>3, <1>4, <2>1
<1>5. CASE ~s.pub
  BY <1>1, <1>2, <1>3, <1>5
<1> QED
  BY <1>3, <1>4, <1>5
LEMMA NoItems ==
  ASSUME NEW s, IsSeq(s)
  PROVE  {s[i] : i \in DOMAIN s} = {} <=> s = <<>>
<1>1. Len(s) \in Nat /\ s = [i \in 1 .. Len(s) |-> s[i]]
  BY DEF IsSeq
<1>2. DOMAIN s = 1 .. Len(s)
  BY <1>1
<1>3. ASSUME {s[i] : i \in DOMAIN s} = {} PROVE s = <<>>
  <2>1. DOMAIN s = {}
    BY <1>3
  <2>2. s = [i \in {} |-> s[i]]
    BY <1>1, <1>2, <2>1
  <2>3. \A i \in {} : s[i] = <<>>[i]
    OBVIOUS
  <2>4. <<>> = [i \in {} |-> <<>>[i]]
    OBVIOUS
  <2> QED
    BY <2>2, <2>3, <2>4
<1>4. s = <<>> => {s[i] : i \in DOMAIN s} = {}
  OBVIOUS
<1> QED
  BY <1>3, <1>4

\* An import that finds everything it asks for.
LEMMA ImportWrites ==
  ASSUME PlaceInv, UniverseInv, OwnInv, ScopeInv, Settled, ImportDeclaration, ~hadError',
         Decl.kind = "importa"
  PROVE  /\ \A n \in DOMAIN scope'[file] : n \in DOMAIN scope[file] \/ Brings(file, decl, n)
         /\ \A n : Brings(file, decl, n) /\ n \notin DOMAIN scope[file] =>
              n \in DOMAIN scope'[file] /\ BroughtBy(Decl, n, scope'[file][n])
<1>1. /\ file \in DOMAIN prog /\ scope = [f \in DOMAIN prog |-> scope[f]]
      /\ Decl = AllDecls(file)[decl] /\ IsSeq(Decl.items)
  <2>1. Decl = AllDecls(file)[decl] /\ ProperDeclaration(Decl)
    BY DeclAtHand
  <2> QED
    BY <2>1 DEF PlaceInv, ProperDeclaration
<1>2. PICK m, items : /\ m = Find(universe, Decl.from)
                      /\ items = {Decl.items[i] : i \in DOMAIN Decl.items}
  OBVIOUS
<1>3. PICK brought, self : /\ brought = [n \in {n \in items : Member(m, n) # NoSymbol} |-> Alias(Member(m, n))]
                           /\ self = [m EXCEPT !.pub = FALSE]
  OBVIOUS
<1>4. scope'[file] = IF m = NoSymbol THEN scope[file]
                     ELSE IF items = {} THEN Define(scope[file], Decl.from, self)
                     ELSE Completed(scope[file], brought)
  <2>1. file \in DOMAIN prog /\ scope = [f \in DOMAIN prog |-> scope[f]]
    BY <1>1
  <2> QED
    BY <2>1, <1>2, <1>3 DEF ImportDeclaration
<1>5. m # NoSymbol /\ {n \in items : Member(m, n) # NoSymbol} = items
  BY <1>2 DEF ImportDeclaration, Advance
<1>6. items = {} <=> Decl.items = <<>>
  BY <1>1, <1>2, NoItems
<1>7. Decl.from \in DOMAIN universe /\ m = universe[Decl.from]
  BY <1>2, <1>5 DEF Find
<1>8. PICK h \in DOMAIN prog : m.id = <<h>> /\ prog[h].name = Decl.from
  BY <1>7, SettledFacts, ModuleIsFound DEF Settled
<1>9. ModuleNamed(Decl.from) = {m.id} /\ m = Symbol("module", Module, TRUE, <<h>>)
  <2>1. m = Symbol("module", Module, TRUE, <<h>>)
    BY <1>7, <1>8, SettledFacts DEF UniverseInv, SeenModules, Settled
  <2> QED
    BY <1>7, <2>1, SettledFacts, ModuleIsFound DEF Settled
<1>10. m.kind = "module"
  BY <1>9 DEF Symbol
<1>11. \A n : Brings(file, decl, n) <=> (n \in items \/ (items = {} /\ Decl.from = n))
  BY <1>1, <1>2, <1>6 DEF Brings
<1>12. CASE items = {}
  <2>1. scope'[file] = [n \in DOMAIN scope[file] \cup {Decl.from} |->
                          IF n \in DOMAIN scope[file] THEN scope[file][n] ELSE self]
    BY <1>4, <1>5, <1>12, DefineIs
  <2>2. self = [kind |-> "module", type |-> Module, pub |-> FALSE, id |-> <<h>>, alias |-> FALSE]
    BY <1>3, <1>9 DEF Symbol
  <2>3. self.id = m.id /\ self.kind = "module" /\ self.pub = FALSE
        /\ self = [kind |-> self.kind, type |-> self.type, pub |-> FALSE, id |-> self.id, alias |-> self.alias]
    BY <1>8, <2>2
  <2>4. BroughtBy(Decl, Decl.from, self)
    BY <1>6, <1>9, <1>12, <2>3 DEF BroughtBy
  <2> QED
    BY <1>11, <1>12, <2>1, <2>4
<1>13. CASE items # {}
  <2>1. scope'[file] = [n \in DOMAIN scope[file] \cup DOMAIN brought |->
                          IF n \in DOMAIN scope[file] THEN scope[file][n] ELSE brought[n]]
    BY <1>4, <1>5, <1>13, CompletedKeeps
  <2>2. brought = [n \in items |-> Alias(Member(m, n))]
    BY <1>3, <1>5
  <2>3. ASSUME NEW n \in items PROVE BroughtBy(Decl, n, brought[n])
    <3>1. PICK r : r = Member(m, n)
      OBVIOUS
    <3>2. r # NoSymbol
      BY <1>5, <2>3, <3>1
    <3>3. /\ Public(n, {m.id}) = {r.id}
          /\ r = [kind |-> r.kind, type |-> r.type, pub |-> r.pub, id |-> r.id, alias |-> r.alias]
          /\ r.kind = DeclOf(r.id).kind
      BY <1>8, <1>10, <3>1, <3>2, MemberIsPublic
    <3>4. brought[n] = [kind |-> r.kind, type |-> r.type, pub |-> FALSE, id |-> r.id, alias |-> TRUE]
      BY <2>2, <2>3, <3>1, <3>3 DEF Alias
    <3>5. PICK b : b = brought[n]
      OBVIOUS
    <3>6. /\ b = [kind |-> b.kind, type |-> b.type, pub |-> FALSE, id |-> b.id, alias |-> b.alias]
          /\ b.id = r.id /\ b.kind = r.kind
      BY <3>4, <3>5
    <3>7. Decl.items # <<>>
      BY <1>6, <1>13
    <3>8. Public(n, ModuleNamed(Decl.from)) = {b.id}
      BY <1>9, <3>3, <3>6
    <3>9. b.kind = DeclOf(b.id).kind
      BY <3>3, <3>6
    <3>10. BroughtBy(Decl, n, b)
      BY <3>6, <3>7, <3>8, <3>9 DEF BroughtBy
    <3> QED
      BY <3>5, <3>10
  <2>4. DOMAIN brought = items
    BY <2>2
  <2> QED
    BY <1>11, <1>13, <2>1, <2>3, <2>4
<1> QED
  BY <1>12, <1>13
LEMMA BroughtStays ==
  ASSUME prog' = prog, NEW i, NEW n, NEW s
  PROVE  BroughtBy(i, n, s)' <=> BroughtBy(i, n, s)
<1>1. \A m : ModuleNamed(m)' = ModuleNamed(m)
  BY DEF ModuleNamed
<1>2. \A f, m : Own(f, m)' = Own(f, m)
  BY DEF Own
<1>3. \A id : DeclOf(id)' = DeclOf(id)
  BY DEF DeclOf
<1>4. \A m, S : Public(m, S)' = Public(m, S)
  <2> TAKE m, S
  <2>1. {Own(f[1], m)' : f \in S} = {Own(f[1], m) : f \in S}
    BY <1>2
  <2> QED
    BY <1>3, <2>1 DEF Public
<1>5. Public(n, ModuleNamed(i.from))' = Public(n, ModuleNamed(i.from))
  BY <1>1, <1>4
<1>6. ModuleNamed(n)' = ModuleNamed(n) /\ DeclOf(s.id)' = DeclOf(s.id)
  BY <1>1, <1>3
<1> QED
  BY <1>5, <1>6 DEF BroughtBy

LEMMA RetypedIsBrought ==
  ASSUME NEW i, NEW n, NEW s, NEW r, BroughtBy(i, n, s), Retyped(s, r)
  PROVE  BroughtBy(i, n, r)
<1>1. s = [kind |-> s.kind, type |-> s.type, pub |-> FALSE, id |-> s.id, alias |-> s.alias]
  BY DEF BroughtBy
<1>2. PICK k, p, j, a : k = s.kind /\ p = FALSE /\ j = s.id /\ a = s.alias
  OBVIOUS
<1>3. r = [kind |-> k, type |-> r.type, pub |-> p, id |-> j, alias |-> a]
  <2>1. s = [kind |-> k, type |-> s.type, pub |-> p, id |-> j, alias |-> a]
    BY <1>1, <1>2, Zenon
  <2> QED
    BY <2>1, RetypedKeeps
<1>4. r.kind = s.kind /\ r.id = s.id /\ r.alias = s.alias
  BY <1>2, <1>3
<1>5. r = [kind |-> r.kind, type |-> r.type, pub |-> FALSE, id |-> r.id, alias |-> r.alias]
  BY <1>2, <1>3, <1>4
<1> QED
  BY <1>4, <1>5 DEF BroughtBy

\* What a step leaves alone is accounted for behind it.
LEMMA StaysAccounted ==
  ASSUME prog' = prog, NEW g, AccountedFor(g), KeptIn(g),
         \A n \in DOMAIN scope'[g] : n \in DOMAIN scope[g],
         Collected(g)' = Collected(g), \A n : Imported(g, n)' = Imported(g, n)
  PROVE  AccountedFor(g)'
<1>1. AllDecls(g)' = AllDecls(g)
  BY DEF AllDecls
<1>2. \A n : OwnNow(g, n)' = OwnNow(g, n)
  BY <1>1 DEF OwnNow
<1>3. ASSUME NEW n \in DOMAIN scope'[g] PROVE OwnNow(g, n)' # {} \/ Imported(g, n)' # {}
  BY <1>2, <1>3 DEF AccountedFor
<1>4. ASSUME NEW n, OwnNow(g, n)' = {} /\ Imported(g, n)' # {}
      PROVE  n \in DOMAIN scope'[g] /\ BroughtBy(AllDecls(g)[Least(Imported(g, n))], n, scope[g][n])'
  <2>1. PICK i : i = AllDecls(g)[Least(Imported(g, n))] /\ i = AllDecls(g)'[Least(Imported(g, n)')]
    BY <1>1
  <2>2. n \in DOMAIN scope[g] /\ BroughtBy(i, n, scope[g][n])
    BY <1>2, <1>4, <2>1 DEF AccountedFor
  <2>3. n \in DOMAIN scope'[g] /\ Retyped(scope[g][n], scope'[g][n])
    BY <2>2 DEF KeptIn
  <2>4. PICK s, r : s = scope[g][n] /\ r = scope'[g][n]
    OBVIOUS
  <2>5. BroughtBy(i, n, r)
    BY <2>2, <2>3, <2>4, RetypedIsBrought
  <2>6. BroughtBy(i, n, r)'
    BY <2>5, BroughtStays
  <2> QED
    BY <2>1, <2>3, <2>4, <2>6
<1> QED
  BY <1>3, <1>4 DEF AccountedFor

\* While declarations are collected nothing is imported, and every name of
\* a scope is the file's own.
LEMMA CollectAccounts ==
  ASSUME PlaceInv, [IrNext]_<<vars, irVars>>, pass = "collect", pass' # "rejected", ~hadError',
         CollectTypeNames \/ CollectDeclaration,
         NEW g \in DOMAIN prog, AccountedFor(g)
  PROVE  AccountedFor(g)'
<1>1. Moves /\ prog' = prog /\ (g # file => scope'[g] = scope[g])
  BY WhoAdvances
<1>2. \A n : Imported(g, n) = {}
  BY DEF Imported
<1>3. \A n : Imported(g, n)' = {}
  BY <1>2, ImportedStays
<1>4. \A d \in DOMAIN AllDecls(g) :
        d \in Collected(g)' <=>
          \/ d \in Collected(g)
          \/ /\ g = file /\ AllDecls(g)[d].kind # "importa"
             /\ \/ d = decl
                \/ decl = 0 /\ AllDecls(g)[d].kind \in {"forma", "imago"}
  BY <1>1, CollectedStep
<1>5. AllDecls(g)' = AllDecls(g) /\ Collected(g) \subseteq DOMAIN AllDecls(g)
  BY <1>1 DEF AllDecls, Collected
<1>6. ASSUME NEW n, NEW d \in DOMAIN AllDecls(g), d \in Collected(g)', AllDecls(g)[d].name = n
      PROVE  OwnNow(g, n)' # {}
  BY <1>5, <1>6 DEF OwnNow
<1>7. ASSUME NEW n \in DOMAIN scope[g] PROVE OwnNow(g, n)' # {}
  <2>1. PICK d \in OwnNow(g, n) : TRUE
    BY <1>2 DEF AccountedFor
  <2>2. d \in Collected(g) /\ AllDecls(g)[d].name = n /\ d \in DOMAIN AllDecls(g)
    BY <1>5, <2>1 DEF OwnNow
  <2> QED
    BY <1>4, <1>6, <2>2
<1>8. ASSUME NEW n \in DOMAIN scope'[g] PROVE OwnNow(g, n)' # {}
  <2>1. CASE g # file
    BY <1>1, <1>7, <1>8, <2>1
  <2>2. CASE g = file /\ CollectTypeNames
    <3>1. Decls = AllDecls(g) /\ decl = 0
      BY <2>2, DeclAtHand DEF CollectTypeNames
    <3>2. PICK d \in DOMAIN AllDecls(g) : AllDecls(g)[d].kind \in {"forma", "imago"} /\ AllDecls(g)[d].name = n
      BY <1>8, <2>2, <3>1, TypesWritten
    <3> QED
      BY <1>4, <1>6, <2>2, <3>1, <3>2
  <2>3. CASE g = file /\ CollectDeclaration /\ n \notin DOMAIN scope[g]
    <3>1. Decl.kind \in {"sit", "lex", "actio"} /\ n = Decl.name
      BY <1>8, <2>3, CollectWrites
    <3>2. decl \in DOMAIN AllDecls(g) /\ Decl = AllDecls(g)[decl]
      BY <2>3, <3>1, DeclAtHand
    <3>3. decl \in Collected(g)'
      BY <1>4, <2>3, <3>1, <3>2
    <3> QED
      BY <1>6, <3>1, <3>2, <3>3
  <2> QED
    BY <1>7, <2>1, <2>2, <2>3
<1> QED
  BY <1>3, <1>8 DEF AccountedFor

\* Behind the imports no scope of a file gets another name.
LEMMA LaterKeepsNames ==
  ASSUME PlaceInv, [IrNext]_<<vars, irVars>>, pass \notin {"modules", "collect", "imports"},
         NEW g \in DOMAIN prog
  PROVE  DOMAIN scope'[g] = DOMAIN scope[g]
<1>1. CASE CheckGlobal
  <2>1. g # file => scope'[g] = scope[g]
    <3>1. CASE pass' = "crashed"
      <4>1. CheckGlobal => Crash
        BY <3>1 DEF CheckGlobal, Advance, NextPass
      <4> QED
        BY <1>1, <4>1 DEF Crash
    <3>2. CASE pass' # "crashed"
      BY <1>1, <3>2, WhoAdvances
    <3> QED
      BY <3>1, <3>2
  <2> QED
    BY <1>1, <2>1, GlobalKeeps
<1>2. CASE EnterFunction \/ LeaveFunction \/ SkipDeclaration
  BY <1>2 DEF EnterFunction, LeaveFunction, SkipDeclaration
<1>3. CASE OpenBlock \/ CloseBlock \/ DeclareLocal \/ Evaluate \/ Return
  BY <1>3 DEF OpenBlock, CloseBlock, DeclareLocal, Evaluate, Return, Follow, Crash
<1>4. CASE Generate \/ Register \/ EvaluateConstant \/ EmitGlobal \/ EmitBody \/ EmitNothing
  BY <1>4, WhoGenerates DEF Checked
<1>5. CASE UNCHANGED <<vars, irVars>>
  BY <1>5 DEF vars
<1>6. ~(RegisterModule \/ CollectTypeNames \/ CollectDeclaration \/ ImportDeclaration)
  BY DEF RegisterModule, CollectTypeNames, CollectDeclaration, ImportDeclaration
<1> QED
  BY <1>1, <1>2, <1>3, <1>4, <1>5, <1>6 DEF IrNext, CheckStep, Next

\* An import brings in what the file has not had before; a file whose
\* imports are only begun holds nothing else.
LEMMA ImportAccounts ==
  ASSUME PlaceInv, UniverseInv, OwnInv, ScopeInv, Settled, [IrNext]_<<vars, irVars>>,
         ImportDeclaration, pass' # "rejected", ~hadError',
         NEW g \in DOMAIN prog
  PROVE  AccountedFor(g)'
<1>1. /\ Moves /\ prog' = prog /\ (g # file => scope'[g] = scope[g])
      /\ pass = "imports" /\ AccountedFor(g)
  BY WhoAdvances DEF ScopeInv, Settled, ImportDeclaration
<1>2. Collected(g)' = Collected(g)
  BY <1>1, CollectedStays
<1>3. \A n : \A d \in DOMAIN AllDecls(g) :
        d \in Imported(g, n)' <=> \/ d \in Imported(g, n)
                                  \/ g = file /\ d = decl /\ Brings(g, d, n)
  BY <1>1, ImportedStep
<1>4. AllDecls(g)' = AllDecls(g)
  BY <1>1 DEF AllDecls
<1>5. \A n : /\ Imported(g, n) \subseteq DOMAIN AllDecls(g)
             /\ Imported(g, n)' \subseteq DOMAIN AllDecls(g)
  BY <1>4 DEF Imported
<1>6. ASSUME g # file \/ Decl.kind # "importa" PROVE AccountedFor(g)'
  <2>1. scope'[g] = scope[g]
    BY <1>1, <1>6 DEF ImportDeclaration
  <2>2. KeptIn(g) /\ \A n \in DOMAIN scope'[g] : n \in DOMAIN scope[g]
    BY <2>1 DEF KeptIn, Retyped
  <2>3. ASSUME NEW n, g = file, decl \in DOMAIN AllDecls(g) PROVE ~Brings(g, decl, n)
    <3>1. Decl = AllDecls(g)[decl]
      BY <2>3, DeclAtHand
    <3> QED
      BY <1>6, <2>3, <3>1 DEF Brings
  <2>4. \A n : Imported(g, n)' = Imported(g, n)
    BY <1>3, <1>5, <2>3
  <2> QED
    BY <1>1, <1>2, <2>2, <2>4, StaysAccounted
<1>7. ASSUME g = file, Decl.kind = "importa" PROVE AccountedFor(g)'
  <2>1. /\ Decl = AllDecls(g)[decl] /\ decl \in DOMAIN AllDecls(g)
        /\ DOMAIN AllDecls(g) \in SUBSET Nat
    BY <1>7, DeclAtHand, ProgramIsProper
  <2>2. \A n : /\ n \in DOMAIN scope'[g] => n \in DOMAIN scope[g] \/ Brings(g, decl, n)
               /\ Brings(g, decl, n) /\ n \notin DOMAIN scope[g] =>
                    n \in DOMAIN scope'[g] /\ BroughtBy(Decl, n, scope'[g][n])
    BY <1>7, ImportWrites
  <2>3. KeptIn(g)
    BY <1>7, ImportKeeps
  <2>4. \A n : OwnNow(g, n)' = OwnNow(g, n)
    BY <1>2, <1>4 DEF OwnNow
  <2>5. ASSUME NEW n \in DOMAIN scope'[g] PROVE OwnNow(g, n)' # {} \/ Imported(g, n)' # {}
    <3>1. CASE n \in DOMAIN scope[g]
      <4>1. OwnNow(g, n) # {} \/ Imported(g, n) # {}
        BY <1>1, <3>1 DEF AccountedFor
      <4> QED
        BY <1>3, <1>5, <2>4, <4>1
    <3>2. CASE Brings(g, decl, n)
      BY <1>3, <1>7, <2>1, <3>2
    <3> QED
      BY <2>2, <2>5, <3>1, <3>2
  <2>6. ASSUME NEW n, OwnNow(g, n)' = {} /\ Imported(g, n)' # {}
        PROVE  n \in DOMAIN scope'[g] /\ BroughtBy(AllDecls(g)[Least(Imported(g, n))], n, scope[g][n])'
    <3>1. PICK i, r : i = AllDecls(g)'[Least(Imported(g, n)')] /\ r = scope'[g][n]
      OBVIOUS
    <3>2. n \in DOMAIN scope'[g] /\ BroughtBy(i, n, r)
      <4>1. CASE Imported(g, n) = {}
        <5>1. Imported(g, n)' = {decl} /\ Brings(g, decl, n)
          BY <1>3, <1>5, <2>6, <4>1
        <5>2. n \notin DOMAIN scope[g]
          BY <1>1, <2>4, <2>6, <4>1 DEF AccountedFor
        <5>3. Least(Imported(g, n)') = decl
          <6>1. {decl} \in SUBSET Nat
            BY <2>1
          <6> QED
            BY <5>1, <6>1, LeastIsMember
        <5> QED
          BY <1>4, <2>1, <2>2, <3>1, <5>1, <5>2, <5>3
      <4>2. CASE Imported(g, n) # {}
        <5>1. Imported(g, n) \subseteq Imported(g, n)'
          BY <1>3, <1>5
        <5>2. \A y \in Imported(g, n)' : y \in Imported(g, n) \/ \A x \in Imported(g, n) : x <= y
          <6> TAKE y \in Imported(g, n)'
          <6>1. y \in Imported(g, n) \/ y = decl
            BY <1>3, <1>5
          <6>2. \A x \in Imported(g, n) : x < decl
            BY <1>1, <1>7, ProgramIsProper DEF Imported, Begun
          <6>3. \A x \in Imported(g, n) : x \in Nat /\ decl \in Nat
            BY <1>5, <2>1
          <6> QED
            BY <6>1, <6>2, <6>3
        <5>3. Least(Imported(g, n)') = Least(Imported(g, n))
          BY <1>5, <2>1, <4>2, <5>1, <5>2, LeastStays
        <5>4. n \in DOMAIN scope[g] /\ BroughtBy(i, n, scope[g][n])
          BY <1>1, <1>4, <2>4, <2>6, <3>1, <4>2, <5>3 DEF AccountedFor
        <5>5. n \in DOMAIN scope'[g] /\ Retyped(scope[g][n], r)
          BY <2>3, <3>1, <5>4 DEF KeptIn
        <5>6. BroughtBy(i, n, r)
          <6>1. PICK s : s = scope[g][n]
            OBVIOUS
          <6> QED
            BY <5>4, <5>5, <6>1, RetypedIsBrought
        <5> QED
          BY <5>5, <5>6
      <4> QED
        BY <4>1, <4>2
    <3>3. BroughtBy(i, n, r)'
      BY <1>1, <3>2, BroughtStays
    <3> QED
      BY <3>1, <3>2, <3>3
  <2> QED
    BY <2>5, <2>6 DEF AccountedFor
<1> QED
  BY <1>6, <1>7

LEMMA ScopeStep ==
  ASSUME PlaceInv, UniverseInv, OwnInv, ScopeInv, [IrNext]_<<vars, irVars>>
  PROVE  ScopeInv'
<1> DEFINE P == {"modules", "collect", "imports"}
<1>1. CASE Failing(P)'
  BY <1>1 DEF ScopeInv
<1>2. CASE ~Failing(P)'
  <2>1. prog' = prog /\ pass' # "rejected" /\ (pass' \in P => ~hadError')
    BY <1>2, UniverseStays DEF Failing
  <2>2. ~Failing(P)
    BY <1>2, FailingStays
  <2>3. \A g \in DOMAIN prog : AccountedFor(g)
    BY <2>2 DEF ScopeInv
  <2>4. ASSUME NEW g \in DOMAIN prog PROVE AccountedFor(g)'
    <3>1. ASSUME scope'[g] = scope[g], pass \notin {"collect", "imports"} \/ UNCHANGED <<vars, irVars>>
          PROVE  AccountedFor(g)'
      <4>1. Collected(g)' = Collected(g) /\ \A n : Imported(g, n)' = Imported(g, n)
        BY <2>1, <3>1, CollectedStays, ImportedStays
      <4>2. KeptIn(g) /\ \A n \in DOMAIN scope'[g] : n \in DOMAIN scope[g]
        BY <3>1 DEF KeptIn, Retyped
      <4> QED
        BY <2>1, <2>3, <4>1, <4>2, StaysAccounted
    <3>2. CASE UNCHANGED <<vars, irVars>>
      BY <3>1, <3>2 DEF vars
    <3>3. CASE pass = "modules" /\ RegisterModule
      BY <3>1, <3>3 DEF RegisterModule
    <3>4. CASE pass = "collect" /\ (CollectTypeNames \/ CollectDeclaration)
      <4>1. Moves
        BY <3>4, WhoAdvances
      <4>2. ~hadError'
        BY <2>1, <3>4, <4>1, MovesOn DEF NextPass
      <4> QED
        BY <2>1, <2>3, <3>4, <4>2, CollectAccounts
    <3>5. CASE pass = "imports" /\ ImportDeclaration
      <4>1. Moves
        BY <3>5, WhoAdvances
      <4>2. ~hadError'
        BY <2>1, <3>5, <4>1, MovesOn DEF NextPass
      <4>3. Settled
        BY <2>2, <3>5 DEF Settled
      <4> QED
        BY <2>1, <3>5, <4>2, <4>3, ImportAccounts
    <3>6. CASE /\ pass \notin {"modules", "collect", "imports", "rejected"}
               /\ pass' \notin {"modules", "collect", "imports"}
      <4>1. Collected(g)' = Collected(g) /\ \A n : Imported(g, n)' = Imported(g, n)
        BY <2>1, <3>6, CollectedStays, ImportedStays
      <4>2. KeptIn(g)
        BY <3>6, ScopesGrow DEF CollectTypeNames
      <4>3. \A n \in DOMAIN scope'[g] : n \in DOMAIN scope[g]
        BY <3>6, LaterKeepsNames
      <4> QED
        BY <2>1, <2>3, <4>1, <4>2, <4>3, StaysAccounted
    <3> QED
      BY <3>2, <3>3, <3>4, <3>5, <3>6, PassKinds
  <2> QED
    BY <2>1, <2>4 DEF ScopeInv
<1> QED
  BY <1>1, <1>2

-----------------------------------------------------------------------------
(* What a name outside functions reaches. *)

\* A symbol and what the scoping rules give: a module, another declaration
\* or nothing.
Means(s, ids) ==
  \/ s.id = NoDecl /\ s.kind # "module" /\ ids = {}
  \/ s.kind = "module" /\ ids = {s.id} /\ \E h \in DOMAIN prog : s.id = <<h>>
  \/ s.kind # "module" /\ ids = {s.id} /\ Len(s.id) \in {2, 4}

LEMMA OwnIsFound ==
  ASSUME PlaceInv, OwnInv, pass = "bodies", NEW h \in DOMAIN prog, NEW n, OwnNow(h, n) # {}
  PROVE  /\ n \in DOMAIN scope[h] /\ Own(h, n) = {scope[h][n].id}
         /\ scope[h][n].kind # "module" /\ Len(scope[h][n].id) = 2
<1>1. \A d \in Collected(h) :
        LET x == AllDecls(h)[d]
        IN  /\ x.name \in DOMAIN scope[h]
            /\ scope[h][x.name] = Symbol(x.kind, scope[h][x.name].type, x.pub, <<h, d>>)
  BY DEF OwnInv, Failing
<1>2. Collected(h) = {d \in DOMAIN AllDecls(h) : AllDecls(h)[d].kind # "importa"}
  BY DEF Collected
<1>3. Own(h, n) = {<<h, d>> : d \in OwnNow(h, n)}
  BY <1>2 DEF Own, OwnNow, AllDecls
<1>4. PICK d \in Collected(h) : AllDecls(h)[d].name = n
  BY DEF OwnNow
<1>5. PICK x : x = AllDecls(h)[d]
  OBVIOUS
<1>6. n \in DOMAIN scope[h] /\ scope[h][n] = Symbol(x.kind, scope[h][n].type, x.pub, <<h, d>>)
  BY <1>1, <1>4, <1>5
<1>7. scope[h][n].id = <<h, d>> /\ scope[h][n].kind = x.kind
  BY <1>6 DEF Symbol
<1>8. x.kind # "module"
  <2>1. d \in DOMAIN AllDecls(h)
    BY <1>2, <1>4
  <2>2. ProperDeclaration(x)
    BY <1>5, <2>1, ProgramIsProper
  <2> QED
    BY <2>2 DEF ProperDeclaration
<1>9. \A e \in OwnNow(h, n) : <<h, e>> = <<h, d>>
  <2> TAKE e \in OwnNow(h, n)
  <2>1. e \in Collected(h) /\ AllDecls(h)[e].name = n
    BY DEF OwnNow
  <2>2. scope[h][n] = Symbol(AllDecls(h)[e].kind, scope[h][n].type, AllDecls(h)[e].pub, <<h, e>>)
    BY <1>1, <2>1
  <2>3. scope[h][n].id = <<h, e>>
    BY <2>2 DEF Symbol
  <2> QED
    BY <1>7, <2>3
<1>10. Own(h, n) = {<<h, d>>}
  BY <1>3, <1>9
<1> QED
  BY <1>6, <1>7, <1>8, <1>10

LEMMA PublicAreDeclarations ==
  ASSUME PlaceInv, NEW n, NEW m, NEW id \in Public(n, ModuleNamed(m))
  PROVE  Len(id) = 2 /\ DeclOf(id).kind # "module"
<1>1. PICK g \in ModuleNamed(m) : id \in Own(g[1], n)
  BY DEF Public
<1>2. PICK h \in DOMAIN prog : g = <<h>>
  BY <1>1 DEF ModuleNamed
<1>3. g[1] = h
  BY <1>2
<1>4. PICK d \in DOMAIN prog[h].decls : id = <<h, d>>
  BY <1>1, <1>3 DEF Own
<1>5. DeclOf(id) = AllDecls(h)[d]
  BY <1>4 DEF DeclOf, AllDecls
<1>6. ProperDeclaration(AllDecls(h)[d])
  BY <1>4, ProgramIsProper DEF AllDecls
<1> QED
  BY <1>4, <1>5, <1>6 DEF ProperDeclaration

\* The scope of a file, and around it that of the modules, hold what the
\* scoping rules say of a name outside functions.
LEMMA FileLevelIsFound ==
  ASSUME PlaceInv, UniverseInv, OwnInv, ScopeInv, pass = "bodies", NEW f \in DOMAIN prog, NEW n,
         NEW s, s = IF n \in DOMAIN scope[f] THEN scope[f][n] ELSE Find(universe, n)
  PROVE  Means(s, FileLevel(f, n))
<1>1. AccountedFor(f) /\ ~Failing({"modules"})
  BY DEF ScopeInv, Failing
<1>2. Own(f, n) = {<<f, d>> : d \in OwnNow(f, n)}
  <2>1. Collected(f) = {d \in DOMAIN AllDecls(f) : AllDecls(f)[d].kind # "importa"}
    BY DEF Collected
  <2> QED
    BY <2>1 DEF Own, OwnNow, AllDecls
<1>3. /\ Own(f, n) # {} => FileLevel(f, n) = Own(f, n)
      /\ Own(f, n) = {} /\ Imported(f, n) = {} => FileLevel(f, n) = ModuleNamed(n)
      /\ Own(f, n) = {} /\ Imported(f, n) # {} =>
           FileLevel(f, n) = IF AllDecls(f)[Least(Imported(f, n))].items = <<>> THEN ModuleNamed(n)
                             ELSE Public(n, ModuleNamed(AllDecls(f)[Least(Imported(f, n))].from))
  <2>1. Imported(f, n) = {d \in DOMAIN prog[f].decls :
                            /\ prog[f].decls[d].kind = "importa"
                            /\ \/ \E i \in DOMAIN prog[f].decls[d].items : prog[f].decls[d].items[i] = n
                               \/ prog[f].decls[d].items = <<>> /\ prog[f].decls[d].from = n}
    BY DEF Imported, Brings, AllDecls
  <2>2. PICK imported : imported = Imported(f, n)
    OBVIOUS
  <2> QED
    BY <2>1, <2>2 DEF FileLevel, AllDecls
<1>4. CASE OwnNow(f, n) # {}
  <2>1. /\ n \in DOMAIN scope[f] /\ Own(f, n) = {scope[f][n].id}
        /\ scope[f][n].kind # "module" /\ Len(scope[f][n].id) = 2
    BY <1>4, OwnIsFound
  <2> QED
    BY <1>3, <2>1 DEF Means
<1>5. CASE OwnNow(f, n) = {} /\ Imported(f, n) = {}
  <2>1. n \notin DOMAIN scope[f] /\ Own(f, n) = {}
    BY <1>1, <1>2, <1>5 DEF AccountedFor
  <2>2. s = Find(universe, n) /\ FileLevel(f, n) = ModuleNamed(n)
    BY <1>3, <1>5, <2>1
  <2>3. CASE n \in DOMAIN universe
    <3>1. s = universe[n]
      BY <2>2, <2>3 DEF Find
    <3>2. /\ ModuleNamed(n) = {universe[n].id} /\ universe[n].kind = "module"
          /\ \E h \in DOMAIN prog : universe[n].id = <<h>>
      BY <1>1, <2>3, ModuleIsFound
    <3> QED
      BY <2>2, <3>1, <3>2 DEF Means
  <2>4. CASE n \notin DOMAIN universe
    <3>1. s = NoSymbol
      BY <2>2, <2>4 DEF Find
    <3>2. s.id = NoDecl /\ s.kind # "module"
      BY <3>1 DEF NoSymbol, Symbol
    <3>3. ModuleNamed(n) = {}
      BY <1>1, <2>4, ModuleIsFound
    <3> QED
      BY <2>2, <3>2, <3>3 DEF Means
  <2> QED
    BY <2>3, <2>4
<1>6. CASE OwnNow(f, n) = {} /\ Imported(f, n) # {}
  <2>1. PICK i : i = AllDecls(f)[Least(Imported(f, n))]
    OBVIOUS
  <2>2. n \in DOMAIN scope[f] /\ BroughtBy(i, n, scope[f][n])
    BY <1>1, <1>6, <2>1 DEF AccountedFor
  <2>3. BroughtBy(i, n, s)
    BY <2>2
  <2>4. Own(f, n) = {}
    BY <1>2, <1>6
  <2>5. FileLevel(f, n) = IF i.items = <<>> THEN ModuleNamed(n) ELSE Public(n, ModuleNamed(i.from))
    BY <1>3, <1>6, <2>1, <2>4
  <2>6. CASE i.items = <<>>
    <3>1. ModuleNamed(n) = {s.id} /\ s.kind = "module"
      BY <2>3, <2>6 DEF BroughtBy
    <3>2. \E h \in DOMAIN prog : s.id = <<h>>
      BY <3>1 DEF ModuleNamed
    <3> QED
      BY <2>5, <2>6, <3>1, <3>2 DEF Means
  <2>7. CASE i.items # <<>>
    <3>1. Public(n, ModuleNamed(i.from)) = {s.id} /\ s.kind = DeclOf(s.id).kind
      BY <2>3, <2>7 DEF BroughtBy
    <3>2. Len(s.id) = 2 /\ s.kind # "module"
      BY <3>1, PublicAreDeclarations
    <3> QED
      BY <2>5, <2>7, <3>1, <3>2 DEF Means
  <2> QED
    BY <2>6, <2>7
<1> QED
  BY <1>4, <1>5, <1>6

-----------------------------------------------------------------------------
(* The scopes of a function. *)

\* Where a name is looked up: the innermost open scope that has it.
LEMMA LookupIs ==
  ASSUME NEW u, NEW w, NEW ls, IsSeq(ls), NEW n, NEW r, r = Lookup(<<u, w>> \o ls, n)
  PROVE  /\ \A i \in 1 .. Len(ls) :
              n \in DOMAIN ls[i] /\ (\A j \in (i + 1) .. Len(ls) : n \notin DOMAIN ls[j]) => r = ls[i][n]
         /\ (\A i \in 1 .. Len(ls) : n \notin DOMAIN ls[i]) =>
              r = IF n \in DOMAIN w THEN w[n] ELSE Find(u, n)
<1>1. PICK m \in Nat : m = Len(ls) /\ ls = [i \in 1 .. m |-> ls[i]]
  BY DEF IsSeq
<1>2. PICK all : all = <<u, w>> \o ls
  OBVIOUS
<1>3. DOMAIN all = 1 .. (m + 2) /\ all[1] = u /\ all[2] = w /\ \A i \in 1 .. m : all[i + 2] = ls[i]
  <2>1. PICK S : S = {u, w} \cup {ls[i] : i \in 1 .. m}
    OBVIOUS
  <2>2. ls \in Seq(S) /\ <<u, w>> \in Seq(S)
    BY <1>1, <2>1
  <2>3. Len(all) = m + 2 /\ all \in Seq(S)
    BY <1>1, <1>2, <2>2
  <2>4. all[1] = u /\ all[2] = w
    BY <1>2, <2>2
  <2>5. ASSUME NEW i \in 1 .. m PROVE all[i + 2] = ls[i]
    BY <1>1, <1>2, <2>2
  <2> QED
    BY <2>3, <2>4, <2>5
<1>4. PICK with : with = {i \in DOMAIN all : n \in DOMAIN all[i]}
  OBVIOUS
<1>5. r = IF with = {} THEN NoSymbol ELSE all[CHOOSE i \in with : \A j \in with : j <= i][n]
  BY <1>2, <1>4 DEF Lookup
<1>6. ASSUME NEW i \in with, \A j \in with : j <= i PROVE r = all[i][n]
  <2>1. with \subseteq Nat
    BY <1>3, <1>4
  <2>2. \A k \in with : (\A j \in with : j <= k) => k = i
    <3> TAKE k \in with
    <3>1. k <= i /\ ((\A j \in with : j <= k) => i <= k)
      BY <1>6
    <3> QED
      BY <2>1, <3>1
  <2>3. PICK c : c = CHOOSE k \in with : \A j \in with : j <= k
    OBVIOUS
  <2>4. c = i
    BY <1>6, <2>2, <2>3
  <2> QED
    BY <1>5, <2>3, <2>4
<1>7. ASSUME NEW i \in 1 .. m, n \in DOMAIN ls[i], \A j \in (i + 1) .. m : n \notin DOMAIN ls[j]
      PROVE  r = ls[i][n]
  <2>1. i + 2 \in with
    BY <1>3, <1>4, <1>7
  <2>2. ASSUME NEW j \in with PROVE j <= i + 2
    <3>1. CASE j > i + 2
      <4>1. j - 2 \in (i + 1) .. m /\ j - 2 \in 1 .. m /\ (j - 2) + 2 = j
        BY <1>3, <1>4, <3>1
      <4>2. all[j] = ls[j - 2]
        BY <1>3, <4>1
      <4> QED
        BY <1>4, <1>7, <4>1, <4>2
    <3> QED
      BY <1>3, <1>4, <3>1
  <2>3. r = all[i + 2][n]
    BY <1>6, <2>1, <2>2
  <2> QED
    BY <1>3, <2>3
<1>8. ASSUME \A i \in 1 .. m : n \notin DOMAIN ls[i]
      PROVE  r = IF n \in DOMAIN w THEN w[n] ELSE Find(u, n)
  <2>1. ASSUME NEW j \in with PROVE j \in {1, 2}
    <3>1. CASE j > 2
      <4>1. j - 2 \in 1 .. m /\ (j - 2) + 2 = j
        BY <1>3, <1>4, <3>1
      <4>2. all[j] = ls[j - 2]
        BY <1>3, <4>1
      <4> QED
        BY <1>4, <1>8, <4>1, <4>2
    <3> QED
      BY <1>3, <1>4, <3>1
  <2>2. (1 \in with <=> n \in DOMAIN u) /\ (2 \in with <=> n \in DOMAIN w)
    BY <1>3, <1>4
  <2>3. CASE n \in DOMAIN w
    <3>1. \A j \in with : j <= 2
      BY <2>1
    <3> QED
      BY <1>3, <1>6, <2>2, <2>3, <3>1
  <2>4. CASE n \notin DOMAIN w /\ n \in DOMAIN u
    <3>1. \A j \in with : j <= 1
      BY <2>1, <2>2, <2>4
    <3> QED
      BY <1>3, <1>6, <2>2, <2>4, <3>1 DEF Find
  <2>5. CASE n \notin DOMAIN w /\ n \notin DOMAIN u
    <3>1. with = {}
      BY <2>1, <2>2, <2>5
    <3> QED
      BY <1>5, <2>5, <3>1 DEF Find
  <2> QED
    BY <2>3, <2>4, <2>5
<1> QED
  BY <1>1, <1>7, <1>8

\* The declarations visible at a depth, behind one statement more.
LEMMA VisibleStep ==
  ASSUME UNCHANGED <<prog, file, decl>>, stmt \in Nat \ {0}, stmt' = stmt + 1,
         NEW l \in Nat, NEW n
  PROVE  /\ l > Depth(Decl.body, stmt - 1) => VisibleAt(l, n) = {}
         /\ l > Depth(Decl.body, stmt) => VisibleAt(l, n)' = {}
         /\ l <= Depth(Decl.body, stmt) =>
              VisibleAt(l, n)' = VisibleAt(l, n) \cup
                (IF /\ Decl.body[stmt].op = "sit" /\ Decl.body[stmt].name = n
                    /\ Depth(Decl.body, stmt) = l
                 THEN {stmt} ELSE {})
<1>1. PICK b, s : b = Decl.body /\ s = stmt /\ b = Decl'.body
  BY DEF Decl, Decls
<1>2. \A j \in Nat : Depth(b, j) \in Int
  BY DepthStep
<1>3. VisibleAt(l, n) = {k \in 1 .. (s - 1) : /\ b[k].op = "sit" /\ b[k].name = n /\ Depth(b, k) = l
                                              /\ \A j \in k .. (s - 1) : Depth(b, j) >= l}
  BY <1>1 DEF VisibleAt
<1>4. VisibleAt(l, n)' = {k \in 1 .. s : /\ b[k].op = "sit" /\ b[k].name = n /\ Depth(b, k) = l
                                         /\ \A j \in k .. s : Depth(b, j) >= l}
  <2>1. stmt' - 1 = s
    BY <1>1
  <2> QED
    BY <1>1, <2>1 DEF VisibleAt
<1>5. s \in Nat /\ s > 0
  BY <1>1
<1>6. ASSUME l > Depth(b, s - 1) PROVE VisibleAt(l, n) = {}
  <2>1. ASSUME NEW k \in 1 .. (s - 1) PROVE ~ \A j \in k .. (s - 1) : Depth(b, j) >= l
    <3>1. s - 1 \in k .. (s - 1) /\ s - 1 \in Nat
      BY <1>5, <2>1
    <3> QED
      BY <1>2, <1>6, <3>1
  <2> QED
    BY <1>3, <2>1
<1>7. ASSUME l > Depth(b, s) PROVE VisibleAt(l, n)' = {}
  <2>1. ASSUME NEW k \in 1 .. s PROVE ~ \A j \in k .. s : Depth(b, j) >= l
    <3>1. s \in k .. s
      BY <1>5, <2>1
    <3> QED
      BY <1>2, <1>5, <1>7, <3>1
  <2> QED
    BY <1>4, <2>1
<1>8. ASSUME l <= Depth(b, s)
      PROVE  VisibleAt(l, n)' = VisibleAt(l, n) \cup
               (IF b[s].op = "sit" /\ b[s].name = n /\ Depth(b, s) = l THEN {s} ELSE {})
  <2>1. ASSUME NEW k \in 1 .. (s - 1) PROVE k \in VisibleAt(l, n)' <=> k \in VisibleAt(l, n)
    <3>1. k .. s = (k .. (s - 1)) \cup {s} /\ k \in 1 .. s
      BY <1>5, <2>1
    <3>2. Depth(b, s) >= l
      BY <1>2, <1>5, <1>8
    <3> QED
      BY <1>3, <1>4, <3>1, <3>2
  <2>2. s \in VisibleAt(l, n)' <=> (b[s].op = "sit" /\ b[s].name = n /\ Depth(b, s) = l)
    <3>1. s .. s = {s} /\ s \in 1 .. s
      BY <1>5
    <3>2. Depth(b, s) >= l
      BY <1>2, <1>5, <1>8
    <3> QED
      BY <1>4, <3>1, <3>2
  <2>3. VisibleAt(l, n) \subseteq 1 .. (s - 1) /\ VisibleAt(l, n)' \subseteq (1 .. (s - 1)) \cup {s}
    BY <1>3, <1>4, <1>5
  <2> QED
    BY <2>1, <2>2, <2>3
<1> QED
  BY <1>1, <1>6, <1>7, <1>8

\* The recursive definition of the parameters' scopes has its meaning.
LEMMA ParamScopeIs ==
  ASSUME Len(Decl.params) \in Nat
  PROVE  ParamScope = [i \in 0 .. Len(Decl.params) |->
                         IF i = 0 THEN <<>> ELSE WithParam(ParamScope[i - 1], i)]
<1>1. PICK n \in Nat : n = Len(Decl.params)
  OBVIOUS
<1>2. PICK T : T = {m \in 0 .. n : ~ \E f : f = [i \in 0 .. m |-> IF i = 0 THEN <<>> ELSE WithParam(f[i - 1], i)]}
  OBVIOUS
<1>3. T = {}
  <2>1. SUFFICES ASSUME T # {} PROVE FALSE
    OBVIOUS
  <2>2. T \in SUBSET Nat
    BY <1>2
  <2>3. PICK m \in T : \A k \in T : m <= k
    BY <2>1, <2>2, LeastNat
  <2>4. m \in 0 .. n /\ ~ \E f : f = [i \in 0 .. m |-> IF i = 0 THEN <<>> ELSE WithParam(f[i - 1], i)]
    BY <1>2, <2>3
  <2>5. CASE m = 0
    <3>1. PICK g : g = [i \in 0 .. m |-> <<>>]
      OBVIOUS
    <3>2. g = [i \in 0 .. m |-> IF i = 0 THEN <<>> ELSE WithParam(g[i - 1], i)]
      BY <2>5, <3>1
    <3> QED
      BY <2>4, <3>2
  <2>6. CASE m # 0
    <3>1. m - 1 \in 0 .. n /\ ~(m <= m - 1) /\ m \in Nat
      BY <2>4, <2>6
    <3>2. m - 1 \notin T
      BY <2>3, <3>1
    <3>3. PICK f : f = [i \in 0 .. (m - 1) |-> IF i = 0 THEN <<>> ELSE WithParam(f[i - 1], i)]
      BY <1>2, <3>1, <3>2
    <3>4. PICK v : v = WithParam(f[m - 1], m)
      OBVIOUS
    <3>5. PICK g : g = [i \in 0 .. m |-> IF i = m THEN v ELSE f[i]]
      OBVIOUS
    <3>6. ASSUME NEW i \in 0 .. m
          PROVE  g[i] = IF i = 0 THEN <<>> ELSE WithParam(g[i - 1], i)
      <4>1. CASE i = m
        <5>1. g[i - 1] = f[m - 1]
          BY <2>4, <2>6, <3>5, <4>1
        <5> QED
          BY <2>6, <3>4, <3>5, <4>1, <5>1
      <4>2. CASE i # m
        <5>1. i \in 0 .. (m - 1) /\ g[i] = f[i]
          BY <3>1, <3>5, <3>6, <4>2
        <5>2. i # 0 => g[i - 1] = f[i - 1]
          BY <3>1, <3>5, <5>1
        <5>3. f[i] = IF i = 0 THEN <<>> ELSE WithParam(f[i - 1], i)
          BY <3>3, <5>1
        <5> QED
          BY <5>1, <5>2, <5>3
      <4> QED
        BY <4>1, <4>2
    <3>7. g = [i \in 0 .. m |-> IF i = 0 THEN <<>> ELSE WithParam(g[i - 1], i)]
      <4>1. g = [i \in 0 .. m |-> g[i]]
        BY <3>5
      <4> QED
        BY <3>6, <4>1
    <3> QED
      BY <2>4, <3>7
  <2> QED
    BY <2>5, <2>6
<1>4. n \in 0 .. n
  OBVIOUS
<1>5. \E f : f = [i \in 0 .. n |-> IF i = 0 THEN <<>> ELSE WithParam(f[i - 1], i)]
  BY <1>2, <1>3, <1>4
<1> QED
  BY <1>1, <1>5 DEF ParamScope

\* The scope of the parameters: the first of each name.
LEMMA ParamScopeHolds ==
  ASSUME IsSeq(Decl.params), NEW r, r = ParamScope[Len(Decl.params)], NEW n
  PROVE  /\ n \in DOMAIN r <=> ParamsNamed(n) # {}
         /\ n \in DOMAIN r => IsLocalSymbol(r[n], <<file, decl, "param", Least(ParamsNamed(n))>>)
<1>1. PICK N \in Nat : N = Len(Decl.params) /\ DOMAIN Decl.params = 1 .. N
  BY DEF IsSeq
<1>2. PICK P : P = ParamScope
  OBVIOUS
<1>3. P[0] = <<>> /\ \A i \in 1 .. N : P[i] = WithParam(P[i - 1], i)
  <2>1. P = [i \in 0 .. N |-> IF i = 0 THEN <<>> ELSE WithParam(P[i - 1], i)]
    BY <1>1, <1>2, ParamScopeIs
  <2>2. \A i \in 0 .. N : P[i] = IF i = 0 THEN <<>> ELSE WithParam(P[i - 1], i)
    BY <2>1
  <2> QED
    BY <2>2
<1>4. PICK F : F = [m \in 0 .. N |-> {i \in 1 .. m : Decl.params[i].name = n}]
  OBVIOUS
<1>5. F[0] = {} /\ \A m \in 1 .. N : F[m] = F[m - 1] \cup (IF Decl.params[m].name = n THEN {m} ELSE {})
  <2>1. \A m \in 0 .. N : F[m] = {i \in 1 .. m : Decl.params[i].name = n}
    BY <1>4
  <2>2. ASSUME NEW m \in 1 .. N
        PROVE  F[m] = F[m - 1] \cup (IF Decl.params[m].name = n THEN {m} ELSE {})
    <3>1. 1 .. m = (1 .. (m - 1)) \cup {m} /\ m \in 0 .. N /\ m - 1 \in 0 .. N
      OBVIOUS
    <3> QED
      BY <2>1, <3>1
  <2> QED
    BY <2>1, <2>2
<1>6. PICK T : T = {m \in 0 .. N : ~ /\ n \in DOMAIN P[m] <=> F[m] # {}
                                     /\ n \in DOMAIN P[m] =>
                                          IsLocalSymbol(P[m][n], <<file, decl, "param", Least(F[m])>>)}
  OBVIOUS
<1>7. T = {}
  <2>1. SUFFICES ASSUME T # {} PROVE FALSE
    OBVIOUS
  <2>2. T \in SUBSET Nat
    BY <1>6
  <2>3. PICK m \in T : \A k \in T : m <= k
    BY <2>1, <2>2, LeastNat
  <2>4. m \in 0 .. N /\ ~ /\ n \in DOMAIN P[m] <=> F[m] # {}
                          /\ n \in DOMAIN P[m] =>
                               IsLocalSymbol(P[m][n], <<file, decl, "param", Least(F[m])>>)
    BY <1>6, <2>3
  <2>5. m # 0
    <3>1. DOMAIN <<>> = {}
      OBVIOUS
    <3> QED
      BY <1>3, <1>5, <2>4, <3>1
  <2>6. m - 1 \in 0 .. N /\ ~(m <= m - 1) /\ m \in 1 .. N
    BY <2>4, <2>5
  <2>7. PICK sc, G : sc = P[m - 1] /\ G = F[m - 1]
    OBVIOUS
  <2>8. /\ n \in DOMAIN sc <=> G # {}
        /\ n \in DOMAIN sc => IsLocalSymbol(sc[n], <<file, decl, "param", Least(G)>>)
    <3>1. m - 1 \notin T
      BY <2>3, <2>6
    <3> QED
      BY <1>6, <2>6, <2>7, <3>1
  <2>9. PICK nm, t, sym : /\ nm = Decl.params[m].name
                          /\ sym = Symbol("sit", t, FALSE, <<file, decl, "param", m>>)
                          /\ P[m] = Define(sc, nm, sym)
    <3>1. P[m] = WithParam(sc, m)
      BY <1>3, <2>6, <2>7
    <3> QED
      BY <3>1 DEF WithParam
  <2>10. P[m] = [k \in DOMAIN sc \cup {nm} |-> IF k \in DOMAIN sc THEN sc[k] ELSE sym]
    BY <2>9, DefineIs
  <2>11. F[m] = G \cup (IF nm = n THEN {m} ELSE {})
    BY <1>5, <2>6, <2>7, <2>9
  <2>12. G \subseteq 1 .. (m - 1)
    BY <1>4, <2>6, <2>7
  <2>13. CASE n \in DOMAIN sc
    <3>1. n \in DOMAIN P[m] /\ P[m][n] = sc[n]
      BY <2>10, <2>13
    <3>2. Least(F[m]) = Least(G)
      <4>1. G \in SUBSET Nat /\ F[m] \in SUBSET Nat /\ G # {} /\ G \subseteq F[m]
        BY <2>6, <2>8, <2>11, <2>12, <2>13
      <4>2. \A y \in F[m] : y \in G \/ \A x \in G : x <= y
        BY <2>6, <2>11, <2>12
      <4> QED
        BY <4>1, <4>2, LeastStays
    <3> QED
      BY <2>4, <2>8, <2>11, <2>13, <3>1, <3>2
  <2>14. CASE n \notin DOMAIN sc /\ n = nm
    <3>1. n \in DOMAIN P[m] /\ P[m][n] = sym
      BY <2>10, <2>14
    <3>2. F[m] = {m} /\ {m} \in SUBSET Nat
      BY <2>6, <2>8, <2>11, <2>14
    <3>3. Least(F[m]) = m
      BY <3>2, LeastIsMember
    <3>4. sym.type = t
      BY <2>9 DEF Symbol
    <3>5. IsLocalSymbol(sym, <<file, decl, "param", m>>)
      BY <2>9, <3>4 DEF IsLocalSymbol
    <3> QED
      BY <2>4, <3>1, <3>2, <3>3, <3>5
  <2>15. CASE n \notin DOMAIN sc /\ n # nm
    <3>1. n \notin DOMAIN P[m] /\ F[m] = {}
      BY <2>8, <2>10, <2>11, <2>15
    <3> QED
      BY <2>4, <3>1
  <2> QED
    BY <2>13, <2>14, <2>15
<1>8. N \in 0 .. N /\ r = P[N] /\ F[N] = ParamsNamed(n)
  BY <1>1, <1>2, <1>4 DEF ParamsNamed
<1>9. N \notin T
  BY <1>7
<1>10. /\ n \in DOMAIN P[N] <=> F[N] # {}
       /\ n \in DOMAIN P[N] => IsLocalSymbol(P[N][n], <<file, decl, "param", Least(F[N])>>)
  BY <1>6, <1>8, <1>9
<1> QED
  BY <1>8, <1>10

LEMMA ParamsStay ==
  ASSUME UNCHANGED <<prog, file, decl>>, NEW sc, HoldsParams(sc)
  PROVE  HoldsParams(sc)'
<1>1. Decl' = Decl
  BY DEF Decl, Decls
<1>2. \A n : ParamsNamed(n)' = ParamsNamed(n)
  BY <1>1 DEF ParamsNamed
<1> QED
  BY <1>2 DEF HoldsParams

\* A statement that declares nothing at a block's depth and does not close
\* the block leaves its scope as it is.
LEMMA BlockStays ==
  ASSUME UNCHANGED <<prog, file, decl>>, stmt \in Nat \ {0}, stmt' = stmt + 1,
         NEW l \in Nat, l <= Depth(Decl.body, stmt),
         Decl.body[stmt].op # "sit" \/ l # Depth(Decl.body, stmt),
         NEW sc, HoldsBlock(sc, l)
  PROVE  HoldsBlock(sc, l)'
<1>1. \A n : VisibleAt(l, n)' = VisibleAt(l, n)
  <2> TAKE n
  <2>1. VisibleAt(l, n)' = VisibleAt(l, n) \cup {}
    BY VisibleStep
  <2> QED
    BY <2>1
<1> QED
  BY <1>1 DEF HoldsBlock

LEMMA DepthsOfBody ==
  ASSUME PlaceInv, LocalsInv, pass = "bodies", Decl.kind = "actio", ProperDeclaration(Decl),
         stmt \in Nat \ {0}, stmt <= Len(Decl.body), NEW op, op = Decl.body[stmt].op,
         NEW d, d = Depth(Decl.body, stmt - 1), NEW e, e = Depth(Decl.body, stmt)
  PROVE  /\ d \in Nat /\ e \in Nat
         /\ e = d + (IF op = "open" THEN 1 ELSE 0) - (IF op = "close" THEN 1 ELSE 0)
         /\ IsSeq(locals) /\ Len(locals) = d + 2
         /\ HoldsParams(locals[1])
         /\ \A i \in 2 .. (d + 2) : HoldsBlock(locals[i], i - 2)
<1>1. Len(Decl.body) \in Nat /\ \A j \in 0 .. Len(Decl.body) : Depth(Decl.body, j) >= 0
  BY DEF ProperDeclaration, IsSeq
<1>2. stmt - 1 \in Nat /\ (stmt - 1) + 1 = stmt /\ stmt - 1 \in 0 .. Len(Decl.body) /\ stmt \in 0 .. Len(Decl.body)
  BY <1>1
<1>3. /\ d \in Int /\ e \in Int
      /\ e = d + (IF op = "open" THEN 1 ELSE 0) - (IF op = "close" THEN 1 ELSE 0)
  BY <1>2, DepthStep
<1>4. d >= 0 /\ e >= 0
  BY <1>1, <1>2
<1>5. stmt > 0
  BY <1>2
<1>6. /\ IsSeq(locals) /\ Len(locals) = 2 + d
      /\ HoldsParams(locals[1])
      /\ \A i \in 2 .. Len(locals) : HoldsBlock(locals[i], i - 2)
  BY <1>5 DEF LocalsInv
<1>7. Len(locals) = d + 2
  BY <1>3, <1>6
<1> QED
  BY <1>3, <1>4, <1>6, <1>7

\* Every statement keeps the scopes of the open blocks what they are.
LEMMA StatementKeepsLocals ==
  ASSUME PlaceInv, LocalsInv, stmt # 0,
         OpenBlock \/ CloseBlock \/ ((DeclareLocal \/ Evaluate \/ Return) /\ pass' # "crashed")
  PROVE  LocalsInv'
<1>1. /\ pass = "bodies" /\ UNCHANGED <<prog, file, decl>> /\ Decl' = Decl
      /\ Decl.kind = "actio" /\ ProperDeclaration(Decl)
      /\ stmt \in Nat \ {0} /\ stmt' = stmt + 1 /\ stmt <= Len(Decl.body)
  BY WhoFollows DEF Decl, Decls
<1>2. PICK op, d, e : op = Decl.body[stmt].op /\ d = Depth(Decl.body, stmt - 1) /\ e = Depth(Decl.body, stmt)
  OBVIOUS
<1>3. /\ d \in Nat /\ e \in Nat
      /\ e = d + (IF op = "open" THEN 1 ELSE 0) - (IF op = "close" THEN 1 ELSE 0)
      /\ IsSeq(locals) /\ Len(locals) = d + 2
      /\ HoldsParams(locals[1])
      /\ \A i \in 2 .. (d + 2) : HoldsBlock(locals[i], i - 2)
  BY <1>1, <1>2, DepthsOfBody
<1>4. locals = [i \in 1 .. (d + 2) |-> locals[i]]
  BY <1>3 DEF IsSeq
<1>5. ASSUME NEW sc, HoldsParams(sc) PROVE HoldsParams(sc)'
  BY <1>1, <1>5, ParamsStay
<1>6. ASSUME NEW l \in Nat, l <= e, op # "sit" \/ l # e, NEW sc, HoldsBlock(sc, l)
      PROVE  HoldsBlock(sc, l)'
  <2>1. l <= Depth(Decl.body, stmt) /\ (Decl.body[stmt].op # "sit" \/ l # Depth(Decl.body, stmt))
    BY <1>2, <1>6
  <2> QED
    BY <1>1, <1>6, <2>1, BlockStays
<1>7. ASSUME NEW ls, ls = [i \in 1 .. (e + 2) |-> ls[i]], Len(ls) = e + 2, locals' = ls,
             HoldsParams(ls[1])', \A i \in 2 .. (e + 2) : HoldsBlock(ls[i], i - 2)'
      PROVE  LocalsInv'
  <2>1. Decl'.body = Decl.body /\ stmt' - 1 = stmt
    BY <1>1
  <2>2. IsSeq(locals') /\ Len(locals') = 2 + Depth(Decl'.body, stmt' - 1)
    <3>1. PICK N \in Nat : N = e + 2
      <4>1. e \in Nat
        BY <1>3
      <4>2. e + 2 \in Nat
        BY <4>1
      <4> QED
        BY <4>2
    <3>2. IsSeq(ls)
      BY <1>7, <3>1 DEF IsSeq
    <3>3. Depth(Decl'.body, stmt' - 1) = e
      BY <1>2, <2>1
    <3>4. Len(ls) = 2 + e
      BY <1>3, <1>7
    <3> QED
      BY <1>7, <3>2, <3>3, <3>4
  <2>3. HoldsParams(locals[1])'
    BY <1>7
  <2>4. ASSUME NEW i \in 2 .. Len(locals') PROVE HoldsBlock(locals[i], i - 2)'
    BY <1>7
  <2> QED
    BY <2>2, <2>3, <2>4 DEF LocalsInv
<1>8. \A o : InBody(o) => op = o
  BY <1>2 DEF InBody, Stmt
<1>9. CASE OpenBlock
  <2>1. op = "open" /\ locals' = Append(locals, <<>>)
    BY <1>8, <1>9 DEF OpenBlock
  <2>2. PICK ls : ls = locals'
    OBVIOUS
  <2>3. e = d + 1
    BY <1>3, <2>1
  <2>4. Len(ls) = e + 2 /\ ls = [i \in 1 .. (e + 2) |-> ls[i]]
        /\ (\A i \in 1 .. (d + 2) : ls[i] = locals[i]) /\ ls[d + 3] = <<>>
    <3>1. PICK S : S = {locals[i] : i \in 1 .. (d + 2)} \cup {<<>>}
      OBVIOUS
    <3>2. locals \in Seq(S) /\ <<>> \in S
      BY <1>3, <1>4, <3>1
    <3>3. ls \in Seq(S) /\ Len(ls) = d + 3
      BY <1>3, <2>1, <2>2, <3>2
    <3>4. (\A i \in 1 .. (d + 2) : ls[i] = locals[i]) /\ ls[d + 3] = <<>>
      BY <1>3, <2>1, <2>2, <3>2
    <3>5. d + 3 = e + 2
      BY <1>3, <2>3
    <3> QED
      BY <3>3, <3>4, <3>5
  <2>5. HoldsParams(ls[1])'
    <3>1. ls[1] = locals[1]
      <4>1. 1 \in 1 .. (d + 2) /\ 1 \in 1 .. (e + 2)
        BY <1>3
      <4> QED
        BY <2>4, <4>1
    <3>2. HoldsParams(ls[1])
      BY <1>3, <3>1
    <3>3. PICK sc : sc = ls[1]
      OBVIOUS
    <3> QED
      BY <1>5, <3>2, <3>3
  <2>6. ASSUME NEW i \in 2 .. (e + 2) PROVE HoldsBlock(ls[i], i - 2)'
    <3>1. CASE i \in 2 .. (d + 2)
      <4>1. PICK sc, l : sc = ls[i] /\ l = i - 2
        OBVIOUS
      <4>2. HoldsBlock(sc, l) /\ l \in Nat /\ l <= e
        <5>1. HoldsBlock(locals[i], i - 2)
          BY <1>3, <3>1
        <5>2. i \in 1 .. (d + 2) /\ l \in Nat /\ l <= e
          BY <1>3, <2>3, <3>1, <4>1
        <5>3. sc = locals[i]
          BY <2>4, <4>1, <5>2
        <5> QED
          BY <4>1, <5>1, <5>2, <5>3
      <4>3. HoldsBlock(sc, l)'
        BY <1>6, <2>1, <4>2
      <4> QED
        BY <4>1, <4>3
    <3>2. CASE i = d + 3
      <4>1. PICK sc, l : sc = ls[i] /\ l = i - 2
        OBVIOUS
      <4>2. l = e /\ l \in Nat /\ sc = <<>> /\ l > d
        BY <1>3, <2>3, <2>4, <3>2, <4>1
      <4>3. \A n : VisibleAt(l, n)' = {}
        <5> TAKE n
        <5>1. VisibleAt(l, n) = {}
          BY <1>1, <1>2, <4>2, VisibleStep
        <5>2. VisibleAt(l, n)' = VisibleAt(l, n) \cup {}
          <6>1. l <= Depth(Decl.body, stmt) /\ Decl.body[stmt].op # "sit"
            BY <1>2, <2>1, <4>2
          <6> QED
            BY <1>1, <4>2, <6>1, VisibleStep
        <5> QED
          BY <5>1, <5>2
      <4>4. DOMAIN sc = {}
        BY <4>2
      <4>5. HoldsBlock(sc, l)'
        BY <4>3, <4>4 DEF HoldsBlock
      <4> QED
        BY <4>1, <4>5
    <3>3. i \in 2 .. (d + 2) \/ i = d + 3
      BY <1>3, <2>3
    <3> QED
      BY <3>1, <3>2, <3>3
  <2> QED
    BY <1>7, <2>2, <2>4, <2>5, <2>6
<1>10. CASE CloseBlock
  <2>1. op = "close" /\ locals' = SubSeq(locals, 1, Len(locals) - 1)
    BY <1>8, <1>10 DEF CloseBlock, LeaveScope
  <2>2. PICK ls : ls = locals'
    OBVIOUS
  <2>3. e = d - 1 /\ d > 0
    BY <1>3, <2>1
  <2>4. Len(ls) = e + 2 /\ ls = [i \in 1 .. (e + 2) |-> ls[i]]
        /\ (\A i \in 1 .. (e + 2) : ls[i] = locals[i])
    <3>1. PICK S : S = {locals[i] : i \in 1 .. (d + 2)}
      OBVIOUS
    <3>2. locals \in Seq(S)
      BY <1>3, <1>4, <3>1
    <3>3. ls = SubSeq(locals, 1, d + 1)
      BY <1>3, <2>1, <2>2
    <3>4. ls \in Seq(S) /\ Len(ls) = d + 1 /\ \A i \in 1 .. (d + 1) : ls[i] = locals[i]
      BY <1>3, <2>3, <3>2, <3>3
    <3>5. d + 1 = e + 2
      BY <1>3, <2>3
    <3> QED
      BY <3>4, <3>5
  <2>5. HoldsParams(ls[1])'
    <3>1. ls[1] = locals[1]
      <4>1. 1 \in 1 .. (d + 2) /\ 1 \in 1 .. (e + 2)
        BY <1>3
      <4> QED
        BY <2>4, <4>1
    <3>2. HoldsParams(ls[1])
      BY <1>3, <3>1
    <3>3. PICK sc : sc = ls[1]
      OBVIOUS
    <3> QED
      BY <1>5, <3>2, <3>3
  <2>6. ASSUME NEW i \in 2 .. (e + 2) PROVE HoldsBlock(ls[i], i - 2)'
    <3>1. PICK sc, l : sc = ls[i] /\ l = i - 2
      OBVIOUS
    <3>2. HoldsBlock(sc, l) /\ l \in Nat /\ l <= e
      <4>1. i \in 2 .. (d + 2) /\ i \in 1 .. (e + 2)
        BY <1>3, <2>3
      <4>2. sc = locals[i]
        BY <2>4, <3>1, <4>1
      <4>3. HoldsBlock(locals[i], i - 2)
        BY <1>3, <4>1
      <4> QED
        BY <1>3, <3>1, <4>2, <4>3
    <3>3. HoldsBlock(sc, l)'
      BY <1>6, <2>1, <3>2
    <3> QED
      BY <3>1, <3>3
  <2> QED
    BY <1>7, <2>2, <2>4, <2>5, <2>6
<1>11. ASSUME locals' = locals, op \notin {"open", "close", "sit"} PROVE LocalsInv'
  <2>1. e = d
    BY <1>3, <1>11
  <2>2. HoldsParams(locals[1])'
    <3>1. PICK sc : sc = locals[1] /\ sc = locals'[1]
      BY <1>11
    <3> QED
      BY <1>3, <1>5, <3>1
  <2>3. ASSUME NEW i \in 2 .. (e + 2) PROVE HoldsBlock(locals[i], i - 2)'
    <3>1. PICK sc, l : sc = locals[i] /\ sc = locals'[i] /\ l = i - 2
      BY <1>11
    <3>2. HoldsBlock(sc, l) /\ l \in Nat /\ l <= e
      <4>1. i \in 2 .. (d + 2) /\ l \in Nat /\ l <= e
        BY <1>3, <2>1, <3>1
      <4>2. HoldsBlock(locals[i], i - 2)
        BY <1>3, <4>1
      <4> QED
        BY <3>1, <4>1, <4>2
    <3>3. HoldsBlock(sc, l)'
      BY <1>6, <1>11, <3>2
    <3> QED
      BY <3>1, <3>3
  <2>4. PICK ls : ls = locals /\ ls = locals'
    BY <1>11
  <2>5. Len(ls) = e + 2 /\ ls = [i \in 1 .. (e + 2) |-> ls[i]]
    BY <1>3, <1>4, <2>1, <2>4
  <2>6. HoldsParams(ls[1])' /\ \A i \in 2 .. (e + 2) : HoldsBlock(ls[i], i - 2)'
    BY <2>2, <2>3, <2>4
  <2> QED
    BY <1>7, <2>4, <2>5, <2>6
<1>12. CASE (Evaluate \/ Return) /\ pass' # "crashed"
  <2>1. op \in {"eval", "redde"}
    BY <1>8, <1>12 DEF Evaluate, Return
  <2>2. locals' = locals
    BY <1>12 DEF Evaluate, Return, Crash
  <2> QED
    BY <1>11, <2>1, <2>2
<1>13. CASE DeclareLocal /\ pass' # "crashed"
  <2>1. op = "sit"
    BY <1>8, <1>13 DEF DeclareLocal
  <2>2. e = d /\ Inner = d + 2
    BY <1>3, <2>1 DEF Inner
  <2>3. PICK m, t, sym : /\ m = Stmt.name /\ sym = Symbol("sit", t, FALSE, <<file, decl, "local", stmt>>)
                         /\ locals' = [locals EXCEPT ![Inner] = Define(@, m, sym)]
    <3>1. ~Crash
      BY <1>13 DEF Crash
    <3> QED
      BY <1>13, <3>1 DEF DeclareLocal
  <2>4. PICK ls, top : ls = locals' /\ top = Define(locals[d + 2], m, sym)
    OBVIOUS
  <2>5. /\ Len(ls) = e + 2 /\ ls = [i \in 1 .. (e + 2) |-> ls[i]]
        /\ \A i \in 1 .. (d + 1) : ls[i] = locals[i]
        /\ ls[d + 2] = top
    <3>1. ls = [locals EXCEPT ![d + 2] = top]
      BY <2>2, <2>3, <2>4
    <3>2. ls = [i \in 1 .. (d + 2) |-> IF i = d + 2 THEN top ELSE locals[i]]
      BY <1>3, <1>4, <3>1
    <3>3. Len(ls) = d + 2
      <4>1. ls \in Seq({top} \cup {locals[i] : i \in 1 .. (d + 2)})
        BY <1>3, <3>2
      <4> QED
        BY <1>3, <3>2, <4>1
    <3> QED
      BY <1>3, <2>2, <3>2, <3>3
  <2>6. HoldsParams(ls[1])'
    <3>1. ls[1] = locals[1]
      <4>1. 1 \in 1 .. (d + 1)
        BY <1>3
      <4> QED
        BY <2>5, <4>1
    <3>2. HoldsParams(ls[1])
      BY <1>3, <3>1
    <3>3. PICK sc : sc = ls[1]
      OBVIOUS
    <3> QED
      BY <1>5, <3>2, <3>3
  <2>7. ASSUME NEW i \in 2 .. (e + 2) PROVE HoldsBlock(ls[i], i - 2)'
    <3>1. CASE i # d + 2
      <4>1. PICK sc, l : sc = ls[i] /\ l = i - 2
        OBVIOUS
      <4>2. i \in 1 .. (d + 1) /\ i \in 2 .. (d + 2)
        BY <1>3, <2>2, <3>1
      <4>3. HoldsBlock(sc, l) /\ l \in Nat /\ l <= e /\ l # e
        <5>1. HoldsBlock(locals[i], i - 2)
          BY <1>3, <4>2
        <5>2. sc = locals[i]
          BY <2>5, <4>1, <4>2
        <5>3. l \in Nat /\ l <= e /\ l # e
          BY <1>3, <2>2, <3>1, <4>1, <4>2
        <5> QED
          BY <4>1, <5>1, <5>2, <5>3
      <4>4. HoldsBlock(sc, l)'
        BY <1>6, <4>3
      <4> QED
        BY <4>1, <4>4
    <3>2. CASE i = d + 2
      <4>1. PICK sc : sc = locals[d + 2]
        OBVIOUS
      <4>2. HoldsBlock(sc, d)
        <5>1. d + 2 \in 2 .. (d + 2) /\ (d + 2) - 2 = d
          BY <1>3
        <5> QED
          BY <1>3, <4>1, <5>1
      <4>3. top = [k \in DOMAIN sc \cup {m} |-> IF k \in DOMAIN sc THEN sc[k] ELSE sym]
        BY <2>4, <4>1, DefineIs
      <4>4. ASSUME NEW n
            PROVE  /\ n \in DOMAIN top <=> VisibleAt(d, n)' # {}
                   /\ n \in DOMAIN top =>
                        IsLocalSymbol(top[n], <<file, decl, "local", Least(VisibleAt(d, n)')>>)
        <5>1. PICK V, W : V = VisibleAt(d, n) /\ W = VisibleAt(d, n)'
          OBVIOUS
        <5>2. W = V \cup (IF m = n THEN {stmt} ELSE {})
          <6>1. d <= Depth(Decl.body, stmt) /\ Depth(Decl.body, stmt) = d
            BY <1>2, <1>3, <2>2
          <6>2. Decl.body[stmt].op = "sit" /\ Decl.body[stmt].name = m
            BY <1>2, <2>1, <2>3 DEF Stmt
          <6>3. VisibleAt(d, n)' = VisibleAt(d, n) \cup
                  (IF /\ Decl.body[stmt].op = "sit" /\ Decl.body[stmt].name = n
                      /\ Depth(Decl.body, stmt) = d
                   THEN {stmt} ELSE {})
            BY <1>1, <1>3, <6>1, VisibleStep
          <6> QED
            BY <5>1, <6>1, <6>2, <6>3
        <5>3. /\ n \in DOMAIN sc <=> V # {}
              /\ n \in DOMAIN sc => IsLocalSymbol(sc[n], <<file, decl, "local", Least(V)>>)
          BY <4>2, <5>1 DEF HoldsBlock
        <5>4. V \subseteq 1 .. (stmt - 1)
          BY <5>1 DEF VisibleAt
        <5>5. CASE n \in DOMAIN sc
          <6>1. n \in DOMAIN top /\ top[n] = sc[n]
            BY <4>3, <5>5
          <6>2. Least(W) = Least(V)
            <7>1. V \in SUBSET Nat /\ W \in SUBSET Nat /\ V # {} /\ V \subseteq W
              BY <1>1, <5>2, <5>3, <5>4, <5>5
            <7>2. \A y \in W : y \in V \/ \A x \in V : x <= y
              BY <1>1, <5>2, <5>4
            <7> QED
              BY <7>1, <7>2, LeastStays
          <6> QED
            BY <5>1, <5>2, <5>3, <5>5, <6>1, <6>2
        <5>6. CASE n \notin DOMAIN sc /\ n = m
          <6>1. n \in DOMAIN top /\ top[n] = sym
            BY <4>3, <5>6
          <6>2. W = {stmt} /\ {stmt} \in SUBSET Nat
            BY <1>1, <5>2, <5>3, <5>6
          <6>3. Least(W) = stmt
            BY <6>2, LeastIsMember
          <6>4. IsLocalSymbol(sym, <<file, decl, "local", stmt>>)
            BY <2>3 DEF IsLocalSymbol, Symbol
          <6> QED
            BY <5>1, <6>1, <6>2, <6>3, <6>4
        <5>7. CASE n \notin DOMAIN sc /\ n # m
          <6>1. n \notin DOMAIN top /\ W = {}
            BY <4>3, <5>2, <5>3, <5>7
          <6> QED
            BY <5>1, <6>1
        <5> QED
          BY <5>5, <5>6, <5>7
      <4>5. HoldsBlock(top, d)'
        BY <1>1, <4>4 DEF HoldsBlock
      <4>6. ls[i] = top /\ i - 2 = d
        BY <1>3, <2>5, <3>2
      <4> QED
        BY <4>5, <4>6
    <3> QED
      BY <3>1, <3>2
  <2> QED
    BY <1>7, <2>4, <2>5, <2>6, <2>7
<1> QED
  BY <1>9, <1>10, <1>12, <1>13

LEMMA LocalsStep ==
  ASSUME PlaceInv, LocalsInv, [IrNext]_<<vars, irVars>>
  PROVE  LocalsInv'
<1>1. ASSUME stmt' = 0 PROVE LocalsInv'
  BY <1>1 DEF LocalsInv
<1>2. ASSUME pass' # "bodies" PROVE LocalsInv'
  BY <1>2 DEF LocalsInv
<1>3. CASE \/ RegisterModule \/ CollectTypeNames \/ CollectDeclaration \/ ImportDeclaration
           \/ CheckGlobal /\ pass' # "crashed"
           \/ EnterFunction /\ stmt' = 0
           \/ LeaveFunction \/ SkipDeclaration
  BY <1>1, <1>3, WhoAdvances DEF Moves
<1>4. CASE EnterFunction /\ stmt' # 0
  <2>1. /\ pass = "bodies" /\ UNCHANGED <<prog, file, decl>> /\ Decl' = Decl
        /\ Decl.kind = "actio" /\ ProperDeclaration(Decl)
    BY <1>4, WhoFollows DEF Decl, Decls
  <2>2. PICK sc : sc = ParamScope[Len(Decl.params)]
    OBVIOUS
  <2>3. locals' = <<sc, <<>>>> /\ stmt' = 1
    BY <1>4, <2>2 DEF EnterFunction, Advance
  <2>4. HoldsParams(sc)
    <3>1. IsSeq(Decl.params)
      BY <2>1 DEF ProperDeclaration
    <3>2. ASSUME NEW n
          PROVE  /\ n \in DOMAIN sc <=> ParamsNamed(n) # {}
                 /\ n \in DOMAIN sc => IsLocalSymbol(sc[n], <<file, decl, "param", Least(ParamsNamed(n))>>)
      BY <2>2, <3>1, ParamScopeHolds
    <3> QED
      BY <3>2 DEF HoldsParams
  <2>5. HoldsParams(sc)'
    BY <2>1, <2>4, ParamsStay
  <2>6. PICK none : none = <<>> /\ DOMAIN none = {}
    OBVIOUS
  <2>7. HoldsBlock(none, 0)'
    <3>1. \A n : VisibleAt(0, n)' = {}
      BY <2>3 DEF VisibleAt
    <3> QED
      BY <2>6, <3>1 DEF HoldsBlock
  <2>8. /\ IsSeq(locals') /\ Len(locals') = 2 /\ locals'[1] = sc /\ locals'[2] = none
    <3>1. Len(locals') = 2 /\ locals'[1] = sc /\ locals'[2] = none
      BY <2>3, <2>6
    <3>2. locals' = [i \in 1 .. 2 |-> locals'[i]]
      BY <2>3
    <3> QED
      BY <3>1, <3>2 DEF IsSeq
  <2>9. Depth(Decl'.body, stmt' - 1) = 0
    <3>1. stmt' - 1 = 0
      BY <2>3
    <3> QED
      BY <3>1, DepthStep
  <2>10. HoldsParams(locals[1])'
    BY <2>5, <2>8
  <2>11. ASSUME NEW i \in 2 .. Len(locals') PROVE HoldsBlock(locals[i], i - 2)'
    <3>1. i = 2 /\ i - 2 = 0
      BY <2>8, <2>11
    <3> QED
      BY <2>7, <2>8, <3>1
  <2>12. Len(locals') = 2 + Depth(Decl'.body, stmt' - 1)
    BY <2>8, <2>9
  <2> QED
    BY <2>8, <2>10, <2>11, <2>12 DEF LocalsInv
<1>5. CASE OpenBlock \/ CloseBlock \/ ((DeclareLocal \/ Evaluate \/ Return) /\ pass' # "crashed")
  <2>1. \A op : InBody(op) => stmt # 0
    BY DEF InBody
  <2>2. InBody("open") \/ InBody("close") \/ InBody("sit") \/ InBody("eval") \/ InBody("redde")
    BY <1>5 DEF OpenBlock, CloseBlock, DeclareLocal, Evaluate, Return
  <2>3. stmt # 0
    BY <2>1, <2>2
  <2> QED
    BY <1>5, <2>3, StatementKeepsLocals
<1>6. CASE Crash /\ pass = "bodies"
  BY <1>2, <1>6 DEF Crash
<1>7. CASE Generate \/ Register \/ EvaluateConstant \/ EmitGlobal \/ EmitBody \/ EmitNothing
  BY <1>2, <1>7, WhoGenerates DEF Later
<1>8. CASE UNCHANGED <<vars, irVars>>
  <2>1. /\ UNCHANGED <<pass, prog, file, decl, stmt, locals>> /\ Decl' = Decl
    BY <1>8 DEF vars, Decl, Decls
  <2>2. ASSUME NEW sc, HoldsParams(sc) PROVE HoldsParams(sc)'
    BY <2>1, <2>2, ParamsStay
  <2>3. \A l, n : VisibleAt(l, n)' = VisibleAt(l, n)
    BY <2>1 DEF VisibleAt
  <2>4. ASSUME NEW sc, NEW l, HoldsBlock(sc, l) PROVE HoldsBlock(sc, l)'
    BY <2>1, <2>3, <2>4 DEF HoldsBlock
  <2>5. ASSUME pass = "bodies", stmt > 0 PROVE LocalsInv'
    <3>1. /\ IsSeq(locals) /\ Len(locals) = 2 + Depth(Decl.body, stmt - 1)
          /\ HoldsParams(locals[1])
          /\ \A i \in 2 .. Len(locals) : HoldsBlock(locals[i], i - 2)
      BY <2>5 DEF LocalsInv
    <3>2. HoldsParams(locals[1])'
      <4>1. PICK sc : sc = locals[1] /\ sc = locals'[1]
        BY <2>1
      <4> QED
        BY <2>2, <3>1, <4>1
    <3>3. ASSUME NEW i \in 2 .. Len(locals') PROVE HoldsBlock(locals[i], i - 2)'
      <4>1. PICK sc : sc = locals[i] /\ sc = locals'[i]
        BY <2>1
      <4>2. HoldsBlock(locals[i], i - 2)
        BY <2>1, <3>1, <3>3
      <4>3. PICK l : l = i - 2
        OBVIOUS
      <4>4. HoldsBlock(sc, l)
        BY <4>1, <4>2, <4>3
      <4>5. HoldsBlock(sc, l)'
        BY <2>4, <4>4
      <4> QED
        BY <4>1, <4>3, <4>5
    <3> QED
      BY <2>1, <3>1, <3>2, <3>3 DEF LocalsInv
  <2> QED
    BY <2>1, <2>5 DEF LocalsInv
<1> QED
  BY <1>3, <1>4, <1>5, <1>6, <1>7, <1>8, CheckStepKinds DEF IrNext

-----------------------------------------------------------------------------
(* What a name reaches is what it denotes. *)

\* An unqualified name, wherever the check is.
LEMMA LookupMeans ==
  ASSUME PlaceInv, UniverseInv, OwnInv, ScopeInv, LocalsInv, pass = "bodies", NEW n,
         stmt = 0 \/ stmt <= Len(Decl.body)
  PROVE  Means(Lookup(Scopes, n), Unqualified(file, decl, stmt, n))
<1>1. file \in DOMAIN prog /\ stmt \in Nat /\ (stmt = 0 => locals = <<>>)
  BY DEF PlaceInv
<1>2. PICK r : r = Lookup(<<universe, scope[file]>> \o locals, n)
  OBVIOUS
<1>3. PICK s : s = IF n \in DOMAIN scope[file] THEN scope[file][n] ELSE Find(universe, n)
  OBVIOUS
<1>4. Means(s, FileLevel(file, n))
  BY <1>1, <1>3, FileLevelIsFound
<1>5. IsSeq(locals)
  <2>1. CASE stmt = 0
    <3>1. IsSeq(<<>>)
      BY DEF IsSeq
    <3> QED
      BY <1>1, <2>1, <3>1
  <2>2. CASE stmt # 0
    BY <1>1, <2>2 DEF LocalsInv
  <2> QED
    BY <2>1, <2>2
<1>6. /\ \A i \in 1 .. Len(locals) :
           n \in DOMAIN locals[i] /\ (\A j \in (i + 1) .. Len(locals) : n \notin DOMAIN locals[j]) =>
             r = locals[i][n]
      /\ (\A i \in 1 .. Len(locals) : n \notin DOMAIN locals[i]) => r = s
  BY <1>2, <1>3, <1>5, LookupIs
<1>7. CASE stmt = 0
  <2>1. r = s
    <3>1. Len(locals) = 0
      BY <1>1, <1>7
    <3> QED
      BY <1>6, <3>1
  <2>2. Unqualified(file, decl, stmt, n) = FileLevel(file, n)
    BY <1>7 DEF Unqualified
  <2> QED
    BY <1>2, <1>4, <2>1, <2>2 DEF Scopes
<1>8. CASE stmt # 0
  <2>1. Decl.kind = "actio" /\ stmt \in Nat \ {0} /\ stmt <= Len(Decl.body)
    BY <1>1, <1>8 DEF PlaceInv
  <2>2. Decl = prog[file].decls[decl] /\ ProperDeclaration(Decl)
    BY <2>1, DeclAtHand DEF AllDecls
  <2>3. PICK b, d : b = Decl.body /\ d = Depth(Decl.body, stmt - 1)
    OBVIOUS
  <2>4. /\ d \in Nat /\ Len(locals) = d + 2
        /\ HoldsParams(locals[1])
        /\ \A i \in 2 .. (d + 2) : HoldsBlock(locals[i], i - 2)
    BY <2>1, <2>2, <2>3, DepthsOfBody
  <2>5. PICK visible : visible = {k \in 1 .. (stmt - 1) :
                                    /\ b[k].op = "sit" /\ b[k].name = n
                                    /\ \A j \in k .. (stmt - 1) : Depth(b, j) >= Depth(b, k)}
    OBVIOUS
  <2>6. PICK inner : inner = {k \in visible : \A j \in visible : Depth(b, j) <= Depth(b, k)}
    OBVIOUS
  <2>7. Unqualified(file, decl, stmt, n) =
          IF visible # {} THEN {<<file, decl, "local", Least(inner)>>}
          ELSE IF ParamsNamed(n) # {} THEN {<<file, decl, "param", Least(ParamsNamed(n))>>}
          ELSE FileLevel(file, n)
    BY <2>1, <2>2, <2>3, <2>5, <2>6 DEF Unqualified, ParamsNamed
  <2>8. \A k \in visible : Depth(b, k) \in 0 .. d /\ k \in VisibleAt(Depth(b, k), n)
    <3> TAKE k \in visible
    <3>7. IsSeq(b)
      BY <2>1, <2>2, <2>3 DEF ProperDeclaration
    <3>8. Len(b) \in Nat /\ k \in 1 .. (stmt - 1)
      BY <2>5, <3>7 DEF IsSeq
    <3>1. k \in 0 .. Len(b) /\ stmt - 1 \in k .. (stmt - 1) /\ k \in Nat
      BY <2>1, <2>3, <3>8
    <3>2. Depth(b, k) \in Int
      BY <3>1, DepthStep
    <3>3. Depth(b, k) >= 0
      BY <2>1, <2>2, <2>3, <3>1 DEF ProperDeclaration
    <3>4. Depth(b, k) <= d
      BY <2>3, <2>4, <2>5, <3>1, <3>2
    <3>5. k \in VisibleAt(Depth(b, k), n)
      BY <2>3, <2>5 DEF VisibleAt
    <3> QED
      BY <2>4, <3>2, <3>3, <3>4, <3>5
  <2>9. \A l \in Nat : VisibleAt(l, n) = {k \in visible : Depth(b, k) = l}
    BY <2>3, <2>5 DEF VisibleAt
  <2>10. \A i \in 2 .. (d + 2) : n \in DOMAIN locals[i] <=> VisibleAt(i - 2, n) # {}
    BY <2>4 DEF HoldsBlock
  <2>11. CASE visible # {}
    <3>1. PICK H : H = {i \in 1 .. (d + 2) : n \in DOMAIN locals[i]}
      OBVIOUS
    <3>2. \A k \in visible : Depth(b, k) + 2 \in H
      <4> TAKE k \in visible
      <4>1. PICK i : i = Depth(b, k) + 2
        OBVIOUS
      <4>2. i \in 2 .. (d + 2) /\ i - 2 = Depth(b, k) /\ i \in 1 .. (d + 2)
        BY <2>4, <2>8, <4>1
      <4>3. VisibleAt(i - 2, n) # {}
        BY <2>8, <4>2
      <4> QED
        BY <2>10, <3>1, <4>1, <4>2, <4>3
    <3>3. PICK i \in H : \A j \in H : j <= i
      <4>1. H # {} /\ H \in SUBSET (1 .. (d + 2)) /\ d + 2 \in Nat
        BY <2>4, <2>11, <3>1, <3>2
      <4> QED
        BY <4>1, GreatestBelow
    <3>4. i \in 2 .. (d + 2)
      <4>1. PICK k \in visible : TRUE
        BY <2>11
      <4>2. Depth(b, k) + 2 <= i /\ Depth(b, k) >= 0 /\ Depth(b, k) \in Int
        BY <2>4, <2>8, <3>2, <3>3, <4>1
      <4>3. i \in 1 .. (d + 2)
        BY <3>1
      <4> QED
        BY <2>4, <4>2, <4>3
    <3>5. r = locals[i][n] /\ n \in DOMAIN locals[i]
      <4>1. i \in 1 .. (d + 2) /\ n \in DOMAIN locals[i]
        BY <3>1
      <4>2. ASSUME NEW j \in (i + 1) .. (d + 2) PROVE n \notin DOMAIN locals[j]
        <5>1. j \in 1 .. (d + 2) /\ ~(j <= i)
          BY <2>4, <4>1, <4>2
        <5> QED
          BY <3>1, <3>3, <5>1
      <4> QED
        BY <1>6, <2>4, <4>1, <4>2
    <3>6. PICK l \in Nat : l = i - 2
      BY <2>4, <3>4
    <3>7. VisibleAt(l, n) # {} /\ VisibleAt(l, n) = {k \in visible : Depth(b, k) = l}
      BY <2>9, <2>10, <3>4, <3>5, <3>6
    <3>8. \A k \in visible : Depth(b, k) <= l /\ Depth(b, k) \in Int
      <4> TAKE k \in visible
      <4>1. Depth(b, k) + 2 <= i /\ Depth(b, k) \in Int
        BY <2>4, <2>8, <3>2, <3>3
      <4> QED
        BY <2>4, <3>4, <3>6, <4>1
    <3>9. inner = VisibleAt(l, n)
      <4>1. \A k \in inner : Depth(b, k) = l
        <5> TAKE k \in inner
        <5>1. PICK j \in visible : Depth(b, j) = l
          BY <3>7
        <5>2. l <= Depth(b, k) /\ k \in visible
          BY <2>6, <5>1
        <5> QED
          BY <3>8, <5>2
      <4>2. \A k \in visible : Depth(b, k) = l => k \in inner
        BY <2>6, <3>8
      <4> QED
        BY <2>6, <3>7, <4>1, <4>2
    <3>10. IsLocalSymbol(r, <<file, decl, "local", Least(inner)>>)
      <4>1. HoldsBlock(locals[i], l)
        BY <2>4, <3>4, <3>6
      <4>2. IsLocalSymbol(locals[i][n], <<file, decl, "local", Least(VisibleAt(l, n))>>)
        BY <3>5, <4>1 DEF HoldsBlock
      <4> QED
        BY <3>5, <3>9, <4>2
    <3>11. r.id = <<file, decl, "local", Least(inner)>> /\ r.kind = "sit"
      BY <3>10 DEF IsLocalSymbol, Symbol
    <3>12. Len(r.id) = 4
      BY <3>11
    <3>13. Unqualified(file, decl, stmt, n) = {r.id}
      BY <2>7, <2>11, <3>11
    <3> QED
      BY <1>2, <3>11, <3>12, <3>13 DEF Means, Scopes
  <2>12. ASSUME visible = {} PROVE \A i \in 2 .. (d + 2) : n \notin DOMAIN locals[i]
    <3> TAKE i \in 2 .. (d + 2)
    <3>1. i - 2 \in Nat
      BY <2>4
    <3>2. VisibleAt(i - 2, n) = {}
      BY <2>9, <2>12, <3>1
    <3> QED
      BY <2>10, <3>2
  <2>13. CASE visible = {} /\ ParamsNamed(n) # {}
    <3>1. n \in DOMAIN locals[1]
      BY <2>4, <2>13 DEF HoldsParams
    <3>2. r = locals[1][n]
      <4>1. 1 \in 1 .. Len(locals) /\ \A j \in 2 .. Len(locals) : n \notin DOMAIN locals[j]
        BY <2>4, <2>12, <2>13
      <4> QED
        BY <1>6, <3>1, <4>1
    <3>3. IsLocalSymbol(r, <<file, decl, "param", Least(ParamsNamed(n))>>)
      BY <2>4, <3>1, <3>2 DEF HoldsParams
    <3>4. r.id = <<file, decl, "param", Least(ParamsNamed(n))>> /\ r.kind = "sit"
      BY <3>3 DEF IsLocalSymbol, Symbol
    <3>5. Len(r.id) = 4
      BY <3>4
    <3>6. Unqualified(file, decl, stmt, n) = {r.id}
      BY <2>7, <2>13, <3>4
    <3> QED
      BY <1>2, <3>4, <3>5, <3>6 DEF Means, Scopes
  <2>14. CASE visible = {} /\ ParamsNamed(n) = {}
    <3>1. n \notin DOMAIN locals[1]
      BY <2>4, <2>14 DEF HoldsParams
    <3>2. \A i \in 1 .. (d + 2) : i = 1 \/ i \in 2 .. (d + 2)
      BY <2>4
    <3>3. \A i \in 1 .. Len(locals) : n \notin DOMAIN locals[i]
      BY <2>4, <2>12, <2>14, <3>1, <3>2
    <3>4. r = s
      BY <1>6, <3>3
    <3>5. Unqualified(file, decl, stmt, n) = FileLevel(file, n)
      BY <2>7, <2>14
    <3> QED
      BY <1>2, <1>4, <3>4, <3>5 DEF Scopes
  <2> QED
    BY <2>11, <2>13, <2>14
<1> QED
  BY <1>7, <1>8

\* A name, qualified or not.
LEMMA ResolveMeans ==
  ASSUME PlaceInv, UniverseInv, OwnInv, ScopeInv, LocalsInv, pass = "bodies", NEW mod, NEW n,
         stmt = 0 \/ stmt <= Len(Decl.body)
  PROVE  Means(Resolve(Scopes, mod, n), Denotes(<<file, decl, stmt>>, mod, n))
<1>0. PICK at : at = <<file, decl, stmt>>
  OBVIOUS
<1>1. at = <<file, decl, stmt>> /\ at[1] = file /\ at[2] = decl /\ at[3] = stmt
  BY <1>0
<1>2. CASE mod = ""
  <2>1. Denotes(at, mod, n) = Unqualified(file, decl, stmt, n)
    BY <1>1, <1>2 DEF Denotes
  <2>2. Resolve(Scopes, mod, n) = Lookup(Scopes, n)
    BY <1>2 DEF Resolve
  <2> QED
    BY <1>1, <2>1, <2>2, LookupMeans
<1>3. CASE mod # ""
  <2>1. PICK m, ids : m = Lookup(Scopes, mod) /\ ids = Unqualified(file, decl, stmt, mod)
    OBVIOUS
  <2>2. Means(m, ids)
    BY <2>1, LookupMeans
  <2>3. PICK r : r = Member(m, n)
    OBVIOUS
  <2>4. Resolve(Scopes, mod, n) = r
    BY <1>3, <2>1, <2>3 DEF Resolve
  <2>5. Denotes(at, mod, n) = Public(n, {id \in ids : Len(id) = 1})
    BY <1>1, <1>3, <2>1 DEF Denotes
  <2>6. CASE m.kind # "module"
    <3>1. {id \in ids : Len(id) = 1} = {}
      <4>1. ids = {} \/ (ids = {m.id} /\ Len(m.id) \in {2, 4})
        BY <2>2, <2>6 DEF Means
      <4>2. ASSUME NEW id \in ids PROVE Len(id) # 1
        <5>1. id = m.id /\ Len(m.id) \in {2, 4}
          BY <4>1, <4>2
        <5> QED
          BY <5>1
      <4> QED
        BY <4>2
    <3>2. Public(n, {}) = {}
      BY DEF Public
    <3>3. r = NoSymbol
      BY <2>3, <2>6 DEF Member
    <3>4. r.id = NoDecl /\ r.kind # "module"
      BY <3>3 DEF NoSymbol, Symbol
    <3> QED
      BY <1>1, <2>4, <2>5, <3>1, <3>2, <3>4 DEF Means
  <2>7. CASE m.kind = "module"
    <3>1. PICK h \in DOMAIN prog : m.id = <<h>> /\ ids = {m.id}
      <4>1. m.id # NoDecl \/ m.kind = "module"
        BY <2>7
      <4> QED
        BY <2>2, <2>7 DEF Means
    <3>2. {id \in ids : Len(id) = 1} = {m.id}
      BY <3>1
    <3>3. Settled
      BY DEF Settled, Failing
    <3>4. \/ r = NoSymbol /\ Public(n, {m.id}) = {}
          \/ /\ Public(n, {m.id}) = {r.id}
             /\ \E d \in DOMAIN AllDecls(h) : r.id = <<h, d>>
             /\ r.kind = DeclOf(r.id).kind
      <4>1. \/ Member(m, n) = NoSymbol /\ Public(n, {m.id}) = {}
            \/ /\ Public(n, {m.id}) = {Member(m, n).id}
               /\ \E d \in DOMAIN AllDecls(h) : Member(m, n).id = <<h, d>>
               /\ Member(m, n).kind = DeclOf(Member(m, n).id).kind
        BY <2>7, <3>1, <3>3, MemberIsPublic
      <4> QED
        BY <2>3, <4>1
    <3>5. CASE r = NoSymbol /\ Public(n, {m.id}) = {}
      <4>1. r.id = NoDecl /\ r.kind # "module"
        BY <3>5 DEF NoSymbol, Symbol
      <4> QED
        BY <1>1, <2>4, <2>5, <3>2, <3>5, <4>1 DEF Means
    <3>6. ASSUME NEW d \in DOMAIN AllDecls(h), r.id = <<h, d>>, Public(n, {m.id}) = {r.id},
                 r.kind = DeclOf(r.id).kind
          PROVE  Means(r, Public(n, {m.id}))
      <4>1. DeclOf(r.id) = AllDecls(h)[d]
        BY <3>6 DEF DeclOf, AllDecls
      <4>2. ProperDeclaration(AllDecls(h)[d])
        BY <3>1, <3>6, ProgramIsProper
      <4>3. r.kind # "module"
        BY <3>6, <4>1, <4>2 DEF ProperDeclaration
      <4>4. Len(r.id) = 2
        BY <3>6
      <4> QED
        BY <3>6, <4>3, <4>4 DEF Means
    <3>7. Means(r, Public(n, {m.id})) \/ (r = NoSymbol /\ Public(n, {m.id}) = {})
      BY <3>4, <3>6
    <3> QED
      BY <1>1, <2>4, <2>5, <3>2, <3>5, <3>7
  <2> QED
    BY <2>6, <2>7
<1> QED
  BY <1>2, <1>3

LEMMA DenotesStays ==
  ASSUME prog' = prog, NEW at, NEW mod, NEW n
  PROVE  Denotes(at, mod, n)' = Denotes(at, mod, n)
<1>1. \A f, m : Own(f, m)' = Own(f, m)
  BY DEF Own
<1>2. \A m : ModuleNamed(m)' = ModuleNamed(m)
  BY DEF ModuleNamed
<1>3. \A id : DeclOf(id)' = DeclOf(id)
  BY DEF DeclOf
<1>4. \A m, S : Public(m, S)' = Public(m, S)
  <2> TAKE m, S
  <2>1. {Own(f[1], m)' : f \in S} = {Own(f[1], m) : f \in S}
    BY <1>1
  <2> QED
    BY <1>3, <2>1 DEF Public
<1>5. \A f, m : FileLevel(f, m)' = FileLevel(f, m)
  <2> TAKE f, m
  <2>1. PICK q : q = {d \in DOMAIN prog[f].decls :
                        /\ prog[f].decls[d].kind = "importa"
                        /\ \/ \E i \in DOMAIN prog[f].decls[d].items : prog[f].decls[d].items[i] = m
                           \/ prog[f].decls[d].items = <<>> /\ prog[f].decls[d].from = m}
    OBVIOUS
  <2>2. q = {d \in DOMAIN prog'[f].decls :
               /\ prog'[f].decls[d].kind = "importa"
               /\ \/ \E i \in DOMAIN prog'[f].decls[d].items : prog'[f].decls[d].items[i] = m
                  \/ prog'[f].decls[d].items = <<>> /\ prog'[f].decls[d].from = m}
    BY <2>1
  <2>3. FileLevel(f, m) = IF Own(f, m) # {} THEN Own(f, m)
                          ELSE IF q = {} THEN ModuleNamed(m)
                          ELSE IF prog[f].decls[Least(q)].items = <<>> THEN ModuleNamed(m)
                               ELSE Public(m, ModuleNamed(prog[f].decls[Least(q)].from))
    BY <2>1 DEF FileLevel
  <2>4. FileLevel(f, m)' = IF Own(f, m)' # {} THEN Own(f, m)'
                           ELSE IF q = {} THEN ModuleNamed(m)'
                           ELSE IF prog'[f].decls[Least(q)].items = <<>> THEN ModuleNamed(m)'
                                ELSE Public(m, ModuleNamed(prog[f].decls[Least(q)].from))'
    BY <2>2 DEF FileLevel
  <2>5. PICK x : x = prog[f].decls[Least(q)].from /\ x = prog'[f].decls[Least(q)].from
    OBVIOUS
  <2>6. Public(m, ModuleNamed(x))' = Public(m, ModuleNamed(x))
    BY <1>2, <1>4
  <2> QED
    BY <1>1, <1>2, <2>3, <2>4, <2>5, <2>6
<1>6. \A f, d, s, m : Unqualified(f, d, s, m)' = Unqualified(f, d, s, m)
  <2> TAKE f, d, s, m
  <2>b. PICK body : body = prog[f].decls[d].body /\ body = prog'[f].decls[d].body
    OBVIOUS
  <2>p. PICK N : N = prog[f].decls[d].params /\ N = prog'[f].decls[d].params
    OBVIOUS
  <2>1. PICK params : params = {i \in DOMAIN N : N[i].name = m}
    OBVIOUS
  <2>2. PICK visible : visible = {k \in 1 .. (s - 1) :
                                    /\ body[k].op = "sit" /\ body[k].name = m
                                    /\ \A j \in k .. (s - 1) : Depth(body, j) >= Depth(body, k)}
    OBVIOUS
  <2>3. PICK inner : inner = {k \in visible : \A j \in visible : Depth(body, j) <= Depth(body, k)}
    OBVIOUS
  <2>4. Unqualified(f, d, s, m) = IF s = 0 THEN FileLevel(f, m)
                                  ELSE IF visible # {} THEN {<<f, d, "local", Least(inner)>>}
                                  ELSE IF params # {} THEN {<<f, d, "param", Least(params)>>}
                                  ELSE FileLevel(f, m)
    BY <2>b, <2>p, <2>1, <2>2, <2>3 DEF Unqualified
  <2>5. Unqualified(f, d, s, m)' = IF s = 0 THEN FileLevel(f, m)'
                                   ELSE IF visible # {} THEN {<<f, d, "local", Least(inner)>>}
                                   ELSE IF params # {} THEN {<<f, d, "param", Least(params)>>}
                                   ELSE FileLevel(f, m)'
    BY <2>b, <2>p, <2>1, <2>2, <2>3 DEF Unqualified
  <2> QED
    BY <1>5, <2>4, <2>5
<1> QED
  BY <1>4, <1>6 DEF Denotes

\* What an expression adds to the uses.
LEMMA MetReachVisible ==
  ASSUME PlaceInv, UniverseInv, OwnInv, ScopeInv, LocalsInv, pass = "bodies",
         stmt = 0 \/ stmt <= Len(Decl.body),
         NEW e, NEW u \in Met(e)
  PROVE  Denotes(u.at, u.mod, u.name) = IF u.id = NoDecl THEN {} ELSE {u.id}
<1>1. PICK a \in Names(e) : u = [at |-> <<file, decl, stmt>>, mod |-> a.mod, name |-> a.name, id |-> Sym(a).id,
                                 type |-> Sym(a).type, alias |-> Sym(a).alias, called |-> a.op = "callee"]
  BY DEF Met
<1>2. PICK s : s = Resolve(Scopes, a.mod, a.name)
  OBVIOUS
<1>3. u.at = <<file, decl, stmt>> /\ u.mod = a.mod /\ u.name = a.name /\ u.id = s.id
  <2>1. Sym(a) = s
    BY <1>2 DEF Sym
  <2> QED
    BY <1>1, <2>1
<1>4. PICK ids : ids = Denotes(<<file, decl, stmt>>, a.mod, a.name)
  OBVIOUS
<1>5. Means(s, ids)
  BY <1>2, <1>4, ResolveMeans
<1>6. ids = IF s.id = NoDecl THEN {} ELSE {s.id}
  <2>1. PICK i : i = s.id
    OBVIOUS
  <2>2. Len(NoDecl) = 0
    BY DEF NoDecl
  <2>3. \/ i = NoDecl /\ ids = {}
        \/ ids = {i} /\ \E h \in DOMAIN prog : i = <<h>>
        \/ ids = {i} /\ Len(i) \in {2, 4}
    BY <1>5, <2>1 DEF Means
  <2>4. ASSUME NEW h, i = <<h>> PROVE i # NoDecl
    <3>1. Len(i) = 1
      BY <2>4
    <3> QED
      BY <2>2, <3>1
  <2>5. Len(i) \in {2, 4} => i # NoDecl
    BY <2>2
  <2> QED
    BY <2>1, <2>3, <2>4, <2>5
<1>7. Denotes(u.at, u.mod, u.name) = ids
  BY <1>3, <1>4
<1> QED
  BY <1>3, <1>6, <1>7

LEMMA UsesStep ==
  ASSUME PlaceInv, UniverseInv, OwnInv, ScopeInv, LocalsInv, UsesReachVisible, [IrNext]_<<vars, irVars>>
  PROVE  UsesReachVisible'
<1>1. prog' = prog
  BY UniverseStays
<1>2. ASSUME \A u \in uses' : Denotes(u.at, u.mod, u.name) = IF u.id = NoDecl THEN {} ELSE {u.id}
      PROVE  UsesReachVisible'
  <2>1. ASSUME NEW u \in uses' PROVE (Denotes(u.at, u.mod, u.name) = IF u.id = NoDecl THEN {} ELSE {u.id})'
    <3>1. Denotes(u.at, u.mod, u.name)' = Denotes(u.at, u.mod, u.name)
      BY <1>1, DenotesStays
    <3> QED
      BY <1>2, <2>1, <3>1
  <2> QED
    BY <2>1 DEF UsesReachVisible
<1>3. ASSUME uses' = uses PROVE UsesReachVisible'
  BY <1>2, <1>3 DEF UsesReachVisible
<1>4. ASSUME NEW e, uses' = uses \cup Met(e), pass = "bodies", stmt = 0 \/ stmt <= Len(Decl.body)
      PROVE  UsesReachVisible'
  BY <1>2, <1>4, MetReachVisible DEF UsesReachVisible
<1>5. CASE CheckGlobal
  <2>1. pass = "bodies" /\ (uses' = uses \/ uses' = uses \cup Met(Decl.init))
    BY <1>5 DEF CheckGlobal, Crash
  <2>2. stmt = 0
    <3>1. Decl.kind # "actio"
      BY <1>5 DEF CheckGlobal
    <3> QED
      BY <2>1, <3>1 DEF PlaceInv
  <2> QED
    BY <1>3, <1>4, <2>1, <2>2
<1>6. CASE DeclareLocal \/ Evaluate \/ Return
  <2>1. uses' = uses \/ uses' = uses \cup Met(Stmt.init)
    BY <1>6 DEF DeclareLocal, Evaluate, Return, Crash
  <2>2. \A op : InBody(op) => pass = "bodies" /\ stmt <= Len(Decl.body)
    BY DEF InBody
  <2>3. InBody("sit") \/ InBody("eval") \/ InBody("redde")
    BY <1>6 DEF DeclareLocal, Evaluate, Return
  <2> QED
    BY <1>3, <1>4, <2>1, <2>2, <2>3
<1>7. CASE \/ RegisterModule \/ CollectTypeNames \/ CollectDeclaration \/ ImportDeclaration
           \/ EnterFunction \/ LeaveFunction \/ SkipDeclaration
  BY <1>3, <1>7 DEF RegisterModule, CollectTypeNames, CollectDeclaration, ImportDeclaration,
                    EnterFunction, LeaveFunction, SkipDeclaration
<1>8. CASE OpenBlock \/ CloseBlock
  BY <1>3, <1>8 DEF OpenBlock, CloseBlock
<1>9. CASE Generate \/ Register \/ EvaluateConstant \/ EmitGlobal \/ EmitBody \/ EmitNothing
  BY <1>3, <1>9, WhoGenerates DEF Checked
<1>10. CASE UNCHANGED <<vars, irVars>>
  BY <1>3, <1>10 DEF vars
<1> QED
  BY <1>5, <1>6, <1>7, <1>8, <1>9, <1>10 DEF IrNext, CheckStep, Next

-----------------------------------------------------------------------------
LEMMA NamesInit ==
  ASSUME IrInit
  PROVE  NamesInv
<1>1. /\ prog \in Programs /\ pass = "modules" /\ file = 1 /\ decl = 1 /\ stmt = 0
      /\ universe = <<>> /\ scope = [f \in DOMAIN prog |-> <<>>] /\ locals = <<>>
      /\ hadError = FALSE /\ uses = {}
  BY DEF IrInit, Init
<1>2. IsSeq(prog) /\ Len(prog) > 0
  BY <1>1, ProgramsAssumption
<1>3. file \in DOMAIN prog
  <2>1. Len(prog) \in Nat /\ DOMAIN prog = 1 .. Len(prog)
    BY <1>2 DEF IsSeq
  <2> QED
    BY <1>1, <1>2, <2>1
<1>4. scope = [f \in DOMAIN prog |-> scope[f]]
  BY <1>1
<1>5. PlaceInv
  <2>1. decl # 0 /\ decl \in Nat /\ stmt \in Nat
    BY <1>1
  <2>3. hadError \in BOOLEAN
    BY <1>1
  <2>2. ~(stmt > 0)
    BY <1>1
  <2> QED
    BY <1>1, <1>3, <1>4, <2>1, <2>2, <2>3 DEF PlaceInv
<1>6. DOMAIN universe = {} /\ SeenModules = {}
  BY <1>1 DEF SeenModules
<1>7. UniverseInv
  BY <1>6 DEF UniverseInv
<1>8. \A g : Collected(g) = {} /\ \A n : Imported(g, n) = {}
  BY <1>1 DEF Collected, Imported
<1>9. OwnInv
  BY <1>8 DEF OwnInv
<1>10. ScopeInv
  <2>1. \A g \in DOMAIN prog : DOMAIN scope[g] = {}
    BY <1>1
  <2> QED
    BY <1>8, <2>1 DEF ScopeInv, AccountedFor
<1>11. LocalsInv /\ UsesReachVisible
  BY <1>1 DEF LocalsInv, UsesReachVisible
<1> QED
  BY <1>5, <1>7, <1>9, <1>10, <1>11 DEF NamesInv

\* Type correctness of the checker's place, and what its scopes hold.
THEOREM NamesInductive ==
  IrSpec => []NamesInv
<1>1. IrInit => NamesInv
  BY NamesInit
<1>2. NamesInv /\ [IrNext]_<<vars, irVars>> => NamesInv'
  BY PlaceStep, UniverseStep, OwnStep, ScopeStep, LocalsStep, UsesStep DEF NamesInv
<1> QED
  BY <1>1, <1>2, PTL DEF IrSpec

\* Whatever the program: a name in an expression reaches exactly the
\* declaration that the scoping rules give it at its place, or none where
\* they give none, in every function, file and import.
THEOREM NamesReachTheirDeclarations ==
  IrSpec => []UsesReachVisible
<1>1. NamesInv => UsesReachVisible
  BY DEF NamesInv
<1> QED
  BY <1>1, NamesInductive, PTL

-----------------------------------------------------------------------------
(* The lists of the module. *)

\* The passes of ir_gen_generate, and how it ends.
IrPasses == {"register", "constants", "emit", "done", "fatal"}

\* The functions that have bodies, and those that have none.
FunctionIds == {id \in LinkNames : IsActioDecl(DeclOf(id)) /\ ~DeclOf(id).barbara}
ExternIds == {id \in LinkNames : IsActioDecl(DeclOf(id)) /\ DeclOf(id).barbara}

\* A list with one entry for each of some declarations.
Lists(list, ids) ==
  /\ IsSeq(list)
  /\ \A i \in DOMAIN list : list[i].id \in ids /\ list[i].name = DeclOf(list[i].id).name
  /\ \A id \in ids : \E i \in DOMAIN list : list[i].id = id
  /\ \A i, j \in DOMAIN list : list[i].id = list[j].id => i = j

\* The declarations Register has come to.
Entered(ids) == {id \in ids : pass # "register" \/ Begun(id[1], id[2])}

\* The lists hold every declaration entered exactly once, under its name.
ListsInv ==
  IF pass \in IrPasses
  THEN /\ Lists(globals, Entered(GlobalIds))
       /\ Lists(functions, Entered(FunctionIds))
       /\ Lists(externs, Entered(ExternIds))
       /\ \A i \in DOMAIN globals :
            globals[i] = [name |-> globals[i].name, id |-> globals[i].id, data |-> globals[i].data]
       /\ \A i \in DOMAIN functions :
            functions[i] = [name |-> functions[i].name, id |-> functions[i].id, bodies |-> functions[i].bodies]
  ELSE globals = <<>> /\ functions = <<>> /\ externs = <<>> /\ initCode = <<>>

LEMMA AppendIs ==
  ASSUME NEW s, IsSeq(s), NEW e
  PROVE  /\ IsSeq(Append(s, e)) /\ Len(Append(s, e)) = Len(s) + 1
         /\ \A i \in 1 .. Len(s) : Append(s, e)[i] = s[i]
         /\ Append(s, e)[Len(s) + 1] = e
<1>1. Len(s) \in Nat
  BY DEF IsSeq
<1>2. s = [i \in 1 .. Len(s) |-> s[i]]
  BY DEF IsSeq
<1>3. PICK S : S = {s[i] : i \in 1 .. Len(s)} \cup {e}
  OBVIOUS
<1>4. s \in Seq(S) /\ e \in S
  BY <1>1, <1>2, <1>3
<1>5. PICK t : t = Append(s, e)
  OBVIOUS
<1>6. t \in Seq(S) /\ Len(t) = Len(s) + 1
  BY <1>4, <1>5
<1>7. (\A i \in 1 .. Len(s) : t[i] = s[i]) /\ t[Len(s) + 1] = e
  BY <1>4, <1>5
<1>8. IsSeq(t)
  BY <1>1, <1>6 DEF IsSeq
<1> QED
  BY <1>5, <1>6, <1>7, <1>8

LEMMA SeqDomain ==
  ASSUME NEW s, IsSeq(s)
  PROVE  Len(s) \in Nat /\ DOMAIN s = 1 .. Len(s)
  BY DEF IsSeq

\* A declaration of which there is no entry gets one.
LEMMA ListsAppend ==
  ASSUME NEW list, NEW ids, Lists(list, ids), NEW id, id \notin ids,
         NEW r, r.id = id, r.name = DeclOf(id).name
  PROVE  Lists(Append(list, r), ids \cup {id})
<1>1. PICK t : t = Append(list, r)
  OBVIOUS
<1>2. PICK n : n = Len(list)
  OBVIOUS
<1>3. IsSeq(t) /\ Len(t) = n + 1 /\ t[n + 1] = r /\ \A i \in 1 .. n : t[i] = list[i]
  BY <1>1, <1>2, AppendIs DEF Lists
<1>4. n \in Nat /\ DOMAIN list = 1 .. n /\ DOMAIN t = 1 .. (n + 1)
  BY <1>2, <1>3, SeqDomain DEF Lists
<1>5. \A i \in DOMAIN t : i \in DOMAIN list \/ i = n + 1
  BY <1>4
<1>6. \A i \in DOMAIN list : i \in DOMAIN t /\ t[i] = list[i]
  BY <1>3, <1>4
<1>7. n + 1 \in DOMAIN t
  BY <1>4
<1>8. \A i \in DOMAIN t : t[i].id \in ids \cup {id} /\ t[i].name = DeclOf(t[i].id).name
  BY <1>3, <1>5, <1>6 DEF Lists
<1>9. \A x \in ids \cup {id} : \E i \in DOMAIN t : t[i].id = x
  BY <1>3, <1>6, <1>7 DEF Lists
<1>10. \A i, j \in DOMAIN t : t[i].id = t[j].id => i = j
  BY <1>3, <1>5, <1>6 DEF Lists
<1> QED
  BY <1>1, <1>3, <1>8, <1>9, <1>10 DEF Lists

\* An entry is found by its name if names are unique.
LEMMA EntryIs ==
  ASSUME NEW list, NEW ids, Lists(list, ids), ids \subseteq LinkNames, UniqueNames,
         NEW i \in DOMAIN list
  PROVE  Named(list, list[i].name) = {i} /\ Entry(list, list[i].name) = i
<1>1. i \in Int
  BY SeqDomain DEF Lists
<1>2. \A j \in DOMAIN list : list[j].name = list[i].name => j = i
  BY DEF Lists, UniqueNames
<1>3. Named(list, list[i].name) = {i}
  BY <1>2 DEF Named
<1> QED
  BY <1>1, <1>3 DEF Entry

LEMMA DeclIds ==
  ASSUME PlaceInv, NEW id
  PROVE  /\ id \in LinkNames <=>
              \E g \in DOMAIN prog : \E d \in DOMAIN AllDecls(g) :
                /\ id = <<g, d>> /\ DeclOf(id) = AllDecls(g)[d]
                /\ IsGlobal(AllDecls(g)[d]) \/ IsActioDecl(AllDecls(g)[d])
         /\ id \in GlobalIds <=> id \in LinkNames /\ IsGlobal(DeclOf(id))
         /\ id \in FunctionIds => id \in LinkNames
         /\ id \in ExternIds => id \in LinkNames
<1>1. \A g, d : DeclOf(<<g, d>>) = AllDecls(g)[d]
  BY DEF DeclOf, AllDecls
<1>2. id \in UNION {{f} \X DOMAIN prog[f].decls : f \in DOMAIN prog}
      <=> \E g \in DOMAIN prog : \E d \in DOMAIN AllDecls(g) : id = <<g, d>>
  BY DEF AllDecls
<1>3. id \in GlobalIds <=> id \in LinkNames /\ IsGlobal(DeclOf(id))
  BY <1>2 DEF GlobalIds, LinkNames
<1>4. id \in LinkNames <=>
              \E g \in DOMAIN prog : \E d \in DOMAIN AllDecls(g) :
                /\ id = <<g, d>> /\ DeclOf(id) = AllDecls(g)[d]
                /\ IsGlobal(AllDecls(g)[d]) \/ IsActioDecl(AllDecls(g)[d])
  BY <1>1, <1>2 DEF LinkNames
<1> QED
  BY <1>3, <1>4 DEF FunctionIds, ExternIds

\* What Step does with the declarations begun.
Onward ==
  /\ pass' = pass
  /\ \A g \in DOMAIN prog : \A d \in DOMAIN AllDecls(g) :
       Begun(g, d)' <=> Begun(g, d) \/ (g = file /\ d = decl)

Around ==
  /\ pass' = NextIrPass(pass)
  /\ \A g \in DOMAIN prog : \A d \in DOMAIN AllDecls(g) :
       /\ Begun(g, d) \/ (g = file /\ d = decl)
       /\ pass # "emit" => ~Begun(g, d)'

LEMMA StepBegins ==
  ASSUME PlaceInv, Step, prog' = prog, pass \in {"register", "constants", "emit"}
  PROVE  Onward \/ Around
<1>1. /\ Len(prog) \in Nat /\ Len(prog) > 0 /\ DOMAIN prog = 1 .. Len(prog)
      /\ \A g \in DOMAIN prog : Len(AllDecls(g)) \in Nat /\ DOMAIN AllDecls(g) = 1 .. Len(AllDecls(g))
  BY ProgramIsProper
<1>2. /\ file \in 1 .. Len(prog) /\ decl \in Nat /\ Decls = AllDecls(file)
      /\ decl <= Len(AllDecls(file)) \/ decl = 1
  BY <1>1, DeclAtHand DEF PlaceInv
<1>3. Len(AllDecls(file)) \in Nat
  BY <1>1, <1>2
<1>4. IF decl < Len(AllDecls(file)) THEN decl' = decl + 1 /\ pass' = pass /\ file' = file
      ELSE IF file < Len(prog) THEN file' = file + 1 /\ decl' = 1 /\ pass' = pass
      ELSE /\ pass' = NextIrPass(pass)
           /\ IF pass = "emit" THEN file' = file /\ decl' = decl ELSE file' = 1 /\ decl' = 1
  BY <1>2 DEF Step
<1>6. CASE decl < Len(AllDecls(file))
  <2>1. decl' = decl + 1 /\ pass' = pass /\ file' = file
    BY <1>4, <1>6
  <2>2. ASSUME NEW g \in DOMAIN prog, NEW d \in DOMAIN AllDecls(g)
        PROVE  Begun(g, d)' <=> Begun(g, d) \/ (g = file /\ d = decl)
    <3>1. g \in Nat /\ d \in Nat /\ file \in Nat
      BY <1>1, <1>2
    <3> QED
      BY <1>2, <2>1, <3>1 DEF Begun
  <2> QED
    BY <2>1, <2>2 DEF Onward
<1>7. CASE ~(decl < Len(AllDecls(file))) /\ file < Len(prog)
  <2>1. file' = file + 1 /\ decl' = 1 /\ pass' = pass
    BY <1>4, <1>7
  <2>2. ASSUME NEW g \in DOMAIN prog, NEW d \in DOMAIN AllDecls(g)
        PROVE  Begun(g, d)' <=> Begun(g, d) \/ (g = file /\ d = decl)
    <3>1. g \in Nat /\ d \in Nat /\ file \in Nat /\ d >= 1 /\ d <= Len(AllDecls(g))
      BY <1>1, <1>2
    <3>2. Begun(g, d)' <=> g <= file
      BY <2>1, <3>1 DEF Begun
    <3>3. Begun(g, d) \/ (g = file /\ d = decl) <=> g <= file
      BY <1>2, <1>3, <1>7, <3>1 DEF Begun
    <3> QED
      BY <3>2, <3>3
  <2> QED
    BY <2>1, <2>2 DEF Onward
<1>8. CASE ~(decl < Len(AllDecls(file))) /\ ~(file < Len(prog))
  <2>1. /\ pass' = NextIrPass(pass)
        /\ pass # "emit" => file' = 1 /\ decl' = 1
    BY <1>4, <1>8
  <2>2. ASSUME NEW g \in DOMAIN prog, NEW d \in DOMAIN AllDecls(g)
        PROVE  /\ Begun(g, d) \/ (g = file /\ d = decl)
               /\ pass # "emit" => ~Begun(g, d)'
    <3>1. g \in Nat /\ d \in Nat /\ file \in Nat /\ d >= 1 /\ d <= Len(AllDecls(g)) /\ g <= Len(prog) /\ g >= 1
      BY <1>1, <1>2
    <3>2. Begun(g, d) \/ (g = file /\ d = decl)
      BY <1>2, <1>3, <1>8, <3>1 DEF Begun
    <3>3. pass # "emit" => ~Begun(g, d)'
      BY <2>1, <3>1 DEF Begun
    <3> QED
      BY <3>2, <3>3
  <2> QED
    BY <2>1, <2>2 DEF Around
<1> QED
  BY <1>6, <1>7, <1>8

LEMMA AtHand ==
  ASSUME PlaceInv
  PROVE  /\ <<file, decl>> \in GlobalIds <=> IsGlobal(Decl)
         /\ <<file, decl>> \in FunctionIds <=> IsActioDecl(Decl) /\ ~Decl.barbara
         /\ <<file, decl>> \in ExternIds <=> IsActioDecl(Decl) /\ Decl.barbara
         /\ <<file, decl>> \in LinkNames => DeclOf(<<file, decl>>) = Decl
         /\ ~Begun(file, decl)
<1>1. /\ file \in DOMAIN prog /\ Decls = AllDecls(file)
      /\ decl \in DOMAIN Decls => Decl = AllDecls(file)[decl]
      /\ decl \notin DOMAIN Decls => Decl.kind = "none"
  BY DeclAtHand
<1>2. DeclOf(<<file, decl>>) = AllDecls(file)[decl]
  BY DEF DeclOf, AllDecls
<1>3. <<file, decl>> \in LinkNames <=>
        decl \in DOMAIN Decls /\ (IsGlobal(Decl) \/ IsActioDecl(Decl))
  <2>1. PICK id : id = <<file, decl>>
    OBVIOUS
  <2>2. ASSUME id \in LinkNames
        PROVE  decl \in DOMAIN Decls /\ (IsGlobal(Decl) \/ IsActioDecl(Decl))
    <3>1. PICK g \in DOMAIN prog : \E d \in DOMAIN AllDecls(g) :
                /\ id = <<g, d>>
                /\ IsGlobal(AllDecls(g)[d]) \/ IsActioDecl(AllDecls(g)[d])
      BY <2>2, DeclIds
    <3>2. g = file
      BY <2>1, <3>1
    <3> QED
      BY <1>1, <2>1, <3>1, <3>2
  <2>3. ASSUME decl \in DOMAIN Decls, IsGlobal(Decl) \/ IsActioDecl(Decl)
        PROVE  id \in LinkNames
    <3>1. IsGlobal(AllDecls(file)[decl]) \/ IsActioDecl(AllDecls(file)[decl])
      BY <1>1, <2>3
    <3>2. file \in DOMAIN prog /\ decl \in DOMAIN AllDecls(file)
          /\ id = <<file, decl>> /\ DeclOf(id) = AllDecls(file)[decl]
      BY <1>1, <1>2, <2>1, <2>3
    <3> QED
      BY <3>1, <3>2, DeclIds
  <2> QED
    BY <2>1, <2>2, <2>3
<1>4. IsGlobal(Decl) \/ IsActioDecl(Decl) => decl \in DOMAIN Decls
  BY <1>1 DEF IsGlobal, IsActioDecl
<1>5. <<file, decl>> \in LinkNames => DeclOf(<<file, decl>>) = Decl
  BY <1>1, <1>2, <1>3
<1>6. <<file, decl>> \in GlobalIds <=> IsGlobal(Decl)
  BY <1>3, <1>4, <1>5, DeclIds
<1>7. ~Begun(file, decl)
  BY ProgramIsProper DEF Begun, PlaceInv
<1> QED
  BY <1>3, <1>4, <1>5, <1>6, <1>7 DEF FunctionIds, ExternIds

LEMMA IdsStay ==
  ASSUME prog' = prog
  PROVE  /\ GlobalIds' = GlobalIds /\ LinkNames' = LinkNames
         /\ FunctionIds' = FunctionIds /\ ExternIds' = ExternIds
         /\ \A id : DeclOf(id)' = DeclOf(id)
  BY DEF GlobalIds, LinkNames, FunctionIds, ExternIds, DeclOf

LEMMA EnteredStep ==
  ASSUME PlaceInv, Step, prog' = prog, pass = "register", NEW ids, ids \subseteq LinkNames
  PROVE  /\ Entered(ids)' = Entered(ids) \cup ({<<file, decl>>} \cap ids)
         /\ <<file, decl>> \notin Entered(ids)
<1>1. Onward \/ Around
  BY StepBegins
<1>2. ASSUME NEW id \in ids
      PROVE  id \in Entered(ids)' <=> id \in Entered(ids) \/ id = <<file, decl>>
  <2>0. PICK g \in DOMAIN prog : \E d \in DOMAIN AllDecls(g) : id = <<g, d>>
    BY <1>2, DeclIds
  <2>1. PICK d \in DOMAIN AllDecls(g) : id = <<g, d>>
    BY <2>0
  <2>2. id \in Entered(ids) <=> Begun(g, d)
    BY <2>1 DEF Entered
  <2>3. id = <<file, decl>> <=> g = file /\ d = decl
    BY <2>1
  <2>4. CASE Onward
    <3>1. pass' = "register"
      BY <2>4 DEF Onward
    <3>2. id \in Entered(ids)' <=> Begun(g, d)'
      BY <2>1, <3>1 DEF Entered
    <3> QED
      BY <2>2, <2>3, <2>4, <3>2 DEF Onward
  <2>5. CASE Around
    <3>1. pass' # "register"
      BY <2>5 DEF Around, NextIrPass
    <3>2. id \in Entered(ids)'
      BY <3>1 DEF Entered
    <3> QED
      BY <2>2, <2>3, <2>5, <3>2 DEF Around
  <2> QED
    BY <1>1, <2>4, <2>5
<1>3. <<file, decl>> \notin Entered(ids)
  BY AtHand DEF Entered
<1>4. Entered(ids)' \subseteq ids /\ Entered(ids) \subseteq ids
  BY DEF Entered
<1> QED
  BY <1>2, <1>3, <1>4

LEMMA EnteredStays ==
  ASSUME NEW ids, pass # "register", pass' # "register"
  PROVE  Entered(ids)' = Entered(ids) /\ Entered(ids) = ids
  BY DEF Entered

\* Entries change, but not what they are entries of.
LEMMA ListsChange ==
  ASSUME NEW list, NEW ids, Lists(list, ids), NEW t, IsSeq(t), DOMAIN t = DOMAIN list,
         \A i \in DOMAIN t : t[i].id = list[i].id /\ t[i].name = list[i].name
  PROVE  Lists(t, ids)
  BY DEF Lists

\* The passes of the check and those behind it.
LEMMA CheckPasses ==
  ASSUME PlaceInv, CheckStep
  PROVE  pass \notin IrPasses /\ pass' \notin IrPasses
<1>1. CASE \/ RegisterModule \/ CollectTypeNames \/ CollectDeclaration \/ ImportDeclaration
           \/ CheckGlobal /\ pass' # "crashed"
           \/ EnterFunction /\ stmt' = 0
           \/ LeaveFunction \/ SkipDeclaration
  <2>1. Moves /\ pass \in {"modules", "collect", "imports", "bodies"}
    BY <1>1, WhoAdvances
  <2> QED
    BY <2>1, MovesOn DEF IrPasses
<1>2. CASE \/ EnterFunction /\ stmt' # 0
           \/ OpenBlock \/ CloseBlock
           \/ (DeclareLocal \/ Evaluate \/ Return) /\ pass' # "crashed"
  BY <1>2, WhoFollows DEF IrPasses
<1>3. CASE Crash /\ pass = "bodies"
  BY <1>3 DEF Crash, IrPasses
<1> QED
  BY <1>1, <1>2, <1>3, CheckStepKinds

\* One list: the declaration at hand is appended if it is one for it.
LEMMA ListGrows ==
  ASSUME PlaceInv, Step, prog' = prog, pass = "register",
         NEW list, NEW ids, ids \subseteq LinkNames, Lists(list, Entered(ids)),
         NEW id, id = <<file, decl>>, NEW r, r.id = id, id \in ids => r.name = DeclOf(id).name,
         NEW t, t = IF id \in ids THEN Append(list, r) ELSE list
  PROVE  Lists(t, Entered(ids)')
<1>1. PICK e : e = Entered(ids)
  OBVIOUS
<1>2. Entered(ids)' = e \cup ({id} \cap ids) /\ id \notin e
  BY <1>1, EnteredStep
<1>3. CASE id \in ids
  <2>1. Lists(Append(list, r), e \cup {id})
    BY <1>1, <1>2, <1>3, ListsAppend
  <2>2. e \cup ({id} \cap ids) = e \cup {id}
    BY <1>3
  <2> QED
    BY <1>2, <1>3, <2>1, <2>2
<1>4. CASE id \notin ids
  <2>1. e \cup ({id} \cap ids) = e
    BY <1>4
  <2> QED
    BY <1>1, <1>2, <1>4, <2>1
<1> QED
  BY <1>3, <1>4

LEMMA RegisterLists ==
  ASSUME PlaceInv, ListsInv, Register
  PROVE  ListsInv'
<1>1. PICK id, x, lg, lf, le :
        /\ id = <<file, decl>> /\ x = Decl
        /\ lg = globals' /\ lf = functions' /\ le = externs'
  OBVIOUS
<1>2. /\ pass = "register" /\ prog' = prog /\ Step
      /\ lg = IF IsGlobal(x) THEN Append(globals, [name |-> x.name, id |-> id, data |-> {}]) ELSE globals
      /\ lf = IF IsActioDecl(x) /\ ~x.barbara
              THEN Append(functions, [name |-> x.name, id |-> id, bodies |-> <<>>]) ELSE functions
      /\ le = IF IsActioDecl(x) /\ x.barbara
              THEN Append(externs, [name |-> x.name, id |-> id]) ELSE externs
  BY <1>1 DEF Register, Checked
<1>3. pass' \in IrPasses
  BY <1>2, StepBegins DEF Onward, Around, NextIrPass, IrPasses
<1>4. /\ Lists(globals, Entered(GlobalIds))
      /\ Lists(functions, Entered(FunctionIds))
      /\ Lists(externs, Entered(ExternIds))
      /\ \A i \in DOMAIN globals :
           globals[i] = [name |-> globals[i].name, id |-> globals[i].id, data |-> globals[i].data]
      /\ \A i \in DOMAIN functions :
           functions[i] = [name |-> functions[i].name, id |-> functions[i].id, bodies |-> functions[i].bodies]
  BY <1>2 DEF ListsInv, IrPasses
<1>5. /\ id \in GlobalIds <=> IsGlobal(x)
      /\ id \in FunctionIds <=> IsActioDecl(x) /\ ~x.barbara
      /\ id \in ExternIds <=> IsActioDecl(x) /\ x.barbara
      /\ id \in LinkNames => DeclOf(id) = x
  BY <1>1, AtHand
<1>6. GlobalIds \subseteq LinkNames /\ FunctionIds \subseteq LinkNames /\ ExternIds \subseteq LinkNames
  BY DeclIds
<1>8. Lists(lg, Entered(GlobalIds)')
  <2>1. PICK s, r : s = GlobalIds /\ r = [name |-> x.name, id |-> id, data |-> {}]
    OBVIOUS
  <2>2. Lists(lg, Entered(s)')
    <3>1. r.id = id /\ (id \in s => r.name = DeclOf(id).name)
      BY <1>5, <1>6, <2>1
    <3>2. lg = IF id \in s THEN Append(globals, r) ELSE globals
      BY <1>2, <1>5, <2>1
    <3>3. s \subseteq LinkNames /\ Lists(globals, Entered(s))
      BY <1>4, <1>6, <2>1
    <3> QED
      BY <1>1, <1>2, <3>1, <3>2, <3>3, ListGrows
  <2>3. Entered(GlobalIds)' = Entered(s)'
    BY <1>2, <2>1, IdsStay DEF Entered
  <2> QED
    BY <2>2, <2>3
<1>9. Lists(lf, Entered(FunctionIds)')
  <2>1. PICK s, r : s = FunctionIds /\ r = [name |-> x.name, id |-> id, bodies |-> <<>>]
    OBVIOUS
  <2>2. Lists(lf, Entered(s)')
    <3>1. r.id = id /\ (id \in s => r.name = DeclOf(id).name)
      BY <1>5, <1>6, <2>1
    <3>2. lf = IF id \in s THEN Append(functions, r) ELSE functions
      BY <1>2, <1>5, <2>1
    <3>3. s \subseteq LinkNames /\ Lists(functions, Entered(s))
      BY <1>4, <1>6, <2>1
    <3> QED
      BY <1>1, <1>2, <3>1, <3>2, <3>3, ListGrows
  <2>3. Entered(FunctionIds)' = Entered(s)'
    BY <1>2, <2>1, IdsStay DEF Entered
  <2> QED
    BY <2>2, <2>3
<1>10. Lists(le, Entered(ExternIds)')
  <2>1. PICK s, r : s = ExternIds /\ r = [name |-> x.name, id |-> id]
    OBVIOUS
  <2>2. Lists(le, Entered(s)')
    <3>1. r.id = id /\ (id \in s => r.name = DeclOf(id).name)
      BY <1>5, <1>6, <2>1
    <3>2. le = IF id \in s THEN Append(externs, r) ELSE externs
      BY <1>2, <1>5, <2>1
    <3>3. s \subseteq LinkNames /\ Lists(externs, Entered(s))
      BY <1>4, <1>6, <2>1
    <3> QED
      BY <1>1, <1>2, <3>1, <3>2, <3>3, ListGrows
  <2>3. Entered(ExternIds)' = Entered(s)'
    BY <1>2, <2>1, IdsStay DEF Entered
  <2> QED
    BY <2>2, <2>3
<1>11. \A i \in DOMAIN lg : lg[i] = [name |-> lg[i].name, id |-> lg[i].id, data |-> lg[i].data]
  <2>1. PICK r : r = [name |-> x.name, id |-> id, data |-> {}]
    OBVIOUS
  <2>2. r = [name |-> r.name, id |-> r.id, data |-> r.data]
    BY <2>1
  <2>3. CASE lg = Append(globals, r)
    <3>1. PICK n \in Nat : n = Len(globals) /\ DOMAIN globals = 1 .. n
      BY <1>4, SeqDomain DEF Lists
    <3>2. IsSeq(lg) /\ Len(lg) = n + 1 /\ lg[n + 1] = r /\ \A i \in 1 .. n : lg[i] = globals[i]
      BY <1>4, <2>3, <3>1, AppendIs DEF Lists
    <3>3. \A i \in DOMAIN lg : i \in DOMAIN globals \/ i = n + 1
      BY <3>1, <3>2, SeqDomain
    <3> QED
      BY <1>4, <2>2, <3>1, <3>2, <3>3
  <2>4. CASE lg = globals
    BY <1>4, <2>4
  <2> QED
    BY <1>2, <2>1, <2>3, <2>4
<1>12. \A i \in DOMAIN lf : lf[i] = [name |-> lf[i].name, id |-> lf[i].id, bodies |-> lf[i].bodies]
  <2>1. PICK r : r = [name |-> x.name, id |-> id, bodies |-> <<>>]
    OBVIOUS
  <2>2. r = [name |-> r.name, id |-> r.id, bodies |-> r.bodies]
    BY <2>1
  <2>3. CASE lf = Append(functions, r)
    <3>1. PICK n \in Nat : n = Len(functions) /\ DOMAIN functions = 1 .. n
      BY <1>4, SeqDomain DEF Lists
    <3>2. IsSeq(lf) /\ Len(lf) = n + 1 /\ lf[n + 1] = r /\ \A i \in 1 .. n : lf[i] = functions[i]
      BY <1>4, <2>3, <3>1, AppendIs DEF Lists
    <3>3. \A i \in DOMAIN lf : i \in DOMAIN functions \/ i = n + 1
      BY <3>1, <3>2, SeqDomain
    <3> QED
      BY <1>4, <2>2, <3>1, <3>2, <3>3
  <2>4. CASE lf = functions
    BY <1>4, <2>4
  <2> QED
    BY <1>2, <2>1, <2>3, <2>4
<1>13. \A l, s : Lists(l, s)' <=> Lists(l, s)
  BY <1>2 DEF Lists, DeclOf
<1>14. PICK eg, ef, ee : eg = Entered(GlobalIds)' /\ ef = Entered(FunctionIds)' /\ ee = Entered(ExternIds)'
  OBVIOUS
<1>15. Lists(lg, eg)' /\ Lists(lf, ef)' /\ Lists(le, ee)'
  BY <1>8, <1>9, <1>10, <1>13, <1>14
<1> QED
  BY <1>1, <1>3, <1>11, <1>12, <1>14, <1>15 DEF ListsInv

LEMMA SeqUpdated ==
  ASSUME NEW s, IsSeq(s), NEW g, NEW e
  PROVE  /\ IsSeq([s EXCEPT ![g] = e]) /\ DOMAIN [s EXCEPT ![g] = e] = DOMAIN s
         /\ \A i \in DOMAIN s : [s EXCEPT ![g] = e][i] = IF i = g THEN e ELSE s[i]
<1>1. PICK t : t = [s EXCEPT ![g] = e]
  OBVIOUS
<1>2. PICK n : n = Len(s)
  OBVIOUS
<1>3. n \in Nat /\ DOMAIN s = 1 .. n /\ s = [i \in 1 .. n |-> s[i]]
  BY <1>2 DEF IsSeq
<1>4. t = [i \in 1 .. n |-> IF i = g THEN e ELSE s[i]]
  BY <1>1, <1>3
<1>5. Len(t) = n
  BY <1>3, <1>4
<1>6. IsSeq(t) /\ DOMAIN t = DOMAIN s /\ \A i \in DOMAIN s : t[i] = IF i = g THEN e ELSE s[i]
  BY <1>3, <1>4, <1>5 DEF IsSeq
<1> QED
  BY <1>1, <1>6

\* What EvaluateConstant does to the list of globals.
LEMMA EvaluateWrites ==
  ASSUME PlaceInv, ListsInv, EvaluateConstant
  PROVE  /\ pass = "constants" /\ Step /\ UNCHANGED Checked /\ UNCHANGED <<functions, externs, initCode>>
         /\ pass' \in {"constants", "emit"}
         /\ Lists(globals, GlobalIds) /\ Lists(globals', GlobalIds) /\ DOMAIN globals' = DOMAIN globals
         /\ \E value :
              /\ value = IF IsGlobal(Decl) /\ Decl.init.op # "none" /\ Unevaluated(Here(Decl.name))
                         THEN Constant(Decl.init) ELSE {}
              /\ changed' = (value # {} \/ (changed /\ <<file, decl>> # <<1, 1>>))
              /\ value = {} => globals' = globals
              /\ \A i \in DOMAIN globals :
                   globals'[i] = [name |-> globals[i].name, id |-> globals[i].id,
                                  data |-> IF value # {} /\ i = Here(Decl.name)
                                           THEN value ELSE globals[i].data]
<1>1. PICK g, value, gs :
        /\ g = Here(Decl.name) /\ gs = globals'
        /\ value = IF IsGlobal(Decl) /\ Decl.init.op # "none" /\ Unevaluated(g)
                   THEN Constant(Decl.init) ELSE {}
  OBVIOUS
<1>2. /\ pass = "constants" /\ Step /\ UNCHANGED Checked /\ UNCHANGED <<functions, externs, initCode>>
      /\ gs = IF value = {} THEN globals ELSE [globals EXCEPT ![g].data = value]
      /\ changed' = (value # {} \/ (changed /\ <<file, decl>> # <<1, 1>>))
  BY <1>1 DEF EvaluateConstant
<1>3. pass' \in {"constants", "emit"}
  BY <1>2, StepBegins DEF Onward, Around, NextIrPass, Checked
<1>4. /\ Lists(globals, Entered(GlobalIds))
      /\ \A i \in DOMAIN globals :
           globals[i] = [name |-> globals[i].name, id |-> globals[i].id, data |-> globals[i].data]
  BY <1>2 DEF ListsInv, IrPasses
<1>5. Lists(globals, GlobalIds)
  BY <1>2, <1>4, EnteredStays, <1>3
<1>6. /\ IsSeq(gs) /\ DOMAIN gs = DOMAIN globals
      /\ \A i \in DOMAIN globals :
           gs[i] = [name |-> globals[i].name, id |-> globals[i].id,
                    data |-> IF value # {} /\ i = g THEN value ELSE globals[i].data]
  <2>1. CASE value = {}
    BY <1>2, <1>4, <2>1 DEF Lists
  <2>2. CASE value # {}
    <3>1. PICK e : e = [globals[g] EXCEPT !.data = value]
      OBVIOUS
    <3>2. gs = [globals EXCEPT ![g] = e]
      BY <1>2, <2>2, <3>1
    <3>3. IsSeq(gs) /\ DOMAIN gs = DOMAIN globals
          /\ \A i \in DOMAIN globals : gs[i] = IF i = g THEN e ELSE globals[i]
      BY <1>4, <3>2, SeqUpdated DEF Lists
    <3>4. g \in DOMAIN globals => e = [name |-> globals[g].name, id |-> globals[g].id, data |-> value]
      BY <1>4, <3>1
    <3> QED
      BY <1>4, <2>2, <3>3, <3>4
  <2> QED
    BY <2>1, <2>2
<1>7. \A i \in DOMAIN gs : gs[i].id = globals[i].id /\ gs[i].name = globals[i].name
  BY <1>6
<1>8. Lists(gs, GlobalIds)
  BY <1>5, <1>6, <1>7, ListsChange
<1> QED
  BY <1>1, <1>2, <1>3, <1>5, <1>6, <1>8

\* What EmitBody does to the list of functions.
LEMMA EmitBodyWrites ==
  ASSUME PlaceInv, ListsInv, EmitBody
  PROVE  /\ pass = "emit" /\ Step /\ UNCHANGED Checked /\ UNCHANGED <<globals, externs, changed, initCode>>
         /\ IsActioDecl(Decl) /\ ~Decl.barbara
         /\ Lists(functions, FunctionIds) /\ Lists(functions', FunctionIds) /\ DOMAIN functions' = DOMAIN functions
         /\ \A i \in DOMAIN functions :
              functions'[i] = [name |-> functions[i].name, id |-> functions[i].id,
                               bodies |-> IF i = Entry(functions, Decl.name)
                                          THEN Append(functions[i].bodies, <<file, decl>>)
                                          ELSE functions[i].bodies]
<1>1. PICK g, b, fs, id : g = Entry(functions, Decl.name) /\ fs = functions' /\ id = <<file, decl>>
        /\ b = Append(functions[g].bodies, id)
  OBVIOUS
<1>2. /\ pass = "emit" /\ Step /\ UNCHANGED Checked /\ UNCHANGED <<globals, externs, changed, initCode>>
      /\ IsActioDecl(Decl) /\ ~Decl.barbara
      /\ fs = [functions EXCEPT ![g].bodies = Append(@, id)]
  BY <1>1 DEF EmitBody
<1>4. /\ Lists(functions, Entered(FunctionIds))
      /\ \A i \in DOMAIN functions :
           functions[i] = [name |-> functions[i].name, id |-> functions[i].id, bodies |-> functions[i].bodies]
  BY <1>2 DEF ListsInv, IrPasses
<1>5. Lists(functions, FunctionIds)
  BY <1>2, <1>4 DEF Entered
<1>6. /\ IsSeq(fs) /\ DOMAIN fs = DOMAIN functions
      /\ \A i \in DOMAIN functions :
           fs[i] = [name |-> functions[i].name, id |-> functions[i].id,
                    bodies |-> IF i = g THEN b ELSE functions[i].bodies]
  <2>1. PICK e : e = [functions[g] EXCEPT !.bodies = b]
    OBVIOUS
  <2>2. fs = [functions EXCEPT ![g] = e]
    BY <1>1, <1>2, <2>1
  <2>3. IsSeq(fs) /\ DOMAIN fs = DOMAIN functions
        /\ \A i \in DOMAIN functions : fs[i] = IF i = g THEN e ELSE functions[i]
    BY <1>4, <2>2, SeqUpdated DEF Lists
  <2>4. g \in DOMAIN functions => e = [name |-> functions[g].name, id |-> functions[g].id, bodies |-> b]
    BY <1>4, <2>1
  <2> QED
    BY <1>4, <2>3, <2>4
<1>7. \A i \in DOMAIN fs : fs[i].id = functions[i].id /\ fs[i].name = functions[i].name
  BY <1>6
<1>8. Lists(fs, FunctionIds)
  BY <1>5, <1>6, <1>7, ListsChange
<1> QED
  BY <1>1, <1>2, <1>5, <1>6, <1>8

LEMMA WhoEmits ==
  ASSUME PlaceInv, EmitGlobal \/ EmitBody \/ EmitNothing
  PROVE  /\ pass = "emit" /\ UNCHANGED Checked /\ UNCHANGED <<globals, externs, changed>>
         /\ \/ Step /\ pass' \in {"emit", "done"}
            \/ EmitGlobal /\ pass' = "fatal" /\ UNCHANGED <<file, decl>>
<1>1. Step /\ pass = "emit" /\ UNCHANGED Checked => pass' \in {"emit", "done"}
  BY StepBegins DEF Onward, Around, NextIrPass, Checked
<1>2. CASE EmitGlobal
  <2>1. pass = "emit" /\ UNCHANGED Checked /\ UNCHANGED <<globals, functions, externs, changed>>
    BY <1>2 DEF EmitGlobal
  <2>2. Step \/ (pass' = "fatal" /\ UNCHANGED <<file, decl>>)
    BY <1>2 DEF EmitGlobal
  <2> QED
    BY <1>1, <1>2, <2>1, <2>2
<1>3. CASE EmitBody \/ EmitNothing
  BY <1>1, <1>3 DEF EmitBody, EmitNothing, irVars
<1> QED
  BY <1>2, <1>3

LEMMA ListsStep ==
  ASSUME PlaceInv, ListsInv, [IrNext]_<<vars, irVars>>
  PROVE  ListsInv'
<1>1. CASE CheckStep
  BY <1>1, CheckPasses DEF CheckStep, irVars, ListsInv
<1>2. CASE Generate
  <2>1. /\ pass \notin IrPasses /\ pass' = "register" /\ file' = 1 /\ decl' = 1 /\ prog' = prog
        /\ globals' = <<>> /\ functions' = <<>> /\ externs' = <<>>
    BY <1>2 DEF Generate, Checked, irVars, IrPasses, ListsInv
  <2>2. \A g \in DOMAIN prog : \A d \in DOMAIN AllDecls(g) : ~Begun(g, d)'
    BY <2>1, ProgramIsProper DEF Begun
  <2>3. ASSUME NEW ids, ids \subseteq LinkNames PROVE Entered(ids)' = {}
    <3>1. \A id \in ids : ~Begun(id[1], id[2])'
      <4> TAKE id \in ids
      <4>1. PICK g \in DOMAIN prog : \E d \in DOMAIN AllDecls(g) : id = <<g, d>>
        BY <2>3, DeclIds
      <4> QED
        BY <2>2, <4>1
    <3> QED
      BY <2>1, <3>1 DEF Entered
  <2>4. PICK s, t, u : s = GlobalIds /\ t = FunctionIds /\ u = ExternIds
    OBVIOUS
  <2>5. s \subseteq LinkNames /\ t \subseteq LinkNames /\ u \subseteq LinkNames
    BY <2>4, DeclIds
  <2>6. Entered(s)' = {} /\ Entered(t)' = {} /\ Entered(u)' = {}
    BY <2>3, <2>5
  <2>7. GlobalIds' = s /\ FunctionIds' = t /\ ExternIds' = u
    BY <2>1, <2>4, IdsStay
  <2>8. Entered(GlobalIds)' = {} /\ Entered(FunctionIds)' = {} /\ Entered(ExternIds)' = {}
    BY <2>6, <2>7 DEF Entered
  <2>9. PICK e : e = <<>>
    OBVIOUS
  <2>10. IsSeq(e) /\ DOMAIN e = {}
    BY <2>9 DEF IsSeq
  <2>11. Lists(e, {})'
    BY <2>10 DEF Lists
  <2>12. PICK es : es = {}
    OBVIOUS
  <2>13. Lists(e, es)' /\ DOMAIN e = {}
    BY <2>10, <2>11, <2>12
  <2>14. /\ globals' = e /\ functions' = e /\ externs' = e /\ pass' \in IrPasses
         /\ Entered(GlobalIds)' = es /\ Entered(FunctionIds)' = es /\ Entered(ExternIds)' = es
    BY <2>1, <2>8, <2>9, <2>12 DEF IrPasses
  <2> QED
    BY <2>13, <2>14 DEF ListsInv
<1>3. CASE Register
  BY <1>3, RegisterLists
<1>4. ASSUME pass \in IrPasses \ {"register"}, pass' \in IrPasses \ {"register"}, prog' = prog,
             Lists(globals', GlobalIds), Lists(functions', FunctionIds), Lists(externs', ExternIds),
             \A i \in DOMAIN globals' :
               globals'[i] = [name |-> globals'[i].name, id |-> globals'[i].id, data |-> globals'[i].data],
             \A i \in DOMAIN functions' :
               functions'[i] = [name |-> functions'[i].name, id |-> functions'[i].id,
                                bodies |-> functions'[i].bodies]
      PROVE  ListsInv'
  <2>1. PICK s, t, u, lg, lf, le :
          /\ s = GlobalIds /\ t = FunctionIds /\ u = ExternIds
          /\ lg = globals' /\ lf = functions' /\ le = externs'
    OBVIOUS
  <2>2. Lists(lg, s)' /\ Lists(lf, t)' /\ Lists(le, u)'
    BY <1>4, <2>1 DEF Lists, DeclOf
  <2>3. Entered(s)' = s /\ Entered(t)' = t /\ Entered(u)' = u
    BY <1>4 DEF Entered
  <2>4. GlobalIds' = s /\ FunctionIds' = t /\ ExternIds' = u
    BY <1>4, <2>1, IdsStay
  <2>5. Entered(GlobalIds)' = s /\ Entered(FunctionIds)' = t /\ Entered(ExternIds)' = u
    BY <2>3, <2>4 DEF Entered
  <2> QED
    BY <1>4, <2>1, <2>2, <2>5 DEF ListsInv
<1>5. pass \in IrPasses \ {"register"} /\ ListsInv =>
        Lists(globals, GlobalIds) /\ Lists(functions, FunctionIds) /\ Lists(externs, ExternIds)
  BY DEF ListsInv, Entered
<1>6. pass \in IrPasses =>
        /\ \A i \in DOMAIN globals :
             globals[i] = [name |-> globals[i].name, id |-> globals[i].id, data |-> globals[i].data]
        /\ \A i \in DOMAIN functions :
             functions[i] = [name |-> functions[i].name, id |-> functions[i].id, bodies |-> functions[i].bodies]
  BY DEF ListsInv
<1>7. CASE EvaluateConstant
  <2>1. /\ pass = "constants" /\ pass' \in {"constants", "emit"} /\ prog' = prog
        /\ functions' = functions /\ externs' = externs /\ Lists(globals', GlobalIds)
        /\ \A i \in DOMAIN globals' :
             globals'[i] = [name |-> globals'[i].name, id |-> globals'[i].id, data |-> globals'[i].data]
    BY <1>7, EvaluateWrites DEF Checked
  <2> QED
    BY <1>4, <1>5, <1>6, <2>1 DEF IrPasses
<1>8. CASE EmitBody
  <2>1. /\ pass = "emit" /\ prog' = prog
        /\ globals' = globals /\ externs' = externs /\ Lists(functions', FunctionIds)
        /\ \A i \in DOMAIN functions' :
             functions'[i] = [name |-> functions'[i].name, id |-> functions'[i].id,
                              bodies |-> functions'[i].bodies]
    BY <1>8, EmitBodyWrites DEF Checked
  <2>2. pass' \in {"emit", "done", "fatal"}
    BY <1>8, WhoEmits
  <2> QED
    BY <1>4, <1>5, <1>6, <2>1, <2>2 DEF IrPasses
<1>9. CASE EmitGlobal \/ EmitNothing
  <2>1. /\ pass = "emit" /\ pass' \in {"emit", "done", "fatal"} /\ prog' = prog
        /\ globals' = globals /\ externs' = externs
    BY <1>9, WhoEmits DEF Checked
  <2>2. functions' = functions
    BY <1>9 DEF EmitGlobal, EmitNothing, irVars
  <2> QED
    BY <1>4, <1>5, <1>6, <2>1, <2>2 DEF IrPasses
<1>10. CASE UNCHANGED <<vars, irVars>>
  <2>1. /\ prog' = prog /\ pass' = pass /\ file' = file /\ decl' = decl
        /\ globals' = globals /\ functions' = functions /\ externs' = externs /\ initCode' = initCode
    BY <1>10 DEF vars, irVars
  <2>2. PICK s, t, u, lg, lf, le :
          /\ s = Entered(GlobalIds) /\ t = Entered(FunctionIds) /\ u = Entered(ExternIds)
          /\ lg = globals /\ lf = functions /\ le = externs
    OBVIOUS
  <2>3. Entered(GlobalIds)' = s /\ Entered(FunctionIds)' = t /\ Entered(ExternIds)' = u
    BY <2>1, <2>2, IdsStay DEF Entered, Begun
  <2>4. \A l, x : Lists(l, x)' <=> Lists(l, x)
    BY <2>1 DEF Lists, DeclOf
  <2> QED
    BY <2>1, <2>2, <2>3, <2>4 DEF ListsInv
<1> QED
  BY <1>1, <1>2, <1>3, <1>7, <1>8, <1>9, <1>10 DEF IrNext

-----------------------------------------------------------------------------
(* Constant values. *)

\* A global the present round, or the last one, has looked at in vain.
Looked(id) ==
  \/ pass \in {"emit", "done", "fatal"}
  \/ pass = "constants" /\ ~changed /\ Begun(id[1], id[2])

\* Data are the value of the initialiser, one at most; a global looked at in
\* vain has no value yet.
GlobalData(x) ==
  LET e == DeclOf(x.id).init
  IN  /\ x.data # {} => e.op # "none" /\ x.data = Constant(e) /\ pass # "register"
      /\ x.data = {} \/ \E v : x.data = {v}
      /\ e.op # "none" /\ Looked(x.id) => x.data # {} \/ Constant(e) = {}

DataInv ==
  pass \in IrPasses /\ UniqueNames =>
    /\ pass # "register" => changed \in BOOLEAN
    /\ \A i \in DOMAIN globals : GlobalData(globals[i])

LEMMA EntryIsNamed ==
  ASSUME NEW list, IsSeq(list), NEW n, Named(list, n) # {}
  PROVE  Entry(list, n) \in Named(list, n)
<1>1. Named(list, n) \subseteq Nat
  BY SeqDomain DEF Named
<1>2. Entry(list, n) = Least(Named(list, n))
  BY DEF Entry, Least
<1> QED
  BY <1>1, <1>2, LeastIsMember

\* The value of an expression does not change once there is one.
LEMMA ValuesKept ==
  ASSUME IsSeq(globals), DOMAIN globals' = DOMAIN globals,
         \A i \in DOMAIN globals :
           /\ globals'[i].name = globals[i].name
           /\ globals[i].data # {} => globals'[i].data = globals[i].data,
         NEW e, ProperExpr(e), e.op # "none", Constant(e) # {}
  PROVE  Constant(e)' = Constant(e)
<1>1. ASSUME NEW a, ProperOperand(a), OperandValue(a) # {}
      PROVE  OperandValue(a)' = OperandValue(a)
  <2>1. CASE a.op \in {"int", "float"}
    BY <2>1 DEF OperandValue
  <2>2. CASE a.op = "ref"
    <3>1. PICK n, h : n = a.name /\ h = Here(n)
      OBVIOUS
    <3>2. a.mod = "" /\ Named(globals, n) # {} /\ OperandValue(a) = globals[h].data
      BY <1>1, <2>2, <3>1 DEF OperandValue
    <3>3. h \in Named(globals, n)
      BY <3>1, <3>2, EntryIsNamed DEF Here
    <3>4. Named(globals', n) = Named(globals, n)
      BY DEF Named
    <3>5. Here(n)' = h
      BY <3>1, <3>4 DEF Here, Entry
    <3>6. h \in DOMAIN globals
      BY <3>3 DEF Named
    <3>7. OperandValue(a)' = globals'[h].data
      BY <2>2, <3>1, <3>2, <3>4, <3>5 DEF OperandValue
    <3> QED
      BY <1>1, <3>2, <3>6, <3>7
  <2> QED
    BY <1>1, <2>1, <2>2 DEF ProperOperand
<1>2. CASE e.op = "sum"
  <2>1. PICK a, b : a = e.left /\ b = e.right /\ ProperOperand(a) /\ ProperOperand(b)
    BY <1>2 DEF ProperExpr, ProperOperand
  <2>2. Constant(e) = {x + y : x \in OperandValue(a), y \in OperandValue(b)}
    BY <1>2, <2>1 DEF Constant
  <2>3. OperandValue(a) # {} /\ OperandValue(b) # {}
    BY <2>2
  <2>4. OperandValue(a)' = OperandValue(a) /\ OperandValue(b)' = OperandValue(b)
    BY <1>1, <2>1, <2>3
  <2>5. Constant(e)' = {x + y : x \in OperandValue(a)', y \in OperandValue(b)'}
    BY <1>2, <2>1 DEF Constant
  <2> QED
    BY <2>2, <2>4, <2>5
<1>3. CASE e.op = "call"
  BY <1>3 DEF Constant
<1>4. CASE ProperOperand(e)
  <2>1. Constant(e) = OperandValue(e) /\ Constant(e)' = OperandValue(e)'
    BY <1>4 DEF Constant, ProperOperand
  <2> QED
    BY <1>1, <1>4, <2>1
<1> QED
  BY <1>2, <1>3, <1>4 DEF ProperExpr

\* There is at most one value.
LEMMA ValueIsOne ==
  ASSUME IsSeq(globals), \A i \in DOMAIN globals : globals[i].data = {} \/ \E v : globals[i].data = {v},
         NEW e, ProperExpr(e), e.op # "none"
  PROVE  Constant(e) = {} \/ \E v : Constant(e) = {v}
<1>1. ASSUME NEW a, ProperOperand(a)
      PROVE  OperandValue(a) = {} \/ \E v : OperandValue(a) = {v}
  <2>1. CASE a.op \in {"int", "float"}
    BY <2>1 DEF OperandValue
  <2>2. CASE a.op = "ref"
    <3>1. PICK n, h : n = a.name /\ h = Here(n)
      OBVIOUS
    <3>2. OperandValue(a) = {} \/ (Named(globals, n) # {} /\ OperandValue(a) = globals[h].data)
      BY <2>2, <3>1 DEF OperandValue
    <3>3. Named(globals, n) # {} => h \in DOMAIN globals
      BY <3>1, EntryIsNamed DEF Here, Named
    <3> QED
      BY <3>2, <3>3
  <2> QED
    BY <1>1, <2>1, <2>2 DEF ProperOperand
<1>2. CASE e.op = "sum"
  <2>1. PICK a, b : a = e.left /\ b = e.right /\ ProperOperand(a) /\ ProperOperand(b)
    BY <1>2 DEF ProperExpr, ProperOperand
  <2>2. Constant(e) = {x + y : x \in OperandValue(a), y \in OperandValue(b)}
    BY <1>2, <2>1 DEF Constant
  <2>3. CASE OperandValue(a) = {} \/ OperandValue(b) = {}
    BY <2>2, <2>3
  <2>4. CASE OperandValue(a) # {} /\ OperandValue(b) # {}
    <3>1. PICK v : OperandValue(a) = {v}
      BY <1>1, <2>1, <2>4
    <3>2. PICK w : OperandValue(b) = {w}
      BY <1>1, <2>1, <2>4
    <3>3. Constant(e) = {v + w}
      BY <2>2, <3>1, <3>2
    <3> QED
      BY <3>3
  <2> QED
    BY <2>3, <2>4
<1>3. CASE e.op = "call"
  BY <1>3 DEF Constant
<1>4. CASE ProperOperand(e)
  <2>1. Constant(e) = OperandValue(e)
    BY <1>4 DEF Constant, ProperOperand
  <2> QED
    BY <1>1, <1>4, <2>1
<1> QED
  BY <1>2, <1>3, <1>4 DEF ProperExpr

LEMMA GlobalIsProper ==
  ASSUME PlaceInv, NEW id \in GlobalIds
  PROVE  /\ ProperExpr(DeclOf(id).init) /\ DeclOf(id).kind \in {"sit", "lex"}
         /\ DeclOf(id).kind = "lex" => DeclOf(id).init.op # "none"
<1>1. PICK g \in DOMAIN prog : \E d \in DOMAIN AllDecls(g) :
        id = <<g, d>> /\ DeclOf(id) = AllDecls(g)[d]
  BY DeclIds
<1>2. ProperDeclaration(DeclOf(id)) /\ IsGlobal(DeclOf(id))
  BY <1>1, DeclIds, ProgramIsProper
<1> QED
  BY <1>2 DEF ProperDeclaration, IsGlobal

LEMMA RegisterData ==
  ASSUME PlaceInv, ListsInv, DataInv, Register
  PROVE  DataInv'
<1>1. PICK lg, x, id : lg = globals' /\ x = Decl /\ id = <<file, decl>>
  OBVIOUS
<1>2. /\ pass = "register" /\ prog' = prog /\ Step /\ changed' = FALSE
      /\ lg = IF IsGlobal(x) THEN Append(globals, [name |-> x.name, id |-> id, data |-> {}]) ELSE globals
  BY <1>1 DEF Register, Checked
<1>3. pass' \in {"register", "constants"} /\ (Onward \/ Around)
  BY <1>2, StepBegins DEF Onward, Around, NextIrPass
<1>4. IsSeq(globals)
  BY <1>2 DEF ListsInv, IrPasses, Lists
<1>5. UniqueNames' => UniqueNames
  BY <1>2, IdsStay DEF UniqueNames
<1>6. ASSUME UniqueNames PROVE \A i \in DOMAIN lg : lg[i].data = {}
  <2>1. \A i \in DOMAIN globals : globals[i].data = {}
    BY <1>2, <1>6 DEF DataInv, GlobalData, IrPasses
  <2>2. CASE IsGlobal(x)
    <3>1. PICK r : r = [name |-> x.name, id |-> id, data |-> {}]
      OBVIOUS
    <3>2. PICK n \in Nat : n = Len(globals) /\ DOMAIN globals = 1 .. n
      BY <1>4, SeqDomain
    <3>3. lg = Append(globals, r) /\ r.data = {}
      BY <1>2, <2>2, <3>1
    <3>4. IsSeq(lg) /\ Len(lg) = n + 1 /\ lg[n + 1] = r /\ \A i \in 1 .. n : lg[i] = globals[i]
      BY <1>4, <3>2, <3>3, AppendIs
    <3>5. \A i \in DOMAIN lg : i \in DOMAIN globals \/ i = n + 1
      BY <3>2, <3>4, SeqDomain
    <3> QED
      BY <2>1, <3>2, <3>3, <3>4, <3>5
  <2>3. CASE ~IsGlobal(x)
    BY <1>2, <2>1, <2>3
  <2> QED
    BY <2>2, <2>3
<1>7. ASSUME NEW i \in DOMAIN lg, UniqueNames, pass' = "constants"
      PROVE  ~Begun(lg[i].id[1], lg[i].id[2])'
  <2>1. Around
    BY <1>2, <1>3, <1>7 DEF Onward
  <2>2. Lists(lg, Entered(GlobalIds))'
    BY <1>1, <1>3, RegisterLists DEF ListsInv, IrPasses
  <2>3. lg[i].id \in GlobalIds
    <3>1. lg[i].id \in GlobalIds'
      BY <1>7, <2>2 DEF Lists, Entered
    <3> QED
      BY <1>2, <3>1, IdsStay
  <2>4. PICK g \in DOMAIN prog : \E d \in DOMAIN AllDecls(g) : lg[i].id = <<g, d>>
    BY <2>3, DeclIds
  <2> QED
    BY <1>2, <2>1, <2>4 DEF Around
<1>8. ASSUME UniqueNames, NEW i \in DOMAIN lg PROVE GlobalData(lg[i])'
  <2>1. PICK y : y = lg[i]
    OBVIOUS
  <2>2. y.data = {}
    BY <1>6, <1>8, <2>1
  <2>3. ~Looked(y.id)'
    BY <1>3, <1>7, <1>8, <2>1 DEF Looked
  <2>4. GlobalData(y)'
    BY <2>2, <2>3 DEF GlobalData
  <2> QED
    BY <2>1, <2>4
<1> QED
  BY <1>1, <1>2, <1>5, <1>8 DEF DataInv

\* A round of constant evaluation.
LEMMA EvaluateData ==
  ASSUME PlaceInv, ListsInv, DataInv, EvaluateConstant
  PROVE  DataInv'
<1>1. PICK value : 
        /\ value = IF IsGlobal(Decl) /\ Decl.init.op # "none" /\ Unevaluated(Here(Decl.name))
                   THEN Constant(Decl.init) ELSE {}
        /\ changed' = (value # {} \/ (changed /\ <<file, decl>> # <<1, 1>>))
        /\ value = {} => globals' = globals
        /\ \A i \in DOMAIN globals :
             globals'[i] = [name |-> globals[i].name, id |-> globals[i].id,
                            data |-> IF value # {} /\ i = Here(Decl.name)
                                     THEN value ELSE globals[i].data]
  BY EvaluateWrites
<1>2. /\ pass = "constants" /\ pass' \in {"constants", "emit"} /\ prog' = prog /\ Step
      /\ Lists(globals, GlobalIds) /\ DOMAIN globals' = DOMAIN globals
  BY EvaluateWrites DEF Checked
<1>3. PICK lg, x, id, h : lg = globals' /\ x = Decl /\ id = <<file, decl>> /\ h = Here(x.name)
  OBVIOUS
<1>4. UniqueNames' <=> UniqueNames
  BY <1>2, IdsStay DEF UniqueNames
<1> SUFFICES ASSUME UniqueNames PROVE DataInv'
  BY <1>4 DEF DataInv
<1>5. /\ changed \in BOOLEAN
      /\ \A i \in DOMAIN globals : GlobalData(globals[i])
  BY <1>2 DEF DataInv, IrPasses
<1>6. IsSeq(globals) /\ GlobalIds \subseteq LinkNames
  BY <1>2, DeclIds DEF Lists
\* The global at hand is found by its name.
<1>7. \A i \in DOMAIN globals : globals[i].id = id => i = h /\ IsGlobal(x) /\ DeclOf(globals[i].id) = x
  <2> TAKE i \in DOMAIN globals
  <2>1. HAVE globals[i].id = id
  <2>2. id \in GlobalIds /\ globals[i].name = DeclOf(id).name
    BY <1>2, <2>1 DEF Lists
  <2>3. IsGlobal(x) /\ DeclOf(id) = x
    BY <1>3, <1>6, <2>2, AtHand
  <2>4. Entry(globals, globals[i].name) = i
    BY <1>2, <1>6, EntryIs
  <2> QED
    BY <1>3, <2>1, <2>2, <2>3, <2>4 DEF Here
<1>8. IsGlobal(x) => h \in DOMAIN globals /\ globals[h].id = id /\ DeclOf(id) = x
  <2>1. HAVE IsGlobal(x)
  <2>2. id \in GlobalIds /\ DeclOf(id) = x
    BY <1>3, <1>6, <2>1, AtHand
  <2>3. PICK i \in DOMAIN globals : globals[i].id = id
    BY <1>2, <2>2 DEF Lists
  <2> QED
    BY <1>7, <2>2, <2>3
<1>9. value # {} => /\ IsGlobal(x) /\ x.init.op # "none" /\ globals[h].data = {}
                    /\ value = Constant(x.init)
  BY <1>1, <1>3 DEF Unevaluated
<1>10. \A i \in DOMAIN globals :
         /\ lg[i].name = globals[i].name /\ lg[i].id = globals[i].id
         /\ globals[i].data # {} => lg[i].data = globals[i].data
         /\ lg[i].data = IF value # {} /\ i = h THEN value ELSE globals[i].data
  <2>1. \A i \in DOMAIN globals :
          lg[i] = [name |-> globals[i].name, id |-> globals[i].id,
                   data |-> IF value # {} /\ i = h THEN value ELSE globals[i].data]
    BY <1>1, <1>3
  <2> TAKE i \in DOMAIN globals
  <2>2. /\ lg[i].name = globals[i].name /\ lg[i].id = globals[i].id
        /\ lg[i].data = IF value # {} /\ i = h THEN value ELSE globals[i].data
    <3>1. PICK y, w : y = globals[i] /\ w = IF value # {} /\ i = h THEN value ELSE y.data
      OBVIOUS
    <3>2. lg[i] = [name |-> y.name, id |-> y.id, data |-> w]
      BY <2>1, <3>1
    <3>3. lg[i].name = y.name /\ lg[i].id = y.id /\ lg[i].data = w
      BY <3>2
    <3> QED
      BY <3>1, <3>3
  <2>3. globals[i].data # {} => lg[i].data = globals[i].data
    BY <1>9, <2>2
  <2> QED
    BY <2>2, <2>3
<1>11. \A i \in DOMAIN globals : globals[i].data = {} \/ \E v : globals[i].data = {v}
  BY <1>5 DEF GlobalData
<1>12. ASSUME NEW e, ProperExpr(e), e.op # "none", Constant(e) # {}
       PROVE  Constant(e)' = Constant(e)
  BY <1>2, <1>3, <1>6, <1>10, <1>12, ValuesKept
\* Only a turn that found nothing is one to look back on.
<1>13. ASSUME NEW i \in DOMAIN globals, NEW j, j = globals[i].id, Looked(j)'
       PROVE  value = {} /\ (Looked(j) \/ (i = h /\ IsGlobal(x) /\ DeclOf(j) = x))
  <2>1. j \in GlobalIds
    BY <1>2, <1>13 DEF Lists
  <2>2. PICK g \in DOMAIN prog : \E d \in DOMAIN AllDecls(g) : j = <<g, d>>
    BY <2>1, DeclIds
  <2>3. PICK d \in DOMAIN AllDecls(g) : j = <<g, d>>
    BY <2>2
  <2>4. j[1] = g /\ j[2] = d
    BY <2>3
  <2>5. Onward \/ Around
    BY <1>2, StepBegins
  <2>6. ~changed' /\ (Begun(g, d) \/ (g = file /\ d = decl))
    <3>1. CASE pass' = "emit"
      <4>1. Around
        BY <1>2, <2>5, <3>1 DEF Onward
      <4> QED
        BY <1>2, <3>1, <4>1 DEF Around, NextIrPass
    <3>2. CASE pass' = "constants"
      <4>1. ~changed' /\ Begun(j[1], j[2])'
        BY <1>13, <3>2 DEF Looked
      <4>2. Begun(g, d)'
        BY <2>4, <4>1
      <4> QED
        BY <1>2, <2>5, <4>1, <4>2 DEF Onward, Around
    <3> QED
      BY <1>2, <3>1, <3>2
  <2>7. value = {} /\ (~changed \/ (file = 1 /\ decl = 1))
    BY <1>1, <1>5, <2>6
  <2>8. CASE g = file /\ d = decl
    <3>1. j = id
      BY <1>3, <2>3, <2>8
    <3> QED
      BY <1>7, <1>13, <2>7, <3>1
  <2>9. CASE Begun(g, d)
    <3>1. g \in Nat /\ g >= 1 /\ d \in Nat /\ d >= 1
      BY ProgramIsProper
    <3>2. ~(file = 1 /\ decl = 1)
      BY <2>9, <3>1 DEF Begun
    <3>3. Looked(j)
      BY <1>2, <2>4, <2>7, <2>9, <3>2 DEF Looked
    <3> QED
      BY <2>7, <3>3
  <2> QED
    BY <2>6, <2>8, <2>9
<1>14. ASSUME NEW i \in DOMAIN globals PROVE GlobalData(lg[i])'
  <2>1. PICK y, z, e : y = globals[i] /\ z = lg[i] /\ e = DeclOf(y.id).init
    OBVIOUS
  <2>2. /\ z.id = y.id /\ DeclOf(z.id)'.init = e /\ ProperExpr(e)
    <3>1. z.id = y.id
      BY <1>10, <2>1
    <3>2. DeclOf(z.id)' = DeclOf(y.id)
      BY <1>2, <3>1 DEF DeclOf
    <3>3. y.id \in GlobalIds
      BY <1>2, <2>1 DEF Lists
    <3> QED
      BY <2>1, <3>1, <3>2, <3>3, GlobalIsProper
  <2>3. /\ y.data # {} => e.op # "none" /\ y.data = Constant(e)
        /\ y.data = {} \/ \E v : y.data = {v}
        /\ e.op # "none" /\ Looked(y.id) => y.data # {} \/ Constant(e) = {}
    BY <1>5, <2>1 DEF GlobalData
  <2>4. CASE value # {} /\ i = h
    <3>1. z.data = value /\ e = x.init /\ e.op # "none" /\ value = Constant(e)
      BY <1>8, <1>9, <1>10, <2>1, <2>4
    <3>2. \E v : z.data = {v}
      <4>1. Constant(e) = {} \/ \E v : Constant(e) = {v}
        BY <1>6, <1>11, <2>2, <3>1, ValueIsOne
      <4> QED
        BY <2>4, <3>1, <4>1
    <3>3. z.data = Constant(e)'
      BY <1>12, <2>2, <2>4, <3>1
    <3> QED
      BY <1>2, <2>1, <2>2, <3>1, <3>2, <3>3 DEF GlobalData
  <2>5. CASE ~(value # {} /\ i = h)
    <3>1. z.data = y.data
      BY <1>10, <2>1, <2>5
    <3>2. y.data # {} => y.data = Constant(e)'
      BY <1>12, <2>2, <2>3
    <3>3. e.op # "none" /\ Looked(y.id)' => y.data # {} \/ Constant(e)' = {}
      <4>1. HAVE e.op # "none" /\ Looked(y.id)'
      <4>2. value = {} /\ (Looked(y.id) \/ (i = h /\ IsGlobal(x) /\ DeclOf(y.id) = x))
        BY <1>7, <1>13, <2>1, <4>1
      <4>3. y.data # {} \/ Constant(e) = {}
        <5>1. CASE Looked(y.id)
          BY <2>3, <4>1, <5>1
        <5>2. CASE i = h /\ IsGlobal(x) /\ DeclOf(y.id) = x
          <6>1. e = x.init /\ globals[h] = y
            BY <2>1, <5>2
          <6>2. y.data = {} => value = Constant(e)
            BY <1>1, <1>3, <4>1, <5>2, <6>1 DEF Unevaluated
          <6> QED
            BY <4>2, <6>2
        <5> QED
          BY <4>2, <5>1, <5>2
      <4>4. globals' = globals
        BY <1>1, <4>2
      <4>5. Constant(e)' = Constant(e)
        BY <4>4 DEF Constant, OperandValue, Here, Entry, Named
      <4> QED
        BY <4>3, <4>5
    <3> QED
      BY <1>2, <2>1, <2>2, <2>3, <3>1, <3>2, <3>3 DEF GlobalData
  <2> QED
    BY <2>4, <2>5
<1>15. changed' \in BOOLEAN
  BY <1>1, <1>5
<1> QED
  BY <1>2, <1>3, <1>14, <1>15 DEF DataInv

LEMMA DataStep ==
  ASSUME PlaceInv, ListsInv, DataInv, [IrNext]_<<vars, irVars>>
  PROVE  DataInv'
<1>1. CASE CheckStep
  BY <1>1, CheckPasses DEF DataInv
<1>2. CASE Generate
  <2>1. pass \notin IrPasses /\ globals' = globals /\ pass' = "register"
    BY <1>2 DEF Generate, irVars, IrPasses
  <2>2. PICK e : e = <<>>
    OBVIOUS
  <2>3. globals' = e /\ DOMAIN e = {}
    BY <2>1, <2>2 DEF ListsInv
  <2> QED
    BY <2>1, <2>3 DEF DataInv
<1>3. ASSUME pass \in IrPasses, pass' \in IrPasses, prog' = prog, globals' = globals, changed' = changed,
             pass = "register" <=> pass' = "register",
             \A id : Looked(id)' => Looked(id)
      PROVE  DataInv'
  <2>1. UniqueNames' => UniqueNames
    BY <1>3, IdsStay DEF UniqueNames
  <2> SUFFICES ASSUME UniqueNames PROVE DataInv'
    BY <2>1 DEF DataInv
  <2>2. /\ pass # "register" => changed \in BOOLEAN
        /\ \A i \in DOMAIN globals : GlobalData(globals[i])
    BY <1>3 DEF DataInv
  <2>3. ASSUME NEW i \in DOMAIN globals
        PROVE  GlobalData(globals[i])'
    <3>1. PICK y : y = globals[i]
      OBVIOUS
    <3>2. PICK e : e = DeclOf(y.id).init
      OBVIOUS
    <3>3. DeclOf(y.id)'.init = e
      BY <1>3, <3>2 DEF DeclOf
    <3>4. Constant(e)' = Constant(e)
      BY <1>3 DEF Constant, OperandValue, Here, Entry, Named
    <3>5. /\ y.data # {} => e.op # "none" /\ y.data = Constant(e) /\ pass # "register"
          /\ y.data = {} \/ \E v : y.data = {v}
          /\ e.op # "none" /\ Looked(y.id) => y.data # {} \/ Constant(e) = {}
      BY <2>2, <3>1, <3>2 DEF GlobalData
    <3>6. Looked(y.id)' => Looked(y.id)
      BY <1>3
    <3>7. GlobalData(y)'
      BY <1>3, <3>3, <3>4, <3>5, <3>6 DEF GlobalData
    <3> QED
      BY <1>3, <3>1, <3>7
  <2> QED
    BY <1>3, <2>2, <2>3 DEF DataInv
<1>4. CASE EmitGlobal \/ EmitBody \/ EmitNothing
  <2>1. /\ pass = "emit" /\ pass' \in {"emit", "done", "fatal"} /\ prog' = prog
        /\ globals' = globals /\ changed' = changed
    BY <1>4, WhoEmits DEF Checked
  <2>2. \A id : Looked(id)
    BY <2>1 DEF Looked
  <2> QED
    BY <1>3, <2>1, <2>2 DEF IrPasses
<1>5. CASE UNCHANGED <<vars, irVars>>
  <2>1. /\ prog' = prog /\ pass' = pass /\ file' = file /\ decl' = decl
        /\ globals' = globals /\ changed' = changed
    BY <1>5 DEF vars, irVars
  <2>2. \A id : Looked(id)' => Looked(id)
    BY <2>1 DEF Looked, Begun
  <2>3. CASE pass \in IrPasses
    BY <1>3, <2>1, <2>2, <2>3
  <2>4. CASE pass \notin IrPasses
    BY <2>1, <2>4 DEF DataInv
  <2> QED
    BY <2>3, <2>4
<1> QED
  BY <1>1, <1>2, <1>4, <1>5, RegisterData, EvaluateData DEF IrNext

-----------------------------------------------------------------------------
(* The code of __scorivm_init. *)

\* The globals that code is to initialise.
NeedsIds == {id \in GlobalIds : DeclOf(id).init.op # "none" /\ DataOf(id) = {}}

\* The declarations the third pass has come to.
Emitted(id) == pass = "done" \/ Begun(id[1], id[2])

\* The order of the source.
Before(x, y) == x[1] < y[1] \/ (x[1] = y[1] /\ x[2] < y[2])

\* The code initialises, in the order of the source, what has been emitted and
\* needs it; none of that is a lex.
CodeInv ==
  pass \in IrPasses /\ UniqueNames =>
    /\ pass \in {"register", "constants"} => initCode = <<>>
    /\ IsSeq(initCode)
    /\ \A i \in DOMAIN initCode : initCode[i] \in NeedsIds /\ Emitted(initCode[i])
    /\ \A i, j \in DOMAIN initCode : i < j => Before(initCode[i], initCode[j])
    /\ pass \in {"emit", "done"} =>
         \A id \in NeedsIds : Emitted(id) =>
           /\ DeclOf(id).kind # "lex"
           /\ Plain => \E i \in DOMAIN initCode : initCode[i] = id
    /\ pass = "fatal" => Decl.kind = "lex" /\ <<file, decl>> \in NeedsIds

\* The data of a declaration are those of its entry.
LEMMA DataAreTheEntrys ==
  ASSUME NEW ids, Lists(globals, ids), NEW i \in DOMAIN globals
  PROVE  DataOf(globals[i].id) = globals[i].data
<1>1. {j \in DOMAIN globals : globals[j].id = globals[i].id} = {i}
  BY DEF Lists
<1>2. {globals[j].data : j \in {i}} = {globals[i].data}
  OBVIOUS
<1>3. UNION {globals[i].data} = globals[i].data
  OBVIOUS
<1>4. PICK T : T = {j \in DOMAIN globals : globals[j].id = globals[i].id}
  OBVIOUS
<1>5. DataOf(globals[i].id) = UNION {globals[j].data : j \in T}
  BY <1>4 DEF DataOf
<1>6. T = {i}
  BY <1>1, <1>4
<1> QED
  BY <1>2, <1>3, <1>5, <1>6

\* A global is found by its name.
LEMMA GlobalIsFound ==
  ASSUME PlaceInv, Lists(globals, GlobalIds), UniqueNames, NEW id \in GlobalIds, NEW n, n = DeclOf(id).name
  PROVE  /\ Here(n) \in DOMAIN globals /\ globals[Here(n)].id = id
         /\ Named(globals, n) = {Here(n)} /\ globals[Here(n)].data = DataOf(id)
<1>1. PICK i \in DOMAIN globals : globals[i].id = id
  BY DEF Lists
<1>2. globals[i].name = n
  BY <1>1 DEF Lists
<1>3. GlobalIds \subseteq LinkNames
  BY DeclIds
<1>4. Named(globals, globals[i].name) = {i} /\ Entry(globals, globals[i].name) = i
  BY <1>3, EntryIs
<1>5. Named(globals, n) = {i} /\ Here(n) = i
  BY <1>2, <1>4 DEF Here
<1>6. globals[i].data = DataOf(id)
  BY <1>1, DataAreTheEntrys
<1> QED
  BY <1>1, <1>5, <1>6

LEMMA OutsideAt ==
  ASSUME PlaceInv, NEW g \in DOMAIN prog, NEW d \in DOMAIN AllDecls(g)
  PROVE  (<<g, d>> \o <<0>>)[1] = g /\ (<<g, d>> \o <<0>>)[2] = d /\ (<<g, d>> \o <<0>>)[3] = 0
<1>1. \A i, j \in Nat : (<<i, j>> \o <<0>>)[1] = i
  OBVIOUS
<1>2. \A i, j \in Nat : (<<i, j>> \o <<0>>)[2] = j
  OBVIOUS
<1>3. \A i, j \in Nat : (<<i, j>> \o <<0>>)[3] = 0
  OBVIOUS
<1>4. g \in Nat /\ d \in Nat
  BY ProgramIsProper
<1> QED
  BY <1>1, <1>2, <1>3, <1>4

\* What a name denotes outside functions has that name, if it is no module.
LEMMA DenotedOutside ==
  ASSUME PlaceInv, NEW id \in GlobalIds, NEW n, NEW y \in Denotes(id \o << 0 >>, "", n), y \in LinkNames
  PROVE  DeclOf(y).name = n
<1>1. PICK g \in DOMAIN prog : \E d \in DOMAIN AllDecls(g) : id = <<g, d>>
  BY DeclIds
<1>2. PICK d \in DOMAIN AllDecls(g) : id = <<g, d>>
  BY <1>1
<1>3. PICK at : at = id \o <<0>>
  OBVIOUS
<1>4. at[1] = g /\ at[3] = 0
  BY <1>2, <1>3, OutsideAt
<1>5. y \in FileLevel(g, n)
  BY <1>3, <1>4 DEF Denotes, Unqualified
<1>6. PICK h \in DOMAIN prog : \E e \in DOMAIN AllDecls(h) : y = <<h, e>>
  BY DeclIds
<1>7. PICK e \in DOMAIN AllDecls(h) : y = <<h, e>>
  BY <1>6
<1>8. y \notin ModuleNamed(n)
  <2>1. \A f : <<h, e>> # <<f>>
    OBVIOUS
  <2> QED
    BY <1>7, <2>1 DEF ModuleNamed
<1>9. \E f : y \in Own(f, n)
  BY <1>5, <1>8 DEF FileLevel, Public
<1>10. PICK f : y \in Own(f, n)
  BY <1>9
<1>11. PICK k \in DOMAIN prog[f].decls : y = <<f, k>> /\ prog[f].decls[k].name = n
  BY <1>10 DEF Own
<1> QED
  BY <1>11 DEF DeclOf

\* What may count as constant has been found.
LEMMA DataIsClosed ==
  ASSUME PlaceInv, Lists(globals, GlobalIds), DataInv, pass \in {"emit", "done", "fatal"}, UniqueNames,
         NEW S, S = {id \in GlobalIds : DataOf(id) # {}},
         NEW x \in GlobalIds, ConstantGiven(x, S)
  PROVE  x \in S
<1>1. PICK e : e = DeclOf(x).init
  OBVIOUS
<1>2. /\ e.op \notin {"none", "call"} /\ ProperExpr(e)
      /\ \A a \in RefOperands(e) : a.mod = "" /\ Denotes(x \o <<0>>, "", a.name) \cap S # {}
  BY <1>1, GlobalIsProper DEF ConstantGiven
<1>3. ASSUME NEW a, ProperOperand(a), a.op = "ref" => a \in RefOperands(e)
      PROVE  OperandValue(a) # {}
  <2>1. CASE a.op \in {"int", "float"}
    BY <2>1 DEF OperandValue
  <2>2. CASE a.op = "ref"
    <3>1. PICK n : n = a.name
      OBVIOUS
    <3>2. a.mod = "" /\ Denotes(x \o <<0>>, "", n) \cap S # {}
      BY <1>2, <1>3, <2>2, <3>1
    <3>3. PICK y : y \in Denotes(x \o <<0>>, "", n) /\ y \in S
      BY <3>2
    <3>4. y \in GlobalIds /\ y \in LinkNames /\ DataOf(y) # {}
      BY <3>3, DeclIds
    <3>5. DeclOf(y).name = n
      BY <3>3, <3>4, DenotedOutside
    <3>6. Named(globals, n) # {} /\ globals[Here(n)].data = DataOf(y)
      BY <3>4, <3>5, GlobalIsFound
    <3> QED
      BY <2>2, <3>1, <3>2, <3>4, <3>6 DEF OperandValue
  <2> QED
    BY <1>3, <2>1, <2>2 DEF ProperOperand
<1>4. Constant(e) # {}
  <2>1. CASE e.op = "sum"
    <3>1. PICK a, b : a = e.left /\ b = e.right /\ ProperOperand(a) /\ ProperOperand(b)
      BY <1>2, <2>1 DEF ProperExpr, ProperOperand
    <3>2. RefOperands(e) = {c \in {a, b} : c.op = "ref"}
      BY <2>1, <3>1 DEF RefOperands
    <3>3. OperandValue(a) # {} /\ OperandValue(b) # {}
      BY <1>3, <3>1, <3>2
    <3>4. Constant(e) = {v + w : v \in OperandValue(a), w \in OperandValue(b)}
      BY <2>1, <3>1 DEF Constant
    <3> QED
      BY <3>3, <3>4
  <2>2. CASE ProperOperand(e)
    <3>1. RefOperands(e) = {c \in {e} : c.op = "ref"}
      BY <2>2 DEF RefOperands, ProperOperand
    <3>2. Constant(e) = OperandValue(e)
      BY <2>2 DEF Constant, ProperOperand
    <3> QED
      BY <1>3, <2>2, <3>1, <3>2
  <2> QED
    BY <1>2, <2>1, <2>2 DEF ProperExpr
<1>5. PICK i \in DOMAIN globals : globals[i].id = x
  BY DEF Lists
<1>6. GlobalData(globals[i]) /\ Looked(x)
  BY DEF DataInv, Looked, IrPasses
<1>7. globals[i].data # {}
  BY <1>1, <1>2, <1>4, <1>5, <1>6 DEF GlobalData
<1>8. DataOf(x) # {}
  BY <1>5, <1>7, DataAreTheEntrys
<1> QED
  BY <1>8

LEMMA EmittedStep ==
  ASSUME PlaceInv, Step, prog' = prog, pass = "emit", NEW id \in LinkNames
  PROVE  Emitted(id)' <=> Emitted(id) \/ id = <<file, decl>>
<1>1. PICK g \in DOMAIN prog : \E d \in DOMAIN AllDecls(g) : id = <<g, d>>
  BY DeclIds
<1>2. PICK d \in DOMAIN AllDecls(g) : id = <<g, d>>
  BY <1>1
<1>3. Emitted(id) <=> Begun(g, d)
  BY <1>2 DEF Emitted
<1>4. Emitted(id)' <=> pass' = "done" \/ Begun(g, d)'
  BY <1>2 DEF Emitted
<1>5. id = <<file, decl>> <=> g = file /\ d = decl
  BY <1>2
<1>6. CASE Onward
  BY <1>3, <1>4, <1>5, <1>6 DEF Onward
<1>7. CASE Around
  BY <1>3, <1>4, <1>5, <1>7 DEF Around, NextIrPass
<1> QED
  BY <1>6, <1>7, StepBegins

\* Of the check nothing changes any more.
LEMMA CheckedStays ==
  ASSUME UNCHANGED Checked
  PROVE  (UniqueNames' <=> UniqueNames) /\ (Plain' <=> Plain)
<1>1. prog' = prog /\ scope' = scope /\ uses' = uses
  BY DEF Checked
<1>2. UniqueNames' <=> UniqueNames
  BY <1>1 DEF UniqueNames, LinkNames, DeclOf
<1>3. \A u : HasOperand(u)' <=> HasOperand(u)
  BY <1>1 DEF HasOperand, IrType, IsVariable, DeclOf
<1>4. \A u : (IsActio(IrType(u)) => IsFunction(u))' <=> (IsActio(IrType(u)) => IsFunction(u))
  BY <1>1 DEF IsFunction, IrType, DeclOf
<1> QED
  BY <1>1, <1>2, <1>3, <1>4 DEF Plain

LEMMA NeedsStay ==
  ASSUME prog' = prog, globals' = globals
  PROVE  NeedsIds' = NeedsIds /\ \A id : DataOf(id)' = DataOf(id)
<1>1. \A id : DataOf(id)' = DataOf(id)
  BY DEF DataOf
<1>2. GlobalIds' = GlobalIds /\ \A id : DeclOf(id)' = DeclOf(id)
  BY IdsStay
<1> QED
  BY <1>1, <1>2 DEF NeedsIds

LEMMA NeedsCodeIs ==
  ASSUME PlaceInv, Lists(globals, GlobalIds), UniqueNames
  PROVE  NeedsCode(Decl) <=> <<file, decl>> \in NeedsIds
<1>1. PICK id : id = <<file, decl>>
  OBVIOUS
<1>2. id \in GlobalIds <=> IsGlobal(Decl)
  BY <1>1, AtHand
<1>3. id \in GlobalIds => DeclOf(id) = Decl /\ globals[Here(Decl.name)].data = DataOf(id)
  BY <1>1, AtHand, DeclIds, GlobalIsFound
<1> QED
  BY <1>1, <1>2, <1>3 DEF NeedsCode, NeedsIds

\* The step of the third pass over the declaration at hand.
LEMMA EmitCode ==
  ASSUME PlaceInv, ListsInv, CodeInv, EmitGlobal \/ EmitBody \/ EmitNothing
  PROVE  CodeInv'
<1>1. /\ pass = "emit" /\ UNCHANGED Checked /\ UNCHANGED <<globals, externs, changed>>
      /\ \/ Step /\ pass' \in {"emit", "done"}
         \/ EmitGlobal /\ pass' = "fatal" /\ UNCHANGED <<file, decl>>
  BY WhoEmits
<1>2. Lists(globals, GlobalIds) /\ prog' = prog
  BY <1>1 DEF ListsInv, Entered, IrPasses, Checked
<1>3. PICK N, id, x : N = NeedsIds /\ id = <<file, decl>> /\ x = Decl
  OBVIOUS
<1>4. NeedsIds' = N /\ (UniqueNames' <=> UniqueNames) /\ (Plain' <=> Plain)
      /\ \A i : DeclOf(i)' = DeclOf(i)
  BY <1>1, <1>2, <1>3, NeedsStay, CheckedStays, IdsStay
<1> SUFFICES ASSUME UniqueNames PROVE CodeInv'
  BY <1>4 DEF CodeInv
<1>5. /\ IsSeq(initCode)
      /\ \A i \in DOMAIN initCode : initCode[i] \in N /\ Emitted(initCode[i])
      /\ \A i, j \in DOMAIN initCode : i < j => Before(initCode[i], initCode[j])
      /\ \A y \in N : Emitted(y) =>
           /\ DeclOf(y).kind # "lex"
           /\ Plain => \E i \in DOMAIN initCode : initCode[i] = y
  BY <1>1, <1>3 DEF CodeInv, IrPasses
<1>6. NeedsCode(x) <=> id \in N
  BY <1>2, <1>3, NeedsCodeIs
<1>7. N \subseteq GlobalIds /\ (id \in GlobalIds => DeclOf(id) = x)
  BY <1>3, AtHand, DeclIds DEF NeedsIds
<1>8. CASE EmitGlobal /\ pass' = "fatal" /\ UNCHANGED <<file, decl>>
  <2>1. NeedsCode(x) /\ x.kind = "lex" /\ initCode' = initCode
    BY <1>1, <1>3, <1>8 DEF EmitGlobal, Step, NextIrPass
  <2>2. \A y : Emitted(y)' <=> Emitted(y)
    BY <1>1, <1>8 DEF Emitted, Begun
  <2>3. Decl' = x /\ <<file, decl>>' = id
    BY <1>2, <1>3, <1>8 DEF Decl, Decls
  <2>4. \A y, z : Before(y, z)' <=> Before(y, z)
    BY DEF Before
  <2>5. PICK c : c = initCode
    OBVIOUS
  <2>6. /\ \A i \in DOMAIN c : c[i] \in N /\ Emitted(c[i])'
        /\ \A i, j \in DOMAIN c : i < j => Before(c[i], c[j])
    BY <1>5, <2>2, <2>5
  <2> QED
    BY <1>4, <1>5, <1>6, <1>8, <2>1, <2>3, <2>5, <2>6 DEF CodeInv, Before
<1>9. CASE Step /\ pass' \in {"emit", "done"}
  <2>1. \A y \in N : Emitted(y)' <=> Emitted(y) \/ y = id
    <3>1. N \subseteq LinkNames
      BY <1>7, DeclIds
    <3> QED
      BY <1>1, <1>2, <1>3, <1>9, <3>1, EmittedStep
  <2>2. PICK c, d : c = initCode /\ d = initCode'
    OBVIOUS
  <2>3. \/ /\ EmitGlobal /\ id \in N /\ x.kind # "lex" /\ d = IF IsGenerated(x.init) THEN Append(c, id) ELSE c
        \/ id \notin N /\ d = c
    <3>1. CASE EmitGlobal
      BY <1>1, <1>3, <1>6, <1>9, <2>2, <3>1 DEF EmitGlobal
    <3>2. CASE EmitBody
      <4>1. IsActioDecl(x) /\ d = c
        BY <1>3, <2>2, <3>2 DEF EmitBody
      <4>2. ~NeedsCode(x)
        BY <4>1 DEF NeedsCode, IsActioDecl, IsGlobal
      <4> QED
        BY <1>6, <4>1, <4>2
    <3>3. CASE EmitNothing
      BY <1>3, <1>6, <2>2, <3>3 DEF EmitNothing, irVars
    <3> QED
      BY <3>1, <3>2, <3>3
  <2>4. CASE d = c /\ (id \notin N \/ (x.kind # "lex" /\ ~Plain))
    <3>1. \A i \in DOMAIN d : d[i] \in N /\ Emitted(d[i])'
      BY <1>5, <2>1, <2>2, <2>4
    <3>2. \A i, j \in DOMAIN d : i < j => Before(d[i], d[j])
      BY <1>5, <2>2, <2>4
    <3>3. \A y \in N : Emitted(y)' =>
            DeclOf(y).kind # "lex" /\ (Plain => \E i \in DOMAIN d : d[i] = y)
      BY <1>5, <1>7, <2>1, <2>2, <2>4
    <3>4. IsSeq(d)
      BY <1>5, <2>2, <2>4
    <3> QED
      BY <1>4, <1>9, <2>2, <3>1, <3>2, <3>3, <3>4 DEF CodeInv, Before
  <2>5. CASE id \in N /\ x.kind # "lex" /\ d = Append(c, id)
    <3>1. PICK n \in Nat : n = Len(c) /\ DOMAIN c = 1 .. n
      BY <1>5, <2>2, SeqDomain
    <3>2. IsSeq(d) /\ Len(d) = n + 1 /\ d[n + 1] = id /\ \A i \in 1 .. n : d[i] = c[i]
      BY <1>5, <2>2, <2>5, <3>1, AppendIs
    <3>3. DOMAIN d = 1 .. (n + 1)
      BY <3>2, SeqDomain
    <3>4. \A i \in DOMAIN d : i \in DOMAIN c \/ i = n + 1
      BY <3>1, <3>3
    <3>5. \A i \in DOMAIN d : d[i] \in N /\ Emitted(d[i])'
      <4> TAKE i \in DOMAIN d
      <4>1. d[i] \in N /\ (Emitted(d[i]) \/ d[i] = id)
        BY <1>5, <2>2, <2>5, <3>1, <3>2, <3>4
      <4> QED
        BY <2>1, <4>1
    <3>6. \A i, j \in DOMAIN d : i < j => Before(d[i], d[j])
      <4> TAKE i, j \in DOMAIN d
      <4>1. HAVE i < j
      <4>2. i \in DOMAIN c /\ i \in Nat /\ j \in Nat /\ d[i] = c[i]
        BY <3>1, <3>2, <3>3, <4>1
      <4>3. CASE j \in DOMAIN c
        BY <1>5, <2>2, <3>1, <3>2, <4>1, <4>2, <4>3
      <4>4. CASE j = n + 1
        <5>1. Emitted(c[i]) /\ d[j] = id
          BY <1>5, <2>2, <3>2, <4>2, <4>4
        <5>2. Begun(c[i][1], c[i][2])
          BY <1>1, <5>1 DEF Emitted
        <5>3. id[1] = file /\ id[2] = decl
          BY <1>3
        <5> QED
          BY <4>2, <5>1, <5>2, <5>3 DEF Begun, Before
      <4> QED
        BY <3>4, <4>3, <4>4
    <3>7. \A y \in N : Emitted(y)' =>
            DeclOf(y).kind # "lex" /\ (Plain => \E i \in DOMAIN d : d[i] = y)
      <4> TAKE y \in N
      <4>1. HAVE Emitted(y)'
      <4>2. CASE y = id
        <5>1. n + 1 \in DOMAIN d
          BY <3>3
        <5> QED
          BY <1>7, <2>5, <3>2, <4>2, <5>1
      <4>3. CASE Emitted(y)
        <5>1. DeclOf(y).kind # "lex" /\ (Plain => \E i \in DOMAIN c : c[i] = y)
          BY <1>5, <2>2, <4>3
        <5>2. \A i \in DOMAIN c : i \in DOMAIN d /\ d[i] = c[i]
          BY <3>1, <3>2, <3>3
        <5> QED
          BY <5>1, <5>2
      <4> QED
        BY <2>1, <4>1, <4>2, <4>3
    <3> QED
      BY <1>4, <1>9, <2>2, <3>2, <3>5, <3>6, <3>7 DEF CodeInv, Before
  <2>6. Plain => IsGenerated(x.init)
    BY DEF Plain, IsGenerated
  <2> QED
    BY <2>3, <2>4, <2>5, <2>6
<1> QED
  BY <1>1, <1>8, <1>9

LEMMA CodeStep ==
  ASSUME PlaceInv, ListsInv, CodeInv, [IrNext]_<<vars, irVars>>
  PROVE  CodeInv'
<1>1. CASE CheckStep
  BY <1>1, CheckPasses DEF CodeInv
<1>2. PICK e : e = <<>>
  OBVIOUS
<1>3. IsSeq(e) /\ DOMAIN e = {}
  BY <1>2 DEF IsSeq
<1>4. ASSUME pass' \in {"register", "constants"}, initCode' = e
      PROVE  CodeInv'
  BY <1>2, <1>3, <1>4 DEF CodeInv
<1>5. CASE Generate
  BY <1>2, <1>4, <1>5 DEF Generate, irVars, ListsInv, IrPasses
<1>6. CASE Register
  <2>1. pass = "register" /\ Step /\ prog' = prog /\ initCode' = initCode
    BY <1>6 DEF Register, Checked
  <2>2. pass' \in {"register", "constants"}
    BY <2>1, StepBegins DEF Onward, Around, NextIrPass
  <2>3. UniqueNames' <=> UniqueNames
    BY <1>6, CheckedStays DEF Register
  <2>4. UniqueNames => initCode = e
    BY <1>2, <2>1 DEF CodeInv, IrPasses
  <2> QED
    BY <1>4, <2>1, <2>2, <2>3, <2>4 DEF CodeInv
<1>7. CASE EvaluateConstant
  <2>1. pass = "constants" /\ Step /\ prog' = prog /\ initCode' = initCode /\ pass' \in {"constants", "emit"}
    BY <1>7, EvaluateWrites DEF Checked
  <2>2. UniqueNames' <=> UniqueNames
    BY <1>7, CheckedStays DEF EvaluateConstant
  <2>3. UniqueNames => initCode = e
    BY <1>2, <2>1 DEF CodeInv, IrPasses
  <2>4. ASSUME pass' = "emit", NEW id \in GlobalIds
        PROVE  ~Emitted(id)'
    <3>1. PICK g \in DOMAIN prog : \E d \in DOMAIN AllDecls(g) : id = <<g, d>>
      BY <2>4, DeclIds
    <3>2. Around
      BY <2>1, <2>4, StepBegins DEF Onward
    <3> QED
      BY <2>1, <2>4, <3>1, <3>2 DEF Around, Emitted
  <2>5. NeedsIds' \subseteq GlobalIds
    <3>1. GlobalIds' = GlobalIds
      BY <2>1, IdsStay
    <3> QED
      BY <3>1 DEF NeedsIds
  <2>6. CASE pass' = "emit" /\ UniqueNames
    <3>1. \A id \in NeedsIds' : ~Emitted(id)'
      BY <2>4, <2>5, <2>6
    <3> QED
      BY <1>2, <1>3, <2>1, <2>3, <2>6, <3>1 DEF CodeInv
  <2> QED
    BY <1>4, <2>1, <2>2, <2>3, <2>6 DEF CodeInv
<1>8. CASE UNCHANGED <<vars, irVars>>
  <2>1. /\ UNCHANGED Checked /\ prog' = prog /\ pass' = pass /\ file' = file /\ decl' = decl
        /\ globals' = globals /\ initCode' = initCode
    BY <1>8 DEF vars, irVars, Checked
  <2>2. PICK N, id, x, c : N = NeedsIds /\ id = <<file, decl>> /\ x = Decl /\ c = initCode
    OBVIOUS
  <2>3. NeedsIds' = N /\ (UniqueNames' <=> UniqueNames) /\ (Plain' <=> Plain)
        /\ \A i : DeclOf(i)' = DeclOf(i)
    BY <2>1, <2>2, NeedsStay, CheckedStays, IdsStay
  <2>4. \A y : Emitted(y)' <=> Emitted(y)
    BY <2>1 DEF Emitted, Begun
  <2>5. Decl' = x /\ <<file, decl>>' = id
    BY <2>1, <2>2 DEF Decl, Decls
  <2> QED
    BY <2>1, <2>2, <2>3, <2>4, <2>5 DEF CodeInv, Before
<1> QED
  BY <1>1, <1>5, <1>6, <1>7, <1>8, EmitCode DEF IrNext

-----------------------------------------------------------------------------
LEMMA OncePerGlobal ==
  ASSUME PlaceInv, ListsInv, DataInv, CodeInv, Plain, pass = "done", NEW id \in GlobalIds
  PROVE  LET runs == {i \in DOMAIN initCode : initCode[i] = id}
         IN  Cardinality(runs) + Cardinality(DataOf(id)) = IF DeclOf(id).init.op = "none" THEN 0 ELSE 1
<1>1. PICK runs, data, e : /\ runs = {i \in DOMAIN initCode : initCode[i] = id}
                           /\ data = DataOf(id) /\ e = DeclOf(id).init
  OBVIOUS
<1> SUFFICES Cardinality(runs) + Cardinality(data) = IF e.op = "none" THEN 0 ELSE 1
  BY <1>1
<1>2. UniqueNames
  BY DEF Plain
<1>3. /\ IsSeq(initCode)
      /\ \A i \in DOMAIN initCode : initCode[i] \in NeedsIds
      /\ \A i, j \in DOMAIN initCode : i < j => Before(initCode[i], initCode[j])
      /\ \A y \in NeedsIds : \E i \in DOMAIN initCode : initCode[i] = y
  BY <1>2 DEF CodeInv, IrPasses, Emitted
<1>4. Lists(globals, GlobalIds)
  BY DEF ListsInv, IrPasses, Entered
<1>5. PICK g \in DOMAIN globals : globals[g].id = id
  BY <1>4 DEF Lists
<1>6. data = globals[g].data
  BY <1>1, <1>4, <1>5, DataAreTheEntrys
<1>7. /\ data # {} => e.op # "none"
      /\ data = {} \/ \E v : data = {v}
  BY <1>1, <1>2, <1>5, <1>6 DEF DataInv, GlobalData, IrPasses
<1>8. Cardinality({}) = 0 /\ \A v : Cardinality({v}) = 1
  BY FS_EmptySet, FS_Singleton
<1>9. CASE id \notin NeedsIds
  <2>1. runs = {}
    BY <1>1, <1>3, <1>9
  <2>2. e.op = "none" \/ data # {}
    BY <1>1, <1>9 DEF NeedsIds
  <2>3. IF e.op = "none" THEN data = {} ELSE \E v : data = {v}
    BY <1>7, <2>2
  <2>4. Cardinality(runs) = 0 /\ Cardinality(data) = IF e.op = "none" THEN 0 ELSE 1
    BY <1>8, <2>1, <2>3
  <2> QED
    BY <2>4
<1>10. CASE id \in NeedsIds
  <2>1. data = {} /\ e.op # "none"
    BY <1>1, <1>10 DEF NeedsIds
  <2>2. PICK i \in DOMAIN initCode : initCode[i] = id
    BY <1>3, <1>10
  <2>3. \A j \in DOMAIN initCode : initCode[j] = id => j = i
    <3> TAKE j \in DOMAIN initCode
    <3>1. HAVE initCode[j] = id
    <3>2. i \in Int /\ j \in Int
      BY <1>3, SeqDomain
    <3>3. ~Before(id, id)
      <4>1. PICK h \in DOMAIN prog : \E d \in DOMAIN AllDecls(h) : id = <<h, d>>
        BY DeclIds
      <4>2. id[1] \in Nat /\ id[2] \in Nat
        BY <4>1, ProgramIsProper
      <4> QED
        BY <4>2 DEF Before
    <3>4. ~(i < j) /\ ~(j < i)
      BY <1>3, <2>2, <3>1, <3>3
    <3> QED
      BY <3>2, <3>4
  <2>4. runs = {i}
    BY <1>1, <2>2, <2>3
  <2>5. Cardinality(runs) = 1 /\ Cardinality(data) = 0
    BY <1>8, <2>1, <2>4
  <2> QED
    BY <2>1, <2>5
<1> QED
  BY <1>9, <1>10

LEMMA OnceFollows ==
  ASSUME PlaceInv, ListsInv, DataInv, CodeInv
  PROVE  InitialisedOnce
<1> SUFFICES ASSUME Plain PROVE InitialisedOnce
  BY DEF InitialisedOnce
<1>1. UniqueNames
  BY DEF Plain
<1>2. ASSUME pass = "done", NEW id \in GlobalIds, DeclOf(id).kind = "lex"
      PROVE  DataOf(id) # {}
  <2>1. DeclOf(id).init.op # "none"
    BY <1>2, GlobalIsProper
  <2>2. id \notin NeedsIds
    BY <1>1, <1>2 DEF CodeInv, IrPasses, Emitted
  <2> QED
    BY <2>1, <2>2 DEF NeedsIds
<1>3. ASSUME pass = "done", NEW i \in DOMAIN initCode, NEW j \in DOMAIN initCode, i < j
      PROVE  Before(initCode[i], initCode[j])
  BY <1>1, <1>3 DEF CodeInv, IrPasses
<1>4. ASSUME pass = "fatal"
      PROVE  Decl.kind = "lex" /\ <<file, decl>> \notin ConstantGlobals
  <2>1. PICK id, S : id = <<file, decl>> /\ S = {x \in GlobalIds : DataOf(x) # {}}
    OBVIOUS
  <2>2. Decl.kind = "lex" /\ id \in NeedsIds
    BY <1>1, <1>4, <2>1 DEF CodeInv, IrPasses
  <2>3. Lists(globals, GlobalIds)
    BY <1>4 DEF ListsInv, IrPasses, Entered
  <2>4. \A x \in GlobalIds : ConstantGiven(x, S) => x \in S
    BY <1>1, <1>4, <2>1, <2>3, DataIsClosed
  <2>5. S \in SUBSET GlobalIds /\ id \notin S
    BY <2>1, <2>2 DEF NeedsIds
  <2>6. id \notin ConstantGlobals
    BY <2>4, <2>5 DEF ConstantGlobals
  <2> QED
    BY <2>1, <2>2, <2>6
<1>5. pass = "done" => \A id \in GlobalIds :
              LET runs == {i \in DOMAIN initCode : initCode[i] = id}
              IN  Cardinality(runs) + Cardinality(DataOf(id)) = IF DeclOf(id).init.op = "none" THEN 0 ELSE 1
  BY OncePerGlobal
<1> QED
  BY <1>2, <1>3, <1>4, <1>5 DEF InitialisedOnce, Before

IrInv == PlaceInv /\ ListsInv /\ DataInv /\ CodeInv

\* Whatever the program: the lists of the module hold every declaration once,
\* the data of a global are the value of its initialiser, a round of constant
\* evaluation that changes nothing has looked at every global in vain, and the
\* code of __scorivm_init follows the source (ir_gen.c:1690-1810).
THEOREM IrInductive ==
  IrSpec => []IrInv
<1>1. IrInit => IrInv
  <2>1. IrInit => PlaceInv
    BY NamesInit DEF NamesInv
  <2>2. IrInit => ListsInv /\ DataInv /\ CodeInv
    BY DEF IrInit, Init, ListsInv, DataInv, CodeInv, IrPasses
  <2> QED
    BY <2>1, <2>2 DEF IrInv
<1>2. IrInv /\ [IrNext]_<<vars, irVars>> => IrInv'
  BY PlaceStep, ListsStep, DataStep, CodeStep DEF IrInv
<1> QED
  BY <1>1, <1>2, PTL DEF IrSpec

\* Whatever the program, if it is plain: every global with an initialiser is
\* given its value exactly once, as data or by __scorivm_init, which runs in the
\* order of the source, every lex is data, and code generation stops half-way
\* only for a lex that depends on more than literals (ir_gen.c:1766-1810).
THEOREM GlobalsAreInitialisedOnce ==
  IrSpec => []InitialisedOnce
<1>1. IrInv => InitialisedOnce
  BY OnceFollows DEF IrInv
<1> QED
  BY <1>1, IrInductive, PTL

-----------------------------------------------------------------------------
(* The names in initialisers. *)

\* Operand a was resolved at place at.
UsedAt(at, a) == \E u \in uses : u.at = at /\ u.mod = a.mod /\ u.name = a.name

\* The names in every initialiser checked are uses.
UsedInv ==
  pass = "bodies" \/ pass \in Later =>
    \A g \in DOMAIN prog : \A d \in DOMAIN AllDecls(g) :
      IsGlobal(AllDecls(g)[d]) /\ (pass # "bodies" \/ Begun(g, d)) =>
        \A a \in RefOperands(AllDecls(g)[d].init) : UsedAt(<<g, d, 0>>, a)

LEMMA UsesGrow ==
  ASSUME PlaceInv, [IrNext]_<<vars, irVars>>
  PROVE  uses \subseteq uses'
<1>1. CASE CheckGlobal
  BY <1>1 DEF CheckGlobal, Crash
<1>2. CASE DeclareLocal \/ Evaluate \/ Return
  BY <1>2 DEF DeclareLocal, Evaluate, Return, Crash
<1>3. CASE \/ RegisterModule \/ CollectTypeNames \/ CollectDeclaration \/ ImportDeclaration
           \/ EnterFunction \/ LeaveFunction \/ SkipDeclaration
  BY <1>3 DEF RegisterModule, CollectTypeNames, CollectDeclaration, ImportDeclaration,
              EnterFunction, LeaveFunction, SkipDeclaration
<1>4. CASE OpenBlock \/ CloseBlock
  BY <1>4 DEF OpenBlock, CloseBlock
<1>5. CASE Generate \/ Register \/ EvaluateConstant \/ EmitGlobal \/ EmitBody \/ EmitNothing
  BY <1>5, WhoGenerates DEF Checked
<1>6. CASE UNCHANGED <<vars, irVars>>
  BY <1>6 DEF vars
<1> QED
  BY <1>1, <1>2, <1>3, <1>4, <1>5, <1>6 DEF IrNext, CheckStep, Next

\* What the names of an initialiser become.
LEMMA InitialiserIsMet ==
  ASSUME PlaceInv, CheckGlobal, pass' # "crashed", NEW a \in RefOperands(Decl.init),
         NEW at, at = <<file, decl, 0>>
  PROVE  UsedAt(at, a)'
<1>1. PICK e : e = Decl.init
  OBVIOUS
<1>2. pass = "bodies" /\ Decl.kind \in {"sit", "lex"} /\ uses' = uses \cup Met(e)
  BY <1>1 DEF CheckGlobal, Crash
<1>3. stmt = 0
  BY <1>2 DEF PlaceInv
<1>4. a.op = "ref" /\ a \in Operands(e)
  BY <1>1 DEF RefOperands, Operands
<1>5. a \in Names(e)
  BY <1>4 DEF Names
<1>6. PICK u : u = [at |-> <<file, decl, stmt>>, mod |-> a.mod, name |-> a.name, id |-> Sym(a).id,
                    type |-> Sym(a).type, alias |-> Sym(a).alias, called |-> a.op = "callee"]
  OBVIOUS
<1>7. u \in Met(e)
  BY <1>5, <1>6 DEF Met
<1>8. u.at = at /\ u.mod = a.mod /\ u.name = a.name
  BY <1>1, <1>3, <1>6
<1> QED
  BY <1>2, <1>7, <1>8 DEF UsedAt

LEMMA UsedStep ==
  ASSUME PlaceInv, UsedInv, [IrNext]_<<vars, irVars>>
  PROVE  UsedInv'
<1>1. uses \subseteq uses' /\ prog' = prog
  BY UsesGrow, UniverseStays
<1>2. ASSUME NEW at, NEW a, UsedAt(at, a)
      PROVE  UsedAt(at, a)'
  BY <1>1, <1>2 DEF UsedAt
\* It is enough that the declarations that join are not global or are met.
<1>3. ASSUME pass = "bodies" \/ pass \in Later,
             \A g \in DOMAIN prog : \A d \in DOMAIN AllDecls(g) :
               /\ IsGlobal(AllDecls(g)[d])
               /\ pass' # "bodies" \/ Begun(g, d)'
               /\ ~(pass # "bodies" \/ Begun(g, d))
               => \A a \in RefOperands(AllDecls(g)[d].init) : UsedAt(<<g, d, 0>>, a)'
      PROVE  UsedInv'
  <2>1. ASSUME NEW g \in DOMAIN prog, NEW d \in DOMAIN AllDecls(g), IsGlobal(AllDecls(g)[d]),
               pass' # "bodies" \/ Begun(g, d)', NEW a \in RefOperands(AllDecls(g)[d].init)
        PROVE  UsedAt(<<g, d, 0>>, a)'
    <3>1. PICK at : at = <<g, d, 0>>
      OBVIOUS
    <3>2. CASE pass # "bodies" \/ Begun(g, d)
      <4>1. UsedAt(at, a)
        BY <1>3, <2>1, <3>1, <3>2 DEF UsedInv
      <4> QED
        BY <1>2, <3>1, <4>1
    <3>3. CASE ~(pass # "bodies" \/ Begun(g, d))
      BY <1>3, <2>1, <3>3
    <3> QED
      BY <3>2, <3>3
  <2>2. \A g : AllDecls(g)' = AllDecls(g)
    BY <1>1 DEF AllDecls
  <2>3. \A d : IsGlobal(d)' <=> IsGlobal(d)
    BY DEF IsGlobal
  <2>4. \A e : RefOperands(e)' = RefOperands(e)
    BY DEF RefOperands
  <2> QED
    BY <1>1, <2>1, <2>2 DEF UsedInv, IsGlobal, RefOperands
<1>4. ASSUME pass = "bodies", Moves, NEW at, at = <<file, decl, 0>>,
             IsGlobal(Decl) => \A a \in RefOperands(Decl.init) : UsedAt(at, a)'
      PROVE  UsedInv'
  <2>1. \/ /\ pass' = pass
           /\ \A g \in DOMAIN prog : \A d \in DOMAIN AllDecls(g) :
                Begun(g, d)' <=> Begun(g, d) \/ (g = file /\ d = decl)
        \/ pass' = "rejected"
        \/ /\ pass' = NextPass(pass)
           /\ \A g \in DOMAIN prog : \A d \in DOMAIN AllDecls(g) :
                Begun(g, d) \/ (g = file /\ d = decl)
    BY <1>1, <1>4, AdvanceBegins
  <2>2. CASE pass' = "rejected"
    BY <2>2 DEF UsedInv, Later
  <2>3. CASE pass' # "rejected"
    <3>1. \A g \in DOMAIN prog : \A d \in DOMAIN AllDecls(g) :
            (pass' # "bodies" \/ Begun(g, d)') /\ ~Begun(g, d) => g = file /\ d = decl
      BY <1>4, <2>1, <2>3
    <3>2. \A d : file \in DOMAIN prog /\ d \in DOMAIN AllDecls(file) /\ d = decl => AllDecls(file)[d] = Decl
      BY DeclAtHand
    <3>3. ASSUME NEW g \in DOMAIN prog, NEW d \in DOMAIN AllDecls(g), IsGlobal(AllDecls(g)[d]),
                 pass' # "bodies" \/ Begun(g, d)', ~(pass # "bodies" \/ Begun(g, d)),
                 NEW a \in RefOperands(AllDecls(g)[d].init)
          PROVE  UsedAt(<<g, d, 0>>, a)'
      <4>1. g = file /\ d = decl
        BY <1>4, <3>1, <3>3
      <4>2. AllDecls(g)[d] = Decl /\ at = <<g, d, 0>>
        BY <1>4, <3>2, <3>3, <4>1
      <4>3. UsedAt(at, a)'
        BY <1>4, <3>3, <4>2
      <4> QED
        BY <4>2, <4>3
    <3> QED
      BY <1>3, <1>4, <3>3
  <2> QED
    BY <2>2, <2>3
<1>5. CASE CheckGlobal /\ pass' # "crashed"
  <2>1. Moves
    BY <1>5, WhoAdvances
  <2>2. pass = "bodies"
    BY <1>5 DEF CheckGlobal
  <2>3. PICK at : at = <<file, decl, 0>>
    OBVIOUS
  <2>4. \A a \in RefOperands(Decl.init) : UsedAt(at, a)'
    BY <1>5, <2>3, InitialiserIsMet
  <2> QED
    BY <1>4, <2>1, <2>2, <2>3, <2>4
<1>6. CASE (EnterFunction /\ stmt' = 0) \/ LeaveFunction \/ SkipDeclaration
  <2>1. Moves
    BY <1>6, WhoAdvances
  <2>2. pass = "bodies" /\ ~IsGlobal(Decl)
    BY <1>6 DEF EnterFunction, LeaveFunction, SkipDeclaration, IsGlobal
  <2> QED
    BY <1>4, <2>1, <2>2
<1>7. CASE RegisterModule \/ CollectTypeNames \/ CollectDeclaration \/ ImportDeclaration
  <2>1. Moves
    BY <1>7, WhoAdvances
  <2>2. pass \in {"modules", "collect", "imports"}
    BY <1>7 DEF RegisterModule, CollectTypeNames, CollectDeclaration, ImportDeclaration
  <2>3. pass' \in {pass, "rejected", NextPass(pass)}
    BY <2>1, <2>2, MovesOn
  <2>4. pass' \in {"modules", "collect", "imports", "rejected", "bodies"}
    BY <2>2, <2>3 DEF NextPass
  <2>5. pass' = "bodies" => file' = 1 /\ decl' = 1
    BY <2>1, <2>2 DEF Moves, NextPass, First
  <2>6. pass' = "bodies" => \A g \in DOMAIN prog : \A d \in DOMAIN AllDecls(g) : ~Begun(g, d)'
    BY <2>5, ProgramIsProper DEF Begun
  <2>7. \A g : AllDecls(g)' = AllDecls(g)
    BY <1>1 DEF AllDecls
  <2> QED
    BY <1>1, <2>4, <2>6, <2>7 DEF UsedInv, Later
<1>8. CASE \/ EnterFunction /\ stmt' # 0
           \/ OpenBlock \/ CloseBlock
           \/ (DeclareLocal \/ Evaluate \/ Return) /\ pass' # "crashed"
  <2>1. pass = "bodies" /\ pass' = pass /\ file' = file /\ decl' = decl
    BY <1>8, WhoFollows
  <2>2. \A g, d : Begun(g, d)' <=> Begun(g, d)
    BY <2>1 DEF Begun
  <2> QED
    BY <1>3, <2>1, <2>2
<1>9. CASE Crash /\ pass = "bodies"
  BY <1>9 DEF Crash, UsedInv, Later
<1>10. CASE Generate \/ Register \/ EvaluateConstant \/ EmitGlobal \/ EmitBody \/ EmitNothing
  <2>1. pass \in Later /\ pass' \in Later
    BY <1>10, WhoGenerates
  <2> QED
    BY <1>3, <2>1 DEF Later
<1>11. CASE UNCHANGED <<vars, irVars>>
  <2>1. pass' = pass /\ file' = file /\ decl' = decl
    BY <1>11 DEF vars
  <2>2. \A g, d : Begun(g, d)' <=> Begun(g, d)
    BY <2>1 DEF Begun
  <2>3. CASE pass = "bodies" \/ pass \in Later
    BY <1>3, <2>1, <2>2, <2>3
  <2>4. CASE ~(pass = "bodies" \/ pass \in Later)
    BY <2>1, <2>4 DEF UsedInv
  <2> QED
    BY <2>3, <2>4
<1> QED
  BY <1>5, <1>6, <1>7, <1>8, <1>9, <1>10, <1>11, CheckStepKinds DEF IrNext

\* Outside functions a name denotes modules and declarations of that name.
LEMMA FileLevelIds ==
  ASSUME PlaceInv, NEW g \in DOMAIN prog, NEW n, NEW y \in FileLevel(g, n)
  PROVE  \/ \E f \in DOMAIN prog : y = <<f>>
         \/ \E f \in DOMAIN prog : \E d \in DOMAIN AllDecls(f) :
              y = <<f, d>> /\ AllDecls(f)[d].kind # "importa" /\ AllDecls(f)[d].name = n
<1>1. ASSUME NEW m, y \in ModuleNamed(m)
      PROVE  \E f \in DOMAIN prog : y = <<f>>
  BY <1>1 DEF ModuleNamed
<1>2. ASSUME NEW f \in DOMAIN prog, y \in Own(f, n)
      PROVE  \E d \in DOMAIN AllDecls(f) :
               y = <<f, d>> /\ AllDecls(f)[d].kind # "importa" /\ AllDecls(f)[d].name = n
  BY <1>2 DEF Own, AllDecls
<1>3. ASSUME NEW m, y \in Public(n, ModuleNamed(m))
      PROVE  \E f \in DOMAIN prog : y \in Own(f, n)
  <2>1. PICK x \in ModuleNamed(m) : y \in Own(x[1], n)
    BY <1>3 DEF Public
  <2>2. PICK f \in DOMAIN prog : x = <<f>>
    BY <2>1 DEF ModuleNamed
  <2>3. x[1] = f
    BY <2>2
  <2> QED
    BY <2>1, <2>3
<1>4. \/ y \in Own(g, n) \/ (\E m : y \in ModuleNamed(m)) \/ (\E m : y \in Public(n, ModuleNamed(m)))
  BY DEF FileLevel
<1> QED
  BY <1>1, <1>2, <1>3, <1>4

LEMMA LongIds ==
  ASSUME NEW y, Len(y) > 2 \/ Len(y) = 2
  PROVE  y # NoDecl /\ \A f : y # <<f>>
<1>1. Len(<<>>) = 0 /\ \A f : Len(<<f>>) = 1
  OBVIOUS
<1>2. CASE Len(y) > 2
  BY <1>1, <1>2 DEF NoDecl
<1>3. CASE Len(y) = 2
  BY <1>1, <1>3 DEF NoDecl
<1> QED
  BY <1>2, <1>3

\* a is the name n without a module.
IsBare(a, n) == a.mod = "" /\ a.name = n

\* What the names of an initialiser denote, if they name a global.
LEMMA NameMeans ==
  ASSUME PlaceInv, UsesReachVisible, UsedInv, pass \in Later, Lists(globals, GlobalIds),
         UniqueNames, ReadsValues,
         NEW id \in GlobalIds, NEW a \in RefOperands(DeclOf(id).init),
         NEW n, IsBare(a, n), Named(globals, n) # {}
  PROVE  Denotes(id \o <<0>>, "", n) = {globals[Here(n)].id}
<1>1. PICK g \in DOMAIN prog : \E d \in DOMAIN AllDecls(g) :
        id = <<g, d>> /\ DeclOf(id) = AllDecls(g)[d] /\ IsGlobal(AllDecls(g)[d])
  BY DeclIds
<1>2. PICK d \in DOMAIN AllDecls(g) :
        id = <<g, d>> /\ DeclOf(id) = AllDecls(g)[d] /\ IsGlobal(AllDecls(g)[d])
  BY <1>1
<1>3. PICK at, bt : at = <<g, d, 0>> /\ bt = id \o <<0>>
  OBVIOUS
<1>4. pass # "bodies"
  BY DEF Later
<1>5. UsedAt(at, a)
  BY <1>2, <1>3, <1>4 DEF UsedInv
<1>6. PICK u \in uses : u.at = at /\ u.mod = "" /\ u.name = n
  BY <1>5 DEF UsedAt, IsBare
<1>7. at[1] = g /\ at[3] = 0 /\ bt[1] = g /\ bt[3] = 0
  BY <1>2, <1>3, OutsideAt
<1>8. Denotes(at, "", n) = FileLevel(g, n) /\ Denotes(bt, "", n) = FileLevel(g, n)
  BY <1>7 DEF Denotes, Unqualified
<1>9. PICK y : y = u.id
  OBVIOUS
<1>10. Len(y) > 2 \/ (Len(y) = 2 /\ DeclOf(y).kind \in {"sit", "lex", "actio"})
  BY <1>6, <1>9 DEF ReadsValues, IsLocal, IsVariable, IsFunction
<1>11. y # NoDecl /\ \A f : y # <<f>>
  <2>1. Len(y) > 2 \/ Len(y) = 2
    BY <1>10
  <2> QED
    BY <2>1, LongIds
<1>12. FileLevel(g, n) = {y}
  BY <1>6, <1>8, <1>9, <1>11 DEF UsesReachVisible
<1>13. y \in FileLevel(g, n)
  BY <1>12
<1>15. PICK f \in DOMAIN prog : \E e \in DOMAIN AllDecls(f) :
              y = <<f, e>> /\ AllDecls(f)[e].name = n
  <2>1. \/ \E f \in DOMAIN prog : y = <<f>>
        \/ \E f \in DOMAIN prog : \E e \in DOMAIN AllDecls(f) :
             y = <<f, e>> /\ AllDecls(f)[e].kind # "importa" /\ AllDecls(f)[e].name = n
    BY <1>13, FileLevelIds
  <2> QED
    BY <1>11, <2>1
<1>16. PICK e \in DOMAIN AllDecls(f) : y = <<f, e>> /\ AllDecls(f)[e].name = n
  BY <1>15
<1>17. Len(y) = 2 /\ DeclOf(y) = AllDecls(f)[e]
  BY <1>16 DEF DeclOf, AllDecls
<1>18. y \in LinkNames /\ DeclOf(y).name = n
  <2>1. IsGlobal(AllDecls(f)[e]) \/ IsActioDecl(AllDecls(f)[e])
    BY <1>10, <1>17 DEF IsGlobal, IsActioDecl
  <2> QED
    BY <1>16, <1>17, <2>1, DeclIds
<1>19. Here(n) \in DOMAIN globals /\ globals[Here(n)].name = n
  <2>1. Here(n) \in Named(globals, n)
    BY EntryIsNamed DEF Here, Lists
  <2> QED
    BY <2>1 DEF Named
<1>20. globals[Here(n)].id \in LinkNames /\ DeclOf(globals[Here(n)].id).name = n
  BY <1>19, DeclIds DEF Lists
<1>21. globals[Here(n)].id = y
  BY <1>18, <1>20 DEF UniqueNames
<1> QED
  BY <1>3, <1>8, <1>12, <1>21

\* Every global with data counts as constant by the text of the program.
GroundedInv ==
  pass \in IrPasses /\ UniqueNames /\ ReadsValues =>
    \A i \in DOMAIN globals : globals[i].data # {} => globals[i].id \in ConstantGlobals

LEMMA TextStays ==
  ASSUME UNCHANGED Checked
  PROVE  /\ UniqueNames' <=> UniqueNames
         /\ ReadsValues' <=> ReadsValues
         /\ ConstantGlobals' = ConstantGlobals
<1>1. prog' = prog /\ uses' = uses
  BY DEF Checked
<1>2. UniqueNames' <=> UniqueNames
  BY CheckedStays
<1>3. ReadsValues' <=> ReadsValues
  BY <1>1 DEF ReadsValues, IsVariable, IsFunction, DeclOf, IsLocal
<1>4. \A at, n : Denotes(at, "", n)' = Denotes(at, "", n)
  BY <1>1, DenotesStays
<1>5. PICK G : G = GlobalIds
  OBVIOUS
<1>6. GlobalIds' = G /\ \A id : DeclOf(id)' = DeclOf(id)
  BY <1>1, <1>5, IdsStay
<1>7. \A id, S : ConstantGiven(id, S)' <=> ConstantGiven(id, S)
  <2> TAKE id, S
  <2>1. PICK e, at : e = DeclOf(id).init /\ at = id \o <<0>>
    OBVIOUS
  <2>2. DeclOf(id)'.init = e
    BY <1>6, <2>1
  <2>3. ConstantGiven(id, S) <=> /\ e.op \notin {"none", "call"}
                                 /\ \A a \in RefOperands(e) : a.mod = "" /\ Denotes(at, "", a.name) \cap S # {}
    BY <2>1 DEF ConstantGiven
  <2>4. ConstantGiven(id, S)' <=> /\ e.op \notin {"none", "call"}
                                 /\ \A a \in RefOperands(e) : a.mod = "" /\ Denotes(at, "", a.name)' \cap S # {}
    BY <2>1, <2>2 DEF ConstantGiven, RefOperands
  <2> QED
    BY <1>4, <2>3, <2>4
<1>8. ConstantGlobals = {id \in G : \A S \in SUBSET G :
                           (\A x \in G : ConstantGiven(x, S) => x \in S) => id \in S}
  BY <1>5 DEF ConstantGlobals
<1>9. ConstantGlobals' = {id \in G : \A S \in SUBSET G :
                            (\A x \in G : ConstantGiven(x, S)' => x \in S) => id \in S}
  BY <1>6 DEF ConstantGlobals
<1>10. ConstantGlobals' = ConstantGlobals
  BY <1>7, <1>8, <1>9
<1> QED
  BY <1>2, <1>3, <1>10

\* An initialiser with a value has operands with values, which are constant.
LEMMA ValueIsGrounded ==
  ASSUME PlaceInv, UsesReachVisible, UsedInv, pass \in Later, Lists(globals, GlobalIds),
         UniqueNames, ReadsValues,
         \A i \in DOMAIN globals : globals[i].data # {} => globals[i].id \in ConstantGlobals,
         NEW id \in GlobalIds, DeclOf(id).init.op # "none", Constant(DeclOf(id).init) # {}
  PROVE  id \in ConstantGlobals
<1>1. PICK e : e = DeclOf(id).init
  OBVIOUS
<1>2. ProperExpr(e) /\ e.op # "none" /\ Constant(e) # {}
  BY <1>1, GlobalIsProper
<1>3. ASSUME NEW a \in RefOperands(e)
      PROVE  OperandValue(a) # {} /\ a.op = "ref"
  <2>1. CASE e.op = "sum"
    <3>1. PICK x, y : x = e.left /\ y = e.right
      OBVIOUS
    <3>2. (a = x \/ a = y) /\ a.op = "ref"
      BY <1>3, <2>1, <3>1 DEF RefOperands
    <3>3. Constant(e) = {v + w : v \in OperandValue(x), w \in OperandValue(y)}
      BY <2>1, <3>1 DEF Constant
    <3> QED
      BY <1>2, <3>2, <3>3
  <2>2. CASE e.op = "call"
    BY <1>2, <2>2 DEF Constant
  <2>3. CASE ProperOperand(e)
    <3>1. a = e /\ a.op = "ref"
      BY <1>3, <2>3 DEF RefOperands, ProperOperand
    <3>2. Constant(e) = OperandValue(e)
      BY <2>3 DEF Constant, ProperOperand
    <3> QED
      BY <1>2, <3>1, <3>2
  <2> QED
    BY <1>2, <2>1, <2>2, <2>3 DEF ProperExpr
<1>4. ASSUME NEW a \in RefOperands(e)
      PROVE  /\ a.mod = ""
             /\ \E y \in ConstantGlobals : Denotes(id \o <<0>>, "", a.name) = {y}
  <2>1. PICK n : n = a.name
    OBVIOUS
  <2>2. /\ a.mod = "" /\ Named(globals, n) # {} /\ globals[Here(n)].data # {}
    BY <1>3, <1>4, <2>1 DEF OperandValue
  <2>3. IsBare(a, n)
    BY <2>1, <2>2 DEF IsBare
  <2>4. Denotes(id \o <<0>>, "", n) = {globals[Here(n)].id}
    BY <1>1, <1>4, <2>2, <2>3, NameMeans
  <2>5. Here(n) \in DOMAIN globals
    <3>1. Here(n) \in Named(globals, n)
      BY <2>2, EntryIsNamed DEF Here, Lists
    <3> QED
      BY <3>1 DEF Named
  <2> QED
    BY <2>1, <2>2, <2>4, <2>5
<1>5. e.op \notin {"none", "call"}
  BY <1>2 DEF Constant
<1>6. ASSUME NEW S \in SUBSET GlobalIds, \A x \in GlobalIds : ConstantGiven(x, S) => x \in S
      PROVE  id \in S
  <2>1. ConstantGlobals \subseteq S
    BY <1>6 DEF ConstantGlobals
  <2>2. \A a \in RefOperands(e) : a.mod = "" /\ Denotes(id \o <<0>>, "", a.name) \cap S # {}
    BY <1>4, <2>1
  <2>3. ConstantGiven(id, S)
    BY <1>1, <1>5, <2>2 DEF ConstantGiven
  <2> QED
    BY <1>6, <2>3
<1> QED
  BY <1>6 DEF ConstantGlobals

LEMMA GroundedStep ==
  ASSUME PlaceInv, UsesReachVisible, UsedInv, ListsInv, DataInv, GroundedInv, [IrNext]_<<vars, irVars>>
  PROVE  GroundedInv'
<1>1. CASE CheckStep
  BY <1>1, CheckPasses DEF GroundedInv
<1>2. PICK e : e = <<>>
  OBVIOUS
<1>3. CASE Generate
  <2>1. globals' = e /\ DOMAIN e = {}
    BY <1>2, <1>3 DEF Generate, irVars, ListsInv, IrPasses
  <2> QED
    BY <2>1 DEF GroundedInv
\* It is enough that what is new is grounded.
<1>4. ASSUME UNCHANGED Checked, pass \in IrPasses,
             UniqueNames /\ ReadsValues => \A i \in DOMAIN globals' : globals'[i].data # {} =>
               globals'[i].id \in ConstantGlobals
      PROVE  GroundedInv'
  <2>1. PICK C, lg : C = ConstantGlobals /\ lg = globals'
    OBVIOUS
  <2>2. (UniqueNames' <=> UniqueNames) /\ (ReadsValues' <=> ReadsValues) /\ ConstantGlobals' = C
    BY <1>4, <2>1, TextStays
  <2>3. UniqueNames /\ ReadsValues => \A i \in DOMAIN lg : lg[i].data # {} => lg[i].id \in C
    BY <1>4, <2>1
  <2> QED
    BY <2>1, <2>2, <2>3 DEF GroundedInv
<1>5. pass \in IrPasses /\ UniqueNames /\ ReadsValues =>
        \A i \in DOMAIN globals : globals[i].data # {} => globals[i].id \in ConstantGlobals
  BY DEF GroundedInv
<1>6. CASE Register
  <2>1. pass = "register" /\ UNCHANGED Checked /\ prog' = prog
    BY <1>6 DEF Register, Checked
  <2>2. PICK lg, x, id : lg = globals' /\ x = Decl /\ id = <<file, decl>>
    OBVIOUS
  <2>3. lg = IF IsGlobal(x) THEN Append(globals, [name |-> x.name, id |-> id, data |-> {}]) ELSE globals
    BY <1>6, <2>2 DEF Register
  <2>4. IsSeq(globals)
    BY <2>1 DEF ListsInv, IrPasses, Lists
  <2>5. ASSUME NEW i \in DOMAIN lg, lg[i].data # {}
        PROVE  i \in DOMAIN globals /\ lg[i] = globals[i]
    <3>1. CASE IsGlobal(x)
      <4>1. PICK r : r = [name |-> x.name, id |-> id, data |-> {}]
        OBVIOUS
      <4>2. PICK n \in Nat : n = Len(globals) /\ DOMAIN globals = 1 .. n
        BY <2>4, SeqDomain
      <4>3. lg = Append(globals, r) /\ r.data = {}
        BY <2>3, <3>1, <4>1
      <4>4. IsSeq(lg) /\ Len(lg) = n + 1 /\ lg[n + 1] = r /\ \A k \in 1 .. n : lg[k] = globals[k]
        BY <2>4, <4>2, <4>3, AppendIs
      <4>5. i \in DOMAIN globals \/ i = n + 1
        BY <2>5, <4>2, <4>4, SeqDomain
      <4> QED
        BY <2>5, <4>2, <4>3, <4>4, <4>5
    <3>2. CASE ~IsGlobal(x)
      BY <2>3, <2>5, <3>2
    <3> QED
      BY <3>1, <3>2
  <2> QED
    BY <1>4, <1>5, <2>1, <2>2, <2>5 DEF IrPasses
<1>7. CASE EvaluateConstant
  <2>1. PICK value :
        /\ value = IF IsGlobal(Decl) /\ Decl.init.op # "none" /\ Unevaluated(Here(Decl.name))
                   THEN Constant(Decl.init) ELSE {}
        /\ \A i \in DOMAIN globals :
             globals'[i] = [name |-> globals[i].name, id |-> globals[i].id,
                            data |-> IF value # {} /\ i = Here(Decl.name)
                                     THEN value ELSE globals[i].data]
    BY <1>7, EvaluateWrites
  <2>2. /\ pass = "constants" /\ UNCHANGED Checked /\ Lists(globals, GlobalIds)
        /\ DOMAIN globals' = DOMAIN globals
    BY <1>7, EvaluateWrites
  <2>3. PICK id, x, h, lg : id = <<file, decl>> /\ x = Decl /\ h = Here(x.name) /\ lg = globals'
    OBVIOUS
  <2>4. ASSUME UniqueNames, ReadsValues, NEW i \in DOMAIN globals, lg[i].data # {}
        PROVE  lg[i].id \in ConstantGlobals
    <3>1. PICK y, w : y = globals[i] /\ w = IF value # {} /\ i = h THEN value ELSE y.data
      OBVIOUS
    <3>2. lg[i] = [name |-> y.name, id |-> y.id, data |-> w]
      BY <2>1, <2>3, <3>1
    <3>3. lg[i].id = y.id /\ lg[i].data = w
      BY <3>2
    <3>4. CASE value # {} /\ i = h
      <4>1. IsGlobal(x) /\ x.init.op # "none" /\ Constant(x.init) # {}
        BY <2>1, <2>3, <3>4
      <4>2. id \in GlobalIds /\ DeclOf(id) = x
        BY <2>3, <4>1, AtHand, DeclIds
      <4>3. globals[h].id = id
        BY <2>2, <2>3, <2>4, <4>2, GlobalIsFound
      <4>4. pass \in Later /\ \A j \in DOMAIN globals : globals[j].data # {} => globals[j].id \in ConstantGlobals
        BY <1>5, <2>2, <2>4 DEF Later, IrPasses
      <4>5. id \in ConstantGlobals
        BY <2>2, <2>4, <4>1, <4>2, <4>4, ValueIsGrounded
      <4> QED
        BY <3>1, <3>3, <3>4, <4>3, <4>5
    <3>5. CASE ~(value # {} /\ i = h)
      <4>1. y.data # {}
        BY <2>4, <3>1, <3>3, <3>5
      <4> QED
        BY <1>5, <2>2, <2>4, <3>1, <3>3, <4>1 DEF IrPasses
    <3> QED
      BY <3>4, <3>5
  <2> QED
    BY <1>4, <2>2, <2>3, <2>4 DEF IrPasses
<1>8. CASE EmitGlobal \/ EmitBody \/ EmitNothing
  <2>1. pass = "emit" /\ UNCHANGED Checked /\ globals' = globals
    BY <1>8, WhoEmits
  <2> QED
    BY <1>4, <1>5, <2>1 DEF IrPasses
<1>9. CASE UNCHANGED <<vars, irVars>>
  <2>1. UNCHANGED Checked /\ globals' = globals /\ pass' = pass
    BY <1>9 DEF vars, irVars, Checked
  <2>2. CASE pass \in IrPasses
    BY <1>4, <1>5, <2>1, <2>2
  <2>3. CASE pass \notin IrPasses
    BY <2>1, <2>3 DEF GroundedInv
  <2> QED
    BY <2>2, <2>3
<1> QED
  BY <1>1, <1>3, <1>6, <1>7, <1>8, <1>9 DEF IrNext

\* The value found for an operand is the one its name means.
LEMMA OperandMeans ==
  ASSUME PlaceInv, UsesReachVisible, UsedInv, pass \in Later, Lists(globals, GlobalIds),
         UniqueNames, ReadsValues,
         NEW id \in GlobalIds, NEW a, ProperOperand(a), OperandValue(a) # {},
         a.op = "ref" => a \in RefOperands(DeclOf(id).init)
  PROVE  Meaning(id, a) = OperandValue(a)
<1>1. CASE a.op \in {"int", "float"}
  BY <1>1 DEF Meaning, OperandValue
<1>2. CASE a.op = "ref"
  <2>1. PICK n, h : n = a.name /\ h = Here(n)
    OBVIOUS
  <2>2. a.mod = "" /\ Named(globals, n) # {} /\ OperandValue(a) = globals[h].data
    BY <1>2, <2>1 DEF OperandValue
  <2>3. IsBare(a, n)
    BY <2>1, <2>2 DEF IsBare
  <2>4. PICK y : y = globals[h].id
    OBVIOUS
  <2>5. Denotes(id \o <<0>>, "", n) = {y}
    BY <1>2, <2>1, <2>2, <2>3, <2>4, NameMeans
  <2>6. h \in DOMAIN globals
    <3>1. h \in Named(globals, n)
      BY <2>1, <2>2, EntryIsNamed DEF Here, Lists
    <3> QED
      BY <3>1 DEF Named
  <2>7. DataOf(y) = globals[h].data
    BY <2>4, <2>6, DataAreTheEntrys
  <2>8. Meaning(id, a) = UNION {DataOf(x) : x \in {y}}
    BY <1>2, <2>1, <2>5 DEF Meaning
  <2>9. UNION {DataOf(x) : x \in {y}} = DataOf(y)
    OBVIOUS
  <2> QED
    BY <2>2, <2>7, <2>8, <2>9
<1> QED
  BY <1>1, <1>2 DEF ProperOperand

LEMMA ExactFollows ==
  ASSUME PlaceInv, UsesReachVisible, UsedInv, ListsInv, DataInv, GroundedInv
  PROVE  ConstantsAreExact
<1> SUFFICES ASSUME pass \in {"emit", "done", "fatal"}, UniqueNames, ReadsValues, NEW id \in GlobalIds
             PROVE  LET e == DeclOf(id).init
                    IN  /\ (DataOf(id) # {}) <=> (id \in ConstantGlobals)
                        /\ DataOf(id) # {} =>
                             DataOf(id) = IF e.op = "sum"
                                          THEN {x + y : x \in Meaning(id, e.left), y \in Meaning(id, e.right)}
                                          ELSE Meaning(id, e)
  BY DEF ConstantsAreExact
<1>1. Lists(globals, GlobalIds) /\ pass \in Later
  BY DEF ListsInv, IrPasses, Entered, Later
<1>2. PICK i \in DOMAIN globals : globals[i].id = id
  BY <1>1 DEF Lists
<1>3. DataOf(id) = globals[i].data
  BY <1>1, <1>2, DataAreTheEntrys
<1>4. id \in ConstantGlobals => DataOf(id) # {}
  <2>1. PICK S : S = {x \in GlobalIds : DataOf(x) # {}}
    OBVIOUS
  <2>2. \A x \in GlobalIds : ConstantGiven(x, S) => x \in S
    BY <1>1, <2>1, DataIsClosed
  <2>3. id \in ConstantGlobals => id \in S
    BY <2>1, <2>2 DEF ConstantGlobals
  <2> QED
    BY <2>1, <2>3
<1>5. DataOf(id) # {} => id \in ConstantGlobals
  BY <1>2, <1>3 DEF GroundedInv, IrPasses
<1>6. PICK e : e = DeclOf(id).init
  OBVIOUS
<1>7. ASSUME DataOf(id) # {}
      PROVE  DataOf(id) = IF e.op = "sum"
                          THEN {x + y : x \in Meaning(id, e.left), y \in Meaning(id, e.right)}
                          ELSE Meaning(id, e)
  <2>1. e.op # "none" /\ DataOf(id) = Constant(e) /\ ProperExpr(e)
    BY <1>2, <1>3, <1>6, <1>7, GlobalIsProper DEF DataInv, GlobalData, IrPasses
  <2>2. CASE e.op = "sum"
    <3>1. PICK a, b : a = e.left /\ b = e.right /\ ProperOperand(a) /\ ProperOperand(b)
      BY <2>1, <2>2 DEF ProperExpr, ProperOperand
    <3>2. Constant(e) = {x + y : x \in OperandValue(a), y \in OperandValue(b)}
      BY <2>2, <3>1 DEF Constant
    <3>3. OperandValue(a) # {} /\ OperandValue(b) # {}
      BY <1>7, <2>1, <3>2
    <3>4. RefOperands(e) = {c \in {a, b} : c.op = "ref"}
      BY <2>2, <3>1 DEF RefOperands
    <3>5. (a.op = "ref" => a \in RefOperands(DeclOf(id).init))
          /\ (b.op = "ref" => b \in RefOperands(DeclOf(id).init))
      BY <1>6, <3>4
    <3>6. Meaning(id, a) = OperandValue(a)
      BY <1>1, <3>1, <3>3, <3>5, OperandMeans
    <3>7. Meaning(id, b) = OperandValue(b)
      BY <1>1, <3>1, <3>3, <3>5, OperandMeans
    <3>8. DataOf(id) = {x + y : x \in Meaning(id, a), y \in Meaning(id, b)}
      BY <2>1, <3>2, <3>6, <3>7
    <3> QED
      BY <2>2, <3>1, <3>8
  <2>3. CASE e.op = "call"
    BY <1>7, <2>1, <2>3 DEF Constant
  <2>4. CASE ProperOperand(e)
    <3>1. Constant(e) = OperandValue(e)
      BY <2>4 DEF Constant, ProperOperand
    <3>2. RefOperands(e) = {c \in {e} : c.op = "ref"}
      BY <2>4 DEF RefOperands, ProperOperand
    <3>3. e.op = "ref" => e \in RefOperands(DeclOf(id).init)
      BY <1>6, <3>2
    <3>4. Meaning(id, e) = OperandValue(e)
      BY <1>1, <1>7, <2>1, <2>4, <3>1, <3>3, OperandMeans
    <3>5. e.op # "sum"
      BY <2>4 DEF ProperOperand
    <3> QED
      BY <2>1, <3>1, <3>4, <3>5
  <2> QED
    BY <2>1, <2>2, <2>3, <2>4 DEF ProperExpr
<1> QED
  BY <1>4, <1>5, <1>6, <1>7

\* Whatever the program, if its names are unique and its expressions read only
\* values: the rounds of constant evaluation end with data for exactly the
\* globals that depend on literals only, in whatever order and files they are
\* declared and circles excepted, and the data are the values of the
\* initialisers (ir_gen.c:1731-1764).
THEOREM ConstantsAreExactAlways ==
  IrSpec => []ConstantsAreExact
<1>1. IrInit => UsedInv /\ GroundedInv
  BY DEF IrInit, Init, UsedInv, GroundedInv, IrPasses, Later
<1>2. NamesInv /\ IrInv /\ UsedInv /\ GroundedInv /\ [IrNext]_<<vars, irVars>> => UsedInv' /\ GroundedInv'
  BY UsedStep, GroundedStep DEF NamesInv, IrInv
<1>3. NamesInv /\ IrInv /\ UsedInv /\ GroundedInv => ConstantsAreExact
  BY ExactFollows DEF NamesInv, IrInv
<1>4. IrSpec => [](UsedInv /\ GroundedInv)
  BY <1>1, <1>2, NamesInductive, IrInductive, PTL DEF IrSpec
<1> QED
  BY <1>3, <1>4, NamesInductive, IrInductive, PTL

-----------------------------------------------------------------------------
(* What names are in the generated code. *)

\* id is a declaration of file h named n, and type that of a function if it is one.
Shows(id, n, type, h) ==
  \E d \in DOMAIN AllDecls(h) :
    id = <<h, d>> /\ AllDecls(h)[d].name = n /\ (AllDecls(h)[d].kind = "actio" => IsActio(type))

IsSymbol(s) == s = [kind |-> s.kind, type |-> s.type, pub |-> s.pub, id |-> s.id, alias |-> s.alias]

\* A symbol found in file g under n is a module or a type, or a declaration of
\* that name: the file's own, or that of another file if it is a copy.
SymbolInv(g, n, s) ==
  /\ IsSymbol(s)
  /\ Len(s.id) = 2 => \E h \in DOMAIN prog : Shows(s.id, n, s.type, h) /\ (s.alias \/ h = g)

SymbolsInv == \A g \in DOMAIN prog : \A n \in DOMAIN scope[g] : SymbolInv(g, n, scope[g][n])

\* A new type, if the symbol had not that of a function, does no harm.
LEMMA RetypedSymbol ==
  ASSUME NEW g, NEW n, NEW s, SymbolInv(g, n, s), NEW t, NEW r, r = [s EXCEPT !.type = t],
         IsActio(s.type) => t = s.type
  PROVE  SymbolInv(g, n, r)
<1>1. r = [kind |-> s.kind, type |-> t, pub |-> s.pub, id |-> s.id, alias |-> s.alias]
  BY DEF SymbolInv, IsSymbol
<1>2. /\ IsSymbol(r) /\ r.id = s.id /\ r.alias = s.alias /\ r.type = t
  BY <1>1 DEF IsSymbol
<1> QED
  BY <1>2 DEF SymbolInv, Shows

LEMMA ForcedSymbols ==
  ASSUME NEW rs, NEW n \in DOMAIN scope[file], SymbolInv(file, n, scope[file][n])
  PROVE  SymbolInv(file, n, Forced(rs)[n])
<1>1. PICK met : met = UNION {Chain(Scopes, a) : a \in {sym \in {TypeSymbol(Scopes, r) : r \in rs} : IsPending(sym)}}
  OBVIOUS
<1>2. Forced(rs) = [m \in DOMAIN scope[file] |->
                      IF scope[file][m] \in met
                      THEN [scope[file][m] EXCEPT !.type = ResolvedAlias(Scopes, scope[file][m])]
                      ELSE scope[file][m]]
  BY <1>1 DEF Forced
<1>3. PICK s : s = scope[file][n]
  OBVIOUS
<1>4. CASE s \in met
  <2>1. PICK a : s \in Chain(Scopes, a)
    BY <1>1, <1>4
  <2>2. \A b : Chain(Scopes, b) \subseteq {scope[file][m] : m \in {m \in DOMAIN scope[file] : IsPending(scope[file][m])}}
    BY DEF Chain
  <2>3. PICK m \in DOMAIN scope[file] : IsPending(scope[file][m]) /\ s = scope[file][m]
    BY <2>1, <2>2
  <2>4. s.type = NoType
    BY <2>3 DEF IsPending
  <2>5. ~IsActio(s.type)
    BY <2>4 DEF IsActio, NoType
  <2>6. PICK t : t = ResolvedAlias(Scopes, s)
    OBVIOUS
  <2>7. Forced(rs)[n] = [s EXCEPT !.type = t]
    BY <1>2, <1>3, <1>4, <2>6
  <2> QED
    BY <1>3, <2>5, <2>7, RetypedSymbol
<1>5. CASE s \notin met
  BY <1>2, <1>3, <1>5
<1> QED
  BY <1>4, <1>5

\* The four actions that write a scope keep its symbols what they are.
LEMMA TypeNameSymbols ==
  ASSUME PlaceInv, CollectTypeNames
  PROVE  \A n \in DOMAIN scope'[file] : SymbolInv(file, n, scope'[file][n])
<1> DEFINE types == {d \in DOMAIN Decls : Decls[d].kind \in {"forma", "imago"}}
           names == {Decls[d].name : d \in types}
           FirstOf(n) == CHOOSE d \in {e \in types : Decls[e].name = n} :
                           \A e \in {e \in types : Decls[e].name = n} : d <= e
<1>1. scope' = [scope EXCEPT ![file] =
                  [n \in names |->
                     Symbol(Decls[FirstOf(n)].kind,
                            IF Decls[FirstOf(n)].kind = "forma" THEN <<"forma", n>> ELSE NoType,
                            Decls[FirstOf(n)].pub, <<file, FirstOf(n)>>)]]
  BY DEF CollectTypeNames
<1>2. /\ types = {d \in DOMAIN Decls : Decls[d].kind \in {"forma", "imago"}}
      /\ names = {Decls[d].name : d \in types}
      /\ \A n : FirstOf(n) = CHOOSE d \in {e \in types : Decls[e].name = n} :
                              \A e \in {e \in types : Decls[e].name = n} : d <= e
  OBVIOUS
<1> HIDE DEF types, names, FirstOf
<1>3. /\ file \in DOMAIN prog /\ scope = [f \in DOMAIN prog |-> scope[f]]
      /\ Len(Decls) \in Nat /\ DOMAIN Decls = 1 .. Len(Decls) /\ Decls = AllDecls(file)
  BY ProgramIsProper, DeclAtHand DEF PlaceInv
<1>4. scope'[file] = [n \in names |->
                     Symbol(Decls[FirstOf(n)].kind,
                            IF Decls[FirstOf(n)].kind = "forma" THEN <<"forma", n>> ELSE NoType,
                            Decls[FirstOf(n)].pub, <<file, FirstOf(n)>>)]
  BY <1>1, <1>3
<1>5. ASSUME NEW n \in names PROVE SymbolInv(file, n, scope'[file][n])
  <2>1. PICK U : U = {e \in types : Decls[e].name = n}
    OBVIOUS
  <2>2. U # {} /\ U \in SUBSET Nat
    BY <1>2, <1>3, <1>5, <2>1
  <2>3. FirstOf(n) = Least(U)
    BY <1>2, <2>1 DEF Least
  <2>4. PICK d : d = FirstOf(n)
    OBVIOUS
  <2>5. d \in U
    BY <2>2, <2>3, <2>4, LeastIsMember
  <2>6. d \in DOMAIN AllDecls(file) /\ AllDecls(file)[d].name = n /\ AllDecls(file)[d].kind # "actio"
    BY <1>2, <1>3, <2>1, <2>5
  <2>7. PICK t : t = IF Decls[d].kind = "forma" THEN <<"forma", n>> ELSE NoType
    OBVIOUS
  <2>8. scope'[file][n] = Symbol(Decls[d].kind, t, Decls[d].pub, <<file, d>>)
    BY <1>4, <1>5, <2>4, <2>7
  <2>9. PICK s, k, p, id : s = scope'[file][n] /\ k = Decls[d].kind /\ p = Decls[d].pub /\ id = <<file, d>>
    OBVIOUS
  <2>10. IsSymbol(s) /\ s.id = id /\ s.type = t /\ s.alias = FALSE
    <3>1. s = Symbol(k, t, p, id)
      BY <2>8, <2>9
    <3> QED
      BY <3>1 DEF Symbol, IsSymbol
  <2>11. Shows(s.id, n, s.type, file)
    BY <2>6, <2>9, <2>10 DEF Shows
  <2> QED
    BY <1>3, <2>9, <2>10, <2>11 DEF SymbolInv
<1> QED
  BY <1>4, <1>5

LEMMA DeclarationSymbols ==
  ASSUME PlaceInv, SymbolsInv, CollectDeclaration
  PROVE  \A n \in DOMAIN scope'[file] : SymbolInv(file, n, scope'[file][n])
<1>1. file \in DOMAIN prog /\ scope = [f \in DOMAIN prog |-> scope[f]]
  BY DEF PlaceInv
<1>2. \A rs : /\ DOMAIN Forced(rs) = DOMAIN scope[file]
              /\ \A n \in DOMAIN scope[file] : SymbolInv(file, n, Forced(rs)[n])
  BY <1>1, ForcedKeeps, ForcedSymbols DEF SymbolsInv
<1>3. CASE Decl.kind \in {"sit", "lex", "actio"}
  <2>1. PICK type, forced, sym :
          /\ scope' = [scope EXCEPT ![file] = Define(forced, Decl.name, sym)]
          /\ forced = Forced(RefsOf(Decl))
          /\ sym = Symbol(Decl.kind, type, Decl.pub, <<file, decl>>)
          /\ Decl.kind = "actio" =>
               type = <<"actio", ResolveType(Scopes, Decl.type),
                        [i \in DOMAIN Decl.params |-> ResolveType(Scopes, Params(Decl)[i])]>>
    BY <1>3 DEF CollectDeclaration
  <2>2. Decl.kind = "actio" => IsActio(type)
    BY <2>1 DEF IsActio
  <2>3. PICK defined : defined = Define(forced, Decl.name, sym)
    OBVIOUS
  <2>4. scope'[file] = defined
    BY <1>1, <2>1, <2>3
  <2>5. defined = [m \in DOMAIN forced \cup {Decl.name} |-> IF m \in DOMAIN forced THEN forced[m] ELSE sym]
    BY <2>3, DefineIs
  <2>6. decl \in DOMAIN AllDecls(file) /\ AllDecls(file)[decl] = Decl
    BY <1>3, DeclAtHand
  <2>7. SymbolInv(file, Decl.name, sym)
    <3>0. PICK k, p, id : k = Decl.kind /\ p = Decl.pub /\ id = <<file, decl>>
      OBVIOUS
    <3>1. IsSymbol(sym) /\ sym.id = <<file, decl>> /\ sym.type = type
      <4>1. sym = Symbol(k, type, p, id)
        BY <2>1, <3>0
      <4> QED
        BY <3>0, <4>1 DEF Symbol, IsSymbol
    <3>2. Shows(sym.id, Decl.name, sym.type, file)
      BY <2>2, <2>6, <3>1 DEF Shows
    <3> QED
      BY <1>1, <3>1, <3>2 DEF SymbolInv
  <2>8. ASSUME NEW n \in DOMAIN defined PROVE SymbolInv(file, n, defined[n])
    <3>1. CASE n \in DOMAIN forced
      BY <1>2, <2>1, <2>5, <2>8, <3>1
    <3>2. CASE n \notin DOMAIN forced
      BY <2>5, <2>7, <2>8, <3>2
    <3> QED
      BY <3>1, <3>2
  <2> QED
    BY <2>4, <2>8
<1>4. CASE Decl.kind \notin {"sit", "lex", "actio"}
  <2>1. PICK rs : scope' = [scope EXCEPT ![file] = Forced(rs)]
    BY <1>4 DEF CollectDeclaration
  <2>2. scope'[file] = Forced(rs)
    BY <1>1, <2>1
  <2> QED
    BY <1>2, <2>2
<1> QED
  BY <1>3, <1>4

LEMMA AliasSymbol ==
  ASSUME NEW g, NEW h \in DOMAIN prog, NEW n, NEW s, SymbolInv(h, n, s), NEW r, r = Alias(s)
  PROVE  SymbolInv(g, n, r)
<1>1. r = [kind |-> s.kind, type |-> s.type, pub |-> FALSE, id |-> s.id, alias |-> TRUE]
  BY DEF SymbolInv, IsSymbol, Alias
<1>2. IsSymbol(r) /\ r.id = s.id /\ r.type = s.type /\ r.alias = TRUE
  BY <1>1 DEF IsSymbol
<1> QED
  BY <1>2 DEF SymbolInv

\* What a module has under a name is a symbol of its scope.
LEMMA MemberIs ==
  ASSUME NEW m, NEW n, NEW s, s = Member(m, n), s # NoSymbol
  PROVE  m.kind = "module" /\ n \in DOMAIN scope[m.id[1]] /\ s = scope[m.id[1]][n]
<1>1. PICK sym : sym = IF m.kind = "module" THEN Find(scope[m.id[1]], n) ELSE NoSymbol
  OBVIOUS
<1>2. s = IF sym.pub THEN sym ELSE NoSymbol
  BY <1>1 DEF Member
<1>3. s = sym /\ m.kind = "module"
  BY <1>1, <1>2
<1> QED
  BY <1>1, <1>3 DEF Find

LEMMA ImportSymbols ==
  ASSUME PlaceInv, UniverseInv, SymbolsInv, ImportDeclaration
  PROVE  \A n \in DOMAIN scope'[file] : SymbolInv(file, n, scope'[file][n])
<1>1. file \in DOMAIN prog /\ scope = [f \in DOMAIN prog |-> scope[f]]
  BY DEF PlaceInv
<1>2. ASSUME NEW sc, \A n \in DOMAIN sc : SymbolInv(file, n, sc[n]),
             scope'[file] = Completed(scope[file], sc)
      PROVE  \A n \in DOMAIN scope'[file] : SymbolInv(file, n, scope'[file][n])
  <2>1. scope'[file] = [n \in DOMAIN scope[file] \cup DOMAIN sc |->
                          IF n \in DOMAIN scope[file] THEN scope[file][n] ELSE sc[n]]
    BY <1>2, CompletedKeeps
  <2> QED
    BY <1>1, <1>2, <2>1 DEF SymbolsInv
<1>3. ASSUME scope'[file] = scope[file]
      PROVE  \A n \in DOMAIN scope'[file] : SymbolInv(file, n, scope'[file][n])
  BY <1>1, <1>3 DEF SymbolsInv
<1>4. CASE Decl.kind # "importa"
  BY <1>3, <1>4 DEF ImportDeclaration
<1>5. CASE Decl.kind = "importa"
  <2>1. PICK m, items, from : /\ m = Find(universe, from) /\ from = Decl.from
                              /\ items = {Decl.items[i] : i \in DOMAIN Decl.items}
    OBVIOUS
  <2>2. PICK brought, self : /\ brought = [n \in {n \in items : Member(m, n) # NoSymbol} |-> Alias(Member(m, n))]
                             /\ self = [m EXCEPT !.pub = FALSE]
    OBVIOUS
  <2>3. scope'[file] = IF m = NoSymbol THEN scope[file]
                       ELSE IF items = {} THEN Define(scope[file], from, self)
                       ELSE Completed(scope[file], brought)
    BY <1>1, <1>5, <2>1, <2>2 DEF ImportDeclaration
  <2>4. PICK one : one = [n \in {from} |-> self]
    OBVIOUS
  <2>5. Define(scope[file], from, self) = Completed(scope[file], one)
    BY <2>4 DEF Define
  <2>6. ASSUME m # NoSymbol PROVE \E f \in DOMAIN prog : m = Symbol("module", Module, TRUE, <<f>>)
    <3>1. pass = "imports"
      BY DEF ImportDeclaration
    <3>2. ~Failing({"modules"})
      BY <3>1 DEF Failing
    <3>3. from \in DOMAIN universe /\ m = universe[from]
      BY <2>1, <2>6 DEF Find
    <3>4. PICK f \in SeenModules : prog[f].name = from
      BY <3>2, <3>3 DEF UniverseInv
    <3>5. f \in DOMAIN prog
      BY <3>1, <3>4 DEF SeenModules
    <3>6. universe[from] = Symbol("module", Module, TRUE, <<f>>)
      BY <3>2, <3>4 DEF UniverseInv
    <3> QED
      BY <3>3, <3>5, <3>6
  <2>7. ASSUME NEW f \in DOMAIN prog, m = Symbol("module", Module, TRUE, <<f>>)
        PROVE  SymbolInv(file, from, self) /\ m.id[1] = f
    <3>1. m = [kind |-> "module", type |-> Module, pub |-> TRUE, id |-> <<f>>, alias |-> FALSE]
      BY <2>7 DEF Symbol
    <3>2. self = [kind |-> "module", type |-> Module, pub |-> FALSE, id |-> <<f>>, alias |-> FALSE]
      BY <2>2, <3>1
    <3>3. IsSymbol(self) /\ self.id = <<f>>
      BY <3>2 DEF IsSymbol
    <3>4. Len(self.id) # 2
      BY <3>3
    <3>5. m.id[1] = f
      BY <3>1
    <3> QED
      BY <3>3, <3>4, <3>5 DEF SymbolInv
  <2>8. ASSUME m # NoSymbol, NEW n \in DOMAIN brought PROVE SymbolInv(file, n, brought[n])
    <3>1. PICK f \in DOMAIN prog : m.id[1] = f
      BY <2>6, <2>7, <2>8
    <3>2. PICK s : s = Member(m, n)
      OBVIOUS
    <3>3. s # NoSymbol /\ brought[n] = Alias(s)
      BY <2>2, <2>8, <3>2
    <3>4. n \in DOMAIN scope[f] /\ s = scope[f][n]
      BY <3>1, <3>2, <3>3, MemberIs
    <3>5. SymbolInv(f, n, s)
      BY <3>4 DEF SymbolsInv
    <3> QED
      BY <3>3, <3>5, AliasSymbol
  <2>9. m # NoSymbol => \A n \in DOMAIN one : SymbolInv(file, n, one[n])
    BY <2>4, <2>6, <2>7
  <2>10. CASE m = NoSymbol
    BY <1>3, <2>3, <2>10
  <2>11. CASE m # NoSymbol /\ items = {}
    BY <1>2, <2>3, <2>5, <2>9, <2>11
  <2>12. CASE m # NoSymbol /\ items # {}
    BY <1>2, <2>3, <2>8, <2>12
  <2> QED
    BY <2>10, <2>11, <2>12
<1> QED
  BY <1>4, <1>5

\* A global's type changes only if it had none.
LEMMA GlobalRetypes ==
  ASSUME PlaceInv, CheckGlobal
  PROVE  \A n \in DOMAIN scope[file] :
           \E t : /\ scope'[file][n] = scope[file][n] \/ scope'[file][n] = [scope[file][n] EXCEPT !.type = t]
                  /\ scope[file][n].type # NoType => t = scope[file][n].type
<1>1. file \in DOMAIN prog /\ scope = [f \in DOMAIN prog |-> scope[f]]
  BY DEF PlaceInv
<1>2. CASE scope' = scope
  BY <1>2
<1>3. CASE scope' # scope
  <2>1. PICK declared, t, name :
          /\ name = Decl.name
          /\ declared = Find(scope[file], name).type
          /\ t = VariableType(declared, Decl.init)
          /\ scope' = [scope EXCEPT ![file][name].type = t]
    BY <1>3 DEF CheckGlobal, Crash
  <2>2. scope'[file] = [scope[file] EXCEPT ![name] = [scope[file][name] EXCEPT !.type = t]]
    BY <1>1, <2>1
  <2>3. declared # NoType => t = declared
    BY <2>1 DEF VariableType
  <2>4. ASSUME NEW n \in DOMAIN scope[file]
        PROVE  \E x : /\ scope'[file][n] = scope[file][n] \/ scope'[file][n] = [scope[file][n] EXCEPT !.type = x]
                      /\ scope[file][n].type # NoType => x = scope[file][n].type
    <3>1. CASE n = name
      <4>1. declared = scope[file][n].type
        BY <2>1, <2>4, <3>1 DEF Find
      <4>2. scope'[file][n] = [scope[file][n] EXCEPT !.type = t]
        BY <2>2, <2>4, <3>1
      <4> QED
        BY <2>3, <4>1, <4>2
    <3>2. CASE n # name
      BY <2>2, <2>4, <3>2
    <3> QED
      BY <3>1, <3>2
  <2> QED
    BY <2>4
<1> QED
  BY <1>2, <1>3

LEMMA GlobalSymbols ==
  ASSUME PlaceInv, SymbolsInv, CheckGlobal
  PROVE  \A n \in DOMAIN scope'[file] : SymbolInv(file, n, scope'[file][n])
<1>1. file \in DOMAIN prog /\ DOMAIN scope'[file] = DOMAIN scope[file]
  BY GlobalKeeps DEF PlaceInv
<1>2. ASSUME NEW n \in DOMAIN scope[file] PROVE SymbolInv(file, n, scope'[file][n])
  <2>1. PICK t : /\ scope'[file][n] = scope[file][n] \/ scope'[file][n] = [scope[file][n] EXCEPT !.type = t]
                 /\ scope[file][n].type # NoType => t = scope[file][n].type
    BY <1>2, GlobalRetypes
  <2>2. PICK s, r : s = scope[file][n] /\ r = scope'[file][n]
    OBVIOUS
  <2>3. SymbolInv(file, n, s)
    BY <1>1, <1>2, <2>2 DEF SymbolsInv
  <2>4. ~IsActio(NoType)
    BY DEF IsActio, NoType
  <2>5. IsActio(s.type) => t = s.type
    BY <2>1, <2>2, <2>4
  <2>6. r = s \/ r = [s EXCEPT !.type = t]
    BY <2>1, <2>2
  <2>7. SymbolInv(file, n, r)
    BY <2>3, <2>5, <2>6, RetypedSymbol
  <2> QED
    BY <2>2, <2>7
<1> QED
  BY <1>1, <1>2

LEMMA SymbolsStep ==
  ASSUME PlaceInv, UniverseInv, SymbolsInv, [IrNext]_<<vars, irVars>>
  PROVE  SymbolsInv'
<1>1. prog' = prog
  BY UniverseStays
<1>2. \A g, n, s : SymbolInv(g, n, s)' <=> SymbolInv(g, n, s)
  BY <1>1 DEF SymbolInv, Shows, AllDecls
<1>3. ASSUME \A g \in DOMAIN prog : \A n \in DOMAIN scope'[g] : SymbolInv(g, n, scope'[g][n])
      PROVE  SymbolsInv'
  <2>1. ASSUME NEW g \in DOMAIN prog, NEW n \in DOMAIN scope'[g], NEW s, s = scope'[g][n]
        PROVE  SymbolInv(g, n, s)'
    BY <1>2, <1>3, <2>1
  <2> QED
    BY <1>1, <2>1 DEF SymbolsInv
<1>4. ASSUME scope' = scope PROVE SymbolsInv'
  BY <1>3, <1>4 DEF SymbolsInv
<1>5. ASSUME \A n \in DOMAIN scope'[file] : SymbolInv(file, n, scope'[file][n]),
             \A f \in DOMAIN prog : f # file => scope'[f] = scope[f]
      PROVE  SymbolsInv'
  BY <1>3, <1>5 DEF SymbolsInv
<1>6. CASE CollectTypeNames
  BY <1>5, <1>6, TypeNameSymbols, WhoAdvances
<1>7. CASE CollectDeclaration
  BY <1>5, <1>7, DeclarationSymbols, WhoAdvances
<1>8. CASE ImportDeclaration
  BY <1>5, <1>8, ImportSymbols, WhoAdvances
<1>9. CASE CheckGlobal
  <2>1. CASE pass' = "crashed"
    <3>1. pass = "bodies"
      BY <1>9 DEF CheckGlobal
    <3>2. CASE scope' = scope
      BY <1>4, <3>2
    <3>3. CASE scope' # scope
      <4>1. PICK t, name, error : /\ scope' = [scope EXCEPT ![file][name].type = t]
                                  /\ Advance(error)
        BY <1>9, <3>3 DEF CheckGlobal, Crash
      <4>2. \A f \in DOMAIN prog : f # file => scope'[f] = scope[f]
        BY <4>1 DEF PlaceInv
      <4> QED
        BY <1>5, <1>9, <4>2, GlobalSymbols
    <3> QED
      BY <3>2, <3>3
  <2>2. CASE pass' # "crashed"
    BY <1>5, <1>9, <2>2, GlobalSymbols, WhoAdvances
  <2> QED
    BY <2>1, <2>2
<1>10. CASE DeclareLocal \/ Evaluate \/ Return
  BY <1>4, <1>10 DEF DeclareLocal, Evaluate, Return, Crash, Follow
<1>11. CASE RegisterModule \/ LeaveFunction \/ SkipDeclaration
  BY <1>4, <1>11 DEF RegisterModule, LeaveFunction, SkipDeclaration
<1>12. CASE EnterFunction \/ OpenBlock \/ CloseBlock
  BY <1>4, <1>12 DEF EnterFunction, OpenBlock, CloseBlock, Follow
<1>13. CASE Generate \/ Register \/ EvaluateConstant \/ EmitGlobal \/ EmitBody \/ EmitNothing
  BY <1>4, <1>13, WhoGenerates DEF Checked
<1>14. CASE UNCHANGED <<vars, irVars>>
  BY <1>4, <1>14 DEF vars
<1> QED
  BY <1>6, <1>7, <1>8, <1>9, <1>10, <1>11, <1>12, <1>13, <1>14 DEF IrNext, CheckStep, Next

LEMMA NoSymbolIs ==
  Len(NoSymbol.id) # 2
<1>1. NoSymbol.id = <<>>
  BY DEF NoSymbol, Symbol, NoDecl
<1> QED
  BY <1>1

\* A symbol found with the id of a declaration is one of some file's scope.
LEMMA LookupIsInScope ==
  ASSUME PlaceInv, UniverseInv, LocalsInv, pass = "bodies",
         NEW n, NEW s, s = Lookup(Scopes, n), Len(s.id) = 2
  PROVE  \E h \in DOMAIN prog : n \in DOMAIN scope[h] /\ s = scope[h][n]
<1>11. file \in DOMAIN prog /\ stmt \in Nat /\ (stmt = 0 => locals = <<>>)
  BY DEF PlaceInv
<1>12. s # NoSymbol
  BY NoSymbolIs
<1>1. PICK r : r = Lookup(<<universe, scope[file]>> \o locals, n)
  OBVIOUS
<1>2. s = r
  BY <1>1 DEF Scopes
<1>3. IsSeq(locals) /\ Len(locals) \in Nat
  <2>1. CASE stmt = 0
    <3>1. IsSeq(<<>>)
      BY DEF IsSeq
    <3> QED
      BY <1>11, <2>1, <3>1 DEF IsSeq
  <2>2. CASE stmt # 0
    BY <1>11, <2>2 DEF LocalsInv, IsSeq
  <2> QED
    BY <2>1, <2>2
<1>4. /\ \A i \in 1 .. Len(locals) :
           n \in DOMAIN locals[i] /\ (\A j \in (i + 1) .. Len(locals) : n \notin DOMAIN locals[j]) =>
             r = locals[i][n]
      /\ (\A i \in 1 .. Len(locals) : n \notin DOMAIN locals[i]) =>
           r = IF n \in DOMAIN scope[file] THEN scope[file][n] ELSE Find(universe, n)
  BY <1>1, <1>3, LookupIs
<1>5. ASSUME NEW i \in 1 .. Len(locals), n \in DOMAIN locals[i]
      PROVE  Len(locals[i][n].id) = 4
  <2>1. stmt > 0
    <3>1. stmt # 0
      <4>1. Len(<<>>) = 0
        OBVIOUS
      <4> QED
        BY <1>11, <1>5, <4>1
    <3> QED
      BY <1>11, <3>1
  <2>2. HoldsParams(locals[1]) /\ \A j \in 2 .. Len(locals) : HoldsBlock(locals[j], j - 2)
    BY <2>1 DEF LocalsInv
  <2>3. \E k : locals[i][n].id = <<file, decl, "param", k>> \/ locals[i][n].id = <<file, decl, "local", k>>
    <3>1. CASE i = 1
      <4>1. IsLocalSymbol(locals[i][n], <<file, decl, "param", Least(ParamsNamed(n))>>)
        BY <1>5, <2>2, <3>1 DEF HoldsParams
      <4> QED
        BY <4>1 DEF IsLocalSymbol, Symbol
    <3>2. CASE i # 1
      <4>1. i \in 2 .. Len(locals)
        BY <1>3, <3>2
      <4>2. IsLocalSymbol(locals[i][n], <<file, decl, "local", Least(VisibleAt(i - 2, n))>>)
        BY <1>5, <2>2, <4>1 DEF HoldsBlock
      <4> QED
        BY <4>2 DEF IsLocalSymbol, Symbol
    <3> QED
      BY <3>1, <3>2
  <2>4. \A k : Len(<<file, decl, "param", k>>) = 4 /\ Len(<<file, decl, "local", k>>) = 4
    OBVIOUS
  <2> QED
    BY <2>3, <2>4
<1>6. PICK H : H = {i \in 1 .. Len(locals) : n \in DOMAIN locals[i]}
  OBVIOUS
<1>7. H = {}
  <2>1. CASE H # {}
    <3>1. PICK i \in H : \A j \in H : j <= i
      BY <1>3, <1>6, <2>1, GreatestBelow
    <3>2. ASSUME NEW j \in (i + 1) .. Len(locals) PROVE n \notin DOMAIN locals[j]
      <4>1. i \in 1 .. Len(locals)
        BY <1>6
      <4>2. j \in 1 .. Len(locals) /\ ~(j <= i)
        BY <1>3, <3>2, <4>1
      <4> QED
        BY <1>6, <3>1, <4>2
    <3>3. r = locals[i][n] /\ Len(locals[i][n].id) = 4
      BY <1>4, <1>5, <1>6, <3>2
    <3>4. Len(r.id) = 4
      BY <3>3
    <3> QED
      BY <1>2, <3>4
  <2> QED
    BY <2>1
<1>8. r = IF n \in DOMAIN scope[file] THEN scope[file][n] ELSE Find(universe, n)
  BY <1>4, <1>6, <1>7
<1>9. CASE n \in DOMAIN scope[file]
  BY <1>11, <1>2, <1>8, <1>9
<1>10. CASE n \notin DOMAIN scope[file]
  <2>1. s = Find(universe, n)
    BY <1>2, <1>8, <1>10
  <2>2. n \in DOMAIN universe /\ s = universe[n]
    BY <1>12, <2>1 DEF Find
  <2>3. ~Failing({"modules"}) /\ pass # "modules"
    BY DEF Failing
  <2>4. \E f \in DOMAIN prog : s.id = <<f>>
    <3>1. \E f \in DOMAIN prog : prog[f].name = n /\ universe[n].id = <<f>>
      BY <2>2, <2>3, ModuleIsFound
    <3> QED
      BY <2>2, <3>1
  <2>5. Len(s.id) = 1
    BY <2>4
  <2> QED
    BY <2>5
<1> QED
  BY <1>9, <1>10

LEMMA ResolvedIsInScope ==
  ASSUME PlaceInv, UniverseInv, OwnInv, ScopeInv, LocalsInv, pass = "bodies",
         stmt = 0 \/ stmt <= Len(Decl.body),
         NEW mod, NEW n, NEW s, s = Resolve(Scopes, mod, n)
  PROVE  Len(s.id) = 2 => \E h \in DOMAIN prog : n \in DOMAIN scope[h] /\ s = scope[h][n]
<1>1. SUFFICES ASSUME Len(s.id) = 2
               PROVE  \E h \in DOMAIN prog : n \in DOMAIN scope[h] /\ s = scope[h][n]
  OBVIOUS
<1>2. s # NoSymbol
  BY <1>1, NoSymbolIs
<1>3. CASE mod # ""
  <2>1. PICK m : m = Lookup(Scopes, mod)
    OBVIOUS
  <2>2. s = Member(m, n)
    BY <1>3, <2>1 DEF Resolve
  <2>3. m.kind = "module" /\ n \in DOMAIN scope[m.id[1]] /\ s = scope[m.id[1]][n]
    BY <1>2, <2>2, MemberIs
  <2>4. PICK ids : ids = Unqualified(file, decl, stmt, mod)
    OBVIOUS
  <2>5. Means(m, ids)
    BY <2>1, <2>4, LookupMeans
  <2>6. PICK h \in DOMAIN prog : m.id = <<h>>
    BY <2>3, <2>5 DEF Means
  <2>7. m.id[1] = h
    BY <2>6
  <2> QED
    BY <2>3, <2>7
<1>4. CASE mod = ""
  <2>1. s = Lookup(Scopes, n)
    BY <1>4 DEF Resolve
  <2> QED
    BY <1>1, <2>1, LookupIsInScope
<1> QED
  BY <1>3, <1>4

\* A use of a declaration has its name, and the type of the symbol it goes by,
\* unless that one had none at the time.
Refers(u) ==
  /\ Len(u.id) \in Nat
  /\ Len(u.id) = 2 =>
       \E h \in DOMAIN prog :
         /\ Shows(u.id, u.name, u.type, h)
         /\ u.alias \/ (u.name \in DOMAIN scope[h] /\ u.type \in {NoType, scope[h][u.name].type})

RefersInv ==
  /\ pass \in {"modules", "collect", "imports"} => uses = {}
  /\ \A u \in uses : Refers(u)

\* The callee of a call that is no error has the type of a function.
CalledInv ==
  /\ pass \in Later => ~hadError
  /\ \A u \in uses : u.called => hadError \/ IsActio(u.type)

LEMMA CalleeIsActio ==
  ASSUME NEW e, ProperExpr(e), NEW u \in Met(e), u.called
  PROVE  e.op = "call" /\ (IsActio(u.type) \/ \A x : ExprBad(e, x))
<1>1. PICK a \in Names(e) : u = [at |-> <<file, decl, stmt>>, mod |-> a.mod, name |-> a.name, id |-> Sym(a).id,
                                 type |-> Sym(a).type, alias |-> Sym(a).alias, called |-> a.op = "callee"]
  BY DEF Met
<1>2. a \in Operands(e) /\ a.op = "callee" /\ u.type = Sym(a).type
  BY <1>1 DEF Names
<1>3. CASE e.op = "call"
  <2>1. \A i \in DOMAIN e.args : ProperOperand(e.args[i])
    BY <1>3 DEF ProperExpr, ProperOperand
  <2>2. PICK c : c = [op |-> "callee", mod |-> e.mod, name |-> e.name]
    OBVIOUS
  <2>3. a = c \/ \E i \in DOMAIN e.args : a = e.args[i]
    BY <1>2, <1>3, <2>2 DEF Operands
  <2>4. a = c
    BY <1>2, <2>1, <2>3 DEF ProperOperand
  <2>5. a.mod = e.mod /\ a.name = e.name
    BY <2>2, <2>4
  <2>6. Sym(a) = Sym(e)
    BY <2>5 DEF Sym
  <2>7. ~IsActio(Sym(e).type) => \A x : ExprBad(e, x)
    BY <1>3 DEF ExprBad
  <2> QED
    BY <1>2, <1>3, <2>6, <2>7
<1>4. CASE e.op = "sum"
  BY <1>2, <1>4 DEF Operands, ProperExpr, ProperOperand
<1>5. CASE e.op = "none"
  BY <1>2, <1>5 DEF Operands
<1>6. CASE ProperOperand(e)
  BY <1>2, <1>6 DEF Operands, ProperOperand
<1> QED
  BY <1>3, <1>4, <1>5, <1>6 DEF ProperExpr

LEMMA MetRefers ==
  ASSUME PlaceInv, UniverseInv, OwnInv, ScopeInv, LocalsInv, SymbolsInv, pass = "bodies",
         stmt = 0 \/ stmt <= Len(Decl.body)
  PROVE  \A e : \A u \in Met(e) : Refers(u)
<1>0. \A m, n, s : s = Resolve(Scopes, m, n) =>
        (Len(s.id) = 2 => \E g \in DOMAIN prog : n \in DOMAIN scope[g] /\ s = scope[g][n])
  BY ResolvedIsInScope
<1>6. \A m, n : \E ids : Means(Resolve(Scopes, m, n), ids)
  BY ResolveMeans
<1> SUFFICES ASSUME NEW e, NEW u \in Met(e) PROVE Refers(u)
  OBVIOUS
<1>1. PICK a \in Names(e) : u = [at |-> <<file, decl, stmt>>, mod |-> a.mod, name |-> a.name, id |-> Sym(a).id,
                                 type |-> Sym(a).type, alias |-> Sym(a).alias, called |-> a.op = "callee"]
  BY DEF Met
<1>2. PICK s : s = Resolve(Scopes, a.mod, a.name)
  OBVIOUS
<1>3. u.name = a.name /\ u.id = s.id /\ u.type = s.type /\ u.alias = s.alias
  <2>1. Sym(a) = s
    BY <1>2 DEF Sym
  <2> QED
    BY <1>1, <2>1
<1>4. ASSUME Len(u.id) = 2
      PROVE  \E h \in DOMAIN prog :
               /\ Shows(u.id, u.name, u.type, h)
               /\ u.alias \/ (u.name \in DOMAIN scope[h] /\ u.type \in {NoType, scope[h][u.name].type})
  <2>1. PICK g \in DOMAIN prog : a.name \in DOMAIN scope[g] /\ s = scope[g][a.name]
    BY <1>0, <1>2, <1>3, <1>4
  <2>2. SymbolInv(g, a.name, s)
    BY <2>1 DEF SymbolsInv
  <2>3. PICK h \in DOMAIN prog : Shows(s.id, a.name, s.type, h) /\ (s.alias \/ h = g)
    BY <1>3, <1>4, <2>2 DEF SymbolInv
  <2>4. s.alias \/ (a.name \in DOMAIN scope[h] /\ s.type \in {NoType, scope[h][a.name].type})
    BY <2>1, <2>3
  <2> QED
    BY <1>3, <2>3, <2>4
<1>5. Len(u.id) \in Nat
  <2>1. PICK ids : Means(s, ids)
    BY <1>6, <1>2
  <2>2. \A h : Len(<<h>>) = 1
    OBVIOUS
  <2>3. Len(NoDecl) = 0
    BY DEF NoDecl
  <2>4. s.id = NoDecl \/ (\E h : s.id = <<h>>) \/ Len(s.id) \in {2, 4}
    BY <2>1 DEF Means
  <2>5. PICK y : y = s.id
    OBVIOUS
  <2>6. Len(y) \in {0, 1, 2, 4}
    BY <2>2, <2>3, <2>4, <2>5
  <2> QED
    BY <1>3, <2>5, <2>6
<1> QED
  BY <1>4, <1>5 DEF Refers

LEMMA RefersStays ==
  ASSUME PlaceInv, SymbolsInv, prog' = prog, scope' = scope \/ CheckGlobal, NEW u, Refers(u)
  PROVE  Refers(u)'
<1>1. \A id, n, t, h : Shows(id, n, t, h)' <=> Shows(id, n, t, h)
  BY DEF Shows, AllDecls
<1>2. CASE scope' = scope
  BY <1>1, <1>2 DEF Refers
<1>3. CASE CheckGlobal /\ scope' # scope
  <2>1. \A g \in DOMAIN prog : g # file => scope'[g] = scope[g]
    <3>1. PICK t, name : scope' = [scope EXCEPT ![file][name].type = t]
      BY <1>3 DEF CheckGlobal, Crash
    <3> QED
      BY <3>1 DEF PlaceInv
  <2>2. DOMAIN scope'[file] = DOMAIN scope[file] /\ file \in DOMAIN prog
    BY <1>3, GlobalKeeps DEF PlaceInv
  <2>3. ASSUME NEW h \in DOMAIN prog, NEW n \in DOMAIN scope[h], NEW t \in {NoType, scope[h][n].type}
        PROVE  n \in DOMAIN scope'[h] /\ t \in {NoType, scope'[h][n].type}
    <3>1. CASE h # file
      BY <2>1, <2>3, <3>1
    <3>2. CASE h = file
      <4>1. PICK x : /\ scope'[file][n] = scope[file][n] \/ scope'[file][n] = [scope[file][n] EXCEPT !.type = x]
                     /\ scope[file][n].type # NoType => x = scope[file][n].type
        BY <1>3, <2>3, <3>2, GlobalRetypes
      <4>2. PICK s, r : s = scope[file][n] /\ r = scope'[file][n]
        OBVIOUS
      <4>3. IsSymbol(s)
        BY <2>2, <2>3, <3>2, <4>2 DEF SymbolsInv, SymbolInv
      <4>4. r = s \/ r.type = x
        <5>1. CASE r = [s EXCEPT !.type = x]
          <6>1. r = [kind |-> s.kind, type |-> x, pub |-> s.pub, id |-> s.id, alias |-> s.alias]
            BY <4>3, <5>1 DEF IsSymbol
          <6> QED
            BY <6>1
        <5> QED
          BY <4>1, <4>2, <5>1
      <4>5. s.type = NoType \/ r.type = s.type
        BY <4>1, <4>2, <4>4
      <4> QED
        BY <2>2, <2>3, <3>2, <4>2, <4>5
    <3> QED
      BY <3>1, <3>2
  <2>4. ASSUME NEW h \in DOMAIN prog, Shows(u.id, u.name, u.type, h),
               u.alias \/ (u.name \in DOMAIN scope[h] /\ u.type \in {NoType, scope[h][u.name].type})
        PROVE  u.alias \/ (u.name \in DOMAIN scope'[h] /\ u.type \in {NoType, scope'[h][u.name].type})
    BY <2>3, <2>4
  <2> QED
    BY <1>1, <2>4 DEF Refers
<1> QED
  BY <1>2, <1>3

LEMMA RefersStep ==
  ASSUME PlaceInv, UniverseInv, OwnInv, ScopeInv, LocalsInv, SymbolsInv, RefersInv,
         [IrNext]_<<vars, irVars>>
  PROVE  RefersInv'
<1>1. prog' = prog
  BY UniverseStays
<1>2. ASSUME \A u \in uses' : Refers(u)', pass' \in {"modules", "collect", "imports"} => uses' = {}
      PROVE  RefersInv'
  BY <1>2 DEF RefersInv
<1>3. pass' \in {"modules", "collect", "imports"} => pass \in {"modules", "collect", "imports"} /\ uses' = uses
  <2>1. CASE RegisterModule \/ CollectTypeNames \/ CollectDeclaration \/ ImportDeclaration
    BY <2>1 DEF RegisterModule, CollectTypeNames, CollectDeclaration, ImportDeclaration
  <2>2. CASE UNCHANGED <<vars, irVars>>
    BY <2>2 DEF vars
  <2> QED
    BY <2>1, <2>2, PassKinds
<1>4. ASSUME uses' = {} PROVE \A u \in uses' : Refers(u)'
  BY <1>4
<1>5. ASSUME scope' = scope \/ CheckGlobal,
             \A u \in uses' : u \in uses \/ Refers(u)
      PROVE  RefersInv'
  <2>1. ASSUME NEW u \in uses' PROVE Refers(u)'
    <3>1. Refers(u)
      BY <1>5, <2>1 DEF RefersInv
    <3> QED
      BY <1>1, <1>5, <3>1, RefersStays
  <2>2. pass' \in {"modules", "collect", "imports"} => uses' = {}
    BY <1>3 DEF RefersInv
  <2> QED
    BY <1>2, <2>1, <2>2
<1>6. CASE CheckGlobal
  <2>1. pass = "bodies" /\ (uses' = uses \/ uses' = uses \cup Met(Decl.init))
    BY <1>6 DEF CheckGlobal, Crash
  <2>2. stmt = 0
    <3>1. Decl.kind # "actio"
      BY <1>6 DEF CheckGlobal
    <3> QED
      BY <2>1, <3>1 DEF PlaceInv
  <2> QED
    BY <1>5, <1>6, <2>1, <2>2, MetRefers
<1>7. CASE DeclareLocal \/ Evaluate \/ Return
  <2>1. scope' = scope /\ (uses' = uses \/ uses' = uses \cup Met(Stmt.init))
    BY <1>7 DEF DeclareLocal, Evaluate, Return, Crash, Follow
  <2>2. \A op : InBody(op) => pass = "bodies" /\ stmt <= Len(Decl.body)
    BY DEF InBody
  <2>3. InBody("sit") \/ InBody("eval") \/ InBody("redde")
    BY <1>7 DEF DeclareLocal, Evaluate, Return
  <2> QED
    BY <1>5, <2>1, <2>2, <2>3, MetRefers
<1>8. CASE RegisterModule \/ CollectTypeNames \/ CollectDeclaration \/ ImportDeclaration
  <2>1. uses = {} /\ uses' = uses
    BY <1>8 DEF RegisterModule, CollectTypeNames, CollectDeclaration, ImportDeclaration, RefersInv
  <2> QED
    BY <1>2, <2>1
<1>9. CASE EnterFunction \/ LeaveFunction \/ SkipDeclaration \/ OpenBlock \/ CloseBlock
  <2>1. scope' = scope /\ uses' = uses
    BY <1>9 DEF EnterFunction, LeaveFunction, SkipDeclaration, OpenBlock, CloseBlock, Follow
  <2> QED
    BY <1>5, <2>1
<1>10. CASE Generate \/ Register \/ EvaluateConstant \/ EmitGlobal \/ EmitBody \/ EmitNothing
  <2>1. scope' = scope /\ uses' = uses
    BY <1>10, WhoGenerates DEF Checked
  <2> QED
    BY <1>5, <2>1
<1>11. CASE UNCHANGED <<vars, irVars>>
  BY <1>5, <1>11 DEF vars
<1> QED
  BY <1>6, <1>7, <1>8, <1>9, <1>10, <1>11 DEF IrNext, CheckStep, Next

LEMMA CalledStep ==
  ASSUME PlaceInv, CalledInv, RefersInv, [IrNext]_<<vars, irVars>>
  PROVE  CalledInv'
<1>1. ASSUME hadError => hadError',
             \A u \in uses' : u \in uses \/ (u.called => hadError' \/ IsActio(u.type)),
             pass' \in Later => ~hadError'
      PROVE  CalledInv'
  BY <1>1 DEF CalledInv
<1>2. ASSUME NEW e, ProperExpr(e), uses' \in {uses, uses \cup Met(e)},
             e.op = "call" /\ uses' # uses /\ (\A x : ExprBad(e, x)) => hadError'
      PROVE  \A u \in uses' : u \in uses \/ (u.called => hadError' \/ IsActio(u.type))
  BY <1>2, CalleeIsActio
<1>3. CASE Generate \/ Register \/ EvaluateConstant \/ EmitGlobal \/ EmitBody \/ EmitNothing
  BY <1>1, <1>3, WhoGenerates DEF Checked, CalledInv
<1>4. CASE UNCHANGED <<vars, irVars>>
  BY <1>1, <1>4 DEF vars, CalledInv
<1>5. CASE Crash /\ pass = "bodies"
  BY <1>1, <1>5 DEF Crash, Later
<1>6. CASE \/ RegisterModule \/ CollectTypeNames \/ CollectDeclaration \/ ImportDeclaration
           \/ CheckGlobal /\ pass' # "crashed"
           \/ EnterFunction /\ stmt' = 0
           \/ LeaveFunction \/ SkipDeclaration
  <2>1. Moves /\ pass \in {"modules", "collect", "imports", "bodies"}
    BY <1>6, WhoAdvances
  <2>2. hadError => hadError'
    BY <2>1 DEF Moves
  <2>3. pass' \in Later => ~hadError'
    <3>1. pass' = pass \/ pass' = "rejected" \/ ~hadError'
      BY <2>1 DEF Moves
    <3> QED
      BY <2>1, <3>1 DEF Later
  <2>4. \A u \in uses' : u \in uses \/ (u.called => hadError' \/ IsActio(u.type))
    <3>1. CASE CheckGlobal /\ pass' # "crashed"
      <4>1. ProperExpr(Decl.init)
        <5>1. Decl.kind \in {"sit", "lex"}
          BY <3>1 DEF CheckGlobal
        <5> QED
          BY <5>1, DeclAtHand DEF ProperDeclaration
      <4>2. uses' = uses \cup Met(Decl.init) /\ \E declared : Advance(InitBad(declared, Decl.init))
        BY <3>1 DEF CheckGlobal, Crash
      <4>3. PICK e, declared : e = Decl.init /\ Advance(InitBad(declared, e))
        BY <4>2
      <4>4. e.op = "call" /\ (\A x : ExprBad(e, x)) => InitBad(declared, e)
        BY DEF InitBad
      <4>5. InitBad(declared, e) => hadError'
        BY <4>3 DEF Advance
      <4> QED
        BY <1>2, <4>1, <4>2, <4>3, <4>4, <4>5
    <3>2. CASE ~(CheckGlobal /\ pass' # "crashed")
      BY <1>6, <3>2 DEF RegisterModule, CollectTypeNames, CollectDeclaration, ImportDeclaration,
                        EnterFunction, LeaveFunction, SkipDeclaration
    <3> QED
      BY <3>1, <3>2
  <2> QED
    BY <1>1, <2>2, <2>3, <2>4
<1>7. CASE \/ EnterFunction /\ stmt' # 0
           \/ OpenBlock \/ CloseBlock
           \/ (DeclareLocal \/ Evaluate \/ Return) /\ pass' # "crashed"
  <2>1. /\ pass = "bodies" /\ pass' = pass /\ stmt \in Nat /\ stmt <= Len(Decl.body) /\ Len(Decl.body) \in Nat
        /\ Decl.kind = "actio" /\ ProperDeclaration(Decl)
    BY <1>7, WhoFollows
  <2>2. pass' \in Later => ~hadError'
    BY <2>1 DEF Later
  <2>3. CASE (EnterFunction /\ stmt' # 0) \/ OpenBlock \/ CloseBlock
    <3>1. uses' = uses /\ (hadError => hadError')
      BY <2>3 DEF EnterFunction, OpenBlock, CloseBlock, Follow, Advance
    <3> QED
      BY <1>1, <2>2, <3>1
  <2>4. CASE (DeclareLocal \/ Evaluate \/ Return) /\ pass' # "crashed"
    <3>1. PICK e : e = Stmt.init
      OBVIOUS
    <3>2. ProperExpr(e)
      <4>1. \A j \in DOMAIN Decl.body : ProperExpr(Decl.body[j].init)
        BY <2>1 DEF ProperDeclaration
      <4>2. InBody("sit") \/ InBody("eval") \/ InBody("redde")
        BY <2>4 DEF DeclareLocal, Evaluate, Return
      <4>3. stmt \in 1 .. Len(Decl.body)
        BY <2>1, <4>2 DEF InBody
      <4>4. IsSeq(Decl.body)
        BY <2>1 DEF ProperDeclaration
      <4>5. stmt \in DOMAIN Decl.body
        BY <4>3, <4>4 DEF IsSeq
      <4> QED
        BY <3>1, <4>1, <4>5 DEF Stmt
    <3>3. \E bad : /\ uses' = uses \cup Met(e) /\ Follow(bad)
                   /\ e.op = "call" /\ (\A x : ExprBad(e, x)) => bad
      <4>1. CASE DeclareLocal
        <5>1. PICK declared, bad : /\ uses' = uses \cup Met(e) /\ Follow(bad)
                                   /\ InitBad(declared, e) => bad
          BY <2>4, <3>1, <4>1 DEF DeclareLocal, Crash
        <5>2. e.op = "call" /\ (\A x : ExprBad(e, x)) => InitBad(declared, e)
          BY DEF InitBad
        <5> QED
          BY <5>1, <5>2
      <4>2. CASE Evaluate
        BY <2>4, <3>1, <4>2 DEF Evaluate, Crash
      <4>3. CASE Return
        BY <2>4, <3>1, <4>3 DEF Return, Crash
      <4> QED
        BY <2>4, <4>1, <4>2, <4>3
    <3>4. PICK bad : /\ uses' = uses \cup Met(e) /\ Follow(bad)
                     /\ e.op = "call" /\ (\A x : ExprBad(e, x)) => bad
      BY <3>3
    <3>5. (hadError => hadError') /\ (bad => hadError')
      BY <3>4 DEF Follow
    <3> QED
      BY <1>1, <1>2, <2>2, <3>2, <3>4, <3>5
  <2> QED
    BY <1>7, <2>3, <2>4
<1> QED
  BY <1>3, <1>4, <1>5, <1>6, <1>7, CheckStepKinds DEF IrNext

\* In the end a function has one body, its own.
HasBody(x) == x.bodies = IF pass \in {"emit", "done"} /\ Emitted(x.id) THEN <<x.id>> ELSE <<>>

BodiesInv ==
  pass \in {"register", "constants", "emit", "done"} /\ UniqueNames =>
    \A i \in DOMAIN functions : HasBody(functions[i])

LEMMA RegisterBodies ==
  ASSUME PlaceInv, ListsInv, BodiesInv, Register
  PROVE  BodiesInv'
<1>1. PICK lg, x, id : lg = functions' /\ x = Decl /\ id = <<file, decl>>
  OBVIOUS
<1>2. /\ pass = "register" /\ prog' = prog /\ Step
      /\ lg = IF IsActioDecl(x) /\ ~x.barbara
              THEN Append(functions, [name |-> x.name, id |-> id, bodies |-> <<>>]) ELSE functions
  BY <1>1 DEF Register, Checked
<1>3. pass' \in {"register", "constants"}
  BY <1>2, StepBegins DEF Onward, Around, NextIrPass
<1>4. IsSeq(functions)
  BY <1>2 DEF ListsInv, IrPasses, Lists
<1>5. UniqueNames' => UniqueNames
  BY <1>2, IdsStay DEF UniqueNames
<1>6. ASSUME UniqueNames PROVE \A i \in DOMAIN lg : lg[i].bodies = <<>>
  <2>1. \A i \in DOMAIN functions : functions[i].bodies = <<>>
    BY <1>2, <1>6 DEF BodiesInv, HasBody
  <2>2. CASE IsActioDecl(x) /\ ~x.barbara
    <3>1. PICK r : r = [name |-> x.name, id |-> id, bodies |-> <<>>]
      OBVIOUS
    <3>2. PICK n \in Nat : n = Len(functions) /\ DOMAIN functions = 1 .. n
      BY <1>4, SeqDomain
    <3>3. lg = Append(functions, r) /\ r.bodies = <<>>
      BY <1>2, <2>2, <3>1
    <3>4. IsSeq(lg) /\ Len(lg) = n + 1 /\ lg[n + 1] = r /\ \A i \in 1 .. n : lg[i] = functions[i]
      BY <1>4, <3>2, <3>3, AppendIs
    <3>5. \A i \in DOMAIN lg : i \in DOMAIN functions \/ i = n + 1
      BY <3>2, <3>4, SeqDomain
    <3> QED
      BY <2>1, <3>2, <3>3, <3>4, <3>5
  <2>3. CASE ~(IsActioDecl(x) /\ ~x.barbara)
    BY <1>2, <2>1, <2>3
  <2> QED
    BY <2>2, <2>3
<1> QED
  BY <1>1, <1>3, <1>5, <1>6 DEF BodiesInv, HasBody

LEMMA EmitBodies ==
  ASSUME PlaceInv, ListsInv, BodiesInv, EmitGlobal \/ EmitBody \/ EmitNothing
  PROVE  BodiesInv'
<1>1. /\ pass = "emit" /\ UNCHANGED Checked
      /\ (Step /\ pass' \in {"emit", "done"}) \/ pass' = "fatal"
  BY WhoEmits
<1>2. prog' = prog /\ Lists(functions, FunctionIds)
  BY <1>1 DEF ListsInv, Entered, IrPasses, Checked
<1>3. PICK fs, id : fs = functions' /\ id = <<file, decl>>
  OBVIOUS
<1> SUFFICES ASSUME UniqueNames, Step, pass' \in {"emit", "done"} PROVE BodiesInv'
  BY <1>1, CheckedStays DEF BodiesInv
<1>4. FunctionIds \subseteq LinkNames
  BY DeclIds
<1>5. \A i \in DOMAIN functions :
        /\ functions[i].id \in LinkNames
        /\ functions[i].bodies = IF Emitted(functions[i].id) THEN <<functions[i].id>> ELSE <<>>
  BY <1>1, <1>2, <1>4 DEF BodiesInv, HasBody, Lists
<1>6. \A y \in LinkNames : Emitted(y)' <=> Emitted(y) \/ y = id
  BY <1>1, <1>2, <1>3, EmittedStep
<1>7. ASSUME \A i \in DOMAIN fs : fs[i].bodies = IF Emitted(fs[i].id)' THEN <<fs[i].id>> ELSE <<>>
      PROVE  BodiesInv'
  BY <1>3, <1>7 DEF BodiesInv, HasBody
<1>8. CASE EmitBody
  <2>1. /\ IsActioDecl(Decl) /\ ~Decl.barbara /\ DOMAIN fs = DOMAIN functions
        /\ \A i \in DOMAIN functions :
              fs[i] = [name |-> functions[i].name, id |-> functions[i].id,
                       bodies |-> IF i = Entry(functions, Decl.name)
                                  THEN Append(functions[i].bodies, id) ELSE functions[i].bodies]
    BY <1>3, <1>8, EmitBodyWrites
  <2>2. id \in FunctionIds /\ id \in LinkNames /\ DeclOf(id) = Decl /\ ~Emitted(id)
    <3>1. id \in FunctionIds /\ id \in LinkNames
      BY <1>3, <1>4, <2>1, AtHand
    <3>2. id[1] = file /\ id[2] = decl
      BY <1>3
    <3> QED
      BY <1>1, <1>3, <3>1, <3>2, AtHand DEF Emitted
  <2>3. PICK k \in DOMAIN functions : functions[k].id = id
    BY <1>2, <2>2 DEF Lists
  <2>4. functions[k].name = Decl.name
    BY <1>2, <2>2, <2>3 DEF Lists
  <2>5. Entry(functions, Decl.name) = k
    BY <1>2, <1>4, <2>3, <2>4, EntryIs
  <2>6. \A i \in DOMAIN functions : functions[i].id = id => i = k
    BY <1>2, <2>3 DEF Lists
  <2>7. functions[k].bodies = <<>>
    BY <1>5, <2>2, <2>3
  <2>8. Append(<<>>, id) = <<id>>
    OBVIOUS
  <2>9. ASSUME NEW i \in DOMAIN functions
        PROVE  fs[i].bodies = IF Emitted(fs[i].id)' THEN <<fs[i].id>> ELSE <<>>
    <3>1. PICK y, b : y = functions[i].id /\ b = functions[i].bodies
      OBVIOUS
    <3>2. fs[i].id = y /\ fs[i].bodies = IF i = k THEN Append(b, id) ELSE b
      <4>1. PICK n, bb : n = functions[i].name /\ bb = IF i = k THEN Append(b, id) ELSE b
        OBVIOUS
      <4>2. fs[i] = [name |-> n, id |-> y, bodies |-> bb]
        BY <2>1, <2>5, <3>1, <4>1
      <4> QED
        BY <4>1, <4>2
    <3>3. y \in LinkNames /\ b = IF Emitted(y) THEN <<y>> ELSE <<>>
      BY <1>5, <3>1
    <3>4. Emitted(y)' <=> Emitted(y) \/ i = k
      BY <1>6, <2>3, <2>6, <3>1, <3>3
    <3>5. CASE i = k
      BY <2>3, <2>7, <2>8, <3>1, <3>2, <3>4, <3>5
    <3>6. CASE i # k
      BY <3>2, <3>3, <3>4, <3>6
    <3> QED
      BY <3>5, <3>6
  <2> QED
    BY <1>7, <2>1, <2>9
<1>9. CASE EmitGlobal \/ EmitNothing
  <2>1. fs = functions /\ ~(IsActioDecl(Decl) /\ ~Decl.barbara)
    BY <1>3, <1>9 DEF EmitGlobal, EmitNothing, NeedsCode, IsGlobal, IsActioDecl, irVars
  <2>2. id \notin FunctionIds
    BY <1>3, <2>1, AtHand
  <2>3. ASSUME NEW i \in DOMAIN fs
        PROVE  fs[i].bodies = IF Emitted(fs[i].id)' THEN <<fs[i].id>> ELSE <<>>
    <3>1. PICK y, b : y = fs[i].id /\ b = fs[i].bodies
      OBVIOUS
    <3>2. y \in LinkNames /\ y # id /\ b = IF Emitted(y) THEN <<y>> ELSE <<>>
      BY <1>2, <1>5, <2>1, <2>2, <3>1 DEF Lists
    <3>3. Emitted(y)' <=> Emitted(y)
      BY <1>6, <3>2
    <3> QED
      BY <3>1, <3>2, <3>3
  <2> QED
    BY <1>7, <2>3
<1> QED
  BY <1>8, <1>9

LEMMA BodiesStep ==
  ASSUME PlaceInv, ListsInv, BodiesInv, [IrNext]_<<vars, irVars>>
  PROVE  BodiesInv'
<1>1. CASE CheckStep
  BY <1>1, CheckPasses DEF BodiesInv, IrPasses
<1>2. CASE Generate
  <2>1. functions' = <<>>
    BY <1>2 DEF Generate, irVars, ListsInv, IrPasses
  <2> QED
    BY <2>1 DEF BodiesInv
<1>3. CASE EvaluateConstant
  <2>1. /\ pass = "constants" /\ Step /\ prog' = prog /\ pass' \in {"constants", "emit"}
        /\ functions' = functions
    BY <1>3, EvaluateWrites DEF Checked, EvaluateConstant
  <2>2. UniqueNames' <=> UniqueNames
    BY <1>3, CheckedStays DEF EvaluateConstant
  <2>3. UniqueNames => \A i \in DOMAIN functions : functions[i].bodies = <<>>
    BY <2>1 DEF BodiesInv, HasBody
  <2>4. ASSUME pass' = "emit", NEW id \in LinkNames
        PROVE  ~Emitted(id)'
    <3>1. PICK g \in DOMAIN prog : \E d \in DOMAIN AllDecls(g) : id = <<g, d>>
      BY <2>4, DeclIds
    <3>2. Around
      BY <2>1, <2>4, StepBegins DEF Onward
    <3> QED
      BY <2>1, <2>4, <3>1, <3>2 DEF Around, Emitted
  <2>5. \A i \in DOMAIN functions : functions[i].id \in LinkNames
    BY <2>1, DeclIds DEF ListsInv, IrPasses, Lists, Entered
  <2>6. ASSUME UniqueNames, NEW i \in DOMAIN functions, NEW x, x = functions[i]
        PROVE  HasBody(x)'
    <3>1. x.bodies = <<>> /\ (pass' = "emit" => ~Emitted(x.id)')
      BY <2>3, <2>4, <2>5, <2>6
    <3> QED
      BY <2>1, <3>1 DEF HasBody
  <2> QED
    BY <2>1, <2>2, <2>6 DEF BodiesInv
<1>4. CASE UNCHANGED <<vars, irVars>>
  <2>1. prog' = prog /\ pass' = pass /\ file' = file /\ decl' = decl /\ functions' = functions
    BY <1>4 DEF vars, irVars
  <2>2. UniqueNames' => UniqueNames
    BY <2>1, IdsStay DEF UniqueNames
  <2>3. \A y : Emitted(y)' <=> Emitted(y)
    BY <2>1 DEF Emitted, Begun
  <2> QED
    BY <2>1, <2>2, <2>3 DEF BodiesInv, HasBody
<1> QED
  BY <1>1, <1>2, <1>3, <1>4, RegisterBodies, EmitBodies DEF IrNext

\* What the linker finds under the name of a global or function.
LEMMA NameReaches ==
  ASSUME PlaceInv, ListsInv, BodiesInv, UniqueNames, pass = "done",
         NEW id \in LinkNames, NEW n, n = DeclOf(id).name
  PROVE  /\ Reaches(n) = id
         /\ IsActioDecl(DeclOf(id)) => Calls(n) = id
<1>1. /\ Lists(globals, GlobalIds) /\ Lists(functions, FunctionIds) /\ Lists(externs, ExternIds)
  BY DEF ListsInv, IrPasses, Entered
<1>2. GlobalIds \subseteq LinkNames /\ FunctionIds \subseteq LinkNames /\ ExternIds \subseteq LinkNames
  BY DeclIds
<1>3. \A x \in LinkNames : DeclOf(x).name = n => x = id
  BY DEF UniqueNames
<1>4. ASSUME id \notin GlobalIds PROVE Named(globals, n) = {}
  BY <1>1, <1>2, <1>3, <1>4 DEF Named, Lists
<1>5. ASSUME id \notin ExternIds PROVE Named(externs, n) = {}
  BY <1>1, <1>2, <1>3, <1>5 DEF Named, Lists
<1>6. CASE id \in GlobalIds
  <2>1. Here(n) \in DOMAIN globals /\ globals[Here(n)].id = id /\ Named(globals, n) = {Here(n)}
    BY <1>1, <1>6, GlobalIsFound
  <2>2. ~IsActioDecl(DeclOf(id))
    <3>1. IsGlobal(DeclOf(id))
      BY <1>6, DeclIds
    <3> QED
      BY <3>1 DEF IsGlobal, IsActioDecl
  <2> QED
    BY <2>1, <2>2 DEF Reaches
<1>7. CASE id \in ExternIds
  <2>1. PICK i \in DOMAIN externs : externs[i].id = id
    BY <1>1, <1>7 DEF Lists
  <2>2. externs[i].name = n
    BY <1>1, <2>1 DEF Lists
  <2>3. Named(externs, n) = {i} /\ Entry(externs, n) = i
    BY <1>1, <1>2, <2>1, <2>2, EntryIs
  <2>4. id \notin GlobalIds
    <3>1. IsActioDecl(DeclOf(id))
      BY <1>7 DEF ExternIds
    <3> QED
      BY <3>1, DeclIds DEF IsGlobal, IsActioDecl
  <2>5. Reaches(n) = id
    BY <1>4, <2>1, <2>3, <2>4 DEF Reaches
  <2> QED
    BY <2>3, <2>5 DEF Calls
<1>8. CASE id \in FunctionIds
  <2>1. PICK i \in DOMAIN functions : functions[i].id = id
    BY <1>1, <1>8 DEF Lists
  <2>2. functions[i].name = n
    BY <1>1, <2>1 DEF Lists
  <2>3. Named(functions, n) = {i} /\ Entry(functions, n) = i
    BY <1>1, <1>2, <2>1, <2>2, EntryIs
  <2>4. id \notin GlobalIds /\ id \notin ExternIds
    <3>1. IsActioDecl(DeclOf(id)) /\ ~DeclOf(id).barbara
      BY <1>8 DEF FunctionIds
    <3>2. id \notin ExternIds
      BY <3>1 DEF ExternIds
    <3> QED
      BY <3>1, <3>2, DeclIds DEF IsGlobal, IsActioDecl
  <2>5. HasBody(functions[i])
    BY <2>1 DEF BodiesInv
  <2>6. PICK b : b = functions[i].bodies
    OBVIOUS
  <2>7. b = <<id>>
    BY <2>1, <2>5, <2>6 DEF HasBody, Emitted
  <2>8. b # <<>> /\ b[1] = id
    BY <2>7
  <2>9. Body(n) = id
    BY <2>3, <2>6, <2>8 DEF Body
  <2>10. Named(globals, n) = {} /\ Named(externs, n) = {}
    BY <1>4, <1>5, <2>4
  <2> QED
    BY <2>9, <2>10 DEF Reaches, Calls
<1>9. id \in GlobalIds \/ id \in ExternIds \/ id \in FunctionIds
  <2>1. IsGlobal(DeclOf(id)) \/ IsActioDecl(DeclOf(id))
    BY DeclIds
  <2>2. CASE IsGlobal(DeclOf(id))
    BY <2>2, DeclIds
  <2>3. CASE IsActioDecl(DeclOf(id))
    BY <2>3 DEF ExternIds, FunctionIds
  <2> QED
    BY <2>1, <2>2, <2>3
<1> QED
  BY <1>6, <1>7, <1>8, <1>9

\* What has the type of a function when it is checked has it in the end.
LEMMA FunctionsStayTyped ==
  ASSUME NEW u, Refers(u), IsActio(u.type)
  PROVE  IsActio(IrType(u))
<1>1. CASE u.alias \/ Len(u.id) # 2
  BY <1>1 DEF IrType
<1>2. CASE ~(u.alias \/ Len(u.id) # 2)
  <2>1. PICK h \in DOMAIN prog : Shows(u.id, u.name, u.type, h) /\ u.type \in {NoType, scope[h][u.name].type}
    BY <1>2 DEF Refers
  <2>2. u.id[1] = h
    <3>1. PICK d, y : y = u.id /\ y = <<h, d>>
      BY <2>1 DEF Shows
    <3>2. y[1] = h
      BY <3>1
    <3> QED
      BY <3>1, <3>2
  <2>3. ~IsActio(NoType)
    BY DEF IsActio, NoType
  <2>4. u.type = scope[h][u.name].type
    BY <2>1, <2>3
  <2>5. IrType(u) = scope[u.id[1]][u.name].type
    BY <1>2 DEF IrType
  <2> QED
    BY <2>2, <2>4, <2>5
<1> QED
  BY <1>1, <1>2

LEMMA UsesFollow ==
  ASSUME PlaceInv, ListsInv, BodiesInv, RefersInv, CalledInv
  PROVE  PlainUsesKeepTheirMeaning
<1> SUFFICES ASSUME Plain, pass = "done", NEW u \in Operational
             PROVE  Generated(u) = Meant(u)
  BY DEF PlainUsesKeepTheirMeaning, UsesKeepTheirMeaning
<1>1. /\ u \in uses /\ Refers(u)
      /\ Len(u.id) > 1 /\ DeclOf(u.id).kind \in {"actio", "sit", "lex"}
  BY DEF Operational, RefersInv
<1>2. /\ UniqueNames /\ HasOperand(u)
      /\ IsActio(IrType(u)) => IsFunction(u)
  BY <1>1 DEF Plain
<1>3. IsActio(u.type) => IsFunction(u) /\ IsActio(IrType(u))
  BY <1>1, <1>2, FunctionsStayTyped
<1>4. u.called => IsFunction(u)
  <2>1. ~hadError
    BY DEF CalledInv, Later
  <2> QED
    BY <1>1, <1>3, <2>1 DEF CalledInv
<1>5. CASE IsLocal(u)
  <2>1. ~IsFunction(u)
    <3>1. PICK k : k = Len(u.id)
      OBVIOUS
    <3>2. k \in Nat /\ k > 2
      BY <1>1, <1>5, <3>1 DEF Refers, IsLocal
    <3>3. k # 2
      BY <3>2
    <3> QED
      BY <3>1, <3>3 DEF IsFunction
  <2>2. ~u.called /\ ~IsActio(IrType(u))
    BY <1>2, <1>4, <2>1
  <2> QED
    BY <1>2, <1>5, <2>1, <2>2 DEF Generated, Meant
<1>6. CASE ~IsLocal(u)
  <2>1. Len(u.id) = 2
    <3>1. PICK k : k = Len(u.id)
      OBVIOUS
    <3>2. k \in Nat /\ k > 1 /\ ~(k > 2)
      BY <1>1, <1>6, <3>1 DEF Refers, IsLocal
    <3>3. k = 2
      BY <3>2
    <3> QED
      BY <3>1, <3>3
  <2>2. PICK h \in DOMAIN prog : Shows(u.id, u.name, u.type, h)
    BY <1>1, <2>1 DEF Refers
  <2>3. PICK d \in DOMAIN AllDecls(h) :
          /\ u.id = <<h, d>> /\ AllDecls(h)[d].name = u.name
          /\ AllDecls(h)[d].kind = "actio" => IsActio(u.type)
    BY <2>2 DEF Shows
  <2>4. PICK y : y = u.id
    OBVIOUS
  <2>5. y[1] = h /\ y[2] = d
    BY <2>3, <2>4
  <2>6. DeclOf(y) = AllDecls(h)[d]
    BY <2>5 DEF DeclOf, AllDecls
  <2>7. y \in LinkNames /\ DeclOf(y).name = u.name
    <3>1. IsGlobal(AllDecls(h)[d]) \/ IsActioDecl(AllDecls(h)[d])
      BY <1>1, <2>4, <2>6 DEF IsGlobal, IsActioDecl
    <3> QED
      BY <2>3, <2>4, <2>6, <3>1, DeclIds
  <2>8. Reaches(u.name) = y /\ (IsActioDecl(DeclOf(y)) => Calls(u.name) = y)
    <3>1. PICK n : n = u.name
      OBVIOUS
    <3> QED
      BY <1>2, <2>7, <3>1, NameReaches
  <2>9. CASE DeclOf(y).kind = "actio"
    <3>1. IsActio(IrType(u)) /\ IsFunction(u)
      BY <1>3, <2>3, <2>6, <2>9
    <3>2. Calls(u.name) = y
      BY <2>8, <2>9 DEF IsActioDecl
    <3> QED
      BY <1>2, <2>4, <2>8, <3>1, <3>2 DEF Generated, Meant
  <2>10. CASE DeclOf(y).kind # "actio"
    <3>1. ~IsFunction(u)
      BY <2>4, <2>10 DEF IsFunction
    <3>2. ~u.called /\ ~IsActio(IrType(u))
      BY <1>2, <1>4, <3>1
    <3> QED
      BY <1>2, <1>6, <2>4, <2>8, <3>1, <3>2 DEF Generated, Meant
  <2> QED
    BY <2>9, <2>10
<1> QED
  BY <1>5, <1>6

UsesInv == SymbolsInv /\ RefersInv /\ CalledInv /\ BodiesInv

\* Whatever the program: every symbol found under a name is a declaration of
\* that name, its own file's or a copy; a use has the type its symbol has, or
\* had none; what is called has the type of a function; a function has one body.
THEOREM UsesInductive ==
  IrSpec => []UsesInv
<1>1. IrInit => UsesInv
  <2>1. IrInit => SymbolsInv
    BY DEF IrInit, Init, SymbolsInv
  <2>2. IrInit => RefersInv /\ CalledInv /\ BodiesInv
    BY DEF IrInit, Init, RefersInv, CalledInv, BodiesInv, Later
  <2> QED
    BY <2>1, <2>2 DEF UsesInv
<1>2. NamesInv /\ IrInv /\ UsesInv /\ [IrNext]_<<vars, irVars>> => UsesInv'
  BY SymbolsStep, RefersStep, CalledStep, BodiesStep DEF NamesInv, IrInv, UsesInv
<1> QED
  BY <1>1, <1>2, NamesInductive, IrInductive, PTL DEF IrSpec

\* Whatever the program, if it is plain: what the checker resolved a name to is
\* what the generated code reads or calls by that name, across files, through
\* imports, for externs and for locals that shadow
\* (ir_gen.c:858-885, 1055-1068, 1263-1279).
THEOREM UsesMeanWhatTheyNamed ==
  IrSpec => []PlainUsesKeepTheirMeaning
<1>1. IrInv /\ UsesInv => PlainUsesKeepTheirMeaning
  BY UsesFollow DEF IrInv, UsesInv
<1> QED
  BY <1>1, IrInductive, UsesInductive, PTL

=============================================================================
