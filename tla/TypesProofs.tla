----------------------------- MODULE TypesProofs -----------------------------
(***************************************************************************)
(* The types of TypeChecker.tla for every program: chains of aliases, what *)
(* a written type means while declarations are still being collected, and  *)
(* that it means the same ever after, and that what is checked against it  *)
(* is well typed in the end.                                               *)
(***************************************************************************)
EXTENDS IrGlobalsProofs

-----------------------------------------------------------------------------
(* Chains of aliases. *)

\* The aliases of the file at hand that have no type yet, and what is behind one.
Pending == {scope[file][n] : n \in {n \in DOMAIN scope[file] : IsPending(scope[file][n])}}
Target(a) == Behind(Scopes, a)
Ends(a) == {c \in Chain(Scopes, a) : ~IsPending(Target(c))}

\* An alias without a type stands for one of the same file, if that has none either.
TargetsAreHere == \A a \in Pending : IsPending(Target(a)) => Target(a) \in Pending

LEMMA ChainIs ==
  ASSUME NEW a \in Pending
  PROVE  /\ Chain(Scopes, a) \subseteq Pending /\ a \in Chain(Scopes, a)
         /\ \A S \in SUBSET Pending :
              a \in S /\ (\A c \in S : IsPending(Target(c)) => Target(c) \in S) => Chain(Scopes, a) \subseteq S
<1>1. Chain(Scopes, a) =
        {c \in Pending : \A S \in SUBSET Pending :
           a \in S /\ (\A x \in S : IsPending(Target(x)) => Target(x) \in S) => c \in S}
  BY DEF Chain, Pending, Target
<1> QED
  BY <1>1

LEMMA ChainGoesOn ==
  ASSUME TargetsAreHere, NEW a \in Pending, NEW c \in Chain(Scopes, a), IsPending(Target(c))
  PROVE  Target(c) \in Chain(Scopes, a)
<1>1. Chain(Scopes, a) =
        {x \in Pending : \A S \in SUBSET Pending :
           a \in S /\ (\A y \in S : IsPending(Target(y)) => Target(y) \in S) => x \in S}
  BY DEF Chain, Pending, Target
<1>2. PICK t : t = Target(c)
  OBVIOUS
<1>3. t \in Pending
  BY <1>1, <1>2 DEF TargetsAreHere
<1> QED
  BY <1>1, <1>2, <1>3

LEMMA ChainWithin ==
  ASSUME TargetsAreHere, NEW a \in Pending, NEW c \in Chain(Scopes, a)
  PROVE  c \in Pending /\ Chain(Scopes, c) \subseteq Chain(Scopes, a)
<1>1. PICK S : S = Chain(Scopes, a)
  OBVIOUS
<1>2. S \in SUBSET Pending /\ c \in S /\ c \in Pending
  BY <1>1, ChainIs
<1>3. \A x \in S : IsPending(Target(x)) => Target(x) \in S
  BY <1>1, ChainGoesOn
<1> QED
  BY <1>1, <1>2, <1>3, ChainIs

\* A chain is an alias and the chain of what is behind it.
LEMMA ChainStarts ==
  ASSUME TargetsAreHere, NEW a \in Pending, NEW c \in Chain(Scopes, a)
  PROVE  c = a \/ (IsPending(Target(a)) /\ c \in Chain(Scopes, Target(a)))
<1>1. CASE ~IsPending(Target(a))
  <2>1. PICK S : S = {a}
    OBVIOUS
  <2>2. S \in SUBSET Pending /\ a \in S /\ \A x \in S : ~IsPending(Target(x))
    BY <1>1, <2>1
  <2>3. Chain(Scopes, a) \subseteq S
    BY <2>2, ChainIs
  <2> QED
    BY <2>1, <2>3
<1>2. CASE IsPending(Target(a))
  <2>1. PICK t : t = Target(a)
    OBVIOUS
  <2>2. t \in Pending
    BY <1>2, <2>1 DEF TargetsAreHere
  <2>3. PICK S : S = {a} \cup Chain(Scopes, t)
    OBVIOUS
  <2>4. S \in SUBSET Pending /\ a \in S /\ t \in S
    BY <2>2, <2>3, ChainIs
  <2>5. ASSUME NEW x \in S, IsPending(Target(x)) PROVE Target(x) \in S
    <3>1. CASE x = a
      BY <2>1, <2>4, <3>1
    <3>2. CASE x \in Chain(Scopes, t)
      <4>1. Target(x) \in Chain(Scopes, t)
        BY <2>2, <2>5, <3>2, ChainGoesOn
      <4> QED
        BY <2>3, <4>1
    <3> QED
      BY <2>3, <3>1, <3>2
  <2>6. Chain(Scopes, a) \subseteq S
    BY <2>4, <2>5, ChainIs
  <2> QED
    BY <1>2, <2>1, <2>3, <2>6
<1> QED
  BY <1>1, <1>2

\* All aliases of a chain have the same end, or none.
LEMMA ChainsEnd ==
  ASSUME TargetsAreHere, NEW a \in Pending, NEW c \in Chain(Scopes, a)
  PROVE  Ends(c) = Ends(a)
<1>1. Ends(c) \subseteq Ends(a)
  BY ChainWithin DEF Ends
<1>2. ASSUME NEW e \in Ends(a) PROVE e \in Ends(c)
  <2>1. e \in Chain(Scopes, a) /\ ~IsPending(Target(e))
    BY <1>2 DEF Ends
  <2>2. PICK S : S = {x \in Chain(Scopes, a) : e \in Chain(Scopes, x)}
    OBVIOUS
  <2>3. S \in SUBSET Pending /\ a \in S
    BY <2>1, <2>2, ChainIs
  <2>4. ASSUME NEW x \in S, IsPending(Target(x)) PROVE Target(x) \in S
    <3>1. x \in Chain(Scopes, a) /\ e \in Chain(Scopes, x)
      BY <2>2, <2>4
    <3>2. x \in Pending
      BY <3>1, ChainWithin
    <3>3. e \in Chain(Scopes, Target(x))
      BY <2>1, <2>4, <3>1, <3>2, ChainStarts
    <3>4. Target(x) \in Chain(Scopes, a)
      BY <2>4, <3>1, ChainGoesOn
    <3> QED
      BY <2>2, <3>3, <3>4
  <2>5. c \in S
    BY <2>3, <2>4, ChainIs
  <2> QED
    BY <2>1, <2>2, <2>5 DEF Ends
<1> QED
  BY <1>1, <1>2

LEMMA ChainsAgree ==
  ASSUME TargetsAreHere, NEW a \in Pending, NEW c \in Chain(Scopes, a)
  PROVE  ResolvedAlias(Scopes, c) = ResolvedAlias(Scopes, a)
<1>1. \A x : ResolvedAlias(Scopes, x) =
        LET r == DeclOf((CHOOSE y \in Ends(x) : TRUE).id).type
        IN  IF Ends(x) = {} THEN Unknown
            ELSE IF r.base \in Basic THEN <<r.base>> ELSE TypeOfSymbol(TypeSymbol(Scopes, r))
  BY DEF ResolvedAlias, Ends, Target
<1>2. Ends(c) = Ends(a)
  BY ChainsEnd
<1> QED
  BY <1>1, <1>2

LEMMA LastOfChain ==
  ASSUME TargetsAreHere, NEW a \in Pending, ~IsPending(Target(a)), NEW r, r = DeclOf(a.id).type
  PROVE  ResolvedAlias(Scopes, a) = IF r.base \in Basic THEN <<r.base>> ELSE TypeOfSymbol(Target(a))
<1>1. Ends(a) = {a}
  <2>1. \A c \in Chain(Scopes, a) : c = a
    BY ChainStarts
  <2> QED
    BY <2>1, ChainIs DEF Ends
<1>2. (CHOOSE y \in {a} : TRUE) = a
  OBVIOUS
<1>3. ResolvedAlias(Scopes, a) =
        LET q == DeclOf((CHOOSE y \in Ends(a) : TRUE).id).type
        IN  IF Ends(a) = {} THEN Unknown
            ELSE IF q.base \in Basic THEN <<q.base>> ELSE TypeOfSymbol(TypeSymbol(Scopes, q))
  BY DEF ResolvedAlias, Ends, Target
<1>4. Target(a) = TypeSymbol(Scopes, r)
  BY DEF Target, Behind
<1> QED
  BY <1>1, <1>2, <1>3, <1>4

-----------------------------------------------------------------------------
(* Types that are known. *)

Flawed == hadError \/ pass = "rejected"

Known(t) == t \notin {NoType, Unknown} /\ ~IsActio(t)

\* What r, written in a declaration of file f, may mean.
MayMean(f, r, h, d) ==
  /\ AllDecls(h)[d].kind \in {"forma", "imago"} /\ AllDecls(h)[d].name = r.base
  /\ IF r.mod = "" THEN h = f ELSE prog[h].name = r.mod /\ AllDecls(h)[d].pub = TRUE

\* t is the type of what r means, and will be.
Fixed(f, r, t) ==
  IF r.base \in Basic THEN t = <<r.base>>
  ELSE /\ Known(t)
       /\ \E h \in DOMAIN prog : \E d \in DOMAIN AllDecls(h) :
            MayMean(f, r, h, d) /\ r.base \in DOMAIN scope[h] /\ t = scope[h][r.base].type

FixedActio(f, x, t) ==
  /\ t = <<"actio", t[2], t[3]>>
  /\ Fixed(f, x.type, t[2])
  /\ t[3] = [i \in DOMAIN x.params |-> t[3][i]]
  /\ \A i \in DOMAIN x.params : Fixed(f, x.params[i].type, t[3][i])

\* The type of a symbol: none, one that is known, or that of a function with a
\* known result.
Typed(t) == IF IsActio(t) THEN Known(t[2]) ELSE t # Unknown

SymbolTyped(g, s) ==
  /\ Typed(s.type)
  /\ s.kind \in {"forma", "imago"} => ~IsActio(s.type)
  /\ s.kind = "forma" => s.type # NoType
  /\ IsPending(s) => pass = "collect" /\ g = file

DeclTyped(g, d) ==
  LET x == AllDecls(g)[d]
      t == scope[g][x.name].type
  IN  /\ x.kind = "imago" => Fixed(g, x.type, t) \/ (t = NoType /\ pass = "collect" /\ ~Begun(g, d))
      /\ x.kind = "actio" => FixedActio(g, x, t)
      /\ x.kind \in {"sit", "lex"} =>
           IF x.type # NoRef THEN Fixed(g, x.type, t)
           ELSE t # NoType \/ (pass \notin Later /\ (pass = "bodies" => ~Begun(g, d)))

TypesInv ==
  Flawed \/ /\ \A g \in DOMAIN prog : \A n \in DOMAIN scope[g] : SymbolTyped(g, scope[g][n])
            /\ \A g \in DOMAIN prog : \A d \in Collected(g) : DeclTyped(g, d)

LEMMA FlawedStays ==
  ASSUME PlaceInv, [IrNext]_<<vars, irVars>>, ~Flawed'
  PROVE  ~Flawed
<1>1. CASE \/ RegisterModule \/ CollectTypeNames \/ CollectDeclaration \/ ImportDeclaration
           \/ CheckGlobal /\ pass' # "crashed"
           \/ EnterFunction /\ stmt' = 0
           \/ LeaveFunction \/ SkipDeclaration
  BY <1>1, WhoAdvances DEF Moves, Flawed
<1>2. CASE \/ EnterFunction /\ stmt' # 0
           \/ OpenBlock \/ CloseBlock
           \/ (DeclareLocal \/ Evaluate \/ Return) /\ pass' # "crashed"
  <2>1. pass = "bodies" /\ pass' = pass
    BY <1>2, WhoFollows
  <2>2. hadError => hadError'
    BY <1>2, <2>1 DEF EnterFunction, Advance, OpenBlock, CloseBlock, DeclareLocal, Evaluate, Return, Follow, Crash
  <2> QED
    BY <2>1, <2>2 DEF Flawed
<1>3. CASE Crash /\ pass = "bodies"
  BY <1>3 DEF Crash, Flawed
<1>4. CASE Generate \/ Register \/ EvaluateConstant \/ EmitGlobal \/ EmitBody \/ EmitNothing
  BY <1>4, WhoGenerates DEF Checked, Later, Flawed
<1>5. CASE UNCHANGED <<vars, irVars>>
  BY <1>5 DEF vars, Flawed
<1> QED
  BY <1>1, <1>2, <1>3, <1>4, <1>5, CheckStepKinds DEF IrNext

LEMMA FlawlessFacts ==
  ASSUME ~Flawed
  PROVE  ~Failing({"modules"}) /\ ~Failing({"modules", "collect"}) /\ ~Failing({"modules", "collect", "imports"})
  BY DEF Flawed, Failing

\* No scope has names before the pass that collects them comes to its file.
LEMMA FreshScope ==
  ASSUME PlaceInv, ScopeInv, ~Flawed, pass = "collect", decl = 0
  PROVE  DOMAIN scope[file] = {}
<1>1. file \in DOMAIN prog
  BY DEF PlaceInv
<1>2. \A n : OwnNow(file, n) = {}
  <2>1. ASSUME NEW d \in DOMAIN AllDecls(file) PROVE d \notin Collected(file)
    <3>1. d \in Nat /\ file \in Nat /\ d > 0
      BY <1>1, <2>1, ProgramIsProper
    <3> QED
      BY <3>1 DEF Collected, Begun
  <2> QED
    BY <2>1 DEF OwnNow, Collected
<1>3. \A n : Imported(file, n) = {}
  BY DEF Imported
<1>4. AccountedFor(file)
  BY <1>1, FlawlessFacts DEF ScopeInv
<1> QED
  BY <1>2, <1>3, <1>4 DEF AccountedFor

\* What is in a scope stays there, and keeps its type if it has one.
Kept ==
  \A g \in DOMAIN prog : \A n \in DOMAIN scope[g] :
    /\ n \in DOMAIN scope'[g] /\ Retyped(scope[g][n], scope'[g][n])
    /\ scope[g][n].type # NoType => scope'[g][n] = scope[g][n]

LEMMA ForcedPending ==
  ASSUME NEW rs, NEW n \in DOMAIN scope[file], ~IsPending(scope[file][n])
  PROVE  Forced(rs)[n] = scope[file][n]
<1>1. PICK met : met = UNION {Chain(Scopes, a) : a \in {sym \in {TypeSymbol(Scopes, r) : r \in rs} : IsPending(sym)}}
  OBVIOUS
<1>2. Forced(rs) = [m \in DOMAIN scope[file] |->
                      IF scope[file][m] \in met
                      THEN [scope[file][m] EXCEPT !.type = ResolvedAlias(Scopes, scope[file][m])]
                      ELSE scope[file][m]]
  BY <1>1 DEF Forced
<1>3. \A a : Chain(Scopes, a) \subseteq Pending
  BY DEF Chain, Pending
<1>4. \A s \in Pending : IsPending(s)
  BY DEF Pending
<1>5. scope[file][n] \notin met
  BY <1>1, <1>3, <1>4
<1> QED
  BY <1>2, <1>5

LEMMA ImportAdds ==
  ASSUME PlaceInv, ImportDeclaration
  PROVE  \A n \in DOMAIN scope[file] : n \in DOMAIN scope'[file] /\ scope'[file][n] = scope[file][n]
<1>1. file \in DOMAIN prog /\ scope = [f \in DOMAIN prog |-> scope[f]]
  BY DEF PlaceInv
<1>2. ASSUME NEW sc, scope'[file] = Completed(scope[file], sc)
      PROVE  \A n \in DOMAIN scope[file] : n \in DOMAIN scope'[file] /\ scope'[file][n] = scope[file][n]
  <2>1. scope'[file] = [n \in DOMAIN scope[file] \cup DOMAIN sc |->
                          IF n \in DOMAIN scope[file] THEN scope[file][n] ELSE sc[n]]
    BY <1>2, CompletedKeeps
  <2> QED
    BY <2>1
<1>3. CASE Decl.kind # "importa"
  BY <1>3 DEF ImportDeclaration
<1>4. CASE Decl.kind = "importa"
  <2>1. PICK m, items : /\ m = Find(universe, Decl.from)
                        /\ items = {Decl.items[i] : i \in DOMAIN Decl.items}
    OBVIOUS
  <2>2. PICK brought, self : /\ brought = [n \in {n \in items : Member(m, n) # NoSymbol} |-> Alias(Member(m, n))]
                             /\ self = [m EXCEPT !.pub = FALSE]
    OBVIOUS
  <2>3. scope'[file] = IF m = NoSymbol THEN scope[file]
                       ELSE IF items = {} THEN Define(scope[file], Decl.from, self)
                       ELSE Completed(scope[file], brought)
    BY <1>1, <1>4, <2>1, <2>2 DEF ImportDeclaration
  <2>4. PICK one : one = [n \in {Decl.from} |-> self]
    OBVIOUS
  <2>5. Define(scope[file], Decl.from, self) = Completed(scope[file], one)
    BY <2>4 DEF Define
  <2>6. CASE m = NoSymbol
    BY <2>3, <2>6
  <2>7. CASE m # NoSymbol /\ items = {}
    BY <1>2, <2>3, <2>5, <2>7
  <2>8. CASE m # NoSymbol /\ items # {}
    BY <1>2, <2>3, <2>8
  <2> QED
    BY <2>6, <2>7, <2>8
<1> QED
  BY <1>3, <1>4

\* What a declaration refers to, an alias to itself too.
Refs(d) == RefsOf(d) \cup (IF d.kind = "imago" THEN {[mod |-> "", base |-> d.name]} ELSE {})

TypeOfDecl(d) ==
  IF d.kind = "actio"
  THEN <<"actio", ResolveType(Scopes, d.type), [i \in DOMAIN d.params |-> ResolveType(Scopes, Params(d)[i])]>>
  ELSE IF d.type = NoRef THEN NoType ELSE ResolveType(Scopes, d.type)

LEMMA CollectTypes ==
  ASSUME PlaceInv, CollectDeclaration
  PROVE  /\ \A g \in DOMAIN prog : g # file => scope'[g] = scope[g]
         /\ \A n \in DOMAIN scope[file] : n \in DOMAIN scope'[file] /\ scope'[file][n] = Forced(Refs(Decl))[n]
         /\ Decl.kind \in {"sit", "lex", "actio"} /\ Decl.name \notin DOMAIN scope[file] =>
              scope'[file][Decl.name] = Symbol(Decl.kind, TypeOfDecl(Decl), Decl.pub, <<file, decl>>)
         /\ DOMAIN scope'[file] \subseteq
              DOMAIN scope[file] \cup (IF Decl.kind \in {"sit", "lex", "actio"} THEN {Decl.name} ELSE {})
         /\ ~hadError' => /\ \A r \in RefsOf(Decl) : ~Bad(Scopes, r)
                          /\ Decl.kind \in {"sit", "lex", "actio"} => Decl.name \notin DOMAIN scope[file]
<1>1. file \in DOMAIN prog /\ scope = [f \in DOMAIN prog |-> scope[f]]
  BY DEF PlaceInv
<1>2. CASE Decl.kind \in {"sit", "lex", "actio"}
  <2>1. PICK forced, sym :
          /\ scope' = [scope EXCEPT ![file] = Define(forced, Decl.name, sym)]
          /\ forced = Forced(RefsOf(Decl))
          /\ sym = Symbol(Decl.kind, TypeOfDecl(Decl), Decl.pub, <<file, decl>>)
    BY <1>2 DEF CollectDeclaration, TypeOfDecl
  <2>2. scope'[file] = Define(forced, Decl.name, sym)
    BY <1>1, <2>1
  <2>3. DOMAIN forced = DOMAIN scope[file]
    BY <2>1, ForcedKeeps
  <2>4. scope'[file] = [m \in DOMAIN forced \cup {Decl.name} |-> IF m \in DOMAIN forced THEN forced[m] ELSE sym]
    BY <2>2, DefineIs
  <2>5. Refs(Decl) = RefsOf(Decl)
    BY <1>2 DEF Refs
  <2>6. \A g \in DOMAIN prog : g # file => scope'[g] = scope[g]
    BY <1>1, <2>1
  <2>7. ~hadError' => /\ \A r \in RefsOf(Decl) : ~Bad(Scopes, r)
                      /\ Decl.name \notin DOMAIN scope[file]
    BY <1>2 DEF CollectDeclaration, Advance
  <2>8. \A n \in DOMAIN scope[file] : n \in DOMAIN scope'[file] /\ scope'[file][n] = Forced(Refs(Decl))[n]
    BY <2>1, <2>3, <2>4, <2>5
  <2>9. Decl.name \notin DOMAIN scope[file] => scope'[file][Decl.name] = sym
    BY <2>3, <2>4
  <2>10. DOMAIN scope'[file] = DOMAIN scope[file] \cup {Decl.name}
    BY <2>3, <2>4
  <2> QED
    BY <1>2, <2>1, <2>6, <2>7, <2>8, <2>9, <2>10
<1>3. CASE Decl.kind \notin {"sit", "lex", "actio"}
  <2>1. scope' = [scope EXCEPT ![file] = Forced(Refs(Decl))]
    BY <1>3 DEF CollectDeclaration, Refs
  <2>2. scope'[file] = Forced(Refs(Decl))
    BY <1>1, <2>1
  <2>3. PICK forced : forced = Forced(Refs(Decl))
    OBVIOUS
  <2>4. DOMAIN forced = DOMAIN scope[file]
    BY <2>3, ForcedKeeps
  <2>5. ~hadError' => \A r \in RefsOf(Decl) : ~Bad(Scopes, r)
    BY <1>3 DEF CollectDeclaration, Advance
  <2>6. \A g \in DOMAIN prog : g # file => scope'[g] = scope[g]
    BY <1>1, <2>1
  <2> QED
    BY <1>3, <2>2, <2>3, <2>4, <2>5, <2>6
<1> QED
  BY <1>2, <1>3

LEMMA KeptStep ==
  ASSUME PlaceInv, ScopeInv, SymbolsInv, [IrNext]_<<vars, irVars>>, ~Flawed'
  PROVE  Kept
<1> SUFFICES ASSUME NEW g \in DOMAIN prog, NEW n \in DOMAIN scope[g]
             PROVE  /\ n \in DOMAIN scope'[g] /\ Retyped(scope[g][n], scope'[g][n])
                    /\ scope[g][n].type # NoType => scope'[g][n] = scope[g][n]
  BY DEF Kept
<1>1. file \in DOMAIN prog /\ ~Flawed
  BY FlawedStays DEF PlaceInv
<1>2. ~CollectTypeNames \/ g # file
  <2>1. CollectTypeNames => pass = "collect" /\ decl = 0
    BY DEF CollectTypeNames
  <2> QED
    BY <1>1, <2>1, FreshScope
<1>3. n \in DOMAIN scope'[g] /\ Retyped(scope[g][n], scope'[g][n])
  BY <1>2, ScopesGrow DEF KeptIn
<1>4. ASSUME scope[g][n].type # NoType, scope'[g] # scope[g] PROVE scope'[g][n] = scope[g][n]
  <2>1. CASE CollectTypeNames
    BY <1>2, <1>4, <2>1, WhoAdvances DEF PlaceInv, CollectTypeNames
  <2>2. CASE CollectDeclaration
    <3>1. g = file
      BY <1>4, <2>2, CollectTypes
    <3>2. ~IsPending(scope[file][n])
      BY <1>4, <3>1 DEF IsPending
    <3> QED
      BY <2>2, <3>1, <3>2, CollectTypes, ForcedPending
  <2>3. CASE ImportDeclaration
    <3>1. CASE g = file
      BY <2>3, <3>1, ImportAdds
    <3>2. CASE g # file
      BY <1>4, <2>3, <3>2 DEF ImportDeclaration, PlaceInv
    <3> QED
      BY <3>1, <3>2
  <2>4. CASE CheckGlobal
    <3>1. g = file
      <4>1. g # file => scope'[g] = scope[g]
        BY <2>4 DEF CheckGlobal, Crash, PlaceInv
      <4> QED
        BY <1>4, <4>1
    <3>2. PICK t : /\ scope'[file][n] = scope[file][n] \/ scope'[file][n] = [scope[file][n] EXCEPT !.type = t]
                   /\ scope[file][n].type # NoType => t = scope[file][n].type
      BY <2>4, <3>1, GlobalRetypes
    <3>3. t = scope[g][n].type
      BY <1>4, <3>1, <3>2
    <3>4. PICK s : s = scope[g][n]
      OBVIOUS
    <3>5. s = [kind |-> s.kind, type |-> s.type, pub |-> s.pub, id |-> s.id, alias |-> s.alias]
      BY <3>4 DEF SymbolsInv, SymbolInv, IsSymbol
    <3>6. [s EXCEPT !.type = s.type] = s
      BY <3>5
    <3> QED
      BY <3>1, <3>2, <3>3, <3>4, <3>6
  <2>5. CASE \/ RegisterModule \/ EnterFunction \/ LeaveFunction \/ SkipDeclaration
             \/ OpenBlock \/ CloseBlock \/ DeclareLocal \/ Evaluate \/ Return
    BY <1>4, <2>5 DEF RegisterModule, EnterFunction, LeaveFunction, SkipDeclaration,
                      OpenBlock, CloseBlock, DeclareLocal, Evaluate, Return, Follow, Crash
  <2>6. CASE Generate \/ Register \/ EvaluateConstant \/ EmitGlobal \/ EmitBody \/ EmitNothing
    BY <1>4, <2>6, WhoGenerates DEF Checked
  <2>7. CASE UNCHANGED <<vars, irVars>>
    BY <1>4, <2>7 DEF vars
  <2> QED
    BY <2>1, <2>2, <2>3, <2>4, <2>5, <2>6, <2>7 DEF IrNext, CheckStep, Next
<1> QED
  <2>1. CASE scope'[g] = scope[g]
    BY <1>3, <2>1
  <2> QED
    BY <1>3, <1>4, <2>1

LEMMA FixedStays ==
  ASSUME prog' = prog, Kept, NEW f, NEW r, NEW t, Fixed(f, r, t)
  PROVE  Fixed(f, r, t)'
<1>1. CASE r.base \in Basic
  BY <1>1 DEF Fixed
<1>2. CASE r.base \notin Basic
  <2>1. Known(t)
    BY <1>2 DEF Fixed
  <2>2. PICK h \in DOMAIN prog : \E d \in DOMAIN AllDecls(h) :
          MayMean(f, r, h, d) /\ r.base \in DOMAIN scope[h] /\ t = scope[h][r.base].type
    BY <1>2 DEF Fixed
  <2>3. r.base \in DOMAIN scope'[h] /\ scope'[h][r.base] = scope[h][r.base]
    BY <2>1, <2>2 DEF Kept, Known
  <2>4. \A d : MayMean(f, r, h, d)' <=> MayMean(f, r, h, d)
    BY DEF MayMean, AllDecls
  <2>5. AllDecls(h)' = AllDecls(h)
    BY DEF AllDecls
  <2> QED
    BY <1>2, <2>1, <2>2, <2>3, <2>4, <2>5 DEF Fixed
<1> QED
  BY <1>1, <1>2

LEMMA FixedActioStays ==
  ASSUME prog' = prog, Kept, NEW f, NEW x, NEW t, FixedActio(f, x, t)
  PROVE  FixedActio(f, x, t)'
  BY FixedStays DEF FixedActio

-----------------------------------------------------------------------------
(* The types of a declaration that is collected. *)

\* The second pass, with no error so far.
Collecting ==
  /\ PlaceInv /\ UniverseInv /\ OwnInv /\ ScopeInv /\ SymbolsInv /\ TypesInv
  /\ pass = "collect" /\ ~Flawed

LEMMA OwnSymbol ==
  ASSUME Collecting, NEW g \in DOMAIN prog, NEW n \in DOMAIN scope[g]
  PROVE  \E d \in Collected(g) :
           /\ d \in DOMAIN AllDecls(g) /\ AllDecls(g)[d].name = n /\ ProperDeclaration(AllDecls(g)[d])
           /\ scope[g][n].kind = AllDecls(g)[d].kind /\ scope[g][n].pub = AllDecls(g)[d].pub
           /\ scope[g][n].id = <<g, d>>
<1>1. OwnNow(g, n) # {}
  <2>1. Imported(g, n) = {}
    BY DEF Imported, Collecting
  <2>2. AccountedFor(g)
    BY FlawlessFacts DEF ScopeInv, Collecting
  <2> QED
    BY <2>1, <2>2 DEF AccountedFor
<1>2. PICK d \in Collected(g) : AllDecls(g)[d].name = n
  BY <1>1 DEF OwnNow
<1>3. d \in DOMAIN AllDecls(g) /\ ProperDeclaration(AllDecls(g)[d])
  BY <1>2, ProgramIsProper DEF Collected, Collecting
<1>4. PICK x : x = AllDecls(g)[d]
  OBVIOUS
<1>5. scope[g][n] = Symbol(x.kind, scope[g][n].type, x.pub, <<g, d>>)
  BY <1>2, <1>4, FlawlessFacts DEF OwnInv, Collecting
<1>6. scope[g][n].kind = x.kind /\ scope[g][n].pub = x.pub /\ scope[g][n].id = <<g, d>>
  BY <1>5 DEF Symbol
<1> QED
  BY <1>2, <1>3, <1>4, <1>6

\* A name outside functions: the file's own, or a module's.
LEMMA LookupOutside ==
  ASSUME Collecting, NEW n
  PROVE  Lookup(Scopes, n) = IF n \in DOMAIN scope[file] THEN scope[file][n] ELSE Find(universe, n)
<1>1. locals = <<>>
  BY DEF Collecting, PlaceInv
<1>2. IsSeq(locals) /\ Len(locals) = 0
  <2>1. IsSeq(<<>>) /\ Len(<<>>) = 0
    BY DEF IsSeq
  <2> QED
    BY <1>1, <2>1
<1>3. PICK r : r = Lookup(<<universe, scope[file]>> \o locals, n)
  OBVIOUS
<1>4. /\ \A i \in 1 .. Len(locals) :
           n \in DOMAIN locals[i] /\ (\A j \in (i + 1) .. Len(locals) : n \notin DOMAIN locals[j]) =>
             r = locals[i][n]
      /\ (\A i \in 1 .. Len(locals) : n \notin DOMAIN locals[i]) =>
           r = IF n \in DOMAIN scope[file] THEN scope[file][n] ELSE Find(universe, n)
  <2>1. IsSeq(locals)
    BY <1>2
  <2> QED
    BY <1>3, <2>1, LookupIs
<1>5. r = Lookup(Scopes, n)
  BY <1>3 DEF Scopes
<1> QED
  BY <1>2, <1>4, <1>5

\* The symbol of a written type.
LEMMA TypeSymbolIs ==
  ASSUME Collecting, NEW r, NEW s, s = TypeSymbol(Scopes, r), s.kind \in {"forma", "imago"}
  PROVE  /\ \E h \in DOMAIN prog : \E d \in Collected(h) :
              /\ d \in DOMAIN AllDecls(h) /\ MayMean(file, r, h, d)
              /\ r.base \in DOMAIN scope[h] /\ s = scope[h][r.base] /\ s.id = <<h, d>>
         /\ r.base \notin Basic
<1> DEFINE Goal == \E h \in DOMAIN prog : \E d \in Collected(h) :
                     /\ d \in DOMAIN AllDecls(h) /\ MayMean(file, r, h, d)
                     /\ r.base \in DOMAIN scope[h] /\ s = scope[h][r.base] /\ s.id = <<h, d>>
                     /\ r.base \notin Basic
<1>1. file \in DOMAIN prog
  BY DEF Collecting, PlaceInv
<1>2. ASSUME NEW h \in DOMAIN prog, r.base \in DOMAIN scope[h], s = scope[h][r.base],
             IF r.mod = "" THEN h = file ELSE prog[h].name = r.mod /\ s.pub
      PROVE  Goal
  <2>0. PICK n : n = r.base
    OBVIOUS
  <2>1. PICK d \in Collected(h) :
           /\ d \in DOMAIN AllDecls(h) /\ AllDecls(h)[d].name = n /\ ProperDeclaration(AllDecls(h)[d])
           /\ scope[h][n].kind = AllDecls(h)[d].kind /\ scope[h][n].pub = AllDecls(h)[d].pub
           /\ scope[h][n].id = <<h, d>>
    BY <1>2, <2>0, OwnSymbol
  <2>2. /\ AllDecls(h)[d].kind # "importa" => AllDecls(h)[d].pub \in BOOLEAN /\ AllDecls(h)[d].name \notin Basic
    BY <2>1 DEF ProperDeclaration
  <2>3. AllDecls(h)[d].kind # "importa"
    BY <1>2, <2>0, <2>1
  <2>4. MayMean(file, r, h, d)
    BY <1>2, <2>0, <2>1, <2>2, <2>3 DEF MayMean
  <2> QED
    BY <1>2, <2>0, <2>1, <2>2, <2>3, <2>4
<1>3. \A n : n \in DOMAIN universe => universe[n].kind = "module" /\ \E f \in DOMAIN prog : prog[f].name = n /\ universe[n].id = <<f>>
  BY ModuleIsFound, FlawlessFacts DEF Collecting
<1>4. NoSymbol.kind = "none"
  BY DEF NoSymbol, Symbol
<1>5. CASE r.mod = ""
  <2>1. s = Lookup(Scopes, r.base)
    BY <1>5 DEF TypeSymbol, Resolve
  <2>2. r.base \in DOMAIN scope[file] /\ s = scope[file][r.base]
    BY <1>3, <1>4, <2>1, LookupOutside DEF Find
  <2> QED
    BY <1>1, <1>2, <1>5, <2>2
<1>6. CASE r.mod # ""
  <2>1. PICK m : m = Lookup(Scopes, r.mod) /\ s = Member(m, r.base)
    BY <1>6 DEF TypeSymbol, Resolve
  <2>2. m.kind = "module"
    BY <1>4, <2>1, MemberIs
  <2>3. r.mod \notin DOMAIN scope[file]
    <3>1. ASSUME r.mod \in DOMAIN scope[file] PROVE FALSE
      <4>1. PICK d : ProperDeclaration(AllDecls(file)[d]) /\ scope[file][r.mod].kind = AllDecls(file)[d].kind
        BY <1>1, <3>1, OwnSymbol
      <4>2. m = scope[file][r.mod]
        BY <2>1, <3>1, LookupOutside
      <4> QED
        BY <2>2, <4>1, <4>2 DEF ProperDeclaration
    <3> QED
      BY <3>1
  <2>4. m = Find(universe, r.mod)
    BY <2>1, <2>3, LookupOutside
  <2>5. r.mod \in DOMAIN universe /\ m = universe[r.mod]
    BY <1>4, <2>2, <2>4 DEF Find
  <2>6. PICK h \in DOMAIN prog : prog[h].name = r.mod /\ m.id = <<h>>
    BY <1>3, <2>5
  <2>7. s = IF Find(scope[h], r.base).pub THEN Find(scope[h], r.base) ELSE NoSymbol
    BY <2>1, <2>2, <2>6 DEF Member
  <2>8. r.base \in DOMAIN scope[h] /\ s = scope[h][r.base] /\ s.pub
    BY <1>4, <2>7 DEF Find
  <2> QED
    BY <1>2, <1>6, <2>6, <2>8
<1> QED
  BY <1>5, <1>6

LEMMA TypedSymbols ==
  ASSUME Collecting
  PROVE  /\ \A g \in DOMAIN prog : \A n \in DOMAIN scope[g] : SymbolTyped(g, scope[g][n])
         /\ \A g \in DOMAIN prog : \A d \in Collected(g) : DeclTyped(g, d)
  BY DEF Collecting, TypesInv

LEMMA PendingIsHere ==
  ASSUME Collecting, NEW r, NEW s, s = TypeSymbol(Scopes, r), IsPending(s)
  PROVE  s \in Pending /\ r.base \in DOMAIN scope[file] /\ s = scope[file][r.base]
<1>1. PICK h \in DOMAIN prog : r.base \in DOMAIN scope[h] /\ s = scope[h][r.base]
  BY TypeSymbolIs DEF IsPending
<1>2. h = file
  BY <1>1, TypedSymbols DEF SymbolTyped
<1> QED
  BY <1>1, <1>2 DEF Pending

LEMMA TargetsHere ==
  ASSUME Collecting
  PROVE  TargetsAreHere
  BY PendingIsHere DEF TargetsAreHere, Target, Behind

\* A type that is no error is known.
LEMMA SymbolIsKnown ==
  ASSUME Collecting, NEW r, NEW s, s = TypeSymbol(Scopes, r), ~IsPending(s), TypeOfSymbol(s) # Unknown
  PROVE  Known(TypeOfSymbol(s)) /\ TypeOfSymbol(s) = s.type /\ s.kind \in {"forma", "imago"}
<1>1. s.kind \in {"forma", "imago"} /\ TypeOfSymbol(s) = s.type
  BY DEF TypeOfSymbol
<1>2. PICK h \in DOMAIN prog : r.base \in DOMAIN scope[h] /\ s = scope[h][r.base]
  BY <1>1, TypeSymbolIs
<1>3. SymbolTyped(h, s)
  BY <1>2, TypedSymbols
<1>4. ~IsActio(s.type) /\ s.type # NoType
  BY <1>1, <1>3 DEF SymbolTyped, IsPending
<1> QED
  BY <1>1, <1>4 DEF Known

LEMMA BasicIsKnown ==
  ASSUME NEW b \in Basic
  PROVE  Known(<<b>>)
  BY DEF Known, NoType, Unknown, IsActio, Basic

LEMMA AliasIsKnown ==
  ASSUME Collecting, NEW a \in Pending, ResolvedAlias(Scopes, a) # Unknown
  PROVE  Known(ResolvedAlias(Scopes, a))
<1>1. Ends(a) # {}
  BY DEF ResolvedAlias, Ends, Target
<1>2. PICK e : e \in Chain(Scopes, a) /\ ~IsPending(Target(e))
  BY <1>1 DEF Ends
<1>3. e \in Pending /\ ResolvedAlias(Scopes, e) = ResolvedAlias(Scopes, a)
  BY <1>2, TargetsHere, ChainWithin, ChainsAgree
<1>4. PICK r : r = DeclOf(e.id).type
  OBVIOUS
<1>5. ResolvedAlias(Scopes, e) = IF r.base \in Basic THEN <<r.base>> ELSE TypeOfSymbol(Target(e))
  BY <1>2, <1>3, <1>4, TargetsHere, LastOfChain
<1>6. CASE r.base \in Basic
  BY <1>3, <1>5, <1>6, BasicIsKnown
<1>7. CASE r.base \notin Basic
  <2>1. Target(e) = TypeSymbol(Scopes, r)
    BY <1>4 DEF Target, Behind
  <2>2. Known(TypeOfSymbol(Target(e)))
    BY <1>2, <1>3, <1>5, <1>7, <2>1, SymbolIsKnown
  <2> QED
    BY <1>3, <1>5, <1>7, <2>2
<1> QED
  BY <1>6, <1>7

\* What an alias stands for has the type that the alias gets.
LEMMA AliasIsTarget ==
  ASSUME Collecting, NEW a \in Pending, NEW r, r = DeclOf(a.id).type
  PROVE  ResolveType(Scopes, r) = ResolvedAlias(Scopes, a)
<1>1. PICK b : b = Target(a)
  OBVIOUS
<1>2. b = TypeSymbol(Scopes, r)
  BY <1>1 DEF Target, Behind
<1>3. ResolveType(Scopes, r) = IF r.base \in Basic THEN <<r.base>>
                               ELSE IF IsPending(b) THEN ResolvedAlias(Scopes, b) ELSE TypeOfSymbol(b)
  BY <1>2 DEF ResolveType
<1>4. CASE IsPending(b)
  <2>1. r.base \notin Basic
    BY <1>2, <1>4, TypeSymbolIs DEF IsPending
  <2>2. b \in Chain(Scopes, a)
    BY <1>1, <1>4, TargetsHere, ChainGoesOn, ChainIs
  <2> QED
    BY <1>3, <1>4, <2>1, <2>2, TargetsHere, ChainsAgree
<1>5. CASE ~IsPending(b)
  BY <1>1, <1>3, <1>5, TargetsHere, LastOfChain
<1> QED
  BY <1>4, <1>5

\* The aliases without a type that the declaration at hand refers to, and all
\* that are behind them.
Used    == {s \in {TypeSymbol(Scopes, r) : r \in Refs(Decl)} : IsPending(s)}
Reached == UNION {Chain(Scopes, a) : a \in Used}

LEMMA AliasAtHand ==
  ASSUME Collecting, CollectDeclaration, Decl.kind = "imago"
  PROVE  /\ decl \in Collected(file) /\ Decl = AllDecls(file)[decl]
         /\ Decl.name \in DOMAIN scope[file] /\ scope[file][Decl.name].id = <<file, decl>>
         /\ Decl.type # NoRef /\ Decl.type \in RefsOf(Decl)
         /\ TypeSymbol(Scopes, [mod |-> "", base |-> Decl.name]) = scope[file][Decl.name]
<1>1. decl > 0 /\ Decl.kind # "none" /\ PlaceInv /\ OwnInv
  BY DEF CollectDeclaration, Collecting
<1>2. decl \in DOMAIN AllDecls(file) /\ Decl = AllDecls(file)[decl] /\ ProperDeclaration(Decl) /\ file \in DOMAIN prog
  BY <1>1, DeclAtHand
<1>3. decl \in Collected(file)
  BY <1>1, <1>2 DEF Collected, Collecting
<1>4. PICK x : x = Decl
  OBVIOUS
<1>5. x.name \in DOMAIN scope[file] /\ scope[file][x.name] = Symbol(x.kind, scope[file][x.name].type, x.pub, <<file, decl>>)
  BY <1>2, <1>3, <1>4, FlawlessFacts DEF OwnInv, Collecting
<1>6. scope[file][x.name].id = <<file, decl>>
  BY <1>5 DEF Symbol
<1>7. Decl.type # NoRef
  BY <1>2 DEF ProperDeclaration
<1>8. Decl.type \in RefsOf(Decl)
  BY <1>7 DEF RefsOf
<1>9. TypeSymbol(Scopes, [mod |-> "", base |-> x.name]) = scope[file][x.name]
  BY <1>5, LookupOutside DEF TypeSymbol, Resolve
<1> QED
  BY <1>2, <1>3, <1>4, <1>5, <1>6, <1>7, <1>8, <1>9

LEMMA ReachedIsKnown ==
  ASSUME Collecting, CollectDeclaration, ~Flawed', NEW c \in Reached
  PROVE  c \in Pending /\ Known(ResolvedAlias(Scopes, c))
<1>1. PICK r \in Refs(Decl) : IsPending(TypeSymbol(Scopes, r)) /\ c \in Chain(Scopes, TypeSymbol(Scopes, r))
  BY DEF Reached, Used
<1>2. PICK a : a = TypeSymbol(Scopes, r)
  OBVIOUS
<1>3. a \in Pending /\ r.base \notin Basic
  BY <1>1, <1>2, PendingIsHere, TypeSymbolIs DEF IsPending
<1>4. \A q \in RefsOf(Decl) : ResolveType(Scopes, q) # Unknown
  BY CollectTypes DEF Bad, Flawed, Collecting
<1>5. ResolvedAlias(Scopes, a) # Unknown
  <2>1. CASE r \in RefsOf(Decl)
    BY <1>1, <1>2, <1>3, <1>4, <2>1 DEF ResolveType
  <2>2. CASE r \notin RefsOf(Decl)
    <3>1. Decl.kind = "imago" /\ r = [mod |-> "", base |-> Decl.name]
      BY <2>2 DEF Refs
    <3>2. a.id = <<file, decl>> /\ Decl = AllDecls(file)[decl] /\ Decl.type \in RefsOf(Decl)
      BY <1>2, <3>1, AliasAtHand
    <3>3. DeclOf(a.id) = Decl
      BY <3>2 DEF DeclOf, AllDecls
    <3>4. PICK q : q = Decl.type
      OBVIOUS
    <3>5. ResolveType(Scopes, q) = ResolvedAlias(Scopes, a)
      BY <1>3, <3>3, <3>4, AliasIsTarget
    <3> QED
      BY <1>4, <3>2, <3>4, <3>5
  <2> QED
    BY <2>1, <2>2
<1>6. c \in Pending /\ ResolvedAlias(Scopes, c) = ResolvedAlias(Scopes, a)
  BY <1>1, <1>2, <1>3, TargetsHere, ChainWithin, ChainsAgree
<1> QED
  BY <1>3, <1>5, <1>6, AliasIsKnown

LEMMA AfterForce ==
  ASSUME Collecting, CollectDeclaration, NEW n \in DOMAIN scope[file]
  PROVE  /\ n \in DOMAIN scope'[file]
         /\ scope'[file][n] = IF scope[file][n] \in Reached
                              THEN [scope[file][n] EXCEPT !.type = ResolvedAlias(Scopes, scope[file][n])]
                              ELSE scope[file][n]
<1>1. n \in DOMAIN scope'[file] /\ scope'[file][n] = Forced(Refs(Decl))[n]
  BY CollectTypes DEF Collecting
<1>2. Forced(Refs(Decl)) = [m \in DOMAIN scope[file] |->
                              IF scope[file][m] \in Reached
                              THEN [scope[file][m] EXCEPT !.type = ResolvedAlias(Scopes, scope[file][m])]
                              ELSE scope[file][m]]
  BY DEF Forced, Reached, Used
<1> QED
  BY <1>1, <1>2

LEMMA ReachedGetsType ==
  ASSUME Collecting, CollectDeclaration, NEW n \in DOMAIN scope[file], scope[file][n] \in Reached
  PROVE  /\ scope'[file][n].type = ResolvedAlias(Scopes, scope[file][n])
         /\ scope'[file][n].kind = scope[file][n].kind /\ scope'[file][n].id = scope[file][n].id
<1>1. PICK s, t : s = scope[file][n] /\ t = ResolvedAlias(Scopes, s)
  OBVIOUS
<1>2. scope'[file][n] = [s EXCEPT !.type = t]
  BY <1>1, AfterForce
<1>3. s = [kind |-> s.kind, type |-> s.type, pub |-> s.pub, id |-> s.id, alias |-> s.alias]
  BY <1>1 DEF Collecting, PlaceInv, SymbolsInv, SymbolInv, IsSymbol
<1> QED
  BY <1>1, <1>2, <1>3

\* A type that is no error, and no alias left without a type, is fixed.
LEMMA RefIsFixed ==
  ASSUME Collecting, CollectDeclaration, [IrNext]_<<vars, irVars>>, ~Flawed', NEW r, NEW f, f = file, NEW t,
         t = ResolveType(Scopes, r), t # Unknown,
         IsPending(TypeSymbol(Scopes, r)) => TypeSymbol(Scopes, r) \in Reached
  PROVE  Known(t) /\ Fixed(f, r, t)'
<1>1. PICK s : s = TypeSymbol(Scopes, r)
  OBVIOUS
<1>2. CASE r.base \in Basic
  BY <1>2, BasicIsKnown DEF ResolveType, Fixed
<1>3. CASE r.base \notin Basic
  <2>1. t = IF IsPending(s) THEN ResolvedAlias(Scopes, s) ELSE TypeOfSymbol(s)
    BY <1>1, <1>3 DEF ResolveType
  <2>2. Known(t)
    <3>1. CASE IsPending(s)
      BY <1>1, <2>1, <3>1, ReachedIsKnown
    <3>2. CASE ~IsPending(s)
      BY <1>1, <2>1, <3>2, SymbolIsKnown
    <3> QED
      BY <3>1, <3>2
  <2>3. s.kind \in {"forma", "imago"}
    <3>1. CASE IsPending(s)
      BY <3>1 DEF IsPending
    <3>2. CASE ~IsPending(s)
      BY <1>1, <2>1, <3>2, SymbolIsKnown
    <3> QED
      BY <3>1, <3>2
  <2>4. PICK h \in DOMAIN prog : \E d \in DOMAIN AllDecls(h) :
          MayMean(file, r, h, d) /\ r.base \in DOMAIN scope[h] /\ s = scope[h][r.base]
    BY <1>1, <2>3, TypeSymbolIs
  <2>5. PICK d \in DOMAIN AllDecls(h) :
          MayMean(file, r, h, d) /\ r.base \in DOMAIN scope[h] /\ s = scope[h][r.base]
    BY <2>4
  <2>6. r.base \in DOMAIN scope'[h] /\ t = scope'[h][r.base].type
    <3>1. CASE IsPending(s)
      <4>1. r.base \in DOMAIN scope[file] /\ s = scope[file][r.base] /\ s \in Reached
        BY <1>1, <3>1, PendingIsHere
      <4>2. h = file
        BY <2>5, <3>1, TypedSymbols DEF SymbolTyped
      <4>3. scope'[file][r.base].type = ResolvedAlias(Scopes, s) /\ r.base \in DOMAIN scope'[file]
        BY <4>1, ReachedGetsType, AfterForce
      <4> QED
        BY <2>1, <3>1, <4>2, <4>3
    <3>2. CASE ~IsPending(s)
      <4>1. t = s.type
        BY <1>1, <2>1, <3>2, SymbolIsKnown
      <4>2. Kept
        BY KeptStep DEF Collecting
      <4>3. s.type # NoType
        BY <2>2, <4>1 DEF Known
      <4> QED
        BY <2>5, <4>1, <4>2, <4>3 DEF Kept
    <3> QED
      BY <3>1, <3>2
  <2>7. prog' = prog
    BY UniverseStays DEF Collecting
  <2>8. MayMean(f, r, h, d)' /\ AllDecls(h)' = AllDecls(h)
    BY <2>5, <2>7 DEF MayMean, AllDecls
  <2> QED
    BY <1>3, <2>2, <2>5, <2>6, <2>7, <2>8 DEF Fixed
<1> QED
  BY <1>2, <1>3

LEMMA ReachedIsFixed ==
  ASSUME Collecting, CollectDeclaration, [IrNext]_<<vars, irVars>>, ~Flawed', NEW c \in Reached, NEW f, f = file,
         NEW r, r = DeclOf(c.id).type, NEW t, t = ResolvedAlias(Scopes, c)
  PROVE  Known(t) /\ Fixed(f, r, t)'
<1>1. c \in Pending /\ Known(t)
  BY ReachedIsKnown
<1>2. t = ResolveType(Scopes, r)
  BY <1>1, AliasIsTarget
<1>3. IsPending(TypeSymbol(Scopes, r)) => TypeSymbol(Scopes, r) \in Reached
  <2>1. PICK a \in Used : c \in Chain(Scopes, a)
    BY DEF Reached
  <2>2. a \in Pending
    BY <2>1, PendingIsHere DEF Used
  <2>3. IsPending(Target(c)) => Target(c) \in Chain(Scopes, a)
    BY <2>1, <2>2, TargetsHere, ChainGoesOn
  <2>4. Target(c) = TypeSymbol(Scopes, r)
    BY DEF Target, Behind
  <2> QED
    BY <2>1, <2>3, <2>4 DEF Reached
<1>4. t # Unknown
  BY <1>1 DEF Known
<1> QED
  BY <1>1, <1>2, <1>3, <1>4, RefIsFixed

\* What the declaration at hand refers to.
LEMMA WrittenIsFixed ==
  ASSUME Collecting, CollectDeclaration, [IrNext]_<<vars, irVars>>, ~Flawed', NEW r \in RefsOf(Decl),
         NEW f, f = file, NEW t, t = ResolveType(Scopes, r)
  PROVE  Known(t) /\ Fixed(f, r, t)'
<1>1. t # Unknown
  BY CollectTypes DEF Bad, Flawed, Collecting
<1>2. IsPending(TypeSymbol(Scopes, r)) => TypeSymbol(Scopes, r) \in Reached
  <2>1. ASSUME IsPending(TypeSymbol(Scopes, r)) PROVE TypeSymbol(Scopes, r) \in Reached
    <3>1. TypeSymbol(Scopes, r) \in Used
      BY <2>1 DEF Used, Refs
    <3>2. TypeSymbol(Scopes, r) \in Pending
      BY <2>1, PendingIsHere
    <3> QED
      BY <3>1, <3>2, ChainIs DEF Reached
  <2> QED
    BY <2>1
<1> QED
  BY <1>1, <1>2, RefIsFixed

\* An alias still without a type is declared later in the same file.
LEMMA StillPending ==
  ASSUME Collecting, CollectDeclaration, ~Flawed', NEW n \in DOMAIN scope[file], IsPending(scope'[file][n])
  PROVE  /\ scope'[file][n] = scope[file][n]
         /\ pass' = "collect" /\ file' = file /\ decl' = decl + 1
         /\ \A d \in Collected(file) : AllDecls(file)[d].name = n => d > decl
<1>1. scope[file][n] \notin Reached
  <2>1. ASSUME scope[file][n] \in Reached PROVE FALSE
    <3>1. scope'[file][n].type = ResolvedAlias(Scopes, scope[file][n])
      BY <2>1, ReachedGetsType
    <3>2. Known(ResolvedAlias(Scopes, scope[file][n]))
      BY <2>1, ReachedIsKnown
    <3> QED
      BY <3>1, <3>2 DEF Known, IsPending
  <2> QED
    BY <2>1
<1>2. scope'[file][n] = scope[file][n]
  BY <1>1, AfterForce
<1>3. file \in DOMAIN prog /\ IsPending(scope[file][n]) /\ Moves /\ decl \in Nat /\ pass = "collect"
  BY <1>2, WhoAdvances DEF Collecting, PlaceInv
<1>4. ASSUME NEW d \in Collected(file), AllDecls(file)[d].name = n PROVE d > decl /\ d \in 1 .. Len(Decls)
  <2>1. PICK x : x = AllDecls(file)[d]
    OBVIOUS
  <2>2. scope[file][n] = Symbol(x.kind, scope[file][n].type, x.pub, <<file, d>>)
    BY <1>3, <1>4, <2>1, FlawlessFacts DEF OwnInv, Collecting
  <2>3. x.kind = "imago" /\ scope[file][n].type = NoType
    BY <1>3, <2>2 DEF IsPending, Symbol
  <2>4. DeclTyped(file, d)
    BY <1>3, <1>4, TypedSymbols
  <2>5. ~Fixed(file, x.type, NoType)
    BY BasicIsKnown DEF Fixed, Known
  <2>6. ~Begun(file, d)
    BY <1>4, <2>1, <2>3, <2>4, <2>5 DEF DeclTyped
  <2>7. Decls = AllDecls(file) /\ d \in DOMAIN AllDecls(file) /\ Len(AllDecls(file)) \in Nat
        /\ DOMAIN AllDecls(file) = 1 .. Len(AllDecls(file)) /\ file \in Nat
    BY <1>3, <1>4, ProgramIsProper, DeclAtHand DEF Collected, Collecting
  <2>8. d >= decl
    BY <1>3, <2>6, <2>7 DEF Begun
  <2>9. d # decl
    <3>1. ASSUME d = decl PROVE FALSE
      <4>1. decl \in DOMAIN Decls
        BY <2>7, <3>1
      <4>2. Decl = x
        BY <2>1, <3>1, <4>1, DeclAtHand DEF Collecting
      <4>3. TypeSymbol(Scopes, [mod |-> "", base |-> Decl.name]) = scope[file][n]
        BY <1>4, <2>1, <2>3, <4>2, AliasAtHand
      <4>4. [mod |-> "", base |-> Decl.name] \in Refs(Decl)
        BY <2>3, <4>2 DEF Refs
      <4>5. scope[file][n] \in Used
        BY <1>3, <4>3, <4>4 DEF Used
      <4>6. scope[file][n] \in Pending
        BY <1>3 DEF Pending
      <4>7. scope[file][n] \in Reached
        BY <4>5, <4>6, ChainIs DEF Reached
      <4> QED
        BY <1>1, <4>7
    <3> QED
      BY <3>1
  <2> QED
    BY <1>3, <2>7, <2>8, <2>9
<1>5. PICK d \in Collected(file) : AllDecls(file)[d].name = n
  BY <1>3, OwnSymbol
<1>6. decl < Len(Decls)
  <2>1. d > decl /\ d \in 1 .. Len(Decls)
    BY <1>4, <1>5
  <2>2. Len(Decls) \in Nat
    BY <1>3, ProgramIsProper, DeclAtHand DEF Collecting
  <2> QED
    BY <1>3, <2>1, <2>2
<1>7. pass' = "collect" /\ file' = file /\ decl' = decl + 1
  BY <1>3, <1>6 DEF Moves
<1> QED
  BY <1>2, <1>4, <1>7

LEMMA SymbolTypedStays ==
  ASSUME NEW g, NEW s, SymbolTyped(g, s), ~IsPending(s)
  PROVE  SymbolTyped(g, s)'
  BY DEF SymbolTyped

\* The symbols after a declaration has been collected ...
LEMMA CollectedSymbols ==
  ASSUME Collecting, CollectDeclaration, [IrNext]_<<vars, irVars>>, ~Flawed',
         NEW g \in DOMAIN prog, NEW n \in DOMAIN scope'[g], NEW s, s = scope'[g][n]
  PROVE  SymbolTyped(g, s)'
<1>1. CASE g # file
  <2>1. scope'[g] = scope[g]
    BY <1>1, CollectTypes DEF Collecting
  <2>2. SymbolTyped(g, s)
    BY <2>1, TypedSymbols
  <2>3. ~IsPending(s)
    BY <1>1, <2>2 DEF SymbolTyped
  <2> QED
    BY <2>2, <2>3, SymbolTypedStays
<1>2. CASE g = file /\ n \in DOMAIN scope[file] /\ scope[file][n] \in Reached
  <2>1. s.type = ResolvedAlias(Scopes, scope[file][n])
    BY <1>2, ReachedGetsType
  <2>2. Known(s.type)
    BY <1>2, <2>1, ReachedIsKnown
  <2> QED
    BY <2>2 DEF Known, SymbolTyped, Typed, IsPending
<1>3. CASE g = file /\ n \in DOMAIN scope[file] /\ scope[file][n] \notin Reached
  <2>1. s = scope[file][n]
    BY <1>3, AfterForce
  <2>2. SymbolTyped(g, s)
    BY <1>3, <2>1, TypedSymbols
  <2>3. CASE IsPending(s)
    <3>1. pass' = "collect" /\ file' = file
      BY <1>3, <2>3, StillPending
    <3> QED
      BY <1>3, <2>2, <3>1 DEF SymbolTyped
  <2>4. CASE ~IsPending(s)
    BY <2>2, <2>4, SymbolTypedStays
  <2> QED
    BY <2>3, <2>4
<1>4. CASE g = file /\ n \notin DOMAIN scope[file]
  <2>1. Decl.kind \in {"sit", "lex", "actio"} /\ n = Decl.name
    BY <1>4, CollectTypes DEF Collecting
  <2>2. s = Symbol(Decl.kind, TypeOfDecl(Decl), Decl.pub, <<file, decl>>)
    BY <1>4, <2>1, CollectTypes DEF Collecting
  <2>3. s.type = TypeOfDecl(Decl) /\ s.kind = Decl.kind
    BY <2>2 DEF Symbol
  <2>4. \A r \in RefsOf(Decl) : Known(ResolveType(Scopes, r))
    <3>1. ASSUME NEW r \in RefsOf(Decl) PROVE Known(ResolveType(Scopes, r))
      <4>1. PICK f, t : f = file /\ t = ResolveType(Scopes, r)
        OBVIOUS
      <4> QED
        BY <3>1, <4>1, WrittenIsFixed
    <3> QED
      BY <3>1
  <2>5. Typed(s.type)
    <3>1. CASE Decl.kind = "actio"
      <4>1. Decl.type \in RefsOf(Decl)
        BY <3>1 DEF RefsOf
      <4>2. PICK t, ps : s.type = <<"actio", t, ps>> /\ t = ResolveType(Scopes, Decl.type)
        BY <2>3, <3>1 DEF TypeOfDecl
      <4>3. Known(t)
        BY <2>4, <4>1, <4>2
      <4> QED
        BY <4>2, <4>3 DEF Typed, IsActio, Known
    <3>2. CASE Decl.kind # "actio" /\ Decl.type = NoRef
      BY <2>3, <3>2 DEF TypeOfDecl, Typed, IsActio, NoType, Unknown
    <3>3. CASE Decl.kind # "actio" /\ Decl.type # NoRef
      <4>1. Decl.type \in RefsOf(Decl)
        BY <2>1, <3>3 DEF RefsOf
      <4>2. s.type = ResolveType(Scopes, Decl.type)
        BY <2>3, <3>3 DEF TypeOfDecl
      <4> QED
        BY <2>4, <4>1, <4>2 DEF Typed, Known
    <3> QED
      BY <3>1, <3>2, <3>3
  <2> QED
    BY <2>1, <2>3, <2>5 DEF SymbolTyped, IsPending
<1> QED
  BY <1>1, <1>2, <1>3, <1>4

LEMMA FixedIsTyped ==
  ASSUME NEW f, NEW r, NEW t, Fixed(f, r, t)
  PROVE  Known(t)
  BY BasicIsKnown DEF Fixed

\* ... and what is known of the declarations.
LEMMA CollectedDecls ==
  ASSUME Collecting, CollectDeclaration, [IrNext]_<<vars, irVars>>, ~Flawed',
         NEW g \in DOMAIN prog, NEW d \in Collected(g)'
  PROVE  DeclTyped(g, d)'
<1>1. /\ Moves /\ prog' = prog /\ PlaceInv /\ OwnInv /\ pass = "collect" /\ pass' # "rejected" /\ decl > 0
      /\ file \in DOMAIN prog
  BY WhoAdvances DEF Collecting, Flawed, CollectDeclaration, PlaceInv
<1>2. AllDecls(g)' = AllDecls(g) /\ d \in DOMAIN AllDecls(g)
  BY <1>1 DEF AllDecls, Collected
<1>3. PICK x : x = AllDecls(g)[d]
  OBVIOUS
<1>4. d \in Collected(g) \/ (g = file /\ d = decl /\ d \notin Collected(g) /\ x.kind # "importa")
  BY <1>1, <1>2, <1>3, CollectedStep DEF Collecting
<1>5. Kept
  BY KeptStep DEF Collecting
<1>6. pass' \in {"collect", "imports"}
  BY <1>1, MovesOn DEF NextPass
<1>7. PICK t : t = scope'[g][x.name].type
  OBVIOUS
<1>8. SUFFICES /\ x.kind = "imago" => Fixed(g, x.type, t)' \/ (t = NoType /\ pass' = "collect" /\ ~Begun(g, d)')
               /\ x.kind = "actio" => FixedActio(g, x, t)'
               /\ x.kind \in {"sit", "lex"} /\ x.type # NoRef => Fixed(g, x.type, t)'
  BY <1>2, <1>3, <1>6, <1>7 DEF DeclTyped, Later
<1>9. CASE d \in Collected(g)
  <2>1. /\ x.name \in DOMAIN scope[g]
        /\ scope[g][x.name] = Symbol(x.kind, scope[g][x.name].type, x.pub, <<g, d>>)
    BY <1>3, <1>9, FlawlessFacts DEF OwnInv, Collecting
  <2>2. PICK s : s = scope[g][x.name]
    OBVIOUS
  <2>3. s.kind = x.kind /\ s.id = <<g, d>>
    BY <2>1, <2>2 DEF Symbol
  <2>4. DeclTyped(g, d)
    BY <1>9, TypedSymbols
  <2>5. s.type # NoType => t = s.type
    BY <1>5, <1>7, <2>1, <2>2 DEF Kept
  <2>6. x.kind = "imago" => Fixed(g, x.type, t)' \/ (t = NoType /\ pass' = "collect" /\ ~Begun(g, d)')
    <3>1. ASSUME x.kind = "imago", Fixed(g, x.type, s.type) PROVE Fixed(g, x.type, t)'
      <4>1. s.type # NoType
        BY <3>1, FixedIsTyped DEF Known
      <4> QED
        BY <1>1, <1>5, <2>5, <3>1, <4>1, FixedStays
    <3>2. ASSUME x.kind = "imago", s.type = NoType, s \in Reached, g = file PROVE Fixed(g, x.type, t)'
      <4>1. DeclOf(s.id) = x
        BY <1>3, <2>3 DEF DeclOf, AllDecls
      <4>2. t = ResolvedAlias(Scopes, s)
        BY <1>7, <2>1, <2>2, <3>2, ReachedGetsType
      <4>3. PICK r : r = DeclOf(s.id).type
        OBVIOUS
      <4>4. Fixed(g, r, t)'
        BY <3>2, <4>2, <4>3, ReachedIsFixed
      <4> QED
        BY <4>1, <4>3, <4>4
    <3>3. ASSUME x.kind = "imago", s.type = NoType, s \notin Reached, g = file
          PROVE  t = NoType /\ pass' = "collect" /\ ~Begun(g, d)'
      <4>1. scope'[g][x.name] = s
        BY <2>1, <2>2, <3>3, AfterForce
      <4>2. IsPending(scope'[file][x.name])
        BY <2>3, <3>3, <4>1 DEF IsPending
      <4>3. pass' = "collect" /\ file' = file /\ decl' = decl + 1 /\ d > decl
        BY <1>3, <1>9, <2>1, <3>3, <4>2, StillPending
      <4>4. decl \in Nat /\ d \in Nat /\ file \in Nat
        BY <1>1, <1>2, ProgramIsProper DEF PlaceInv
      <4>5. ~Begun(g, d)'
        BY <3>3, <4>3, <4>4 DEF Begun
      <4> QED
        BY <1>7, <3>3, <4>1, <4>3, <4>5
    <3>4. x.kind = "imago" /\ s.type = NoType => g = file
      <4>1. SymbolTyped(g, s)
        BY <2>1, <2>2, TypedSymbols
      <4> QED
        BY <2>3, <4>1 DEF SymbolTyped, IsPending
    <3>5. x.kind = "imago" => Fixed(g, x.type, s.type) \/ s.type = NoType
      BY <1>3, <2>2, <2>4 DEF DeclTyped
    <3> QED
      BY <3>1, <3>2, <3>3, <3>4, <3>5
  <2>7. x.kind = "actio" => FixedActio(g, x, t)'
    <3>1. ASSUME x.kind = "actio" PROVE FixedActio(g, x, t)'
      <4>1. FixedActio(g, x, s.type)
        BY <1>3, <2>2, <2>4, <3>1 DEF DeclTyped
      <4>2. s.type # NoType
        <5>1. \A a, b : <<"actio", a, b>> # <<>>
          OBVIOUS
        <5> QED
          BY <4>1, <5>1 DEF FixedActio, NoType
      <4> QED
        BY <1>1, <1>5, <2>5, <4>1, <4>2, FixedActioStays
    <3> QED
      BY <3>1
  <2>8. x.kind \in {"sit", "lex"} /\ x.type # NoRef => Fixed(g, x.type, t)'
    <3>1. ASSUME x.kind \in {"sit", "lex"}, x.type # NoRef PROVE Fixed(g, x.type, t)'
      <4>1. Fixed(g, x.type, s.type)
        BY <1>3, <2>2, <2>4, <3>1 DEF DeclTyped
      <4>2. s.type # NoType
        BY <4>1, FixedIsTyped DEF Known
      <4> QED
        BY <1>1, <1>5, <2>5, <4>1, <4>2, FixedStays
    <3> QED
      BY <3>1
  <2> QED
    BY <2>6, <2>7, <2>8
<1>10. CASE g = file /\ d = decl /\ d \notin Collected(g) /\ x.kind # "importa"
  <2>1. decl \in DOMAIN Decls /\ Decls = AllDecls(file)
    BY <1>1, <1>2, <1>10, DeclAtHand
  <2>2. Decl = x
    BY <1>1, <1>3, <1>10, <2>1, DeclAtHand
  <2>3. x.kind # "imago"
    BY <1>1, <1>10, <2>2, AliasAtHand
  <2>4. ASSUME x.kind \in {"sit", "lex", "actio"} PROVE t = TypeOfDecl(x)
    <3>1. x.name \notin DOMAIN scope[file]
      BY <2>2, <2>4, CollectTypes DEF Flawed, Collecting
    <3>2. scope'[file][x.name] = Symbol(x.kind, TypeOfDecl(x), x.pub, <<file, decl>>)
      BY <2>2, <2>4, <3>1, CollectTypes DEF Collecting
    <3>3. PICK ty : ty = TypeOfDecl(x)
      OBVIOUS
    <3> QED
      BY <1>7, <1>10, <3>2, <3>3 DEF Symbol
  <2>5. ASSUME NEW r \in RefsOf(x), NEW u, u = ResolveType(Scopes, r) PROVE Fixed(g, r, u)'
    BY <1>10, <2>2, <2>5, WrittenIsFixed
  <2>6. ASSUME x.kind = "actio" PROVE FixedActio(g, x, t)'
    <3>1. t = <<"actio", ResolveType(Scopes, x.type), [i \in DOMAIN x.params |-> ResolveType(Scopes, Params(x)[i])]>>
      BY <2>4, <2>6 DEF TypeOfDecl
    <3>2. PICK u, v : u = ResolveType(Scopes, x.type) /\ v = [i \in DOMAIN x.params |-> ResolveType(Scopes, Params(x)[i])]
      OBVIOUS
    <3>3. t = <<"actio", u, v>> /\ t[2] = u /\ t[3] = v
      BY <3>1, <3>2
    <3>4. x.type \in RefsOf(x) /\ \A i \in DOMAIN x.params : Params(x)[i] \in RefsOf(x) /\ Params(x)[i] = x.params[i].type
      BY <2>6 DEF RefsOf, Params
    <3>5. Fixed(g, x.type, u)'
      BY <2>5, <3>2, <3>4
    <3>6. ASSUME NEW i \in DOMAIN x.params PROVE Fixed(g, x.params[i].type, v[i])'
      <4>1. v[i] = ResolveType(Scopes, Params(x)[i])
        BY <3>2, <3>6
      <4>2. PICK w, r : w = v[i] /\ r = x.params[i].type
        OBVIOUS
      <4>3. r \in RefsOf(x) /\ w = ResolveType(Scopes, r)
        BY <3>4, <3>6, <4>1, <4>2
      <4>4. Fixed(g, r, w)'
        BY <2>5, <4>3
      <4> QED
        BY <4>2, <4>4
    <3>7. v = [i \in DOMAIN x.params |-> v[i]]
      BY <3>2
    <3> QED
      BY <3>3, <3>5, <3>6, <3>7 DEF FixedActio
  <2>7. ASSUME x.kind \in {"sit", "lex"}, x.type # NoRef PROVE Fixed(g, x.type, t)'
    <3>1. t = ResolveType(Scopes, x.type)
      BY <2>4, <2>7 DEF TypeOfDecl
    <3>2. x.type \in RefsOf(x)
      BY <2>7 DEF RefsOf
    <3> QED
      BY <2>5, <3>1, <3>2
  <2> QED
    BY <2>3, <2>6, <2>7
<1> QED
  BY <1>4, <1>9, <1>10

-----------------------------------------------------------------------------
(* After the declarations have been collected. *)

\* A global without a type is one that the fourth pass has yet to reach.
LEMMA UntypedStays ==
  ASSUME PlaceInv, [IrNext]_<<vars, irVars>>, ~Flawed', pass # "collect",
         NEW g \in DOMAIN prog, NEW d \in Collected(g), AllDecls(g)[d].kind \in {"sit", "lex"},
         pass \notin Later, pass = "bodies" => ~Begun(g, d)
  PROVE  \/ pass' \notin Later /\ (pass' = "bodies" => ~Begun(g, d)')
         \/ CheckGlobal /\ pass' # "crashed" /\ g = file /\ d = decl
<1>1. d \in DOMAIN AllDecls(g) /\ AllDecls(g)[d].kind # "importa" /\ pass # "modules"
  BY DEF Collected
<1>2. prog' = prog
  BY UniverseStays
<1>3. pass' # "rejected"
  BY DEF Flawed
<1>4. CASE \/ RegisterModule \/ CollectTypeNames \/ CollectDeclaration \/ ImportDeclaration
           \/ CheckGlobal /\ pass' # "crashed"
           \/ EnterFunction /\ stmt' = 0
           \/ LeaveFunction \/ SkipDeclaration
  <2>1. Moves /\ pass \in {"imports", "bodies"}
    BY <1>1, <1>4, WhoAdvances
  <2>2. \/ /\ pass' = pass
           /\ Begun(g, d)' <=> Begun(g, d) \/ (g = file /\ d = decl)
        \/ /\ pass' = NextPass(pass) /\ file' = 1 /\ decl' = First(pass')
           /\ Begun(g, d) \/ (g = file /\ d = decl)
    BY <1>1, <1>2, <1>3, <2>1, AdvanceBegins
  <2>3. CASE pass = "imports"
    <3>1. CASE pass' = pass
      BY <2>3, <3>1 DEF Later
    <3>2. CASE pass' = "bodies" /\ file' = 1 /\ decl' = 1
      <4>1. g \in Nat /\ d \in Nat /\ g > 0 /\ d > 0
        BY <1>1, ProgramIsProper
      <4>2. ~Begun(g, d)'
        BY <3>2, <4>1 DEF Begun
      <4> QED
        BY <3>2, <4>2 DEF Later
    <3> QED
      BY <2>2, <2>3, <3>1, <3>2 DEF NextPass, First
  <2>4. CASE pass = "bodies" /\ ~(g = file /\ d = decl)
    <3>1. pass' = pass /\ ~Begun(g, d)'
      BY <2>2, <2>4
    <3> QED
      BY <2>4, <3>1 DEF Later
  <2>5. CASE pass = "bodies" /\ g = file /\ d = decl
    <3>1. Decl = AllDecls(g)[d]
      BY <1>1, <2>5, DeclAtHand
    <3>2. CheckGlobal /\ pass' # "crashed"
      BY <1>4, <2>5, <3>1 DEF RegisterModule, CollectTypeNames, CollectDeclaration, ImportDeclaration,
                              EnterFunction, LeaveFunction, SkipDeclaration
    <3> QED
      BY <2>5, <3>2
  <2> QED
    BY <2>1, <2>3, <2>4, <2>5
<1>5. CASE \/ EnterFunction /\ stmt' # 0
           \/ OpenBlock \/ CloseBlock
           \/ (DeclareLocal \/ Evaluate \/ Return) /\ pass' # "crashed"
  <2>1. UNCHANGED <<pass, file, decl>>
    BY <1>5, WhoFollows
  <2> QED
    BY <2>1 DEF Begun
<1>6. CASE Crash /\ pass = "bodies"
  BY <1>6 DEF Crash, Later
<1>7. CASE Generate \/ Register \/ EvaluateConstant \/ EmitGlobal \/ EmitBody \/ EmitNothing
  BY <1>7, WhoGenerates
<1>8. CASE UNCHANGED <<vars, irVars>>
  BY <1>8 DEF vars, Begun
<1> QED
  BY <1>4, <1>5, <1>6, <1>7, <1>8, CheckStepKinds DEF IrNext

\* What is known of a declaration that keeps its symbol.
LEMMA DeclTypedStays ==
  ASSUME PlaceInv, OwnInv, SymbolsInv, ScopeInv, [IrNext]_<<vars, irVars>>, ~Flawed', pass # "collect",
         NEW g \in DOMAIN prog, NEW d \in Collected(g), DeclTyped(g, d),
         CheckGlobal /\ pass' # "crashed" /\ g = file /\ d = decl =>
           scope'[g][AllDecls(g)[d].name].type # NoType
  PROVE  DeclTyped(g, d)'
<1>1. prog' = prog /\ Kept /\ ~Flawed
  BY UniverseStays, KeptStep, FlawedStays
<1>2. PICK x : x = AllDecls(g)[d]
  OBVIOUS
<1>3. x = AllDecls(g)'[d]
  BY <1>1, <1>2 DEF AllDecls
<1>4. x.name \in DOMAIN scope[g]
  BY <1>1, <1>2, FlawlessFacts DEF OwnInv
<1>5. PICK t, u : t = scope[g][x.name].type /\ u = scope'[g][x.name].type
  OBVIOUS
<1>6. t # NoType => u = t
  BY <1>1, <1>4, <1>5 DEF Kept
<1>7. /\ x.kind = "imago" => Fixed(g, x.type, t)
      /\ x.kind = "actio" => FixedActio(g, x, t)
      /\ x.kind \in {"sit", "lex"} =>
           IF x.type # NoRef THEN Fixed(g, x.type, t)
           ELSE t # NoType \/ (pass \notin Later /\ (pass = "bodies" => ~Begun(g, d)))
  BY <1>2, <1>5 DEF DeclTyped
<1>8. ASSUME NEW r, Fixed(g, r, t) PROVE Fixed(g, r, u)'
  <2>1. u = t
    BY <1>6, <1>8, FixedIsTyped DEF Known
  <2>2. Fixed(g, r, t)'
    BY <1>1, <1>8, FixedStays
  <2> QED
    BY <2>1, <2>2
<1>9. ASSUME FixedActio(g, x, t) PROVE FixedActio(g, x, u)'
  <2>1. t # NoType
    <3>1. \A a, b : <<"actio", a, b>> # <<>>
      OBVIOUS
    <3> QED
      BY <1>9, <3>1 DEF FixedActio, NoType
  <2>2. u = t
    BY <1>6, <2>1
  <2>3. FixedActio(g, x, t)'
    BY <1>1, <1>9, FixedActioStays
  <2> QED
    BY <2>2, <2>3
<1>10. ASSUME x.kind \in {"sit", "lex"}, x.type = NoRef
       PROVE  u # NoType \/ (pass' \notin Later /\ (pass' = "bodies" => ~Begun(g, d)'))
  <2>1. CASE t # NoType
    BY <1>6, <2>1
  <2>2. CASE t = NoType
    <3>1. pass \notin Later /\ (pass = "bodies" => ~Begun(g, d))
      BY <1>7, <1>10, <2>2
    <3>2. \/ pass' \notin Later /\ (pass' = "bodies" => ~Begun(g, d)')
          \/ CheckGlobal /\ pass' # "crashed" /\ g = file /\ d = decl
      BY <1>2, <1>10, <3>1, UntypedStays
    <3> QED
      BY <1>2, <1>5, <3>2
  <2> QED
    BY <2>1, <2>2
<1> QED
  BY <1>3, <1>5, <1>7, <1>8, <1>9, <1>10 DEF DeclTyped

\* The types of a file as the second pass first enters them.
LEMMA TypeNameTypes ==
  ASSUME PlaceInv, CollectTypeNames, NEW n \in DOMAIN scope'[file], NEW s, s = scope'[file][n]
  PROVE  /\ s.kind \in {"forma", "imago"}
         /\ s.type = IF s.kind = "forma" THEN <<"forma", n>> ELSE NoType
         /\ \E d \in DOMAIN AllDecls(file) : TRUE
<1> DEFINE types == {d \in DOMAIN Decls : Decls[d].kind \in {"forma", "imago"}}
           names == {Decls[d].name : d \in types}
           FirstOf(m) == CHOOSE d \in {e \in types : Decls[e].name = m} :
                           \A e \in {e \in types : Decls[e].name = m} : d <= e
<1>1. scope' = [scope EXCEPT ![file] =
                  [m \in names |->
                     Symbol(Decls[FirstOf(m)].kind,
                            IF Decls[FirstOf(m)].kind = "forma" THEN <<"forma", m>> ELSE NoType,
                            Decls[FirstOf(m)].pub, <<file, FirstOf(m)>>)]]
  BY DEF CollectTypeNames
<1>2. /\ types = {d \in DOMAIN Decls : Decls[d].kind \in {"forma", "imago"}}
      /\ names = {Decls[d].name : d \in types}
      /\ \A m : FirstOf(m) = CHOOSE d \in {e \in types : Decls[e].name = m} :
                              \A e \in {e \in types : Decls[e].name = m} : d <= e
  OBVIOUS
<1> HIDE DEF types, names, FirstOf
<1>3. /\ file \in DOMAIN prog /\ scope = [f \in DOMAIN prog |-> scope[f]]
      /\ Len(Decls) \in Nat /\ DOMAIN Decls = 1 .. Len(Decls) /\ Decls = AllDecls(file)
  BY ProgramIsProper, DeclAtHand DEF PlaceInv
<1>4. scope'[file] = [m \in names |->
                     Symbol(Decls[FirstOf(m)].kind,
                            IF Decls[FirstOf(m)].kind = "forma" THEN <<"forma", m>> ELSE NoType,
                            Decls[FirstOf(m)].pub, <<file, FirstOf(m)>>)]
  BY <1>1, <1>3
<1>5. n \in names
  BY <1>4
<1>6. PICK U : U = {e \in types : Decls[e].name = n}
  OBVIOUS
<1>7. U # {} /\ U \in SUBSET Nat
  BY <1>2, <1>3, <1>5, <1>6
<1>8. FirstOf(n) = Least(U)
  BY <1>2, <1>6 DEF Least
<1>9. PICK d : d = FirstOf(n)
  OBVIOUS
<1>10. d \in U
  BY <1>7, <1>8, <1>9, LeastIsMember
<1>11. d \in DOMAIN AllDecls(file) /\ Decls[d].kind \in {"forma", "imago"}
  BY <1>2, <1>3, <1>6, <1>10
<1>12. PICK k, p, id : k = Decls[d].kind /\ p = Decls[d].pub /\ id = <<file, d>>
  OBVIOUS
<1>13. s = Symbol(k, IF k = "forma" THEN <<"forma", n>> ELSE NoType, p, id)
  BY <1>4, <1>5, <1>9, <1>12
<1>14. s.kind = k /\ s.type = IF k = "forma" THEN <<"forma", n>> ELSE NoType
  BY <1>13 DEF Symbol
<1> QED
  BY <1>11, <1>12, <1>14

LEMMA TypeNamesTyped ==
  ASSUME PlaceInv, OwnInv, ScopeInv, SymbolsInv, TypesInv, [IrNext]_<<vars, irVars>>, ~Flawed', CollectTypeNames
  PROVE  TypesInv'
<1>1. /\ Moves /\ prog' = prog /\ pass = "collect" /\ decl = 0 /\ pass' # "rejected" /\ ~hadError'
      /\ file \in DOMAIN prog /\ ~Flawed /\ Kept
      /\ \A f \in DOMAIN prog : f # file => scope'[f] = scope[f]
  BY WhoAdvances, FlawedStays, KeptStep DEF Flawed, CollectTypeNames, PlaceInv
<1>2. pass' \in {"collect", "imports"}
  BY <1>1, MovesOn DEF NextPass
<1>3. /\ \A g \in DOMAIN prog : \A n \in DOMAIN scope[g] : SymbolTyped(g, scope[g][n])
      /\ \A g \in DOMAIN prog : \A d \in Collected(g) : DeclTyped(g, d)
  BY <1>1 DEF TypesInv
<1>4. ASSUME \E d \in DOMAIN AllDecls(file) : TRUE PROVE pass' = "collect" /\ file' = file /\ decl' = 1
  <2>1. Len(AllDecls(file)) \in Nat /\ DOMAIN AllDecls(file) = 1 .. Len(AllDecls(file)) /\ Decls = AllDecls(file)
    BY <1>1, ProgramIsProper, DeclAtHand
  <2>2. 0 < Len(Decls)
    BY <1>4, <2>1
  <2> QED
    BY <1>1, <2>2 DEF Moves
<1>5. ASSUME NEW g \in DOMAIN prog, NEW n \in DOMAIN scope'[g], NEW s, s = scope'[g][n] PROVE SymbolTyped(g, s)'
  <2>1. CASE g # file
    <3>1. scope'[g] = scope[g]
      BY <1>1, <2>1
    <3>2. SymbolTyped(g, s)
      BY <1>3, <1>5, <3>1
    <3>3. ~IsPending(s)
      BY <2>1, <3>2 DEF SymbolTyped
    <3> QED
      BY <3>2, <3>3, SymbolTypedStays
  <2>2. CASE g = file
    <3>1. /\ s.kind \in {"forma", "imago"}
          /\ s.type = IF s.kind = "forma" THEN <<"forma", n>> ELSE NoType
          /\ \E d \in DOMAIN AllDecls(file) : TRUE
      BY <1>5, <2>2, TypeNameTypes
    <3>2. pass' = "collect" /\ file' = file
      BY <1>4, <3>1
    <3>3. Typed(s.type) /\ ~IsActio(s.type) /\ (s.kind = "forma" => s.type # NoType)
      BY <3>1 DEF Typed, IsActio, NoType, Unknown
    <3> QED
      BY <2>2, <3>2, <3>3 DEF SymbolTyped
  <2> QED
    BY <2>1, <2>2
<1>6. ASSUME NEW g \in DOMAIN prog, NEW d \in Collected(g)' PROVE DeclTyped(g, d)'
  <2>1. AllDecls(g)' = AllDecls(g) /\ d \in DOMAIN AllDecls(g)
    BY <1>1, <1>6 DEF AllDecls, Collected
  <2>2. d # 0 /\ d \in Nat /\ file \in Nat /\ g \in Nat
    BY <1>1, <2>1, ProgramIsProper
  <2>3. PICK x : x = AllDecls(g)[d]
    OBVIOUS
  <2>4. d \in Collected(g) \/ (g = file /\ x.kind \in {"forma", "imago"})
    BY <1>1, <1>6, <2>1, <2>2, <2>3, CollectedStep
  <2>5. PICK t : t = scope'[g][x.name].type
    OBVIOUS
  <2>6. CASE d \in Collected(g)
    <3>1. g # file /\ Begun(g, d)
      BY <1>1, <2>2, <2>6 DEF Collected, Begun
    <3>2. scope'[g] = scope[g]
      BY <1>1, <3>1
    <3>3. /\ x.kind = "imago" => Fixed(g, x.type, t)
          /\ x.kind = "actio" => FixedActio(g, x, t)
          /\ x.kind \in {"sit", "lex"} => (x.type # NoRef => Fixed(g, x.type, t))
      BY <1>3, <2>3, <2>5, <2>6, <3>1, <3>2 DEF DeclTyped
    <3>4. /\ x.kind = "imago" => Fixed(g, x.type, t)'
          /\ x.kind \in {"sit", "lex"} => (x.type # NoRef => Fixed(g, x.type, t)')
      BY <1>1, <3>3, FixedStays
    <3>5. x.kind = "actio" => FixedActio(g, x, t)'
      BY <1>1, <3>3, FixedActioStays
    <3> QED
      BY <1>2, <2>1, <2>3, <2>5, <3>4, <3>5 DEF DeclTyped, Later
  <2>7. CASE g = file /\ x.kind \in {"forma", "imago"}
    <3>1. pass' = "collect" /\ file' = file /\ decl' = 1
      BY <1>4, <2>1, <2>7
    <3>2. ~Begun(g, d)'
      BY <2>2, <2>7, <3>1 DEF Begun
    <3>3. x.kind = "imago" => t = NoType
      <4>1. Decls = AllDecls(file) /\ Decls[d] = x
        BY <1>1, <2>3, <2>7, DeclAtHand
      <4>2. /\ x.name \in DOMAIN scope'[file]
            /\ scope'[file][x.name] = Symbol(x.kind, scope'[file][x.name].type, x.pub, <<file, d>>)
        BY <1>1, <2>1, <2>7, <4>1, TypesWritten
      <4>3. scope'[file][x.name].kind = x.kind
        BY <4>2 DEF Symbol
      <4>4. scope'[file][x.name].type = IF scope'[file][x.name].kind = "forma" THEN <<"forma", x.name>> ELSE NoType
        BY <4>2, TypeNameTypes
      <4> QED
        BY <2>5, <2>7, <4>3, <4>4
    <3> QED
      BY <2>1, <2>3, <2>5, <2>7, <3>1, <3>2, <3>3 DEF DeclTyped
  <2> QED
    BY <2>4, <2>6, <2>7
<1>7. prog' = prog
  BY <1>1
<1>8. (\A g \in DOMAIN prog : \A n \in DOMAIN scope[g] : SymbolTyped(g, scope[g][n]))'
  BY <1>5, <1>7
<1>9. (\A g \in DOMAIN prog : \A d \in Collected(g) : DeclTyped(g, d))'
  BY <1>6, <1>7
<1> QED
  BY <1>8, <1>9 DEF TypesInv

LEMMA DeclarationsTyped ==
  ASSUME Collecting, CollectDeclaration, [IrNext]_<<vars, irVars>>, ~Flawed'
  PROVE  TypesInv'
<1>1. prog' = prog
  BY UniverseStays DEF Collecting
<1>2. ASSUME NEW g \in DOMAIN prog, NEW n \in DOMAIN scope'[g], NEW s, s = scope'[g][n] PROVE SymbolTyped(g, s)'
  BY <1>2, CollectedSymbols
<1>3. ASSUME NEW g \in DOMAIN prog, NEW d \in Collected(g)' PROVE DeclTyped(g, d)'
  BY <1>3, CollectedDecls
<1>4. (\A g \in DOMAIN prog : \A n \in DOMAIN scope[g] : SymbolTyped(g, scope[g][n]))'
  BY <1>1, <1>2
<1>5. (\A g \in DOMAIN prog : \A d \in Collected(g) : DeclTyped(g, d))'
  BY <1>1, <1>3
<1> QED
  BY <1>4, <1>5 DEF TypesInv

\* A symbol whose type is what SymbolTyped says, and known if it is a type.
Settles(s) ==
  Typed(s.type) /\ (s.kind \in {"forma", "imago"} => ~IsActio(s.type) /\ s.type # NoType)

LEMMA SettledSymbol ==
  ASSUME NEW g, NEW s, pass # "collect"
  PROVE  SymbolTyped(g, s) <=> Settles(s)
  BY DEF SymbolTyped, Settles, IsPending

LEMMA SettledStays ==
  ASSUME NEW g, NEW s, Settles(s)
  PROVE  SymbolTyped(g, s)'
  BY DEF SymbolTyped, Settles, IsPending

\* What an import brings is settled as the exporter's symbol is.
LEMMA ImportSettles ==
  ASSUME PlaceInv, UniverseInv, SymbolsInv, ImportDeclaration,
         \A g \in DOMAIN prog : \A n \in DOMAIN scope[g] : Settles(scope[g][n])
  PROVE  \A n \in DOMAIN scope'[file] : Settles(scope'[file][n])
<1>1. file \in DOMAIN prog /\ scope = [f \in DOMAIN prog |-> scope[f]]
  BY DEF PlaceInv
<1>2. ASSUME NEW sc, \A n \in DOMAIN sc : Settles(sc[n]),
             scope'[file] = Completed(scope[file], sc)
      PROVE  \A n \in DOMAIN scope'[file] : Settles(scope'[file][n])
  <2>1. scope'[file] = [n \in DOMAIN scope[file] \cup DOMAIN sc |->
                          IF n \in DOMAIN scope[file] THEN scope[file][n] ELSE sc[n]]
    BY <1>2, CompletedKeeps
  <2> QED
    BY <1>1, <1>2, <2>1
<1>3. ASSUME scope'[file] = scope[file]
      PROVE  \A n \in DOMAIN scope'[file] : Settles(scope'[file][n])
  BY <1>1, <1>3
<1>4. CASE Decl.kind # "importa"
  BY <1>3, <1>4 DEF ImportDeclaration
<1>5. CASE Decl.kind = "importa"
  <2>1. PICK m, items, from : /\ m = Find(universe, from) /\ from = Decl.from
                              /\ items = {Decl.items[i] : i \in DOMAIN Decl.items}
    OBVIOUS
  <2>2. PICK brought, self : /\ brought = [n \in {n \in items : Member(m, n) # NoSymbol} |-> Alias(Member(m, n))]
                             /\ self = [m EXCEPT !.pub = FALSE]
    OBVIOUS
  <2>3. scope'[file] = IF m = NoSymbol THEN scope[file]
                       ELSE IF items = {} THEN Define(scope[file], from, self)
                       ELSE Completed(scope[file], brought)
    BY <1>1, <1>5, <2>1, <2>2 DEF ImportDeclaration
  <2>4. PICK one : one = [n \in {from} |-> self]
    OBVIOUS
  <2>5. Define(scope[file], from, self) = Completed(scope[file], one)
    BY <2>4 DEF Define
  <2>6. ASSUME m # NoSymbol PROVE \E f \in DOMAIN prog : m = Symbol("module", Module, TRUE, <<f>>)
    <3>1. pass = "imports"
      BY DEF ImportDeclaration
    <3>2. ~Failing({"modules"})
      BY <3>1 DEF Failing
    <3>3. from \in DOMAIN universe /\ m = universe[from]
      BY <2>1, <2>6 DEF Find
    <3>4. PICK f \in SeenModules : prog[f].name = from
      BY <3>2, <3>3 DEF UniverseInv
    <3>5. f \in DOMAIN prog
      BY <3>1, <3>4 DEF SeenModules
    <3>6. universe[from] = Symbol("module", Module, TRUE, <<f>>)
      BY <3>2, <3>4 DEF UniverseInv
    <3> QED
      BY <3>3, <3>5, <3>6
  <2>7. ASSUME NEW f \in DOMAIN prog, m = Symbol("module", Module, TRUE, <<f>>)
        PROVE  Settles(self) /\ m.id[1] = f
    <3>1. m = [kind |-> "module", type |-> Module, pub |-> TRUE, id |-> <<f>>, alias |-> FALSE]
      BY <2>7 DEF Symbol
    <3>2. self = [kind |-> "module", type |-> Module, pub |-> FALSE, id |-> <<f>>, alias |-> FALSE]
      BY <2>2, <3>1
    <3>3. self.kind = "module" /\ self.type = Module
      BY <3>2
    <3>4. Typed(Module)
      BY DEF Typed, IsActio, Module, Unknown
    <3>5. m.id[1] = f
      BY <3>1
    <3> QED
      BY <3>3, <3>4, <3>5 DEF Settles
  <2>8. ASSUME m # NoSymbol, NEW n \in DOMAIN brought PROVE Settles(brought[n])
    <3>1. PICK f \in DOMAIN prog : m.id[1] = f
      BY <2>6, <2>7, <2>8
    <3>2. PICK s : s = Member(m, n)
      OBVIOUS
    <3>3. s # NoSymbol /\ brought[n] = Alias(s)
      BY <2>2, <2>8, <3>2
    <3>4. n \in DOMAIN scope[f] /\ s = scope[f][n]
      BY <3>1, <3>2, <3>3, MemberIs
    <3>5. Settles(s)
      BY <3>4
    <3>6. PICK r : r = Alias(s)
      OBVIOUS
    <3>7. s = [kind |-> s.kind, type |-> s.type, pub |-> s.pub, id |-> s.id, alias |-> s.alias]
      BY <3>4 DEF SymbolsInv, SymbolInv, IsSymbol
    <3>8. r.kind = s.kind /\ r.type = s.type
      BY <3>6, <3>7 DEF Alias
    <3> QED
      BY <3>3, <3>5, <3>6, <3>8 DEF Settles
  <2>9. m # NoSymbol => \A n \in DOMAIN one : Settles(one[n])
    BY <2>4, <2>6, <2>7
  <2>10. CASE m = NoSymbol
    BY <1>3, <2>3, <2>10
  <2>11. CASE m # NoSymbol /\ items = {}
    BY <1>2, <2>3, <2>5, <2>9, <2>11
  <2>12. CASE m # NoSymbol /\ items # {}
    BY <1>2, <2>3, <2>8, <2>12
  <2> QED
    BY <2>10, <2>11, <2>12
<1> QED
  BY <1>4, <1>5

\* What a name reaches outside functions in the fourth pass.
LEMMA ReachedOutside ==
  ASSUME PlaceInv, UniverseInv, OwnInv, ScopeInv, LocalsInv, pass = "bodies", stmt = 0, ~Flawed,
         \A g \in DOMAIN prog : \A n \in DOMAIN scope[g] : Settles(scope[g][n]),
         NEW mod, NEW n, NEW s, s = Resolve(Scopes, mod, n)
  PROVE  s = NoSymbol \/ Settles(s)
<1>1. file \in DOMAIN prog
  BY DEF PlaceInv
<1>2. CASE mod # ""
  <2>1. PICK m : m = Lookup(Scopes, mod)
    OBVIOUS
  <2>2. s = Member(m, n)
    BY <1>2, <2>1 DEF Resolve
  <2>3. ASSUME s # NoSymbol PROVE Settles(s)
    <3>1. m.kind = "module" /\ n \in DOMAIN scope[m.id[1]] /\ s = scope[m.id[1]][n]
      BY <2>2, <2>3, MemberIs
    <3>2. PICK ids : ids = Unqualified(file, decl, stmt, mod)
      OBVIOUS
    <3>3. Means(m, ids)
      BY <2>1, <3>2, LookupMeans
    <3>4. PICK h \in DOMAIN prog : m.id = <<h>>
      BY <3>1, <3>3 DEF Means
    <3>5. m.id[1] = h
      BY <3>4
    <3> QED
      BY <3>1, <3>5
  <2> QED
    BY <2>3
<1>3. CASE mod = ""
  <2>1. s = Lookup(Scopes, n)
    BY <1>3 DEF Resolve
  <2>2. locals = <<>>
    BY DEF PlaceInv
  <2>3. IsSeq(locals) /\ Len(locals) = 0
    <3>1. IsSeq(<<>>) /\ Len(<<>>) = 0
      BY DEF IsSeq
    <3> QED
      BY <2>2, <3>1
  <2>4. PICK r : r = Lookup(<<universe, scope[file]>> \o locals, n)
    OBVIOUS
  <2>5. /\ \A i \in 1 .. Len(locals) :
             n \in DOMAIN locals[i] /\ (\A j \in (i + 1) .. Len(locals) : n \notin DOMAIN locals[j]) =>
               r = locals[i][n]
        /\ (\A i \in 1 .. Len(locals) : n \notin DOMAIN locals[i]) =>
             r = IF n \in DOMAIN scope[file] THEN scope[file][n] ELSE Find(universe, n)
    <3>1. IsSeq(locals)
      BY <2>3
    <3> QED
      BY <2>4, <3>1, LookupIs
  <2>6. r = s
    BY <2>1, <2>4 DEF Scopes
  <2>7. s = IF n \in DOMAIN scope[file] THEN scope[file][n] ELSE Find(universe, n)
    BY <2>3, <2>5, <2>6
  <2>8. CASE n \in DOMAIN scope[file]
    BY <1>1, <2>7, <2>8
  <2>9. CASE n \notin DOMAIN scope[file] /\ n \notin DOMAIN universe
    BY <2>7, <2>9 DEF Find
  <2>10. CASE n \notin DOMAIN scope[file] /\ n \in DOMAIN universe
    <3>1. s = universe[n]
      BY <2>7, <2>10 DEF Find
    <3>2. PICK f \in SeenModules : universe[n] = Symbol("module", Module, TRUE, <<f>>)
      BY <2>10, FlawlessFacts DEF UniverseInv
    <3>3. s.kind = "module" /\ s.type = Module
      BY <3>1, <3>2 DEF Symbol
    <3>4. Typed(Module)
      BY DEF Typed, IsActio, Module, Unknown
    <3> QED
      BY <3>3, <3>4 DEF Settles
  <2> QED
    BY <2>8, <2>9, <2>10
<1> QED
  BY <1>2, <1>3

\* The type of an initialiser in which nothing is wrong.
LEMMA OperandSettles ==
  ASSUME PlaceInv, UniverseInv, OwnInv, ScopeInv, LocalsInv, pass = "bodies", stmt = 0, ~Flawed,
         \A g \in DOMAIN prog : \A n \in DOMAIN scope[g] : Settles(scope[g][n]),
         NEW a, ~OperandBad(a, NoType)
  PROVE  Typed(OperandType(a, NoType))
<1>1. NoType \notin Numeric
  BY DEF NoType, Numeric
<1>2. CASE a.op = "ref"
  <2>1. PICK s : s = Sym(a)
    OBVIOUS
  <2>2. s # NoSymbol
    BY <1>2, <2>1 DEF OperandBad
  <2>3. s = Resolve(Scopes, a.mod, a.name)
    BY <2>1 DEF Sym
  <2>4. Settles(s)
    BY <2>2, <2>3, ReachedOutside
  <2>5. OperandType(a, NoType) = s.type
    BY <1>2, <2>1 DEF OperandType
  <2> QED
    BY <2>4, <2>5 DEF Settles
<1>3. CASE a.op # "ref"
  <2>1. OperandType(a, NoType) \in {<<"i32">>, <<"f64">>}
    BY <1>1, <1>3 DEF OperandType
  <2> QED
    BY <2>1 DEF Typed, IsActio, Unknown
<1> QED
  BY <1>2, <1>3

LEMMA InitialiserSettles ==
  ASSUME PlaceInv, UniverseInv, OwnInv, ScopeInv, LocalsInv, pass = "bodies", stmt = 0, ~Flawed,
         \A g \in DOMAIN prog : \A n \in DOMAIN scope[g] : Settles(scope[g][n]),
         NEW e, ProperExpr(e), ~ExprBad(e, NoType), e.op # "none"
  PROVE  Typed(ExprType(e, NoType))
<1>1. CASE e.op = "sum"
  <2>1. ExprType(e, NoType) = OperandType(e.left, NoType) /\ ~OperandBad(e.left, NoType)
    BY <1>1 DEF ExprType, ExprBad
  <2> QED
    BY <2>1, OperandSettles
<1>2. CASE e.op = "call"
  <2>1. PICK s : s = Sym(e)
    OBVIOUS
  <2>2. IsActio(s.type)
    BY <1>2, <2>1 DEF ExprBad
  <2>3. s # NoSymbol
    BY <2>2 DEF NoSymbol, Symbol, IsActio, Unknown
  <2>4. s = Resolve(Scopes, e.mod, e.name)
    BY <2>1 DEF Sym
  <2>5. Typed(s.type)
    BY <2>3, <2>4, ReachedOutside DEF Settles
  <2>6. ExprType(e, NoType) = s.type[2]
    BY <1>2, <2>1, <2>2 DEF ExprType
  <2> QED
    BY <2>2, <2>5, <2>6 DEF Typed, Known
<1>3. CASE e.op \notin {"sum", "call"}
  <2>1. ExprType(e, NoType) = OperandType(e, NoType) /\ ~OperandBad(e, NoType)
    BY <1>3 DEF ExprType, ExprBad
  <2> QED
    BY <2>1, OperandSettles
<1> QED
  BY <1>1, <1>2, <1>3

\* The fourth pass gives a global a type, and leaves the other symbols alone.
LEMMA GlobalSettles ==
  ASSUME PlaceInv, UniverseInv, OwnInv, ScopeInv, LocalsInv, SymbolsInv, CheckGlobal, pass' # "crashed",
         ~Flawed, ~Flawed',
         \A g \in DOMAIN prog : \A n \in DOMAIN scope[g] : Settles(scope[g][n])
  PROVE  /\ \A n \in DOMAIN scope'[file] : Settles(scope'[file][n])
         /\ scope'[file][Decl.name].type # NoType
<1>1. /\ pass = "bodies" /\ Decl.kind \in {"sit", "lex"} /\ file \in DOMAIN prog
      /\ scope = [f \in DOMAIN prog |-> scope[f]]
  BY DEF CheckGlobal, PlaceInv
<1>2. stmt = 0
  BY <1>1 DEF PlaceInv
<1>3. /\ decl \in DOMAIN Decls /\ Decl = AllDecls(file)[decl] /\ Decls = AllDecls(file)
      /\ ProperDeclaration(Decl)
  BY <1>1, DeclAtHand
<1>4. decl \in Collected(file)
  BY <1>1, <1>3 DEF Collected
<1>5. PICK x, n, e : x = Decl /\ n = x.name /\ e = x.init
  OBVIOUS
<1>6. n \in DOMAIN scope[file] /\ scope[file][n] = Symbol(x.kind, scope[file][n].type, x.pub, <<file, decl>>)
  BY <1>1, <1>3, <1>4, <1>5, FlawlessFacts DEF OwnInv
<1>7. PICK s : s = scope[file][n]
  OBVIOUS
<1>8. s.kind \in {"sit", "lex"} /\ Typed(s.type)
  <2>1. s.kind = x.kind
    BY <1>6, <1>7 DEF Symbol
  <2> QED
    BY <1>1, <1>5, <1>6, <1>7, <2>1 DEF Settles
<1>9. PICK t : t = VariableType(s.type, e)
  OBVIOUS
<1>10. scope' = [scope EXCEPT ![file][n].type = t] /\ ~InitBad(s.type, e)
  <2>1. Find(scope[file], Decl.name) = s
    BY <1>5, <1>6, <1>7 DEF Find
  <2>2. ~Crashes(Decl.init)
    BY <1>1 DEF CheckGlobal, Crash
  <2>3. scope' = [scope EXCEPT ![file][Decl.name].type = VariableType(s.type, Decl.init)]
        /\ Advance(InitBad(s.type, Decl.init))
    BY <2>1, <2>2 DEF CheckGlobal
  <2>4. ~InitBad(s.type, Decl.init)
    BY <2>3 DEF Advance, Flawed
  <2> QED
    BY <1>5, <1>9, <2>3, <2>4
<1>11. t # NoType /\ Typed(t)
  <2>1. CASE s.type # NoType
    <3>1. t = s.type
      BY <1>9, <2>1 DEF VariableType
    <3> QED
      BY <1>8, <2>1, <3>1
  <2>2. CASE s.type = NoType
    <3>1. /\ e.op # "none" /\ ~ExprBad(e, NoType) /\ ExprType(e, NoType) # NoType
      BY <1>10, <2>2 DEF InitBad
    <3>2. t = ExprType(e, NoType)
      BY <1>9, <2>2, <3>1 DEF VariableType
    <3>3. ProperExpr(e)
      BY <1>1, <1>3, <1>5 DEF ProperDeclaration
    <3>4. Typed(ExprType(e, NoType))
      BY <1>1, <1>2, <3>1, <3>3, InitialiserSettles
    <3> QED
      BY <3>1, <3>2, <3>4
  <2> QED
    BY <2>1, <2>2
<1>12. scope'[file] = [scope[file] EXCEPT ![n] = [s EXCEPT !.type = t]]
  BY <1>1, <1>7, <1>10
<1>13. PICK r : r = [s EXCEPT !.type = t]
  OBVIOUS
<1>14. r.kind = s.kind /\ r.type = t
  <2>1. s = [kind |-> s.kind, type |-> s.type, pub |-> s.pub, id |-> s.id, alias |-> s.alias]
    BY <1>1, <1>6, <1>7 DEF SymbolsInv, SymbolInv, IsSymbol
  <2> QED
    BY <1>13, <2>1
<1>15. scope'[file][n] = r
  BY <1>6, <1>12, <1>13
<1>16. Settles(r)
  BY <1>8, <1>11, <1>14 DEF Settles
<1>17. ASSUME NEW m \in DOMAIN scope'[file] PROVE Settles(scope'[file][m])
  <2>1. CASE m = n
    BY <1>15, <1>16, <2>1
  <2>2. CASE m # n
    <3>1. m \in DOMAIN scope[file] /\ scope'[file][m] = scope[file][m]
      BY <1>12, <1>17, <2>2
    <3> QED
      BY <1>1, <3>1
  <2> QED
    BY <2>1, <2>2
<1> QED
  BY <1>5, <1>11, <1>14, <1>15, <1>17

\* Every step keeps what is known of the types.
LEMMA TypesStep ==
  ASSUME PlaceInv, UniverseInv, OwnInv, ScopeInv, LocalsInv, SymbolsInv, TypesInv, [IrNext]_<<vars, irVars>>
  PROVE  TypesInv'
<1>1. SUFFICES ASSUME ~Flawed' PROVE TypesInv'
  <2>1. Flawed' => TypesInv'
    BY DEF TypesInv
  <2> QED
    BY <2>1
<1>2. /\ ~Flawed /\ prog' = prog /\ pass' # "rejected" /\ file \in DOMAIN prog
      /\ \A g \in DOMAIN prog : \A n \in DOMAIN scope[g] : SymbolTyped(g, scope[g][n])
      /\ \A g \in DOMAIN prog : \A d \in Collected(g) : DeclTyped(g, d)
  <2>1. ~Flawed /\ prog' = prog /\ pass' # "rejected"
    BY <1>1, FlawedStays, UniverseStays DEF Flawed
  <2> QED
    BY <2>1 DEF TypesInv, PlaceInv
<1>3. CASE UNCHANGED <<vars, irVars>>
  <2>1. ASSUME NEW g \in DOMAIN prog, NEW n \in DOMAIN scope'[g], NEW s, s = scope'[g][n] PROVE SymbolTyped(g, s)'
    <3>1. SymbolTyped(g, s)
      BY <1>2, <1>3, <2>1 DEF vars
    <3> QED
      BY <1>3, <3>1 DEF SymbolTyped, vars
  <2>2. ASSUME NEW g \in DOMAIN prog, NEW d \in Collected(g)' PROVE DeclTyped(g, d)'
    <3>1. Collected(g)' = Collected(g)
      BY <1>3 DEF Collected, Begun, AllDecls, vars
    <3>2. DeclTyped(g, d)
      BY <1>2, <2>2, <3>1
    <3>3. \A r, t : Fixed(g, r, t)' <=> Fixed(g, r, t)
      BY <1>3 DEF Fixed, MayMean, AllDecls, vars
    <3>4. \A x, t : FixedActio(g, x, t)' <=> FixedActio(g, x, t)
      BY <3>3 DEF FixedActio
    <3>5. AllDecls(g)' = AllDecls(g) /\ scope' = scope /\ pass' = pass /\ (Begun(g, d)' <=> Begun(g, d))
      BY <1>3 DEF AllDecls, Begun, vars
    <3> QED
      BY <3>2, <3>3, <3>4, <3>5 DEF DeclTyped
  <2>3. (\A g \in DOMAIN prog : \A n \in DOMAIN scope[g] : SymbolTyped(g, scope[g][n]))'
    BY <1>2, <2>1
  <2>4. (\A g \in DOMAIN prog : \A d \in Collected(g) : DeclTyped(g, d))'
    BY <1>2, <2>2
  <2> QED
    BY <2>3, <2>4 DEF TypesInv
<1>4. CASE pass = "collect" /\ CollectTypeNames
  BY <1>1, <1>4, TypeNamesTyped
<1>5. CASE pass = "collect" /\ CollectDeclaration
  BY <1>1, <1>2, <1>5, DeclarationsTyped DEF Collecting
<1>6. CASE pass # "collect"
  <2>1. \A g \in DOMAIN prog : \A n \in DOMAIN scope[g] : Settles(scope[g][n])
    BY <1>2, <1>6, SettledSymbol
  <2>2. \A g \in DOMAIN prog : \A n \in DOMAIN scope'[g] : Settles(scope'[g][n])
    <3>1. ASSUME \A n \in DOMAIN scope'[file] : Settles(scope'[file][n]),
                 \A g \in DOMAIN prog : g # file => scope'[g] = scope[g]
          PROVE  \A g \in DOMAIN prog : \A n \in DOMAIN scope'[g] : Settles(scope'[g][n])
      BY <2>1, <3>1
    <3>2. CASE ImportDeclaration
      BY <2>1, <3>1, <3>2, ImportSettles, WhoAdvances
    <3>3. CASE CheckGlobal /\ pass' # "crashed"
      BY <1>1, <1>2, <2>1, <3>1, <3>3, GlobalSettles, WhoAdvances
    <3>4. CASE scope' = scope
      BY <2>1, <3>4
    <3>5. \/ ImportDeclaration
          \/ CheckGlobal /\ pass' # "crashed"
          \/ scope' = scope
      <4>1. CASE \/ RegisterModule \/ EnterFunction \/ LeaveFunction \/ SkipDeclaration
                 \/ OpenBlock \/ CloseBlock \/ DeclareLocal \/ Evaluate \/ Return
        BY <4>1 DEF RegisterModule, EnterFunction, LeaveFunction, SkipDeclaration,
                    OpenBlock, CloseBlock, DeclareLocal, Evaluate, Return, Follow, Crash
      <4>2. CASE Generate \/ Register \/ EvaluateConstant \/ EmitGlobal \/ EmitBody \/ EmitNothing
        BY <4>2, WhoGenerates DEF Checked
      <4>3. CASE UNCHANGED <<vars, irVars>>
        BY <4>3 DEF vars
      <4>4. CASE Crash
        BY <4>4 DEF Crash
      <4>5. ~CollectTypeNames /\ ~CollectDeclaration
        BY <1>6 DEF CollectTypeNames, CollectDeclaration
      <4> QED
        BY <4>1, <4>2, <4>3, <4>4, <4>5, CheckStepKinds DEF IrNext
    <3> QED
      BY <3>2, <3>3, <3>4, <3>5
  <2>3. ASSUME NEW g \in DOMAIN prog, NEW n \in DOMAIN scope'[g], NEW s, s = scope'[g][n] PROVE SymbolTyped(g, s)'
    BY <2>2, <2>3, SettledStays
  <2>4. ASSUME NEW g \in DOMAIN prog, NEW d \in Collected(g) PROVE DeclTyped(g, d)'
    <3>1. CheckGlobal /\ pass' # "crashed" /\ g = file /\ d = decl => scope'[g][AllDecls(g)[d].name].type # NoType
      <4>1. ASSUME CheckGlobal, pass' # "crashed", g = file, d = decl
            PROVE  scope'[g][AllDecls(g)[d].name].type # NoType
        <5>1. d \in DOMAIN AllDecls(g)
          BY <2>4 DEF Collected
        <5>2. Decl = AllDecls(g)[d]
          BY <4>1, <5>1, DeclAtHand
        <5>3. scope'[file][Decl.name].type # NoType
          BY <1>1, <1>2, <2>1, <4>1, GlobalSettles
        <5> QED
          BY <4>1, <5>2, <5>3
      <4> QED
        BY <4>1
    <3> QED
      BY <1>1, <1>2, <1>6, <2>4, <3>1, DeclTypedStays
  <2>5. \A g \in DOMAIN prog : Collected(g)' = Collected(g)
    BY <1>2, <1>6, CollectedStays
  <2>6. (\A g \in DOMAIN prog : \A n \in DOMAIN scope[g] : SymbolTyped(g, scope[g][n]))'
    BY <1>2, <2>3
  <2>7. (\A g \in DOMAIN prog : \A d \in Collected(g) : DeclTyped(g, d))'
    BY <1>2, <2>4, <2>5
  <2> QED
    BY <2>6, <2>7 DEF TypesInv
<1> QED
  BY <1>3, <1>4, <1>5, <1>6, PassKinds

-----------------------------------------------------------------------------
(* What aliases mean in an accepted program. *)

LEMMA OwnIsOne ==
  ASSUME PlaceInv, OwnInv, ~Flawed, pass = "accepted",
         NEW h \in DOMAIN prog, NEW d \in DOMAIN AllDecls(h), AllDecls(h)[d].kind # "importa",
         NEW n, n = AllDecls(h)[d].name
  PROVE  Own(h, n) = {<<h, d>>}
<1>1. \A e \in DOMAIN AllDecls(h) : AllDecls(h)[e].kind # "importa" => e \in Collected(h)
  BY DEF Collected
<1>2. ASSUME NEW e \in DOMAIN AllDecls(h), AllDecls(h)[e].kind # "importa", AllDecls(h)[e].name = n
      PROVE  scope[h][n].id = <<h, e>>
  <2>1. scope[h][n] = Symbol(AllDecls(h)[e].kind, scope[h][n].type, AllDecls(h)[e].pub, <<h, e>>)
    BY <1>1, <1>2, FlawlessFacts DEF OwnInv
  <2> QED
    BY <2>1 DEF Symbol
<1>3. \A e \in DOMAIN AllDecls(h) : AllDecls(h)[e].kind # "importa" /\ AllDecls(h)[e].name = n => e = d
  BY <1>2
<1>4. {e \in DOMAIN AllDecls(h) : AllDecls(h)[e].kind # "importa" /\ AllDecls(h)[e].name = n} = {d}
  BY <1>3
<1>5. Own(h, n) = {<<h, e>> : e \in {e \in DOMAIN AllDecls(h) :
                     AllDecls(h)[e].kind # "importa" /\ AllDecls(h)[e].name = n}}
  BY DEF Own, AllDecls
<1> QED
  BY <1>4, <1>5

\* What a written type may mean is one declaration.
LEMMA MeaningIsOne ==
  ASSUME PlaceInv, UniverseInv, OwnInv, ~Flawed, pass = "accepted", NEW f, NEW r,
         NEW h \in DOMAIN prog, NEW d \in DOMAIN AllDecls(h), MayMean(f, r, h, d)
  PROVE  TypeIds(f, r) = {<<h, d>>}
<1>1. PICK n : n = r.base
  OBVIOUS
<1>2. AllDecls(h)[d].kind # "importa" /\ AllDecls(h)[d].name = n
  BY <1>1 DEF MayMean
<1>3. Own(h, n) = {<<h, d>>}
  BY <1>2, OwnIsOne
<1>4. CASE r.mod = ""
  BY <1>1, <1>3, <1>4 DEF TypeIds, MayMean
<1>5. CASE r.mod # ""
  <2>1. PICK m : m = r.mod
    OBVIOUS
  <2>2. prog[h].name = m /\ AllDecls(h)[d].pub = TRUE
    BY <1>5, <2>1 DEF MayMean
  <2>3. m \in DOMAIN universe /\ universe[m] = Symbol("module", Module, TRUE, <<h>>)
    BY <2>2, FlawlessFacts DEF UniverseInv, SeenModules
  <2>4. ModuleNamed(m) = {universe[m].id}
    BY <2>3, FlawlessFacts, ModuleIsFound
  <2>5. universe[m].id = <<h>>
    BY <2>3 DEF Symbol
  <2>6. UNION {Own(g[1], n) : g \in {<<h>>}} = {<<h, d>>}
    <3>1. <<h>>[1] = h
      OBVIOUS
    <3> QED
      BY <1>3, <3>1
  <2>7. DeclOf(<<h, d>>).pub
    <3>1. DeclOf(<<h, d>>) = AllDecls(h)[d]
      BY DEF DeclOf, AllDecls
    <3> QED
      BY <2>2, <3>1
  <2>8. Public(n, {<<h>>}) = {<<h, d>>}
    BY <2>6, <2>7 DEF Public
  <2> QED
    BY <1>1, <1>5, <2>1, <2>4, <2>5, <2>8 DEF TypeIds
<1> QED
  BY <1>4, <1>5

LEMMA FixedIsDeclared ==
  ASSUME PlaceInv, UniverseInv, OwnInv, ~Flawed, pass = "accepted", NEW f, NEW r, NEW t, Fixed(f, r, t)
  PROVE  t = Declared(f, r)
<1>1. CASE r.base \in Basic
  BY <1>1 DEF Fixed, Declared, TypeNamed
<1>2. CASE r.base \notin Basic
  <2>1. PICK h \in DOMAIN prog : \E d \in DOMAIN AllDecls(h) :
               MayMean(f, r, h, d) /\ r.base \in DOMAIN scope[h] /\ t = scope[h][r.base].type
    BY <1>2 DEF Fixed
  <2>2. PICK d \in DOMAIN AllDecls(h) : MayMean(f, r, h, d) /\ t = scope[h][r.base].type
    BY <2>1
  <2>3. PICK ids : ids = TypeIds(f, r)
    OBVIOUS
  <2>4. ids = {<<h, d>>}
    BY <2>2, <2>3, MeaningIsOne
  <2>5. PICK y : y = CHOOSE id \in ids : TRUE
    OBVIOUS
  <2>6. y = <<h, d>> /\ ids # {}
    BY <2>4, <2>5
  <2>7. TypeNamed(r, ids) = scope[y[1]][r.base].type
    BY <1>2, <2>5, <2>6 DEF TypeNamed
  <2>8. y[1] = h
    BY <2>6
  <2> QED
    BY <2>2, <2>3, <2>7, <2>8 DEF Declared
<1> QED
  BY <1>1, <1>2

LEMMA AliasesFollow ==
  ASSUME PlaceInv, UniverseInv, OwnInv, CalledInv, TypesInv
  PROVE  AliasesMeanTheirTargets
<1> SUFFICES ASSUME pass = "accepted", NEW f \in DOMAIN prog, NEW d \in DOMAIN prog[f].decls,
                    NEW x, x = prog[f].decls[d], x.kind # "importa"
             PROVE  /\ scope[f][x.name].type \notin {NoType, Unknown}
                    /\ x.kind = "imago" => scope[f][x.name].type = Declared(f, x.type)
  BY DEF AliasesMeanTheirTargets
<1>1. ~Flawed
  BY DEF CalledInv, Later, Flawed
<1>2. x = AllDecls(f)[d] /\ d \in DOMAIN AllDecls(f)
  BY DEF AllDecls
<1>3. d \in Collected(f)
  BY <1>2 DEF Collected
<1>4. ProperDeclaration(x)
  BY <1>2, ProgramIsProper
<1>5. x.kind \in {"sit", "lex", "actio", "forma", "imago"}
  BY <1>4 DEF ProperDeclaration
<1>6. PICK t : t = scope[f][x.name].type
  OBVIOUS
<1>7. DeclTyped(f, d)
  BY <1>1, <1>3 DEF TypesInv
<1>8. /\ x.kind = "imago" => Fixed(f, x.type, t)
      /\ x.kind = "actio" => FixedActio(f, x, t)
      /\ x.kind \in {"sit", "lex"} => IF x.type # NoRef THEN Fixed(f, x.type, t) ELSE t # NoType
  BY <1>2, <1>6, <1>7 DEF DeclTyped, Later
<1>9. PICK s : s = scope[f][x.name]
  OBVIOUS
<1>10. SymbolTyped(f, s) /\ s.kind = x.kind /\ s.type = t
  <2>1. /\ x.name \in DOMAIN scope[f]
        /\ scope[f][x.name] = Symbol(x.kind, scope[f][x.name].type, x.pub, <<f, d>>)
    BY <1>1, <1>2, <1>3, FlawlessFacts DEF OwnInv
  <2>2. SymbolTyped(f, s)
    BY <1>1, <1>9, <2>1 DEF TypesInv
  <2>3. s.kind = x.kind
    BY <1>9, <2>1 DEF Symbol
  <2> QED
    BY <1>6, <1>9, <2>2, <2>3
<1>11. t # Unknown
  <2>1. Typed(t)
    BY <1>10 DEF SymbolTyped
  <2>2. ~IsActio(Unknown)
    BY DEF IsActio, Unknown
  <2> QED
    BY <2>1, <2>2 DEF Typed
<1>12. t # NoType
  <2>1. CASE x.kind = "forma"
    BY <1>10, <2>1 DEF SymbolTyped
  <2>2. CASE x.kind = "imago"
    BY <1>8, <2>2, FixedIsTyped DEF Known
  <2>3. CASE x.kind = "actio"
    <3>1. \A a, b : <<"actio", a, b>> # <<>>
      OBVIOUS
    <3> QED
      BY <1>8, <2>3, <3>1 DEF FixedActio, NoType
  <2>4. CASE x.kind \in {"sit", "lex"}
    BY <1>8, <2>4, FixedIsTyped DEF Known
  <2> QED
    BY <1>5, <2>1, <2>2, <2>3, <2>4
<1>13. x.kind = "imago" => t = Declared(f, x.type)
  <2>1. ASSUME x.kind = "imago" PROVE t = Declared(f, x.type)
    <3>1. PICK r : r = x.type
      OBVIOUS
    <3>2. Fixed(f, r, t)
      BY <1>8, <2>1, <3>1
    <3> QED
      BY <1>1, <3>1, <3>2, FixedIsDeclared
  <2> QED
    BY <2>1
<1> QED
  BY <1>6, <1>11, <1>12, <1>13

\* Whatever the program, as long as it has no error: a type that a declaration
\* writes has been found and stays what it is; an alias without one is an alias
\* of the file at hand that is not yet behind; a global declared without one
\* gets it when its initialiser is checked.
THEOREM TypesInductive ==
  IrSpec => []TypesInv
<1>1. IrInit => TypesInv
  <2>1. IrInit => \A g \in DOMAIN prog : DOMAIN scope[g] = {} /\ Collected(g) = {}
    BY DEF IrInit, Init, Collected
  <2> QED
    BY <2>1 DEF TypesInv
<1>2. NamesInv /\ UsesInv /\ TypesInv /\ [IrNext]_<<vars, irVars>> => TypesInv'
  BY TypesStep DEF NamesInv, UsesInv
<1> QED
  BY <1>1, <1>2, NamesInductive, UsesInductive, PTL DEF IrSpec

\* In every accepted program an alias has the type of what it was declared to
\* stand for, however long the chain and in whatever order, across files too,
\* and no declaration is left without a type: no circle was accepted
\* (type_checker.c:90-101, 953-960).
THEOREM AliasesAlwaysMeanTheirTargets ==
  IrSpec => []AliasesMeanTheirTargets
<1>1. NamesInv /\ UsesInv /\ TypesInv => AliasesMeanTheirTargets
  BY AliasesFollow DEF NamesInv, UsesInv
<1> QED
  BY <1>1, NamesInductive, UsesInductive, TypesInductive, PTL

-----------------------------------------------------------------------------
(* What the types of names and expressions come from. *)

\* t is the final type of r, written inside a function of file f.
Stands(f, r, t) ==
  IF r.base \in Basic THEN t = <<r.base>>
  ELSE /\ Known(t)
       /\ \E id \in Denotes(<<f, 0, 0>>, r.mod, r.base) :
            /\ Denotes(<<f, 0, 0>>, r.mod, r.base) = {id}
            /\ id[1] \in DOMAIN prog /\ r.base \in DOMAIN scope[id[1]]
            /\ t = scope[id[1]][r.base].type

\* The type that a parameter or local is declared with.
WrittenAt(id) ==
  IF id[3] = "param" THEN DeclOf(id).params[id[4]].type ELSE DeclOf(id).body[id[4]].type

\* What goes by the name n and the declaration id outside functions has the
\* type of that declaration, or none yet.
Origin(n, id, t) ==
  \/ Len(id) = 1 /\ t = Module
  \/ /\ Len(id) = 2 /\ id[1] \in DOMAIN prog /\ n \in DOMAIN scope[id[1]]
     /\ t \in {NoType, scope[id[1]][n].type}

LocalOrigin(id, t) ==
  Len(id) = 4 /\ (WrittenAt(id) # NoRef => Stands(id[1], WrittenAt(id), t))

Traced(n, id, t) == Typed(t) /\ (Origin(n, id, t) \/ LocalOrigin(id, t))

\* A symbol found under n is that of a declaration outside functions, or a local's.
FromFile(n, s) == Settles(s) /\ Origin(n, s.id, s.type)
FromBody(s) == s.kind = "sit" /\ Typed(s.type) /\ LocalOrigin(s.id, s.type)

GlobalOrigins == \A g \in DOMAIN prog : \A n \in DOMAIN scope[g] : Origin(n, scope[g][n].id, scope[g][n].type)
LocalOrigins == \A i \in DOMAIN locals : \A n \in DOMAIN locals[i] : FromBody(locals[i][n])

\* The symbols of all scopes, and the uses, have the types of their declarations.
OriginsInv ==
  \/ Flawed \/ pass \in {"modules", "collect"}
  \/ /\ GlobalOrigins
     /\ pass = "bodies" => LocalOrigins
     /\ \A u \in uses : Traced(u.name, u.id, u.type)

\* Fits and ExprFits of TypeChecker by the types the uses U had when checked.
FitsIn(U, at, a, t) ==
  /\ ProperOperand(a)
  /\ a.op = "int" => t \in Numeric
  /\ a.op = "float" => t = <<"f64">>
  /\ a.op = "ref" => \E u \in U : <<u.at, u.mod, u.name>> = <<at, a.mod, a.name>> /\ u.type = t

ExprFitsIn(U, at, e, t) ==
  CASE e.op = "sum"  -> FitsIn(U, at, e.left, t) /\ FitsIn(U, at, e.right, t)
    [] e.op = "call" ->
         \E u \in U : /\ <<u.at, u.mod, u.name>> = <<at, e.mod, e.name>>
                      /\ IsActio(u.type) /\ u.type[2] = t /\ Len(u.type[3]) = Len(e.args)
                      /\ \A i \in DOMAIN e.args : FitsIn(U, at, e.args[i], u.type[3][i])
    [] e.op = "none" -> t = <<"nihil">>
    [] OTHER -> FitsIn(U, at, e, t)

GlobalFits(g, d) ==
  LET x == AllDecls(g)[d]
  IN  x.init.op = "none" \/ ExprFitsIn(uses, <<g, d, 0>>, x.init, scope[g][x.name].type)

StatementFits(g, d, s) ==
  LET x  == AllDecls(g)[d]
      st == x.body[s]
      typed == st.op = "sit" /\ st.type # NoRef
  IN  /\ st.op = "redde" => ExprFitsIn(uses, <<g, d, s>>, st.init, scope[g][x.name].type[2])
      /\ st.op \in {"sit", "eval"} =>
           \/ typed /\ st.init.op = "none"
           \/ \E t : ExprFitsIn(uses, <<g, d, s>>, st.init, t) /\ (typed => Stands(g, st.type, t))

\* Statement s of declaration d of file g, or, if s is 0, the declaration itself.
FitsAt(g, d, s) ==
  /\ s = 0 /\ IsGlobal(AllDecls(g)[d]) => GlobalFits(g, d)
  /\ IsActioDecl(AllDecls(g)[d]) /\ s \in DOMAIN AllDecls(g)[d].body => StatementFits(g, d, s)

Passed(g, d, s) ==
  \/ pass \in Later
  \/ pass = "bodies" /\ (Begun(g, d) \/ (g = file /\ d = decl /\ s < stmt))

\* Everything checked fits, by the types the names in it had, or one had none.
CheckedInv ==
  \/ Flawed \/ \E u \in uses : u.type = NoType
  \/ \A g \in DOMAIN prog : \A d \in DOMAIN AllDecls(g) : \A s \in Nat :
       Passed(g, d, s) => FitsAt(g, d, s)

LEMMA WrittenStays ==
  ASSUME prog' = prog
  PROVE  \A id : WrittenAt(id)' = WrittenAt(id)
<1>1. \A id : DeclOf(id)' = DeclOf(id)
  BY DEF DeclOf
<1> QED
  BY <1>1 DEF WrittenAt

LEMMA StandsStays ==
  ASSUME prog' = prog, Kept, NEW f, NEW r, NEW t, Stands(f, r, t)
  PROVE  Stands(f, r, t)'
<1>1. CASE r.base \in Basic
  BY <1>1 DEF Stands
<1>2. CASE r.base \notin Basic
  <2>1. PICK S : S = Denotes(<<f, 0, 0>>, r.mod, r.base)
    OBVIOUS
  <2>2. S = Denotes(<<f, 0, 0>>, r.mod, r.base)'
    BY <2>1, DenotesStays
  <2>3. PICK id : /\ Known(t) /\ S = {id} /\ id[1] \in DOMAIN prog /\ r.base \in DOMAIN scope[id[1]]
                  /\ t = scope[id[1]][r.base].type
    BY <1>2, <2>1 DEF Stands
  <2>4. r.base \in DOMAIN scope'[id[1]] /\ t = scope'[id[1]][r.base].type
    BY <2>3 DEF Kept, Known
  <2> QED
    BY <1>2, <2>2, <2>3, <2>4 DEF Stands
<1> QED
  BY <1>1, <1>2

LEMMA OriginStays ==
  ASSUME prog' = prog, Kept, NEW n, NEW id, NEW t, Origin(n, id, t)
  PROVE  Origin(n, id, t)'
<1>1. CASE Len(id) = 1
  BY <1>1 DEF Origin
<1>2. CASE Len(id) = 2
  <2>1. PICK g : g = id[1]
    OBVIOUS
  <2>2. g \in DOMAIN prog /\ n \in DOMAIN scope[g] /\ t \in {NoType, scope[g][n].type}
    BY <1>2, <2>1 DEF Origin
  <2>3. n \in DOMAIN scope'[g] /\ t \in {NoType, scope'[g][n].type}
    BY <2>2 DEF Kept
  <2> QED
    BY <1>2, <2>1, <2>2, <2>3 DEF Origin
<1> QED
  BY <1>1, <1>2 DEF Origin

LEMMA LocalOriginStays ==
  ASSUME prog' = prog, Kept, NEW id, NEW t, LocalOrigin(id, t)
  PROVE  LocalOrigin(id, t)'
<1>1. PICK r, f : r = WrittenAt(id) /\ f = id[1]
  OBVIOUS
<1>2. Len(id) = 4 /\ (r # NoRef => Stands(f, r, t))
  BY <1>1 DEF LocalOrigin
<1>3. r # NoRef => Stands(f, r, t)'
  BY <1>2, StandsStays
<1>4. WrittenAt(id)' = r
  BY <1>1, WrittenStays
<1> QED
  BY <1>1, <1>2, <1>3, <1>4 DEF LocalOrigin

LEMMA TracedStays ==
  ASSUME prog' = prog, Kept, NEW n, NEW id, NEW t, Traced(n, id, t)
  PROVE  Traced(n, id, t)'
<1>1. Typed(t) /\ (Origin(n, id, t)' \/ LocalOrigin(id, t)')
  BY OriginStays, LocalOriginStays DEF Traced
<1> QED
  BY <1>1 DEF Traced

\* What fits fits among more uses.
LEMMA MoreFit ==
  ASSUME NEW U, NEW V, U \subseteq V, NEW at, NEW e, NEW t, ExprFitsIn(U, at, e, t)
  PROVE  ExprFitsIn(V, at, e, t)
<1>1. ASSUME NEW a, NEW x, FitsIn(U, at, a, x) PROVE FitsIn(V, at, a, x)
  BY <1>1 DEF FitsIn
<1> QED
  BY <1>1 DEF ExprFitsIn

LEMMA FitsStay ==
  ASSUME prog' = prog, Kept, uses \subseteq uses', NEW g \in DOMAIN prog, NEW d \in DOMAIN AllDecls(g), NEW s,
         FitsAt(g, d, s), AllDecls(g)[d].name \in DOMAIN scope[g], scope[g][AllDecls(g)[d].name].type # NoType
  PROVE  FitsAt(g, d, s)'
<1>1. PICK x : x = AllDecls(g)[d]
  OBVIOUS
<1>2. AllDecls(g)' = AllDecls(g)
  BY DEF AllDecls
<1>3. scope'[g][x.name] = scope[g][x.name]
  BY <1>1 DEF Kept
<1>4. \A at, e, t : ExprFitsIn(uses, at, e, t) => ExprFitsIn(uses', at, e, t)
  BY MoreFit
<1>5. \A r, t : Stands(g, r, t) => Stands(g, r, t)'
  BY StandsStays
<1>6. s = 0 /\ IsGlobal(x) => GlobalFits(g, d)'
  <2>1. ASSUME s = 0, IsGlobal(x) PROVE GlobalFits(g, d)'
    <3>1. x.init.op = "none" \/ ExprFitsIn(uses, <<g, d, 0>>, x.init, scope[g][x.name].type)
      BY <1>1, <2>1 DEF FitsAt, GlobalFits
    <3>2. x.init.op = "none" \/ ExprFitsIn(uses', <<g, d, 0>>, x.init, scope'[g][x.name].type)
      BY <1>3, <1>4, <3>1
    <3> QED
      BY <1>1, <1>2, <3>2 DEF GlobalFits
  <2> QED
    BY <2>1
<1>7. IsActioDecl(x) /\ s \in DOMAIN x.body => StatementFits(g, d, s)'
  <2>1. ASSUME IsActioDecl(x), s \in DOMAIN x.body PROVE StatementFits(g, d, s)'
    <3>1. PICK st : st = x.body[s]
      OBVIOUS
    <3>2. /\ st.op = "redde" => ExprFitsIn(uses, <<g, d, s>>, st.init, scope[g][x.name].type[2])
          /\ st.op \in {"sit", "eval"} =>
               \/ st.op = "sit" /\ st.type # NoRef /\ st.init.op = "none"
               \/ \E t : /\ ExprFitsIn(uses, <<g, d, s>>, st.init, t)
                         /\ (st.op = "sit" /\ st.type # NoRef => Stands(g, st.type, t))
      BY <1>1, <2>1, <3>1 DEF FitsAt, StatementFits
    <3>3. /\ st.op = "redde" => ExprFitsIn(uses', <<g, d, s>>, st.init, scope'[g][x.name].type[2])
          /\ st.op \in {"sit", "eval"} =>
               \/ st.op = "sit" /\ st.type # NoRef /\ st.init.op = "none"
               \/ \E t : /\ ExprFitsIn(uses', <<g, d, s>>, st.init, t)
                         /\ (st.op = "sit" /\ st.type # NoRef => Stands(g, st.type, t)')
      BY <1>3, <1>4, <1>5, <3>2
    <3> QED
      BY <1>1, <1>2, <3>1, <3>3 DEF StatementFits
  <2> QED
    BY <2>1
<1> QED
  BY <1>1, <1>2, <1>6, <1>7 DEF FitsAt, IsGlobal, IsActioDecl

-----------------------------------------------------------------------------
(* What a name reaches while bodies are checked. *)

LEMMA StandsKnown ==
  ASSUME NEW f, NEW r, NEW t, Stands(f, r, t)
  PROVE  Known(t)
  BY BasicIsKnown DEF Stands

LEMMA KnownIsTyped ==
  ASSUME NEW t, Known(t)
  PROVE  Typed(t)
  BY DEF Known, Typed

\* The fourth pass, with no error so far.
Checking ==
  /\ PlaceInv /\ UniverseInv /\ OwnInv /\ ScopeInv /\ LocalsInv /\ SymbolsInv /\ TypesInv /\ OriginsInv
  /\ pass = "bodies" /\ ~Flawed

LEMMA ScopesAreFromFiles ==
  ASSUME Checking
  PROVE  /\ \A g \in DOMAIN prog : \A n \in DOMAIN scope[g] : FromFile(n, scope[g][n])
         /\ \A n \in DOMAIN universe : FromFile(n, universe[n])
         /\ \A i \in DOMAIN locals : \A n \in DOMAIN locals[i] : FromBody(locals[i][n])
<1>1. ASSUME NEW g \in DOMAIN prog, NEW n \in DOMAIN scope[g] PROVE FromFile(n, scope[g][n])
  <2>1. PICK s : s = scope[g][n]
    OBVIOUS
  <2>2. SymbolTyped(g, s)
    BY <2>1 DEF Checking, TypesInv
  <2>3. Settles(s)
    BY <2>2, SettledSymbol DEF Checking
  <2>4. Origin(n, s.id, s.type)
    BY <2>1 DEF Checking, OriginsInv, GlobalOrigins
  <2> QED
    BY <2>1, <2>3, <2>4 DEF FromFile
<1>2. ASSUME NEW n \in DOMAIN universe PROVE FromFile(n, universe[n])
  <2>1. PICK s : s = universe[n]
    OBVIOUS
  <2>2. PICK f \in SeenModules : prog[f].name = n
    BY FlawlessFacts DEF UniverseInv, Checking
  <2>3. s = Symbol("module", Module, TRUE, <<f>>)
    BY <2>1, <2>2, FlawlessFacts DEF UniverseInv, Checking
  <2>4. s.kind = "module" /\ s.type = Module /\ s.id = <<f>>
    BY <2>3 DEF Symbol
  <2>5. Len(s.id) = 1
    BY <2>4
  <2>6. Typed(Module)
    BY DEF Typed, IsActio, Module, Unknown
  <2> QED
    BY <2>1, <2>4, <2>5, <2>6 DEF FromFile, Settles, Origin
<1>3. ASSUME NEW i \in DOMAIN locals, NEW n \in DOMAIN locals[i] PROVE FromBody(locals[i][n])
  BY DEF Checking, OriginsInv, LocalOrigins
<1> QED
  BY <1>1, <1>2, <1>3

LEMMA LookupIsFrom ==
  ASSUME NEW g \in DOMAIN prog, NEW ls, IsSeq(ls), NEW n, NEW s, s = Lookup(<<universe, scope[g]>> \o ls, n)
  PROVE  \/ \E i \in DOMAIN ls : n \in DOMAIN ls[i] /\ s = ls[i][n]
         \/ (\A i \in DOMAIN ls : n \notin DOMAIN ls[i]) /\ n \in DOMAIN scope[g] /\ s = scope[g][n]
         \/ /\ \A i \in DOMAIN ls : n \notin DOMAIN ls[i]
            /\ n \notin DOMAIN scope[g] /\ s = Find(universe, n)
<1>1. Len(ls) \in Nat /\ DOMAIN ls = 1 .. Len(ls)
  BY SeqDomain
<1>2. /\ \A i \in 1 .. Len(ls) :
           n \in DOMAIN ls[i] /\ (\A j \in (i + 1) .. Len(ls) : n \notin DOMAIN ls[j]) => s = ls[i][n]
      /\ (\A i \in 1 .. Len(ls) : n \notin DOMAIN ls[i]) =>
           s = IF n \in DOMAIN scope[g] THEN scope[g][n] ELSE Find(universe, n)
  BY LookupIs
<1>3. PICK H : H = {i \in 1 .. Len(ls) : n \in DOMAIN ls[i]}
  OBVIOUS
<1>4. CASE H = {}
  BY <1>1, <1>2, <1>3, <1>4
<1>5. CASE H # {}
  <2>1. PICK i \in H : \A j \in H : j <= i
    BY <1>1, <1>3, <1>5, GreatestBelow
  <2>2. \A j \in (i + 1) .. Len(ls) : n \notin DOMAIN ls[j]
    BY <1>1, <1>3, <2>1
  <2> QED
    BY <1>1, <1>2, <1>3, <2>1, <2>2
<1> QED
  BY <1>4, <1>5

LEMMA LocalsAreSeq ==
  ASSUME PlaceInv, LocalsInv, pass = "bodies"
  PROVE  IsSeq(locals)
<1>1. stmt \in Nat /\ (stmt = 0 => locals = <<>>)
  BY DEF PlaceInv
<1>2. IsSeq(<<>>)
  BY DEF IsSeq
<1> QED
  BY <1>1, <1>2 DEF LocalsInv

LEMMA LookupKinds ==
  ASSUME Checking, NEW n, NEW s, s = Lookup(Scopes, n)
  PROVE  s = NoSymbol \/ FromFile(n, s) \/ FromBody(s)
<1>1. IsSeq(locals) /\ file \in DOMAIN prog
  BY LocalsAreSeq DEF Checking, PlaceInv
<1>2. s = Lookup(<<universe, scope[file]>> \o locals, n)
  BY DEF Scopes
<1>3. \/ \E i \in DOMAIN locals : n \in DOMAIN locals[i] /\ s = locals[i][n]
      \/ n \in DOMAIN scope[file] /\ s = scope[file][n]
      \/ s = Find(universe, n)
  BY <1>1, <1>2, LookupIsFrom
<1> QED
  BY <1>1, <1>3, ScopesAreFromFiles DEF Find

\* What qualifies a name is a module.
LEMMA MemberKinds ==
  ASSUME Checking, stmt = 0 \/ stmt <= Len(Decl.body), NEW m, NEW mod, m = Lookup(Scopes, mod), NEW n, NEW s, s = Member(m, n)
  PROVE  s = NoSymbol \/ FromFile(n, s)
<1>1. ASSUME s # NoSymbol PROVE FromFile(n, s)
  <2>1. m.kind = "module" /\ n \in DOMAIN scope[m.id[1]] /\ s = scope[m.id[1]][n]
    BY <1>1, MemberIs
  <2>2. PICK ids : ids = Unqualified(file, decl, stmt, mod)
    OBVIOUS
  <2>3. Means(m, ids)
    BY <2>2, LookupMeans DEF Checking
  <2>4. PICK h \in DOMAIN prog : m.id = <<h>>
    BY <2>1, <2>3 DEF Means
  <2>5. m.id[1] = h
    BY <2>4
  <2> QED
    BY <2>1, <2>5, ScopesAreFromFiles
<1> QED
  BY <1>1

LEMMA ReachedKinds ==
  ASSUME Checking, stmt = 0 \/ stmt <= Len(Decl.body), NEW mod, NEW n, NEW s, s = Resolve(Scopes, mod, n)
  PROVE  s = NoSymbol \/ FromFile(n, s) \/ FromBody(s)
<1>1. CASE mod = ""
  BY <1>1, LookupKinds DEF Resolve
<1>2. CASE mod # ""
  <2>1. PICK m : m = Lookup(Scopes, mod)
    OBVIOUS
  <2>2. s = Member(m, n)
    BY <1>2, <2>1 DEF Resolve
  <2> QED
    BY <2>1, <2>2, MemberKinds
<1> QED
  BY <1>1, <1>2

LEMMA ReachedIsTraced ==
  ASSUME Checking, stmt = 0 \/ stmt <= Len(Decl.body), NEW mod, NEW n, NEW s, s = Resolve(Scopes, mod, n)
  PROVE  s = NoSymbol \/ Traced(n, s.id, s.type)
  BY ReachedKinds DEF FromFile, FromBody, Traced, Settles

\* Inside a function a name that is no local's means what it means outside.
LEMMA UnqualifiedKinds ==
  ASSUME NEW f, NEW d, NEW s, NEW n
  PROVE  \/ Unqualified(f, d, s, n) = FileLevel(f, n)
         \/ \A id \in Unqualified(f, d, s, n) : Len(id) = 4
<1> SUFFICES ASSUME Unqualified(f, d, s, n) # FileLevel(f, n), NEW id \in Unqualified(f, d, s, n)
             PROVE  Len(id) = 4
  OBVIOUS
<1>1. \E x : id = <<f, d, "local", x>> \/ id = <<f, d, "param", x>>
  BY DEF Unqualified
<1> QED
  BY <1>1

LEMMA OutsideToo ==
  ASSUME NEW f, NEW d, NEW s, NEW mod, NEW n, NEW id, Len(id) = 2, Denotes(<<f, d, s>>, mod, n) = {id}
  PROVE  Denotes(<<f, 0, 0>>, mod, n) = {id}
<1>1. PICK at, out : at = <<f, d, s>> /\ out = <<f, 0, 0>>
  OBVIOUS
<1>2. at[1] = f /\ at[2] = d /\ at[3] = s /\ out[1] = f /\ out[2] = 0 /\ out[3] = 0
  BY <1>1
<1>3. \A x : Unqualified(f, 0, 0, x) = FileLevel(f, x)
  BY DEF Unqualified
<1>4. CASE mod = ""
  <2>1. Unqualified(f, d, s, n) = {id}
    BY <1>1, <1>2, <1>4 DEF Denotes
  <2>2. FileLevel(f, n) = {id}
    BY <2>1, UnqualifiedKinds
  <2>3. Denotes(out, mod, n) = FileLevel(f, n)
    BY <1>2, <1>3, <1>4 DEF Denotes
  <2> QED
    BY <1>1, <2>2, <2>3
<1>5. CASE mod # ""
  <2>1. PICK S : S = Unqualified(f, d, s, mod)
    OBVIOUS
  <2>2. Public(n, {i \in S : Len(i) = 1}) = {id}
    BY <1>1, <1>2, <1>5, <2>1 DEF Denotes
  <2>3. Public(n, {}) = {}
    BY DEF Public
  <2>4. S = FileLevel(f, mod)
    <3>1. ASSUME \A i \in S : Len(i) = 4 PROVE FALSE
      <4>1. {i \in S : Len(i) = 1} = {}
        BY <3>1
      <4> QED
        BY <2>2, <2>3, <4>1
    <3> QED
      BY <2>1, <3>1, UnqualifiedKinds
  <2>5. Denotes(out, mod, n) = Public(n, {i \in S : Len(i) = 1})
    BY <1>2, <1>3, <1>5, <2>4 DEF Denotes
  <2> QED
    BY <1>1, <2>2, <2>5
<1> QED
  BY <1>4, <1>5

\* A type named in a function that is no error is the final one of what it means.
LEMMA SymbolStands ==
  ASSUME Checking, stmt = 0 \/ stmt <= Len(Decl.body), NEW r, NEW sym, sym = TypeSymbol(Scopes, r)
  PROVE  /\ ~IsPending(sym)
         /\ TypeOfSymbol(sym) # Unknown /\ r.base \notin Basic => Stands(file, r, TypeOfSymbol(sym))
<1>1. sym = Resolve(Scopes, r.mod, r.base)
  BY DEF TypeSymbol
<1>2. sym = NoSymbol \/ FromFile(r.base, sym) \/ FromBody(sym)
  BY <1>1, ReachedKinds
<1>3. NoSymbol.kind = "none"
  BY DEF NoSymbol, Symbol
<1>4. ~IsPending(sym)
  BY <1>2, <1>3 DEF IsPending, FromFile, FromBody, Settles
<1>5. ASSUME TypeOfSymbol(sym) # Unknown, r.base \notin Basic PROVE Stands(file, r, TypeOfSymbol(sym))
  <2>1. sym.kind \in {"forma", "imago"} /\ TypeOfSymbol(sym) = sym.type
    BY <1>5 DEF TypeOfSymbol
  <2>2. FromFile(r.base, sym)
    BY <1>2, <1>3, <2>1 DEF FromBody
  <2>3. Known(sym.type)
    BY <2>1, <2>2 DEF FromFile, Settles, Typed, Known
  <2>4. PICK ids : ids = Denotes(<<file, decl, stmt>>, r.mod, r.base)
    OBVIOUS
  <2>5. Means(sym, ids)
    BY <1>1, <2>4, ResolveMeans DEF Checking
  <2>6. Len(NoDecl) = 0
    BY DEF NoDecl
  <2>7. Len(sym.id) \in {1, 2}
    BY <2>2 DEF FromFile, Origin
  <2>8. ids = {sym.id} /\ Len(sym.id) = 2
    BY <2>1, <2>5, <2>6, <2>7 DEF Means
  <2>9. Denotes(<<file, 0, 0>>, r.mod, r.base) = {sym.id}
    <3>1. PICK f, d, s, mod, n, id : f = file /\ d = decl /\ s = stmt /\ mod = r.mod /\ n = r.base /\ id = sym.id
      OBVIOUS
    <3>2. Denotes(<<f, d, s>>, mod, n) = {id} /\ Len(id) = 2
      BY <2>4, <2>8, <3>1
    <3>3. Denotes(<<f, 0, 0>>, mod, n) = {id}
      BY <3>2, OutsideToo
    <3> QED
      BY <3>1, <3>3
  <2>10. sym.id[1] \in DOMAIN prog /\ r.base \in DOMAIN scope[sym.id[1]] /\ sym.type = scope[sym.id[1]][r.base].type
    BY <2>2, <2>3, <2>8 DEF FromFile, Origin, Known
  <2> QED
    BY <1>5, <2>1, <2>3, <2>9, <2>10 DEF Stands
<1> QED
  BY <1>4, <1>5

LEMMA TypeInBody ==
  ASSUME Checking, stmt = 0 \/ stmt <= Len(Decl.body), NEW r, NEW t, t = ResolveType(Scopes, r), t # Unknown
  PROVE  Stands(file, r, t)
<1>1. CASE r.base \in Basic
  BY <1>1 DEF ResolveType, Stands
<1>2. CASE r.base \notin Basic
  <2>1. PICK sym : sym = TypeSymbol(Scopes, r)
    OBVIOUS
  <2>2. t = IF IsPending(sym) THEN ResolvedAlias(Scopes, sym) ELSE TypeOfSymbol(sym)
    BY <1>2, <2>1 DEF ResolveType
  <2> QED
    BY <1>2, <2>1, <2>2, SymbolStands
<1> QED
  BY <1>1, <1>2

\* So is one named in the parameters, whose scope has no types.
LEMMA BeforeParams ==
  ASSUME Checking, stmt = 0, NEW sc, \A n \in DOMAIN sc : sc[n].kind = "sit",
         NEW n, NEW s, s = Lookup(Append(Scopes, sc), n)
  PROVE  s.kind = "sit" \/ s = Lookup(Scopes, n)
<1>1. locals = <<>> /\ file \in DOMAIN prog
  BY DEF Checking, PlaceInv
<1>2. PICK ls : ls = <<sc>>
  OBVIOUS
<1>3. IsSeq(ls) /\ DOMAIN ls = {1} /\ ls[1] = sc
  BY <1>2 DEF IsSeq
<1>4. PICK e : e = <<>> /\ IsSeq(e) /\ DOMAIN e = {}
  <2>1. IsSeq(<<>>) /\ DOMAIN <<>> = {}
    BY DEF IsSeq
  <2> QED
    BY <2>1
<1>5. Append(Scopes, sc) = <<universe, scope[file]>> \o ls
  BY <1>1, <1>2 DEF Scopes
<1>6. \/ \E i \in DOMAIN ls : n \in DOMAIN ls[i] /\ s = ls[i][n]
      \/ n \in DOMAIN scope[file] /\ s = scope[file][n]
      \/ n \notin DOMAIN scope[file] /\ s = Find(universe, n)
  BY <1>1, <1>3, <1>5, LookupIsFrom
<1>7. PICK o : o = Lookup(Scopes, n)
  OBVIOUS
<1>8. o = Lookup(<<universe, scope[file]>> \o e, n)
  BY <1>1, <1>4, <1>7 DEF Scopes
<1>9. \/ n \in DOMAIN scope[file] /\ o = scope[file][n]
      \/ n \notin DOMAIN scope[file] /\ o = Find(universe, n)
  <2>1. IsSeq(e) /\ DOMAIN e = {}
    BY <1>4
  <2>2. \/ \E i \in DOMAIN e : n \in DOMAIN e[i] /\ o = e[i][n]
        \/ n \in DOMAIN scope[file] /\ o = scope[file][n]
        \/ n \notin DOMAIN scope[file] /\ o = Find(universe, n)
    <3>1. PICK g \in DOMAIN prog : g = file
      BY <1>1
    <3>2. o = Lookup(<<universe, scope[g]>> \o e, n)
      BY <1>8, <3>1
    <3>3. \/ \E i \in DOMAIN e : n \in DOMAIN e[i] /\ o = e[i][n]
          \/ (\A i \in DOMAIN e : n \notin DOMAIN e[i]) /\ n \in DOMAIN scope[g] /\ o = scope[g][n]
          \/ /\ \A i \in DOMAIN e : n \notin DOMAIN e[i]
             /\ n \notin DOMAIN scope[g] /\ o = Find(universe, n)
      <4>1. IsSeq(e)
        BY <2>1
      <4> QED
        BY <3>2, <4>1, LookupIsFrom
    <3> QED
      BY <3>1, <3>3
  <2> QED
    BY <2>1, <2>2
<1> QED
  BY <1>3, <1>6, <1>7, <1>9

LEMMA ParamType ==
  ASSUME Checking, stmt = 0, NEW sc, \A n \in DOMAIN sc : sc[n].kind = "sit",
         NEW r, NEW t, t = ResolveType(Append(Scopes, sc), r), t # Unknown
  PROVE  Stands(file, r, t)
<1>1. CASE r.base \in Basic
  BY <1>1 DEF ResolveType, Stands
<1>2. CASE r.base \notin Basic
  <2>1. PICK all : all = Append(Scopes, sc)
    OBVIOUS
  <2>2. PICK sym, old : sym = TypeSymbol(all, r) /\ old = TypeSymbol(Scopes, r)
    OBVIOUS
  <2>3. t = IF IsPending(sym) THEN ResolvedAlias(all, sym) ELSE TypeOfSymbol(sym)
    BY <1>2, <2>1, <2>2 DEF ResolveType
  <2>4. sym = NoSymbol \/ sym.kind = "sit" \/ sym = old
    <3>1. CASE r.mod = ""
      BY <2>1, <2>2, <3>1, BeforeParams DEF TypeSymbol, Resolve
    <3>2. CASE r.mod # ""
      <4>1. PICK m, w : m = Lookup(all, r.mod) /\ w = Lookup(Scopes, r.mod)
        OBVIOUS
      <4>2. m.kind = "sit" \/ m = w
        BY <2>1, <4>1, BeforeParams
      <4>3. sym = Member(m, r.base) /\ old = Member(w, r.base)
        BY <2>2, <3>2, <4>1 DEF TypeSymbol, Resolve
      <4>4. m.kind = "sit" => Member(m, r.base) = NoSymbol
        BY DEF Member
      <4> QED
        BY <4>2, <4>3, <4>4
    <3> QED
      BY <3>1, <3>2
  <2>5. sym = old
    <3>1. NoSymbol.kind = "none"
      BY DEF NoSymbol, Symbol
    <3>2. sym.kind \in {"none", "sit"} => ~IsPending(sym) /\ TypeOfSymbol(sym) = Unknown
      BY DEF IsPending, TypeOfSymbol
    <3> QED
      BY <2>3, <2>4, <3>1, <3>2
  <2> QED
    BY <1>2, <2>2, <2>3, <2>5, SymbolStands
<1> QED
  BY <1>1, <1>2

LEMMA ParamsAreFromBody ==
  ASSUME Checking, stmt = 0, Decl.kind = "actio", ~ParamsBad, NEW r, r = ParamScope[Len(Decl.params)], NEW n \in DOMAIN r
  PROVE  FromBody(r[n])
<1>0. IsSeq(Decl.params) /\ decl \in DOMAIN Decls /\ Decl = Decls[decl]
  BY DeclAtHand DEF Checking, ProperDeclaration
<1>1. PICK N \in Nat : N = Len(Decl.params) /\ DOMAIN Decl.params = 1 .. N
  BY <1>0 DEF IsSeq
<1>2. PICK P : P = ParamScope
  OBVIOUS
<1>3. P[0] = <<>> /\ \A i \in 1 .. N : P[i] = WithParam(P[i - 1], i)
  <2>1. P = [i \in 0 .. N |-> IF i = 0 THEN <<>> ELSE WithParam(P[i - 1], i)]
    BY <1>1, <1>2, ParamScopeIs
  <2>2. \A i \in 0 .. N : P[i] = IF i = 0 THEN <<>> ELSE WithParam(P[i - 1], i)
    BY <2>1
  <2> QED
    BY <2>2
<1>4. PICK T : T = {m \in 0 .. N : ~ \A k \in DOMAIN P[m] : FromBody(P[m][k])}
  OBVIOUS
<1>5. T = {}
  <2>1. SUFFICES ASSUME T # {} PROVE FALSE
    OBVIOUS
  <2>2. T \in SUBSET Nat
    BY <1>4
  <2>3. PICK m \in T : \A k \in T : m <= k
    BY <2>1, <2>2, LeastNat
  <2>4. m \in 0 .. N /\ ~ \A k \in DOMAIN P[m] : FromBody(P[m][k])
    BY <1>4, <2>3
  <2>5. m # 0
    <3>1. DOMAIN <<>> = {}
      OBVIOUS
    <3> QED
      BY <1>3, <2>4, <3>1
  <2>6. m - 1 \in 0 .. N /\ ~(m <= m - 1) /\ m \in 1 .. N
    BY <2>4, <2>5
  <2>7. PICK sc : sc = P[m - 1]
    OBVIOUS
  <2>8. \A k \in DOMAIN sc : FromBody(sc[k])
    <3>1. m - 1 \notin T
      BY <2>3, <2>6
    <3> QED
      BY <1>4, <2>6, <2>7, <3>1
  <2>9. PICK w, t : w = Decl.params[m].type /\ t = ResolveType(Append(Scopes, sc), w)
    OBVIOUS
  <2>10. t # Unknown
    <3>1. ~Bad(Append(Scopes, ParamScope[m - 1]), Decl.params[m].type)
      BY <1>1, <2>6 DEF ParamsBad
    <3> QED
      BY <1>2, <2>7, <2>9, <3>1 DEF Bad
  <2>11. Stands(file, w, t)
    <3>1. \A k \in DOMAIN sc : sc[k].kind = "sit"
      BY <2>8 DEF FromBody
    <3> QED
      BY <2>9, <2>10, <3>1, ParamType
  <2>12. PICK id, sym : id = <<file, decl, "param", m>> /\ sym = Symbol("sit", t, FALSE, id)
    OBVIOUS
  <2>13. id[1] = file /\ id[2] = decl /\ id[3] = "param" /\ id[4] = m /\ Len(id) = 4
    BY <2>12
  <2>14. WrittenAt(id) = w
    BY <1>0, <2>9, <2>13 DEF WrittenAt, DeclOf, Decls
  <2>15. sym.kind = "sit" /\ sym.type = t /\ sym.id = id
    BY <2>12 DEF Symbol
  <2>16. FromBody(sym)
    <3>1. Typed(t)
      BY <2>11, StandsKnown, KnownIsTyped
    <3>2. LocalOrigin(id, t)
      BY <2>11, <2>13, <2>14 DEF LocalOrigin
    <3> QED
      BY <2>15, <3>1, <3>2 DEF FromBody
  <2>17. PICK nm : nm = Decl.params[m].name
    OBVIOUS
  <2>18. P[m] = Define(sc, nm, sym)
    BY <1>3, <2>6, <2>7, <2>9, <2>12, <2>17 DEF WithParam
  <2>19. P[m] = [k \in DOMAIN sc \cup {nm} |-> IF k \in DOMAIN sc THEN sc[k] ELSE sym]
    BY <2>18, DefineIs
  <2> QED
    BY <2>4, <2>8, <2>16, <2>19
<1>6. \A k \in DOMAIN P[N] : FromBody(P[N][k])
  BY <1>4, <1>5
<1> QED
  BY <1>1, <1>2, <1>6

-----------------------------------------------------------------------------
(* What an expression in which nothing is wrong says of its names. *)

LEMMA OperandFits ==
  ASSUME NEW a, ProperOperand(a), NEW x, ~OperandBad(a, x), NEW U, NEW at, NEW t, t = OperandType(a, x),
         a.op = "ref" => \E u \in U : <<u.at, u.mod, u.name>> = <<at, a.mod, a.name>> /\ u.type = Sym(a).type
  PROVE  FitsIn(U, at, a, t)
<1>1. CASE a.op = "ref"
  <2>1. t = Sym(a).type
    BY <1>1 DEF OperandType
  <2> QED
    BY <1>1, <2>1 DEF FitsIn
<1>2. CASE a.op = "int"
  <2>1. t \in Numeric
    BY <1>2 DEF OperandType, Numeric
  <2> QED
    BY <1>2, <2>1 DEF FitsIn
<1>3. CASE a.op = "float"
  <2>1. x # <<"i32">>
    BY <1>3 DEF OperandBad
  <2>2. x \in Numeric => x = <<"f64">>
    BY <2>1 DEF Numeric
  <2>3. t = <<"f64">>
    BY <1>3, <2>2 DEF OperandType
  <2> QED
    BY <1>3, <2>3 DEF FitsIn
<1> QED
  BY <1>1, <1>2, <1>3 DEF ProperOperand

LEMMA NameIsMet ==
  ASSUME NEW e, NEW a \in Names(e), NEW at, at = <<file, decl, stmt>>
  PROVE  \E u \in Met(e) : <<u.at, u.mod, u.name>> = <<at, a.mod, a.name>> /\ u.type = Sym(a).type
<1>1. PICK u : u = [at |-> <<file, decl, stmt>>, mod |-> a.mod, name |-> a.name, id |-> Sym(a).id,
                    type |-> Sym(a).type, alias |-> Sym(a).alias, called |-> a.op = "callee"]
  OBVIOUS
<1>2. u \in Met(e)
  BY <1>1 DEF Met
<1>3. u.at = at /\ u.mod = a.mod /\ u.name = a.name /\ u.type = Sym(a).type
  BY <1>1
<1> QED
  BY <1>2, <1>3

\* The names of an expression, by its form.
LEMMA NamesOf ==
  ASSUME NEW e
  PROVE  /\ e.op = "sum" => \A a : a \in Names(e) <=> a \in {e.left, e.right} /\ a.op \in {"ref", "callee"}
         /\ e.op = "call" =>
              /\ [op |-> "callee", mod |-> e.mod, name |-> e.name] \in Names(e)
              /\ \A a \in Names(e) : \/ a = [op |-> "callee", mod |-> e.mod, name |-> e.name]
                                     \/ \E i \in DOMAIN e.args : a = e.args[i]
              /\ IsActio(Sym(e).type) /\ Len(e.args) = Len(Sym(e).type[3]) =>
                   \A i \in DOMAIN e.args : e.args[i].op = "ref" => e.args[i] \in Names(e)
         /\ e.op = "none" => Names(e) = {}
         /\ e.op \notin {"sum", "call", "none"} => \A a : a \in Names(e) <=> a = e /\ a.op \in {"ref", "callee"}
<1>1. e.op = "sum" => \A a : a \in Names(e) <=> a \in {e.left, e.right} /\ a.op \in {"ref", "callee"}
  BY DEF Names, Operands
<1>2. ASSUME e.op = "call"
      PROVE  /\ [op |-> "callee", mod |-> e.mod, name |-> e.name] \in Names(e)
             /\ \A a \in Names(e) : \/ a = [op |-> "callee", mod |-> e.mod, name |-> e.name]
                                    \/ \E i \in DOMAIN e.args : a = e.args[i]
             /\ IsActio(Sym(e).type) /\ Len(e.args) = Len(Sym(e).type[3]) =>
                  \A i \in DOMAIN e.args : e.args[i].op = "ref" => e.args[i] \in Names(e)
  <2>1. PICK c : c = [op |-> "callee", mod |-> e.mod, name |-> e.name]
    OBVIOUS
  <2>2. c.op = "callee"
    BY <2>1
  <2>3. Operands(e) = {c} \cup (IF IsActio(Sym(e).type) /\ Len(e.args) = Len(Sym(e).type[3])
                                THEN {e.args[i] : i \in DOMAIN e.args} ELSE {})
    BY <1>2, <2>1 DEF Operands
  <2>4. Names(e) = {a \in Operands(e) : a.op \in {"ref", "callee"}}
    BY DEF Names
  <2>5. c \in Names(e)
    BY <2>2, <2>3, <2>4
  <2>6. \A a \in Names(e) : a = c \/ \E i \in DOMAIN e.args : a = e.args[i]
    BY <2>3, <2>4
  <2>7. IsActio(Sym(e).type) /\ Len(e.args) = Len(Sym(e).type[3]) =>
          \A i \in DOMAIN e.args : e.args[i].op = "ref" => e.args[i] \in Names(e)
    BY <2>3, <2>4
  <2> QED
    BY <2>1, <2>5, <2>6, <2>7
<1>3. e.op = "none" => Names(e) = {}
  BY DEF Names, Operands
<1>4. e.op \notin {"sum", "call", "none"} => \A a : a \in Names(e) <=> a = e /\ a.op \in {"ref", "callee"}
  BY DEF Names, Operands
<1> QED
  BY <1>1, <1>2, <1>3, <1>4

\* What a call in which nothing is wrong looks like.
LEMMA GoodCall ==
  ASSUME NEW e, e.op = "call", NEW x, ~ExprBad(e, x), NEW t, t = Sym(e).type
  PROVE  /\ IsActio(t) /\ Len(e.args) = Len(t[3]) /\ ExprType(e, x) = t[2]
         /\ \A i \in DOMAIN e.args : ~OperandBad(e.args[i], t[3][i]) /\ OperandType(e.args[i], t[3][i]) = t[3][i]
<1>1. ~ \/ ~IsActio(t)
        \/ Len(e.args) # Len(t[3])
        \/ \E i \in DOMAIN e.args : OperandBad(e.args[i], t[3][i]) \/ OperandType(e.args[i], t[3][i]) # t[3][i]
  BY DEF ExprBad
<1>2. IsActio(t) => ExprType(e, x) = t[2]
  BY DEF ExprType
<1> QED
  BY <1>1, <1>2

LEMMA GoodSum ==
  ASSUME NEW e, e.op = "sum", NEW x, ~ExprBad(e, x), NEW t, t = OperandType(e.left, x)
  PROVE  /\ ExprType(e, x) = t /\ ~OperandBad(e.left, x) /\ ~OperandBad(e.right, t)
         /\ OperandType(e.right, t) = t
  BY DEF ExprBad, ExprType

LEMMA CheckedFits ==
  ASSUME NEW e, ProperExpr(e), e.op # "none", NEW x, ~ExprBad(e, x), NEW at, at = <<file, decl, stmt>>,
         NEW U, U = Met(e), NEW t, t = ExprType(e, x)
  PROVE  ExprFitsIn(U, at, e, t)
<1>1. \A a \in Names(e) : \E u \in U : <<u.at, u.mod, u.name>> = <<at, a.mod, a.name>> /\ u.type = Sym(a).type
  BY NameIsMet
<1>2. CASE e.op = "sum"
  <2>1. ProperOperand(e.left) /\ ProperOperand(e.right)
    BY <1>2 DEF ProperExpr, ProperOperand
  <2>2. t = OperandType(e.left, x) /\ ~OperandBad(e.left, x) /\ ~OperandBad(e.right, t) /\ t = OperandType(e.right, t)
    BY <1>2, GoodSum
  <2>3. \A a \in {e.left, e.right} : a.op = "ref" => a \in Names(e)
    BY <1>2, NamesOf
  <2>4. FitsIn(U, at, e.left, t)
    BY <1>1, <2>1, <2>2, <2>3, OperandFits
  <2>5. FitsIn(U, at, e.right, t)
    BY <1>1, <2>1, <2>2, <2>3, OperandFits
  <2> QED
    BY <1>2, <2>4, <2>5 DEF ExprFitsIn
<1>3. CASE e.op = "call"
  <2>1. IsSeq(e.args) /\ \A i \in DOMAIN e.args : ProperOperand(e.args[i])
    BY <1>3 DEF ProperExpr, ProperOperand
  <2>2. PICK f : f = Sym(e).type
    OBVIOUS
  <2>3. /\ IsActio(f) /\ Len(e.args) = Len(f[3]) /\ t = f[2]
        /\ \A i \in DOMAIN e.args : ~OperandBad(e.args[i], f[3][i]) /\ OperandType(e.args[i], f[3][i]) = f[3][i]
    BY <1>3, <2>2, GoodCall
  <2>4. PICK c : c = [op |-> "callee", mod |-> e.mod, name |-> e.name]
    OBVIOUS
  <2>5. c \in Names(e) /\ \A i \in DOMAIN e.args : e.args[i].op = "ref" => e.args[i] \in Names(e)
    BY <1>3, <2>2, <2>3, <2>4, NamesOf
  <2>6. c.mod = e.mod /\ c.name = e.name
    BY <2>4
  <2>7. Sym(c) = Sym(e)
    BY <2>6 DEF Sym
  <2>8. PICK u \in U : <<u.at, u.mod, u.name>> = <<at, c.mod, c.name>> /\ u.type = f
    BY <1>1, <2>2, <2>5, <2>7
  <2>9. ASSUME NEW i \in DOMAIN e.args PROVE FitsIn(U, at, e.args[i], f[3][i])
    <3>1. PICK a, y : a = e.args[i] /\ y = f[3][i]
      OBVIOUS
    <3>2. ProperOperand(a) /\ ~OperandBad(a, y) /\ y = OperandType(a, y) /\ (a.op = "ref" => a \in Names(e))
      BY <2>1, <2>3, <2>5, <3>1
    <3>3. FitsIn(U, at, a, y)
      BY <1>1, <3>2, OperandFits
    <3> QED
      BY <3>1, <3>3
  <2>10. <<u.at, u.mod, u.name>> = <<at, e.mod, e.name>>
    BY <2>6, <2>8
  <2> QED
    BY <1>3, <2>3, <2>8, <2>9, <2>10 DEF ExprFitsIn
<1>4. CASE e.op \notin {"sum", "call"}
  <2>1. ProperOperand(e)
    BY <1>4 DEF ProperExpr, ProperOperand
  <2>2. t = OperandType(e, x) /\ ~OperandBad(e, x)
    BY <1>4 DEF ExprType, ExprBad
  <2>3. e.op = "ref" => e \in Names(e)
    BY <1>4, NamesOf
  <2>4. FitsIn(U, at, e, t)
    BY <1>1, <2>1, <2>2, <2>3, OperandFits
  <2> QED
    BY <1>4, <2>4 DEF ExprFitsIn
<1> QED
  BY <1>2, <1>3, <1>4

LEMMA NamesAreFound ==
  ASSUME NEW e, ProperExpr(e), NEW x, ~ExprBad(e, x), NEW a \in Names(e)
  PROVE  Sym(a) # NoSymbol
<1>1. ASSUME ProperOperand(a), NEW y, ~OperandBad(a, y) PROVE Sym(a) # NoSymbol
  <2>1. a.op = "ref"
    BY <1>1 DEF Names, ProperOperand
  <2> QED
    BY <1>1, <2>1 DEF OperandBad
<1>2. CASE e.op = "sum"
  <2>1. ProperOperand(e.left) /\ ProperOperand(e.right)
    BY <1>2 DEF ProperExpr, ProperOperand
  <2>2. PICK t : t = OperandType(e.left, x)
    OBVIOUS
  <2>3. ~OperandBad(e.left, x) /\ ~OperandBad(e.right, t)
    BY <1>2, <2>2, GoodSum
  <2>4. a \in {e.left, e.right}
    BY <1>2, NamesOf
  <2> QED
    BY <1>1, <2>1, <2>3, <2>4
<1>3. CASE e.op = "call"
  <2>1. \A i \in DOMAIN e.args : ProperOperand(e.args[i])
    BY <1>3 DEF ProperExpr, ProperOperand
  <2>2. PICK f : f = Sym(e).type
    OBVIOUS
  <2>3. IsActio(f) /\ \A i \in DOMAIN e.args : ~OperandBad(e.args[i], f[3][i])
    BY <1>3, <2>2, GoodCall
  <2>4. PICK c : c = [op |-> "callee", mod |-> e.mod, name |-> e.name]
    OBVIOUS
  <2>5. a = c \/ \E i \in DOMAIN e.args : a = e.args[i]
    BY <1>3, <2>4, NamesOf
  <2>6. CASE a = c
    <3>1. c.mod = e.mod /\ c.name = e.name
      BY <2>4
    <3>2. Sym(c) = Sym(e)
      BY <3>1 DEF Sym
    <3>3. ~IsActio(NoSymbol.type)
      BY DEF NoSymbol, Symbol, IsActio, Unknown
    <3> QED
      BY <2>2, <2>3, <2>6, <3>2, <3>3
  <2>7. ASSUME NEW i \in DOMAIN e.args, a = e.args[i] PROVE Sym(a) # NoSymbol
    BY <1>1, <2>1, <2>3, <2>7
  <2> QED
    BY <2>5, <2>6, <2>7
<1>4. CASE e.op \notin {"sum", "call"}
  <2>1. e.op # "none" /\ a = e
    BY <1>4, NamesOf
  <2>2. ProperOperand(e) /\ ~OperandBad(e, x)
    BY <1>4, <2>1 DEF ProperExpr, ProperOperand, ExprBad
  <2> QED
    BY <1>1, <2>1, <2>2
<1> QED
  BY <1>2, <1>3, <1>4

LEMMA MetIsTraced ==
  ASSUME Checking, stmt = 0 \/ stmt <= Len(Decl.body), NEW e, ProperExpr(e), NEW x, ~ExprBad(e, x)
  PROVE  \A u \in Met(e) : Traced(u.name, u.id, u.type)
<1> SUFFICES ASSUME NEW u \in Met(e) PROVE Traced(u.name, u.id, u.type)
  OBVIOUS
<1>1. PICK a \in Names(e) : u = [at |-> <<file, decl, stmt>>, mod |-> a.mod, name |-> a.name, id |-> Sym(a).id,
                                 type |-> Sym(a).type, alias |-> Sym(a).alias, called |-> a.op = "callee"]
  BY DEF Met
<1>2. PICK s : s = Sym(a)
  OBVIOUS
<1>3. s # NoSymbol
  BY <1>2, NamesAreFound
<1>4. s = Resolve(Scopes, a.mod, a.name)
  BY <1>2 DEF Sym
<1>5. Traced(a.name, s.id, s.type)
  BY <1>3, <1>4, ReachedIsTraced
<1> QED
  BY <1>1, <1>2, <1>5

LEMMA OperandIsTyped ==
  ASSUME Checking, stmt = 0 \/ stmt <= Len(Decl.body), NEW a, ProperOperand(a), NEW x, ~OperandBad(a, x)
  PROVE  Typed(OperandType(a, x))
<1>1. CASE a.op = "ref"
  <2>1. PICK s : s = Sym(a)
    OBVIOUS
  <2>2. s # NoSymbol /\ OperandType(a, x) = s.type
    BY <1>1, <2>1 DEF OperandBad, OperandType
  <2>3. s = Resolve(Scopes, a.mod, a.name)
    BY <2>1 DEF Sym
  <2>4. Typed(s.type)
    BY <2>2, <2>3, ReachedIsTraced DEF Traced
  <2> QED
    BY <2>2, <2>4
<1>2. CASE a.op # "ref"
  <2>1. OperandType(a, x) \in {<<"i32">>, <<"f64">>}
    BY <1>2 DEF OperandType, Numeric
  <2> QED
    BY <2>1 DEF Typed, IsActio, Unknown
<1> QED
  BY <1>1, <1>2

LEMMA ExprIsTyped ==
  ASSUME Checking, stmt = 0 \/ stmt <= Len(Decl.body), NEW e, ProperExpr(e), e.op # "none", NEW x, ~ExprBad(e, x)
  PROVE  Typed(ExprType(e, x)) /\ (e.op = "call" => Known(ExprType(e, x)))
<1>1. CASE e.op = "sum"
  <2>1. ProperOperand(e.left)
    BY <1>1 DEF ProperExpr, ProperOperand
  <2>2. ExprType(e, x) = OperandType(e.left, x) /\ ~OperandBad(e.left, x)
    BY <1>1, GoodSum
  <2> QED
    BY <1>1, <2>1, <2>2, OperandIsTyped
<1>2. CASE e.op = "call"
  <2>1. PICK s : s = Sym(e)
    OBVIOUS
  <2>2. IsActio(s.type) /\ ExprType(e, x) = s.type[2]
    BY <1>2, <2>1, GoodCall
  <2>3. s # NoSymbol
    BY <2>2 DEF NoSymbol, Symbol, IsActio, Unknown
  <2>4. s = Resolve(Scopes, e.mod, e.name)
    BY <2>1 DEF Sym
  <2>5. Typed(s.type)
    BY <2>3, <2>4, ReachedIsTraced DEF Traced
  <2>6. Known(s.type[2])
    BY <2>2, <2>5 DEF Typed
  <2> QED
    BY <2>2, <2>6, KnownIsTyped
<1>3. CASE e.op \notin {"sum", "call"}
  <2>1. ProperOperand(e)
    BY <1>3 DEF ProperExpr, ProperOperand
  <2>2. ExprType(e, x) = OperandType(e, x) /\ ~OperandBad(e, x)
    BY <1>3 DEF ExprType, ExprBad
  <2> QED
    BY <1>3, <2>1, <2>2, OperandIsTyped
<1> QED
  BY <1>1, <1>2, <1>3

\* It has no type only if a name in it has none yet.
LEMMA UntypedIsMet ==
  ASSUME Checking, stmt = 0 \/ stmt <= Len(Decl.body), NEW e, ProperExpr(e), e.op # "none", NEW x, ~ExprBad(e, x),
         ExprType(e, x) = NoType
  PROVE  \E u \in Met(e) : u.type = NoType
<1>1. ASSUME NEW a, ProperOperand(a), NEW y, OperandType(a, y) = NoType, a.op = "ref" => a \in Names(e)
      PROVE  \E u \in Met(e) : u.type = NoType
  <2>1. a.op = "ref"
    <3>1. a.op # "ref" => OperandType(a, y) \in {<<"i32">>, <<"f64">>}
      BY DEF OperandType, Numeric
    <3> QED
      BY <1>1, <3>1 DEF NoType
  <2>2. Sym(a).type = NoType
    BY <1>1, <2>1 DEF OperandType
  <2>3. PICK at : at = <<file, decl, stmt>>
    OBVIOUS
  <2>4. \E u \in Met(e) : <<u.at, u.mod, u.name>> = <<at, a.mod, a.name>> /\ u.type = Sym(a).type
    BY <1>1, <2>1, <2>3, NameIsMet
  <2> QED
    BY <2>2, <2>4
<1>2. CASE e.op = "sum"
  <2>1. ProperOperand(e.left)
    BY <1>2 DEF ProperExpr, ProperOperand
  <2>2. ExprType(e, x) = OperandType(e.left, x)
    BY <1>2, GoodSum
  <2>3. e.left.op = "ref" => e.left \in Names(e)
    BY <1>2, NamesOf
  <2> QED
    BY <1>1, <2>1, <2>2, <2>3
<1>3. e.op # "call"
  BY ExprIsTyped DEF Known
<1>4. CASE e.op \notin {"sum", "call"}
  <2>1. ProperOperand(e)
    BY <1>4 DEF ProperExpr, ProperOperand
  <2>2. ExprType(e, x) = OperandType(e, x)
    BY <1>4 DEF ExprType
  <2>3. e.op = "ref" => e \in Names(e)
    BY <1>4, NamesOf
  <2> QED
    BY <1>1, <2>1, <2>2, <2>3
<1> QED
  BY <1>2, <1>3, <1>4

-----------------------------------------------------------------------------
(* The steps of the fourth pass. *)

LEMMA StatementIsProper ==
  ASSUME PlaceInv, NEW op, InBody(op)
  PROVE  /\ pass = "bodies" /\ stmt <= Len(Decl.body) /\ stmt \in DOMAIN Decl.body /\ stmt > 0
         /\ decl \in DOMAIN AllDecls(file) /\ Decl = AllDecls(file)[decl] /\ Decl.kind = "actio"
         /\ ProperExpr(Stmt.init) /\ Stmt.op = op /\ IsSeq(Decl.body)
<1>1. pass = "bodies" /\ stmt > 0 /\ stmt <= Len(Decl.body) /\ Stmt.op = op /\ stmt \in Nat
  BY DEF InBody, PlaceInv
<1>2. Decl.kind = "actio"
  BY <1>1 DEF PlaceInv
<1>3. decl \in DOMAIN AllDecls(file) /\ Decl = AllDecls(file)[decl] /\ ProperDeclaration(Decl)
  BY <1>2, DeclAtHand
<1>4. IsSeq(Decl.body) /\ \A j \in DOMAIN Decl.body : ProperExpr(Decl.body[j].init)
  BY <1>2, <1>3 DEF ProperDeclaration
<1>5. stmt \in DOMAIN Decl.body
  BY <1>1, <1>4, SeqDomain
<1> QED
  BY <1>1, <1>2, <1>3, <1>4, <1>5 DEF Stmt

\* An initialiser without error, for a variable declared with a type or none.
LEMMA GoodInitialiser ==
  ASSUME Checking, stmt = 0 \/ stmt <= Len(Decl.body), NEW e, ProperExpr(e), NEW declared, ~InitBad(declared, e)
  PROVE  /\ e.op # "none" => ~ExprBad(e, declared)
         /\ declared # NoType =>
              /\ VariableType(declared, e) = declared
              /\ e.op # "none" => ExprType(e, declared) \in {declared, NoType}
         /\ declared = NoType =>
              /\ e.op # "none" /\ VariableType(declared, e) = ExprType(e, declared)
              /\ Typed(ExprType(e, declared)) /\ ExprType(e, declared) # NoType
<1>1. e.op # "none" => ~ExprBad(e, declared)
  BY DEF InitBad
<1>2. declared # NoType => /\ VariableType(declared, e) = declared
                           /\ e.op # "none" => ExprType(e, declared) \in {declared, NoType}
  BY DEF InitBad, VariableType
<1>3. declared = NoType => /\ e.op # "none" /\ VariableType(declared, e) = ExprType(e, declared)
                           /\ ExprType(e, declared) # NoType
  BY DEF InitBad, VariableType
<1> QED
  BY <1>1, <1>2, <1>3, ExprIsTyped

LEMMA LocalDeclared ==
  ASSUME Checking, DeclareLocal, pass' # "crashed", ~Flawed',
         NEW declared, declared = IF Stmt.type = NoRef THEN NoType ELSE ResolveType(Scopes, Stmt.type),
         NEW sym, sym = Symbol("sit", VariableType(declared, Stmt.init), FALSE, <<file, decl, "local", stmt>>)
  PROVE  /\ locals' = [locals EXCEPT ![Inner] = Define(@, Stmt.name, sym)]
         /\ uses' = uses \cup Met(Stmt.init)
         /\ ~InitBad(declared, Stmt.init) /\ declared # Unknown
         /\ Stmt.type # NoRef => Stands(file, Stmt.type, declared)
         /\ FromBody(sym)
<1>1. ~Crash
  BY DEF Crash
<1>2. /\ locals' = [locals EXCEPT ![Inner] = Define(@, Stmt.name, sym)]
      /\ uses' = uses \cup Met(Stmt.init) /\ ~InitBad(declared, Stmt.init) /\ declared # Unknown
  BY <1>1 DEF DeclareLocal, Follow, Flawed
<1>3. InBody("sit") /\ PlaceInv
  BY DEF DeclareLocal, Checking
<1>4. /\ stmt <= Len(Decl.body) /\ decl \in DOMAIN AllDecls(file) /\ Decl = AllDecls(file)[decl]
      /\ ProperExpr(Stmt.init)
  BY <1>3, StatementIsProper
<1>5. Stmt.type # NoRef => Stands(file, Stmt.type, declared)
  BY <1>2, <1>4, TypeInBody
<1>6. PICK t : t = VariableType(declared, Stmt.init)
  OBVIOUS
<1>7. Typed(t) /\ (Stmt.type # NoRef => t = declared)
  <2>1. CASE Stmt.type # NoRef
    <3>1. Known(declared)
      BY <1>5, <2>1, StandsKnown
    <3>2. t = declared
      BY <1>2, <1>4, <1>6, <3>1, GoodInitialiser DEF Known
    <3> QED
      BY <3>1, <3>2, KnownIsTyped
  <2>2. CASE Stmt.type = NoRef
    <3>1. declared = NoType
      BY <2>2
    <3>2. Typed(t)
      BY <1>2, <1>4, <1>6, <3>1, GoodInitialiser
    <3> QED
      BY <2>2, <3>2
  <2> QED
    BY <2>1, <2>2
<1>8. PICK id : id = <<file, decl, "local", stmt>>
  OBVIOUS
<1>9. Len(id) = 4 /\ id[1] = file /\ id[2] = decl /\ id[3] # "param" /\ id[4] = stmt
  BY <1>8
<1>10. WrittenAt(id) = Stmt.type
  BY <1>4, <1>9 DEF WrittenAt, DeclOf, AllDecls, Stmt
<1>11. LocalOrigin(id, t)
  BY <1>5, <1>7, <1>9, <1>10 DEF LocalOrigin
<1>12. sym.kind = "sit" /\ sym.type = t /\ sym.id = id
  BY <1>6, <1>8 DEF Symbol
<1> QED
  BY <1>2, <1>5, <1>7, <1>11, <1>12 DEF FromBody

LEMMA LocalsOfStatement ==
  ASSUME Checking, ~Flawed',
         OpenBlock \/ CloseBlock \/ ((DeclareLocal \/ Evaluate \/ Return) /\ pass' # "crashed")
  PROVE  \A i \in DOMAIN locals' : \A n \in DOMAIN locals'[i] : FromBody(locals'[i][n])
<1>1. \A i \in DOMAIN locals : \A n \in DOMAIN locals[i] : FromBody(locals[i][n])
  BY ScopesAreFromFiles
<1>2. IsSeq(locals)
  BY LocalsAreSeq DEF Checking
<1>3. PICK N \in Nat : N = Len(locals) /\ DOMAIN locals = 1 .. N
  BY <1>2, SeqDomain
<1>4. ASSUME \A i \in DOMAIN locals' : i \in DOMAIN locals /\ locals'[i] = locals[i]
      PROVE  \A i \in DOMAIN locals' : \A n \in DOMAIN locals'[i] : FromBody(locals'[i][n])
  BY <1>1, <1>4
<1>5. CASE OpenBlock
  <2>1. PICK ls, none : ls = locals' /\ none = <<>> /\ ls = Append(locals, none)
    BY <1>5 DEF OpenBlock
  <2>2. DOMAIN none = {}
    BY <2>1
  <2>3. IsSeq(ls) /\ Len(ls) = N + 1 /\ (\A i \in 1 .. N : ls[i] = locals[i]) /\ ls[N + 1] = none
    BY <1>2, <1>3, <2>1, AppendIs
  <2>4. DOMAIN ls = 1 .. (N + 1)
    BY <2>3, SeqDomain
  <2>5. ASSUME NEW i \in DOMAIN ls, NEW n \in DOMAIN ls[i] PROVE FromBody(ls[i][n])
    <3>1. i \in 1 .. N \/ i = N + 1
      BY <2>4
    <3>2. i # N + 1
      BY <2>2, <2>3, <2>5
    <3> QED
      BY <1>1, <1>3, <2>3, <2>5, <3>1, <3>2
  <2> QED
    BY <2>1, <2>5
<1>6. CASE CloseBlock
  <2>1. PICK ls : ls = locals' /\ ls = SubSeq(locals, 1, N - 1)
    BY <1>3, <1>6 DEF CloseBlock, LeaveScope
  <2>2. PICK S : S = {locals[i] : i \in 1 .. N}
    OBVIOUS
  <2>3. locals \in Seq(S)
    <3>1. locals = [i \in 1 .. N |-> locals[i]]
      BY <1>2, <1>3 DEF IsSeq
    <3> QED
      BY <1>3, <2>2, <3>1
  <2>4. \A i \in DOMAIN ls : i \in 1 .. N /\ ls[i] = locals[i]
    BY <1>3, <2>1, <2>3
  <2> QED
    BY <1>3, <1>4, <2>1, <2>4
<1>7. CASE (Evaluate \/ Return) /\ pass' # "crashed"
  <2>1. locals' = locals
    BY <1>7 DEF Evaluate, Return, Crash
  <2> QED
    BY <1>1, <2>1
<1>8. CASE DeclareLocal /\ pass' # "crashed"
  <2>1. PICK declared, sym :
          /\ declared = IF Stmt.type = NoRef THEN NoType ELSE ResolveType(Scopes, Stmt.type)
          /\ sym = Symbol("sit", VariableType(declared, Stmt.init), FALSE, <<file, decl, "local", stmt>>)
    OBVIOUS
  <2>2. locals' = [locals EXCEPT ![Inner] = Define(@, Stmt.name, sym)] /\ FromBody(sym)
    BY <1>8, <2>1, LocalDeclared
  <2>3. PICK ls, top, k, nm : ls = locals' /\ nm = Stmt.name /\ k = Inner /\ top = Define(locals[k], nm, sym)
    OBVIOUS
  <2>4. DOMAIN ls = DOMAIN locals /\ \A i \in DOMAIN ls : ls[i] = IF i = k THEN top ELSE locals[i]
    <3>1. ls = [locals EXCEPT ![k] = top]
      BY <2>2, <2>3
    <3> QED
      BY <3>1
  <2>5. top = [m \in DOMAIN locals[k] \cup {nm} |-> IF m \in DOMAIN locals[k] THEN locals[k][m] ELSE sym]
    BY <2>3, DefineIs
  <2>6. ASSUME NEW i \in DOMAIN ls, NEW n \in DOMAIN ls[i] PROVE FromBody(ls[i][n])
    <3>1. CASE i = k
      BY <1>1, <2>2, <2>4, <2>5, <2>6, <3>1
    <3>2. CASE i # k
      BY <1>1, <2>4, <2>6, <3>2
    <3> QED
      BY <3>1, <3>2
  <2> QED
    BY <2>3, <2>6
<1> QED
  BY <1>5, <1>6, <1>7, <1>8

LEMMA LocalsOfParams ==
  ASSUME Checking, ~Flawed', EnterFunction, stmt' # 0
  PROVE  \A i \in DOMAIN locals' : \A n \in DOMAIN locals'[i] : FromBody(locals'[i][n])
<1>1. Decl.kind = "actio" /\ stmt = 0
  BY DEF EnterFunction
<1>2. ~Decl.barbara
  BY DEF EnterFunction, Advance
<1>3. PICK sc, none, ls : sc = ParamScope[Len(Decl.params)] /\ none = <<>> /\ ls = locals' /\ ls = <<sc, none>>
  BY <1>2 DEF EnterFunction
<1>4. ~ParamsBad
  BY <1>2 DEF EnterFunction, Flawed
<1>5. \A n \in DOMAIN sc : FromBody(sc[n])
  BY <1>1, <1>3, <1>4, ParamsAreFromBody
<1>6. DOMAIN none = {} /\ DOMAIN ls = {1, 2} /\ ls[1] = sc /\ ls[2] = none
  BY <1>3
<1> QED
  BY <1>3, <1>5, <1>6

LEMMA GlobalChecked ==
  ASSUME Checking, CheckGlobal, pass' # "crashed", ~Flawed',
         NEW n, n = Decl.name, NEW e, e = Decl.init, NEW declared, declared = scope[file][n].type
  PROVE  /\ stmt = 0 /\ decl \in DOMAIN AllDecls(file) /\ Decl = AllDecls(file)[decl] /\ ProperExpr(e)
         /\ n \in DOMAIN scope[file] /\ scope[file][n].id = <<file, decl>>
         /\ scope' = [scope EXCEPT ![file][n].type = VariableType(declared, e)]
         /\ scope'[file][n].type = VariableType(declared, e) /\ scope'[file][n].id = <<file, decl>>
         /\ ~InitBad(declared, e) /\ uses' = uses \cup Met(e)
         /\ DOMAIN scope'[file] = DOMAIN scope[file]
         /\ \A m \in DOMAIN scope[file] : m # n => scope'[file][m] = scope[file][m]
         /\ \A g \in DOMAIN prog : g # file => scope'[g] = scope[g]
<1>1. /\ pass = "bodies" /\ Decl.kind \in {"sit", "lex"} /\ file \in DOMAIN prog
      /\ scope = [f \in DOMAIN prog |-> scope[f]]
  BY DEF CheckGlobal, PlaceInv, Checking
<1>2. stmt = 0
  BY <1>1 DEF PlaceInv, Checking
<1>3. decl \in DOMAIN Decls /\ Decl = AllDecls(file)[decl] /\ Decls = AllDecls(file) /\ ProperDeclaration(Decl)
  BY <1>1, DeclAtHand DEF Checking
<1>4. ProperExpr(e)
  BY <1>1, <1>3 DEF ProperDeclaration
<1>5. decl \in Collected(file)
  BY <1>1, <1>3 DEF Collected
<1>6. n \in DOMAIN scope[file] /\ scope[file][n] = Symbol(Decl.kind, declared, Decl.pub, <<file, decl>>)
  BY <1>1, <1>3, <1>5, FlawlessFacts DEF OwnInv, Checking
<1>7. PICK t : t = VariableType(declared, e)
  OBVIOUS
<1>8. scope' = [scope EXCEPT ![file][n].type = t] /\ ~InitBad(declared, e) /\ uses' = uses \cup Met(e)
  <2>1. Find(scope[file], Decl.name).type = declared
    BY <1>6 DEF Find
  <2>2. ~Crashes(Decl.init)
    BY <1>1 DEF CheckGlobal, Crash
  <2>3. scope' = [scope EXCEPT ![file][Decl.name].type = VariableType(declared, Decl.init)]
        /\ Advance(InitBad(declared, Decl.init)) /\ uses' = uses \cup Met(Decl.init)
    BY <2>1, <2>2 DEF CheckGlobal
  <2>4. ~InitBad(declared, Decl.init)
    BY <2>3 DEF Advance, Flawed
  <2> QED
    BY <1>7, <2>3, <2>4
<1>9. PICK s, r : s = scope[file][n] /\ r = [s EXCEPT !.type = t]
  OBVIOUS
<1>10. r.type = t /\ r.id = <<file, decl>> /\ s.id = <<file, decl>>
  <2>1. s = [kind |-> Decl.kind, type |-> declared, pub |-> Decl.pub, id |-> <<file, decl>>, alias |-> FALSE]
    BY <1>6, <1>9 DEF Symbol
  <2> QED
    BY <1>9, <2>1
<1>11. scope'[file] = [scope[file] EXCEPT ![n] = r]
  BY <1>1, <1>8, <1>9
<1>12. scope'[file][n] = r /\ DOMAIN scope'[file] = DOMAIN scope[file]
       /\ \A m \in DOMAIN scope[file] : m # n => scope'[file][m] = scope[file][m]
  BY <1>6, <1>11
<1>13. \A g \in DOMAIN prog : g # file => scope'[g] = scope[g]
  BY <1>1, <1>8
<1> QED
  BY <1>2, <1>3, <1>4, <1>6, <1>7, <1>8, <1>9, <1>10, <1>12, <1>13

LEMMA MetOfGood ==
  ASSUME Checking, stmt = 0 \/ stmt <= Len(Decl.body), NEW e, ProperExpr(e), NEW x, e.op # "none" => ~ExprBad(e, x)
  PROVE  \A u \in Met(e) : Traced(u.name, u.id, u.type)
<1>1. CASE e.op = "none"
  <2>1. Names(e) = {}
    BY <1>1, NamesOf
  <2>2. Met(e) = {}
    BY <2>1 DEF Met
  <2> QED
    BY <2>2
<1>2. CASE e.op # "none"
  BY <1>2, MetIsTraced
<1> QED
  BY <1>1, <1>2

\* The type an expression was given if nothing was wrong with its statement.
LEMMA StatementChecked ==
  ASSUME Checking, DeclareLocal \/ Evaluate \/ Return, pass' # "crashed", ~Flawed'
  PROVE  /\ uses' = uses \cup Met(Stmt.init) /\ stmt <= Len(Decl.body) /\ ProperExpr(Stmt.init)
         /\ \E x : Stmt.init.op # "none" => ~ExprBad(Stmt.init, x)
<1>1. ~Crash
  BY DEF Crash
<1>2. PICK op : InBody(op)
  BY DEF DeclareLocal, Evaluate, Return
<1>3. stmt <= Len(Decl.body) /\ ProperExpr(Stmt.init)
  BY <1>2, StatementIsProper DEF Checking
<1>4. CASE DeclareLocal
  <2>1. PICK declared, sym :
          /\ declared = IF Stmt.type = NoRef THEN NoType ELSE ResolveType(Scopes, Stmt.type)
          /\ sym = Symbol("sit", VariableType(declared, Stmt.init), FALSE, <<file, decl, "local", stmt>>)
    OBVIOUS
  <2>2. uses' = uses \cup Met(Stmt.init) /\ ~InitBad(declared, Stmt.init)
    BY <1>4, <2>1, LocalDeclared
  <2>3. Stmt.init.op # "none" => ~ExprBad(Stmt.init, declared)
    BY <2>2 DEF InitBad
  <2> QED
    BY <1>3, <2>2, <2>3
<1>5. CASE Evaluate
  <2>1. uses' = uses \cup Met(Stmt.init) /\ ~ExprBad(Stmt.init, NoType)
    BY <1>1, <1>5 DEF Evaluate, Follow, Flawed
  <2> QED
    BY <1>3, <2>1
<1>6. CASE Return
  <2>1. uses' = uses \cup Met(Stmt.init) /\ (Stmt.init.op # "none" => ~ExprBad(Stmt.init, ReturnType))
    BY <1>1, <1>6 DEF Return, Follow, Flawed
  <2> QED
    BY <1>3, <2>1
<1> QED
  BY <1>4, <1>5, <1>6

LEMMA NewUsesTraced ==
  ASSUME Checking, ~Flawed', (CheckGlobal \/ DeclareLocal \/ Evaluate \/ Return) /\ pass' # "crashed",
         NEW u \in uses'
  PROVE  Traced(u.name, u.id, u.type)
<1>1. \A v \in uses : Traced(v.name, v.id, v.type)
  BY DEF Checking, OriginsInv
<1>2. CASE CheckGlobal
  <2>1. PICK n, e, declared : n = Decl.name /\ e = Decl.init /\ declared = scope[file][n].type
    OBVIOUS
  <2>2. stmt = 0 /\ ProperExpr(e) /\ ~InitBad(declared, e) /\ uses' = uses \cup Met(e)
    BY <1>2, <2>1, GlobalChecked
  <2>3. e.op # "none" => ~ExprBad(e, declared)
    BY <2>2 DEF InitBad
  <2>4. \A v \in Met(e) : Traced(v.name, v.id, v.type)
    BY <2>2, <2>3, MetOfGood
  <2> QED
    BY <1>1, <2>2, <2>4
<1>3. CASE DeclareLocal \/ Evaluate \/ Return
  <2>1. PICK e, x : e = Stmt.init /\ (e.op # "none" => ~ExprBad(e, x))
    BY <1>3, StatementChecked
  <2>2. uses' = uses \cup Met(e) /\ ProperExpr(e) /\ stmt <= Len(Decl.body)
    BY <1>3, <2>1, StatementChecked
  <2>3. \A v \in Met(e) : Traced(v.name, v.id, v.type)
    BY <2>1, <2>2, MetOfGood
  <2> QED
    BY <1>1, <2>2, <2>3
<1> QED
  BY <1>2, <1>3

\* What an import brings has the type of its declaration, as the exporter's symbol has.
LEMMA ImportOrigins ==
  ASSUME PlaceInv, UniverseInv, ImportDeclaration, GlobalOrigins
  PROVE  \A n \in DOMAIN scope'[file] : Origin(n, scope'[file][n].id, scope'[file][n].type)
<1>1. /\ file \in DOMAIN prog /\ scope = [f \in DOMAIN prog |-> scope[f]]
      /\ \A g \in DOMAIN prog : \A n \in DOMAIN scope[g] : Origin(n, scope[g][n].id, scope[g][n].type)
  BY DEF PlaceInv, GlobalOrigins
<1>2. ASSUME NEW sc, scope'[file] = Completed(scope[file], sc),
             \A n \in DOMAIN sc : Origin(n, sc[n].id, sc[n].type)
      PROVE  \A n \in DOMAIN scope'[file] : Origin(n, scope'[file][n].id, scope'[file][n].type)
  <2>1. scope'[file] = [n \in DOMAIN scope[file] \cup DOMAIN sc |->
                          IF n \in DOMAIN scope[file] THEN scope[file][n] ELSE sc[n]]
    BY <1>2, CompletedKeeps
  <2> QED
    BY <1>1, <1>2, <2>1
<1>3. ASSUME scope'[file] = scope[file]
      PROVE  \A n \in DOMAIN scope'[file] : Origin(n, scope'[file][n].id, scope'[file][n].type)
  BY <1>1, <1>3
<1>4. CASE Decl.kind # "importa"
  BY <1>3, <1>4 DEF ImportDeclaration
<1>5. CASE Decl.kind = "importa"
  <2>1. PICK m, items, from : /\ m = Find(universe, from) /\ from = Decl.from
                              /\ items = {Decl.items[i] : i \in DOMAIN Decl.items}
    OBVIOUS
  <2>2. PICK brought, self : /\ brought = [n \in {n \in items : Member(m, n) # NoSymbol} |-> Alias(Member(m, n))]
                             /\ self = [m EXCEPT !.pub = FALSE]
    OBVIOUS
  <2>3. scope'[file] = IF m = NoSymbol THEN scope[file]
                       ELSE IF items = {} THEN Define(scope[file], from, self)
                       ELSE Completed(scope[file], brought)
    BY <1>1, <1>5, <2>1, <2>2 DEF ImportDeclaration
  <2>4. PICK one : one = [n \in {from} |-> self]
    OBVIOUS
  <2>5. Define(scope[file], from, self) = Completed(scope[file], one)
    BY <2>4 DEF Define
  <2>6. ASSUME m # NoSymbol PROVE \E f \in DOMAIN prog : m = Symbol("module", Module, TRUE, <<f>>)
    <3>1. pass = "imports"
      BY DEF ImportDeclaration
    <3>2. ~Failing({"modules"})
      BY <3>1 DEF Failing
    <3>3. from \in DOMAIN universe /\ m = universe[from]
      BY <2>1, <2>6 DEF Find
    <3>4. PICK f \in SeenModules : prog[f].name = from
      BY <3>2, <3>3 DEF UniverseInv
    <3>5. f \in DOMAIN prog
      BY <3>1, <3>4 DEF SeenModules
    <3>6. universe[from] = Symbol("module", Module, TRUE, <<f>>)
      BY <3>2, <3>4 DEF UniverseInv
    <3> QED
      BY <3>3, <3>5, <3>6
  <2>7. ASSUME NEW f \in DOMAIN prog, m = Symbol("module", Module, TRUE, <<f>>)
        PROVE  Origin(from, self.id, self.type) /\ m.id[1] = f
    <3>1. m = [kind |-> "module", type |-> Module, pub |-> TRUE, id |-> <<f>>, alias |-> FALSE]
      BY <2>7 DEF Symbol
    <3>2. self = [kind |-> "module", type |-> Module, pub |-> FALSE, id |-> <<f>>, alias |-> FALSE]
      BY <2>2, <3>1
    <3>3. self.id = <<f>> /\ self.type = Module
      BY <3>2
    <3>4. Len(self.id) = 1
      BY <3>3
    <3>5. m.id[1] = f
      BY <3>1
    <3> QED
      BY <3>3, <3>4, <3>5 DEF Origin
  <2>8. ASSUME m # NoSymbol, NEW n \in DOMAIN brought PROVE Origin(n, brought[n].id, brought[n].type)
    <3>1. PICK f \in DOMAIN prog : m.id[1] = f
      BY <2>6, <2>7, <2>8
    <3>2. PICK s : s = Member(m, n)
      OBVIOUS
    <3>3. s # NoSymbol /\ brought[n] = Alias(s)
      BY <2>2, <2>8, <3>2
    <3>4. n \in DOMAIN scope[f] /\ s = scope[f][n]
      BY <3>1, <3>2, <3>3, MemberIs
    <3>5. Origin(n, s.id, s.type)
      BY <1>1, <3>4
    <3>6. Alias(s).id = s.id /\ Alias(s).type = s.type
      BY DEF Alias
    <3> QED
      BY <3>3, <3>5, <3>6
  <2>9. m # NoSymbol => \A n \in DOMAIN one : Origin(n, one[n].id, one[n].type)
    BY <2>4, <2>6, <2>7
  <2>10. CASE m = NoSymbol
    BY <1>3, <2>3, <2>10
  <2>11. CASE m # NoSymbol /\ items = {}
    BY <1>2, <2>3, <2>5, <2>9, <2>11
  <2>12. CASE m # NoSymbol /\ items # {}
    BY <1>2, <2>3, <2>8, <2>12
  <2> QED
    BY <2>10, <2>11, <2>12
<1> QED
  BY <1>4, <1>5

\* Before the first import a scope has only what its file declares.
StartInv == pass = "imports" /\ file = 1 /\ decl = 1 /\ ~Flawed => GlobalOrigins /\ uses = {}

LEMMA StartFollows ==
  ASSUME PlaceInv, OwnInv, ScopeInv, RefersInv
  PROVE  StartInv
<1> SUFFICES ASSUME pass = "imports", file = 1, decl = 1, ~Flawed PROVE GlobalOrigins /\ uses = {}
  BY DEF StartInv
<1>1. uses = {}
  BY DEF RefersInv
<1>2. ASSUME NEW g \in DOMAIN prog, NEW n \in DOMAIN scope[g] PROVE Origin(n, scope[g][n].id, scope[g][n].type)
  <2>1. OwnNow(g, n) # {} \/ Imported(g, n) # {}
    BY <1>2, FlawlessFacts DEF ScopeInv, AccountedFor
  <2>2. Imported(g, n) = {}
    <3>1. ASSUME NEW d \in DOMAIN AllDecls(g) PROVE ~Begun(g, d)
      <4>1. g \in Nat /\ g > 0 /\ d \in Nat /\ d > 0
        BY <1>2, <3>1, ProgramIsProper
      <4> QED
        BY <4>1 DEF Begun
    <3> QED
      BY <3>1 DEF Imported
  <2>3. PICK d \in Collected(g) : AllDecls(g)[d].name = n
    BY <2>1, <2>2 DEF OwnNow
  <2>4. PICK s, x : s = scope[g][n] /\ x = AllDecls(g)[d]
    OBVIOUS
  <2>5. s = Symbol(x.kind, s.type, x.pub, <<g, d>>)
    BY <2>3, <2>4, FlawlessFacts DEF OwnInv
  <2>6. s.id = <<g, d>>
    BY <2>5 DEF Symbol
  <2>7. Len(s.id) = 2 /\ s.id[1] = g
    BY <2>6
  <2> QED
    BY <1>2, <2>4, <2>7 DEF Origin
<1> QED
  BY <1>1, <1>2 DEF GlobalOrigins

\* Which steps change the scopes of files once declarations are collected.
LEMMA ScopesChange ==
  ASSUME PlaceInv, [IrNext]_<<vars, irVars>>, pass \notin {"modules", "collect"}
  PROVE  \/ ImportDeclaration
         \/ CheckGlobal /\ pass' # "crashed"
         \/ scope' = scope
<1>1. CASE \/ RegisterModule \/ EnterFunction \/ LeaveFunction \/ SkipDeclaration
           \/ OpenBlock \/ CloseBlock \/ DeclareLocal \/ Evaluate \/ Return
  BY <1>1 DEF RegisterModule, EnterFunction, LeaveFunction, SkipDeclaration,
              OpenBlock, CloseBlock, DeclareLocal, Evaluate, Return, Follow, Crash
<1>2. CASE Generate \/ Register \/ EvaluateConstant \/ EmitGlobal \/ EmitBody \/ EmitNothing
  BY <1>2, WhoGenerates DEF Checked
<1>3. CASE UNCHANGED <<vars, irVars>>
  BY <1>3 DEF vars
<1>4. CASE Crash
  BY <1>4 DEF Crash
<1>5. ~CollectTypeNames /\ ~CollectDeclaration
  BY DEF CollectTypeNames, CollectDeclaration
<1> QED
  BY <1>1, <1>2, <1>3, <1>4, <1>5, CheckStepKinds DEF IrNext

\* The scopes of files, after a step of the third pass or a later one.
LEMMA GlobalOriginsStep ==
  ASSUME PlaceInv, UniverseInv, OwnInv, ScopeInv, LocalsInv, SymbolsInv, TypesInv, OriginsInv,
         [IrNext]_<<vars, irVars>>, ~Flawed, ~Flawed', prog' = prog, Kept, pass \notin {"modules", "collect"}
  PROVE  GlobalOrigins'
<1>1. GlobalOrigins /\ file \in DOMAIN prog
  BY DEF OriginsInv, PlaceInv
<1>2. SUFFICES ASSUME NEW g \in DOMAIN prog, NEW n \in DOMAIN scope'[g], NEW s, s = scope'[g][n]
               PROVE  Origin(n, s.id, s.type)'
  BY DEF GlobalOrigins
<1>3. SUFFICES Origin(n, s.id, s.type) \/ Origin(n, s.id, s.type)'
  <2>1. PICK id, t : id = s.id /\ t = s.type
    OBVIOUS
  <2> QED
    BY <1>3, <2>1, OriginStays
<1>4. scope'[g] = scope[g] => Origin(n, s.id, s.type)
  BY <1>1, <1>2 DEF GlobalOrigins
<1>5. CASE ImportDeclaration
  <2>1. CASE g = file
    BY <1>1, <1>2, <1>5, <2>1, ImportOrigins
  <2>2. CASE g # file
    BY <1>2, <1>4, <1>5, <2>2, WhoAdvances
  <2> QED
    BY <2>1, <2>2
<1>6. CASE CheckGlobal /\ pass' # "crashed"
  <2>1. Checking
    BY <1>6 DEF Checking, CheckGlobal
  <2>2. PICK x, e, declared : x = Decl.name /\ e = Decl.init /\ declared = scope[file][x].type
    OBVIOUS
  <2>3. /\ decl \in DOMAIN AllDecls(file) /\ scope'[file][x].id = <<file, decl>> /\ x \in DOMAIN scope[file]
        /\ DOMAIN scope'[file] = DOMAIN scope[file]
        /\ \A m \in DOMAIN scope[file] : m # x => scope'[file][m] = scope[file][m]
        /\ \A h \in DOMAIN prog : h # file => scope'[h] = scope[h]
    BY <1>6, <2>1, <2>2, GlobalChecked
  <2>4. CASE g # file
    BY <1>2, <1>4, <2>3, <2>4
  <2>5. CASE g = file /\ n # x
    <3>1. n \in DOMAIN scope[g] /\ s = scope[g][n]
      BY <1>2, <2>3, <2>5
    <3> QED
      BY <1>1, <1>2, <3>1 DEF GlobalOrigins
  <2>6. CASE g = file /\ n = x
    <3>1. PICK id, t : id = s.id /\ t = s.type
      OBVIOUS
    <3>2. id = <<g, decl>> /\ t = scope'[g][n].type
      BY <1>2, <2>3, <2>6, <3>1
    <3>3. Len(id) = 2 /\ id[1] = g
      BY <3>2
    <3>4. Origin(n, id, t)'
      BY <1>2, <3>2, <3>3 DEF Origin
    <3> QED
      BY <3>1, <3>4
  <2> QED
    BY <2>4, <2>5, <2>6
<1>7. CASE scope' = scope
  BY <1>4, <1>7
<1> QED
  BY <1>5, <1>6, <1>7, ScopesChange

\* The scopes of a function, after a step of the fourth pass.
LEMMA LocalOriginsStep ==
  ASSUME PlaceInv, UniverseInv, OwnInv, ScopeInv, LocalsInv, SymbolsInv, TypesInv, OriginsInv,
         [IrNext]_<<vars, irVars>>, ~Flawed, ~Flawed', prog' = prog, Kept, pass' = "bodies"
  PROVE  LocalOrigins'
<1>1. SUFFICES ASSUME NEW i \in DOMAIN locals', NEW n \in DOMAIN locals'[i] PROVE FromBody(locals'[i][n])
  <2>1. ASSUME NEW i \in DOMAIN locals', NEW n \in DOMAIN locals'[i], NEW s, s = locals'[i][n] PROVE FromBody(s)'
    <3>1. PICK id, t : id = s.id /\ t = s.type
      OBVIOUS
    <3>2. s.kind = "sit" /\ Typed(t) /\ LocalOrigin(id, t)
      BY <1>1, <2>1, <3>1 DEF FromBody
    <3>3. LocalOrigin(id, t)'
      BY <3>2, LocalOriginStays
    <3> QED
      BY <3>1, <3>2, <3>3 DEF FromBody
  <2> QED
    BY <2>1 DEF LocalOrigins
<1>2. CASE \/ RegisterModule \/ CollectTypeNames \/ CollectDeclaration \/ ImportDeclaration
           \/ CheckGlobal /\ pass' # "crashed"
           \/ EnterFunction /\ stmt' = 0
           \/ LeaveFunction \/ SkipDeclaration
  <2>1. locals' = <<>>
    BY <1>2, WhoAdvances
  <2> QED
    BY <1>1, <2>1
<1>3. CASE \/ EnterFunction /\ stmt' # 0
           \/ OpenBlock \/ CloseBlock
           \/ (DeclareLocal \/ Evaluate \/ Return) /\ pass' # "crashed"
  <2>1. Checking
    BY <1>3, WhoFollows DEF Checking
  <2> QED
    BY <1>1, <1>3, <2>1, LocalsOfParams, LocalsOfStatement
<1>4. CASE Crash /\ pass = "bodies"
  BY <1>4 DEF Crash
<1>5. CASE Generate \/ Register \/ EvaluateConstant \/ EmitGlobal \/ EmitBody \/ EmitNothing
  BY <1>5, WhoGenerates DEF Later
<1>6. CASE UNCHANGED <<vars, irVars>>
  BY <1>1, <1>6 DEF vars, OriginsInv, LocalOrigins
<1> QED
  BY <1>2, <1>3, <1>4, <1>5, <1>6, CheckStepKinds DEF IrNext

\* The names met, after a step of the third pass or a later one.
LEMMA UsesOriginsStep ==
  ASSUME PlaceInv, UniverseInv, OwnInv, ScopeInv, LocalsInv, SymbolsInv, TypesInv, OriginsInv,
         [IrNext]_<<vars, irVars>>, ~Flawed, ~Flawed', prog' = prog, Kept, pass \notin {"modules", "collect"}
  PROVE  \A u \in uses' : Traced(u.name, u.id, u.type)'
<1>1. SUFFICES ASSUME NEW u \in uses' PROVE Traced(u.name, u.id, u.type)
  <2>1. ASSUME NEW u \in uses' PROVE Traced(u.name, u.id, u.type)'
    <3>1. PICK n, id, t : n = u.name /\ id = u.id /\ t = u.type
      OBVIOUS
    <3>2. Traced(n, id, t)
      BY <1>1, <2>1, <3>1
    <3>3. Traced(n, id, t)'
      BY <3>2, TracedStays
    <3> QED
      BY <3>1, <3>3
  <2> QED
    BY <2>1
<1>2. CASE (CheckGlobal \/ DeclareLocal \/ Evaluate \/ Return) /\ pass' # "crashed"
  <2>1. Checking
    BY <1>2 DEF Checking, CheckGlobal, DeclareLocal, Evaluate, Return, InBody
  <2> QED
    BY <1>1, <1>2, <2>1, NewUsesTraced
<1>3. CASE uses' = uses
  BY <1>1, <1>3 DEF OriginsInv
<1>4. \/ (CheckGlobal \/ DeclareLocal \/ Evaluate \/ Return) /\ pass' # "crashed"
      \/ uses' = uses
  <2>1. CASE \/ RegisterModule \/ CollectTypeNames \/ CollectDeclaration \/ ImportDeclaration
             \/ EnterFunction \/ LeaveFunction \/ SkipDeclaration \/ OpenBlock \/ CloseBlock
    BY <2>1 DEF RegisterModule, CollectTypeNames, CollectDeclaration, ImportDeclaration,
                EnterFunction, LeaveFunction, SkipDeclaration, OpenBlock, CloseBlock
  <2>2. CASE Crash
    BY <2>2 DEF Crash
  <2>3. CASE Generate \/ Register \/ EvaluateConstant \/ EmitGlobal \/ EmitBody \/ EmitNothing
    BY <2>3, WhoGenerates DEF Checked
  <2>4. CASE UNCHANGED <<vars, irVars>>
    BY <2>4 DEF vars
  <2> QED
    BY <2>1, <2>2, <2>3, <2>4, CheckStepKinds DEF IrNext
<1> QED
  BY <1>2, <1>3, <1>4

\* Every step keeps what is known of where types come from.
LEMMA OriginsStep ==
  ASSUME PlaceInv, UniverseInv, OwnInv, ScopeInv, LocalsInv, SymbolsInv, TypesInv, OriginsInv, StartInv',
         [IrNext]_<<vars, irVars>>
  PROVE  OriginsInv'
<1>1. SUFFICES ASSUME ~Flawed', pass' \notin {"modules", "collect"} PROVE OriginsInv'
  BY DEF OriginsInv
<1>2. ~Flawed /\ prog' = prog /\ Kept
  BY <1>1, FlawedStays, UniverseStays, KeptStep
<1>3. CASE pass \in {"modules", "collect"}
  <2>1. RegisterModule \/ CollectTypeNames \/ CollectDeclaration
    <3>1. ~UNCHANGED <<vars, irVars>>
      BY <1>1, <1>3 DEF vars
    <3> QED
      BY <1>3, <3>1, PassKinds
  <2>2. Moves
    BY <2>1, WhoAdvances
  <2>3. pass' = NextPass(pass) /\ pass' # pass
    BY <1>1, <1>3, <2>2, MovesOn DEF Flawed
  <2>4. pass = "collect" /\ pass' = "imports"
    BY <1>1, <1>3, <2>3 DEF NextPass
  <2>5. file' = 1 /\ decl' = First("imports")
    BY <1>1, <2>2, <2>3, <2>4 DEF Moves, Flawed
  <2>6. decl' = 1
    BY <2>5 DEF First
  <2>7. GlobalOrigins' /\ uses' = {}
    BY <1>1, <2>4, <2>5, <2>6 DEF StartInv
  <2> QED
    BY <2>4, <2>7 DEF OriginsInv
<1>4. CASE pass \notin {"modules", "collect"}
  <2>1. GlobalOrigins'
    BY <1>1, <1>2, <1>4, GlobalOriginsStep
  <2>2. pass' = "bodies" => LocalOrigins'
    BY <1>1, <1>2, LocalOriginsStep
  <2>3. \A u \in uses' : Traced(u.name, u.id, u.type)'
    BY <1>1, <1>2, <1>4, UsesOriginsStep
  <2> QED
    BY <2>1, <2>2, <2>3 DEF OriginsInv
<1> QED
  BY <1>3, <1>4

-----------------------------------------------------------------------------
(* What has been checked fits. *)

\* What is checked has a name with a type, so that it goes on to fit.
LEMMA OldFits ==
  ASSUME PlaceInv, OwnInv, TypesInv, ~Flawed, prog' = prog, Kept, uses \subseteq uses',
         NEW g \in DOMAIN prog, NEW d \in DOMAIN AllDecls(g), NEW s \in Nat, Passed(g, d, s), FitsAt(g, d, s)
  PROVE  FitsAt(g, d, s)'
<1>1. PICK x : x = AllDecls(g)[d]
  OBVIOUS
<1>2. AllDecls(g)' = AllDecls(g)
  BY DEF AllDecls
<1>3. pass \in Later \cup {"bodies"}
  BY DEF Passed
<1>4. ASSUME IsGlobal(x) \/ IsActioDecl(x)
      PROVE  d \in Collected(g) /\ x.name \in DOMAIN scope[g]
  <2>1. d \in Collected(g)
    BY <1>1, <1>3, <1>4 DEF Collected, IsGlobal, IsActioDecl, Later
  <2> QED
    BY <1>1, <2>1, FlawlessFacts DEF OwnInv
<1>5. CASE IsGlobal(x) /\ s = 0
  <2>1. Begun(g, d) \/ pass \in Later
    <3>1. ~(g = file /\ d = decl /\ pass = "bodies" /\ 0 < stmt)
      BY <1>1, <1>5, DeclAtHand DEF PlaceInv, IsGlobal
    <3> QED
      BY <1>5, <3>1 DEF Passed
  <2>2. PICK t : t = scope[g][x.name].type
    OBVIOUS
  <2>3. DeclTyped(g, d)
    BY <1>4, <1>5 DEF TypesInv
  <2>4. IF x.type # NoRef THEN Fixed(g, x.type, t)
        ELSE t # NoType \/ (pass \notin Later /\ (pass = "bodies" => ~Begun(g, d)))
    BY <1>1, <1>5, <2>2, <2>3 DEF DeclTyped, IsGlobal
  <2>5. t # NoType
    BY <1>3, <2>1, <2>4, FixedIsTyped DEF Known
  <2> QED
    BY <1>1, <1>4, <1>5, <2>2, <2>5, FitsStay
<1>6. CASE IsActioDecl(x)
  <2>1. PICK t : t = scope[g][x.name].type
    OBVIOUS
  <2>2. DeclTyped(g, d)
    BY <1>4, <1>6 DEF TypesInv
  <2>3. FixedActio(g, x, t)
    BY <1>1, <1>6, <2>1, <2>2 DEF DeclTyped, IsActioDecl
  <2>4. \A a, b : <<"actio", a, b>> # <<>>
    OBVIOUS
  <2>5. t # NoType
    BY <2>3, <2>4 DEF FixedActio, NoType
  <2> QED
    BY <1>1, <1>4, <1>6, <2>1, <2>5, FitsStay
<1>7. CASE ~(IsGlobal(x) /\ s = 0) /\ ~IsActioDecl(x)
  BY <1>1, <1>2, <1>7 DEF FitsAt, IsGlobal, IsActioDecl
<1> QED
  BY <1>5, <1>6, <1>7

\* What an expression without error is, if every name in it has a type.
LEMMA NewFits ==
  ASSUME Checking, stmt = 0 \/ stmt <= Len(Decl.body), NEW e, ProperExpr(e), e.op # "none", NEW x, ~ExprBad(e, x),
         NEW U, Met(e) \subseteq U, \A u \in U : u.type # NoType, NEW at, at = <<file, decl, stmt>>,
         NEW t, t = ExprType(e, x)
  PROVE  ExprFitsIn(U, at, e, t) /\ t # NoType
<1>1. PICK M : M = Met(e)
  OBVIOUS
<1>2. ExprFitsIn(M, at, e, t)
  BY <1>1, CheckedFits
<1>3. M \subseteq U
  BY <1>1
<1> QED
  BY <1>2, <1>3, MoreFit, UntypedIsMet

LEMMA NewGlobal ==
  ASSUME Checking, CheckGlobal, pass' # "crashed", ~Flawed', prog' = prog, \A u \in uses' : u.type # NoType,
         NEW g, g = file, NEW d, d = decl
  PROVE  GlobalFits(g, d)'
<1>1. PICK n, e, declared : n = Decl.name /\ e = Decl.init /\ declared = scope[file][n].type
  OBVIOUS
<1>2. /\ stmt = 0 /\ decl \in DOMAIN AllDecls(file) /\ Decl = AllDecls(file)[decl] /\ ProperExpr(e)
      /\ scope'[file][n].type = VariableType(declared, e)
      /\ ~InitBad(declared, e) /\ uses' = uses \cup Met(e)
  BY <1>1, GlobalChecked
<1>3. AllDecls(g)' = AllDecls(g)
  BY DEF AllDecls
<1>4. PICK U, t, at : U = uses' /\ t = ExprType(e, declared) /\ at = <<g, d, 0>>
  OBVIOUS
<1>5. e.op = "none" \/ ExprFitsIn(U, at, e, scope'[g][n].type)
  <2>1. ASSUME e.op # "none" PROVE ExprFitsIn(U, at, e, scope'[g][n].type)
    <3>1. ~ExprBad(e, declared)
      BY <1>2, <2>1, GoodInitialiser
    <3>2. Met(e) \subseteq U /\ at = <<file, decl, stmt>>
      BY <1>2, <1>4
    <3>3. ExprFitsIn(U, at, e, t) /\ t # NoType
      BY <1>2, <1>4, <2>1, <3>1, <3>2, NewFits
    <3>4. VariableType(declared, e) = t
      BY <1>2, <1>4, <2>1, <3>3, GoodInitialiser
    <3> QED
      BY <1>2, <3>3, <3>4
  <2> QED
    BY <2>1
<1>6. AllDecls(g)[d].init = e /\ AllDecls(g)[d].name = n
  BY <1>1, <1>2
<1> QED
  BY <1>3, <1>4, <1>5, <1>6 DEF GlobalFits

LEMMA NewStatement ==
  ASSUME Checking, DeclareLocal \/ Evaluate \/ Return, pass' # "crashed", ~Flawed', prog' = prog, Kept,
         \A u \in uses' : u.type # NoType,
         NEW g, g = file, NEW d, d = decl, NEW s, s = stmt
  PROVE  StatementFits(g, d, s)'
<1>1. /\ uses' = uses \cup Met(Stmt.init) /\ stmt <= Len(Decl.body) /\ ProperExpr(Stmt.init)
      /\ decl \in DOMAIN AllDecls(file) /\ Decl = AllDecls(file)[decl] /\ Decl.kind = "actio"
      /\ scope' = scope
  <2>1. InBody("sit") \/ InBody("eval") \/ InBody("redde")
    BY DEF DeclareLocal, Evaluate, Return
  <2>2. scope' = scope
    BY DEF DeclareLocal, Evaluate, Return, Follow, Crash
  <2> QED
    BY <2>1, <2>2, StatementIsProper, StatementChecked DEF Checking
<1>2. AllDecls(g)' = AllDecls(g)
  BY DEF AllDecls
<1>3. PICK U, at, x, st, e : /\ U = uses' /\ at = <<g, d, s>> /\ x = AllDecls(g)[d]
                             /\ st = x.body[s] /\ e = st.init
  OBVIOUS
<1>4. st = Stmt /\ x = Decl /\ e = Stmt.init /\ ProperExpr(e) /\ Met(e) \subseteq U /\ at = <<file, decl, stmt>>
  BY <1>1, <1>3 DEF Stmt
<1>5. SUFFICES /\ st.op = "redde" => ExprFitsIn(U, at, e, scope'[g][x.name].type[2])
               /\ st.op \in {"sit", "eval"} =>
                    \/ st.op = "sit" /\ st.type # NoRef /\ e.op = "none"
                    \/ \E t : ExprFitsIn(U, at, e, t) /\ (st.op = "sit" /\ st.type # NoRef => Stands(g, st.type, t)')
  BY <1>2, <1>3 DEF StatementFits
<1>6. ASSUME NEW y, e.op # "none", ~ExprBad(e, y), NEW t, t = ExprType(e, y)
      PROVE  ExprFitsIn(U, at, e, t) /\ t # NoType
  <2>1. \A u \in U : u.type # NoType
    BY <1>3
  <2> QED
    BY <1>1, <1>4, <1>6, <2>1, NewFits
<1>7. e.op = "none" => \A t : t = <<"nihil">> => ExprFitsIn(U, at, e, t)
  BY DEF ExprFitsIn
<1>8. CASE DeclareLocal
  <2>1. PICK declared : declared = IF Stmt.type = NoRef THEN NoType ELSE ResolveType(Scopes, Stmt.type)
    OBVIOUS
  <2>2. PICK sym : sym = Symbol("sit", VariableType(declared, Stmt.init), FALSE, <<file, decl, "local", stmt>>)
    OBVIOUS
  <2>3. ~InitBad(declared, Stmt.init) /\ (Stmt.type # NoRef => Stands(file, Stmt.type, declared))
    BY <1>8, <2>1, <2>2, LocalDeclared
  <2>4. st.op = "sit"
    BY <1>4, <1>8 DEF DeclareLocal, InBody
  <2>5. ~InitBad(declared, e) /\ (st.type # NoRef => Stands(g, st.type, declared))
    BY <1>4, <2>3
  <2>6. /\ e.op # "none" => ~ExprBad(e, declared)
        /\ declared # NoType => (e.op # "none" => ExprType(e, declared) \in {declared, NoType})
        /\ declared = NoType => e.op # "none"
    BY <1>1, <1>4, <2>5, GoodInitialiser
  <2>7. PICK t : t = ExprType(e, declared)
    OBVIOUS
  <2>8. e.op # "none" => ExprFitsIn(U, at, e, t) /\ t # NoType
    BY <1>6, <2>6, <2>7
  <2>9. CASE st.type # NoRef
    <3>1. Stands(g, st.type, declared) /\ declared # NoType
      BY <2>5, <2>9, StandsKnown DEF Known
    <3>2. e.op # "none" => t = declared
      BY <2>6, <2>7, <2>8, <3>1
    <3>3. Stands(g, st.type, declared)'
      BY <3>1, StandsStays
    <3> QED
      BY <2>4, <2>8, <2>9, <3>2, <3>3
  <2>10. CASE st.type = NoRef
    <3>1. declared = NoType
      BY <1>4, <2>1, <2>10
    <3> QED
      BY <2>4, <2>6, <2>8, <2>10, <3>1
  <2> QED
    BY <2>9, <2>10
<1>9. CASE Evaluate
  <2>1. st.op = "eval" /\ ~ExprBad(e, NoType)
    <3>1. ~Crashes(Stmt.init)
      BY <1>9 DEF Evaluate, Crash
    <3>2. ~ExprBad(Stmt.init, NoType) /\ Stmt.op = "eval"
      BY <1>9, <3>1 DEF Evaluate, Follow, InBody, Flawed
    <3> QED
      BY <1>4, <3>2
  <2>2. PICK t : t = ExprType(e, NoType)
    OBVIOUS
  <2>3. e.op # "none" => ExprFitsIn(U, at, e, t)
    BY <1>6, <2>1, <2>2
  <2> QED
    BY <1>7, <2>1, <2>3
<1>10. CASE Return
  <2>1. PICK r : r = ReturnType
    OBVIOUS
  <2>2. Stmt.op = "redde"
    BY <1>10 DEF Return, InBody
  <2>3. IF Stmt.init.op = "none" THEN r = <<"nihil">> ELSE r = ExprType(Stmt.init, r) /\ ~ExprBad(Stmt.init, r)
    <3>1. ~Crashes(Stmt.init)
      BY <1>10 DEF Return, Crash
    <3> QED
      BY <1>10, <2>1, <3>1 DEF Return, Follow, Flawed
  <2>4. r = scope'[g][x.name].type[2]
    <3>1. d \in Collected(g)
      BY <1>1 DEF Checking, Collected
    <3>2. x.name \in DOMAIN scope[g]
      BY <1>1, <1>3, <3>1, FlawlessFacts DEF Checking, OwnInv, PlaceInv
    <3>3. r = scope[g][x.name].type[2]
      BY <1>4, <2>1, <3>2 DEF ReturnType, Find
    <3> QED
      BY <1>1, <3>3
  <2>5. CASE e.op = "none"
    BY <1>4, <1>7, <2>2, <2>3, <2>4, <2>5
  <2>6. CASE e.op # "none"
    <3>1. r = ExprType(e, r) /\ ~ExprBad(e, r)
      BY <1>4, <2>3, <2>6
    <3>2. ExprFitsIn(U, at, e, r)
      BY <1>6, <2>6, <3>1
    <3> QED
      BY <1>4, <2>2, <2>4, <3>2
  <2> QED
    BY <2>5, <2>6
<1> QED
  BY <1>8, <1>9, <1>10

\* A step of the fourth pass to the next declaration: the one it leaves fits.
LEMMA DeclarationLeft ==
  ASSUME PlaceInv, UniverseInv, OwnInv, ScopeInv, LocalsInv, SymbolsInv, TypesInv, OriginsInv,
         \/ CheckGlobal /\ pass' # "crashed"
         \/ EnterFunction /\ stmt' = 0
         \/ LeaveFunction \/ SkipDeclaration,
         ~Flawed, ~Flawed', prog' = prog, \A u \in uses' : u.type # NoType,
         NEW g \in DOMAIN prog, NEW d \in DOMAIN AllDecls(g), NEW s \in Nat,
         ~Passed(g, d, s), Passed(g, d, s)'
  PROVE  FitsAt(g, d, s)'
<1>1. pass = "bodies" /\ Moves
  BY WhoAdvances DEF CheckGlobal, EnterFunction, LeaveFunction, SkipDeclaration
<1>2. AllDecls(g)' = AllDecls(g)
  BY DEF AllDecls
<1>3. Begun(g, d) \/ (g = file /\ d = decl)
  <2>1. stmt' = 0 /\ pass' # "rejected"
    BY <1>1 DEF Moves, Flawed
  <2>2. CASE pass' = pass
    <3>1. Begun(g, d)'
      BY <1>1, <2>1, <2>2 DEF Passed, Later
    <3> QED
      BY <1>1, <2>1, <2>2, <3>1, AdvanceBegins DEF NextPass
  <2>3. CASE pass' # pass
    BY <1>1, <2>1, <2>3, AdvanceBegins
  <2> QED
    BY <2>2, <2>3
<1>4. g = file /\ d = decl /\ ~(s < stmt)
  BY <1>1, <1>3 DEF Passed
<1>5. Decl = AllDecls(g)[d] /\ ProperDeclaration(Decl) /\ stmt \in Nat
  BY <1>4, DeclAtHand DEF PlaceInv
<1>6. CASE CheckGlobal /\ pass' # "crashed"
  <2>1. Checking
    BY <1>1 DEF Checking
  <2>2. GlobalFits(g, d)'
    BY <1>4, <1>6, <2>1, NewGlobal
  <2>3. ~IsActioDecl(AllDecls(g)[d])
    BY <1>5, <1>6 DEF CheckGlobal, IsActioDecl
  <2> QED
    BY <1>2, <2>2, <2>3 DEF FitsAt, IsActioDecl
<1>7. CASE EnterFunction /\ stmt' = 0
  <2>1. Decl.kind = "actio" /\ Decl.barbara
    BY <1>5, <1>7 DEF EnterFunction
  <2>2. Decl.body = <<>>
    BY <1>5, <2>1 DEF ProperDeclaration
  <2>3. s \notin DOMAIN Decl.body /\ ~IsGlobal(Decl)
    BY <2>1, <2>2 DEF IsGlobal
  <2> QED
    BY <1>2, <1>5, <2>3 DEF FitsAt, IsGlobal
<1>8. CASE LeaveFunction
  <2>1. Decl.kind = "actio" /\ stmt = Len(Decl.body) + 1
    BY <1>8 DEF LeaveFunction
  <2>2. Len(Decl.body) \in Nat /\ DOMAIN Decl.body = 1 .. Len(Decl.body)
    BY <1>5, <2>1, SeqDomain DEF ProperDeclaration
  <2>3. s \notin DOMAIN Decl.body /\ ~IsGlobal(Decl)
    BY <1>4, <1>5, <2>1, <2>2 DEF IsGlobal
  <2> QED
    BY <1>2, <1>5, <2>3 DEF FitsAt, IsGlobal
<1>9. CASE SkipDeclaration
  <2>1. ~IsGlobal(Decl) /\ ~IsActioDecl(Decl)
    BY <1>9 DEF SkipDeclaration, IsGlobal, IsActioDecl
  <2> QED
    BY <1>2, <1>5, <2>1 DEF FitsAt, IsGlobal, IsActioDecl
<1> QED
  BY <1>6, <1>7, <1>8, <1>9

\* A step inside a function: the statement it leaves fits.
LEMMA StatementLeft ==
  ASSUME PlaceInv, UniverseInv, OwnInv, ScopeInv, LocalsInv, SymbolsInv, TypesInv, OriginsInv,
         \/ EnterFunction /\ stmt' # 0
         \/ OpenBlock \/ CloseBlock
         \/ (DeclareLocal \/ Evaluate \/ Return) /\ pass' # "crashed",
         ~Flawed, ~Flawed', prog' = prog, Kept, \A u \in uses' : u.type # NoType,
         NEW g \in DOMAIN prog, NEW d \in DOMAIN AllDecls(g), NEW s \in Nat,
         ~Passed(g, d, s), Passed(g, d, s)'
  PROVE  FitsAt(g, d, s)'
<1>1. /\ pass = "bodies" /\ UNCHANGED <<prog, pass, file, decl, universe, scope>>
      /\ Decl.kind = "actio" /\ ProperDeclaration(Decl)
      /\ stmt \in Nat /\ stmt' = stmt + 1
  BY WhoFollows
<1>2. AllDecls(g)' = AllDecls(g)
  BY DEF AllDecls
<1>3. Begun(g, d)' <=> Begun(g, d)
  BY <1>1 DEF Begun
<1>4. g = file /\ d = decl /\ s = stmt
  BY <1>1, <1>3 DEF Passed
<1>5. Decl = AllDecls(g)[d] /\ ~IsGlobal(Decl)
  BY <1>1, <1>4, DeclAtHand DEF IsGlobal
<1>6. SUFFICES ASSUME s \in DOMAIN Decl.body PROVE StatementFits(g, d, s)'
  BY <1>2, <1>5 DEF FitsAt, IsGlobal, IsActioDecl
<1>7. CASE EnterFunction
  <2>1. stmt = 0
    BY <1>7 DEF EnterFunction
  <2>2. Len(Decl.body) \in Nat /\ DOMAIN Decl.body = 1 .. Len(Decl.body)
    BY <1>1, SeqDomain DEF ProperDeclaration
  <2> QED
    BY <1>4, <1>6, <2>1, <2>2
<1>8. CASE OpenBlock \/ CloseBlock
  <2>1. Decl.body[s].op \in {"open", "close"}
    BY <1>4, <1>8 DEF OpenBlock, CloseBlock, InBody, Stmt
  <2> QED
    BY <1>2, <1>5, <2>1 DEF StatementFits
<1>9. CASE (DeclareLocal \/ Evaluate \/ Return) /\ pass' # "crashed"
  <2>1. Checking
    BY <1>1 DEF Checking
  <2> QED
    BY <1>4, <1>9, <2>1, NewStatement
<1> QED
  BY <1>7, <1>8, <1>9

\* Every step keeps that what is checked fits.
LEMMA CheckedStep ==
  ASSUME PlaceInv, UniverseInv, OwnInv, ScopeInv, LocalsInv, SymbolsInv, TypesInv, OriginsInv, CheckedInv,
         [IrNext]_<<vars, irVars>>
  PROVE  CheckedInv'
<1>1. prog' = prog /\ uses \subseteq uses'
  BY UniverseStays, UsesGrow
<1>2. SUFFICES ASSUME ~Flawed', \A u \in uses' : u.type # NoType,
                      NEW g \in DOMAIN prog, NEW d \in DOMAIN AllDecls(g), NEW s \in Nat, Passed(g, d, s)'
               PROVE  FitsAt(g, d, s)'
  BY <1>1 DEF CheckedInv, AllDecls
<1>3. ~Flawed /\ Kept
  BY <1>2, FlawedStays, KeptStep
<1>4. CASE Passed(g, d, s)
  <2>1. FitsAt(g, d, s)
    BY <1>1, <1>2, <1>3, <1>4 DEF CheckedInv
  <2> QED
    BY <1>1, <1>2, <1>3, <1>4, <2>1, OldFits
<1>5. CASE ~Passed(g, d, s)
  <2>1. CASE RegisterModule \/ CollectTypeNames \/ CollectDeclaration \/ ImportDeclaration
    <3>1. Moves /\ pass \in {"modules", "collect", "imports"} /\ pass' # "rejected"
      BY <1>2, <2>1, WhoAdvances
         DEF RegisterModule, CollectTypeNames, CollectDeclaration, ImportDeclaration, Flawed
    <3>2. pass' \in {pass, NextPass(pass)}
      BY <3>1, MovesOn
    <3>3. pass' = "bodies" /\ pass = "imports"
      BY <1>2, <3>1, <3>2 DEF Passed, Later, NextPass
    <3>4. file' = 1 /\ decl' = First("bodies") /\ stmt' = 0
      BY <3>1, <3>3 DEF Moves, NextPass
    <3>5. g \in Nat \ {0} /\ d \in Nat \ {0}
      BY <1>2, ProgramIsProper
    <3> QED
      BY <1>2, <3>3, <3>4, <3>5 DEF Passed, Begun, Later, First
  <2>2. CASE \/ CheckGlobal /\ pass' # "crashed"
             \/ EnterFunction /\ stmt' = 0
             \/ LeaveFunction \/ SkipDeclaration
    BY <1>1, <1>2, <1>3, <1>5, <2>2, DeclarationLeft
  <2>3. CASE \/ EnterFunction /\ stmt' # 0
             \/ OpenBlock \/ CloseBlock
             \/ (DeclareLocal \/ Evaluate \/ Return) /\ pass' # "crashed"
    BY <1>1, <1>2, <1>3, <1>5, <2>3, StatementLeft
  <2>4. CASE Crash
    BY <1>2, <2>4 DEF Crash, Passed, Later
  <2>5. CASE Generate \/ Register \/ EvaluateConstant \/ EmitGlobal \/ EmitBody \/ EmitNothing
    BY <1>5, <2>5, WhoGenerates DEF Passed
  <2>6. CASE UNCHANGED <<vars, irVars>>
    BY <1>2, <1>5, <2>6 DEF vars, Passed, Begun
  <2> QED
    BY <2>1, <2>2, <2>3, <2>4, <2>5, <2>6, CheckStepKinds DEF IrNext
<1> QED
  BY <1>4, <1>5

-----------------------------------------------------------------------------
(* Accepted programs are well typed. *)

LEMMA StandsIsWritten ==
  ASSUME NEW f, NEW r, NEW t, Stands(f, r, t)
  PROVE  t = Written(f, r)
<1>1. CASE r.base \in Basic
  BY <1>1 DEF Stands, Written, TypeNamed
<1>2. CASE r.base \notin Basic
  <2>1. PICK S : S = Denotes(<<f, 0, 0>>, r.mod, r.base)
    OBVIOUS
  <2>2. PICK id : S = {id} /\ t = scope[id[1]][r.base].type
    BY <1>2, <2>1 DEF Stands
  <2>3. PICK y : y = CHOOSE z \in S : TRUE
    OBVIOUS
  <2>4. y = id /\ S # {}
    BY <2>2, <2>3
  <2>5. TypeNamed(r, S) = scope[y[1]][r.base].type
    BY <1>2, <2>3, <2>4 DEF TypeNamed
  <2> QED
    BY <2>1, <2>2, <2>4, <2>5 DEF Written
<1> QED
  BY <1>1, <1>2

\* The type a name had when it was met is its final one, if it had one.
LEMMA TypeIsFinal ==
  ASSUME NEW u, u.type # NoType, Traced(u.name, u.id, u.type)
  PROVE  FinalType(u) = u.type
<1>1. PICK id, t : id = u.id /\ t = u.type
  OBVIOUS
<1>2. Origin(u.name, id, t) \/ LocalOrigin(id, t)
  BY <1>1 DEF Traced
<1>3. CASE Len(id) = 1
  <2>1. t = Module
    BY <1>2, <1>3 DEF Origin, LocalOrigin
  <2> QED
    BY <1>1, <1>3, <2>1 DEF FinalType
<1>4. CASE Len(id) = 2
  <2>1. t = scope[id[1]][u.name].type
    BY <1>1, <1>2, <1>4 DEF Origin, LocalOrigin
  <2> QED
    BY <1>1, <1>4, <2>1 DEF FinalType
<1>5. CASE Len(id) = 4 /\ LocalOrigin(id, t)
  <2>1. PICK r : r = WrittenAt(id)
    OBVIOUS
  <2>2. r # NoRef => t = Written(id[1], r)
    BY <1>5, <2>1, StandsIsWritten DEF LocalOrigin
  <2>3. r = IF id[3] = "param" THEN DeclOf(id).params[id[4]].type ELSE DeclOf(id).body[id[4]].type
    BY <2>1 DEF WrittenAt
  <2>4. FinalType(u) = IF r = NoRef THEN u.type ELSE Written(id[1], r)
    BY <1>1, <1>5, <2>3 DEF FinalType
  <2> QED
    BY <1>1, <2>2, <2>4
<1> QED
  BY <1>2, <1>3, <1>4, <1>5 DEF Origin, LocalOrigin

LEMMA FitsFinally ==
  ASSUME \A u \in uses : FinalType(u) = u.type, NEW at, NEW e, ProperExpr(e), NEW t, ExprFitsIn(uses, at, e, t)
  PROVE  ExprFits(at, e, t) /\ t \in AllTypes
<1>1. ASSUME NEW a, NEW x, FitsIn(uses, at, a, x) PROVE Fits(at, a, x) /\ x \in AllTypes
  <2>1. CASE a.op = "int"
    BY <1>1, <2>1 DEF FitsIn, Fits, AllTypes
  <2>2. CASE a.op = "float"
    BY <1>1, <2>2 DEF FitsIn, Fits, AllTypes, Numeric
  <2>3. CASE a.op = "ref"
    <3>1. PICK u \in uses : <<u.at, u.mod, u.name>> = <<at, a.mod, a.name>> /\ u.type = x
      BY <1>1, <2>3 DEF FitsIn
    <3>2. FinalType(u) = x
      BY <3>1
    <3>3. Fits(at, a, x)
      BY <2>3, <3>1, <3>2 DEF Fits
    <3> QED
      BY <3>2, <3>3 DEF AllTypes
  <2> QED
    BY <1>1, <2>1, <2>2, <2>3 DEF FitsIn, ProperOperand
<1>2. CASE e.op = "sum"
  BY <1>1, <1>2 DEF ExprFitsIn, ExprFits
<1>3. CASE e.op = "call"
  <2>1. PICK u \in uses : /\ <<u.at, u.mod, u.name>> = <<at, e.mod, e.name>>
                          /\ IsActio(u.type) /\ u.type[2] = t /\ Len(u.type[3]) = Len(e.args)
                          /\ \A i \in DOMAIN e.args : FitsIn(uses, at, e.args[i], u.type[3][i])
    BY <1>3 DEF ExprFitsIn
  <2>2. PICK fn : fn = FinalType(u)
    OBVIOUS
  <2>3. fn = u.type
    BY <2>2
  <2>4. /\ IsActio(fn) /\ fn[2] = t /\ Len(fn[3]) = Len(e.args)
        /\ \A i \in DOMAIN e.args : Fits(at, e.args[i], fn[3][i])
    BY <1>1, <2>1, <2>3
  <2>5. ExprFits(at, e, t)
    BY <1>3, <2>1, <2>2, <2>4 DEF ExprFits
  <2>6. t \in {FinalType(v)[2] : v \in {v \in uses : IsActio(FinalType(v))}}
    BY <2>2, <2>4
  <2> QED
    BY <2>5, <2>6 DEF AllTypes
<1>4. CASE e.op = "none"
  BY <1>4 DEF ExprFitsIn, ExprFits, AllTypes
<1>5. CASE e.op \notin {"sum", "call", "none"}
  BY <1>1, <1>5 DEF ExprFitsIn, ExprFits
<1> QED
  BY <1>2, <1>3, <1>4, <1>5

LEMMA AcceptedFollows ==
  ASSUME PlaceInv, UniverseInv, OwnInv, CalledInv, TypesInv, OriginsInv, CheckedInv
  PROVE  AcceptedAreTyped
<1> SUFFICES ASSUME pass = "accepted", InOrder, NEW f \in DOMAIN prog, NEW d \in DOMAIN prog[f].decls,
                    NEW x, x = prog[f].decls[d]
             PROVE  /\ x.kind \in {"sit", "lex"} => GlobalTyped(f, d)
                    /\ x.kind = "actio" => \A s \in DOMAIN x.body : StatementTyped(f, d, s)
  BY DEF AcceptedAreTyped
<1>1. ~Flawed
  BY DEF CalledInv, Later, Flawed
<1>2. x = AllDecls(f)[d] /\ d \in DOMAIN AllDecls(f)
  BY DEF AllDecls
<1>3. ProperDeclaration(x)
  BY <1>2, ProgramIsProper
<1>4. \A u \in uses : u.type # NoType
  BY DEF InOrder
<1>5. \A u \in uses : FinalType(u) = u.type
  <2>1. \A u \in uses : Traced(u.name, u.id, u.type)
    BY <1>1 DEF OriginsInv
  <2> QED
    BY <1>4, <2>1, TypeIsFinal
<1>6. \A s \in Nat : FitsAt(f, d, s)
  BY <1>1, <1>2, <1>4 DEF CheckedInv, Passed, Later
<1>7. ASSUME x.kind \in {"sit", "lex"} PROVE GlobalTyped(f, d)
  <2>1. PICK e, t : e = x.init /\ t = scope[f][x.name].type
    OBVIOUS
  <2>2. e.op = "none" \/ ExprFitsIn(uses, <<f, d, 0>>, e, t)
    BY <1>2, <1>6, <1>7, <2>1 DEF FitsAt, IsGlobal, GlobalFits
  <2>3. ProperExpr(e)
    BY <1>3, <1>7, <2>1 DEF ProperDeclaration
  <2>4. e.op = "none" \/ ExprFits(<<f, d, 0>>, e, t)
    BY <1>5, <2>2, <2>3, FitsFinally
  <2> QED
    BY <2>1, <2>4 DEF GlobalTyped
<1>8. ASSUME x.kind = "actio", NEW s \in DOMAIN x.body PROVE StatementTyped(f, d, s)
  <2>1. PICK st, e, at : st = x.body[s] /\ e = st.init /\ at = <<f, d, s>>
    OBVIOUS
  <2>2. s \in Nat /\ ProperExpr(e)
    BY <1>3, <1>8, <2>1, SeqDomain DEF ProperDeclaration
  <2>3. StatementFits(f, d, s)
    BY <1>2, <1>6, <1>8, <2>2 DEF FitsAt, IsActioDecl
  <2>4. /\ st.op = "redde" => ExprFitsIn(uses, at, e, scope[f][x.name].type[2])
        /\ st.op \in {"sit", "eval"} =>
             \/ st.op = "sit" /\ st.type # NoRef /\ e.op = "none"
             \/ \E t : ExprFitsIn(uses, at, e, t) /\ (st.op = "sit" /\ st.type # NoRef => Stands(f, st.type, t))
    BY <1>2, <2>1, <2>3 DEF StatementFits
  <2>5. scope[f][x.name].type[2] = Declared(f, x.type)
    <3>1. PICK t, r : t = scope[f][x.name].type /\ r = x.type
      OBVIOUS
    <3>2. d \in Collected(f)
      BY <1>2, <1>8 DEF Collected
    <3>3. DeclTyped(f, d)
      BY <1>1, <3>2 DEF TypesInv
    <3>4. FixedActio(f, x, t)
      BY <1>2, <1>8, <3>1, <3>3 DEF DeclTyped
    <3>5. PICK y : y = t[2]
      OBVIOUS
    <3>6. Fixed(f, r, y)
      BY <3>1, <3>4, <3>5 DEF FixedActio
    <3>7. y = Declared(f, r)
      BY <1>1, <3>6, FixedIsDeclared
    <3> QED
      BY <3>1, <3>5, <3>7
  <2>6. \A t : ExprFitsIn(uses, at, e, t) => ExprFits(at, e, t) /\ t \in AllTypes
    BY <1>5, <2>2, FitsFinally
  <2>7. CASE st.op = "redde"
    <3>1. ExprFits(at, e, Declared(f, x.type))
      BY <2>4, <2>5, <2>6, <2>7
    <3> QED
      BY <2>1, <2>7, <3>1 DEF StatementTyped
  <2>8. CASE st.op = "sit" /\ st.type # NoRef
    <3>1. e.op = "none" \/ ExprFits(at, e, Written(f, st.type))
      <4>1. ASSUME e.op # "none" PROVE ExprFits(at, e, Written(f, st.type))
        <5>1. PICK t : ExprFitsIn(uses, at, e, t) /\ Stands(f, st.type, t)
          BY <2>4, <2>8, <4>1
        <5>2. t = Written(f, st.type)
          BY <5>1, StandsIsWritten
        <5>3. ExprFits(at, e, t)
          BY <2>6, <5>1
        <5> QED
          BY <5>2, <5>3
      <4> QED
        BY <4>1
    <3> QED
      BY <2>1, <2>8, <3>1 DEF StatementTyped
  <2>9. CASE st.op = "eval" \/ (st.op = "sit" /\ st.type = NoRef)
    <3>1. \E t \in AllTypes : ExprFits(at, e, t)
      BY <2>4, <2>6, <2>9
    <3> QED
      BY <2>1, <2>9, <3>1 DEF StatementTyped
  <2>10. CASE st.op \notin {"redde", "sit", "eval"}
    BY <2>1, <2>10 DEF StatementTyped
  <2> QED
    BY <2>7, <2>8, <2>9, <2>10
<1> QED
  BY <1>7, <1>8

\* Whatever the program, as long as it has no error: from the third pass on
\* every symbol, and every name that was met, has the type of the declaration
\* it belongs to, or none if that has none yet; a parameter or local has the
\* final type of what is written for it.
THEOREM OriginsInductive ==
  IrSpec => []OriginsInv
<1>1. IrInit => OriginsInv
  BY DEF IrInit, Init, OriginsInv
<1>2. NamesInv /\ UsesInv => StartInv
  BY StartFollows DEF NamesInv, UsesInv
<1>3. NamesInv /\ UsesInv /\ TypesInv /\ OriginsInv /\ StartInv' /\ [IrNext]_<<vars, irVars>> => OriginsInv'
  BY OriginsStep DEF NamesInv, UsesInv
<1> QED
  BY <1>1, <1>2, <1>3, NamesInductive, UsesInductive, TypesInductive, PTL DEF IrSpec

\* Whatever the program, as long as it has no error and every name had a type
\* when it was met: every initialiser, statement, argument and operand behind
\* which the fourth pass is has the type its place asks for.
THEOREM CheckedInductive ==
  IrSpec => []CheckedInv
<1>1. IrInit => CheckedInv
  BY DEF IrInit, Init, CheckedInv, Passed, Later
<1>2. NamesInv /\ UsesInv /\ TypesInv /\ OriginsInv /\ CheckedInv /\ [IrNext]_<<vars, irVars>> => CheckedInv'
  BY CheckedStep DEF NamesInv, UsesInv
<1> QED
  BY <1>1, <1>2, NamesInductive, UsesInductive, TypesInductive, OriginsInductive, PTL DEF IrSpec

\* A program accepted with every name checked after its type was known is well
\* typed by the final types of all its declarations: no initialiser, argument,
\* operand or result has another type than its place declares, across files and
\* through aliases (type_checker.c:1188).
THEOREM AcceptedAreAlwaysTyped ==
  IrSpec => []AcceptedAreTyped
<1>1. NamesInv /\ UsesInv /\ TypesInv /\ OriginsInv /\ CheckedInv => AcceptedAreTyped
  BY AcceptedFollows DEF NamesInv, UsesInv
<1> QED
  BY <1>1, NamesInductive, UsesInductive, TypesInductive, OriginsInductive, CheckedInductive, PTL

=============================================================================
