----------------------------- MODULE TypeChecker -----------------------------
(***************************************************************************)
(* The four passes of type_checker_run over several files                  *)
(* (src/src/middleend/type_checker.c) and its symbol table (symtab.c):     *)
(* which declaration a name reaches, when its type is known, and which     *)
(* programs are accepted.                                                  *)
(*                                                                         *)
(* A program is a sequence of files in the order of the command line, a    *)
(* file a module name and a sequence of declarations.  A type is written   *)
(* [mod, base]; an operand is a literal or a name, qualified if mod # "";  *)
(* an expression is an operand, a sum of two or a call on some.  A body is *)
(* a sequence of statements in which "open" and "close" bracket blocks.    *)
(* Array, pointer and function-literal types, struct fields as             *)
(* expressions, conditions and loops are left out.                         *)
(***************************************************************************)
EXTENDS Integers, Sequences, FiniteSets

CONSTANT Programs   \* the programs explored

VARIABLES
  prog,       \* the files
  pass,       \* the pass that runs, or how the check ended
  file, decl, stmt,   \* where it is
  universe,   \* the scope of all module names
  scope,      \* the scope of each file
  locals,     \* the scopes open inside the current function
  hadError,
  uses        \* every name met in an expression and the symbol found for it

vars == <<prog, pass, file, decl, stmt, universe, scope, locals, hadError, uses>>

NoRef   == [mod |-> "", base |-> ""]
NoExpr  == [op |-> "none"]
NoDecl  == <<>>

NoType  == <<>>              \* the null pointer
Unknown == <<"unknown">>
Module  == <<"module">>
Basic   == {"i32", "f64", "nihil"}
Numeric == {<<"i32">>, <<"f64">>}

Decls      == prog[file].decls
Decl       == IF decl \in DOMAIN Decls THEN Decls[decl] ELSE [kind |-> "none"]   \* an empty file
DeclOf(id) == prog[id[1]].decls[id[2]]
Stmt       == Decl.body[stmt]

-----------------------------------------------------------------------------
(* Symbols and scopes.  A symbol names its declaration: a file, a          *)
(* declaration of a file, or a parameter or local of a function.           *)

Symbol(kind, type, pub, id) ==
  [kind |-> kind, type |-> type, pub |-> pub, id |-> id, alias |-> FALSE]

NoSymbol == Symbol("none", Unknown, FALSE, NoDecl)

(* A name already defined in the scope keeps its symbol.                   *)
Completed(sc, more) ==
  [n \in DOMAIN sc \cup DOMAIN more |-> IF n \in DOMAIN sc THEN sc[n] ELSE more[n]]

(* symtab_define.                                                          *)
Define(sc, n, sym) == Completed(sc, [m \in {n} |-> sym])

(* A fault: an import is visible to importers of the importer.             *)
AliasReexported(sym) == [sym EXCEPT !.alias = TRUE]

(* symtab_insert_alias: a private copy of the exporter's symbol.           *)
Alias(sym) == [sym EXCEPT !.pub = FALSE, !.alias = TRUE]

Find(sc, n) == IF n \in DOMAIN sc THEN sc[n] ELSE NoSymbol

(* symtab_lookup: from the innermost scope outwards.                       *)
Lookup(scopes, n) ==
  LET with == {i \in DOMAIN scopes : n \in DOMAIN scopes[i]}
  IN  IF with = {} THEN NoSymbol
      ELSE scopes[CHOOSE i \in with : \A j \in with : j <= i][n]

Scopes == <<universe, scope[file]>> \o locals

(* A name qualified by module m: only what the module declares public.     *)
Member(m, n) ==
  LET sym == IF m.kind = "module" THEN Find(scope[m.id[1]], n) ELSE NoSymbol
  IN  IF sym.pub THEN sym ELSE NoSymbol

Resolve(scopes, mod, n) ==
  IF mod = "" THEN Lookup(scopes, n) ELSE Member(Lookup(scopes, mod), n)

-----------------------------------------------------------------------------
(* Types.                                                                  *)

TypeSymbol(scopes, r) == Resolve(scopes, r.mod, r.base)

IsPending(sym) == sym.kind = "imago" /\ sym.type = NoType

Behind(scopes, alias) == TypeSymbol(scopes, DeclOf(alias.id).type)

(* The aliases resolved when one not yet resolved is used: itself and, as  *)
(* long as the target is another such alias, that one.  All belong to the  *)
(* file that is being collected.                                           *)
Chain(scopes, alias) ==
  LET pending == {scope[file][n] : n \in {n \in DOMAIN scope[file] : IsPending(scope[file][n])}}
      closed(S) == \A a \in S : IsPending(Behind(scopes, a)) => Behind(scopes, a) \in S
  IN  {a \in pending : \A S \in SUBSET pending : alias \in S /\ closed(S) => a \in S}

(* A symbol as a type: Unknown, with an error, if it is none.              *)
TypeOfSymbol(sym) == IF sym.kind \in {"forma", "imago"} THEN sym.type ELSE Unknown

(* A fault: an alias of an alias is resolved one step only.                *)
ResolvedAliasOnce(scopes, alias) ==
  LET r == DeclOf(alias.id).type
  IN  IF r.base \in Basic THEN <<r.base>>
      ELSE IF TypeSymbol(scopes, r).kind = "forma" THEN TypeSymbol(scopes, r).type ELSE <<"i32">>

(* The type at the end of the chain, or Unknown, with an error, if it runs *)
(* in a circle (is_resolving).                                             *)
ResolvedAlias(scopes, alias) ==
  LET ends == {a \in Chain(scopes, alias) : ~IsPending(Behind(scopes, a))}
      r    == DeclOf((CHOOSE a \in ends : TRUE).id).type
  IN  IF ends = {} THEN Unknown
      ELSE IF r.base \in Basic THEN <<r.base>> ELSE TypeOfSymbol(TypeSymbol(scopes, r))

(* resolve_type_node.                                                      *)
ResolveType(scopes, r) ==
  LET sym == TypeSymbol(scopes, r)
  IN  IF r.base \in Basic THEN <<r.base>>
      ELSE IF IsPending(sym) THEN ResolvedAlias(scopes, sym)
      ELSE TypeOfSymbol(sym)

Bad(scopes, r) == ResolveType(scopes, r) = Unknown

(* The file's scope after the references rs have been resolved: every      *)
(* alias met on the way keeps its type.                                    *)
Forced(rs) ==
  LET used == {sym \in {TypeSymbol(Scopes, r) : r \in rs} : IsPending(sym)}
      met  == UNION {Chain(Scopes, a) : a \in used}
  IN  [n \in DOMAIN scope[file] |->
         IF scope[file][n] \in met
         THEN [scope[file][n] EXCEPT !.type = ResolvedAlias(Scopes, scope[file][n])]
         ELSE scope[file][n]]

-----------------------------------------------------------------------------
(* Control: the declarations of a file, the files, the passes.  A pass     *)
(* that ends with errors is the last one.                                  *)

First(p) == IF p = "collect" THEN 0 ELSE 1   \* 0: the names of the file's types

NextPass(p) ==
  CASE p = "modules" -> "collect" [] p = "collect" -> "imports"
    [] p = "imports" -> "bodies"  [] p = "bodies"  -> "accepted"

Advance(error) ==
  /\ hadError' = (hadError \/ error)
  /\ stmt' = 0
  /\ IF pass # "modules" /\ decl < Len(Decls)
     THEN decl' = decl + 1 /\ UNCHANGED <<pass, file>>
     ELSE IF file < Len(prog)
     THEN file' = file + 1 /\ decl' = First(pass) /\ UNCHANGED pass
     ELSE IF hadError'
     THEN pass' = "rejected" /\ UNCHANGED <<file, decl>>
     ELSE pass' = NextPass(pass) /\ file' = 1 /\ decl' = First(NextPass(pass))

Init ==
  /\ prog \in Programs
  /\ pass = "modules" /\ file = 1 /\ decl = 1 /\ stmt = 0
  /\ universe = <<>> /\ scope = [f \in DOMAIN prog |-> <<>>] /\ locals = <<>>
  /\ hadError = FALSE /\ uses = {}

(* First pass: the file becomes a module.                                  *)
RegisterModule ==
  /\ pass = "modules"
  /\ universe' = Define(universe, prog[file].name, Symbol("module", Module, TRUE, <<file>>))
  /\ Advance(prog[file].name \in DOMAIN universe)
  /\ UNCHANGED <<prog, scope, locals, uses>>

(* Second pass, collect_declarations: first the names of the file's types, *)
(* so that its declarations may refer to them in any order ...             *)
CollectTypeNames ==
  /\ pass = "collect" /\ decl = 0
  /\ LET types == {d \in DOMAIN Decls : Decls[d].kind \in {"forma", "imago"}}
         named(n) == {d \in types : Decls[d].name = n}
         first(n) == CHOOSE d \in named(n) : \A e \in named(n) : d <= e
         names == {Decls[d].name : d \in types}
     IN  /\ scope' = [scope EXCEPT ![file] =
                        [n \in names |->
                           LET d == Decls[first(n)]
                           IN  Symbol(d.kind, IF d.kind = "forma" THEN <<"forma", n>> ELSE NoType,
                                      d.pub, <<file, first(n)>>)]]
         /\ Advance(Cardinality(names) # Cardinality(types))
  /\ UNCHANGED <<prog, universe, locals, uses>>

Params(d) == [i \in DOMAIN d.params |-> d.params[i].type]

(* What a declaration refers to.                                           *)
RefsOf(d) ==
  CASE d.kind = "actio" -> {d.type} \cup {Params(d)[i] : i \in DOMAIN d.params}
    [] d.kind \in {"sit", "lex", "imago"} -> {d.type} \ {NoRef}
    [] d.kind = "forma" -> {d.fields[i] : i \in DOMAIN d.fields}
    [] OTHER -> {}

(* ... then, in order, the targets of aliases, the fields of structures,   *)
(* the signatures of functions and the declared types of globals.  A       *)
(* global without one has none before the fourth pass reaches it.          *)
CollectDeclaration ==
  /\ pass = "collect" /\ decl > 0
  /\ LET d    == Decl
         bad  == \E r \in RefsOf(d) : Bad(Scopes, r)
         type == IF d.kind = "actio"
                 THEN <<"actio", ResolveType(Scopes, d.type),
                        [i \in DOMAIN d.params |-> ResolveType(Scopes, Params(d)[i])]>>
                 ELSE IF d.type = NoRef THEN NoType ELSE ResolveType(Scopes, d.type)
     IN  IF d.kind \in {"actio", "sit", "lex"}
         THEN /\ scope' = [scope EXCEPT ![file] =
                             Define(Forced(RefsOf(d)), d.name,
                                    Symbol(d.kind, type, d.pub, <<file, decl>>))]
              /\ Advance(bad \/ d.name \in DOMAIN scope[file])
         ELSE /\ scope' = [scope EXCEPT ![file] =
                             Forced(RefsOf(d) \cup (IF d.kind = "imago"
                                                    THEN {[mod |-> "", base |-> d.name]} ELSE {}))]
              /\ Advance(bad)
  /\ UNCHANGED <<prog, universe, locals, uses>>

(* Third pass: consule brings in a module's name, excerpe copies symbols.  *)
(* A name the file already has keeps its meaning, without an error.        *)
ImportDeclaration ==
  /\ pass = "imports"
  /\ IF Decl.kind # "importa" THEN scope' = scope /\ Advance(FALSE)
     ELSE LET m == Find(universe, Decl.from)
              items == {Decl.items[i] : i \in DOMAIN Decl.items}
              found == {n \in items : Member(m, n) # NoSymbol}
          IN  /\ scope' = [scope EXCEPT ![file] =
                             IF m = NoSymbol THEN @
                             ELSE IF items = {} THEN Define(@, Decl.from, [m EXCEPT !.pub = FALSE])
                             ELSE Completed(@, [n \in found |-> Alias(Member(m, n))])]
              /\ Advance(m = NoSymbol \/ found # items)
  /\ UNCHANGED <<prog, universe, locals, uses>>

-----------------------------------------------------------------------------
(* Fourth pass: expressions.  Every operator takes the position at which a *)
(* name is resolved from the state: the scopes open there.                 *)

Sym(e) == Resolve(Scopes, e.mod, e.name)

(* check_expression of an operand, with the type its context expects       *)
(* (NoType: none).  A literal takes the expected type if it is a number.   *)
OperandType(a, expected) ==
  IF a.op = "ref" THEN Sym(a).type
  ELSE IF expected \in Numeric THEN expected
  ELSE IF a.op = "int" THEN <<"i32">> ELSE <<"f64">>

OperandBad(a, expected) ==
  \/ a.op = "ref" /\ Sym(a) = NoSymbol
  \/ a.op = "float" /\ expected = <<"i32">>

IsActio(t) == Len(t) = 3   \* <<"actio", result, parameters>>

ExprType(e, expected) ==
  CASE e.op = "sum"  -> OperandType(e.left, expected)
    [] e.op = "call" -> IF IsActio(Sym(e).type) THEN Sym(e).type[2] ELSE Unknown
    [] OTHER         -> OperandType(e, expected)

(* A fault: the argument types are not compared.                           *)
ExprBadButArguments(e, expected) ==
  CASE e.op = "sum" ->
         LET left == OperandType(e.left, expected)
         IN  \/ OperandBad(e.left, expected) \/ OperandBad(e.right, left)
             \/ left # OperandType(e.right, left)
    [] e.op = "call" -> ~IsActio(Sym(e).type) \/ Len(e.args) # Len(Sym(e).type[3])
    [] OTHER -> OperandBad(e, expected)

(* The errors of check_expression: operands of a sum have one type, a      *)
(* callee is a function, arguments have the types of its parameters.       *)
ExprBad(e, expected) ==
  CASE e.op = "sum" ->
         LET left == OperandType(e.left, expected)
         IN  \/ OperandBad(e.left, expected) \/ OperandBad(e.right, left)
             \/ left # OperandType(e.right, left)
    [] e.op = "call" ->
         LET t == Sym(e).type
         IN  \/ ~IsActio(t)
             \/ Len(e.args) # Len(t[3])
             \/ \E i \in DOMAIN e.args : \/ OperandBad(e.args[i], t[3][i])
                                         \/ OperandType(e.args[i], t[3][i]) # t[3][i]
    [] OTHER -> OperandBad(e, expected)

(* The operands check_expression visits, in no particular order.           *)
Operands(e) ==
  CASE e.op = "sum"  -> {e.left, e.right}
    [] e.op = "call" -> {[op |-> "callee", mod |-> e.mod, name |-> e.name]}
                        \cup (IF IsActio(Sym(e).type) /\ Len(e.args) = Len(Sym(e).type[3])
                              THEN {e.args[i] : i \in DOMAIN e.args} ELSE {})
    [] e.op = "none" -> {}
    [] OTHER         -> {e}

Names(e) == {a \in Operands(e) : a.op \in {"ref", "callee"}}

(* The compiler follows a null pointer: the callee, or what qualifies a    *)
(* name, is a global whose type is not known yet.                          *)
Crashes(e) ==
  \/ e.op = "call" /\ Sym(e) # NoSymbol /\ Sym(e).type = NoType
  \/ \E a \in Names(e) : a.mod # "" /\ Lookup(Scopes, a.mod).type = NoType

(* The names of an expression, and what each reaches.                      *)
Met(e) ==
  {[at |-> <<file, decl, stmt>>, mod |-> a.mod, name |-> a.name, id |-> Sym(a).id,
    type |-> Sym(a).type, alias |-> Sym(a).alias, called |-> a.op = "callee"] : a \in Names(e)}

(* The initialiser e of a variable declared with a type, or none.          *)
InitBad(declared, e) ==
  LET type == ExprType(e, declared)
  IN  \/ e.op # "none" /\ ExprBad(e, declared)
      \/ declared # NoType /\ e.op # "none" /\ type # NoType /\ type # declared
      \/ declared = NoType /\ (e.op = "none" \/ type = NoType)
      \/ declared = <<"nihil">>
      \/ declared = NoType /\ e.op # "none" /\ type = <<"nihil">>

VariableType(declared, e) ==
  IF declared # NoType THEN declared
  ELSE IF e.op = "none" \/ ExprType(e, declared) = NoType THEN Unknown
  ELSE ExprType(e, declared)

Crash ==
  /\ pass' = "crashed"
  /\ UNCHANGED <<prog, file, decl, stmt, universe, scope, locals, hadError, uses>>

(* Fourth pass, a global: its initialiser is checked, and gives it its     *)
(* type if it was declared without.                                        *)
CheckGlobal ==
  /\ pass = "bodies" /\ Decl.kind \in {"sit", "lex"}
  /\ LET declared == Find(scope[file], Decl.name).type
     IN  IF Crashes(Decl.init) THEN Crash
         ELSE /\ scope' = [scope EXCEPT ![file][Decl.name].type = VariableType(declared, Decl.init)]
              /\ uses' = uses \cup Met(Decl.init)
              /\ Advance(InitBad(declared, Decl.init))
              /\ UNCHANGED <<prog, universe, locals>>

(* The scope of the first i parameters; each is resolved in the scope of   *)
(* those before it.                                                        *)
WithParam(sc, i) ==
  Define(sc, Decl.params[i].name,
         Symbol("sit", ResolveType(Append(Scopes, sc), Decl.params[i].type),
                FALSE, <<file, decl, "param", i>>))

ParamScope[i \in 0..Len(Decl.params)] == IF i = 0 THEN <<>> ELSE WithParam(ParamScope[i - 1], i)

ParamsBad ==
  \E i \in DOMAIN Decl.params : Bad(Append(Scopes, ParamScope[i - 1]), Decl.params[i].type)

(* A function: a scope for the parameters, one for the block of the body.  *)
EnterFunction ==
  /\ pass = "bodies" /\ Decl.kind = "actio" /\ stmt = 0
  /\ IF Decl.barbara THEN Advance(ParamsBad) /\ UNCHANGED locals
     ELSE /\ locals' = <<ParamScope[Len(Decl.params)], <<>>>>
          /\ stmt' = 1 /\ hadError' = (hadError \/ ParamsBad)
          /\ UNCHANGED <<pass, file, decl>>
  /\ UNCHANGED <<prog, universe, scope, uses>>

InBody(op) == pass = "bodies" /\ stmt > 0 /\ stmt <= Len(Decl.body) /\ Stmt.op = op

Inner == Len(locals)

Follow(error) ==
  /\ stmt' = stmt + 1 /\ hadError' = (hadError \/ error)
  /\ UNCHANGED <<prog, pass, file, decl, universe, scope>>

OpenBlock ==
  /\ InBody("open") /\ Follow(FALSE)
  /\ locals' = Append(locals, <<>>) /\ UNCHANGED uses

(* symtab_leave_scope.                                                     *)
LeaveScope(ls) == SubSeq(ls, 1, Len(ls) - 1)

CloseBlock ==
  /\ InBody("close") /\ Follow(FALSE)
  /\ locals' = LeaveScope(locals) /\ UNCHANGED uses

(* A local is defined behind its own initialiser.                          *)
DeclareLocal ==
  /\ InBody("sit")
  /\ LET declared == IF Stmt.type = NoRef THEN NoType ELSE ResolveType(Scopes, Stmt.type)
         sym == Symbol("sit", VariableType(declared, Stmt.init), FALSE, <<file, decl, "local", stmt>>)
     IN  IF Crashes(Stmt.init) THEN Crash
         ELSE /\ locals' = [locals EXCEPT ![Inner] = Define(@, Stmt.name, sym)]
              /\ uses' = uses \cup Met(Stmt.init)
              /\ Follow(\/ InitBad(declared, Stmt.init) \/ declared = Unknown
                        \/ Stmt.name \in DOMAIN locals[Inner])

Evaluate ==
  /\ InBody("eval")
  /\ IF Crashes(Stmt.init) THEN Crash
     ELSE Follow(ExprBad(Stmt.init, NoType)) /\ uses' = uses \cup Met(Stmt.init) /\ UNCHANGED locals

ReturnType == Find(scope[file], Decl.name).type[2]

Return ==
  /\ InBody("redde")
  /\ LET none == Stmt.init.op = "none"
         type == IF none THEN <<"nihil">> ELSE ExprType(Stmt.init, ReturnType)
     IN  IF Crashes(Stmt.init) THEN Crash
         ELSE /\ Follow(type # ReturnType \/ (~none /\ ExprBad(Stmt.init, ReturnType)))
              /\ uses' = uses \cup Met(Stmt.init) /\ UNCHANGED locals

(* The end of a function; check_returns: a result must be returned.        *)
LeaveFunction ==
  /\ pass = "bodies" /\ Decl.kind = "actio" /\ stmt = Len(Decl.body) + 1
  /\ locals' = <<>>
  /\ Advance(/\ ReturnType # <<"nihil">>
             /\ \A s \in DOMAIN Decl.body : Decl.body[s].op # "redde")
  /\ UNCHANGED <<prog, universe, scope, uses>>

SkipDeclaration ==
  /\ pass = "bodies" /\ Decl.kind \in {"importa", "forma", "imago", "none"}
  /\ Advance(FALSE)
  /\ UNCHANGED <<prog, universe, scope, locals, uses>>

Next ==
  \/ RegisterModule \/ CollectTypeNames \/ CollectDeclaration \/ ImportDeclaration
  \/ CheckGlobal \/ EnterFunction \/ OpenBlock \/ CloseBlock \/ DeclareLocal
  \/ Evaluate \/ Return \/ LeaveFunction \/ SkipDeclaration

Spec == Init /\ [][Next]_vars

-----------------------------------------------------------------------------
(* The scoping rules, read from the text of the program alone.             *)

Least(S) == CHOOSE x \in S : \A y \in S : x <= y

Own(f, n) == {<<f, d>> : d \in {d \in DOMAIN prog[f].decls :
                 prog[f].decls[d].kind # "importa" /\ prog[f].decls[d].name = n}}

ModuleNamed(n) == {<<f>> : f \in {f \in DOMAIN prog : prog[f].name = n}}
Public(n, m)   == {id \in UNION {Own(f[1], n) : f \in m} : DeclOf(id).pub}

(* Outside functions a name is the file's own, or what the first import of *)
(* it brings, or a module.                                                 *)
FileLevel(f, n) ==
  LET ds == prog[f].decls
      importing == {d \in DOMAIN ds : /\ ds[d].kind = "importa"
                                      /\ \/ \E i \in DOMAIN ds[d].items : ds[d].items[i] = n
                                         \/ ds[d].items = <<>> /\ ds[d].from = n}
  IN  IF Own(f, n) # {} THEN Own(f, n)
      ELSE IF importing = {} THEN ModuleNamed(n)
      ELSE LET i == ds[Least(importing)]
           IN  IF i.items = <<>> THEN ModuleNamed(n) ELSE Public(n, ModuleNamed(i.from))

(* Blocks open behind the first j statements of a body.                    *)
Depth(body, j) == Cardinality({k \in 1..j : body[k].op = "open"})
                  - Cardinality({k \in 1..j : body[k].op = "close"})

(* What the parser makes: no name is that of a basic type, an alias stands *)
(* for a type, a lex has an initialiser, and in a body no block is closed  *)
(* that is not open.  A function counts as barbara if it has no body.      *)
IsSeq(s) == Len(s) \in Nat /\ s = [i \in 1..Len(s) |-> s[i]]

ProperOperand(a) == a.op \in {"int", "float", "ref"}

ProperExpr(e) ==
  \/ ProperOperand(e) \/ e.op = "none"
  \/ e.op = "sum" /\ ProperOperand(e.left) /\ ProperOperand(e.right)
  \/ e.op = "call" /\ IsSeq(e.args) /\ \A i \in DOMAIN e.args : ProperOperand(e.args[i])

ProperDeclaration(d) ==
  /\ d.kind \in {"sit", "lex", "actio", "forma", "imago", "importa"}
  /\ d.kind \in {"sit", "lex"} => ProperExpr(d.init)
  /\ d.kind = "lex" => d.init.op # "none"
  /\ d.kind = "imago" => d.type # NoRef
  /\ d.kind = "importa" => IsSeq(d.items)
  /\ d.kind # "importa" => d.pub \in BOOLEAN /\ d.name \notin Basic
  /\ d.kind = "actio" => /\ IsSeq(d.params) /\ IsSeq(d.body) /\ d.barbara \in BOOLEAN
                         /\ d.barbara => d.body = <<>>
                         /\ \A j \in 0..Len(d.body) : Depth(d.body, j) >= 0
                         /\ \A j \in DOMAIN d.body : ProperExpr(d.body[j].init)

ASSUME ProgramsAssumption ==
  \A p \in Programs :
    /\ IsSeq(p) /\ Len(p) > 0
    /\ \A f \in DOMAIN p : /\ IsSeq(p[f].decls)
                           /\ \A d \in DOMAIN p[f].decls : ProperDeclaration(p[f].decls[d])

(* Inside, a local declared before in a block still open comes first, the  *)
(* innermost before the others, and a parameter second.                    *)
Unqualified(f, d, s, n) ==
  LET body    == prog[f].decls[d].body
      params  == {i \in DOMAIN prog[f].decls[d].params : prog[f].decls[d].params[i].name = n}
      inner(K) == {k \in K : \A j \in K : Depth(body, j) <= Depth(body, k)}
      visible == {k \in 1..(s - 1) : /\ body[k].op = "sit" /\ body[k].name = n
                                     /\ \A j \in k..(s - 1) : Depth(body, j) >= Depth(body, k)}
  IN  IF s = 0 THEN FileLevel(f, n)
      ELSE IF visible # {} THEN {<<f, d, "local", Least(inner(visible))>>}
      ELSE IF params # {} THEN {<<f, d, "param", Least(params)>>}
      ELSE FileLevel(f, n)

Denotes(at, mod, n) ==
  IF mod = "" THEN Unqualified(at[1], at[2], at[3], n)
  ELSE Public(n, {id \in Unqualified(at[1], at[2], at[3], mod) : Len(id) = 1})

-----------------------------------------------------------------------------
(* Properties.                                                             *)

(* Every name the checker resolves (type_checker.c:338-347, 482-498)       *)
(* reaches exactly the declaration the scoping rules give it at its place, *)
(* and none where they give none: own before imported, inner before outer, *)
(* not what a closed block declared, nothing private to another file.      *)
UsesReachVisible ==
  \A u \in uses : Denotes(u.at, u.mod, u.name) = IF u.id = NoDecl THEN {} ELSE {u.id}

(* The final type of a written type that may mean one of ids.              *)
TypeNamed(r, ids) ==
  IF r.base \in Basic THEN <<r.base>>
  ELSE IF ids = {} THEN Unknown
  ELSE LET id == CHOOSE id \in ids : TRUE IN scope[id[1]][r.base].type

(* Declarations are collected before the imports are made: their types are *)
(* the file's own, or public ones of the module that qualifies them.       *)
TypeIds(f, r) == IF r.mod = "" THEN Own(f, r.base) ELSE Public(r.base, ModuleNamed(r.mod))

Declared(f, r) == TypeNamed(r, TypeIds(f, r))

(* Inside functions a type means what its name does.                       *)
Written(f, r) == TypeNamed(r, Denotes(<<f, 0, 0>>, r.mod, r.base))

(* The final type of a use.                                                *)
FinalType(u) ==
  LET d == DeclOf(u.id)
      r == IF u.id[3] = "param" THEN d.params[u.id[4]].type ELSE d.body[u.id[4]].type
  IN  IF Len(u.id) = 1 THEN Module
      ELSE IF Len(u.id) = 2 THEN scope[u.id[1]][u.name].type
      ELSE IF r = NoRef THEN u.type ELSE Written(u.id[1], r)

Fits(at, a, t) ==
  CASE a.op = "int"   -> t \in Numeric
    [] a.op = "float" -> t = <<"f64">>
    [] a.op = "ref"   -> \E u \in uses : /\ <<u.at, u.mod, u.name>> = <<at, a.mod, a.name>>
                                        /\ FinalType(u) = t

(* Expression e makes sense and has type t.                                *)
ExprFits(at, e, t) ==
  CASE e.op = "sum"  -> Fits(at, e.left, t) /\ Fits(at, e.right, t)
    [] e.op = "call" ->
         \E u \in uses : LET fn == FinalType(u)
                         IN  /\ <<u.at, u.mod, u.name>> = <<at, e.mod, e.name>>
                             /\ IsActio(fn) /\ fn[2] = t /\ Len(fn[3]) = Len(e.args)
                             /\ \A i \in DOMAIN e.args : Fits(at, e.args[i], fn[3][i])
    [] e.op = "none" -> t = <<"nihil">>
    [] OTHER -> Fits(at, e, t)

AllTypes == Numeric \cup {<<"nihil">>, Module} \cup
            {FinalType(u) : u \in uses} \cup {FinalType(u)[2] : u \in {u \in uses : IsActio(FinalType(u))}}

GlobalTyped(f, d) ==
  LET g == prog[f].decls[d]
  IN  g.init.op = "none" \/ ExprFits(<<f, d, 0>>, g.init, scope[f][g.name].type)

StatementTyped(f, d, s) ==
  LET st == prog[f].decls[d].body[s]
  IN  CASE st.op = "redde" -> ExprFits(<<f, d, s>>, st.init, Declared(f, prog[f].decls[d].type))
        [] st.op = "sit" /\ st.type # NoRef ->
             st.init.op = "none" \/ ExprFits(<<f, d, s>>, st.init, Written(f, st.type))
        [] st.op = "eval" \/ (st.op = "sit" /\ st.type = NoRef) ->
             \E t \in AllTypes : ExprFits(<<f, d, s>>, st.init, t)
        [] OTHER -> TRUE

(* No use was checked before the type of what it names was known.          *)
InOrder == \A u \in uses : u.type # NoType

(* A program accepted (type_checker.c:1188) with every name checked after  *)
(* its type was known is well typed by the final types of all its          *)
(* declarations: every initialiser, argument, operand and result has the   *)
(* type its place declares.                                                *)
AcceptedAreTyped ==
  pass = "accepted" /\ InOrder =>
    \A f \in DOMAIN prog : \A d \in DOMAIN prog[f].decls :
      CASE prog[f].decls[d].kind \in {"sit", "lex"} -> GlobalTyped(f, d)
        [] prog[f].decls[d].kind = "actio" ->
             \A s \in DOMAIN prog[f].decls[d].body : StatementTyped(f, d, s)
        [] OTHER -> TRUE

(* In an accepted program every alias has the type of what it was declared *)
(* to stand for, however long the chain and in whatever order, and no      *)
(* declaration is left without a type: no circle of aliases was accepted   *)
(* (type_checker.c:90-101, 953-960).                                       *)
AliasesMeanTheirTargets ==
  pass = "accepted" =>
    \A f \in DOMAIN prog : \A d \in DOMAIN prog[f].decls :
      LET x == prog[f].decls[d]
      IN  x.kind # "importa" =>
            /\ scope[f][x.name].type \notin {NoType, Unknown}
            /\ x.kind = "imago" => scope[f][x.name].type = Declared(f, x.type)

=============================================================================
