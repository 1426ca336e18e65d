------------------------------ MODULE IrGlobals ------------------------------
(***************************************************************************)
(* What ir_gen_generate makes of the program the type checker accepted     *)
(* (src/src/ir/ir_gen.c, with the lists of ir_builder.c): globals and      *)
(* functions of all files in one list each and known by their bare names,  *)
(* the evaluation of constant initialisers, the code of __scorivm_init,    *)
(* and what the operands of the generated code refer to (pe_linker.c).     *)
(*                                                                         *)
(* A value is an integer; widths are not modelled.                         *)
(***************************************************************************)
EXTENDS TypeChecker

VARIABLES
  globals,    \* the module's global variables, in the order of their creation
  functions,  \* its functions
  externs,    \* its external functions
  changed,    \* this round of constant evaluation has found a value
  initCode    \* the globals initialised by __scorivm_init, in order

irVars == <<globals, functions, externs, changed, initCode>>

Checked == <<prog, stmt, universe, scope, locals, hadError, uses>>

IsGlobal(d) == d.kind \in {"sit", "lex"}
IsActioDecl(d) == d.kind = "actio"

(* The first entry of a list with a name (strcmp along the list).          *)
Named(list, n) == {i \in DOMAIN list : list[i].name = n}
Entry(list, n) == CHOOSE i \in Named(list, n) : \A j \in Named(list, n) : i <= j

Here(n) == Entry(globals, n)

(* Control: every declaration of every file, once per pass; a round of     *)
(* constant evaluation is repeated if it found a value.                    *)
NextIrPass(p) ==
  CASE p = "register" -> "constants"
    [] p = "constants" -> IF changed' THEN "constants" ELSE "emit"
    [] p = "emit" -> "done"

Step ==
  IF decl < Len(Decls) THEN decl' = decl + 1 /\ UNCHANGED <<pass, file>>
  ELSE IF file < Len(prog) THEN file' = file + 1 /\ decl' = 1 /\ UNCHANGED pass
  ELSE /\ pass' = NextIrPass(pass)
       /\ IF pass = "emit" THEN UNCHANGED <<file, decl>> ELSE file' = 1 /\ decl' = 1

IrInit ==
  /\ Init
  /\ globals = <<>> /\ functions = <<>> /\ externs = <<>> /\ changed = FALSE /\ initCode = <<>>

CheckStep == Next /\ UNCHANGED irVars

Generate ==
  /\ pass = "accepted"
  /\ pass' = "register" /\ file' = 1 /\ decl' = 1
  /\ UNCHANGED Checked /\ UNCHANGED irVars

(* First pass: globals, functions and externs are appended to their lists. *)
Register ==
  /\ pass = "register"
  /\ LET n  == Decl.name
         id == <<file, decl>>
     IN  /\ globals' = IF IsGlobal(Decl)
                       THEN Append(globals, [name |-> n, id |-> id, data |-> {}]) ELSE globals
         /\ functions' = IF IsActioDecl(Decl) /\ ~Decl.barbara
                         THEN Append(functions, [name |-> n, id |-> id, bodies |-> <<>>]) ELSE functions
         /\ externs' = IF IsActioDecl(Decl) /\ Decl.barbara
                       THEN Append(externs, [name |-> n, id |-> id]) ELSE externs
  /\ changed' = FALSE
  /\ Step
  /\ UNCHANGED Checked /\ UNCHANGED initCode

(* evaluate_const_expr: the value of an initialiser, as a set of at most   *)
(* one.  A name has the value of the first global of that name if that one *)
(* has been evaluated; a qualified name or a call has none.                *)
OperandValue(a) ==
  CASE a.op \in {"int", "float"} -> {a.val}
    [] a.op = "ref" -> IF a.mod = "" /\ Named(globals, a.name) # {} THEN globals[Here(a.name)].data
                       ELSE {}

(* A fault: a name not evaluated yet counts as zero.                       *)
ConstantOrZero(e) ==
  LET value(a) == IF OperandValue(a) = {} THEN {0} ELSE OperandValue(a)
  IN  CASE e.op = "sum"  -> {x + y : x \in value(e.left), y \in value(e.right)}
        [] e.op = "call" -> {}
        [] OTHER         -> value(e)

Constant(e) ==
  CASE e.op = "sum"  -> {x + y : x \in OperandValue(e.left), y \in OperandValue(e.right)}
    [] e.op = "call" -> {}
    [] OTHER         -> OperandValue(e)

(* A fault: a value found before counts as found again.                    *)
UnevaluatedAlways(g) == TRUE

Unevaluated(g) == globals[g].data = {}

(* Second pass: a global without data gets its constant value, if it has   *)
(* one by now.                                                             *)
EvaluateConstant ==
  /\ pass = "constants"
  /\ LET g     == Here(Decl.name)
         value == IF IsGlobal(Decl) /\ Decl.init.op # "none" /\ Unevaluated(g)
                  THEN Constant(Decl.init) ELSE {}
     IN  /\ globals' = IF value = {} THEN globals ELSE [globals EXCEPT ![g].data = value]
         /\ changed' = (value # {} \/ (changed /\ <<file, decl>> # <<1, 1>>))
  /\ Step
  /\ UNCHANGED Checked /\ UNCHANGED <<functions, externs, initCode>>

-----------------------------------------------------------------------------
(* What the generated code refers to.                                      *)

Body(n) ==
  LET f == functions[Entry(functions, n)]
  IN  IF Named(functions, n) = {} \/ f.bodies = <<>> THEN NoDecl ELSE f.bodies[1]

(* The linker looks a name up among the globals, the externs and the       *)
(* functions, in this order; a function is entered at its first body.      *)
Reaches(n) ==
  IF Named(globals, n) # {} THEN globals[Here(n)].id
  ELSE IF Named(externs, n) # {} THEN externs[Entry(externs, n)].id
  ELSE Body(n)

(* A direct call of anything but an extern: among the functions only.      *)
Calls(n) == IF Named(externs, n) # {} THEN Reaches(n) ELSE Body(n)

IsLocal(u) == Len(u.id) > 2
IsFunction(u) == Len(u.id) = 2 /\ DeclOf(u.id).kind = "actio"

(* The type of a symbol when code is generated; copies keep the type they  *)
(* were made with.                                                         *)
IrType(u) == IF u.alias \/ Len(u.id) # 2 THEN u.type ELSE scope[u.id[1]][u.name].type

IsVariable(u) == Len(u.id) = 2 /\ DeclOf(u.id).kind \in {"sit", "lex"}

(* A variable is read through the operand registered with its symbol       *)
(* (ir_val), which the copy made by an import does not have, and neither   *)
(* have a type or a module.                                                *)
HasOperand(u) == u.called \/ IsLocal(u) \/ IsActio(IrType(u)) \/ (IsVariable(u) /\ ~u.alias)

(* A fault: a name that is also a global's means the global.               *)
GeneratedByName(u) ==
  IF u.called THEN <<"function", Calls(u.name)>>
  ELSE IF IsActio(IrType(u)) THEN <<"function", Reaches(u.name)>>
  ELSE <<"variable", IF Named(globals, u.name) = {} THEN u.id ELSE Reaches(u.name)>>

(* gen_expression of a name: what has the type of a function is a function *)
(* known by the name, the callee of a call in any case; of other names the *)
(* variable is loaded, a local by its own operand, a global by its name.   *)
Generated(u) ==
  IF ~HasOperand(u) THEN <<"nothing", NoDecl>>
  ELSE IF u.called THEN <<"function", Calls(u.name)>>
  ELSE IF IsActio(IrType(u)) THEN <<"function", Reaches(u.name)>>
  ELSE <<"variable", IF IsLocal(u) THEN u.id ELSE Reaches(u.name)>>

-----------------------------------------------------------------------------
(* A fault: globals that have their value already are initialised again.   *)
NeedsCodeAlways(d) == IsGlobal(d) /\ d.init.op # "none"

NeedsCode(d) == IsGlobal(d) /\ d.init.op # "none" /\ globals[Here(d.name)].data = {}

(* No code is generated for an expression an operand of which is missing   *)
(* (ir_build_binary, ir_build_store).                                      *)
IsGenerated(e) ==
  e.op = "call" \/ \A u \in uses : u.at = <<file, decl, 0>> => HasOperand(u)

(* Third pass: what is not constant is computed by __scorivm_init, in the  *)
(* order of the declarations; a lex must be constant (exit(1)).  A body is *)
(* appended to the first function of its name.                             *)
EmitGlobal ==
  /\ pass = "emit" /\ NeedsCode(Decl)
  /\ IF Decl.kind = "lex" THEN pass' = "fatal" /\ UNCHANGED <<file, decl, initCode>>
     ELSE /\ initCode' = IF IsGenerated(Decl.init) THEN Append(initCode, <<file, decl>>) ELSE initCode
          /\ Step
  /\ UNCHANGED Checked /\ UNCHANGED <<globals, functions, externs, changed>>

EmitBody ==
  /\ pass = "emit" /\ IsActioDecl(Decl) /\ ~Decl.barbara
  /\ functions' = [functions EXCEPT ![Entry(functions, Decl.name)].bodies = Append(@, <<file, decl>>)]
  /\ Step
  /\ UNCHANGED Checked /\ UNCHANGED <<globals, externs, changed, initCode>>

EmitNothing ==
  /\ pass = "emit" /\ ~NeedsCode(Decl) /\ ~(IsActioDecl(Decl) /\ ~Decl.barbara)
  /\ Step
  /\ UNCHANGED Checked /\ UNCHANGED irVars

IrNext ==
  \/ CheckStep \/ Generate \/ Register \/ EvaluateConstant
  \/ EmitGlobal \/ EmitBody \/ EmitNothing

IrSpec     == IrInit /\ [][IrNext]_<<vars, irVars>>
FairIrSpec == IrSpec /\ WF_<<vars, irVars>>(IrNext)

-----------------------------------------------------------------------------
(* Properties.                                                             *)

GlobalIds == {id \in UNION {{f} \X DOMAIN prog[f].decls : f \in DOMAIN prog} : IsGlobal(DeclOf(id))}

LinkNames == {id \in UNION {{f} \X DOMAIN prog[f].decls : f \in DOMAIN prog} :
                IsGlobal(DeclOf(id)) \/ IsActioDecl(DeclOf(id))}

(* No two globals or functions of the program share a name.                *)
UniqueNames == \A x, y \in LinkNames : DeclOf(x).name = DeclOf(y).name => x = y

RefOperands(e) ==
  {a \in CASE e.op = "sum" -> {e.left, e.right} [] e.op \in {"call", "none"} -> {} [] OTHER -> {e} :
     a.op = "ref"}

(* What may count as constant if the globals of S do: literals, and names  *)
(* of S without qualification.                                             *)
ConstantGiven(id, S) ==
  LET e == DeclOf(id).init
  IN  /\ e.op \notin {"none", "call"}
      /\ \A a \in RefOperands(e) : a.mod = "" /\ Denotes(id \o <<0>>, "", a.name) \cap S # {}

(* The least set of globals closed under this.                             *)
ConstantGlobals ==
  {id \in GlobalIds : \A S \in SUBSET GlobalIds :
     (\A x \in GlobalIds : ConstantGiven(x, S) => x \in S) => id \in S}

DataOf(id) == UNION {globals[i].data : i \in {i \in DOMAIN globals : globals[i].id = id}}

Meaning(id, a) ==
  IF a.op = "ref" THEN UNION {DataOf(x) : x \in Denotes(id \o <<0>>, "", a.name)} ELSE {a.val}

(* Names in expressions are those of variables and functions.  The checker *)
(* accepts those of types and modules too.                                 *)
ReadsValues == \A u \in uses : IsLocal(u) \/ IsVariable(u) \/ IsFunction(u)

(* The rounds of constant evaluation (ir_gen.c:1731-1764) end with data    *)
(* for exactly the globals whose initialisers depend on literals only, in  *)
(* whatever order and files they are declared and circles excepted, and    *)
(* the data are the values of the initialisers.                            *)
ConstantsAreExact ==
  pass \in {"emit", "done", "fatal"} /\ UniqueNames /\ ReadsValues =>
    \A id \in GlobalIds :
      LET e == DeclOf(id).init
      IN  /\ (DataOf(id) # {}) <=> (id \in ConstantGlobals)
          /\ DataOf(id) # {} =>
               DataOf(id) = IF e.op = "sum"
                            THEN {x + y : x \in Meaning(id, e.left), y \in Meaning(id, e.right)}
                            ELSE Meaning(id, e)

(* Programs whose globals and functions have names of their own, that read *)
(* no variable imported by excerpe, no type and no module, and that keep   *)
(* no function in a variable.                                              *)
Plain ==
  /\ UniqueNames
  /\ \A u \in uses : HasOperand(u) /\ (IsActio(IrType(u)) => IsFunction(u))

(* When code generation is done, every global with an initialiser has been *)
(* given its value exactly once, as data or by __scorivm_init, which runs  *)
(* in the order of the source; every lex is data; and it stops half-way    *)
(* only for a lex that is no constant (ir_gen.c:1766-1810).                *)
InitialisedOnce ==
  Plain =>
    /\ pass = "done" =>
         /\ \A id \in GlobalIds :
              LET runs == {i \in DOMAIN initCode : initCode[i] = id}
              IN  Cardinality(runs) + Cardinality(DataOf(id)) = IF DeclOf(id).init.op = "none" THEN 0 ELSE 1
         /\ \A id \in GlobalIds : DeclOf(id).kind = "lex" => DataOf(id) # {}
         /\ \A i, j \in DOMAIN initCode :
              i < j => \/ initCode[i][1] < initCode[j][1]
                       \/ initCode[i][1] = initCode[j][1] /\ initCode[i][2] < initCode[j][2]
    /\ pass = "fatal" => Decl.kind = "lex" /\ <<file, decl>> \notin ConstantGlobals

(* The uses that become operands of generated code.                        *)
Operational ==
  {u \in uses : /\ Len(u.id) > 1 /\ DeclOf(u.id).kind \in {"actio", "sit", "lex"}
                /\ u.at[3] > 0 \/ DataOf(<<u.at[1], u.at[2]>>) = {}}

Meant(u) == <<IF IsFunction(u) THEN "function" ELSE "variable", u.id>>

(* What the checker resolved a name to is what the generated code reads or *)
(* calls (docs/SYNTAX.md:13: modules are pure name spaces).                *)
UsesKeepTheirMeaning == pass = "done" => \A u \in Operational : Generated(u) = Meant(u)

(* The same for plain programs: across files, through imports, for externs *)
(* and for locals that shadow (ir_gen.c:858-885, 1055-1068, 1263-1279).    *)
PlainUsesKeepTheirMeaning == Plain => UsesKeepTheirMeaning

(* The compiler front end comes to an end: every pass is finite, and every *)
(* round of constant evaluation but the last finds a value.                *)
Terminates == <>(pass \in {"rejected", "crashed", "done", "fatal"})
=============================================================================
