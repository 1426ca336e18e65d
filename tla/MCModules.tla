------------------------------ MODULE MCModules ------------------------------
(***************************************************************************)
(* Bounded programs for TypeChecker and IrGlobals: one or two files, in    *)
(* both orders.                                                            *)
(***************************************************************************)
EXTENDS IrGlobals

R(n)    == [mod |-> "", base |-> n]
Q(m, n) == [mod |-> m, base |-> n]

Whole(v)     == [op |-> "int", val |-> v]
Float(v)   == [op |-> "float", val |-> v]
Ref(n)     == [op |-> "ref", mod |-> "", name |-> n]
From(m, n) == [op |-> "ref", mod |-> m, name |-> n]
Sum(a, b)  == [op |-> "sum", left |-> a, right |-> b]
Call(m, n, args) == [op |-> "call", mod |-> m, name |-> n, args |-> args]

D(kind, pub, n, type, init) ==
  [kind |-> kind, pub |-> pub, name |-> n, type |-> type, init |-> init]
Actio(pub, n, params, type, body) ==
  [kind |-> "actio", pub |-> pub, name |-> n, params |-> params, type |-> type,
   body |-> body, barbara |-> FALSE]
Barbara(n, params, type) == [Actio(TRUE, n, params, type, <<>>) EXCEPT !.barbara = TRUE]
Forma(pub, n, fields)  == [kind |-> "forma", pub |-> pub, name |-> n, type |-> NoRef, fields |-> fields]
Imago(pub, n, target)  == [kind |-> "imago", pub |-> pub, name |-> n, type |-> target]
Importa(m, items)      == [kind |-> "importa", name |-> "", type |-> NoRef, from |-> m, items |-> items]

S(op, n, type, init) == [op |-> op, name |-> n, type |-> type, init |-> init]
Open     == S("open", "", NoRef, NoExpr)
Close    == S("close", "", NoRef, NoExpr)
Redde(e) == S("redde", "", NoRef, e)

I32 == R("i32")
F64 == R("f64")
X   == [name |-> "x", type |-> I32]

File(n, decls) == [name |-> n, decls |-> decls]
Orders(a, b)   == {<<a, b>>, <<b, a>>}

-----------------------------------------------------------------------------
(* Scopes: a global, a parameter and locals of one name, in blocks.        *)
Within == {<<>>, <<S("sit", "x", F64, Float(1))>>, <<S("sit", "x", NoRef, Ref("x"))>>,
           <<S("eval", "", NoRef, Ref("x"))>>,
           <<S("sit", "x", I32, Sum(Ref("x"), Whole(1))), S("sit", "y", F64, Ref("x"))>>}

Scoping ==
  {<<File("m", <<D("sit", FALSE, "x", F64, Float(1)),
                 Actio(FALSE, "f", ps, ret, a \o <<Open>> \o b \o <<Close>> \o c \o <<Redde(Ref("x"))>>)>>)>> :
     ps \in {<<>>, <<X>>, <<X, X>>}, ret \in {I32, F64}, a, b, c \in Within}

(* Imports: what module n declares, how module m names it and uses it.     *)
Exported == {D("sit", pub, "x", t, Float(1)) : pub \in BOOLEAN, t \in {NoRef, F64}}
            \cup {Actio(TRUE, "x", <<X>>, F64, <<Redde(Float(1))>>), Barbara("x", <<X>>, F64),
                  Forma(TRUE, "x", <<>>)}

Importing == {<<>>, <<Importa("n", <<>>)>>, <<Importa("n", <<"x">>)>>,
              <<Importa("n", <<"x">>), Importa("n", <<"y">>)>>,
              <<D("sit", FALSE, "x", F64, Float(2)), Importa("n", <<"x">>)>>}

Using == {Ref("x"), From("n", "x"), Call("", "x", <<Whole(1)>>), Call("n", "x", <<Whole(1)>>),
          Call("n", "x", <<Float(1)>>), Sum(From("n", "x"), Float(1))}

Importations ==
  UNION {Orders(File("m", i \o <<D("sit", FALSE, "z", t, u),
                                 Actio(FALSE, "f", <<>>, F64, <<Redde(u)>>)>>),
                File("n", <<e, D("sit", TRUE, "y", F64, NoExpr)>>)) :
           e \in Exported, i \in Importing, u \in Using, t \in {NoRef, F64}}

(* What a module has imported is not for others to import.                 *)
Reexporting ==
  LET c == File("o", <<D("sit", TRUE, "x", F64, NoExpr)>>)
  IN UNION {{<<a, b, c>>, <<c, b, a>>} :
           b \in {File("n", <<Importa("o", i)>>) : i \in {<<>>, <<"x">>}},
           a \in {File("m", <<i, Actio(FALSE, "f", <<>>, F64, <<Redde(u)>>)>>) :
                    i \in {Importa("n", <<>>), Importa("n", <<"x">>), Importa("n", <<"o">>)},
                    u \in {Ref("x"), From("n", "x"), From("o", "x")}}}

(* Aliases: chains and circles in one file, used before and behind, and    *)
(* named from another file.                                                *)
Targets == {R("A"), R("B"), R("T"), I32, Q("m", "A"), R("U")}

Aliasing ==
  {<<File("m", <<Actio(TRUE, "f", <<[name |-> "p", type |-> R("B")]>>, R("A"), <<Redde(Ref("p"))>>),
                 Imago(TRUE, "A", a), Imago(FALSE, "B", b), Imago(FALSE, "C", c),
                 Forma(TRUE, "T", <<I32>>), Forma(TRUE, "V", <<R("C"), R("T")>>)>>)>> :
     a, b, c \in Targets}
  \cup UNION {Orders(File("m", <<Imago(TRUE, "A", R("T")), Forma(pub, "T", <<>>)>>),
                     File("n", i \o <<Imago(FALSE, "B", r), D("sit", FALSE, "x", R("B"), NoExpr)>>)) :
                pub \in BOOLEAN, r \in {Q("m", "A"), Q("m", "T"), R("A")},
                i \in {<<>>, <<Importa("m", <<>>)>>, <<Importa("m", <<"A">>)>>}}
  \cup UNION {Orders(File("m", <<Imago(FALSE, "A", Q("n", "T")), b, Actio(FALSE, "f", <<>>, R("A"), <<Redde(Call("", "f", <<>>))>>)>>),
                     File("n", <<Forma(TRUE, "T", <<>>)>>)) :
                b \in {D("sit", FALSE, "n", I32, NoExpr), Importa("n", <<>>)}}

(* Constants: three globals that refer to each other, in two files.        *)
Initialisers == {NoExpr, Whole(2), Ref("a"), Ref("b"), Sum(Ref("c"), Whole(1)), Sum(Ref("a"), Ref("c")),
                 Call("", "f", <<>>), From("k", "c")}

Constants ==
  UNION {Orders(File("m", <<Importa("k", <<"c">>), D("sit", TRUE, "a", I32, a), D(k, FALSE, "b", I32, b),
                            Actio(TRUE, "f", <<>>, I32, <<Redde(Whole(7))>>)>>),
                File("k", <<D("sit", TRUE, "c", I32, c), Importa("m", <<"a", "f">>)>>)) :
           a \in Initialisers,
           c \in {NoExpr, Whole(2), Ref("a"), Sum(Ref("a"), Ref("c")), Call("", "f", <<>>)},
           <<k, b>> \in ({"sit"} \X Initialisers) \cup
                         ({"lex"} \X {Whole(2), Ref("a"), Sum(Ref("a"), Ref("c"))})}

(* A function kept in a variable.                                          *)
Keeping ==
  {<<File("m", <<Actio(FALSE, "f", <<X>>, I32, <<Redde(Ref("x"))>>), D("sit", FALSE, "z", NoRef, Ref("f")),
                 Actio(FALSE, "k", <<>>, I32, <<S("sit", n, NoRef, Ref(e)), Redde(Call("", c, <<Whole(1)>>))>>)>>)>> :
     n, e, c \in {"f", "y", "z"}}

(* A type and a module read as values, beside a variable of their name.    *)
Misreading ==
  UNION {Orders(File("m", <<Forma(FALSE, "x", <<>>), Importa("n", <<>>), D("sit", FALSE, "z", NoRef, Ref(r))>>),
                File("n", <<D("sit", FALSE, r, I32, Whole(1))>>)) : r \in {"x", "n"}}

MCPrograms == Scoping \cup Importations \cup Reexporting \cup Aliasing \cup Constants \cup Keeping \cup Misreading
              \cup {<<File("m", <<Forma(FALSE, "T", <<>>)>>), File("m", <<Forma(FALSE, "T", <<>>)>>)>>,
                    <<File("n", <<>>), File("m", <<Importa("n", <<>>), D("sit", TRUE, "x", I32, Whole(1))>>)>>}

-----------------------------------------------------------------------------
(* Two files with a private function of one name.                          *)
PrivateNames ==
  {<<File("m", <<Actio(FALSE, "h", <<>>, I32, <<Redde(Whole(1))>>),
                 Actio(FALSE, "f", <<>>, I32, <<Redde(Call("", "h", <<>>))>>)>>),
     File("n", <<Actio(FALSE, "h", <<>>, I32, <<Redde(Whole(2))>>),
                 Actio(FALSE, "g", <<>>, I32, <<Redde(Call("", "h", <<>>))>>)>>)>>}

=============================================================================
