------------------------------ MODULE MCLower -------------------------------
(***************************************************************************)
(* Function bodies for TLC.  Each family varies one thing that lowering    *)
(* must get right and keeps the rest small:                                *)
(*   Nested     break, continue and return in a statement inside a loop or *)
(*              switch inside a loop or switch                             *)
(*   Tests      conditions, constant or not, with && and ||, under every   *)
(*              statement that has one                                     *)
(*   Jumping    gotos and labels in every order, in and out of loops       *)
(*   Selecting  branches that only assign                                  *)
(*   Switching  cases with several values, repeated values, no default     *)
(***************************************************************************)
EXTENDS Lower

Tree(op, kids) == [op |-> op, name |-> "", vals |-> <<>>, kids |-> kids]
Named(op, name) == [Tree(op, <<>>) EXCEPT !.name = name]

Do == Tree("do", <<>>)
Test == Tree("any", <<>>)
Pick == Tree("pick", <<>>)
None == Tree("none", <<>>)
Break == Tree("break", <<>>)
Continue == Tree("continue", <<>>)
Ret == Tree("return", <<>>)
Trap == Tree("trap", <<>>)
Body(s) == Tree("block", s)
Const(v) == [Tree("const", <<>>) EXCEPT !.vals = <<v>>]
Goto(l) == Named("goto", l)
Label(l) == Named("label", l)
Assign(x) == Named("assign", x)
If(c, s) == Tree("if", <<c, s>>)
IfElse(c, s, t) == Tree("if", <<c, s, t>>)
While(c, s) == Tree("while", <<c, s>>)
For(i, c, n, s) == Tree("for", <<i, c, n, s>>)
Choose(c, vals, kids) == [Tree("switch", <<c>> \o kids) EXCEPT !.vals = vals]

Around1(s) ==
    {While(Test, s), For(Do, Test, Do, s), For(None, None, None, s),
     Choose(Pick, <<<<1>>>>, <<s, Body(<<Do>>)>>)}

Leaves == {Do, Break, Continue, Ret}

Nested ==
    {Body(<<outer, Do>>) : outer \in
        UNION {Around1(Body(<<inner, leaf>>)) : leaf \in Leaves, inner \in
            UNION {Around1(Body(<<s, t>>)) : s \in {If(Test, l) : l \in Leaves}, t \in Leaves}}}

Conds ==
    LET C0 == {Test, Const(0), Const(1)}
        C1 == {Tree(op, <<a, b>>) : op \in {"and", "or"}, a \in C0, b \in C0}
        C2 == {Tree("and", <<a, Test>>) : a \in {Tree("or", <<Test, Test>>), Tree("and", <<Test, Const(1)>>)}}
              \cup {Tree("or", <<Test, a>>) : a \in {Tree("or", <<Test, Test>>), Tree("and", <<Test, Test>>)}}
    IN  C0 \cup C1 \cup C2

Tests ==
    {Body(s) : s \in UNION {
        {<<If(c, Do), Do>>, <<IfElse(c, Body(<<Ret>>), Trap)>>, <<c, Do>>,
         <<IfElse(c, Do, Body(<<Do, Do>>)), Do>>, <<While(c, Do), Do>>, <<While(c, Body(<<>>))>>,
         <<For(None, c, None, Body(<<>>)), Do>>, <<For(Do, c, None, Break), Do>>,
         <<For(None, c, Do, Continue), Do>>, <<While(Test, Body(<<If(c, Break), Do>>)), Ret>>,
         <<IfElse(c, Assign("x"), Body(<<Assign("x")>>)), Do>>} : c \in Conds}}

Jumping ==
    LET S == {Do, Goto("a"), Goto("b"), Label("a"), Label("b")}
        T == S \cup {If(Test, Goto("a")), Ret, While(Test, Body(<<Goto("b"), Do>>)),
                     While(Test, Body(<<Label("a"), Do>>))}
        Hop(l, m) == <<Label(l), Goto(m)>>
        L == {"a", "b", "c"}
        Orders == {f \in [1..3 -> L] : f[1] # f[2] /\ f[1] # f[3] /\ f[2] # f[3]}
    IN  {Body(s) : s \in [1..2 -> T] \cup [1..3 -> T] \cup [1..4 -> S]}
        \cup {Body(Hop(f[1], g[1]) \o Hop(f[2], g[2]) \o Hop(f[3], g[3])) : f \in Orders, g \in Orders}

Selecting ==
    LET A == {Assign("x"), Assign("y"), Body(<<Assign("x")>>), Body(<<Assign("x"), Do>>),
              Body(<<Body(<<Assign("x")>>)>>), Do}
    IN  {Body(<<IfElse(c, s, t), Do>>) : c \in {Test, Const(0), Const(1)}, s \in A, t \in A}

Switching ==
    LET Bodies == {Body(<<>>), Body(<<Do>>), Body(<<Break, Do>>), Body(<<Ret>>)}
        Lists == {<<1>>, <<2>>, <<1, 2>>, <<2, 1>>}
        Defaults == {<<>>, <<Body(<<Do>>)>>}
    IN  {Body(<<Choose(Pick, <<u, v>>, <<s, t>> \o d), Do>>) :
            u \in Lists, v \in Lists, s \in Bodies, t \in {Body(<<>>), Do}, d \in Defaults}
        \cup {Body(<<Choose(Const(2), <<u, v>>, <<Do, Trap>> \o d), Do>>) :
            u \in Lists, v \in Lists, d \in Defaults}
        \cup {Body(<<Choose(Pick, <<>>, d), Do>>) : d \in Defaults}

FunctionBodies == {t \in Nested \cup Tests \cup Jumping \cup Selecting \cup Switching : Meaningful(t)}
=============================================================================
