----------------------------- MODULE MCOptimize -----------------------------
(***************************************************************************)
(* Optimize on programs of princeps and one or two functions it reaches,   *)
(* as the compiler prints them at -O0 (--emitte-ir).  "in" and "out" are   *)
(* external.                                                               *)
(***************************************************************************)
EXTENDS Optimize

CONSTANTS
    Callers,        \* the bodies of princeps to take
    Helpers,        \* the bodies of functions called alone
    Outer, Inner    \* the bodies of functions of which one may call the other

Param(v, i) == Op("param", v, <<I(i)>>)
Bin(op, v, l, r) == Op(op, v, <<l, r>>)
Call(v, name, args) == Op("call", v, <<F(name)>> \o args)
Jmp(b) == Op("jmp", 0, <<B(b)>>)
Br(v, then, else) == Op("br", 0, <<V(v), B(then), B(else)>>)
Ret(a) == Op("ret", 0, <<a>>)
Return == Op("ret", 0, <<>>)
Alloca(v) == Op("alloca", v, <<>>)
Load(v, slot) == Op("load", v, <<V(slot)>>)
Store(a, slot) == Op("store", 0, <<a, V(slot)>>)

\* The body of that kind of a function `self` that may call `other`.  Block b
\* of a sequence has id b until the module is put together.
Body(kind, self, other) ==
    CASE kind = "triple" -> << <<Param(1, 0), Bin("mul", 2, V(1), I(3)), Ret(V(2))>> >>
      [] kind = "echo" -> << <<Param(1, 0), Call(0, "out", <<V(1)>>), Ret(V(1))>> >>
      [] kind = "say" -> << <<Param(1, 0), Call(0, "out", <<V(1)>>), Return>> >>
      [] kind = "four" -> << <<Ret(I(4))>> >>
      [] kind = "same" -> << <<Param(1, 0), Bin("mul", 2, V(1), I(2)), Bin("mul", 3, I(2), V(1)),
                               Bin("add", 4, V(2), V(3)), Ret(V(4))>> >>
      [] kind = "one" -> << <<Param(1, 0), Bin("eq", 2, V(1), I(1)), Ret(V(2))>> >>
      [] kind = "low" -> << <<Param(1, 0), Bin("lt", 2, V(1), I(2)), Br(2, 2, 3)>>,
                            <<Ret(V(1))>>,
                            <<Bin("add", 3, V(1), I(1)), Ret(V(3))>> >>
      [] kind = "high" -> << <<Param(1, 0), Bin("lt", 2, V(1), I(2)), Br(2, 2, 3)>>,
                             <<Ret(I(0))>>,
                             <<Ret(V(1))>> >>
      [] kind = "fork" -> << <<Param(1, 0), Bin("lt", 2, V(1), I(2)), Br(2, 2, 3)>>,
                             <<Bin("mul", 3, V(1), I(3)), Ret(V(3))>>,
                             <<Bin("mul", 4, V(1), I(3)), Bin("add", 5, V(4), V(1)), Ret(V(5))>> >>
      [] kind = "mix" -> << <<Param(1, 0), Param(2, 1), Bin("sub", 3, V(1), V(2)), Ret(V(3))>> >>
      [] kind = "switch" -> << <<Param(1, 0), Op("switch", 0, <<V(1), B(2), I(1), B(4), I(2), B(5), I(3), B(5)>>)>>,
                               <<Ret(I(7))>>, <<Ret(I(8))>>, <<Ret(I(5))>>, <<Ret(I(6))>> >>
      [] kind = "trap" -> << <<Param(1, 0), Bin("eq", 2, V(1), I(2)), Br(2, 2, 3)>>,
                             <<Op("trap", 0, <<>>)>>,
                             <<Ret(V(1))>> >>
      [] kind = "less" -> << <<Param(1, 0), Alloca(2), Store(I(0), 2), Bin("lt", 3, V(1), I(2)),
                               Op("select", 4, <<V(3), I(1), V(1)>>), Store(V(4), 2), Ret(V(4))>> >>
      [] kind = "logic" -> << <<Param(1, 0), Bin("gt", 2, V(1), I(1)), Alloca(3), Store(V(2), 3), Br(2, 2, 3)>>,
                              <<Bin("lt", 4, V(1), I(4)), Store(V(4), 3), Jmp(3)>>,
                              <<Load(5, 3), Br(5, 4, 5)>>, <<Ret(I(1))>>, <<Ret(I(0))>> >>
      [] kind = "sum" -> << <<Param(1, 0), Bin("lt", 2, V(1), I(2)), Br(2, 2, 3)>>,
                            <<Ret(V(1))>>,
                            <<Bin("sub", 3, V(1), I(1)), Call(4, self, <<V(3)>>), Bin("add", 5, V(4), V(1)), Ret(V(5))>> >>
      [] kind = "pow" -> << <<Param(1, 0), Bin("eq", 2, V(1), I(0)), Br(2, 2, 3)>>,
                            <<Ret(I(1))>>,
                            <<Bin("sub", 3, V(1), I(1)), Call(4, self, <<V(3)>>), Bin("mul", 5, V(4), I(2)), Ret(V(5))>> >>
      [] kind = "count" -> << <<Param(1, 0), Bin("ge", 2, V(1), I(2)), Br(2, 2, 3)>>,
                              <<Bin("sub", 3, V(1), I(2)), Call(4, self, <<V(3)>>), Bin("add", 5, V(4), I(1)), Ret(V(5))>>,
                              <<Ret(V(1))>> >>
      [] kind = "up" -> << <<Param(1, 0), Bin("eq", 2, V(1), I(0)), Br(2, 2, 3)>>,
                           <<Ret(I(1))>>,
                           <<Bin("add", 3, V(1), I(1)), Call(4, self, <<V(3)>>), Bin("add", 5, V(4), I(1)), Ret(V(5))>> >>
      [] kind = "fact" -> << <<Param(1, 0), Param(2, 1), Bin("lt", 3, V(1), I(2)), Br(3, 2, 3)>>,
                             <<Ret(V(2))>>,
                             <<Bin("sub", 4, V(1), I(1)), Bin("mul", 5, V(2), V(1)), Call(6, self, <<V(4), V(5)>>), Ret(V(6))>> >>
      [] kind = "two" -> << <<Param(1, 0), Call(2, other, <<V(1), I(2)>>), Ret(V(2))>> >>
      [] kind = "tail" -> << <<Param(1, 0), Call(2, other, <<V(1)>>), Bin("add", 3, V(2), I(1)), Ret(V(3))>> >>
      [] kind = "waste" -> << <<Param(1, 0), Call(2, other, <<V(1)>>), Ret(V(1))>> >>
      [] kind = "even" -> << <<Param(1, 0), Bin("lt", 2, V(1), I(1)), Br(2, 2, 3)>>,
                             <<Ret(I(1))>>,
                             <<Bin("sub", 3, V(1), I(1)), Call(4, other, <<V(3)>>), Ret(V(4))>> >>
      [] kind = "keep" -> << <<Param(1, 0), Call(2, other, <<V(1)>>), Bin("gt", 3, V(1), I(3)), Br(3, 2, 3)>>,
                             <<Bin("add", 4, V(2), I(1)), Ret(V(4))>>,
                             <<Bin("add", 5, V(2), I(2)), Ret(V(5))>> >>
      [] kind = "print" -> << <<Call(1, "in", <<>>), Call(2, other, <<V(1)>>), Call(0, "out", <<V(2)>>), Ret(I(0))>> >>
      [] kind = "call" -> << <<Call(0, other, <<I(2)>>), Call(0, "out", <<I(1)>>), Ret(I(0))>> >>
      [] kind = "twice" -> << <<Call(1, other, <<I(2)>>), Call(2, other, <<I(2)>>), Bin("add", 3, V(1), V(2)),
                                Call(0, "out", <<V(3)>>), Ret(I(0))>> >>
      [] kind = "test" -> << <<Call(1, other, <<I(1)>>), Bin("eq", 2, V(1), I(3)), Br(2, 2, 3)>>,
                             <<Call(0, "out", <<I(1)>>), Jmp(4)>>,
                             <<Call(3, "in", <<>>), Call(4, other, <<V(3)>>), Call(0, "out", <<V(4)>>), Jmp(4)>>,
                             <<Ret(I(0))>> >>
      [] kind = "branch" -> << <<Call(1, "in", <<>>), Call(2, other, <<V(1)>>), Br(2, 2, 3)>>,
                               <<Call(0, "out", <<I(1)>>), Jmp(4)>>, <<Call(0, "out", <<I(2)>>), Jmp(4)>>,
                               <<Ret(I(0))>> >>
      [] kind = "loop" -> << <<Alloca(1), Store(I(0), 1), Jmp(3)>>,
                             <<Load(2, 1), Call(3, other, <<V(2)>>), Call(0, "out", <<V(3)>>),
                               Load(4, 1), Bin("add", 5, V(4), I(1)), Store(V(5), 1), Jmp(3)>>,
                             <<Load(6, 1), Bin("lt", 7, V(6), I(2)), Br(7, 2, 4)>>,
                             <<Ret(I(0))>> >>
      [] kind = "leave" -> << <<Jmp(3)>>, <<Call(1, other, <<I(1)>>), Call(0, "out", <<V(1)>>), Jmp(4)>>,
                              <<Jmp(2)>>, <<Ret(I(0))>> >>

\* The function with its block ids moved up by n.
Moved(name, body, n) ==
    LET Arg(a) == IF a[1] = "b" THEN B(a[2] + n) ELSE a
        Inst(i) == [i EXCEPT !.args = [j \in DOMAIN @ |-> Arg(@[j])]]
    IN  [name |-> name, fast |-> NoFastPath,
         blocks |-> [b \in DOMAIN body |-> [id |-> b + n, insts |-> [i \in DOMAIN body[b] |-> Inst(body[b][i])]]]]

\* The module of functions <<name, kind, other>>, in that order.
Program(fs) ==
    LET BodyOf(k) == Body(fs[k][2], fs[k][1], fs[k][3])
        base[k \in 1..Len(fs)] == IF k = 1 THEN 0 ELSE base[k - 1] + Len(BodyOf(k - 1))
    IN  [k \in DOMAIN fs |-> Moved(fs[k][1], BodyOf(k), base[k])]

Orders(fs) == {[i \in DOMAIN fs |-> fs[p[i]]] : p \in {q \in [DOMAIN fs -> DOMAIN fs] : IsInjective(q)}}

\* A truth value is branched on, a function without a value called for its
\* effect; the recursion that does not end is not entered with a constant,
\* which would have the compiler at -O3 run it.
Fit(caller, helper) ==
    /\ caller = "branch" <=> helper = "one"
    /\ caller = "call" <=> helper = "say"
    /\ helper = "up" => caller = "print"

\* Two arguments to functions with two parameters.
FitInner(outer, inner) == outer = "two" <=> inner \in {"mix", "fact"}

Alone ==
    {Program(fs) : fs \in UNION {Orders(<< <<"princeps", p[1], "g">>, <<"g", p[2], "g">> >>) :
                                  p \in {q \in Callers \X Helpers : Fit(q[1], q[2])}}}

\* A function whose results are used in several blocks comes after princeps:
\* otherwise inlining leaves uses of undefined vregs (ir_builder.c:684).
InOrder(fs) == fs[1][1] = "princeps" \/ \A i \in DOMAIN fs : fs[i][2] # "keep"

Nested ==
    {Program(fs) : fs \in {os \in UNION {Orders(<< <<"princeps", c, "g">>, <<"g", p[1], "h">>, <<"h", p[2], "g">> >>) :
                                          c \in {"twice", "print"},
                                          p \in {q \in Outer \X Inner : FitInner(q[1], q[2])}} : InOrder(os)}}

Programs == Alone \cup Nested

=============================================================================
