------------------------------- MODULE Parser -------------------------------
(***************************************************************************)
(* The recursive-descent parser (frontend/parser.c), one file.             *)
(*                                                                         *)
(* The C stack of the parser is todo: what the active functions still have *)
(* to do, the innermost first.  An item is a tuple: a function to call, a  *)
(* token to consume, a loop at its test, a node to make.  Finished nodes   *)
(* and the lists being filled lie on trees.  One action is the code of one *)
(* function, or of one turn of its loop, up to the next call.              *)
(* Left out: the type names that have a longer form (p8, f32 ...), the      *)
(* positions of tokens in nodes.                                           *)
(***************************************************************************)
EXTENDS Lexemes

CONSTANTS Texts     \* records [tokens, damage]; damage is the first token that is
                    \* not as in an accepted program, or 0

\* The end of the file is no token of it (TK_EOF, lexer.c).
ASSUME TextsAssumption ==
  \A t \in Texts : /\ t.tokens \in Seq(STRING)
                    /\ \A i \in DOMAIN t.tokens : t.tokens[i] # "eof"

VARIABLES text,     \* the tokens of the file; "?" is a symbol unknown to the lexer
          pos,      \* where parser->current is; Len(text) + 1 is TK_EOF
          prev,     \* parser->previous
          todo, trees,
          panic,    \* parser->panic_mode
          reported  \* where errors were reported; had_error is reported # <<>>

vars == <<text, pos, prev, todo, trees, panic, reported>>

Tokens  == text.tokens
Current == IF pos <= Len(Tokens) THEN Tokens[pos] ELSE "eof"

-----------------------------------------------------------------------------
(* The cursor and errors. *)

\* The next token the lexer knows; at the end of the file there is only TK_EOF.
After(i) == Min({j \in i + 1 .. Len(Tokens) : Tokens[j] # "?"} \cup {Len(Tokens) + 1})

\* error_at(): silent in panic mode.
Report(at) ==
  /\ panic' = TRUE
  /\ reported' = IF panic THEN reported ELSE Append(reported, at)

\* advance(): every unknown symbol on the way is an error.
Advance ==
  /\ prev' = Current
  /\ pos' = After(pos)
  /\ IF After(pos) > pos + 1 THEN Report(pos + 1) ELSE UNCHANGED <<panic, reported>>

Continue(items) == todo' = items \o Tail(todo)
Take(items)     == Advance /\ Continue(items)
Go(items)       == UNCHANGED <<pos, prev, panic, reported>> /\ Continue(items)
Fail(items)     == UNCHANGED <<pos, prev>> /\ Report(pos) /\ Continue(items)

Push(t)    == trees' = Append(trees, t)
Replace(t) == trees' = Append(Front(trees), t)
Keep       == UNCHANGED trees

-----------------------------------------------------------------------------
(* Items. *)

Do == IF todo = <<>> THEN "nothing" ELSE Head(todo)[1]
Of(i) == Head(todo)[i]

C(k)           == <<"consume", k>>
Name           == <<"name">>
Put(t)         == <<"put", t>>
EmptyList      == Put(<<"list">>)
Nil            == Put(<<"null">>)
Add            == <<"add">>                 \* the top of trees joins the list below it
Make(head, n)  == <<"make", head, n>>       \* the n topmost become one node
Option(k, s)   == <<"option", k, s>>        \* if (match(k)) s; else NULL
Unless(k, s)   == <<"unless", k, s>>        \* if (!check(k)) s; else NULL
Comma(s)       == <<"comma", s>>            \* while (match(TK_COMMA)) s
ListUntil(k,s) == <<"listUntil", k, s>>     \* if (!check(k)) do s while (match(TK_COMMA))
Loop(stops)    == <<"loop", stops>>         \* declarations up to one of stops
Expression     == <<"expression">>
Statement      == <<"statement">>
Type           == <<"type">>
Variable(kind) == <<"variable", kind>>
Export         == <<"modifiers", {"edita"}, {}>>

Exprs(close) == <<EmptyList, ListUntil(close, <<Expression, Add>>), C(close)>>
Inits        == <<EmptyList, ListUntil("}", <<Name, C(":"), Expression, Make(<<"init">>, 2), Add>>), C("}")>>
Parens(items) == <<C("(")>> \o items \o <<C(")")>>
BlockBody    == <<EmptyList, Loop({"}", "eof"}), C("}"), Make(<<"block">>, 1)>>

Consume ==
  /\ Do = "consume" /\ Keep
  /\ IF Current = Of(2) THEN Take(<<>>) ELSE Fail(<<>>)

\* consume(TK_IDENTIFIER), then parser->previous whatever it is.
TakeName ==
  /\ Do = "name"
  /\ IF Current \in Idents THEN Take(<<>>) /\ Push(<<"name", Current>>)
                           ELSE Fail(<<>>) /\ Push(<<"name", prev>>)

PutTree == Do = "put" /\ Go(<<>>) /\ Push(Of(2))

AddToList ==
  /\ Do = "add" /\ Go(<<>>)
  /\ LET n == Len(trees) IN trees' = Append(SubSeq(trees, 1, n - 2), Append(trees[n - 1], trees[n]))

MakeNode ==
  /\ Do = "make" /\ Go(<<>>)
  /\ LET n == Len(trees) - Of(3)
     IN trees' = Append(SubSeq(trees, 1, n), Of(2) \o SubSeq(trees, n + 1, Len(trees)))

Optionally ==
  /\ Do = "option" /\ Keep
  /\ IF Current = Of(2) THEN Take(Of(3)) ELSE Go(<<Nil>>)

\* A fault: redde and the parts of per always have an expression
ExpressionAlways ==
  /\ Do = "unless" /\ Keep /\ Go(Of(3))

UnlessToken ==
  /\ Do = "unless" /\ Keep
  /\ Go(IF Current = Of(2) THEN <<Nil>> ELSE Of(3))

Separated ==
  /\ Do \in {"comma", "listUntil"} /\ Keep
  /\ IF Do = "comma"
     THEN IF Current = "," THEN Take(Append(Of(2), Comma(Of(2)))) ELSE Go(<<>>)
     ELSE Go(IF Current = Of(2) THEN <<>> ELSE Append(Of(3), Comma(Of(3))))

-----------------------------------------------------------------------------
(* Types. *)

ParseType ==
  /\ Do = "type"
  /\ \/ /\ Current \in {"via", "cohors"} /\ Keep
        /\ Take(<<Type, Make(<<Current>>, 1)>>)
     \/ /\ Current = "acies" /\ Keep
        /\ Take(<<C("["), Expression, C("]"), Type, Make(<<"acies">>, 2)>>)
     \/ /\ Current \in BaseTypes /\ Take(<<<<"affix">>>>) /\ Push(<<"base", Current>>)
     \/ /\ Current \in Idents /\ Take(<<<<"qualifier">>>>) /\ Push(<<"name", Current>>)
     \/ /\ Current \notin {"via", "cohors", "acies"} \cup BaseTypes \cup Idents
        /\ Fail(<<>>) /\ Push(<<"base", "none">>)

Qualifier ==
  /\ Do = "qualifier" /\ Keep
  /\ IF Current = "." THEN Take(<<Name, Make(<<"qualified">>, 2), <<"affix">>>>)
                      ELSE Go(<<Make(<<"named">>, 1), <<"affix">>>>)

\* medius purus is p32, fractus medius is f32; the error is reported behind purus.
Affix ==
  /\ Do = "affix"
  /\ LET t == Last(trees)
         purus == [i8 |-> "p8", i16 |-> "p16", i32 |-> "p32", i64 |-> "p64"]
     IN \/ /\ Current = "purus" /\ t[1] = "base" /\ t[2] \in Signed
           /\ Take(<<>>) /\ Replace(<<"base", purus[t[2]]>>)
        \/ /\ Current = "purus" /\ ~(t[1] = "base" /\ t[2] \in Signed) /\ Keep
           /\ prev' = Current /\ pos' = After(pos) /\ Report(pos + 1) /\ Continue(<<>>)
        \/ /\ t = <<"base", "f64">> /\ Current = "i32"
           /\ Take(<<>>) /\ Replace(<<"base", "f32">>)
        \/ /\ Current # "purus" /\ ~(t = <<"base", "f64">> /\ Current = "i32")
           /\ Go(<<>>) /\ Keep

-----------------------------------------------------------------------------
(* Expressions. *)

\* A fault: whatever is left of the operator may be assigned to
AnyPlace == {"id", "member", "index", "unary", "call", "binary", "assign", "lit"}

Places == {"id", "member", "index", "unary"}

Ladder(k) == <<<<"unaries">>, <<"loops", Len(BinaryOps), k>>>>

Assignment ==
  /\ Do = "expression" /\ Keep
  /\ Go(Append(Ladder(1), <<"assigns">>))

Assigns ==
  /\ Do = "assigns" /\ Keep
  /\ IF Current \in AssignOps THEN Take(<<Expression, <<"assign", Current, pos>>>>) ELSE Go(<<>>)

\* The target is only looked at after the value; the error points at the operator.
MakeAssignment ==
  /\ Do = "assign"
  /\ LET n == Len(trees) IN
     \/ /\ trees[n - 1][1] \in Places
        /\ Go(<<Make(<<"assign", Of(2)>>, 2)>>) /\ Keep
     \/ /\ trees[n - 1][1] \notin Places
        /\ UNCHANGED <<pos, prev>> /\ Report(Of(3)) /\ Continue(<<>>)
        /\ trees' = SubSeq(trees, 1, n - 1)

\* A fault: the right operand is parsed by the same function: right associative
RightAssociative ==
  /\ Do = "loops" /\ Keep
  /\ \/ \E i \in Of(3) .. Of(2) :
          /\ Current \in BinaryOps[i]
          /\ Take(Ladder(i) \o <<Make(<<"binary", Current>>, 2), <<"loops", i, Of(3)>>>>)
     \/ /\ \A i \in Of(3) .. Of(2) : Current \notin BinaryOps[i]
        /\ Go(<<>>)

\* The functions logic_or() to factor(): each is a loop around the next tighter one.
\* <<"loops", j, k>>: the loops of the levels j down to k are at their tests.  A loop
\* without an operator of its own returns to the loop outside of it.
BinaryLoops ==
  /\ Do = "loops" /\ Keep
  /\ \/ \E i \in Of(3) .. Of(2) :
          /\ Current \in BinaryOps[i]
          /\ Take(Ladder(i + 1) \o <<Make(<<"binary", Current>>, 2), <<"loops", i, Of(3)>>>>)
     \/ /\ \A i \in Of(3) .. Of(2) : Current \notin BinaryOps[i]
        /\ Go(<<>>)

UnaryOperator ==
  /\ Do = "unaries" /\ Keep
  /\ IF Current \in UnaryOps THEN Take(<<<<"unaries">>, Make(<<"unary", Current>>, 1)>>)
                             ELSE Go(<<<<"primary">>, <<"suffixes">>>>)

PostfixLoop ==
  /\ Do = "suffixes" /\ Keep
  /\ \/ /\ Current = "(" /\ Take(Exprs(")") \o <<Make(<<"call">>, 2), <<"suffixes">>>>)
     \/ /\ Current = "["
        /\ Take(<<Expression, C("]"), Make(<<"index">>, 2), <<"suffixes">>>>)
     \/ /\ Current \in {".", "->"}
        /\ Take(<<Name, Make(<<"member", Current>>, 2), <<"suffixes">>>>)
     \/ /\ Current = "{" /\ Take(Inits \o <<Make(<<"struct">>, 2), <<"suffixes">>>>)
     \/ /\ Current \notin {"(", "[", ".", "->", "{"} /\ Go(<<>>)

\* The builtins with a fixed form: what follows the keyword.
Builtin(k) ==
  CASE k = "muta"               -> Parens(<<Type, C(","), Expression>>) \o <<Make(<<k>>, 2)>>
    [] k \in {"vade", "recede"} -> Parens(<<Expression, C(","), Expression>>) \o <<Make(<<k>>, 2)>>
    [] k = "crea"               -> Parens(<<Type, Option(",", <<Expression>>)>>) \o <<Make(<<k>>, 2)>>
    [] k = "neca"               -> Parens(<<Expression>>) \o <<Make(<<k>>, 1)>>
    [] k = "magnitudo"          -> Parens(<<<<"sizeof">>>>) \o <<Make(<<k>>, 1)>>
    [] k \in {"scribe", "lege"} -> <<C("(")>> \o Exprs(")") \o <<Make(<<k>>, 1)>>
Builtins == {"muta", "vade", "recede", "crea", "neca", "magnitudo", "scribe", "lege"}

Primary ==
  /\ Do = "primary"
  /\ \/ /\ Current \in Literals /\ Take(<<>>) /\ Push(<<"lit", Current>>)
     \/ /\ Current \in Idents /\ Take(<<>>) /\ Push(<<"id", Current>>)
     \/ /\ Current \in Builtins /\ Take(Builtin(Current)) /\ Keep
     \/ /\ Current = "[" /\ Take(Append(Exprs("]"), Make(<<"array">>, 1))) /\ Keep
     \/ /\ Current = "{" /\ Take(<<Nil>> \o Inits \o <<Make(<<"struct">>, 2)>>) /\ Keep
     \/ /\ Current = "(" /\ Take(<<Expression, C(")")>>) /\ Keep
     \/ /\ Current \notin Literals \cup Idents \cup Builtins \cup {"[", "{", "("}
        /\ Fail(<<>>) /\ Push(<<"null">>)

\* magnitudo of a type that begins with a keyword; a name is parsed as an expression.
SizeOf ==
  /\ Do = "sizeof" /\ Keep
  /\ Go(IF Current \in {"via", "cohors", "acies"} \cup BaseTypes THEN <<Type>> ELSE <<Expression>>)

-----------------------------------------------------------------------------
(* Statements. *)

\* expression_statement(): a name before a colon is a label.
ExpressionStatement == <<Expression, <<"endExpression">>>>
EndExpression ==
  /\ Do = "endExpression"
  /\ IF Last(trees)[1] = "id" /\ Current = ":"
     THEN Take(<<>>) /\ Replace(<<"label", Last(trees)>>)
     ELSE Go(<<C(";"), Make(<<"expr">>, 1)>>) /\ Keep

\* What follows the keyword of a statement.
Form(k) ==
  CASE k = "si"    -> Parens(<<Expression>>) \o <<Statement, Option("aliter", <<Statement>>), Make(<<k>>, 3)>>
    [] k = "elige" -> Parens(<<Expression>>) \o <<C("{"), EmptyList, Nil, <<"cases">>, C("}"), Make(<<k>>, 3)>>
    [] k = "dum"   -> Parens(<<Expression>>) \o <<Statement, Make(<<k>>, 2)>>
    [] k = "per"   -> Parens(<<<<"initial">>, Unless(";", <<Expression>>), C(";"), Unless(")", <<Expression>>)>>)
                        \o <<Statement, Make(<<k>>, 4)>>
    [] k = "sali"  -> <<Name, C(";"), Make(<<k>>, 1)>>
    [] k = "redde" -> <<Unless(";", <<Expression>>), C(";"), Make(<<k>>, 1)>>
    [] k \in {"rumpe", "perge", "morere"} -> <<C(";"), Make(<<k>>, 0)>>
    [] k = "{"     -> BlockBody
    [] k = ";"     -> <<Put(<<"expr", <<"null">>>>)>>
Forms == {"si", "elige", "dum", "per", "sali", "redde", "rumpe", "perge", "morere", "{", ";"}

ParseStatement ==
  /\ Do = "statement" /\ Keep
  /\ IF Current \in Forms THEN Take(Form(Current)) ELSE Go(ExpressionStatement)

Initial ==
  /\ Do = "initial" /\ Keep
  /\ \/ Current = ";" /\ Take(<<Nil>>)
     \/ Current = "sit" /\ Take(<<Variable("sit")>>)
     \/ Current \notin {";", "sit"} /\ Go(ExpressionStatement)

\* The body of elige: cond, cases and default_branch are the top of trees.
ArmEnds == {"casus", "aliter", "}", "eof"}
Cases ==
  /\ Do = "cases" /\ Keep
  /\ \/ /\ Current = "casus"
        /\ Take(<< EmptyList, Expression, Add, Comma(<<Expression, Add>>), C(":"), EmptyList, Loop(ArmEnds),
                   Make(<<"casus">>, 2), <<"addCase">>, <<"cases">> >>)
     \/ /\ Current = "aliter"
        /\ Take(<< C(":"), EmptyList, Loop(ArmEnds), Make(<<"arm">>, 1), <<"setDefault">>, <<"cases">> >>)
     \/ Current \in {"}", "eof"} /\ Go(<<>>)
     \/ /\ Current \notin ArmEnds
        /\ prev' = Current /\ pos' = After(pos) /\ Report(pos) /\ Continue(<<<<"cases">>>>)

EndArm ==
  /\ Do \in {"addCase", "setDefault"} /\ Go(<<>>)
  /\ LET n == Len(trees) IN
     trees' = IF Do = "addCase"
              THEN SubSeq(trees, 1, n - 3) \o <<Append(trees[n - 2], trees[n]), trees[n - 1]>>
              ELSE SubSeq(trees, 1, n - 2) \o <<trees[n]>>

\* The loop of parse_program(), block_statement() and the arms of elige.  A call of
\* declaration() that did not move the cursor is followed by an advance().
Declarations ==
  /\ Do = "loop" /\ Keep
  /\ IF Current \in Of(2) THEN Go(<<>>)
     ELSE Go(<<<<"declaration">>, <<"recover">>, Add, <<"landed", pos>>, Head(todo)>>)

\* A fault: nothing moves the cursor past what no declaration begins with
NeverForced == Do = "landed" /\ Keep /\ Go(<<>>)

Landed ==
  /\ Do = "landed" /\ Keep
  /\ IF pos = Of(2) THEN Take(<<>>) ELSE Go(<<>>)

-----------------------------------------------------------------------------
(* Declarations. *)

\* var_declaration()
ParseVariable ==
  /\ Do = "variable" /\ Keep
  /\ Go(<<Export, Name, Option(":", <<Type>>), Option("mica", <<Expression>>), <<"value", Of(2)>>,
          <<"typed">>, C(";"), Make(<<Of(2)>>, 5)>>)

Value ==
  /\ Do = "value" /\ Keep
  /\ \/ Current = "=" /\ Take(<<Expression>>)
     \/ Current # "=" /\ Of(2) = "lex" /\ Fail(<<Nil>>)
     \/ Current # "=" /\ Of(2) # "lex" /\ Go(<<Nil>>)

\* Neither a type nor a value.
Typed ==
  /\ Do = "typed" /\ Keep
  /\ IF Last(trees)[1] = "null" /\ trees[Len(trees) - 2][1] = "null" THEN Fail(<<>>) ELSE Go(<<>>)

\* <<"modifiers", allowed, found>>: a loop, except where only edita is allowed.
\* <<"dll", allowed, found>>: behind barbara.
Modifiers ==
  /\ Do = "modifiers"
  /\ \/ /\ Current \in Of(2) /\ Keep
        /\ Take(<< <<IF Current = "barbara" THEN "dll" ELSE "modifiers",
                    IF Of(2) = {"edita"} THEN {} ELSE Of(2), Of(3) \cup {Current}>> >>)
     \/ Current \notin Of(2) /\ Go(<<>>) /\ Push(Of(3))

Dll ==
  /\ Do = "dll" /\ Keep
  /\ IF Current = "("
     THEN Take(<<C("s"), C(")"), <<"modifiers", Of(2), Of(3) \cup {"dll"}>>>>)
     ELSE Go(<< <<"modifiers", Of(2), Of(3)>> >>)

\* The parameters of func_declaration(); Of(2) is is_variadic.  is_native_variadic
\* is the name behind etc.
Parameter(etc) == <<Name, C(":"), Type, Make(<<"param">>, 2)>> \o etc \o <<Add>>
Params ==
  /\ Do = "params" /\ Keep
  /\ \/ Of(2) /\ Fail(<<>>)
     \/ ~Of(2) /\ Current = "etc" /\ Take(<<<<"etc">>>>)
     \/ ~Of(2) /\ Current # "etc" /\ Go(Append(Parameter(<<>>), <<"moreParams", FALSE>>))
Etc ==
  /\ Do = "etc" /\ Keep
  /\ Go(IF Current = ")" THEN <<Put(<<"etc", <<"null">>>>), Add>>
        ELSE Append(Parameter(<<Make(<<"etc">>, 1)>>), <<"moreParams", TRUE>>))
MoreParams ==
  /\ Do = "moreParams" /\ Keep
  /\ IF Current = "," THEN Take(<<<<"params", Of(2)>>>>) ELSE Go(<<>>)
FirstParam ==
  /\ Do = "firstParam" /\ Keep
  /\ Go(IF Current = ")" THEN <<>> ELSE <<<<"params", FALSE>>>>)
Body ==
  /\ Do = "body" /\ Keep
  /\ IF Current = ";" THEN Take(<<Nil>>) ELSE Go(<<C("{")>> \o BlockBody)

\* The fields of struct_declaration() and union_declaration().
Fields ==
  /\ Do = "fields" /\ Keep
  /\ \/ Current = "sit" /\ Take(<<Variable("sit"), Add, <<"fields">>>>)
     \/ Current \in {"}", "eof"} /\ Go(<<>>)
     \/ /\ Current \notin {"sit", "}", "eof"}
        /\ prev' = Current /\ pos' = After(pos) /\ Report(pos) /\ Continue(<<<<"fields">>>>)

\* What follows the keyword of a declaration.
Declared(k) ==
  CASE k = "liber"   -> <<Name, C(";"), Make(<<k>>, 1)>>
    [] k = "consule" -> <<C("liber"), Name, C(";"), Make(<<k>>, 1)>>
    [] k = "de"      -> <<Name, C("excerpe"), EmptyList, Name, Add, Comma(<<Name, Add>>), C(";"), Make(<<k>>, 2)>>
    [] k \in {"sit", "lex"}    -> <<Variable(k)>>
    [] k = "actio"   -> << <<"modifiers", {"edita", "barbara"}, {}>>, Name, C("("), EmptyList, <<"firstParam">>,
                           C(")"), Option("->", <<Type>>), <<"body">>, Make(<<k>>, 5) >>
    [] k \in {"forma", "unio"} -> << <<"modifiers", {"edita", "densa"}, {}>>, Name, C("{"), EmptyList,
                                     <<"fields">>, C("}"), Make(<<k>>, 3) >>
    [] k = "imago"   -> <<Export, Name, C("="), Type, C(";"), Make(<<k>>, 3)>>
    [] k = "ordo"    -> << Export, Name, C("{"), EmptyList,
                           ListUntil("}", <<Name, Option("=", <<Expression>>), Make(<<"variant">>, 2), Add>>),
                           C("}"), Make(<<k>>, 3) >>
Keywords == {"liber", "consule", "de", "sit", "lex", "actio", "forma", "unio", "imago", "ordo"}

Declaration ==
  /\ Do = "declaration" /\ Keep
  /\ IF Current \in Keywords THEN Take(Declared(Current)) ELSE Go(<<Statement>>)

\* The end of declaration(): one turn of the loop of synchronize().
SyncTokens == {"actio", "sit", "lex", "forma", "unio", "liber", "consule", "si", "dum", "per", "redde", "sali"}

\* A fault: the search for the next declaration does not stop at the end of the file
SynchronizePastEnd ==
  /\ Do = "recover" /\ Keep
  /\ \/ ~panic /\ Go(<<>>)
     \/ /\ panic /\ (prev = ";" \/ Current \in SyncTokens)
        /\ panic' = FALSE /\ UNCHANGED <<pos, prev, reported>> /\ Continue(<<>>)
     \/ /\ panic /\ prev # ";" /\ Current \notin SyncTokens
        /\ Take(<<<<"recover">>>>)

Synchronize ==
  /\ Do = "recover" /\ Keep
  /\ \/ ~panic /\ Go(<<>>)
     \/ /\ panic /\ (Current = "eof" \/ prev = ";" \/ Current \in SyncTokens)
        /\ panic' = FALSE /\ UNCHANGED <<pos, prev, reported>> /\ Continue(<<>>)
     \/ /\ panic /\ Current # "eof" /\ prev # ";" /\ Current \notin SyncTokens
        /\ Take(<<<<"recover">>>>)

-----------------------------------------------------------------------------
\* parser_init() and the call of parse_program()
Init ==
  /\ text \in Texts
  /\ pos = After(0) /\ prev = "none"
  /\ panic = (After(0) > 1) /\ reported = (IF After(0) > 1 THEN <<1>> ELSE <<>>)
  /\ todo = <<EmptyList, Loop({"eof"}), Make(<<"program">>, 1)>> /\ trees = <<>>

Step ==
  \/ Consume \/ TakeName \/ PutTree \/ AddToList \/ MakeNode \/ Optionally \/ UnlessToken \/ Separated
  \/ ParseType \/ Qualifier \/ Affix
  \/ Assignment \/ Assigns \/ MakeAssignment \/ BinaryLoops \/ UnaryOperator \/ PostfixLoop \/ Primary \/ SizeOf
  \/ EndExpression \/ ParseStatement \/ Initial \/ Cases \/ EndArm \/ Declarations \/ Landed
  \/ ParseVariable \/ Value \/ Typed \/ Modifiers \/ Dll \/ Params \/ Etc \/ MoreParams \/ FirstParam \/ Body
  \/ Fields \/ Declaration \/ Synchronize

Finished == todo = <<>>
Done == Finished /\ UNCHANGED vars
Next == Done \/ (Step /\ UNCHANGED text)

Spec == Init /\ [][Next]_vars /\ WF_vars(Next)

-----------------------------------------------------------------------------
(* Correctness. *)

\* One token of lookahead is enough: up to the first token that is not as in
\* some accepted program, no error is reported (error_at(), consume()).
NoErrorBeforeTheDamage ==
  reported # <<>> => text.damage > 0 /\ reported[1] >= text.damage

\* synchronize() may return where the error was, right behind a semicolon, and the
\* next declaration then fails at the same token.  Not a third one: the loop around
\* them moves on.  The end of the file fails every open brace.
NoErrorThrice ==
  \A i \in 1 .. Len(reported) - 1 :
    /\ reported[i] <= reported[i + 1]
    /\ i + 2 <= Len(reported) /\ reported[i] <= Len(Tokens) => reported[i] < reported[i + 2]

\* The parser returns, however broken the file is: each turn of a loop that does
\* not end takes a token (parser.c:568, :1107).
Finishes == <>Finished
=============================================================================
