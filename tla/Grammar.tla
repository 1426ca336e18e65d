------------------------------- MODULE Grammar -------------------------------
(***************************************************************************)
(* The language of Scorivm, stated without a parser: which sequences of    *)
(* tokens are programs (Rules, InLanguage), and which sequence of tokens a *)
(* syntax tree stands for (Written).  Nothing here follows the control of  *)
(* frontend/parser.c; Parser is compared with both.                        *)
(*                                                                         *)
(* A tree is a tuple: its kind, then what it is made of.                   *)
(***************************************************************************)
EXTENDS Lexemes

\* The operators that are not binary bind tighter.
Unary     == Len(BinaryOps) + 1
Postfix   == Unary + 1

(***************************************************************************)
(* A context-free grammar.  A symbol without rules is a token or one of    *)
(* the classes of Class.                                                   *)
(***************************************************************************)
Class == [ id |-> Idents, lit |-> Literals, base |-> BaseTypes, signed |-> Signed,
           unop |-> UnaryOps, assignop |-> AssignOps,
           binop |-> UNION {BinaryOps[k] : k \in Levels} ]

Rules ==
  [ declarations |-> {<<>>, <<"declaration", "declarations">>},
    declaration  |-> { <<"liber", "id", ";">>, <<"consule", "liber", "id", ";">>,
                       <<"de", "id", "excerpe", "ids", ";">>,
                       <<"sit", "variable", ";">>, <<"lex", "constant", ";">>,
                       <<"actio", "modifiers", "id", "(", "params", ")", "result", "body">>,
                       <<"forma", "packing", "id", "{", "fields", "}">>,
                       <<"unio", "packing", "id", "{", "fields", "}">>,
                       <<"imago", "export", "id", "=", "type", ";">>,
                       <<"ordo", "export", "id", "{", "variants", "}">>, <<"statement">> },
    ids          |-> {<<"id">>, <<"id", ",", "ids">>},
    export       |-> {<<>>, <<"edita">>},
    packing      |-> {<<>>, <<"edita", "packing">>, <<"densa", "packing">>},
    modifiers    |-> { <<>>, <<"edita", "modifiers">>, <<"barbara", "modifiers">>,
                       <<"barbara", "(", "s", ")", "modifiers">> },
    variable     |-> {<<"constant">>, <<"export", "id", ":", "type", "bits">>},
    bits         |-> {<<>>, <<"mica", "expression">>},
    constant     |-> { <<"export", "id", "=", "expression">>,
                       <<"export", "id", ":", "type", "=", "expression">> },
    params       |-> {<<>>, <<"param">>, <<"param", ",", "moreparams">>, <<"etc", "rest">>},
    moreparams   |-> {<<"param">>, <<"param", ",", "moreparams">>, <<"etc", "rest">>},
    rest         |-> {<<>>, <<"param">>},
    param        |-> {<<"id", ":", "type">>},
    result       |-> {<<>>, <<"->", "type">>},
    body         |-> {<<";">>, <<"block">>},
    block        |-> {<<"{", "declarations", "}">>},
    fields       |-> {<<>>, <<"sit", "variable", ";", "fields">>},
    variants     |-> {<<>>, <<"variant", "morevariants">>},
    morevariants |-> {<<>>, <<",", "variant", "morevariants">>},
    variant      |-> {<<"id">>, <<"id", "=", "expression">>},
    type         |-> { <<"via", "type">>, <<"cohors", "type">>,
                       <<"acies", "[", "expression", "]", "type">>, <<"base">>,
                       <<"signed", "purus">>, <<"f64", "i32">>, <<"id">>, <<"id", ".", "id">> },
    statement    |-> { <<"si", "(", "expression", ")", "statement", "otherwise">>,
                       <<"elige", "(", "expression", ")", "{", "arms", "}">>,
                       <<"dum", "(", "expression", ")", "statement">>,
                       <<"per", "(", "initial", "maybe", ";", "maybe", ")", "statement">>,
                       <<"rumpe", ";">>, <<"perge", ";">>, <<"morere", ";">>,
                       <<"sali", "id", ";">>, <<"redde", "maybe", ";">>,
                       <<"block">>, <<";">>, <<"noblock", "simple">> },
    otherwise    |-> {<<>>, <<"aliter", "statement">>},
    arms         |-> { <<>>, <<"casus", "expressions", ":", "declarations", "arms">>,
                       <<"aliter", ":", "declarations", "arms">> },
    initial      |-> {<<";">>, <<"sit", "variable", ";">>, <<"simple">>},
    maybe        |-> {<<>>, <<"expression">>},
    simple       |-> {<<"expression", ";">>, <<"label", ":">>},
    label        |-> {<<"id">>, <<"(", "label", ")">>},
    expressions  |-> {<<"expression">>, <<"expression", ",", "expressions">>},
    arguments    |-> {<<>>, <<"expressions">>},
    expression   |-> {<<"operation">>, <<"target", "assignop", "expression">>},
    operation    |-> {<<"unary">>, <<"unary", "binop", "operation">>},
    unary        |-> {<<"unop", "unary">>, <<"primary", "suffixes">>},
    suffixes     |-> { <<>>, <<"place", "suffixes">>, <<"(", "arguments", ")", "suffixes">>,
                       <<"{", "inits", "}", "suffixes">> },
    place        |-> {<<"[", "expression", "]">>, <<".", "id">>, <<"->", "id">>},
    target       |-> { <<"unop", "unary">>, <<"id">>, <<"primary", "suffixes", "place">>,
                       <<"(", "target", ")">> },
    primary      |-> { <<"lit">>, <<"id">>, <<"muta", "(", "type", ",", "expression", ")">>,
                       <<"vade", "(", "expression", ",", "expression", ")">>,
                       <<"recede", "(", "expression", ",", "expression", ")">>,
                       <<"crea", "(", "type", ")">>, <<"crea", "(", "type", ",", "expression", ")">>,
                       <<"neca", "(", "expression", ")">>, <<"magnitudo", "(", "type", ")">>,
                       <<"magnitudo", "(", "expression", ")">>, <<"scribe", "(", "arguments", ")">>,
                       <<"lege", "(", "arguments", ")">>, <<"[", "arguments", "]">>,
                       <<"{", "inits", "}">>, <<"(", "expression", ")">> },
    inits        |-> {<<>>, <<"init", "moreinits">>},
    moreinits    |-> {<<>>, <<",", "init", "moreinits">>},
    init         |-> {<<"id", ":", "expression">>} ]

\* Ends(t, s, i): where the strings of t that begin at i and that s derives may
\* end.  A statement that begins with a brace is a block: "noblock" derives the
\* empty string, before anything but a brace.
RECURSIVE Ends(_, _, _), Through(_, _, _)
Ends(t, s, i) ==
  CASE s \in DOMAIN Rules -> UNION {Through(t, r, {i}) : r \in Rules[s]}
    [] s = "noblock"      -> IF i <= Len(t) /\ t[i] # "{" THEN {i} ELSE {}
    [] OTHER              -> IF /\ i <= Len(t)
                                /\ t[i] \in (IF s \in DOMAIN Class THEN Class[s] ELSE {s})
                             THEN {i + 1} ELSE {}
Through(t, r, S) ==
  IF r = <<>> \/ S = {} THEN S
  ELSE Through(t, Tail(r), UNION {Ends(t, Head(r), i) : i \in S})

InLanguage(t) == Len(t) + 1 \in Ends(t, "declarations", 1)

(***************************************************************************)
(* What a tree stands for.                                                 *)
(***************************************************************************)
Level(t) ==
  CASE t[1] = "assign" -> 0
    [] t[1] = "binary" -> CHOOSE k \in Levels : t[2] \in BinaryOps[k]
    [] t[1] = "unary"  -> Unary
    [] OTHER           -> Postfix

\* A statement whose last part is a si without aliter takes an aliter that follows.
RECURSIVE EndsOpen(_)
EndsOpen(t) ==
  CASE t[1] = "si"               -> t[4] = <<"null">> \/ EndsOpen(t[4])
    [] t[1] \in {"dum", "per"}   -> EndsOpen(Last(t))
    [] OTHER                     -> FALSE

RECURSIVE Written(_), WrittenAt(_, _), WrittenList(_, _), WrittenMods(_)

\* An operand, in the parentheses its place requires.
WrittenAt(k, t) == IF Level(t) < k THEN <<"(">> \o Written(t) \o <<")">> ELSE Written(t)

\* The members of a list after each other with a separator.
WrittenList(l, sep) ==
  IF Len(l) = 1 THEN <<>>
  ELSE IF Len(l) = 2 THEN Written(l[2])
  ELSE WrittenList(SubSeq(l, 1, Len(l) - 1), sep) \o sep \o Written(Last(l))

Optional(intro, t) == IF t = <<"null">> THEN <<>> ELSE intro \o Written(t)

\* The modifiers of a declaration in a fixed order.
WrittenMods(m) ==
  SelectSeq(<<"barbara", "(", "s", ")", "densa", "edita">>,
            LAMBDA x : x \in m \/ ("dll" \in m /\ x \in {"(", "s", ")"}))

WrittenVariable(t) ==
  WrittenMods(t[2]) \o Written(t[3]) \o Optional(<<":">>, t[4]) \o Optional(<<"mica">>, t[5])
    \o Optional(<<"=">>, t[6]) \o <<";">>

WrittenType(t) ==
  CASE t[1] \in {"via", "cohors"} -> <<t[1]>> \o Written(t[2])
    [] t[1] = "acies"     -> <<"acies", "[">> \o Written(t[2]) \o <<"]">> \o Written(t[3])
    [] t[1] = "base"      -> CASE t[2] = "f32" -> <<"f64", "i32">>
                               [] t[2] \in BaseTypes -> <<t[2]>>
                               [] OTHER -> << [p8 |-> "i8", p16 |-> "i16", p32 |-> "i32",
                                               p64 |-> "i64"][t[2]], "purus" >>
    [] t[1] = "named"     -> Written(t[2])
    [] t[1] = "qualified" -> Written(t[2]) \o <<".">> \o Written(t[3])

WrittenExpression(t) ==
  CASE t[1] = "assign"  -> WrittenAt(1, t[3]) \o <<t[2]>> \o Written(t[4])
    [] t[1] = "binary"  -> WrittenAt(Level(t), t[3]) \o <<t[2]>> \o WrittenAt(Level(t) + 1, t[4])
    [] t[1] = "unary"   -> <<t[2]>> \o WrittenAt(Unary, t[3])
    [] t[1] = "call"    -> WrittenAt(Postfix, t[2]) \o <<"(">> \o WrittenList(t[3], <<",">>) \o <<")">>
    [] t[1] = "index"   -> WrittenAt(Postfix, t[2]) \o <<"[">> \o Written(t[3]) \o <<"]">>
    [] t[1] = "member"  -> WrittenAt(Postfix, t[3]) \o <<t[2]>> \o Written(t[4])
    [] t[1] = "struct"  -> (IF t[2] = <<"null">> THEN <<>> ELSE WrittenAt(Postfix, t[2]))
                             \o <<"{">> \o WrittenList(t[3], <<",">>) \o <<"}">>
    [] t[1] = "init"    -> Written(t[2]) \o <<":">> \o Written(t[3])
    [] t[1] = "array"   -> <<"[">> \o WrittenList(t[2], <<",">>) \o <<"]">>
    [] t[1] \in {"scribe", "lege"} -> <<t[1], "(">> \o WrittenList(t[2], <<",">>) \o <<")">>
    [] t[1] \in {"neca", "magnitudo"} -> <<t[1], "(">> \o Written(t[2]) \o <<")">>
    [] t[1] = "crea"    -> <<"crea", "(">> \o Written(t[2]) \o Optional(<<",">>, t[3]) \o <<")">>
    [] t[1] \in {"muta", "vade", "recede"} ->
         <<t[1], "(">> \o Written(t[2]) \o <<",">> \o Written(t[3]) \o <<")">>

WrittenStatement(t) ==
  CASE t[1] = "expr"    -> Optional(<<>>, t[2]) \o <<";">>
    [] t[1] = "label"   -> Written(t[2]) \o <<":">>
    [] t[1] = "block"   -> <<"{">> \o WrittenList(t[2], <<>>) \o <<"}">>
    [] t[1] = "si"      -> <<"si", "(">> \o Written(t[2]) \o <<")">> \o Written(t[3])
                             \o (IF t[4] # <<"null">> /\ EndsOpen(t[3]) THEN <<"?">> ELSE <<>>)
                             \o Optional(<<"aliter">>, t[4])
    [] t[1] = "elige"   -> <<"elige", "(">> \o Written(t[2]) \o <<")", "{">> \o WrittenList(t[3], <<>>)
                             \o Optional(<<"aliter", ":">>, t[4]) \o <<"}">>
    [] t[1] = "casus"   -> <<"casus">> \o WrittenList(t[2], <<",">>) \o <<":">> \o WrittenList(t[3], <<>>)
    [] t[1] = "arm"     -> WrittenList(t[2], <<>>)
    [] t[1] = "dum"     -> <<"dum", "(">> \o Written(t[2]) \o <<")">> \o Written(t[3])
    [] t[1] = "per"     -> <<"per", "(">> \o (IF t[2] = <<"null">> THEN <<";">> ELSE Written(t[2]))
                             \o Optional(<<>>, t[3]) \o <<";">> \o Optional(<<>>, t[4]) \o <<")">>
                             \o Written(t[5])
    [] t[1] \in {"rumpe", "perge", "morere"} -> <<t[1], ";">>
    [] t[1] = "sali"    -> <<"sali">> \o Written(t[2]) \o <<";">>
    [] t[1] = "redde"   -> <<"redde">> \o Optional(<<>>, t[2]) \o <<";">>

WrittenDeclaration(t) ==
  CASE t[1] = "liber"   -> <<"liber">> \o Written(t[2]) \o <<";">>
    [] t[1] = "consule" -> <<"consule", "liber">> \o Written(t[2]) \o <<";">>
    [] t[1] = "de"      -> <<"de">> \o Written(t[2]) \o <<"excerpe">> \o WrittenList(t[3], <<",">>) \o <<";">>
    [] t[1] = "sit"     -> <<"sit">> \o WrittenVariable(t)
    [] t[1] = "lex"     -> <<"lex">> \o WrittenVariable(t)
    [] t[1] \in {"forma", "unio"} ->
         <<t[1]>> \o WrittenMods(t[2]) \o Written(t[3]) \o <<"{">> \o WrittenList(t[4], <<>>) \o <<"}">>
    [] t[1] = "imago"   -> <<"imago">> \o WrittenMods(t[2]) \o Written(t[3]) \o <<"=">> \o Written(t[4]) \o <<";">>
    [] t[1] = "ordo"    -> <<"ordo">> \o WrittenMods(t[2]) \o Written(t[3]) \o <<"{">>
                             \o WrittenList(t[4], <<",">>) \o <<"}">>
    [] t[1] = "variant" -> Written(t[2]) \o Optional(<<"=">>, t[3])
    [] t[1] = "actio"   -> <<"actio">> \o WrittenMods(t[2]) \o Written(t[3]) \o <<"(">>
                             \o WrittenList(t[4], <<",">>) \o <<")">> \o Optional(<<"->">>, t[5])
                             \o (IF t[6] = <<"null">> THEN <<";">> ELSE Written(t[6]))
    [] t[1] = "param"   -> Written(t[2]) \o <<":">> \o Written(t[3])
    [] t[1] = "etc"     -> <<"etc">> \o Optional(<<>>, t[2])

Written(t) ==
  CASE t[1] \in {"name", "id", "lit"} -> <<t[2]>>
    [] t[1] \in {"via", "cohors", "acies", "base", "named", "qualified"} -> WrittenType(t)
    [] t[1] \in {"assign", "binary", "unary", "call", "index", "member", "struct", "init", "array",
                 "scribe", "lege", "neca", "magnitudo", "crea", "muta", "vade", "recede"} ->
         WrittenExpression(t)
    [] t[1] \in {"expr", "label", "block", "si", "elige", "casus", "arm", "dum", "per", "rumpe",
                 "perge", "morere", "sali", "redde"} -> WrittenStatement(t)
    [] t[1] = "program" -> WrittenList(t[2], <<>>)
    [] OTHER            -> WrittenDeclaration(t)
=============================================================================
