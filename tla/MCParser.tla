------------------------------ MODULE MCParser ------------------------------
(***************************************************************************)
(* Files for Parser: accepted programs that together use every rule of the *)
(* grammar, each of them as it is and with every single token deleted,     *)
(* replaced or preceded by a spare one, and cut off before every token;    *)
(* and all expressions of two operators.                                   *)
(***************************************************************************)
EXTENDS ParserLanguage

MCIdents   == {"x", "y", "f"}
MCLiterals == {"1", "s"}

CONSTANT Spare    \* tokens put where they do not belong

Programs ==
  { <<"liber", "x", ";", "consule", "liber", "y", ";", "de", "y", "excerpe", "f", ",", "x", ";">>,
    <<"sit", "edita", "x", ":", "i32", "=", "1", ";", "lex", "y", "=", "x", ";">>,
    <<"sit", "x", ":", "f64", "i32", ";", "sit", "y", ":", "i8", "purus", ";">>,
    <<"sit", "x", ":", "acies", "[", "1", "]", "via", "y", ".", "x", ";">>,
    <<"imago", "x", "=", "cohors", "textus", ";", "ordo", "edita", "y", "{", "x", "=", "1", ",", "f", "}">>,
    <<"forma", "densa", "x", "{", "sit", "y", ":", "i8", "mica", "1", ";", "sit", "f", ":", "x", ";", "}">>,
    <<"unio", "edita", "y", "{", "sit", "x", ":", "i8", ";", "}", "sit", "x", "=", "1", ";">>,
    <<"actio", "barbara", "(", "s", ")", "f", "(", "x", ":", "via", "i8", ",", "etc", ")", "->", "nihil", ";">>,
    <<"actio", "edita", "f", "(", "x", ":", "i8", ",", "etc", "y", ":", "i8", ")", "{", "redde", "x", ";", "}">>,
    <<"actio", "f", "(", ")", "{", "redde", ";", "}", "actio", "x", "(", "etc", ")", ";">>,
    <<"si", "(", "x", ")", "si", "(", "y", ")", "rumpe", ";", "aliter", "perge", ";">>,
    <<"si", "(", "x", ")", "{", "morere", ";", "}", "aliter", "dum", "(", "y", ")", ";">>,
    <<"si", "(", "x", ")", "per", "(", ";", ";", ")", "si", "(", "y", ")", ";", "aliter", ";">>,
    <<"elige", "(", "x", ")", "{", "casus", "1", ",", "y", ":", "f", "(", ")", ";", "casus", "x", ":", "}">>,
    <<"elige", "(", "x", ")", "{", "casus", "1", ":", "aliter", ":", "x", "=", "y", ";", "}">>,
    <<"per", "(", "sit", "x", "=", "1", ";", "x", "<", "y", ";", "x", "+=", "1", ")", "{", "}">>,
    <<"per", "(", "x", "=", "1", ";", ";", ")", "{", "sali", "y", ";", "y", ":", "}">>,
    <<"x", "=", "muta", "(", "i8", ",", "y", ")", ";", "neca", "(", "x", ")", ";">>,
    <<"x", "=", "crea", "(", "i8", ",", "vade", "(", "x", ",", "1", ")", ")", ";">>,
    <<"x", "=", "crea", "(", "y", ")", "+", "magnitudo", "(", "via", "y", ")", ";">>,
    <<"lege", "(", "x", ")", ";", "scribe", "(", "s", ",", "x", "[", "y", "]", ")", ";">>,
    <<"x", ".", "y", "[", "1", "]", "->", "x", "=", "f", "(", "x", ",", "[", "y", "]", ")", ";">>,
    <<"x", "=", "y", "{", "x", ":", "1", ",", "y", ":", "{", "}", "}", ";">>,
    <<"tene", "x", "=", "-", "(", "x", "+", "y", ")", "*", "~", "y", "[", "1", "]", ";">>,
    <<"x", "=", "(", "y", "=", "x", ")", "-", "(", "y", "-", "1", ")", ";">>,
    <<"sit", "x", ":", "i8", "=", "recede", "(", "x", ",", "magnitudo", "(", "y", ")", ")", ";">> }

Operator(k) == CHOOSE o \in BinaryOps[k] : TRUE
TwoOperators ==
  LET ops == {Operator(k) : k \in Levels} \cup {"="}
  IN {<<"x", a, "y", b, "1", ";">> : a, b \in ops}

Before(t, i) == SubSeq(t, 1, i - 1)
From(t, i)   == SubSeq(t, i, Len(t))
Damaged(t) ==
  UNION {{ [tokens |-> Before(t, i), damage |-> i],
           [tokens |-> Before(t, i) \o From(t, i + 1), damage |-> i] }
         \cup {[tokens |-> Before(t, i) \o <<s>> \o From(t, i), damage |-> i] : s \in Spare}
         \cup {[tokens |-> Before(t, i) \o <<s>> \o From(t, i + 1), damage |-> i] : s \in Spare}
         : i \in 1 .. Len(t)}

MCTexts ==
  {[tokens |-> t, damage |-> 0] : t \in Programs}
    \cup {[tokens |-> t, damage |-> IF t[4] = "=" /\ t[2] # "=" THEN 4 ELSE 0] : t \in TwoOperators}
    \cup UNION {Damaged(t) : t \in Programs}
=============================================================================
