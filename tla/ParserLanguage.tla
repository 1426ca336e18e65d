--------------------------- MODULE ParserLanguage ---------------------------
(***************************************************************************)
(* What the parser accepts and what its trees stand for, compared with the *)
(* grammar.                                                                *)
(***************************************************************************)
EXTENDS Parser, Grammar

Holds(seq) == \E i \in 1 .. Len(Tokens) : IsPrefix(seq, SubSeq(Tokens, i, Len(Tokens)))
HowOften(k) == Cardinality({i \in DOMAIN Tokens : Tokens[i] = k})

\* A si without aliter before the aliter of an elige takes that aliter (see the
\* README), and the tree does not tell how often a modifier or the aliter of an
\* elige was written, nor whether it stood last.
NoCapture == ~(Holds(<<"si">>) /\ Holds(<<"aliter", ":">>))
WrittenOnce == /\ \A k \in {"edita", "densa", "barbara", "aliter"} : HowOften(k) <= 1
               /\ ~(Holds(<<"aliter", ":">>) /\ HowOften("casus") > 1)

\* The parser accepts a file exactly if the grammar derives it, whatever was
\* skipped or invented on the way (had_error, parse_program()).
AcceptsTheLanguage ==
  Finished /\ NoCapture => (reported = <<>> <=> InLanguage(Tokens))

\* The tree of an accepted file stands for all of the file: operators bind as
\* their levels say, an aliter belongs to the nearest si, nothing is dropped.
\* The tree written with the fewest parentheses is the file, or the file less
\* some of its parentheses.
NoParens(s) == SelectSeq(s, LAMBDA k : k \notin {"(", ")"})
TreesAreTheirText ==
  Finished /\ reported = <<>> /\ WrittenOnce =>
    LET w == Written(trees[1])
    IN \/ w = Tokens
       \/ Len(w) < Len(Tokens) /\ NoParens(w) = NoParens(Tokens)
=============================================================================
