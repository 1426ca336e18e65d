------------------------------- MODULE Lexemes -------------------------------
(***************************************************************************)
(* The tokens of Scorivm.  A token is a string, its lexeme; the lexemes of *)
(* a class stand for the class.                                            *)
(***************************************************************************)
EXTENDS Integers, Sequences, FiniteSets, SequencesExt

CONSTANTS Idents,     \* lexemes of identifiers
          Literals    \* lexemes of literals; "s" is the text literal

\* Types with a longer form, as p8 for i8 purus, are left out.
Signed    == {"i8", "i16", "i32", "i64"}
BaseTypes == Signed \cup {"f64", "logica", "littera", "textus", "nihil"}
UnaryOps  == {"-", "!", "~", "locus", "tene"}
AssignOps == {"=", "+=", "-=", "*=", "/=", "%=", "&=", "|=", "^=", "<<=", ">>="}

\* The binary operators from the loosest to the tightest.
BinaryOps == << {"||"}, {"&&"}, {"==", "!="}, {">", ">=", "<", "<="}, {"|"}, {"^"},
                {"&"}, {"<<", ">>"}, {"+", "-"}, {"*", "/", "%"} >>
Levels    == 1 .. Len(BinaryOps)
=============================================================================
