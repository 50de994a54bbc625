------------------------------ MODULE MCParser ------------------------------
EXTENDS Parser, Grammar

(***************************************************************************)
(* The source files: the sentences below, which between them use every     *)
(* rule of the grammar, and whatever one edit makes of them; every way to  *)
(* put four operators between five operands; and every short file.         *)
(***************************************************************************)
Sentences == {
  <<"(", "prog", "x", "y", ":-", "1", "nl", "z", ":-", "x", "+", "1", ";",
    "A", ")", "nl", "(", "prog", "A", ":-", "A", ")">>,
  <<"(", "load", "x", ")", ";", "(", "prog", "x", "y", ")">>,
  <<"(", "prog", "x", ":-", "(", "if", "x", "then", "y", "nl", "else", "if",
    "z", "then", "1", "else", "ref", "x", ")", ")">>,
  <<"(", "prog", "x", ":-", "(", "case", "x", "of", "1", ",", "y", "nl", ":",
    "z", "nl", "none", ":", "y", ";", ")", ")">>,
  <<"(", "prog", "x", ":-", "(", "catch", "x", "nl", "y", ";", "z", "also",
    "y", ")", ")">>,
  <<"(", "prog", "x", ":-", "(", "for", "x", "y", ",", "z", "nl", "in", "y",
    ",", "z", "nl", "do", "x", ")", ")">>,
  <<"(", "prog", "x", ":-", "(", "for", "x", "do", "y", ")", "+", "(", "in",
    "x", "do", "y", "nl", ")", ")">>,
  <<"(", "prog", "x", ":-", "(", "form", "(", "x", "y", ",", "z", ")", "x",
    "nl", ":", "y", ";", "z", ")", ")">>,
  <<"(", "prog", "x", ":-", "gen", "(", "x", "y", ")", "gen", "(", "x", "z",
    ")", "form", "(", "x", ")", "y", ")">>,
  <<"(", "prog", "x", ":-", "(", "gen", "(", "x", "y", ")", "form", "(", "x",
    "z", ")", "nl", "y", ":", "x", ")", ")">>,
  <<"(", "prog", "x", ":-", "(", "proc", "(", ")", "x", "nl", ":", "(",
    "past", "y", ")", "nl", ")", ")">>,
  <<"(", "prog", "x", ":-", "(", "proc", "(", "x", "y", ")", "z", ")", "nl",
    "y", "tuple", ":-", "z", ")">>,
  <<"(", "prog", "x", ":-", "(", "tuple", "x", "y", ",", "z", ")", "@", ".",
    "y", "(", "ref", "x", ",", "1", ":", "y", ")", ")">>,
  <<"(", "prog", "x", ":-", "(", "with", "x", ":-", "1", "nl", "y", "z", ";",
    "do", "x", ":=", "y", ")", ")">>,
  <<"(", "prog", "x", ":-", "(", "while", "x", "nl", "do", "y", ";", ")",
    "nl", "y", ":-", "(", "while", "z", ")", ")">>,
  <<"(", "prog", "x", ":-", "(", "alt", "x", "nl", ",", "y", ")", "{", "x",
    ":", "}", "[", "y", ",", "z", "]", ")">>,
  <<"(", "prog", "x", ":-", "{", "x", "}", "nl", "[", "y", ",", "z", "]",
    "nl", "not", "x", "(", ":", "z", ")", ")">>,
  <<"(", "prog", "x", ":-", "(", "alts", ")", "*", "?h", "(", "x", "nl", ")",
    "nl", "y", ":-", "(", ":", "x", ")", ")">>,
  <<"(", "prog", "x", ":-", "not", "x", "or", "y", "and", "z", "<", "-", "1",
    ">", "x", "*", "y", "|", "z", "+=", "(", "x", ";", "y", ")", ")">>}

Edits == {"x", "1", "A", "+", "*", "<", "and", "or", ":=", "|", "not", "none", "(",
          ")", "[", "}", ",", ":", ":-", ";", "nl", "illegal", "@", ".", "form",
          "gen", "if", "else", "do", "of", "in", "also", "prog"}

Places == 1 .. 30

Edited(s, edit, i, t) ==
  CASE edit = "replace" /\ i \in DOMAIN s         -> [s EXCEPT ![i] = t]
    [] edit = "insert" /\ i \in 1 .. Len(s) + 1   -> InsertAt(s, i, t)
    [] edit = "delete" /\ i \in DOMAIN s          -> RemoveAt(s, i)
    [] OTHER                                      -> s

Between == {"+", "*", "<", "and", "or", ":=", "nl"}
Operands(o) == <<"(", "prog", "x", ":-", "x", o[1], "y", o[2], "-", "z", o[3], "x",
                 o[4], "1", ")">>

Short == {"(", ")", "load", "prog", "x", ";", "nl"}

MCSources ==
  {Edited(s, edit, i, t) : s \in Sentences, edit \in {"replace", "insert"},
                           i \in Places, t \in Edits}
  \cup {Edited(s, "delete", i, "nl") : s \in Sentences, i \in Places}
  \cup {Operands(o) : o \in [1 .. 4 -> Between]}
  \cup UNION {[1 .. n -> Short] : n \in 0 .. 4}

-----------------------------------------------------------------------------
(***************************************************************************)
(* Properties.                                                             *)
(***************************************************************************)

\* The whole file has been read.
Finished == At(p, {"end"})

\* Once a file is read, no error was reported if and only if the file is a
\* sentence of the language, and then the sentence has one meaning, which is
\* the clauses that were handed to the transformer: no follow set refuses a
\* legal sentence, no error recovery accepts an illegal one, precedence,
\* grouping and the newlines that end a term are as the comments of load.c say.
Grammatical ==
  Finished => Meanings(source) =
                IF p.errs = {} THEN {[i \in DOMAIN forest |-> forest[i].tree]} ELSE {}

\* No loop that skips tokens runs past the end of the file (load.c:362-364).
NeverStuck == ~ p.stuck

\* Every turn of the main loop reads on in the file, so that the loop ends.
ReadsOn == [][p'.at > p.at \/ (Finished' /\ ~ Finished)]_vars
=============================================================================
