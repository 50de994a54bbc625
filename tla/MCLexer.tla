------------------------------ MODULE MCLexer -------------------------------
EXTENDS Lexemes

CONSTANTS Operators,   \* how many chars of the marks of operators make a file,
          Numbers,     \* of the chars of numbers,
          Literals,    \* of the chars of literals,
          Words        \* and of the chars of names and of other marks

\* The files of N chars of SET, ends of lines among them.
Files(set, n) == {Append(s, "eos") : s \in [1 .. n -> set \cup {"eos"}]}

MCTexts ==
  {Files({"<", ">", "=", ":", "-", "+", "a", ".", "cap", "*", "|"}, Operators),
   Files({"1", "9", "_", "#", ".", "e", "-", "a"}, Numbers),
   Files({"'", "\\", "#", "_", "n", " "}, Literals),
   Files({"a", "A", "g", "i", "f", "'", "1", "$", "\"", "?", " ", "%", "!", ")", "(",
          "in", "@", "neg", "up", "wedge"}, Words)}

=============================================================================
