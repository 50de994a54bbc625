------------------------------ MODULE MCPlaces ------------------------------
(* Small files for Places: lines that fit and some that do not. *)
EXTENDS Places, TLC

CONSTANTS a, b, c, d, e, wrong

x == Letter
n == Newline
q == Apostrophe

(* Lines of at most MaxLine - 1 chars; the last text is too big for Span = 8. *)
TooBig     == <<x, n, x, n, x, n, x, n>>
ShortLines == { <<>>, <<x, Illegal>>, <<n, x, n>>, <<n, n, n, q>>, TooBig }

(* Two files of several lines and a C file, or as many files as it takes to *)
(* run out of numbers (MaxFile = 2) and one more.                           *)
TwoFiles  == { (c :> <<x>>) @@ (d :> TooBig) @@ (e :> TooBig) @@ t :
                 t \in [{a, b} -> ShortLines] }
FourFiles == { [p \in Path |-> <<x>>] }

SomeTexts == TwoFiles \cup FourFiles

(* The theorems about Places speak of these files. *)
ASSUME FilesHaveRoom == RoomForEnds /\ RoomForErrors /\ LinesFit

=============================================================================
