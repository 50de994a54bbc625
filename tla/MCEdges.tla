------------------------------- MODULE MCEdges -------------------------------
(* Small files at the limits of Places that MCPlaces keeps away from. *)
EXTENDS Places, TLC

CONSTANTS a, b, wrong

x == Letter
n == Newline
q == Apostrophe

(* The last line ends with an apostrophe: what is blamed behind it is lost. *)
OpenQuote == { (a :> <<q>>) @@ (b :> <<>>) }

(* LOAD ORSON keeps a line that WRITE ERROR LINES does not: ACCOUNTED fails *)
(* with these texts too.                                                    *)
LongLine == { (a :> <<x, x, x, x, n>>) @@ (b :> <<>>) }

(* A ragged file of Span - 1 bytes: with these COUNTS UNIQUE fails. *)
FullFile == { (a :> <<n, x, n, x, n, x, x>>) @@ (b :> <<x>>) }

=============================================================================
