-------------------------------- MODULE Order --------------------------------
(***************************************************************************)
(* The order in which a walk through memory meets the members of a set of  *)
(* addresses, as the sequence of those addresses.                          *)
(***************************************************************************)
EXTENDS Integers, Sequences, FiniteSets

(***************************************************************************)
(* The members of S in increasing order.                                   *)
(***************************************************************************)
InOrder(S) ==
  [i \in 1 .. Cardinality(S) |->
     CHOOSE a \in S : Cardinality({ b \in S : b < a }) = i - 1]

=============================================================================
