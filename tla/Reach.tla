-------------------------------- MODULE Reach --------------------------------
(***************************************************************************)
(* Which objects a traversal visits.  The garbage collector (HUNK.C), its  *)
(* stackless traversal MARK, and the memory they promise to their callers  *)
(* are all described with the one notion of reachability defined here: the *)
(* least set that holds the roots and is closed under following pointers.  *)
(***************************************************************************)

(***************************************************************************)
(* The sets that contain every root among the nodes, and every node a      *)
(* member points to.  kids maps a node to the set of nodes its pointers    *)
(* denote.                                                                 *)
(***************************************************************************)
ClosedSets(nodes, roots, kids) ==
  { S \in SUBSET nodes : /\ roots \cap nodes \subseteq S
                         /\ \A x \in S : kids[x] \cap nodes \subseteq S }

(***************************************************************************)
(* The nodes reached from roots: the intersection of all closed sets.      *)
(***************************************************************************)
ReachFrom(nodes, roots, kids) ==
  LET closed == ClosedSets(nodes, roots, kids)
  IN { a \in nodes : \A S \in closed : a \in S }

=============================================================================
