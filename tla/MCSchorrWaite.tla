---------------------------- MODULE MCSchorrWaite ----------------------------
(***************************************************************************)
(* Every graph on a node of two pointers, two nodes of one pointer and a   *)
(* permanent node, and every set of protected pointers: a cycle through    *)
(* all of them, a node shared by two others, a node that points to itself. *)
(***************************************************************************)
EXTENDS SchorrWaite

CONSTANTS pair, snip, snap, name

MCNode      == {pair, snip, snap, name}
MCPermanent == {name}
MCDegree    == [n \in MCNode |-> CASE n = pair -> 2 [] n = name -> 0 [] OTHER -> 1]

=============================================================================
