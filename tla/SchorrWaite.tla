----------------------------- MODULE SchorrWaite -----------------------------
(***************************************************************************)
(* MARK of HUNK.C, pointer by pointer: the traversal of Schorr and Waite,  *)
(* which needs no stack because it turns around the pointers on the path   *)
(* from the root to the node it visits, and counts in the STATE slot of a  *)
(* node how many of its pointers it has followed.  RECLAIM SIZED HUNKS     *)
(* calls it for one protected pointer after the other.                     *)
(*                                                                         *)
(* Module Hunk uses what this traversal computes, the set of the reached   *)
(* objects, as one step; here are the steps, and what they add up to.      *)
(***************************************************************************)
EXTENDS Integers, FiniteSets, Functions, Reach

CONSTANTS
  Node,      (* nodes, in the heap and outside it                           *)
  Permanent, (* those made outside it: names, hooks, jokers                 *)
  Degree,    (* Degree[n]: how many pointers of n are visible to MARK       *)
  Full,      (* 0x7F, the STATE of a marked node                            *)
  P3,        (* the fake node that ends the path                            *)
  Nil

ASSUME NodeAssumption ==
  /\ IsFiniteSet(Node)
  /\ Full \in Nat \ {0}
  /\ Degree \in [Node -> 0 .. (Full - 1)]
  /\ Permanent \subseteq Node
  /\ \A n \in Permanent : Degree[n] = 0
  /\ P3 \notin Node
  /\ Nil \notin Node \cup {P3}

Target   == Node \cup {Nil}
Slots(n) == 0 .. (Degree[n] - 1)

(* The ways the pointers of the nodes may lead to members of T. *)
Links(T) == { g \in [Node -> UNION { [Slots(n) -> T] : n \in Node }] :
                \A n \in Node : g[n] \in [Slots(n) -> T] }

VARIABLES
  graph,   (* the pointers of every node, as the compiler left them         *)
  roots,   (* the protected pointers                                        *)
  refs,    (* the pointers of every node now                                *)
  state,   (* how many pointers of a node have been followed, or Full       *)
  todo,    (* roots not yet marked                                          *)
  P0,      (* the node whose pointer leads to P1                            *)
  P1,      (* the node being visited; P3 between two calls of MARK          *)
  beyond   (* the word that refs(P3)[Full - 1] denotes                      *)

input == <<graph, roots>>
vars  == <<graph, roots, refs, state, todo, P0, P1, beyond>>

-----------------------------------------------------------------------------
Init ==
  /\ graph \in Links(Target)
  /\ roots \in SUBSET Target
  /\ refs = graph
  /\ state = [n \in Node |-> IF n \in Permanent THEN Full ELSE 0]
  /\ todo = roots
  /\ P0 = P3
  /\ P1 = P3
  /\ beyond = Nil

CallOnNil(object) ==
  /\ P1 = P3
  /\ object \in todo
  /\ todo' = todo \ {object}
  /\ P0' = P3
  /\ P1' = object
  /\ UNCHANGED <<input, refs, state, beyond>>

CallAgain(object) ==
  /\ P1 = P3
  /\ object \in todo
  /\ P0' = P3
  /\ P1' = IF object = Nil THEN P3 ELSE object
  /\ UNCHANGED <<input, refs, state, todo, beyond>>

(* RECLAIM SIZED HUNKS calls MARK on one protected pointer. *)
Call(object) ==
  /\ P1 = P3
  /\ object \in todo
  /\ todo' = todo \ {object}
  /\ P0' = P3
  /\ P1' = IF object = Nil THEN P3 ELSE object
  /\ UNCHANGED <<input, refs, state, beyond>>

(***************************************************************************)
(* What MARK does to STATE.                                                *)
(***************************************************************************)
Counted     == [state EXCEPT ![P1] = @ + 1]
Marked      == [state EXCEPT ![P1] = Full]

AllButLast == state[P1] + 1 < Degree[P1]
Unfollowed == state[P1] < Degree[P1]

(***************************************************************************)
(* P1 has a pointer that was not followed.  If it leads to a node not yet  *)
(* marked then that node is visited next, and the pointer is made to lead  *)
(* back to P0.                                                             *)
(***************************************************************************)
Follow ==
  /\ P1 # P3
  /\ Unfollowed
  /\ state' = Counted
  /\ LET P2 == refs[P1][state[P1]]
     IN \/ /\ P2 # Nil
           /\ state'[P2] = 0
           /\ refs' = [refs EXCEPT ![P1][state[P1]] = P0]
           /\ P0' = P1
           /\ P1' = P2
        \/ /\ P2 # Nil => state'[P2] # 0
           /\ UNCHANGED <<refs, P0, P1>>
  /\ UNCHANGED <<input, todo, beyond>>

NotTurned  == refs
TurnedBack == [refs EXCEPT ![P0][state'[P0] - 1] = P1]

(***************************************************************************)
(* All pointers of P1 were followed: it is marked, and the pointer of P0   *)
(* that led to it is turned back.                                          *)
(***************************************************************************)
Return ==
  /\ P1 # P3
  /\ ~Unfollowed
  /\ P0 # P3
  /\ state' = Marked
  /\ refs' = TurnedBack
  /\ P1' = P0
  /\ P0' = refs[P0][state'[P0] - 1]
  /\ UNCHANGED <<input, todo, beyond>>

(***************************************************************************)
(* The same at the root, where P0 is P3.  The STATE of P3 is Full, not 1,  *)
(* so the pointer turned back is not the one slot that its DEGREE allows.  *)
(***************************************************************************)
ReturnFromRoot ==
  /\ P1 # P3
  /\ ~Unfollowed
  /\ P0 = P3
  /\ state' = Marked
  /\ beyond' = P1
  /\ P1' = P3
  /\ P0' = beyond
  /\ UNCHANGED <<input, refs, todo>>

Next == \/ \E object \in todo : Call(object)
        \/ Follow
        \/ Return
        \/ ReturnFromRoot

(* The collector runs to its end. *)
Spec == Init /\ [][Next]_vars /\ WF_vars(Next)

-----------------------------------------------------------------------------
Kids    == [n \in Node |-> Range(graph[n])]
Reached == ReachFrom(Node \ Permanent, roots, Kids)
Done    == todo = {} /\ P1 = P3

TypeOK ==
  /\ graph \in Links(Target)
  /\ roots \subseteq Target
  /\ refs \in Links(Target \cup {P3})
  /\ state \in [Node -> 0 .. Full]
  /\ todo \subseteq roots
  /\ P0 \in Target \cup {P3}
  /\ P1 \in Node \cup {P3}
  /\ beyond \in Target

(***************************************************************************)
(* At every step the pointers that are turned around make a path from P1   *)
(* back to P3, along which MARK can return and turn them all back.  Every  *)
(* other pointer is as the compiler left it, and every other node has all  *)
(* its pointers still to be followed, or none.                             *)
(***************************************************************************)
IsPath(k, path) ==
  /\ P0 = (IF k = 0 THEN P3 ELSE path[k])
  /\ \A i, j \in 1 .. k : path[i] = path[j] => i = j
  /\ \A j \in 1 .. k :
       LET last == state[path[j]] - 1
       IN /\ path[j] # P1
          /\ last \in Slots(path[j])
          /\ refs[path[j]][last] = (IF j = 1 THEN P3 ELSE path[j - 1])
          /\ graph[path[j]][last] = (IF j = k THEN P1 ELSE path[j + 1])
  /\ \A n \in Node : \A i \in Slots(n) :
       refs[n][i] # graph[n][i] => \E j \in 1 .. k : n = path[j] /\ i = state[n] - 1
  /\ \A n \in Node \ {P1} :
       state[n] \notin {0, Full} => \E j \in 1 .. k : n = path[j]

PathBack ==
  P1 # P3 => \E k \in 0 .. Cardinality(Node) :
               \E path \in [1 .. k -> Node] : IsPath(k, path)

(* Between two calls of MARK every pointer is as the compiler left it. *)
Restored == P1 = P3 => refs = graph

(***************************************************************************)
(* When all protected pointers are marked, just the objects of the heap    *)
(* that they lead to are.  Nothing is followed through a permanent node.   *)
(***************************************************************************)
MarksReachable ==
  Done => { n \in Node \ Permanent : state[n] # 0 } = Reached

(* MARK ends, whatever the pointers. *)
Terminates == <>Done

=============================================================================
