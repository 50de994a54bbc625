------------------------------- MODULE MCLayer -------------------------------
(***************************************************************************)
(* Two kinds of instances in one run.  In the first there is one layer and *)
(* seven keys, set in any order and any number of times: the smallest      *)
(* trees in which all rotations happen with subtrees that are not empty,   *)
(* and in which a rotation follows another insertion.  In the second there *)
(* are three layers, each of which may extend any other, and one key with  *)
(* two values and two counts: enough for a key bound in two layers of one  *)
(* list, and for two lists that share a layer.                             *)
(***************************************************************************)
EXTENDS Layer

CONSTANTS top, middle, bottom, one, two

MCLayers == {top, middle, bottom}
MCKeys   == 1 .. 7
MCValues == {one, two}
MCCounts == {0, 5}

(* A tall tree has the one layer TOP, and the value ONE for all its keys. *)
Tall == /\ DOMAIN cdr = {top}
        /\ call.value # two
        /\ \A k \in DOMAIN node[top] : /\ node[top][k].value = one
                                       /\ node[top][k].count = Nil
(* Many layers have the key 1 only. *)
Wide == /\ call.key \in {1, Nil}
        /\ \A l \in DOMAIN cdr : DOMAIN node[l] \subseteq {1}

MCNext == IF Wide THEN Next /\ (Tall \/ Wide)'
          ELSE SettingKey \/ \E key \in Key : SetKey(top, key, one)

MCSpec == Init /\ [][MCNext]_vars /\ WF_vars(SettingKey)
=============================================================================
