-------------------------------- MODULE Scope --------------------------------
(***************************************************************************)
(* What LAYER.C promises: a tree of scopes.  A layer extends another, or   *)
(* none, and binds keys; a key means what the nearest layer says that      *)
(* binds it.  Only the layer that SET KEY is given changes, and only at    *)
(* that key.  Module Layer is shown to implement this one.                 *)
(***************************************************************************)
EXTENDS Functions

CONSTANTS Layer, Key, Value, Count, Nil

VARIABLES
  cdr,    (* cdr[l]: the layer that l extends, or Nil                       *)
  bound   (* bound[l][k]: the value and the character count of key k in l   *)

vars == <<cdr, bound>>

Init ==
  /\ \E l \in Layer : cdr = [x \in {l} |-> Nil]
  /\ bound = [l \in DOMAIN cdr |-> << >>]

PushLayer(l, next) ==
  /\ cdr'   = [x \in DOMAIN cdr \cup {l} |-> IF x = l THEN next ELSE cdr[x]]
  /\ bound' = [x \in DOMAIN cdr \cup {l} |-> IF x = l THEN << >> ELSE bound[x]]

DestroyLayer(l) ==
  /\ cdr'   = Restrict(cdr, DOMAIN cdr \ {l})
  /\ bound' = Restrict(bound, DOMAIN bound \ {l})

(* The layer l changes from WAS to IS, and nothing else changes. *)
SetKey(l) ==
  /\ LET was == bound[l]
         is  == bound'[l]
     IN /\ bound' = [bound EXCEPT ![l] = is]
        /\ \E key \in Key \cap DOMAIN is :
             /\ DOMAIN is = DOMAIN was \cup {key}
             /\ \A k \in DOMAIN was \ {key} : is[k] = was[k]
             /\ is[key].value \in Value
             /\ is[key].count = IF key \in DOMAIN was THEN was[key].count ELSE Nil
  /\ UNCHANGED cdr

SetCounts(l) ==
  /\ LET was == bound[l]
         is  == bound'[l]
     IN /\ bound' = [bound EXCEPT ![l] = is]
        /\ DOMAIN is = DOMAIN was
        /\ \A k \in DOMAIN was :
             \E c \in Count \cup {was[k].count} : is[k] = [was[k] EXCEPT !.count = c]
  /\ UNCHANGED cdr

(* A call that changes no binding is a stuttering step. *)
Next ==
  /\ bound' # bound
  /\ \/ \E l \in Layer \ DOMAIN cdr : \E next \in DOMAIN cdr \cup {Nil} : PushLayer(l, next)
     \/ \E l \in DOMAIN cdr : DestroyLayer(l) \/ SetKey(l) \/ SetCounts(l)

Spec == Init /\ [][Next]_vars

=============================================================================
