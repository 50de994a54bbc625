------------------------------ MODULE Dispatch ------------------------------
(***************************************************************************)
(* The choice of a form for a call.  ALT (transform.c) collects the member *)
(* forms of a closure in order and refuses a member that is subsumed: one  *)
(* that an earlier member makes useless.  APPLY tries the members in that  *)
(* order and applies the first that is applicable to the arguments, with   *)
(* its generic names bound.                                                *)
(*                                                                         *)
(* Forms and arguments are their types.  A test that dies takes the whole  *)
(* program with it.                                                        *)
(***************************************************************************)
EXTENDS Types

CONSTANT
  Worlds        \* for each world: the types of the FORMS that ALT finds, those of
                \* the ARGS of calls, and at MOST how many forms ALT is given

VARIABLES
  world,        \* the world this program is in
  members,      \* the types of the closure's members, in order
  refused,      \* the form types that were subsumed
  args,         \* the types of the arguments of the call
  at,           \* the member that is tried next: 0 before the call
  outcome       \* what became of the call

vars == <<world, members, refused, args, at, outcome>>

Collecting == [is |-> "collecting"]
Trying     == [is |-> "trying"]
MethodErr  == [is |-> "methodErr"]
Died       == [is |-> "died"]
Applied(i, bound) == [is |-> "applied", member |-> i, bound |-> bound]

\* FORM and GEN complain of a generic name that no parameter can bind.
Bindable(form) == \A i \in DOMAIN GenPars(form) :
                    IsBindable(GenPars(form)[i].name, form)

Init == /\ world \in DOMAIN Worlds
        /\ members = <<>>
        /\ refused = {}
        /\ args = <<>>
        /\ at = 0
        /\ outcome = Collecting

(***************************************************************************)
(* ALT.                                                                    *)
(***************************************************************************)
Collect(form) ==
  /\ outcome = Collecting
  /\ Len(members) + Cardinality(refused) < Worlds[world].most
  /\ Bindable(form)
  /\ LET answer == IsSubsumed(members, form)
     IN  \/ /\ answer = "no"
            /\ members' = Append(members, form)
            /\ UNCHANGED <<refused, outcome>>
         \/ /\ answer = "yes"
            /\ refused' = refused \union {form}
            /\ UNCHANGED <<members, outcome>>
         \/ /\ answer = "dies"
            /\ outcome' = Died
            /\ UNCHANGED <<members, refused>>
  /\ UNCHANGED <<world, args, at>>

(***************************************************************************)
(* APPLY.                                                                  *)
(***************************************************************************)
Call(types) ==
  /\ outcome = Collecting
  /\ args' = types
  /\ at' = 1
  /\ outcome' = Trying
  /\ UNCHANGED <<world, members, refused>>

Try ==
  /\ outcome = Trying
  /\ at <= Len(members)
  /\ LET r == IsApplicable(args, members[at])
     IN  \/ /\ r.answer = "yes"
            /\ outcome' = Applied(at, r.bound)
            /\ UNCHANGED at
         \/ /\ r.answer = "no"
            /\ at' = at + 1
            /\ UNCHANGED outcome
         \/ /\ r.answer = "dies"
            /\ outcome' = Died
            /\ UNCHANGED at
  /\ UNCHANGED <<world, members, refused, args>>

NoMethod ==
  /\ outcome = Trying
  /\ at > Len(members)
  /\ outcome' = MethodErr
  /\ UNCHANGED <<world, members, refused, args, at>>

Next ==
  \/ \E form \in Worlds[world].forms : Collect(form)
  \/ \E types \in Worlds[world].args : Call(types)
  \/ Try
  \/ NoMethod

Spec == Init /\ [][Next]_vars

(***************************************************************************)
(* Properties.                                                             *)
(***************************************************************************)

\* A subsumed member was useless (IS SUBSUMED, form.c): a call that finds no
\* member could not have used a refused one either.
RefusedIsUseless ==
  outcome = MethodErr =>
    \A form \in refused : IsApplicable(args, form).answer # "yes"

\* A form that is a subtype of another is applicable wherever that one is (IS
\* SUBTYPING, subtype.c): so it may take its place as an argument.
Substitutable ==
  outcome.is \in {"applied", "methodErr"} =>
    \A f \in refused \union Range(members), g \in refused \union Range(members) :
      /\ f # g
      /\ IsGroundSubtype(f, g) = "yes"
      /\ IsApplicable(args, g).answer = "yes"
      => IsApplicable(args, f).answer # "no"

\* What IS APPLICABLE (form.c) binds to the generic names is within their
\* bounds, and with it every argument coerces to the parameter it is passed to.
Named(bound) ==
  FoldLeft(LAMBDA ls, p : SetKey(ls, Len(ls), p.name, At(PlainLayer, p.type)),
           PushLayer(GlobalLayers, 0, "plain"), bound)

BoundFits ==
  outcome.is = "applied" =>
    LET form  == members[outcome.member]
        ls    == Named(outcome.bound)
        Of(t) == Groundify(ls, Len(ls), t)
    IN  /\ \A i \in DOMAIN outcome.bound :
             /\ IsStronglyGround(outcome.bound[i].type)
             /\ IsGroundSubtype(Prefix("type", outcome.bound[i].type),
                                Of(GenPars(form)[i].type)) = "yes"
        /\ \A i \in DOMAIN args :
             IsGroundCoerced(args[i], Of(Degen(form).pars[i].type)) = "yes"

\* IS GROUND COTYPE (type.c) is a faster IS COERCING: without generic names both
\* come to an answer, and to the same, on circular types too, for which the calls
\* under way are recorded (IS SUBTYPING, subtype.c).
CotypeIsCoercing ==
  outcome # Collecting =>
    \A f \in refused \union Range(members) : \A i \in DOMAIN args :
      (Arity(f) = Len(args) /\ GenPars(f) = <<>>) =>
        LET t == f.pars[i].type
            answer == IsGroundCoerced(args[i], t)
        IN  answer # "dies" /\ IsGroundCotype(args[i], t) = answer

=============================================================================
