------------------------------ MODULE Equates ------------------------------
(***************************************************************************)
(* How TRANSFORM resolves names.  A PROG or a WITH declares the names of   *)
(* all its equates in a new layer, then transforms and binds one equate    *)
(* after the other.  Two things may need a name before it is bound.  A REF *)
(* to it is forwarded: it waits in the chain BASES until a later equate    *)
(* binds the name.  The body of a PROC waits in a queue until all names of *)
(* the PROG or WITH are bound.  BASES and the queue are global variables,  *)
(* so scopes inside scopes have to hand them over.                         *)
(*                                                                         *)
(* Terms are those that make or use layers, bindings, BASES or the queue.  *)
(* Types are left out but for one question, whether a base type is one;    *)
(* so are parameters, coercions, and the C terms that executed equates     *)
(* turn into.  TRANSFORM is recursive; CALLS is its stack.                 *)
(***************************************************************************)
EXTENDS Integers, Sequences, FiniteSets

CONSTANTS
  Name,
  Program,   (* programs, each a sequence of PROGs                          *)
  MaxLevel,  (* how deep scopes, bodies and form calls may nest             *)
  MaxClosures (* how many PROC closures there is memory for                 *)

ASSUME EquatesAssumption == MaxLevel \in Nat \ {0} /\ MaxClosures \in Nat \ {0}

(* The terms of a program. *)
Use(n)        == [hook |-> "name", name |-> n]
Ref(n)        == [hook |-> "refer", name |-> n]
Proc(body)    == [hook |-> "procMake", body |-> body]
Form(body)    == [hook |-> "formMake", body |-> body]
Apply(n)      == [hook |-> "apply", name |-> n]
With(eqs, body) == [hook |-> "with", equates |-> eqs, body |-> body]
Prog(eqs)     == [hook |-> "prog", equates |-> eqs]
Equate(n, t)  == [name |-> n, term |-> t]
NoTerm        == [hook |-> "none"]

(* Their values.  SKIP, of type VOID, stands for an erroneous one. *)
Skip          == [hook |-> "skip"]
Unbound       == [hook |-> "unbound"]
PointerTo(p)  == [hook |-> "type", pointer |-> p]
CloseProc(c)  == [hook |-> "close", closure |-> c]
CloseForm(ls, body) == [hook |-> "form", layers |-> ls, body |-> body]

VARIABLES
  progs,     (* the PROGs to be transformed still                           *)
  layers,    (* LAYERS, the innermost first                                 *)
  binders,   (* of every layer made so far, the values of its names         *)
  bases,     (* BASES, a set of members of POINTERS                         *)
  queue,     (* FIRST PROC to LAST PROC, members of CLOSURES                *)
  pointers,  (* the REF types made so far, and where their names are bound  *)
  closures,  (* the PROC closures made so far                               *)
  calls,     (* calls of TRANSFORM that wait for another one                *)
  term,      (* the term that is being transformed, or NoTerm on return     *)
  value,     (* the value that TRANSFORM returns                            *)
  errs       (* the errors found                                            *)

vars == <<progs, layers, binders, bases, queue, pointers, closures, calls, term,
          value, errs>>

Init ==
  /\ progs \in Program
  /\ layers = <<>>
  /\ binders = <<>>
  /\ bases = {}
  /\ queue = <<>>
  /\ pointers = <<>>
  /\ closures = <<>>
  /\ calls = <<>>
  /\ term = NoTerm
  /\ value = Skip
  /\ errs = {}

-----------------------------------------------------------------------------
(* The layer of the list LS in which GOT KEY finds the name N, or 0. *)
HomeOf(ls, n) ==
  LET found == { i \in DOMAIN ls : n \in DOMAIN binders[ls[i]] }
  IN IF found = {} THEN 0 ELSE ls[CHOOSE i \in found : \A j \in found : i <= j]

(* The base type that a REF to something with this value has. *)
BaseOf(v)  == IF v.hook = "type" THEN v ELSE Skip
BaseErr(v) == IF v.hook = "type" THEN {} ELSE {"typeExeErr"}

Top       == calls[Len(calls)]
Caller    == SubSeq(calls, 1, Len(calls) - 1)
Returning == term = NoTerm /\ calls # <<>>
Deeper(call) == Append(calls, call)

Transforming(hook) == term.hook = hook

Return(v) == term' = NoTerm /\ value' = v

(* A name transforms to its value. *)
TransformName ==
  /\ Transforming("name")
  /\ LET home == HomeOf(layers, term.name)
     IN \/ /\ home = 0
           /\ Return(Skip)
           /\ errs' = errs \cup {"undeclaredErr"}
        \/ /\ home # 0
           /\ binders[home][term.name] = Unbound
           /\ Return(Skip)
           /\ errs' = errs \cup {"unboundErr"}
        \/ /\ home # 0
           /\ binders[home][term.name] # Unbound
           /\ Return(binders[home][term.name])
           /\ UNCHANGED errs
  /\ UNCHANGED <<progs, layers, binders, bases, queue, pointers, closures, calls>>

(* REFER: a REF to a name that is declared but not bound is put into BASES. *)
TransformRefer ==
  /\ Transforming("refer")
  /\ LET home == HomeOf(layers, term.name)
         this == Len(pointers) + 1
         Pointer(base) == [name |-> term.name, home |-> home, base |-> base,
                           here |-> home = Head(layers)]
     IN /\ Return(PointerTo(this))
        /\ \/ /\ home = 0
              /\ pointers' = Append(pointers, Pointer(Skip))
              /\ errs' = errs \cup {"undeclaredErr"}
              /\ UNCHANGED bases
           \/ /\ home # 0
              /\ binders[home][term.name] = Unbound
              /\ pointers' = Append(pointers, Pointer(Unbound))
              /\ bases' = bases \cup {this}
              /\ UNCHANGED errs
           \/ /\ home # 0
              /\ binders[home][term.name] # Unbound
              /\ pointers' = Append(pointers, Pointer(BaseOf(binders[home][term.name])))
              /\ errs' = errs \cup BaseErr(binders[home][term.name])
              /\ UNCHANGED bases
  /\ UNCHANGED <<progs, layers, binders, queue, closures, calls>>

(* PROC MAKE: a closure, with a body to be transformed later. *)
TransformProcMake ==
  /\ Transforming("procMake")
  /\ Len(closures) < MaxClosures
  /\ closures' = Append(closures, [layers |-> layers, body |-> term.body,
                                   updated |-> FALSE])
  /\ queue' = Append(queue, Len(closures) + 1)
  /\ Return(CloseProc(Len(closures) + 1))
  /\ UNCHANGED <<progs, layers, binders, bases, pointers, calls, errs>>

TransformFormMake ==
  /\ Transforming("formMake")
  /\ Return(CloseForm(layers, term.body))
  /\ UNCHANGED <<progs, layers, binders, bases, queue, pointers, closures, calls, errs>>

(* A form's body is transformed in the layers where the form was made.  The *)
(* result of a PROC is not a type. *)
TransformApply ==
  /\ Transforming("apply")
  /\ LET home == HomeOf(layers, term.name)
         form == IF home = 0 THEN Unbound ELSE binders[home][term.name]
     IN \/ /\ form.hook = "form"
           /\ Len(calls) < MaxLevel
           /\ calls' = Deeper([hook |-> "apply", layers |-> layers])
           /\ layers' = form.layers
           /\ term' = form.body
           /\ UNCHANGED <<value, errs>>
        \/ /\ form.hook # "form"
           /\ Return(Skip)
           /\ errs' = errs \cup (IF form.hook = "close" THEN {} ELSE {"callErr"})
           /\ UNCHANGED <<calls, layers>>
  /\ UNCHANGED <<progs, binders, bases, queue, pointers, closures>>

ReturnFromForm ==
  /\ Returning
  /\ Top.hook = "apply"
  /\ layers' = Top.layers
  /\ calls' = Caller
  /\ UNCHANGED <<progs, binders, bases, queue, pointers, closures, term, value, errs>>

-----------------------------------------------------------------------------
(***************************************************************************)
(* PROG and WITH push a layer in which all their names are declared.  A    *)
(* WITH puts the global variables aside.  A PROG just clears them, and its *)
(* layer stays for the PROGs that follow.                                  *)
(***************************************************************************)
Declared(equates) == [ n \in { equates[i].name : i \in DOMAIN equates } |-> Unbound ]

RepeatErr(equates) ==
  IF \E i, j \in DOMAIN equates : i < j /\ equates[i].name = equates[j].name
  THEN {"repeatedNameErr"} ELSE {}

Enter(scope, call) ==
  /\ binders' = Append(binders, Declared(scope.equates))
  /\ layers' = <<Len(binders) + 1>> \o layers
  /\ bases' = {}
  /\ queue' = <<>>
  /\ calls' = Deeper(call)
  /\ errs' = errs \cup RepeatErr(scope.equates)
  /\ UNCHANGED <<pointers, closures, value>>

TransformWith ==
  /\ Transforming("with")
  /\ Len(calls) < MaxLevel
  /\ Enter(term, [hook |-> "with", terms |-> term.equates, body |-> term.body,
                  layers |-> layers, bases |-> bases, queue |-> queue])
  /\ term' = IF term.equates = <<>> THEN term.body ELSE Head(term.equates).term
  /\ UNCHANGED progs

TransformProg ==
  /\ term = NoTerm
  /\ calls = <<>>
  /\ progs # <<>>
  /\ Enter(Head(progs), [hook |-> "prog", terms |-> Head(progs).equates])
  /\ term' = IF Head(progs).equates = <<>> THEN NoTerm ELSE Head(Head(progs).equates).term
  /\ progs' = Tail(progs)

(***************************************************************************)
(* The next equate was transformed: its name is bound, and UPDATE POINTERS *)
(* goes through BASES for the names that are bound now.                    *)
(***************************************************************************)
UpdatePointers(new) ==
  LET Now(p) == LET home == HomeOf(layers, pointers[p].name)
                IN IF home = 0 THEN Unbound ELSE new[home][pointers[p].name]
      bound  == { p \in bases : Now(p) # Unbound }
  IN /\ pointers' = [ p \in DOMAIN pointers |->
                        IF p \in bound THEN [pointers[p] EXCEPT !.base = BaseOf(Now(p))]
                                       ELSE pointers[p] ]
     /\ bases' = bases \ bound
     /\ errs' = errs \cup UNION { BaseErr(Now(p)) : p \in bound }

Bind ==
  /\ Returning
  /\ Top.hook \in {"with", "prog"}
  /\ Top.terms # <<>>
  /\ binders' = [binders EXCEPT ![Head(layers)][Head(Top.terms).name] = value]
  /\ UpdatePointers(binders')
  /\ LET rest == Tail(Top.terms)
     IN /\ calls' = [calls EXCEPT ![Len(calls)].terms = rest]
        /\ term' = IF rest # <<>> THEN Head(rest).term
                   ELSE IF Top.hook = "with" THEN Top.body ELSE NoTerm
  /\ UNCHANGED <<progs, layers, queue, closures, value>>

(***************************************************************************)
(* UPDATE PROCEDURES, when all equates and the body were transformed: the  *)
(* next body in the queue, which may put other closures into it.           *)
(***************************************************************************)
SomeBound == Returning /\ Top.hook \in {"with", "prog"}
AllBound == Returning /\ Top.hook \in {"with", "prog"} /\ Top.terms = <<>>

UpdateFront ==
  /\ AllBound
  /\ queue # <<>>
  /\ Len(calls) < MaxLevel
  /\ layers' = closures[Head(queue)].layers
  /\ term' = closures[Head(queue)].body
  /\ calls' = Deeper([hook |-> "close", closure |-> Head(queue), layers |-> layers,
                      value |-> value])
  /\ UNCHANGED <<progs, binders, bases, queue, pointers, closures, value, errs>>

UpdateProcedure ==
  /\ AllBound
  /\ queue # <<>>
  /\ Len(calls) < MaxLevel
  /\ queue' = Tail(queue)
  /\ layers' = closures[Head(queue)].layers
  /\ term' = closures[Head(queue)].body
  /\ calls' = Deeper([hook |-> "close", closure |-> Head(queue), layers |-> layers,
                      value |-> value])
  /\ UNCHANGED <<progs, binders, bases, pointers, closures, value, errs>>

ReturnFromProc ==
  /\ Returning
  /\ Top.hook = "close"
  /\ closures' = [closures EXCEPT ![Top.closure].updated = TRUE]
  /\ layers' = Top.layers
  /\ value' = Top.value
  /\ calls' = Caller
  /\ UNCHANGED <<progs, binders, bases, queue, pointers, term, errs>>

LeaveWithQueue ==
  /\ AllBound
  /\ queue = <<>>
  /\ Top.hook = "with"
  /\ layers' = Top.layers
  /\ bases' = Top.bases
  /\ calls' = Caller
  /\ UNCHANGED <<progs, binders, queue, pointers, closures, term, value, errs>>

LeaveWithBases ==
  /\ AllBound
  /\ queue = <<>>
  /\ Top.hook = "with"
  /\ layers' = Top.layers
  /\ queue' = Top.queue
  /\ calls' = Caller
  /\ UNCHANGED <<progs, binders, bases, pointers, closures, term, value, errs>>

LeaveWithLayer ==
  /\ AllBound
  /\ queue = <<>>
  /\ Top.hook = "with"
  /\ bases' = Top.bases
  /\ queue' = Top.queue
  /\ calls' = Caller
  /\ UNCHANGED <<progs, layers, binders, pointers, closures, term, value, errs>>

LeaveWith ==
  /\ AllBound
  /\ queue = <<>>
  /\ Top.hook = "with"
  /\ layers' = Top.layers
  /\ bases' = Top.bases
  /\ queue' = Top.queue
  /\ calls' = Caller
  /\ UNCHANGED <<progs, binders, pointers, closures, term, value, errs>>

LeaveProg ==
  /\ AllBound
  /\ queue = <<>>
  /\ Top.hook = "prog"
  /\ calls' = Caller
  /\ UNCHANGED <<progs, layers, binders, bases, queue, pointers, closures, term,
                 value, errs>>

(* HALT: nothing more is transformed. *)
Stop(err) ==
  /\ calls' = <<>>
  /\ term' = NoTerm
  /\ progs' = <<>>
  /\ errs' = errs \cup {"haltErr", err}
  /\ UNCHANGED <<layers, binders, bases, queue, pointers, closures, value>>

(* TRANSFORM was called too deeply. *)
NestedTooDeeply ==
  /\ Len(calls) = MaxLevel
  /\ \/ Transforming("with")
     \/ AllBound /\ queue # <<>>
     \/ /\ Transforming("apply")
        /\ HomeOf(layers, term.name) # 0
        /\ binders[HomeOf(layers, term.name)][term.name].hook = "form"
  /\ Stop("nestingTooDeepErr")

(* There is no room for another closure. *)
OutOfMemory ==
  /\ Transforming("procMake")
  /\ Len(closures) = MaxClosures
  /\ Stop("outOfMemoryErr")

Halt == NestedTooDeeply \/ OutOfMemory

Next ==
  \/ TransformName \/ TransformRefer \/ TransformProcMake \/ TransformFormMake
  \/ TransformApply \/ ReturnFromForm
  \/ TransformWith \/ TransformProg \/ Bind
  \/ UpdateProcedure \/ ReturnFromProc \/ LeaveWith \/ LeaveProg
  \/ Halt

(* TRANSFORM runs until it returns. *)
Spec == Init /\ [][Next]_vars /\ WF_vars(Next)

-----------------------------------------------------------------------------
Done == progs = <<>> /\ calls = <<>> /\ term = NoTerm

Scopes == { i \in DOMAIN calls : calls[i].hook \in {"with", "prog"} }
Aside  == { i \in DOMAIN calls : calls[i].hook = "with" }

(***************************************************************************)
(* A REF that was forwarded gets the value that its name has in the layer  *)
(* where the name was found when the REF was made, and no other's.         *)
(***************************************************************************)
Hygienic ==
  \A p \in DOMAIN pointers :
    LET this == pointers[p]
    IN this.home # 0 /\ this.base # Unbound =>
         /\ binders[this.home][this.name] # Unbound
         /\ this.base = BaseOf(binders[this.home][this.name])

(***************************************************************************)
(* FORWARD.C: a forwarded REF has a name with a binder in the current      *)
(* layer, and the name must be bound by a later equate of that layer.  So  *)
(* when all is done no such REF waits any more.                            *)
(***************************************************************************)
ForwardedHere ==
  Done /\ "haltErr" \notin errs =>
    \A p \in DOMAIN pointers : pointers[p].here => pointers[p].base # Unbound

(***************************************************************************)
(* TRANSFORM.C on BASES: "We'll substitute a value for that unbound name   *)
(* later."                                                                 *)
(***************************************************************************)
AllSubstituted ==
  Done /\ "haltErr" \notin errs =>
    \A p \in DOMAIN pointers : pointers[p].base # Unbound

(***************************************************************************)
(* Every PROC closure waits in just one queue, or its body is being        *)
(* transformed, or was: no body is lost and none is transformed twice.     *)
(***************************************************************************)
InQueue(c, q) == { i \in DOMAIN q : q[i] = c }

EveryBodyOnce ==
  calls # <<>> =>
    \A c \in DOMAIN closures :
      LET running == { i \in DOMAIN calls : calls[i].hook = "close" /\ calls[i].closure = c }
          aside   == { i \in Aside : InQueue(c, calls[i].queue) # {} }
          places  == Cardinality(running) + Cardinality(InQueue(c, queue)) + Cardinality(aside)
      IN places = IF closures[c].updated THEN 0 ELSE 1

(***************************************************************************)
(* The body of a PROC is not transformed before all names of the PROG or   *)
(* WITH that the PROC was made in are bound, later ones included.          *)
(***************************************************************************)
BodySeesScope ==
  (calls # <<>> /\ Top.hook = "close") =>
    \A n \in DOMAIN binders[Head(layers)] : binders[Head(layers)][n] # Unbound

(***************************************************************************)
(* What BodySeesScope and ForwardedHere need of the programs, with T for   *)
(* all terms in them and I for those in a WITH: no form is called inside a *)
(* WITH.  Its body would be transformed in the layers where it was made,   *)
(* with the BASES and the queue of the WITH.  Hygienic also needs that no  *)
(* scope declares a name twice, which is an error anyway.                  *)
(***************************************************************************)
EquatesOf(S) == Seq([name : Name, term : S])

Plain(T, I) ==
  /\ I \subseteq T
  /\ Program \subseteq Seq([hook : {"prog"}, equates : EquatesOf(T)])
  /\ \A t \in T :
       /\ t.hook = "procMake" => t.body \in T
       /\ t.hook = "formMake" => t.body \in T
       /\ t.hook = "with"     => t.equates \in EquatesOf(I) /\ t.body \in I
  /\ \A t \in I :
       /\ t.hook # "apply"
       /\ t.hook = "procMake" => t.body \in I

Distinct(equates) ==
  \A i, j \in DOMAIN equates : equates[i].name = equates[j].name => i = j

NamesDistinct(T) ==
  /\ \A t \in T : t.hook = "with" => Distinct(t.equates)
  /\ \A ps \in Program : \A i \in DOMAIN ps : Distinct(ps[i].equates)
=============================================================================
