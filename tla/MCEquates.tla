------------------------------ MODULE MCEquates ------------------------------
(* Programs for Equates: PROGs with two equates, and all terms of some size. *)
EXTENDS Equates

CONSTANTS m, n

Simple == { Use(k) : k \in Name } \cup { Ref(k) : k \in Name }
Bodies == { Proc(t) : t \in Simple }

(* A WITH that declares one of the names again, or both, or none. *)
Inner(terms, bodies) ==
  { With(<<Equate(k, t)>>, b) : k \in Name, t \in terms, b \in bodies }
Inners == Inner(Simple \cup Bodies, {Use(m), Use(n)})
  \cup { With(<<Equate(n, t), Equate(m, u)>>, Use(n)) : t, u \in Simple }

One(terms, others) == { <<Prog(<<Equate(m, t), Equate(n, u)>>)>> : t \in terms, u \in others }

(* Scopes inside equates and inside bodies. *)
Nested ==
  One(Simple \cup Bodies \cup Inners \cup { Proc(w) : w \in Inners }, Simple \cup Bodies)
  \cup One({Ref(n), Proc(Use(n))}, Inners)

(* Two PROGs, the second of which shadows a name of the first. *)
Shadowing ==
  { <<Prog(<<Equate(m, t), Equate(n, u)>>), Prog(<<Equate(n, v)>>)>> :
      t, u, v \in Simple \cup Bodies }

(* Forms, and calls of them in the PROG that makes them. *)
Forms ==
  { <<Prog(<<Equate(m, Form(t)), Equate(n, u)>>), Prog(<<Equate(n, v)>>)>> :
      t \in Simple \cup Bodies \cup {Apply(m), Proc(Apply(m))},
      u, v \in Simple \cup {Apply(m), Proc(Apply(m)), Form(Ref(m))} }

Programs == Nested \cup Shadowing \cup Forms

(***************************************************************************)
(* All of them are programs that the theorems about Equates speak of: they *)
(* call no form inside a WITH, and no scope declares a name twice.         *)
(***************************************************************************)
InWith == Simple \cup Bodies
Terms == InWith \cup Inners \cup { Proc(w) : w \in Inners }
  \cup { Apply(m), Proc(Apply(m)), Form(Ref(m)) }
  \cup { Form(t) : t \in InWith \cup {Apply(m), Proc(Apply(m))} }

ASSUME ProgramsArePlain == Plain(Terms, InWith) /\ NamesDistinct(Terms)

(* A form makes a PROC whose body calls the form: that body makes another *)
(* PROC, so the queue never gets empty.                                   *)
Refills(ps) == \E i \in DOMAIN ps : \E j \in DOMAIN ps[i].equates :
                 ps[i].equates[j].term = Form(Proc(Apply(m)))

(***************************************************************************)
(* The queue of bodies grows while UPDATE PROCEDURES works it off.  Still, *)
(* TRANSFORM comes to an end: of the program, if no form refills the queue *)
(* with bodies that call it, and otherwise of the memory at the latest.    *)
(***************************************************************************)
Ends == <>Done /\ (Refills(progs) \/ <>(Done /\ "outOfMemoryErr" \notin errs))

=============================================================================
