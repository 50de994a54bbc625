---------------------------- MODULE EquatesProofs ----------------------------
(***************************************************************************)
(* BASES and the queue of PROC closures are handed over between scopes     *)
(* without losing anything: every body is transformed once, and after the  *)
(* names of its scope are bound; every REF that was forwarded in the scope *)
(* of its name gets its base there, and it is the value of the name it was *)
(* made for.                                                               *)
(***************************************************************************)
EXTENDS Equates, Lemmas

-----------------------------------------------------------------------------
(* Lists of anything *)

IsList(s) == Len(s) \in Nat /\ s = [i \in 1 .. Len(s) |-> s[i]]

(* A list is a sequence of its members. *)
LEMMA ListIsSeq ==
  ASSUME NEW s, IsList(s)
  PROVE  s \in Seq({ s[i] : i \in 1 .. Len(s) }) /\ DOMAIN s = 1 .. Len(s)
  <1> DEFINE S == { s[i] : i \in 1 .. Len(s) }
  <1>1. s \in [1 .. Len(s) -> S] /\ Len(s) \in Nat /\ DOMAIN s = 1 .. Len(s)
    BY DEF IsList
  <1> HIDE DEF S
  <1>2. s \in Seq(S)
    BY <1>1, SeqDef
  <1> QED
    BY <1>1, <1>2 DEF S

(* Every sequence is a list. *)
LEMMA SeqIsList ==
  ASSUME NEW S, NEW s \in Seq(S)
  PROVE  IsList(s)
  BY LenProperties DEF IsList

(* What a list is with one more at its end. *)
LEMMA AppendList ==
  ASSUME NEW s, IsList(s), NEW e
  PROVE  LET t == Append(s, e)
         IN /\ IsList(t) /\ Len(t) = Len(s) + 1
            /\ DOMAIN t = DOMAIN s \cup {Len(s) + 1} /\ Len(s) + 1 \notin DOMAIN s
            /\ t[Len(s) + 1] = e
            /\ \A i \in DOMAIN s : t[i] = s[i]
            /\ DOMAIN s = 1 .. Len(s)
  <1> DEFINE S == { s[i] : i \in 1 .. Len(s) } \cup {e}
             t == Append(s, e)
  <1>1. s \in Seq(S) /\ DOMAIN s = 1 .. Len(s) /\ Len(s) \in Nat
    <2>1. s \in Seq({ s[i] : i \in 1 .. Len(s) }) /\ DOMAIN s = 1 .. Len(s)
      BY ListIsSeq
    <2> QED
      BY <2>1, SeqDef DEF IsList
  <1> HIDE DEF S
  <1>2. /\ t \in Seq(S) /\ Len(t) = Len(s) + 1 /\ t[Len(s) + 1] = e
        /\ \A i \in 1 .. Len(s) : t[i] = s[i]
    <2>1. e \in S
      BY DEF S
    <2> QED
      BY <1>1, <2>1, AppendProperties
  <1>3. IsList(t) /\ DOMAIN t = 1 .. Len(s) + 1
    BY <1>1, <1>2, SeqIsList, LenProperties
  <1>4. \A n \in Nat : 1 .. n + 1 = (1 .. n) \cup {n + 1} /\ n + 1 \notin 1 .. n
    OBVIOUS
  <1> HIDE DEF t
  <1> QED
    BY <1>1, <1>2, <1>3, <1>4 DEF t

(* What is left of a list without its first. *)
LEMMA TailList ==
  ASSUME NEW s, IsList(s), s # <<>>
  PROVE  /\ IsList(Tail(s)) /\ Head(s) = s[1] /\ 1 \in DOMAIN s
         /\ Len(s) \in Nat \ {0} /\ DOMAIN s = 1 .. Len(s)
         /\ Len(Tail(s)) = Len(s) - 1 /\ DOMAIN Tail(s) = 1 .. Len(s) - 1
         /\ \A i \in 1 .. Len(s) - 1 : Tail(s)[i] = s[i + 1]
  <1> DEFINE S == { s[i] : i \in 1 .. Len(s) }
  <1>1. s \in Seq(S) /\ DOMAIN s = 1 .. Len(s)
    BY ListIsSeq
  <1> HIDE DEF S
  <1>2. /\ Tail(s) \in Seq(S) /\ Len(Tail(s)) = Len(s) - 1 /\ Head(s) = s[1]
        /\ \A i \in 1 .. Len(Tail(s)) : Tail(s)[i] = s[i + 1]
        /\ Len(s) \in Nat \ {0}
    BY <1>1, HeadTailProperties, EmptySeq, LenProperties
  <1>3. IsList(Tail(s)) /\ DOMAIN Tail(s) = 1 .. Len(Tail(s))
    BY <1>2, SeqIsList, LenProperties
  <1> QED
    BY <1>1, <1>2, <1>3

(* What is left of a list without its last. *)
LEMMA PopList ==
  ASSUME NEW s, IsList(s), s # <<>>
  PROVE  LET t == SubSeq(s, 1, Len(s) - 1)
         IN /\ IsList(t) /\ Len(t) = Len(s) - 1
            /\ Len(s) \in Nat \ {0} /\ DOMAIN s = 1 .. Len(s) /\ DOMAIN t = 1 .. Len(s) - 1
            /\ DOMAIN t = DOMAIN s \ {Len(s)} /\ Len(s) \in DOMAIN s
            /\ \A i \in DOMAIN t : t[i] = s[i]
            /\ t = <<>> <=> Len(s) = 1
  <1> DEFINE S == { s[i] : i \in 1 .. Len(s) }
             t == SubSeq(s, 1, Len(s) - 1)
  <1>1. s \in Seq(S) /\ DOMAIN s = 1 .. Len(s) /\ Len(s) \in Nat
    BY ListIsSeq DEF IsList
  <1> HIDE DEF S
  <1>2. Len(s) # 0
    BY <1>1, EmptySeq
  <1>3. Len(s) - 1 \in Nat /\ Len(s) - 1 <= Len(s)
    BY <1>1, <1>2
  <1>4. t \in Seq(S) /\ Len(t) = Len(s) - 1 /\ \A i \in 1 .. Len(s) - 1 : t[i] = s[i]
    BY <1>1, <1>3, SubSeqProperties
  <1> HIDE DEF t
  <1>5. IsList(t) /\ DOMAIN t = 1 .. Len(s) - 1
    BY <1>4, SeqIsList, LenProperties
  <1>6. DOMAIN t = DOMAIN s \ {Len(s)} /\ Len(s) \in DOMAIN s
    <2>1. \A n \in Nat : n # 0 => 1 .. n - 1 = (1 .. n) \ {n} /\ n \in 1 .. n
      OBVIOUS
    <2> QED
      BY <1>1, <1>2, <1>5, <2>1
  <1>7. t = <<>> <=> Len(s) = 1
    <2>1. t = <<>> <=> Len(t) = 0
      BY <1>4, EmptySeq
    <2> QED
      BY <1>1, <1>4, <2>1
  <1> QED
    BY <1>1, <1>2, <1>4, <1>5, <1>6, <1>7 DEF t

(* A list of something about each member of a list. *)
LEMMA MapList ==
  ASSUME NEW s, IsList(s), NEW t, DOMAIN t = DOMAIN s, t = [i \in DOMAIN s |-> t[i]]
  PROVE  IsList(t) /\ Len(t) = Len(s)
  <1> DEFINE S == { t[i] : i \in 1 .. Len(s) }
  <1>1. Len(s) \in Nat /\ DOMAIN s = 1 .. Len(s)
    BY DEF IsList
  <1>2. t \in [1 .. Len(s) -> S]
    BY <1>1
  <1> HIDE DEF S
  <1>3. t \in Seq(S)
    BY <1>1, <1>2, SeqDef
  <1>4. Len(t) = Len(s)
    <2>1. DOMAIN t = 1 .. Len(t) /\ Len(t) \in Nat
      BY <1>3, LenProperties
    <2>2. \A m, n \in Nat : 1 .. m = 1 .. n => m = n
      OBVIOUS
    <2> QED
      BY <1>1, <2>1, <2>2
  <1> QED
    BY <1>3, <1>4, SeqIsList

(* The list of nothing. *)
LEMMA EmptyList == IsList(<<>>) /\ DOMAIN <<>> = {} /\ Len(<<>>) = 0
  <1>1. <<>> \in Seq({}) /\ Len(<<>>) = 0
    BY EmptySeq
  <1>2. IsList(<<>>)
    BY ONLY <1>1, SeqIsList
  <1>3. DOMAIN <<>> = 1 .. 0
    BY <1>1, LenProperties
  <1> QED
    BY <1>1, <1>2, <1>3

-----------------------------------------------------------------------------
(***************************************************************************)
(* Every closure in one place                                              *)
(***************************************************************************)

(* The calls of TRANSFORM that may wait. *)
Shaped(call) ==
  \/ call.hook = "prog"  /\ DOMAIN call = {"hook", "terms"}
  \/ call.hook = "with"  /\ DOMAIN call = {"hook", "terms", "body", "layers", "bases", "queue"}
  \/ call.hook = "apply" /\ DOMAIN call = {"hook", "layers"}
  \/ call.hook = "close" /\ DOMAIN call = {"hook", "closure", "layers", "value"}

Halted  == "haltErr" \in errs
Running == { i \in DOMAIN calls : calls[i].hook = "close" }

(* Closure C waits in slot X of a queue, that of the call K or the current *)
(* one (K = 0), or its body is being transformed (X = 0).                  *)
Holds(k, x, c) ==
  \/ k = 0 /\ x \in DOMAIN queue /\ queue[x] = c
  \/ k \in Aside /\ x \in DOMAIN calls[k].queue /\ calls[k].queue[x] = c
  \/ k \in Running /\ x = 0 /\ calls[k].closure = c

InOnePlace(c) ==
  \E k, x : Holds(k, x, c) /\ \A j, y : Holds(j, y, c) => j = k /\ y = x

CallsShaped ==
  /\ IsList(calls) /\ IsList(closures) /\ IsList(queue)
  /\ \A k \in DOMAIN calls : Shaped(calls[k]) /\ (calls[k].hook = "prog" <=> k = 1)
  /\ \A k \in Aside : IsList(calls[k].queue)
  /\ calls = <<>> => term = NoTerm
  /\ calls = <<>> /\ ~Halted => queue = <<>>
  /\ Halted => calls = <<>> /\ progs = <<>>

ClosuresPlaced ==
  /\ \A k, x, c : Holds(k, x, c) => c \in DOMAIN closures
  /\ \A c \in DOMAIN closures :
       /\ DOMAIN closures[c] = {"layers", "body", "updated"}
       /\ \/ closures[c].updated = FALSE /\ InOnePlace(c)
          \/ closures[c].updated = TRUE /\ \A k, x : ~Holds(k, x, c)

OnceInv == CallsShaped /\ (~Halted => ClosuresPlaced)

(* The calls that are left when the last one returns. *)
LEMMA CallerFacts ==
  ASSUME CallsShaped, calls # <<>>
  PROVE  /\ IsList(Caller) /\ Len(Caller) = Len(calls) - 1 /\ Len(calls) \in Nat \ {0}
         /\ DOMAIN calls = 1 .. Len(calls) /\ DOMAIN Caller = 1 .. Len(calls) - 1
         /\ DOMAIN Caller = DOMAIN calls \ {Len(calls)} /\ Len(calls) \in DOMAIN calls
         /\ \A k \in DOMAIN Caller : Caller[k] = calls[k]
         /\ Caller = <<>> <=> Top.hook = "prog"
         /\ Len(calls) = 1 <=> Top.hook = "prog"
         /\ ~Halted /\ Top = calls[Len(calls)] /\ Shaped(Top)
         /\ 1 \in DOMAIN calls /\ calls[1].hook = "prog"
  <1>1. IsList(calls)
    BY DEF CallsShaped
  <1>2. /\ IsList(Caller) /\ Len(Caller) = Len(calls) - 1 /\ Len(calls) \in Nat \ {0}
        /\ DOMAIN calls = 1 .. Len(calls) /\ DOMAIN Caller = 1 .. Len(calls) - 1
        /\ DOMAIN Caller = DOMAIN calls \ {Len(calls)} /\ Len(calls) \in DOMAIN calls
        /\ \A k \in DOMAIN Caller : Caller[k] = calls[k]
        /\ Caller = <<>> <=> Len(calls) = 1
    BY <1>1, PopList DEF Caller
  <1>3. 1 \in DOMAIN calls
    BY <1>2
  <1> QED
    BY <1>2, <1>3 DEF CallsShaped, Top

(* Steps that move no closure. *)
LEMMA SameHolds ==
  ASSUME ClosuresPlaced, closures' = closures,
         \A k, x, c : Holds(k, x, c)' <=> Holds(k, x, c)
  PROVE  ClosuresPlaced'
  BY DEF ClosuresPlaced, InOnePlace

(* Steps that change the last call or none, or push or pop a call of a form. *)
LEMMA KeepOnce ==
  ASSUME OnceInv, calls # <<>>, calls' # <<>>, IsList(calls'), Halted' = Halted,
         UNCHANGED <<closures, queue>>,
         \A k \in DOMAIN calls \cap DOMAIN calls' :
           /\ Shaped(calls'[k]) /\ calls'[k].hook = calls[k].hook
           /\ calls[k].hook = "with" => calls'[k].queue = calls[k].queue
           /\ calls[k].hook = "close" => calls'[k].closure = calls[k].closure,
         \A k \in DOMAIN calls' \ DOMAIN calls : Shaped(calls'[k]) /\ calls'[k].hook = "apply" /\ k # 1,
         \A k \in DOMAIN calls \ DOMAIN calls' : calls[k].hook = "apply"
  PROVE  OnceInv'
  <1>1. Aside' = Aside /\ Running' = Running
    BY DEF Aside, Running
  <1>2. \A k \in Aside : calls'[k].queue = calls[k].queue
    BY DEF Aside
  <1>3. \A k \in Running : calls'[k].closure = calls[k].closure
    BY DEF Running
  <1>4. \A k, x, c : Holds(k, x, c)' <=> Holds(k, x, c)
    BY <1>1, <1>2, <1>3 DEF Holds
  <1>5. CallsShaped'
    <2>1. \A k \in DOMAIN calls' : Shaped(calls'[k]) /\ (calls'[k].hook = "prog" <=> k = 1)
      BY DEF OnceInv, CallsShaped
    <2> QED
      BY <1>1, <1>2, <2>1, SMTT(40) DEF OnceInv, CallsShaped, IsList, Shaped
  <1> QED
    BY <1>4, <1>5, SameHolds DEF OnceInv

(* There is no closure at the start. *)
LEMMA OnceInitially ==
  ASSUME Init
  PROVE  OnceInv
  <1>1. calls = <<>> /\ queue = <<>> /\ closures = <<>> /\ term = NoTerm /\ errs = {}
    BY DEF Init
  <1>2. Aside = {} /\ Running = {} /\ ~Halted
    BY <1>1, EmptyList DEF Aside, Running, Halted
  <1> QED
    BY <1>1, <1>2, EmptyList DEF OnceInv, CallsShaped, ClosuresPlaced, Holds

(* TRANSFORM runs, so there is a call, and it was not given up. *)
LEMMA Running1 ==
  ASSUME CallsShaped, term # NoTerm \/ Returning
  PROVE  calls # <<>> /\ ~Halted
  BY DEF CallsShaped, Returning

(* Only HALT adds the error that stops all. *)
LEMMA OtherErrs ==
  ASSUME NEW new, errs' = errs \cup new, "haltErr" \notin new
  PROVE  Halted' = Halted
  BY DEF Halted

(* ENTER does not halt. *)
LEMMA EnterErrs ==
  ASSUME NEW scope, NEW call, Enter(scope, call)
  PROVE  Halted' = Halted
  <1>1. "haltErr" \notin RepeatErr(scope.equates)
    BY DEF RepeatErr
  <1>2. errs' = errs \cup RepeatErr(scope.equates)
    BY DEF Enter
  <1> QED
    BY <1>1, <1>2, OtherErrs

(* A new closure is at the end of the queue, and nowhere else. *)
LEMMA OnceProcMake ==
  ASSUME OnceInv, TransformProcMake
  PROVE  OnceInv'
  <1>0. PICK n, m : n = Len(closures) + 1 /\ m = Len(queue) + 1
    OBVIOUS
  <1> DEFINE new == [layers |-> layers, body |-> term.body, updated |-> FALSE]
  <1>1. calls # <<>> /\ ~Halted /\ ClosuresPlaced /\ CallsShaped
    BY Running1 DEF OnceInv, TransformProcMake, Transforming, NoTerm
  <1>2. /\ closures' = Append(closures, new) /\ queue' = Append(queue, n)
        /\ term' = NoTerm /\ UNCHANGED <<progs, calls, errs>>
    BY <1>0 DEF TransformProcMake, Return
  <1>3. /\ IsList(closures') /\ DOMAIN closures' = DOMAIN closures \cup {n}
        /\ n \notin DOMAIN closures /\ closures'[n] = new
        /\ \A c \in DOMAIN closures : closures'[c] = closures[c]
    BY <1>0, <1>1, <1>2, AppendList DEF CallsShaped
  <1>4. DOMAIN new = {"layers", "body", "updated"} /\ new.updated = FALSE
    OBVIOUS
  <1> HIDE DEF new
  <1>5. /\ IsList(queue') /\ DOMAIN queue' = DOMAIN queue \cup {m}
        /\ m \notin DOMAIN queue /\ queue'[m] = n
        /\ \A x \in DOMAIN queue : queue'[x] = queue[x]
    BY <1>0, <1>1, <1>2, AppendList DEF CallsShaped
  <1>6. Aside' = Aside /\ Running' = Running
    BY <1>2 DEF Aside, Running
  <1>7. \A k, x, c : Holds(k, x, c)' <=> Holds(k, x, c) \/ (k = 0 /\ x = m /\ c = n)
    BY <1>2, <1>5, <1>6 DEF Holds
  <1>8. CallsShaped'
    BY <1>1, <1>2, <1>3, <1>5, <1>6 DEF CallsShaped, Halted
  <1>9. \A c \in DOMAIN closures : c # n /\ \A k, x : Holds(k, x, c)' <=> Holds(k, x, c)
    BY <1>3, <1>7
  <1>10. \A k, x : Holds(k, x, n)' <=> (k = 0 /\ x = m)
    BY <1>1, <1>3, <1>7 DEF ClosuresPlaced
  <1>11. \A k, x, c : Holds(k, x, c)' => c \in DOMAIN closures'
    BY <1>1, <1>3, <1>7 DEF ClosuresPlaced
  <1>12. InOnePlace(n)'
    BY <1>10 DEF InOnePlace
  <1>13. \A c \in DOMAIN closures : InOnePlace(c)' <=> InOnePlace(c)
    BY <1>9 DEF InOnePlace
  <1>14. ClosuresPlaced'
    BY <1>1, <1>3, <1>4, <1>9, <1>11, <1>12, <1>13 DEF ClosuresPlaced
  <1> QED
    BY <1>8, <1>14 DEF OnceInv

(* WITH puts the queue aside, in its call. *)
LEMMA OnceWith ==
  ASSUME OnceInv, TransformWith
  PROVE  OnceInv'
  <1>0. PICK n : n = Len(calls) + 1
    OBVIOUS
  <1> DEFINE call == [hook |-> "with", terms |-> term.equates, body |-> term.body,
                      layers |-> layers, bases |-> bases, queue |-> queue]
  <1>1. calls # <<>> /\ ~Halted /\ ClosuresPlaced /\ CallsShaped
    BY Running1 DEF OnceInv, TransformWith, Transforming, NoTerm
  <1>2. calls' = Append(calls, call) /\ queue' = <<>> /\ UNCHANGED <<progs, closures>>
    BY DEF TransformWith, Enter, Deeper
  <1>3. Halted' = Halted
    BY EnterErrs DEF TransformWith
  <1>4. Shaped(call) /\ call.hook = "with" /\ call.queue = queue
    BY DEF Shaped
  <1> HIDE DEF call
  <1>5. /\ IsList(calls') /\ Len(calls') = n /\ DOMAIN calls' = DOMAIN calls \cup {n}
        /\ n \notin DOMAIN calls /\ calls'[n] = call
        /\ \A k \in DOMAIN calls : calls'[k] = calls[k]
    BY <1>0, <1>1, <1>2, AppendList DEF CallsShaped
  <1>6. n # 1 /\ n # 0 /\ calls' # <<>>
    <2>1. 1 \in DOMAIN calls /\ Len(calls) \in Nat
      BY <1>1, CallerFacts
    <2> QED
      BY <1>0, <1>5, <2>1, EmptyList
  <1>7. Aside' = Aside \cup {n} /\ Running' = Running /\ n \notin Aside /\ n \notin Running
    BY <1>4, <1>5 DEF Aside, Running
  <1>8. \A k, x, c : Holds(k, x, c)' <=>
          \/ k = n /\ Holds(0, x, c)
          \/ k # 0 /\ Holds(k, x, c)
    <2>1. 0 \notin DOMAIN calls
      BY <1>1, CallerFacts
    <2>2. 0 \notin Aside /\ 0 \notin Running
      BY <2>1 DEF Aside, Running
    <2>3. \A k \in Aside : calls'[k] = calls[k]
      BY <1>5 DEF Aside
    <2>4. \A k \in Running : calls'[k] = calls[k]
      BY <1>5 DEF Running
    <2>5. DOMAIN queue' = {}
      BY <1>2, EmptyList
    <2> QED
      BY <1>4, <1>5, <1>6, <1>7, <2>2, <2>3, <2>4, <2>5 DEF Holds
  <1>9. CallsShaped'
    <2>1. \A k \in DOMAIN calls' : Shaped(calls'[k]) /\ (calls'[k].hook = "prog" <=> k = 1)
      BY <1>1, <1>4, <1>5, <1>6 DEF CallsShaped
    <2>2. \A k \in Aside' : IsList(calls'[k].queue)
      BY <1>1, <1>4, <1>5, <1>7 DEF CallsShaped, Aside
    <2> QED
      BY <1>1, <1>2, <1>3, <1>5, <1>6, <2>1, <2>2, EmptyList DEF CallsShaped
  <1>10. \A k, x, c : Holds(k, x, c) => k # n
    BY <1>6, <1>7 DEF Holds
  <1>11. ClosuresPlaced'
    <2>1. ASSUME NEW c, InOnePlace(c) PROVE InOnePlace(c)'
      <3>1. PICK k, x : Holds(k, x, c) /\ \A j, y : Holds(j, y, c) => j = k /\ y = x
        BY <2>1 DEF InOnePlace
      <3>2. CASE k = 0
        <4>1. Holds(n, x, c)' /\ \A j, y : Holds(j, y, c)' => j = n /\ y = x
          BY <1>8, <1>10, <3>1, <3>2
        <4> QED
          BY <4>1 DEF InOnePlace
      <3>3. CASE k # 0
        <4>1. Holds(k, x, c)' /\ \A j, y : Holds(j, y, c)' => j = k /\ y = x
          BY <1>8, <3>1, <3>3
        <4> QED
          BY <4>1 DEF InOnePlace
      <3> QED
        BY <3>2, <3>3
    <2>2. \A k, x, c : Holds(k, x, c)' => \E j : Holds(j, x, c)
      BY <1>8
    <2> QED
      BY <1>1, <1>2, <2>1, <2>2 DEF ClosuresPlaced
  <1> QED
    BY <1>9, <1>11 DEF OnceInv

(* PROG begins with an empty queue. *)
LEMMA OnceProg ==
  ASSUME OnceInv, TransformProg
  PROVE  OnceInv'
  <1> DEFINE call == [hook |-> "prog", terms |-> Head(progs).equates]
  <1>1. calls = <<>> /\ progs # <<>> /\ ~Halted /\ ClosuresPlaced /\ CallsShaped /\ queue = <<>>
    BY DEF OnceInv, TransformProg, CallsShaped
  <1>2. calls' = Append(calls, call) /\ queue' = <<>> /\ closures' = closures
    BY DEF TransformProg, Enter, Deeper
  <1>3. Halted' = Halted
    BY EnterErrs DEF TransformProg
  <1>4. Shaped(call) /\ call.hook = "prog"
    BY DEF Shaped
  <1> HIDE DEF call
  <1>5. /\ IsList(calls') /\ DOMAIN calls' = {1} /\ calls'[1] = call
    <2>1. IsList(calls) /\ DOMAIN calls = {} /\ Len(calls) = 0
      BY <1>1, EmptyList
    <2>2. /\ IsList(calls') /\ DOMAIN calls' = DOMAIN calls \cup {Len(calls) + 1}
          /\ calls'[Len(calls) + 1] = call
      BY <1>2, <2>1, AppendList
    <2>3. Len(calls) + 1 = 1
      BY <2>1
    <2> QED
      BY <2>1, <2>2, <2>3
  <1>6. calls' # <<>>
    BY <1>5, EmptyList
  <1>7. Aside = {} /\ Running = {} /\ Aside' = {} /\ Running' = {}
    BY <1>1, <1>4, <1>5, EmptyList DEF Aside, Running
  <1>8. \A k, x, c : Holds(k, x, c)' <=> Holds(k, x, c)
    BY <1>1, <1>2, <1>7 DEF Holds
  <1>9. CallsShaped'
    BY <1>1, <1>2, <1>3, <1>4, <1>5, <1>6, <1>7, EmptyList DEF CallsShaped
  <1> QED
    BY <1>1, <1>2, <1>8, <1>9, SameHolds DEF OnceInv

(* UPDATE PROCEDURES takes the first closure out of the queue and transforms it. *)
LEMMA OnceUpdate ==
  ASSUME OnceInv, UpdateProcedure
  PROVE  OnceInv'
  <1>0. PICK n : n = Len(calls) + 1
    OBVIOUS
  <1> DEFINE call == [hook |-> "close", closure |-> Head(queue), layers |-> layers,
                      value |-> value]
  <1>1. calls # <<>> /\ ~Halted /\ ClosuresPlaced /\ CallsShaped
    BY Running1 DEF OnceInv, UpdateProcedure, AllBound
  <1>2. /\ calls' = Append(calls, call) /\ queue' = Tail(queue) /\ queue # <<>>
        /\ UNCHANGED <<progs, closures, errs>>
    BY DEF UpdateProcedure, Deeper
  <1>3. Shaped(call) /\ call.hook = "close" /\ call.closure = Head(queue)
    BY DEF Shaped
  <1> HIDE DEF call
  <1>4. /\ IsList(queue') /\ Head(queue) = queue[1] /\ 1 \in DOMAIN queue
        /\ DOMAIN queue = 1 .. Len(queue) /\ DOMAIN queue' = 1 .. Len(queue) - 1
        /\ Len(queue) \in Nat \ {0}
        /\ \A x \in 1 .. Len(queue) - 1 : queue'[x] = queue[x + 1]
    BY <1>1, <1>2, TailList DEF CallsShaped
  <1>5. /\ IsList(calls') /\ DOMAIN calls' = DOMAIN calls \cup {n}
        /\ n \notin DOMAIN calls /\ calls'[n] = call
        /\ \A k \in DOMAIN calls : calls'[k] = calls[k]
    BY <1>0, <1>1, <1>2, AppendList DEF CallsShaped
  <1>6. n # 1 /\ n # 0 /\ calls' # <<>> /\ 0 \notin DOMAIN calls
    <2>1. 1 \in DOMAIN calls /\ Len(calls) \in Nat /\ DOMAIN calls = 1 .. Len(calls)
      BY <1>1, CallerFacts
    <2>2. 0 \notin DOMAIN calls
      BY <2>1
    <2>3. n # 1 /\ n # 0
      BY <1>0, <1>5, <2>1
    <2>4. calls' # <<>>
      BY <1>5, EmptyList
    <2> QED
      BY <2>2, <2>3, <2>4
  <1>7. /\ Aside' = Aside /\ Running' = Running \cup {n}
        /\ n \notin Aside /\ n \notin Running /\ 0 \notin Aside /\ 0 \notin Running
    BY <1>3, <1>5, <1>6 DEF Aside, Running
  <1>8. CallsShaped'
    <2>1. \A k \in DOMAIN calls' : Shaped(calls'[k]) /\ (calls'[k].hook = "prog" <=> k = 1)
      BY <1>1, <1>3, <1>5, <1>6 DEF CallsShaped
    <2>2. \A k \in Aside' : IsList(calls'[k].queue)
      BY <1>1, <1>5, <1>7 DEF CallsShaped, Aside
    <2> QED
      BY <1>1, <1>2, <1>4, <1>5, <1>6, <2>1, <2>2 DEF CallsShaped, Halted
  <1>9. PICK first : first = queue[1]
    OBVIOUS
  <1>10. \A k, x, c : Holds(k, x, c)' <=>
           \/ k = n /\ x = 0 /\ c = first
           \/ k = 0 /\ x \in 1 .. Len(queue) - 1 /\ queue[x + 1] = c
           \/ k # 0 /\ Holds(k, x, c)
    <2>1. \A k \in Aside : calls'[k] = calls[k]
      BY <1>5 DEF Aside
    <2>2. \A k \in Running : calls'[k] = calls[k]
      BY <1>5 DEF Running
    <2>3. \A x : x \in DOMAIN queue' <=> x \in 1 .. Len(queue) - 1
      BY <1>4
    <2>4. call.closure = first
      BY <1>3, <1>4, <1>9
    <2> QED
      BY <1>4, <1>5, <1>6, <1>7, <2>1, <2>2, <2>3, <2>4 DEF Holds
  <1>11. \A x, c : Holds(0, x, c) <=> x \in DOMAIN queue /\ queue[x] = c
    BY <1>7 DEF Holds
  <1>12. \A x \in 1 .. Len(queue) - 1 : x + 1 \in DOMAIN queue /\ x + 1 # 1
    BY <1>4
  <1>13. \A x \in DOMAIN queue : x # 1 => x - 1 \in 1 .. Len(queue) - 1 /\ (x - 1) + 1 = x
    BY <1>4
  <1>14. \A k, x, c : Holds(k, x, c) => k # n
    BY <1>6, <1>7 DEF Holds
  <1>15. ASSUME NEW c, InOnePlace(c) PROVE InOnePlace(c)'
    <2>1. PICK k, x : Holds(k, x, c) /\ \A j, y : Holds(j, y, c) => j = k /\ y = x
      BY <1>15 DEF InOnePlace
    <2>2. CASE k = 0 /\ x = 1
      <3>1. c = first
        BY <1>9, <1>11, <2>1, <2>2
      <3>2. \A j, y : Holds(j, y, c)' => j = n /\ y = 0
        BY <1>10, <1>11, <1>12, <2>1, <2>2
      <3>3. Holds(n, 0, c)'
        BY <1>10, <3>1
      <3> QED
        BY <3>2, <3>3 DEF InOnePlace
    <2>3. CASE k = 0 /\ x # 1
      <3>1. x \in DOMAIN queue /\ x - 1 \in 1 .. Len(queue) - 1 /\ queue[(x - 1) + 1] = c
        BY <1>11, <1>13, <2>1, <2>3
      <3>2. c # first
        BY <1>4, <1>9, <1>11, <2>1, <2>3
      <3>3. \A j, y : Holds(j, y, c)' => j = 0 /\ y + 1 = x /\ y \in 1 .. Len(queue) - 1
        BY <1>10, <1>11, <1>12, <2>1, <2>3, <3>2
      <3>4. \A y \in 1 .. Len(queue) - 1 : y + 1 = x => y = x - 1
        BY <1>4
      <3>5. Holds(0, x - 1, c)'
        BY <1>10, <3>1
      <3> QED
        BY <3>3, <3>4, <3>5 DEF InOnePlace
    <2>4. CASE k # 0
      <3>1. c # first
        BY <1>4, <1>9, <1>11, <2>1, <2>4
      <3>2. \A j, y : Holds(j, y, c)' => j = k /\ y = x
        BY <1>10, <1>11, <1>12, <2>1, <2>4, <3>1
      <3>3. Holds(k, x, c)'
        BY <1>10, <2>1, <2>4
      <3> QED
        BY <3>2, <3>3 DEF InOnePlace
    <2> QED
      BY <2>2, <2>3, <2>4
  <1>16. \A k, x, c : Holds(k, x, c)' => \E j, y : Holds(j, y, c)
    BY <1>4, <1>9, <1>10, <1>11, <1>12
  <1>17. ClosuresPlaced'
    BY <1>1, <1>2, <1>15, <1>16 DEF ClosuresPlaced
  <1> QED
    BY <1>8, <1>17 DEF OnceInv

(* The closure whose body was transformed is nowhere. *)
LEMMA OnceReturn ==
  ASSUME OnceInv, ReturnFromProc
  PROVE  OnceInv'
  <1>0. PICK n, d : n = Len(calls) /\ d = Top.closure
    OBVIOUS
  <1>1. calls # <<>> /\ ~Halted /\ ClosuresPlaced /\ CallsShaped
    BY Running1 DEF OnceInv, ReturnFromProc
  <1>2. /\ calls' = Caller /\ closures' = [closures EXCEPT ![d].updated = TRUE]
        /\ Top.hook = "close" /\ UNCHANGED <<progs, queue, term, errs>>
    BY <1>0 DEF ReturnFromProc
  <1>3. /\ IsList(calls') /\ DOMAIN calls' = DOMAIN calls \ {n} /\ n \in DOMAIN calls
        /\ \A k \in DOMAIN calls' : calls'[k] = calls[k]
        /\ calls' # <<>> /\ Top = calls[n] /\ 0 \notin DOMAIN calls
    <2>1. 0 \notin DOMAIN calls
      BY <1>1, CallerFacts
    <2> QED
      BY <1>0, <1>1, <1>2, <2>1, CallerFacts
  <1>4. /\ Aside' = Aside /\ Running' = Running \ {n} /\ n \in Running /\ n \notin Aside
        /\ n # 0
    BY <1>2, <1>3 DEF Aside, Running
  <1>5. Holds(n, 0, d)
    BY <1>0, <1>3, <1>4 DEF Holds
  <1>6. d \in DOMAIN closures /\ closures[d].updated = FALSE /\ InOnePlace(d)
        /\ DOMAIN closures[d] = {"layers", "body", "updated"}
    BY <1>1, <1>5 DEF ClosuresPlaced
  <1>7. /\ DOMAIN closures' = DOMAIN closures /\ IsList(closures')
        /\ closures'[d].updated = TRUE /\ DOMAIN closures'[d] = {"layers", "body", "updated"}
        /\ \A c \in DOMAIN closures : c # d => closures'[c] = closures[c]
    <2>1. /\ DOMAIN closures' = DOMAIN closures
          /\ closures' = [c \in DOMAIN closures |-> closures'[c]]
          /\ \A c \in DOMAIN closures : c # d => closures'[c] = closures[c]
          /\ closures'[d] = [closures[d] EXCEPT !.updated = TRUE]
      BY <1>2, <1>6
    <2>2. IsList(closures')
      BY <1>1, <2>1, MapList DEF CallsShaped
    <2> QED
      BY <1>6, <2>1, <2>2
  <1>8. \A k, x, c : Holds(k, x, c)' <=> Holds(k, x, c) /\ k # n
    <2>1. \A k \in Aside : calls'[k] = calls[k]
      BY <1>3, <1>4 DEF Aside
    <2>2. \A k \in Running : k # n => calls'[k] = calls[k]
      BY <1>3, <1>4 DEF Running
    <2> QED
      BY <1>2, <1>4, <2>1, <2>2 DEF Holds
  <1>9. \A x, c : Holds(n, x, c) => x = 0 /\ c = d
    BY <1>0, <1>3, <1>4 DEF Holds
  <1>10. \A k, x : ~Holds(k, x, d)'
    BY <1>5, <1>6, <1>8 DEF InOnePlace
  <1>11. \A k, x, c : c # d => (Holds(k, x, c)' <=> Holds(k, x, c))
    BY <1>8, <1>9
  <1>12. \A c : c # d => (InOnePlace(c)' <=> InOnePlace(c))
    BY <1>11 DEF InOnePlace
  <1>13. ClosuresPlaced'
    BY <1>1, <1>6, <1>7, <1>8, <1>10, <1>11, <1>12 DEF ClosuresPlaced
  <1>14. CallsShaped'
    <2>1. \A k \in DOMAIN calls' : Shaped(calls'[k]) /\ (calls'[k].hook = "prog" <=> k = 1)
      BY <1>1, <1>3 DEF CallsShaped
    <2>2. \A k \in Aside' : IsList(calls'[k].queue)
      BY <1>1, <1>3, <1>4 DEF CallsShaped, Aside
    <2> QED
      BY <1>1, <1>2, <1>3, <1>7, <2>1, <2>2 DEF CallsShaped, Halted
  <1> QED
    BY <1>13, <1>14 DEF OnceInv

(* WITH is left with its queue empty, and takes back the one it put aside. *)
LEMMA OnceLeaveWith ==
  ASSUME OnceInv, LeaveWith
  PROVE  OnceInv'
  <1>0. PICK n : n = Len(calls)
    OBVIOUS
  <1>1. calls # <<>> /\ ~Halted /\ ClosuresPlaced /\ CallsShaped
    BY Running1 DEF OnceInv, LeaveWith, AllBound
  <1>2. /\ calls' = Caller /\ queue' = Top.queue /\ queue = <<>>
        /\ Top.hook = "with" /\ UNCHANGED <<progs, closures, term, errs>>
    BY DEF LeaveWith
  <1>3. /\ IsList(calls') /\ DOMAIN calls' = DOMAIN calls \ {n} /\ n \in DOMAIN calls
        /\ \A k \in DOMAIN calls' : calls'[k] = calls[k]
        /\ calls' # <<>> /\ Top = calls[n] /\ 0 \notin DOMAIN calls
    <2>1. 0 \notin DOMAIN calls
      BY <1>1, CallerFacts
    <2> QED
      BY <1>0, <1>1, <1>2, <2>1, CallerFacts
  <1>4. /\ Aside' = Aside \ {n} /\ Running' = Running /\ n \in Aside /\ n \notin Running
        /\ 0 \notin Aside /\ 0 \notin Running
    BY <1>2, <1>3 DEF Aside, Running
  <1>5. \A k, x, c : Holds(k, x, c)' <=> (k = 0 /\ Holds(n, x, c)) \/ (k # n /\ Holds(k, x, c))
    <2>1. \A k \in Aside : k # n => calls'[k] = calls[k]
      BY <1>3, <1>4 DEF Aside
    <2>2. \A k \in Running : calls'[k] = calls[k]
      BY <1>3, <1>4 DEF Running
    <2>3. DOMAIN queue = {}
      BY <1>2, EmptyList
    <2> QED
      BY <1>2, <1>3, <1>4, <2>1, <2>2, <2>3 DEF Holds
  <1>6. \A x, c : ~Holds(0, x, c)
    BY <1>2, <1>4, EmptyList DEF Holds
  <1>7. ASSUME NEW c, InOnePlace(c) PROVE InOnePlace(c)'
    <2>1. PICK k, x : Holds(k, x, c) /\ \A j, y : Holds(j, y, c) => j = k /\ y = x
      BY <1>7 DEF InOnePlace
    <2>2. CASE k = n
      <3>1. Holds(0, x, c)' /\ \A j, y : Holds(j, y, c)' => j = 0 /\ y = x
        BY <1>5, <2>1, <2>2
      <3> QED
        BY <3>1 DEF InOnePlace
    <2>3. CASE k # n
      <3>1. Holds(k, x, c)' /\ \A j, y : Holds(j, y, c)' => j = k /\ y = x
        BY <1>5, <2>1, <2>3
      <3> QED
        BY <3>1 DEF InOnePlace
    <2> QED
      BY <2>2, <2>3
  <1>8. \A k, x, c : Holds(k, x, c)' => \E j : Holds(j, x, c)
    BY <1>5
  <1>9. ClosuresPlaced'
    BY <1>1, <1>2, <1>7, <1>8 DEF ClosuresPlaced
  <1>10. CallsShaped'
    <2>1. \A k \in DOMAIN calls' : Shaped(calls'[k]) /\ (calls'[k].hook = "prog" <=> k = 1)
      BY <1>1, <1>3 DEF CallsShaped
    <2>2. \A k \in Aside' : IsList(calls'[k].queue)
      BY <1>1, <1>3, <1>4 DEF CallsShaped, Aside
    <2>3. IsList(queue')
      BY <1>1, <1>2, <1>3, <1>4 DEF CallsShaped
    <2> QED
      BY <1>1, <1>2, <1>3, <2>1, <2>2, <2>3 DEF CallsShaped, Halted
  <1> QED
    BY <1>9, <1>10 DEF OnceInv

(* PROG is left with its queue empty. *)
LEMMA OnceLeaveProg ==
  ASSUME OnceInv, LeaveProg
  PROVE  OnceInv'
  <1>1. calls # <<>> /\ ~Halted /\ ClosuresPlaced /\ CallsShaped
    BY Running1 DEF OnceInv, LeaveProg, AllBound
  <1>2. /\ calls' = Caller /\ queue = <<>> /\ Top.hook = "prog" /\ term = NoTerm
        /\ UNCHANGED <<progs, queue, closures, term, errs>>
    BY DEF LeaveProg, AllBound, Returning
  <1>3. calls' = <<>> /\ DOMAIN calls' = {}
    BY <1>1, <1>2, CallerFacts, EmptyList
  <1>4. DOMAIN calls = {1} /\ calls[1].hook = "prog"
    <2>1. /\ Len(calls) \in Nat \ {0} /\ DOMAIN calls = 1 .. Len(calls)
          /\ DOMAIN Caller = 1 .. Len(calls) - 1 /\ calls[1].hook = "prog"
      BY <1>1, CallerFacts
    <2>2. Len(calls) = 1
      BY <1>1, <1>2, CallerFacts
    <2> QED
      BY <2>1, <2>2
  <1>5. Aside = {} /\ Running = {} /\ Aside' = {} /\ Running' = {}
    BY <1>3, <1>4 DEF Aside, Running
  <1>6. \A k, x, c : Holds(k, x, c)' <=> Holds(k, x, c)
    BY <1>2, <1>5 DEF Holds
  <1>7. CallsShaped'
    BY <1>1, <1>2, <1>3, <1>5, EmptyList DEF CallsShaped, Halted
  <1> QED
    BY <1>1, <1>2, <1>6, <1>7, SameHolds DEF OnceInv

(* After HALT nothing is promised. *)
LEMMA OnceHalt ==
  ASSUME OnceInv, Halt
  PROVE  OnceInv'
  <1>1. /\ calls' = <<>> /\ term' = NoTerm /\ progs' = <<>> /\ Halted'
        /\ UNCHANGED <<queue, closures>>
    BY DEF Halt, NestedTooDeeply, OutOfMemory, Stop, Halted
  <1>2. DOMAIN calls' = {} /\ IsList(calls') /\ Aside' = {}
    BY <1>1, EmptyList DEF Aside
  <1> QED
    BY <1>1, <1>2 DEF OnceInv, CallsShaped

(* Binding a name moves no closure. *)
LEMMA OnceBind ==
  ASSUME OnceInv, Bind
  PROVE  OnceInv'
  <1>0. PICK n, rest : n = Len(calls) /\ rest = Tail(Top.terms)
    OBVIOUS
  <1>1. calls # <<>> /\ ~Halted /\ CallsShaped
    BY Running1 DEF OnceInv, Bind
  <1>2. /\ calls' = [calls EXCEPT ![n].terms = rest] /\ Top.hook \in {"with", "prog"}
        /\ UNCHANGED <<progs, queue, closures>>
    BY <1>0 DEF Bind
  <1>3. Halted' = Halted
    <2>1. PICK new : errs' = errs \cup UNION { BaseErr(v) : v \in new }
      <3> DEFINE Now(p) == LET home == HomeOf(layers, pointers[p].name)
                           IN IF home = 0 THEN Unbound ELSE binders'[home][pointers[p].name]
                 bound  == { p \in bases : Now(p) # Unbound }
      <3>1. errs' = errs \cup UNION { BaseErr(Now(p)) : p \in bound }
        BY DEF Bind, UpdatePointers
      <3> HIDE DEF Now, bound
      <3>2. errs' = errs \cup UNION { BaseErr(v) : v \in { Now(p) : p \in bound } }
        BY <3>1
      <3> QED
        BY <3>2
    <2>2. "haltErr" \notin UNION { BaseErr(v) : v \in new }
      BY DEF BaseErr
    <2> QED
      BY <2>1, <2>2, OtherErrs
  <1>4. IsList(calls) /\ n \in DOMAIN calls /\ Top = calls[n] /\ Shaped(calls[n])
    BY <1>0, <1>1, CallerFacts DEF CallsShaped
  <1>5. /\ DOMAIN calls' = DOMAIN calls /\ calls' = [k \in DOMAIN calls |-> calls'[k]]
        /\ calls'[n] = [calls[n] EXCEPT !.terms = rest]
        /\ \A k \in DOMAIN calls : k # n => calls'[k] = calls[k]
    BY <1>2, <1>4
  <1>6. IsList(calls') /\ calls' # <<>>
    BY <1>4, <1>5, MapList, EmptyList
  <1>7. /\ Shaped(calls'[n]) /\ calls'[n].hook = calls[n].hook
        /\ calls[n].hook = "with" => calls'[n].queue = calls[n].queue
    BY <1>2, <1>4, <1>5 DEF Shaped
  <1>8. calls[n].hook # "close"
    BY <1>2, <1>4
  <1>9. \A k \in DOMAIN calls : Shaped(calls[k])
    BY <1>1 DEF CallsShaped
  <1> QED
    BY <1>1, <1>2, <1>3, <1>5, <1>6, <1>7, <1>8, <1>9, KeepOnce

(* Calling a form moves no closure. *)
LEMMA OnceApply ==
  ASSUME OnceInv, TransformApply
  PROVE  OnceInv'
  <1>1. calls # <<>> /\ ~Halted /\ CallsShaped
    BY Running1 DEF OnceInv, TransformApply, Transforming, NoTerm
  <1>2. UNCHANGED <<progs, queue, closures>>
    BY DEF TransformApply
  <1>3. Halted' = Halted
    BY DEF TransformApply, Halted
  <1>4. IsList(calls) /\ \A k \in DOMAIN calls : Shaped(calls[k])
    BY <1>1 DEF CallsShaped
  <1>5. CASE calls' = calls
    BY <1>1, <1>2, <1>3, <1>4, <1>5, KeepOnce
  <1>6. CASE calls' = Deeper([hook |-> "apply", layers |-> layers])
    <2> DEFINE call == [hook |-> "apply", layers |-> layers]
               n == Len(calls) + 1
    <2>1. Shaped(call) /\ call.hook = "apply"
      BY DEF Shaped
    <2>2. calls' = Append(calls, call)
      BY <1>6 DEF Deeper
    <2> HIDE DEF call
    <2>3. /\ IsList(calls') /\ DOMAIN calls' = DOMAIN calls \cup {n}
          /\ n \notin DOMAIN calls /\ calls'[n] = call
          /\ \A k \in DOMAIN calls : calls'[k] = calls[k]
      BY <1>4, <2>2, AppendList
    <2>4. n # 1 /\ calls' # <<>>
      <3>1. 1 \in DOMAIN calls
        BY <1>1, CallerFacts
      <3> QED
        BY <2>3, <3>1, EmptyList
    <2> HIDE DEF n
    <2> QED
      BY <1>1, <1>2, <1>3, <1>4, <2>1, <2>3, <2>4, KeepOnce
  <1> QED
    BY <1>5, <1>6 DEF TransformApply

(* Every step keeps every closure in one place. *)
LEMMA OnceStep ==
  ASSUME OnceInv, [Next]_vars
  PROVE  OnceInv'
  <1>1. CASE TransformName
    <2>1. calls # <<>> /\ ~Halted /\ CallsShaped
      BY <1>1, Running1 DEF OnceInv, TransformName, Transforming, NoTerm
    <2>2. Halted' = Halted /\ UNCHANGED <<calls, queue, closures>>
      BY <1>1 DEF TransformName, Halted
    <2> QED
      BY <2>1, <2>2, KeepOnce DEF CallsShaped
  <1>2. CASE TransformRefer
    <2>1. calls # <<>> /\ ~Halted /\ CallsShaped
      BY <1>2, Running1 DEF OnceInv, TransformRefer, Transforming, NoTerm
    <2>2. Halted' = Halted /\ UNCHANGED <<calls, queue, closures>>
      BY <1>2 DEF TransformRefer, BaseErr, Halted
    <2> QED
      BY <2>1, <2>2, KeepOnce DEF CallsShaped
  <1>3. CASE TransformFormMake
    <2>1. calls # <<>> /\ ~Halted /\ CallsShaped
      BY <1>3, Running1 DEF OnceInv, TransformFormMake, Transforming, NoTerm
    <2>2. Halted' = Halted /\ UNCHANGED <<calls, queue, closures>>
      BY <1>3 DEF TransformFormMake, Halted
    <2> QED
      BY <2>1, <2>2, KeepOnce DEF CallsShaped
  <1>4. CASE ReturnFromForm
    <2>1. calls # <<>> /\ ~Halted /\ CallsShaped
      BY <1>4, Running1 DEF OnceInv, ReturnFromForm
    <2>2. Halted' = Halted /\ UNCHANGED <<queue, closures>> /\ calls' = Caller /\ Top.hook = "apply"
      BY <1>4 DEF ReturnFromForm, Halted
    <2>3. /\ IsList(calls') /\ DOMAIN calls' = DOMAIN calls \ {Len(calls)} /\ calls' # <<>>
          /\ calls[Len(calls)].hook = "apply" /\ \A k \in DOMAIN calls' : calls'[k] = calls[k]
      BY <2>1, <2>2, CallerFacts
    <2>4. \A k \in DOMAIN calls : Shaped(calls[k])
      BY <2>1 DEF CallsShaped
    <2> QED
      BY <2>1, <2>2, <2>3, <2>4, KeepOnce
  <1>5. CASE UNCHANGED vars
    <2>1. UNCHANGED <<progs, queue, closures, calls, term, errs>>
      BY <1>5 DEF vars
    <2>2. \A k, x, c : Holds(k, x, c)' <=> Holds(k, x, c)
      BY <2>1 DEF Holds, Aside, Running
    <2>3. CallsShaped' <=> CallsShaped
      BY <2>1 DEF CallsShaped, Aside, Halted
    <2>4. Halted' = Halted
      BY <2>1 DEF Halted
    <2> QED
      BY <2>1, <2>2, <2>3, <2>4, SameHolds DEF OnceInv
  <1> QED
    BY <1>1, <1>2, <1>3, <1>4, <1>5, OnceProcMake, OnceWith, OnceProg, OnceUpdate,
       OnceReturn, OnceLeaveWith, OnceLeaveProg, OnceHalt, OnceBind, OnceApply DEF Next

(* What the places of a closure say of their number. *)
LEMMA PlacesCounted ==
  ASSUME CallsShaped, ClosuresPlaced
  PROVE  EveryBodyOnce
  <1> SUFFICES ASSUME NEW c \in DOMAIN closures
               PROVE  LET running == { i \in DOMAIN calls :
                                         calls[i].hook = "close" /\ calls[i].closure = c }
                          aside   == { i \in Aside : InQueue(c, calls[i].queue) # {} }
                          places  == Cardinality(running) + Cardinality(InQueue(c, queue))
                                       + Cardinality(aside)
                      IN  places = IF closures[c].updated THEN 0 ELSE 1
    BY DEF EveryBodyOnce
  <1> DEFINE running == { i \in DOMAIN calls : calls[i].hook = "close" /\ calls[i].closure = c }
             aside   == { i \in Aside : InQueue(c, calls[i].queue) # {} }
  <1>1. \A k : k \in running <=> k \in Running /\ Holds(k, 0, c) /\ calls[k].closure = c
    BY DEF Running, Holds
  <1>2. \A x : x \in InQueue(c, queue) <=> x \in DOMAIN queue /\ queue[x] = c
    BY DEF InQueue
  <1>3. \A k : k \in aside <=> k \in Aside /\ \E x \in DOMAIN calls[k].queue : calls[k].queue[x] = c
    BY DEF InQueue
  <1>4. 0 \notin Aside /\ 0 \notin Running /\ Aside \cap Running = {}
    <2>1. 0 \notin DOMAIN calls
      <3>1. DOMAIN calls = 1 .. Len(calls)
        BY DEF CallsShaped, IsList
      <3> QED
        BY <3>1
    <2> QED
      BY <2>1 DEF Aside, Running
  <1>5. Cardinality({}) = 0
    BY FS_EmptySet
  <1> HIDE DEF running, aside
  <1> DEFINE places == Cardinality(running) + Cardinality(InQueue(c, queue)) + Cardinality(aside)
  <1>6. closures[c].updated = TRUE => places = 0
    <2> SUFFICES ASSUME closures[c].updated = TRUE PROVE places = 0
      OBVIOUS
    <2>1. \A k, x : ~Holds(k, x, c)
      BY DEF ClosuresPlaced
    <2>2. running = {} /\ InQueue(c, queue) = {} /\ aside = {}
      BY <1>1, <1>2, <1>3, <2>1 DEF Holds
    <2> QED
      BY <1>5, <2>2
  <1>7. closures[c].updated = FALSE => places = 1
    <2> SUFFICES ASSUME closures[c].updated = FALSE PROVE places = 1
      OBVIOUS
    <2>1. PICK k, x : Holds(k, x, c) /\ \A j, y : Holds(j, y, c) => j = k /\ y = x
      BY DEF ClosuresPlaced, InOnePlace
    <2>2. CASE k = 0 /\ x \in DOMAIN queue /\ queue[x] = c
      <3>1. running = {} /\ InQueue(c, queue) = {x} /\ aside = {}
        BY <1>1, <1>2, <1>3, <1>4, <2>1, <2>2 DEF Holds
      <3>2. Cardinality({x}) = 1
        BY FS_Singleton
      <3>3. 1 + 0 + 0 = 1 /\ 0 + 1 + 0 = 1 /\ 0 + 0 + 1 = 1
        OBVIOUS
      <3> QED
        BY <1>5, <3>1, <3>2, <3>3
    <2>3. CASE k \in Aside /\ x \in DOMAIN calls[k].queue /\ calls[k].queue[x] = c
      <3>1. running = {} /\ InQueue(c, queue) = {} /\ aside = {k}
        BY <1>1, <1>2, <1>3, <1>4, <2>1, <2>3 DEF Holds
      <3>2. Cardinality({k}) = 1
        BY FS_Singleton
      <3>3. 1 + 0 + 0 = 1 /\ 0 + 1 + 0 = 1 /\ 0 + 0 + 1 = 1
        OBVIOUS
      <3> QED
        BY <1>5, <3>1, <3>2, <3>3
    <2>4. CASE k \in Running /\ x = 0 /\ calls[k].closure = c
      <3>1. running = {k} /\ InQueue(c, queue) = {} /\ aside = {}
        BY <1>1, <1>2, <1>3, <1>4, <2>1, <2>4 DEF Holds
      <3>2. Cardinality({k}) = 1
        BY FS_Singleton
      <3>3. 1 + 0 + 0 = 1 /\ 0 + 1 + 0 = 1 /\ 0 + 0 + 1 = 1
        OBVIOUS
      <3> QED
        BY <1>5, <3>1, <3>2, <3>3
    <2> QED
      BY <2>1, <2>2, <2>3, <2>4 DEF Holds
  <1>8. closures[c].updated \in BOOLEAN
    BY DEF ClosuresPlaced
  <1>9. places = IF closures[c].updated THEN 0 ELSE 1
    BY <1>6, <1>7, <1>8
  <1> QED
    BY <1>9 DEF running, aside

(* Every closure is in one place in all states. *)
LEMMA OnceAlways == Spec => []OnceInv
  BY OnceInitially, OnceStep, PTL DEF Spec

(***************************************************************************)
(* No body of a PROC is lost and none is transformed twice, whatever the   *)
(* program and however its scopes, bodies and calls of forms nest.         *)
(***************************************************************************)
THEOREM BodiesOnce == Spec => []EveryBodyOnce
  <1>1. OnceInv => EveryBodyOnce
    <2>1. Halted /\ OnceInv => calls = <<>>
      BY DEF OnceInv, CallsShaped
    <2>2. calls = <<>> => EveryBodyOnce
      BY DEF EveryBodyOnce
    <2> QED
      BY <2>1, <2>2, PlacesCounted DEF OnceInv
  <1> QED
    BY <1>1, OnceAlways, PTL

-----------------------------------------------------------------------------
(***************************************************************************)
(* Scopes inside scopes                                                    *)
(***************************************************************************)

(* A list of layers to look names up in. *)
IsLayers(ls) == ls \in Seq(DOMAIN binders) /\ ls # <<>>

GoodValue(T, v) == v # Unbound /\ (v.hook = "form" => IsLayers(v.layers) /\ v.body \in T)

(* The layers of call K, while it is the last one. *)
LayersOf(k) == IF k = Len(calls) THEN layers ELSE calls[k + 1].layers

(* Call K is a WITH, or runs inside one. *)
Inside(k) == \E i \in Aside : i <= k

BindersTyped(T) ==
  /\ progs \in Seq([hook : {"prog"}, equates : EquatesOf(T)])
  /\ IsList(binders)
  /\ \A h \in DOMAIN binders : \A x \in DOMAIN binders[h] :
       binders[h][x] = Unbound \/ GoodValue(T, binders[h][x])
  /\ GoodValue(T, value)
  /\ layers \in Seq(DOMAIN binders)
  /\ calls # <<>> => layers # <<>>

CallsTyped(T, I) ==
  /\ \A k \in DOMAIN calls :
       /\ calls[k].hook # "prog" => IsLayers(calls[k].layers)
       /\ calls[k].hook = "close" => GoodValue(T, calls[k].value)
  /\ \A k \in Scopes : calls[k].terms \in EquatesOf(T)
  /\ \A k \in Aside : calls[k].terms \in EquatesOf(I) /\ calls[k].body \in I

TermsTyped(T, I) ==
  /\ \A c \in DOMAIN closures : IsLayers(closures[c].layers) /\ closures[c].body \in T
  /\ term \in T \cup {NoTerm}
  /\ Aside # {} => term \in I \cup {NoTerm}

ScopeTyped(T, I) == BindersTyped(T) /\ CallsTyped(T, I) /\ TermsTyped(T, I)

(* No two scopes have the same layer, and inside a WITH there is no way out *)
(* of its layers but for other WITHs.                                       *)
ScopesNested(I) ==
  /\ \A k \in DOMAIN calls : Inside(k - 1) =>
       /\ calls[k].hook # "apply"
       /\ calls[k].hook = "close" => LayersOf(k) = LayersOf(k - 1)
  /\ Aside # {} => \A x \in DOMAIN queue :
       closures[queue[x]].layers = layers /\ closures[queue[x]].body \in I
  /\ \A k \in Aside : Inside(k - 1) => \A x \in DOMAIN calls[k].queue :
       /\ closures[calls[k].queue[x]].layers = calls[k].layers
       /\ closures[calls[k].queue[x]].body \in I
  /\ \A j, k \in Scopes : Head(LayersOf(j)) = Head(LayersOf(k)) => j = k

(* Name X of layer H is that of an equate that a scope has still to bind. *)
Pending(h, x) ==
  \E i \in Scopes : /\ h = Head(LayersOf(i))
                    /\ \E j \in DOMAIN calls[i].terms : calls[i].terms[j].name = x

UnboundPending ==
  \A h \in DOMAIN binders : \A x \in DOMAIN binders[h] :
    binders[h][x] = Unbound => Pending(h, x)

Full(h) == \A x \in DOMAIN binders[h] : binders[h][x] # Unbound

ClosesFull == \A k \in Running : Full(Head(LayersOf(k)))

ScopeInv(T, I) ==
  ScopeTyped(T, I) /\ ScopesNested(I) /\ UnboundPending /\ ClosesFull

SomeInv(T, I) == OnceInv /\ (~Halted => ScopeInv(T, I))

(* A call is begun: those before it stay as they are. *)
LEMMA PushCall ==
  ASSUME CallsShaped, calls # <<>>, NEW call, calls' = Append(calls, call),
         call.layers = layers, NEW n, n = Len(calls) + 1
  PROVE  /\ DOMAIN calls' = DOMAIN calls \cup {n} /\ n \notin DOMAIN calls
         /\ n # 1 /\ n - 1 = Len(calls) /\ n - 1 \in DOMAIN calls /\ Len(calls') = n
         /\ DOMAIN calls = 1 .. n - 1 /\ n \in Nat /\ calls' # <<>>
         /\ calls'[n] = call /\ LayersOf(n)' = layers' /\ LayersOf(n - 1) = layers
         /\ \A k \in DOMAIN calls : calls'[k] = calls[k] /\ LayersOf(k)' = LayersOf(k)
  <1>1. /\ IsList(calls') /\ Len(calls') = n /\ DOMAIN calls' = DOMAIN calls \cup {n}
        /\ n \notin DOMAIN calls /\ calls'[n] = call
        /\ \A k \in DOMAIN calls : calls'[k] = calls[k]
        /\ DOMAIN calls = 1 .. Len(calls)
    BY AppendList DEF CallsShaped
  <1>2. 1 \in DOMAIN calls /\ Len(calls) \in Nat \ {0}
    BY CallerFacts
  <1>3. n # 1 /\ n - 1 = Len(calls) /\ n - 1 \in DOMAIN calls /\ n \in Nat
    BY <1>1, <1>2
  <1>4. calls' # <<>>
    BY <1>1, EmptyList
  <1>5. LayersOf(n)' = layers' /\ LayersOf(n - 1) = layers
    BY <1>1, <1>3 DEF LayersOf
  <1>6. \A k \in DOMAIN calls : LayersOf(k)' = LayersOf(k)
    <2> TAKE k \in DOMAIN calls
    <2>1. k # n /\ k \in Int
      BY <1>1
    <2>2. LayersOf(k)' = calls'[k + 1].layers
      BY <1>1, <2>1 DEF LayersOf
    <2>3. CASE k = n - 1
      BY <1>1, <1>3, <2>2, <2>3 DEF LayersOf
    <2>4. CASE k # n - 1
      <3>1. k + 1 \in DOMAIN calls
        BY <1>1, <1>3, <2>4
      <3> QED
        BY <1>1, <1>3, <2>2, <2>4, <3>1 DEF LayersOf
    <2> QED
      BY <2>3, <2>4
  <1> QED
    BY <1>1, <1>3, <1>4, <1>5, <1>6

(* The last call ends: those before it stay as they are. *)
LEMMA PopCall ==
  ASSUME CallsShaped, calls # <<>>, calls' = Caller, Top.hook # "prog",
         layers' = Top.layers, NEW n, n = Len(calls)
  PROVE  /\ DOMAIN calls' = DOMAIN calls \ {n} /\ n \in DOMAIN calls /\ n # 1
         /\ n - 1 \in DOMAIN calls' /\ Len(calls') = n - 1 /\ DOMAIN calls = 1 .. n
         /\ n \in Nat /\ calls' # <<>>
         /\ Top = calls[n] /\ LayersOf(n) = layers /\ LayersOf(n - 1) = layers'
         /\ \A k \in DOMAIN calls' : calls'[k] = calls[k] /\ LayersOf(k)' = LayersOf(k)
  <1>1. /\ IsList(calls') /\ Len(calls') = n - 1 /\ n \in Nat \ {0} /\ n # 1
        /\ DOMAIN calls' = DOMAIN calls \ {n} /\ n \in DOMAIN calls /\ Top = calls[n]
        /\ DOMAIN calls = 1 .. n /\ DOMAIN calls' = 1 .. n - 1 /\ calls' # <<>>
        /\ \A k \in DOMAIN calls' : calls'[k] = calls[k]
    BY CallerFacts
  <1>2. n - 1 \in DOMAIN calls' /\ n - 1 # n /\ (n - 1) + 1 = n
    BY <1>1
  <1>3. LayersOf(n) = layers /\ LayersOf(n - 1) = layers'
    BY <1>1, <1>2 DEF LayersOf
  <1>4. \A k \in DOMAIN calls' : LayersOf(k)' = LayersOf(k)
    <2> TAKE k \in DOMAIN calls'
    <2>1. CASE k = n - 1
      BY <1>1, <1>3, <2>1 DEF LayersOf
    <2>2. CASE k # n - 1
      <3>1. k + 1 \in DOMAIN calls' /\ k # n
        BY <1>1, <2>2
      <3> QED
        BY <1>1, <2>2, <3>1 DEF LayersOf
    <2> QED
      BY <2>1, <2>2
  <1> QED
    BY <1>1, <1>2, <1>3, <1>4

(* Where a name is found. *)
LEMMA HomeFacts ==
  ASSUME NEW ls \in Seq(DOMAIN binders), NEW x
  PROVE  \/ HomeOf(ls, x) = 0 /\ \A i \in DOMAIN ls : x \notin DOMAIN binders[ls[i]]
         \/ /\ HomeOf(ls, x) \in DOMAIN binders /\ x \in DOMAIN binders[HomeOf(ls, x)]
            /\ \E i \in DOMAIN ls : HomeOf(ls, x) = ls[i]
  <1> DEFINE found == { i \in DOMAIN ls : x \in DOMAIN binders[ls[i]] }
             least == CHOOSE i \in found : \A j \in found : i <= j
  <1>1. HomeOf(ls, x) = IF found = {} THEN 0 ELSE ls[least]
    BY DEF HomeOf
  <1>2. DOMAIN ls = 1 .. Len(ls) /\ \A i \in DOMAIN ls : ls[i] \in DOMAIN binders
    BY LenProperties
  <1>3. CASE found = {}
    BY <1>1, <1>3
  <1>4. CASE found # {}
    <2>1. found \in SUBSET Nat
      BY <1>2, LenProperties
    <2>2. \E i \in found : \A j \in found : i <= j
      BY <1>4, <2>1, LeastMember
    <2>3. least \in found
      BY <2>2
    <2> HIDE DEF least
    <2> QED
      BY <1>1, <1>2, <1>4, <2>3
  <1> QED
    BY <1>3, <1>4

(* Lists of layers and values stay good when layers are added. *)
LEMMA GoodStays ==
  ASSUME DOMAIN binders \subseteq DOMAIN binders', NEW T
  PROVE  /\ \A ls : ls \in Seq(DOMAIN binders) => ls \in Seq(DOMAIN binders')
         /\ \A ls : IsLayers(ls) => IsLayers(ls)'
         /\ \A v : GoodValue(T, v) => GoodValue(T, v)'
  <1>1. ASSUME NEW ls \in Seq(DOMAIN binders) PROVE ls \in Seq(DOMAIN binders')
    <2>1. ls \in [1 .. Len(ls) -> DOMAIN binders'] /\ Len(ls) \in Nat
      BY LenProperties
    <2> QED
      BY <2>1, SeqDef
  <1>2. \A ls : IsLayers(ls) => IsLayers(ls)'
    BY <1>1 DEF IsLayers
  <1> QED
    BY <1>1, <1>2 DEF GoodValue

(* Names are bound and scopes are left only when nothing else depends on it. *)
LEMMA PendingStays ==
  ASSUME UnboundPending, ClosesFull, binders' = binders,
         \A k \in DOMAIN calls \cap DOMAIN calls' :
           /\ LayersOf(k)' = LayersOf(k)
           /\ calls'[k] = calls[k],
         \A k \in DOMAIN calls \ DOMAIN calls' :
           calls[k].hook \in {"with", "prog"} => calls[k].terms = <<>>,
         \A k \in DOMAIN calls' \ DOMAIN calls :
           calls'[k].hook = "close" => Full(Head(LayersOf(k)'))
  PROVE  UnboundPending' /\ ClosesFull'
  <1>1. ASSUME NEW h, NEW x, Pending(h, x) PROVE Pending(h, x)'
    <2>1. PICK i \in Scopes : /\ h = Head(LayersOf(i))
                              /\ \E j \in DOMAIN calls[i].terms : calls[i].terms[j].name = x
      BY <1>1 DEF Pending
    <2>2. i \in DOMAIN calls' /\ i \in DOMAIN calls
      <3>1. calls[i].terms # <<>>
        BY <2>1, EmptyList
      <3> QED
        BY <3>1 DEF Scopes
    <2>3. i \in Scopes' /\ h = Head(LayersOf(i)') /\ calls'[i] = calls[i]
      BY <2>1, <2>2 DEF Scopes
    <2> QED
      BY <2>1, <2>3 DEF Pending
  <1>2. UnboundPending'
    BY <1>1 DEF UnboundPending
  <1>3. \A h : Full(h)' <=> Full(h)
    BY DEF Full
  <1>4. ASSUME NEW k \in Running' PROVE Full(Head(LayersOf(k)'))
    <2>1. k \in DOMAIN calls' /\ calls'[k].hook = "close"
      BY DEF Running
    <2>2. CASE k \in DOMAIN calls
      BY <2>1, <2>2 DEF ClosesFull, Running
    <2> QED
      BY <2>1, <2>2
  <1>5. ClosesFull'
    BY <1>3, <1>4 DEF ClosesFull
  <1> QED
    BY <1>2, <1>5

(* A value is returned, and at most a closure is made. *)
LEMMA ScopeReturn ==
  ASSUME NEW T, NEW I, ScopeInv(T, I), CallsShaped, calls # <<>>,
         UNCHANGED <<calls, layers, binders, progs>>,
         term' = NoTerm, GoodValue(T, value'),
         \/ UNCHANGED <<queue, closures>>
         \/ /\ ClosuresPlaced
            /\ term # NoTerm /\ term.body \in T /\ (term \in I => term.body \in I)
            /\ LET new == [layers |-> layers, body |-> term.body, updated |-> FALSE]
               IN closures' = Append(closures, new) /\ queue' = Append(queue, Len(closures) + 1)
  PROVE  ScopeInv(T, I)'
  <1>1. Aside' = Aside /\ Scopes' = Scopes /\ Running' = Running
    BY DEF Aside, Scopes, Running
  <1>2. \A k : LayersOf(k)' = LayersOf(k) /\ (Inside(k)' <=> Inside(k))
    BY <1>1 DEF LayersOf, Inside
  <1>3. UnboundPending' /\ ClosesFull'
    BY <1>2, PendingStays DEF ScopeInv
  <1>4. IsLayers(layers)
    BY DEF ScopeInv, ScopeTyped, BindersTyped, IsLayers
  <1>5. BindersTyped(T)' /\ CallsTyped(T, I)'
    BY <1>1 DEF ScopeInv, ScopeTyped, BindersTyped, CallsTyped, GoodValue, IsLayers
  <1>6. CASE UNCHANGED <<queue, closures>>
    <2>1. TermsTyped(T, I)'
      BY <1>1, <1>6 DEF ScopeInv, ScopeTyped, TermsTyped, IsLayers
    <2>2. ScopesNested(I)'
      BY <1>1, <1>2, <1>6 DEF ScopeInv, ScopesNested
    <2> QED
      BY <1>3, <1>5, <2>1, <2>2 DEF ScopeInv, ScopeTyped
  <1>7. ASSUME NEW n, n = Len(closures) + 1, NEW new,
               new = [layers |-> layers, body |-> term.body, updated |-> FALSE],
               ClosuresPlaced, term # NoTerm, term.body \in T, term \in I => term.body \in I,
               closures' = Append(closures, new), queue' = Append(queue, n)
        PROVE  ScopeInv(T, I)'
    <2>1. /\ DOMAIN closures' = DOMAIN closures \cup {n} /\ closures'[n] = new
          /\ \A c \in DOMAIN closures : closures'[c] = closures[c]
      BY <1>7, AppendList DEF CallsShaped
    <2>2. \A x \in DOMAIN queue' : queue'[x] = n \/ (x \in DOMAIN queue /\ queue'[x] = queue[x])
      BY <1>7, AppendList DEF CallsShaped
    <2>3. \A x \in DOMAIN queue : queue[x] \in DOMAIN closures
      BY <1>7 DEF ClosuresPlaced, Holds
    <2>4. \A k \in Aside : \A x \in DOMAIN calls[k].queue : calls[k].queue[x] \in DOMAIN closures
      BY <1>7 DEF ClosuresPlaced, Holds
    <2>5. new.layers = layers /\ new.body \in T /\ (Aside # {} => new.body \in I)
      <3>1. Aside # {} => term \in I
        BY <1>7 DEF ScopeInv, ScopeTyped, TermsTyped
      <3> QED
        BY <1>7, <3>1
    <2>6. TermsTyped(T, I)'
      BY <1>1, <1>4, <2>1, <2>5 DEF ScopeInv, ScopeTyped, TermsTyped, IsLayers
    <2>7. ScopesNested(I)'
      <3>1. Aside # {} => \A x \in DOMAIN queue' :
              closures'[queue'[x]].layers = layers /\ closures'[queue'[x]].body \in I
        BY <2>1, <2>2, <2>3, <2>5 DEF ScopeInv, ScopesNested
      <3>2. \A k \in Aside : Inside(k - 1) => \A x \in DOMAIN calls[k].queue :
              /\ closures'[calls[k].queue[x]].layers = calls[k].layers
              /\ closures'[calls[k].queue[x]].body \in I
        BY <2>1, <2>4 DEF ScopeInv, ScopesNested
      <3> QED
        BY <1>1, <1>2, <3>1, <3>2 DEF ScopeInv, ScopesNested
    <2> QED
      BY <1>3, <1>5, <2>6, <2>7 DEF ScopeInv, ScopeTyped
  <1> QED
    BY <1>6, <1>7

(* A term without a scope is transformed. *)
LEMMA ScopeTransform ==
  ASSUME NEW T, NEW I, Plain(T, I), SomeInv(T, I),
         TransformName \/ TransformRefer \/ TransformProcMake \/ TransformFormMake
  PROVE  SomeInv(T, I)'
  <1>1. OnceInv' /\ term # NoTerm
    BY OnceStep DEF SomeInv, Next, TransformName, TransformRefer, TransformProcMake,
                    TransformFormMake, Transforming, NoTerm
  <1>2. calls # <<>> /\ ~Halted /\ ClosuresPlaced /\ CallsShaped
    BY <1>1, Running1 DEF SomeInv, OnceInv
  <1>3. ScopeInv(T, I) /\ term \in T
    BY <1>1, <1>2 DEF SomeInv, ScopeInv, ScopeTyped, TermsTyped
  <1>4. /\ UNCHANGED <<calls, layers, binders, progs>> /\ term' = NoTerm
    BY DEF TransformName, TransformRefer, TransformProcMake, TransformFormMake, Return
  <1>5. layers \in Seq(DOMAIN binders) /\ IsLayers(layers)
    BY <1>2, <1>3 DEF ScopeInv, ScopeTyped, BindersTyped, IsLayers
  <1>6. \A v : GoodValue(T, v)' <=> GoodValue(T, v)
    BY <1>4 DEF GoodValue, IsLayers
  <1>7. CASE TransformName
    <2>1. GoodValue(T, value')
      <3>1. GoodValue(T, Skip)
        BY DEF GoodValue, Skip, Unbound
      <3>2. CASE HomeOf(layers, term.name) = 0
        BY <1>7, <3>1, <3>2 DEF TransformName, Return
      <3>3. CASE HomeOf(layers, term.name) # 0
        <4>1. /\ HomeOf(layers, term.name) \in DOMAIN binders
              /\ term.name \in DOMAIN binders[HomeOf(layers, term.name)]
          BY <1>5, <3>3, HomeFacts
        <4>2. \/ binders[HomeOf(layers, term.name)][term.name] = Unbound
              \/ GoodValue(T, binders[HomeOf(layers, term.name)][term.name])
          BY <1>3, <4>1 DEF ScopeInv, ScopeTyped, BindersTyped
        <4> QED
          BY <1>7, <3>1, <3>3, <4>2 DEF TransformName, Return
      <3> QED
        BY <3>2, <3>3
    <2>2. ScopeInv(T, I)'
      BY <1>2, <1>3, <1>4, <1>7, <2>1, ScopeReturn DEF TransformName
    <2> QED
      BY <1>1, <2>2 DEF SomeInv
  <1>8. CASE TransformRefer
    <2>1. GoodValue(T, value')
      <3>1. PICK p : value' = PointerTo(p)
        BY <1>8 DEF TransformRefer, Return
      <3> QED
        BY <3>1 DEF PointerTo, GoodValue, Unbound
    <2>2. ScopeInv(T, I)'
      BY <1>2, <1>3, <1>4, <1>8, <2>1, ScopeReturn DEF TransformRefer
    <2> QED
      BY <1>1, <2>2 DEF SomeInv
  <1>9. CASE TransformProcMake
    <2>1. GoodValue(T, value')
      <3>1. PICK c : value' = CloseProc(c)
        BY <1>9 DEF TransformProcMake, Return
      <3> QED
        BY <3>1 DEF CloseProc, GoodValue, Unbound
    <2>2. term.body \in T /\ (term \in I => term.body \in I)
      BY <1>3, <1>9 DEF TransformProcMake, Transforming, Plain
    <2>3. ScopeInv(T, I)'
      BY <1>1, <1>2, <1>3, <1>4, <1>9, <2>1, <2>2, ScopeReturn DEF TransformProcMake
    <2> QED
      BY <1>1, <2>3 DEF SomeInv
  <1>10. CASE TransformFormMake
    <2>1. GoodValue(T, value')
      <3>1. value' = CloseForm(layers, term.body) /\ term.body \in T
        BY <1>3, <1>10 DEF TransformFormMake, Return, Transforming, Plain
      <3> QED
        BY <1>5, <3>1 DEF CloseForm, GoodValue, Unbound
    <2>2. ScopeInv(T, I)'
      BY <1>2, <1>3, <1>4, <1>10, <2>1, ScopeReturn DEF TransformFormMake
    <2> QED
      BY <1>1, <2>2 DEF SomeInv
  <1> QED
    BY <1>7, <1>8, <1>9, <1>10

(* The body of a form or a PROC is begun. *)
LEMMA ScopePush ==
  ASSUME NEW T, NEW I, ScopeInv(T, I), CallsShaped, calls # <<>>, NEW call,
         calls' = Append(calls, call), call.hook \in {"apply", "close"}, call.layers = layers,
         call.hook = "close" => GoodValue(T, call.value) /\ Full(Head(layers')),
         UNCHANGED <<binders, closures, progs, value>>,
         IsLayers(layers'), term' \in T,
         Aside # {} => term' \in I /\ call.hook = "close" /\ layers' = layers,
         \A x \in DOMAIN queue' : \E y \in DOMAIN queue : queue'[x] = queue[y]
  PROVE  ScopeInv(T, I)'
  <1>0. PICK n : n = Len(calls) + 1
    OBVIOUS
  <1>1. /\ DOMAIN calls' = DOMAIN calls \cup {n} /\ n \notin DOMAIN calls
        /\ n - 1 \in DOMAIN calls /\ DOMAIN calls = 1 .. n - 1 /\ n \in Nat
        /\ calls'[n] = call /\ LayersOf(n)' = layers' /\ LayersOf(n - 1) = layers
        /\ \A k \in DOMAIN calls : calls'[k] = calls[k] /\ LayersOf(k)' = LayersOf(k)
    BY <1>0, PushCall
  <1>2. Aside' = Aside /\ Scopes' = Scopes /\ \A k : Inside(k)' <=> Inside(k)
    BY <1>1 DEF Aside, Scopes, Inside
  <1>3. UnboundPending' /\ ClosesFull'
    BY <1>1, PendingStays DEF ScopeInv
  <1>4. IsLayers(layers)
    BY DEF ScopeInv, ScopeTyped, BindersTyped, IsLayers
  <1>5. \A v : (GoodValue(T, v)' <=> GoodValue(T, v)) /\ (IsLayers(v)' <=> IsLayers(v))
    BY DEF GoodValue, IsLayers
  <1>6. BindersTyped(T)'
    BY <1>5 DEF ScopeInv, ScopeTyped, BindersTyped, IsLayers
  <1>7. CallsTyped(T, I)'
    <2>1. \A k \in DOMAIN calls' :
            /\ calls'[k].hook # "prog" => IsLayers(calls'[k].layers)
            /\ calls'[k].hook = "close" => GoodValue(T, calls'[k].value)
      BY <1>1, <1>4 DEF ScopeInv, ScopeTyped, CallsTyped
    <2>2. \A k \in Scopes : calls'[k] = calls[k]
      BY <1>1 DEF Scopes
    <2>3. Aside \subseteq Scopes
      BY DEF Aside, Scopes
    <2> QED
      BY <1>2, <1>5, <2>1, <2>2, <2>3 DEF ScopeInv, ScopeTyped, CallsTyped
  <1>8. TermsTyped(T, I)'
    BY <1>2, <1>5 DEF ScopeInv, ScopeTyped, TermsTyped
  <1>9. ScopesNested(I)'
    <2>1. \A k \in DOMAIN calls' : Inside(k - 1) =>
            /\ calls'[k].hook # "apply"
            /\ calls'[k].hook = "close" => LayersOf(k)' = LayersOf(k - 1)'
      <3> SUFFICES ASSUME NEW k \in DOMAIN calls', Inside(k - 1)
                   PROVE  /\ calls'[k].hook # "apply"
                          /\ calls'[k].hook = "close" => LayersOf(k)' = LayersOf(k - 1)'
        OBVIOUS
      <3>1. Aside # {} /\ \A i \in Aside : i \in DOMAIN calls
        BY DEF Inside, Aside
      <3>2. CASE k = n
        BY <1>1, <3>1, <3>2
      <3>3. CASE k \in DOMAIN calls
        <4>1. k - 1 \in DOMAIN calls
          BY <1>1, <3>1, <3>3 DEF Inside
        <4> QED
          BY <1>1, <3>3, <4>1 DEF ScopeInv, ScopesNested
      <3> QED
        BY <1>1, <3>2, <3>3
    <2>2. Aside # {} => \A x \in DOMAIN queue' :
            closures[queue'[x]].layers = layers' /\ closures[queue'[x]].body \in I
      BY DEF ScopeInv, ScopesNested
    <2>3. \A k \in Aside : calls'[k] = calls[k]
      BY <1>1 DEF Aside
    <2>4. \A j, k \in Scopes : Head(LayersOf(j)') = Head(LayersOf(k)') => j = k
      <3>1. \A k \in Scopes : LayersOf(k)' = LayersOf(k)
        BY <1>1 DEF Scopes
      <3> QED
        BY <3>1 DEF ScopeInv, ScopesNested
    <2>5. \A k \in Aside : Inside(k - 1) => \A x \in DOMAIN calls'[k].queue :
            /\ closures'[calls'[k].queue[x]].layers = calls'[k].layers
            /\ closures'[calls'[k].queue[x]].body \in I
      <3>1. \A k \in Aside : Inside(k - 1) => \A x \in DOMAIN calls[k].queue :
              /\ closures[calls[k].queue[x]].layers = calls[k].layers
              /\ closures[calls[k].queue[x]].body \in I
        BY DEF ScopeInv, ScopesNested
      <3>2. closures' = closures
        OBVIOUS
      <3> TAKE k \in Aside
      <3> HAVE Inside(k - 1)
      <3>3. calls'[k] = calls[k]
        BY <2>3
      <3> QED
        BY ONLY <3>1, <3>2, <3>3, k \in Aside, Inside(k - 1)
    <2> QED
      BY <1>2, <2>1, <2>2, <2>4, <2>5 DEF ScopesNested
  <1> QED
    BY <1>3, <1>6, <1>7, <1>8, <1>9 DEF ScopeInv, ScopeTyped

(* It is transformed. *)
LEMMA ScopePop ==
  ASSUME NEW T, NEW I, ScopeInv(T, I), CallsShaped, ClosuresPlaced, calls # <<>>,
         calls' = Caller, Top.hook \in {"apply", "close"}, layers' = Top.layers,
         UNCHANGED <<binders, queue, progs>>, term' = NoTerm, GoodValue(T, value'),
         DOMAIN closures' = DOMAIN closures,
         \A c \in DOMAIN closures : /\ closures'[c].layers = closures[c].layers
                                    /\ closures'[c].body = closures[c].body
  PROVE  ScopeInv(T, I)'
  <1>0. PICK n : n = Len(calls)
    OBVIOUS
  <1>1. /\ DOMAIN calls' = DOMAIN calls \ {n} /\ n \in DOMAIN calls
        /\ n - 1 \in DOMAIN calls' /\ DOMAIN calls = 1 .. n /\ n \in Nat
        /\ Top = calls[n] /\ LayersOf(n) = layers /\ LayersOf(n - 1) = layers'
        /\ \A k \in DOMAIN calls' : calls'[k] = calls[k] /\ LayersOf(k)' = LayersOf(k)
    BY <1>0, PopCall
  <1>2. /\ Aside' = Aside /\ Scopes' = Scopes /\ \A k : Inside(k)' <=> Inside(k)
        /\ n \notin Scopes /\ Aside \subseteq Scopes
    BY <1>1 DEF Aside, Scopes, Inside
  <1>3. UnboundPending' /\ ClosesFull'
    BY <1>1, PendingStays DEF ScopeInv
  <1>4. IsLayers(layers')
    BY <1>1 DEF ScopeInv, ScopeTyped, CallsTyped
  <1>5. \A v : (GoodValue(T, v)' <=> GoodValue(T, v)) /\ (IsLayers(v)' <=> IsLayers(v))
    BY DEF GoodValue, IsLayers
  <1>6. BindersTyped(T)'
    BY <1>4, <1>5 DEF ScopeInv, ScopeTyped, BindersTyped, IsLayers
  <1>7. CallsTyped(T, I)'
    <2>1. \A k \in DOMAIN calls' :
            /\ calls'[k].hook # "prog" => IsLayers(calls'[k].layers)
            /\ calls'[k].hook = "close" => GoodValue(T, calls'[k].value)
      BY <1>1 DEF ScopeInv, ScopeTyped, CallsTyped
    <2>2. \A k \in Scopes : calls'[k] = calls[k]
      BY <1>1, <1>2 DEF Scopes
    <2> QED
      BY <1>2, <1>5, <2>1, <2>2 DEF ScopeInv, ScopeTyped, CallsTyped
  <1>8. TermsTyped(T, I)'
    BY <1>2, <1>5 DEF ScopeInv, ScopeTyped, TermsTyped
  <1>9. ScopesNested(I)'
    <2>1. \A k \in DOMAIN calls' : Inside(k - 1) =>
            /\ calls'[k].hook # "apply"
            /\ calls'[k].hook = "close" => LayersOf(k)' = LayersOf(k - 1)'
      <3> SUFFICES ASSUME NEW k \in DOMAIN calls', Inside(k - 1)
                   PROVE  /\ calls'[k].hook # "apply"
                          /\ calls'[k].hook = "close" => LayersOf(k)' = LayersOf(k - 1)'
        OBVIOUS
      <3>1. k - 1 \in DOMAIN calls'
        <4>1. \A i \in Aside : i \in DOMAIN calls
          BY DEF Aside
        <4> QED
          BY <1>1, <4>1 DEF Inside
      <3> QED
        BY <1>1, <3>1 DEF ScopeInv, ScopesNested
    <2>2. Aside # {} => layers' = layers
      <3> SUFFICES ASSUME Aside # {} PROVE layers' = layers
        OBVIOUS
      <3>1. PICK i \in Aside : i \in DOMAIN calls /\ i # n
        BY <1>2 DEF Aside
      <3>2. i <= n - 1
        BY <1>1, <3>1
      <3>3. Inside(n - 1)
        BY <3>2 DEF Inside
      <3> QED
        BY <1>1, <3>3 DEF ScopeInv, ScopesNested
    <2>3. \A x \in DOMAIN queue : queue[x] \in DOMAIN closures
      BY DEF ClosuresPlaced, Holds
    <2>4. Aside # {} => \A x \in DOMAIN queue :
            closures'[queue[x]].layers = layers' /\ closures'[queue[x]].body \in I
      BY <2>2, <2>3 DEF ScopeInv, ScopesNested
    <2>5. \A k \in Aside : /\ calls'[k] = calls[k]
                           /\ \A x \in DOMAIN calls[k].queue : calls[k].queue[x] \in DOMAIN closures
      BY <1>1, <1>2 DEF Aside, ClosuresPlaced, Holds
    <2>6. \A k \in Aside : Inside(k - 1) => \A x \in DOMAIN calls'[k].queue :
            /\ closures'[calls'[k].queue[x]].layers = calls'[k].layers
            /\ closures'[calls'[k].queue[x]].body \in I
      BY <2>5 DEF ScopeInv, ScopesNested
    <2>7. \A j, k \in Scopes : Head(LayersOf(j)') = Head(LayersOf(k)') => j = k
      <3>1. \A k \in Scopes : LayersOf(k)' = LayersOf(k)
        BY <1>1, <1>2 DEF Scopes
      <3> QED
        BY <3>1 DEF ScopeInv, ScopesNested
    <2> QED
      BY <1>2, <2>1, <2>4, <2>6, <2>7 DEF ScopesNested
  <1> QED
    BY <1>3, <1>6, <1>7, <1>8, <1>9 DEF ScopeInv, ScopeTyped

(* The body of a form is begun in the layers of the form. *)
LEMMA ScopeApply ==
  ASSUME NEW T, NEW I, Plain(T, I), SomeInv(T, I), TransformApply
  PROVE  SomeInv(T, I)'
  <1>1. OnceInv' /\ term # NoTerm /\ term.hook = "apply"
    BY OnceStep DEF SomeInv, Next, TransformApply, Transforming, NoTerm
  <1>2. calls # <<>> /\ ~Halted /\ ClosuresPlaced /\ CallsShaped
    BY <1>1, Running1 DEF SomeInv, OnceInv
  <1>3. ScopeInv(T, I) /\ term \in T
    BY <1>1, <1>2 DEF SomeInv, ScopeInv, ScopeTyped, TermsTyped
  <1>4. Aside = {}
    BY <1>1, <1>3 DEF ScopeInv, ScopeTyped, TermsTyped, Plain
  <1> DEFINE home == HomeOf(layers, term.name)
             form == IF home = 0 THEN Unbound ELSE binders[home][term.name]
  <1>5. form = Unbound \/ GoodValue(T, form)
    <2>1. layers \in Seq(DOMAIN binders)
      BY <1>3 DEF ScopeInv, ScopeTyped, BindersTyped
    <2>2. home # 0 => home \in DOMAIN binders /\ term.name \in DOMAIN binders[home]
      BY <2>1, HomeFacts
    <2> HIDE DEF home
    <2> QED
      BY <1>3, <2>2 DEF ScopeInv, ScopeTyped, BindersTyped
  <1>6. \/ /\ form.hook = "form" /\ calls' = Deeper([hook |-> "apply", layers |-> layers])
           /\ layers' = form.layers /\ term' = form.body /\ value' = value
        \/ /\ term' = NoTerm /\ value' = Skip /\ UNCHANGED <<calls, layers>>
    BY DEF TransformApply, Return
  <1>7. UNCHANGED <<progs, binders, bases, queue, pointers, closures>>
    BY DEF TransformApply
  <1> HIDE DEF form, home
  <1>8. CASE /\ form.hook = "form" /\ calls' = Deeper([hook |-> "apply", layers |-> layers])
             /\ layers' = form.layers /\ term' = form.body /\ value' = value
    <2> DEFINE call == [hook |-> "apply", layers |-> layers]
    <2>1. call.hook = "apply" /\ call.layers = layers /\ calls' = Append(calls, call)
      BY <1>8 DEF Deeper
    <2>2. form # Unbound
      BY <1>8 DEF Unbound
    <2>3. IsLayers(layers') /\ term' \in T
      BY <1>5, <1>8, <2>2 DEF GoodValue
    <2> HIDE DEF call
    <2>4. ScopeInv(T, I)'
      BY <1>2, <1>3, <1>4, <1>7, <1>8, <2>1, <2>3, ScopePush
    <2> QED
      BY <1>1, <2>4 DEF SomeInv
  <1>9. CASE term' = NoTerm /\ value' = Skip /\ UNCHANGED <<calls, layers>>
    <2>1. GoodValue(T, value')
      BY <1>9 DEF GoodValue, Skip, Unbound
    <2>2. ScopeInv(T, I)'
      BY <1>2, <1>3, <1>7, <1>9, <2>1, ScopeReturn
    <2> QED
      BY <1>1, <2>2 DEF SomeInv
  <1> QED
    BY <1>6, <1>8, <1>9

(* A form returns to the layers of its caller. *)
LEMMA ScopeReturnFromForm ==
  ASSUME NEW T, NEW I, SomeInv(T, I), ReturnFromForm
  PROVE  SomeInv(T, I)'
  <1>1. OnceInv' /\ Returning
    BY OnceStep DEF SomeInv, Next, ReturnFromForm
  <1>2. calls # <<>> /\ ~Halted /\ ClosuresPlaced /\ CallsShaped
    BY <1>1, Running1 DEF SomeInv, OnceInv
  <1>3. ScopeInv(T, I) /\ GoodValue(T, value)
    BY <1>2 DEF SomeInv, ScopeInv, ScopeTyped, BindersTyped
  <1>4. /\ calls' = Caller /\ Top.hook \in {"apply", "close"} /\ layers' = Top.layers
        /\ UNCHANGED <<binders, queue, progs, closures>> /\ term' = NoTerm /\ value' = value
    BY DEF ReturnFromForm, Returning
  <1>5. ScopeInv(T, I)'
    BY <1>2, <1>3, <1>4, ScopePop
  <1> QED
    BY <1>1, <1>5 DEF SomeInv

(* The body of a PROC is transformed, and the next one is looked for. *)
LEMMA ScopeReturnFromProc ==
  ASSUME NEW T, NEW I, SomeInv(T, I), ReturnFromProc
  PROVE  SomeInv(T, I)'
  <1>1. OnceInv' /\ Returning
    BY OnceStep DEF SomeInv, Next, ReturnFromProc
  <1>2. calls # <<>> /\ ~Halted /\ ClosuresPlaced /\ CallsShaped
    BY <1>1, Running1 DEF SomeInv, OnceInv
  <1>3. /\ calls' = Caller /\ Top.hook = "close" /\ layers' = Top.layers
        /\ UNCHANGED <<binders, queue, progs>> /\ term' = NoTerm /\ value' = Top.value
        /\ closures' = [closures EXCEPT ![Top.closure].updated = TRUE]
    BY DEF ReturnFromProc, Returning
  <1>4. ScopeInv(T, I) /\ GoodValue(T, Top.value)
    <2>1. Len(calls) \in DOMAIN calls /\ Top = calls[Len(calls)]
      BY <1>2, CallerFacts
    <2> QED
      BY <1>2, <1>3, <2>1 DEF SomeInv, ScopeInv, ScopeTyped, CallsTyped
  <1>5. \A c \in DOMAIN closures : DOMAIN closures[c] = {"layers", "body", "updated"}
    BY <1>2 DEF ClosuresPlaced
  <1>6. /\ DOMAIN closures' = DOMAIN closures
        /\ \A c \in DOMAIN closures : /\ closures'[c].layers = closures[c].layers
                                      /\ closures'[c].body = closures[c].body
    BY <1>3, <1>5
  <1>7. ScopeInv(T, I)'
    BY <1>2, <1>3, <1>4, <1>6, ScopePop
  <1> QED
    BY <1>1, <1>7 DEF SomeInv

(* The names that a body can see are bound when its scope has no equates left. *)
LEMMA QueueFull ==
  ASSUME NEW T, NEW I, ScopeInv(T, I), CallsShaped, ClosuresPlaced, AllBound, queue # <<>>
  PROVE  /\ IsLayers(closures[Head(queue)].layers) /\ closures[Head(queue)].body \in T
         /\ Full(Head(closures[Head(queue)].layers))
         /\ Aside # {} => /\ closures[Head(queue)].layers = layers
                          /\ closures[Head(queue)].body \in I
         /\ Head(queue) = queue[1] /\ 1 \in DOMAIN queue
  <1> DEFINE c == Head(queue)
             n == Len(calls)
  <1>1. c = queue[1] /\ 1 \in DOMAIN queue
    BY TailList DEF CallsShaped
  <1>2. c \in DOMAIN closures
    BY <1>1 DEF ClosuresPlaced, Holds
  <1> HIDE DEF c
  <1>3. IsLayers(closures[c].layers) /\ closures[c].body \in T
    BY <1>2 DEF ScopeInv, ScopeTyped, TermsTyped
  <1>4. Aside # {} => closures[c].layers = layers /\ closures[c].body \in I
    BY <1>1 DEF ScopeInv, ScopesNested
  <1>5. /\ n \in Scopes /\ calls[n].terms = <<>> /\ LayersOf(n) = layers
        /\ Aside = {} => Scopes = {n}
    <2>1. calls # <<>>
      BY DEF AllBound, Returning
    <2>2. n \in DOMAIN calls /\ Top = calls[n] /\ (n = 1 <=> Top.hook = "prog")
      BY <2>1, CallerFacts
    <2>3. n \in Scopes /\ calls[n].terms = <<>> /\ LayersOf(n) = layers
      BY <2>2 DEF Scopes, AllBound, LayersOf
    <2>4. Aside = {} => \A i \in Scopes : i = 1
      BY DEF Aside, Scopes, CallsShaped
    <2> QED
      BY <2>3, <2>4
  <1>6. Full(Head(closures[c].layers))
    <2> DEFINE h == Head(closures[c].layers)
    <2>1. h \in DOMAIN binders
      BY <1>3, HeadTailProperties DEF IsLayers
    <2> HIDE DEF n
    <2> SUFFICES ASSUME NEW x \in DOMAIN binders[h], binders[h][x] = Unbound
                 PROVE  FALSE
      BY DEF Full
    <2>2. Pending(h, x)
      BY <2>1 DEF ScopeInv, UnboundPending
    <2>3. PICK i \in Scopes : h = Head(LayersOf(i)) /\ calls[i].terms # <<>>
      BY <2>2, EmptyList DEF Pending
    <2>4. i # n
      BY <1>5, <2>3
    <2>5. Aside # {}
      BY <1>5, <2>3, <2>4
    <2>6. h = Head(LayersOf(n))
      BY <1>4, <1>5, <2>5
    <2> QED
      BY <1>5, <2>3, <2>4, <2>6 DEF ScopeInv, ScopesNested
  <1> QED
    BY <1>1, <1>3, <1>4, <1>6 DEF c

(* The body of a PROC is begun, in the layers it was made in. *)
LEMMA ScopeUpdate ==
  ASSUME NEW T, NEW I, SomeInv(T, I), UpdateProcedure
  PROVE  SomeInv(T, I)'
  <1> DEFINE call == [hook |-> "close", closure |-> Head(queue), layers |-> layers,
                      value |-> value]
  <1>1. OnceInv' /\ Returning /\ AllBound /\ queue # <<>>
    BY OnceStep DEF SomeInv, Next, UpdateProcedure, AllBound
  <1>2. calls # <<>> /\ ~Halted /\ ClosuresPlaced /\ CallsShaped
    BY <1>1, Running1 DEF SomeInv, OnceInv
  <1>3. ScopeInv(T, I) /\ GoodValue(T, value)
    BY <1>2 DEF SomeInv, ScopeInv, ScopeTyped, BindersTyped
  <1>4. /\ calls' = Append(calls, call) /\ queue' = Tail(queue)
        /\ layers' = closures[Head(queue)].layers /\ term' = closures[Head(queue)].body
        /\ UNCHANGED <<progs, binders, closures, value>>
    BY DEF UpdateProcedure, Deeper
  <1>5. call.hook = "close" /\ call.layers = layers /\ call.value = value
    OBVIOUS
  <1> HIDE DEF call
  <1>6. \A x \in DOMAIN queue' : \E y \in DOMAIN queue : queue'[x] = queue[y]
    <2>1. /\ DOMAIN queue = 1 .. Len(queue) /\ DOMAIN queue' = 1 .. Len(queue) - 1
          /\ Len(queue) \in Nat
          /\ \A x \in 1 .. Len(queue) - 1 : queue'[x] = queue[x + 1]
      BY <1>1, <1>2, <1>4, TailList DEF CallsShaped
    <2>2. \A x \in 1 .. Len(queue) - 1 : x + 1 \in 1 .. Len(queue)
      BY <2>1
    <2> QED
      BY <2>1, <2>2
  <1>7. /\ IsLayers(layers') /\ term' \in T /\ Full(Head(layers'))
        /\ Aside # {} => term' \in I /\ layers' = layers
    BY <1>1, <1>2, <1>3, <1>4, QueueFull
  <1>8. ScopeInv(T, I)'
    BY <1>2, <1>3, <1>4, <1>5, <1>6, <1>7, ScopePush
  <1> QED
    BY <1>1, <1>8 DEF SomeInv

(* All calls have layers. *)
LEMMA LayersGood ==
  ASSUME NEW T, NEW I, ScopeTyped(T, I), CallsShaped, NEW k \in DOMAIN calls
  PROVE  IsLayers(LayersOf(k)) /\ Head(LayersOf(k)) \in DOMAIN binders
  <1>1. calls # <<>>
    BY EmptyList
  <1>2. IsLayers(layers)
    BY <1>1 DEF ScopeTyped, BindersTyped, IsLayers
  <1>3. DOMAIN calls = 1 .. Len(calls) /\ Len(calls) \in Nat
    BY <1>1, CallerFacts
  <1>4. CASE k # Len(calls)
    <2>1. k + 1 \in DOMAIN calls /\ k + 1 # 1
      BY <1>3, <1>4
    <2>2. IsLayers(calls[k + 1].layers)
      BY <2>1 DEF CallsShaped, ScopeTyped, CallsTyped
    <2> QED
      BY <1>4, <2>2, HeadTailProperties DEF LayersOf, IsLayers
  <1> QED
    BY <1>2, <1>4, HeadTailProperties DEF LayersOf, IsLayers

(* A scope begins: one layer more, and one call more. *)
LEMMA EnterFacts ==
  ASSUME NEW T, NEW I, ScopeTyped(T, I), CallsShaped, NEW scope, NEW call, Enter(scope, call),
         IF calls = <<>> THEN call.hook = "prog" ELSE call.hook = "with" /\ call.layers = layers,
         NEW n, n = Len(calls) + 1, NEW h, h = Len(binders) + 1
  PROVE  /\ DOMAIN calls' = DOMAIN calls \cup {n} /\ n \notin DOMAIN calls /\ n \in Nat
         /\ DOMAIN calls = 1 .. n - 1 /\ calls' # <<>> /\ calls'[n] = call /\ Len(calls') = n
         /\ LayersOf(n)' = layers'
         /\ \A k \in DOMAIN calls : calls'[k] = calls[k] /\ LayersOf(k)' = LayersOf(k)
         /\ calls # <<>> => LayersOf(n - 1) = layers /\ n - 1 \in DOMAIN calls
         /\ IsList(binders') /\ DOMAIN binders' = DOMAIN binders \cup {h} /\ h \notin DOMAIN binders
         /\ binders'[h] = Declared(scope.equates)
         /\ \A g \in DOMAIN binders : binders'[g] = binders[g]
         /\ layers' = <<h>> \o layers
         /\ layers' \in Seq(DOMAIN binders') /\ layers' # <<>> /\ Head(layers') = h
         /\ layers' # layers
  <1>1. /\ binders' = Append(binders, Declared(scope.equates)) /\ layers' = <<h>> \o layers
        /\ calls' = Append(calls, call)
    BY DEF Enter, Deeper
  <1>2. /\ IsList(binders') /\ DOMAIN binders' = DOMAIN binders \cup {h} /\ h \notin DOMAIN binders
        /\ binders'[h] = Declared(scope.equates)
        /\ \A g \in DOMAIN binders : binders'[g] = binders[g]
    <2>1. IsList(binders)
      BY DEF ScopeTyped, BindersTyped
    <2> DEFINE new == Declared(scope.equates)
    <2> HIDE DEF new
    <2>2. /\ IsList(Append(binders, new)) /\ DOMAIN Append(binders, new) = DOMAIN binders \cup {h}
          /\ h \notin DOMAIN binders /\ Append(binders, new)[h] = new
          /\ \A g \in DOMAIN binders : Append(binders, new)[g] = binders[g]
      BY <2>1, AppendList
    <2>3. binders' = Append(binders, new)
      BY <1>1 DEF new
    <2>4. /\ IsList(binders') /\ DOMAIN binders' = DOMAIN binders \cup {h} /\ h \notin DOMAIN binders
          /\ binders'[h] = new
          /\ \A g \in DOMAIN binders : binders'[g] = binders[g]
      BY <2>2, <2>3
    <2> QED
      BY <2>4 DEF new
  <1>3. /\ Len(calls') = n /\ DOMAIN calls' = DOMAIN calls \cup {n} /\ calls'[n] = call
        /\ n \notin DOMAIN calls /\ DOMAIN calls = 1 .. Len(calls) /\ Len(calls) \in Nat
        /\ \A k \in DOMAIN calls : calls'[k] = calls[k]
    BY <1>1, AppendList DEF CallsShaped, IsList
  <1>4. calls' # <<>> /\ DOMAIN calls = 1 .. n - 1 /\ n \in Nat
    BY <1>3, EmptyList
  <1>5. LayersOf(n)' = layers'
    BY <1>3 DEF LayersOf
  <1>8. /\ \A k \in DOMAIN calls : LayersOf(k)' = LayersOf(k)
        /\ calls # <<>> => LayersOf(n - 1) = layers /\ n - 1 \in DOMAIN calls
    <2>1. CASE calls = <<>>
      BY <2>1, EmptyList
    <2>2. CASE calls # <<>>
      BY <1>1, <2>2, PushCall
    <2> QED
      BY <2>1, <2>2
  <1>9. /\ layers' \in Seq(DOMAIN binders') /\ layers' # <<>> /\ Head(layers') = h
        /\ layers' # layers
    <2>1. layers \in Seq(DOMAIN binders')
      BY <1>2, GoodStays DEF ScopeTyped, BindersTyped
    <2>2. <<h>> \in Seq(DOMAIN binders') /\ Len(<<h>>) = 1 /\ <<h>>[1] = h
      BY <1>2
    <2>3. layers' \in Seq(DOMAIN binders') /\ Len(layers') = 1 + Len(layers) /\ layers'[1] = h
      BY <1>1, <2>1, <2>2, ConcatProperties, LenProperties
    <2>4. layers' # <<>> /\ layers' # layers
      BY <2>1, <2>3, EmptyList, LenProperties
    <2> QED
      BY <2>3, <2>4, HeadTailProperties
  <1> QED
    BY <1>2, <1>3, <1>4, <1>5, <1>8, <1>9, <1>1

(* The scope that begins has its names unbound, each with its equate to come. *)
LEMMA ScopeEnter ==
  ASSUME NEW T, NEW I, ScopeInv(T, I), CallsShaped, ClosuresPlaced, NEW scope, NEW call,
         Enter(scope, call),
         IF calls = <<>> THEN call.hook = "prog"
         ELSE /\ call.hook = "with" /\ call.layers = layers /\ call.queue = queue
              /\ call.terms \in EquatesOf(I) /\ call.body \in I /\ term' \in I,
         call.terms = scope.equates, scope.equates \in EquatesOf(T),
         term' \in T \cup {NoTerm},
         progs' \in Seq([hook : {"prog"}, equates : EquatesOf(T)])
  PROVE  ScopeInv(T, I)'
  <1>0. PICK n, h : n = Len(calls) + 1 /\ h = Len(binders) + 1
    OBVIOUS
  <1>a. /\ ScopeTyped(T, I)
        /\ IF calls = <<>> THEN call.hook = "prog" ELSE call.hook = "with" /\ call.layers = layers
    BY DEF ScopeInv
  <1>1. /\ DOMAIN calls' = DOMAIN calls \cup {n} /\ n \notin DOMAIN calls /\ n \in Nat
        /\ DOMAIN calls = 1 .. n - 1 /\ calls' # <<>> /\ calls'[n] = call /\ LayersOf(n)' = layers'
        /\ \A k \in DOMAIN calls : calls'[k] = calls[k] /\ LayersOf(k)' = LayersOf(k)
    BY <1>0, <1>a, EnterFacts, ZenonT(60)
  <1>2. /\ IsList(binders') /\ DOMAIN binders' = DOMAIN binders \cup {h} /\ h \notin DOMAIN binders
        /\ binders'[h] = Declared(scope.equates)
        /\ \A g \in DOMAIN binders : binders'[g] = binders[g]
        /\ layers' \in Seq(DOMAIN binders') /\ layers' # <<>> /\ Head(layers') = h
    BY <1>0, <1>a, EnterFacts
  <1>3. UNCHANGED <<pointers, closures, value>> /\ queue' = <<>>
    BY DEF Enter
  <1>4. /\ \A ls : ls \in Seq(DOMAIN binders) => ls \in Seq(DOMAIN binders')
        /\ \A ls : IsLayers(ls) => IsLayers(ls)'
        /\ \A v : GoodValue(T, v) => GoodValue(T, v)'
    BY <1>2, GoodStays
  <1>5. \A k \in DOMAIN calls : Head(LayersOf(k)) \in DOMAIN binders
    BY LayersGood DEF ScopeInv
  <1>6. /\ Scopes' = Scopes \cup {n} /\ Running' = Running
        /\ Aside' = IF calls = <<>> THEN Aside ELSE Aside \cup {n}
        /\ Scopes \subseteq DOMAIN calls /\ Aside \subseteq Scopes /\ Running \subseteq DOMAIN calls
    BY <1>1 DEF Scopes, Running, Aside
  <1>7. calls = <<>> => DOMAIN calls = {} /\ Aside' = {}
    BY <1>6, EmptyList
  <1>8. \A k \in DOMAIN calls' : Inside(k - 1)' <=> Inside(k - 1)
    BY <1>1, <1>6 DEF Inside
  <1>9. BindersTyped(T)'
    <2>1. GoodValue(T, value)'
      BY <1>3, <1>4 DEF ScopeInv, ScopeTyped, BindersTyped, GoodValue, IsLayers
    <2>2. \A x \in DOMAIN binders'[h] : binders'[h][x] = Unbound
      BY <1>2 DEF Declared
    <2>3. ASSUME NEW g \in DOMAIN binders, NEW x \in DOMAIN binders[g]
          PROVE  (binders[g][x] = Unbound \/ GoodValue(T, binders[g][x]))'
      <3>1. binders[g][x] = Unbound \/ GoodValue(T, binders[g][x])
        BY DEF ScopeInv, ScopeTyped, BindersTyped
      <3>2. PICK v : v = binders[g][x]
        OBVIOUS
      <3>3. v = Unbound \/ GoodValue(T, v)'
        BY <1>4, <3>1, <3>2
      <3> QED
        BY <1>2, <3>2, <3>3 DEF GoodValue, IsLayers
    <2>4. \A g \in DOMAIN binders' : \A x \in DOMAIN binders'[g] :
            (binders[g][x] = Unbound \/ GoodValue(T, binders[g][x]))'
      BY <1>2, <2>2, <2>3
    <2> QED
      BY <1>2, <2>1, <2>4 DEF BindersTyped
  <1>10. CallsTyped(T, I)'
    <2>1. \A k \in DOMAIN calls' :
            (/\ calls[k].hook # "prog" => IsLayers(calls[k].layers)
             /\ calls[k].hook = "close" => GoodValue(T, calls[k].value))'
      <3> SUFFICES ASSUME NEW k \in DOMAIN calls'
                   PROVE  (/\ calls[k].hook # "prog" => IsLayers(calls[k].layers)
                           /\ calls[k].hook = "close" => GoodValue(T, calls[k].value))'
        OBVIOUS
      <3>1. CASE k = n
        <4>1. calls # <<>> => IsLayers(layers)
          BY DEF ScopeInv, ScopeTyped, BindersTyped, IsLayers
        <4> QED
          BY <1>1, <1>4, <3>1, <4>1, EmptyList DEF IsLayers
      <3>2. CASE k \in DOMAIN calls
        <4>1. calls'[k] = calls[k]
          BY <1>1, <3>2
        <4>2. /\ calls[k].hook # "prog" => IsLayers(calls[k].layers)
              /\ calls[k].hook = "close" => GoodValue(T, calls[k].value)
          BY <3>2 DEF ScopeInv, ScopeTyped, CallsTyped
        <4>3. PICK ls, v : ls = calls[k].layers /\ v = calls[k].value
          OBVIOUS
        <4>4. /\ calls[k].hook # "prog" => IsLayers(ls)'
              /\ calls[k].hook = "close" => GoodValue(T, v)'
          BY <1>4, <4>2, <4>3
        <4> QED
          BY <4>1, <4>3, <4>4 DEF GoodValue, IsLayers
      <3> QED
        BY <1>1, <3>1, <3>2
    <2>2. \A k \in Scopes' : calls'[k].terms \in EquatesOf(T)
      BY <1>1, <1>6 DEF ScopeInv, ScopeTyped, CallsTyped
    <2>3. \A k \in Aside' : calls'[k].terms \in EquatesOf(I) /\ calls'[k].body \in I
      BY <1>1, <1>6 DEF ScopeInv, ScopeTyped, CallsTyped
    <2> QED
      BY <2>1, <2>2, <2>3 DEF CallsTyped
  <1>11. TermsTyped(T, I)'
    <2>1. \A c \in DOMAIN closures : IsLayers(closures[c].layers) /\ closures[c].body \in T
      BY DEF ScopeInv, ScopeTyped, TermsTyped
    <2> QED
      BY <1>3, <1>4, <1>7, <2>1 DEF TermsTyped, IsLayers
  <1>12. ScopesNested(I)'
    <2>1. \A k \in DOMAIN calls' : Inside(k - 1) =>
            /\ calls'[k].hook # "apply"
            /\ calls'[k].hook = "close" => LayersOf(k)' = LayersOf(k - 1)'
      <3> SUFFICES ASSUME NEW k \in DOMAIN calls', Inside(k - 1)
                   PROVE  /\ calls'[k].hook # "apply"
                          /\ calls'[k].hook = "close" => LayersOf(k)' = LayersOf(k - 1)'
        OBVIOUS
      <3>1. CASE k = n
        BY <1>1, <3>1
      <3>2. CASE k \in DOMAIN calls
        <4>1. k - 1 \in DOMAIN calls
          BY <1>1, <1>6, <3>2 DEF Inside
        <4>2. calls[k].hook # "apply" /\ (calls[k].hook = "close" => LayersOf(k) = LayersOf(k - 1))
          BY <3>2 DEF ScopeInv, ScopesNested
        <4> QED
          BY <1>1, <3>2, <4>1, <4>2
      <3> QED
        BY <1>1, <3>1, <3>2
    <2>2. \A k \in Aside' : Inside(k - 1) => \A x \in DOMAIN calls'[k].queue :
            /\ closures'[calls'[k].queue[x]].layers = calls'[k].layers
            /\ closures'[calls'[k].queue[x]].body \in I
      <3> TAKE k \in Aside'
      <3> HAVE Inside(k - 1)
      <3>0. closures' = closures
        BY <1>3
      <3>1. CASE k = n
        <4>1. Aside # {} /\ calls # <<>>
          BY <1>7, <3>1, Inside(k - 1) DEF Inside
        <4>2. \A x \in DOMAIN queue : closures[queue[x]].layers = layers /\ closures[queue[x]].body \in I
          BY <4>1 DEF ScopeInv, ScopesNested
        <4> QED
          BY <1>1, <3>0, <3>1, <4>1, <4>2
      <3>2. CASE k \in Aside
        <4>1. \A x \in DOMAIN calls[k].queue :
                /\ closures[calls[k].queue[x]].layers = calls[k].layers
                /\ closures[calls[k].queue[x]].body \in I
          BY <3>2, Inside(k - 1) DEF ScopeInv, ScopesNested
        <4>2. calls'[k] = calls[k]
          BY <1>1, <1>6, <3>2
        <4> QED
          BY <3>0, <4>1, <4>2
      <3> QED
        BY <1>6, <3>1, <3>2
    <2>3. \A j, k \in Scopes' : Head(LayersOf(j)') = Head(LayersOf(k)') => j = k
      <3>1. \A k \in Scopes : /\ k \in DOMAIN calls /\ LayersOf(k)' = LayersOf(k)
                              /\ Head(LayersOf(k)) \in DOMAIN binders
        BY <1>1, <1>5, <1>6
      <3>2. \A k \in Scopes : Head(LayersOf(k)') # Head(LayersOf(n)')
        BY <1>1, <1>2, <3>1
      <3>3. \A j, k \in Scopes : Head(LayersOf(j)) = Head(LayersOf(k)) => j = k
        BY DEF ScopeInv, ScopesNested
      <3> QED
        BY <1>6, <3>1, <3>2, <3>3
    <2>4. \A k \in Aside' : k \in DOMAIN calls'
      BY <1>1, <1>6
    <2>5. DOMAIN queue' = {}
      BY <1>3, EmptyList
    <2> QED
      BY <1>8, <2>1, <2>2, <2>3, <2>4, <2>5 DEF ScopesNested
  <1>13. UnboundPending'
    <2>1. ASSUME NEW x \in DOMAIN binders'[h] PROVE Pending(h, x)'
      <3>1. PICK j \in DOMAIN scope.equates : scope.equates[j].name = x
        BY <1>2 DEF Declared
      <3>2. n \in Scopes' /\ h = Head(LayersOf(n)') /\ calls'[n].terms = scope.equates
        BY <1>1, <1>2, <1>6
      <3> QED
        BY <3>1, <3>2 DEF Pending
    <2>2. ASSUME NEW g \in DOMAIN binders, NEW x \in DOMAIN binders[g], binders[g][x] = Unbound
          PROVE  Pending(g, x)'
      <3>1. PICK i \in Scopes : /\ g = Head(LayersOf(i))
                                /\ \E j \in DOMAIN calls[i].terms : calls[i].terms[j].name = x
        BY <2>2 DEF ScopeInv, UnboundPending, Pending
      <3>2. i \in Scopes' /\ LayersOf(i)' = LayersOf(i) /\ calls'[i] = calls[i]
        BY <1>1, <1>6
      <3> QED
        BY <3>1, <3>2 DEF Pending
    <2> QED
      BY <1>2, <2>1, <2>2 DEF UnboundPending
  <1>14. ClosesFull'
    <2> SUFFICES ASSUME NEW k \in Running PROVE Full(Head(LayersOf(k)))'
      BY <1>6 DEF ClosesFull
    <2>1. LayersOf(k)' = LayersOf(k) /\ Head(LayersOf(k)) \in DOMAIN binders
      BY <1>1, <1>5, <1>6
    <2>2. Full(Head(LayersOf(k)))
      BY DEF ScopeInv, ClosesFull
    <2> QED
      BY <1>2, <2>1, <2>2 DEF Full
  <1> QED
    BY <1>9, <1>10, <1>11, <1>12, <1>13, <1>14 DEF ScopeInv, ScopeTyped

(* The next equate is one of the scope. *)
LEMMA NextEquate ==
  ASSUME NEW S, NEW equates \in EquatesOf(S), equates # <<>>
  PROVE  /\ Head(equates).term \in S /\ Head(equates) = equates[1] /\ Tail(equates) \in EquatesOf(S)
         /\ DOMAIN equates = 1 .. Len(equates) /\ Len(equates) \in Nat /\ 1 \in DOMAIN equates
         /\ DOMAIN Tail(equates) = 1 .. Len(equates) - 1
         /\ \A j \in DOMAIN Tail(equates) : j + 1 \in DOMAIN equates /\ Tail(equates)[j] = equates[j + 1]
  <1>1. equates \in Seq([name : Name, term : S])
    BY DEF EquatesOf
  <1>2. /\ Head(equates) \in [name : Name, term : S] /\ Head(equates) = equates[1]
        /\ Tail(equates) \in Seq([name : Name, term : S]) /\ Len(Tail(equates)) = Len(equates) - 1
        /\ \A i \in 1 .. Len(Tail(equates)) : Tail(equates)[i] = equates[i + 1]
    BY <1>1, HeadTailProperties, SeqIsList, TailList
  <1>3. /\ DOMAIN equates = 1 .. Len(equates) /\ Len(equates) \in Nat
        /\ DOMAIN Tail(equates) = 1 .. Len(Tail(equates))
    BY <1>1, <1>2, LenProperties
  <1>4. Len(equates) # 0
    BY <1>1, EmptySeq
  <1> QED
    BY <1>2, <1>3, <1>4 DEF EquatesOf

(* A WITH begins. *)
LEMMA ScopeWith ==
  ASSUME NEW T, NEW I, Plain(T, I), SomeInv(T, I), TransformWith
  PROVE  SomeInv(T, I)'
  <1> DEFINE call == [hook |-> "with", terms |-> term.equates, body |-> term.body,
                      layers |-> layers, bases |-> bases, queue |-> queue]
  <1>1. OnceInv' /\ term # NoTerm /\ term.hook = "with"
    BY OnceStep DEF SomeInv, Next, TransformWith, Transforming, NoTerm
  <1>2. calls # <<>> /\ ~Halted /\ ClosuresPlaced /\ CallsShaped
    BY <1>1, Running1 DEF SomeInv, OnceInv
  <1>3. ScopeInv(T, I) /\ term \in T
    BY <1>1, <1>2 DEF SomeInv, ScopeInv, ScopeTyped, TermsTyped
  <1>4. term.equates \in EquatesOf(I) /\ term.equates \in EquatesOf(T) /\ term.body \in I
    <2>1. term.equates \in EquatesOf(I) /\ term.body \in I /\ I \subseteq T
      BY <1>1, <1>3 DEF Plain
    <2>2. [name : Name, term : I] \subseteq [name : Name, term : T]
      BY <2>1
    <2>3. \A A, B : A \subseteq B => \A s \in Seq(A) : s \in Seq(B)
      <3> SUFFICES ASSUME NEW A, NEW B, A \subseteq B, NEW s \in Seq(A) PROVE s \in Seq(B)
        OBVIOUS
      <3>1. Len(s) \in Nat /\ s \in [1 .. Len(s) -> B]
        BY LenProperties
      <3> QED
        BY <3>1, SeqDef
    <2> QED
      BY <2>1, <2>2, <2>3 DEF EquatesOf
  <1>5. term' \in I /\ I \subseteq T
    <2>1. term.equates # <<>> => Head(term.equates).term \in I
      BY <1>4, NextEquate
    <2> QED
      BY <1>4, <2>1 DEF TransformWith, Plain
  <1>6. /\ call.hook = "with" /\ call.layers = layers /\ call.queue = queue
        /\ call.terms = term.equates /\ call.body = term.body
        /\ Enter(term, call) /\ progs' = progs
    BY DEF TransformWith
  <1> HIDE DEF call
  <1>7. progs' \in Seq([hook : {"prog"}, equates : EquatesOf(T)])
    BY <1>3, <1>6 DEF ScopeInv, ScopeTyped, BindersTyped
  <1>8. ScopeInv(T, I)'
    BY <1>2, <1>3, <1>4, <1>5, <1>6, <1>7, ScopeEnter
  <1> QED
    BY <1>1, <1>8 DEF SomeInv

(* A PROG begins. *)
LEMMA ScopeProg ==
  ASSUME NEW T, NEW I, SomeInv(T, I), TransformProg
  PROVE  SomeInv(T, I)'
  <1> DEFINE prog == Head(progs)
             call == [hook |-> "prog", terms |-> prog.equates]
  <1>1. OnceInv' /\ OnceInv /\ calls = <<>> /\ progs # <<>>
    BY OnceStep DEF SomeInv, Next, TransformProg
  <1>2. ~Halted /\ ClosuresPlaced /\ CallsShaped
    BY <1>1 DEF OnceInv, CallsShaped
  <1>3. ScopeInv(T, I)
    BY <1>2 DEF SomeInv
  <1>4. /\ prog.equates \in EquatesOf(T)
        /\ progs' \in Seq([hook : {"prog"}, equates : EquatesOf(T)])
    <2>1. progs \in Seq([hook : {"prog"}, equates : EquatesOf(T)]) /\ progs' = Tail(progs)
      BY <1>3 DEF ScopeInv, ScopeTyped, BindersTyped, TransformProg
    <2>2. /\ prog \in [hook : {"prog"}, equates : EquatesOf(T)]
          /\ progs' \in Seq([hook : {"prog"}, equates : EquatesOf(T)])
      BY <1>1, <2>1, HeadTailProperties
    <2> QED
      BY <2>2
  <1>5. call.hook = "prog" /\ call.terms = prog.equates /\ Enter(prog, call)
    BY DEF TransformProg
  <1>6. term' \in T \cup {NoTerm}
    <2>1. prog.equates # <<>> => Head(prog.equates).term \in T
      BY <1>4, NextEquate
    <2> QED
      BY <2>1 DEF TransformProg
  <1> HIDE DEF call, prog
  <1>7. ScopeInv(T, I)'
    BY <1>1, <1>2, <1>3, <1>4, <1>5, <1>6, ScopeEnter
  <1> QED
    BY <1>1, <1>7 DEF SomeInv

(* An equate is bound: one name has a value more, one scope an equate less. *)
LEMMA BindFacts ==
  ASSUME NEW T, NEW I, ScopeTyped(T, I), CallsShaped, Bind,
         NEW n, n = Len(calls), NEW h, h = Head(layers), NEW x, x = Head(Top.terms).name
  PROVE  /\ n \in Scopes /\ n \in DOMAIN calls /\ calls[n] = Top /\ LayersOf(n) = layers
         /\ h \in DOMAIN binders
         /\ calls # <<>> /\ ~Halted /\ calls[n].terms # <<>> /\ calls[n].terms[1].name = x
         /\ DOMAIN calls' = DOMAIN calls /\ Len(calls') = n /\ calls' # <<>>
         /\ calls'[n].terms = Tail(calls[n].terms)
         /\ \A k \in DOMAIN calls : k # n => calls'[k] = calls[k]
         /\ \A k \in DOMAIN calls :
              /\ calls'[k].hook = calls[k].hook /\ LayersOf(k)' = LayersOf(k)
              /\ calls[k].hook # "prog" => calls'[k].layers = calls[k].layers
              /\ k \in Aside => /\ calls'[k].queue = calls[k].queue
                                /\ calls'[k].bases = calls[k].bases
                                /\ calls'[k].body = calls[k].body
         /\ Aside' = Aside /\ Scopes' = Scopes /\ Running' = Running
         /\ IsList(binders') /\ DOMAIN binders' = DOMAIN binders
         /\ \A g \in DOMAIN binders :
              /\ DOMAIN binders'[g] = DOMAIN binders[g]
              /\ \A y \in DOMAIN binders[g] :
                   binders'[g][y] = IF g = h /\ y = x THEN value ELSE binders[g][y]
  <1>1. calls # <<>> /\ ~Halted
    BY Running1 DEF Bind
  <1>2. /\ n \in DOMAIN calls /\ Top = calls[n] /\ Shaped(calls[n]) /\ DOMAIN calls = 1 .. n /\ n \in Nat
        /\ Top.hook \in {"with", "prog"} /\ Top.terms # <<>>
    BY <1>1, CallerFacts DEF Bind
  <1>3. /\ calls' = [calls EXCEPT ![n].terms = Tail(Top.terms)]
        /\ binders' = [binders EXCEPT ![h][x] = value] /\ UNCHANGED <<layers, queue, closures>>
    BY DEF Bind
  <1>4. /\ DOMAIN calls' = DOMAIN calls /\ calls' = [k \in DOMAIN calls |-> calls'[k]]
        /\ calls'[n] = [calls[n] EXCEPT !.terms = Tail(Top.terms)]
        /\ \A k \in DOMAIN calls : k # n => calls'[k] = calls[k]
    BY <1>2, <1>3
  <1>5. Len(calls') = n /\ calls' # <<>>
    BY <1>1, <1>4, MapList, EmptyList DEF CallsShaped
  <1>6. /\ calls'[n].terms = Tail(calls[n].terms) /\ calls'[n].hook = calls[n].hook
        /\ calls[n].hook = "with" => /\ calls'[n].layers = calls[n].layers
                                     /\ calls'[n].queue = calls[n].queue
                                     /\ calls'[n].bases = calls[n].bases
                                     /\ calls'[n].body = calls[n].body
    BY <1>2, <1>4 DEF Shaped
  <1>7. \A k \in DOMAIN calls :
          /\ calls'[k].hook = calls[k].hook
          /\ calls[k].hook # "prog" => calls'[k].layers = calls[k].layers
          /\ k \in Aside => /\ calls'[k].queue = calls[k].queue
                            /\ calls'[k].bases = calls[k].bases
                            /\ calls'[k].body = calls[k].body
    BY <1>2, <1>4, <1>6 DEF Aside
  <1>8. \A k \in DOMAIN calls : LayersOf(k)' = LayersOf(k)
    <2> TAKE k \in DOMAIN calls
    <2>1. CASE k = n
      BY <1>3, <1>5, <2>1 DEF LayersOf
    <2>2. CASE k # n
      <3>1. k + 1 \in DOMAIN calls /\ k + 1 # 1
        BY <1>2, <2>2
      <3>2. calls[k + 1].hook # "prog"
        BY <3>1 DEF CallsShaped
      <3> QED
        BY <1>5, <1>7, <2>2, <3>1, <3>2 DEF LayersOf
    <2> QED
      BY <2>1, <2>2
  <1>9. Aside' = Aside /\ Scopes' = Scopes /\ Running' = Running
    BY <1>4, <1>7 DEF Aside, Scopes, Running
  <1>10. n \in Scopes /\ LayersOf(n) = layers
    BY <1>2 DEF Scopes, LayersOf
  <1>11. h \in DOMAIN binders
    BY <1>2, <1>10, LayersGood
  <1>12. calls[n].terms # <<>> /\ calls[n].terms[1].name = x
    <2>1. calls[n].terms \in EquatesOf(T)
      BY <1>10 DEF ScopeTyped, CallsTyped
    <2> QED
      BY <1>2, <2>1, NextEquate
  <1>13. /\ DOMAIN binders' = DOMAIN binders /\ binders' = [g \in DOMAIN binders |-> binders'[g]]
         /\ binders'[h] = [binders[h] EXCEPT ![x] = value]
         /\ \A g \in DOMAIN binders : g # h => binders'[g] = binders[g]
    <2>1. IsList(binders)
      BY DEF ScopeTyped, BindersTyped
    <2> QED
      BY <1>3, <1>11
  <1>14. /\ IsList(binders')
         /\ \A g \in DOMAIN binders :
              /\ DOMAIN binders'[g] = DOMAIN binders[g]
              /\ \A y \in DOMAIN binders[g] :
                   binders'[g][y] = IF g = h /\ y = x THEN value ELSE binders[g][y]
    <2>1. IsList(binders)
      BY DEF ScopeTyped, BindersTyped
    <2>2. IsList(binders')
      BY <1>13, <2>1, MapList
    <2>3. /\ DOMAIN binders'[h] = DOMAIN binders[h]
          /\ \A y \in DOMAIN binders[h] : binders'[h][y] = IF y = x THEN value ELSE binders[h][y]
      BY <1>13
    <2> QED
      BY <1>13, <2>2, <2>3
  <1> QED
    BY <1>1, <1>2, <1>4, <1>5, <1>6, <1>7, <1>8, <1>9, <1>10, <1>11, <1>12, <1>13, <1>14

(* A name is bound in the layer of the innermost scope. *)
LEMMA ScopeBind ==
  ASSUME NEW T, NEW I, Plain(T, I), SomeInv(T, I), Bind
  PROVE  SomeInv(T, I)'
  <1>0. PICK n, h, x : n = Len(calls) /\ h = Head(layers) /\ x = Head(Top.terms).name
    OBVIOUS
  <1>1. OnceInv' /\ Returning
    BY OnceStep DEF SomeInv, Next, Bind
  <1>2. calls # <<>> /\ ~Halted /\ ClosuresPlaced /\ CallsShaped
    BY <1>1, Running1 DEF SomeInv, OnceInv
  <1>3. ScopeInv(T, I) /\ ScopeTyped(T, I)
    BY <1>2 DEF SomeInv, ScopeInv
  <1>4. /\ n \in Scopes /\ n \in DOMAIN calls /\ calls[n] = Top /\ LayersOf(n) = layers
        /\ calls[n].terms # <<>> /\ calls[n].terms[1].name = x
        /\ DOMAIN calls' = DOMAIN calls /\ calls' # <<>>
        /\ calls'[n].terms = Tail(calls[n].terms)
        /\ \A k \in DOMAIN calls : k # n => calls'[k] = calls[k]
        /\ \A k \in DOMAIN calls :
             /\ calls'[k].hook = calls[k].hook /\ LayersOf(k)' = LayersOf(k)
             /\ calls[k].hook # "prog" => calls'[k].layers = calls[k].layers
             /\ k \in Aside => /\ calls'[k].queue = calls[k].queue
                               /\ calls'[k].body = calls[k].body
        /\ Aside' = Aside /\ Scopes' = Scopes /\ Running' = Running
    BY <1>0, <1>1, <1>2, <1>3, BindFacts, ZenonT(60) DEF Bind
  <1>5. /\ IsList(binders') /\ DOMAIN binders' = DOMAIN binders
        /\ \A g \in DOMAIN binders :
             /\ DOMAIN binders'[g] = DOMAIN binders[g]
             /\ \A y \in DOMAIN binders[g] :
                  binders'[g][y] = IF g = h /\ y = x THEN value ELSE binders[g][y]
    BY <1>0, <1>2, <1>3, BindFacts, SMTT(60)
  <1>6. /\ UNCHANGED <<progs, layers, queue, closures, value>>
        /\ term' = IF Tail(Top.terms) # <<>> THEN Head(Tail(Top.terms)).term
                   ELSE IF Top.hook = "with" THEN Top.body ELSE NoTerm
    BY DEF Bind
  <1>7. \A ls, v : (IsLayers(ls)' <=> IsLayers(ls)) /\ (GoodValue(T, v)' <=> GoodValue(T, v))
    BY <1>5 DEF GoodValue, IsLayers
  <1>8. GoodValue(T, value) /\ value # Unbound
    BY <1>3 DEF ScopeTyped, BindersTyped, GoodValue
  <1>9. BindersTyped(T)'
    <2>1. \A g \in DOMAIN binders : \A y \in DOMAIN binders[g] :
            binders'[g][y] = Unbound \/ GoodValue(T, binders'[g][y])
      BY <1>3, <1>5, <1>8 DEF ScopeTyped, BindersTyped
    <2>2. \A g \in DOMAIN binders' : \A y \in DOMAIN binders'[g] :
            (binders[g][y] = Unbound \/ GoodValue(T, binders[g][y]))'
      <3> TAKE g \in DOMAIN binders'
      <3> TAKE y \in DOMAIN binders'[g]
      <3>1. PICK v : v = binders'[g][y]
        OBVIOUS
      <3>2. v = Unbound \/ GoodValue(T, v)'
        BY <1>5, <1>7, <2>1, <3>1
      <3> QED
        BY <3>1, <3>2 DEF GoodValue, IsLayers
    <2>3. /\ progs' \in Seq([hook : {"prog"}, equates : EquatesOf(T)])
          /\ GoodValue(T, value)'
          /\ layers' \in Seq(DOMAIN binders') /\ layers' # <<>>
      BY <1>2, <1>3, <1>5, <1>6, <1>8 DEF ScopeTyped, BindersTyped, GoodValue, IsLayers
    <2> QED
      BY <1>5, <2>2, <2>3 DEF BindersTyped
  <1>10. \A S : calls[n].terms \in EquatesOf(S) =>
           /\ calls'[n].terms \in EquatesOf(S)
           /\ Tail(Top.terms) # <<>> => Head(Tail(Top.terms)).term \in S
    BY <1>4, NextEquate
  <1>11. CallsTyped(T, I)'
    <2>1. \A k \in DOMAIN calls' :
            /\ calls'[k].hook # "prog" => IsLayers(calls'[k].layers)
            /\ calls'[k].hook = "close" => GoodValue(T, calls'[k].value)
      <3>1. calls[n].hook # "close"
        BY <1>4 DEF Scopes
      <3> QED
        BY <1>3, <1>4, <3>1 DEF ScopeTyped, CallsTyped
    <2>2. \A k \in DOMAIN calls' :
            (/\ calls[k].hook # "prog" => IsLayers(calls[k].layers)
             /\ calls[k].hook = "close" => GoodValue(T, calls[k].value))'
      BY <1>5, <2>1 DEF GoodValue, IsLayers
    <2>3. \A k \in Scopes' : calls'[k].terms \in EquatesOf(T)
      BY <1>3, <1>4, <1>10 DEF Scopes, ScopeTyped, CallsTyped
    <2>4. \A k \in Aside' : calls'[k].terms \in EquatesOf(I) /\ calls'[k].body \in I
      BY <1>3, <1>4, <1>10 DEF Aside, ScopeTyped, CallsTyped
    <2> QED
      BY <2>2, <2>3, <2>4 DEF CallsTyped
  <1>12. TermsTyped(T, I)'
    <2>1. \A c \in DOMAIN closures : IsLayers(closures[c].layers) /\ closures[c].body \in T
      BY <1>3 DEF ScopeTyped, TermsTyped
    <2>2. Aside # {} => n \in Aside
      <3>1. n # 1 => n \in Aside
        BY <1>2, <1>4 DEF CallsShaped, Aside, Scopes
      <3>2. n = 1 => DOMAIN calls = {1} /\ calls[1].hook = "prog"
        BY <1>0, <1>2, CallerFacts
      <3> QED
        BY <3>1, <3>2 DEF Aside
    <2>3. Aside # {} => term' \in I
      BY <1>3, <1>4, <1>6, <1>10, <2>2 DEF ScopeTyped, CallsTyped, Aside
    <2>4. I \subseteq T
      BY DEF Plain
    <2>5. Tail(Top.terms) # <<>> => Head(Tail(Top.terms)).term \in T
      BY <1>3, <1>4, <1>10 DEF ScopeTyped, CallsTyped
    <2>6. Top.hook = "with" => Top.body \in T
      BY <1>3, <1>4, <2>4 DEF ScopeTyped, CallsTyped, Aside
    <2>7. term' \in T \cup {NoTerm}
      BY <1>6, <2>5, <2>6
    <2> QED
      BY <1>4, <1>5, <1>6, <2>1, <2>3, <2>7 DEF TermsTyped, IsLayers
  <1>13. ScopesNested(I)'
    <2>1. \A k \in DOMAIN calls : Inside(k - 1)' <=> Inside(k - 1)
      BY <1>4 DEF Inside
    <2>2. \A k \in DOMAIN calls' : Inside(k - 1) =>
            /\ calls'[k].hook # "apply"
            /\ calls'[k].hook = "close" => LayersOf(k)' = LayersOf(k - 1)'
      <3> SUFFICES ASSUME NEW k \in DOMAIN calls', Inside(k - 1)
                   PROVE  /\ calls'[k].hook # "apply"
                          /\ calls'[k].hook = "close" => LayersOf(k)' = LayersOf(k - 1)'
        OBVIOUS
      <3>1. DOMAIN calls = 1 .. Len(calls) /\ Len(calls) \in Nat
        BY <1>2, CallerFacts
      <3>2. k - 1 \in DOMAIN calls
        BY <1>4, <3>1 DEF Inside, Aside
      <3> QED
        BY <1>3, <1>4, <3>2 DEF ScopeInv, ScopesNested
    <2>3. Aside # {} => \A y \in DOMAIN queue' :
            closures'[queue'[y]].layers = layers' /\ closures'[queue'[y]].body \in I
      BY <1>3, <1>6 DEF ScopeInv, ScopesNested
    <2>4. \A k \in Aside : Inside(k - 1) => \A y \in DOMAIN calls'[k].queue :
            /\ closures'[calls'[k].queue[y]].layers = calls'[k].layers
            /\ closures'[calls'[k].queue[y]].body \in I
      <3>1. \A k \in Aside : Inside(k - 1) => \A y \in DOMAIN calls[k].queue :
              /\ closures[calls[k].queue[y]].layers = calls[k].layers
              /\ closures[calls[k].queue[y]].body \in I
        BY <1>3 DEF ScopeInv, ScopesNested
      <3>2. closures' = closures
        BY <1>6
      <3> TAKE k \in Aside
      <3> HAVE Inside(k - 1)
      <3>3. calls'[k].queue = calls[k].queue /\ calls'[k].layers = calls[k].layers
        BY <1>4 DEF Aside
      <3> QED
        BY ONLY <3>1, <3>2, <3>3, k \in Aside, Inside(k - 1)
    <2>5. \A j, k \in Scopes : Head(LayersOf(j)') = Head(LayersOf(k)') => j = k
      <3>1. \A k \in Scopes : LayersOf(k)' = LayersOf(k)
        BY <1>4 DEF Scopes
      <3> QED
        BY <1>3, <3>1 DEF ScopeInv, ScopesNested
    <2>6. \A k \in Aside : k \in DOMAIN calls
      BY DEF Aside
    <2> QED
      BY <1>4, <2>1, <2>2, <2>3, <2>4, <2>5, <2>6 DEF ScopesNested
  <1>14. ASSUME NEW g \in DOMAIN binders, NEW y \in DOMAIN binders[g], binders'[g][y] = Unbound
         PROVE  Pending(g, y)'
    <2>1. binders[g][y] = Unbound /\ ~(g = h /\ y = x)
      BY <1>5, <1>8, <1>14
    <2>a. PICK i \in Scopes : /\ g = Head(LayersOf(i))
                              /\ \E j \in DOMAIN calls[i].terms : calls[i].terms[j].name = y
      BY <1>3, <2>1 DEF ScopeInv, UnboundPending, Pending
    <2>2. PICK j \in DOMAIN calls[i].terms :
            g = Head(LayersOf(i)) /\ calls[i].terms[j].name = y
      BY <2>a
    <2>3. i \in Scopes' /\ g = Head(LayersOf(i)')
      BY <1>4, <2>2 DEF Scopes
    <2>4. CASE i # n
      <3>1. calls'[i] = calls[i]
        BY <1>4, <2>4 DEF Scopes
      <3> QED
        BY <2>2, <2>3, <3>1 DEF Pending
    <2>5. CASE i = n
      <3>1. j # 1
        BY <1>0, <1>4, <2>1, <2>2, <2>5
      <3>2. calls[n].terms \in EquatesOf(T)
        BY <1>3, <1>4 DEF ScopeTyped, CallsTyped
      <3>3. /\ DOMAIN calls[n].terms = 1 .. Len(calls[n].terms) /\ Len(calls[n].terms) \in Nat
            /\ DOMAIN Tail(calls[n].terms) = 1 .. Len(calls[n].terms) - 1
            /\ \A l \in DOMAIN Tail(calls[n].terms) : Tail(calls[n].terms)[l] = calls[n].terms[l + 1]
        BY <1>4, <3>2, NextEquate
      <3>4. j - 1 \in DOMAIN Tail(calls[n].terms) /\ Tail(calls[n].terms)[j - 1] = calls[n].terms[j]
        BY <2>2, <2>5, <3>1, <3>3
      <3> QED
        BY <1>4, <2>2, <2>3, <2>5, <3>4 DEF Pending
    <2> QED
      BY <2>4, <2>5
  <1>15. UnboundPending'
    BY <1>5, <1>14 DEF UnboundPending
  <1>16. ClosesFull'
    <2> SUFFICES ASSUME NEW k \in Running PROVE Full(Head(LayersOf(k)))'
      BY <1>4 DEF ClosesFull
    <2>1. LayersOf(k)' = LayersOf(k) /\ Head(LayersOf(k)) \in DOMAIN binders
      BY <1>2, <1>3, <1>4, LayersGood DEF Running
    <2>2. Full(Head(LayersOf(k)))
      BY <1>3 DEF ScopeInv, ClosesFull
    <2> QED
      BY <1>5, <1>8, <2>1, <2>2 DEF Full
  <1>17. ScopeInv(T, I)'
    BY <1>9, <1>11, <1>12, <1>13, <1>15, <1>16 DEF ScopeInv, ScopeTyped
  <1> QED
    BY <1>1, <1>17 DEF SomeInv

(* A WITH ends, with all its names bound. *)
LEMMA ScopeLeaveWith ==
  ASSUME NEW T, NEW I, SomeInv(T, I), LeaveWith
  PROVE  SomeInv(T, I)'
  <1>0. PICK n : n = Len(calls)
    OBVIOUS
  <1>1. OnceInv' /\ Returning /\ AllBound
    BY OnceStep DEF SomeInv, Next, LeaveWith, AllBound
  <1>2. calls # <<>> /\ ~Halted /\ ClosuresPlaced /\ CallsShaped
    BY <1>1, Running1 DEF SomeInv, OnceInv
  <1>3. ScopeInv(T, I) /\ ScopeTyped(T, I)
    BY <1>2 DEF SomeInv, ScopeInv
  <1>4. /\ calls' = Caller /\ Top.hook = "with" /\ Top.terms = <<>> /\ layers' = Top.layers
        /\ queue' = Top.queue /\ UNCHANGED <<progs, binders, closures, term, value>>
        /\ term = NoTerm
    BY <1>1 DEF LeaveWith, AllBound, Returning
  <1>5. /\ DOMAIN calls' = DOMAIN calls \ {n} /\ n \in DOMAIN calls
        /\ n - 1 \in DOMAIN calls' /\ DOMAIN calls = 1 .. n /\ n \in Nat /\ calls' # <<>>
        /\ Top = calls[n] /\ LayersOf(n) = layers /\ LayersOf(n - 1) = layers'
        /\ \A k \in DOMAIN calls' : calls'[k] = calls[k] /\ LayersOf(k)' = LayersOf(k)
    BY <1>0, <1>2, <1>4, PopCall
  <1>6. /\ Aside' = Aside \ {n} /\ Scopes' = Scopes \ {n} /\ Running' \subseteq Running
        /\ n \in Aside /\ Aside \subseteq Scopes
        /\ \A k \in DOMAIN calls' : Inside(k - 1)' <=> Inside(k - 1)
    BY <1>4, <1>5 DEF Aside, Scopes, Running, Inside
  <1>7. UnboundPending' /\ ClosesFull'
    <2>1. \A k \in DOMAIN calls \ DOMAIN calls' :
            calls[k].hook \in {"with", "prog"} => calls[k].terms = <<>>
      BY <1>4, <1>5
    <2> QED
      BY <1>3, <1>4, <1>5, <2>1, PendingStays DEF ScopeInv
  <1>8. IsLayers(layers')
    BY <1>3, <1>4, <1>5 DEF ScopeTyped, CallsTyped
  <1>9. \A v : (GoodValue(T, v)' <=> GoodValue(T, v)) /\ (IsLayers(v)' <=> IsLayers(v))
    BY <1>4 DEF GoodValue, IsLayers
  <1>10. BindersTyped(T)'
    BY <1>3, <1>4, <1>8, <1>9 DEF ScopeTyped, BindersTyped, IsLayers
  <1>11. CallsTyped(T, I)'
    BY <1>3, <1>5, <1>6, <1>9 DEF ScopeTyped, CallsTyped, Scopes, Aside
  <1>12. TermsTyped(T, I)'
    BY <1>3, <1>4, <1>9 DEF ScopeTyped, TermsTyped
  <1>13. ScopesNested(I)'
    <2>1. \A k \in DOMAIN calls' : Inside(k - 1) =>
            /\ calls'[k].hook # "apply"
            /\ calls'[k].hook = "close" => LayersOf(k)' = LayersOf(k - 1)'
      <3> SUFFICES ASSUME NEW k \in DOMAIN calls', Inside(k - 1)
                   PROVE  /\ calls'[k].hook # "apply"
                          /\ calls'[k].hook = "close" => LayersOf(k)' = LayersOf(k - 1)'
        OBVIOUS
      <3>1. k - 1 \in DOMAIN calls'
        BY <1>5 DEF Inside, Aside
      <3> QED
        BY <1>3, <1>5, <3>1 DEF ScopeInv, ScopesNested
    <2>2. \A k \in Aside : Inside(k - 1) => \A x \in DOMAIN calls[k].queue :
            /\ closures[calls[k].queue[x]].layers = calls[k].layers
            /\ closures[calls[k].queue[x]].body \in I
      BY <1>3 DEF ScopeInv, ScopesNested
    <2>3. Aside' # {} => Inside(n - 1)
      BY <1>5, <1>6 DEF Inside, Aside
    <2>4. Aside' # {} => \A x \in DOMAIN queue' :
            closures'[queue'[x]].layers = layers' /\ closures'[queue'[x]].body \in I
      BY <1>4, <1>5, <1>6, <2>2, <2>3
    <2>5. \A k \in Aside' : Inside(k - 1) => \A x \in DOMAIN calls'[k].queue :
            /\ closures'[calls'[k].queue[x]].layers = calls'[k].layers
            /\ closures'[calls'[k].queue[x]].body \in I
      <3> TAKE k \in Aside'
      <3> HAVE Inside(k - 1)
      <3>1. k \in Aside /\ calls'[k] = calls[k] /\ closures' = closures
        BY <1>4, <1>5, <1>6 DEF Aside
      <3> QED
        BY ONLY <2>2, <3>1, Inside(k - 1)
    <2>6. \A j, k \in Scopes' : Head(LayersOf(j)') = Head(LayersOf(k)') => j = k
      <3>1. \A k \in Scopes' : k \in Scopes /\ LayersOf(k)' = LayersOf(k)
        BY <1>5, <1>6 DEF Scopes
      <3> QED
        BY <1>3, <3>1 DEF ScopeInv, ScopesNested
    <2>7. \A k \in Aside' : k \in DOMAIN calls'
      BY DEF Aside
    <2> QED
      BY <1>6, <2>1, <2>4, <2>5, <2>6, <2>7 DEF ScopesNested
  <1>14. ScopeInv(T, I)'
    BY <1>7, <1>10, <1>11, <1>12, <1>13 DEF ScopeInv, ScopeTyped
  <1> QED
    BY <1>1, <1>14 DEF SomeInv

(* A PROG ends, with all its names bound. *)
LEMMA ScopeLeaveProg ==
  ASSUME NEW T, NEW I, SomeInv(T, I), LeaveProg
  PROVE  SomeInv(T, I)'
  <1>1. OnceInv' /\ Returning /\ AllBound
    BY OnceStep DEF SomeInv, Next, LeaveProg, AllBound
  <1>2. calls # <<>> /\ ~Halted /\ ClosuresPlaced /\ CallsShaped
    BY <1>1, Running1 DEF SomeInv, OnceInv
  <1>3. ScopeInv(T, I) /\ ScopeTyped(T, I)
    BY <1>2 DEF SomeInv, ScopeInv
  <1>4. /\ calls' = Caller /\ Top.hook = "prog" /\ Top.terms = <<>>
        /\ UNCHANGED <<progs, layers, binders, closures, queue, term, value>> /\ term = NoTerm
    BY <1>1 DEF LeaveProg, AllBound, Returning
  <1>5. calls' = <<>> /\ DOMAIN calls' = {} /\ DOMAIN calls = {1} /\ calls[1] = Top
    BY <1>2, <1>4, CallerFacts, EmptyList
  <1>6. Aside' = {} /\ Scopes' = {} /\ Running' = {}
    BY <1>5 DEF Aside, Scopes, Running
  <1>7. UnboundPending' /\ ClosesFull'
    <2>1. \A k \in DOMAIN calls \ DOMAIN calls' :
            calls[k].hook \in {"with", "prog"} => calls[k].terms = <<>>
      BY <1>4, <1>5
    <2> QED
      BY <1>3, <1>4, <1>5, <2>1, PendingStays DEF ScopeInv
  <1>8. \A v : (GoodValue(T, v)' <=> GoodValue(T, v)) /\ (IsLayers(v)' <=> IsLayers(v))
    BY <1>4 DEF GoodValue, IsLayers
  <1>9. BindersTyped(T)'
    BY <1>3, <1>4, <1>5, <1>8 DEF ScopeTyped, BindersTyped
  <1>10. CallsTyped(T, I)'
    BY <1>5, <1>6 DEF CallsTyped
  <1>11. TermsTyped(T, I)'
    BY <1>3, <1>4, <1>8 DEF ScopeTyped, TermsTyped
  <1>12. ScopesNested(I)'
    BY <1>5, <1>6 DEF ScopesNested
  <1>13. ScopeInv(T, I)'
    BY <1>7, <1>9, <1>10, <1>11, <1>12 DEF ScopeInv, ScopeTyped
  <1> QED
    BY <1>1, <1>13 DEF SomeInv

(* There are no scopes at the start. *)
LEMMA ScopeInitially ==
  ASSUME NEW T, NEW I, Plain(T, I), Init
  PROVE  SomeInv(T, I)
  <1>1. /\ progs \in Program /\ layers = <<>> /\ binders = <<>> /\ calls = <<>>
        /\ queue = <<>> /\ closures = <<>> /\ term = NoTerm /\ value = Skip
    BY DEF Init
  <1>2. Aside = {} /\ Scopes = {} /\ Running = {}
    BY <1>1, EmptyList DEF Aside, Scopes, Running
  <1>3. BindersTyped(T)
    <2>1. progs \in Seq([hook : {"prog"}, equates : EquatesOf(T)])
      BY <1>1 DEF Plain
    <2>2. GoodValue(T, value)
      BY <1>1 DEF GoodValue, Skip, Unbound
    <2>3. layers \in Seq(DOMAIN binders)
      BY <1>1, EmptySeq
    <2> QED
      BY <1>1, <2>1, <2>2, <2>3, EmptyList DEF BindersTyped
  <1>4. CallsTyped(T, I) /\ TermsTyped(T, I)
    BY <1>1, <1>2, EmptyList DEF CallsTyped, TermsTyped
  <1>5. ScopesNested(I) /\ UnboundPending /\ ClosesFull
    BY <1>1, <1>2, EmptyList DEF ScopesNested, UnboundPending, ClosesFull
  <1> QED
    BY <1>3, <1>4, <1>5, OnceInitially DEF SomeInv, ScopeInv, ScopeTyped

(* Every step keeps scopes nested, and unbound names in scopes that go on. *)
LEMMA ScopeStep ==
  ASSUME NEW T, NEW I, Plain(T, I), SomeInv(T, I), [Next]_vars
  PROVE  SomeInv(T, I)'
  <1>1. OnceInv'
    BY OnceStep DEF SomeInv
  <1>2. CASE Halt
    <2>1. Halted'
      BY <1>2 DEF Halt, NestedTooDeeply, OutOfMemory, Stop, Halted
    <2> QED
      BY <1>1, <2>1 DEF SomeInv
  <1>3. CASE UNCHANGED vars
    <2>1. Halted' <=> Halted
      BY <1>3 DEF vars, Halted
    <2>2. ScopeTyped(T, I)' <=> ScopeTyped(T, I)
      <3>1. BindersTyped(T)' <=> BindersTyped(T)
        BY <1>3 DEF vars, BindersTyped, IsLayers, GoodValue
      <3>2. CallsTyped(T, I)' <=> CallsTyped(T, I)
        BY <1>3 DEF vars, CallsTyped, IsLayers, GoodValue, Scopes, Aside
      <3>3. TermsTyped(T, I)' <=> TermsTyped(T, I)
        BY <1>3 DEF vars, TermsTyped, Aside, IsLayers
      <3> QED
        BY <3>1, <3>2, <3>3 DEF ScopeTyped
    <2>3. ScopesNested(I)' <=> ScopesNested(I)
      BY <1>3 DEF vars, ScopesNested, LayersOf, Inside, Aside, Scopes
    <2>4. (UnboundPending' <=> UnboundPending) /\ (ClosesFull' <=> ClosesFull)
      BY <1>3 DEF vars, UnboundPending, ClosesFull, Pending, Full, LayersOf, Scopes, Running
    <2> QED
      BY <1>1, <2>1, <2>2, <2>3, <2>4 DEF SomeInv, ScopeInv
  <1> QED
    BY <1>2, <1>3, ScopeTransform, ScopeApply, ScopeReturnFromForm, ScopeWith, ScopeProg, ScopeBind,
       ScopeUpdate, ScopeReturnFromProc, ScopeLeaveWith, ScopeLeaveProg DEF Next

(* Scopes are nested in all states. *)
LEMMA ScopeAlways ==
  ASSUME NEW T, NEW I, Plain(T, I)
  PROVE  Spec => []SomeInv(T, I)
  <1>1. Init => SomeInv(T, I)
    BY ScopeInitially
  <1>2. SomeInv(T, I) /\ [Next]_vars => SomeInv(T, I)'
    BY ScopeStep
  <1> QED
    BY <1>1, <1>2, PTL DEF Spec

(* The body of a PROC finds all names of the scope where it was made bound, *)
(* those too that are equated after it: the queue is emptied by the scope   *)
(* that made the closure, not by one inside it or around it.                *)
THEOREM BodiesSeeScope ==
  ASSUME NEW T, NEW I, Plain(T, I)
  PROVE  Spec => []BodySeesScope
  <1>1. SomeInv(T, I) => BodySeesScope
    <2> SUFFICES ASSUME SomeInv(T, I), calls # <<>>, Top.hook = "close"
                 PROVE  Full(Head(layers))
      BY DEF BodySeesScope, Full
    <2>1. CallsShaped
      BY DEF SomeInv, OnceInv
    <2>2. ~Halted /\ Len(calls) \in DOMAIN calls /\ Top = calls[Len(calls)]
      BY <2>1, CallerFacts
    <2>3. Len(calls) \in Running /\ LayersOf(Len(calls)) = layers
      BY <2>2 DEF Running, LayersOf
    <2> QED
      BY <2>2, <2>3 DEF SomeInv, ScopeInv, ClosesFull
  <1>2. Spec => []SomeInv(T, I)
    BY ScopeAlways
  <1> QED
    BY <1>1, <1>2, PTL

-----------------------------------------------------------------------------
(***************************************************************************)
(* REFs that wait in BASES                                                 *)
(***************************************************************************)

(* The REF type P waits for its name, which is found in the layers LS. *)
Waits(p, ls) ==
  /\ pointers[p].home # 0 /\ HomeOf(ls, pointers[p].name) = pointers[p].home
  /\ pointers[p].base = Unbound /\ binders[pointers[p].home][pointers[p].name] = Unbound

(* The layers that BASES is for while call K is the last one: no form is *)
(* called inside a WITH, so they are those of the innermost scope.       *)
Outer(k) == IF Inside(k) THEN LayersOf(k) ELSE LayersOf(1)

PointersTyped ==
  /\ IsList(pointers)
  /\ \A p \in DOMAIN pointers :
       /\ DOMAIN pointers[p] = {"name", "home", "base", "here"}
       /\ pointers[p].home # 0 =>
            /\ pointers[p].home \in DOMAIN binders
            /\ pointers[p].name \in DOMAIN binders[pointers[p].home]

BasesWait ==
  /\ bases \subseteq DOMAIN pointers
  /\ calls = <<>> => bases = {}
  /\ calls # <<>> => \A p \in bases : Waits(p, Outer(Len(calls)))

(* BASES that a WITH put aside waits for names of scopes around the WITH. *)
AsideWaits ==
  \A k \in Aside : \A p \in calls[k].bases :
    /\ p \in DOMAIN pointers
    /\ Waits(p, Outer(k - 1))
    /\ \E i \in Scopes : i < k /\ pointers[p].home = Head(LayersOf(i))

(* A REF to a name of the scope it is made in waits in the BASES of that scope. *)
HereWaits ==
  /\ Aside # {} => \A p \in bases : pointers[p].here => pointers[p].home = Head(layers)
  /\ \A k \in Aside : Inside(k - 1) => \A p \in calls[k].bases :
       pointers[p].here => pointers[p].home = Head(calls[k].layers)
  /\ \A p \in DOMAIN pointers : pointers[p].here /\ pointers[p].base = Unbound =>
       p \in bases \/ \E k \in Aside : p \in calls[k].bases

ForwardInv == PointersTyped /\ BasesWait /\ AsideWaits /\ HereWaits

(* Names are found in the same layer when layers are added. *)
LEMMA HomeStays ==
  ASSUME NEW ls \in Seq(DOMAIN binders), NEW x,
         DOMAIN binders \subseteq DOMAIN binders',
         \A g \in DOMAIN binders : DOMAIN binders'[g] = DOMAIN binders[g]
  PROVE  HomeOf(ls, x)' = HomeOf(ls, x)
  <1>1. \A i \in DOMAIN ls : ls[i] \in DOMAIN binders
    BY LenProperties
  <1>2. { i \in DOMAIN ls : x \in DOMAIN binders'[ls[i]] } = { i \in DOMAIN ls : x \in DOMAIN binders[ls[i]] }
    BY <1>1
  <1> DEFINE F(S) == IF S = {} THEN 0 ELSE ls[CHOOSE i \in S : \A j \in S : i <= j]
  <1>3. HomeOf(ls, x) = F({ i \in DOMAIN ls : x \in DOMAIN binders[ls[i]] })
    BY DEF HomeOf
  <1>4. HomeOf(ls, x)' = F({ i \in DOMAIN ls : x \in DOMAIN binders'[ls[i]] })
    BY DEF HomeOf
  <1> HIDE DEF F
  <1> QED
    BY <1>2, <1>3, <1>4

(* A REF goes on waiting when its name is not bound. *)
LEMMA WaitsStays ==
  ASSUME NEW p, NEW ls \in Seq(DOMAIN binders), Waits(p, ls), pointers'[p] = pointers[p],
         DOMAIN binders \subseteq DOMAIN binders',
         \A g \in DOMAIN binders : DOMAIN binders'[g] = DOMAIN binders[g],
         binders'[pointers[p].home][pointers[p].name] = Unbound
  PROVE  Waits(p, ls)'
  <1>1. HomeOf(ls, pointers[p].name)' = HomeOf(ls, pointers'[p].name)
    <2>1. PICK x : x = pointers[p].name
      OBVIOUS
    <2>2. HomeOf(ls, x)' = HomeOf(ls, x)
      BY HomeStays
    <2> QED
      BY <2>1, <2>2 DEF HomeOf
  <1> QED
    BY <1>1 DEF Waits

(* BASES is for a list of layers. *)
LEMMA OuterGood ==
  ASSUME NEW T, NEW I, ScopeTyped(T, I), CallsShaped, NEW k \in DOMAIN calls
  PROVE  Outer(k) \in Seq(DOMAIN binders)
  <1>1. calls # <<>>
    BY EmptyList
  <1>2. 1 \in DOMAIN calls
    BY <1>1, CallerFacts
  <1>3. IsLayers(LayersOf(k)) /\ IsLayers(LayersOf(1))
    BY <1>2, LayersGood
  <1> QED
    BY <1>3 DEF Outer, IsLayers

(* A REF waits for a name that a scope has still to bind. *)
LEMMA WaitsPending ==
  ASSUME NEW T, NEW I, ScopeInv(T, I), NEW p, NEW ls \in Seq(DOMAIN binders), Waits(p, ls)
  PROVE  /\ pointers[p].home \in DOMAIN binders
         /\ pointers[p].name \in DOMAIN binders[pointers[p].home]
         /\ Pending(pointers[p].home, pointers[p].name)
         /\ \E i \in Scopes : pointers[p].home = Head(LayersOf(i)) /\ calls[i].terms # <<>>
  <1>1. /\ pointers[p].home \in DOMAIN binders
        /\ pointers[p].name \in DOMAIN binders[pointers[p].home]
    BY HomeFacts DEF Waits
  <1>2. Pending(pointers[p].home, pointers[p].name)
    BY <1>1 DEF Waits, ScopeInv, UnboundPending
  <1> QED
    BY <1>1, <1>2, EmptyList DEF Pending

(* Steps that bind no name, and neither begin nor end a scope. *)
LEMMA QuietFacts ==
  ASSUME NEW T, NEW I, Plain(T, I), SomeInv(T, I),
         \/ TransformName \/ TransformRefer \/ TransformProcMake \/ TransformFormMake
         \/ TransformApply \/ ReturnFromForm \/ UpdateProcedure \/ ReturnFromProc
  PROVE  /\ calls # <<>> /\ calls' # <<>> /\ ~Halted /\ binders' = binders /\ progs' = progs
         /\ Aside' = Aside /\ Scopes' = Scopes
         /\ Aside # {} => layers' = layers
         /\ \A k \in DOMAIN calls \cap DOMAIN calls' : calls'[k] = calls[k] /\ LayersOf(k)' = LayersOf(k)
  <1>0. PICK n, m : n = Len(calls) + 1 /\ m = Len(calls)
    OBVIOUS
  <1>1. calls # <<>> /\ ~Halted /\ CallsShaped /\ ClosuresPlaced
    BY Running1 DEF SomeInv, OnceInv, TransformName, TransformRefer, TransformProcMake,
       TransformFormMake, TransformApply, ReturnFromForm, UpdateProcedure, AllBound, ReturnFromProc,
       Transforming, NoTerm
  <1>2. ScopeInv(T, I)
    BY <1>1 DEF SomeInv
  <1>3. binders' = binders /\ progs' = progs
    BY DEF TransformName, TransformRefer, TransformProcMake, TransformFormMake, TransformApply,
           ReturnFromForm, UpdateProcedure, ReturnFromProc
  <1>4. ASSUME UNCHANGED <<calls, layers>>
        PROVE  /\ calls' # <<>> /\ Aside' = Aside /\ Scopes' = Scopes /\ layers' = layers
               /\ \A k \in DOMAIN calls : calls'[k] = calls[k] /\ LayersOf(k)' = LayersOf(k)
    BY <1>1, <1>4 DEF Aside, Scopes, LayersOf
  <1>5. ASSUME NEW call, calls' = Append(calls, call), call.layers = layers,
               call.hook \in {"apply", "close"}
        PROVE  /\ calls' # <<>> /\ Aside' = Aside /\ Scopes' = Scopes
               /\ \A k \in DOMAIN calls : calls'[k] = calls[k] /\ LayersOf(k)' = LayersOf(k)
    <2>1. /\ DOMAIN calls' = DOMAIN calls \cup {n} /\ n \notin DOMAIN calls
          /\ calls' # <<>> /\ calls'[n] = call
          /\ \A k \in DOMAIN calls : calls'[k] = calls[k] /\ LayersOf(k)' = LayersOf(k)
      BY <1>0, <1>1, <1>5, PushCall
    <2>2. Aside' = Aside /\ Scopes' = Scopes
      BY <1>5, <2>1 DEF Aside, Scopes
    <2> QED
      BY <2>1, <2>2
  <1>6. ASSUME calls' = Caller, Top.hook \in {"apply", "close"}, layers' = Top.layers
        PROVE  /\ calls' # <<>> /\ Aside' = Aside /\ Scopes' = Scopes
               /\ Aside # {} => layers' = layers
               /\ \A k \in DOMAIN calls' : calls'[k] = calls[k] /\ LayersOf(k)' = LayersOf(k)
    <2>1. /\ DOMAIN calls' = DOMAIN calls \ {m} /\ m \in DOMAIN calls /\ calls' # <<>>
          /\ DOMAIN calls = 1 .. m /\ m \in Nat
          /\ Top = calls[m] /\ LayersOf(m) = layers /\ LayersOf(m - 1) = layers'
          /\ \A k \in DOMAIN calls' : calls'[k] = calls[k] /\ LayersOf(k)' = LayersOf(k)
      BY <1>0, <1>1, <1>6, PopCall
    <2>2. Aside' = Aside /\ Scopes' = Scopes
      BY <1>6, <2>1 DEF Aside, Scopes
    <2>3. Aside # {} => layers' = layers
      <3> SUFFICES ASSUME Aside # {} PROVE layers' = layers
        OBVIOUS
      <3>1. PICK i \in Aside : i \in DOMAIN calls /\ calls[i].hook = "with"
        BY DEF Aside
      <3>2. i <= m - 1
        BY <1>6, <2>1, <3>1
      <3>3. Inside(m - 1)
        BY <3>2 DEF Inside
      <3> QED
        BY <1>2, <1>6, <2>1, <3>3 DEF ScopeInv, ScopesNested
    <2> QED
      BY <2>1, <2>2, <2>3
  <1>7. CASE TransformName \/ TransformRefer \/ TransformProcMake \/ TransformFormMake
    <2>1. UNCHANGED <<calls, layers>>
      BY <1>7 DEF TransformName, TransformRefer, TransformProcMake, TransformFormMake
    <2> QED
      BY <1>1, <1>3, <1>4, <2>1
  <1>8. CASE TransformApply
    <2>1. Aside = {}
      <3>1. term \in T /\ term # NoTerm /\ term.hook = "apply"
        <4>1. term # NoTerm /\ term.hook = "apply"
          BY <1>8 DEF TransformApply, Transforming, NoTerm
        <4>2. term # NoTerm => term \in T
          BY <1>2 DEF ScopeInv, ScopeTyped, TermsTyped
        <4> QED
          BY <4>1, <4>2
      <3> QED
        BY <1>2, <3>1 DEF ScopeInv, ScopeTyped, TermsTyped, Plain
    <2>2. \/ calls' = Append(calls, [hook |-> "apply", layers |-> layers])
          \/ UNCHANGED <<calls, layers>>
      BY <1>8 DEF TransformApply, Deeper
    <2>3. CASE calls' = Append(calls, [hook |-> "apply", layers |-> layers])
      <3>1. PICK call : calls' = Append(calls, call) /\ call.layers = layers /\ call.hook = "apply"
        BY <2>3
      <3> QED
        BY <1>1, <1>3, <1>5, <2>1, <3>1
    <2> QED
      BY <1>1, <1>3, <1>4, <2>2, <2>3
  <1>9. CASE ReturnFromForm \/ ReturnFromProc
    <2>1. calls' = Caller /\ Top.hook \in {"apply", "close"} /\ layers' = Top.layers
      BY <1>9 DEF ReturnFromForm, ReturnFromProc
    <2> QED
      BY <1>1, <1>3, <1>6, <2>1
  <1>10. CASE UpdateProcedure
    <2>1. Aside # {} => layers' = layers
      BY <1>1, <1>2, <1>10, QueueFull DEF UpdateProcedure
    <2>2. PICK call : calls' = Append(calls, call) /\ call.layers = layers /\ call.hook = "close"
      BY <1>10 DEF UpdateProcedure, Deeper
    <2> QED
      BY <1>1, <1>3, <1>5, <2>1, <2>2
  <1> QED
    BY <1>7, <1>8, <1>9, <1>10

(* A step that binds no name leaves all REFs waiting. *)
LEMMA ForwardSame ==
  ASSUME NEW T, NEW I, ScopeInv(T, I), CallsShaped, CallsShaped', ForwardInv,
         calls # <<>>, calls' # <<>>, binders' = binders, Aside' = Aside, Scopes' = Scopes,
         Aside # {} => layers' = layers,
         \A k \in DOMAIN calls \cap DOMAIN calls' : calls'[k] = calls[k] /\ LayersOf(k)' = LayersOf(k),
         PointersTyped', bases \subseteq bases', bases' \subseteq DOMAIN pointers',
         \A p \in DOMAIN pointers : p \in DOMAIN pointers' /\ pointers'[p] = pointers[p],
         \A p \in bases' \ bases :
           /\ Waits(p, Outer(Len(calls)))'
           /\ Aside # {} /\ pointers'[p].here => pointers'[p].home = Head(layers'),
         \A p \in DOMAIN pointers' \ DOMAIN pointers :
           pointers'[p].here /\ pointers'[p].base = Unbound => p \in bases'
  PROVE  ForwardInv'
  <1>0. PICK m, n : m = Len(calls) /\ n = Len(calls')
    OBVIOUS
  <1>1. /\ 1 \in DOMAIN calls /\ 1 \in DOMAIN calls' /\ m \in DOMAIN calls /\ n \in DOMAIN calls'
        /\ DOMAIN calls = 1 .. m /\ DOMAIN calls' = 1 .. n /\ m \in Nat /\ n \in Nat
    <2>1. 1 \in DOMAIN calls /\ m \in DOMAIN calls /\ DOMAIN calls = 1 .. m /\ m \in Nat
      BY <1>0, CallerFacts
    <2>2. IsList(calls') /\ DOMAIN calls' = 1 .. n /\ n \in Nat
      BY <1>0, ListIsSeq DEF CallsShaped, IsList
    <2>3. n # 0
      BY <1>0, <2>2, EmptySeq, ListIsSeq
    <2> QED
      BY <2>1, <2>2, <2>3
  <1>2. \A k : Inside(k)' <=> Inside(k)
    BY DEF Inside
  <1>3. \A k \in DOMAIN calls \cap DOMAIN calls' : Outer(k)' = Outer(k)
    BY <1>1, <1>2 DEF Outer
  <1>4. Outer(n)' = Outer(m)
    <2>1. CASE Aside = {}
      BY <1>1, <1>2, <2>1 DEF Outer, Inside
    <2>2. CASE Aside # {}
      <3>1. PICK i \in Aside : i \in DOMAIN calls /\ i \in DOMAIN calls'
        BY <2>2 DEF Aside
      <3>2. Inside(m) /\ Inside(n)
        BY <1>1, <3>1 DEF Inside
      <3> QED
        BY <1>0, <1>2, <2>2, <3>2 DEF Outer, LayersOf
    <2> QED
      BY <2>1, <2>2
  <1>5. ASSUME NEW p \in DOMAIN pointers, NEW ls \in Seq(DOMAIN binders), Waits(p, ls)
        PROVE  Waits(p, ls)'
    <2>1. binders'[pointers[p].home][pointers[p].name] = Unbound
      BY <1>5 DEF Waits
    <2> QED
      BY <1>5, <2>1, WaitsStays
  <1>6. BasesWait'
    <2>1. ASSUME NEW p \in bases PROVE Waits(p, Outer(n))'
      <3>1. PICK ls : ls = Outer(m)
        OBVIOUS
      <3>2. Waits(p, ls) /\ p \in DOMAIN pointers
        BY <1>0, <3>1 DEF ForwardInv, BasesWait
      <3>3. ls \in Seq(DOMAIN binders)
        BY <1>1, <3>1, OuterGood DEF ScopeInv
      <3>4. Waits(p, ls)'
        BY <1>5, <3>2, <3>3
      <3> QED
        BY <1>4, <3>1, <3>4 DEF Waits
    <2>2. \A p \in bases' : Waits(p, Outer(n))'
      BY <1>0, <2>1 DEF Waits
    <2>3. \A p \in bases' : Waits(p, Outer(Len(calls)))'
      BY <1>0, <2>2
    <2> QED
      BY <2>3 DEF BasesWait
  <1>7. AsideWaits'
    <2> SUFFICES ASSUME NEW k \in Aside, NEW p \in calls[k].bases
                 PROVE  /\ p \in DOMAIN pointers' /\ Waits(p, Outer(k - 1))'
                        /\ \E i \in Scopes : i < k /\ pointers'[p].home = Head(LayersOf(i)')
      <3>1. \A k \in Aside : calls'[k] = calls[k]
        BY DEF Aside
      <3> QED
        BY <3>1 DEF AsideWaits
    <2>1. /\ p \in DOMAIN pointers /\ Waits(p, Outer(k - 1))
          /\ \E i \in Scopes : i < k /\ pointers[p].home = Head(LayersOf(i))
      BY DEF ForwardInv, AsideWaits
    <2>2. k - 1 \in DOMAIN calls /\ k - 1 \in DOMAIN calls'
      <3>1. k \in DOMAIN calls /\ k \in DOMAIN calls' /\ k # 1
        BY DEF Aside, CallsShaped
      <3> QED
        BY <1>1, <3>1
    <2>3. PICK ls : ls = Outer(k - 1)
      OBVIOUS
    <2>4. Waits(p, ls)'
      BY <1>5, <2>1, <2>2, <2>3, OuterGood DEF ScopeInv
    <2>5. Outer(k - 1)' = ls
      BY <1>3, <2>2, <2>3
    <2>6. \A i \in Scopes : LayersOf(i)' = LayersOf(i)
      BY DEF Scopes
    <2> QED
      BY <2>1, <2>4, <2>5, <2>6 DEF Waits
  <1>8. HereWaits'
    <2>1. \A k \in Aside : calls'[k] = calls[k]
      BY DEF Aside
    <2>2. \A k \in Aside : \A p \in calls[k].bases : p \in DOMAIN pointers
      BY DEF ForwardInv, AsideWaits
    <2>3. \A p \in bases : p \in DOMAIN pointers
      BY DEF ForwardInv, BasesWait
    <2>4. Aside # {} => \A p \in bases' : pointers'[p].here => pointers'[p].home = Head(layers')
      BY <2>3 DEF ForwardInv, HereWaits
    <2>5. \A k \in Aside : Inside(k - 1) => \A p \in calls[k].bases :
            pointers'[p].here => pointers'[p].home = Head(calls[k].layers)
      BY <2>2 DEF ForwardInv, HereWaits
    <2>6. \A p \in DOMAIN pointers' : pointers'[p].here /\ pointers'[p].base = Unbound =>
            p \in bases' \/ \E k \in Aside : p \in calls[k].bases
      BY DEF ForwardInv, HereWaits
    <2> QED
      BY <1>2, <2>1, <2>4, <2>5, <2>6 DEF HereWaits
  <1> QED
    BY <1>6, <1>7, <1>8 DEF ForwardInv

(* Steps that neither make a REF nor bind a name nor begin or end a scope. *)
LEMMA ForwardQuiet ==
  ASSUME NEW T, NEW I, Plain(T, I), SomeInv(T, I), ForwardInv,
         \/ TransformName \/ TransformProcMake \/ TransformFormMake
         \/ TransformApply \/ ReturnFromForm \/ UpdateProcedure \/ ReturnFromProc
  PROVE  ForwardInv'
  <1>1. UNCHANGED <<pointers, bases>>
    BY DEF TransformName, TransformProcMake, TransformFormMake, TransformApply,
           ReturnFromForm, UpdateProcedure, ReturnFromProc
  <1>2. /\ calls # <<>> /\ calls' # <<>> /\ ~Halted /\ binders' = binders
        /\ Aside' = Aside /\ Scopes' = Scopes
        /\ Aside # {} => layers' = layers
        /\ \A k \in DOMAIN calls \cap DOMAIN calls' : calls'[k] = calls[k] /\ LayersOf(k)' = LayersOf(k)
    BY QuietFacts
  <1>3. CallsShaped /\ CallsShaped' /\ ScopeInv(T, I)
    BY <1>2, OnceStep DEF SomeInv, OnceInv, Next
  <1>4. PointersTyped'
    BY <1>1, <1>2 DEF ForwardInv, PointersTyped
  <1>5. bases' \subseteq DOMAIN pointers'
    BY <1>1 DEF ForwardInv, BasesWait
  <1> QED
    BY <1>1, <1>2, <1>3, <1>4, <1>5, ForwardSame

(* A REF to a name that is not bound yet waits for it. *)
LEMMA ForwardRefer ==
  ASSUME NEW T, NEW I, Plain(T, I), SomeInv(T, I), ForwardInv, TransformRefer
  PROVE  /\ ForwardInv'
         /\ \A p \in DOMAIN pointers : p \in DOMAIN pointers' /\ pointers'[p] = pointers[p]
         /\ \A p \in DOMAIN pointers' \ DOMAIN pointers :
              pointers'[p].home # 0 =>
                LET bound == binders[pointers'[p].home][pointers'[p].name]
                IN pointers'[p].base = IF bound = Unbound THEN Unbound ELSE BaseOf(bound)
  <1>0. PICK home, new, m : /\ home = HomeOf(layers, term.name) /\ new = Len(pointers) + 1
                            /\ m = Len(calls)
    OBVIOUS
  <1>1. /\ calls # <<>> /\ calls' # <<>> /\ ~Halted /\ binders' = binders
        /\ Aside' = Aside /\ Scopes' = Scopes
        /\ Aside # {} => layers' = layers
        /\ \A k \in DOMAIN calls \cap DOMAIN calls' : calls'[k] = calls[k] /\ LayersOf(k)' = LayersOf(k)
    BY QuietFacts
  <1>2. CallsShaped /\ CallsShaped' /\ ScopeInv(T, I)
    BY <1>1, OnceStep DEF SomeInv, OnceInv, Next
  <1>3. UNCHANGED <<layers, calls>>
    BY DEF TransformRefer
  <1>4. PICK this, base :
          /\ this = [name |-> term.name, home |-> home, base |-> base, here |-> home = Head(layers)]
          /\ pointers' = Append(pointers, this)
          /\ \/ home = 0 /\ base = Skip /\ bases' = bases
             \/ home # 0 /\ binders[home][term.name] = Unbound /\ base = Unbound /\ bases' = bases \cup {new}
             \/ /\ home # 0 /\ binders[home][term.name] # Unbound /\ bases' = bases
                /\ base = BaseOf(binders[home][term.name])
    BY <1>0 DEF TransformRefer
  <1>5. /\ DOMAIN this = {"name", "home", "base", "here"} /\ this.name = term.name
        /\ this.home = home /\ this.base = base /\ (this.here => home = Head(layers))
    BY <1>4
  <1>6. /\ IsList(pointers') /\ DOMAIN pointers' = DOMAIN pointers \cup {new}
        /\ new \notin DOMAIN pointers /\ pointers'[new] = this
        /\ \A p \in DOMAIN pointers : pointers'[p] = pointers[p]
    BY <1>0, <1>4, AppendList DEF ForwardInv, PointersTyped
  <1>7. /\ layers \in Seq(DOMAIN binders)
        /\ home # 0 => home \in DOMAIN binders /\ term.name \in DOMAIN binders[home]
    <2>1. layers \in Seq(DOMAIN binders)
      BY <1>2 DEF ScopeInv, ScopeTyped, BindersTyped
    <2> QED
      BY <1>0, <2>1, HomeFacts
  <1>8. PointersTyped'
    BY <1>1, <1>5, <1>6, <1>7 DEF ForwardInv, PointersTyped
  <1>9. \A b : BaseOf(b) # Unbound \/ b = Unbound
    BY DEF BaseOf, Unbound, Skip
  <1>10. bases \subseteq bases' /\ bases' \subseteq DOMAIN pointers'
    BY <1>4, <1>6 DEF ForwardInv, BasesWait
  <1>11. \A p \in DOMAIN pointers' \ DOMAIN pointers :
           pointers'[p].here /\ pointers'[p].base = Unbound => p \in bases'
    <2>1. base = Unbound => new \in bases'
      BY <1>4, <1>9 DEF Skip, Unbound
    <2> QED
      BY <1>5, <1>6, <2>1
  <1>12. ASSUME NEW p \in bases' \ bases
         PROVE  /\ Waits(p, Outer(Len(calls)))'
                /\ Aside # {} /\ pointers'[p].here => pointers'[p].home = Head(layers')
    <2>1. p = new /\ home # 0 /\ binders[home][term.name] = Unbound /\ base = Unbound
      BY <1>4
    <2>2. HomeOf(Outer(m), term.name) = home
      <3>1. m \in DOMAIN calls /\ 1 \in DOMAIN calls /\ DOMAIN calls = 1 .. m
        BY <1>0, <1>1, <1>2, CallerFacts
      <3>2. CASE Inside(m)
        BY <1>0, <3>2 DEF Outer, LayersOf
      <3>3. CASE ~Inside(m)
        <4>1. Scopes = {1}
          <5>1. Aside = {}
            BY <3>1, <3>3 DEF Aside, Inside
          <5> QED
            BY <1>2, <3>1, <5>1 DEF Aside, Scopes, CallsShaped
        <4>2. Pending(home, term.name)
          BY <1>2, <1>7, <2>1 DEF ScopeInv, UnboundPending
        <4>3. home = Head(LayersOf(1))
          BY <4>1, <4>2 DEF Pending
        <4>4. PICK ls : ls = LayersOf(1)
          OBVIOUS
        <4>5. ls \in Seq(DOMAIN binders) /\ ls # <<>> /\ home = ls[1]
          BY <1>2, <3>1, <4>3, <4>4, LayersGood, SeqIsList, TailList DEF ScopeInv, IsLayers
        <4>6. HomeOf(ls, term.name) = ls[1]
          <5> DEFINE found == { i \in DOMAIN ls : term.name \in DOMAIN binders[ls[i]] }
          <5>1. DOMAIN ls = 1 .. Len(ls) /\ Len(ls) \in Nat /\ 1 \in DOMAIN ls
            BY <4>5, SeqIsList, TailList
          <5>2. 1 \in found /\ \A j \in found : 1 <= j
            BY <1>7, <2>1, <4>5, <5>1
          <5>3. \A i \in found : (\A j \in found : i <= j) => i = 1
            BY <5>1, <5>2
          <5>4. (CHOOSE i \in found : \A j \in found : i <= j) = 1
            BY <5>2, <5>3
          <5>5. HomeOf(ls, term.name) = IF found = {} THEN 0
                                        ELSE ls[CHOOSE i \in found : \A j \in found : i <= j]
            BY DEF HomeOf
          <5> HIDE DEF found
          <5> QED
            BY <5>2, <5>4, <5>5
        <4> QED
          BY <3>3, <4>4, <4>5, <4>6 DEF Outer
      <3> QED
        BY <3>2, <3>3
    <2>3. PICK ls : ls = Outer(m)
      OBVIOUS
    <2>4. Outer(Len(calls))' = ls
      BY <1>0, <1>3, <2>3 DEF Outer, Inside, LayersOf, Aside
    <2>5. Waits(p, ls)'
      <3>1. PICK x : x = term.name
        OBVIOUS
      <3>2. HomeOf(ls, x)' = home
        BY <1>1, <2>2, <2>3, <3>1 DEF HomeOf
      <3>3. HomeOf(ls, pointers[p].name)' = home
        BY <1>5, <1>6, <2>1, <3>1, <3>2 DEF HomeOf
      <3> QED
        BY <1>1, <1>5, <1>6, <2>1, <3>3 DEF Waits
    <2> QED
      BY <1>1, <1>3, <1>5, <1>6, <2>1, <2>4, <2>5 DEF Waits
  <1>13. ForwardInv'
    BY <1>1, <1>2, <1>6, <1>8, <1>10, <1>11, <1>12, ForwardSame
  <1> QED
    BY <1>4, <1>5, <1>6, <1>13

(* A scope begins: a WITH puts BASES aside, a PROG has none. *)
LEMMA ForwardEnter ==
  ASSUME NEW T, NEW I, ScopeInv(T, I), CallsShaped, ForwardInv, NEW scope, NEW call,
         Enter(scope, call),
         IF calls = <<>> THEN call.hook = "prog"
         ELSE call.hook = "with" /\ call.layers = layers /\ call.bases = bases
  PROVE  ForwardInv'
  <1>0. PICK n, h : n = Len(calls) + 1 /\ h = Len(binders) + 1
    OBVIOUS
  <1>a. /\ ScopeTyped(T, I)
        /\ IF calls = <<>> THEN call.hook = "prog" ELSE call.hook = "with" /\ call.layers = layers
    BY DEF ScopeInv
  <1>1. /\ DOMAIN calls' = DOMAIN calls \cup {n} /\ n \notin DOMAIN calls /\ n \in Nat
        /\ DOMAIN calls = 1 .. n - 1 /\ calls' # <<>> /\ calls'[n] = call
        /\ \A k \in DOMAIN calls : calls'[k] = calls[k] /\ LayersOf(k)' = LayersOf(k)
        /\ calls # <<>> => LayersOf(n - 1) = layers /\ n - 1 \in DOMAIN calls
    BY <1>0, <1>a, EnterFacts, ZenonT(60)
  <1>2. /\ DOMAIN binders' = DOMAIN binders \cup {h} /\ h \notin DOMAIN binders
        /\ \A g \in DOMAIN binders : binders'[g] = binders[g]
    BY <1>0, <1>a, EnterFacts, ZenonT(60)
  <1>3. pointers' = pointers /\ bases' = {}
    BY DEF Enter
  <1>4. /\ Aside' = IF calls = <<>> THEN {} ELSE Aside \cup {n}
        /\ Scopes \subseteq Scopes' /\ Aside \subseteq DOMAIN calls /\ Scopes \subseteq DOMAIN calls
        /\ calls = <<>> => DOMAIN calls = {} /\ Aside = {} /\ Scopes = {}
    BY <1>1, EmptyList DEF Scopes, Aside
  <1>5. \A k \in DOMAIN calls' : Inside(k - 1)' <=> Inside(k - 1)
    BY <1>1, <1>4 DEF Inside
  <1>6. \A k \in Aside' : k - 1 \in DOMAIN calls /\ Outer(k - 1)' = Outer(k - 1)
    <2> TAKE k \in Aside'
    <2>1. k - 1 \in DOMAIN calls /\ k \in DOMAIN calls'
      <3>1. CASE k \in Aside
        <4>1. k \in DOMAIN calls /\ k # 1
          BY <3>1 DEF Aside, CallsShaped
        <4> QED
          BY <1>1, <4>1
      <3>2. CASE k = n /\ calls # <<>>
        BY <1>1, <3>2
      <3> QED
        BY <1>4, <3>1, <3>2
    <2>2. 1 \in DOMAIN calls
      BY <1>1, <2>1
    <2> QED
      BY <1>1, <1>5, <2>1, <2>2 DEF Outer
  <1>7. ASSUME NEW p, NEW ls \in Seq(DOMAIN binders), Waits(p, ls)
        PROVE  Waits(p, ls)'
    <2>1. pointers[p].home \in DOMAIN binders /\ binders[pointers[p].home][pointers[p].name] = Unbound
      BY <1>7, WaitsPending DEF Waits
    <2> QED
      BY <1>2, <1>3, <1>7, <2>1, WaitsStays
  <1>8. PointersTyped' /\ BasesWait'
    BY <1>1, <1>2, <1>3 DEF ForwardInv, PointersTyped, BasesWait
  <1>9. AsideWaits'
    <2> SUFFICES ASSUME NEW k \in Aside', NEW p \in calls'[k].bases
                 PROVE  /\ p \in DOMAIN pointers' /\ Waits(p, Outer(k - 1))'
                        /\ \E i \in Scopes' : i < k /\ pointers'[p].home = Head(LayersOf(i)')
      BY DEF AsideWaits
    <2>1. PICK ls : ls = Outer(k - 1)
      OBVIOUS
    <2>2. ls \in Seq(DOMAIN binders)
      BY <1>6, <2>1, OuterGood DEF ScopeInv
    <2>3. /\ p \in DOMAIN pointers /\ Waits(p, ls)
          /\ \E i \in Scopes : i < k /\ pointers[p].home = Head(LayersOf(i))
      <3>1. CASE k \in Aside
        BY <1>1, <1>4, <2>1, <3>1 DEF ForwardInv, AsideWaits
      <3>2. CASE k = n /\ calls # <<>>
        <4>1. p \in bases /\ n - 1 = Len(calls)
          BY <1>0, <1>1, <3>2
        <4>2. p \in DOMAIN pointers /\ Waits(p, ls)
          BY <2>1, <3>2, <4>1 DEF ForwardInv, BasesWait
        <4>3. \E i \in Scopes : pointers[p].home = Head(LayersOf(i))
          BY <2>2, <4>2, WaitsPending
        <4>4. \A i \in Scopes : i < n
          BY <1>1, <1>4
        <4> QED
          BY <3>2, <4>2, <4>3, <4>4
      <3> QED
        BY <1>4, <3>1, <3>2
    <2>4. Waits(p, ls)'
      BY <1>7, <2>2, <2>3
    <2>5. Waits(p, Outer(k - 1))'
      BY <1>6, <2>1, <2>4 DEF Waits
    <2> QED
      BY <1>1, <1>3, <1>4, <2>3, <2>5
  <1>10. HereWaits'
    <2>1. ASSUME NEW k \in Aside', Inside(k - 1), NEW p \in calls'[k].bases, pointers[p].here
          PROVE  pointers[p].home = Head(calls'[k].layers)
      <3>1. CASE k \in Aside
        BY <1>1, <1>4, <2>1, <3>1 DEF ForwardInv, HereWaits
      <3>2. CASE k = n /\ calls # <<>>
        <4>1. Aside # {}
          BY <2>1 DEF Inside
        <4> QED
          BY <1>1, <2>1, <3>2, <4>1 DEF ForwardInv, HereWaits
      <3> QED
        BY <1>4, <3>1, <3>2
    <2>2. \A k \in Aside' : k \in DOMAIN calls'
      BY <1>1, <1>4
    <2>3. ASSUME NEW p \in DOMAIN pointers, pointers[p].here, pointers[p].base = Unbound
          PROVE  \E k \in Aside' : p \in calls'[k].bases
      <3>1. p \in bases \/ \E k \in Aside : p \in calls[k].bases
        BY <2>3 DEF ForwardInv, HereWaits
      <3>2. calls # <<>>
        BY <1>4, <3>1 DEF ForwardInv, BasesWait
      <3> QED
        BY <1>1, <1>4, <3>1, <3>2
    <2> QED
      BY <1>3, <1>5, <2>1, <2>2, <2>3 DEF HereWaits
  <1> QED
    BY <1>8, <1>9, <1>10 DEF ForwardInv

(* What an equate binds, UPDATE POINTERS takes out of BASES, and no more. *)
LEMMA BoundBases ==
  ASSUME NEW T, NEW I, ScopeInv(T, I), CallsShaped, BasesWait, PointersTyped, Bind,
         NEW bound, bound = { p \in bases : binders'[pointers[p].home][pointers[p].name] # Unbound }
  PROVE  /\ bases' = bases \ bound
         /\ IsList(pointers') /\ DOMAIN pointers' = DOMAIN pointers
         /\ \A p \in DOMAIN pointers \ bound : pointers'[p] = pointers[p]
         /\ \A p \in bound :
              /\ DOMAIN pointers'[p] = DOMAIN pointers[p]
              /\ pointers'[p].name = pointers[p].name /\ pointers'[p].home = pointers[p].home
              /\ pointers'[p].here = pointers[p].here
              /\ pointers'[p].base = BaseOf(binders'[pointers[p].home][pointers[p].name])
              /\ pointers'[p].base # Unbound
  <1> DEFINE Now(p) == LET home == HomeOf(layers, pointers[p].name)
                       IN IF home = 0 THEN Unbound ELSE binders'[home][pointers[p].name]
  <1>0. PICK n : n = Len(calls)
    OBVIOUS
  <1>1. /\ Outer(n) = layers /\ calls # <<>>
    <2>1. /\ calls # <<>> /\ n \in DOMAIN calls /\ Top = calls[n] /\ Top.hook \in {"with", "prog"}
          /\ n \in Nat /\ (n = 1 <=> Top.hook = "prog")
      BY <1>0, Running1, CallerFacts DEF Bind
    <2>2. n = 1 \/ Inside(n)
      BY <2>1 DEF Inside, Aside
    <2> QED
      BY <1>0, <2>1, <2>2 DEF Outer, LayersOf
  <1>2. \A p \in bases : /\ p \in DOMAIN pointers
                         /\ Now(p) = binders'[pointers[p].home][pointers[p].name]
    <2> TAKE p \in bases
    <2>1. p \in DOMAIN pointers /\ Waits(p, layers)
      BY <1>0, <1>1 DEF BasesWait
    <2> QED
      BY <2>1 DEF Waits
  <1>3. /\ pointers' = [ p \in DOMAIN pointers |->
                           IF p \in { q \in bases : Now(q) # Unbound }
                           THEN [pointers[p] EXCEPT !.base = BaseOf(Now(p))] ELSE pointers[p] ]
        /\ bases' = bases \ { q \in bases : Now(q) # Unbound }
    BY DEF Bind, UpdatePointers
  <1> HIDE DEF Now
  <1>4. { q \in bases : Now(q) # Unbound } = bound
    BY <1>2
  <1>5. /\ DOMAIN pointers' = DOMAIN pointers /\ pointers' = [p \in DOMAIN pointers |-> pointers'[p]]
        /\ bases' = bases \ bound
        /\ \A p \in DOMAIN pointers \ bound : pointers'[p] = pointers[p]
        /\ \A p \in bound : pointers'[p] = [pointers[p] EXCEPT !.base = BaseOf(Now(p))]
    BY <1>2, <1>3, <1>4
  <1>6. IsList(pointers')
    BY <1>5, MapList DEF PointersTyped
  <1>7. \A p \in bound : DOMAIN pointers[p] = {"name", "home", "base", "here"}
    BY <1>2 DEF PointersTyped
  <1>8. \A p \in bound : Now(p) = binders'[pointers[p].home][pointers[p].name] /\ BaseOf(Now(p)) # Unbound
    BY <1>2 DEF BaseOf, Skip, Unbound
  <1>9. \A p \in bound :
          /\ DOMAIN pointers'[p] = DOMAIN pointers[p]
          /\ pointers'[p].name = pointers[p].name /\ pointers'[p].home = pointers[p].home
          /\ pointers'[p].here = pointers[p].here /\ pointers'[p].base = BaseOf(Now(p))
    <2> TAKE p \in bound
    <2>1. PICK this, base : this = pointers[p] /\ base = BaseOf(Now(p))
      OBVIOUS
    <2>2. DOMAIN this = {"name", "home", "base", "here"} /\ pointers'[p] = [this EXCEPT !.base = base]
      BY <1>5, <1>7, <2>1
    <2> QED
      BY ONLY <2>1, <2>2
  <1>10. \A p \in bound :
           /\ pointers'[p].base = BaseOf(binders'[pointers[p].home][pointers[p].name])
           /\ pointers'[p].base # Unbound
    BY <1>8, <1>9
  <1> QED
    BY <1>5, <1>6, <1>9, <1>10

(* A name is bound: the REFs that leave BASES are those that get it. *)
LEMMA ForwardBind ==
  ASSUME NEW T, NEW I, ScopeInv(T, I), CallsShaped, ForwardInv, Bind
  PROVE  ForwardInv'
  <1>0. PICK n, h, x : n = Len(calls) /\ h = Head(layers) /\ x = Head(Top.terms).name
    OBVIOUS
  <1> DEFINE bound == { p \in bases : binders'[pointers[p].home][pointers[p].name] # Unbound }
  <1>a. ScopeTyped(T, I)
    BY DEF ScopeInv
  <1>1. /\ n \in Scopes /\ n \in DOMAIN calls /\ LayersOf(n) = layers
        /\ DOMAIN calls' = DOMAIN calls /\ Len(calls') = n /\ calls # <<>> /\ calls' # <<>>
        /\ \A k \in DOMAIN calls :
             /\ LayersOf(k)' = LayersOf(k)
             /\ calls[k].hook # "prog" => calls'[k].layers = calls[k].layers
             /\ k \in Aside => calls'[k].bases = calls[k].bases
        /\ Aside' = Aside /\ Scopes' = Scopes
    BY <1>0, <1>a, BindFacts, ZenonT(60)
  <1>2. /\ DOMAIN binders' = DOMAIN binders
        /\ \A g \in DOMAIN binders :
             /\ DOMAIN binders'[g] = DOMAIN binders[g]
             /\ \A y \in DOMAIN binders[g] :
                  binders'[g][y] = IF g = h /\ y = x THEN value ELSE binders[g][y]
    BY <1>0, <1>a, BindFacts, SMTT(60)
  <1>3. /\ bases' = bases \ bound
        /\ IsList(pointers') /\ DOMAIN pointers' = DOMAIN pointers
        /\ \A p \in DOMAIN pointers \ bound : pointers'[p] = pointers[p]
        /\ \A p \in bound :
             /\ DOMAIN pointers'[p] = DOMAIN pointers[p]
             /\ pointers'[p].name = pointers[p].name /\ pointers'[p].home = pointers[p].home
             /\ pointers'[p].here = pointers[p].here
             /\ pointers'[p].base # Unbound
    BY BoundBases DEF ForwardInv
  <1>4. \A p \in bases \ bound : binders'[pointers[p].home][pointers[p].name] = Unbound
    OBVIOUS
  <1>5. bound \subseteq bases /\ bases \subseteq DOMAIN pointers
    BY DEF ForwardInv, BasesWait
  <1> HIDE DEF bound
  <1>6. DOMAIN calls = 1 .. n /\ n \in Nat /\ 1 \in DOMAIN calls /\ layers' = layers
    BY <1>0, <1>1, CallerFacts DEF Bind
  <1>7. \A k : Inside(k)' <=> Inside(k)
    BY <1>1 DEF Inside
  <1>8. \A k \in DOMAIN calls : Outer(k)' = Outer(k) /\ Outer(k) \in Seq(DOMAIN binders)
    BY <1>1, <1>6, <1>7, <1>a, OuterGood DEF Outer
  <1>9. \A p \in DOMAIN pointers : /\ pointers'[p].name = pointers[p].name
                                   /\ pointers'[p].home = pointers[p].home
                                   /\ pointers'[p].here = pointers[p].here
                                   /\ DOMAIN pointers'[p] = DOMAIN pointers[p]
    BY <1>3
  <1>10. ASSUME NEW k \in DOMAIN calls, NEW p \in DOMAIN pointers \ bound, Waits(p, Outer(k)),
                binders'[pointers[p].home][pointers[p].name] = Unbound
         PROVE  Waits(p, Outer(k))'
    <2>1. PICK ls : ls = Outer(k)
      OBVIOUS
    <2>2. Waits(p, ls)'
      BY <1>2, <1>3, <1>8, <1>10, <2>1, WaitsStays
    <2> QED
      BY <1>8, <2>1, <2>2 DEF Waits
  <1>11. PointersTyped'
    BY <1>2, <1>3, <1>9 DEF ForwardInv, PointersTyped
  <1>12. BasesWait'
    <2>1. \A p \in bases : Waits(p, Outer(n))
      BY <1>0, <1>1 DEF ForwardInv, BasesWait
    <2>2. \A p \in bases' : Waits(p, Outer(n))'
      BY <1>1, <1>3, <1>4, <1>5, <1>10, <2>1
    <2>3. \A p \in bases' : Waits(p, Outer(Len(calls)))'
      BY <1>1, <2>2
    <2> QED
      BY <1>1, <1>3, <1>5, <2>3 DEF BasesWait
  <1>13. ASSUME NEW k \in Aside, NEW p \in calls[k].bases
         PROVE  /\ p \in DOMAIN pointers /\ Waits(p, Outer(k - 1)) /\ k - 1 \in DOMAIN calls
                /\ \E i \in Scopes : i < k /\ pointers[p].home = Head(LayersOf(i))
                /\ p \notin bound /\ binders'[pointers[p].home][pointers[p].name] = Unbound
    <2>1. /\ p \in DOMAIN pointers /\ Waits(p, Outer(k - 1))
          /\ \E i \in Scopes : i < k /\ pointers[p].home = Head(LayersOf(i))
      BY DEF ForwardInv, AsideWaits
    <2>2. k \in DOMAIN calls /\ k # 1
      BY DEF Aside, CallsShaped
    <2>3. k - 1 \in DOMAIN calls
      BY <1>6, <2>2
    <2>4. pointers[p].home # h
      <3>1. PICK i \in Scopes : i < k /\ pointers[p].home = Head(LayersOf(i))
        BY <2>1
      <3>2. i # n
        BY <1>6, <2>2, <3>1
      <3> QED
        BY <1>0, <1>1, <3>1, <3>2 DEF ScopeInv, ScopesNested
    <2>5. /\ pointers[p].home \in DOMAIN binders
          /\ pointers[p].name \in DOMAIN binders[pointers[p].home]
          /\ binders[pointers[p].home][pointers[p].name] = Unbound
      BY <1>8, <2>1, <2>3, WaitsPending DEF Waits
    <2>6. binders'[pointers[p].home][pointers[p].name] = Unbound
      BY <1>2, <2>4, <2>5
    <2> QED
      BY <2>1, <2>3, <2>6 DEF bound
  <1>14. AsideWaits'
    <2> SUFFICES ASSUME NEW k \in Aside, NEW p \in calls[k].bases
                 PROVE  /\ p \in DOMAIN pointers' /\ Waits(p, Outer(k - 1))'
                        /\ \E i \in Scopes : i < k /\ pointers'[p].home = Head(LayersOf(i)')
      BY <1>1 DEF AsideWaits, Aside
    <2>1. Waits(p, Outer(k - 1))'
      BY <1>10, <1>13
    <2>2. \A i \in Scopes : LayersOf(i)' = LayersOf(i)
      BY <1>1 DEF Scopes
    <2> QED
      BY <1>3, <1>9, <1>13, <2>1, <2>2
  <1>15. HereWaits'
    <2>1. Aside # {} => \A p \in bases' : pointers'[p].here => pointers'[p].home = Head(layers')
      BY <1>3, <1>5, <1>6, <1>9 DEF ForwardInv, HereWaits
    <2>2. \A k \in Aside : /\ calls'[k].bases = calls[k].bases /\ calls'[k].layers = calls[k].layers
      BY <1>1 DEF Aside
    <2>3. \A k \in Aside : Inside(k - 1) => \A p \in calls[k].bases :
            pointers'[p].here => pointers'[p].home = Head(calls[k].layers)
      BY <1>9, <1>13 DEF ForwardInv, HereWaits
    <2>4. \A p \in DOMAIN pointers' : pointers'[p].here /\ pointers'[p].base = Unbound =>
            p \in bases' \/ \E k \in Aside : p \in calls[k].bases
      BY <1>3, <1>9 DEF ForwardInv, HereWaits
    <2> QED
      BY <1>1, <1>7, <2>1, <2>2, <2>3, <2>4 DEF HereWaits
  <1> QED
    BY <1>11, <1>12, <1>14, <1>15 DEF ForwardInv

(* When a scope is left, all REFs to its names have their bases. *)
LEMMA ScopeSettled ==
  ASSUME NEW T, NEW I, ScopeInv(T, I), CallsShaped, ForwardInv, AllBound
  PROVE  /\ calls # <<>>
         /\ \A p \in bases : pointers[p].home # Head(layers)
         /\ Top.hook = "prog" => bases = {}
  <1>0. PICK n : n = Len(calls)
    OBVIOUS
  <1>1. /\ calls # <<>> /\ n \in DOMAIN calls /\ Top = calls[n] /\ DOMAIN calls = 1 .. n
        /\ (n = 1 <=> Top.hook = "prog") /\ Top.hook \in {"with", "prog"} /\ Top.terms = <<>>
    BY <1>0, CallerFacts DEF AllBound, Returning
  <1>2. n \in Scopes /\ LayersOf(n) = layers
    BY <1>0, <1>1 DEF Scopes, LayersOf
  <1>3. Outer(n) \in Seq(DOMAIN binders)
    BY <1>1, OuterGood DEF ScopeInv
  <1>4. ASSUME NEW p \in bases
        PROVE  \E i \in Scopes : pointers[p].home = Head(LayersOf(i)) /\ i # n
    <2>1. Waits(p, Outer(n))
      BY <1>0, <1>1 DEF ForwardInv, BasesWait
    <2>2. \E i \in Scopes : pointers[p].home = Head(LayersOf(i)) /\ calls[i].terms # <<>>
      BY <1>3, <2>1, WaitsPending
    <2> QED
      BY <1>1, <2>2
  <1>5. \A p \in bases : pointers[p].home # Head(layers)
    BY <1>2, <1>4 DEF ScopeInv, ScopesNested
  <1>6. Top.hook = "prog" => bases = {}
    BY <1>1, <1>4 DEF Scopes
  <1> QED
    BY <1>1, <1>5, <1>6

(* A WITH ends, and BASES is again what it put aside. *)
LEMMA ForwardLeaveWith ==
  ASSUME NEW T, NEW I, ScopeInv(T, I), CallsShaped, ForwardInv, LeaveWith
  PROVE  ForwardInv'
  <1>0. PICK n : n = Len(calls)
    OBVIOUS
  <1>1. calls # <<>> /\ AllBound /\ \A p \in bases : pointers[p].home # Head(layers)
    BY ScopeSettled DEF LeaveWith
  <1>2. /\ calls' = Caller /\ Top.hook = "with" /\ layers' = Top.layers /\ bases' = Top.bases
        /\ UNCHANGED <<binders, pointers>>
    BY DEF LeaveWith
  <1>3. /\ DOMAIN calls' = DOMAIN calls \ {n} /\ n \in DOMAIN calls /\ Len(calls') = n - 1
        /\ n - 1 \in DOMAIN calls' /\ DOMAIN calls = 1 .. n /\ n \in Nat /\ calls' # <<>>
        /\ Top = calls[n] /\ LayersOf(n) = layers /\ LayersOf(n - 1) = layers'
        /\ \A k \in DOMAIN calls' : calls'[k] = calls[k] /\ LayersOf(k)' = LayersOf(k)
    BY <1>0, <1>1, <1>2, PopCall
  <1>4. /\ Aside' = Aside \ {n} /\ Scopes' = Scopes \ {n} /\ n \in Aside
        /\ \A k \in 1 .. n - 1 : Inside(k)' <=> Inside(k)
        /\ \A k \in DOMAIN calls' : Inside(k - 1)' <=> Inside(k - 1)
    BY <1>2, <1>3 DEF Aside, Scopes, Inside
  <1>5. \A k \in DOMAIN calls' : Outer(k)' = Outer(k)
    <2>1. 1 \in DOMAIN calls' /\ DOMAIN calls' = 1 .. n - 1
      BY <1>3
    <2> QED
      BY <1>3, <1>4, <2>1 DEF Outer
  <1>6. \A p, ls : Waits(p, ls)' <=> Waits(p, ls)
    BY <1>2 DEF Waits, HomeOf
  <1>7. \A k \in DOMAIN calls' : \A p : Waits(p, Outer(k)) => Waits(p, Outer(k))'
    <2> TAKE k \in DOMAIN calls'
    <2> TAKE p
    <2>1. PICK ls : ls = Outer(k)
      OBVIOUS
    <2> QED
      BY <1>5, <1>6, <2>1 DEF Waits
  <1>8. \A p \in bases' : p \in DOMAIN pointers /\ Waits(p, Outer(n - 1))
    BY <1>2, <1>3, <1>4 DEF ForwardInv, AsideWaits
  <1>9. PointersTyped'
    BY <1>2 DEF ForwardInv, PointersTyped
  <1>10. BasesWait'
    <2>1. \A p \in bases' : Waits(p, Outer(n - 1))'
      BY <1>3, <1>7, <1>8
    <2>2. \A p \in bases' : Waits(p, Outer(Len(calls)))'
      BY <1>3, <2>1
    <2> QED
      BY <1>2, <1>3, <1>8, <2>2 DEF BasesWait
  <1>11. AsideWaits'
    <2> SUFFICES ASSUME NEW k \in Aside', NEW p \in calls'[k].bases
                 PROVE  /\ p \in DOMAIN pointers' /\ Waits(p, Outer(k - 1))'
                        /\ \E i \in Scopes' : i < k /\ pointers'[p].home = Head(LayersOf(i)')
      BY DEF AsideWaits
    <2>1. k \in Aside /\ k \in DOMAIN calls' /\ k # 1 /\ k # n /\ calls'[k] = calls[k]
      BY <1>3, <1>4 DEF Aside, CallsShaped
    <2>2. /\ p \in DOMAIN pointers /\ Waits(p, Outer(k - 1))
          /\ \E i \in Scopes : i < k /\ pointers[p].home = Head(LayersOf(i))
      BY <2>1 DEF ForwardInv, AsideWaits
    <2>3. k - 1 \in DOMAIN calls'
      BY <1>3, <2>1
    <2>4. \A i \in Scopes : i < k => i \in Scopes' /\ LayersOf(i)' = LayersOf(i)
      BY <1>3, <1>4, <2>1 DEF Scopes
    <2> QED
      BY <1>2, <1>7, <2>2, <2>3, <2>4
  <1>12. HereWaits'
    <2>1. Aside' # {} => Inside(n - 1)
      BY <1>3, <1>4 DEF Inside, Aside
    <2>2. Aside' # {} => \A p \in bases' : pointers'[p].here => pointers'[p].home = Head(layers')
      BY <1>2, <1>3, <1>4, <2>1 DEF ForwardInv, HereWaits
    <2>3. \A k \in Aside' : /\ k \in Aside /\ k \in DOMAIN calls' /\ calls'[k] = calls[k]
      BY <1>3, <1>4 DEF Aside
    <2>4. \A k \in Aside' : Inside(k - 1) => \A p \in calls'[k].bases :
            pointers'[p].here => pointers'[p].home = Head(calls'[k].layers)
      BY <1>2, <2>3 DEF ForwardInv, HereWaits
    <2>5. ASSUME NEW p \in DOMAIN pointers, pointers[p].here, pointers[p].base = Unbound
          PROVE  p \in bases' \/ \E k \in Aside' : p \in calls'[k].bases
      <3>1. p \in bases \/ \E k \in Aside : p \in calls[k].bases
        BY <2>5 DEF ForwardInv, HereWaits
      <3>2. p \notin bases
        BY <1>1, <1>4, <2>5 DEF ForwardInv, HereWaits
      <3> QED
        BY <1>2, <1>3, <1>4, <3>1, <3>2 DEF Aside
    <2> QED
      BY <1>2, <1>4, <2>2, <2>3, <2>4, <2>5 DEF HereWaits
  <1> QED
    BY <1>9, <1>10, <1>11, <1>12 DEF ForwardInv

(* A PROG ends, and with it its layer. *)
LEMMA ForwardLeaveProg ==
  ASSUME NEW T, NEW I, ScopeInv(T, I), CallsShaped, ForwardInv, LeaveProg
  PROVE  ForwardInv'
  <1>1. calls # <<>> /\ AllBound /\ bases = {} /\ Top.hook = "prog"
    BY ScopeSettled DEF LeaveProg
  <1>2. calls' = Caller /\ UNCHANGED <<binders, pointers, bases>>
    BY DEF LeaveProg
  <1>3. DOMAIN calls' = {} /\ calls' = <<>> /\ DOMAIN calls = {1} /\ calls[1] = Top
    BY <1>1, <1>2, CallerFacts, EmptyList
  <1>4. Aside' = {} /\ Aside = {}
    BY <1>1, <1>3 DEF Aside
  <1> QED
    BY <1>1, <1>2, <1>3, <1>4 DEF ForwardInv, PointersTyped, BasesWait, AsideWaits, HereWaits

ForwardSome == ~Halted => ForwardInv

(* There are no REFs at the start. *)
LEMMA ForwardInitially ==
  ASSUME Init
  PROVE  ForwardSome
  <1>1. pointers = <<>> /\ bases = {} /\ calls = <<>>
    BY DEF Init
  <1>2. Aside = {} /\ DOMAIN pointers = {} /\ IsList(pointers)
    BY <1>1, EmptyList DEF Aside
  <1> QED
    BY <1>1, <1>2 DEF ForwardSome, ForwardInv, PointersTyped, BasesWait, AsideWaits, HereWaits

(* After HALT there is nothing left to do. *)
LEMMA NextRuns ==
  ASSUME CallsShaped, Next, ~Halt
  PROVE  ~Halted
  <1>1. term # NoTerm \/ Returning \/ progs # <<>>
    <2>1. CASE \/ TransformName \/ TransformRefer \/ TransformProcMake \/ TransformFormMake
               \/ TransformApply \/ TransformWith
      BY <2>1 DEF TransformName, TransformRefer, TransformProcMake, TransformFormMake,
         TransformApply, TransformWith, Transforming, NoTerm
    <2>2. CASE ReturnFromForm \/ ReturnFromProc \/ Bind
      BY <2>2 DEF ReturnFromForm, ReturnFromProc, Bind
    <2>3. CASE UpdateProcedure \/ LeaveWith \/ LeaveProg
      BY <2>3 DEF UpdateProcedure, LeaveWith, LeaveProg, AllBound
    <2>4. CASE TransformProg
      BY <2>4 DEF TransformProg
    <2> QED
      BY <2>1, <2>2, <2>3, <2>4 DEF Next
  <1> QED
    BY <1>1 DEF CallsShaped, Returning

(* Every step keeps the REFs without a base in the BASES of their scope. *)
LEMMA ForwardStep ==
  ASSUME NEW T, NEW I, Plain(T, I), SomeInv(T, I), ForwardSome, [Next]_vars
  PROVE  ForwardSome'
  <1>1. CASE Halt
    <2>1. Halted'
      BY <1>1 DEF Halt, NestedTooDeeply, OutOfMemory, Stop, Halted
    <2> QED
      BY <2>1 DEF ForwardSome
  <1>2. CASE UNCHANGED vars
    <2>1. UNCHANGED <<layers, binders, bases, pointers, calls, errs>>
      BY <1>2 DEF vars
    <2>2. /\ Aside' = Aside /\ Scopes' = Scopes /\ \A k : Inside(k)' <=> Inside(k)
          /\ \A k : LayersOf(k)' = LayersOf(k)
          /\ \A p, ls : Waits(p, ls)' <=> Waits(p, ls)
      BY <2>1 DEF Aside, Scopes, Inside, LayersOf, Waits, HomeOf
    <2>3. \A p, k : Waits(p, Outer(k))' <=> Waits(p, Outer(k))
      <3> TAKE p, k
      <3>1. PICK ls : ls = Outer(k)
        OBVIOUS
      <3>2. Outer(k)' = ls
        BY <2>2, <3>1 DEF Outer
      <3>3. Waits(p, ls)' <=> Waits(p, ls)
        BY <2>2
      <3> QED
        BY <3>1, <3>2, <3>3 DEF Waits
    <2>4. BasesWait' <=> BasesWait
      <3>1. PICK m : m = Len(calls)
        OBVIOUS
      <3>2. \A p : Waits(p, Outer(Len(calls)))' <=> Waits(p, Outer(Len(calls)))
        BY <2>1, <2>3, <3>1
      <3> QED
        BY <2>1, <3>2 DEF BasesWait
    <2>5. AsideWaits' <=> AsideWaits
      BY <2>1, <2>2, <2>3 DEF AsideWaits
    <2>6. PointersTyped' <=> PointersTyped
      BY <2>1 DEF PointersTyped
    <2>7. HereWaits' <=> HereWaits
      BY <2>1, <2>2 DEF HereWaits
    <2> QED
      BY <2>1, <2>4, <2>5, <2>6, <2>7 DEF ForwardSome, ForwardInv, Halted
  <1>3. CASE Next /\ ~Halt
    <2>1. ~Halted
      BY <1>3, NextRuns DEF SomeInv, OnceInv
    <2>2. ScopeInv(T, I) /\ CallsShaped /\ ForwardInv
      BY <2>1 DEF SomeInv, OnceInv, ForwardSome
    <2>3. CASE TransformWith
      <3> DEFINE call == [hook |-> "with", terms |-> term.equates, body |-> term.body,
                          layers |-> layers, bases |-> bases, queue |-> queue]
      <3>1. /\ call.hook = "with" /\ call.layers = layers /\ call.bases = bases
            /\ Enter(term, call) /\ calls # <<>>
        <4>1. calls # <<>>
          BY <2>2, <2>3, Running1 DEF TransformWith, Transforming, NoTerm
        <4> QED
          BY <2>3, <4>1 DEF TransformWith
      <3> HIDE DEF call
      <3>2. ForwardInv'
        BY <2>2, <3>1, ForwardEnter
      <3> QED
        BY <3>2 DEF ForwardSome
    <2>4. CASE TransformProg
      <3> DEFINE call == [hook |-> "prog", terms |-> Head(progs).equates]
      <3>1. call.hook = "prog" /\ Enter(Head(progs), call) /\ calls = <<>>
        BY <2>4 DEF TransformProg
      <3> HIDE DEF call
      <3>2. ForwardInv'
        BY <2>2, <3>1, ForwardEnter
      <3> QED
        BY <3>2 DEF ForwardSome
    <2>5. CASE Bind \/ LeaveWith \/ LeaveProg
      BY <2>2, <2>5, ForwardBind, ForwardLeaveWith, ForwardLeaveProg DEF ForwardSome
    <2>6. CASE TransformRefer
      BY <2>2, <2>6, ForwardRefer DEF ForwardSome
    <2>7. CASE \/ TransformName \/ TransformProcMake \/ TransformFormMake
               \/ TransformApply \/ ReturnFromForm \/ UpdateProcedure \/ ReturnFromProc
      BY <2>2, <2>7, ForwardQuiet DEF ForwardSome
    <2> QED
      BY <1>3, <2>3, <2>4, <2>5, <2>6, <2>7 DEF Next
  <1> QED
    BY <1>1, <1>2, <1>3

(* REFs wait for their names in all states. *)
LEMMA ForwardAlways ==
  ASSUME NEW T, NEW I, Plain(T, I)
  PROVE  Spec => [](SomeInv(T, I) /\ ForwardSome)
  <1>1. Init => SomeInv(T, I) /\ ForwardSome
    BY ScopeInitially, ForwardInitially
  <1>2. SomeInv(T, I) /\ ForwardSome /\ [Next]_vars => (SomeInv(T, I) /\ ForwardSome)'
    BY ScopeStep, ForwardStep
  <1> QED
    BY <1>1, <1>2, PTL DEF Spec

(* A REF to a name of the scope that it is made in always gets its base:   *)
(* its scope has it in BASES when the name is bound, whatever scopes and   *)
(* bodies begin and end in between.                                        *)
THEOREM HereForwarded ==
  ASSUME NEW T, NEW I, Plain(T, I)
  PROVE  Spec => []ForwardedHere
  <1>1. ForwardSome => ForwardedHere
    <2> SUFFICES ASSUME ForwardSome, calls = <<>>, ~Halted,
                        NEW p \in DOMAIN pointers, pointers[p].here, pointers[p].base = Unbound
                 PROVE  FALSE
      BY DEF ForwardedHere, Done, Halted
    <2>1. bases = {} /\ Aside = {}
      BY EmptyList DEF ForwardSome, ForwardInv, BasesWait, Aside
    <2> QED
      BY <2>1 DEF ForwardSome, ForwardInv, HereWaits
  <1>2. Spec => [](SomeInv(T, I) /\ ForwardSome)
    BY ForwardAlways
  <1> QED
    BY <1>1, <1>2, PTL

-----------------------------------------------------------------------------
(***************************************************************************)
(* The value that a REF gets                                               *)
(***************************************************************************)

(* The names that a scope has still to bind are different and not bound. *)
PendingUnbound ==
  \A i \in Scopes :
    /\ Distinct(calls[i].terms)
    /\ \A j \in DOMAIN calls[i].terms :
         /\ calls[i].terms[j].name \in DOMAIN binders[Head(LayersOf(i))]
         /\ binders[Head(LayersOf(i))][calls[i].terms[j].name] = Unbound

ProgsDistinct == \A i \in DOMAIN progs : Distinct(progs[i].equates)

HygieneInv == Hygienic /\ (~Halted => PendingUnbound /\ ProgsDistinct)

(* Steps that bind no name and begin no scope. *)
LEMMA HygieneQuiet ==
  ASSUME NEW T, NEW I, Plain(T, I), SomeInv(T, I), ForwardInv, HygieneInv,
         \/ TransformName \/ TransformRefer \/ TransformProcMake \/ TransformFormMake
         \/ TransformApply \/ ReturnFromForm \/ UpdateProcedure \/ ReturnFromProc
  PROVE  HygieneInv'
  <1>1. /\ ~Halted /\ binders' = binders /\ progs' = progs /\ Scopes' = Scopes
        /\ \A k \in DOMAIN calls \cap DOMAIN calls' : calls'[k] = calls[k] /\ LayersOf(k)' = LayersOf(k)
    BY QuietFacts
  <1>2. PendingUnbound'
    <2>1. \A i \in Scopes : calls'[i] = calls[i] /\ LayersOf(i)' = LayersOf(i)
      BY <1>1 DEF Scopes
    <2> QED
      BY <1>1, <2>1 DEF HygieneInv, PendingUnbound
  <1>3. ProgsDistinct'
    BY <1>1 DEF HygieneInv, ProgsDistinct
  <1>4. Hygienic'
    <2>1. CASE TransformRefer
      <3>1. /\ \A p \in DOMAIN pointers : p \in DOMAIN pointers' /\ pointers'[p] = pointers[p]
            /\ \A p \in DOMAIN pointers' \ DOMAIN pointers :
                 pointers'[p].home # 0 =>
                   LET bound == binders[pointers'[p].home][pointers'[p].name]
                   IN pointers'[p].base = IF bound = Unbound THEN Unbound ELSE BaseOf(bound)
        BY <2>1, ForwardRefer
      <3> QED
        BY <1>1, <3>1 DEF HygieneInv, Hygienic
    <2>2. CASE ~TransformRefer
      <3>1. pointers' = pointers
        BY <2>2 DEF TransformName, TransformProcMake, TransformFormMake, TransformApply,
                    ReturnFromForm, UpdateProcedure, ReturnFromProc
      <3> QED
        BY <1>1, <3>1 DEF HygieneInv, Hygienic
    <2> QED
      BY <2>1, <2>2
  <1> QED
    BY <1>2, <1>3, <1>4 DEF HygieneInv

(* The names of a scope that begins are different, and not bound. *)
LEMMA HygieneEnter ==
  ASSUME NEW T, NEW I, ScopeInv(T, I), CallsShaped, PointersTyped, Hygienic, PendingUnbound,
         NEW scope, NEW call, Enter(scope, call),
         IF calls = <<>> THEN call.hook = "prog" ELSE call.hook = "with" /\ call.layers = layers,
         call.terms = scope.equates, Distinct(scope.equates)
  PROVE  Hygienic' /\ PendingUnbound'
  <1>0. PICK n, h : n = Len(calls) + 1 /\ h = Len(binders) + 1
    OBVIOUS
  <1>a. ScopeTyped(T, I)
    BY DEF ScopeInv
  <1>1. /\ DOMAIN calls' = DOMAIN calls \cup {n} /\ calls'[n] = call /\ LayersOf(n)' = layers'
        /\ \A k \in DOMAIN calls : calls'[k] = calls[k] /\ LayersOf(k)' = LayersOf(k)
    BY <1>0, <1>a, EnterFacts, ZenonT(60)
  <1>2. /\ binders'[h] = Declared(scope.equates)
        /\ \A g \in DOMAIN binders : binders'[g] = binders[g]
        /\ Head(layers') = h
    BY <1>0, <1>a, EnterFacts, ZenonT(60)
  <1>3. pointers' = pointers
    BY DEF Enter
  <1>4. Hygienic'
    BY <1>2, <1>3 DEF Hygienic, PointersTyped
  <1>5. PendingUnbound'
    <2> SUFFICES ASSUME NEW i \in Scopes'
                 PROVE  /\ Distinct(calls'[i].terms)
                        /\ \A j \in DOMAIN calls'[i].terms :
                             /\ calls'[i].terms[j].name \in DOMAIN binders'[Head(LayersOf(i)')]
                             /\ binders'[Head(LayersOf(i)')][calls'[i].terms[j].name] = Unbound
      BY DEF PendingUnbound
    <2>1. CASE i = n
      <3>1. calls'[i].terms = scope.equates /\ Head(LayersOf(i)') = h
        BY <1>1, <1>2, <2>1
      <3> QED
        BY <1>2, <3>1 DEF Declared
    <2>2. CASE i \in Scopes
      <3>1. i \in DOMAIN calls
        BY <2>2 DEF Scopes
      <3>2. calls'[i] = calls[i] /\ LayersOf(i)' = LayersOf(i) /\ Head(LayersOf(i)) \in DOMAIN binders
        BY <1>1, <1>a, <3>1, LayersGood
      <3> QED
        BY <1>2, <2>2, <3>2 DEF PendingUnbound
    <2> QED
      BY <1>1, <2>1, <2>2 DEF Scopes
  <1> QED
    BY <1>4, <1>5

(* A name is bound for the first time; REFs that get its value were made for it. *)
LEMMA HygieneBind ==
  ASSUME NEW T, NEW I, ScopeInv(T, I), CallsShaped, ForwardInv, Hygienic, PendingUnbound, Bind
  PROVE  Hygienic' /\ PendingUnbound'
  <1>0. PICK n, h, x : n = Len(calls) /\ h = Head(layers) /\ x = Head(Top.terms).name
    OBVIOUS
  <1>a. ScopeTyped(T, I)
    BY DEF ScopeInv
  <1>1. /\ n \in Scopes /\ LayersOf(n) = layers
        /\ calls[n].terms # <<>> /\ calls[n].terms[1].name = x
        /\ calls'[n].terms = Tail(calls[n].terms)
        /\ \A k \in DOMAIN calls : k # n => calls'[k] = calls[k]
        /\ \A k \in DOMAIN calls : LayersOf(k)' = LayersOf(k)
        /\ Scopes' = Scopes
    BY <1>0, <1>a, BindFacts, ZenonT(60)
  <1>2. /\ DOMAIN binders' = DOMAIN binders
        /\ \A g \in DOMAIN binders :
             /\ DOMAIN binders'[g] = DOMAIN binders[g]
             /\ \A y \in DOMAIN binders[g] :
                  binders'[g][y] = IF g = h /\ y = x THEN value ELSE binders[g][y]
    BY <1>0, <1>a, BindFacts, SMTT(60)
  <1>3. PICK bound : bound = { p \in bases : binders'[pointers[p].home][pointers[p].name] # Unbound }
    OBVIOUS
  <1>4. /\ DOMAIN pointers' = DOMAIN pointers
        /\ \A p \in DOMAIN pointers \ bound : pointers'[p] = pointers[p]
        /\ \A p \in bound :
             /\ pointers'[p].name = pointers[p].name /\ pointers'[p].home = pointers[p].home
             /\ pointers'[p].base = BaseOf(binders'[pointers[p].home][pointers[p].name])
    BY <1>3, BoundBases DEF ForwardInv
  <1>5. calls[n].terms \in EquatesOf(T)
    BY <1>1, <1>a DEF ScopeTyped, CallsTyped
  <1>6. /\ 1 \in DOMAIN calls[n].terms /\ DOMAIN calls[n].terms = 1 .. Len(calls[n].terms)
        /\ Len(calls[n].terms) \in Nat
        /\ DOMAIN Tail(calls[n].terms) = 1 .. Len(calls[n].terms) - 1
        /\ \A j \in DOMAIN Tail(calls[n].terms) :
             j + 1 \in DOMAIN calls[n].terms /\ Tail(calls[n].terms)[j] = calls[n].terms[j + 1]
    BY <1>1, <1>5, NextEquate
  <1>7. x \in DOMAIN binders[h] /\ binders[h][x] = Unbound
    BY <1>0, <1>1, <1>6 DEF PendingUnbound
  <1>8. Hygienic'
    <2> SUFFICES ASSUME NEW p \in DOMAIN pointers, pointers'[p].home # 0, pointers'[p].base # Unbound
                 PROVE  /\ binders'[pointers'[p].home][pointers'[p].name] # Unbound
                        /\ pointers'[p].base = BaseOf(binders'[pointers'[p].home][pointers'[p].name])
      BY <1>4 DEF Hygienic
    <2>1. CASE p \in bound
      BY <1>3, <1>4, <2>1
    <2>2. CASE p \notin bound
      <3>1. pointers'[p] = pointers[p]
        BY <1>4, <2>2
      <3>2. /\ binders[pointers[p].home][pointers[p].name] # Unbound
            /\ pointers[p].base = BaseOf(binders[pointers[p].home][pointers[p].name])
        BY <3>1 DEF Hygienic
      <3>3. /\ pointers[p].home \in DOMAIN binders
            /\ pointers[p].name \in DOMAIN binders[pointers[p].home]
        BY <3>1 DEF ForwardInv, PointersTyped
      <3>4. binders'[pointers[p].home][pointers[p].name] = binders[pointers[p].home][pointers[p].name]
        BY <1>2, <1>7, <3>2, <3>3
      <3> QED
        BY <3>1, <3>2, <3>4
    <2> QED
      BY <2>1, <2>2
  <1>9. PendingUnbound'
    <2> SUFFICES ASSUME NEW i \in Scopes
                 PROVE  /\ Distinct(calls'[i].terms)
                        /\ \A j \in DOMAIN calls'[i].terms :
                             /\ calls'[i].terms[j].name \in DOMAIN binders'[Head(LayersOf(i)')]
                             /\ binders'[Head(LayersOf(i)')][calls'[i].terms[j].name] = Unbound
      BY <1>1 DEF PendingUnbound
    <2>1. i \in DOMAIN calls /\ LayersOf(i)' = LayersOf(i)
      BY <1>1 DEF Scopes
    <2>2. Head(LayersOf(i)) \in DOMAIN binders
      BY <1>a, <2>1, LayersGood
    <2>3. /\ Distinct(calls[i].terms)
          /\ \A j \in DOMAIN calls[i].terms :
               /\ calls[i].terms[j].name \in DOMAIN binders[Head(LayersOf(i))]
               /\ binders[Head(LayersOf(i))][calls[i].terms[j].name] = Unbound
      BY DEF PendingUnbound
    <2>4. CASE i # n
      <3>1. calls'[i] = calls[i] /\ Head(LayersOf(i)) # h
        BY <1>0, <1>1, <2>1, <2>4 DEF ScopeInv, ScopesNested
      <3> QED
        BY <1>2, <2>1, <2>2, <2>3, <3>1
    <2>5. CASE i = n
      <3>1. \A j \in DOMAIN Tail(calls[n].terms) : Tail(calls[n].terms)[j].name # x
        <4> TAKE j \in DOMAIN Tail(calls[n].terms)
        <4>1. j + 1 # 1 /\ j + 1 \in DOMAIN calls[n].terms
          BY <1>6
        <4> QED
          BY <1>1, <1>6, <2>3, <2>5, <4>1 DEF Distinct
      <3>2. Distinct(Tail(calls[n].terms))
        BY <1>6, <2>3, <2>5 DEF Distinct
      <3>3. Head(LayersOf(n)) = h /\ calls'[n].terms = Tail(calls[n].terms)
        BY <1>0, <1>1
      <3> QED
        BY <1>2, <1>6, <2>1, <2>2, <2>3, <2>5, <3>1, <3>2, <3>3
    <2> QED
      BY <2>4, <2>5
  <1> QED
    BY <1>8, <1>9

(* Every step binds a name at most once, for the REFs that were made for it. *)
LEMMA HygieneStep ==
  ASSUME NEW T, NEW I, Plain(T, I), NamesDistinct(T), SomeInv(T, I), ForwardSome, HygieneInv,
         [Next]_vars
  PROVE  HygieneInv'
  <1>1. CASE Halt
    <2>1. Halted' /\ UNCHANGED <<pointers, binders>>
      BY <1>1 DEF Halt, NestedTooDeeply, OutOfMemory, Stop, Halted
    <2> QED
      BY <2>1 DEF HygieneInv, Hygienic
  <1>2. CASE UNCHANGED vars
    <2>1. UNCHANGED <<progs, layers, binders, pointers, calls, errs>>
      BY <1>2 DEF vars
    <2>2. Scopes' = Scopes /\ \A k : LayersOf(k)' = LayersOf(k)
      BY <2>1 DEF Scopes, LayersOf
    <2>3. Hygienic' /\ (PendingUnbound' <=> PendingUnbound) /\ (ProgsDistinct' <=> ProgsDistinct)
      BY <2>1, <2>2 DEF HygieneInv, Hygienic, PendingUnbound, ProgsDistinct
    <2> QED
      BY <2>1, <2>3 DEF HygieneInv, Halted
  <1>3. CASE Next /\ ~Halt
    <2>1. ~Halted
      BY <1>3, NextRuns DEF SomeInv, OnceInv
    <2>2. /\ ScopeInv(T, I) /\ CallsShaped /\ ForwardInv /\ PointersTyped
          /\ Hygienic /\ PendingUnbound /\ ProgsDistinct
      BY <2>1 DEF SomeInv, OnceInv, ForwardSome, ForwardInv, HygieneInv
    <2>3. CASE TransformWith
      <3> DEFINE call == [hook |-> "with", terms |-> term.equates, body |-> term.body,
                          layers |-> layers, bases |-> bases, queue |-> queue]
      <3>1. /\ call.hook = "with" /\ call.layers = layers /\ call.terms = term.equates
            /\ Enter(term, call) /\ progs' = progs /\ term # NoTerm /\ term.hook = "with"
        BY <2>3 DEF TransformWith, Transforming, NoTerm
      <3> HIDE DEF call
      <3>2. calls # <<>>
        BY <2>2, <3>1, Running1
      <3>3. Distinct(term.equates)
        BY <2>2, <3>1 DEF ScopeInv, ScopeTyped, TermsTyped, NamesDistinct
      <3>4. Hygienic' /\ PendingUnbound'
        BY <2>2, <3>1, <3>2, <3>3, HygieneEnter
      <3> QED
        BY <2>2, <3>1, <3>4 DEF HygieneInv, ProgsDistinct
    <2>4. CASE TransformProg
      <3> DEFINE call == [hook |-> "prog", terms |-> Head(progs).equates]
      <3>1. /\ call.hook = "prog" /\ call.terms = Head(progs).equates
            /\ Enter(Head(progs), call) /\ calls = <<>> /\ progs # <<>> /\ progs' = Tail(progs)
        BY <2>4 DEF TransformProg
      <3> HIDE DEF call
      <3>2. IsList(progs)
        BY <2>2, SeqIsList DEF ScopeInv, ScopeTyped, BindersTyped
      <3>3. /\ Head(progs) = progs[1] /\ 1 \in DOMAIN progs /\ Len(progs) \in Nat
            /\ DOMAIN progs = 1 .. Len(progs) /\ DOMAIN Tail(progs) = 1 .. Len(progs) - 1
            /\ \A i \in 1 .. Len(progs) - 1 : Tail(progs)[i] = progs[i + 1]
        BY <3>1, <3>2, TailList
      <3>4. Distinct(Head(progs).equates)
        BY <2>2, <3>3 DEF ProgsDistinct
      <3>5. Hygienic' /\ PendingUnbound'
        BY <2>2, <3>1, <3>4, HygieneEnter
      <3>6. ProgsDistinct'
        <4>1. \A i \in DOMAIN Tail(progs) : i + 1 \in DOMAIN progs /\ Tail(progs)[i] = progs[i + 1]
          BY <3>3
        <4> QED
          BY <2>2, <3>1, <4>1 DEF ProgsDistinct
      <3> QED
        BY <3>5, <3>6 DEF HygieneInv
    <2>5. CASE Bind
      <3>1. progs' = progs
        BY <2>5 DEF Bind
      <3> QED
        BY <2>2, <2>5, <3>1, HygieneBind DEF HygieneInv, ProgsDistinct
    <2>6. CASE LeaveWith \/ LeaveProg
      <3>1. UNCHANGED <<progs, binders, pointers>>
        BY <2>6 DEF LeaveWith, LeaveProg
      <3>2. \A i \in Scopes' : i \in Scopes /\ calls'[i] = calls[i] /\ LayersOf(i)' = LayersOf(i)
        <4>1. PICK n : n = Len(calls)
          OBVIOUS
        <4>2. calls # <<>> /\ calls' = Caller
          BY <2>6 DEF LeaveWith, LeaveProg, AllBound, Returning
        <4>3. CASE LeaveWith
          <5>1. Top.hook # "prog" /\ layers' = Top.layers
            BY <4>3 DEF LeaveWith
          <5>2. \A k \in DOMAIN calls' : /\ k \in DOMAIN calls /\ calls'[k] = calls[k]
                                         /\ LayersOf(k)' = LayersOf(k)
            BY <2>2, <4>1, <4>2, <5>1, PopCall
          <5> QED
            BY <5>2 DEF Scopes
        <4>4. CASE LeaveProg
          <5>1. Top.hook = "prog"
            BY <4>4 DEF LeaveProg
          <5>2. DOMAIN calls' = {}
            BY <2>2, <4>2, <5>1, CallerFacts, EmptyList
          <5> QED
            BY <5>2 DEF Scopes
        <4> QED
          BY <2>6, <4>3, <4>4
      <3> QED
        BY <2>2, <3>1, <3>2 DEF HygieneInv, Hygienic, PendingUnbound, ProgsDistinct
    <2>7. CASE \/ TransformName \/ TransformRefer \/ TransformProcMake \/ TransformFormMake
               \/ TransformApply \/ ReturnFromForm \/ UpdateProcedure \/ ReturnFromProc
      BY <2>2, <2>7, HygieneQuiet
    <2> QED
      BY <1>3, <2>3, <2>4, <2>5, <2>6, <2>7 DEF Next
  <1> QED
    BY <1>1, <1>2, <1>3

(* A REF never gets the value that its name has in another layer than the *)
(* one where it was found when the REF was made.  BASES is searched with  *)
(* the layers of the scope that binds a name, which are not always those  *)
(* of the REF.                                                            *)
THEOREM HygienicAlways ==
  ASSUME NEW T, NEW I, Plain(T, I), NamesDistinct(T)
  PROVE  Spec => []Hygienic
  <1>1. Init => HygieneInv
    <2> SUFFICES ASSUME Init PROVE HygieneInv
      OBVIOUS
    <2>1. /\ progs \in Program /\ calls = <<>> /\ pointers = <<>>
      BY DEF Init
    <2>2. Scopes = {} /\ DOMAIN pointers = {}
      BY <2>1, EmptyList DEF Scopes
    <2> QED
      BY <2>1, <2>2 DEF HygieneInv, Hygienic, PendingUnbound, ProgsDistinct, NamesDistinct
  <1>2. SomeInv(T, I) /\ ForwardSome /\ HygieneInv /\ [Next]_vars => HygieneInv'
    BY HygieneStep
  <1>3. Spec => [](SomeInv(T, I) /\ ForwardSome)
    BY ForwardAlways
  <1>4. HygieneInv => Hygienic
    BY DEF HygieneInv
  <1> QED
    BY <1>1, <1>2, <1>3, <1>4, PTL DEF Spec
=============================================================================
