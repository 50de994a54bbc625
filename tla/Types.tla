------------------------------- MODULE Types -------------------------------
(***************************************************************************)
(* Subtypes and coercions (subtype.c, match.c, coerce.c), generic names    *)
(* (generic.c), Skolem types (type.c) and the tests that choose a form     *)
(* for a call (form.c).                                                    *)
(*                                                                         *)
(* The C functions take a CONTINUATION, the test that must also succeed    *)
(* with the bindings made so far.  Here a continuation is the list of the  *)
(* GOALS that are left, and its end is IS MATCHED, as in every call of the *)
(* program.  What a test changes is threaded through it: an environment    *)
(* holds the layers, the chain CALLS of the pairs of pointers being        *)
(* compared, the chain MATCHES, and the layers at the first success.       *)
(*                                                                         *)
(* A test answers "yes" or "no", or it "dies": C calls FAIL, reads a part  *)
(* of NIL, or never returns.                                               *)
(*                                                                         *)
(* A type is a record with its hook and its parts; the C code compares     *)
(* types by their address, which here is their value (a program that gives *)
(* each of its types a name and uses only the names).  Only a REF or a ROW *)
(* closes a cycle: it then points to a PLACE, whose type is in Pointee.    *)
(***************************************************************************)
EXTENDS Naturals, Sequences, FiniteSets, TLC, SequencesExt

CONSTANTS
  Pointee,   \* the types that circular types point to
  NoName,    \* the name that is missing
  Deep       \* calls of IS SUBTYPING nested deeper than this never end

(***************************************************************************)
(* Types.                                                                  *)
(***************************************************************************)
Nil             == [hook |-> "nil"]
Simple(h)       == [hook |-> h]
NameOf(n)       == [hook |-> "name", name |-> n]
Sym(n)          == [hook |-> "sym", name |-> n]
Joker(hooks)    == [hook |-> "joker", hooks |-> hooks]
Prefix(h, t)    == [hook |-> h, base |-> t]
Pointer(h, t)   == [hook |-> h, to |-> t]
Place(p)        == [hook |-> "place", place |-> p]
Array(n, t)     == [hook |-> "array", length |-> n, base |-> t]
Tuple(slots)    == [hook |-> "tuple", pars |-> slots]
Tuples(t, s)    == [hook |-> "tuples", base |-> t, symbol |-> s]
StrType(terms)  == [hook |-> "strType", terms |-> terms]
Method(h, ps, y) == [hook |-> h, pars |-> ps, yield |-> y]
Gen(ps, t)      == [hook |-> "gen", pars |-> ps, base |-> t]
Alts(members)   == [hook |-> "alts", members |-> members]
Sko(id, t)      == [hook |-> "sko", id |-> id, base |-> t]
Par(t, n)       == [type |-> t, name |-> n]

Simples  == {"cell", "char0", "char1", "int0", "int1", "int2", "list", "null",
             "real0", "real1", "void"}
Pointers == {"refer", "row"}
Methods  == {"form", "proc"}
Forms    == {"alts", "form", "gen"}

\* The type a REF or a ROW points to: NIL while it is forwarded.
Pointed(t) == IF t.to.hook = "place" THEN Pointee[t.to.place] ELSE t.to
IsForwarded(t) == Pointed(t) = Nil

RECURSIVE Degen(_), GenPars(_)
Degen(t)   == IF t.hook = "gen" THEN Degen(t.base) ELSE t
GenPars(t) == IF t.hook = "gen" THEN t.pars \o GenPars(t.base) ELSE <<>>
Arity(t)   == Len(Degen(t).pars)

IsSubname(m, n) == m = n \/ n = NoName

ParTypes(pars) == [i \in DOMAIN pars |-> pars[i].type]
ParNames(pars) == [i \in DOMAIN pars |-> pars[i].name]

\* The types a traversal visits inside one that is not a GEN.
Parts(t) ==
  CASE t.hook \in Pointers -> IF IsForwarded(t) THEN <<>> ELSE <<Pointed(t)>>
    [] t.hook \in Methods  -> Append(ParTypes(t.pars), t.yield)
    [] t.hook = "tuple"    -> ParTypes(t.pars)
    [] t.hook = "tuples"   -> <<t.base, t.symbol>>
    [] t.hook = "alts"     -> t.members
    [] t.hook \in {"array", "arrays", "sko", "type", "var"} -> <<t.base>>
    [] OTHER -> <<>>

(***************************************************************************)
(* Layers.  A view is a type in the layer that binds its free names, and   *)
(* what a name is bound to is a view.                                      *)
(***************************************************************************)
At(l, t) == [layer |-> l, type |-> t]
Unbound  == At(0, Nil)

PushLayer(ls, next, info) ==
  Append(ls, [next |-> next, info |-> info, keys |-> [n \in {} |-> Unbound]])

PlainLayer   == 1
SkolemLayer  == 2
GlobalLayers == PushLayer(PushLayer(<<>>, 0, "plain"), 0, "skolem")

SetKey(ls, l, n, v) == [ls EXCEPT ![l].keys = (n :> v) @@ @]

RECURSIVE Home(_, _, _)
Home(ls, l, n) ==
  CASE l = 0 -> 0
    [] l # 0 /\ n \in DOMAIN ls[l].keys -> l
    [] OTHER -> Home(ls, ls[l].next, n)

GotKey(ls, l, n) == Home(ls, l, n) # 0
GetKey(ls, l, n) == ls[Home(ls, l, n)].keys[n]

(***************************************************************************)
(* Ground types.                                                           *)
(***************************************************************************)

\* GROUNDING visits the parts of a type.  SEEN is its labeler, which drops
\* what it saw inside a GEN when the GEN ends; CHAIN is the names it went
\* through since it last saw a type, to notice when it goes round in them.
Visit(answer, seen) == [answer |-> answer, seen |-> seen]

\* Types one after the other, until one stops the visit.
RECURSIVE Grounding(_, _, _, _, _)
Groundings(ls, l, parts, from) ==
  FoldLeft(LAMBDA v, p : IF v.answer = "yes" THEN Grounding(ls, l, p, v.seen, {}) ELSE v,
           from, parts)

\* The names of a GEN, each known to the types after it, and then its base.
GroundingGen(ls, l, t, seen) ==
  LET Declared(v, p) ==
        LET w == Groundings(ls, l, <<p.type>>, v)
        IN  [w EXCEPT !.seen = @ \union {NameOf(p.name)}]
  IN  Groundings(ls, l, <<Degen(t)>>,
                 FoldLeft(Declared, Visit("yes", seen \union {t}), GenPars(t)))

Grounding(ls, l, t, seen, chain) ==
  CASE t \in seen -> Visit("yes", seen)
    [] t \notin seen /\ t.hook = "name" ->
         IF ~ GotKey(ls, l, t.name) THEN Visit("no", seen)
         ELSE LET v == GetKey(ls, l, t.name)
              IN  CASE v.type = Nil -> Visit("no", seen)
                    [] v.type # Nil /\ At(l, t) \in chain -> Visit("dies", seen)
                    [] OTHER -> Grounding(ls, v.layer, v.type, seen,
                                          chain \union {At(l, t)})
    [] t \notin seen /\ t.hook = "gen" ->
         Visit(GroundingGen(ls, l, t, seen).answer, seen \union {t})
    [] OTHER -> Groundings(ls, l, Parts(t), Visit("yes", seen \union {t}))

IsGround(ls, l, t) == Grounding(ls, l, t, {}, {}).answer

\* With no layer to look in, every free name stops the visit.
IsStronglyGround(t) == Grounding(<<>>, 0, t, {}, {}).answer = "yes"

\* BINDABLING: is the name N free in the type?  A GEN hides its names from its
\* base, not from the types of its own later names.
RECURSIVE Bindabling(_, _, _)
Bindabling(n, t, seen) ==
  /\ t \notin seen
  /\ LET In(parts) == \E i \in DOMAIN parts :
                        Bindabling(n, parts[i], seen \union {t})
     IN  CASE t.hook = "name" -> t.name = n
           [] t.hook = "gen"  -> \/ In(ParTypes(t.pars))
                                 \/ /\ \A i \in DOMAIN t.pars : t.pars[i].name # n
                                    /\ In(<<t.base>>)
           [] OTHER -> In(Parts(t))

IsBindable(n, form) ==
  \E i \in 1..Arity(form) : Bindabling(n, Degen(form).pars[i].type, {})

\* GROUNDIFY: every free name of T replaced by what it is bound to.
RECURSIVE Groundify(_, _, _)
Groundify(ls, l, t) ==
  LET Pars(in, layer, ps) ==
        [i \in DOMAIN ps |-> Par(Groundify(in, layer, ps[i].type), ps[i].name)]
      own    == FoldLeft(LAMBDA in, p : SetKey(in, Len(in), p.name, At(0, NameOf(p.name))),
                         PushLayer(ls, l, "plain"), t.pars)
      inside == Len(ls) + 1
  IN  CASE t.hook = "name" ->
             LET v == GetKey(ls, l, t.name)
             IN  IF v.layer = 0 THEN v.type ELSE Groundify(ls, v.layer, v.type)
        [] t.hook \in Methods ->
             Method(t.hook, Pars(ls, l, t.pars), Groundify(ls, l, t.yield))
        [] t.hook = "gen" ->
             Gen(Pars(own, inside, t.pars), Groundify(own, inside, t.base))
        [] t.hook = "tuple"  -> Tuple(Pars(ls, l, t.pars))
        [] t.hook = "tuples" -> Tuples(Groundify(ls, l, t.base), Groundify(ls, l, t.symbol))
        [] t.hook = "alts"   ->
             Alts([i \in DOMAIN t.members |-> Groundify(ls, l, t.members[i])])
        [] t.hook \in {"array", "arrays", "sko", "type", "var"} ->
             [t EXCEPT !.base = Groundify(ls, l, @)]
        [] t.hook \in Pointers /\ t.to.hook # "place" ->
             [t EXCEPT !.to = Groundify(ls, l, @)]
        [] OTHER -> t

(***************************************************************************)
(* Skolem types.                                                           *)
(***************************************************************************)

\* Has T, in layer L, a subtype that is not T?
RECURSIVE IsSkolemizable(_, _, _, _)
IsSkolemizable(ls, l, t, seen) ==
  LET Some(parts) == \E i \in DOMAIN parts :
                       IsSkolemizable(ls, l, parts[i], seen \union {t})
      Unnamed     == \E i \in DOMAIN t.pars : t.pars[i].name = NoName
  IN  CASE t.hook = "name" ->
             LET v == GetKey(ls, l, t.name) IN IsSkolemizable(ls, v.layer, v.type, seen)
        [] t.hook # "name" /\ t \in seen -> FALSE
        [] t \notin seen /\ t.hook \in Forms \union Pointers
             \union {"arrays", "joker", "nom", "sko", "tuples"} -> TRUE
        [] t \notin seen /\ t.hook \in {"array", "type", "var"} -> Some(<<t.base>>)
        [] t \notin seen /\ t.hook = "sym" -> t.name = NoName
        [] t \notin seen /\ t.hook \in {"proc", "tuple"} -> Unnamed \/ Some(Parts(t))
        [] OTHER -> FALSE

\* A type that is not one: what is left where C copies the parts of a name.
Broken == [hook |-> "broken"]

RECURSIVE Skolemizing(_, _)
Skolemizing(id, t) ==
  IF t.hook = "type" THEN [t EXCEPT !.base = Skolemizing(id, @)] ELSE Sko(id, t)

\* SKOLEMIZE: T is a TYPE type in layer L, or a name that is bound to one.
RECURSIVE Skolemize(_, _, _, _)
Skolemize(ls, l, t, id) ==
  CASE t.hook = "name" ->
         LET v == GetKey(ls, l, t.name) IN Skolemize(ls, v.layer, v.type, id)
    [] t.hook # "name" /\ IsSkolemizable(ls, l, t.base, {}) -> Skolemizing(id, t.base)
    [] OTHER -> IF t.base.hook = "name" THEN Broken ELSE t.base

(***************************************************************************)
(* Environments, goals and results.                                        *)
(***************************************************************************)
Start(ls) == [layers |-> ls, first |-> <<>>, calls |-> {}, matches |-> <<>>,
              fuel |-> Deep]

Result(env, answer) ==
  [answer |-> answer, layers |-> env.layers, first |-> env.first]

\* The environment a test goes on with after another test returned.
After(env, r) == [env EXCEPT !.layers = r.layers, !.first = r.first]

Sub(l, r)        == [kind |-> "sub", left |-> l, right |-> r]
Bind(l, n, t)    == [kind |-> "bind", layer |-> l, name |-> n, type |-> t]
Coerce(t, v, n)  == [kind |-> "coerce", type |-> t, right |-> v, names |-> n]
Subsume(l, r)    == [kind |-> "subsume", left |-> l, right |-> r]

\* The names of a GEN, declared in a new layer: unbound, with a match for each,
\* or bound to Skolem types.
Declare(env, next, info, pars) ==
  LET l == Len(env.layers) + 1
      Keys(ls, p)   == SetKey(ls, l, p.name, Unbound)
      Match(p)      == Sub(At(l, Prefix("type", NameOf(p.name))), At(l, p.type))
  IN  [env EXCEPT !.layers  = FoldLeft(Keys, PushLayer(@, next, info), pars),
                  !.matches = Reverse([i \in DOMAIN pars |-> Match(pars[i])]) \o @]

DeclareSkolems(env, next, pars) ==
  LET l == Len(env.layers) + 1
      Keys(ls, p) ==
        SetKey(ls, l, p.name, At(l, Skolemize(ls, l, p.type, <<l, p.name>>)))
  IN  [env EXCEPT !.layers = FoldLeft(Keys, PushLayer(@, next, "skolem"), pars)]

\* The layer of view V extended with the names of V's GENs.
DeclareGens(env, v) ==
  IF env.layers[v.layer].info = "plain"
  THEN Declare(env, v.layer, "plain", GenPars(v.type))
  ELSE DeclareSkolems(env, v.layer, GenPars(v.type))

\* The left GEN of two GENs: in a Skolem layer the key is the rest of the
\* parameter list, where the name is meant, so that no name is declared.
DeclareLeftGens(env, v) ==
  IF env.layers[v.layer].info = "plain"
  THEN Declare(env, v.layer, "plain", GenPars(v.type))
  ELSE [env EXCEPT !.layers = PushLayer(@, v.layer, "skolem")]

\* Back to the layers that ENV has.
DestroyLayers(env, r) == [r EXCEPT !.layers = SubSeq(@, 1, Len(env.layers))]

(***************************************************************************)
(* Subtypes.                                                               *)
(***************************************************************************)
AreSubnames(ls, rs) ==
  /\ Len(ls) = Len(rs)
  /\ \A i \in DOMAIN ls : IsSubname(ls[i].name, rs[i].name)

AreSubslots(l, r) ==
  [i \in DOMAIN l.type.pars |->
     Sub(At(l.layer, l.type.pars[i].type), At(r.layer, r.type.pars[i].type))]

\* Mutant: the parameters the same way round.
SameWayMethods(l, r) ==
  Append(AreSubslots(l, r), Sub(At(l.layer, l.type.yield), At(r.layer, r.type.yield)))

\* Two methods: parameters the other way round, then what they yield.
SubMethods(l, r) ==
  Append(AreSubslots(r, l), Sub(At(l.layer, l.type.yield), At(r.layer, r.type.yield)))

\* The ways in which the type in view L can be a subtype of the one in R, each
\* a list of goals, where no layer, call or binding is involved.
Ways(l, r) ==
  LET lt == l.type
      rt == r.type
      If(test, goals) == IF test THEN <<goals>> ELSE <<>>
      Both(s, t) == Sub(At(l.layer, s), At(r.layer, t))
      Hooks(h, k) == lt.hook = h /\ rt.hook = k
  IN  CASE lt.hook = "sko" ->
             If(TRUE, IF lt = rt THEN <<>> ELSE <<Sub(At(l.layer, lt.base), r)>>)
        [] rt.hook = "joker" /\ lt.hook # "sko" ->
             If(CASE lt.hook = "joker" -> lt.hooks \subseteq rt.hooks
                  [] lt.hook = "nom"   -> "sym" \in rt.hooks
                  [] OTHER             -> lt.hook \in rt.hooks, <<>>)
        [] lt.hook \in Simples /\ lt.hook = rt.hook -> <<<<>>>>
        [] lt.hook = "null" /\ rt.hook \in Pointers -> <<<<>>>>
        [] Hooks("alts", "form") \/ Hooks("alts", "gen") ->
             [i \in DOMAIN lt.members |-> <<Both(lt.members[i], rt)>>]
        [] Hooks("array", "array") ->
             If(lt.length = rt.length, <<Both(lt.base, rt.base)>>)
        [] Hooks("array", "arrays") \/ Hooks("arrays", "arrays")
           \/ Hooks("type", "type") \/ Hooks("var", "var") ->
             <<<<Both(lt.base, rt.base)>>>>
        [] Hooks("form", "form") \/ Hooks("proc", "proc") ->
             If(AreSubnames(lt.pars, rt.pars), SubMethods(l, r))
        [] Hooks("nom", "sym") -> If(rt.name = NoName, <<>>)
        [] Hooks("sym", "nom") -> If(lt.name # NoName, <<>>)
        [] Hooks("sym", "sym") -> If(IsSubname(lt.name, rt.name), <<>>)
        [] Hooks("strType", "strType") ->
             If(\A i \in DOMAIN lt.terms \intersect DOMAIN rt.terms :
                  lt.terms[i] = rt.terms[i], <<>>)
        [] Hooks("tuple", "tuple") ->
             If(AreSubnames(lt.pars, rt.pars), AreSubslots(l, r))
        [] Hooks("tuple", "tuples") ->
             [i \in DOMAIN lt.pars |-> <<Both(Sym(lt.pars[i].name), rt.symbol),
                                         Both(lt.pars[i].type, rt.base)>>]
        [] Hooks("tuples", "tuples") ->
             <<<<Both(lt.symbol, rt.symbol), Both(lt.base, rt.base)>>>>
        [] OTHER -> <<>>

\* Each of the ways, and then the REST.
Followed(ways, rest) == [i \in DOMAIN ways |-> ways[i] \o rest]

RECURSIVE Solve(_, _), AnyWay(_, _), EveryWay(_, _), IsMatched(_, _)

\* The first way that succeeds, or every way: what a way bound is unbound when
\* it returns, but the layers keep the binders it made.
AnyWay(ways, env) ==
  IF ways = <<>> THEN Result(env, "no")
  ELSE LET r == Solve(Head(ways), env)
       IN  IF r.answer = "no" THEN AnyWay(Tail(ways), After(env, r)) ELSE r

EveryWay(ways, env) ==
  IF ways = <<>> THEN Result(env, "yes")
  ELSE LET r == Solve(Head(ways), env)
       IN  IF r.answer = "yes" /\ Len(ways) > 1 THEN EveryWay(Tail(ways), After(env, r)) ELSE r

\* Mutant: every match has ground types, but the left one may be any type.
GroundMatched(matches, env) ==
  IF \A i \in DOMAIN matches :
       IsGround(env.layers, matches[i].left.layer, matches[i].left.type) = "yes"
  THEN [Result(env, "yes") EXCEPT !.first = IF @ = <<>> THEN env.layers ELSE @]
  ELSE Result(env, "no")

\* Each match: both types ground, and the left one a subtype.
Match(matches, env, left, right, r) ==
  CASE left # "yes" -> Result(env, left)
    [] left = "yes" /\ right # "yes" -> Result(env, right)
    [] OTHER -> IF r.answer = "yes"
                THEN IsMatched(Tail(matches), [env EXCEPT !.layers = r.layers])
                ELSE [r EXCEPT !.first = env.first]

IsMatched(matches, env) ==
  IF matches = <<>> THEN
    [Result(env, "yes") EXCEPT !.first = IF @ = <<>> THEN env.layers ELSE @]
  ELSE LET m == Head(matches)
       IN  Match(matches, env,
                 IsGround(env.layers, m.left.layer, m.left.type),
                 IsGround(env.layers, m.right.layer, m.right.type),
                 Solve(<<m>>, [env EXCEPT !.calls = {}, !.matches = <<>>]))

\* Go on with the name in view V bound to view W; unbind it afterwards.
Binding(v, w, rest, env) ==
  LET r == Solve(rest, [env EXCEPT !.layers = SetKey(@, v.layer, v.type.name, w)])
  IN  [r EXCEPT !.layers = SetKey(@, v.layer, v.type.name, Unbound)]

\* Two forms, one or both with GENs: the names of the GENs in new layers.
IsGen(v) == v.type.hook = "gen"

LeftGens(l, r, env) ==
  CASE ~ IsGen(l) -> env
    [] IsGen(l) /\ ~ IsGen(r) -> DeclareGens(env, l)
    [] OTHER -> DeclareLeftGens(env, l)

RightGens(r, env) == IF IsGen(r) THEN DeclareGens(env, r) ELSE env

\* A view without its GENs, whose names are in the last layer that ENV has.
InGens(v, env) == At(IF IsGen(v) THEN Len(env.layers) ELSE v.layer, Degen(v.type))

SubtypingForms(l, r, rest, env) == Solve(SubMethods(l, InGens(r, env)) \o rest, env)

SubtypingLeft(l, r, rest, left) ==
  SubtypingForms(InGens(l, left), r, rest, RightGens(r, left))

SubtypingGens(l, r, rest, env) ==
  LET subnames == AreSubnames(Degen(l.type).pars, Degen(r.type).pars)
  IN  CASE ~ subnames -> Result(env, "no")
        \* of two GENs, the right one in a plain layer loses its base
        [] subnames /\ IsGen(l) /\ IsGen(r) /\ env.layers[r.layer].info = "plain" ->
             Result(env, "dies")
        [] OTHER ->
             DestroyLayers(env, SubtypingLeft(l, r, rest, LeftGens(l, r, env)))

\* Mutant: no call is recorded.
UnrecordedPointers(l, r, rest, env) ==
  IF IsForwarded(l.type) \/ IsForwarded(r.type) THEN Result(env, "no")
  ELSE Solve(<<Sub(At(l.layer, Pointed(l.type)), At(r.layer, Pointed(r.type)))>> \o rest,
             env)

\* Two pointers: those that are being compared already are taken for subtypes.
SubtypingPointers(l, r, rest, env) ==
  LET call == <<l.type, r.type>>
  IN  CASE IsForwarded(l.type) \/ IsForwarded(r.type) -> Result(env, "no")
        [] call \in env.calls -> Solve(rest, env)
        [] OTHER ->
             Solve(<<Sub(At(l.layer, Pointed(l.type)), At(r.layer, Pointed(r.type)))>>
                     \o rest,
                   [env EXCEPT !.calls = @ \union {call}])

\* NULL is a subtype of a Skolemized REF or ROW, whatever is left to be tested.
RECURSIVE SkoBase(_)
SkoBase(t) == IF t.hook = "sko" THEN SkoBase(t.base) ELSE t

SubtypingNull(r, env) ==
  Result(env, IF SkoBase(r.type).hook \in Pointers THEN "yes" ELSE "no")

\* TUPLES against a joker: the rest is tested in any case.
SubtypingTuples(r, rest, env) ==
  LET tested == Solve(rest, env)
  IN  IF tested.answer = "yes" /\ "tuples" \notin r.type.hooks
      THEN [tested EXCEPT !.answer = "no"] ELSE tested

\* IS SUBTYPING dispatches on both types.  The result of a name's own layer:
\* a name that no layer declares makes GET KEY fail.
Subtyping(l, r, rest, env) ==
  LET Named(v, w, goal(_)) ==
        CASE ~ GotKey(env.layers, v.layer, v.type.name) -> Result(env, "dies")
          [] OTHER ->
               LET b == GetKey(env.layers, v.layer, v.type.name)
               IN  IF b.type = Nil THEN Binding(v, w, rest, env)
                   ELSE Solve(<<goal(b)>> \o rest, env)
      lh == l.type.hook
      rh == r.type.hook
  IN  CASE env.fuel = 0 \/ "broken" \in {lh, rh} -> Result(env, "dies")
        [] lh = "name" /\ env.fuel # 0 -> Named(l, r, LAMBDA b : Sub(b, r))
        [] lh # "name" /\ rh = "name" /\ env.fuel # 0 -> Named(r, l, LAMBDA b : Sub(l, b))
        [] lh \in Forms /\ rh = "alts" ->
             EveryWay([i \in DOMAIN r.type.members |->
                    <<Sub(l, At(r.layer, r.type.members[i]))>> \o rest], env)
        [] <<lh, rh>> \in {<<"form", "gen">>, <<"gen", "form">>, <<"gen", "gen">>} ->
             SubtypingGens(l, r, rest, env)
        [] lh \in Pointers /\ lh = rh -> SubtypingPointers(l, r, rest, env)
        [] lh = "null" /\ rh = "sko" -> SubtypingNull(r, env)
        [] lh = "tuples" /\ rh = "joker" -> SubtypingTuples(r, rest, env)
        [] OTHER -> AnyWay(Followed(Ways(l, r), rest), env)

(***************************************************************************)
(* Coercions.  Three functions of the program hold the table of coercions: *)
(* IS COERCING here, IS SUBSUMING and IS GROUND COTYPE below.              *)
(***************************************************************************)

\* What a term of type T is tried as, in order.
RECURSIVE Coercions(_)
Coercions(t) ==
  <<t>> \o
  CASE t.hook = "char0" -> <<Simple("char1"), Simple("int0"), Simple("int1"), Simple("int2")>>
    [] t.hook = "char1" -> <<Simple("int2")>>
    [] t.hook = "int0"  -> <<Simple("int1"), Simple("int2")>>
    [] t.hook = "int1"  -> <<Simple("int2")>>
    [] t.hook = "real0" -> <<Simple("real1")>>
    [] t.hook = "refer" -> <<[t EXCEPT !.hook = "row"]>>
    [] t.hook = "var"   -> Coercions(t.base)
    [] OTHER            -> <<>>

\* IS COERCING: the names (of a parameter) are bound to the coerced type.
Coercing(goal, rest, env) ==
  LET tries == Coercions(goal.type)
      Way(t) == <<Sub(At(PlainLayer, t), goal.right)>>
                  \o [i \in DOMAIN goal.names |-> Bind(goal.right.layer, goal.names[i], t)]
                  \o rest
  IN  AnyWay([i \in DOMAIN tries |-> Way(tries[i])], env)

\* What a parameter type, in view R, of a right form is tried as: its free
\* names stay with its layer only as long as it is not coerced.
RECURSIVE SubsumingWays(_, _)
SubsumingWays(ls, r) ==
  LET t == IF r.type.hook = "name" THEN GetKey(ls, r.layer, r.type.name).type ELSE r.type
      Plain(hooks) == [i \in DOMAIN hooks |-> At(PlainLayer, Simple(hooks[i]))]
  IN  <<r>> \o
      CASE t.hook = "char0" -> Plain(<<"char1", "int0", "int1", "int2">>)
        [] t.hook = "char1" -> Plain(<<"int2">>)
        [] t.hook = "int0"  -> Plain(<<"int1", "int2">>)
        [] t.hook = "int1"  -> Plain(<<"int2">>)
        [] t.hook = "real1" -> Plain(<<"real1">>)
        [] t.hook = "refer" -> <<At(PlainLayer, [t EXCEPT !.hook = "row"])>>
        [] t.hook = "var"   -> SubsumingWays(ls, At(r.layer, t.base))
        [] OTHER            -> <<>>

Subsuming(goal, rest, env) ==
  LET tries == SubsumingWays(env.layers, goal.right)
  IN  AnyWay([i \in DOMAIN tries |-> <<Sub(tries[i], goal.left)>> \o rest], env)

\* The goals in order, and then the matches.
Solve(goals, env) ==
  IF goals = <<>> THEN IsMatched(env.matches, env)
  ELSE LET goal == Head(goals)
           rest == Tail(goals)
       IN  CASE goal.kind = "sub" ->
                  Subtyping(goal.left, goal.right, rest,
                            [env EXCEPT !.fuel = IF @ = 0 THEN 0 ELSE @ - 1])
             [] goal.kind = "bind" ->
                  Binding(At(goal.layer, NameOf(goal.name)), At(0, goal.type), rest, env)
             [] goal.kind = "coerce"  -> Coercing(goal, rest, env)
             [] goal.kind = "subsume" -> Subsuming(goal, rest, env)

IsSubtype(ls, l, r) == Solve(<<Sub(l, r)>>, Start(ls)).answer

IsGroundSubtype(lt, rt) ==
  IF lt = rt THEN "yes"
  ELSE IsSubtype(GlobalLayers, At(PlainLayer, lt), At(SkolemLayer, rt))

IsGroundCoerced(lt, rt) ==
  IF lt = rt THEN "yes"
  ELSE Solve(<<Coerce(lt, At(SkolemLayer, rt), <<>>)>>, Start(GlobalLayers)).answer

\* IS GROUND COTYPE, the fast version of IS COERCING for ground types.
AnyOf(answers) ==
  LET n == SelectInSeq(answers, LAMBDA a : a # "no")
  IN  IF n = 0 THEN "no" ELSE answers[n]

RECURSIVE IsGroundCotype(_, _)

\* Mutant: REAL0 and VAR are taken for types that have no coercions.
BareCotype(lt, rt) ==
  IF lt = rt \/ lt.hook \notin {"var", "real0"}
  THEN IsGroundCoerced(lt, rt)
  ELSE IsGroundSubtype(lt, rt)

Retyped(t) ==
  CASE t.hook = "char0" -> <<"char1", "int0", "int1", "int2">>
    [] t.hook = "char1" -> <<"int2">>
    [] t.hook = "int0"  -> <<"int1", "int2">>
    [] t.hook = "int1"  -> <<"int2">>
    [] t.hook = "real0" -> <<"real1">>
    [] OTHER            -> <<>>

IsGroundCotype(lt, rt) ==
  LET hooks == Retyped(lt)
      more  ==
        CASE lt.hook = "refer" /\ rt.hook = "row" /\ ~ IsForwarded(lt) /\ ~ IsForwarded(rt) ->
               <<IsGroundSubtype(Pointed(lt), Pointed(rt))>>
          [] lt.hook = "var" -> <<IsGroundCotype(lt.base, rt)>>
          [] OTHER           -> <<>>
  IN  AnyOf(<<IsGroundSubtype(lt, rt)>>
              \o [i \in DOMAIN hooks |-> IsGroundSubtype(Simple(hooks[i]), rt)]
              \o more)

(***************************************************************************)
(* Forms.                                                                  *)
(***************************************************************************)

\* The first layer that a test declares names in.
FormLayer == Len(GlobalLayers) + 1

\* Can a form of this type be applied to arguments of these types?  If it can,
\* its generic names are bound to what the first success bound them to, even
\* if another test failed later.
Bound(form, r) ==
  LET gens     == GenPars(form)
      value(n) == GetKey(r.first, FormLayer, n).type
      No(answer) == [answer |-> answer, bound |-> <<>>]
  IN  CASE r.answer # "yes" -> No(r.answer)
        [] /\ r.answer = "yes"
           /\ \E i \in DOMAIN gens :
                IsGround(r.first, FormLayer, value(gens[i].name)) # "yes" -> No("dies")
        [] OTHER -> [answer |-> "yes",
                     bound  |-> [i \in DOMAIN gens |->
                                   Par(Groundify(r.first, FormLayer, value(gens[i].name)),
                                       gens[i].name)]]

IsApplicable(types, form) ==
  LET pars == Degen(form).pars
      Goal(i) == Coerce(types[i], At(FormLayer, pars[i].type), <<pars[i].name>>)
  IN  IF Len(pars) # Len(types) THEN [answer |-> "no", bound |-> <<>>]
      ELSE Bound(form, Solve([i \in DOMAIN pars |-> Goal(i)],
                             Declare(Start(GlobalLayers), 0, "skolem", GenPars(form))))

\* The names of the form type LEFT are left to be bound.
SubsumedBy(left, right, env) ==
  LET lpars == Degen(left).pars
      rpars == Degen(right).pars
      Goal(i) == Subsume(At(FormLayer + 1, lpars[i].type), At(FormLayer, rpars[i].type))
  IN  IF Len(lpars) # Len(rpars) THEN "no"
      ELSE Solve([i \in DOMAIN lpars |-> Goal(i)],
                 Declare(env, 0, "plain", GenPars(left))).answer

\* Mutant: and the names of RIGHT too.
LooselySubsumed(lefts, right) ==
  AnyOf([i \in DOMAIN lefts |->
           SubsumedBy(lefts[i], right,
                      Declare(Start(GlobalLayers), 0, "plain", GenPars(right)))])

\* Is the form type RIGHT less general than one of LEFTS?
IsSubsumed(lefts, right) ==
  AnyOf([i \in DOMAIN lefts |->
           SubsumedBy(lefts[i], right,
                      DeclareSkolems(Start(GlobalLayers), 0, GenPars(right)))])
=============================================================================
