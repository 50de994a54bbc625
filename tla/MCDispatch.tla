----------------------------- MODULE MCDispatch -----------------------------
(***************************************************************************)
(* Forms of one and two parameters over simple types, pointers (one pair   *)
(* of them circular), tuples, jokers, forms and generic names.             *)
(***************************************************************************)
EXTENDS Dispatch

Char0 == Simple("char0")
Char1 == Simple("char1")
Int0  == Simple("int0")
Int1  == Simple("int1")
Int2  == Simple("int2")
Real0 == Simple("real0")
Real1 == Simple("real1")
Void  == Simple("void")
Null  == Simple("null")
Var(t) == Prefix("var", t)
Ref(t) == Pointer("refer", t)
Row(t) == Pointer("row", t)

\* Jokers of prelude.c, without the hooks that no type here has.
Num == Joker({"int0", "int1", "int2", "real0", "real1"})
Sca == Joker({"char0", "char1", "int0", "int1", "int2", "null", "real0", "real1",
              "refer", "row"})
Mut == Joker({"array", "arrays", "char0", "char1", "int0", "int1", "int2", "null",
              "proc", "real0", "real1", "refer", "row", "strType", "tuple",
              "tuples", "void"})
Obj == Joker({"alts", "array", "arrays", "cell", "char0", "char1", "form", "gen",
              "int0", "int1", "int2", "list", "null", "proc", "real0", "real1",
              "refer", "row", "strType", "sym", "tuple", "tuples", "type", "var",
              "void"})

\* Two circular lists of integers, one a pair and one a twice as long way round.
Pair(t, u) == Tuple(<<Par(t, "a"), Par(u, "b")>>)
MCPointee ==
  ("once" :> Pair(Int0, Ref(Place("once")))) @@
  ("even" :> Pair(Int0, Ref(Place("odd")))) @@
  ("odd"  :> Pair(Int0, Ref(Place("even")))) @@
  ("later" :> Nil)      \* forwarded
Once == Ref(Place("once"))
Even == Ref(Place("even"))
Nom  == Simple("nom")

G == NameOf("g")
H == NameOf("h")
One(t)      == <<Par(t, "x")>>
Two(t, u)   == <<Par(t, "x"), Par(u, "y")>>
Form(ps)    == Method("form", ps, Void)
Giving(ps, t) == Method("form", ps, t)
Generic(bound, form) == Gen(<<Par(Prefix("type", bound), "g")>>, form)
Generics(form) == Gen(<<Par(Prefix("type", Obj), "g"), Par(Prefix("type", Obj), "h")>>, form)

ToInt(t) == Giving(One(t), Int0)
Id(b)    == Gen(<<Par(Prefix("type", b), "h")>>, Giving(One(H), H))

Jokers  == {Num, Sca, Mut, Obj}
Scalars == {Char0, Char1, Int0, Int1, Int2, Real0, Real1, Null,
            Ref(Int0), Row(Int0), Row(Ref(Int0)), Var(Int0), Var(Char0), Var(Ref(Int0))}
Structures ==
  {Once, Even, Ref(Place("later")), Pair(Int0, Null), Pair(Int0, Ref(Int0)),
   Tuple(<<Par(Int0, NoName)>>), Tuples(Int0, Nom), Tuples(Null, Sym("b")),
   Array(2, Int0), Array(3, Int0), Prefix("arrays", Int0), StrType(<<"s">>),
   Prefix("type", Int0), Prefix("type", Num), Sym("a"), Sym(NoName), Nom,
   Method("proc", One(Num), Int0), Method("proc", One(Int0), Num)}

Applied1(types) == {<<t>> : t \in types}

\* One parameter, with or without a generic name in it.
Ground1(types) == {Form(One(t)) : t \in types}
Generic1 ==
  {Generic(b, Form(One(t))) : b \in {Obj, Num, Mut}, t \in {G, Var(G), Ref(G), Row(G)}}

\* Two parameters: the generic names in both of them, and each in one.
Parts2 == {G, Ref(G), Pair(G, Int0), Pair(G, Ref(G))}
Shared2 ==
  {Generic(b, Form(Two(t, u))) : b \in {Obj, Num}, t \in Parts2, u \in Parts2 \union {Int2}}
  \union {Generics(Form(Two(t, u))) : t \in {G, Ref(G)}, u \in {Ref(H), Pair(H, G)}}
Single2 ==
  {Generics(Form(Two(t, u))) : t \in {G, Ref(G)}, u \in {H, Ref(H)}}
  \union {Form(Two(t, u)) : t \in {Int1, Mut, Ref(Int0)}, u \in {Int2, Row(Int0)}}
Things == {Char0, Int0, Int2, Ref(Int0), Ref(Char0), Var(Int0), Pair(Int0, Int0),
           Pair(Char0, Ref(Char0)), Once}
Args2 == {<<t, u>> : t \in Things, u \in Things}

\* Parameters that are forms.
Plain1 ==
  {ToInt(t) : t \in {Int0, Num, Obj, Ref(Int0)}}
  \union {Giving(One(t), t) : t \in {Int0, Char0, Once, Even}}
  \union {Alts(<<ToInt(Int0), ToInt(Char0)>>)}
Higher1 ==
  {Generic(b, Form(One(f))) : b \in {Obj, Num}, f \in {G, Giving(One(G), G), ToInt(G)}}
Passed == Plain1 \union {Id(Obj), Id(Num), Alts(<<Id(Obj), ToInt(Char0)>>)}

World(forms, calls, most) == [forms |-> forms, args |-> calls, most |-> most]
MCWorlds ==
  [scalars    |-> World(Ground1(Scalars \union Jokers), Applied1(Scalars), 2),
   structures |-> World(Ground1(Structures \union Jokers), Applied1(Structures), 2),
   generic    |-> World(Generic1 \union Ground1(Scalars), Applied1(Scalars \ {Null}), 2),
   shared     |-> World(Shared2, Args2, 1),
   coerced    |-> World({Generic(b, Form(Two(G, t))) : b \in {Obj, Num}, t \in {G, Int2}}
                        \union {Form(Two(t, u)) : t \in {Int1, Int2}, u \in {Int2, Real1}},
                        Args2, 2),
   single     |-> World(Single2, Args2, 2),
   methods    |-> World(Ground1(Plain1), Applied1(Passed), 2),
   higher     |-> World(Higher1, Applied1(Passed), 1)]

\* Both parameters of a form that may take any numbers.
Hasty == [numbers |-> World({Generic(Num, Form(Two(G, G))), Form(Two(Num, Num)),
                             Form(Two(Int2, Num))}
                            \union Single2,
                            {<<t, u>> : t \in Scalars, u \in Scalars}, 2)]

=============================================================================
