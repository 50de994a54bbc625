------------------------------ MODULE Simplify ------------------------------
(***************************************************************************)
(* The hooks on integers and characters of TRANSFORM.  A hook is applied   *)
(* to terms that were transformed already.  It computes what it can: on    *)
(* constants, on neutral elements, and, when it compares, on the limits of *)
(* the types of its operands.  Otherwise it makes a term that the C        *)
(* program will evaluate.                                                  *)
(*                                                                         *)
(* A term is abstracted to what TRANSFORM can tell of it, whether it is a  *)
(* constant and what its type is, and to two numbers: VALUE, to which the  *)
(* simplified term evaluates in one execution of the C program, and EXACT, *)
(* what the term of the source means there.  The transformer never looks   *)
(* at the VALUE of a term that is not a constant.                          *)
(*                                                                         *)
(* Executions are those in which what a term of the source means is within *)
(* the limits of the type that its hook gives to terms it cannot simplify, *)
(* and no operation is undefined in C.  The type that a rule gives to what *)
(* it simplified may be a smaller one: an operand is WITHIN when that type *)
(* has room for it, and those that it was made of are.  Side effects of    *)
(* operands are left out: the hooks discard them with the operand.         *)
(***************************************************************************)
EXTENDS Integers, Sequences

CONSTANTS
  Low, High,       (* limits of a type: INT LOW, INT HIGH, and CHAR's       *)
  Bits,            (* the width of INT2                                     *)
  BitAnd(_, _), BitOr(_, _), BitXor(_, _), Shl(_, _), Shr(_, _),
                   (* & | ^ << and >> of C                                  *)
  Hooks            (* the hooks that the program uses                       *)

IntType  == {"int0", "int1", "int2"}
CharType == {"char0", "char1"}
Type     == IntType \cup CharType
Ints     == Low["int2"] .. High["int2"]

ASSUME LimitsAssumption ==
  /\ Low  \in [Type -> Int]
  /\ High \in [Type -> Int]
  /\ Low["int2"] <= Low["int1"] /\ Low["int1"] <= Low["int0"] /\ Low["int0"] <= -1
  /\ High["int2"] >= High["int1"] /\ High["int1"] >= High["int0"] /\ High["int0"] >= 1
  /\ Low["char0"] = Low["int0"] /\ High["char0"] = High["int0"]
  /\ Low["char1"] = Low["int2"] /\ High["char1"] = High["int2"]
  /\ \A t \in Type : High[t] = -Low[t] - 1
  /\ Bits \in Nat \ {0}

(* What the hooks take for granted of the operators of C. *)
ASSUME OperatorsAssumption ==
  \A m, n \in Ints :
    /\ BitAnd(m, n) \in Int /\ BitOr(m, n) \in Int /\ BitXor(m, n) \in Int
    /\ n \in 0 .. Bits - 1 => Shl(m, n) \in Int /\ Shr(m, n) \in Int

ASSUME BitsAssumption ==
  \A n \in Ints :
    /\ BitAnd(0, n) = 0  /\ BitAnd(n, 0) = 0  /\ BitAnd(-1, n) = n   /\ BitAnd(n, -1) = n
    /\ BitOr(0, n) = n   /\ BitOr(n, 0) = n   /\ BitOr(-1, n) = -1   /\ BitOr(n, -1) = -1
    /\ BitXor(0, n) = n  /\ BitXor(n, 0) = n  /\ BitXor(-1, n) = -n - 1
    /\ BitXor(n, -1) = -n - 1
    /\ Shl(n, 0) = n     /\ Shr(n, 0) = n
    /\ n \in 0 .. Bits - 1 => Shl(0, n) = 0 /\ Shr(0, n) = 0 /\ Shr(-1, n) = -1

VARIABLES stack   (* the operands transformed so far, at most two *)

vars == <<stack>>

Operand == [known : BOOLEAN, type : Type, value : Int, exact : Int, within : BOOLEAN]

-----------------------------------------------------------------------------
(* Numbers and types *)

Within(t, n) == Low[t] <= n /\ n <= High[t]

(* A C conversion to a type of N bits keeps the last N bits. *)
Wrap(t, n) == Low[t] + ((n - Low[t]) % (High[t] - Low[t] + 1))

Bool(b) == IF b THEN 1 ELSE 0

(* Division of C rounds toward zero. *)
Quo(a, b) == LET abs(n) == IF n < 0 THEN -n ELSE n
                 q == abs(a) \div abs(b)
             IN IF (a < 0) = (b < 0) THEN q ELSE -q
Rem(a, b) == a - b * Quo(a, b)

MakeIntegerType(n) ==
  IF Within("int0", n) THEN "int0" ELSE IF Within("int1", n) THEN "int1" ELSE "int2"

MakeCharacterType(n) == IF Within("int0", n) THEN "char0" ELSE "char1"

(* The larger of two types of integers. *)
Supertype(t, u) == IF "int2" \in {t, u} THEN "int2"
                   ELSE IF "int1" \in {t, u} THEN "int1" ELSE "int0"

Constant(t, n) == [known |-> TRUE, type |-> t, value |-> n]
Integer(n)     == Constant(MakeIntegerType(n), n)
Term(t, n)     == [known |-> FALSE, type |-> t, value |-> n]

Is(o, n)   == o.known /\ o.value = n
Fold(l, r) == l.known /\ r.known

Make(l, r, n) == Term(Supertype(l.type, r.type), n)
Test(n)       == Term("int0", n)

-----------------------------------------------------------------------------
(* Hooks that compute *)

IntAdd(l, r) ==
  CASE Fold(l, r) -> Integer(l.value + r.value)
    [] ~Fold(l, r) /\ Is(l, 0) -> r
    [] ~Fold(l, r) /\ Is(r, 0) -> l
    [] OTHER -> Make(l, r, l.value + r.value)

IntSubUnsigned(l, r) ==   (* a mistake: ?intSub(0, R) => R *)
  CASE Fold(l, r) -> Integer(l.value - r.value)
    [] ~Fold(l, r) /\ Is(l, 0) -> r
    [] ~Fold(l, r) /\ Is(r, 0) -> l
    [] OTHER -> Make(l, r, l.value - r.value)

IntSub(l, r) ==
  CASE Fold(l, r) -> Integer(l.value - r.value)
    [] ~Fold(l, r) /\ Is(l, 0) -> Term(r.type, -r.value)
    [] ~Fold(l, r) /\ Is(r, 0) -> l
    [] OTHER -> Make(l, r, l.value - r.value)

IntMul(l, r) ==
  IF Fold(l, r) THEN Integer(l.value * r.value)
  ELSE IF Is(l, 0) \/ Is(r, 0) THEN Constant("int0", 0)
  ELSE CASE Is(l, -1) -> Term(r.type, -r.value)
         [] Is(r, -1) -> Term(l.type, -l.value)
         [] Is(l, 1)  -> r
         [] Is(r, 1)  -> l
         [] OTHER     -> Make(l, r, l.value * r.value)

IntDiv(l, r) ==
  IF Fold(l, r) THEN Integer(Quo(l.value, r.value))
  ELSE CASE Is(l, 0)  -> Constant("int0", 0)
         [] Is(r, 1)  -> l
         [] Is(r, -1) -> Term(l.type, -l.value)
         [] OTHER     -> Make(l, r, Quo(l.value, r.value))

IntMod(l, r) ==
  IF Fold(l, r) THEN Integer(Rem(l.value, r.value))
  ELSE IF Is(l, 0) \/ Is(r, 1) THEN Constant("int0", 0)
  ELSE Make(l, r, Rem(l.value, r.value))

IntAnd(l, r) ==
  IF Fold(l, r) THEN Integer(BitAnd(l.value, r.value))
  ELSE IF Is(l, 0) \/ Is(r, 0) THEN Constant("int0", 0)
  ELSE CASE Is(l, -1) -> r
         [] Is(r, -1) -> l
         [] OTHER     -> Make(l, r, BitAnd(l.value, r.value))

IntOr(l, r) ==
  IF Fold(l, r) THEN Integer(BitOr(l.value, r.value))
  ELSE IF Is(l, -1) \/ Is(r, -1) THEN Constant("int0", -1)
  ELSE CASE Is(l, 0) -> r
         [] Is(r, 0) -> l
         [] OTHER    -> Make(l, r, BitOr(l.value, r.value))

IntXor(l, r) ==
  IF Fold(l, r) THEN Integer(BitXor(l.value, r.value))
  ELSE CASE Is(l, -1) -> Term(r.type, -r.value - 1)
         [] Is(r, -1) -> Term(l.type, -l.value - 1)
         [] Is(l, 0)  -> r
         [] Is(r, 0)  -> l
         [] OTHER     -> Make(l, r, BitXor(l.value, r.value))

(* Shifts have the type of what is shifted, constants too. *)
IntLsh(l, r) ==
  IF Fold(l, r) THEN Constant(l.type, Shl(Wrap(l.type, l.value), r.value))
  ELSE CASE Is(l, 0) -> Constant(l.type, 0)
         [] Is(r, 0) -> l
         [] OTHER    -> Term(l.type, Shl(l.value, r.value))

IntRsh(l, r) ==
  IF Fold(l, r) THEN Constant(l.type, Shr(Wrap(l.type, l.value), r.value))
  ELSE CASE Is(l, 0)  -> Constant(l.type, 0)
         [] Is(l, -1) -> Constant(l.type, -1)
         [] Is(r, 0)  -> l
         [] OTHER     -> Term(l.type, Shr(l.value, r.value))

IntNeg(o) == IF o.known THEN Integer(-o.value) ELSE Term(o.type, -o.value)
IntNot(o) == IF o.known THEN Integer(-o.value - 1) ELSE Term(o.type, -o.value - 1)

(* McCarthy's conjunction, disjunction, and negation. *)
AndHookLeft(l, r) ==   (* a mistake: the type of the left operand *)
  IF Is(l, 0) THEN l
  ELSE IF ~l.known /\ ~Is(r, 0) THEN Term(l.type, IF l.value # 0 THEN r.value ELSE 0)
  ELSE r

AndHook(l, r) ==
  IF Is(l, 0) THEN l
  ELSE IF ~l.known /\ ~Is(r, 0) THEN Term(r.type, IF l.value # 0 THEN r.value ELSE 0)
  ELSE r

OrHook(l, r) ==
  IF (l.known /\ l.value # 0) \/ Is(r, 0) THEN l
  ELSE IF Is(l, 0) THEN r
  ELSE Make(l, r, IF l.value # 0 THEN l.value ELSE r.value)

NotHook(o) == IF o.known THEN Constant("int0", Bool(o.value = 0)) ELSE Test(Bool(o.value = 0))

-----------------------------------------------------------------------------
(* Hooks that compare: a constant is compared with the limits of the type  *)
(* of a term                                                               *)

Truth(b) == Constant("int0", Bool(b))

(* A constant that the type of the other operand has no room for. *)
Beyond(l, r) == \/ l.known /\ ~Within(r.type, l.value)
                \/ r.known /\ ~Within(l.type, r.value)

IntEq(l, r) ==
  IF Fold(l, r) THEN Truth(l.value = r.value)
  ELSE IF Beyond(l, r) THEN Truth(FALSE) ELSE Test(Bool(l.value = r.value))

IntNe(l, r) ==
  IF Fold(l, r) THEN Truth(l.value # r.value)
  ELSE IF Beyond(l, r) THEN Truth(TRUE) ELSE Test(Bool(l.value # r.value))

IntGeUnfolded(l, r) ==   (* a mistake: constants are not compared *)
  Test(Bool(l.value >= r.value))

IntGe(l, r) ==
  IF Fold(l, r) THEN Truth(l.value >= r.value)
  ELSE CASE l.known /\ l.value < Low[r.type]   -> Truth(FALSE)
         [] l.known /\ l.value >= High[r.type] -> Truth(TRUE)
         [] r.known /\ High[l.type] < r.value  -> Truth(FALSE)
         [] r.known /\ Low[l.type] >= r.value  -> Truth(TRUE)
         [] OTHER -> Test(Bool(l.value >= r.value))

IntGt(l, r) ==
  IF Fold(l, r) THEN Truth(l.value > r.value)
  ELSE CASE l.known /\ l.value <= Low[r.type]  -> Truth(FALSE)
         [] l.known /\ l.value > High[r.type]  -> Truth(TRUE)
         [] r.known /\ High[l.type] <= r.value -> Truth(FALSE)
         [] r.known /\ Low[l.type] > r.value   -> Truth(TRUE)
         [] OTHER -> Test(Bool(l.value > r.value))

IntLe(l, r) ==
  IF Fold(l, r) THEN Truth(l.value <= r.value)
  ELSE CASE l.known /\ l.value > High[r.type]  -> Truth(FALSE)
         [] l.known /\ l.value <= Low[r.type]  -> Truth(TRUE)
         [] r.known /\ Low[l.type] > r.value   -> Truth(FALSE)
         [] r.known /\ High[l.type] <= r.value -> Truth(TRUE)
         [] OTHER -> Test(Bool(l.value <= r.value))

IntLt(l, r) ==
  IF Fold(l, r) THEN Truth(l.value < r.value)
  ELSE CASE l.known /\ l.value >= High[r.type] -> Truth(FALSE)
         [] l.known /\ l.value < Low[r.type]   -> Truth(TRUE)
         [] r.known /\ Low[l.type] >= r.value  -> Truth(FALSE)
         [] r.known /\ High[l.type] < r.value  -> Truth(TRUE)
         [] OTHER -> Test(Bool(l.value < r.value))

(* The hooks on characters are those on integers, but for the first test of *)
(* CHAR GT.                                                                 *)
CharEq(l, r) == IntEq(l, r)
CharNe(l, r) == IntNe(l, r)
CharGe(l, r) == IntGe(l, r)
CharLe(l, r) == IntLe(l, r)
CharLt(l, r) == IntLt(l, r)

CharGt(l, r) ==
  IF l.known /\ ~r.known /\ l.value <= High[r.type] THEN Truth(FALSE) ELSE IntGt(l, r)

-----------------------------------------------------------------------------
(* Casts *)

Retyped(t, n, known) == [known |-> known, type |-> t, value |-> n]

MakeCharacterCast(t, o) == Retyped(t, Wrap(t, o.value), o.known)
MakeIntegerCast(t, o)   == Retyped(t, Wrap(t, o.value), o.known)

CharCast(t, o) == IF o.type = t THEN o ELSE MakeCharacterCast(t, o)
IntCast(t, o)  == IF o.type = t THEN o ELSE MakeIntegerCast(t, o)

-----------------------------------------------------------------------------
(* Hooks that update the variable L: what L holds then *)

VarSet(l, n) == Term(l.type, n)

IntAddSet(l, r) == IF Is(r, 0) THEN l ELSE VarSet(l, l.value + r.value)
IntSubSet(l, r) == IF Is(r, 0) THEN l ELSE VarSet(l, l.value - r.value)
IntLshSet(l, r) == IF Is(r, 0) THEN l ELSE VarSet(l, Shl(l.value, r.value))
IntRshSet(l, r) == IF Is(r, 0) THEN l ELSE VarSet(l, Shr(l.value, r.value))
IntXorSet(l, r) == IF Is(r, 0) THEN l ELSE VarSet(l, BitXor(l.value, r.value))

IntAndSet(l, r) == CASE Is(r, -1) -> l
                     [] Is(r, 0)  -> VarSet(l, 0)
                     [] OTHER     -> VarSet(l, BitAnd(l.value, r.value))

IntMulSet(l, r) == CASE Is(r, 1) -> l
                     [] Is(r, 0) -> VarSet(l, 0)
                     [] OTHER    -> VarSet(l, l.value * r.value)

IntOrSet(l, r)  == CASE Is(r, 0)  -> l
                     [] Is(r, -1) -> VarSet(l, -1)
                     [] OTHER     -> VarSet(l, BitOr(l.value, r.value))

(* The divisor is negated, and not the variable. *)
IntDivSet(l, r) == CASE Is(r, 1)  -> l
                     [] Is(r, -1) -> VarSet(l, -r.value)
                     [] OTHER     -> VarSet(l, Quo(l.value, r.value))

-----------------------------------------------------------------------------
(* Which hooks there are, what they make, and what they mean *)

ArithmeticHook == {"intAdd", "intSub", "intMul", "intDiv", "intMod", "intAnd", "intOr",
                   "intXor", "intLsh", "intRsh", "and", "or", "intEq", "intNe", "intGe",
                   "intGt", "intLe", "intLt"}
CharacterHook  == {"charEq", "charNe", "charGe", "charGt", "charLe", "charLt"}
UpdateHook     == {"intAddSet", "intSubSet", "intMulSet", "intDivSet", "intAndSet",
                   "intOrSet", "intXorSet", "intLshSet", "intRshSet"}
UnaryHook      == {"intNeg", "intNot", "not"}

Computed(hook, l, r) ==
  CASE hook = "intAdd" -> IntAdd(l, r) [] hook = "intSub" -> IntSub(l, r)
    [] hook = "intMul" -> IntMul(l, r) [] hook = "intDiv" -> IntDiv(l, r)
    [] hook = "intMod" -> IntMod(l, r) [] hook = "intAnd" -> IntAnd(l, r)
    [] hook = "intOr"  -> IntOr(l, r)  [] hook = "intXor" -> IntXor(l, r)
    [] hook = "intLsh" -> IntLsh(l, r) [] hook = "intRsh" -> IntRsh(l, r)
    [] hook = "and"    -> AndHook(l, r)   [] hook = "or"     -> OrHook(l, r)
    [] hook = "intEq"  -> IntEq(l, r)  [] hook = "intNe"  -> IntNe(l, r)
    [] hook = "intGe"  -> IntGe(l, r)  [] hook = "intGt"  -> IntGt(l, r)
    [] hook = "intLe"  -> IntLe(l, r)  [] hook = "intLt"  -> IntLt(l, r)

Compared(hook, l, r) ==
  CASE hook = "charEq" -> CharEq(l, r) [] hook = "charNe" -> CharNe(l, r)
    [] hook = "charGe" -> CharGe(l, r) [] hook = "charGt" -> CharGt(l, r)
    [] hook = "charLe" -> CharLe(l, r) [] hook = "charLt" -> CharLt(l, r)

Updated(hook, l, r) ==
  CASE hook = "intAddSet" -> IntAddSet(l, r) [] hook = "intSubSet" -> IntSubSet(l, r)
    [] hook = "intMulSet" -> IntMulSet(l, r) [] hook = "intDivSet" -> IntDivSet(l, r)
    [] hook = "intAndSet" -> IntAndSet(l, r) [] hook = "intOrSet"  -> IntOrSet(l, r)
    [] hook = "intXorSet" -> IntXorSet(l, r) [] hook = "intLshSet" -> IntLshSet(l, r)
    [] hook = "intRshSet" -> IntRshSet(l, r)

Changed(hook, o) == CASE hook = "intNeg" -> IntNeg(o)
                      [] hook = "intNot" -> IntNot(o)
                      [] hook = "not"    -> NotHook(o)

(* The operation of C that a hook stands for. *)
Meaning2(hook, a, b) ==
  CASE hook \in {"intAdd", "intAddSet"} -> a + b
    [] hook \in {"intSub", "intSubSet"} -> a - b
    [] hook \in {"intMul", "intMulSet"} -> a * b
    [] hook \in {"intDiv", "intDivSet"} -> Quo(a, b)
    [] hook = "intMod"                  -> Rem(a, b)
    [] hook \in {"intAnd", "intAndSet"} -> BitAnd(a, b)
    [] hook \in {"intOr", "intOrSet"}   -> BitOr(a, b)
    [] hook \in {"intXor", "intXorSet"} -> BitXor(a, b)
    [] hook \in {"intLsh", "intLshSet"} -> Shl(a, b)
    [] hook \in {"intRsh", "intRshSet"} -> Shr(a, b)
    [] hook = "and"                     -> IF a = 0 THEN 0 ELSE b
    [] hook = "or"                      -> IF a = 0 THEN b ELSE a
    [] hook \in {"intEq", "charEq"}     -> Bool(a = b)
    [] hook \in {"intNe", "charNe"}     -> Bool(a # b)
    [] hook \in {"intGe", "charGe"}     -> Bool(a >= b)
    [] hook \in {"intGt", "charGt"}     -> Bool(a > b)
    [] hook \in {"intLe", "charLe"}     -> Bool(a <= b)
    [] hook \in {"intLt", "charLt"}     -> Bool(a < b)

(* The type of the term that a hook on L and R makes when no rule applies. *)
Given(hook, l, r) ==
  IF hook \in UpdateHook \cup {"intLsh", "intRsh"} THEN l.type
  ELSE IF hook = "and" THEN r.type
  ELSE IF Fold(l, r) THEN "int2" ELSE Supertype(l.type, r.type)

Meaning1(hook, a) == CASE hook = "intNeg" -> -a
                       [] hook = "intNot" -> -a - 1
                       [] hook = "not"    -> Bool(a = 0)

(* C leaves division by zero and shifts by more bits than there are undefined. *)
Defined(hook, a, b) ==
  /\ hook \in {"intDiv", "intMod", "intDivSet"} => b # 0
  /\ hook \in {"intLsh", "intRsh", "intLshSet", "intRshSet"} => b \in 0 .. Bits - 1

-----------------------------------------------------------------------------
(* TRANSFORM of operands and hooks *)

Init == stack = <<>>

(* What a hook makes of operands that mean N together, and that are WITHIN. *)
Result(o, n, within) ==
  [known |-> o.known, type |-> o.type, value |-> o.value, exact |-> n, within |-> within]

Push(o, n) == /\ Within(o.type, n)
              /\ stack' = Append(stack, Result(o, n, TRUE))

(* GIVEN is the type that the hook gives to what it cannot simplify. *)
Replace(o, n, given) ==
  /\ Within(given, n)
  /\ stack' = <<Result(o, n, Within(o.type, n) /\ \A i \in 1 .. Len(stack) : stack[i].within)>>

(* A constant of the source, or a variable, a call... of which nothing is known *)
(* but its type.                                                                *)
Operands ==
  /\ Len(stack) < 2
  /\ \E n \in Ints :
       \/ Push(Integer(n), n)
       \/ Push(Constant(MakeCharacterType(n), n), n)
       \/ \E t \in Type : Push(Term(t, n), n)

Both(types) == Len(stack) = 2 /\ stack[1].type \in types /\ stack[2].type \in types

Compute(hook) ==
  /\ hook \in Hooks \cap ArithmeticHook
  /\ Both(IntType)
  /\ Defined(hook, stack[1].exact, stack[2].exact)
  /\ Replace(Computed(hook, stack[1], stack[2]),
             Meaning2(hook, stack[1].exact, stack[2].exact),
             Given(hook, stack[1], stack[2]))

Compare(hook) ==
  /\ hook \in Hooks \cap CharacterHook
  /\ Both(CharType)
  /\ Replace(Compared(hook, stack[1], stack[2]),
             Meaning2(hook, stack[1].exact, stack[2].exact),
             Given(hook, stack[1], stack[2]))

(* Any term may stand for the variable. *)
Update(hook) ==
  /\ hook \in Hooks \cap UpdateHook
  /\ Both(IntType)
  /\ ~stack[1].known
  /\ Defined(hook, stack[1].exact, stack[2].exact)
  /\ Replace(Updated(hook, stack[1], stack[2]),
             Meaning2(hook, stack[1].exact, stack[2].exact),
             Given(hook, stack[1], stack[2]))

(* Division by the constant zero is an error; TRANSFORM goes on with zero. *)
DivideByZero ==
  /\ Hooks \cap {"intDiv", "intMod"} # {}
  /\ Both(IntType)
  /\ Is(stack[2], 0)
  /\ Replace(Constant("int0", 0), 0, "int0")

Change(hook) ==
  /\ hook \in Hooks \cap UnaryHook
  /\ Len(stack) = 1
  /\ stack[1].type \in IntType
  /\ Replace(Changed(hook, stack[1]), Meaning1(hook, stack[1].exact),
             IF stack[1].known THEN "int2" ELSE stack[1].type)

Cast(t) ==
  /\ Len(stack) = 1
  /\ \/ /\ "intCast" \in Hooks
        /\ stack[1].type \in IntType
        /\ Replace(IntCast(t, stack[1]), Wrap(t, stack[1].exact), t)
     \/ /\ "charCast" \in Hooks
        /\ stack[1].type \in CharType
        /\ Replace(CharCast(t, stack[1]), Wrap(t, stack[1].exact), t)

Next ==
  \/ Operands
  \/ \E hook \in Hooks : Compute(hook) \/ Compare(hook) \/ Update(hook) \/ Change(hook)
  \/ DivideByZero
  \/ \E t \in Type : Cast(t)

Spec == Init /\ [][Next]_vars

-----------------------------------------------------------------------------
(* Properties *)

(* However hooks are nested, the simplified term evaluates to what the term *)
(* of the source means, as long as the types that TRANSFORM gave to the     *)
(* operands have room for them: no rule for constants, neutral elements, or *)
(* limits of types changes the program.                                     *)
Faithful == \A i \in 1 .. Len(stack) : stack[i].within => stack[i].value = stack[i].exact

(* The least integer of a type is negated, by 0 - R, -1 * R or L / -1, where *)
(* the constant has a larger type: the rules for these give the negation the *)
(* smaller one.                                                              *)
NegatesLeast ==
  \E i, j \in 1 .. Len(stack) :
    /\ Is(stack[i], 0) \/ Is(stack[i], -1)
    /\ stack[j].exact = Low[stack[j].type]
    /\ Supertype(stack[i].type, stack[j].type) # stack[j].type
    /\ stack'[1].exact = -stack[j].exact

(* The rules for neutral and absorbing elements give their results a type    *)
(* that has room for whatever the type of the term of the source has room    *)
(* for, but for the least integers that they negate.                         *)
StaysWithin ==
  [][(\A i \in 1 .. Len(stack) : stack[i].within)
     => (\A i \in 1 .. Len(stack') : stack'[i].within) \/ NegatesLeast]_vars

(* Hooks on constants yield constants: labels of CASEs, sizes of ROWs and   *)
(* the bounds of INT FOR must be known to TRANSFORM.                        *)
ConstantsFold ==
  [][Len(stack) = 2 /\ stack[1].known /\ stack[2].known => stack'[1].known]_vars

=============================================================================
