--------------------------- MODULE SimplifyProofs ---------------------------
(***************************************************************************)
(* The simplifications of TRANSFORM keep the meaning of terms, whatever    *)
(* the widths of the types: one lemma for each hook, then the invariant.   *)
(***************************************************************************)
EXTENDS Simplify, SequenceTheorems, TLAPS

(* The hooks that do what they stand for. *)
RightHooks == "charGt" \notin Hooks /\ "intDivSet" \notin Hooks

(* An operand whose value is right and fits its type. *)
Fits(o) ==
  /\ o.known \in BOOLEAN /\ o.type \in Type /\ o.value \in Int
  /\ Within(o.type, o.value)
  /\ o.value = o.exact

(* O is typed, and its value is N. *)
Yields(o, n) == o.known \in BOOLEAN /\ o.type \in Type /\ o.value = n

-----------------------------------------------------------------------------
(* Numbers *)

LEMMA LimitFacts ==
  /\ \A t \in Type : Low[t] \in Int /\ High[t] \in Int
  /\ \A t \in Type : Low["int2"] <= Low[t] /\ High[t] <= High["int2"]
  /\ \A t \in Type : Low[t] <= -1 /\ High[t] >= 1
  BY LimitsAssumption DEF Type, IntType, CharType

LEMMA IntsFacts ==
  ASSUME NEW t \in Type, NEW n \in Int, Within(t, n)
  PROVE  n \in Ints
  BY LimitFacts, LimitsAssumption DEF Within, Ints, Type, IntType

LEMMA QuoFacts ==
  /\ \A a, b \in Int : b # 0 => Quo(a, b) \in Int /\ Rem(a, b) \in Int
  /\ \A b \in Int : b # 0 => Quo(0, b) = 0 /\ Rem(0, b) = 0
  /\ \A a \in Int : Quo(a, 1) = a /\ Rem(a, 1) = 0 /\ Quo(a, -1) = -a
  <1>1. \A a, b \in Int : b # 0 => Quo(a, b) \in Int
    BY DEF Quo
  <1>2. \A b \in Int : b # 0 => Quo(0, b) = 0
    BY DEF Quo
  <1>3. \A a \in Int : Quo(a, 1) = a /\ Quo(a, -1) = -a
    BY DEF Quo
  <1> QED
    BY <1>1, <1>2, <1>3 DEF Rem

LEMMA WrapFacts ==
  ASSUME NEW t \in Type, NEW n \in Int
  PROVE  Wrap(t, n) \in Int /\ (Within(t, n) => Wrap(t, n) = n)
  BY LimitFacts DEF Wrap, Within

LEMMA MadeTypes ==
  /\ \A n : MakeIntegerType(n) \in Type /\ MakeCharacterType(n) \in Type
  /\ \A t, u : Supertype(t, u) \in Type
  BY DEF MakeIntegerType, MakeCharacterType, Supertype, Type, IntType, CharType

-----------------------------------------------------------------------------
(* The hooks *)

(* Sums and products. *)
LEMMA SumsRight ==
  ASSUME NEW l, NEW r, Fits(l), Fits(r)
  PROVE  /\ Yields(IntAdd(l, r), l.value + r.value)
         /\ Yields(IntSub(l, r), l.value - r.value)
         /\ Yields(IntMul(l, r), l.value * r.value)
  <1> DEFINE a == l.value
             b == r.value
  <1>0. /\ l.known \in BOOLEAN /\ r.known \in BOOLEAN
        /\ l.type \in Type /\ r.type \in Type
        /\ a \in Int /\ b \in Int
        /\ a \in Ints /\ b \in Ints
        /\ Low[l.type] <= a /\ a <= High[l.type]
        /\ Low[r.type] <= b /\ b <= High[r.type]
    BY IntsFacts DEF Fits, Within
  <1>z. "int0" \in Type
    BY DEF Type, IntType
  <1> USE <1>0, <1>z, MadeTypes DEF Yields, Integer, Constant, Term, Make, Test, Truth, Is,
                                 Fold, Bool
  <1>1. Yields(IntAdd(l, r), l.value + r.value)
    <2>1. /\ a = 0 => a + b = b
          /\ b = 0 => a + b = a
      BY <1>0
    <2> QED
      BY <2>1 DEF IntAdd
  <1>2. Yields(IntSub(l, r), l.value - r.value)
    <2>1. /\ a = 0 => a - b = -b
          /\ b = 0 => a - b = a
      BY <1>0
    <2> QED
      BY <2>1 DEF IntSub
  <1>3. Yields(IntMul(l, r), l.value * r.value)
    <2>1. /\ a = 0 => a * b = 0
          /\ b = 0 => a * b = 0
          /\ a = 1 => a * b = b
          /\ b = 1 => a * b = a
          /\ a = -1 => a * b = -b
          /\ b = -1 => a * b = -a
      BY <1>0
    <2> QED
      BY <2>1 DEF IntMul
  <1> QED
    BY <1>1, <1>2, <1>3

(* Quotients and remainders. *)
LEMMA QuotientsRight ==
  ASSUME NEW l, NEW r, Fits(l), Fits(r), r.value # 0
  PROVE  /\ Yields(IntDiv(l, r), Quo(l.value, r.value))
         /\ Yields(IntMod(l, r), Rem(l.value, r.value))
  <1> DEFINE a == l.value
             b == r.value
  <1>0. /\ l.known \in BOOLEAN /\ r.known \in BOOLEAN
        /\ l.type \in Type /\ r.type \in Type
        /\ a \in Int /\ b \in Int
        /\ a \in Ints /\ b \in Ints
        /\ Low[l.type] <= a /\ a <= High[l.type]
        /\ Low[r.type] <= b /\ b <= High[r.type]
    BY IntsFacts DEF Fits, Within
  <1>z. "int0" \in Type
    BY DEF Type, IntType
  <1> USE <1>0, <1>z, MadeTypes DEF Yields, Integer, Constant, Term, Make, Test, Truth, Is,
                                 Fold, Bool
  <1>1. Yields(IntDiv(l, r), Quo(l.value, r.value))
    <2>1. /\ a = 0 => Quo(a, b) = 0
          /\ b = 1 => Quo(a, b) = a
          /\ b = -1 => Quo(a, b) = -a
      BY QuoFacts
    <2> QED
      BY <2>1 DEF IntDiv
  <1>2. Yields(IntMod(l, r), Rem(l.value, r.value))
    <2>1. /\ a = 0 => Rem(a, b) = 0
          /\ b = 1 => Rem(a, b) = 0
      BY QuoFacts
    <2> QED
      BY <2>1 DEF IntMod
  <1> QED
    BY <1>1, <1>2

(* Operations on bits. *)
LEMMA BitsRight ==
  ASSUME NEW l, NEW r, Fits(l), Fits(r)
  PROVE  /\ Yields(IntAnd(l, r), BitAnd(l.value, r.value))
         /\ Yields(IntOr(l, r), BitOr(l.value, r.value))
         /\ Yields(IntXor(l, r), BitXor(l.value, r.value))
  <1> DEFINE a == l.value
             b == r.value
  <1>0. /\ l.known \in BOOLEAN /\ r.known \in BOOLEAN
        /\ l.type \in Type /\ r.type \in Type
        /\ a \in Int /\ b \in Int
        /\ a \in Ints /\ b \in Ints
        /\ Low[l.type] <= a /\ a <= High[l.type]
        /\ Low[r.type] <= b /\ b <= High[r.type]
    BY IntsFacts DEF Fits, Within
  <1>z. "int0" \in Type
    BY DEF Type, IntType
  <1> USE <1>0, <1>z, MadeTypes DEF Yields, Integer, Constant, Term, Make, Test, Truth, Is,
                                 Fold, Bool
  <1>1. Yields(IntAnd(l, r), BitAnd(l.value, r.value))
    <2>1. /\ a = 0 => BitAnd(a, b) = 0
          /\ b = 0 => BitAnd(a, b) = 0
          /\ a = -1 => BitAnd(a, b) = b
          /\ b = -1 => BitAnd(a, b) = a
      BY BitsAssumption
    <2> QED
      BY <2>1 DEF IntAnd
  <1>2. Yields(IntOr(l, r), BitOr(l.value, r.value))
    <2>1. /\ a = 0 => BitOr(a, b) = b
          /\ b = 0 => BitOr(a, b) = a
          /\ a = -1 => BitOr(a, b) = -1
          /\ b = -1 => BitOr(a, b) = -1
      BY BitsAssumption
    <2> QED
      BY <2>1 DEF IntOr
  <1>3. Yields(IntXor(l, r), BitXor(l.value, r.value))
    <2>1. /\ a = 0 => BitXor(a, b) = b
          /\ b = 0 => BitXor(a, b) = a
          /\ a = -1 => BitXor(a, b) = -b - 1
          /\ b = -1 => BitXor(a, b) = -a - 1
      BY BitsAssumption
    <2> QED
      BY <2>1 DEF IntXor
  <1> QED
    BY <1>1, <1>2, <1>3

(* Shifts. *)
LEMMA ShiftsRight ==
  ASSUME NEW l, NEW r, Fits(l), Fits(r), r.value \in 0 .. Bits - 1
  PROVE  /\ Yields(IntLsh(l, r), Shl(l.value, r.value))
         /\ Yields(IntRsh(l, r), Shr(l.value, r.value))
  <1> DEFINE a == l.value
             b == r.value
  <1>0. /\ l.known \in BOOLEAN /\ r.known \in BOOLEAN
        /\ l.type \in Type /\ r.type \in Type
        /\ a \in Int /\ b \in Int
        /\ a \in Ints /\ b \in Ints
        /\ Low[l.type] <= a /\ a <= High[l.type]
        /\ Low[r.type] <= b /\ b <= High[r.type]
    BY IntsFacts DEF Fits, Within
  <1>z. "int0" \in Type
    BY DEF Type, IntType
  <1> USE <1>0, <1>z, MadeTypes DEF Yields, Integer, Constant, Term, Make, Test, Truth, Is,
                                 Fold, Bool
  <1>1. Yields(IntLsh(l, r), Shl(l.value, r.value))
    <2>1. /\ Wrap(l.type, a) = a
          /\ a = 0 => Shl(a, b) = 0
          /\ b = 0 => Shl(a, b) = a
      BY BitsAssumption, WrapFacts DEF Within
    <2> QED
      BY <2>1 DEF IntLsh
  <1>2. Yields(IntRsh(l, r), Shr(l.value, r.value))
    <2>1. /\ Wrap(l.type, a) = a
          /\ a = 0 => Shr(a, b) = 0
          /\ a = -1 => Shr(a, b) = -1
          /\ b = 0 => Shr(a, b) = a
      BY BitsAssumption, WrapFacts DEF Within
    <2> QED
      BY <2>1 DEF IntRsh
  <1> QED
    BY <1>1, <1>2

(* Conjunction and disjunction. *)
LEMMA LogicRight ==
  ASSUME NEW l, NEW r, Fits(l), Fits(r)
  PROVE  /\ Yields(AndHook(l, r), IF l.value = 0 THEN 0 ELSE r.value)
         /\ Yields(OrHook(l, r), IF l.value = 0 THEN r.value ELSE l.value)
  <1> DEFINE a == l.value
             b == r.value
  <1>0. /\ l.known \in BOOLEAN /\ r.known \in BOOLEAN
        /\ l.type \in Type /\ r.type \in Type
        /\ a \in Int /\ b \in Int
        /\ a \in Ints /\ b \in Ints
        /\ Low[l.type] <= a /\ a <= High[l.type]
        /\ Low[r.type] <= b /\ b <= High[r.type]
    BY IntsFacts DEF Fits, Within
  <1>z. "int0" \in Type
    BY DEF Type, IntType
  <1> USE <1>0, <1>z, MadeTypes DEF Yields, Integer, Constant, Term, Make, Test, Truth, Is,
                                 Fold, Bool
  <1>1. Yields(AndHook(l, r), IF l.value = 0 THEN 0 ELSE r.value)
    BY DEF AndHook
  <1>2. Yields(OrHook(l, r), IF l.value = 0 THEN r.value ELSE l.value)
    BY DEF OrHook
  <1> QED
    BY <1>1, <1>2

(* Comparisons: an operand that is no constant is within the limits of its type. *)
LEMMA ComparisonsRight ==
  ASSUME NEW l, NEW r, Fits(l), Fits(r)
  PROVE  /\ Yields(IntEq(l, r), Bool(l.value = r.value))
         /\ Yields(IntNe(l, r), Bool(l.value # r.value))
         /\ Yields(IntGe(l, r), Bool(l.value >= r.value))
         /\ Yields(IntGt(l, r), Bool(l.value > r.value))
         /\ Yields(IntLe(l, r), Bool(l.value <= r.value))
         /\ Yields(IntLt(l, r), Bool(l.value < r.value))
  <1> DEFINE a == l.value
             b == r.value
  <1>0. /\ l.known \in BOOLEAN /\ r.known \in BOOLEAN
        /\ l.type \in Type /\ r.type \in Type
        /\ a \in Int /\ b \in Int
        /\ a \in Ints /\ b \in Ints
        /\ Low[l.type] <= a /\ a <= High[l.type]
        /\ Low[r.type] <= b /\ b <= High[r.type]
    BY IntsFacts DEF Fits, Within
  <1>z. "int0" \in Type
    BY DEF Type, IntType
  <1> USE <1>0, <1>z, MadeTypes DEF Yields, Integer, Constant, Term, Make, Test, Truth, Is,
                                 Fold, Bool
  <1>1. Yields(IntEq(l, r), Bool(l.value = r.value))
    BY DEF IntEq, Beyond, Within
  <1>2. Yields(IntNe(l, r), Bool(l.value # r.value))
    BY DEF IntNe, Beyond, Within
  <1>3. Yields(IntGe(l, r), Bool(l.value >= r.value))
    BY LimitFacts DEF IntGe
  <1>4. Yields(IntGt(l, r), Bool(l.value > r.value))
    BY LimitFacts DEF IntGt
  <1>5. Yields(IntLe(l, r), Bool(l.value <= r.value))
    BY LimitFacts DEF IntLe
  <1>6. Yields(IntLt(l, r), Bool(l.value < r.value))
    BY LimitFacts DEF IntLt
  <1> QED
    BY <1>1, <1>2, <1>3, <1>4, <1>5, <1>6

(* Updates of a variable, but for INT DIV SET. *)
LEMMA UpdatesRight ==
  ASSUME NEW l, NEW r, Fits(l), Fits(r)
  PROVE  /\ Yields(IntAddSet(l, r), l.value + r.value)
         /\ Yields(IntSubSet(l, r), l.value - r.value)
         /\ Yields(IntMulSet(l, r), l.value * r.value)
         /\ Yields(IntAndSet(l, r), BitAnd(l.value, r.value))
         /\ Yields(IntOrSet(l, r), BitOr(l.value, r.value))
         /\ Yields(IntXorSet(l, r), BitXor(l.value, r.value))
         /\ Yields(IntLshSet(l, r), Shl(l.value, r.value))
         /\ Yields(IntRshSet(l, r), Shr(l.value, r.value))
  <1> DEFINE a == l.value
             b == r.value
  <1>0. /\ l.known \in BOOLEAN /\ r.known \in BOOLEAN
        /\ l.type \in Type /\ r.type \in Type
        /\ a \in Int /\ b \in Int
        /\ a \in Ints /\ b \in Ints
        /\ Low[l.type] <= a /\ a <= High[l.type]
        /\ Low[r.type] <= b /\ b <= High[r.type]
    BY IntsFacts DEF Fits, Within
  <1>z. "int0" \in Type
    BY DEF Type, IntType
  <1> USE <1>0 DEF Yields, Term, VarSet, Is
  <1>1. Yields(IntAddSet(l, r), l.value + r.value)
    <2>1. /\ b = 0 => a + b = a
      BY <1>0
    <2> QED
      BY <2>1 DEF IntAddSet
  <1>2. Yields(IntSubSet(l, r), l.value - r.value)
    <2>1. /\ b = 0 => a - b = a
      BY <1>0
    <2> QED
      BY <2>1 DEF IntSubSet
  <1>3. Yields(IntMulSet(l, r), l.value * r.value)
    <2>1. /\ b = 0 => a * b = 0
          /\ b = 1 => a * b = a
      BY <1>0
    <2> QED
      BY <2>1 DEF IntMulSet
  <1>4. Yields(IntAndSet(l, r), BitAnd(l.value, r.value))
    <2>1. /\ b = 0 => BitAnd(a, b) = 0
          /\ b = -1 => BitAnd(a, b) = a
      BY BitsAssumption
    <2> QED
      BY <2>1 DEF IntAndSet
  <1>5. Yields(IntOrSet(l, r), BitOr(l.value, r.value))
    <2>1. /\ b = 0 => BitOr(a, b) = a
          /\ b = -1 => BitOr(a, b) = -1
      BY BitsAssumption
    <2> QED
      BY <2>1 DEF IntOrSet
  <1>6. Yields(IntXorSet(l, r), BitXor(l.value, r.value))
    <2>1. /\ b = 0 => BitXor(a, b) = a
      BY BitsAssumption
    <2> QED
      BY <2>1 DEF IntXorSet
  <1>7. Yields(IntLshSet(l, r), Shl(l.value, r.value))
    <2>1. /\ b = 0 => Shl(a, b) = a
      BY BitsAssumption
    <2> QED
      BY <2>1 DEF IntLshSet
  <1>8. Yields(IntRshSet(l, r), Shr(l.value, r.value))
    <2>1. /\ b = 0 => Shr(a, b) = a
      BY BitsAssumption
    <2> QED
      BY <2>1 DEF IntRshSet
  <1> QED
    BY <1>1, <1>2, <1>3, <1>4, <1>5, <1>6, <1>7, <1>8

(* A hook on two integers. *)
LEMMA ComputedRight ==
  ASSUME NEW hook \in ArithmeticHook, NEW l, NEW r, Fits(l), Fits(r),
         Defined(hook, l.value, r.value)
  PROVE  Yields(Computed(hook, l, r), Meaning2(hook, l.value, r.value))
  <1>1. CASE hook = "intAdd"
    BY <1>1, SumsRight DEF Computed, Meaning2
  <1>2. CASE hook = "intSub"
    BY <1>2, SumsRight DEF Computed, Meaning2
  <1>3. CASE hook = "intMul"
    BY <1>3, SumsRight DEF Computed, Meaning2
  <1>4. CASE hook = "intDiv"
    BY <1>4, QuotientsRight DEF Computed, Meaning2, Defined
  <1>5. CASE hook = "intMod"
    BY <1>5, QuotientsRight DEF Computed, Meaning2, Defined
  <1>6. CASE hook = "intAnd"
    BY <1>6, BitsRight DEF Computed, Meaning2
  <1>7. CASE hook = "intOr"
    BY <1>7, BitsRight DEF Computed, Meaning2
  <1>8. CASE hook = "intXor"
    BY <1>8, BitsRight DEF Computed, Meaning2
  <1>9. CASE hook = "intLsh"
    BY <1>9, ShiftsRight DEF Computed, Meaning2, Defined
  <1>10. CASE hook = "intRsh"
    BY <1>10, ShiftsRight DEF Computed, Meaning2, Defined
  <1>11. CASE hook = "and"
    BY <1>11, LogicRight DEF Computed, Meaning2
  <1>12. CASE hook = "or"
    BY <1>12, LogicRight DEF Computed, Meaning2
  <1>13. CASE hook = "intEq"
    BY <1>13, ComparisonsRight DEF Computed, Meaning2
  <1>14. CASE hook = "intNe"
    BY <1>14, ComparisonsRight DEF Computed, Meaning2
  <1>15. CASE hook = "intGe"
    BY <1>15, ComparisonsRight DEF Computed, Meaning2
  <1>16. CASE hook = "intGt"
    BY <1>16, ComparisonsRight DEF Computed, Meaning2
  <1>17. CASE hook = "intLe"
    BY <1>17, ComparisonsRight DEF Computed, Meaning2
  <1>18. CASE hook = "intLt"
    BY <1>18, ComparisonsRight DEF Computed, Meaning2
  <1> QED
    BY <1>1, <1>2, <1>3, <1>4, <1>5, <1>6, <1>7, <1>8, <1>9, <1>10, <1>11, <1>12, <1>13, <1>14, <1>15, <1>16, <1>17, <1>18 DEF ArithmeticHook

(* A hook on two characters. *)
LEMMA ComparedRight ==
  ASSUME NEW hook \in CharacterHook \ {"charGt"}, NEW l, NEW r, Fits(l), Fits(r)
  PROVE  Yields(Compared(hook, l, r), Meaning2(hook, l.value, r.value))
  <1>1. CASE hook = "charEq"
    BY <1>1, ComparisonsRight DEF Compared, Meaning2, CharEq
  <1>2. CASE hook = "charNe"
    BY <1>2, ComparisonsRight DEF Compared, Meaning2, CharNe
  <1>3. CASE hook = "charGe"
    BY <1>3, ComparisonsRight DEF Compared, Meaning2, CharGe
  <1>4. CASE hook = "charLe"
    BY <1>4, ComparisonsRight DEF Compared, Meaning2, CharLe
  <1>5. CASE hook = "charLt"
    BY <1>5, ComparisonsRight DEF Compared, Meaning2, CharLt
  <1> QED
    BY <1>1, <1>2, <1>3, <1>4, <1>5 DEF CharacterHook

(* An update of a variable. *)
LEMMA UpdatedRight ==
  ASSUME NEW hook \in UpdateHook \ {"intDivSet"}, NEW l, NEW r, Fits(l), Fits(r)
  PROVE  Yields(Updated(hook, l, r), Meaning2(hook, l.value, r.value))
  <1>1. CASE hook = "intAddSet"
    BY <1>1, UpdatesRight DEF Updated, Meaning2
  <1>2. CASE hook = "intSubSet"
    BY <1>2, UpdatesRight DEF Updated, Meaning2
  <1>3. CASE hook = "intMulSet"
    BY <1>3, UpdatesRight DEF Updated, Meaning2
  <1>4. CASE hook = "intAndSet"
    BY <1>4, UpdatesRight DEF Updated, Meaning2
  <1>5. CASE hook = "intOrSet"
    BY <1>5, UpdatesRight DEF Updated, Meaning2
  <1>6. CASE hook = "intXorSet"
    BY <1>6, UpdatesRight DEF Updated, Meaning2
  <1>7. CASE hook = "intLshSet"
    BY <1>7, UpdatesRight DEF Updated, Meaning2
  <1>8. CASE hook = "intRshSet"
    BY <1>8, UpdatesRight DEF Updated, Meaning2
  <1> QED
    BY <1>1, <1>2, <1>3, <1>4, <1>5, <1>6, <1>7, <1>8 DEF UpdateHook

(* A hook on one integer. *)
LEMMA ChangedRight ==
  ASSUME NEW hook \in UnaryHook, NEW o, Fits(o)
  PROVE  Yields(Changed(hook, o), Meaning1(hook, o.value)) /\ Meaning1(hook, o.value) \in Int
  <1>0. o.known \in BOOLEAN /\ o.type \in Type /\ o.value \in Int /\ "int0" \in Type
    BY DEF Fits, Type, IntType
  <1> USE <1>0, MadeTypes DEF Yields, Integer, Constant, Term, Test, Bool, Changed, Meaning1
  <1>1. CASE hook = "intNeg"
    BY <1>1 DEF IntNeg
  <1>2. CASE hook = "intNot"
    BY <1>2 DEF IntNot
  <1>3. CASE hook = "not"
    BY <1>3 DEF NotHook
  <1> QED
    BY <1>1, <1>2, <1>3 DEF UnaryHook

(* Casts. *)
LEMMA CastRight ==
  ASSUME NEW t \in Type, NEW o, Fits(o)
  PROVE  /\ Yields(IntCast(t, o), Wrap(t, o.value))
         /\ Yields(CharCast(t, o), Wrap(t, o.value))
         /\ Wrap(t, o.value) \in Int
  <1>0. o.known \in BOOLEAN /\ o.type \in Type /\ o.value \in Int /\ Within(o.type, o.value)
    BY DEF Fits
  <1>1. Wrap(t, o.value) \in Int /\ (o.type = t => Wrap(t, o.value) = o.value)
    BY <1>0, WrapFacts
  <1> QED
    BY <1>0, <1>1 DEF IntCast, CharCast, MakeIntegerCast, MakeCharacterCast, Retyped, Yields

(* What a hook means is an integer. *)
LEMMA MeaningTyped ==
  ASSUME NEW hook \in ArithmeticHook \cup CharacterHook \cup UpdateHook,
         NEW a \in Ints, NEW b \in Ints, Defined(hook, a, b)
  PROVE  Meaning2(hook, a, b) \in Int
  <1>0. Ints \subseteq Int
    BY LimitFacts DEF Ints, Type, IntType
  <1>1. /\ a + b \in Int /\ a - b \in Int /\ a * b \in Int
        /\ b # 0 => Quo(a, b) \in Int /\ Rem(a, b) \in Int
    BY <1>0, QuoFacts
  <1>2. /\ BitAnd(a, b) \in Int /\ BitOr(a, b) \in Int /\ BitXor(a, b) \in Int
        /\ b \in 0 .. Bits - 1 => Shl(a, b) \in Int /\ Shr(a, b) \in Int
    BY OperatorsAssumption
  <1>3. a \in Int /\ b \in Int
    BY <1>0
  <1>4. \A p : Bool(p) \in Int
    BY DEF Bool
  <1> QED
    BY <1>1, <1>2, <1>3, <1>4 DEF Meaning2, Defined, ArithmeticHook, CharacterHook, UpdateHook

-----------------------------------------------------------------------------
(* The invariant *)

AllIn == \A i \in 1 .. Len(stack) : stack[i].within

StackFits == /\ \/ stack = <<>>
                \/ stack = <<stack[1]>>
                \/ stack = <<stack[1], stack[2]>>
             /\ \A i \in 1 .. Len(stack) : stack[i].within => Fits(stack[i])

LEMMA ReplaceFits ==
  ASSUME NEW o, NEW n, NEW given, Replace(o, n, given), AllIn => n \in Int /\ Yields(o, n)
  PROVE  StackFits'
  <1>1. stack' = <<Result(o, n, Within(o.type, n) /\ AllIn)>>
    BY DEF Replace, AllIn
  <1>2. ASSUME Within(o.type, n) /\ AllIn
        PROVE  Fits(Result(o, n, Within(o.type, n) /\ AllIn))
    BY <1>2 DEF Fits, Result, Yields
  <1>3. Result(o, n, Within(o.type, n) /\ AllIn).within => Within(o.type, n) /\ AllIn
    BY DEF Result
  <1>4. stack'[1].within => Fits(stack'[1])
    BY <1>1, <1>2, <1>3
  <1>5. stack' = <<stack'[1]>> /\ 1 .. Len(stack') = {1}
    BY <1>1
  <1> QED
    BY <1>4, <1>5 DEF StackFits

(* What Push makes of a stack with room for an operand. *)
LEMMA Pushed ==
  ASSUME StackFits, Len(stack) < 2, NEW x
  PROVE  \/ stack = <<>> /\ Append(stack, x) = <<x>>
         \/ \E a : stack = <<a>> /\ Append(stack, x) = <<a, x>>
  <1>1. ASSUME NEW a
        PROVE  Append(<<a>>, x) = <<a, x>>
    <2> DEFINE t == Append(<<a>>, x)
    <2>1. <<a>> \in Seq({a, x}) /\ x \in {a, x} /\ Len(<<a>>) = 1
      OBVIOUS
    <2>2. /\ t \in Seq({a, x}) /\ Len(t) = 2
          /\ t[1] = <<a>>[1] /\ t[2] = x
      BY <2>1
    <2>3. <<a, x>> \in Seq({a, x}) /\ Len(<<a, x>>) = 2
      OBVIOUS
    <2>4. \A i \in 1 .. Len(t) : t[i] = <<a, x>>[i]
      BY <2>2
    <2> HIDE DEF t
    <2>5. t = <<a, x>>
      BY <2>2, <2>3, <2>4, SeqEqual
    <2> QED
      BY <2>5 DEF t
  <1>2. \A a, b : Len(<<a, b>>) = 2
    OBVIOUS
  <1>3. CASE stack = <<>>
    BY <1>3
  <1>4. CASE \E a : stack = <<a>>
    BY <1>1, <1>4
  <1>5. ~ \E a, b : stack = <<a, b>>
    BY <1>2
  <1> QED
    BY <1>3, <1>4, <1>5 DEF StackFits

LEMMA PushFits ==
  ASSUME StackFits, Len(stack) < 2,
         NEW o, NEW n \in Int, Yields(o, n), Push(o, n)
  PROVE  StackFits'
  <1> DEFINE x == Result(o, n, TRUE)
  <1>1. Fits(x) /\ stack' = Append(stack, x)
    BY DEF Push, Fits, Result, Yields
  <1> HIDE DEF x
  <1>2. CASE stack' = <<x>>
    <2>1. stack' = <<stack'[1]>> /\ 1 .. Len(stack') = {1} /\ stack'[1] = x
      BY <1>2
    <2> QED
      BY <1>1, <2>1 DEF StackFits
  <1>3. ASSUME NEW a, stack = <<a>>, stack' = <<a, x>>
        PROVE  StackFits'
    <2>1. /\ stack' = <<stack'[1], stack'[2]>> /\ 1 .. Len(stack') = {1, 2}
          /\ stack'[1] = a /\ stack'[2] = x
      BY <1>3
    <2>2. a.within => Fits(a)
      BY <1>3 DEF StackFits
    <2> QED
      BY <1>1, <2>1, <2>2 DEF StackFits
  <1> QED
    BY <1>1, <1>2, <1>3, Pushed

LEMMA BothFit ==
  ASSUME StackFits, AllIn, NEW types, Both(types)
  PROVE  /\ Fits(stack[1]) /\ Fits(stack[2])
         /\ stack[1].exact = stack[1].value /\ stack[2].exact = stack[2].value
         /\ stack[1].value \in Ints /\ stack[2].value \in Ints
  <1>1. Fits(stack[1]) /\ Fits(stack[2])
    BY DEF StackFits, AllIn, Both
  <1> QED
    BY <1>1, IntsFacts DEF Fits

(* Every step leaves operands that fit, if they are within their types. *)
LEMMA StepFits ==
  ASSUME RightHooks, StackFits, [Next]_vars
  PROVE  StackFits'
  <1>1. CASE Operands
    <2>0. Ints \subseteq Int
      BY LimitFacts DEF Ints, Type, IntType
    <2>1. PICK n \in Ints : \/ Push(Integer(n), n)
                            \/ Push(Constant(MakeCharacterType(n), n), n)
                            \/ \E t \in Type : Push(Term(t, n), n)
      BY <1>1 DEF Operands
    <2>2. n \in Int /\ Len(stack) < 2
      BY <1>1, <2>0 DEF Operands
    <2>3. /\ Yields(Integer(n), n)
          /\ Yields(Constant(MakeCharacterType(n), n), n)
          /\ \A t \in Type : Yields(Term(t, n), n)
      BY MadeTypes DEF Yields, Integer, Constant, Term
    <2> QED
      BY <2>1, <2>2, <2>3, PushFits
  <1>2. ASSUME NEW hook \in Hooks, Compute(hook)
        PROVE  StackFits'
    <2>1. hook \in ArithmeticHook /\ Both(IntType)
      BY <1>2 DEF Compute
    <2>2. Replace(Computed(hook, stack[1], stack[2]),
                  Meaning2(hook, stack[1].exact, stack[2].exact), Given(hook, stack[1], stack[2]))
      BY <1>2 DEF Compute
    <2>3. ASSUME AllIn
          PROVE  /\ Meaning2(hook, stack[1].exact, stack[2].exact) \in Int
                 /\ Yields(Computed(hook, stack[1], stack[2]),
                           Meaning2(hook, stack[1].exact, stack[2].exact))
      <3>1. Defined(hook, stack[1].value, stack[2].value)
        BY <1>2, <2>1, <2>3, BothFit DEF Compute
      <3>2. Yields(Computed(hook, stack[1], stack[2]),
                   Meaning2(hook, stack[1].value, stack[2].value))
        BY <2>1, <2>3, <3>1, BothFit, ComputedRight
      <3>3. Meaning2(hook, stack[1].value, stack[2].value) \in Int
        BY <2>1, <2>3, <3>1, BothFit, MeaningTyped
      <3> QED
        BY <2>1, <2>3, <3>2, <3>3, BothFit
    <2> QED
      BY <2>2, <2>3, ReplaceFits
  <1>3. ASSUME NEW hook \in Hooks, Compare(hook)
        PROVE  StackFits'
    <2>1. hook \in CharacterHook \ {"charGt"} /\ Both(CharType)
      BY <1>3 DEF Compare, RightHooks
    <2>2. Replace(Compared(hook, stack[1], stack[2]),
                  Meaning2(hook, stack[1].exact, stack[2].exact), Given(hook, stack[1], stack[2]))
      BY <1>3 DEF Compare
    <2>3. ASSUME AllIn
          PROVE  /\ Meaning2(hook, stack[1].exact, stack[2].exact) \in Int
                 /\ Yields(Compared(hook, stack[1], stack[2]),
                           Meaning2(hook, stack[1].exact, stack[2].exact))
      <3>1. Defined(hook, stack[1].value, stack[2].value)
        BY <1>3, <2>1, <2>3, BothFit DEF Defined, CharacterHook
      <3>2. Yields(Compared(hook, stack[1], stack[2]),
                   Meaning2(hook, stack[1].value, stack[2].value))
        BY <2>1, <2>3, <3>1, BothFit, ComparedRight
      <3>3. Meaning2(hook, stack[1].value, stack[2].value) \in Int
        BY <2>1, <2>3, <3>1, BothFit, MeaningTyped
      <3> QED
        BY <2>1, <2>3, <3>2, <3>3, BothFit
    <2> QED
      BY <2>2, <2>3, ReplaceFits
  <1>4. ASSUME NEW hook \in Hooks, Update(hook)
        PROVE  StackFits'
    <2>1. hook \in UpdateHook \ {"intDivSet"} /\ Both(IntType)
      BY <1>4 DEF Update, RightHooks
    <2>2. Replace(Updated(hook, stack[1], stack[2]),
                  Meaning2(hook, stack[1].exact, stack[2].exact), Given(hook, stack[1], stack[2]))
      BY <1>4 DEF Update
    <2>3. ASSUME AllIn
          PROVE  /\ Meaning2(hook, stack[1].exact, stack[2].exact) \in Int
                 /\ Yields(Updated(hook, stack[1], stack[2]),
                           Meaning2(hook, stack[1].exact, stack[2].exact))
      <3>1. Defined(hook, stack[1].value, stack[2].value)
        BY <1>4, <2>1, <2>3, BothFit DEF Update
      <3>2. Yields(Updated(hook, stack[1], stack[2]),
                   Meaning2(hook, stack[1].value, stack[2].value))
        BY <2>1, <2>3, <3>1, BothFit, UpdatedRight
      <3>3. Meaning2(hook, stack[1].value, stack[2].value) \in Int
        BY <2>1, <2>3, <3>1, BothFit, MeaningTyped
      <3> QED
        BY <2>1, <2>3, <3>2, <3>3, BothFit
    <2> QED
      BY <2>2, <2>3, ReplaceFits
  <1>5. ASSUME NEW hook \in Hooks, Change(hook)
        PROVE  StackFits'
    <2>1. PICK given : Replace(Changed(hook, stack[1]), Meaning1(hook, stack[1].exact), given)
      BY <1>5 DEF Change
    <2>2. ASSUME AllIn
          PROVE  /\ Meaning1(hook, stack[1].exact) \in Int
                 /\ Yields(Changed(hook, stack[1]), Meaning1(hook, stack[1].exact))
      <3>1. hook \in UnaryHook /\ Fits(stack[1])
        BY <1>5, <2>2 DEF Change, StackFits, AllIn
      <3>2. stack[1].exact = stack[1].value
        BY <3>1 DEF Fits
      <3> QED
        BY <3>1, <3>2, ChangedRight
    <2> QED
      BY <2>1, <2>2, ReplaceFits
  <1>6. CASE DivideByZero
    <2>1. Replace(Constant("int0", 0), 0, "int0")
      BY <1>6 DEF DivideByZero
    <2>2. Yields(Constant("int0", 0), 0)
      BY DEF Yields, Constant, Type, IntType
    <2> QED
      BY <2>1, <2>2, ReplaceFits
  <1>7. ASSUME NEW t \in Type, Cast(t)
        PROVE  StackFits'
    <2>1. \/ Replace(IntCast(t, stack[1]), Wrap(t, stack[1].exact), t)
          \/ Replace(CharCast(t, stack[1]), Wrap(t, stack[1].exact), t)
      BY <1>7 DEF Cast
    <2>2. ASSUME AllIn
          PROVE  /\ Wrap(t, stack[1].exact) \in Int
                 /\ Yields(IntCast(t, stack[1]), Wrap(t, stack[1].exact))
                 /\ Yields(CharCast(t, stack[1]), Wrap(t, stack[1].exact))
      <3>1. Fits(stack[1]) /\ stack[1].exact = stack[1].value
        BY <1>7, <2>2 DEF Cast, StackFits, AllIn, Fits
      <3> QED
        BY <3>1, CastRight
    <2> QED
      BY <2>1, <2>2, ReplaceFits
  <1>8. CASE UNCHANGED vars
    BY <1>8 DEF vars, StackFits
  <1> QED
    BY <1>1, <1>2, <1>3, <1>4, <1>5, <1>6, <1>7, <1>8 DEF Next

(* The operands always fit, if they are within their types. *)
LEMMA AlwaysFits ==
  ASSUME RightHooks
  PROVE  Spec => []StackFits
  <1>1. Init => StackFits
    BY DEF Init, StackFits
  <1>2. StackFits /\ [Next]_vars => StackFits'
    BY StepFits
  <1> QED
    BY <1>1, <1>2, PTL DEF Spec

(* The terms that TRANSFORM makes of hooks on integers and characters      *)
(* evaluate to what the hooks stand for, for types of any width and terms  *)
(* of any depth, as long as the types it gave have room for them (without  *)
(* CHAR GT and INT DIV SET, whose comments the code contradicts).          *)
THEOREM SimplifyFaithful ==
  ASSUME RightHooks
  PROVE  Spec => []Faithful
  <1>1. StackFits => Faithful
    BY DEF StackFits, Faithful, Fits
  <1> QED
    BY <1>1, AlwaysFits, PTL

-----------------------------------------------------------------------------
(* The types of results *)

(* The integers of a type: all that fit into a smaller one fit into it. *)
LEMMA IntegerFacts ==
  /\ \A n \in Int : Within("int2", n) => Within(MakeIntegerType(n), n)
  /\ \A t, u \in IntType : Supertype(t, u) \in IntType
  /\ \A t \in Type : Within(t, 0) /\ Within(t, -1) /\ Within(t, 1)
  /\ \A t \in Type, n \in Int : Within(t, n) => Within(t, -n - 1)
  /\ \A t \in Type, n \in Int : Within(t, n) => Within(t, -n) \/ n = Low[t]
  /\ IntType \subseteq Type /\ "int0" \in Type /\ "int2" \in Type
  <1>0. IntType \subseteq Type /\ "int0" \in Type /\ "int2" \in Type
    BY DEF Type, IntType
  <1>1. \A n \in Int : Within("int2", n) => Within(MakeIntegerType(n), n)
    BY DEF MakeIntegerType
  <1>2. \A t, u \in IntType : Supertype(t, u) \in IntType
    BY DEF IntType, Supertype
  <1>3. \A t \in Type : Low[t] \in Int /\ Low[t] <= -1 /\ High[t] >= 1 /\ High[t] = -Low[t] - 1
    BY LimitFacts, LimitsAssumption
  <1>4. \A t \in Type, n \in Int : Within(t, n) => Within(t, -n - 1)
    BY <1>3 DEF Within
  <1>5. \A t \in Type, n \in Int : Within(t, n) => Within(t, -n) \/ n = Low[t]
    BY <1>3 DEF Within
  <1> QED
    BY <1>0, <1>1, <1>2, <1>3, <1>4, <1>5 DEF Within

(* N is the negation of the least integer that R can be, and L is 0 or -1 of *)
(* a larger type.                                                            *)
Negates(l, r, n) ==
  /\ Is(l, 0) \/ Is(l, -1)
  /\ r.value = Low[r.type]
  /\ Supertype(l.type, r.type) # r.type
  /\ n = -r.value

(* A negation leaves its type only when it negates the least integer. *)
LEMMA NegationStays ==
  ASSUME NEW l, NEW r, Fits(l), Fits(r), Is(l, 0) \/ Is(l, -1),
         Within(Supertype(l.type, r.type), -r.value)
  PROVE  Within(r.type, -r.value) \/ Negates(l, r, -r.value)
  BY IntegerFacts DEF Fits, Negates

LEMMA SupertypeCommutes == \A t, u : Supertype(t, u) = Supertype(u, t)
  BY DEF Supertype

(* What a hook on two integers computes is within the type it is given. *)
LEMMA ComputedStays ==
  ASSUME NEW hook \in ArithmeticHook, NEW l, NEW r, Fits(l), Fits(r),
         Defined(hook, l.value, r.value), l.type \in IntType, r.type \in IntType,
         NEW n \in Int, n = Meaning2(hook, l.value, r.value), Within(Given(hook, l, r), n)
  PROVE  \/ Within(Computed(hook, l, r).type, n)
         \/ Negates(l, r, n) \/ Negates(r, l, n)
  <1> DEFINE o == Computed(hook, l, r)
             g == Supertype(l.type, r.type)
  <1>0. /\ l.known \in BOOLEAN /\ r.known \in BOOLEAN
        /\ l.value \in Int /\ r.value \in Int
        /\ l.type \in Type /\ r.type \in Type /\ g \in Type
        /\ Within(l.type, l.value) /\ Within(r.type, r.value)
    BY IntegerFacts DEF Fits
  <1>y. o.value = n
    BY ComputedRight DEF Yields
  <1>1. CASE hook \in {"intLsh", "intRsh"}
    <2>1. o.type = l.type
      BY <1>1 DEF Computed, IntLsh, IntRsh, Constant, Term
    <2>2. Given(hook, l, r) = l.type
      BY <1>1 DEF Given
    <2> QED
      BY <2>1, <2>2
  <1>2. CASE hook \in {"and", "or"}
    <2>1. o = l \/ o = r \/ (hook = "and" /\ o.type = r.type) \/ (hook = "or" /\ o.type = g)
      BY <1>2 DEF Computed, AndHook, OrHook, Term, Make
    <2>2. CASE o = l \/ o = r
      BY <2>2, <1>0, <1>y
    <2>3. CASE hook = "and" /\ o.type = r.type
      BY <2>3 DEF Given, UpdateHook
    <2>4. CASE hook = "or" /\ o.type = g
      <3>1. o = l \/ o = r \/ ~Fold(l, r)
        BY <2>4 DEF Computed, OrHook, Fold, Is
      <3>2. ~Fold(l, r) => Given(hook, l, r) = g
        BY <2>4 DEF Given, UpdateHook
      <3> QED
        BY <2>2, <2>4, <3>1, <3>2
    <2> QED
      BY <2>1, <2>2, <2>3, <2>4
  <1>3. CASE hook \notin {"intLsh", "intRsh", "and", "or"} /\ Fold(l, r)
    <2>1. Given(hook, l, r) = "int2"
      BY <1>3 DEF Given, UpdateHook, ArithmeticHook
    <2>2. CASE hook \in {"intEq", "intNe", "intGe", "intGt", "intLe", "intLt"}
      <3>1. o.type = "int0" /\ n \in {0, 1}
        BY <2>2, <1>3 DEF Computed, Meaning2, Bool, IntEq, IntNe, IntGe, IntGt, IntLe, IntLt,
                          Truth, Constant
      <3> QED
        BY <3>1, IntegerFacts
    <2>3. CASE hook \notin {"intEq", "intNe", "intGe", "intGt", "intLe", "intLt"}
      <3>1. \E m : o = Integer(m)
        BY <2>3, <1>3 DEF Computed, ArithmeticHook, IntAdd, IntSub, IntMul, IntDiv, IntMod,
                          IntAnd, IntOr, IntXor
      <3>2. o.type = MakeIntegerType(n)
        BY <3>1, <1>y DEF Integer, Constant
      <3> QED
        BY <3>2, <2>1, IntegerFacts
    <2> QED
      BY <2>2, <2>3
  <1>4. CASE hook \notin {"intLsh", "intRsh", "and", "or"} /\ ~Fold(l, r)
    <2>1. Given(hook, l, r) = g
      BY <1>4 DEF Given, UpdateHook, ArithmeticHook
    <2>2. CASE hook \in {"intEq", "intNe", "intGe", "intGt", "intLe", "intLt"}
      <3>1. o.type = "int0" /\ n \in {0, 1}
        BY <2>2, <1>4 DEF Computed, Meaning2, Bool, IntEq, IntNe, IntGe, IntGt, IntLe, IntLt,
                          Truth, Test, Constant, Term
      <3> QED
        BY <3>1, IntegerFacts
    <2>3. CASE hook \notin {"intEq", "intNe", "intGe", "intGt", "intLe", "intLt"}
      <3>1. \/ o.type = g
            \/ o = l \/ o = r
            \/ o = Constant("int0", 0) \/ o = Constant("int0", -1)
            \/ o = Term(r.type, -r.value) /\ (Is(l, 0) \/ Is(l, -1))
            \/ o = Term(l.type, -l.value) /\ Is(r, -1)
            \/ o = Term(r.type, -r.value - 1)
            \/ o = Term(l.type, -l.value - 1)
        <4>1. hook \in {"intAdd", "intSub", "intMul", "intDiv", "intMod", "intAnd", "intOr",
                        "intXor"}
          BY <2>3, <1>4 DEF ArithmeticHook
        <4>2. \A m : Make(l, r, m).type = g
          BY DEF Make, Term
        <4>3. CASE hook = "intAdd"
          <5>1. o = IntAdd(l, r)
            BY <4>3 DEF Computed
          <5> QED
            BY <4>2, <5>1, <1>4 DEF IntAdd
        <4>4. CASE hook = "intSub"
          <5>1. o = IntSub(l, r)
            BY <4>4 DEF Computed
          <5> QED
            BY <4>2, <5>1, <1>4 DEF IntSub
        <4>5. CASE hook = "intMul"
          <5>1. o = IntMul(l, r)
            BY <4>5 DEF Computed
          <5> QED
            BY <4>2, <5>1, <1>4 DEF IntMul
        <4>6. CASE hook = "intDiv"
          <5>1. o = IntDiv(l, r)
            BY <4>6 DEF Computed
          <5> QED
            BY <4>2, <5>1, <1>4 DEF IntDiv
        <4>7. CASE hook = "intMod"
          <5>1. o = IntMod(l, r)
            BY <4>7 DEF Computed
          <5> QED
            BY <4>2, <5>1, <1>4 DEF IntMod
        <4>8. CASE hook = "intAnd"
          <5>1. o = IntAnd(l, r)
            BY <4>8 DEF Computed
          <5> QED
            BY <4>2, <5>1, <1>4 DEF IntAnd
        <4>9. CASE hook = "intOr"
          <5>1. o = IntOr(l, r)
            BY <4>9 DEF Computed
          <5> QED
            BY <4>2, <5>1, <1>4 DEF IntOr
        <4>10. CASE hook = "intXor"
          <5>1. o = IntXor(l, r)
            BY <4>10 DEF Computed
          <5> QED
            BY <4>2, <5>1, <1>4 DEF IntXor
        <4> QED
          BY <4>1, <4>3, <4>4, <4>5, <4>6, <4>7, <4>8, <4>9, <4>10
      <3>2. CASE o.type = g
        BY <3>2, <2>1
      <3>3. CASE o = l \/ o = r
        BY <3>3, <1>0, <1>y
      <3>4. CASE o = Constant("int0", 0) \/ o = Constant("int0", -1)
        BY <3>4, <1>y, IntegerFacts DEF Constant
      <3>5. CASE o = Term(r.type, -r.value) /\ (Is(l, 0) \/ Is(l, -1))
        <4>1. o.type = r.type /\ n = -r.value
          BY <3>5, <1>y DEF Term
        <4> QED
          BY <4>1, <3>5, <2>1, NegationStays
      <3>6. CASE o = Term(l.type, -l.value) /\ Is(r, -1)
        <4>1. o.type = l.type /\ n = -l.value
          BY <3>6, <1>y DEF Term
        <4>2. Within(Supertype(r.type, l.type), -l.value)
          BY <4>1, <2>1, SupertypeCommutes
        <4> QED
          BY <4>1, <4>2, <3>6, NegationStays
      <3>7. CASE o = Term(r.type, -r.value - 1)
        BY <3>7, <1>0, <1>y, IntegerFacts DEF Term
      <3>8. CASE o = Term(l.type, -l.value - 1)
        BY <3>8, <1>0, <1>y, IntegerFacts DEF Term
      <3> QED
        BY <3>1, <3>2, <3>3, <3>4, <3>5, <3>6, <3>7, <3>8
    <2> QED
      BY <2>2, <2>3
  <1> QED
    BY <1>1, <1>2, <1>3, <1>4

(* So is what one on two characters computes, and the variable that another *)
(* updates.                                                                 *)
LEMMA ComparedStays ==
  ASSUME NEW hook \in CharacterHook \ {"charGt"}, NEW l, NEW r,
         NEW n, n = Meaning2(hook, l.value, r.value)
  PROVE  Within(Compared(hook, l, r).type, n)
  <1>1. n \in {0, 1}
    BY DEF Meaning2, CharacterHook, Bool
  <1>2. Compared(hook, l, r).type = "int0"
    BY DEF Compared, CharacterHook, CharEq, CharNe, CharGe, CharLe, CharLt, IntEq, IntNe,
           IntGe, IntLe, IntLt, Truth, Test, Constant, Term
  <1> QED
    BY <1>1, <1>2, IntegerFacts

LEMMA UpdatedStays ==
  ASSUME NEW hook \in UpdateHook, NEW l, NEW r
  PROVE  Updated(hook, l, r).type = Given(hook, l, r)
  <1>1. Given(hook, l, r) = l.type
    BY DEF Given
  <1> QED
    BY <1>1 DEF Updated, UpdateHook, IntAddSet, IntSubSet, IntMulSet, IntDivSet, IntAndSet,
                IntOrSet, IntXorSet, IntLshSet, IntRshSet, VarSet, Term

LEMMA ChangedStays ==
  ASSUME NEW hook \in UnaryHook, NEW o, Fits(o),
         Within(IF o.known THEN "int2" ELSE o.type, Meaning1(hook, o.value))
  PROVE  Within(Changed(hook, o).type, Meaning1(hook, o.value))
  <1>0. o.known \in BOOLEAN /\ o.value \in Int
    BY DEF Fits
  <1>1. CASE hook = "not"
    <2>1. Changed(hook, o).type = "int0" /\ Meaning1(hook, o.value) \in {0, 1}
      BY <1>1 DEF Changed, Meaning1, NotHook, Constant, Test, Term, Bool
    <2> QED
      BY <2>1, IntegerFacts
  <1>2. CASE hook # "not" /\ o.known
    <2>1. Changed(hook, o) = Integer(Meaning1(hook, o.value)) /\ Meaning1(hook, o.value) \in Int
      BY <1>0, <1>2 DEF Changed, Meaning1, UnaryHook, IntNeg, IntNot
    <2> QED
      BY <1>2, <2>1, IntegerFacts DEF Integer, Constant
  <1>3. CASE hook # "not" /\ ~o.known
    <2>1. Changed(hook, o).type = o.type
      BY <1>3 DEF Changed, UnaryHook, IntNeg, IntNot, Term
    <2> QED
      BY <1>3, <2>1
  <1> QED
    BY <1>1, <1>2, <1>3

LEMMA ReplaceStays ==
  ASSUME NEW o, NEW n, NEW given, Replace(o, n, given), AllIn, Within(o.type, n)
  PROVE  \A i \in 1 .. Len(stack') : stack'[i].within
  <1>1. /\ stack' = <<Result(o, n, Within(o.type, n) /\ AllIn)>>
        /\ Result(o, n, Within(o.type, n) /\ AllIn).within
    BY DEF Replace, Result, AllIn
  <1>2. 1 .. Len(stack') = {1} /\ stack'[1].within
    BY <1>1
  <1> QED
    BY <1>2

(* A step leaves operands within their types, or it negates the least integer. *)
LEMMA StepStays ==
  ASSUME RightHooks, StackFits, Next, AllIn
  PROVE  (\A i \in 1 .. Len(stack') : stack'[i].within) \/ NegatesLeast
  <1> DEFINE Stays == \A i \in 1 .. Len(stack') : stack'[i].within
  <1>1. CASE Operands
    <2>1. PICK o, n : Push(o, n)
      BY <1>1 DEF Operands
    <2> DEFINE x == Result(o, n, TRUE)
    <2>2. stack' = Append(stack, x) /\ x.within
      BY <2>1 DEF Push, Result
    <2> HIDE DEF x
    <2>3. CASE stack' = <<x>>
      BY <2>2, <2>3
    <2>4. ASSUME NEW a, stack = <<a>>, stack' = <<a, x>>
          PROVE  Stays
      <3>1. a.within
        BY <2>4 DEF AllIn
      <3> QED
        BY <2>2, <2>4, <3>1
    <2>5. Len(stack) < 2
      BY <1>1 DEF Operands
    <2> QED
      BY <2>2, <2>3, <2>4, <2>5, Pushed
  <1>2. ASSUME NEW hook \in Hooks, Compute(hook)
        PROVE  Stays \/ NegatesLeast
    <2> DEFINE l == stack[1]
               r == stack[2]
               o == Computed(hook, l, r)
               n == Meaning2(hook, l.value, r.value)
    <2>1. /\ hook \in ArithmeticHook /\ Both(IntType)
          /\ l.type \in IntType /\ r.type \in IntType /\ Len(stack) = 2
      BY <1>2 DEF Compute, Both
    <2>2. /\ Fits(l) /\ Fits(r) /\ l.exact = l.value /\ r.exact = r.value
          /\ l.value \in Ints /\ r.value \in Ints
      BY <2>1, BothFit
    <2>3. Defined(hook, l.value, r.value) /\ Replace(o, n, Given(hook, l, r))
      BY <1>2, <2>2 DEF Compute
    <2>4. n \in Int
      BY <2>1, <2>2, <2>3, MeaningTyped
    <2>5. Within(Given(hook, l, r), n) /\ stack'[1].exact = n
      BY <2>3 DEF Replace, Result
    <2>6. Within(o.type, n) \/ Negates(l, r, n) \/ Negates(r, l, n)
      BY <2>1, <2>2, <2>3, <2>4, <2>5, ComputedStays
    <2>7. Within(o.type, n) => Stays
      BY <2>3, ReplaceStays
    <2>8. Negates(l, r, n) \/ Negates(r, l, n) => NegatesLeast
      <3>1. 1 \in 1 .. Len(stack) /\ 2 \in 1 .. Len(stack)
        BY <2>1
      <3>2. stack'[1].exact = n /\ l.exact = l.value /\ r.exact = r.value
        BY <2>2, <2>5
      <3> HIDE DEF n
      <3> QED
        BY <3>1, <3>2 DEF Negates, NegatesLeast
    <2> QED
      BY <2>6, <2>7, <2>8
  <1>3. ASSUME NEW hook \in Hooks, Compare(hook)
        PROVE  Stays
    <2>1. hook \in CharacterHook \ {"charGt"} /\ Both(CharType)
      BY <1>3 DEF Compare, RightHooks
    <2>2. Replace(Compared(hook, stack[1], stack[2]),
                  Meaning2(hook, stack[1].value, stack[2].value), Given(hook, stack[1], stack[2]))
      BY <1>3, <2>1, BothFit DEF Compare
    <2> QED
      BY <2>1, <2>2, ComparedStays, ReplaceStays
  <1>4. ASSUME NEW hook \in Hooks, Update(hook)
        PROVE  Stays
    <2>1. hook \in UpdateHook
      BY <1>4 DEF Update
    <2>2. Replace(Updated(hook, stack[1], stack[2]),
                  Meaning2(hook, stack[1].exact, stack[2].exact), Given(hook, stack[1], stack[2]))
      BY <1>4 DEF Update
    <2>3. Within(Given(hook, stack[1], stack[2]), Meaning2(hook, stack[1].exact, stack[2].exact))
      BY <2>2 DEF Replace
    <2> QED
      BY <2>1, <2>2, <2>3, UpdatedStays, ReplaceStays
  <1>5. ASSUME NEW hook \in Hooks, Change(hook)
        PROVE  Stays
    <2> DEFINE given == IF stack[1].known THEN "int2" ELSE stack[1].type
    <2>1. hook \in UnaryHook /\ Fits(stack[1])
      BY <1>5 DEF Change, StackFits, AllIn
    <2>2. Replace(Changed(hook, stack[1]), Meaning1(hook, stack[1].value), given)
      BY <1>5, <2>1 DEF Change, Fits
    <2>3. Within(given, Meaning1(hook, stack[1].value))
      BY <2>2 DEF Replace
    <2> QED
      BY <2>1, <2>2, <2>3, ChangedStays, ReplaceStays
  <1>6. CASE DivideByZero
    <2>1. Replace(Constant("int0", 0), 0, "int0")
      BY <1>6 DEF DivideByZero
    <2>2. Within(Constant("int0", 0).type, 0)
      BY IntegerFacts DEF Constant
    <2> QED
      BY <2>1, <2>2, ReplaceStays
  <1>7. ASSUME NEW t \in Type, Cast(t)
        PROVE  Stays
    <2>1. \/ Replace(IntCast(t, stack[1]), Wrap(t, stack[1].exact), t)
          \/ Replace(CharCast(t, stack[1]), Wrap(t, stack[1].exact), t)
      BY <1>7 DEF Cast
    <2>2. IntCast(t, stack[1]).type = t /\ CharCast(t, stack[1]).type = t
      BY DEF IntCast, CharCast, MakeIntegerCast, MakeCharacterCast, Retyped
    <2>3. Within(t, Wrap(t, stack[1].exact))
      BY <2>1 DEF Replace
    <2> QED
      BY <2>1, <2>2, <2>3, ReplaceStays
  <1> QED
    BY <1>1, <1>2, <1>3, <1>4, <1>5, <1>6, <1>7 DEF Next

(* Whatever the widths of the types, a rule gives its result a type that has *)
(* room for what the type of the term of the source has room for, unless it  *)
(* negates the least integer of the smaller one of two types (without CHAR   *)
(* GT and INT DIV SET).                                                      *)
THEOREM SimplifyStays ==
  ASSUME RightHooks
  PROVE  Spec => StaysWithin
  <1> DEFINE Stays == AllIn => (\A i \in 1 .. Len(stack') : stack'[i].within) \/ NegatesLeast
  <1>1. StackFits /\ [Next]_vars => [Stays]_vars
    BY StepStays
  <1>2. Spec => [][Stays]_vars
    BY <1>1, AlwaysFits, PTL DEF Spec
  <1> QED
    BY <1>2 DEF StaysWithin, AllIn

-----------------------------------------------------------------------------
(* Constants *)

LEMMA FoldedKnown ==
  ASSUME NEW l, NEW r, l.known = TRUE, r.known = TRUE
  PROVE  /\ \A hook \in ArithmeticHook : Computed(hook, l, r).known = TRUE
         /\ \A hook \in CharacterHook : Compared(hook, l, r).known = TRUE
  <1> USE DEF Fold, Constant, Integer, Truth
  <1>1. /\ IntAdd(l, r).known = TRUE /\ IntSub(l, r).known = TRUE
        /\ IntMul(l, r).known = TRUE /\ IntDiv(l, r).known = TRUE
        /\ IntMod(l, r).known = TRUE
    BY DEF IntAdd, IntSub, IntMul, IntDiv, IntMod
  <1>2. /\ IntAnd(l, r).known = TRUE /\ IntOr(l, r).known = TRUE
        /\ IntXor(l, r).known = TRUE /\ IntLsh(l, r).known = TRUE
        /\ IntRsh(l, r).known = TRUE
    BY DEF IntAnd, IntOr, IntXor, IntLsh, IntRsh
  <1>3. AndHook(l, r).known = TRUE /\ OrHook(l, r).known = TRUE
    BY DEF AndHook, OrHook, Is
  <1>4. /\ IntEq(l, r).known = TRUE /\ IntNe(l, r).known = TRUE
        /\ IntGe(l, r).known = TRUE /\ IntGt(l, r).known = TRUE
        /\ IntLe(l, r).known = TRUE /\ IntLt(l, r).known = TRUE
    BY DEF IntEq, IntNe, IntGe, IntGt, IntLe, IntLt
  <1>5. ASSUME NEW hook \in ArithmeticHook
        PROVE  Computed(hook, l, r).known = TRUE
    BY <1>1, <1>2, <1>3, <1>4 DEF ArithmeticHook, Computed
  <1>6. ASSUME NEW hook \in CharacterHook
        PROVE  Compared(hook, l, r).known = TRUE
    BY <1>4 DEF CharacterHook, Compared, CharEq, CharNe, CharGe, CharGt, CharLe, CharLt
  <1> QED
    BY <1>5, <1>6

(* A hook on two constants yields a constant. *)
THEOREM SimplifyFolds == Spec => ConstantsFold
  <1> DEFINE Folds == Len(stack) = 2 /\ stack[1].known /\ stack[2].known => stack'[1].known
  <1>1. ASSUME Next, Len(stack) = 2, stack[1].known, stack[2].known
        PROVE  stack'[1].known
    <2>0. \A o, n, given : Replace(o, n, given) /\ o.known = TRUE => stack'[1].known
      BY DEF Replace, Result
    <2>1. CASE Operands
      BY <2>1, <1>1 DEF Operands
    <2>2. ASSUME NEW hook \in Hooks, Compute(hook)
          PROVE  stack'[1].known
      BY <2>0, <2>2, <1>1, FoldedKnown DEF Compute
    <2>3. ASSUME NEW hook \in Hooks, Compare(hook)
          PROVE  stack'[1].known
      BY <2>0, <2>3, <1>1, FoldedKnown DEF Compare
    <2>4. ASSUME NEW hook \in Hooks, Update(hook)
          PROVE  stack'[1].known
      BY <2>4, <1>1 DEF Update
    <2>5. ASSUME NEW hook \in Hooks, Change(hook)
          PROVE  stack'[1].known
      BY <2>5, <1>1 DEF Change
    <2>6. CASE DivideByZero
      BY <2>0, <2>6 DEF DivideByZero, Constant
    <2>7. ASSUME NEW t \in Type, Cast(t)
          PROVE  stack'[1].known
      BY <2>7, <1>1 DEF Cast
    <2> QED
      BY <1>1, <2>1, <2>2, <2>3, <2>4, <2>5, <2>6, <2>7 DEF Next
  <1>2. [Next]_vars => [Folds]_vars
    BY <1>1
  <1> QED
    BY <1>2, PTL DEF Spec, ConstantsFold
=============================================================================
