----------------------------- MODULE MCSimplify ------------------------------
(***************************************************************************)
(* Integers of two, three and four bits in place of eight, sixteen and     *)
(* thirty-two.  The operators of C work on two's complements.              *)
(***************************************************************************)
EXTENDS Simplify, Bitwise

MCLow  == [t \in Type |-> CASE t \in {"int0", "char0"} -> -2
                            [] t = "int1"             -> -4
                            [] t \in {"int2", "char1"} -> -8]
MCHigh == [t \in Type |-> -MCLow[t] - 1]

Unsigned(n) == n % 16
Signed(n)   == Wrap("int2", n)

MCBitAnd(a, b) == Signed(Unsigned(a) & Unsigned(b))
MCBitOr(a, b)  == Signed(Unsigned(a) | Unsigned(b))
MCBitXor(a, b) == Signed(Unsigned(a) ^^ Unsigned(b))
MCShl(a, n)    == a * 2^n
MCShr(a, n)    == a \div 2^n

AllHooks == ArithmeticHook \cup CharacterHook \cup UpdateHook \cup UnaryHook
              \cup {"intCast", "charCast"}

(* What is made of an operand that left its type is not looked at: FAITHFUL *)
(* claims nothing of it.                                                    *)
AllWithin == \A i \in 1 .. Len(stack) : stack[i].within

(* All but the two that do not do what their comments say. *)
MostHooks == AllHooks \ {"charGt", "intDivSet"}
=============================================================================
