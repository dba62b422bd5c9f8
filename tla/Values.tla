------------------------------- MODULE Values -------------------------------
(***************************************************************************)
(* The values of hemp: numbers, integers, texts, identities and fragments  *)
(* in one word (include/hemp/value.h), and the conversions between them    *)
(* (library/type/number.c, integer.c, identity.c, text.c).                 *)
(*                                                                         *)
(* A word is <<tagged, id, load>>.  It is tagged when its upper twelve     *)
(* bits are set: the next five are the id then, and the rest is the load.  *)
(* Every other word is a double, whose load is <<p, q>> for the rational   *)
(* p/q or the name of a double that is not finite.  The double -inf has    *)
(* the upper twelve bits set too, and so has the NaN that has its sign set *)
(* and its first mantissa bit: these are the words <<TRUE, 0, 0>> and      *)
(* <<TRUE, 16, {}>>.  The sign of a zero is not modelled.                  *)
(***************************************************************************)
EXTENDS Integers, Sequences, FiniteSets

CONSTANT IntBits   \* HEMP_INTEGER_BITS

ASSUME ValuesAssumption == IntBits \in Nat \ {0}

-----------------------------------------------------------------------------
(* Doubles. *)

Abs(x) == IF x < 0 THEN -x ELSE x
Sign(x) == IF x < 0 THEN -1 ELSE 1

\* C divides towards zero.
Quotient(a, b) == Sign(a) * Sign(b) * (Abs(a) \div Abs(b))
Remainder(a, b) == a - b * Quotient(a, b)

Lowest(p, q) ==
  LET g == CHOOSE d \in 1..Abs(q) : /\ p % d = 0 /\ q % d = 0
                                    /\ \A e \in d + 1..Abs(q) : p % e # 0 \/ q % e # 0
  IN  <<Sign(q) * Quotient(p, g), Quotient(Abs(q), g)>>

Whole(n) == <<n, 1>>
Finite(r) == Len(r) = 2
PlusInf == <<"inf">>
MinusInf == <<"-inf">>
NaN == <<"nan">>       \* the sign is clear
MinusNaN == <<"-nan">> \* the sign is set
NotFinite == {PlusInf, MinusInf, NaN, MinusNaN}

Less(a, b) ==
  /\ a \notin {NaN, MinusNaN} /\ b \notin {NaN, MinusNaN}
  /\ \/ a = MinusInf /\ b # MinusInf
     \/ b = PlusInf /\ a # PlusInf
     \/ Finite(a) /\ Finite(b) /\ a[1] * b[2] < b[1] * a[2]

\* The outcomes of the operators of C.  With an operand that is not finite the
\* result is not finite either, or is one of those named.
PlusReals(a, b) ==
  IF Finite(a) /\ Finite(b) THEN {Lowest(a[1] * b[2] + b[1] * a[2], a[2] * b[2])} ELSE NotFinite
TimesReals(a, b) ==
  IF Finite(a) /\ Finite(b) THEN {Lowest(a[1] * b[1], a[2] * b[2])} ELSE NotFinite
OverReals(a, b) ==
  IF ~(Finite(a) /\ Finite(b)) THEN NotFinite \union {Whole(0)}
  ELSE IF b[1] # 0 THEN {Lowest(a[1] * b[2], a[2] * b[1])}
  ELSE IF a[1] = 0 THEN {NaN, MinusNaN} ELSE {PlusInf, MinusInf}
PowerReals(a, b) ==
  CASE Finite(a) /\ Finite(b) /\ b[2] = 1 /\ b[1] >= 0 -> {Lowest(a[1]^b[1], a[2]^b[1])}
    [] Finite(a) /\ Finite(b) /\ b[2] = 1 /\ a[1] # 0 -> {Lowest(a[2]^(-b[1]), a[1]^(-b[1]))}
    [] OTHER -> NotFinite \union {Whole(0), Whole(1)}
MinusReal(a) ==
  IF Finite(a) THEN <<-a[1], a[2]>>
  ELSE CASE a = PlusInf -> MinusInf [] a = MinusInf -> PlusInf
         [] a = NaN -> MinusNaN [] a = MinusNaN -> NaN

-----------------------------------------------------------------------------
(* Words. *)

NUMBER_ID == 0
INTEGER_ID == 1
TEXT_ID == 4
OBJECT_ID == 15
IDENTITY_ID == 16

MinInt == -(2^(IntBits - 1))
MaxInt == 2^(IntBits - 1) - 1
Wrap(n) == ((n - MinInt) % 2^IntBits) + MinInt

NumVal(r) ==
  CASE r = MinusInf -> <<TRUE, 0, 0>>
    [] r = MinusNaN -> <<TRUE, 16, {}>>
    [] OTHER -> <<FALSE, 0, r>>
IntVal(n) == <<TRUE, INTEGER_ID, Wrap(n)>>
TextVal(t) == <<TRUE, TEXT_ID, t>>
FragVal(f) == <<TRUE, OBJECT_ID, f>>
IdentVal(bits) == <<TRUE, IDENTITY_ID, bits>>

TypeId(v) == IF v[1] THEN v[2] ELSE NUMBER_ID
IsNumber(v) == ~v[1]
IsNumeric(v) == TypeId(v) <= INTEGER_ID
IsInteger(v) == TypeId(v) = INTEGER_ID
IsText(v) == TypeId(v) = TEXT_ID
IsObject(v) == TypeId(v) = OBJECT_ID

\* The number of a word whatever it is: the loads of other words than doubles are
\* the bits of a NaN, but for those of -inf.
ValNum(v) ==
  CASE ~v[1] -> v[3] [] v = <<TRUE, 0, 0>> -> MinusInf [] OTHER -> MinusNaN

\* The lower bits of a word.
ValInt(v) == IF IsInteger(v) THEN v[3] ELSE 0

\* HEMP_NUMOP_CAST_NUM.
CastNum(v) == IF IsNumber(v) THEN ValNum(v) ELSE Whole(ValInt(v))

-----------------------------------------------------------------------------
(* Identities are sets of bits: a NaN is the identity without any. *)

Missing == IdentVal({"finite"})
Nothing == IdentVal({"finite", "found"})
Empty == IdentVal({"finite", "found", "defined"})
False == IdentVal({"finite", "found", "defined", "valued"})
True == IdentVal({"finite", "found", "defined", "valued", "true"})
Before == IdentVal({"finite", "found", "defined", "valued", "true", "not after"})
After == IdentVal({"finite", "found", "defined", "valued", "true", "not before"})
Equal == IdentVal({"finite", "found", "defined", "valued", "not after", "not before"})
Identities == {Missing, Nothing, Empty, False, True, Before, After, Equal}

\* Every identity has the bit "finite", which is the lowest bit of HEMP_IDENTITY.
IdentBits(v) == IF TypeId(v) = IDENTITY_ID THEN v[3] ELSE {}
IdentNot(v, bit) == IdentBits(v) # {} /\ bit \notin IdentBits(v)
IsTrue(v) == "true" \in IdentBits(v)
IsBoolean(v) == "finite" \in IdentBits(v)
IsCompare(v) == {"not after", "not before"} \intersect IdentBits(v) # {}
IsUndefined(v) == IdentNot(v, "defined")
BoolVal(b) == IF b THEN True ELSE False

-----------------------------------------------------------------------------
(* Conversions by the type of the value: a set of outcomes, of which an    *)
(* error is one.                                                           *)

Value(v) == <<"value", v>>
Error == <<"error">>

\* A double that is no HempInt: what the machine makes of it.
TruncOf(r) ==
  IF Finite(r) /\ Quotient(r[1], r[2]) \in MinInt..MaxInt
  THEN {Quotient(r[1], r[2])} ELSE {MinInt, MaxInt, 0}

\* A text is a sequence of characters: digits, which are integers from 0 to 9, and
\* characters that are no digits.  "%g" prints a number that is whole as "%d" does;
\* another number is one character.
STRING_ID == 3
Char(c) == <<TRUE, STRING_ID, c>>
Minus == Char("-")
IsDigit(w) == IsInteger(w)

Digits(n) ==
  LET digit(k) == <<TRUE, INTEGER_ID, k>>
      of[k \in 0..n] == IF k < 10 THEN <<digit(k)>> ELSE Append(of[k \div 10], digit(k % 10))
  IN  of[n]
Printed(n) == IF n < 0 THEN <<Minus>> \o Digits(-n) ELSE Digits(n)

\* What strtod() makes of a text, all of which it must read.
TextNumber(t) ==
  LET negative == t # <<>> /\ t[1] = Minus
      from == IF negative THEN 2 ELSE 1
      upto[n \in from - 1..Len(t)] == IF n < from THEN 0 ELSE 10 * upto[n - 1] + t[n][3]
  IN  CASE Len(t) = 1 /\ IsNumber(t[1]) -> {Value(t[1])}
        [] Len(t) >= from /\ \A n \in from..Len(t) : IsDigit(t[n]) ->
             {Value(NumVal(Whole(IF negative THEN -upto[Len(t)] ELSE upto[Len(t)])))}
        [] OTHER -> {Error}

ToNumber(v) ==
  CASE TypeId(v) = NUMBER_ID -> {Value(v)}
    [] TypeId(v) = INTEGER_ID -> {Value(NumVal(Whole(ValInt(v))))}
    [] TypeId(v) = TEXT_ID -> TextNumber(v[3])
    [] OTHER -> {Error}

ToInteger(v) ==
  CASE TypeId(v) = NUMBER_ID -> {Value(IntVal(n)) : n \in TruncOf(ValNum(v))}
    [] TypeId(v) = INTEGER_ID -> {Value(v)}
    [] TypeId(v) = TEXT_ID ->
         UNION {IF o = Error THEN {Error} ELSE {Value(IntVal(n)) : n \in TruncOf(ValNum(o[2]))} :
                o \in TextNumber(v[3])}
    [] OTHER -> {Error}

ToBoolean(v) ==
  CASE TypeId(v) = NUMBER_ID -> {Value(BoolVal(ValNum(v) # Whole(0)))}
    [] TypeId(v) = INTEGER_ID -> {Value(BoolVal(ValInt(v) # 0))}
    [] TypeId(v) = TEXT_ID -> {Value(BoolVal(v[3] # <<>>))}
    [] OTHER -> IF IsBoolean(v) THEN {Value(v)} ELSE {Error}

ToCompare(v) ==
  LET sign(r) == IF Less(r, Whole(0)) THEN Before ELSE IF Less(Whole(0), r) THEN After ELSE Equal
  IN  CASE TypeId(v) = NUMBER_ID -> {Value(sign(ValNum(v)))}
        [] TypeId(v) = INTEGER_ID -> {Value(sign(Whole(ValInt(v))))}
        [] OTHER -> IF IsCompare(v) THEN {Value(v)} ELSE {Error}

ToText(v) ==
  CASE IsText(v) -> {Value(v)}
    [] IsInteger(v) -> {Value(TextVal(Printed(ValInt(v))))}
    [] IsNumber(v) /\ Finite(v[3]) /\ v[3][2] = 1 -> {Value(TextVal(Printed(v[3][1])))}
    [] v = Empty -> {Value(TextVal(<<>>))}
    [] IsUndefined(v) -> {Error}
    [] OTHER -> {Value(TextVal(<<v>>))}
=============================================================================
