---------------------------- MODULE SimpleDecimal ----------------------------
(***************************************************************************)
(* Generics::SimpleDecimal<Base, TOTAL, FRACTION>: a sign and an integer   *)
(* of at most TOTAL digits, the last FRACTION of them behind the point.    *)
(* Operators return the object after the call, with the flag overflow set  *)
(* when the call throws Overflow.  A text is a sign and the digits of both *)
(* parts of the number.                                                    *)
(***************************************************************************)
EXTENDS Integers, Sequences, SequencesExt, FiniteSetsExt

CONSTANTS TOTAL_RANK, FRACTION_RANK   \* their sum is less than 10, for TLC's integers

INTEGER_RANK == TOTAL_RANK - FRACTION_RANK

Pow10(power) == 10 ^ power

MAX_VALUE_ == Pow10(TOTAL_RANK)
MAX_FRACTION_ == Pow10(FRACTION_RANK)
MAX_INTEGER_ == Pow10(INTEGER_RANK)

Simple(negative, data) == [overflow |-> FALSE, negative |-> negative, data |-> data]
Overflow(number) == [number EXCEPT !.overflow = TRUE]

ConstructSimple(negative, integer, fraction) ==
    IF fraction >= MAX_FRACTION_ \/ integer >= MAX_INTEGER_ THEN Overflow(Simple(FALSE, 0))
    ELSE Simple(negative, integer * MAX_FRACTION_ + fraction)

(* integer / 10 ^ power, where the type of integer holds all numbers of    *)
(* digits10 digits.                                                        *)
SimpleRational(negative, integer, power, digits10) ==
    LET cut == IF power > FRACTION_RANK THEN integer \div Pow10(power - FRACTION_RANK) ELSE integer
        factor == IF power < FRACTION_RANK THEN Pow10(FRACTION_RANK - power) ELSE 1
    IN  IF power >= digits10 + FRACTION_RANK \/ integer = 0 THEN Simple(FALSE, 0)
        ELSE IF cut >= MAX_VALUE_ \div factor THEN Overflow(Simple(negative, 0))
        ELSE Simple(negative, cut * factor)

SimpleFloor(x, fraction) ==
    LET pow == Pow10(FRACTION_RANK - fraction)
    IN  IF fraction >= FRACTION_RANK THEN x ELSE [x EXCEPT !.data = (@ \div pow) * pow]

SimpleCeil(x, fraction) ==
    LET pow == Pow10(FRACTION_RANK - fraction)
        data == (x.data \div pow + 1) * pow
    IN  IF fraction >= FRACTION_RANK \/ x.data % pow = 0 THEN x
        ELSE IF data = MAX_VALUE_ THEN Overflow(x) ELSE [x EXCEPT !.data = data]

SimpleLess(x, y) ==
    IF x.negative
    THEN IF y.negative THEN x.data > y.data ELSE x.data # 0 \/ y.data # 0
    ELSE ~y.negative /\ x.data < y.data

SimpleEqual(x, y) ==
    IF x.negative = y.negative THEN x.data = y.data ELSE x.data = 0 /\ y.data = 0

SimpleAdd(x, y) ==
    IF x.negative = y.negative
    THEN IF MAX_VALUE_ - x.data <= y.data THEN Overflow(x) ELSE Simple(x.negative, x.data + y.data)
    ELSE IF x.data < y.data THEN Simple(y.negative, y.data - x.data)
                            ELSE Simple(x.negative, x.data - y.data)

SimpleSub(x, y) ==
    IF x.negative # y.negative
    THEN IF MAX_VALUE_ - x.data <= y.data THEN Overflow(x) ELSE Simple(x.negative, x.data + y.data)
    ELSE IF x.data < y.data THEN Simple(~y.negative, y.data - x.data)
                            ELSE Simple(x.negative, x.data - y.data)

(* A product that TLC cannot hold has a quotient over MAX_VALUE_, which    *)
(* the callers treat as the overflow that the processor tells.             *)
muldiv(factor1, factor2, divisor) ==
    IF factor2 # 0 /\ factor1 > 2147483647 \div factor2
    THEN [overflow |-> TRUE, quotient |-> 0, remainder |-> 0]
    ELSE [overflow |-> FALSE, quotient |-> (factor1 * factor2) \div divisor,
          remainder |-> (factor1 * factor2) % divisor]

SimpleMul(x, y, dmr) ==
    LET product == muldiv(x.data, y.data, MAX_FRACTION_)
        up == /\ dmr # "DMR_FLOOR" /\ FRACTION_RANK # 0
              /\ IF dmr = "DMR_ROUND" THEN product.remainder >= MAX_FRACTION_ \div 2
                                      ELSE product.remainder # 0
        data == product.quotient + (IF up THEN 1 ELSE 0)
    IN  IF product.overflow \/ product.quotient >= MAX_VALUE_ \/ data = MAX_VALUE_ THEN Overflow(x)
        ELSE Simple(x.negative # y.negative, data)

SimpleDiv(x, y, ddr) ==
    LET quotient == muldiv(x.data, MAX_FRACTION_, y.data)
        data == quotient.quotient + (IF ddr = "DDR_CEIL" /\ quotient.remainder # 0 THEN 1 ELSE 0)
    IN  IF y.data = 0 THEN Overflow(x)
        ELSE IF quotient.overflow \/ quotient.quotient >= MAX_VALUE_ \/ data = MAX_VALUE_
        THEN Overflow(x)
        ELSE Simple(x.negative # y.negative, data)

SimpleRemainder(x, y) ==
    LET quotient == SimpleDiv(x, y, "DDR_FLOOR")
    IN  IF quotient.overflow THEN quotient ELSE SimpleSub(x, SimpleMul(quotient, y, "DMR_FLOOR"))

(* The integer part in a type with this maximum, or what is thrown.        *)
SimpleInteger(x, max, signed) ==
    LET int_part == x.data \div MAX_FRACTION_
    IN  [throws |-> IF int_part > max THEN "Overflow"
                    ELSE IF x.negative /\ int_part # 0 /\ ~signed THEN "Sign" ELSE "no",
         value |-> IF x.negative THEN -int_part ELSE int_part]

-----------------------------------------------------------------------------
Digits(n, count) == [k \in 1 .. count |-> (n \div Pow10(count - k)) % 10]

RECURSIVE DropLeading(_)
DropLeading(digits) ==
    IF digits # <<>> /\ Head(digits) = 0 THEN DropLeading(Tail(digits)) ELSE digits

DropTrailing(digits) == Reverse(DropLeading(Reverse(digits)))

OrZero(digits) == IF digits = <<>> THEN <<0>> ELSE digits

decimal_to_char_(x) ==
    [negative |-> x.negative /\ x.data # 0,
     integer |-> OrZero(DropLeading(Digits(x.data \div MAX_FRACTION_, INTEGER_RANK))),
     fraction |-> IF FRACTION_RANK = 0 THEN <<>>
                  ELSE OrZero(DropTrailing(Digits(x.data % MAX_FRACTION_, FRACTION_RANK)))]

extract_decimal(text) ==
    LET Append10(n, digit) == n * 10 + digit
        Integer(s, digit) ==
            IF s.overflow \/ s.data >= MAX_INTEGER_ \div 10 THEN Overflow(s)
            ELSE [s EXCEPT !.data = Append10(@, digit)]
        number == FoldLeft(Integer, Simple(text.negative, 0), text.integer)
        left == FRACTION_RANK - Len(text.fraction)
        scale == IF text.fraction = <<>> THEN MAX_FRACTION_
                 ELSE IF FRACTION_RANK > 1 THEN Pow10(left) ELSE 1
    IN  IF number.overflow \/ left < 0 THEN Overflow(number)
        ELSE [number EXCEPT !.data = FoldLeft(Append10, @, text.fraction) * scale]
=============================================================================
