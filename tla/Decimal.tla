------------------------------- MODULE Decimal -------------------------------
(***************************************************************************)
(* Generics::Decimal<Element, TOTAL, FRACTION>, a signed decimal number    *)
(* in an array of elements of DIGITS_PER_ELEMENT digits, the least         *)
(* significant first, and SimpleDecimal, the same number in one integer.   *)
(*                                                                         *)
(* A behaviour is a sequence of calls on one object of each class, with    *)
(* the same operands.  exact is the integer number * 10^FRACTION that they *)
(* should hold, by the arithmetic of integers.  A call that throws         *)
(* Overflow sets the flag overflow, and its object is not used any more.   *)
(***************************************************************************)
EXTENDS SimpleDecimal

CONSTANTS
    MAX_ELEMENT,            \* the largest value of Element
    DIGITS_PER_ELEMENT,     \* so many that the sum of two elements is an Element
    IntegerParts,           \* operands are constructed from these parts
    FractionParts,
    Numerators,             \* and numbers from these rationals
    MaxCalls

VARIABLES decimal, simple, exact, calls

decimalVars == <<decimal, simple, exact, calls>>

BASE == Pow10(DIGITS_PER_ELEMENT)
MAX_SUM == MAX_ELEMENT \div BASE

Pieces(digits) == (digits + DIGITS_PER_ELEMENT - 1) \div DIGITS_PER_ELEMENT
TopOver(digits) == Pow10(DIGITS_PER_ELEMENT - (Pieces(digits) * DIGITS_PER_ELEMENT - digits))

SIZE == Pieces(TOTAL_RANK)
INTEGER_MAX_OVER == TopOver(TOTAL_RANK)
FRACTION_END == FRACTION_RANK \div DIGITS_PER_ELEMENT
FRACTION_REMAINDER == Pow10(FRACTION_RANK % DIGITS_PER_ELEMENT)
FRACTION_OVER == Pow10(DIGITS_PER_ELEMENT - (FRACTION_RANK % DIGITS_PER_ELEMENT))

TMP_TOTAL_RANK == INTEGER_RANK + 2 * FRACTION_RANK
TMP_SIZE == Pieces(TMP_TOTAL_RANK)
TMP_INTEGER_MAX_OVER == TopOver(TMP_TOTAL_RANK)
DIV_TMP_SIZE == Pieces(TMP_TOTAL_RANK + DIGITS_PER_ELEMENT)

(* What an Element keeps of a number.                                      *)
Element(n) == n % (MAX_ELEMENT + 1)

Upward(first, last) == [k \in 1 .. last - first + 1 |-> first + k - 1]
Zeros(n) == [i \in 0 .. n - 1 |-> 0]
Number(negative, array) == [overflow |-> FALSE, negative |-> negative, array |-> array]

-----------------------------------------------------------------------------
(* Sums.                                                                   *)

MutInternalAdd(x, y) ==
    LET Add(sum, i) ==
            LET num == Element(x[i] + y[i] + sum.carry)
            IN  [array |-> [sum.array EXCEPT ![i] = IF num >= BASE THEN num - BASE ELSE num],
                 carry |-> IF num >= BASE THEN 1 ELSE 0]
        total == FoldLeft(Add, [array |-> Zeros(SIZE), carry |-> 0], Upward(0, SIZE - 1))
    IN  [array |-> total.array, overflow |-> total.carry # 0]

is_less_than_(x, y) ==
    LET differ == {i \in 0 .. SIZE - 1 : x[i] # y[i]}
        top == IF differ = {} THEN 0 ELSE Max(differ)
    IN  [less |-> x[top] < y[top], diff_index |-> top]

internal_add_(x, y) ==
    LET Add(sum, i) ==
            LET num == Element(x[i] + y[i] + sum.carry)
            IN  [array |-> [sum.array EXCEPT ![i] = IF num >= BASE THEN num - BASE ELSE num],
                 carry |-> IF num >= BASE THEN 1 ELSE 0]
        total == FoldLeft(Add, [array |-> Zeros(SIZE), carry |-> 0], Upward(0, SIZE - 1))
    IN  [array |-> total.array,
         overflow |-> total.carry # 0 \/ total.array[SIZE - 1] >= INTEGER_MAX_OVER]

internal_sub_(x, y, diff_index) ==
    LET Subtract(rest, i) ==
            LET real == Element(y[i] + rest.borrow)
            IN  [array |-> [rest.array EXCEPT ![i] =
                              IF x[i] < real THEN BASE - (real - x[i]) ELSE x[i] - real],
                 borrow |-> IF x[i] < real THEN 1 ELSE 0]
    IN  FoldLeft(Subtract, [array |-> Zeros(SIZE), borrow |-> 0], Upward(0, diff_index)).array

SumOf(negative, x, y) ==
    LET sum == internal_add_(x, y)
    IN  [overflow |-> sum.overflow, negative |-> negative, array |-> sum.array]

DifferenceOf(x, y, ifLess, otherwise) ==
    LET order == is_less_than_(x, y)
    IN  IF order.less THEN Number(ifLess, internal_sub_(y, x, order.diff_index))
                      ELSE Number(otherwise, internal_sub_(x, y, order.diff_index))

(* An overflow comes after the sum has been stored in the target.          *)
add(x, y) ==
    IF x.negative = y.negative THEN SumOf(x.negative, x.array, y.array)
    ELSE DifferenceOf(x.array, y.array, y.negative, x.negative)

sub(x, y) ==
    IF x.negative = y.negative THEN DifferenceOf(x.array, y.array, ~y.negative, x.negative)
    ELSE SumOf(x.negative, x.array, y.array)

-----------------------------------------------------------------------------
(* Products: an array of TMP_SIZE elements collects them.                  *)

RECURSIVE Carried(_, _, _)
Carried(tmp, i, overflow) ==
    IF i = TMP_SIZE
    THEN [tmp |-> tmp, exceeds |-> overflow # 0 \/ tmp[TMP_SIZE - 1] >= TMP_INTEGER_MAX_OVER]
    ELSE LET sum == Element(tmp[i] + overflow)
         IN  IF sum < BASE
             THEN [tmp |-> [tmp EXCEPT ![i] = sum],
                   exceeds |-> i = TMP_SIZE - 1 /\ sum >= TMP_INTEGER_MAX_OVER]
             ELSE Carried([tmp EXCEPT ![i] = sum - BASE], i + 1, 1)

MutTmpAdd(tmp, value, index) ==
    IF index >= TMP_SIZE THEN [tmp |-> tmp, exceeds |-> TRUE]
    ELSE LET sum == Element(tmp[index] + value)
         IN  Carried([tmp EXCEPT ![index] = sum % BASE], index + 1, sum \div BASE)

(* The value, of up to two elements' worth, may not fit the Element        *)
(* together with what is there: it is then reduced first.                  *)
TmpAdd(tmp, value, index) ==
    IF index >= TMP_SIZE THEN [tmp |-> tmp, exceeds |-> TRUE]
    ELSE LET fits == MAX_SUM > 2 \/ MAX_ELEMENT - value >= tmp[index]
             sum == Element(tmp[index] + (IF fits THEN value ELSE value % BASE))
             reduced == IF fits THEN 0 ELSE value \div BASE
         IN  Carried([tmp EXCEPT ![index] = sum % BASE], index + 1, reduced + (sum \div BASE))

(* One element of the second factor times the first, until it exceeds.     *)
MulRow(state, x, element, i) ==
    LET Accumulate(s, j) ==
            IF s.exceeds \/ (x[j] = 0 /\ s.over = 0) THEN s
            ELSE TmpAdd(s.tmp, ((x[j] * element) % BASE) + s.over, i + j)
                 @@ [over |-> (x[j] * element) \div BASE]
        Close(row) ==
            IF row.exceeds \/ row.over = 0 THEN [tmp |-> row.tmp, exceeds |-> row.exceeds]
            ELSE TmpAdd(row.tmp, row.over, i + SIZE)
    IN  Close(FoldLeft(Accumulate, state @@ [over |-> 0], Upward(0, SIZE - 1)))

Products(x, y) ==
    LET Row(state, i) == IF state.exceeds \/ y[i] = 0 THEN state ELSE MulRow(state, x, y[i], i)
    IN  FoldLeft(Row, [tmp |-> Zeros(TMP_SIZE), exceeds |-> FALSE], Upward(0, SIZE - 1))

(* The one element by which round() and ceil() judge the digits that are   *)
(* dropped: it has all of them when FRACTION_RANK <= DIGITS_PER_ELEMENT.   *)
RoundsUp(tmp, dmr) ==
    LET aligned == FRACTION_REMAINDER = 1
        dropped == IF aligned THEN tmp[FRACTION_END - 1] ELSE tmp[FRACTION_END] % FRACTION_REMAINDER
        half == (IF aligned THEN BASE ELSE FRACTION_REMAINDER) \div 2
    IN  \/ dmr = "DMR_ROUND" /\ dropped >= half
        \/ dmr = "DMR_CEIL" /\ dropped # 0

export_to(tmp) ==
    [i \in 0 .. SIZE - 1 |->
        LET index == FRACTION_END + i
        IN  IF FRACTION_REMAINDER = 1 THEN tmp[index]
            ELSE (tmp[index] \div FRACTION_REMAINDER)
                 + (IF index + 1 = TMP_SIZE THEN 0
                    ELSE (tmp[index + 1] % FRACTION_REMAINDER) * FRACTION_OVER)]

mul(x, y, dmr) ==
    LET Round(product) ==
            IF product.exceeds \/ FRACTION_RANK = 0 \/ ~RoundsUp(product.tmp, dmr) THEN product
            ELSE TmpAdd(product.tmp, FRACTION_REMAINDER, FRACTION_END)
        Result(rounded) ==
            IF rounded.exceeds THEN Overflow(x)
            ELSE Number(x.negative # y.negative, export_to(rounded.tmp))
    IN  Result(Round(Products(x.array, y.array)))

-----------------------------------------------------------------------------
(* Quotients, by the long division of the books: the dividend, shifted by  *)
(* FRACTION_RANK digits, loses the divisor times a guess for every element *)
(* of the quotient.                                                        *)

shrink(tmp) == Max({0} \cup {i \in DOMAIN tmp : tmp[i] # 0}) + 1

DivTmpDividend(x) ==
    [i \in 0 .. DIV_TMP_SIZE - 1 |->
        LET At(j) == IF j \in 0 .. SIZE - 1 THEN x[j] ELSE 0
        IN  IF FRACTION_REMAINDER = 1 THEN At(i - FRACTION_END)
            ELSE (At(i - FRACTION_END) % FRACTION_OVER) * FRACTION_REMAINDER
                 + (At(i - FRACTION_END - 1) \div FRACTION_OVER)]

(* The divisor has room for one element more.                              *)
DivTmpDivisor(y) == [i \in 0 .. SIZE |-> IF i = SIZE THEN 0 ELSE y[i]]

(* Multiplication of the first size elements by one element.               *)
TmpMul(tmp, size, multiplicator) ==
    LET Step(s, i) ==
            LET product == s.tmp[i] * multiplicator + s.over
            IN  [tmp |-> [s.tmp EXCEPT ![i] = product % BASE], over |-> product \div BASE]
        Close(s) == IF s.over = 0 THEN s.tmp ELSE [s.tmp EXCEPT ![size] = s.over]
    IN  Close(FoldLeft(Step, [tmp |-> tmp, over |-> 0], Upward(0, size - 1)))

(* Division by one element.                                                *)
TmpDiv(tmp, size, divisor) ==
    LET Step(s, i) ==
            LET part == s.r * BASE + s.tmp[i]
            IN  [tmp |-> [s.tmp EXCEPT ![i] = part \div divisor], r |-> part % divisor]
    IN  FoldLeft(Step, [tmp |-> tmp, r |-> 0], Reverse(Upward(0, size - 1))).tmp

RECURSIVE Refined(_, _, _, _, _, _)
Refined(guess, high, r, max_div, pre_max_div, third) ==
    LET product == pre_max_div * guess
        major == Element((product \div BASE) + high * pre_max_div)
        accepted == /\ major < r \/ (major = r /\ product % BASE <= third)
                    /\ high # 1 \/ guess # 0
    IN  IF r >= BASE \/ accepted THEN guess
        ELSE IF guess = 0 THEN Refined(BASE - 1, high - 1, Element(r + max_div), max_div, pre_max_div, third)
        ELSE Refined(guess - 1, high, Element(r + max_div), max_div, pre_max_div, third)

guess_next_quotient(tmp, index, max_div, pre_max_div) ==
    LET high == IF tmp[index] >= max_div THEN 1 ELSE 0
        part == (tmp[index] - high * max_div) * BASE + tmp[index - 1]
    IN  Refined(Element(part \div max_div), high, part % max_div, max_div, pre_max_div, tmp[index - 2])

apply_next_quotient(tmp, index, guess, divisor, size) ==
    LET Less(s, at, temp) ==
            [tmp |-> [s.tmp EXCEPT ![at] = Element(@ - temp + (IF @ < temp THEN BASE ELSE 0))],
             borrow |-> IF s.tmp[at] < temp THEN 1 ELSE 0]
        Step(s, i) ==
            LET product == divisor[i] * guess + s.carry
            IN  Less(s, index + i, (product % BASE) + s.borrow) @@ [carry |-> product \div BASE]
        Close(s) == Less(s, index + size, s.carry + s.borrow)
    IN  Close(FoldLeft(Step, [tmp |-> tmp, borrow |-> 0, carry |-> 0], Upward(0, size - 1)))

MutFix(tmp, index, divisor, size) == tmp

(* The guess was one too many: the divisor is given back.                  *)
fix_next_quotient(tmp, index, divisor, size) ==
    LET Step(s, i) ==
            LET temp == Element(s.tmp[index + i] + divisor[i] + s.carry)
            IN  [tmp |-> [s.tmp EXCEPT ![index + i] = IF temp >= BASE THEN temp - BASE ELSE temp],
                 carry |-> IF temp >= BASE THEN 1 ELSE 0]
        Close(s) == [s.tmp EXCEPT ![index + size] = Element(@ - (BASE - s.carry))]
    IN  Close(FoldLeft(Step, [tmp |-> tmp, carry |-> 0], Upward(0, size - 1)))

(* The elements of the quotient from the highest, until one is too many.   *)
LongDivision(dividend, divisor, digits, size) ==
    LET Store(s, i, guess, tmp) ==
            [tmp |-> tmp,
             overflow |-> (i = SIZE /\ guess # 0) \/ (i = SIZE - 1 /\ guess >= INTEGER_MAX_OVER),
             array |-> IF i = SIZE THEN s.array ELSE [s.array EXCEPT ![i] = guess]]
        Correct(s, i, guess, applied) ==
            IF applied.borrow = 0 THEN Store(s, i, guess, applied.tmp)
            ELSE Store(s, i, guess - 1, fix_next_quotient(applied.tmp, i, divisor, size))
        Apply(s, i, guess) ==
            Correct(s, i, guess, apply_next_quotient(s.tmp, i, guess, divisor, size))
        Step(s, i) ==
            IF s.overflow THEN s
            ELSE Apply(s, i, guess_next_quotient(s.tmp, i + size, divisor[size - 1], divisor[size - 2]))
    IN  FoldLeft(Step, [tmp |-> dividend, overflow |-> digits > SIZE, array |-> Zeros(SIZE)],
                 Reverse(Upward(0, digits)))

QuickQuotient(quotient) ==
    [overflow |-> \/ quotient[SIZE - 1] >= INTEGER_MAX_OVER
                  \/ \E i \in SIZE .. DIV_TMP_SIZE - 1 : quotient[i] # 0,
     array |-> [i \in 0 .. SIZE - 1 |-> quotient[i]]]

(* n and m are the numbers of elements in use.                             *)
Quotient(dividend, n, divisor, m) ==
    LET scale == BASE \div (divisor[m - 1] + 1)
    IN  IF divisor[m - 1] = 0 THEN [overflow |-> TRUE, array |-> Zeros(SIZE)]
        ELSE IF n < m THEN [overflow |-> FALSE, array |-> Zeros(SIZE)]
        ELSE IF m = 1 THEN QuickQuotient(TmpDiv(dividend, n, divisor[0]))
        ELSE LongDivision(TmpMul(dividend, n, scale), TmpMul(divisor, m, scale), n - m, m)

(* With FALSE for small the remainder is not the dividend.                 *)
div_(x, y) ==
    LET Result(quotient, small) ==
            IF quotient.overflow THEN Overflow(x) @@ [small |-> FALSE]
            ELSE Number(x.negative # y.negative, quotient.array) @@ [small |-> small]
        Divide(dividend, n, divisor, m) == Result(Quotient(dividend, n, divisor, m), n < m)
        Shrink(dividend, divisor) == Divide(dividend, shrink(dividend), divisor, shrink(divisor))
    IN  Shrink(DivTmpDividend(x.array), DivTmpDivisor(y.array))

Plain(number) == Number(number.negative, number.array)

(* operator != of numbers.                                                 *)
Equal(x, y) == /\ x.negative = y.negative => x.array = y.array
               /\ x.negative # y.negative => x.array = Zeros(SIZE) /\ y.array = Zeros(SIZE)

div_remainder(x, y) ==
    LET Rest(quotient) ==
            IF quotient.overflow THEN Overflow(x)
            ELSE IF quotient.small THEN x
            ELSE sub(x, mul(Plain(quotient), y, "DMR_FLOOR"))
    IN  Rest(div_(x, y))

EPSILON == [i \in 0 .. SIZE - 1 |-> IF i = 0 THEN 1 ELSE 0]

div(x, y, ddr) ==
    LET Result(up) == IF up.overflow THEN Overflow(x) ELSE up
        Round(quotient) ==
            IF quotient.overflow THEN Overflow(x)
            ELSE IF ddr = "DDR_FLOOR" \/ Equal(x, mul(Plain(quotient), y, "DMR_FLOOR"))
            THEN Plain(quotient)
            ELSE Result(SumOf(quotient.negative, quotient.array, EPSILON))
    IN  Round(div_(x, y))
-----------------------------------------------------------------------------
(* Construction and conversion.                                            *)

(* Elements of an integer from the one at start on: only the last one of   *)
(* the array is compared with what it may hold.                            *)
Spread(negative, array, start, integer) ==
    [overflow |-> IF start >= SIZE THEN integer # 0
                  ELSE integer \div (BASE ^ (SIZE - 1 - start) * INTEGER_MAX_OVER) # 0,
     negative |-> negative,
     array |-> [i \in 0 .. SIZE - 1 |->
                  IF i < start THEN array[i]
                  ELSE (integer \div BASE ^ (i - start))
                       % (IF i = SIZE - 1 THEN INTEGER_MAX_OVER ELSE BASE)]]

construct_(negative, integer, fraction) ==
    LET rest == fraction \div BASE ^ FRACTION_END
        low == [i \in 0 .. FRACTION_END |->
                  IF i < FRACTION_END THEN (fraction \div BASE ^ i) % BASE
                  ELSE Element(rest + (integer % FRACTION_OVER) * FRACTION_REMAINDER)]
    IN  IF rest >= FRACTION_REMAINDER THEN Overflow(Number(FALSE, Zeros(SIZE)))
        ELSE Spread(negative, low, FRACTION_END + 1,
                    IF INTEGER_RANK # 0 THEN integer \div FRACTION_OVER ELSE integer)

construct_rational(negative, integer, power, digits10) ==
    LET cut == IF power > FRACTION_RANK THEN integer \div Pow10(power - FRACTION_RANK) ELSE integer
        diff == IF power > FRACTION_RANK THEN 0 ELSE FRACTION_RANK - power
        i == diff \div DIGITS_PER_ELEMENT
        mask == Pow10(DIGITS_PER_ELEMENT - (diff % DIGITS_PER_ELEMENT))
    IN  IF power >= digits10 + FRACTION_RANK \/ integer = 0 THEN Number(FALSE, Zeros(SIZE))
        ELSE IF mask = BASE THEN Spread(negative, Zeros(SIZE), i, cut)
        ELSE Spread(negative, [Zeros(SIZE) EXCEPT ![i] = (cut % mask) * (BASE \div mask)],
                    i + 1, cut \div mask)

floor(x, fraction) ==
    LET digits == FRACTION_RANK - fraction
        index == digits \div DIGITS_PER_ELEMENT
        pow == Pow10(digits % DIGITS_PER_ELEMENT)
    IN  IF fraction >= FRACTION_RANK THEN x
        ELSE [x EXCEPT !.array = [i \in 0 .. SIZE - 1 |->
                 IF i < index THEN 0 ELSE IF i = index THEN (@[i] \div pow) * pow ELSE @[i]]]

(* A carry goes up through elements of nines.                              *)
ceil(x, fraction) ==
    LET digits == FRACTION_RANK - fraction
        index == digits \div DIGITS_PER_ELEMENT
        pow == Pow10(digits % DIGITS_PER_ELEMENT)
        dropped == \E i \in 0 .. index - 1 : x.array[i] # 0
        res == (x.array[index] \div pow + 1) * pow
        up == IF res < BASE THEN {index}
              ELSE {i \in index + 1 .. SIZE - 1 :
                      /\ x.array[i] < BASE - 1
                      /\ \A j \in index + 1 .. i - 1 : x.array[j] >= BASE - 1}
        last == IF up = {} THEN SIZE - 1 ELSE Max(up)
        array == [i \in 0 .. SIZE - 1 |->
                    CASE i < index -> 0
                      [] i = index -> IF res < BASE THEN res ELSE 0
                      [] i > last -> x.array[i]
                      [] OTHER -> IF i \in up THEN x.array[i] + 1 ELSE 0]
    IN  IF fraction >= FRACTION_RANK \/ (~dropped /\ x.array[index] % pow = 0) THEN x
        ELSE [overflow |-> up = {} \/ array[SIZE - 1] >= INTEGER_MAX_OVER,
              negative |-> x.negative, array |-> array]

MutLess(x, y) ==
    IF x.negative
    THEN y.negative => is_less_than_(y.array, x.array).less
    ELSE ~y.negative /\ is_less_than_(x.array, y.array).less

Less(x, y) ==
    IF x.negative
    THEN IF y.negative THEN is_less_than_(y.array, x.array).less
                       ELSE x.array # Zeros(SIZE) \/ y.array # Zeros(SIZE)
    ELSE ~y.negative /\ is_less_than_(x.array, y.array).less

(* The test before every step keeps the next number in the type.           *)
integer(x, max, signed) ==
    LET Join(n, element, factor) ==
            IF n.throws = "no" /\ max >= element /\ n.value <= (max - element) \div factor
            THEN [n EXCEPT !.value = @ * factor + element]
            ELSE [n EXCEPT !.throws = "Overflow"]
        Whole(n, i) == Join(n, x.array[i], BASE)
        high == FoldLeft(Whole, [throws |-> "no", value |-> 0],
                         Reverse(Upward(FRACTION_END + 1, SIZE - 1)))
        all == Join(high, x.array[FRACTION_END] \div FRACTION_REMAINDER, FRACTION_OVER)
    IN  IF INTEGER_RANK = 0 THEN [throws |-> "no", value |-> 0]
        ELSE IF all.throws = "no" /\ x.negative /\ all.value # 0 /\ ~signed
        THEN [all EXCEPT !.throws = "Sign"]
        ELSE [all EXCEPT !.value = IF x.negative THEN -@ ELSE @]

Num(x) == [k \in 1 .. TOTAL_RANK |->
             LET place == TOTAL_RANK - k
             IN  (x.array[place \div DIGITS_PER_ELEMENT] \div Pow10(place % DIGITS_PER_ELEMENT)) % 10]

str(x) ==
    [negative |-> x.negative /\ x.array # Zeros(SIZE),
     integer |-> OrZero(DropLeading(SubSeq(Num(x), 1, INTEGER_RANK))),
     fraction |-> IF FRACTION_RANK = 0 THEN <<>>
                  ELSE OrZero(DropTrailing(SubSeq(Num(x), INTEGER_RANK + 1, TOTAL_RANK)))]

construct_str(text) ==
    LET whole == DropLeading(text.integer)
        part == DropTrailing(text.fraction)
        num == [k \in 1 .. INTEGER_RANK - Len(whole) |-> 0] \o whole \o part
               \o [k \in 1 .. FRACTION_RANK - Len(part) |-> 0]
        assemble_decimal(i) ==
            LET end == TOTAL_RANK - i * DIGITS_PER_ELEMENT
                begin == Max({0, end - DIGITS_PER_ELEMENT})
                Digit(n, d) == n * 10 + d
            IN  FoldLeft(Digit, 0, SubSeq(num, begin + 1, end))
    IN  IF Len(whole) > INTEGER_RANK \/ Len(part) > FRACTION_RANK
        THEN Overflow(Number(text.negative, Zeros(SIZE)))
        ELSE Number(text.negative, [i \in 0 .. SIZE - 1 |-> assemble_decimal(i)])

-----------------------------------------------------------------------------
(* The integers that the numbers stand for.                                *)

Value(x) ==
    LET magnitude == FoldLeft(LAMBDA sum, i : sum + x.array[i] * BASE ^ i, 0, Upward(0, SIZE - 1))
    IN  IF x.negative THEN -magnitude ELSE magnitude

SimpleValue(x) == IF x.negative THEN -x.data ELSE x.data

Abs(n) == IF n < 0 THEN -n ELSE n
WithSign(negative, n) == IF negative THEN -n ELSE n

Exactly(n) == [overflow |-> Abs(n) >= MAX_VALUE_, value |-> n]
TooBig == [overflow |-> TRUE, value |-> 0]

Rounded(n, d, mode) ==
    CASE mode \in {"DMR_CEIL", "DDR_CEIL"} -> (n + d - 1) \div d
      [] mode = "DMR_ROUND" -> (n + d \div 2) \div d
      [] OTHER -> n \div d

ExactProduct(v, w, dmr) ==
    IF w # 0 /\ Abs(v) > 2000000000 \div Abs(w) THEN TooBig
    ELSE Exactly(WithSign((v < 0) # (w < 0), Rounded(Abs(v) * Abs(w), MAX_FRACTION_, dmr)))

ExactQuotient(v, w, ddr) ==
    IF w = 0 THEN TooBig
    ELSE Exactly(WithSign((v < 0) # (w < 0), Rounded(Abs(v) * MAX_FRACTION_, Abs(w), ddr)))

ExactRemainder(v, w) ==
    LET quotient == ExactQuotient(v, w, "DDR_FLOOR")
    IN  IF quotient.overflow THEN TooBig
        ELSE Exactly(v - ExactProduct(quotient.value, w, "DMR_FLOOR").value)

ExactCut(v, fraction, mode) ==
    LET pow == Pow10(FRACTION_RANK - fraction)
    IN  Exactly(WithSign(v < 0, Rounded(Abs(v), pow, mode) * pow))

-----------------------------------------------------------------------------
(* The objects.                                                            *)

Constructed ==
    {<<negative, integer_, fraction>> : negative \in BOOLEAN, integer_ \in IntegerParts,
                                        fraction \in FractionParts}

Accepted ==
    {p \in Constructed : p[2] < MAX_INTEGER_ /\ p[3] < MAX_FRACTION_}

Powers == {0, 1, FRACTION_RANK, FRACTION_RANK + 1, FRACTION_RANK + 2}

(* The type of the numerators holds four digits.                           *)
Digits10 == 4

DecimalInit ==
    /\ calls = 0
    /\ decimal = construct_(FALSE, 0, 0) /\ simple = ConstructSimple(FALSE, 0, 0)
    /\ exact = Exactly(0)

Becomes(x, s, e) ==
    /\ ~exact.overflow /\ calls < MaxCalls
    /\ decimal' = x /\ simple' = s /\ exact' = e /\ calls' = calls + 1

(* Construction, of an object that is used from then on.                   *)
Construct(p) ==
    /\ calls = 0
    /\ Becomes(construct_(p[1], p[2], p[3]), ConstructSimple(p[1], p[2], p[3]),
               IF p \in Accepted
               THEN Exactly(WithSign(p[1], p[2] * MAX_FRACTION_ + p[3])) ELSE TooBig)

ConstructRational(negative, n, power) ==
    /\ calls = 0
    /\ Becomes(construct_rational(negative, n, power, Digits10),
               SimpleRational(negative, n, power, Digits10),
               Exactly(WithSign(negative, (n * MAX_FRACTION_) \div Pow10(power))))

Add(p) ==
    LET y == construct_(p[1], p[2], p[3])
    IN  Becomes(add(decimal, y), SimpleAdd(simple, ConstructSimple(p[1], p[2], p[3])),
                Exactly(exact.value + Value(y)))

Sub(p) ==
    LET y == construct_(p[1], p[2], p[3])
    IN  Becomes(sub(decimal, y), SimpleSub(simple, ConstructSimple(p[1], p[2], p[3])),
                Exactly(exact.value - Value(y)))

(* The digits that Decimal drops of a product have to be in one element.   *)
Modes == {"DMR_FLOOR", "DMR_ROUND"}
         \cup (IF FRACTION_RANK <= DIGITS_PER_ELEMENT THEN {"DMR_CEIL"} ELSE {})

Mul(p, dmr) ==
    LET y == construct_(p[1], p[2], p[3])
    IN  Becomes(mul(decimal, y, dmr), SimpleMul(simple, ConstructSimple(p[1], p[2], p[3]), dmr),
                ExactProduct(exact.value, Value(y), dmr))

Div(p, ddr) ==
    LET y == construct_(p[1], p[2], p[3])
    IN  Becomes(div(decimal, y, ddr), SimpleDiv(simple, ConstructSimple(p[1], p[2], p[3]), ddr),
                ExactQuotient(exact.value, Value(y), ddr))

Remainder(p) ==
    LET y == construct_(p[1], p[2], p[3])
    IN  Becomes(div_remainder(decimal, y),
                SimpleRemainder(simple, ConstructSimple(p[1], p[2], p[3])),
                ExactRemainder(exact.value, Value(y)))

Floor(fraction) ==
    Becomes(floor(decimal, fraction), SimpleFloor(simple, fraction),
            ExactCut(exact.value, fraction, "DDR_FLOOR"))

Ceil(fraction) ==
    Becomes(ceil(decimal, fraction), SimpleCeil(simple, fraction),
            ExactCut(exact.value, fraction, "DDR_CEIL"))

Negate ==
    Becomes([decimal EXCEPT !.negative = ~@], [simple EXCEPT !.negative = ~@],
            Exactly(-exact.value))

(* Each object is constructed from the text of the other.                  *)
Exchange == Becomes(construct_str(decimal_to_char_(simple)), extract_decimal(str(decimal)), exact)

(* The objects have done their service or have thrown.                     *)
Discard ==
    /\ exact.overflow \/ calls = MaxCalls
    /\ calls' = 0
    /\ decimal' = construct_(FALSE, 0, 0) /\ simple' = ConstructSimple(FALSE, 0, 0)
    /\ exact' = Exactly(0)

DecimalNext ==
    \/ \E p \in Constructed : Construct(p)
    \/ \E n \in Numerators, power \in Powers, negative \in BOOLEAN :
         ConstructRational(negative, n, power)
    \/ \E p \in Accepted :
         \/ Add(p) \/ Sub(p) \/ Remainder(p)
         \/ \E dmr \in Modes : Mul(p, dmr)
         \/ \E ddr \in {"DDR_FLOOR", "DDR_CEIL"} : Div(p, ddr)
    \/ \E fraction \in 0 .. FRACTION_RANK - 1 : Floor(fraction) \/ Ceil(fraction)
    \/ Negate \/ Exchange \/ Discard

DecimalSpec == DecimalInit /\ [][DecimalNext]_decimalVars

-----------------------------------------------------------------------------
(* After any calls both classes hold exactly the number of the arithmetic  *)
(* of integers, rounded as asked for, in elements below BASE and not more  *)
(* than TOTAL_RANK digits; a call throws Overflow exactly when the result  *)
(* has more digits, or for a division by zero.                             *)
DecimalExact ==
    /\ decimal.overflow = exact.overflow /\ simple.overflow = exact.overflow
    /\ ~exact.overflow =>
         /\ Value(decimal) = exact.value /\ SimpleValue(simple) = exact.value
         /\ decimal.array \in [0 .. SIZE - 1 -> 0 .. BASE - 1]

(* Comparisons and integer() agree with the numbers, a negative zero       *)
(* included, and the text fits the buffer it is written to.                *)
ConvertsExactly ==
    ~exact.overflow =>
      /\ \A p \in Accepted :
           LET y == construct_(p[1], p[2], p[3])
               z == ConstructSimple(p[1], p[2], p[3])
           IN  /\ Less(decimal, y) = (exact.value < Value(y))
               /\ SimpleLess(simple, z) = (exact.value < Value(y))
               /\ Equal(decimal, y) = (exact.value = Value(y))
               /\ SimpleEqual(simple, z) = (exact.value = Value(y))
      /\ \A max \in {127, 255, 32767} :
           LET part == WithSign(exact.value < 0, Abs(exact.value) \div MAX_FRACTION_)
               of == integer(decimal, max, max # 255)
               ofSimple == SimpleInteger(simple, max, max # 255)
           IN  /\ of.throws = ofSimple.throws
               /\ (of.throws = "Overflow") = (Abs(part) > max)
               /\ (of.throws = "Sign") = (max = 255 /\ part < 0 /\ Abs(part) <= max)
               /\ of.throws = "no" => of.value = part /\ ofSimple.value = part
      /\ LET text == decimal_to_char_(simple)
         IN  Len(text.integer) + Len(text.fraction) + (IF text.negative THEN 2 ELSE 1)
             <= TOTAL_RANK + 2

(* "Overflow if passed values are too big" (Decimal.hpp:120): a number     *)
(* constructed from parts has no more than TOTAL_RANK digits.              *)
ConstructorRefuses ==
    calls = 1 /\ ~decimal.overflow => Abs(Value(decimal)) < MAX_VALUE_
=============================================================================
