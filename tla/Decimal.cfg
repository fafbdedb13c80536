\* Three digits, two of them behind the point, in elements of two digits.
CONSTANTS
    MAX_ELEMENT = 255
    DIGITS_PER_ELEMENT = 2
    TOTAL_RANK = 3
    FRACTION_RANK = 2
    IntegerParts = {0, 1, 9, 10}
    FractionParts = {0, 1, 99}
    Numerators = {0, 1}
    MaxCalls = 2
SPECIFICATION DecimalSpec
INVARIANT ConstructorRefuses
