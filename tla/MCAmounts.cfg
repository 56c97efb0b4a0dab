\* Arithmetic, comparison and conversion of amounts at all their limits.
SPECIFICATION Spec
CONSTANTS
    Currency = "EUR"
    Operands <- MCOperands
    Divisors = {1, 3, 16}
    RoundUnits <- CentUnits
    Strings <- MCStrings
    FRAC_LEN = 2
    MAX_AMOUNT_VALUE = 12
    ValueRange = 2048
    FractionRange = 1024
INVARIANT AmountsFaithful
PROPERTY ImplementsExact
