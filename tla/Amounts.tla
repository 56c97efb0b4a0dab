------------------------------ MODULE Amounts ------------------------------
(***************************************************************************)
(* Amounts of money as src/util/amount.c computes with them: a currency, a *)
(* value of 64 bits and a fraction of 32 bits in units of                  *)
(* 1/TALER_AMOUNT_FRAC_BASE.  The widths, the base and MAX_AMOUNT_VALUE    *)
(* are parameters; the assumptions say how they must be related.  An       *)
(* operand need not be normalized: its fraction may be one or more.        *)
(*                                                                         *)
(* The state is a register "acc" in which a program adds up amounts, as    *)
(* the exchange does with balances, totals and transfers.  The promise is  *)
(* in module ExactAmounts.                                                 *)
(***************************************************************************)
EXTENDS Integers, Sequences, SequencesExt

CONSTANTS
    Currency,         \* the currency of the exchange
    Operands,         \* amounts that are added and subtracted
    Divisors,         \* divisors
    RoundUnits,       \* values of CURRENCY_ROUND_UNIT
    Strings,          \* what is read from configuration, JSON or database
    FRAC_LEN,         \* TALER_AMOUNT_FRAC_LEN
    MAX_AMOUNT_VALUE,
    ValueRange,       \* 2^64
    FractionRange     \* 2^32

FRAC_BASE == 10 ^ FRAC_LEN
NoCurrency == "none"

(***************************************************************************)
(* No intermediate result of the parser, of the division or of the         *)
(* conversion to a string wraps around, and the carry of a fraction fits   *)
(* in a value.  The provers do not know powers; what they need of          *)
(* FRAC_BASE is stated.                                                    *)
(***************************************************************************)
ASSUME WidthsAssumption ==
    /\ FRAC_LEN \in Nat \ {0} /\ FRAC_BASE \in Nat \ {0}
    /\ MAX_AMOUNT_VALUE \in Nat /\ ValueRange \in Nat /\ FractionRange \in Nat
    /\ 10 * MAX_AMOUNT_VALUE + 9 < ValueRange
    /\ 10 * FRAC_BASE <= FractionRange /\ FractionRange <= ValueRange
    /\ Divisors \subseteq Nat \ {0}
    /\ \A k \in Divisors : k * FRAC_BASE <= ValueRange

Amount == [currency : {Currency, NoCurrency}, value : 0..(ValueRange - 1),
           fraction : 0..(FractionRange - 1)]

(***************************************************************************)
(* A string is the digits of the value, whether a dot follows, and the     *)
(* digits after it; 10 stands for any character that is no digit.          *)
(***************************************************************************)
ASSUME InputsAssumption ==
    /\ Currency # NoCurrency
    /\ Operands \cup RoundUnits \subseteq
          [currency : STRING, value : 0..(ValueRange - 1),
           fraction : 0..(FractionRange - 1)]
    /\ \A u \in RoundUnits : u.value = 0 \/ u.fraction = 0
    /\ \A s \in Strings : /\ s.value \in Seq(0..10) /\ s.tail \in Seq(0..10)
                          /\ s.dot \in BOOLEAN

VARIABLES
    acc,   \* the register
    last   \* the last command

vars == <<acc, last>>

---------------------------------------------------------------------------
(* Helpers of amount.c.                                                    *)

AmountOf(currency, value, fraction) ==
    [currency |-> currency, value |-> value, fraction |-> fraction]

\* invalidate
InvalidAmount == AmountOf(NoCurrency, 0, 0)

\* TALER_amount_get_zero
Zero == AmountOf(Currency, 0, 0)

IsValid(a) == a.currency # NoCurrency
SameCurrency(a, b) == IsValid(a) /\ IsValid(b) /\ a.currency = b.currency

\* (Faulty: does not check the result of the carry.)
NormalizeUnchecked(a) ==
    LET overflow == a.fraction \div FRAC_BASE
    IN IF ~IsValid(a) THEN InvalidAmount
       ELSE AmountOf(a.currency, (a.value + overflow) % ValueRange,
                     a.fraction % FRAC_BASE)

\* TALER_amount_normalize; InvalidAmount for GNUNET_SYSERR.
Normalize(a) ==
    LET overflow == a.fraction \div FRAC_BASE
        value == (a.value + overflow) % ValueRange
    IN IF ~IsValid(a) THEN InvalidAmount
       ELSE IF a.fraction < FRAC_BASE THEN a
       ELSE IF value < overflow \/ value > MAX_AMOUNT_VALUE THEN InvalidAmount
       ELSE AmountOf(a.currency, value, a.fraction % FRAC_BASE)

\* TALER_amount_cmp, of amounts that can be normalized.
Cmp(a, b) ==
    LET n1 == Normalize(a)
        n2 == Normalize(b)
        Sign(i, j) == IF i < j THEN -1 ELSE IF i > j THEN 1 ELSE 0
    IN IF n1.value = n2.value THEN Sign(n1.fraction, n2.fraction)
       ELSE Sign(n1.value, n2.value)

---------------------------------------------------------------------------
(* Arithmetic.                                                             *)

\* (Faulty: does not notice the carry of the fractions.)
SumNoCarry(a, b) ==
    LET n1 == Normalize(a)
        n2 == Normalize(b)
        value == (n1.value + n2.value) % ValueRange
    IN IF ~SameCurrency(a, b) \/ ~IsValid(n1) \/ ~IsValid(n2)
            \/ value < n1.value \/ value > MAX_AMOUNT_VALUE
       THEN InvalidAmount
       ELSE AmountOf(Currency, value, (n1.fraction + n2.fraction) % FRAC_BASE)

\* TALER_amount_add
Sum(a, b) ==
    LET n1 == Normalize(a)
        n2 == Normalize(b)
        value == (n1.value + n2.value) % ValueRange
        fraction == (n1.fraction + n2.fraction) % FractionRange
    IN IF ~SameCurrency(a, b) \/ ~IsValid(n1) \/ ~IsValid(n2)
            \/ value < n1.value \/ value > MAX_AMOUNT_VALUE
       THEN InvalidAmount
       ELSE Normalize(AmountOf(a.currency, value, fraction))

\* TALER_amount_subtract
Difference(a, b) ==
    LET n1 == Normalize(a)
        n2 == Normalize(b)
        borrow == n1.fraction < n2.fraction
        value == IF borrow THEN n1.value - 1 ELSE n1.value
        fraction == IF borrow THEN n1.fraction + FRAC_BASE ELSE n1.fraction
    IN IF ~SameCurrency(a, b) \/ ~IsValid(n1) \/ ~IsValid(n2)
            \/ (borrow /\ n1.value = 0) \/ value < n2.value
       THEN InvalidAmount
       ELSE AmountOf(a.currency, value - n2.value, fraction - n2.fraction)

\* TALER_amount_divide; the program aborts unless a can be normalized.
Quotient(a, divisor) ==
    LET n == Normalize(a)
        modr == ((n.value % divisor) * FRAC_BASE + n.fraction) % ValueRange
    IN IF divisor = 1 THEN n
       ELSE Normalize(AmountOf(n.currency, n.value \div divisor,
                               (modr \div divisor) % FractionRange))

\* TALER_amount_round_down.  A value that is a multiple of the unit is left
\* alone, with its fraction.
RoundedDown(a, unit) ==
    LET fdelta == a.fraction % unit.fraction
        vdelta == a.value % unit.value
    IN IF \/ ~SameCurrency(a, unit)
          \/ unit.fraction # 0 /\ unit.value # 0
          \/ unit.fraction = 0 /\ unit.value = 0 THEN a
       ELSE IF unit.fraction # 0 THEN [a EXCEPT !.fraction = @ - fdelta]
       ELSE IF vdelta = 0 THEN a
       ELSE AmountOf(a.currency, a.value - vdelta, 0)

---------------------------------------------------------------------------
(* Conversion from and to strings.                                         *)

\* One step of the loops of TALER_string_to_amount.
ParseValueDigit(a, n) ==
    IF ~IsValid(a) \/ n > 9 \/ a.value > MAX_AMOUNT_VALUE
         \/ (a.value * 10 + n) % ValueRange > MAX_AMOUNT_VALUE
    THEN InvalidAmount
    ELSE [a EXCEPT !.value = @ * 10 + n]

\* The i-th digit after the dot counts FRAC_BASE / 10^i.
ParseTailDigit(a, n, i) ==
    IF ~IsValid(a) \/ i > FRAC_LEN \/ n > 9 THEN InvalidAmount
    ELSE [a EXCEPT !.fraction = @ + n * (10 ^ (FRAC_LEN - i))]

\* TALER_string_to_amount, behind the currency.
StringToAmount(s) ==
    LET value == FoldLeft(ParseValueDigit, Zero, s.value)
        tail == FoldLeftDomain(LAMBDA a, i : ParseTailDigit(a, s.tail[i], i),
                               value, s.tail)
    IN IF s.value = <<>> /\ ~s.dot THEN InvalidAmount
       ELSE IF s.dot /\ s.tail = <<>> THEN InvalidAmount
       ELSE tail

\* Decimal digits of a number, as "%llu" prints them.
Decimal[n \in Nat] ==
    IF n < 10 THEN <<n>> ELSE Append(Decimal[n \div 10], n % 10)

\* amount_to_tail: the digits after the dot, without the zeros at the end.
Tail10[n \in Nat] ==
    IF n = 0 THEN <<>>
    ELSE <<n \div (FRAC_BASE \div 10)>>
            \o Tail10[((n * 10) % FractionRange) % FRAC_BASE]

AmountToTail(fraction) == Tail10[fraction]

\* TALER_amount_to_string
AmountToString(a) ==
    LET norm == Normalize(a)
    IN [value |-> Decimal[norm.value], dot |-> norm.fraction # 0,
        tail |-> AmountToTail(norm.fraction)]
---------------------------------------------------------------------------
(* Programs that compute with the register.                                *)

Command(name, arg) == [name |-> name, arg |-> arg]

Load(s)     == acc' = StringToAmount(s)    /\ last' = Command("load", s)
Add(b)      == acc' = Sum(acc, b)          /\ last' = Command("add", b)
Subtract(b) == acc' = Difference(acc, b)   /\ last' = Command("subtract", b)
Divide(k)   == /\ IsValid(acc)
               /\ acc' = Quotient(acc, k)  /\ last' = Command("divide", k)
Round(u)    == acc' = RoundedDown(acc, u)  /\ last' = Command("round", u)

Init == acc = Zero /\ last = Command("add", Zero)

Next ==
    \/ \E s \in Strings : Load(s)
    \/ \E b \in Operands : Add(b) \/ Subtract(b)
    \/ \E k \in Divisors : Divide(k)
    \/ \E u \in RoundUnits : Round(u)

Spec == Init /\ [][Next]_vars

(* Results are normalized and within the largest amount, whatever the      *)
(* operands were.                                                          *)
AmountsTypeOK ==
    /\ acc \in Amount
    /\ acc.value <= MAX_AMOUNT_VALUE /\ acc.fraction < FRAC_BASE

---------------------------------------------------------------------------
(* The register and the commands in smallest units: the refinement mapping *)
(* to ExactAmounts.                                                        *)

UnitsOf(a) ==
    IF a.currency # Currency THEN -1 ELSE a.value * FRAC_BASE + a.fraction

\* The number that a string stands for, or -1.
Number(digits) == FoldLeft(LAMBDA n, d : 10 * n + d, 0, digits)
WellFormed(s) ==
    /\ \A i \in DOMAIN s.value : s.value[i] <= 9
    /\ \A i \in DOMAIN s.tail : s.tail[i] <= 9
    /\ IF s.dot THEN Len(s.tail) \in 1..FRAC_LEN ELSE s.value # <<>>
Meaning(s) ==
    IF WellFormed(s)
    THEN Number(s.value) * FRAC_BASE
           + Number(s.tail) * (10 ^ (FRAC_LEN - Len(s.tail)))
    ELSE -1

LastExact ==
    CASE last.name = "load" -> Command("load", Meaning(last.arg))
      [] last.name = "divide" -> last
      [] last.name \in {"add", "subtract", "round"}
            -> Command(last.name, UnitsOf(last.arg))

ExactCommands ==
    {Command("load", Meaning(s)) : s \in Strings}
      \cup {Command("add", UnitsOf(b)) : b \in Operands}
      \cup {Command("subtract", UnitsOf(b)) : b \in Operands}
      \cup {Command("divide", k) : k \in Divisors}
      \cup {Command("round", UnitsOf(u)) : u \in RoundUnits}

E == INSTANCE ExactAmounts WITH
        Largest <- MAX_AMOUNT_VALUE * FRAC_BASE + FRAC_BASE - 1,
        Commands <- ExactCommands,
        total <- UnitsOf(acc),
        last <- LastExact

(* The arithmetic of amount.c implements exact arithmetic: with carries    *)
(* and borrows between fraction and value, operands that are not           *)
(* normalized, overflows of either part, strings with too many digits and  *)
(* invalid amounts, the register holds the exact result, or is invalid     *)
(* when there is none.                                                     *)
ImplementsExact == E!ExactSpec

(* Comparing with an operand orders amounts by what they are worth.        *)
ComparisonExact ==
    \A b \in Operands :
        SameCurrency(acc, b) /\ IsValid(Normalize(b)) =>
            LET n == UnitsOf(acc) - UnitsOf(b)
            IN Cmp(acc, b) = IF n < 0 THEN -1 ELSE IF n > 0 THEN 1 ELSE 0

(* An amount written to a string (a JSON reply, the bank, the log) and     *)
(* read again is the same amount.                                          *)
StringsFaithful ==
    IsValid(acc) => StringToAmount(AmountToString(acc)) = acc

(* What readers of an amount see is right: the register is normalized and  *)
(* within the largest amount whatever the operands were, comparisons order *)
(* amounts by what they are worth, and an amount that is written and read  *)
(* again is the same amount.                                               *)
AmountsFaithful == AmountsTypeOK /\ ComparisonExact /\ StringsFaithful

(* TALER_amount_round_down: "Round the amount to something that can be     *)
(* transferred on the wire".  What was rounded is a multiple of the unit.  *)
RoundedIsTransferable ==
    last.name = "round" /\ IsValid(acc) /\ UnitsOf(last.arg) # 0 =>
        UnitsOf(acc) % UnitsOf(last.arg) = 0
=============================================================================
