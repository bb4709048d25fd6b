------------------------------ MODULE Amount ------------------------------
(***************************************************************************)
(* Amounts of money: packages/server/src/service/common/Amount.ts and the  *)
(* rounding of ContractUtils.ts. A value is a BigNumber, an integer in     *)
(* units of 10^-decimal. A text is what a request or a message spells:     *)
(* [sign, int, digits, frac], the int before the point and `digits' digits *)
(* after it that spell frac; commas and underlines are dropped by make and *)
(* make no difference.                                                     *)
(***************************************************************************)
EXTENDS Integers

CONSTANTS
    DECIMAL,    \* BOACoin.DECIMAL: places behind the point of a value
    MaxDigits,  \* bound: digits behind the point of a text
    GWEI,       \* 1000000000
    MaxSafe     \* toNumber throws from here on (2^53)

Power(n) == 10 ^ n

ASSUME AmountAssumption ==
    /\ DECIMAL \in Nat \ {0} /\ MaxDigits \in Nat /\ MaxDigits >= DECIMAL
    /\ GWEI \in Nat \ {0} /\ MaxSafe \in Nat
    /\ \A n \in 0 .. MaxDigits : Power(n) \in Nat \ {0}

(* "empty" is the empty text, "+" a leading plus, "?" no number at all.    *)
Signs == {"", "-", "+", "?", "empty"}

Text == [sign : Signs, int : Nat, digits : 0 .. MaxDigits, frac : Nat]

Absolute(value) == IF value >= 0 THEN value ELSE -value

(* BigNumber.div cuts towards zero.                                        *)
div(a, b) ==
    IF (a >= 0) = (b > 0)
    THEN Absolute(a) \div Absolute(b)
    ELSE -(Absolute(a) \div Absolute(b))

(* BigNumber.from throws at a plus sign and at letters.                    *)
Makes(text) == text.sign \in {"", "-", "empty"}

(* The digits behind the point, cut or padded with zeros to DECIMAL.       *)
Fraction(text) ==
    IF text.digits > DECIMAL
    THEN text.frac \div Power(text.digits - DECIMAL)
    ELSE text.frac * Power(DECIMAL - text.digits)

Integral(text) ==
    IF text.sign = "-" THEN -(text.int * Power(DECIMAL)) ELSE text.int * Power(DECIMAL)

(* Amount.make: the fraction is added whatever the sign is.                *)
make(text) ==
    IF text.sign = "empty" THEN 0 ELSE Integral(text) + Fraction(text)

(* The value moved to another number of decimal places.                    *)
convert(value, from, to) ==
    IF to > from THEN value * Power(to - from) ELSE div(value, Power(from - to))

zeroGWEI(value) == div(value, GWEI) * GWEI

(* toDisplayString(true, precision) of a value that is not negative: the   *)
(* remainder has its leading zeros and loses the digits after precision.   *)
(* (Stripping trailing zeros may leave the point behind them.)             *)
Shows(value) == div(value, Power(DECIMAL)) < MaxSafe

toDisplayString_Unpadded(value, precision) ==
    LET share == div(value, Power(DECIMAL))
        remain == value - share * Power(DECIMAL)
        written == CHOOSE n \in 1 .. DECIMAL :
                       remain < Power(n) /\ (n = 1 \/ remain >= Power(n - 1))
        kept == IF precision < written THEN precision ELSE written
    IN [sign |-> "", int |-> share, digits |-> kept,
        frac |-> remain \div Power(written - kept)]

toDisplayString(value, precision) ==
    LET share == div(value, Power(DECIMAL))
        kept == IF precision < DECIMAL THEN precision ELSE DECIMAL
    IN [sign |-> "", int |-> share, digits |-> kept,
        frac |-> (value - share * Power(DECIMAL)) \div Power(DECIMAL - kept)]
============================================================================
