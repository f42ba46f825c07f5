-------------------------------- MODULE Money --------------------------------
(***************************************************************************)
(* internal/money/money.go and parseAmountMinor: the amounts of the API,    *)
(* decimal text with at most two decimals, and the minor units the service  *)
(* computes with.  int64 ranges from MinInt to MaxInt and wraps around.      *)
(*                                                                         *)
(* A text is what ParseMinor looks at: its sign, the number its whole part  *)
(* writes (0 if it is empty), how many digits follow the point and the      *)
(* number they write, and whether any other character occurs.               *)
(***************************************************************************)
EXTENDS Integers

CONSTANT MaxInt     \* the largest int64, 2^63 - 1 in the code

ASSUME MaxIntAssumption == MaxInt \in Nat /\ MaxInt > 99

MinInt == -MaxInt - 1

Words == 2 * (MaxInt + 1)

\* The value the machine keeps of an exact one.
Wrap(n) == ((n - MinInt) % Words) + MinInt

Text(sign, whole, digits, frac) ==
  [sign |-> sign, whole |-> whole, digits |-> digits, frac |-> frac,
   clean |-> TRUE]

Malformed == [Text("none", 0, 0, 0) EXCEPT !.clean = FALSE]

Signed(sign, n) == IF sign = "minus" THEN -n ELSE n

\* Mutant: .5 is read as 5 cents.
FractionUnscaled(t) == t.frac

\* One digit is tenths.
Fraction(t) == IF t.digits = 1 THEN t.frac * 10 ELSE t.frac

Error == [ok |-> FALSE, minor |-> 0]

ParseMinor(t) ==
  IF ~t.clean \/ t.digits > 2 \/ t.whole > MaxInt THEN Error
  ELSE [ok    |-> TRUE,
        minor |-> Wrap(Signed(t.sign, Wrap(t.whole * 100 + Fraction(t))))]

\* Mutant: the cents are not padded to two digits.
CentsUnpadded(cents) == IF cents < 10 THEN 1 ELSE 2

CentsDigits(cents) == 2

\* -MinInt is MinInt again, and its remainder is printed with a sign.
FormatMinor(value) ==
  LET magnitude == Wrap(IF value < 0 THEN -value ELSE value)
      cents     == magnitude % 100
  IN  IF magnitude < 0 THEN Malformed
      ELSE Text(IF value < 0 THEN "minus" ELSE "none", magnitude \div 100,
                CentsDigits(cents), cents)

\* handlers/validation.go
ParseAmountMinor(t) ==
  LET parsed == ParseMinor(t)
  IN  IF parsed.ok /\ parsed.minor > 0 THEN parsed ELSE Error

----------------------------------------------------------------------------
(* What the text says, exactly. *)

\* The text in thousandths, with no machine integer in between.
Thousandths(t) ==
  Signed(t.sign, t.whole * 1000 + t.frac * (CASE t.digits = 0 -> 0
                                              [] t.digits = 1 -> 100
                                              [] t.digits = 2 -> 10
                                              [] OTHER -> 1))

=============================================================================
