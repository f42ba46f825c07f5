------------------------------- MODULE Rates -------------------------------
(***************************************************************************)
(* The currency arithmetic of internal/services/transaction_service.go: the *)
(* fixed USD/EUR rate, its rounded inverse, and the conversion of an amount *)
(* in minor units.  The code computes with shopspring/decimal; a rate has   *)
(* six decimals (StringFixedBank(6)), so it is an integer number of         *)
(* millionths here and every operation is exact integer arithmetic.         *)
(***************************************************************************)
EXTENDS Integers

Currency == {"USD", "EUR"}

RateScale == 1000000

\* decimal.RoundBank(0) of the non-negative fraction n/d: to the nearest
\* integer, a tie to the even one.
RoundBank(n, d) ==
  LET q     == n \div d
      twice == 2 * (n % d)
  IN  IF twice > d \/ (twice = d /\ q % 2 = 1) THEN q + 1 ELSE q

\* 0.92
FixedUSDEURRate == 920000

\* (1 / 0.92).RoundBank(6): the fraction is 100/92 exactly.
InverseRate == RoundBank(100 * RateScale, 92)

DirectionalRate(fromCurrency, toCurrency) ==
  IF fromCurrency = "EUR" /\ toCurrency = "USD" THEN InverseRate
                                                ELSE FixedUSDEURRate

ExchangePairAllowed(fromCurrency, toCurrency) ==
  \/ fromCurrency = "USD" /\ toCurrency = "EUR"
  \/ fromCurrency = "EUR" /\ toCurrency = "USD"

ConvertMinor(amountMinor, rate) == RoundBank(amountMinor * rate, RateScale)

============================================================================
