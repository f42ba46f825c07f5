---------------------------- MODULE Money_proofs ----------------------------
(***************************************************************************)
(* Proof, for integers of every width, that amounts are parsed exactly when *)
(* their minor units fit, and that every text FormatMinor writes is read    *)
(* back by ParseMinor; and so, in AmountInv, for every amount on its way    *)
(* through the API.                                                         *)
(***************************************************************************)
EXTENDS MCMoney, TLAPS

\* What fits in a machine integer is kept.
LEMMA WrapKeeps ==
  ASSUME NEW n \in MinInt..MaxInt
  PROVE  Wrap(n) = n
<1>1. Words \in Nat \ {0} /\ MinInt \in Int
  BY MaxIntAssumption DEF Words, MinInt
<1>2. n - MinInt \in 0..(Words - 1)
  BY MaxIntAssumption DEF Words, MinInt
<1>3. \A m \in Nat \ {0} : \A k \in 0..(m - 1) : k % m = k
  BY SMT
<1>4. QED
  BY <1>1, <1>2, <1>3 DEF Wrap

\* How the text of an amount may start.
Sign == {"none", "plus", "minus"}

\* An amount in cents whose minor units fit is parsed to exactly those units.
THEOREM ParseExact ==
  ASSUME NEW sign \in Sign, NEW whole \in Nat, NEW cents \in 0..99,
         whole * 100 + cents <= MaxInt
  PROVE  ParseMinor(Text(sign, whole, 2, cents))
           = [ok |-> TRUE, minor |-> Signed(sign, whole * 100 + cents)]
<1> DEFINE n == whole * 100 + cents
<1>1. /\ n \in MinInt..MaxInt /\ -n \in MinInt..MaxInt
      /\ whole <= MaxInt
  BY MaxIntAssumption DEF MinInt
<1>2. Signed(sign, n) \in MinInt..MaxInt
  BY <1>1 DEF Signed
<1>3. Wrap(n) = n /\ Wrap(Signed(sign, n)) = Signed(sign, n)
  BY <1>1, <1>2, WrapKeeps
<1> DEFINE t == Text(sign, whole, 2, cents)
<1>4. t.clean /\ t.sign = sign /\ t.whole = whole /\ t.digits = 2 /\ t.frac = cents
  BY DEF Text
<1> HIDE DEF t
<1>5. t.whole * 100 + Fraction(t) = n
  BY <1>4 DEF Fraction
<1>6. ParseMinor(t) = [ok |-> TRUE, minor |-> Wrap(Signed(sign, Wrap(n)))]
  <2>1. ~(~t.clean \/ t.digits > 2 \/ t.whole > MaxInt)
    BY <1>1, <1>4, MaxIntAssumption
  <2> HIDE DEF n
  <2>2. QED
    BY <1>4, <1>5, <2>1, Zenon DEF ParseMinor
<1>7. QED
  BY <1>3, <1>6 DEF t

\* Every balance and difference but the smallest integer can be read back from
\* the text that shows it, which has two decimals.
THEOREM RoundTrip ==
  ASSUME NEW v \in MinInt..MaxInt, v # MinInt
  PROVE  /\ FormatMinor(v).digits = 2
         /\ ParseMinor(FormatMinor(v)) = [ok |-> TRUE, minor |-> v]
<1> DEFINE m     == IF v < 0 THEN -v ELSE v
           whole == m \div 100
           cents == m % 100
           sign  == IF v < 0 THEN "minus" ELSE "none"
<1>1. m \in 0..MaxInt /\ m \in MinInt..MaxInt
  BY MaxIntAssumption DEF MinInt
<1>2. whole \in Nat /\ cents \in 0..99 /\ whole * 100 + cents = m
  BY <1>1, MaxIntAssumption
<1>3. Wrap(m) = m
  BY <1>1, WrapKeeps
<1>4. FormatMinor(v) = Text(sign, whole, 2, cents)
  BY <1>1, <1>3, MaxIntAssumption DEF FormatMinor, CentsDigits
<1>5. Signed(sign, m) = v
  BY MaxIntAssumption DEF Signed, MinInt
<1>6. whole * 100 + cents <= MaxInt
  BY <1>1, <1>2, MaxIntAssumption
<1> HIDE DEF m, whole, cents
<1>7. ParseMinor(Text(sign, whole, 2, cents)) = [ok |-> TRUE, minor |-> v]
  <2>1. sign \in Sign
    BY DEF Sign
  <2> HIDE DEF sign
  <2>2. whole \in Nat /\ cents \in 0..99
    BY <1>2
  <2>3. ParseMinor(Text(sign, whole, 2, cents))
          = [ok |-> TRUE, minor |-> Signed(sign, whole * 100 + cents)]
    BY <1>6, <2>1, <2>2, ParseExact, Zenon
  <2>4. QED
    BY <1>2, <1>5, <2>3
<1>8. QED
  BY <1>4, <1>7 DEF Text

----------------------------------------------------------------------------
(* Amounts on their way through the API. *)

LEMMA WrapFits ==
  ASSUME NEW n \in Int
  PROVE  Wrap(n) \in MinInt..MaxInt
<1>1. Words \in Nat \ {0} /\ MinInt \in Int /\ MinInt + Words = MaxInt + 1
  BY MaxIntAssumption DEF Words, MinInt
<1>2. \A m \in Nat \ {0} : \A k \in Int : k % m \in 0..(m - 1)
  BY SMT
<1>3. (n - MinInt) % Words \in 0..(Words - 1)
  BY <1>1, <1>2
<1>4. \A k \in 0..(Words - 1) : k + MinInt \in MinInt..MaxInt
  BY <1>1, MaxIntAssumption
<1>5. QED
  BY <1>3, <1>4 DEF Wrap

\* The largest int64 and one more is the smallest one.
LEMMA WrapOver == Wrap(MaxInt + 1) = MinInt
<1>1. /\ Words \in Nat \ {0} /\ MinInt \in Int
      /\ (MaxInt + 1) - MinInt = Words
  BY MaxIntAssumption DEF Words, MinInt
<1>2. \A m \in Nat \ {0} : m % m = 0
  BY SMT
<1>3. Words % Words = 0
  BY <1>1, <1>2
<1>4. QED
  BY <1>1, <1>3 DEF Wrap

\* A text says ten thousandths for each of its cents.
LEMMA TextCents ==
  ASSUME NEW t \in Texts, t.clean, t.digits <= 2
  PROVE  /\ t.sign \in {"none", "plus", "minus"} /\ t.whole \in Nat
         /\ t.whole * 100 + Fraction(t) \in Nat
         /\ t.whole <= t.whole * 100 + Fraction(t)
         /\ Thousandths(t) = Signed(t.sign, (t.whole * 100 + Fraction(t)) * 10)
<1>1. PICK sign \in {"none", "plus", "minus"}, whole \in 0..LargestWhole, f \in Fractions :
        t = Text(sign, whole, f[1], f[2])
  <2>1. t # Malformed
    BY DEF Malformed, Text
  <2>2. QED
    BY <2>1 DEF Texts
<1>2. /\ t.sign = sign /\ t.whole = whole /\ t.digits = f[1] /\ t.frac = f[2]
  BY <1>1 DEF Text
<1>3. whole \in Nat
  BY LargestWholeAssumption
<1>4. \/ f[1] = 0 /\ f[2] = 0
      \/ f[1] = 1 /\ f[2] \in 0..9
      \/ f[1] = 2 /\ f[2] \in 0..99
  BY <1>2 DEF Fractions
<1>5. CASE f[1] = 0 /\ f[2] = 0
  <2>1. Fraction(t) = 0
    BY <1>2, <1>5 DEF Fraction
  <2>2. Thousandths(t) = Signed(t.sign, t.whole * 1000 + 0 * 0)
    BY <1>2, <1>5 DEF Thousandths
  <2>3. QED
    BY <1>2, <1>3, <2>1, <2>2
<1>6. CASE f[1] = 1 /\ f[2] \in 0..9
  <2>1. Fraction(t) = t.frac * 10
    BY <1>2, <1>6 DEF Fraction
  <2>2. Thousandths(t) = Signed(t.sign, t.whole * 1000 + t.frac * 100)
    BY <1>2, <1>6 DEF Thousandths
  <2>3. QED
    BY <1>2, <1>3, <1>6, <2>1, <2>2
<1>7. CASE f[1] = 2 /\ f[2] \in 0..99
  <2>1. Fraction(t) = t.frac
    BY <1>2, <1>7 DEF Fraction
  <2>2. Thousandths(t) = Signed(t.sign, t.whole * 1000 + t.frac * 10)
    BY <1>2, <1>7 DEF Thousandths
  <2>3. QED
    BY <1>2, <1>3, <1>7, <2>1, <2>2
<1>8. QED
  BY <1>4, <1>5, <1>6, <1>7

\* What the handler takes from a text whose minor units fit.
LEMMA TakenExactly ==
  ASSUME NEW t \in Texts, t.clean, t.digits <= 2,
         Thousandths(t) <= 10 * MaxInt, Thousandths(t) >= 10 * MinInt
  PROVE  IF Thousandths(t) > 0 THEN /\ ParseAmountMinor(t).ok
                                    /\ ParseAmountMinor(t).minor * 10 = Thousandths(t)
                               ELSE ~ParseAmountMinor(t).ok
<1> DEFINE n == t.whole * 100 + Fraction(t)
           m == Wrap(Signed(t.sign, Wrap(n)))
<1>1. /\ t.sign \in {"none", "plus", "minus"} /\ t.whole \in Nat
      /\ n \in Nat /\ t.whole <= n
      /\ Thousandths(t) = Signed(t.sign, n * 10)
  BY TextCents
<1> HIDE DEF n
<1>2. MaxInt \in Nat /\ MinInt \in Int /\ MinInt = -MaxInt - 1
  BY MaxIntAssumption DEF MinInt
<1>3. CASE t.sign = "minus"
  <2>1. Thousandths(t) = -(n * 10)
    BY <1>1, <1>3 DEF Signed
  <2>2. n <= MaxInt + 1 /\ Thousandths(t) <= 0
    BY <1>1, <1>2, <2>1
  <2>3. m <= 0
    <3>1. CASE n <= MaxInt
      <4>1. n \in MinInt..MaxInt /\ -n \in MinInt..MaxInt
        BY <1>1, <1>2, <3>1
      <4>2. m = -n
        BY <1>3, <4>1, WrapKeeps DEF Signed
      <4>3. QED
        BY <1>1, <4>2
    <3>2. CASE n = MaxInt + 1
      <4>1. Wrap(n) = MinInt
        BY <3>2, WrapOver
      <4>2. Signed(t.sign, MinInt) = MaxInt + 1
        BY <1>2, <1>3 DEF Signed
      <4>3. m = MinInt
        BY <4>1, <4>2, WrapOver
      <4>4. QED
        BY <1>2, <4>3
    <3>3. QED
      BY <1>1, <1>2, <2>2, <3>1, <3>2
  <2>4. m \in Int
    <3>1. Wrap(n) \in Int
      BY <1>1, <1>2, WrapFits
    <3>2. Signed(t.sign, Wrap(n)) \in Int
      BY <3>1 DEF Signed
    <3>3. QED
      BY <1>2, <3>2, WrapFits
  <2> HIDE DEF m
  <2>5. ParseMinor(t).ok => ParseMinor(t).minor = m
    BY DEF ParseMinor, Error, m, n
  <2>6. ~ParseAmountMinor(t).ok
    BY <2>3, <2>4, <2>5 DEF ParseAmountMinor, Error
  <2>7. QED
    BY <1>1, <2>1, <2>2, <2>6
<1>4. CASE t.sign # "minus"
  <2>1. Thousandths(t) = n * 10
    BY <1>1, <1>4 DEF Signed
  <2>2. n <= MaxInt
    BY <1>1, <1>2, <2>1
  <2>3. n \in MinInt..MaxInt
    BY <1>1, <1>2, <2>2
  <2>4. m = n
    BY <1>4, <2>3, WrapKeeps DEF Signed
  <2>5. t.whole <= MaxInt
    BY <1>1, <1>2, <2>2
  <2> HIDE DEF m
  <2>6. ParseMinor(t) = [ok |-> TRUE, minor |-> m]
    <3>1. ~(~t.clean \/ t.digits > 2 \/ t.whole > MaxInt)
      <4>1. t.digits \in Int
        BY DEF Texts, Fractions, Text, Malformed
      <4>2. QED
        BY <1>1, <1>2, <2>5, <4>1
    <3>2. QED
      BY <3>1, Zenon DEF ParseMinor, m, n
  <2>7. CASE n > 0
    <3>1. ParseAmountMinor(t) = [ok |-> TRUE, minor |-> n]
      BY <2>4, <2>6, <2>7 DEF ParseAmountMinor
    <3>2. QED
      BY <1>1, <2>1, <2>7, <3>1
  <2>8. CASE ~(n > 0)
    <3>1. ~ParseAmountMinor(t).ok
      BY <2>4, <2>6, <2>8 DEF ParseAmountMinor, Error
    <3>2. QED
      BY <1>1, <2>1, <2>8, <3>1
  <2>9. QED
    BY <2>7, <2>8
<1>5. QED
  BY <1>3, <1>4

\* Where an amount can come from, and what is shown of it.
AmountInv ==
  /\ text \in Texts
  /\ \/ amount = Unknown
     \/ amount = ParseAmountMinor(text)
     \/ text = Malformed /\ \E v \in MinInt..MaxInt : amount = Stored(v)
  /\ shown # NotShown => amount.ok /\ shown = FormatMinor(amount.minor)

LEMMA AmountInvInit == Init => AmountInv
<1>1. Malformed \in Texts
  BY DEF Texts
<1>2. QED
  BY <1>1 DEF Init, AmountInv

LEMMA AmountInvStep == AmountInv /\ [Next]_<<text, amount, shown>> => AmountInv'
<1> SUFFICES ASSUME AmountInv, [Next]_<<text, amount, shown>>
             PROVE  AmountInv'
  OBVIOUS
<1>1. CASE Parse
  <2>1. ~amount.ok
    BY <1>1 DEF Parse, Unknown
  <2>2. QED
    BY <1>1, <2>1 DEF Parse, AmountInv
<1>2. CASE Show
  BY <1>2 DEF Show, AmountInv
<1>3. CASE UNCHANGED <<text, amount, shown>>
  BY <1>3 DEF AmountInv
<1>4. QED
  BY <1>1, <1>2, <1>3 DEF Next

\* Every amount taken from a text whose minor units fit is exact, and it is
\* refused only when it is not positive.
THEOREM AmountsAreExact == Spec => []ParsedExactly
<1>1. ASSUME AmountInv
      PROVE  ParsedExactly
  <2>1. SUFFICES ASSUME text.clean, text.digits <= 2,
                        Thousandths(text) <= 10 * MaxInt,
                        Thousandths(text) >= 10 * MinInt, amount # Unknown
                 PROVE  IF Thousandths(text) > 0
                        THEN amount.ok /\ amount.minor * 10 = Thousandths(text)
                        ELSE ~amount.ok
    BY DEF ParsedExactly
  <2>2. text # Malformed
    BY <2>1 DEF Malformed, Text
  <2>3. amount = ParseAmountMinor(text) /\ text \in Texts
    BY <1>1, <2>1, <2>2 DEF AmountInv
  <2>4. QED
    BY <2>1, <2>3, TakenExactly
<1>2. QED
  BY <1>1, AmountInvInit, AmountInvStep, PTL DEF Spec

\* Every amount, balance and difference but the smallest integer is read back
\* from the text that shows it.
THEOREM AmountsAreShown == Spec => []ShownTruly
<1>1. ASSUME AmountInv
      PROVE  ShownTruly
  <2>1. SUFFICES ASSUME shown # NotShown, amount.minor # MinInt
                 PROVE  shown.digits = 2 /\ ParseMinor(shown) = amount
    BY DEF ShownTruly
  <2>2. amount.ok /\ shown = FormatMinor(amount.minor)
    BY <1>1, <2>1 DEF AmountInv
  <2>3. \E v \in MinInt..MaxInt : amount = [ok |-> TRUE, minor |-> v]
    <3>1. CASE amount = ParseAmountMinor(text)
      <4>1. /\ amount = ParseMinor(text)
            /\ ParseMinor(text) # Error
        BY <2>2, <3>1 DEF ParseAmountMinor, Error
      <4>2. amount = [ok |-> TRUE,
                      minor |-> Wrap(Signed(text.sign,
                                            Wrap(text.whole * 100 + Fraction(text))))]
            /\ text.clean /\ ~(text.digits > 2)
        BY <4>1, Zenon DEF ParseMinor
      <4>3. text.digits \in Int /\ text \in Texts
        BY <1>1 DEF AmountInv, Texts, Fractions, Text, Malformed
      <4>4. text.whole * 100 + Fraction(text) \in Int
        BY <4>2, <4>3, TextCents
      <4>5. Wrap(text.whole * 100 + Fraction(text)) \in Int
        BY <4>4, WrapFits, MaxIntAssumption DEF MinInt
      <4>6. Signed(text.sign, Wrap(text.whole * 100 + Fraction(text))) \in Int
        BY <4>5 DEF Signed
      <4>7. QED
        BY <4>2, <4>6, WrapFits
    <3>2. CASE \E v \in MinInt..MaxInt : amount = Stored(v)
      BY <3>2 DEF Stored
    <3>3. QED
      BY <1>1, <2>2, <3>1, <3>2 DEF AmountInv, Unknown
  <2>4. PICK v \in MinInt..MaxInt : amount = [ok |-> TRUE, minor |-> v]
    BY <2>3
  <2>5. amount.minor = v
    BY <2>4
  <2>6. FormatMinor(v).digits = 2 /\ ParseMinor(FormatMinor(v)) = [ok |-> TRUE, minor |-> v]
    BY <2>1, <2>5, RoundTrip
  <2>7. QED
    BY <2>2, <2>4, <2>5, <2>6
<1>2. QED
  BY <1>1, AmountInvInit, AmountInvStep, PTL DEF Spec

=============================================================================
