------------------------------- MODULE MCMoney -------------------------------
(***************************************************************************)
(* An amount on its way through the API: the client's text, the minor units *)
(* the handler takes from it or a stored balance or difference, and the     *)
(* text of those units in an answer.                                        *)
(* Integers have 12 bits, so that the whole parts reach beyond what fits.   *)
(***************************************************************************)
EXTENDS Money

VARIABLES text, amount, shown

CONSTANT LargestWhole   \* bound on the whole part of a text

ASSUME LargestWholeAssumption == LargestWhole \in Nat

Fractions == {<<0, 0>>} \cup ({1} \X (0..9)) \cup ({2} \X (0..99)) \cup {<<3, 125>>}

Texts == {Malformed} \cup
         {Text(sign, whole, f[1], f[2]) :
            sign \in {"none", "plus", "minus"}, whole \in 0..LargestWhole, f \in Fractions}

Unknown == [ok |-> FALSE, minor |-> MinInt]
Stored(v) == [ok |-> TRUE, minor |-> v]
NotShown == Text("none", 0, 0, 0)

Init == /\ \/ text \in Texts /\ amount = Unknown
           \/ text = Malformed /\ amount \in {Stored(v) : v \in MinInt..MaxInt}
        /\ shown = NotShown

Parse == /\ amount = Unknown
         /\ amount' = ParseAmountMinor(text)
         /\ UNCHANGED <<text, shown>>

Show == /\ amount.ok
        /\ shown = NotShown
        /\ shown' = FormatMinor(amount.minor)
        /\ UNCHANGED <<text, amount>>

Next == Parse \/ Show

Spec == Init /\ [][Next]_<<text, amount, shown>>

----------------------------------------------------------------------------

\* An amount whose minor units fit is taken at its exact value when it is
\* positive, and is refused only when it is not, or is not written in cents.
ParsedExactly ==
  text.clean /\ text.digits <= 2 /\ Thousandths(text) <= 10 * MaxInt
    /\ Thousandths(text) >= 10 * MinInt /\ amount # Unknown =>
       IF Thousandths(text) > 0 THEN /\ amount.ok
                                     /\ amount.minor * 10 = Thousandths(text)
                                ELSE ~amount.ok

\* Every amount, balance and difference but the smallest integer can be read
\* back from the text that shows it, which has two decimals.
ShownTruly ==
  shown # NotShown /\ amount.minor # MinInt =>
    shown.digits = 2 /\ ParseMinor(shown) = amount

\* "Precise amounts: stored as minor units" (README.md:54): what is stored is
\* what the text says.
AmountsPrecise == text.clean /\ amount.ok => amount.minor * 10 = Thousandths(text)

=============================================================================
