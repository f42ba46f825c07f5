------------------------ MODULE MCTransactionService ------------------------
(***************************************************************************)
(* Small instances of TransactionService: Ann and Bob with one account per  *)
(* currency, and the two system accounts.  The system USD account comes     *)
(* first in the order of the ids and the system EUR account last, as random *)
(* uuids may fall.  The balances are a few units above or below the amounts *)
(* asked, so that a second transfer, a second exchange, or a payment before *)
(* an incoming one, finds the account short.                                *)
(***************************************************************************)
EXTENDS TransactionService, TLC

CONSTANTS r1, r2, r3, annUSD, annEUR, bobUSD, bobEUR, sysUSD, sysEUR, none,
          q1, k1

MCUser == {"ann", "bob"}
MCNoUser == "NULL"

MCAccount == {annUSD, annEUR, bobUSD, bobEUR, sysUSD, sysEUR}

PerAccount(au, ae, bu, be, su, se) ==
  annUSD :> au @@ annEUR :> ae @@ bobUSD :> bu @@ bobEUR :> be @@
  sysUSD :> su @@ sysEUR :> se

MCOwner == PerAccount("ann", "ann", "bob", "bob", MCNoUser, MCNoUser)
MCCurrencyOf == PerAccount("USD", "EUR", "USD", "EUR", "USD", "EUR")
MCSystemAccount == [USD |-> sysUSD, EUR |-> sysEUR]
MCOpeningBalance == PerAccount(100, 50, 50, 80, 300, 84)
MCSeed == PerAccount(0, 0, 0, 0, 450, 220)
MCRank == PerAccount(3, 2, 5, 4, 1, 6) @@ none :> 7

Ask(kind, user, from, to, amount, key, quote, rate) ==
  [kind |-> kind, user |-> user, from |-> from, to |-> to, amount |-> amount,
   key |-> key, quote |-> quote, rate |-> rate]

Transfer(user, from, to, amount, key) ==
  Ask("transfer", user, from, to, amount, key, none, 0)

ExchangeAtRate(user, from, to, amount, key, rate) ==
  Ask("exchange", user, from, to, amount, key, none, rate)

ExchangeByQuote(user, from, to, amount, key) ==
  Ask("exchange", user, from, to, amount, key, q1, 0)

\* One user pays the other, and both change money at once, one of them back and
\* forth.  Bob's exchange, without key or quote, fits twice into his account.
ContentionInput ==
  { Transfer("ann", annUSD, bobUSD, 60, k1),
    ExchangeByQuote("ann", annUSD, annEUR, 45, none),
    ExchangeAtRate("bob", bobUSD, bobEUR, 24, none, FixedUSDEURRate),
    ExchangeAtRate("ann", annEUR, annUSD, 50, k1, InverseRate) }

MCQuoteInput ==
  { [user |-> "ann", from |-> annUSD, to |-> annEUR, amount |-> 45] }

\* Every reason to refuse.
RefusedInput ==
  { Transfer("ann", annUSD, bobUSD, 0, none),
    Transfer("ann", annUSD, annUSD, 10, none),
    Transfer("ann", annUSD, none, 10, none),
    Transfer("ann", bobUSD, annUSD, 10, none),
    Transfer("ann", annUSD, bobEUR, 10, none),
    Transfer("ann", annUSD, bobUSD, 60, k1),
    ExchangeAtRate("ann", annUSD, annEUR, 10, none, 0),
    ExchangeAtRate("ann", annUSD, annEUR, 10, none, InverseRate),
    ExchangeAtRate("ann", annUSD, bobUSD, 10, none, FixedUSDEURRate),
    ExchangeByQuote("ann", annUSD, annEUR, 45, none),
    ExchangeByQuote("ann", annUSD, annEUR, 50, none),
    ExchangeByQuote("bob", bobUSD, bobEUR, 45, none),
    ExchangeAtRate("ann", annUSD, annEUR, 99, none, FixedUSDEURRate) }

\* A transfer whose recipient is a system account, beside an exchange.
SystemTargetInput ==
  { Transfer("ann", annUSD, sysUSD, 60, none),
    ExchangeAtRate("ann", annUSD, annEUR, 40, none, FixedUSDEURRate) }

\* Two requests that may wait for each other, or be refused.
WaitingInput ==
  RefusedInput \cup SystemTargetInput \cup
  { Transfer("bob", bobUSD, annUSD, 55, none) }

\* An exchange whose recipient is the system account of the other currency.
SystemExchangeInput ==
  { ExchangeAtRate("ann", annUSD, sysEUR, 60, none, FixedUSDEURRate) }

Symmetry == Permutations(Request)

=============================================================================
