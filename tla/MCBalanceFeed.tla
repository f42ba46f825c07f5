--------------------------- MODULE MCBalanceFeed ---------------------------
(***************************************************************************)
(* Small instances of BalanceFeed: Ann has two pages open while Bob pays    *)
(* her and she changes money, or while one of them changes money into the    *)
(* other's account.                                                         *)
(***************************************************************************)
EXTENDS BalanceFeed, MCTransactionService

CONSTANTS c1, c2

MCClientUser == c1 :> "ann" @@ c2 :> "ann"

BobPaysAnn == Transfer("bob", bobUSD, annUSD, 20, none)
AnnExchanges == ExchangeAtRate("ann", annUSD, annEUR, 40, none, FixedUSDEURRate)

\* Ann's pages are told of the first of these, which pays Bob, and not of the
\* second.
AnnExchangesForBob ==
  ExchangeAtRate("ann", annUSD, bobEUR, 40, none, FixedUSDEURRate)
BobExchangesForAnn ==
  ExchangeAtRate("bob", bobEUR, annUSD, 40, none, InverseRate)
Refused == Transfer("bob", bobUSD, annUSD, 0, none)

FeedInput ==
  {BobPaysAnn, AnnExchanges, AnnExchangesForBob, BobExchangesForAnn, Refused}

\* Ann's dollars are credited by one request and debited by the other.
PaidInit == FeedInit /\ req[r1] = BobPaysAnn /\ req[r2] = AnnExchanges

CrossedInit == /\ FeedInit
               /\ req[r1] \in {AnnExchangesForBob, BobExchangesForAnn}
               /\ req[r2] = Refused

PaidFeedSpec == PaidInit /\ [][FeedNext]_allVars

MCFeedSpec == (PaidInit \/ CrossedInit) /\ [][FeedNext]_allVars
MCFairFeedSpec == MCFeedSpec /\ FeedFairness

=============================================================================
