------------------------------ MODULE MCBackend ------------------------------
(***************************************************************************)
(* A small instance of Backend: two registrations of the same name or of    *)
(* two names, beside an exchange or a transfer of Ann, who may pay a new    *)
(* user.  The system EUR account comes before the system USD account in the *)
(* order of the ids, as random uuids may fall, so exchanges and             *)
(* registrations lock them in opposite orders; it can fund two registrations *)
(* or one and the exchange, not all of them.                                *)
(***************************************************************************)
EXTENDS Backend, TLC

CONSTANTS m1, n1, n2, annUSD, annEUR, sysUSD, sysEUR, none

MCRequest == {m1, n1, n2}
MCRegistrant == {n1, n2}
MCNewAccount == [r \in MCRegistrant |-> [c \in {"USD", "EUR"} |-> <<r, c>>]]

MCAccount == {<<annUSD>>, <<annEUR>>, <<sysUSD>>, <<sysEUR>>}
             \cup (MCRegistrant \X {"USD", "EUR"})

PerAccount(au, ae, su, se, nu, ne) ==
  [a \in MCAccount |-> CASE a = <<annUSD>> -> au
                         [] a = <<annEUR>> -> ae
                         [] a = <<sysUSD>> -> su
                         [] a = <<sysEUR>> -> se
                         [] OTHER -> IF a[2] = "USD" THEN nu ELSE ne]

MCOwner == [a \in MCAccount |->
  CASE a \in {<<annUSD>>, <<annEUR>>} -> "ann"
    [] a \in {<<sysUSD>>, <<sysEUR>>} -> "NULL"
    [] OTHER -> IF a[1] = n1 THEN "newcomer1" ELSE "newcomer2"]

MCCurrencyOf == PerAccount("USD", "EUR", "USD", "EUR", "USD", "EUR")
MCSystemAccount == [USD |-> <<sysUSD>>, EUR |-> <<sysEUR>>]
MCOpeningBalance == PerAccount(40, 0, 500, 110, 0, 0)
MCSeed == PerAccount(0, 0, 700, 160, 0, 0)
MCOpeningAmount == [USD |-> 100, EUR |-> 50]

MCRank == (<<n1, "USD">> :> 1) @@ (<<sysEUR>> :> 2) @@ (<<annUSD>> :> 3)
          @@ (<<annEUR>> :> 4) @@ (<<sysUSD>> :> 5) @@ (<<n1, "EUR">> :> 6)
          @@ (<<n2, "USD">> :> 7) @@ (<<n2, "EUR">> :> 8) @@ (none :> 9)

Ask(kind, to, amount, rate) ==
  [kind |-> kind, user |-> "ann", from |-> <<annUSD>>, to |-> to,
   amount |-> amount, key |-> none, quote |-> none, rate |-> rate]

MCInput == { Ask("exchange", <<annEUR>>, 30, FixedUSDEURRate),
             Ask("transfer", <<n1, "USD">>, 20, 0) }

MCForm == { [username |-> "bob", email |-> "b@x"],
            [username |-> "eve", email |-> "e@x"] }

=============================================================================
