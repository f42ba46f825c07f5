-------------------------------- MODULE Bank --------------------------------
(***************************************************************************)
(* What the banking backend promises, with no sessions, locks or retries:   *)
(* a transfer or an exchange happens in one step on the current balances,   *)
(* or not at all.  TransactionService is shown to implement this module;    *)
(* that is the serializability of the code's transactions.                  *)
(***************************************************************************)
EXTENDS Rates

CONSTANTS
  Request,        \* identities of HTTP requests
  Account,        \* the rows of the table accounts
  Owner,          \* accounts.user_id of a row, or NoUser
  CurrencyOf,     \* accounts.currency of a row
  SystemAccount,  \* the system account of a currency
  OpeningBalance, \* accounts.balance of a row at the start
  Seed,           \* the part of it the migrations insert with no ledger entry
  Input,          \* the transfer and exchange requests that clients send
  NoKey,          \* no client_request_id
  NoQuote         \* no quote_id

VARIABLES
  balance,        \* accounts.balance
  ledger,         \* SUM(ledger_entries.amount) per account
  transactions,   \* the rows of transactions: [request, in]
  consumed        \* the quotes with a consumed_at

bankVars == <<balance, ledger, transactions, consumed>>

\* The unique index on (user_id, client_request_id).
SameKey(i, j) == /\ i.key # NoKey
                 /\ i.key = j.key
                 /\ i.user = j.user

Unprocessed(i) == \A row \in transactions : ~SameKey(row.in, i)

\* Nothing has been posted for the request.
Unposted(r) == \A row \in transactions : row.request # r

Covers(i) == /\ {i.from, i.to} \subseteq Account
             /\ i.amount > 0
             /\ Owner[i.from] = i.user
             /\ i.amount <= balance[i.from]

Add(f, a, n) == [f EXCEPT ![a] = @ + n]

Move(f, from, to, n) == Add(Add(f, from, -n), to, n)

BankInit ==
  /\ balance = OpeningBalance
  /\ ledger = [a \in Account |-> OpeningBalance[a] - Seed[a]]
  /\ transactions = {}
  /\ consumed = {}

\* Money moves between two accounts of one currency.
PostTransfer(r, i) ==
  /\ i.kind = "transfer"
  /\ Unposted(r) /\ Unprocessed(i)
  /\ Covers(i)
  /\ CurrencyOf[i.from] = CurrencyOf[i.to]
  /\ balance' = Move(balance, i.from, i.to, i.amount)
  /\ ledger' = Move(ledger, i.from, i.to, i.amount)
  /\ transactions' = transactions \cup {[request |-> r, in |-> i]}
  /\ UNCHANGED consumed

\* Money moves to the system account of its currency, and the converted amount
\* from the system account of the other currency.
PostExchange(r, i) ==
  LET fromCurrency == CurrencyOf[i.from]
      toCurrency   == CurrencyOf[i.to]
      converted    == ConvertMinor(i.amount, DirectionalRate(fromCurrency, toCurrency))
      MoveBoth(f)  == Move(Move(f, i.from, SystemAccount[fromCurrency], i.amount),
                           SystemAccount[toCurrency], i.to, converted)
  IN  /\ i.kind = "exchange"
      /\ Unposted(r) /\ Unprocessed(i)
      /\ Covers(i)
      /\ ExchangePairAllowed(fromCurrency, toCurrency)
      /\ converted <= balance[SystemAccount[toCurrency]]
      /\ i.quote \notin consumed
      /\ balance' = MoveBoth(balance)
      /\ ledger' = MoveBoth(ledger)
      /\ transactions' = transactions \cup {[request |-> r, in |-> i]}
      /\ consumed' = consumed \cup ({i.quote} \ {NoQuote})

BankNext == \E r \in Request, i \in Input : \/ PostTransfer(r, i)
                                            \/ PostExchange(r, i)

BankSpec == BankInit /\ [][BankNext]_bankVars

=============================================================================
