------------------------- MODULE TransactionService -------------------------
(***************************************************************************)
(* internal/services/transaction_service.go: Transfer, QuoteExchange and    *)
(* Exchange, with the store functions they call, as concurrent requests     *)
(* over the transactions of SerializableTx.  One action is the code between *)
(* two statements sent to the database.                                     *)
(*                                                                         *)
(* A request's updates and inserts are private to its transaction until the *)
(* commit, so they are computed from its snapshot and appear at Commit; an  *)
(* insert is a step of its own only where it can wait or fail, which is the *)
(* idempotency index and the quote.  Left out: the audit row and metadata   *)
(* (they carry no state back), and the balance broadcasts after the commit. *)
(***************************************************************************)
EXTENDS SerializableTx, Rates, FiniteSetsExt

CONSTANTS
  User, NoUser,   \* users, and the NULL user_id of a system account
  NoAccount,      \* an account id that names no row
  Owner,          \* accounts.user_id
  CurrencyOf,     \* accounts.currency
  SystemAccount,  \* per currency, the row with is_system = TRUE
  OpeningBalance, \* accounts.balance at the start
  Seed,           \* the part of it the migrations insert with no ledger entry
  Rank,           \* the string order of the account ids
  Quote, NoQuote, \* exchange_quotes ids, and the absence of a quote_id
  NoKey,          \* the absence of a client_request_id
  Input,          \* the requests clients send; rate is quoted_rate or 0
  QuoteInput      \* the quote requests they send

AccountId == Account \cup {NoAccount}

ASSUME ConfigAssumption ==
  /\ NoAccount \notin Account
  /\ NoUser \notin User
  /\ NoQuote \notin Quote
  /\ Owner \in [Account -> User \cup {NoUser}]
  /\ CurrencyOf \in [Account -> Currency]
  /\ SystemAccount \in [Currency -> Account]
  /\ \A c \in Currency : /\ CurrencyOf[SystemAccount[c]] = c
                         /\ Owner[SystemAccount[c]] = NoUser
  /\ OpeningBalance \in [Account -> Nat]
  /\ Seed \in [Account -> Nat]
  /\ Rank \in [AccountId -> Nat]
  /\ \A a, b \in AccountId : Rank[a] = Rank[b] => a = b

ASSUME InputAssumption ==
  /\ \A i \in Input : /\ i.kind \in {"transfer", "exchange"}
                      /\ i.user \in User
                      /\ i.from \in AccountId
                      /\ i.to \in AccountId
                      /\ i.amount \in Int
                      /\ i.quote \in Quote \cup {NoQuote}
                      /\ i.kind = "transfer" => i.quote = NoQuote
                      /\ i.rate \in Nat
  /\ \A i \in QuoteInput : /\ i.user \in User
                           /\ i.from \in AccountId
                           /\ i.to \in AccountId
                           /\ i.amount \in Int

VARIABLES
  req,           \* what each request asks
  ledger,        \* SUM(ledger_entries.amount) per account
  transactions,  \* the rows of transactions: [request, attempt, in]
  quotes,        \* the rows of exchange_quotes
  issuing,       \* the inserts of such rows: [at, in]
  seen           \* the status of its quote in a request's snapshot

vars == <<txVars, req, ledger, transactions, quotes, issuing, seen>>
tables == <<ledger, transactions, quotes, issuing>>

NoRow == [status |-> "absent"]

\* No insert of the row has begun, or one has failed: an id is used once.
NoInsert == [at |-> "nowhere"]
Failed == [at |-> "failed"]

\* consumed_at and expires_at of a row, as the code reads them.
QuoteStatus == {"absent", "open", "expired", "consumed"}

Init ==
  /\ TxInit(OpeningBalance)
  /\ req \in [Request -> Input]
  /\ ledger = [a \in Account |-> OpeningBalance[a] - Seed[a]]
  /\ transactions = {}
  /\ quotes = [q \in Quote |-> NoRow]
  /\ issuing = [q \in Quote |-> NoInsert]
  /\ seen = [r \in Request |-> "absent"]

----------------------------------------------------------------------------
(* The inserts of quotes. *)

\* The insert is one statement of its own.  The foreign keys of the new row
\* lock the account it changes from, and then the other, FOR KEY SHARE, which
\* waits for FOR UPDATE and makes FOR UPDATE wait.
Inserting(q) == issuing[q].at \in {"from", "to"}

WantedShare(q) == IF issuing[q].at = "from" THEN issuing[q].in.from
                                            ELSE issuing[q].in.to

Shared(q) == IF issuing[q].at = "to" THEN {issuing[q].in.from} ELSE {}

\* An insert holds its connection while it waits.
SpareConns == FreeConns - Cardinality({q \in Quote : Inserting(q)})

----------------------------------------------------------------------------
(* Before the transaction. *)

Arrive(r) ==
  /\ pc[r] = "idle"
  /\ Continue(r, "start")
  /\ UNCHANGED <<req, tables, seen>>

\* The quote was issued for this very exchange.
QuoteMatches(q, i) == /\ q.user = i.user
                      /\ q.from = i.from
                      /\ q.to = i.to
                      /\ q.amount = i.amount

QuoteError(i) ==
  LET q == quotes[i.quote]
  IN  IF q.status = "absent" THEN "quote_not_found"
      ELSE IF q.status = "consumed" THEN "quote_consumed"
      ELSE IF q.status = "expired" THEN "quote_expired"
      ELSE IF ~QuoteMatches(q, i) THEN "invalid_exchange"
      ELSE "none"

RequestError(i) ==
  IF i.amount <= 0 THEN "invalid_amount"
  ELSE IF i.kind = "transfer"
       THEN IF i.from = i.to THEN "same_account" ELSE "none"
  ELSE IF i.quote # NoQuote THEN QuoteError(i)
  ELSE IF i.rate = 0 THEN "invalid_exchange"
  ELSE "none"

\* Reading the quote takes a pooled connection for the length of the query.
Validate(r) ==
  /\ pc[r] = "start"
  /\ req[r].quote # NoQuote => SpareConns > 0
  /\ LET error == RequestError(req[r])
     IN  \/ error = "none" /\ Continue(r, "begin")
         \/ error # "none" /\ Return(r, error)
  /\ UNCHANGED <<req, tables, seen>>

\* NOW() is the start of the transaction: a quote that expires later is still
\* valid for it.
Begin(r) ==
  /\ SpareConns > 0
  /\ BeginTx(r, "lockLeft")
  /\ seen' = [seen EXCEPT ![r] = IF req[r].quote = NoQuote
                                 THEN "absent"
                                 ELSE quotes[req[r].quote].status]
  /\ UNCHANGED <<req, tables>>

----------------------------------------------------------------------------
(* lockTwoAccounts, for the user's accounts and then for the system's. *)

\* Mutant: the accounts are locked as the request names them.
OrderedIDsAsGiven(first, second) == <<first, second>>

OrderedIDs(first, second) ==
  IF Rank[first] <= Rank[second] THEN <<first, second>> ELSE <<second, first>>

\* Mutant: the system account of the wrong currency.
SystemFromSwapped(i) == SystemAccount[CurrencyOf[i.to]]

SystemFrom(i) == SystemAccount[CurrencyOf[i.from]]
SystemTo(i) == SystemAccount[CurrencyOf[i.to]]

LockSteps == {"lockLeft", "lockRight", "sysLeft", "sysRight"}

WantedRow(r) ==
  LET i == req[r]
  IN  CASE pc[r] = "lockLeft"  -> OrderedIDs(i.from, i.to)[1]
        [] pc[r] = "lockRight" -> OrderedIDs(i.from, i.to)[2]
        [] pc[r] = "sysLeft"   -> OrderedIDs(SystemFrom(i), SystemTo(i))[1]
        [] pc[r] = "sysRight"  -> OrderedIDs(SystemFrom(i), SystemTo(i))[2]

AfterLock(step) == CASE step = "lockLeft"  -> "lockRight"
                     [] step = "lockRight" -> "check"
                     [] step = "sysLeft"   -> "sysRight"
                     [] step = "sysRight"  -> "cover"

Lock(r) ==
  /\ pc[r] \in LockSteps
  /\ WantedRow(r) \in Account
  /\ \A q \in Quote : WantedRow(r) \notin Shared(q)
  /\ GetForUpdate(r, WantedRow(r), AfterLock(pc[r]))
  /\ UNCHANGED <<req, tables, seen>>

\* sql.ErrNoRows
MissingRow(r) ==
  /\ pc[r] \in LockSteps
  /\ WantedRow(r) \notin Account
  /\ RollbackTx(r, "failed")
  /\ UNCHANGED <<req, tables, seen>>

----------------------------------------------------------------------------
(* The decisions taken on the locked rows. *)

FundsMissing(r) == snapshot[r][req[r].from] < req[r].amount

Converted(i) ==
  ConvertMinor(i.amount, DirectionalRate(CurrencyOf[i.from], CurrencyOf[i.to]))

\* The rate is the quote's or the client's; a quote also fixes the result.
RateMismatch(i) ==
  LET quoted == IF i.quote = NoQuote THEN i.rate ELSE quotes[i.quote].rate
      expected == IF i.quote = NoQuote THEN 0 ELSE quotes[i.quote].converted
  IN  \/ quoted # DirectionalRate(CurrencyOf[i.from], CurrencyOf[i.to])
      \/ expected # 0 /\ expected # Converted(i)

AccountError(r) ==
  LET i == req[r]
      fromCurrency == CurrencyOf[i.from]
      toCurrency == CurrencyOf[i.to]
  IN  IF Owner[i.from] # i.user THEN "unauthorized"
      ELSE IF i.kind = "transfer" /\ fromCurrency # toCurrency
           THEN "currency_mismatch"
      ELSE IF i.kind = "exchange" /\ ~ExchangePairAllowed(fromCurrency, toCurrency)
           THEN "invalid_exchange"
      ELSE IF i.kind = "exchange" /\ RateMismatch(i) THEN "rate_mismatch"
      ELSE IF FundsMissing(r) THEN "insufficient_funds"
      ELSE "none"

Check(r) ==
  /\ pc[r] = "check"
  /\ LET error == AccountError(r)
     IN  \/ error # "none" /\ RollbackTx(r, error)
         \/ /\ error = "none"
            /\ Continue(r, IF req[r].kind = "exchange" THEN "sysIds" ELSE "insert")
  /\ UNCHANGED <<req, tables, seen>>

\* GetSystemAccount, twice, goes to the pool and not to the transaction: each
\* call needs a connection while this transaction keeps its own.
SystemIds(r) ==
  /\ pc[r] = "sysIds"
  /\ SpareConns > 0
  /\ Continue(r, "sysLeft")
  /\ UNCHANGED <<req, tables, seen>>

\* Mutant: the system account's funds are not checked.
SystemShortUnchecked(r) == FALSE

SystemShort(r) == snapshot[r][SystemTo(req[r])] - Converted(req[r]) < 0

Cover(r) ==
  /\ pc[r] = "cover"
  /\ \/ SystemShort(r) /\ RollbackTx(r, "insufficient_funds")
     \/ ~SystemShort(r) /\ Continue(r, "insert")
  /\ UNCHANGED <<req, tables, seen>>

----------------------------------------------------------------------------
(* The writes. *)

\* The unique index on (user_id, client_request_id).
SameKey(i, j) == /\ i.key # NoKey
                 /\ i.key = j.key
                 /\ i.user = j.user

\* An insert waits for an open transaction that has inserted the same key.
HoldsKey(s, r) == /\ s # r
                  /\ pc[s] \in {"consume", "commit"}
                  /\ SameKey(req[s], req[r])

\* Mutant: Exchange does not pass on the client_request_id.
DuplicateTransfer(r) ==
  \E row \in transactions : /\ SameKey(row.in, req[r])
                            /\ req[r].kind = "transfer"

Duplicate(r) == \E row \in transactions : SameKey(row.in, req[r])

\* Mutant: the quote is not consumed before the commit.
AfterInsertUnconsumed(i) == "commit"

AfterInsert(i) == IF i.quote = NoQuote THEN "commit" ELSE "consume"

\* TransactionStore.Create; 23505 is not retryable.
Insert(r) ==
  /\ pc[r] = "insert"
  /\ \A s \in Request : ~HoldsKey(s, r)
  /\ \/ Duplicate(r) /\ RollbackTx(r, "duplicate")
     \/ ~Duplicate(r) /\ Continue(r, AfterInsert(req[r]))
  /\ UNCHANGED <<req, tables, seen>>

HoldsQuote(s, r) == /\ s # r
                    /\ pc[s] = "commit"
                    /\ req[s].quote = req[r].quote

\* Consumed by a transaction that was open at the snapshot: 40001.
QuoteOutdated(r) == /\ quotes[req[r].quote].status = "consumed"
                    /\ seen[r] # "consumed"

\* UPDATE ... WHERE consumed_at IS NULL AND expires_at > NOW(): no row updated
\* is reported as ErrQuoteConsumed.
Consume(r) ==
  /\ pc[r] = "consume"
  /\ \A s \in Request : ~HoldsQuote(s, r)
  /\ ~QuoteOutdated(r)
  /\ \/ seen[r] = "open" /\ Continue(r, "commit")
     \/ seen[r] # "open" /\ RollbackTx(r, "quote_consumed")
  /\ UNCHANGED <<req, tables, seen>>

\* Mutant: the system account of the bought currency is not debited.
WrittenButSystemTo(i) == {i.from, i.to, SystemFrom(i)}

Written(i) == {i.from, i.to} \cup
              (IF i.kind = "exchange" THEN {SystemFrom(i), SystemTo(i)} ELSE {})

\* UpdateBalance, in the order of the code; every value comes from the balances
\* read under the locks, so a later write to the same row wins.
Staged(r) ==
  LET i == req[r]
      s == snapshot[r]
      users(credit) == [s EXCEPT ![i.from] = s[i.from] - i.amount,
                                 ![i.to] = s[i.to] + credit]
  IN  IF i.kind = "transfer" THEN users(i.amount)
      ELSE [users(Converted(i)) EXCEPT
              ![SystemFrom(i)] = s[SystemFrom(i)] + i.amount,
              ![SystemTo(i)] = s[SystemTo(i)] - Converted(i)]

Entry(f, a, amount) == [f EXCEPT ![a] = @ + amount]

\* LedgerStore.InsertEntries: what its two or four entries add to the sums per
\* account.
InsertEntries(sums, i) ==
  LET debit == Entry(sums, i.from, -i.amount)
      moved == Entry(debit, SystemFrom(i), i.amount)
      funded == Entry(moved, SystemTo(i), -Converted(i))
  IN  IF i.kind = "transfer" THEN Entry(debit, i.to, i.amount)
                             ELSE Entry(funded, i.to, Converted(i))

\* The row's id is a new one in every attempt of every request, which the
\* two stand for.
Commit(r) ==
  /\ pc[r] = "commit"
  /\ CommitTx(r, Written(req[r]), Staged(r))
  /\ ledger' = InsertEntries(ledger, req[r])
  /\ transactions' = transactions \cup
       {[request |-> r, attempt |-> attempt[r], in |-> req[r]]}
  /\ quotes' = IF req[r].quote = NoQuote THEN quotes
               ELSE [quotes EXCEPT ![req[r].quote].status = "consumed"]
  /\ UNCHANGED <<req, issuing, seen>>

----------------------------------------------------------------------------
(* What PostgreSQL and the world outside do to a request. *)

WaitsFor(r, s) ==
  \/ pc[r] \in LockSteps /\ s # r /\ WantedRow(r) \in locked[s]
  \/ pc[r] = "insert" /\ HoldsKey(s, r)
  \/ pc[r] = "consume" /\ HoldsQuote(s, r)

\* A request and the insert of a quote wait for each other's locks.
WaitsForInsert(r, q) == pc[r] \in LockSteps /\ WantedRow(r) \in Shared(q)
InsertWaitsFor(q, r) == Inserting(q) /\ WantedShare(q) \in locked[r]

Blocked(r) == \/ \E s \in Request : WaitsFor(r, s)
              \/ \E q \in Quote : WaitsForInsert(r, q)

\* Each request of S and insert of Q waits for one of them, and one for it.
WaitCycle(S, Q) ==
  /\ \A r \in S : /\ \/ \E s \in S : WaitsFor(r, s)
                    \/ \E q \in Q : WaitsForInsert(r, q)
                 /\ \/ \E s \in S : WaitsFor(s, r)
                    \/ \E q \in Q : InsertWaitsFor(q, r)
  /\ \A q \in Q : /\ \E r \in S : InsertWaitsFor(q, r)
                 /\ \E r \in S : WaitsForInsert(r, q)

\* 40001: the row is outdated, or PostgreSQL finds a dependency that could
\* break serializability, which it may do at any statement.
SerializationFailure(r) ==
  /\ pc[r] \in LockSteps \cup {"insert", "consume", "commit"}
  /\ ~Blocked(r)
  /\ RetryTx(r)
  /\ UNCHANGED <<req, tables, seen>>

\* 40P01
DeadlockAbort(r) ==
  /\ \E S \in SUBSET Request, Q \in SUBSET Quote : r \in S /\ WaitCycle(S, Q)
  /\ RetryTx(r)
  /\ UNCHANGED <<req, tables, seen>>

\* What the code makes of a lost connection or a cancelled context: the error
\* itself, or that there is no quote when GetByID returns it.
LossErrors(r) == {"failed"} \cup
  (IF pc[r] = "start" /\ req[r].quote # NoQuote THEN {"quote_not_found"} ELSE {})

\* The client disconnects, which cancels the context of the request, or the
\* connection or the server is lost.
Abandon(r) ==
  /\ pc[r] \notin {"idle", "done"}
  /\ \E error \in LossErrors(r) : RollbackTx(r, error)
  /\ UNCHANGED <<req, tables, seen>>

\* QuoteExchange when no check fails, up to the insert; otherwise it changes
\* nothing.
QuoteExchange(q) ==
  /\ quotes[q] = NoRow
  /\ issuing[q] = NoInsert
  /\ SpareConns > 0
  /\ \E i \in QuoteInput :
       /\ i.amount > 0
       /\ {i.from, i.to} \subseteq Account
       /\ Owner[i.from] = i.user
       /\ ExchangePairAllowed(CurrencyOf[i.from], CurrencyOf[i.to])
       /\ issuing' = [issuing EXCEPT ![q] = [at |-> "from", in |-> i]]
  /\ UNCHANGED <<txVars, req, ledger, transactions, quotes, seen>>

Issued(i) ==
  [status |-> "open", user |-> i.user, from |-> i.from, to |-> i.to,
   amount |-> i.amount, converted |-> Converted(i),
   rate |-> DirectionalRate(CurrencyOf[i.from], CurrencyOf[i.to])]

\* The insert gets a lock; with the second one it is done.
KeyShare(q) ==
  /\ Inserting(q)
  /\ \A r \in Request : WantedShare(q) \notin locked[r]
  /\ \/ /\ issuing[q].at = "from"
        /\ issuing' = [issuing EXCEPT ![q].at = "to"]
        /\ UNCHANGED quotes
     \/ /\ issuing[q].at = "to"
        /\ issuing' = [issuing EXCEPT ![q] = NoInsert]
        /\ quotes' = [quotes EXCEPT ![q] = Issued(issuing[q].in)]
  /\ UNCHANGED <<txVars, req, ledger, transactions, seen>>

\* The context is cancelled, the connection is lost, or PostgreSQL breaks a
\* deadlock: QuoteExchange returns the error and does not try again.
QuoteFails(q) ==
  /\ Inserting(q)
  /\ issuing' = [issuing EXCEPT ![q] = Failed]
  /\ UNCHANGED <<txVars, req, ledger, transactions, quotes, seen>>

\* Handler.Reconcile and SelfCheck, one query each on what is committed.
Difference(a) == balance[a] - ledger[a]

\* Two minutes pass.
Expire(q) ==
  /\ quotes[q].status = "open"
  /\ quotes' = [quotes EXCEPT ![q].status = "expired"]
  /\ UNCHANGED <<txVars, req, ledger, transactions, issuing, seen>>

QuoteStep(q) == QuoteExchange(q) \/ KeyShare(q) \/ QuoteFails(q) \/ Expire(q)

\* What the server and the database do by themselves.
Serve(r) ==
  \/ Validate(r) \/ Begin(r) \/ Lock(r) \/ MissingRow(r) \/ Check(r)
  \/ SystemIds(r) \/ Cover(r) \/ Insert(r) \/ Consume(r) \/ Commit(r)
  \/ SerializationFailure(r) \/ DeadlockAbort(r)

Next ==
  \/ \E r \in Request : Arrive(r) \/ Serve(r) \/ Abandon(r)
  \/ \E q \in Quote : QuoteStep(q)

Spec == Init /\ [][Next]_vars

\* Goroutines run, queries end and PostgreSQL resolves deadlocks.
FairSpec == Spec /\ \A r \in Request : WF_vars(Serve(r))
                 /\ \A q \in Quote : WF_vars(KeyShare(q))

----------------------------------------------------------------------------
(* Properties. *)

Steps == Outside \cup LockSteps \cup
         {"check", "sysIds", "cover", "insert", "consume", "commit"}

\* The answers that tell the client that nothing was done.
Refusals == {"invalid_amount", "same_account", "invalid_exchange",
             "quote_not_found", "quote_consumed", "quote_expired",
             "unauthorized", "currency_mismatch", "rate_mismatch",
             "insufficient_funds", "duplicate"}

Answers == Refusals \cup {"none", "ok", "failed"}

QuoteRow == [status : QuoteStatus \ {"absent"}, user : User, from : Account,
             to : Account, amount : Int, converted : Int, rate : Int]

\* The values the variables may take.  A request is attempted at most
\* MaxAttempts times, and rows are locked inside a transaction only.
TypeOK ==
  /\ pc \in [Request -> Steps]
  /\ attempt \in [Request -> 1..MaxAttempts]
  /\ answer \in [Request -> Answers]
  /\ balance \in [Account -> Int]
  /\ snapshot \in [Request -> [Account -> Int]]
  /\ locked \in [Request -> SUBSET Account]
  /\ \A r \in Request : locked[r] # {} => InTx(r)
  /\ missed \in [Request -> SUBSET Account]
  /\ req \in [Request -> Input]
  /\ ledger \in [Account -> Int]
  /\ transactions \subseteq
       [request : Request, attempt : 1..MaxAttempts, in : Input]
  /\ quotes \in [Quote -> QuoteRow \cup {NoRow}]
  /\ issuing \in [Quote -> {NoInsert, Failed} \cup
                            [at : {"from", "to"}, in : QuoteInput]]
  /\ seen \in [Request -> QuoteStatus]

Posted(r) == \E row \in transactions : row.request = r

\* Every balance is what the ledger says it is: the differences that Reconcile
\* shows are what the migrations seeded without an entry, and none other.
Reconciled == \A a \in Account : Difference(a) = Seed[a]

\* The total of every currency stays what it was: an exchange creates and
\* destroys no money, whatever it converts.
Total(f, c) == MapThenSumSet(LAMBDA a : f[a], {a \in Account : CurrencyOf[a] = c})

MoneyConserved ==
  \A c \in Currency : Total(balance, c) = Total(OpeningBalance, c)

\* No balance goes below zero, neither committed nor in the updates of an open
\* transaction: CHECK (balance >= 0) has nothing to catch.
NoOverdraft ==
  /\ \A a \in Account : balance[a] >= 0
  /\ \A r \in Request : pc[r] \in {"insert", "consume", "commit"} =>
       \A a \in Written(req[r]) : Staged(r)[a] >= 0

\* A user's client_request_id is processed once, however often and however
\* concurrently the client sends it.
OncePerKey == \A row, other \in transactions :
                SameKey(row.in, other.in) => row = other

\* A request is posted once, although each attempt of WithTx would insert a row
\* of its own and an acknowledged commit may look like a failure.
OncePerRequest == \A row, other \in transactions :
                    row.request = other.request => row = other

\* A quote is used by one exchange, with the terms it was issued for, whose
\* transaction began before the quote expired, and is consumed exactly when
\* that exchange is posted.
QuoteHonoured ==
  /\ \A row \in transactions : row.in.quote # NoQuote =>
       /\ quotes[row.in.quote].status = "consumed"
       /\ QuoteMatches(quotes[row.in.quote], row.in)
       /\ Converted(row.in) = quotes[row.in.quote].converted
       /\ seen[row.request] = "open"
       /\ \A other \in transactions :
            other.in.quote = row.in.quote => other = row
  /\ \A q \in Quote : quotes[q].status = "consumed" =>
       \E row \in transactions : row.in.quote = q

\* What the client is told is so: ok means posted, a refusal means not posted,
\* and duplicate means that another request has posted the key.  Only failed
\* says nothing, because an acknowledged commit may be lost on the way.
AnswerTruthful == \A r \in Request :
  /\ answer[r] = "ok" => Posted(r)
  /\ answer[r] \in Refusals => ~Posted(r)
  /\ answer[r] = "duplicate" =>
       \E row \in transactions : row.request # r /\ SameKey(row.in, req[r])


\* Transfers and exchanges do lock in a consistent order: in every deadlock
\* there is a quote, from an account that comes after the other in that order.
OnlyQuotesCross == \A S \in (SUBSET Request) \ {{}}, Q \in SUBSET Quote :
  WaitCycle(S, Q) =>
    \E q \in Q : Rank[issuing[q].in.from] > Rank[issuing[q].in.to]

\* The concurrent, retried transactions are serializable: each posted request
\* happens in one step on the current balances.
Postings == {[request |-> row.request, in |-> row.in] : row \in transactions}
Consumed == {q \in Quote : quotes[q].status = "consumed"}

B == INSTANCE Bank WITH transactions <- Postings, consumed <- Consumed

ImplementsBank == B!BankSpec

\* Every request is answered, through lock waits, deadlocks and retries, as
\* long as the pool has a connection to spare for GetSystemAccount.
EventuallyAnswered == \A r \in Request : pc[r] = "start" ~> pc[r] = "done"

=============================================================================
