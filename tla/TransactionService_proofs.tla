---------------------- MODULE TransactionService_proofs ----------------------
(***************************************************************************)
(* Proofs about TransactionService, for any users, accounts, requests, pool *)
(* size and number of attempts.                                             *)
(*                                                                         *)
(* IInv is the inductive invariant.  Beside the types and what the          *)
(* transactions guarantee (TxInv), it says of each request by itself what   *)
(* the code has established by the position it has reached: Validated after *)
(* the early returns, RowsLocked after each lock, Approved after the checks *)
(* on the locked rows.  These hold of a request through the steps of the    *)
(* others because nothing they speak of changes under its locks.  Issuing   *)
(* says the same of the inserts of quotes.                                  *)
(*                                                                         *)
(* The sections: the operators, the steps and IInv; the books and their     *)
(* balances; what is processed once and answered; the refinement of Bank;   *)
(* the order of the locks; the total of a currency.                         *)
(***************************************************************************)
EXTENDS TransactionService, SerializableTx_proofs, FiniteSetTheorems,
        WellFoundedInduction

SystemSteps == {"sysIds", "sysLeft", "sysRight", "cover"}
Writing == {"insert", "consume", "commit"}
Decided == SystemSteps \cup Writing

\* The early returns were passed; a quote that was found stays as it is.
Validated(r) ==
  pc[r] \notin {"idle", "start", "done"} =>
    /\ req[r].amount > 0
    /\ req[r].kind = "transfer" => req[r].from # req[r].to
    /\ req[r].quote # NoQuote =>
         /\ quotes[req[r].quote] # NoRow
         /\ QuoteMatches(quotes[req[r].quote], req[r])

\* The rows that the code has locked by now.
RowsLocked(r) ==
  LET i == req[r]
  IN  /\ pc[r] = "lockRight" => OrderedIDs(i.from, i.to)[1] \in locked[r]
      /\ pc[r] \in {"check"} \cup Decided => {i.from, i.to} \subseteq locked[r]
      /\ pc[r] = "sysRight" =>
           OrderedIDs(SystemFrom(i), SystemTo(i))[1] \in locked[r]
      /\ pc[r] \in {"cover"} \cup Writing /\ i.kind = "exchange" =>
           {SystemFrom(i), SystemTo(i)} \subseteq locked[r]

\* The checks that the code has made on them.
Approved(r) ==
  LET i == req[r]
  IN  /\ pc[r] \in SystemSteps => i.kind = "exchange"
      /\ pc[r] \in Decided =>
           /\ Owner[i.from] = i.user
           /\ i.kind = "transfer" => CurrencyOf[i.from] = CurrencyOf[i.to]
           /\ i.kind = "exchange" =>
                ExchangePairAllowed(CurrencyOf[i.from], CurrencyOf[i.to])
           /\ snapshot[r][i.from] >= i.amount
      /\ pc[r] \in Writing /\ i.kind = "exchange" =>
           snapshot[r][SystemTo(i)] >= Converted(i)

Local(r) == Validated(r) /\ RowsLocked(r) /\ Approved(r)

\* The checks of QuoteExchange were passed; a row is inserted once.
Issuing == \A q \in Quote : Inserting(q) =>
  /\ quotes[q] = NoRow
  /\ issuing[q].in \in QuoteInput
  /\ {issuing[q].in.from, issuing[q].in.to} \subseteq Account
  /\ Owner[issuing[q].in.from] = issuing[q].in.user

IInv == TypeOK /\ TxInv /\ Issuing /\ \A r \in Request : Local(r)

\* What the steps of one request rest on, whatever the others are: requests of
\* another kind may share the database with it.
TablesOK ==
  /\ req \in [Request -> Input]
  /\ ledger \in [Account -> Int]
  /\ transactions \subseteq
       [request : Request, attempt : 1..MaxAttempts, in : Input]
  /\ quotes \in [Quote -> QuoteRow \cup {NoRow}]
  /\ seen \in [Request -> QuoteStatus]

Sound(r) == TxInv /\ TablesOK /\ Local(r)

LEMMA SoundRequest ==
  ASSUME IInv, NEW r \in Request
  PROVE  Sound(r)
BY DEF IInv, TypeOK, TablesOK, Sound

----------------------------------------------------------------------------
(* Operators. *)

\* Locking two rows in order locks the two rows.
LEMMA OrderedIDsPair ==
  ASSUME NEW a, NEW b
  PROVE  {OrderedIDs(a, b)[1], OrderedIDs(a, b)[2]} = {a, b}
BY DEF OrderedIDs

\* The rates are positive integers.
LEMMA RatesPositive ==
  /\ FixedUSDEURRate \in Nat \ {0}
  /\ InverseRate \in Nat \ {0}
  /\ \A c, d : DirectionalRate(c, d) \in Nat \ {0}
<1>1. FixedUSDEURRate \in Nat \ {0}
  BY DEF FixedUSDEURRate
<1>2. InverseRate = 1086957
  BY SMT DEF InverseRate, RoundBank, RateScale
<1>3. QED
  BY <1>1, <1>2 DEF DirectionalRate

\* RoundBank returns an integer, and a natural number for a natural fraction.
LEMMA RoundBankType ==
  ASSUME NEW n \in Int, NEW d \in Nat \ {0}
  PROVE  RoundBank(n, d) \in Int /\ (n >= 0 => RoundBank(n, d) \in Nat)
<1>1. n \div d \in Int /\ (n >= 0 => n \div d \in Nat)
  OBVIOUS
<1>2. QED
  BY <1>1 DEF RoundBank

\* Converting an amount gives an integer, and no debt from a credit.
LEMMA ConvertedType ==
  ASSUME NEW i, i.amount \in Int
  PROVE  Converted(i) \in Int /\ (i.amount >= 0 => Converted(i) >= 0)
<1> DEFINE rate == DirectionalRate(CurrencyOf[i.from], CurrencyOf[i.to])
<1>1. rate \in Nat \ {0}
  BY RatesPositive
<1> HIDE DEF rate
<1>2. i.amount * rate \in Int /\ (i.amount >= 0 => i.amount * rate >= 0)
  BY <1>1
<1>3. RateScale \in Nat \ {0}
  BY DEF RateScale
<1>4. Converted(i) = RoundBank(i.amount * rate, RateScale)
  BY DEF Converted, ConvertMinor, rate
<1>5. QED
  BY <1>2, <1>3, <1>4, RoundBankType

----------------------------------------------------------------------------
(* Steps. *)

\* The inputs have the types InputAssumption gives them.
LEMMA InputType ==
  ASSUME TypeOK, NEW r \in Request
  PROVE  /\ req[r] \in Input
         /\ req[r].user \in User
         /\ req[r].amount \in Int
         /\ req[r].quote \in Quote \cup {NoQuote}
         /\ req[r].kind \in {"transfer", "exchange"}
BY InputAssumption DEF TypeOK

LEMMA InputTyped ==
  ASSUME TablesOK, NEW r \in Request
  PROVE  /\ req[r] \in Input
         /\ req[r].user \in User
         /\ req[r].amount \in Int
         /\ req[r].quote \in Quote \cup {NoQuote}
         /\ req[r].kind \in {"transfer", "exchange"}
BY InputAssumption DEF TablesOK

\* An update of a function of integers.
LEMMA EntryType ==
  ASSUME NEW f \in [Account -> Int], NEW a \in Account, NEW n \in Int
  PROVE  /\ Entry(f, a, n) \in [Account -> Int]
         /\ Entry(f, a, n)[a] = f[a] + n
         /\ \A b \in Account : b # a => Entry(f, a, n)[b] = f[b]
BY DEF Entry

\* The system accounts are accounts.
LEMMA SystemAccounts ==
  ASSUME NEW i, i.from \in Account, i.to \in Account
  PROVE  /\ SystemFrom(i) \in Account
         /\ SystemTo(i) \in Account
         /\ CurrencyOf[SystemFrom(i)] = CurrencyOf[i.from]
         /\ CurrencyOf[SystemTo(i)] = CurrencyOf[i.to]
         /\ Owner[SystemFrom(i)] = NoUser
         /\ Owner[SystemTo(i)] = NoUser
BY ConfigAssumption DEF SystemFrom, SystemTo

\* What a transfer or an exchange between accounts writes are balances.
LEMMA StagedType ==
  ASSUME NEW r \in Request, Sound(r), {req[r].from, req[r].to} \subseteq Account
  PROVE  /\ Staged(r) \in [Account -> Int]
         /\ InsertEntries(ledger, req[r]) \in [Account -> Int]
         /\ Written(req[r]) \subseteq Account
<1> DEFINE i == req[r]
           s == snapshot[r]
           credit == IF i.kind = "transfer" THEN i.amount ELSE Converted(i)
           debited == Entry(ledger, i.from, -i.amount)
           users == [s EXCEPT ![i.from] = s[i.from] - i.amount,
                              ![i.to] = s[i.to] + credit]
           moved == Entry(debited, SystemFrom(i), i.amount)
           funded == Entry(moved, SystemTo(i), -Converted(i))
<1>1. /\ i.amount \in Int /\ Converted(i) \in Int /\ credit \in Int
      /\ -i.amount \in Int /\ -Converted(i) \in Int
  BY InputTyped, ConvertedType DEF Sound
<1>2. s \in [Account -> Int] /\ ledger \in [Account -> Int]
  BY DEF Sound, TxInv, TxTypeOK, TablesOK
<1>3. /\ i.from \in Account /\ i.to \in Account
      /\ SystemFrom(i) \in Account /\ SystemTo(i) \in Account
  BY SystemAccounts
<1>4. debited \in [Account -> Int] /\ users \in [Account -> Int]
  <2> HIDE DEF credit, i, s
  <2>1. debited \in [Account -> Int]
    BY <1>1, <1>2, <1>3, EntryType
  <2>2. users \in [Account -> Int]
    BY <1>1, <1>2, <1>3
  <2>3. QED
    BY <2>1, <2>2
<1>5. CASE i.kind = "transfer"
  BY <1>1, <1>3, <1>4, <1>5, EntryType DEF Staged, InsertEntries, Written
<1>6. CASE i.kind = "exchange"
  <2>1. InsertEntries(ledger, i) = Entry(funded, i.to, Converted(i))
    BY <1>6 DEF InsertEntries
  <2>2. Staged(r) = [users EXCEPT ![SystemFrom(i)] = s[SystemFrom(i)] + i.amount,
                                  ![SystemTo(i)] = s[SystemTo(i)] - Converted(i)]
    BY <1>6 DEF Staged
  <2> HIDE DEF debited, users, s, i
  <2>3. moved \in [Account -> Int]
    BY <1>1, <1>3, <1>4, EntryType
  <2> HIDE DEF moved
  <2>4. funded \in [Account -> Int]
    BY <1>1, <1>3, <2>3, EntryType
  <2> HIDE DEF funded
  <2>5. InsertEntries(ledger, i) \in [Account -> Int]
    <3>1. Entry(funded, i.to, Converted(i)) \in [Account -> Int]
      BY <1>1, <1>3, <2>4, EntryType
    <3>2. QED
      BY <2>1, <3>1
  <2>6. Staged(r) \in [Account -> Int]
    BY <1>1, <1>2, <1>3, <1>4, <2>2
  <2>7. Written(i) \subseteq Account
    BY <1>3 DEF Written
  <2>8. QED
    BY <2>5, <2>6, <2>7 DEF i
<1>7. QED
  BY <1>5, <1>6, InputTyped DEF Sound

\* The step of one request leaves every other request where it is.
LEMMA OthersStay ==
  ASSUME TypeOK, NEW r \in Request, NEW s \in Request \ {r},
         Arrive(s) \/ Serve(s) \/ Abandon(s)
  PROVE  /\ pc'[r] = pc[r]
         /\ locked'[r] = locked[r]
         /\ snapshot'[r] = snapshot[r]
         /\ seen'[r] = seen[r]
         /\ answer'[r] = answer[r]
         /\ attempt'[r] = attempt[r]
<1>1. CASE Arrive(s) \/ Abandon(s)
  BY <1>1 DEF TypeOK, Arrive, Abandon, Continue, Goto, RollbackTx, EndTx
<1>2. CASE Validate(s) \/ Begin(s) \/ Check(s) \/ SystemIds(s) \/ Cover(s)
  BY <1>2 DEF TypeOK, Validate, Begin, Check, SystemIds, Cover, Continue, Return,
              Goto, BeginTx, RollbackTx, EndTx
<1>3. CASE Lock(s) \/ MissingRow(s) \/ SerializationFailure(s) \/ DeadlockAbort(s)
  BY <1>3 DEF TypeOK, Lock, MissingRow, SerializationFailure, DeadlockAbort, Goto,
              GetForUpdate, RollbackTx, RetryTx, EndTx
<1>4. CASE Insert(s) \/ Consume(s) \/ Commit(s)
  BY <1>4 DEF TypeOK, Insert, Consume, Commit, Continue, Goto, RollbackTx,
              CommitTx, EndTx
<1>5. QED
  BY <1>1, <1>2, <1>3, <1>4 DEF Serve

\* The steps of quotes touch nothing else.
LEMMA QuoteStepKeeps ==
  ASSUME NEW q \in Quote, QuoteStep(q)
  PROVE  UNCHANGED <<txVars, req, ledger, transactions, seen>>
BY DEF QuoteStep, QuoteExchange, KeyShare, QuoteFails, Expire

\* No step takes a quote back or changes its terms.
LEMMA QuotesStay ==
  ASSUME IInv, Next, NEW q \in Quote, quotes[q] # NoRow
  PROVE  /\ quotes'[q] # NoRow
         /\ quotes'[q].user = quotes[q].user
         /\ quotes'[q].from = quotes[q].from
         /\ quotes'[q].to = quotes[q].to
         /\ quotes'[q].amount = quotes[q].amount
         /\ quotes'[q].converted = quotes[q].converted
         /\ quotes'[q].rate = quotes[q].rate
<1>1. quotes[q] \in QuoteRow
  BY DEF IInv, TypeOK
<1>2. \A c, s : [quotes EXCEPT ![c].status = s][q] \in
                  {quotes[q], [quotes[q] EXCEPT !.status = s]}
  BY DEF IInv, TypeOK
<1>3. \/ quotes' = quotes
      \/ \E c, s : s \in {"consumed", "expired"} /\ quotes' = [quotes EXCEPT ![c].status = s]
      \/ \E c \in Quote : \E row : quotes[c] = NoRow /\ quotes' = [quotes EXCEPT ![c] = row]
  BY DEF IInv, Issuing, Next, Arrive, Serve, Validate, Begin, Lock, MissingRow,
         Check, SystemIds, Cover, Insert, Consume, Commit, SerializationFailure,
         DeadlockAbort, Abandon, QuoteStep, QuoteExchange, KeyShare, QuoteFails,
         Expire, tables
<1>4. /\ quotes \in [Quote -> QuoteRow \cup {NoRow}]
      /\ QuoteRow = [status : QuoteStatus \ {"absent"}, user : User,
                     from : Account, to : Account, amount : Int,
                     converted : Int, rate : Int]
  BY DEF IInv, TypeOK, QuoteRow
<1>5. CASE quotes'[q] = quotes[q]
  BY <1>5
<1>6. ASSUME NEW s \in {"consumed", "expired"},
             quotes'[q] = [quotes[q] EXCEPT !.status = s]
      PROVE  /\ quotes'[q] # NoRow
             /\ quotes'[q].user = quotes[q].user
             /\ quotes'[q].from = quotes[q].from
             /\ quotes'[q].to = quotes[q].to
             /\ quotes'[q].amount = quotes[q].amount
             /\ quotes'[q].converted = quotes[q].converted
             /\ quotes'[q].rate = quotes[q].rate
  BY <1>1, <1>4, <1>6 DEF NoRow
<1>7. \/ quotes'[q] = quotes[q]
      \/ \E s \in {"consumed", "expired"} :
           quotes'[q] = [quotes[q] EXCEPT !.status = s]
  <2>1. ASSUME NEW c, NEW s \in {"consumed", "expired"},
               quotes' = [quotes EXCEPT ![c].status = s]
        PROVE  quotes'[q] \in {quotes[q], [quotes[q] EXCEPT !.status = s]}
    BY <2>1, <1>2
  <2>2. ASSUME NEW c \in Quote, NEW row, quotes[c] = NoRow,
               quotes' = [quotes EXCEPT ![c] = row]
        PROVE  quotes'[q] = quotes[q]
    BY <2>2, <1>4
  <2>3. QED
    BY <1>3, <2>1, <2>2
<1>8. QED
  BY <1>5, <1>6, <1>7

\* The checks answer with an error they name.
LEMMA ErrorTypes ==
  ASSUME NEW r \in Request
  PROVE  /\ RequestError(req[r]) \in Answers
         /\ AccountError(r) \in Answers
BY DEF RequestError, QuoteError, AccountError, Answers, Refusals

\* After the checks an account is named by each side of the request.
LEMMA LockedAccounts ==
  ASSUME NEW r \in Request, Sound(r), pc[r] \in {"check"} \cup Decided
  PROVE  {req[r].from, req[r].to} \subseteq Account
BY DEF Sound, TxInv, TxTypeOK, Local, RowsLocked

\* What a commit writes is locked.
LEMMA WrittenLocked ==
  ASSUME NEW r \in Request, Sound(r), pc[r] = "commit"
  PROVE  Written(req[r]) \subseteq locked[r]
BY DEF Sound, Local, RowsLocked, Written, Writing, Decided

\* An issued quote has the type of a row.
LEMMA IssuedType ==
  ASSUME IInv, NEW q \in Quote, Inserting(q)
  PROVE  Issued(issuing[q].in) \in QuoteRow
<1> DEFINE i == issuing[q].in
<1>1. /\ i.user \in User /\ i.from \in Account /\ i.to \in Account
      /\ i.amount \in Int
  BY InputAssumption DEF IInv, Issuing
<1> HIDE DEF i
<1>2. Converted(i) \in Int
  BY <1>1, ConvertedType
<1>3. DirectionalRate(CurrencyOf[i.from], CurrencyOf[i.to]) \in Int
  BY RatesPositive
<1>4. Issued(i) \in QuoteRow
  BY <1>1, <1>2, <1>3 DEF Issued, QuoteRow, QuoteStatus
<1>5. QED
  BY <1>4 DEF i

\* Setting the status of a row keeps its type.
LEMMA StatusType ==
  ASSUME TypeOK, NEW q \in Quote, quotes[q] # NoRow,
         NEW status \in {"consumed", "expired"},
         quotes' = [quotes EXCEPT ![q].status = status]
  PROVE  quotes' \in [Quote -> QuoteRow \cup {NoRow}]
<1>1. quotes[q] \in QuoteRow
  BY DEF TypeOK
<1>2. [quotes[q] EXCEPT !.status = status] \in QuoteRow
  BY <1>1 DEF QuoteRow, QuoteStatus
<1>3. QED
  BY <1>2 DEF TypeOK

\* The steps of a request keep what the transactions guarantee.
LEMMA OwnTx ==
  ASSUME NEW r \in Request, Sound(r), Arrive(r) \/ Serve(r) \/ Abandon(r)
  PROVE  TxInv'
<1>0. TxInv
  BY DEF Sound
<1>1. CASE Arrive(r)
  BY <1>0, <1>1, ContinueInv DEF Arrive, Outside
<1>2. CASE Validate(r)
  BY <1>0, <1>2, ContinueInv, ReturnInv DEF Validate, Outside
<1>3. CASE Begin(r)
  BY <1>0, <1>3, BeginTxInv DEF Begin
<1>4. CASE Lock(r)
  BY <1>0, <1>4, GetForUpdateInv DEF Lock, LockSteps, AfterLock, InTx, Outside
<1>5. CASE Commit(r)
  <2>1. {req[r].from, req[r].to} \subseteq Account
    BY <1>5, LockedAccounts DEF Commit, Decided, Writing
  <2>2. Written(req[r]) \subseteq locked[r]
    BY <1>5, WrittenLocked DEF Commit
  <2>3. QED
    BY <1>0, <1>5, <2>1, <2>2, StagedType, CommitTxInv DEF Commit
<1>6. CASE Check(r) \/ Cover(r) \/ Insert(r) \/ Consume(r) \/ SystemIds(r)
           \/ MissingRow(r) \/ Abandon(r)
  <2>1. \/ \E where : /\ Continue(r, where)
                      /\ pc[r] \notin Outside
                      /\ where \notin Outside
        \/ \E error : RollbackTx(r, error)
    BY <1>6 DEF Check, Cover, Insert, AfterInsert, Consume, SystemIds,
                MissingRow, Abandon, Outside
  <2>2. QED
    BY <1>0, <2>1, ContinueInv, RollbackTxInv
<1>7. CASE SerializationFailure(r) \/ DeadlockAbort(r)
  BY <1>0, <1>7, RetryTxInv DEF SerializationFailure, DeadlockAbort
<1>8. QED
  BY <1>1, <1>2, <1>3, <1>4, <1>5, <1>6, <1>7 DEF Serve

LEMMA TxStep ==
  ASSUME IInv, Next
  PROVE  TxInv'
<1>1. ASSUME NEW r \in Request, Arrive(r) \/ Serve(r) \/ Abandon(r)
      PROVE  TxInv'
  BY <1>1, OwnTx, SoundRequest
<1>2. ASSUME NEW q \in Quote, QuoteStep(q)
      PROVE  TxInv'
  <2>1. UNCHANGED txVars
    BY <1>2, QuoteStepKeeps
  <2>2. QED
    BY <2>1 DEF IInv, txVars, TxInv, TxTypeOK, LocksInTx, LocksExclusive,
                SnapshotCurrent, LockedCurrent, InTx
<1>3. QED
  BY <1>1, <1>2 DEF Next

\* Every step keeps the types.
LEMMA TypeStep ==
  ASSUME IInv, Next
  PROVE  TypeOK'
<1>0. \A r \in Request : locked'[r] # {} => InTx(r)'
  BY TxStep DEF TxInv, LocksInTx
<1> USE <1>0 DEF Steps, Outside, LockSteps
<1>1. ASSUME NEW r \in Request, Arrive(r)
      PROVE  TypeOK'
  BY <1>1 DEF IInv, Arrive, Continue, Goto, TypeOK, tables
<1>2. ASSUME NEW r \in Request, Validate(r)
      PROVE  TypeOK'
  <2> DEFINE error == RequestError(req[r])
  <2>1. error \in Answers
    BY ErrorTypes
  <2>2. \/ error = "none" /\ Continue(r, "begin")
        \/ error # "none" /\ Return(r, error)
    BY <1>2 DEF Validate
  <2>3. UNCHANGED <<req, tables, seen>>
    BY <1>2, Zenon DEF Validate
  <2> HIDE DEF error
  <2>4. CASE Continue(r, "begin")
    BY <2>3, <2>4 DEF IInv, Continue, Goto, TypeOK, tables
  <2>5. CASE Return(r, error)
    BY <2>1, <2>3, <2>5 DEF IInv, Return, Goto, TypeOK, tables
  <2>6. QED
    BY <2>2, <2>4, <2>5
<1>3. ASSUME NEW r \in Request, Begin(r)
      PROVE  TypeOK'
  <2>1. seen' \in [Request -> QuoteStatus]
    <3>1. req[r].quote # NoQuote => quotes[req[r].quote].status \in QuoteStatus
      BY InputType DEF IInv, TypeOK, QuoteRow, NoRow, QuoteStatus
    <3>2. QED
      BY <1>3, <3>1 DEF IInv, Begin, TypeOK, QuoteStatus
  <2>2. QED
    BY <1>3, <2>1 DEF IInv, Begin, BeginTx, Goto, TypeOK, tables
<1>4. ASSUME NEW r \in Request, Lock(r)
      PROVE  TypeOK'
  BY <1>4 DEF IInv, Lock, AfterLock, GetForUpdate, Goto, TypeOK, tables
<1>5. ASSUME NEW r \in Request, NEW error \in Answers, RollbackTx(r, error),
             UNCHANGED <<req, tables, seen>>
      PROVE  TypeOK'
  BY <1>5, ResetTypes DEF IInv, RollbackTx, EndTx, Goto, TypeOK, tables
<1>6. ASSUME NEW r \in Request, RetryTx(r), UNCHANGED <<req, tables, seen>>
      PROVE  TypeOK'
  <2>1. pc' \in [Request -> Steps] /\ answer' \in [Request -> Answers]
    BY <1>6 DEF IInv, RetryTx, RetryLimitError, Goto, TypeOK, Answers
  <2>2. attempt' \in [Request -> 1..MaxAttempts]
    <3>1. attempt \in [Request -> 1..MaxAttempts]
      BY DEF IInv, TypeOK
    <3>2. 1 \in 1..MaxAttempts
      BY PoolAssumption
    <3>3. AttemptsLeft(r) => attempt[r] + 1 \in 1..MaxAttempts
      BY <3>1, PoolAssumption DEF AttemptsLeft
    <3>4. \/ AttemptsLeft(r) /\ attempt' = [attempt EXCEPT ![r] = attempt[r] + 1]
          \/ attempt' = [attempt EXCEPT ![r] = 1]
      BY <1>6 DEF RetryTx
    <3>5. QED
      BY <3>1, <3>2, <3>3, <3>4
  <2>3. QED
    BY <1>6, <2>1, <2>2, ResetTypes DEF IInv, RetryTx, EndTx, TypeOK, tables
<1>7. ASSUME NEW r \in Request, NEW where \in Steps, Continue(r, where),
             UNCHANGED <<req, tables, seen>>
      PROVE  TypeOK'
  BY <1>7 DEF IInv, Continue, Goto, TypeOK, tables
<1>8. ASSUME NEW r \in Request, Commit(r)
      PROVE  TypeOK'
  <2>1. {req[r].from, req[r].to} \subseteq Account
    BY <1>8, LockedAccounts, SoundRequest DEF Commit, Decided, Writing
  <2>2. ledger' \in [Account -> Int]
    BY <1>8, <2>1, StagedType, SoundRequest DEF IInv, Commit
  <2>3. balance' \in [Account -> Int]
    BY <1>8, <2>1, StagedType, SoundRequest DEF IInv, Commit, CommitTx, TypeOK
  <2>4. quotes' \in [Quote -> QuoteRow \cup {NoRow}]
    <3>1. CASE req[r].quote = NoQuote
      BY <1>8, <3>1 DEF IInv, Commit, TypeOK
    <3>2. CASE req[r].quote # NoQuote
      <4>1. quotes[req[r].quote] # NoRow
        BY <1>8, <3>2 DEF IInv, Local, Validated, Commit
      <4>2. QED
        BY <1>8, <3>2, <4>1, InputType, StatusType DEF IInv, Commit
    <3>3. QED
      BY <3>1, <3>2
  <2>5. transactions' \subseteq
          [request : Request, attempt : 1..MaxAttempts, in : Input]
    BY <1>8, InputType DEF IInv, Commit, TypeOK
  <2>6. missed' \in [Request -> SUBSET Account]
    BY <1>8, <2>1, StagedType, SoundRequest DEF IInv, Commit, CommitTx, TypeOK
  <2>7. /\ pc' \in [Request -> Steps]
        /\ attempt' \in [Request -> 1..MaxAttempts]
        /\ answer' \in [Request -> Answers]
        /\ snapshot' \in [Request -> [Account -> Int]]
        /\ locked' \in [Request -> SUBSET Account]
        /\ req' \in [Request -> Input]
        /\ seen' \in [Request -> QuoteStatus]
        /\ issuing' = issuing
    BY <1>8, ResetTypes
       DEF IInv, Commit, CommitTx, EndTx, Goto, TypeOK, Answers
  <2>8. QED
    BY <2>2, <2>3, <2>4, <2>5, <2>6, <2>7 DEF IInv, TypeOK
<1>9. ASSUME NEW q \in Quote, QuoteStep(q)
      PROVE  TypeOK'
  <2>1. quotes' \in [Quote -> QuoteRow \cup {NoRow}]
    BY <1>9, IssuedType, StatusType
       DEF IInv, TypeOK, QuoteStep, QuoteExchange, KeyShare, QuoteFails, Expire,
           NoRow
  <2>2. issuing' \in [Quote -> {NoInsert, Failed} \cup
                                [at : {"from", "to"}, in : QuoteInput]]
    <3> DEFINE Rows == [at : {"from", "to"}, in : QuoteInput]
    <3>1. issuing \in [Quote -> {NoInsert, Failed} \cup Rows]
      BY DEF IInv, TypeOK
    <3>2. Inserting(q) => issuing[q] \in Rows
      BY <3>1 DEF Inserting, NoInsert, Failed
    <3>3. Inserting(q) => [issuing[q] EXCEPT !.at = "to"] \in Rows
      BY <3>2
    <3>4. \A i \in QuoteInput : [at |-> "from", in |-> i] \in Rows
      OBVIOUS
    <3> HIDE DEF Rows
    <3>5. \E insert \in {NoInsert, Failed} \cup Rows :
            issuing' = [issuing EXCEPT ![q] = insert] \/ issuing' = issuing
      BY <1>9, <3>3, <3>4, Zenon
         DEF QuoteStep, QuoteExchange, KeyShare, QuoteFails, Expire
    <3>6. issuing' \in [Quote -> {NoInsert, Failed} \cup Rows]
      BY <3>1, <3>5
    <3>7. QED
      BY <3>6 DEF Rows
  <2>3. UNCHANGED <<txVars, req, ledger, transactions, seen>>
    BY <1>9, QuoteStepKeeps
  <2>4. QED
    BY <2>1, <2>2, <2>3 DEF IInv, TypeOK, txVars
<1>10. ASSUME NEW r \in Request, Check(r) \/ Cover(r) \/ Insert(r) \/ Consume(r)
                                 \/ SystemIds(r) \/ MissingRow(r) \/ Abandon(r)
       PROVE  TypeOK'
  <2>1. /\ {"sysIds", "insert", "sysLeft", "consume", "commit"} \subseteq Steps
        /\ {"insufficient_funds", "duplicate", "quote_consumed", "failed"}
             \subseteq Answers
        /\ LossErrors(r) \subseteq Answers
    BY DEF Answers, Refusals, LossErrors
  <2>2. \/ \E where \in Steps : Continue(r, where)
        \/ \E error \in Answers : RollbackTx(r, error)
    <3>1. CASE Abandon(r)
      BY <2>1, <3>1 DEF Abandon
    <3>2. CASE ~Abandon(r)
      BY <1>10, <2>1, <3>2, ErrorTypes
         DEF Check, Cover, Insert, AfterInsert, Consume, SystemIds, MissingRow
    <3>3. QED
      BY <3>1, <3>2
  <2>3. UNCHANGED <<req, tables, seen>>
    BY <1>10 DEF Check, Cover, Insert, Consume, SystemIds, MissingRow, Abandon
  <2>4. QED
    BY <2>2, <2>3, <1>5, <1>7
<1>11. ASSUME NEW r \in Request, SerializationFailure(r) \/ DeadlockAbort(r)
       PROVE  TypeOK'
  BY <1>11, <1>6 DEF SerializationFailure, DeadlockAbort
<1>12. QED
  BY <1>1, <1>2, <1>3, <1>4, <1>8, <1>9, <1>10, <1>11 DEF Next, Serve

\* What the code has established about a request stays so while others run.
LEMMA OthersLocal ==
  ASSUME IInv, Next, NEW r \in Request,
         pc'[r] = pc[r], locked'[r] = locked[r], snapshot'[r] = snapshot[r],
         req'[r] = req[r]
  PROVE  Local(r)'
<1>1. Validated(r)'
  BY QuotesStay, InputType DEF IInv, Local, Validated, QuoteMatches
<1>2. RowsLocked(r)'
  BY DEF IInv, Local, RowsLocked
<1>3. Approved(r)'
  BY DEF IInv, Local, Approved
<1>4. QED
  BY <1>1, <1>2, <1>3 DEF Local

\* A lock step locks the row that RowsLocked speaks of.
LEMMA LockLocal ==
  ASSUME NEW r \in Request, Sound(r), Lock(r)
  PROVE  Local(r)'
<1> DEFINE i == req[r]
<1>1. /\ req' = req /\ quotes' = quotes /\ snapshot' = snapshot
      /\ pc[r] \in LockSteps
      /\ pc'[r] = AfterLock(pc[r])
      /\ locked'[r] = locked[r] \cup {WantedRow(r)}
  BY DEF Sound, TxInv, TxTypeOK, Lock, GetForUpdate, Goto, tables
<1>2. Validated(r)'
  BY <1>1 DEF Sound, Local, Validated, LockSteps, AfterLock
<1>3. Approved(r)'
  BY <1>1 DEF Sound, Local, Approved, LockSteps, AfterLock, SystemSteps, Writing,
              Decided
<1>4. RowsLocked(r)'
  <2>1. CASE pc[r] = "lockLeft"
    BY <1>1, <2>1 DEF RowsLocked, AfterLock, WantedRow, Decided, SystemSteps, Writing
  <2>2. CASE pc[r] = "lockRight"
    <3>1. OrderedIDs(i.from, i.to)[1] \in locked[r]
      BY <2>2 DEF Sound, Local, RowsLocked
    <3>2. {i.from, i.to} \subseteq locked'[r]
      BY <1>1, <2>2, <3>1, OrderedIDsPair DEF WantedRow
    <3>3. QED
      BY <1>1, <2>2, <3>2 DEF RowsLocked, AfterLock, Decided, SystemSteps, Writing
  <2>3. CASE pc[r] = "sysLeft"
    BY <1>1, <2>3 DEF Sound, Local, RowsLocked, AfterLock, WantedRow, Decided,
                      SystemSteps, Writing
  <2>4. CASE pc[r] = "sysRight"
    <3>1. OrderedIDs(SystemFrom(i), SystemTo(i))[1] \in locked[r]
      BY <2>4 DEF Sound, Local, RowsLocked
    <3>2. {SystemFrom(i), SystemTo(i)} \subseteq locked'[r]
      BY <1>1, <2>4, <3>1, OrderedIDsPair DEF WantedRow
    <3>3. {i.from, i.to} \subseteq locked'[r]
      BY <1>1, <2>4 DEF Sound, Local, RowsLocked, Decided, SystemSteps
    <3>4. QED
      BY <1>1, <2>4, <3>2, <3>3
         DEF RowsLocked, AfterLock, SystemFrom, SystemTo
  <2>5. QED
    BY <1>1, <2>1, <2>2, <2>3, <2>4 DEF LockSteps
<1>5. QED
  BY <1>2, <1>3, <1>4 DEF Local

\* The checks establish what Approved says.
LEMMA CheckLocal ==
  ASSUME NEW r \in Request, Sound(r),
         Check(r) \/ SystemIds(r) \/ Cover(r) \/ Insert(r) \/ Consume(r)
  PROVE  Local(r)'
<1>1. /\ req' = req /\ quotes' = quotes
      /\ pc[r] \in {"check", "sysIds", "cover", "insert", "consume"}
  BY DEF Check, SystemIds, Cover, Insert, Consume, tables
<1>2. CASE pc'[r] = "done"
  BY <1>2 DEF Local, Validated, RowsLocked, Approved, Decided, SystemSteps, Writing
<1>3. CASE pc'[r] # "done"
  <2>1. \E where : Continue(r, where) /\ pc'[r] = where
    BY <1>3
       DEF Sound, TxInv, TxTypeOK, TablesOK, Check, SystemIds, Cover, Insert,
           Consume, RollbackTx,
                Continue, Goto
  <2>2. locked' = locked /\ snapshot' = snapshot
    BY <2>1 DEF Continue
  <2>3. Validated(r)'
    BY <1>1, <2>2 DEF Sound, Local, Validated
  <2>4. CASE Check(r)
    <3>1. /\ AccountError(r) = "none"
          /\ pc'[r] = IF req[r].kind = "exchange" THEN "sysIds" ELSE "insert"
      BY <1>3, <2>4
         DEF Sound, TxInv, TxTypeOK, TablesOK, Check, RollbackTx, Continue,
             Goto
    <3>2. {req[r].from, req[r].to} \subseteq locked[r]
      BY <2>4 DEF Sound, Local, RowsLocked, Check
    <3>3. RowsLocked(r)'
      BY <1>1, <2>2, <3>1, <3>2
         DEF RowsLocked, Decided, SystemSteps, Writing
    <3>4. req[r].amount \in Int /\ req[r].kind \in {"transfer", "exchange"}
      BY InputTyped DEF Sound
    <3>5. snapshot[r][req[r].from] \in Int
      BY <3>2 DEF Sound, TxInv, TxTypeOK, TablesOK
    <3>6. Approved(r)'
      BY <1>1, <2>2, <3>1, <3>4, <3>5
         DEF Approved, AccountError, FundsMissing, Decided, SystemSteps, Writing
    <3>7. QED
      BY <2>3, <3>3, <3>6 DEF Local
  <2>5. CASE SystemIds(r)
    BY <1>1, <2>2, <2>3, <2>5
       DEF Sound, TxInv, TxTypeOK, TablesOK, Local, RowsLocked, Approved,
           SystemIds, Continue, Goto,
           Decided, SystemSteps, Writing
  <2>6. CASE Cover(r)
    <3>1. ~SystemShort(r) /\ pc'[r] = "insert" /\ pc[r] = "cover"
      BY <1>3, <2>6
         DEF Sound, TxInv, TxTypeOK, TablesOK, Cover, RollbackTx, Continue,
             Goto
    <3>2. Converted(req[r]) \in Int
      BY InputTyped, ConvertedType DEF Sound
    <3>3. snapshot[r][SystemTo(req[r])] \in Int
      BY <3>1, LockedAccounts, SystemAccounts
         DEF Sound, TxInv, TxTypeOK, TablesOK, Decided, SystemSteps
    <3>4. snapshot[r][SystemTo(req[r])] >= Converted(req[r])
      BY <3>1, <3>2, <3>3 DEF SystemShort
    <3>5. Approved(r)'
      BY <1>1, <2>2, <3>1, <3>4
         DEF Sound, Local, Approved, Decided, SystemSteps, Writing, SystemTo,
             Converted
    <3>6. RowsLocked(r)'
      BY <1>1, <2>2, <3>1
         DEF Sound, Local, RowsLocked, Decided, SystemSteps, Writing
    <3>7. QED
      BY <2>3, <3>5, <3>6 DEF Local
  <2>7. CASE Insert(r) \/ Consume(r)
    <3>1. pc[r] \in Writing /\ pc'[r] \in Writing
      BY <1>3, <2>7
         DEF Sound, TxInv, TxTypeOK, TablesOK, Insert, AfterInsert, Consume,
             RollbackTx,
                        Continue, Goto, Writing
    <3>2. Approved(r)'
      BY <1>1, <2>2, <3>1
         DEF Sound, Local, Approved, Decided, SystemSteps, Writing, SystemTo,
             Converted
    <3>3. RowsLocked(r)'
      BY <1>1, <2>2, <3>1
         DEF Sound, Local, RowsLocked, Decided, SystemSteps, Writing
    <3>4. QED
      BY <2>3, <3>2, <3>3 DEF Local
  <2>8. QED
    BY <2>4, <2>5, <2>6, <2>7
<1>4. QED
  BY <1>2, <1>3

\* The early returns establish what Validated says.
LEMMA ValidateLocal ==
  ASSUME NEW r \in Request, Sound(r), Validate(r)
  PROVE  Local(r)'
<1>1. /\ req' = req /\ quotes' = quotes /\ pc[r] = "start"
      /\ \/ RequestError(req[r]) = "none" /\ pc'[r] = "begin"
         \/ pc'[r] = "done"
  BY
     DEF Sound, TxInv, TxTypeOK, TablesOK, Validate, Continue, Return, Goto,
         tables
<1>2. RowsLocked(r)' /\ Approved(r)'
  BY <1>1 DEF RowsLocked, Approved, Decided, SystemSteps, Writing
<1>3. Validated(r)'
  <2>1. CASE pc'[r] = "done"
    BY <2>1 DEF Validated
  <2>2. CASE RequestError(req[r]) = "none"
    <3>1. req[r].amount > 0
      BY <2>2, InputTyped DEF Sound, RequestError
    <3>2. req[r].kind = "transfer" => req[r].from # req[r].to
      BY <2>2, <3>1, InputTyped DEF Sound, RequestError
    <3>3. req[r].quote # NoQuote => QuoteError(req[r]) = "none"
      BY <2>2, <3>1, InputTyped, InputAssumption DEF Sound, RequestError
    <3>4. req[r].quote # NoQuote =>
            /\ quotes[req[r].quote] # NoRow
            /\ QuoteMatches(quotes[req[r].quote], req[r])
      BY <3>3 DEF QuoteError, NoRow
    <3>5. QED
      BY <1>1, <3>1, <3>2, <3>4 DEF Validated
  <2>3. QED
    BY <1>1, <2>1, <2>2
<1>4. QED
  BY <1>2, <1>3 DEF Local

\* A transaction that begins, again or for the first time, has only passed the
\* early returns.
LEMMA RestLocal ==
  ASSUME NEW r \in Request, Sound(r), req' = req, quotes' = quotes,
         \/ pc'[r] \in {"start", "done"}
         \/ /\ pc[r] \notin {"idle", "start", "done"}
            /\ pc'[r] \in {"begin", "lockLeft"}
  PROVE  Local(r)'
BY
   DEF Sound, Local, Validated, RowsLocked, Approved, Decided, SystemSteps,
       Writing

\* The steps of a request keep what is known of it.
LEMMA OwnLocal ==
  ASSUME NEW r \in Request, Sound(r), Arrive(r) \/ Serve(r) \/ Abandon(r)
  PROVE  Local(r)'
<1>0. pc = [s \in Request |-> pc[s]]
  BY DEF Sound, TxInv, TxTypeOK
<1>1. CASE Arrive(r)
  BY <1>0, <1>1, RestLocal DEF Arrive, Continue, Goto, tables
<1>2. CASE Validate(r)
  BY <1>2, ValidateLocal
<1>3. CASE Begin(r)
  BY <1>0, <1>3, RestLocal DEF Begin, BeginTx, Goto, tables
<1>4. CASE Lock(r)
  BY <1>4, LockLocal
<1>5. CASE MissingRow(r) \/ Abandon(r)
  BY <1>0, <1>5, RestLocal DEF MissingRow, Abandon, RollbackTx, Goto, tables
<1>6. CASE Check(r) \/ SystemIds(r) \/ Cover(r) \/ Insert(r) \/ Consume(r)
  BY <1>6, CheckLocal
<1>7. CASE Commit(r)
  <2>1. pc'[r] = "done"
    BY <1>0, <1>7 DEF Commit, CommitTx, Goto
  <2>2. QED
    BY <2>1 DEF Local, Validated, RowsLocked, Approved, Decided, SystemSteps,
                Writing
<1>8. CASE SerializationFailure(r)
  BY <1>0, <1>8, RestLocal
     DEF SerializationFailure, LockSteps, RetryTx, Goto, tables
<1>9. CASE DeadlockAbort(r)
  <2>1. pc[r] \in LockSteps \cup {"insert", "consume"}
    BY <1>9 DEF DeadlockAbort, WaitCycle, WaitsFor, WaitsForInsert
  <2>2. QED
    BY <1>0, <1>9, <2>1, RestLocal
       DEF DeadlockAbort, LockSteps, RetryTx, Goto, tables
<1>10. QED
  BY <1>1, <1>2, <1>3, <1>4, <1>5, <1>6, <1>7, <1>8, <1>9 DEF Serve

\* Every step keeps what is known of every request.
LEMMA LocalStep ==
  ASSUME IInv, Next, NEW r \in Request
  PROVE  Local(r)'
<1>1. CASE Arrive(r) \/ Serve(r) \/ Abandon(r)
  BY <1>1, OwnLocal, SoundRequest
<1>2. CASE \E s \in Request \ {r} : Arrive(s) \/ Serve(s) \/ Abandon(s)
  <2>1. req' = req
    BY <1>2 DEF Arrive, Serve, Validate, Begin, Lock, MissingRow, Check, SystemIds,
                Cover, Insert, Consume, Commit, SerializationFailure,
                DeadlockAbort, Abandon
  <2>2. QED
    BY <1>2, <2>1, OthersStay, OthersLocal DEF IInv
<1>3. CASE \E q \in Quote : QuoteStep(q)
  BY <1>3, QuoteStepKeeps, OthersLocal DEF txVars
<1>4. QED
  BY <1>1, <1>2, <1>3 DEF Next

\* A quote is inserted once, and on the terms that QuoteExchange has checked.
LEMMA IssuingStep ==
  ASSUME IInv, Next
  PROVE  Issuing'
<1>1. CASE \E r \in Request : Arrive(r) \/ Serve(r) \/ Abandon(r)
  <2>1. issuing' = issuing
    BY <1>1 DEF Arrive, Serve, Validate, Begin, Lock, MissingRow, Check, SystemIds,
                Cover, Insert, Consume, Commit, SerializationFailure,
                DeadlockAbort, Abandon, tables
  <2>2. \A q \in Quote : quotes[q] = NoRow => quotes'[q] = NoRow
    <3>1. ASSUME NEW r \in Request, Commit(r)
          PROVE  \/ quotes' = quotes
                 \/ /\ req[r].quote \in Quote
                    /\ quotes[req[r].quote] # NoRow
                    /\ quotes' = [quotes EXCEPT ![req[r].quote].status = "consumed"]
      BY <3>1, InputType DEF IInv, Local, Validated, Commit
    <3>2. CASE quotes' = quotes
      BY <3>2
    <3>3. quotes' = quotes \/ \E r \in Request : Commit(r)
      BY <1>1 DEF Arrive, Serve, Validate, Begin, Lock, MissingRow, Check,
                  SystemIds, Cover, Insert, Consume, SerializationFailure,
                  DeadlockAbort, Abandon, tables
    <3>4. QED
      BY <3>1, <3>2, <3>3 DEF IInv, TypeOK
  <2>3. QED
    BY <2>1, <2>2 DEF IInv, Issuing, Inserting
<1>2. ASSUME NEW q \in Quote, QuoteStep(q)
      PROVE  Issuing'
  <2>1. ASSUME NEW p \in Quote, p # q
        PROVE  issuing'[p] = issuing[p] /\ quotes'[p] = quotes[p]
    BY <1>2, <2>1
       DEF IInv, TypeOK, QuoteStep, QuoteExchange, KeyShare, QuoteFails, Expire
  <2>2. Inserting(q)' =>
          /\ quotes'[q] = NoRow
          /\ issuing'[q].in \in QuoteInput
          /\ {issuing'[q].in.from, issuing'[q].in.to} \subseteq Account
          /\ Owner[issuing'[q].in.from] = issuing'[q].in.user
    <3>1. CASE QuoteExchange(q)
      BY <3>1 DEF IInv, TypeOK, QuoteExchange
    <3>2. CASE KeyShare(q)
      BY <3>2 DEF IInv, TypeOK, Issuing, KeyShare, Inserting, NoInsert, Failed
    <3>3. CASE QuoteFails(q)
      BY <3>3 DEF IInv, TypeOK, QuoteFails, Inserting, Failed
    <3>4. CASE Expire(q)
      BY <3>4 DEF IInv, TypeOK, Issuing, Expire, Inserting, NoRow
    <3>5. QED
      BY <1>2, <3>1, <3>2, <3>3, <3>4 DEF QuoteStep
  <2>3. QED
    BY <2>1, <2>2 DEF IInv, Issuing, Inserting
<1>3. QED
  BY <1>1, <1>2 DEF Next

----------------------------------------------------------------------------
(* The inductive invariant. *)

LEMMA InitIInv == Init => IInv
<1> SUFFICES ASSUME Init
             PROVE  IInv
  OBVIOUS
<1>1. OpeningBalance \in [Account -> Int] /\ Seed \in [Account -> Int]
  BY ConfigAssumption
<1>2. TxInv
  BY <1>1, TxInitInv DEF Init
<1>3. TypeOK
  BY <1>1, ResetTypes
     DEF Init, TxInit, TypeOK, Steps, Outside, Answers, QuoteStatus, NoRow,
         NoInsert
<1>4. ASSUME NEW r \in Request
      PROVE  Local(r)
  BY DEF Init, TxInit, Local, Validated, RowsLocked, Approved, Decided,
         SystemSteps, Writing
<1>5. Issuing
  BY DEF Init, Issuing, Inserting, NoInsert
<1>6. QED
  BY <1>2, <1>3, <1>4, <1>5 DEF IInv

LEMMA StepIInv == IInv /\ [Next]_vars => IInv'
<1> SUFFICES ASSUME IInv, [Next]_vars
             PROVE  IInv'
  OBVIOUS
<1>1. CASE Next
  BY <1>1, TypeStep, TxStep, LocalStep, IssuingStep DEF IInv
<1>2. CASE UNCHANGED vars
  <2>1. TypeOK' /\ Issuing'
    BY <1>2 DEF vars, txVars, IInv, TypeOK, InTx, Issuing, Inserting
  <2>2. TxInv'
    BY <1>2 DEF vars, txVars, IInv, TxInv, TxTypeOK, LocksInTx, LocksExclusive,
                SnapshotCurrent, LockedCurrent, InTx
  <2>3. \A r \in Request : Local(r)'
    BY <1>2 DEF vars, txVars, IInv, Local, Validated, RowsLocked, Approved
  <2>4. QED
    BY <2>1, <2>2, <2>3 DEF IInv
<1>3. QED
  BY <1>1, <1>2

\* The variables keep their types, and the positions of the code the facts it
\* has established there, in every behaviour of the service.
THEOREM Invariance == Spec => []IInv
BY InitIInv, StepIInv, PTL DEF Spec

\* The variables keep their types: no attempt beyond MaxAttempts, no row locked
\* outside a transaction, no quote row that loses its terms, no balance that is
\* not an integer.
THEOREM TypeCorrect == Spec => []TypeOK
<1>1. IInv => TypeOK
  BY DEF IInv
<1>2. QED
  BY Invariance, <1>1, PTL

----------------------------------------------------------------------------
(***************************************************************************)
(* Proofs that TransactionService keeps the books: balances and ledger      *)
(* agree, and no account is overdrawn.                                      *)
(*                                                                         *)
(* The argument: at Commit the rows written are locked, and a locked row    *)
(* has the balance of the snapshot (IInv).  So the values the code computed *)
(* from its reads are the current balances plus the entries it inserts,     *)
(* provided the two or four rows are different ones.  Two are the same when *)
(* the recipient of an exchange is a system account, which the code does    *)
(* not exclude: the run SystemExchange shows what happens then, and         *)
(* Reconciled is proved without such requests.                              *)
(***************************************************************************)

\* No exchange names a system account as its recipient.
ExchangeTargetsUsers ==
  \A i \in Input : i.kind = "exchange" =>
    \A c \in Currency : i.to # SystemAccount[c]

\* What the entries of a request add to one account.
Delta(i, a) ==
  LET part(b, n) == IF a = b THEN n ELSE 0
  IN  IF i.kind = "transfer"
      THEN part(i.from, -i.amount) + part(i.to, i.amount)
      ELSE part(i.from, -i.amount) + part(SystemFrom(i), i.amount)
           + part(SystemTo(i), -Converted(i)) + part(i.to, Converted(i))

\* A request between accounts, with the numbers it moves.
LEMMA PostingType ==
  ASSUME NEW r \in Request, Sound(r), pc[r] \in {"check"} \cup Decided
  PROVE  /\ req[r].from \in Account /\ req[r].to \in Account
         /\ SystemFrom(req[r]) \in Account /\ SystemTo(req[r]) \in Account
         /\ req[r].amount \in Int /\ Converted(req[r]) \in Int
         /\ req[r].amount > 0 /\ Converted(req[r]) >= 0
         /\ req[r].kind \in {"transfer", "exchange"}
<1>1. /\ req[r].from \in Account /\ req[r].to \in Account
      /\ SystemFrom(req[r]) \in Account /\ SystemTo(req[r]) \in Account
  BY LockedAccounts, SystemAccounts
<1>2. /\ req[r].amount \in Int /\ req[r].amount > 0
      /\ req[r].kind \in {"transfer", "exchange"}
  BY InputTyped DEF Sound, Local, Validated, Decided, SystemSteps, Writing
<1>3. QED
  BY <1>1, <1>2, ConvertedType

\* InsertEntries adds Delta to every account.
LEMMA EntriesDelta ==
  ASSUME NEW f \in [Account -> Int], NEW i,
         i.from \in Account, i.to \in Account,
         SystemFrom(i) \in Account, SystemTo(i) \in Account,
         i.amount \in Int, Converted(i) \in Int
  PROVE  /\ InsertEntries(f, i) \in [Account -> Int]
         /\ \A a \in Account : InsertEntries(f, i)[a] = f[a] + Delta(i, a)
<1> DEFINE debit == Entry(f, i.from, -i.amount)
           moved == Entry(debit, SystemFrom(i), i.amount)
           funded == Entry(moved, SystemTo(i), -Converted(i))
<1>1. /\ debit \in [Account -> Int]
      /\ \A a \in Account : debit[a] = f[a] + (IF a = i.from THEN -i.amount ELSE 0)
  BY DEF Entry
<1> HIDE DEF debit
<1>2. CASE i.kind = "transfer"
  <2>1. InsertEntries(f, i) = Entry(debit, i.to, i.amount)
    BY <1>2 DEF InsertEntries, debit
  <2>2. QED
    BY <1>1, <1>2, <2>1 DEF Entry, Delta
<1>3. CASE i.kind # "transfer"
  <2>1. /\ moved \in [Account -> Int]
        /\ \A a \in Account :
             moved[a] = debit[a] + (IF a = SystemFrom(i) THEN i.amount ELSE 0)
    BY <1>1 DEF Entry
  <2> HIDE DEF moved
  <2>2. /\ funded \in [Account -> Int]
        /\ \A a \in Account :
             funded[a] = moved[a] + (IF a = SystemTo(i) THEN -Converted(i) ELSE 0)
    BY <2>1 DEF Entry
  <2> HIDE DEF funded
  <2>3. InsertEntries(f, i) = Entry(funded, i.to, Converted(i))
    BY <1>3 DEF InsertEntries, debit, moved, funded
  <2>4. /\ InsertEntries(f, i) \in [Account -> Int]
        /\ \A a \in Account :
             InsertEntries(f, i)[a] =
               funded[a] + (IF a = i.to THEN Converted(i) ELSE 0)
    BY <2>2, <2>3 DEF Entry
  <2>5. \A a \in Account :
          /\ f[a] \in Int /\ debit[a] \in Int /\ moved[a] \in Int /\ funded[a] \in Int
    BY <1>1, <2>1, <2>2
  <2>6. ASSUME NEW a \in Account
        PROVE  InsertEntries(f, i)[a] = f[a] + Delta(i, a)
    BY <1>1, <1>3, <2>1, <2>2, <2>4, <2>5 DEF Delta
  <2>7. QED
    BY <2>4, <2>6
<1>4. QED
  BY <1>2, <1>3

\* The rows of an approved exchange are four different ones.
LEMMA ExchangeRows ==
  ASSUME NEW r \in Request, Sound(r), ExchangeTargetsUsers, pc[r] \in Decided,
         req[r].kind = "exchange"
  PROVE  /\ req[r].from # req[r].to
         /\ req[r].from \notin {SystemFrom(req[r]), SystemTo(req[r])}
         /\ req[r].to \notin {SystemFrom(req[r]), SystemTo(req[r])}
         /\ SystemFrom(req[r]) # SystemTo(req[r])
<1> DEFINE i == req[r]
<1>1. i.from \in Account /\ i.to \in Account
  BY PostingType
<1>2. /\ CurrencyOf[i.from] # CurrencyOf[i.to]
      /\ CurrencyOf[i.from] \in Currency /\ CurrencyOf[i.to] \in Currency
  BY <1>1, ConfigAssumption DEF Sound, Local, Approved, ExchangePairAllowed
<1>3. Owner[i.from] # NoUser
  BY InputTyped, ConfigAssumption DEF Sound, Local, Approved
<1>4. i.to # SystemTo(i)
  BY <1>2, InputTyped DEF Sound, ExchangeTargetsUsers, SystemTo
<1>5. QED
  BY <1>1, <1>2, <1>3, <1>4, SystemAccounts

\* The balances a commit writes are the current ones plus the entries.
LEMMA StagedDelta ==
  ASSUME NEW r \in Request, Sound(r), ExchangeTargetsUsers, pc[r] = "commit",
         NEW a \in Written(req[r])
  PROVE  /\ a \in Account
         /\ Staged(r)[a] = balance[a] + Delta(req[r], a)
<1> DEFINE i == req[r]
           s == snapshot[r]
<1>1. pc[r] \in Decided /\ pc[r] \notin Outside
  BY DEF Decided, Writing, Outside
<1>2. /\ i.from \in Account /\ i.to \in Account
      /\ SystemFrom(i) \in Account /\ SystemTo(i) \in Account
      /\ i.amount \in Int /\ Converted(i) \in Int
      /\ i.kind \in {"transfer", "exchange"}
  BY <1>1, PostingType
<1>3. a \in Account /\ a \in locked[r]
  BY WrittenLocked DEF Sound, TxInv, TxTypeOK, TablesOK
<1>4. s[a] = balance[a]
  BY <1>1, <1>3 DEF Sound, TxInv, SnapshotCurrent, LockedCurrent, InTx
<1>5. s \in [Account -> Int]
  BY DEF Sound, TxInv, TxTypeOK, TablesOK
<1>6. CASE i.kind = "transfer"
  <2>1. i.from # i.to
    BY <1>6 DEF Sound, Local, Validated
  <2>2. Staged(r) = [s EXCEPT ![i.from] = s[i.from] - i.amount,
                              ![i.to] = s[i.to] + i.amount]
    BY <1>6 DEF Staged
  <2>3. a \in {i.from, i.to}
    BY <1>6 DEF Written
  <2>4. QED
    BY <1>2, <1>3, <1>4, <1>5, <1>6, <2>1, <2>2, <2>3 DEF Delta
<1>7. CASE i.kind = "exchange"
  <2>1. /\ i.from # i.to
        /\ i.from \notin {SystemFrom(i), SystemTo(i)}
        /\ i.to \notin {SystemFrom(i), SystemTo(i)}
        /\ SystemFrom(i) # SystemTo(i)
    BY <1>1, <1>7, ExchangeRows
  <2>2. /\ Staged(r)[i.from] = s[i.from] - i.amount
        /\ Staged(r)[i.to] = s[i.to] + Converted(i)
        /\ Staged(r)[SystemFrom(i)] = s[SystemFrom(i)] + i.amount
        /\ Staged(r)[SystemTo(i)] = s[SystemTo(i)] - Converted(i)
    BY <1>2, <1>5, <1>7, <2>1 DEF Staged
  <2>3. a \in {i.from, i.to, SystemFrom(i), SystemTo(i)}
    BY <1>7 DEF Written
  <2> HIDE DEF s
  <2>4. QED
    BY <1>2, <1>3, <1>4, <1>5, <1>7, <2>1, <2>2, <2>3 DEF Delta
<1>8. QED
  BY <1>2, <1>3, <1>6, <1>7

\* A commit moves balances and ledger by the same amounts.
LEMMA CommitDelta ==
  ASSUME NEW r \in Request, Sound(r), ExchangeTargetsUsers, Commit(r),
         NEW a \in Account
  PROVE  /\ balance'[a] = balance[a] + Delta(req[r], a)
         /\ ledger'[a] = ledger[a] + Delta(req[r], a)
         /\ Delta(req[r], a) \in Int
<1> DEFINE i == req[r]
<1>1. pc[r] = "commit" /\ pc[r] \in Decided
  BY DEF Commit, Decided, Writing
<1>2. /\ i.from \in Account /\ i.to \in Account
      /\ SystemFrom(i) \in Account /\ SystemTo(i) \in Account
      /\ i.amount \in Int /\ Converted(i) \in Int
      /\ i.kind \in {"transfer", "exchange"}
  BY <1>1, PostingType
<1>3. ledger \in [Account -> Int] /\ balance \in [Account -> Int]
  BY DEF Sound, TxInv, TxTypeOK, TablesOK
<1>4. Delta(i, a) \in Int
  BY <1>2 DEF Delta
<1>5. ledger'[a] = ledger[a] + Delta(i, a)
  BY <1>2, <1>3, EntriesDelta DEF Commit
<1>6. balance'[a] = IF a \in Written(i) THEN Staged(r)[a] ELSE balance[a]
  BY DEF Commit, CommitTx
<1>7. a \notin Written(i) => Delta(i, a) = 0
  BY <1>2 DEF Written, Delta
<1>8. a \in Written(i) => Staged(r)[a] = balance[a] + Delta(i, a)
  BY <1>1, StagedDelta
<1>9. QED
  BY <1>3, <1>4, <1>5, <1>6, <1>7, <1>8

\* Nothing but a commit touches balances, ledger or transactions, or consumes a
\* quote.
LEMMA OnlyCommitPosts ==
  ASSUME IInv, [Next]_vars, \A r \in Request : ~Commit(r)
  PROVE  /\ balance' = balance
         /\ ledger' = ledger
         /\ transactions' = transactions
         /\ \A q \in Quote : (quotes'[q].status = "consumed") <=>
                             (quotes[q].status = "consumed")
<1>1. ASSUME NEW q \in Quote, QuoteStep(q)
      PROVE  \A c \in Quote : (quotes'[c].status = "consumed") <=>
                              (quotes[c].status = "consumed")
  <2>1. CASE QuoteExchange(q) \/ QuoteFails(q)
    BY <2>1 DEF QuoteExchange, QuoteFails
  <2>2. CASE Expire(q)
    BY <2>2 DEF Expire, IInv, TypeOK, QuoteRow, NoRow
  <2>3. CASE KeyShare(q)
    <3>1. quotes[q] = NoRow /\ quotes'[q] \in {NoRow, Issued(issuing[q].in)}
      BY <2>3 DEF KeyShare, Issuing, IInv, TypeOK
    <3>2. quotes'[q].status # "consumed" /\ quotes[q].status # "consumed"
      BY <3>1 DEF Issued, NoRow
    <3>3. \A c \in Quote \ {q} : quotes'[c] = quotes[c]
      BY <2>3 DEF KeyShare, IInv, TypeOK
    <3>4. QED
      BY <3>2, <3>3
  <2>4. QED
    BY <1>1, <2>1, <2>2, <2>3 DEF QuoteStep
<1>2. CASE \E q \in Quote : QuoteStep(q)
  BY <1>1, <1>2, QuoteStepKeeps DEF txVars
<1>3. CASE \E r \in Request : Arrive(r) \/ Serve(r) \/ Abandon(r)
  BY <1>3 DEF Arrive, Serve, Validate, Begin, Lock, MissingRow, Check, SystemIds,
              Cover, Insert, Consume, SerializationFailure, DeadlockAbort,
              Abandon, Continue, Return, BeginTx, GetForUpdate, RollbackTx,
              RetryTx, tables
<1>4. CASE UNCHANGED vars
  BY <1>4 DEF vars, txVars
<1>5. QED
  BY <1>2, <1>3, <1>4 DEF Next

----------------------------------------------------------------------------
(* The theorems. *)

\* Balances and ledger agree on every account at every time, as long as no
\* exchange pays into a system account: what the admin endpoint Reconcile and
\* the self-check of a user compare never differs.
THEOREM Reconciliation ==
  ASSUME ExchangeTargetsUsers
  PROVE  Spec => []Reconciled
<1>1. Init => Reconciled
  BY ConfigAssumption DEF Init, TxInit, Reconciled, Difference
<1>2. IInv /\ Reconciled /\ [Next]_vars => Reconciled'
  <2> SUFFICES ASSUME IInv, Reconciled, [Next]_vars
               PROVE  Reconciled'
    OBVIOUS
  <2>1. CASE \E r \in Request : Commit(r)
    <3>1. PICK r \in Request : Commit(r)
      BY <2>1
    <3>2. ASSUME NEW a \in Account
          PROVE  balance'[a] - ledger'[a] = Seed[a]
      <4>1. /\ balance'[a] = balance[a] + Delta(req[r], a)
            /\ ledger'[a] = ledger[a] + Delta(req[r], a)
            /\ Delta(req[r], a) \in Int
        BY <3>1, CommitDelta, SoundRequest
      <4>2. balance[a] - ledger[a] = Seed[a]
        BY DEF Reconciled, Difference
      <4>3. balance[a] \in Int /\ ledger[a] \in Int /\ Seed[a] \in Int
        BY ConfigAssumption DEF IInv, TypeOK
      <4>4. QED
        BY <4>1, <4>2, <4>3
    <3>3. QED
      BY <3>2 DEF Reconciled, Difference
  <2>2. CASE \A r \in Request : ~Commit(r)
    BY <2>2, OnlyCommitPosts DEF Reconciled, Difference
  <2>3. QED
    BY <2>1, <2>2
<1>3. QED
  BY <1>1, <1>2, Invariance, PTL DEF Spec

\* What an open transaction is about to write is not negative.
LEMMA StagedFunded ==
  ASSUME NEW r \in Request, Sound(r), \A a \in Account : balance[a] >= 0,
         pc[r] \in Writing, NEW a \in Written(req[r])
  PROVE  Staged(r)[a] >= 0
<1> DEFINE i == req[r]
           s == snapshot[r]
<1>1. pc[r] \in Decided /\ pc[r] \notin Outside
  BY DEF Decided, Writing, Outside
<1>2. /\ i.from \in Account /\ i.to \in Account
      /\ SystemFrom(i) \in Account /\ SystemTo(i) \in Account
      /\ i.amount \in Int /\ Converted(i) \in Int
      /\ i.amount > 0 /\ Converted(i) >= 0
      /\ i.kind \in {"transfer", "exchange"}
  BY <1>1, PostingType
<1>3. ASSUME NEW b \in Written(i)
      PROVE  s[b] \in Int /\ s[b] >= 0
  <2>1. b \in locked[r] /\ b \in Account
    BY <1>1, <1>3
       DEF Sound, TxInv, TxTypeOK, TablesOK, Local, RowsLocked, Written,
           Writing
  <2>2. s[b] = balance[b]
    BY <1>1, <2>1 DEF Sound, TxInv, SnapshotCurrent, LockedCurrent, InTx
  <2>3. QED
    BY <2>1, <2>2 DEF Sound, TxInv, TxTypeOK, TablesOK
<1>4. s[i.from] >= i.amount
  BY <1>1 DEF Sound, Local, Approved
<1>5. s \in [Account -> Int]
  BY DEF Sound, TxInv, TxTypeOK, TablesOK
<1>6. CASE i.kind = "transfer"
  <2>1. Staged(r) = [s EXCEPT ![i.from] = s[i.from] - i.amount,
                              ![i.to] = s[i.to] + i.amount]
    BY <1>6 DEF Staged
  <2>2. a \in {i.from, i.to} /\ s[i.to] >= 0
    BY <1>3, <1>6 DEF Written
  <2> HIDE DEF s, i
  <2>3. QED
    BY <1>2, <1>4, <1>5, <2>1, <2>2
<1>7. CASE i.kind = "exchange"
  <2>1. Staged(r) = [s EXCEPT ![i.from] = s[i.from] - i.amount,
                              ![i.to] = s[i.to] + Converted(i),
                              ![SystemFrom(i)] = s[SystemFrom(i)] + i.amount,
                              ![SystemTo(i)] = s[SystemTo(i)] - Converted(i)]
    BY <1>7 DEF Staged
  <2>2. /\ a \in {i.from, i.to, SystemFrom(i), SystemTo(i)}
        /\ s[i.to] >= 0 /\ s[SystemFrom(i)] >= 0
    BY <1>3, <1>7 DEF Written
  <2>3. s[SystemTo(i)] >= Converted(i)
    BY <1>1, <1>7 DEF Sound, Local, Approved
  <2> HIDE DEF s, i
  <2>4. QED
    BY <1>2, <1>4, <1>5, <2>1, <2>2, <2>3
<1>8. QED
  BY <1>2, <1>6, <1>7

\* No balance is ever negative, and no transaction ever tries to write one that
\* is: the code's own checks suffice, CHECK (balance >= 0) never fires.
THEOREM Funded == Spec => []NoOverdraft
<1> DEFINE Covered == \A a \in Account : balance[a] >= 0
<1>1. Init => Covered
  BY ConfigAssumption DEF Init, TxInit
<1>2. IInv /\ Covered /\ [Next]_vars => Covered'
  <2> SUFFICES ASSUME IInv, Covered, [Next]_vars
               PROVE  Covered'
    OBVIOUS
  <2>1. CASE \E r \in Request : Commit(r)
    <3>1. PICK r \in Request : Commit(r)
      BY <2>1
    <3>2. \A a \in Account :
            balance'[a] = IF a \in Written(req[r]) THEN Staged(r)[a] ELSE balance[a]
      BY <3>1 DEF Commit, CommitTx
    <3>3. \A a \in Written(req[r]) : Staged(r)[a] >= 0
      BY <3>1, StagedFunded, SoundRequest DEF Commit, Writing
    <3>4. QED
      BY <3>2, <3>3
  <2>2. CASE \A r \in Request : ~Commit(r)
    BY <2>2, OnlyCommitPosts
  <2>3. QED
    BY <2>1, <2>2
<1>3. IInv /\ Covered => NoOverdraft
  BY StagedFunded, SoundRequest DEF NoOverdraft, Writing
<1> HIDE DEF Covered
<1>4. QED
  BY <1>1, <1>2, <1>3, Invariance, PTL DEF Spec

----------------------------------------------------------------------------
(***************************************************************************)
(* Proofs that TransactionService processes a client_request_id once, uses  *)
(* a quote once and on its terms, and tells the client the truth.           *)
(*                                                                         *)
(* OnceInv adds to IInv what ties open transactions to the rows: a row's    *)
(* request is done (RowsDone), the key of a transaction past its insert is  *)
(* in no row and no other such transaction (KeysHeld), and neither is the   *)
(* quote of one past its consume (QuotesHeld).                              *)
(***************************************************************************)

\* A row stands for a request that is over, and that was not refused.
RowsDone == \A row \in transactions :
  /\ pc[row.request] = "done"
  /\ row.in = req[row.request]
  /\ row.in.quote # NoQuote => seen[row.request] = "open"
  /\ answer[row.request] \in {"ok", "failed"}

\* Between its insert and its commit a transaction is alone with its key.
KeysHeld == \A r \in Request : pc[r] \in {"consume", "commit"} =>
  /\ ~Duplicate(r)
  /\ \A s \in Request : ~HoldsKey(s, r)

\* Between its consume and its commit it is alone with its quote.
QuotesHeld == \A r \in Request :
  /\ pc[r] = "consume" => req[r].quote # NoQuote
  /\ pc[r] = "commit" /\ req[r].quote # NoQuote =>
       /\ seen[r] = "open"
       /\ quotes[req[r].quote].status # "consumed"
       /\ \A s \in Request : ~HoldsQuote(s, r)

\* A quote fixes the conversion of its own amount.
QuotesExact == \A q \in Quote : quotes[q] # NoRow =>
                                  quotes[q].converted = Converted(quotes[q])

\* A request has an answer exactly when it is done; ok and duplicate are so.
AnswersGiven == \A r \in Request :
  /\ pc[r] # "done" => answer[r] = "none"
  /\ answer[r] = "ok" => Posted(r)
  /\ answer[r] = "duplicate" => Duplicate(r)

\* Rows and consumed quotes match one to one.
QuoteRows ==
  /\ \A row \in transactions : row.in.quote # NoQuote =>
       /\ quotes[row.in.quote].status = "consumed"
       /\ QuoteMatches(quotes[row.in.quote], row.in)
       /\ \A other \in transactions :
            other.in.quote = row.in.quote => other = row
  /\ \A q \in Quote : quotes[q].status = "consumed" =>
       \E row \in transactions : row.in.quote = q

OnceInv == /\ IInv
           /\ RowsDone
           /\ KeysHeld
           /\ QuotesHeld
           /\ QuotesExact
           /\ AnswersGiven
           /\ OncePerKey
           /\ OncePerRequest
           /\ QuoteRows

----------------------------------------------------------------------------
(* What steps do to positions and answers. *)

\* A request that is done stays done, with its answer and what it has read.
LEMMA DoneStays ==
  ASSUME IInv, Next, NEW r \in Request, pc[r] = "done"
  PROVE  pc'[r] = "done" /\ answer'[r] = answer[r] /\ seen'[r] = seen[r]
<1>1. TypeOK
  BY DEF IInv
<1>2. ~Arrive(r) /\ ~Serve(r) /\ ~Abandon(r)
  BY DEF Arrive, Serve, Validate, Begin, BeginTx, Lock, MissingRow, Check,
         SystemIds, Cover, Insert, Consume, Commit, SerializationFailure,
         DeadlockAbort, WaitCycle, WaitsFor, WaitsForInsert, LockSteps, Abandon
<1>3. CASE \E s \in Request \ {r} : Arrive(s) \/ Serve(s) \/ Abandon(s)
  BY <1>1, <1>3, OthersStay
<1>4. CASE \E q \in Quote : QuoteStep(q)
  BY <1>4, QuoteStepKeeps DEF txVars
<1>5. QED
  BY <1>2, <1>3, <1>4 DEF Next

\* What is asked never changes.
LEMMA ReqStays == ASSUME [Next]_vars PROVE req' = req
BY QuoteStepKeeps
   DEF Next, Arrive, Serve, Validate, Begin, Lock, MissingRow, Check, SystemIds,
       Cover, Insert, Consume, Commit, SerializationFailure, DeadlockAbort,
       Abandon, vars

\* Only an insert or a consume takes a request past its insert.
LEMMA OnlyInsertHolds ==
  ASSUME IInv, [Next]_vars, NEW r \in Request, pc'[r] \in {"consume", "commit"}
  PROVE  /\ \/ pc'[r] = pc[r]
            \/ Insert(r) /\ ~Duplicate(r) /\ pc'[r] = AfterInsert(req[r])
            \/ Consume(r) /\ seen[r] = "open" /\ pc'[r] = "commit"
         /\ seen'[r] = seen[r]
<1>1. TypeOK
  BY DEF IInv
<1>2. CASE Arrive(r) \/ Serve(r) \/ Abandon(r)
  BY <1>1, <1>2
     DEF TypeOK, Arrive, Serve, Validate, Begin, Lock, AfterLock, LockSteps,
         MissingRow, Check, SystemIds, Cover, Insert, Consume, Commit,
         SerializationFailure, DeadlockAbort, Abandon, Continue, Return, Goto,
         BeginTx, GetForUpdate, RollbackTx, RetryTx, CommitTx
<1>3. CASE \E s \in Request \ {r} : Arrive(s) \/ Serve(s) \/ Abandon(s)
  BY <1>1, <1>3, OthersStay
<1>4. CASE UNCHANGED vars \/ \E q \in Quote : QuoteStep(q)
  BY <1>4, QuoteStepKeeps DEF vars, txVars
<1>5. QED
  BY <1>2, <1>3, <1>4 DEF Next

\* Who is told ok has committed, who is told duplicate is one, and who is told
\* anything is done.
LEMMA AnswerStep ==
  ASSUME IInv, [Next]_vars, NEW r \in Request, answer'[r] # answer[r]
  PROVE  /\ pc'[r] = "done"
         /\ answer'[r] = "ok" => Commit(r)
         /\ answer'[r] = "duplicate" => Duplicate(r)
<1>1. TypeOK
  BY DEF IInv
<1>2. Arrive(r) \/ Serve(r) \/ Abandon(r)
  <2>1. CASE \E s \in Request \ {r} : Arrive(s) \/ Serve(s) \/ Abandon(s)
    BY <1>1, <2>1, OthersStay
  <2>2. CASE UNCHANGED vars \/ \E q \in Quote : QuoteStep(q)
    BY <2>2, QuoteStepKeeps DEF vars, txVars
  <2>3. QED
    BY <2>1, <2>2 DEF Next
<1>3. CASE Validate(r)
  BY <1>1, <1>3 DEF TypeOK, Validate, RequestError, QuoteError, Continue, Return, Goto
<1>4. CASE Check(r)
  BY <1>1, <1>4 DEF TypeOK, Check, AccountError, Continue, RollbackTx, Goto
<1>5. CASE ~Validate(r) /\ ~Check(r)
  BY <1>1, <1>2, <1>5
     DEF TypeOK, LossErrors, Arrive, Serve, Begin, Lock, MissingRow, SystemIds, Cover, Insert,
         Consume, Commit, SerializationFailure, DeadlockAbort, Abandon, Continue,
         Goto, BeginTx, GetForUpdate, RollbackTx, RetryTx, RetryLimitError, CommitTx
<1>6. QED
  BY <1>3, <1>4, <1>5

\* What a commit adds.
RowOf(r) == [request |-> r, attempt |-> attempt[r], in |-> req[r]]

LEMMA CommitRow ==
  ASSUME NEW r \in Request, Sound(r), Commit(r)
  PROVE  /\ pc[r] = "commit" /\ pc'[r] = "done"
         /\ answer'[r] \in {"ok", "failed"}
         /\ transactions' = transactions \cup {RowOf(r)}
         /\ RowOf(r).request = r /\ RowOf(r).in = req[r]
         /\ req' = req /\ seen' = seen
         /\ \A q \in Quote :
              /\ q = req[r].quote => quotes'[q].status = "consumed"
              /\ q # req[r].quote => quotes'[q] = quotes[q]
<1>1. TxTypeOK /\ TablesOK
  BY DEF Sound, TxInv
<1>2. ASSUME NEW q \in Quote
      PROVE  /\ q = req[r].quote => quotes'[q].status = "consumed"
             /\ q # req[r].quote => quotes'[q] = quotes[q]
  <2>1. CASE req[r].quote = NoQuote
    BY <2>1, ConfigAssumption DEF Commit
  <2>2. CASE req[r].quote # NoQuote
    <3>1. quotes[req[r].quote] \in QuoteRow
      BY <1>1, <2>2, InputTyped DEF Sound, Local, Validated, Commit, TablesOK
    <3>2. quotes' = [quotes EXCEPT ![req[r].quote].status = "consumed"]
      BY <2>2 DEF Commit
    <3>3. QED
      BY <1>1, <3>1, <3>2 DEF TablesOK, QuoteRow
  <2>3. QED
    BY <2>1, <2>2
<1>3. QED
  BY <1>1, <1>2 DEF Commit, CommitTx, Goto, TxTypeOK, TablesOK, RowOf

----------------------------------------------------------------------------
(* OnceInv is inductive. *)

\* Rows are never taken away.
LEMMA RowsStay ==
  ASSUME IInv, [Next]_vars
  PROVE  transactions \subseteq transactions'
BY CommitRow, SoundRequest, OnlyCommitPosts

LEMMA RowsDoneStep ==
  ASSUME IInv, RowsDone, QuotesHeld, Next
  PROVE  RowsDone'
<1>1. \A row \in transactions : row.request \in Request
  BY DEF IInv, TypeOK
<1>2. ASSUME NEW row \in transactions
      PROVE  /\ pc'[row.request] = "done"
             /\ row.in = req'[row.request]
             /\ row.in.quote # NoQuote => seen'[row.request] = "open"
             /\ answer'[row.request] \in {"ok", "failed"}
  BY <1>1, DoneStays, ReqStays DEF RowsDone
<1>3. CASE \E r \in Request : Commit(r)
  <2>1. PICK r \in Request : Commit(r)
    BY <1>3
  <2>2. req[r].quote # NoQuote => seen[r] = "open"
    BY <2>1, CommitRow, SoundRequest DEF QuotesHeld
  <2>3. QED
    BY <1>2, <2>1, <2>2, CommitRow, SoundRequest DEF RowsDone
<1>4. CASE \A r \in Request : ~Commit(r)
  BY <1>2, <1>4, OnlyCommitPosts DEF RowsDone
<1>5. QED
  BY <1>3, <1>4

\* A key is new when it is inserted, and stays new until the commit because
\* every other insert of it waits.
LEMMA KeysHeldStep ==
  ASSUME IInv, KeysHeld, Next
  PROVE  KeysHeld'
<1> SUFFICES ASSUME NEW r \in Request, pc'[r] \in {"consume", "commit"}
             PROVE  ~Duplicate(r)' /\ \A s \in Request : ~HoldsKey(s, r)'
  BY DEF KeysHeld
<1>0. req' = req
  BY ReqStays
<1>1. /\ ~Duplicate(r)
      /\ \A s \in Request : ~HoldsKey(s, r)
  BY OnlyInsertHolds DEF KeysHeld, Insert, Consume
<1>2. ASSUME NEW s \in Request, HoldsKey(s, r)'
      PROVE  FALSE
  <2>1. /\ s # r /\ SameKey(req[s], req[r]) /\ SameKey(req[r], req[s])
        /\ pc'[s] \in {"consume", "commit"}
    BY <1>0, <1>2 DEF HoldsKey, SameKey
  <2>2. pc[s] \notin {"consume", "commit"}
    BY <1>1, <2>1 DEF HoldsKey
  <2>3. Insert(s)
    BY <2>1, <2>2, OnlyInsertHolds DEF Consume
  <2>4. pc'[r] = pc[r]
    BY <2>1, <2>3, OthersStay DEF IInv, Serve
  <2>5. QED
    BY <2>1, <2>3, <2>4 DEF Insert, HoldsKey
<1>3. ~Duplicate(r)'
  <2>1. CASE \E s \in Request : Commit(s)
    <3>1. PICK s \in Request : Commit(s)
      BY <2>1
    <3>2. s # r /\ pc[s] = "commit"
      BY <3>1, CommitRow, SoundRequest
    <3>3. ~SameKey(req[s], req[r])
      BY <1>1, <3>2 DEF HoldsKey
    <3>4. QED
      BY <1>0, <1>1, <3>1, <3>3, CommitRow, SoundRequest DEF Duplicate
  <2>2. CASE \A s \in Request : ~Commit(s)
    BY <1>0, <1>1, <2>2, OnlyCommitPosts DEF Duplicate
  <2>3. QED
    BY <2>1, <2>2
<1>4. QED
  BY <1>2, <1>3

\* A consumed quote was open in the snapshot, and nobody has consumed it since.
LEMMA QuotesHeldStep ==
  ASSUME IInv, QuotesHeld, Next
  PROVE  QuotesHeld'
<1> SUFFICES ASSUME NEW r \in Request
             PROVE  /\ pc'[r] = "consume" => req'[r].quote # NoQuote
                    /\ pc'[r] = "commit" /\ req'[r].quote # NoQuote =>
                         /\ seen'[r] = "open"
                         /\ quotes'[req'[r].quote].status # "consumed"
                         /\ \A s \in Request : ~HoldsQuote(s, r)'
  BY DEF QuotesHeld
<1>0. req' = req /\ req[r].quote \in Quote \cup {NoQuote}
  BY ReqStays, InputType DEF IInv
<1>1. pc'[r] = "consume" => req[r].quote # NoQuote
  BY OnlyInsertHolds DEF QuotesHeld, AfterInsert, Insert
<1>2. CASE pc'[r] = "commit" /\ req[r].quote # NoQuote
  <2>1. /\ pc'[r] = pc[r] \/ Consume(r)
        /\ seen'[r] = "open"
        /\ quotes[req[r].quote].status # "consumed"
        /\ \A s \in Request : ~HoldsQuote(s, r)
    BY <1>2, OnlyInsertHolds DEF QuotesHeld, AfterInsert, Consume, QuoteOutdated
  <2>2. ASSUME NEW s \in Request, HoldsQuote(s, r)'
        PROVE  FALSE
    <3>1. s # r /\ pc'[s] = "commit" /\ req[s].quote = req[r].quote
      BY <1>0, <2>2 DEF HoldsQuote
    <3>2. pc[s] # "commit"
      BY <2>1, <3>1 DEF HoldsQuote
    <3>3. Consume(s)
      BY <1>2, <3>1, <3>2, OnlyInsertHolds DEF AfterInsert
    <3>4. pc'[r] = pc[r]
      BY <3>1, <3>3, OthersStay DEF IInv, Serve
    <3>5. QED
      BY <1>2, <3>1, <3>3, <3>4 DEF Consume, HoldsQuote
  <2>3. quotes'[req[r].quote].status # "consumed"
    <3>1. CASE \E s \in Request : Commit(s)
      <4>1. PICK s \in Request : Commit(s)
        BY <3>1
      <4>2. s # r /\ pc[s] = "commit"
        BY <1>2, <4>1, CommitRow, SoundRequest
      <4>3. req[s].quote # req[r].quote
        BY <2>1, <4>2 DEF HoldsQuote
      <4>4. QED
        BY <1>0, <1>2, <2>1, <4>1, <4>3, CommitRow, SoundRequest
    <3>2. CASE \A s \in Request : ~Commit(s)
      BY <1>0, <1>2, <2>1, <3>2, OnlyCommitPosts
    <3>3. QED
      BY <3>1, <3>2
  <2>4. QED
    BY <1>0, <1>1, <2>1, <2>2, <2>3
<1>3. QED
  BY <1>0, <1>1, <1>2

\* The conversion depends on the currencies and the amount alone.
LEMMA ConvertedTerms ==
  ASSUME NEW i, NEW j, i.from = j.from, i.to = j.to, i.amount = j.amount
  PROVE  Converted(i) = Converted(j)
BY DEF Converted

LEMMA QuotesExactStep ==
  ASSUME IInv, QuotesExact, Next
  PROVE  QuotesExact'
<1> SUFFICES ASSUME NEW q \in Quote, quotes'[q] # NoRow
             PROVE  quotes'[q].converted = Converted(quotes'[q])
  BY DEF QuotesExact, Converted
<1>1. CASE quotes[q] # NoRow
  <2>1. /\ quotes'[q].from = quotes[q].from /\ quotes'[q].to = quotes[q].to
        /\ quotes'[q].amount = quotes[q].amount
        /\ quotes'[q].converted = quotes[q].converted
    BY <1>1, QuotesStay DEF IInv
  <2>2. QED
    BY <1>1, <2>1, ConvertedTerms DEF QuotesExact
<1>2. CASE quotes[q] = NoRow
  <2>1. ASSUME NEW r \in Request, Commit(r)
        PROVE  FALSE
    <3>1. CASE q = req[r].quote
      <4>1. req[r].quote # NoQuote
        BY <3>1, ConfigAssumption
      <4>2. QED
        BY <1>2, <2>1, <3>1, <4>1, CommitRow, SoundRequest DEF IInv, Local, Validated
    <3>2. CASE q # req[r].quote
      BY <1>2, <2>1, <3>2, CommitRow, SoundRequest
    <3>3. QED
      BY <3>1, <3>2
  <2>2. PICK c \in Quote : QuoteStep(c)
    BY <1>2, <2>1 DEF Next, Arrive, Serve, Validate, Begin, Lock, MissingRow, Check,
                      SystemIds, Cover, Insert, Consume, SerializationFailure,
                      DeadlockAbort, Abandon, tables
  <2>3. c = q /\ KeyShare(q) /\ quotes' # quotes
    BY <1>2, <2>2 DEF QuoteStep, QuoteExchange, QuoteFails, Expire, KeyShare, NoRow,
                      IInv, TypeOK
  <2>4. quotes'[q] = Issued(issuing[q].in)
    BY <2>3 DEF KeyShare, IInv, TypeOK
  <2>5. QED
    BY <2>4, ConvertedTerms DEF Issued
<1>3. QED
  BY <1>1, <1>2

LEMMA AnswersGivenStep ==
  ASSUME IInv, AnswersGiven, Next
  PROVE  AnswersGiven'
<1> SUFFICES ASSUME NEW r \in Request
             PROVE  /\ pc'[r] # "done" => answer'[r] = "none"
                    /\ answer'[r] = "ok" => Posted(r)'
                    /\ answer'[r] = "duplicate" => Duplicate(r)'
  BY DEF AnswersGiven
<1>1. /\ Posted(r) => Posted(r)'
      /\ Duplicate(r) => Duplicate(r)'
  BY RowsStay, ReqStays DEF Posted, Duplicate
<1>2. CASE answer'[r] = answer[r]
  <2>1. pc'[r] # "done" => pc[r] # "done"
    BY DoneStays
  <2>2. QED
    BY <1>1, <1>2, <2>1 DEF AnswersGiven
<1>3. CASE answer'[r] # answer[r]
  <2>1. /\ pc'[r] = "done"
        /\ answer'[r] = "ok" => Commit(r)
        /\ answer'[r] = "duplicate" => Duplicate(r)
    BY <1>3, AnswerStep
  <2>2. Commit(r) => Posted(r)'
    BY CommitRow, SoundRequest DEF Posted
  <2>3. QED
    BY <1>1, <2>1, <2>2
<1>4. QED
  BY <1>2, <1>3

\* The committing request has no row yet, and its key and its quote are in none.
LEMMA NewRow ==
  ASSUME OnceInv, NEW r \in Request, Commit(r), NEW row \in transactions
  PROVE  /\ row.request # r
         /\ ~SameKey(row.in, req[r]) /\ ~SameKey(req[r], row.in)
         /\ req[r].quote # NoQuote => row.in.quote # req[r].quote
<1>1. pc[r] = "commit"
  BY CommitRow, SoundRequest DEF OnceInv
<1>2. row.request # r
  BY <1>1 DEF OnceInv, RowsDone
<1>3. ~SameKey(row.in, req[r]) /\ ~SameKey(req[r], row.in)
  BY <1>1 DEF OnceInv, KeysHeld, Duplicate, SameKey
<1>4. req[r].quote # NoQuote => row.in.quote # req[r].quote
  BY <1>1 DEF OnceInv, QuotesHeld, QuoteRows
<1>5. QED
  BY <1>2, <1>3, <1>4

LEMMA RowsStep ==
  ASSUME OnceInv, Next
  PROVE  OncePerKey' /\ OncePerRequest' /\ QuoteRows'
<1>1. IInv /\ TypeOK
  BY DEF OnceInv, IInv
<1>2. ASSUME NEW q \in Quote, NEW i, quotes[q] # NoRow, QuoteMatches(quotes[q], i)
      PROVE  QuoteMatches(quotes'[q], i)
  BY <1>1, <1>2, QuotesStay DEF QuoteMatches
<1>3. ASSUME NEW row \in transactions, row.in.quote # NoQuote
      PROVE  /\ row.in.quote \in Quote /\ quotes[row.in.quote] # NoRow
             /\ QuoteMatches(quotes'[row.in.quote], row.in)
  <2>1. row.in.quote \in Quote
    BY <1>1, <1>3, InputAssumption DEF TypeOK
  <2>2. quotes[row.in.quote] # NoRow
    BY <1>3 DEF OnceInv, QuoteRows, NoRow
  <2>3. QED
    BY <1>2, <1>3, <2>1, <2>2 DEF OnceInv, QuoteRows
<1>4. CASE \A r \in Request : ~Commit(r)
  <2>1. transactions' = transactions
    BY <1>1, <1>4, OnlyCommitPosts
  <2>2. \A q \in Quote : (quotes'[q].status = "consumed") <=>
                         (quotes[q].status = "consumed")
    BY <1>1, <1>4, OnlyCommitPosts
  <2>3. OncePerKey' /\ OncePerRequest'
    BY <2>1 DEF OnceInv, OncePerKey, OncePerRequest
  <2>4. QuoteRows'
    BY <1>3, <2>1, <2>2 DEF OnceInv, QuoteRows
  <2>5. QED
    BY <2>3, <2>4
<1>5. CASE \E r \in Request : Commit(r)
  <2>1. PICK r \in Request : Commit(r)
    BY <1>5
  <2> DEFINE new == RowOf(r)
  <2>2. /\ transactions' = transactions \cup {new}
        /\ \A q \in Quote : /\ q = req[r].quote => quotes'[q].status = "consumed"
                            /\ q # req[r].quote => quotes'[q] = quotes[q]
    BY <1>1, <2>1, CommitRow, SoundRequest
  <2>3. \A row \in transactions :
          /\ row.request # new.request
          /\ ~SameKey(row.in, new.in) /\ ~SameKey(new.in, row.in)
          /\ new.in.quote # NoQuote => row.in.quote # new.in.quote
    BY <1>1, <2>1, NewRow, CommitRow, SoundRequest
  <2>4. new.request = r /\ new.in = req[r]
    BY <1>1, <2>1, CommitRow, SoundRequest
  <2>5. new.in.quote # NoQuote =>
          /\ new.in.quote \in Quote
          /\ QuoteMatches(quotes'[new.in.quote], new.in)
    <3>1. req[r].quote # NoQuote =>
            /\ req[r].quote \in Quote
            /\ quotes[req[r].quote] # NoRow
            /\ QuoteMatches(quotes[req[r].quote], req[r])
      BY <1>1, <2>1, InputType DEF IInv, Local, Validated, Commit
    <3>2. QED
      BY <1>2, <2>4, <3>1
  <2> HIDE DEF new
  <2>6. OncePerKey' /\ OncePerRequest'
    BY <2>2, <2>3 DEF OnceInv, OncePerKey, OncePerRequest
  <2>7. ASSUME NEW row \in transactions', row.in.quote # NoQuote
        PROVE  /\ quotes'[row.in.quote].status = "consumed"
               /\ QuoteMatches(quotes'[row.in.quote], row.in)
               /\ \A other \in transactions' :
                    other.in.quote = row.in.quote => other = row
    BY <1>3, <2>2, <2>3, <2>4, <2>5, <2>7 DEF OnceInv, QuoteRows
  <2>8. ASSUME NEW q \in Quote, quotes'[q].status = "consumed"
        PROVE  \E row \in transactions' : row.in.quote = q
    BY <2>2, <2>4, <2>8 DEF OnceInv, QuoteRows
  <2>9. QED
    BY <2>6, <2>7, <2>8 DEF QuoteRows
<1>6. QED
  BY <1>4, <1>5

LEMMA InitOnceInv == Init => OnceInv
<1> SUFFICES ASSUME Init
             PROVE  OnceInv
  OBVIOUS
<1>1. RowsDone /\ OncePerKey /\ OncePerRequest /\ QuoteRows /\ QuotesExact
  BY DEF Init, RowsDone, OncePerKey, OncePerRequest, QuoteRows, QuotesExact, NoRow
<1>2. KeysHeld /\ QuotesHeld /\ AnswersGiven
  BY DEF Init, TxInit, KeysHeld, QuotesHeld, AnswersGiven
<1>3. QED
  BY <1>1, <1>2, InitIInv DEF OnceInv

LEMMA StepOnceInv == OnceInv /\ [Next]_vars => OnceInv'
<1> SUFFICES ASSUME OnceInv, [Next]_vars
             PROVE  OnceInv'
  OBVIOUS
<1>1. CASE Next
  BY <1>1, StepIInv, RowsDoneStep, KeysHeldStep, QuotesHeldStep, QuotesExactStep,
     AnswersGivenStep, RowsStep DEF OnceInv
<1>2. CASE UNCHANGED vars
  <2>1. IInv'
    BY <1>2, StepIInv DEF OnceInv
  <2>2. QED
    BY <1>2, <2>1
       DEF vars, txVars, OnceInv, RowsDone, KeysHeld, Duplicate, HoldsKey,
           QuotesHeld, HoldsQuote, QuotesExact, Converted, AnswersGiven, Posted,
           OncePerKey, OncePerRequest, QuoteRows
<1>3. QED
  BY <1>1, <1>2

LEMMA OnceInvariance == Spec => []OnceInv
BY InitOnceInv, StepOnceInv, PTL DEF Spec

----------------------------------------------------------------------------
(* The theorems. *)

\* A client_request_id is processed at most once, through any retries and any
\* concurrent copies of the request.
THEOREM Idempotence == Spec => []OncePerKey
<1>1. OnceInv => OncePerKey
  BY DEF OnceInv
<1>2. QED
  BY <1>1, OnceInvariance, PTL

\* A request is posted at most once, with a key or without one, although each of
\* its attempts inserts a row of its own: WithTx never runs again a function
\* whose transaction may have been committed.
THEOREM NoDoublePosting == Spec => []OncePerRequest
<1>1. OnceInv => OncePerRequest
  BY DEF OnceInv
<1>2. QED
  BY <1>1, OnceInvariance, PTL

\* A quote serves one exchange, the one it was issued for, at its price and in
\* time; and no quote is consumed for nothing.
THEOREM QuotesAreHonoured == Spec => []QuoteHonoured
<1>1. OnceInv => QuoteHonoured
  <2> SUFFICES ASSUME OnceInv, NEW row \in transactions, row.in.quote # NoQuote
               PROVE  Converted(row.in) = quotes[row.in.quote].converted
    BY DEF QuoteHonoured, OnceInv, QuoteRows, RowsDone
  <2>1. row.in.quote \in Quote
    BY InputAssumption DEF OnceInv, IInv, TypeOK
  <2>2. /\ quotes[row.in.quote] # NoRow
        /\ QuoteMatches(quotes[row.in.quote], row.in)
    BY DEF OnceInv, QuoteRows, NoRow
  <2>3. Converted(row.in) = Converted(quotes[row.in.quote])
    BY <2>2, ConvertedTerms DEF QuoteMatches
  <2>4. QED
    BY <2>1, <2>2, <2>3 DEF OnceInv, QuotesExact
<1>2. QED
  BY <1>1, OnceInvariance, PTL

\* The answers are true: ok is posted, a refusal is not, and a duplicate is one
\* of another request that is.
THEOREM AnswersAreTrue == Spec => []AnswerTruthful
<1>1. OnceInv => AnswerTruthful
  <2> SUFFICES ASSUME OnceInv, NEW r \in Request
               PROVE  /\ answer[r] = "ok" => Posted(r)
                      /\ answer[r] \in Refusals => ~Posted(r)
                      /\ answer[r] = "duplicate" =>
                           \E row \in transactions :
                             row.request # r /\ SameKey(row.in, req[r])
    BY DEF AnswerTruthful
  <2>1. answer[r] \in Refusals => ~Posted(r)
    BY DEF OnceInv, RowsDone, Posted, Refusals
  <2>2. answer[r] = "duplicate" => Duplicate(r) /\ ~Posted(r)
    BY <2>1 DEF OnceInv, AnswersGiven, Refusals
  <2>3. QED
    BY <2>1, <2>2 DEF OnceInv, AnswersGiven, Duplicate, Posted
<1>2. QED
  BY <1>1, OnceInvariance, PTL

----------------------------------------------------------------------------
(***************************************************************************)
(* Proof that TransactionService implements Bank: a commit is one step of   *)
(* Bank on the balances of that moment, and nothing else shows.  This is    *)
(* the serializability of Transfer and Exchange, and with it atomicity: no  *)
(* state shows half of a request.                                           *)
(***************************************************************************)

\* Bank's arithmetic is the arithmetic of the service.
LEMMA BankRates ==
  /\ \A c, d : B!ExchangePairAllowed(c, d) <=> ExchangePairAllowed(c, d)
  /\ \A c, d : B!DirectionalRate(c, d) = DirectionalRate(c, d)
  /\ \A n, rate : B!ConvertMinor(n, rate) = ConvertMinor(n, rate)
<1>1. B!FixedUSDEURRate = FixedUSDEURRate /\ B!RateScale = RateScale
  BY SMT DEF B!FixedUSDEURRate, FixedUSDEURRate, B!RateScale, RateScale
<1>2. \A n, d : B!RoundBank(n, d) = RoundBank(n, d)
  BY SMT DEF B!RoundBank, RoundBank
<1>3. B!InverseRate = InverseRate
  BY <1>1, <1>2, SMT DEF B!InverseRate, InverseRate
<1>4. QED
  BY <1>1, <1>2, <1>3
     DEF B!ExchangePairAllowed, ExchangePairAllowed, B!DirectionalRate,
         DirectionalRate, B!ConvertMinor, ConvertMinor

\* An entry is what Bank adds to an account.
LEMMA EntryAdds ==
  ASSUME NEW f, NEW a, NEW n
  PROVE  B!Add(f, a, n) = Entry(f, a, n)
BY DEF B!Add, Entry

\* The entries of a request, as Bank writes them.
LEMMA TransferMoves ==
  ASSUME NEW f, NEW i \in Input, i.kind = "transfer"
  PROVE  InsertEntries(f, i) = B!Move(f, i.from, i.to, i.amount)
<1>1. InsertEntries(f, i) = Entry(Entry(f, i.from, -i.amount), i.to, i.amount)
  BY DEF InsertEntries
<1>2. B!Move(f, i.from, i.to, i.amount)
        = B!Add(B!Add(f, i.from, -i.amount), i.to, i.amount)
  BY DEF B!Move
<1>3. QED
  BY <1>1, <1>2, EntryAdds

LEMMA ExchangeMoves ==
  ASSUME NEW f, NEW i \in Input, i.kind = "exchange"
  PROVE  InsertEntries(f, i) =
           B!Move(B!Move(f, i.from, SystemFrom(i), i.amount),
                  SystemTo(i), i.to, Converted(i))
<1> DEFINE moved == Entry(Entry(f, i.from, -i.amount), SystemFrom(i), i.amount)
<1>1. InsertEntries(f, i)
        = Entry(Entry(moved, SystemTo(i), -Converted(i)), i.to, Converted(i))
  BY DEF InsertEntries
<1>2. \A g, a, b, n : B!Move(g, a, b, n) = Entry(Entry(g, a, -n), b, n)
  BY EntryAdds DEF B!Move
<1>3. B!Move(f, i.from, SystemFrom(i), i.amount) = moved
  BY <1>2
<1> HIDE DEF moved
<1>4. B!Move(moved, SystemTo(i), i.to, Converted(i))
        = Entry(Entry(moved, SystemTo(i), -Converted(i)), i.to, Converted(i))
  BY <1>2
<1>5. QED
  BY <1>1, <1>3, <1>4

\* The commit of a request changes balances and ledger as its entries say.
LEMMA CommitEntries ==
  ASSUME NEW r \in Request, Sound(r), ExchangeTargetsUsers, Commit(r)
  PROVE  /\ balance' = InsertEntries(balance, req[r])
         /\ ledger' = InsertEntries(ledger, req[r])
<1> DEFINE i == req[r]
<1>1. pc[r] \in {"check"} \cup Decided
  BY DEF Commit, Decided, Writing
<1>2. /\ i.from \in Account /\ i.to \in Account
      /\ SystemFrom(i) \in Account /\ SystemTo(i) \in Account
      /\ i.amount \in Int /\ Converted(i) \in Int
  BY <1>1, PostingType
<1>3. balance \in [Account -> Int]
  BY DEF Sound, TxInv, TxTypeOK
<1>4. /\ InsertEntries(balance, i) \in [Account -> Int]
      /\ \A a \in Account : InsertEntries(balance, i)[a] = balance[a] + Delta(i, a)
  BY <1>2, <1>3, EntriesDelta
<1>5. balance' = [a \in Account |-> balance'[a]]
  BY DEF Commit, CommitTx
<1>6. \A a \in Account : balance'[a] = balance[a] + Delta(i, a)
  BY CommitDelta
<1>7. balance' = InsertEntries(balance, i)
  BY <1>4, <1>5, <1>6
<1>8. QED
  BY <1>7 DEF Commit

\* What the request has checked still holds when it commits.
LEMMA CommitConditions ==
  ASSUME NEW r \in Request, Sound(r), Commit(r)
  PROVE  /\ req[r] \in Input
         /\ req[r].kind \in {"transfer", "exchange"}
         /\ B!Covers(req[r])
         /\ req[r].kind = "transfer" => CurrencyOf[req[r].from] = CurrencyOf[req[r].to]
         /\ req[r].kind = "exchange" =>
              /\ ExchangePairAllowed(CurrencyOf[req[r].from], CurrencyOf[req[r].to])
              /\ Converted(req[r]) <= balance[SystemTo(req[r])]
<1> DEFINE i == req[r]
<1>1. pc[r] = "commit" /\ pc[r] \in Decided /\ pc[r] \notin Outside
  BY DEF Commit, Decided, Writing, Outside
<1>2. /\ i.from \in Account /\ i.to \in Account /\ SystemTo(i) \in Account
      /\ i.amount \in Int /\ i.amount > 0 /\ Converted(i) \in Int
      /\ i.kind \in {"transfer", "exchange"}
  BY <1>1, PostingType
<1>3. ASSUME NEW a \in Written(i)
      PROVE  /\ a \in Account
             /\ snapshot[r][a] = balance[a]
             /\ balance[a] \in Int
  <2>1. a \in locked[r] /\ a \in Account
    BY <1>1, <1>3, WrittenLocked DEF Sound, TxInv, TxTypeOK
  <2>2. QED
    BY <1>1, <2>1 DEF Sound, TxInv, TxTypeOK, SnapshotCurrent, LockedCurrent, InTx
<1>4. B!Covers(i)
  <2>1. snapshot[r][i.from] >= i.amount /\ Owner[i.from] = i.user
    BY <1>1 DEF Sound, Local, Approved
  <2>2. snapshot[r][i.from] = balance[i.from] /\ balance[i.from] \in Int
    BY <1>3 DEF Written
  <2>3. QED
    BY <1>2, <2>1, <2>2 DEF B!Covers
<1>5. i.kind = "exchange" => Converted(i) <= balance[SystemTo(i)]
  <2>1. i.kind = "exchange" => snapshot[r][SystemTo(i)] >= Converted(i)
    BY <1>1 DEF Sound, Local, Approved, Writing
  <2>2. i.kind = "exchange" =>
          snapshot[r][SystemTo(i)] = balance[SystemTo(i)] /\ balance[SystemTo(i)] \in Int
    BY <1>3 DEF Written
  <2>3. QED
    BY <1>2, <2>1, <2>2
<1>6. QED
  BY <1>1, <1>2, <1>4, <1>5, InputTyped DEF Sound, Local, Approved

\* The commit of a request consumes its quote and no other.
LEMMA CommitConsumes ==
  ASSUME NEW r \in Request, Sound(r), Commit(r)
  PROVE  Consumed' = Consumed \cup ({req[r].quote} \ {NoQuote})
<1>1. req[r].quote \in Quote \cup {NoQuote}
  BY InputTyped DEF Sound
<1>2. QED
  BY <1>1, CommitRow, ConfigAssumption DEF Consumed

\* It posts the request, whichever attempt it is.
LEMMA CommitPostings ==
  ASSUME NEW r \in Request, Sound(r), Commit(r)
  PROVE  Postings' = Postings \cup {[request |-> r, in |-> req[r]]}
BY CommitRow DEF Postings

\* A commit is a posting of Bank, if neither the request nor its key nor its
\* quote has been posted.
LEMMA CommitPosts ==
  ASSUME ExchangeTargetsUsers, NEW r \in Request, Sound(r), Commit(r),
         \A row \in transactions : row.request # r,
         ~Duplicate(r), req[r].quote \notin Consumed, NEW i, i = req[r]
  PROVE  i \in Input /\ (B!PostTransfer(r, i) \/ B!PostExchange(r, i))
<1>0. B!Unposted(r) /\ B!Unprocessed(i)
  BY DEF Postings, Duplicate, SameKey, B!Unposted, B!Unprocessed, B!SameKey
<1>1. /\ i \in Input
      /\ i.kind \in {"transfer", "exchange"}
      /\ B!Covers(i)
  BY CommitConditions
<1>2. /\ balance' = InsertEntries(balance, i)
      /\ ledger' = InsertEntries(ledger, i)
      /\ Postings' = Postings \cup {[request |-> r, in |-> i]}
      /\ Consumed' = Consumed \cup ({i.quote} \ {NoQuote})
  BY <1>1, CommitEntries, CommitConsumes, CommitPostings
<1>3. CASE i.kind = "transfer"
  <2>1. CurrencyOf[i.from] = CurrencyOf[i.to]
    BY <1>3, CommitConditions
  <2>2. i.quote = NoQuote
    BY <1>1, <1>3, InputAssumption
  <2>3. Consumed' = Consumed
    BY <1>2, <2>2
  <2>4. /\ balance' = B!Move(balance, i.from, i.to, i.amount)
        /\ ledger' = B!Move(ledger, i.from, i.to, i.amount)
    <3>1. /\ InsertEntries(balance, i) = B!Move(balance, i.from, i.to, i.amount)
          /\ InsertEntries(ledger, i) = B!Move(ledger, i.from, i.to, i.amount)
      BY <1>1, <1>3, TransferMoves, Zenon
    <3>2. QED
      BY <1>2, <3>1
  <2>5. QED
    BY <1>0, <1>1, <1>2, <1>3, <2>1, <2>3, <2>4 DEF B!PostTransfer
<1>4. CASE i.kind = "exchange"
  <2>1. /\ ExchangePairAllowed(CurrencyOf[i.from], CurrencyOf[i.to])
        /\ Converted(i) <= balance[SystemTo(i)]
        /\ i.quote \notin Consumed
    BY <1>4, CommitConditions
  <2>2. /\ balance' = B!Move(B!Move(balance, i.from, SystemFrom(i), i.amount),
                             SystemTo(i), i.to, Converted(i))
        /\ ledger' = B!Move(B!Move(ledger, i.from, SystemFrom(i), i.amount),
                            SystemTo(i), i.to, Converted(i))
    <3>1. /\ InsertEntries(balance, i)
               = B!Move(B!Move(balance, i.from, SystemFrom(i), i.amount),
                        SystemTo(i), i.to, Converted(i))
          /\ InsertEntries(ledger, i)
               = B!Move(B!Move(ledger, i.from, SystemFrom(i), i.amount),
                        SystemTo(i), i.to, Converted(i))
      BY <1>1, <1>4, ExchangeMoves
    <3>2. QED
      BY <1>2, <3>1
  <2> DEFINE from      == CurrencyOf[i.from]
             to        == CurrencyOf[i.to]
             converted == B!ConvertMinor(i.amount, B!DirectionalRate(from, to))
             moved(f)  == B!Move(B!Move(f, i.from, SystemAccount[from], i.amount),
                                 SystemAccount[to], i.to, converted)
  <2>3. converted = Converted(i)
    BY BankRates DEF Converted
  <2>4. SystemFrom(i) = SystemAccount[from] /\ SystemTo(i) = SystemAccount[to]
    BY DEF SystemFrom, SystemTo
  <2> HIDE DEF converted
  <2>5. /\ balance' = moved(balance) /\ ledger' = moved(ledger)
        /\ B!ExchangePairAllowed(from, to)
        /\ converted <= balance[SystemAccount[to]]
    BY <2>1, <2>2, <2>3, <2>4, BankRates
  <2> HIDE DEF moved
  <2>6. QED
    BY <1>0, <1>1, <1>2, <1>4, <2>1, <2>5, Zenon
       DEF B!PostExchange, moved, converted
<1>5. QED
  BY <1>1, <1>3, <1>4

\* A commit is a step of Bank.
LEMMA CommitIsBankNext ==
  ASSUME OnceInv, ExchangeTargetsUsers, NEW r \in Request, Commit(r)
  PROVE  B!BankNext
<1>1. Sound(r) /\ pc[r] = "commit"
  BY SoundRequest DEF OnceInv, Commit
<1>2. ~Duplicate(r)
  BY <1>1 DEF OnceInv, KeysHeld
<1>3. req[r].quote \notin Consumed
  BY <1>1, ConfigAssumption DEF OnceInv, QuotesHeld, Consumed
<1>4. \A row \in transactions : row.request # r
  BY <1>1 DEF OnceInv, RowsDone
<1>5. PICK i : i = req[r]
  OBVIOUS
<1>6. i \in Input /\ (B!PostTransfer(r, i) \/ B!PostExchange(r, i))
  BY <1>1, <1>2, <1>3, <1>4, <1>5, CommitPosts
<1>7. QED
  BY <1>6 DEF B!BankNext

\* Transfer and Exchange are atomic and serializable, as long as no exchange
\* pays into a system account.
THEOREM Serializability ==
  ASSUME ExchangeTargetsUsers
  PROVE  Spec => ImplementsBank
<1>1. Init => B!BankInit
  BY DEF Init, TxInit, NoRow, Postings, Consumed, B!BankInit
<1>2. OnceInv /\ [Next]_vars => [B!BankNext]_(B!bankVars)
  <2> SUFFICES ASSUME OnceInv, [Next]_vars
               PROVE  B!BankNext \/ UNCHANGED B!bankVars
    OBVIOUS
  <2>1. CASE \E r \in Request : Commit(r)
    BY <2>1, CommitIsBankNext
  <2>2. CASE \A r \in Request : ~Commit(r)
    <3>1. /\ balance' = balance /\ ledger' = ledger
          /\ transactions' = transactions
          /\ \A q \in Quote : (quotes'[q].status = "consumed") <=>
                              (quotes[q].status = "consumed")
      BY <2>2, OnlyCommitPosts DEF OnceInv
    <3>2. QED
      BY <3>1 DEF B!bankVars, Postings, Consumed
  <2>3. QED
    BY <2>1, <2>2
<1>3. QED
  BY <1>1, <1>2, OnceInvariance, PTL DEF Spec, ImplementsBank, B!BankSpec

----------------------------------------------------------------------------
(***************************************************************************)
(* Proof that the locks of transfers and exchanges make no deadlock among   *)
(* themselves, as long as no request names a system account (the run        *)
(* LockOrder shows one that does), nor with the inserts of quotes that      *)
(* follow the order of the ids.                                             *)
(*                                                                         *)
(* Take requests and inserts in a circle of such waits.  Nobody waits for a *)
(* request at its commit, so none of them is at Consume or Insert, and they *)
(* all wait for rows.  Whoever holds a system row and waits, waits for one  *)
(* of a higher rank: none of the requests waits for a system row, since the *)
(* one whose rank is greatest would wait for nobody.  The same holds of the *)
(* users' rows, an insert handing the wait on to a row of higher rank.      *)
(***************************************************************************)

\* No request names a system account.
RequestsNameUsers ==
  \A i \in Input, c \in Currency : /\ i.from # SystemAccount[c]
                                   /\ i.to # SystemAccount[c]

\* The rows that the code has locked by now, and no others.
LocksHeld(r) ==
  LET i == req[r]
  IN  /\ pc[r] = "lockLeft" => locked[r] = {}
      /\ pc[r] = "lockRight" => locked[r] \subseteq {OrderedIDs(i.from, i.to)[1]}
      /\ pc[r] \in {"check", "sysIds", "sysLeft"} => locked[r] \subseteq {i.from, i.to}
      /\ pc[r] = "sysRight" =>
           locked[r] \subseteq {i.from, i.to, OrderedIDs(SystemFrom(i), SystemTo(i))[1]}

\* The transactions that are open.
Open == {r \in Request : InTx(r)}

\* A row has no lock of an insert while a request has locked it.
SharesExclusive == \A q \in Quote, r \in Request : Shared(q) \cap locked[r] = {}

OrderInv == /\ IInv
            /\ IsFiniteSet(Open)
            /\ SharesExclusive
            /\ \A r \in Request : LocksHeld(r)

\* Every non-empty set of naturals has a least element.
LEMMA LeastNatural ==
  ASSUME NEW T \in SUBSET Nat, T # {}
  PROVE  \E m \in T : \A n \in T : m <= n
<1> DEFINE Less == OpToRel(<, Nat)
<1>1. Less = {p \in Nat \X Nat : p[1] < p[2]}
  BY DEF OpToRel
<1>2. IsWellFoundedOn(Less, Nat)
  BY NatLessThanWellFounded
<1> HIDE DEF Less
<1>3. \A x, y \in Nat : <<y, x>> \in Less <=> y < x
  BY <1>1
<1>4. PICK x \in T : \A y \in T : ~(<<y, x>> \in Less)
  BY <1>2, WFMin
<1>5. \A y \in T : ~(y < x)
  BY <1>3, <1>4
<1>6. QED
  BY <1>5

\* Every finite, non-empty set of integers has a greatest element: a smallest
\* set without one would stay one without any of its elements.
LEMMA GreatestInteger ==
  ASSUME NEW S, IsFiniteSet(S), S # {}, S \subseteq Int
  PROVE  \E m \in S : \A n \in S : n <= m
<1> DEFINE Endless(A) == /\ IsFiniteSet(A) /\ A # {} /\ A \subseteq Int
                         /\ \A m \in A : \E n \in A : ~(n <= m)
           Sizes == {n \in Nat : \E A \in SUBSET Int : Endless(A) /\ Cardinality(A) = n}
<1>1. SUFFICES ASSUME Sizes # {}
               PROVE  FALSE
  BY FS_CardinalityType
<1>2. PICK size \in Sizes : \A n \in Sizes : size <= n
  <2> HIDE DEF Sizes
  <2>1. Sizes \in SUBSET Nat
    BY DEF Sizes
  <2>2. QED
    BY <1>1, <2>1, LeastNatural
<1>3. PICK A \in SUBSET Int : Endless(A) /\ Cardinality(A) = size
  BY <1>2
<1>4. PICK a \in A : TRUE
  BY <1>3
<1> DEFINE rest == A \ {a}
<1>5. IsFiniteSet(rest) /\ Cardinality(rest) = size - 1
  BY <1>3, <1>4, FS_RemoveElement
<1>6. rest # {}
  BY <1>3, <1>4
<1>7. size - 1 \in Nat
  BY <1>5, FS_CardinalityType
<1>8. ~Endless(rest)
  <2>1. Endless(rest) => size - 1 \in Sizes
    BY <1>3, <1>5, <1>7
  <2>2. ~(size <= size - 1)
    BY <1>2
  <2> HIDE DEF Sizes, Endless, rest
  <2>3. QED
    BY <1>2, <2>1, <2>2
<1>9. PICK m \in rest : \A n \in rest : n <= m
  BY <1>3, <1>5, <1>6, <1>8
<1>10. QED
  BY <1>3, <1>4, <1>9

\* Of a finite set, one element is nowhere below another.
LEMMA NoAscent ==
  ASSUME NEW S, IsFiniteSet(S), S # {}, NEW height \in [S -> Int]
  PROVE  \E x \in S : \A y \in S : ~(height[x] < height[y])
<1> DEFINE Heights == {height[x] : x \in S}
<1>1. height \in Surjection(S, Heights)
  BY DEF Surjection
<1>2. IsFiniteSet(Heights)
  BY <1>1, FS_Surjection
<1>3. Heights # {} /\ Heights \subseteq Int
  OBVIOUS
<1> HIDE DEF Heights
<1>4. PICK m \in Heights : \A n \in Heights : n <= m
  BY <1>2, <1>3, GreatestInteger
<1>5. PICK x \in S : height[x] = m
  BY <1>4 DEF Heights
<1>6. \A y \in S : height[y] \in Heights
  BY DEF Heights
<1>7. QED
  BY <1>3, <1>4, <1>5, <1>6

\* A step opens at most the transaction of the request that takes it.
LEMMA OpenStep ==
  ASSUME TypeOK, [Next]_vars, IsFiniteSet(Open)
  PROVE  IsFiniteSet(Open')
<1>1. CASE \E s \in Request : Arrive(s) \/ Serve(s) \/ Abandon(s)
  <2>1. PICK s \in Request : Arrive(s) \/ Serve(s) \/ Abandon(s)
    BY <1>1
  <2>2. \A r \in Request \ {s} : pc'[r] = pc[r]
    BY <2>1, OthersStay
  <2>3. Open' \subseteq Open \cup {s}
    BY <2>2 DEF Open, InTx
  <2>4. IsFiniteSet(Open \cup {s})
    BY FS_AddElement
  <2>5. QED
    BY <2>3, <2>4, FS_Subset
<1>2. CASE pc' = pc
  BY <1>2 DEF Open, InTx
<1>3. QED
  BY <1>1, <1>2, QuoteStepKeeps DEF Next, vars, txVars

\* Every step keeps what is known of a request's locks.
LEMMA LocksHeldStep ==
  ASSUME IInv, [Next]_vars, NEW r \in Request, LocksHeld(r)
  PROVE  LocksHeld(r)'
<1>0. TypeOK /\ TxInv /\ req' = req
  BY ReqStays DEF IInv
<1>1. ASSUME pc'[r] = pc[r], locked'[r] = locked[r]
      PROVE  LocksHeld(r)'
  BY <1>0, <1>1 DEF LocksHeld
<1>2. ASSUME pc'[r] \in {"start", "done", "begin", "cover", "insert", "consume", "commit"}
      PROVE  LocksHeld(r)'
  BY <1>2 DEF LocksHeld
<1>3. CASE Arrive(r) \/ Validate(r)
  BY <1>0, <1>2, <1>3 DEF Arrive, Validate, Continue, Return, Goto, TypeOK
<1>4. CASE Begin(r)
  <2>1. pc[r] = "begin" /\ pc'[r] = "lockLeft" /\ locked' = locked
    BY <1>0, <1>4 DEF Begin, BeginTx, Goto, TypeOK
  <2>2. locked[r] = {}
    BY <1>0, <2>1 DEF TxInv, LocksInTx, InTx, Outside
  <2>3. QED
    BY <2>1, <2>2 DEF LocksHeld
<1>5. CASE Lock(r)
  <2>1. /\ pc[r] \in LockSteps
        /\ pc'[r] = AfterLock(pc[r])
        /\ locked'[r] = locked[r] \cup {WantedRow(r)}
    BY <1>0, <1>5 DEF Lock, GetForUpdate, Goto, TypeOK
  <2>2. CASE pc[r] = "lockLeft"
    <3>1. locked[r] = {} /\ WantedRow(r) = OrderedIDs(req[r].from, req[r].to)[1]
      BY <2>2 DEF LocksHeld, WantedRow
    <3>2. pc'[r] = "lockRight"
      BY <2>1, <2>2 DEF AfterLock
    <3>3. QED
      BY <1>0, <2>1, <3>1, <3>2 DEF LocksHeld
  <2>3. CASE pc[r] = "lockRight"
    <3>1. WantedRow(r) = OrderedIDs(req[r].from, req[r].to)[2]
      BY <2>3 DEF WantedRow
    <3>2. locked[r] \cup {WantedRow(r)} \subseteq {req[r].from, req[r].to}
      <4>1. locked[r] \subseteq {OrderedIDs(req[r].from, req[r].to)[1]}
        BY <2>3 DEF LocksHeld
      <4>2. /\ OrderedIDs(req[r].from, req[r].to)[1] \in {req[r].from, req[r].to}
            /\ OrderedIDs(req[r].from, req[r].to)[2] \in {req[r].from, req[r].to}
        BY DEF OrderedIDs
      <4>3. QED
        BY <3>1, <4>1, <4>2
    <3>3. pc'[r] = "check"
      BY <2>1, <2>3 DEF AfterLock
    <3>4. QED
      BY <1>0, <2>1, <3>2, <3>3 DEF LocksHeld
  <2>4. CASE pc[r] = "sysLeft"
    BY <1>0, <2>1, <2>4 DEF AfterLock, WantedRow, LocksHeld, SystemFrom, SystemTo
  <2>5. CASE pc[r] = "sysRight"
    BY <1>2, <2>1, <2>5 DEF AfterLock
  <2>6. QED
    BY <2>1, <2>2, <2>3, <2>4, <2>5 DEF LockSteps
<1>6. CASE MissingRow(r) \/ Abandon(r) \/ Commit(r) \/ SerializationFailure(r) \/ DeadlockAbort(r)
  <2>1. pc'[r] \in {"done", "begin"}
    BY <1>0, <1>6 DEF MissingRow, Abandon, RollbackTx, Commit, CommitTx,
         SerializationFailure, DeadlockAbort, RetryTx, Goto, TypeOK
  <2>2. QED
    BY <1>2, <2>1
<1>7. CASE Check(r) \/ SystemIds(r)
  <2>1. \/ pc'[r] \in {"done", "insert"}
        \/ /\ pc[r] \in {"check", "sysIds"} /\ pc'[r] \in {"sysIds", "sysLeft"}
           /\ locked'[r] = locked[r]
    BY <1>0, <1>7 DEF Check, SystemIds, RollbackTx, Continue, Goto, TypeOK
  <2>2. QED
    BY <1>0, <1>2, <2>1 DEF LocksHeld
<1>8. CASE Cover(r) \/ Insert(r) \/ Consume(r)
  <2>1. pc'[r] \in {"done", "insert", "consume", "commit"}
    BY <1>0, <1>8 DEF Cover, Insert, AfterInsert, Consume, RollbackTx, Continue, Goto, TypeOK
  <2>2. QED
    BY <1>2, <2>1
<1>9. CASE \E s \in Request \ {r} : Arrive(s) \/ Serve(s) \/ Abandon(s)
  BY <1>0, <1>1, <1>9, OthersStay
<1>10. CASE UNCHANGED txVars
  BY <1>1, <1>10 DEF txVars
<1>11. QED
  BY <1>3, <1>4, <1>5, <1>6, <1>7, <1>8, <1>9, <1>10, QuoteStepKeeps
     DEF Next, Serve, vars

\* A lock is given to a request or to an insert when the other has none.
LEMMA SharesStep ==
  ASSUME IInv, [Next]_vars, SharesExclusive
  PROVE  SharesExclusive'
<1>1. TypeOK
  BY DEF IInv
<1>2. ASSUME NEW s \in Request, Arrive(s) \/ Serve(s) \/ Abandon(s)
      PROVE  SharesExclusive'
  <2>1. issuing' = issuing
    BY <1>2 DEF Arrive, Serve, Validate, Begin, Lock, MissingRow, Check, SystemIds,
                Cover, Insert, Consume, Commit, SerializationFailure,
                DeadlockAbort, Abandon, tables
  <2>2. \A q \in Quote : locked'[s] \cap Shared(q) \subseteq locked[s]
    <3>1. CASE Lock(s)
      BY <1>1, <3>1 DEF TypeOK, Lock, GetForUpdate
    <3>2. CASE ~Lock(s)
      <4>1. locked'[s] \in {locked[s], {}}
        BY <1>1, <1>2, <3>2
           DEF TypeOK, Arrive, Serve, Validate, Begin, BeginTx, MissingRow, Check,
               SystemIds, Cover, Insert, Consume, Commit, CommitTx,
               SerializationFailure, DeadlockAbort, Abandon, Continue, Return,
               RollbackTx, RetryTx, EndTx
      <4>2. QED
        BY <4>1
    <3>3. QED
      BY <3>1, <3>2
  <2>3. \A r \in Request \ {s} : locked'[r] = locked[r]
    BY <1>1, <1>2, OthersStay
  <2>4. \A q \in Quote : Shared(q)' = Shared(q)
    BY <2>1 DEF Shared
  <2>5. QED
    BY <2>2, <2>3, <2>4 DEF SharesExclusive
<1>3. ASSUME NEW p \in Quote, QuoteStep(p)
      PROVE  SharesExclusive'
  <2>1. locked' = locked
    BY <1>3, QuoteStepKeeps DEF txVars
  <2>2. ASSUME NEW q \in Quote
        PROVE  \/ Shared(q)' \subseteq Shared(q)
               \/ \A r \in Request : Shared(q)' \cap locked[r] = {}
    <3>1. CASE KeyShare(p) /\ p = q /\ issuing[q].at = "from"
      <4>1. /\ issuing'[q].at = "to" /\ issuing'[q].in = issuing[q].in
            /\ \A r \in Request : issuing[q].in.from \notin locked[r]
        BY <1>1, <3>1 DEF TypeOK, KeyShare, WantedShare, Inserting, NoInsert, Failed
      <4>2. QED
        BY <4>1 DEF Shared
    <3>2. CASE ~(KeyShare(p) /\ p = q /\ issuing[q].at = "from")
      <4>1. issuing'[q] = issuing[q] \/ issuing'[q].at # "to"
        BY <1>1, <1>3, <3>2
           DEF TypeOK, QuoteStep, QuoteExchange, KeyShare, QuoteFails, Expire,
               NoInsert, Failed
      <4>2. QED
        BY <4>1 DEF Shared
    <3>3. QED
      BY <3>1, <3>2
  <2>3. QED
    BY <2>1, <2>2 DEF SharesExclusive
<1>4. CASE UNCHANGED vars
  BY <1>4 DEF vars, txVars, SharesExclusive, Shared
<1>5. QED
  BY <1>2, <1>3, <1>4 DEF Next

LEMMA OrderInvariance == Spec => []OrderInv
<1>1. Init => OrderInv
  <2> SUFFICES ASSUME Init
               PROVE  OrderInv
    OBVIOUS
  <2>1. Open = {} /\ \A r \in Request : LocksHeld(r)
    BY DEF Init, TxInit, Open, InTx, Outside, LocksHeld
  <2>2. QED
    BY <2>1, InitIInv, FS_EmptySet
       DEF OrderInv, SharesExclusive, Shared, Init, NoInsert
<1>2. OrderInv /\ [Next]_vars => OrderInv'
  BY StepIInv, OpenStep, SharesStep, LocksHeldStep DEF OrderInv, IInv
<1>3. QED
  BY <1>1, <1>2, PTL DEF Spec

System(a) == \E c \in Currency : a = SystemAccount[c]
AtSystem(r) == pc[r] \in {"sysLeft", "sysRight"}

\* At the system's rows a transaction wants a system account.
LEMMA SystemWanted ==
  ASSUME IInv, NEW r \in Request, AtSystem(r)
  PROVE  System(WantedRow(r))
<1>1. req[r].from \in Account /\ req[r].to \in Account
  BY LockedAccounts, SoundRequest DEF AtSystem, Decided, SystemSteps
<1>2. CurrencyOf[req[r].from] \in Currency /\ CurrencyOf[req[r].to] \in Currency
  BY <1>1, ConfigAssumption
<1>3. WantedRow(r) \in {SystemFrom(req[r]), SystemTo(req[r])}
  <2>1. WantedRow(r) \in {OrderedIDs(SystemFrom(req[r]), SystemTo(req[r]))[1],
                         OrderedIDs(SystemFrom(req[r]), SystemTo(req[r]))[2]}
    BY DEF AtSystem, WantedRow
  <2>2. QED
    BY <2>1, OrderedIDsPair
<1>4. QED
  BY <1>2, <1>3 DEF System, SystemFrom, SystemTo

\* Who holds a row and waits for another is ahead of those who wait for the
\* first: it is at the system's rows, or wants a row of a higher rank.
LEMMA HolderAhead ==
  ASSUME OrderInv, RequestsNameUsers,
         NEW s \in Request, pc[s] \in LockSteps,
         WantedRow(s) \in Account, WantedRow(s) \notin locked[s],
         NEW a \in locked[s]
  PROVE  /\ System(a) => AtSystem(s)
         /\ System(a) \/ ~AtSystem(s) => Rank[a] < Rank[WantedRow(s)]
<1> DEFINE i == req[s]
           first == OrderedIDs(i.from, i.to)[1]
           second == OrderedIDs(i.from, i.to)[2]
           sysFirst == OrderedIDs(SystemFrom(i), SystemTo(i))[1]
           sysSecond == OrderedIDs(SystemFrom(i), SystemTo(i))[2]
<1>1. \A b, c \in AccountId : Rank[b] \in Nat /\ (Rank[b] = Rank[c] => b = c)
  BY ConfigAssumption
<1>2. a \in AccountId /\ WantedRow(s) \in AccountId
  BY DEF OrderInv, IInv, TypeOK, AccountId
<1>3. /\ i.from \in AccountId /\ i.to \in AccountId
      /\ ~System(i.from) /\ ~System(i.to)
  BY InputType, InputAssumption DEF OrderInv, IInv, RequestsNameUsers, System
<1>4. RowsLocked(s) /\ LocksHeld(s)
  BY DEF OrderInv, IInv, Local
<1>5. pc[s] # "lockLeft"
  BY <1>4 DEF LocksHeld
<1>6. CASE pc[s] = "lockRight"
  <2>1. a = first /\ WantedRow(s) = second /\ first # second
    BY <1>4, <1>6 DEF LocksHeld, WantedRow
  <2>2. Rank[first] < Rank[second]
    BY <1>1, <1>3, <2>1 DEF OrderedIDs
  <2>3. ~System(a)
    BY <1>3, <2>1 DEF OrderedIDs
  <2>4. QED
    BY <2>1, <2>2, <2>3
<1>7. CASE pc[s] = "sysLeft"
  <2>1. a \in {i.from, i.to}
    BY <1>4, <1>7 DEF LocksHeld
  <2>2. QED
    BY <1>3, <1>7, <2>1 DEF AtSystem
<1>8. CASE pc[s] = "sysRight"
  <2>1. a \in {i.from, i.to, sysFirst} /\ WantedRow(s) = sysSecond
    BY <1>4, <1>8 DEF LocksHeld, WantedRow
  <2>2. CASE System(a)
    <3>1. a = sysFirst /\ sysFirst # sysSecond
      BY <1>3, <2>1, <2>2
    <3>2. Rank[sysFirst] < Rank[sysSecond]
      BY <1>1, <1>2, <2>1, <3>1 DEF OrderedIDs
    <3>3. QED
      BY <1>8, <2>1, <3>1, <3>2 DEF AtSystem
  <2>3. QED
    BY <1>8, <2>2 DEF AtSystem
<1>9. QED
  BY <1>5, <1>6, <1>7, <1>8 DEF LockSteps

\* In a circle everybody waits for a row and does not hold it.
LEMMA CircleWaits ==
  ASSUME OrderInv, NEW S \in SUBSET Request, NEW Q \in SUBSET Quote,
         WaitCycle(S, Q), NEW r \in S
  PROVE  /\ pc[r] \in LockSteps
         /\ WantedRow(r) \in Account /\ WantedRow(r) \notin locked[r]
         /\ \/ \E s \in S : WantedRow(r) \in locked[s]
            \/ \E q \in Q : WaitsForInsert(r, q)
<1>1. \A x \in S : \/ \E s \in S : WaitsFor(x, s)
                   \/ \E q \in Q : WaitsForInsert(x, q)
  BY DEF WaitCycle
<1>2. \A x \in S : pc[x] \in LockSteps \cup {"insert", "consume"}
  BY <1>1 DEF WaitsFor, WaitsForInsert
<1>3. \A x \in S : pc[x] # "consume"
  BY <1>1, <1>2 DEF WaitsFor, WaitsForInsert, HoldsQuote, LockSteps
<1>4. pc[r] \in LockSteps
  BY <1>1, <1>2, <1>3 DEF WaitsFor, WaitsForInsert, HoldsKey, LockSteps
<1>5. CASE \E s \in S : WaitsFor(r, s)
  <2>1. PICK s \in S : s # r /\ WantedRow(r) \in locked[s]
    BY <1>4, <1>5 DEF WaitsFor, LockSteps
  <2>2. locked[s] \subseteq Account /\ locked[r] \cap locked[s] = {}
    BY <2>1 DEF OrderInv, IInv, TypeOK, TxInv, LocksExclusive
  <2>3. QED
    BY <1>4, <2>1, <2>2
<1>6. CASE \E q \in Q : WaitsForInsert(r, q)
  <2>1. PICK q \in Q : WantedRow(r) \in Shared(q)
    BY <1>6 DEF WaitsForInsert
  <2>2. Shared(q) \subseteq Account
    BY DEF OrderInv, IInv, Issuing, Inserting, Shared
  <2>3. Shared(q) \cap locked[r] = {}
    BY DEF OrderInv, SharesExclusive
  <2>4. QED
    BY <1>4, <1>6, <2>1, <2>2, <2>3
<1>7. QED
  BY <1>1, <1>5, <1>6

\* No deadlock among transfers and exchanges, whatever the order of the ids, as
\* long as no request names a system account: PostgreSQL finds none to break but
\* those in which QuoteExchange locks two accounts against that order.
THEOREM NeverDeadlocked ==
  ASSUME RequestsNameUsers
  PROVE  Spec => []OnlyQuotesCross
<1>1. OrderInv => OnlyQuotesCross
  <2> SUFFICES ASSUME OrderInv,
                      NEW S \in SUBSET Request, S # {}, NEW Q \in SUBSET Quote,
                      WaitCycle(S, Q),
                      \A q \in Q : ~(Rank[issuing[q].in.from] > Rank[issuing[q].in.to])
               PROVE  FALSE
    BY DEF OnlyQuotesCross
  <2> DEFINE height(r) == Rank[WantedRow(r)]
             Late == {r \in S : AtSystem(r)}
  <2>1. \A a \in Account : Rank[a] \in Nat
    BY ConfigAssumption DEF AccountId
  <2>2. \A r \in S : height(r) \in Int
    BY <2>1, CircleWaits
  <2>3. IsFiniteSet(S)
    <3>1. S \subseteq Open
      BY CircleWaits DEF Open, InTx, Outside, LockSteps
    <3>2. QED
      BY <3>1, FS_Subset DEF OrderInv
  <2>4. ASSUME NEW q \in Q
        PROVE  /\ Inserting(q)
               /\ issuing[q].in.from \in Account /\ issuing[q].in.to \in Account
               /\ ~System(issuing[q].in.from)
               /\ Shared(q) \subseteq {issuing[q].in.from}
               /\ \E s \in S : issuing[q].in.to \in locked[s]
               /\ Rank[issuing[q].in.from] <= Rank[issuing[q].in.to]
    <3>1. /\ Inserting(q) /\ Shared(q) # {}
          /\ \E s \in S : WantedShare(q) \in locked[s]
      BY DEF WaitCycle, WaitsForInsert, InsertWaitsFor
    <3>2. issuing[q].at = "to"
      BY <3>1 DEF Shared
    <3>3. /\ issuing[q].in.from \in Account /\ issuing[q].in.to \in Account
          /\ Owner[issuing[q].in.from] \in User
      BY <3>1, InputAssumption DEF OrderInv, IInv, Issuing
    <3>4. ~System(issuing[q].in.from)
      BY <3>3, ConfigAssumption DEF System
    <3>5. QED
      BY <2>1, <3>1, <3>2, <3>3, <3>4 DEF Shared, WantedShare
  <2>5. ASSUME NEW s \in S, NEW a \in locked[s]
        PROVE  /\ System(a) => AtSystem(s)
               /\ System(a) \/ ~AtSystem(s) => Rank[a] < height(s)
    BY CircleWaits, HolderAhead
  <2>6. ASSUME NEW r \in Late
        PROVE  \E s \in Late : height(r) < height(s)
    <3>1. System(WantedRow(r))
      BY SystemWanted DEF OrderInv
    <3>2. ~(\E q \in Q : WaitsForInsert(r, q))
      BY <2>4, <3>1 DEF WaitsForInsert
    <3>3. PICK s \in S : WantedRow(r) \in locked[s]
      BY <3>2, CircleWaits
    <3>4. QED
      BY <2>5, <3>1, <3>3
  <2>7. ASSUME NEW r \in S, Late = {}
        PROVE  \E s \in S : height(r) < height(s)
    <3>1. CASE \E s \in S : WantedRow(r) \in locked[s]
      BY <2>5, <2>7, <3>1
    <3>2. CASE \E q \in Q : WaitsForInsert(r, q)
      <4>1. PICK q \in Q : WantedRow(r) = issuing[q].in.from
        BY <2>4, <3>2 DEF WaitsForInsert
      <4>2. PICK s \in S : issuing[q].in.to \in locked[s]
        BY <2>4
      <4>3. Rank[issuing[q].in.to] < height(s)
        BY <2>5, <2>7, <4>2
      <4>4. QED
        BY <2>1, <2>2, <2>4, <4>1, <4>3
    <3>3. QED
      BY <3>1, <3>2, CircleWaits
  <2> HIDE DEF height
  <2>8. Late = {}
    <3>1. SUFFICES ASSUME Late # {}
                   PROVE  FALSE
      OBVIOUS
    <3>2. [r \in Late |-> height(r)] \in [Late -> Int]
      BY <2>2
    <3>3. PICK r \in Late : \A s \in Late : ~([x \in Late |-> height(x)][r]
                                              < [x \in Late |-> height(x)][s])
      BY <2>3, <3>1, <3>2, FS_Subset, NoAscent
    <3>4. QED
      BY <2>6, <3>3
  <2>9. [r \in S |-> height(r)] \in [S -> Int]
    BY <2>2
  <2>10. PICK r \in S : \A s \in S : ~([x \in S |-> height(x)][r]
                                       < [x \in S |-> height(x)][s])
    BY <2>3, <2>9, NoAscent
  <2>11. QED
    BY <2>7, <2>8, <2>10
<1>2. QED
  BY <1>1, OrderInvariance, PTL

----------------------------------------------------------------------------
(***************************************************************************)
(* Proof that TransactionService conserves money: the total of a currency   *)
(* is a sum over the accounts, which are finitely many.  SumKept is proved  *)
(* by induction over their subsets, for the function that MapThenSumSet     *)
(* defines, whose existence is proved first.                                *)
(***************************************************************************)
\* The element that a sum takes first.
First(s) == CHOOSE x \in s : TRUE

\* What MapThenSumSet adds up on the way to the sum of f over T: for every
\* subset of T, the sum over it.
IsSum(f, T, sum) ==
  sum = [s \in SUBSET T |->
           IF s = {} THEN 0
           ELSE f[First(s)] + sum[s \ {First(s)}]]

\* The sum of f over T, and the accounts it is over.
SumOver(f, T) == (CHOOSE sum : IsSum(f, T, sum))[T]

Within(c) == {a \in Account : CurrencyOf[a] = c}

\* What MoneyConserved compares are such sums.
LEMMA TotalIsSum ==
  /\ MoneyConserved <=> \A c \in Currency :
       SumOver(balance, Within(c)) = SumOver(OpeningBalance, Within(c))
  /\ MoneyConserved' <=> \A c \in Currency :
       SumOver(balance', Within(c)) = SumOver(OpeningBalance, Within(c))
BY DEF MoneyConserved, Total, SumOver, Within, IsSum, First, MapThenSumSet,
       MapThenFoldSet

\* Such a function exists for the subsets of at most n elements, for every n: at
\* the first n without one, it could be made from the function for n - 1.
LEMMA SumExists ==
  ASSUME NEW f, NEW T, IsFiniteSet(T)
  PROVE  \E sum : IsSum(f, T, sum)
<1> DEFINE Small(n) == {s \in SUBSET T : Cardinality(s) <= n}
           UpTo(n, sum) == sum = [s \in Small(n) |->
              IF s = {} THEN 0
              ELSE f[First(s)] + sum[s \ {First(s)}]]
           Bad == {n \in Nat : ~(\E sum : UpTo(n, sum))}
<1>1. Bad = {}
  <2>1. SUFFICES ASSUME Bad # {}
                 PROVE  FALSE
    OBVIOUS
  <2>2. PICK n \in Bad : \A k \in Bad : n <= k
    <3>1. Bad \in SUBSET Nat
      OBVIOUS
    <3> HIDE DEF Bad
    <3>2. QED
      BY <2>1, <3>1, LeastNatural
  <2>3. n \in Nat
    OBVIOUS
  <2>4. CASE n = 0
    <3>1. \A s \in Small(0) : s = {}
      <4>1. ASSUME NEW s \in Small(0)
            PROVE  s = {}
        <5>1. IsFiniteSet(s) /\ Cardinality(s) <= 0
          BY FS_Subset
        <5>2. Cardinality(s) = 0
          BY <5>1, FS_CardinalityType
        <5>3. QED
          BY <5>1, <5>2, FS_EmptySet
      <4>2. QED
        BY <4>1
    <3>2. UpTo(0, [s \in Small(0) |-> 0])
      BY <3>1
    <3>3. QED
      BY <2>2, <2>4, <3>2
  <2>5. CASE n # 0
    <3>1. n - 1 \in Nat /\ n - 1 \notin Bad
      <4> HIDE DEF Bad
      <4>1. QED
        BY <2>2, <2>3, <2>5
    <3>2. PICK less : UpTo(n - 1, less)
      BY <3>1
    <3> DEFINE rest(s) == s \ {First(s)}
               sum == [s \in Small(n) |->
                         IF s = {} THEN 0 ELSE f[First(s)] + less[rest(s)]]
    <3>3. \A s \in Small(n) : s # {} => rest(s) \in Small(n - 1)
      <4>1. ASSUME NEW s \in Small(n), s # {}
            PROVE  rest(s) \in Small(n - 1)
        <5>1. PICK x \in s : x = First(s)
          BY <4>1 DEF First
        <5>2. IsFiniteSet(s) /\ Cardinality(s) <= n
          BY FS_Subset
        <5>3. Cardinality(s \ {x}) = Cardinality(s) - 1 /\ Cardinality(s) \in Nat
          BY <5>2, FS_RemoveElement, FS_CardinalityType
        <5>4. Cardinality(s \ {x}) <= n - 1
          BY <2>3, <5>2, <5>3
        <5>5. rest(s) = s \ {x}
          BY <5>1
        <5> HIDE DEF rest
        <5>6. QED
          BY <5>4, <5>5
      <4>2. QED
        BY <4>1
    <3>4. \A s \in Small(n - 1) : sum[s] = less[s]
      <4>1. ASSUME NEW s \in Small(n - 1)
            PROVE  sum[s] = less[s]
        <5>1. s \in Small(n)
          <6>1. Cardinality(s) \in Nat
            BY FS_Subset, FS_CardinalityType
          <6>2. QED
            BY <2>3, <6>1
        <5>2. less[s] = IF s = {} THEN 0
                        ELSE f[First(s)] + less[rest(s)]
          BY <3>2
        <5> HIDE DEF rest, Small
        <5>3. QED
          BY <5>1, <5>2
      <4>2. QED
        BY <4>1
    <3>5. sum = [s \in Small(n) |->
                   IF s = {} THEN 0 ELSE f[First(s)] + sum[rest(s)]]
      <4> HIDE DEF rest, Small
      <4>1. sum = [s \in Small(n) |->
                     IF s = {} THEN 0 ELSE f[First(s)] + less[rest(s)]]
        OBVIOUS
      <4> HIDE DEF sum
      <4>2. \A s \in Small(n) : s # {} => sum[rest(s)] = less[rest(s)]
        BY <3>3, <3>4
      <4> DEFINE by(s, subsum) ==
                   IF s = {} THEN 0 ELSE f[First(s)] + subsum[rest(s)]
      <4>3. \A s \in Small(n) : by(s, less) = by(s, sum)
        BY <4>2
      <4>4. sum = [s \in Small(n) |-> by(s, less)]
        BY <4>1
      <4> HIDE DEF by
      <4>5. sum = [s \in Small(n) |-> by(s, sum)]
        BY <4>3, <4>4
      <4>6. QED
        BY <4>5 DEF by
    <3>6. UpTo(n, sum)
      <4> HIDE DEF Small
      <4>1. QED
        BY <3>5
    <3>7. QED
      BY <2>2, <3>6
  <2>6. QED
    BY <2>4, <2>5
<1>2. Cardinality(T) \in Nat
  BY FS_CardinalityType
<1>3. Small(Cardinality(T)) = SUBSET T
  BY FS_Subset
<1>4. PICK sum : UpTo(Cardinality(T), sum)
  BY <1>1, <1>2
<1>5. IsSum(f, T, sum)
  <2>1. sum = [s \in Small(Cardinality(T)) |->
              IF s = {} THEN 0
              ELSE f[First(s)] + sum[s \ {First(s)}]]
    BY <1>4
  <2> HIDE DEF Small
  <2>2. QED
    BY <1>3, <2>1 DEF IsSum
<1>6. QED
  BY <1>5

\* The sum over a subset is the sum over all of it but one element, and that.
LEMMA SumOfSubset ==
  ASSUME NEW f, NEW T, NEW sum, IsSum(f, T, sum)
  PROVE  /\ sum[{}] = 0
         /\ \A s \in SUBSET T : \A x \in s : x = First(s) =>
              sum[s] = f[x] + sum[s \ {x}]
BY DEF IsSum

\* What holds of the empty set, and of a set when it holds of the set without
\* the element that a sum takes first, holds of every subset: a smallest subset
\* it does not hold of would have a smaller one.
LEMMA SubsetInduction ==
  ASSUME NEW T, IsFiniteSet(T), NEW Good, {} \in Good,
         \A s \in SUBSET T : \A x \in s :
           x = First(s) /\ s \ {x} \in Good => s \in Good
  PROVE  SUBSET T \subseteq Good
<1> DEFINE Bad == {s \in SUBSET T : s \notin Good}
           Sizes == {n \in Nat : \E s \in Bad : Cardinality(s) = n}
<1>1. SUFFICES ASSUME Bad # {}
               PROVE  FALSE
  OBVIOUS
<1>2. \A s \in SUBSET T : IsFiniteSet(s) /\ Cardinality(s) \in Nat
  BY FS_Subset, FS_CardinalityType
<1>3. PICK n \in Sizes : \A k \in Sizes : n <= k
  <2>1. Sizes # {} /\ Sizes \in SUBSET Nat
    BY <1>1, <1>2
  <2> HIDE DEF Sizes
  <2>2. QED
    BY <2>1, LeastNatural
<1>4. PICK s \in Bad : Cardinality(s) = n
  BY <1>3
<1>5. s # {}
  OBVIOUS
<1>6. PICK x \in s : x = First(s)
  BY <1>5 DEF First
<1>7. Cardinality(s \ {x}) = n - 1 /\ n - 1 \in Nat
  <2>1. IsFiniteSet(s) /\ s \ {x} \in SUBSET T
    BY <1>2
  <2>2. Cardinality(s \ {x}) = Cardinality(s) - 1
    BY <2>1, FS_RemoveElement
  <2>3. Cardinality(s \ {x}) \in Nat
    BY <1>2, <2>1
  <2>4. QED
    BY <1>4, <2>2, <2>3
<1>8. s \ {x} \notin Bad
  BY <1>3, <1>7
<1>9. s \ {x} \in Good
  BY <1>8
<1>10. QED
  BY <1>6, <1>9

\* g is f with an amount moved from q to p, where these are in T.
Moved(f, g, T, amount, q, p) ==
  \A a \in T : /\ f[a] \in Int
               /\ g[a] = f[a] + (IF a = p THEN amount ELSE 0)
                              - (IF a = q THEN amount ELSE 0)

\* An amount that goes from one element to another leaves the sum over a set
\* that has both of them, or none, as it is.
LEMMA SumKept ==
  ASSUME NEW T, IsFiniteSet(T), NEW f, NEW g, NEW p, NEW q, NEW amount \in Int,
         p \in T <=> q \in T, Moved(f, g, T, amount, q, p)
  PROVE  SumOver(g, T) = SumOver(f, T)
<1> DEFINE F == CHOOSE sum : IsSum(f, T, sum)
           G == CHOOSE sum : IsSum(g, T, sum)
           gained(s) == (IF p \in s THEN amount ELSE 0)
                        - (IF q \in s THEN amount ELSE 0)
           Good == {s \in SUBSET T : F[s] \in Int /\ G[s] = F[s] + gained(s)}
<1>1. SumOver(f, T) = F[T] /\ SumOver(g, T) = G[T]
  BY DEF SumOver
<1>2. IsSum(f, T, F) /\ IsSum(g, T, G)
  BY SumExists
<1> HIDE DEF F, G
<1>3. {} \in Good
  <2>1. F[{}] = 0 /\ G[{}] = 0
    BY <1>2, SumOfSubset
  <2>2. QED
    BY <2>1
<1>4. ASSUME NEW s \in SUBSET T, NEW x \in s, x = First(s),
             s \ {x} \in Good
      PROVE  s \in Good
  <2>1. F[s] = f[x] + F[s \ {x}]
    BY <1>2, <1>4, SumOfSubset
  <2>2. G[s] = g[x] + G[s \ {x}]
    BY <1>2, <1>4, SumOfSubset
  <2>3. F[s \ {x}] \in Int /\ G[s \ {x}] = F[s \ {x}] + gained(s \ {x})
    BY <1>4
  <2>4. f[x] \in Int /\ g[x] = f[x] + (IF x = p THEN amount ELSE 0)
                                    - (IF x = q THEN amount ELSE 0)
    BY DEF Moved
  <2>5. gained(s) = gained(s \ {x}) + (IF x = p THEN amount ELSE 0)
                                    - (IF x = q THEN amount ELSE 0)
    OBVIOUS
  <2>6. gained(s \ {x}) \in Int
    OBVIOUS
  <2> HIDE DEF gained
  <2>7. F[s] \in Int /\ G[s] = F[s] + gained(s)
    BY <2>1, <2>2, <2>3, <2>4, <2>5, <2>6
  <2>8. QED
    BY <2>7
<1>5. T \in Good
  <2> HIDE DEF Good
  <2>1. SUBSET T \subseteq Good
    BY <1>3, <1>4, SubsetInduction
  <2>2. QED
    BY <2>1
<1>6. gained(T) = 0
  OBVIOUS
<1> HIDE DEF gained
<1>7. QED
  BY <1>1, <1>5, <1>6

\* In each currency a commit moves one amount from one account to another: the
\* user's to the recipient's, or one of them to the system's or back.
LEMMA OneMovePerCurrency ==
  ASSUME NEW r \in Request, Sound(r), ExchangeTargetsUsers, pc[r] = "commit",
         NEW c \in Currency
  PROVE  \E p, q \in Account, amount \in Int :
           /\ CurrencyOf[p] = c <=> CurrencyOf[q] = c
           /\ \A a \in Account : CurrencyOf[a] = c =>
                Delta(req[r], a) = (IF a = p THEN amount ELSE 0)
                                   - (IF a = q THEN amount ELSE 0)
<1> DEFINE i == req[r]
<1>1. pc[r] \in Decided
  BY DEF Decided, Writing
<1>2. /\ i.from \in Account /\ i.to \in Account
      /\ SystemFrom(i) \in Account /\ SystemTo(i) \in Account
      /\ i.amount \in Int /\ Converted(i) \in Int
      /\ i.kind \in {"transfer", "exchange"}
  BY <1>1, PostingType
<1>3. CASE i.kind = "transfer"
  <2>1. CurrencyOf[i.from] = CurrencyOf[i.to]
    BY <1>1, <1>3 DEF Sound, Local, Approved
  <2>2. \A a \in Account : Delta(i, a) = (IF a = i.to THEN i.amount ELSE 0)
                                         - (IF a = i.from THEN i.amount ELSE 0)
    BY <1>2, <1>3 DEF Delta
  <2> HIDE DEF i
  <2>3. QED
    BY <1>2, <2>1, <2>2 DEF i
<1>4. CASE i.kind = "exchange"
  <2>1. /\ CurrencyOf[i.from] # CurrencyOf[i.to]
        /\ CurrencyOf[i.from] \in Currency /\ CurrencyOf[i.to] \in Currency
    BY <1>1, <1>2, <1>4, ConfigAssumption DEF Sound, Local, Approved, ExchangePairAllowed
  <2>2. /\ CurrencyOf[SystemFrom(i)] = CurrencyOf[i.from]
        /\ CurrencyOf[SystemTo(i)] = CurrencyOf[i.to]
    BY <2>1, ConfigAssumption DEF SystemFrom, SystemTo
  <2>3. \A a \in Account :
          Delta(i, a) = (IF i.from = a THEN -i.amount ELSE 0)
                        + (IF SystemFrom(i) = a THEN i.amount ELSE 0)
                        + (IF SystemTo(i) = a THEN -Converted(i) ELSE 0)
                        + (IF i.to = a THEN Converted(i) ELSE 0)
    BY <1>4 DEF Delta
  <2> HIDE DEF i
  <2>4. CASE c = CurrencyOf[i.from]
    <3>1. \A a \in Account : CurrencyOf[a] = c =>
            Delta(i, a) = (IF a = SystemFrom(i) THEN i.amount ELSE 0)
                          - (IF a = i.from THEN i.amount ELSE 0)
      <4>1. \A a \in Account : CurrencyOf[a] = c => a # i.to /\ a # SystemTo(i)
        BY <2>1, <2>2, <2>4
      <4>2. QED
        BY <1>2, <2>3, <4>1
    <3>2. QED
      BY <1>2, <2>2, <2>4, <3>1 DEF i
  <2>5. CASE c = CurrencyOf[i.to]
    <3>1. \A a \in Account : CurrencyOf[a] = c =>
            Delta(i, a) = (IF a = i.to THEN Converted(i) ELSE 0)
                          - (IF a = SystemTo(i) THEN Converted(i) ELSE 0)
      <4>1. \A a \in Account : CurrencyOf[a] = c => a # i.from /\ a # SystemFrom(i)
        BY <2>1, <2>2, <2>5
      <4>2. QED
        BY <1>2, <2>3, <4>1
    <3>2. QED
      BY <1>2, <2>2, <2>5, <3>1 DEF i
  <2>6. QED
    BY <2>1, <2>4, <2>5 DEF Currency
<1>5. QED
  BY <1>2, <1>3, <1>4

\* So a commit leaves the sum of every currency as it is.
LEMMA CommitConserves ==
  ASSUME NEW r \in Request, Sound(r), ExchangeTargetsUsers, IsFiniteSet(Account),
         Commit(r), NEW c \in Currency
  PROVE  SumOver(balance', Within(c)) = SumOver(balance, Within(c))
<1> DEFINE T == Within(c)
<1>1. PICK p \in Account, q \in Account, amount \in Int :
        /\ CurrencyOf[p] = c <=> CurrencyOf[q] = c
        /\ \A a \in Account : CurrencyOf[a] = c =>
             Delta(req[r], a) = (IF a = p THEN amount ELSE 0)
                                - (IF a = q THEN amount ELSE 0)
  BY OneMovePerCurrency DEF Commit
<1>2. PICK f, g : f = balance /\ g = balance'
  OBVIOUS
<1>3. Moved(f, g, T, amount, q, p)
  <2>1. ASSUME NEW a \in T
        PROVE  /\ f[a] \in Int
               /\ g[a] = f[a] + (IF a = p THEN amount ELSE 0)
                              - (IF a = q THEN amount ELSE 0)
    <3>1. a \in Account /\ CurrencyOf[a] = c
      BY DEF Within
    <3>2. balance[a] \in Int
      BY <3>1 DEF Sound, TxInv, TxTypeOK
    <3>3. balance'[a] = balance[a] + Delta(req[r], a)
      BY <3>1, CommitDelta
    <3>4. QED
      BY <1>1, <1>2, <3>1, <3>2, <3>3
  <2>2. QED
    BY <2>1 DEF Moved
<1>4. IsFiniteSet(T)
  BY FS_Subset DEF Within
<1>5. p \in T <=> q \in T
  BY <1>1 DEF Within
<1> HIDE DEF T
<1>6. SumOver(g, T) = SumOver(f, T)
  BY <1>3, <1>4, <1>5, SumKept
<1>7. QED
  BY <1>2, <1>6 DEF T

\* The total of every currency never changes, for any number of accounts, as
\* long as no exchange pays into a system account.
THEOREM Conservation ==
  ASSUME ExchangeTargetsUsers, IsFiniteSet(Account)
  PROVE  Spec => []MoneyConserved
<1>1. Init => MoneyConserved
  BY TotalIsSum DEF Init, TxInit
<1>2. IInv /\ MoneyConserved /\ [Next]_vars => MoneyConserved'
  <2> SUFFICES ASSUME IInv, MoneyConserved, [Next]_vars
               PROVE  MoneyConserved'
    OBVIOUS
  <2>1. CASE \E r \in Request : Commit(r)
    <3>1. PICK r \in Request : Commit(r)
      BY <2>1
    <3>2. \A c \in Currency : SumOver(balance', Within(c)) = SumOver(balance, Within(c))
      BY <3>1, SoundRequest, CommitConserves
    <3>3. QED
      BY <3>2, TotalIsSum
  <2>2. CASE \A r \in Request : ~Commit(r)
    <3>1. balance' = balance
      BY <2>2, OnlyCommitPosts
    <3>2. QED
      BY <3>1, TotalIsSum
  <2>3. QED
    BY <2>1, <2>2
<1>3. QED
  BY <1>1, <1>2, Invariance, PTL DEF Spec

=============================================================================
