---------------------------- MODULE Backend_proofs ----------------------------
(***************************************************************************)
(* Proofs about Backend: registrations beside transfers and exchanges, for  *)
(* any number of each, any accounts, amounts, pool and attempts.            *)
(*                                                                         *)
(* BackendInv is the inductive invariant.  A request is sound by itself: of *)
(* a mover that is Local, proved in TransactionService_proofs; of a         *)
(* registrant, the system accounts it has locked and found sufficient.      *)
(* What ties the two kinds together is Existing.  A mover locks, and so     *)
(* writes, rows that exist only, and the rows of a registration exist from  *)
(* its commit on; so nobody else has written them, or misses them, before.  *)
(* On the system accounts the two kinds meet, and there the locks decide.   *)
(* At the end SerialInv adds keys and names, and Backend implements         *)
(* OpenBank.                                                                *)
(***************************************************************************)
EXTENDS Backend, TransactionService_proofs

USDHeld == {"eurSystem", "eurAdjust", "hasAdmin", "commitUser"}
EURHeld == {"hasAdmin", "commitUser"}

\* A mover names, and locks, accounts that exist.
MoverSound(r) ==
  /\ Local(r)
  /\ locked[r] \subseteq Existing
  /\ pc[r] # "idle" => KnowsAccounts(r)

\* A registrant locks the system accounts, finds them sufficient, and has what
\* HasAnyAdmin told it still true; its own accounts are missed by nobody.
RegistrantSound(r) ==
  /\ pc[r] \in Outside \cup R!RegistrationSteps \cup {"createUser"}
  /\ locked[r] \subseteq R!SystemAccounts
  /\ pc[r] \in USDHeld => /\ SystemAccount["USD"] \in locked[r]
                          /\ snapshot[r][SystemAccount["USD"]] >= OpeningAmount["USD"]
  /\ pc[r] \in EURHeld => /\ SystemAccount["EUR"] \in locked[r]
                          /\ snapshot[r][SystemAccount["EUR"]] >= OpeningAmount["EUR"]
  /\ missed[r] \cap R!Opened(r) = {}
  /\ r \in users => pc[r] = "done"
  /\ pc[r] = "commitUser" => (makesAdmin[r] <=> superAdmins = {})

NewcomersOK ==
  /\ users \subseteq Registrant
  /\ superAdmins \subseteq Registrant
  /\ makesAdmin \in [Registrant -> BOOLEAN]

Covered == \A a \in Account : balance[a] >= 0

BackendInv ==
  /\ TxInv
  /\ TablesOK
  /\ NewcomersOK
  /\ quotes = [q \in Quote |-> NoRow]
  /\ \A r \in Mover : MoverSound(r)
  /\ \A r \in Registrant : RegistrantSound(r)
  /\ Covered
  /\ RegisteredTogether

----------------------------------------------------------------------------
(* The constants, and the operators of Registration. *)

\* A registrant is a request, with accounts of its own.
LEMMA NewcomerTypes ==
  /\ Registrant \subseteq Request
  /\ Mover \subseteq Request /\ Mover \cap Registrant = {}
  /\ SystemAccount["USD"] \in Account /\ SystemAccount["EUR"] \in Account
  /\ SystemAccount["USD"] # SystemAccount["EUR"]
  /\ OpeningAmount["USD"] \in Nat \ {0} /\ OpeningAmount["EUR"] \in Nat \ {0}
  /\ R!SystemAccounts = {SystemAccount["USD"], SystemAccount["EUR"]}
  /\ \A r \in Registrant :
       /\ NewAccount[r]["USD"] \in Account /\ NewAccount[r]["EUR"] \in Account
       /\ NewAccount[r]["USD"] # NewAccount[r]["EUR"]
       /\ R!Opened(r) = {NewAccount[r]["USD"], NewAccount[r]["EUR"]}
       /\ R!Opened(r) \cap R!SystemAccounts = {}
       /\ \A s \in Registrant \ {r} : R!Opened(r) \cap R!Opened(s) = {}
       /\ \A a \in R!Opened(r) : OpeningBalance[a] = 0 /\ Seed[a] = 0
<1>0. R!RegistrationAssumption
  BY BackendAssumption
<1>1. R!Currencies = {"USD", "EUR"} /\ Currency = {"USD", "EUR"}
  BY DEF R!Currencies, Currency
<1>2. R!SystemAccounts = {SystemAccount["USD"], SystemAccount["EUR"]}
  BY <1>1 DEF R!SystemAccounts
<1>3. ASSUME NEW r \in Registrant
      PROVE  /\ R!Opened(r) = {NewAccount[r]["USD"], NewAccount[r]["EUR"]}
             /\ NewAccount[r]["USD"] \in Account /\ NewAccount[r]["EUR"] \in Account
  BY <1>0, <1>1 DEF R!Opened, R!RegistrationAssumption
<1>4. /\ SystemAccount["USD"] \in Account /\ SystemAccount["EUR"] \in Account
      /\ OpeningAmount["USD"] \in Nat \ {0} /\ OpeningAmount["EUR"] \in Nat \ {0}
  BY <1>0, <1>1 DEF R!RegistrationAssumption
<1>5. ASSUME NEW r \in Registrant, NEW a \in R!Opened(r)
      PROVE  OpeningBalance[a] = 0
  BY <1>1, <1>3, BackendAssumption
<1>6. ASSUME NEW r \in Registrant
      PROVE  /\ NewAccount[r]["USD"] # NewAccount[r]["EUR"]
             /\ R!Opened(r) \cap R!SystemAccounts = {}
             /\ \A s \in Registrant \ {r} : R!Opened(r) \cap R!Opened(s) = {}
             /\ \A a \in R!Opened(r) : Seed[a] = 0
  BY <1>0 DEF R!RegistrationAssumption
<1>7. /\ Registrant \subseteq Request
      /\ SystemAccount["USD"] # SystemAccount["EUR"]
  BY <1>0 DEF R!RegistrationAssumption
<1>8. QED
  BY <1>2, <1>3, <1>4, <1>5, <1>6, <1>7 DEF Mover

\* Which rows exist, account by account.
LEMMA ExistingRows ==
  \A a : a \in Existing <=>
           /\ a \in Account
           /\ \A r \in Registrant \ users :
                a # NewAccount[r]["USD"] /\ a # NewAccount[r]["EUR"]
BY NewcomerTypes DEF Existing

LEMMA ExistingRowsThen ==
  \A a : a \in Existing' <=>
           /\ a \in Account
           /\ \A r \in Registrant \ users' :
                a # NewAccount[r]["USD"] /\ a # NewAccount[r]["EUR"]
<1>1. R!Currencies = {"USD", "EUR"}
  BY DEF R!Currencies
<1>2. QED
  BY <1>1 DEF Existing, R!Opened, R!Currencies

\* The two modules speak of the same transactions.
LEMMA SameTransactions ==
  ASSUME NEW r, NEW where, NEW a, NEW error, NEW written, NEW staged
  PROVE  /\ R!Continue(r, where) <=> Continue(r, where)
         /\ R!Return(r, error) <=> Return(r, error)
         /\ R!BeginTx(r, where) <=> BeginTx(r, where)
         /\ R!GetForUpdate(r, a, where) <=> GetForUpdate(r, a, where)
         /\ R!RollbackTx(r, error) <=> RollbackTx(r, error)
         /\ R!RetryTx(r) <=> RetryTx(r)
         /\ R!CommitTx(r, written, staged) <=> CommitTx(r, written, staged)
<1>1. R!InTx(r) <=> InTx(r)
  BY DEF R!InTx, InTx, R!Outside, Outside
<1>2. R!FreeConns = FreeConns
  <2>1. {s \in Request : R!InTx(s)} = {s \in Request : InTx(s)}
    BY DEF R!InTx, InTx, R!Outside, Outside
  <2>2. QED
    BY <2>1 DEF R!FreeConns, FreeConns, R!Cardinality, Cardinality
<1>3. QED
  BY <1>1, <1>2
  DEF R!Continue, Continue, R!Return, Return, R!BeginTx, BeginTx, R!Goto, Goto,
      R!GetForUpdate, GetForUpdate, R!HeldByOther, HeldByOther, R!Outdated,
      Outdated, R!RollbackTx, RollbackTx, R!EndTx, EndTx, R!NoSnapshot,
      NoSnapshot, R!RetryTx, RetryTx, R!AttemptsLeft, AttemptsLeft,
      R!RetryLimitError, RetryLimitError, R!CommitTx, CommitTx, R!InTx, InTx,
      R!Outside, Outside

----------------------------------------------------------------------------
(* Steps that write nothing. *)

LEMMA MoverIsSound ==
  ASSUME BackendInv, NEW r \in Mover
  PROVE  Sound(r) /\ r \in Request
BY NewcomerTypes DEF BackendInv, MoverSound, Sound

\* A step of r leaves the other requests where they are, and rows do not go
\* away.
Aside(r) ==
  /\ \A s \in Request \ {r} : /\ pc'[s] = pc[s]
                              /\ locked'[s] = locked[s]
                              /\ snapshot'[s] = snapshot[s]
  /\ UNCHANGED <<req, quotes>>
  /\ users \subseteq users'

\* So what is known of another mover stays so.
LEMMA AsideMovers ==
  ASSUME BackendInv, NEW r \in Request, Aside(r), NEW s \in Mover \ {r}
  PROVE  MoverSound(s)'
<1>1. s \in Request \ {r}
  BY NewcomerTypes
<1>2. /\ pc'[s] = pc[s] /\ locked'[s] = locked[s] /\ snapshot'[s] = snapshot[s]
      /\ req' = req /\ quotes' = quotes /\ users \subseteq users'
  BY <1>1 DEF Aside
<1>3. MoverSound(s)
  BY DEF BackendInv
<1>4. \A a : a \in Existing => a \in Existing'
  BY <1>2, ExistingRows, ExistingRowsThen
<1>5. Local(s)'
  <2>1. Validated(s)' /\ RowsLocked(s)'
    BY <1>2, <1>3 DEF MoverSound, Local, Validated, RowsLocked
  <2>2. Approved(s)'
    BY <1>2, <1>3 DEF MoverSound, Local, Approved
  <2>3. QED
    BY <2>1, <2>2 DEF Local
<1>6. QED
  BY <1>2, <1>3, <1>4, <1>5 DEF MoverSound, KnowsAccounts

\* And of another registrant, unless the step writes its accounts or changes
\* what HasAnyAdmin told it.
LEMMA AsideRegistrants ==
  ASSUME BackendInv, NEW r \in Request, Aside(r), NEW s \in Registrant \ {r},
         users' \subseteq users \cup {r},
         missed'[s] \cap R!Opened(s) = {},
         makesAdmin'[s] = makesAdmin[s],
         pc[s] = "commitUser" => superAdmins' = superAdmins
  PROVE  RegistrantSound(s)'
<1>1. s \in Request \ {r}
  BY NewcomerTypes
<1>2. pc'[s] = pc[s] /\ locked'[s] = locked[s] /\ snapshot'[s] = snapshot[s]
  BY <1>1 DEF Aside
<1>3. RegistrantSound(s)
  BY DEF BackendInv
<1>4. R!SystemAccounts' = R!SystemAccounts /\ R!Opened(s)' = R!Opened(s)
      /\ R!RegistrationSteps' = R!RegistrationSteps
  BY DEF R!SystemAccounts, R!Opened, R!Currencies, R!RegistrationSteps
<1>5. QED
  BY <1>2, <1>3, <1>4 DEF RegistrantSound

\* A step of r that leaves all rows alone.
Quiet(r) ==
  /\ Aside(r)
  /\ \A s \in Request \ {r} : missed'[s] = missed[s]
  /\ UNCHANGED <<balance, tables, users, superAdmins>>

LEMMA QuietInv ==
  ASSUME BackendInv, NEW r \in Request, Quiet(r), TxInv',
         seen' \in [Request -> QuoteStatus],
         makesAdmin' \in [Registrant -> BOOLEAN],
         \A s \in Registrant \ {r} : makesAdmin'[s] = makesAdmin[s],
         r \in Mover => MoverSound(r)',
         r \in Registrant => RegistrantSound(r)'
  PROVE  BackendInv'
<1>1. \A s \in Mover : MoverSound(s)'
  BY AsideMovers DEF Quiet
<1>2. ASSUME NEW s \in Registrant
      PROVE  RegistrantSound(s)'
  <2>1. CASE s # r
    <3>1. missed'[s] \cap R!Opened(s) = {}
      BY <2>1, NewcomerTypes DEF BackendInv, RegistrantSound, Quiet
    <3>2. QED
      BY <2>1, <3>1, AsideRegistrants DEF Quiet
  <2>2. QED
    BY <2>1
<1>3. TablesOK' /\ NewcomersOK'
  BY DEF BackendInv, TablesOK, NewcomersOK, Quiet, Aside, tables
<1>4. Covered' /\ quotes' = [q \in Quote |-> NoRow]'
  BY DEF BackendInv, Covered, Quiet, tables, NoRow
<1>5. RegisteredTogether'
  <2>1. \A s : R!Opened(s)' = R!Opened(s)
    BY DEF R!Opened, R!Currencies
  <2>2. R!OneSuperAdmin <=> R!OneSuperAdmin'
    BY DEF R!OneSuperAdmin, Quiet
  <2>3. QED
    BY <2>1, <2>2 DEF BackendInv, RegisteredTogether, Quiet, tables
<1>6. QED
  BY <1>1, <1>2, <1>3, <1>4, <1>5 DEF BackendInv

\* The step of one mover changes nothing of another request but what it has
\* missed, and that only at a commit.
LEMMA MovesQuiet ==
  ASSUME BackendInv, NEW r \in Mover, Moves(r) \/ SerializeMove(r), ~Commit(r)
  PROVE  Quiet(r) /\ UNCHANGED makesAdmin
<1>1. /\ UNCHANGED newcomerVars /\ UNCHANGED <<req, tables>>
      /\ \/ \E where : Continue(r, where)
         \/ \E error : Return(r, error)
         \/ \E first : BeginTx(r, first)
         \/ \E a, next : GetForUpdate(r, a, next)
         \/ \E error : RollbackTx(r, error)
         \/ RetryTx(r)
  BY DEF Moves, SerializeMove, Arrive, Validate, Begin, Lock, MissingRow, Check,
         SystemIds, Cover, Insert, Consume, Abandon, SerializationFailure
<1>2. TxTypeOK
  BY DEF BackendInv, TxInv
<1>3. QED
  BY <1>1, <1>2 DEF TxTypeOK, Quiet, Aside, tables, newcomerVars, Continue, Return,
                    BeginTx, GetForUpdate, RollbackTx, RetryTx, EndTx, Goto

----------------------------------------------------------------------------
(* The steps of a mover. *)

\* The system accounts exist from the start.
LEMMA SystemExists ==
  ASSUME NEW c \in Currency
  PROVE  SystemAccount[c] \in Existing
<1>1. SystemAccount[c] \in R!SystemAccounts /\ SystemAccount[c] \in Account
  BY NewcomerTypes DEF Currency
<1>2. QED
  BY <1>1, NewcomerTypes, ExistingRows

\* Past the locks, the rows a mover writes are accounts that exist.
LEMMA WrittenExists ==
  ASSUME BackendInv, NEW r \in Mover, pc[r] \in {"check"} \cup Decided
  PROVE  /\ req[r].from \in Existing /\ req[r].to \in Existing
         /\ SystemFrom(req[r]) \in Existing /\ SystemTo(req[r]) \in Existing
<1>1. req[r].from \in Account /\ req[r].to \in Account
  BY MoverIsSound, PostingType
<1>2. KnowsAccounts(r)
  BY DEF BackendInv, MoverSound, Decided, SystemSteps, Writing
<1>3. CurrencyOf[req[r].from] \in Currency /\ CurrencyOf[req[r].to] \in Currency
  BY <1>1, ConfigAssumption
<1>4. QED
  BY <1>1, <1>2, <1>3, SystemExists DEF KnowsAccounts, SystemFrom, SystemTo

LEMMA WantedExists ==
  ASSUME BackendInv, NEW r \in Mover, pc[r] \in LockSteps, WantedRow(r) \in Account
  PROVE  WantedRow(r) \in Existing
<1>1. CASE pc[r] \in {"lockLeft", "lockRight"}
  <2>1. WantedRow(r) \in {OrderedIDs(req[r].from, req[r].to)[1],
                          OrderedIDs(req[r].from, req[r].to)[2]}
    BY <1>1 DEF WantedRow
  <2>2. KnowsAccounts(r)
    BY <1>1 DEF BackendInv, MoverSound
  <2>3. QED
    BY <2>1, <2>2, OrderedIDsPair DEF KnowsAccounts
<1>2. CASE pc[r] \in {"sysLeft", "sysRight"}
  <2>1. WantedRow(r) \in {OrderedIDs(SystemFrom(req[r]), SystemTo(req[r]))[1],
                          OrderedIDs(SystemFrom(req[r]), SystemTo(req[r]))[2]}
    BY <1>2 DEF WantedRow
  <2>2. SystemFrom(req[r]) \in Existing /\ SystemTo(req[r]) \in Existing
    BY <1>2, WrittenExists DEF Decided, SystemSteps
  <2>3. {OrderedIDs(SystemFrom(req[r]), SystemTo(req[r]))[1],
         OrderedIDs(SystemFrom(req[r]), SystemTo(req[r]))[2]}
          = {SystemFrom(req[r]), SystemTo(req[r])}
    BY OrderedIDsPair
  <2>4. QED
    BY <2>1, <2>2, <2>3
<1>3. QED
  BY <1>1, <1>2 DEF LockSteps

\* Whatever a mover does but commit.
LEMMA MovesInv ==
  ASSUME BackendInv, NEW r \in Mover, Moves(r) \/ SerializeMove(r), ~Commit(r)
  PROVE  BackendInv'
<1>0. Sound(r) /\ r \in Request /\ MoverSound(r)
  BY MoverIsSound DEF BackendInv
<1>1. Quiet(r) /\ makesAdmin' = makesAdmin
  BY MovesQuiet
<1>2. Arrive(r) \/ Serve(r) \/ Abandon(r)
  BY DEF Moves, SerializeMove, Serve
<1>3. TxInv' /\ Local(r)'
  BY <1>0, <1>2, OwnTx, OwnLocal
<1>4. seen' \in [Request -> QuoteStatus]
  <2>1. CASE seen' = seen
    BY <2>1 DEF BackendInv, TablesOK
  <2>2. CASE Begin(r)
    <3>1. seen \in [Request -> QuoteStatus] /\ "absent" \in QuoteStatus
      BY DEF BackendInv, TablesOK, QuoteStatus
    <3>2. req[r].quote # NoQuote => quotes[req[r].quote].status = "absent"
      BY <1>0, InputTyped DEF BackendInv, Sound, NoRow
    <3>3. QED
      BY <2>2, <3>1, <3>2 DEF Begin
  <2>3. QED
    BY <2>1, <2>2 DEF Moves, SerializeMove, Arrive, Validate, Lock, MissingRow,
       Check, SystemIds, Cover, Insert, Consume, Abandon, SerializationFailure
<1>5. \A a : a \in Existing' <=> a \in Existing
  BY <1>1, ExistingRows, ExistingRowsThen DEF Quiet
<1>6. KnowsAccounts(r)
  <2>1. CASE pc[r] = "idle"
    BY <2>1 DEF Moves, SerializeMove, Validate, Begin, BeginTx, Lock, MissingRow,
       Check, SystemIds, Cover, Insert, Consume, Commit, Abandon,
       SerializationFailure, LockSteps
  <2>2. CASE pc[r] # "idle"
    BY <1>0, <2>2 DEF MoverSound
  <2>3. QED
    BY <2>1, <2>2
<1>7. KnowsAccounts(r)'
  BY <1>1, <1>5, <1>6 DEF KnowsAccounts, Quiet, Aside
<1>8. locked'[r] \subseteq Existing
  <2>1. locked = [s \in Request |-> locked[s]]
    BY DEF BackendInv, TxInv, TxTypeOK
  <2>2. CASE Lock(r)
    <3>1. locked'[r] = locked[r] \cup {WantedRow(r)}
      BY <1>0, <2>1, <2>2 DEF Lock, GetForUpdate
    <3>2. WantedRow(r) \in Existing
      BY <2>2, WantedExists DEF Lock
    <3>3. QED
      BY <1>0, <3>1, <3>2 DEF MoverSound
  <2>3. CASE ~Lock(r)
    <3>1. \/ locked' = locked
          \/ locked' = [locked EXCEPT ![r] = {}]
      BY <2>3 DEF Moves, SerializeMove, Arrive, Validate, Begin, BeginTx,
         MissingRow, Check, SystemIds, Cover, Insert, Consume, Abandon,
         SerializationFailure, Continue, Return, RollbackTx, RetryTx, EndTx
    <3>2. QED
      BY <1>0, <2>1, <3>1 DEF MoverSound
  <2>4. QED
    BY <2>2, <2>3
<1>9. MoverSound(r)'
  BY <1>3, <1>5, <1>7, <1>8 DEF MoverSound
<1>10. r \notin Registrant /\ makesAdmin' \in [Registrant -> BOOLEAN]
  BY <1>1, NewcomerTypes DEF BackendInv, NewcomersOK
<1>11. QED
  BY <1>0, <1>1, <1>3, <1>4, <1>9, <1>10, QuietInv

\* What a mover's commit does to the accounts: those it writes exist and it
\* holds them, the others keep their balance and their ledger.
LEMMA CommitWrites ==
  ASSUME BackendInv, NEW r \in Mover, Commit(r)
  PROVE  /\ Written(req[r]) \subseteq Existing
         /\ Written(req[r]) \subseteq locked[r]
         /\ ledger' \in [Account -> Int]
         /\ \A a \in Account : a \in Written(req[r]) => balance'[a] >= 0
         /\ \A a \in Account : a \notin Written(req[r]) =>
              balance'[a] = balance[a] /\ ledger'[a] = ledger[a]
<1> DEFINE i == req[r]
<1>0. Sound(r) /\ r \in Request /\ pc[r] = "commit" /\ pc[r] \in Decided
  BY MoverIsSound DEF Commit, Decided, Writing
<1>1. Written(i) \subseteq locked[r]
  BY <1>0, WrittenLocked
<1>2. Written(i) \subseteq Existing
  BY <1>0, <1>1 DEF BackendInv, MoverSound
<1>3. /\ i.from \in Account /\ i.to \in Account
      /\ SystemFrom(i) \in Account /\ SystemTo(i) \in Account
      /\ i.amount \in Int /\ Converted(i) \in Int
      /\ i.kind \in {"transfer", "exchange"}
  BY <1>0, PostingType
<1>4. ledger \in [Account -> Int]
  BY DEF BackendInv, TablesOK
<1>5. /\ ledger' \in [Account -> Int]
      /\ \A a \in Account : ledger'[a] = ledger[a] + Delta(i, a)
  BY <1>3, <1>4, EntriesDelta DEF Commit
<1>6. \A a \in Account : balance'[a] = IF a \in Written(i) THEN Staged(r)[a]
                                                          ELSE balance[a]
  BY DEF Commit, CommitTx
<1>7. ASSUME NEW a \in Account, a \notin Written(i)
      PROVE  balance'[a] = balance[a] /\ ledger'[a] = ledger[a]
  <2>1. Delta(i, a) = 0
    BY <1>3, <1>7 DEF Written, Delta
  <2>2. QED
    BY <1>4, <1>5, <1>6, <1>7, <2>1
<1>8. ASSUME NEW a \in Account, a \in Written(i)
      PROVE  balance'[a] >= 0
  BY <1>0, <1>6, <1>8, StagedFunded DEF BackendInv, Covered, Writing
<1>9. QED
  BY <1>1, <1>2, <1>5, <1>7, <1>8

\* The quoted exchanges of this backend go no further than their validation.
LEMMA CommitUnquoted ==
  ASSUME BackendInv, NEW r \in Mover, Commit(r)
  PROVE  quotes' = quotes
<1>1. Sound(r) /\ r \in Request /\ pc[r] = "commit"
  BY MoverIsSound DEF Commit
<1>2. req[r].quote # NoQuote => quotes[req[r].quote] # NoRow
  BY <1>1 DEF Sound, Local, Validated
<1>3. req[r].quote \in Quote \cup {NoQuote}
  BY <1>1, InputTyped DEF Sound
<1>4. QED
  BY <1>2, <1>3 DEF BackendInv, Commit

LEMMA CommitMoveInv ==
  ASSUME BackendInv, NEW r \in Mover, Commit(r), UNCHANGED newcomerVars
  PROVE  BackendInv'
<1> DEFINE W == Written(req[r])
<1>0. /\ Sound(r) /\ r \in Request /\ r \notin Registrant /\ MoverSound(r)
      /\ pc[r] = "commit"
  BY MoverIsSound, NewcomerTypes DEF BackendInv, Commit
<1>1. TxInv' /\ Local(r)'
  BY <1>0, OwnTx, OwnLocal DEF Serve
<1>2. /\ W \subseteq Existing /\ W \subseteq locked[r]
      /\ ledger' \in [Account -> Int]
      /\ \A a \in Account : a \in W => balance'[a] >= 0
      /\ \A a \in Account : a \notin W =>
           balance'[a] = balance[a] /\ ledger'[a] = ledger[a]
  BY CommitWrites
<1>3. /\ missed' = [s \in Request |-> IF s # r /\ InTx(s) THEN missed[s] \cup W ELSE {}]
      /\ locked' = [locked EXCEPT ![r] = {}]
      /\ snapshot' = [snapshot EXCEPT ![r] = NoSnapshot]
      /\ pc' = [pc EXCEPT ![r] = "done"]
      /\ transactions' = transactions \cup {RowOf(r)}
      /\ UNCHANGED <<req, seen, users, superAdmins, makesAdmin>>
  BY DEF Commit, CommitTx, EndTx, Goto, newcomerVars, RowOf
<1>4. quotes' = quotes
  BY CommitUnquoted
<1>5. Aside(r)
  BY <1>0, <1>3, <1>4 DEF BackendInv, TxInv, TxTypeOK, Aside
<1> HIDE DEF W
<1>6. \A s \in Registrant \ users : W \cap R!Opened(s) = {}
  BY <1>2, NewcomerTypes, ExistingRows
<1>7. ASSUME NEW s \in Mover
      PROVE  MoverSound(s)'
  <2>1. CASE s # r
    BY <1>0, <1>5, <2>1, AsideMovers
  <2>2. CASE s = r
    <3>1. locked'[r] = {}
      BY <1>0, <1>3 DEF BackendInv, TxInv, TxTypeOK
    <3>2. KnowsAccounts(r)
      BY <1>0 DEF MoverSound
    <3>3. \A a : a \in Existing' <=> a \in Existing
      BY <1>3, ExistingRows, ExistingRowsThen
    <3>4. QED
      BY <1>1, <1>3, <2>2, <3>1, <3>2, <3>3 DEF MoverSound, KnowsAccounts
  <2>3. QED
    BY <2>1, <2>2
<1>8. ASSUME NEW s \in Registrant
      PROVE  RegistrantSound(s)'
  <2>1. s \in Request /\ s # r /\ RegistrantSound(s)
    BY <1>0, NewcomerTypes DEF BackendInv
  <2>2. missed'[s] \cap R!Opened(s) = {}
    <3>1. CASE s \in users
      BY <1>3, <2>1, <3>1 DEF RegistrantSound, InTx, Outside
    <3>2. CASE s \notin users
      BY <1>3, <1>6, <2>1, <3>2 DEF RegistrantSound
    <3>3. QED
      BY <3>1, <3>2
  <2>3. QED
    BY <1>0, <1>3, <1>5, <2>1, <2>2, AsideRegistrants
<1>9. TablesOK'
  <2>1. RowOf(r) \in [request : Request, attempt : 1..MaxAttempts, in : Input]
    BY <1>0, InputTyped DEF BackendInv, TablesOK, TxInv, TxTypeOK, RowOf
  <2>2. QED
    BY <1>2, <1>3, <1>4, <2>1 DEF BackendInv, TablesOK
<1>10. NewcomersOK' /\ quotes' = [q \in Quote |-> NoRow]'
  BY <1>3, <1>4 DEF BackendInv, NewcomersOK, NoRow
<1>11. Covered'
  BY <1>2 DEF BackendInv, Covered
<1>12. RegisteredTogether'
  <2>1. \A s : R!Opened(s)' = R!Opened(s)
    BY DEF R!Opened, R!Currencies
  <2>2. R!OneSuperAdmin <=> R!OneSuperAdmin'
    BY <1>3 DEF R!OneSuperAdmin
  <2>3. \A s \in Registrant : R!Opened(s) \subseteq Account
    BY NewcomerTypes
  <2>4. \A s \in Registrant \ users' : \A a \in R!Opened(s) :
          balance'[a] = 0 /\ ledger'[a] = 0
    BY <1>2, <1>3, <1>6, <2>3 DEF BackendInv, RegisteredTogether
  <2>5. QED
    BY <1>3, <2>1, <2>2, <2>4 DEF BackendInv, RegisteredTogether
<1>13. QED
  BY <1>1, <1>7, <1>8, <1>9, <1>10, <1>11, <1>12 DEF BackendInv

----------------------------------------------------------------------------
(* The steps of a registrant. *)

\* A registrant that has locked nothing yet, or any more, and is no user.
LEMMA RegistrantRests ==
  ASSUME BackendInv, NEW r \in Registrant, r \notin users',
         pc'[r] \in {"start", "begin", "done", "createUser", "usdSystem", "usdAdjust"},
         locked'[r] \subseteq locked[r], missed'[r] \subseteq missed[r]
  PROVE  RegistrantSound(r)'
<1>1. RegistrantSound(r)
  BY DEF BackendInv
<1>2. R!SystemAccounts' = R!SystemAccounts /\ R!Opened(r)' = R!Opened(r)
  BY DEF R!SystemAccounts, R!Opened, R!Currencies
<1>3. pc'[r] \in (Outside \cup R!RegistrationSteps \cup {"createUser"})'
  BY DEF R!RegistrationSteps, Outside
<1>4. QED
  BY <1>1, <1>2, <1>3 DEF RegistrantSound, USDHeld, EURHeld

\* A step of a registrant that only changes its position, its locks, its
\* snapshot and what it has missed.
LEMMA RegistersQuiet ==
  ASSUME BackendInv, NEW r \in Registrant,
         UNCHANGED <<req, tables, seen, users, superAdmins>>,
         \/ \E where : Continue(r, where)
         \/ \E error : Return(r, error)
         \/ \E first : BeginTx(r, first)
         \/ \E a, next : GetForUpdate(r, a, next)
         \/ \E error : RollbackTx(r, error)
         \/ RetryTx(r)
  PROVE  Quiet(r) /\ r \in Request /\ r \notin Mover /\ seen' \in [Request -> QuoteStatus]
<1>1. TxTypeOK /\ r \in Request /\ r \notin Mover
  BY NewcomerTypes DEF BackendInv, TxInv
<1>2. Quiet(r)
  BY <1>1 DEF TxTypeOK, Quiet, Aside, tables, Continue, Return, BeginTx,
              GetForUpdate, RollbackTx, RetryTx, EndTx, Goto
<1>3. QED
  BY <1>1, <1>2 DEF BackendInv, TablesOK

\* A registrant that is under way is no user yet.
LEMMA NotYetUser ==
  ASSUME BackendInv, NEW r \in Registrant, pc[r] # "done"
  PROVE  r \notin users
BY DEF BackendInv, RegistrantSound

\* It begins, or begins again, or ends without a commit.
LEMMA RegistersRest ==
  ASSUME BackendInv, NEW r \in Registrant, pc[r] # "done",
         UNCHANGED <<req, tables, seen, newcomerVars>>,
         \/ pc[r] = "idle" /\ Continue(r, "start")
         \/ pc[r] = "start" /\ Continue(r, "begin")
         \/ pc[r] = "createUser" /\ Continue(r, "usdSystem")
         \/ pc[r] = "usdSystem" /\ Continue(r, "usdAdjust")
         \/ pc[r] = "start" /\ \E error : Return(r, error)
         \/ BeginTx(r, "createUser")
         \/ \E error : RollbackTx(r, error)
         \/ RetryTx(r)
  PROVE  BackendInv'
<1>1. Quiet(r) /\ r \in Request /\ r \notin Mover /\ seen' \in [Request -> QuoteStatus]
  BY RegistersQuiet DEF newcomerVars
<1>2. TxInv /\ TxTypeOK
  BY DEF BackendInv, TxInv
<1>3. TxInv'
  BY <1>1, <1>2, ContinueInv, ReturnInv, BeginTxInv, RollbackTxInv, RetryTxInv
     DEF Outside
<1>4. RegistrantSound(r)'
  <2>1. pc'[r] \in {"start", "begin", "done", "createUser", "usdSystem", "usdAdjust"}
    BY <1>1, <1>2 DEF TxTypeOK, Continue, Return, BeginTx, RollbackTx, RetryTx, Goto
  <2>2. locked'[r] \subseteq locked[r] /\ missed'[r] \subseteq missed[r]
    BY <1>1, <1>2 DEF TxTypeOK, Continue, Return, BeginTx, RollbackTx, RetryTx, EndTx
  <2>3. r \notin users'
    BY NotYetUser DEF newcomerVars
  <2>4. QED
    BY <2>1, <2>2, <2>3, RegistrantRests
<1>5. makesAdmin' = makesAdmin /\ makesAdmin' \in [Registrant -> BOOLEAN]
  BY DEF BackendInv, NewcomersOK, newcomerVars
<1>6. QED
  BY <1>1, <1>3, <1>4, <1>5, QuietInv

\* createOpeningBalance looks up the EUR system account, with USD locked.
LEMMA FindsEUR ==
  ASSUME BackendInv, NEW r \in Registrant, pc[r] = "eurSystem",
         Continue(r, "eurAdjust"), UNCHANGED <<req, tables, seen, newcomerVars>>
  PROVE  BackendInv'
<1>1. Quiet(r) /\ r \in Request /\ r \notin Mover /\ seen' \in [Request -> QuoteStatus]
  BY RegistersQuiet DEF newcomerVars
<1>2. TxInv' /\ RegistrantSound(r)
  BY <1>1, ContinueInv DEF BackendInv, Outside
<1>3. /\ pc'[r] = "eurAdjust"
      /\ UNCHANGED <<locked, snapshot, missed, users>>
  BY <1>1 DEF BackendInv, TxInv, TxTypeOK, Continue, Goto, newcomerVars
<1>4. R!SystemAccounts' = R!SystemAccounts /\ R!Opened(r)' = R!Opened(r)
      /\ "eurAdjust" \in R!RegistrationSteps'
  BY DEF R!SystemAccounts, R!Opened, R!Currencies, R!RegistrationSteps
<1>5. RegistrantSound(r)'
  BY <1>2, <1>3, <1>4, NotYetUser DEF RegistrantSound, USDHeld, EURHeld
<1>6. makesAdmin' = makesAdmin /\ makesAdmin' \in [Registrant -> BOOLEAN]
  BY DEF BackendInv, NewcomersOK, newcomerVars
<1>7. QED
  BY <1>1, <1>2, <1>5, <1>6, QuietInv

\* AdjustBalance finds the row sufficient and locks it.
LEMMA Adjusts ==
  ASSUME BackendInv, NEW r \in Registrant, pc[r] \in {"usdAdjust", "eurAdjust"},
         ~R!Exhausted(r, R!AdjustedCurrency(r)),
         GetForUpdate(r, SystemAccount[R!AdjustedCurrency(r)], R!After(pc[r])),
         UNCHANGED <<req, tables, seen, newcomerVars>>
  PROVE  BackendInv'
<1> DEFINE c == R!AdjustedCurrency(r)
<1>1. /\ pc[r] = "usdAdjust" => c = "USD" /\ R!After(pc[r]) = "eurSystem"
      /\ pc[r] = "eurAdjust" => c = "EUR" /\ R!After(pc[r]) = "hasAdmin"
  BY DEF R!AdjustedCurrency, R!After
<1> HIDE DEF c
<1>2. Quiet(r) /\ r \in Request /\ r \notin Mover /\ seen' \in [Request -> QuoteStatus]
  BY RegistersQuiet DEF newcomerVars
<1>3. SystemAccount[c] \in Account
  BY <1>1, NewcomerTypes
<1>4. TxInv' /\ RegistrantSound(r)
  BY <1>1, <1>2, <1>3, GetForUpdateInv DEF BackendInv, InTx, Outside, c
<1>5. /\ pc'[r] = R!After(pc[r])
      /\ locked'[r] = locked[r] \cup {SystemAccount[c]}
      /\ UNCHANGED <<snapshot, missed, users>>
  BY <1>2 DEF BackendInv, TxInv, TxTypeOK, GetForUpdate, Goto, newcomerVars, c
<1>6. snapshot[r][SystemAccount[c]] >= OpeningAmount[c]
  <2>1. snapshot[r][SystemAccount[c]] \in Int /\ OpeningAmount[c] \in Int
    BY <1>1, <1>2, <1>3, NewcomerTypes DEF BackendInv, TxInv, TxTypeOK
  <2>2. QED
    BY <2>1 DEF R!Exhausted, c
<1>7. R!SystemAccounts' = R!SystemAccounts /\ R!Opened(r)' = R!Opened(r)
      /\ {"eurSystem", "hasAdmin"} \subseteq R!RegistrationSteps'
  BY DEF R!SystemAccounts, R!Opened, R!Currencies, R!RegistrationSteps
<1>8. RegistrantSound(r)'
  <2>1. CASE pc[r] = "usdAdjust"
    BY <1>1, <1>4, <1>5, <1>6, <1>7, <2>1, NotYetUser, NewcomerTypes
       DEF RegistrantSound, USDHeld, EURHeld
  <2>2. CASE pc[r] = "eurAdjust"
    <3>1. /\ SystemAccount["USD"] \in locked'[r]
          /\ SystemAccount["EUR"] \in locked'[r]
          /\ snapshot'[r][SystemAccount["USD"]] >= OpeningAmount["USD"]
          /\ snapshot'[r][SystemAccount["EUR"]] >= OpeningAmount["EUR"]
      BY <1>1, <1>4, <1>5, <1>6, <2>2 DEF RegistrantSound, USDHeld
    <3>2. QED
      BY <1>1, <1>4, <1>5, <1>7, <2>2, <3>1, NotYetUser, NewcomerTypes
         DEF RegistrantSound, USDHeld, EURHeld
  <2>3. QED
    BY <2>1, <2>2
<1>9. makesAdmin' = makesAdmin /\ makesAdmin' \in [Registrant -> BOOLEAN]
  BY DEF BackendInv, NewcomersOK, newcomerVars
<1>10. QED
  BY <1>2, <1>4, <1>8, <1>9, QuietInv

\* HasAnyAdmin is asked with both system accounts locked.
LEMMA AsksForAdmin ==
  ASSUME BackendInv, NEW r \in Registrant, pc[r] = "hasAdmin",
         Continue(r, "commitUser"),
         makesAdmin' = [makesAdmin EXCEPT ![r] = superAdmins = {}],
         UNCHANGED <<req, tables, seen, form, users, superAdmins>>
  PROVE  BackendInv'
<1>1. Quiet(r) /\ r \in Request /\ r \notin Mover /\ seen' \in [Request -> QuoteStatus]
  BY RegistersQuiet
<1>2. TxInv' /\ RegistrantSound(r)
  BY <1>1, ContinueInv DEF BackendInv, Outside
<1>3. makesAdmin \in [Registrant -> BOOLEAN]
  BY DEF BackendInv, NewcomersOK
<1>4. /\ makesAdmin' \in [Registrant -> BOOLEAN]
      /\ makesAdmin'[r] <=> superAdmins = {}
      /\ \A s \in Registrant \ {r} : makesAdmin'[s] = makesAdmin[s]
  BY <1>3
<1>5. /\ pc'[r] = "commitUser"
      /\ UNCHANGED <<locked, snapshot, missed>>
  BY <1>1 DEF BackendInv, TxInv, TxTypeOK, Continue, Goto
<1>6. R!SystemAccounts' = R!SystemAccounts /\ R!Opened(r)' = R!Opened(r)
      /\ "commitUser" \in R!RegistrationSteps'
  BY DEF R!SystemAccounts, R!Opened, R!Currencies, R!RegistrationSteps
<1>7. RegistrantSound(r)'
  BY <1>2, <1>4, <1>5, <1>6, NotYetUser DEF RegistrantSound, USDHeld, EURHeld
<1>8. QED
  BY <1>1, <1>2, <1>4, <1>7, QuietInv

\* The opening balances moved, account by account.
LEMMA OpeningMoves ==
  ASSUME NEW r \in Registrant, NEW f \in [Account -> Int]
  PROVE  /\ R!Opening(r, f) \in [Account -> Int]
         /\ \A c \in {"USD", "EUR"} :
              /\ R!Opening(r, f)[SystemAccount[c]] = f[SystemAccount[c]] - OpeningAmount[c]
              /\ R!Opening(r, f)[NewAccount[r][c]] = f[NewAccount[r][c]] + OpeningAmount[c]
         /\ R!Adjusted(r) = {SystemAccount["USD"], SystemAccount["EUR"],
                             NewAccount[r]["USD"], NewAccount[r]["EUR"]}
         /\ R!Adjusted(r) \subseteq Account
         /\ \A a \in Account \ R!Adjusted(r) : R!Opening(r, f)[a] = f[a]
<1>1. /\ SystemAccount["USD"] # NewAccount[r]["USD"]
      /\ SystemAccount["USD"] # NewAccount[r]["EUR"]
      /\ SystemAccount["EUR"] # NewAccount[r]["USD"]
      /\ SystemAccount["EUR"] # NewAccount[r]["EUR"]
  BY NewcomerTypes
<1>2. R!Adjusted(r) = {SystemAccount["USD"], SystemAccount["EUR"],
                       NewAccount[r]["USD"], NewAccount[r]["EUR"]}
  BY NewcomerTypes DEF R!Adjusted
<1> DEFINE o == R!Opening(r, f)
<1>3. o \in [Account -> Int] /\ R!Adjusted(r) \subseteq Account
  BY <1>2, NewcomerTypes DEF R!Opening
<1>4. /\ o[SystemAccount["USD"]] = f[SystemAccount["USD"]] - OpeningAmount["USD"]
      /\ o[SystemAccount["EUR"]] = f[SystemAccount["EUR"]] - OpeningAmount["EUR"]
  BY <1>1, NewcomerTypes DEF R!Opening
<1>5. /\ o[NewAccount[r]["USD"]] = f[NewAccount[r]["USD"]] + OpeningAmount["USD"]
      /\ o[NewAccount[r]["EUR"]] = f[NewAccount[r]["EUR"]] + OpeningAmount["EUR"]
  BY <1>1, NewcomerTypes DEF R!Opening
<1>6. \A a \in Account \ R!Adjusted(r) : o[a] = f[a]
  BY <1>2 DEF R!Opening
<1> HIDE DEF o
<1>7. QED
  BY <1>2, <1>3, <1>4, <1>5, <1>6 DEF o

\* Before its commit a registration has nothing stale and shares no row.
LEMMA CommitAlone ==
  ASSUME BackendInv, NEW r \in Registrant, pc[r] = "commitUser"
  PROVE  /\ \A a \in R!Adjusted(r) : snapshot[r][a] = balance[a]
         /\ \A c \in {"USD", "EUR"} :
              snapshot[r][SystemAccount[c]] >= OpeningAmount[c]
         /\ \A s \in Request : s # r => R!Adjusted(r) \cap locked[s] = {}
         /\ \A s \in Registrant : s # r => pc[s] # "commitUser"
         /\ r \notin users
<1>1. RegistrantSound(r) /\ r \in Request /\ r \notin users
  BY NotYetUser, NewcomerTypes DEF BackendInv
<1>2. R!SystemAccounts \subseteq locked[r]
  BY <1>1, NewcomerTypes DEF RegistrantSound, USDHeld, EURHeld
<1>3. R!Adjusted(r) \cap missed[r] = {}
  BY <1>1, <1>2 DEF BackendInv, TxInv, LockedCurrent, RegistrantSound, R!Adjusted
<1>4. R!Adjusted(r) \subseteq Account
  BY NewcomerTypes DEF R!Adjusted
<1>5. \A a \in R!Adjusted(r) : snapshot[r][a] = balance[a]
  BY <1>1, <1>3, <1>4 DEF BackendInv, TxInv, SnapshotCurrent, InTx, Outside
<1>6. ASSUME NEW s \in Request, s # r
      PROVE  R!Adjusted(r) \cap locked[s] = {}
  <2>1. R!SystemAccounts \cap locked[s] = {}
    BY <1>1, <1>2, <1>6 DEF BackendInv, TxInv, LocksExclusive
  <2>2. R!Opened(r) \cap locked[s] = {}
    <3>1. CASE s \in Registrant
      BY <3>1, NewcomerTypes DEF BackendInv, RegistrantSound
    <3>2. CASE s \in Mover
      <4>1. locked[s] \subseteq Existing
        BY <3>2 DEF BackendInv, MoverSound
      <4>2. QED
        BY <1>1, <4>1, NewcomerTypes, ExistingRows
    <3>3. QED
      BY <3>1, <3>2 DEF Mover
  <2>3. QED
    BY <2>1, <2>2 DEF R!Adjusted
<1>7. ASSUME NEW s \in Registrant, s # r
      PROVE  pc[s] # "commitUser"
  <2>1. SystemAccount["USD"] \in R!Adjusted(r) /\ s \in Request
    BY NewcomerTypes DEF R!Adjusted
  <2>2. SystemAccount["USD"] \notin locked[s]
    BY <1>6, <1>7, <2>1
  <2>3. QED
    BY <2>2 DEF BackendInv, RegistrantSound, USDHeld
<1>8. \A c \in {"USD", "EUR"} : snapshot[r][SystemAccount[c]] >= OpeningAmount[c]
  BY <1>1 DEF RegistrantSound, USDHeld, EURHeld
<1>9. QED
  BY <1>1, <1>5, <1>6, <1>7, <1>8

\* The user, her accounts and the admin appear.
LEMMA RegistersCommit ==
  ASSUME BackendInv, NEW r \in Registrant, R!CommitRegistration(r),
         UNCHANGED <<req, transactions, quotes, seen>>
  PROVE  /\ BackendInv'
         /\ \A a \in Account : balance'[a] - ledger'[a] = balance[a] - ledger[a]
<1> DEFINE A == R!Adjusted(r)
           o == R!Opening(r, snapshot[r])
<1>1. /\ pc[r] = "commitUser" /\ r \in Request /\ r \notin Mover
      /\ snapshot[r] \in [Account -> Int]
      /\ balance \in [Account -> Int] /\ ledger \in [Account -> Int]
  BY NewcomerTypes DEF R!CommitRegistration, BackendInv, TxInv, TxTypeOK, TablesOK
<1>2. /\ CommitTx(r, A, o)
      /\ ledger' = R!Opening(r, ledger)
      /\ users' = users \cup {r}
      /\ superAdmins' = IF makesAdmin[r] THEN superAdmins \cup {r} ELSE superAdmins
      /\ UNCHANGED <<form, makesAdmin>>
  BY SameTransactions DEF R!CommitRegistration
<1>3. A \subseteq Account /\ o \in [Account -> Int]
  BY <1>1, OpeningMoves
<1>4. /\ \A a \in A : snapshot[r][a] = balance[a]
      /\ \A c \in {"USD", "EUR"} :
           snapshot[r][SystemAccount[c]] >= OpeningAmount[c]
      /\ \A s \in Request : s # r => A \cap locked[s] = {}
      /\ \A s \in Registrant : s # r => pc[s] # "commitUser"
      /\ r \notin users
  BY <1>1, CommitAlone
<1>5. TxInv'
  BY <1>1, <1>2, <1>3, <1>4, CommitUnlockedInv DEF BackendInv
<1>6. /\ missed' = [s \in Request |-> IF s # r /\ InTx(s) THEN missed[s] \cup A ELSE {}]
      /\ locked' = [locked EXCEPT ![r] = {}]
      /\ snapshot' = [snapshot EXCEPT ![r] = NoSnapshot]
      /\ pc' = [pc EXCEPT ![r] = "done"]
      /\ \A a \in Account : balance'[a] = IF a \in A THEN o[a] ELSE balance[a]
  BY <1>2 DEF CommitTx, EndTx, Goto
<1>7. /\ \A a \in Account \ A : balance'[a] = balance[a] /\ ledger'[a] = ledger[a]
      /\ \A c \in {"USD", "EUR"} :
           /\ balance'[SystemAccount[c]] = balance[SystemAccount[c]] - OpeningAmount[c]
           /\ balance'[NewAccount[r][c]] = balance[NewAccount[r][c]] + OpeningAmount[c]
           /\ ledger'[SystemAccount[c]] = ledger[SystemAccount[c]] - OpeningAmount[c]
           /\ ledger'[NewAccount[r][c]] = ledger[NewAccount[r][c]] + OpeningAmount[c]
           /\ balance[SystemAccount[c]] >= OpeningAmount[c]
      /\ A = {SystemAccount["USD"], SystemAccount["EUR"],
              NewAccount[r]["USD"], NewAccount[r]["EUR"]}
      /\ ledger' \in [Account -> Int]
  <2>1. A = {SystemAccount["USD"], SystemAccount["EUR"],
             NewAccount[r]["USD"], NewAccount[r]["EUR"]}
    BY <1>1, OpeningMoves
  <2>2. /\ \A a \in Account \ A : ledger'[a] = ledger[a]
        /\ \A c \in {"USD", "EUR"} :
             /\ ledger'[SystemAccount[c]] = ledger[SystemAccount[c]] - OpeningAmount[c]
             /\ ledger'[NewAccount[r][c]] = ledger[NewAccount[r][c]] + OpeningAmount[c]
        /\ ledger' \in [Account -> Int]
    BY <1>1, <1>2, OpeningMoves
  <2>3. \A c \in {"USD", "EUR"} :
          /\ o[SystemAccount[c]] = snapshot[r][SystemAccount[c]] - OpeningAmount[c]
          /\ o[NewAccount[r][c]] = snapshot[r][NewAccount[r][c]] + OpeningAmount[c]
    BY <1>1, OpeningMoves
  <2> HIDE DEF A, o
  <2>4. \A a \in Account \ A : balance'[a] = balance[a]
    BY <1>6
  <2>5. \A c \in {"USD", "EUR"} :
          /\ SystemAccount[c] \in A /\ SystemAccount[c] \in Account
          /\ NewAccount[r][c] \in A /\ NewAccount[r][c] \in Account
    BY <1>3, <2>1
  <2>6. \A c \in {"USD", "EUR"} :
          /\ balance'[SystemAccount[c]] = balance[SystemAccount[c]] - OpeningAmount[c]
          /\ balance'[NewAccount[r][c]] = balance[NewAccount[r][c]] + OpeningAmount[c]
    BY <1>4, <1>6, <2>3, <2>5
  <2>7. \A c \in {"USD", "EUR"} : balance[SystemAccount[c]] >= OpeningAmount[c]
    BY <1>4, <2>5
  <2>8. QED
    BY <2>1, <2>2, <2>4, <2>6, <2>7
<1> HIDE DEF A, o
<1>8. Aside(r)
  BY <1>1, <1>2, <1>6 DEF BackendInv, TxInv, TxTypeOK, Aside
<1>9. \A s \in Mover : MoverSound(s)'
  BY <1>1, <1>8, AsideMovers
<1>10. ASSUME NEW s \in Registrant
       PROVE  RegistrantSound(s)'
  <2>0. s \in Request /\ RegistrantSound(s)
    BY NewcomerTypes DEF BackendInv
  <2>1. CASE s # r
    <3>1. A \cap R!Opened(s) = {}
      BY <1>7, <2>1, NewcomerTypes
    <3>2. missed'[s] \cap R!Opened(s) = {}
      BY <1>6, <2>0, <3>1 DEF RegistrantSound
    <3>3. QED
      BY <1>1, <1>2, <1>4, <1>8, <2>1, <3>2, AsideRegistrants
  <2>2. CASE s = r
    <3>1. pc'[r] = "done" /\ locked'[r] = {} /\ missed'[r] = {}
      BY <1>1, <1>6 DEF BackendInv, TxInv, TxTypeOK
    <3>2. QED
      BY <2>2, <3>1 DEF RegistrantSound, USDHeld, EURHeld, Outside
  <2>3. QED
    BY <2>1, <2>2
<1>11. TablesOK' /\ NewcomersOK' /\ quotes' = [q \in Quote |-> NoRow]'
  BY <1>2, <1>7 DEF BackendInv, TablesOK, NewcomersOK, NoRow
<1>12. Covered'
  <2>1. ASSUME NEW c \in {"USD", "EUR"}
        PROVE  balance'[SystemAccount[c]] >= 0 /\ balance'[NewAccount[r][c]] >= 0
    <3>1. /\ OpeningAmount[c] \in Nat
          /\ SystemAccount[c] \in Account /\ NewAccount[r][c] \in Account
      BY NewcomerTypes
    <3>2. QED
      BY <1>1, <1>7, <3>1 DEF BackendInv, Covered
  <2>2. QED
    BY <1>7, <2>1 DEF BackendInv, Covered
<1>13. RegisteredTogether'
  <2>1. ASSUME NEW s \in Registrant \ users', NEW a \in R!Opened(s)'
        PROVE  balance'[a] = 0 /\ ledger'[a] = 0
    <3>1. R!Opened(s)' = R!Opened(s)
      BY DEF R!Opened, R!Currencies
    <3>2. s \in Registrant \ users /\ s # r
      BY <1>2, <2>1
    <3>3. a \in Account \ A
      BY <1>7, <2>1, <3>1, <3>2, NewcomerTypes
    <3>4. QED
      BY <1>7, <2>1, <3>1, <3>2, <3>3 DEF BackendInv, RegisteredTogether
  <2>2. makesAdmin[r] <=> superAdmins = {}
    BY <1>1 DEF BackendInv, RegistrantSound
  <2>3. /\ superAdmins \subseteq users
        /\ \A p, q \in superAdmins : p = q
    <3>1. users = {} => superAdmins = {}
      BY DEF BackendInv, RegisteredTogether
    <3>2. QED
      BY <3>1 DEF BackendInv, RegisteredTogether, R!OneSuperAdmin
  <2>4. /\ superAdmins' \subseteq users' /\ superAdmins' # {}
        /\ \A p, q \in superAdmins' : p = q
    BY <1>2, <2>2, <2>3
  <2>5. R!OneSuperAdmin'
    BY <2>4 DEF R!OneSuperAdmin
  <2>6. QED
    BY <2>1, <2>4, <2>5 DEF RegisteredTogether
<1>14. BackendInv'
  BY <1>5, <1>9, <1>10, <1>11, <1>12, <1>13 DEF BackendInv
<1>15. ASSUME NEW a \in Account
       PROVE  balance'[a] - ledger'[a] = balance[a] - ledger[a]
  <2>1. CASE a \notin A
    BY <1>7, <2>1
  <2>2. CASE a \in A
    <3>1. PICK c \in {"USD", "EUR"} : a \in {SystemAccount[c], NewAccount[r][c]}
      BY <1>7, <2>2
    <3>2. OpeningAmount[c] \in Nat /\ balance[a] \in Int /\ ledger[a] \in Int
      BY <1>1, NewcomerTypes
    <3>3. QED
      BY <1>7, <3>1, <3>2
  <2>3. QED
    BY <2>1, <2>2
<1>16. QED
  BY <1>14, <1>15

\* Whatever a registrant does keeps the invariant and the differences.
LEMMA RegistersInv ==
  ASSUME BackendInv, NEW r \in Registrant, Registers(r)
  PROVE  /\ BackendInv'
         /\ \A a \in Account : balance'[a] - ledger'[a] = balance[a] - ledger[a]
<1>1. CASE R!CommitRegistration(r)
  BY <1>1, RegistersCommit DEF Registers
<1>2. CASE ~R!CommitRegistration(r)
  <2>1. ASSUME \/ R!Submit(r) \/ R!ValidateForm(r) \/ R!BeginRegistration(r)
               \/ R!CreateUser(r) \/ R!SerializeRegistration(r)
               \/ R!AbandonRegistration(r)
        PROVE  BackendInv' /\ UNCHANGED <<balance, ledger>>
    <3>1. UNCHANGED <<req, tables, seen, newcomerVars>>
      BY <2>1 DEF Registers, tables, newcomerVars, R!Submit, R!ValidateForm,
         R!BeginRegistration, R!CreateUser, R!SerializeRegistration,
         R!AbandonRegistration, R!RetryRegistration, R!registrationVars
    <3>2. \/ pc[r] = "idle" /\ Continue(r, "start")
          \/ pc[r] = "start" /\ Continue(r, "begin")
          \/ pc[r] = "createUser" /\ Continue(r, "usdSystem")
          \/ pc[r] = "start" /\ \E error : Return(r, error)
          \/ BeginTx(r, "createUser")
          \/ pc[r] # "done" /\ \E error : RollbackTx(r, error)
          \/ pc[r] # "done" /\ RetryTx(r)
      BY <2>1, SameTransactions
         DEF R!Submit, R!ValidateForm, R!BeginRegistration, R!CreateUser,
         R!SerializeRegistration, R!AbandonRegistration, R!RetryRegistration
    <3>3. pc[r] # "done" /\ UNCHANGED balance
      BY <3>2 DEF Continue, Return, BeginTx, RollbackTx, RetryTx
    <3>4. QED
      BY <3>1, <3>2, <3>3, RegistersRest DEF tables
  <2>2. ASSUME R!FindSystemAccount(r)
        PROVE  BackendInv' /\ UNCHANGED <<balance, ledger>>
    <3>1. UNCHANGED <<req, tables, seen, newcomerVars>>
      BY <2>2 DEF Registers, tables, newcomerVars, R!FindSystemAccount,
         R!registrationVars
    <3>2. \/ pc[r] = "usdSystem" /\ Continue(r, "usdAdjust")
          \/ pc[r] = "eurSystem" /\ Continue(r, "eurAdjust")
      BY <2>2, SameTransactions DEF R!FindSystemAccount, R!After
    <3>3. UNCHANGED balance
      BY <3>2 DEF Continue
    <3>4. QED
      BY <3>1, <3>2, <3>3, RegistersRest, FindsEUR DEF tables
  <2>3. ASSUME R!AdjustBalance(r)
        PROVE  BackendInv' /\ UNCHANGED <<balance, ledger>>
    <3> DEFINE a == SystemAccount[R!AdjustedCurrency(r)]
               to == R!After(pc[r])
    <3>1. /\ UNCHANGED <<req, tables, seen, newcomerVars>>
          /\ pc[r] \in {"usdAdjust", "eurAdjust"}
      BY <2>3 DEF Registers, tables, newcomerVars, R!AdjustBalance,
         R!registrationVars
    <3>2. \/ ~R!Exhausted(r, R!AdjustedCurrency(r)) /\ GetForUpdate(r, a, to)
          \/ RollbackTx(r, "failed")
      BY <2>3, SameTransactions DEF R!AdjustBalance
    <3>3. UNCHANGED balance
      BY <3>2 DEF GetForUpdate, RollbackTx
    <3>4. QED
      BY <3>1, <3>2, <3>3, Adjusts, RegistersRest DEF tables
  <2>4. ASSUME R!HasAnyAdmin(r)
        PROVE  BackendInv' /\ UNCHANGED <<balance, ledger>>
    <3>1. /\ UNCHANGED <<req, tables, seen, form, users, superAdmins>>
          /\ pc[r] = "hasAdmin"
          /\ makesAdmin' = [makesAdmin EXCEPT ![r] = superAdmins = {}]
      BY <2>4 DEF Registers, tables, R!HasAnyAdmin
    <3>2. Continue(r, "commitUser")
      BY <2>4, SameTransactions DEF R!HasAnyAdmin, R!After
    <3>3. UNCHANGED balance
      BY <3>2 DEF Continue
    <3>4. QED
      BY <3>1, <3>2, <3>3, AsksForAdmin DEF tables
  <2>5. QED
    BY <1>2, <2>1, <2>2, <2>3, <2>4 DEF Registers, R!Register
<1>3. QED
  BY <1>1, <1>2

\* PostgreSQL breaks a deadlock by a retry of a request that waits.
LEMMA DeadlockInv ==
  ASSUME BackendInv, NEW r \in Request, BackendDeadlock(r)
  PROVE  BackendInv'
<1>1. /\ \E s \in Request : BackendWaitsFor(r, s)
      /\ RetryTx(r)
      /\ UNCHANGED <<req, tables, seen, newcomerVars>>
  BY DEF BackendDeadlock, BackendCycle
<1>2. CASE r \in Registrant
  <2>1. pc[r] # "done"
    BY <1>1, <1>2 DEF BackendWaitsFor, R!RegistrationWaitsFor
  <2>2. QED
    BY <1>1, <1>2, <2>1, RegistersRest
<1>3. CASE r \in Mover
  <2>1. /\ pc[r] \in LockSteps \cup {"insert", "consume"}
        /\ Sound(r) /\ MoverSound(r) /\ r \notin Registrant
    BY <1>1, <1>3, MoverIsSound, NewcomerTypes
       DEF BackendWaitsFor, WaitsFor, BackendInv
  <2>2. TxTypeOK /\ makesAdmin \in [Registrant -> BOOLEAN]
        /\ seen \in [Request -> QuoteStatus]
    BY DEF BackendInv, TxInv, NewcomersOK, TablesOK
  <2>3. TxInv'
    BY <1>1, RetryTxInv DEF BackendInv
  <2>4. Quiet(r)
    BY <1>1, <2>2 DEF TxTypeOK, Quiet, Aside, tables, newcomerVars, RetryTx,
                      EndTx, Goto
  <2>5. pc'[r] \in {"begin", "done"} /\ locked'[r] = {}
    BY <1>1, <2>2 DEF TxTypeOK, RetryTx, EndTx, Goto
  <2>6. Local(r)'
    BY <1>1, <2>1, <2>5, RestLocal DEF LockSteps, tables
  <2>7. \A a : a \in Existing' <=> a \in Existing
    BY <1>1, ExistingRows, ExistingRowsThen DEF newcomerVars
  <2>8. KnowsAccounts(r)
    BY <2>1 DEF MoverSound, LockSteps
  <2>9. MoverSound(r)'
    BY <1>1, <2>5, <2>6, <2>7, <2>8 DEF MoverSound, KnowsAccounts
  <2>10. QED
    BY <1>1, <2>1, <2>2, <2>3, <2>4, <2>9, QuietInv DEF newcomerVars
<1>4. QED
  BY <1>2, <1>3 DEF Mover

----------------------------------------------------------------------------
(* The inductive invariant, and the theorems. *)

LEMMA InitBackendInv == BackendInit => BackendInv
<1> SUFFICES ASSUME BackendInit
             PROVE  BackendInv
  OBVIOUS
<1>1. IInv
  BY InitIInv DEF BackendInit
<1>2. /\ TxInv /\ TablesOK
      /\ \A r \in Mover : Local(r)
  BY <1>1, NewcomerTypes DEF IInv, TypeOK, TablesOK
<1>3. /\ pc = [r \in Request |-> "idle"]
      /\ locked = [r \in Request |-> {}] /\ missed = [r \in Request |-> {}]
      /\ balance = OpeningBalance
      /\ ledger = [a \in Account |-> OpeningBalance[a] - Seed[a]]
      /\ quotes = [q \in Quote |-> NoRow]
      /\ users = {} /\ superAdmins = {}
      /\ makesAdmin = [r \in Registrant |-> FALSE]
  BY DEF BackendInit, Init, TxInit, R!RegistrationInit
<1>4. \A r \in Mover : MoverSound(r)
  BY <1>2, <1>3, NewcomerTypes DEF MoverSound
<1>5. \A r \in Registrant : RegistrantSound(r)
  BY <1>3, NewcomerTypes DEF RegistrantSound, Outside, USDHeld, EURHeld
<1>6. Covered
  BY <1>3, ConfigAssumption DEF Covered
<1>7. RegisteredTogether
  <2>1. ASSUME NEW r \in Registrant, NEW a \in R!Opened(r)
        PROVE  balance[a] = 0 /\ ledger[a] = 0
    <3>1. a \in Account /\ OpeningBalance[a] = 0 /\ Seed[a] = 0
      BY <2>1, NewcomerTypes
    <3>2. QED
      BY <1>3, <3>1
  <2>2. QED
    BY <1>3, <2>1 DEF RegisteredTogether
<1>8. NewcomersOK
  BY <1>3 DEF NewcomersOK
<1>9. QED
  BY <1>2, <1>3, <1>4, <1>5, <1>6, <1>7, <1>8 DEF BackendInv

\* Nothing changes.
LEMMA StutterInv ==
  ASSUME BackendInv, UNCHANGED backendVars
  PROVE  BackendInv'
<1>1. /\ UNCHANGED <<pc, attempt, answer, balance, snapshot, locked, missed>>
      /\ UNCHANGED <<req, ledger, transactions, quotes, seen>>
      /\ UNCHANGED <<form, users, superAdmins, makesAdmin>>
  BY DEF backendVars, vars, txVars, newcomerVars
<1>2. TxInv' /\ TablesOK' /\ NewcomersOK'
  BY <1>1 DEF BackendInv, TxInv, TxTypeOK, LocksInTx, LocksExclusive,
     SnapshotCurrent, LockedCurrent, InTx, TablesOK, NewcomersOK
<1>3. quotes' = [q \in Quote |-> NoRow]' /\ Covered'
  BY <1>1 DEF BackendInv, Covered, NoRow
<1>4. /\ \A r : R!Opened(r)' = R!Opened(r)
      /\ R!SystemAccounts' = R!SystemAccounts
      /\ R!RegistrationSteps' = R!RegistrationSteps
  BY DEF R!SystemAccounts, R!Opened, R!Currencies, R!RegistrationSteps
<1>5. \A a : a \in Existing' <=> a \in Existing
  BY <1>1, ExistingRows, ExistingRowsThen
<1>6. ASSUME NEW r \in Mover
      PROVE  MoverSound(r)'
  <2>1. MoverSound(r)
    BY DEF BackendInv
  <2>2. Local(r)'
    BY <1>1, <2>1 DEF MoverSound, Local, Validated, RowsLocked, Approved
  <2>3. QED
    BY <1>1, <1>5, <2>1, <2>2 DEF MoverSound, KnowsAccounts
<1>7. \A r \in Registrant : RegistrantSound(r)'
  BY <1>1, <1>4 DEF BackendInv, RegistrantSound
<1>8. RegisteredTogether'
  BY <1>1, <1>4 DEF BackendInv, RegisteredTogether, R!OneSuperAdmin
<1>9. QED
  BY <1>2, <1>3, <1>6, <1>7, <1>8 DEF BackendInv

LEMMA StepBackendInv == BackendInv /\ [BackendNext]_backendVars => BackendInv'
<1> SUFFICES ASSUME BackendInv, [BackendNext]_backendVars
             PROVE  BackendInv'
  OBVIOUS
<1>1. ASSUME NEW r \in Mover, Moves(r) \/ SerializeMove(r)
      PROVE  BackendInv'
  <2>1. CASE Commit(r)
    BY <1>1, <2>1, CommitMoveInv DEF Moves, SerializeMove
  <2>2. CASE ~Commit(r)
    BY <1>1, <2>2, MovesInv
  <2>3. QED
    BY <2>1, <2>2
<1>2. QED
  BY <1>1, RegistersInv, DeadlockInv, StutterInv DEF BackendNext

THEOREM BackendInvariance == BackendSpec => []BackendInv
BY InitBackendInv, StepBackendInv, PTL DEF BackendSpec

\* A registration is all or nothing also beside transfers and exchanges: its
\* user, her accounts and the super admin appear together, nobody pays into an
\* account before it exists, and there is one super admin as soon as there is a
\* user.
THEOREM Together == BackendSpec => []RegisteredTogether
<1>1. BackendInv => RegisteredTogether
  BY DEF BackendInv
<1>2. QED
  BY <1>1, BackendInvariance, PTL

\* What a registration commits are the opening balances on the current ones,
\* although it moved them on its snapshot.
LEMMA CommitOpens ==
  ASSUME BackendInv, NEW r \in Registrant, R!CommitRegistration(r)
  PROVE  balance' = R!Opening(r, balance)
<1>1. /\ pc[r] = "commitUser" /\ r \in Request
      /\ balance \in [Account -> Int] /\ snapshot[r] \in [Account -> Int]
  BY NewcomerTypes DEF R!CommitRegistration, BackendInv, TxInv, TxTypeOK
<1>2. \A a \in R!Adjusted(r) : snapshot[r][a] = balance[a]
  BY <1>1, CommitAlone
<1>3. CommitTx(r, R!Adjusted(r), R!Opening(r, snapshot[r]))
  BY SameTransactions DEF R!CommitRegistration
<1>4. balance' = [a \in Account |-> IF a \in R!Adjusted(r)
                                    THEN R!Opening(r, snapshot[r])[a]
                                    ELSE balance[a]]
  BY <1>3 DEF CommitTx
<1>5. \A a \in Account \ R!Adjusted(r) : R!Opening(r, balance)[a] = balance[a]
  BY <1>1, OpeningMoves
<1>6. \A a \in R!Adjusted(r) : R!Opening(r, snapshot[r])[a] = R!Opening(r, balance)[a]
  <2>1. \A c \in {"USD", "EUR"} :
          /\ R!Opening(r, snapshot[r])[SystemAccount[c]]
               = R!Opening(r, balance)[SystemAccount[c]]
          /\ R!Opening(r, snapshot[r])[NewAccount[r][c]]
               = R!Opening(r, balance)[NewAccount[r][c]]
    BY <1>1, <1>2, OpeningMoves
  <2>2. QED
    BY <1>1, <2>1, OpeningMoves
<1>7. R!Opening(r, balance) = [a \in Account |-> R!Opening(r, balance)[a]]
  BY <1>1, OpeningMoves
<1>8. QED
  BY <1>4, <1>5, <1>6, <1>7

\* Registrations and exchanges draw on the same system accounts, and neither
\* overdraws them: no balance is negative, committed or about to be.
THEOREM FundedBesideNewcomers == BackendSpec => []NoOverdraft
<1>1. BackendInv => NoOverdraft
  <2> SUFFICES ASSUME BackendInv
               PROVE  NoOverdraft
    OBVIOUS
  <2>1. ASSUME NEW r \in Request, pc[r] \in {"insert", "consume", "commit"},
               NEW a \in Written(req[r])
        PROVE  Staged(r)[a] >= 0
    <3>1. r \in Mover
      BY <2>1 DEF Mover, BackendInv, RegistrantSound, Outside, R!RegistrationSteps
    <3>2. QED
      BY <2>1, <3>1, MoverIsSound, StagedFunded DEF BackendInv, Covered, Writing
  <2>2. QED
    BY <2>1 DEF NoOverdraft, BackendInv, Covered
<1>2. QED
  BY <1>1, BackendInvariance, PTL

\* Balances and ledger agree although registrations write the system accounts
\* by a delta and exchanges write values they have computed, as long as no
\* exchange pays into a system account.
THEOREM ReconciledBesideNewcomers ==
  ASSUME ExchangeTargetsUsers
  PROVE  BackendSpec => []Reconciled
<1>1. BackendInit => Reconciled
  BY ConfigAssumption DEF BackendInit, Init, TxInit, Reconciled, Difference
<1>2. BackendInv /\ Reconciled /\ [BackendNext]_backendVars => Reconciled'
  <2> SUFFICES ASSUME BackendInv, Reconciled, [BackendNext]_backendVars
               PROVE  Reconciled'
    OBVIOUS
  <2>1. ASSUME NEW r \in Mover, Moves(r) \/ SerializeMove(r)
        PROVE  Reconciled'
    <3>1. CASE Commit(r)
      <4>1. ASSUME NEW a \in Account
            PROVE  balance'[a] - ledger'[a] = Seed[a]
        <5>1. /\ balance'[a] = balance[a] + Delta(req[r], a)
              /\ ledger'[a] = ledger[a] + Delta(req[r], a)
              /\ Delta(req[r], a) \in Int
          BY <3>1, MoverIsSound, CommitDelta
        <5>2. balance[a] - ledger[a] = Seed[a]
          BY DEF Reconciled, Difference
        <5>3. balance[a] \in Int /\ ledger[a] \in Int /\ Seed[a] \in Int
          BY ConfigAssumption DEF BackendInv, TxInv, TxTypeOK, TablesOK
        <5>4. QED
          BY <5>1, <5>2, <5>3
      <4>2. QED
        BY <4>1 DEF Reconciled, Difference
    <3>2. CASE ~Commit(r)
      BY <2>1, <3>2, MovesQuiet DEF Quiet, tables, Reconciled, Difference
    <3>3. QED
      BY <3>1, <3>2
  <2>2. ASSUME NEW r \in Registrant, Registers(r)
        PROVE  Reconciled'
    BY <2>2, RegistersInv DEF Reconciled, Difference
  <2>3. ASSUME NEW r \in Request, BackendDeadlock(r)
        PROVE  Reconciled'
    BY <2>3 DEF BackendDeadlock, RetryTx, tables, Reconciled, Difference
  <2>4. CASE UNCHANGED backendVars
    BY <2>4 DEF backendVars, vars, txVars, Reconciled, Difference
  <2>5. QED
    BY <2>1, <2>2, <2>3, <2>4 DEF BackendNext
<1>3. QED
  BY <1>1, <1>2, BackendInvariance, PTL DEF BackendSpec

\* An opening moves one amount per currency, from the system's account to the
\* new one.
LEMMA OpeningConserves ==
  ASSUME BackendInv, NEW r \in Registrant, R!CommitRegistration(r),
         IsFiniteSet(Account), NEW c \in {"USD", "EUR"}
  PROVE  SumOver(balance', Within(c)) = SumOver(balance, Within(c))
<1> DEFINE T == Within(c)
           p == NewAccount[r][c]
           q == SystemAccount[c]
<1>1. PICK f, g : f = balance /\ g = balance'
  OBVIOUS
<1>2. f \in [Account -> Int] /\ g = R!Opening(r, f)
  BY <1>1, CommitOpens DEF BackendInv, TxInv, TxTypeOK
<1>3. /\ p \in Account /\ q \in Account /\ p # q /\ OpeningAmount[c] \in Int
      /\ CurrencyOf[p] = c /\ CurrencyOf[q] = c
  <2>1. p \in Account /\ q \in Account /\ OpeningAmount[c] \in Int
    BY NewcomerTypes
  <2>2. p \in R!Opened(r) /\ q \in R!SystemAccounts
    BY NewcomerTypes
  <2>3. R!Opened(r) \cap R!SystemAccounts = {}
    BY NewcomerTypes
  <2>4. CurrencyOf[p] = c /\ CurrencyOf[q] = c
    BY ConfigAssumption, BackendAssumption DEF Currency
  <2>5. QED
    BY <2>1, <2>2, <2>3, <2>4
<1>4. \A a \in Account : CurrencyOf[a] = c /\ a # p /\ a # q => a \notin R!Adjusted(r)
  <2>1. \A d \in {"USD", "EUR"} :
          CurrencyOf[NewAccount[r][d]] = d /\ CurrencyOf[SystemAccount[d]] = d
    BY ConfigAssumption, BackendAssumption DEF Currency
  <2>2. R!Adjusted(r) = {SystemAccount["USD"], SystemAccount["EUR"],
                         NewAccount[r]["USD"], NewAccount[r]["EUR"]}
    BY <1>2, OpeningMoves
  <2>3. QED
    BY <2>1, <2>2
<1>5. /\ g[p] = f[p] + OpeningAmount[c] /\ g[q] = f[q] - OpeningAmount[c]
      /\ \A a \in Account \ R!Adjusted(r) : g[a] = f[a]
  BY <1>2, OpeningMoves
<1>6. Moved(f, g, T, OpeningAmount[c], q, p)
  <2>1. ASSUME NEW a \in T
        PROVE  /\ f[a] \in Int
               /\ g[a] = f[a] + (IF a = p THEN OpeningAmount[c] ELSE 0)
                              - (IF a = q THEN OpeningAmount[c] ELSE 0)
    <3>1. a \in Account /\ CurrencyOf[a] = c
      BY DEF Within
    <3> HIDE DEF p, q, T
    <3>2. QED
      BY <1>2, <1>3, <1>4, <1>5, <3>1
  <2>2. QED
    BY <2>1 DEF Moved
<1>7. IsFiniteSet(T)
  BY FS_Subset DEF Within
<1>8. p \in T /\ q \in T
  BY <1>3 DEF Within
<1> HIDE DEF T, p, q
<1>9. SumOver(g, T) = SumOver(f, T)
  BY <1>3, <1>6, <1>7, <1>8, SumKept
<1>10. QED
  BY <1>1, <1>9 DEF T

\* Money is neither made nor lost beside registrations either: what a new user
\* starts with comes from the system accounts, which exchanges write as well.
THEOREM ConservationBesideNewcomers ==
  ASSUME ExchangeTargetsUsers, IsFiniteSet(Account)
  PROVE  BackendSpec => []MoneyConserved
<1>1. BackendInit => MoneyConserved
  BY TotalIsSum DEF BackendInit, Init, TxInit
<1>2. BackendInv /\ MoneyConserved /\ [BackendNext]_backendVars => MoneyConserved'
  <2> SUFFICES ASSUME BackendInv, MoneyConserved, [BackendNext]_backendVars
               PROVE  MoneyConserved'
    OBVIOUS
  <2>1. CASE UNCHANGED balance
    BY <2>1, TotalIsSum
  <2>2. ASSUME NEW r \in Mover, Moves(r) \/ SerializeMove(r)
        PROVE  MoneyConserved'
    <3>1. CASE Commit(r)
      <4>1. \A c \in Currency :
              SumOver(balance', Within(c)) = SumOver(balance, Within(c))
        BY <3>1, MoverIsSound, CommitConserves
      <4>2. QED
        BY <4>1, TotalIsSum
    <3>2. CASE ~Commit(r)
      BY <2>1, <2>2, <3>2, MovesQuiet DEF Quiet
    <3>3. QED
      BY <3>1, <3>2
  <2>3. ASSUME NEW r \in Registrant, Registers(r)
        PROVE  MoneyConserved'
    <3>1. CASE R!CommitRegistration(r)
      <4>1. \A c \in Currency :
              SumOver(balance', Within(c)) = SumOver(balance, Within(c))
        BY <3>1, OpeningConserves DEF Currency
      <4>2. QED
        BY <4>1, TotalIsSum
    <3>2. CASE ~R!CommitRegistration(r)
      <4>1. UNCHANGED balance
        BY <2>3, <3>2, SameTransactions
        DEF Registers, R!Submit, R!Register, R!AbandonRegistration, R!ValidateForm,
            R!BeginRegistration, R!CreateUser, R!FindSystemAccount, R!AdjustBalance,
            R!HasAnyAdmin, R!SerializeRegistration, R!RetryRegistration,
            Continue, Return, BeginTx, GetForUpdate, RollbackTx, RetryTx
      <4>2. QED
        BY <2>1, <4>1
    <3>3. QED
      BY <3>1, <3>2
  <2>4. ASSUME NEW r \in Request, BackendDeadlock(r)
        PROVE  MoneyConserved'
    BY <2>1, <2>4 DEF BackendDeadlock, RetryTx
  <2>5. CASE UNCHANGED backendVars
    BY <2>1, <2>5 DEF backendVars, vars, txVars
  <2>6. QED
    BY <2>2, <2>3, <2>4, <2>5 DEF BackendNext
<1>3. QED
  BY <1>1, <1>2, BackendInvariance, PTL DEF BackendSpec

----------------------------------------------------------------------------
(***************************************************************************)
(* Proof that Backend implements OpenBank.  SerialInv adds to BackendInv    *)
(* what unique indexes hold for open transactions: the key of a mover past  *)
(* its insert, and the name and email of a registrant past its insert, are  *)
(* in no row and with no other such transaction.                            *)
(***************************************************************************)

KeysAlone == \A r \in Mover : pc[r] \in {"consume", "commit"} =>
  /\ ~Duplicate(r)
  /\ \A s \in Request : ~HoldsKey(s, r)

NameSteps == {"usdSystem", "usdAdjust", "eurSystem", "eurAdjust", "hasAdmin",
              "commitUser"}

NamesAlone == \A r \in Registrant :
  /\ pc[r] \notin {"idle", "start", "done"} => R!WellFormed(form[r])
  /\ pc[r] \in NameSteps =>
       /\ \A s \in users : ~R!SameUser(s, r)
       /\ \A s \in Registrant \ {r} : pc[s] \in NameSteps => ~R!SameUser(s, r)

SerialInv == BackendInv /\ KeysAlone /\ NamesAlone

\* How the step of one request may touch keys.
KeyStep(r) ==
  /\ req' = req
  /\ \A s \in Request \ {r} : pc'[s] = pc[s]
  /\ pc'[r] \in {"consume", "commit"} =>
       \/ pc[r] \in {"consume", "commit"}
       \/ /\ ~Duplicate(r)
          /\ \A s \in Request : ~HoldsKey(s, r)
  /\ \/ transactions' = transactions
     \/ /\ transactions' = transactions \cup {RowOf(r)}
        /\ pc[r] = "commit" /\ pc'[r] = "done"

LEMMA KeysAloneStep ==
  ASSUME BackendInv, BackendInv', KeysAlone, NEW r \in Request, KeyStep(r)
  PROVE  KeysAlone'
<1> SUFFICES ASSUME NEW t \in Mover, pc'[t] \in {"consume", "commit"}
             PROVE  ~Duplicate(t)' /\ \A s \in Request : ~HoldsKey(s, t)'
  BY DEF KeysAlone
<1>0. /\ req' = req /\ t \in Request
      /\ \A s \in Request \ {r} : pc'[s] = pc[s]
  BY NewcomerTypes DEF KeyStep
<1>1. /\ ~Duplicate(t)
      /\ \A s \in Request : ~HoldsKey(s, t)
  BY <1>0 DEF KeysAlone, KeyStep
<1>2. ASSUME NEW s \in Request, HoldsKey(s, t)'
      PROVE  FALSE
  <2>1. /\ s # t /\ SameKey(req[s], req[t]) /\ SameKey(req[t], req[s])
        /\ pc'[s] \in {"consume", "commit"}
    BY <1>0, <1>2 DEF HoldsKey, SameKey
  <2>2. pc[s] \notin {"consume", "commit"}
    BY <1>1, <2>1 DEF HoldsKey
  <2>3. s = r /\ ~HoldsKey(t, s)
    BY <1>0, <2>1, <2>2 DEF KeyStep
  <2>4. pc'[t] = pc[t]
    BY <1>0, <2>1, <2>3
  <2>5. QED
    BY <2>1, <2>3, <2>4 DEF HoldsKey
<1>3. ~Duplicate(t)'
  <2>1. CASE transactions' = transactions
    BY <1>0, <1>1, <2>1 DEF Duplicate
  <2>2. CASE transactions' # transactions
    <3>1. /\ transactions' = transactions \cup {RowOf(r)}
          /\ pc[r] = "commit" /\ pc'[r] = "done"
      BY <2>2 DEF KeyStep
    <3>2. RowOf(r).in = req[r] /\ ~SameKey(req[r], req[t])
      BY <1>1, <3>1 DEF HoldsKey, RowOf
    <3>3. QED
      BY <1>0, <1>1, <3>1, <3>2 DEF Duplicate
  <2>3. QED
    BY <2>1, <2>2
<1>4. QED
  BY <1>2, <1>3

\* How the step of one request may touch names.
NameStep(r) ==
  /\ form' = form
  /\ \A s \in Request \ {r} : pc'[s] = pc[s]
  /\ r \in Registrant =>
       /\ pc'[r] \notin {"idle", "start", "done"} =>
            pc[r] \notin {"idle", "start", "done"} \/ R!WellFormed(form[r])
       /\ pc'[r] \in NameSteps =>
            \/ pc[r] \in NameSteps
            \/ /\ \A s \in users : ~R!SameUser(r, s)
               /\ \A s \in Registrant : ~R!HoldsName(s, r)
  /\ \/ users' = users
     \/ /\ users' = users \cup {r}
        /\ r \in Registrant /\ pc[r] \in NameSteps /\ pc'[r] = "done"

LEMMA NamesAloneStep ==
  ASSUME BackendInv, BackendInv', NamesAlone, NEW r \in Request, NameStep(r)
  PROVE  NamesAlone'
<1>0. /\ form' = form /\ Registrant \subseteq Request
      /\ \A s \in Request \ {r} : pc'[s] = pc[s]
      /\ \A s, t : R!SameUser(s, t)' <=> R!SameUser(s, t)
      /\ \A s, t : R!SameUser(s, t) <=> R!SameUser(t, s)
      /\ \A t : R!WellFormed(form[t])' <=> R!WellFormed(form[t])
  BY NewcomerTypes DEF NameStep, R!SameUser, R!WellFormed
<1>1. ASSUME NEW t \in Registrant, pc'[t] \notin {"idle", "start", "done"}
      PROVE  R!WellFormed(form[t])
  BY <1>0, <1>1 DEF NamesAlone, NameStep
<1>2. ASSUME NEW t \in Registrant, pc'[t] \in NameSteps
      PROVE  /\ \A s \in users : ~R!SameUser(s, t)
             /\ \A s \in Registrant \ {t} : pc[s] \in NameSteps => ~R!SameUser(s, t)
  <2>1. CASE pc[t] \in NameSteps
    BY <2>1 DEF NamesAlone
  <2>2. CASE pc[t] \notin NameSteps
    <3>1. /\ t = r
          /\ \A s \in users : ~R!SameUser(t, s)
          /\ \A s \in Registrant : ~R!HoldsName(s, t)
      BY <1>0, <1>2, <2>2 DEF NameStep
    <3>2. QED
      BY <1>0, <3>1 DEF R!HoldsName, R!RegistrationSteps, NameSteps
  <2>3. QED
    BY <2>1, <2>2
<1>3. ASSUME NEW t \in Registrant, pc'[t] \in NameSteps, NEW s \in users'
      PROVE  ~R!SameUser(s, t)
  <2>1. CASE s \in users
    BY <1>2, <1>3, <2>1
  <2>2. CASE s \notin users
    <3>1. s = r /\ s \in Registrant /\ pc[s] \in NameSteps /\ pc'[s] = "done"
      BY <1>3, <2>2 DEF NameStep
    <3>2. s # t
      BY <1>3, <3>1 DEF NameSteps
    <3>3. QED
      BY <1>2, <1>3, <3>1, <3>2
  <2>3. QED
    BY <2>1, <2>2
<1>4. ASSUME NEW t \in Registrant, pc'[t] \in NameSteps,
             NEW s \in Registrant \ {t}, pc'[s] \in NameSteps
      PROVE  ~R!SameUser(s, t)
  <2>1. CASE pc[s] \in NameSteps
    BY <1>2, <1>4, <2>1
  <2>2. CASE pc[s] \notin NameSteps
    <3>1. s = r
      BY <1>0, <1>4, <2>2
    <3>2. pc[t] \in NameSteps
      BY <1>0, <1>4, <3>1
    <3>3. QED
      BY <1>0, <1>2, <1>4, <3>2
  <2>3. QED
    BY <2>1, <2>2
<1>5. QED
  BY <1>0, <1>1, <1>3, <1>4 DEF NamesAlone, NameSteps

\* What every step of a request does to the position of others: nothing.
LEMMA StepsAside ==
  ASSUME BackendInv, NEW r \in Request,
         \/ \E where : Continue(r, where)
         \/ \E error : Return(r, error)
         \/ \E first : BeginTx(r, first)
         \/ \E a, next : GetForUpdate(r, a, next)
         \/ \E error : RollbackTx(r, error)
         \/ RetryTx(r)
         \/ \E written, staged : CommitTx(r, written, staged)
  PROVE  \A s \in Request \ {r} : pc'[s] = pc[s]
BY DEF BackendInv, TxInv, TxTypeOK, Continue, Return, BeginTx, GetForUpdate,
       RollbackTx, RetryTx, CommitTx, Goto

\* Where a request goes.
LEMMA StepsTo ==
  ASSUME BackendInv, NEW r \in Request
  PROVE  /\ \A where : Continue(r, where) => pc'[r] = where
         /\ \A error : Return(r, error) => pc'[r] = "done"
         /\ \A first : BeginTx(r, first) => pc[r] = "begin" /\ pc'[r] = first
         /\ \A a, next : GetForUpdate(r, a, next) => pc'[r] = next
         /\ \A error : RollbackTx(r, error) => pc'[r] = "done"
         /\ RetryTx(r) => pc'[r] \in {"begin", "done"}
         /\ \A written, staged : CommitTx(r, written, staged) => pc'[r] = "done"
BY DEF BackendInv, TxInv, TxTypeOK, Continue, Return, BeginTx, GetForUpdate,
       RollbackTx, RetryTx, CommitTx, Goto

\* A mover takes a key by an insert only.
LEMMA MovesKeyStep ==
  ASSUME BackendInv, NEW r \in Mover, Moves(r) \/ SerializeMove(r)
  PROVE  KeyStep(r) /\ NameStep(r)
<1>0. r \in Request /\ r \notin Registrant
  BY NewcomerTypes
<1>1. /\ req' = req /\ form' = form /\ users' = users
      /\ \A s \in Request \ {r} : pc'[s] = pc[s]
  <2>1. CASE Commit(r)
    <3>1. CommitTx(r, Written(req[r]), Staged(r)) /\ req' = req
      BY <2>1 DEF Commit
    <3>2. form' = form /\ users' = users
      BY DEF Moves, SerializeMove, newcomerVars
    <3>3. QED
      BY <1>0, <3>1, <3>2, StepsAside
  <2>2. CASE ~Commit(r)
    BY <2>2, MovesQuiet DEF Quiet, Aside, Moves, SerializeMove, newcomerVars
  <2>3. QED
    BY <2>1, <2>2
<1>2. \/ transactions' = transactions
      \/ /\ transactions' = transactions \cup {RowOf(r)}
         /\ pc[r] = "commit" /\ pc'[r] = "done"
  <2>1. CASE Commit(r)
    BY <2>1, CommitRow, MoverIsSound
  <2>2. CASE ~Commit(r)
    BY <2>2, MovesQuiet DEF Quiet, tables
  <2>3. QED
    BY <2>1, <2>2
<1>3. ASSUME pc'[r] \in {"consume", "commit"}
      PROVE  \/ pc[r] \in {"consume", "commit"}
             \/ /\ ~Duplicate(r)
                /\ \A s \in Request : ~HoldsKey(s, r)
  <2>1. CASE Insert(r)
    BY <1>0, <1>3, <2>1, StepsTo DEF Insert
  <2>2. CASE Consume(r)
    BY <2>2 DEF Consume
  <2>3. CASE Lock(r)
    <3>1. pc'[r] = AfterLock(pc[r]) /\ pc[r] \in LockSteps
      BY <1>0, <2>3, StepsTo DEF Lock
    <3>2. QED
      BY <1>3, <3>1 DEF AfterLock, LockSteps
  <2>4. CASE Check(r)
    <3>1. pc'[r] \in {"done", "insert", "sysIds"}
      BY <1>0, <2>4, StepsTo DEF Check
    <3>2. QED
      BY <1>3, <3>1
  <2>5. ~(\/ Arrive(r) \/ Validate(r) \/ Begin(r) \/ MissingRow(r) \/ SystemIds(r)
          \/ Cover(r) \/ Commit(r) \/ Abandon(r) \/ SerializationFailure(r))
    BY <1>0, <1>3, StepsTo
    DEF Arrive, Validate, Begin, MissingRow, SystemIds, Cover, Commit, Abandon,
        SerializationFailure
  <2>6. QED
    BY <2>1, <2>2, <2>3, <2>4, <2>5 DEF Moves, SerializeMove
<1>4. QED
  BY <1>0, <1>1, <1>2, <1>3 DEF KeyStep, NameStep

\* A registrant takes a name by CreateUser only.
LEMMA RegistersKeyStep ==
  ASSUME BackendInv, BackendInv', NEW r \in Registrant, Registers(r)
  PROVE  KeyStep(r) /\ NameStep(r)
<1>0. r \in Request /\ r \notin Mover
  BY NewcomerTypes
<1>1. /\ req' = req /\ transactions' = transactions
      /\ pc'[r] \notin {"consume", "commit"}
  <2>1. RegistrantSound(r)'
    BY DEF BackendInv
  <2>2. QED
    BY <2>1 DEF Registers, RegistrantSound, Outside, R!RegistrationSteps
<1>2. form' = form
  BY DEF Registers, R!Submit, R!Register, R!AbandonRegistration, R!ValidateForm,
     R!BeginRegistration, R!CreateUser, R!FindSystemAccount, R!AdjustBalance,
     R!HasAnyAdmin, R!CommitRegistration, R!SerializeRegistration,
     R!RetryRegistration, R!registrationVars
<1> DEFINE Alone == \A s \in Request \ {r} : pc'[s] = pc[s]
           Formed == pc'[r] \notin {"idle", "start", "done"} =>
                       pc[r] \notin {"idle", "start", "done"} \/ R!WellFormed(form[r])
           Named == pc'[r] \in NameSteps =>
                      \/ pc[r] \in NameSteps
                      \/ /\ \A s \in users : ~R!SameUser(r, s)
                         /\ \A s \in Registrant : ~R!HoldsName(s, r)
           Rows == \/ users' = users
                   \/ /\ users' = users \cup {r}
                      /\ r \in Registrant /\ pc[r] \in NameSteps /\ pc'[r] = "done"
<1>3. CASE R!Submit(r)
  <2>1. Continue(r, "start") /\ users' = users
    BY <1>3, SameTransactions DEF R!Submit, R!registrationVars
  <2>2. pc'[r] = "start" /\ Alone
    BY <1>0, <2>1, StepsTo, StepsAside
  <2>3. QED
    BY <1>1, <1>2, <2>1, <2>2 DEF KeyStep, NameStep, NameSteps
<1>4. CASE R!ValidateForm(r)
  <2>1. /\ users' = users
        /\ \/ Continue(r, "begin") /\ R!WellFormed(form[r])
           \/ Return(r, "invalid_form")
    BY <1>4, SameTransactions DEF R!ValidateForm, R!registrationVars
  <2>2. /\ \/ pc'[r] = "begin" /\ R!WellFormed(form[r])
           \/ pc'[r] = "done"
        /\ Alone
    BY <1>0, <2>1, StepsTo, StepsAside
  <2>3. QED
    BY <1>1, <1>2, <2>1, <2>2 DEF KeyStep, NameStep, NameSteps
<1>5. CASE R!BeginRegistration(r)
  <2>1. BeginTx(r, "createUser") /\ users' = users
    BY <1>5, SameTransactions DEF R!BeginRegistration, R!registrationVars
  <2>2. pc[r] = "begin" /\ pc'[r] = "createUser" /\ Alone
    BY <1>0, <2>1, StepsTo, StepsAside
  <2>3. QED
    BY <1>1, <1>2, <2>1, <2>2 DEF KeyStep, NameStep, NameSteps
<1>6. CASE R!CreateUser(r)
  <2>1. /\ pc[r] = "createUser" /\ users' = users
        /\ \A s \in Registrant : ~R!HoldsName(s, r)
        /\ \/ RollbackTx(r, "conflict")
           \/ ~R!Taken(r) /\ Continue(r, "usdSystem")
    BY <1>6, SameTransactions DEF R!CreateUser, R!registrationVars
  <2>2. (pc'[r] = "done" \/ ~R!Taken(r)) /\ Alone
    BY <1>0, <2>1, StepsTo, StepsAside
  <2>3. Named /\ Formed
    BY <2>1, <2>2 DEF NameSteps, R!Taken
  <2>4. QED
    BY <1>1, <1>2, <2>1, <2>2, <2>3 DEF KeyStep, NameStep
<1>7. CASE \/ R!FindSystemAccount(r) \/ R!AdjustBalance(r) \/ R!HasAnyAdmin(r)
           \/ R!CommitRegistration(r)
  <2>1. pc[r] \in NameSteps
    BY <1>7 DEF NameSteps, R!FindSystemAccount, R!AdjustBalance, R!HasAnyAdmin,
       R!CommitRegistration
  <2>2. /\ \/ \E where : Continue(r, where)
           \/ \E a, next : GetForUpdate(r, a, next)
           \/ \E error : RollbackTx(r, error)
           \/ \E written, staged : CommitTx(r, written, staged)
        /\ \/ users' = users
           \/ users' = users \cup {r} /\ pc'[r] = "done"
    <3>1. CASE R!CommitRegistration(r)
      <4>1. PICK written, staged : CommitTx(r, written, staged)
        BY <3>1, SameTransactions DEF R!CommitRegistration
      <4>2. pc'[r] = "done"
        BY <1>0, <4>1, StepsTo
      <4>3. QED
        BY <3>1, <4>1, <4>2 DEF R!CommitRegistration
    <3>2. CASE ~R!CommitRegistration(r)
      BY <1>7, <3>2, SameTransactions DEF R!FindSystemAccount, R!AdjustBalance,
         R!HasAnyAdmin, R!registrationVars
    <3>3. QED
      BY <3>1, <3>2
  <2>3. Alone
    BY <1>0, <2>2, StepsAside
  <2>4. QED
    BY <1>1, <1>2, <2>1, <2>2, <2>3 DEF KeyStep, NameStep, NameSteps
<1>8. CASE R!SerializeRegistration(r) \/ R!AbandonRegistration(r)
  <2>1. /\ users' = users
        /\ \/ RetryTx(r) /\ pc[r] \in {"createUser"} \cup NameSteps
           \/ RollbackTx(r, "failed")
    BY <1>8, SameTransactions
    DEF R!SerializeRegistration, R!RetryRegistration, R!AbandonRegistration,
        R!registrationVars, NameSteps
  <2>2. /\ Alone
        /\ \/ pc'[r] = "done"
           \/ pc'[r] = "begin" /\ pc[r] \in {"createUser"} \cup NameSteps
    BY <1>0, <2>1, StepsTo, StepsAside
  <2>3. QED
    BY <1>1, <1>2, <2>1, <2>2 DEF KeyStep, NameStep, NameSteps
<1>9. QED
  BY <1>3, <1>4, <1>5, <1>6, <1>7, <1>8 DEF Registers, R!Register

LEMMA DeadlockKeyStep ==
  ASSUME BackendInv, NEW r \in Request, BackendDeadlock(r)
  PROVE  KeyStep(r) /\ NameStep(r)
<1>1. /\ \E s \in Request : BackendWaitsFor(r, s)
      /\ RetryTx(r)
      /\ UNCHANGED <<req, tables, newcomerVars>>
  BY DEF BackendDeadlock, BackendCycle
<1>2. /\ pc'[r] \in {"begin", "done"}
      /\ \A s \in Request \ {r} : pc'[s] = pc[s]
  BY <1>1, StepsTo, StepsAside
<1>3. r \in Registrant => pc[r] \notin {"idle", "start", "done"}
  BY <1>1 DEF BackendWaitsFor, R!RegistrationWaitsFor
<1>4. QED
  BY <1>1, <1>2, <1>3 DEF KeyStep, NameStep, NameSteps, tables, newcomerVars

LEMMA InitSerialInv == BackendInit => SerialInv
<1> SUFFICES ASSUME BackendInit
             PROVE  SerialInv
  OBVIOUS
<1>1. pc = [r \in Request |-> "idle"]
  BY DEF BackendInit, Init, TxInit
<1>2. QED
  BY <1>1, InitBackendInv, NewcomerTypes
     DEF SerialInv, KeysAlone, NamesAlone, NameSteps

LEMMA StepSerialInv == SerialInv /\ [BackendNext]_backendVars => SerialInv'
<1> SUFFICES ASSUME SerialInv, [BackendNext]_backendVars
             PROVE  SerialInv'
  OBVIOUS
<1>1. BackendInv /\ BackendInv'
  BY StepBackendInv DEF SerialInv
<1>2. CASE \E r \in Request : KeyStep(r) /\ NameStep(r)
  BY <1>1, <1>2, KeysAloneStep, NamesAloneStep DEF SerialInv
<1>3. CASE UNCHANGED backendVars
  <2>1. /\ UNCHANGED <<pc, req, transactions, form, users>>
        /\ \A s, t : R!SameUser(s, t)' <=> R!SameUser(s, t)
        /\ \A t : R!WellFormed(form[t])' <=> R!WellFormed(form[t])
    BY <1>3 DEF backendVars, vars, txVars, newcomerVars, R!SameUser, R!WellFormed
  <2>2. QED
    BY <1>1, <2>1 DEF SerialInv, KeysAlone, NamesAlone, Duplicate, HoldsKey, NameSteps
<1>4. QED
  BY <1>1, <1>2, <1>3, MovesKeyStep, RegistersKeyStep, DeadlockKeyStep,
     NewcomerTypes DEF BackendNext

LEMMA SerialInvariance == BackendSpec => []SerialInv
BY InitSerialInv, StepSerialInv, PTL DEF BackendSpec

----------------------------------------------------------------------------
(***************************************************************************)
(* Idempotence beside registrations: a row is posted by a request that has  *)
(* returned, and a request returns once.                                    *)
(***************************************************************************)

PostedOnce ==
  /\ OncePerKey
  /\ OncePerRequest
  /\ \A row \in transactions : row.request \in Request /\ pc[row.request] = "done"

\* A request that has returned takes no step.
LEMMA ReturnedRests ==
  ASSUME NEW r \in Request, pc[r] = "done"
  PROVE  /\ ~Moves(r) /\ ~SerializeMove(r)
         /\ ~Registers(r)
         /\ ~BackendDeadlock(r)
<1>1. ~Moves(r) /\ ~SerializeMove(r)
  BY DEF Moves, SerializeMove, Arrive, Validate, Begin, BeginTx, Lock, LockSteps,
         MissingRow, Check, SystemIds, Cover, Insert, Consume, Commit, Abandon,
         SerializationFailure
<1>2. ~Registers(r)
  BY SameTransactions
     DEF Registers, R!Submit, R!Register, R!ValidateForm, R!BeginRegistration, BeginTx,
         R!CreateUser, R!FindSystemAccount, R!AdjustBalance, R!HasAnyAdmin,
         R!CommitRegistration, R!SerializeRegistration, R!AbandonRegistration
<1>3. \A s \in Request : ~BackendWaitsFor(r, s)
  BY DEF BackendWaitsFor, WaitsFor, LockSteps, R!RegistrationWaitsFor
<1>4. ~BackendDeadlock(r)
  BY <1>3 DEF BackendDeadlock, BackendCycle
<1>5. QED
  BY <1>1, <1>2, <1>4

\* A step of one request adds at most a row of its own, whose key no row has.
LEMMA PostedOnceStep ==
  ASSUME BackendInv, KeysAlone, PostedOnce, NEW r \in Request, KeyStep(r),
         pc[r] # "done"
  PROVE  PostedOnce'
<1>1. \A row \in transactions :
        /\ row.request \in Request \ {r}
        /\ pc[row.request] = "done" /\ pc'[row.request] = "done"
  BY DEF PostedOnce, KeyStep
<1>2. CASE transactions' = transactions
  BY <1>1, <1>2 DEF PostedOnce, OncePerKey, OncePerRequest
<1>3. CASE transactions' # transactions
  <2> DEFINE new == RowOf(r)
  <2>1. /\ transactions' = transactions \cup {new}
        /\ pc[r] = "commit" /\ pc'[r] = "done"
    BY <1>3 DEF KeyStep
  <2>2. r \in Mover
    <3>1. r \in Registrant => RegistrantSound(r)
      BY DEF BackendInv
    <3>2. QED
      BY <2>1, <3>1 DEF Mover, RegistrantSound, Outside, R!RegistrationSteps
  <2>3. ~Duplicate(r)
    BY <2>1, <2>2 DEF KeysAlone
  <2>4. /\ new.request = r
        /\ \A row \in transactions :
             /\ row.request # new.request
             /\ ~SameKey(row.in, new.in) /\ ~SameKey(new.in, row.in)
    BY <1>1, <2>3 DEF Duplicate, SameKey, RowOf
  <2> HIDE DEF new
  <2>5. OncePerKey' /\ OncePerRequest'
    BY <2>1, <2>4 DEF PostedOnce, OncePerKey, OncePerRequest
  <2>6. \A row \in transactions' :
          row.request \in Request /\ pc'[row.request] = "done"
    BY <1>1, <2>1, <2>4
  <2>7. QED
    BY <2>5, <2>6 DEF PostedOnce
<1>4. QED
  BY <1>2, <1>3

LEMMA PostedOnceInvariance == BackendSpec => []PostedOnce
<1>1. BackendInit => PostedOnce
  BY DEF BackendInit, Init, PostedOnce, OncePerKey, OncePerRequest
<1>2. SerialInv /\ PostedOnce /\ [BackendNext]_backendVars => PostedOnce'
  <2> SUFFICES ASSUME SerialInv, PostedOnce, [BackendNext]_backendVars
               PROVE  PostedOnce'
    OBVIOUS
  <2>1. BackendInv /\ BackendInv' /\ KeysAlone
    BY StepBackendInv DEF SerialInv
  <2>2. CASE \E r \in Request : KeyStep(r) /\ pc[r] # "done"
    BY <2>1, <2>2, PostedOnceStep
  <2>3. CASE UNCHANGED backendVars
    BY <2>3 DEF backendVars, vars, txVars, PostedOnce, OncePerKey, OncePerRequest
  <2>4. QED
    BY <2>1, <2>2, <2>3, MovesKeyStep, RegistersKeyStep, DeadlockKeyStep,
       ReturnedRests, NewcomerTypes DEF BackendNext
<1>3. QED
  BY <1>1, <1>2, SerialInvariance, PTL DEF BackendSpec

\* transaction_service.go:147, 407: with registrations on the same database, a
\* user's idempotency key is still in one row only.
THEOREM KeysBesideNewcomers == BackendSpec => []OncePerKey
<1>1. PostedOnce => OncePerKey
  BY DEF PostedOnce
<1>2. QED
  BY <1>1, PostedOnceInvariance, PTL

\* transaction_service.go:146, 402: WithTx makes a new id in every attempt, also
\* in those that a deadlock with a registration forces on an exchange, and still
\* no request is posted by two of its attempts.
THEOREM PostingsBesideNewcomers == BackendSpec => []OncePerRequest
<1>1. PostedOnce => OncePerRequest
  BY DEF PostedOnce
<1>2. QED
  BY <1>1, PostedOnceInvariance, PTL

----------------------------------------------------------------------------
(***************************************************************************)
(* Unique names beside transfers and exchanges: a registrant joins with a   *)
(* name no user has, and hears of a conflict when a user has it.            *)
(***************************************************************************)

NamesTold == /\ R!NamesUnique
             /\ \A r \in Registrant : answer[r] # "none" => pc[r] = "done"

\* What the step of a request may tell it, and whom it may add.
Tells(r) ==
  /\ \A s \in Request \ {r} : answer'[s] = answer[s]
  /\ r \in Registrant =>
       \/ /\ users' = users
          /\ \/ answer'[r] = answer[r]
             \/ answer'[r] \in {"failed", "invalid_form"}
             \/ answer'[r] = "conflict" /\ R!Taken(r)
          /\ answer'[r] # answer[r] => pc'[r] = "done"
       \/ /\ users' = users \cup {r}
          /\ answer'[r] \in {"ok", "failed"} /\ pc'[r] = "done"

\* What the transaction steps of one request tell.
LEMMA StepsTell ==
  ASSUME BackendInv, NEW r \in Request
  PROVE  /\ \A where : Continue(r, where) => answer' = answer
         /\ \A first : BeginTx(r, first) => answer' = answer
         /\ \A a, next : GetForUpdate(r, a, next) => answer' = answer
         /\ \A error : Return(r, error) \/ RollbackTx(r, error) =>
              /\ answer'[r] = error /\ pc'[r] = "done"
              /\ \A s \in Request \ {r} : answer'[s] = answer[s]
         /\ RetryTx(r) =>
              /\ \/ answer' = answer
                 \/ answer'[r] = "failed" /\ pc'[r] = "done"
              /\ \A s \in Request \ {r} : answer'[s] = answer[s]
         /\ \A written, staged : CommitTx(r, written, staged) =>
              /\ answer'[r] \in {"ok", "failed"} /\ pc'[r] = "done"
              /\ \A s \in Request \ {r} : answer'[s] = answer[s]
BY DEF BackendInv, TxInv, TxTypeOK, Continue, Return, BeginTx, GetForUpdate,
       RollbackTx, RetryTx, RetryLimitError, CommitTx, Goto

LEMMA MovesTell ==
  ASSUME BackendInv, NEW r \in Mover, Moves(r) \/ SerializeMove(r)
  PROVE  Tells(r)
<1>1. \/ \E where : Continue(r, where)
      \/ \E error : Return(r, error)
      \/ \E first : BeginTx(r, first)
      \/ \E a, next : GetForUpdate(r, a, next)
      \/ \E error : RollbackTx(r, error)
      \/ RetryTx(r)
      \/ \E written, staged : CommitTx(r, written, staged)
  BY DEF Moves, SerializeMove, Arrive, Validate, Begin, Lock, MissingRow, Check,
         SystemIds, Cover, Insert, Consume, Commit, Abandon, SerializationFailure
<1>2. QED
  BY <1>1, StepsTell, NewcomerTypes DEF Tells

LEMMA RegistersTell ==
  ASSUME BackendInv, NEW r \in Registrant, Registers(r)
  PROVE  Tells(r)
<1>0. r \in Request
  BY NewcomerTypes
<1>1. CASE \/ R!Submit(r) \/ R!BeginRegistration(r) \/ R!FindSystemAccount(r)
           \/ R!HasAnyAdmin(r)
  <2>1. /\ users' = users
        /\ \/ \E where : Continue(r, where)
           \/ \E first : BeginTx(r, first)
    BY <1>1, SameTransactions
    DEF R!Submit, R!BeginRegistration, R!FindSystemAccount, R!HasAnyAdmin,
        R!registrationVars
  <2>2. QED
    BY <1>0, <2>1, StepsTell DEF Tells
<1>2. CASE \/ R!ValidateForm(r) \/ R!AdjustBalance(r) \/ R!SerializeRegistration(r)
           \/ R!AbandonRegistration(r)
  <2>1. /\ users' = users
        /\ \/ \E where : Continue(r, where)
           \/ Return(r, "invalid_form")
           \/ \E a, next : GetForUpdate(r, a, next)
           \/ RollbackTx(r, "failed")
           \/ RetryTx(r)
    BY <1>2, SameTransactions
    DEF R!ValidateForm, R!AdjustBalance, R!SerializeRegistration, R!RetryRegistration,
        R!AbandonRegistration, R!registrationVars
  <2>2. QED
    BY <1>0, <2>1, StepsTell DEF Tells
<1>3. CASE R!CreateUser(r)
  <2>1. /\ users' = users
        /\ \/ \E where : Continue(r, where)
           \/ R!Taken(r) /\ RollbackTx(r, "conflict")
    BY <1>3, SameTransactions DEF R!CreateUser, R!registrationVars
  <2>2. QED
    BY <1>0, <2>1, StepsTell DEF Tells
<1>4. CASE R!CommitRegistration(r)
  <2>1. PICK written, staged : CommitTx(r, written, staged)
    BY <1>4, SameTransactions DEF R!CommitRegistration
  <2>2. users' = users \cup {r}
    BY <1>4 DEF R!CommitRegistration
  <2>3. QED
    BY <1>0, <2>1, <2>2, StepsTell DEF Tells
<1>5. QED
  BY <1>1, <1>2, <1>3, <1>4 DEF Registers, R!Register

LEMMA DeadlockTells ==
  ASSUME BackendInv, NEW r \in Request, BackendDeadlock(r)
  PROVE  Tells(r)
BY StepsTell DEF BackendDeadlock, newcomerVars, Tells

LEMMA NamesToldStep ==
  ASSUME BackendInv, NamesAlone, NamesTold, NEW r \in Request, NameStep(r), Tells(r),
         pc[r] # "done"
  PROVE  NamesTold'
<1>1. /\ \A s, t : R!SameUser(s, t)' <=> R!SameUser(s, t)
      /\ \A s, t : R!SameUser(s, t) <=> R!SameUser(t, s)
      /\ Registrant \subseteq Request
  BY NewcomerTypes DEF NameStep, R!SameUser
<1>2. /\ \A s \in Registrant \ {r} : pc'[s] = pc[s] /\ answer'[s] = answer[s]
      /\ users \subseteq users' /\ users' \subseteq users \cup {r}
      /\ r \notin Registrant => users' = users
  BY <1>1 DEF NameStep, Tells
<1>3. r \in Registrant => r \notin users /\ answer[r] = "none"
  BY DEF BackendInv, RegistrantSound, NamesTold
<1>4. \A s : R!Taken(s) => R!Taken(s)'
  BY <1>1, <1>2 DEF R!Taken
<1>5. \A s, t \in users' : R!SameUser(s, t) => s = t
  <2>1. \A s, t \in users : R!SameUser(s, t) => s = t
    BY DEF NamesTold, R!NamesUnique
  <2>2. r \in users' \ users => \A s \in users : ~R!SameUser(s, r)
    BY DEF NameStep, NamesAlone
  <2>3. QED
    BY <1>1, <1>2, <2>1, <2>2
<1>6. ASSUME NEW s \in Registrant
      PROVE  /\ answer'[s] = "ok" => s \in users'
             /\ answer'[s] \in {"conflict", "invalid_form"} => s \notin users'
             /\ answer'[s] = "conflict" => R!Taken(s)'
             /\ answer'[s] # "none" => pc'[s] = "done"
  <2>1. CASE s # r
    <3>1. /\ answer[s] = "ok" => s \in users
          /\ answer[s] \in {"conflict", "invalid_form"} => s \notin users
          /\ answer[s] = "conflict" => R!Taken(s)
          /\ answer[s] # "none" => pc[s] = "done"
      BY DEF NamesTold, R!NamesUnique
    <3>2. QED
      BY <1>2, <1>4, <2>1, <3>1
  <2>2. CASE s = r
    BY <1>3, <1>4, <2>2 DEF Tells
  <2>3. QED
    BY <2>1, <2>2
<1>7. R!NamesUnique'
  BY <1>1, <1>5, <1>6 DEF R!NamesUnique
<1>8. QED
  BY <1>6, <1>7 DEF NamesTold

\* auth.go:50: with transfers and exchanges on the same database, no two users
\* share a username or an email, and the answers of Register say the truth about
\* that.
THEOREM NamesBesideMovers == BackendSpec => []R!NamesUnique
<1>1. BackendInit => NamesTold
  <2> SUFFICES ASSUME BackendInit
               PROVE  NamesTold
    OBVIOUS
  <2>1. users = {} /\ answer = [r \in Request |-> "none"]
    BY DEF BackendInit, Init, TxInit, R!RegistrationInit
  <2>2. QED
    BY <2>1, NewcomerTypes DEF NamesTold, R!NamesUnique
<1>2. SerialInv /\ NamesTold /\ [BackendNext]_backendVars => NamesTold'
  <2> SUFFICES ASSUME SerialInv, NamesTold, [BackendNext]_backendVars
               PROVE  NamesTold'
    OBVIOUS
  <2>1. BackendInv /\ BackendInv' /\ NamesAlone
    BY StepBackendInv DEF SerialInv
  <2>2. CASE \E r \in Request : NameStep(r) /\ Tells(r) /\ pc[r] # "done"
    BY <2>1, <2>2, NamesToldStep
  <2>3. CASE UNCHANGED backendVars
    <3>1. UNCHANGED <<pc, answer, form, users>>
      BY <2>3 DEF backendVars, vars, txVars, newcomerVars
    <3>2. QED
      BY <3>1 DEF NamesTold, R!NamesUnique, R!Taken, R!SameUser
  <2>4. CASE \E r \in Mover : Moves(r) \/ SerializeMove(r)
    BY <2>1, <2>2, <2>4, MovesKeyStep, MovesTell, ReturnedRests, NewcomerTypes
  <2>5. CASE \E r \in Registrant : Registers(r)
    BY <2>1, <2>2, <2>5, RegistersKeyStep, RegistersTell, ReturnedRests, NewcomerTypes
  <2>6. CASE \E r \in Request : BackendDeadlock(r)
    BY <2>1, <2>2, <2>6, DeadlockKeyStep, DeadlockTells, ReturnedRests
  <2>7. QED
    BY <2>3, <2>4, <2>5, <2>6 DEF BackendNext
<1>3. NamesTold => R!NamesUnique
  BY DEF NamesTold
<1>4. QED
  BY <1>1, <1>2, <1>3, SerialInvariance, PTL DEF BackendSpec

----------------------------------------------------------------------------
(* The steps of OpenBank. *)

\* OpenBank computes, moves and checks as Bank does.
LEMMA SamePostings ==
  ASSUME NEW id, NEW i, B!PostTransfer(id, i) \/ B!PostExchange(id, i)
  PROVE  O!PostTransfer(id, i) \/ O!PostExchange(id, i)
<1>1. O!FixedUSDEURRate = B!FixedUSDEURRate /\ O!RateScale = B!RateScale
  BY DEF O!FixedUSDEURRate, B!FixedUSDEURRate, O!RateScale, B!RateScale
<1>2. \A n, d : O!RoundBank(n, d) = B!RoundBank(n, d)
  BY DEF O!RoundBank, B!RoundBank
<1>3. O!InverseRate = B!InverseRate
  BY <1>1, <1>2 DEF O!InverseRate, B!InverseRate
<1>4. /\ \A c, d : O!ExchangePairAllowed(c, d) <=> B!ExchangePairAllowed(c, d)
      /\ \A c, d : O!DirectionalRate(c, d) = B!DirectionalRate(c, d)
      /\ \A n, rate : O!ConvertMinor(n, rate) = B!ConvertMinor(n, rate)
  BY <1>1, <1>2, <1>3
  DEF O!ExchangePairAllowed, B!ExchangePairAllowed, O!DirectionalRate,
      B!DirectionalRate, O!ConvertMinor, B!ConvertMinor
<1>5. /\ \A f, a, b, n : O!Move(f, a, b, n) = B!Move(f, a, b, n)
      /\ \A j : O!Covers(j) <=> B!Covers(j)
      /\ \A j : O!Unprocessed(j) <=> B!Unprocessed(j)
      /\ O!Unposted(id) <=> B!Unposted(id)
  BY DEF O!Move, B!Move, O!Add, B!Add, O!Covers, B!Covers, O!Unposted,
         B!Unposted, O!Unprocessed, B!Unprocessed, O!SameKey, B!SameKey
<1>6. B!PostTransfer(id, i) => O!PostTransfer(id, i)
  BY <1>5 DEF O!PostTransfer, B!PostTransfer
<1>7. B!PostExchange(id, i) => O!PostExchange(id, i)
  BY <1>4, <1>5 DEF O!PostExchange, B!PostExchange
<1>8. QED
  BY <1>6, <1>7

\* The commit of a mover posts its request, among accounts that exist.
LEMMA CommitIsPost ==
  ASSUME SerialInv, PostedOnce, ExchangeTargetsUsers, NEW r \in Mover, Commit(r),
         UNCHANGED newcomerVars
  PROVE  O!OpenBankNext
<1>1. /\ BackendInv /\ Sound(r) /\ r \in Request
      /\ pc[r] = "commit" /\ pc[r] \in Decided
  BY MoverIsSound DEF SerialInv, Commit, Decided, Writing
<1>2. ~Duplicate(r) /\ \A row \in transactions : row.request # r
  BY <1>1 DEF SerialInv, KeysAlone, PostedOnce
<1>3. req[r].quote \notin Consumed
  BY <1>1 DEF BackendInv, Consumed, NoRow
<1>4. PICK i : i = req[r]
  OBVIOUS
<1>5. i \in Input /\ (O!PostTransfer(r, i) \/ O!PostExchange(r, i))
  BY <1>1, <1>2, <1>3, <1>4, CommitPosts, SamePostings
<1>6. {i.from, i.to} \cap O!Unopened = {}
  <2>1. i.from \in Existing /\ i.to \in Existing
    BY <1>1, <1>4, WrittenExists
  <2>2. \A a \in O!Unopened : a \notin Existing
    BY ExistingRows DEF O!Unopened, O!Currency
  <2>3. QED
    BY <2>1, <2>2
<1>7. O!Post(r, i)
  BY <1>5, <1>6 DEF O!Post, newcomerVars
<1>8. QED
  BY <1>1, <1>5, <1>7 DEF O!OpenBankNext

\* The opening balances are moved one currency after the other.
LEMMA OpeningOpens ==
  ASSUME NEW r \in Registrant, NEW f \in [Account -> Int]
  PROVE  R!Opening(r, f) = O!Open(r, "EUR", O!Open(r, "USD", f))
<1>1. /\ SystemAccount["USD"] \in Account /\ SystemAccount["EUR"] \in Account
      /\ NewAccount[r]["USD"] \in Account /\ NewAccount[r]["EUR"] \in Account
      /\ OpeningAmount["USD"] \in Int /\ OpeningAmount["EUR"] \in Int
      /\ SystemAccount["USD"] # SystemAccount["EUR"]
      /\ NewAccount[r]["USD"] # NewAccount[r]["EUR"]
      /\ SystemAccount["USD"] # NewAccount[r]["USD"]
      /\ SystemAccount["USD"] # NewAccount[r]["EUR"]
      /\ SystemAccount["EUR"] # NewAccount[r]["USD"]
      /\ SystemAccount["EUR"] # NewAccount[r]["EUR"]
  <2>1. /\ SystemAccount["USD"] \in Account /\ SystemAccount["EUR"] \in Account
        /\ OpeningAmount["USD"] \in Int /\ OpeningAmount["EUR"] \in Int
        /\ SystemAccount["USD"] # SystemAccount["EUR"]
    BY NewcomerTypes
  <2>2. /\ NewAccount[r]["USD"] \in Account /\ NewAccount[r]["EUR"] \in Account
        /\ NewAccount[r]["USD"] # NewAccount[r]["EUR"]
        /\ R!SystemAccounts = {SystemAccount["USD"], SystemAccount["EUR"]}
        /\ R!Opened(r) = {NewAccount[r]["USD"], NewAccount[r]["EUR"]}
        /\ R!Opened(r) \cap R!SystemAccounts = {}
    BY NewcomerTypes, Zenon
  <2>3. /\ SystemAccount["USD"] \notin R!Opened(r)
        /\ SystemAccount["EUR"] \notin R!Opened(r)
    BY <2>2
  <2>4. QED
    BY <2>1, <2>2, <2>3
<1>2. ASSUME NEW c \in {"USD", "EUR"}, NEW g \in [Account -> Int]
      PROVE  /\ O!Open(r, c, g) \in [Account -> Int]
             /\ O!Open(r, c, g)[SystemAccount[c]] = g[SystemAccount[c]] - OpeningAmount[c]
             /\ O!Open(r, c, g)[NewAccount[r][c]] = g[NewAccount[r][c]] + OpeningAmount[c]
             /\ \A a \in Account : a # SystemAccount[c] /\ a # NewAccount[r][c] =>
                  O!Open(r, c, g)[a] = g[a]
  <2> DEFINE s == SystemAccount[c]
             n == NewAccount[r][c]
             m == OpeningAmount[c]
  <2>1. s \in Account /\ n \in Account /\ s # n /\ m \in Int
    BY <1>1
  <2>2. O!Open(r, c, g) = [[g EXCEPT ![s] = @ + -m] EXCEPT ![n] = @ + m]
    BY DEF O!Open, O!Move, O!Add
  <2> HIDE DEF s, n, m
  <2>3. /\ O!Open(r, c, g) \in [Account -> Int]
        /\ O!Open(r, c, g)[s] = g[s] - m
        /\ O!Open(r, c, g)[n] = g[n] + m
        /\ \A a \in Account : a # s /\ a # n => O!Open(r, c, g)[a] = g[a]
    BY <2>1, <2>2
  <2>4. QED
    BY <2>3 DEF s, n, m
<1> DEFINE u == O!Open(r, "USD", f)
           o == O!Open(r, "EUR", u)
<1>3. u \in [Account -> Int]
  BY <1>2
<1>4. o \in [Account -> Int]
  BY <1>2, <1>3
<1>5. /\ u[SystemAccount["USD"]] = f[SystemAccount["USD"]] - OpeningAmount["USD"]
      /\ u[NewAccount[r]["USD"]] = f[NewAccount[r]["USD"]] + OpeningAmount["USD"]
      /\ \A a \in Account : a # SystemAccount["USD"] /\ a # NewAccount[r]["USD"] =>
           u[a] = f[a]
  BY <1>2
<1> HIDE DEF u
<1>6. /\ o[SystemAccount["EUR"]] = u[SystemAccount["EUR"]] - OpeningAmount["EUR"]
      /\ o[NewAccount[r]["EUR"]] = u[NewAccount[r]["EUR"]] + OpeningAmount["EUR"]
      /\ \A a \in Account : a # SystemAccount["EUR"] /\ a # NewAccount[r]["EUR"] =>
           o[a] = u[a]
  BY <1>2, <1>3
<1> HIDE DEF o
<1>7. \A a \in Account : R!Opening(r, f)[a] = o[a]
  BY <1>1, <1>5, <1>6, OpeningMoves
<1>8. R!Opening(r, f) \in [Account -> Int]
  BY OpeningMoves
<1>9. QED
  BY <1>4, <1>7, <1>8 DEF o, u

\* The commit of a registration is a new user's joining.
LEMMA CommitIsJoin ==
  ASSUME SerialInv, NEW r \in Registrant, R!CommitRegistration(r),
         UNCHANGED <<req, transactions, quotes, seen>>
  PROVE  O!OpenBankNext
<1>1. /\ BackendInv /\ pc[r] = "commitUser" /\ r \in Request
      /\ balance \in [Account -> Int] /\ ledger \in [Account -> Int]
      /\ snapshot[r] \in [Account -> Int]
  BY NewcomerTypes
  DEF SerialInv, R!CommitRegistration, BackendInv, TxInv, TxTypeOK, TablesOK
<1>2. /\ \A a \in R!Adjusted(r) : snapshot[r][a] = balance[a]
      /\ \A c \in {"USD", "EUR"} : snapshot[r][SystemAccount[c]] >= OpeningAmount[c]
      /\ r \notin users
  BY <1>1, CommitAlone
<1>3. /\ CommitTx(r, R!Adjusted(r), R!Opening(r, snapshot[r]))
      /\ ledger' = R!Opening(r, ledger)
      /\ users' = users \cup {r}
      /\ superAdmins' = IF makesAdmin[r] THEN superAdmins \cup {r} ELSE superAdmins
      /\ form' = form
  BY SameTransactions DEF R!CommitRegistration
<1>4. balance' = R!Opening(r, balance)
  BY <1>1, CommitOpens
<1>5. /\ balance' = O!Open(r, "EUR", O!Open(r, "USD", balance))
      /\ ledger' = O!Open(r, "EUR", O!Open(r, "USD", ledger))
  BY <1>1, <1>3, <1>4, OpeningOpens
<1>6. \A c \in O!Currency : OpeningAmount[c] <= balance[SystemAccount[c]]
  <2>1. ASSUME NEW c \in {"USD", "EUR"}
        PROVE  OpeningAmount[c] <= balance[SystemAccount[c]]
    <3>1. /\ SystemAccount[c] \in Account /\ SystemAccount[c] \in R!Adjusted(r)
          /\ OpeningAmount[c] \in Int
      BY <1>1, OpeningMoves, NewcomerTypes
    <3>2. QED
      BY <1>1, <1>2, <3>1
  <2>2. QED
    BY <2>1 DEF O!Currency
<1>7. O!Free(form[r])
  BY <1>1 DEF SerialInv, NamesAlone, NameSteps, R!SameUser, R!WellFormed, O!Free
<1>8. superAdmins' = IF users = {} THEN {r} ELSE superAdmins
  <2>1. makesAdmin[r] <=> superAdmins = {}
    BY <1>1 DEF BackendInv, RegistrantSound
  <2>2. users = {} <=> superAdmins = {}
    BY <1>1 DEF BackendInv, RegisteredTogether
  <2>3. QED
    BY <1>3, <2>1, <2>2
<1>9. UNCHANGED <<Postings, Consumed>>
  BY DEF Postings, Consumed
<1>10. O!Join(r)
  BY <1>2, <1>3, <1>5, <1>6, <1>7, <1>8, <1>9 DEF O!Join
<1>11. QED
  BY <1>10 DEF O!OpenBankNext

\* Registrations, transfers and exchanges are atomic and serializable together,
\* as long as no exchange pays into a system account: a registration sees the
\* admins and the system accounts as they are when it commits, and nobody moves
\* money of an account before it is open.
THEOREM SerializabilityBesideNewcomers ==
  ASSUME ExchangeTargetsUsers
  PROVE  BackendSpec => ImplementsOpenBank
<1>1. BackendInit => O!OpenBankInit
  BY DEF BackendInit, Init, TxInit, NoRow, R!RegistrationInit, O!OpenBankInit, O!BankInit,
     Postings, Consumed
<1>2. SerialInv /\ PostedOnce /\ [BackendNext]_backendVars
        => [O!OpenBankNext]_(O!openBankVars)
  <2> SUFFICES ASSUME SerialInv, PostedOnce, [BackendNext]_backendVars
               PROVE  O!OpenBankNext \/ UNCHANGED O!openBankVars
    OBVIOUS
  <2>0. BackendInv
    BY DEF SerialInv
  <2>1. ASSUME NEW r \in Mover, Moves(r) \/ SerializeMove(r)
        PROVE  O!OpenBankNext \/ UNCHANGED O!openBankVars
    <3>1. CASE Commit(r)
      BY <2>1, <3>1, CommitIsPost DEF Moves, SerializeMove
    <3>2. CASE ~Commit(r)
      <4>1. UNCHANGED <<balance, tables, form, users, superAdmins>>
        BY <2>0, <2>1, <3>2, MovesQuiet DEF Quiet, Moves, SerializeMove, newcomerVars
      <4>2. QED
        BY <4>1 DEF tables, O!openBankVars, O!bankVars, Postings, Consumed
    <3>3. QED
      BY <3>1, <3>2
  <2>2. ASSUME NEW r \in Registrant, Registers(r)
        PROVE  O!OpenBankNext \/ UNCHANGED O!openBankVars
    <3>1. CASE R!CommitRegistration(r)
      BY <2>2, <3>1, CommitIsJoin DEF Registers
    <3>2. CASE ~R!CommitRegistration(r)
      <4>1. UNCHANGED <<balance, ledger, transactions, quotes, form, users, superAdmins>>
        BY <2>2, <3>2, SameTransactions
        DEF Registers, R!Submit, R!Register, R!AbandonRegistration, R!ValidateForm,
            R!BeginRegistration, R!CreateUser, R!FindSystemAccount, R!AdjustBalance,
            R!HasAnyAdmin, R!SerializeRegistration, R!RetryRegistration,
            R!registrationVars, Continue, Return, BeginTx, GetForUpdate, RollbackTx,
            RetryTx
      <4>2. QED
        BY <4>1 DEF O!openBankVars, O!bankVars, Postings, Consumed
    <3>3. QED
      BY <3>1, <3>2
  <2>3. ASSUME NEW r \in Request, BackendDeadlock(r)
        PROVE  UNCHANGED O!openBankVars
    BY <2>3 DEF BackendDeadlock, RetryTx, tables, newcomerVars, O!openBankVars, O!bankVars,
                Postings, Consumed
  <2>4. CASE UNCHANGED backendVars
    BY <2>4 DEF backendVars, vars, txVars, newcomerVars, O!openBankVars, O!bankVars,
                Postings, Consumed
  <2>5. QED
    BY <2>1, <2>2, <2>3, <2>4 DEF BackendNext
<1>3. QED
  BY <1>1, <1>2, SerialInvariance, PostedOnceInvariance, PTL
  DEF BackendSpec, ImplementsOpenBank, O!OpenBankSpec

=============================================================================
