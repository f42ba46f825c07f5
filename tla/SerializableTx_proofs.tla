----------------------- MODULE SerializableTx_proofs -----------------------
(***************************************************************************)
(* What SerializableTx guarantees to the services that extend it, whatever  *)
(* they do between its steps: rows are locked by one transaction at a time, *)
(* and a locked row still has the balance the transaction's snapshot shows. *)
(* TxInv is inductive; there is one lemma per step of the module.           *)
(***************************************************************************)
EXTENDS SerializableTx, TLAPS

\* Which positions and answers there are is for the service to say.
TxTypeOK ==
  /\ pc = [r \in Request |-> pc[r]]
  /\ attempt \in [Request -> 1..MaxAttempts]
  /\ answer = [r \in Request |-> answer[r]]
  /\ balance \in [Account -> Int]
  /\ snapshot \in [Request -> [Account -> Int]]
  /\ locked \in [Request -> SUBSET Account]
  /\ missed \in [Request -> SUBSET Account]

\* Only an open transaction holds locks.
LocksInTx == \A r \in Request : ~InTx(r) => locked[r] = {}

\* No row is locked twice.
LocksExclusive ==
  \A r, s \in Request : r # s => locked[r] \cap locked[s] = {}

\* A snapshot differs from the table only in the rows the transaction missed.
SnapshotCurrent ==
  \A r \in Request, a \in Account :
    InTx(r) /\ a \notin missed[r] => snapshot[r][a] = balance[a]

\* A row cannot be missed while it is locked.
LockedCurrent == \A r \in Request : locked[r] \cap missed[r] = {}

TxInv == /\ TxTypeOK
         /\ LocksInTx
         /\ LocksExclusive
         /\ SnapshotCurrent
         /\ LockedCurrent

\* The two constants that the steps reset variables to have the right type.
LEMMA ResetTypes == NoSnapshot \in [Account -> Int] /\ 1 \in 1..MaxAttempts
BY PoolAssumption DEF NoSnapshot

\* The initial state of the transactions satisfies TxInv.
LEMMA TxInitInv ==
  ASSUME NEW initialBalance \in [Account -> Int], TxInit(initialBalance)
  PROVE  TxInv
<1>2. TxTypeOK
  BY ResetTypes DEF TxInit, TxTypeOK
<1>3. \A r \in Request : ~InTx(r) /\ locked[r] = {}
  BY DEF TxInit, InTx, Outside
<1>4. QED
  BY <1>2, <1>3 DEF TxInv, LocksInTx, LocksExclusive, SnapshotCurrent, LockedCurrent

\* A step that only moves pc preserves TxInv, unless it crosses the border of
\* the transaction.
LEMMA ContinueInv ==
  ASSUME TxInv, NEW r \in Request, NEW where, Continue(r, where),
         where \in Outside <=> pc[r] \in Outside
  PROVE  TxInv'
BY DEF Continue, Goto, TxInv, TxTypeOK, LocksInTx, LocksExclusive,
       SnapshotCurrent, LockedCurrent, InTx

\* Returning without a transaction preserves TxInv.
LEMMA ReturnInv ==
  ASSUME TxInv, NEW r \in Request, NEW result, Return(r, result),
         pc[r] \in Outside
  PROVE  TxInv'
BY DEF Return, Goto, TxInv, TxTypeOK, LocksInTx, LocksExclusive,
       SnapshotCurrent, LockedCurrent, InTx, Outside

\* The new snapshot is the table.
LEMMA BeginTxInv ==
  ASSUME TxInv, NEW r \in Request, NEW first, BeginTx(r, first)
  PROVE  TxInv'
BY DEF BeginTx, Goto, TxInv, TxTypeOK, LocksInTx, LocksExclusive,
       SnapshotCurrent, LockedCurrent, InTx, Outside

\* The row that is locked was free and had not been missed.
LEMMA GetForUpdateInv ==
  ASSUME TxInv, NEW r \in Request, NEW a \in Account, NEW next,
         InTx(r), next \notin Outside, GetForUpdate(r, a, next)
  PROVE  TxInv'
<1>1. TxTypeOK' /\ LocksInTx' /\ SnapshotCurrent'
  BY DEF GetForUpdate, Goto, TxInv, TxTypeOK, LocksInTx, SnapshotCurrent, InTx
<1>2. LocksExclusive'
  BY DEF GetForUpdate, HeldByOther, TxInv, TxTypeOK, LocksExclusive
<1>3. LockedCurrent'
  BY DEF GetForUpdate, Outdated, TxInv, TxTypeOK, LockedCurrent
<1>4. QED
  BY <1>1, <1>2, <1>3 DEF TxInv

\* A rollback releases the locks and changes no balance.
LEMMA RollbackTxInv ==
  ASSUME TxInv, NEW r \in Request, NEW error, RollbackTx(r, error)
  PROVE  TxInv'
<1>1. TxTypeOK'
  BY ResetTypes DEF RollbackTx, EndTx, Goto, TxInv, TxTypeOK
<1>2. LocksInTx' /\ LocksExclusive'
  BY DEF RollbackTx, EndTx, Goto, TxInv, TxTypeOK, LocksInTx, LocksExclusive, InTx
<1>3. SnapshotCurrent' /\ LockedCurrent'
  BY DEF RollbackTx, EndTx, Goto, TxInv, TxTypeOK, SnapshotCurrent, LockedCurrent,
         InTx, Outside
<1>4. QED
  BY <1>1, <1>2, <1>3 DEF TxInv

\* So does a retry, which stays within MaxAttempts.
LEMMA RetryTxInv ==
  ASSUME TxInv, NEW r \in Request, RetryTx(r)
  PROVE  TxInv'
BY PoolAssumption, ResetTypes
   DEF RetryTx, EndTx, AttemptsLeft, RetryLimitError, Goto, TxInv,
       TxTypeOK, LocksInTx, LocksExclusive, SnapshotCurrent, LockedCurrent,
       InTx, Outside

\* A commit of rows that no other transaction has locked takes nothing from
\* under the locks of another transaction.
LEMMA CommitUnlockedInv ==
  ASSUME TxInv, NEW r \in Request, NEW written \in SUBSET Account,
         NEW staged \in [Account -> Int],
         \A s \in Request : s # r => written \cap locked[s] = {},
         CommitTx(r, written, staged)
  PROVE  TxInv'
<1>1. TxTypeOK'
  BY ResetTypes DEF CommitTx, EndTx, Goto, TxInv, TxTypeOK
<1>2. LocksInTx' /\ LocksExclusive'
  BY DEF CommitTx, EndTx, Goto, TxInv, TxTypeOK, LocksInTx, LocksExclusive,
         InTx, Outside
<1>3. SnapshotCurrent'
  BY DEF CommitTx, EndTx, Goto, TxInv, TxTypeOK, SnapshotCurrent, InTx, Outside
<1>4. LockedCurrent'
  BY DEF CommitTx, EndTx, TxInv, TxTypeOK, LockedCurrent
<1>5. QED
  BY <1>1, <1>2, <1>3, <1>4 DEF TxInv

\* Rows that the transaction itself has locked are such rows.
LEMMA CommitTxInv ==
  ASSUME TxInv, NEW r \in Request, NEW written \in SUBSET Account,
         NEW staged \in [Account -> Int],
         written \subseteq locked[r], CommitTx(r, written, staged)
  PROVE  TxInv'
<1>1. \A s \in Request : s # r => written \cap locked[s] = {}
  BY DEF TxInv, LocksExclusive
<1>2. QED
  BY <1>1, CommitUnlockedInv

=============================================================================
