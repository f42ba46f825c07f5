--------------------------- MODULE SerializableTx ---------------------------
(***************************************************************************)
(* internal/db/db.go over PostgreSQL: WithTx runs a handler's function in a *)
(* SERIALIZABLE transaction on a pooled connection and runs it again, at    *)
(* most MaxAttempts times in all, when PostgreSQL reports 40001 or 40P01.   *)
(* PostgreSQL itself is external; of it the module keeps what the code      *)
(* relies on for the accounts rows: a transaction sees the balances its     *)
(* snapshot took, SELECT ... FOR UPDATE waits for the row's holder, and a   *)
(* row that another transaction has committed since the snapshot cannot be  *)
(* locked any more, the transaction fails with 40001.                       *)
(*                                                                         *)
(* One request is one HTTP request, served by one goroutine.  pc is where   *)
(* its handler stands; the services that extend this module add their own   *)
(* positions inside a transaction.                                          *)
(***************************************************************************)
EXTENDS Integers, FiniteSets

CONSTANTS
  Request,      \* the HTTP requests
  Account,      \* the rows of the table accounts
  PoolSize,     \* SetMaxOpenConns, 30 in the code
  MaxAttempts   \* maxAttempts of WithTx, 5 in the code

ASSUME PoolAssumption == PoolSize \in Nat /\ MaxAttempts \in Nat \ {0}

VARIABLES
  pc,        \* position of the request's handler
  attempt,   \* WithTx's loop counter
  answer,    \* the error or result the service returned
  balance,   \* accounts.balance, committed
  snapshot,  \* the balances the request's transaction sees
  locked,    \* the rows it holds a FOR UPDATE lock on
  missed     \* the rows others have committed since its snapshot

txVars == <<pc, attempt, answer, balance, snapshot, locked, missed>>

Outside == {"idle", "start", "begin", "done"}

InTx(r) == pc[r] \notin Outside

\* A transaction keeps its connection until it ends.
FreeConns == PoolSize - Cardinality({r \in Request : InTx(r)})

NoSnapshot == [a \in Account |-> 0]

TxInit(initialBalance) ==
  /\ pc = [r \in Request |-> "idle"]
  /\ attempt = [r \in Request |-> 1]
  /\ answer = [r \in Request |-> "none"]
  /\ balance = initialBalance
  /\ snapshot = [r \in Request |-> NoSnapshot]
  /\ locked = [r \in Request |-> {}]
  /\ missed = [r \in Request |-> {}]

----------------------------------------------------------------------------
(* Outside a transaction. *)

Goto(r, where) == pc' = [pc EXCEPT ![r] = where]

\* A step inside the handler that touches no table.
Continue(r, where) ==
  /\ Goto(r, where)
  /\ UNCHANGED <<attempt, answer, balance, snapshot, locked, missed>>

\* The service returns before or instead of a transaction.
Return(r, result) ==
  /\ Goto(r, "done")
  /\ answer' = [answer EXCEPT ![r] = result]
  /\ UNCHANGED <<attempt, balance, snapshot, locked, missed>>

----------------------------------------------------------------------------
(* The transaction. *)

BeginTx(r, first) ==
  /\ pc[r] = "begin"
  /\ FreeConns > 0
  /\ Goto(r, first)
  /\ snapshot' = [snapshot EXCEPT ![r] = balance]
  /\ UNCHANGED <<attempt, answer, balance, locked, missed>>

HeldByOther(r, a) == \E s \in Request \ {r} : a \in locked[s]

\* Mutant: the balances are read before the locks and not again.
OutdatedUnnoticed(r, a) == FALSE

\* 40001, could not serialize access due to concurrent update.
Outdated(r, a) == a \in missed[r]

\* AccountStore.GetForUpdate, when it gets the row.
GetForUpdate(r, a, next) ==
  /\ ~HeldByOther(r, a)
  /\ ~Outdated(r, a)
  /\ Goto(r, next)
  /\ locked' = [locked EXCEPT ![r] = @ \cup {a}]
  /\ UNCHANGED <<attempt, answer, balance, snapshot, missed>>

\* Mutant: the handler returns without ending its transaction.
EndTxForgotten(r) ==
  /\ snapshot' = [snapshot EXCEPT ![r] = NoSnapshot]
  /\ UNCHANGED locked

\* However it ends, the transaction leaves nothing behind.
EndTx(r) ==
  /\ snapshot' = [snapshot EXCEPT ![r] = NoSnapshot]
  /\ locked' = [locked EXCEPT ![r] = {}]

\* The function returned an error that is not retryable: roll back, return it.
RollbackTx(r, error) ==
  /\ EndTx(r)
  /\ Goto(r, "done")
  /\ answer' = [answer EXCEPT ![r] = error]
  /\ attempt' = [attempt EXCEPT ![r] = 1]
  /\ missed' = [missed EXCEPT ![r] = {}]
  /\ UNCHANGED balance

\* Mutant: one attempt too many.
AttemptsLeftByOne(r) == attempt[r] <= MaxAttempts

AttemptsLeft(r) == attempt[r] < MaxAttempts

\* Mutant: WithTx falls out of its loop with no error.
RetryLimitForgotten == "ok"

\* The answer once every attempt has failed.
RetryLimitError == "failed"

\* 40001 or 40P01 from a statement or from the commit: roll back and run the
\* function again, unless this was the last attempt.
RetryTx(r) ==
  /\ EndTx(r)
  /\ missed' = [missed EXCEPT ![r] = {}]
  /\ UNCHANGED balance
  /\ \/ /\ AttemptsLeft(r)
        /\ Goto(r, "begin")
        /\ attempt' = [attempt EXCEPT ![r] = @ + 1]
        /\ UNCHANGED answer
     \/ /\ ~AttemptsLeft(r)
        /\ Goto(r, "done")
        /\ attempt' = [attempt EXCEPT ![r] = 1]
        /\ answer' = [answer EXCEPT ![r] = RetryLimitError]

\* Mutant: a commit whose acknowledgement is lost is tried again.
CommitTxRetried(r, written, staged) ==
  /\ EndTx(r)
  /\ balance' = [a \in Account |-> IF a \in written THEN staged[a] ELSE balance[a]]
  /\ missed' = [s \in Request |-> IF s # r /\ InTx(s) THEN missed[s] \cup written ELSE {}]
  /\ \/ Goto(r, "done") /\ attempt' = [attempt EXCEPT ![r] = 1]
                        /\ answer' = [answer EXCEPT ![r] = "ok"]
     \/ AttemptsLeft(r) /\ Goto(r, "begin") /\ UNCHANGED answer
                        /\ attempt' = [attempt EXCEPT ![r] = @ + 1]

\* The rows of `written` get their staged values, and every other open
\* transaction has missed them.  When the server's acknowledgement is lost the
\* commit stands and WithTx still returns an error.
CommitTx(r, written, staged) ==
  /\ EndTx(r)
  /\ balance' = [a \in Account |-> IF a \in written THEN staged[a] ELSE balance[a]]
  /\ missed' = [s \in Request |-> IF s # r /\ InTx(s) THEN missed[s] \cup written ELSE {}]
  /\ Goto(r, "done")
  /\ attempt' = [attempt EXCEPT ![r] = 1]
  /\ \E result \in {"ok", "failed"} : answer' = [answer EXCEPT ![r] = result]

=============================================================================
