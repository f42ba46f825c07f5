------------------------------- MODULE Backend -------------------------------
(***************************************************************************)
(* Registrations beside transfers and exchanges: TransactionService and     *)
(* Registration over the same database, the same connection pool and the    *)
(* same accounts.  Both write the system accounts, an exchange with values  *)
(* it computed from the rows it locked, a registration by a delta.          *)
(* Quotes are left to TransactionService: registrations do not touch them,  *)
(* and here the exchanges name their rate.                                  *)
(***************************************************************************)
EXTENDS TransactionService

CONSTANTS
  Registrant,     \* the requests that register; the others move money
  NewAccount,     \* the accounts a registration creates, per currency
  OpeningAmount,  \* what it puts there
  Form, Malformed \* what clients ask to register

VARIABLES form, users, superAdmins, makesAdmin

SystemBalance == [c \in Currency |-> OpeningBalance[SystemAccount[c]]]

R == INSTANCE Registration

ASSUME BackendAssumption ==
  /\ R!RegistrationAssumption
  /\ \A r \in Registrant, c \in Currency : /\ OpeningBalance[NewAccount[r][c]] = 0
                                           /\ CurrencyOf[NewAccount[r][c]] = c

newcomerVars == <<form, users, superAdmins, makesAdmin>>
backendVars == <<vars, newcomerVars>>

Mover == Request \ Registrant

\* The rows that exist.
Existing == Account \ UNION {R!Opened(r) : r \in Registrant \ users}

\* A registrant moves no money: the request it has in req is any one.
BackendInit == /\ Init
               /\ R!RegistrationInit
               /\ \A r \in Registrant : req[r] = CHOOSE i \in Input : TRUE

\* The id of an account is known once the account exists.
KnowsAccounts(r) ==
  {req[r].from, req[r].to} \cap Account \subseteq Existing

Moves(r) ==
  /\ \/ KnowsAccounts(r) /\ Arrive(r)
     \/ Validate(r) \/ Begin(r) \/ Lock(r) \/ MissingRow(r) \/ Check(r)
     \/ SystemIds(r) \/ Cover(r) \/ Insert(r) \/ Consume(r) \/ Commit(r)
     \/ Abandon(r)
  /\ UNCHANGED newcomerVars

Registers(r) ==
  /\ R!Submit(r) \/ R!Register(r) \/ R!AbandonRegistration(r)
  /\ UNCHANGED <<req, transactions, quotes, issuing, seen>>

BackendWaitsFor(r, s) == IF r \in Registrant THEN R!RegistrationWaitsFor(r, s)
                                             ELSE WaitsFor(r, s)

BackendCycle(S) == \A r \in S : /\ \E s \in S : BackendWaitsFor(r, s)
                                /\ \E s \in S : BackendWaitsFor(s, r)

\* 40001 of a transfer or an exchange.
SerializeMove(r) == /\ SerializationFailure(r)
                    /\ UNCHANGED newcomerVars

\* 40P01: an exchange takes the system accounts in the order of their ids, a
\* registration takes USD before EUR.
BackendDeadlock(r) ==
  /\ \E S \in SUBSET Request : r \in S /\ BackendCycle(S)
  /\ RetryTx(r)
  /\ UNCHANGED <<req, tables, seen, newcomerVars>>

BackendNext ==
  \/ \E r \in Mover : Moves(r) \/ SerializeMove(r)
  \/ \E r \in Registrant : Registers(r)
  \/ \E r \in Request : BackendDeadlock(r)

BackendSpec == BackendInit /\ [][BackendNext]_backendVars

\* What the server and the database do by themselves to a request.
Served(r) ==
  \/ r \in Mover /\ Serve(r) /\ UNCHANGED newcomerVars
  \/ r \in Registrant /\ R!Register(r) /\ UNCHANGED <<req, transactions, quotes, issuing, seen>>
  \/ BackendDeadlock(r)

\* Goroutines run, queries end and PostgreSQL resolves deadlocks.
FairBackendSpec == BackendSpec /\ \A r \in Request : WF_backendVars(Served(r))

----------------------------------------------------------------------------
(* Properties. *)

\* A registration is all or nothing: its user, the super admin it may make
\* and its accounts appear together, and no money is there before.
RegisteredTogether ==
  /\ superAdmins \subseteq users
  /\ users # {} => R!OneSuperAdmin /\ superAdmins # {}
  /\ \A r \in Registrant \ users : \A a \in R!Opened(r) :
       balance[a] = 0 /\ ledger[a] = 0

\* Registrations, transfers and exchanges are serializable together: each that
\* is posted happens in one step on the current balances, names and admins,
\* although a registration reads some of them outside its transaction.
O == INSTANCE OpenBank WITH transactions <- Postings, consumed <- Consumed

ImplementsOpenBank == O!OpenBankSpec

\* Every request is answered, through the deadlocks of registrations with
\* exchanges, as long as the pool has a connection to spare.
EveryoneServed == \A r \in Request : pc[r] = "start" ~> pc[r] = "done"

=============================================================================
