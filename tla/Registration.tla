---------------------------- MODULE Registration ----------------------------
(***************************************************************************)
(* Handler.Register of internal/handlers/auth.go, with createOpeningBalance *)
(* and the store functions they call: one transaction of SerializableTx     *)
(* creates the user, a funded account per currency and, if there is no      *)
(* admin yet, the super admin.  GetSystemAccount and HasAnyAdmin do not use *)
(* the transaction: they read what is committed, on another connection.     *)
(*                                                                         *)
(* The id of a user is generated once per request, so the request stands    *)
(* for it.  Left out: password and token, the audit row, and the two rows   *)
(* of transactions (they carry no client_request_id; their entries are in   *)
(* ledger).  The wait of the ledger's foreign key is that of AdjustBalance, *)
(* the statement after it on the same row.                                  *)
(***************************************************************************)
EXTENDS SerializableTx

CONSTANTS
  Registrant,       \* the requests that register, the others are left alone
  NewAccount,       \* the accounts a registration creates, per currency
  OpeningAmount,    \* 100000 USD and 50000 EUR, in minor units
  SystemAccount,    \* per currency, the row with is_system = TRUE
  SystemBalance,    \* its balance at the start
  Seed,             \* per account, the part the migrations insert unrecorded
  Form,             \* the registrations clients send: [username, email]
  Malformed         \* a username or email that the validator refuses

Currencies == {"USD", "EUR"}

Opened(r) == {NewAccount[r][c] : c \in Currencies}

SystemAccounts == {SystemAccount[c] : c \in Currencies}

ASSUME RegistrationAssumption ==
  /\ Registrant \subseteq Request
  /\ NewAccount \in [Registrant -> [Currencies -> Account]]
  /\ SystemAccount \in [Currencies -> Account]
  /\ SystemAccount["USD"] # SystemAccount["EUR"]
  /\ \A r \in Registrant :
       /\ NewAccount[r]["USD"] # NewAccount[r]["EUR"]
       /\ Opened(r) \cap SystemAccounts = {}
       /\ \A s \in Registrant \ {r} : Opened(r) \cap Opened(s) = {}
       /\ \A a \in Opened(r) : Seed[a] = 0
  /\ OpeningAmount \in [Currencies -> Nat \ {0}]
  /\ SystemBalance \in [Currencies -> Nat]
  /\ Seed \in [Account -> Nat]

VARIABLES
  form,        \* what each registrant asks for
  users,       \* the rows of users
  superAdmins, \* the rows of admins; a registration adds them as super
  makesAdmin,  \* what HasAnyAdmin told the request: there is none
  ledger       \* SUM(ledger_entries.amount) per account

registrationVars == <<form, users, superAdmins, makesAdmin>>
registerVars == <<txVars, registrationVars, ledger>>

RegistrationInit ==
  /\ form \in [Registrant -> Form]
  /\ users = {}
  /\ superAdmins = {}
  /\ makesAdmin = [r \in Registrant |-> FALSE]

RegisterInit ==
  /\ RegistrationInit
  /\ LET initial == [a \in Account |->
                       IF \E c \in Currencies : a = SystemAccount[c]
                       THEN SystemBalance[CHOOSE c \in Currencies : a = SystemAccount[c]]
                       ELSE 0]
     IN  /\ TxInit(initial)
         /\ ledger = [a \in Account |-> initial[a] - Seed[a]]

----------------------------------------------------------------------------
(* The steps of Register. *)

Submit(r) ==
  /\ pc[r] = "idle"
  /\ Continue(r, "start")
  /\ UNCHANGED <<registrationVars, ledger>>

WellFormed(f) == f.username # Malformed /\ f.email # Malformed

ValidateForm(r) ==
  /\ pc[r] = "start"
  /\ \/ WellFormed(form[r]) /\ Continue(r, "begin")
     \/ ~WellFormed(form[r]) /\ Return(r, "invalid_form")
  /\ UNCHANGED <<registrationVars, ledger>>

BeginRegistration(r) ==
  /\ BeginTx(r, "createUser")
  /\ UNCHANGED <<registrationVars, ledger>>

\* UNIQUE on username and on email.
SameUser(r, s) == \/ form[r].username = form[s].username
                  \/ form[r].email = form[s].email

\* Mutant: the email is not unique.
TakenName(r) == \E s \in users : form[r].username = form[s].username

Taken(r) == \E s \in users : SameUser(r, s)

RegistrationSteps == {"usdSystem", "usdAdjust", "eurSystem", "eurAdjust",
                      "hasAdmin", "commitUser"}

\* An insert waits for an open transaction that has inserted the same name.
HoldsName(s, r) == /\ s # r
                   /\ pc[s] \in RegistrationSteps
                   /\ SameUser(s, r)

\* UserStore.Create, and AccountStore.Create twice, of fresh ids.
CreateUser(r) ==
  /\ pc[r] = "createUser"
  /\ \A s \in Registrant : ~HoldsName(s, r)
  /\ \/ Taken(r) /\ RollbackTx(r, "conflict")
     \/ ~Taken(r) /\ Continue(r, "usdSystem")
  /\ UNCHANGED <<registrationVars, ledger>>

\* Mutant: AdjustBalance is not called.
AfterUnadjusted(step) == CASE step = "usdSystem" -> "eurSystem"
                           [] step = "eurSystem" -> "hasAdmin"
                           [] step = "hasAdmin"  -> "commitUser"

After(step) == CASE step = "usdSystem" -> "usdAdjust"
                 [] step = "usdAdjust" -> "eurSystem"
                 [] step = "eurSystem" -> "eurAdjust"
                 [] step = "eurAdjust" -> "hasAdmin"
                 [] step = "hasAdmin"  -> "commitUser"

\* createOpeningBalance asks the pool for the system account's id.
FindSystemAccount(r) ==
  /\ pc[r] \in {"usdSystem", "eurSystem"}
  /\ FreeConns > 0
  /\ Continue(r, After(pc[r]))
  /\ UNCHANGED <<registrationVars, ledger>>

\* Mutant: the currencies come out of a Go map, in an order of their own.
AdjustedAnyOrder(r) ==
  IF (pc[r] = "usdAdjust") = (form[r] = CHOOSE f \in Form : TRUE) THEN "USD" ELSE "EUR"

AdjustedCurrency(r) == IF pc[r] = "usdAdjust" THEN "USD" ELSE "EUR"

\* Mutant: accounts.balance has no CHECK.
UncheckedExhausted(r, c) == FALSE

\* CHECK (balance >= 0) on the system account, 23514.
Exhausted(r, c) == snapshot[r][SystemAccount[c]] < OpeningAmount[c]

\* AdjustBalance takes the row's lock, as SELECT ... FOR UPDATE would.
AdjustBalance(r) ==
  /\ pc[r] \in {"usdAdjust", "eurAdjust"}
  /\ LET c == AdjustedCurrency(r)
     IN  \/ /\ ~Exhausted(r, c)
            /\ GetForUpdate(r, SystemAccount[c], After(pc[r]))
         \/ /\ Exhausted(r, c)
            /\ ~HeldByOther(r, SystemAccount[c])
            /\ ~Outdated(r, SystemAccount[c])
            /\ RollbackTx(r, "failed")
  /\ UNCHANGED <<registrationVars, ledger>>

\* HasAnyAdmin reads the committed admins, whatever the snapshot.
HasAnyAdmin(r) ==
  /\ pc[r] = "hasAdmin"
  /\ FreeConns > 0
  /\ Continue(r, After("hasAdmin"))
  /\ makesAdmin' = [makesAdmin EXCEPT ![r] = superAdmins = {}]
  /\ UNCHANGED <<form, users, superAdmins, ledger>>

\* Mutant: the EUR opening is not taken from the system account.
OpeningUSD(r, f) ==
  [f EXCEPT ![SystemAccount["USD"]] = @ - OpeningAmount["USD"],
            ![NewAccount[r]["USD"]] = @ + OpeningAmount["USD"],
            ![NewAccount[r]["EUR"]] = @ + OpeningAmount["EUR"]]

\* The opening balances, moved from the system accounts.
Opening(r, f) ==
  [f EXCEPT ![SystemAccount["USD"]] = @ - OpeningAmount["USD"],
            ![SystemAccount["EUR"]] = @ - OpeningAmount["EUR"],
            ![NewAccount[r]["USD"]] = @ + OpeningAmount["USD"],
            ![NewAccount[r]["EUR"]] = @ + OpeningAmount["EUR"]]

\* Mutant: the EUR system account is not debited.
AdjustedUSDOnly(r) == Opened(r) \cup {SystemAccount["USD"]}

\* The rows created and adjusted.
Adjusted(r) == Opened(r) \cup SystemAccounts

CommitRegistration(r) ==
  /\ pc[r] = "commitUser"
  /\ CommitTx(r, Adjusted(r), Opening(r, snapshot[r]))
  /\ ledger' = Opening(r, ledger)
  /\ users' = users \cup {r}
  /\ superAdmins' = IF makesAdmin[r] THEN superAdmins \cup {r} ELSE superAdmins
  /\ UNCHANGED <<form, makesAdmin>>

----------------------------------------------------------------------------
(* What PostgreSQL and the world outside do to a registration. *)

RegistrationWaitsFor(r, s) ==
  \/ /\ pc[r] \in {"usdAdjust", "eurAdjust"}
     /\ s # r
     /\ SystemAccount[AdjustedCurrency(r)] \in locked[s]
  \/ /\ pc[r] = "createUser"
     /\ s \in Registrant
     /\ HoldsName(s, r)

RetryRegistration(r) ==
  /\ RetryTx(r)
  /\ UNCHANGED <<registrationVars, ledger>>

\* 40001
SerializeRegistration(r) ==
  /\ pc[r] \in {"createUser", "usdAdjust", "eurAdjust", "commitUser"}
  /\ \A s \in Request : ~RegistrationWaitsFor(r, s)
  /\ RetryRegistration(r)

\* The client disconnects, or the connection or the server is lost.
AbandonRegistration(r) ==
  /\ pc[r] \notin {"idle", "done"}
  /\ RollbackTx(r, "failed")
  /\ UNCHANGED <<registrationVars, ledger>>

Register(r) ==
  \/ ValidateForm(r) \/ BeginRegistration(r) \/ CreateUser(r)
  \/ FindSystemAccount(r) \/ AdjustBalance(r) \/ HasAnyAdmin(r)
  \/ CommitRegistration(r) \/ SerializeRegistration(r)

RegisterNext ==
  \E r \in Registrant : Submit(r) \/ Register(r) \/ AbandonRegistration(r)

RegisterSpec == RegisterInit /\ [][RegisterNext]_registerVars

----------------------------------------------------------------------------
(* Properties. *)

RegistrationAnswers == {"none", "ok", "failed", "conflict", "invalid_form"}

\* The values the variables may take.
RegistrationTypeOK ==
  /\ form \in [Registrant -> Form]
  /\ users \subseteq Registrant
  /\ superAdmins \subseteq Registrant
  /\ makesAdmin \in [Registrant -> BOOLEAN]
  /\ \A r \in Registrant :
       /\ pc[r] \in Outside \cup RegistrationSteps \cup {"createUser"}
       /\ attempt[r] \in 1..MaxAttempts
       /\ answer[r] \in RegistrationAnswers

\* "First registered user is promoted to super admin automatically"
\* (README.md:35): as soon as there is a user there is one super admin, and
\* registrations never make a second one.  HasAnyAdmin is no part of the
\* transaction: what keeps two first users apart is that both write the system
\* accounts, so that the later one fails with 40001 and asks again.
OneSuperAdmin == /\ users # {} => superAdmins # {}
                 /\ \A r, s \in superAdmins : r = s

\* The system accounts and the accounts of every user agree with the ledger,
\* and nothing is recorded for a user who does not exist.
OpeningsReconciled ==
  /\ \A a \in SystemAccounts : balance[a] = Seed[a] + ledger[a]
  /\ \A r \in Registrant, c \in Currencies :
       /\ ledger[NewAccount[r][c]] = IF r \in users THEN OpeningAmount[c] ELSE 0
       /\ balance[NewAccount[r][c]] = ledger[NewAccount[r][c]]

\* The opening balances are money of the bank: together they never exceed what
\* its system accounts had, and the accounts are not overdrawn.
OpeningsFunded ==
  \A c \in Currencies :
    /\ balance[SystemAccount[c]] >= 0
    /\ balance[SystemAccount[c]] + Cardinality(users) * OpeningAmount[c]
         = SystemBalance[c]

\* No username and no email belongs to two users, and 409 is only answered
\* when it belongs to another one.
NamesUnique ==
  /\ \A r, s \in users : SameUser(r, s) => r = s
  /\ \A r \in Registrant :
       /\ answer[r] = "ok" => r \in users
       /\ answer[r] \in {"conflict", "invalid_form"} => r \notin users
       /\ answer[r] = "conflict" => Taken(r)

\* Registrations alone never deadlock: they adjust USD before EUR.
RegistrationsNeverCross ==
  \A S \in (SUBSET Registrant) \ {{}} :
    \E r \in S : \A s \in S : ~RegistrationWaitsFor(r, s)

=============================================================================
