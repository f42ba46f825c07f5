-------------------------- MODULE Registration_proofs --------------------------
(***************************************************************************)
(* Proofs about Registration, for any number of registrations, accounts and *)
(* attempts, any opening amounts and any funds of the bank.                 *)
(*                                                                         *)
(* RegInv is the inductive invariant.  Its heart is Locks: a registration   *)
(* holds the USD system account from the adjustment of that account to its  *)
(* end.  So no other registration commits between its question for an admin *)
(* and its own commit (AdminAsked), which HasAnyAdmin, a query outside the  *)
(* transaction, would not guarantee; and the balances it writes are the     *)
(* current ones less the opening amounts (TxInv).                           *)
(***************************************************************************)
EXTENDS Registration, SerializableTx_proofs, FiniteSetTheorems

USDHeld == {"eurSystem", "eurAdjust", "hasAdmin", "commitUser"}
EURHeld == {"hasAdmin", "commitUser"}

\* The system accounts are locked from their adjustment on.
Locks ==
  /\ \A r \in Registrant :
       /\ locked[r] \subseteq SystemAccounts
       /\ SystemAccount["USD"] \in locked[r] <=> pc[r] \in USDHeld
       /\ SystemAccount["EUR"] \in locked[r] <=> pc[r] \in EURHeld
  /\ \A r \in Request \ Registrant : locked[r] = {}

\* They were found sufficient, and nobody else writes the new accounts.
Funds ==
  \A r \in Registrant :
    /\ pc[r] \in USDHeld => snapshot[r][SystemAccount["USD"]] >= OpeningAmount["USD"]
    /\ pc[r] \in EURHeld => snapshot[r][SystemAccount["EUR"]] >= OpeningAmount["EUR"]
    /\ missed[r] \cap Opened(r) = {}

\* Who has been answered is done, and so is who has become a user.
Finished ==
  \A r \in Registrant :
    /\ r \in users => pc[r] = "done"
    /\ answer[r] # "none" => pc[r] = "done"

\* The answer of HasAnyAdmin is still right when it is used.
AdminAsked ==
  \A r \in Registrant : pc[r] = "commitUser" => (makesAdmin[r] <=> superAdmins = {})

\* A name that has been inserted is nobody else's.
NameHeld ==
  \A r \in Registrant : pc[r] \in RegistrationSteps =>
    /\ ~Taken(r)
    /\ \A s \in Registrant : ~HoldsName(s, r)

RegInv ==
  /\ TxInv
  /\ RegistrationTypeOK
  /\ IsFiniteSet(users)
  /\ ledger \in [Account -> Int]
  /\ Locks
  /\ Funds
  /\ Finished
  /\ AdminAsked
  /\ OneSuperAdmin
  /\ NameHeld
  /\ NamesUnique
  /\ OpeningsReconciled
  /\ OpeningsFunded

\* A registrant is a request, with accounts of its own.
LEMMA AccountTypes ==
  /\ Registrant \subseteq Request
  /\ SystemAccount["USD"] \in Account /\ SystemAccount["EUR"] \in Account
  /\ SystemAccount["USD"] # SystemAccount["EUR"]
  /\ SystemAccounts = {SystemAccount["USD"], SystemAccount["EUR"]}
  /\ OpeningAmount["USD"] \in Nat \ {0} /\ OpeningAmount["EUR"] \in Nat \ {0}
  /\ \A r \in Registrant :
       /\ NewAccount[r]["USD"] \in Account /\ NewAccount[r]["EUR"] \in Account
       /\ NewAccount[r]["USD"] # NewAccount[r]["EUR"]
       /\ Opened(r) = {NewAccount[r]["USD"], NewAccount[r]["EUR"]}
       /\ Opened(r) \cap SystemAccounts = {}
       /\ \A s \in Registrant \ {r} : Opened(r) \cap Opened(s) = {}
       /\ Seed[NewAccount[r]["USD"]] = 0 /\ Seed[NewAccount[r]["EUR"]] = 0
<1>1. Currencies = {"USD", "EUR"}
  BY DEF Currencies
<1>2. SystemAccounts = {SystemAccount["USD"], SystemAccount["EUR"]}
  BY <1>1 DEF SystemAccounts
<1>3. ASSUME NEW r \in Registrant
      PROVE  /\ Opened(r) = {NewAccount[r]["USD"], NewAccount[r]["EUR"]}
             /\ NewAccount[r]["USD"] \in Account /\ NewAccount[r]["EUR"] \in Account
             /\ Seed[NewAccount[r]["USD"]] = 0 /\ Seed[NewAccount[r]["EUR"]] = 0
  BY <1>1, RegistrationAssumption DEF Opened
<1>4. /\ SystemAccount["USD"] \in Account /\ SystemAccount["EUR"] \in Account
      /\ OpeningAmount["USD"] \in Nat \ {0} /\ OpeningAmount["EUR"] \in Nat \ {0}
  BY <1>1, RegistrationAssumption
<1>5. QED
  BY <1>2, <1>3, <1>4, RegistrationAssumption

\* What a conjunct about money speaks of, left alone by every step but the
\* commit.
LEMMA BooksUnchanged ==
  ASSUME RegInv, UNCHANGED <<registrationVars, ledger, balance>>
  PROVE  /\ OpeningsReconciled' /\ OpeningsFunded'
         /\ IsFiniteSet(users') /\ ledger' \in [Account -> Int]
BY DEF RegInv, OpeningsReconciled, OpeningsFunded, registrationVars

\* Likewise about admins.
LEMMA AdminsUnchanged ==
  ASSUME RegInv, UNCHANGED registrationVars
  PROVE  OneSuperAdmin'
BY DEF RegInv, OneSuperAdmin, registrationVars

----------------------------------------------------------------------------
(* One lemma per kind of step. *)

\* Two requests that share a name do so in both directions.
LEMMA SameUserSymmetric ==
  ASSUME NEW r, NEW s
  PROVE  SameUser(r, s) <=> SameUser(s, r)
BY DEF SameUser

\* Names stay held while nobody becomes a user, and only a request that
\* nobody keeps waiting inserts one.
LEMMA NameHeldMove ==
  ASSUME RegInv, NEW r \in Registrant, NEW to,
         pc' = [pc EXCEPT ![r] = to], UNCHANGED registrationVars,
         to \in RegistrationSteps =>
           \/ pc[r] \in RegistrationSteps
           \/ ~Taken(r) /\ \A s \in Registrant : ~HoldsName(s, r)
  PROVE  NameHeld'
<1>1. /\ \A q \in Registrant \ {r} : pc'[q] = pc[q]
      /\ pc'[r] = to
  BY AccountTypes DEF RegInv, TxInv, TxTypeOK
<1>2. \A q, s : SameUser(q, s)' <=> SameUser(q, s)
  BY DEF SameUser, registrationVars
<1>3. \A q : Taken(q)' <=> Taken(q)
  BY <1>2 DEF Taken, registrationVars
<1>4. to \in RegistrationSteps =>
        ~Taken(r) /\ \A s \in Registrant : ~HoldsName(s, r)
  BY DEF RegInv, NameHeld
<1>5. ASSUME NEW q \in Registrant, pc'[q] \in RegistrationSteps
      PROVE  ~Taken(q)'
  BY <1>1, <1>3, <1>4, <1>5 DEF RegInv, NameHeld
<1>6. ASSUME NEW q \in Registrant, pc'[q] \in RegistrationSteps,
             NEW s \in Registrant, s # q, pc'[s] \in RegistrationSteps
      PROVE  ~SameUser(s, q)'
  <2>1. CASE q = r
    <3>1. pc[s] \in RegistrationSteps /\ ~HoldsName(s, r)
      BY <1>1, <1>4, <1>6, <2>1
    <3>2. QED
      BY <1>2, <1>6, <2>1, <3>1 DEF HoldsName
  <2>2. CASE s = r
    <3>1. pc[q] \in RegistrationSteps /\ ~HoldsName(q, r)
      BY <1>1, <1>4, <1>6, <2>2
    <3>2. QED
      BY <1>2, <1>6, <2>2, <3>1, SameUserSymmetric DEF HoldsName
  <2>3. CASE q # r /\ s # r
    <3>1. pc[q] \in RegistrationSteps /\ pc[s] \in RegistrationSteps
      BY <1>1, <1>6, <2>3
    <3>2. QED
      BY <1>2, <1>6, <3>1 DEF HoldsName, RegInv, NameHeld
  <2>4. QED
    BY <2>1, <2>2, <2>3
<1>7. QED
  BY <1>5, <1>6 DEF NameHeld, HoldsName

\* A step that moves a request along without writing.
LEMMA MoveInv ==
  ASSUME RegInv, NEW r \in Registrant, NEW to,
         Continue(r, to), UNCHANGED <<registrationVars, ledger>>,
         to \in (Outside \cup RegistrationSteps \cup {"createUser"}),
         to \in Outside <=> pc[r] \in Outside,
         to \in USDHeld <=> pc[r] \in USDHeld,
         to \in EURHeld <=> pc[r] \in EURHeld,
         to # "commitUser", pc[r] # "done",
         to \in RegistrationSteps =>
           \/ pc[r] \in RegistrationSteps
           \/ ~Taken(r) /\ \A s \in Registrant : ~HoldsName(s, r)
  PROVE  RegInv'
<1>1. TxInv'
  BY ContinueInv, AccountTypes DEF RegInv
<1>2. /\ pc' = [pc EXCEPT ![r] = to]
      /\ UNCHANGED <<attempt, answer, balance, snapshot, locked, missed>>
      /\ UNCHANGED <<form, users, superAdmins, makesAdmin, ledger>>
      /\ pc = [q \in Request |-> pc[q]]
      /\ r \in Request
  BY AccountTypes DEF Continue, Goto, registrationVars, RegInv, TxInv, TxTypeOK
<1>3. RegistrationTypeOK'
  BY <1>2, AccountTypes DEF RegInv, RegistrationTypeOK
<1>4. Locks' /\ Funds'
  BY <1>2, AccountTypes DEF RegInv, Locks, Funds
<1>5. Finished' /\ AdminAsked'
  BY <1>2, AccountTypes DEF RegInv, Finished, AdminAsked
<1>6. NameHeld'
  BY <1>2, NameHeldMove
<1>7. NamesUnique'
  BY <1>2 DEF RegInv, NamesUnique, Taken, SameUser
<1>8. QED
  BY <1>1, <1>2, <1>3, <1>4, <1>5, <1>6, <1>7, BooksUnchanged, AdminsUnchanged
     DEF RegInv, registrationVars

\* A step that ends the transaction, or the request before it has one, with
\* an error or to try again.
LEMMA EndInv ==
  ASSUME RegInv, TxInv', NEW r \in Registrant, NEW to \in {"begin", "done"},
         NEW result \in {"none", "failed", "conflict", "invalid_form"},
         NEW count \in 1..MaxAttempts,
         pc[r] \notin {"idle", "done"},
         result # "none" => to = "done",
         result = "conflict" => Taken(r),
         pc' = [pc EXCEPT ![r] = to],
         answer' = [answer EXCEPT ![r] = result],
         attempt' = [attempt EXCEPT ![r] = count],
         snapshot' = [snapshot EXCEPT ![r] = NoSnapshot],
         locked' = [locked EXCEPT ![r] = {}],
         missed' = [missed EXCEPT ![r] = {}],
         UNCHANGED <<balance, registrationVars, ledger>>
  PROVE  RegInv'
<1>1. /\ UNCHANGED <<form, users, superAdmins, makesAdmin, ledger>>
      /\ pc = [q \in Request |-> pc[q]]
      /\ answer = [q \in Request |-> answer[q]]
      /\ attempt = [q \in Request |-> attempt[q]]
      /\ snapshot = [q \in Request |-> snapshot[q]]
      /\ locked = [q \in Request |-> locked[q]]
      /\ missed = [q \in Request |-> missed[q]]
      /\ r \in Request
  <2>1. r \in Request
    BY AccountTypes
  <2>2. TxTypeOK /\ RegistrationTypeOK
    BY DEF RegInv, TxInv
  <2>3. /\ pc = [q \in Request |-> pc[q]]
        /\ answer = [q \in Request |-> answer[q]]
        /\ attempt = [q \in Request |-> attempt[q]]
    BY <2>2 DEF TxTypeOK, RegistrationTypeOK
  <2>4. /\ snapshot = [q \in Request |-> snapshot[q]]
        /\ locked = [q \in Request |-> locked[q]]
        /\ missed = [q \in Request |-> missed[q]]
    BY <2>2 DEF TxTypeOK
  <2>5. UNCHANGED <<form, users, superAdmins, makesAdmin, ledger>>
    BY DEF registrationVars
  <2>6. QED
    BY <2>1, <2>3, <2>4, <2>5
<1>2. RegistrationTypeOK'
  BY <1>1, AccountTypes
     DEF RegInv, RegistrationTypeOK, RegistrationAnswers, Outside
<1>3. Locks'
  BY <1>1, AccountTypes DEF RegInv, Locks, USDHeld, EURHeld
<1>4. Funds'
  BY <1>1, AccountTypes DEF RegInv, Funds, USDHeld, EURHeld
<1>5. r \notin users
  BY DEF RegInv, Finished
<1>6. Finished' /\ AdminAsked'
  BY <1>1, <1>5, AccountTypes DEF RegInv, Finished, AdminAsked
<1>7. NameHeld'
  BY NameHeldMove DEF RegistrationSteps
<1>8. NamesUnique'
  <2>1. \A q : Taken(q)' <=> Taken(q)
    BY <1>1 DEF Taken, SameUser
  <2>2. \A q, s \in users' : SameUser(q, s)' => q = s
    BY <1>1 DEF RegInv, NamesUnique, SameUser
  <2>3. QED
    BY <1>1, <1>5, <2>1, <2>2, AccountTypes DEF RegInv, NamesUnique
<1>9. QED
  BY <1>1, <1>2, <1>3, <1>4, <1>6, <1>7, <1>8, BooksUnchanged, AdminsUnchanged
     DEF RegInv

\* WithTx gives up or begins again, or the handler's error ends the request.
LEMMA RollbackInv ==
  ASSUME RegInv, NEW r \in Registrant, NEW error \in {"failed", "conflict"},
         pc[r] \notin {"idle", "done"}, error = "conflict" => Taken(r),
         RollbackTx(r, error), UNCHANGED <<registrationVars, ledger>>
  PROVE  RegInv'
<1>1. TxInv'
  BY RollbackTxInv, AccountTypes DEF RegInv
<1>2. QED
  BY <1>1, EndInv, ResetTypes DEF RollbackTx, EndTx, Goto

LEMMA RetryInv ==
  ASSUME RegInv, NEW r \in Registrant, InTx(r), RetryRegistration(r)
  PROVE  RegInv'
<1>1. /\ TxInv'
      /\ UNCHANGED <<balance, registrationVars, ledger>>
  BY RetryTxInv, AccountTypes DEF RegInv, RetryRegistration, RetryTx
<1>2. /\ pc[r] \notin {"idle", "done"}
      /\ answer[r] = "none"
      /\ answer = [q \in Request |-> answer[q]]
      /\ attempt[r] \in 1..MaxAttempts
      /\ r \in Request
  BY AccountTypes
     DEF InTx, Outside, RegInv, Finished, RegistrationTypeOK, TxInv, TxTypeOK
<1>3. CASE AttemptsLeft(r) /\ pc' = [pc EXCEPT ![r] = "begin"]
           /\ attempt' = [attempt EXCEPT ![r] = @ + 1] /\ UNCHANGED answer
  <2>1. attempt' = [attempt EXCEPT ![r] = attempt[r] + 1]
    BY <1>3
  <2>2. attempt[r] + 1 \in 1..MaxAttempts
    BY <1>2, <1>3, PoolAssumption DEF AttemptsLeft
  <2>3. answer' = [answer EXCEPT ![r] = "none"]
    BY <1>2, <1>3
  <2>4. /\ snapshot' = [snapshot EXCEPT ![r] = NoSnapshot]
        /\ locked' = [locked EXCEPT ![r] = {}]
        /\ missed' = [missed EXCEPT ![r] = {}]
    BY DEF RetryRegistration, RetryTx, EndTx
  <2>5. QED
    BY <1>1, <1>2, <1>3, <2>1, <2>2, <2>3, <2>4, EndInv
<1>4. CASE pc' = [pc EXCEPT ![r] = "done"]
           /\ attempt' = [attempt EXCEPT ![r] = 1]
           /\ answer' = [answer EXCEPT ![r] = RetryLimitError]
  <2>1. /\ snapshot' = [snapshot EXCEPT ![r] = NoSnapshot]
        /\ locked' = [locked EXCEPT ![r] = {}]
        /\ missed' = [missed EXCEPT ![r] = {}]
    BY DEF RetryRegistration, RetryTx, EndTx
  <2>2. QED
    BY <1>1, <1>2, <1>4, <2>1, EndInv, ResetTypes DEF RetryLimitError
<1>5. QED
  BY <1>3, <1>4 DEF RetryRegistration, RetryTx, Goto

\* A form that the validator refuses.
LEMMA RefuseInv ==
  ASSUME RegInv, NEW r \in Registrant, pc[r] = "start",
         Return(r, "invalid_form"), UNCHANGED <<registrationVars, ledger>>
  PROVE  RegInv'
<1>1. TxInv'
  BY ReturnInv, AccountTypes DEF RegInv, Outside
<1>2. /\ UNCHANGED <<form, users, superAdmins, makesAdmin, ledger>>
      /\ pc' = [pc EXCEPT ![r] = "done"]
      /\ answer' = [answer EXCEPT ![r] = "invalid_form"]
      /\ UNCHANGED <<attempt, balance, snapshot, locked, missed>>
      /\ pc = [q \in Request |-> pc[q]]
      /\ answer = [q \in Request |-> answer[q]]
      /\ r \in Request
  BY AccountTypes DEF Return, Goto, registrationVars, RegInv, TxInv, TxTypeOK
<1>3. RegistrationTypeOK'
  BY <1>2, AccountTypes
     DEF RegInv, RegistrationTypeOK, RegistrationAnswers, Outside
<1>4. Locks' /\ Funds'
  BY <1>2, AccountTypes DEF RegInv, Locks, Funds, USDHeld, EURHeld
<1>5. r \notin users
  BY DEF RegInv, Finished
<1>6. Finished' /\ AdminAsked'
  BY <1>2, <1>5, AccountTypes DEF RegInv, Finished, AdminAsked
<1>7. NameHeld'
  BY <1>2, NameHeldMove DEF RegistrationSteps
<1>8. NamesUnique'
  BY <1>2, <1>5, AccountTypes DEF RegInv, NamesUnique, Taken, SameUser
<1>9. QED
  BY <1>1, <1>2, <1>3, <1>4, <1>6, <1>7, <1>8, BooksUnchanged, AdminsUnchanged
     DEF RegInv

\* The transaction begins: its snapshot is the table.
LEMMA BeginInv ==
  ASSUME RegInv, NEW r \in Registrant, BeginRegistration(r)
  PROVE  RegInv'
<1>1. TxInv'
  BY BeginTxInv, AccountTypes DEF RegInv, BeginRegistration
<1>2. /\ UNCHANGED <<form, users, superAdmins, makesAdmin, ledger>>
      /\ pc[r] = "begin"
      /\ pc' = [pc EXCEPT ![r] = "createUser"]
      /\ snapshot' = [snapshot EXCEPT ![r] = balance]
      /\ UNCHANGED <<attempt, answer, balance, locked, missed>>
      /\ pc = [q \in Request |-> pc[q]]
      /\ snapshot = [q \in Request |-> snapshot[q]]
      /\ r \in Request
  BY AccountTypes
     DEF BeginRegistration, BeginTx, Goto, registrationVars, RegInv, TxInv, TxTypeOK
<1>3. RegistrationTypeOK'
  BY <1>2, AccountTypes DEF RegInv, RegistrationTypeOK
<1>4. Locks' /\ Funds'
  BY <1>2, AccountTypes DEF RegInv, Locks, Funds, USDHeld, EURHeld
<1>5. Finished' /\ AdminAsked'
  BY <1>2, AccountTypes DEF RegInv, Finished, AdminAsked
<1>6. NameHeld'
  BY <1>2, NameHeldMove DEF RegistrationSteps, registrationVars
<1>7. NamesUnique'
  BY <1>2 DEF RegInv, NamesUnique, Taken, SameUser
<1>8. QED
  BY <1>1, <1>2, <1>3, <1>4, <1>5, <1>6, <1>7, BooksUnchanged, AdminsUnchanged
     DEF RegInv, registrationVars

\* The row of the system account is found sufficient and locked.
LEMMA AdjustInv ==
  ASSUME RegInv, NEW r \in Registrant, pc[r] \in {"usdAdjust", "eurAdjust"},
         ~Exhausted(r, AdjustedCurrency(r)),
         GetForUpdate(r, SystemAccount[AdjustedCurrency(r)], After(pc[r])),
         UNCHANGED <<registrationVars, ledger>>
  PROVE  RegInv'
<1> DEFINE c == AdjustedCurrency(r)
<1>1. /\ pc[r] = "usdAdjust" => c = "USD" /\ After(pc[r]) = "eurSystem"
      /\ pc[r] = "eurAdjust" => c = "EUR" /\ After(pc[r]) = "hasAdmin"
  BY DEF AdjustedCurrency, After
<1>2. SystemAccount[c] \in Account /\ r \in Request
  BY <1>1, AccountTypes
<1>3. TxInv'
  BY <1>1, <1>2, GetForUpdateInv DEF RegInv, InTx, Outside
<1>4. /\ UNCHANGED <<form, users, superAdmins, makesAdmin, ledger>>
      /\ pc' = [pc EXCEPT ![r] = After(pc[r])]
      /\ locked' = [locked EXCEPT ![r] = @ \cup {SystemAccount[c]}]
      /\ UNCHANGED <<attempt, answer, balance, snapshot, missed>>
      /\ pc = [q \in Request |-> pc[q]]
      /\ locked = [q \in Request |-> locked[q]]
  BY DEF GetForUpdate, Goto, registrationVars, RegInv, TxInv, TxTypeOK
<1>5. RegistrationTypeOK'
  BY <1>1, <1>2, <1>4, AccountTypes
     DEF RegInv, RegistrationTypeOK, RegistrationSteps
<1>6. Locks'
  BY <1>1, <1>2, <1>4, AccountTypes DEF RegInv, Locks, USDHeld, EURHeld
<1>7. Funds'
  <2>1. snapshot[r][SystemAccount[c]] >= OpeningAmount[c]
    <3>1. snapshot[r][SystemAccount[c]] \in Int /\ OpeningAmount[c] \in Int
      BY <1>1, <1>2, AccountTypes DEF RegInv, TxInv, TxTypeOK
    <3>2. QED
      BY <3>1 DEF Exhausted
  <2>2. QED
    BY <1>1, <1>2, <1>4, <2>1, AccountTypes DEF RegInv, Funds, USDHeld, EURHeld
<1>8. Finished' /\ AdminAsked'
  BY <1>1, <1>2, <1>4, AccountTypes DEF RegInv, Finished, AdminAsked
<1>9. NameHeld'
  BY <1>4, NameHeldMove DEF RegistrationSteps
<1>10. NamesUnique'
  BY <1>4 DEF RegInv, NamesUnique, Taken, SameUser
<1>11. QED
  BY <1>3, <1>4, <1>5, <1>6, <1>7, <1>8, <1>9, <1>10, BooksUnchanged,
     AdminsUnchanged
     DEF RegInv

\* The question for an admin, asked with both system accounts locked.
LEMMA HasAnyAdminInv ==
  ASSUME RegInv, NEW r \in Registrant, HasAnyAdmin(r)
  PROVE  RegInv'
<1>1. /\ UNCHANGED <<form, users, superAdmins, ledger>>
      /\ pc[r] = "hasAdmin"
      /\ Continue(r, "commitUser")
      /\ pc' = [pc EXCEPT ![r] = "commitUser"]
      /\ makesAdmin' = [makesAdmin EXCEPT ![r] = superAdmins = {}]
      /\ UNCHANGED <<attempt, answer, balance, snapshot, locked, missed>>
      /\ pc = [q \in Request |-> pc[q]]
      /\ r \in Request
  BY AccountTypes
     DEF HasAnyAdmin, After, Continue, Goto, RegInv, TxInv, TxTypeOK
<1>2. TxInv'
  BY <1>1, ContinueInv DEF RegInv, Outside
<1>3. RegistrationTypeOK'
  BY <1>1, AccountTypes DEF RegInv, RegistrationTypeOK, RegistrationSteps
<1>4. Locks' /\ Funds'
  BY <1>1, AccountTypes DEF RegInv, Locks, Funds, USDHeld, EURHeld
<1>5. Finished'
  BY <1>1, AccountTypes DEF RegInv, Finished
<1>6. AdminAsked'
  <2>1. makesAdmin = [q \in Registrant |-> makesAdmin[q]]
    BY DEF RegInv, RegistrationTypeOK
  <2>2. QED
    BY <1>1, <2>1, AccountTypes DEF RegInv, AdminAsked
<1>7. NameHeld'
  <2>1. /\ \A q \in Registrant : pc'[q] \in RegistrationSteps
                                 <=> pc[q] \in RegistrationSteps
        /\ UNCHANGED <<form, users>>
    BY <1>1, AccountTypes DEF RegistrationSteps
  <2>2. QED
    BY <2>1 DEF RegInv, NameHeld, Taken, HoldsName, SameUser
<1>8. NamesUnique' /\ OneSuperAdmin'
  BY <1>1 DEF RegInv, NamesUnique, Taken, SameUser, OneSuperAdmin
<1>9. OpeningsReconciled' /\ OpeningsFunded'
  BY <1>1 DEF RegInv, OpeningsReconciled, OpeningsFunded
<1>10. QED
  BY <1>1, <1>2, <1>3, <1>4, <1>5, <1>6, <1>7, <1>8, <1>9 DEF RegInv

\* The opening balances moved, account by account.
LEMMA OpeningValues ==
  ASSUME NEW r \in Registrant, NEW f \in [Account -> Int]
  PROVE  LET o == Opening(r, f)
         IN  /\ o \in [Account -> Int]
             /\ \A c \in Currencies :
                  /\ o[SystemAccount[c]] = f[SystemAccount[c]] - OpeningAmount[c]
                  /\ o[NewAccount[r][c]] = f[NewAccount[r][c]] + OpeningAmount[c]
             /\ \A a \in Account \ Adjusted(r) : o[a] = f[a]
<1>1. /\ SystemAccount["USD"] # NewAccount[r]["USD"]
      /\ SystemAccount["USD"] # NewAccount[r]["EUR"]
      /\ SystemAccount["EUR"] # NewAccount[r]["USD"]
      /\ SystemAccount["EUR"] # NewAccount[r]["EUR"]
  BY AccountTypes
<1>2. Adjusted(r) = {SystemAccount["USD"], SystemAccount["EUR"],
                     NewAccount[r]["USD"], NewAccount[r]["EUR"]}
  BY AccountTypes DEF Adjusted
<1> DEFINE o == Opening(r, f)
<1>3. o \in [Account -> Int]
  BY AccountTypes DEF Opening
<1>4. /\ o[SystemAccount["USD"]] = f[SystemAccount["USD"]] - OpeningAmount["USD"]
      /\ o[SystemAccount["EUR"]] = f[SystemAccount["EUR"]] - OpeningAmount["EUR"]
  BY <1>1, AccountTypes DEF Opening
<1>5. /\ o[NewAccount[r]["USD"]] = f[NewAccount[r]["USD"]] + OpeningAmount["USD"]
      /\ o[NewAccount[r]["EUR"]] = f[NewAccount[r]["EUR"]] + OpeningAmount["EUR"]
  BY <1>1, AccountTypes DEF Opening
<1>6. \A a \in Account \ Adjusted(r) : o[a] = f[a]
  BY <1>2 DEF Opening
<1> HIDE DEF o
<1>7. QED
  BY <1>3, <1>4, <1>5, <1>6 DEF o, Currencies

\* Between the adjustments and the commit the transaction has nothing stale,
\* and nobody else is where it is.
LEMMA CommitGuards ==
  ASSUME RegInv, NEW r \in Registrant, pc[r] = "commitUser"
  PROVE  /\ \A a \in Adjusted(r) : snapshot[r][a] = balance[a]
         /\ \A c \in Currencies :
              snapshot[r][SystemAccount[c]] >= OpeningAmount[c]
         /\ \A s \in Request : s # r => Adjusted(r) \cap locked[s] = {}
         /\ \A s \in Registrant : s # r => pc[s] # "commitUser"
         /\ r \notin users
         /\ Adjusted(r) \in SUBSET Account
<1>1. SystemAccounts \subseteq locked[r]
  BY AccountTypes DEF RegInv, Locks, USDHeld, EURHeld
<1>2. Adjusted(r) \cap missed[r] = {}
  BY <1>1, AccountTypes DEF RegInv, Funds, TxInv, LockedCurrent, Adjusted
<1>3. Adjusted(r) \in SUBSET Account
  BY AccountTypes DEF Adjusted
<1>4. \A a \in Adjusted(r) : snapshot[r][a] = balance[a]
  BY <1>2, <1>3, AccountTypes DEF RegInv, TxInv, SnapshotCurrent, InTx, Outside
<1>5. ASSUME NEW s \in Request, s # r
      PROVE  Adjusted(r) \cap locked[s] = {}
  <2>1. locked[r] \cap locked[s] = {}
    BY <1>5, AccountTypes DEF RegInv, TxInv, LocksExclusive
  <2>2. locked[s] \subseteq SystemAccounts
    BY DEF RegInv, Locks
  <2>3. QED
    BY <1>1, <2>1, <2>2
<1>6. ASSUME NEW s \in Registrant, s # r
      PROVE  pc[s] # "commitUser"
  BY <1>1, <1>5, <1>6, AccountTypes DEF RegInv, Locks, USDHeld, Adjusted
<1>7. \A c \in Currencies : snapshot[r][SystemAccount[c]] >= OpeningAmount[c]
  BY DEF RegInv, Funds, USDHeld, EURHeld, Currencies
<1>8. r \notin users
  BY DEF RegInv, Finished
<1>9. QED
  BY <1>3, <1>4, <1>5, <1>6, <1>7, <1>8

\* The user, the accounts and the admin appear.
LEMMA CommitInv ==
  ASSUME RegInv, NEW r \in Registrant, CommitRegistration(r)
  PROVE  RegInv'
<1> DEFINE o == Opening(r, snapshot[r])
<1>1. /\ pc[r] = "commitUser" /\ r \in Request
      /\ snapshot[r] \in [Account -> Int]
      /\ ledger \in [Account -> Int] /\ balance \in [Account -> Int]
  BY AccountTypes DEF CommitRegistration, RegInv, TxInv, TxTypeOK
<1>2. TxInv'
  BY <1>1, CommitGuards, OpeningValues, CommitUnlockedInv
     DEF RegInv, CommitRegistration
<1>3. /\ pc' = [pc EXCEPT ![r] = "done"]
      /\ attempt' = [attempt EXCEPT ![r] = 1]
      /\ \E result \in {"ok", "failed"} : answer' = [answer EXCEPT ![r] = result]
      /\ snapshot' = [snapshot EXCEPT ![r] = NoSnapshot]
      /\ locked' = [locked EXCEPT ![r] = {}]
      /\ missed' = [s \in Request |->
                     IF s # r /\ InTx(s) THEN missed[s] \cup Adjusted(r) ELSE {}]
      /\ balance' = [a \in Account |-> IF a \in Adjusted(r) THEN o[a] ELSE balance[a]]
      /\ ledger' = Opening(r, ledger)
      /\ users' = users \cup {r}
      /\ superAdmins' = IF makesAdmin[r] THEN superAdmins \cup {r} ELSE superAdmins
      /\ UNCHANGED <<form, makesAdmin>>
      /\ pc = [q \in Request |-> pc[q]]
      /\ answer = [q \in Request |-> answer[q]]
      /\ attempt = [q \in Request |-> attempt[q]]
      /\ snapshot = [q \in Request |-> snapshot[q]]
      /\ locked = [q \in Request |-> locked[q]]
  BY DEF CommitRegistration, CommitTx, EndTx, Goto, RegInv, TxInv, TxTypeOK
<1>4. \A q \in Registrant \ {r} : pc'[q] = pc[q] /\ answer'[q] = answer[q]
  BY <1>3, AccountTypes
<1>5. pc'[r] = "done" /\ answer'[r] \in {"ok", "failed"}
  BY <1>1, <1>3
<1>6. RegistrationTypeOK'
  <2>1. \A q \in Registrant : attempt'[q] \in 1..MaxAttempts
    BY <1>3, ResetTypes, AccountTypes DEF RegInv, RegistrationTypeOK
  <2>2. QED
    BY <1>3, <1>4, <1>5, <2>1
       DEF RegInv, RegistrationTypeOK, RegistrationAnswers, Outside
<1>7. IsFiniteSet(users') /\ Cardinality(users') = Cardinality(users) + 1
  BY <1>1, <1>3, CommitGuards, FS_AddElement DEF RegInv
<1>8. ledger' \in [Account -> Int]
  BY <1>1, <1>3, OpeningValues
<1>9. Locks'
  BY <1>1, <1>3, AccountTypes DEF RegInv, Locks, USDHeld, EURHeld
<1>10. Funds'
  <2>1. ASSUME NEW q \in Registrant, q # r
        PROVE  missed'[q] \cap Opened(q) = {}
    BY <1>3, <2>1, AccountTypes DEF RegInv, Funds, Adjusted
  <2>2. missed'[r] = {}
    BY <1>1, <1>3
  <2>3. QED
    BY <1>1, <1>3, <2>1, <2>2, AccountTypes DEF RegInv, Funds, USDHeld, EURHeld
<1>11. Finished'
  BY <1>3, <1>4, <1>5 DEF RegInv, Finished
<1>12. AdminAsked'
  BY <1>1, <1>4, <1>5, CommitGuards DEF AdminAsked
<1>13. OneSuperAdmin'
  BY <1>1, <1>3 DEF RegInv, AdminAsked, OneSuperAdmin
<1>14. NameHeld' /\ NamesUnique'
  <2>1. \A q, s : SameUser(q, s)' <=> SameUser(q, s)
    BY <1>3 DEF SameUser
  <2>2. \A q \in Registrant : Taken(q)' <=> Taken(q) \/ SameUser(q, r)
    BY <1>3, <2>1 DEF Taken
  <2>3. ~Taken(r) /\ \A s \in Registrant : ~HoldsName(s, r)
    BY <1>1 DEF RegInv, NameHeld, RegistrationSteps
  <2>4. \A q \in Registrant : q # r /\ pc[q] \in RegistrationSteps
                              => ~SameUser(q, r)
    BY <2>3 DEF HoldsName
  <2>5. NameHeld'
    <3>1. \A q \in Registrant : pc'[q] \in RegistrationSteps =>
                               q # r /\ pc[q] \in RegistrationSteps
      BY <1>4, <1>5 DEF RegistrationSteps
    <3>2. \A q \in Registrant : pc'[q] \in RegistrationSteps => ~Taken(q)'
      BY <2>2, <2>4, <3>1 DEF RegInv, NameHeld
    <3>3. \A q, s \in Registrant :
             pc'[q] \in RegistrationSteps /\ s # q /\ pc'[s] \in RegistrationSteps
               => ~SameUser(s, q)'
      BY <2>1, <3>1 DEF RegInv, NameHeld, HoldsName
    <3>4. QED
      BY <3>2, <3>3 DEF NameHeld, HoldsName
  <2>6. \A q, s \in users' : SameUser(q, s)' => q = s
    BY <1>3, <2>1, <2>3, SameUserSymmetric DEF RegInv, NamesUnique, Taken
  <2>7. \A q \in Registrant :
          /\ answer'[q] = "ok" => q \in users'
          /\ answer'[q] \in {"conflict", "invalid_form"} => q \notin users'
          /\ answer'[q] = "conflict" => Taken(q)'
    BY <1>3, <1>4, <1>5, <2>2 DEF RegInv, NamesUnique
  <2>8. QED
    BY <2>5, <2>6, <2>7 DEF NamesUnique
<1>15. \A c \in Currencies :
         /\ SystemAccount[c] \in Account /\ NewAccount[r][c] \in Account
         /\ SystemAccount[c] \in Adjusted(r) /\ NewAccount[r][c] \in Adjusted(r)
         /\ OpeningAmount[c] \in Nat
  BY AccountTypes DEF Currencies, Adjusted
<1>16. \A c \in Currencies :
         /\ balance'[SystemAccount[c]] = balance[SystemAccount[c]] - OpeningAmount[c]
         /\ balance'[SystemAccount[c]] >= 0
         /\ balance'[NewAccount[r][c]] = balance[NewAccount[r][c]] + OpeningAmount[c]
         /\ ledger'[SystemAccount[c]] = ledger[SystemAccount[c]] - OpeningAmount[c]
         /\ ledger'[NewAccount[r][c]] = ledger[NewAccount[r][c]] + OpeningAmount[c]
  <2>1. SUFFICES ASSUME NEW c \in Currencies
        PROVE  /\ balance'[SystemAccount[c]] = balance[SystemAccount[c]] - OpeningAmount[c]
               /\ balance'[SystemAccount[c]] >= 0
               /\ balance'[NewAccount[r][c]] = balance[NewAccount[r][c]] + OpeningAmount[c]
               /\ ledger'[SystemAccount[c]] = ledger[SystemAccount[c]] - OpeningAmount[c]
               /\ ledger'[NewAccount[r][c]] = ledger[NewAccount[r][c]] + OpeningAmount[c]
    OBVIOUS
  <2>2. /\ balance'[SystemAccount[c]] = o[SystemAccount[c]]
        /\ balance'[NewAccount[r][c]] = o[NewAccount[r][c]]
    BY <1>3, <1>15
  <2>3. /\ o[SystemAccount[c]] = snapshot[r][SystemAccount[c]] - OpeningAmount[c]
        /\ o[NewAccount[r][c]] = snapshot[r][NewAccount[r][c]] + OpeningAmount[c]
    BY <1>1, OpeningValues
  <2>4. /\ snapshot[r][SystemAccount[c]] = balance[SystemAccount[c]]
        /\ snapshot[r][NewAccount[r][c]] = balance[NewAccount[r][c]]
        /\ snapshot[r][SystemAccount[c]] >= OpeningAmount[c]
    BY <1>1, <1>15, CommitGuards
  <2>5. balance[SystemAccount[c]] \in Int /\ OpeningAmount[c] \in Int
    BY <1>1, <1>15
  <2>6. /\ ledger'[SystemAccount[c]] = ledger[SystemAccount[c]] - OpeningAmount[c]
        /\ ledger'[NewAccount[r][c]] = ledger[NewAccount[r][c]] + OpeningAmount[c]
    BY <1>1, <1>3, OpeningValues
  <2>7. QED
    BY <2>2, <2>3, <2>4, <2>5, <2>6
<1>17. \A q \in Registrant \ {r}, c \in Currencies :
         /\ balance'[NewAccount[q][c]] = balance[NewAccount[q][c]]
         /\ ledger'[NewAccount[q][c]] = ledger[NewAccount[q][c]]
  <2>1. \A q \in Registrant \ {r}, c \in Currencies :
          NewAccount[q][c] \in Account \ Adjusted(r)
    BY AccountTypes DEF Currencies, Adjusted
  <2>2. QED
    BY <1>1, <1>3, <2>1, OpeningValues
<1>18. OpeningsReconciled'
  <2>1. ASSUME NEW c \in Currencies
        PROVE  balance'[SystemAccount[c]]
                 = Seed[SystemAccount[c]] + ledger'[SystemAccount[c]]
    <3>1. balance[SystemAccount[c]] = Seed[SystemAccount[c]] + ledger[SystemAccount[c]]
      BY DEF RegInv, OpeningsReconciled, SystemAccounts
    <3>2. /\ ledger[SystemAccount[c]] \in Int /\ Seed[SystemAccount[c]] \in Int
          /\ OpeningAmount[c] \in Int
      BY <1>1, <1>15, RegistrationAssumption
    <3>3. QED
      BY <1>16, <3>1, <3>2
  <2>2. ASSUME NEW q \in Registrant, NEW c \in Currencies
        PROVE  /\ ledger'[NewAccount[q][c]]
                    = IF q \in users' THEN OpeningAmount[c] ELSE 0
               /\ balance'[NewAccount[q][c]] = ledger'[NewAccount[q][c]]
    <3>1. CASE q = r
      <4>1. ledger[NewAccount[r][c]] = 0 /\ balance[NewAccount[r][c]] = 0
        BY <1>1, CommitGuards DEF RegInv, OpeningsReconciled
      <4>2. r \in users' /\ OpeningAmount[c] \in Int
        BY <1>3, <1>15
      <4>3. /\ ledger'[NewAccount[r][c]] = OpeningAmount[c]
            /\ balance'[NewAccount[r][c]] = OpeningAmount[c]
        BY <1>16, <4>1, <4>2
      <4>4. QED
        BY <3>1, <4>2, <4>3
    <3>2. CASE q # r
      <4>1. q \in users' <=> q \in users
        BY <1>3, <3>2
      <4>2. /\ ledger[NewAccount[q][c]]
                 = IF q \in users THEN OpeningAmount[c] ELSE 0
            /\ balance[NewAccount[q][c]] = ledger[NewAccount[q][c]]
        BY DEF RegInv, OpeningsReconciled
      <4>3. /\ balance'[NewAccount[q][c]] = balance[NewAccount[q][c]]
            /\ ledger'[NewAccount[q][c]] = ledger[NewAccount[q][c]]
        BY <1>17, <3>2
      <4>4. QED
        BY <4>1, <4>2, <4>3
    <3>3. QED
      BY <3>1, <3>2
  <2>3. QED
    BY <2>1, <2>2 DEF OpeningsReconciled, SystemAccounts
<1>19. OpeningsFunded'
  <2>1. SUFFICES ASSUME NEW c \in Currencies
        PROVE  balance'[SystemAccount[c]] + Cardinality(users') * OpeningAmount[c]
                 = SystemBalance[c]
    BY <1>16 DEF OpeningsFunded
  <2>2. balance[SystemAccount[c]] + Cardinality(users) * OpeningAmount[c]
          = SystemBalance[c]
    BY DEF RegInv, OpeningsFunded
  <2>3. /\ balance[SystemAccount[c]] \in Int /\ Cardinality(users) \in Nat
        /\ OpeningAmount[c] \in Nat
    BY <1>1, <1>15, FS_CardinalityType DEF RegInv
  <2>4. (Cardinality(users) + 1) * OpeningAmount[c]
          = Cardinality(users) * OpeningAmount[c] + OpeningAmount[c]
    BY <2>3
  <2>5. Cardinality(users) * OpeningAmount[c] \in Int
    BY <2>3
  <2>6. QED
    BY <1>7, <1>16, <2>2, <2>3, <2>4, <2>5
<1>20. QED
  BY <1>2, <1>6, <1>7, <1>8, <1>9, <1>10, <1>11, <1>12, <1>13, <1>14, <1>18,
     <1>19
     DEF RegInv

----------------------------------------------------------------------------
(* The initial state, the steps and the theorems. *)

\* A bank without users.
LEMMA RegInvInit == RegisterInit => RegInv
<1> SUFFICES ASSUME RegisterInit PROVE RegInv
  OBVIOUS
<1> DEFINE initial == [a \in Account |->
                        IF \E c \in Currencies : a = SystemAccount[c]
                        THEN SystemBalance[CHOOSE c \in Currencies : a = SystemAccount[c]]
                        ELSE 0]
<1>1. \A c \in Currencies :
        /\ SystemAccount[c] \in Account
        /\ initial[SystemAccount[c]] = SystemBalance[c]
        /\ SystemBalance[c] \in Nat
  <2>1. SUFFICES ASSUME NEW c \in Currencies
                 PROVE  /\ SystemAccount[c] \in Account
                        /\ initial[SystemAccount[c]] = SystemBalance[c]
                        /\ SystemBalance[c] \in Nat
    OBVIOUS
  <2>2. \A d \in Currencies : SystemAccount[d] = SystemAccount[c] => d = c
    BY AccountTypes DEF Currencies
  <2>3. (CHOOSE d \in Currencies : SystemAccount[c] = SystemAccount[d]) = c
    BY <2>2
  <2>4. QED
    BY <2>3, RegistrationAssumption
<1>2. initial \in [Account -> Int]
  <2>1. \A a \in Account : (\E c \in Currencies : a = SystemAccount[c]) =>
          (CHOOSE c \in Currencies : a = SystemAccount[c]) \in Currencies
    OBVIOUS
  <2>2. SystemBalance \in [Currencies -> Nat]
    BY RegistrationAssumption
  <2>3. QED
    BY <2>1, <2>2
<1>3. /\ TxInit(initial) /\ ledger = [a \in Account |-> initial[a] - Seed[a]]
      /\ balance = initial
  BY DEF RegisterInit, TxInit
<1>4. TxInv
  BY <1>2, <1>3, TxInitInv
<1>5. \A r \in Request : /\ pc[r] = "idle" /\ answer[r] = "none" /\ attempt[r] = 1
                         /\ locked[r] = {} /\ missed[r] = {}
  BY <1>3 DEF TxInit
<1>6. /\ form \in [Registrant -> Form] /\ users = {} /\ superAdmins = {}
      /\ makesAdmin = [r \in Registrant |-> FALSE]
  BY DEF RegisterInit, RegistrationInit
<1>7. RegistrationTypeOK
  BY <1>5, <1>6, ResetTypes, AccountTypes
     DEF RegistrationTypeOK, RegistrationAnswers, Outside
<1>8. IsFiniteSet(users) /\ Cardinality(users) = 0
  BY <1>6, FS_EmptySet
<1>9. ledger \in [Account -> Int]
  BY <1>2, <1>3, RegistrationAssumption
<1>10. Locks /\ Funds /\ Finished /\ AdminAsked /\ NameHeld
  BY <1>5, <1>6, AccountTypes
     DEF Locks, Funds, Finished, AdminAsked, NameHeld, USDHeld, EURHeld,
         RegistrationSteps
<1>11. OneSuperAdmin /\ NamesUnique
  BY <1>5, <1>6, AccountTypes DEF OneSuperAdmin, NamesUnique
<1>12. \A r \in Registrant, c \in Currencies :
         /\ NewAccount[r][c] \in Account /\ Seed[NewAccount[r][c]] = 0
         /\ initial[NewAccount[r][c]] = 0
  <2>1. \A r \in Registrant, c \in Currencies :
          /\ NewAccount[r][c] \in Account /\ Seed[NewAccount[r][c]] = 0
          /\ NewAccount[r][c] \notin SystemAccounts
    BY AccountTypes DEF Currencies
  <2>2. QED
    BY <2>1 DEF SystemAccounts
<1>13. OpeningsReconciled
  <2>1. \A a \in SystemAccounts : balance[a] = Seed[a] + ledger[a]
    BY <1>1, <1>2, <1>3, RegistrationAssumption DEF SystemAccounts
  <2>2. ASSUME NEW r \in Registrant, NEW c \in Currencies
        PROVE  balance[NewAccount[r][c]] = 0 /\ ledger[NewAccount[r][c]] = 0
    BY <1>3, <1>12
  <2>3. QED
    BY <1>6, <2>1, <2>2 DEF OpeningsReconciled
<1>14. OpeningsFunded
  <2>1. \A c \in Currencies : OpeningAmount[c] \in Nat
    BY AccountTypes DEF Currencies
  <2>2. \A c \in Currencies : 0 * OpeningAmount[c] = 0
    BY <2>1
  <2>3. \A c \in Currencies : Cardinality(users) * OpeningAmount[c] = 0
    BY <1>8, <2>2
  <2> HIDE <1>8
  <2>4. QED
    BY <1>1, <1>3, <2>3 DEF OpeningsFunded
<1>15. QED
  BY <1>4, <1>7, <1>8, <1>9, <1>10, <1>11, <1>13, <1>14 DEF RegInv

\* Every step of a registration.
LEMMA RegInvStep == RegInv /\ [RegisterNext]_registerVars => RegInv'
<1> SUFFICES ASSUME RegInv, [RegisterNext]_registerVars PROVE RegInv'
  OBVIOUS
<1>1. CASE UNCHANGED registerVars
  <2>1. /\ UNCHANGED <<pc, attempt, answer, balance, snapshot, locked, missed>>
        /\ UNCHANGED <<form, users, superAdmins, makesAdmin, ledger>>
    BY <1>1 DEF registerVars, txVars, registrationVars
  <2>2. TxInv'
    BY <2>1 DEF RegInv, TxInv, TxTypeOK, LocksInTx, LocksExclusive,
                SnapshotCurrent, LockedCurrent, InTx
  <2>3. RegistrationTypeOK' /\ Locks' /\ Funds'
    BY <2>1 DEF RegInv, RegistrationTypeOK, Locks, Funds
  <2>4. Finished' /\ AdminAsked' /\ NameHeld' /\ NamesUnique'
    BY <2>1 DEF RegInv, Finished, AdminAsked, NameHeld, NamesUnique, Taken,
                HoldsName, SameUser
  <2>5. QED
    BY <2>1, <2>2, <2>3, <2>4, BooksUnchanged, AdminsUnchanged
       DEF RegInv, registrationVars
<1>2. ASSUME NEW r \in Registrant, Submit(r) PROVE RegInv'
  BY <1>2, MoveInv DEF Submit, Outside, USDHeld, EURHeld, RegistrationSteps
<1>3. ASSUME NEW r \in Registrant, ValidateForm(r) PROVE RegInv'
  <2>1. CASE Continue(r, "begin")
    BY <1>3, <2>1, MoveInv
       DEF ValidateForm, Outside, USDHeld, EURHeld, RegistrationSteps
  <2>2. CASE Return(r, "invalid_form")
    BY <1>3, <2>2, RefuseInv DEF ValidateForm
  <2>3. QED
    BY <1>3, <2>1, <2>2 DEF ValidateForm
<1>4. ASSUME NEW r \in Registrant, CreateUser(r) PROVE RegInv'
  <2>1. CASE Taken(r) /\ RollbackTx(r, "conflict")
    BY <1>4, <2>1, RollbackInv DEF CreateUser
  <2>2. CASE ~Taken(r) /\ Continue(r, "usdSystem")
    BY <1>4, <2>2, MoveInv
       DEF CreateUser, Outside, USDHeld, EURHeld, RegistrationSteps
  <2>3. QED
    BY <1>4, <2>1, <2>2 DEF CreateUser
<1>5. ASSUME NEW r \in Registrant, FindSystemAccount(r) PROVE RegInv'
  <2>1. CASE pc[r] = "usdSystem"
    <3>1. Continue(r, "usdAdjust") /\ UNCHANGED <<registrationVars, ledger>>
      BY <1>5, <2>1 DEF FindSystemAccount, After
    <3>2. QED
      BY <2>1, <3>1, MoveInv DEF Outside, USDHeld, EURHeld, RegistrationSteps
  <2>2. CASE pc[r] = "eurSystem"
    <3>1. Continue(r, "eurAdjust") /\ UNCHANGED <<registrationVars, ledger>>
      BY <1>5, <2>2 DEF FindSystemAccount, After
    <3>2. QED
      BY <2>2, <3>1, MoveInv DEF Outside, USDHeld, EURHeld, RegistrationSteps
  <2>3. QED
    BY <1>5, <2>1, <2>2 DEF FindSystemAccount
<1>6. ASSUME NEW r \in Registrant, AdjustBalance(r) PROVE RegInv'
  <2>1. CASE RollbackTx(r, "failed")
    BY <1>6, <2>1, RollbackInv DEF AdjustBalance
  <2>2. CASE /\ ~Exhausted(r, AdjustedCurrency(r))
             /\ GetForUpdate(r, SystemAccount[AdjustedCurrency(r)], After(pc[r]))
    BY <1>6, <2>2, AdjustInv DEF AdjustBalance
  <2>3. QED
    BY <1>6, <2>1, <2>2 DEF AdjustBalance
<1>7. ASSUME NEW r \in Registrant, SerializeRegistration(r) PROVE RegInv'
  BY <1>7, RetryInv DEF SerializeRegistration, InTx, Outside
<1>8. ASSUME NEW r \in Registrant, AbandonRegistration(r) PROVE RegInv'
  BY <1>8, RollbackInv DEF AbandonRegistration
<1>9. QED
  BY <1>1, <1>2, <1>3, <1>4, <1>5, <1>6, <1>7, <1>8, BeginInv, HasAnyAdminInv,
     CommitInv
     DEF RegisterNext, Register

\* Of any registrations one at least waits for none of them: the holder of the
\* EUR account, or else of the USD account, or else of a name, waits for no
\* holder of something that comes before.
LEMMA NeverCross == RegInv => RegistrationsNeverCross
<1> SUFFICES ASSUME RegInv, NEW S \in (SUBSET Registrant) \ {{}}
             PROVE  \E r \in S : \A s \in S : ~RegistrationWaitsFor(r, s)
  BY DEF RegistrationsNeverCross
<1>1. \A s \in S : /\ SystemAccount["USD"] \in locked[s] <=> pc[s] \in USDHeld
                   /\ SystemAccount["EUR"] \in locked[s] <=> pc[s] \in EURHeld
  BY DEF RegInv, Locks
<1>2. CASE \E r \in S : pc[r] \notin {"createUser", "usdAdjust", "eurAdjust"}
  BY <1>2 DEF RegistrationWaitsFor
<1>3. CASE \A s \in S : pc[s] \in {"createUser", "usdAdjust", "eurAdjust"}
  <2>1. CASE \E r \in S : pc[r] = "eurAdjust"
    <3>1. PICK r \in S : pc[r] = "eurAdjust"
      BY <2>1
    <3>2. \A s \in S : SystemAccount["EUR"] \notin locked[s]
      BY <1>1, <1>3 DEF EURHeld
    <3>3. QED
      BY <3>1, <3>2 DEF RegistrationWaitsFor, AdjustedCurrency
  <2>2. CASE \A s \in S : pc[s] # "eurAdjust"
    <3>1. \A s \in S : SystemAccount["USD"] \notin locked[s]
      BY <1>1, <1>3, <2>2 DEF USDHeld
    <3>2. CASE \E r \in S : pc[r] = "usdAdjust"
      <4>1. PICK r \in S : pc[r] = "usdAdjust"
        BY <3>2
      <4>2. AdjustedCurrency(r) = "USD"
        BY <4>1 DEF AdjustedCurrency
      <4>3. QED
        BY <3>1, <4>1, <4>2 DEF RegistrationWaitsFor
    <3>3. CASE \A s \in S : pc[s] = "createUser"
      BY <3>3 DEF RegistrationWaitsFor, HoldsName, RegistrationSteps
    <3>4. QED
      BY <1>3, <2>2, <3>2, <3>3
  <2>3. QED
    BY <2>1, <2>2
<1>4. QED
  BY <1>2, <1>3

\* RegInv holds in every reachable state.
THEOREM RegisterAlways == RegisterSpec => []RegInv
<1>1. RegInv /\ [RegisterNext]_registerVars => RegInv'
  BY RegInvStep
<1>2. QED
  BY RegInvInit, <1>1, PTL DEF RegisterSpec

\* The variables have their types, and a registration is attempted at most
\* MaxAttempts times.
THEOREM RegistrationTypes == RegisterSpec => []RegistrationTypeOK
<1>1. RegInv => RegistrationTypeOK
  BY DEF RegInv
<1>2. QED
  BY RegisterAlways, <1>1, PTL

\* As soon as there is a user there is exactly one super admin (README.md:35),
\* although HasAnyAdmin asks outside the transaction.
THEOREM OneSuperAdminEver == RegisterSpec => []OneSuperAdmin
<1>1. RegInv => OneSuperAdmin
  BY DEF RegInv
<1>2. QED
  BY RegisterAlways, <1>1, PTL

\* Ledger and balances of the accounts that registrations touch agree.
THEOREM OpeningsReconcile == RegisterSpec => []OpeningsReconciled
<1>1. RegInv => OpeningsReconciled
  BY DEF RegInv
<1>2. QED
  BY RegisterAlways, <1>1, PTL

\* Every opening balance comes out of the bank's system accounts, which are
\* never overdrawn, however many users register.
THEOREM OpeningsAreFunded == RegisterSpec => []OpeningsFunded
<1>1. RegInv => OpeningsFunded
  BY DEF RegInv
<1>2. QED
  BY RegisterAlways, <1>1, PTL

\* No two users share a username or an email, and the answers of Register say
\* the truth about that.
THEOREM NamesStayUnique == RegisterSpec => []NamesUnique
<1>1. RegInv => NamesUnique
  BY DEF RegInv
<1>2. QED
  BY RegisterAlways, <1>1, PTL

\* Registrations alone never deadlock.
THEOREM RegistrationsNeverDeadlock == RegisterSpec => []RegistrationsNeverCross
BY RegisterAlways, NeverCross, PTL

=============================================================================
