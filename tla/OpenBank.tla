------------------------------ MODULE OpenBank ------------------------------
(***************************************************************************)
(* What the backend promises when users register: Bank, where a             *)
(* registration too happens in one step or not at all, and where nobody is  *)
(* paid, or pays, before she has registered.  Backend is shown to implement *)
(* this module.                                                             *)
(***************************************************************************)
EXTENDS Bank

CONSTANTS
  Registrant,     \* the requests that register
  NewAccount,     \* the accounts a registration opens, per currency
  OpeningAmount,  \* what it puts there
  Form,           \* the registrations clients send: [username, email]
  Malformed       \* a username or email that the validator refuses

VARIABLES
  form,           \* what each registrant asks for
  users,          \* the rows of users
  superAdmins     \* the rows of admins with is_super

openBankVars == <<bankVars, form, users, superAdmins>>

Unopened == {NewAccount[r][c] : r \in Registrant \ users, c \in Currency}

\* No user has the name or the email.
Free(f) == /\ f.username # Malformed /\ f.email # Malformed
           /\ \A u \in users : /\ form[u].username # f.username
                               /\ form[u].email # f.email

Open(r, c, f) == Move(f, SystemAccount[c], NewAccount[r][c], OpeningAmount[c])

OpenBankInit == /\ BankInit
                /\ form \in [Registrant -> Form]
                /\ users = {}
                /\ superAdmins = {}

\* A transfer or an exchange, among accounts that are open.
Post(r, i) ==
  /\ PostTransfer(r, i) \/ PostExchange(r, i)
  /\ {i.from, i.to} \cap Unopened = {}
  /\ UNCHANGED <<form, users, superAdmins>>

\* The bank funds the accounts of a new user; the first user is super admin.
Join(r) ==
  /\ r \notin users
  /\ Free(form[r])
  /\ \A c \in Currency : OpeningAmount[c] <= balance[SystemAccount[c]]
  /\ balance' = Open(r, "EUR", Open(r, "USD", balance))
  /\ ledger' = Open(r, "EUR", Open(r, "USD", ledger))
  /\ users' = users \cup {r}
  /\ superAdmins' = IF users = {} THEN {r} ELSE superAdmins
  /\ UNCHANGED <<form, transactions, consumed>>

OpenBankNext == \/ \E r \in Request, i \in Input : Post(r, i)
                \/ \E r \in Registrant : Join(r)

OpenBankSpec == OpenBankInit /\ [][OpenBankNext]_openBankVars

=============================================================================
