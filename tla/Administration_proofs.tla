------------------------ MODULE Administration_proofs ------------------------
(***************************************************************************)
(* Proofs about Administration, for any number of registrations and         *)
(* commands.  RegInv survives the commands, which write none of the tables  *)
(* it speaks of; AdminInv adds what the commands rely on.  Its heart is     *)
(* Checked: what a command has checked stays true until it commits, because *)
(* a super admin is never demoted, a user never removed, and a registration *)
(* makes nobody super who was a user before.                                *)
(***************************************************************************)
EXTENDS Administration, Registration_proofs

Deciding == {"begin", "insertRow", "commitCommand"}

CommandTypeOK ==
  /\ DOMAIN command = Commander
  /\ stage \in [Commander -> {"required", "super", "target"}]
  /\ \A r \in Commander :
       /\ pc[r] \in Outside \cup Deciding
       /\ pc[r] = "idle" => stage[r] = "required"
       /\ answer[r] = "ok" => pc[r] = "done"
       /\ pc[r] # "idle" =>
            /\ command[r] \in Commands
            /\ command[r].actor \in users
            /\ \E c \in Command : c.op = command[r].op /\ c.role = command[r].role

\* What the checks of a command found is still so.
Checked ==
  \A r \in Commander :
    /\ pc[r] = "start" /\ stage[r] = "target" => command[r].actor \in superAdmins
    /\ pc[r] \in Deciding =>
         /\ command[r].actor \in superAdmins
         /\ command[r].op = "promote" => command[r].target \in users
         /\ command[r].op = "grant" => command[r].target \in promoted

\* A promotion that only has to commit is nobody else's.
Inserted ==
  \A r \in Commander :
    pc[r] = "commitCommand" /\ command[r].op = "promote" =>
      /\ ~IsAdmin(command[r].target)
      /\ \A s \in Commander \ {r} :
           ~(/\ pc[s] = "commitCommand"
             /\ command[s].op = "promote"
             /\ command[s].target = command[r].target)

AdminInv ==
  /\ RegInv
  /\ CommandTypeOK
  /\ superAdmins \subseteq users
  /\ Checked
  /\ Inserted
  /\ \A entry \in audit : entry.id \in Commander /\ pc[entry.id] = "done"
  /\ AppointedBySuper
  /\ RolesForAdmins
  /\ Audited

----------------------------------------------------------------------------
(* The steps of a registration. *)

\* What a registration does to what the commands read: it moves no command,
\* and whoever becomes super was no user before.
LEMMA RegistrationFrame ==
  ASSUME RegInv, superAdmins \subseteq users, RegisterNext
  PROVE  /\ \A s \in Commander : pc'[s] = pc[s] /\ answer'[s] = answer[s]
         /\ users \subseteq users'
         /\ superAdmins \subseteq superAdmins'
         /\ superAdmins' \subseteq users'
         /\ superAdmins' \cap users = superAdmins
<1>1. PICK r \in Registrant : Submit(r) \/ Register(r) \/ AbandonRegistration(r)
  BY DEF RegisterNext
<1>2. pc = [q \in Request |-> pc[q]] /\ answer = [q \in Request |-> answer[q]]
  BY DEF RegInv, TxInv, TxTypeOK
<1> DEFINE Alone == \A s \in Request \ {r} : pc'[s] = pc[s] /\ answer'[s] = answer[s]
           Kept == users' = users /\ superAdmins' = superAdmins
<1>3. CASE ~CommitRegistration(r)
  <2>1. ASSUME Submit(r) PROVE Alone /\ Kept
    BY <1>2, <2>1 DEF Submit, Continue, Goto, registrationVars
  <2>2. ASSUME ValidateForm(r) PROVE Alone /\ Kept
    BY <1>2, <2>2 DEF ValidateForm, Continue, Return, Goto, registrationVars
  <2>3. ASSUME BeginRegistration(r) PROVE Alone /\ Kept
    BY <1>2, <2>3 DEF BeginRegistration, BeginTx, Goto, registrationVars
  <2>4. ASSUME CreateUser(r) PROVE Alone /\ Kept
    BY <1>2, <2>4 DEF CreateUser, Continue, RollbackTx, Goto, registrationVars
  <2>5. ASSUME FindSystemAccount(r) PROVE Alone /\ Kept
    BY <1>2, <2>5 DEF FindSystemAccount, Continue, Goto, registrationVars
  <2>6. ASSUME AdjustBalance(r) PROVE Alone /\ Kept
    BY <1>2, <2>6 DEF AdjustBalance, GetForUpdate, RollbackTx, Goto, registrationVars
  <2>7. ASSUME HasAnyAdmin(r) PROVE Alone /\ Kept
    BY <1>2, <2>7 DEF HasAnyAdmin, Continue, Goto
  <2>8. ASSUME SerializeRegistration(r) PROVE Alone /\ Kept
    BY <1>2, <2>8 DEF SerializeRegistration, RetryRegistration, RetryTx, Goto,
                      registrationVars
  <2>9. ASSUME AbandonRegistration(r) PROVE Alone /\ Kept
    BY <1>2, <2>9 DEF AbandonRegistration, RollbackTx, Goto, registrationVars
  <2>10. Alone /\ Kept
    <3> HIDE DEF Alone, Kept
    <3> QED
      BY <1>1, <1>3, <2>1, <2>2, <2>3, <2>4, <2>5, <2>6, <2>7, <2>8, <2>9 DEF Register
  <2>11. QED
    BY <2>10 DEF Commander
<1>4. CASE CommitRegistration(r)
  <2>1. r \notin users
    BY <1>4 DEF CommitRegistration, RegInv, Finished
  <2>2. /\ users' = users \cup {r}
        /\ superAdmins' = IF makesAdmin[r] THEN superAdmins \cup {r} ELSE superAdmins
    BY <1>4 DEF CommitRegistration
  <2>3. Alone
    BY <1>2, <1>4 DEF CommitRegistration, CommitTx, Goto
  <2>4. QED
    BY <2>1, <2>2, <2>3 DEF Commander
<1>5. QED
  BY <1>3, <1>4

\* AdminInv survives a registration.
LEMMA RegistrationStep ==
  ASSUME AdminInv, RegisterNext, UNCHANGED <<commandVars, adminTables>>
  PROVE  AdminInv'
<1>1. RegInv'
  BY RegInvStep DEF AdminInv
<1>2. /\ \A s \in Commander : pc'[s] = pc[s] /\ answer'[s] = answer[s]
      /\ users \subseteq users'
      /\ superAdmins \subseteq superAdmins'
      /\ superAdmins' \subseteq users'
      /\ superAdmins' \cap users = superAdmins
  BY RegistrationFrame DEF AdminInv
<1>3. UNCHANGED <<command, stage, sawRole, promoted, roles, audit>>
  BY DEF commandVars, adminTables
<1>4. CommandTypeOK'
  BY <1>2, <1>3 DEF AdminInv, CommandTypeOK
<1>5. Checked'
  BY <1>2, <1>3 DEF AdminInv, Checked
<1>6. Inserted'
  <2>1. \A u \in users : IsAdmin(u)' <=> IsAdmin(u)
    BY <1>2, <1>3 DEF IsAdmin, IsSuper
  <2>2. \A r \in Commander : pc[r] = "commitCommand" /\ command[r].op = "promote"
                            => command[r].target \in users
    BY DEF AdminInv, Checked, Deciding
  <2>3. QED
    BY <1>2, <1>3, <2>1, <2>2 DEF AdminInv, Inserted
<1>7. \A entry \in audit' : entry.id \in Commander /\ pc'[entry.id] = "done"
  BY <1>2, <1>3 DEF AdminInv
<1>8. AppointedBySuper' /\ RolesForAdmins'
  BY <1>2, <1>3 DEF AdminInv, AppointedBySuper, RolesForAdmins
<1>9. Audited'
  BY <1>2, <1>3 DEF AdminInv, Audited, Logged
<1>10. QED
  BY <1>1, <1>2, <1>4, <1>5, <1>6, <1>7, <1>8, <1>9 DEF AdminInv

----------------------------------------------------------------------------
(* The steps of a command. *)

\* RegInv says nothing of the commands but that they lock no account.
LEMMA CommandFrame ==
  ASSUME RegInv, TxInv', UNCHANGED <<registrationVars, ledger, balance>>,
         \A q \in Registrant : /\ pc'[q] = pc[q] /\ answer'[q] = answer[q]
                               /\ attempt'[q] = attempt[q]
                               /\ snapshot'[q] = snapshot[q]
                               /\ locked'[q] = locked[q]
                               /\ missed'[q] \subseteq missed[q],
         \A q \in Commander : locked'[q] = {}
  PROVE  RegInv'
<1>1. UNCHANGED <<form, users, superAdmins, makesAdmin, ledger>>
  BY DEF registrationVars
<1>2. RegistrationTypeOK'
  BY <1>1 DEF RegInv, RegistrationTypeOK
<1>3. Locks' /\ Funds'
  BY <1>1 DEF RegInv, Locks, Funds, Commander
<1>4. Finished' /\ AdminAsked'
  BY <1>1 DEF RegInv, Finished, AdminAsked
<1>5. NameHeld' /\ NamesUnique'
  BY <1>1 DEF RegInv, NameHeld, NamesUnique, Taken, HoldsName, SameUser
<1>6. QED
  BY <1>1, <1>2, <1>3, <1>4, <1>5, BooksUnchanged, AdminsUnchanged DEF RegInv

\* Whatever step of SerializableTx a command takes, it concerns itself.
LEMMA CommandTx ==
  ASSUME RegInv, NEW r \in Commander, UNCHANGED <<registrationVars, ledger>>,
         \/ \E to : Continue(r, to) /\ (to \in Outside <=> pc[r] \in Outside)
         \/ \E error : Return(r, error) /\ pc[r] \in Outside
         \/ \E first : BeginTx(r, first)
         \/ \E error : RollbackTx(r, error)
         \/ RetryTx(r)
         \/ CommitTx(r, {}, snapshot[r])
  PROVE  /\ RegInv'
         /\ \A q \in Request \ {r} : pc'[q] = pc[q] /\ answer'[q] = answer[q]
<1>1. /\ r \in Request /\ r \notin Registrant
      /\ TxInv /\ TxTypeOK /\ snapshot[r] \in [Account -> Int]
      /\ \A q \in Commander : locked[q] = {}
      /\ Registrant \subseteq Request
  BY AccountTypes DEF Commander, RegInv, TxInv, TxTypeOK, Locks
<1> DEFINE Alone == \A q \in Request \ {r} :
             /\ pc'[q] = pc[q] /\ answer'[q] = answer[q] /\ attempt'[q] = attempt[q]
             /\ snapshot'[q] = snapshot[q] /\ locked'[q] = locked[q]
             /\ missed'[q] \subseteq missed[q]
           Good == TxInv' /\ Alone /\ locked'[r] = {} /\ UNCHANGED balance
<1>2. ASSUME NEW to, Continue(r, to), to \in Outside <=> pc[r] \in Outside PROVE Good
  <2>1. TxInv'
    BY <1>1, <1>2, ContinueInv
  <2>2. QED
    BY <1>1, <1>2, <2>1 DEF Continue, Goto, TxTypeOK
<1>3. ASSUME NEW error, Return(r, error), pc[r] \in Outside PROVE Good
  <2>1. TxInv'
    BY <1>1, <1>3, ReturnInv
  <2>2. QED
    BY <1>1, <1>3, <2>1 DEF Return, Goto, TxTypeOK
<1>4. ASSUME NEW first, BeginTx(r, first) PROVE Good
  <2>1. TxInv'
    BY <1>1, <1>4, BeginTxInv
  <2>2. QED
    BY <1>1, <1>4, <2>1 DEF BeginTx, Goto, TxTypeOK
<1>5. ASSUME NEW error, RollbackTx(r, error) PROVE Good
  <2>1. TxInv'
    BY <1>1, <1>5, RollbackTxInv
  <2>2. QED
    BY <1>1, <1>5, <2>1 DEF RollbackTx, EndTx, Goto, TxTypeOK
<1>6. ASSUME RetryTx(r) PROVE Good
  <2>1. TxInv'
    BY <1>1, <1>6, RetryTxInv
  <2>2. QED
    BY <1>1, <1>6, <2>1 DEF RetryTx, EndTx, Goto, TxTypeOK
<1>7. ASSUME CommitTx(r, {}, snapshot[r]) PROVE Good
  <2>1. TxInv'
    <3>1. {} \in SUBSET Account /\ \A s \in Request : s # r => {} \cap locked[s] = {}
      OBVIOUS
    <3>2. QED
      BY <1>1, <1>7, <3>1, CommitUnlockedInv
  <2>2. balance' = balance
    BY <1>1, <1>7 DEF CommitTx, TxTypeOK
  <2>3. missed' = [s \in Request |-> IF s # r /\ InTx(s) THEN missed[s] \cup {} ELSE {}]
    BY <1>7 DEF CommitTx
  <2>4. \A q \in Request \ {r} : missed'[q] \subseteq missed[q]
    BY <2>3
  <2>5. QED
    BY <1>1, <1>7, <2>1, <2>2, <2>4 DEF CommitTx, EndTx, Goto, TxTypeOK
<1>8. Good
  <2> HIDE DEF Good
  <2> QED
    BY <1>2, <1>3, <1>4, <1>5, <1>6, <1>7
<1>9. RegInv'
  <2>1. \A q \in Commander : locked'[q] = {}
    BY <1>1, <1>8 DEF Commander
  <2>2. QED
    BY <1>1, <1>8, <2>1, CommandFrame
<1>10. QED
  BY <1>8, <1>9

\* A step that writes no table, by what it leaves of its own command.
LEMMA QuietInv ==
  ASSUME AdminInv, NEW r \in Commander, RegInv',
         UNCHANGED <<users, superAdmins, promoted, roles, audit>>,
         DOMAIN command' = Commander,
         stage' \in [Commander -> {"required", "super", "target"}],
         \A s \in Commander \ {r} :
           /\ pc'[s] = pc[s] /\ answer'[s] = answer[s]
           /\ command'[s] = command[s] /\ stage'[s] = stage[s],
         pc[r] # "done",
         pc'[r] \in {"start", "done"} \cup Deciding,
         answer'[r] # "ok",
         /\ command'[r] \in Commands
         /\ command'[r].actor \in users
         /\ \E c \in Command : c.op = command'[r].op /\ c.role = command'[r].role,
         pc'[r] = "start" /\ stage'[r] = "target" => command'[r].actor \in superAdmins,
         pc'[r] \in Deciding =>
           /\ command'[r].actor \in superAdmins
           /\ command'[r].op = "promote" => command'[r].target \in users
           /\ command'[r].op = "grant" => command'[r].target \in promoted,
         pc'[r] = "commitCommand" /\ command'[r].op = "promote" =>
           /\ ~IsAdmin(command'[r].target)
           /\ \A s \in Commander \ {r} :
                ~(/\ pc[s] = "commitCommand"
                  /\ command[s].op = "promote"
                  /\ command[s].target = command'[r].target)
  PROVE  AdminInv'
<1>1. CommandTypeOK'
  BY DEF AdminInv, CommandTypeOK, Deciding, Outside
<1>2. Checked'
  BY DEF AdminInv, Checked
<1>3. Inserted'
  BY DEF AdminInv, Inserted, IsAdmin, IsSuper
<1>4. \A entry \in audit' : entry.id \in Commander /\ pc'[entry.id] = "done"
  BY DEF AdminInv
<1>5. AppointedBySuper' /\ RolesForAdmins' /\ superAdmins' \subseteq users'
  BY DEF AdminInv, AppointedBySuper, RolesForAdmins
<1>6. Audited'
  BY DEF AdminInv, Audited, Logged
<1>7. QED
  BY <1>1, <1>2, <1>3, <1>4, <1>5, <1>6 DEF AdminInv

\* A command is issued by a user.
LEMMA IssueInv ==
  ASSUME AdminInv, NEW r \in Commander, Issue(r)
  PROVE  AdminInv'
<1>1. PICK c \in Command : LoggedIn(c.actor) /\ command' = [command EXCEPT ![r] = c]
  BY DEF Issue
<1>2. RegInv' /\ \A q \in Request \ {r} : pc'[q] = pc[q] /\ answer'[q] = answer[q]
  BY CommandTx DEF AdminInv, Issue, Outside
<1>3. /\ pc[r] = "idle" /\ pc'[r] = "start" /\ answer'[r] = answer[r]
      /\ stage[r] = "required" /\ answer[r] # "ok"
      /\ UNCHANGED <<users, superAdmins, promoted, roles, audit, stage>>
  BY DEF Issue, Continue, Goto, AdminInv, CommandTypeOK, RegInv, TxInv, TxTypeOK,
         Commander, registrationVars, adminTables
<1>4. /\ DOMAIN command' = Commander /\ command'[r] = c
      /\ \A s \in Commander \ {r} : command'[s] = command[s]
      /\ stage' \in [Commander -> {"required", "super", "target"}]
      /\ command'[r] \in Commands /\ command'[r].actor \in users
  BY <1>1, <1>3, CommandAssumption DEF AdminInv, CommandTypeOK, LoggedIn
<1>5. QED
  BY <1>2, <1>3, <1>4, QuietInv DEF Commander, Deciding

\* What the guards of a check and its two outcomes do to everything else.
LEMMA CheckFrame ==
  ASSUME AdminInv, NEW r \in Commander, NEW which, Checks(r, which),
         UNCHANGED <<registrationVars, ledger, command, sawRole, adminTables>>
  PROVE  /\ \A error \in {"forbidden", "not_found", "invalid_target"} :
              Return(r, error) /\ UNCHANGED stage => AdminInv'
         /\ \A next \in {"super", "target"} :
              Passes(r, next) /\ (next = "target" => IsSuper(command[r].actor))
                => AdminInv'
<1>1. /\ pc[r] = "start" /\ r \in Request /\ answer[r] # "ok"
      /\ UNCHANGED <<users, superAdmins, promoted, roles, audit, command>>
      /\ DOMAIN command = Commander
      /\ stage \in [Commander -> {"required", "super", "target"}]
      /\ command[r] \in Commands /\ command[r].actor \in users
      /\ \E c \in Command : c.op = command[r].op /\ c.role = command[r].role
      /\ pc = [q \in Request |-> pc[q]] /\ answer = [q \in Request |-> answer[q]]
  BY DEF Checks, AdminInv, CommandTypeOK, Commander, registrationVars, adminTables,
         RegInv, TxInv, TxTypeOK
<1>2. ASSUME NEW error \in {"forbidden", "not_found", "invalid_target"},
             Return(r, error), UNCHANGED stage
      PROVE  AdminInv'
  <2>1. RegInv' /\ \A q \in Request \ {r} : pc'[q] = pc[q] /\ answer'[q] = answer[q]
    BY <1>1, <1>2, CommandTx DEF AdminInv, Outside
  <2>2. pc'[r] = "done" /\ answer'[r] # "ok"
    BY <1>1, <1>2 DEF Return, Goto
  <2>3. QED
    BY <1>1, <1>2, <2>1, <2>2, QuietInv DEF Commander, Deciding
<1>3. ASSUME NEW next \in {"super", "target"}, Passes(r, next),
             next = "target" => IsSuper(command[r].actor)
      PROVE  AdminInv'
  <2>1. UNCHANGED <<pc, attempt, answer, balance, snapshot, locked, missed>>
    BY <1>3 DEF Passes, txVars
  <2>2. RegInv'
    <3>1. TxInv'
      BY <2>1 DEF AdminInv, RegInv, TxInv, TxTypeOK, LocksInTx, LocksExclusive,
                  SnapshotCurrent, LockedCurrent, InTx
    <3>2. \A q \in Commander : locked[q] = {}
      BY DEF AdminInv, RegInv, Locks, Commander
    <3>3. QED
      BY <2>1, <3>1, <3>2, CommandFrame DEF AdminInv
  <2>3. /\ stage' \in [Commander -> {"required", "super", "target"}]
        /\ stage'[r] = next
        /\ \A s \in Commander \ {r} : stage'[s] = stage[s]
    BY <1>1, <1>3 DEF Passes
  <2>4. QED
    BY <1>1, <1>3, <2>1, <2>2, <2>3, QuietInv DEF Deciding, IsSuper
<1>4. QED
  BY <1>2, <1>3

\* RequireAdmin and the check for a super admin.
LEMMA RequireInv ==
  ASSUME AdminInv, NEW r \in Commander, RequireAdmin(r) \/ RequireSuper(r)
  PROVE  AdminInv'
<1>1. CASE RequireAdmin(r)
  BY <1>1, CheckFrame DEF RequireAdmin
<1>2. CASE RequireSuper(r)
  BY <1>2, CheckFrame DEF RequireSuper, MayAppoint
<1>3. QED
  BY <1>1, <1>2

\* The target of a promotion is a user.
LEMMA FindUserInv ==
  ASSUME AdminInv, NEW r \in Commander, FindUser(r)
  PROVE  AdminInv'
<1>1. CASE Return(r, "not_found") /\ UNCHANGED command
  BY <1>1, CheckFrame DEF FindUser
<1>2. CASE \E u \in Resolved(command[r]) :
             /\ command' = [command EXCEPT ![r].target = u]
             /\ Continue(r, "begin")
  <2>1. PICK u \in Resolved(command[r]) :
          /\ command' = [command EXCEPT ![r].target = u]
          /\ Continue(r, "begin")
    BY <1>2
  <2>2. RegInv' /\ \A q \in Request \ {r} : pc'[q] = pc[q] /\ answer'[q] = answer[q]
    BY <2>1, CommandTx DEF AdminInv, FindUser, Checks, Outside
  <2>3. /\ pc[r] = "start" /\ pc'[r] = "begin" /\ answer'[r] = answer[r]
        /\ stage[r] = "target" /\ answer[r] # "ok" /\ command[r].op = "promote"
        /\ command[r].actor \in superAdmins
        /\ UNCHANGED <<users, superAdmins, promoted, roles, audit, stage>>
        /\ stage \in [Commander -> {"required", "super", "target"}]
    BY <2>1 DEF FindUser, Checks, Continue, Goto, AdminInv, CommandTypeOK, Checked,
         RegInv, TxInv, TxTypeOK, Commander, registrationVars, adminTables
  <2>4. /\ command[r] \in Commands /\ command[r].actor \in users
        /\ \E c \in Command : c.op = command[r].op /\ c.role = command[r].role
        /\ DOMAIN command = Commander
    BY <2>3 DEF AdminInv, CommandTypeOK
  <2>5. u \in users /\ u \in Registrant
    BY DEF Resolved, AdminInv, RegInv, RegistrationTypeOK
  <2>6. command'[r] = [command[r] EXCEPT !.target = u]
    BY <2>1, <2>4
  <2>7. /\ command'[r] \in Commands /\ command'[r].actor = command[r].actor
        /\ command'[r].op = "promote" /\ command'[r].role = command[r].role
        /\ command'[r].target = u
    BY <2>3, <2>4, <2>5, <2>6 DEF Commands
  <2>8. /\ DOMAIN command' = Commander
        /\ \A s \in Commander \ {r} : command'[s] = command[s]
    BY <2>1, <2>4
  <2>9. QED
    BY <2>2, <2>3, <2>4, <2>5, <2>7, <2>8, QuietInv DEF Commander, Deciding
<1>3. QED
  BY <1>1, <1>2 DEF FindUser

\* The facts about a command that the later steps share.
LEMMA CommandFacts ==
  ASSUME AdminInv, NEW r \in Commander, pc[r] # "idle"
  PROVE  /\ r \in Request
         /\ DOMAIN command = Commander
         /\ stage \in [Commander -> {"required", "super", "target"}]
         /\ command[r] \in Commands /\ command[r].actor \in users
         /\ \E c \in Command : c.op = command[r].op /\ c.role = command[r].role
         /\ pc[r] # "done" => answer[r] # "ok"
         /\ pc = [q \in Request |-> pc[q]] /\ answer = [q \in Request |-> answer[q]]
         /\ pc[r] \in Deciding =>
              /\ command[r].actor \in superAdmins
              /\ command[r].op = "promote" => command[r].target \in users
              /\ command[r].op = "grant" => command[r].target \in promoted
BY DEF Commander, AdminInv, CommandTypeOK, Checked, RegInv, TxInv, TxTypeOK

\* The target of a grant is an admin who is not super.
LEMMA CheckTargetInv ==
  ASSUME AdminInv, NEW r \in Commander, CheckTarget(r)
  PROVE  AdminInv'
<1>1. CASE Return(r, "invalid_target")
  BY <1>1, CheckFrame DEF CheckTarget, commandVars
<1>2. CASE TakesRoles(command[r].target) /\ Continue(r, "begin")
  <2>1. RegInv' /\ \A q \in Request \ {r} : pc'[q] = pc[q] /\ answer'[q] = answer[q]
    BY <1>2, CommandTx DEF AdminInv, CheckTarget, Checks, Outside
  <2>2. /\ pc[r] = "start" /\ stage[r] = "target" /\ command[r].op = "grant"
        /\ UNCHANGED <<users, superAdmins, promoted, roles, audit, stage, command>>
    BY DEF CheckTarget, Checks, registrationVars, adminTables, commandVars
  <2>3. pc'[r] = "begin" /\ answer'[r] = answer[r]
    BY <1>2, <2>2, CommandFacts DEF Continue, Goto
  <2>4. command[r].actor \in superAdmins /\ command[r].target \in promoted
    BY <1>2, <2>2 DEF AdminInv, Checked, TakesRoles, IsAdmin, IsSuper
  <2>5. QED
    BY <2>1, <2>2, <2>3, <2>4, CommandFacts, QuietInv DEF Commander, Deciding
<1>3. QED
  BY <1>1, <1>2 DEF CheckTarget

\* A transaction that ends without a commit, or begins.
LEMMA TransactionInv ==
  ASSUME AdminInv, NEW r \in Commander, pc[r] \notin {"idle", "done"},
         UNCHANGED <<registrationVars, ledger, command, stage, adminTables>>,
         \/ BeginTx(r, "insertRow")
         \/ RollbackTx(r, "failed")
         \/ pc[r] \in Deciding /\ RetryTx(r)
  PROVE  AdminInv'
<1>1. RegInv' /\ \A q \in Request \ {r} : pc'[q] = pc[q] /\ answer'[q] = answer[q]
  BY CommandTx DEF AdminInv
<1>2. UNCHANGED <<users, superAdmins, promoted, roles, audit, stage, command>>
  BY DEF registrationVars, adminTables
<1>3. \/ pc[r] \in Deciding /\ pc'[r] \in {"begin", "insertRow"} /\ answer'[r] = answer[r]
      \/ pc'[r] = "done" /\ answer'[r] = "failed"
  BY CommandFacts DEF BeginTx, RollbackTx, RetryTx, RetryLimitError, Goto, Deciding
<1>4. /\ r \in Request /\ DOMAIN command = Commander
      /\ stage \in [Commander -> {"required", "super", "target"}]
      /\ command[r] \in Commands /\ command[r].actor \in users
      /\ \E c \in Command : c.op = command[r].op /\ c.role = command[r].role
      /\ answer[r] # "ok"
      /\ pc[r] \in Deciding =>
           /\ command[r].actor \in superAdmins
           /\ command[r].op = "promote" => command[r].target \in users
           /\ command[r].op = "grant" => command[r].target \in promoted
  BY CommandFacts
<1>5. \A s \in Commander \ {r} : /\ pc'[s] = pc[s] /\ answer'[s] = answer[s]
                                /\ command'[s] = command[s] /\ stage'[s] = stage[s]
  BY <1>1, <1>2 DEF Commander
<1>6. CASE pc'[r] = "done" /\ answer'[r] = "failed"
  BY <1>1, <1>2, <1>4, <1>5, <1>6, QuietInv DEF Deciding
<1>7. CASE pc[r] \in Deciding /\ pc'[r] \in {"begin", "insertRow"} /\ answer'[r] = answer[r]
  BY <1>1, <1>2, <1>4, <1>5, <1>7, QuietInv DEF Deciding
<1>8. QED
  BY <1>3, <1>6, <1>7

\* The row is inserted: nobody else's uncommitted one is in the way.
LEMMA InsertInv ==
  ASSUME AdminInv, NEW r \in Commander, CreateAdmin(r) \/ GrantRole(r)
  PROVE  AdminInv'
<1>1. /\ pc[r] = "insertRow"
      /\ UNCHANGED <<registrationVars, ledger, command, stage, adminTables>>
  BY DEF CreateAdmin, GrantRole, Inserts, commandVars
<1>2. CASE RollbackTx(r, "failed") \/ RetryTx(r)
  BY <1>1, <1>2, TransactionInv DEF Deciding
<1>3. CASE Continue(r, "commitCommand")
  <2>1. RegInv' /\ \A q \in Request \ {r} : pc'[q] = pc[q] /\ answer'[q] = answer[q]
    BY <1>1, <1>3, CommandTx DEF AdminInv, Outside
  <2>2. UNCHANGED <<users, superAdmins, promoted, roles, audit, stage, command>>
    BY <1>1 DEF registrationVars, adminTables
  <2>3. pc'[r] = "commitCommand" /\ answer'[r] = answer[r]
    BY <1>1, <1>3, CommandFacts DEF Continue, Goto
  <2>4. ASSUME command[r].op = "promote"
        PROVE  /\ ~IsAdmin(command[r].target)
               /\ \A s \in Commander \ {r} :
                    ~(/\ pc[s] = "commitCommand"
                      /\ command[s].op = "promote"
                      /\ command[s].target = command[r].target)
    <3>1. /\ ~AdminExists(r)
          /\ \A s \in Commander : ~HoldsRow(s, r)
      <4>1. ~GrantRole(r)
        BY <2>4 DEF GrantRole, Inserts
      <4>2. pc'[r] # "done"
        BY <2>3
      <4>3. ~RollbackTx(r, "failed")
        BY <1>1, <4>2, CommandFacts DEF RollbackTx, Goto
      <4>4. QED
        BY <4>1, <4>3 DEF CreateAdmin, Inserts
    <3>2. ASSUME NEW s \in Commander \ {r}, pc[s] = "commitCommand",
                 command[s].op = "promote"
          PROVE  command[s].role = command[r].role
      <4>1. PICK c \in Command : c.op = "promote" /\ c.role = command[r].role
        BY <1>1, <2>4, CommandFacts
      <4>2. PICK d \in Command : d.op = "promote" /\ d.role = command[s].role
        BY <3>2, CommandFacts
      <4>3. QED
        BY <4>1, <4>2, CommandAssumption
    <3>3. QED
      BY <2>4, <3>1, <3>2 DEF AdminExists, HoldsRow
  <2>5. /\ r \in Request /\ DOMAIN command = Commander
        /\ stage \in [Commander -> {"required", "super", "target"}]
        /\ command[r] \in Commands /\ command[r].actor \in users
        /\ \E c \in Command : c.op = command[r].op /\ c.role = command[r].role
        /\ answer[r] # "ok"
        /\ pc[r] \in Deciding =>
             /\ command[r].actor \in superAdmins
             /\ command[r].op = "promote" => command[r].target \in users
             /\ command[r].op = "grant" => command[r].target \in promoted
    BY <1>1, CommandFacts
  <2>6. \A s \in Commander \ {r} : /\ pc'[s] = pc[s] /\ answer'[s] = answer[s]
                                  /\ command'[s] = command[s] /\ stage'[s] = stage[s]
    BY <1>1, <2>1 DEF Commander
  <2>7. QED
    BY <1>1, <2>1, <2>2, <2>3, <2>4, <2>5, <2>6, QuietInv DEF Deciding
<1>4. QED
  BY <1>2, <1>3 DEF CreateAdmin, GrantRole

\* The commit: what the checks found long ago is still so.
LEMMA CommitCommandInv ==
  ASSUME AdminInv, NEW r \in Commander, CommitCommand(r)
  PROVE  AdminInv'
<1>1. /\ pc[r] = "commitCommand" /\ CommitTx(r, {}, snapshot[r])
      /\ UNCHANGED <<users, superAdmins, stage, command>>
      /\ UNCHANGED <<registrationVars, ledger>>
      /\ audit' = audit \cup {Logged(r)}
  BY DEF CommitCommand, registrationVars, commandVars
<1>2. RegInv' /\ \A q \in Request \ {r} : pc'[q] = pc[q] /\ answer'[q] = answer[q]
  BY <1>1, CommandTx DEF AdminInv
<1>3. /\ r \in Request /\ command[r] \in Commands /\ command[r].actor \in superAdmins
      /\ command[r].op = "promote" => command[r].target \in users
      /\ command[r].op = "grant" => command[r].target \in promoted
  BY <1>1, CommandFacts DEF Deciding
<1>4. pc'[r] = "done" /\ answer'[r] \in {"ok", "failed"}
  BY <1>1, CommandFacts DEF CommitTx, Goto
<1>5. \A s \in Commander \ {r} : pc'[s] = pc[s] /\ answer'[s] = answer[s]
  BY <1>2 DEF Commander
<1>6. /\ Logged(r) = [id |-> r, actor |-> command[r].actor, action |-> command[r].op,
                      target |-> command[r].target]
      /\ \A s : Logged(s)' = Logged(s)
  BY <1>1 DEF Logged
<1>7. command[r].op \in {"promote", "grant"}
  BY <1>3 DEF Commands
<1>8. CommandTypeOK'
  BY <1>1, <1>4, <1>5 DEF AdminInv, CommandTypeOK, Outside
<1>9. \A entry \in audit' : entry.id \in Commander /\ pc'[entry.id] = "done"
  BY <1>1, <1>4, <1>5, <1>6 DEF AdminInv
<1>10. AppointedBySuper'
  BY <1>1, <1>3, <1>6 DEF AdminInv, AppointedBySuper
<1>11. \A s \in Commander : answer'[s] = "ok" => Logged(s)' \in audit'
  BY <1>1, <1>5, <1>6 DEF AdminInv, Audited
<1>12. CASE command[r].op = "promote"
  <2>1. promoted' = promoted \cup {command[r].target} /\ roles' = roles
    BY <1>12 DEF CommitCommand
  <2>2. command[r].target \notin promoted /\ command[r].target \notin superAdmins
    BY <1>1, <1>12 DEF AdminInv, Inserted, IsAdmin, IsSuper
  <2>3. Checked'
    BY <1>1, <1>4, <1>5, <2>1 DEF AdminInv, Checked, Deciding
  <2>4. Inserted'
    <3>1. SUFFICES ASSUME NEW s \in Commander, pc'[s] = "commitCommand",
                          command[s].op = "promote"
                   PROVE  /\ ~IsAdmin(command[s].target)'
                          /\ \A q \in Commander \ {s} :
                               ~(/\ pc'[q] = "commitCommand"
                                 /\ command[q].op = "promote"
                                 /\ command[q].target = command[s].target)
      BY <1>1 DEF Inserted
    <3>2. s # r /\ pc[s] = "commitCommand"
      BY <1>4, <1>5, <3>1
    <3>3. /\ ~IsAdmin(command[s].target)
          /\ \A q \in Commander \ {s} :
               ~(/\ pc[q] = "commitCommand"
                 /\ command[q].op = "promote"
                 /\ command[q].target = command[s].target)
      BY <3>1, <3>2 DEF AdminInv, Inserted
    <3>4. command[r].target # command[s].target
      BY <1>1, <1>12, <3>2, <3>3
    <3>5. QED
      BY <1>1, <1>4, <1>5, <2>1, <3>3, <3>4 DEF IsAdmin, IsSuper
  <2>5. RolesForAdmins'
    BY <1>1, <1>3, <1>12, <2>1, <2>2 DEF AdminInv, RolesForAdmins
  <2>6. Audited'
    <3>1. /\ Logged(r).action = "promote" /\ Logged(r).target = command[r].target
      BY <1>6, <1>12
    <3>2. promoted' = {e.target : e \in {e \in audit' : e.action = "promote"}}
      BY <1>1, <2>1, <3>1 DEF AdminInv, Audited
    <3>3. \A e \in audit : e.action = "promote" => e.target # command[r].target
      BY <2>2 DEF AdminInv, Audited
    <3>4. \A e, f \in audit' : e.action = "promote" /\ f.action = "promote"
                               /\ e.target = f.target => e = f
      BY <1>1, <3>1, <3>3 DEF AdminInv, Audited
    <3>5. \A row \in roles' : \E e \in audit' : e.action = "grant" /\ e.target = row[1]
      BY <1>1, <2>1 DEF AdminInv, Audited
    <3>6. QED
      BY <1>11, <3>2, <3>4, <3>5 DEF Audited
  <2>7. QED
    BY <1>1, <1>2, <1>8, <1>9, <1>10, <2>3, <2>4, <2>5, <2>6 DEF AdminInv
<1>13. CASE command[r].op = "grant"
  <2>1. promoted' = promoted /\ roles' = roles \cup {Role(r)}
    BY <1>13 DEF CommitCommand
  <2>2. Role(r)[1] = command[r].target
    BY DEF Role
  <2>3. Checked'
    BY <1>1, <1>4, <1>5, <2>1 DEF AdminInv, Checked, Deciding
  <2>4. Inserted'
    BY <1>1, <1>4, <1>5, <2>1 DEF AdminInv, Inserted, IsAdmin, IsSuper
  <2>5. RolesForAdmins'
    BY <1>1, <1>3, <1>13, <2>1, <2>2 DEF AdminInv, RolesForAdmins
  <2>6. Audited'
    <3>1. Logged(r).action = "grant" /\ Logged(r).target = command[r].target
      BY <1>6, <1>13
    <3>2. {e \in audit' : e.action = "promote"} = {e \in audit : e.action = "promote"}
      BY <1>1, <3>1
    <3>3. promoted' = {e.target : e \in {e \in audit' : e.action = "promote"}}
      BY <2>1, <3>2 DEF AdminInv, Audited
    <3>4. \A e, f \in audit' : e.action = "promote" /\ f.action = "promote"
                               /\ e.target = f.target => e = f
      BY <1>1, <3>1 DEF AdminInv, Audited
    <3>5. \A row \in roles' : \E e \in audit' : e.action = "grant" /\ e.target = row[1]
      BY <1>1, <2>1, <2>2, <3>1 DEF AdminInv, Audited
    <3>6. QED
      BY <1>11, <3>3, <3>4, <3>5 DEF Audited
  <2>7. QED
    BY <1>1, <1>2, <1>8, <1>9, <1>10, <2>3, <2>4, <2>5, <2>6 DEF AdminInv
<1>14. QED
  BY <1>7, <1>12, <1>13

----------------------------------------------------------------------------
(* The initial state, the steps and the theorems. *)

\* Nobody is an admin, and nothing has been asked.
LEMMA AdminInvInit == AdminInit => AdminInv
<1> SUFFICES ASSUME AdminInit PROVE AdminInv
  OBVIOUS
<1>1. RegInv
  BY RegInvInit DEF AdminInit
<1>2. \A r \in Commander : pc[r] = "idle" /\ answer[r] = "none"
  BY DEF AdminInit, RegisterInit, TxInit, Commander
<1>3. users = {} /\ superAdmins = {}
  BY DEF AdminInit, RegisterInit, RegistrationInit
<1>4. /\ command = [r \in Commander |-> NoCommand]
      /\ stage = [r \in Commander |-> "required"]
      /\ promoted = {} /\ roles = {} /\ audit = {}
  BY DEF AdminInit
<1>5. CommandTypeOK /\ Checked /\ Inserted
  BY <1>2, <1>4 DEF CommandTypeOK, Checked, Inserted, Deciding, Outside
<1>6. AppointedBySuper /\ RolesForAdmins /\ Audited
  BY <1>2, <1>4 DEF AppointedBySuper, RolesForAdmins, Audited
<1>7. QED
  BY <1>1, <1>3, <1>4, <1>5, <1>6 DEF AdminInv

\* Every step of registrations and commands.
LEMMA AdminInvStep == AdminInv /\ [AdminNext]_adminVars => AdminInv'
<1> SUFFICES ASSUME AdminInv, [AdminNext]_adminVars PROVE AdminInv'
  OBVIOUS
<1>1. CASE UNCHANGED adminVars
  <2>1. /\ UNCHANGED registerVars /\ UNCHANGED <<pc, answer, users, superAdmins>>
        /\ UNCHANGED <<command, stage, promoted, roles, audit>>
    BY <1>1 DEF adminVars, registerVars, txVars, registrationVars, commandVars,
                adminTables
  <2>2. RegInv'
    BY <2>1, RegInvStep DEF AdminInv
  <2>3. CommandTypeOK' /\ Checked' /\ Inserted'
    BY <2>1 DEF AdminInv, CommandTypeOK, Checked, Inserted, IsAdmin, IsSuper
  <2>4. AppointedBySuper' /\ RolesForAdmins' /\ Audited'
    BY <2>1 DEF AdminInv, AppointedBySuper, RolesForAdmins, Audited, Logged
  <2>5. QED
    BY <2>1, <2>2, <2>3, <2>4 DEF AdminInv
<1>2. CASE RegisterNext /\ UNCHANGED <<commandVars, adminTables>>
  BY <1>2, RegistrationStep
<1>3. ASSUME NEW r \in Commander, Administer(r)
      PROVE  AdminInv'
  <2>1. CASE BeginCommand(r)
    BY <2>1, TransactionInv DEF BeginCommand, BeginTx
  <2>2. CASE SerializeCommand(r)
    BY <2>2, TransactionInv DEF SerializeCommand, Deciding, commandVars
  <2>3. CASE AbandonCommand(r)
    BY <2>3, TransactionInv DEF AbandonCommand, commandVars
  <2>4. QED
    BY <1>3, <2>1, <2>2, <2>3, IssueInv, RequireInv, FindUserInv, CheckTargetInv,
       InsertInv, CommitCommandInv
       DEF Administer
<1>4. QED
  BY <1>1, <1>2, <1>3 DEF AdminNext

\* AdminInv holds in every reachable state.
THEOREM AdminAlways == AdminSpec => []AdminInv
<1>1. AdminInv /\ [AdminNext]_adminVars => AdminInv'
  BY AdminInvStep
<1>2. QED
  BY AdminInvInit, <1>1, PTL DEF AdminSpec

\* Everything proved of registrations holds beside the commands too: the
\* commands hold connections and take part in the transactions, and none of
\* them makes a second super admin.
THEOREM RegistrationsBesideCommands ==
  AdminSpec => [](/\ RegistrationTypeOK /\ OneSuperAdmin /\ OpeningsReconciled
                  /\ OpeningsFunded /\ NamesUnique /\ RegistrationsNeverCross)
<1>1. AdminInv => RegInv
  BY DEF AdminInv
<1>2. RegInv => /\ RegistrationTypeOK /\ OneSuperAdmin /\ OpeningsReconciled
                /\ OpeningsFunded /\ NamesUnique
  BY DEF RegInv
<1>3. QED
  BY AdminAlways, <1>1, <1>2, NeverCross, PTL

\* Whoever promotes or grants is super when the row is committed, although the
\* check was made before the transaction (README.md:82-83).
THEOREM OnlySuperAppoints == AdminSpec => []AppointedBySuper
<1>1. AdminInv => AppointedBySuper
  BY DEF AdminInv
<1>2. QED
  BY AdminAlways, <1>1, PTL

\* No user is both super and promoted, and only promoted admins have roles,
\* whatever commands and registrations do at the same time.
THEOREM RolesOfAdminsOnly == AdminSpec => []RolesForAdmins
<1>1. AdminInv => RolesForAdmins
  BY DEF AdminInv
<1>2. QED
  BY AdminAlways, <1>1, PTL

\* The audit log accounts for every admin and role, and for each answered
\* success.
THEOREM AuditComplete == AdminSpec => []Audited
<1>1. AdminInv => Audited
  BY DEF AdminInv
<1>2. QED
  BY AdminAlways, <1>1, PTL

=============================================================================
