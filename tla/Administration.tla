---------------------------- MODULE Administration ----------------------------
(***************************************************************************)
(* PromoteAdmin and GrantRole of internal/handlers/admin.go behind the      *)
(* middlewares Auth and RequireAdmin, beside the registrations that make    *)
(* the users and the super admin.  Every check reads what is committed on a *)
(* connection of its own; only the insert and the audit row share a         *)
(* transaction.                                                             *)
(*                                                                         *)
(* The requests that are no registrants are commands.  Left out: payloads   *)
(* that do not decode, which change nothing, and the text of audit rows.    *)
(***************************************************************************)
EXTENDS Registration

CONSTANTS
  Command, \* what users ask: [op, actor, by, name, target, role]
  NoTarget \* the target of a promotion before its identifier is resolved

Commands == [op : {"promote", "grant"}, actor : Registrant,
             by : {"username", "email"}, name : STRING,
             target : Registrant \cup {NoTarget}, role : STRING]

ASSUME CommandAssumption ==
  /\ Command \subseteq Commands
  /\ NoTarget \notin Registrant
  /\ \A c \in Command : c.op = "grant" <=> c.target \in Registrant
  /\ \A c, d \in Command : c.op = "promote" /\ d.op = "promote" => c.role = d.role

VARIABLES
  command,  \* what each command request asks
  stage,    \* the next check of a command that has not begun its transaction
  promoted, \* the rows of admins with is_super = FALSE
  roles,    \* the rows of admin_roles
  sawRole,  \* the role to grant is in the transaction's snapshot
  audit     \* the rows of audit_logs these commands write

commandVars == <<command, stage, sawRole>>
adminTables == <<promoted, roles, audit>>
adminVars == <<registerVars, commandVars, adminTables>>

Commander == Request \ Registrant

NoCommand == [op |-> "none"]

AdminInit ==
  /\ RegisterInit
  /\ command = [r \in Commander |-> NoCommand]
  /\ stage = [r \in Commander |-> "required"]
  /\ promoted = {}
  /\ roles = {}
  /\ sawRole = [r \in Commander |-> FALSE]
  /\ audit = {}

----------------------------------------------------------------------------
(* The checks, each a query on a connection of its own. *)

\* A user who exists can log in and gets a token.
LoggedIn(u) == u \in users

Issue(r) ==
  /\ pc[r] = "idle"
  /\ \E c \in Command : /\ LoggedIn(c.actor)
                        /\ command' = [command EXCEPT ![r] = c]
  /\ Continue(r, "start")
  /\ UNCHANGED <<registrationVars, ledger, stage, sawRole, adminTables>>

IsSuper(u) == u \in superAdmins
IsAdmin(u) == IsSuper(u) \/ u \in promoted

Checks(r, which) == /\ pc[r] = "start"
                    /\ stage[r] = which
                    /\ FreeConns > 0

Passes(r, next) == /\ stage' = [stage EXCEPT ![r] = next]
                   /\ UNCHANGED txVars

\* RequireAdmin(h.admin, "")
RequireAdmin(r) ==
  /\ Checks(r, "required")
  /\ \/ IsAdmin(command[r].actor) /\ Passes(r, "super")
     \/ ~IsAdmin(command[r].actor) /\ Return(r, "forbidden") /\ UNCHANGED stage
  /\ UNCHANGED <<registrationVars, ledger, command, sawRole, adminTables>>

\* Mutant: any admin may appoint others.
MayAppointAdmin(u) == IsAdmin(u)

MayAppoint(u) == IsSuper(u)

RequireSuper(r) ==
  /\ Checks(r, "super")
  /\ \/ MayAppoint(command[r].actor) /\ Passes(r, "target")
     \/ ~MayAppoint(command[r].actor) /\ Return(r, "forbidden") /\ UNCHANGED stage
  /\ UNCHANGED <<registrationVars, ledger, command, sawRole, adminTables>>

\* resolveUserID: an identifier with an @ is an email, any other a username.
Resolved(c) == {u \in users : IF c.by = "email" THEN form[u].email = c.name
                                                ELSE form[u].username = c.name}

FindUser(r) ==
  /\ command[r].op = "promote"
  /\ Checks(r, "target")
  /\ \/ /\ Resolved(command[r]) = {}
        /\ Return(r, "not_found")
        /\ UNCHANGED command
     \/ \E u \in Resolved(command[r]) :
          /\ command' = [command EXCEPT ![r].target = u]
          /\ Continue(r, "begin")
  /\ UNCHANGED <<registrationVars, ledger, stage, sawRole, adminTables>>

\* Mutant: the target may be a super admin.
TakesRolesAny(u) == IsAdmin(u)

\* GrantRole: only an admin who is not super takes roles.
TakesRoles(u) == IsAdmin(u) /\ ~IsSuper(u)

CheckTarget(r) ==
  /\ command[r].op = "grant"
  /\ Checks(r, "target")
  /\ \/ TakesRoles(command[r].target) /\ Continue(r, "begin")
     \/ ~TakesRoles(command[r].target) /\ Return(r, "invalid_target")
  /\ UNCHANGED <<registrationVars, ledger, commandVars, adminTables>>

----------------------------------------------------------------------------
(* The transaction. *)

Role(r) == <<command[r].target, command[r].role>>

BeginCommand(r) ==
  /\ BeginTx(r, "insertRow")
  /\ sawRole' = [sawRole EXCEPT ![r] = command[r].op = "grant" /\ Role(r) \in roles]
  /\ UNCHANGED <<registrationVars, ledger, command, stage, adminTables>>

\* An insert waits for an open transaction that has inserted the same row.
HoldsRow(s, r) == /\ s # r
                  /\ pc[s] = "commitCommand"
                  /\ command[s].op = command[r].op
                  /\ command[s].target = command[r].target
                  /\ command[s].role = command[r].role

Inserts(r, op) == /\ pc[r] = "insertRow"
                  /\ command[r].op = op
                  /\ \A s \in Commander : ~HoldsRow(s, r)

\* Mutant: CreateAdmin does nothing on a conflict.
AdminExistsIgnored(r) == FALSE

\* The primary key of admins, 23505.
AdminExists(r) == IsAdmin(command[r].target)

\* AdminStore.CreateAdmin
CreateAdmin(r) ==
  /\ Inserts(r, "promote")
  /\ \/ AdminExists(r) /\ RollbackTx(r, "failed")
     \/ ~AdminExists(r) /\ Continue(r, "commitCommand")
  /\ UNCHANGED <<registrationVars, ledger, commandVars, adminTables>>

\* AdminStore.GrantRole: ON CONFLICT DO NOTHING accepts a row it can see; of
\* one committed since the snapshot it reports 40001.
GrantRole(r) ==
  /\ Inserts(r, "grant")
  /\ \/ (Role(r) \in roles => sawRole[r]) /\ Continue(r, "commitCommand")
     \/ Role(r) \in roles /\ ~sawRole[r] /\ RetryTx(r)
  /\ UNCHANGED <<registrationVars, ledger, commandVars, adminTables>>

\* AuditStore.Log, the other write of the transaction.
Logged(r) == [id |-> r, actor |-> command[r].actor, action |-> command[r].op,
              target |-> command[r].target]

CommitCommand(r) ==
  /\ pc[r] = "commitCommand"
  /\ CommitTx(r, {}, snapshot[r])
  /\ \/ /\ command[r].op = "promote"
        /\ promoted' = promoted \cup {command[r].target}
        /\ UNCHANGED roles
     \/ /\ command[r].op = "grant"
        /\ roles' = roles \cup {Role(r)}
        /\ UNCHANGED promoted
  /\ audit' = audit \cup {Logged(r)}
  /\ UNCHANGED <<registrationVars, ledger, commandVars>>

\* 40001
SerializeCommand(r) ==
  /\ pc[r] \in {"insertRow", "commitCommand"}
  /\ RetryTx(r)
  /\ UNCHANGED <<registrationVars, ledger, commandVars, adminTables>>

\* The client disconnects, or the connection or the server is lost.
AbandonCommand(r) ==
  /\ pc[r] \notin {"idle", "done"}
  /\ RollbackTx(r, "failed")
  /\ UNCHANGED <<registrationVars, ledger, commandVars, adminTables>>

Administer(r) ==
  \/ Issue(r) \/ RequireAdmin(r) \/ RequireSuper(r) \/ FindUser(r)
  \/ CheckTarget(r) \/ BeginCommand(r) \/ CreateAdmin(r) \/ GrantRole(r)
  \/ CommitCommand(r) \/ SerializeCommand(r) \/ AbandonCommand(r)

AdminNext ==
  \/ RegisterNext /\ UNCHANGED <<commandVars, adminTables>>
  \/ \E r \in Commander : Administer(r)

AdminSpec == AdminInit /\ [][AdminNext]_adminVars

----------------------------------------------------------------------------
(* Properties. *)

\* "super admin only" (README.md:82-83): whoever has promoted an admin or
\* granted a role is super, although the check and the insert are far apart.
AppointedBySuper == \A entry \in audit : entry.actor \in superAdmins

\* Roles belong to admins who are not super ("cannot assign roles to super
\* admin", admin.go:109), and nobody is both super and promoted.
RolesForAdmins ==
  /\ promoted \subseteq users \ superAdmins
  /\ \A row \in roles : row[1] \in promoted

\* The audit log tells who is admin and why: there is one promotion per
\* promoted admin, a grant for each role, and whatever is answered with
\* success is there.
Audited ==
  /\ promoted = {entry.target : entry \in {e \in audit : e.action = "promote"}}
  /\ \A e, f \in audit : e.action = "promote" /\ f.action = "promote"
                         /\ e.target = f.target => e = f
  /\ \A row \in roles : \E e \in audit : e.action = "grant" /\ e.target = row[1]
  /\ \A r \in Commander : answer[r] = "ok" => Logged(r) \in audit

=============================================================================
