------------------------------- MODULE Migration -------------------------------
(***************************************************************************)
(* cmd/migrate/main.go over migrations/001_init.sql and 002_minor_units.sql. *)
(* A migrator applies the files in the order of their names, statement by   *)
(* statement, each committed by itself, and then records the file.  It ends *)
(* at the first error (log.Fatalf), it may be killed anywhere, and it may   *)
(* be started again or twice at once.                                       *)
(*                                                                         *)
(* A statement that looks whether its object exists and then makes it, is   *)
(* two steps, since another migrator may come between.  The Down sections   *)
(* are never run.                                                           *)
(***************************************************************************)
EXTENDS Integers, Sequences

CONSTANTS
  Migrator,   \* the processes
  MaxCrashes  \* how often one of them is killed; TLC's bound

ASSUME MigrationAssumption == MaxCrashes \in Nat

File == 1..2

Currencies == {"USD", "EUR"}
Columns == {"accounts", "transactions", "ledger_entries"}

\* The statements of a file: what they do and to what.
Statements == <<
  << <<"create", "pgcrypto">>, <<"create", "users">>, <<"create", "accounts">>,
     <<"create", "exchange_rates">>, <<"create", "exchange_rates_active_idx">>,
     <<"create", "transactions">>, <<"create", "transactions_idempotency_idx">>,
     <<"create", "transactions_user_idx">>, <<"create", "ledger_entries">>,
     <<"create", "ledger_transaction_idx">>, <<"create", "ledger_account_idx">>,
     <<"create", "ledger_currency_idx">>, <<"create", "admins">>,
     <<"create", "admin_roles">>, <<"create", "audit_logs">>,
     <<"create", "audit_logs_actor_idx">>, <<"seed", "USD">>,
     <<"seed", "EUR">>, <<"rate", "USDEUR">> >>,
  << <<"convert", "accounts">>, <<"convert", "transactions">>,
     <<"convert", "ledger_entries">>, <<"create", "exchange_quotes">>,
     <<"create", "exchange_quotes_user_idx">>, <<"rate", "USDEUR">> >> >>

Creations(f) == {n \in 1..Len(Statements[f]) : Statements[f][n][1] = "create"}

\* The extension, the tables and the indexes a file creates.
Objects(f) == {Statements[f][n][2] : n \in Creations(f)}

VARIABLES
  pc,         \* where a migrator is
  file,       \* the file it is at
  statement,  \* the statement of the file it is at
  absent,     \* the statement has looked and found nothing
  recorded,   \* the rows of schema_migrations
  objects,    \* the extension, tables and indexes that exist
  seeds,      \* the system accounts per currency
  rates,      \* the active exchange rates
  scale,      \* how often a column has been multiplied by 100
  crashes,    \* how often a migrator was killed
  overlapped  \* two migrators have run at once

position == <<pc, file, statement, absent>>
database == <<recorded, objects, seeds, rates, scale>>
history == <<crashes, overlapped>>
migrationVars == <<position, database, history>>

Init ==
  /\ pc = [m \in Migrator |-> "down"]
  /\ file = [m \in Migrator |-> 1]
  /\ statement = [m \in Migrator |-> 1]
  /\ absent = [m \in Migrator |-> FALSE]
  /\ recorded \in {{}, {1}}
  /\ objects = IF recorded = {} THEN {} ELSE Objects(1)
  /\ seeds = [c \in Currencies |-> IF recorded = {} THEN 0 ELSE 1]
  /\ rates = IF recorded = {} THEN 0 ELSE 1
  /\ scale = [c \in Columns |-> 0]
  /\ crashes = 0
  /\ overlapped = FALSE

----------------------------------------------------------------------------
(* The loop over the files. *)

Running(m) == pc[m] \notin {"down", "done"}

Goto(m, where) == pc' = [pc EXCEPT ![m] = where]

\* Connect, and CREATE TABLE IF NOT EXISTS schema_migrations.
Start(m) ==
  /\ pc[m] = "down"
  /\ Goto(m, "check")
  /\ file' = [file EXCEPT ![m] = 1]
  /\ overlapped' = (overlapped \/ \E n \in Migrator : Running(n))
  /\ UNCHANGED <<statement, absent, database, crashes>>

Applied(f) == f \in recorded

NextFile(m) ==
  IF file[m] = Len(Statements)
  THEN Goto(m, "done") /\ UNCHANGED file
  ELSE Goto(m, "check") /\ file' = [file EXCEPT ![m] = @ + 1]

Check(m) ==
  /\ pc[m] = "check"
  /\ \/ Applied(file[m]) /\ NextFile(m) /\ UNCHANGED statement
     \/ /\ ~Applied(file[m])
        /\ Goto(m, "apply")
        /\ statement' = [statement EXCEPT ![m] = 1]
        /\ UNCHANGED file
  /\ UNCHANGED <<absent, database, history>>

\* Mutant: an error of a statement is not returned by applyFile.
AfterErrorIgnored == "record"

\* applyFile returns the error, and log.Fatalf ends the process.
AfterError == "down"

Fails(m) == Goto(m, AfterError) /\ absent' = [absent EXCEPT ![m] = FALSE]

\* The primary key of schema_migrations refuses a second record.
Record(m) ==
  /\ pc[m] = "record"
  /\ \/ /\ file[m] \notin recorded
        /\ recorded' = recorded \cup {file[m]}
        /\ NextFile(m)
        /\ UNCHANGED absent
     \/ /\ file[m] \in recorded
        /\ Goto(m, "down")
        /\ UNCHANGED <<absent, file, recorded>>
  /\ UNCHANGED <<statement, objects, seeds, rates, scale, history>>

----------------------------------------------------------------------------
(* applyFile, statement by statement. *)

Current(m) == Statements[file[m]][statement[m]]

At(m, what) == pc[m] = "apply" /\ Current(m)[1] = what

Done(m) ==
  /\ IF statement[m] = Len(Statements[file[m]])
     THEN Goto(m, "record") /\ UNCHANGED statement
     ELSE UNCHANGED pc /\ statement' = [statement EXCEPT ![m] = @ + 1]
  /\ absent' = [absent EXCEPT ![m] = FALSE]

\* Mutant: the tables have no IF NOT EXISTS.
ExistsButTables(m) ==
  CASE Current(m)[1] = "create" -> FALSE
    [] Current(m)[1] = "seed"   -> seeds[Current(m)[2]] > 0
    [] Current(m)[1] = "rate"   -> rates > 0

\* Mutant: the seeds have no WHERE NOT EXISTS.
ExistsButSeeds(m) ==
  CASE Current(m)[1] = "create" -> Current(m)[2] \in objects
    [] Current(m)[1] = "seed"   -> FALSE
    [] Current(m)[1] = "rate"   -> rates > 0

\* IF NOT EXISTS, WHERE NOT EXISTS
Exists(m) ==
  CASE Current(m)[1] = "create" -> Current(m)[2] \in objects
    [] Current(m)[1] = "seed"   -> seeds[Current(m)[2]] > 0
    [] Current(m)[1] = "rate"   -> rates > 0

Look(m) ==
  /\ At(m, "create") \/ At(m, "seed") \/ At(m, "rate")
  /\ ~absent[m]
  /\ \/ Exists(m) /\ Done(m)
     \/ /\ ~Exists(m)
        /\ absent' = [absent EXCEPT ![m] = TRUE]
        /\ UNCHANGED <<pc, statement>>
  /\ UNCHANGED <<file, database, history>>

\* The system catalogs are unique: of two creations one fails.
Create(m) ==
  /\ At(m, "create") /\ absent[m]
  /\ \/ Current(m)[2] \notin objects /\ Done(m)
     \/ Current(m)[2] \in objects /\ Fails(m) /\ UNCHANGED statement
  /\ objects' = objects \cup {Current(m)[2]}
  /\ UNCHANGED <<file, recorded, seeds, rates, scale, history>>

\* No index keeps the system accounts apart.
SeedAccount(m) ==
  /\ At(m, "seed") /\ absent[m]
  /\ Done(m)
  /\ seeds' = [seeds EXCEPT ![Current(m)[2]] = @ + 1]
  /\ UNCHANGED <<file, recorded, objects, rates, scale, history>>

\* exchange_rates_active_idx does keep the active rates apart.
SeedRate(m) ==
  /\ At(m, "rate") /\ absent[m]
  /\ \/ rates = 0 /\ Done(m)
     \/ rates > 0 /\ Fails(m) /\ UNCHANGED statement
  /\ rates' = 1
  /\ UNCHANGED <<file, recorded, objects, seeds, scale, history>>

\* An INSERT that is under way keeps ALTER TABLE waiting.
Writes(m, column) ==
  column = "accounts" /\ At(m, "seed") /\ absent[m]

\* Mutant: splitSQL does not reset its buffer, so that a statement repeats the
\* ones before it.
ConvertedAgain(m) == {Statements[file[m]][n][2] : n \in 1..statement[m]}

\* splitSQL ends a statement at the line with its semicolon.
Converted(m) == {Current(m)[2]}

\* ALTER TABLE ... TYPE BIGINT USING ROUND(... * 100), whatever the type was.
Convert(m) ==
  /\ At(m, "convert")
  /\ \A n \in Migrator, c \in Converted(m) : ~Writes(n, c)
  /\ scale' = [c \in Columns |-> IF c \in Converted(m) THEN scale[c] + 1 ELSE scale[c]]
  /\ Done(m)
  /\ UNCHANGED <<file, recorded, objects, seeds, rates, history>>

\* The process is killed or loses the database; a statement under way is
\* undone.
Crash(m) ==
  /\ Running(m)
  /\ crashes < MaxCrashes
  /\ crashes' = crashes + 1
  /\ Goto(m, "down")
  /\ absent' = [absent EXCEPT ![m] = FALSE]
  /\ UNCHANGED <<file, statement, database, overlapped>>

Migrate(m) ==
  \/ Start(m) \/ Check(m) \/ Look(m) \/ Create(m) \/ SeedAccount(m)
  \/ SeedRate(m) \/ Convert(m) \/ Record(m)

Next == \E m \in Migrator : Migrate(m) \/ Crash(m)

Spec == Init /\ [][Next]_migrationVars

\* A migrator runs, and whoever sees it fail starts it again.
FairSpec == Spec /\ \A m \in Migrator : WF_migrationVars(Migrate(m))

----------------------------------------------------------------------------
(* Properties. *)

\* A file is recorded only when all of it is in the database, however often it
\* was tried and whoever else was at it.
RecordedMeansApplied ==
  /\ 1 \in recorded => /\ Objects(1) \subseteq objects
                       /\ rates = 1
                       /\ \A c \in Currencies : seeds[c] > 0
  /\ 2 \in recorded => /\ 1 \in recorded
                       /\ Objects(2) \subseteq objects
                       /\ \A c \in Columns : scale[c] > 0

\* However often migrators are killed and started, there is one system account
\* per currency, which GetSystemAccount takes for granted, as long as no two
\* run at once.
SeededOnce == ~overlapped => \A c \in Currencies : seeds[c] <= 1

\* Migrators that run one after the other, to their end, convert every amount
\* to cents once.
CentsUnlessInterrupted ==
  ~overlapped /\ crashes = 0 =>
    \A c \in Columns : scale[c] <= 1 /\ (2 \in recorded => scale[c] = 1)

\* "Database stores amounts in minor units (cents) as BIGINT" (README.md:111):
\* once 002 is recorded every amount has been converted once.
AmountsInCents == 2 \in recorded => \A c \in Columns : scale[c] = 1

\* A migration that is started until it succeeds ends with every file
\* recorded: whatever was interrupted can be applied again.
MigratesEventually == <>[](recorded = File /\ \A m \in Migrator : pc[m] = "done")

=============================================================================
