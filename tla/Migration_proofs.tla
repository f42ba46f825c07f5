--------------------------- MODULE Migration_proofs ---------------------------
(***************************************************************************)
(* Proofs about Migration, for any migrators and any number of kills.       *)
(*                                                                         *)
(* MigrationInv is the inductive invariant.  What a statement does stays in *)
(* the database (InEffect), so it is there of every statement that a        *)
(* migrator has passed (PassedInEffect) and of every file that is recorded  *)
(* (RecordedInEffect).  As long as no two migrators run at once, what one   *)
(* has not found is still not there (AbsentStill), and as long as none was  *)
(* killed either, the amounts are converted as far as the one at 002 has    *)
(* come (ConvertedSoFar).                                                   *)
(***************************************************************************)
EXTENDS Migration, TLAPS

MigrationTypeOK ==
  /\ pc \in [Migrator -> {"down", "check", "apply", "record", "done"}]
  /\ file \in [Migrator -> File]
  /\ statement \in [Migrator -> 1..19]
  /\ absent \in [Migrator -> BOOLEAN]
  /\ recorded \subseteq File
  /\ objects \subseteq Objects(1) \cup Objects(2)
  /\ seeds \in [Currencies -> Nat]
  /\ rates \in {0, 1}
  /\ scale \in [Columns -> Nat]
  /\ crashes \in Nat
  /\ overlapped \in BOOLEAN

\* A migrator is at a statement that its file has.
AtStatement ==
  \A m \in Migrator : pc[m] = "apply" => statement[m] <= Len(Statements[file[m]])

\* What a statement is for is in the database.
InEffect(s) == /\ s[1] = "create" => s[2] \in objects
               /\ s[1] = "seed" => seeds[s[2]] > 0
               /\ s[1] = "rate" => rates = 1
               /\ s[1] = "convert" => scale[s[2]] > 0

Passed(m, n) == \/ pc[m] = "record"
                \/ pc[m] = "apply" /\ n < statement[m]

PassedInEffect ==
  \A m \in Migrator : \A n \in 1..Len(Statements[file[m]]) :
    Passed(m, n) => InEffect(Statements[file[m]][n])

RecordedInEffect ==
  \A f \in recorded : \A n \in 1..Len(Statements[f]) : InEffect(Statements[f][n])

\* The files are taken in their order.
InOrder == /\ 2 \in recorded => 1 \in recorded
           /\ \A m \in Migrator : Running(m) /\ file[m] = 2 => 1 \in recorded

AloneUnlessOverlapped ==
  ~overlapped => \A m, n \in Migrator : Running(m) /\ Running(n) => m = n

AbsentStill ==
  \A m \in Migrator : absent[m] =>
    /\ pc[m] = "apply"
    /\ Current(m)[1] # "convert"
    /\ ~overlapped => ~InEffect(Current(m))

Applying(m) == pc[m] \in {"apply", "record"}

\* How often the n-th column of 002 has been converted when m is at that file.
ConvertedBy(m, n) == IF Passed(m, n) THEN 1 ELSE 0

AtConversions(m) == Applying(m) /\ file[m] = 2

\* What is applied is not recorded yet.
Unrecorded == \A m \in Migrator : Applying(m) => file[m] \notin recorded

HalfConverted ==
  \A m \in Migrator : AtConversions(m) =>
    /\ scale["accounts"] = ConvertedBy(m, 1)
    /\ scale["transactions"] = ConvertedBy(m, 2)
    /\ scale["ledger_entries"] = ConvertedBy(m, 3)

AllConverted ==
  (\A m \in Migrator : ~AtConversions(m)) =>
    \A c \in Columns : scale[c] = IF 2 \in recorded THEN 1 ELSE 0

ConvertedSoFar ==
  ~overlapped /\ crashes = 0 => Unrecorded /\ HalfConverted /\ AllConverted

MigrationInv == /\ MigrationTypeOK
                /\ AtStatement
                /\ PassedInEffect
                /\ RecordedInEffect
                /\ InOrder
                /\ AloneUnlessOverlapped
                /\ AbsentStill
                /\ SeededOnce
                /\ ConvertedSoFar

----------------------------------------------------------------------------
(* Statements. *)

\* The files do not change.
LEMMA FilesStay ==
  /\ Statements' = Statements /\ File' = File
  /\ Currencies' = Currencies /\ Columns' = Columns
  /\ Objects(1)' = Objects(1) /\ Objects(2)' = Objects(2)
BY DEF Statements, Creations, Objects, File, Currencies, Columns

\* Where the statements stand.
LEMMA StatementsAre ==
  /\ Len(Statements) = 2 /\ Len(Statements[1]) = 19 /\ Len(Statements[2]) = 6
  /\ \A n \in 1..16 : Statements[1][n][1] = "create"
  /\ Statements[1][17] = <<"seed", "USD">>
  /\ Statements[1][18] = <<"seed", "EUR">>
  /\ Statements[1][19] = <<"rate", "USDEUR">>
  /\ Statements[2][1] = <<"convert", "accounts">>
  /\ Statements[2][2] = <<"convert", "transactions">>
  /\ Statements[2][3] = <<"convert", "ledger_entries">>
  /\ \A n \in 4..5 : Statements[2][n][1] = "create"
  /\ Statements[2][6] = <<"rate", "USDEUR">>
<1>1. Len(Statements) = 2 /\ Len(Statements[1]) = 19 /\ Len(Statements[2]) = 6
  BY DEF Statements
<1>2. \A n \in 1..16 : Statements[1][n][1] = "create"
  BY DEF Statements
<1>3. /\ Statements[1][17] = <<"seed", "USD">>
      /\ Statements[1][18] = <<"seed", "EUR">>
      /\ Statements[1][19] = <<"rate", "USDEUR">>
  BY DEF Statements
<1>4. /\ Statements[2][1] = <<"convert", "accounts">>
      /\ Statements[2][2] = <<"convert", "transactions">>
      /\ Statements[2][3] = <<"convert", "ledger_entries">>
      /\ \A n \in 4..5 : Statements[2][n][1] = "create"
      /\ Statements[2][6] = <<"rate", "USDEUR">>
  BY DEF Statements
<1>5. QED
  BY <1>1, <1>2, <1>3, <1>4

\* The statements that create nothing come first or last.
LEMMA OthersAre ==
  /\ \A n \in 1..19 : n \in 1..16 \/ n = 17 \/ n = 18 \/ n = 19
  /\ \A n \in 1..6 : n \in 4..5 \/ n = 1 \/ n = 2 \/ n = 3 \/ n = 6
OBVIOUS

\* The statements do one of four things to objects of their kind.
LEMMA StatementTypes ==
  ASSUME NEW f \in File, NEW n \in 1..Len(Statements[f])
  PROVE  LET s == Statements[f][n]
         IN  /\ s[1] \in {"create", "seed", "rate", "convert"}
             /\ s[1] = "create" => s[2] \in Objects(1) \cup Objects(2)
             /\ s[1] = "seed" => s[2] \in Currencies
             /\ s[1] = "convert" => s[2] \in Columns
<1> DEFINE s == Statements[f][n]
<1>1. ASSUME s[1] = "create"
      PROVE  s[2] \in Objects(1) \cup Objects(2)
  <2>1. n \in Creations(f)
    BY <1>1 DEF Creations
  <2>2. s[2] \in Objects(f)
    BY <2>1 DEF Objects
  <2>3. QED
    BY <2>2 DEF File
<1>2. CASE f = 1
  <2>1. CASE n \in 1..16
    BY <1>1, <1>2, <2>1, StatementsAre
  <2>2. CASE n = 17 \/ n = 18 \/ n = 19
    BY <1>2, <2>2, StatementsAre DEF Currencies
  <2>3. QED
    BY <1>2, <2>1, <2>2, OthersAre, StatementsAre
<1>3. CASE f = 2
  <2>1. CASE n \in 4..5
    BY <1>1, <1>3, <2>1, StatementsAre
  <2>2. CASE n = 1 \/ n = 2 \/ n = 3 \/ n = 6
    BY <1>3, <2>2, StatementsAre DEF Columns
  <2>3. QED
    BY <1>3, <2>1, <2>2, OthersAre, StatementsAre
<1>4. QED
  BY <1>2, <1>3 DEF File

\* Nothing that 001 does is a conversion, and all that 002 does before its
\* creations is.
LEMMA ConversionsAre ==
  /\ \A n \in 1..19 : Statements[1][n][1] # "convert"
  /\ \A n \in 1..6 : Statements[2][n][1] = "convert" <=> n \in {1, 2, 3}
BY StatementsAre, OthersAre

\* A file has at least one statement and at most nineteen.
LEMMA LengthType ==
  ASSUME NEW f \in File
  PROVE  /\ Len(Statements[f]) \in Nat
         /\ 1 <= Len(Statements[f])
         /\ Len(Statements[f]) <= 19
<1> DEFINE length == Len(Statements[f])
<1>1. length = 19 \/ length = 6
  BY StatementsAre DEF File
<1> HIDE DEF length
<1>2. length \in Nat /\ 1 <= length /\ length <= 19
  BY <1>1
<1>3. QED
  BY <1>2 DEF length

\* The statement that a migrator applies.
LEMMA CurrentType ==
  ASSUME MigrationTypeOK, AtStatement, NEW m \in Migrator, pc[m] = "apply"
  PROVE  /\ file[m] \in File
         /\ statement[m] \in 1..Len(Statements[file[m]])
         /\ Current(m)[1] \in {"create", "seed", "rate", "convert"}
         /\ Current(m)[1] = "create" => Current(m)[2] \in Objects(1) \cup Objects(2)
         /\ Current(m)[1] = "seed" => Current(m)[2] \in Currencies
         /\ Current(m)[1] = "convert" => Current(m)[2] \in Columns
<1>1. file[m] \in File /\ statement[m] \in 1..19
      /\ statement[m] <= Len(Statements[file[m]])
  BY DEF MigrationTypeOK, AtStatement
<1>2. statement[m] \in 1..Len(Statements[file[m]])
  BY <1>1, LengthType
<1>3. QED
  BY <1>1, <1>2, StatementTypes DEF Current

\* IF NOT EXISTS and WHERE NOT EXISTS look for what the statement is for.
LEMMA ExistsInEffect ==
  ASSUME MigrationTypeOK, AtStatement, NEW m \in Migrator, pc[m] = "apply",
         Current(m)[1] # "convert"
  PROVE  Exists(m) <=> InEffect(Current(m))
<1>1. rates \in {0, 1}
  BY DEF MigrationTypeOK
<1>2. CASE Current(m)[1] = "create"
  BY <1>2 DEF Exists, InEffect
<1>3. CASE Current(m)[1] = "seed"
  BY <1>3 DEF Exists, InEffect
<1>4. CASE Current(m)[1] = "rate"
  BY <1>1, <1>4 DEF Exists, InEffect
<1>5. QED
  BY <1>2, <1>3, <1>4, CurrentType

----------------------------------------------------------------------------
(* Steps. *)

\* The steps of applyFile.
Apply(m) == Look(m) \/ Create(m) \/ SeedAccount(m) \/ SeedRate(m) \/ Convert(m)

\* A step of one migrator leaves every other where it is.
LEMMA OthersStay ==
  ASSUME MigrationTypeOK, NEW m \in Migrator, NEW n \in Migrator \ {m},
         Migrate(n) \/ Crash(n)
  PROVE  /\ pc'[m] = pc[m] /\ file'[m] = file[m]
         /\ statement'[m] = statement[m] /\ absent'[m] = absent[m]
BY DEF MigrationTypeOK, Migrate, Start, Check, NextFile, Look, Create,
       SeedAccount, SeedRate, Convert, Record, Crash, Done, Fails, Goto, position

\* Nothing is taken out of the database.
LEMMA DatabaseGrows ==
  ASSUME MigrationTypeOK, [Next]_migrationVars
  PROVE  /\ recorded \subseteq recorded'
         /\ objects \subseteq objects'
         /\ rates = 1 => rates' = 1
         /\ \A c \in Currencies : seeds[c] > 0 => seeds'[c] > 0
         /\ \A c \in Columns : scale[c] > 0 => scale'[c] > 0
<1>1. CASE UNCHANGED database
  BY <1>1 DEF database
<1>2. ASSUME NEW m \in Migrator, Record(m)
      PROVE  /\ recorded \subseteq recorded'
             /\ UNCHANGED <<objects, seeds, rates, scale>>
  BY <1>2 DEF Record
<1>3. ASSUME NEW m \in Migrator, Create(m)
      PROVE  /\ objects \subseteq objects'
             /\ UNCHANGED <<recorded, seeds, rates, scale>>
  BY <1>3 DEF Create
<1>4. ASSUME NEW m \in Migrator, SeedAccount(m)
      PROVE  /\ \A c \in Currencies : seeds[c] > 0 => seeds'[c] > 0
             /\ UNCHANGED <<recorded, objects, rates, scale>>
  BY <1>4 DEF SeedAccount, MigrationTypeOK
<1>5. ASSUME NEW m \in Migrator, SeedRate(m)
      PROVE  rates' = 1 /\ UNCHANGED <<recorded, objects, seeds, scale>>
  BY <1>5 DEF SeedRate
<1>6. ASSUME NEW m \in Migrator, Convert(m)
      PROVE  /\ \A c \in Columns : scale[c] > 0 => scale'[c] > 0
             /\ UNCHANGED <<recorded, objects, seeds, rates>>
  BY <1>6 DEF Convert, MigrationTypeOK
<1>7. QED
  BY <1>1, <1>2, <1>3, <1>4, <1>5, <1>6
     DEF Next, Migrate, Start, Check, Look, Crash, migrationVars, database

\* So what is in effect stays so.
LEMMA EffectsStay ==
  ASSUME MigrationTypeOK, [Next]_migrationVars,
         NEW f \in File, NEW n \in 1..Len(Statements[f]),
         InEffect(Statements[f][n])
  PROVE  InEffect(Statements[f][n])'
BY DatabaseGrows, StatementTypes DEF InEffect

\* A step of applyFile ends its statement, which is then in effect; or it
\* fails, on what is there already; or it finds nothing there.
LEMMA ApplyStep ==
  ASSUME MigrationTypeOK, AtStatement, NEW m \in Migrator, Apply(m),
         NEW s, s = Current(m)
  PROVE  /\ pc[m] = "apply"
         /\ UNCHANGED <<file, recorded, history>>
         /\ \/ Done(m) /\ InEffect(s)'
            \/ /\ Fails(m) /\ UNCHANGED <<statement, database>>
               /\ absent[m] /\ InEffect(Current(m))
               /\ Current(m)[1] # "convert"
            \/ /\ ~InEffect(Current(m)) /\ Current(m)[1] # "convert"
               /\ absent' = [absent EXCEPT ![m] = TRUE]
               /\ UNCHANGED <<pc, statement, database>>
<1>1. pc[m] = "apply"
  BY DEF Apply, Look, Create, SeedAccount, SeedRate, Convert, At
<1>2. UNCHANGED <<file, recorded, history>>
  BY DEF Apply, Look, Create, SeedAccount, SeedRate, Convert, history, database

<1>3. Current(m) = s
  OBVIOUS
<1>4. CASE Look(m)
  <2>1. Current(m)[1] # "convert" /\ UNCHANGED database
    BY <1>4 DEF Look, At
  <2>2. CASE Exists(m) /\ Done(m)
    <3>1. InEffect(s)
      BY <1>1, <1>3, <2>1, <2>2, ExistsInEffect
    <3>2. InEffect(s)'
      BY <1>2, <2>1, <2>2, <3>1 DEF InEffect, database
    <3>3. QED
      BY <1>1, <1>2, <2>2, <3>2
  <2>3. CASE ~Exists(m)
    BY <1>1, <1>2, <1>4, <2>1, <2>3, ExistsInEffect DEF Look
  <2>4. QED
    BY <1>4, <2>2, <2>3 DEF Look
<1>5. CASE Create(m)
  <2>1. Current(m)[1] = "create" /\ absent[m] /\ s[2] \in objects'
    BY <1>5 DEF Create, At
  <2>2. CASE Done(m)
    <3>1. InEffect(s)'
      BY <1>2, <1>3, <2>1, <2>2 DEF InEffect
    <3>2. QED
      BY <1>1, <1>2, <2>2, <3>1
  <2>3. CASE s[2] \in objects /\ Fails(m) /\ UNCHANGED statement
    <3>1. UNCHANGED database
      BY <1>5, <2>3 DEF Create, database
    <3>2. InEffect(Current(m))
      BY <1>3, <2>1, <2>3 DEF InEffect
    <3>3. QED
      BY <1>1, <1>2, <2>1, <2>3, <3>1, <3>2
  <2>4. QED
    BY <1>3, <1>5, <2>2, <2>3 DEF Create

<1>6. CASE SeedAccount(m)
  <2>1. Current(m)[1] = "seed" /\ Done(m)
    BY <1>6 DEF SeedAccount, At
  <2>2. s[2] \in Currencies
    BY <1>1, <1>3, <2>1, CurrentType
  <2>3. seeds' = [seeds EXCEPT ![s[2]] = @ + 1]
    BY <1>6 DEF SeedAccount
  <2>4. seeds'[s[2]] > 0
    BY <2>2, <2>3 DEF MigrationTypeOK
  <2>5. InEffect(s)'
    BY <1>2, <1>3, <2>1, <2>4 DEF InEffect
  <2>6. QED
    BY <1>1, <1>2, <2>1, <2>5
<1>7. CASE SeedRate(m)
  <2>1. Current(m)[1] = "rate" /\ absent[m] /\ rates' = 1
    BY <1>7 DEF SeedRate, At
  <2>2. CASE Done(m)
    <3>1. InEffect(s)'
      BY <1>2, <1>3, <2>1 DEF InEffect
    <3>2. QED
      BY <1>1, <1>2, <2>2, <3>1
  <2>3. CASE rates > 0 /\ Fails(m) /\ UNCHANGED statement
    <3>1. UNCHANGED database /\ rates = 1
      BY <1>7, <2>3 DEF SeedRate, database, MigrationTypeOK
    <3>2. InEffect(Current(m))
      BY <2>1, <3>1 DEF InEffect
    <3>3. QED
      BY <1>1, <1>2, <2>1, <2>3, <3>1, <3>2
  <2>4. QED
    BY <1>7, <2>2, <2>3 DEF SeedRate
<1>8. CASE Convert(m)
  <2>1. Current(m)[1] = "convert" /\ Done(m)
    BY <1>8 DEF Convert, At
  <2>2. s[2] \in Columns
    BY <1>1, <1>3, <2>1, CurrentType
  <2>3. scale'[s[2]] = scale[s[2]] + 1
    BY <1>3, <1>8, <2>2 DEF Convert, Converted
  <2>4. scale'[s[2]] > 0
    BY <2>2, <2>3 DEF MigrationTypeOK
  <2>5. InEffect(s)'
    BY <1>2, <1>3, <2>1, <2>4 DEF InEffect
  <2>6. QED
    BY <1>1, <1>2, <2>1, <2>5
<1>9. QED
  BY <1>4, <1>5, <1>6, <1>7, <1>8 DEF Apply

\* After file 1 comes file 2, and then the end.
LEMMA NextFileStep ==
  ASSUME MigrationTypeOK, NEW m \in Migrator, NextFile(m)
  PROVE  \/ file[m] = 2 /\ Goto(m, "done") /\ UNCHANGED file
         \/ file[m] = 1 /\ Goto(m, "check") /\ file' = [file EXCEPT ![m] = 2]
<1>1. file[m] \in {1, 2}
  BY DEF MigrationTypeOK, File
<1>2. QED
  BY <1>1, StatementsAre DEF NextFile

\* Every step keeps the types.
LEMMA TypeStep ==
  ASSUME MigrationTypeOK, AtStatement, [Next]_migrationVars
  PROVE  MigrationTypeOK'
<1> USE DEF MigrationTypeOK, File, Currencies, Columns
<1>1. ASSUME NEW m \in Migrator, Start(m)
      PROVE  MigrationTypeOK'
  BY <1>1 DEF Start, Goto, database
<1>2. ASSUME NEW m \in Migrator, Check(m)
      PROVE  MigrationTypeOK'
  BY <1>2, NextFileStep DEF Check, Goto, database, history
<1>3. ASSUME NEW m \in Migrator, Crash(m)
      PROVE  MigrationTypeOK'
  BY <1>3 DEF Crash, Goto, database
<1>4. ASSUME NEW m \in Migrator, Record(m)
      PROVE  MigrationTypeOK'
  <2>1. CASE NextFile(m) /\ recorded' = recorded \cup {file[m]} /\ UNCHANGED absent
    <3>1. recorded' \subseteq 1..2 /\ UNCHANGED <<statement, absent>>
      <4>1. file[m] \in 1..2
        OBVIOUS
      <4>2. QED
        BY <1>4, <2>1, <4>1 DEF Record
    <3>2. /\ pc' \in [Migrator -> {"down", "check", "apply", "record", "done"}]
          /\ file' \in [Migrator -> 1..2]
      BY <2>1, NextFileStep DEF Goto
    <3>3. QED
      BY <1>4, <3>1, <3>2 DEF Record, history
  <2>2. CASE Goto(m, "down") /\ UNCHANGED <<absent, file, recorded>>
    BY <1>4, <2>2 DEF Record, Goto, history
  <2>3. QED
    BY <1>4, <2>1, <2>2 DEF Record
<1>5. ASSUME NEW m \in Migrator, Apply(m)
      PROVE  MigrationTypeOK'
  <2>1. PICK s : s = Current(m)
    OBVIOUS
  <2>2. /\ pc[m] = "apply" /\ UNCHANGED <<file, recorded, history>>
        /\ \/ Done(m)
           \/ Fails(m) /\ UNCHANGED statement
           \/ UNCHANGED <<pc, statement>> /\ absent' = [absent EXCEPT ![m] = TRUE]
    BY <1>5, <2>1, ApplyStep
  <2>3. statement[m] \in 1..Len(Statements[file[m]]) /\ Len(Statements[file[m]]) <= 19
    BY <2>2, CurrentType, LengthType
  <2>4. /\ pc' \in [Migrator -> {"down", "check", "apply", "record", "done"}]
        /\ absent' \in [Migrator -> BOOLEAN]
    BY <2>2 DEF Done, Fails, AfterError, Goto
  <2>5. statement' \in [Migrator -> 1..19]
    <3>1. CASE UNCHANGED statement
      BY <3>1
    <3>2. CASE /\ statement[m] # Len(Statements[file[m]])
               /\ statement' = [statement EXCEPT ![m] = @ + 1]
      <4> DEFINE len == Len(Statements[file[m]])
      <4>1. len \in Nat /\ len <= 19 /\ statement[m] \in 1..len /\ statement[m] # len
        BY <2>3, <3>2, LengthType
      <4> HIDE DEF len
      <4>2. statement[m] + 1 \in 1..19
        BY <4>1
      <4>3. QED
        BY <3>2, <4>2
    <3>3. QED
      BY <2>2, <3>1, <3>2 DEF Done
  <2>6. /\ objects' \subseteq Objects(1) \cup Objects(2)
        /\ seeds' \in [Currencies -> Nat]
        /\ rates' \in {0, 1}
        /\ scale' \in [Columns -> Nat]
    <3>1. CASE UNCHANGED database
      BY <3>1 DEF database
    <3>2. CASE Create(m)
      BY <2>2, <3>2, CurrentType DEF Create, At
    <3>3. CASE SeedAccount(m) \/ SeedRate(m)
      <4>1. UNCHANGED <<objects, scale>>
        BY <3>3 DEF SeedAccount, SeedRate
      <4>2. rates' \in {0, 1}
        BY <3>3 DEF SeedAccount, SeedRate
      <4>3. seeds' \in [Currencies -> Nat]
        BY <3>3 DEF SeedAccount, SeedRate
      <4>4. QED
        BY <4>1, <4>2, <4>3
    <3>5. CASE Convert(m)
      BY <3>5 DEF Convert
    <3>4. QED
      BY <1>5, <3>1, <3>2, <3>3, <3>5 DEF Apply, Look
  <2>7. QED
    BY <2>2, <2>4, <2>5, <2>6 DEF history
<1>6. CASE UNCHANGED migrationVars
  BY <1>6 DEF migrationVars, position, database, history
<1>7. QED
  BY <1>1, <1>2, <1>3, <1>4, <1>5, <1>6 DEF Next, Migrate, Apply

\* Every step leaves a migrator at a statement that its file has.
LEMMA AtStatementStep ==
  ASSUME MigrationTypeOK, AtStatement, [Next]_migrationVars
  PROVE  AtStatement'
<1> SUFFICES ASSUME NEW m \in Migrator, pc'[m] = "apply"
             PROVE  statement'[m] <= Len(Statements[file'[m]])
  BY FilesStay DEF AtStatement
<1>1. file[m] \in File /\ file'[m] \in File
  BY TypeStep, FilesStay DEF MigrationTypeOK
<1>2. ASSUME pc[m] = "apply", statement'[m] = statement[m], file'[m] = file[m]
      PROVE  statement'[m] <= Len(Statements[file'[m]])
  BY <1>2 DEF AtStatement
<1>3. CASE Apply(m)
  <2>1. PICK s : s = Current(m)
    OBVIOUS
  <2>2. /\ pc[m] = "apply" /\ UNCHANGED file
        /\ \/ Done(m)
           \/ Fails(m)
           \/ UNCHANGED <<pc, statement>>
    BY <1>3, <2>1, ApplyStep
  <2>3. statement[m] \in 1..Len(Statements[file[m]]) /\ Len(Statements[file[m]]) \in Nat
    BY <2>2, CurrentType, LengthType
  <2>4. CASE Done(m)
    BY <2>2, <2>3, <2>4 DEF Done, Goto, MigrationTypeOK
  <2>5. QED
    BY <1>2, <2>2, <2>4 DEF Fails, AfterError, Goto, MigrationTypeOK
<1>4. CASE Check(m)
  <2>1. statement'[m] = 1
    BY <1>4, NextFileStep DEF Check, Goto, MigrationTypeOK
  <2>2. QED
    BY <1>1, <2>1, LengthType
<1>5. CASE Start(m) \/ Crash(m) \/ Record(m)
  BY <1>5, NextFileStep DEF Start, Crash, Record, Goto, MigrationTypeOK
<1>6. CASE UNCHANGED migrationVars \/ \E k \in Migrator \ {m} : Migrate(k) \/ Crash(k)
  <2>1. /\ pc'[m] = pc[m] /\ file'[m] = file[m] /\ statement'[m] = statement[m]
    BY <1>6, OthersStay DEF migrationVars, position
  <2>2. QED
    BY <1>2, <2>1
<1>7. QED
  BY <1>3, <1>4, <1>5, <1>6 DEF Next, Migrate, Apply

\* A migrator passes a statement when it is in effect.
LEMMA PassedStep ==
  ASSUME MigrationTypeOK, AtStatement, [Next]_migrationVars, PassedInEffect
  PROVE  PassedInEffect'
<1> SUFFICES ASSUME NEW m \in Migrator,
                    NEW n \in 1..Len(Statements[file'[m]]), Passed(m, n)',
                    NEW t, t = Statements[file'[m]][n]
             PROVE  InEffect(t)'
  BY FilesStay DEF PassedInEffect
<1>1. ASSUME Passed(m, n), file'[m] = file[m]
      PROVE  InEffect(t)'
  <2>1. InEffect(t)
    BY <1>1 DEF PassedInEffect
  <2>2. file[m] \in File
    BY DEF MigrationTypeOK
  <2>3. QED
    BY <1>1, <2>1, <2>2, EffectsStay
<1>2. CASE Apply(m)
  <2>1. PICK s : s = Current(m)
    OBVIOUS
  <2>2. /\ pc[m] = "apply" /\ UNCHANGED file
        /\ \/ Done(m) /\ InEffect(s)'
           \/ Fails(m)
           \/ UNCHANGED <<pc, statement>>
    BY <1>2, <2>1, ApplyStep
  <2>3. statement[m] \in Int /\ statement[m] \in 1..Len(Statements[file[m]])
    BY <2>2, CurrentType DEF MigrationTypeOK
  <2>4. CASE Done(m) /\ InEffect(s)' /\ ~Passed(m, n)
    <3>1. n = statement[m]
      BY <2>2, <2>3, <2>4 DEF Done, Goto, Passed, MigrationTypeOK
    <3>2. s = t
      BY <2>1, <2>2, <3>1 DEF Current
    <3>3. QED
      BY <2>4, <3>2
  <2>5. CASE Fails(m) \/ UNCHANGED <<pc, statement>>
    BY <1>1, <2>2, <2>5 DEF Fails, AfterError, Goto, Passed, MigrationTypeOK
  <2>6. QED
    BY <1>1, <2>2, <2>4, <2>5
<1>3. CASE Start(m) \/ Check(m) \/ Crash(m) \/ Record(m)
  <2>1. pc'[m] # "record" /\ (pc'[m] = "apply" => statement'[m] = 1)
    BY <1>3, NextFileStep DEF MigrationTypeOK, Start, Check, Crash, Record, Goto
  <2>2. QED
    BY <2>1 DEF Passed
<1>4. CASE UNCHANGED migrationVars \/ \E k \in Migrator \ {m} : Migrate(k) \/ Crash(k)
  <2>1. /\ pc'[m] = pc[m] /\ file'[m] = file[m] /\ statement'[m] = statement[m]
    BY <1>4, OthersStay DEF migrationVars, position
  <2>2. QED
    BY <1>1, <2>1 DEF Passed
<1>5. QED
  BY <1>2, <1>3, <1>4 DEF Next, Migrate, Apply

\* A file is recorded when its statements have been passed.
LEMMA RecordedStep ==
  ASSUME MigrationTypeOK, AtStatement, [Next]_migrationVars, PassedInEffect,
         RecordedInEffect
  PROVE  RecordedInEffect'
<1> SUFFICES ASSUME NEW f \in recorded', NEW n \in 1..Len(Statements[f])
             PROVE  InEffect(Statements[f][n])'
  BY FilesStay DEF RecordedInEffect
<1>1. recorded \subseteq File /\ recorded' \subseteq File
  BY TypeStep, FilesStay DEF MigrationTypeOK
<1>2. CASE f \in recorded
  BY <1>1, <1>2, EffectsStay DEF RecordedInEffect
<1>3. CASE f \notin recorded
  <2>1. PICK m \in Migrator : Record(m) /\ f = file[m]
    <3>1. CASE recorded' = recorded
      BY <1>3, <3>1
    <3>2. CASE \E m \in Migrator : Record(m)
      BY <1>3, <3>2 DEF Record
    <3>3. QED
      BY <3>1, <3>2 DEF Next, Migrate, Start, Check, Look, Create, SeedAccount,
         SeedRate, Convert, Crash, migrationVars, database
  <2>2. InEffect(Statements[f][n])
    BY <2>1 DEF Record, PassedInEffect, Passed
  <2>3. QED
    BY <1>1, <2>2, EffectsStay
<1>4. QED
  BY <1>2, <1>3

\* File 2 is taken up, and recorded, after file 1.
LEMMA OrderStep ==
  ASSUME MigrationTypeOK, AtStatement, [Next]_migrationVars, InOrder
  PROVE  InOrder'
<1>1. \A m \in Migrator : file[m] \in {1, 2}
  BY DEF MigrationTypeOK, File
<1>2. ASSUME NEW m \in Migrator, Record(m)
      PROVE  InOrder'
  <2>1. CASE NextFile(m) /\ recorded' = recorded \cup {file[m]}
    <3>1. 1 \in recorded'
      BY <1>1, <1>2, <2>1 DEF Record, InOrder, Running
    <3>2. QED
      BY <3>1 DEF InOrder
  <2>2. CASE Goto(m, "down") /\ UNCHANGED <<file, recorded>>
    BY <2>2 DEF InOrder, Running, Goto, MigrationTypeOK
  <2>3. QED
    BY <1>2, <2>1, <2>2 DEF Record
<1>3. ASSUME NEW m \in Migrator, Check(m)
      PROVE  InOrder'
  <2>1. UNCHANGED recorded
    BY <1>3 DEF Check, database
  <2>2. CASE Applied(file[m]) /\ NextFile(m)
    BY <1>1, <1>3, <2>1, <2>2, NextFileStep
       DEF Check, InOrder, Running, Goto, Applied, MigrationTypeOK
  <2>3. CASE Goto(m, "apply") /\ UNCHANGED file
    BY <1>3, <2>1, <2>3 DEF Check, InOrder, Running, Goto, MigrationTypeOK
  <2>4. QED
    BY <1>3, <2>2, <2>3 DEF Check
<1>4. ASSUME NEW m \in Migrator, Start(m) \/ Crash(m)
      PROVE  InOrder'
  BY <1>4 DEF Start, Crash, InOrder, Running, Goto, MigrationTypeOK, database
<1>5. ASSUME NEW m \in Migrator, Apply(m)
      PROVE  InOrder'
  <2>1. PICK s : s = Current(m)
    OBVIOUS
  <2>2. /\ pc[m] = "apply" /\ UNCHANGED <<file, recorded>>
        /\ Done(m) \/ Fails(m) \/ UNCHANGED pc
    BY <1>5, <2>1, ApplyStep
  <2>3. \A n \in Migrator : Running(n)' => Running(n)
    BY <2>2 DEF Done, Fails, AfterError, Goto, Running, MigrationTypeOK
  <2>4. QED
    BY <2>2, <2>3 DEF InOrder
<1>6. CASE UNCHANGED migrationVars
  BY <1>6 DEF InOrder, Running, migrationVars, position, database
<1>7. QED
  BY <1>2, <1>3, <1>4, <1>5, <1>6 DEF Next, Migrate, Apply

\* A second migrator that starts is noticed.
LEMMA AloneStep ==
  ASSUME MigrationTypeOK, AtStatement, [Next]_migrationVars, AloneUnlessOverlapped
  PROVE  AloneUnlessOverlapped'
<1>1. ASSUME NEW m \in Migrator, Start(m)
      PROVE  AloneUnlessOverlapped'
  BY <1>1 DEF Start, AloneUnlessOverlapped, Running, Goto, MigrationTypeOK
<1>2. ASSUME NEW m \in Migrator, Migrate(m) \/ Crash(m), ~Start(m)
      PROVE  AloneUnlessOverlapped'
  <2>1. UNCHANGED overlapped
    BY <1>2 DEF Migrate, Check, Look, Create, SeedAccount, SeedRate, Convert,
         Record, Crash, history
  <2>2. Running(m)
    BY <1>2 DEF Migrate, Check, Look, Create, SeedAccount, SeedRate, Convert,
         Record, Crash, At, Running
  <2>3. \A n \in Migrator : Running(n)' => Running(n)
    BY <1>2, <2>2, OthersStay DEF Running
  <2>4. QED
    BY <2>1, <2>3 DEF AloneUnlessOverlapped
<1>3. CASE UNCHANGED migrationVars
  BY <1>3 DEF AloneUnlessOverlapped, Running, migrationVars, position, history
<1>4. QED
  BY <1>1, <1>2, <1>3 DEF Next

\* While no two migrators run at once, the one that takes a step runs alone.
LEMMA StepsAlone ==
  ASSUME AloneUnlessOverlapped, ~overlapped',
         NEW m \in Migrator, Migrate(m) \/ Crash(m)
  PROVE  ~overlapped /\ \A n \in Migrator \ {m} : ~Running(n)
<1>1. CASE Start(m)
  BY <1>1 DEF Start
<1>2. CASE ~Start(m)
  <2>1. UNCHANGED overlapped /\ Running(m)
    BY <1>2 DEF Migrate, Check, Look, Create, SeedAccount, SeedRate, Convert,
         Record, Crash, At, Running, history
  <2>2. QED
    BY <2>1 DEF AloneUnlessOverlapped
<1>3. QED
  BY <1>1, <1>2

\* What a migrator has not found, nobody makes while it runs alone.
LEMMA AbsentStep ==
  ASSUME MigrationTypeOK, AtStatement, [Next]_migrationVars,
         AloneUnlessOverlapped, AbsentStill
  PROVE  AbsentStill'
<1> SUFFICES ASSUME NEW m \in Migrator, absent'[m]
             PROVE  /\ pc'[m] = "apply"
                    /\ Current(m)'[1] # "convert"
                    /\ ~overlapped' => ~InEffect(Current(m))'
  BY DEF AbsentStill
<1>1. ASSUME absent[m], pc'[m] = pc[m], Current(m)' = Current(m),
             ~overlapped' => ~overlapped /\ UNCHANGED database
      PROVE  /\ pc'[m] = "apply"
             /\ Current(m)'[1] # "convert"
             /\ ~overlapped' => ~InEffect(Current(m))'
  BY <1>1 DEF AbsentStill, InEffect, database
<1>2. CASE Start(m) \/ Check(m) \/ Record(m) \/ Crash(m)
  BY <1>2 DEF Start, Check, Record, Crash, AbsentStill, MigrationTypeOK
<1>3. CASE Apply(m)
  <2>1. PICK s : s = Current(m)
    OBVIOUS
  <2>2. /\ pc[m] = "apply" /\ UNCHANGED file
        /\ \/ Done(m) \/ Fails(m)
           \/ /\ ~InEffect(Current(m)) /\ Current(m)[1] # "convert"
              /\ UNCHANGED <<pc, statement, database>>
    BY <1>3, <2>1, ApplyStep
  <2>3. ~Done(m) /\ ~Fails(m)
    BY DEF Done, Fails, MigrationTypeOK
  <2>4. Current(m)' = Current(m)
    BY <2>2, <2>3, FilesStay DEF Current
  <2>5. QED
    BY <2>2, <2>3, <2>4 DEF InEffect, database
<1>4. CASE \E k \in Migrator \ {m} : Migrate(k) \/ Crash(k)
  <2>1. PICK k \in Migrator \ {m} : Migrate(k) \/ Crash(k)
    BY <1>4
  <2>2. /\ pc'[m] = pc[m] /\ file'[m] = file[m]
        /\ statement'[m] = statement[m] /\ absent'[m] = absent[m]
    BY <2>1, OthersStay
  <2>3. Current(m)' = Current(m)
    BY <2>2, FilesStay DEF Current
  <2>4. overlapped'
    BY <2>1, <2>2, StepsAlone DEF AbsentStill, Running
  <2>5. QED
    BY <1>1, <2>2, <2>3, <2>4
<1>5. CASE UNCHANGED migrationVars
  BY <1>1, <1>5, FilesStay DEF migrationVars, position, history, Current
<1>6. QED
  BY <1>2, <1>3, <1>4, <1>5 DEF Next, Migrate, Apply

\* An account is seeded where there was none.
LEMMA SeededStep ==
  ASSUME MigrationTypeOK, AtStatement, [Next]_migrationVars,
         AloneUnlessOverlapped, AbsentStill, SeededOnce
  PROVE  SeededOnce'
<1> SUFFICES ASSUME ~overlapped'
             PROVE  \A c \in Currencies : seeds'[c] <= 1
  BY FilesStay DEF SeededOnce
<1>1. ~overlapped
  BY StepsAlone DEF Next, migrationVars, history
<1>2. CASE \E m \in Migrator : SeedAccount(m)
  <2>1. PICK m \in Migrator : SeedAccount(m)
    BY <1>2
  <2>2. pc[m] = "apply" /\ Current(m)[1] = "seed" /\ absent[m]
    BY <2>1 DEF SeedAccount, At
  <2>3. Current(m)[2] \in Currencies
    BY <2>2, CurrentType
  <2>4. ~(seeds[Current(m)[2]] > 0)
    BY <1>1, <2>2 DEF AbsentStill, InEffect
  <2>5. seeds' = [seeds EXCEPT ![Current(m)[2]] = @ + 1]
    BY <2>1 DEF SeedAccount
  <2>6. QED
    BY <1>1, <2>3, <2>4, <2>5 DEF SeededOnce, MigrationTypeOK
<1>3. CASE UNCHANGED seeds
  BY <1>1, <1>3 DEF SeededOnce
<1>4. QED
  BY <1>2, <1>3 DEF Next, Migrate, Start, Check, Look, Create, SeedRate, Convert,
     Record, Crash, migrationVars, database

\* While migrators run one by one and none is killed, a statement that a
\* migrator applies does not fail, and no other migrator is at work.
LEMMA UndisturbedStep ==
  ASSUME MigrationTypeOK, AtStatement, AloneUnlessOverlapped, AbsentStill,
         ~overlapped', crashes' = 0, NEW m \in Migrator, Migrate(m) \/ Crash(m)
  PROVE  /\ ~overlapped /\ crashes = 0 /\ ~Crash(m)
         /\ \A n \in Migrator \ {m} : ~Applying(n) /\ ~Applying(n)'
         /\ Apply(m) => ~Fails(m)
<1>1. ~overlapped /\ \A n \in Migrator \ {m} : ~Running(n)
  BY StepsAlone
<1>2. ~Crash(m)
  BY DEF Crash, MigrationTypeOK
<1>3. crashes = 0
  BY <1>2 DEF Migrate, Start, Check, Look, Create, SeedAccount, SeedRate,
     Convert, Record, history
<1>4. \A n \in Migrator \ {m} : ~Applying(n) /\ ~Applying(n)'
  BY <1>1, OthersStay DEF Running, Applying
<1>5. ASSUME Apply(m), Fails(m)
      PROVE  FALSE
  <2>1. PICK s : s = Current(m)
    OBVIOUS
  <2>2. pc[m] = "apply" /\ pc'[m] = "down"
    BY <1>5, <2>1, ApplyStep DEF Fails, AfterError, Goto, MigrationTypeOK
  <2>3. absent[m] /\ InEffect(Current(m))
    BY <1>5, <2>1, <2>2, ApplyStep DEF Done, Goto, MigrationTypeOK
  <2>4. QED
    BY <1>1, <2>3 DEF AbsentStill
<1>6. QED
  BY <1>1, <1>2, <1>3, <1>4, <1>5

\* At 002 a migrator converts the columns one after the other, each once.
LEMMA ConversionStep ==
  ASSUME MigrationTypeOK, AtStatement, NEW m \in Migrator, Apply(m), ~Fails(m),
         file[m] = 2,
         scale["accounts"] = ConvertedBy(m, 1),
         scale["transactions"] = ConvertedBy(m, 2),
         scale["ledger_entries"] = ConvertedBy(m, 3)
  PROVE  /\ scale'["accounts"] = ConvertedBy(m, 1)'
         /\ scale'["transactions"] = ConvertedBy(m, 2)'
         /\ scale'["ledger_entries"] = ConvertedBy(m, 3)'
<1>1. PICK s : s = Current(m)
  OBVIOUS
<1>2. /\ pc[m] = "apply" /\ UNCHANGED file
      /\ \/ Done(m)
         \/ Current(m)[1] # "convert" /\ UNCHANGED <<pc, statement, scale>>
  BY <1>1, ApplyStep DEF database
<1>3. statement[m] \in 1..6 /\ Current(m) = Statements[2][statement[m]]
  BY <1>2, CurrentType, StatementsAre DEF Current
<1>4. CASE Convert(m)
  <2>1. Current(m)[1] = "convert" /\ Done(m)
    BY <1>4 DEF Convert, At
  <2>2. statement[m] \in {1, 2, 3}
    BY <1>3, <2>1, ConversionsAre
  <2>3. pc'[m] = "apply" /\ statement'[m] = statement[m] + 1
    BY <1>2, <2>1, <2>2, StatementsAre DEF Done, MigrationTypeOK
  <2>4. \A n \in {1, 2, 3} :
          ConvertedBy(m, n)' = IF n = statement[m] THEN 1 ELSE ConvertedBy(m, n)
    BY <1>2, <2>2, <2>3 DEF ConvertedBy, Passed
  <2>5. ConvertedBy(m, statement[m]) = 0
    BY <1>2, <2>2 DEF ConvertedBy, Passed
  <2>6. \A c \in Columns : scale'[c] = IF c = Current(m)[2] THEN scale[c] + 1 ELSE scale[c]
    BY <1>4 DEF Convert, Converted
  <2>7. /\ statement[m] = 1 => Current(m)[2] = "accounts"
        /\ statement[m] = 2 => Current(m)[2] = "transactions"
        /\ statement[m] = 3 => Current(m)[2] = "ledger_entries"
    BY <1>3, StatementsAre
  <2>8. QED
    BY <2>2, <2>4, <2>5, <2>6, <2>7 DEF Columns
<1>5. CASE ~Convert(m)
  <2>1. Current(m)[1] # "convert" /\ UNCHANGED scale
    BY <1>5, CurrentType DEF Apply, Look, Create, SeedAccount, SeedRate, At, database
  <2>2. statement[m] \in {4, 5, 6}
    BY <1>3, <2>1, ConversionsAre
  <2>3. \/ pc'[m] = "record"
        \/ pc'[m] = "apply" /\ statement'[m] \in {4, 5, 6, 7}
    BY <1>2, <2>2 DEF Done, Goto, MigrationTypeOK
  <2>4. \A n \in {1, 2, 3} : ConvertedBy(m, n)' = ConvertedBy(m, n)
    <3>1. ASSUME NEW n \in {1, 2, 3}
          PROVE  Passed(m, n) /\ Passed(m, n)'
      BY <1>2, <2>2, <2>3 DEF Passed
    <3>2. QED
      BY <3>1 DEF ConvertedBy
  <2>5. QED
    BY <2>1, <2>4
<1>6. QED
  BY <1>4, <1>5

\* A migrator that runs alone and has not been killed converts every column
\* once, at its turn.
LEMMA ConvertedStep ==
  ASSUME MigrationTypeOK, AtStatement, [Next]_migrationVars,
         AloneUnlessOverlapped, AbsentStill, ConvertedSoFar
  PROVE  ConvertedSoFar'
<1> SUFFICES ASSUME ~overlapped', crashes' = 0
             PROVE  Unrecorded' /\ HalfConverted' /\ AllConverted'
  BY DEF ConvertedSoFar
<1>1. ASSUME ~overlapped, crashes = 0
      PROVE  Unrecorded /\ HalfConverted /\ AllConverted
  BY <1>1 DEF ConvertedSoFar
<1>2. ASSUME NEW m \in Migrator, Migrate(m) \/ Crash(m)
      PROVE  /\ Unrecorded /\ HalfConverted /\ AllConverted /\ ~Crash(m)
             /\ \A n \in Migrator \ {m} : ~Applying(n) /\ ~Applying(n)'
             /\ Apply(m) => ~Fails(m)
  BY <1>1, <1>2, UndisturbedStep
<1>3. ASSUME NEW m \in Migrator, Start(m)
      PROVE  Unrecorded' /\ HalfConverted' /\ AllConverted'
  <2>1. ~Applying(m) /\ ~Applying(m)' /\ UNCHANGED <<recorded, scale>>
    BY <1>3 DEF Start, Goto, Applying, MigrationTypeOK, database
  <2>2. \A n \in Migrator : ~Applying(n) /\ ~Applying(n)'
    BY <1>2, <1>3, <2>1 DEF Migrate
  <2>3. QED
    BY <1>2, <1>3, <2>1, <2>2, FilesStay
       DEF Unrecorded, HalfConverted, AllConverted, AtConversions, Migrate
<1>4. ASSUME NEW m \in Migrator, Check(m)
      PROVE  Unrecorded' /\ HalfConverted' /\ AllConverted'
  <2>1. ~Applying(m) /\ UNCHANGED <<recorded, scale>>
    BY <1>4 DEF Check, Applying, database
  <2>2. \A n \in Migrator : ~Applying(n) /\ (Applying(n)' => n = m)
    BY <1>2, <1>4, <2>1 DEF Migrate
  <2>3. \A c \in Columns : scale[c] = IF 2 \in recorded THEN 1 ELSE 0
    BY <1>2, <1>4, <2>2 DEF AllConverted, AtConversions, Migrate
  <2>4. CASE Applied(file[m]) /\ NextFile(m)
    <3>1. ~Applying(m)'
      BY <2>4, NextFileStep DEF Goto, Applying, MigrationTypeOK
    <3>2. QED
      BY <2>1, <2>2, <2>3, <3>1, FilesStay
         DEF Unrecorded, HalfConverted, AllConverted, AtConversions
  <2>5. CASE /\ ~Applied(file[m]) /\ Goto(m, "apply") /\ UNCHANGED file
             /\ statement' = [statement EXCEPT ![m] = 1]
    <3>1. /\ file[m] \notin recorded' /\ file'[m] = file[m]
          /\ pc'[m] = "apply" /\ statement'[m] = 1
      BY <2>1, <2>5 DEF Applied, Goto, MigrationTypeOK
    <3>2. \A n \in {1, 2, 3} : ConvertedBy(m, n)' = 0
      BY <3>1 DEF ConvertedBy, Passed
    <3>3. Unrecorded'
      BY <2>2, <3>1 DEF Unrecorded
    <3>4. HalfConverted'
      BY <2>1, <2>2, <2>3, <3>1, <3>2 DEF HalfConverted, AtConversions, Columns
    <3>5. AllConverted'
      BY <2>1, <2>3, FilesStay DEF AllConverted
    <3>6. QED
      BY <3>3, <3>4, <3>5
  <2>6. QED
    BY <1>4, <2>4, <2>5 DEF Check
<1>5. ASSUME NEW m \in Migrator, Record(m)
      PROVE  Unrecorded' /\ HalfConverted' /\ AllConverted'
  <2>1. pc[m] = "record" /\ Applying(m) /\ UNCHANGED scale
    BY <1>5 DEF Record, Applying
  <2>2. file[m] \notin recorded
    BY <1>2, <1>5, <2>1 DEF Unrecorded, Migrate
  <2>3. recorded' = recorded \cup {file[m]} /\ NextFile(m)
    BY <1>5, <2>2 DEF Record
  <2>4. ~Applying(m)'
    BY <2>3, NextFileStep DEF Goto, Applying, MigrationTypeOK
  <2>5. \A n \in Migrator : ~Applying(n)' /\ (Applying(n) => n = m)
    BY <1>2, <1>5, <2>4 DEF Migrate
  <2>6. CASE file[m] = 2
    <3>1. \A c \in Columns : scale[c] = 1
      BY <1>2, <1>5, <2>1, <2>6
         DEF HalfConverted, AtConversions, ConvertedBy, Passed, Columns, Migrate
    <3>2. QED
      BY <2>1, <2>3, <2>5, <2>6, <3>1, FilesStay
         DEF Unrecorded, HalfConverted, AllConverted, AtConversions
  <2>7. CASE file[m] # 2
    <3>1. \A c \in Columns : scale[c] = IF 2 \in recorded THEN 1 ELSE 0
      BY <1>2, <1>5, <2>5, <2>7 DEF AllConverted, AtConversions, Migrate
    <3>2. 2 \in recorded' <=> 2 \in recorded
      BY <2>3, <2>7
    <3>3. QED
      BY <2>1, <2>5, <3>1, <3>2, FilesStay
         DEF Unrecorded, HalfConverted, AllConverted, AtConversions
  <2>8. QED
    BY <2>6, <2>7
<1>6. ASSUME NEW m \in Migrator, Apply(m)
      PROVE  Unrecorded' /\ HalfConverted' /\ AllConverted'
  <2>1. PICK s : s = Current(m)
    OBVIOUS
  <2>2. pc[m] = "apply" /\ UNCHANGED <<file, recorded>>
    BY <1>6, <2>1, ApplyStep
  <2>3. /\ Unrecorded /\ HalfConverted /\ AllConverted /\ ~Fails(m)
        /\ \A n \in Migrator \ {m} : ~Applying(n) /\ ~Applying(n)'
    BY <1>2, <1>6 DEF Apply, Migrate
  <2>4. Applying(m) /\ Applying(m)'
    BY <1>6, <2>1, <2>2, <2>3, ApplyStep DEF Done, Goto, Applying, MigrationTypeOK
  <2>5. Unrecorded'
    BY <2>2, <2>3, <2>4 DEF Unrecorded
  <2>6. CASE file[m] = 2
    <3>1. /\ scale'["accounts"] = ConvertedBy(m, 1)'
          /\ scale'["transactions"] = ConvertedBy(m, 2)'
          /\ scale'["ledger_entries"] = ConvertedBy(m, 3)'
      BY <1>6, <2>3, <2>4, <2>6, ConversionStep DEF HalfConverted, AtConversions
    <3>2. HalfConverted' /\ AllConverted'
      BY <2>2, <2>3, <2>4, <2>6, <3>1 DEF HalfConverted, AllConverted, AtConversions
    <3>3. QED
      BY <2>5, <3>2
  <2>7. CASE file[m] # 2
    <3>1. ~Convert(m)
      <4>1. file[m] = 1
        BY <2>7 DEF MigrationTypeOK, File
      <4>2. statement[m] \in 1..19 /\ statement[m] <= Len(Statements[1])
        BY <2>2, <4>1 DEF AtStatement, MigrationTypeOK
      <4>3. Current(m)[1] # "convert"
        BY <4>1, <4>2, ConversionsAre, StatementsAre DEF Current
      <4>4. QED
        BY <4>3 DEF Convert, At
    <3>2. UNCHANGED scale
      BY <1>6, <3>1 DEF Apply, Look, Create, SeedAccount, SeedRate, database
    <3>3. QED
      BY <2>2, <2>3, <2>4, <2>5, <2>7, <3>2, FilesStay
         DEF HalfConverted, AllConverted, AtConversions
  <2>8. QED
    BY <2>6, <2>7
<1>7. CASE UNCHANGED migrationVars
  <2>1. UNCHANGED <<pc, file, statement, recorded, scale, crashes, overlapped>>
    BY <1>7 DEF migrationVars, position, database, history
  <2>2. QED
    BY <1>1, <2>1, FilesStay DEF Unrecorded, HalfConverted, AllConverted,
       AtConversions, Applying, ConvertedBy, Passed
<1>8. QED
  BY <1>2, <1>3, <1>4, <1>5, <1>6, <1>7 DEF Next, Migrate, Apply

----------------------------------------------------------------------------
(* The theorems. *)

LEMMA MigrationInvariance == Spec => []MigrationInv
<1>1. Init => MigrationInv
  <2> SUFFICES ASSUME Init
               PROVE  MigrationInv
    OBVIOUS
  <2>1. MigrationTypeOK /\ AtStatement
    <3>1. recorded \subseteq File /\ objects \subseteq Objects(1) \cup Objects(2)
      BY DEF Init, File
    <3>2. /\ seeds \in [Currencies -> Nat]
          /\ rates \in {0, 1}
          /\ scale \in [Columns -> Nat]
      BY DEF Init
    <3>3. AtStatement
      BY DEF Init, AtStatement
    <3>4. /\ pc \in [Migrator -> {"down", "check", "apply", "record", "done"}]
          /\ file \in [Migrator -> File]
          /\ statement \in [Migrator -> 1..19]
          /\ absent \in [Migrator -> BOOLEAN]
      BY DEF Init, File
    <3>5. crashes \in Nat /\ overlapped \in BOOLEAN
      BY DEF Init
    <3>6. QED
      BY <3>1, <3>2, <3>3, <3>4, <3>5 DEF MigrationTypeOK
  <2>2. RecordedInEffect
    <3>1. CASE recorded = {}
      BY <3>1 DEF RecordedInEffect
    <3>2. CASE recorded = {1}
      <4>1. objects = Objects(1) /\ rates = 1 /\ \A c \in Currencies : seeds[c] = 1
        BY <3>2 DEF Init
      <4>2. rates = 1 /\ seeds["USD"] > 0 /\ seeds["EUR"] > 0
        BY <4>1 DEF Currencies
      <4>3. ASSUME NEW n \in 1..16
            PROVE  InEffect(Statements[1][n])
        <5>1. n \in Creations(1)
          BY StatementsAre DEF Creations
        <5>2. Statements[1][n][2] \in objects
          BY <4>1, <5>1 DEF Objects
        <5>3. QED
          BY <5>2, StatementsAre DEF InEffect
      <4>4. ASSUME NEW n \in {17, 18, 19}
            PROVE  InEffect(Statements[1][n])
        BY <4>2, StatementsAre DEF InEffect
      <4>5. QED
        BY <3>2, <4>3, <4>4, OthersAre, StatementsAre DEF RecordedInEffect
    <3>3. QED
      BY <3>1, <3>2 DEF Init
  <2>3. PassedInEffect /\ InOrder /\ AloneUnlessOverlapped /\ AbsentStill
    BY DEF Init, PassedInEffect, Passed, InOrder, AloneUnlessOverlapped,
       AbsentStill, Running
  <2>4. SeededOnce /\ ConvertedSoFar
    BY DEF Init, SeededOnce, ConvertedSoFar, Unrecorded, HalfConverted,
       AllConverted, AtConversions, Applying
  <2>5. QED
    BY <2>1, <2>2, <2>3, <2>4 DEF MigrationInv
<1>2. MigrationInv /\ [Next]_migrationVars => MigrationInv'
  BY TypeStep, AtStatementStep, PassedStep, RecordedStep, OrderStep, AloneStep,
     AbsentStep, SeededStep, ConvertedStep DEF MigrationInv
<1>3. QED
  BY <1>1, <1>2, PTL DEF Spec

\* schema_migrations tells the truth: a file that is recorded is in the
\* database as a whole, through any kills, failures and concurrent migrators.
THEOREM RecordsAreTrue == Spec => []RecordedMeansApplied
<1>1. MigrationInv => RecordedMeansApplied
  <2> SUFFICES ASSUME MigrationInv
               PROVE  RecordedMeansApplied
    OBVIOUS
  <2>1. ASSUME NEW f \in recorded
        PROVE  Objects(f) \subseteq objects
    BY <2>1 DEF MigrationInv, RecordedInEffect, Objects, Creations, InEffect
  <2>2. ASSUME 1 \in recorded
        PROVE  rates = 1 /\ \A c \in Currencies : seeds[c] > 0
    <3>1. \A n \in 1..19 : InEffect(Statements[1][n])
      BY <2>2, StatementsAre DEF MigrationInv, RecordedInEffect
    <3>2. /\ InEffect(<<"seed", "USD">>) /\ InEffect(<<"seed", "EUR">>)
          /\ InEffect(<<"rate", "USDEUR">>)
      <4>1. 17 \in 1..19 /\ 18 \in 1..19 /\ 19 \in 1..19
        OBVIOUS
      <4>2. QED
        BY <3>1, <4>1, StatementsAre
    <3>3. QED
      BY <3>2 DEF InEffect, Currencies
  <2>3. ASSUME 2 \in recorded
        PROVE  \A c \in Columns : scale[c] > 0
    <3>1. \A n \in 1..6 : InEffect(Statements[2][n])
      BY <2>3, StatementsAre DEF MigrationInv, RecordedInEffect
    <3>2. /\ InEffect(<<"convert", "accounts">>)
          /\ InEffect(<<"convert", "transactions">>)
          /\ InEffect(<<"convert", "ledger_entries">>)
      <4>1. 1 \in 1..6 /\ 2 \in 1..6 /\ 3 \in 1..6
        OBVIOUS
      <4>2. QED
        BY <3>1, <4>1, StatementsAre
    <3>3. QED
      BY <3>2 DEF InEffect, Columns
  <2>4. QED
    BY <2>1, <2>2, <2>3 DEF RecordedMeansApplied, MigrationInv, InOrder
<1>2. QED
  BY <1>1, MigrationInvariance, PTL

\* The migrations seed one system account per currency, however often they are
\* killed and started again one after the other.
THEOREM SystemAccountsAreUnique == Spec => []SeededOnce
<1>1. MigrationInv => SeededOnce
  BY DEF MigrationInv
<1>2. QED
  BY <1>1, MigrationInvariance, PTL

\* Without kills and overlaps every amount is multiplied by 100 once.
THEOREM ConvertedOnce == Spec => []CentsUnlessInterrupted
<1>1. MigrationInv => CentsUnlessInterrupted
  <2> SUFFICES ASSUME MigrationInv, ~overlapped, crashes = 0, NEW c \in Columns
               PROVE  scale[c] <= 1 /\ (2 \in recorded => scale[c] = 1)
    BY DEF CentsUnlessInterrupted
  <2>1. Unrecorded /\ HalfConverted /\ AllConverted
    BY DEF MigrationInv, ConvertedSoFar
  <2>2. CASE \A m \in Migrator : ~AtConversions(m)
    BY <2>1, <2>2 DEF AllConverted
  <2>3. CASE \E m \in Migrator : AtConversions(m)
    BY <2>1, <2>3 DEF HalfConverted, AtConversions, Unrecorded, ConvertedBy, Columns
  <2>4. QED
    BY <2>2, <2>3
<1>2. QED
  BY <1>1, MigrationInvariance, PTL

===============================================================================
