----------------------------- MODULE Migrations -----------------------------
(***************************************************************************)
(* postgres.Migrate: the embedded migrations, applied and rolled back by   *)
(* goose.  Several runs may work on one database at once (deployments that *)
(* overlap, an operator at a shell): goose takes no lock, every query and  *)
(* every migration's transaction is a step of its own, and a run may die   *)
(* between any two of them.                                                *)
(*                                                                         *)
(* Version v creates table v, and its Down drops it.                       *)
(***************************************************************************)
EXTENDS Integers, FiniteSets

CONSTANTS
    Runs,      \* the processes that may run a migration command
    Latest     \* the number of embedded migrations

ASSUME LatestAssumption == Latest \in Nat

VARIABLES
    ledger,      \* goose_db_version: the row id of each recorded version, 0 for none
    serial,      \* the last row id handed out
    tables,      \* the tables that exist
    rolledBack,  \* history: some migration has been rolled back
    run          \* per process: where its goose command is

migrationVars == <<ledger, serial, tables, rolledBack, run>>

Versions == 1..Latest
Verbs == {"up", "down", "status"}

NoRun == [verb |-> "status", pc |-> "idle", target |-> 0]
Running(r) == run[r].pc \notin {"idle", "done", "failed"}
Go(r, pc) == run' = [run EXCEPT ![r].pc = pc]
At(r, pc) == run[r].pc = pc

-----------------------------------------------------------------------------
(* The ledger.  Creating it records version 0.                             *)

HasLedger == ledger[0] # 0
Recorded == {v \in 0..Latest : ledger[v] # 0}

\* The version of the row with the highest id, which goose takes for the current one.
Current == CHOOSE v \in Recorded : \A w \in Recorded : ledger[w] <= ledger[v]

\* Versions that are not recorded although a later one is.
Missing == {v \in Versions : v \notin Recorded /\ \E w \in Recorded : v < w}

-----------------------------------------------------------------------------
(* Steps of a run.                                                         *)

\* MUTANT: the command is not handed on.
Migrate_NoCommand(r, verb) ==
    /\ ~Running(r)
    /\ run' = [run EXCEPT ![r] = [verb |-> "", pc |-> "ensure", target |-> 0]]
    /\ UNCHANGED <<ledger, serial, tables, rolledBack>>

Migrate(r, verb) ==
    /\ ~Running(r)
    /\ run' = [run EXCEPT ![r] = [verb |-> verb, pc |-> "ensure", target |-> 0]]
    /\ UNCHANGED <<ledger, serial, tables, rolledBack>>

\* The current version is read; down takes it for its target, and fails at version 0.
Ensure(r) ==
    /\ At(r, "ensure")
    /\ run' = [run EXCEPT ![r] =
          CASE ~HasLedger -> [@ EXCEPT !.pc = "create"]
            [] HasLedger /\ @.verb = "up" -> [@ EXCEPT !.pc = "check"]
            [] HasLedger /\ @.verb = "status" -> [@ EXCEPT !.pc = "done"]
            [] HasLedger /\ @.verb = "down" ->
                  [@ EXCEPT !.pc = IF Current = 0 THEN "failed" ELSE "tx", !.target = Current]]
    /\ UNCHANGED <<ledger, serial, tables, rolledBack>>

\* There was no ledger: it is created, unless another run was faster.  down has then
\* nothing to roll back.
AfterCreate == [up |-> "check", down |-> "failed", status |-> "done"]

CreateLedger(r) ==
    /\ At(r, "create")
    /\ IF HasLedger THEN Go(r, "failed") /\ UNCHANGED <<ledger, serial>>
       ELSE /\ ledger' = [ledger EXCEPT ![0] = serial + 1]
            /\ serial' = serial + 1
            /\ Go(r, AfterCreate[run[r].verb])
    /\ UNCHANGED <<tables, rolledBack>>

\* up refuses to go on where a version has been skipped.
CheckMissing(r) ==
    /\ At(r, "check")
    /\ Go(r, IF Missing = {} THEN "current" ELSE "failed")
    /\ UNCHANGED <<ledger, serial, tables, rolledBack>>

\* up asks for the current version before every migration and ends when none follows.
NextVersion(r) ==
    /\ At(r, "current")
    /\ run' = [run EXCEPT ![r].pc = IF Current < Latest THEN "tx" ELSE "done",
                          ![r].target = Current + 1]
    /\ UNCHANGED <<ledger, serial, tables, rolledBack>>

\* MUTANT: the migration is marked NO TRANSACTION, and the run dies before the version
\* is recorded.
UpTx_NoTx(r) ==
    /\ At(r, "tx") /\ run[r].verb = "up"
    /\ run[r].target \notin tables
    /\ tables' = tables \cup {run[r].target}
    /\ Go(r, "failed")
    /\ UNCHANGED <<ledger, serial, rolledBack>>

\* One transaction creates the table and records the version; a run that does not
\* hear of the commit fails.
UpTx(r) ==
    /\ At(r, "tx") /\ run[r].verb = "up"
    /\ IF run[r].target \in tables
       THEN Go(r, "failed") /\ UNCHANGED <<ledger, serial, tables>>
       ELSE /\ tables' = tables \cup {run[r].target}
            /\ ledger' = [ledger EXCEPT ![run[r].target] = serial + 1]
            /\ serial' = serial + 1
            /\ \E acknowledged \in BOOLEAN : Go(r, IF acknowledged THEN "current" ELSE "failed")
    /\ UNCHANGED rolledBack

\* One transaction drops the table and deletes the version.
DownTx(r) ==
    /\ At(r, "tx") /\ run[r].verb = "down"
    /\ IF run[r].target \notin tables
       THEN Go(r, "failed") /\ UNCHANGED <<ledger, tables, rolledBack>>
       ELSE /\ tables' = tables \ {run[r].target}
            /\ ledger' = [ledger EXCEPT ![run[r].target] = 0]
            /\ rolledBack' = TRUE
            /\ \E acknowledged \in BOOLEAN : Go(r, IF acknowledged THEN "done" ELSE "failed")
    /\ UNCHANGED serial

\* The connection is lost, a signal cancels the context or the process dies; an open
\* transaction is rolled back.
Fail(r) ==
    /\ Running(r)
    /\ Go(r, "failed")
    /\ UNCHANGED <<ledger, serial, tables, rolledBack>>

GooseStep(r) ==
    \/ Ensure(r) \/ CreateLedger(r) \/ CheckMissing(r) \/ NextVersion(r)
    \/ UpTx(r) \/ DownTx(r)

-----------------------------------------------------------------------------
MigrationInit ==
    /\ ledger = [v \in 0..Latest |-> 0]
    /\ serial = 0
    /\ tables = {}
    /\ rolledBack = FALSE
    /\ run = [r \in Runs |-> NoRun]

MigrationNext ==
    \E r \in Runs : (\E verb \in Verbs : Migrate(r, verb)) \/ GooseStep(r) \/ Fail(r)

MigrationSpec == MigrationInit /\ [][MigrationNext]_migrationVars

-----------------------------------------------------------------------------
(* Properties.                                                             *)

\* Every variable keeps its type.
MigrationTypeOK ==
    /\ ledger \in [0..Latest -> Nat]
    /\ serial \in Nat
    /\ tables \subseteq Versions
    /\ rolledBack \in BOOLEAN
    /\ run \in [Runs -> [verb : Verbs, target : 0..Latest + 1,
                         pc : {"idle", "ensure", "create", "check", "current", "tx",
                               "done", "failed"}]]

\* The ledger tells the schema: a table exists exactly when its version is recorded,
\* whichever runs raced, failed half way or never heard of their commit.  What
\* Migrate finds on the next run is therefore where the last one stopped.
SchemaTold == \A v \in Versions : v \in tables <=> v \in Recorded

\* As long as nothing has been rolled back, the recorded versions have no gap, and an
\* up that ended without an error has left the whole schema behind.
UpIsComplete ==
    ~rolledBack => /\ Missing = {}
                   /\ \A r \in Runs : run[r].verb = "up" /\ At(r, "done") => tables = Versions
=============================================================================
