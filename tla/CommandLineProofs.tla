------------------------- MODULE CommandLineProofs -------------------------
(***************************************************************************)
(* Proofs about CommandLine: the processes drive goose as Migrations says, *)
(* and the stack serves only what it migrated and seeded, for any number   *)
(* of migrations and of operator commands.                                 *)
(***************************************************************************)
EXTENDS CommandLine, MigrationsProofs

\* What each process of the stack may be doing.
ProcInv ==
    /\ proc = [p \in Procs |-> proc[p]]
    /\ proc["migrate"].phase \in {"off", "started", "migrating", "exited"}
    /\ proc["seed"].phase \in {"off", "seeding", "exited"}
    /\ proc["api"].phase \in {"off", "started", "building", "serving", "exited"}
    /\ Phase("api", "started") => proc["api"].given.cmd = "serve"
    /\ Phase("migrate", "started") => proc["migrate"].given.cmd = "up"
    /\ Phase("migrate", "migrating") => run["migrate"].verb = "up" /\ run["migrate"].pc # "idle"

\* Seed data is in tables that exist, and until a rollback each step of the stack has
\* left behind what the next one builds on.
SeedInv ==
    /\ seeded \subseteq tables
    /\ ~rolledBack =>
          /\ Succeeded("migrate") => tables = Versions
          /\ Phase("seed", "seeding") =>
                proc["seed"].files \in 0..Latest /\ 1..proc["seed"].files \subseteq seeded
          /\ Succeeded("seed") \/ ~Phase("api", "off") => seeded = Versions

StackInv == MigrationInv /\ ProcInv /\ SeedInv

\* The processes are four different ones.
LEMMA ProcsLemma ==
    /\ Procs = {"migrate", "seed", "api", Operator} /\ Runs = {"migrate", Operator}
    /\ Operator \notin {"migrate", "seed", "api"}
  BY StackAssumption DEF Procs

\* What a step of a command does to its own process.
LEMMA CommandLemma ==
    ASSUME StackInv, NEW p \in Procs, Command(p)
    PROVE  \E q :
              /\ proc' = [proc EXCEPT ![p] = q]
              /\ UNCHANGED <<seeded, tables, rolledBack, ledger, serial>>
              /\ proc[p].phase \in {"started", "migrating", "building", "serving"}
              /\ q.phase \in {"exited", "migrating", "building", "serving"}
              /\ q.phase = "migrating" => /\ Phase(p, "started") /\ proc[p].given.cmd \in Verbs
                                          /\ Migrate(p, proc[p].given.cmd)
              /\ q.phase # "migrating" => UNCHANGED run
              /\ q.phase = "building" => Phase(p, "started") /\ proc[p].given.cmd = "serve"
              /\ q.phase = "serving" => Phase(p, "building")
              /\ q.phase = "exited" /\ q.code = 0 /\ Phase(p, "started") => proc[p].given.cmd \notin Verbs
              /\ q.phase = "exited" /\ q.code = 0 /\ Phase(p, "migrating")
                    => run[p].pc \notin {"ensure", "create", "check", "current", "tx", "failed"}
  <1> USE DEF Phase, Off, Exit, To
  <1>2. CASE RunPrint(p)
    BY <1>2 DEF RunPrint, migrationVars, Verbs
  <1>3. CASE RunMigrate(p)
    <2>1. CASE TrimmedEmpty(LoadedBy(p)["database-url"])
      <3>1. proc' = [proc EXCEPT ![p] = [Off EXCEPT !.phase = "exited", !.code = 1]]
        BY <1>3, <2>1 DEF RunMigrate
      <3>2. /\ UNCHANGED <<seeded, tables, rolledBack, ledger, serial>> /\ UNCHANGED run
            /\ proc[p].phase = "started"
        BY <1>3, <2>1 DEF RunMigrate, migrationVars
      <3>3. PICK q : q = [Off EXCEPT !.phase = "exited", !.code = 1]
        OBVIOUS
      <3>4. q.phase = "exited" /\ q.code # 0
        BY <3>3
      <3>5. proc' = [proc EXCEPT ![p] = q]
        BY <3>1, <3>3
      <3> WITNESS q
      <3> HIDE DEF Off, Exit, To
      <3> QED BY <3>2, <3>4, <3>5
    <2>2. CASE ~TrimmedEmpty(LoadedBy(p)["database-url"])
      <3>1. /\ proc' = [proc EXCEPT ![p] = [Off EXCEPT !.phase = "migrating"]]
            /\ UNCHANGED seeded /\ proc[p].phase = "started"
            /\ proc[p].given.cmd \in Verbs /\ Migrate(p, proc[p].given.cmd)
        BY <1>3, <2>2 DEF RunMigrate
      <3>2. UNCHANGED <<ledger, serial, tables, rolledBack>>
        BY <3>1 DEF Migrate
      <3> QED BY <3>1, <3>2
    <2> QED BY <2>1, <2>2
  <1>4. CASE MigrateReturns(p)
    <2>1. PICK code : code = IF At(p, "failed") THEN 1 ELSE 0
      OBVIOUS
    <2>2. /\ proc' = [proc EXCEPT ![p] = [Off EXCEPT !.phase = "exited", !.code = code]]
          /\ UNCHANGED <<seeded, ledger, serial, tables, rolledBack, run>>
          /\ proc[p].phase = "migrating" /\ ~Running(p)
      BY <1>4, <2>1 DEF MigrateReturns, migrationVars
    <2>3. code = 0 => run[p].pc \notin {"ensure", "create", "check", "current", "tx", "failed"}
      BY <2>1, <2>2 DEF Running, At
    <2>4. PICK q : q = [Off EXCEPT !.phase = "exited", !.code = code]
      OBVIOUS
    <2>5. q.phase = "exited" /\ q.code = code /\ proc' = [proc EXCEPT ![p] = q]
      BY <2>2, <2>4
    <2> QED BY <2>2, <2>3, <2>5
  <1>5. CASE RunServe(p)
    BY <1>5 DEF RunServe, migrationVars, Verbs
  <1>6. CASE NewApp(p)
    BY <1>6 DEF NewApp, migrationVars
  <1>7. CASE ServeReturns(p)
    BY <1>7 DEF ServeReturns, migrationVars
  <1> QED BY <1>2, <1>3, <1>4, <1>5, <1>6, <1>7 DEF Command

-----------------------------------------------------------------------------
(* Each group of steps keeps the invariant.                                *)

\* A process of the stack or the operator's goes on with its command.
LEMMA CommandStep ==
    ASSUME StackInv, NEW p \in Procs, Command(p)
    PROVE  /\ ProcInv' /\ SeedInv'
           /\ [MigrationNext]_migrationVars
  <1>1. PICK q :
              /\ proc' = [proc EXCEPT ![p] = q]
              /\ UNCHANGED <<seeded, tables, rolledBack, ledger, serial>>
              /\ proc[p].phase \in {"started", "migrating", "building", "serving"}
              /\ q.phase \in {"exited", "migrating", "building", "serving"}
              /\ q.phase = "migrating" => /\ Phase(p, "started") /\ proc[p].given.cmd \in Verbs
                                          /\ Migrate(p, proc[p].given.cmd)
              /\ q.phase # "migrating" => UNCHANGED run
              /\ q.phase = "building" => Phase(p, "started") /\ proc[p].given.cmd = "serve"
              /\ q.phase = "serving" => Phase(p, "building")
              /\ q.phase = "exited" /\ q.code = 0 /\ Phase(p, "started") => proc[p].given.cmd \notin Verbs
              /\ q.phase = "exited" /\ q.code = 0 /\ Phase(p, "migrating")
                    => run[p].pc \notin {"ensure", "create", "check", "current", "tx", "failed"}
    BY CommandLemma
  <1>2. /\ proc = [x \in Procs |-> proc[x]] /\ proc'[p] = q
        /\ \A x \in Procs : x # p => proc'[x] = proc[x]
        /\ proc' = [x \in Procs |-> proc'[x]]
    BY <1>1 DEF StackInv, ProcInv
  <1>3. p # "seed" /\ {"migrate", "seed", "api"} \subseteq Procs
    BY <1>1, ProcsLemma DEF StackInv, ProcInv
  <1>4. q.phase = "migrating" => p \in Runs
    BY <1>1, <1>3, ProcsLemma DEF StackInv, ProcInv, Phase, Verbs
  <1>5. /\ run \in [Runs -> RunRecords]
        /\ q.phase = "migrating" =>
              run' = [run EXCEPT ![p] = [verb |-> proc[p].given.cmd, pc |-> "ensure", target |-> 0]]
    BY <1>1 DEF Migrate, StackInv, MigrationInv, MigrationTypeOK, RunRecords
  <1>6. [MigrationNext]_migrationVars
    BY <1>1, <1>4 DEF MigrationNext, migrationVars
  <1>7. ProcInv'
    <2>1. CASE p = "migrate"
      BY <1>1, <1>2, <1>3, <1>5, <2>1, ProcsLemma DEF StackInv, ProcInv, Phase
    <2>2. CASE p = "api"
      BY <1>1, <1>2, <1>3, <1>4, <2>2, ProcsLemma DEF StackInv, ProcInv, Phase
    <2>3. CASE p = Operator
      <3>1. run'["migrate"] = run["migrate"]
        BY <1>1, <1>5, <2>3, ProcsLemma
      <3> QED BY <1>1, <1>2, <1>3, <2>3, <3>1, ProcsLemma DEF StackInv, ProcInv, Phase
    <2> QED BY <1>3, <2>1, <2>2, <2>3, ProcsLemma
  <1>8. SeedInv'
    <2>1. Succeeded("migrate")' /\ ~rolledBack => tables = Versions
      <3>1. CASE p # "migrate"
        BY <1>2, <1>3, <3>1 DEF StackInv, SeedInv, Succeeded, Phase
      <3>2. CASE p = "migrate"
        <4> SUFFICES ASSUME q.phase = "exited", q.code = 0, ~rolledBack PROVE tables = Versions
          BY <1>2, <3>2 DEF Succeeded, Phase
        <4>1. run["migrate"].verb = "up" /\ run["migrate"].pc = "done"
          <5>1. Phase(p, "migrating")
            BY <1>1, <3>2 DEF StackInv, ProcInv, Phase, Verbs
          <5> QED BY <1>1, <1>5, <3>2, <5>1, ProcsLemma DEF StackInv, ProcInv, RunRecords
        <4> QED BY <4>1, UpComplete, ProcsLemma DEF StackInv, UpIsComplete, At
      <3> QED BY <3>1, <3>2
    <2>2. UNCHANGED proc["seed"] /\ (Phase("api", "off")' <=> Phase("api", "off"))
      BY <1>1, <1>2, <1>3 DEF Phase
    <2> QED BY <1>1, <2>1, <2>2 DEF StackInv, SeedInv, Succeeded, Phase, Versions
  <1> QED BY <1>6, <1>7, <1>8

\* What starting a command does; without flags there is none to refuse.
LEMMA ExecuteLemma ==
    ASSUME NEW p, NEW cmd, Execute(p, Plain(cmd))
    PROVE  \E q : /\ proc' = [proc EXCEPT ![p] = q]
                  /\ q.phase = "started" /\ q.given.cmd = cmd
  <1>1. ~\E s \in DOMAIN Plain(cmd).flags : Refused(s, Plain(cmd).flags[s])
    BY DEF Plain, Given, Nothing
  <1>2. PICK q : q = [Off EXCEPT !.phase = "started", !.given = Plain(cmd)]
    OBVIOUS
  <1>3. proc' = [proc EXCEPT ![p] = q]
    BY <1>1, <1>2 DEF Execute
  <1>4. q.phase = "started" /\ q.given = Plain(cmd)
    BY <1>2 DEF Off
  <1>5. q.given.cmd = cmd
    BY <1>4 DEF Plain, Given
  <1> QED BY <1>3, <1>4, <1>5

\* A step of the stack starts the next process or applies a seed file.
LEMMA StackStep ==
    ASSUME StackInv, Stack
    PROVE  ProcInv' /\ SeedInv' /\ UNCHANGED migrationVars
  <1>1. /\ {"migrate", "seed", "api"} \subseteq Procs /\ tables \subseteq Versions
        /\ proc = [p \in Procs |-> proc[p]]
    BY ProcsLemma DEF StackInv, MigrationInv, MigrationTypeOK, ProcInv
  <1>2. CASE StartMigrate
    <2>1. PICK q : proc' = [proc EXCEPT !["migrate"] = q] /\ q.phase = "started" /\ q.given.cmd = "up"
      BY <1>2, ExecuteLemma DEF StartMigrate
    <2>2. UNCHANGED <<seeded, ledger, serial, tables, rolledBack, run>>
      BY <1>2 DEF StartMigrate, migrationVars
    <2>3. /\ proc' = [p \in Procs |-> proc'[p]] /\ proc'["migrate"] = q
          /\ proc'["seed"] = proc["seed"] /\ proc'["api"] = proc["api"]
      BY <1>1, <2>1
    <2> QED BY <2>1, <2>2, <2>3 DEF StackInv, ProcInv, SeedInv, Phase, Succeeded, Versions, migrationVars
  <1>3. CASE StartSeed
    <2>1. PICK q : q = [Off EXCEPT !.phase = "seeding"]
      OBVIOUS
    <2>2. proc' = [proc EXCEPT !["seed"] = q] /\ Succeeded("migrate")
      BY <1>3, <2>1 DEF StartSeed, To
    <2>3. q.phase = "seeding" /\ q.files = 0
      BY <2>1 DEF Off
    <2>4. UNCHANGED <<seeded, ledger, serial, tables, rolledBack, run>>
      BY <1>3 DEF StartSeed, migrationVars
    <2>5. /\ proc' = [p \in Procs |-> proc'[p]] /\ proc'["seed"] = q
          /\ proc'["migrate"] = proc["migrate"] /\ proc'["api"] = proc["api"]
      BY <1>1, <2>2
    <2>6. ProcInv'
      BY <2>3, <2>4, <2>5 DEF StackInv, ProcInv, Phase
    <2>7. q.files \in 0..Latest /\ 1..q.files = {}
      BY <2>3, LatestAssumption
    <2>8. SeedInv'
      BY <2>3, <2>4, <2>5, <2>7 DEF StackInv, SeedInv, Phase, Succeeded, Versions
    <2> QED BY <2>4, <2>6, <2>8 DEF migrationVars
  <1>4. CASE SeedFile
    <2> DEFINE file == proc["seed"].files + 1
    <2>1. UNCHANGED <<ledger, serial, tables, rolledBack, run>>
      BY <1>4 DEF SeedFile, migrationVars
    <2>2. CASE SeedExits(3) /\ UNCHANGED seeded
      <3>1. PICK q : q = [Off EXCEPT !.phase = "exited", !.code = 3]
        OBVIOUS
      <3>2. proc' = [proc EXCEPT !["seed"] = q]
        BY <2>2, <3>1 DEF SeedExits
      <3>3. q.phase = "exited" /\ q.code # 0
        BY <3>1 DEF Off
      <3>4. /\ proc' = [p \in Procs |-> proc'[p]] /\ proc'["seed"] = q
            /\ proc'["migrate"] = proc["migrate"] /\ proc'["api"] = proc["api"]
        BY <1>1, <3>2
      <3>5. ProcInv'
        BY <2>1, <3>3, <3>4 DEF StackInv, ProcInv, Phase
      <3>6. SeedInv'
        BY <2>1, <2>2, <3>3, <3>4 DEF StackInv, SeedInv, Phase, Succeeded, Versions
      <3> QED BY <2>1, <3>5, <3>6 DEF migrationVars
    <2>3. CASE file \in tables /\ seeded' = seeded \cup {file}
               /\ proc' = [proc EXCEPT !["seed"] = [Off EXCEPT !.phase = "seeding", !.files = file]]
      <3>1. PICK q : q = [Off EXCEPT !.phase = "seeding", !.files = file]
        OBVIOUS
      <3>2. proc' = [proc EXCEPT !["seed"] = q]
        BY <2>3, <3>1
      <3>3. q.phase = "seeding" /\ q.files = file
        BY <3>1 DEF Off
      <3>4. /\ proc' = [p \in Procs |-> proc'[p]] /\ proc'["seed"] = q
            /\ proc'["migrate"] = proc["migrate"] /\ proc'["api"] = proc["api"]
        BY <1>1, <3>2
      <3>5. ProcInv'
        BY <2>1, <3>3, <3>4 DEF StackInv, ProcInv, Phase
      <3>6. file \in 1..Latest /\ (seeded = Versions => seeded' = Versions) /\ seeded' \subseteq tables
        BY <1>1, <2>3 DEF Versions, StackInv, SeedInv
      <3>7. ~rolledBack => q.files \in 0..Latest /\ 1..q.files \subseteq seeded'
        <4> SUFFICES ASSUME ~rolledBack PROVE q.files \in 0..Latest /\ 1..q.files \subseteq seeded'
          OBVIOUS
        <4>1. proc["seed"].files \in 0..Latest /\ 1..proc["seed"].files \subseteq seeded
          BY <1>4 DEF SeedFile, StackInv, SeedInv
        <4> QED BY <2>3, <3>3, <3>6, <4>1, LatestAssumption
      <3>8. SeedInv'
        BY <2>1, <3>3, <3>4, <3>6, <3>7 DEF StackInv, SeedInv, Phase, Succeeded, Versions
      <3> QED BY <2>1, <3>5, <3>8 DEF migrationVars
    <2> QED BY <1>4, <2>2, <2>3 DEF SeedFile
  <1>5. CASE SeedEnds
    <2>1. PICK q : q = [Off EXCEPT !.phase = "exited", !.code = 0]
      OBVIOUS
    <2>2. proc' = [proc EXCEPT !["seed"] = q] /\ Phase("seed", "seeding") /\ proc["seed"].files = Latest
      BY <1>5, <2>1 DEF SeedEnds, SeedExits
    <2>3. q.phase = "exited"
      BY <2>1 DEF Off
    <2>4. UNCHANGED <<seeded, ledger, serial, tables, rolledBack, run>>
      BY <1>5 DEF SeedEnds, migrationVars
    <2>5. /\ proc' = [p \in Procs |-> proc'[p]] /\ proc'["seed"] = q
          /\ proc'["migrate"] = proc["migrate"] /\ proc'["api"] = proc["api"]
      BY <1>1, <2>2
    <2>6. ProcInv'
      BY <2>3, <2>4, <2>5 DEF StackInv, ProcInv, Phase
    <2>7. ~rolledBack => seeded = Versions
      BY <1>1, <2>2 DEF StackInv, SeedInv, Versions
    <2>8. SeedInv'
      BY <2>3, <2>4, <2>5, <2>7 DEF StackInv, SeedInv, Phase, Succeeded, Versions
    <2> QED BY <2>4, <2>6, <2>8 DEF migrationVars
  <1>6. CASE StartApi
    <2>1. PICK q : proc' = [proc EXCEPT !["api"] = q] /\ q.phase = "started" /\ q.given.cmd = "serve"
      BY <1>6, ExecuteLemma DEF StartApi
    <2>2. UNCHANGED <<seeded, ledger, serial, tables, rolledBack, run>>
      BY <1>6 DEF StartApi, migrationVars
    <2>3. /\ proc' = [p \in Procs |-> proc'[p]] /\ proc'["api"] = q
          /\ proc'["seed"] = proc["seed"] /\ proc'["migrate"] = proc["migrate"]
      BY <1>1, <2>1
    <2>4. ProcInv'
      BY <2>1, <2>2, <2>3 DEF StackInv, ProcInv, Phase
    <2>5. Succeeded("seed") \/ ~Phase("api", "off")
      BY <1>6 DEF StartApi, Phase
    <2>6. SeedInv'
      BY <2>1, <2>2, <2>3, <2>5 DEF StackInv, SeedInv, Phase, Succeeded, Versions
    <2> QED BY <2>2, <2>4, <2>6 DEF migrationVars
  <1> QED BY <1>2, <1>3, <1>4, <1>5, <1>6 DEF Stack

\* What the operator starts is a process of his own.
LEMMA OperatorStep ==
    ASSUME StackInv, OperatorRuns
    PROVE  ProcInv' /\ SeedInv' /\ UNCHANGED migrationVars
  <1>1. PICK given : Execute(Operator, given)
    BY DEF OperatorRuns
  <1>2. PICK q : proc' = [proc EXCEPT ![Operator] = q]
    BY <1>1 DEF Execute, Exit
  <1>3. UNCHANGED <<seeded, ledger, serial, tables, rolledBack, run>>
    BY DEF OperatorRuns, migrationVars
  <1>4. /\ proc' = [p \in Procs |-> proc'[p]] /\ proc'["migrate"] = proc["migrate"]
        /\ proc'["seed"] = proc["seed"] /\ proc'["api"] = proc["api"]
    BY <1>2, ProcsLemma DEF StackInv, ProcInv
  <1> QED BY <1>3, <1>4 DEF StackInv, ProcInv, SeedInv, Phase, Succeeded, Versions, migrationVars

\* Starting the stack again takes back what its first two steps have shown.
LEMMA StackUpStep ==
    ASSUME StackInv, StackUp
    PROVE  ProcInv' /\ SeedInv' /\ UNCHANGED migrationVars
  <1>1. /\ proc' = [proc EXCEPT !["migrate"] = Off, !["seed"] = Off] /\ Phase("api", "off")
        /\ UNCHANGED <<seeded, ledger, serial, tables, rolledBack, run>>
    BY DEF StackUp, migrationVars
  <1>2. /\ proc' = [p \in Procs |-> proc'[p]] /\ proc'["migrate"] = Off
        /\ proc'["seed"] = Off /\ proc'["api"] = proc["api"]
    BY <1>1, ProcsLemma DEF StackInv, ProcInv
  <1>3. Off.phase = "off"
    BY DEF Off
  <1> QED BY <1>1, <1>2, <1>3 DEF StackInv, ProcInv, SeedInv, Phase, Succeeded, Versions, migrationVars

\* What a step of goose leaves alone: its own verb, the other runs, and every table
\* until the first rollback.
LEMMA GooseLemma ==
    ASSUME MigrationInv, NEW r \in Runs, GooseStep(r) \/ Fail(r)
    PROVE  /\ run'[r].verb = run[r].verb /\ run'[r].pc # "idle"
           /\ \A p \in Runs : p # r => run'[p] = run[p]
           /\ ~rolledBack' => ~rolledBack /\ tables \subseteq tables'
  <1>1. run \in [Runs -> RunRecords] /\ run[r] \in RunRecords
    BY DEF MigrationInv, MigrationTypeOK, RunRecords
  <1>2. ASSUME NEW pc, pc # "idle", Go(r, pc)
        PROVE  /\ run'[r].verb = run[r].verb /\ run'[r].pc # "idle"
               /\ \A p \in Runs : p # r => run'[p] = run[p]
    BY <1>1, <1>2 DEF Go, RunRecords
  <1>3. CASE Ensure(r)
    <2>1. UNCHANGED <<tables, rolledBack>>
      BY <1>3 DEF Ensure
    <2>2. PICK q : /\ run' = [run EXCEPT ![r] = q]
                   /\ q.verb = run[r].verb /\ q.pc # "idle"
      <3>1. run[r].verb \in Verbs
        BY <1>1 DEF RunRecords
      <3>2. CASE ~HasLedger
        <4>1. run' = [run EXCEPT ![r] = [run[r] EXCEPT !.pc = "create"]]
          BY <1>3, <3>2 DEF Ensure
        <4>2. /\ [run[r] EXCEPT !.pc = "create"].verb = run[r].verb
              /\ [run[r] EXCEPT !.pc = "create"].pc # "idle"
          BY <1>1 DEF RunRecords
        <4> QED BY <4>1, <4>2
      <3>3. CASE HasLedger /\ run[r].verb = "up"
        <4>1. run' = [run EXCEPT ![r] = [run[r] EXCEPT !.pc = "check"]]
          BY <1>3, <3>3 DEF Ensure
        <4>2. /\ [run[r] EXCEPT !.pc = "check"].verb = run[r].verb
              /\ [run[r] EXCEPT !.pc = "check"].pc # "idle"
          BY <1>1 DEF RunRecords
        <4> QED BY <4>1, <4>2
      <3>4. CASE HasLedger /\ run[r].verb = "status"
        <4>1. run' = [run EXCEPT ![r] = [run[r] EXCEPT !.pc = "done"]]
          BY <1>3, <3>4 DEF Ensure
        <4>2. /\ [run[r] EXCEPT !.pc = "done"].verb = run[r].verb
              /\ [run[r] EXCEPT !.pc = "done"].pc # "idle"
          BY <1>1 DEF RunRecords
        <4> QED BY <4>1, <4>2
      <3>5. CASE HasLedger /\ run[r].verb = "down"
        <4>1. PICK pc \in {"failed", "tx"} : pc = IF Current = 0 THEN "failed" ELSE "tx"
          OBVIOUS
        <4>2. run' = [run EXCEPT ![r] = [run[r] EXCEPT !.pc = pc, !.target = Current]]
          BY <1>3, <3>5, <4>1 DEF Ensure
        <4>3. /\ [run[r] EXCEPT !.pc = pc, !.target = Current].verb = run[r].verb
              /\ [run[r] EXCEPT !.pc = pc, !.target = Current].pc # "idle"
          BY <1>1, <4>1 DEF RunRecords
        <4> QED BY <4>2, <4>3
      <3> QED BY <3>1, <3>2, <3>3, <3>4, <3>5 DEF Verbs
    <2> QED BY <1>1, <2>1, <2>2
  <1>4. CASE CreateLedger(r)
    <2>1. UNCHANGED <<tables, rolledBack>>
      BY <1>4 DEF CreateLedger
    <2>2. PICK pc \in {"failed", "check", "done"} : Go(r, pc)
      BY <1>1, <1>4 DEF CreateLedger, AfterCreate, RunRecords, Verbs
    <2> QED BY <1>2, <2>1, <2>2
  <1>5. CASE CheckMissing(r)
    <2>1. PICK pc \in {"current", "failed"} : Go(r, pc)
      BY <1>5 DEF CheckMissing
    <2> QED BY <1>2, <1>5, <2>1 DEF CheckMissing
  <1>6. CASE NextVersion(r)
    <2>1. PICK q : q = [run[r] EXCEPT !.pc = IF Current < Latest THEN "tx" ELSE "done",
                                      !.target = Current + 1]
      OBVIOUS
    <2>2. run' = [run EXCEPT ![r] = q]
      BY <1>1, <1>6, <2>1 DEF NextVersion
    <2>3. q.verb = run[r].verb /\ q.pc # "idle"
      BY <1>1, <2>1 DEF RunRecords
    <2> QED BY <1>1, <1>6, <2>2, <2>3 DEF NextVersion
  <1>7. CASE UpTx(r)
    <2>1. PICK pc \in {"current", "failed"} : Go(r, pc)
      BY <1>7 DEF UpTx
    <2>2. tables \subseteq tables' /\ UNCHANGED rolledBack
      BY <1>7 DEF UpTx
    <2> QED BY <1>2, <2>1, <2>2
  <1>8. CASE DownTx(r)
    <2>1. PICK pc \in {"done", "failed"} : Go(r, pc)
      BY <1>8 DEF DownTx
    <2>2. ~rolledBack' => ~rolledBack /\ UNCHANGED tables
      BY <1>8 DEF DownTx
    <2> QED BY <1>2, <2>1, <2>2
  <1>9. CASE Fail(r)
    BY <1>2, <1>9 DEF Fail
  <1> QED BY <1>3, <1>4, <1>5, <1>6, <1>7, <1>8, <1>9 DEF GooseStep

\* A step of goose inside a process.
LEMMA GooseProcStep ==
    ASSUME StackInv, NEW r \in Runs, Goose(r)
    PROVE  ProcInv' /\ SeedInv' /\ MigrationNext
  <1>1. MigrationNext
    BY DEF Goose, MigrationNext
  <1>2. tables' \subseteq Versions
    BY <1>1, MigrationNextInv DEF StackInv, MigrationInv, MigrationTypeOK
  <1>3. /\ run'[r].verb = run[r].verb /\ run'[r].pc # "idle"
        /\ \A p \in Runs : p # r => run'[p] = run[p]
        /\ ~rolledBack' => ~rolledBack /\ tables \subseteq tables'
    BY GooseLemma DEF StackInv, Goose
  <1>4. UNCHANGED proc /\ seeded' = seeded \cap tables'
    BY DEF Goose
  <1>5. ProcInv'
    BY <1>3, <1>4, ProcsLemma DEF StackInv, ProcInv, Phase
  <1>6. ~rolledBack' => seeded' = seeded /\ (tables = Versions => tables' = Versions)
    BY <1>2, <1>3, <1>4 DEF StackInv, SeedInv, Versions
  <1>7. SeedInv'
    BY <1>3, <1>4, <1>6 DEF StackInv, SeedInv, Phase, Succeeded, Versions
  <1> QED BY <1>1, <1>5, <1>7

-----------------------------------------------------------------------------
\* Nothing has been started and the database is empty.
LEMMA StackInitInv == ASSUME Init PROVE StackInv
  <1>1. MigrationInv /\ seeded \subseteq tables /\ proc = [p \in Procs |-> Off]
    BY MigrationInitInv DEF Init
  <1>2. /\ proc["migrate"].phase = "off" /\ proc["seed"].phase = "off"
        /\ proc["api"].phase = "off" /\ proc = [p \in Procs |-> proc[p]]
    BY <1>1, ProcsLemma DEF Off
  <1> QED BY <1>1, <1>2 DEF StackInv, ProcInv, SeedInv, Phase, Succeeded

\* Every step keeps the invariant and is, for goose, a step of Migrations or none.
LEMMA StackNextInv ==
    ASSUME StackInv, [Next]_vars PROVE StackInv' /\ [MigrationNext]_migrationVars
  <1>1. ProcInv' /\ SeedInv' /\ [MigrationNext]_migrationVars
    <2>1. CASE Stack
      BY <2>1, StackStep
    <2>2. CASE OperatorRuns
      BY <2>2, OperatorStep
    <2>3. CASE StackUp
      BY <2>3, StackUpStep
    <2>4. ASSUME NEW p \in Procs, Command(p)
          PROVE  ProcInv' /\ SeedInv' /\ [MigrationNext]_migrationVars
      BY <2>4, CommandStep
    <2>5. ASSUME NEW r \in Runs, Goose(r)
          PROVE  ProcInv' /\ SeedInv' /\ [MigrationNext]_migrationVars
      BY <2>5, GooseProcStep
    <2>6. CASE UNCHANGED vars
      <3>1. UNCHANGED <<proc, seeded, commands, ledger, serial, tables, rolledBack, run>>
        BY <2>6 DEF vars, migrationVars
      <3> QED BY <3>1 DEF StackInv, ProcInv, SeedInv, Phase, Succeeded, Versions, migrationVars
    <2> QED BY <2>1, <2>2, <2>3, <2>4, <2>5, <2>6 DEF Next
  <1>2. MigrationInv'
    BY <1>1, MigrationNextInv DEF StackInv
  <1> QED BY <1>1, <1>2 DEF StackInv

\* The inductive invariant of the stack.
THEOREM StackInvariance == Spec => []StackInv
  <1>1. Init => StackInv
    BY StackInitInv
  <1>2. StackInv /\ [Next]_vars => StackInv'
    BY StackNextInv
  <1> QED BY <1>1, <1>2, PTL DEF Spec

\* Refinement: whatever the processes of the stack and the operator do, what they do
\* to the database is a behaviour of Migrations.
THEOREM ProcessesMigrate == Spec => MigrationSpec
  <1>1. Init => MigrationInit
    BY DEF Init
  <1>2. StackInv /\ [Next]_vars => [MigrationNext]_migrationVars
    BY StackNextInv
  <1> QED BY <1>1, <1>2, StackInvariance, PTL DEF Spec, MigrationSpec

\* The ledger tells the schema under everything the stack and the operator run.
THEOREM SchemaToldInStack == Spec => []SchemaTold
  BY ProcessesMigrate, SchemaAlwaysTold, PTL

\* The api serves only with the whole schema and all of the seed data behind it, until
\* somebody rolls a migration back.
THEOREM StackAlwaysInOrder == Spec => []StackInOrder
  <1>1. StackInv => StackInOrder
    BY DEF StackInv, SeedInv, StackInOrder, Phase
  <1> QED BY <1>1, StackInvariance, PTL

-----------------------------------------------------------------------------
(* Processes and their configuration.                                      *)

\* A process has the type it should have, and was given only settings there are.
GoodProc(q) ==
    /\ q.phase \in {"off", "started", "migrating", "seeding", "building", "serving", "exited"}
    /\ q.given.cmd \in Commands /\ q.code \in {0, 1, 3} /\ q.files \in 0..Latest
    /\ q.phase = "started" => DOMAIN q.given.env \subseteq Settings

GivenInv == (\A p \in Procs : GoodProc(proc[p])) /\ commands \in 0..MaxCommands

LEMMA OffLemma ==
    /\ GoodProc(Off) /\ Off.phase = "off" /\ Off.given.cmd \in Commands
    /\ Off.code = 0 /\ Off.files = 0
  BY LatestAssumption DEF Off, GoodProc, Plain, Given, Commands

\* Every way a process is replaced yields a good one.
LEMMA ReplacedLemma ==
    ASSUME NEW p,
           \/ \E err \in BOOLEAN : Exit(p, err)
           \/ \E phase \in {"migrating", "seeding", "building", "serving"} : To(p, phase)
    PROVE  \E q : GoodProc(q) /\ proc' = [proc EXCEPT ![p] = q]
  <1>1. ASSUME NEW err \in BOOLEAN, Exit(p, err)
        PROVE  \E q : GoodProc(q) /\ proc' = [proc EXCEPT ![p] = q]
    <2>1. PICK c \in {0, 1} : c = IF err THEN 1 ELSE 0
      OBVIOUS
    <2>2. PICK q : q = [Off EXCEPT !.phase = "exited", !.code = c]
      OBVIOUS
    <2>3. q.phase = "exited" /\ q.code = c /\ q.given = Off.given /\ q.files = Off.files
      BY <2>2 DEF Off
    <2>4. GoodProc(q)
      BY <2>1, <2>3, OffLemma, LatestAssumption DEF GoodProc
    <2>5. proc' = [proc EXCEPT ![p] = q]
      BY <1>1, <2>1, <2>2 DEF Exit
    <2> QED BY <2>4, <2>5
  <1>2. ASSUME NEW phase \in {"migrating", "seeding", "building", "serving"}, To(p, phase)
        PROVE  \E q : GoodProc(q) /\ proc' = [proc EXCEPT ![p] = q]
    <2>1. PICK q : q = [Off EXCEPT !.phase = phase]
      OBVIOUS
    <2>2. q.phase = phase /\ q.code = Off.code /\ q.given = Off.given /\ q.files = Off.files
      BY <2>1 DEF Off
    <2>3. GoodProc(q)
      BY <2>2, OffLemma, LatestAssumption DEF GoodProc
    <2>4. proc' = [proc EXCEPT ![p] = q]
      BY <1>2, <2>1 DEF To
    <2> QED BY <2>3, <2>4
  <1> QED BY <1>1, <1>2

LEMMA StartedLemma ==
    ASSUME NEW p, NEW cmd \in Commands, NEW flags, NEW env, DOMAIN env \subseteq Settings,
           Execute(p, Given(cmd, flags, env))
    PROVE  \E q : GoodProc(q) /\ proc' = [proc EXCEPT ![p] = q]
  <1>1. PICK given : given = Given(cmd, flags, env)
    OBVIOUS
  <1>2. given.cmd = cmd /\ given.env = env
    BY <1>1 DEF Given
  <1>3. CASE Exit(p, TRUE)
    BY <1>3, ReplacedLemma
  <1>4. CASE proc' = [proc EXCEPT ![p] = [Off EXCEPT !.phase = "started", !.given = given]]
    <2>1. PICK q : q = [Off EXCEPT !.phase = "started", !.given = given]
      OBVIOUS
    <2>2. q.phase = "started" /\ q.code = Off.code /\ q.given = given /\ q.files = Off.files
      BY <2>1 DEF Off
    <2>3. GoodProc(q)
      BY <1>2, <2>2, OffLemma, LatestAssumption DEF GoodProc
    <2>4. proc' = [proc EXCEPT ![p] = q]
      BY <1>4, <2>1
    <2> QED BY <2>3, <2>4
  <1> QED BY <1>1, <1>3, <1>4 DEF Execute

\* The settings a process can be given exist.
LEMMA EnvLemma ==
    /\ "database-url" \in Settings /\ DOMAIN BaseEnv \subseteq Settings
    /\ \A s \in Settings : \A t :
          DOMAIN [x \in {s, "database-url"} |-> IF x = s THEN t ELSE "url"] \subseteq Settings
    /\ \A cmd : Reads(cmd) \subseteq Settings
  <1>1. "database-url" \in Settings
    BY DEF Settings, Strings
  <1>2. \A cmd : Reads(cmd) \subseteq Settings
    <2> TAKE cmd
    <2>1. CASE cmd = "serve"
      BY <2>1, StackAssumption DEF Reads, Verbs
    <2>2. CASE cmd # "serve" /\ cmd \in Verbs
      BY <1>1, <2>2 DEF Reads
    <2>3. CASE cmd # "serve" /\ cmd \notin Verbs
      BY <2>3 DEF Reads
    <2> QED BY <2>1, <2>2, <2>3
  <1> QED BY <1>1, <1>2 DEF BaseEnv

\* A step of a command, of the stack or of the operator replaces one process.
LEMMA StepReplaces ==
    ASSUME GivenInv, Stack \/ OperatorRuns \/ \E p \in Procs : Command(p)
    PROVE  \E p \in Procs : \E q : GoodProc(q) /\ proc' = [proc EXCEPT ![p] = q]
  <1>1. {"migrate", "seed", "api", Operator} \subseteq Procs
    BY ProcsLemma
  <1>2. ASSUME NEW p \in Procs, Command(p)
        PROVE  \E q : GoodProc(q) /\ proc' = [proc EXCEPT ![p] = q]
    <2>1. \/ \E err \in BOOLEAN : Exit(p, err)
          \/ \E phase \in {"migrating", "seeding", "building", "serving"} : To(p, phase)
      <3>1. CASE RunPrint(p) \/ ServeReturns(p)
        BY <3>1 DEF RunPrint, ServeReturns
      <3>2. CASE RunMigrate(p)
        BY <3>2 DEF RunMigrate
      <3>3. CASE MigrateReturns(p)
        <4>1. At(p, "failed") \in BOOLEAN /\ Exit(p, At(p, "failed"))
          BY <3>3 DEF MigrateReturns, At
        <4> QED BY <4>1
      <3>4. CASE RunServe(p)
        BY <3>4 DEF RunServe
      <3>5. CASE NewApp(p)
        BY <3>5 DEF NewApp
      <3> QED BY <1>2, <3>1, <3>2, <3>3, <3>4, <3>5 DEF Command
    <2> QED BY <2>1, ReplacedLemma
  <1>3. ASSUME NEW p, NEW cmd \in Commands, Execute(p, Plain(cmd))
        PROVE  \E q : GoodProc(q) /\ proc' = [proc EXCEPT ![p] = q]
    BY <1>3, EnvLemma, StartedLemma DEF Plain
  <1>4. CASE Stack
    <2>1. CASE StartMigrate
      <3>1. "up" \in Commands /\ Execute("migrate", Plain("up"))
        BY <2>1 DEF StartMigrate, Commands
      <3> QED BY <1>1, <1>3, <3>1
    <2>2. CASE StartSeed
      BY <1>1, <2>2, ReplacedLemma DEF StartSeed
    <2>3. ASSUME NEW c \in {0, 3}, SeedExits(c)
          PROVE  \E q : GoodProc(q) /\ proc' = [proc EXCEPT !["seed"] = q]
      <3>1. PICK q : q = [Off EXCEPT !.phase = "exited", !.code = c]
        OBVIOUS
      <3>2. q.phase = "exited" /\ q.code = c /\ q.given = Off.given /\ q.files = Off.files
        BY <3>1 DEF Off
      <3>3. GoodProc(q)
        BY <3>2, OffLemma, LatestAssumption DEF GoodProc
      <3>4. proc' = [proc EXCEPT !["seed"] = q]
        BY <2>3, <3>1 DEF SeedExits
      <3> QED BY <3>3, <3>4
    <2>4. CASE SeedFile
      <3>1. CASE SeedExits(3)
        BY <1>1, <2>3, <3>1
      <3>2. PICK file : file = proc["seed"].files + 1
        OBVIOUS
      <3>3. CASE proc' = [proc EXCEPT !["seed"] = [Off EXCEPT !.phase = "seeding", !.files = file]]
        <4>1. PICK q : q = [Off EXCEPT !.phase = "seeding", !.files = file]
          OBVIOUS
        <4>2. q.phase = "seeding" /\ q.code = Off.code /\ q.given = Off.given /\ q.files = file
          BY <4>1 DEF Off
        <4>3. proc["seed"].files \in 0..Latest /\ file <= Latest
          BY <1>1, <2>4, <3>2 DEF SeedFile, GivenInv, GoodProc
        <4>4. file \in 0..Latest
          BY <3>2, <4>3, LatestAssumption
        <4>5. GoodProc(q)
          BY <4>2, <4>4, OffLemma DEF GoodProc
        <4>6. proc' = [proc EXCEPT !["seed"] = q]
          BY <3>3, <4>1
        <4> QED BY <1>1, <4>5, <4>6
      <3> QED BY <2>4, <3>1, <3>2, <3>3 DEF SeedFile
    <2>5. CASE SeedEnds
      BY <1>1, <2>3, <2>5 DEF SeedEnds
    <2>6. CASE StartApi
      <3>1. "serve" \in Commands /\ Execute("api", Plain("serve"))
        BY <2>6 DEF StartApi, Commands
      <3> QED BY <1>1, <1>3, <3>1
    <2> QED BY <1>4, <2>1, <2>2, <2>4, <2>5, <2>6 DEF Stack
  <1>5. CASE OperatorRuns
    <2>1. PICK cmd \in Commands :
          \/ Execute(Operator, Plain(cmd))
          \/ \E s \in Reads(cmd) : \E text \in TextsOf(s) :
                \/ Execute(Operator, Given(cmd, [x \in {s} |-> text], BaseEnv))
                \/ Execute(Operator, Given(cmd, Nothing,
                       [x \in {s, "database-url"} |-> IF x = s THEN text ELSE "url"]))
      BY <1>5 DEF OperatorRuns
    <2>2. CASE Execute(Operator, Plain(cmd))
      BY <1>1, <1>3, <2>2
    <2>3. ASSUME NEW s \in Reads(cmd), NEW text,
                 Execute(Operator, Given(cmd, [x \in {s} |-> text], BaseEnv))
          PROVE  \E q : GoodProc(q) /\ proc' = [proc EXCEPT ![Operator] = q]
      BY <2>3, EnvLemma, StartedLemma
    <2>4. ASSUME NEW s \in Reads(cmd), NEW text,
                 Execute(Operator, Given(cmd, Nothing,
                       [x \in {s, "database-url"} |-> IF x = s THEN text ELSE "url"]))
          PROVE  \E q : GoodProc(q) /\ proc' = [proc EXCEPT ![Operator] = q]
      <3>1. s \in Settings
        BY EnvLemma
      <3>2. PICK env : env = [x \in {s, "database-url"} |-> IF x = s THEN text ELSE "url"]
        OBVIOUS
      <3>3. DOMAIN env \subseteq Settings
        BY <3>1, <3>2, EnvLemma
      <3> QED BY <2>4, <3>2, <3>3, StartedLemma
    <2> QED BY <1>1, <2>1, <2>2, <2>3, <2>4
  <1> QED BY <1>1, <1>2, <1>4, <1>5

LEMMA GivenNext == ASSUME StackInv, GivenInv, [Next]_vars PROVE GivenInv'
  <1>1. proc = [p \in Procs |-> proc[p]]
    BY DEF StackInv, ProcInv
  <1>2. commands' \in 0..MaxCommands
    <2>1. commands \in 0..MaxCommands /\ MaxCommands \in Nat
      BY StackAssumption DEF GivenInv
    <2>2. commands' = commands \/ (commands < MaxCommands /\ commands' = commands + 1)
      BY DEF Next, Stack, StartMigrate, StartSeed, SeedFile, SeedEnds, StartApi, OperatorRuns,
             StackUp, Command, RunPrint, RunMigrate, MigrateReturns, RunServe, NewApp, ServeReturns,
             Goose, vars
    <2> QED BY <2>1, <2>2
  <1>3. ASSUME NEW p \in Procs, NEW q, GoodProc(q), proc' = [proc EXCEPT ![p] = q]
        PROVE  \A x \in Procs : GoodProc(proc'[x])
    BY <1>1, <1>3 DEF GivenInv
  <1>4. CASE Stack \/ OperatorRuns \/ \E p \in Procs : Command(p)
    <2>1. PICK p \in Procs : \E q : GoodProc(q) /\ proc' = [proc EXCEPT ![p] = q]
      BY <1>4, StepReplaces
    <2>2. PICK q : GoodProc(q) /\ proc' = [proc EXCEPT ![p] = q]
      BY <2>1
    <2> QED BY <1>2, <1>3, <2>2 DEF GivenInv
  <1>5. CASE StackUp
    <2>1. proc' = [proc EXCEPT !["migrate"] = Off, !["seed"] = Off]
      BY <1>5 DEF StackUp
    <2>2. \A x \in Procs : proc'[x] = Off \/ proc'[x] = proc[x]
      BY <1>1, <2>1
    <2> QED BY <1>2, <2>2, OffLemma DEF GivenInv
  <1>6. CASE (\E p \in Runs : Goose(p)) \/ UNCHANGED vars
    BY <1>2, <1>6 DEF Goose, vars, GivenInv
  <1> QED BY <1>4, <1>5, <1>6 DEF Next

LEMMA GivenInit == ASSUME Init PROVE GivenInv
  BY OffLemma, StackAssumption DEF Init, GivenInv

\* The texts a flag accepts are cast to the value the flag would have: the exceptions
\* are the empty text and lists of several origins.
LEMMA CastIsParse ==
    ASSUME NEW s \in Settings, NEW text, ~Refused(s, text), text # "empty",
           ~(s \in Lists /\ text \in {"commas", "blanks"})
    PROVE  CastOf(s, text) = Parse[KindOf(s)][text]
  <1>1. CASE s \in Strings
    <2>1. KindOf(s) = "string"
      BY <1>1 DEF KindOf, Strings, Durations, Bools, Ints, Floats, Lists
    <2> QED BY <2>1 DEF CastOf, Refused, Parse, Cast
  <1>2. CASE s \in Durations
    <2>1. KindOf(s) = "duration"
      BY <1>2 DEF KindOf, Strings, Durations, Bools, Ints, Floats, Lists
    <2> QED BY <2>1 DEF CastOf, Refused, Parse, Cast, Time
  <1>3. CASE s \in Bools
    <2>1. KindOf(s) = "bool"
      BY <1>3 DEF KindOf, Strings, Durations, Bools, Ints, Floats, Lists
    <2> QED BY <2>1 DEF CastOf, Refused, Parse, Cast
  <1>4. CASE s \in Ints
    <2>1. KindOf(s) = "int"
      BY <1>4 DEF KindOf, Strings, Durations, Bools, Ints, Floats, Lists
    <2> QED BY <2>1 DEF CastOf, Refused, Parse, Cast
  <1>5. CASE s \in Floats
    <2>1. KindOf(s) = "float"
      BY <1>5 DEF KindOf, Strings, Durations, Bools, Ints, Floats, Lists
    <2> QED BY <2>1 DEF CastOf, Refused, Parse, Cast
  <1>6. CASE s \in Lists
    <2>1. KindOf(s) = "list"
      BY <1>6 DEF KindOf, Strings, Durations, Bools, Ints, Floats, Lists
    <2>2. text = "single"
      BY <1>6, <2>1 DEF Refused, Parse
    <2>3. Cast["list"]["single"] = {"a"} /\ "single" \in DOMAIN Cast["list"]
      BY DEF Cast
    <2>4. Parse["list"]["single"] = {"a"}
      BY DEF Parse
    <2> QED BY <2>1, <2>2, <2>3, <2>4 DEF CastOf
  <1> QED BY <1>1, <1>2, <1>3, <1>4, <1>5, <1>6 DEF Settings

\* What the processes are and were given, in every reachable state.
THEOREM GivenInvariance == Spec => []GivenInv
  <1>1. Init => GivenInv
    BY GivenInit
  <1>2. StackInv /\ GivenInv /\ [Next]_vars => GivenInv'
    BY GivenNext
  <1> QED BY <1>1, <1>2, StackInvariance, PTL DEF Spec

\* Every variable of the stack keeps its type.
THEOREM StackTypeCorrect == Spec => []TypeOK
  <1>1. StackInv /\ GivenInv => TypeOK
    <2> SUFFICES ASSUME StackInv, GivenInv PROVE TypeOK
      OBVIOUS
    <2>1. MigrationTypeOK /\ seeded \subseteq Versions
      BY DEF StackInv, MigrationInv, SeedInv, MigrationTypeOK
    <2> QED BY <2>1 DEF TypeOK, GivenInv, GoodProc
  <1> QED BY <1>1, StackInvariance, GivenInvariance, PTL

\* Load reads a variable as the flag of the same name would have been read, for every
\* setting of the program and every text the flag accepts, with the two exceptions.
THEOREM EnvAlwaysMeansFlag == Spec => []EnvMeansFlag
  <1>1. GivenInv => EnvMeansFlag
    <2> SUFFICES ASSUME GivenInv, NEW p \in Procs, Phase(p, "started"),
                        NEW s \in DOMAIN proc[p].given.env \ DOMAIN proc[p].given.flags,
                        proc[p].given.env[s] # "empty", ~Refused(s, proc[p].given.env[s]),
                        ~(s \in Lists /\ proc[p].given.env[s] \in {"commas", "blanks"})
                 PROVE  LoadedBy(p)[s] = Load([x \in {s} |-> proc[p].given.env[s]], Nothing)[s]
      BY DEF EnvMeansFlag
    <2>1. PICK text : text = proc[p].given.env[s]
      OBVIOUS
    <2>2. s \in Settings
      BY DEF GivenInv, GoodProc, Phase
    <2>3. LoadedBy(p)[s] = CastOf(s, text)
      BY <2>1, <2>2 DEF LoadedBy, Load, InEnv
    <2>4. Load([x \in {s} |-> text], Nothing)[s] = Parse[KindOf(s)][text]
      BY <2>2 DEF Load
    <2>5. CastOf(s, text) = Parse[KindOf(s)][text]
      BY <2>1, <2>2, CastIsParse
    <2> QED BY <2>1, <2>3, <2>4, <2>5
  <1> QED BY <1>1, GivenInvariance, PTL
=============================================================================
