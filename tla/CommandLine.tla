---------------------------- MODULE CommandLine ----------------------------
(***************************************************************************)
(* The commands of the binary, the processes that run them and the stack   *)
(* of compose.yaml that starts them in order:                              *)
(*     migrate (schema) -> seed (hack/sql) -> api (serve)                  *)
(* next to an operator who may run any command against the same database.  *)
(* Serving itself (AppLifecycle, HttpPipeline) is one phase here.          *)
(***************************************************************************)
EXTENDS Configuration, Migrations

CONSTANTS
    Operator,      \* the operator's shell
    Varied,        \* the settings the operator gives to serve, one at a time
    MaxCommands    \* bound on what the operator starts: commands, and the stack again

ASSUME StackAssumption ==
    Runs = {"migrate", Operator} /\ Operator \notin {"migrate", "seed", "api"}
    /\ Varied \subseteq Settings /\ MaxCommands \in Nat

VARIABLES
    proc,      \* per process: its phase, what it was started with, its exit code
    seeded,    \* the tables whose seed file has been applied
    commands   \* how many commands the operator has given

vars == <<proc, seeded, commands, migrationVars>>

Procs == Runs \cup {"seed", "api"}
Commands == {"serve", "version", "openapi", "up", "down", "status"}

\* What a process is started with; every one gets the database's URL from its environment.
Given(cmd, flags, env) == [cmd |-> cmd, flags |-> flags, env |-> env]
Nothing == [s \in {} |-> "empty"]
BaseEnv == [s \in {"database-url"} |-> "url"]
Plain(cmd) == Given(cmd, Nothing, BaseEnv)

Off == [phase |-> "off", given |-> Plain("serve"), code |-> 0, files |-> 0]
Phase(p, phase) == proc[p].phase = phase
Succeeded(p) == Phase(p, "exited") /\ proc[p].code = 0

To(p, phase) == proc' = [proc EXCEPT ![p] = [Off EXCEPT !.phase = phase]]

-----------------------------------------------------------------------------
(* main and the command tree.                                              *)

\* MUTANT: the error is printed and the exit code is zero.
Exit_Zero(p, err) ==
    proc' = [proc EXCEPT ![p] = [Off EXCEPT !.phase = "exited", !.code = 0]]

\* run: an error from any command is printed and makes the exit code 1.
Exit(p, err) ==
    proc' = [proc EXCEPT ![p] = [Off EXCEPT !.phase = "exited", !.code = IF err THEN 1 ELSE 0]]

\* Cobra parses the flags before anything else; one it cannot parse ends the command.
Execute(p, given) ==
    IF \E s \in DOMAIN given.flags : Refused(s, given.flags[s]) THEN Exit(p, TRUE)
    ELSE proc' = [proc EXCEPT ![p] = [Off EXCEPT !.phase = "started", !.given = given]]

\* version and openapi read no configuration; writing their output may fail.
RunPrint(p) ==
    /\ Phase(p, "started") /\ proc[p].given.cmd \in {"version", "openapi"}
    /\ \E err \in BOOLEAN : Exit(p, err)
    /\ UNCHANGED <<seeded, commands, migrationVars>>

LoadedBy(p) == Load(proc[p].given.flags, proc[p].given.env)

RunMigrate(p) ==
    /\ Phase(p, "started") /\ proc[p].given.cmd \in Verbs
    /\ IF TrimmedEmpty(LoadedBy(p)["database-url"])
       THEN Exit(p, TRUE) /\ UNCHANGED migrationVars
       ELSE To(p, "migrating") /\ Migrate(p, proc[p].given.cmd)
    /\ UNCHANGED <<seeded, commands>>

MigrateReturns(p) ==
    /\ Phase(p, "migrating") /\ ~Running(p)
    /\ Exit(p, At(p, "failed"))
    /\ UNCHANGED <<seeded, commands, migrationVars>>

RunServe(p) ==
    /\ Phase(p, "started") /\ proc[p].given.cmd = "serve"
    /\ IF Validate(LoadedBy(p)) THEN To(p, "building") ELSE Exit(p, TRUE)
    /\ UNCHANGED <<seeded, commands, migrationVars>>

\* app.New: the database answers a ping, which says nothing of the schema, or it fails.
NewApp(p) ==
    /\ Phase(p, "building")
    /\ To(p, "serving") \/ Exit(p, TRUE)
    /\ UNCHANGED <<seeded, commands, migrationVars>>

\* Run returns: shut down by a signal, or with an error.
ServeReturns(p) ==
    /\ Phase(p, "serving")
    /\ \E err \in BOOLEAN : Exit(p, err)
    /\ UNCHANGED <<seeded, commands, migrationVars>>

\* A step of goose inside a process, or what kills it there; a table that is dropped
\* takes its rows along.
Goose(p) ==
    /\ Phase(p, "migrating")
    /\ GooseStep(p) \/ Fail(p)
    /\ seeded' = seeded \cap tables'
    /\ UNCHANGED <<proc, commands>>

Command(p) ==
    \/ RunPrint(p) \/ RunMigrate(p) \/ MigrateReturns(p)
    \/ RunServe(p) \/ NewApp(p) \/ ServeReturns(p)
-----------------------------------------------------------------------------
(* The stack.  depends_on waits for the exit code 0 of the step before.    *)

StartMigrate ==
    /\ Phase("migrate", "off")
    /\ Execute("migrate", Plain("up"))
    /\ UNCHANGED <<seeded, commands, migrationVars>>

StartSeed ==
    /\ Succeeded("migrate") /\ Phase("seed", "off")
    /\ To("seed", "seeding")
    /\ UNCHANGED <<seeded, commands, migrationVars>>

SeedExits(code) == proc' = [proc EXCEPT !["seed"] = [Off EXCEPT !.phase = "exited", !.code = code]]

\* File by file, in order, each into its own table; the first that fails ends the script.
SeedFile ==
    LET file == proc["seed"].files + 1 IN
    /\ Phase("seed", "seeding") /\ file <= Latest
    /\ \/ /\ file \in tables
          /\ seeded' = seeded \cup {file}
          /\ proc' = [proc EXCEPT !["seed"] = [Off EXCEPT !.phase = "seeding", !.files = file]]
       \/ SeedExits(3) /\ UNCHANGED seeded
    /\ UNCHANGED <<commands, migrationVars>>

SeedEnds ==
    /\ Phase("seed", "seeding") /\ proc["seed"].files = Latest
    /\ SeedExits(0)
    /\ UNCHANGED <<seeded, commands, migrationVars>>

\* restart: unless-stopped.  Only the first start waits for the seed.
StartApi ==
    /\ (Succeeded("seed") /\ Phase("api", "off")) \/ Phase("api", "exited")
    /\ Execute("api", Plain("serve"))
    /\ UNCHANGED <<seeded, commands, migrationVars>>

Stack == StartMigrate \/ StartSeed \/ SeedFile \/ SeedEnds \/ StartApi

-----------------------------------------------------------------------------
(* The operator.                                                           *)

\* The settings a command reads, one of which may be given as a flag or a variable.
Reads(cmd) == CASE cmd = "serve" -> Varied [] cmd \in Verbs -> {"database-url"} [] OTHER -> {}

OperatorRuns ==
    /\ Phase(Operator, "off") \/ Phase(Operator, "exited")
    /\ commands < MaxCommands
    /\ \E cmd \in Commands :
          \/ Execute(Operator, Plain(cmd))
          \/ \E s \in Reads(cmd) : \E text \in TextsOf(s) :
                LET one == [x \in {s} |-> text] IN
                \/ Execute(Operator, Given(cmd, one, BaseEnv))
                \/ Execute(Operator, Given(cmd, Nothing,
                       [x \in {s, "database-url"} |-> IF x = s THEN text ELSE "url"]))
    /\ commands' = commands + 1
    /\ UNCHANGED <<seeded, migrationVars>>

\* A stack that stopped because a step failed is started again from its first step.
StackUp ==
    /\ commands < MaxCommands
    /\ Phase("api", "off")
    /\ \E p \in {"migrate", "seed"} : Phase(p, "exited") /\ ~Succeeded(p)
    /\ proc' = [proc EXCEPT !["migrate"] = Off, !["seed"] = Off]
    /\ commands' = commands + 1
    /\ UNCHANGED <<seeded, migrationVars>>

-----------------------------------------------------------------------------
Init ==
    /\ MigrationInit
    /\ proc = [p \in Procs |-> Off]
    /\ seeded = {}
    /\ commands = 0

Next ==
    \/ Stack \/ OperatorRuns \/ StackUp
    \/ \E p \in Procs : Command(p)
    \/ \E p \in Runs : Goose(p)

Spec == Init /\ [][Next]_vars

-----------------------------------------------------------------------------
(* Properties.                                                             *)

\* Every variable keeps its type.
TypeOK ==
    /\ MigrationTypeOK
    /\ \A p \in Procs :
          /\ proc[p].phase \in {"off", "started", "migrating", "seeding", "building", "serving", "exited"}
          /\ proc[p].given.cmd \in Commands
          /\ proc[p].code \in {0, 1, 3} /\ proc[p].files \in 0..Latest
    /\ seeded \subseteq Versions
    /\ commands \in 0..MaxCommands

\* "migrate (schema) -> seed (hack/sql) -> api (serve)" (compose.yaml): as long as
\* nobody has rolled a migration back, a migrate that exited with 0 has left every
\* table behind, and the api serves only with all the seed data in them, however often
\* a step of the stack died and was started again and whatever the operator migrated
\* meanwhile.  serve itself never looks.
StackInOrder ==
    ~rolledBack =>
        /\ Succeeded("migrate") => tables = Versions
        /\ Succeeded("seed") \/ Phase("api", "serving") => seeded = Versions

\* A variable means what the flag of the same name means, whenever the flag accepts
\* its text (initializeConfig, Load).  Two kinds of text are exceptions: an empty one
\* counts as unset, and a list is split at blanks and not at commas.
EnvMeansFlag ==
    \A p \in Procs : Phase(p, "started") =>
        LET given == proc[p].given IN
        \A s \in DOMAIN given.env \ DOMAIN given.flags :
            LET text == given.env[s] IN
            \/ text = "empty" \/ Refused(s, text)
            \/ s \in Lists /\ text \in {"commas", "blanks"}
            \/ LoadedBy(p)[s] = Load([x \in {s} |-> text], Nothing)[s]
=============================================================================
