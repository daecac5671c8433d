-------------------------- MODULE MigrationsProofs --------------------------
(***************************************************************************)
(* Proofs about Migrations, for any number of concurrent runs and of       *)
(* embedded migrations.                                                    *)
(***************************************************************************)
EXTENDS Migrations, WellFoundedInduction, TLAPS

RunRecords == [verb : Verbs, target : 0..Latest + 1,
               pc : {"idle", "ensure", "create", "check", "current", "tx", "done", "failed"}]

\* Row ids were handed out, and a run that got past the ledger has seen it.
LedgerInv ==
    /\ \A v \in 0..Latest : ledger[v] <= serial
    /\ \A r \in Runs : run[r].pc \in {"check", "current", "tx"} => ledger[0] # 0

\* The version a transaction is about exists.
TargetInv == \A r \in Runs : run[r].pc = "tx" => run[r].target \in Versions

\* Until the first rollback the versions were recorded one after the other, and a
\* run knows that its target's predecessor was.
PrefixInv ==
    ~rolledBack =>
        /\ \A v, w \in 0..Latest : v < w /\ ledger[w] # 0 => ledger[v] # 0 /\ ledger[v] < ledger[w]
        /\ \A r \in Runs : run[r].pc = "tx" /\ run[r].verb = "up" => ledger[run[r].target - 1] # 0
        /\ \A r \in Runs : run[r].pc = "done" /\ run[r].verb = "up" => ledger[Latest] # 0

MigrationInv == MigrationTypeOK /\ SchemaTold /\ LedgerInv /\ TargetInv /\ PrefixInv

-----------------------------------------------------------------------------
\* Once there is a ledger it has a newest row, and Current is its version.
LEMMA CurrentLemma ==
    ASSUME MigrationInv, ledger[0] # 0
    PROVE  /\ Current \in 0..Latest /\ ledger[Current] # 0
           /\ \A w \in 0..Latest : ledger[w] # 0 => ledger[w] <= ledger[Current]
  <1> DEFINE Ages == {serial - ledger[v] : v \in Recorded}
  <1>1. /\ ledger \in [0..Latest -> Nat] /\ serial \in Nat
        /\ \A v \in 0..Latest : ledger[v] \in Nat /\ ledger[v] <= serial
    BY DEF MigrationInv, MigrationTypeOK, LedgerInv
  <1>2. 0 \in Recorded
    BY LatestAssumption DEF Recorded
  <1>3. Ages \subseteq Nat /\ Ages # {}
    <2>1. ASSUME NEW v \in Recorded PROVE serial - ledger[v] \in Nat
      BY <1>1 DEF Recorded
    <2>2. serial - ledger[0] \in Ages
      BY <1>2
    <2> QED BY <2>1, <2>2
  <1>4. PICK a \in Ages : \A b \in Ages : ~(<<b, a>> \in OpToRel(<, Nat))
    BY <1>3, WFMin, NatLessThanWellFounded
  <1>5. PICK v \in Recorded : a = serial - ledger[v]
    OBVIOUS
  <1>6. \A w \in Recorded : ledger[w] <= ledger[v]
    <2> SUFFICES ASSUME NEW w \in Recorded, ledger[w] > ledger[v] PROVE FALSE
      BY <1>1 DEF Recorded
    <2>1. serial - ledger[w] \in Ages /\ serial - ledger[w] < a
      BY <1>1, <1>5 DEF Recorded
    <2>2. <<serial - ledger[w], a>> \in OpToRel(<, Nat)
      BY <1>3, <2>1 DEF OpToRel
    <2> QED BY <1>4, <2>1, <2>2
  <1>7. Current \in Recorded /\ \A w \in Recorded : ledger[w] <= ledger[Current]
    BY <1>6 DEF Current
  <1> QED BY <1>7 DEF Recorded

\* A step that changes only where a run is keeps the invariant, if the run's new place
\* is a proper one.
LEMMA GoStep ==
    ASSUME MigrationInv, UNCHANGED <<ledger, serial, tables, rolledBack>>,
           NEW r \in Runs, NEW q \in RunRecords, run' = [run EXCEPT ![r] = q],
           q.pc \in {"check", "current", "tx"} => ledger[0] # 0,
           q.pc = "tx" => q.target \in Versions,
           q.pc = "tx" /\ q.verb = "up" /\ ~rolledBack => ledger[q.target - 1] # 0,
           q.pc = "done" /\ q.verb = "up" /\ ~rolledBack => ledger[Latest] # 0
    PROVE  MigrationInv'
  <1>1. run \in [Runs -> RunRecords]
    BY DEF MigrationInv, MigrationTypeOK, RunRecords
  <1>2. /\ run' \in [Runs -> RunRecords] /\ run'[r] = q
        /\ \A p \in Runs : p # r => run'[p] = run[p]
    BY <1>1
  <1>3. MigrationTypeOK'
    BY <1>2 DEF MigrationInv, MigrationTypeOK, RunRecords
  <1>4. SchemaTold'
    BY DEF MigrationInv, SchemaTold, Recorded
  <1>5. LedgerInv'
    BY <1>2 DEF MigrationInv, LedgerInv
  <1>6. TargetInv'
    BY <1>2 DEF MigrationInv, TargetInv
  <1>7. PrefixInv'
    BY <1>2 DEF MigrationInv, PrefixInv
  <1> QED BY <1>3, <1>4, <1>5, <1>6, <1>7 DEF MigrationInv

\* Where a run stands, and what its record becomes when it goes elsewhere.
LEMMA RunLemma ==
    ASSUME MigrationInv, NEW r \in Runs
    PROVE  /\ run \in [Runs -> RunRecords] /\ run[r] \in RunRecords
           /\ \A pc \in {"check", "current", "done", "failed", "create"} :
                 /\ [run[r] EXCEPT !.pc = pc] \in RunRecords
                 /\ [run[r] EXCEPT !.pc = pc].pc = pc
                 /\ [run[r] EXCEPT !.pc = pc].verb = run[r].verb
                 /\ Go(r, pc) => run' = [run EXCEPT ![r] = [run[r] EXCEPT !.pc = pc]]
  <1>1. run \in [Runs -> RunRecords] /\ run[r] \in RunRecords
    BY DEF MigrationInv, MigrationTypeOK, RunRecords
  <1>2. ASSUME NEW pc \in {"check", "current", "done", "failed", "create"}
        PROVE  /\ [run[r] EXCEPT !.pc = pc] \in RunRecords
               /\ [run[r] EXCEPT !.pc = pc].pc = pc
               /\ [run[r] EXCEPT !.pc = pc].verb = run[r].verb
    BY <1>1 DEF RunRecords
  <1>3. ASSUME NEW pc \in {"check", "current", "done", "failed", "create"}, Go(r, pc)
        PROVE  run' = [run EXCEPT ![r] = [run[r] EXCEPT !.pc = pc]]
    BY <1>3, <1>1 DEF Go
  <1> QED BY <1>1, <1>2, <1>3

-----------------------------------------------------------------------------
(* One lemma per group of steps.                                           *)

\* Starting a command, reading the ledger and dying change no table.
LEMMA ReadSteps ==
    ASSUME MigrationInv, NEW r \in Runs,
           (\E verb \in Verbs : Migrate(r, verb)) \/ Ensure(r) \/ CheckMissing(r) \/ NextVersion(r) \/ Fail(r)
    PROVE  MigrationInv'
  <1>1. /\ run \in [Runs -> RunRecords] /\ run[r] \in RunRecords
        /\ run[r].pc \in {"check", "current", "tx"} => ledger[0] # 0
    BY RunLemma DEF MigrationInv, LedgerInv
  <1>2. ASSUME NEW verb \in Verbs, Migrate(r, verb) PROVE MigrationInv'
    <2>1. [verb |-> verb, pc |-> "ensure", target |-> 0] \in RunRecords
      BY LatestAssumption DEF RunRecords
    <2> QED BY <1>2, <2>1, GoStep DEF Migrate
  <1>3. CASE Ensure(r)
    <2>1. UNCHANGED <<ledger, serial, tables, rolledBack>> /\ run[r].verb \in Verbs
      BY <1>1, <1>3 DEF Ensure, RunRecords
    <2>2. CASE ledger[0] = 0
      <3>1. run' = [run EXCEPT ![r] = [run[r] EXCEPT !.pc = "create"]]
        BY <1>1, <1>3, <2>2 DEF Ensure, HasLedger
      <3> QED BY <2>1, <3>1, RunLemma, GoStep
    <2>3. CASE ledger[0] # 0 /\ run[r].verb = "up"
      <3>1. run' = [run EXCEPT ![r] = [run[r] EXCEPT !.pc = "check"]]
        BY <1>1, <1>3, <2>3 DEF Ensure, HasLedger
      <3> QED BY <2>1, <2>3, <3>1, RunLemma, GoStep
    <2>4. CASE ledger[0] # 0 /\ run[r].verb = "status"
      <3>1. run' = [run EXCEPT ![r] = [run[r] EXCEPT !.pc = "done"]]
        BY <1>1, <1>3, <2>4 DEF Ensure, HasLedger
      <3> QED BY <2>1, <2>4, <3>1, RunLemma, GoStep
    <2>5. CASE ledger[0] # 0 /\ run[r].verb = "down"
      <3>1. PICK q : q = [run[r] EXCEPT !.pc = IF Current = 0 THEN "failed" ELSE "tx", !.target = Current]
        OBVIOUS
      <3>2. run' = [run EXCEPT ![r] = q]
        BY <1>1, <1>3, <2>5, <3>1 DEF Ensure, HasLedger
      <3>3. Current \in 0..Latest
        BY <2>5, CurrentLemma
      <3>4. /\ q \in RunRecords /\ q.verb = "down" /\ q.target = Current
            /\ q.pc = (IF Current = 0 THEN "failed" ELSE "tx")
        <4>1. PICK pc \in {"tx", "done", "failed"} : pc = IF Current = 0 THEN "failed" ELSE "tx"
          OBVIOUS
        <4>2. PICK t \in 0..Latest + 1 : t = Current
          BY <3>3, LatestAssumption
        <4>3. q = [run[r] EXCEPT !.pc = pc, !.target = t]
          BY <3>1, <4>1, <4>2
        <4>4. q \in RunRecords /\ q.pc = pc /\ q.target = t /\ q.verb = run[r].verb
          BY <1>1, <4>3 DEF RunRecords
        <4> QED BY <2>5, <4>1, <4>2, <4>4
      <3>5. q.pc = "tx" => q.target \in Versions
        BY <3>3, <3>4, LatestAssumption DEF Versions
      <3> QED BY <2>1, <2>5, <3>2, <3>4, <3>5, GoStep
    <2> QED BY <2>1, <2>2, <2>3, <2>4, <2>5 DEF Verbs
  <1>4. CASE CheckMissing(r)
    <2>1. CASE Missing = {}
      BY <1>1, <1>4, <2>1, RunLemma, GoStep DEF CheckMissing, At
    <2>2. CASE Missing # {}
      BY <1>4, <2>2, RunLemma, GoStep DEF CheckMissing
    <2> QED BY <2>1, <2>2
  <1>5. CASE NextVersion(r)
    <2>1. /\ ledger[0] # 0 /\ UNCHANGED <<ledger, serial, tables, rolledBack>>
          /\ Current \in 0..Latest /\ ledger[Current] # 0
          /\ \A w \in 0..Latest : ledger[w] # 0 => ledger[w] <= ledger[Current]
      BY <1>1, <1>5, CurrentLemma DEF NextVersion, At
    <2>2. PICK q : q = [run[r] EXCEPT !.pc = IF Current < Latest THEN "tx" ELSE "done",
                                      !.target = Current + 1]
      OBVIOUS
    <2>3. run' = [run EXCEPT ![r] = q]
      BY <1>1, <1>5, <2>2 DEF NextVersion
    <2>4. /\ q \in RunRecords /\ q.target = Current + 1
          /\ q.pc = (IF Current < Latest THEN "tx" ELSE "done")
      <3>1. PICK pc \in {"tx", "done", "failed"} : pc = IF Current < Latest THEN "tx" ELSE "done"
        OBVIOUS
      <3>2. PICK t \in 0..Latest + 1 : t = Current + 1
        BY <2>1, LatestAssumption
      <3>3. q = [run[r] EXCEPT !.pc = pc, !.target = t]
        BY <2>2, <3>1, <3>2
      <3>4. q \in RunRecords /\ q.pc = pc /\ q.target = t
        BY <1>1, <3>3 DEF RunRecords
      <3> QED BY <3>1, <3>2, <3>4
    <2>5. /\ q.pc = "tx" => q.target \in Versions /\ ledger[q.target - 1] # 0
          /\ q.pc = "done" => ledger[Latest] # 0
      BY <2>1, <2>4, LatestAssumption DEF Versions
    <2> QED BY <2>1, <2>3, <2>4, <2>5, GoStep
  <1>6. CASE Fail(r)
    BY <1>6, RunLemma, GoStep DEF Fail
  <1> QED BY <1>2, <1>3, <1>4, <1>5, <1>6

\* Creating the ledger records version 0, before every other one.
LEMMA CreateStep ==
    ASSUME MigrationInv, NEW r \in Runs, CreateLedger(r)
    PROVE  MigrationInv'
  <1>1. CASE ledger[0] # 0
    <2>1. Go(r, "failed") /\ UNCHANGED <<ledger, serial, tables, rolledBack>>
      BY <1>1 DEF CreateLedger, HasLedger
    <2> QED BY <2>1, RunLemma, GoStep
  <1>2. CASE ledger[0] = 0
    <2>1. /\ ledger' = [ledger EXCEPT ![0] = serial + 1] /\ serial' = serial + 1
          /\ UNCHANGED <<tables, rolledBack>> /\ Go(r, AfterCreate[run[r].verb])
      BY <1>2 DEF CreateLedger, HasLedger
    <2>2. /\ run \in [Runs -> RunRecords] /\ run[r].verb \in Verbs
          /\ ledger \in [0..Latest -> Nat] /\ serial \in Nat
      BY DEF MigrationInv, MigrationTypeOK, RunRecords
    <2>3. PICK pc : pc = AfterCreate[run[r].verb]
      OBVIOUS
    <2>4. pc \in {"check", "failed", "done"} /\ (pc = "done" => run[r].verb = "status")
      BY <2>2, <2>3 DEF AfterCreate, Verbs
    <2>5. PICK q : q = [run[r] EXCEPT !.pc = pc]
      OBVIOUS
    <2>6. run' = [run EXCEPT ![r] = q] /\ q \in RunRecords /\ q.pc = pc /\ q.verb = run[r].verb
      <3>1. pc \in {"check", "current", "done", "failed", "create"} /\ Go(r, pc)
        BY <2>1, <2>3, <2>4
      <3> QED BY <2>5, <3>1, RunLemma
    <2>7. /\ run' \in [Runs -> RunRecords] /\ run'[r] = q
          /\ \A p \in Runs : p # r => run'[p] = run[p]
      BY <2>2, <2>6
    <2>8. /\ ledger' \in [0..Latest -> Nat] /\ ledger'[0] = serial + 1 /\ serial' \in Nat
          /\ \A v \in 0..Latest : v # 0 => ledger'[v] = ledger[v]
      BY <2>1, <2>2, LatestAssumption
    <2>9. MigrationTypeOK'
      BY <2>1, <2>7, <2>8 DEF MigrationInv, MigrationTypeOK, RunRecords
    <2>10. SchemaTold'
      BY <2>1, <2>8 DEF MigrationInv, SchemaTold, Recorded, Versions
    <2>11. LedgerInv'
      BY <2>1, <2>2, <2>8, LatestAssumption DEF MigrationInv, LedgerInv
    <2>12. TargetInv'
      BY <2>4, <2>6, <2>7 DEF MigrationInv, TargetInv
    <2>13. PrefixInv'
      <3>1. ~rolledBack => \A w \in 0..Latest : ledger[w] = 0
        BY <1>2, LatestAssumption DEF MigrationInv, PrefixInv
      <3> SUFFICES ASSUME ~rolledBack
                   PROVE  /\ \A v, w \in 0..Latest : v < w /\ ledger'[w] # 0
                                 => ledger'[v] # 0 /\ ledger'[v] < ledger'[w]
                          /\ \A p \in Runs : /\ run'[p].pc = "tx" /\ run'[p].verb = "up"
                                                  => ledger'[run'[p].target - 1] # 0
                                             /\ run'[p].pc = "done" /\ run'[p].verb = "up"
                                                  => ledger'[Latest] # 0
        BY <2>1 DEF PrefixInv
      <3>2. \A v, w \in 0..Latest : v < w => ledger'[w] = 0
        BY <2>8, <3>1
      <3>3. ASSUME NEW p \in Runs
            PROVE  /\ ~(run'[p].pc = "tx")
                   /\ run'[p].pc = "done" => run'[p].verb # "up" \/ ledger'[Latest] # 0
        <4>1. CASE p = r
          BY <2>4, <2>6, <2>7, <4>1
        <4>2. CASE p # r
          <5>1. run[p].pc # "tx"
            BY <1>2 DEF MigrationInv, LedgerInv
          <5>2. run[p].pc = "done" /\ run[p].verb = "up" => FALSE
            BY <3>1, LatestAssumption DEF MigrationInv, PrefixInv
          <5> QED BY <2>7, <4>2, <5>1, <5>2
        <4> QED BY <4>1, <4>2
      <3> QED BY <3>2, <3>3
    <2> QED BY <2>9, <2>10, <2>11, <2>12, <2>13 DEF MigrationInv
  <1> QED BY <1>1, <1>2

\* An applied migration: its version is recorded in the transaction that creates its
\* table, right behind its predecessor if nothing was rolled back.
LEMMA UpStep ==
    ASSUME MigrationInv, NEW r \in Runs, UpTx(r)
    PROVE  MigrationInv'
  <1> DEFINE t == run[r].target
  <1>1. /\ run \in [Runs -> RunRecords] /\ run[r] \in RunRecords
        /\ ledger \in [0..Latest -> Nat] /\ serial \in Nat /\ tables \subseteq Versions
        /\ t \in Versions /\ ledger[0] # 0 /\ run[r].verb = "up" /\ run[r].pc = "tx"
    BY DEF MigrationInv, MigrationTypeOK, RunRecords, TargetInv, LedgerInv, UpTx, At
  <1>2. CASE t \in tables
    <2>1. Go(r, "failed") /\ UNCHANGED <<ledger, serial, tables, rolledBack>>
      BY <1>2 DEF UpTx
    <2> QED BY <2>1, RunLemma, GoStep
  <1>3. CASE t \notin tables
    <2>1. /\ tables' = tables \cup {t} /\ ledger' = [ledger EXCEPT ![t] = serial + 1]
          /\ serial' = serial + 1 /\ UNCHANGED rolledBack
      BY <1>3 DEF UpTx
    <2>2. PICK pc \in {"current", "failed"} : Go(r, pc)
      BY <1>3 DEF UpTx
    <2>3. PICK q : q = [run[r] EXCEPT !.pc = pc]
      OBVIOUS
    <2>4. run' = [run EXCEPT ![r] = q] /\ q \in RunRecords /\ q.pc = pc
      <3>1. pc \in {"check", "current", "done", "failed", "create"}
        BY <2>2
      <3> QED BY <2>2, <2>3, <3>1, RunLemma
    <2>5. /\ run' \in [Runs -> RunRecords] /\ run'[r] = q
          /\ \A p \in Runs : p # r => run'[p] = run[p]
      BY <1>1, <2>4
    <2>6. t \in 0..Latest /\ t > 0 /\ ledger[t] = 0 /\ (~rolledBack => ledger[t - 1] # 0)
      <3>1. t \in 0..Latest /\ t > 0 /\ ledger[t] = 0
        BY <1>1, <1>3, LatestAssumption DEF Versions, MigrationInv, SchemaTold, Recorded
      <3>2. ~rolledBack => ledger[t - 1] # 0
        BY <1>1 DEF MigrationInv, PrefixInv
      <3> QED BY <3>1, <3>2
    <2>7. /\ ledger' \in [0..Latest -> Nat] /\ ledger'[t] = serial + 1 /\ serial' \in Nat
          /\ \A v \in 0..Latest : v # t => ledger'[v] = ledger[v]
      BY <1>1, <2>1, <2>6
    <2> HIDE DEF t
    <2>8. MigrationTypeOK'
      BY <1>1, <2>1, <2>5, <2>7 DEF MigrationInv, MigrationTypeOK, RunRecords
    <2>9. SchemaTold'
      BY <1>1, <2>1, <2>7 DEF MigrationInv, SchemaTold, Recorded, Versions
    <2>10. LedgerInv'
      <3>1. \A v \in 0..Latest : ledger'[v] <= serial'
        BY <1>1, <2>1, <2>7 DEF MigrationInv, LedgerInv
      <3>2. ledger'[0] # 0
        BY <1>1, <2>6, <2>7, LatestAssumption
      <3> QED BY <3>1, <3>2 DEF LedgerInv
    <2>11. TargetInv'
      BY <2>4, <2>5 DEF MigrationInv, TargetInv
    <2>12. PrefixInv'
      <3> SUFFICES ASSUME ~rolledBack
                   PROVE  /\ \A v, w \in 0..Latest : v < w /\ ledger'[w] # 0
                                 => ledger'[v] # 0 /\ ledger'[v] < ledger'[w]
                          /\ \A p \in Runs : /\ run'[p].pc = "tx" /\ run'[p].verb = "up"
                                                  => ledger'[run'[p].target - 1] # 0
                                             /\ run'[p].pc = "done" /\ run'[p].verb = "up"
                                                  => ledger'[Latest] # 0
        BY <2>1 DEF PrefixInv
      <3>1. /\ \A v, w \in 0..Latest : v < w /\ ledger[w] # 0 => ledger[v] # 0 /\ ledger[v] < ledger[w]
            /\ ledger[t - 1] # 0 /\ t - 1 \in 0..Latest
            /\ \A v \in 0..Latest : ledger[v] \in Nat /\ ledger[v] <= serial
        BY <1>1, <2>6, LatestAssumption DEF MigrationInv, PrefixInv, LedgerInv
      <3>2. ASSUME NEW v \in 0..Latest, NEW w \in 0..Latest, v < w, ledger'[w] # 0
            PROVE  ledger'[v] # 0 /\ ledger'[v] < ledger'[w]
        <4>1. CASE w = t
          <5>1. v = t - 1 \/ v < t - 1
            BY <2>6, <3>2, <4>1
          <5>2. ledger[v] # 0 /\ v # t
            BY <3>1, <3>2, <4>1, <5>1
          <5> QED BY <1>1, <2>7, <3>1, <4>1, <5>2
        <4>2. CASE w # t
          <5>1. ledger[w] # 0 /\ ledger[v] # 0 /\ ledger[v] < ledger[w]
            BY <2>7, <3>1, <3>2, <4>2
          <5> QED BY <2>6, <2>7, <4>2, <5>1
        <4> QED BY <4>1, <4>2
      <3>3. \A v \in 0..Latest : ledger[v] # 0 => ledger'[v] # 0
        BY <1>1, <2>7
      <3>4. ASSUME NEW p \in Runs
            PROVE  /\ run'[p].pc = "tx" /\ run'[p].verb = "up" => ledger'[run'[p].target - 1] # 0
                   /\ run'[p].pc = "done" /\ run'[p].verb = "up" => ledger'[Latest] # 0
        <4>1. CASE p = r
          BY <2>2, <2>4, <2>5, <4>1
        <4>2. CASE p # r
          <5>1. run'[p] = run[p] /\ (run[p].pc = "tx" => run[p].target - 1 \in 0..Latest)
            BY <2>5, <4>2, LatestAssumption DEF MigrationInv, TargetInv, Versions
          <5>2. Latest \in 0..Latest
            BY LatestAssumption
          <5> QED BY <3>3, <5>1, <5>2 DEF MigrationInv, PrefixInv
        <4> QED BY <4>1, <4>2
      <3> QED BY <3>2, <3>4
    <2> QED BY <2>8, <2>9, <2>10, <2>11, <2>12 DEF MigrationInv
  <1> QED BY <1>2, <1>3

\* A rolled back migration: its version is deleted in the transaction that drops its
\* table.
LEMMA DownStep ==
    ASSUME MigrationInv, NEW r \in Runs, DownTx(r)
    PROVE  MigrationInv'
  <1> DEFINE t == run[r].target
  <1>1. /\ run \in [Runs -> RunRecords] /\ run[r] \in RunRecords
        /\ ledger \in [0..Latest -> Nat] /\ serial \in Nat /\ tables \subseteq Versions
        /\ t \in Versions /\ ledger[0] # 0 /\ run[r].verb = "down"
    BY DEF MigrationInv, MigrationTypeOK, RunRecords, TargetInv, LedgerInv, DownTx, At
  <1>2. CASE t \notin tables
    <2>1. Go(r, "failed") /\ UNCHANGED <<ledger, serial, tables, rolledBack>>
      BY <1>2 DEF DownTx
    <2> QED BY <2>1, RunLemma, GoStep
  <1>3. CASE t \in tables
    <2>1. /\ tables' = tables \ {t} /\ ledger' = [ledger EXCEPT ![t] = 0]
          /\ UNCHANGED serial /\ rolledBack' = TRUE
      BY <1>3 DEF DownTx
    <2>2. PICK pc \in {"done", "failed"} : Go(r, pc)
      BY <1>3 DEF DownTx
    <2>3. PICK q : q = [run[r] EXCEPT !.pc = pc]
      OBVIOUS
    <2>4. run' = [run EXCEPT ![r] = q] /\ q \in RunRecords /\ q.pc = pc
      <3>1. pc \in {"check", "current", "done", "failed", "create"}
        BY <2>2
      <3> QED BY <2>2, <2>3, <3>1, RunLemma
    <2>5. /\ run' \in [Runs -> RunRecords] /\ run'[r] = q
          /\ \A p \in Runs : p # r => run'[p] = run[p]
      BY <1>1, <2>4
    <2>6. t \in 0..Latest /\ t > 0
      BY <1>1, LatestAssumption DEF Versions
    <2>7. /\ ledger' \in [0..Latest -> Nat] /\ ledger'[t] = 0 /\ serial' = serial
          /\ \A v \in 0..Latest : v # t => ledger'[v] = ledger[v]
      BY <1>1, <2>1, <2>6
    <2> HIDE DEF t
    <2>8. MigrationTypeOK'
      BY <1>1, <2>1, <2>5, <2>7 DEF MigrationInv, MigrationTypeOK, RunRecords
    <2>9. SchemaTold'
      BY <1>1, <2>1, <2>7 DEF MigrationInv, SchemaTold, Recorded, Versions
    <2>10. LedgerInv'
      <3>1. \A v \in 0..Latest : ledger'[v] <= serial'
        BY <1>1, <2>1, <2>7 DEF MigrationInv, LedgerInv
      <3>2. ledger'[0] # 0
        BY <1>1, <2>6, <2>7, LatestAssumption
      <3> QED BY <3>1, <3>2 DEF LedgerInv
    <2>11. TargetInv'
      BY <2>4, <2>5 DEF MigrationInv, TargetInv
    <2>12. PrefixInv'
      BY <2>1 DEF PrefixInv
    <2> QED BY <2>8, <2>9, <2>10, <2>11, <2>12 DEF MigrationInv
  <1> QED BY <1>2, <1>3

-----------------------------------------------------------------------------
\* An empty database satisfies the invariant.
LEMMA MigrationInitInv == ASSUME MigrationInit PROVE MigrationInv
  <1>1. NoRun \in RunRecords /\ NoRun.pc = "idle"
    BY LatestAssumption DEF NoRun, RunRecords, Verbs
  <1>2. /\ run \in [Runs -> RunRecords] /\ \A r \in Runs : run[r].pc = "idle"
        /\ ledger \in [0..Latest -> Nat] /\ \A v \in 0..Latest : ledger[v] = 0
        /\ serial = 0 /\ tables = {} /\ rolledBack = FALSE
    BY <1>1 DEF MigrationInit
  <1>3. MigrationTypeOK
    BY <1>2 DEF MigrationTypeOK, RunRecords
  <1>4. SchemaTold /\ LedgerInv
    BY <1>2 DEF SchemaTold, LedgerInv, Recorded, Versions
  <1>5. TargetInv /\ PrefixInv
    BY <1>2 DEF TargetInv, PrefixInv
  <1> QED BY <1>3, <1>4, <1>5 DEF MigrationInv

\* Every step keeps the invariant.
LEMMA MigrationNextInv ==
    ASSUME MigrationInv, [MigrationNext]_migrationVars PROVE MigrationInv'
  <1>1. CASE MigrationNext
    BY <1>1, ReadSteps, CreateStep, UpStep, DownStep DEF MigrationNext, GooseStep
  <1>2. CASE UNCHANGED migrationVars
    <2>1. UNCHANGED <<ledger, serial, tables, rolledBack, run>>
      BY <1>2 DEF migrationVars
    <2> QED BY <2>1 DEF MigrationInv, MigrationTypeOK, SchemaTold, Recorded, LedgerInv, TargetInv, PrefixInv
  <1> QED BY <1>1, <1>2

\* The inductive invariant of goose's runs.
THEOREM MigrationInvariance == MigrationSpec => []MigrationInv
  <1>1. MigrationInit => MigrationInv
    BY MigrationInitInv
  <1>2. MigrationInv /\ [MigrationNext]_migrationVars => MigrationInv'
    BY MigrationNextInv
  <1> QED BY <1>1, <1>2, PTL DEF MigrationSpec

\* The invariant gives what the properties say: the recorded versions have no gap until
\* a rollback, and a finished up has seen the last version recorded.
LEMMA UpComplete == ASSUME MigrationInv PROVE UpIsComplete
  <1> SUFFICES ASSUME ~rolledBack
               PROVE  /\ Missing = {}
                      /\ \A r \in Runs : run[r].verb = "up" /\ At(r, "done") => tables = Versions
    BY DEF UpIsComplete
  <1>1. \A v, w \in 0..Latest : v < w /\ ledger[w] # 0 => ledger[v] # 0
    BY DEF MigrationInv, PrefixInv
  <1>2. Missing = {}
    BY <1>1 DEF Missing, Recorded, Versions
  <1>3. ASSUME NEW r \in Runs, run[r].verb = "up", At(r, "done") PROVE tables = Versions
    <2>1. ledger[Latest] # 0
      BY <1>3 DEF MigrationInv, PrefixInv, At
    <2>2. \A v \in Versions : v \in Recorded
      BY <1>1, <2>1, LatestAssumption DEF Versions, Recorded
    <2> QED BY <2>2 DEF MigrationInv, MigrationTypeOK, SchemaTold
  <1> QED BY <1>2, <1>3

\* Whatever runs race, fail or lose an acknowledgement, the ledger tells the schema.
THEOREM SchemaAlwaysTold == MigrationSpec => []SchemaTold
  <1>1. MigrationInv => SchemaTold
    BY DEF MigrationInv
  <1> QED BY <1>1, MigrationInvariance, PTL

\* Until the first rollback an up that ends without an error has applied everything.
THEOREM UpAlwaysComplete == MigrationSpec => []UpIsComplete
  <1>1. MigrationInv => UpIsComplete
    BY UpComplete
  <1> QED BY <1>1, MigrationInvariance, PTL
=============================================================================
