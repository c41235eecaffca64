-------------------------- MODULE DeploymentsProofs --------------------------
(* The tables of Deployments keep their types, and what an environment      *)
(* serves stays recorded and retained, for every set of builds,             *)
(* environments, jobs, replicas and operators and every bound (TablesSafe); *)
(* with one replica and nobody else no sweep touches it (SerialServes).     *)
(* Without clean builds over bundles, a bundle no removal has begun on is   *)
(* one build's whole output, and nothing but the sweep changes it           *)
(* (OnlyCleanBuildsOverwrite).                                              *)
EXTENDS Deployments, TLAPS

Reps == {Idle} \cup Building \cup Sweeping

(* What a replica's record is when it is at a given step.                   *)
LEMMA RepKinds ==
    ASSUME NEW s \in Reps
    PROVE  /\ s.pc \in {"building", "built", "settled", "recorded"} => s \in Building
           /\ s.pc \in {"list", "refs", "remove", "removing", "delete"} => s \in Sweeping
BY DEF Reps, Idle, Building, Sweeping

LEMMA BuildingMoves ==
    ASSUME NEW s \in Building, NEW pc \in {"building", "built", "settled", "recorded"}
    PROVE  [s EXCEPT !.pc = pc] \in Reps
BY DEF Reps, Building

LEMMA SweepingMoves ==
    ASSUME NEW s \in Sweeping, NEW pc \in {"list", "refs", "remove", "removing", "delete"}
    PROVE  [s EXCEPT !.pc = pc] \in Reps
BY DEF Reps, Sweeping

(* A clean build beside it changes at most a record's staging directory.    *)
LEMMA WipedKind == ASSUME NEW s \in Reps PROVE Wiped(s) \in Reps
<1>1. CASE s.pc = "building"
  <2>1. s \in Building  BY <1>1, RepKinds
  <2> QED  BY <1>1, <2>1 DEF Wiped, Reps, Building
<1>2. CASE s.pc = "built"
  <2>1. s \in Building  BY <1>2, RepKinds
  <2> QED  BY <1>2, <2>1 DEF Wiped, Reps, Building
<1>3. CASE s.pc # "building" /\ s.pc # "built"  BY <1>3 DEF Wiped
<1> QED  BY <1>1, <1>2, <1>3

LEMMA SweepingSet ==
    ASSUME NEW s \in Sweeping, NEW kept \in SUBSET Builds, NEW doomed \in SUBSET Builds
    PROVE  [s EXCEPT !.pc = "remove", !.kept = kept, !.doomed = doomed] \in Reps
BY DEF Reps, Sweeping

LEMMA SweepingRemoved ==
    ASSUME NEW s \in Sweeping, NEW b
    PROVE  [s EXCEPT !.pc = "remove", !.doomed = @ \ {b}] \in Reps
BY DEF Reps, Sweeping

-----------------------------------------------------------------------------
(* The three tables the invariant relates.                                  *)
BuildRow == [created : Nat, env : Envs]
TablesOK ==
    /\ build \in [Builds -> BuildRow]
    /\ pointer \in [Envs -> Builds \cup {NoBuild}]
    /\ history \in [Envs -> SUBSET Builds]
    /\ ServedIsRetained

LEMMA SameTables ==
    ASSUME TablesOK, UNCHANGED <<build, pointer, history>> PROVE TablesOK'
BY DEF TablesOK, ServedIsRetained, Retained, Current, Stored

(* The pointer moves to a recorded build, which the history then has.       *)
LEMMA PointKeepsTables ==
    ASSUME TablesOK, NEW e \in Envs, NEW b \in Builds, Point(e, b), build' = build
    PROVE  TablesOK'
<1>1. pointer' \in [Envs -> Builds \cup {NoBuild}] /\ history' \in [Envs -> SUBSET Builds]
  BY DEF TablesOK, Point
<1>2. ASSUME NEW f \in Envs, Current(f)' # NoBuild PROVE Current(f)' \in Retained(f)'
  <2>1. CASE f = e
    <3>1. pointer'[f] = b /\ history'[f] = history[f] \cup {b}
      BY <2>1 DEF Point, TablesOK
    <3>2. Stored(b)'
      BY DEF Point, Stored
    <3> QED  BY <3>1, <3>2, <1>1 DEF Retained, Current
  <2>2. CASE f # e
    <3>1. pointer'[f] = pointer[f] /\ history'[f] = history[f]
      BY <2>2 DEF Point, TablesOK
    <3>2. pointer[f] \in history[f] /\ Stored(pointer[f])
      BY <1>2, <3>1 DEF TablesOK, ServedIsRetained, Retained, Current
    <3>3. Stored(pointer[f])'
      BY <3>1, <3>2 DEF Stored
    <3> QED  BY <3>1, <3>2, <3>3 DEF Retained, Current
  <2> QED  BY <2>1, <2>2
<1> QED  BY <1>1, <1>2 DEF TablesOK, ServedIsRetained

(* An upsert forgets no row.                                                *)
LEMMA UpsertKeepsTables ==
    ASSUME TablesOK, NEW e \in Envs, NEW b \in Builds, Upsert(b, e),
           UNCHANGED <<pointer, history>>
    PROVE  TablesOK'
<1> PICK now \in 1 .. MaxBuilds :
      build' = [build EXCEPT ![b] =
        [created |-> IF Stored(b) THEN build[b].created ELSE now, env |-> e]]
  BY DEF Upsert
<1> DEFINE row == [created |-> IF Stored(b) THEN build[b].created ELSE now, env |-> e]
<1>1. row \in BuildRow /\ row.created > 0
  BY BoundsAssumption DEF BuildRow, Stored, TablesOK
<1>2. build' \in [Builds -> BuildRow] /\ build'[b] = row /\ \A c \in Builds \ {b} : build'[c] = build[c]
  BY <1>1 DEF TablesOK
<1>3. ASSUME NEW c \in Builds, Stored(c) PROVE Stored(c)'
  BY <1>1, <1>2, <1>3 DEF Stored
<1>4. ASSUME NEW f \in Envs, Current(f)' # NoBuild PROVE Current(f)' \in Retained(f)'
  BY <1>3, <1>4 DEF TablesOK, ServedIsRetained, Retained, Current
<1> QED  BY <1>2, <1>4 DEF TablesOK, ServedIsRetained

(* A delete takes neither the row nor the history of a build in use.        *)
LEMMA DeleteKeepsTables ==
    ASSUME TablesOK, NEW b \in Builds, Delete(b), pointer' = pointer
    PROVE  TablesOK'
<1>1. CASE \E e \in Envs : Current(e) = b
  BY <1>1, SameTables DEF Delete
<1>2. CASE ~ \E e \in Envs : Current(e) = b
  <2>1. /\ build' = [build EXCEPT ![b].created = 0]
        /\ history' = [e \in Envs |-> history[e] \ {b}]
    BY <1>2 DEF Delete
  <2>2. build' \in [Builds -> BuildRow] /\ history' \in [Envs -> SUBSET Builds]
    BY <2>1 DEF TablesOK, BuildRow
  <2>3. ASSUME NEW f \in Envs, Current(f)' # NoBuild PROVE Current(f)' \in Retained(f)'
    <3>1. pointer[f] # b /\ pointer[f] \in history[f] /\ Stored(pointer[f])
      BY <1>2, <2>3 DEF TablesOK, ServedIsRetained, Retained, Current
    <3>2. pointer[f] \in Builds
      BY <3>1 DEF TablesOK
    <3>3. Stored(pointer[f])'
      BY <3>1, <3>2, <2>1 DEF Stored, TablesOK
    <3> QED  BY <2>1, <3>1, <3>3 DEF Retained, Current
  <2> QED  BY <2>2, <2>3 DEF TablesOK, ServedIsRetained
<1> QED  BY <1>1, <1>2

-----------------------------------------------------------------------------
(* Everything but the tables.                                               *)
LoopsOK ==
    /\ finished \in SUBSET (Builds \X Envs)
    /\ bytes \in [Builds -> Bytes]
    /\ rep \in [Replicas -> Reps]
    /\ op \in [Operators -> {Idle} \cup [pc : {"decided"}, env : Envs, build : Builds]]
    /\ started \in Nat /\ budget \in Nat

LEMMA SafeParts == RecordsSafe <=> TablesOK /\ LoopsOK
BY DEF RecordsSafe, TypeOK, TablesOK, LoopsOK, BuildRow, Reps

LEMMA SpendKeepsBudget == ASSUME budget \in Nat, NEW k, Spend(k) PROVE budget' \in Nat
BY DEF Spend

LEMMA BecomeKeepsReps ==
    ASSUME rep \in [Replicas -> Reps], NEW r \in Replicas, NEW s \in Reps, Become(r, s)
    PROVE  rep' \in [Replicas -> Reps]
BY DEF Become

LEMMA IdleIsRep == Idle \in Reps
BY DEF Reps

LEMMA BuildingFields ==
    ASSUME NEW s \in Building
    PROVE  s.job \in Job /\ s.job \in Jobs /\ s.staging \in {"none", "whole", "torn"}
BY JobsAssumption DEF Building

LEMMA JobFields ==
    ASSUME NEW j \in Jobs
    PROVE  j.env \in Envs /\ j.content \in Contents /\ BuildOf[j.content] \in Builds
BY JobsAssumption, BuildsAssumption DEF Job

LEMMA SweepingFields ==
    ASSUME NEW s \in Sweeping
    PROVE  s.env \in Envs /\ s.todo \in SUBSET Envs /\ s.doomed \in SUBSET Builds
BY DEF Sweeping

-----------------------------------------------------------------------------
(* One lemma per part of the handler.                                       *)
LEMMA BuildBeginSafe ==
    ASSUME TablesOK, LoopsOK, NEW r \in Replicas, NEW j \in Jobs, BuildBegin(r, j)
    PROVE  TablesOK' /\ LoopsOK'
<1> DEFINE fresh == [pc |-> "building", job |-> j, staging |-> "whole"]
<1>1. fresh \in Reps
  BY DEF Reps, Building
<1>2. TablesOK'
  BY SameTables DEF BuildBegin, tables
<1>3. started' \in Nat /\ UNCHANGED <<finished, op>>
  BY DEF BuildBegin, LoopsOK, tables
<1>4. CASE Become(r, fresh) /\ UNCHANGED <<bytes, budget>>
  <2>1. rep' \in [Replicas -> Reps]
    BY <1>1, <1>4, BecomeKeepsReps DEF LoopsOK
  <2> QED  BY <1>2, <1>3, <1>4, <2>1 DEF LoopsOK
<1>5. CASE /\ IF WipesNothing(r) THEN UNCHANGED budget ELSE Spend("clean")
           /\ bytes' = [b \in Builds |-> "none"]
           /\ rep' = [s \in Replicas |-> IF s = r THEN fresh ELSE Wiped(rep[s])]
  <2>1. budget' \in Nat
    BY <1>5, SpendKeepsBudget DEF LoopsOK
  <2>2. \A s \in Replicas : Wiped(rep[s]) \in Reps
    BY WipedKind DEF LoopsOK
  <2>3. rep' \in [Replicas -> Reps]
    BY <1>1, <1>5, <2>2
  <2>4. bytes' \in [Builds -> Bytes]
    BY <1>5 DEF Bytes
  <2> QED  BY <1>2, <1>3, <2>1, <2>3, <2>4 DEF LoopsOK
<1> QED  BY <1>4, <1>5 DEF BuildBegin

LEMMA DeploySafe ==
    ASSUME TablesOK, LoopsOK, NEW r \in Replicas, Deploy(r)
    PROVE  TablesOK' /\ LoopsOK'
<1> DEFINE s == rep[r]
<1>0. s \in Reps
  BY DEF LoopsOK
<1>1. s \in Building
  <2>1. s.pc \in {"building", "built", "settled", "recorded"}
    BY DEF Deploy, BuildEnd, Settle, Put, Finish, PointRefused
  <2> QED  BY <1>0, <2>1, RepKinds
<1>2. /\ s.job \in Jobs /\ s.job.env \in Envs /\ s.job.content \in Contents
      /\ Id(r) \in Builds
  BY <1>1, BuildingFields, JobFields DEF Id
<1>3. CASE BuildEnd(r)
  <2>1. rep' \in [Replicas -> Reps]
    BY <1>1, <1>3, BuildingMoves, BecomeKeepsReps DEF BuildEnd, Goto, LoopsOK
  <2> QED  BY <1>3, <2>1, SameTables DEF BuildEnd, LoopsOK, tables
<1>4. CASE Settle(r)
  <2>1. rep' \in [Replicas -> Reps]
    BY <1>1, <1>4, BuildingMoves, BecomeKeepsReps, IdleIsRep DEF Settle, Goto, LoopsOK
  <2>2. bytes' \in [Builds -> Bytes]
    BY <1>2, <1>4 DEF Settle, Bytes, LoopsOK
  <2> QED  BY <1>4, <2>1, <2>2, SameTables DEF Settle, LoopsOK, tables
<1>5. CASE Put(r)
  <2>1. rep' \in [Replicas -> Reps]
    BY <1>1, <1>5, BuildingMoves, BecomeKeepsReps DEF Put, Goto, LoopsOK
  <2>2. TablesOK'
    BY <1>2, <1>5, UpsertKeepsTables DEF Put
  <2> QED  BY <1>5, <2>1, <2>2 DEF Put, LoopsOK
<1>6. CASE Finish(r)
  <2>1. rep' \in [Replicas -> Reps]
    BY <1>6, BecomeKeepsReps, IdleIsRep DEF Finish, LoopsOK
  <2>2. finished' \in SUBSET (Builds \X Envs)
    BY <1>2, <1>6 DEF Finish, LoopsOK
  <2>3. TablesOK'
    <3>1. CASE Deploys(s.job)
      BY <1>2, <1>6, <3>1, PointKeepsTables DEF Finish
    <3>2. CASE ~Deploys(s.job)
      BY <1>6, <3>2, SameTables DEF Finish
    <3> QED  BY <3>1, <3>2
  <2> QED  BY <1>6, <2>1, <2>2, <2>3 DEF Finish, LoopsOK
<1>7. CASE PointRefused(r)
  <2>1. rep' \in [Replicas -> Reps]
    BY <1>7, BecomeKeepsReps, IdleIsRep DEF PointRefused, LoopsOK
  <2> QED  BY <1>7, <2>1, SameTables DEF PointRefused, LoopsOK, tables
<1> QED  BY <1>3, <1>4, <1>5, <1>6, <1>7 DEF Deploy

LEMMA SweepBeginSafe ==
    ASSUME TablesOK, LoopsOK, NEW r \in Replicas, SweepBegin(r)
    PROVE  TablesOK' /\ LoopsOK'
<1> DEFINE todo == {e \in Envs : Current(e) # NoBuild}
           s == [pc |-> "list", todo |-> todo, env |-> Preview,
                 listed |-> [b \in Builds |-> 0], kept |-> {}, doomed |-> {}]
<1>1. s \in Reps
  <2>1. todo \in SUBSET Envs /\ Preview \in Envs /\ [b \in Builds |-> 0] \in [Builds -> Nat]
    BY EnvsAssumption
  <2> HIDE DEF todo
  <2> QED  BY <2>1 DEF Reps, Sweeping
<1>2. rep' \in [Replicas -> Reps]
  BY <1>1, BecomeKeepsReps DEF SweepBegin, LoopsOK
<1> QED  BY <1>2, SameTables DEF SweepBegin, LoopsOK, tables

LEMMA SweepSafe ==
    ASSUME TablesOK, LoopsOK, NEW r \in Replicas, Sweep(r)
    PROVE  TablesOK' /\ LoopsOK'
<1> DEFINE s == rep[r]
<1>0. s \in Reps
  BY DEF LoopsOK
<1>1. s \in Sweeping
  <2>1. s.pc \in {"list", "refs", "remove", "removing", "delete"}
    BY DEF Sweep, SweepList, SweepRefs, RemoveBytes, RemoveRest, DeleteRecord, SweepNext
  <2> QED  BY <1>0, <2>1, RepKinds
<1>2. s.env \in Envs /\ s.todo \in SUBSET Envs /\ s.doomed \in SUBSET Builds
  BY <1>1, SweepingFields
<1>3. CASE SweepList(r)
  <2>1. PICK e \in s.todo :
          Become(r, [pc |-> "refs", todo |-> s.todo \ {e}, env |-> e, kept |-> {},
                     listed |-> [b \in Builds |-> IF build[b].env = e THEN build[b].created ELSE 0],
                     doomed |-> {}])
    BY <1>3 DEF SweepList
  <2> DEFINE listed == [b \in Builds |-> IF build[b].env = e THEN build[b].created ELSE 0]
  <2>2. listed \in [Builds -> Nat]
    BY DEF TablesOK, BuildRow
  <2>3. [pc |-> "refs", todo |-> s.todo \ {e}, env |-> e, kept |-> {}, listed |-> listed,
         doomed |-> {}] \in Reps
    <3>1. e \in Envs /\ s.todo \ {e} \in SUBSET Envs
      BY <1>2, <2>1
    <3> HIDE DEF listed, s
    <3> QED  BY <2>2, <3>1 DEF Reps, Sweeping
  <2>4. rep' \in [Replicas -> Reps]
    BY <2>1, <2>3, BecomeKeepsReps DEF LoopsOK
  <2> QED  BY <1>3, <2>4, SameTables DEF SweepList, LoopsOK, tables
<1>4. CASE SweepRefs(r)
  <2> DEFINE doomed == Expired(s.listed, Referenced, Keep[s.env])
  <2>1. Referenced \in SUBSET Builds /\ doomed \in SUBSET Builds
    BY DEF Referenced, Expired
  <2>2. [s EXCEPT !.pc = "remove", !.kept = Referenced, !.doomed = doomed] \in Reps
    <3> HIDE DEF s, doomed
    <3> QED  BY <1>1, <2>1, SweepingSet
  <2>3. rep' \in [Replicas -> Reps]
    BY <1>4, <2>2, BecomeKeepsReps DEF SweepRefs, LoopsOK
  <2> QED  BY <1>4, <2>3, SameTables DEF SweepRefs, LoopsOK, tables
<1>5. CASE RemoveBytes(r) \/ RemoveRest(r)
  <2>1. rep' \in [Replicas -> Reps]
    BY <1>1, <1>5, SweepingMoves, IdleIsRep, BecomeKeepsReps DEF RemoveBytes, RemoveRest, Goto, LoopsOK
  <2>2. bytes' \in [Builds -> Bytes]
    BY <1>5 DEF RemoveBytes, RemoveRest, Bytes, LoopsOK
  <2> QED  BY <1>5, <2>1, <2>2, SameTables DEF RemoveBytes, RemoveRest, LoopsOK, tables
<1>6. CASE DeleteRecord(r)
  <2>1. PICK b \in Builds :
          /\ Delete(b)
          /\ IF \E e \in Envs : Current(e) = b THEN Become(r, Idle)
             ELSE Become(r, [s EXCEPT !.pc = "remove", !.doomed = @ \ {b}])
    BY <1>6 DEF DeleteRecord
  <2>2. TablesOK'
    BY <1>6, <2>1, DeleteKeepsTables DEF DeleteRecord
  <2>3. rep' \in [Replicas -> Reps]
    BY <1>1, <2>1, SweepingRemoved, IdleIsRep, BecomeKeepsReps DEF LoopsOK
  <2> QED  BY <1>6, <2>2, <2>3 DEF DeleteRecord, LoopsOK
<1>7. CASE SweepNext(r)
  <2>1. rep' \in [Replicas -> Reps]
    BY <1>1, <1>7, SweepingMoves, IdleIsRep, BecomeKeepsReps DEF SweepNext, Goto, LoopsOK
  <2> QED  BY <1>7, <2>1, SameTables DEF SweepNext, LoopsOK, tables
<1> QED  BY <1>3, <1>4, <1>5, <1>6, <1>7 DEF Sweep

LEMMA AbandonSafe ==
    ASSUME TablesOK, LoopsOK, NEW r \in Replicas, Abandon(r)
    PROVE  TablesOK' /\ LoopsOK'
<1>1. rep' \in [Replicas -> Reps] /\ budget' \in Nat
  BY IdleIsRep, BecomeKeepsReps, SpendKeepsBudget DEF Abandon, LoopsOK
<1> QED  BY <1>1, SameTables DEF Abandon, LoopsOK, tables

(* Requests.                                                                *)
LEMMA DecideSafe ==
    ASSUME TablesOK, LoopsOK, NEW o \in Operators, NEW e \in Envs, NEW b \in Builds,
           op' = [op EXCEPT ![o] = [pc |-> "decided", env |-> e, build |-> b]],
           Spend("rollback"), UNCHANGED <<tables, bytes, rep, started>>
    PROVE  TablesOK' /\ LoopsOK'
<1>1. op' \in [Operators -> {Idle} \cup [pc : {"decided"}, env : Envs, build : Builds]]
  BY DEF LoopsOK
<1>2. budget' \in Nat
  BY SpendKeepsBudget DEF LoopsOK
<1> QED  BY <1>1, <1>2, SameTables DEF LoopsOK, tables

LEMMA SwitchSafe ==
    ASSUME TablesOK, LoopsOK, NEW o \in Operators, Switch(o)
    PROVE  TablesOK' /\ LoopsOK'
<1>1. op' \in [Operators -> {Idle} \cup [pc : {"decided"}, env : Envs, build : Builds]]
  BY DEF Switch, LoopsOK
<1>2. op[o].env \in Envs /\ op[o].build \in Builds
  BY DEF Switch, LoopsOK, Idle
<1>3. TablesOK'
  BY <1>2, PointKeepsTables, SameTables DEF Switch
<1> QED  BY <1>1, <1>3 DEF Switch, LoopsOK

LEMMA ActivateSafe ==
    ASSUME TablesOK, LoopsOK, NEW b \in Builds, NEW e \in Envs, Activate(b, e)
    PROVE  TablesOK' /\ LoopsOK'
<1>1. TablesOK'
  BY PointKeepsTables DEF Activate
<1>2. budget' \in Nat
  BY SpendKeepsBudget DEF Activate, LoopsOK
<1> QED  BY <1>1, <1>2 DEF Activate, LoopsOK

-----------------------------------------------------------------------------
LEMMA InitSafe == Init => TablesOK /\ LoopsOK
BY EnvsAssumption, BoundsAssumption
   DEF Init, TablesOK, LoopsOK, ServedIsRetained, Retained, Current, Stored, BuildRow, Bytes,
       Reps, Idle

LEMMA StepSafe == TablesOK /\ LoopsOK /\ [Next]_vars => TablesOK' /\ LoopsOK'
<1> SUFFICES ASSUME TablesOK, LoopsOK, [Next]_vars PROVE TablesOK' /\ LoopsOK'
  OBVIOUS
<1>1. ASSUME NEW r \in Replicas, NEW j \in Jobs, BuildBegin(r, j) PROVE TablesOK' /\ LoopsOK'
  BY <1>1, BuildBeginSafe
<1>2. ASSUME NEW r \in Replicas, Deploy(r) PROVE TablesOK' /\ LoopsOK'
  BY <1>2, DeploySafe
<1>3. ASSUME NEW r \in Replicas, SweepBegin(r) PROVE TablesOK' /\ LoopsOK'
  BY <1>3, SweepBeginSafe
<1>4. ASSUME NEW r \in Replicas, Sweep(r) PROVE TablesOK' /\ LoopsOK'
  BY <1>4, SweepSafe
<1>5. ASSUME NEW r \in Replicas, Abandon(r) PROVE TablesOK' /\ LoopsOK'
  BY <1>5, AbandonSafe
<1>6. ASSUME NEW o \in Operators, NEW e \in Envs, NEW b \in Builds, RollbackTo(o, e, b)
      PROVE  TablesOK' /\ LoopsOK'
  BY <1>6, DecideSafe DEF RollbackTo
<1>7. ASSUME NEW o \in Operators, NEW e \in Envs, ReturnToLatest(o, e) PROVE TablesOK' /\ LoopsOK'
  BY <1>7, DecideSafe DEF ReturnToLatest
<1>8. ASSUME NEW o \in Operators, Switch(o) PROVE TablesOK' /\ LoopsOK'
  BY <1>8, SwitchSafe
<1>9. ASSUME NEW b \in Builds, NEW e \in Envs, Activate(b, e) PROVE TablesOK' /\ LoopsOK'
  BY <1>9, ActivateSafe
<1>10. CASE UNCHANGED vars
  BY <1>10, SameTables DEF vars, LoopsOK
<1> QED  BY <1>1, <1>2, <1>3, <1>4, <1>5, <1>6, <1>7, <1>8, <1>9, <1>10 DEF Next

(* repos.rs:259 "A build that an environment still points at cannot be      *)
(* deleted", and rollback.rs:185: whatever deploys, sweeps and rollbacks    *)
(* cross, the tables keep their types and each environment serves a build   *)
(* that has its row and that the environment may be rolled back to.         *)
THEOREM TablesSafe == Spec => []RecordsSafe
<1>1. Init => TablesOK /\ LoopsOK
  BY InitSafe
<1>2. (TablesOK /\ LoopsOK) /\ [Next]_vars => (TablesOK /\ LoopsOK)'
  BY StepSafe
<1>3. TablesOK /\ LoopsOK => RecordsSafe
  BY SafeParts
<1> QED  BY <1>1, <1>2, <1>3, PTL DEF Spec

-----------------------------------------------------------------------------
(* Created ranks are given out once, so a listing orders its builds.        *)
OneEach(f) == \A b, c \in Builds : f[b] = f[c] /\ f[b] > 0 => b = c
Listing(s) ==
    s.pc \in {"refs", "remove", "removing", "delete"} =>
      OneEach(s.listed) /\ \A b \in s.doomed : s.listed[b] > 0
RankInv ==
    /\ \A b, c \in Builds : build[b].created = build[c].created /\ Stored(b) => b = c
    /\ \A r \in Replicas : Listing(rep[r])

LEMMA RankInit == Init => RankInv
BY DEF Init, RankInv, Stored, Listing, Idle

LEMMA RankMove ==
    ASSUME RankInv, LoopsOK, NEW r \in Replicas, NEW s, Listing(s), Become(r, s), build' = build
    PROVE  RankInv'
<1>1. \A q \in Replicas : rep'[q] = s \/ rep'[q] = rep[q]
  BY DEF Become, LoopsOK
<1>2. \A q \in Replicas : Listing(rep'[q])
  BY <1>1 DEF RankInv
<1> QED  BY <1>2 DEF RankInv, Stored

LEMMA RankRest == ASSUME NEW s, s.pc \notin {"refs", "remove", "removing", "delete"} PROVE Listing(s)
BY DEF Listing

LEMMA RankBuildBegin ==
    ASSUME RankInv, LoopsOK, NEW r \in Replicas, NEW j \in Jobs, BuildBegin(r, j)
    PROVE  RankInv'
<1>1. PICK fresh : fresh = [pc |-> "building", job |-> j, staging |-> "whole"]
  OBVIOUS
<1>2. Listing(fresh)
  BY <1>1 DEF Listing
<1>3. CASE Become(r, fresh)
  BY <1>2, <1>3, RankMove DEF BuildBegin, tables
<1>4. CASE rep' = [s \in Replicas |-> IF s = r THEN fresh ELSE Wiped(rep[s])]
  <2>1. ASSUME NEW s \in Replicas PROVE Listing(Wiped(rep[s]))
    <3>1. CASE rep[s].pc \in {"building", "built"}
      <4>1. rep[s] \in Building
        BY <3>1, RepKinds DEF LoopsOK
      <4>2. Wiped(rep[s]).pc \in {"building", "built"}
        BY <3>1, <4>1 DEF Wiped, Building
      <4> QED  BY <4>2 DEF Listing
    <3>2. CASE rep[s].pc \notin {"building", "built"}
      BY <3>2 DEF Wiped, RankInv
    <3> QED  BY <3>1, <3>2
  <2>2. \A s \in Replicas : Listing(rep'[s])
    BY <1>2, <1>4, <2>1
  <2> QED  BY <2>2 DEF RankInv, Stored, BuildBegin, tables
<1> QED  BY <1>1, <1>3, <1>4 DEF BuildBegin

LEMMA RankDeploy ==
    ASSUME RankInv, TablesOK, LoopsOK, NEW r \in Replicas, Deploy(r)
    PROVE  RankInv'
<1>1. rep[r] \in Building
  <2>1. rep[r].pc \in {"building", "built", "settled", "recorded"}
    BY DEF Deploy, BuildEnd, Settle, Put, Finish, PointRefused
  <2> QED  BY <2>1, RepKinds DEF LoopsOK
<1>2. Listing(Idle)
  BY DEF Listing, Idle
<1>3. ASSUME NEW pc \in {"built", "settled", "recorded"} PROVE Listing([rep[r] EXCEPT !.pc = pc])
  BY <1>1, RankRest DEF Building
<1>4. CASE BuildEnd(r) \/ Settle(r) \/ Finish(r) \/ PointRefused(r)
  <2>1. build' = build
    BY <1>4 DEF BuildEnd, Settle, Finish, PointRefused, tables
  <2>2. Become(r, Idle) \/ \E pc \in {"built", "settled", "recorded"} : Goto(r, pc)
    BY <1>4 DEF BuildEnd, Settle, Finish, PointRefused
  <2> QED  BY <1>2, <1>3, <2>1, <2>2, RankMove DEF Goto
<1>5. CASE Put(r)
  <2>1. PICK b, e : b \in Builds /\ b = Id(r) /\ e = rep[r].job.env /\ Upsert(b, e)
    BY <1>1, <1>5, BuildingFields, JobFields DEF Put, Id
  <2>2. PICK now \in 1 .. MaxBuilds :
          /\ \A c \in Builds : build[c].created < now
          /\ build' = [build EXCEPT ![b] =
               [created |-> IF Stored(b) THEN build[b].created ELSE now, env |-> e]]
    BY <2>1 DEF Upsert
  <2>3. PICK row : row = [created |-> IF Stored(b) THEN build[b].created ELSE now, env |-> e]
    OBVIOUS
  <2>4. row.created = IF Stored(b) THEN build[b].created ELSE now
    BY <2>3
  <2>5. \A c \in Builds : build'[c] = IF c = b THEN row ELSE build[c]
    BY <2>2, <2>3 DEF TablesOK
  <2>6. \A c \in Builds : build[c].created \in Nat
    BY DEF TablesOK, BuildRow
  <2>7. \A c, d \in Builds : build'[c].created = build'[d].created /\ Stored(c)' => c = d
    BY <2>2, <2>4, <2>5, <2>6, BoundsAssumption DEF RankInv, Stored
  <2>8. \A q \in Replicas : Listing(rep'[q])
    <3>1. \A q \in Replicas : rep'[q] = rep[q] \/ rep'[q] = [rep[r] EXCEPT !.pc = "recorded"]
      BY <1>5 DEF Put, Goto, Become, LoopsOK
    <3> QED  BY <1>3, <3>1 DEF RankInv
  <2> QED  BY <2>7, <2>8 DEF RankInv
<1> QED  BY <1>4, <1>5 DEF Deploy

LEMMA RankSweep ==
    ASSUME RankInv, TablesOK, LoopsOK, NEW r \in Replicas, Sweep(r)
    PROVE  RankInv'
<1>1. PICK s : s = rep[r]
  OBVIOUS
<1>2. s \in Sweeping
  <2>1. s.pc \in {"list", "refs", "remove", "removing", "delete"}
    BY <1>1 DEF Sweep, SweepList, SweepRefs, RemoveBytes, RemoveRest, DeleteRecord, SweepNext
  <2> QED  BY <1>1, <2>1, RepKinds DEF LoopsOK
<1>3. Listing(Idle) /\ Listing(s)
  BY <1>1 DEF Listing, Idle, RankInv
<1>4. CASE SweepList(r)
  <2>1. PICK e, listed, t :
          /\ e \in s.todo
          /\ listed = [b \in Builds |-> IF build[b].env = e THEN build[b].created ELSE 0]
          /\ t = [pc |-> "refs", todo |-> s.todo \ {e}, env |-> e, kept |-> {},
                  listed |-> listed, doomed |-> {}]
          /\ Become(r, t)
    BY <1>1, <1>4 DEF SweepList
  <2>2. OneEach(listed)
    BY <2>1 DEF OneEach, RankInv, Stored
  <2>3. t.listed = listed /\ t.doomed = {}
    BY <2>1
  <2>4. Listing(t)
    BY <2>2, <2>3 DEF Listing
  <2> QED  BY <1>4, <2>1, <2>4, RankMove DEF SweepList, tables
<1>5. CASE SweepRefs(r)
  <2>1. PICK doomed : doomed = Expired(s.listed, Referenced, Keep[s.env])
    OBVIOUS
  <2>2. \A b \in doomed : s.listed[b] > 0
    BY <2>1 DEF Expired
  <2>3. PICK t : t = [s EXCEPT !.pc = "remove", !.kept = Referenced, !.doomed = doomed] /\ Become(r, t)
    BY <1>1, <1>5, <2>1 DEF SweepRefs
  <2>4. t.listed = s.listed /\ t.doomed = doomed
    BY <1>2, <2>3 DEF Sweeping
  <2>5. Listing(t)
    BY <1>1, <1>3, <1>5, <2>2, <2>4 DEF Listing, SweepRefs
  <2> QED  BY <1>5, <2>3, <2>5, RankMove DEF SweepRefs, tables
<1>6. CASE RemoveBytes(r) \/ RemoveRest(r) \/ SweepNext(r)
  <2>1. s.pc \in {"remove", "removing"}
    BY <1>1, <1>6 DEF RemoveBytes, RemoveRest, SweepNext
  <2>2. ASSUME NEW pc \in {"list", "removing", "delete"} PROVE Listing([s EXCEPT !.pc = pc])
    <3>1. PICK t : t = [s EXCEPT !.pc = pc]
      OBVIOUS
    <3>2. t.listed = s.listed /\ t.doomed = s.doomed
      BY <1>2, <3>1 DEF Sweeping
    <3> QED  BY <1>3, <2>1, <3>1, <3>2 DEF Listing
  <2>3. Become(r, Idle) \/ \E pc \in {"list", "removing", "delete"} : Become(r, [s EXCEPT !.pc = pc])
    BY <1>1, <1>6 DEF RemoveBytes, RemoveRest, SweepNext, Goto
  <2> QED  BY <1>3, <1>6, <2>2, <2>3, RankMove DEF RemoveBytes, RemoveRest, SweepNext, tables
<1>7. CASE DeleteRecord(r)
  <2>1. PICK b \in Builds : /\ Delete(b)
                            /\ \/ Become(r, Idle)
                               \/ Become(r, [s EXCEPT !.pc = "remove", !.doomed = @ \ {b}])
    BY <1>1, <1>7 DEF DeleteRecord
  <2>2. Listing([s EXCEPT !.pc = "remove", !.doomed = @ \ {b}])
    <3>1. PICK t : t = [s EXCEPT !.pc = "remove", !.doomed = @ \ {b}]
      OBVIOUS
    <3>2. t.listed = s.listed /\ t.doomed \subseteq s.doomed
      BY <1>2, <3>1 DEF Sweeping
    <3>3. s.pc = "delete"
      BY <1>1, <1>7 DEF DeleteRecord
    <3> QED  BY <1>3, <3>1, <3>2, <3>3 DEF Listing
  <2>3. \A q \in Replicas : Listing(rep'[q])
    <3>1. \A q \in Replicas : \/ rep'[q] \in {rep[q], Idle}
                              \/ rep'[q] = [s EXCEPT !.pc = "remove", !.doomed = @ \ {b}]
      BY <2>1 DEF Become, LoopsOK
    <3> QED  BY <1>3, <2>2, <3>1 DEF RankInv
  <2>4. \A c \in Builds : build'[c].created \in {build[c].created, 0}
    BY <2>1 DEF Delete, TablesOK, BuildRow
  <2>5. \A c, d \in Builds : build'[c].created = build'[d].created /\ Stored(c)' => c = d
    BY <2>4 DEF RankInv, Stored
  <2> QED  BY <2>3, <2>5 DEF RankInv
<1> QED  BY <1>4, <1>5, <1>6, <1>7 DEF Sweep

LEMMA RankStep == RankInv /\ TablesOK /\ LoopsOK /\ [Next]_vars => RankInv'
<1> SUFFICES ASSUME RankInv, TablesOK, LoopsOK, [Next]_vars PROVE RankInv'
  OBVIOUS
<1>1. ASSUME NEW r \in Replicas, NEW j \in Jobs, BuildBegin(r, j) PROVE RankInv'
  BY <1>1, RankBuildBegin
<1>2. ASSUME NEW r \in Replicas, Deploy(r) PROVE RankInv'
  BY <1>2, RankDeploy
<1>3. ASSUME NEW r \in Replicas, Sweep(r) PROVE RankInv'
  BY <1>3, RankSweep
<1>4. ASSUME NEW r \in Replicas, SweepBegin(r) \/ Abandon(r) PROVE RankInv'
  <2>1. PICK s : s.pc \in {"list", "idle"} /\ Become(r, s) /\ build' = build
    BY <1>4 DEF SweepBegin, Abandon, Idle, tables
  <2> QED  BY <2>1, RankRest, RankMove
<1>5. CASE \/ \E o \in Operators : \/ \E e \in Envs : ReturnToLatest(o, e)
                                   \/ \E e \in Envs, b \in Builds : RollbackTo(o, e, b)
                                   \/ Switch(o)
           \/ \E b \in Builds, e \in Envs : Activate(b, e)
           \/ UNCHANGED vars
  <2>1. UNCHANGED <<build, rep>>
    BY <1>5 DEF ReturnToLatest, RollbackTo, Switch, Activate, vars, tables
  <2> QED  BY <2>1 DEF RankInv, Stored
<1>6. \/ \E r \in Replicas, j \in Jobs : BuildBegin(r, j)
      \/ \E r \in Replicas : Deploy(r) \/ Sweep(r) \/ SweepBegin(r) \/ Abandon(r)
      \/ \E o \in Operators : \/ \E e \in Envs : ReturnToLatest(o, e)
                              \/ \E e \in Envs, b \in Builds : RollbackTo(o, e, b)
                              \/ Switch(o)
      \/ \E b \in Builds, e \in Envs : Activate(b, e)
      \/ UNCHANGED vars
  BY DEF Next
<1> QED  BY <1>1, <1>2, <1>3, <1>4, <1>5, <1>6

(* A sweep has one build it removes next.                                   *)
LEMMA OneNext ==
    ASSUME RankInv, LoopsOK, NEW r \in Replicas, rep[r].pc = "removing",
           NEW b \in Builds, NEW c \in Builds, IsNext(r, b), IsNext(r, c)
    PROVE  b = c
<1>1. rep[r] \in Sweeping
  BY RepKinds DEF LoopsOK
<1>2. rep[r].listed[b] \in Nat /\ rep[r].listed[c] \in Nat
  BY <1>1 DEF Sweeping
<1>3. rep[r].listed[b] = rep[r].listed[c]
  BY <1>2 DEF IsNext
<1> QED  BY <1>3 DEF RankInv, Listing, OneEach, IsNext

-----------------------------------------------------------------------------
(* One replica, with no request beside its loop and no clean build over a   *)
(* bundle: no sweep touches what an environment serves, and a served bundle *)
(* that is not whole was left so before it was served, by a sweep cut       *)
(* short.  The invariant says what each step of a handler may count on, and *)
(* who answers for a partial bundle.                                        *)
Serial == (\E r : Replicas = {r}) /\ Disturbances \subseteq {"crash"}

Cut == budget < MaxDisturbances
Usable(b) == bytes[b] \in Contents \/ (bytes[b] = "partial" /\ Cut)

StepOK(r) ==
    /\ rep[r].pc \in {"building", "built"} => rep[r].staging = "whole"
    /\ rep[r].pc \in {"settled", "recorded"} => Usable(Id(r))
    /\ rep[r].pc \in {"remove", "removing", "delete"} => \A e \in Envs : Current(e) \notin rep[r].doomed

Traced ==
    \A b \in Builds : bytes[b] = "partial" =>
      Cut \/ \E r \in Replicas : rep[r].pc = "removing" /\ IsNext(r, b)

ServesUsable == \A e \in Envs : Current(e) # NoBuild => Usable(Current(e))

SerialInv ==
    /\ budget <= MaxDisturbances
    /\ \A b \in Builds : bytes[b] # "torn"
    /\ \A o \in Operators : op[o].pc = "idle"
    /\ \A r \in Replicas : StepOK(r)
    /\ Traced
    /\ ServesUsable

LEMMA OnlyCrash ==
    ASSUME Serial, NEW kind \in {"clean", "rollback", "activate"} PROVE ~Spend(kind)
BY DEF Serial, Spend

LEMMA SerialInit == Init => SerialInv
BY BoundsAssumption DEF Init, SerialInv, StepOK, Traced, ServesUsable, Idle, Current

(* Steps that leave pointers and bundles alone.                             *)
LEMMA SerialQuiet ==
    ASSUME SerialInv, Serial, NEW r \in Replicas, rep[r].pc # "removing",
           UNCHANGED <<pointer, bytes, op, budget>>, StepOK(r)'
    PROVE  SerialInv'
<1>1. \A q \in Replicas : q = r
  BY DEF Serial
<1>2. Traced'
  BY <1>1 DEF SerialInv, Traced, Cut
<1>3. ServesUsable'
  BY DEF SerialInv, ServesUsable, Usable, Cut, Current
<1> QED  BY <1>1, <1>2, <1>3 DEF SerialInv

LEMMA SerialBuildBegin ==
    ASSUME SerialInv, Serial, TablesOK, LoopsOK, NEW r \in Replicas, NEW j \in Jobs, BuildBegin(r, j)
    PROVE  SerialInv'
<1> DEFINE fresh == [pc |-> "building", job |-> j, staging |-> "whole"]
<1>1. rep'[r] = fresh
  BY DEF BuildBegin, Become, LoopsOK
<1>2. StepOK(r)'
  BY <1>1 DEF StepOK
<1>3. UNCHANGED <<bytes, budget>>
  <2>1. CASE Become(r, fresh) /\ UNCHANGED <<bytes, budget>>
    BY <2>1
  <2>2. CASE WipesNothing(r) /\ UNCHANGED budget /\ bytes' = [b \in Builds |-> "none"]
    BY <2>2 DEF WipesNothing, LoopsOK
  <2>3. ~Spend("clean")
    BY OnlyCrash
  <2> QED  BY <2>1, <2>2, <2>3 DEF BuildBegin
<1>4. rep[r].pc # "removing"
  BY DEF BuildBegin
<1> QED  BY <1>2, <1>3, <1>4, SerialQuiet DEF BuildBegin, tables

LEMMA SerialSettle ==
    ASSUME SerialInv, Serial, TablesOK, LoopsOK, NEW r \in Replicas, Settle(r)
    PROVE  SerialInv'
<1> DEFINE s == rep[r]  b == Id(r)
<1>0. s \in Building /\ s.staging = "whole" /\ b \in Builds /\ s.job.content \in Contents
  <2>1. s \in Building
    BY RepKinds DEF Settle, LoopsOK
  <2> QED  BY <2>1, BuildingFields, JobFields DEF Settle, SerialInv, StepOK, Id
<1>1. Goto(r, "settled") /\ UNCHANGED <<pointer, op, budget>>
  BY <1>0 DEF Settle, tables
<1>2. rep'[r] = [s EXCEPT !.pc = "settled"]
  BY <1>1 DEF Goto, Become, LoopsOK
<1>3. rep'[r].pc = "settled" /\ rep'[r].job = s.job
  BY <1>0, <1>2 DEF Building
<1>4. Id(r)' = b
  BY <1>3 DEF Id
<1>5. \A c \in Builds : bytes[c] = "partial" => Cut
  <2>1. \A q \in Replicas : rep[q].pc # "removing"
    BY DEF Serial, Settle
  <2> QED  BY <2>1 DEF SerialInv, Traced
<1>6. CASE bytes[b] # "none"
  <2>1. bytes' = bytes
    BY <1>0, <1>6 DEF Settle
  <2>2. bytes[b] \in Contents \cup {"partial"}
    BY <1>0, <1>6 DEF SerialInv, LoopsOK, Bytes
  <2>3. Usable(b)
    BY <1>0, <1>5, <2>2 DEF Usable
  <2>4. StepOK(r)'
    BY <1>1, <1>3, <1>4, <2>1, <2>3 DEF StepOK, Usable, Cut
  <2>5. rep[r].pc # "removing"
    BY DEF Settle
  <2> QED  BY <1>1, <2>1, <2>4, <2>5, SerialQuiet
<1>7. CASE bytes[b] = "none"
  <2>1. bytes' = [bytes EXCEPT ![b] = s.job.content]
    BY <1>0, <1>7 DEF Settle
  <2>2. bytes'[b] \in Contents /\ \A c \in Builds : c # b => bytes'[c] = bytes[c]
    BY <1>0, <2>1 DEF LoopsOK
  <2>3. StepOK(r)'
    BY <1>3, <1>4, <2>2 DEF StepOK, Usable
  <2>4. \A q \in Replicas : q = r
    BY DEF Serial
  <2>5. \A c \in Builds : bytes'[c] \notin {"torn", "partial"} \/ bytes'[c] = bytes[c]
    BY <2>2, ContentsAssumption
  <2>6. Traced'
    BY <1>1, <1>5, <2>5 DEF Traced, Cut
  <2>7. ServesUsable'
    <3> SUFFICES ASSUME NEW e \in Envs, pointer[e] # NoBuild PROVE Usable(pointer[e])'
      BY <1>1 DEF ServesUsable, Current
    <3>1. pointer[e] \in Builds /\ Usable(pointer[e])
      BY DEF TablesOK, SerialInv, ServesUsable, Current
    <3> QED  BY <1>1, <2>2, <3>1 DEF Usable, Cut
  <2> QED  BY <1>1, <2>3, <2>4, <2>5, <2>6, <2>7 DEF SerialInv
<1> QED  BY <1>6, <1>7

LEMMA SerialFinish ==
    ASSUME SerialInv, Serial, TablesOK, LoopsOK, NEW r \in Replicas, Finish(r)
    PROVE  SerialInv'
<1>1. rep'[r] = Idle /\ UNCHANGED <<bytes, op, budget>> /\ rep[r].pc # "removing"
  BY DEF Finish, Become, LoopsOK
<1>2. StepOK(r)'
  BY <1>1 DEF StepOK, Idle
<1>3. CASE UNCHANGED pointer
  BY <1>1, <1>2, <1>3, SerialQuiet
<1>4. CASE Point(rep[r].job.env, Id(r))
  <2>1. Usable(Id(r))
    BY DEF Finish, SerialInv, StepOK
  <2>2. ServesUsable'
    <3> SUFFICES ASSUME NEW e \in Envs, pointer'[e] # NoBuild PROVE Usable(pointer'[e])
      BY <1>1 DEF ServesUsable, Usable, Cut, Current
    <3>1. pointer'[e] = Id(r) \/ pointer'[e] = pointer[e]
      BY <1>4 DEF Point, TablesOK
    <3> QED  BY <2>1, <3>1 DEF SerialInv, ServesUsable, Current
  <2>3. \A q \in Replicas : q = r
    BY DEF Serial
  <2>4. Traced'
    BY <1>1, <2>3 DEF SerialInv, Traced, Cut
  <2> QED  BY <1>1, <1>2, <2>2, <2>3, <2>4 DEF SerialInv
<1> QED  BY <1>3, <1>4 DEF Finish

LEMMA SerialDeploy ==
    ASSUME SerialInv, Serial, TablesOK, LoopsOK, NEW r \in Replicas, Deploy(r)
    PROVE  SerialInv'
<1> DEFINE s == rep[r]
<1>1. CASE BuildEnd(r)
  <2>1. s \in Building
    BY <1>1, RepKinds DEF BuildEnd, LoopsOK
  <2>2. rep'[r] = [s EXCEPT !.pc = "built"]
    BY <1>1 DEF BuildEnd, Goto, Become, LoopsOK
  <2>3. rep'[r].pc = "built" /\ rep'[r].staging = s.staging
    BY <2>1, <2>2 DEF Building
  <2>4. StepOK(r)'
    BY <1>1, <2>3 DEF StepOK, BuildEnd, SerialInv
  <2> QED  BY <1>1, <2>4, SerialQuiet DEF BuildEnd, tables
<1>2. CASE Settle(r)  BY <1>2, SerialSettle
<1>3. CASE Put(r)
  <2>1. s \in Building
    BY <1>3, RepKinds DEF Put, LoopsOK
  <2>2. rep'[r] = [s EXCEPT !.pc = "recorded"]
    BY <1>3 DEF Put, Goto, Become, LoopsOK
  <2>3. rep'[r].pc = "recorded" /\ rep'[r].job = s.job
    BY <2>1, <2>2 DEF Building
  <2>4. UNCHANGED <<bytes, budget>> /\ Usable(Id(r))
    BY <1>3 DEF Put, SerialInv, StepOK
  <2>5. StepOK(r)'
    BY <2>3, <2>4 DEF StepOK, Id, Usable, Cut
  <2> QED  BY <1>3, <2>5, SerialQuiet DEF Put
<1>4. CASE Finish(r)  BY <1>4, SerialFinish
<1>5. CASE PointRefused(r)
  <2>1. rep'[r] = Idle
    BY <1>5 DEF PointRefused, Become, LoopsOK
  <2>2. StepOK(r)'
    BY <2>1 DEF StepOK, Idle
  <2> QED  BY <1>5, <2>2, SerialQuiet DEF PointRefused, tables
<1> QED  BY <1>1, <1>2, <1>3, <1>4, <1>5 DEF Deploy

(* The removal of one bundle, which no environment serves.                  *)
LEMMA SerialRemove ==
    ASSUME SerialInv, Serial, RankInv, TablesOK, LoopsOK, NEW r \in Replicas,
           RemoveBytes(r) \/ RemoveRest(r)
    PROVE  SerialInv'
<1>1. PICK s : s = rep[r]
  OBVIOUS
<1>2. s \in Sweeping /\ s.pc \in {"remove", "removing"}
  BY <1>1, RepKinds DEF RemoveBytes, RemoveRest, LoopsOK
<1>3. \A q \in Replicas : q = r
  BY DEF Serial
<1>4. UNCHANGED <<pointer, op, budget>>
  BY DEF RemoveBytes, RemoveRest, tables
<1>5. \A e \in Envs : pointer[e] \notin s.doomed
  BY <1>1, <1>2 DEF SerialInv, StepOK, Current
<1>6. ASSUME NEW pc \in {"removing", "delete"}, Goto(r, pc)
      PROVE  /\ rep'[r].pc = pc /\ rep'[r].doomed = s.doomed /\ rep'[r].listed = s.listed
             /\ StepOK(r)'
  <2>1. rep'[r] = [s EXCEPT !.pc = pc]
    BY <1>1, <1>6 DEF Goto, Become, LoopsOK
  <2>2. rep'[r].pc = pc /\ rep'[r].doomed = s.doomed /\ rep'[r].listed = s.listed
    BY <1>2, <2>1 DEF Sweeping
  <2> QED  BY <1>4, <1>5, <2>2 DEF StepOK, Current
<1>7. ASSUME NEW b \in Builds, IsNext(r, b), NEW x \in {"none", "partial"},
             bytes' = [bytes EXCEPT ![b] = x]
      PROVE  ServesUsable' /\ \A c \in Builds : bytes'[c] = IF c = b THEN x ELSE bytes[c]
  <2>1. \A c \in Builds : bytes'[c] = IF c = b THEN x ELSE bytes[c]
    BY <1>7 DEF LoopsOK
  <2> SUFFICES ASSUME NEW e \in Envs, pointer[e] # NoBuild PROVE Usable(pointer[e])'
    BY <1>4, <2>1 DEF ServesUsable, Current
  <2>2. pointer[e] \in Builds /\ pointer[e] # b /\ Usable(pointer[e])
    BY <1>1, <1>5, <1>7 DEF TablesOK, SerialInv, ServesUsable, Current, IsNext
  <2> QED  BY <1>4, <2>1, <2>2 DEF Usable, Cut
<1>8. CASE RemoveBytes(r)
  <2>1. PICK b \in Builds :
          /\ IsNext(r, b)
          /\ IF bytes[b] = "none" THEN UNCHANGED bytes /\ Goto(r, "delete")
             ELSE bytes' = [bytes EXCEPT ![b] = "partial"] /\ Goto(r, "removing")
    BY <1>8 DEF RemoveBytes
  <2>2. s.pc = "remove"
    BY <1>1, <1>8 DEF RemoveBytes
  <2>3. CASE bytes[b] = "none"
    BY <1>1, <1>4, <1>6, <2>1, <2>2, <2>3, SerialQuiet
  <2>4. CASE bytes[b] # "none"
    <3>1. bytes' = [bytes EXCEPT ![b] = "partial"] /\ Goto(r, "removing")
      BY <2>1, <2>4
    <3>2. ServesUsable' /\ \A c \in Builds : bytes'[c] = IF c = b THEN "partial" ELSE bytes[c]
      BY <1>7, <2>1, <3>1
    <3>3. IsNext(r, b)' /\ rep'[r].pc = "removing" /\ StepOK(r)'
      BY <1>1, <1>6, <2>1, <3>1 DEF IsNext
    <3>4. \A c \in Builds : bytes[c] = "partial" => Cut
      BY <1>1, <1>3, <2>2 DEF SerialInv, Traced
    <3>5. Traced'
      BY <1>4, <3>2, <3>3, <3>4 DEF Traced, Cut
    <3>6. \A c \in Builds : bytes'[c] # "torn"
      BY <3>2 DEF SerialInv
    <3> QED  BY <1>3, <1>4, <3>2, <3>3, <3>5, <3>6 DEF SerialInv
  <2> QED  BY <2>3, <2>4
<1>9. CASE RemoveRest(r)
  <2>1. PICK b \in Builds :
          /\ IsNext(r, b)
          /\ IF bytes[b] \in {"partial", "none"}
             THEN bytes' = [bytes EXCEPT ![b] = "none"] /\ Goto(r, "delete")
             ELSE UNCHANGED bytes /\ Become(r, Idle)
    BY <1>9 DEF RemoveRest
  <2>2. s.pc = "removing"
    BY <1>1, <1>9 DEF RemoveRest
  <2>3. \A c \in Builds \ {b} : bytes[c] = "partial" => Cut
    BY <1>1, <1>3, <2>1, <2>2, OneNext DEF SerialInv, Traced
  <2>4. CASE bytes[b] \in {"partial", "none"}
    <3>1. bytes' = [bytes EXCEPT ![b] = "none"] /\ Goto(r, "delete")
      BY <2>1, <2>4
    <3>2. ServesUsable' /\ \A c \in Builds : bytes'[c] = IF c = b THEN "none" ELSE bytes[c]
      BY <1>7, <2>1, <3>1
    <3>3. Traced'
      BY <1>4, <2>3, <3>2 DEF Traced, Cut
    <3>4. \A c \in Builds : bytes'[c] # "torn"
      BY <3>2 DEF SerialInv
    <3> QED  BY <1>3, <1>4, <1>6, <3>1, <3>2, <3>3, <3>4 DEF SerialInv
  <2>5. CASE bytes[b] \notin {"partial", "none"}
    <3>1. UNCHANGED bytes /\ rep'[r] = Idle
      BY <2>1, <2>5 DEF Become, LoopsOK
    <3>2. StepOK(r)'
      BY <3>1 DEF StepOK, Idle
    <3>3. Traced'
      BY <1>4, <2>3, <2>5, <3>1 DEF Traced, Cut
    <3>4. ServesUsable'
      BY <1>4, <3>1 DEF SerialInv, ServesUsable, Usable, Cut, Current
    <3> QED  BY <1>3, <1>4, <3>1, <3>2, <3>3, <3>4 DEF SerialInv
  <2> QED  BY <2>4, <2>5
<1> QED  BY <1>8, <1>9

LEMMA SerialSweep ==
    ASSUME SerialInv, Serial, RankInv, TablesOK, LoopsOK, NEW r \in Replicas, Sweep(r)
    PROVE  SerialInv'
<1> DEFINE s == rep[r]
<1>1. s \in Sweeping
  <2>1. s.pc \in {"list", "refs", "remove", "removing", "delete"}
    BY DEF Sweep, SweepList, SweepRefs, RemoveBytes, RemoveRest, DeleteRecord, SweepNext
  <2> QED  BY <2>1, RepKinds DEF LoopsOK
<1>2. CASE SweepList(r)
  <2>1. rep'[r].pc = "refs"
    BY <1>2 DEF SweepList, Become, LoopsOK
  <2>2. StepOK(r)'
    BY <2>1 DEF StepOK
  <2> QED  BY <1>2, <2>2, SerialQuiet DEF SweepList, tables
<1>3. CASE SweepRefs(r)
  <2> DEFINE doomed == Expired(s.listed, Referenced, Keep[s.env])
  <2>1. rep'[r] = [s EXCEPT !.pc = "remove", !.kept = Referenced, !.doomed = doomed]
    BY <1>3 DEF SweepRefs, Become, LoopsOK
  <2>2. rep'[r].pc = "remove" /\ rep'[r].doomed = doomed
    <3> HIDE DEF doomed
    <3> QED  BY <1>1, <2>1 DEF Sweeping
  <2>3. \A e \in Envs : pointer[e] \notin doomed
    BY DEF Expired, Referenced, Current
  <2>4. StepOK(r)'
    BY <1>3, <2>2, <2>3 DEF StepOK, Current, SweepRefs, tables
  <2> QED  BY <1>3, <2>4, SerialQuiet DEF SweepRefs, tables
<1>4. CASE RemoveBytes(r) \/ RemoveRest(r)  BY <1>4, SerialRemove
<1>5. CASE DeleteRecord(r)
  <2>1. PICK b : \/ rep'[r] = Idle
                 \/ rep'[r] = [s EXCEPT !.pc = "remove", !.doomed = @ \ {b}]
    BY <1>5 DEF DeleteRecord, Become, LoopsOK
  <2>2. rep'[r].pc = "idle" \/ (rep'[r].pc = "remove" /\ rep'[r].doomed \subseteq s.doomed)
    <3>1. CASE rep'[r] = Idle
      BY <3>1 DEF Idle
    <3>2. CASE rep'[r] = [s EXCEPT !.pc = "remove", !.doomed = @ \ {b}]
      BY <1>1, <3>2 DEF Sweeping
    <3> QED  BY <2>1, <3>1, <3>2
  <2>3. StepOK(r)'
    BY <1>5, <2>2 DEF StepOK, Current, DeleteRecord, SerialInv
  <2> QED  BY <1>5, <2>3, SerialQuiet DEF DeleteRecord
<1>6. CASE SweepNext(r)
  <2>1. rep'[r] \in {Idle, [s EXCEPT !.pc = "list"]}
    BY <1>6 DEF SweepNext, Goto, Become, LoopsOK
  <2>2. rep'[r].pc \in {"idle", "list"}
    <3>1. CASE rep'[r] = Idle
      BY <3>1 DEF Idle
    <3>2. CASE rep'[r] = [s EXCEPT !.pc = "list"]
      BY <1>1, <3>2 DEF Sweeping
    <3> QED  BY <2>1, <3>1, <3>2
  <2>3. StepOK(r)'
    BY <2>2 DEF StepOK
  <2> QED  BY <1>6, <2>3, SerialQuiet DEF SweepNext, tables
<1> QED  BY <1>2, <1>3, <1>4, <1>5, <1>6 DEF Sweep

LEMMA SerialSweepBegin ==
    ASSUME SerialInv, Serial, TablesOK, LoopsOK, NEW r \in Replicas, SweepBegin(r)
    PROVE  SerialInv'
<1>1. rep'[r].pc = "list"
  BY DEF SweepBegin, Become, LoopsOK
<1>2. StepOK(r)'
  BY <1>1 DEF StepOK
<1> QED  BY <1>2, SerialQuiet DEF SweepBegin, tables

(* What is cut short leaves a partial bundle the budget accounts for.       *)
LEMMA SerialAbandon ==
    ASSUME SerialInv, Serial, TablesOK, LoopsOK, NEW r \in Replicas, Abandon(r)
    PROVE  SerialInv'
<1>1. rep'[r] = Idle /\ UNCHANGED <<pointer, bytes, op>> /\ budget' = budget - 1
  BY DEF Abandon, Become, LoopsOK, Spend, tables
<1>2. StepOK(r)'
  BY <1>1 DEF StepOK, Idle
<1>3. Cut' /\ budget' <= MaxDisturbances
  BY <1>1, BoundsAssumption DEF SerialInv, Cut, LoopsOK
<1>4. Traced'
  BY <1>3 DEF Traced
<1>5. ServesUsable'
  BY <1>1, <1>3 DEF SerialInv, ServesUsable, Usable, Current
<1>6. \A q \in Replicas : q = r
  BY DEF Serial
<1> QED  BY <1>1, <1>2, <1>3, <1>4, <1>5, <1>6 DEF SerialInv

(* No request runs.                                                         *)
LEMMA SerialRequests ==
    ASSUME SerialInv, Serial
    PROVE  /\ \A o \in Operators : ~Switch(o)
           /\ \A o, e, b : ~RollbackTo(o, e, b) /\ ~ReturnToLatest(o, e) /\ ~Activate(b, e)
<1>1. \A o \in Operators : ~Switch(o)
  BY DEF SerialInv, Switch
<1>2. ~Spend("rollback") /\ ~Spend("activate")
  BY OnlyCrash
<1> QED  BY <1>1, <1>2 DEF RollbackTo, ReturnToLatest, Activate

LEMMA SerialStep ==
    ASSUME Serial PROVE SerialInv /\ RankInv /\ TablesOK /\ LoopsOK /\ [Next]_vars => SerialInv'
<1> SUFFICES ASSUME SerialInv, RankInv, TablesOK, LoopsOK, [Next]_vars PROVE SerialInv'
  OBVIOUS
<1>1. ASSUME NEW r \in Replicas, NEW j \in Jobs, BuildBegin(r, j) PROVE SerialInv'
  BY <1>1, SerialBuildBegin
<1>2. ASSUME NEW r \in Replicas, Deploy(r) PROVE SerialInv'
  BY <1>2, SerialDeploy
<1>3. ASSUME NEW r \in Replicas, SweepBegin(r) \/ Abandon(r) PROVE SerialInv'
  BY <1>3, SerialSweepBegin, SerialAbandon
<1>4. ASSUME NEW r \in Replicas, Sweep(r) PROVE SerialInv'
  BY <1>4, SerialSweep
<1>5. CASE UNCHANGED vars
  BY <1>5 DEF vars, SerialInv, StepOK, Traced, IsNext, ServesUsable, Usable, Cut, Current, Id
<1> QED  BY <1>1, <1>2, <1>3, <1>4, <1>5, SerialRequests DEF Next

(* retention.rs:3 "a build an environment points at is never removed,       *)
(* however old it is": true of one replica whose loop runs builds and       *)
(* sweeps one after the other, however often they fail or crash halfway, as *)
(* long as no rollback, activation or clean build comes between.  What it   *)
(* serves is whole unless a removal was cut short before it was served.     *)
THEOREM SerialServes == ASSUME Serial PROVE Spec => []ServedIsKept
<1>1. Init => TablesOK /\ LoopsOK /\ RankInv /\ SerialInv
  BY InitSafe, RankInit, SerialInit
<1>2. (TablesOK /\ LoopsOK /\ RankInv /\ SerialInv) /\ [Next]_vars
        => (TablesOK /\ LoopsOK /\ RankInv /\ SerialInv)'
  BY StepSafe, RankStep, SerialStep
<1>3. SerialInv => ServedIsKept
  BY DEF SerialInv, StepOK, ServesUsable, Usable, Cut, ServedIsKept, IsNext
<1> QED  BY <1>1, <1>2, <1>3, PTL DEF Spec

-----------------------------------------------------------------------------
(* Any number of replicas, crashes, sweeps, rollbacks and activations, but  *)
(* no clean build over bundles: a bundle no removal has begun on is then    *)
(* all of one build's output under that build's id.                         *)
KeepsBundles == "clean" \notin Disturbances

BundlesWhole ==
    \A b \in Builds : bytes[b] \notin {"none", "partial"} =>
      bytes[b] \in Contents /\ BuildOf[bytes[b]] = b
IsWhole(s) == s.pc \in {"building", "built"} => s.staging = "whole"
WholeInv == BundlesWhole /\ \A r \in Replicas : IsWhole(rep[r])

(* Who writes a bundle directory, and over what.                            *)
Fills(r) ==
    /\ Settle(r)
    /\ bytes[Id(r)] = "none"
    /\ bytes' = [bytes EXCEPT ![Id(r)] = rep[r].job.content]

LEMMA CleanIsHarmless ==
    ASSUME KeepsBundles, WholeInv, LoopsOK, NEW r \in Replicas, NEW j \in Jobs, BuildBegin(r, j)
    PROVE  UNCHANGED bytes /\ \A s \in Replicas : IsWhole(rep'[s])
<1> DEFINE fresh == [pc |-> "building", job |-> j, staging |-> "whole"]
<1>1. IsWhole(fresh)
  BY DEF IsWhole
<1>2. CASE Become(r, fresh) /\ UNCHANGED <<bytes, budget>>
  <2>1. \A s \in Replicas : rep'[s] = fresh \/ rep'[s] = rep[s]
    <3> HIDE DEF fresh
    <3> QED BY <1>2 DEF Become, LoopsOK
  <2> HIDE DEF fresh
  <2> QED BY <1>1, <1>2, <2>1 DEF WholeInv
<1>3. CASE /\ IF WipesNothing(r) THEN UNCHANGED budget ELSE Spend("clean")
           /\ bytes' = [b \in Builds |-> "none"]
           /\ rep' = [s \in Replicas |-> IF s = r THEN fresh ELSE Wiped(rep[s])]
  <2>1. WipesNothing(r)
    BY <1>3 DEF Spend, KeepsBundles
  <2>2. bytes' = bytes
    BY <1>3, <2>1 DEF WipesNothing, LoopsOK
  <2>3. \A s \in Replicas \ {r} : Wiped(rep[s]) = rep[s]
    BY <2>1 DEF WipesNothing, Wiped
  <2> HIDE DEF fresh
  <2> QED BY <1>1, <1>3, <2>2, <2>3 DEF WholeInv
<1> QED BY <1>2, <1>3 DEF BuildBegin

LEMMA SettleFills ==
    ASSUME WholeInv, LoopsOK, NEW r \in Replicas, Settle(r)
    PROVE  /\ UNCHANGED bytes \/ Fills(r)
           /\ Goto(r, "settled")
<1>1. rep[r].staging = "whole"
  BY DEF Settle, WholeInv, IsWhole
<1> QED BY <1>1 DEF Settle, Fills

(* A replica that moves has a whole staging directory still, or none.       *)
LEMMA MoverIsWhole ==
    ASSUME WholeInv, LoopsOK, NEW r \in Replicas, NEW s, IsWhole(s), Become(r, s)
    PROVE  \A q \in Replicas : IsWhole(rep'[q])
<1>1. \A q \in Replicas : rep'[q] = s \/ rep'[q] = rep[q]
  BY DEF Become, LoopsOK
<1> QED BY <1>1 DEF WholeInv

LEMMA ElsewhereIsWhole ==
    ASSUME NEW s, s.pc \notin {"building", "built"} PROVE IsWhole(s)
BY DEF IsWhole

LEMMA HandlerStaysWhole ==
    ASSUME WholeInv, LoopsOK, NEW r \in Replicas, Deploy(r)
    PROVE  \A q \in Replicas : IsWhole(rep'[q])
<1>1. rep[r] \in Building
  <2>1. rep[r].pc \in {"building", "built", "settled", "recorded"}
    BY DEF Deploy, BuildEnd, Settle, Put, Finish, PointRefused
  <2> QED BY <2>1, RepKinds DEF LoopsOK
<1>2. IsWhole(Idle)
  BY DEF IsWhole, Idle
<1>3. ASSUME NEW pc \in {"settled", "recorded"} PROVE IsWhole([rep[r] EXCEPT !.pc = pc])
  BY <1>1, ElsewhereIsWhole DEF Building
<1>4. CASE BuildEnd(r)
  <2>1. rep[r].staging = "whole"
    BY <1>4 DEF BuildEnd, WholeInv, IsWhole
  <2>2. IsWhole([rep[r] EXCEPT !.pc = "built"])
    BY <1>1, <2>1 DEF IsWhole, Building
  <2> QED BY <1>4, <2>2, MoverIsWhole DEF BuildEnd, Goto
<1>5. CASE Settle(r)
  BY <1>3, <1>5, SettleFills, MoverIsWhole DEF Goto
<1>6. CASE Put(r)
  BY <1>3, <1>6, MoverIsWhole DEF Put, Goto
<1>7. CASE Finish(r) \/ PointRefused(r)
  BY <1>2, <1>7, MoverIsWhole DEF Finish, PointRefused
<1> QED BY <1>4, <1>5, <1>6, <1>7 DEF Deploy

LEMMA SweepStaysWhole ==
    ASSUME WholeInv, LoopsOK, NEW r \in Replicas, Sweep(r) \/ SweepBegin(r) \/ Abandon(r)
    PROVE  \A q \in Replicas : IsWhole(rep'[q])
<1>1. IsWhole(Idle)
  BY DEF IsWhole, Idle
<1>2. CASE SweepBegin(r)
  <2>1. PICK s : s.pc = "list" /\ Become(r, s)
    BY <1>2 DEF SweepBegin
  <2> QED BY <2>1, ElsewhereIsWhole, MoverIsWhole
<1>3. CASE Abandon(r)
  BY <1>1, <1>3, MoverIsWhole DEF Abandon
<1>4. CASE SweepList(r)
  <2>1. PICK s : s.pc = "refs" /\ Become(r, s)
    BY <1>4 DEF SweepList
  <2> QED BY <2>1, ElsewhereIsWhole, MoverIsWhole
<1>5. CASE SweepRefs(r) \/ RemoveBytes(r) \/ RemoveRest(r) \/ DeleteRecord(r) \/ SweepNext(r)
  <2>1. rep[r] \in Sweeping
    <3>1. rep[r].pc \in {"list", "refs", "remove", "removing", "delete"}
      BY <1>5 DEF SweepRefs, RemoveBytes, RemoveRest, DeleteRecord, SweepNext
    <3> QED BY <3>1, RepKinds DEF LoopsOK
  <2>2. CASE SweepRefs(r)
    <3> DEFINE doomed == Expired(rep[r].listed, Referenced, Keep[rep[r].env])
    <3>1. PICK s : s = [rep[r] EXCEPT !.pc = "remove", !.kept = Referenced, !.doomed = doomed]
                   /\ Become(r, s)
      BY <2>2 DEF SweepRefs
    <3>2. s.pc = "remove"
      <4> HIDE DEF doomed
      <4> QED BY <2>1, <3>1 DEF Sweeping
    <3> QED BY <3>1, <3>2, ElsewhereIsWhole, MoverIsWhole
  <2>3. CASE RemoveBytes(r) \/ RemoveRest(r)
    <3>1. ASSUME NEW pc \in {"removing", "delete"} PROVE IsWhole([rep[r] EXCEPT !.pc = pc])
      BY <2>1, ElsewhereIsWhole DEF Sweeping
    <3>2. Become(r, Idle) \/ \E pc \in {"removing", "delete"} : Become(r, [rep[r] EXCEPT !.pc = pc])
      BY <2>3 DEF RemoveBytes, RemoveRest, Goto
    <3> QED BY <1>1, <3>1, <3>2, MoverIsWhole
  <2>4. CASE DeleteRecord(r)
    <3>1. PICK b : \/ Become(r, Idle)
                   \/ Become(r, [rep[r] EXCEPT !.pc = "remove", !.doomed = @ \ {b}])
      BY <2>4 DEF DeleteRecord
    <3>2. IsWhole([rep[r] EXCEPT !.pc = "remove", !.doomed = @ \ {b}])
      BY <2>1, ElsewhereIsWhole DEF Sweeping
    <3> QED BY <1>1, <3>1, <3>2, MoverIsWhole
  <2>5. CASE SweepNext(r)
    <3>1. IsWhole([rep[r] EXCEPT !.pc = "list"])
      BY <2>1, ElsewhereIsWhole DEF Sweeping
    <3> QED BY <1>1, <2>5, <3>1, MoverIsWhole DEF SweepNext, Goto
  <2> QED BY <1>5, <2>2, <2>3, <2>4, <2>5
<1> QED BY <1>2, <1>3, <1>4, <1>5 DEF Sweep

LEMMA BytesMove ==
    ASSUME KeepsBundles, WholeInv, LoopsOK, [Next]_vars
    PROVE  /\ UNCHANGED bytes \/ \E r \in Replicas : Fills(r) \/ RemoveBytes(r) \/ RemoveRest(r)
           /\ \A q \in Replicas : IsWhole(rep'[q])
<1>1. CASE \E r \in Replicas, j \in Jobs : BuildBegin(r, j)
  BY <1>1, CleanIsHarmless
<1>2. ASSUME NEW r \in Replicas, Deploy(r)
      PROVE  UNCHANGED bytes \/ \E q \in Replicas : Fills(q)
  BY <1>2, SettleFills DEF Deploy, BuildEnd, Put, Finish, PointRefused
<1>3. ASSUME NEW r \in Replicas, Sweep(r) \/ SweepBegin(r) \/ Abandon(r)
      PROVE  UNCHANGED bytes \/ \E q \in Replicas : RemoveBytes(q) \/ RemoveRest(q)
  BY <1>3 DEF Sweep, SweepList, SweepRefs, DeleteRecord, SweepNext, SweepBegin, Abandon
<1>4. CASE \/ \E o \in Operators : \/ \E e \in Envs : ReturnToLatest(o, e)
                                   \/ \E e \in Envs, b \in Builds : RollbackTo(o, e, b)
                                   \/ Switch(o)
           \/ \E b \in Builds, e \in Envs : Activate(b, e)
           \/ UNCHANGED vars
  <2>1. UNCHANGED <<bytes, rep>>
    BY <1>4 DEF ReturnToLatest, RollbackTo, Switch, Activate, vars
  <2> QED BY <2>1 DEF WholeInv
<1>5. \/ \E r \in Replicas, j \in Jobs : BuildBegin(r, j)
      \/ \E r \in Replicas : Deploy(r)
      \/ \E r \in Replicas : Sweep(r) \/ SweepBegin(r) \/ Abandon(r)
      \/ \E o \in Operators : \/ \E e \in Envs : ReturnToLatest(o, e)
                              \/ \E e \in Envs, b \in Builds : RollbackTo(o, e, b)
                              \/ Switch(o)
      \/ \E b \in Builds, e \in Envs : Activate(b, e)
      \/ UNCHANGED vars
  BY DEF Next
<1> QED BY <1>1, <1>2, <1>3, <1>4, <1>5, HandlerStaysWhole, SweepStaysWhole

LEMMA WholeStep ==
    ASSUME KeepsBundles PROVE WholeInv /\ RecordsSafe /\ [Next]_vars => WholeInv'
<1> SUFFICES ASSUME WholeInv, RecordsSafe, [Next]_vars PROVE WholeInv'
  OBVIOUS
<1>1. LoopsOK
  BY SafeParts
<1>2. \A q \in Replicas : IsWhole(rep'[q])
  BY <1>1, BytesMove
<1>3. CASE UNCHANGED bytes
  BY <1>2, <1>3 DEF WholeInv, BundlesWhole
<1>4. ASSUME NEW r \in Replicas, RemoveBytes(r) \/ RemoveRest(r) PROVE BundlesWhole'
  <2>1. bytes' = bytes \/ \E b \in Builds, x \in {"none", "partial"} : bytes' = [bytes EXCEPT ![b] = x]
    BY <1>4 DEF RemoveBytes, RemoveRest
  <2>2. \A c \in Builds : bytes'[c] \in {"none", "partial"} \/ bytes'[c] = bytes[c]
    BY <1>1, <2>1 DEF LoopsOK
  <2> QED BY <2>2 DEF WholeInv, BundlesWhole
<1>5. ASSUME NEW r \in Replicas, Fills(r) PROVE BundlesWhole'
  <2>1. rep[r] \in Building
    BY <1>1, <1>5, RepKinds DEF Fills, Settle, LoopsOK
  <2>2. rep[r].job.content \in Contents
    BY <2>1, BuildingFields, JobFields
  <2>3. PICK b, c : b = Id(r) /\ c = rep[r].job.content
    OBVIOUS
  <2>4. bytes' = [bytes EXCEPT ![b] = c] /\ BuildOf[c] = b /\ c \in Contents
    BY <1>5, <2>2, <2>3 DEF Fills, Id
  <2>5. \A d \in Builds : bytes'[d] = bytes[d] \/ (d = b /\ bytes'[d] = c)
    BY <1>1, <2>4 DEF LoopsOK
  <2> QED BY <2>4, <2>5 DEF WholeInv, BundlesWhole
<1> QED BY <1>1, <1>2, <1>3, <1>4, <1>5, BytesMove DEF WholeInv

LEMMA WholeAlways == ASSUME KeepsBundles PROVE Spec => []WholeInv
<1>1. Init => WholeInv
  BY DEF Init, WholeInv, BundlesWhole, IsWhole, Idle
<1> QED BY <1>1, WholeStep, TablesSafe, PTL DEF Spec

(* A bundle that no removal has begun on holds one build's whole output,    *)
(* under the id that output has, whatever crashes and however handlers,     *)
(* sweeps and rollbacks cross (worker.rs:157, settle: "the same id is the   *)
(* same bytes").  What a removal cut short leaves is the one exception, and *)
(* settle takes it for the build's output too.                              *)
THEOREM BundlesAreWhole == ASSUME KeepsBundles PROVE Spec => []BundlesWhole
<1>1. WholeInv => BundlesWhole
  BY DEF WholeInv
<1> QED BY <1>1, WholeAlways, PTL

(* Clean builds are the only departure from "bundles are immutable and      *)
(* content-addressed" (worker.rs:138): without them nothing but the sweep   *)
(* changes a bundle that is there.                                          *)
THEOREM OnlyCleanBuildsOverwrite == ASSUME KeepsBundles PROVE Spec => BundlesImmutable
<1>1. ASSUME WholeInv, RecordsSafe, [Next]_vars, NEW b \in Builds, bytes[b] # "none", bytes'[b] # bytes[b]
      PROVE  \E r \in Replicas : RemoveBytes(r) \/ RemoveRest(r)
  <2>1. LoopsOK
    BY <1>1, SafeParts
  <2>2. ASSUME NEW r \in Replicas, Fills(r) PROVE FALSE
    <3>1. PICK i, c : i = Id(r) /\ c = rep[r].job.content
      OBVIOUS
    <3>2. bytes[i] = "none" /\ bytes' = [bytes EXCEPT ![i] = c]
      BY <2>2, <3>1 DEF Fills
    <3> QED BY <1>1, <2>1, <3>2 DEF LoopsOK
  <2> QED BY <1>1, <2>1, <2>2, BytesMove
<1>2. WholeInv /\ RecordsSafe /\ [Next]_vars =>
        [\A b \in Builds : bytes[b] # "none" /\ bytes'[b] # bytes[b] =>
           \E r \in Replicas : RemoveBytes(r) \/ RemoveRest(r)]_vars
  BY <1>1
<1> QED BY <1>2, WholeAlways, TablesSafe, PTL DEF Spec, BundlesImmutable
=============================================================================
