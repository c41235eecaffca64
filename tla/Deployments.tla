----------------------------- MODULE Deployments -----------------------------
(***************************************************************************)
(* Builds, the pointers environments serve, and the bundles under them, for *)
(* one project: the deploy.build handler (deploy/worker.rs), the retention  *)
(* sweep (deploy/retention.rs), rollback and return to latest               *)
(* (deploy/rollback.rs), activation (deploy/routes.rs), over the build and  *)
(* deployment tables (liyasa-store/src/repos.rs) and the bundle directories *)
(* of the project's workspace.                                              *)
(*                                                                          *)
(* A statement or transaction of the store, and a call on the file system,  *)
(* is one action, but for the removal of a bundle, which may be cut short   *)
(* between its files; a replica's loop runs one handler at a time and       *)
(* requests run beside it.  created_at is the rank of the insert.  (A clean *)
(* build removes all bundles at once, in one step here: no property that is *)
(* checked looks at bundles where there are such builds.)                   *)
(*                                                                          *)
(* Not modelled: who may roll back, webhooks, the edge purge, the embedding *)
(* job, paging past 500 builds, the staging leftovers of a dead process.    *)
(***************************************************************************)
EXTENDS Integers, FiniteSets

CONSTANTS
    Builds,           \* build ids
    NoBuild,          \* an environment never deployed
    Envs,             \* the environments of the project ...
    Preview,          \* ... and the one previews are built for
    Contents,         \* what a build runs over: the tree and its environment
    BuildOf,          \* the id the digest gives each content
    Jobs,             \* the deploy.build rows submitted
    Keep,             \* Policy::keep_for, by environment
    Replicas,
    Operators,        \* the people rolling back
    MaxBuilds,        \* bound: the handler starts this often
    Disturbances,     \* what may come from outside ...
    MaxDisturbances   \* ... and how often in all

Kinds == {"clean", "crash", "rollback", "activate"}
Job == [env : Envs, content : Contents, push : BOOLEAN, pull : BOOLEAN]

ASSUME BuildsAssumption == NoBuild \notin Builds /\ BuildOf \in [Contents -> Builds]
ASSUME EnvsAssumption == Preview \in Envs /\ Keep \in [Envs -> Nat]
ASSUME ContentsAssumption == Contents \cap {"none", "torn", "partial"} = {}
ASSUME JobsAssumption == Jobs \subseteq Job
ASSUME BoundsAssumption ==
    MaxBuilds \in Nat /\ MaxDisturbances \in Nat /\ Disturbances \subseteq Kinds

VARIABLES
    build,     \* table build: created (0 for no row), env
    pointer,   \* table deployment
    history,   \* table deployment_history, as the set of builds per environment
    finished,  \* the (build, environment) pairs of done deploy.build rows
    bytes,     \* what the directory bundles/<id> holds
    rep,       \* what each replica's loop is at
    op,        \* the rollback each operator has under way
    started, budget

tables == <<build, pointer, history, finished>>
vars == <<build, pointer, history, finished, bytes, rep, op, started, budget>>

(* A bundle is a build's whole output; or torn, what a build wrote around a *)
(* clean build; or partial, what a removal has left of it so far.           *)
Bytes == Contents \cup {"none", "torn", "partial"}
Stored(b) == build[b].created > 0
Current(e) == pointer[e]

Idle == [pc |-> "idle"]
Building == [pc : {"building", "built", "settled", "recorded"}, job : Jobs,
             staging : {"none", "whole", "torn"}]
Sweeping == [pc : {"list", "refs", "remove", "removing", "delete"}, todo : SUBSET Envs, env : Envs,
             listed : [Builds -> Nat], kept : SUBSET Builds, doomed : SUBSET Builds]

Spend(kind) ==
    /\ kind \in Disturbances /\ budget > 0
    /\ budget' = budget - 1

Become(r, s) == rep' = [rep EXCEPT ![r] = s]
Goto(r, pc) == Become(r, [rep[r] EXCEPT !.pc = pc])

-----------------------------------------------------------------------------
(* The tables.                                                              *)

(* Builds::put, an upsert that keeps created_at.                            *)
Upsert(b, e) ==
    \E now \in 1 .. MaxBuilds :
      /\ \A c \in Builds : build[c].created < now
      /\ now = 1 \/ \E c \in Builds : build[c].created = now - 1
      /\ build' = [build EXCEPT ![b] =
           [created |-> IF Stored(b) THEN build[b].created ELSE now, env |-> e]]

(* Deployments::point: the foreign key refuses a build with no row.         *)
Point(e, b) ==
    /\ Stored(b)
    /\ pointer' = [pointer EXCEPT ![e] = b]
    /\ history' = [history EXCEPT ![e] = @ \cup {b}]

(* Slip: the history rows go in a transaction of their own.                 *)
DeleteInTwo(b) ==
    /\ build' = IF \E e \in Envs : Current(e) = b THEN build
                ELSE [build EXCEPT ![b].created = 0]
    /\ history' = [e \in Envs |-> history[e] \ {b}]

(* Slip: the history rows hold on to the build as the pointer does.         *)
DeleteUnlessDeployed(b) ==
    IF \E e \in Envs : b \in history[e]
    THEN UNCHANGED <<build, history>>
    ELSE build' = [build EXCEPT ![b].created = 0] /\ UNCHANGED history

(* Builds::delete: with an environment still at the build nothing changes.  *)
Delete(b) ==
    IF \E e \in Envs : Current(e) = b
    THEN UNCHANGED <<build, history>>
    ELSE /\ build' = [build EXCEPT ![b].created = 0]
         /\ history' = [e \in Envs |-> history[e] \ {b}]

-----------------------------------------------------------------------------
(* The deploy.build handler.                                                *)

(* Plan::deploys.                                                           *)
Deploys(j) == ~j.pull /\ j.env # Preview

(* A push to an environment that has been deployed restores from the cache  *)
(* of the build it serves; every other build is clean, and a clean build    *)
(* removes <root>/.liyasa, where the bundles and the staging directories    *)
(* are too.  What the row says was decided when it was submitted, perhaps   *)
(* before the environment's first deploy.                                   *)
Warm(j) == j.push /\ Current(j.env) # NoBuild

Wiped(s) ==
    CASE s.pc = "building" -> [s EXCEPT !.staging = "torn"]
      [] s.pc = "built" -> [s EXCEPT !.staging = "none"]
      [] OTHER -> s

WipesNothing(r) ==
    /\ \A b \in Builds : bytes[b] = "none"
    /\ \A s \in Replicas \ {r} : rep[s].pc \notin {"building", "built"}

BuildBegin(r, j) ==
    /\ rep[r].pc = "idle" /\ started < MaxBuilds
    /\ started' = started + 1
    /\ LET fresh == [pc |-> "building", job |-> j, staging |-> "whole"] IN
       \/ /\ Warm(j)
          /\ Become(r, fresh)
          /\ UNCHANGED <<bytes, budget>>
       \/ /\ IF WipesNothing(r) THEN UNCHANGED budget ELSE Spend("clean")
          /\ bytes' = [b \in Builds |-> "none"]
          /\ rep' = [s \in Replicas |-> IF s = r THEN fresh ELSE Wiped(rep[s])]
    /\ UNCHANGED <<tables, op>>

BuildEnd(r) ==
    /\ rep[r].pc = "building"
    /\ Goto(r, "built")
    /\ UNCHANGED <<tables, bytes, op, started, budget>>

Id(r) == BuildOf[rep[r].job.content]

(* settle: a bundle already there, whole or not, is the one used.  With the *)
(* staging directory gone both branches fail, and so does the job.          *)
Settle(r) ==
    LET b == Id(r) IN
    /\ rep[r].pc = "built"
    /\ CASE rep[r].staging = "none" -> Become(r, Idle) /\ UNCHANGED bytes
         [] rep[r].staging # "none" /\ bytes[b] # "none" -> Goto(r, "settled") /\ UNCHANGED bytes
         [] OTHER ->
              /\ bytes' = [bytes EXCEPT ![b] =
                   IF rep[r].staging = "torn" THEN "torn" ELSE rep[r].job.content]
              /\ Goto(r, "settled")
    /\ UNCHANGED <<tables, op, started, budget>>

Put(r) ==
    /\ rep[r].pc = "settled"
    /\ Upsert(Id(r), rep[r].job.env)
    /\ Goto(r, "recorded")
    /\ UNCHANGED <<pointer, history, finished, bytes, op, started, budget>>

(* The pointer moves, if it does, and the job is done; a pointer that could *)
(* not be moved fails the job.                                              *)
Finish(r) ==
    LET j == rep[r].job  b == Id(r) IN
    /\ rep[r].pc = "recorded"
    /\ IF Deploys(j) THEN Point(j.env, b) ELSE UNCHANGED <<pointer, history>>
    /\ finished' = finished \cup {<<b, j.env>>}
    /\ Become(r, Idle)
    /\ UNCHANGED <<build, bytes, op, started, budget>>

PointRefused(r) ==
    /\ rep[r].pc = "recorded"
    /\ Deploys(rep[r].job) /\ ~Stored(Id(r))
    /\ Become(r, Idle)
    /\ UNCHANGED <<tables, bytes, op, started, budget>>

-----------------------------------------------------------------------------
(* The retention sweep: for every environment ever deployed, list its       *)
(* builds, read every pointer, and then, newest first, remove the bytes and *)
(* delete the row of each build that has expired.                           *)

(* Slip: the count is taken before the builds in use are left out.          *)
ExpiredByCount(listed, kept, keep) ==
    {b \in Builds : /\ listed[b] > 0
                    /\ Cardinality({c \in Builds : listed[c] > listed[b]}) >= keep}

Expired(listed, kept, keep) ==
    {b \in Builds : /\ listed[b] > 0 /\ b \notin kept
                    /\ Cardinality({c \in Builds \ kept : listed[c] > listed[b]}) >= keep}

SweepBegin(r) ==
    /\ rep[r].pc = "idle"
    /\ LET todo == {e \in Envs : Current(e) # NoBuild} IN
       /\ todo # {}
       /\ Become(r, [pc |-> "list", todo |-> todo, env |-> Preview,
                     listed |-> [b \in Builds |-> 0], kept |-> {}, doomed |-> {}])
    /\ UNCHANGED <<tables, bytes, op, started, budget>>

SweepList(r) ==
    /\ rep[r].pc = "list"
    /\ \E e \in rep[r].todo :
         Become(r, [pc |-> "refs", todo |-> rep[r].todo \ {e}, env |-> e, kept |-> {},
                    listed |-> [b \in Builds |-> IF build[b].env = e THEN build[b].created ELSE 0],
                    doomed |-> {}])
    /\ UNCHANGED <<tables, bytes, op, started, budget>>

(* Retention::referenced.                                                   *)
Referenced == {Current(e) : e \in Envs} \cap Builds

SweepRefs(r) ==
    LET kept == Referenced IN
    /\ rep[r].pc = "refs"
    /\ Become(r, [rep[r] EXCEPT !.pc = "remove", !.kept = kept,
                    !.doomed = Expired(rep[r].listed, kept, Keep[rep[r].env])])
    /\ UNCHANGED <<tables, bytes, op, started, budget>>

IsNext(r, b) ==
    b \in rep[r].doomed /\ \A c \in rep[r].doomed : rep[r].listed[c] <= rep[r].listed[b]

(* remove_dir_all, from its first file: a directory already gone is the     *)
(* desired state.                                                           *)
RemoveBytes(r) ==
    /\ rep[r].pc = "remove"
    /\ \E b \in Builds :
         /\ IsNext(r, b)
         /\ IF bytes[b] = "none" THEN UNCHANGED bytes /\ Goto(r, "delete")
            ELSE bytes' = [bytes EXCEPT ![b] = "partial"] /\ Goto(r, "removing")
    /\ UNCHANGED <<tables, op, started, budget>>

(* ... to the directory itself.  A new bundle put in its place meanwhile is *)
(* not removed: the error ends the sweep.                                   *)
RemoveRest(r) ==
    /\ rep[r].pc = "removing"
    /\ \E b \in Builds :
         /\ IsNext(r, b)
         /\ IF bytes[b] \in {"partial", "none"}
            THEN bytes' = [bytes EXCEPT ![b] = "none"] /\ Goto(r, "delete")
            ELSE UNCHANGED bytes /\ Become(r, Idle)
    /\ UNCHANGED <<tables, op, started, budget>>

(* A refused delete fails the sweep.                                        *)
DeleteRecord(r) ==
    /\ rep[r].pc = "delete"
    /\ \E b \in Builds :
         /\ IsNext(r, b)
         /\ Delete(b)
         /\ IF \E e \in Envs : Current(e) = b THEN Become(r, Idle)
            ELSE Become(r, [rep[r] EXCEPT !.pc = "remove", !.doomed = @ \ {b}])
    /\ UNCHANGED <<pointer, finished, bytes, op, started, budget>>

SweepNext(r) ==
    /\ rep[r].pc = "remove" /\ rep[r].doomed = {}
    /\ IF rep[r].todo = {} THEN Become(r, Idle) ELSE Goto(r, "list")
    /\ UNCHANGED <<tables, bytes, op, started, budget>>

-----------------------------------------------------------------------------
(* The handler ends early: the build reports errors, a statement or a call  *)
(* on the file system fails, or the process dies.                           *)
Abandon(r) ==
    /\ rep[r].pc # "idle"
    /\ Spend("crash")
    /\ Become(r, Idle)
    /\ UNCHANGED <<tables, bytes, op, started>>

(* Requests: what Rollback::to or ::latest decides on, ...                  *)
Retained(e) == {b \in history[e] : Stored(b)}

RollbackTo(o, e, b) ==
    /\ op[o].pc = "idle"
    /\ b \in Retained(e)
    /\ Spend("rollback")
    /\ op' = [op EXCEPT ![o] = [pc |-> "decided", env |-> e, build |-> b]]
    /\ UNCHANGED <<tables, bytes, rep, started>>

LatestFor(e, b) ==
    /\ Stored(b) /\ build[b].env = e
    /\ \A c \in Builds : build[c].env = e => build[c].created <= build[b].created

ReturnToLatest(o, e) ==
    /\ op[o].pc = "idle"
    /\ \E b \in Builds :
         /\ LatestFor(e, b) /\ Current(e) # b
         /\ op' = [op EXCEPT ![o] = [pc |-> "decided", env |-> e, build |-> b]]
    /\ Spend("rollback")
    /\ UNCHANGED <<tables, bytes, rep, started>>

(* ... and the pointer that moves then, if the build is still there.        *)
Switch(o) ==
    /\ op[o].pc = "decided"
    /\ IF Stored(op[o].build) THEN Point(op[o].env, op[o].build)
       ELSE UNCHANGED <<pointer, history>>
    /\ op' = [op EXCEPT ![o] = Idle]
    /\ UNCHANGED <<build, finished, bytes, rep, started, budget>>

(* POST builds/{id}/deploy.                                                 *)
Activate(b, e) ==
    /\ <<b, e>> \in finished
    /\ Spend("activate")
    /\ Point(e, b)
    /\ UNCHANGED <<build, finished, bytes, rep, op, started>>

-----------------------------------------------------------------------------
Init ==
    /\ build = [b \in Builds |-> [created |-> 0, env |-> Preview]]
    /\ pointer = [e \in Envs |-> NoBuild]
    /\ history = [e \in Envs |-> {}]
    /\ finished = {}
    /\ bytes = [b \in Builds |-> "none"]
    /\ rep = [r \in Replicas |-> Idle]
    /\ op = [o \in Operators |-> Idle]
    /\ started = 0
    /\ budget = MaxDisturbances

Deploy(r) == BuildEnd(r) \/ Settle(r) \/ Put(r) \/ Finish(r) \/ PointRefused(r)

Sweep(r) ==
    \/ SweepList(r) \/ SweepRefs(r) \/ SweepNext(r)
    \/ RemoveBytes(r) \/ RemoveRest(r) \/ DeleteRecord(r)

Next ==
    \/ \E r \in Replicas :
         \/ \E j \in Jobs : BuildBegin(r, j)
         \/ Deploy(r) \/ SweepBegin(r) \/ Sweep(r) \/ Abandon(r)
    \/ \E o \in Operators :
         \/ \E e \in Envs : ReturnToLatest(o, e) \/ \E b \in Builds : RollbackTo(o, e, b)
         \/ Switch(o)
    \/ \E b \in Builds, e \in Envs : Activate(b, e)

Spec == Init /\ [][Next]_vars

(* Handlers and requests run to their end, and every day enqueues a sweep   *)
(* that some idle replica claims.                                           *)
Fairness ==
    /\ \A r \in Replicas : WF_vars(Deploy(r)) /\ WF_vars(Sweep(r)) /\ WF_vars(SweepBegin(r))
    /\ \A o \in Operators : WF_vars(Switch(o))

FairSpec == Spec /\ Fairness

-----------------------------------------------------------------------------
TypeOK ==
    /\ build \in [Builds -> [created : Nat, env : Envs]]
    /\ pointer \in [Envs -> Builds \cup {NoBuild}]
    /\ history \in [Envs -> SUBSET Builds]
    /\ finished \in SUBSET (Builds \X Envs)
    /\ bytes \in [Builds -> Bytes]
    /\ rep \in [Replicas -> {Idle} \cup Building \cup Sweeping]
    /\ op \in [Operators -> {Idle} \cup [pc : {"decided"}, env : Envs, build : Builds]]
    /\ started \in Nat /\ budget \in Nat

(* What an environment serves is a build with a row, and is among the       *)
(* builds the environment may be rolled back to: neither a sweep, nor a     *)
(* rollback decided before it, nor a deploy beside it, takes it away.       *)
ServedIsRetained ==
    \A e \in Envs : Current(e) # NoBuild => Current(e) \in Retained(e)

RecordsSafe == TypeOK /\ ServedIsRetained

(* GIT-23 and GIT-41 as the files state them, retention.rs:3 "a build an    *)
(* environment points at is never removed, however old it is": the bundle   *)
(* every environment serves is there, and is one build's whole output.      *)
ServedHasBytes ==
    \A e \in Envs : Current(e) # NoBuild => bytes[Current(e)] \in Contents

(* The same, as far as one replica without rollbacks keeps to it: the sweep *)
(* has neither removed nor begun to remove what an environment serves, and  *)
(* a served bundle that is not whole is one a sweep was cut short in before *)
(* it was served, which a later build of the same content settled on        *)
(* (worker.rs:162).                                                         *)
ServedIsKept ==
    \A e \in Envs : Current(e) # NoBuild =>
      /\ \A r \in Replicas : rep[r].pc = "removing" => ~IsNext(r, Current(e))
      /\ \/ bytes[Current(e)] \in Contents
         \/ bytes[Current(e)] = "partial" /\ budget < MaxDisturbances

(* Does not hold (README, other departures).                                *)
(* worker.rs:138 "a rollback is a pointer change because bundles are        *)
(* immutable and content-addressed": nothing but the retention sweep        *)
(* changes a bundle that is there.                                          *)
BundlesImmutable ==
    [][\A b \in Builds : bytes[b] # "none" /\ bytes'[b] # bytes[b] =>
         \E r \in Replicas : RemoveBytes(r) \/ RemoveRest(r)]_vars

(* "everything else past the policy's count goes" (retention.rs:5): a build *)
(* past the count of its environment that nothing points at does not stay   *)
(* so, in an environment that deploys.                                      *)
ExpiredNow(e) ==
    Expired([b \in Builds |-> IF build[b].env = e THEN build[b].created ELSE 0],
            Referenced, Keep[e])
DeployedExpire ==
    \A e \in Envs \ {Preview}, b \in Builds : b \in ExpiredNow(e) ~> b \notin ExpiredNow(e)
=============================================================================
