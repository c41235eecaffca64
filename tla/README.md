# Liyasa: a TLA+ verification of its server's core and its writing agent

Liyasa is a documentation platform: a static-site compiler, a server that builds
and serves the sites and runs background work over a SQLite store, and the tools
around them. This directory holds TLA+ models of the parts whose behaviour
depends on order, time, concurrency and failure, the TLC configurations that
check them, and TLAPS proofs of what matters most.

Source lines are given as `file:line`; `jobs.rs` is
`crates/liyasa-store/src/jobs.rs`, `repos.rs` and `ingest.rs` are beside it,
`work.rs`, `serve.rs`, `mod.rs` and `webhooks.rs` are in `crates/liyasa-server/src/routes/`,
`queue.rs`, `worker.rs`, `retention.rs`, `rollback.rs`, `hooks.rs` in
`crates/liyasa-server/src/deploy/`, `pool.rs` in `crates/liyasa-build/src/`, and
`run.rs`, `dispatch.rs`, `record.rs`, `gates.rs`, `proposal.rs` in
`crates/liyasa-agent/src/`.

## 1. Inventory

| Component | State it keeps | Operations | Interacts with | What is hard | What makes it correct |
|---|---|---|---|---|---|
| Job table (`liyasa-store/jobs.rs`, migration 0001) | table `job`: state, run_at, lease, attempts, worker, version; a unique index on live keys | enqueue, claim, heartbeat, complete, fail, cancel, retry, release, delete | every component that does work later | claim is a select and an update; leases lapse; writes arrive late | one winner per claim, one live row per key, lease columns match the state |
| Worker loop (`work.rs`, `serve.rs`) | the job under way, its heartbeat task | claim, run, settle, fire timers, drain | job table; every handler | replicas race, stall, crash, drain; last statement lost | a job is taken only from a replica that is stuck or could not renew, is settled in the end, is not starved |
| Build queue (`queue.rs`, `hooks.rs`) | none of its own: reads and writes job rows | submit (supersede), pending, order, next | Git webhooks, dashboard, worker loop | read, cancel and enqueue are separate statements; cap read before write | newest commit queued, cap held, fair order |
| Deploy worker, retention, rollback (`worker.rs`, `retention.rs`, `rollback.rs`, `routes.rs`; `repos.rs` Builds, Deployments) | tables build, deployment, deployment_history; bundle and staging directories | build, settle, put, point; sweep; rollback, return to latest, activate | build engine, job table, operators | files and rows change in separate steps, on several replicas | what is served has its row and its bytes and can be rolled back to |
| Rest of deploy (clone, environment, hosts, preview, untrusted, service) | mappings in memory, clones on disk | resolve, clone, gate previews | Git, build queue | little state | the right environment for a branch |
| Repositories of the control store (`repos.rs`) | organization, project, member, webhook tables | single statements, some transactions | routes | webhook attempts are unguarded | see outgoing webhooks |
| Ingest queue (`ingest.rs`) | a bounded buffer with three lanes, counters, a pressure window | push, drain, flush, spill | every request handler; analytics tables | full buffer, failed transaction, counters across threads | every event kept once or counted as dropped |
| Store base (`db.rs`, `backup.rs`) | database files, applied migrations | open, migrate, export, restore | every replica at start | replicas migrate at once | each migration once |
| Outgoing webhooks (`webhooks.rs`) | deliveries, subscriptions | queue, deliver due, record attempt | events, job timers, HTTP | two replicas deliver; retries | at least once, bounded attempts, none stuck |
| Incoming Git webhooks (`liyasa-git`) | replay cache, provider clients | verify, parse, clone | build queue | remembered before queued | a delivery leads to at most one build, and a refused one can be repeated |
| Render pool (`liyasa-build/src/pool.rs`) | depth, one-shot slots, wakers | submit, run, fill, poll | server rendering | wakeups across threads | every accepted request is answered, depth under its bound |
| Build engine (`liyasa-build`) | artifact cache, output tree | build, watch, image work | deploy worker, CLI | cache keys, clean builds | the same input gives the same bundle |
| Authentication (`auth/`) | sessions, tokens, magic links, OIDC flows, JWKS cache, variant LRU, in memory | issue, consume, revoke, refresh | every route | read under one lock, change under another | single use, revoked means revoked, keys found when present |
| Organizations (`org/`) | credit ledger, meters, audit log, roles, SLO | charge, roll over, append, alert | AI, agent, dashboard | period boundaries | no charge past the pool, an unbroken audit chain |
| MCP server (`mcp/`) | none | protocol over bundles | bundle reader | none | answers what the bundle holds |
| HTTP routes, limiter, assistant endpoints | limiter windows, idempotency rows | serve, limit, replay | all | window boundaries, repeated writes | one effect per idempotency key |
| AI (`liyasa-ai`) | vector index, checkpoints | chunk, embed, swap, ask | deploy (post-deploy job) | resume after a crash, rate limits | every chunk embedded before the swap |
| Writing agent (`liyasa-agent`) | one run's record, working copy, findings; then a proposal with its decisions | enter, turn, authorise, write, delete, validate, publish; decide, address, split | Git, AI, credits | a model that calls what it likes in any order; trust that changes during a run; a review that goes on after follow-ups and splits | what no person read came of trusted inputs, nothing leaves the trigger's scope or the budget, an acceptance is of the text that was up |
| Verification and drift (`liyasa-verify`) | drift records, review states | check, record, review | build, Git | repeated runs | a resolved drift stays resolved until its source moves |
| Search (`liyasa-search`) | index files and statistics beside them | index, remove, query | build, server | statistics kept apart | statistics equal the index |
| Analytics reports (`liyasa-analytics`) | none (queries) | reports | ingest tables | none | arithmetic |
| Markdown, components (`liyasa-markdown`, `liyasa-components`) | none | parse, check, render | build, editor, LSP | data only | corpus tests |
| Config, core, theme, net | none | parse, types, CSS, host policy | all | data only | schemas |
| OpenAPI, import | none | translate documents | build, CLI | data only | fixtures |
| CLI, LSP | open documents | front ends | build, compiler | little | the engine's answers |
| Browser code (`web/`, `liyasa-wasm`) | page state | reader, dashboard, editor | HTTP API | outside the server | end-to-end tests |
| Schema, migrations, tests, benches, xtask, docs | - | - | - | - | read as statements of intent |

How the modelled parts interact: a webhook, a request or a timer **enqueues** a
row; every replica's **worker loop** claims rows through the optimistic
select-and-update, runs a handler and settles the row; `deploy.build` rows come
from the **build queue**'s submit, which reads and cancels rows of the same
table; the `deploy.build` handler and the retention sweep change **builds,
pointers and bundles**, beside operators who roll back over HTTP. All shared
state is in SQLite (statements and transactions are atomic) and on the file
system (calls are not part of any transaction).

The hazards of this code, line by line, are in `PROJECT.json`; they are what the
properties were chosen for.

## 2. Plan

Order of the modules, most important behaviour first:

1. `JobTable`: the table, one action per statement. *Done, proved.*
2. `JobWorker` over `JobTable`: the loop, statement by statement; implements it. *Done, proved for safety.*
3. `BuildOrder` and `DeployQueue` over `JobTable`: order and next, and submit. *Done, proved.*
4. `Deployments`: handler, sweep, rollback. *Done, proved for the records and for one replica.*
5. `IngestQueue`: buffer, flush, drop counters, pressure window; implements `LossySink`. *Done, safety proved but for the refinement.*
6. `WebhookDelivery`: due, attempts, failure counter; with two replicas and a crash. *Done, partly proved.*
7. `RenderPool`: depth, slot and waker, dropped requests; implements `OneShot`. *Done, proved but for liveness.*
8. `AgentGates` and `AgentRun`: a run and the review of its proposal. *Done, proved.*
9. *Left:* `GitWebhook` over `DeployQueue` (replay cache, refused and redelivered pushes, order of deliveries). A direct composition multiplies the queue's states by the cache's and by every order of deliveries; it needs an abstraction of the queue (the set of live commits, one per branch) first.
10. *Left:* smaller modules: JWKS cache and magic links, credit ledger, rate limiter and idempotency rows, audit chain, drift review, reindex with checkpoints, artifact cache, search statistics, concurrent migration.

Abstract specifications: the atomic job table under the loop, `LossySink` under
`IngestQueue`, `OneShot` under `RenderPool` (done); a register of "what each
environment serves" under `Deployments` (left: it holds in one replica only).

Runs: at most one per question, two or three actors, the shortest ladder and
lease that distinguish before, at and after a limit. Theorems: every invariant
and action property the passing runs check is proved, but those that rest on
fairness (section 5). Next: `NewestHasItsRow` under the assumptions that make it
true, and the theorems of the modules that are left.

## 3. Modules and the code

### JobTable
`row` is the table, one record per id. An action is one SQL statement:
`Enqueue` (insert, or Duplicate under the partial unique index `job_live_key`),
`Claim`, `Heartbeat`, `Complete`, `Bury` and `Requeue` (the two writes of
`fail`), `Cancel`, `Retry`, `ReleaseOne`, `Release`, `Delete`; `Elapse` is the
clock. Helpers named for what a statement writes (`Leased`, `Finished`,
`Requeued`, `Retried`, `Released`, `Renewed`) return the new row. Time is
relative: `wait` is `run_at - now`, `left` is `lease_until - now`, both cut off
where nothing can tell values apart, so time is unbounded and the state is not.
`Candidate` is the ORDER BY of the claim.

### JobWorker
`wk[w]` is one replica: `idle`, `picked` (after the SELECT of
`claim_runnable`), `run` (handler and heartbeat task), `failing` (between
`fail`'s read and its write). `Select`, `Win` or `Lose`, `Beat`, `Succeed`,
`FailRead`, `FailWrite` are the loop; `FireTimers`, `CancelJob`, `RetryJob`,
`Drain` the others who write; `BeatLost`, `WriteLost`, `Crash`, `Stall` what
happens from outside, limited by `MaxDisturbances`. `Beat` is a renewal that ran
(a row no longer leased, or lapsed, ends the task); `BeatLost` is one that failed,
for whatever reason: it ends the task too (`work.rs:276`), and the replica is
`mute` while its handler goes on. `WriteLost` is the failure of any other
statement of the pass. `Tick` lets time pass once every
statement due has run, except those of a stalled replica: that is what separates
"the replica is alive" from "the replica is stuck", and nothing else bounds the
delay between a select and its update within a tick.

### BuildOrder and DeployQueue
`BuildOrder` holds `queue.rs`'s pure `order` and `next` (`Lane`, `Turns`,
`Rounds`, `Order`, `ToStart`) and, apart from them, the rule as a relation
(`Outranks`, `IsRanked`). A `sort_by_key` of distinct keys is `InOrder`, which
puts an element behind as many as come before it. `DeployQueue` takes `submit` apart: `ListQueued` and
`ListLeased` are the two statements of `live`, `CancelOld` the cancel whose `?`
may end the submit, `EnqueueNew` the insert, and `FetchExisting` the select after an insert that found
the key taken: its row is answered as queued, and if there is none any more the
submit ends with an error. A commit is the number of the push. `since` is a
history: the rows of its key that came into the queue while a submit was under
way. `Start`, `Succeed`, `Fail`, `Tick`
are the worker loops with `JobTable`'s statements.

### Deployments
One action per statement, transaction or file-system call of one project:
`BuildBegin` .. `Settle`, `Put`, `Finish` are `run_build`; `SweepBegin`,
`SweepList`, `SweepRefs`, `RemoveBytes`, `RemoveRest`, `DeleteRecord`, `SweepNext` the sweep;
`RollbackTo`, `ReturnToLatest` then `Switch` an operator's request in its two
halves; `Activate` the deploy of a finished build; `Abandon` any early end,
crashes included. `bytes[b]` is what the directory of a bundle holds: nothing,
a content, a torn tree (what a build wrote around a clean build), or part of a
tree. `remove_dir_all` is many calls, any of which may be the last: `RemoveBytes`
begins it and `RemoveRest` ends it, and `Abandon` may come in between. `Warm` and `WipesNothing` keep the fact that a build
without a cache source is clean and removes the directory the bundles are in.

### LossySink and IngestQueue
`LossySink` is the promise of `ingest.rs`'s header: each event has one `fate`
(waiting, taken, kept, dropped, failed), and one is dropped only from a full
buffer and for want of anything of a lower class. `IngestQueue` is the code:
`buf` the three lanes under the buffer's lock, `drops` the atomic counters of
the metrics, `wr` the one writer. `Push` takes an event in, evicts the oldest of
the lowest class or refuses; the writer looks at the depth (pressure, spilling),
drains a batch, writes a segment when the sink says so, swaps each class's
counter out, records it, puts it back, and commits; `SeeStop` is the shutdown
signal, after which it drains once more and is gone. Segment and statement
failures are limited by `MaxFailures`. `Sink` is the refinement mapping: what an
event's place in lanes, batch and tables makes of its fate.

### WebhookDelivery
`sub` and `delivery` are the two tables, `task[e]` the task that queues an
event's deliveries one insert at a time (`Insert`, which the foreign key may
refuse; `QueueFails` is any other error of its statements, or the end of the
process, after which nothing queues the event again), `pass[r]` what the worker of a replica
has read and is at. A pass reads the due rows, takes them one by one (skipping
those whose subscription is gone), posts, and records the attempt by the row's
id: `Attempt` adds one in the table, and the status and next time come from
`retry_or_fail` of the row *as it was read*; failures in a row pause the
subscription. `Unsubscribe` comes at any time, `CutShort` ends a pass anywhere, a
request and its record included.
`posts` and `forgotten` are histories.

### OneShot and RenderPool
`OneShot` is a future: refused at once, or pending until it is resolved once or
dropped. `RenderPool` is `pool.rs`, one action per critical section: `submit`
counts in or refuses; a thread starts a task, counts it out, fills the slot,
takes the waker and wakes; `poll` locks the value, stores its waker and unlocks,
and either runs again when woken, or, for a caller in `block_on`, parks.

### AgentGates and AgentRun
`AgentGates` holds the pure parts: trust of inputs, scope, the diff and its
gates (size, deletions, scope, access, secrets, links, phrases) and `policy.rs`'s
choice of an outcome. `AgentRun` is the run: `Enter` a phase, `WriteTurn` the
model's turn, `Authorise` a call with its refusals (served or recorded as
refused), `RecordResult` with the flag of external content, `WritePage`,
`Delete`, `Validate`, `PublishRun`; then the proposal: `Decide`, `Address` and
`Split`. Model and caller may call anything in any order: a result is recorded
and a file deleted without an authorised call, a page the run added included.
The text a deletion gives as the one before it is the caller's word, and taken to
be the site's. A text is a set of lines and a line is what a gate finds in it.

## 4. Runs

| Run | Asks | Instance | Result |
|---|---|---|---|
| `job_table` | do all orders of statements keep types, the lease columns, one live row per key, and does a runnable row stay runnable while its version does not move (the fact select-then-update rests on)? | 2 ids, 2 keys, 2 workers, first 3 writes of each row | holds |
| `worker_safety` | are claims exclusive, is a job stolen only from a replica that stalled or failed to renew, does the loop implement the atomic table? | 2 replicas, 2 jobs, any 2 of crash, stall, failed statement, cancel, retry, drain | holds (749k states) |
| `worker_liveness` | does every handled job settle with an unhandled one above it and one crash, lost statement or drain? | 1 replica, 3 jobs, fair | holds |
| `queue_cap` | by how much can the queue pass its cap, and what does a submit answered with a job id name? | 2 overlapping submits, 1 worker, 4 branches, cap 1, a failing build | by no more than the other submits and the workers (the bound is reached); its own commit, or a row that came into the queue while it ran |
| `queue_requests` | do `order` and `next` rank every queue that comes about as their rule says? | 1 submit at a time, 2 workers, 2 projects with 2 branches each, a preview among them | holds |
| `deploy_records` | does what an environment serves always have its row and stay among its rollback targets? | 2 replicas, 3 environments, an operator, 2 disturbances | holds (724k states) |
| `deploy_serial` | with one replica and no operator, does a sweep leave what is served alone through crashes, its own removal's middle included, and do expired builds go? | 3 contents, 5 builds, 2 crashes, fair | holds |
| `deploy_race` | is a served bundle never removed (`retention.rs:3`) beside a rollback? | 1 replica, an operator | no |
| `ingest` | does every event have one fate in the order of the classes, are the drop counters true while a flush carries them, is the raw record of a counted event kept, and does a shutdown leave nothing? | 5 events of 3 classes, capacity 2, batches of 1, a failure, sink `auto` | holds |
| `webhooks` | are a delivery's attempts counted and bounded with two replicas that claim nothing and a pass cut short, does each come to an end, is anyone left without one and no error? | 2 subscriptions, 1 event, 2 replicas, 2 attempts | holds (684k states) |
| `render_pool` | is the depth the number of tasks, does no waker come too late, is the pool a future that resolves? | 3 callers, one of them blocking, 2 threads, queue 2 | holds |
| `agent` | does what merges unread come of trusted inputs alone, does nothing leave the trigger's pages or the budget, is an acceptance of the text that was up? | 3 files, a trusted and an untrusted start, 2 calls served, 1 follow-up and a split | holds (672k states) |

The one "no" is a finding, with the statement it contradicts, in
`PROJECT.json`: a sweep removes the bytes of a build a rollback has just pointed
at, because it read the pointers before.

Other departures the models reach, without a run of their own. Where a module
states the sentence as a definition, its name is given: it does not hold.

Jobs and builds: one failed renewal (a locked database) ends the heartbeat of a
handler that goes on, so its lease lapses and another replica takes the job
(`work.rs:276` against `work.rs:267`, `JobWorker!NeverStolenAlive`);
a late unguarded `finish` overwrites a cancel (`jobs.rs:385`
against `jobs.rs:402`, `JobWorker!CancelledStays`); a timer bucket whose job is
done is queued again at the next pass (`work.rs:328` against `work.rs:314`,
`JobWorker!OneRowPerBucket`); a build that finishes between submit's read and its
cancel ends the submit with the newer commit unqueued (`queue.rs:543` against
`queue.rs:522-527`, `DeployQueue!NewestHasItsRow`); a clean build removes every
bundle (`worker.rs:117`, `engine/mod.rs:295` against `worker.rs:138`,
`Deployments!BundlesImmutable`); a stalled
worker's heartbeat renews another's lease (`jobs.rs:329`, against the sentence
at `jobs.rs:323`); `fail` buries a freshly retried row (`jobs.rs:356`); a submit may
be answered with the row of another push, which a concurrent submit queued or a
failed build gave back after it had read the queue, and its own commit is not
queued (`queue.rs:548` against `queue.rs:220`, `DeployQueue!AnsweredIsItsOwn`); a late delivery of an older push supersedes the newer one
(`queue.rs:531`); a leased build that was superseded and fails late is queued
again; workers claim by priority and age, so neither the dashboard's order nor
`concurrencyPerProject` binds them (`work.rs:239`, `queue.rs:10`,
`docs/reference/config/server.md:15`); a clean build elsewhere tears a staging
directory that is then settled (`worker.rs:224`); assets are not part of the
build id (`worker.rs:162`); preview bundles are never swept, because the sweep
loops over deployed environments (`retention.rs:268`); a sweep that dies inside
`remove_dir_all` leaves part of a bundle, and a later build of the same content
takes what is there for the bundle and serves it (`retention.rs:68` and
`worker.rs:162` against `retention.rs:3`; one replica and one crash are enough, so
`Deployments!ServedHasBytes` fails without a rollback too); one that dies between
bytes and row leaves a rollback target without a bundle (`retention.rs:185`);
`Builds::put` overwrites `env`, so an environment may be told it has never been
deployed (`repos.rs:235`); a push the full queue refused is remembered by the
replay cache, so the provider's redelivery is refused too (`hooks.rs:67`; read,
not modelled).

Ingest: `ingest_drops` is given the running total at every flush, so its sum
exceeds what was dropped (`ingest.rs:338-351` against `ingest.rs:9`,
`IngestQueue!TableCountsDrops`); what is pushed between the last drain and the
end of the process is neither stored nor counted, since requests and the writer
see the same signal (`serve.rs:172-184`); the counter of a failed statement is
lost with it.

Webhooks: the first insert that fails, because its subscription was removed
meanwhile or the database is busy, ends the queueing for the subscriptions after
it, and the caller only logs it (`repos.rs:954` and `mod.rs:492` against
`repos.rs:908`, `WebhookDelivery!EachSubscriberQueued`); two replicas, or one that crashed, post
the same attempt under one `X-Liyasa-Delivery` id (`webhooks.rs:59`); the last
rung of the ladder is never waited for (`webhooks.rs:30`); a paused
subscription's queued deliveries go on; a late record reopens a delivery that was
closed.

Ingest, not stated as a property: `ingest.rs:7` has drops begin only when the
spill sink is unavailable; `LossySink` asks a full buffer and the order of the
classes, and nothing of the sink.

Agent: `publish` takes a token that is a copy and not tied to a diff, so a write
after `validate` is published unvalidated (`run.rs:146-153`,
`AgentRun!PublishedIsValidated`); a turn's tokens are counted and not checked when
it is recorded (`record.rs:406`); a split after a follow-up drops the follow-up
and keeps its acceptance (`proposal.rs:428`, the `cut` of `AcceptedAsSeen`); each
follow-up is gated alone, so the proposal's files may pass the limit; `address`
trusts its caller that the report it is given is of the follow-up's own diff
(`proposal.rs:368` says so, nothing checks it): `Address` assumes it, and the
follow-up half of `ProposalsAreGated` rests on it; `record_mut` is public, so a caller can put a result
on the record without `record_result` and the flag it sets (`run.rs:287`): not
modelled, and `ReviewedUnlessTrusted` assumes no such call; a write over
a deletion stays a deletion by kind; the branches of parts for `/a-b` and `/a/b`
have one name.

### Bounds and why they are enough
- Two replicas show every race for one row: a third adds no new overlap of a
  select, an update and a lapse. The lease is 3 ticks so that the heartbeat
  period (a third of it) has a before, an at and an after; the ladder has two
  rungs, so its last one is used twice; two attempts give a failure that requeues
  and one that buries.
- `job_table` looks at the first `MaxVersion` writes of each row (the history is
  unbounded); the proofs remove that bound.
- In the queue runs, `MaxPushes` is the number of ids. `queue_cap` uses
  one project's branches under symmetry, with two submits and a failing build, the
  shortest instance in which a submit meets a row it has not read;
  `queue_requests` has two projects and two classes so that turns, rounds and
  limits differ: what they ask of a queue does not depend on how many submits
  filled it.
- In the deploy runs three contents give a served, a retained and an expired
  build at a count of one (the default policy keeps more; previews have a count
  of zero here so that "kept" and "referenced" differ at once).
- Deadlock checking is off where a run ends legitimately: every push made, every
  build started. It is on for the job table and the workers, where the clock
  always ticks.
- In `ingest` a buffer of two and five events of three classes fill it twice over,
  evict from a lower class and refuse; one event a batch makes a flush of several
  batches; pressure is at capacity.
- In `webhooks` two attempts over a ladder of one rung have a retry and a giving
  up, two replicas a stale row, two subscriptions a removal before the one being
  queued. The 32 rows of a pass and the ladder's other rungs are not told apart.
- In `render_pool` three callers over a queue of two have one refused, and two
  threads a fill beside a poll.
- In `agent` two pages (one named by the trigger) and a config file, with a secret
  and a link to a new host among the lines, reach every gate but those of the
  empty kinds; two changed
  lines and two files are the most a diff may have; a budget of two calls and one recorded past it reach the limit. A
  run by a member under the policy `direct` and one by an operator with an
  outsider's input have the outcomes decided and refused; `decide` under the other
  policies is left to the proofs.
- `DeployQueue` has no operator retries and no lapsed leases (JobWorker has), and
  takes the worker's statements as whole actions, which `LoopImplementsTable`
  supports.

### Fairness
`JobWorker`: weak fairness of time, of each replica's statements, of the
heartbeat task and of a handler's return. The loop sleeps one TICK and wakes, for
ever, and its awaits on SQLite return or fail (a busy timeout bounds
them). That a handler returns is an assumption: `work.rs` sets no deadline on
one, it only keeps renewing the lease. No fairness is assumed of submits,
operators or disturbances.
`Deployments`: weak fairness of a started handler and sweep, of a decided
request, and of the daily sweep being claimed by an idle replica.
`IngestQueue`: weak fairness of the writer's task and of its seeing the signal;
none of pushes or of the signal itself.
`WebhookDelivery`: weak fairness of time and of each replica's passes (a
task wakes every ten seconds and the HTTP client has a timeout); none of receivers,
subscriptions or crashes.
`RenderPool`: weak fairness of a caller's await, and strong fairness of a task's
steps: filling needs the value's lock, which a caller that polls again and again
takes and leaves, but it leaves it free for all but the moment of a poll.
`AgentRun` states no liveness: the model may never call again.

## 5. Proofs

Proved for every value of the constants, under the named assumptions of the
modules (types of the constants, and that 0, which stands for no row, is not a
job id):

- `JobTableProofs!TableSafe`: `RowOK`, `LeaseMatchesState` and `OneLivePerKey`
  for the atomic table. `TableInv` is their conjunction and is inductive: each
  statement writes one row (`OneRowWritten`), the row it writes is sound (one
  lemma per statement), and the key stays unique because insert, requeue and
  retry are guarded by the index and the others never revive a row. `Elapse`
  writes every row (`EveryRowWritten`).
- `JobTableProofs!RunnableIsStable`: an action property: a runnable row whose
  version did not move is still runnable. Together with the version in the
  update's WHERE this is why the select may be stale.
- `JobWorkerProofs!WorkerTypeOK`, `ExclusiveClaims`, `LoopImplementsTable`. The
  claim invariant alone is not inductive: `WorkerInv` adds `TableInv` and what a
  replica knows of a row it read: the version it noted is not from the future,
  and while it is the row's version the row is still runnable (when picked) or
  leased in its name (when running). Every step is a step of `TableNext` or
  leaves the rows alone (`StepIsTableStep`), which gives the refinement and lets
  the lemmas about the table do the work for the other replicas (`AllFollow`).
- `DeploymentsProofs!TablesSafe`: `RecordsSafe` for any number of builds,
  environments, replicas and operators. `Point` requires the row (the foreign
  key) and adds to the history in one transaction; `Delete` leaves a build an
  environment points at; nothing else touches the three tables together.
- `DeploymentsProofs!SerialServes`: `ServedIsKept` under `Serial` (one
  replica, crashes only: no operator request, no activation, no clean build over
  existing bundles). `SerialInv` adds where the bytes are between two steps: the
  staging directory is whole, a settled or recorded build has its bytes but for a
  removal cut short (`Cut`, `Usable`), and what a sweep has doomed or is removing
  is not what is served, since one loop runs one handler at a time. That the bytes
  are whole as well cannot be proved: a removal cut short and a rebuild serve a
  partial bundle. `deploy_race` shows that the assumption is needed.
- `DeploymentsProofs!BundlesAreWhole` and `OnlyCleanBuildsOverwrite`, for any number
  of replicas, operators and crashes, under `KeepsBundles` (no clean build while
  there are bundles or builds): a bundle is absent, or partly removed, or the whole
  output of a content with that id, and nothing but the sweep changes it, so `BundlesImmutable`, which does
  not hold of the code, fails for no other reason than the clean builds.
  `WholeInv` adds that a staging directory is whole until it is moved.
- `JobTableProofs!RowsAreTyped`, `LeasesMatch`: the parts of `TableSafe` by name.
- `JobWorkerProofs!OverStaysOver`: `FinishedStays`. Its step lemma goes through
  the actions of `Next`: a claim needs a runnable row, and `Knows` says that a row
  at the version a replica noted is runnable or its own, so a handler that
  ends a job that is over has a claim older than the row.
- `JobWorkerProofs!HeartbeatHolds`: `NeverStolen`, for every lease and number of
  replicas. `FreshInv` adds to `WorkerInv` what a replica that keeps up, and none
  of whose renewals failed, knows of
  time: it claims in the tick of its select, so the lease it takes is a whole
  one, and while the row is at its version the lease has at least as long to
  go as its next heartbeat. A tick waits for what is due, so both count down
  together; a heartbeat is due after a third of a lease. A failed renewal ends
  this: `NeverStolen` then promises nothing.
- `DeployQueueProofs!QueueTypeOK`, `OneBuildPerBranch`: `QueueInv` joins
  `TableInv` with the types of submits and workers; submit's statements are the
  table's, so its lemmas carry over. `AnswersAreFresh`: `AnsweredIsQueued`, for any
  number of submits, workers and failing builds. `Known` says what a submit has
  read accounts for every row of its key that has been live since before it began
  (`Standing`): none escapes both lists, because the queued rows are read before
  the leased ones, and a key has one live row, which the cancel ends. What the
  insert then meets came in later.
- `DeployQueueProofs!CapIsKept`: `QueueSafe` for a finite, non-empty set of
  submits (none can queue anything otherwise) and a finite set of workers. The
  live rows alone do not carry the count, since a failed build comes back.
  `Counted` counts keys instead: those of live rows, of rows a handler holds and
  of submits about to insert, plus the submits that will still be let in by what
  they have listed (`Armed`). A listing leaves room for one (`RoomLeft`); a build
  that ends or comes back, and a supersede, stay within the keys counted.
- `DeployQueueProofs!OrderRanks`: for any finite set of builds, `Order` ranks
  them. `InOrderSorts`: the number of elements before one is injective into as
  many places, so it fills them. `FlattenRanked`: joining sorted
  sequences, each before the next, is sorted; the recursive sum inside
  `FlattenSeq` is reached by the least prefix that has none, or that fails
  (`LeastOf`, from the well-foundedness of < on the naturals). Then lane, turn,
  round, class in turn (`LaneHolds`, `TurnsFollowAge`, `RoundHolds`, `RoundsHold`).
  `PendingAreRanked` and `NextPicksBest` are `OrderIsRanked` and `NextIsRanked` of
  every state: what is pending is such a set (`Recorded`: finitely many rows
  are used, of known keys), and `Outranks` is asymmetric, so one build at most is best.
- `IngestProofs!BufferIsBounded`, `EveryDropCounted`, `EveryRawKept`,
  `ShutdownDrains`, from one invariant, `IngestInv`: a lane holds events of
  its class only, each once and none in two places or among the dropped; what a
  flush has swapped out of a counter is what it will put back; a batch that needs
  no raw row in the database has its segment; the last drain is begun after the
  signal only.
- `IngestProofs!QueueIsLossySink`: `SinkSpec`. The mapping `Fate` is a nested
  choice, so `FateInv` first says that an event is in one place only (`Placed`)
  and that a batch is held just from its drain to its commit; then each action
  is a step of `LossySink` (`PushFate`, `DrainFate`, `CommitFate`, `FailFate`) or
  a stutter (`QuietSteps`).
- `WebhookProofs!DeliveryTypeOK`, `RequestsAreCounted`, `NoneGivenUpEarly`:
  `HookInv` adds that what a pass has read is of a row that was there and no newer
  than the row is now, and that the rows a task still has to insert are not
  there. The requests in hand are a
  cardinality, so its lemmas add and remove one replica of a finite set.
  `NobodyLeftOutQuietly` (`QueuedOrReported`): subscriptions are taken in
  order, so those without a row are still to come or are past the insert that
  failed; the foreign key fails an insert only for a removed subscription.
  `TriesAreBounded` (`TriesBounded`): counting requests alone is not inductive,
  for replicas that have read the same row will each add one. `Tried` says it of a
  row whose attempts have run out: the requests made, and those the readings in
  hand may still lead to (`Credit`), stay below the ceiling. A fresh reading is
  worth one request; a stale one more, since its record may reopen the row for
  every other replica. A request or a record spends what the next state lacks.
- `RenderPoolProofs!PoolTypeOK`, `DepthNeverDrifts`, `NoLostWakeup`, `PoolIsFuture`: `PoolInv`
  ties each task's place to its slot and lock: a caller between its look and its
  waker holds the lock, so the slot is not filled; a parked one has its waker in the
  slot, a wake-up on the way, or its flag up. `PoolIsFuture` is the safety part of `FutureSpec`, step by step.
- `AgentProofs!AgentTypeOK`, `UnreviewedIsTrusted`, `ScopeIsKept`,
  `OnlyGatedIsProposed`, `BudgetIsKept`, `AcceptedWasSeen`, `ReviewIsSound`, from
  `AgentInv`: before publishing, the flag is set if a result
  of a third party is on record, and the working copy of an untrusted run holds
  text of the named pages only (deletions need not, which is why the gate's scope
  check is needed); after it, each proposal's decisions are of the text up, and
  the parts are disjoint and together the run's diff.

Only model-checked: liveness (`HandledJobsSettle`, `DeployedExpire`,
`BufferSettles`, `DeliveriesSettle`, and the fairness of `FutureSpec`), which is
out of the prover's reach. Recursion is proved about where a least
counterexample does; the library's `SortSeq` and `SelectSeq`, whose definitions the prover
cannot open, are avoided for that reason. `DeployQueue` does not imply
`TableSpec` step by step: its `Tick` is the table's `Elapse` and every heartbeat
at once. What carries over is `TableInv` (`RowStepKeepsTable`).

## 6. Not modelled, and why

In the modelled parts: payloads, results, error texts and logging (no property is
about them); clock skew between replicas (`now_ms` is one clock here, and the
store assumes it); paging of lists past 500 rows; the edge purge, embedding job,
status checks and webhook notices after a deploy (their failures are logged and
change none of these tables); authorization of requests; the remains a dead
process leaves in staging, which a retry removes first; the checkpoints and the
columns of ingest; a webhook's signature and filter; poisoned locks and the
histogram of the pool; what an agent's tools do outside the run, their schemas,
hosts and repositories (one input, `sound`, stands for whether a call passes
them), the areas of a config change and renames.

Whole components: the compiler, the build engine, search, OpenAPI, import,
configuration, theme and reports are functions of files without shared state,
and most of the repository's lines; a model of them would be a second
implementation of parsing and layout, which the corpus tests compare better.
So the map stays a small share of the repository: it covers the code where
order, time, concurrency and failure decide, and of that the parts of section 2
that are left (Git webhooks, authentication's caches, credits, limiter, audit,
drift, reindex, artifact cache, migrations) are what is missing.
