# Varroa: formal models of builds, locks, shards, webhooks, operations and events

TLA+ models of the protocols of Varroa in which several processes decide
together:

* the **build claim**, by which a Jenkins queue item gets the right to become a
  build;
* the **fleet lock**, by which pipelines of different tenants take turns;
* the **shard lease**, by which one operator replica at a time works on a shard;
* the **webhook outbox**, through which the ends of runs reach tenants' receivers;
* the **brood operation**, which runs a command on many controllers in waves;
* the **event path**, on which the events of a build reach the event stream.

TLC checks the models on small instances; TLAPS proves the main safety
properties for every instance.

Paths below are relative to the repository; `recordstore/` is
`internal/recordstore/`, and Java classes are those of
`plugin/src/main/java/org/jenkinsci/plugins/varroamiteauth/`.

## 1. Inventory

Varroa runs many Jenkins controllers ("cells") on Kubernetes. A build belongs to
a *tenant*, whose jobs live on the cell that is the job's *home*. Cells come and
go, so the durable record of every run is kept outside them, in Postgres.

| Part | State | Operations | Interacts with |
|---|---|---|---|
| Recorder, ledger (`recordstore/ledger*.go`, `claim_veto.go`) | `run_intents`, `job_numbers`, `runs`, `tenant_placements` | claim, start mark, veto | plugin, over mite, gateway and NATS |
| Recorder, ingest (`recordstore/ingest_*.go`) | `runs`, `run_intents`, log and quality rows | one handler per event kind | JetStream consumer |
| Recorder, sweeps (`claim_expiry.go`, `interrupted*.go`, `refire.go`, `backstop_*.go`) | the same tables | expire, end lost starts, mark interrupted, re-fire, fire missed cron occurrences | ledger, cells |
| Recorder, tenant sync (`tenant_sync.go`, `dead_instances_derive.go`, `cell_liveness.go`) | `tenant_placements` with members, generation, dead instances | announce, take over, stale announce | operator |
| Recorder, fleet locks (`fleet_lock_*.go`, `retention_fleet_locks.go`) | `fleet_locks`, a token sequence | acquire, renew, release, sweep, confirmed and forced release | plugin, ingest, tenant sync |
| Recorder, mesh takeover (`mesh_takeover.go`) | `runs`, `fleet_locks`, `run_intents` owners | hand a run to a new instance | cells |
| Recorder, webhook outbox (`webhook_enqueue.go`, `webhook_dispatch.go`) | `webhook_deliveries` with state, attempts and the time of the next one | enqueue with the run's end, lease, decide, post, record the outcome | ingest, sweeps, tenants' receivers |
| Recorder, fan-out, readers, retention | read models | enqueue, read, purge | BFF |
| Plugin, claim queue (`VarroaClaimQueue`, `BuildNumberGate`, `VarroaClaimDispatcher`, `VarroaIntentAction`) | queue items, the apply gate, Jenkins' build counter | claim, apply number, mark, start, cancel | recorder |
| Plugin, trigger route (`VarroaRunTriggerAction`) | Jenkins' queue and builds | schedule, replay, restart, inputs | mite |
| Plugin, lock step (`VarroaLockStep`) | step phase, fence token | poll, renew, confirm after resume, release | recorder |
| Plugin, event spool (`VarroaRunRecorder`, `BuildEventSink`, `RunSpool`, `RunJournal`, `BuildEventDispatcher`, `VarroaBootReconcile`) | a sink, files per run, a journal of live runs, announced runs | emit, append, post, acknowledge, reconcile at boot | mite |
| Mite sidecar (`cmd/mite`) | desired state, rehydration seed, forwarded events without acknowledgement | apply seed, relay, reserve, commit, release, replay | gateway, Jenkins |
| Gateway (`cmd/gateway`, `internal/mite`) | connection registry, claim slots, a publish worker per connection | stamp generation, forward, publish, acknowledge | mites, NATS |
| Operator, sharding (`internal/controller/sharding`) | a Lease per shard, the held set, its work | rebalance pass, sweep, drain, release, shutdown | Kubernetes API, the reconcilers |
| Operator, brood operations (`internal/controller/broodoperation_controller.go`) | status of the object, results of scripts in memory | resolve, dispatch, observe, suspend, cancel | Kubernetes API, Jenkins |
| Operator, other reconcilers (`internal/controller`) | Kubernetes objects | reconcile, place, announce, seed | everything |
| BFF, CLI, frontend, assistant, update center, rbac, signing | own stores | request handlers | recorder, operator |

### What is hard here

* **A claim is answered long before the build starts.** Between the two the home
  can move, the pod can be replaced, Jenkins can restart, and the answer can be
  lost and asked again. The start mark exists for this window.
* **Requests outlive their callers.** A post or a lease update that timed out may
  still be handled.
* **Events are repeated and reordered**, and race the sweeps that conclude from
  their absence.
* **Two counters number the builds**: the ledger's watermark and the counter of
  each Jenkins instance.
* **"Gone" is a judgement.** A partitioned pod may run after it was taken for gone.
* **Leases end while their holder works**: of locks, of shards, of webhook
  deliveries. Fence tokens and the `releasing` state, the confirm deadline and the
  second read of a delivery are there for this.
* **A reconciler reads a cache.** It decides on a status that may be old, writes it
  whole, and may die between the write and the command that the write announces.
* **An event is handed on five times** (sink, spool, mite, stream, worker), by threads
  that can each stop between taking it over and being rid of it, and its
  acknowledgement comes back on another way.

What makes each part correct:

* ledger and claim queue: one build per intent key; no move of a marked intent; no
  number granted twice; a refused number is replaced;
* ingest and sweeps: a build that started is recorded as one, a run that did not is
  not, of two builds of a revision one is kept, and a result that Jenkins reported is
  final;
* fleet locks: fencing under every fault; mutual exclusion when nothing hides a live
  pod; no hold of a possibly living pod freed by a lease; every waiter served;
* shard leases: one replica works on a shard; the assigned replica gets it;
* webhook outbox: a delivery reaches only its own tenant, is retried fully, is not
  sent once superseded, and settles;
* brood operations: one command per target, wave by wave, final outcomes, and an
  end;
* event path: no build is forgotten, one completion per build and boot, no leak in the
  mite's store, and every completion arrives.

`PROJECT.json` lists the hazards at their lines, with the properties that
would catch them.

## 2. Modules

```
Ledger ──► ClaimQueue ──► BuildClaims ──► MCBuildClaims                      (runs)
                              │     └───► BuildClaimsProofs ─┬► StartOnceProofs (theorems)
                          StartOnce                          └► RunRecordProofs
                          (abstract)
FleetLock ──► LockSteps ──► MCLockSteps                                      (runs)
               │      └───► LockStepsProofs                                  (theorems)
    FencedLock, Exclusive                                                    (abstract)
               │
           ShardLease ──► MCShardLease                                       (runs)
                    └───► ShardLeaseProofs                                   (theorems)
WebhookOutbox ──► MCWebhookOutbox                                            (runs)
            └───► WebhookOutboxProofs                                        (theorems)
BroodOperation ──► MCBroodOperation                                          (runs)
             └───► BroodOperationProofs                                      (theorems)
BuildEvent ──► EventSpool ─────┐
           └─► EventRetention ─┴► EventPath ──► MCEventPath                  (runs)
                                          └───► EventPathProofs              (theorems)
```

### Ledger

One job of one tenant, as the recorder stores it. `placement` is its
`tenant_placements` row (generation, home instance, seed applied), `dead` the
confirmed-gone instances, `intents` the `run_intents` rows by key, `nextNumber`
the row of `job_numbers`, `runs` the status, result and accepted-payload flag of
each run. Each action is one transaction:

* `Claim` is the placement fence followed by `existingKeyDecision`, one operator for
  each row of its table; `MarkStart` is `markStartTx`;
* `applyRunStarted`, `applyRunCompleted`, `applyTriggerAccepted`,
  `applyTriggerFailed` are the ingest handlers that decide status and consumption. A start
  includes `runDuplicateBackstop`: of the arriving run and the oldest other live run of its
  revision the newer becomes DUPLICATE. `RevisionOf` is the revision that the start of a run
  reports, `Age` the order of `created_at` and run id, `ScmKey` the keys that exempt a pair;
* `claimExpired`, `claimAbandoned`, `EndMarkedLostIntent` are the sweeps;
* `announce`, `takeOver`, `confirmGone`, `seedReported` are the effects of the
  operator's announces on the job.

Abstractions: time is a flag (`old`: the age the code tests has passed) and two
actions that set it; a fence answer that depends on the member list is a choice;
`NOT_READY`, `CAPPED` and database errors are the answer RETRY, always possible.

### ClaimQueue, BuildClaims and StartOnce

`ClaimQueue` has the queue item of each run on each instance (`items`), the apply
gate, Jenkins' counter, the builds that started, and `late`: requests whose caller
gave up. An item goes QUEUED → APPLYING → MARKING → GRANTED → build; every failure
sends it back to QUEUED or removes it. `BuildClaims` joins the two sides: a request
and its answer are one step, or the answer is lost, or the request is delayed into
`late`. That an answered request is one step loses nothing: an item that waits reads
and writes nothing.

Nothing is ever forced in this part. A dead pod is one that takes no more step;
its requests and events may still be in transit.

`TriggersRace` says whether a repeat trigger may look for the build before the
start and schedule after it (finding 1). `Resends`, `GateExpires`, `Recreated` and
`Reach` switch behaviours on that not every run needs. The proofs assume none of
them off, except `NoDoubleFire` and the refinement, which assume `~TriggersRace`.

`StartOnce` is what the protocol promises, without cells, numbers, fences or
messages: an intent is permitted once, to one run on one instance, and that runner
starts it at most once. `BuildClaims` implements it: the permit of a key is the run and
owner of its marked intent (`Permits`), a start is a build with its key (`Starts`).

### FleetLock and LockSteps

`FleetLock` has the rows of one lock name by run, the token sequence, what `runs`
says of each run, the home of each run's job, and the instances known to be gone.
`waiting_since` is the set of rows that were there before. The statements of
`acquireFleetLockOnce` are functions on the table, composed in their order.

`LockSteps` has the step executions, the instance and pod of each run, and the
delayed requests. A run may have several steps on the lock; the requests name
only the run, as in the code. `Faults` names what may happen: lost posts, restarts
from a state saved before the hold, partitions, forced releases, and grants to a member
cell that is not the home (`CheckPlacement` admits every member, and the row names the
home's instance).

A hold that ended is persisted (`holdEnded`), and its cancel is asynchronous. When Jenkins
restarts between the two, `confirmHoldAfterResume` skips the step: the body is neither
confirmed nor renewed nor cancelled again, and runs on (`unfenced`) beside the next holder.
So `MutualExclusion` and `LockIsExclusive` are about the bodies whose hold nobody ended, and
the first adds that any other body that still runs has a lower token.

`FencedLock` is what the lock promises under every fault: a hold replaces the one before
it and has the next token, and a step gets a token only with a hold of its run. The hold is
mapped to the held or releasing row (`Hold`), the tokens to those that the steps keep. Where
nothing is hidden the bodies also implement `Exclusive`, the section of the shard leases.

### ShardLease and Exclusive

One shard: its Lease (`holder`, `age` of the renewTime), and for each replica the
`ShardSet` entry (`held`, `confirmed`, work that entered, is drained or was
cancelled) and the place of its `ShardManager` in a pass, a drain or a shutdown
(`at`). A lease call is three steps: it is sent, the API server handles it (`Apply`,
refused when its resourceVersion is old), the replica reads the answer. It may also
fail on either side, and be handled after its caller gave up (`late`).

* **Time is kept as ages**, since every test in the code compares a difference. `Tick`
  waits for the timers that the code runs on time (`OnTime`): the sweep, the drain
  and the shutdown waits. Everything else may take any time.
* **A resourceVersion** is kept as the one fact an Update tests: `fresh` has the
  replicas whose copy is current, and every write empties it for all others.
* **Other shards** only delay the steps of this one. What `Assign` says is free until
  `calm`; presence leases only enter through it.
* `Margin` says that the lease outlives the confirm deadline and a whole shutdown. The
  shipped times do not satisfy it (finding 3); the theorems assume it.

`Exclusive` is the section that the work on the shard implements, with `Live`, the
replicas whose uncancelled work may write, inside.

### WebhookOutbox

The rows of `webhook_deliveries`, the placement row's incarnation and webhook, the
status and claimed incarnation of each run, and the leased rows of each dispatcher
(`jobs`). Enqueue happens inside the transactions that end a run:
`applyRunCompleted`, `markInterrupted`, and the message of a tenant agent. `deliver` is
split at its statements: `currentDecision`, `dropWebhookDelivery`, `post`, `succeed`,
`fail`. There is no clock: a lease, like a backoff, may run out between any two steps,
since only the post has a timeout. Any statement may fail, and a dispatcher may die.

### BroodOperation

One operation, its stored object and the informer's view of it: `cache` is what a
tick reads, `events` the versions on their way there, `Stored` the last of them. A
tick reads (`Get`), decides on a copy (`op`), and then performs its writes and sends one
step at a time (`pc`), so that the users' changes, the watch, the goroutines of
`executeGroovy` and a crash come between any two. A write is accepted only when the
cache is current, and may fail before or after it took effect. A tick that begins on
an older status is counted by `stale`: three properties hold only without one (see
the notes under section 5). What a verb does to its controller, what the upgrade gate
says and how the targets are resolved are choices of the environment; `due` are
the targets whose timeout has passed.

### BuildEvent, EventSpool, EventRetention and EventPath

An event is its run, its sequence number and its phase; its key, by which it is
acknowledged, leaves the phase out. A build emits STARTED, heartbeats and COMPLETED; the
other phases take the way of STARTED.

`EventSpool` is the plugin's side: `sink`, `spool`, `journal`, the announced runs, the
builds with their counters, what the boot has still to look at, the runs last seen a week
ago (`expired`), those whose completion the size caps dropped (`dropped`), and how many
completions this process made (`made`). `onStarted`,
`heartbeatTick`, `onCompleted`, `onCompletedByRestart`, `onCompletedAgain` (the second finish
of a refused build that a user unpaused) and `attachResumedRun` are the callers of `emit`; an event that finds the sink full leaves its thread with `spill`,
the events it has taken and spools one step at a time (`SpoolOverflow`).
`StopJenkins` keeps the disk and loses the rest; `StopInAppend` stops it between the rename
of the file of a completion and the removal of the journal entry. `StartJenkins` announces
what is spooled, and `reconcileOne` looks at one journal entry, beside the dispatcher and the
listeners: it removes it with no event when it is a week old or the caps drop the event, and
gives the claim of a refused build back in the second case. A refused build that was not
finished before a stop may be refused again at the next boot, load as completed, or be gone.

`EventRetention` is the mite and the gateway: each handler of `POST /v1/events`
reserves, sends and commits one event after the other (`ReserveNext`, `SendReserved`,
`CommitSent`); `reserve`, `rollback`, `commit` and `release` are the methods of
`eventRetentionStore`, all under its mutex; `wire` is the stream with the queue of the
publish worker, `down` the way of the acknowledgements. `stored` and `refused` are what
the gateway acknowledged as STORED and REJECTED.

`EventPath` adds the dispatcher (`disp`): a pass over the oldest announced run
(`postAnnouncedBacklog` … `postDone`, `clearBacklog`) or over the drained sink
(`drain`, `spoolDrained`), and `postWithRetry`, whose post goes to a free handler and is
answered, times out, or fails with the mite. `Faults` names the faults, `MaxFaults` bounds
their number.

* **An event counts one** toward every cap. A repeated event has the size of the first, so
  it adds nothing to the store; a resend of another size (`loopback.go:1223-1230`) does not
  happen. That the caps drop a completion is a choice, counted as a fault.
* **A group is a set**: the order of its events is that of their numbers.
* **`clock` is the wall clock** of the numbering: a restart numbers on from the highest
  number used, as the code does with the time in milliseconds.
* **A reconnect waits five seconds** (`cmd/mite/agent.go:513`), so a handler that sent on
  the old stream has committed before the replay reads the store. The model takes this
  as a guard of `Reconnect`; without it a commit after the replay would keep an event
  that the new stream never gets. The replay is one step with the reconnect, though
  `openStream` sets the session first (`agent.go:572-590`), so a new forward cannot overtake it.
* **A drain takes the whole sink**, the code at most 64 events of it.
* **`ClearRaces`** says whether an event may be spooled between the dispatcher's last look
  at a spool and the clear of its announcement, as the code allows (finding 4).
  `CompletionArrives` is checked without; the theorems assume nothing of it.

## 3. Runs

| Run | Instance | Shows |
|---|---|---|
| `double_fire` | 2 cells, 2 runs of one key, 2 generations, 2 numbers | one build per key, and only under a mark, which is final, through moves, restarts and replaced pods; the protocol implements `StartOnce` |
| `number_burst` | 1 cell, 2 keys, one run triggered by Varroa, the gate may expire, one late request, one revision | numbers below the watermark, the consumed number is Jenkins', a refused number is not granted to the item again; events, vetoes, sweeps and the duplicate backstop agree on the row of a run |
| `lock_fencing` | 2 cells, 2 runs, all faults, one delayed request, the two runs symmetric | fencing, also of a body whose hold ended before a restart; `FencedLock` is implemented; an ended run keeps no row |
| `lock_progress` | 2 cells, 2 runs, lost posts, restarts, dead pods, takeovers | mutual exclusion of the bodies whose hold nobody ended, `Exclusive` is implemented, interrupted holds, no starvation |
| `shard_exclusive` | 2 replicas, the smallest times with `Margin`, one late call, crashes and shutdowns | one replica works on the shard; `Exclusive` is implemented; the assigned replica gets the shard |
| `webhooks` | 1 run and 1 agent message, 2 dispatchers, 2 attempts, 2 incarnations, 1 fault | own receiver, all tries, no superseded post, no delivered row dropped, every delivery settles |
| `brood` | 2 targets, 3 operations (script, upgrade, reconcile; all three policies), one stale tick, one fault, one suspension, a cancel | one command per target, waves and slots, final outcomes, tidy deletion, the operation and its deletion finish |
| `event_path` | 1 pipeline run, every queue and cap of 1 event, 2 handlers, 2 faults of any kind | the build is not forgotten, a boot makes one completion, the store adds up, the completion arrives |
| `trigger_race`, `completed_twice`, `shard_shutdown`, `event_stranded` | smallest that shows the finding | see section 5 |

**Bounds.** Two instances are the old and the new home; a third would be another
new home. Two runs of a key are the holder and the challenger. Two generations are
"moved once", two numbers let one reservation pass another and every key get one.
One late request is enough for a request to meet a state its sender did not see. In
`webhooks` two attempts are a retry and a last one, two incarnations a tenant and its
successor, two dispatchers the one that lost its lease and the one that took it. In
`brood` two targets are two waves, or one wave with fewer slots than targets. The
times of `shard_exclusive` are units in which every order of the timers occurs; those of
`shard_shutdown` are the shipped ones in units of five seconds. In `event_path` one run
meets itself: runs share only the sink, the caps and the queues, and with room for one
event in each of them the events of one run fill them; two handlers are a post and its repetition;
two faults are one that leaves a state behind and one that interrupts its repair, out of a
stop of Jenkins, between two steps or inside an append, a restart of the mite, a lost stream,
a post that times out, a refusal, a week away and a dropped completion (975,474 states, the
largest of the runs).
`RetainMax` must be at least `GroupMax` for a group to get through (16 MiB against
512 KiB in the code). The theorems of
section 4 hold without these bounds.

Some behaviours of the models are in no run, and only the theorems cover them. `number_burst`
has one generation and one instance: the tenant is not created again under its name there, and
no start is ended as INTERRUPTED, which takes an instance that is gone. `double_fire` has no
delayed request and no gate that expires. The lock runs have one step for each run.

The deadlock check is off in `webhooks`, `brood`, `event_path`, `event_stranded` and
`completed_twice` only: a table whose deliveries are all settled, an operation that is deleted, and a
cell whose build ended and was reported, rightly do nothing more. Everywhere else some event, poll or timer is always possible.

**Fairness.** Every temporal property is checked under the fairness named here and
nothing else.

* Locks: weak fairness for the poll and confirm timers (Jenkins' `Timer`
  reschedules them), for the end of a run and the ingest of its completion (the spool
  retries), for leases that nobody refreshes (clocks advance), and for the recorder's
  rounds. Strong fairness for the end of a body: a restart interrupts it, but not for
  ever. Nothing is assumed of the network. `WaiterServed` is stated where no pod is
  partitioned, since a partitioned holder renews nothing.
* Shards: time passes, timers fire, and the assigned replica runs its pass loop and
  has its calls handled. Of the other replicas only the timers are assumed:
  their passes may hang while they hold the lease. `OwnerTakesOver` is stated from `calm` on, when the
  assignment no longer changes and calls no longer fail.
* Webhooks: the ticker of some dispatcher leases a due row, and a dispatcher that is
  alive goes on with the rows it leased. Crashes and failed statements are bounded.
* Brood operations: the work queue brings the object back, the watch delivers, a
  Jenkins call ends (it has its own deadline), and time passes. `Finishes` assumes that
  the users do not keep the operation suspended. It also rests on a bound that the code does
  not give: an upgrade gate may stay Unknown for ever (`broodoperation_controller.go:1190-1228`),
  and the target then waits as long; the model counts an undecided gate as a fault, so that
  there are `MaxFaults` of them at most.
* Event path: Jenkins comes up again; the dispatcher, the thread that spools an overflow,
  the boot reconcile and the resume or the end of a loaded build go on; a handler of the
  mite ends, the mite reconnects, the gateway publishes (it retries without end) and
  acknowledges. No build has to start or end, and the faults are finitely many.

Every property of a passing run has a mutant in `PROJECT.json`: an operator (kept
next to the one it replaces, with a comment that begins "Mutant") that changes the
code as a plausible bug would, and that TLC finds to violate the property.

## 4. Proofs

All theorems are safety properties, for all values of the constants that satisfy
the named assumption of the module that declares them; seven of them have a further
hypothesis, named below. The claim and lock proofs assume no set finite; the targets of
a brood operation are, since they are numbered, and so are the dispatchers of the outbox,
since their number bounds a count. The bounds may be any numbers.

`BuildClaimsProofs`:

* `TypeCorrect`: `TypeOK`, one lemma per side of the protocol.
* `NumbersSafe`: `NumbersBelowWatermark`. It is inductive with `TypeOK`: a
  reservation takes a number at or above the watermark and raises it, and a start
  either takes the number from its holder or stores none.
* `StartsAreMarked`, `OneStarter`, `NoDoubleFire`, `MarksAreFinal` rest on the
  inductive invariant `StartProtocol`. `OneBuildPerIntent` alone is not inductive: it
  does not say why the second item cannot start. `StartProtocol` adds that an item
  with the granted flag has its mark in the ledger (`GrantedItemIsMarked`), that a
  build has it too (`StartMarkProof`), that an absent intent is empty and a
  consumed one is marked (`IntentShape`), and that an instance that built a run has
  no item of it (`BuildStaysHome`, vacuous when triggers race). One key has one mark,
  so two builds of a key have one run and one instance; the last conjunct makes them
  one build. Every step keeps the marks (`MarkKept`): a claim of another instance or
  run is refused once the mark is there.

`StartOnceProofs`: `ClaimsImplementStartOnce`, that `BuildClaims` implements
`StartOnce` while no trigger races a start. A step that sets a mark is a permit, a step
that adds a build is a start by the permitted runner, by `StartProtocol`, and all
other steps leave both alone.

`RunRecordProofs`: what the recorder says of a run agrees with what Jenkins did, with
triggers that race, late requests and events in any order and number.

* `ConsumedRunsRecorded` says that an ingested start reads as a build, and as DUPLICATE only
  while an older started run of its revision is there that is not DUPLICATE itself
  (`KeepsRevision`), for any number of runs of the revision. A mark compares with the oldest
  rival; a run that keeps another one and becomes a duplicate itself is replaced by the run
  that beat it, which is older still.
* `ConsumedRunsRecorded`, `RecordedRunsStarted`, `ConsumedNumbersBuilt` and
  `ReportedResultsFinal` rest on the inductive invariant `RunRecord`: `StartProtocol`, the
  three invariants themselves, and `RunRowShape`. The last says what the handlers conclude
  from a row: a row that waits still has the accepted payload and no result, a running
  row has neither, a running row or one that the backstop ended is of an ingested start, and
  a completed row with the accepted payload is that of a failed trigger. Without it a veto could not tell a row without a build from one with
  (`noBuildRecorded` reads the payload and the result, not the status). `StartProtocol` is
  what makes an ingested start the start of the run that its intent names.
* `RefusedNumbersNotRegranted` rests on `ConflictPassed`: a number that an item refused is
  below the counter of the instance that refused it. The ledger grants the item again with
  its stored number only if that number is not the refused one; a new reservation starts at
  the counter that the item sent, which has passed the refused number.

`LockStepsProofs`:

* `LockTypeCorrect`.
* `FencingOrder`: `HolderIsNewest`, under every fault. The inductive invariant
  `Fencing` adds `OneHolder` (one row is held or releasing) and `TokensIssued` (no token
  above the sequence). Without the first a promotion could not compare its new token with
  every other holder; without the second the new token need not be the highest.
* `LockImplementsFencedLock`: `LockIsFenced`, under every fault. Every step is either quiet
  (no new hold, no new token in a step) or a grant (`Granted`: the new hold is the only one
  and has the next token); a grant is a `Grant` of `FencedLock`, every other step an `End`
  (`FenceKept`, `FenceRefines`).
* `EndedRunsHoldNothing`: inductive with `TypeOK`, since the acquire and the completion
  of a run are ordered by its advisory lock.
* `BodiesExclude`: `MutualExclusion`, assuming `NothingHidden` (no partition, no forced
  release, no grant off the home, no delayed request) and `RunsHaveOneStep`. These are the limits of the protocol
  and not of the proof: a partitioned holder loses its row to a pod that is taken for its
  successor, an administrator may free any row, a delayed release frees the next hold of
  its run, the row of a run on another member names the home's instance, and the requests of
  two steps of a run name the same row. There fencing is all
  that is promised. Lost answers, restarts, forgotten holds, pods that die, takeovers and
  interrupted runs are all allowed. The inductive invariant adds `Guarded` to `Fencing`:
  the run of a body holds its row, with a lease that its renewals keep (`BodyHolds`), on the
  instance where the run is (`HeldWhereItRuns`), and a pod that is known to be gone has
  stopped (`GoneIsDown`). `OneHolder` then makes two bodies those of one run, and
  `HolderIsNewest` gives a body that was ended, and runs on, a lower token.
* `LockImplementsSection`: `LockIsExclusive`, under the same hypotheses. A step that lets a
  body in sends no other out (`BodiesEnter`), so with `MutualExclusion` before and after it
  the section was empty.
* `InterruptedHoldsKept`: `InterruptedHoldKept`, assuming `NothingHidden`, with any number
  of steps per run. The rounds and every acquire move the rows of interrupted runs to
  `releasing` before they delete the expired ones (`Sound`), so no lease frees one.

`ShardLeaseProofs`: `ShardTypeCorrect`, and, assuming `Margin`, `ShardHeldOnce`
(`OneLiveReplica`) and `ShardImplementsSection` (the refinement of `Exclusive`), for
any set of replicas, any times and any clock skew. That no two replicas are live is a
consequence of what the lease says about each of them, so the inductive invariant
`IInv` is about one replica and the lease at a time: while a replica may act on the shard
the lease names it (`Lease`) and is younger than its expiry on any clock (`Ages`); a copy
with the current resourceVersion says the truth about the holder (`Copy`, `Where`); and
no request in transit that the API server would still accept can take the lease from a
replica that may act (`Transit`). Two live replicas would both be named by one lease.

`WebhookOutboxProofs`: `ReceiverIsOwner`, `TriedInFull`, `CompletionSupersedes`,
`DeliveredStays`, for any runs, dispatchers, batch sizes and tries. Each needs what a dispatcher's
*copy* of a row says, not only the row: `Owned` (a pending row and a decided post name
an incarnation that claimed the run), `Counted` (no attempt count, in a row or in a job,
is ahead of the posts that failed, which is what an overwritten count could break),
`Superseded` (an enqueued completion leaves no synthetic row pending).
`OutboxTypesHold` is `TypeOK`, with its bound on the attempts of a row. The bound takes an
argument: `succeed` adds one to whatever the row holds, so several dispatchers that hold
one row can count it past `MaxAttempts`. `Bounded` says that the count and the number of
dispatchers at work on the row stay together below `MaxAttempts` plus all dispatchers: a
lease needs a pending row, whose count is below `MaxAttempts` by `Counted`, a success uses
up one of those at work, and a failure writes at most `MaxAttempts`.

`BroodOperationProofs`: `BroodTypeCorrect`, `CommandSentOnce`, `RolloutIsPaced`,
`OutcomesStay`, `DeletionIsTidy`, for any number of targets, any waves, `maxParallel`,
verbs, policies, and any number of stale ticks and faults. Every step is first
summarised by what it does to the stored object, the copy, the loop and the memory
(`Begins`, `Writes`, `Inside`, `SameObject`); the invariants are then shown of the
summaries:

* `Tidy`, for `DeletionIsTidy`: without a finalizer in the stored object nothing is
  in memory, and the finalizer that a tick read in a copy is still there, or the whole
  object is gone, when it sends. It holds with stale ticks.
* `Record`, for `CommandSentOnce` and `OutcomesStay`: the copy that a tick is going to
  write knows every command that was sent and every outcome that is stored (`Carried`),
  and at the send the mark is stored (`Marked`). It holds as long as no tick began
  stale.
* `Room` and `Order`, for `RolloutIsPaced`: what is in flight in the copy and what the
  loop may still start fit in `maxParallel`; the waves before the open one are finished
  in the copy, and at the send in the stored object too.

`EventPathProofs`: `PathTypes`, `RetentionIsAccounted`, `BuildNeverForgotten`,
`OneCompletionEachBoot`, for any
runs, bounds and faults, with and without the race of the announcement. The invariant `IndInv` is
needed as a whole:

* `RetentionAccounted` follows from `StoreInv`: one open reservation and one kept event
  per key, no charge without a reservation, and a handler between `reserve` and `commit` has
  the reservation of its own event or none. Then each method moves the count by what it
  moves in the sums.
* `NeverForgotten` fails if an acknowledgement deletes a completion that did not arrive.
  An acknowledgement names a key, so it must be known that the key is one of a settled event (`AcksKnown`) and
  that no other event has it (`KeysUnique`), which holds since numbers only grow: none
  is above the clock (`BelowClock`), and a running build counts from it (`CountsOn`), also
  after a restart.
* `OneCompletionPerBoot` rests on `MadeOnce`: once a process made a completion, nobody is left
  to make another (`allMade`): the build is over and the boot reconcile is past it, or the
  claim of `FailedProgramLoad` is taken. That a claim given back after a dropped event cannot
  lead to two is part of it. `BootShape` says that the boot looks only at builds of an earlier
  process, and that a stop leaves no running build.

Across boots no such theorem holds (finding 2).

**Only model-checked:** the liveness properties `WaiterServed`, `OwnerTakesOver`,
`EveryDeliverySettles`, `Finishes`, `DeletionCompletes`, `CompletionArrives`, which are
out of this prover's reach: they need fairness, and with it `ENABLED`. Every invariant and
action property that a passing run checks is stated by a theorem. `MutualExclusion` and
`InterruptedHoldKept` are checked for lost answers only (`Faults = {"lost"}`); their theorems allow
forgotten holds as well.

## 5. Findings

1. `trigger_race`: `doTrigger` looks for a build of the run and then schedules, with
   no lock between. A redelivered trigger that looks before the start and schedules
   after it passes both folds; as long as `run.started` is not ingested, the ledger
   grants the same owner again and the run builds twice. `OneStarter` bounds the
   damage: both builds are of one run on one instance.
2. `completed_twice`: `RunSpool.append` renames the file of a completion into place and then
   removes the journal entry. After a stop of Jenkins between the two, the dispatcher of the
   next boot may post the file and delete it before `VarroaBootReconcile` looks, which then
   finds an entry without a completion and sends a second one. Its class comment (29-32) says
   that a second boot "finds the spooled event and sends no second one". `NeverForgotten` and
   `OneCompletionEachBoot` bound the damage: no completion is lost, and each boot adds one at
   most.
3. `shard_shutdown`: with the shipped times (lease 30 s, deadline 25 s, drain 4 s,
   shutdown 12 s) a replica that shuts down can drain past the expiry of its lease, and
   `releaseAll` then clears the lease of whoever claimed it: the first `Update` of
   `releaseLease` does not look at the holder. A third claim follows while the second
   holder works. `ShardHeldOnce` shows that this is the only way: it holds once the lease
   outlives deadline plus shutdown.
4. `event_stranded`: `postAnnouncedBacklog` finds the spool of a run empty and then clears
   the run's announcement, with no lock between. An event that is spooled in between
   finds the run still announced, so `noteSpooled` does nothing, and the clear takes the
   announcement away. The file stays until the next overflow of the run or the next boot;
   when it is the completion, the record store shows a running build until then.

Notes, met while modelling, that no run is about:

* The comment on `runsStatusMergeSQL` (`recordstore/ingest_common.go:170`) says that an
  accepted-only row is never DUPLICATE; `applyTriggerAccepted` and `markDuplicateClaim`
  both make one so.
* `docs/operations/build-claims.md:111` says that a cell's counter passes a stored
  number only by running that build. A later grant that applies first passes it too;
  the code handles this (`number_conflict`).
* `docs/operations/brood-operations.md:18` says of FailTidy "Stop new dispatch after a
  failure". `dispatchLoop` tests for failures once, before its loop
  (`broodoperation_controller.go:788-823`): an upgrade target that fails inside the loop
  does not stop it from sending the next; the next tick stops.
* A brood operation tick that begins on an old cache can write an outcome back, lose an
  acknowledged script result, or send a command again. The properties that this breaks
  are stated for `stale = 0`; `NothingLeftBehind`, `Finishes` and `DeletionCompletes`
  are not.
* A time to live of 0 deletes a finished operation at once
  (`broodoperation_controller.go:1380-1386`), while `docs/operations/brood-operations.md:19`
  says "Use `0` to retain it".
* After a failed send, a comment in `dispatchLoop` says that the predicate will never
  match because the command was never sent. It matches if something else restarts the
  controller.
* Work that the sweep of a replica cancelled belongs to an old `shardWork`: when the
  replica gets the shard back and drains it later, the drain does not wait for that
  work.
* A comment in `webhook_dispatch.go:100` says that two dispatchers never send one
  delivery twice; a lease that runs out during a post makes it twice, as
  `docs/operations/notifications.md:171` says ("Delivery is at least once"). An old failure of the last attempt can also record a
  delivered row as failed. `supersedes` in a completion names only the latest
  synthetic row, though all of them are dropped.
* The claims of `FailedProgramLoad` are lost with the process: a build that Jenkins refuses to
  resume at two boots, and that its listener finishes at both, gets a completion from each.
* After a failed release, `VarroaLockStep.releaseLock` relies on the lease ("the recorder's own
  lease expiry is the backstop", 458-460). If the same run enters the lock again, its polls
  refresh the lease of its own old row (`fleet_lock_acquire.go:421-437`), which also blocks its
  promotion (319-320): the step waits until its timeout, of which there is none by default.
  (The class comment says that a nested block fails at once; no code makes that test.)
* A `varroaLock` body whose hold ended may run on after a restart, see `LockSteps`.
* The store of the mite can exceed its cap by one event: a resend that was charged nothing,
  because the first copy was kept, is committed after that copy was acknowledged.
* When a full sink makes a build's thread take the events of its run out of the sink
  while the dispatcher has others of that run drained and not yet posted, the two groups
  can reach the mite in either order.

## 6. Not modelled

* Claims: the move of an intent's owner by a mesh takeover, which also moves a marked one
  (`mesh_takeover.go:368-371`); the columns and the round of the re-fire (its triggers are
  `Schedule`); the concurrency caps beyond their answer; member lists and slots; build numbers
  in `runs`; the interruption of RUNNING rows by the sweep; the mark of a key without a row.
  The run of a vetoed claim is marked in the step of the claim, while `markVetoedRun` is a
  transaction of its own (`claim_veto.go:26-28`): what may come between reaches the same rows
  before the claim. The permanent CROSS_TENANT answer to a home
  (`ledger_fence_placement.go:247-250`) is not an answer of the fence; the item it cancels may
  be cancelled anyhow.
* Duplicate backstop: the `cancel_run` that it publishes. A revision is fixed for each run, and
  reported by every start of it.
* Jenkins saves its queue with a delay. A crash within it could bring back an item
  that already started, with its granted flag. The model's queue does not lag.
* `findBuildForRunId` reads 100 builds at most; the model finds every build.
* Locks: the grants that allow a cross-tenant lock, notifications, equal or skewed
  `waiting_since` values, dead instances per tenant (`gone` is global). An interrupted run
  stays so until it ends, while a late start turns a run whose start was taken for lost back to
  RUNNING (`ingest_started.go:120`).
* Shards: the other shards and the presence leases, which only decide the assignment
  and delay passes; the hash ring, whose choice is free in the model. A shutdown
  begins between two sweeps; in the code the context may be cancelled inside one, which ends
  the sweep early (`manager.go:183-187`, 207).
* Webhooks: payloads and signatures, backoff times, the delete of old finished rows; a webhook
  that is taken away and later given back to the same tenant (`tenant_sync.go:806-847`); the
  restamp of the incarnation of pending rows (`webhook_dispatch.go:308-311`). A request that
  cannot be built (330-334) counts as a failed post.
* Brood operations: how a selector is resolved, what each verb does to a controller,
  two leaders at once, status messages and metrics; a terminal status write is tried
  once more, not three times. A target whose timeout has passed fails at the next tick; in the
  code a failed read of its controller (584-588) puts that off.
* Event path: failed disk writes (a write that fails at boot gives the claim back and keeps the
  entry for the next boot); deleted builds, with the journal entry that `onDeleted` removes;
  run-state records; STARTED events that are held for a template; how the size caps shorten an
  event; the several envelopes of one event; the consumer of the stream and its redelivery
  (`BuildClaims` lets the recorder see events in any order and any number of times); the log
  and claim routes of the loopback server.
* The components with status `not_modelled` in `PROJECT.json`, with their reasons.
  Most of the repository's lines are generated clients and types, reconcilers that
  render Kubernetes objects, request handlers and user interfaces: they keep no state
  that several processes decide on together.

## 7. Plan

Done: claims, locks, shard leases, webhook outbox, brood operations, event path, their
abstract specifications and the theorems above. Next:

1. `Interruption`: evidence for an interruption, the mark, the resume and its failure,
   the mesh takeover with both owners; re-fire as a round, with the liveness of a
   lost intent.
2. The consumer of the event stream, as the missing link between `EventPath` and the
   ingest of `Ledger`; the log route of the mite, whose store has acknowledgements that
   are cumulative.
3. `KeyLock`, the cron backstop, the claim caps.
4. The safety properties of 1-3, proved as they come.
