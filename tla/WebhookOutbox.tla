---------------------------- MODULE WebhookOutbox ----------------------------
(***************************************************************************)
(* The completion webhooks of the recorder: the outbox rows that a run's   *)
(* end writes in its own transaction (webhook_enqueue.go), and the         *)
(* dispatchers of several recorder replicas that lease the due rows, post  *)
(* them to the tenant's receiver and record the outcome                    *)
(* (webhook_dispatch.go).                                                  *)
(*                                                                         *)
(* A lease sets next_attempt_at two minutes ahead, a failed attempt sets   *)
(* it by its backoff, and only the post has a timeout: the reads and the   *)
(* writes of the database wait as long as they must.  The model has no     *)
(* clock: next_attempt_at may pass between any two steps, so a pending row *)
(* may be leased again at any step of a holder that is slow or gone.       *)
(***************************************************************************)
EXTENDS Naturals, FiniteSets

CONSTANTS
    Run,
    Message,        \* messages of tenant agents, each with its own delivery key
    Reason,         \* of the synthetic ends: start-lost, cell-lost, ...
    Dispatcher,     \* one per recorder replica
    BatchSize,      \* webhookBatchSize, 20 in the code
    Mixed,          \* bound: whether runs and messages appear in one behaviour
    MaxAttempts,    \* webhookMaxAttempts, 6 in the code
    MaxIncarnation, \* bound on the Tenant objects that take the tenant's name
    MaxFaults       \* bound on crashes and failed statements of the dispatchers

Synthetic == {[of |-> r, key |-> reason] : r \in Run, reason \in Reason}
Completion == {[of |-> r, key |-> "completed"] : r \in Run}
Delivery == Synthetic \cup Completion \cup {[of |-> m, key |-> "agent"] : m \in Message}

\* 0 is the empty incarnation: an announcement that named none.
Incarnation == 0 .. MaxIncarnation

RowState == {"NONE", "pending", "delivered", "failed", "dropped"}
Row == [state : RowState, inc : Incarnation, attempts : 0 .. MaxAttempts + Cardinality(Dispatcher)]

\* NEW is a run without a claim.  LOST is an end that a run.started undoes: the run
\* was marked before its build reported.
RunStatus == {"NEW", "QUEUED", "RUNNING", "LOST", "INTERRUPTED", "COMPLETED"}

\* A leased row: deliver stands before the read of the decision, the drop, the post
\* or the write of the outcome.
Job == [at : {"IDLE", "READ", "DROP", "POST", "SUCCEED", "FAIL"}, attempts : 0 .. MaxAttempts,
        inc : Incarnation]

ASSUME OutboxAssumption ==
    /\ MaxAttempts \in Nat \ {0}
    /\ MaxIncarnation \in Nat \ {0}
    /\ MaxFaults \in Nat
    /\ BatchSize \in Nat \ {0}
    /\ Mixed \in BOOLEAN
    /\ IsFiniteSet(Dispatcher)
    /\ Reason \cap {"completed", "agent"} = {}

VARIABLES
    tenant, \* the placement row: its incarnation, and whether it declares a webhook
    runs,   \* status and the incarnation that its intent stores
    owners, \* history: the incarnations a run was claimed under
    rows,   \* the outbox
    jobs,   \* the leased rows of each dispatcher
    posted, \* history: the incarnations whose receiver a delivery was posted to
    tries,  \* history: failed posts of each delivery, counted to MaxAttempts
    faults

vars == <<tenant, runs, owners, rows, jobs, posted, tries, faults>>
runVars == <<runs, owners>>
historyVars == <<posted, tries>>

NoRow == [state |-> "NONE", inc |-> 0, attempts |-> 0]
Idle == [at |-> "IDLE", attempts |-> 0, inc |-> 0]

TypeOK ==
    /\ tenant \in [inc : Incarnation, hook : BOOLEAN]
    /\ runs \in [Run -> [status : RunStatus, inc : Incarnation]]
    /\ owners \in [Run -> SUBSET Incarnation]
    /\ rows \in [Delivery -> Row]
    /\ jobs \in [Dispatcher -> [Delivery -> Job]]
    /\ posted \in [Delivery -> SUBSET Incarnation]
    /\ tries \in [Delivery -> 0 .. MaxAttempts]
    /\ faults \in 0 .. MaxFaults

Init ==
    /\ tenant \in [inc : {0, 1}, hook : {TRUE}]
    /\ runs = [r \in Run |-> [status |-> "NEW", inc |-> 0]]
    /\ owners = [r \in Run |-> {}]
    /\ rows = [x \in Delivery |-> NoRow]
    /\ jobs = [d \in Dispatcher |-> [x \in Delivery |-> Idle]]
    /\ posted = [x \in Delivery |-> {}]
    /\ tries = [x \in Delivery |-> 0]
    /\ faults = 0

-----------------------------------------------------------------------------
(* The tenant and its runs *)

\* An announcement: a new Tenant object takes the name over, or the first to name an
\* incarnation stamps the row.  It brings its own webhook, or none.
announceNewTenant ==
    /\ tenant.inc < MaxIncarnation
    /\ \E hook \in BOOLEAN : tenant' = [inc |-> tenant.inc + 1, hook |-> hook]
    /\ UNCHANGED <<runVars, rows, jobs, historyVars, faults>>

\* An announcement of the same object that removes the webhook.
announceNoWebhook ==
    /\ tenant.hook
    /\ tenant' = [tenant EXCEPT !.hook = FALSE]
    /\ UNCHANGED <<runVars, rows, jobs, historyVars, faults>>

\* A granted claim stores the incarnation of the placement row on the intent, and the
\* claim of a new home stores it again, as long as the build is not marked.
claim(r) ==
    /\ runs[r].status \in {"NEW", "QUEUED"}
    /\ Mixed \/ \A m \in Message : rows[[of |-> m, key |-> "agent"]].state = "NONE"
    /\ runs' = [runs EXCEPT ![r] = [status |-> "QUEUED", inc |-> tenant.inc]]
    /\ owners' = [owners EXCEPT ![r] = @ \cup {tenant.inc}]
    /\ UNCHANGED <<tenant, rows, jobs, historyVars, faults>>

applyRunStarted(r) ==
    /\ runs[r].status \in {"QUEUED", "LOST"}
    /\ runs' = [runs EXCEPT ![r].status = "RUNNING"]
    /\ UNCHANGED <<tenant, owners, rows, jobs, historyVars, faults>>

-----------------------------------------------------------------------------
(* Enqueue *)

\* The row a conflict-free insert writes.  An empty incarnation cannot prove whose
\* receiver it is, so the run's row is written dropped.
insertWebhookDelivery(inc) == [NoRow EXCEPT !.state = "pending", !.inc = inc]
insertDroppedWebhookDelivery == [NoRow EXCEPT !.state = "dropped"]

\* Mutant: the row takes the incarnation of the tenant now, and not of the claim.
stampsTenantNow(r) == insertWebhookDelivery(tenant.inc)

runDelivery(r) ==
    IF runs[r].inc = 0 THEN insertDroppedWebhookDelivery ELSE insertWebhookDelivery(runs[r].inc)

\* The rows after the end of r by a sweep: one synthetic delivery per reason.
enqueueInterruptedWebhookDelivery(r, reason) ==
    LET x == [of |-> r, key |-> reason]
    IN  IF tenant.hook /\ rows[x].state = "NONE"
          THEN [rows EXCEPT ![x] = runDelivery(r)]
          ELSE rows

\* The rows after the owner's completion of r.  A repeated completion finds its row and
\* changes nothing, unless the intent has no incarnation; the first one drops the
\* synthetic deliveries that are still pending.
enqueueWebhookDelivery(r) ==
    LET x == [of |-> r, key |-> "completed"]
        superseded(y) == y \in Synthetic /\ y.of = r /\ rows[y].state = "pending"
    IN  IF ~tenant.hook \/ (rows[x].state # "NONE" /\ runs[r].inc # 0)
          THEN rows
          ELSE [y \in Delivery |->
                  IF y = x /\ rows[x].state = "NONE" THEN runDelivery(r)
                  ELSE IF superseded(y) THEN [rows[y] EXCEPT !.state = "dropped"]
                  ELSE rows[y]]

\* A sweep ends an open run, and enqueues in the same transaction.  A start-lost mark,
\* and any mark of a run that has not started, gives way to a later run.started.
markInterrupted(r, reason) ==
    /\ \/ runs[r].status = "QUEUED"
       \/ runs[r].status = "RUNNING" /\ reason # "start-lost"
    /\ runs' = [runs EXCEPT ![r].status = IF @ = "QUEUED" THEN "LOST" ELSE "INTERRUPTED"]
    /\ rows' = enqueueInterruptedWebhookDelivery(r, reason)
    /\ UNCHANGED <<tenant, owners, jobs, historyVars, faults>>

\* The owner's run.completed, which the mesh may bring more than once.
applyRunCompleted(r) ==
    /\ runs[r].status # "NEW"
    /\ runs' = [runs EXCEPT ![r].status = "COMPLETED"]
    /\ rows' = enqueueWebhookDelivery(r)
    /\ <<runs, rows>>' # <<runs, rows>>
    /\ UNCHANGED <<tenant, owners, jobs, historyVars, faults>>

\* A message of a tenant agent carries the incarnation of the placement row, the empty
\* one too.
EnqueueTenantAgentWebhook(m) ==
    LET x == [of |-> m, key |-> "agent"]
    IN  /\ tenant.hook
        /\ rows[x].state = "NONE"
        /\ Mixed \/ \A r \in Run : runs[r].status = "NEW"
        /\ rows' = [rows EXCEPT ![x] = insertWebhookDelivery(tenant.inc)]
        /\ UNCHANGED <<tenant, runVars, jobs, historyVars, faults>>

-----------------------------------------------------------------------------
(* Dispatch *)

\* Mutant: the lease counts the attempt, so an attempt that a crash cuts off counts.
leaseCounts(d, batch) ==
    /\ \A x \in Delivery : jobs[d][x].at = "IDLE"
    /\ batch # {} /\ Cardinality(batch) <= BatchSize
    /\ \A x \in batch : rows[x].state = "pending"
    /\ rows' = [x \in Delivery |->
                  IF x \in batch /\ rows[x].attempts + 1 < MaxAttempts
                    THEN [rows[x] EXCEPT !.attempts = @ + 1]
                    ELSE rows[x]]
    /\ jobs' = [jobs EXCEPT ![d] = [x \in Delivery |->
                  IF x \in batch THEN [Idle EXCEPT !.at = "READ", !.attempts = rows'[x].attempts]
                  ELSE Idle]]
    /\ UNCHANGED <<tenant, runVars, historyVars, faults>>

\* A round begins when the one before it has ended.  It leases pending rows that are
\* due and that no other statement holds locked, and copies their attempts.
lease(d, batch) ==
    /\ \A x \in Delivery : jobs[d][x].at = "IDLE"
    /\ batch # {} /\ Cardinality(batch) <= BatchSize
    /\ \A x \in batch : rows[x].state = "pending"
    /\ jobs' = [jobs EXCEPT ![d] = [x \in Delivery |->
                  IF x \in batch THEN [Idle EXCEPT !.at = "READ", !.attempts = rows[x].attempts]
                  ELSE Idle]]
    /\ UNCHANGED <<tenant, runVars, rows, historyVars, faults>>

jobGoes(d, x, at) == jobs' = [jobs EXCEPT ![d][x].at = at, ![d][x].inc = 0]
jobEnds(d, x) == jobs' = [jobs EXCEPT ![d][x] = Idle]

\* The tenant's receiver is the one that the row was written for.
hasWebhook(x) == tenant.hook /\ tenant.inc = rows[x].inc

\* Mutant: deliver sends whatever it leased.
trustsLease(d, x) ==
    /\ jobs[d][x].at = "READ"
    /\ jobs' = [jobs EXCEPT ![d][x].at = IF hasWebhook(x) THEN "POST" ELSE "DROP",
                            ![d][x].inc = IF hasWebhook(x) THEN tenant.inc ELSE rows[x].inc]
    /\ UNCHANGED <<tenant, runVars, rows, historyVars, faults>>

\* deliver reads the row and the tenant in one statement, and never trusts the lease.
currentDecision(d, x) ==
    /\ jobs[d][x].at = "READ"
    /\ IF rows[x].state # "pending" THEN jobEnds(d, x)
       ELSE jobs' = [jobs EXCEPT ![d][x].at = IF hasWebhook(x) THEN "POST" ELSE "DROP",
                                 ![d][x].inc = IF hasWebhook(x) THEN tenant.inc ELSE rows[x].inc]
    /\ UNCHANGED <<tenant, runVars, rows, historyVars, faults>>

\* Mutant: the drop does not look at the row again.
dropsUnread(d, x) ==
    /\ jobs[d][x].at = "DROP"
    /\ rows' = [rows EXCEPT ![x].state = "dropped"]
    /\ jobEnds(d, x)
    /\ UNCHANGED <<tenant, runVars, historyVars, faults>>

\* Drops the row only while it is as it was read.
dropWebhookDelivery(d, x) ==
    /\ jobs[d][x].at = "DROP"
    /\ rows' = IF rows[x].state = "pending" /\ rows[x].inc = jobs[d][x].inc
                 THEN [rows EXCEPT ![x].state = "dropped"]
                 ELSE rows
    /\ jobEnds(d, x)
    /\ UNCHANGED <<tenant, runVars, historyVars, faults>>

\* The post to the receiver that the decision read: answered with a 2xx, or failed, by
\* another status, a timeout or a connection that broke, whatever the receiver got.
post(d, x) ==
    /\ jobs[d][x].at = "POST"
    /\ posted' = [posted EXCEPT ![x] = @ \cup {jobs[d][x].inc}]
    /\ \/ jobGoes(d, x, "SUCCEED") /\ UNCHANGED tries
       \/ /\ jobGoes(d, x, "FAIL")
          /\ tries' = [tries EXCEPT ![x] = IF @ < MaxAttempts THEN @ + 1 ELSE @]
    /\ UNCHANGED <<tenant, runVars, rows, faults>>

\* Marks the row delivered, whatever it holds by now.
succeed(d, x) ==
    /\ jobs[d][x].at = "SUCCEED"
    /\ rows' = [rows EXCEPT ![x].state = "delivered", ![x].attempts = @ + 1]
    /\ jobEnds(d, x)
    /\ UNCHANGED <<tenant, runVars, historyVars, faults>>

\* Mutant: a delivery that keeps failing is never given up.
failsForGood(d, x) ==
    LET attempts == IF jobs[d][x].attempts + 1 < MaxAttempts THEN jobs[d][x].attempts + 1
                    ELSE jobs[d][x].attempts
    IN  /\ jobs[d][x].at = "FAIL"
        /\ rows' = [rows EXCEPT ![x].attempts = attempts]
        /\ jobEnds(d, x)
        /\ UNCHANGED <<tenant, runVars, historyVars, faults>>

\* Mutant: the count is written, and never compared.
failsUncounted(d, x) ==
    /\ jobs[d][x].at = "FAIL"
    /\ rows' = [rows EXCEPT ![x].attempts = jobs[d][x].attempts + 1]
    /\ jobEnds(d, x)
    /\ UNCHANGED <<tenant, runVars, historyVars, faults>>

\* One attempt more than the lease read; the last one fails the delivery, and any other
\* only writes the next attempt.  Neither looks at the row.
fail(d, x) ==
    LET attempts == jobs[d][x].attempts + 1
    IN  /\ jobs[d][x].at = "FAIL"
        /\ rows' = IF attempts >= MaxAttempts
                     THEN [rows EXCEPT ![x].state = "failed", ![x].attempts = attempts]
                     ELSE [rows EXCEPT ![x].attempts = attempts]
        /\ jobEnds(d, x)
        /\ UNCHANGED <<tenant, runVars, historyVars, faults>>

\* A statement fails, and deliver returns: the row stays leased.
statementFails(d, x) ==
    /\ faults < MaxFaults
    /\ jobs[d][x].at \in {"READ", "DROP", "SUCCEED", "FAIL"}
    /\ jobEnds(d, x)
    /\ faults' = faults + 1
    /\ UNCHANGED <<tenant, runVars, rows, historyVars>>

\* A recorder replica stops or crashes with its round.
crash(d) ==
    /\ faults < MaxFaults
    /\ \E x \in Delivery : jobs[d][x].at # "IDLE"
    /\ jobs' = [jobs EXCEPT ![d] = [x \in Delivery |-> Idle]]
    /\ faults' = faults + 1
    /\ UNCHANGED <<tenant, runVars, rows, historyVars>>

-----------------------------------------------------------------------------

deliver(d, x) ==
    \/ currentDecision(d, x)
    \/ dropWebhookDelivery(d, x)
    \/ post(d, x)
    \/ succeed(d, x)
    \/ fail(d, x)

leaseOf(x) == \E d \in Dispatcher, batch \in SUBSET Delivery : x \in batch /\ lease(d, batch)

Next ==
    \/ announceNewTenant
    \/ announceNoWebhook
    \/ \E r \in Run : claim(r) \/ applyRunStarted(r) \/ applyRunCompleted(r)
    \/ \E r \in Run, reason \in Reason : markInterrupted(r, reason)
    \/ \E m \in Message : EnqueueTenantAgentWebhook(m)
    \/ \E d \in Dispatcher, batch \in SUBSET Delivery : lease(d, batch)
    \/ \E d \in Dispatcher, x \in Delivery : deliver(d, x) \/ statementFails(d, x)
    \/ \E d \in Dispatcher : crash(d)

Spec == Init /\ [][Next]_vars

\* Rounds come every few seconds and take the rows that are due the longest, and a
\* leased row is worked off, unless one of the faults ends its job.
Fairness ==
    /\ \A x \in Delivery : WF_vars(leaseOf(x))
    /\ \A d \in Dispatcher, x \in Delivery : WF_vars(deliver(d, x))

FairSpec == Spec /\ Fairness

-----------------------------------------------------------------------------
(* Properties *)

\* A delivery about a run is posted only to the receiver of a tenant that claimed the
\* run, and never for a claim that named no tenant: a new Tenant object under the same
\* name gets nothing of the old one's runs (deliver and currentDecision).
OwnReceiver ==
    \A x \in Synthetic \cup Completion : posted[x] \subseteq owners[x.of] \ {0}

\* A delivery is given up only after MaxAttempts failed posts, however the leases, the
\* crashes and the stale attempt counts of several dispatchers overlap (lease, fail).
GivenUpAfterAllTries ==
    \A x \in Delivery : rows[x].state = "failed" => tries[x] = MaxAttempts

\* Once the completion of a run is enqueued no dispatcher decides to post a synthetic
\* end of it: only a post that was decided before can still reach the receiver
\* (enqueueWebhookDelivery, deliver).
SupersededNotSent ==
    [][\A d \in Dispatcher, x \in Synthetic :
          jobs[d][x].at # "POST" /\ jobs'[d][x].at = "POST" =>
             rows[[of |-> x.of, key |-> "completed"]].state = "NONE"]_vars

\* A delivery that one dispatcher marked delivered is not recorded as dropped by
\* another whose decision is out of date (dropWebhookDelivery).
DeliveredNotDropped ==
    [][\A x \in Delivery : rows[x].state = "delivered" => rows'[x].state # "dropped"]_vars

\* Every delivery that is enqueued is in the end delivered, given up or dropped, with
\* crashes of the dispatchers and stale outcomes in between (Run, lease, fail).
EveryDeliverySettles ==
    \A x \in Delivery : (rows[x].state = "pending") ~> (rows[x].state # "pending")
=============================================================================
