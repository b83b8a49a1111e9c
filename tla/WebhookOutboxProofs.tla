------------------------ MODULE WebhookOutboxProofs -------------------------
(***************************************************************************)
(* Theorems about the webhook outbox, for any runs, messages, dispatchers, *)
(* batch sizes and bounds on faults.                                       *)
(***************************************************************************)
EXTENDS WebhookOutbox, FiniteSetTheorems, TLAPS

Stage == {"IDLE", "READ", "DROP", "POST", "SUCCEED", "FAIL"}

OutboxRow == [state : RowState, inc : Incarnation, attempts : Nat]
LeasedJob == [at : Stage, attempts : Nat, inc : Incarnation]

\* The types that the proofs of the steps need: an attempt count is any number.  That the
\* counts have the bounds of TypeOK takes more (Bounded).
Types ==
    /\ tenant \in [inc : Incarnation, hook : BOOLEAN]
    /\ runs \in [Run -> [status : RunStatus, inc : Incarnation]]
    /\ owners \in [Run -> SUBSET Incarnation]
    /\ rows \in [Delivery -> OutboxRow]
    /\ jobs \in [Dispatcher -> [Delivery -> LeasedJob]]
    /\ posted \in [Delivery -> SUBSET Incarnation]
    /\ tries \in [Delivery -> 0 .. MaxAttempts]

OfRun == Synthetic \cup Completion

\* Only a row that exists is leased.
Leased ==
    \A d \in Dispatcher, x \in Delivery : jobs[d][x].at # "IDLE" => rows[x].state # "NONE"

\* A run was claimed under the incarnation its intent stores; a pending delivery about a
\* run, and a post of one that was decided, name an incarnation that claimed the run.
Owned ==
    /\ \A r \in Run : runs[r].status # "NEW" => runs[r].inc \in owners[r]
    /\ \A x \in OfRun : rows[x].state = "pending" => rows[x].inc \in owners[x.of] \ {0}
    /\ \A d \in Dispatcher, x \in OfRun :
          jobs[d][x].at = "POST" => jobs[d][x].inc \in owners[x.of] \ {0}
    /\ OwnReceiver

\* A completion that is enqueued is that of a completed run, whose synthetic deliveries
\* wait no longer.
Superseded ==
    \A x \in Synthetic :
        rows[[of |-> x.of, key |-> "completed"]].state # "NONE" =>
            runs[x.of].status = "COMPLETED" /\ rows[x].state # "pending"

\* No count is ahead of the posts that failed.
Counted ==
    /\ \A x \in Delivery :
          rows[x].state = "pending" => rows[x].attempts < MaxAttempts /\ rows[x].attempts <= tries[x]
    /\ \A d \in Dispatcher, x \in Delivery :
          /\ jobs[d][x].at # "IDLE" =>
                jobs[d][x].attempts < MaxAttempts /\ jobs[d][x].attempts <= tries[x]
          /\ jobs[d][x].at = "FAIL" => jobs[d][x].attempts + 1 <= tries[x]
    /\ GivenUpAfterAllTries

\* Of the dispatchers that work on x each can still raise its count by one, and all of
\* them together not beyond the bound: succeed counts without looking at the row.
Working(x) == {d \in Dispatcher : jobs[d][x].at # "IDLE"}
Room(x) == rows[x].attempts + Cardinality(Working(x)) < MaxAttempts + Cardinality(Dispatcher)

\* The parts of TypeOK that Types leaves open.
Bounded ==
    /\ \A x \in Delivery : Room(x)
    /\ \A d \in Dispatcher, x \in Delivery : jobs[d][x].at = "IDLE" => jobs[d][x].attempts = 0

-----------------------------------------------------------------------------
(* The deliveries and the steps *)

\* The three kinds of deliveries are apart, and those about a run name it.
LEMMA Deliveries ==
    /\ Synthetic \subseteq Delivery
    /\ Completion \subseteq Delivery
    /\ \A x \in OfRun : x.of \in Run
    /\ \A r \in Run : [of |-> r, key |-> "completed"] \in Completion \ Synthetic
    /\ \A r \in Run, reason \in Reason : [of |-> r, key |-> reason] \in Synthetic
    /\ \A m \in Message : [of |-> m, key |-> "agent"] \in Delivery \ OfRun
    /\ \A x \in Completion : x = [of |-> x.of, key |-> "completed"]
<1>0. /\ \A x \in Synthetic : x.key \in Reason
      /\ \A x \in Completion : x.key = "completed"
  BY DEF Synthetic, Completion
<1>1. Synthetic \subseteq Delivery /\ Completion \subseteq Delivery
  BY DEF Delivery
<1>2. \A x \in OfRun : x.of \in Run
  BY DEF Synthetic, Completion, OfRun
<1>3. \A r \in Run : [of |-> r, key |-> "completed"] \in Completion
  BY DEF Completion
<1>4. \A r \in Run : [of |-> r, key |-> "completed"] \notin Synthetic
  <2> SUFFICES ASSUME NEW r \in Run, [of |-> r, key |-> "completed"] \in Synthetic
               PROVE  FALSE
    OBVIOUS
  <2>1. [of |-> r, key |-> "completed"].key \in Reason
    BY <1>0
  <2> QED
    BY <2>1, OutboxAssumption DEF OutboxAssumption
<1>5. \A r \in Run, reason \in Reason : [of |-> r, key |-> reason] \in Synthetic
  BY DEF Synthetic
<1>6. \A m \in Message : [of |-> m, key |-> "agent"] \in Delivery
  BY DEF Delivery
<1>7. \A m \in Message : [of |-> m, key |-> "agent"] \notin OfRun
  <2> SUFFICES ASSUME NEW m \in Message, [of |-> m, key |-> "agent"] \in OfRun
               PROVE  FALSE
    OBVIOUS
  <2>1. [of |-> m, key |-> "agent"].key \in Reason \cup {"completed"}
    BY <1>0 DEF OfRun
  <2> QED
    BY <2>1, OutboxAssumption DEF OutboxAssumption
<1>8. \A x \in Completion : x = [of |-> x.of, key |-> "completed"]
  BY DEF Completion
<1> QED
  BY <1>1, <1>2, <1>3, <1>4, <1>5, <1>6, <1>7, <1>8

\* The members of the state sets and the least incarnation, which the steps write.
LEMMA Values ==
    /\ {"IDLE", "READ", "DROP", "POST", "SUCCEED", "FAIL"} \subseteq Stage
    /\ {"NONE", "pending", "delivered", "failed", "dropped"} \subseteq RowState
    /\ {"NEW", "QUEUED", "RUNNING", "LOST", "INTERRUPTED", "COMPLETED"} \subseteq RunStatus
    /\ Incarnation \subseteq Nat
    /\ 0 \in Incarnation
    /\ \A i \in Incarnation : i < MaxIncarnation => i + 1 \in Incarnation
BY OutboxAssumption DEF OutboxAssumption, Stage, RowState, RunStatus, Incarnation

\* The steps of Next, by the dispatcher, run and delivery they are about.
LEMMA NextCases ==
    ASSUME Next
    PROVE  \/ announceNewTenant
           \/ announceNoWebhook
           \/ \E r \in Run : claim(r)
           \/ \E r \in Run : applyRunStarted(r)
           \/ \E r \in Run : applyRunCompleted(r)
           \/ \E r \in Run, reason \in Reason : markInterrupted(r, reason)
           \/ \E m \in Message : EnqueueTenantAgentWebhook(m)
           \/ \E d \in Dispatcher, batch \in SUBSET Delivery : lease(d, batch)
           \/ \E d \in Dispatcher, x \in Delivery : currentDecision(d, x)
           \/ \E d \in Dispatcher, x \in Delivery : dropWebhookDelivery(d, x)
           \/ \E d \in Dispatcher, x \in Delivery : post(d, x)
           \/ \E d \in Dispatcher, x \in Delivery : succeed(d, x)
           \/ \E d \in Dispatcher, x \in Delivery : fail(d, x)
           \/ \E d \in Dispatcher, x \in Delivery : statementFails(d, x)
           \/ \E d \in Dispatcher : crash(d)
BY DEF Next, deliver

-----------------------------------------------------------------------------
(* What the enqueues and the jobs write *)

\* The row of a run's end waits for the incarnation that claimed the run, or is dropped.
LEMMA RunRow ==
    ASSUME Types, NEW r \in Run
    PROVE  /\ runDelivery(r) \in OutboxRow
           /\ runDelivery(r).attempts = 0
           /\ \/ /\ runDelivery(r).state = "pending"
                 /\ runDelivery(r).inc = runs[r].inc
                 /\ runs[r].inc # 0
              \/ runDelivery(r).state = "dropped"
<1>1. runs[r].inc \in Incarnation
  BY DEF Types
<1>2. CASE runs[r].inc = 0
  <2>1. runDelivery(r) = [state |-> "dropped", inc |-> 0, attempts |-> 0]
    BY <1>2 DEF runDelivery, insertDroppedWebhookDelivery, NoRow
  <2> QED
    BY <2>1, Values DEF OutboxRow
<1>3. CASE runs[r].inc # 0
  <2>1. runDelivery(r) = [state |-> "pending", inc |-> runs[r].inc, attempts |-> 0]
    BY <1>3 DEF runDelivery, insertWebhookDelivery, NoRow
  <2> QED
    BY <1>1, <1>3, <2>1, Values DEF OutboxRow
<1> QED
  BY <1>2, <1>3

\* A sweep writes at most the row of its run and reason, where there was none.
LEMMA InterruptedRows ==
    ASSUME Types, NEW r \in Run, NEW reason \in Reason,
           rows' = enqueueInterruptedWebhookDelivery(r, reason)
    PROVE  /\ rows' \in [Delivery -> OutboxRow]
           /\ \A y \in Delivery :
                 \/ rows'[y] = rows[y]
                 \/ /\ y = [of |-> r, key |-> reason]
                    /\ rows[y].state = "NONE"
                    /\ rows'[y] = runDelivery(r)
<1> DEFINE x == [of |-> r, key |-> reason]
<1>1. x \in Delivery
  BY Deliveries
<1>2. rows' = rows \/ (rows[x].state = "NONE" /\ rows' = [rows EXCEPT ![x] = runDelivery(r)])
  BY DEF enqueueInterruptedWebhookDelivery
<1> HIDE DEF x
<1>3. QED
  BY <1>1, <1>2, RunRow DEF Types, x

\* A completion writes at most its own row, where there was none, and drops synthetic
\* rows of its run that were pending: all of them if its own row is new.
LEMMA CompletedRows ==
    ASSUME Types, NEW r \in Run, rows' = enqueueWebhookDelivery(r)
    PROVE  /\ rows' \in [Delivery -> OutboxRow]
           /\ \A y \in Delivery :
                 \/ rows'[y] = rows[y]
                 \/ /\ y = [of |-> r, key |-> "completed"]
                    /\ rows[y].state = "NONE"
                    /\ rows'[y] = runDelivery(r)
                 \/ /\ y \in Synthetic /\ y.of = r
                    /\ rows[y].state = "pending"
                    /\ rows'[y].state = "dropped" /\ rows'[y].attempts = rows[y].attempts
           /\ rows'[[of |-> r, key |-> "completed"]] # rows[[of |-> r, key |-> "completed"]] =>
                 \A y \in Synthetic : y.of = r => rows'[y].state # "pending"
<1> DEFINE x == [of |-> r, key |-> "completed"]
           superseded(y) == y \in Synthetic /\ y.of = r /\ rows[y].state = "pending"
           new == [y \in Delivery |->
                     IF y = x /\ rows[x].state = "NONE" THEN runDelivery(r)
                     ELSE IF superseded(y) THEN [rows[y] EXCEPT !.state = "dropped"]
                     ELSE rows[y]]
<1>1. rows' = rows \/ rows' = new
  BY DEF enqueueWebhookDelivery
<1>2. x \in Delivery /\ x \notin Synthetic
  BY Deliveries
<1>3. CASE rows' = rows
  BY <1>3 DEF Types
<1>4. CASE rows' = new
  <2>1. \A y \in Delivery : rows[y] \in OutboxRow
    BY DEF Types
  <2>2. \A y \in Delivery : [rows[y] EXCEPT !.state = "dropped"] \in OutboxRow
    BY <2>1, Values DEF OutboxRow
  <2>3. \A y \in Delivery :
           /\ [rows[y] EXCEPT !.state = "dropped"].state = "dropped"
           /\ [rows[y] EXCEPT !.state = "dropped"].attempts = rows[y].attempts
    BY <2>1 DEF OutboxRow
  <2>4. rows' \in [Delivery -> OutboxRow]
    BY <1>4, <2>1, <2>2, RunRow
  <2>5. \A y \in Synthetic : y.of = r => rows'[y].state # "pending"
    BY <1>2, <1>4, <2>3, Deliveries
  <2>6. \A y \in Delivery :
           \/ rows'[y] = rows[y]
           \/ y = x /\ rows[y].state = "NONE" /\ rows'[y] = runDelivery(r)
           \/ /\ superseded(y)
              /\ rows'[y].state = "dropped" /\ rows'[y].attempts = rows[y].attempts
    BY <1>4, <2>3
  <2> QED
    BY <2>4, <2>5, <2>6
<1> QED
  BY <1>1, <1>3, <1>4

\* A step of deliver writes one job.
LEMMA JobWritten ==
    ASSUME Types, NEW d \in Dispatcher, NEW x \in Delivery, NEW j \in LeasedJob,
           jobs' = [jobs EXCEPT ![d][x] = j]
    PROVE  /\ jobs' \in [Dispatcher -> [Delivery -> LeasedJob]]
           /\ jobs'[d][x] = j
           /\ \A e \in Dispatcher, y \in Delivery : e # d \/ y # x => jobs'[e][y] = jobs[e][y]
BY DEF Types

JobAt(d, x, at, inc) == [jobs EXCEPT ![d][x].at = at, ![d][x].inc = inc]

\* The same for a job that goes on with another stage.
LEMMA JobGoesOn ==
    ASSUME Types, NEW d \in Dispatcher, NEW x \in Delivery, NEW at \in Stage, NEW inc \in Incarnation
    PROVE  jobs' = JobAt(d, x, at, inc) =>
             /\ jobs' \in [Dispatcher -> [Delivery -> LeasedJob]]
             /\ jobs'[d][x].at = at /\ jobs'[d][x].inc = inc
             /\ jobs'[d][x].attempts = jobs[d][x].attempts
             /\ \A e \in Dispatcher, y \in Delivery : e # d \/ y # x => jobs'[e][y] = jobs[e][y]
<1>1. jobs[d][x] \in LeasedJob
  BY DEF Types
<1>2. PICK j : j = [jobs[d][x] EXCEPT !.at = at, !.inc = inc]
  OBVIOUS
<1>3. /\ j \in LeasedJob
      /\ j.at = at /\ j.inc = inc
      /\ j.attempts = jobs[d][x].attempts
  BY <1>1, <1>2 DEF LeasedJob
<1>4. ASSUME jobs' = JobAt(d, x, at, inc)
      PROVE  jobs' = [jobs EXCEPT ![d][x] = j]
  BY <1>1, <1>2, <1>4 DEF Types, LeasedJob, JobAt
<1>5. ASSUME jobs' = [jobs EXCEPT ![d][x] = j]
      PROVE  /\ jobs' \in [Dispatcher -> [Delivery -> LeasedJob]]
             /\ jobs'[d][x] = j
             /\ \A e \in Dispatcher, y \in Delivery : e # d \/ y # x => jobs'[e][y] = jobs[e][y]
  BY <1>3, <1>5 DEF Types
<1> QED
  BY <1>3, <1>4, <1>5

\* The writes of an outcome.
LEMMA OutcomeWritten ==
    ASSUME Types, NEW x \in Delivery, NEW st \in RowState, NEW n \in Nat
    PROVE  /\ rows' = [rows EXCEPT ![x].state = st, ![x].attempts = n] =>
                /\ rows' \in [Delivery -> OutboxRow]
                /\ rows'[x].state = st /\ rows'[x].attempts = n /\ rows'[x].inc = rows[x].inc
                /\ \A y \in Delivery : y # x => rows'[y] = rows[y]
           /\ rows' = [rows EXCEPT ![x].attempts = n] =>
                /\ rows' \in [Delivery -> OutboxRow]
                /\ rows'[x].state = rows[x].state /\ rows'[x].attempts = n
                /\ rows'[x].inc = rows[x].inc
                /\ \A y \in Delivery : y # x => rows'[y] = rows[y]
           /\ rows' = [rows EXCEPT ![x].state = st] =>
                /\ rows' \in [Delivery -> OutboxRow]
                /\ rows'[x].state = st /\ rows'[x].attempts = rows[x].attempts
                /\ rows'[x].inc = rows[x].inc
                /\ \A y \in Delivery : y # x => rows'[y] = rows[y]
<1>1. rows[x] \in OutboxRow
  BY DEF Types
<1>2. ASSUME rows' = [rows EXCEPT ![x].state = st, ![x].attempts = n]
      PROVE  /\ rows' \in [Delivery -> OutboxRow]
             /\ rows'[x].state = st /\ rows'[x].attempts = n /\ rows'[x].inc = rows[x].inc
             /\ \A y \in Delivery : y # x => rows'[y] = rows[y]
  BY <1>1, <1>2 DEF Types, OutboxRow
<1>3. ASSUME rows' = [rows EXCEPT ![x].attempts = n]
      PROVE  /\ rows' \in [Delivery -> OutboxRow]
             /\ rows'[x].state = rows[x].state /\ rows'[x].attempts = n
             /\ rows'[x].inc = rows[x].inc
             /\ \A y \in Delivery : y # x => rows'[y] = rows[y]
  BY <1>1, <1>3 DEF Types, OutboxRow
<1>4. ASSUME rows' = [rows EXCEPT ![x].state = st]
      PROVE  /\ rows' \in [Delivery -> OutboxRow]
             /\ rows'[x].state = st /\ rows'[x].attempts = rows[x].attempts
             /\ rows'[x].inc = rows[x].inc
             /\ \A y \in Delivery : y # x => rows'[y] = rows[y]
  BY <1>1, <1>4 DEF Types, OutboxRow
<1> QED
  BY <1>2, <1>3, <1>4

-----------------------------------------------------------------------------
(* What the steps of a dispatcher do *)

OtherJobs(d, x) ==
    \A e \in Dispatcher, y \in Delivery : e # d \/ y # x => jobs'[e][y] = jobs[e][y]
OtherRows(x) == \A y \in Delivery : y # x => rows'[y] = rows[y]

\* The tables that no dispatcher writes.
RunTables == <<tenant, runs, owners>>

\* A dispatcher without a leased row.
LEMMA IdleJob == Idle \in LeasedJob /\ Idle.at = "IDLE" /\ Idle.attempts = 0
BY Values DEF Idle, LeasedJob

\* A job that ends.
LEMMA JobEnds ==
    ASSUME Types, NEW d \in Dispatcher, NEW x \in Delivery, jobEnds(d, x)
    PROVE  /\ jobs' \in [Dispatcher -> [Delivery -> LeasedJob]]
           /\ jobs'[d][x].at = "IDLE" /\ jobs'[d][x].attempts = 0
           /\ OtherJobs(d, x)
<1>1. jobs' = [jobs EXCEPT ![d][x] = Idle]
  BY DEF jobEnds
<1>2. /\ jobs' \in [Dispatcher -> [Delivery -> LeasedJob]]
      /\ jobs'[d][x] = Idle
      /\ \A e \in Dispatcher, y \in Delivery : e # d \/ y # x => jobs'[e][y] = jobs[e][y]
  BY <1>1, IdleJob DEF Types
<1> QED
  BY <1>2, IdleJob DEF OtherJobs

\* A lease gives out pending rows with their counts.
LEMMA LeaseStep ==
    ASSUME Types, NEW d \in Dispatcher, NEW batch \in SUBSET Delivery, lease(d, batch)
    PROVE  /\ Types'
           /\ UNCHANGED <<RunTables, rows, posted, tries>>
           /\ \A e \in Dispatcher, x \in Delivery :
                 \/ jobs'[e][x] = jobs[e][x]
                 \/ jobs'[e][x].at = "IDLE" /\ jobs'[e][x].attempts = 0
                 \/ /\ rows[x].state = "pending"
                    /\ jobs'[e][x].at = "READ"
                    /\ jobs'[e][x].attempts = rows[x].attempts
<1> DEFINE J(x) == IF x \in batch THEN [Idle EXCEPT !.at = "READ", !.attempts = rows[x].attempts]
                   ELSE Idle
           new == [x \in Delivery |-> J(x)]
<1>1. jobs' = [jobs EXCEPT ![d] = new]
  BY DEF lease
<1>2. \A x \in Delivery : rows[x].attempts \in Nat
  BY DEF Types, OutboxRow
<1>3. \A x \in Delivery :
         /\ J(x) \in LeasedJob
         /\ \/ J(x).at = "IDLE" /\ J(x).attempts = 0
            \/ /\ rows[x].state = "pending"
               /\ J(x).at = "READ"
               /\ J(x).attempts = rows[x].attempts
  <2> SUFFICES ASSUME NEW x \in Delivery
               PROVE  /\ J(x) \in LeasedJob
                      /\ \/ J(x).at = "IDLE" /\ J(x).attempts = 0
                         \/ /\ rows[x].state = "pending"
                            /\ J(x).at = "READ"
                            /\ J(x).attempts = rows[x].attempts
    OBVIOUS
  <2>1. CASE x \in batch
    <3>1. J(x) = [at |-> "READ", attempts |-> rows[x].attempts, inc |-> 0]
      BY <2>1 DEF Idle
    <3> QED
      BY <2>1, <3>1, <1>2, Values DEF LeasedJob, lease
  <2>2. CASE x \notin batch
    BY <2>2, IdleJob
  <2> QED
    BY <2>1, <2>2
<1> HIDE DEF J
<1>4. new \in [Delivery -> LeasedJob] /\ \A x \in Delivery : new[x] = J(x)
  BY <1>3
<1> HIDE DEF new
<1>5. jobs' \in [Dispatcher -> [Delivery -> LeasedJob]]
  BY <1>1, <1>4 DEF Types
<1>6. \A e \in Dispatcher : jobs'[e] = jobs[e] \/ jobs'[e] = new
  BY <1>1 DEF Types
<1>7. UNCHANGED <<tenant, runs, owners, rows, posted, tries>>
  BY DEF lease, runVars, historyVars
<1> QED
  BY <1>3, <1>4, <1>5, <1>6, <1>7 DEF Types, RunTables

\* The decision goes on only with a row that is pending, and copies its incarnation.
LEMMA DecisionStep ==
    ASSUME Types, NEW d \in Dispatcher, NEW x \in Delivery, currentDecision(d, x)
    PROVE  /\ Types'
           /\ UNCHANGED <<RunTables, rows, posted, tries>>
           /\ jobs[d][x].at = "READ"
           /\ \/ jobs'[d][x].at = "IDLE" /\ jobs'[d][x].attempts = 0
              \/ /\ rows[x].state = "pending"
                 /\ jobs'[d][x].at \in {"POST", "DROP"}
                 /\ jobs'[d][x].inc = rows[x].inc
                 /\ jobs'[d][x].attempts = jobs[d][x].attempts
           /\ OtherJobs(d, x)
<1>1. UNCHANGED <<tenant, runs, owners, rows, posted, tries>> /\ jobs[d][x].at = "READ"
  BY DEF currentDecision, runVars, historyVars
<1>2. CASE rows[x].state # "pending"
  BY <1>1, <1>2, JobEnds DEF currentDecision, Types, RunTables
<1>3. CASE rows[x].state = "pending"
  <2> DEFINE inc == rows[x].inc
  <2>1. PICK at \in {"POST", "DROP"} : jobs' = JobAt(d, x, at, inc)
    BY <1>3 DEF currentDecision, hasWebhook, JobAt
  <2>2. at \in Stage /\ inc \in Incarnation
    BY <2>1, Values DEF Types, OutboxRow
  <2>3. jobs' = JobAt(d, x, at, inc) =>
           /\ jobs' \in [Dispatcher -> [Delivery -> LeasedJob]]
           /\ jobs'[d][x].at = at /\ jobs'[d][x].inc = inc
           /\ jobs'[d][x].attempts = jobs[d][x].attempts
           /\ OtherJobs(d, x)
    BY <2>2, JobGoesOn DEF OtherJobs
  <2> QED
    BY <1>1, <1>3, <2>1, <2>3 DEF Types, RunTables
<1> QED
  BY <1>2, <1>3

\* The drop changes a pending row or none.
LEMMA DropStep ==
    ASSUME Types, NEW d \in Dispatcher, NEW x \in Delivery, dropWebhookDelivery(d, x)
    PROVE  /\ Types'
           /\ UNCHANGED <<RunTables, posted, tries>>
           /\ jobs'[d][x].at = "IDLE" /\ jobs'[d][x].attempts = 0
           /\ \/ rows'[x] = rows[x]
              \/ /\ rows[x].state = "pending" /\ rows'[x].state = "dropped"
                 /\ rows'[x].attempts = rows[x].attempts
           /\ OtherJobs(d, x) /\ OtherRows(x)
<1>1. UNCHANGED <<tenant, runs, owners, posted, tries>> /\ jobEnds(d, x)
  BY DEF dropWebhookDelivery, runVars, historyVars
<1>2. \/ rows' = rows
      \/ rows[x].state = "pending" /\ rows' = [rows EXCEPT ![x].state = "dropped"]
  BY DEF dropWebhookDelivery
<1>3. /\ rows' \in [Delivery -> OutboxRow]
      /\ \/ rows'[x] = rows[x]
         \/ /\ rows[x].state = "pending" /\ rows'[x].state = "dropped"
            /\ rows'[x].attempts = rows[x].attempts
      /\ OtherRows(x)
  <2>1. CASE rows' = rows
    BY <2>1 DEF Types, OtherRows
  <2>2. CASE rows[x].state = "pending" /\ rows' = [rows EXCEPT ![x].state = "dropped"]
    BY <2>2, OutcomeWritten, Values DEF OtherRows
  <2> QED
    BY <1>2, <2>1, <2>2
<1> QED
  BY <1>1, <1>3, JobEnds DEF Types, RunTables

\* The post reaches the receiver of the job, and a failed one is counted.
LEMMA PostStep ==
    ASSUME Types, NEW d \in Dispatcher, NEW x \in Delivery, post(d, x)
    PROVE  /\ Types'
           /\ UNCHANGED <<RunTables, rows>>
           /\ jobs[d][x].at = "POST"
           /\ posted' = [posted EXCEPT ![x] = @ \cup {jobs[d][x].inc}]
           /\ jobs'[d][x].attempts = jobs[d][x].attempts
           /\ \/ jobs'[d][x].at = "SUCCEED" /\ UNCHANGED tries
              \/ /\ jobs'[d][x].at = "FAIL"
                 /\ tries' = [tries EXCEPT ![x] = IF @ < MaxAttempts THEN @ + 1 ELSE @]
           /\ OtherJobs(d, x)
<1>1. /\ UNCHANGED <<tenant, runs, owners, rows>> /\ jobs[d][x].at = "POST"
      /\ posted' = [posted EXCEPT ![x] = @ \cup {jobs[d][x].inc}]
  BY DEF post, runVars
<1>2. PICK at \in {"SUCCEED", "FAIL"} :
         /\ jobs' = JobAt(d, x, at, 0)
         /\ \/ at = "SUCCEED" /\ UNCHANGED tries
            \/ /\ at = "FAIL"
               /\ tries' = [tries EXCEPT ![x] = IF @ < MaxAttempts THEN @ + 1 ELSE @]
  BY DEF post, jobGoes, JobAt
<1>3. jobs' = JobAt(d, x, at, 0) =>
         /\ jobs' \in [Dispatcher -> [Delivery -> LeasedJob]]
         /\ jobs'[d][x].at = at
         /\ jobs'[d][x].attempts = jobs[d][x].attempts
         /\ OtherJobs(d, x)
  <2>1. at \in Stage /\ 0 \in Incarnation
    BY Values
  <2> QED
    BY <2>1, JobGoesOn DEF OtherJobs
<1>4. posted' \in [Delivery -> SUBSET Incarnation]
  BY <1>1 DEF Types, LeasedJob
<1>5. tries' \in [Delivery -> 0 .. MaxAttempts]
  BY <1>2, OutboxAssumption DEF Types, OutboxAssumption
<1> QED
  BY <1>1, <1>2, <1>3, <1>4, <1>5 DEF Types, RunTables

\* A success marks the row whatever it holds.
LEMMA SucceedStep ==
    ASSUME Types, NEW d \in Dispatcher, NEW x \in Delivery, succeed(d, x)
    PROVE  /\ Types'
           /\ UNCHANGED <<RunTables, posted, tries>>
           /\ jobs[d][x].at = "SUCCEED"
           /\ jobs'[d][x].at = "IDLE" /\ jobs'[d][x].attempts = 0
           /\ rows'[x].state = "delivered" /\ rows'[x].attempts = rows[x].attempts + 1
           /\ OtherJobs(d, x) /\ OtherRows(x)
<1>1. /\ UNCHANGED <<tenant, runs, owners, posted, tries>> /\ jobEnds(d, x)
      /\ jobs[d][x].at = "SUCCEED"
  BY DEF succeed, runVars, historyVars
<1>2. PICK n : n = rows[x].attempts + 1
  OBVIOUS
<1>3. n \in Nat /\ rows' = [rows EXCEPT ![x].state = "delivered", ![x].attempts = n]
  BY <1>2 DEF succeed, Types, OutboxRow
<1>4. /\ rows' \in [Delivery -> OutboxRow]
      /\ rows'[x].state = "delivered" /\ rows'[x].attempts = n
      /\ OtherRows(x)
  <2>1. "delivered" \in RowState /\ rows[x] \in OutboxRow
    BY Values DEF Types
  <2> QED
    BY <1>3, <2>1 DEF Types, OutboxRow, OtherRows
<1> QED
  BY <1>1, <1>2, <1>4, JobEnds DEF Types, RunTables

\* A failure writes one attempt more than the lease read, and fails the row at the last.
LEMMA FailStep ==
    ASSUME Types, NEW d \in Dispatcher, NEW x \in Delivery, fail(d, x)
    PROVE  /\ Types'
           /\ UNCHANGED <<RunTables, posted, tries>>
           /\ jobs[d][x].at = "FAIL"
           /\ jobs'[d][x].at = "IDLE" /\ jobs'[d][x].attempts = 0
           /\ rows'[x].attempts = jobs[d][x].attempts + 1
           /\ rows'[x].inc = rows[x].inc
           /\ IF jobs[d][x].attempts + 1 >= MaxAttempts THEN rows'[x].state = "failed"
              ELSE rows'[x].state = rows[x].state
           /\ OtherJobs(d, x) /\ OtherRows(x)
<1>1. /\ UNCHANGED <<tenant, runs, owners, posted, tries>> /\ jobEnds(d, x)
      /\ jobs[d][x].at = "FAIL"
  BY DEF fail, runVars, historyVars
<1>2. PICK n : n = jobs[d][x].attempts + 1
  OBVIOUS
<1>3. n \in Nat
  BY <1>2 DEF Types, LeasedJob
<1>4. IF n >= MaxAttempts
      THEN rows' = [rows EXCEPT ![x].state = "failed", ![x].attempts = n]
      ELSE rows' = [rows EXCEPT ![x].attempts = n]
  BY <1>2, Zenon DEF fail
<1>5. /\ rows' \in [Delivery -> OutboxRow]
      /\ rows'[x].attempts = n
      /\ rows'[x].inc = rows[x].inc
      /\ IF n >= MaxAttempts THEN rows'[x].state = "failed" ELSE rows'[x].state = rows[x].state
      /\ OtherRows(x)
  <2>1. CASE n >= MaxAttempts
    BY <1>3, <1>4, <2>1, OutcomeWritten, Values DEF OtherRows
  <2>2. CASE ~(n >= MaxAttempts)
    BY <1>3, <1>4, <2>2, OutcomeWritten, Values DEF OtherRows
  <2> QED
    BY <2>1, <2>2
<1> QED
  BY <1>1, <1>2, <1>5, JobEnds DEF Types, RunTables

\* A failed statement or a crash ends jobs and does nothing else.
LEMMA FaultStep ==
    ASSUME Types,
           \/ \E d \in Dispatcher, x \in Delivery : statementFails(d, x)
           \/ \E d \in Dispatcher : crash(d)
    PROVE  /\ Types'
           /\ UNCHANGED <<RunTables, rows, posted, tries>>
           /\ \A e \in Dispatcher, y \in Delivery :
                 jobs'[e][y] = jobs[e][y] \/ (jobs'[e][y].at = "IDLE" /\ jobs'[e][y].attempts = 0)
<1>1. ASSUME NEW d \in Dispatcher, NEW x \in Delivery, statementFails(d, x)
      PROVE  /\ Types'
             /\ UNCHANGED <<RunTables, rows, posted, tries>>
             /\ \A e \in Dispatcher, y \in Delivery :
                   jobs'[e][y] = jobs[e][y] \/ (jobs'[e][y].at = "IDLE" /\ jobs'[e][y].attempts = 0)
  <2>1. UNCHANGED <<tenant, runs, owners, rows, posted, tries>> /\ jobEnds(d, x)
    BY <1>1 DEF statementFails, runVars, historyVars
  <2> QED
    BY <2>1, JobEnds DEF Types, RunTables, OtherJobs
<1>2. ASSUME NEW d \in Dispatcher, crash(d)
      PROVE  /\ Types'
             /\ UNCHANGED <<RunTables, rows, posted, tries>>
             /\ \A e \in Dispatcher, y \in Delivery :
                   jobs'[e][y] = jobs[e][y] \/ (jobs'[e][y].at = "IDLE" /\ jobs'[e][y].attempts = 0)
  <2>1. UNCHANGED <<tenant, runs, owners, rows, posted, tries>>
    BY <1>2 DEF crash, runVars, historyVars
  <2>2. jobs' = [jobs EXCEPT ![d] = [x \in Delivery |-> Idle]]
    BY <1>2 DEF crash
  <2> QED
    BY <2>1, <2>2, IdleJob DEF Types, RunTables
<1> QED
  BY <1>1, <1>2

-----------------------------------------------------------------------------
(* What the steps of tenants and runs do *)

\* Announcements change the tenant alone.
LEMMA AnnounceStep ==
    ASSUME Types, announceNewTenant \/ announceNoWebhook
    PROVE  Types' /\ UNCHANGED <<runs, owners, rows, jobs, posted, tries>>
<1>1. UNCHANGED <<runs, owners, rows, jobs, posted, tries>>
  BY DEF announceNewTenant, announceNoWebhook, runVars, historyVars
<1>2. tenant.inc \in Incarnation
  BY DEF Types
<1>3. ASSUME announceNewTenant PROVE tenant' \in [inc : Incarnation, hook : BOOLEAN]
  <2>1. tenant.inc + 1 \in Incarnation
    BY <1>2, <1>3, Values DEF announceNewTenant
  <2>2. PICK inc : inc = tenant.inc + 1
    OBVIOUS
  <2>3. \E hook \in BOOLEAN : tenant' = [inc |-> inc, hook |-> hook]
    BY <1>3, <2>2 DEF announceNewTenant
  <2> QED
    BY <2>1, <2>2, <2>3
<1>4. ASSUME announceNoWebhook PROVE tenant' \in [inc : Incarnation, hook : BOOLEAN]
  BY <1>4 DEF announceNoWebhook, Types
<1> QED
  BY <1>1, <1>3, <1>4 DEF Types

\* A claim stores an incarnation and makes it an owner.
LEMMA ClaimStep ==
    ASSUME Types, NEW r \in Run, claim(r)
    PROVE  /\ Types'
           /\ UNCHANGED <<rows, jobs, posted, tries>>
           /\ runs[r].status \in {"NEW", "QUEUED"}
           /\ runs'[r].status = "QUEUED" /\ runs'[r].inc \in owners'[r]
           /\ \A s \in Run : s # r => runs'[s] = runs[s]
           /\ \A s \in Run : owners[s] \subseteq owners'[s]
BY Values DEF Types, claim, historyVars

\* A start changes the status alone.
LEMMA StartedStep ==
    ASSUME Types, NEW r \in Run, applyRunStarted(r)
    PROVE  /\ Types'
           /\ UNCHANGED <<owners, rows, jobs, posted, tries>>
           /\ runs[r].status \in {"QUEUED", "LOST"}
           /\ runs'[r].status = "RUNNING" /\ runs'[r].inc = runs[r].inc
           /\ \A s \in Run : s # r => runs'[s] = runs[s]
BY Values DEF Types, applyRunStarted, historyVars

\* A mark changes an open run and enqueues.
LEMMA InterruptedStep ==
    ASSUME Types, NEW r \in Run, NEW reason \in Reason, markInterrupted(r, reason)
    PROVE  /\ Types'
           /\ UNCHANGED <<owners, jobs, posted, tries>>
           /\ rows' = enqueueInterruptedWebhookDelivery(r, reason)
           /\ runs[r].status \in {"QUEUED", "RUNNING"}
           /\ runs'[r].status # "NEW" /\ runs'[r].inc = runs[r].inc
           /\ \A s \in Run : s # r => runs'[s] = runs[s]
<1>1. /\ UNCHANGED <<tenant, owners, jobs, posted, tries>>
      /\ rows' = enqueueInterruptedWebhookDelivery(r, reason)
      /\ runs[r].status \in {"QUEUED", "RUNNING"}
  BY DEF markInterrupted, historyVars
<1>2. /\ runs' \in [Run -> [status : RunStatus, inc : Incarnation]]
      /\ runs'[r].status # "NEW" /\ runs'[r].inc = runs[r].inc
      /\ \A s \in Run : s # r => runs'[s] = runs[s]
  BY Values DEF Types, markInterrupted
<1>3. rows' \in [Delivery -> OutboxRow]
  BY <1>1, InterruptedRows
<1> QED
  BY <1>1, <1>2, <1>3 DEF Types

\* A completion ends the run for good and enqueues.
LEMMA CompletedStep ==
    ASSUME Types, NEW r \in Run, applyRunCompleted(r)
    PROVE  /\ Types'
           /\ UNCHANGED <<owners, jobs, posted, tries>>
           /\ rows' = enqueueWebhookDelivery(r)
           /\ runs[r].status # "NEW"
           /\ runs'[r].status = "COMPLETED" /\ runs'[r].inc = runs[r].inc
           /\ \A s \in Run : s # r => runs'[s] = runs[s]
<1>1. /\ UNCHANGED <<tenant, owners, jobs, posted, tries>>
      /\ rows' = enqueueWebhookDelivery(r)
      /\ runs[r].status # "NEW"
  BY DEF applyRunCompleted, historyVars
<1>2. /\ runs' \in [Run -> [status : RunStatus, inc : Incarnation]]
      /\ runs'[r].status = "COMPLETED" /\ runs'[r].inc = runs[r].inc
      /\ \A s \in Run : s # r => runs'[s] = runs[s]
  BY Values DEF Types, applyRunCompleted
<1>3. rows' \in [Delivery -> OutboxRow]
  BY <1>1, CompletedRows
<1> QED
  BY <1>1, <1>2, <1>3 DEF Types

\* The outbox after a completion, row by row.
LEMMA CompletedOutbox ==
    ASSUME Types, NEW r \in Run, applyRunCompleted(r), NEW y \in Delivery
    PROVE  \/ rows'[y] = rows[y]
           \/ rows'[y].state = "dropped"
           \/ /\ y = [of |-> r, key |-> "completed"]
              /\ rows'[y].state = "pending" /\ rows'[y].attempts = 0
              /\ rows'[y].inc = runs[r].inc /\ runs[r].inc # 0
<1>1. rows' = enqueueWebhookDelivery(r)
  BY CompletedStep
<1>2. \/ rows'[y] = rows[y]
      \/ y = [of |-> r, key |-> "completed"] /\ rows'[y] = runDelivery(r)
      \/ rows'[y].state = "dropped"
  BY <1>1, CompletedRows
<1>3. CASE y = [of |-> r, key |-> "completed"] /\ rows'[y] = runDelivery(r)
  BY <1>3, RunRow
<1> QED
  BY <1>2, <1>3

\* A message writes a row of its own.
LEMMA MessageStep ==
    ASSUME Types, NEW m \in Message, EnqueueTenantAgentWebhook(m)
    PROVE  /\ Types'
           /\ UNCHANGED <<RunTables, jobs, posted, tries>>
           /\ \E x \in Delivery \ OfRun :
                 /\ rows[x].state = "NONE"
                 /\ rows'[x].state = "pending" /\ rows'[x].attempts = 0
                 /\ OtherRows(x)
<1>1. PICK x : x = [of |-> m, key |-> "agent"]
  OBVIOUS
<1>2. x \in Delivery \ OfRun
  BY <1>1, Deliveries
<1>3. PICK row : row = [NoRow EXCEPT !.state = "pending", !.inc = tenant.inc]
  OBVIOUS
<1>4. row = [state |-> "pending", inc |-> tenant.inc, attempts |-> 0]
  BY <1>3 DEF NoRow
<1>5. row \in OutboxRow /\ row.state = "pending" /\ row.attempts = 0
  BY <1>4, Values DEF OutboxRow, Types
<1>6. /\ UNCHANGED <<tenant, runs, owners, jobs, posted, tries>>
      /\ rows[x].state = "NONE"
      /\ rows' = [rows EXCEPT ![x] = row]
  BY <1>1, <1>3 DEF EnqueueTenantAgentWebhook, insertWebhookDelivery, runVars, historyVars
<1>7. /\ rows' \in [Delivery -> OutboxRow]
      /\ rows'[x] = row
      /\ OtherRows(x)
  BY <1>2, <1>5, <1>6 DEF Types, OtherRows
<1> QED
  BY <1>2, <1>5, <1>6, <1>7 DEF Types, RunTables

-----------------------------------------------------------------------------
(* The invariants are inductive *)

\* One case per step; so it is for each of the invariants below.
LEMMA TypesKept ==
    ASSUME Types, [Next]_vars
    PROVE  Types'
<1>1. ASSUME announceNewTenant
      PROVE  Types'
  BY <1>1, AnnounceStep
<1>2. ASSUME announceNoWebhook
      PROVE  Types'
  BY <1>2, AnnounceStep
<1>3. ASSUME NEW r \in Run, claim(r)
      PROVE  Types'
  BY <1>3, ClaimStep
<1>4. ASSUME NEW r \in Run, applyRunStarted(r)
      PROVE  Types'
  BY <1>4, StartedStep
<1>5. ASSUME NEW r \in Run, applyRunCompleted(r)
      PROVE  Types'
  BY <1>5, CompletedStep
<1>6. ASSUME NEW r \in Run, NEW reason \in Reason, markInterrupted(r, reason)
      PROVE  Types'
  BY <1>6, InterruptedStep
<1>7. ASSUME NEW m \in Message, EnqueueTenantAgentWebhook(m)
      PROVE  Types'
  BY <1>7, MessageStep
<1>8. ASSUME NEW d \in Dispatcher, NEW batch \in SUBSET Delivery, lease(d, batch)
      PROVE  Types'
  BY <1>8, LeaseStep
<1>9. ASSUME NEW d \in Dispatcher, NEW x \in Delivery, currentDecision(d, x)
      PROVE  Types'
  BY <1>9, DecisionStep
<1>10. ASSUME NEW d \in Dispatcher, NEW x \in Delivery, dropWebhookDelivery(d, x)
      PROVE  Types'
  BY <1>10, DropStep
<1>11. ASSUME NEW d \in Dispatcher, NEW x \in Delivery, post(d, x)
      PROVE  Types'
  BY <1>11, PostStep
<1>12. ASSUME NEW d \in Dispatcher, NEW x \in Delivery, succeed(d, x)
      PROVE  Types'
  BY <1>12, SucceedStep
<1>13. ASSUME NEW d \in Dispatcher, NEW x \in Delivery, fail(d, x)
      PROVE  Types'
  BY <1>13, FailStep
<1>14. ASSUME NEW d \in Dispatcher, NEW x \in Delivery, statementFails(d, x)
      PROVE  Types'
  BY <1>14, FaultStep
<1>15. ASSUME NEW d \in Dispatcher, crash(d)
      PROVE  Types'
  BY <1>15, FaultStep
<1>16. ASSUME UNCHANGED vars
      PROVE  Types'
  BY <1>16 DEF vars, Types
<1> QED
  BY NextCases, <1>1, <1>2, <1>3, <1>4, <1>5, <1>6, <1>7, <1>8, <1>9, <1>10, <1>11, <1>12, <1>13, <1>14, <1>15, <1>16

\* No row goes back to NONE.
LEMMA LeasedKept ==
    ASSUME Types, Leased, [Next]_vars
    PROVE  Leased'
<1>1. ASSUME announceNewTenant
      PROVE  Leased'
  BY <1>1, AnnounceStep DEF Leased
<1>2. ASSUME announceNoWebhook
      PROVE  Leased'
  BY <1>2, AnnounceStep DEF Leased
<1>3. ASSUME NEW r \in Run, claim(r)
      PROVE  Leased'
  BY <1>3, ClaimStep DEF Leased
<1>4. ASSUME NEW r \in Run, applyRunStarted(r)
      PROVE  Leased'
  BY <1>4, StartedStep DEF Leased
<1>5. ASSUME NEW r \in Run, applyRunCompleted(r)
      PROVE  Leased'
  <2>1. \A y \in Delivery : rows'[y] = rows[y] \/ rows'[y].state # "NONE"
    BY <1>5, CompletedStep, CompletedRows, RunRow DEF Types, OutboxRow
  <2> QED
    BY <1>5, <2>1, CompletedStep DEF Leased
<1>6. ASSUME NEW r \in Run, NEW reason \in Reason, markInterrupted(r, reason)
      PROVE  Leased'
  BY <1>6, InterruptedStep, InterruptedRows, RunRow DEF Leased
<1>7. ASSUME NEW m \in Message, EnqueueTenantAgentWebhook(m)
      PROVE  Leased'
  BY <1>7, MessageStep DEF Leased, RunTables, OtherRows
<1>8. ASSUME NEW d \in Dispatcher, NEW batch \in SUBSET Delivery, lease(d, batch)
      PROVE  Leased'
  BY <1>8, LeaseStep DEF Leased, RunTables
<1>9. ASSUME NEW d \in Dispatcher, NEW x \in Delivery, currentDecision(d, x)
      PROVE  Leased'
  BY <1>9, DecisionStep DEF Leased, RunTables, OtherJobs
<1>10. ASSUME NEW d \in Dispatcher, NEW x \in Delivery, dropWebhookDelivery(d, x)
      PROVE  Leased'
  BY <1>10, DropStep DEF Leased, RunTables, OtherJobs, OtherRows
<1>11. ASSUME NEW d \in Dispatcher, NEW x \in Delivery, post(d, x)
      PROVE  Leased'
  BY <1>11, PostStep DEF Leased, RunTables, OtherJobs
<1>12. ASSUME NEW d \in Dispatcher, NEW x \in Delivery, succeed(d, x)
      PROVE  Leased'
  BY <1>12, SucceedStep DEF Leased, RunTables, OtherJobs, OtherRows
<1>13. ASSUME NEW d \in Dispatcher, NEW x \in Delivery, fail(d, x)
      PROVE  Leased'
  BY <1>13, FailStep DEF Leased, RunTables, OtherJobs, OtherRows
<1>14. ASSUME NEW d \in Dispatcher, NEW x \in Delivery, statementFails(d, x)
      PROVE  Leased'
  BY <1>14, FaultStep DEF Leased, RunTables
<1>15. ASSUME NEW d \in Dispatcher, crash(d)
      PROVE  Leased'
  BY <1>15, FaultStep DEF Leased, RunTables
<1>16. ASSUME UNCHANGED vars
      PROVE  Leased'
  BY <1>16 DEF vars, Leased
<1> QED
  BY NextCases, <1>1, <1>2, <1>3, <1>4, <1>5, <1>6, <1>7, <1>8, <1>9, <1>10, <1>11, <1>12, <1>13, <1>14, <1>15, <1>16

\* The incarnation travels from the claim to the row, and from the row to the job.
LEMMA OwnedKept ==
    ASSUME Types, Owned, [Next]_vars
    PROVE  Owned'
<1>1. ASSUME announceNewTenant
      PROVE  Owned'
  BY <1>1, AnnounceStep, Deliveries DEF Owned, OwnReceiver, OfRun
<1>2. ASSUME announceNoWebhook
      PROVE  Owned'
  BY <1>2, AnnounceStep, Deliveries DEF Owned, OwnReceiver, OfRun
<1>3. ASSUME NEW r \in Run, claim(r)
      PROVE  Owned'
  BY <1>3, ClaimStep, Deliveries DEF Owned, OwnReceiver, OfRun
<1>4. ASSUME NEW r \in Run, applyRunStarted(r)
      PROVE  Owned'
  BY <1>4, StartedStep, Deliveries DEF Owned, OwnReceiver, OfRun
<1>5. ASSUME NEW r \in Run, applyRunCompleted(r)
      PROVE  Owned'
  <2>1. \A x \in Delivery :
           \/ rows'[x] = rows[x]
           \/ rows'[x].state = "dropped"
           \/ /\ x = [of |-> r, key |-> "completed"]
              /\ rows'[x].state = "pending" => rows'[x].inc = runs[r].inc /\ runs[r].inc # 0
    BY <1>5, CompletedOutbox
  <2>2. \A s \in Run : runs'[s].status # "NEW" => runs'[s].inc \in owners'[s]
    BY <1>5, CompletedStep DEF Owned
  <2>3. runs[r].inc \in owners[r] /\ UNCHANGED <<owners, jobs, posted>>
    BY <1>5, CompletedStep DEF Owned
  <2>4. \A x \in OfRun : rows'[x].state = "pending" => rows'[x].inc \in owners'[x.of] \ {0}
    BY <2>1, <2>3, Deliveries DEF Owned, OfRun
  <2> QED
    BY <2>2, <2>3, <2>4 DEF Owned, OwnReceiver
<1>6. ASSUME NEW r \in Run, NEW reason \in Reason, markInterrupted(r, reason)
      PROVE  Owned'
  BY <1>6, InterruptedStep, InterruptedRows, RunRow, Deliveries DEF Owned, OwnReceiver, OfRun
<1>7. ASSUME NEW m \in Message, EnqueueTenantAgentWebhook(m)
      PROVE  Owned'
  BY <1>7, MessageStep, Deliveries DEF Owned, OwnReceiver, OfRun, RunTables, OtherRows
<1>8. ASSUME NEW d \in Dispatcher, NEW batch \in SUBSET Delivery, lease(d, batch)
      PROVE  Owned'
  BY <1>8, LeaseStep, Deliveries DEF Owned, OwnReceiver, OfRun, RunTables
<1>9. ASSUME NEW d \in Dispatcher, NEW x \in Delivery, currentDecision(d, x)
      PROVE  Owned'
  BY <1>9, DecisionStep, Deliveries DEF Owned, OwnReceiver, OfRun, RunTables, OtherJobs
<1>10. ASSUME NEW d \in Dispatcher, NEW x \in Delivery, dropWebhookDelivery(d, x)
      PROVE  Owned'
  BY <1>10, DropStep, Deliveries DEF Owned, OwnReceiver, OfRun, RunTables, OtherJobs, OtherRows
<1>11. ASSUME NEW d \in Dispatcher, NEW x \in Delivery, post(d, x)
      PROVE  Owned'
  <2>1. UNCHANGED <<runs, owners, rows>>
    BY <1>11, PostStep DEF RunTables
  <2>2. \A e \in Dispatcher, y \in OfRun :
           jobs'[e][y].at = "POST" => jobs'[e][y].inc \in owners[y.of] \ {0}
    BY <1>11, PostStep, Deliveries DEF Owned, OtherJobs, OfRun
  <2>3. x \in OfRun => jobs[d][x].inc \in owners[x.of] \ {0}
    BY <1>11, PostStep DEF Owned
  <2>4. \A y \in OfRun : posted'[y] \subseteq owners[y.of] \ {0}
    <3>1. posted' = [posted EXCEPT ![x] = @ \cup {jobs[d][x].inc}]
      BY <1>11, PostStep
    <3>2. \A y \in OfRun : y \in Delivery /\ posted[y] \subseteq owners[y.of] \ {0}
      BY Deliveries DEF Owned, OwnReceiver, OfRun
    <3> QED
      BY <2>3, <3>1, <3>2 DEF Types
  <2> QED
    BY <2>1, <2>2, <2>4 DEF Owned, OwnReceiver, OfRun
<1>12. ASSUME NEW d \in Dispatcher, NEW x \in Delivery, succeed(d, x)
      PROVE  Owned'
  BY <1>12, SucceedStep, Deliveries DEF Owned, OwnReceiver, OfRun, RunTables, OtherJobs, OtherRows
<1>13. ASSUME NEW d \in Dispatcher, NEW x \in Delivery, fail(d, x)
      PROVE  Owned'
  BY <1>13, FailStep, Deliveries DEF Owned, OwnReceiver, OfRun, RunTables, OtherJobs, OtherRows
<1>14. ASSUME NEW d \in Dispatcher, NEW x \in Delivery, statementFails(d, x)
      PROVE  Owned'
  BY <1>14, FaultStep, Deliveries DEF Owned, OwnReceiver, OfRun, RunTables
<1>15. ASSUME NEW d \in Dispatcher, crash(d)
      PROVE  Owned'
  BY <1>15, FaultStep, Deliveries DEF Owned, OwnReceiver, OfRun, RunTables
<1>16. ASSUME UNCHANGED vars
      PROVE  Owned'
  BY <1>16 DEF vars, Owned, OwnReceiver, OfRun
<1> QED
  BY NextCases, <1>1, <1>2, <1>3, <1>4, <1>5, <1>6, <1>7, <1>8, <1>9, <1>10, <1>11, <1>12, <1>13, <1>14, <1>15, <1>16

\* A completed run is not ended again, so no synthetic row comes after the completion.
LEMMA SupersededKept ==
    ASSUME Types, Leased, Superseded, [Next]_vars
    PROVE  Superseded'
<1>1. ASSUME announceNewTenant
      PROVE  Superseded'
  BY <1>1, AnnounceStep, Deliveries DEF Superseded, Leased, OfRun
<1>2. ASSUME announceNoWebhook
      PROVE  Superseded'
  BY <1>2, AnnounceStep, Deliveries DEF Superseded, Leased, OfRun
<1>3. ASSUME NEW r \in Run, claim(r)
      PROVE  Superseded'
  BY <1>3, ClaimStep, Deliveries DEF Superseded, Leased, OfRun
<1>4. ASSUME NEW r \in Run, applyRunStarted(r)
      PROVE  Superseded'
  BY <1>4, StartedStep, Deliveries DEF Superseded, Leased, OfRun
<1>5. ASSUME NEW r \in Run, applyRunCompleted(r)
      PROVE  Superseded'
  <2> SUFFICES ASSUME NEW x \in Synthetic,
                      rows'[[of |-> x.of, key |-> "completed"]].state # "NONE"
               PROVE  runs'[x.of].status = "COMPLETED" /\ rows'[x].state # "pending"
    BY DEF Superseded
  <2>1. PICK c : c = [of |-> x.of, key |-> "completed"]
    OBVIOUS
  <2>2. x.of \in Run /\ x \in Delivery /\ c \in Delivery \ Synthetic
    BY <2>1, Deliveries DEF OfRun
  <2>3. rows'[x] = rows[x] \/ rows'[x].state = "dropped"
    BY <1>5, <2>2, CompletedOutbox, Deliveries
  <2>4. CASE x.of = r
    <3>1. rows'[c] # rows[c] => rows'[x].state # "pending"
      BY <1>5, <2>1, <2>2, <2>4, CompletedStep, CompletedRows
    <3>2. rows'[c] = rows[c] => rows[x].state # "pending"
      BY <2>1 DEF Superseded
    <3> QED
      BY <1>5, <2>3, <2>4, <3>1, <3>2, CompletedStep
  <2>5. CASE x.of # r
    <3>1. c # [of |-> r, key |-> "completed"]
      <4>1. c.of = x.of /\ [of |-> r, key |-> "completed"].of = r
        BY <2>1
      <4> QED
        BY <2>5, <4>1
    <3>2. rows'[c] = rows[c]
      BY <1>5, <2>2, <3>1, CompletedStep, CompletedRows
    <3>3. runs[x.of].status = "COMPLETED" /\ rows[x].state # "pending"
      BY <2>1, <3>2 DEF Superseded
    <3> QED
      BY <1>5, <2>2, <2>3, <2>5, <3>3, CompletedStep
  <2> QED
    BY <2>4, <2>5
<1>6. ASSUME NEW r \in Run, NEW reason \in Reason, markInterrupted(r, reason)
      PROVE  Superseded'
  BY <1>6, InterruptedStep, InterruptedRows, RunRow, Deliveries DEF Superseded, Leased, OfRun
<1>7. ASSUME NEW m \in Message, EnqueueTenantAgentWebhook(m)
      PROVE  Superseded'
  BY <1>7, MessageStep, Deliveries DEF Superseded, Leased, OfRun, RunTables, OtherRows
<1>8. ASSUME NEW d \in Dispatcher, NEW batch \in SUBSET Delivery, lease(d, batch)
      PROVE  Superseded'
  BY <1>8, LeaseStep, Deliveries DEF Superseded, Leased, OfRun, RunTables
<1>9. ASSUME NEW d \in Dispatcher, NEW x \in Delivery, currentDecision(d, x)
      PROVE  Superseded'
  BY <1>9, DecisionStep, Deliveries DEF Superseded, Leased, OfRun, RunTables, OtherJobs
<1>10. ASSUME NEW d \in Dispatcher, NEW x \in Delivery, dropWebhookDelivery(d, x)
      PROVE  Superseded'
  BY <1>10, DropStep, Deliveries DEF Superseded, Leased, OfRun, RunTables, OtherJobs, OtherRows
<1>11. ASSUME NEW d \in Dispatcher, NEW x \in Delivery, post(d, x)
      PROVE  Superseded'
  BY <1>11, PostStep, Deliveries DEF Superseded, Leased, OfRun, RunTables, OtherJobs
<1>12. ASSUME NEW d \in Dispatcher, NEW x \in Delivery, succeed(d, x)
      PROVE  Superseded'
  BY <1>12, SucceedStep, Deliveries DEF Superseded, Leased, OfRun, RunTables, OtherJobs, OtherRows
<1>13. ASSUME NEW d \in Dispatcher, NEW x \in Delivery, fail(d, x)
      PROVE  Superseded'
  BY <1>13, FailStep, Deliveries DEF Superseded, Leased, OfRun, RunTables, OtherJobs, OtherRows
<1>14. ASSUME NEW d \in Dispatcher, NEW x \in Delivery, statementFails(d, x)
      PROVE  Superseded'
  BY <1>14, FaultStep, Deliveries DEF Superseded, Leased, OfRun, RunTables
<1>15. ASSUME NEW d \in Dispatcher, crash(d)
      PROVE  Superseded'
  BY <1>15, FaultStep, Deliveries DEF Superseded, Leased, OfRun, RunTables
<1>16. ASSUME UNCHANGED vars
      PROVE  Superseded'
  BY <1>16 DEF vars, Superseded, Leased, OfRun
<1> QED
  BY NextCases, <1>1, <1>2, <1>3, <1>4, <1>5, <1>6, <1>7, <1>8, <1>9, <1>10, <1>11, <1>12, <1>13, <1>14, <1>15, <1>16

\* The numbers that are compared.
LEMMA Counts ==
    ASSUME Types
    PROVE  /\ MaxAttempts \in Nat \ {0}
           /\ \A x \in Delivery : tries[x] \in Nat /\ tries[x] <= MaxAttempts
           /\ \A d \in Dispatcher, x \in Delivery : jobs[d][x].attempts \in Nat
BY OutboxAssumption DEF OutboxAssumption, Types, LeasedJob

\* A count is read from a row and comes back one higher only after a failed post.
LEMMA CountedKept ==
    ASSUME Types, Counted, [Next]_vars
    PROVE  Counted'
<1>1. ASSUME announceNewTenant
      PROVE  Counted'
  BY <1>1, AnnounceStep DEF Counted, GivenUpAfterAllTries
<1>2. ASSUME announceNoWebhook
      PROVE  Counted'
  BY <1>2, AnnounceStep DEF Counted, GivenUpAfterAllTries
<1>3. ASSUME NEW r \in Run, claim(r)
      PROVE  Counted'
  BY <1>3, ClaimStep DEF Counted, GivenUpAfterAllTries
<1>4. ASSUME NEW r \in Run, applyRunStarted(r)
      PROVE  Counted'
  BY <1>4, StartedStep DEF Counted, GivenUpAfterAllTries
<1>5. ASSUME NEW r \in Run, applyRunCompleted(r)
      PROVE  Counted'
  <2>1. \A x \in Delivery :
           \/ rows'[x] = rows[x]
           \/ rows'[x].state = "dropped"
           \/ rows'[x].state = "pending" /\ rows'[x].attempts = 0
    BY <1>5, CompletedOutbox
  <2> QED
    BY <1>5, <2>1, CompletedStep, Counts DEF Counted, GivenUpAfterAllTries
<1>6. ASSUME NEW r \in Run, NEW reason \in Reason, markInterrupted(r, reason)
      PROVE  Counted'
  <2>1. \A x \in Delivery :
           \/ rows'[x] = rows[x]
           \/ rows'[x].state = "dropped"
           \/ rows'[x].state = "pending" /\ rows'[x].attempts = 0
    BY <1>6, InterruptedStep, InterruptedRows, RunRow
  <2> QED
    BY <1>6, <2>1, InterruptedStep, Counts DEF Counted, GivenUpAfterAllTries
<1>7. ASSUME NEW m \in Message, EnqueueTenantAgentWebhook(m)
      PROVE  Counted'
  <2>1. \A x \in Delivery :
           \/ rows'[x] = rows[x]
           \/ rows'[x].state = "dropped"
           \/ rows'[x].state = "pending" /\ rows'[x].attempts = 0
    BY <1>7, MessageStep DEF OtherRows
  <2> QED
    BY <1>7, <2>1, MessageStep, Counts DEF Counted, GivenUpAfterAllTries, RunTables
<1>8. ASSUME NEW d \in Dispatcher, NEW batch \in SUBSET Delivery, lease(d, batch)
      PROVE  Counted'
  BY <1>8, LeaseStep DEF Counted, GivenUpAfterAllTries, RunTables
<1>9. ASSUME NEW d \in Dispatcher, NEW x \in Delivery, currentDecision(d, x)
      PROVE  Counted'
  BY <1>9, DecisionStep DEF Counted, GivenUpAfterAllTries, RunTables, OtherJobs
<1>10. ASSUME NEW d \in Dispatcher, NEW x \in Delivery, dropWebhookDelivery(d, x)
      PROVE  Counted'
  BY <1>10, DropStep DEF Counted, GivenUpAfterAllTries, RunTables, OtherJobs, OtherRows
<1>11. ASSUME NEW d \in Dispatcher, NEW x \in Delivery, post(d, x)
      PROVE  Counted'
  <2>1. /\ rows' = rows /\ jobs[d][x].at = "POST"
        /\ jobs'[d][x].attempts = jobs[d][x].attempts
        /\ jobs'[d][x].at \in {"SUCCEED", "FAIL"}
        /\ \A e \in Dispatcher, y \in Delivery : e # d \/ y # x => jobs'[e][y] = jobs[e][y]
    BY <1>11, PostStep DEF OtherJobs
  <2>2. /\ \A y \in Delivery : tries[y] <= tries'[y] /\ tries'[y] \in Nat /\ tries'[y] <= MaxAttempts
        /\ jobs'[d][x].at = "FAIL" => tries'[x] = IF tries[x] < MaxAttempts THEN tries[x] + 1 ELSE tries[x]
    BY <1>11, PostStep, Counts DEF Types
  <2>3. /\ jobs[d][x].attempts < MaxAttempts
        /\ jobs[d][x].attempts <= tries[x]
    BY <2>1 DEF Counted
  <2>4. jobs'[d][x].at = "FAIL" => jobs'[d][x].attempts + 1 <= tries'[x]
    BY <2>1, <2>2, <2>3, Counts
  <2>5. \A y \in Delivery :
           /\ rows'[y].state = "pending" => rows'[y].attempts < MaxAttempts /\ rows'[y].attempts <= tries'[y]
           /\ rows'[y].state = "failed" => tries'[y] = MaxAttempts
    <3>1. \A y \in Delivery : rows[y].attempts \in Nat
      BY DEF Types, OutboxRow
    <3> QED
      BY <2>1, <2>2, <3>1, Counts DEF Counted, GivenUpAfterAllTries
  <2>6. \A e \in Dispatcher, y \in Delivery :
           /\ jobs'[e][y].at # "IDLE" =>
                 jobs'[e][y].attempts < MaxAttempts /\ jobs'[e][y].attempts <= tries'[y]
           /\ jobs'[e][y].at = "FAIL" => jobs'[e][y].attempts + 1 <= tries'[y]
    <3> SUFFICES ASSUME NEW e \in Dispatcher, NEW y \in Delivery
                 PROVE  /\ jobs'[e][y].at # "IDLE" =>
                              jobs'[e][y].attempts < MaxAttempts /\ jobs'[e][y].attempts <= tries'[y]
                        /\ jobs'[e][y].at = "FAIL" => jobs'[e][y].attempts + 1 <= tries'[y]
      OBVIOUS
    <3>1. jobs[e][y].attempts \in Nat /\ tries[y] \in Nat /\ tries'[y] \in Nat /\ tries[y] <= tries'[y]
      BY <2>2, Counts
    <3>2. CASE e = d /\ y = x
      BY <2>1, <2>3, <2>4, <3>1, <3>2, Counts
    <3>3. CASE e # d \/ y # x
      BY <2>1, <3>1, <3>3 DEF Counted
    <3> QED
      BY <3>2, <3>3
  <2> QED
    BY <2>5, <2>6 DEF Counted, GivenUpAfterAllTries
<1>12. ASSUME NEW d \in Dispatcher, NEW x \in Delivery, succeed(d, x)
      PROVE  Counted'
  BY <1>12, SucceedStep DEF Counted, GivenUpAfterAllTries, RunTables, OtherJobs, OtherRows
<1>13. ASSUME NEW d \in Dispatcher, NEW x \in Delivery, fail(d, x)
      PROVE  Counted'
  <2>1. UNCHANGED tries /\ jobs'[d][x].at = "IDLE" /\ OtherJobs(d, x) /\ OtherRows(x)
    BY <1>13, FailStep
  <2>2. jobs[d][x].attempts < MaxAttempts /\ jobs[d][x].attempts + 1 <= tries[x]
    BY <1>13, FailStep DEF Counted
  <2>3. /\ rows'[x].state = "pending" => rows'[x].attempts < MaxAttempts /\ rows'[x].attempts <= tries[x]
        /\ rows'[x].state = "failed" => tries[x] = MaxAttempts
    BY <1>13, <2>2, FailStep, Counts DEF Counted, GivenUpAfterAllTries
  <2> QED
    BY <2>1, <2>3 DEF Counted, GivenUpAfterAllTries, OtherJobs, OtherRows
<1>14. ASSUME NEW d \in Dispatcher, NEW x \in Delivery, statementFails(d, x)
      PROVE  Counted'
  BY <1>14, FaultStep DEF Counted, GivenUpAfterAllTries, RunTables
<1>15. ASSUME NEW d \in Dispatcher, crash(d)
      PROVE  Counted'
  BY <1>15, FaultStep DEF Counted, GivenUpAfterAllTries, RunTables
<1>16. ASSUME UNCHANGED vars
      PROVE  Counted'
  BY <1>16 DEF vars, Counted, GivenUpAfterAllTries
<1> QED
  BY NextCases, <1>1, <1>2, <1>3, <1>4, <1>5, <1>6, <1>7, <1>8, <1>9, <1>10, <1>11, <1>12, <1>13, <1>14, <1>15, <1>16

-----------------------------------------------------------------------------
(* The bounds of the counts *)

\* Sets of dispatchers have sizes to compare.
LEMMA Sizes ==
    ASSUME NEW S \in SUBSET Dispatcher, NEW T \in SUBSET S
    PROVE  /\ Cardinality(Dispatcher) \in Nat
           /\ Cardinality(S) \in Nat /\ Cardinality(T) \in Nat
           /\ Cardinality(T) <= Cardinality(S)
           /\ Cardinality(S) <= Cardinality(Dispatcher)
           /\ \A d \in S : Cardinality(S \ {d}) = Cardinality(S) - 1
<1>1. IsFiniteSet(Dispatcher)
  BY OutboxAssumption DEF OutboxAssumption
<1>2. IsFiniteSet(S) /\ Cardinality(S) <= Cardinality(Dispatcher)
  BY <1>1, FS_Subset
<1>3. IsFiniteSet(T) /\ Cardinality(T) <= Cardinality(S)
  BY <1>2, FS_Subset
<1>4. \A d \in S : Cardinality(S \ {d}) = Cardinality(S) - 1
  BY <1>2, FS_RemoveElement
<1> QED
  BY <1>1, <1>2, <1>3, <1>4, FS_CardinalityType

\* How a step may change the count of a row and the dispatchers that work on it.
LEMMA RoomKept ==
    ASSUME Types, Types', NEW x \in Delivery, Room(x),
           \/ rows'[x].attempts = rows[x].attempts /\ Working(x)' \subseteq Working(x)
           \/ rows'[x].attempts < MaxAttempts
           \/ \E d \in Working(x) :
                 rows'[x].attempts = rows[x].attempts + 1 /\ Working(x)' = Working(x) \ {d}
           \/ rows'[x].attempts <= MaxAttempts /\ Working(x)' # Dispatcher
    PROVE  Room(x)'
<1>1. rows[x].attempts \in Nat /\ rows'[x].attempts \in Nat /\ MaxAttempts \in Nat
  BY OutboxAssumption DEF OutboxAssumption, Types, OutboxRow
<1>2. Working(x) \subseteq Dispatcher /\ Working(x)' \subseteq Dispatcher
  BY DEF Working
<1>3. /\ Cardinality(Dispatcher) \in Nat
      /\ Cardinality(Working(x)) \in Nat /\ Cardinality(Working(x)') \in Nat
      /\ Cardinality(Working(x)') <= Cardinality(Dispatcher)
  BY <1>2, Sizes
<1> SUFFICES rows'[x].attempts + Cardinality(Working(x)') < MaxAttempts + Cardinality(Dispatcher)
  BY DEF Room
<1>4. CASE rows'[x].attempts = rows[x].attempts /\ Working(x)' \subseteq Working(x)
  <2>1. Cardinality(Working(x)') <= Cardinality(Working(x))
    BY <1>2, <1>4, Sizes
  <2> QED
    BY <1>1, <1>3, <1>4, <2>1 DEF Room
<1>5. CASE rows'[x].attempts < MaxAttempts
  BY <1>1, <1>3, <1>5
<1>6. ASSUME NEW d \in Working(x),
             rows'[x].attempts = rows[x].attempts + 1, Working(x)' = Working(x) \ {d}
      PROVE  rows'[x].attempts + Cardinality(Working(x)') < MaxAttempts + Cardinality(Dispatcher)
  <2>1. Cardinality(Working(x) \ {d}) = Cardinality(Working(x)) - 1
    BY <1>2, Sizes
  <2>2. Cardinality(Working(x)') = Cardinality(Working(x)) - 1
    BY <1>6, <2>1
  <2> QED
    BY <1>1, <1>3, <1>6, <2>2 DEF Room
<1>7. CASE rows'[x].attempts <= MaxAttempts /\ Working(x)' # Dispatcher
  <2>1. PICK d \in Dispatcher : d \notin Working(x)'
    BY <1>2, <1>7
  <2>2. Cardinality(Dispatcher \ {d}) = Cardinality(Dispatcher) - 1
    BY Sizes
  <2>3. Working(x)' \subseteq Dispatcher \ {d}
    BY <1>2, <2>1
  <2>4. Cardinality(Working(x)') <= Cardinality(Dispatcher \ {d})
    BY <2>3, Sizes
  <2> QED
    BY <1>1, <1>3, <1>7, <2>2, <2>4
<1> QED
  BY <1>4, <1>5, <1>6, <1>7

\* What a step that ends or moves jobs leaves of the dispatchers at work.
LEMMA WorkingKept ==
    ASSUME NEW x \in Delivery
    PROVE  /\ (\A e \in Dispatcher : jobs'[e][x] = jobs[e][x] \/ jobs'[e][x].at = "IDLE")
                 => Working(x)' \subseteq Working(x)
           /\ \A d \in Dispatcher :
                 (\A e \in Dispatcher : e # d => jobs'[e][x] = jobs[e][x]) =>
                    /\ jobs[d][x].at # "IDLE" => Working(x)' \subseteq Working(x)
                    /\ jobs[d][x].at # "IDLE" /\ jobs'[d][x].at = "IDLE" =>
                          d \in Working(x) /\ Working(x)' = Working(x) \ {d}
BY DEF Working

\* A step on one job and its row keeps the bounds once it keeps those of that row.
LEMMA BoundedOutcome ==
    ASSUME Types, Types', Bounded, NEW d \in Dispatcher, NEW x \in Delivery,
           OtherJobs(d, x), OtherRows(x),
           Room(x)',
           jobs'[d][x].at = "IDLE" => jobs'[d][x].attempts = 0
    PROVE  Bounded'
<1>1. ASSUME NEW y \in Delivery, y # x PROVE Room(y)'
  <2>1. rows'[y] = rows[y] /\ \A e \in Dispatcher : jobs'[e][y] = jobs[e][y]
    BY <1>1 DEF OtherJobs, OtherRows
  <2>2. Working(y)' \subseteq Working(y) /\ rows'[y].attempts = rows[y].attempts
    BY <2>1, WorkingKept
  <2> QED
    BY <2>2, RoomKept DEF Bounded
<1>2. ASSUME NEW e \in Dispatcher, NEW y \in Delivery
      PROVE  jobs'[e][y].at = "IDLE" => jobs'[e][y].attempts = 0
  BY <1>2 DEF OtherJobs, Bounded
<1> QED
  BY <1>1, <1>2 DEF Bounded

\* The counts keep their room: a lease is of a pending row, whose count is below the last
\* attempt, a failure writes at most the last, and a success uses up a dispatcher.
LEMMA BoundedKept ==
    ASSUME Types, Counted, Bounded, [Next]_vars
    PROVE  Bounded'
<1>0. Types'
  BY TypesKept
<1>1. ASSUME \/ announceNewTenant
             \/ announceNoWebhook
             \/ \E r \in Run : claim(r)
             \/ \E r \in Run : applyRunStarted(r)
             \/ UNCHANGED vars
      PROVE  Bounded'
  <2>1. rows' = rows /\ jobs' = jobs
    BY <1>1, AnnounceStep, ClaimStep, StartedStep DEF vars
  <2> QED
    BY <2>1 DEF Bounded, Room, Working
<1>2. ASSUME jobs' = jobs,
             \A y \in Delivery : rows'[y].attempts = rows[y].attempts \/ rows'[y].attempts = 0
      PROVE  Bounded'
  <2>1. ASSUME NEW y \in Delivery PROVE Room(y)'
    <3>1. Working(y)' \subseteq Working(y)
      BY <1>2, WorkingKept
    <3>2. rows'[y].attempts = rows[y].attempts \/ rows'[y].attempts < MaxAttempts
      BY <1>2, OutboxAssumption DEF OutboxAssumption
    <3> QED
      BY <1>0, <3>1, <3>2, RoomKept DEF Bounded
  <2> QED
    BY <1>2, <2>1 DEF Bounded
<1>3. ASSUME NEW r \in Run, applyRunCompleted(r)
      PROVE  Bounded'
  <2>1. jobs' = jobs /\ rows' = enqueueWebhookDelivery(r)
    BY <1>3, CompletedStep
  <2>2. \A y \in Delivery :
           \/ rows'[y] = rows[y]
           \/ rows'[y] = runDelivery(r)
           \/ rows'[y].attempts = rows[y].attempts
    BY <2>1, CompletedRows
  <2>3. \A y \in Delivery : rows'[y].attempts = rows[y].attempts \/ rows'[y].attempts = 0
    BY <2>2, RunRow
  <2> QED
    BY <1>2, <2>1, <2>3
<1>4. ASSUME NEW r \in Run, NEW reason \in Reason, markInterrupted(r, reason)
      PROVE  Bounded'
  <2>1. jobs' = jobs /\ rows' = enqueueInterruptedWebhookDelivery(r, reason)
    BY <1>4, InterruptedStep
  <2>2. \A y \in Delivery : rows'[y] = rows[y] \/ rows'[y] = runDelivery(r)
    BY <2>1, InterruptedRows
  <2>3. \A y \in Delivery : rows'[y].attempts = rows[y].attempts \/ rows'[y].attempts = 0
    BY <2>2, RunRow
  <2> QED
    BY <1>2, <2>1, <2>3
<1>5. ASSUME NEW m \in Message, EnqueueTenantAgentWebhook(m)
      PROVE  Bounded'
  BY <1>2, <1>5, MessageStep DEF OtherRows
<1>6. ASSUME NEW d \in Dispatcher, NEW batch \in SUBSET Delivery, lease(d, batch)
      PROVE  Bounded'
  <2>1. /\ rows' = rows
        /\ \A e \in Dispatcher, x \in Delivery :
              \/ jobs'[e][x] = jobs[e][x]
              \/ jobs'[e][x].at = "IDLE" /\ jobs'[e][x].attempts = 0
              \/ rows[x].state = "pending" /\ jobs'[e][x].at = "READ"
    BY <1>6, LeaseStep
  <2>2. ASSUME NEW x \in Delivery PROVE Room(x)'
    <3>1. CASE rows[x].state = "pending"
      BY <1>0, <2>1, <3>1, RoomKept DEF Counted, Bounded
    <3>2. CASE rows[x].state # "pending"
      <4>1. Working(x)' \subseteq Working(x)
        BY <2>1, <3>2, WorkingKept
      <4> QED
        BY <1>0, <2>1, <4>1, RoomKept DEF Bounded
    <3> QED
      BY <3>1, <3>2
  <2>3. \A e \in Dispatcher, x \in Delivery : jobs'[e][x].at = "IDLE" => jobs'[e][x].attempts = 0
    BY <2>1 DEF Bounded
  <2> QED
    BY <2>2, <2>3 DEF Bounded
<1>7. ASSUME NEW d \in Dispatcher, NEW x \in Delivery, currentDecision(d, x) \/ post(d, x)
      PROVE  Bounded'
  <2>1. /\ rows' = rows /\ OtherJobs(d, x)
        /\ jobs[d][x].at # "IDLE"
        /\ jobs'[d][x].at = "IDLE" => jobs'[d][x].attempts = 0
    BY <1>7, DecisionStep, PostStep
  <2>2. Working(x)' \subseteq Working(x)
    BY <2>1, WorkingKept DEF OtherJobs
  <2>3. Room(x)'
    BY <1>0, <2>1, <2>2, RoomKept DEF Bounded
  <2> QED
    BY <1>0, <2>1, <2>3, BoundedOutcome DEF OtherRows
<1>8. ASSUME NEW d \in Dispatcher, NEW x \in Delivery, dropWebhookDelivery(d, x)
      PROVE  Bounded'
  <2>1. /\ rows'[x].attempts = rows[x].attempts /\ OtherJobs(d, x) /\ OtherRows(x)
        /\ jobs'[d][x].at = "IDLE" /\ jobs'[d][x].attempts = 0
    BY <1>8, DropStep
  <2>2. Working(x)' \subseteq Working(x)
    BY <2>1, WorkingKept DEF OtherJobs
  <2>3. Room(x)'
    BY <1>0, <2>1, <2>2, RoomKept DEF Bounded
  <2> QED
    BY <1>0, <2>1, <2>3, BoundedOutcome
<1>9. ASSUME NEW d \in Dispatcher, NEW x \in Delivery, succeed(d, x)
      PROVE  Bounded'
  <2>1. /\ rows'[x].attempts = rows[x].attempts + 1 /\ OtherJobs(d, x) /\ OtherRows(x)
        /\ jobs[d][x].at # "IDLE"
        /\ jobs'[d][x].at = "IDLE" /\ jobs'[d][x].attempts = 0
    BY <1>9, SucceedStep
  <2>2. d \in Working(x) /\ Working(x)' = Working(x) \ {d}
    BY <2>1, WorkingKept DEF OtherJobs
  <2>3. Room(x)'
    BY <1>0, <2>1, <2>2, RoomKept DEF Bounded
  <2> QED
    BY <1>0, <2>1, <2>3, BoundedOutcome
<1>10. ASSUME NEW d \in Dispatcher, NEW x \in Delivery, fail(d, x)
       PROVE  Bounded'
  <2>1. /\ rows'[x].attempts = jobs[d][x].attempts + 1 /\ OtherJobs(d, x) /\ OtherRows(x)
        /\ jobs[d][x].at = "FAIL"
        /\ jobs'[d][x].at = "IDLE" /\ jobs'[d][x].attempts = 0
    BY <1>10, FailStep
  <2>2. rows'[x].attempts <= MaxAttempts
    BY <2>1, Counts DEF Counted
  <2>3. Working(x)' # Dispatcher
    BY <2>1 DEF Working
  <2>4. Room(x)'
    BY <1>0, <2>2, <2>3, RoomKept DEF Bounded
  <2> QED
    BY <1>0, <2>1, <2>4, BoundedOutcome
<1>11. ASSUME \/ \E d \in Dispatcher, x \in Delivery : statementFails(d, x)
              \/ \E d \in Dispatcher : crash(d)
       PROVE  Bounded'
  <2>1. /\ rows' = rows
        /\ \A e \in Dispatcher, y \in Delivery :
              jobs'[e][y] = jobs[e][y] \/ (jobs'[e][y].at = "IDLE" /\ jobs'[e][y].attempts = 0)
    BY <1>11, FaultStep
  <2>2. ASSUME NEW x \in Delivery PROVE Room(x)'
    <3>1. Working(x)' \subseteq Working(x)
      BY <2>1, WorkingKept
    <3> QED
      BY <1>0, <2>1, <3>1, RoomKept DEF Bounded
  <2> QED
    BY <2>1, <2>2 DEF Bounded
<1> QED
  BY NextCases, <1>1, <1>3, <1>4, <1>5, <1>6, <1>7, <1>8, <1>9, <1>10, <1>11

-----------------------------------------------------------------------------
(* Theorems *)

\* The invariants hold at first.
LEMMA Initially == ASSUME Init PROVE Types /\ Leased /\ Owned /\ Superseded /\ Counted
<1>1. Types
  <2>1. NoRow \in OutboxRow
    BY Values DEF NoRow, OutboxRow
  <2>2. MaxAttempts \in Nat /\ {0, 1} \subseteq Incarnation
    BY OutboxAssumption DEF OutboxAssumption, Incarnation
  <2>3. tenant \in [inc : Incarnation, hook : BOOLEAN]
    BY <2>2 DEF Init
  <2> QED
    BY <2>1, <2>2, <2>3, IdleJob, Values DEF Init, Types
<1>2. /\ \A x \in Delivery : rows[x].state = "NONE" /\ posted[x] = {}
      /\ \A d \in Dispatcher, x \in Delivery : jobs[d][x].at = "IDLE"
      /\ \A r \in Run : runs[r].status = "NEW"
  BY IdleJob DEF Init, NoRow
<1>3. Leased /\ Counted
  BY <1>2 DEF Leased, Counted, GivenUpAfterAllTries
<1>4. Owned /\ Superseded
  BY <1>2, Deliveries DEF Owned, OwnReceiver, OfRun, Superseded
<1> QED
  BY <1>1, <1>3, <1>4

\* The outbox keeps the types of its rows, jobs and counts.
LEMMA OutboxTypes == Spec => []Types
<1>1. Init => Types
  BY Initially
<1>2. Types /\ [Next]_vars => Types'
  BY TypesKept
<1> QED
  BY <1>1, <1>2, PTL DEF Spec

\* The faults are counted to their bound.
LEMMA FaultsKept ==
    ASSUME faults \in 0 .. MaxFaults, [Next]_vars
    PROVE  faults' \in 0 .. MaxFaults
<1>1. CASE faults' = faults
  BY <1>1
<1>2. CASE faults < MaxFaults /\ faults' = faults + 1
  BY <1>2, OutboxAssumption DEF OutboxAssumption
<1>3. faults' = faults \/ (faults < MaxFaults /\ faults' = faults + 1)
  BY NextCases DEF vars, announceNewTenant, announceNoWebhook, claim, applyRunStarted,
     applyRunCompleted, markInterrupted, EnqueueTenantAgentWebhook, lease, currentDecision,
     dropWebhookDelivery, post, succeed, fail, statementFails, crash
<1> QED
  BY <1>1, <1>2, <1>3

\* The bounds and the types make up TypeOK.
LEMMA BoundedTypes ==
    ASSUME Types, Counted, Bounded, faults \in 0 .. MaxFaults
    PROVE  TypeOK
<1>1. ASSUME NEW x \in Delivery PROVE rows[x] \in Row
  <2>1. rows[x] \in OutboxRow /\ MaxAttempts \in Nat
    BY OutboxAssumption DEF OutboxAssumption, Types
  <2>2. Cardinality(Working(x)) \in Nat /\ Cardinality(Dispatcher) \in Nat
    BY Sizes DEF Working
  <2>3. rows[x].attempts \in 0 .. MaxAttempts + Cardinality(Dispatcher)
    BY <2>1, <2>2 DEF Bounded, Room, OutboxRow
  <2> QED
    BY <2>1, <2>3 DEF OutboxRow, Row
<1>2. ASSUME NEW d \in Dispatcher, NEW x \in Delivery PROVE jobs[d][x] \in Job
  <2>1. jobs[d][x] \in LeasedJob
    BY DEF Types
  <2>2. jobs[d][x].attempts \in 0 .. MaxAttempts
    BY Counts DEF Bounded, Counted
  <2> QED
    BY <2>1, <2>2 DEF LeasedJob, Job, Stage
<1>3. rows \in [Delivery -> Row]
  BY <1>1 DEF Types
<1>4. jobs \in [Dispatcher -> [Delivery -> Job]]
  <2>1. ASSUME NEW d \in Dispatcher PROVE jobs[d] \in [Delivery -> Job]
    BY <1>2 DEF Types
  <2> QED
    BY <2>1 DEF Types
<1> QED
  BY <1>3, <1>4 DEF Types, TypeOK

\* Every table of the outbox keeps its type.  What it takes is the bound on the attempts
\* of a row: success counts an attempt whatever the row holds, so a row can be counted
\* beyond MaxAttempts, but only once for each dispatcher that works on it (succeed, fail).
THEOREM OutboxTypesHold == Spec => []TypeOK
<1>1. Init => Counted /\ Bounded /\ faults \in 0 .. MaxFaults
  <2> SUFFICES ASSUME Init PROVE Counted /\ Bounded /\ faults \in 0 .. MaxFaults
    OBVIOUS
  <2>1. /\ \A x \in Delivery : rows[x].attempts = 0
        /\ \A d \in Dispatcher, x \in Delivery : jobs[d][x].attempts = 0
        /\ \A d \in Dispatcher, x \in Delivery : jobs[d][x].at = "IDLE"
    BY IdleJob DEF Init, NoRow
  <2>2. ASSUME NEW x \in Delivery PROVE Room(x)
    <3>1. Working(x) = {}
      BY <2>1 DEF Working
    <3>2. Cardinality(Working(x)) = 0 /\ Cardinality(Dispatcher) \in Nat
      BY <3>1, FS_EmptySet, Sizes
    <3> QED
      BY <2>1, <3>2, OutboxAssumption DEF Room, OutboxAssumption
  <2>3. faults \in 0 .. MaxFaults
    BY OutboxAssumption DEF Init, OutboxAssumption
  <2> QED
    BY <2>1, <2>2, <2>3, Initially DEF Bounded
<1>2. Types /\ Counted /\ Bounded /\ faults \in 0 .. MaxFaults /\ [Next]_vars =>
        Counted' /\ Bounded' /\ (faults \in 0 .. MaxFaults)'
  BY CountedKept, BoundedKept, FaultsKept
<1>3. Types /\ Counted /\ Bounded /\ faults \in 0 .. MaxFaults => TypeOK
  BY BoundedTypes
<1> QED
  BY <1>1, <1>2, <1>3, OutboxTypes, PTL DEF Spec

\* A new Tenant object under the same name gets no delivery about a run that its
\* predecessor claimed, and no claim without a tenant sends one (deliver).
THEOREM ReceiverIsOwner == Spec => []OwnReceiver
<1>1. Init => Owned
  BY Initially
<1>2. Types /\ Owned /\ [Next]_vars => Owned'
  BY OwnedKept
<1>3. Owned => OwnReceiver
  BY DEF Owned
<1> QED
  BY <1>1, <1>2, <1>3, OutboxTypes, PTL DEF Spec

\* However the leases, the crashes and the stale counts of any number of dispatchers
\* overlap, a delivery fails only after MaxAttempts failed posts (lease, fail).
THEOREM TriedInFull == Spec => []GivenUpAfterAllTries
<1>1. Init => Counted
  BY Initially
<1>2. Types /\ Counted /\ [Next]_vars => Counted'
  BY CountedKept
<1>3. Counted => GivenUpAfterAllTries
  BY DEF Counted
<1> QED
  BY <1>1, <1>2, <1>3, OutboxTypes, PTL DEF Spec

\* No post of a synthetic end is decided once the completion of the run is enqueued
\* (enqueueWebhookDelivery, currentDecision).
THEOREM CompletionSupersedes == Spec => SupersededNotSent
<1>1. Init => Leased /\ Superseded
  BY Initially
<1>2. Types /\ Leased /\ Superseded /\ [Next]_vars => Leased' /\ Superseded'
  BY LeasedKept, SupersededKept
<1>3. Types /\ Superseded /\ [Next]_vars =>
        [\A d \in Dispatcher, x \in Synthetic :
            jobs[d][x].at # "POST" /\ jobs'[d][x].at = "POST" =>
               rows[[of |-> x.of, key |-> "completed"]].state = "NONE"]_vars
  <2> SUFFICES ASSUME Types, Superseded, [Next]_vars,
                      NEW d \in Dispatcher, NEW x \in Synthetic,
                      jobs[d][x].at # "POST", jobs'[d][x].at = "POST"
               PROVE  rows[x].state = "pending"
    BY DEF Superseded
  <2>0. x \in Delivery
    BY Deliveries
  <2>1. CASE jobs' = jobs
    BY <2>1
  <2>2. ASSUME NEW e \in Dispatcher, NEW batch \in SUBSET Delivery, lease(e, batch)
        PROVE  rows[x].state = "pending"
    BY <2>0, <2>2, LeaseStep
  <2>3. ASSUME NEW e \in Dispatcher, NEW y \in Delivery, currentDecision(e, y)
        PROVE  rows[x].state = "pending"
    BY <2>0, <2>3, DecisionStep DEF OtherJobs
  <2>4. ASSUME NEW e \in Dispatcher, NEW y \in Delivery,
               dropWebhookDelivery(e, y) \/ post(e, y) \/ succeed(e, y) \/ fail(e, y)
        PROVE  FALSE
    BY <2>0, <2>4, DropStep, PostStep, SucceedStep, FailStep DEF OtherJobs
  <2>5. ASSUME \/ \E e \in Dispatcher, y \in Delivery : statementFails(e, y)
               \/ \E e \in Dispatcher : crash(e)
        PROVE  FALSE
    BY <2>0, <2>5, FaultStep
  <2>6. ASSUME \/ announceNewTenant \/ announceNoWebhook
               \/ \E r \in Run : claim(r) \/ applyRunStarted(r) \/ applyRunCompleted(r)
               \/ \E r \in Run, reason \in Reason : markInterrupted(r, reason)
               \/ \E m \in Message : EnqueueTenantAgentWebhook(m)
        PROVE  jobs' = jobs
    BY <2>6 DEF announceNewTenant, announceNoWebhook, claim, applyRunStarted, applyRunCompleted,
                markInterrupted, EnqueueTenantAgentWebhook
  <2> QED
    BY NextCases, <2>1, <2>2, <2>3, <2>4, <2>5, <2>6 DEF vars
<1> QED
  BY <1>1, <1>2, <1>3, OutboxTypes, PTL DEF Spec, SupersededNotSent

\* No dispatcher with an old decision records a delivered row as dropped
\* (dropWebhookDelivery), and no completion does (enqueueWebhookDelivery).
THEOREM DeliveredStays == Spec => DeliveredNotDropped
<1>1. Types /\ [Next]_vars =>
        [\A x \in Delivery : rows[x].state = "delivered" => rows'[x].state # "dropped"]_vars
  <2> SUFFICES ASSUME Types, [Next]_vars, NEW x \in Delivery, rows[x].state = "delivered"
               PROVE  rows'[x].state # "dropped"
    OBVIOUS
  <2>1. CASE rows' = rows
    BY <2>1
  <2>2. ASSUME NEW r \in Run, applyRunCompleted(r)
        PROVE  rows'[x].state # "dropped"
    <3>1. rows' = enqueueWebhookDelivery(r)
      BY <2>2, CompletedStep
    <3>2. rows'[x] = rows[x] \/ rows[x].state \in {"NONE", "pending"}
      BY <3>1, CompletedRows
    <3> QED
      BY <3>2
  <2>3. ASSUME NEW r \in Run, NEW reason \in Reason, markInterrupted(r, reason)
        PROVE  rows'[x].state # "dropped"
    BY <2>3, InterruptedStep, InterruptedRows
  <2>4. ASSUME NEW m \in Message, EnqueueTenantAgentWebhook(m)
        PROVE  rows'[x].state # "dropped"
    BY <2>4, MessageStep DEF OtherRows
  <2>5. ASSUME NEW e \in Dispatcher, NEW y \in Delivery,
               dropWebhookDelivery(e, y) \/ succeed(e, y) \/ fail(e, y)
        PROVE  rows'[x].state # "dropped"
    BY <2>5, DropStep, SucceedStep, FailStep DEF OtherRows
  <2>6. ASSUME \/ announceNewTenant \/ announceNoWebhook
               \/ \E r \in Run : claim(r) \/ applyRunStarted(r)
               \/ \E e \in Dispatcher, batch \in SUBSET Delivery : lease(e, batch)
               \/ \E e \in Dispatcher, y \in Delivery :
                     currentDecision(e, y) \/ post(e, y) \/ statementFails(e, y)
               \/ \E e \in Dispatcher : crash(e)
        PROVE  rows' = rows
    BY <2>6 DEF announceNewTenant, announceNoWebhook, claim, applyRunStarted, lease,
                currentDecision, post, statementFails, crash
  <2> QED
    BY NextCases, <2>1, <2>2, <2>3, <2>4, <2>5, <2>6 DEF vars
<1> QED
  BY <1>1, OutboxTypes, PTL DEF Spec, DeliveredNotDropped
=============================================================================
