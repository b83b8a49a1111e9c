----------------------------- MODULE ClaimQueue -----------------------------
(***************************************************************************)
(* The client side of a build claim, in the Jenkins plugin: the queue      *)
(* items of one job (VarroaClaimDispatcher, VarroaClaimQueue), the apply   *)
(* gate that orders their build numbers (BuildNumberGate), and Jenkins'    *)
(* own build counter, on every cell instance.                              *)
(*                                                                         *)
(* An item claims, applies the granted number under the gate, marks its    *)
(* start, and only then may start.  A post that times out may still be in  *)
(* transit: it then sits in late, and the recorder may handle it after the *)
(* item moved on.  The answer to a post that is handled in time takes      *)
(* effect with it, or is lost: an item that waits for its answer reads and *)
(* writes nothing, so the delay of an answer is the wait for the next step.*)
(*                                                                         *)
(* No step is ever forced: a pod that died is one that takes no more step, *)
(* while its requests and events may still be in transit.                  *)
(***************************************************************************)
EXTENDS Ledger

CONSTANTS
    Reach,       \* the <<instance, run>> pairs some trigger may bring together
    TriggersRace, \* whether a repeat trigger may race the start of its run's build
    Resends,     \* whether the seed may come again after it was reported
    GateExpires, \* whether a holder of the gate may exceed HOLD_MILLIS
    MaxLate      \* bound: requests in transit that nobody waits for

ASSUME ClaimQueueAssumption ==
    /\ Reach \subseteq Instance \X Run
    /\ TriggersRace \in BOOLEAN
    /\ Resends \in BOOLEAN
    /\ GateExpires \in BOOLEAN
    /\ MaxLate \in Nat

VARIABLES
    items,    \* the queue item of each run on each instance
    late,     \* requests whose caller timed out
    gate,     \* the run that holds each instance's apply gate
    counter,  \* Jenkins' nextBuildNumber of the job, on each instance
    builds    \* every build that ever started

queueVars == <<items, late, gate, counter, builds>>

-----------------------------------------------------------------------------
\* APPLYING: granted, waits for the gate.  MARKING: the number is applied, the
\* start mark is not answered.  GRANTED: canRun lets the item start.
Phase == {"NONE", "QUEUED", "APPLYING", "MARKING", "GRANTED"}

Item == [phase : Phase, number : Nat, conflict : Nat]

NoItem == [phase |-> "NONE", number |-> 0, conflict |-> 0]

\* The item goes back to claim; it keeps the number it refused.
Requeued(item) == [item EXCEPT !.phase = "QUEUED", !.number = 0]

claimBody(i, r, g) == [kind |-> "claim", run |-> r, inst |-> i, gen |-> g,
                       next |-> counter[i], conflict |-> items[i][r].conflict]

startMarkBody(i, r, g) == [kind |-> "mark", run |-> r, inst |-> i, gen |-> g,
                           next |-> 0, conflict |-> 0]

ClaimQueueTypeOK ==
    /\ items \in [Instance -> [Run -> Item]]
    /\ late \subseteq Request
    /\ gate \in [Instance -> Run \cup {NoRun}]
    /\ counter \in [Instance -> Nat \ {0}]
    /\ builds \subseteq Build

ClaimQueueInit ==
    /\ items = [i \in Instance |-> [r \in Run |-> NoItem]]
    /\ late = {}
    /\ gate = [i \in Instance |-> NoRun]
    /\ counter = [i \in Instance |-> 1]
    /\ builds = {}

-----------------------------------------------------------------------------
setItem(i, r, item) == items' = [items EXCEPT ![i][r] = item]

\* The gate after run r left it: another run's hold stays.
opened(i, r) == [gate EXCEPT ![i] = IF @ = r THEN NoRun ELSE @]

findBuildForRunId(i, r) == \E b \in builds : b.inst = i /\ b.run = r

\* The queue folds a trigger into a queued item of the same run.
shouldSchedule(i, r) == items[i][r].phase = "NONE"

\* A trigger of r reaches the instance: the first one, a redelivery, a re-fire
\* or a forward.  The trigger route folds it into a build of r; it reads the
\* builds before it takes the queue, so that a repeat may also miss a build that
\* starts in between.
Schedule(i, r) ==
    /\ <<i, r>> \in Reach
    /\ shouldSchedule(i, r)
    /\ ~findBuildForRunId(i, r) \/ TriggersRace
    /\ setItem(i, r, [NoItem EXCEPT !.phase = "QUEUED"])
    /\ UNCHANGED <<late, gate, counter, builds>>

\* claimOnce takes answer a to the claim of a queued item.  NOT_HOME forwards
\* the item to the home and cancels it here, or keeps it when the forward fails.
\* RETRY, and a lost answer, keep it.
claimOnce(i, r, a) ==
    /\ items[i][r].phase = "QUEUED"
    /\ \/ /\ a.decision = "GRANTED"
          /\ setItem(i, r, [items[i][r] EXCEPT !.phase = "APPLYING", !.number = a.number])
       \/ /\ a.decision \in {"DUPLICATE", "FENCED", "NOT_HOME"}
          /\ setItem(i, r, NoItem)
       \/ UNCHANGED items
    /\ UNCHANGED <<late, gate, counter, builds>>

\* Mutant: the granted number becomes the last number, not the next one.
appliesPrevious(i, r) ==
    /\ items[i][r].phase = "APPLYING"
    /\ gate[i] = NoRun
    /\ counter' = [counter EXCEPT ![i] = items[i][r].number - 1]
    /\ gate' = [gate EXCEPT ![i] = r]
    /\ setItem(i, r, [items[i][r] EXCEPT !.phase = "MARKING"])
    /\ UNCHANGED <<late, builds>>

\* Mutant: an applied grant starts without its mark.
appliesUnmarked(i, r) ==
    /\ items[i][r].phase = "APPLYING"
    /\ gate[i] = NoRun
    /\ counter[i] <= items[i][r].number
    /\ counter' = [counter EXCEPT ![i] = items[i][r].number]
    /\ gate' = [gate EXCEPT ![i] = r]
    /\ setItem(i, r, [items[i][r] EXCEPT !.phase = "GRANTED"])
    /\ UNCHANGED <<late, builds>>

\* applyNumber under the job's monitor: the job's counter becomes the granted
\* number, unless it has passed it.
passed(i, n) == counter[i] > n

applyNumber(i, n) == ~passed(i, n) /\ counter' = [counter EXCEPT ![i] = n]

\* applyGrant, run by the gate's thread once no run holds the gate.  A counter
\* past the grant sends the item back to claim with number_conflict.
applyGrant(i, r) ==
    LET granted == items[i][r].number IN
    /\ items[i][r].phase = "APPLYING"
    /\ gate[i] = NoRun
    /\ \/ /\ passed(i, granted)
          /\ setItem(i, r, Requeued([items[i][r] EXCEPT !.conflict = granted]))
          /\ UNCHANGED <<gate, counter>>
       \/ /\ applyNumber(i, granted)
          /\ gate' = [gate EXCEPT ![i] = r]
          /\ setItem(i, r, [items[i][r] EXCEPT !.phase = "MARKING", !.conflict = 0])
    /\ UNCHANGED <<late, builds>>

\* markStart takes answer a to the start mark.  Only a grant that finds the run
\* still holding the gate sets the granted flag; the gate then stays held until
\* the start.  Every other answer, and a lost one, sends the item to claim again.
markStart(i, r, a) ==
    /\ items[i][r].phase = "MARKING"
    /\ \/ /\ a.decision = "GRANTED"
          /\ gate[i] = r
          /\ setItem(i, r, [items[i][r] EXCEPT !.phase = "GRANTED"])
          /\ UNCHANGED gate
       \/ /\ a.decision = "DUPLICATE"
          /\ setItem(i, r, NoItem)
          /\ gate' = opened(i, r)
       \/ /\ setItem(i, r, Requeued(items[i][r]))
          /\ gate' = opened(i, r)
    /\ UNCHANGED <<late, counter, builds>>

\* A post times out before the recorder handled it.  It carries generation g.
postTimesOut(i, r, g) ==
    /\ Cardinality(late) < MaxLate
    /\ \/ /\ items[i][r].phase = "QUEUED"
          /\ late' = late \cup {claimBody(i, r, g)}
          /\ UNCHANGED <<items, gate>>
       \/ /\ items[i][r].phase = "MARKING"
          /\ late' = late \cup {startMarkBody(i, r, g)}
          /\ setItem(i, r, Requeued(items[i][r]))
          /\ gate' = opened(i, r)
    /\ UNCHANGED <<counter, builds>>

\* The item leaves the queue: cancelled by a user, the one-hour limit or a number
\* that did not persist, or lost with the process.  Leaves.onLeft opens the gate.
cancel(i, r) ==
    /\ items[i][r].phase # "NONE"
    /\ setItem(i, r, NoItem)
    /\ gate' = opened(i, r)
    /\ UNCHANGED <<late, counter, builds>>

\* A holder that did not start within HOLD_MILLIS loses the gate.
expire(i) ==
    /\ GateExpires
    /\ gate[i] # NoRun
    /\ gate' = [gate EXCEPT ![i] = NoRun]
    /\ UNCHANGED <<items, late, counter, builds>>

\* Jenkins starts a granted item under its own counter; onStarted opens the
\* gate.
Start(i, r) ==
    /\ items[i][r].phase = "GRANTED"
    /\ builds' = builds \cup {[run |-> r, inst |-> i, number |-> counter[i]]}
    /\ counter' = [counter EXCEPT ![i] = @ + 1]
    /\ setItem(i, r, NoItem)
    /\ gate' = opened(i, r)
    /\ UNCHANGED <<late>>

\* The container restarts inside its pod.  The home stays: the builds, the
\* counter, and the queue items with their granted flags.  The gate and every
\* pending claim are gone.  (An item that Jenkins did not save is a cancel.)
Restart(i) ==
    /\ items' = [items EXCEPT ![i] = [r \in Run |->
          IF @[r].phase \in {"APPLYING", "MARKING"} THEN Requeued(@[r]) ELSE @[r]]]
    /\ gate' = [gate EXCEPT ![i] = NoRun]
    /\ UNCHANGED <<late, counter, builds>>

\* applyNextBuildNumber: the rehydration seed raises the job's number file to the
\* watermark it carries, never lowers it, and the reload brings it into Jenkins.
applySeed(i, next) ==
    /\ next > counter[i]
    /\ counter' = [counter EXCEPT ![i] = next]
    /\ UNCHANGED <<items, late, gate, builds>>
=============================================================================
