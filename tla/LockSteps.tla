------------------------------ MODULE LockSteps -----------------------------
(***************************************************************************)
(* The varroaLock steps of the plugin (VarroaLockStep.Execution) and their *)
(* composition with the recorder's FleetLock.  A run may execute several   *)
(* steps on the one lock: one after the other, in parallel branches, or    *)
(* nested.  Every request names the run, never the step.                   *)
(*                                                                         *)
(* A request and its answer are one step, or the answer is lost, or the    *)
(* request itself is delayed: it then sits in late and the recorder        *)
(* handles it after its caller moved on.                                   *)
(***************************************************************************)
EXTENDS FleetLock

CONSTANTS
    Step,      \* step executions
    RunOf,     \* the run of each step
    StartsAt,  \* the instance each run starts on, its home at first
    Faults,    \* the faults that may happen, see below
    MaxLate    \* bound: requests in transit that nobody waits for

\* lost: a post fails, though the recorder may have handled it.  forget: Jenkins
\* restarts from a state saved before the hold.  partition: a live pod cannot
\* renew, and may be taken for gone.  force: administrators force releases.
\* member: the recorder grants a run that is on a member other than its home, as
\* the placement check allows, and the row then names the home's instance.
ASSUME LockStepsAssumption ==
    /\ RunOf \in [Step -> Run]
    /\ StartsAt \in [Run -> Instance]
    /\ Faults \subseteq {"lost", "forget", "partition", "force", "member"}
    /\ MaxLate \in Nat

VARIABLES
    steps,     \* phase and fence token of each step execution
    at,        \* the instance that runs each run
    up,        \* the pods that run
    finished,  \* the runs that Jenkins ended
    late       \* requests whose caller gave up

stepVars == <<steps, at, up, finished, late>>

vars == <<tableVars, stepVars>>

-----------------------------------------------------------------------------
\* confirming: resumed after a restart, the body is held back until the recorder
\* confirms the hold.  ending: the hold ended, the body is being cancelled.
\* unfenced: the state that Jenkins restarted from has the end of the hold
\* (holdEnded) but not the cancel, and the body runs on.
Phase == {"idle", "polling", "body", "confirming", "ending", "unfenced", "done"}

LateRequest == [kind : {"acquire", "release"}, run : Run, inst : Instance]

LockStepsTypeOK ==
    /\ steps \in [Step -> [phase : Phase, token : Nat]]
    /\ at \in [Run -> Instance]
    /\ up \subseteq Instance
    /\ finished \subseteq Run
    /\ late \subseteq LateRequest

Init ==
    /\ FleetLockInit
    /\ home = StartsAt
    /\ steps = [s \in Step |-> [phase |-> "idle", token |-> 0]]
    /\ at = StartsAt
    /\ up = Instance
    /\ finished = {}
    /\ late = {}

Running(s) == at[RunOf[s]] \in up /\ RunOf[s] \notin finished

goTo(s, phase) == steps' = [steps EXCEPT ![s].phase = phase]

Delayed(kind, r) ==
    /\ Cardinality(late) < MaxLate
    /\ late' = late \cup {[kind |-> kind, run |-> r, inst |-> at[r]]}

\* releaseLock, best effort: handled, failed, or handled later.
releaseLock(r) ==
    \/ handleCrossTenantLockRelease(r) /\ UNCHANGED late
    \/ "lost" \in Faults /\ UNCHANGED <<tableVars, late>>
    \/ Delayed("release", r) /\ UNCHANGED tableVars

-----------------------------------------------------------------------------
(* The step.                                                               *)

start(s) ==
    /\ Running(s)
    /\ steps[s].phase = "idle"
    /\ goTo(s, "polling")
    /\ UNCHANGED <<tableVars, at, up, finished, late>>

Admitted(r, i) == i = home[r] \/ "member" \in Faults

\* attemptAcquire, with the recorder's answer.  The placement check may veto a
\* caller that is not on the home, and the step then releases and fails.
attemptAcquire(s) ==
    LET r == RunOf[s] IN
    /\ Running(s)
    /\ steps[s].phase = "polling"
    /\ \/ /\ Admitted(r, at[r])
          /\ \E a \in Answers :
                /\ acquireFleetLock(r, a)
                /\ a.state \in {"held", "waiting"}
                /\ steps' = IF a.state = "held"
                            THEN [steps EXCEPT ![s] = [phase |-> "body", token |-> a.token]]
                            ELSE steps
          /\ UNCHANGED late
       \/ /\ at[r] # home[r] \/ fleetLockRunEnded(r)
          /\ releaseLock(r)
          /\ goTo(s, "done")
    /\ UNCHANGED <<at, up, finished>>

\* A failed post fails the step at once, with no release: the recorder may have
\* handled the acquire, or will.
acquireFails(s) ==
    LET r == RunOf[s] IN
    /\ Running(s)
    /\ steps[s].phase = "polling"
    /\ \/ /\ "lost" \in Faults
          /\ \/ Admitted(r, at[r]) /\ \E a \in Answers : acquireFleetLock(r, a)
             \/ UNCHANGED tableVars
          /\ UNCHANGED late
       \/ Delayed("acquire", r) /\ UNCHANGED tableVars
    /\ goTo(s, "done")
    /\ UNCHANGED <<at, up, finished>>

\* The wait ends without the lock: the timeout, or stop(), which leaves the next
\* attempt on the timer.
giveUp(s) ==
    /\ Running(s)
    /\ steps[s].phase = "polling"
    /\ \/ releaseLock(RunOf[s])
       \/ handleCrossTenantLockRelease(RunOf[s]) /\ Delayed("acquire", RunOf[s])
    /\ goTo(s, "done")
    /\ UNCHANGED <<at, up, finished>>

\* What a renew answer means for the hold of token t.
ends(a, t) == a.state = "lost" \/ (a.state = "held" /\ a.token # t)

\* renew: the body goes on, or endHold cancels it.  A caller off the home may be
\* refused for good.
renew(s) ==
    LET r == RunOf[s] IN
    /\ Running(s)
    /\ steps[s].phase = "body"
    /\ \/ \E a \in Answers :
             /\ renewFleetLockRow(r, a)
             /\ IF ends(a, steps[s].token) THEN goTo(s, "ending") ELSE UNCHANGED steps
       \/ at[r] # home[r] /\ goTo(s, "ending") /\ UNCHANGED tableVars
    /\ UNCHANGED <<at, up, finished, late>>

\* Mutant: a row that is gone lets the body run, and only another token ends it.
confirmsWithoutRow(a, t) == a.token \in {0, t}

\* confirmHoldAfterResume: only held with the stored token lets the body run.
confirms(a, t) == a.state = "held" /\ a.token = t

\* Every other answer, and none within the bound, ends the hold.
confirmHoldAfterResume(s) ==
    LET r == RunOf[s] IN
    /\ Running(s)
    /\ steps[s].phase = "confirming"
    /\ \/ \E a \in Answers :
             /\ renewFleetLockRow(r, a)
             /\ goTo(s, IF confirms(a, steps[s].token) THEN "body" ELSE "ending")
       \/ /\ at[r] # home[r] \/ "lost" \in Faults
          /\ goTo(s, "ending")
          /\ UNCHANGED tableVars
    /\ UNCHANGED <<at, up, finished, late>>

\* The body ends, by itself or cancelled: the callback releases.
finish(s) ==
    /\ Running(s)
    /\ steps[s].phase \in {"body", "ending", "unfenced"}
    /\ releaseLock(RunOf[s])
    /\ goTo(s, "done")
    /\ UNCHANGED <<at, up, finished>>

\* onResume, for every step of run r.  A step that is saved with its token holds
\* its body back, unless it is saved with the end of its hold too (E): then the
\* body runs on with no confirmation, no renewal and no second cancel.  A step
\* that is saved without its token acquires again.
onResume(r) ==
    \/ \E E \in SUBSET {s \in Step : steps[s].phase = "ending"} :
          steps' = [s \in Step |->
             IF RunOf[s] = r /\ steps[s].phase \in {"body", "ending"}
             THEN [steps[s] EXCEPT !.phase = IF s \in E THEN "unfenced" ELSE "confirming"]
             ELSE steps[s]]
    \/ /\ "forget" \in Faults
       /\ steps' = [s \in Step |->
            IF RunOf[s] = r /\ steps[s].phase \in {"body", "ending", "unfenced", "confirming"}
            THEN [phase |-> "polling", token |-> 0] ELSE steps[s]]

-----------------------------------------------------------------------------
(* The cells, the runs and the recorder.                                   *)

\* Jenkins restarts inside its pod, as run r sees it.
restart(r) ==
    /\ at[r] \in up
    /\ r \notin finished
    /\ onResume(r)
    /\ UNCHANGED <<tableVars, at, up, finished, late>>

\* The recorder hands the run of a gone pod to the home.
takeover(r) ==
    /\ at[r] \notin up
    /\ at[r] \in gone
    /\ r \notin finished
    /\ moveLockOwner(r, at[r])
    /\ onResume(r)
    /\ at' = [at EXCEPT ![r] = home[r]]
    /\ UNCHANGED <<up, finished, late>>

podDies(i) ==
    /\ i \in up
    /\ up' = up \ {i}
    /\ UNCHANGED <<tableVars, steps, at, finished, late>>

\* Jenkins ends the run once none of its steps is under way.
runEnds(r) ==
    /\ at[r] \in up
    /\ r \notin finished
    /\ \A s \in Step : RunOf[s] = r => steps[s].phase \in {"idle", "done"}
    /\ finished' = finished \cup {r}
    /\ UNCHANGED <<tableVars, steps, at, up, late>>

completed(r) == r \in finished /\ deleteFleetLocksForRun(r) /\ UNCHANGED stepVars

\* A step of r keeps its lease fresh.
attended(r) ==
    /\ at[r] \in up
    /\ r \notin finished
    /\ \E s \in Step : RunOf[s] = r /\ steps[s].phase \in {"polling", "body"}

expires(r) ==
    /\ ~attended(r) \/ "partition" \in Faults
    /\ leaseExpires(r)
    /\ UNCHANGED stepVars

interrupted(r) == markInterrupted(r) /\ UNCHANGED stepVars

movesInterrupted == moveInterruptedFleetLockHolders /\ UNCHANGED stepVars

sweeps == sweepFleetLocks /\ UNCHANGED stepVars

\* The pod of instance i stopped, or a partition hides it.
stopped(i) == i \notin up \/ "partition" \in Faults

releases(r) ==
    /\ \/ ReleaseConfirmedFleetLocks(r, stopped(home[r]))
       \/ "force" \in Faults /\ ForceReleaseFleetLock(r)
    /\ UNCHANGED stepVars

announces(i) ==
    /\ \/ i \in up /\ \E r \in Run : announceHome(r, i)
       \/ stopped(i) /\ announceGone(i)
    /\ UNCHANGED stepVars

handleLate(q) ==
    /\ \/ q.kind = "release" /\ handleCrossTenantLockRelease(q.run)
       \/ q.kind = "acquire" /\ Admitted(q.run, q.inst) /\ \E a \in Answers : acquireFleetLock(q.run, a)
       \/ q.kind = "acquire" /\ q.inst # home[q.run] /\ UNCHANGED tableVars
    /\ late' = late \ {q}
    /\ UNCHANGED <<steps, at, up, finished>>

Next ==
    \/ \E s \in Step :
          \/ start(s)
          \/ attemptAcquire(s)
          \/ acquireFails(s)
          \/ giveUp(s)
          \/ renew(s)
          \/ confirmHoldAfterResume(s)
          \/ finish(s)
    \/ \E r \in Run :
          \/ restart(r)
          \/ takeover(r)
          \/ runEnds(r)
          \/ completed(r)
          \/ expires(r)
          \/ interrupted(r)
          \/ releases(r)
    \/ \E i \in Instance : podDies(i) \/ announces(i)
    \/ \E q \in late : handleLate(q)
    \/ movesInterrupted
    \/ sweeps

Spec == Init /\ [][Next]_vars

\* The timers poll, a run ends and its completion arrives, leases that nobody
\* refreshes run out, and the recorder's rounds run.  A body ends: strong
\* fairness, since a restart interrupts it but does not for ever.
Fairness ==
    /\ \A s \in Step :
          /\ WF_vars(attemptAcquire(s))
          /\ WF_vars(confirmHoldAfterResume(s))
          /\ SF_vars(finish(s))
    /\ \A r \in Run :
          /\ WF_vars(runEnds(r))
          /\ WF_vars(completed(r))
          /\ WF_vars(expires(r))
          /\ WF_vars(releases(r))
    /\ \A i \in Instance : WF_vars(stopped(i) /\ announceGone(i) /\ UNCHANGED stepVars)
    /\ WF_vars(movesInterrupted)
    /\ WF_vars(sweeps)

FairSpec == Spec /\ Fairness

-----------------------------------------------------------------------------
\* Every row, step and request has its type.
TypeOK == FleetLockTypeOK /\ LockStepsTypeOK

Holds(r) == rows[r].state \in {"held", "releasing"}

\* The fencing token protects the guarded resource: while a body runs, whoever
\* holds the lock has that body's own token or a higher one, so that a resource
\* that refuses lower tokens never takes a write of an older hold after a
\* write of a newer one.  It needs no assumption on clocks or delivery.
HolderIsNewest ==
    \A s \in Step, r \in Run :
       steps[s].token # 0 /\ Holds(r) =>
          \/ rows[r].token > steps[s].token
          \/ r = RunOf[s] /\ rows[r].token = steps[s].token

\* The lock is a fenced lock under every fault: each promotion replaces all other
\* holds and takes the next token of the sequence, and a step has no token but the
\* one that its own acquire was granted (acquireFleetLock, attemptAcquire).
Hold == {[run |-> r, token |-> rows[r].token] : r \in {q \in Run : Holds(q)}}

Fenced == INSTANCE FencedLock
    WITH last <- fence, holds <- Hold, tokens <- [s \in Step |-> steps[s].token]

LockIsFenced == Fenced!Spec

\* What makes HolderIsNewest inductive: one run holds at a time, and every hold
\* has a token of the sequence so far, and no step one above it.
OneHolder == \A r, q \in Run : Holds(r) /\ Holds(q) => r = q

TokensIssued ==
    /\ \A r \in Run : Holds(r) => 0 < rows[r].token /\ rows[r].token <= fence
    /\ \A s \in Step : steps[s].token <= fence

Fencing == TypeOK /\ OneHolder /\ TokensIssued /\ HolderIsNewest

\* A run that ended has no row, whatever acquire was still in transit.
EndedRunHoldsNothing == \A r \in Run : run[r] = "ENDED" => rows[r].state = "none"

\* The row of an interrupted holder leaves with its run, by its own step, or once
\* its pod is known to be gone: never because its lease ran out.  (Where
\* requests may be delayed or administrators force, those free it too.)
InterruptedHoldKept ==
    [][\A r \in Run :
         /\ Holds(r)
         /\ run[r] = "INTERRUPTED"
         /\ rows'[r].state = "none"
         => \/ run'[r] = "ENDED"
            \/ \E s \in Step : RunOf[s] = r /\ steps'[s] # steps[s]
            \/ rows[r].inst \in gone
            \/ rows[r].inst = home[r] /\ home[r] \notin up]_vars

\* Where nothing hides a live pod, runs are on their homes and no request is
\* delayed, at most one body runs whose hold nobody ended: not across expired
\* leases, restarts, lost answers, interrupted runs or takeovers.  A body whose
\* hold did end may run beside it, until its cancel arrives or, after a restart
\* that lost the cancel, until its own end: endHold only asks it to stop.  It
\* has a lower token then, which is what the guarded resource can refuse.
Executes(s) == Running(s) /\ steps[s].phase \in {"body", "ending", "unfenced"}

MutualExclusion ==
    \A s, t \in Step :
       s # t /\ Executes(s) /\ Executes(t) /\ steps[t].phase = "body" =>
          steps[s].phase # "body" /\ steps[s].token < steps[t].token

\* What makes MutualExclusion inductive where nothing hides a live pod: the lock
\* is held where its run is, a pod that is known to be gone has stopped, and the
\* run of every body holds the lock under the body's token with a lease that has
\* not run out.
HeldWhereItRuns == \A r \in Run : Holds(r) => rows[r].inst = at[r]

GoneIsDown == gone \cap up = {}

BodyHolds ==
    \A s \in Step :
       Running(s) /\ steps[s].phase = "body" =>
          /\ Holds(RunOf[s])
          /\ ~rows[RunOf[s]].expired
          /\ rows[RunOf[s]].token = steps[s].token

Guarded == late = {} /\ HeldWhereItRuns /\ GoneIsDown /\ BodyHolds

\* Under the same conditions the bodies whose hold nobody ended are an exclusive
\* section: no step of the protocol, a takeover or a restart included, hands it
\* from one body to another, each enters when it is empty (attemptAcquire,
\* confirmHoldAfterResume).
Bodies == {s \in Step : Running(s) /\ steps[s].phase = "body"}

Section == INSTANCE Exclusive WITH Process <- Step, inside <- Bodies

LockIsExclusive == Section!Spec

\* A step that polls gets the lock, or fails, or its pod dies: no dead waiter,
\* dead holder or interrupted run keeps it waiting for ever.
WaiterServed ==
    \A s \in Step :
       steps[s].phase = "polling" ~> (steps[s].phase # "polling" \/ ~Running(s))

=============================================================================
