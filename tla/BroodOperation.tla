--------------------------- MODULE BroodOperation ---------------------------
(***************************************************************************)
(* One BroodOperation and its reconciler (broodoperation_controller.go): a  *)
(* verb is run against a snapshot of controllers, wave by wave, at most    *)
(* maxParallel at a time, under a failure policy.  The reconciler is one   *)
(* worker that reads the object from the informer's cache, decides on a    *)
(* copy, and replaces the whole status; users suspend, resume and cancel   *)
(* the operation meanwhile.                                                *)
(*                                                                         *)
(* The stored object and the cache are apart: an update is accepted only   *)
(* when the cache holds the stored version, so patchStatus waits for the   *)
(* watch or gives up after its retries.  A tick may begin on an older      *)
(* version; stale counts those.                                            *)
(*                                                                         *)
(* What happens to a controller after its command is the environment's     *)
(* choice: each verb's predicate may observe any of its outcomes.  Only    *)
(* executeGroovy keeps its outcome in the operator's memory.  There is no  *)
(* clock: due holds the targets whose verb timeout has passed.             *)
(***************************************************************************)
EXTENDS Naturals, Sequences, FiniteSets

CONSTANTS
    Target,         \* 1 .. n, in the order of status.targets
    Operation,      \* the operations: verb, failurePolicy, maxParallel, wave of each target
    MaxToggles,     \* bound on changes of spec.suspend
    MaxStale,       \* bound on ticks that begin on an older status
    MaxFaults       \* bound on crashes, failed writes and undecided upgrade gates

Running == {"Dispatched", "Left"}    \* Left: Dispatched, with the marker in its Reason
Terminal == {"Succeeded", "Failed", "Skipped"}
TargetState == {"None", "Pending"} \cup Running \cup Terminal
Final == {"Succeeded", "Failed", "Canceled"}
Phase == {"Pending", "Running", "Suspended", "GONE"} \cup Final

Object == [finalizer : BOOLEAN, deleting : BOOLEAN, suspend : BOOLEAN, phase : Phase,
           targets : [Target -> TargetState]]

ASSUME BroodAssumption ==
    /\ IsFiniteSet(Target) /\ Target = 1 .. Cardinality(Target)
    /\ Operation \subseteq
           [verb : {"restart", "reprovision", "reconcile", "stop", "start", "upgrade", "executeGroovy"},
            failurePolicy : {"FailFast", "FailTidy", "FailAtEnd"},
            maxParallel : Nat \ {0},
            wave : [Target -> Nat]]
    /\ MaxToggles \in Nat /\ MaxStale \in Nat /\ MaxFaults \in Nat

VARIABLES
    spec,       \* the immutable part of the operation, and the waves of the snapshot
    cache,      \* the object as the informer last saw it
    events,     \* later versions of the object, on their way to the informer
    op,         \* the copy a tick works on, Gone between ticks
    pc,         \* IDLE, or the write or send that the tick stands before
    loop,       \* dispatchLoop: the next target, the free slots and the open wave
    calls,      \* groovyInFlight: goroutines per target
    results,    \* groovyResults
    due,
    sent,       \* history: commands sent to each target, counted to 2
    toggles, stale, faults

vars == <<spec, cache, events, op, pc, loop, calls, results, due, sent, toggles, stale, faults>>
groovyVars == <<calls, results>>
boundVars == <<toggles, stale, faults>>

NoTargets == [t \in Target |-> "None"]
Gone == [finalizer |-> FALSE, deleting |-> TRUE, suspend |-> FALSE, phase |-> "GONE",
         targets |-> NoTargets]
NoLoop == [at |-> 1, slots |-> 0, wave |-> 0]

\* The object in the API server.
Stored == IF events = <<>> THEN cache ELSE events[Len(events)]

TypeOK ==
    /\ spec \in Operation
    /\ cache \in Object
    /\ events \in Seq(Object)
    /\ op \in Object
    /\ pc \in {"IDLE", "FIN", "END", "TERM", "LOOP", "WRITE", "SEND", "UNFIN"}
    /\ loop \in [at : 1 .. Cardinality(Target) + 1, slots : 0 .. spec.maxParallel, wave : Nat]
    /\ calls \in [Target -> Nat]
    /\ results \in [Target -> {"none", "ok", "error"}]
    /\ due \subseteq Target
    /\ sent \in [Target -> 0 .. 2]
    /\ toggles \in 0 .. MaxToggles
    /\ stale \in 0 .. MaxStale
    /\ faults \in 0 .. MaxFaults

Init ==
    /\ spec \in Operation
    /\ cache = [finalizer |-> FALSE, deleting |-> FALSE, suspend |-> FALSE, phase |-> "Pending",
                targets |-> NoTargets]
    /\ events = <<>>
    /\ op = Gone
    /\ pc = "IDLE"
    /\ loop = NoLoop
    /\ calls = [t \in Target |-> 0]
    /\ results = [t \in Target |-> "none"]
    /\ due = {}
    /\ sent = [t \in Target |-> 0]
    /\ toggles = 0
    /\ stale = 0
    /\ faults = 0

-----------------------------------------------------------------------------
(* The status as a value: what a tick makes of it before it writes.         *)

AllTerminal(targets) == \A t \in Target : targets[t] \in Terminal
AnyFailed(targets) == \E t \in Target : targets[t] = "Failed"

\* evaluateDispatchedTarget: what the verb's predicate may observe of a target that
\* is not timed out.
observed(t, state) ==
    CASE spec.verb = "executeGroovy" ->
            (CASE results[t] = "ok" -> {"Succeeded"}
               [] results[t] = "error" -> {"Failed"}
               [] OTHER -> {state})
      [] state = "Left" -> {"Left", "Succeeded"}
      [] spec.verb = "upgrade" -> {"Dispatched", "Left"}
      [] spec.verb = "reprovision" -> {"Dispatched", "Left", "Failed"}
      [] spec.verb = "reconcile" -> {"Dispatched", "Succeeded", "Skipped"}
      [] spec.verb = "restart" -> {"Dispatched", "Succeeded", "Failed"}
      [] OTHER -> {"Dispatched", "Succeeded"}

\* Mutants: a finished target is evaluated again; the timeout is not tested.
evaluatesFinished(t, state) ==
    CASE state = "Pending" -> {"Pending", "Failed"}
      [] state = "None" -> {state}
      [] OTHER -> {"Failed"} \cup (IF t \in due THEN {} ELSE observed(t, state))
evaluatesUntimed(t, state) ==
    CASE state = "Pending" -> {"Pending", "Failed"}
      [] state \in Running -> {"Failed"} \cup observed(t, state)
      [] OTHER -> {state}

\* One target of evaluateTargets: a deleted controller fails it, and so does the
\* timeout, which is tested before the predicate.
evaluate(t, state) ==
    CASE state = "Pending" -> {"Pending", "Failed"}
      [] state \in Running -> {"Failed"} \cup (IF t \in due THEN {} ELSE observed(t, state))
      [] OTHER -> {state}

evaluateTargets(targets) ==
    {f \in [Target -> TargetState] : \A t \in Target : f[t] \in evaluate(t, targets[t])}

\* A timed-out executeGroovy target drops its result; ackGroovyResults drops the
\* results of the targets that a write made terminal.
resultsKept(drop) == [t \in Target |-> IF t \in drop THEN "none" ELSE results[t]]
timedOut(targets) == {t \in due : targets[t] \in Running}
ackGroovyResults(targets) == resultsKept({t \in Target : targets[t] \in {"Succeeded", "Failed"}})

applyFailTidyPending(targets) ==
    [t \in Target |-> IF targets[t] = "Pending" THEN "Skipped" ELSE targets[t]]

applyFailFast(targets) ==
    [t \in Target |-> CASE targets[t] = "Pending" -> "Skipped"
                        [] targets[t] \in Running -> "Failed"
                        [] OTHER -> targets[t]]

\* The failure-policy gate of dispatchLoop: a failure cancels what is pending.
stopsOnFailure(targets) == spec.failurePolicy # "FailAtEnd" /\ AnyFailed(targets)
afterFailure(targets) ==
    IF spec.failurePolicy = "FailFast" THEN applyFailFast(targets)
    ELSE applyFailTidyPending(targets)

\* Mutant: the wave of the next target, with no look at what still runs.
nextWave(targets) ==
    LET open == {spec.wave[t] : t \in {u \in Target : targets[u] = "Pending"}}
    IN CHOOSE w \in open \cup {0} : open # {} => w \in open /\ \A v \in open : w <= v

\* The least wave with a target that is not terminal.
currentWave(targets) ==
    LET open == {spec.wave[t] : t \in {u \in Target : targets[u] \notin Terminal}}
    IN CHOOSE w \in open : \A v \in open : w <= v

inFlight(targets) == Cardinality({t \in Target : targets[t] \in Running})

-----------------------------------------------------------------------------
(* Writes.  patchStatus reads the cache and updates, and retries a          *)
(* conflict; it fails when the cache does not catch up, when the object is  *)
(* gone, or when the API server fails, before or after it wrote.            *)

withStatus == [cache EXCEPT !.phase = op.phase, !.targets = op.targets]
Sees(obj) == events' = IF obj = cache THEN <<>> ELSE <<obj>>

UpToDate == events = <<>> /\ cache # Gone

patched ==
    /\ UpToDate
    /\ Sees(withStatus)
    /\ results' = IF spec.verb = "executeGroovy" THEN ackGroovyResults(op.targets) ELSE results
    /\ UNCHANGED faults

notWritten ==
    \/ ~UpToDate /\ UNCHANGED <<events, faults>>
    \/ faults < MaxFaults /\ faults' = faults + 1 /\ UNCHANGED events

unanswered(obj) == UpToDate /\ Sees(obj) /\ faults < MaxFaults /\ faults' = faults + 1

patchFails == (notWritten \/ unanswered(withStatus)) /\ UNCHANGED results

\* checkTerminal: the phase follows from the targets, and a write follows that the
\* caller's own write repeats when it fails.
checkTerminal(targets, phase, busy) ==
    /\ op' = [cache EXCEPT !.targets = targets,
                           !.phase = IF ~AllTerminal(targets) THEN phase
                                     ELSE IF AnyFailed(targets) THEN "Failed" ELSE "Succeeded"]
    /\ pc' = IF AllTerminal(targets) THEN "TERM" ELSE busy

-----------------------------------------------------------------------------
(* Reconcile: the read, and all that is decided before the first write.     *)

\* Get from the cache.  The tick is stale when the stored status is newer.
Get(current) ==
    /\ pc = "IDLE"
    /\ cache # Gone
    /\ current
    /\ LET old == <<cache.phase, cache.targets>> # <<Stored.phase, Stored.targets>>
       IN /\ old => stale < MaxStale
          /\ stale' = IF old THEN stale + 1 ELSE stale
    /\ UNCHANGED <<spec, cache, due, sent, calls, toggles>>

Active == cache.finalizer /\ ~cache.deleting

addFinalizer ==
    /\ Get(~cache.finalizer /\ ~cache.deleting)
    /\ op' = cache
    /\ pc' = "FIN"
    /\ UNCHANGED <<events, loop, results, faults>>

\* A controller that was not found, or to which the verb does not apply, is skipped.
ResolveTargets == [Target -> {"Pending", "Skipped"}]

\* Tenancy, verb policy, target version or resolution may refuse the operation.
reconcilePending ==
    /\ Get(Active /\ cache.phase = "Pending")
    /\ \/ op' = [cache EXCEPT !.phase = "Failed"]
       \/ \E resolved \in ResolveTargets :
             op' = [cache EXCEPT !.targets = resolved,
                                 !.phase = IF AllTerminal(resolved) THEN "Succeeded" ELSE "Running"]
    /\ pc' = "END"
    /\ UNCHANGED <<events, loop, results, faults>>

followSuspend ==
    /\ Get(/\ Active
           /\ <<cache.phase, cache.suspend>> \in {<<"Running", TRUE>>, <<"Suspended", FALSE>>})
    /\ op' = [cache EXCEPT !.phase = IF cache.suspend THEN "Suspended" ELSE "Running"]
    /\ pc' = "END"
    /\ UNCHANGED <<events, loop, results, faults>>

reconcileSuspended ==
    /\ Get(Active /\ cache.phase = "Suspended" /\ cache.suspend)
    /\ \E targets \in evaluateTargets(cache.targets) : checkTerminal(targets, "Suspended", "END")
    /\ results' = resultsKept(timedOut(cache.targets))
    /\ UNCHANGED <<events, loop, faults>>

\* The policy governs two verbs, and may be revoked while the operation runs.
verbPolicyMayRefuse == spec.verb \in {"executeGroovy", "upgrade"}

\* Evaluate, then stop at a revoked verb policy or a failure, or open the loop.
reconcileRunning ==
    /\ Get(Active /\ cache.phase = "Running" /\ ~cache.suspend)
    /\ \E targets \in evaluateTargets(cache.targets) :
          \/ /\ ~AllTerminal(targets)
             /\ verbPolicyMayRefuse
             /\ checkTerminal(applyFailTidyPending(targets), "Running", "END")
             /\ UNCHANGED loop
          \/ /\ AllTerminal(targets) \/ stopsOnFailure(targets)
             /\ checkTerminal(IF AllTerminal(targets) THEN targets ELSE afterFailure(targets),
                              "Running", "END")
             /\ UNCHANGED loop
          \/ /\ ~AllTerminal(targets) /\ ~stopsOnFailure(targets)
             /\ checkTerminal(targets, "Running", "LOOP")
             /\ loop' = [at |-> 1, wave |-> currentWave(targets),
                         slots |-> IF inFlight(targets) >= spec.maxParallel THEN 0
                                   ELSE spec.maxParallel - inFlight(targets)]
    /\ results' = resultsKept(timedOut(cache.targets))
    /\ UNCHANGED <<events, faults>>

\* Mutant: the goroutines are not waited for.
dispatchedLeft(targets) == inFlight(targets) > 0

settling(targets) == inFlight(targets) > 0 \/ \E t \in Target : calls[t] > 0

\* Pending targets are canceled; the object stays while a target is Dispatched or a
\* goroutine runs.
reconcileDelete ==
    /\ Get(cache.deleting /\ cache.finalizer)
    /\ \E evaluated \in evaluateTargets(cache.targets) :
          LET targets == applyFailTidyPending(evaluated)
              busy == settling(targets)
          IN /\ op' = [cache EXCEPT !.targets = targets, !.phase = IF busy THEN @ ELSE "Canceled"]
             /\ pc' = IF busy THEN "END" ELSE "UNFIN"
             /\ results' = IF busy THEN resultsKept(timedOut(cache.targets))
                           ELSE resultsKept(Target)
    /\ UNCHANGED <<events, loop, faults>>

\* The time to live has passed.
reconcileTerminal ==
    /\ Get(Active /\ cache.phase \in Final)
    /\ \/ /\ events' = IF Stored.deleting THEN events
                       ELSE Append(events, [Stored EXCEPT !.deleting = TRUE])
          /\ UNCHANGED faults
       \/ UNCHANGED events /\ faults < MaxFaults /\ faults' = faults + 1
    /\ UNCHANGED <<op, pc, loop, results>>

-----------------------------------------------------------------------------
(* The writes of a tick, and dispatchLoop.                                  *)

tickVars == <<spec, cache, toggles, stale>>

Done == pc' = "IDLE" /\ op' = Gone /\ loop' = NoLoop

writeFinalizer ==
    /\ pc = "FIN"
    /\ \/ UpToDate /\ Sees([cache EXCEPT !.finalizer = TRUE]) /\ UNCHANGED faults
       \/ notWritten
       \/ unanswered([cache EXCEPT !.finalizer = TRUE])
    /\ Done
    /\ UNCHANGED <<tickVars, groovyVars, due, sent>>

\* RemoveFinalizer: the deleted object goes with it.  The status patch that follows
\* finds no object.
removeFinalizer ==
    /\ pc = "UNFIN"
    /\ \/ UpToDate /\ events' = <<Gone>> /\ UNCHANGED faults
       \/ notWritten
       \/ unanswered(Gone)
    /\ Done
    /\ UNCHANGED <<tickVars, groovyVars, due, sent>>

writeTerminal ==
    /\ pc = "TERM"
    /\ \/ patched /\ Done
       \/ patchFails /\ pc' = "END" /\ UNCHANGED <<op, loop>>
    /\ UNCHANGED <<tickVars, calls, due, sent>>

writeStatus ==
    /\ pc = "END"
    /\ patched \/ patchFails
    /\ Done
    /\ UNCHANGED <<tickVars, calls, due, sent>>

\* The pending targets that the rest of the loop reaches.
reachable == {t \in Target : t >= loop.at /\ op.targets[t] = "Pending" /\ spec.wave[t] <= loop.wave}

\* Mutant: one slot too many.
slotOrOneMore == loop.slots >= 0

slotFree == loop.slots > 0

dispatchEnds ==
    /\ pc = "LOOP"
    /\ ~slotFree \/ reachable = {}
    /\ op' = [op EXCEPT !.phase = IF ~AllTerminal(op.targets) THEN @
                                  ELSE IF AnyFailed(op.targets) THEN "Failed" ELSE "Succeeded"]
    /\ pc' = IF AllTerminal(op.targets) THEN "TERM" ELSE "END"
    /\ loop' = NoLoop
    /\ UNCHANGED <<tickVars, events, groovyVars, due, sent, faults>>

\* What the gate may say of the profile that an upgrade is to release.
upgradeGate == IF spec.verb = "upgrade" THEN {"True", "False", "Unknown"} ELSE {"True"}

\* The next target is marked Dispatched, unless an upgrade gate refuses it or is
\* undecided: then the loop goes on to the one after it.
dispatchNext ==
    /\ pc = "LOOP"
    /\ slotFree /\ reachable # {}
    /\ LET t == CHOOSE u \in reachable : \A v \in reachable : u <= v
       IN \/ /\ "True" \in upgradeGate
             /\ op' = [op EXCEPT !.targets[t] = "Dispatched"]
             /\ pc' = "WRITE"
             /\ loop' = [loop EXCEPT !.at = t]
             /\ UNCHANGED faults
          \/ /\ "False" \in upgradeGate
             /\ op' = [op EXCEPT !.targets[t] = "Failed"]
             /\ loop' = [loop EXCEPT !.at = t + 1]
             /\ UNCHANGED <<pc, faults>>
          \/ /\ "Unknown" \in upgradeGate
             /\ faults < MaxFaults /\ faults' = faults + 1
             /\ loop' = [loop EXCEPT !.at = t + 1]
             /\ UNCHANGED <<pc, op>>
    /\ UNCHANGED <<tickVars, events, groovyVars, due, sent>>

\* Mutant: a failed write does not keep the command back.
sendsAnyway ==
    /\ pc = "WRITE"
    /\ patched \/ patchFails
    /\ pc' = "SEND"
    /\ due' = due \ {loop.at}
    /\ UNCHANGED <<tickVars, op, loop, calls, sent>>

\* Write before send: an unpersisted dispatch is taken back, and the loop ends.
writeDispatched ==
    /\ pc = "WRITE"
    /\ \/ patched /\ pc' = "SEND" /\ UNCHANGED <<op, loop>>
       \/ /\ patchFails
          /\ op' = [op EXCEPT !.targets[loop.at] = "Pending"]
          /\ pc' = "END"
          /\ loop' = NoLoop
    /\ due' = due \ {loop.at}
    /\ UNCHANGED <<tickVars, calls, sent>>

\* The target's command is out; executeGroovy has a goroutine that awaits its answer.
command(t) ==
    /\ sent' = [sent EXCEPT ![t] = IF @ < 2 THEN @ + 1 ELSE @]
    /\ calls' = IF spec.verb = "executeGroovy" THEN [calls EXCEPT ![t] = @ + 1] ELSE calls
    /\ UNCHANGED op

\* An upgrade may end at once, at a pin conflict or because the controller runs the
\* image already.
dispatchUpgrade(t) ==
    /\ spec.verb = "upgrade"
    /\ \E state \in {"Succeeded", "Failed"} : op' = [op EXCEPT !.targets[t] = state]
    /\ UNCHANGED <<sent, calls>>

\* A failed send leaves the target to its timeout.
dispatchTarget ==
    /\ pc = "SEND"
    /\ \/ command(loop.at)
       \/ UNCHANGED <<sent, calls, op>>
       \/ dispatchUpgrade(loop.at)
    /\ loop' = [loop EXCEPT !.at = @ + 1, !.slots = @ - 1]
    /\ pc' = "LOOP"
    /\ UNCHANGED <<tickVars, events, results, due, faults>>

-----------------------------------------------------------------------------
(* The others: the informer, the goroutines, time, users, and a crash.      *)

watch ==
    /\ events # <<>>
    /\ cache' = events[1]
    /\ events' = Tail(events)
    /\ UNCHANGED <<spec, op, pc, loop, groovyVars, due, sent, boundVars>>

\* Mutant: a failed call is not counted out.
groovyAnswers(t) ==
    /\ calls[t] > 0
    /\ \E r \in {"ok", "error"} :
          /\ results' = [results EXCEPT ![t] = r]
          /\ calls' = [calls EXCEPT ![t] = IF r = "ok" THEN @ - 1 ELSE @]
    /\ UNCHANGED <<spec, cache, events, op, pc, loop, due, sent, boundVars>>

\* The goroutine of executeGroovy ends: its call answered, failed or timed out.
groovyEnds(t) ==
    /\ calls[t] > 0
    /\ calls' = [calls EXCEPT ![t] = @ - 1]
    /\ \E r \in {"ok", "error"} : results' = [results EXCEPT ![t] = r]
    /\ UNCHANGED <<spec, cache, events, op, pc, loop, due, sent, boundVars>>

timeout(t) ==
    /\ Stored.targets[t] \in Running
    /\ t \notin due
    /\ due' = due \cup {t}
    /\ UNCHANGED <<spec, cache, events, op, pc, loop, groovyVars, sent, boundVars>>

\* A user suspends or resumes.
toggleSuspend ==
    /\ Stored # Gone /\ ~Stored.deleting
    /\ toggles < MaxToggles
    /\ toggles' = toggles + 1
    /\ events' = Append(events, [Stored EXCEPT !.suspend = ~@])
    /\ UNCHANGED <<spec, cache, op, pc, loop, groovyVars, due, sent, stale, faults>>

\* A user cancels: the object is deleted, at once when it has no finalizer.
cancel ==
    /\ Stored # Gone /\ ~Stored.deleting
    /\ events' = Append(events, IF Stored.finalizer THEN [Stored EXCEPT !.deleting = TRUE] ELSE Gone)
    /\ UNCHANGED <<spec, cache, op, pc, loop, groovyVars, due, sent, boundVars>>

\* The operator dies; the next leader lists the object and has an empty memory.
crash ==
    /\ faults < MaxFaults
    /\ faults' = faults + 1
    /\ cache' = Stored
    /\ events' = <<>>
    /\ Done
    /\ calls' = [t \in Target |-> 0]
    /\ results' = [t \in Target |-> "none"]
    /\ UNCHANGED <<spec, due, sent, toggles, stale>>

Reconcile ==
    \/ addFinalizer \/ reconcilePending \/ followSuspend \/ reconcileSuspended
    \/ reconcileRunning \/ reconcileDelete
    \/ writeFinalizer \/ removeFinalizer \/ writeTerminal \/ writeStatus
    \/ dispatchEnds \/ dispatchNext \/ writeDispatched \/ dispatchTarget

Next ==
    \/ Reconcile \/ reconcileTerminal
    \/ watch
    \/ \E t \in Target : groovyEnds(t) \/ timeout(t)
    \/ toggleSuspend \/ cancel \/ crash

Spec == Init /\ [][Next]_vars

\* The work queue brings the object back after every tick: by its own write, by an
\* error or by the poll.  The watch delivers, a Jenkins call has a deadline of its own,
\* and time passes.
FairSpec ==
    /\ Spec
    /\ WF_vars(Reconcile)
    /\ WF_vars(watch)
    /\ \A t \in Target : WF_vars(groovyEnds(t)) /\ WF_vars(timeout(t))

-----------------------------------------------------------------------------

\* Unless a tick began on an older status: the command of a target is sent at most
\* once, whatever crashes and whichever write fails between the mark and the send, and
\* a target that was sent is never Pending again.
SentOnce ==
    stale = 0 => \A t \in Target : /\ sent[t] <= 1
                                   /\ sent[t] = 1 => Stored.targets[t] # "Pending"

\* Unless a tick began on an older status: no controller of a wave was sent its command
\* while one of an earlier wave is unfinished, and no more than maxParallel wait for
\* theirs to take effect.
RolloutPaced ==
    stale = 0 /\ Stored # Gone =>
        /\ \A t, u \in Target :
              sent[t] > 0 /\ spec.wave[u] < spec.wave[t] => Stored.targets[u] \in Terminal
        /\ inFlight(Stored.targets) <= spec.maxParallel

\* Unless a tick began on an older status: the recorded outcome of a target does not
\* change, and a finished operation does not run again.
OutcomeIsFinal ==
    [][stale' = 0 /\ Stored' # Gone =>
          /\ \A t \in Target : Stored.targets[t] \in Terminal =>
                                 Stored'.targets[t] = Stored.targets[t]
          /\ Stored.phase \in Final => Stored'.phase = Stored.phase]_vars

\* Once the object is gone no goroutine of the operation runs and no result of it is in
\* memory: an operation created later under its name finds neither.
NothingLeftBehind ==
    Stored = Gone => \A t \in Target : calls[t] = 0 /\ results[t] = "none"

\* An operation that is not kept suspended finishes: a command that was lost, or whose
\* outcome was, is settled by the timeout of its verb.
Finishes ==
    []<>(~Stored.suspend) => <>(Stored.phase \in Final \cup {"GONE"})

\* A deleted operation goes: its finalizer waits only for what ends.
DeletionCompletes == Stored.deleting ~> Stored = Gone
=============================================================================
