---------------------------- MODULE BuildClaims -----------------------------
(***************************************************************************)
(* The claim protocol end to end: the recorder's Ledger and the plugin's   *)
(* ClaimQueue, with the requests, answers and events between them.         *)
(***************************************************************************)
EXTENDS ClaimQueue

vars == <<ledgerVars, queueVars>>

-----------------------------------------------------------------------------
Init == LedgerInit /\ ClaimQueueInit

Decisions == {Answer("GRANTED", n) : n \in 0..MaxNumber}
             \cup {Answer(d, 0) : d \in {"DUPLICATE", "RETRY", "NOT_HOME", "FENCED"}}

\* The recorder handles a post, stamped with the generation the gateway reads.
ClaimStep(i, r) ==
    \E a \in Decisions : claimOnce(i, r, a) /\ Claim(claimBody(i, r, placement.gen), a)

MarkStep(i, r) ==
    \E a \in Decisions : markStart(i, r, a) /\ MarkStart(startMarkBody(i, r, placement.gen), a)

\* The recorder handles a request whose caller no longer waits.
HandleLate(q) ==
    /\ \E a \in Decisions : handleClaim(q, a)
    /\ late' = late \ {q}
    /\ UNCHANGED <<items, gate, counter, builds>>

\* The mite of the home applies a seed that was read when the watermark stood at
\* n.  While another job of the tenant is not seeded, the operator resends it.
Rehydrate ==
    /\ Resends \/ ~placement.seeded
    /\ \E n \in 1..nextNumber : applySeed(placement.home, n)
    /\ UNCHANGED ledgerVars

PluginStep ==
    /\ \/ \E i \in Instance, r \in Run :
             \/ Schedule(i, r)
             \/ applyGrant(i, r)
             \/ postTimesOut(i, r, placement.gen)
             \/ cancel(i, r)
             \/ Start(i, r)
       \/ \E i \in Instance : expire(i) \/ Restart(i)
    /\ UNCHANGED ledgerVars

\* The events of a build reach the recorder in any order and any number of
\* times; a build may have ended at any moment after its start.
RecorderStep ==
    /\ \/ \E b \in builds : applyRunStarted(b) \/ applyRunCompleted(b)
       \/ \E r \in VarroaRun : applyTriggerAccepted(r) \/ applyTriggerFailed(r)
       \/ \E r \in Run : claimExpired(r) \/ claimAbandoned(r)
       \/ \E k \in Key : EndMarkedLostIntent(k) \/ GrantAges(k)
       \/ \E i \in Instance : confirmGone(i)
       \/ seedReported
       \/ \E i \in Instance, g \in 1..MaxGeneration : announce(i, g) \/ takeOver(i, g)
    /\ UNCHANGED queueVars

Next ==
    \/ \E i \in Instance, r \in Run : ClaimStep(i, r) \/ MarkStep(i, r)
    \/ \E q \in late : HandleLate(q)
    \/ Rehydrate
    \/ PluginStep
    \/ RecorderStep

Spec == Init /\ [][Next]_vars

-----------------------------------------------------------------------------
\* Every row, request, item and counter has its type, in the ledger's tables and
\* on every cell.
TypeOK == LedgerTypeOK /\ ClaimQueueTypeOK

\* At most one build ever starts for an intent key: not on two instances, not
\* for two runs, not twice on one instance.  (It needs that no repeat trigger
\* races the start of its run: see RepeatFindsBuild.)
OneBuildPerIntent ==
    \A b, c \in builds : KeyOf[b.run] = KeyOf[c.run] => b = c

\* VarroaIntentAction on a schedule of a run whose build left the queue:
\* "findBuildForRunId covers that case on the JVM that holds the build".  No
\* instance builds a run twice.
RepeatFindsBuild ==
    \A b, c \in builds : b.inst = c.inst /\ b.run = c.run => b = c

\* All builds of an intent key are of one run on one instance.
OneStarterPerIntent ==
    \A b, c \in builds : KeyOf[b.run] = KeyOf[c.run] => b.run = c.run /\ b.inst = c.inst

\* The ledger's row says that instance i may start r.
MarkedFor(i, r) ==
    LET row == intents[KeyOf[r]] IN row.marked /\ row.run = r /\ row.owner = i

\* storedIntent.startMarkedAt: "A nil value proves that the build did not
\* start".  A build that started is the one its intent names, under a mark.
StartMarkProof ==
    \A b \in builds : MarkedFor(b.inst, b.run)

\* The inductive invariant of the start protocol.  An item that may start has
\* its mark in the ledger; so has every build; while no trigger races a start,
\* an instance that built a run has no item of it any more; and the ledger
\* consumes an intent only under a mark.
GrantedItemIsMarked ==
    \A i \in Instance, r \in Run : items[i][r].phase = "GRANTED" => MarkedFor(i, r)

BuildStaysHome ==
    \/ TriggersRace
    \/ /\ \A b \in builds : items[b.inst][b.run].phase = "NONE"
       /\ RepeatFindsBuild

IntentShape ==
    \A k \in Key :
       /\ intents[k].state = "NONE" => intents[k] = NoIntent
       /\ intents[k].state = "CONSUMED" => intents[k].marked

StartProtocol ==
    /\ TypeOK
    /\ IntentShape
    /\ GrantedItemIsMarked
    /\ StartMarkProof
    /\ BuildStaysHome

\* Every number an intent holds is below the watermark, so that a reservation
\* never meets the unique constraint, and no two intents hold one number.
NumbersBelowWatermark ==
    /\ \A k \in Key : intents[k].number < nextNumber
    /\ \A k, h \in Key : intents[k].number # 0 /\ intents[k].number = intents[h].number => k = h

\* A consumed intent holds the number Jenkins gave its build, or none.
ConsumedNumberIsBuilt ==
    \A k \in Key : intents[k].state = "CONSUMED" =>
       \E b \in builds : b.run = intents[k].run /\ intents[k].number \in {0, b.number}

\* The start of r was ingested.
Ingested(r) == hasIntent(r) /\ intents[KeyOf[r]].state = "CONSUMED"

\* The run that keeps the revision of r: older, started, and itself no duplicate.
KeepsRevision(o, r) ==
    /\ RevisionOf[o] = RevisionOf[r]
    /\ Age[o] < Age[r]
    /\ Ingested(o)
    /\ runs[o].status # "DUPLICATE"

\* A run whose start was ingested reads as a build: no accepted-trigger row or
\* refused trigger hides it, and the duplicate backstop ends it only while an
\* older run of its revision started and is not ended itself, in whichever order
\* the starts of three runs arrive.
ConsumedRunRecorded ==
    \A r \in Run : Ingested(r) =>
       /\ recordsBuild(runs[r])
       /\ runs[r].status \in {"RUNNING", "COMPLETED", "DUPLICATE"}
       /\ runs[r].status = "DUPLICATE" => \E o \in Run : KeepsRevision(o, r)

\* No row reports a build that never started, but for the synthetic end of a
\* marked start.
RecordedRunStarted ==
    \A r \in Run :
       recordsBuild(runs[r]) /\ runs[r].result \notin {"INTERRUPTED", "START_LOST"} =>
          \E b \in builds : b.run = r

\* The inductive invariant of the run rows.  While a trigger waits for its claim
\* or lost its key, the row says that it records no build; the start of a row that
\* runs, or that the backstop ended, was ingested; a running row has no result; and
\* a completed row that still holds accepted_at is a failed trigger.
RunRowShape ==
    \A r \in Run : LET row == runs[r] IN
       /\ row.status = "ABSENT" => row = AbsentRow
       /\ row.status = "QUEUED" => row.accepted
       /\ row.status \in {"QUEUED", "RUNNING"} => row.result = "NULL"
       /\ row.status = "RUNNING" => ~row.accepted
       /\ row.status = "DUPLICATE" => row.result \in {"NULL", "BUILD"}
       /\ row.result = "BUILD" => ~row.accepted
       /\ row.status \in {"RUNNING", "DUPLICATE"} /\ ~row.accepted => Ingested(r)
       /\ row.status = "COMPLETED" /\ row.accepted => row.result = "TRIGGER_FAILED"

RunRecord ==
    /\ StartProtocol
    /\ RunRowShape
    /\ ConsumedRunRecorded
    /\ RecordedRunStarted
    /\ ConsumedNumberIsBuilt

\* A refused number stays behind the counter of the instance that refused it.
ConflictPassed ==
    \A i \in Instance, r \in Run : items[i][r].conflict < counter[i]

\* What a step does to the marks and the consumptions of the ledger.
MarkKept ==
    \A k \in Key : intents[k].marked =>
       /\ intents'[k].marked
       /\ intents'[k].run = intents[k].run
       /\ intents'[k].owner = intents[k].owner

ConsumptionKept ==
    \A k \in Key : intents[k].state = "CONSUMED" => intents'[k].state = "CONSUMED"

\* The ledger never moves a marked intent, and never takes a consumption back,
\* whatever late or repeated request it handles.
MarkIsFinal == [][MarkKept /\ ConsumptionKept]_vars

\* A result that Jenkins reported is never replaced.
ReportedResultIsFinal ==
    [][\A r \in Run : runs[r].result = "BUILD" => runs'[r] = runs[r]]_vars

\* A number that an instance refused (NUMBER_CONFLICT) is not granted to the same
\* item again: the claim loop makes progress.
RefusedNumberNotRegranted ==
    [][\A i \in Instance, r \in Run :
         /\ items[i][r].conflict > 0
         /\ items[i][r].phase = "QUEUED"
         /\ items'[i][r].phase = "APPLYING"
         => items'[i][r].number # items[i][r].conflict]_vars

-----------------------------------------------------------------------------
(* The claim protocol implements StartOnce: the start mark is the permit.  *)

Permits == [k \in Key |-> LET row == intents[k] IN
                            IF row.marked THEN <<row.run, row.owner>> ELSE <<NoRun, NoInstance>>]

Starts == {[intent |-> KeyOf[b.run], by |-> <<b.run, b.inst>>, number |-> b.number] : b \in builds}

Abstract == INSTANCE StartOnce WITH
    Intent <- Key, Runner <- Run \X Instance, Nobody <- <<NoRun, NoInstance>>,
    permit <- Permits, started <- Starts

\* With all its claims, retries, moves, restarts and late requests, the protocol
\* marks an intent once, for one run on one instance, and starts it once there.
StartsOnce == Abstract!Spec
=============================================================================
