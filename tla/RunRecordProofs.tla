--------------------------- MODULE RunRecordProofs ---------------------------
(***************************************************************************)
(* Proofs about what the recorder says of the runs and of the numbers of   *)
(* BuildClaims, for every set of instances, runs and keys and every bound: *)
(* a consumed intent is a recorded build under the number Jenkins gave it, *)
(* a recorded build started, a reported result stays, and a refused number *)
(* is not granted again.                                                   *)
(***************************************************************************)
EXTENDS BuildClaimsProofs

-----------------------------------------------------------------------------
(* What a step does to a run row.                                          *)

\* A row that still waits for its claim: a veto, a duplicate, a trigger or a sweep
\* writes it.
WaitingRowStep(r) ==
    /\ runs[r].status \in {"ABSENT", "QUEUED"}
    /\ \/ runs'[r] = TriggerFailed(runs[r])
       \/ /\ runs[r].status = "QUEUED"
          /\ noBuildRecorded(runs[r])
          /\ runs'[r] = [runs[r] EXCEPT !.status = "DUPLICATE"]
       \/ /\ runs'[r].status \in {"QUEUED", "DUPLICATE"}
          /\ runs'[r].result = "NULL"
          /\ runs'[r].accepted
       \/ /\ runs'[r].status = "COMPLETED"
          /\ runs'[r].result \in {"INTERRUPTED", "START_LOST"}
          /\ ~runs'[r].accepted

\* The row of a run with a build: its start or its completion is ingested.
BuiltRowStep(r) ==
    /\ \E b \in builds : b.run = r
    /\ \/ runs'[r] = startedRow(runs[r]) /\ Ingested(r)'
       \/ /\ runs'[r].status = IF runs[r].status = "DUPLICATE" /\ ~noBuildRecorded(runs[r])
                               THEN "DUPLICATE" ELSE "COMPLETED"
          /\ runs'[r].result = "BUILD"
          /\ ~runs'[r].accepted

\* The row that the duplicate backstop ends: it ran, or its start is the event, and
\* an older run of its revision runs.
BackstopRowStep(r) ==
    /\ runs'[r].status = "DUPLICATE" /\ runs'[r].result = "NULL" /\ ~runs'[r].accepted
    /\ \/ runs[r].status = "RUNNING"
       \/ /\ startedRow(runs[r]).status = "RUNNING"
          /\ Ingested(r)' /\ \E b \in builds : b.run = r
    /\ \E o \in Run : /\ RevisionOf[o] = RevisionOf[r] /\ Age[o] < Age[r]
                      /\ runs'[o].status = "RUNNING"

RowStep(r) ==
    runs'[r] = runs[r] \/ WaitingRowStep(r) \/ BuiltRowStep(r) \/ BackstopRowStep(r)

\* A veto or a duplicate mark writes a waiting row only.
LEMMA VetoRows ==
    ASSUME LedgerTypeOK, NEW r \in Run,
           markVetoedRun(r) \/ markDuplicateClaim(r) \/ UNCHANGED runs
    PROVE  \A s \in Run : RowStep(s)
<1>1. runs \in [Run -> RunRow] /\ runs[r] \in RunRow
  BY DEF LedgerTypeOK
<1>2. TriggerFailed(runs[r]) \in RunRow /\ [runs[r] EXCEPT !.status = "DUPLICATE"] \in RunRow
  BY <1>1 DEF TriggerFailed, RunRow
<1>3. CASE setRun(r, TriggerFailed(runs[r])) /\ runs[r].status \in {"ABSENT", "QUEUED"}
  BY <1>1, <1>2, <1>3, SetRun DEF RowStep, WaitingRowStep
<1>4. CASE /\ setRun(r, [runs[r] EXCEPT !.status = "DUPLICATE"])
           /\ runs[r].status = "QUEUED" /\ noBuildRecorded(runs[r])
  BY <1>1, <1>2, <1>4, SetRun DEF RowStep, WaitingRowStep
<1>5. CASE UNCHANGED runs
  BY <1>5 DEF RowStep
<1> QED
  BY <1>3, <1>4, <1>5 DEF markVetoedRun, markDuplicateClaim

\* A request that the recorder handles, in time or late, writes a waiting row only.
LEMMA ClaimRows ==
    ASSUME LedgerTypeOK, NEW q \in Request, NEW a, handleClaim(q, a)
    PROVE  \A s \in Run : RowStep(s)
<1>1. q.run \in Run
  BY RequestFields
<1>2. markVetoedRun(q.run) \/ markDuplicateClaim(q.run) \/ UNCHANGED runs
  BY DEF handleClaim, Claim, MarkStart, ClaimFenced, ClaimRetry, grantNewIntent, claimRow1,
         sameRunDuplicate, reanswerSameRun, transferIntent, claimDuplicate, markDuplicate,
         markFenced, markGranted, ledgerVars
<1> QED
  BY <1>1, <1>2, VetoRows

\* The ingest of a start writes the row of its run, and the backstop ends one row.
LEMMA StartedRows ==
    ASSUME StartProtocol, RunRowShape, NEW b \in builds, applyRunStarted(b)
    PROVE  /\ \A s \in Run : RowStep(s)
           /\ runs'[b.run] = startedRow(runs[b.run]) \/ BackstopRowStep(b.run)
<1> DEFINE base(s) == IF s = b.run THEN startedRow(runs[s]) ELSE runs[s]
           ended   == runDuplicateBackstop(b.run)
<1>1. /\ runs \in [Run -> RunRow] /\ intents \in [Key -> Intent]
      /\ b.run \in Run /\ KeyOf[b.run] \in Key
      /\ Age \in [Run -> Nat] /\ \A r, s \in Run : Age[r] = Age[s] => r = s
  BY LedgerAssumption
     DEF StartProtocol, TypeOK, LedgerTypeOK, ClaimQueueTypeOK, Build, LedgerAssumption
<1>2. \A s \in Run : runs'[s] = IF s \in ended THEN [base(s) EXCEPT !.status = "DUPLICATE"]
                                ELSE base(s)
  BY DEF applyRunStarted
<1>3. Ingested(b.run)'
  <2>1. intents[KeyOf[b.run]].run = b.run
    BY DEF applyRunStarted, hasIntent
  <2>2. \E n : intents'[KeyOf[b.run]] = consumed(intents[KeyOf[b.run]], n)
    BY <1>1 DEF applyRunStarted
  <2>3. intents[KeyOf[b.run]] \in Intent
    BY <1>1
  <2> QED
    BY <2>1, <2>2, <2>3 DEF Ingested, hasIntent, consumed, Intent
<1>4. ASSUME NEW o \in rivals(b.run)
      PROVE  /\ o \in Run /\ o # b.run /\ RevisionOf[o] = RevisionOf[b.run]
             /\ runs[o] = [status |-> "RUNNING", result |-> "NULL", accepted |-> FALSE]
  <2>1. /\ o \in Run /\ o # b.run /\ RevisionOf[o] = RevisionOf[b.run]
        /\ runs[o].status \in {"QUEUED", "RUNNING"} /\ recordsBuild(runs[o])
    BY DEF rivals
  <2>2. runs[o] \in RunRow
    BY <1>1, <2>1
  <2>3. runs[o].status = "RUNNING" /\ runs[o].result = "NULL" /\ runs[o].accepted = FALSE
    BY <2>1, <2>2 DEF RunRowShape, recordsBuild, noBuildRecorded, RunRow
  <2> QED
    BY <2>1, <2>2, <2>3 DEF RunRow
<1>5. startedRow(runs[b.run]).status \in {"QUEUED", "RUNNING"} =>
         startedRow(runs[b.run]) = [status |-> "RUNNING", result |-> "NULL", accepted |-> FALSE]
  <2>1. runs[b.run] \in RunRow
    BY <1>1
  <2>2. CASE runs[b.run].status = "RUNNING"
    <3>1. runs[b.run].result = "NULL" /\ runs[b.run].accepted = FALSE
      BY <1>1, <2>1, <2>2 DEF RunRowShape, RunRow
    <3> QED
      BY <2>1, <2>2, <3>1 DEF startedRow, noBuildRecorded, RunRow
  <2>3. CASE runs[b.run].status # "RUNNING"
    BY <1>1, <2>1, <2>3 DEF startedRow, RunRowShape, noBuildRecorded
  <2> QED
    BY <2>2, <2>3
<1>6. CASE ended = {}
  <2>1. \A s \in Run : runs'[s] = base(s)
    BY <1>2, <1>6
  <2> QED
    BY <1>1, <1>3, <2>1 DEF RowStep, BuiltRowStep
<1>7. CASE ended # {}
  <2>1. startedRow(runs[b.run]).status \in {"QUEUED", "RUNNING"}
    BY <1>7 DEF runDuplicateBackstop
  <2>2. ended = {newerOf(b.run, s) : s \in {o \in rivals(b.run) : \A t \in rivals(b.run) : Age[o] <= Age[t]}}
    BY <1>7 DEF runDuplicateBackstop
  <2>3. PICK o \in rivals(b.run) : /\ newerOf(b.run, o) \in ended
                                   /\ \A t \in rivals(b.run) : Age[o] <= Age[t]
    BY <1>7, <2>2
  <2>4. \A t \in rivals(b.run) : (\A u \in rivals(b.run) : Age[t] <= Age[u]) => t = o
    <3>1. SUFFICES ASSUME NEW t \in rivals(b.run), \A u \in rivals(b.run) : Age[t] <= Age[u]
                   PROVE  t = o
      OBVIOUS
    <3>2. Age[t] <= Age[o] /\ Age[o] <= Age[t] /\ t \in Run /\ o \in Run
      BY <1>4, <2>3, <3>1
    <3>3. Age[t] \in Nat /\ Age[o] \in Nat
      BY <1>1, <3>2
    <3> QED
      BY <1>1, <3>2, <3>3
  <2>5. ended = {newerOf(b.run, o)}
    BY <2>2, <2>3, <2>4
  <2> HIDE DEF ended
  <2>6. /\ o \in Run /\ o # b.run /\ RevisionOf[o] = RevisionOf[b.run]
        /\ base(o) = [status |-> "RUNNING", result |-> "NULL", accepted |-> FALSE]
        /\ base(b.run) = [status |-> "RUNNING", result |-> "NULL", accepted |-> FALSE]
        /\ runs[o].status = "RUNNING"
        /\ Age[o] \in Nat /\ Age[b.run] \in Nat /\ Age[o] # Age[b.run]
    BY <1>1, <1>4, <1>5, <2>1
  <2>7. \A s \in Run \ {b.run, o} : runs'[s] = runs[s]
    BY <1>2, <2>5 DEF newerOf
  <2> HIDE DEF base
  <2>c. ASSUME NEW row, row = [status |-> "RUNNING", result |-> "NULL", accepted |-> FALSE]
        PROVE  /\ [row EXCEPT !.status = "DUPLICATE"].status = "DUPLICATE"
               /\ [row EXCEPT !.status = "DUPLICATE"].result = "NULL"
               /\ ~[row EXCEPT !.status = "DUPLICATE"].accepted
    BY <2>c
  <2>d. startedRow(runs[b.run]).status = "RUNNING"
    BY <1>5, <2>1
  <2>8. CASE Age[b.run] > Age[o]
    <3>1. newerOf(b.run, o) = b.run
      BY <2>8 DEF newerOf
    <3>2. runs'[b.run] = [base(b.run) EXCEPT !.status = "DUPLICATE"] /\ runs'[o] = base(o)
      BY <1>1, <1>2, <2>5, <2>6, <3>1
    <3>a. /\ runs'[b.run].status = "DUPLICATE" /\ runs'[b.run].result = "NULL"
          /\ ~runs'[b.run].accepted
          /\ runs'[o].status = "RUNNING"
      BY <2>6, <2>c, <3>2
    <3>b. RevisionOf[o] = RevisionOf[b.run] /\ Age[o] < Age[b.run] /\ o \in Run
      BY <2>6, <2>8
    <3>3. BackstopRowStep(b.run)
      BY <1>3, <2>d, <3>a, <3>b, Zenon DEF BackstopRowStep
    <3>4. RowStep(o)
      BY <2>6, <3>2 DEF RowStep, base
    <3> QED
      BY <2>7, <3>3, <3>4 DEF RowStep
  <2>9. CASE Age[b.run] < Age[o]
    <3>1. newerOf(b.run, o) = o
      BY <2>6, <2>9 DEF newerOf
    <3>2. runs'[o] = [base(o) EXCEPT !.status = "DUPLICATE"] /\ runs'[b.run] = base(b.run)
      BY <1>1, <1>2, <2>5, <2>6, <3>1
    <3>a. /\ runs'[o].status = "DUPLICATE" /\ runs'[o].result = "NULL"
          /\ ~runs'[o].accepted
          /\ runs'[b.run].status = "RUNNING"
      BY <2>6, <2>c, <3>2
    <3>b. RevisionOf[b.run] = RevisionOf[o] /\ b.run \in Run
      BY <1>1, <2>6
    <3>3. BackstopRowStep(o)
      BY <2>6, <2>9, <3>a, <3>b, Zenon DEF BackstopRowStep
    <3>4. runs'[b.run] = startedRow(runs[b.run])
      BY <3>2 DEF base
    <3>5. BuiltRowStep(b.run)
      BY <1>3, <3>4 DEF BuiltRowStep
    <3> QED
      BY <2>7, <3>3, <3>4, <3>5 DEF RowStep
  <2> QED
    BY <2>6, <2>8, <2>9
<1> QED
  BY <1>6, <1>7

\* The ingest and the sweeps.  The owner that the intent names is the instance of
\* the build (StartMarkProof), so that every completion writes the terminal state.
LEMMA RecorderRows ==
    ASSUME StartProtocol, RunRowShape, RecorderStep
    PROVE  \A s \in Run : RowStep(s)
<1>1. /\ runs \in [Run -> RunRow] /\ intents \in [Key -> Intent]
      /\ builds \subseteq Build /\ VarroaRun \subseteq Run
  BY LedgerAssumption
     DEF StartProtocol, TypeOK, LedgerTypeOK, ClaimQueueTypeOK, LedgerAssumption
<1>2. ASSUME NEW r \in Run, NEW row \in RunRow, setRun(r, row), RowStep(r)
      PROVE  \A s \in Run : RowStep(s)
  BY <1>1, <1>2, SetRun DEF RowStep
<1>3. ASSUME NEW r \in Run, NEW row \in RunRow, setRun(r, row)
      PROVE  runs'[r] = row
  BY <1>1, <1>3, SetRun
<1>4. ASSUME NEW b \in builds, applyRunStarted(b) PROVE \A s \in Run : RowStep(s)
  BY <1>4, StartedRows
<1>5. ASSUME NEW b \in builds, applyRunCompleted(b) PROVE \A s \in Run : RowStep(s)
  <2> DEFINE new == [status   |-> IF runs[b.run].status = "DUPLICATE" /\ ~noBuildRecorded(runs[b.run])
                                  THEN "DUPLICATE" ELSE "COMPLETED",
                     result   |-> "BUILD", accepted |-> FALSE]
  <2>1. b.run \in Run /\ intents[KeyOf[b.run]].owner = b.inst
    BY <1>1 DEF StartProtocol, StartMarkProof, MarkedFor, Build
  <2>2. setRun(b.run, new)
    BY <1>5, <2>1 DEF applyRunCompleted
  <2>3. new \in RunRow
    BY DEF RunRow
  <2>4. runs'[b.run] = new
    BY <1>3, <2>1, <2>2, <2>3
  <2>5. BuiltRowStep(b.run)
    BY <2>4 DEF BuiltRowStep
  <2> QED
    BY <1>2, <2>1, <2>2, <2>3, <2>5 DEF RowStep
<1>6. ASSUME NEW r \in VarroaRun, applyTriggerAccepted(r) PROVE \A s \in Run : RowStep(s)
  <2> DEFINE status == IF intents[KeyOf[r]].run \in Run \ {r} THEN "DUPLICATE" ELSE "QUEUED"
             row    == [status |-> status, result |-> "NULL", accepted |-> TRUE]
  <2>1. setRun(r, row) /\ runs[r].status = "ABSENT"
    BY <1>6 DEF applyTriggerAccepted
  <2>2. status \in {"QUEUED", "DUPLICATE"}
    OBVIOUS
  <2> HIDE DEF status
  <2>3. row \in RunRow
    BY <2>2 DEF RunRow
  <2>4. r \in Run /\ runs'[r] = row
    BY <1>1, <1>3, <2>1, <2>3
  <2>5. WaitingRowStep(r)
    BY <2>1, <2>2, <2>4 DEF WaitingRowStep
  <2> QED
    BY <1>2, <2>1, <2>3, <2>4, <2>5 DEF RowStep
<1>7. ASSUME NEW r \in Run, setRun(r, TriggerFailed(runs[r])),
             runs[r].status \in {"ABSENT", "QUEUED"}
      PROVE  \A s \in Run : RowStep(s)
  <2>1. TriggerFailed(runs[r]) \in RunRow
    BY <1>1 DEF TriggerFailed, RunRow
  <2> QED
    BY <1>2, <1>3, <1>7, <2>1 DEF RowStep, WaitingRowStep
<1>8. ASSUME NEW r \in Run, applyTriggerFailed(r) \/ claimExpired(r) \/ claimAbandoned(r)
      PROVE  \A s \in Run : RowStep(s)
  BY <1>7, <1>8 DEF applyTriggerFailed, claimExpired, claimAbandoned
<1>9. ASSUME NEW k \in Key, EndMarkedLostIntent(k) PROVE \A s \in Run : RowStep(s)
  <2>1. runs[intents[k].run].status \in {"ABSENT", "QUEUED"}
    BY <1>9 DEF EndMarkedLostIntent
  <2>a. PICK result \in {"INTERRUPTED", "START_LOST"} :
           setRun(intents[k].run, [status |-> "COMPLETED", result |-> result, accepted |-> FALSE])
    BY <1>9 DEF EndMarkedLostIntent
  <2> DEFINE row == [status |-> "COMPLETED", result |-> result, accepted |-> FALSE]
  <2>2. /\ row \in RunRow /\ setRun(intents[k].run, row)
        /\ row.status = "COMPLETED"
        /\ row.result \in {"INTERRUPTED", "START_LOST"}
        /\ ~row.accepted
    BY <2>a DEF RunRow
  <2> HIDE DEF row
  <2>3. CASE intents[k].run \in Run
    <3>1. runs'[intents[k].run] = row
      BY <1>3, <2>2, <2>3
    <3> QED
      BY <1>2, <2>1, <2>2, <2>3, <3>1 DEF RowStep, WaitingRowStep
  <2>4. CASE intents[k].run \notin Run
    BY <1>1, <2>2, <2>4 DEF setRun, RowStep
  <2> QED
    BY <2>3, <2>4
<1>10. ASSUME UNCHANGED runs PROVE \A s \in Run : RowStep(s)
  BY <1>10 DEF RowStep
<1>11. ASSUME NEW k \in Key, GrantAges(k) PROVE \A s \in Run : RowStep(s)
  BY <1>10, <1>11 DEF GrantAges
<1>12. ASSUME NEW i \in Instance, confirmGone(i) PROVE \A s \in Run : RowStep(s)
  BY <1>10, <1>12 DEF confirmGone
<1>13. ASSUME seedReported PROVE \A s \in Run : RowStep(s)
  BY <1>10, <1>13 DEF seedReported
<1>14. ASSUME NEW i \in Instance, NEW g \in 1..MaxGeneration, announce(i, g) \/ takeOver(i, g)
       PROVE  \A s \in Run : RowStep(s)
  BY <1>10, <1>14 DEF announce, takeOver
<1> QED
  BY <1>1, <1>4, <1>5, <1>6, <1>8, <1>9, <1>11, <1>12, <1>13, <1>14 DEF RecorderStep

\* Every step leaves a row, writes a waiting one, or ingests an event of its build.
LEMMA StepRows ==
    ASSUME StartProtocol, RunRowShape, [Next]_vars
    PROVE  \A s \in Run : RowStep(s)
<1>1. TypeOK /\ LedgerTypeOK
  BY DEF StartProtocol, TypeOK
<1>2. ASSUME NEW i \in Instance, NEW r \in Run, ClaimStep(i, r) \/ MarkStep(i, r)
      PROVE  \A s \in Run : RowStep(s)
  <2>1. \E q \in Request, a \in Decisions : handleClaim(q, a)
    <3>1. /\ claimBody(i, r, placement.gen) \in Request
          /\ claimBody(i, r, placement.gen).kind = "claim"
          /\ startMarkBody(i, r, placement.gen) \in Request
          /\ startMarkBody(i, r, placement.gen).kind = "mark"
      BY <1>1, PostsAreRequests DEF claimBody, startMarkBody
    <3> QED
      BY <1>2, <3>1 DEF ClaimStep, MarkStep, handleClaim
  <2> QED
    BY <1>1, <2>1, ClaimRows
<1>3. ASSUME NEW q \in late, HandleLate(q) PROVE \A s \in Run : RowStep(s)
  BY <1>1, <1>3, ClaimRows DEF HandleLate, TypeOK, ClaimQueueTypeOK
<1>4. CASE Rehydrate \/ PluginStep \/ UNCHANGED vars
  BY <1>4 DEF Rehydrate, PluginStep, vars, ledgerVars, RowStep
<1> QED
  BY <1>2, <1>3, <1>4, RecorderRows DEF Next

-----------------------------------------------------------------------------
(* What a step does to a consumed intent.                                  *)

\* The start of a build of the intent's run is ingested.
ConsumedBy(k, b) ==
    /\ intents'[k].run = b.run
    /\ intents'[k].number \in {0, b.number}
    /\ runs'[b.run] = startedRow(runs[b.run]) \/ BackstopRowStep(b.run)

\* A step leaves an intent that is consumed after it, or consumes it for a build.
ConsumptionStep ==
    \A k \in Key : intents'[k].state = "CONSUMED" =>
       intents'[k] = intents[k] \/ \E b \in builds : ConsumedBy(k, b)

\* One changed row that is not consumed.
LEMMA OtherChanged ==
    ASSUME intents \in [Key -> Intent], NEW k \in Key, NEW row \in Intent, setIntent(k, row),
           row.state # "CONSUMED"
    PROVE  ConsumptionStep
BY SetIntent DEF ConsumptionStep

\* No request touches a consumed intent: its run is a duplicate to every claim, and
\* a repeated mark writes nothing.
LEMMA ClaimConsumption ==
    ASSUME LedgerTypeOK, IntentShape, NEW q \in Request, NEW a, handleClaim(q, a)
    PROVE  ConsumptionStep
<1> DEFINE k   == KeyOf[q.run]
           row == intents[k]
<1>1. /\ q.run \in Run /\ k \in Key /\ q.inst \in Instance /\ q.gen \in Nat
      /\ reserved(q) \in Nat
      /\ row \in Intent /\ intents \in [Key -> Intent]
  BY RequestFields DEF LedgerTypeOK
<1>2. ASSUME UNCHANGED intents PROVE ConsumptionStep
  BY <1>2 DEF ConsumptionStep
<1>3. CASE grantNewIntent(q, a)
  <2> DEFINE new == [state |-> "GRANTED", run |-> q.run, owner |-> q.inst, gen |-> q.gen,
                     number |-> reserved(q), marked |-> FALSE, old |-> FALSE]
  <2>1. new \in Intent /\ new.state = "GRANTED"
    BY <1>1 DEF Intent
  <2>2. setIntent(k, new)
    BY <1>3 DEF grantNewIntent
  <2> HIDE DEF new
  <2> QED
    BY <1>1, <2>1, <2>2, OtherChanged
<1>4. CASE reanswerSameRun(q, a)
  <2> DEFINE fresh == [movedTo(row, q) EXCEPT !.number = reserved(q)]
  <2>1. row.state # "CONSUMED"
    BY <1>4 DEF reanswerSameRun, intentStarted
  <2>2. \A new \in {movedTo(row, q), fresh} : new \in Intent /\ new.state = row.state
    BY <1>1 DEF movedTo, Intent
  <2>3. setIntent(k, movedTo(row, q)) \/ setIntent(k, fresh)
    BY <1>4 DEF reanswerSameRun
  <2> HIDE DEF fresh
  <2> QED
    BY <1>1, <2>1, <2>2, <2>3, OtherChanged
<1>5. CASE transferIntent(q, a)
  <2> DEFINE new == [row EXCEPT !.run = q.run, !.owner = q.inst, !.gen = q.gen,
                                !.number = reserved(q), !.marked = FALSE, !.old = FALSE]
  <2>1. row.state = "GRANTED"
    BY <1>5 DEF transferIntent, transferable
  <2>2. new \in Intent /\ new.state = "GRANTED"
    BY <1>1, <2>1 DEF Intent
  <2>3. setIntent(k, new)
    BY <1>5 DEF transferIntent
  <2> HIDE DEF new
  <2> QED
    BY <1>1, <2>2, <2>3, OtherChanged
<1>6. CASE markGranted(q, a)
  <2> DEFINE new == [row EXCEPT !.marked = TRUE, !.old = FALSE]
  <2>1. new \in Intent /\ new.state = row.state
    BY <1>1 DEF Intent
  <2>2. (row.state # "CONSUMED" /\ setIntent(k, new)) \/ UNCHANGED intents
    BY <1>6 DEF markGranted
  <2> HIDE DEF new
  <2> QED
    BY <1>1, <1>2, <2>1, <2>2, OtherChanged
<1>7. CASE \/ ClaimFenced(q, a) \/ ClaimRetry(q, a) \/ claimRow1(q, a)
           \/ sameRunDuplicate(q, a) \/ claimDuplicate(q, a)
           \/ markDuplicate(q, a) \/ markFenced(q, a)
  BY <1>2, <1>7
     DEF ClaimFenced, ClaimRetry, claimRow1, sameRunDuplicate, claimDuplicate,
         markDuplicate, markFenced, ledgerVars
<1> QED
  BY <1>3, <1>4, <1>5, <1>6, <1>7 DEF handleClaim, Claim, MarkStart

\* The number of another key's unstarted grant may be taken; a consumed intent
\* keeps its own (applyRunStarted).
LEMMA StartedConsumption ==
    ASSUME StartProtocol, RunRowShape, NEW b \in builds, applyRunStarted(b)
    PROVE  ConsumptionStep
<1> DEFINE key      == KeyOf[b.run]
           conflict == \E h \in numberHolders(b) : ~takeable(h)
           taken    == IF conflict THEN {} ELSE numberHolders(b)
           number   == IF conflict THEN 0 ELSE b.number
<1>1. /\ key \in Key /\ b.run \in Run /\ b.number \in Nat
      /\ intents \in [Key -> Intent] /\ runs \in [Run -> RunRow]
  BY LedgerAssumption
     DEF StartProtocol, TypeOK, LedgerTypeOK, ClaimQueueTypeOK, Build, LedgerAssumption
<1>2. \A h \in taken : intents[h].state = "GRANTED"
  BY DEF takeable
<1>3. /\ intents' = [h \in Key |-> IF h = key THEN consumed(intents[key], number)
                                   ELSE IF h \in taken THEN [intents[h] EXCEPT !.number = 0]
                                   ELSE intents[h]]
      /\ intents[key].run = b.run
  BY DEF applyRunStarted, hasIntent
<1>4. number \in {0, b.number}
  OBVIOUS
<1> HIDE DEF taken, number
<1>5. /\ intents'[key].run = b.run /\ intents'[key].number = number
      /\ \A h \in Key \ {key} : /\ intents'[h].state = intents[h].state
                                /\ h \notin taken => intents'[h] = intents[h]
  BY <1>1, <1>3 DEF consumed, Intent
<1>6. runs'[b.run] = startedRow(runs[b.run]) \/ BackstopRowStep(b.run)
  BY StartedRows
<1>7. ConsumedBy(key, b)
  BY <1>4, <1>5, <1>6 DEF ConsumedBy
<1>8. \A h \in Key \ {key} : intents'[h].state = "CONSUMED" => intents'[h] = intents[h]
  BY <1>2, <1>5
<1> HIDE DEF key
<1> QED
  BY <1>7, <1>8 DEF ConsumptionStep

\* Every step.
LEMMA StepConsumption ==
    ASSUME StartProtocol, RunRowShape, [Next]_vars
    PROVE  ConsumptionStep
<1>1. TypeOK /\ LedgerTypeOK /\ IntentShape /\ intents \in [Key -> Intent]
  BY DEF StartProtocol, TypeOK, LedgerTypeOK
<1>2. ASSUME UNCHANGED intents PROVE ConsumptionStep
  BY <1>2 DEF ConsumptionStep
<1>3. ASSUME NEW i \in Instance, NEW r \in Run, ClaimStep(i, r) \/ MarkStep(i, r)
      PROVE  ConsumptionStep
  <2>1. \E q \in Request, a \in Decisions : handleClaim(q, a)
    <3>1. /\ claimBody(i, r, placement.gen) \in Request
          /\ claimBody(i, r, placement.gen).kind = "claim"
          /\ startMarkBody(i, r, placement.gen) \in Request
          /\ startMarkBody(i, r, placement.gen).kind = "mark"
      BY <1>1, PostsAreRequests DEF claimBody, startMarkBody
    <3> QED
      BY <1>3, <3>1 DEF ClaimStep, MarkStep, handleClaim
  <2> QED
    BY <1>1, <2>1, ClaimConsumption
<1>4. ASSUME NEW q \in late, HandleLate(q) PROVE ConsumptionStep
  BY <1>1, <1>4, ClaimConsumption DEF HandleLate, TypeOK, ClaimQueueTypeOK
<1>5. CASE Rehydrate \/ PluginStep \/ UNCHANGED vars
  BY <1>2, <1>5 DEF Rehydrate, PluginStep, vars, ledgerVars
<1>6. CASE RecorderStep
  <2>1. ASSUME NEW b \in builds, applyRunStarted(b) PROVE ConsumptionStep
    BY <1>1, <2>1, StartedConsumption
  <2>2. ASSUME NEW k \in Key, GrantAges(k) PROVE ConsumptionStep
    <3>1. /\ [intents[k] EXCEPT !.old = TRUE] \in Intent
          /\ [intents[k] EXCEPT !.old = TRUE].state = intents[k].state
      BY <1>1 DEF Intent
    <3>2. intents[k].state = "GRANTED" /\ setIntent(k, [intents[k] EXCEPT !.old = TRUE])
      BY <2>2 DEF GrantAges
    <3> QED
      BY <1>1, <3>1, <3>2, OtherChanged
  <2> QED
    BY <1>2, <1>6, <2>1, <2>2
       DEF RecorderStep, applyRunCompleted, applyTriggerAccepted, applyTriggerFailed, claimExpired,
           claimAbandoned, EndMarkedLostIntent, confirmGone, seedReported, announce, takeOver
<1> QED
  BY <1>3, <1>4, <1>5, <1>6 DEF Next

\* A build that started stays one (Start is the only step that adds one).
LEMMA BuildsGrow ==
    ASSUME [Next]_vars
    PROVE  builds \subseteq builds'
<1>1. ASSUME NEW i \in Instance, NEW r \in Run, ClaimStep(i, r) \/ MarkStep(i, r)
      PROVE  UNCHANGED builds
  BY <1>1 DEF ClaimStep, MarkStep, claimOnce, markStart
<1>2. ASSUME NEW q \in late, HandleLate(q) PROVE UNCHANGED builds
  BY <1>2 DEF HandleLate
<1>3. CASE PluginStep
  BY <1>3 DEF PluginStep, Schedule, applyGrant, postTimesOut, cancel, Start, expire, Restart
<1>4. CASE Rehydrate \/ RecorderStep \/ UNCHANGED vars
  BY <1>4 DEF Rehydrate, applySeed, RecorderStep, vars, queueVars
<1> QED
  BY <1>1, <1>2, <1>3, <1>4 DEF Next

-----------------------------------------------------------------------------
(* What the rows say of the builds.                                        *)

\* A row that reads as a build that started.
Recorded(row) == recordsBuild(row) /\ row.status \in {"RUNNING", "COMPLETED", "DUPLICATE"}

\* Every step keeps the inductive invariant.
LEMMA StepRecord ==
    ASSUME RunRecord, [Next]_vars
    PROVE  RunRecord'
<1>1. /\ StartProtocol /\ StartProtocol' /\ MarkKept /\ ConsumptionKept
      /\ ConsumptionStep /\ builds \subseteq builds'
      /\ \A r \in Run : RowStep(r)
  BY StepProtocol, StepConsumption, BuildsGrow, StepRows DEF RunRecord
<1>2. /\ \A r \in Run : /\ runs[r] \in RunRow /\ runs'[r] \in RunRow
                         /\ KeyOf[r] \in Key /\ Age[r] \in Nat
      /\ \A k \in Key : intents[k] \in Intent /\ intents'[k] \in Intent
      /\ \A b \in builds : b.run \in Run
      /\ NoRun \notin Run
  BY <1>1, LedgerAssumption
     DEF StartProtocol, TypeOK, LedgerTypeOK, ClaimQueueTypeOK, Build, LedgerAssumption
<1>3. ASSUME NEW r \in Run, Ingested(r) PROVE Ingested(r)'
  <2>1. intents[KeyOf[r]].marked
    BY <1>1, <1>2, <1>3 DEF StartProtocol, IntentShape, Ingested
  <2> QED
    BY <1>1, <1>2, <1>3, <2>1 DEF MarkKept, ConsumptionKept, Ingested, hasIntent
<1>4. ASSUME NEW r \in Run
      PROVE  /\ (/\ runs[r].status = "ABSENT" => runs[r] = AbsentRow
                 /\ runs[r].status = "QUEUED" => runs[r].accepted
                 /\ runs[r].status \in {"QUEUED", "RUNNING"} => runs[r].result = "NULL"
                 /\ runs[r].status = "RUNNING" => ~runs[r].accepted
                 /\ runs[r].status = "DUPLICATE" => runs[r].result \in {"NULL", "BUILD"}
                 /\ runs[r].result = "BUILD" => ~runs[r].accepted
                 /\ runs[r].status \in {"RUNNING", "DUPLICATE"} /\ ~runs[r].accepted =>
                       Ingested(r)
                 /\ runs[r].status = "COMPLETED" /\ runs[r].accepted =>
                       runs[r].result = "TRIGGER_FAILED")'
             /\ Recorded(runs[r]) => Recorded(runs'[r])
             /\ Recorded(startedRow(runs[r]))
             /\ Recorded(runs[r]) /\ runs[r].status # "DUPLICATE" =>
                   runs'[r].status # "DUPLICATE" \/ BackstopRowStep(r)
             /\ \/ runs'[r] = runs[r]
                \/ runs[r].status = "RUNNING"
                \/ ~recordsBuild(runs'[r])
                \/ runs'[r].result \in {"INTERRUPTED", "START_LOST"}
                \/ \E b \in builds : b.run = r
  <2>1. /\ runs[r].status = "ABSENT" => runs[r] = AbsentRow
        /\ runs[r].status = "QUEUED" => runs[r].accepted
        /\ runs[r].status \in {"QUEUED", "RUNNING"} => runs[r].result = "NULL"
        /\ runs[r].status = "RUNNING" => ~runs[r].accepted
        /\ runs[r].status = "DUPLICATE" => runs[r].result \in {"NULL", "BUILD"}
        /\ runs[r].result = "BUILD" => ~runs[r].accepted
        /\ runs[r].status \in {"RUNNING", "DUPLICATE"} /\ ~runs[r].accepted => Ingested(r)'
        /\ runs[r].status = "COMPLETED" /\ runs[r].accepted => runs[r].result = "TRIGGER_FAILED"
    BY <1>3 DEF RunRecord, RunRowShape
  <2>2. runs[r] \in RunRow /\ runs'[r] \in RunRow
    BY <1>2
  <2>3. Recorded(startedRow(runs[r]))
    BY <2>1, <2>2 DEF startedRow, Recorded, recordsBuild, noBuildRecorded, RunRow, AbsentRow
  <2>4. CASE runs'[r] = runs[r]
    BY <2>1, <2>2, <2>3, <2>4
  <2>5. CASE WaitingRowStep(r)
    <3>1. \/ runs'[r].status = "COMPLETED" /\ runs'[r].result = "TRIGGER_FAILED"
          \/ runs'[r].status \in {"QUEUED", "DUPLICATE"} /\ runs'[r].result = "NULL" /\ runs'[r].accepted
          \/ /\ runs'[r].status = "COMPLETED" /\ ~runs'[r].accepted
             /\ runs'[r].result \in {"INTERRUPTED", "START_LOST"}
      BY <2>1, <2>2, <2>5 DEF WaitingRowStep, TriggerFailed, RunRow
    <3>2. ~Recorded(runs[r])
      BY <2>5 DEF WaitingRowStep, Recorded
    <3> QED
      BY <2>3, <3>1, <3>2 DEF recordsBuild, noBuildRecorded
  <2>6. CASE BuiltRowStep(r)
    BY <2>1, <2>2, <2>3, <2>6
       DEF BuiltRowStep, Recorded, recordsBuild, noBuildRecorded, startedRow, RunRow, AbsentRow
  <2>7. CASE BackstopRowStep(r)
    BY <2>1, <2>2, <2>3, <2>7 DEF BackstopRowStep, Recorded, recordsBuild, noBuildRecorded
  <2> QED
    BY <1>1, <2>4, <2>5, <2>6, <2>7 DEF RowStep
<1>5. RunRowShape'
  BY <1>4 DEF RunRowShape
<1>6. RecordedRunStarted'
  <2> SUFFICES ASSUME NEW r \in Run, recordsBuild(runs'[r]),
                      runs'[r].result \notin {"INTERRUPTED", "START_LOST"}
               PROVE  \E b \in builds' : b.run = r
    BY DEF RecordedRunStarted, recordsBuild, noBuildRecorded
  <2>1. runs[r].status = "RUNNING" => recordsBuild(runs[r]) /\ runs[r].result = "NULL"
    BY DEF RunRecord, RunRowShape, recordsBuild, noBuildRecorded
  <2>2. \E b \in builds : b.run = r
    BY <1>4, <2>1 DEF RunRecord, RecordedRunStarted
  <2> QED
    BY <1>1, <2>2
<1>7. ASSUME NEW k \in Key, intents'[k].state = "CONSUMED", intents'[k] # intents[k]
      PROVE  \E b \in builds : ConsumedBy(k, b)
  BY <1>1, <1>7 DEF ConsumptionStep
<1>8. ConsumedNumberIsBuilt'
  BY <1>1, <1>7 DEF RunRecord, ConsumedNumberIsBuilt, ConsumedBy
<1>9. \A r \in Run : Ingested(r) => Recorded(runs[r])
  BY DEF RunRecord, ConsumedRunRecorded, Recorded
<1>10. ASSUME NEW r \in Run, BackstopRowStep(r) PROVE (\E o \in Run : KeepsRevision(o, r))'
  <2>1. PICK o \in Run : /\ RevisionOf[o] = RevisionOf[r] /\ Age[o] < Age[r]
                         /\ runs'[o].status = "RUNNING"
    BY <1>10 DEF BackstopRowStep
  <2>2. Ingested(o)'
    BY <1>5, <2>1 DEF RunRowShape
  <2> QED
    BY <2>1, <2>2 DEF KeepsRevision
<1>11. ASSUME NEW r \in Run, NEW o \in Run, KeepsRevision(o, r)
       PROVE  (\E w \in Run : KeepsRevision(w, r))'
  <2>1. Ingested(o)' /\ RevisionOf[o] = RevisionOf[r] /\ Age[o] < Age[r]
    BY <1>3, <1>11 DEF KeepsRevision
  <2>2. CASE runs'[o].status # "DUPLICATE"
    BY <2>1, <2>2 DEF KeepsRevision
  <2>3. CASE runs'[o].status = "DUPLICATE"
    <3>1. BackstopRowStep(o)
      BY <1>4, <1>9, <1>11, <2>3 DEF KeepsRevision
    <3>2. PICK w \in Run : KeepsRevision(w, o)'
      BY <1>10, <3>1
    <3>3. RevisionOf[w] = RevisionOf[r] /\ Age[w] < Age[r]
      BY <1>2, <2>1, <3>2 DEF KeepsRevision
    <3> QED
      BY <3>2, <3>3 DEF KeepsRevision
  <2> QED
    BY <2>2, <2>3
<1>12. ConsumedRunRecorded'
  <2> SUFFICES ASSUME NEW r \in Run, Ingested(r)'
               PROVE  /\ Recorded(runs'[r])
                      /\ runs'[r].status = "DUPLICATE" => (\E o \in Run : KeepsRevision(o, r))'
    BY DEF ConsumedRunRecorded, Recorded, recordsBuild, noBuildRecorded
  <2>1. CASE Ingested(r)
    <3>1. Recorded(runs'[r])
      BY <1>4, <1>9, <2>1
    <3>2. ASSUME runs'[r].status = "DUPLICATE", runs[r].status = "DUPLICATE"
          PROVE  (\E o \in Run : KeepsRevision(o, r))'
      <4>1. PICK o \in Run : KeepsRevision(o, r)
        BY <2>1, <3>2 DEF RunRecord, ConsumedRunRecorded
      <4> QED
        BY <1>11, <4>1
    <3>3. ASSUME runs'[r].status = "DUPLICATE", runs[r].status # "DUPLICATE"
          PROVE  (\E o \in Run : KeepsRevision(o, r))'
      BY <1>4, <1>9, <1>10, <2>1, <3>3
    <3> QED
      BY <3>1, <3>2, <3>3
  <2>2. CASE ~Ingested(r)
    <3>1. intents'[KeyOf[r]].run = r /\ intents'[KeyOf[r]].state = "CONSUMED"
      BY DEF Ingested, hasIntent
    <3>2. intents'[KeyOf[r]] # intents[KeyOf[r]]
      BY <2>2, <3>1 DEF Ingested, hasIntent
    <3>3. PICK b \in builds : ConsumedBy(KeyOf[r], b)
      BY <1>2, <1>7, <3>1, <3>2
    <3>4. runs'[r] = startedRow(runs[r]) \/ BackstopRowStep(r)
      BY <3>1, <3>3 DEF ConsumedBy
    <3>5. CASE runs'[r] = startedRow(runs[r])
      <4>1. Recorded(runs'[r])
        BY <1>4, <3>5
      <4>2. runs[r].status = "DUPLICATE" => runs[r].accepted
        BY <2>2 DEF RunRecord, RunRowShape
      <4>3. runs'[r].status # "DUPLICATE"
        BY <1>2, <3>5, <4>2 DEF startedRow, noBuildRecorded
      <4> QED
        BY <4>1, <4>3
    <3>6. CASE BackstopRowStep(r)
      BY <1>10, <3>6 DEF BackstopRowStep, Recorded, recordsBuild, noBuildRecorded
    <3> QED
      BY <3>4, <3>5, <3>6
  <2> QED
    BY <2>1, <2>2
<1> QED
  BY <1>1, <1>5, <1>6, <1>8, <1>12 DEF RunRecord

\* The inductive invariant holds initially: no row, no intent, no build.
LEMMA InitRecord == Init => RunRecord
<1> SUFFICES ASSUME Init PROVE RunRecord
  OBVIOUS
<1>1. /\ \A r \in Run : runs[r] = AbsentRow
      /\ \A k \in Key : intents[k] = NoIntent
  BY DEF Init, LedgerInit
<1>2. RunRowShape /\ RecordedRunStarted
  BY <1>1 DEF RunRowShape, RecordedRunStarted, AbsentRow, recordsBuild
<1>3. ConsumedRunRecorded /\ ConsumedNumberIsBuilt
  BY <1>1, LedgerAssumption
     DEF ConsumedRunRecorded, ConsumedNumberIsBuilt, NoIntent, Ingested, LedgerAssumption
<1> QED
  BY <1>2, <1>3, InitProtocol DEF RunRecord

\* The invariant of the run rows holds at every moment.
LEMMA RecordHolds == Spec => []RunRecord
<1>1. RunRecord /\ [Next]_vars => RunRecord'
  BY StepRecord
<1> QED
  BY <1>1, InitRecord, PTL DEF Spec

\* Once the start of a run is ingested, its row reads as a build: no accepted
\* trigger, veto, sweep or duplicate claim that comes late hides it again, and the
\* duplicate backstop leaves the oldest started run of a revision alone.
THEOREM ConsumedRunsRecorded == Spec => []ConsumedRunRecorded
<1>1. RunRecord => ConsumedRunRecorded
  BY DEF RunRecord
<1> QED
  BY <1>1, RecordHolds, PTL

\* The recorder reports a build only for a run that Jenkins started, but for the
\* synthetic end of a marked start (EndMarkedLostIntents).
THEOREM RecordedRunsStarted == Spec => []RecordedRunStarted
<1>1. RunRecord => RecordedRunStarted
  BY DEF RunRecord
<1> QED
  BY <1>1, RecordHolds, PTL

\* A consumed intent keeps the number that Jenkins gave a build of its run, or none:
\* no other start takes it, no claim or mark replaces it.
THEOREM ConsumedNumbersBuilt == Spec => []ConsumedNumberIsBuilt
<1>1. RunRecord => ConsumedNumberIsBuilt
  BY DEF RunRecord
<1> QED
  BY <1>1, RecordHolds, PTL

\* No event, repeated or late, no veto and no sweep replaces a result that Jenkins
\* reported.
THEOREM ReportedResultsFinal == Spec => ReportedResultIsFinal
<1>1. RunRecord /\ [Next]_vars => \A r \in Run : runs[r].result = "BUILD" => runs'[r] = runs[r]
  <2> SUFFICES ASSUME RunRecord, [Next]_vars, NEW r \in Run, runs[r].result = "BUILD"
               PROVE  runs'[r] = runs[r]
    OBVIOUS
  <2>1. StartProtocol /\ StartProtocol' /\ RowStep(r)
    BY StepRows, StepProtocol DEF RunRecord
  <2>2. runs[r] \in RunRow /\ runs'[r] \in RunRow
    BY <2>1 DEF StartProtocol, TypeOK, LedgerTypeOK
  <2>3. runs[r].status \in {"COMPLETED", "DUPLICATE"} /\ ~runs[r].accepted
    BY <2>2 DEF RunRecord, RunRowShape, RunRow, AbsentRow
  <2>4. CASE BuiltRowStep(r)
    <3>1. \/ runs'[r] = startedRow(runs[r])
          \/ /\ runs'[r].status = runs[r].status /\ runs'[r].result = "BUILD"
             /\ runs'[r].accepted = FALSE
      BY <2>2, <2>3, <2>4 DEF BuiltRowStep, RunRow, noBuildRecorded
    <3>2. startedRow(runs[r]) = runs[r]
      BY <2>3 DEF startedRow, noBuildRecorded
    <3> QED
      BY <2>2, <2>3, <3>1, <3>2 DEF RunRow
  <2>5. ~BackstopRowStep(r)
    BY <2>3 DEF BackstopRowStep, startedRow, noBuildRecorded
  <2> QED
    BY <2>1, <2>3, <2>4, <2>5 DEF RowStep, WaitingRowStep
<1> QED
  BY <1>1, RecordHolds, PTL DEF Spec, ReportedResultIsFinal

-----------------------------------------------------------------------------
(* The claim loop of an item whose number was refused.                     *)

\* A step that changes items without refusing a number, and lowers no counter.
LEMMA PassedKept ==
    ASSUME TypeOK, TypeOK', ConflictPassed,
           \A i \in Instance : counter[i] <= counter'[i],
           \A i \in Instance, r \in Run : items'[i][r].conflict \in {0, items[i][r].conflict}
    PROVE  ConflictPassed'
<1>1. \A i \in Instance : /\ counter[i] \in Nat \ {0} /\ counter'[i] \in Nat \ {0}
                          /\ \A r \in Run : items[i][r].conflict \in Nat
  BY DEF TypeOK, ClaimQueueTypeOK, Item
<1> QED
  BY <1>1 DEF ConflictPassed

\* A plugin step: applyGrant refuses a number that the counter passed, and no step
\* sets a counter back.
LEMMA PluginPassed ==
    ASSUME TypeOK, TypeOK', ConflictPassed, PluginStep
    PROVE  /\ ConflictPassed'
           /\ \A i \in Instance, r \in Run :
                 items'[i][r].phase = "APPLYING" => items[i][r].phase = "APPLYING"
<1> DEFINE NoneApplies == \A i \in Instance, r \in Run :
                             items'[i][r].phase = "APPLYING" => items[i][r].phase = "APPLYING"
<1>1. /\ items \in [Instance -> [Run -> Item]] /\ NoItem \in Item
      /\ [NoItem EXCEPT !.phase = "QUEUED"] \in Item
      /\ counter \in [Instance -> Nat \ {0}] /\ counter' \in [Instance -> Nat \ {0}]
      /\ \A i \in Instance : counter[i] <= counter[i]
  BY DEF TypeOK, ClaimQueueTypeOK, NoItem, Item, Phase
<1>2. ASSUME NEW i \in Instance, NEW r \in Run
      PROVE  /\ items[i][r] \in Item
             /\ Requeued(items[i][r]) \in Item /\ Requeued(items[i][r]).phase = "QUEUED"
             /\ Requeued(items[i][r]).conflict = items[i][r].conflict
  <2>1. items[i][r] \in Item
    BY <1>1
  <2> QED
    BY <2>1 DEF Requeued, Item, Phase
<1>3. ASSUME NEW i \in Instance, NEW r \in Run, NEW item \in Item, setItem(i, r, item),
             item.phase # "APPLYING", item.conflict \in {0, items[i][r].conflict},
             \A j \in Instance : counter[j] <= counter'[j]
      PROVE  ConflictPassed' /\ NoneApplies
  <2>1. \A j \in Instance, s \in Run : items'[j][s] = IF j = i /\ s = r THEN item ELSE items[j][s]
    BY <1>1, <1>3, SetItem
  <2>2. \A j \in Instance, s \in Run : items'[j][s].conflict \in {0, items[j][s].conflict}
    BY <1>3, <2>1
  <2> QED
    BY <1>3, <2>1, <2>2, PassedKept
<1>4. ASSUME NEW i \in Instance, NEW r \in Run, Schedule(i, r) \/ cancel(i, r)
      PROVE  ConflictPassed' /\ NoneApplies
  <2>1. /\ NoItem.phase # "APPLYING" /\ NoItem.conflict = 0
        /\ [NoItem EXCEPT !.phase = "QUEUED"].phase # "APPLYING"
        /\ [NoItem EXCEPT !.phase = "QUEUED"].conflict = 0
    BY DEF NoItem
  <2> QED
    BY <1>1, <1>3, <1>4, <2>1 DEF Schedule, cancel
<1>5. ASSUME NEW i \in Instance, NEW r \in Run, applyGrant(i, r)
      PROVE  ConflictPassed' /\ NoneApplies
  <2> DEFINE granted == items[i][r].number
             refusal == Requeued([items[i][r] EXCEPT !.conflict = granted])
             applied == [items[i][r] EXCEPT !.phase = "MARKING", !.conflict = 0]
  <2>1. /\ granted \in Nat
        /\ refusal \in Item /\ refusal.phase = "QUEUED" /\ refusal.conflict = granted
        /\ applied \in Item /\ applied.phase = "MARKING" /\ applied.conflict = 0
    BY <1>2 DEF Requeued, Item, Phase
  <2>2. \/ passed(i, granted) /\ setItem(i, r, refusal) /\ UNCHANGED counter
        \/ applyNumber(i, granted) /\ setItem(i, r, applied)
    BY <1>5 DEF applyGrant
  <2> HIDE DEF refusal, applied
  <2>3. CASE passed(i, granted) /\ setItem(i, r, refusal) /\ UNCHANGED counter
    <3>1. \A j \in Instance, s \in Run : items'[j][s] = IF j = i /\ s = r THEN refusal ELSE items[j][s]
      BY <1>1, <2>1, <2>3, SetItem
    <3>2. granted < counter[i]
      BY <1>1, <2>1, <2>3 DEF passed
    <3>3. ConflictPassed'
      BY <2>1, <2>3, <3>1, <3>2 DEF ConflictPassed
    <3> QED
      BY <2>1, <3>1, <3>3
  <2>4. CASE applyNumber(i, granted) /\ setItem(i, r, applied)
    <3>1. \A j \in Instance : counter[j] <= counter'[j]
      BY <1>1, <2>1, <2>4 DEF applyNumber, passed
    <3> QED
      BY <1>3, <2>1, <2>4, <3>1
  <2> QED
    BY <2>2, <2>3, <2>4
<1>6. ASSUME UNCHANGED <<items, counter>> PROVE ConflictPassed' /\ NoneApplies
  BY <1>6 DEF ConflictPassed
<1>7. ASSUME NEW i \in Instance, NEW r \in Run, postTimesOut(i, r, placement.gen)
      PROVE  ConflictPassed' /\ NoneApplies
  BY <1>1, <1>2, <1>3, <1>6, <1>7 DEF postTimesOut
<1>8. ASSUME NEW i \in Instance, NEW r \in Run, Start(i, r) PROVE ConflictPassed' /\ NoneApplies
  <2>1. \A j \in Instance : counter[j] <= counter'[j]
    BY <1>1, <1>8 DEF Start
  <2>2. NoItem.phase # "APPLYING" /\ NoItem.conflict = 0
    BY DEF NoItem
  <2> QED
    BY <1>1, <1>3, <1>8, <2>1, <2>2 DEF Start
<1>9. ASSUME NEW i \in Instance, expire(i) PROVE ConflictPassed' /\ NoneApplies
  BY <1>6, <1>9 DEF expire
<1>10. ASSUME NEW i \in Instance, Restart(i) PROVE ConflictPassed' /\ NoneApplies
  <2>1. \A j \in Instance, s \in Run :
           items'[j][s] = items[j][s] \/ items'[j][s] = Requeued(items[j][s])
    BY <1>1, <1>10 DEF Restart
  <2>2. \A j \in Instance, s \in Run :
           /\ items'[j][s].conflict \in {0, items[j][s].conflict}
           /\ items'[j][s].phase = "APPLYING" => items[j][s].phase = "APPLYING"
    BY <1>2, <2>1
  <2>3. UNCHANGED counter
    BY <1>10 DEF Restart
  <2> QED
    BY <1>1, <2>2, <2>3, PassedKept
<1> HIDE DEF NoneApplies
<1>11. ConflictPassed' /\ NoneApplies
  BY <1>4, <1>5, <1>7, <1>8, <1>9, <1>10 DEF PluginStep
<1> QED
  BY <1>11 DEF NoneApplies

\* A claim that names a refused number is not answered with it: a fresh number is at
\* or above the counter that passed it, and needsFreshNumber leaves no stored one
\* equal to it, since every stored number is below the watermark.
LEMMA ClaimAvoidsConflict ==
    ASSUME TypeOK, NumbersBelowWatermark, NEW q \in Request, NEW a,
           Claim(q, a), a.decision = "GRANTED", q.conflict > 0, q.conflict < q.next
    PROVE  a.number # q.conflict
<1> DEFINE row == intents[KeyOf[q.run]]
<1>1. /\ KeyOf[q.run] \in Key /\ q.next \in Nat /\ q.conflict \in Nat
      /\ nextNumber \in Nat /\ row.number \in Nat
  BY RequestFields DEF TypeOK, LedgerTypeOK, Intent, Request
<1>2. reserved(q) >= q.next /\ reserved(q) \in Nat
  BY <1>1, LargerIsBound DEF reserved
<1>3. reserved(q) # q.conflict
  BY <1>1, <1>2
<1>4. row.number < nextNumber
  BY <1>1 DEF NumbersBelowWatermark
<1>5. grantNewIntent(q, a) \/ reanswerSameRun(q, a) \/ transferIntent(q, a)
  BY DEF Claim, ClaimFenced, fenceAnswers, ClaimRetry, claimRow1, sameRunDuplicate,
         claimDuplicate, Answer
<1>6. a.number = reserved(q) \/ (a.number = row.number /\ ~needsFreshNumber(row, q))
  BY <1>5 DEF grantNewIntent, reanswerSameRun, transferIntent, Answer
<1> QED
  BY <1>1, <1>3, <1>4, <1>6 DEF needsFreshNumber

\* What a step does to the items, and that it keeps the invariant.
RegrantAvoided ==
    \A i \in Instance, r \in Run :
       /\ items[i][r].conflict > 0
       /\ items[i][r].phase = "QUEUED"
       /\ items'[i][r].phase = "APPLYING"
       => items'[i][r].number # items[i][r].conflict

LEMMA StepPassed ==
    ASSUME TypeOK, NumbersBelowWatermark, ConflictPassed, [Next]_vars
    PROVE  ConflictPassed' /\ RegrantAvoided
<1>1. /\ TypeOK'
      /\ items \in [Instance -> [Run -> Item]] /\ NoItem \in Item
      /\ NoItem.phase = "NONE" /\ NoItem.conflict = 0
      /\ counter \in [Instance -> Nat \ {0}] /\ \A i \in Instance : counter[i] <= counter[i]
  BY StepType DEF TypeOK, ClaimQueueTypeOK, NoItem, Item, Phase
<1>2. ASSUME NEW i \in Instance, NEW r \in Run, NEW item \in Item, setItem(i, r, item),
             item.conflict \in {0, items[i][r].conflict}, UNCHANGED counter,
             \/ item.phase # "APPLYING"
             \/ items[i][r].conflict > 0 => item.number # items[i][r].conflict
      PROVE  ConflictPassed' /\ RegrantAvoided
  <2>1. \A j \in Instance, s \in Run : items'[j][s] = IF j = i /\ s = r THEN item ELSE items[j][s]
    BY <1>1, <1>2, SetItem
  <2>2. \A j \in Instance, s \in Run : items'[j][s].conflict \in {0, items[j][s].conflict}
    BY <1>2, <2>1
  <2>3. ConflictPassed'
    BY <1>1, <1>2, <2>2, PassedKept
  <2> QED
    BY <1>2, <2>1, <2>3 DEF RegrantAvoided
<1>3. ASSUME UNCHANGED items, \A i \in Instance : counter[i] <= counter'[i]
      PROVE  ConflictPassed' /\ RegrantAvoided
  BY <1>1, <1>3, PassedKept DEF RegrantAvoided
<1>4. ASSUME NEW i \in Instance, NEW r \in Run, ClaimStep(i, r)
      PROVE  ConflictPassed' /\ RegrantAvoided
  <2> DEFINE q == claimBody(i, r, placement.gen)
  <2>1. PICK a \in Decisions : claimOnce(i, r, a) /\ Claim(q, a)
    BY <1>4 DEF ClaimStep
  <2>2. q \in Request /\ q.conflict = items[i][r].conflict /\ q.next = counter[i]
    BY PostsAreRequests DEF claimBody
  <2> HIDE DEF q
  <2>3. items[i][r] \in Item /\ a.number \in Nat /\ items[i][r].conflict \in Nat
    BY <1>1, DecisionsAreReplies DEF Reply, Item
  <2>4. a.decision = "GRANTED" /\ items[i][r].conflict > 0 => a.number # items[i][r].conflict
    BY <2>1, <2>2, ClaimAvoidsConflict DEF ConflictPassed
  <2> DEFINE new == [items[i][r] EXCEPT !.phase = "APPLYING", !.number = a.number]
  <2>5. new \in Item /\ new.number = a.number /\ new.conflict = items[i][r].conflict
    BY <2>3 DEF Item, Phase
  <2>6. /\ \/ a.decision = "GRANTED" /\ setItem(i, r, new)
           \/ setItem(i, r, NoItem)
           \/ UNCHANGED items
        /\ UNCHANGED counter
    BY <2>1 DEF claimOnce
  <2> HIDE DEF new
  <2> QED
    BY <1>1, <1>2, <1>3, <2>4, <2>5, <2>6
<1>5. ASSUME NEW i \in Instance, NEW r \in Run, MarkStep(i, r)
      PROVE  ConflictPassed' /\ RegrantAvoided
  <2>1. items[i][r] \in Item
    BY <1>1
  <2>2. /\ [items[i][r] EXCEPT !.phase = "GRANTED"] \in Item
        /\ [items[i][r] EXCEPT !.phase = "GRANTED"].phase = "GRANTED"
        /\ [items[i][r] EXCEPT !.phase = "GRANTED"].conflict = items[i][r].conflict
        /\ Requeued(items[i][r]) \in Item /\ Requeued(items[i][r]).phase = "QUEUED"
        /\ Requeued(items[i][r]).conflict = items[i][r].conflict
    BY <2>1 DEF Item, Phase, Requeued
  <2>3. /\ \/ setItem(i, r, [items[i][r] EXCEPT !.phase = "GRANTED"])
           \/ setItem(i, r, NoItem)
           \/ setItem(i, r, Requeued(items[i][r]))
        /\ UNCHANGED counter
    BY <1>5 DEF MarkStep, markStart
  <2> QED
    BY <1>1, <1>2, <2>2, <2>3
<1>6. ASSUME NEW q \in late, HandleLate(q) PROVE ConflictPassed' /\ RegrantAvoided
  BY <1>1, <1>3, <1>6 DEF HandleLate
<1>7. CASE Rehydrate
  <2>1. UNCHANGED items /\ \A i \in Instance : counter[i] <= counter'[i]
    <3>1. PICK n \in 1..nextNumber : applySeed(placement.home, n)
      BY <1>7 DEF Rehydrate
    <3>2. nextNumber \in Nat
      BY DEF TypeOK, LedgerTypeOK
    <3> QED
      BY <1>1, <3>1, <3>2 DEF applySeed
  <2> QED
    BY <1>3, <2>1
<1>8. CASE RecorderStep \/ UNCHANGED vars
  BY <1>1, <1>3, <1>8 DEF RecorderStep, vars, queueVars
<1>9. CASE PluginStep
  BY <1>1, <1>9, PluginPassed DEF RegrantAvoided
<1> QED
  BY <1>4, <1>5, <1>6, <1>7, <1>8, <1>9 DEF Next

\* The claim loop makes progress: the number an item refused is never what its next
\* grant brings (needsFreshNumber, reserveBuildNumber).
THEOREM RefusedNumbersNotRegranted == Spec => RefusedNumberNotRegranted
<1> DEFINE IInv == TypeOK /\ NumbersBelowWatermark /\ ConflictPassed
<1>1. Init => ConflictPassed
  BY DEF Init, ClaimQueueInit, ConflictPassed, NoItem
<1>2. IInv /\ [Next]_vars => ConflictPassed' /\ RegrantAvoided
  BY StepPassed
<1>3. Spec => []ConflictPassed
  BY <1>1, <1>2, TypeCorrect, NumbersSafe, PTL DEF Spec
<1> QED
  BY <1>2, <1>3, TypeCorrect, NumbersSafe, PTL DEF Spec, RefusedNumberNotRegranted, RegrantAvoided
=============================================================================
