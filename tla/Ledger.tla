------------------------------- MODULE Ledger -------------------------------
(***************************************************************************)
(* The recorder's build-claim ledger (internal/recordstore): one job of    *)
(* one tenant.  A Jenkins queue item claims its intent key; the ledger     *)
(* grants the key to one run with a reserved build number, stores the      *)
(* start mark that must precede the build, and ingests the build's events. *)
(*                                                                         *)
(* Every action is one Postgres transaction.  The claim's placement fence  *)
(* and its decision share a transaction and lock the placement row, so     *)
(* they are one step.  The clients are in ClaimQueue; BuildClaims composes *)
(* the two.                                                                *)
(***************************************************************************)
EXTENDS Naturals, FiniteSets

CONSTANTS
    Instance,    \* cell instances: the UIDs of Jenkins pods
    Run,         \* run identifiers
    Key,         \* intent keys of the job
    KeyOf,       \* the intent key each run derives
    VarroaRun,   \* the runs Varroa triggered; the others start in Jenkins
    RevisionOf,  \* the revision the start of each run reports, or NoRevision
    Age,         \* the order of the runs' (created_at, run_id): the lower is the older
    ScmKey,      \* the intent keys with the prefix scm:
    NoRevision,
    Recreated,   \* whether the tenant may be created again under its name
    NoRun,
    NoInstance,
    MaxGeneration,   \* bound: placement generations
    MaxNumber        \* bound: reserved build numbers

ASSUME LedgerAssumption ==
    /\ KeyOf \in [Run -> Key]
    /\ VarroaRun \subseteq Run
    /\ Age \in [Run -> Nat]
    /\ \A r, s \in Run : Age[r] = Age[s] => r = s
    /\ Recreated \in BOOLEAN
    /\ NoRun \notin Run
    /\ NoInstance \notin Instance
    /\ MaxGeneration \in Nat
    /\ MaxNumber \in Nat

VARIABLES
    placement,   \* tenant_placements: generation, home instance, seed state
    dead,        \* dead_instances confirmed gone for longer than the grace
    intents,     \* run_intents, by intent key
    nextNumber,  \* job_numbers.next_number, the watermark
    runs         \* runs, by run id

ledgerVars == <<placement, dead, intents, nextNumber, runs>>

-----------------------------------------------------------------------------
(* The stored rows and the messages.  Number 0 is SQL NULL.                *)

\* old: the grant is older than grantHoldAge, or, once the start is marked,
\* the mark is older than ClaimExpiryAge.
Intent == [state  : {"NONE", "GRANTED", "CONSUMED"},
           run    : Run \cup {NoRun},
           owner  : Instance \cup {NoInstance},
           gen    : Nat,
           number : Nat,
           marked : BOOLEAN,
           old    : BOOLEAN]

NoIntent == [state |-> "NONE", run |-> NoRun, owner |-> NoInstance, gen |-> 0,
             number |-> 0, marked |-> FALSE, old |-> FALSE]

\* START_LOST is the result INTERRUPTED with the reason start-lost; BUILD is
\* any result Jenkins reported.  accepted: the payload holds accepted_at.
RunRow == [status   : {"ABSENT", "QUEUED", "RUNNING", "COMPLETED", "DUPLICATE"},
           result   : {"NULL", "TRIGGER_FAILED", "INTERRUPTED", "START_LOST", "BUILD"},
           accepted : BOOLEAN]

AbsentRow == [status |-> "ABSENT", result |-> "NULL", accepted |-> FALSE]

Placement == [gen : Nat, home : Instance, seeded : BOOLEAN]

\* next is the job's own Jenkins counter, conflict the number it refused.
Request == [kind : {"claim", "mark"}, run : Run, inst : Instance, gen : Nat,
            next : Nat, conflict : Nat]

Reply == [decision : {"GRANTED", "DUPLICATE", "RETRY", "NOT_HOME", "FENCED"},
          number : Nat]

Build == [run : Run, inst : Instance, number : Nat]

LedgerTypeOK ==
    /\ placement \in Placement
    /\ dead \subseteq Instance
    /\ intents \in [Key -> Intent]
    /\ nextNumber \in Nat \ {0}
    /\ runs \in [Run -> RunRow]

LedgerInit ==
    /\ \E i \in Instance : placement = [gen |-> 1, home |-> i, seeded |-> FALSE]
    /\ dead = {}
    /\ intents = [k \in Key |-> NoIntent]
    /\ nextNumber = 1
    /\ runs = [r \in Run |-> AbsentRow]

-----------------------------------------------------------------------------
(* Reads shared by the transactions.                                       *)

\* A row that records no build: a refused trigger, or an accepted trigger
\* that no event of a build has followed.
noBuildRecorded(row) == row.result = "TRIGGER_FAILED" \/ row.accepted

recordsBuild(row) == row.status # "ABSENT" /\ ~noBuildRecorded(row)

hasIntent(r) == intents[KeyOf[r]].run = r

\* The placement fence allows a claim of the home instance, at the stored
\* generation, once the home's rehydration seed is applied.
fenceAllows(q) ==
    /\ q.inst = placement.home
    /\ q.gen = placement.gen
    /\ placement.seeded

\* What the fence answers otherwise.  RETRY stands for every answer that keeps
\* the item queued: NOT_READY, CAPPED and a database error.  Another instance
\* also gets FENCED (its cell left the tenant) or NOT_HOME (its slot is not the
\* job's home); which of them depends on the member list, left out here.
fenceAnswers(q) ==
    {"RETRY"} \cup (IF q.inst # placement.home THEN {"FENCED", "NOT_HOME"} ELSE {})

\* One UPDATE or INSERT of the transaction.
setIntent(k, row) == intents' = [intents EXCEPT ![k] = row]

setRun(r, row) == runs' = [runs EXCEPT ![r] = row]

\* The row of a run that ended without a build.
TriggerFailed(row) == [row EXCEPT !.status = "COMPLETED", !.result = "TRIGGER_FAILED"]

Answer(d, n) == [decision |-> d, number |-> n]

Larger(m, n) == IF m > n THEN m ELSE n

\* The number reserveBuildNumber hands out to q.
reserved(q) == Larger(nextNumber, q.next)

\* Mutant: the watermark stays on the number it handed out.
reserveWithoutRaise(q) ==
    /\ reserved(q) <= MaxNumber
    /\ nextNumber' = reserved(q)

reserveBuildNumber(q) ==
    /\ reserved(q) <= MaxNumber
    /\ nextNumber' = reserved(q) + 1

\* The grant hold releases a repeat claim of another instance once the stored
\* grant is old or its owner is confirmed gone.  (A consumer that is behind
\* holds the claim in either case: that answer is ClaimRetry.)
holdReleased(row, q) ==
    row.owner = q.inst \/ row.old \/ row.owner \in dead

intentStarted(row) == row.state = "CONSUMED" \/ recordsBuild(runs[row.run])

-----------------------------------------------------------------------------
(* Claim: the decision table of existingKeyDecision.  q is the request, a  *)
(* the answer the plugin will get.                                         *)

\* markVetoedRun: a Varroa run whose claim is vetoed for good ends TRIGGER_FAILED,
\* when it holds no intent and no row but one that waits for its first claim.
markVetoedRun(r) ==
    IF r \in VarroaRun /\ ~hasIntent(r) /\ runs[r].status \in {"ABSENT", "QUEUED"}
    THEN setRun(r, TriggerFailed(runs[r]))
    ELSE UNCHANGED runs

\* A claim or mark the fence refuses.  NOT_HOME is permanent only for a replay
\* or a restart, which never forwards; a mark that fails to write is skipped.
ClaimFenced(q, a) ==
    /\ ~fenceAllows(q)
    /\ a \in {Answer(d, 0) : d \in fenceAnswers(q)}
    /\ \/ a.decision # "RETRY" /\ markVetoedRun(q.run)
       \/ UNCHANGED runs
    /\ UNCHANGED <<placement, dead, intents, nextNumber>>

\* A cap, a held grant, a consumer that is behind, or a database error.
ClaimRetry(q, a) ==
    /\ fenceAllows(q)
    /\ a = Answer("RETRY", 0)
    /\ UNCHANGED ledgerVars

grantNewIntent(q, a) ==
    /\ q.kind = "claim"
    /\ fenceAllows(q)
    /\ intents[KeyOf[q.run]].state = "NONE"
    /\ reserveBuildNumber(q)
    /\ setIntent(KeyOf[q.run],
          [state |-> "GRANTED", run |-> q.run, owner |-> q.inst, gen |-> q.gen,
           number |-> reserved(q), marked |-> FALSE, old |-> FALSE])
    /\ a = Answer("GRANTED", reserved(q))
    /\ UNCHANGED <<placement, dead, runs>>

\* Row 1: a lower generation than the stored one is fenced, whatever its run.
claimRow1(q, a) ==
    /\ q.kind = "claim"
    /\ fenceAllows(q)
    /\ intents[KeyOf[q.run]].state # "NONE"
    /\ q.gen < intents[KeyOf[q.run]].gen
    /\ a = Answer("FENCED", 0)
    /\ markVetoedRun(q.run) \/ UNCHANGED runs
    /\ UNCHANGED <<placement, dead, intents, nextNumber>>

\* Another instance marked the start: that instance alone may build.
markedElsewhere(row, q) == row.marked /\ row.owner # q.inst

\* Row 2 for a started run, or one whose start another instance marked.
sameRunDuplicate(q, a) ==
    LET row == intents[KeyOf[q.run]] IN
    /\ q.kind = "claim"
    /\ fenceAllows(q)
    /\ row.run = q.run
    /\ q.gen >= row.gen
    /\ intentStarted(row) \/ markedElsewhere(row, q)
    /\ a = Answer("DUPLICATE", 0)
    /\ UNCHANGED ledgerVars

\* Mutant: the refused number of the request is not read.
ignoresConflict(row, q) ==
    row.number = 0 \/ (row.owner # q.inst /\ row.number < q.next)

\* Does the repeat claim need a fresh number?  On a move: the new instance's
\* counter passed the stored number.  From any instance: the stored number is
\* null, or the request names it as refused and it is below the watermark.
needsFreshNumber(row, q) ==
    \/ row.owner # q.inst /\ row.number < q.next
    \/ row.number = 0
    \/ q.conflict > 0 /\ row.number = q.conflict /\ row.number < nextNumber

\* The intent after a repeat claim: with the claimer, and with its full age again
\* when it moved.
movedTo(row, q) ==
    IF row.owner = q.inst THEN row
    ELSE [row EXCEPT !.owner = q.inst, !.gen = q.gen, !.old = FALSE]

\* Row 2 otherwise: grant again, moving an unstarted intent to the claimer.
reanswerSameRun(q, a) ==
    LET k   == KeyOf[q.run]
        row == intents[k]
    IN
    /\ q.kind = "claim"
    /\ fenceAllows(q)
    /\ row.run = q.run
    /\ q.gen >= row.gen
    /\ ~intentStarted(row)
    /\ ~markedElsewhere(row, q)
    /\ holdReleased(row, q)
    /\ \/ /\ needsFreshNumber(row, q)
          /\ reserveBuildNumber(q)
          /\ setIntent(k, [movedTo(row, q) EXCEPT !.number = reserved(q)])
          /\ a = Answer("GRANTED", reserved(q))
       \/ /\ ~needsFreshNumber(row, q)
          /\ setIntent(k, movedTo(row, q))
          /\ a = Answer("GRANTED", row.number)
          /\ UNCHANGED nextNumber
    /\ UNCHANGED <<placement, dead, runs>>

\* Mutant: row 3 takes a marked grant over too.
takesMarked(row, q) ==
    /\ q.gen > row.gen
    /\ row.state = "GRANTED"
    /\ ~recordsBuild(runs[row.run])

\* Row 3's test: a higher generation takes an unstarted, unmarked grant over.
transferable(row, q) ==
    /\ q.gen > row.gen
    /\ row.state = "GRANTED"
    /\ ~row.marked
    /\ ~recordsBuild(runs[row.run])

transferIntent(q, a) ==
    LET k == KeyOf[q.run] IN
    /\ q.kind = "claim"
    /\ fenceAllows(q)
    /\ intents[k].state # "NONE"
    /\ intents[k].run # q.run
    /\ transferable(intents[k], q)
    /\ reserveBuildNumber(q)
    /\ setIntent(k, [intents[k] EXCEPT !.run = q.run, !.owner = q.inst, !.gen = q.gen,
                                       !.number = reserved(q), !.marked = FALSE,
                                       !.old = FALSE])
    /\ a = Answer("GRANTED", reserved(q))
    /\ UNCHANGED <<placement, dead, runs>>

\* markDuplicateClaim: a QUEUED row that records no build ends DUPLICATE.
markDuplicateClaim(r) ==
    IF runs[r].status = "QUEUED" /\ noBuildRecorded(runs[r])
    THEN setRun(r, [runs[r] EXCEPT !.status = "DUPLICATE"])
    ELSE UNCHANGED runs

\* Row 4: another run holds the key.
claimDuplicate(q, a) ==
    LET row == intents[KeyOf[q.run]] IN
    /\ q.kind = "claim"
    /\ fenceAllows(q)
    /\ row.state # "NONE"
    /\ row.run # q.run
    /\ q.gen >= row.gen
    /\ ~transferable(row, q)
    /\ markDuplicateClaim(q.run)
    /\ a = Answer("DUPLICATE", 0)
    /\ UNCHANGED <<placement, dead, intents, nextNumber>>

Claim(q, a) ==
    \/ ClaimFenced(q, a)
    \/ ClaimRetry(q, a)
    \/ grantNewIntent(q, a)
    \/ claimRow1(q, a)
    \/ sameRunDuplicate(q, a)
    \/ reanswerSameRun(q, a)
    \/ transferIntent(q, a)
    \/ claimDuplicate(q, a)

-----------------------------------------------------------------------------
(* MarkStart: the plugin asks it of an applied grant, before the build.    *)

\* The intent names another run, or the same run under another owner.
markDuplicate(q, a) ==
    LET row == intents[KeyOf[q.run]] IN
    /\ q.kind = "mark"
    /\ fenceAllows(q)
    /\ row.state # "NONE"
    /\ \/ row.run # q.run /\ markDuplicateClaim(q.run)
       \/ row.run = q.run /\ row.owner # q.inst /\ UNCHANGED runs
    /\ a = Answer("DUPLICATE", 0)
    /\ UNCHANGED <<placement, dead, intents, nextNumber>>

\* The stored generation is above the request's: a tenant created again.
markFenced(q, a) ==
    LET row == intents[KeyOf[q.run]] IN
    /\ q.kind = "mark"
    /\ fenceAllows(q)
    /\ row.run = q.run
    /\ row.owner = q.inst
    /\ q.gen < row.gen
    /\ a = Answer("FENCED", 0)
    /\ UNCHANGED ledgerVars

\* Mutant: the mark is granted to any run of the key.
marksAnyRun(q, a) ==
    /\ q.kind = "mark"
    /\ fenceAllows(q)
    /\ intents[KeyOf[q.run]].state # "NONE"
    /\ setIntent(KeyOf[q.run], [intents[KeyOf[q.run]] EXCEPT !.marked = TRUE])
    /\ a = Answer("GRANTED", intents[KeyOf[q.run]].number)
    /\ UNCHANGED <<placement, dead, nextNumber, runs>>

markGranted(q, a) ==
    LET k   == KeyOf[q.run]
        row == intents[k]
    IN
    /\ q.kind = "mark"
    /\ fenceAllows(q)
    /\ row.run = q.run
    /\ row.owner = q.inst
    /\ q.gen >= row.gen
    /\ IF row.state = "CONSUMED" \/ row.marked
       THEN UNCHANGED intents
       ELSE setIntent(k, [row EXCEPT !.marked = TRUE, !.old = FALSE])
    /\ a = Answer("GRANTED", row.number)
    /\ UNCHANGED <<placement, dead, nextNumber, runs>>

MarkStart(q, a) ==
    \/ ClaimFenced(q, a)
    \/ ClaimRetry(q, a)
    \/ markDuplicate(q, a)
    \/ markFenced(q, a)
    \/ markGranted(q, a)

\* One request handled by the recorder's claim responder.
handleClaim(q, a) ==
    \/ q.kind = "claim" /\ Claim(q, a)
    \/ q.kind = "mark" /\ MarkStart(q, a)

-----------------------------------------------------------------------------
(* Ingest of the build's events, in any order and more than once.          *)

\* Mutant: a start keeps the accepted trigger's payload keys.
startKeepsAccepted(row) ==
    IF row.status \in {"ABSENT", "QUEUED"} THEN [row EXCEPT !.status = "RUNNING"] ELSE row

\* Mutant: a start always wins, even over the completion that overtook it.
startAlwaysWins(row) == [status |-> "RUNNING", result |-> "NULL", accepted |-> FALSE]

\* The merged row of a run.started: it replaces a row that records no build
\* or holds the provisional start-lost mark, and else only raises QUEUED.
startedRow(row) ==
    IF row.status = "ABSENT" \/ noBuildRecorded(row) \/ row.result = "START_LOST"
    THEN [status |-> "RUNNING", result |-> "NULL", accepted |-> FALSE]
    ELSE IF row.status = "QUEUED" THEN [row EXCEPT !.status = "RUNNING"] ELSE row

\* A start of a superseded grant: a lower number from an instance that is not
\* the owner.  It writes nothing.
supersededStart(b) ==
    LET row == intents[KeyOf[b.run]] IN
    row.number # 0 /\ b.number < row.number /\ b.inst # row.owner

\* The other keys whose intent holds b's number.
numberHolders(b) == {k \in Key \ {KeyOf[b.run]} : intents[k].number = b.number}

\* Whether the holder's number can be taken: its grant has not started.
takeable(k) == intents[k].state = "GRANTED" /\ ~recordsBuild(runs[intents[k].run])

\* Mutant: the start keeps the number that was reserved.
keepsReserved(row, n) == [row EXCEPT !.state = "CONSUMED"]

consumed(row, n) == [row EXCEPT !.state = "CONSUMED", !.number = n]

\* The other live runs of r's revision.  The row of an accepted trigger holds no
\* revision, and two runs with scm: keys are two accepted revisions.
rivals(r) ==
    {s \in Run \ {r} : /\ runs[s].status \in {"QUEUED", "RUNNING"}
                       /\ recordsBuild(runs[s])
                       /\ RevisionOf[s] = RevisionOf[r]
                       /\ ~({KeyOf[r], KeyOf[s]} \subseteq ScmKey)}

newerOf(r, s) == IF Age[r] > Age[s] THEN r ELSE s

\* Mutant: the arriving run loses, whichever of the two is the older.
arrivingLoses(r) ==
    IF \/ RevisionOf[r] = NoRevision
       \/ startedRow(runs[r]).status \notin {"QUEUED", "RUNNING"}
       \/ rivals(r) = {}
    THEN {} ELSE {r}

\* runDuplicateBackstop: the run it marks DUPLICATE, if any.  While the arriving
\* run is live, the newer of it and the oldest other live run of its revision.
runDuplicateBackstop(r) ==
    IF \/ RevisionOf[r] = NoRevision
       \/ startedRow(runs[r]).status \notin {"QUEUED", "RUNNING"}
    THEN {}
    ELSE {newerOf(r, s) : s \in {o \in rivals(r) : \A t \in rivals(r) : Age[o] <= Age[t]}}

\* applyRunStarted.  The number Jenkins used wins over an unstarted grant of
\* it.  When a started run holds it, the unique constraint fails the write and
\* the retry consumes the intent with a null number and no watermark raise.
\* The duplicate backstop is part of the transaction; the cancel_run it makes
\* the recorder publish ends a build, as any build may end.
applyRunStarted(b) ==
    LET k        == KeyOf[b.run]
        conflict == \E h \in numberHolders(b) : ~takeable(h)
        taken    == IF conflict THEN {} ELSE numberHolders(b)
    IN
    /\ hasIntent(b.run)
    /\ ~supersededStart(b)
    /\ runs' = [s \in Run |->
          LET row == IF s = b.run THEN startedRow(runs[s]) ELSE runs[s]
          IN  IF s \in runDuplicateBackstop(b.run)
              THEN [row EXCEPT !.status = "DUPLICATE"] ELSE row]
    /\ intents' = [h \in Key |->
          IF h = k THEN consumed(intents[k], IF conflict THEN 0 ELSE b.number)
          ELSE IF h \in taken THEN [intents[h] EXCEPT !.number = 0] ELSE intents[h]]
    /\ nextNumber' = IF conflict THEN nextNumber ELSE Larger(nextNumber, b.number + 1)
    /\ UNCHANGED <<placement, dead>>

\* applyRunCompleted.  Only the owner's completion writes the terminal state;
\* another one adds a QUEUED row that records the build, or audit data alone.
applyRunCompleted(b) ==
    LET owned == intents[KeyOf[b.run]].owner = b.inst
        row   == runs[b.run]
    IN
    /\ hasIntent(b.run)
    /\ setRun(b.run,
          IF owned
          THEN [status   |-> IF row.status = "DUPLICATE" /\ ~noBuildRecorded(row)
                             THEN "DUPLICATE" ELSE "COMPLETED",
                result   |-> "BUILD", accepted |-> FALSE]
          ELSE IF row.status = "ABSENT" THEN [AbsentRow EXCEPT !.status = "QUEUED"]
          ELSE row)
    /\ UNCHANGED <<placement, dead, intents, nextNumber>>

\* Mutant: the accepted row does not say that it records no build.
acceptsAsBuild(r) ==
    /\ runs[r].status = "ABSENT"
    /\ setRun(r, [AbsentRow EXCEPT !.status = "QUEUED"])
    /\ UNCHANGED <<placement, dead, intents, nextNumber>>

\* applyTriggerAccepted: Jenkins accepted a Varroa trigger of r.  A key that
\* another run holds already makes the row DUPLICATE.
applyTriggerAccepted(r) ==
    /\ runs[r].status = "ABSENT"
    /\ setRun(r, [status   |-> IF intents[KeyOf[r]].run \in Run \ {r}
                               THEN "DUPLICATE" ELSE "QUEUED",
                  result   |-> "NULL", accepted |-> TRUE])
    /\ UNCHANGED <<placement, dead, intents, nextNumber>>

\* applyTriggerFailed: Jenkins refused the trigger.
applyTriggerFailed(r) ==
    /\ runs[r].status = "ABSENT"
    /\ setRun(r, TriggerFailed(runs[r]))
    /\ UNCHANGED <<placement, dead, intents, nextNumber>>

-----------------------------------------------------------------------------
(* The recorder's sweeps.                                                  *)

\* ExpireUnclaimedRuns, reason CLAIM_EXPIRED: no claim reached the run.
claimExpired(r) ==
    /\ runs[r].status = "QUEUED"
    /\ runs[r].accepted
    /\ ~hasIntent(r)
    /\ setRun(r, TriggerFailed(runs[r]))
    /\ UNCHANGED <<placement, dead, intents, nextNumber>>

\* ExpireUnclaimedRuns, reason CLAIM_ABANDONED: a granted claim built nothing.
claimAbandoned(r) ==
    LET row == intents[KeyOf[r]] IN
    /\ runs[r].status = "QUEUED"
    /\ runs[r].accepted
    /\ hasIntent(r)
    /\ row.state = "GRANTED"
    /\ ~row.marked
    /\ row.old
    /\ setRun(r, TriggerFailed(runs[r]))
    /\ UNCHANGED <<placement, dead, intents, nextNumber>>

\* EndMarkedLostIntents: a marked start whose event never came.  A confirmed
\* gone owner ends it cell-rolled, an old mark ends it start-lost.
EndMarkedLostIntent(k) ==
    LET row == intents[k] IN
    /\ row.state = "GRANTED"
    /\ row.marked
    /\ \/ runs[row.run].status = "ABSENT"
       \/ runs[row.run].status = "QUEUED" /\ noBuildRecorded(runs[row.run])
    /\ \E result \in {"INTERRUPTED", "START_LOST"} :
          /\ \/ result = "INTERRUPTED" /\ row.owner \in dead
             \/ result = "START_LOST" /\ row.old
          /\ setRun(row.run, [status |-> "COMPLETED", result |-> result, accepted |-> FALSE])
    /\ UNCHANGED <<placement, dead, intents, nextNumber>>

\* Time passes: a grant, or a mark, reaches the age the sweeps test.
GrantAges(k) ==
    /\ intents[k].state = "GRANTED"
    /\ ~intents[k].old
    /\ setIntent(k, [intents[k] EXCEPT !.old = TRUE])
    /\ UNCHANGED <<placement, dead, nextNumber, runs>>

-----------------------------------------------------------------------------
(* The tenant's placement, as the operator announces it.                   *)

\* staleAnnounce: an instance the row lists as confirmed gone does not come back.
staleAnnounce(i) == i \in dead

\* The operator announces the job's home: a replaced pod or another member (same
\* generation), or a moved tenant (next generation).  Either clears the seed.
announce(i, g) ==
    /\ ~staleAnnounce(i)
    /\ g \in {placement.gen, placement.gen + 1}
    /\ g <= MaxGeneration
    /\ <<i, g>> # <<placement.home, placement.gen>>
    /\ placement' = [gen |-> g, home |-> i, seeded |-> FALSE]
    /\ UNCHANGED <<dead, intents, nextNumber, runs>>

\* A tenant created again under the name takes the row over at a lower
\* generation.
takeOver(i, g) ==
    /\ Recreated
    /\ g \in 1..(placement.gen - 1)
    /\ i \notin dead
    /\ placement' = [gen |-> g, home |-> i, seeded |-> FALSE]
    /\ UNCHANGED <<dead, intents, nextNumber, runs>>

\* The operator read that the pod of an instance is gone, and the grace passed.
\* A partitioned node may still run that pod.
confirmGone(i) ==
    /\ i # placement.home
    /\ i \notin dead
    /\ dead' = dead \cup {i}
    /\ UNCHANGED <<placement, intents, nextNumber, runs>>

\* The home's report that the rehydration seed is applied, or the deadline that
\* releases a job the seed could not reach.
seedReported ==
    /\ ~placement.seeded
    /\ placement' = [placement EXCEPT !.seeded = TRUE]
    /\ UNCHANGED <<dead, intents, nextNumber, runs>>
=============================================================================
