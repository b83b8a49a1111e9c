--------------------------- MODULE LockStepsProofs --------------------------
(***************************************************************************)
(* Proofs about the fleet lock.  The types, the fencing order of its       *)
(* tokens, the refinement of FencedLock and that an ended run holds no row *)
(* hold for any number of runs, steps, instances, faults and delayed       *)
(* requests.  That at most one body runs whose hold nobody ended, that     *)
(* these bodies implement Exclusive, and that an interrupted holder keeps  *)
(* its row, need that nothing hides a live pod, that runs are on their     *)
(* homes and that no request is delayed.                                   *)
(***************************************************************************)
EXTENDS LockSteps, FiniteSetTheorems, TLAPS

Table == [Run -> Row]

\* Table u has no holder that t has not, and no other token of one.
NoNewHold(t, u) ==
    \A r \in Run : u[r].state \in {"held", "releasing"} =>
       t[r].state \in {"held", "releasing"} /\ u[r].token = t[r].token

\* Table u has no row that t has not, but for the rows of X.
NoNewRow(t, u, X) ==
    \A r \in Run \ X : t[r].state = "none" => u[r].state = "none"

-----------------------------------------------------------------------------
(* The statements of the transactions.                                     *)

LEMMA Transitive ==
    ASSUME NEW t, NEW u, NEW v, NEW X, NoNewHold(t, u), NoNewHold(u, v),
           NoNewRow(t, u, X), NoNewRow(u, v, X)
    PROVE  NoNewHold(t, v) /\ NoNewRow(t, v, X)
BY DEF NoNewHold, NoNewRow

\* A delete adds no row and no hold, and removes the rows it names.
LEMMA WithoutTable ==
    ASSUME NEW t \in Table, NEW R, NEW X
    PROVE  /\ without(t, R) \in Table
           /\ NoNewHold(t, without(t, R))
           /\ NoNewRow(t, without(t, R), X)
           /\ \A r \in Run : r \in R => without(t, R)[r].state = "none"
<1>1. NoRow \in Row
  BY DEF NoRow, Row
<1>2. ASSUME NEW r \in Run
      PROVE  [t[r] EXCEPT !.ahead = @ \ R] \in Row
  BY DEF Table, Row
<1>3. without(t, R) \in Table
  BY <1>1, <1>2 DEF without, Table
<1>4. \A r \in Run : /\ without(t, R)[r].state \in {"none", t[r].state}
                     /\ r \in R => without(t, R)[r].state = "none"
                     /\ r \notin R => without(t, R)[r].token = t[r].token
  BY DEF without, NoRow, Table, Row
<1> QED
  BY <1>3, <1>4 DEF NoNewHold, NoNewRow

LEMMA MoveTable ==
    ASSUME NEW t \in Table, NEW X
    PROVE  /\ moveInterruptedHoldersToReleasing(t) \in Table
           /\ NoNewHold(t, moveInterruptedHoldersToReleasing(t))
           /\ NoNewRow(t, moveInterruptedHoldersToReleasing(t), X)
<1> DEFINE u == moveInterruptedHoldersToReleasing(t)
<1>1. ASSUME NEW r \in Run
      PROVE  [t[r] EXCEPT !.state = "releasing"] \in Row
  BY DEF Table, Row
<1>2. u \in Table
  BY <1>1 DEF moveInterruptedHoldersToReleasing, Table
<1>3. \A r \in Run : \/ u[r] = t[r]
                     \/ t[r].state = "held" /\ u[r].token = t[r].token
  BY DEF moveInterruptedHoldersToReleasing, Table, Row
<1> QED
  BY <1>2, <1>3 DEF NoNewHold, NoNewRow

LEMMA DeleteTable ==
    ASSUME NEW t \in Table, NEW X
    PROVE  /\ deleteExpiredFleetLockRows(t) \in Table
           /\ NoNewHold(t, deleteExpiredFleetLockRows(t))
           /\ NoNewRow(t, deleteExpiredFleetLockRows(t), X)
BY WithoutTable DEF deleteExpiredFleetLockRows

\* A row whose lease is set anew, or runs out, stays as it is otherwise.
LEMMA LeaseSet ==
    ASSUME NEW t \in Table, NEW r \in Run, NEW u, u \in {refreshed(t, r), outrun(t, r)}
    PROVE  /\ u \in Table
           /\ \A q \in Run : u[q].state = t[q].state /\ u[q].token = t[q].token
<1> DEFINE fresh == [t[r] EXCEPT !.expired = FALSE]
           stale == [t[r] EXCEPT !.expired = TRUE]
<1>0. t[r] \in Row
  BY DEF Table
<1>1. fresh \in Row /\ stale \in Row
  BY <1>0 DEF Row
<1>2. /\ fresh.state = t[r].state /\ fresh.token = t[r].token
      /\ stale.state = t[r].state /\ stale.token = t[r].token
  BY DEF Table, Row
<1>3. u = [t EXCEPT ![r] = fresh] \/ u = [t EXCEPT ![r] = stale]
  BY DEF refreshed, outrun
<1> HIDE DEF fresh, stale
<1> QED
  BY <1>1, <1>2, <1>3 DEF Table

LEMMA InsertTable ==
    ASSUME NEW t \in Table, NEW r \in Run
    PROVE  /\ insertWaitingFleetLockRow(t, r) \in Table
           /\ NoNewHold(t, insertWaitingFleetLockRow(t, r))
           /\ NoNewRow(t, insertWaitingFleetLockRow(t, r), {r})
<1> DEFINE u == insertWaitingFleetLockRow(t, r)
           new == [NoRow EXCEPT !.state = "waiting",
                                !.ahead = {s \in Run : t[s].state # "none"}]
<1>1. new \in Row /\ new.state = "waiting"
  BY DEF NoRow, Row
<1>2. CASE t[r].state = "none"
  <2>1. u = [t EXCEPT ![r] = new]
    BY <1>2 DEF insertWaitingFleetLockRow
  <2> HIDE DEF u, new
  <2>2. u \in Table /\ u[r] = new /\ \A q \in Run : q # r => u[q] = t[q]
    BY <2>1, <1>1 DEF Table
  <2> QED
    BY <2>2, <1>1 DEF NoNewHold, NoNewRow, u
<1>3. CASE t[r].state # "none"
  <2>1. u = refreshed(t, r)
    BY <1>3 DEF insertWaitingFleetLockRow
  <2> HIDE DEF u
  <2>3. u \in Table /\ \A q \in Run : u[q].state = t[q].state /\ u[q].token = t[q].token
    BY <2>1, LeaseSet
  <2> QED
    BY <2>3 DEF NoNewHold, NoNewRow, u
<1> QED
  BY <1>2, <1>3

\* Steps 1 to 3 of an acquire add the caller's own waiting row, and no hold.
LEMMA PreparedTable ==
    ASSUME FleetLockTypeOK, NEW r \in Run
    PROVE  prepared(r) \in Table /\ NoNewHold(rows, prepared(r)) /\ NoNewRow(rows, prepared(r), {r})
<1> DEFINE m == moveInterruptedHoldersToReleasing(rows)
           d == deleteExpiredFleetLockRows(m)
<1>1. rows \in Table
  BY DEF FleetLockTypeOK, Table
<1>2. m \in Table /\ NoNewHold(rows, m) /\ NoNewRow(rows, m, {r})
  BY <1>1, MoveTable
<1>3. d \in Table /\ NoNewHold(m, d) /\ NoNewRow(m, d, {r})
  BY <1>2, DeleteTable
<1>4. prepared(r) = insertWaitingFleetLockRow(d, r)
  BY DEF prepared
<1> HIDE DEF m, d
<1>5. prepared(r) \in Table /\ NoNewHold(d, prepared(r)) /\ NoNewRow(d, prepared(r), {r})
  BY <1>3, <1>4, InsertTable
<1> QED
  BY <1>2, <1>3, <1>5, Transitive

-----------------------------------------------------------------------------
(* The recorder's actions: what each may do to the holds and the rows.     *)

\* No run gets the lock in this step.
Quiet == fence' = fence /\ NoNewHold(rows, rows')

\* Run r gets the lock, with a new token.
Granted(r) ==
    /\ fence' = fence + 1
    /\ rows'[r].state = "held"
    /\ \A q \in Run : rows'[q].state \in {"held", "releasing"} => q = r /\ rows'[q].token = fence'

EndedKept == EndedRunHoldsNothing => EndedRunHoldsNothing'

\* What a step does to the holds and to the tokens of the step executions.
FenceKept ==
    \/ Quiet /\ \A s \in Step : steps'[s].token \in {0, steps[s].token}
    \/ \E r \in Run :
          /\ Granted(r)
          /\ \A s \in Step : \/ steps'[s].token = steps[s].token
                             \/ RunOf[s] = r /\ steps'[s].token = fence'

\* A step that only writes rows.
LEMMA RowsWritten ==
    ASSUME FleetLockTypeOK, NEW t \in Table, rows' = t, NEW X,
           NoNewHold(rows, t), NoNewRow(rows, t, X), \A r \in Run \cap X : run[r] # "ENDED",
           UNCHANGED <<fence, run, home, gone>>
    PROVE  FleetLockTypeOK' /\ Quiet /\ EndedKept
<1>1. FleetLockTypeOK'
  BY DEF FleetLockTypeOK, Table
<1>2. ASSUME EndedRunHoldsNothing, NEW r \in Run, run'[r] = "ENDED"
      PROVE  rows'[r].state = "none"
  BY <1>2 DEF EndedRunHoldsNothing, NoNewRow
<1> QED
  BY <1>1, <1>2 DEF Quiet, EndedKept, EndedRunHoldsNothing

\* A step that leaves the rows alone, or only deletes rows, renews or outruns a
\* lease, moves holders to releasing, or changes an owner.
LEMMA RowsNotAdded ==
    ASSUME FleetLockTypeOK, NEW t \in Table, rows' = t,
           \A q \in Run : t[q].state = rows[q].state /\ t[q].token = rows[q].token,
           UNCHANGED <<fence, run, home, gone>>
    PROVE  FleetLockTypeOK' /\ Quiet /\ EndedKept
<1>1. NoNewHold(rows, t) /\ NoNewRow(rows, t, {})
  BY DEF NoNewHold, NoNewRow
<1>2. FleetLockTypeOK'
  BY DEF FleetLockTypeOK, Table
<1> QED
  BY <1>1, <1>2 DEF Quiet, EndedKept, EndedRunHoldsNothing

LEMMA TableUnchanged ==
    ASSUME FleetLockTypeOK, UNCHANGED tableVars
    PROVE  FleetLockTypeOK' /\ Quiet /\ EndedKept
BY DEF FleetLockTypeOK, tableVars, Quiet, NoNewHold, EndedKept, EndedRunHoldsNothing

LEMMA RowsDeleted ==
    ASSUME FleetLockTypeOK, NEW R, rows' = without(rows, R), UNCHANGED <<fence, run, home, gone>>
    PROVE  FleetLockTypeOK' /\ Quiet /\ EndedKept
<1>2. rows \in Table
  BY DEF FleetLockTypeOK, Table
<1>3. /\ without(rows, R) \in Table
      /\ NoNewHold(rows, without(rows, R))
      /\ NoNewRow(rows, without(rows, R), {})
  BY <1>2, WithoutTable
<1> QED
  BY <1>3, RowsWritten

\* The actions that get no run the lock: requests, rounds, events and announces.
LEMMA RenewTable ==
    ASSUME FleetLockTypeOK, NEW r \in Run, NEW a,
           renewFleetLockRow(r, a) \/ leaseExpires(r)
    PROVE  FleetLockTypeOK' /\ Quiet /\ EndedKept
<1>1. rows \in Table
  BY DEF FleetLockTypeOK, Table
<1>2. PICK t \in {refreshed(rows, r), outrun(rows, r)} : rows' = t
  BY DEF renewFleetLockRow, leaseExpires
<1>3. t \in Table /\ \A q \in Run : t[q].state = rows[q].state /\ t[q].token = rows[q].token
  BY <1>1, LeaseSet
<1> QED
  BY <1>2, <1>3, RowsNotAdded DEF renewFleetLockRow, leaseExpires

LEMMA ReleaseTable ==
    ASSUME FleetLockTypeOK, NEW r \in Run, NEW silent,
           \/ handleCrossTenantLockRelease(r)
           \/ ReleaseConfirmedFleetLocks(r, silent)
           \/ ForceReleaseFleetLock(r)
    PROVE  FleetLockTypeOK' /\ Quiet /\ EndedKept
BY RowsDeleted DEF handleCrossTenantLockRelease, ReleaseConfirmedFleetLocks, ForceReleaseFleetLock

LEMMA RoundTable ==
    ASSUME FleetLockTypeOK, moveInterruptedFleetLockHolders \/ sweepFleetLocks
    PROVE  FleetLockTypeOK' /\ Quiet /\ EndedKept
<1> DEFINE m == moveInterruptedHoldersToReleasing(rows)
           d == deleteExpiredFleetLockRows(m)
<1>1. rows \in Table
  BY DEF FleetLockTypeOK, Table
<1>2. m \in Table /\ NoNewHold(rows, m) /\ NoNewRow(rows, m, {})
  BY <1>1, MoveTable
<1>3. d \in Table /\ NoNewHold(m, d) /\ NoNewRow(m, d, {})
  BY <1>2, DeleteTable
<1>4. NoNewHold(rows, d) /\ NoNewRow(rows, d, {})
  BY <1>2, <1>3, Transitive
<1>5. rows' = m \/ rows' = d
  BY DEF moveInterruptedFleetLockHolders, sweepFleetLocks
<1>6. UNCHANGED <<fence, run, home, gone>>
  BY DEF moveInterruptedFleetLockHolders, sweepFleetLocks
<1> HIDE DEF m, d
<1> QED
  BY <1>2, <1>3, <1>4, <1>5, <1>6, RowsWritten

LEMMA EventTable ==
    ASSUME FleetLockTypeOK, NEW r \in Run, deleteFleetLocksForRun(r) \/ markInterrupted(r)
    PROVE  FleetLockTypeOK' /\ Quiet /\ EndedKept
<1>1. rows \in Table
  BY DEF FleetLockTypeOK, Table
<1>2. CASE deleteFleetLocksForRun(r)
  <2>1. /\ rows' \in Table
        /\ NoNewHold(rows, rows')
        /\ NoNewRow(rows, rows', {})
        /\ rows'[r].state = "none"
    BY <1>1, <1>2, WithoutTable DEF deleteFleetLocksForRun
  <2>2. FleetLockTypeOK'
    BY <1>2, <2>1 DEF deleteFleetLocksForRun, FleetLockTypeOK, Table, RunState
  <2>3. EndedKept
    BY <1>2, <2>1 DEF deleteFleetLocksForRun, EndedKept, EndedRunHoldsNothing, NoNewRow,
                      FleetLockTypeOK
  <2> QED
    BY <1>2, <2>1, <2>2, <2>3 DEF deleteFleetLocksForRun, Quiet
<1>3. CASE markInterrupted(r)
  BY <1>3 DEF markInterrupted, FleetLockTypeOK, RunState, Quiet, NoNewHold, EndedKept,
              EndedRunHoldsNothing
<1> QED
  BY <1>2, <1>3

LEMMA PlacementTable ==
    ASSUME FleetLockTypeOK, NEW r \in Run, NEW i \in Instance,
           moveLockOwner(r, i) \/ announceHome(r, i) \/ announceGone(i)
    PROVE  FleetLockTypeOK' /\ Quiet /\ EndedKept
<1>1. CASE moveLockOwner(r, i)
  <2> DEFINE row == [rows[r] EXCEPT !.inst = home[r]]
  <2>1. row \in Row /\ row.state = rows[r].state /\ row.token = rows[r].token
    BY DEF FleetLockTypeOK, Row
  <2>2. rows' = rows \/ rows' = [rows EXCEPT ![r] = row]
    BY <1>1 DEF moveLockOwner
  <2> HIDE DEF row
  <2>3. rows' \in Table /\ \A q \in Run : rows'[q].state = rows[q].state /\ rows'[q].token = rows[q].token
    BY <2>1, <2>2 DEF FleetLockTypeOK, Table
  <2> QED
    BY <1>1, <2>3, RowsNotAdded DEF moveLockOwner
<1>2. CASE announceHome(r, i) \/ announceGone(i)
  BY <1>2 DEF announceHome, announceGone, FleetLockTypeOK, Quiet, NoNewHold, EndedKept,
              EndedRunHoldsNothing
<1> QED
  BY <1>1, <1>2

\* An acquire grants the lock with the next token, or gets no run the lock.
LEMMA AcquireTable ==
    ASSUME FleetLockTypeOK, NEW r \in Run, NEW a, acquireFleetLock(r, a)
    PROVE  /\ FleetLockTypeOK' /\ EndedKept
           /\ \/ Quiet /\ a.state # "held"
              \/ Granted(r) /\ a.token = fence'
<1>1. prepared(r) \in Table /\ NoNewHold(rows, prepared(r)) /\ NoNewRow(rows, prepared(r), {r})
  BY PreparedTable
<1>2. CASE promote(r, a)
  <2> DEFINE t   == prepared(r)
             row == [t[r] EXCEPT !.state = "held", !.token = fence', !.inst = home[r]]
  <2>0. fence' = fence + 1 /\ fence' \in Nat /\ a.token = fence' /\ run[r] # "ENDED"
    BY <1>2 DEF promote, FleetLockTypeOK, Answer, fleetLockRunEnded
  <2>1. row \in Row /\ row.token = fence' /\ row.state = "held"
    <3>1. t[r] \in Row /\ home[r] \in Instance
      BY <1>1 DEF Table, FleetLockTypeOK
    <3> HIDE DEF t
    <3> QED
      BY <3>1, <2>0 DEF Row
  <2>2. rows' = [t EXCEPT ![r] = row]
    BY <1>2 DEF promote
  <2>3. \A q \in Run : t[q].state \notin {"held", "releasing"}
    BY <1>2 DEF promote, promotable, occupied
  <2> HIDE DEF t, row
  <2>4. rows' \in Table /\ rows'[r] = row /\ \A q \in Run : q # r => rows'[q] = t[q]
    BY <1>1, <2>1, <2>2 DEF Table, t
  <2>5. Granted(r)
    BY <2>0, <2>1, <2>3, <2>4 DEF Granted
  <2>6. FleetLockTypeOK'
    BY <1>2, <2>0, <2>4 DEF promote, FleetLockTypeOK, Table
  <2>7. EndedKept
    BY <1>1, <1>2, <2>0, <2>4 DEF promote, EndedKept, EndedRunHoldsNothing, NoNewRow, t
  <2> QED
    BY <2>0, <2>5, <2>6, <2>7
<1>3. CASE /\ ~fleetLockRunEnded(r) /\ rows' = prepared(r) /\ a = Answer("waiting", 0)
           /\ UNCHANGED <<fence, run, home, gone>>
  <2>1. \A q \in Run \cap {r} : run[q] # "ENDED"
    BY <1>3 DEF fleetLockRunEnded
  <2>2. FleetLockTypeOK' /\ Quiet /\ EndedKept
    BY <1>1, <1>3, <2>1, RowsWritten
  <2> QED
    BY <1>3, <2>2 DEF Answer
<1>4. CASE UNCHANGED tableVars /\ (a = Answer("waiting", 0) \/ a = Answer("veto", 0))
  BY <1>4, TableUnchanged DEF Answer
<1> QED
  BY <1>2, <1>3, <1>4 DEF acquireFleetLock

-----------------------------------------------------------------------------
(* The fencing order.                                                      *)

\* A step that gets no run the lock keeps the order, when no step execution gets
\* a token in it.
LEMMA QuietFencing ==
    ASSUME Fencing, TypeOK', Quiet,
           \A s \in Step : steps'[s].token \in {0, steps[s].token}
    PROVE  Fencing' /\ FenceKept
<1>1. \A r \in Run : Holds(r)' => Holds(r) /\ rows'[r].token = rows[r].token
  BY DEF Quiet, NoNewHold, Holds
<1>2. /\ fence \in Nat /\ fence' = fence
      /\ \A s \in Step : steps[s].token \in Nat
      /\ \A r \in Run : rows[r].token \in Nat
  BY DEF Fencing, TypeOK, FleetLockTypeOK, LockStepsTypeOK, Row, Quiet
<1>3. OneHolder'
  BY <1>1 DEF Fencing, OneHolder
<1>4. TokensIssued'
  BY <1>1, <1>2 DEF Fencing, TokensIssued
<1>5. HolderIsNewest'
  BY <1>1, <1>2 DEF Fencing, HolderIsNewest
<1> QED
  BY <1>3, <1>4, <1>5 DEF Fencing, FenceKept

\* The step that gets run r the lock gives the new token to a step of r alone.
LEMMA GrantFencing ==
    ASSUME Fencing, TypeOK', NEW r \in Run, Granted(r),
           \A s \in Step : \/ steps'[s].token = steps[s].token
                           \/ RunOf[s] = r /\ steps'[s].token = fence'
    PROVE  Fencing' /\ FenceKept
<1>1. \A q \in Run : Holds(q)' => q = r /\ rows'[q].token = fence'
  BY DEF Granted, Holds
<1>2. /\ fence \in Nat /\ fence' = fence + 1
      /\ \A s \in Step : steps[s].token \in Nat /\ steps[s].token <= fence
  BY DEF Fencing, TypeOK, FleetLockTypeOK, LockStepsTypeOK, TokensIssued, Granted
<1>3. OneHolder'
  BY <1>1 DEF OneHolder
<1>4. TokensIssued'
  BY <1>1, <1>2 DEF TokensIssued
<1>5. HolderIsNewest'
  BY <1>1, <1>2 DEF HolderIsNewest
<1> QED
  BY <1>3, <1>4, <1>5 DEF Fencing, FenceKept

-----------------------------------------------------------------------------
(* The steps of the composition.                                           *)

\* What a change of phase does to the step executions.
LEMMA PhaseChanged ==
    ASSUME LockStepsTypeOK, NEW s \in Step, NEW phase \in Phase, goTo(s, phase)
    PROVE  /\ steps' \in [Step -> [phase : Phase, token : Nat]]
           /\ \A t \in Step : steps'[t].token = steps[t].token
BY DEF goTo, LockStepsTypeOK

LEMMA DelayedRequest ==
    ASSUME LockStepsTypeOK, NEW r \in Run, NEW kind \in {"acquire", "release"}, Delayed(kind, r)
    PROVE  late' \subseteq LateRequest
BY DEF Delayed, LockStepsTypeOK, LateRequest

LEMMA ReleaseStep ==
    ASSUME TypeOK, NEW r \in Run, releaseLock(r)
    PROVE  FleetLockTypeOK' /\ Quiet /\ EndedKept /\ late' \subseteq LateRequest
<1>1. FleetLockTypeOK /\ LockStepsTypeOK /\ late \subseteq LateRequest
  BY DEF TypeOK, LockStepsTypeOK
<1>2. CASE handleCrossTenantLockRelease(r) /\ UNCHANGED late
  BY <1>1, <1>2, ReleaseTable
<1>3. CASE UNCHANGED <<tableVars, late>>
  BY <1>1, <1>3, TableUnchanged
<1>4. CASE Delayed("release", r) /\ UNCHANGED tableVars
  BY <1>1, <1>4, TableUnchanged, DelayedRequest
<1> QED
  BY <1>2, <1>3, <1>4 DEF releaseLock

\* onResume takes a step's token away, or leaves it.
LEMMA ResumeStep ==
    ASSUME LockStepsTypeOK, NEW r \in Run, onResume(r)
    PROVE  /\ steps' \in [Step -> [phase : Phase, token : Nat]]
           /\ \A s \in Step : steps'[s].token \in {0, steps[s].token}
<1>1. steps \in [Step -> [phase : Phase, token : Nat]]
  BY DEF LockStepsTypeOK
<1> DEFINE held(s)  == [steps[s] EXCEPT !.phase = "confirming"]
           ended(s) == [steps[s] EXCEPT !.phase = "unfenced"]
           lost     == [phase |-> "polling", token |-> 0]
<1>2. \A s \in Step : /\ held(s) \in [phase : Phase, token : Nat] /\ held(s).token = steps[s].token
                      /\ ended(s) \in [phase : Phase, token : Nat] /\ ended(s).token = steps[s].token
  BY <1>1 DEF Phase
<1>3. lost \in [phase : Phase, token : Nat] /\ lost.token = 0
  BY DEF Phase
<1>4. PICK f : /\ steps' = [s \in Step |-> f[s]]
               /\ \A s \in Step : f[s] = steps[s] \/ f[s] = held(s) \/ f[s] = ended(s) \/ f[s] = lost
  <2>1. CASE \E E \in SUBSET {s \in Step : steps[s].phase = "ending"} :
               steps' = [s \in Step |->
                  IF RunOf[s] = r /\ steps[s].phase \in {"body", "ending"}
                  THEN [steps[s] EXCEPT !.phase = IF s \in E THEN "unfenced" ELSE "confirming"]
                  ELSE steps[s]]
    BY <2>1
  <2>2. CASE steps' = [s \in Step |->
               IF RunOf[s] = r /\ steps[s].phase \in {"body", "ending", "unfenced", "confirming"}
               THEN lost ELSE steps[s]]
    BY <2>2
  <2> QED
    BY <2>1, <2>2 DEF onResume
<1> HIDE DEF held, ended, lost
<1>5. \A s \in Step : /\ f[s] \in [phase : Phase, token : Nat]
                      /\ f[s].token = 0 \/ f[s].token = steps[s].token
  BY <1>1, <1>2, <1>3, <1>4
<1> QED
  BY <1>4, <1>5

\* Every action of a step execution.
LEMMA StepActions ==
    ASSUME Fencing, NEW s \in Step,
           \/ start(s) \/ attemptAcquire(s) \/ acquireFails(s) \/ giveUp(s)
           \/ renew(s) \/ confirmHoldAfterResume(s) \/ finish(s)
    PROVE  Fencing' /\ EndedKept /\ FenceKept
<1> DEFINE r == RunOf[s]
           SV == [phase : Phase, token : Nat]
<1>1. /\ r \in Run /\ FleetLockTypeOK /\ LockStepsTypeOK /\ TypeOK
      /\ late \subseteq LateRequest /\ steps \in [Step -> SV]
  BY LockStepsAssumption DEF LockStepsAssumption, Fencing, TypeOK, LockStepsTypeOK
<1>2. UNCHANGED <<at, up, finished>>
  BY DEF start, attemptAcquire, acquireFails, giveUp, renew, confirmHoldAfterResume, finish
<1>3. ASSUME FleetLockTypeOK', Quiet, EndedKept, late' \subseteq LateRequest,
             steps' \in [Step -> SV],
             \A t \in Step : steps'[t].token = steps[t].token
      PROVE  Fencing' /\ EndedKept /\ FenceKept
  <2>1. TypeOK'
    BY <1>1, <1>2, <1>3 DEF TypeOK, LockStepsTypeOK
  <2> QED
    BY <1>3, <2>1, QuietFencing
<1>4. ASSUME NEW phase \in Phase, goTo(s, phase)
      PROVE  steps' \in [Step -> SV] /\ \A t \in Step : steps'[t].token = steps[t].token
  BY <1>1, <1>4, PhaseChanged
<1>5. \A phase \in {"polling", "body", "ending", "done"} : phase \in Phase
  BY DEF Phase
<1> HIDE DEF r, SV
<1>6. CASE start(s)
  BY <1>1, <1>3, <1>4, <1>5, <1>6, TableUnchanged DEF start
<1>7. CASE releaseLock(r) /\ goTo(s, "done")
  BY <1>1, <1>3, <1>4, <1>5, <1>7, ReleaseStep
<1>8. ASSUME NEW a \in Answers, acquireFleetLock(r, a), UNCHANGED late,
             steps' = IF a.state = "held"
                      THEN [steps EXCEPT ![s] = [phase |-> "body", token |-> a.token]]
                      ELSE steps
      PROVE  Fencing' /\ EndedKept /\ FenceKept
  <2>1. /\ FleetLockTypeOK' /\ EndedKept
        /\ \/ Quiet /\ a.state # "held"
           \/ Granted(r) /\ a.token = fence'
    BY <1>1, <1>8, AcquireTable
  <2>2. CASE a.state # "held" /\ Quiet
    BY <1>1, <1>3, <1>8, <2>1, <2>2
  <2>3. CASE Granted(r) /\ a.token = fence'
    <3>1. [phase |-> "body", token |-> fence'] \in SV
      BY <1>5, <2>1 DEF FleetLockTypeOK, SV
    <3>2. /\ steps' \in [Step -> SV]
          /\ \A t \in Step : \/ steps'[t].token = steps[t].token
                             \/ t = s /\ steps'[t].token = fence'
      BY <1>1, <1>8, <2>3, <3>1 DEF SV
    <3>3. TypeOK'
      BY <1>1, <1>2, <1>8, <2>1, <3>2 DEF TypeOK, LockStepsTypeOK, SV
    <3>4. \A t \in Step : \/ steps'[t].token = steps[t].token
                          \/ RunOf[t] = r /\ steps'[t].token = fence'
      BY <3>2 DEF r
    <3> QED
      BY <1>1, <2>1, <2>3, <3>3, <3>4, GrantFencing
  <2> QED
    BY <2>1, <2>2, <2>3
<1>9. CASE attemptAcquire(s)
  BY <1>7, <1>8, <1>9 DEF attemptAcquire, r
<1>10. ASSUME NEW a \in Answers, acquireFleetLock(r, a), UNCHANGED late, goTo(s, "done")
       PROVE  Fencing' /\ EndedKept /\ FenceKept
  <2>1. FleetLockTypeOK' /\ EndedKept /\ (Quiet \/ Granted(r))
    BY <1>1, <1>10, AcquireTable
  <2>2. steps' \in [Step -> SV] /\ \A t \in Step : steps'[t].token = steps[t].token
    BY <1>4, <1>5, <1>10
  <2>3. CASE Quiet
    BY <1>1, <1>3, <1>10, <2>1, <2>2, <2>3
  <2>4. CASE Granted(r)
    <3>1. TypeOK'
      BY <1>1, <1>2, <1>10, <2>1, <2>2 DEF TypeOK, LockStepsTypeOK, SV
    <3> QED
      BY <1>1, <2>1, <2>2, <2>4, <3>1, GrantFencing
  <2> QED
    BY <2>1, <2>3, <2>4
<1>11. CASE acquireFails(s)
  <2>1. CASE UNCHANGED tableVars /\ UNCHANGED late /\ goTo(s, "done")
    BY <1>1, <1>3, <1>4, <1>5, <2>1, TableUnchanged
  <2>2. CASE Delayed("acquire", r) /\ UNCHANGED tableVars /\ goTo(s, "done")
    BY <1>1, <1>3, <1>4, <1>5, <2>2, TableUnchanged, DelayedRequest
  <2> QED
    BY <1>10, <1>11, <2>1, <2>2 DEF acquireFails, r
<1>12. CASE giveUp(s) \/ finish(s)
  <2>1. CASE handleCrossTenantLockRelease(r) /\ Delayed("acquire", r) /\ goTo(s, "done")
    BY <1>1, <1>3, <1>4, <1>5, <2>1, ReleaseTable, DelayedRequest
  <2> QED
    BY <1>7, <1>12, <2>1 DEF giveUp, finish, r
<1>13. ASSUME NEW a \in Answers, renewFleetLockRow(r, a), UNCHANGED late,
              (\E phase \in {"body", "ending"} : goTo(s, phase)) \/ UNCHANGED steps
       PROVE  Fencing' /\ EndedKept /\ FenceKept
  <2>1. FleetLockTypeOK' /\ Quiet /\ EndedKept
    BY <1>1, <1>13, RenewTable
  <2>2. steps' \in [Step -> SV] /\ \A t \in Step : steps'[t].token = steps[t].token
    BY <1>1, <1>4, <1>5, <1>13
  <2> QED
    BY <1>1, <1>3, <1>13, <2>1, <2>2
<1>14. ASSUME UNCHANGED tableVars, UNCHANGED late, goTo(s, "ending")
       PROVE  Fencing' /\ EndedKept /\ FenceKept
  BY <1>1, <1>3, <1>4, <1>5, <1>14, TableUnchanged
<1>15. CASE renew(s)
  BY <1>13, <1>14, <1>15 DEF renew, r
<1>16. CASE confirmHoldAfterResume(s)
  BY <1>13, <1>14, <1>16 DEF confirmHoldAfterResume, r
<1> QED
  BY <1>6, <1>9, <1>11, <1>12, <1>15, <1>16

\* The actions of the runs, the cells, the recorder and the delayed requests.
LEMMA OtherActions ==
    ASSUME Fencing,
           \/ \E r \in Run : \/ restart(r) \/ takeover(r) \/ runEnds(r) \/ completed(r)
                             \/ expires(r) \/ interrupted(r) \/ releases(r)
           \/ \E i \in Instance : podDies(i) \/ announces(i)
           \/ \E q \in late : handleLate(q)
           \/ movesInterrupted
           \/ sweeps
           \/ UNCHANGED vars
    PROVE  Fencing' /\ EndedKept /\ FenceKept
<1> DEFINE SV == [phase : Phase, token : Nat]
<1>1. /\ FleetLockTypeOK /\ LockStepsTypeOK /\ TypeOK /\ late \subseteq LateRequest
      /\ steps \in [Step -> SV] /\ at \in [Run -> Instance] /\ up \subseteq Instance
      /\ finished \subseteq Run
  BY DEF Fencing, TypeOK, LockStepsTypeOK
<1>2. ASSUME FleetLockTypeOK', Quiet, EndedKept, LockStepsTypeOK',
             \A t \in Step : steps'[t].token \in {0, steps[t].token}
      PROVE  Fencing' /\ EndedKept /\ FenceKept
  <2>1. TypeOK'
    BY <1>2 DEF TypeOK
  <2> QED
    BY <1>2, <2>1, QuietFencing
<1>3. ASSUME FleetLockTypeOK', Quiet, EndedKept, UNCHANGED steps, LockStepsTypeOK'
      PROVE  Fencing' /\ EndedKept /\ FenceKept
  BY <1>2, <1>3
<1>4. UNCHANGED stepVars => UNCHANGED steps /\ LockStepsTypeOK'
  BY <1>1 DEF stepVars, LockStepsTypeOK
<1> HIDE DEF SV
<1>5. ASSUME NEW r \in Run, restart(r) PROVE Fencing' /\ EndedKept /\ FenceKept
  <2>1. /\ steps' \in [Step -> SV]
        /\ \A s \in Step : steps'[s].token \in {0, steps[s].token}
    BY <1>1, <1>5, ResumeStep DEF restart, SV
  <2>2. LockStepsTypeOK'
    BY <1>1, <1>5, <2>1 DEF restart, LockStepsTypeOK, SV
  <2> QED
    BY <1>1, <1>2, <1>5, <2>1, <2>2, TableUnchanged DEF restart
<1>6. ASSUME NEW r \in Run, takeover(r) PROVE Fencing' /\ EndedKept /\ FenceKept
  <2>1. /\ steps' \in [Step -> SV]
        /\ \A s \in Step : steps'[s].token \in {0, steps[s].token}
    BY <1>1, <1>6, ResumeStep DEF takeover, SV
  <2>2. at[r] \in Instance /\ home[r] \in Instance
    BY <1>1 DEF FleetLockTypeOK
  <2>3. LockStepsTypeOK'
    BY <1>1, <1>6, <2>1, <2>2 DEF takeover, LockStepsTypeOK, SV
  <2>4. FleetLockTypeOK' /\ Quiet /\ EndedKept
    BY <1>1, <1>6, <2>2, PlacementTable DEF takeover
  <2> QED
    BY <1>2, <2>1, <2>3, <2>4
<1>7. ASSUME NEW r \in Run, runEnds(r) PROVE Fencing' /\ EndedKept /\ FenceKept
  <2>1. UNCHANGED steps /\ LockStepsTypeOK'
    BY <1>1, <1>7 DEF runEnds, LockStepsTypeOK
  <2> QED
    BY <1>1, <1>3, <1>7, <2>1, TableUnchanged DEF runEnds
<1>8. ASSUME NEW r \in Run, completed(r) \/ interrupted(r) PROVE Fencing' /\ EndedKept /\ FenceKept
  BY <1>1, <1>3, <1>4, <1>8, EventTable DEF completed, interrupted
<1>9. ASSUME NEW r \in Run, expires(r) PROVE Fencing' /\ EndedKept /\ FenceKept
  BY <1>1, <1>3, <1>4, <1>9, RenewTable DEF expires
<1>10. ASSUME NEW r \in Run, releases(r) PROVE Fencing' /\ EndedKept /\ FenceKept
  BY <1>1, <1>3, <1>4, <1>10, ReleaseTable DEF releases
<1>11. ASSUME NEW i \in Instance, podDies(i) PROVE Fencing' /\ EndedKept /\ FenceKept
  <2>1. UNCHANGED steps /\ LockStepsTypeOK'
    BY <1>1, <1>11 DEF podDies, LockStepsTypeOK
  <2> QED
    BY <1>1, <1>3, <1>11, <2>1, TableUnchanged DEF podDies
<1>12. ASSUME NEW i \in Instance, announces(i) PROVE Fencing' /\ EndedKept /\ FenceKept
  <2>1. CASE \E r \in Run : announceHome(r, i)
    BY <1>1, <1>3, <1>4, <1>12, <2>1, PlacementTable DEF announces
  <2>2. CASE announceGone(i)
    <3>1. FleetLockTypeOK' /\ Quiet /\ EndedKept
      BY <1>1, <2>2 DEF announceGone, FleetLockTypeOK, Quiet, NoNewHold, EndedKept,
                        EndedRunHoldsNothing
    <3> QED
      BY <1>3, <1>4, <1>12, <3>1 DEF announces
  <2> QED
    BY <1>12, <2>1, <2>2 DEF announces
<1>13. ASSUME NEW q \in late, handleLate(q) PROVE Fencing' /\ EndedKept /\ FenceKept
  <2>1. q.run \in Run
    BY <1>1 DEF LateRequest
  <2>2. UNCHANGED steps /\ LockStepsTypeOK'
    BY <1>1, <1>13 DEF handleLate, LockStepsTypeOK
  <2>3. CASE handleCrossTenantLockRelease(q.run)
    BY <1>1, <1>3, <2>1, <2>2, <2>3, ReleaseTable
  <2>4. CASE UNCHANGED tableVars
    BY <1>1, <1>3, <2>2, <2>4, TableUnchanged
  <2>5. ASSUME NEW a \in Answers, acquireFleetLock(q.run, a)
        PROVE  Fencing' /\ EndedKept /\ FenceKept
    <3>1. FleetLockTypeOK' /\ EndedKept /\ (Quiet \/ Granted(q.run))
      BY <1>1, <2>1, <2>5, AcquireTable
    <3>2. TypeOK'
      BY <2>2, <3>1 DEF TypeOK
    <3> QED
      BY <1>3, <2>1, <2>2, <3>1, <3>2, GrantFencing
  <2> QED
    BY <1>13, <2>3, <2>4, <2>5 DEF handleLate
<1>14. ASSUME movesInterrupted \/ sweeps PROVE Fencing' /\ EndedKept /\ FenceKept
  BY <1>1, <1>3, <1>4, <1>14, RoundTable DEF movesInterrupted, sweeps
<1>15. ASSUME UNCHANGED vars PROVE Fencing' /\ EndedKept /\ FenceKept
  BY <1>1, <1>3, <1>4, <1>15, TableUnchanged DEF vars
<1> QED
  BY <1>5, <1>6, <1>7, <1>8, <1>9, <1>10, <1>11, <1>12, <1>13, <1>14, <1>15

LEMMA StepKeepsFencing ==
    ASSUME Fencing, [Next]_vars
    PROVE  Fencing' /\ EndedKept /\ FenceKept
BY StepActions, OtherActions DEF Next

LEMMA InitFencing == Init => Fencing /\ EndedRunHoldsNothing
<1> SUFFICES ASSUME Init PROVE Fencing /\ EndedRunHoldsNothing
  OBVIOUS
<1>1. /\ NoRow \in Row /\ NoRow.state = "none"
      /\ [phase |-> "idle", token |-> 0] \in [phase : Phase, token : Nat]
  BY DEF NoRow, Row, Phase
<1>2. TypeOK
  BY <1>1, LockStepsAssumption
     DEF Init, FleetLockInit, TypeOK, FleetLockTypeOK, LockStepsTypeOK, RunState, LockStepsAssumption
<1>3. /\ \A r \in Run : ~Holds(r) /\ rows[r].state = "none"
      /\ fence = 0 /\ \A s \in Step : steps[s].token = 0
  BY <1>1 DEF Init, FleetLockInit, Holds
<1> QED
  BY <1>2, <1>3 DEF Fencing, OneHolder, TokensIssued, HolderIsNewest, EndedRunHoldsNothing

\* Every row of the lock and every step execution has its type.
THEOREM LockTypeCorrect == Spec => []TypeOK
<1>1. Fencing /\ [Next]_vars => Fencing'
  BY StepKeepsFencing
<1>2. Fencing => TypeOK
  BY DEF Fencing
<1> QED
  BY <1>1, <1>2, InitFencing, PTL DEF Spec

\* Whoever holds the fleet lock has a token above that of every other step that
\* was ever granted it and still runs: acquireFleetLock takes the tokens from
\* one sequence and promotes a row only beside no held or releasing row.
THEOREM FencingOrder == Spec => []HolderIsNewest
<1>1. Fencing /\ [Next]_vars => Fencing'
  BY StepKeepsFencing
<1>2. Fencing => HolderIsNewest
  BY DEF Fencing
<1> QED
  BY <1>1, <1>2, InitFencing, PTL DEF Spec

\* A run whose completion was ingested leaves no row behind, whatever acquire of
\* it is still in transit.
THEOREM EndedRunsHoldNothing == Spec => []EndedRunHoldsNothing
<1>1. Fencing /\ EndedRunHoldsNothing /\ [Next]_vars => Fencing' /\ EndedRunHoldsNothing'
  BY StepKeepsFencing DEF EndedKept
<1> QED
  BY <1>1, InitFencing, PTL DEF Spec

\* A step that keeps the fence is a grant of the fenced lock, or an end.
LEMMA FenceRefines ==
    ASSUME Fencing, FenceKept
    PROVE  Fenced!Next
<1> DEFINE tokens == [s \in Step |-> steps[s].token]
<1>1. \A s \in Step : tokens[s] = steps[s].token /\ tokens'[s] = steps'[s].token
  OBVIOUS
<1>2. CASE Quiet /\ \A s \in Step : steps'[s].token \in {0, steps[s].token}
  <2>1. fence' = fence /\ Hold' \subseteq Hold
    BY <1>2 DEF Quiet, NoNewHold, Hold, Holds
  <2>2. PICK S \in SUBSET Step : S = {s \in Step : steps'[s].token # steps[s].token}
    OBVIOUS
  <2>3. tokens' = [s \in Step |-> IF s \in S THEN 0 ELSE tokens[s]]
    BY <1>2, <2>2
  <2>4. Fenced!End
    BY <2>1, <2>3 DEF Fenced!End
  <2> QED
    BY <2>4 DEF Fenced!Next
<1>3. ASSUME NEW r \in Run, Granted(r),
             \A s \in Step : \/ steps'[s].token = steps[s].token
                             \/ RunOf[s] = r /\ steps'[s].token = fence'
      PROVE  Fenced!Next
  <2>1. /\ fence' = fence + 1
        /\ Holds(r)' /\ rows'[r].token = fence'
        /\ \A q \in Run : Holds(q)' => q = r
    BY <1>3 DEF Granted, Holds
  <2>2. Hold' = {[run |-> r, token |-> fence + 1]}
    BY <2>1 DEF Hold
  <2>3. PICK S \in SUBSET {s \in Step : RunOf[s] = r} :
           S = {s \in Step : steps'[s].token # steps[s].token}
    BY <1>3
  <2>4. tokens' = [s \in Step |-> IF s \in S THEN fence + 1 ELSE tokens[s]]
    BY <1>3, <2>1, <2>3
  <2>5. Fenced!Grant(r)
    BY <2>1, <2>2, <2>4 DEF Fenced!Grant
  <2> QED
    BY <2>5 DEF Fenced!Next
<1> QED
  BY <1>2, <1>3 DEF FenceKept

\* Under every fault, with any number of steps of a run, delayed requests and forced releases,
\* the fleet lock is a fenced lock: no promotion leaves another hold beside it, takes an old token
\* or hands its token to a step of another run (acquireFleetLock, attemptAcquire).
THEOREM LockImplementsFencedLock == Spec => LockIsFenced
<1>1. Init => Fenced!Init
  <2> SUFFICES ASSUME Init PROVE Fenced!Init
    OBVIOUS
  <2>1. \A r \in Run : ~Holds(r)
    BY DEF Init, FleetLockInit, Holds, NoRow
  <2>2. Hold = {}
    BY <2>1 DEF Hold
  <2> QED
    BY <2>2 DEF Init, FleetLockInit, Fenced!Init
<1>2. Fencing /\ [Next]_vars => Fencing' /\ [Fenced!Next]_(Fenced!vars)
  BY StepKeepsFencing, FenceRefines
<1> QED
  BY <1>1, <1>2, InitFencing, PTL DEF Spec, LockIsFenced, Fenced!Spec

-----------------------------------------------------------------------------
(* Exclusion, and what an interrupted holder keeps.                        *)

\* Nothing hides a live pod, no administrator forces, runs are granted on their homes, and no
\* request is delayed.
NothingHidden ==
    /\ "partition" \notin Faults /\ "force" \notin Faults /\ "member" \notin Faults
    /\ MaxLate = 0

\* A run has one step on the lock: the requests name the run, and a second step of it would release
\* the lock of the first.
RunsHaveOneStep == \A s, t \in Step : RunOf[s] = RunOf[t] => s = t

isHold(row) == row.state \in {"held", "releasing"}

\* The hold of a row with a lease goes on as row u.
keeps(t, u) == isHold(u) /\ ~u.expired /\ u.token = t.token

\* From table t to u no hold is new or moves, a hold with a lease stays, and so does a releasing row.
Sound(t, u) ==
    \A q \in Run :
       /\ isHold(u[q]) => isHold(t[q]) /\ u[q].inst = t[q].inst
       /\ isHold(t[q]) /\ ~t[q].expired => keeps(t[q], u[q])
       /\ t[q].state = "releasing" => u[q].state = "releasing"

LEMMA SoundTransitive ==
    ASSUME NEW t, NEW u, NEW v, Sound(t, u), Sound(u, v)
    PROVE  Sound(t, v)
BY DEF Sound, keeps

LEMMA MoveSound ==
    ASSUME NEW t \in Table
    PROVE  /\ Sound(t, moveInterruptedHoldersToReleasing(t))
           /\ \A q \in Run : isHold(t[q]) /\ run[q] = "INTERRUPTED"
                 => moveInterruptedHoldersToReleasing(t)[q].state = "releasing"
<1> DEFINE u == moveInterruptedHoldersToReleasing(t)
<1>1. \A q \in Run : /\ u[q].inst = t[q].inst /\ u[q].expired = t[q].expired
                     /\ u[q].token = t[q].token
                     /\ u[q].state = IF t[q].state = "held" /\ run[q] = "INTERRUPTED"
                                     THEN "releasing" ELSE t[q].state
  BY DEF moveInterruptedHoldersToReleasing, Table, Row
<1> HIDE DEF u
<1> QED
  BY <1>1 DEF Sound, isHold, keeps, u

\* What a delete leaves of a row.
LEMMA WithoutRow ==
    ASSUME NEW t \in Table, NEW R, NEW q \in Run
    PROVE  IF q \in R THEN without(t, R)[q].state = "none"
           ELSE /\ without(t, R)[q].state = t[q].state
                /\ without(t, R)[q].inst = t[q].inst
                /\ without(t, R)[q].expired = t[q].expired
                /\ without(t, R)[q].token = t[q].token
BY DEF without, NoRow, Table, Row

LEMMA DeleteSound ==
    ASSUME NEW t \in Table
    PROVE  Sound(t, deleteExpiredFleetLockRows(t))
<1> DEFINE R == {r \in Run : t[r].expired /\ t[r].state # "releasing"}
           u == without(t, R)
<1>1. \A q \in Run : IF q \in R THEN u[q].state = "none"
                     ELSE /\ u[q].state = t[q].state /\ u[q].inst = t[q].inst
                          /\ u[q].expired = t[q].expired /\ u[q].token = t[q].token
  BY WithoutRow
<1>2. \A q \in Run : q \in R <=> t[q].expired /\ t[q].state # "releasing"
  OBVIOUS
<1>3. deleteExpiredFleetLockRows(t) = u
  BY DEF deleteExpiredFleetLockRows
<1> HIDE DEF R, u
<1>4. ASSUME NEW q \in Run
      PROVE  /\ isHold(u[q]) => isHold(t[q]) /\ u[q].inst = t[q].inst
             /\ isHold(t[q]) /\ ~t[q].expired => keeps(t[q], u[q])
             /\ t[q].state = "releasing" => u[q].state = "releasing"
  BY <1>1, <1>2 DEF isHold, keeps
<1> QED
  BY <1>3, <1>4 DEF Sound

\* What setting a lease anew, or its end, leaves of the rows.
LEMMA LeaseRow ==
    ASSUME NEW t \in Table, NEW r \in Run, NEW q \in Run
    PROVE  /\ refreshed(t, r)[q].state = t[q].state /\ outrun(t, r)[q].state = t[q].state
           /\ refreshed(t, r)[q].inst = t[q].inst /\ outrun(t, r)[q].inst = t[q].inst
           /\ refreshed(t, r)[q].token = t[q].token
           /\ q # r => outrun(t, r)[q] = t[q] /\ refreshed(t, r)[q] = t[q]
           /\ refreshed(t, r)[r].expired = FALSE
BY DEF refreshed, outrun, Table, Row

LEMMA InsertSound ==
    ASSUME NEW t \in Table, NEW r \in Run
    PROVE  Sound(t, insertWaitingFleetLockRow(t, r)) /\ ~insertWaitingFleetLockRow(t, r)[r].expired
<1> DEFINE u == insertWaitingFleetLockRow(t, r)
           new == [NoRow EXCEPT !.state = "waiting",
                                !.ahead = {s \in Run : t[s].state # "none"}]
<1>1. new.state = "waiting" /\ new.expired = FALSE
  BY DEF NoRow
<1>2. CASE t[r].state = "none"
  <2>1. u = [t EXCEPT ![r] = new]
    BY <1>2 DEF insertWaitingFleetLockRow
  <2> HIDE DEF u, new
  <2>2. u[r] = new /\ \A q \in Run : q # r => u[q] = t[q]
    BY <2>1 DEF Table
  <2> QED
    BY <2>2, <1>1, <1>2 DEF Sound, isHold, keeps, u
<1>3. CASE t[r].state # "none"
  <2>1. u = refreshed(t, r)
    BY <1>3 DEF insertWaitingFleetLockRow
  <2> HIDE DEF u
  <2>2. \A q \in Run : /\ u[q].state = t[q].state /\ u[q].inst = t[q].inst /\ u[q].token = t[q].token
                       /\ q # r => u[q] = t[q]
    BY <2>1, LeaseRow
  <2>3. u[r].expired = FALSE
    BY <2>1, LeaseRow
  <2> QED
    BY <2>2, <2>3 DEF Sound, isHold, keeps, u
<1> QED
  BY <1>2, <1>3

\* Steps 1 to 3 of an acquire, and the rounds of the recorder.
LEMMA PreparedSound ==
    ASSUME FleetLockTypeOK, NEW r \in Run
    PROVE  /\ Sound(rows, prepared(r))
           /\ ~prepared(r)[r].expired
           /\ \A q \in Run : isHold(rows[q]) /\ run[q] = "INTERRUPTED"
                                => prepared(r)[q].state = "releasing"
<1> DEFINE m == moveInterruptedHoldersToReleasing(rows)
           d == deleteExpiredFleetLockRows(m)
<1>1. rows \in Table
  BY DEF FleetLockTypeOK, Table
<1>2. /\ m \in Table /\ Sound(rows, m)
      /\ \A q \in Run : isHold(rows[q]) /\ run[q] = "INTERRUPTED" => m[q].state = "releasing"
  BY <1>1, MoveTable, MoveSound
<1>3. d \in Table /\ Sound(m, d)
  BY <1>2, DeleteTable, DeleteSound
<1>4. prepared(r) = insertWaitingFleetLockRow(d, r)
  BY DEF prepared
<1> HIDE DEF m, d
<1>5. Sound(d, prepared(r)) /\ ~prepared(r)[r].expired
  BY <1>3, <1>4, InsertSound
<1>6. Sound(m, prepared(r))
  BY <1>3, <1>5, SoundTransitive
<1>7. Sound(rows, prepared(r))
  BY <1>2, <1>6, SoundTransitive
<1> QED
  BY <1>2, <1>5, <1>6, <1>7 DEF Sound

LEMMA RoundSound ==
    ASSUME FleetLockTypeOK, moveInterruptedFleetLockHolders \/ sweepFleetLocks
    PROVE  /\ Sound(rows, rows')
           /\ \A q \in Run : isHold(rows[q]) /\ run[q] = "INTERRUPTED" => rows'[q].state = "releasing"
<1> DEFINE m == moveInterruptedHoldersToReleasing(rows)
           d == deleteExpiredFleetLockRows(m)
<1>1. rows \in Table
  BY DEF FleetLockTypeOK, Table
<1>2. /\ m \in Table /\ Sound(rows, m)
      /\ \A q \in Run : isHold(rows[q]) /\ run[q] = "INTERRUPTED" => m[q].state = "releasing"
  BY <1>1, MoveTable, MoveSound
<1>3. Sound(m, d)
  BY <1>2, DeleteSound
<1>4. rows' = m \/ rows' = d
  BY DEF moveInterruptedFleetLockHolders, sweepFleetLocks
<1> HIDE DEF m, d
<1>5. Sound(rows, d)
  BY <1>2, <1>3, SoundTransitive
<1> QED
  BY <1>2, <1>3, <1>4, <1>5 DEF Sound

\* What an acquire of run r does to the holds: a promotion finds none, and r then holds at home.
LEMMA AcquireSound ==
    ASSUME FleetLockTypeOK, NEW r \in Run, NEW a, acquireFleetLock(r, a)
    PROVE  /\ UNCHANGED <<run, home, gone>>
           /\ \A q \in Run :
                /\ isHold(rows[q]) /\ ~rows[q].expired => keeps(rows[q], rows'[q])
                /\ isHold(rows'[q]) => \/ isHold(rows[q]) /\ rows'[q].inst = rows[q].inst
                                       \/ q = r /\ rows'[q].inst = home[r]
                /\ isHold(rows[q]) /\ run[q] = "INTERRUPTED" => rows'[q].state # "none"
           /\ a.state = "held" => isHold(rows'[r]) /\ ~rows'[r].expired /\ rows'[r].token = a.token
<1> DEFINE t == prepared(r)
<1>1. t \in Table
  BY PreparedTable
<1>2. /\ Sound(rows, t) /\ ~t[r].expired
      /\ \A q \in Run : isHold(rows[q]) /\ run[q] = "INTERRUPTED" => t[q].state = "releasing"
  BY PreparedSound
<1>3. CASE promote(r, a)
  <2> DEFINE row == [t[r] EXCEPT !.state = "held", !.token = fence', !.inst = home[r]]
  <2>1. rows' = [t EXCEPT ![r] = row] /\ UNCHANGED <<run, home, gone>> /\ a.token = fence'
    BY <1>3 DEF promote, Answer
  <2>2. \A q \in Run : ~isHold(t[q])
    BY <1>3 DEF promote, promotable, occupied, isHold
  <2>3. row.state = "held" /\ row.inst = home[r] /\ row.expired = t[r].expired /\ row.token = fence'
    <3>1. t[r] \in Row
      BY <1>1 DEF Table
    <3> HIDE DEF t
    <3> QED
      BY <3>1 DEF Row
  <2> HIDE DEF t, row
  <2>4. rows'[r] = row /\ \A q \in Run : q # r => rows'[q] = t[q]
    BY <1>1, <2>1 DEF Table
  <2>5. \A q \in Run : /\ ~(isHold(rows[q]) /\ ~rows[q].expired)
                       /\ ~(isHold(rows[q]) /\ run[q] = "INTERRUPTED")
    BY <1>2, <2>2 DEF Sound, isHold, keeps
  <2> QED
    BY <1>2, <2>1, <2>2, <2>3, <2>4, <2>5 DEF isHold, keeps
<1>4. CASE rows' = t /\ a = Answer("waiting", 0) /\ UNCHANGED <<fence, run, home, gone>>
  <2> HIDE DEF t
  <2>1. a.state = "waiting"
    BY <1>4 DEF Answer
  <2> QED
    BY <1>2, <1>4, <2>1 DEF Sound, isHold
<1>5. CASE UNCHANGED tableVars /\ (a = Answer("waiting", 0) \/ a = Answer("veto", 0))
  BY <1>5 DEF tableVars, Answer, isHold, keeps
<1> QED
  BY <1>3, <1>4, <1>5 DEF acquireFleetLock

LEMMA NoDelay ==
    ASSUME NothingHidden, late = {}, NEW kind, NEW r, Delayed(kind, r)
    PROVE  FALSE
BY FS_EmptySet DEF NothingHidden, Delayed

LEMMA GoTo ==
    ASSUME LockStepsTypeOK, NEW s \in Step, NEW phase, goTo(s, phase)
    PROVE  /\ steps'[s].phase = phase /\ steps'[s].token = steps[s].token
           /\ \A t \in Step : t # s => steps'[t] = steps[t]
BY DEF goTo, LockStepsTypeOK

\* No step of a run that resumes is in its body.
LEMMA ResumeBody ==
    ASSUME LockStepsTypeOK, NEW r \in Run, onResume(r), NEW s \in Step, steps'[s].phase = "body"
    PROVE  RunOf[s] # r /\ steps[s].phase = "body" /\ steps'[s] = steps[s]
BY DEF onResume, LockStepsTypeOK

\* The actions of a step execution.
LEMMA StepGuarded ==
    ASSUME NothingHidden, RunsHaveOneStep, TypeOK, Guarded, NEW s \in Step,
           \/ start(s) \/ attemptAcquire(s) \/ acquireFails(s) \/ giveUp(s)
           \/ renew(s) \/ confirmHoldAfterResume(s) \/ finish(s)
    PROVE  Guarded'
<1> DEFINE r == RunOf[s]
<1>0. /\ r \in Run /\ FleetLockTypeOK /\ LockStepsTypeOK /\ rows \in Table
      /\ \A t \in Step : RunOf[t] \in Run /\ (RunOf[t] = r => t = s)
  BY LockStepsAssumption DEF LockStepsAssumption, TypeOK, FleetLockTypeOK, Table, RunsHaveOneStep
<1>1. UNCHANGED <<at, up, finished>>
  BY DEF start, attemptAcquire, acquireFails, giveUp, renew, confirmHoldAfterResume, finish
<1>2. /\ late = {} /\ gone \cap up = {}
      /\ \A q \in Run : isHold(rows[q]) => rows[q].inst = at[q]
      /\ \A t \in Step : Running(t) /\ steps[t].phase = "body"
                           => keeps(steps[t], rows[RunOf[t]])
  BY DEF Guarded, HeldWhereItRuns, GoneIsDown, BodyHolds, Holds, isHold, keeps
<1>3. ASSUME late' = late, gone' = gone,
             \A q \in Run : isHold(rows'[q]) =>
                \/ isHold(rows[q]) /\ rows'[q].inst = rows[q].inst
                \/ rows'[q].inst = at[q],
             \A t \in Step : Running(t) /\ steps'[t].phase = "body"
                               => keeps(steps'[t], rows'[RunOf[t]])
      PROVE  Guarded'
  <2>1. \A t \in Step : Running(t)' <=> Running(t)
    BY <1>1 DEF Running
  <2> QED
    BY <1>1, <1>2, <1>3, <2>1 DEF Guarded, HeldWhereItRuns, GoneIsDown, BodyHolds, Holds, isHold, keeps
<1>4. ASSUME UNCHANGED tableVars, late' = late,
             \A t \in Step : steps'[t].phase = "body" => steps[t].phase = "body" /\ steps'[t] = steps[t]
      PROVE  Guarded'
  BY <1>2, <1>3, <1>4 DEF tableVars
<1>5. ASSUME NEW phase \in {"polling", "ending", "done"}, goTo(s, phase)
      PROVE  \A t \in Step : steps'[t].phase = "body" =>
                t # s /\ steps[t].phase = "body" /\ steps'[t] = steps[t]
  BY <1>0, <1>5, GoTo
<1> HIDE DEF r
<1>6. CASE start(s)
  BY <1>4, <1>5, <1>6 DEF start
<1>7. CASE releaseLock(r) /\ goTo(s, "done")
  <2>1. CASE handleCrossTenantLockRelease(r) /\ UNCHANGED late
    <3>1. rows' = without(rows, {r}) /\ gone' = gone
      BY <2>1 DEF handleCrossTenantLockRelease
    <3>2. \A q \in Run : IF q = r THEN ~isHold(rows'[q])
                         ELSE /\ rows'[q].state = rows[q].state /\ rows'[q].inst = rows[q].inst
                              /\ rows'[q].expired = rows[q].expired
                              /\ rows'[q].token = rows[q].token
      BY <1>0, <3>1, WithoutRow DEF isHold
    <3>3. \A q \in Run : isHold(rows'[q]) => isHold(rows[q]) /\ rows'[q].inst = rows[q].inst
      BY <3>2 DEF isHold
    <3>4. ASSUME NEW t \in Step, Running(t), steps'[t].phase = "body"
          PROVE  keeps(steps'[t], rows'[RunOf[t]])
      <4>1. t # s /\ steps[t].phase = "body" /\ steps'[t] = steps[t]
        BY <1>5, <1>7, <3>4
      <4>2. RunOf[t] # r /\ RunOf[t] \in Run
        BY <1>0, <4>1
      <4> QED
        BY <1>2, <3>2, <3>4, <4>1, <4>2 DEF isHold, keeps
    <3> QED
      BY <1>3, <2>1, <3>1, <3>3, <3>4
  <2>2. CASE UNCHANGED <<tableVars, late>>
    BY <1>4, <1>5, <1>7, <2>2
  <2> QED
    BY <1>2, <1>7, <2>1, <2>2, NoDelay DEF releaseLock
<1>8. ASSUME NEW a \in Answers, acquireFleetLock(r, a), UNCHANGED late, at[r] = home[r],
             \/ a.state = "held" /\ steps' = [steps EXCEPT ![s] = [phase |-> "body", token |-> a.token]]
             \/ UNCHANGED steps
             \/ goTo(s, "done")
      PROVE  Guarded'
  <2>1. /\ gone' = gone
        /\ \A q \in Run :
             /\ isHold(rows[q]) /\ ~rows[q].expired => keeps(rows[q], rows'[q])
             /\ isHold(rows'[q]) => \/ isHold(rows[q]) /\ rows'[q].inst = rows[q].inst
                                    \/ q = r /\ rows'[q].inst = home[r]
        /\ a.state = "held" => isHold(rows'[r]) /\ ~rows'[r].expired /\ rows'[r].token = a.token
    BY <1>0, <1>8, AcquireSound
  <2>2. \A t \in Step : steps'[t].phase = "body" =>
           \/ t = s /\ a.state = "held" /\ steps'[t].token = a.token
           \/ steps[t].phase = "body" /\ steps'[t] = steps[t]
    BY <1>0, <1>5, <1>8 DEF LockStepsTypeOK
  <2>3. ASSUME NEW t \in Step, Running(t), steps'[t].phase = "body"
        PROVE  keeps(steps'[t], rows'[RunOf[t]])
    <3>1. CASE t = s /\ a.state = "held" /\ steps'[t].token = a.token
      BY <2>1, <3>1 DEF r, keeps
    <3>2. CASE steps[t].phase = "body" /\ steps'[t] = steps[t]
      BY <1>0, <1>2, <2>1, <2>3, <3>2 DEF keeps
    <3> QED
      BY <2>2, <2>3, <3>1, <3>2
  <2> QED
    BY <1>3, <1>8, <2>1, <2>3
<1>9. CASE attemptAcquire(s)
  BY <1>7, <1>8, <1>9 DEF attemptAcquire, Admitted, NothingHidden, r
<1>10. CASE acquireFails(s)
  <2>1. CASE UNCHANGED tableVars /\ UNCHANGED late /\ goTo(s, "done")
    BY <1>4, <1>5, <2>1
  <2> QED
    BY <1>2, <1>8, <1>10, <2>1, NoDelay DEF acquireFails, Admitted, NothingHidden, r
<1>11. CASE giveUp(s) \/ finish(s)
  BY <1>2, <1>7, <1>11, NoDelay DEF giveUp, finish, r
<1>12. ASSUME NEW a \in Answers, renewFleetLockRow(r, a), UNCHANGED late,
              \/ goTo(s, "ending") \/ UNCHANGED steps
              \/ goTo(s, "body") /\ a.state = "held" /\ a.token = steps[s].token
       PROVE  Guarded'
  <2>1. /\ rows' = refreshed(rows, r) /\ gone' = gone
        /\ a.state = "held" => rows[r].state = "held" /\ rows[r].token = a.token
    BY <1>12 DEF renewFleetLockRow, Answer
  <2>2. ASSUME NEW q \in Run
        PROVE  /\ rows'[q].state = rows[q].state /\ rows'[q].inst = rows[q].inst
               /\ rows'[q].token = rows[q].token
               /\ q # r => rows'[q] = rows[q]
    <3>1. /\ refreshed(rows, r)[q].state = rows[q].state /\ refreshed(rows, r)[q].inst = rows[q].inst
          /\ refreshed(rows, r)[q].token = rows[q].token
          /\ q # r => refreshed(rows, r)[q] = rows[q]
      BY <1>0, LeaseRow
    <3> QED
      BY <2>1, <3>1
  <2>3. rows'[r].expired = FALSE
    BY <1>0, <2>1, LeaseRow
  <2>4. \A q \in Run : isHold(rows'[q]) => isHold(rows[q]) /\ rows'[q].inst = rows[q].inst
    BY <2>2 DEF isHold
  <2>5. ASSUME NEW t \in Step, Running(t), steps'[t].phase = "body"
        PROVE  keeps(steps'[t], rows'[RunOf[t]])
    <3>0. steps'[t].token = steps[t].token
      BY <1>0, <1>12, GoTo
    <3>1. CASE t = s /\ a.state = "held" /\ a.token = steps[s].token
      BY <1>0, <2>1, <2>2, <2>3, <3>0, <3>1 DEF isHold, keeps, r
    <3>2. CASE steps[t].phase = "body"
      BY <1>0, <1>2, <2>2, <2>3, <2>5, <3>0, <3>2 DEF isHold, keeps
    <3>3. steps[t].phase = "body" \/ (t = s /\ a.state = "held" /\ a.token = steps[s].token)
      BY <1>0, <1>5, <1>12, <2>5, GoTo
    <3> QED
      BY <3>1, <3>2, <3>3
  <2> QED
    BY <1>3, <1>12, <2>1, <2>4, <2>5
<1>13. ASSUME UNCHANGED tableVars, UNCHANGED late, goTo(s, "ending")
       PROVE  Guarded'
  BY <1>4, <1>5, <1>13
<1>14. CASE renew(s)
  BY <1>12, <1>13, <1>14 DEF renew, r
<1>15. CASE confirmHoldAfterResume(s)
  BY <1>12, <1>13, <1>15 DEF confirmHoldAfterResume, confirms, r
<1> QED
  BY <1>6, <1>9, <1>10, <1>11, <1>14, <1>15

\* The actions of the runs, the cells and the recorder.
LEMMA OtherGuarded ==
    ASSUME NothingHidden, TypeOK, Guarded,
           \/ \E r \in Run : \/ restart(r) \/ takeover(r) \/ runEnds(r) \/ completed(r)
                             \/ expires(r) \/ interrupted(r) \/ releases(r)
           \/ \E i \in Instance : podDies(i) \/ announces(i)
           \/ \E q \in late : handleLate(q)
           \/ movesInterrupted
           \/ sweeps
           \/ UNCHANGED vars
    PROVE  Guarded'
<1>0. /\ FleetLockTypeOK /\ LockStepsTypeOK /\ rows \in Table /\ at \in [Run -> Instance]
      /\ \A t \in Step : RunOf[t] \in Run
  BY LockStepsAssumption DEF LockStepsAssumption, TypeOK, FleetLockTypeOK, LockStepsTypeOK, Table
<1>1. /\ late = {} /\ gone \cap up = {}
      /\ \A q \in Run : isHold(rows[q]) => rows[q].inst = at[q]
      /\ \A t \in Step : Running(t) /\ steps[t].phase = "body"
                           => keeps(steps[t], rows[RunOf[t]])
  BY DEF Guarded, HeldWhereItRuns, GoneIsDown, BodyHolds, Holds, isHold, keeps
\* A step that leaves the rows of the runs with a running body, and moves no hold.
<1>2. ASSUME late' = late, up' \subseteq up, finished \subseteq finished', gone' \cap up' = {},
             UNCHANGED at,
             \A q \in Run : isHold(rows'[q]) => isHold(rows[q]) /\ rows'[q].inst = rows[q].inst,
             \A t \in Step : steps'[t].phase = "body" => steps[t].phase = "body" /\ steps'[t] = steps[t],
             \A t \in Step : /\ Running(t) /\ steps[t].phase = "body"
                             /\ keeps(steps[t], rows[RunOf[t]])
                             => keeps(steps[t], rows'[RunOf[t]])
      PROVE  Guarded'
  <2>1. \A t \in Step : Running(t)' => Running(t)
    BY <1>2 DEF Running
  <2>2. late' = {} /\ GoneIsDown'
    BY <1>1, <1>2 DEF GoneIsDown
  <2>3. HeldWhereItRuns'
    BY <1>1, <1>2 DEF HeldWhereItRuns, Holds, isHold, keeps
  <2>4. BodyHolds'
    BY <1>1, <1>2, <2>1 DEF BodyHolds, Holds, isHold, keeps
  <2> QED
    BY <2>2, <2>3, <2>4 DEF Guarded
\* ... and one that leaves the step executions too.
<1>3. ASSUME UNCHANGED stepVars, gone' = gone,
             \A q \in Run : isHold(rows'[q]) => isHold(rows[q]) /\ rows'[q].inst = rows[q].inst,
             \A t \in Step : /\ Running(t) /\ steps[t].phase = "body"
                             /\ keeps(steps[t], rows[RunOf[t]])
                             => keeps(steps[t], rows'[RunOf[t]])
      PROVE  Guarded'
  BY <1>1, <1>2, <1>3 DEF stepVars
<1>4. ASSUME UNCHANGED stepVars, NEW r \in Run, rows' = without(rows, {r}), gone' = gone,
             \A t \in Step : Running(t) /\ steps[t].phase = "body" => RunOf[t] # r
      PROVE  Guarded'
  <2>1. \A q \in Run : IF q = r THEN ~isHold(rows'[q])
                       ELSE /\ rows'[q].state = rows[q].state /\ rows'[q].inst = rows[q].inst
                            /\ rows'[q].expired = rows[q].expired
                            /\ rows'[q].token = rows[q].token
    BY <1>0, <1>4, WithoutRow DEF isHold
  <2>2. \A q \in Run : isHold(rows'[q]) => isHold(rows[q]) /\ rows'[q].inst = rows[q].inst
    BY <2>1 DEF isHold
  <2>3. \A t \in Step : /\ Running(t) /\ steps[t].phase = "body"
                        /\ keeps(steps[t], rows[RunOf[t]])
                        => keeps(steps[t], rows'[RunOf[t]])
    BY <1>0, <1>4, <2>1 DEF isHold, keeps
  <2> QED
    BY <1>3, <1>4, <2>2, <2>3
<1>5. ASSUME NEW r \in Run, restart(r) PROVE Guarded'
  <2>1. UNCHANGED <<rows, gone, at, up, finished, late>>
    BY <1>5 DEF restart, tableVars
  <2>2. \A t \in Step : steps'[t].phase = "body" => steps[t].phase = "body" /\ steps'[t] = steps[t]
    BY <1>0, <1>5, ResumeBody DEF restart
  <2> QED
    BY <1>1, <1>2, <2>1, <2>2
<1>6. ASSUME NEW r \in Run, takeover(r) PROVE Guarded'
  <2>1. /\ UNCHANGED <<gone, home, up, finished, late>> /\ at' = [at EXCEPT ![r] = home[r]]
        /\ rows' = IF rows[r].inst = at[r] THEN [rows EXCEPT ![r].inst = home[r]] ELSE rows
    BY <1>6 DEF takeover, moveLockOwner
  <2>2. at'[r] = home[r] /\ \A q \in Run : q # r => rows'[q] = rows[q] /\ at'[q] = at[q]
    BY <1>0, <2>1 DEF Table
  <2>3. /\ rows'[r].state = rows[r].state
        /\ rows[r].inst = at[r] => rows'[r].inst = home[r]
    BY <1>0, <2>1 DEF Table, Row
  <2>4. HeldWhereItRuns'
    BY <1>1, <2>2, <2>3 DEF HeldWhereItRuns, Holds, isHold, keeps
  <2>5. ASSUME NEW t \in Step, Running(t)', steps'[t].phase = "body"
        PROVE  keeps(steps'[t], rows'[RunOf[t]])
    <3>1. RunOf[t] # r /\ steps[t].phase = "body" /\ RunOf[t] \in Run /\ steps'[t] = steps[t]
      BY <1>0, <1>6, <2>5, ResumeBody DEF takeover
    <3>2. Running(t)
      BY <2>1, <2>2, <2>5, <3>1 DEF Running
    <3> QED
      BY <1>1, <2>2, <3>1, <3>2
  <2>6. BodyHolds'
    BY <2>5 DEF BodyHolds, Holds, isHold, keeps
  <2> QED
    BY <1>1, <2>1, <2>4, <2>6 DEF Guarded, GoneIsDown
<1>7. ASSUME NEW r \in Run, runEnds(r) PROVE Guarded'
  BY <1>1, <1>2, <1>7 DEF runEnds, tableVars
<1>8. ASSUME NEW r \in Run, completed(r) PROVE Guarded'
  BY <1>4, <1>8 DEF completed, deleteFleetLocksForRun, Running
<1>9. ASSUME NEW r \in Run, expires(r) PROVE Guarded'
  <2>1. /\ UNCHANGED stepVars /\ gone' = gone /\ rows' = outrun(rows, r) /\ ~attended(r)
    BY <1>9 DEF expires, leaseExpires, NothingHidden
  <2>2. ASSUME NEW q \in Run
        PROVE  /\ rows'[q].state = rows[q].state /\ rows'[q].inst = rows[q].inst
               /\ q # r => rows'[q] = rows[q]
    <3>1. /\ outrun(rows, r)[q].state = rows[q].state /\ outrun(rows, r)[q].inst = rows[q].inst
          /\ q # r => outrun(rows, r)[q] = rows[q]
      BY <1>0, LeaseRow
    <3> QED
      BY <2>1, <3>1
  <2>3. \A t \in Step : Running(t) /\ steps[t].phase = "body" => RunOf[t] # r
    BY <2>1 DEF attended, Running
  <2>4. \A q \in Run : isHold(rows'[q]) => isHold(rows[q]) /\ rows'[q].inst = rows[q].inst
    BY <2>2 DEF isHold
  <2> QED
    BY <1>0, <1>3, <2>1, <2>2, <2>3, <2>4
<1>10. ASSUME NEW r \in Run, interrupted(r) PROVE Guarded'
  BY <1>3, <1>10 DEF interrupted, markInterrupted
<1>11. ASSUME NEW r \in Run, releases(r) PROVE Guarded'
  <2>1. /\ UNCHANGED stepVars /\ gone' = gone /\ rows' = without(rows, {r})
        /\ rows[r].state = "releasing"
        /\ rows[r].inst \in gone \/ (rows[r].inst = home[r] /\ home[r] \notin up)
    BY <1>11 DEF releases, ReleaseConfirmedFleetLocks, stopped, NothingHidden
  <2>2. rows[r].inst = at[r]
    BY <1>1, <2>1 DEF isHold
  <2>3. at[r] \notin up
    BY <1>1, <2>1, <2>2
  <2>4. \A t \in Step : Running(t) /\ steps[t].phase = "body" => RunOf[t] # r
    BY <2>3 DEF Running
  <2> QED
    BY <1>4, <2>1, <2>4
<1>12. ASSUME NEW i \in Instance, podDies(i) PROVE Guarded'
  BY <1>1, <1>2, <1>12 DEF podDies, tableVars
<1>13. ASSUME NEW i \in Instance, announces(i) PROVE Guarded'
  <2>1. /\ UNCHANGED stepVars /\ rows' = rows
        /\ gone' = gone \/ (gone' = gone \cup {i} /\ i \notin up)
    BY <1>13 DEF announces, announceHome, announceGone, stopped, NothingHidden
  <2> QED
    BY <1>1, <1>2, <2>1 DEF stepVars
<1>14. ASSUME NEW q \in late, handleLate(q) PROVE Guarded'
  BY <1>1, <1>14
<1>15. ASSUME movesInterrupted \/ sweeps PROVE Guarded'
  <2>1. /\ UNCHANGED stepVars /\ gone' = gone
        /\ moveInterruptedFleetLockHolders \/ sweepFleetLocks
    BY <1>15 DEF movesInterrupted, sweeps, moveInterruptedFleetLockHolders, sweepFleetLocks
  <2>2. Sound(rows, rows')
    BY <1>0, <2>1, RoundSound
  <2> QED
    BY <1>0, <1>3, <2>1, <2>2 DEF Sound, keeps
<1>16. ASSUME UNCHANGED vars PROVE Guarded'
  BY <1>3, <1>16 DEF vars, tableVars
<1> QED
  BY <1>5, <1>6, <1>7, <1>8, <1>9, <1>10, <1>11, <1>12, <1>13, <1>14, <1>15, <1>16

LEMMA InitGuarded == Init => Guarded
<1> SUFFICES ASSUME Init PROVE Guarded
  OBVIOUS
<1>1. \A r \in Run : ~Holds(r)
  BY DEF Init, FleetLockInit, Holds, NoRow
<1>2. \A s \in Step : steps[s].phase = "idle"
  BY DEF Init
<1>3. late = {} /\ gone = {}
  BY DEF Init, FleetLockInit
<1> QED
  BY <1>1, <1>2, <1>3 DEF Guarded, HeldWhereItRuns, GoneIsDown, BodyHolds

\* Fencing and Guarded are kept together, and make every body that of the one holder.
LEMMA GuardedHolds ==
    ASSUME NothingHidden, RunsHaveOneStep
    PROVE  Spec => [](TypeOK /\ MutualExclusion)
<1>1. Fencing /\ Guarded /\ [Next]_vars => Fencing' /\ Guarded'
  <2> SUFFICES ASSUME Fencing, Guarded, [Next]_vars
               PROVE  Fencing' /\ Guarded'
    OBVIOUS
  <2>1. Fencing' /\ TypeOK
    BY StepKeepsFencing DEF Fencing
  <2>2. Guarded'
    BY <2>1, StepGuarded, OtherGuarded DEF Next
  <2> QED
    BY <2>1, <2>2
<1>2. Fencing /\ Guarded => TypeOK /\ MutualExclusion
  <2>1. \A s \in Step : RunOf[s] \in Run
    BY LockStepsAssumption DEF LockStepsAssumption
  <2>2. ASSUME Fencing, Guarded, NEW s \in Step, NEW t \in Step, s # t,
               Executes(s), Executes(t), steps[t].phase = "body"
        PROVE  steps[s].phase # "body" /\ steps[s].token < steps[t].token
    <3>1. /\ RunOf[s] # RunOf[t] /\ Holds(RunOf[t]) /\ rows[RunOf[t]].token = steps[t].token
      BY <2>1, <2>2 DEF Executes, Guarded, BodyHolds, RunsHaveOneStep
    <3>2. steps[s].phase # "body"
      BY <2>1, <2>2, <3>1 DEF Executes, Guarded, BodyHolds, Fencing, OneHolder
    <3>3. steps[s].token \in Nat /\ steps[t].token \in Nat
      BY <2>2 DEF Fencing, TypeOK, LockStepsTypeOK
    <3>4. CASE steps[s].token # 0
      BY <2>1, <2>2, <3>1, <3>2, <3>3, <3>4 DEF Fencing, HolderIsNewest
    <3>5. CASE steps[s].token = 0
      BY <2>1, <2>2, <3>1, <3>2, <3>3, <3>5 DEF Fencing, TokensIssued
    <3> QED
      BY <3>4, <3>5
  <2> QED
    BY <2>2 DEF MutualExclusion, Fencing
<1> QED
  BY <1>1, <1>2, InitFencing, InitGuarded, PTL DEF Spec

\* At most one body runs whose hold nobody ended, and every other body that still runs has a lower
\* token, for any number of runs with one step each, of instances, leases, restarts, lost answers and
\* forgotten holds, where no live pod is taken for gone, no administrator forces, runs are granted on
\* their homes and no request is delayed.  The run of such a body keeps its row: its lease is renewed,
\* and an interrupted hold is released only once its instance, where the run is, has stopped.  A body
\* that renew or confirmHoldAfterResume ended may run beside the next holder.
THEOREM BodiesExclude ==
    ASSUME NothingHidden, RunsHaveOneStep
    PROVE  Spec => []MutualExclusion
BY GuardedHolds, PTL

\* A step of the protocol that lets one body in sends no other out.
LEMMA BodiesEnter ==
    ASSUME TypeOK, [Next]_vars
    PROVE  Bodies' \subseteq Bodies \/ Bodies \subseteq Bodies'
<1>0. LockStepsTypeOK /\ \A s \in Step : RunOf[s] \in Run
  BY LockStepsAssumption DEF LockStepsAssumption, TypeOK
\* One step execution acts, and the others are where they were.
<1>1. ASSUME NEW s \in Step,
             \/ start(s) \/ attemptAcquire(s) \/ acquireFails(s) \/ giveUp(s)
             \/ renew(s) \/ confirmHoldAfterResume(s) \/ finish(s)
      PROVE  Bodies' \subseteq Bodies \/ Bodies \subseteq Bodies'
  <2>1. UNCHANGED <<at, up, finished>>
    BY <1>1 DEF start, attemptAcquire, acquireFails, giveUp, renew, confirmHoldAfterResume, finish
  <2>2. \A t \in Step : t # s => steps'[t] = steps[t]
    <3>1. \A phase : goTo(s, phase) => \A t \in Step : t # s => steps'[t] = steps[t]
      BY <1>0, GoTo
    <3>2. CASE attemptAcquire(s)
      BY <1>0, <3>1, <3>2 DEF attemptAcquire, LockStepsTypeOK
    <3>3. CASE start(s) \/ acquireFails(s) \/ giveUp(s) \/ finish(s)
      BY <3>1, <3>3 DEF start, acquireFails, giveUp, finish
    <3>4. CASE renew(s) \/ confirmHoldAfterResume(s)
      BY <3>1, <3>4 DEF renew, confirmHoldAfterResume
    <3> QED
      BY <1>1, <3>2, <3>3, <3>4
  <2>3. \A t \in Step : t # s => (t \in Bodies' <=> t \in Bodies)
    BY <2>1, <2>2 DEF Bodies, Running
  <2>4. Bodies \subseteq Step /\ Bodies' \subseteq Step
    BY DEF Bodies
  <2> QED
    BY <2>3, <2>4
\* A run that resumes holds its bodies back.
<1>2. ASSUME NEW r \in Run, restart(r) \/ takeover(r)
      PROVE  Bodies' \subseteq Bodies
  <2>1. /\ onResume(r) /\ UNCHANGED <<up, finished>>
        /\ \A q \in Run : q # r => at'[q] = at[q]
    BY <1>0, <1>2 DEF restart, takeover, LockStepsTypeOK
  <2> QED
    BY <1>0, <2>1, ResumeBody DEF Bodies, Running
<1>3. ASSUME NEW r \in Run, runEnds(r)
      PROVE  Bodies' \subseteq Bodies
  BY <1>3 DEF runEnds, Bodies, Running
<1>4. ASSUME NEW i \in Instance, podDies(i)
      PROVE  Bodies' \subseteq Bodies
  BY <1>4 DEF podDies, Bodies, Running
<1>5. ASSUME UNCHANGED <<steps, at, up, finished>>
      PROVE  Bodies' = Bodies
  BY <1>5 DEF Bodies, Running
<1>6. ASSUME \/ \E r \in Run : completed(r) \/ expires(r) \/ interrupted(r) \/ releases(r)
             \/ \E i \in Instance : announces(i)
             \/ \E q \in late : handleLate(q)
             \/ movesInterrupted
             \/ sweeps
             \/ UNCHANGED vars
      PROVE  UNCHANGED <<steps, at, up, finished>>
  BY <1>6 DEF completed, expires, interrupted, releases, announces, handleLate, movesInterrupted,
              sweeps, vars, stepVars
<1> QED
  BY <1>1, <1>2, <1>3, <1>4, <1>5, <1>6 DEF Next

\* The bodies whose hold nobody ended implement the exclusive section, under the same hypotheses:
\* one enters only when none is inside, and no restart, takeover or end hands the section on within
\* a step.
THEOREM LockImplementsSection ==
    ASSUME NothingHidden, RunsHaveOneStep
    PROVE  Spec => LockIsExclusive
<1>1. Init => Section!Init
  BY DEF Init, Section!Init, Bodies
<1>2. ASSUME TypeOK, MutualExclusion, MutualExclusion', [Next]_vars
      PROVE  [Section!Next]_Bodies
  <2>1. /\ \A s, t \in Bodies : s = t
        /\ \A s, t \in Bodies' : s = t
        /\ Bodies \subseteq Step /\ Bodies' \subseteq Step
    BY <1>2 DEF MutualExclusion, Executes, Bodies
  <2>2. CASE Bodies' = Bodies
    BY <2>2
  <2>3. ASSUME NEW s \in Bodies', s \notin Bodies
        PROVE  Section!Next
    <3>1. Bodies = {} /\ Bodies' = {s} /\ s \in Step
      BY <1>2, <2>1, <2>3, BodiesEnter
    <3> QED
      BY <3>1 DEF Section!Next, Section!Enter
  <2>4. ASSUME NEW s \in Bodies, s \notin Bodies'
        PROVE  Section!Next
    <3>1. Bodies = {s} /\ s \in Step
      BY <2>1, <2>4
    <3>2. CASE Bodies' \subseteq Bodies
      <4>1. Bodies' = Bodies \ {s}
        BY <2>4, <3>1, <3>2
      <4> QED
        BY <3>1, <4>1 DEF Section!Next, Section!Leave
    <3>3. CASE ~(Bodies' \subseteq Bodies)
      BY <2>3, <3>3
    <3> QED
      BY <3>2, <3>3
  <2> QED
    BY <2>2, <2>3, <2>4
<1> QED
  BY <1>1, <1>2, GuardedHolds, PTL DEF Spec, LockIsExclusive, Section!Spec

\* What an interrupted holder loses its row to.
InterruptedLoses(r) ==
    \/ run'[r] = "ENDED"
    \/ \E s \in Step : RunOf[s] = r /\ steps'[s] # steps[s]
    \/ rows[r].inst \in gone
    \/ rows[r].inst = home[r] /\ home[r] \notin up

LEMMA InterruptedStep ==
    ASSUME NothingHidden, TypeOK, late = {}, [Next]_vars,
           NEW r \in Run, isHold(rows[r]), run[r] = "INTERRUPTED", rows'[r].state = "none"
    PROVE  InterruptedLoses(r)
<1>0. /\ FleetLockTypeOK /\ LockStepsTypeOK /\ rows \in Table /\ rows[r].state # "none"
      /\ \A t \in Step : RunOf[t] \in Run
  BY LockStepsAssumption
     DEF LockStepsAssumption, TypeOK, FleetLockTypeOK, LockStepsTypeOK, Table, isHold
\* The steps that leave the row, and the release of another run.
<1>1. rows' # rows
  BY <1>0
<1>2. ASSUME NEW q \in Run, rows' = without(rows, {q})
      PROVE  q = r
  BY <1>0, <1>2, WithoutRow
<1>3. ASSUME NEW q \in Run, NEW a, acquireFleetLock(q, a)
      PROVE  FALSE
  BY <1>3, <1>0, AcquireSound
<1>4. ASSUME NEW q \in Run, rows' \in {refreshed(rows, q), outrun(rows, q)}
      PROVE  FALSE
  <2>1. refreshed(rows, q)[r].state = rows[r].state /\ outrun(rows, q)[r].state = rows[r].state
    BY <1>0, LeaseRow
  <2> QED
    BY <1>0, <1>4, <2>1
<1>5. ASSUME NEW s \in Step, NEW phase, goTo(s, phase), steps[s].phase # phase
      PROVE  steps'[s] # steps[s]
  <2>1. steps'[s].phase = phase
    BY <1>0, <1>5, GoTo
  <2> QED
    BY <1>5, <2>1
<1>6. ASSUME NEW s \in Step,
             \/ start(s) \/ attemptAcquire(s) \/ acquireFails(s) \/ giveUp(s)
             \/ renew(s) \/ confirmHoldAfterResume(s) \/ finish(s)
      PROVE  InterruptedLoses(r)
  <2> DEFINE q == RunOf[s]
  <2>0. q \in Run
    BY <1>0
  <2>1. ASSUME releaseLock(q), goTo(s, "done"), steps[s].phase # "done"
        PROVE  InterruptedLoses(r)
    <3>1. rows' = without(rows, {q})
      BY <1>1, <2>1, NoDelay DEF releaseLock, handleCrossTenantLockRelease, tableVars
    <3>2. q = r /\ steps'[s] # steps[s]
      BY <1>2, <1>5, <2>0, <2>1, <3>1
    <3> QED
      BY <3>2 DEF InterruptedLoses
  <2>2. ASSUME NEW a, renewFleetLockRow(q, a)
        PROVE  FALSE
    BY <1>4, <2>0, <2>2 DEF renewFleetLockRow
  <2> HIDE DEF q
  <2>3. CASE start(s)
    BY <1>1, <2>3 DEF start, tableVars
  <2>4. CASE attemptAcquire(s)
    BY <1>3, <2>0, <2>1, <2>4 DEF attemptAcquire, q
  <2>5. CASE acquireFails(s)
    BY <1>1, <1>3, <2>0, <2>5 DEF acquireFails, tableVars, q
  <2>6. CASE giveUp(s) \/ finish(s)
    BY <2>1, <2>6, NoDelay DEF giveUp, finish, q
  <2>7. CASE renew(s) \/ confirmHoldAfterResume(s)
    BY <1>1, <2>2, <2>7 DEF renew, confirmHoldAfterResume, tableVars, q
  <2> QED
    BY <1>6, <2>3, <2>4, <2>5, <2>6, <2>7
<1>7. ASSUME NEW q \in Run, restart(q) \/ takeover(q) \/ runEnds(q) \/ interrupted(q)
      PROVE  FALSE
  <2>1. CASE takeover(q)
    <3>1. run[q] = "LIVE"
      BY <2>1 DEF takeover, moveLockOwner
    <3>2. rows' = rows \/ rows' = [rows EXCEPT ![q].inst = home[q]]
      BY <2>1 DEF takeover, moveLockOwner
    <3>3. rows'[r] = rows[r]
      BY <1>0, <3>1, <3>2 DEF Table
    <3> QED
      BY <1>0, <3>3
  <2>2. CASE restart(q) \/ runEnds(q) \/ interrupted(q)
    BY <1>1, <2>2 DEF restart, runEnds, interrupted, markInterrupted, tableVars
  <2> QED
    BY <1>7, <2>1, <2>2
<1>8. ASSUME NEW q \in Run, completed(q)
      PROVE  InterruptedLoses(r)
  <2>1. rows' = without(rows, {q}) /\ run' = [run EXCEPT ![q] = "ENDED"]
    BY <1>8 DEF completed, deleteFleetLocksForRun
  <2>2. q = r
    BY <1>2, <2>1
  <2> QED
    BY <1>0, <2>1, <2>2 DEF InterruptedLoses, FleetLockTypeOK
<1>9. ASSUME NEW q \in Run, expires(q)
      PROVE  FALSE
  BY <1>4, <1>9 DEF expires, leaseExpires
<1>10. ASSUME NEW q \in Run, releases(q)
       PROVE  InterruptedLoses(r)
  <2>1. /\ rows' = without(rows, {q})
        /\ rows[q].inst \in gone \/ (rows[q].inst = home[q] /\ home[q] \notin up)
    BY <1>10 DEF releases, ReleaseConfirmedFleetLocks, stopped, NothingHidden
  <2>2. q = r
    BY <1>2, <2>1
  <2> QED
    BY <2>1, <2>2 DEF InterruptedLoses
<1>11. ASSUME NEW i \in Instance, podDies(i) \/ announces(i)
       PROVE  FALSE
  BY <1>1, <1>11 DEF podDies, announces, announceHome, announceGone, tableVars
<1>12. ASSUME movesInterrupted \/ sweeps
       PROVE  FALSE
  <2>1. rows'[r].state = "releasing"
    BY <1>0, <1>12, RoundSound DEF movesInterrupted, sweeps
  <2> QED
    BY <2>1
<1>13. ASSUME UNCHANGED vars
       PROVE  FALSE
  BY <1>1, <1>13 DEF vars, tableVars
<1> QED
  BY <1>6, <1>7, <1>8, <1>9, <1>10, <1>11, <1>12, <1>13 DEF Next

\* The row of an interrupted holder leaves only with its run, by a step of its run, or once the
\* instance that held it is known to be gone or has stopped: an expired lease never frees it, since
\* the rounds and every acquire move it to releasing before they delete the expired rows.
THEOREM InterruptedHoldsKept ==
    ASSUME NothingHidden
    PROVE  Spec => InterruptedHoldKept
<1>1. TypeOK /\ late = {} /\ [Next]_vars => (late = {})'
  <2> SUFFICES ASSUME TypeOK, late = {}, [Next]_vars
               PROVE  late' = {}
    OBVIOUS
  <2>1. \A r : releaseLock(r) => late' = late
    BY NoDelay DEF releaseLock
  <2>2. ASSUME NEW s \in Step,
               \/ start(s) \/ attemptAcquire(s) \/ acquireFails(s) \/ giveUp(s)
               \/ renew(s) \/ confirmHoldAfterResume(s) \/ finish(s)
        PROVE  late' = late
    BY <2>1, <2>2, NoDelay
       DEF start, attemptAcquire, acquireFails, giveUp, renew, confirmHoldAfterResume, finish
  <2>3. ASSUME NEW r \in Run, \/ restart(r) \/ takeover(r) \/ runEnds(r) \/ completed(r)
                              \/ expires(r) \/ interrupted(r) \/ releases(r)
        PROVE  late' = late
    BY <2>3 DEF restart, takeover, runEnds, completed, expires, interrupted, releases, stepVars
  <2>4. ASSUME \/ \E i \in Instance : podDies(i) \/ announces(i)
               \/ movesInterrupted
               \/ sweeps
               \/ UNCHANGED vars
        PROVE  late' = late
    BY <2>4 DEF podDies, announces, movesInterrupted, sweeps, vars, stepVars
  <2> QED
    BY <2>2, <2>3, <2>4 DEF Next
<1>2. TypeOK /\ late = {} /\ [Next]_vars =>
        [\A r \in Run :
            /\ Holds(r)
            /\ run[r] = "INTERRUPTED"
            /\ rows'[r].state = "none"
            => \/ run'[r] = "ENDED"
               \/ \E s \in Step : RunOf[s] = r /\ steps'[s] # steps[s]
               \/ rows[r].inst \in gone
               \/ rows[r].inst = home[r] /\ home[r] \notin up]_vars
  BY InterruptedStep DEF InterruptedLoses, Holds, isHold
<1>3. Init => late = {}
  BY DEF Init
<1> QED
  BY <1>1, <1>2, <1>3, LockTypeCorrect, PTL DEF Spec, InterruptedHoldKept
=============================================================================
