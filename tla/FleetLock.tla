------------------------------ MODULE FleetLock -----------------------------
(***************************************************************************)
(* The recorder's side of one fleet lock (internal/recordstore): the rows  *)
(* of fleet_locks under one lock name, the token sequence, and the parts   *)
(* of runs and tenant_placements that decide about them.                   *)
(*                                                                         *)
(* A run's row waits, is promoted to held with a new fencing token, and    *)
(* leaves on a release, an expired lease or the end of its run.  The row   *)
(* of an interrupted run becomes releasing: it still excludes every other  *)
(* run, and no lease expiry frees it.  The clients are in LockSteps.       *)
(***************************************************************************)
EXTENDS Naturals, FiniteSets

CONSTANTS
    Instance,    \* cell instances: the UIDs of Jenkins pods
    Run,         \* the runs that use the lock
    NoInstance,
    MaxToken     \* bound: fencing tokens

ASSUME FleetLockAssumption ==
    /\ NoInstance \notin Instance
    /\ MaxToken \in Nat

VARIABLES
    rows,     \* fleet_locks of the lock, by run
    fence,    \* fleet_lock_fence_seq: the last token
    run,      \* what runs says of each run
    home,     \* the instance of the member that holds the home slot of each run's
              \* job: the runs may be of different tenants
    gone      \* instances that can release a lock: dead_instances entries past
              \* the grace or the moved window

tableVars == <<rows, fence, run, home, gone>>

-----------------------------------------------------------------------------
\* ahead: the rows that were there when this row began to wait.  It stands for
\* the order of waiting_since.  expired: expires_at has passed.
Row == [state   : {"none", "waiting", "held", "releasing"},
        token   : Nat,
        inst    : Instance \cup {NoInstance},
        expired : BOOLEAN,
        ahead   : SUBSET Run]

NoRow == [state |-> "none", token |-> 0, inst |-> NoInstance, expired |-> FALSE,
          ahead |-> {}]

\* LIVE is every row that fleetLockRunEnded does not take for an ended run, but
\* for the provisional end INTERRUPTED.
RunState == {"LIVE", "INTERRUPTED", "ENDED"}

FleetLockTypeOK ==
    /\ rows \in [Run -> Row]
    /\ fence \in Nat
    /\ run \in [Run -> RunState]
    /\ home \in [Run -> Instance]
    /\ gone \subseteq Instance

FleetLockInit ==
    /\ rows = [r \in Run |-> NoRow]
    /\ fence = 0
    /\ run = [r \in Run |-> "LIVE"]
    /\ home \in [Run -> Instance]
    /\ gone = {}

-----------------------------------------------------------------------------
(* The statements of the transactions, as functions of the table t.        *)

occupied(t) == \E r \in Run : t[r].state \in {"held", "releasing"}

\* DELETE of the rows of R.
without(t, R) ==
    [r \in Run |-> IF r \in R THEN NoRow ELSE [t[r] EXCEPT !.ahead = @ \ R]]

\* Mutant: the move is left out, and the expiry test comes first.
leavesInterruptedHeld(t) == t

moveInterruptedHoldersToReleasing(t) ==
    [r \in Run |-> IF t[r].state = "held" /\ run[r] = "INTERRUPTED"
                   THEN [t[r] EXCEPT !.state = "releasing"]
                   ELSE t[r]]

\* Mutant: only a waiter's lease expires.
deletesExpiredWaiters(t) == without(t, {r \in Run : t[r].expired /\ t[r].state = "waiting"})

deleteExpiredFleetLockRows(t) ==
    without(t, {r \in Run : t[r].expired /\ t[r].state # "releasing"})

\* The lease of r's row starts anew, or runs out.
refreshed(t, r) == [t EXCEPT ![r].expired = FALSE]

outrun(t, r) == [t EXCEPT ![r].expired = TRUE]

\* The caller's own row: a new waiting one, or the stored one with a new lease.
insertWaitingFleetLockRow(t, r) ==
    IF t[r].state = "none"
    THEN [t EXCEPT ![r] = [NoRow EXCEPT !.state = "waiting",
                                        !.ahead = {s \in Run : t[s].state # "none"}]]
    ELSE refreshed(t, r)

\* Steps 1 to 3 of the acquire transaction.
prepared(r) ==
    insertWaitingFleetLockRow(
        deleteExpiredFleetLockRows(moveInterruptedHoldersToReleasing(rows)), r)

\* Mutant: a waiter is promoted beside a releasing row.
promotableBesideReleasing(t, r) ==
    /\ ~\E s \in Run : t[s].state = "held"
    /\ \A s \in t[r].ahead : t[s].state # "waiting"

\* Step 4's test.  The caller's own held row counts as a holder too.
promotable(t, r) ==
    /\ ~occupied(t)
    /\ \A s \in t[r].ahead : t[s].state # "waiting"

\* Mutant: the acquire does not read that the run ended.
neverEnded(r) == FALSE

fleetLockRunEnded(r) == run[r] = "ENDED"

-----------------------------------------------------------------------------
(* The three requests.  a is the answer: a state and a token.              *)

Answer(state, token) == [state |-> state, token |-> token]

Answers == [state : {"held", "waiting", "releasing", "lost", "veto"}, token : 0..MaxToken]

\* Mutant: every hold gets the same token.
promotesWithOneToken(r, a) ==
    /\ ~fleetLockRunEnded(r)
    /\ promotable(prepared(r), r)
    /\ fence' = 1
    /\ rows' = [prepared(r) EXCEPT ![r].state = "held", ![r].token = 1, ![r].inst = home[r]]
    /\ a = Answer("held", 1)
    /\ UNCHANGED <<run, home, gone>>

promote(r, a) ==
    /\ ~fleetLockRunEnded(r)
    /\ promotable(prepared(r), r)
    /\ fence < MaxToken
    /\ fence' = fence + 1
    /\ rows' = [prepared(r) EXCEPT ![r].state = "held", ![r].token = fence', ![r].inst = home[r]]
    /\ a = Answer("held", fence')
    /\ UNCHANGED <<run, home, gone>>

\* acquireFleetLock: the five steps of one transaction.  Two acquires that race
\* for a free lock meet the unique index: the loser's second violation answers
\* waiting and writes nothing.  An ended run is vetoed.
acquireFleetLock(r, a) ==
    \/ promote(r, a)
    \/ /\ ~fleetLockRunEnded(r)
       /\ ~promotable(prepared(r), r)
       /\ rows' = prepared(r)
       /\ a = Answer("waiting", 0)
       /\ UNCHANGED <<fence, run, home, gone>>
    \/ /\ ~fleetLockRunEnded(r)
       /\ a = Answer("waiting", 0)
       /\ UNCHANGED tableVars
    \/ /\ fleetLockRunEnded(r)
       /\ a = Answer("veto", 0)
       /\ UNCHANGED tableVars

\* renewFleetLockRow: one statement refreshes the lease and reads the row.
renewFleetLockRow(r, a) ==
    /\ a = IF rows[r].state = "none" THEN Answer("lost", 0)
           ELSE Answer(rows[r].state, rows[r].token)
    /\ rows' = refreshed(rows, r)
    /\ UNCHANGED <<fence, run, home, gone>>

\* The release deletes the run's row, whatever its state.
handleCrossTenantLockRelease(r) ==
    /\ rows' = without(rows, {r})
    /\ UNCHANGED <<fence, run, home, gone>>

-----------------------------------------------------------------------------
(* The rounds and the events that move rows.                               *)

\* The once-a-minute backstop round and the tenant-sync announce.
moveInterruptedFleetLockHolders ==
    /\ rows' = moveInterruptedHoldersToReleasing(rows)
    /\ UNCHANGED <<fence, run, home, gone>>

\* The maintenance round.
sweepFleetLocks ==
    /\ rows' = deleteExpiredFleetLockRows(moveInterruptedHoldersToReleasing(rows))
    /\ UNCHANGED <<fence, run, home, gone>>

\* ReleaseConfirmedFleetLocks, for one row.  silent: the announce says that the
\* home's cell has been silent for the whole window.
ReleaseConfirmedFleetLocks(r, silent) ==
    /\ rows[r].state = "releasing"
    /\ \/ rows[r].inst \in gone
       \/ rows[r].inst = home[r] /\ silent
    /\ rows' = without(rows, {r})
    /\ UNCHANGED <<fence, run, home, gone>>

\* ForceReleaseFleetLock: an administrator frees a releasing row of an instance
\* that is no member now.
ForceReleaseFleetLock(r) ==
    /\ rows[r].state = "releasing"
    /\ rows[r].inst # home[r]
    /\ rows' = without(rows, {r})
    /\ UNCHANGED <<fence, run, home, gone>>

\* The owner's run.completed: the end of the run and the delete of its rows are
\* one transaction, which the run's advisory lock orders with every acquire.
deleteFleetLocksForRun(r) ==
    /\ run[r] # "ENDED"
    /\ run' = [run EXCEPT ![r] = "ENDED"]
    /\ rows' = without(rows, {r})
    /\ UNCHANGED <<fence, home, gone>>

\* The interrupted sweep's mark.  It touches no lock row.
markInterrupted(r) ==
    /\ run[r] = "LIVE"
    /\ run' = [run EXCEPT ![r] = "INTERRUPTED"]
    /\ UNCHANGED <<rows, fence, home, gone>>

\* Time passes the lease of a row.
leaseExpires(r) ==
    /\ rows[r].state # "none"
    /\ ~rows[r].expired
    /\ rows' = outrun(rows, r)
    /\ UNCHANGED <<fence, run, home, gone>>

\* dispatchMeshResume: the lock follows its run from a gone instance.
moveLockOwner(r, from) ==
    /\ run[r] = "LIVE"
    /\ rows' = IF rows[r].inst = from THEN [rows EXCEPT ![r].inst = home[r]] ELSE rows
    /\ UNCHANGED <<fence, run, home, gone>>

\* The operator's announces: a new home, and an instance that is gone.
announceHome(r, i) ==
    /\ i # home[r]
    /\ i \notin gone
    /\ home' = [home EXCEPT ![r] = i]
    /\ UNCHANGED <<rows, fence, run, gone>>

announceGone(i) ==
    /\ \A r \in Run : home[r] # i
    /\ i \notin gone
    /\ gone' = gone \cup {i}
    /\ UNCHANGED <<rows, fence, run, home>>
=============================================================================
