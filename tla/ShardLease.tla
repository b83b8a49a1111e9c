----------------------------- MODULE ShardLease -----------------------------
(***************************************************************************)
(* One shard of the operator: its Kubernetes Lease, the ShardManager of    *)
(* every replica (rebalance passes, stale sweep, release, shutdown) and    *)
(* the ShardSet that lets reconciles in and drains them                    *)
(* (internal/controller/sharding).                                         *)
(*                                                                         *)
(* A pass treats its shards one after the other, so the other shards only  *)
(* delay this one: every step of a pass may come arbitrarily late.  The    *)
(* API server may handle a request after its caller gave up.               *)
(*                                                                         *)
(* Time is kept as ages.  The resourceVersion of a copy or request is kept *)
(* as the one fact that an Update tests: is it the current version?  The   *)
(* replicas in fresh have it; every write makes all other copies stale.    *)
(***************************************************************************)
EXTENDS Naturals, FiniteSets

CONSTANTS
    Replica,
    NoOne,          \* holder of a released (or not yet created) lease
    LeaseDuration,  \* leaseDuration
    Deadline,       \* confirmDeadline, a sweep period included
    RenewAge,       \* age at which renewalDue asks for a renewal
    CallTimeout,    \* leaseCallTimeout
    DrainWait,      \* releaseDrainWait
    CancelWait,     \* releaseCancelWait
    StopWait,       \* the whole of the shutdown release up to its Get
    Skew,           \* how far the wall clocks of two replicas may differ
    Owner,          \* the replica that Assign names once the views agree
    Stops,          \* whether replicas may shut down gracefully
    Calms,          \* whether the faults end at some time
    MaxLate         \* bound: requests in transit that nobody waits for

ASSUME ShardLeaseAssumption ==
    /\ NoOne \notin Replica
    /\ Owner \in Replica
    /\ {LeaseDuration, Deadline, RenewAge, CallTimeout} \subseteq Nat \ {0}
    /\ {DrainWait, CancelWait, StopWait, Skew, MaxLate} \subseteq Nat
    /\ CallTimeout <= Deadline
    /\ Deadline + DrainWait + Skew <= LeaseDuration
    /\ Stops \in BOOLEAN
    /\ Calms \in BOOLEAN

\* The lease outlives the deadline and the whole shutdown release.
Margin == Deadline + StopWait + Skew <= LeaseDuration

VARIABLES
    holder,     \* the holder identity in the lease
    age,        \* time since the renewTime in the lease
    held,       \* replicas whose ShardSet has the shard
    confirmed,  \* time since confirmedAt of the last holding of each replica
    entered,    \* replicas with work in their present holding
    drained,    \* replicas with uncancelled work in the holding they drain
    settling,   \* replicas that wait for work they cancelled
    cancelled,  \* replicas with cancelled work of a holding they gave up
    at,         \* where the ShardManager of each replica is
    answer,     \* what the lease call in progress got so far
    callAge,    \* time since that call started
    wait,       \* time since the drain started
    seen,       \* the lease in the replica's shardLeaseMap
    fresh,      \* replicas whose copy (or request) has the current version
    late,       \* requests whose caller gave up, still at the current version
    calm        \* from here on no call fails, nobody stops, the views agree

leaseVars == <<holder, age, fresh, late>>
setVars == <<held, confirmed, entered, drained, settling, cancelled>>
passVars == <<at, answer, callAge, wait, seen>>
vars == <<leaseVars, setVars, passVars, calm>>

-----------------------------------------------------------------------------
\* Beyond Cap two ages are both expired for every replica.
Cap == LeaseDuration + Skew + 1

Older(n) == IF n < Cap THEN n + 1 ELSE Cap

HoldCalls == {"renew", "claim", "rerenew"}
ReleaseCalls == {"release", "rerelease", "stoprelease", "stoprerelease"}
Calls == HoldCalls \cup ReleaseCalls
Drains == {"drain", "settle", "stopdrain"}
Places == Calls \cup Drains
            \cup {"idle", "check", "shed", "reget", "acquire", "tail", "stopreget"}

Request == [replica : Replica, hold : BOOLEAN, age : 0..Cap]

TypeOK ==
    /\ holder \in Replica \cup {NoOne}
    /\ age \in 0..Cap
    /\ held \subseteq Replica
    /\ confirmed \in [Replica -> 0..Cap]
    /\ entered \subseteq held
    /\ drained \subseteq {r \in Replica : at[r] = "drain"}
    /\ settling \subseteq {r \in Replica : at[r] \in {"settle", "stopdrain"}}
    /\ cancelled \subseteq Replica
    /\ at \in [Replica -> Places]
    /\ answer \in [Replica -> {"none", "sent", "ok", "conflict", "error"}]
    /\ callAge \in [Replica -> 0..Cap]
    /\ wait \in [Replica -> 0..Cap]
    /\ seen \in [Replica -> {"mine", "free", "other"}]
    /\ fresh \subseteq Replica
    /\ late \subseteq Request
    /\ calm \in BOOLEAN

Init ==
    /\ holder = NoOne
    /\ age = Cap
    /\ fresh = {}
    /\ late = {}
    /\ held = {}
    /\ confirmed = [r \in Replica |-> 0]
    /\ entered = {}
    /\ drained = {}
    /\ settling = {}
    /\ cancelled = {}
    /\ at = [r \in Replica |-> "idle"]
    /\ answer = [r \in Replica |-> "none"]
    /\ callAge = [r \in Replica |-> 0]
    /\ wait = [r \in Replica |-> 0]
    /\ seen = [r \in Replica |-> "other"]
    /\ calm = FALSE

-----------------------------------------------------------------------------
(* The API server *)

\* One write of the lease: every other copy and request now has an old version.
Write(r, hold, a) ==
    /\ holder' = IF hold THEN r ELSE NoOne
    /\ age' = IF hold THEN a ELSE Cap
    /\ late' = {}

\* Update: refused when the request does not carry the current version.
Apply(r) ==
    /\ at[r] \in Calls
    /\ answer[r] = "sent"
    /\ IF r \in fresh
       THEN /\ Write(r, at[r] \in HoldCalls, callAge[r])
            /\ fresh' = {r}
            /\ answer' = [answer EXCEPT ![r] = "ok"]
            /\ UNCHANGED callAge
       ELSE /\ answer' = [answer EXCEPT ![r] = "conflict"]
            /\ callAge' = [callAge EXCEPT ![r] = 0]
            /\ UNCHANGED leaseVars
    /\ UNCHANGED <<setVars, at, wait, seen, calm>>

\* What becomes of r's request when r no longer waits for it: handled already or
\* lost, or still on its way.
Abandon(r) ==
    \/ late' = late
    \/ /\ at[r] \in Calls
       /\ answer[r] = "sent"
       /\ r \in fresh
       /\ Cardinality(late) < MaxLate
       /\ late' = late \cup {[replica |-> r, hold |-> at[r] \in HoldCalls,
                              age |-> callAge[r]]}

\* Without the response the copy in the map keeps its version.
Unanswered(r) == IF answer[r] = "ok" THEN fresh \ {r} ELSE fresh

\* The call times out or fails on the way, whatever the server did with it.
CallFails(r) ==
    /\ ~calm
    /\ at[r] \in Calls
    /\ answer[r] \in {"sent", "ok"}
    /\ Abandon(r)
    /\ fresh' = Unanswered(r)
    /\ answer' = [answer EXCEPT ![r] = "error"]
    /\ callAge' = [callAge EXCEPT ![r] = 0]
    /\ UNCHANGED <<holder, age, setVars, at, wait, seen, calm>>

\* The server handles a request that nobody waits for any more.
LateApplies ==
    \E q \in late :
        /\ Write(q.replica, q.hold, q.age)
        /\ fresh' = {}
        /\ UNCHANGED <<setVars, passVars, calm>>

\* Another client writes the metadata of the lease.
Touch ==
    /\ ~calm
    /\ fresh # {} \/ late # {}
    /\ fresh' = {}
    /\ late' = {}
    /\ UNCHANGED <<holder, age, setVars, passVars, calm>>

-----------------------------------------------------------------------------
(* The shard set *)

\* Mutant: the work of a dropped shard is not cancelled.
RevokeUncancelled(r) ==
    /\ held' = held \ {r}
    /\ UNCHANGED <<confirmed, entered, drained, settling, cancelled>>

\* Revoke: drop the shard and cancel the work that entered it.
Revoke(r) ==
    /\ held' = held \ {r}
    /\ entered' = entered \ {r}
    /\ cancelled' = IF r \in entered THEN cancelled \cup {r} ELSE cancelled
    /\ confirmed' = [confirmed EXCEPT ![r] = 0]
    /\ UNCHANGED <<drained, settling>>

\* Enter: a reconcile or a forge request starts work on a held shard.
Enter(r) ==
    /\ r \in held \ entered
    /\ entered' = entered \cup {r}
    /\ UNCHANGED <<leaseVars, held, confirmed, drained, settling, cancelled,
                   passVars, calm>>

\* The work of one holding ends.
Leave(r) ==
    /\ \/ /\ r \in entered
          /\ entered' = entered \ {r}
          /\ UNCHANGED <<drained, settling, cancelled>>
       \/ /\ r \in drained
          /\ drained' = drained \ {r}
          /\ UNCHANGED <<entered, settling, cancelled>>
       \/ /\ r \in settling
          /\ settling' = settling \ {r}
          /\ UNCHANGED <<entered, drained, cancelled>>
       \/ /\ r \in cancelled
          /\ cancelled' = cancelled \ {r}
          /\ UNCHANGED <<entered, drained, settling>>
    /\ UNCHANGED <<leaseVars, held, confirmed, passVars, calm>>

\* RevokeStale: by the sweep, or by a pass whose List failed.
Sweep(r) ==
    /\ r \in held
    /\ confirmed[r] >= Deadline
    /\ Revoke(r)
    /\ UNCHANGED <<leaseVars, passVars, calm>>

-----------------------------------------------------------------------------
(* A rebalance pass *)

StartCall(r, call) ==
    /\ at' = [at EXCEPT ![r] = call]
    /\ answer' = [answer EXCEPT ![r] = "sent"]
    /\ callAge' = [callAge EXCEPT ![r] = 0]

EndCall(r, next) ==
    /\ at' = [at EXCEPT ![r] = next]
    /\ answer' = [answer EXCEPT ![r] = "none"]
    /\ callAge' = [callAge EXCEPT ![r] = 0]

Goto(r, next) ==
    /\ at' = [at EXCEPT ![r] = next]
    /\ UNCHANGED <<answer, callAge>>

\* What a pass listed is forgotten when it ends.
Forget(r) ==
    /\ seen' = [seen EXCEPT ![r] = "other"]
    /\ fresh' = fresh \ {r}

\* isLeaseExpired by the wall clock of a reader: certain, or possible.
Expired == age > LeaseDuration + Skew
MaybeExpired == age + Skew > LeaseDuration

\* Mutant: a lease whose holder is gone is never taken for expired.
LeaseSeenUnexpired(r) ==
    IF holder = r THEN {"mine"} ELSE IF holder = NoOne THEN {"free"} ELSE {"other"}

\* What a List shows r.
LeaseSeen(r) ==
    IF holder = r THEN {"mine"}
    ELSE IF holder = NoOne \/ Expired THEN {"free"}
    ELSE IF MaybeExpired THEN {"free", "other"} ELSE {"other"}

\* Steps 1 to 4: presence, assignment and the shard leases.
List(r) ==
    /\ at[r] = "idle"
    /\ \E s \in LeaseSeen(r) : seen' = [seen EXCEPT ![r] = s]
    /\ fresh' = fresh \cup {r}
    /\ Goto(r, "check")
    /\ UNCHANGED <<holder, age, late, setVars, wait, calm>>

RenewalDue(r) == r \in held /\ seen[r] = "mine" /\ confirmed[r] >= RenewAge

\* Step 5: drop a shard whose lease is lost, then renew it if it is due.
Check(r) ==
    /\ at[r] = "check"
    /\ \/ /\ r \in held /\ seen[r] # "mine"
          /\ Revoke(r)
          /\ Goto(r, "shed")
       \/ /\ RenewalDue(r)
          /\ StartCall(r, "renew")
          /\ UNCHANGED setVars
       \/ /\ r \notin held \/ (seen[r] = "mine" /\ ~RenewalDue(r))
          /\ Goto(r, "shed")
          /\ UNCHANGED setVars
    /\ UNCHANGED <<leaseVars, wait, seen, calm>>

\* Mutant: the age of the answer is not checked.
InTimeAtAnyAge(r) == answer[r] = "ok"

\* A call confirms the lease when it succeeded and the answer is not too old.
InTime(r) == answer[r] = "ok" /\ callAge[r] < Deadline

\* Confirm never moves the time back.
Confirm(r) ==
    confirmed' = IF r \in held /\ callAge[r] < confirmed[r]
                 THEN [confirmed EXCEPT ![r] = callAge[r]] ELSE confirmed

\* renewShard after its Update: of step 5, or the last call of the pass.  The
\* response replaces the copy only when it confirms.
Renewed(r) ==
    /\ at[r] \in {"renew", "rerenew"}
    /\ answer[r] # "sent"
    /\ \/ /\ InTime(r)
          /\ Confirm(r)
          /\ UNCHANGED <<held, entered, drained, settling, cancelled>>
       \/ /\ ~InTime(r)
          /\ Revoke(r)
    /\ \/ /\ at[r] = "renew"
          /\ EndCall(r, "shed")
          /\ fresh' = IF InTime(r) THEN fresh ELSE Unanswered(r)
          /\ UNCHANGED seen
       \/ /\ at[r] = "rerenew"
          /\ EndCall(r, "idle")
          /\ Forget(r)
    /\ UNCHANGED <<holder, age, late, wait, calm>>

\* Whether the assignment of this pass gives the shard to r.  The views of live
\* replicas may differ in any way until they agree.
MayWant(r) == calm => r = Owner
MayNotWant(r) == calm => r # Owner

\* Step 6: detach a shard that is no longer desired and drain its work.  A pass
\* that goes on to "acquire" desires the shard.
Shed(r) ==
    /\ at[r] = "shed"
    /\ \/ /\ MayNotWant(r)
          /\ r \in held
          /\ held' = held \ {r}
          /\ entered' = entered \ {r}
          /\ drained' = IF r \in entered THEN drained \cup {r} ELSE drained
          /\ wait' = [wait EXCEPT ![r] = 0]
          /\ Goto(r, "drain")
       \/ /\ \/ MayWant(r) /\ Goto(r, "acquire")
             \/ MayNotWant(r) /\ r \notin held /\ Goto(r, "tail")
          /\ UNCHANGED <<held, entered, drained, wait>>
    /\ UNCHANGED <<leaseVars, confirmed, settling, cancelled, seen, calm>>

\* waitIdle runs out: cancelAll.
DrainTimeout(r) ==
    /\ at[r] = "drain"
    /\ r \in drained
    /\ wait[r] >= DrainWait
    /\ drained' = drained \ {r}
    /\ settling' = settling \cup {r}
    /\ wait' = [wait EXCEPT ![r] = 0]
    /\ confirmed' = [confirmed EXCEPT ![r] = 0]
    /\ Goto(r, "settle")
    /\ UNCHANGED <<leaseVars, held, entered, cancelled, seen, calm>>

\* The cancelled work still runs: its lease is left to expire.
StillBusy(r) ==
    /\ at[r] = "settle"
    /\ r \in settling
    /\ wait[r] >= CancelWait
    /\ settling' = settling \ {r}
    /\ cancelled' = cancelled \cup {r}
    /\ wait' = [wait EXCEPT ![r] = 0]
    /\ Goto(r, "tail")
    /\ UNCHANGED <<leaseVars, held, confirmed, entered, drained, seen, calm>>

\* Mutant: the lease is released without a wait for the drain.
ReleaseUndrained(r) ==
    /\ at[r] = "drain"
    /\ StartCall(r, "release")
    /\ UNCHANGED <<leaseVars, setVars, wait, seen, calm>>

\* The drained holding is idle: releaseLease.
Release(r) ==
    /\ at[r] \in {"drain", "settle"}
    /\ r \notin drained \cup settling
    /\ StartCall(r, "release")
    /\ confirmed' = [confirmed EXCEPT ![r] = 0]
    /\ wait' = [wait EXCEPT ![r] = 0]
    /\ UNCHANGED <<leaseVars, held, entered, drained, settling, cancelled, seen, calm>>

\* releaseLease after an Update: a conflict is tried again once.
Released(r) ==
    /\ at[r] \in ReleaseCalls
    /\ answer[r] # "sent"
    /\ \/ /\ at[r] = "release" /\ answer[r] = "conflict"
          /\ EndCall(r, "reget")
          /\ UNCHANGED <<seen, fresh>>
       \/ /\ at[r] = "stoprelease" /\ answer[r] = "conflict"
          /\ EndCall(r, "stopreget")
          /\ UNCHANGED <<seen, fresh>>
       \/ /\ at[r] = "rerelease" \/ (at[r] = "release" /\ answer[r] # "conflict")
          /\ EndCall(r, "tail")
          /\ fresh' = Unanswered(r)
          /\ UNCHANGED seen
       \/ /\ at[r] = "stoprerelease" \/ (at[r] = "stoprelease" /\ answer[r] # "conflict")
          /\ EndCall(r, "idle")
          /\ Forget(r)
    /\ UNCHANGED <<holder, age, late, setVars, wait, calm>>

\* The Get of the second try, which looks at the holder.
Reget(r) ==
    /\ at[r] \in {"reget", "stopreget"}
    /\ \/ /\ holder = r
          /\ seen' = [seen EXCEPT ![r] = "mine"]
          /\ fresh' = fresh \cup {r}
          /\ StartCall(r, IF at[r] = "reget" THEN "rerelease" ELSE "stoprerelease")
       \/ /\ holder # r \/ ~calm
          /\ Goto(r, IF at[r] = "reget" THEN "tail" ELSE "idle")
          /\ Forget(r)
    /\ UNCHANGED <<holder, age, late, setVars, wait, calm>>

Claimable(r) == seen[r] \in {"free", "mine"}

\* Step 7: claim a desired shard that is not held.
Acquire(r) ==
    /\ at[r] = "acquire"
    /\ IF r \notin held /\ Claimable(r)
       THEN StartCall(r, "claim")
       ELSE Goto(r, "tail")
    /\ UNCHANGED <<leaseVars, setVars, wait, seen, calm>>

\* The claim is answered: Add and Confirm, unless the answer came too late.
Claimed(r) ==
    /\ at[r] = "claim"
    /\ answer[r] # "sent"
    /\ \/ /\ InTime(r)
          /\ held' = held \cup {r}
          /\ confirmed' = [confirmed EXCEPT ![r] = callAge[r]]
          /\ seen' = [seen EXCEPT ![r] = "mine"]
          /\ UNCHANGED fresh
       \/ /\ ~InTime(r)
          /\ fresh' = Unanswered(r)
          /\ UNCHANGED <<held, confirmed, seen>>
    /\ EndCall(r, "tail")
    /\ UNCHANGED <<holder, age, late, entered, drained, settling, cancelled, wait,
                   calm>>

\* The renewals between the claims of other shards and after the last one, as
\* one renewal: the pass ends with it.
Tail(r) ==
    /\ at[r] = "tail"
    /\ \/ /\ RenewalDue(r)
          /\ StartCall(r, "rerenew")
          /\ UNCHANGED <<seen, fresh>>
       \/ /\ ~RenewalDue(r)
          /\ Goto(r, "idle")
          /\ Forget(r)
    /\ UNCHANGED <<holder, age, late, setVars, wait, calm>>

-----------------------------------------------------------------------------
(* The end of a replica.  Its pod comes back with the same name. *)

\* Start when its context ends: the sweep stops, the contexts of the work end
\* with that of the manager, and releaseAll drains the held shards.
Stop(r) ==
    /\ Stops /\ ~calm
    /\ at[r] = "idle"
    /\ r \in held
    /\ held' = held \ {r}
    /\ entered' = entered \ {r}
    /\ settling' = IF r \in entered THEN settling \cup {r} ELSE settling
    /\ wait' = [wait EXCEPT ![r] = 0]
    /\ Goto(r, "stopdrain")
    /\ UNCHANGED <<leaseVars, confirmed, drained, cancelled, seen, calm>>

\* The Get of releaseAll, and releaseLease with what it returned, whoever holds it.
StopRelease(r) ==
    /\ at[r] = "stopdrain"
    /\ r \notin settling
    /\ fresh' = fresh \cup {r}
    /\ seen' = [seen EXCEPT ![r] = IF holder = r THEN "mine" ELSE "other"]
    /\ StartCall(r, "stoprelease")
    /\ confirmed' = [confirmed EXCEPT ![r] = 0]
    /\ wait' = [wait EXCEPT ![r] = 0]
    /\ UNCHANGED <<holder, age, late, held, entered, drained, settling, cancelled, calm>>

\* The process ends, at any point: its work and its shard set end with it, its
\* request may not.
Exit(r) ==
    /\ held' = held \ {r}
    /\ entered' = entered \ {r}
    /\ drained' = drained \ {r}
    /\ settling' = settling \ {r}
    /\ cancelled' = cancelled \ {r}
    /\ Abandon(r)
    /\ EndCall(r, "idle")
    /\ Forget(r)
    /\ confirmed' = [confirmed EXCEPT ![r] = 0]
    /\ wait' = [wait EXCEPT ![r] = 0]
    /\ UNCHANGED <<holder, age, calm>>

Crash(r) == ~calm /\ Exit(r)

\* The work still runs when releaseAll gives up: the lease is left to expire.
StopBusy(r) ==
    /\ at[r] = "stopdrain"
    /\ r \in settling
    /\ wait[r] >= StopWait
    /\ Exit(r)

-----------------------------------------------------------------------------
(* Time *)

\* What r does before more time passes: the sweep and the timers run on time,
\* and in calm times the owner's calls are answered before they time out.
OnTime(r) ==
    /\ r \in held => confirmed[r] < Deadline
    /\ at[r] = "drain" => wait[r] < DrainWait
    /\ at[r] = "stopdrain" => wait[r] < StopWait
    /\ calm /\ r = Owner /\ at[r] \in Calls => callAge[r] + 1 < CallTimeout

Tick ==
    /\ \A r \in Replica : OnTime(r)
    /\ age' = Older(age)
    /\ confirmed' = [r \in Replica |-> IF r \in held \/ at[r] \in {"drain", "stopdrain"}
                                      THEN Older(confirmed[r]) ELSE confirmed[r]]
    /\ callAge' = [r \in Replica |-> IF at[r] \in HoldCalls /\ answer[r] \in {"sent", "ok"}
                                    THEN Older(callAge[r]) ELSE callAge[r]]
    /\ wait' = [r \in Replica |-> IF at[r] \in Drains THEN Older(wait[r]) ELSE wait[r]]
    /\ late' = {[q EXCEPT !.age = Older(q.age)] : q \in late}
    /\ UNCHANGED <<holder, fresh, held, entered, drained, settling, cancelled,
                   at, answer, seen, calm>>

\* The faults end.
Settle ==
    /\ Calms /\ ~calm
    /\ calm' = TRUE
    /\ UNCHANGED <<leaseVars, setVars, passVars>>

Pass(r) ==
    \/ List(r) \/ Check(r) \/ Renewed(r) \/ Shed(r)
    \/ DrainTimeout(r) \/ StillBusy(r) \/ Release(r) \/ Released(r) \/ Reget(r)
    \/ Acquire(r) \/ Claimed(r) \/ Tail(r) \/ StopRelease(r) \/ StopBusy(r)

Next ==
    \/ \E r \in Replica : \/ Apply(r) \/ CallFails(r)
                          \/ Enter(r) \/ Leave(r) \/ Sweep(r)
                          \/ Pass(r) \/ Stop(r) \/ Crash(r)
    \/ LateApplies
    \/ Touch
    \/ Tick
    \/ Settle

Spec == Init /\ [][Next]_vars

\* Time passes and timers fire on every replica.  Only the owner need run its
\* passes, and no work need ever end.
Timers(r) == Sweep(r) \/ DrainTimeout(r) \/ Release(r) \/ StopRelease(r) \/ StopBusy(r)

Fairness ==
    /\ WF_vars(Tick)
    /\ \A r \in Replica : WF_vars(Timers(r))
    /\ WF_vars(Pass(Owner))
    /\ WF_vars(Apply(Owner))

FairSpec == Spec /\ Fairness

-----------------------------------------------------------------------------
\* The replicas whose work on the shard may write: it entered a holding and was
\* not cancelled.
Live == entered \cup drained

\* At no time do two replicas hold the shard or run uncancelled work on it,
\* though leases expire, calls time out and are handled later, and clocks differ
\* (ShardSet, "two replicas never write for one shard at the same time").
OneLiveReplica ==
    \A r, s \in held \cup drained : r = s

\* The work on the shard is an exclusive section.
Section == INSTANCE Exclusive WITH Process <- Replica, inside <- Live

ShardIsExclusive == Section!Spec

\* Once the faults end, the replica that the assignment names comes to hold the
\* shard: whoever held it sheds it, or its lease expires, even when its process
\* makes no further step and its work never ends.
OwnerTakesOver == calm ~> Owner \in held
=============================================================================
