-------------------------- MODULE ShardLeaseProofs --------------------------
(***************************************************************************)
(* At most one replica holds a shard or runs live work on it, and ShardLease *)
(* implements Exclusive.  The argument: while a replica may act on the     *)
(* shard, the lease names it and is younger than its expiry on any clock,  *)
(* and no request in transit with the current version can take it.         *)
(***************************************************************************)
EXTENDS ShardLease, TLAPS

Mine == Drains \cup ReleaseCalls \cup {"renew", "rerenew"}

\* A holding that must not end before the lease: held, drained, stopping, or
\* confirmed but not yet added.
Guarded(s) ==
    \/ s \in held \cup drained
    \/ at[s] = "stopdrain"
    \/ at[s] \in HoldCalls /\ InTime(s)

\* The lease is no older than the confirmation, and the sweep and the timers
\* bound that.
Ages(s) ==
    /\ s \in held => age <= confirmed[s] /\ confirmed[s] <= Deadline
    /\ s \in held /\ at[s] \in {"renew", "rerenew"} => callAge[s] <= confirmed[s]
    /\ s \in drained => /\ age <= confirmed[s]
                        /\ confirmed[s] <= Deadline + wait[s]
                        /\ wait[s] <= DrainWait
    /\ at[s] = "stopdrain" => /\ age <= confirmed[s]
                              /\ confirmed[s] <= Deadline + wait[s]
                              /\ wait[s] <= StopWait
    /\ at[s] \in HoldCalls /\ InTime(s) => age <= callAge[s]

\* So the lease of a guarded holding is its replica's.
Lease(s) == Guarded(s) => holder = s

\* What a copy or a request of the current version says of the lease.
Copy(s) ==
    s \in fresh /\ ~(at[s] \in Calls /\ answer[s] = "ok") =>
        /\ seen[s] = "mine" => holder = s
        /\ seen[s] = "free" => holder = NoOne \/ MaybeExpired

\* Where a pass can be with what it holds and has seen.
Where(s) ==
    /\ at[s] \in Mine \ {"stopdrain"} => seen[s] = "mine"
    /\ at[s] = "claim" => seen[s] \in {"mine", "free"}
    /\ s \in held => at[s] \notin Drains \cup ReleaseCalls \cup {"claim", "reget", "stopreget"}
    /\ s \in held /\ at[s] \notin {"idle", "check"} => seen[s] = "mine"

\* A request in transit cannot take the lease from a guarded holding, its own
\* replica's included.
Transit(q) ==
    /\ q.hold => holder \in {q.replica, NoOne} \/ MaybeExpired
    /\ ~q.hold => holder = q.replica
    /\ Guarded(q.replica) =>
           /\ q.replica \in held
           /\ at[q.replica] \in {"renew", "rerenew"}
           /\ answer[q.replica] = "error"
           /\ q.hold
           /\ q.age <= confirmed[q.replica]

IInv ==
    /\ TypeOK
    /\ \A s \in Replica : Ages(s) /\ Lease(s) /\ Copy(s) /\ Where(s)
    /\ \A q \in late : Transit(q)

-----------------------------------------------------------------------------
\* The constants are naturals, and Cap is past every expiry.
LEMMA CapNat ==
    /\ Cap \in Nat /\ Cap > LeaseDuration + Skew
    /\ {LeaseDuration, Skew, Deadline, DrainWait, StopWait} \subseteq Nat
  BY ShardLeaseAssumption DEF Cap

\* An age that starts anew.
LEMMA ZeroAge == 0 \in 0..Cap
  BY CapNat

\* Time moves ages up by at most one and keeps their order.
LEMMA OlderFacts ==
    /\ \A n \in 0..Cap : Older(n) \in 0..Cap /\ n <= Older(n) /\ Older(n) <= n + 1
    /\ \A m, n \in 0..Cap : m <= n => Older(m) <= Older(n)
  BY CapNat DEF Older

\* The lease of a guarded holding has expired on no clock.
LEMMA GuardedAge ==
    ASSUME Margin, TypeOK, NEW s \in Replica, Ages(s), Guarded(s)
    PROVE  ~MaybeExpired
  BY CapNat, ShardLeaseAssumption DEF TypeOK, Margin, Ages, Guarded, MaybeExpired, InTime, HoldCalls

LEMMA ApplyStep ==
    ASSUME Margin, IInv, NEW r \in Replica, Apply(r)
    PROVE  IInv'
<1> USE ShardLeaseAssumption DEF IInv, TypeOK, Calls, HoldCalls, ReleaseCalls, Drains
<1>1. TypeOK'
  <2>1. /\ at' \in [Replica -> Places]
        /\ answer' \in [Replica -> {"none", "sent", "ok", "conflict", "error"}]
        /\ seen' \in [Replica -> {"mine", "free", "other"}]
    BY DEF Apply, Write, leaseVars, setVars, passVars, Places
  <2>2. callAge' \in [Replica -> 0..Cap]
    BY ZeroAge DEF Apply, Write, leaseVars, setVars, passVars
  <2>3. wait' \in [Replica -> 0..Cap]
    BY ZeroAge DEF Apply, Write, leaseVars, setVars, passVars
  <2>4. confirmed' \in [Replica -> 0..Cap]
    BY ZeroAge DEF Apply, Write, leaseVars, setVars, passVars
  <2>5. /\ holder' \in Replica \cup {NoOne}
        /\ age' \in 0..Cap
        /\ calm' \in BOOLEAN
    BY CapNat, OlderFacts DEF Apply, Write, leaseVars, setVars, passVars
  <2>6. late' \subseteq Request
    BY ZeroAge DEF Apply, Write, leaseVars, setVars, passVars, Request
  <2>7. /\ held' \subseteq Replica
        /\ entered' \subseteq held'
        /\ cancelled' \subseteq Replica
        /\ fresh' \subseteq Replica
    BY DEF Apply, Write, leaseVars, setVars, passVars
  <2>8. drained' \subseteq {s \in Replica : at'[s] = "drain"}
    BY <2>1 DEF Apply, Write, leaseVars, setVars, passVars
  <2>9. settling' \subseteq {s \in Replica : at'[s] \in {"settle", "stopdrain"}}
    BY <2>1 DEF Apply, Write, leaseVars, setVars, passVars
  <2> QED
    BY <2>1, <2>2, <2>3, <2>4, <2>5, <2>6, <2>7, <2>8, <2>9
<1>2. ASSUME NEW s \in Replica PROVE Ages(s)'
  <2>1. CASE r \notin fresh
    BY <2>1, CapNat DEF Apply, setVars, leaseVars, Ages, InTime
  <2>2. CASE r \in fresh /\ s = r
    BY <2>2, CapNat DEF Apply, Write, setVars, Ages, InTime, Where
  <2>3. CASE r \in fresh /\ s # r
    <3>1. ~Guarded(s)
      BY <2>3, GuardedAge DEF Apply, Copy, Lease, Where, Mine
    <3> QED
      BY <2>3, <3>1 DEF Apply, Write, setVars, Ages, InTime, Guarded
  <2> QED
    BY <2>1, <2>2, <2>3
<1>3. ASSUME NEW s \in Replica PROVE Lease(s)'
  BY GuardedAge, <1>2 DEF Apply, Write, leaseVars, setVars, passVars, Lease, Copy, Where, InTime, Guarded, Transit, Mine, MaybeExpired
<1>4. ASSUME NEW s \in Replica PROVE Copy(s)'
  BY CapNat, OlderFacts DEF Apply, Write, leaseVars, setVars, passVars, Lease, Copy, Where, InTime, Guarded, Mine, MaybeExpired
<1>5. ASSUME NEW s \in Replica PROVE Where(s)'
  BY DEF Apply, Write, leaseVars, setVars, passVars, Where, Mine, Lease, Guarded
<1>6. ASSUME NEW q \in late' PROVE Transit(q)'
  <2>1. r \notin fresh /\ q \in late /\ q.replica \in Replica /\ Transit(q)
    BY DEF Apply, Write, leaseVars, Request
  <2>2. Guarded(q.replica)' => Guarded(q.replica)
    BY <2>1 DEF Apply, setVars, Guarded, InTime
  <2>3. Guarded(q.replica) => q.replica # r
    BY <2>1 DEF Apply, Transit
  <2> QED
    BY <2>1, <2>2, <2>3 DEF Apply, setVars, leaseVars, Transit, MaybeExpired
<1> QED  BY <1>1, <1>2, <1>3, <1>4, <1>5, <1>6 DEF IInv

LEMMA CallFailsStep ==
    ASSUME Margin, IInv, NEW r \in Replica, CallFails(r)
    PROVE  IInv'
<1> USE ShardLeaseAssumption DEF IInv, TypeOK, Calls, HoldCalls, ReleaseCalls, Drains
<1>1. TypeOK'
  <2>1. /\ at' \in [Replica -> Places]
        /\ answer' \in [Replica -> {"none", "sent", "ok", "conflict", "error"}]
        /\ seen' \in [Replica -> {"mine", "free", "other"}]
    BY DEF CallFails, Abandon, Unanswered, leaseVars, setVars, passVars, Places
  <2>2. callAge' \in [Replica -> 0..Cap]
    BY ZeroAge DEF CallFails, Abandon, Unanswered, leaseVars, setVars, passVars
  <2>3. wait' \in [Replica -> 0..Cap]
    BY ZeroAge DEF CallFails, Abandon, Unanswered, leaseVars, setVars, passVars
  <2>4. confirmed' \in [Replica -> 0..Cap]
    BY ZeroAge DEF CallFails, Abandon, Unanswered, leaseVars, setVars, passVars
  <2>5. /\ holder' \in Replica \cup {NoOne}
        /\ age' \in 0..Cap
        /\ calm' \in BOOLEAN
    BY CapNat, OlderFacts DEF CallFails, Abandon, Unanswered, leaseVars, setVars, passVars
  <2>6. late' \subseteq Request
    <3> DEFINE new == [replica |-> r, hold |-> at[r] \in HoldCalls, age |-> callAge[r]]
    <3>1. (at[r] \in HoldCalls) \in BOOLEAN /\ callAge[r] \in 0..Cap
      OBVIOUS
    <3>2. new \in Request
      BY <3>1 DEF Request
    <3>3. late' \subseteq late \cup {new}
      BY DEF CallFails, Abandon, Unanswered, leaseVars, setVars, passVars
    <3> HIDE DEF new
    <3> QED
      BY <3>2, <3>3
  <2>7. /\ held' \subseteq Replica
        /\ entered' \subseteq held'
        /\ cancelled' \subseteq Replica
        /\ fresh' \subseteq Replica
    BY DEF CallFails, Abandon, Unanswered, leaseVars, setVars, passVars
  <2>8. drained' \subseteq {s \in Replica : at'[s] = "drain"}
    BY <2>1 DEF CallFails, Abandon, Unanswered, leaseVars, setVars, passVars
  <2>9. settling' \subseteq {s \in Replica : at'[s] \in {"settle", "stopdrain"}}
    BY <2>1 DEF CallFails, Abandon, Unanswered, leaseVars, setVars, passVars
  <2> QED
    BY <2>1, <2>2, <2>3, <2>4, <2>5, <2>6, <2>7, <2>8, <2>9
<1>2. ASSUME NEW s \in Replica PROVE Ages(s)'
  BY CapNat, OlderFacts DEF CallFails, Abandon, Unanswered, leaseVars, setVars, passVars, Ages, Lease, Where, InTime, Guarded, Margin, Transit
<1>3. ASSUME NEW s \in Replica PROVE Lease(s)'
  BY GuardedAge, <1>2 DEF CallFails, Abandon, Unanswered, leaseVars, setVars, passVars, Lease, Copy, Where, InTime, Guarded, Transit, Mine, MaybeExpired
<1>4. ASSUME NEW s \in Replica PROVE Copy(s)'
  BY CapNat, OlderFacts DEF CallFails, Abandon, Unanswered, leaseVars, setVars, passVars, Lease, Copy, Where, InTime, Guarded, Mine, MaybeExpired
<1>5. ASSUME NEW s \in Replica PROVE Where(s)'
  BY DEF CallFails, Abandon, Unanswered, leaseVars, setVars, passVars, Where, Mine, Lease, Guarded
<1>6. ASSUME NEW q \in late' PROVE Transit(q)'
  <2>1. CASE q \in late
    <3>1. q.replica \in Replica /\ Transit(q)
      BY <2>1 DEF Request
    <3>2. Guarded(q.replica)' => Guarded(q.replica)
      BY <3>1 DEF CallFails, Abandon, Unanswered, leaseVars, setVars, passVars, Guarded, InTime
    <3>3. CASE q.replica = r
      BY <3>1, <3>2, <3>3 DEF CallFails, Abandon, Unanswered, leaseVars, setVars, passVars, Transit, Guarded, InTime, MaybeExpired
    <3>4. CASE q.replica # r
      BY <3>1, <3>2, <3>4 DEF CallFails, Abandon, Unanswered, leaseVars, setVars, passVars, Transit, MaybeExpired
    <3> QED
      BY <3>3, <3>4
  <2>2. CASE q \notin late
    <3>1. /\ r \in fresh
          /\ at[r] \in Calls
          /\ answer[r] = "sent"
          /\ q.replica = r
          /\ q.hold = (at[r] \in HoldCalls)
          /\ q.age = callAge[r]
      BY <2>2 DEF CallFails, Abandon, Unanswered, leaseVars, setVars, passVars
    <3>2. /\ seen[r] = "mine" => holder = r
          /\ seen[r] = "free" => holder = NoOne \/ MaybeExpired
          /\ at[r] \in HoldCalls \/ seen[r] = "mine"
          /\ seen[r] \in {"mine", "free"}
      BY <3>1 DEF Copy, Where, Mine
    <3>3. Guarded(r)' => r \in held /\ at'[r] \in {"renew", "rerenew"} /\ answer'[r] = "error"
      BY <3>1 DEF CallFails, Abandon, Unanswered, leaseVars, setVars, passVars, Guarded, InTime, Where
    <3>4. Guarded(r)' => q.age <= confirmed'[r]
      BY <3>1, <3>3 DEF CallFails, Abandon, Unanswered, leaseVars, setVars, passVars, Ages
    <3> QED
      BY <3>1, <3>2, <3>3, <3>4 DEF CallFails, Abandon, Unanswered, leaseVars, setVars, passVars, Transit, MaybeExpired
  <2> QED
    BY <2>1, <2>2
<1> QED  BY <1>1, <1>2, <1>3, <1>4, <1>5, <1>6 DEF IInv

LEMMA EnterStep ==
    ASSUME Margin, IInv, NEW r \in Replica, Enter(r)
    PROVE  IInv'
<1> USE ShardLeaseAssumption DEF IInv, TypeOK, Calls, HoldCalls, ReleaseCalls, Drains
<1>1. TypeOK'
  BY CapNat, OlderFacts DEF Enter, leaseVars, setVars, passVars, Places, Request
<1>2. ASSUME NEW s \in Replica PROVE Ages(s)'
  BY CapNat, OlderFacts DEF Enter, leaseVars, setVars, passVars, Ages, Lease, Where, InTime, Guarded, Margin, Transit
<1>3. ASSUME NEW s \in Replica PROVE Lease(s)'
  BY GuardedAge, <1>2 DEF Enter, leaseVars, setVars, passVars, Lease, Copy, Where, InTime, Guarded, Transit, Mine, MaybeExpired
<1>4. ASSUME NEW s \in Replica PROVE Copy(s)'
  BY CapNat, OlderFacts DEF Enter, leaseVars, setVars, passVars, Lease, Copy, Where, InTime, Guarded, Mine, MaybeExpired
<1>5. ASSUME NEW s \in Replica PROVE Where(s)'
  BY DEF Enter, leaseVars, setVars, passVars, Where, Mine, Lease, Guarded
<1>6. ASSUME NEW q \in late' PROVE Transit(q)'
  BY CapNat, OlderFacts DEF Enter, leaseVars, setVars, passVars, Transit, Guarded, InTime, MaybeExpired, Copy, Where, Mine, Ages, Request
<1> QED  BY <1>1, <1>2, <1>3, <1>4, <1>5, <1>6 DEF IInv

LEMMA LeaveStep ==
    ASSUME Margin, IInv, NEW r \in Replica, Leave(r)
    PROVE  IInv'
<1> USE ShardLeaseAssumption DEF IInv, TypeOK, Calls, HoldCalls, ReleaseCalls, Drains
<1>1. TypeOK'
  BY CapNat, OlderFacts DEF Leave, leaseVars, setVars, passVars, Places, Request
<1>2. ASSUME NEW s \in Replica PROVE Ages(s)'
  BY CapNat, OlderFacts DEF Leave, leaseVars, setVars, passVars, Ages, Lease, Where, InTime, Guarded, Margin, Transit
<1>3. ASSUME NEW s \in Replica PROVE Lease(s)'
  BY GuardedAge, <1>2 DEF Leave, leaseVars, setVars, passVars, Lease, Copy, Where, InTime, Guarded, Transit, Mine, MaybeExpired
<1>4. ASSUME NEW s \in Replica PROVE Copy(s)'
  BY CapNat, OlderFacts DEF Leave, leaseVars, setVars, passVars, Lease, Copy, Where, InTime, Guarded, Mine, MaybeExpired
<1>5. ASSUME NEW s \in Replica PROVE Where(s)'
  BY DEF Leave, leaseVars, setVars, passVars, Where, Mine, Lease, Guarded
<1>6. ASSUME NEW q \in late' PROVE Transit(q)'
  BY CapNat, OlderFacts DEF Leave, leaseVars, setVars, passVars, Transit, Guarded, InTime, MaybeExpired, Copy, Where, Mine, Ages, Request
<1> QED  BY <1>1, <1>2, <1>3, <1>4, <1>5, <1>6 DEF IInv

LEMMA SweepStep ==
    ASSUME Margin, IInv, NEW r \in Replica, Sweep(r)
    PROVE  IInv'
<1> USE ShardLeaseAssumption DEF IInv, TypeOK, Calls, HoldCalls, ReleaseCalls, Drains
<1>1. TypeOK'
  BY CapNat, OlderFacts DEF Sweep, Revoke, leaseVars, setVars, passVars, Places, Request
<1>2. ASSUME NEW s \in Replica PROVE Ages(s)'
  BY CapNat, OlderFacts DEF Sweep, Revoke, leaseVars, setVars, passVars, Ages, Lease, Where, InTime, Guarded, Margin, Transit
<1>3. ASSUME NEW s \in Replica PROVE Lease(s)'
  BY GuardedAge, <1>2 DEF Sweep, Revoke, leaseVars, setVars, passVars, Lease, Copy, Where, InTime, Guarded, Transit, Mine, MaybeExpired
<1>4. ASSUME NEW s \in Replica PROVE Copy(s)'
  BY CapNat, OlderFacts DEF Sweep, Revoke, leaseVars, setVars, passVars, Lease, Copy, Where, InTime, Guarded, Mine, MaybeExpired
<1>5. ASSUME NEW s \in Replica PROVE Where(s)'
  BY DEF Sweep, Revoke, leaseVars, setVars, passVars, Where, Mine, Lease, Guarded
<1>6. ASSUME NEW q \in late' PROVE Transit(q)'
  BY CapNat, OlderFacts DEF Sweep, Revoke, leaseVars, setVars, passVars, Transit, Guarded, InTime, MaybeExpired, Copy, Where, Mine, Ages, Request
<1> QED  BY <1>1, <1>2, <1>3, <1>4, <1>5, <1>6 DEF IInv

LEMMA ListStep ==
    ASSUME Margin, IInv, NEW r \in Replica, List(r)
    PROVE  IInv'
<1> USE ShardLeaseAssumption DEF IInv, TypeOK, Calls, HoldCalls, ReleaseCalls, Drains
<1>1. TypeOK'
  BY CapNat, OlderFacts DEF List, LeaseSeen, Goto, Expired, leaseVars, setVars, passVars, Places, Request
<1>2. ASSUME NEW s \in Replica PROVE Ages(s)'
  BY CapNat, OlderFacts DEF List, LeaseSeen, Goto, Expired, leaseVars, setVars, passVars, Ages, Lease, Where, InTime, Guarded, Margin, Transit
<1>3. ASSUME NEW s \in Replica PROVE Lease(s)'
  BY GuardedAge, <1>2 DEF List, LeaseSeen, Goto, Expired, leaseVars, setVars, passVars, Lease, Copy, Where, InTime, Guarded, Transit, Mine, MaybeExpired
<1>4. ASSUME NEW s \in Replica PROVE Copy(s)'
  BY CapNat, OlderFacts DEF List, LeaseSeen, Goto, Expired, leaseVars, setVars, passVars, Lease, Copy, Where, InTime, Guarded, Mine, MaybeExpired
<1>5. ASSUME NEW s \in Replica PROVE Where(s)'
  BY DEF List, LeaseSeen, Goto, Expired, leaseVars, setVars, passVars, Where, Mine, Lease, Guarded
<1>6. ASSUME NEW q \in late' PROVE Transit(q)'
  <2>1. q \in late /\ q.replica \in Replica /\ Transit(q)
    BY DEF List, LeaseSeen, Goto, Expired, leaseVars, setVars, passVars, Request
  <2>2. Guarded(q.replica)' => Guarded(q.replica)
    BY <2>1 DEF List, LeaseSeen, Goto, Expired, leaseVars, setVars, passVars, Guarded, InTime, Where
  <2>3. CASE q.replica = r
    BY <2>1, <2>2, <2>3 DEF List, LeaseSeen, Goto, Expired, leaseVars, setVars, passVars, Transit, Guarded, InTime, MaybeExpired
  <2>4. CASE q.replica # r
    BY <2>1, <2>2, <2>4 DEF List, LeaseSeen, Goto, Expired, leaseVars, setVars, passVars, Transit, MaybeExpired
  <2> QED
    BY <2>3, <2>4
<1> QED  BY <1>1, <1>2, <1>3, <1>4, <1>5, <1>6 DEF IInv

LEMMA CheckStep ==
    ASSUME Margin, IInv, NEW r \in Replica, Check(r)
    PROVE  IInv'
<1> USE ShardLeaseAssumption DEF IInv, TypeOK, Calls, HoldCalls, ReleaseCalls, Drains
<1>1. TypeOK'
  <2>1. /\ at' \in [Replica -> Places]
        /\ answer' \in [Replica -> {"none", "sent", "ok", "conflict", "error"}]
        /\ seen' \in [Replica -> {"mine", "free", "other"}]
    BY DEF Check, Revoke, Goto, StartCall, RenewalDue, leaseVars, setVars, passVars, Places
  <2>2. callAge' \in [Replica -> 0..Cap]
    BY ZeroAge DEF Check, Revoke, Goto, StartCall, RenewalDue, leaseVars, setVars, passVars
  <2>3. wait' \in [Replica -> 0..Cap]
    BY ZeroAge DEF Check, Revoke, Goto, StartCall, RenewalDue, leaseVars, setVars, passVars
  <2>4. confirmed' \in [Replica -> 0..Cap]
    BY ZeroAge DEF Check, Revoke, Goto, StartCall, RenewalDue, leaseVars, setVars, passVars
  <2>5. /\ holder' \in Replica \cup {NoOne}
        /\ age' \in 0..Cap
        /\ calm' \in BOOLEAN
    BY CapNat, OlderFacts DEF Check, Revoke, Goto, StartCall, RenewalDue, leaseVars, setVars, passVars
  <2>6. late' \subseteq Request
    BY ZeroAge DEF Check, Revoke, Goto, StartCall, RenewalDue, leaseVars, setVars, passVars, Request
  <2>7. /\ held' \subseteq Replica
        /\ entered' \subseteq held'
        /\ cancelled' \subseteq Replica
        /\ fresh' \subseteq Replica
    BY DEF Check, Revoke, Goto, StartCall, RenewalDue, leaseVars, setVars, passVars
  <2>8. drained' \subseteq {s \in Replica : at'[s] = "drain"}
    BY <2>1 DEF Check, Revoke, Goto, StartCall, RenewalDue, leaseVars, setVars, passVars
  <2>9. settling' \subseteq {s \in Replica : at'[s] \in {"settle", "stopdrain"}}
    BY <2>1 DEF Check, Revoke, Goto, StartCall, RenewalDue, leaseVars, setVars, passVars
  <2> QED
    BY <2>1, <2>2, <2>3, <2>4, <2>5, <2>6, <2>7, <2>8, <2>9
<1>2. ASSUME NEW s \in Replica PROVE Ages(s)'
  BY CapNat, OlderFacts DEF Check, Revoke, Goto, StartCall, RenewalDue, leaseVars, setVars, passVars, Ages, Lease, Where, InTime, Guarded, Margin, Transit
<1>3. ASSUME NEW s \in Replica PROVE Lease(s)'
  BY GuardedAge, <1>2 DEF Check, Revoke, Goto, StartCall, RenewalDue, leaseVars, setVars, passVars, Lease, Copy, Where, InTime, Guarded, Transit, Mine, MaybeExpired
<1>4. ASSUME NEW s \in Replica PROVE Copy(s)'
  BY CapNat, OlderFacts DEF Check, Revoke, Goto, StartCall, RenewalDue, leaseVars, setVars, passVars, Lease, Copy, Where, InTime, Guarded, Mine, MaybeExpired
<1>5. ASSUME NEW s \in Replica PROVE Where(s)'
  BY DEF Check, Revoke, Goto, StartCall, RenewalDue, leaseVars, setVars, passVars, Where, Mine, Lease, Guarded
<1>6. ASSUME NEW q \in late' PROVE Transit(q)'
  <2>1. q \in late /\ q.replica \in Replica /\ Transit(q)
    BY DEF Check, Revoke, Goto, StartCall, RenewalDue, leaseVars, setVars, passVars, Request
  <2>2. Guarded(q.replica)' => Guarded(q.replica)
    BY <2>1 DEF Check, Revoke, Goto, StartCall, RenewalDue, leaseVars, setVars, passVars, Guarded, InTime, Where
  <2>3. CASE q.replica = r
    BY <2>1, <2>2, <2>3 DEF Check, Revoke, Goto, StartCall, RenewalDue, leaseVars, setVars, passVars, Transit, Guarded, InTime, MaybeExpired
  <2>4. CASE q.replica # r
    BY <2>1, <2>2, <2>4 DEF Check, Revoke, Goto, StartCall, RenewalDue, leaseVars, setVars, passVars, Transit, MaybeExpired
  <2> QED
    BY <2>3, <2>4
<1> QED  BY <1>1, <1>2, <1>3, <1>4, <1>5, <1>6 DEF IInv

LEMMA RenewedStep ==
    ASSUME Margin, IInv, NEW r \in Replica, Renewed(r)
    PROVE  IInv'
<1> USE ShardLeaseAssumption DEF IInv, TypeOK, Calls, HoldCalls, ReleaseCalls, Drains
<1>1. TypeOK'
  <2>1. /\ at' \in [Replica -> Places]
        /\ answer' \in [Replica -> {"none", "sent", "ok", "conflict", "error"}]
        /\ seen' \in [Replica -> {"mine", "free", "other"}]
    BY DEF Renewed, Revoke, Confirm, EndCall, Forget, Unanswered, leaseVars, setVars, passVars, Places
  <2>2. callAge' \in [Replica -> 0..Cap]
    BY ZeroAge DEF Renewed, Revoke, Confirm, EndCall, Forget, Unanswered, leaseVars, setVars, passVars
  <2>3. wait' \in [Replica -> 0..Cap]
    BY ZeroAge DEF Renewed, Revoke, Confirm, EndCall, Forget, Unanswered, leaseVars, setVars, passVars
  <2>4. confirmed' \in [Replica -> 0..Cap]
    BY ZeroAge DEF Renewed, Revoke, Confirm, EndCall, Forget, Unanswered, leaseVars, setVars, passVars
  <2>5. /\ holder' \in Replica \cup {NoOne}
        /\ age' \in 0..Cap
        /\ calm' \in BOOLEAN
    BY CapNat, OlderFacts DEF Renewed, Revoke, Confirm, EndCall, Forget, Unanswered, leaseVars, setVars, passVars
  <2>6. late' \subseteq Request
    BY ZeroAge DEF Renewed, Revoke, Confirm, EndCall, Forget, Unanswered, leaseVars, setVars, passVars, Request
  <2>7. /\ held' \subseteq Replica
        /\ entered' \subseteq held'
        /\ cancelled' \subseteq Replica
        /\ fresh' \subseteq Replica
    BY DEF Renewed, Revoke, Confirm, EndCall, Forget, Unanswered, leaseVars, setVars, passVars
  <2>8. drained' \subseteq {s \in Replica : at'[s] = "drain"}
    BY <2>1 DEF Renewed, Revoke, Confirm, EndCall, Forget, Unanswered, leaseVars, setVars, passVars
  <2>9. settling' \subseteq {s \in Replica : at'[s] \in {"settle", "stopdrain"}}
    BY <2>1 DEF Renewed, Revoke, Confirm, EndCall, Forget, Unanswered, leaseVars, setVars, passVars
  <2> QED
    BY <2>1, <2>2, <2>3, <2>4, <2>5, <2>6, <2>7, <2>8, <2>9
<1>2. ASSUME NEW s \in Replica PROVE Ages(s)'
  BY CapNat, OlderFacts DEF Renewed, Revoke, Confirm, EndCall, Forget, Unanswered, leaseVars, setVars, passVars, Ages, Lease, Where, InTime, Guarded, Margin, Transit
<1>3. ASSUME NEW s \in Replica PROVE Lease(s)'
  BY GuardedAge, <1>2 DEF Renewed, Revoke, Confirm, EndCall, Forget, Unanswered, leaseVars, setVars, passVars, Lease, Copy, Where, InTime, Guarded, Transit, Mine, MaybeExpired
<1>4. ASSUME NEW s \in Replica PROVE Copy(s)'
  BY CapNat, OlderFacts DEF Renewed, Revoke, Confirm, EndCall, Forget, Unanswered, leaseVars, setVars, passVars, Lease, Copy, Where, InTime, Guarded, Mine, MaybeExpired
<1>5. ASSUME NEW s \in Replica PROVE Where(s)'
  BY DEF Renewed, Revoke, Confirm, EndCall, Forget, Unanswered, leaseVars, setVars, passVars, Where, Mine, Lease, Guarded
<1>6. ASSUME NEW q \in late' PROVE Transit(q)'
  <2>1. q \in late /\ q.replica \in Replica /\ Transit(q)
    BY DEF Renewed, Revoke, Confirm, EndCall, Forget, Unanswered, leaseVars, setVars, passVars, Request
  <2>2. Guarded(q.replica)' => Guarded(q.replica)
    BY <2>1 DEF Renewed, Revoke, Confirm, EndCall, Forget, Unanswered, leaseVars, setVars, passVars, Guarded, InTime, Where
  <2>3. CASE q.replica = r
    BY <2>1, <2>2, <2>3 DEF Renewed, Revoke, Confirm, EndCall, Forget, Unanswered, leaseVars, setVars, passVars, Transit, Guarded, InTime, MaybeExpired
  <2>4. CASE q.replica # r
    BY <2>1, <2>2, <2>4 DEF Renewed, Revoke, Confirm, EndCall, Forget, Unanswered, leaseVars, setVars, passVars, Transit, MaybeExpired
  <2> QED
    BY <2>3, <2>4
<1> QED  BY <1>1, <1>2, <1>3, <1>4, <1>5, <1>6 DEF IInv

LEMMA ShedStep ==
    ASSUME Margin, IInv, NEW r \in Replica, Shed(r)
    PROVE  IInv'
<1> USE ShardLeaseAssumption DEF IInv, TypeOK, Calls, HoldCalls, ReleaseCalls, Drains
<1>1. TypeOK'
  <2>1. /\ at' \in [Replica -> Places]
        /\ answer' \in [Replica -> {"none", "sent", "ok", "conflict", "error"}]
        /\ seen' \in [Replica -> {"mine", "free", "other"}]
    BY DEF Shed, Goto, leaseVars, setVars, passVars, Places
  <2>2. callAge' \in [Replica -> 0..Cap]
    BY ZeroAge DEF Shed, Goto, leaseVars, setVars, passVars
  <2>3. wait' \in [Replica -> 0..Cap]
    BY ZeroAge DEF Shed, Goto, leaseVars, setVars, passVars
  <2>4. confirmed' \in [Replica -> 0..Cap]
    BY ZeroAge DEF Shed, Goto, leaseVars, setVars, passVars
  <2>5. /\ holder' \in Replica \cup {NoOne}
        /\ age' \in 0..Cap
        /\ calm' \in BOOLEAN
    BY CapNat, OlderFacts DEF Shed, Goto, leaseVars, setVars, passVars
  <2>6. late' \subseteq Request
    BY ZeroAge DEF Shed, Goto, leaseVars, setVars, passVars, Request
  <2>7. /\ held' \subseteq Replica
        /\ entered' \subseteq held'
        /\ cancelled' \subseteq Replica
        /\ fresh' \subseteq Replica
    BY DEF Shed, Goto, leaseVars, setVars, passVars
  <2>8. drained' \subseteq {s \in Replica : at'[s] = "drain"}
    BY <2>1 DEF Shed, Goto, leaseVars, setVars, passVars
  <2>9. settling' \subseteq {s \in Replica : at'[s] \in {"settle", "stopdrain"}}
    BY <2>1 DEF Shed, Goto, leaseVars, setVars, passVars
  <2> QED
    BY <2>1, <2>2, <2>3, <2>4, <2>5, <2>6, <2>7, <2>8, <2>9
<1>2. ASSUME NEW s \in Replica PROVE Ages(s)'
  BY CapNat, OlderFacts DEF Shed, Goto, leaseVars, setVars, passVars, Ages, Lease, Where, InTime, Guarded, Margin, Transit
<1>3. ASSUME NEW s \in Replica PROVE Lease(s)'
  BY GuardedAge, <1>2 DEF Shed, Goto, leaseVars, setVars, passVars, Lease, Copy, Where, InTime, Guarded, Transit, Mine, MaybeExpired
<1>4. ASSUME NEW s \in Replica PROVE Copy(s)'
  BY CapNat, OlderFacts DEF Shed, Goto, leaseVars, setVars, passVars, Lease, Copy, Where, InTime, Guarded, Mine, MaybeExpired
<1>5. ASSUME NEW s \in Replica PROVE Where(s)'
  BY DEF Shed, Goto, leaseVars, setVars, passVars, Where, Mine, Lease, Guarded
<1>6. ASSUME NEW q \in late' PROVE Transit(q)'
  <2>1. q \in late /\ q.replica \in Replica /\ Transit(q)
    BY DEF Shed, Goto, leaseVars, setVars, passVars, Request
  <2>2. Guarded(q.replica)' => Guarded(q.replica)
    BY <2>1 DEF Shed, Goto, leaseVars, setVars, passVars, Guarded, InTime, Where
  <2>3. CASE q.replica = r
    BY <2>1, <2>2, <2>3 DEF Shed, Goto, leaseVars, setVars, passVars, Transit, Guarded, InTime, MaybeExpired
  <2>4. CASE q.replica # r
    BY <2>1, <2>2, <2>4 DEF Shed, Goto, leaseVars, setVars, passVars, Transit, MaybeExpired
  <2> QED
    BY <2>3, <2>4
<1> QED  BY <1>1, <1>2, <1>3, <1>4, <1>5, <1>6 DEF IInv

LEMMA DrainTimeoutStep ==
    ASSUME Margin, IInv, NEW r \in Replica, DrainTimeout(r)
    PROVE  IInv'
<1> USE ShardLeaseAssumption DEF IInv, TypeOK, Calls, HoldCalls, ReleaseCalls, Drains
<1>1. TypeOK'
  BY CapNat, OlderFacts DEF DrainTimeout, Goto, leaseVars, setVars, passVars, Places, Request
<1>2. ASSUME NEW s \in Replica PROVE Ages(s)'
  BY CapNat, OlderFacts DEF DrainTimeout, Goto, leaseVars, setVars, passVars, Ages, Lease, Where, InTime, Guarded, Margin, Transit
<1>3. ASSUME NEW s \in Replica PROVE Lease(s)'
  BY GuardedAge, <1>2 DEF DrainTimeout, Goto, leaseVars, setVars, passVars, Lease, Copy, Where, InTime, Guarded, Transit, Mine, MaybeExpired
<1>4. ASSUME NEW s \in Replica PROVE Copy(s)'
  BY CapNat, OlderFacts DEF DrainTimeout, Goto, leaseVars, setVars, passVars, Lease, Copy, Where, InTime, Guarded, Mine, MaybeExpired
<1>5. ASSUME NEW s \in Replica PROVE Where(s)'
  BY DEF DrainTimeout, Goto, leaseVars, setVars, passVars, Where, Mine, Lease, Guarded
<1>6. ASSUME NEW q \in late' PROVE Transit(q)'
  BY CapNat, OlderFacts DEF DrainTimeout, Goto, leaseVars, setVars, passVars, Transit, Guarded, InTime, MaybeExpired, Copy, Where, Mine, Ages, Request
<1> QED  BY <1>1, <1>2, <1>3, <1>4, <1>5, <1>6 DEF IInv

LEMMA StillBusyStep ==
    ASSUME Margin, IInv, NEW r \in Replica, StillBusy(r)
    PROVE  IInv'
<1> USE ShardLeaseAssumption DEF IInv, TypeOK, Calls, HoldCalls, ReleaseCalls, Drains
<1>1. TypeOK'
  BY CapNat, OlderFacts DEF StillBusy, Goto, leaseVars, setVars, passVars, Places, Request
<1>2. ASSUME NEW s \in Replica PROVE Ages(s)'
  BY CapNat, OlderFacts DEF StillBusy, Goto, leaseVars, setVars, passVars, Ages, Lease, Where, InTime, Guarded, Margin, Transit
<1>3. ASSUME NEW s \in Replica PROVE Lease(s)'
  BY GuardedAge, <1>2 DEF StillBusy, Goto, leaseVars, setVars, passVars, Lease, Copy, Where, InTime, Guarded, Transit, Mine, MaybeExpired
<1>4. ASSUME NEW s \in Replica PROVE Copy(s)'
  BY CapNat, OlderFacts DEF StillBusy, Goto, leaseVars, setVars, passVars, Lease, Copy, Where, InTime, Guarded, Mine, MaybeExpired
<1>5. ASSUME NEW s \in Replica PROVE Where(s)'
  BY DEF StillBusy, Goto, leaseVars, setVars, passVars, Where, Mine, Lease, Guarded
<1>6. ASSUME NEW q \in late' PROVE Transit(q)'
  BY CapNat, OlderFacts DEF StillBusy, Goto, leaseVars, setVars, passVars, Transit, Guarded, InTime, MaybeExpired, Copy, Where, Mine, Ages, Request
<1> QED  BY <1>1, <1>2, <1>3, <1>4, <1>5, <1>6 DEF IInv

LEMMA ReleaseStep ==
    ASSUME Margin, IInv, NEW r \in Replica, Release(r)
    PROVE  IInv'
<1> USE ShardLeaseAssumption DEF IInv, TypeOK, Calls, HoldCalls, ReleaseCalls, Drains
<1>1. TypeOK'
  BY CapNat, OlderFacts DEF Release, StartCall, leaseVars, setVars, passVars, Places, Request
<1>2. ASSUME NEW s \in Replica PROVE Ages(s)'
  BY CapNat, OlderFacts DEF Release, StartCall, leaseVars, setVars, passVars, Ages, Lease, Where, InTime, Guarded, Margin, Transit
<1>3. ASSUME NEW s \in Replica PROVE Lease(s)'
  BY GuardedAge, <1>2 DEF Release, StartCall, leaseVars, setVars, passVars, Lease, Copy, Where, InTime, Guarded, Transit, Mine, MaybeExpired
<1>4. ASSUME NEW s \in Replica PROVE Copy(s)'
  BY CapNat, OlderFacts DEF Release, StartCall, leaseVars, setVars, passVars, Lease, Copy, Where, InTime, Guarded, Mine, MaybeExpired
<1>5. ASSUME NEW s \in Replica PROVE Where(s)'
  BY DEF Release, StartCall, leaseVars, setVars, passVars, Where, Mine, Lease, Guarded
<1>6. ASSUME NEW q \in late' PROVE Transit(q)'
  BY CapNat, OlderFacts DEF Release, StartCall, leaseVars, setVars, passVars, Transit, Guarded, InTime, MaybeExpired, Copy, Where, Mine, Ages, Request
<1> QED  BY <1>1, <1>2, <1>3, <1>4, <1>5, <1>6 DEF IInv

LEMMA ReleasedStep ==
    ASSUME Margin, IInv, NEW r \in Replica, Released(r)
    PROVE  IInv'
<1> USE ShardLeaseAssumption DEF IInv, TypeOK, Calls, HoldCalls, ReleaseCalls, Drains
<1>1. TypeOK'
  <2>1. /\ at' \in [Replica -> Places]
        /\ answer' \in [Replica -> {"none", "sent", "ok", "conflict", "error"}]
        /\ seen' \in [Replica -> {"mine", "free", "other"}]
    BY DEF Released, EndCall, Forget, Unanswered, leaseVars, setVars, passVars, Places
  <2>2. callAge' \in [Replica -> 0..Cap]
    BY ZeroAge DEF Released, EndCall, Forget, Unanswered, leaseVars, setVars, passVars
  <2>3. wait' \in [Replica -> 0..Cap]
    BY ZeroAge DEF Released, EndCall, Forget, Unanswered, leaseVars, setVars, passVars
  <2>4. confirmed' \in [Replica -> 0..Cap]
    BY ZeroAge DEF Released, EndCall, Forget, Unanswered, leaseVars, setVars, passVars
  <2>5. /\ holder' \in Replica \cup {NoOne}
        /\ age' \in 0..Cap
        /\ calm' \in BOOLEAN
    BY CapNat, OlderFacts DEF Released, EndCall, Forget, Unanswered, leaseVars, setVars, passVars
  <2>6. late' \subseteq Request
    BY ZeroAge DEF Released, EndCall, Forget, Unanswered, leaseVars, setVars, passVars, Request
  <2>7. /\ held' \subseteq Replica
        /\ entered' \subseteq held'
        /\ cancelled' \subseteq Replica
        /\ fresh' \subseteq Replica
    BY DEF Released, EndCall, Forget, Unanswered, leaseVars, setVars, passVars
  <2>8. drained' \subseteq {s \in Replica : at'[s] = "drain"}
    BY <2>1 DEF Released, EndCall, Forget, Unanswered, leaseVars, setVars, passVars
  <2>9. settling' \subseteq {s \in Replica : at'[s] \in {"settle", "stopdrain"}}
    BY <2>1 DEF Released, EndCall, Forget, Unanswered, leaseVars, setVars, passVars
  <2> QED
    BY <2>1, <2>2, <2>3, <2>4, <2>5, <2>6, <2>7, <2>8, <2>9
<1>2. ASSUME NEW s \in Replica PROVE Ages(s)'
  BY CapNat, OlderFacts DEF Released, EndCall, Forget, Unanswered, leaseVars, setVars, passVars, Ages, Lease, Where, InTime, Guarded, Margin, Transit
<1>3. ASSUME NEW s \in Replica PROVE Lease(s)'
  BY GuardedAge, <1>2 DEF Released, EndCall, Forget, Unanswered, leaseVars, setVars, passVars, Lease, Copy, Where, InTime, Guarded, Transit, Mine, MaybeExpired
<1>4. ASSUME NEW s \in Replica PROVE Copy(s)'
  BY CapNat, OlderFacts DEF Released, EndCall, Forget, Unanswered, leaseVars, setVars, passVars, Lease, Copy, Where, InTime, Guarded, Mine, MaybeExpired
<1>5. ASSUME NEW s \in Replica PROVE Where(s)'
  BY DEF Released, EndCall, Forget, Unanswered, leaseVars, setVars, passVars, Where, Mine, Lease, Guarded
<1>6. ASSUME NEW q \in late' PROVE Transit(q)'
  <2>1. q \in late /\ q.replica \in Replica /\ Transit(q)
    BY DEF Released, EndCall, Forget, Unanswered, leaseVars, setVars, passVars, Request
  <2>2. Guarded(q.replica)' => Guarded(q.replica)
    BY <2>1 DEF Released, EndCall, Forget, Unanswered, leaseVars, setVars, passVars, Guarded, InTime, Where
  <2>3. CASE q.replica = r
    BY <2>1, <2>2, <2>3 DEF Released, EndCall, Forget, Unanswered, leaseVars, setVars, passVars, Transit, Guarded, InTime, MaybeExpired
  <2>4. CASE q.replica # r
    BY <2>1, <2>2, <2>4 DEF Released, EndCall, Forget, Unanswered, leaseVars, setVars, passVars, Transit, MaybeExpired
  <2> QED
    BY <2>3, <2>4
<1> QED  BY <1>1, <1>2, <1>3, <1>4, <1>5, <1>6 DEF IInv

LEMMA RegetStep ==
    ASSUME Margin, IInv, NEW r \in Replica, Reget(r)
    PROVE  IInv'
<1> USE ShardLeaseAssumption DEF IInv, TypeOK, Calls, HoldCalls, ReleaseCalls, Drains
<1>1. TypeOK'
  <2>1. /\ at' \in [Replica -> Places]
        /\ answer' \in [Replica -> {"none", "sent", "ok", "conflict", "error"}]
        /\ seen' \in [Replica -> {"mine", "free", "other"}]
    BY DEF Reget, StartCall, Goto, Forget, leaseVars, setVars, passVars, Places
  <2>2. callAge' \in [Replica -> 0..Cap]
    BY ZeroAge DEF Reget, StartCall, Goto, Forget, leaseVars, setVars, passVars
  <2>3. wait' \in [Replica -> 0..Cap]
    BY ZeroAge DEF Reget, StartCall, Goto, Forget, leaseVars, setVars, passVars
  <2>4. confirmed' \in [Replica -> 0..Cap]
    BY ZeroAge DEF Reget, StartCall, Goto, Forget, leaseVars, setVars, passVars
  <2>5. /\ holder' \in Replica \cup {NoOne}
        /\ age' \in 0..Cap
        /\ calm' \in BOOLEAN
    BY CapNat, OlderFacts DEF Reget, StartCall, Goto, Forget, leaseVars, setVars, passVars
  <2>6. late' \subseteq Request
    BY ZeroAge DEF Reget, StartCall, Goto, Forget, leaseVars, setVars, passVars, Request
  <2>7. /\ held' \subseteq Replica
        /\ entered' \subseteq held'
        /\ cancelled' \subseteq Replica
        /\ fresh' \subseteq Replica
    BY DEF Reget, StartCall, Goto, Forget, leaseVars, setVars, passVars
  <2>8. drained' \subseteq {s \in Replica : at'[s] = "drain"}
    BY <2>1 DEF Reget, StartCall, Goto, Forget, leaseVars, setVars, passVars
  <2>9. settling' \subseteq {s \in Replica : at'[s] \in {"settle", "stopdrain"}}
    BY <2>1 DEF Reget, StartCall, Goto, Forget, leaseVars, setVars, passVars
  <2> QED
    BY <2>1, <2>2, <2>3, <2>4, <2>5, <2>6, <2>7, <2>8, <2>9
<1>2. ASSUME NEW s \in Replica PROVE Ages(s)'
  BY CapNat, OlderFacts DEF Reget, StartCall, Goto, Forget, leaseVars, setVars, passVars, Ages, Lease, Where, InTime, Guarded, Margin, Transit
<1>3. ASSUME NEW s \in Replica PROVE Lease(s)'
  BY GuardedAge, <1>2 DEF Reget, StartCall, Goto, Forget, leaseVars, setVars, passVars, Lease, Copy, Where, InTime, Guarded, Transit, Mine, MaybeExpired
<1>4. ASSUME NEW s \in Replica PROVE Copy(s)'
  BY CapNat, OlderFacts DEF Reget, StartCall, Goto, Forget, leaseVars, setVars, passVars, Lease, Copy, Where, InTime, Guarded, Mine, MaybeExpired
<1>5. ASSUME NEW s \in Replica PROVE Where(s)'
  BY DEF Reget, StartCall, Goto, Forget, leaseVars, setVars, passVars, Where, Mine, Lease, Guarded
<1>6. ASSUME NEW q \in late' PROVE Transit(q)'
  <2>1. q \in late /\ q.replica \in Replica /\ Transit(q)
    BY DEF Reget, StartCall, Goto, Forget, leaseVars, setVars, passVars, Request
  <2>2. Guarded(q.replica)' => Guarded(q.replica)
    BY <2>1 DEF Reget, StartCall, Goto, Forget, leaseVars, setVars, passVars, Guarded, InTime, Where
  <2>3. CASE q.replica = r
    BY <2>1, <2>2, <2>3 DEF Reget, StartCall, Goto, Forget, leaseVars, setVars, passVars, Transit, Guarded, InTime, MaybeExpired
  <2>4. CASE q.replica # r
    BY <2>1, <2>2, <2>4 DEF Reget, StartCall, Goto, Forget, leaseVars, setVars, passVars, Transit, MaybeExpired
  <2> QED
    BY <2>3, <2>4
<1> QED  BY <1>1, <1>2, <1>3, <1>4, <1>5, <1>6 DEF IInv

LEMMA AcquireStep ==
    ASSUME Margin, IInv, NEW r \in Replica, Acquire(r)
    PROVE  IInv'
<1> USE ShardLeaseAssumption DEF IInv, TypeOK, Calls, HoldCalls, ReleaseCalls, Drains
<1>1. TypeOK'
  <2>1. /\ at' \in [Replica -> Places]
        /\ answer' \in [Replica -> {"none", "sent", "ok", "conflict", "error"}]
        /\ seen' \in [Replica -> {"mine", "free", "other"}]
    BY DEF Acquire, StartCall, Goto, Claimable, leaseVars, setVars, passVars, Places
  <2>2. callAge' \in [Replica -> 0..Cap]
    BY ZeroAge DEF Acquire, StartCall, Goto, Claimable, leaseVars, setVars, passVars
  <2>3. wait' \in [Replica -> 0..Cap]
    BY ZeroAge DEF Acquire, StartCall, Goto, Claimable, leaseVars, setVars, passVars
  <2>4. confirmed' \in [Replica -> 0..Cap]
    BY ZeroAge DEF Acquire, StartCall, Goto, Claimable, leaseVars, setVars, passVars
  <2>5. /\ holder' \in Replica \cup {NoOne}
        /\ age' \in 0..Cap
        /\ calm' \in BOOLEAN
    BY CapNat, OlderFacts DEF Acquire, StartCall, Goto, Claimable, leaseVars, setVars, passVars
  <2>6. late' \subseteq Request
    BY ZeroAge DEF Acquire, StartCall, Goto, Claimable, leaseVars, setVars, passVars, Request
  <2>7. /\ held' \subseteq Replica
        /\ entered' \subseteq held'
        /\ cancelled' \subseteq Replica
        /\ fresh' \subseteq Replica
    BY DEF Acquire, StartCall, Goto, Claimable, leaseVars, setVars, passVars
  <2>8. drained' \subseteq {s \in Replica : at'[s] = "drain"}
    BY <2>1 DEF Acquire, StartCall, Goto, Claimable, leaseVars, setVars, passVars
  <2>9. settling' \subseteq {s \in Replica : at'[s] \in {"settle", "stopdrain"}}
    BY <2>1 DEF Acquire, StartCall, Goto, Claimable, leaseVars, setVars, passVars
  <2> QED
    BY <2>1, <2>2, <2>3, <2>4, <2>5, <2>6, <2>7, <2>8, <2>9
<1>2. ASSUME NEW s \in Replica PROVE Ages(s)'
  BY CapNat, OlderFacts DEF Acquire, StartCall, Goto, Claimable, leaseVars, setVars, passVars, Ages, Lease, Where, InTime, Guarded, Margin, Transit
<1>3. ASSUME NEW s \in Replica PROVE Lease(s)'
  BY GuardedAge, <1>2 DEF Acquire, StartCall, Goto, Claimable, leaseVars, setVars, passVars, Lease, Copy, Where, InTime, Guarded, Transit, Mine, MaybeExpired
<1>4. ASSUME NEW s \in Replica PROVE Copy(s)'
  BY CapNat, OlderFacts DEF Acquire, StartCall, Goto, Claimable, leaseVars, setVars, passVars, Lease, Copy, Where, InTime, Guarded, Mine, MaybeExpired
<1>5. ASSUME NEW s \in Replica PROVE Where(s)'
  BY DEF Acquire, StartCall, Goto, Claimable, leaseVars, setVars, passVars, Where, Mine, Lease, Guarded
<1>6. ASSUME NEW q \in late' PROVE Transit(q)'
  <2>1. q \in late /\ q.replica \in Replica /\ Transit(q)
    BY DEF Acquire, StartCall, Goto, Claimable, leaseVars, setVars, passVars, Request
  <2>2. Guarded(q.replica)' => Guarded(q.replica)
    BY <2>1 DEF Acquire, StartCall, Goto, Claimable, leaseVars, setVars, passVars, Guarded, InTime, Where
  <2>3. CASE q.replica = r
    BY <2>1, <2>2, <2>3 DEF Acquire, StartCall, Goto, Claimable, leaseVars, setVars, passVars, Transit, Guarded, InTime, MaybeExpired
  <2>4. CASE q.replica # r
    BY <2>1, <2>2, <2>4 DEF Acquire, StartCall, Goto, Claimable, leaseVars, setVars, passVars, Transit, MaybeExpired
  <2> QED
    BY <2>3, <2>4
<1> QED  BY <1>1, <1>2, <1>3, <1>4, <1>5, <1>6 DEF IInv

LEMMA ClaimedStep ==
    ASSUME Margin, IInv, NEW r \in Replica, Claimed(r)
    PROVE  IInv'
<1> USE ShardLeaseAssumption DEF IInv, TypeOK, Calls, HoldCalls, ReleaseCalls, Drains
<1>1. TypeOK'
  <2>1. /\ at' \in [Replica -> Places]
        /\ answer' \in [Replica -> {"none", "sent", "ok", "conflict", "error"}]
        /\ seen' \in [Replica -> {"mine", "free", "other"}]
    BY DEF Claimed, EndCall, Unanswered, leaseVars, setVars, passVars, Places
  <2>2. callAge' \in [Replica -> 0..Cap]
    BY ZeroAge DEF Claimed, EndCall, Unanswered, leaseVars, setVars, passVars
  <2>3. wait' \in [Replica -> 0..Cap]
    BY ZeroAge DEF Claimed, EndCall, Unanswered, leaseVars, setVars, passVars
  <2>4. confirmed' \in [Replica -> 0..Cap]
    BY ZeroAge DEF Claimed, EndCall, Unanswered, leaseVars, setVars, passVars
  <2>5. /\ holder' \in Replica \cup {NoOne}
        /\ age' \in 0..Cap
        /\ calm' \in BOOLEAN
    BY CapNat, OlderFacts DEF Claimed, EndCall, Unanswered, leaseVars, setVars, passVars
  <2>6. late' \subseteq Request
    BY ZeroAge DEF Claimed, EndCall, Unanswered, leaseVars, setVars, passVars, Request
  <2>7. /\ held' \subseteq Replica
        /\ entered' \subseteq held'
        /\ cancelled' \subseteq Replica
        /\ fresh' \subseteq Replica
    BY DEF Claimed, EndCall, Unanswered, leaseVars, setVars, passVars
  <2>8. drained' \subseteq {s \in Replica : at'[s] = "drain"}
    BY <2>1 DEF Claimed, EndCall, Unanswered, leaseVars, setVars, passVars
  <2>9. settling' \subseteq {s \in Replica : at'[s] \in {"settle", "stopdrain"}}
    BY <2>1 DEF Claimed, EndCall, Unanswered, leaseVars, setVars, passVars
  <2> QED
    BY <2>1, <2>2, <2>3, <2>4, <2>5, <2>6, <2>7, <2>8, <2>9
<1>2. ASSUME NEW s \in Replica PROVE Ages(s)'
  BY CapNat, OlderFacts DEF Claimed, EndCall, Unanswered, leaseVars, setVars, passVars, Ages, Lease, Where, InTime, Guarded, Margin, Transit
<1>3. ASSUME NEW s \in Replica PROVE Lease(s)'
  BY GuardedAge, <1>2 DEF Claimed, EndCall, Unanswered, leaseVars, setVars, passVars, Lease, Copy, Where, InTime, Guarded, Transit, Mine, MaybeExpired
<1>4. ASSUME NEW s \in Replica PROVE Copy(s)'
  BY CapNat, OlderFacts DEF Claimed, EndCall, Unanswered, leaseVars, setVars, passVars, Lease, Copy, Where, InTime, Guarded, Mine, MaybeExpired
<1>5. ASSUME NEW s \in Replica PROVE Where(s)'
  BY DEF Claimed, EndCall, Unanswered, leaseVars, setVars, passVars, Where, Mine, Lease, Guarded
<1>6. ASSUME NEW q \in late' PROVE Transit(q)'
  <2>1. q \in late /\ q.replica \in Replica /\ Transit(q)
    BY DEF Claimed, EndCall, Unanswered, leaseVars, setVars, passVars, Request
  <2>2. Guarded(q.replica)' => Guarded(q.replica)
    BY <2>1 DEF Claimed, EndCall, Unanswered, leaseVars, setVars, passVars, Guarded, InTime, Where
  <2>3. CASE q.replica = r
    BY <2>1, <2>2, <2>3 DEF Claimed, EndCall, Unanswered, leaseVars, setVars, passVars, Transit, Guarded, InTime, MaybeExpired
  <2>4. CASE q.replica # r
    BY <2>1, <2>2, <2>4 DEF Claimed, EndCall, Unanswered, leaseVars, setVars, passVars, Transit, MaybeExpired
  <2> QED
    BY <2>3, <2>4
<1> QED  BY <1>1, <1>2, <1>3, <1>4, <1>5, <1>6 DEF IInv

LEMMA TailStep ==
    ASSUME Margin, IInv, NEW r \in Replica, Tail(r)
    PROVE  IInv'
<1> USE ShardLeaseAssumption DEF IInv, TypeOK, Calls, HoldCalls, ReleaseCalls, Drains
<1>1. TypeOK'
  <2>1. /\ at' \in [Replica -> Places]
        /\ answer' \in [Replica -> {"none", "sent", "ok", "conflict", "error"}]
        /\ seen' \in [Replica -> {"mine", "free", "other"}]
    BY DEF Tail, StartCall, Goto, Forget, RenewalDue, leaseVars, setVars, passVars, Places
  <2>2. callAge' \in [Replica -> 0..Cap]
    BY ZeroAge DEF Tail, StartCall, Goto, Forget, RenewalDue, leaseVars, setVars, passVars
  <2>3. wait' \in [Replica -> 0..Cap]
    BY ZeroAge DEF Tail, StartCall, Goto, Forget, RenewalDue, leaseVars, setVars, passVars
  <2>4. confirmed' \in [Replica -> 0..Cap]
    BY ZeroAge DEF Tail, StartCall, Goto, Forget, RenewalDue, leaseVars, setVars, passVars
  <2>5. /\ holder' \in Replica \cup {NoOne}
        /\ age' \in 0..Cap
        /\ calm' \in BOOLEAN
    BY CapNat, OlderFacts DEF Tail, StartCall, Goto, Forget, RenewalDue, leaseVars, setVars, passVars
  <2>6. late' \subseteq Request
    BY ZeroAge DEF Tail, StartCall, Goto, Forget, RenewalDue, leaseVars, setVars, passVars, Request
  <2>7. /\ held' \subseteq Replica
        /\ entered' \subseteq held'
        /\ cancelled' \subseteq Replica
        /\ fresh' \subseteq Replica
    BY DEF Tail, StartCall, Goto, Forget, RenewalDue, leaseVars, setVars, passVars
  <2>8. drained' \subseteq {s \in Replica : at'[s] = "drain"}
    BY <2>1 DEF Tail, StartCall, Goto, Forget, RenewalDue, leaseVars, setVars, passVars
  <2>9. settling' \subseteq {s \in Replica : at'[s] \in {"settle", "stopdrain"}}
    BY <2>1 DEF Tail, StartCall, Goto, Forget, RenewalDue, leaseVars, setVars, passVars
  <2> QED
    BY <2>1, <2>2, <2>3, <2>4, <2>5, <2>6, <2>7, <2>8, <2>9
<1>2. ASSUME NEW s \in Replica PROVE Ages(s)'
  BY CapNat, OlderFacts DEF Tail, StartCall, Goto, Forget, RenewalDue, leaseVars, setVars, passVars, Ages, Lease, Where, InTime, Guarded, Margin, Transit
<1>3. ASSUME NEW s \in Replica PROVE Lease(s)'
  BY GuardedAge, <1>2 DEF Tail, StartCall, Goto, Forget, RenewalDue, leaseVars, setVars, passVars, Lease, Copy, Where, InTime, Guarded, Transit, Mine, MaybeExpired
<1>4. ASSUME NEW s \in Replica PROVE Copy(s)'
  BY CapNat, OlderFacts DEF Tail, StartCall, Goto, Forget, RenewalDue, leaseVars, setVars, passVars, Lease, Copy, Where, InTime, Guarded, Mine, MaybeExpired
<1>5. ASSUME NEW s \in Replica PROVE Where(s)'
  BY DEF Tail, StartCall, Goto, Forget, RenewalDue, leaseVars, setVars, passVars, Where, Mine, Lease, Guarded
<1>6. ASSUME NEW q \in late' PROVE Transit(q)'
  <2>1. q \in late /\ q.replica \in Replica /\ Transit(q)
    BY DEF Tail, StartCall, Goto, Forget, RenewalDue, leaseVars, setVars, passVars, Request
  <2>2. Guarded(q.replica)' => Guarded(q.replica)
    BY <2>1 DEF Tail, StartCall, Goto, Forget, RenewalDue, leaseVars, setVars, passVars, Guarded, InTime, Where
  <2>3. CASE q.replica = r
    BY <2>1, <2>2, <2>3 DEF Tail, StartCall, Goto, Forget, RenewalDue, leaseVars, setVars, passVars, Transit, Guarded, InTime, MaybeExpired
  <2>4. CASE q.replica # r
    BY <2>1, <2>2, <2>4 DEF Tail, StartCall, Goto, Forget, RenewalDue, leaseVars, setVars, passVars, Transit, MaybeExpired
  <2> QED
    BY <2>3, <2>4
<1> QED  BY <1>1, <1>2, <1>3, <1>4, <1>5, <1>6 DEF IInv

LEMMA StopReleaseStep ==
    ASSUME Margin, IInv, NEW r \in Replica, StopRelease(r)
    PROVE  IInv'
<1> USE ShardLeaseAssumption DEF IInv, TypeOK, Calls, HoldCalls, ReleaseCalls, Drains
<1>1. TypeOK'
  BY CapNat, OlderFacts DEF StopRelease, StartCall, leaseVars, setVars, passVars, Places, Request
<1>2. ASSUME NEW s \in Replica PROVE Ages(s)'
  BY CapNat, OlderFacts DEF StopRelease, StartCall, leaseVars, setVars, passVars, Ages, Lease, Where, InTime, Guarded, Margin, Transit
<1>3. ASSUME NEW s \in Replica PROVE Lease(s)'
  BY GuardedAge, <1>2 DEF StopRelease, StartCall, leaseVars, setVars, passVars, Lease, Copy, Where, InTime, Guarded, Transit, Mine, MaybeExpired
<1>4. ASSUME NEW s \in Replica PROVE Copy(s)'
  BY CapNat, OlderFacts DEF StopRelease, StartCall, leaseVars, setVars, passVars, Lease, Copy, Where, InTime, Guarded, Mine, MaybeExpired
<1>5. ASSUME NEW s \in Replica PROVE Where(s)'
  BY DEF StopRelease, StartCall, leaseVars, setVars, passVars, Where, Mine, Lease, Guarded
<1>6. ASSUME NEW q \in late' PROVE Transit(q)'
  BY CapNat, OlderFacts DEF StopRelease, StartCall, leaseVars, setVars, passVars, Transit, Guarded, InTime, MaybeExpired, Copy, Where, Mine, Ages, Request
<1> QED  BY <1>1, <1>2, <1>3, <1>4, <1>5, <1>6 DEF IInv

LEMMA StopBusyStep ==
    ASSUME Margin, IInv, NEW r \in Replica, StopBusy(r)
    PROVE  IInv'
<1> USE ShardLeaseAssumption DEF IInv, TypeOK, Calls, HoldCalls, ReleaseCalls, Drains
<1>1. TypeOK'
  <2>1. /\ at' \in [Replica -> Places]
        /\ answer' \in [Replica -> {"none", "sent", "ok", "conflict", "error"}]
        /\ seen' \in [Replica -> {"mine", "free", "other"}]
    BY DEF StopBusy, Exit, Abandon, EndCall, Forget, leaseVars, setVars, passVars, Places
  <2>2. callAge' \in [Replica -> 0..Cap]
    BY ZeroAge DEF StopBusy, Exit, Abandon, EndCall, Forget, leaseVars, setVars, passVars
  <2>3. wait' \in [Replica -> 0..Cap]
    BY ZeroAge DEF StopBusy, Exit, Abandon, EndCall, Forget, leaseVars, setVars, passVars
  <2>4. confirmed' \in [Replica -> 0..Cap]
    BY ZeroAge DEF StopBusy, Exit, Abandon, EndCall, Forget, leaseVars, setVars, passVars
  <2>5. /\ holder' \in Replica \cup {NoOne}
        /\ age' \in 0..Cap
        /\ calm' \in BOOLEAN
    BY CapNat, OlderFacts DEF StopBusy, Exit, Abandon, EndCall, Forget, leaseVars, setVars, passVars
  <2>6. late' \subseteq Request
    <3> DEFINE new == [replica |-> r, hold |-> at[r] \in HoldCalls, age |-> callAge[r]]
    <3>1. (at[r] \in HoldCalls) \in BOOLEAN /\ callAge[r] \in 0..Cap
      OBVIOUS
    <3>2. new \in Request
      BY <3>1 DEF Request
    <3>3. late' \subseteq late \cup {new}
      BY DEF StopBusy, Exit, Abandon, EndCall, Forget, leaseVars, setVars, passVars
    <3> HIDE DEF new
    <3> QED
      BY <3>2, <3>3
  <2>7. /\ held' \subseteq Replica
        /\ entered' \subseteq held'
        /\ cancelled' \subseteq Replica
        /\ fresh' \subseteq Replica
    BY DEF StopBusy, Exit, Abandon, EndCall, Forget, leaseVars, setVars, passVars
  <2>8. drained' \subseteq {s \in Replica : at'[s] = "drain"}
    BY <2>1 DEF StopBusy, Exit, Abandon, EndCall, Forget, leaseVars, setVars, passVars
  <2>9. settling' \subseteq {s \in Replica : at'[s] \in {"settle", "stopdrain"}}
    BY <2>1 DEF StopBusy, Exit, Abandon, EndCall, Forget, leaseVars, setVars, passVars
  <2> QED
    BY <2>1, <2>2, <2>3, <2>4, <2>5, <2>6, <2>7, <2>8, <2>9
<1>2. ASSUME NEW s \in Replica PROVE Ages(s)'
  BY CapNat, OlderFacts DEF StopBusy, Exit, Abandon, EndCall, Forget, leaseVars, setVars, passVars, Ages, Lease, Where, InTime, Guarded, Margin, Transit
<1>3. ASSUME NEW s \in Replica PROVE Lease(s)'
  BY GuardedAge, <1>2 DEF StopBusy, Exit, Abandon, EndCall, Forget, leaseVars, setVars, passVars, Lease, Copy, Where, InTime, Guarded, Transit, Mine, MaybeExpired
<1>4. ASSUME NEW s \in Replica PROVE Copy(s)'
  BY CapNat, OlderFacts DEF StopBusy, Exit, Abandon, EndCall, Forget, leaseVars, setVars, passVars, Lease, Copy, Where, InTime, Guarded, Mine, MaybeExpired
<1>5. ASSUME NEW s \in Replica PROVE Where(s)'
  BY DEF StopBusy, Exit, Abandon, EndCall, Forget, leaseVars, setVars, passVars, Where, Mine, Lease, Guarded
<1>6. ASSUME NEW q \in late' PROVE Transit(q)'
  BY CapNat, OlderFacts DEF StopBusy, Exit, Abandon, EndCall, Forget, leaseVars, setVars, passVars, Transit, Guarded, InTime, MaybeExpired, Copy, Where, Mine, Ages, Request
<1> QED  BY <1>1, <1>2, <1>3, <1>4, <1>5, <1>6 DEF IInv

LEMMA StopStep ==
    ASSUME Margin, IInv, NEW r \in Replica, Stop(r)
    PROVE  IInv'
<1> USE ShardLeaseAssumption DEF IInv, TypeOK, Calls, HoldCalls, ReleaseCalls, Drains
<1>1. TypeOK'
  BY CapNat, OlderFacts DEF Stop, Goto, leaseVars, setVars, passVars, Places, Request
<1>2. ASSUME NEW s \in Replica PROVE Ages(s)'
  BY CapNat, OlderFacts DEF Stop, Goto, leaseVars, setVars, passVars, Ages, Lease, Where, InTime, Guarded, Margin, Transit
<1>3. ASSUME NEW s \in Replica PROVE Lease(s)'
  BY GuardedAge, <1>2 DEF Stop, Goto, leaseVars, setVars, passVars, Lease, Copy, Where, InTime, Guarded, Transit, Mine, MaybeExpired
<1>4. ASSUME NEW s \in Replica PROVE Copy(s)'
  BY CapNat, OlderFacts DEF Stop, Goto, leaseVars, setVars, passVars, Lease, Copy, Where, InTime, Guarded, Mine, MaybeExpired
<1>5. ASSUME NEW s \in Replica PROVE Where(s)'
  BY DEF Stop, Goto, leaseVars, setVars, passVars, Where, Mine, Lease, Guarded
<1>6. ASSUME NEW q \in late' PROVE Transit(q)'
  BY CapNat, OlderFacts DEF Stop, Goto, leaseVars, setVars, passVars, Transit, Guarded, InTime, MaybeExpired, Copy, Where, Mine, Ages, Request
<1> QED  BY <1>1, <1>2, <1>3, <1>4, <1>5, <1>6 DEF IInv

LEMMA CrashStep ==
    ASSUME Margin, IInv, NEW r \in Replica, Crash(r)
    PROVE  IInv'
<1> USE ShardLeaseAssumption DEF IInv, TypeOK, Calls, HoldCalls, ReleaseCalls, Drains
<1>1. TypeOK'
  <2>1. /\ at' \in [Replica -> Places]
        /\ answer' \in [Replica -> {"none", "sent", "ok", "conflict", "error"}]
        /\ seen' \in [Replica -> {"mine", "free", "other"}]
    BY DEF Crash, Exit, Abandon, EndCall, Forget, leaseVars, setVars, passVars, Places
  <2>2. callAge' \in [Replica -> 0..Cap]
    BY ZeroAge DEF Crash, Exit, Abandon, EndCall, Forget, leaseVars, setVars, passVars
  <2>3. wait' \in [Replica -> 0..Cap]
    BY ZeroAge DEF Crash, Exit, Abandon, EndCall, Forget, leaseVars, setVars, passVars
  <2>4. confirmed' \in [Replica -> 0..Cap]
    BY ZeroAge DEF Crash, Exit, Abandon, EndCall, Forget, leaseVars, setVars, passVars
  <2>5. /\ holder' \in Replica \cup {NoOne}
        /\ age' \in 0..Cap
        /\ calm' \in BOOLEAN
    BY CapNat, OlderFacts DEF Crash, Exit, Abandon, EndCall, Forget, leaseVars, setVars, passVars
  <2>6. late' \subseteq Request
    <3> DEFINE new == [replica |-> r, hold |-> at[r] \in HoldCalls, age |-> callAge[r]]
    <3>1. (at[r] \in HoldCalls) \in BOOLEAN /\ callAge[r] \in 0..Cap
      OBVIOUS
    <3>2. new \in Request
      BY <3>1 DEF Request
    <3>3. late' \subseteq late \cup {new}
      BY DEF Crash, Exit, Abandon, EndCall, Forget, leaseVars, setVars, passVars
    <3> HIDE DEF new
    <3> QED
      BY <3>2, <3>3
  <2>7. /\ held' \subseteq Replica
        /\ entered' \subseteq held'
        /\ cancelled' \subseteq Replica
        /\ fresh' \subseteq Replica
    BY DEF Crash, Exit, Abandon, EndCall, Forget, leaseVars, setVars, passVars
  <2>8. drained' \subseteq {s \in Replica : at'[s] = "drain"}
    BY <2>1 DEF Crash, Exit, Abandon, EndCall, Forget, leaseVars, setVars, passVars
  <2>9. settling' \subseteq {s \in Replica : at'[s] \in {"settle", "stopdrain"}}
    BY <2>1 DEF Crash, Exit, Abandon, EndCall, Forget, leaseVars, setVars, passVars
  <2> QED
    BY <2>1, <2>2, <2>3, <2>4, <2>5, <2>6, <2>7, <2>8, <2>9
<1>2. ASSUME NEW s \in Replica PROVE Ages(s)'
  BY CapNat, OlderFacts DEF Crash, Exit, Abandon, EndCall, Forget, leaseVars, setVars, passVars, Ages, Lease, Where, InTime, Guarded, Margin, Transit
<1>3. ASSUME NEW s \in Replica PROVE Lease(s)'
  BY GuardedAge, <1>2 DEF Crash, Exit, Abandon, EndCall, Forget, leaseVars, setVars, passVars, Lease, Copy, Where, InTime, Guarded, Transit, Mine, MaybeExpired
<1>4. ASSUME NEW s \in Replica PROVE Copy(s)'
  BY CapNat, OlderFacts DEF Crash, Exit, Abandon, EndCall, Forget, leaseVars, setVars, passVars, Lease, Copy, Where, InTime, Guarded, Mine, MaybeExpired
<1>5. ASSUME NEW s \in Replica PROVE Where(s)'
  BY DEF Crash, Exit, Abandon, EndCall, Forget, leaseVars, setVars, passVars, Where, Mine, Lease, Guarded
<1>6. ASSUME NEW q \in late' PROVE Transit(q)'
  <2>1. CASE q \in late
    <3>1. q.replica \in Replica /\ Transit(q)
      BY <2>1 DEF Request
    <3>2. Guarded(q.replica)' => Guarded(q.replica)
      BY <3>1 DEF Crash, Exit, Abandon, EndCall, Forget, leaseVars, setVars, passVars, Guarded, InTime
    <3>3. CASE q.replica = r
      BY <3>1, <3>2, <3>3 DEF Crash, Exit, Abandon, EndCall, Forget, leaseVars, setVars, passVars, Transit, Guarded, InTime, MaybeExpired
    <3>4. CASE q.replica # r
      BY <3>1, <3>2, <3>4 DEF Crash, Exit, Abandon, EndCall, Forget, leaseVars, setVars, passVars, Transit, MaybeExpired
    <3> QED
      BY <3>3, <3>4
  <2>2. CASE q \notin late
    <3>1. /\ r \in fresh
          /\ at[r] \in Calls
          /\ answer[r] = "sent"
          /\ q.replica = r
          /\ q.hold = (at[r] \in HoldCalls)
          /\ q.age = callAge[r]
      BY <2>2 DEF Crash, Exit, Abandon, EndCall, Forget, leaseVars, setVars, passVars
    <3>2. /\ seen[r] = "mine" => holder = r
          /\ seen[r] = "free" => holder = NoOne \/ MaybeExpired
          /\ at[r] \in HoldCalls \/ seen[r] = "mine"
          /\ seen[r] \in {"mine", "free"}
      BY <3>1 DEF Copy, Where, Mine
    <3>3. Guarded(r)' => r \in held /\ at'[r] \in {"renew", "rerenew"} /\ answer'[r] = "error"
      BY <3>1 DEF Crash, Exit, Abandon, EndCall, Forget, leaseVars, setVars, passVars, Guarded, InTime, Where
    <3>4. Guarded(r)' => q.age <= confirmed'[r]
      BY <3>1, <3>3 DEF Crash, Exit, Abandon, EndCall, Forget, leaseVars, setVars, passVars, Ages
    <3> QED
      BY <3>1, <3>2, <3>3, <3>4 DEF Crash, Exit, Abandon, EndCall, Forget, leaseVars, setVars, passVars, Transit, MaybeExpired
  <2> QED
    BY <2>1, <2>2
<1> QED  BY <1>1, <1>2, <1>3, <1>4, <1>5, <1>6 DEF IInv

LEMMA LateAppliesStep ==
    ASSUME Margin, IInv, LateApplies
    PROVE  IInv'
<1> USE ShardLeaseAssumption DEF IInv, TypeOK, Calls, HoldCalls, ReleaseCalls, Drains
<1>1. TypeOK'
  BY CapNat, OlderFacts DEF LateApplies, Write, leaseVars, setVars, passVars, Places, Request
<1>2. ASSUME NEW s \in Replica PROVE Ages(s)'
  <2>1. PICK q \in late : Write(q.replica, q.hold, q.age)
    BY DEF LateApplies
  <2>2. q \in Request /\ Transit(q) /\ q.replica \in Replica
    BY DEF Request
  <2>3. CASE s = q.replica
    BY <2>1, <2>2, <2>3, CapNat DEF LateApplies, Write, setVars, passVars, Ages, Transit, Guarded, InTime
  <2>4. CASE s # q.replica
    <3>1. ~Guarded(s)
      BY <2>2, <2>4, GuardedAge, ShardLeaseAssumption DEF Transit, Lease
    <3> QED
      BY <3>1 DEF LateApplies, setVars, passVars, Ages, Guarded, InTime
  <2> QED
    BY <2>3, <2>4
<1>3. ASSUME NEW s \in Replica PROVE Lease(s)'
  BY GuardedAge, <1>2 DEF LateApplies, Write, leaseVars, setVars, passVars, Lease, Copy, Where, InTime, Guarded, Transit, Mine, MaybeExpired
<1>4. ASSUME NEW s \in Replica PROVE Copy(s)'
  BY CapNat, OlderFacts DEF LateApplies, Write, leaseVars, setVars, passVars, Lease, Copy, Where, InTime, Guarded, Mine, MaybeExpired
<1>5. ASSUME NEW s \in Replica PROVE Where(s)'
  BY DEF LateApplies, Write, leaseVars, setVars, passVars, Where, Mine, Lease, Guarded
<1>6. ASSUME NEW q \in late' PROVE Transit(q)'
  BY CapNat, OlderFacts DEF LateApplies, Write, leaseVars, setVars, passVars, Transit, Guarded, InTime, MaybeExpired, Copy, Where, Mine, Ages, Request
<1> QED  BY <1>1, <1>2, <1>3, <1>4, <1>5, <1>6 DEF IInv

LEMMA TouchStep ==
    ASSUME Margin, IInv, Touch
    PROVE  IInv'
<1> USE ShardLeaseAssumption DEF IInv, TypeOK, Calls, HoldCalls, ReleaseCalls, Drains
<1>1. TypeOK'
  BY CapNat, OlderFacts DEF Touch, leaseVars, setVars, passVars, Places, Request
<1>2. ASSUME NEW s \in Replica PROVE Ages(s)'
  BY CapNat, OlderFacts DEF Touch, leaseVars, setVars, passVars, Ages, Lease, Where, InTime, Guarded, Margin, Transit
<1>3. ASSUME NEW s \in Replica PROVE Lease(s)'
  BY GuardedAge, <1>2 DEF Touch, leaseVars, setVars, passVars, Lease, Copy, Where, InTime, Guarded, Transit, Mine, MaybeExpired
<1>4. ASSUME NEW s \in Replica PROVE Copy(s)'
  BY CapNat, OlderFacts DEF Touch, leaseVars, setVars, passVars, Lease, Copy, Where, InTime, Guarded, Mine, MaybeExpired
<1>5. ASSUME NEW s \in Replica PROVE Where(s)'
  BY DEF Touch, leaseVars, setVars, passVars, Where, Mine, Lease, Guarded
<1>6. ASSUME NEW q \in late' PROVE Transit(q)'
  BY CapNat, OlderFacts DEF Touch, leaseVars, setVars, passVars, Transit, Guarded, InTime, MaybeExpired, Copy, Where, Mine, Ages, Request
<1> QED  BY <1>1, <1>2, <1>3, <1>4, <1>5, <1>6 DEF IInv

LEMMA TickStep ==
    ASSUME Margin, IInv, Tick
    PROVE  IInv'
<1> USE ShardLeaseAssumption DEF IInv, TypeOK, Calls, HoldCalls, ReleaseCalls, Drains
<1>1. TypeOK'
  <2>1. /\ at' \in [Replica -> Places]
        /\ answer' \in [Replica -> {"none", "sent", "ok", "conflict", "error"}]
        /\ seen' \in [Replica -> {"mine", "free", "other"}]
    BY DEF Tick, OnTime, leaseVars, setVars, passVars, Places
  <2>2. callAge' \in [Replica -> 0..Cap]
    BY OlderFacts DEF Tick, OnTime, leaseVars, setVars, passVars
  <2>3. wait' \in [Replica -> 0..Cap]
    BY OlderFacts DEF Tick, OnTime, leaseVars, setVars, passVars
  <2>4. confirmed' \in [Replica -> 0..Cap]
    BY OlderFacts DEF Tick, OnTime, leaseVars, setVars, passVars
  <2>5. /\ holder' \in Replica \cup {NoOne}
        /\ age' \in 0..Cap
        /\ calm' \in BOOLEAN
    BY CapNat, OlderFacts DEF Tick, OnTime, leaseVars, setVars, passVars
  <2>6. late' \subseteq Request
    <3> SUFFICES ASSUME NEW q \in late' PROVE q \in Request
      OBVIOUS
    <3>1. PICK p \in late : q = [p EXCEPT !.age = Older(p.age)]
      BY DEF Tick
    <3>2. p \in Request /\ p.age \in 0..Cap
      BY DEF Request
    <3>3. Older(p.age) \in 0..Cap
      BY <3>2, OlderFacts
    <3> QED
      BY <3>1, <3>2, <3>3 DEF Request
  <2>7. /\ held' \subseteq Replica
        /\ entered' \subseteq held'
        /\ cancelled' \subseteq Replica
        /\ fresh' \subseteq Replica
    BY DEF Tick, OnTime, leaseVars, setVars, passVars
  <2>8. drained' \subseteq {s \in Replica : at'[s] = "drain"}
    BY <2>1 DEF Tick, OnTime, leaseVars, setVars, passVars
  <2>9. settling' \subseteq {s \in Replica : at'[s] \in {"settle", "stopdrain"}}
    BY <2>1 DEF Tick, OnTime, leaseVars, setVars, passVars
  <2> QED
    BY <2>1, <2>2, <2>3, <2>4, <2>5, <2>6, <2>7, <2>8, <2>9
<1>2. ASSUME NEW s \in Replica PROVE Ages(s)'
  <2>1. age' = Older(age) /\ age' \in 0..Cap
    BY OlderFacts DEF Tick
  <2>2. CASE s \in held'
    <3>1. s \in held /\ confirmed'[s] = Older(confirmed[s]) /\ confirmed[s] < Deadline
      BY <2>2 DEF Tick, OnTime
    <3>2. age <= confirmed[s] /\ age' <= confirmed'[s] /\ confirmed'[s] <= Deadline
      BY <2>1, <3>1, OlderFacts, CapNat DEF Ages
    <3>3. at[s] \in {"renew", "rerenew"} => callAge'[s] <= confirmed'[s]
      <4>1. callAge'[s] \in {callAge[s], Older(callAge[s])}
        BY DEF Tick
      <4> QED
        BY <4>1, <3>1, OlderFacts, CapNat DEF Ages
    <3>4. at[s] \in HoldCalls /\ InTime(s)' => age' <= callAge'[s]
      <4>1. at[s] \in HoldCalls /\ InTime(s)' => answer[s] = "ok" /\ callAge'[s] = Older(callAge[s])
        BY DEF Tick, InTime
      <4>2. at[s] \in HoldCalls /\ InTime(s)' => InTime(s)
        BY <4>1, OlderFacts, CapNat DEF InTime
      <4> QED
        BY <4>1, <4>2, <2>1, OlderFacts DEF Ages
    <3> QED
      BY <3>1, <3>2, <3>3, <3>4 DEF Tick, Ages, Where
  <2>3. CASE s \notin held'
    <3>1. s \notin held
      BY <2>3 DEF Tick
    <3>2. at[s] \in HoldCalls /\ InTime(s)' => age' <= callAge'[s]
      <4>1. at[s] \in HoldCalls /\ InTime(s)' => answer[s] = "ok" /\ callAge'[s] = Older(callAge[s])
        BY DEF Tick, InTime
      <4>2. at[s] \in HoldCalls /\ InTime(s)' => InTime(s)
        BY <4>1, OlderFacts, CapNat DEF InTime
      <4> QED
        BY <4>1, <4>2, <2>1, OlderFacts DEF Ages
    <3>3. CASE at[s] \in {"drain", "stopdrain"}
      <4>1. confirmed'[s] = Older(confirmed[s]) /\ wait'[s] = Older(wait[s])
        BY <3>3 DEF Tick
      <4>2. /\ at[s] = "drain" => wait[s] < DrainWait
            /\ at[s] = "stopdrain" => wait[s] < StopWait
        BY DEF Tick, OnTime
      <4>3. wait[s] < Cap => wait'[s] = wait[s] + 1
        BY <4>1 DEF Older
      <4>4. wait[s] < Cap
        BY <4>2, <3>3, CapNat, ShardLeaseAssumption DEF Margin
      <4>5. confirmed'[s] <= confirmed[s] + 1
        BY <4>1, OlderFacts
      <4>6. age <= confirmed[s] => age' <= confirmed'[s]
        BY <4>1, <2>1, OlderFacts
      <4>7. s \in drained \/ at[s] = "stopdrain" =>
              /\ age' <= confirmed'[s]
              /\ confirmed'[s] <= Deadline + wait'[s]
        BY <4>3, <4>4, <4>5, <4>6, <4>1, OlderFacts, CapNat DEF Ages
      <4> QED
        BY <4>2, <4>3, <4>4, <4>7, <3>1, <3>2, CapNat DEF Tick, Ages
    <3>4. CASE at[s] \notin {"drain", "stopdrain"}
      BY <3>1, <3>2, <3>4 DEF Tick, Ages
    <3> QED
      BY <3>3, <3>4
  <2> QED
    BY <2>2, <2>3
<1>3. ASSUME NEW s \in Replica PROVE Lease(s)'
  <2>1. InTime(s)' /\ at[s] \in HoldCalls => InTime(s)
    <3>1. callAge[s] <= callAge'[s]
      BY OlderFacts DEF Tick
    <3> QED
      BY <3>1, <1>1, CapNat DEF Tick, InTime
  <2> QED
    BY <2>1 DEF Tick, Lease, Guarded
<1>4. ASSUME NEW s \in Replica PROVE Copy(s)'
  BY CapNat, OlderFacts DEF Tick, OnTime, leaseVars, setVars, passVars, Lease, Copy, Where, InTime, Guarded, Mine, MaybeExpired
<1>5. ASSUME NEW s \in Replica PROVE Where(s)'
  BY DEF Tick, OnTime, leaseVars, setVars, passVars, Where, Mine, Lease, Guarded
<1>6. ASSUME NEW q \in late' PROVE Transit(q)'
  <2>1. PICK p \in late : q = [p EXCEPT !.age = Older(p.age)]
    BY DEF Tick
  <2>2. p \in Request /\ Transit(p)
    OBVIOUS
  <2>3. q.replica = p.replica /\ q.hold = p.hold /\ q.age = Older(p.age)
        /\ p.replica \in Replica /\ p.age \in 0..Cap
    BY <2>1, <2>2 DEF Request
  <2>4. MaybeExpired => MaybeExpired'
    BY OlderFacts, CapNat DEF Tick, MaybeExpired
  <2>5. callAge[p.replica] <= callAge'[p.replica]
    <3>1. callAge[p.replica] \in 0..Cap
      BY <2>3
    <3>2. callAge'[p.replica] \in {callAge[p.replica], Older(callAge[p.replica])}
      BY <2>3 DEF Tick
    <3> QED
      BY <3>1, <3>2, OlderFacts
  <2>6. Guarded(p.replica)' => Guarded(p.replica)
    BY <2>3, <2>5, <1>1, CapNat DEF Tick, Guarded, InTime
  <2>7. p.replica \in held => confirmed'[p.replica] = Older(confirmed[p.replica])
    BY <2>3 DEF Tick
  <2>8. p.replica \in held /\ p.age <= confirmed[p.replica] => q.age <= confirmed'[p.replica]
    BY <2>3, <2>7, OlderFacts
  <2> QED
    BY <2>2, <2>3, <2>4, <2>6, <2>8 DEF Tick, Transit
<1> QED  BY <1>1, <1>2, <1>3, <1>4, <1>5, <1>6 DEF IInv

LEMMA SettleStep ==
    ASSUME Margin, IInv, Settle
    PROVE  IInv'
<1> USE ShardLeaseAssumption DEF IInv, TypeOK, Calls, HoldCalls, ReleaseCalls, Drains
<1>1. TypeOK'
  BY CapNat, OlderFacts DEF Settle, leaseVars, setVars, passVars, Places, Request
<1>2. ASSUME NEW s \in Replica PROVE Ages(s)'
  BY CapNat, OlderFacts DEF Settle, leaseVars, setVars, passVars, Ages, Lease, Where, InTime, Guarded, Margin, Transit
<1>3. ASSUME NEW s \in Replica PROVE Lease(s)'
  BY GuardedAge, <1>2 DEF Settle, leaseVars, setVars, passVars, Lease, Copy, Where, InTime, Guarded, Transit, Mine, MaybeExpired
<1>4. ASSUME NEW s \in Replica PROVE Copy(s)'
  BY CapNat, OlderFacts DEF Settle, leaseVars, setVars, passVars, Lease, Copy, Where, InTime, Guarded, Mine, MaybeExpired
<1>5. ASSUME NEW s \in Replica PROVE Where(s)'
  BY DEF Settle, leaseVars, setVars, passVars, Where, Mine, Lease, Guarded
<1>6. ASSUME NEW q \in late' PROVE Transit(q)'
  BY CapNat, OlderFacts DEF Settle, leaseVars, setVars, passVars, Transit, Guarded, InTime, MaybeExpired, Copy, Where, Mine, Ages, Request
<1> QED  BY <1>1, <1>2, <1>3, <1>4, <1>5, <1>6 DEF IInv

LEMMA InitOK == Init => IInv
<1> SUFFICES ASSUME Init PROVE IInv
  OBVIOUS
<1>1. TypeOK
  <2>1. age \in 0..Cap /\ confirmed \in [Replica -> 0..Cap] /\ callAge \in [Replica -> 0..Cap]
        /\ wait \in [Replica -> 0..Cap]
    BY ZeroAge, CapNat DEF Init
  <2>2. at \in [Replica -> Places] /\ drained = {} /\ settling = {} /\ late = {} /\ entered = {}
    BY DEF Init, Places
  <2> QED
    BY <2>1, <2>2 DEF Init, TypeOK
<1>2. ASSUME NEW s \in Replica PROVE ~Guarded(s) /\ s \notin fresh /\ at[s] = "idle"
  BY DEF Init, Guarded, HoldCalls
<1>3. ASSUME NEW s \in Replica PROVE Ages(s) /\ Lease(s) /\ Copy(s) /\ Where(s)
  BY <1>2 DEF Init, Ages, Lease, Copy, Where, Guarded, Mine, HoldCalls, ReleaseCalls, Drains
<1> QED
  BY <1>1, <1>3 DEF Init, IInv

LEMMA NextOK ==
    ASSUME Margin, IInv, [Next]_vars
    PROVE  IInv'
<1>1. CASE UNCHANGED vars
  BY <1>1 DEF vars, leaseVars, setVars, passVars, IInv, TypeOK, Ages, Lease, Copy, Where, Guarded,
     InTime, Transit, MaybeExpired
<1>2. ASSUME NEW r \in Replica,
             Apply(r) \/ CallFails(r) \/ Enter(r) \/ Leave(r) \/ Sweep(r) \/ Pass(r)
                 \/ Stop(r) \/ Crash(r)
      PROVE  IInv'
  <2>1. CASE Pass(r)
    BY <2>1, ListStep, CheckStep, RenewedStep, ShedStep, DrainTimeoutStep, StillBusyStep, ReleaseStep,
       ReleasedStep, RegetStep, AcquireStep, ClaimedStep, TailStep, StopReleaseStep,
       StopBusyStep DEF Pass
  <2> QED
    BY <1>2, <2>1, ApplyStep, CallFailsStep, EnterStep, LeaveStep, SweepStep, StopStep, CrashStep
<1> QED
  BY <1>1, <1>2, LateAppliesStep, TouchStep, TickStep, SettleStep DEF Next

\* Every holding is the lease's, and the lease has one holder.
LEMMA OneHolder ==
    ASSUME IInv
    PROVE  OneLiveReplica
  BY DEF IInv, TypeOK, Lease, Guarded, OneLiveReplica

\* The types, for every number of replicas and every timing that leaves the margin.
THEOREM ShardTypeCorrect ==
    ASSUME Margin
    PROVE  Spec => []TypeOK
<1>1. IInv => TypeOK
  BY DEF IInv
<1> QED
  BY <1>1, InitOK, NextOK, PTL DEF Spec

\* No two replicas ever hold the shard or run uncancelled work on it, for every
\* number of replicas and of late requests, and every lease duration, deadline,
\* drain and clock skew with Margin: the lease outlives deadline plus drain on
\* every clock (ShardManager.revokeUnconfirmed, renewShard, rebalance, releaseAll).
THEOREM ShardHeldOnce ==
    ASSUME Margin
    PROVE  Spec => []OneLiveReplica
<1>1. IInv => OneLiveReplica
  BY OneHolder
<1> QED
  BY <1>1, InitOK, NextOK, PTL DEF Spec

\* Apart from Enter, a step leaves the live work alone or ends that of one replica.
LEMMA LiveShrinks ==
    ASSUME IInv, NEW r \in Replica,
           Apply(r) \/ CallFails(r) \/ Leave(r) \/ Sweep(r) \/ Pass(r) \/ Stop(r) \/ Crash(r)
    PROVE  Live' = Live \/ Live' = Live \ {r}
<1> USE DEF IInv, TypeOK, Live, setVars, passVars, leaseVars
<1>1. CASE Apply(r) \/ CallFails(r) \/ Leave(r) \/ Sweep(r) \/ Stop(r) \/ Crash(r)
  BY <1>1 DEF Apply, CallFails, Leave, Sweep, Revoke, Stop, Crash, Exit, Drains, Where
<1>2. CASE Pass(r)
  <2>1. CASE List(r) \/ Check(r) \/ Renewed(r) \/ Claimed(r) \/ Acquire(r) \/ Tail(r)
    BY <2>1 DEF List, Check, Renewed, Claimed, Acquire, Tail, Revoke
  <2>2. CASE Shed(r)
    BY <2>2 DEF Shed
  <2>3. CASE DrainTimeout(r) \/ StillBusy(r) \/ Release(r) \/ Released(r) \/ Reget(r)
    BY <2>3 DEF DrainTimeout, StillBusy, Release, Released, Reget, Where, Drains
  <2>4. CASE StopRelease(r) \/ StopBusy(r)
    BY <2>4 DEF StopRelease, StopBusy, Exit
  <2> QED
    BY <1>2, <2>1, <2>2, <2>3, <2>4 DEF Pass
<1> QED
  BY <1>1, <1>2

LEMMA StepRefines ==
    ASSUME IInv, [Next]_vars
    PROVE  [Section!Next]_Live
<1>1. CASE UNCHANGED vars
  BY <1>1 DEF vars, setVars, Live
<1>2. CASE \E r \in Replica : Enter(r)
  <2>1. PICK r \in Replica : Enter(r)
    BY <1>2
  <2>2. Live \subseteq {r}
    BY <2>1, OneHolder DEF Enter, OneLiveReplica, Live, IInv, TypeOK
  <2>3. r \notin Live
    BY <2>1 DEF Enter, Live, IInv, TypeOK, Where, Drains
  <2>4. Live' = {r} /\ Live = {}
    BY <2>1, <2>2, <2>3 DEF Enter, Live
  <2> QED
    BY <2>4 DEF Section!Next, Section!Enter
<1>3. ASSUME NEW r \in Replica, Live' = Live \/ Live' = Live \ {r}
      PROVE  [Section!Next]_Live
  BY <1>3 DEF Section!Next, Section!Leave
<1>4. CASE LateApplies \/ Touch \/ Tick \/ Settle
  BY <1>4 DEF LateApplies, Touch, Tick, Settle, setVars, Live
<1> QED
  BY <1>1, <1>2, <1>3, <1>4, LiveShrinks DEF Next

\* The shard with its leases, timeouts, retries and crashes implements an
\* exclusive section: work enters only when no replica has live work on it.
THEOREM ShardImplementsSection ==
    ASSUME Margin
    PROVE  Spec => ShardIsExclusive
<1>1. Init => Section!Init
  BY DEF Init, Section!Init, Live
<1>2. Spec => []IInv
  BY InitOK, NextOK, PTL DEF Spec
<1> QED
  BY <1>1, <1>2, StepRefines, PTL DEF Spec, ShardIsExclusive, Section!Spec
=============================================================================
