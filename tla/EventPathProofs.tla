--------------------------- MODULE EventPathProofs ---------------------------
(***************************************************************************)
(* Proofs about EventPath, for every number of runs, handlers and faults   *)
(* and for every cap: the types, that the retention store of the mite      *)
(* accounts for what it keeps, that a build is never forgotten, and that   *)
(* one process makes at most one completion for it.                        *)
(***************************************************************************)
EXTENDS EventPath, FiniteSetTheorems, SequenceTheorems, TLAPS

-----------------------------------------------------------------------------
(* The inductive invariant *)

\* The reservations that count toward the cap.
charging == {h \in Handler : reserved[h].charged = 1}

\* A key has one open reservation and one kept event, and a handler between its reservation and
\* its commit has no reservation but that of its event: the rest of the store's accounts.
StoreInv ==
    /\ IsFiniteSet(retained)
    /\ \A e, f \in retained : keyOf(e) = keyOf(f) => e = f
    /\ \A h \in Handler : reserved[h].key = NoKey => reserved[h].charged = 0
    /\ \A g, h \in Handler : reserved[g].key = reserved[h].key /\ reserved[g].key # NoKey => g = h
    /\ \A h \in Handler :
         IF handlers[h].at \in {"SEND", "COMMIT"}
           THEN /\ handlers[h].evt \in Event
                /\ reserved[h].key \in {NoKey, keyOf(handlers[h].evt)}
           ELSE reserved[h].key = NoKey
    /\ RetentionAccounted

\* Where an event can be: in the memory of the plugin, to be spooled, or further on its way.
waits(e) == e \in sink \cup disp.hand \/ \E r \in Run : e \in spill[r]

sent(e) ==
    \/ e \in spool \cup retained \cup stored \cup refused \cup disp.todo \cup disp.group
    \/ \E h \in Handler : e \in handlers[h].todo \/ e = handlers[h].evt
    \/ \E i \in DOMAIN wire : e = wire[i]

inFlight(e) == waits(e) \/ sent(e)

\* The keys of the events of a run tell them apart.
KeysUnique == \A e, f \in Event : inFlight(e) /\ inFlight(f) /\ keyOf(e) = keyOf(f) => e = f

\* No event is numbered above the clock of its run.
BelowClock == \A e \in Event : inFlight(e) => e.seq <= clock[e.run]

\* The counter of a build that runs is not below any event of its run.
CountsOn ==
    /\ \A r \in Run : build[r] = "NEW" => seqs[r] = 0
    /\ \A e \in Event :
         inFlight(e) /\ build[e.run] \in {"NEW", "BUILDING"} => e.seq <= seqs[e.run]

\* An acknowledgement is the one of a settled event.
AcksKnown ==
    /\ \A k \in acks : k \in keysOf(settled)
    /\ \A i \in DOMAIN down : down[i] \in keysOf(settled)

Numbering == KeysUnique /\ BelowClock /\ CountsOn

\* The boot reconcile looks only at builds of an earlier process, and a process that stopped has
\* no build that runs.
BootShape ==
    /\ \A r \in Run : /\ build[r] = "NEW" => r \notin journal
                      /\ build[r] \in {"NEW", "BUILDING"} => r \notin unchecked
    /\ ~up => \A r \in Run : build[r] # "BUILDING" /\ made[r] = 0

\* Nobody is left to make another completion of the build in this process: it ended and the boot
\* reconcile is past it, or the claim of FailedProgramLoad keeps the listener and the reconcile
\* from it.
allMade(r) ==
    \/ build[r] \in {"DONE", "DEAD"} /\ r \notin unchecked
    \/ endedByRestart(r) /\ r \in claimed

MadeOnce == \A r \in Run : made[r] = 0 \/ (made[r] = 1 /\ allMade(r))

IndInv ==
    /\ TypeOK
    /\ IsFiniteSet(spool)
    /\ StoreInv
    /\ Numbering
    /\ AcksKnown
    /\ NeverForgotten
    /\ BootShape
    /\ MadeOnce

-----------------------------------------------------------------------------
(* The retention store *)

LEMMA KeyOfEvent ==
    ASSUME NEW e \in Event
    PROVE  keyOf(e) \in Key /\ keyOf(e) # NoKey /\ e # NoEvent
BY RetentionAssumption DEF Event, Key, keyOf

LEMMA ChargingFinite ==
    IsFiniteSet(charging) /\ Cardinality(charging) \in Nat
BY RetentionAssumption, FS_Subset, FS_CardinalityType DEF charging

\* A key that no event of the store has.
LEMMA NewKey ==
    ASSUME NEW k, k \notin keysOf(retained)
    PROVE  without(k) = retained /\ delta(k) = 1
BY DEF keysOf, without, delta

\* The one event of a key leaves the store.
LEMMA WithoutOne ==
    ASSUME StoreInv, NEW k, k \in keysOf(retained)
    PROVE  /\ IsFiniteSet(without(k))
           /\ Cardinality(without(k)) = Cardinality(retained) - 1
           /\ delta(k) = 0
<1>1. PICK f \in retained : keyOf(f) = k
  BY DEF keysOf
<1>2. without(k) = retained \ {f}
  BY <1>1 DEF without, StoreInv
<1> QED
  BY <1>1, <1>2, FS_RemoveElement DEF StoreInv, delta

\* What closing the reservation of a key does to the charges.
LEMMA CloseOne ==
    ASSUME TypeOK, StoreInv, NEW k \in Key
    PROVE  /\ refunded(k) = total - Cardinality(charging) + Cardinality(charging \ openOn(k))
           /\ {h \in Handler : closed(k)[h].charged = 1} = charging \ openOn(k)
           /\ IsFiniteSet(charging \ openOn(k))
<1>0. k # NoKey
  BY RetentionAssumption
<1>1. {h \in Handler : closed(k)[h].charged = 1} = charging \ openOn(k)
  BY DEF closed, charging, openOn, NoReservation
<1>a. total \in Nat
  BY DEF TypeOK, RetentionTypeOK
<1>2. CASE \E g \in openOn(k) : reserved[g].charged = 1
  <2>1. PICK g \in openOn(k) : reserved[g].charged = 1
    BY <1>2
  <2>2. charging \ openOn(k) = charging \ {g}
    BY <2>1, <1>0 DEF openOn, StoreInv
  <2>3. g \in charging
    BY <2>1 DEF openOn, charging
  <2>4. IsFiniteSet(charging \ {g}) /\ Cardinality(charging \ {g}) = Cardinality(charging) - 1
    BY <2>3, ChargingFinite, FS_RemoveElement
  <2>5. refunded(k) = total - 1
    BY <1>2 DEF refunded
  <2>6. /\ IsFiniteSet(charging \ openOn(k))
        /\ Cardinality(charging \ openOn(k)) = Cardinality(charging) - 1
    BY <2>2, <2>4, Zenon
  <2>7. refunded(k) = total - Cardinality(charging) + Cardinality(charging \ openOn(k))
    BY <1>a, <2>5, <2>6, ChargingFinite
  <2> QED
    BY <1>1, <2>6, <2>7, Zenon
<1>3. CASE ~ \E g \in openOn(k) : reserved[g].charged = 1
  <2>1. charging \ openOn(k) = charging
    BY <1>3 DEF charging
  <2>2. refunded(k) = total
    BY <1>3 DEF refunded
  <2>3. /\ IsFiniteSet(charging \ openOn(k))
        /\ Cardinality(charging \ openOn(k)) = Cardinality(charging)
    BY <2>1, ChargingFinite, Zenon
  <2>4. refunded(k) = total - Cardinality(charging) + Cardinality(charging \ openOn(k))
    BY <1>a, <2>2, <2>3, ChargingFinite
  <2> QED
    BY <1>1, <2>3, <2>4, Zenon
<1> QED
  BY <1>2, <1>3

\* The accounts are of the store alone.
LEMMA Accounts ==
    RetentionAccounted <=> total = Cardinality(retained) + Cardinality(charging)
BY DEF RetentionAccounted, charging

LEMMA TotalIsNat ==
    ASSUME StoreInv'
    PROVE  total' \in Nat
<1>1. charging' \subseteq Handler
  BY DEF charging
<1>2. Cardinality(charging') \in Nat
  BY <1>1, RetentionAssumption, FS_Subset, FS_CardinalityType
<1>3. Cardinality(retained') \in Nat
  BY FS_CardinalityType DEF StoreInv
<1>4. total' = Cardinality(retained') + Cardinality(charging')
  BY DEF StoreInv, RetentionAccounted, charging
<1> QED
  BY <1>2, <1>3, <1>4

\* A step that leaves the store and the reservations.
LEMMA StoreKept ==
    ASSUME StoreInv, UNCHANGED retentionVars,
           \A h \in Handler :
               \/ handlers'[h].at = handlers[h].at /\ handlers'[h].evt = handlers[h].evt
               \/ handlers[h].at = "SEND" /\ handlers'[h].at = "COMMIT" /\ handlers'[h].evt = handlers[h].evt
               \/ handlers[h].at \in {"FREE", "NEXT"} /\ handlers'[h].at \in {"FREE", "NEXT"}
    PROVE  StoreInv'
BY DEF StoreInv, retentionVars, RetentionAccounted

LEMMA StoreReserve ==
    ASSUME TypeOK, StoreInv, NEW h \in Handler, ReserveNext(h)
    PROVE  StoreInv'
<1>1. PICK e \in earliest(handlers[h].todo) :
         /\ reserve(h, keyOf(e))
         /\ handlers' = [handlers EXCEPT ![h] = [at |-> "SEND", todo |-> @.todo \ {e}, evt |-> e]]
  BY DEF ReserveNext
<1>2. e \in Event /\ keyOf(e) \in Key /\ keyOf(e) # NoKey
  BY KeyOfEvent DEF TypeOK, RetentionTypeOK, earliest
<1> DEFINE k == keyOf(e)
           d == delta(k)
<1>3. /\ reserved' = [closed(k) EXCEPT ![h] = [key |-> k, charged |-> d, acked |-> FALSE]]
      /\ total' = refunded(k) + d
      /\ retained' = retained
  BY <1>1 DEF reserve
<1>4. handlers[h].at = "NEXT" /\ reserved[h].key = NoKey /\ h \notin charging
  BY DEF ReserveNext, StoreInv, charging
<1>5. \A g \in Handler : reserved'[g] = IF g = h THEN [key |-> k, charged |-> d, acked |-> FALSE]
                                        ELSE IF reserved[g].key = k THEN NoReservation ELSE reserved[g]
  BY <1>3 DEF closed
<1>6. d \in {0, 1}
  BY DEF delta
<1>7. total' = Cardinality(retained') + Cardinality(charging')
  <2> DEFINE left == charging \ openOn(k)
  <2>1. /\ refunded(k) = total - Cardinality(charging) + Cardinality(left)
        /\ IsFiniteSet(left)
    BY <1>2, CloseOne
  <2>2. total = Cardinality(retained) + Cardinality(charging)
    BY Accounts DEF StoreInv
  <2>3. Cardinality(charging) \in Nat /\ Cardinality(left) \in Nat /\ Cardinality(retained) \in Nat
    BY <2>1, ChargingFinite, FS_CardinalityType DEF StoreInv
  <2>4. h \notin left
    BY <1>4
  <2>5. CASE d = 1
    <3>1. charging' = left \cup {h}
      BY <1>2, <1>5, <2>5 DEF charging, openOn, NoReservation
    <3>2. Cardinality(left \cup {h}) = Cardinality(left) + 1
      BY <2>1, <2>4, FS_AddElement
    <3>3. Cardinality(charging') = Cardinality(left) + 1
      BY <3>1, <3>2, Zenon
    <3> QED
      BY <1>3, <2>1, <2>2, <2>3, <2>5, <3>3
  <2>6. CASE d = 0
    <3>1. charging' = left
      BY <1>2, <1>4, <1>5, <2>6 DEF charging, openOn, NoReservation
    <3>2. Cardinality(charging') = Cardinality(left)
      BY <3>1, Zenon
    <3> QED
      BY <1>3, <2>1, <2>2, <2>3, <2>6, <3>2
  <2> QED
    BY <1>6, <2>5, <2>6
<1>8. \A g \in Handler : g # h => handlers'[g] = handlers[g]
  BY <1>1 DEF TypeOK, RetentionTypeOK
<1>9. handlers'[h].at = "SEND" /\ handlers'[h].evt = e
  BY <1>1 DEF TypeOK, RetentionTypeOK
<1>10. RetentionAccounted'
  BY <1>7, Accounts DEF RetentionAccounted, charging
<1>11. \A g \in Handler : reserved'[g].key = NoKey => reserved'[g].charged = 0
  BY <1>2, <1>5 DEF NoReservation, StoreInv
<1>12. \A f, g \in Handler : reserved'[f].key = reserved'[g].key /\ reserved'[f].key # NoKey => f = g
  BY <1>5 DEF NoReservation, StoreInv
<1>13. \A g \in Handler :
         IF handlers'[g].at \in {"SEND", "COMMIT"}
           THEN handlers'[g].evt \in Event /\ reserved'[g].key \in {NoKey, keyOf(handlers'[g].evt)}
           ELSE reserved'[g].key = NoKey
  BY <1>2, <1>5, <1>8, <1>9 DEF NoReservation, StoreInv
<1> QED
  BY <1>3, <1>10, <1>11, <1>12, <1>13 DEF StoreInv, keyOf

\* A reservation that ends without a commit: its charge goes.
LEMMA StoreRefuse ==
    ASSUME TypeOK, StoreInv, NEW h \in Handler, AnswersFull(h)
    PROVE  StoreInv'
<1>1. PICK e \in earliest(handlers[h].todo) : refuseReserve(keyOf(e))
  BY DEF AnswersFull
<1>2. e \in Event /\ keyOf(e) \in Key /\ keyOf(e) # NoKey
  BY KeyOfEvent DEF TypeOK, RetentionTypeOK, earliest
<1> DEFINE k == keyOf(e)
<1>3. reserved' = closed(k) /\ total' = refunded(k) /\ retained' = retained
  BY <1>1 DEF refuseReserve
<1>4. \A g \in Handler : reserved'[g] = IF reserved[g].key = k THEN NoReservation ELSE reserved[g]
  BY <1>3 DEF closed
<1>5. total' = Cardinality(retained') + Cardinality(charging')
  <2> DEFINE left == charging \ openOn(k)
  <2>1. /\ refunded(k) = total - Cardinality(charging) + Cardinality(left)
        /\ IsFiniteSet(left)
    BY <1>2, CloseOne
  <2>2. total = Cardinality(retained) + Cardinality(charging)
    BY Accounts DEF StoreInv
  <2>3. Cardinality(charging) \in Nat /\ Cardinality(left) \in Nat /\ Cardinality(retained) \in Nat
    BY <2>1, ChargingFinite, FS_CardinalityType DEF StoreInv
  <2>4. charging' = left
    BY <1>4 DEF charging, openOn, NoReservation
  <2>5. Cardinality(charging') = Cardinality(left)
    BY <2>4, Zenon
  <2> QED
    BY <1>3, <2>1, <2>2, <2>3, <2>5
<1>6. \A g \in Handler : g # h => handlers'[g] = handlers[g]
  BY DEF AnswersFull, TypeOK, RetentionTypeOK
<1>7. handlers'[h].at = "FREE" /\ reserved[h].key = NoKey
  BY DEF AnswersFull, TypeOK, RetentionTypeOK, FreeHandler, StoreInv
<1>8. RetentionAccounted'
  BY <1>5, Accounts DEF RetentionAccounted, charging
<1>9. \A g \in Handler : reserved'[g].key = NoKey => reserved'[g].charged = 0
  BY <1>4 DEF NoReservation, StoreInv
<1>10. \A f, g \in Handler : reserved'[f].key = reserved'[g].key /\ reserved'[f].key # NoKey => f = g
  BY <1>4 DEF NoReservation, StoreInv
<1>11. \A g \in Handler :
         IF handlers'[g].at \in {"SEND", "COMMIT"}
           THEN handlers'[g].evt \in Event /\ reserved'[g].key \in {NoKey, keyOf(handlers'[g].evt)}
           ELSE reserved'[g].key = NoKey
  BY <1>4, <1>6, <1>7 DEF NoReservation, StoreInv
<1> QED
  BY <1>3, <1>8, <1>9, <1>10, <1>11 DEF StoreInv, keyOf

\* What closing the reservation of a handler does to the charges.
LEMMA CloseOwn ==
    ASSUME TypeOK, StoreInv, NEW h \in Handler,
           reserved' = [reserved EXCEPT ![h] = NoReservation]
    PROVE  /\ Cardinality(charging') = Cardinality(charging) - reserved[h].charged
           /\ \A g \in Handler : reserved'[g] = IF g = h THEN NoReservation ELSE reserved[g]
<1>1. \A g \in Handler : reserved'[g] = IF g = h THEN NoReservation ELSE reserved[g]
  BY DEF TypeOK, RetentionTypeOK
<1>2. charging' = charging \ {h}
  BY <1>1 DEF charging, NoReservation
<1>3. Cardinality(charging') = Cardinality(charging \ {h})
  BY <1>2, Zenon
<1>4. reserved[h].charged \in {0, 1}
  BY DEF TypeOK, RetentionTypeOK
<1>5. CASE h \in charging
  <2>1. Cardinality(charging \ {h}) = Cardinality(charging) - 1
    BY <1>5, ChargingFinite, FS_RemoveElement
  <2>2. reserved[h].charged = 1
    BY <1>5 DEF charging
  <2> QED
    BY <1>1, <1>3, <2>1, <2>2
<1>6. CASE h \notin charging
  <2>1. Cardinality(charging \ {h}) = Cardinality(charging)
    BY <1>6, ChargingFinite, FS_RemoveElement
  <2>2. reserved[h].charged = 0
    BY <1>4, <1>6 DEF charging
  <2> QED
    BY <1>1, <1>3, <2>1, <2>2, ChargingFinite
<1> QED
  BY <1>5, <1>6

\* The rest of the invariant, once a handler closed its reservation.
LEMMA StoreClosed ==
    ASSUME TypeOK, StoreInv, NEW h \in Handler,
           \A g \in Handler : reserved'[g] = IF g = h THEN NoReservation ELSE reserved[g],
           \A g \in Handler : g # h => handlers'[g] = handlers[g],
           handlers'[h].at \in {"FREE", "NEXT"},
           IsFiniteSet(retained'),
           \A e, f \in retained' : keyOf(e) = keyOf(f) => e = f,
           total' = Cardinality(retained') + Cardinality(charging')
    PROVE  StoreInv'
<1>1. RetentionAccounted'
  BY Accounts DEF RetentionAccounted, charging
<1>2. \A g \in Handler : reserved'[g].key = NoKey => reserved'[g].charged = 0
  BY DEF NoReservation, StoreInv
<1>3. \A f, g \in Handler : reserved'[f].key = reserved'[g].key /\ reserved'[f].key # NoKey => f = g
  BY DEF NoReservation, StoreInv
<1>4. \A g \in Handler :
         IF handlers'[g].at \in {"SEND", "COMMIT"}
           THEN handlers'[g].evt \in Event /\ reserved'[g].key \in {NoKey, keyOf(handlers'[g].evt)}
           ELSE reserved'[g].key = NoKey
  BY DEF NoReservation, StoreInv
<1> QED
  BY <1>1, <1>2, <1>3, <1>4 DEF StoreInv, keyOf

LEMMA StoreRollback ==
    ASSUME TypeOK, StoreInv, NEW h \in Handler, AnswersDisconnected(h)
    PROVE  StoreInv'
<1>1. /\ total' = total - reserved[h].charged
      /\ reserved' = [reserved EXCEPT ![h] = NoReservation]
      /\ retained' = retained
  BY DEF AnswersDisconnected, rollback
<1>2. /\ Cardinality(charging') = Cardinality(charging) - reserved[h].charged
      /\ \A g \in Handler : reserved'[g] = IF g = h THEN NoReservation ELSE reserved[g]
  BY <1>1, CloseOwn
<1>3. total = Cardinality(retained) + Cardinality(charging)
  BY Accounts DEF StoreInv
<1>4. Cardinality(charging) \in Nat /\ Cardinality(retained) \in Nat /\ reserved[h].charged \in 0 .. 1
  BY ChargingFinite, FS_CardinalityType DEF StoreInv, TypeOK, RetentionTypeOK
<1>5. total' = Cardinality(retained') + Cardinality(charging')
  BY <1>1, <1>2, <1>3, <1>4
<1>6. (\A g \in Handler : g # h => handlers'[g] = handlers[g]) /\ handlers'[h].at = "FREE"
  BY DEF AnswersDisconnected, FreeHandler, TypeOK, RetentionTypeOK
<1>7. IsFiniteSet(retained') /\ \A e, f \in retained' : keyOf(e) = keyOf(f) => e = f
  BY <1>1 DEF StoreInv
<1> QED
  BY <1>2, <1>5, <1>6, <1>7, StoreClosed

LEMMA StoreCommit ==
    ASSUME TypeOK, StoreInv, NEW h \in Handler, CommitSent(h)
    PROVE  StoreInv'
<1> DEFINE p == reserved[h]
           e == handlers[h].evt
<1>1. /\ reserved' = [reserved EXCEPT ![h] = NoReservation]
      /\ IF p.key = NoKey \/ p.acked
           THEN total' = total - p.charged /\ retained' = retained
           ELSE total' = total + delta(p.key) - p.charged /\ retained' = without(p.key) \cup {e}
  BY DEF CommitSent, commit
<1>2. /\ Cardinality(charging') = Cardinality(charging) - p.charged
      /\ \A g \in Handler : reserved'[g] = IF g = h THEN NoReservation ELSE reserved[g]
  BY <1>1, CloseOwn
<1>3. total = Cardinality(retained) + Cardinality(charging)
  BY Accounts DEF StoreInv
<1>4. Cardinality(charging) \in Nat /\ Cardinality(retained) \in Nat /\ p.charged \in 0 .. 1
  BY ChargingFinite, FS_CardinalityType DEF StoreInv, TypeOK, RetentionTypeOK
<1>5. (\A g \in Handler : g # h => handlers'[g] = handlers[g]) /\ handlers'[h].at = "NEXT"
  BY DEF CommitSent, TypeOK, RetentionTypeOK
<1>6. CASE p.key = NoKey \/ p.acked
  <2>1. total' = Cardinality(retained') + Cardinality(charging')
    BY <1>1, <1>2, <1>3, <1>4, <1>6
  <2>2. IsFiniteSet(retained') /\ \A d, f \in retained' : keyOf(d) = keyOf(f) => d = f
    BY <1>1, <1>6 DEF StoreInv
  <2> QED
    BY <1>2, <1>5, <2>1, <2>2, StoreClosed
<1>7. CASE ~(p.key = NoKey \/ p.acked)
  <2> DEFINE rest == without(p.key)
  <2>1. total' = total + delta(p.key) - p.charged /\ retained' = rest \cup {e}
    BY <1>1, <1>7
  <2>2. keyOf(e) = p.key
    BY <1>7 DEF CommitSent, StoreInv
  <2>3. /\ IsFiniteSet(rest)
        /\ Cardinality(rest) = Cardinality(retained) + delta(p.key) - 1
        /\ delta(p.key) \in Nat
    <3>1. CASE p.key \in keysOf(retained)
      BY <1>4, <3>1, WithoutOne
    <3>2. CASE p.key \notin keysOf(retained)
      <4>1. rest = retained /\ delta(p.key) = 1
        BY <3>2, NewKey
      <4>2. IsFiniteSet(rest) /\ Cardinality(rest) = Cardinality(retained)
        BY <4>1, Zenon DEF StoreInv
      <4> QED
        BY <1>4, <4>1, <4>2
    <3> QED
      BY <3>1, <3>2
  <2>4. e \notin rest
    BY <2>2 DEF without
  <2>5. IsFiniteSet(rest \cup {e}) /\ Cardinality(rest \cup {e}) = Cardinality(rest) + 1
    BY <2>3, <2>4, FS_AddElement
  <2>6. IsFiniteSet(retained') /\ Cardinality(retained') = Cardinality(rest) + 1
    BY <2>1, <2>5, Zenon
  <2>7. total' = Cardinality(retained') + Cardinality(charging')
    BY <1>2, <1>3, <1>4, <2>1, <2>3, <2>6
  <2>8. \A d, f \in retained' : keyOf(d) = keyOf(f) => d = f
    BY <2>1, <2>2 DEF without, StoreInv
  <2> QED
    BY <1>2, <1>5, <2>6, <2>7, <2>8, StoreClosed
<1> QED
  BY <1>6, <1>7

LEMMA StoreRelease ==
    ASSUME TypeOK, StoreInv, NEW k \in Key, release(k), UNCHANGED handlers
    PROVE  StoreInv'
<1>1. total = Cardinality(retained) + Cardinality(charging)
  BY Accounts DEF StoreInv
<1>2. Cardinality(charging) \in Nat /\ Cardinality(retained) \in Nat
  BY ChargingFinite, FS_CardinalityType DEF StoreInv
<1>3. CASE k \in keysOf(retained)
  <2>1. retained' = without(k) /\ total' = total - 1 /\ reserved' = reserved
    BY <1>3 DEF release
  <2>2. IsFiniteSet(without(k)) /\ Cardinality(without(k)) = Cardinality(retained) - 1
    BY <1>3, WithoutOne
  <2>3. IsFiniteSet(retained') /\ Cardinality(retained') = Cardinality(retained) - 1
    BY <2>1, <2>2, Zenon
  <2>4. Cardinality(charging') = Cardinality(charging)
    BY <2>1 DEF charging
  <2>5. total' = Cardinality(retained') + Cardinality(charging')
    BY <1>1, <1>2, <2>1, <2>3, <2>4
  <2>6. RetentionAccounted'
    BY <2>5 DEF RetentionAccounted, charging
  <2>7. \A e, f \in retained' : keyOf(e) = keyOf(f) => e = f
    BY <2>1 DEF StoreInv, without
  <2> QED
    BY <2>1, <2>3, <2>6, <2>7 DEF StoreInv, keyOf
<1>4. CASE k \notin keysOf(retained)
  <2>1. /\ retained' = retained /\ total' = total
        /\ reserved' = [h \in Handler |-> IF reserved[h].key = k
                                            THEN [reserved[h] EXCEPT !.acked = TRUE] ELSE reserved[h]]
    BY <1>4 DEF release
  <2>2. \A h \in Handler : reserved'[h].key = reserved[h].key /\ reserved'[h].charged = reserved[h].charged
    BY <2>1 DEF TypeOK, RetentionTypeOK
  <2>3. charging' = charging
    BY <2>2 DEF charging
  <2>4. RetentionAccounted'
    BY <1>1, <2>1, <2>3, Zenon DEF RetentionAccounted, charging
  <2> QED
    BY <2>1, <2>2, <2>4 DEF StoreInv, keyOf
<1> QED
  BY <1>3, <1>4

\* A store with nothing in it.
LEMMA StoreEmpty ==
    ASSUME handlers = [h \in Handler |-> FreeHandler], reserved = [h \in Handler |-> NoReservation],
           retained = {}, total = 0
    PROVE  StoreInv
<1>1. charging = {}
  BY DEF charging, NoReservation
<1>2. Cardinality(retained) = 0 /\ Cardinality(charging) = 0 /\ IsFiniteSet(retained)
  BY <1>1, FS_EmptySet
<1> QED
  BY <1>2, Accounts DEF StoreInv, FreeHandler, NoReservation

\* A store that becomes empty.
LEMMA StoreEmptied ==
    ASSUME handlers' = [h \in Handler |-> FreeHandler], reserved' = [h \in Handler |-> NoReservation],
           retained' = {}, total' = 0
    PROVE  StoreInv'
<1>1. {h \in Handler : reserved'[h].charged = 1} = {}
  BY DEF NoReservation
<1>2. /\ Cardinality(retained') = 0 /\ IsFiniteSet(retained')
      /\ Cardinality({h \in Handler : reserved'[h].charged = 1}) = 0
  BY <1>1, FS_EmptySet
<1>3. RetentionAccounted'
  BY <1>2 DEF RetentionAccounted
<1> QED
  BY <1>2, <1>3 DEF StoreInv, FreeHandler, NoReservation

LEMMA NoElements ==
    (\A S : <<>> \in Seq(S)) /\ DOMAIN <<>> = {}
OBVIOUS

-----------------------------------------------------------------------------
(* Numbers *)

\* A step keeps the numbering when its new events, at most one, are numbered above every event of
\* their run and not above the clock.  N: the new events.
LEMMA NumbersKeep ==
    ASSUME Numbering, clock \in [Run -> Nat], clock' \in [Run -> Nat], seqs \in [Run -> Nat],
           seqs' \in [Run -> Nat], NEW N \in SUBSET Event,
           \A q \in Run : clock[q] <= clock'[q],
           \A e \in Event : inFlight(e)' => inFlight(e) \/ e \in N,
           \A e, f \in N : e = f,
           \A n \in N : /\ \A e \in Event : inFlight(e) /\ e.run = n.run => e.seq < n.seq
                        /\ n.seq <= clock'[n.run]
                        /\ build'[n.run] # "NEW"
                        /\ build'[n.run] = "BUILDING" => n.seq <= seqs'[n.run],
           \A q \in Run : build'[q] = "NEW" => build[q] = "NEW" /\ seqs'[q] = seqs[q],
           \A q \in Run : build'[q] = "BUILDING" =>
                            \/ build[q] \in {"NEW", "BUILDING"} /\ seqs[q] <= seqs'[q]
                            \/ clock[q] <= seqs'[q]
    PROVE  Numbering'
<1>0. \A e \in Event : e.run \in Run /\ e.seq \in Nat
  BY DEF Event
<1>1. \A e \in Event : inFlight(e) => \A n \in N : keyOf(e) # keyOf(n)
  <2> SUFFICES ASSUME NEW e \in Event, inFlight(e), NEW n \in N, keyOf(e) = keyOf(n)
               PROVE  FALSE
    OBVIOUS
  <2>1. e.run = n.run /\ e.seq = n.seq
    BY DEF keyOf
  <2>2. e.seq < n.seq
    BY <2>1
  <2> QED
    BY <1>0, <2>1, <2>2
<1>2. KeysUnique'
  BY <1>1 DEF Numbering, KeysUnique, keyOf
<1>3. BelowClock'
  <2> SUFFICES ASSUME NEW e \in Event, inFlight(e)'
               PROVE  e.seq <= clock'[e.run]
    BY DEF BelowClock
  <2>1. clock[e.run] \in Nat /\ clock'[e.run] \in Nat /\ clock[e.run] <= clock'[e.run]
    BY <1>0
  <2>2. CASE inFlight(e)
    <3>1. e.seq <= clock[e.run]
      BY <2>2 DEF Numbering, BelowClock
    <3> QED
      BY <3>1, <1>0, <2>1
  <2> QED
    BY <2>2
<1>4. CountsOn'
  <2>1. \A q \in Run : build'[q] = "NEW" => seqs'[q] = 0
    BY DEF Numbering, CountsOn
  <2>2. ASSUME NEW e \in Event, inFlight(e)', build'[e.run] \in {"NEW", "BUILDING"}
        PROVE  e.seq <= seqs'[e.run]
    <3>1. /\ e.run \in Run /\ e.seq \in Nat /\ clock[e.run] \in Nat
          /\ seqs[e.run] \in Nat /\ seqs'[e.run] \in Nat
      BY <1>0
    <3>2. CASE e \in N
      BY <2>2, <3>2
    <3>3. CASE inFlight(e)
      <4>1. e.seq <= clock[e.run]
        BY <3>3 DEF Numbering, BelowClock
      <4>2. build[e.run] \in {"NEW", "BUILDING"} => e.seq <= seqs[e.run]
        BY <3>3 DEF Numbering, CountsOn
      <4>3. CASE build'[e.run] = "NEW"
        BY <3>1, <4>2, <4>3
      <4>4. CASE build'[e.run] = "BUILDING"
        BY <3>1, <4>1, <4>2, <4>4
      <4> QED
        BY <2>2, <4>3, <4>4
    <3> QED
      BY <2>2, <3>2, <3>3
  <2> QED
    BY <2>1, <2>2 DEF CountsOn
<1> QED
  BY <1>2, <1>3, <1>4 DEF Numbering

\* A step that only moves events.
LEMMA Moves ==
    ASSUME Numbering, clock \in [Run -> Nat], seqs \in [Run -> Nat], UNCHANGED <<clock, seqs>>,
           \A e \in Event : inFlight(e)' => inFlight(e),
           \A q \in Run : build'[q] \in {"NEW", "BUILDING"} => build'[q] = build[q]
    PROVE  Numbering'
<1> DEFINE N == {}
<1>1. /\ N \in SUBSET Event
      /\ \A e \in Event : inFlight(e)' => inFlight(e) \/ e \in N
      /\ \A e, f \in N : e = f
      /\ \A n \in N : /\ \A e \in Event : inFlight(e) /\ e.run = n.run => e.seq < n.seq
                      /\ n.seq <= clock'[n.run]
                      /\ build'[n.run] # "NEW"
                      /\ build'[n.run] = "BUILDING" => n.seq <= seqs'[n.run]
  OBVIOUS
<1>2. \A q \in Run : clock[q] <= clock'[q] /\ seqs[q] <= seqs'[q]
  OBVIOUS
<1> HIDE DEF N
<1> QED
  BY <1>1, <1>2, NumbersKeep

\* A step with one new event.
LEMMA Sends ==
    ASSUME Numbering, clock \in [Run -> Nat], seqs \in [Run -> Nat], seqs' \in [Run -> Nat],
           NEW n \in Event,
           \A e \in Event : inFlight(e) /\ e.run = n.run => e.seq < n.seq,
           clock' = [clock EXCEPT ![n.run] = IF n.seq > @ THEN n.seq ELSE @],
           \A e \in Event : inFlight(e)' => inFlight(e) \/ e = n,
           build'[n.run] # "NEW",
           build'[n.run] = "BUILDING" => /\ seqs'[n.run] = n.seq
                                         /\ \/ build[n.run] \in {"NEW", "BUILDING"} /\ seqs[n.run] < n.seq
                                            \/ clock[n.run] < n.seq,
           \A q \in Run : q # n.run /\ build'[q] \in {"NEW", "BUILDING"} =>
                            build'[q] = build[q] /\ seqs[q] <= seqs'[q] /\ (build[q] = "NEW" => seqs'[q] = seqs[q])
    PROVE  clock' \in [Run -> Nat] /\ Numbering'
<1>0. n.run \in Run /\ n.seq \in Nat
  BY DEF Event
<1>1. /\ clock' \in [Run -> Nat] /\ n.seq <= clock'[n.run]
      /\ \A q \in Run : clock[q] <= clock'[q]
  BY <1>0
<1>2. \A q \in Run : build'[q] = "NEW" => build[q] = "NEW" /\ seqs'[q] = seqs[q]
  BY <1>0
<1>3. \A q \in Run : build'[q] = "BUILDING" =>
                       \/ build[q] \in {"NEW", "BUILDING"} /\ seqs[q] <= seqs'[q]
                       \/ clock[q] <= seqs'[q]
  <2> SUFFICES ASSUME NEW q \in Run, build'[q] = "BUILDING"
               PROVE  \/ build[q] \in {"NEW", "BUILDING"} /\ seqs[q] <= seqs'[q]
                      \/ clock[q] <= seqs'[q]
    OBVIOUS
  <2>1. CASE q = n.run
    BY <1>0, <2>1
  <2>2. CASE q # n.run
    BY <2>2
  <2> QED
    BY <2>1, <2>2
<1>4. n.seq <= seqs'[n.run] \/ build'[n.run] # "BUILDING"
  BY <1>0
<1> DEFINE N == {n}
<1>5. /\ N \in SUBSET Event
      /\ \A e \in Event : inFlight(e)' => inFlight(e) \/ e \in N
      /\ \A e, f \in N : e = f
      /\ \A m \in N : /\ \A e \in Event : inFlight(e) /\ e.run = m.run => e.seq < m.seq
                      /\ m.seq <= clock'[m.run]
                      /\ build'[m.run] # "NEW"
                      /\ build'[m.run] = "BUILDING" => m.seq <= seqs'[m.run]
  BY <1>1, <1>4
<1> HIDE DEF N
<1> QED
  BY <1>1, <1>2, <1>3, <1>5, NumbersKeep

\* What the counter of a build gives is new, and so is what follows the wall clock.
LEMMA CounterIsNew ==
    ASSUME IndInv, NEW r \in Run, build[r] \in {"NEW", "BUILDING"}
    PROVE  /\ nextSeq(r) \in Nat /\ seqs[r] < nextSeq(r)
           /\ \A e \in Event : inFlight(e) /\ e.run = r => e.seq < nextSeq(r)
<1>1. seqs[r] \in Nat
  BY DEF IndInv, TypeOK, SpoolTypeOK
<1>2. ASSUME NEW e \in Event, inFlight(e), e.run = r
      PROVE  e.seq < seqs[r] + 1
  <2>1. e.seq \in Nat /\ e.seq <= seqs[r]
    BY <1>2 DEF Event, IndInv, Numbering, CountsOn
  <2> QED
    BY <1>1, <2>1
<1> QED
  BY <1>1, <1>2 DEF nextSeq

LEMMA ClockIsNew ==
    ASSUME IndInv, NEW r \in Run
    PROVE  /\ clock[r] \in Nat
           /\ \A e \in Event : inFlight(e) /\ e.run = r => e.seq < clock[r] + 1
<1>1. clock[r] \in Nat
  BY DEF IndInv, TypeOK, SpoolTypeOK
<1>2. ASSUME NEW e \in Event, inFlight(e), e.run = r
      PROVE  e.seq < clock[r] + 1
  <2>1. e.seq \in Nat /\ e.seq <= clock[r]
    BY <1>2 DEF Event, IndInv, Numbering, BelowClock
  <2> QED
    BY <1>1, <2>1
<1> QED
  BY <1>1, <1>2

\* The wall clock goes on to the number taken from it.
LEMMA ClockGoesOn ==
    ASSUME clock \in [Run -> Nat], NEW r \in Run
    PROVE  [clock EXCEPT ![r] = clock[r] + 1] =
             [clock EXCEPT ![r] = IF clock[r] + 1 > clock[r] THEN clock[r] + 1 ELSE clock[r]]
<1>1. clock[r] + 1 > clock[r]
  OBVIOUS
<1> QED
  BY <1>1

-----------------------------------------------------------------------------
(* The plugin *)

LEMMA MakeEvent ==
    ASSUME NEW r \in Run, NEW n \in Nat, NEW p \in Phase
    PROVE  /\ event(r, n, p) \in Event
           /\ event(r, n, p).run = r /\ event(r, n, p).seq = n /\ event(r, n, p).phase = p
BY DEF event, Event

\* The sink and what overflows it.
LEMMA EmitMoves ==
    ASSUME TypeOK, NEW e \in Event, emit(e)
    PROVE  /\ sink' \in SUBSET Event
           /\ spill' \in [Run -> SUBSET Event]
           /\ \A f \in sink' : f \in sink \/ f = e
           /\ \A r \in Run : \A f \in spill'[r] : f \in spill[r] \/ f \in sink \/ f = e
<1> USE DEF TypeOK, SpoolTypeOK
<1>0. e.run \in Run
  BY DEF Event
<1>1. CASE sink' = sink \cup {e} /\ spill' = spill
  BY <1>1
<1>2. CASE sink' = sink /\ spill' = spill
  BY <1>2
<1>3. CASE /\ sink' = sink \ ofRun(sink, e.run)
           /\ spill' = [spill EXCEPT ![e.run] = ofRun(sink, e.run) \cup {e}]
  <2>1. sink' \in SUBSET Event /\ \A f \in sink' : f \in sink
    BY <1>3
  <2>2. \A r \in Run : spill'[r] = IF r = e.run THEN ofRun(sink, e.run) \cup {e} ELSE spill[r]
    BY <1>0, <1>3
  <2>3. ofRun(sink, e.run) \subseteq sink
    BY DEF ofRun
  <2> QED
    BY <1>0, <1>3, <2>1, <2>2, <2>3
<1> QED
  BY <1>1, <1>2, <1>3 DEF emit

\* The spool after one more file: a completion stays.
LEMMA WrittenKeeps ==
    ASSUME spool \in SUBSET Event, IsFiniteSet(spool), NEW e \in Event
    PROVE  /\ written(e) \in SUBSET Event /\ IsFiniteSet(written(e))
           /\ \A f \in written(e) : f \in spool \/ f = e
           /\ \A f \in spool : isCompletedPhase(f) => f \in written(e)
           /\ e \in written(e)
<1> DEFINE gone == evictToCap(spool \cup {e}, e)
<1>1. written(e) = (spool \cup {e}) \ gone
  BY DEF written
<1>2. \A f \in gone : f # e /\ ~isCompletedPhase(f)
  BY DEF evictToCap, earliest
<1>3. IsFiniteSet(spool \cup {e})
  BY FS_AddElement
<1>4. IsFiniteSet(written(e))
  BY <1>1, <1>3, FS_Subset
<1> QED
  BY <1>1, <1>2, <1>4

\* The journal keeps the run, or the spool its completion.
LEMMA AppendKeeps ==
    ASSUME TypeOK, IsFiniteSet(spool), NEW e \in Event, append(e)
    PROVE  /\ spool' \in SUBSET Event /\ journal' \in SUBSET Run
           /\ IsFiniteSet(spool')
           /\ \A f \in spool' : f \in spool \/ f = e
           /\ \A f \in spool : isCompletedPhase(f) => f \in spool'
           /\ \A r \in Run : r \in journal => r \in journal' \/ completionIn(spool', r)
           /\ journal' \subseteq journal
<1> USE DEF TypeOK, SpoolTypeOK
<1>1. CASE isHeartbeat(e)
  BY <1>1 DEF append, isHeartbeat, isCompletedPhase
<1>2. CASE ~isHeartbeat(e)
  <2>1. /\ spool' = written(e)
        /\ journal' = IF isCompletedPhase(e) THEN journal \ {e.run} ELSE journal
    BY <1>2 DEF append
  <2>2. /\ spool' \in SUBSET Event /\ IsFiniteSet(spool') /\ e \in spool'
        /\ \A f \in spool' : f \in spool \/ f = e
        /\ \A f \in spool : isCompletedPhase(f) => f \in spool'
    BY <2>1, WrittenKeeps
  <2>3. \A r \in Run : r \in journal => r \in journal' \/ completionIn(spool', r)
    BY <2>1, <2>2 DEF completionIn
  <2> QED
    BY <2>1, <2>2, <2>3
<1> QED
  BY <1>1, <1>2

LEMMA NoteKeepsType ==
    ASSUME TypeOK, NEW r \in Run, noteSpooled(r)
    PROVE  announced' \in Seq(Run)
BY DEF noteSpooled, TypeOK, SpoolTypeOK

\* A step that takes no completion from the spool, and from the journal only what the spool keeps or
\* what the code gives up, forgets no build.
LEMMA Remembers ==
    ASSUME NeverForgotten,
           \A r \in Run : build'[r] \notin {"NEW", "GONE"} => build[r] \notin {"NEW", "GONE"} \/ r \in journal',
           \A r \in Run : r \in journal \cup expired \cup dropped =>
                            \/ r \in journal' \cup expired' \cup dropped'
                            \/ build'[r] = "GONE" \/ completionIn(spool', r),
           \A f \in spool : isCompletedPhase(f) => f \in spool' \cup stored' \cup refused',
           stored \subseteq stored', refused \subseteq refused'
    PROVE  NeverForgotten'
<1> SUFFICES ASSUME NEW r \in Run, build'[r] \notin {"NEW", "GONE"},
                    r \notin journal' \cup expired' \cup dropped'
             PROVE  completionIn(spool' \cup settled', r)
  BY DEF NeverForgotten, completionIn, isCompletedPhase
<1>1. CASE r \in journal \cup expired \cup dropped
  BY <1>1 DEF completionIn
<1>2. CASE r \notin journal \cup expired \cup dropped
  <2>1. PICK e \in spool \cup settled : e.run = r /\ isCompletedPhase(e)
    BY <1>2 DEF NeverForgotten, completionIn
  <2>2. e \in spool' \cup settled'
    BY <2>1 DEF settled
  <2> QED
    BY <2>1, <2>2 DEF completionIn
<1> QED
  BY <1>1, <1>2

\* A drop by the size caps is counted, or no fault is.
LEMMA DropCounted ==
    ASSUME TypeOK, countsDrop
    PROVE  faults' \in 0 .. MaxFaults
BY PathAssumption DEF TypeOK, countsDrop, fault

\* A step of the plugin that leaves the dispatcher, the mite and the gateway.
LEMMA PluginStep ==
    ASSUME IndInv, UNCHANGED <<eventVars, disp>>, faults' \in 0 .. MaxFaults,
           SpoolTypeOK', IsFiniteSet(spool'), Numbering', NeverForgotten', BootShape', MadeOnce'
    PROVE  IndInv'
<1>1. TypeOK'
  BY DEF IndInv, TypeOK, RetentionTypeOK, eventVars, retentionVars, gatewayVars
<1>2. StoreInv'
  BY DEF IndInv, StoreInv, RetentionAccounted, eventVars, retentionVars, gatewayVars
<1>3. AcksKnown'
  BY DEF IndInv, AcksKnown, settled, eventVars, gatewayVars
<1> QED
  BY <1>1, <1>2, <1>3 DEF IndInv

\* Where the events of such a step come from.
LEMMA PluginFlight ==
    ASSUME UNCHANGED <<eventVars, disp>>, NEW n,
           \A f \in sink' \cup spool' : inFlight(f) \/ f = n,
           \A r \in Run : \A f \in spill'[r] : inFlight(f) \/ f = n
    PROVE  \A e \in Event : inFlight(e)' => inFlight(e) \/ e = n
BY DEF inFlight, waits, sent, eventVars, retentionVars, gatewayVars

\* A step of one build, r.
LEMMA BuildStep ==
    ASSUME IndInv, UNCHANGED <<eventVars, disp>>, faults' \in 0 .. MaxFaults, NEW r \in Run,
           up, UNCHANGED <<up, spool, announced, unchecked>>,
           SpoolTypeOK', Numbering', MadeOnce',
           build[r] # "GONE", build'[r] \notin {"NEW", "GONE"},
           \A q \in Run : q # r => build'[q] = build[q],
           build'[r] = "BUILDING" => build[r] \in {"NEW", "BUILDING"} \/ unchecked = {},
           journal' = journal \/ journal' = journal \cup {r},
           build[r] = "NEW" => r \in journal',
           expired \subseteq expired' \cup journal', dropped \subseteq dropped'
    PROVE  IndInv'
<1>1. stored' = stored /\ refused' = refused
  BY DEF eventVars, gatewayVars
<1>2. NeverForgotten'
  BY <1>1, Remembers DEF IndInv
<1>3. BootShape'
  BY DEF IndInv, BootShape
<1> QED
  BY <1>2, <1>3, PluginStep DEF IndInv

\* The numbers of such a step, with one event emitted.
LEMMA EmitNumbers ==
    ASSUME IndInv, UNCHANGED <<eventVars, disp, spool>>,
           NEW r \in Run, NEW k \in Nat, NEW p \in Phase, emit(event(r, k, p)),
           \A e \in Event : inFlight(e) /\ e.run = r => e.seq < k,
           clock' = [clock EXCEPT ![r] = IF k > clock[r] THEN k ELSE clock[r]],
           seqs' \in [Run -> Nat],
           \A q \in Run : q # r => build'[q] = build[q] /\ seqs'[q] = seqs[q],
           build'[r] # "NEW",
           build'[r] = "BUILDING" => /\ seqs'[r] = k
                                     /\ \/ build[r] \in {"NEW", "BUILDING"} /\ seqs[r] < k
                                        \/ clock[r] < k
    PROVE  /\ sink' \in SUBSET Event /\ spill' \in [Run -> SUBSET Event]
           /\ clock' \in [Run -> Nat] /\ Numbering'
<1> DEFINE n == event(r, k, p)
<1>0. TypeOK /\ Numbering /\ clock \in [Run -> Nat] /\ seqs \in [Run -> Nat]
  BY DEF IndInv, TypeOK, SpoolTypeOK
<1>1. n \in Event /\ n.run = r /\ n.seq = k
  BY MakeEvent
<1> HIDE DEF n
<1>2. /\ sink' \in SUBSET Event
      /\ spill' \in [Run -> SUBSET Event]
      /\ \A f \in sink' : f \in sink \/ f = n
      /\ \A q \in Run : \A f \in spill'[q] : f \in spill[q] \/ f \in sink \/ f = n
  BY <1>0, <1>1, EmitMoves DEF n
<1>3. \A e \in Event : inFlight(e)' => inFlight(e) \/ e = n
  <2>1. \A f \in sink' \cup spool' : inFlight(f) \/ f = n
    BY <1>2 DEF inFlight, waits, sent
  <2>2. \A q \in Run : \A f \in spill'[q] : inFlight(f) \/ f = n
    BY <1>2 DEF inFlight, waits, sent
  <2> QED
    BY <2>1, <2>2, PluginFlight
<1>4. \A q \in Run : q # r /\ build'[q] \in {"NEW", "BUILDING"} =>
                       build'[q] = build[q] /\ seqs[q] <= seqs'[q] /\ (build[q] = "NEW" => seqs'[q] = seqs[q])
  BY <1>0
<1>5. clock' = [clock EXCEPT ![n.run] = IF n.seq > @ THEN n.seq ELSE @]
  BY <1>1
<1>6. /\ \A e \in Event : inFlight(e) /\ e.run = n.run => e.seq < n.seq
      /\ build'[n.run] # "NEW"
      /\ build'[n.run] = "BUILDING" => /\ seqs'[n.run] = n.seq
                                       /\ \/ build[n.run] \in {"NEW", "BUILDING"} /\ seqs[n.run] < n.seq
                                          \/ clock[n.run] < n.seq
  BY <1>1
<1>7. clock' \in [Run -> Nat] /\ Numbering'
  BY <1>0, <1>1, <1>3, <1>4, <1>5, <1>6, Sends
<1> QED
  BY <1>2, <1>7

\* And with none.
LEMMA QuietNumbers ==
    ASSUME IndInv, UNCHANGED <<eventVars, disp, spool, clock, seqs, sink, spill>>,
           \A q \in Run : build'[q] \in {"NEW", "BUILDING"} => build'[q] = build[q]
    PROVE  Numbering'
<1>1. \A e \in Event : inFlight(e)' => inFlight(e)
  BY DEF inFlight, waits, sent, eventVars, retentionVars, gatewayVars
<1> QED
  BY <1>1, Moves DEF IndInv, TypeOK, SpoolTypeOK

\* A late completion of r, or none: the size caps drop it.
LEMMA LateNumbers ==
    ASSUME IndInv, UNCHANGED <<eventVars, disp, spool>>, NEW r \in Run,
           emitsLate(r) \/ capsDrop(r),
           \A q \in Run : q # r => build'[q] = build[q], build'[r] \notin {"NEW", "BUILDING"}
    PROVE  /\ sink' \in SUBSET Event /\ spill' \in [Run -> SUBSET Event]
           /\ clock' \in [Run -> Nat] /\ seqs' = seqs /\ Numbering'
           /\ dropped' \in SUBSET Run /\ dropped \subseteq dropped'
<1>0. clock \in [Run -> Nat] /\ seqs \in [Run -> Nat] /\ TypeOK
  BY DEF IndInv, TypeOK, SpoolTypeOK
<1>1. CASE emitsLate(r)
  <2>1. /\ emit(event(r, clock[r] + 1, "COMPLETED")) /\ UNCHANGED <<seqs, dropped>>
        /\ clock' = [clock EXCEPT ![r] = clock[r] + 1]
    BY <1>1 DEF emitsLate, bootCompletedEvent
  <2>2. /\ clock[r] + 1 \in Nat
        /\ \A e \in Event : inFlight(e) /\ e.run = r => e.seq < clock[r] + 1
    BY ClockIsNew
  <2>3. clock' = [clock EXCEPT ![r] = IF clock[r] + 1 > clock[r] THEN clock[r] + 1 ELSE clock[r]]
    BY <1>0, <2>1, ClockGoesOn
  <2>4. /\ sink' \in SUBSET Event /\ spill' \in [Run -> SUBSET Event]
        /\ clock' \in [Run -> Nat] /\ Numbering'
    BY <1>0, <2>1, <2>2, <2>3, EmitNumbers DEF Phase
  <2> QED
    BY <1>0, <2>1, <2>4 DEF TypeOK, SpoolTypeOK
<1>2. CASE capsDrop(r)
  <2>1. UNCHANGED <<clock, seqs, made, sink, spill>> /\ dropped' = dropped \cup {r}
    BY <1>2 DEF capsDrop
  <2>2. Numbering'
    BY <2>1, QuietNumbers
  <2> QED
    BY <1>0, <2>1, <2>2 DEF TypeOK, SpoolTypeOK
<1> QED
  BY <1>1, <1>2

\* A completion that is made when none was, by the last who could.
LEMMA MakesOne ==
    ASSUME IndInv, NEW r \in Run, made[r] = 0,
           UNCHANGED made \/ (makes(r) /\ allMade(r)'),
           \A q \in Run : q # r => (allMade(q) => allMade(q)')
    PROVE  made' \in [Run -> Nat] /\ MadeOnce'
<1>0. made \in [Run -> Nat] /\ MadeOnce
  BY DEF IndInv, TypeOK, SpoolTypeOK
<1>1. CASE UNCHANGED made
  BY <1>0, <1>1 DEF MadeOnce
<1>2. CASE makes(r) /\ allMade(r)'
  BY <1>0, <1>2 DEF MadeOnce, makes
<1> QED
  BY <1>1, <1>2

LEMMA NoneMade ==
    ASSUME IndInv, UNCHANGED made, \A q \in Run : allMade(q) => allMade(q)'
    PROVE  made' \in [Run -> Nat] /\ MadeOnce'
BY DEF IndInv, TypeOK, SpoolTypeOK, MadeOnce

\* The steps of the builds.  The caps count as faults.
LEMMA BuildsStep ==
    ASSUME IndInv, Builds
    PROVE  IndInv'
<1>0. /\ UNCHANGED <<eventVars, disp>> /\ TypeOK /\ SpoolTypeOK
      /\ build \in [Run -> BuildState] /\ clock \in [Run -> Nat] /\ seqs \in [Run -> Nat]
      /\ BootShape /\ MadeOnce
  BY DEF IndInv, TypeOK, SpoolTypeOK, Builds
<1>a. faults' \in 0 .. MaxFaults
  BY <1>0, DropCounted DEF Builds
<1>1. ASSUME NEW r \in Run, onStarted(r)
      PROVE  IndInv'
  <2>1. /\ build[r] = "NEW" /\ up /\ numbered(r, nextSeq(r))
        /\ emit(event(r, nextSeq(r), "STARTED"))
        /\ build' = [build EXCEPT ![r] = "BUILDING"] /\ journal' = journal \cup {r}
        /\ UNCHANGED <<up, spool, announced, expired, dropped, made, unchecked, claimed>>
    BY <1>1 DEF onStarted, bootVars
  <2>2. /\ nextSeq(r) \in Nat /\ seqs[r] < nextSeq(r)
        /\ \A e \in Event : inFlight(e) /\ e.run = r => e.seq < nextSeq(r)
    BY <2>1, CounterIsNew
  <2>3. /\ seqs' = [seqs EXCEPT ![r] = nextSeq(r)]
        /\ clock' = [clock EXCEPT ![r] = IF nextSeq(r) > clock[r] THEN nextSeq(r) ELSE clock[r]]
    BY <2>1 DEF numbered
  <2>4. /\ seqs' \in [Run -> Nat] /\ seqs'[r] = nextSeq(r)
        /\ \A q \in Run : q # r => build'[q] = build[q] /\ seqs'[q] = seqs[q]
        /\ build' \in [Run -> BuildState] /\ build'[r] = "BUILDING"
    BY <1>0, <2>1, <2>2, <2>3 DEF BuildState
  <2>5. /\ sink' \in SUBSET Event /\ spill' \in [Run -> SUBSET Event]
        /\ clock' \in [Run -> Nat] /\ Numbering'
    BY <1>0, <2>1, <2>2, <2>3, <2>4, EmitNumbers DEF Phase
  <2>6. \A q \in Run : allMade(q) => allMade(q)'
    BY <1>0, <2>1 DEF allMade, endedByRestart
  <2>7. made' \in [Run -> Nat] /\ MadeOnce'
    BY <2>1, <2>6, NoneMade
  <2>8. SpoolTypeOK'
    BY <1>0, <2>1, <2>4, <2>5, <2>7 DEF SpoolTypeOK
  <2> QED
    BY <1>0, <1>a, <2>1, <2>4, <2>5, <2>7, <2>8, BuildStep
<1>2. ASSUME NEW r \in Run, heartbeatTick(r)
      PROVE  IndInv'
  <2>1. /\ build[r] = "BUILDING" /\ up /\ numbered(r, nextSeq(r))
        /\ emit(event(r, nextSeq(r), "HEARTBEAT"))
        /\ expired' = expired \ (journal \cap {r})
        /\ UNCHANGED <<up, build, spool, journal, announced, dropped, made, unchecked, claimed>>
    BY <1>2 DEF heartbeatTick, bootVars
  <2>2. /\ nextSeq(r) \in Nat /\ seqs[r] < nextSeq(r)
        /\ \A e \in Event : inFlight(e) /\ e.run = r => e.seq < nextSeq(r)
    BY <2>1, CounterIsNew
  <2>3. /\ seqs' = [seqs EXCEPT ![r] = nextSeq(r)]
        /\ clock' = [clock EXCEPT ![r] = IF nextSeq(r) > clock[r] THEN nextSeq(r) ELSE clock[r]]
    BY <2>1 DEF numbered
  <2>4. /\ seqs' \in [Run -> Nat] /\ seqs'[r] = nextSeq(r)
        /\ \A q \in Run : q # r => build'[q] = build[q] /\ seqs'[q] = seqs[q]
    BY <1>0, <2>1, <2>2, <2>3
  <2>5. /\ sink' \in SUBSET Event /\ spill' \in [Run -> SUBSET Event]
        /\ clock' \in [Run -> Nat] /\ Numbering'
    BY <1>0, <2>1, <2>2, <2>3, <2>4, EmitNumbers DEF Phase
  <2>6. \A q \in Run : allMade(q) => allMade(q)'
    BY <2>1 DEF allMade, endedByRestart
  <2>7. made' \in [Run -> Nat] /\ MadeOnce'
    BY <2>1, <2>6, NoneMade
  <2>8. SpoolTypeOK' /\ expired \subseteq expired' \cup journal'
    BY <1>0, <2>1, <2>4, <2>5, <2>7 DEF SpoolTypeOK
  <2> QED
    BY <1>0, <1>a, <2>1, <2>4, <2>5, <2>7, <2>8, BuildStep
<1>3. ASSUME NEW r \in Run, onCompleted(r)
      PROVE  IndInv'
  <2>1. /\ build[r] = "BUILDING" /\ up /\ build' = [build EXCEPT ![r] = "DONE"]
        /\ UNCHANGED <<up, spool, journal, announced, expired, unchecked, claimed>>
        /\ \/ /\ numbered(r, nextSeq(r)) /\ makes(r) /\ UNCHANGED dropped
              /\ emit(event(r, nextSeq(r), "COMPLETED"))
           \/ capsDrop(r)
    BY <1>3 DEF onCompleted, bootVars
  <2>2. /\ build' \in [Run -> BuildState] /\ build'[r] = "DONE"
        /\ \A q \in Run : q # r => build'[q] = build[q]
    BY <1>0, <2>1 DEF BuildState
  <2>3. r \notin unchecked /\ made[r] = 0
    BY <1>0, <2>1 DEF BootShape, MadeOnce, allMade, endedByRestart
  <2>4. /\ sink' \in SUBSET Event /\ spill' \in [Run -> SUBSET Event]
        /\ clock' \in [Run -> Nat] /\ seqs' \in [Run -> Nat] /\ Numbering'
        /\ dropped' \in SUBSET Run /\ dropped \subseteq dropped'
        /\ UNCHANGED made \/ makes(r)
    <3>1. CASE capsDrop(r)
      BY <1>0, <2>1, <2>2, <3>1, LateNumbers DEF capsDrop
    <3>2. CASE /\ numbered(r, nextSeq(r)) /\ makes(r) /\ UNCHANGED dropped
               /\ emit(event(r, nextSeq(r), "COMPLETED"))
      <4>1. /\ nextSeq(r) \in Nat /\ seqs[r] < nextSeq(r)
            /\ \A e \in Event : inFlight(e) /\ e.run = r => e.seq < nextSeq(r)
        BY <2>1, CounterIsNew
      <4>2. /\ seqs' = [seqs EXCEPT ![r] = nextSeq(r)]
            /\ clock' = [clock EXCEPT ![r] = IF nextSeq(r) > clock[r] THEN nextSeq(r) ELSE clock[r]]
        BY <3>2 DEF numbered
      <4>3. /\ seqs' \in [Run -> Nat]
            /\ \A q \in Run : q # r => seqs'[q] = seqs[q]
        BY <1>0, <4>1, <4>2
      <4>4. /\ sink' \in SUBSET Event /\ spill' \in [Run -> SUBSET Event]
            /\ clock' \in [Run -> Nat] /\ Numbering'
        BY <1>0, <2>1, <2>2, <3>2, <4>1, <4>2, <4>3, EmitNumbers DEF Phase
      <4> QED
        BY <1>0, <3>2, <4>3, <4>4 DEF SpoolTypeOK
    <3> QED
      BY <2>1, <3>1, <3>2
  <2>5. allMade(r)' /\ \A q \in Run : q # r => (allMade(q) => allMade(q)')
    BY <2>1, <2>2, <2>3 DEF allMade, endedByRestart
  <2>6. made' \in [Run -> Nat] /\ MadeOnce'
    BY <2>3, <2>4, <2>5, MakesOne
  <2>7. SpoolTypeOK'
    BY <1>0, <2>1, <2>2, <2>4, <2>6 DEF SpoolTypeOK
  <2> QED
    BY <1>0, <1>a, <2>1, <2>2, <2>4, <2>6, <2>7, BuildStep
<1>4. ASSUME NEW r \in Run, onCompletedAgain(r)
      PROVE  IndInv'
  <2>1. /\ build[r] = "FINISHED" /\ up /\ unchecked = {} /\ r \notin claimed
        /\ build' = [build EXCEPT ![r] = "DONE"]
        /\ UNCHANGED <<up, spool, journal, announced, expired, unchecked, claimed>>
        /\ emitsLate(r) \/ capsDrop(r)
    BY <1>4 DEF onCompletedAgain, bootVars
  <2>2. /\ build' \in [Run -> BuildState] /\ build'[r] = "DONE"
        /\ \A q \in Run : q # r => build'[q] = build[q]
    BY <1>0, <2>1 DEF BuildState
  <2>3. made[r] = 0 /\ (UNCHANGED made \/ makes(r))
    BY <1>0, <2>1 DEF MadeOnce, allMade, emitsLate, capsDrop
  <2>4. /\ sink' \in SUBSET Event /\ spill' \in [Run -> SUBSET Event]
        /\ clock' \in [Run -> Nat] /\ seqs' = seqs /\ Numbering'
        /\ dropped' \in SUBSET Run /\ dropped \subseteq dropped'
    BY <1>0, <2>1, <2>2, LateNumbers
  <2>5. allMade(r)' /\ \A q \in Run : q # r => (allMade(q) => allMade(q)')
    BY <2>1, <2>2 DEF allMade, endedByRestart
  <2>6. made' \in [Run -> Nat] /\ MadeOnce'
    BY <2>3, <2>5, MakesOne
  <2>7. SpoolTypeOK'
    BY <1>0, <2>1, <2>2, <2>4, <2>6 DEF SpoolTypeOK
  <2> QED
    BY <1>0, <1>a, <2>1, <2>2, <2>4, <2>6, <2>7, BuildStep
<1> QED
  BY <1>1, <1>2, <1>3, <1>4 DEF Builds

LEMMA AfterLoadStep ==
    ASSUME IndInv, NEW r \in Run, AfterLoad(r)
    PROVE  IndInv'
<1>0. /\ UNCHANGED <<eventVars, disp>> /\ TypeOK /\ SpoolTypeOK
      /\ build \in [Run -> BuildState] /\ clock \in [Run -> Nat] /\ seqs \in [Run -> Nat]
      /\ BootShape /\ MadeOnce
  BY DEF IndInv, TypeOK, SpoolTypeOK, AfterLoad
<1>a. faults' \in 0 .. MaxFaults
  BY <1>0, DropCounted DEF AfterLoad
<1>1. CASE onCompletedByRestart(r)
  <2>1. /\ build[r] = "REFUSED" /\ up /\ build' = [build EXCEPT ![r] = "FINISHED"]
        /\ UNCHANGED <<up, spool, journal, announced, expired, unchecked>>
        /\ \/ r \in claimed /\ UNCHANGED <<clock, seqs, made, sink, spill, dropped, claimed>>
           \/ r \notin claimed /\ claimed' = claimed \cup {r} /\ emitsLate(r)
           \/ r \notin claimed /\ claimed' \in {claimed, claimed \cup {r}} /\ capsDrop(r)
    BY <1>1 DEF onCompletedByRestart
  <2>2. /\ build' \in [Run -> BuildState] /\ build'[r] = "FINISHED"
        /\ \A q \in Run : q # r => build'[q] = build[q]
    BY <1>0, <2>1 DEF BuildState
  <2>3. /\ sink' \in SUBSET Event /\ spill' \in [Run -> SUBSET Event]
        /\ clock' \in [Run -> Nat] /\ seqs' = seqs /\ Numbering'
        /\ dropped' \in SUBSET Run /\ dropped \subseteq dropped'
    <3>1. CASE UNCHANGED <<clock, seqs, sink, spill, dropped>>
      <4>1. Numbering'
        BY <1>0, <2>1, <2>2, <3>1, QuietNumbers
      <4> QED
        BY <1>0, <3>1, <4>1 DEF SpoolTypeOK
    <3>2. CASE emitsLate(r) \/ capsDrop(r)
      BY <1>0, <2>1, <2>2, <3>2, LateNumbers
    <3> QED
      BY <2>1, <3>1, <3>2
  <2>4. claimed' \in SUBSET Run /\ claimed \subseteq claimed'
    BY <1>0, <2>1 DEF SpoolTypeOK
  <2>5. \A q \in Run : q # r => (allMade(q) => allMade(q)')
    BY <2>1, <2>2, <2>4 DEF allMade, endedByRestart
  <2>6. made' \in [Run -> Nat] /\ MadeOnce'
    <3>1. CASE r \in claimed
      <4>1. allMade(r)' /\ UNCHANGED made
        BY <2>1, <2>2, <2>4, <3>1 DEF allMade, endedByRestart
      <4> QED
        BY <2>5, <4>1, NoneMade
    <3>2. CASE r \notin claimed
      <4>1. made[r] = 0
        BY <1>0, <2>1, <3>2 DEF MadeOnce, allMade
      <4>2. r \in claimed' => allMade(r)'
        BY <2>2 DEF allMade, endedByRestart
      <4>3. UNCHANGED made \/ (makes(r) /\ r \in claimed')
        BY <2>1, <3>2, Zenon DEF emitsLate, capsDrop
      <4>4. UNCHANGED made \/ (makes(r) /\ allMade(r)')
        BY <4>2, <4>3
      <4> QED
        BY <2>5, <4>1, <4>4, MakesOne
    <3> QED
      BY <3>1, <3>2
  <2>7. SpoolTypeOK'
    BY <1>0, <2>1, <2>2, <2>3, <2>4, <2>6 DEF SpoolTypeOK
  <2> QED
    BY <1>0, <1>a, <2>1, <2>2, <2>3, <2>6, <2>7, BuildStep
<1>2. CASE attachResumedRun(r)
  <2>1. /\ build[r] = "PAUSED" /\ up /\ unchecked = {} /\ build' = [build EXCEPT ![r] = "BUILDING"]
        /\ numbered(r, clock[r] + 1) /\ emit(event(r, clock[r] + 1, "HEARTBEAT"))
        /\ UNCHANGED <<up, spool, journal, announced, expired, dropped, made, unchecked, claimed>>
    BY <1>2 DEF attachResumedRun, seedSeq, bootVars
  <2>2. /\ clock[r] + 1 \in Nat /\ clock[r] < clock[r] + 1
        /\ \A e \in Event : inFlight(e) /\ e.run = r => e.seq < clock[r] + 1
    BY ClockIsNew
  <2>3. /\ seqs' = [seqs EXCEPT ![r] = clock[r] + 1]
        /\ clock' = [clock EXCEPT ![r] = IF clock[r] + 1 > clock[r] THEN clock[r] + 1 ELSE clock[r]]
    BY <2>1 DEF numbered
  <2>4. /\ seqs' \in [Run -> Nat] /\ seqs'[r] = clock[r] + 1
        /\ \A q \in Run : q # r => build'[q] = build[q] /\ seqs'[q] = seqs[q]
        /\ build' \in [Run -> BuildState] /\ build'[r] = "BUILDING"
    BY <1>0, <2>1, <2>2, <2>3 DEF BuildState
  <2>5. /\ sink' \in SUBSET Event /\ spill' \in [Run -> SUBSET Event]
        /\ clock' \in [Run -> Nat] /\ Numbering'
    BY <1>0, <2>1, <2>2, <2>3, <2>4, EmitNumbers DEF Phase
  <2>6. \A q \in Run : allMade(q) => allMade(q)'
    BY <1>0, <2>1 DEF allMade, endedByRestart
  <2>7. made' \in [Run -> Nat] /\ MadeOnce'
    BY <2>1, <2>6, NoneMade
  <2>8. SpoolTypeOK'
    BY <1>0, <2>1, <2>4, <2>5, <2>7 DEF SpoolTypeOK
  <2> QED
    BY <1>0, <1>a, <2>1, <2>4, <2>5, <2>7, <2>8, BuildStep
<1> QED
  BY <1>1, <1>2 DEF AfterLoad

LEMMA SpoolsStep ==
    ASSUME IndInv, NEW r \in Run, Spools(r)
    PROVE  IndInv'
<1>0. /\ UNCHANGED <<eventVars, disp>> /\ TypeOK /\ SpoolTypeOK
      /\ IsFiniteSet(spool) /\ NeverForgotten /\ Numbering
      /\ clock \in [Run -> Nat] /\ seqs \in [Run -> Nat]
      /\ stored' = stored /\ refused' = refused
      /\ BootShape /\ MadeOnce
  BY DEF IndInv, TypeOK, SpoolTypeOK, Spools, eventVars, gatewayVars
<1>a. faults' \in 0 .. MaxFaults
  BY <1>0, DropCounted DEF Spools
<1>1. CASE SpoolOverflow(r)
  <2>1. PICK e \in earliest(spill[r]) :
          /\ append(e)
          /\ spill' = [spill EXCEPT ![r] = spill[r] \ {e}]
          /\ announced' = announced \/ noteSpooled(r)
    BY <1>1 DEF SpoolOverflow
  <2>2. e \in spill[r] /\ e \in Event
    BY <1>0 DEF earliest, SpoolTypeOK
  <2>3. /\ spool' \in SUBSET Event /\ journal' \in SUBSET Run /\ IsFiniteSet(spool')
        /\ \A f \in spool' : f \in spool \/ f = e
        /\ \A f \in spool : isCompletedPhase(f) => f \in spool'
        /\ \A q \in Run : q \in journal => q \in journal' \/ completionIn(spool', q)
        /\ journal' \subseteq journal
    BY <1>0, <2>1, <2>2, AppendKeeps
  <2>4. announced' \in Seq(Run)
    BY <1>0, <2>1, NoteKeepsType DEF SpoolTypeOK
  <2>5. UNCHANGED <<up, build, clock, seqs, expired, dropped, made, sink, unchecked, claimed>>
    BY <1>1 DEF SpoolOverflow, buildVars, bootVars
  <2>6. SpoolTypeOK'
    BY <1>0, <2>1, <2>3, <2>4, <2>5 DEF SpoolTypeOK
  <2>7. \A f \in Event : inFlight(f)' => inFlight(f)
    <3>1. \A f \in sink' \cup spool' : inFlight(f) \/ f = e
      BY <2>3, <2>5 DEF inFlight, waits, sent
    <3>2. \A q \in Run : \A f \in spill'[q] : f \in spill[q]
      BY <1>0, <2>1 DEF SpoolTypeOK
    <3>3. \A q \in Run : \A f \in spill'[q] : inFlight(f) \/ f = e
      BY <3>2 DEF inFlight, waits, sent
    <3>4. inFlight(e)
      BY <2>2 DEF inFlight, waits, sent
    <3> QED
      BY <1>0, <3>1, <3>3, <3>4, PluginFlight
  <2>8. Numbering'
    BY <1>0, <2>5, <2>7, Moves
  <2>9. NeverForgotten'
    BY <1>0, <2>3, <2>5, Remembers
  <2>10. BootShape' /\ MadeOnce'
    BY <1>0, <2>3, <2>5 DEF BootShape, MadeOnce, allMade, endedByRestart
  <2> QED
    BY <1>0, <1>a, <2>3, <2>6, <2>8, <2>9, <2>10, PluginStep
<1>2. CASE reconcileOne(r)
  <2>0. /\ UNCHANGED <<up, build, seqs, sink, spill, expired>> /\ unchecked' = unchecked \ {r}
        /\ up /\ r \in unchecked
    BY <1>2 DEF reconcileOne
  <2>1. CASE /\ UNCHANGED <<clock, made, spool, announced, claimed>>
             /\ \/ journal' = journal /\ dropped' = dropped
                \/ /\ journal' = journal \ {r} /\ dropped' = dropped
                   /\ spoolHoldsCompleted(r) \/ r \in expired \/ build[r] = "GONE"
                \/ journal' = journal \ {r} /\ dropped' = dropped \cup {r}
    <3>1. SpoolTypeOK' /\ IsFiniteSet(spool')
      BY <1>0, <2>0, <2>1 DEF SpoolTypeOK
    <3>2. Numbering'
      BY <1>0, <2>0, <2>1, QuietNumbers
    <3>3. \A q \in Run : q \in journal \cup expired \cup dropped =>
                           \/ q \in journal' \cup expired' \cup dropped'
                           \/ build'[q] = "GONE" \/ completionIn(spool', q)
      <4>1. spoolHoldsCompleted(r) => completionIn(spool', r)
        BY <2>1 DEF spoolHoldsCompleted, ofRun, completionIn
      <4> QED
        BY <2>0, <2>1, <4>1
    <3>4. NeverForgotten'
      BY <1>0, <2>0, <2>1, <3>3, Remembers
    <3>5. BootShape' /\ MadeOnce'
      BY <1>0, <2>0, <2>1 DEF BootShape, MadeOnce, allMade, endedByRestart
    <3> QED
      BY <1>0, <1>a, <3>1, <3>2, <3>4, <3>5, PluginStep
  <2>2. CASE /\ endsLostBuild(r) /\ dropped' = dropped
             /\ claimed' = IF endedByRestart(r) THEN claimed \cup {r} ELSE claimed
             /\ clock' = [clock EXCEPT ![r] = clock[r] + 1]
             /\ makes(r)
             /\ append(bootCompletedEvent(r))
             /\ noteSpooled(r)
    <3> DEFINE n == bootCompletedEvent(r)
    <3>0. /\ clock[r] \in Nat
          /\ \A e \in Event : inFlight(e) /\ e.run = r => e.seq < clock[r] + 1
      BY ClockIsNew
    <3>1. n \in Event /\ n.run = r /\ n.seq = clock[r] + 1
      BY <3>0, MakeEvent DEF bootCompletedEvent, Phase
    <3>2. /\ spool' \in SUBSET Event /\ journal' \in SUBSET Run /\ IsFiniteSet(spool')
          /\ \A f \in spool' : f \in spool \/ f = n
          /\ \A f \in spool : isCompletedPhase(f) => f \in spool'
          /\ \A q \in Run : q \in journal => q \in journal' \/ completionIn(spool', q)
          /\ journal' \subseteq journal
      BY <1>0, <2>2, <3>1, AppendKeeps
    <3>3. announced' \in Seq(Run)
      BY <1>0, <2>2, NoteKeepsType
    <3>4. build[r] \in {"DONE", "DEAD"} \/ (endedByRestart(r) /\ r \notin claimed)
      <4>1. build[r] \in BuildState /\ build[r] \notin {"NEW", "BUILDING"}
        BY <1>0, <2>0 DEF SpoolTypeOK, BootShape
      <4> QED
        BY <2>2, <4>1 DEF endsLostBuild, keepsEntry, endedByRestart, BuildState
    <3> HIDE DEF n
    <3>5. \A f \in Event : inFlight(f)' => inFlight(f) \/ f = n
      <4>1. \A f \in sink' \cup spool' : inFlight(f) \/ f = n
        BY <2>0, <3>2 DEF inFlight, waits, sent
      <4>2. \A q \in Run : \A f \in spill'[q] : inFlight(f) \/ f = n
        BY <2>0 DEF inFlight, waits, sent
      <4> QED
        BY <1>0, <4>1, <4>2, PluginFlight
    <3>6. clock' = [clock EXCEPT ![n.run] = IF n.seq > @ THEN n.seq ELSE @]
      BY <1>0, <2>2, <3>1, ClockGoesOn
    <3>7. build'[n.run] \notin {"NEW", "BUILDING"}
      BY <2>0, <3>1, <3>4 DEF endedByRestart
    <3>8. \A q \in Run : seqs[q] <= seqs'[q] /\ build'[q] = build[q] /\ seqs'[q] = seqs[q]
      BY <1>0, <2>0
    <3>9. \A e \in Event : inFlight(e) /\ e.run = n.run => e.seq < n.seq
      BY <3>0, <3>1
    <3>10. seqs' \in [Run -> Nat]
      BY <1>0, <2>0
    <3>11. clock' \in [Run -> Nat] /\ Numbering'
      BY <1>0, <3>1, <3>5, <3>6, <3>7, <3>8, <3>9, <3>10, Sends
    <3>12. NeverForgotten'
      BY <1>0, <2>0, <2>2, <3>2, Remembers
    <3>13. BootShape'
      BY <1>0, <2>0, <3>2 DEF BootShape
    <3>14. made[r] = 0
      BY <1>0, <2>0, <3>4 DEF MadeOnce, allMade, endedByRestart
    <3>15. allMade(r)' /\ \A q \in Run : q # r => (allMade(q) => allMade(q)')
      BY <2>0, <2>2, <3>4 DEF allMade, endedByRestart
    <3>16. made' \in [Run -> Nat] /\ MadeOnce'
      BY <2>2, <3>14, <3>15, MakesOne
    <3>17. SpoolTypeOK'
      BY <1>0, <2>0, <2>2, <3>2, <3>3, <3>11, <3>16 DEF SpoolTypeOK
    <3> QED
      BY <1>0, <1>a, <3>2, <3>11, <3>12, <3>13, <3>16, <3>17, PluginStep
  <2> QED
    BY <1>2, <2>1, <2>2 DEF reconcileOne
<1> QED
  BY <1>1, <1>2 DEF Spools

LEMMA IntoSeq ==
    ASSUME NEW S, NEW T, T \subseteq S, NEW n \in Nat, NEW s \in [1 .. n -> T]
    PROVE  s \in Seq(S)
<1>1. s \in [1 .. n -> S]
  OBVIOUS
<1> QED
  BY <1>1, SeqDef

\* The order in which a boot announces the spooled runs.
LEMMA SpooledRunsType ==
    ASSUME TypeOK, IsFiniteSet(spool)
    PROVE  spooledRuns \subseteq Seq(Run)
<1> DEFINE runs == {e.run : e \in spool}
           f == [e \in spool |-> e.run]
<1>1. f \in Surjection(spool, runs)
  BY DEF Surjection
<1>2. IsFiniteSet(runs)
  BY <1>1, FS_Surjection
<1>3. Cardinality(runs) \in Nat
  BY <1>2, FS_CardinalityType
<1>4. runs \subseteq Run
  BY DEF TypeOK, SpoolTypeOK, Event
<1>5. \A s \in [1 .. Cardinality(runs) -> runs] : s \in Seq(Run)
  BY <1>3, <1>4, IntoSeq
<1> QED
  BY <1>5 DEF spooledRuns

LEMMA BootsStep ==
    ASSUME IndInv, Boots
    PROVE  IndInv'
<1>0. /\ UNCHANGED <<eventVars, disp>> /\ faults' \in 0 .. MaxFaults
      /\ TypeOK /\ SpoolTypeOK /\ IsFiniteSet(spool) /\ NeverForgotten
      /\ stored' = stored /\ refused' = refused
      /\ BootShape /\ MadeOnce
  BY DEF IndInv, TypeOK, Boots, eventVars, gatewayVars
<1>1. /\ ~up /\ up' = TRUE /\ unchecked' = journal
      /\ announced' \in spooledRuns
      /\ UNCHANGED <<clock, seqs, sink, spill, spool, journal, claimed, expired, dropped, made>>
      /\ build' \in [Run -> BuildState] /\ \A q \in Run : build'[q] \in loadsAs(q)
  BY DEF Boots, StartJenkins
<1>2. \A q \in Run : build'[q] = build[q] \/ /\ build[q] \in {"PAUSED", "REFUSED"}
                                             /\ build'[q] \in {"PAUSED", "REFUSED", "DEAD", "GONE"}
  BY <1>1 DEF loadsAs
<1>3. SpoolTypeOK' /\ IsFiniteSet(spool')
  BY <1>0, <1>1, SpooledRunsType DEF SpoolTypeOK
<1>4. Numbering'
  BY <1>0, <1>1, <1>2, QuietNumbers
<1>5. NeverForgotten'
  BY <1>0, <1>1, <1>2, Remembers
<1>6. \A q \in Run : build[q] # "BUILDING" /\ made[q] = 0 /\ (build[q] = "NEW" => q \notin journal)
  BY <1>0, <1>1 DEF BootShape
<1>7. BootShape' /\ MadeOnce'
  BY <1>1, <1>2, <1>6 DEF BootShape, MadeOnce
<1> QED
  BY <1>0, <1>3, <1>4, <1>5, <1>7, PluginStep

\* A run that was not seen for a week.
LEMMA LongPauseStep ==
    ASSUME IndInv, LongPause
    PROVE  IndInv'
<1>0. /\ UNCHANGED <<eventVars, disp>>
      /\ TypeOK /\ SpoolTypeOK /\ IsFiniteSet(spool) /\ NeverForgotten
      /\ stored' = stored /\ refused' = refused
      /\ BootShape /\ MadeOnce
  BY DEF IndInv, TypeOK, LongPause, eventVars, gatewayVars
<1>1. faults' \in 0 .. MaxFaults
  BY PathAssumption DEF IndInv, TypeOK, LongPause, fault
<1>2. PICK r \in Run : expired' = expired \cup {r}
  BY DEF LongPause, WeekPasses
<1>3. UNCHANGED <<up, build, clock, seqs, dropped, made, sink, spill, spool, journal, announced,
                  unchecked, claimed>>
  BY DEF LongPause, WeekPasses, bootVars
<1>4. SpoolTypeOK' /\ IsFiniteSet(spool')
  BY <1>0, <1>2, <1>3 DEF SpoolTypeOK
<1>5. Numbering'
  BY <1>0, <1>3, QuietNumbers
<1>6. NeverForgotten'
  BY <1>0, <1>2, <1>3, Remembers
<1>7. BootShape' /\ MadeOnce'
  BY <1>0, <1>3 DEF BootShape, MadeOnce, allMade, endedByRestart
<1> QED
  BY <1>0, <1>1, <1>4, <1>5, <1>6, <1>7, PluginStep

-----------------------------------------------------------------------------
(* The mite and the gateway *)

DispType ==
    /\ disp \in [at : {"IDLE", "SPOOL", "POST", "WAIT", "CLEAR"}, hand : SUBSET Event,
                 todo : SUBSET Event, group : SUBSET Event, backlog : Run \cup {NoRun},
                 via : Handler \cup {NoHandler}]
    /\ faults \in 0 .. MaxFaults

\* A step that leaves the plugin but for its dispatcher.
LEMMA MiteStep ==
    ASSUME IndInv, UNCHANGED spoolVars, RetentionTypeOK', DispType', StoreInv', AcksKnown',
           stored \subseteq stored', refused \subseteq refused',
           disp'.hand = disp.hand, \A e \in Event : sent(e)' => sent(e)
    PROVE  IndInv'
<1>0. /\ UNCHANGED <<up, build, clock, seqs, expired, dropped, made, sink, spill, spool, journal, announced,
                     unchecked, claimed>>
      /\ TypeOK /\ SpoolTypeOK /\ NeverForgotten /\ Numbering /\ BootShape /\ MadeOnce
  BY DEF IndInv, TypeOK, spoolVars, buildVars, bootVars
<1>1. TypeOK' /\ IsFiniteSet(spool')
  BY <1>0 DEF IndInv, TypeOK, SpoolTypeOK, DispType
<1>2. \A e \in Event : inFlight(e)' => inFlight(e)
  BY <1>0 DEF inFlight, waits
<1>3. Numbering'
  BY <1>0, <1>2, Moves DEF SpoolTypeOK
<1>4. NeverForgotten'
  BY <1>0, Remembers
<1>5. BootShape' /\ MadeOnce'
  BY <1>0 DEF BootShape, MadeOnce, allMade, endedByRestart
<1> QED
  BY <1>1, <1>3, <1>4, <1>5 DEF IndInv

LEMMA AppendsOne ==
    ASSUME NEW S, NEW s \in Seq(S), NEW e \in S
    PROVE  /\ Append(s, e) \in Seq(S)
           /\ \A i \in DOMAIN Append(s, e) :
                Append(s, e)[i] = e \/ \E j \in DOMAIN s : Append(s, e)[i] = s[j]
OBVIOUS

LEMMA TakesOne ==
    ASSUME NEW S, NEW s \in Seq(S), s # <<>>
    PROVE  /\ Head(s) \in S /\ (\E j \in DOMAIN s : Head(s) = s[j])
           /\ Tail(s) \in Seq(S)
           /\ \A i \in DOMAIN Tail(s) : \E j \in DOMAIN s : Tail(s)[i] = s[j]
<1>1. Head(s) = s[1] /\ 1 \in DOMAIN s /\ s[1] \in S
  OBVIOUS
<1>2. /\ Tail(s) \in Seq(S)
      /\ \A i \in DOMAIN Tail(s) : i + 1 \in DOMAIN s /\ Tail(s)[i] = s[i + 1]
  OBVIOUS
<1> QED
  BY <1>1, <1>2

LEMMA ForwardsStep ==
    ASSUME IndInv, NEW h \in Handler, Forwards(h)
    PROVE  IndInv'
<1>0. /\ TypeOK /\ RetentionTypeOK /\ StoreInv /\ AcksKnown
      /\ UNCHANGED <<spoolVars, disp, faults>> /\ DispType'
      /\ UNCHANGED <<sink, spill, spool, disp>> /\ disp'.hand = disp.hand
  BY DEF IndInv, TypeOK, DispType, Forwards, spoolVars
<1>1. CASE ReserveNext(h)
  <2>1. PICK e \in earliest(handlers[h].todo) :
          /\ reserve(h, keyOf(e))
          /\ handlers' = [handlers EXCEPT ![h] = [at |-> "SEND", todo |-> @.todo \ {e}, evt |-> e]]
    BY <1>1 DEF ReserveNext
  <2>2. e \in Event /\ e \in handlers[h].todo /\ keyOf(e) \in Key
    BY <1>0, KeyOfEvent DEF RetentionTypeOK, earliest
  <2>3. UNCHANGED <<session, acks, wire, down, stored, refused, retained>>
    BY <1>1, <2>1 DEF ReserveNext, gatewayVars, reserve
  <2>4. StoreInv'
    BY <1>0, <1>1, StoreReserve
  <2>5. total' \in Nat
    BY <2>4, TotalIsNat
  <2>6. reserved' \in [Handler -> [key : Key \cup {NoKey}, charged : 0 .. 1, acked : BOOLEAN]]
    <3>1. closed(keyOf(e)) \in [Handler -> [key : Key \cup {NoKey}, charged : 0 .. 1, acked : BOOLEAN]]
      BY <1>0 DEF closed, NoReservation, RetentionTypeOK
    <3>2. delta(keyOf(e)) \in 0 .. 1
      BY DEF delta
    <3> QED
      BY <2>1, <2>2, <3>1, <3>2 DEF reserve
  <2>7. handlers' \in [Handler -> [at : {"FREE", "NEXT", "SEND", "COMMIT"}, todo : SUBSET Event,
                                   evt : Event \cup {NoEvent}]]
    BY <1>0, <2>1, <2>2 DEF RetentionTypeOK
  <2>8. RetentionTypeOK'
    BY <1>0, <2>3, <2>5, <2>6, <2>7 DEF RetentionTypeOK
  <2>9. \A f \in Event : sent(f)' => sent(f)
    <3>1. \A g \in Handler : \A f \in Event : f \in handlers'[g].todo \/ f = handlers'[g].evt
                                                => f \in handlers[g].todo \/ f = handlers[g].evt
      BY <1>0, <2>1, <2>2 DEF RetentionTypeOK
    <3> QED
      BY <1>0, <2>3, <3>1 DEF sent
  <2>10. AcksKnown'
    BY <1>0, <2>3 DEF AcksKnown, settled
  <2> QED
    BY <1>0, <2>3, <2>4, <2>8, <2>9, <2>10, MiteStep
<1>2. CASE ForwardHeartbeat(h)
  <2>1. PICK e \in earliest(handlers[h].todo) :
          /\ handlers' = [handlers EXCEPT ![h].todo = @ \ {e}]
          /\ wire' = Append(wire, e) \/ wire' = wire
    BY <1>2 DEF ForwardHeartbeat
  <2>2. e \in Event /\ e \in handlers[h].todo
    BY <1>0 DEF RetentionTypeOK, earliest
  <2>3. UNCHANGED <<session, reserved, retained, total, acks, down, stored, refused>>
    BY <1>2 DEF ForwardHeartbeat, retentionVars
  <2>4. handlers' \in [Handler -> [at : {"FREE", "NEXT", "SEND", "COMMIT"}, todo : SUBSET Event,
                                   evt : Event \cup {NoEvent}]]
    BY <1>0, <2>1 DEF RetentionTypeOK
  <2>5. \A g \in Handler : /\ handlers'[g].at = handlers[g].at /\ handlers'[g].evt = handlers[g].evt
                           /\ handlers'[g].todo \subseteq handlers[g].todo
    BY <1>0, <2>1 DEF RetentionTypeOK
  <2>6. wire' \in Seq(Event) /\ \A i \in DOMAIN wire' : wire'[i] = e \/ \E j \in DOMAIN wire : wire'[i] = wire[j]
    <3>1. CASE wire' = wire
      BY <1>0, <3>1 DEF RetentionTypeOK
    <3>2. CASE wire' = Append(wire, e)
      BY <1>0, <2>2, <3>2 DEF RetentionTypeOK
    <3> QED
      BY <2>1, <3>1, <3>2
  <2>7. RetentionTypeOK'
    BY <1>0, <2>3, <2>4, <2>6 DEF RetentionTypeOK
  <2>8. StoreInv'
    BY <1>0, <2>3, <2>5, StoreKept DEF retentionVars
  <2>9. \A f \in Event : sent(f)' => sent(f)
    BY <1>0, <2>2, <2>3, <2>5, <2>6 DEF sent
  <2>10. AcksKnown'
    BY <1>0, <2>3 DEF AcksKnown, settled
  <2> QED
    BY <1>0, <2>3, <2>7, <2>8, <2>9, <2>10, MiteStep
<1>3. CASE SendReserved(h)
  <2>1. /\ handlers[h].at = "SEND" /\ handlers' = [handlers EXCEPT ![h].at = "COMMIT"]
        /\ wire' = Append(wire, handlers[h].evt)
        /\ UNCHANGED <<session, reserved, retained, total, acks, down, stored, refused>>
    BY <1>3 DEF SendReserved, retentionVars
  <2>2. handlers[h].evt \in Event
    BY <1>0, <2>1 DEF StoreInv
  <2>3. handlers' \in [Handler -> [at : {"FREE", "NEXT", "SEND", "COMMIT"}, todo : SUBSET Event,
                                   evt : Event \cup {NoEvent}]]
    BY <1>0, <2>1 DEF RetentionTypeOK
  <2>4. \A g \in Handler : /\ handlers'[g].at = (IF g = h THEN "COMMIT" ELSE handlers[g].at)
                           /\ handlers'[g].evt = handlers[g].evt
                           /\ handlers'[g].todo = handlers[g].todo
    BY <1>0, <2>1 DEF RetentionTypeOK
  <2>5. /\ wire' \in Seq(Event)
        /\ \A i \in DOMAIN wire' : wire'[i] = handlers[h].evt \/ \E j \in DOMAIN wire : wire'[i] = wire[j]
    BY <1>0, <2>1, <2>2 DEF RetentionTypeOK
  <2>6. RetentionTypeOK'
    BY <1>0, <2>1, <2>3, <2>5 DEF RetentionTypeOK
  <2>7. StoreInv'
    BY <1>0, <2>1, <2>4, StoreKept DEF retentionVars
  <2>8. \A f \in Event : sent(f)' => sent(f)
    BY <1>0, <2>1, <2>2, <2>4, <2>5 DEF sent
  <2>9. AcksKnown'
    BY <1>0, <2>1 DEF AcksKnown, settled
  <2> QED
    BY <1>0, <2>1, <2>6, <2>7, <2>8, <2>9, MiteStep
<1>4. CASE CommitSent(h)
  <2>1. /\ handlers[h].at = "COMMIT" /\ commit(h, handlers[h].evt)
        /\ handlers' = [handlers EXCEPT ![h] = [at |-> "NEXT", todo |-> @.todo, evt |-> NoEvent]]
        /\ UNCHANGED <<session, acks, wire, down, stored, refused>>
    BY <1>4 DEF CommitSent, gatewayVars
  <2>2. handlers[h].evt \in Event
    BY <1>0, <2>1 DEF StoreInv
  <2>3. StoreInv'
    BY <1>0, <1>4, StoreCommit
  <2>4. total' \in Nat
    BY <2>3, TotalIsNat
  <2>5. reserved' \in [Handler -> [key : Key \cup {NoKey}, charged : 0 .. 1, acked : BOOLEAN]]
    BY <1>0, <2>1 DEF commit, NoReservation, RetentionTypeOK
  <2>6. \A f \in retained' : f \in retained \/ f = handlers[h].evt
    BY <2>1 DEF commit, without
  <2>7. handlers' \in [Handler -> [at : {"FREE", "NEXT", "SEND", "COMMIT"}, todo : SUBSET Event,
                                   evt : Event \cup {NoEvent}]]
    BY <1>0, <2>1 DEF RetentionTypeOK
  <2>8. \A g \in Handler : /\ handlers'[g].todo = handlers[g].todo
                           /\ handlers'[g].evt \in {NoEvent, handlers[g].evt}
    BY <1>0, <2>1 DEF RetentionTypeOK
  <2>9. RetentionTypeOK'
    BY <1>0, <2>1, <2>2, <2>4, <2>5, <2>6, <2>7 DEF RetentionTypeOK
  <2>10. \A f \in Event : f # NoEvent
    BY RetentionAssumption
  <2>11. \A f \in Event : sent(f)' => sent(f)
    BY <1>0, <2>1, <2>2, <2>6, <2>8, <2>10 DEF sent
  <2>12. AcksKnown'
    BY <1>0, <2>1 DEF AcksKnown, settled
  <2> QED
    BY <1>0, <2>1, <2>3, <2>9, <2>11, <2>12, MiteStep
<1> QED
  BY <1>1, <1>2, <1>3, <1>4 DEF Forwards

\* The worker takes an event off its queue, and settles it or not.
LEMMA PublishStep ==
    ASSUME IndInv, UNCHANGED spoolVars, UNCHANGED disp, DispType', wire # <<>>, wire' = Tail(wire),
           \/ UNCHANGED <<down, stored, refused>>
           \/ /\ down' = Append(down, keyOf(Head(wire)))
              /\ \/ stored' = stored \cup {Head(wire)} /\ refused' = refused
                 \/ refused' = refused \cup {Head(wire)} /\ stored' = stored,
           UNCHANGED <<session, handlers, reserved, retained, total, acks>>
    PROVE  IndInv'
<1>0. /\ TypeOK /\ RetentionTypeOK /\ StoreInv /\ AcksKnown
      /\ UNCHANGED <<sink, spill, spool>> /\ disp'.hand = disp.hand
  BY DEF IndInv, TypeOK, spoolVars
<1>1. /\ Head(wire) \in Event /\ (\E j \in DOMAIN wire : Head(wire) = wire[j])
      /\ wire' \in Seq(Event)
      /\ \A i \in DOMAIN wire' : \E j \in DOMAIN wire : wire'[i] = wire[j]
  BY <1>0, TakesOne DEF RetentionTypeOK
<1>2. keyOf(Head(wire)) \in Key
  BY <1>1, KeyOfEvent
<1>3. stored \subseteq stored' /\ refused \subseteq refused' /\ stored' \cup refused' \subseteq Event
  BY <1>0, <1>1 DEF RetentionTypeOK
<1>4. down' \in Seq(Key) /\ \A i \in DOMAIN down' : down'[i] \in keysOf(settled')
  <2>1. CASE UNCHANGED <<down, stored, refused>>
    BY <1>0, <2>1 DEF RetentionTypeOK, AcksKnown, settled
  <2>2. CASE down' = Append(down, keyOf(Head(wire))) /\ Head(wire) \in settled'
    <3>1. down \in Seq(Key)
      BY <1>0 DEF RetentionTypeOK
    <3>2. /\ Append(down, keyOf(Head(wire))) \in Seq(Key)
          /\ \A i \in DOMAIN Append(down, keyOf(Head(wire))) :
               \/ Append(down, keyOf(Head(wire)))[i] = keyOf(Head(wire))
               \/ \E j \in DOMAIN down : Append(down, keyOf(Head(wire)))[i] = down[j]
      BY <1>2, <3>1, AppendsOne
    <3>3. /\ down' \in Seq(Key)
          /\ \A i \in DOMAIN down' : down'[i] = keyOf(Head(wire)) \/ \E j \in DOMAIN down : down'[i] = down[j]
      BY <2>2, <3>2, Zenon
    <3>4. \A j \in DOMAIN down : down[j] \in keysOf(settled')
      BY <1>0, <1>3 DEF AcksKnown, settled, keysOf
    <3>5. keyOf(Head(wire)) \in keysOf(settled')
      BY <2>2 DEF keysOf
    <3> QED
      BY <3>3, <3>4, <3>5
  <2> QED
    BY <2>1, <2>2 DEF settled
<1>5. AcksKnown'
  BY <1>0, <1>3, <1>4 DEF AcksKnown, settled, keysOf
<1>6. RetentionTypeOK'
  BY <1>0, <1>1, <1>3, <1>4 DEF RetentionTypeOK
<1>7. StoreInv'
  BY <1>0, StoreKept DEF retentionVars
<1>8. \A f \in stored' \cup refused' : f \in stored \cup refused \/ f = Head(wire)
  OBVIOUS
<1>9. \A f \in Event : sent(f)' => sent(f)
  BY <1>0, <1>1, <1>8 DEF sent
<1> QED
  BY <1>0, <1>3, <1>5, <1>6, <1>7, <1>9, MiteStep

LEMMA DeliversStep ==
    ASSUME IndInv, Delivers
    PROVE  IndInv'
<1>0. /\ TypeOK /\ RetentionTypeOK /\ StoreInv /\ AcksKnown
      /\ UNCHANGED <<spoolVars, disp, faults>> /\ DispType'
      /\ UNCHANGED <<sink, spill, spool, disp>> /\ disp'.hand = disp.hand
  BY DEF IndInv, TypeOK, DispType, Delivers, spoolVars
<1>1. CASE deliverBuildEventItem
  <2>1. /\ wire # <<>> /\ wire' = Tail(wire)
        /\ \/ UNCHANGED <<down, stored>>
           \/ stored' = stored \cup {Head(wire)} /\ down' = Append(down, keyOf(Head(wire)))
        /\ UNCHANGED <<session, handlers, reserved, retained, total, acks, refused>>
    BY <1>1 DEF deliverBuildEventItem, sendEventAck, retentionVars
  <2> QED
    BY <1>0, <2>1, PublishStep
<1>2. CASE handleEventAck
  <2>1. /\ down # <<>> /\ down' = Tail(down) /\ release(Head(down)) /\ acks' = acks \cup {Head(down)}
        /\ UNCHANGED <<session, handlers, wire, stored, refused>>
    BY <1>2 DEF handleEventAck
  <2>2. /\ Head(down) \in Key /\ (\E j \in DOMAIN down : Head(down) = down[j])
        /\ down' \in Seq(Key)
        /\ \A i \in DOMAIN down' : \E j \in DOMAIN down : down'[i] = down[j]
    BY <1>0, <2>1, TakesOne DEF RetentionTypeOK
  <2>3. StoreInv'
    BY <1>0, <2>1, <2>2, StoreRelease
  <2>4. total' \in Nat
    BY <2>3, TotalIsNat
  <2>5. /\ retained' \subseteq retained
        /\ reserved' \in [Handler -> [key : Key \cup {NoKey}, charged : 0 .. 1, acked : BOOLEAN]]
    <3>1. \A h \in Handler : [reserved[h] EXCEPT !.acked = TRUE] \in
                              [key : Key \cup {NoKey}, charged : 0 .. 1, acked : BOOLEAN]
      BY <1>0 DEF RetentionTypeOK
    <3>2. \A h \in Handler : reserved[h] \in [key : Key \cup {NoKey}, charged : 0 .. 1, acked : BOOLEAN]
      BY <1>0 DEF RetentionTypeOK
    <3>3. CASE Head(down) \in keysOf(retained)
      BY <1>0, <2>1, <3>3 DEF release, without, RetentionTypeOK
    <3>4. CASE Head(down) \notin keysOf(retained)
      BY <2>1, <3>1, <3>2, <3>4 DEF release
    <3> QED
      BY <3>3, <3>4
  <2>6. RetentionTypeOK'
    BY <1>0, <2>1, <2>2, <2>4, <2>5 DEF RetentionTypeOK
  <2>7. \A f \in Event : sent(f)' => sent(f)
    BY <1>0, <2>1, <2>5 DEF sent
  <2>8. AcksKnown'
    BY <1>0, <2>1, <2>2 DEF AcksKnown, settled
  <2> QED
    BY <1>0, <2>1, <2>3, <2>6, <2>7, <2>8, MiteStep
<1>3. CASE Reconnect
  <2>1. /\ session' = TRUE /\ wire' \in replayRetainedEvents
        /\ UNCHANGED <<handlers, reserved, retained, total, acks, down, stored, refused>>
    BY <1>3 DEF Reconnect, retentionVars
  <2>2. Cardinality(retained) \in Nat
    BY <1>0, FS_CardinalityType DEF StoreInv
  <2>3. wire' \in [1 .. Cardinality(retained) -> retained]
    BY <2>1 DEF replayRetainedEvents
  <2>4. wire' \in Seq(Event) /\ \A i \in DOMAIN wire' : wire'[i] \in retained
    BY <1>0, <2>2, <2>3, IntoSeq DEF RetentionTypeOK
  <2>5. RetentionTypeOK'
    BY <1>0, <2>1, <2>4 DEF RetentionTypeOK
  <2>6. StoreInv'
    BY <1>0, <2>1, StoreKept DEF retentionVars
  <2>7. \A f \in Event : sent(f)' => sent(f)
    BY <1>0, <2>1, <2>4 DEF sent
  <2>8. AcksKnown'
    BY <1>0, <2>1 DEF AcksKnown, settled
  <2> QED
    BY <1>0, <2>1, <2>5, <2>6, <2>7, <2>8, MiteStep
<1> QED
  BY <1>1, <1>2, <1>3 DEF Delivers

-----------------------------------------------------------------------------
(* The dispatcher *)

\* A step that takes events from the spool only when they are settled, and appends to it.
LEMMA DispatchStep ==
    ASSUME IndInv, UNCHANGED buildVars, SpoolTypeOK', IsFiniteSet(spool'),
           RetentionTypeOK', DispType', StoreInv', AcksKnown',
           stored' = stored, refused' = refused,
           \A e \in Event : inFlight(e)' => inFlight(e),
           \A r \in Run : r \in journal => r \in journal' \/ completionIn(spool', r),
           \A f \in spool : isCompletedPhase(f) => f \in spool' \cup stored \cup refused,
           UNCHANGED bootVars, journal' \subseteq journal
    PROVE  IndInv'
<1>0. /\ UNCHANGED <<up, build, clock, seqs, expired, dropped, made, unchecked, claimed>>
      /\ TypeOK /\ SpoolTypeOK /\ NeverForgotten /\ Numbering /\ BootShape /\ MadeOnce
  BY DEF IndInv, TypeOK, buildVars, bootVars
<1>1. TypeOK'
  BY DEF TypeOK, DispType
<1>2. Numbering'
  BY <1>0, Moves DEF SpoolTypeOK
<1>3. NeverForgotten'
  BY <1>0, Remembers
<1>4. BootShape' /\ MadeOnce'
  BY <1>0 DEF BootShape, MadeOnce, allMade, endedByRestart
<1> QED
  BY <1>1, <1>2, <1>3, <1>4 DEF IndInv

\* The events the dispatcher holds come from where they were.
LEMMA DispFlight ==
    ASSUME UNCHANGED eventVars, UNCHANGED spill,
           \A f \in sink' \cup spool' : inFlight(f),
           \A f \in disp'.hand \cup disp'.todo \cup disp'.group : inFlight(f)
    PROVE  \A e \in Event : inFlight(e)' => inFlight(e)
BY DEF inFlight, waits, sent, eventVars, retentionVars, gatewayVars

\* A step of the thread that only looks.
LEMMA ThreadStep ==
    ASSUME IndInv, UNCHANGED eventVars, UNCHANGED <<buildVars, sink, spill, spool, journal, bootVars>>,
           announced' \in Seq(Run), DispType',
           disp'.hand \subseteq disp.hand, \A f \in disp'.todo \cup disp'.group : sent(f)
    PROVE  IndInv'
<1>0. /\ UNCHANGED <<up, build, clock, seqs, expired, dropped, made, unchecked, claimed>>
      /\ UNCHANGED <<session, handlers, reserved, retained, total, acks, wire, down, stored, refused>>
      /\ TypeOK /\ RetentionTypeOK /\ IsFiniteSet(spool) /\ StoreInv /\ AcksKnown
  BY DEF IndInv, TypeOK, eventVars, retentionVars, gatewayVars, buildVars, bootVars
<1>1. SpoolTypeOK' /\ RetentionTypeOK'
  BY <1>0 DEF TypeOK, SpoolTypeOK, RetentionTypeOK
<1>2. StoreInv' /\ AcksKnown'
  BY <1>0, StoreKept DEF retentionVars, AcksKnown, settled
<1>3. \A e \in Event : inFlight(e)' => inFlight(e)
  <2>1. \A f \in sink' \cup spool' : inFlight(f)
    BY DEF inFlight, waits, sent
  <2>2. \A f \in disp'.hand \cup disp'.todo \cup disp'.group : inFlight(f)
    BY DEF inFlight, waits
  <2> QED
    BY <2>1, <2>2, DispFlight
<1> QED
  BY <1>0, <1>1, <1>2, <1>3, DispatchStep

LEMMA IdleType ==
    /\ IdleDispatcher.hand = {} /\ IdleDispatcher.todo = {} /\ IdleDispatcher.group = {}
    /\ IdleDispatcher \in [at : {"IDLE", "SPOOL", "POST", "WAIT", "CLEAR"}, hand : SUBSET Event,
                           todo : SUBSET Event, group : SUBSET Event, backlog : Run \cup {NoRun},
                           via : Handler \cup {NoHandler}]
BY DEF IdleDispatcher

LEMMA DispatchesStep ==
    ASSUME IndInv, Dispatches
    PROVE  IndInv'
<1>0. /\ TypeOK /\ RetentionTypeOK /\ SpoolTypeOK /\ DispType
      /\ IsFiniteSet(spool) /\ StoreInv /\ AcksKnown
      /\ announced \in Seq(Run)
  BY DEF IndInv, TypeOK, DispType, SpoolTypeOK
<1>1. CASE postAnnouncedBacklog
  <2>1. /\ announced # <<>> /\ UNCHANGED <<spoolVars, eventVars, faults>>
        /\ disp' = [IdleDispatcher EXCEPT
                      !.at = IF ofRun(spool, Head(announced)) = {} THEN "CLEAR" ELSE "POST",
                      !.todo = ofRun(spool, Head(announced)),
                      !.backlog = Head(announced)]
    BY <1>1 DEF postAnnouncedBacklog
  <2>2. Head(announced) \in Run
    BY <1>0, <2>1
  <2>3. ofRun(spool, Head(announced)) \subseteq spool
    BY DEF ofRun
  <2>4. disp'.hand = {} /\ disp'.todo = ofRun(spool, Head(announced)) /\ disp'.group = {} /\ DispType'
    BY <1>0, <2>1, <2>2, <2>3 DEF IdleDispatcher, DispType, SpoolTypeOK
  <2>5. disp'.hand \subseteq disp.hand /\ \A f \in disp'.todo \cup disp'.group : sent(f)
    BY <2>3, <2>4 DEF sent
  <2> QED
    BY <1>0, <2>1, <2>4, <2>5, ThreadStep DEF spoolVars
<1>2. CASE drain
  <2>1. /\ disp' = [IdleDispatcher EXCEPT !.at = "SPOOL", !.hand = sink] /\ sink' = {}
        /\ UNCHANGED <<buildVars, spill, spool, journal, announced, bootVars, eventVars, faults>>
    BY <1>2 DEF drain
  <2>2. disp'.hand = sink /\ disp'.todo = {} /\ disp'.group = {} /\ DispType'
    BY <1>0, <2>1 DEF IdleDispatcher, DispType, SpoolTypeOK
  <2>3. SpoolTypeOK' /\ RetentionTypeOK'
    BY <1>0, <2>1 DEF SpoolTypeOK, RetentionTypeOK, buildVars, bootVars, eventVars, retentionVars, gatewayVars
  <2>4. StoreInv' /\ AcksKnown' /\ stored' = stored /\ refused' = refused
    BY <1>0, <2>1, StoreKept DEF AcksKnown, settled, eventVars, retentionVars, gatewayVars
  <2>5. \A e \in Event : inFlight(e)' => inFlight(e)
    <3>1. \A f \in sink' \cup spool' : inFlight(f)
      BY <2>1 DEF inFlight, waits, sent
    <3>2. \A f \in disp'.hand \cup disp'.todo \cup disp'.group : inFlight(f)
      BY <2>2 DEF inFlight, waits, sent
    <3> QED
      BY <2>1, <3>1, <3>2, DispFlight
  <2> QED
    BY <1>0, <2>1, <2>2, <2>3, <2>4, <2>5, DispatchStep
<1>3. CASE spoolDrained
  <2>1. PICK e \in earliest(disp.hand) :
          /\ append(e)
          /\ disp' = [disp EXCEPT
                        !.at = IF disp.hand = {e} THEN "POST" ELSE @,
                        !.hand = @ \ {e},
                        !.todo = IF ~isHeartbeat(e) /\ isAnnounced(e.run) THEN @ ELSE @ \cup {e}]
    BY <1>3 DEF spoolDrained
  <2>2. e \in disp.hand /\ e \in Event
    BY <1>0 DEF earliest, DispType
  <2>3. UNCHANGED <<buildVars, sink, spill, announced, bootVars, eventVars, faults>>
    BY <1>3 DEF spoolDrained
  <2>4. /\ spool' \in SUBSET Event /\ journal' \in SUBSET Run /\ IsFiniteSet(spool')
        /\ \A f \in spool' : f \in spool \/ f = e
        /\ \A f \in spool : isCompletedPhase(f) => f \in spool'
        /\ \A q \in Run : q \in journal => q \in journal' \/ completionIn(spool', q)
        /\ journal' \subseteq journal
    BY <1>0, <2>1, <2>2, AppendKeeps
  <2>5. /\ disp'.hand \subseteq disp.hand /\ disp'.group = disp.group
        /\ disp'.todo \subseteq disp.todo \cup {e} /\ DispType'
    BY <1>0, <2>1, <2>2, <2>3 DEF DispType
  <2>6. SpoolTypeOK' /\ RetentionTypeOK'
    BY <1>0, <2>3, <2>4 DEF SpoolTypeOK, RetentionTypeOK, buildVars, bootVars, eventVars, retentionVars, gatewayVars
  <2>7. StoreInv' /\ AcksKnown' /\ stored' = stored /\ refused' = refused
    BY <1>0, <2>3, StoreKept DEF AcksKnown, settled, eventVars, retentionVars, gatewayVars
  <2>8. \A f \in Event : inFlight(f)' => inFlight(f)
    <3>1. \A f \in sink' \cup spool' : inFlight(f)
      BY <2>2, <2>3, <2>4 DEF inFlight, waits, sent
    <3>2. \A f \in disp'.hand \cup disp'.todo \cup disp'.group : inFlight(f)
      BY <2>2, <2>5 DEF inFlight, waits, sent
    <3> QED
      BY <2>3, <3>1, <3>2, DispFlight
  <2> QED
    BY <2>3, <2>4, <2>5, <2>6, <2>7, <2>8, DispatchStep
<1>4. CASE postDone
  <2>1. /\ UNCHANGED <<spoolVars, eventVars, faults>>
        /\ \/ disp' = IdleDispatcher
           \/ disp' = [disp EXCEPT !.at = "CLEAR"]
    BY <1>4 DEF postDone
  <2>2. /\ disp'.hand \subseteq disp.hand /\ disp'.todo \subseteq disp.todo /\ disp'.group \subseteq disp.group
        /\ DispType'
    BY <1>0, <2>1, IdleType DEF DispType
  <2>3. disp'.hand \subseteq disp.hand /\ \A f \in disp'.todo \cup disp'.group : sent(f)
    BY <2>2 DEF sent
  <2> QED
    BY <1>0, <2>1, <2>2, <2>3, ThreadStep DEF spoolVars
<1>5. CASE clearBacklog
  <2>1. /\ clearAnnounced(disp.backlog) /\ disp' = IdleDispatcher
        /\ UNCHANGED <<buildVars, sink, spill, spool, journal, bootVars, eventVars, faults>>
    BY <1>5 DEF clearBacklog
  <2>2. \A i \in DOMAIN announced :
          SubSeq(announced, 1, i - 1) \o SubSeq(announced, i + 1, Len(announced)) \in Seq(Run)
    BY <1>0
  <2>3. announced' \in Seq(Run)
    BY <1>0, <2>1, <2>2 DEF clearAnnounced
  <2>4. DispType'
    BY <1>0, <2>1, IdleType DEF DispType
  <2>5. disp'.hand \subseteq disp.hand /\ \A f \in disp'.todo \cup disp'.group : sent(f)
    BY <2>1, IdleType
  <2> QED
    BY <2>1, <2>3, <2>4, <2>5, ThreadStep
<1>6. ASSUME NEW h \in Handler, postWithRetry(h)
      PROVE  IndInv'
  <2>1. PICK g \in SUBSET Event : g \subseteq disp.todo \cup disp.group /\ post(h, g)
    <3>1. disp.group \in SUBSET Event /\ disp.todo \in SUBSET Event
      BY <1>0 DEF DispType
    <3> QED
      BY <1>6, <3>1 DEF postWithRetry, groups
  <2>2. /\ handlers[h].at = "FREE"
        /\ handlers' = [handlers EXCEPT ![h] = [at |-> "NEXT", todo |-> g, evt |-> NoEvent]]
        /\ disp' = [disp EXCEPT !.at = "WAIT", !.todo = @ \ g, !.group = g, !.via = h]
        /\ UNCHANGED <<spoolVars, session, reserved, retained, total, acks, wire, down, stored, refused, faults>>
    BY <2>1 DEF post, retentionVars, gatewayVars
  <2>3. disp'.hand = disp.hand /\ disp'.todo \subseteq disp.todo /\ disp'.group = g /\ DispType'
    BY <1>0, <2>2 DEF DispType
  <2>4. \A q \in Handler : handlers'[q] = IF q = h THEN [at |-> "NEXT", todo |-> g, evt |-> NoEvent] ELSE handlers[q]
    BY <1>0, <2>2 DEF RetentionTypeOK
  <2>5. RetentionTypeOK'
    BY <1>0, <2>2 DEF RetentionTypeOK
  <2>6. StoreInv' /\ AcksKnown'
    <3>1. \A q \in Handler :
             \/ handlers'[q].at = handlers[q].at /\ handlers'[q].evt = handlers[q].evt
             \/ handlers[q].at \in {"FREE", "NEXT"} /\ handlers'[q].at \in {"FREE", "NEXT"}
      BY <2>2, <2>4
    <3>2. StoreInv'
      BY <1>0, <2>2, <3>1, StoreKept DEF retentionVars
    <3>3. AcksKnown'
      BY <1>0, <2>2 DEF AcksKnown, settled
    <3> QED
      BY <3>2, <3>3
  <2>7. \A f \in Event : sent(f)' => sent(f)
    BY <2>1, <2>2, <2>3, <2>4, RetentionAssumption DEF sent, spoolVars
  <2> QED
    BY <2>2, <2>3, <2>5, <2>6, <2>7, MiteStep
<1> QED
  BY <1>1, <1>2, <1>3, <1>4, <1>5, <1>6 DEF Dispatches

\* What an answer leaves to the thread.
LEMMA RetryType ==
    ASSUME IndInv, NEW acked, retry(acked), faults' \in 0 .. MaxFaults
    PROVE  /\ disp'.hand = disp.hand /\ disp'.todo = disp.todo /\ disp'.group \subseteq disp.group
           /\ DispType'
BY DEF IndInv, TypeOK, retry, DispType

LEMMA AnswersStep ==
    ASSUME IndInv, NEW h \in Handler, Answers(h)
    PROVE  IndInv'
<1>0. /\ TypeOK /\ RetentionTypeOK /\ SpoolTypeOK /\ DispType
      /\ IsFiniteSet(spool) /\ StoreInv /\ AcksKnown /\ KeysUnique
      /\ \A f \in Event : f # NoEvent
  BY RetentionAssumption DEF IndInv, TypeOK, DispType, Numbering
<1>1. CASE parseAcks(h)
  <2>1. /\ handlers[h].at = "NEXT" /\ acks' = {}
        /\ handlers' = [handlers EXCEPT ![h] = FreeHandler]
        /\ UNCHANGED <<session, reserved, retained, total, wire, down, stored, refused>>
        /\ UNCHANGED <<buildVars, sink, spill, journal, announced, bootVars, faults>>
    BY <1>1 DEF parseAcks, AnswersAccepted, retentionVars, gatewayVars
  <2>2. \/ retry(acks) /\ spool' = {e \in spool : keyOf(e) \notin acks}
        \/ UNCHANGED <<disp, spool>>
    BY <1>1 DEF parseAcks
  <2>3. /\ disp'.hand = disp.hand /\ disp'.todo = disp.todo /\ disp'.group \subseteq disp.group
        /\ DispType'
    BY <1>0, <2>1, <2>2, RetryType DEF DispType
  <2>4. spool' \subseteq spool /\ IsFiniteSet(spool')
    BY <1>0, <2>2, FS_Subset
  <2>5. \A f \in spool : f \in spool' \cup stored \cup refused
    <3> SUFFICES ASSUME NEW f \in spool, f \notin spool'
                 PROVE  f \in stored \cup refused
      OBVIOUS
    <3>1. keyOf(f) \in acks
      BY <2>2
    <3>2. PICK e \in settled : keyOf(e) = keyOf(f)
      BY <1>0, <3>1 DEF AcksKnown, keysOf
    <3>3. e \in Event /\ f \in Event
      BY <1>0, <3>2 DEF settled, RetentionTypeOK, SpoolTypeOK
    <3>4. inFlight(e) /\ inFlight(f)
      BY <3>2 DEF inFlight, waits, sent, settled
    <3> QED
      BY <1>0, <3>2, <3>3, <3>4 DEF KeysUnique, settled
  <2>6. \A g \in Handler : handlers'[g] = IF g = h THEN FreeHandler ELSE handlers[g]
    BY <1>0, <2>1 DEF RetentionTypeOK
  <2>7. RetentionTypeOK'
    BY <1>0, <2>1 DEF RetentionTypeOK, FreeHandler
  <2>8. SpoolTypeOK'
    BY <1>0, <2>1, <2>4 DEF SpoolTypeOK, buildVars, bootVars
  <2>9. StoreInv'
    <3>1. \A g \in Handler :
             \/ handlers'[g].at = handlers[g].at /\ handlers'[g].evt = handlers[g].evt
             \/ handlers[g].at \in {"FREE", "NEXT"} /\ handlers'[g].at \in {"FREE", "NEXT"}
      BY <2>1, <2>6 DEF FreeHandler
    <3> QED
      BY <1>0, <2>1, <3>1, StoreKept DEF retentionVars
  <2>10. AcksKnown'
    BY <1>0, <2>1 DEF AcksKnown, settled
  <2>11. \A f \in Event : inFlight(f)' => inFlight(f)
    BY <1>0, <2>1, <2>3, <2>4, <2>6 DEF inFlight, waits, sent, FreeHandler
  <2> QED
    BY <2>1, <2>3, <2>4, <2>5, <2>7, <2>8, <2>9, <2>10, <2>11, DispatchStep
<1>2. CASE answersUnavailable(h)
  <2>1. /\ AnswersFull(h) \/ AnswersDisconnected(h)
        /\ retry({}) \/ UNCHANGED disp
        /\ UNCHANGED <<spoolVars, faults>>
    BY <1>2 DEF answersUnavailable
  <2>2. /\ handlers' = [handlers EXCEPT ![h] = FreeHandler]
        /\ UNCHANGED <<session, acks, wire, down, stored, refused, retained>>
    BY <2>1 DEF AnswersFull, AnswersDisconnected, refuseReserve, rollback, gatewayVars
  <2>3. StoreInv'
    BY <1>0, <2>1, StoreRefuse, StoreRollback
  <2>4. total' \in Nat
    BY <2>3, TotalIsNat
  <2>5. reserved' \in [Handler -> [key : Key \cup {NoKey}, charged : 0 .. 1, acked : BOOLEAN]]
    <3>1. NoReservation \in [key : Key \cup {NoKey}, charged : 0 .. 1, acked : BOOLEAN]
      BY DEF NoReservation
    <3>2. CASE AnswersFull(h)
      <4>1. PICK k : reserved' = closed(k)
        BY <3>2 DEF AnswersFull, refuseReserve
      <4> QED
        BY <1>0, <3>1, <4>1 DEF closed, RetentionTypeOK
    <3>3. CASE AnswersDisconnected(h)
      BY <1>0, <3>1, <3>3 DEF AnswersDisconnected, rollback, RetentionTypeOK
    <3> QED
      BY <2>1, <3>2, <3>3
  <2>6. RetentionTypeOK'
    BY <1>0, <2>2, <2>4, <2>5 DEF RetentionTypeOK, FreeHandler
  <2>7. /\ disp'.hand = disp.hand /\ disp'.todo = disp.todo /\ disp'.group \subseteq disp.group
        /\ DispType'
    BY <1>0, <2>1, RetryType DEF DispType
  <2>8. \A g \in Handler : handlers'[g] = IF g = h THEN FreeHandler ELSE handlers[g]
    BY <1>0, <2>2 DEF RetentionTypeOK
  <2>9. \A f \in Event : sent(f)' => sent(f)
    BY <1>0, <2>1, <2>2, <2>7, <2>8 DEF sent, FreeHandler, spoolVars
  <2>10. AcksKnown'
    BY <1>0, <2>2 DEF AcksKnown, settled
  <2> QED
    BY <2>1, <2>2, <2>3, <2>6, <2>7, <2>9, <2>10, MiteStep
<1> QED
  BY <1>1, <1>2 DEF Answers

-----------------------------------------------------------------------------
(* Faults *)

LEMMA FaultCounted ==
    ASSUME TypeOK, NEW kind, fault(kind)
    PROVE  faults' \in 0 .. MaxFaults
BY PathAssumption DEF TypeOK, fault

\* A stop inside an append writes an event that was in flight, or the completion of a lost build.
LEMMA StopAppends ==
    ASSUME IndInv, NEW e \in appendsHere \cup earliest(disp.hand)
    PROVE  /\ e \in Event
           /\ \/ inFlight(e)
              \/ /\ e.seq = clock[e.run] + 1
                 /\ build[e.run] \notin {"NEW", "BUILDING"}
<1>0. TypeOK /\ SpoolTypeOK /\ BootShape /\ disp.hand \in SUBSET Event
  BY DEF IndInv, TypeOK
<1>1. CASE e \in earliest(disp.hand)
  BY <1>0, <1>1 DEF earliest, inFlight, waits
<1>2. ASSUME NEW r \in Run, e \in earliest(spill[r])
      PROVE  e \in Event /\ inFlight(e)
  BY <1>0, <1>2 DEF earliest, inFlight, waits, SpoolTypeOK
<1>3. ASSUME NEW r \in Run, endsLostBuild(r), e = bootCompletedEvent(r)
      PROVE  e \in Event /\ e.seq = clock[e.run] + 1 /\ build[e.run] \notin {"NEW", "BUILDING"}
  <2>1. r \in unchecked
    BY <1>3 DEF endsLostBuild
  <2>2. build[r] \notin {"NEW", "BUILDING"} /\ clock[r] + 1 \in Nat
    BY <1>0, <2>1 DEF BootShape, SpoolTypeOK
  <2>3. e \in Event /\ e.run = r /\ e.seq = clock[r] + 1
    BY <1>3, <2>2, MakeEvent DEF bootCompletedEvent, Phase
  <2> QED
    BY <2>2, <2>3
<1> QED
  BY <1>1, <1>2, <1>3 DEF appendsHere

LEMMA JenkinsStopsStep ==
    ASSUME IndInv, JenkinsStops
    PROVE  IndInv'
<1>0. /\ TypeOK /\ RetentionTypeOK /\ SpoolTypeOK /\ IsFiniteSet(spool) /\ StoreInv /\ AcksKnown
      /\ NeverForgotten /\ Numbering /\ BootShape
      /\ clock \in [Run -> Nat] /\ seqs \in [Run -> Nat] /\ build \in [Run -> BuildState]
  BY DEF IndInv, TypeOK, SpoolTypeOK
<1>1. EndProcess /\ disp' = IdleDispatcher /\ UNCHANGED eventVars
  BY DEF JenkinsStops, StopJenkins, StopInAppend
<1>2. /\ up' = FALSE
      /\ seqs' = [r \in Run |-> 0] /\ sink' = {} /\ spill' = [r \in Run |-> {}]
      /\ announced' = <<>> /\ unchecked' = {} /\ claimed' = {} /\ made' = [r \in Run |-> 0]
      /\ UNCHANGED <<journal, expired, dropped>>
  BY <1>1 DEF EndProcess
<1>3. /\ build' \in [Run -> BuildState]
      /\ \A q \in Run : \/ build'[q] = build[q] /\ build[q] # "BUILDING"
                        \/ /\ build[q] \in {"BUILDING", "PAUSED", "FINISHED"}
                           /\ build'[q] \in {"PAUSED", "DEAD", "DONE"}
  BY <1>0, <1>1 DEF EndProcess, BuildState
<1>4. UNCHANGED <<session, handlers, reserved, retained, total, acks, wire, down, stored, refused>>
  BY <1>1 DEF eventVars, retentionVars, gatewayVars
<1>5. RetentionTypeOK' /\ AcksKnown'
  BY <1>0, <1>4 DEF RetentionTypeOK, AcksKnown, settled
<1>6. StoreInv'
  BY <1>0, <1>4, StoreKept DEF retentionVars
<1>7. faults' \in 0 .. MaxFaults
  BY <1>0, FaultCounted DEF JenkinsStops
<1>8. \A q \in Run : build'[q] \notin {"NEW", "GONE"} => build[q] \notin {"NEW", "GONE"}
  BY <1>3
<1>9. BootShape' /\ MadeOnce'
  <2>1. \A q \in Run : build'[q] # "BUILDING" /\ made'[q] = 0
    BY <1>2, <1>3
  <2> QED
    BY <1>0, <1>2, <1>3, <2>1 DEF BootShape, MadeOnce
<1>10. /\ seqs' \in [Run -> Nat]
       /\ \A q \in Run : build'[q] \in {"NEW", "BUILDING"} =>
                           build'[q] = "NEW" /\ build'[q] = build[q] /\ seqs'[q] = seqs[q]
  BY <1>0, <1>2, <1>3 DEF Numbering, CountsOn
<1>11. ASSUME spool' \in SUBSET Event, IsFiniteSet(spool'), clock' \in [Run -> Nat], Numbering',
              \A f \in spool : isCompletedPhase(f) => f \in spool'
       PROVE  IndInv'
  <2>1. SpoolTypeOK'
    BY <1>0, <1>2, <1>3, <1>10, <1>11, NoElements DEF SpoolTypeOK
  <2>2. TypeOK'
    BY <1>1, <1>5, <1>7, <2>1, IdleType DEF TypeOK
  <2>3. NeverForgotten'
    BY <1>0, <1>2, <1>4, <1>8, <1>11, Remembers
  <2> QED
    BY <1>5, <1>6, <1>9, <1>11, <2>2, <2>3 DEF IndInv
<1>12. CASE StopJenkins
  <2>1. UNCHANGED <<clock, spool>>
    BY <1>12 DEF StopJenkins
  <2>2. \A f \in Event : inFlight(f)' => inFlight(f)
    BY <1>1, <1>2, <1>4, <2>1, IdleType DEF inFlight, waits, sent
  <2> DEFINE N == {}
  <2>3. /\ N \in SUBSET Event
        /\ \A e \in Event : inFlight(e)' => inFlight(e) \/ e \in N
        /\ \A e, f \in N : e = f
        /\ \A n \in N : /\ \A e \in Event : inFlight(e) /\ e.run = n.run => e.seq < n.seq
                        /\ n.seq <= clock'[n.run]
                        /\ build'[n.run] # "NEW"
                        /\ build'[n.run] = "BUILDING" => n.seq <= seqs'[n.run]
    BY <2>2
  <2>4. \A q \in Run : clock[q] <= clock'[q]
    BY <1>0, <2>1
  <2> HIDE DEF N
  <2>5. Numbering'
    BY <1>0, <1>10, <2>1, <2>3, <2>4, NumbersKeep
  <2> QED
    BY <1>0, <1>11, <2>1, <2>5 DEF SpoolTypeOK
<1>13. ASSUME NEW e \in appendsHere \cup earliest(disp.hand), StopInAppend(e)
       PROVE  IndInv'
  <2>1. /\ spool' = written(e)
        /\ clock' = [clock EXCEPT ![e.run] = IF e.seq > @ THEN e.seq ELSE @]
    BY <1>13 DEF StopInAppend
  <2>2. /\ e \in Event
        /\ \/ inFlight(e)
           \/ /\ e.seq = clock[e.run] + 1
              /\ build[e.run] \notin {"NEW", "BUILDING"}
    BY StopAppends
  <2>3. /\ spool' \in SUBSET Event /\ IsFiniteSet(spool')
        /\ \A f \in spool' : f \in spool \/ f = e
        /\ \A f \in spool : isCompletedPhase(f) => f \in spool'
    BY <1>0, <2>1, <2>2, WrittenKeeps DEF SpoolTypeOK
  <2>4. \A f \in Event : inFlight(f)' => inFlight(f) \/ f = e
    BY <1>1, <1>2, <1>4, <2>3, IdleType DEF inFlight, waits, sent
  <2>5. e.run \in Run /\ e.seq \in Nat /\ clock[e.run] \in Nat
    BY <1>0, <2>2 DEF Event
  <2>6. clock' \in [Run -> Nat] /\ \A q \in Run : clock[q] <= clock'[q]
    BY <1>0, <2>1, <2>5
  <2>7. Numbering'
    <3>1. CASE inFlight(e)
      <4> DEFINE N == {}
      <4>1. /\ N \in SUBSET Event
            /\ \A f \in Event : inFlight(f)' => inFlight(f) \/ f \in N
            /\ \A f, g \in N : f = g
            /\ \A n \in N : /\ \A f \in Event : inFlight(f) /\ f.run = n.run => f.seq < n.seq
                            /\ n.seq <= clock'[n.run]
                            /\ build'[n.run] # "NEW"
                            /\ build'[n.run] = "BUILDING" => n.seq <= seqs'[n.run]
        BY <2>4, <3>1
      <4> HIDE DEF N
      <4> QED
        BY <1>0, <1>10, <2>6, <4>1, NumbersKeep
    <3>2. CASE e.seq = clock[e.run] + 1 /\ build[e.run] \notin {"NEW", "BUILDING"}
      <4>1. \A f \in Event : inFlight(f) /\ f.run = e.run => f.seq < e.seq
        BY <2>5, <3>2, ClockIsNew
      <4>2. build'[e.run] \notin {"NEW", "BUILDING"}
        BY <1>10, <2>5, <3>2
      <4>3. \A q \in Run : q # e.run /\ build'[q] \in {"NEW", "BUILDING"} =>
                             build'[q] = build[q] /\ seqs[q] <= seqs'[q] /\ (build[q] = "NEW" => seqs'[q] = seqs[q])
        BY <1>0, <1>10
      <4> QED
        BY <1>0, <1>10, <2>1, <2>2, <2>4, <4>1, <4>2, <4>3, Sends
    <3> QED
      BY <2>2, <3>1, <3>2
  <2> QED
    BY <1>11, <2>3, <2>6, <2>7
<1> QED
  BY <1>12, <1>13 DEF JenkinsStops

LEMMA MiteRestartsStep ==
    ASSUME IndInv, MiteRestarts
    PROVE  IndInv'
<1>0. TypeOK /\ RetentionTypeOK /\ DispType /\ AcksKnown /\ \A f \in Event : f # NoEvent
  BY RetentionAssumption DEF IndInv, TypeOK, DispType
<1>1. /\ session' = FALSE /\ handlers' = [h \in Handler |-> FreeHandler]
      /\ reserved' = [h \in Handler |-> NoReservation]
      /\ retained' = {} /\ total' = 0 /\ acks' = {} /\ wire' = <<>> /\ down' = <<>>
      /\ UNCHANGED <<stored, refused, spoolVars>>
      /\ retry({}) \/ UNCHANGED disp
  BY DEF MiteRestarts, RestartMite
<1>2. faults' \in 0 .. MaxFaults
  BY <1>0, FaultCounted DEF MiteRestarts
<1>3. /\ disp'.hand = disp.hand /\ disp'.todo = disp.todo /\ disp'.group \subseteq disp.group
      /\ DispType'
  BY <1>0, <1>1, <1>2, RetryType DEF DispType
<1>4. RetentionTypeOK'
  <2>1. /\ handlers' \in [Handler -> [at : {"FREE", "NEXT", "SEND", "COMMIT"}, todo : SUBSET Event,
                                     evt : Event \cup {NoEvent}]]
        /\ reserved' \in [Handler -> [key : Key \cup {NoKey}, charged : 0 .. 1, acked : BOOLEAN]]
    BY <1>1 DEF FreeHandler, NoReservation
  <2> QED
    BY <1>0, <1>1, <2>1, NoElements DEF RetentionTypeOK
<1>5. StoreInv'
  BY <1>1, StoreEmptied
<1>6. AcksKnown'
  BY <1>1, NoElements DEF AcksKnown
<1>7. \A f \in Event : sent(f)' => sent(f)
  BY <1>0, <1>1, <1>3 DEF sent, FreeHandler, spoolVars
<1> QED
  BY <1>1, <1>3, <1>4, <1>5, <1>6, <1>7, MiteStep

\* The faults that the mite and the plugin go on from.
LEMMA OtherFaultsStep ==
    ASSUME IndInv, StreamEnds \/ PostTimesOut \/ GatewayRejects
    PROVE  IndInv'
<1>0. TypeOK /\ RetentionTypeOK /\ DispType /\ StoreInv /\ AcksKnown
  BY DEF IndInv, TypeOK, DispType
<1>1. faults' \in 0 .. MaxFaults
  BY <1>0, FaultCounted DEF StreamEnds, PostTimesOut, GatewayRejects
<1>2. CASE StreamEnds
  <2>1. /\ session' = FALSE /\ wire' = <<>> /\ down' = <<>>
        /\ UNCHANGED <<handlers, reserved, retained, total, acks, stored, refused, spoolVars, disp>>
    BY <1>2 DEF StreamEnds, Disconnect, retentionVars
  <2>2. RetentionTypeOK' /\ DispType'
    BY <1>0, <1>1, <2>1, NoElements DEF RetentionTypeOK, DispType
  <2>3. StoreInv'
    BY <1>0, <2>1, StoreKept DEF retentionVars
  <2>4. AcksKnown'
    <3>1. \A i : i \notin DOMAIN down'
      BY <2>1, NoElements, Zenon
    <3> QED
      BY <1>0, <2>1, <3>1 DEF AcksKnown, settled
  <2>5. \A f \in Event : sent(f)' => sent(f)
    BY <2>1, NoElements DEF sent, spoolVars
  <2> QED
    BY <2>1, <2>2, <2>3, <2>4, <2>5, MiteStep
<1>3. CASE PostTimesOut
  <2>1. retry({}) /\ UNCHANGED <<spoolVars, eventVars>>
    BY <1>3 DEF PostTimesOut
  <2>2. /\ disp'.hand = disp.hand /\ disp'.todo = disp.todo /\ disp'.group \subseteq disp.group
        /\ DispType'
    BY <1>1, <2>1, RetryType
  <2>3. disp'.hand \subseteq disp.hand /\ \A f \in disp'.todo \cup disp'.group : sent(f)
    BY <2>2 DEF sent
  <2>4. announced' \in Seq(Run)
    BY <1>0, <2>1 DEF TypeOK, SpoolTypeOK, spoolVars
  <2> QED
    BY <2>1, <2>2, <2>3, <2>4, ThreadStep DEF spoolVars
<1>4. CASE GatewayRejects
  <2>1. /\ wire # <<>> /\ wire' = Tail(wire)
        /\ refused' = refused \cup {Head(wire)} /\ down' = Append(down, keyOf(Head(wire)))
        /\ UNCHANGED <<session, handlers, reserved, retained, total, acks, stored, spoolVars, disp>>
    BY <1>4 DEF GatewayRejects, rejectBuildEvent, sendEventAck, retentionVars
  <2>2. DispType'
    BY <1>0, <1>1, <2>1 DEF DispType
  <2> QED
    BY <2>1, <2>2, PublishStep
<1> QED
  BY <1>2, <1>3, <1>4

-----------------------------------------------------------------------------
(* The theorems *)

LEMMA Initially == Init => IndInv
<1> SUFFICES ASSUME Init
             PROVE  IndInv
  OBVIOUS
<1>1. SpoolTypeOK
  BY SpoolAssumption DEF Init, SpoolInit, SpoolTypeOK, BuildState
<1>2. RetentionTypeOK
  BY DEF Init, RetentionInit, RetentionTypeOK, FreeHandler, NoReservation
<1>3. TypeOK
  BY <1>1, <1>2, IdleType, PathAssumption DEF Init, TypeOK
<1>4. StoreInv
  BY StoreEmpty DEF Init, RetentionInit
<1>5. \A e \in Event : ~inFlight(e)
  BY IdleType, RetentionAssumption DEF inFlight, waits, sent, Init, SpoolInit, RetentionInit, FreeHandler
<1>6. Numbering
  BY <1>5 DEF Numbering, KeysUnique, BelowClock, CountsOn, Init, SpoolInit
<1>7. AcksKnown /\ NeverForgotten
  BY DEF AcksKnown, NeverForgotten, Init, SpoolInit, RetentionInit
<1>8. IsFiniteSet(spool)
  BY FS_EmptySet DEF Init, SpoolInit
<1>9. BootShape /\ MadeOnce
  BY DEF BootShape, MadeOnce, Init, SpoolInit
<1> QED
  BY <1>3, <1>4, <1>6, <1>7, <1>8, <1>9 DEF IndInv

LEMMA Inductive == IndInv /\ [Next]_vars => IndInv'
<1> SUFFICES ASSUME IndInv, [Next]_vars
             PROVE  IndInv'
  OBVIOUS
<1>1. CASE Builds
  BY <1>1, BuildsStep
<1>2. CASE \E r \in Run : Spools(r) \/ AfterLoad(r)
  BY <1>2, SpoolsStep, AfterLoadStep
<1>3. CASE Boots
  BY <1>3, BootsStep
<1>4. CASE Dispatches
  BY <1>4, DispatchesStep
<1>5. CASE Delivers
  BY <1>5, DeliversStep
<1>6. CASE \E h \in Handler : Forwards(h) \/ Answers(h)
  BY <1>6, ForwardsStep, AnswersStep
<1>7. CASE JenkinsStops \/ MiteRestarts
  BY <1>7, JenkinsStopsStep, MiteRestartsStep
<1>8. CASE StreamEnds \/ PostTimesOut \/ GatewayRejects \/ LongPause
  BY <1>8, OtherFaultsStep, LongPauseStep
<1>9. CASE UNCHANGED vars
  <2>1. UNCHANGED <<spoolVars, eventVars, disp, faults>> /\ announced' = announced
    BY <1>9 DEF vars, spoolVars
  <2>2. DispType' /\ announced \in Seq(Run)
    BY <2>1 DEF DispType, IndInv, TypeOK, SpoolTypeOK
  <2>3. disp'.hand \subseteq disp.hand /\ \A f \in disp'.todo \cup disp'.group : sent(f)
    BY <2>1 DEF sent
  <2> QED
    BY <2>1, <2>2, <2>3, ThreadStep DEF spoolVars
<1> QED
  BY <1>1, <1>2, <1>3, <1>4, <1>5, <1>6, <1>7, <1>8, <1>9 DEF Next, PluginGoesOn

\* Every variable of the event path keeps its type.
THEOREM PathTypes == Spec => []TypeOK
<1>1. IndInv => TypeOK
  BY DEF IndInv
<1> QED
  BY <1>1, Initially, Inductive, PTL DEF Spec

\* A build that started is never forgotten, whatever the number of runs, requests and faults, but for
\* the two cases in which the code gives it up: a completion is deleted from the spool only when it is
\* settled, because the numbers that the acknowledgements name are unique over restarts, and the
\* journal entry goes only when the completion is on disk, when the run was not seen for a week, or
\* when the size caps drop the completion.
THEOREM BuildNeverForgotten == Spec => []NeverForgotten
<1>1. IndInv => NeverForgotten
  BY DEF IndInv
<1> QED
  BY <1>1, Initially, Inductive, PTL DEF Spec

\* The retention store of the mite accounts for what it holds at every moment, for every number of
\* concurrent posts.
THEOREM RetentionIsAccounted == Spec => []RetentionAccounted
<1>1. IndInv => RetentionAccounted
  BY DEF IndInv, StoreInv
<1> QED
  BY <1>1, Initially, Inductive, PTL DEF Spec

\* A process of Jenkins makes at most one completion for a build, for every number of runs and faults:
\* a build with a completion has ended and the boot reconcile is past it, or its claim keeps the
\* listener, the reconcile and the second finish from making another.
THEOREM OneCompletionEachBoot == Spec => []OneCompletionPerBoot
<1>1. IndInv => OneCompletionPerBoot
  <2>1. IndInv => MadeOnce
    BY DEF IndInv
  <2>2. MadeOnce => OneCompletionPerBoot
    <3> SUFFICES ASSUME MadeOnce, NEW r \in Run
                 PROVE  made[r] <= 1
      BY DEF OneCompletionPerBoot
    <3>1. made[r] = 0 \/ made[r] = 1
      BY DEF MadeOnce
    <3> QED
      BY <3>1
  <2> QED
    BY <2>1, <2>2
<1> QED
  BY <1>1, Initially, Inductive, PTL DEF Spec
=============================================================================
