-------------------------- MODULE BuildClaimsProofs --------------------------
(***************************************************************************)
(* Proofs about BuildClaims, for every set of instances, runs and keys and *)
(* every bound: type correctness, the build numbers, and at most one build *)
(* for each intent key.                                                    *)
(***************************************************************************)
EXTENDS BuildClaims, TLAPS

-----------------------------------------------------------------------------
(* What the updates do.                                                    *)

\* The larger of two naturals is a natural that neither exceeds.
LEMMA LargerIsBound ==
    ASSUME NEW m \in Nat, NEW n \in Nat
    PROVE  Larger(m, n) \in Nat /\ Larger(m, n) >= m /\ Larger(m, n) >= n
BY DEF Larger

\* setIntent changes one row of run_intents.
LEMMA SetIntent ==
    ASSUME intents \in [Key -> Intent], NEW k \in Key, NEW row \in Intent, setIntent(k, row)
    PROVE  /\ intents' \in [Key -> Intent]
           /\ \A h \in Key : intents'[h] = IF h = k THEN row ELSE intents[h]
BY DEF setIntent

\* setRun changes one row of runs.
LEMMA SetRun ==
    ASSUME runs \in [Run -> RunRow], NEW r \in Run, NEW row \in RunRow, setRun(r, row)
    PROVE  /\ runs' \in [Run -> RunRow]
           /\ \A s \in Run : runs'[s] = IF s = r THEN row ELSE runs[s]
BY DEF setRun

\* setItem changes one queue item.
LEMMA SetItem ==
    ASSUME items \in [Instance -> [Run -> Item]], NEW i \in Instance, NEW r \in Run,
           NEW item \in Item, setItem(i, r, item)
    PROVE  /\ items' \in [Instance -> [Run -> Item]]
           /\ \A j \in Instance, s \in Run :
                 items'[j][s] = IF j = i /\ s = r THEN item ELSE items[j][s]
BY DEF setItem

\* The fields of a request, and the number it would be given.
LEMMA RequestFields ==
    ASSUME LedgerTypeOK, NEW q \in Request
    PROVE  /\ q.run \in Run /\ KeyOf[q.run] \in Key
           /\ q.inst \in Instance
           /\ q.gen \in Nat
           /\ q.next \in Nat
           /\ reserved(q) \in Nat /\ reserved(q) >= nextNumber
           /\ nextNumber \in Nat /\ nextNumber >= 1
           /\ intents[KeyOf[q.run]] \in Intent
           /\ runs[q.run] \in RunRow
<1>1. q.run \in Run /\ q.inst \in Instance /\ q.gen \in Nat /\ q.next \in Nat
  BY DEF Request
<1>2. KeyOf[q.run] \in Key
  BY <1>1, LedgerAssumption DEF LedgerAssumption
<1>3. nextNumber \in Nat /\ nextNumber >= 1
  BY DEF LedgerTypeOK
<1>4. reserved(q) \in Nat /\ reserved(q) >= nextNumber
  BY <1>1, <1>3, LargerIsBound DEF reserved
<1> QED
  BY <1>1, <1>2, <1>3, <1>4 DEF LedgerTypeOK

\* A post of a typed state is a typed request.
LEMMA PostsAreRequests ==
    ASSUME TypeOK, NEW i \in Instance, NEW r \in Run
    PROVE  /\ claimBody(i, r, placement.gen) \in Request
           /\ startMarkBody(i, r, placement.gen) \in Request
BY DEF TypeOK, LedgerTypeOK, ClaimQueueTypeOK, claimBody, startMarkBody, Request,
       Placement, Item

\* Every answer of the ledger is a decision with a natural number.
LEMMA DecisionsAreReplies ==
    Decisions \subseteq Reply
BY LedgerAssumption DEF Decisions, Answer, Reply, LedgerAssumption

-----------------------------------------------------------------------------
(* Type correctness.                                                       *)

\* The marks of a vetoed run keep the run rows typed.
LEMMA VetoType ==
    ASSUME LedgerTypeOK, NEW r \in Run,
           markVetoedRun(r) \/ markDuplicateClaim(r) \/ UNCHANGED runs
    PROVE  runs' \in [Run -> RunRow]
<1>1. runs \in [Run -> RunRow] /\ runs[r] \in RunRow
  BY DEF LedgerTypeOK
<1>2. TriggerFailed(runs[r]) \in RunRow /\ [runs[r] EXCEPT !.status = "DUPLICATE"] \in RunRow
  BY <1>1 DEF TriggerFailed, RunRow
<1>3. CASE setRun(r, TriggerFailed(runs[r]))
  BY <1>1, <1>2, <1>3, SetRun
<1>4. CASE setRun(r, [runs[r] EXCEPT !.status = "DUPLICATE"])
  BY <1>1, <1>2, <1>4, SetRun
<1> QED
  BY <1>1, <1>3, <1>4 DEF markVetoedRun, markDuplicateClaim

\* Every decision of the claim table keeps the ledger's types (Claim).
LEMMA ClaimType ==
    ASSUME LedgerTypeOK, NEW q \in Request, NEW a, Claim(q, a)
    PROVE  LedgerTypeOK'
<1> DEFINE k   == KeyOf[q.run]
           row == intents[k]
<1>1. /\ q.run \in Run /\ k \in Key /\ q.inst \in Instance /\ q.gen \in Nat
      /\ reserved(q) \in Nat /\ reserved(q) + 1 \in Nat \ {0}
      /\ row \in Intent /\ intents \in [Key -> Intent]
  BY RequestFields DEF LedgerTypeOK
<1>2. ASSUME reserveBuildNumber(q) PROVE nextNumber' \in Nat \ {0}
  BY <1>1, <1>2 DEF reserveBuildNumber
<1>3. CASE ClaimFenced(q, a)
  BY <1>1, <1>3, VetoType DEF ClaimFenced, LedgerTypeOK
<1>4. CASE ClaimRetry(q, a)
  BY <1>4 DEF ClaimRetry, ledgerVars, LedgerTypeOK
<1>5. CASE grantNewIntent(q, a)
  <2>1. [state |-> "GRANTED", run |-> q.run, owner |-> q.inst, gen |-> q.gen,
         number |-> reserved(q), marked |-> FALSE, old |-> FALSE] \in Intent
    BY <1>1 DEF Intent
  <2>2. intents' \in [Key -> Intent]
    BY <1>1, <1>5, <2>1, SetIntent DEF grantNewIntent
  <2> QED
    BY <1>2, <1>5, <2>2 DEF grantNewIntent, LedgerTypeOK
<1>6. CASE claimRow1(q, a)
  BY <1>1, <1>6, VetoType DEF claimRow1, LedgerTypeOK
<1>7. CASE sameRunDuplicate(q, a)
  BY <1>7 DEF sameRunDuplicate, ledgerVars, LedgerTypeOK
<1>8. CASE reanswerSameRun(q, a)
  <2>1. movedTo(row, q) \in Intent /\ [movedTo(row, q) EXCEPT !.number = reserved(q)] \in Intent
    BY <1>1 DEF movedTo, Intent
  <2>2. \/ setIntent(k, movedTo(row, q)) /\ UNCHANGED nextNumber
        \/ setIntent(k, [movedTo(row, q) EXCEPT !.number = reserved(q)]) /\ reserveBuildNumber(q)
    BY <1>8 DEF reanswerSameRun
  <2>3. intents' \in [Key -> Intent]
    BY <1>1, <2>1, <2>2, SetIntent
  <2> QED
    BY <1>2, <1>8, <2>2, <2>3 DEF reanswerSameRun, LedgerTypeOK
<1>9. CASE transferIntent(q, a)
  <2>1. [row EXCEPT !.run = q.run, !.owner = q.inst, !.gen = q.gen,
                    !.number = reserved(q), !.marked = FALSE, !.old = FALSE] \in Intent
    BY <1>1 DEF Intent
  <2>2. intents' \in [Key -> Intent]
    BY <1>1, <1>9, <2>1, SetIntent DEF transferIntent
  <2> QED
    BY <1>2, <1>9, <2>2 DEF transferIntent, LedgerTypeOK
<1>10. CASE claimDuplicate(q, a)
  BY <1>1, <1>10, VetoType DEF claimDuplicate, LedgerTypeOK
<1> QED
  BY <1>3, <1>4, <1>5, <1>6, <1>7, <1>8, <1>9, <1>10 DEF Claim

\* So does every answer to a start mark (MarkStart).
LEMMA MarkType ==
    ASSUME LedgerTypeOK, NEW q \in Request, NEW a, MarkStart(q, a)
    PROVE  LedgerTypeOK'
<1> DEFINE k   == KeyOf[q.run]
           row == intents[k]
<1>1. /\ q.run \in Run /\ k \in Key
      /\ row \in Intent /\ intents \in [Key -> Intent]
  BY RequestFields DEF LedgerTypeOK
<1>2. CASE ClaimFenced(q, a)
  BY <1>1, <1>2, VetoType DEF ClaimFenced, LedgerTypeOK
<1>3. CASE ClaimRetry(q, a)
  BY <1>3 DEF ClaimRetry, ledgerVars, LedgerTypeOK
<1>4. CASE markDuplicate(q, a)
  BY <1>1, <1>4, VetoType DEF markDuplicate, LedgerTypeOK
<1>5. CASE markFenced(q, a)
  BY <1>5 DEF markFenced, ledgerVars, LedgerTypeOK
<1>6. CASE markGranted(q, a)
  <2>1. [row EXCEPT !.marked = TRUE, !.old = FALSE] \in Intent
    BY <1>1 DEF Intent
  <2>2. intents' \in [Key -> Intent]
    BY <1>1, <1>6, <2>1, SetIntent DEF markGranted
  <2> QED
    BY <1>6, <2>2 DEF markGranted, LedgerTypeOK
<1> QED
  BY <1>2, <1>3, <1>4, <1>5, <1>6 DEF MarkStart

\* So does the ingest of a build's start (applyRunStarted).
LEMMA StartedType ==
    ASSUME LedgerTypeOK, NEW b \in Build, applyRunStarted(b)
    PROVE  LedgerTypeOK'
<1>1. KeyOf[b.run] \in Key /\ b.run \in Run /\ b.number \in Nat
  BY LedgerAssumption DEF Build, LedgerAssumption
<1>2. runs' \in [Run -> RunRow]
  <2>1. \A s \in Run : runs[s] \in RunRow /\ startedRow(runs[s]) \in RunRow
    BY DEF startedRow, LedgerTypeOK, RunRow
  <2>2. \A row \in RunRow : [row EXCEPT !.status = "DUPLICATE"] \in RunRow
    BY DEF RunRow
  <2> QED
    BY <2>1, <2>2 DEF applyRunStarted
<1>3. intents' \in [Key -> Intent]
  <2>1. \A k \in Key : intents[k] \in Intent
    BY DEF LedgerTypeOK
  <2>2. \A k \in Key, n \in Nat :
           consumed(intents[k], n) \in Intent /\ [intents[k] EXCEPT !.number = n] \in Intent
    BY <2>1 DEF consumed, Intent
  <2> QED
    BY <1>1, <2>1, <2>2 DEF applyRunStarted
<1>4. nextNumber' \in Nat \ {0}
  <2>1. nextNumber \in Nat /\ nextNumber >= 1 /\ b.number + 1 \in Nat /\ b.number + 1 >= 1
    BY <1>1 DEF LedgerTypeOK
  <2>2. nextNumber' = nextNumber \/ nextNumber' = Larger(nextNumber, b.number + 1)
    BY DEF applyRunStarted
  <2>3. Larger(nextNumber, b.number + 1) \in Nat /\ Larger(nextNumber, b.number + 1) >= nextNumber
    BY <2>1, LargerIsBound
  <2> QED
    BY <2>1, <2>2, <2>3
<1> QED
  BY <1>2, <1>3, <1>4 DEF applyRunStarted, LedgerTypeOK

\* The recorder's other steps keep the ledger's types.
LEMMA RecorderType ==
    ASSUME TypeOK, RecorderStep
    PROVE  LedgerTypeOK'
<1>1. /\ runs \in [Run -> RunRow] /\ intents \in [Key -> Intent]
      /\ builds \subseteq Build /\ VarroaRun \subseteq Run
      /\ LedgerTypeOK
  BY LedgerAssumption DEF TypeOK, LedgerTypeOK, ClaimQueueTypeOK, LedgerAssumption
<1>2. \A r \in Run : TriggerFailed(runs[r]) \in RunRow
  BY <1>1 DEF TriggerFailed, RunRow
<1>3. ASSUME NEW b \in builds, applyRunStarted(b) PROVE LedgerTypeOK'
  BY <1>1, <1>3, StartedType
<1>4. ASSUME NEW b \in builds, applyRunCompleted(b) PROVE LedgerTypeOK'
  <2>1. b.run \in Run /\ runs[b.run] \in RunRow
    BY <1>1 DEF Build
  <2>2. PICK row \in RunRow : setRun(b.run, row)
    BY <1>4, <2>1 DEF applyRunCompleted, AbsentRow, RunRow
  <2> QED
    BY <1>1, <1>4, <2>1, <2>2, SetRun DEF applyRunCompleted, LedgerTypeOK
<1>5. ASSUME NEW r \in VarroaRun, applyTriggerAccepted(r) PROVE LedgerTypeOK'
  <2>1. PICK row \in RunRow : setRun(r, row)
    BY <1>5 DEF applyTriggerAccepted, RunRow
  <2> QED
    BY <1>1, <1>5, <2>1, SetRun DEF applyTriggerAccepted, LedgerTypeOK
<1>6. ASSUME NEW r \in Run, setRun(r, TriggerFailed(runs[r])),
             UNCHANGED <<placement, dead, intents, nextNumber>>
      PROVE  LedgerTypeOK'
  BY <1>1, <1>2, <1>6, SetRun DEF LedgerTypeOK
<1>7. ASSUME NEW k \in Key, EndMarkedLostIntent(k) PROVE LedgerTypeOK'
  <2>1. PICK row \in RunRow : setRun(intents[k].run, row)
    BY <1>7 DEF EndMarkedLostIntent, RunRow
  <2>2. runs' \in [Run -> RunRow]
    BY <1>1, <2>1 DEF setRun
  <2> QED
    BY <1>1, <1>7, <2>2 DEF EndMarkedLostIntent, LedgerTypeOK
<1>8. ASSUME NEW k \in Key, GrantAges(k) PROVE LedgerTypeOK'
  <2>1. [intents[k] EXCEPT !.old = TRUE] \in Intent
    BY <1>1 DEF Intent
  <2> QED
    BY <1>1, <1>8, <2>1, SetIntent DEF GrantAges, LedgerTypeOK
<1>9. ASSUME NEW i \in Instance, confirmGone(i) PROVE LedgerTypeOK'
  BY <1>1, <1>9 DEF confirmGone, LedgerTypeOK
<1>10. ASSUME seedReported PROVE LedgerTypeOK'
  BY <1>1, <1>10 DEF seedReported, LedgerTypeOK, Placement
<1>11. ASSUME NEW i \in Instance, NEW g \in 1..MaxGeneration, announce(i, g) \/ takeOver(i, g)
       PROVE  LedgerTypeOK'
  <2>1. [gen |-> g, home |-> i, seeded |-> FALSE] \in Placement
    BY LedgerAssumption DEF Placement, LedgerAssumption
  <2> QED
    BY <1>1, <1>11, <2>1 DEF announce, takeOver, LedgerTypeOK
<1>12. ASSUME NEW r \in Run, applyTriggerFailed(r) \/ claimExpired(r) \/ claimAbandoned(r)
       PROVE  LedgerTypeOK'
  BY <1>6, <1>12 DEF applyTriggerFailed, claimExpired, claimAbandoned
<1> QED
  BY <1>1, <1>3, <1>4, <1>5, <1>7, <1>8, <1>9, <1>10, <1>11, <1>12 DEF RecorderStep

\* The plugin's steps keep the types of the queue items, the gate and the counter.
LEMMA PluginType ==
    ASSUME TypeOK, PluginStep
    PROVE  ClaimQueueTypeOK'
<1>1. /\ items \in [Instance -> [Run -> Item]]
      /\ gate \in [Instance -> Run \cup {NoRun}]
      /\ counter \in [Instance -> Nat \ {0}]
      /\ late \subseteq Request
      /\ builds \subseteq Build
  BY DEF TypeOK, ClaimQueueTypeOK
<1>2. ASSUME NEW i \in Instance, NEW r \in Run
      PROVE  /\ items[i][r] \in Item /\ NoItem \in Item /\ Requeued(items[i][r]) \in Item
             /\ items[i][r].number \in Nat
             /\ opened(i, r) \in [Instance -> Run \cup {NoRun}]
  <2>1. items[i][r] \in Item
    BY <1>1
  <2>2. NoItem \in Item /\ Requeued(items[i][r]) \in Item /\ items[i][r].number \in Nat
    BY <2>1 DEF Item, NoItem, Phase, Requeued
  <2>3. opened(i, r) \in [Instance -> Run \cup {NoRun}]
    BY <1>1 DEF opened
  <2> QED
    BY <2>1, <2>2, <2>3
<1>3. ASSUME NEW i \in Instance, NEW r \in Run, Schedule(i, r) PROVE ClaimQueueTypeOK'
  <2>1. [NoItem EXCEPT !.phase = "QUEUED"] \in Item
    BY DEF Item, NoItem, Phase
  <2> QED
    BY <1>1, <1>3, <2>1, SetItem DEF Schedule, ClaimQueueTypeOK
<1>4. ASSUME NEW i \in Instance, NEW r \in Run, applyGrant(i, r) PROVE ClaimQueueTypeOK'
  <2>1. /\ Requeued([items[i][r] EXCEPT !.conflict = items[i][r].number]) \in Item
        /\ [items[i][r] EXCEPT !.phase = "MARKING", !.conflict = 0] \in Item
    BY <1>2 DEF Item, Phase, Requeued
  <2>2. items' \in [Instance -> [Run -> Item]]
    BY <1>1, <1>4, <2>1, SetItem DEF applyGrant
  <2>3. /\ counter' \in [Instance -> Nat \ {0}]
        /\ gate' \in [Instance -> Run \cup {NoRun}]
    <3>1. ~passed(i, items[i][r].number) => items[i][r].number \in Nat \ {0}
      BY <1>1, <1>2 DEF passed
    <3> QED
      BY <1>1, <1>4, <3>1 DEF applyGrant, applyNumber
  <2> QED
    BY <1>1, <1>4, <2>2, <2>3 DEF applyGrant, ClaimQueueTypeOK
<1>5. ASSUME NEW i \in Instance, NEW r \in Run, postTimesOut(i, r, placement.gen)
      PROVE  ClaimQueueTypeOK'
  <2>1. items' \in [Instance -> [Run -> Item]] /\ gate' \in [Instance -> Run \cup {NoRun}]
    BY <1>1, <1>2, <1>5, SetItem DEF postTimesOut
  <2>2. late' \subseteq Request
    BY <1>1, <1>5, PostsAreRequests DEF postTimesOut
  <2> QED
    BY <1>1, <1>5, <2>1, <2>2 DEF postTimesOut, ClaimQueueTypeOK
<1>6. ASSUME NEW i \in Instance, NEW r \in Run, cancel(i, r) PROVE ClaimQueueTypeOK'
  BY <1>1, <1>2, <1>6, SetItem DEF cancel, ClaimQueueTypeOK
<1>7. ASSUME NEW i \in Instance, NEW r \in Run, Start(i, r) PROVE ClaimQueueTypeOK'
  <2>2. items' \in [Instance -> [Run -> Item]] /\ gate' \in [Instance -> Run \cup {NoRun}]
    BY <1>1, <1>2, <1>7, SetItem DEF Start
  <2>3. counter' \in [Instance -> Nat \ {0}] /\ builds' \subseteq Build
    BY <1>1, <1>7 DEF Start, Build
  <2> QED
    BY <1>1, <1>7, <2>2, <2>3 DEF Start, ClaimQueueTypeOK
<1>8. ASSUME NEW i \in Instance, expire(i) \/ Restart(i) PROVE ClaimQueueTypeOK'
  <2>1. gate' \in [Instance -> Run \cup {NoRun}]
    BY <1>1, <1>8 DEF expire, Restart
  <2>2. items' \in [Instance -> [Run -> Item]]
    <3>1. \A s \in Run : items[i][s] \in Item /\ Requeued(items[i][s]) \in Item
      BY <1>2
    <3> QED
      BY <1>1, <1>8, <3>1 DEF expire, Restart
  <2> QED
    BY <1>1, <1>8, <2>1, <2>2 DEF expire, Restart, ClaimQueueTypeOK
<1> QED
  BY <1>3, <1>4, <1>5, <1>6, <1>7, <1>8 DEF PluginStep

\* The initial state has the types.
LEMMA InitType == Init => TypeOK
BY DEF Init, LedgerInit, ClaimQueueInit, TypeOK, LedgerTypeOK, ClaimQueueTypeOK,
       Placement, NoIntent, Intent, AbsentRow, RunRow, NoItem, Item, Phase

\* Every step keeps the types.
LEMMA StepType ==
    ASSUME TypeOK, [Next]_vars
    PROVE  TypeOK'
<1>0. /\ items \in [Instance -> [Run -> Item]] /\ NoItem \in Item
      /\ gate \in [Instance -> Run \cup {NoRun}]
  BY DEF TypeOK, ClaimQueueTypeOK, NoItem, Item, Phase
<1>1. ASSUME NEW i \in Instance, NEW r \in Run, ClaimStep(i, r)
      PROVE  TypeOK'
  <2>1. PICK a \in Decisions : claimOnce(i, r, a) /\ Claim(claimBody(i, r, placement.gen), a)
    BY <1>1 DEF ClaimStep
  <2>2. LedgerTypeOK'
    BY <2>1, ClaimType, PostsAreRequests DEF TypeOK
  <2>3. [items[i][r] EXCEPT !.phase = "APPLYING", !.number = a.number] \in Item
    <3>1. items[i][r] \in Item /\ a.number \in Nat
      BY <1>0, DecisionsAreReplies DEF Reply
    <3> QED
      BY <3>1 DEF Item, Phase
  <2>4. items' \in [Instance -> [Run -> Item]]
    BY <1>0, <2>1, <2>3, SetItem DEF claimOnce
  <2> QED
    BY <2>1, <2>2, <2>4 DEF claimOnce, TypeOK, ClaimQueueTypeOK
<1>2. ASSUME NEW i \in Instance, NEW r \in Run, MarkStep(i, r)
      PROVE  TypeOK'
  <2>1. PICK a \in Decisions : markStart(i, r, a) /\ MarkStart(startMarkBody(i, r, placement.gen), a)
    BY <1>2 DEF MarkStep
  <2>2. LedgerTypeOK'
    BY <2>1, MarkType, PostsAreRequests DEF TypeOK
  <2>3. [items[i][r] EXCEPT !.phase = "GRANTED"] \in Item /\ Requeued(items[i][r]) \in Item
    <3>1. items[i][r] \in Item
      BY <1>0
    <3> QED
      BY <3>1 DEF Item, Phase, Requeued
  <2>4. items' \in [Instance -> [Run -> Item]] /\ gate' \in [Instance -> Run \cup {NoRun}]
    BY <1>0, <2>1, <2>3, SetItem DEF markStart, opened
  <2> QED
    BY <2>1, <2>2, <2>4 DEF markStart, TypeOK, ClaimQueueTypeOK
<1>3. ASSUME NEW q \in late, HandleLate(q)
      PROVE  TypeOK'
  <2>1. q \in Request
    BY DEF TypeOK, ClaimQueueTypeOK
  <2>2. LedgerTypeOK'
    BY <1>3, <2>1, ClaimType, MarkType DEF HandleLate, handleClaim, TypeOK
  <2> QED
    BY <1>3, <2>2 DEF HandleLate, TypeOK, ClaimQueueTypeOK
<1>4. CASE Rehydrate
  <2>1. placement.home \in Instance
    BY DEF TypeOK, LedgerTypeOK, Placement
  <2> QED
    BY <1>4, <2>1 DEF Rehydrate, applySeed, ledgerVars, TypeOK, LedgerTypeOK, ClaimQueueTypeOK
<1>5. CASE PluginStep
  <2>1. LedgerTypeOK'
    BY <1>5 DEF PluginStep, ledgerVars, TypeOK, LedgerTypeOK
  <2> QED
    BY <1>5, <2>1, PluginType DEF TypeOK
<1>6. CASE RecorderStep
  <2>1. ClaimQueueTypeOK'
    BY <1>6 DEF RecorderStep, queueVars, TypeOK, ClaimQueueTypeOK
  <2> QED
    BY <1>6, <2>1, RecorderType DEF TypeOK
<1>7. CASE UNCHANGED vars
  BY <1>7 DEF vars, ledgerVars, queueVars, TypeOK, LedgerTypeOK, ClaimQueueTypeOK
<1> QED
  BY <1>1, <1>2, <1>3, <1>4, <1>5, <1>6, <1>7 DEF Next

\* The stored rows, the requests in transit and the queue items always have the
\* fields and the domains that the code's types and column checks give them.
THEOREM TypeCorrect == Spec => []TypeOK
BY InitType, StepType, PTL DEF Spec

-----------------------------------------------------------------------------
(* The build numbers.                                                      *)

\* A step that changes no number and does not lower the watermark.
LEMMA NumbersKept ==
    ASSUME TypeOK, NumbersBelowWatermark, nextNumber' \in Nat, nextNumber' >= nextNumber,
           \A k \in Key : intents'[k].number = intents[k].number
    PROVE  NumbersBelowWatermark'
<1>1. \A k \in Key : intents[k].number \in Nat /\ nextNumber \in Nat
  BY DEF TypeOK, LedgerTypeOK, Intent
<1> QED
  BY <1>1 DEF NumbersBelowWatermark

\* A step that reserves a number at or above the watermark for one key.
LEMMA NumberReserved ==
    ASSUME TypeOK, NumbersBelowWatermark, NEW k \in Key, NEW n \in Nat, n >= nextNumber,
           nextNumber' = n + 1,
           intents'[k].number = n,
           \A h \in Key \ {k} : intents'[h].number = intents[h].number
    PROVE  NumbersBelowWatermark'
<1>1. \A h \in Key : intents[h].number \in Nat /\ nextNumber \in Nat
  BY DEF TypeOK, LedgerTypeOK, Intent
<1>2. \A h \in Key \ {k} : intents'[h].number < n
  BY <1>1 DEF NumbersBelowWatermark
<1> QED
  BY <1>1, <1>2 DEF NumbersBelowWatermark

\* The claim table reserves above the watermark (reserveBuildNumber) or keeps
\* the number, so no decision meets the unique constraint.
LEMMA ClaimNumbers ==
    ASSUME TypeOK, NumbersBelowWatermark, NEW q \in Request, NEW a, handleClaim(q, a)
    PROVE  NumbersBelowWatermark'
<1> DEFINE k   == KeyOf[q.run]
           row == intents[k]
<1>1. /\ q.run \in Run /\ k \in Key /\ q.inst \in Instance /\ q.gen \in Nat
      /\ reserved(q) \in Nat /\ reserved(q) >= nextNumber /\ nextNumber \in Nat
      /\ row \in Intent /\ intents \in [Key -> Intent]
  BY RequestFields DEF TypeOK, LedgerTypeOK
<1>2. CASE UNCHANGED <<intents, nextNumber>>
  BY <1>1, <1>2, NumbersKept
<1>3. ASSUME NEW new \in Intent, setIntent(k, new), new.number = row.number, UNCHANGED nextNumber
      PROVE  NumbersBelowWatermark'
  <2>1. \A h \in Key : intents'[h].number = intents[h].number
    BY <1>1, <1>3, SetIntent
  <2> QED
    BY <1>1, <1>3, <2>1, NumbersKept
<1>4. ASSUME NEW new \in Intent, setIntent(k, new), new.number = reserved(q), reserveBuildNumber(q)
      PROVE  NumbersBelowWatermark'
  <2>1. /\ intents'[k].number = reserved(q)
        /\ \A h \in Key \ {k} : intents'[h].number = intents[h].number
    BY <1>1, <1>4, SetIntent
  <2>2. nextNumber' = reserved(q) + 1
    BY <1>4 DEF reserveBuildNumber
  <2> QED
    BY <1>1, <2>1, <2>2, NumberReserved
<1>5. CASE grantNewIntent(q, a)
  <2> DEFINE new == [state |-> "GRANTED", run |-> q.run, owner |-> q.inst, gen |-> q.gen,
                     number |-> reserved(q), marked |-> FALSE, old |-> FALSE]
  <2>1. new \in Intent /\ new.number = reserved(q)
    BY <1>1 DEF Intent
  <2>2. setIntent(k, new) /\ reserveBuildNumber(q)
    BY <1>5 DEF grantNewIntent
  <2> HIDE DEF new
  <2> QED
    BY <1>4, <2>1, <2>2
<1>6. CASE reanswerSameRun(q, a)
  <2> DEFINE new == [movedTo(row, q) EXCEPT !.number = reserved(q)]
  <2>1. /\ movedTo(row, q) \in Intent /\ movedTo(row, q).number = row.number
        /\ new \in Intent /\ new.number = reserved(q)
    BY <1>1 DEF movedTo, Intent
  <2>2. \/ setIntent(k, movedTo(row, q)) /\ UNCHANGED nextNumber
        \/ setIntent(k, new) /\ reserveBuildNumber(q)
    BY <1>6 DEF reanswerSameRun
  <2> HIDE DEF new
  <2> QED
    BY <1>3, <1>4, <2>1, <2>2
<1>7. CASE transferIntent(q, a)
  <2> DEFINE new == [row EXCEPT !.run = q.run, !.owner = q.inst, !.gen = q.gen,
                                !.number = reserved(q), !.marked = FALSE, !.old = FALSE]
  <2>1. new \in Intent /\ new.number = reserved(q)
    BY <1>1 DEF Intent
  <2>2. setIntent(k, new) /\ reserveBuildNumber(q)
    BY <1>7 DEF transferIntent
  <2> HIDE DEF new
  <2> QED
    BY <1>4, <2>1, <2>2
<1>8. CASE markGranted(q, a)
  <2>1. [row EXCEPT !.marked = TRUE, !.old = FALSE] \in Intent
    BY <1>1 DEF Intent
  <2>2. [row EXCEPT !.marked = TRUE, !.old = FALSE].number = row.number
    BY <1>1 DEF Intent
  <2>3. CASE setIntent(k, [row EXCEPT !.marked = TRUE, !.old = FALSE])
    BY <1>3, <1>8, <2>1, <2>2, <2>3 DEF markGranted
  <2> QED
    BY <1>2, <1>8, <2>3 DEF markGranted
<1>9. CASE \/ ClaimFenced(q, a) \/ ClaimRetry(q, a) \/ claimRow1(q, a)
           \/ sameRunDuplicate(q, a) \/ claimDuplicate(q, a)
           \/ markDuplicate(q, a) \/ markFenced(q, a)
  BY <1>2, <1>9 DEF ClaimFenced, ClaimRetry, claimRow1, sameRunDuplicate, claimDuplicate,
                    markDuplicate, markFenced, ledgerVars
<1> QED
  BY <1>5, <1>6, <1>7, <1>8, <1>9 DEF handleClaim, Claim, MarkStart

\* The number Jenkins used takes the place of an unstarted grant of it, or the
\* intent is consumed with none (applyRunStarted).
LEMMA StartedNumbers ==
    ASSUME TypeOK, NumbersBelowWatermark, NEW b \in Build, applyRunStarted(b)
    PROVE  NumbersBelowWatermark'
<1> DEFINE key      == KeyOf[b.run]
           conflict == \E h \in numberHolders(b) : ~takeable(h)
           number   == IF conflict THEN 0 ELSE b.number
<1>1. /\ key \in Key /\ b.number \in Nat /\ nextNumber \in Nat /\ nextNumber >= 1
      /\ \A k \in Key : intents[k] \in Intent /\ intents[k].number \in Nat
  BY LedgerAssumption DEF Build, LedgerAssumption, TypeOK, LedgerTypeOK, Intent
<1>2. /\ intents'[key].number = number
      /\ \A h \in Key \ {key} :
            intents'[h].number = IF ~conflict /\ h \in numberHolders(b) THEN 0 ELSE intents[h].number
  BY <1>1 DEF applyRunStarted, consumed, Intent
<1>3. /\ nextNumber' \in Nat /\ nextNumber' >= nextNumber
      /\ ~conflict => nextNumber' > b.number
  <2>1. /\ Larger(nextNumber, b.number + 1) \in Nat
        /\ Larger(nextNumber, b.number + 1) >= nextNumber
        /\ Larger(nextNumber, b.number + 1) >= b.number + 1
    <3>1. b.number + 1 \in Nat
      BY <1>1
    <3> QED
      BY <1>1, <3>1, LargerIsBound
  <2>2. nextNumber' = IF conflict THEN nextNumber ELSE Larger(nextNumber, b.number + 1)
    BY DEF applyRunStarted
  <2> QED
    BY <1>1, <2>1, <2>2
<1>4. \A h \in Key \ {key} : ~conflict => intents'[h].number # b.number \/ intents'[h].number = 0
  BY <1>2 DEF numberHolders
<1> HIDE DEF conflict
<1> QED
  BY <1>1, <1>2, <1>3, <1>4 DEF NumbersBelowWatermark

\* No step breaks the numbers.
LEMMA StepNumbers ==
    ASSUME TypeOK, NumbersBelowWatermark, [Next]_vars
    PROVE  NumbersBelowWatermark'
<1>1. nextNumber \in Nat /\ intents \in [Key -> Intent]
  BY DEF TypeOK, LedgerTypeOK
<1>2. CASE UNCHANGED <<intents, nextNumber>>
  BY <1>1, <1>2, NumbersKept
<1>3. ASSUME NEW i \in Instance, NEW r \in Run, ClaimStep(i, r) \/ MarkStep(i, r)
      PROVE  NumbersBelowWatermark'
  <2>1. \E q \in Request, a \in Decisions : handleClaim(q, a)
    <3>1. /\ claimBody(i, r, placement.gen) \in Request
          /\ claimBody(i, r, placement.gen).kind = "claim"
          /\ startMarkBody(i, r, placement.gen) \in Request
          /\ startMarkBody(i, r, placement.gen).kind = "mark"
      BY PostsAreRequests DEF claimBody, startMarkBody
    <3> QED
      BY <1>3, <3>1 DEF ClaimStep, MarkStep, handleClaim
  <2> QED
    BY <2>1, ClaimNumbers
<1>4. ASSUME NEW q \in late, HandleLate(q) PROVE NumbersBelowWatermark'
  BY <1>4, ClaimNumbers DEF HandleLate, TypeOK, ClaimQueueTypeOK
<1>5. CASE Rehydrate \/ PluginStep \/ UNCHANGED vars
  BY <1>2, <1>5 DEF Rehydrate, PluginStep, vars, ledgerVars
<1>6. CASE RecorderStep
  <2>1. ASSUME NEW b \in builds, applyRunStarted(b) PROVE NumbersBelowWatermark'
    BY <2>1, StartedNumbers DEF TypeOK, ClaimQueueTypeOK
  <2>2. ASSUME NEW k \in Key, GrantAges(k) PROVE NumbersBelowWatermark'
    <3>1. /\ [intents[k] EXCEPT !.old = TRUE] \in Intent
          /\ [intents[k] EXCEPT !.old = TRUE].number = intents[k].number
      BY <1>1 DEF Intent
    <3>2. \A h \in Key : intents'[h].number = intents[h].number
      BY <1>1, <2>2, <3>1, SetIntent DEF GrantAges
    <3> QED
      BY <1>1, <2>2, <3>2, NumbersKept DEF GrantAges
  <2> QED
    BY <1>2, <1>6, <2>1, <2>2
       DEF RecorderStep, applyRunCompleted, applyTriggerAccepted, applyTriggerFailed, claimExpired,
           claimAbandoned, EndMarkedLostIntent, confirmGone, seedReported, announce, takeOver
<1> QED
  BY <1>3, <1>4, <1>5, <1>6 DEF Next

\* Every stored number is below the job's watermark and belongs to one intent:
\* the unique constraint of run_intents never refuses a reservation.
THEOREM NumbersSafe == Spec => []NumbersBelowWatermark
<1>1. Init => TypeOK /\ NumbersBelowWatermark
  <2>1. Init => (\A k \in Key : intents[k].number = 0) /\ nextNumber = 1
    BY DEF Init, LedgerInit, NoIntent
  <2>2. Init => NumbersBelowWatermark
    BY <2>1 DEF NumbersBelowWatermark
  <2> QED
    BY <2>2, InitType
<1>2. TypeOK /\ NumbersBelowWatermark /\ [Next]_vars => TypeOK' /\ NumbersBelowWatermark'
  BY StepType, StepNumbers
<1> QED
  BY <1>1, <1>2, PTL DEF Spec

-----------------------------------------------------------------------------
(* One build for each intent key.                                          *)

\* A ledger step that keeps the marks keeps what the mark allows.
LEMMA MarkedForKept ==
    ASSUME MarkKept, NEW i \in Instance, NEW r \in Run, MarkedFor(i, r)
    PROVE  MarkedFor(i, r)'
BY LedgerAssumption DEF MarkKept, MarkedFor, LedgerAssumption

\* A step that leaves run_intents alone.
LEMMA IntentsUnchanged ==
    ASSUME IntentShape, UNCHANGED intents
    PROVE  MarkKept /\ ConsumptionKept /\ IntentShape'
BY DEF IntentShape, MarkKept, ConsumptionKept

\* One changed row that keeps its mark, its consumption and its shape.
LEMMA IntentChanged ==
    ASSUME intents \in [Key -> Intent], IntentShape,
           NEW k \in Key, NEW row \in Intent, setIntent(k, row),
           intents[k].marked => row.marked /\ row.run = intents[k].run /\ row.owner = intents[k].owner,
           intents[k].state = "CONSUMED" => row.state = "CONSUMED",
           row.state # "NONE",
           row.state = "CONSUMED" => row.marked
    PROVE  MarkKept /\ ConsumptionKept /\ IntentShape'
<1>1. \A h \in Key : intents'[h] = IF h = k THEN row ELSE intents[h]
  BY SetIntent
<1> QED
  BY <1>1 DEF MarkKept, ConsumptionKept, IntentShape

\* Every request the recorder handles, in time or late, keeps the marks.
LEMMA ClaimKeepsMarks ==
    ASSUME LedgerTypeOK, IntentShape, NEW q \in Request, NEW a, handleClaim(q, a)
    PROVE  MarkKept /\ ConsumptionKept /\ IntentShape'
<1> DEFINE k   == KeyOf[q.run]
           row == intents[k]
<1>1. /\ q.run \in Run /\ k \in Key /\ q.inst \in Instance /\ q.gen \in Nat
      /\ reserved(q) \in Nat
      /\ row \in Intent /\ intents \in [Key -> Intent]
  BY RequestFields DEF LedgerTypeOK
<1>2. /\ row.state = "NONE" => ~row.marked /\ row.run \notin Run
      /\ row.state = "CONSUMED" => row.marked
  BY <1>1, LedgerAssumption DEF IntentShape, NoIntent, LedgerAssumption
<1>3. CASE grantNewIntent(q, a)
  <2> DEFINE new == [state |-> "GRANTED", run |-> q.run, owner |-> q.inst, gen |-> q.gen,
                     number |-> reserved(q), marked |-> FALSE, old |-> FALSE]
  <2>1. new \in Intent /\ new.state = "GRANTED"
    BY <1>1 DEF Intent
  <2>2. setIntent(k, new) /\ row.state = "NONE"
    BY <1>3 DEF grantNewIntent
  <2> HIDE DEF new
  <2> QED
    BY <1>1, <1>2, <2>1, <2>2, IntentChanged
<1>4. CASE reanswerSameRun(q, a)
  <2> DEFINE fresh == [movedTo(row, q) EXCEPT !.number = reserved(q)]
  <2>1. ~intentStarted(row) /\ ~markedElsewhere(row, q) /\ row.run = q.run
    BY <1>4 DEF reanswerSameRun
  <2>2. row.state = "GRANTED"
    BY <1>1, <1>2, <2>1 DEF intentStarted, Intent
  <2>3. \A new \in {movedTo(row, q), fresh} :
           /\ new \in Intent /\ new.state = "GRANTED"
           /\ row.marked => new.marked /\ new.run = row.run /\ new.owner = row.owner
    BY <1>1, <2>1, <2>2 DEF movedTo, markedElsewhere, Intent
  <2>4. setIntent(k, movedTo(row, q)) \/ setIntent(k, fresh)
    BY <1>4 DEF reanswerSameRun
  <2> HIDE DEF fresh
  <2> QED
    BY <1>1, <2>2, <2>3, <2>4, IntentChanged
<1>5. CASE transferIntent(q, a)
  <2> DEFINE new == [row EXCEPT !.run = q.run, !.owner = q.inst, !.gen = q.gen,
                                !.number = reserved(q), !.marked = FALSE, !.old = FALSE]
  <2>1. row.state = "GRANTED" /\ ~row.marked
    BY <1>5 DEF transferIntent, transferable
  <2>2. new \in Intent /\ new.state = "GRANTED"
    BY <1>1, <2>1 DEF Intent
  <2>3. setIntent(k, new)
    BY <1>5 DEF transferIntent
  <2> HIDE DEF new
  <2> QED
    BY <1>1, <2>1, <2>2, <2>3, IntentChanged
<1>6. CASE markGranted(q, a)
  <2> DEFINE new == [row EXCEPT !.marked = TRUE, !.old = FALSE]
  <2>1. /\ new \in Intent /\ new.marked /\ new.run = row.run /\ new.owner = row.owner
        /\ new.state = row.state
    BY <1>1 DEF Intent
  <2>2. row.state # "NONE"
    BY <1>1, <1>2, <1>6 DEF markGranted
  <2>3. setIntent(k, new) \/ UNCHANGED intents
    BY <1>6 DEF markGranted
  <2> HIDE DEF new
  <2> QED
    BY <1>1, <2>1, <2>2, <2>3, IntentChanged, IntentsUnchanged
<1>7. CASE \/ ClaimFenced(q, a) \/ ClaimRetry(q, a) \/ claimRow1(q, a)
           \/ sameRunDuplicate(q, a) \/ claimDuplicate(q, a)
           \/ markDuplicate(q, a) \/ markFenced(q, a)
  BY <1>7, IntentsUnchanged
     DEF ClaimFenced, ClaimRetry, claimRow1, sameRunDuplicate, claimDuplicate,
         markDuplicate, markFenced, ledgerVars
<1> QED
  BY <1>3, <1>4, <1>5, <1>6, <1>7 DEF handleClaim, Claim, MarkStart

\* The ingest and the sweeps keep the marks; a start consumes a marked intent.
LEMMA RecorderKeepsMarks ==
    ASSUME TypeOK, IntentShape, StartMarkProof, RecorderStep
    PROVE  MarkKept /\ ConsumptionKept /\ IntentShape'
<1>1. intents \in [Key -> Intent] /\ builds \subseteq Build
  BY DEF TypeOK, LedgerTypeOK, ClaimQueueTypeOK
<1>2. ASSUME NEW b \in builds, applyRunStarted(b)
      PROVE  MarkKept /\ ConsumptionKept /\ IntentShape'
  <2> DEFINE key      == KeyOf[b.run]
             conflict == \E h \in numberHolders(b) : ~takeable(h)
             taken    == IF conflict THEN {} ELSE numberHolders(b)
             number   == IF conflict THEN 0 ELSE b.number
  <2>1. key \in Key /\ intents[key].marked
    BY <1>1, LedgerAssumption DEF StartMarkProof, MarkedFor, Build, LedgerAssumption
  <2>2. \A h \in taken : intents[h].state = "GRANTED"
    BY DEF takeable
  <2>3. intents' = [h \in Key |-> IF h = key THEN consumed(intents[key], number)
                                  ELSE IF h \in taken THEN [intents[h] EXCEPT !.number = 0]
                                  ELSE intents[h]]
    BY <1>2 DEF applyRunStarted
  <2> HIDE DEF taken, number
  <2>4. \A h \in Key :
          /\ intents'[h].marked = intents[h].marked
          /\ intents'[h].run = intents[h].run
          /\ intents'[h].owner = intents[h].owner
          /\ intents'[h].state = IF h = key THEN "CONSUMED" ELSE intents[h].state
          /\ h # key /\ h \notin taken => intents'[h] = intents[h]
    BY <1>1, <2>1, <2>3 DEF consumed, Intent
  <2> QED
    BY <2>1, <2>2, <2>4 DEF MarkKept, ConsumptionKept, IntentShape
<1>3. ASSUME NEW k \in Key, GrantAges(k)
      PROVE  MarkKept /\ ConsumptionKept /\ IntentShape'
  <2> DEFINE new == [intents[k] EXCEPT !.old = TRUE]
  <2>1. /\ new \in Intent /\ new.marked = intents[k].marked /\ new.run = intents[k].run
        /\ new.owner = intents[k].owner /\ new.state = intents[k].state
    BY <1>1 DEF Intent
  <2>2. setIntent(k, new) /\ intents[k].state = "GRANTED"
    BY <1>3 DEF GrantAges
  <2> HIDE DEF new
  <2> QED
    BY <1>1, <2>1, <2>2, IntentChanged
<1>4. CASE UNCHANGED intents
  BY <1>4, IntentsUnchanged
<1> QED
  BY <1>2, <1>3, <1>4
     DEF RecorderStep, applyRunCompleted, applyTriggerAccepted, applyTriggerFailed, claimExpired,
         claimAbandoned, EndMarkedLostIntent, confirmGone, seedReported, announce, takeOver

\* Only markGranted grants a start mark, and it leaves the intent marked for the
\* run and the instance that asked.
LEMMA GrantedMark ==
    ASSUME LedgerTypeOK, IntentShape, NEW q \in Request, NEW a, NEW i, NEW r,
           MarkStart(q, a), a.decision = "GRANTED", q.inst = i, q.run = r
    PROVE  MarkedFor(i, r)'
<1> DEFINE k   == KeyOf[q.run]
           row == intents[k]
<1>1. k \in Key /\ row \in Intent /\ intents \in [Key -> Intent]
  BY RequestFields DEF LedgerTypeOK
<1>2. markGranted(q, a)
  BY DEF MarkStart, ClaimFenced, fenceAnswers, ClaimRetry, markDuplicate, markFenced, Answer
<1>3. row.run = q.run /\ row.owner = q.inst
  BY <1>2 DEF markGranted
<1>4. CASE row.state = "CONSUMED" \/ row.marked
  <2>1. row.marked
    BY <1>1, <1>4 DEF IntentShape
  <2>2. UNCHANGED intents
    BY <1>2, <1>4 DEF markGranted
  <2> QED
    BY <1>3, <2>1, <2>2 DEF MarkedFor
<1>5. CASE ~(row.state = "CONSUMED" \/ row.marked)
  <2> DEFINE new == [row EXCEPT !.marked = TRUE, !.old = FALSE]
  <2>1. new \in Intent /\ new.marked /\ new.run = row.run /\ new.owner = row.owner
    BY <1>1 DEF Intent
  <2>2. setIntent(k, new)
    BY <1>2, <1>5 DEF markGranted
  <2>3. intents'[k] = new
    BY <1>1, <2>1, <2>2, SetIntent
  <2> HIDE DEF new
  <2> QED
    BY <1>3, <2>1, <2>3 DEF MarkedFor
<1> QED
  BY <1>4, <1>5

\* A step that keeps the marks, starts nothing and grants nothing.
LEMMA QuietStep ==
    ASSUME StartProtocol, TypeOK', MarkKept, IntentShape', UNCHANGED builds,
           \A i \in Instance, r \in Run :
              /\ items'[i][r].phase = "GRANTED" => items[i][r].phase = "GRANTED" \/ MarkedFor(i, r)'
              /\ items[i][r].phase = "NONE" /\ items'[i][r].phase # "NONE" =>
                    ~findBuildForRunId(i, r) \/ TriggersRace
    PROVE  StartProtocol'
<1>1. \A b \in builds : b.inst \in Instance /\ b.run \in Run
  BY DEF StartProtocol, TypeOK, ClaimQueueTypeOK, Build
<1>2. GrantedItemIsMarked'
  BY MarkedForKept DEF StartProtocol, GrantedItemIsMarked
<1>3. StartMarkProof'
  BY <1>1, MarkedForKept DEF StartProtocol, StartMarkProof
<1>4. BuildStaysHome'
  BY <1>1 DEF StartProtocol, BuildStaysHome, RepeatFindsBuild, findBuildForRunId
<1> QED
  BY <1>2, <1>3, <1>4 DEF StartProtocol

\* A plugin step: only Start builds, and only from a granted item.
LEMMA PluginProtocol ==
    ASSUME StartProtocol, TypeOK', PluginStep
    PROVE  StartProtocol'
<1>1. MarkKept /\ IntentShape'
  BY IntentsUnchanged DEF PluginStep, ledgerVars, StartProtocol
<1>2. /\ items \in [Instance -> [Run -> Item]] /\ NoItem \in Item /\ NoItem.phase = "NONE"
      /\ [NoItem EXCEPT !.phase = "QUEUED"] \in Item
      /\ [NoItem EXCEPT !.phase = "QUEUED"].phase = "QUEUED"
  BY DEF StartProtocol, TypeOK, ClaimQueueTypeOK, NoItem, Item, Phase
<1>3. ASSUME NEW i \in Instance, NEW r \in Run
      PROVE  /\ items[i][r] \in Item
             /\ \A n \in Nat : /\ Requeued([items[i][r] EXCEPT !.conflict = n]) \in Item
                               /\ Requeued([items[i][r] EXCEPT !.conflict = n]).phase = "QUEUED"
             /\ Requeued(items[i][r]) \in Item /\ Requeued(items[i][r]).phase = "QUEUED"
             /\ [items[i][r] EXCEPT !.phase = "MARKING", !.conflict = 0] \in Item
             /\ [items[i][r] EXCEPT !.phase = "MARKING", !.conflict = 0].phase = "MARKING"
             /\ items[i][r].number \in Nat
  <2>1. items[i][r] \in Item
    BY <1>2
  <2> QED
    BY <2>1 DEF Requeued, Item, Phase
<1>4. ASSUME NEW i \in Instance, NEW r \in Run, NEW item \in Item, setItem(i, r, item),
             items[i][r].phase # "NONE" \/ ~findBuildForRunId(i, r) \/ TriggersRace,
             item.phase # "GRANTED", UNCHANGED builds
      PROVE  StartProtocol'
  BY <1>1, <1>2, <1>4, SetItem, QuietStep
<1>5. ASSUME NEW i \in Instance, NEW r \in Run,
             Schedule(i, r) \/ applyGrant(i, r) \/ cancel(i, r)
      PROVE  StartProtocol'
  BY <1>2, <1>3, <1>4, <1>5 DEF Schedule, shouldSchedule, applyGrant, cancel
<1>6. ASSUME UNCHANGED <<items, builds>> PROVE StartProtocol'
  BY <1>1, <1>6, QuietStep
<1>7. ASSUME NEW i \in Instance, NEW r \in Run, postTimesOut(i, r, placement.gen)
      PROVE  StartProtocol'
  BY <1>3, <1>4, <1>6, <1>7 DEF postTimesOut
<1>8. ASSUME NEW i \in Instance, expire(i) PROVE StartProtocol'
  BY <1>6, <1>8 DEF expire
<1>9. ASSUME NEW i \in Instance, Restart(i) PROVE StartProtocol'
  <2>1. \A j \in Instance, s \in Run :
           \/ items'[j][s] = items[j][s]
           \/ items[j][s].phase \in {"APPLYING", "MARKING"} /\ items'[j][s].phase = "QUEUED"
    BY <1>2, <1>3, <1>9 DEF Restart
  <2> QED
    BY <1>1, <1>9, <2>1, QuietStep DEF Restart
<1>10. ASSUME NEW i \in Instance, NEW r \in Run, Start(i, r) PROVE StartProtocol'
  <2> DEFINE new == [run |-> r, inst |-> i, number |-> counter[i]]
  <2>1. /\ items[i][r].phase = "GRANTED"
        /\ builds' = builds \cup {new}
        /\ UNCHANGED intents
    BY <1>10 DEF Start, PluginStep, ledgerVars
  <2>2. \A j \in Instance, s \in Run :
           items'[j][s] = IF j = i /\ s = r THEN NoItem ELSE items[j][s]
    BY <1>2, <1>10, SetItem DEF Start
  <2>a. \A j \in Instance, s \in Run :
           /\ items'[j][s].phase = "GRANTED" => items[j][s].phase = "GRANTED"
           /\ items[j][s].phase = "NONE" => items'[j][s].phase = "NONE"
    BY <1>2, <2>1, <2>2
  <2>b. items'[i][r].phase = "NONE"
    BY <1>2, <2>2
  <2>3. \A b \in builds : /\ b.inst \in Instance /\ b.run \in Run
                          /\ ~TriggersRace => ~(b.inst = i /\ b.run = r)
    BY <2>1 DEF StartProtocol, BuildStaysHome, TypeOK, ClaimQueueTypeOK, Build
  <2>4. new.inst = i /\ new.run = r
    OBVIOUS
  <2> HIDE DEF new
  <2>5. GrantedItemIsMarked'
    BY <1>1, <2>a, MarkedForKept DEF StartProtocol, GrantedItemIsMarked
  <2>6. MarkedFor(i, r)
    BY <2>1 DEF StartProtocol, GrantedItemIsMarked
  <2>7. StartMarkProof'
    BY <1>1, <2>1, <2>3, <2>4, <2>6, MarkedForKept DEF StartProtocol, StartMarkProof
  <2>8. BuildStaysHome'
    BY <2>1, <2>a, <2>b, <2>3, <2>4 DEF StartProtocol, BuildStaysHome, RepeatFindsBuild
  <2> QED
    BY <1>1, <2>5, <2>7, <2>8 DEF StartProtocol
<1> QED
  BY <1>5, <1>7, <1>8, <1>9, <1>10 DEF PluginStep

\* Every step keeps the inductive invariant.
LEMMA StepProtocol ==
    ASSUME StartProtocol, [Next]_vars
    PROVE  StartProtocol' /\ MarkKept /\ ConsumptionKept
<1>1. TypeOK' /\ TypeOK /\ LedgerTypeOK /\ IntentShape
  BY StepType DEF StartProtocol, TypeOK
<1>2. items \in [Instance -> [Run -> Item]] /\ NoItem \in Item /\ NoItem.phase = "NONE"
  BY <1>1 DEF TypeOK, ClaimQueueTypeOK, NoItem, Item, Phase
<1>3. ASSUME UNCHANGED <<items, builds>>, MarkKept, IntentShape' PROVE StartProtocol'
  BY <1>1, <1>3, QuietStep
<1>4. ASSUME NEW i \in Instance, NEW r \in Run, NEW item \in Item, setItem(i, r, item),
             items[i][r].phase # "NONE", item.phase = "GRANTED" => MarkedFor(i, r)',
             UNCHANGED builds, MarkKept, IntentShape'
      PROVE  StartProtocol'
  BY <1>1, <1>2, <1>4, SetItem, QuietStep
<1>5. ASSUME NEW i \in Instance, NEW r \in Run, ClaimStep(i, r)
      PROVE  StartProtocol' /\ MarkKept /\ ConsumptionKept
  <2> DEFINE q == claimBody(i, r, placement.gen)
  <2>1. PICK a \in Decisions : claimOnce(i, r, a) /\ Claim(q, a)
    BY <1>5 DEF ClaimStep
  <2>2. q \in Request /\ q.kind = "claim"
    BY <1>1, PostsAreRequests DEF claimBody
  <2>3. handleClaim(q, a)
    BY <2>1, <2>2 DEF handleClaim
  <2> HIDE DEF q
  <2>4. MarkKept /\ ConsumptionKept /\ IntentShape'
    BY <1>1, <2>2, <2>3, ClaimKeepsMarks
  <2>5. /\ [items[i][r] EXCEPT !.phase = "APPLYING", !.number = a.number] \in Item
        /\ [items[i][r] EXCEPT !.phase = "APPLYING", !.number = a.number].phase = "APPLYING"
    <3>1. items[i][r] \in Item /\ a.number \in Nat
      BY <1>2, DecisionsAreReplies DEF Reply
    <3> QED
      BY <3>1 DEF Item, Phase
  <2> QED
    BY <1>2, <1>3, <1>4, <2>1, <2>4, <2>5 DEF claimOnce
<1>6. ASSUME NEW i \in Instance, NEW r \in Run, MarkStep(i, r)
      PROVE  StartProtocol' /\ MarkKept /\ ConsumptionKept
  <2> DEFINE q == startMarkBody(i, r, placement.gen)
  <2>1. PICK a \in Decisions : markStart(i, r, a) /\ MarkStart(q, a)
    BY <1>6 DEF MarkStep
  <2>2. q \in Request /\ q.kind = "mark" /\ q.inst = i /\ q.run = r
    BY <1>1, PostsAreRequests DEF startMarkBody
  <2>3. handleClaim(q, a)
    BY <2>1, <2>2 DEF handleClaim
  <2> HIDE DEF q
  <2>4. MarkKept /\ ConsumptionKept /\ IntentShape'
    BY <1>1, <2>2, <2>3, ClaimKeepsMarks
  <2>5. a.decision = "GRANTED" => MarkedFor(i, r)'
    BY <1>1, <2>1, <2>2, GrantedMark
  <2>6. /\ [items[i][r] EXCEPT !.phase = "GRANTED"] \in Item
        /\ Requeued(items[i][r]) \in Item /\ Requeued(items[i][r]).phase = "QUEUED"
    <3>1. items[i][r] \in Item
      BY <1>2
    <3> QED
      BY <3>1 DEF Item, Phase, Requeued
  <2> QED
    BY <1>2, <1>4, <2>1, <2>4, <2>5, <2>6 DEF markStart
<1>7. ASSUME NEW q \in late, HandleLate(q)
      PROVE  StartProtocol' /\ MarkKept /\ ConsumptionKept
  <2>1. q \in Request
    BY <1>1 DEF TypeOK, ClaimQueueTypeOK
  <2>2. MarkKept /\ ConsumptionKept /\ IntentShape'
    BY <1>1, <1>7, <2>1, ClaimKeepsMarks DEF HandleLate
  <2> QED
    BY <1>3, <1>7, <2>2 DEF HandleLate
<1>8. CASE Rehydrate \/ UNCHANGED vars
  <2>1. UNCHANGED <<intents, items, builds>>
    BY <1>8 DEF Rehydrate, applySeed, vars, ledgerVars, queueVars
  <2> QED
    BY <1>1, <1>3, <2>1, IntentsUnchanged
<1>9. CASE PluginStep
  <2>1. UNCHANGED intents
    BY <1>9 DEF PluginStep, ledgerVars
  <2> QED
    BY <1>1, <1>9, <2>1, IntentsUnchanged, PluginProtocol
<1>10. CASE RecorderStep
  <2>1. MarkKept /\ ConsumptionKept /\ IntentShape'
    BY <1>1, <1>10, RecorderKeepsMarks DEF StartProtocol
  <2> QED
    BY <1>3, <1>10, <2>1 DEF RecorderStep, queueVars
<1> QED
  BY <1>5, <1>6, <1>7, <1>8, <1>9, <1>10 DEF Next

\* The inductive invariant holds initially.
LEMMA InitProtocol == Init => StartProtocol
<1>1. Init => IntentShape
  BY DEF Init, LedgerInit, IntentShape, NoIntent
<1>2. Init => GrantedItemIsMarked /\ StartMarkProof /\ BuildStaysHome
  BY DEF Init, ClaimQueueInit, NoItem, GrantedItemIsMarked, StartMarkProof, BuildStaysHome,
         RepeatFindsBuild
<1> QED
  BY <1>1, <1>2, InitType DEF StartProtocol

\* A build that started has its mark in the ledger, for the run and the instance
\* that the intent names: the proof that storedIntent.startMarkedAt relies on.
THEOREM StartsAreMarked == Spec => []StartMarkProof
<1>1. StartProtocol /\ [Next]_vars => StartProtocol'
  BY StepProtocol
<1>2. StartProtocol => StartMarkProof
  BY DEF StartProtocol
<1> QED
  BY <1>1, <1>2, InitProtocol, PTL DEF Spec

\* Two builds of one intent key are of one run on one instance, whatever is
\* lost, late, repeated or moved: claims and marks never let a second instance or
\* a second run start.
THEOREM OneStarter == Spec => []OneStarterPerIntent
<1>1. StartMarkProof => OneStarterPerIntent
  BY DEF StartMarkProof, MarkedFor, OneStarterPerIntent
<1> QED
  BY <1>1, StartsAreMarked, PTL

\* At most one build ever starts for an intent key, as long as no repeat trigger
\* races the start of its own run in doTrigger.
THEOREM NoDoubleFire == ASSUME ~TriggersRace PROVE Spec => []OneBuildPerIntent
<1>1. StartProtocol /\ [Next]_vars => StartProtocol'
  BY StepProtocol
<1>2. StartProtocol => OneBuildPerIntent
  BY DEF StartProtocol, StartMarkProof, MarkedFor, BuildStaysHome, RepeatFindsBuild,
         OneBuildPerIntent
<1> QED
  BY <1>1, <1>2, InitProtocol, PTL DEF Spec

\* No step moves a marked intent or takes a consumption back.
THEOREM MarksAreFinal == Spec => MarkIsFinal
<1>1. StartProtocol /\ [Next]_vars => StartProtocol' /\ MarkKept /\ ConsumptionKept
  BY StepProtocol
<1> QED
  BY <1>1, InitProtocol, PTL DEF Spec, MarkIsFinal
=============================================================================
