--------------------------- MODULE StartOnceProofs ---------------------------
(***************************************************************************)
(* BuildClaims implements StartOnce.  The start mark is the permit: only   *)
(* markGranted sets it, for the run and the owner of the row, on one row   *)
(* at a time, and MarkKept says that it stays.  A start finds its permit   *)
(* (GrantedItemIsMarked) and no earlier start of its key (StartMarkProof   *)
(* and BuildStaysHome).                                                    *)
(***************************************************************************)
EXTENDS BuildClaimsProofs

\* A request changes the intent of its own key at most, and a mark that it sets is
\* for its own run and instance.
LEMMA ClaimMarksOne ==
    ASSUME LedgerTypeOK, NEW q \in Request, NEW a, handleClaim(q, a)
    PROVE  /\ \A h \in Key : h # KeyOf[q.run] => intents'[h].marked = intents[h].marked
           /\ intents'[KeyOf[q.run]].marked =>
                 \/ intents[KeyOf[q.run]].marked
                 \/ intents'[KeyOf[q.run]].run \in Run /\ intents'[KeyOf[q.run]].owner \in Instance
<1> DEFINE k   == KeyOf[q.run]
           row == intents[k]
<1>1. k \in Key /\ row \in Intent /\ intents \in [Key -> Intent] /\ q.run \in Run /\ q.inst \in Instance
  BY RequestFields DEF LedgerTypeOK
<1>2. ASSUME NEW new, setIntent(k, new),
             new.marked => row.marked \/ (new.run \in Run /\ new.owner \in Instance)
      PROVE  /\ \A h \in Key : h # k => intents'[h].marked = intents[h].marked
             /\ intents'[k].marked => row.marked \/ (intents'[k].run \in Run /\ intents'[k].owner \in Instance)
  BY <1>1, <1>2 DEF setIntent
<1>3. CASE grantNewIntent(q, a)
  <2> DEFINE new == [state |-> "GRANTED", run |-> q.run, owner |-> q.inst, gen |-> q.gen,
                     number |-> reserved(q), marked |-> FALSE, old |-> FALSE]
  <2>1. setIntent(k, new) /\ ~new.marked
    BY <1>3 DEF grantNewIntent
  <2> QED
    BY <1>2, <2>1
<1>4. CASE reanswerSameRun(q, a)
  <2> DEFINE fresh == [movedTo(row, q) EXCEPT !.number = reserved(q)]
  <2>1. \A new \in {movedTo(row, q), fresh} : new.marked = row.marked
    BY <1>1 DEF movedTo, Intent
  <2>2. setIntent(k, movedTo(row, q)) \/ setIntent(k, fresh)
    BY <1>4 DEF reanswerSameRun
  <2> HIDE DEF fresh
  <2> QED
    BY <1>2, <2>1, <2>2
<1>5. CASE transferIntent(q, a)
  <2> DEFINE new == [row EXCEPT !.run = q.run, !.owner = q.inst, !.gen = q.gen,
                                !.number = reserved(q), !.marked = FALSE, !.old = FALSE]
  <2>1. setIntent(k, new) /\ ~new.marked
    BY <1>1, <1>5 DEF transferIntent, Intent
  <2> QED
    BY <1>2, <2>1
<1>6. CASE markGranted(q, a)
  <2> DEFINE new == [row EXCEPT !.marked = TRUE, !.old = FALSE]
  <2>1. new.run = q.run /\ new.owner = q.inst
    BY <1>1, <1>6 DEF markGranted, Intent
  <2>2. setIntent(k, new) \/ UNCHANGED intents
    BY <1>6 DEF markGranted
  <2> HIDE DEF new
  <2> QED
    BY <1>1, <1>2, <2>1, <2>2
<1>7. CASE UNCHANGED intents
  BY <1>7
<1> QED
  BY <1>3, <1>4, <1>5, <1>6, <1>7
     DEF handleClaim, Claim, MarkStart, ClaimFenced, ClaimRetry, claimRow1, sameRunDuplicate,
         claimDuplicate, markDuplicate, markFenced, ledgerVars

\* The ingest and the sweeps change no mark.
LEMMA RecorderMarksNone ==
    ASSUME TypeOK, RecorderStep
    PROVE  \A h \in Key : intents'[h].marked = intents[h].marked
<1>1. intents \in [Key -> Intent]
  BY DEF TypeOK, LedgerTypeOK
<1>2. ASSUME NEW b \in builds, applyRunStarted(b), NEW h \in Key
      PROVE  intents'[h].marked = intents[h].marked
  <2>1. \/ intents'[h] = intents[h]
        \/ intents'[h] = [intents[h] EXCEPT !.number = 0]
        \/ \E n : intents'[h] = consumed(intents[h], n)
    BY <1>2 DEF applyRunStarted
  <2>2. intents[h] \in Intent
    BY <1>1
  <2>3. \A n : consumed(intents[h], n).marked = intents[h].marked
    BY <2>2 DEF consumed, Intent
  <2> QED
    BY <2>1, <2>2, <2>3 DEF Intent
<1>3. ASSUME NEW k \in Key, GrantAges(k), NEW h \in Key
      PROVE  intents'[h].marked = intents[h].marked
  <2>1. intents' = [intents EXCEPT ![k] = [intents[k] EXCEPT !.old = TRUE]]
    BY <1>3 DEF GrantAges, setIntent
  <2>2. intents[h] \in Intent
    BY <1>1
  <2> QED
    BY <1>1, <2>1, <2>2 DEF Intent
<1>4. CASE UNCHANGED intents
  BY <1>4
<1> QED
  BY <1>2, <1>3, <1>4
     DEF RecorderStep, applyRunCompleted, applyTriggerAccepted, applyTriggerFailed, claimExpired,
         claimAbandoned, EndMarkedLostIntent, confirmGone, seedReported, announce, takeOver

\* A step that changes no mark and starts nothing is a stutter.
LEMMA QuietPermits ==
    ASSUME MarkKept, UNCHANGED builds, \A h \in Key : intents'[h].marked = intents[h].marked
    PROVE  UNCHANGED <<Permits, Starts>>
<1>1. \A h \in Key : Permits'[h] = Permits[h]
  BY DEF Permits, MarkKept
<1>2. Permits' = Permits
  BY <1>1 DEF Permits
<1> QED
  BY <1>2 DEF Starts

\* A request that sets a mark gives a permit.
LEMMA ClaimPermits ==
    ASSUME LedgerTypeOK, MarkKept, NEW q \in Request, NEW a, handleClaim(q, a), UNCHANGED builds
    PROVE  [Abstract!Next]_<<Permits, Starts>>
<1> DEFINE k == KeyOf[q.run]
<1>1. k \in Key
  BY RequestFields
<1>2. /\ \A h \in Key : h # k => intents'[h].marked = intents[h].marked
      /\ intents'[k].marked => \/ intents[k].marked
                               \/ intents'[k].run \in Run /\ intents'[k].owner \in Instance
  BY ClaimMarksOne
<1>3. intents[k].marked \in BOOLEAN /\ (intents[k].marked => intents'[k].marked)
  BY <1>1 DEF MarkKept, LedgerTypeOK, Intent
<1> HIDE DEF k
<1>4. CASE intents[k].marked \/ ~intents'[k].marked
  <2>1. \A h \in Key : Permits'[h] = Permits[h]
    BY <1>2, <1>3, <1>4 DEF Permits, MarkKept
  <2>2. Permits' = Permits
    BY <2>1 DEF Permits
  <2> QED
    BY <2>2 DEF Starts
<1>5. CASE ~intents[k].marked /\ intents'[k].marked
  <2> DEFINE p == <<intents'[k].run, intents'[k].owner>>
  <2>1. p \in Run \X Instance
    BY <1>2, <1>5
  <2>2. Permits[k] = <<NoRun, NoInstance>> /\ Permits'[k] = p
    BY <1>1, <1>5 DEF Permits
  <2>3. \A h \in Key : h # k => Permits'[h] = Permits[h]
    BY <1>2 DEF Permits, MarkKept
  <2>4. Permits' = [Permits EXCEPT ![k] = p]
    BY <1>1, <2>2, <2>3 DEF Permits
  <2>5. UNCHANGED Starts
    BY DEF Starts
  <2> QED
    BY <1>1, <2>1, <2>2, <2>4, <2>5 DEF Abstract!Next, Abstract!Permit
<1> QED
  BY <1>4, <1>5

\* Jenkins starts a granted item: the one start of its key.
LEMMA StartIsStart ==
    ASSUME StartProtocol, ~TriggersRace, NEW i \in Instance, NEW r \in Run, Start(i, r),
           UNCHANGED intents
    PROVE  Abstract!Start(KeyOf[r])
<1> DEFINE b == [run |-> r, inst |-> i, number |-> counter[i]]
           s == [intent |-> KeyOf[r], by |-> <<r, i>>, number |-> counter[i]]
<1>1. KeyOf[r] \in Key
  BY LedgerAssumption DEF LedgerAssumption
<1>2. MarkedFor(i, r) /\ items[i][r].phase = "GRANTED"
  BY DEF Start, StartProtocol, GrantedItemIsMarked
<1>3. Permits[KeyOf[r]] = <<r, i>> /\ <<r, i>> # <<NoRun, NoInstance>>
  BY <1>1, <1>2, LedgerAssumption DEF Permits, MarkedFor, LedgerAssumption
<1>4. ASSUME NEW c \in builds, KeyOf[c.run] = KeyOf[r]
      PROVE  FALSE
  <2>1. c.run = r /\ c.inst = i
    BY <1>2, <1>4 DEF StartProtocol, StartMarkProof, MarkedFor
  <2>2. items[c.inst][c.run].phase = "NONE"
    BY DEF StartProtocol, BuildStaysHome
  <2> QED
    BY <1>2, <2>1, <2>2
<1>5. \A t \in Starts : t.intent # KeyOf[r]
  BY <1>4 DEF Starts
<1>6. builds' = builds \cup {b}
  BY DEF Start
<1>7. Starts' = Starts \cup {s}
  <2> DEFINE as(c) == [intent |-> KeyOf[c.run], by |-> <<c.run, c.inst>>, number |-> c.number]
  <2>1. Starts = {as(c) : c \in builds} /\ Starts' = {as(c) : c \in builds'}
    BY DEF Starts
  <2>2. as(b) = s
    OBVIOUS
  <2> HIDE DEF as, b, s
  <2> QED
    BY <1>6, <2>1, <2>2
<1>8. s \in Starts' \ Starts /\ s.intent = KeyOf[r] /\ s.by = Permits[KeyOf[r]]
  BY <1>3, <1>5, <1>7
<1>9. UNCHANGED Permits
  BY DEF Permits
<1> HIDE DEF s
<1> QED
  BY <1>3, <1>5, <1>7, <1>8, <1>9 DEF Abstract!Start

LEMMA StepStartsOnce ==
    ASSUME StartProtocol, ~TriggersRace, [Next]_vars
    PROVE  [Abstract!Next]_<<Permits, Starts>>
<1>1. TypeOK /\ LedgerTypeOK /\ MarkKept
  BY StepProtocol DEF StartProtocol, TypeOK
<1>2. ASSUME NEW i \in Instance, NEW r \in Run, ClaimStep(i, r)
      PROVE  [Abstract!Next]_<<Permits, Starts>>
  <2> DEFINE q == claimBody(i, r, placement.gen)
  <2>1. PICK a \in Decisions : claimOnce(i, r, a) /\ Claim(q, a)
    BY <1>2 DEF ClaimStep
  <2>2. q \in Request /\ q.kind = "claim"
    BY <1>1, PostsAreRequests DEF claimBody
  <2>3. handleClaim(q, a) /\ UNCHANGED builds
    BY <2>1, <2>2 DEF handleClaim, claimOnce
  <2> HIDE DEF q
  <2> QED
    BY <1>1, <2>2, <2>3, ClaimPermits
<1>3. ASSUME NEW i \in Instance, NEW r \in Run, MarkStep(i, r)
      PROVE  [Abstract!Next]_<<Permits, Starts>>
  <2> DEFINE q == startMarkBody(i, r, placement.gen)
  <2>1. PICK a \in Decisions : markStart(i, r, a) /\ MarkStart(q, a)
    BY <1>3 DEF MarkStep
  <2>2. q \in Request /\ q.kind = "mark"
    BY <1>1, PostsAreRequests DEF startMarkBody
  <2>3. handleClaim(q, a) /\ UNCHANGED builds
    BY <2>1, <2>2 DEF handleClaim, markStart
  <2> HIDE DEF q
  <2> QED
    BY <1>1, <2>2, <2>3, ClaimPermits
<1>4. ASSUME NEW q \in late, HandleLate(q)
      PROVE  [Abstract!Next]_<<Permits, Starts>>
  <2>1. q \in Request
    BY <1>1 DEF TypeOK, ClaimQueueTypeOK
  <2> QED
    BY <1>1, <1>4, <2>1, ClaimPermits DEF HandleLate
<1>5. CASE RecorderStep
  BY <1>1, <1>5, RecorderMarksNone, QuietPermits DEF RecorderStep, queueVars
<1>6. ASSUME NEW i \in Instance, NEW r \in Run, Start(i, r), UNCHANGED intents
      PROVE  [Abstract!Next]_<<Permits, Starts>>
  <2>1. KeyOf[r] \in Key
    BY LedgerAssumption DEF LedgerAssumption
  <2> QED
    BY <1>6, <2>1, StartIsStart DEF Abstract!Next
<1>7. CASE UNCHANGED <<intents, builds>>
  BY <1>1, <1>7, QuietPermits
<1>8. CASE PluginStep
  <2>1. UNCHANGED intents
    BY <1>8 DEF PluginStep, ledgerVars
  <2>2. UNCHANGED builds \/ \E i \in Instance, r \in Run : Start(i, r)
    BY <1>8 DEF PluginStep, Schedule, applyGrant, postTimesOut, cancel, expire, Restart
  <2> QED
    BY <1>6, <1>7, <2>1, <2>2
<1>9. CASE Rehydrate \/ UNCHANGED vars
  BY <1>7, <1>9 DEF Rehydrate, applySeed, vars, ledgerVars, queueVars
<1> QED
  BY <1>2, <1>3, <1>4, <1>5, <1>8, <1>9 DEF Next

\* The claim protocol, with its claims, moves, restarts, lost answers and late
\* requests, implements StartOnce: each intent is marked once, for one run on one
\* instance, and starts once there, as long as no repeat trigger races the start
\* of its own run in doTrigger.
THEOREM ClaimsImplementStartOnce == ASSUME ~TriggersRace PROVE Spec => StartsOnce
<1>1. Init => Abstract!Init
  BY DEF Init, LedgerInit, ClaimQueueInit, NoIntent, Abstract!Init, Permits, Starts
<1>2. StartProtocol /\ [Next]_vars => StartProtocol'
  BY StepProtocol
<1>3. StartProtocol /\ [Next]_vars => [Abstract!Next]_<<Permits, Starts>>
  BY StepStartsOnce
<1> QED
  BY <1>1, <1>2, <1>3, InitProtocol, PTL DEF Spec, StartsOnce, Abstract!Spec
=============================================================================
