------------------------ MODULE BroodOperationProofs ------------------------
(***************************************************************************)
(* Theorems about a brood operation, for any number of targets, any waves, *)
(* verbs and policies, and any bounds on toggles, stale ticks and faults.  *)
(***************************************************************************)
EXTENDS BroodOperation, FiniteSetTheorems, SequenceTheorems, WellFoundedInduction, TLAPS

\* The loop stands at a target and has a slot for it.
LoopShape == pc \in {"WRITE", "SEND"} => loop.at \in Target /\ loop.slots > 0

Typed == TypeOK /\ LoopShape

Place == {"IDLE", "FIN", "END", "TERM", "LOOP", "WRITE", "SEND", "UNFIN"}

-----------------------------------------------------------------------------
(* Values *)

\* A nonempty set of numbers has a least one.
LEMMA LeastNumber ==
    ASSUME NEW S \in SUBSET Nat, S # {}
    PROVE  \E w \in S : \A v \in S : w <= v
<1>1. PICK w \in S : \A v \in S : ~(<<v, w>> \in OpToRel(<, Nat))
  BY NatLessThanWellFounded, WFMin
<1>2. \A v \in S : ~(v < w)
  BY <1>1 DEF OpToRel
<1>3. \A v \in S : w <= v
  BY <1>2
<1> QED
  BY <1>3

\* The numbers of the model.
LEMMA Bounds ==
    /\ IsFiniteSet(Target) /\ Target = 1 .. Cardinality(Target) /\ Cardinality(Target) \in Nat
    /\ \A o \in Operation : o.maxParallel \in Nat \ {0} /\ o.wave \in [Target -> Nat]
    /\ MaxToggles \in Nat /\ MaxStale \in Nat /\ MaxFaults \in Nat
BY BroodAssumption, FS_CardinalityType DEF BroodAssumption

\* The states of targets and phases are apart.
LEMMA States ==
    /\ Running \cup Terminal \cup {"None", "Pending"} = TargetState
    /\ Running \cap Terminal = {}
    /\ "Dispatched" \in Running
    /\ {"Succeeded", "Failed", "Skipped"} = Terminal
    /\ {"None", "Pending"} \cap (Running \cup Terminal) = {}
    /\ {"Succeeded", "Failed", "Canceled"} = Final
    /\ Final \cup {"Pending", "Running", "Suspended", "GONE"} = Phase
    /\ {"Pending", "Running", "Suspended", "GONE"} \cap Final = {}
BY DEF Running, Terminal, TargetState, Final, Phase

\* The object that is not there.
LEMMA GoneObject ==
    /\ Gone \in Object
    /\ ~Gone.finalizer /\ Gone.deleting
    /\ Gone.phase = "GONE"
    /\ \A t \in Target : Gone.targets[t] = "None"
BY States DEF Gone, NoTargets, Object

\* What a copy of an object looks like after a change of its status.
LEMMA StatusChange ==
    ASSUME NEW o \in Object, NEW phase \in Phase, NEW targets \in [Target -> TargetState]
    PROVE  /\ [o EXCEPT !.targets = targets, !.phase = phase] \in Object
           /\ [o EXCEPT !.targets = targets, !.phase = phase].phase = phase
           /\ [o EXCEPT !.targets = targets, !.phase = phase].targets = targets
           /\ [o EXCEPT !.targets = targets, !.phase = phase].finalizer = o.finalizer
BY DEF Object

\* The predicate of a verb finds a target running still, or finished.
LEMMA Observed ==
    ASSUME NEW t, NEW state \in Running
    PROVE  observed(t, state) \subseteq Running \cup Terminal
BY DEF observed, Running, Terminal

\* Evaluation takes nothing back: what is pending was, what runs ran, what is finished
\* stays.
LEMMA Evaluated ==
    ASSUME NEW targets \in [Target -> TargetState], NEW f \in evaluateTargets(targets)
    PROVE  /\ f \in [Target -> TargetState]
           /\ \A t \in Target :
                 /\ f[t] = "Pending" => targets[t] = "Pending"
                 /\ f[t] \in Running => targets[t] \in Running
                 /\ targets[t] \in Terminal => f[t] = targets[t]
                 /\ targets[t] = "None" => f[t] = "None"
<1>1. f \in [Target -> TargetState] /\ \A t \in Target : f[t] \in evaluate(t, targets[t])
  BY DEF evaluateTargets
<1>2. ASSUME NEW t \in Target
      PROVE  /\ f[t] = "Pending" => targets[t] = "Pending"
             /\ f[t] \in Running => targets[t] \in Running
             /\ targets[t] \in Terminal => f[t] = targets[t]
             /\ targets[t] = "None" => f[t] = "None"
  <2>1. CASE targets[t] = "Pending"
    <3>1. f[t] \in {"Pending", "Failed"}
      BY <1>1, <2>1, States DEF evaluate
    <3> QED
      BY <2>1, <3>1, States
  <2>2. CASE targets[t] \in Running
    <3>1. f[t] \in {"Failed"} \cup observed(t, targets[t])
      BY <1>1, <2>2, States DEF evaluate
    <3>2. f[t] \in Running \cup Terminal
      BY <2>2, <3>1, Observed, States
    <3> QED
      BY <2>2, <3>2, States
  <2>3. CASE targets[t] \in Terminal \cup {"None"}
    <3>1. targets[t] # "Pending" /\ targets[t] \notin Running
      BY <2>3, States
    <3>2. f[t] \in {targets[t]}
      BY <1>1, <3>1 DEF evaluate
    <3> QED
      BY <2>3, <3>1, <3>2
  <2> QED
    BY <2>1, <2>2, <2>3, States
<1> QED
  BY <1>1, <1>2

\* The failure policies end targets and start none.
LEMMA Stopped ==
    ASSUME NEW targets \in [Target -> TargetState],
           NEW f \in {applyFailTidyPending(targets), applyFailFast(targets), afterFailure(targets)}
    PROVE  /\ f \in [Target -> TargetState]
           /\ \A t \in Target :
                 /\ f[t] # "Pending"
                 /\ f[t] \in Running => targets[t] \in Running
                 /\ targets[t] \in Terminal => f[t] = targets[t]
                 /\ targets[t] = "None" => f[t] = "None"
<1>1. f \in {applyFailTidyPending(targets), applyFailFast(targets)}
  BY DEF afterFailure
<1>2. CASE f = applyFailTidyPending(targets)
  BY <1>2, States DEF applyFailTidyPending
<1>3. CASE f = applyFailFast(targets)
  BY <1>3, States DEF applyFailFast
<1> QED
  BY <1>1, <1>2, <1>3

-----------------------------------------------------------------------------
(* The object and its writes *)

Views == {cache} \cup {events[i] : i \in 1 .. Len(events)}

LEMMA StoredObject ==
    ASSUME Typed
    PROVE  /\ Stored \in Object /\ Stored \in Views
           /\ cache \in Views /\ Views \subseteq Object
<1>1. events \in Seq(Object) /\ cache \in Object
  BY DEF Typed, TypeOK
<1>2. Len(events) \in Nat /\ \A i \in 1 .. Len(events) : events[i] \in Object
  BY <1>1, LenProperties, ElementOfSeq
<1>3. events # <<>> => Len(events) \in 1 .. Len(events)
  BY <1>1, <1>2, EmptySeq
<1> QED
  BY <1>1, <1>2, <1>3 DEF Stored, Views

\* An accepted write is the stored object.
LEMMA SeesObject ==
    ASSUME Typed, NEW obj \in Object, UpToDate, Sees(obj), cache' = cache
    PROVE  /\ events' \in Seq(Object)
           /\ Stored' = obj
           /\ Stored = cache
           /\ Views' \subseteq {cache, obj}
<1>1. CASE obj = cache
  <2>1. events' = <<>> /\ events = <<>>
    BY <1>1 DEF Sees, UpToDate
  <2> QED
    BY <1>1, <2>1, EmptySeq DEF Stored, Views
<1>2. CASE obj # cache
  <2>1. events' = <<obj>> /\ events = <<>>
    BY <1>2 DEF Sees, UpToDate
  <2>2. Len(<<obj>>) = 1 /\ <<obj>>[1] = obj /\ <<obj>> # <<>> /\ <<obj>> \in Seq(Object)
    OBVIOUS
  <2> QED
    BY <2>1, <2>2 DEF Stored, Views
<1> QED
  BY <1>1, <1>2

\* So is one that is appended by others.
LEMMA AppendedObject ==
    ASSUME Typed, NEW obj \in Object, events' = Append(events, obj), cache' = cache
    PROVE  /\ events' \in Seq(Object)
           /\ Stored' = obj
           /\ Views' \subseteq Views \cup {obj}
<1>1. events \in Seq(Object) /\ Len(events) \in Nat
  BY LenProperties DEF Typed, TypeOK
<1>2. /\ events' \in Seq(Object)
      /\ events' # <<>>
      /\ Len(events') = Len(events) + 1
      /\ \A i \in 1 .. Len(events) : events'[i] = events[i]
      /\ events'[Len(events) + 1] = obj
  BY <1>1, AppendProperties
<1>3. \A i \in 1 .. Len(events') : events'[i] = obj \/ \E j \in 1 .. Len(events) : events'[i] = events[j]
  BY <1>1, <1>2
<1> QED
  BY <1>2, <1>3 DEF Stored, Views

\* The watch shows the worker more and changes nothing.
LEMMA WatchedObject ==
    ASSUME Typed, watch
    PROVE  /\ events' \in Seq(Object) /\ cache' \in Object
           /\ Stored' = Stored
           /\ Views' \subseteq Views
<1>1. events \in Seq(Object) /\ Len(events) \in Nat /\ events # <<>>
  BY LenProperties DEF Typed, TypeOK, watch
<1>2. /\ events' = Tail(events) /\ cache' = events[1]
      /\ events' \in Seq(Object)
      /\ Len(events') = Len(events) - 1
      /\ \A i \in 1 .. Len(events') : events'[i] = events[i + 1]
  BY <1>1, HeadTailProperties DEF watch
<1>3. Len(events) > 0
  BY <1>1, EmptySeq
<1>4. cache' \in Object
  BY <1>1, <1>2, <1>3, ElementOfSeq
<1>5. CASE Len(events) = 1
  <2>1. events' = <<>>
    BY <1>2, <1>5, EmptySeq
  <2> QED
    BY <1>1, <1>2, <1>4, <1>5, <2>1, EmptySeq DEF Stored, Views
<1>6. CASE Len(events) > 1
  <2>1. events' # <<>> /\ Len(events') \in 1 .. Len(events')
    <3>1. Len(events') \in Nat /\ Len(events') > 0
      BY <1>1, <1>2, <1>6
    <3>2. events' # <<>>
      BY <3>1
    <3> QED
      BY <3>1, <3>2
  <2>2. events'[Len(events')] = events[Len(events)]
    BY <1>1, <1>2, <2>1
  <2>3. \A i \in 1 .. Len(events') : i + 1 \in 1 .. Len(events)
    BY <1>1, <1>2
  <2>4. 1 \in 1 .. Len(events)
    BY <1>1, <1>6
  <2> QED
    BY <1>1, <1>2, <1>4, <2>1, <2>2, <2>3, <2>4 DEF Stored, Views
<1>7. Len(events) = 1 \/ Len(events) > 1
  <2>1. PICK n \in Nat : n = Len(events) /\ n > 0
    BY <1>1, <1>3
  <2>2. n = 1 \/ n > 1
    BY <2>1
  <2> QED
    BY <2>1, <2>2
<1> QED
  BY <1>5, <1>6, <1>7

\* A write of the status replaces phase and targets of the stored object, or nothing.
LEMMA StatusWritten ==
    ASSUME Typed, patched \/ patchFails, cache' = cache
    PROVE  /\ events' \in Seq(Object)
           /\ faults' \in 0 .. MaxFaults
           /\ results' \in [Target -> {"none", "ok", "error"}]
           /\ \A t \in Target : results'[t] \in {results[t], "none"}
           /\ Views' \subseteq Views \cup {Stored'}
           /\ \/ Stored' = Stored
              \/ /\ Stored # Gone
                 /\ Stored'.phase = op.phase /\ Stored'.targets = op.targets
                 /\ Stored'.finalizer = Stored.finalizer
<1> DEFINE obj == withStatus
<1>1. /\ obj \in Object /\ obj.phase = op.phase /\ obj.targets = op.targets
      /\ obj.finalizer = cache.finalizer
  BY DEF Typed, TypeOK, Object, withStatus
<1>2. /\ events \in Seq(Object) /\ faults \in 0 .. MaxFaults /\ MaxFaults \in Nat
      /\ results \in [Target -> {"none", "ok", "error"}]
  BY Bounds DEF Typed, TypeOK
<1> HIDE DEF obj
<1>3. \/ UpToDate /\ Sees(obj)
      \/ UNCHANGED events
  BY DEF patched, patchFails, notWritten, unanswered, obj
<1>4. faults' \in 0 .. MaxFaults
  BY <1>2 DEF patched, patchFails, notWritten, unanswered
<1>5. /\ results' \in [Target -> {"none", "ok", "error"}]
      /\ \A t \in Target : results'[t] \in {results[t], "none"}
  BY <1>2 DEF patched, patchFails, ackGroovyResults, resultsKept
<1>6. CASE UpToDate /\ Sees(obj)
  <2>1. /\ events' \in Seq(Object) /\ Stored' = obj /\ Stored = cache
        /\ Views' \subseteq {cache, obj}
    BY <1>1, <1>6, SeesObject
  <2>2. cache # Gone /\ cache \in Views
    BY <1>6, StoredObject DEF UpToDate
  <2> QED
    BY <1>1, <1>4, <1>5, <2>1, <2>2
<1>7. CASE UNCHANGED events
  <2>1. Stored' = Stored /\ Views' = Views
    BY <1>7 DEF Stored, Views
  <2> QED
    BY <1>2, <1>4, <1>5, <1>7, <2>1
<1> QED
  BY <1>3, <1>6, <1>7

-----------------------------------------------------------------------------
(* The begin of a tick *)

LoopType == [at : 1 .. Cardinality(Target) + 1, slots : 0 .. spec.maxParallel, wave : Nat]

\* A tick reads; stale stays 0 only if it read the stored status.
Reads ==
    /\ UNCHANGED <<spec, cache, due, sent, calls, toggles>>
    /\ cache # Gone
    /\ stale' \in 0 .. MaxStale
    /\ stale' = 0 => stale = 0 /\ cache.phase = Stored.phase /\ cache.targets = Stored.targets

LEMMA GetReads ==
    ASSUME Typed, Get(TRUE)
    PROVE  Reads
<1>1. stale \in 0 .. MaxStale /\ MaxStale \in Nat
  BY Bounds DEF Typed, TypeOK
<1>2. UNCHANGED <<spec, cache, due, sent, calls, toggles>> /\ cache # Gone
  BY DEF Get
<1>3. CASE <<cache.phase, cache.targets>> # <<Stored.phase, Stored.targets>>
  BY <1>1, <1>2, <1>3 DEF Get, Reads
<1>4. CASE <<cache.phase, cache.targets>> = <<Stored.phase, Stored.targets>>
  BY <1>1, <1>2, <1>4 DEF Get, Reads
<1> QED
  BY <1>3, <1>4

\* What a tick makes of the status it read, target by target.
Decides ==
    /\ op' \in Object
    /\ op'.phase = "Pending" => cache.phase = "Pending"
    /\ cache.phase \in Final => op'.phase = cache.phase
    /\ \A t \in Target :
          /\ op'.targets[t] = "Pending" => cache.targets[t] = "Pending" \/ cache.phase = "Pending"
          /\ op'.targets[t] \in Running => cache.targets[t] \in Running
          /\ cache.phase # "Pending" /\ cache.targets[t] \in Terminal =>
                op'.targets[t] = cache.targets[t]
          /\ op'.phase = "Pending" /\ cache.targets[t] = "None" => op'.targets[t] = "None"

Drops ==
    /\ results' \in [Target -> {"none", "ok", "error"}]
    /\ \A t \in Target : results'[t] \in {results[t], "none"}

LEMMA ResultsKept ==
    ASSUME Typed, NEW drop
    PROVE  /\ resultsKept(drop) \in [Target -> {"none", "ok", "error"}]
           /\ \A t \in Target : resultsKept(drop)[t] \in {results[t], "none"}
           /\ \A t \in Target : t \in drop => resultsKept(drop)[t] = "none"
BY DEF Typed, TypeOK, resultsKept

\* A tick begins: it reads, decides and stands before its first write.
Begins ==
    /\ Reads /\ Drops
    /\ UNCHANGED <<events, faults>>
    /\ pc' \in {"FIN", "END", "TERM", "LOOP", "UNFIN"}
    /\ op' \in Object
    /\ loop' \in LoopType
    /\ pc' \in {"END", "TERM", "LOOP"} => Decides
    /\ pc' = "UNFIN" => \A t \in Target : calls[t] = 0 /\ results'[t] = "none"
    /\ pc' = "LOOP" => /\ op'.phase = "Running" /\ cache.finalizer
                       /\ ~AllTerminal(op'.targets)
                       /\ loop'.wave = currentWave(op'.targets)
                       /\ loop'.slots = IF inFlight(op'.targets) >= spec.maxParallel THEN 0
                                        ELSE spec.maxParallel - inFlight(op'.targets)

Begin ==
    \/ addFinalizer \/ reconcilePending \/ followSuspend \/ reconcileSuspended
    \/ reconcileRunning \/ reconcileDelete

\* A tick that keeps the memory and the loop as they are.
LEMMA SameMemory ==
    ASSUME Typed, UNCHANGED <<loop, results>>
    PROVE  Drops /\ loop' \in LoopType
BY DEF Typed, TypeOK, Drops, LoopType

LEMMA FinalizerBegins == ASSUME Typed, addFinalizer PROVE Begins
<1>1. Get(TRUE) /\ op' = cache /\ pc' = "FIN" /\ UNCHANGED <<events, loop, results, faults>>
  BY DEF addFinalizer, Get
<1>2. cache \in Object
  BY DEF Typed, TypeOK
<1> QED
  BY <1>1, <1>2, GetReads, SameMemory DEF Begins

LEMMA PendingBegins == ASSUME Typed, reconcilePending PROVE Begins
<1>1. /\ Get(TRUE) /\ cache.phase = "Pending" /\ pc' = "END"
      /\ UNCHANGED <<events, loop, results, faults>>
  BY DEF reconcilePending, Get, Active
<1>2. cache \in Object
  BY DEF Typed, TypeOK
<1>3. CASE op' = [cache EXCEPT !.phase = "Failed"]
  <2>1. op' \in Object /\ op'.phase = "Failed" /\ op'.targets = cache.targets
    BY <1>2, <1>3, States DEF Object
  <2>2. Decides
    BY <1>1, <2>1, States DEF Decides
  <2> QED
    BY <1>1, <2>1, <2>2, GetReads, SameMemory DEF Begins
<1>4. ASSUME NEW resolved \in ResolveTargets,
             op' = [cache EXCEPT !.targets = resolved,
                                 !.phase = IF AllTerminal(resolved) THEN "Succeeded" ELSE "Running"]
      PROVE  Begins
  <2>1. resolved \in [Target -> TargetState] /\ \A t \in Target : resolved[t] \in {"Pending", "Skipped"}
    BY States DEF ResolveTargets
  <2>2. PICK phase \in {"Succeeded", "Running"} : op' = [cache EXCEPT !.targets = resolved, !.phase = phase]
    BY <1>4
  <2>3. phase \in Phase
    BY States
  <2>4. op' \in Object /\ op'.phase = phase /\ op'.targets = resolved
    BY <1>2, <2>1, <2>2, <2>3 DEF Object
  <2>5. Decides
    BY <1>1, <2>1, <2>4, States DEF Decides
  <2> QED
    BY <1>1, <2>4, <2>5, GetReads, SameMemory DEF Begins
<1> QED
  BY <1>3, <1>4 DEF reconcilePending

LEMMA SuspendBegins == ASSUME Typed, followSuspend PROVE Begins
<1>1. /\ Get(TRUE) /\ cache.phase \in {"Running", "Suspended"} /\ pc' = "END"
      /\ UNCHANGED <<events, loop, results, faults>>
  BY DEF followSuspend, Get, Active
<1>2. cache \in Object
  BY DEF Typed, TypeOK
<1>3. PICK phase \in {"Suspended", "Running"} : op' = [cache EXCEPT !.phase = phase]
  BY DEF followSuspend
<1>4. phase \in Phase
  BY States
<1>5. op' \in Object /\ op'.phase = phase /\ op'.targets = cache.targets
  BY <1>2, <1>3, <1>4 DEF Object
<1>6. Decides
  BY <1>1, <1>5, States DEF Decides
<1> QED
  BY <1>1, <1>5, <1>6, GetReads, SameMemory DEF Begins

\* The targets a tick decides on, against those it read.
FollowsCache(targets) ==
    /\ targets \in [Target -> TargetState]
    /\ \A t \in Target :
          /\ targets[t] = "Pending" => cache.targets[t] = "Pending"
          /\ targets[t] \in Running => cache.targets[t] \in Running
          /\ cache.targets[t] \in Terminal => targets[t] = cache.targets[t]
          /\ cache.targets[t] = "None" => targets[t] = "None"

LEMMA EvaluatedFollows ==
    ASSUME Typed, NEW f \in evaluateTargets(cache.targets)
    PROVE  FollowsCache(f)
<1>1. cache.targets \in [Target -> TargetState]
  BY DEF Typed, TypeOK, Object
<1> QED
  BY <1>1, Evaluated DEF FollowsCache

LEMMA StoppedFollows ==
    ASSUME NEW targets, FollowsCache(targets),
           NEW f \in {applyFailTidyPending(targets), applyFailFast(targets), afterFailure(targets)}
    PROVE  FollowsCache(f)
BY Stopped, States DEF FollowsCache

LEMMA TerminalChecked ==
    ASSUME Typed, NEW targets, FollowsCache(targets), NEW phase \in {"Running", "Suspended"}, NEW busy,
           cache.phase = phase, checkTerminal(targets, phase, busy)
    PROVE  /\ Decides
           /\ op'.targets = targets
           /\ \/ pc' = "TERM"
              \/ pc' = busy /\ op'.phase = phase /\ ~AllTerminal(targets)
<1>1. cache \in Object
  BY DEF Typed, TypeOK
<1>2. PICK ph : /\ op' = [cache EXCEPT !.targets = targets, !.phase = ph]
                /\ ph = IF ~AllTerminal(targets) THEN phase
                        ELSE IF AnyFailed(targets) THEN "Failed" ELSE "Succeeded"
  BY DEF checkTerminal
<1>3. ph \in Phase /\ ph # "Pending" /\ (~AllTerminal(targets) => ph = phase)
  BY <1>2, States
<1>4. op' \in Object /\ op'.phase = ph /\ op'.targets = targets
  BY <1>1, <1>2, <1>3 DEF Object, FollowsCache
<1>5. pc' = IF AllTerminal(targets) THEN "TERM" ELSE busy
  BY DEF checkTerminal
<1>6. Decides
  BY <1>3, <1>4, States DEF Decides, FollowsCache
<1> QED
  BY <1>3, <1>4, <1>5, <1>6

LEMMA SuspendedBegins == ASSUME Typed, reconcileSuspended PROVE Begins
<1>1. /\ Get(TRUE) /\ cache.phase = "Suspended"
      /\ results' = resultsKept(timedOut(cache.targets))
      /\ UNCHANGED <<events, loop, faults>>
  BY DEF reconcileSuspended, Get, Active
<1>2. PICK targets \in evaluateTargets(cache.targets) : checkTerminal(targets, "Suspended", "END")
  BY DEF reconcileSuspended
<1>3. FollowsCache(targets)
  BY <1>2, EvaluatedFollows
<1>4. Decides /\ pc' \in {"TERM", "END"}
  BY <1>1, <1>2, <1>3, TerminalChecked
<1>5. Drops
  BY <1>1, ResultsKept DEF Drops
<1>6. loop' \in LoopType /\ op' \in Object
  BY <1>1, <1>4 DEF Typed, TypeOK, LoopType, Decides
<1> QED
  BY <1>1, <1>4, <1>5, <1>6, GetReads DEF Begins

\* The running targets are a finite set.
LEMMA InFlight ==
    ASSUME NEW targets
    PROVE  /\ IsFiniteSet({t \in Target : targets[t] \in Running})
           /\ inFlight(targets) \in Nat
<1>1. {t \in Target : targets[t] \in Running} \in SUBSET Target
  OBVIOUS
<1>2. IsFiniteSet({t \in Target : targets[t] \in Running})
  BY <1>1, Bounds, FS_Subset
<1> QED
  BY <1>2, FS_CardinalityType DEF inFlight

\* The current wave is the least that has a target to finish.
LEMMA CurrentWave ==
    ASSUME Typed, NEW targets, ~AllTerminal(targets)
    PROVE  /\ currentWave(targets) \in Nat
           /\ \A t \in Target : targets[t] \notin Terminal => currentWave(targets) <= spec.wave[t]
<1> DEFINE open == {spec.wave[t] : t \in {u \in Target : targets[u] \notin Terminal}}
<1>1. spec.wave \in [Target -> Nat]
  BY Bounds DEF Typed, TypeOK
<1>2. open \in SUBSET Nat /\ open # {}
  BY <1>1 DEF AllTerminal
<1>3. \E w \in open : \A v \in open : w <= v
  <2> HIDE DEF open
  <2> QED
    BY <1>2, LeastNumber
<1>4. currentWave(targets) \in open /\ \A v \in open : currentWave(targets) <= v
  <2>1. currentWave(targets) = CHOOSE w \in open : \A v \in open : w <= v
    BY DEF currentWave
  <2> HIDE DEF open
  <2> QED
    BY <1>3, <2>1
<1> QED
  BY <1>2, <1>4

LEMMA RunningBegins == ASSUME Typed, reconcileRunning PROVE Begins
<1>1. /\ Get(TRUE) /\ cache.phase = "Running" /\ cache.finalizer
      /\ results' = resultsKept(timedOut(cache.targets))
      /\ UNCHANGED <<events, faults>>
  BY DEF reconcileRunning, Get, Active
<1>2. PICK targets \in evaluateTargets(cache.targets) :
          \/ /\ checkTerminal(applyFailTidyPending(targets), "Running", "END")
             /\ UNCHANGED loop
          \/ /\ checkTerminal(IF AllTerminal(targets) THEN targets ELSE afterFailure(targets),
                              "Running", "END")
             /\ UNCHANGED loop
          \/ /\ ~AllTerminal(targets)
             /\ checkTerminal(targets, "Running", "LOOP")
             /\ loop' = [at |-> 1, wave |-> currentWave(targets),
                         slots |-> IF inFlight(targets) >= spec.maxParallel THEN 0
                                   ELSE spec.maxParallel - inFlight(targets)]
  BY DEF reconcileRunning
<1>3. FollowsCache(targets)
  BY <1>2, EvaluatedFollows
<1>4. Drops
  BY <1>1, ResultsKept DEF Drops
<1>5. ASSUME NEW f, FollowsCache(f), checkTerminal(f, "Running", "END"), UNCHANGED loop
      PROVE  Begins
  <2>1. Decides /\ pc' \in {"TERM", "END"}
    BY <1>1, <1>5, TerminalChecked
  <2>2. loop' \in LoopType /\ op' \in Object
    BY <1>1, <1>5, <2>1, GetReads DEF Typed, TypeOK, LoopType, Decides, Reads
  <2> QED
    BY <1>1, <1>4, <2>1, <2>2, GetReads DEF Begins
<1>6. FollowsCache(applyFailTidyPending(targets)) /\ FollowsCache(afterFailure(targets))
  BY <1>3, StoppedFollows
<1>7. ASSUME ~AllTerminal(targets),
             checkTerminal(targets, "Running", "LOOP"),
             loop' = [at |-> 1, wave |-> currentWave(targets),
                      slots |-> IF inFlight(targets) >= spec.maxParallel THEN 0
                                ELSE spec.maxParallel - inFlight(targets)]
      PROVE  Begins
  <2>1. /\ Decides /\ op'.targets = targets
        /\ pc' = "LOOP" /\ op'.phase = "Running"
    <3>1. pc' = "LOOP"
      BY <1>7 DEF checkTerminal
    <3> QED
      BY <1>1, <1>3, <1>7, <3>1, TerminalChecked
  <2>2. spec.maxParallel \in Nat /\ inFlight(targets) \in Nat /\ currentWave(targets) \in Nat
    BY <1>7, Bounds, InFlight, CurrentWave DEF Typed, TypeOK
  <2>3. spec' = spec
    BY <1>1 DEF Get
  <2>4. loop' \in LoopType
    BY <1>7, <2>2, Bounds DEF LoopType
  <2>5. /\ loop'.wave = currentWave(targets)
        /\ loop'.slots = IF inFlight(targets) >= spec.maxParallel THEN 0
                         ELSE spec.maxParallel - inFlight(targets)
    BY <1>7
  <2>6. op' \in Object
    BY <2>1 DEF Decides
  <2> QED
    BY <1>1, <1>4, <1>7, <2>1, <2>4, <2>5, <2>6, GetReads DEF Begins
<1> QED
  BY <1>2, <1>3, <1>5, <1>6, <1>7

LEMMA DeleteBegins == ASSUME Typed, reconcileDelete PROVE Begins
<1>1. Get(TRUE) /\ UNCHANGED <<events, loop, faults>>
  BY DEF reconcileDelete, Get
<1>2. PICK evaluated \in evaluateTargets(cache.targets) :
         LET targets == applyFailTidyPending(evaluated)
             busy == settling(targets)
         IN /\ op' = [cache EXCEPT !.targets = targets, !.phase = IF busy THEN @ ELSE "Canceled"]
            /\ pc' = IF busy THEN "END" ELSE "UNFIN"
            /\ results' = IF busy THEN resultsKept(timedOut(cache.targets))
                          ELSE resultsKept(Target)
  BY DEF reconcileDelete
<1> DEFINE targets == applyFailTidyPending(evaluated)
<1> HIDE DEF targets
<1>3. FollowsCache(targets)
  BY <1>2, EvaluatedFollows, StoppedFollows DEF targets
<1>4. cache \in Object /\ loop' \in LoopType /\ calls \in [Target -> Nat]
  BY <1>1 DEF Typed, TypeOK, LoopType, Get
<1>5. CASE settling(targets)
  <2>1. op' = [cache EXCEPT !.targets = targets, !.phase = cache.phase] /\ pc' = "END"
    BY <1>2, <1>4, <1>5 DEF Object, targets
  <2>2. op' \in Object /\ op'.phase = cache.phase /\ op'.targets = targets
    BY <1>3, <1>4, <2>1 DEF Object, FollowsCache
  <2>3. Decides
    BY <1>3, <2>2 DEF Decides, FollowsCache
  <2>4. Drops
    BY <1>2, <1>5, ResultsKept DEF Drops, targets
  <2> QED
    BY <1>1, <1>4, <2>1, <2>2, <2>3, <2>4, GetReads DEF Begins
<1>6. CASE ~settling(targets)
  <2>1. op' \in Object
    <3>1. op' = [cache EXCEPT !.targets = targets, !.phase = "Canceled"]
      BY <1>2, <1>6 DEF targets
    <3> QED
      BY <1>3, <1>4, <3>1, States DEF Object, FollowsCache
  <2>2. \A t \in Target : calls[t] = 0
    <3>1. \A t \in Target : ~(calls[t] > 0) /\ calls[t] \in Nat
      BY <1>4, <1>6 DEF settling
    <3> QED
      BY <3>1
  <2>3. Drops /\ \A t \in Target : results'[t] = "none"
    BY <1>2, <1>6, ResultsKept DEF Drops, targets
  <2>4. pc' = "UNFIN"
    BY <1>2, <1>6 DEF targets
  <2> QED
    BY <1>1, <1>4, <2>1, <2>2, <2>3, <2>4, GetReads DEF Begins
<1> QED
  BY <1>5, <1>6

LEMMA TickBegins ==
    ASSUME Typed, Begin
    PROVE  Begins /\ Typed'
<1>1. Begins
  BY FinalizerBegins, PendingBegins, SuspendBegins, SuspendedBegins, RunningBegins, DeleteBegins
     DEF Begin
<1>2. LoopType' = LoopType
  BY <1>1 DEF Begins, Reads, LoopType
<1>3. TypeOK'
  BY <1>1, <1>2 DEF Begins, Reads, Drops, Typed, TypeOK, LoopType
<1>4. LoopShape'
  BY <1>1 DEF Begins, LoopShape
<1> QED
  BY <1>1, <1>3, <1>4 DEF Typed

-----------------------------------------------------------------------------
(* The other steps *)

\* The object that others see keeps its status and its finalizer.
SameObject ==
    /\ Stored'.phase = Stored.phase /\ Stored'.targets = Stored.targets
    /\ Stored'.finalizer = Stored.finalizer
    /\ Stored = Gone => Stored' = Gone

LEMMA TickEnds ==
    ASSUME Typed, Done, spec' = spec
    PROVE  /\ pc' = "IDLE" /\ op' \in Object
           /\ loop' \in LoopType' /\ LoopShape'
<1>1. NoLoop \in LoopType' /\ Gone \in Object
  BY Bounds, GoneObject DEF NoLoop, LoopType, Typed, TypeOK
<1> QED
  BY <1>1 DEF Done, LoopShape

\* A failed or refused write.
LEMMA NotWritten ==
    ASSUME Typed, notWritten, cache' = cache
    PROVE  /\ events' \in Seq(Object) /\ faults' \in 0 .. MaxFaults
           /\ Stored' = Stored /\ Views' = Views
BY Bounds DEF Typed, TypeOK, notWritten, Stored, Views

LEMMA FinalizerStep ==
    ASSUME Typed, writeFinalizer
    PROVE  /\ Typed' /\ pc = "FIN" /\ pc' = "IDLE"
           /\ UNCHANGED <<calls, results, sent, stale>>
           /\ Views' \subseteq Views \cup {Stored'}
           /\ Stored'.phase = Stored.phase /\ Stored'.targets = Stored.targets
           /\ Stored' = Stored \/ (Stored # Gone /\ Stored'.finalizer)
<1>1. /\ Done /\ pc = "FIN"
      /\ UNCHANGED <<spec, cache, toggles, stale, calls, results, due, sent>>
  BY DEF writeFinalizer, tickVars, groovyVars
<1> DEFINE obj == [cache EXCEPT !.finalizer = TRUE]
<1>2. cache \in Object
  BY DEF Typed, TypeOK
<1>3. obj \in Object /\ obj.finalizer /\ obj.phase = cache.phase /\ obj.targets = cache.targets
  BY <1>2 DEF Object
<1>4. \/ UpToDate /\ Sees(obj) /\ faults' \in 0 .. MaxFaults
      \/ notWritten
  BY Bounds DEF writeFinalizer, unanswered, Typed, TypeOK
<1> HIDE DEF obj
<1>5. /\ events' \in Seq(Object) /\ faults' \in 0 .. MaxFaults
      /\ Views' \subseteq Views \cup {Stored'}
      /\ Stored'.phase = Stored.phase /\ Stored'.targets = Stored.targets
      /\ Stored' = Stored \/ (Stored # Gone /\ Stored'.finalizer)
  <2>1. CASE UpToDate /\ Sees(obj) /\ faults' \in 0 .. MaxFaults
    BY <1>1, <1>3, <2>1, SeesObject, StoredObject DEF UpToDate
  <2>2. CASE notWritten
    BY <1>1, <2>2, NotWritten
  <2> QED
    BY <1>4, <2>1, <2>2
<1>6. Typed'
  BY <1>1, <1>2, <1>5, TickEnds DEF Typed, TypeOK, LoopType
<1> QED
  BY <1>1, <1>5, <1>6, TickEnds

LEMMA RemoveStep ==
    ASSUME Typed, removeFinalizer
    PROVE  /\ Typed' /\ pc = "UNFIN" /\ pc' = "IDLE"
           /\ UNCHANGED <<calls, results, sent, stale>>
           /\ Views' \subseteq Views \cup {Stored'}
           /\ Stored' \in {Stored, Gone}
<1>1. /\ Done /\ pc = "UNFIN"
      /\ UNCHANGED <<spec, cache, toggles, stale, calls, results, due, sent>>
  BY DEF removeFinalizer, tickVars, groovyVars
<1>2. cache \in Object
  BY DEF Typed, TypeOK
<1>3. \/ UpToDate /\ Sees(Gone) /\ faults' \in 0 .. MaxFaults
      \/ notWritten
  BY Bounds DEF removeFinalizer, unanswered, Typed, TypeOK, Sees, UpToDate
<1>4. /\ events' \in Seq(Object) /\ faults' \in 0 .. MaxFaults
      /\ Views' \subseteq Views \cup {Stored'}
      /\ Stored' \in {Stored, Gone}
  <2>1. CASE UpToDate /\ Sees(Gone) /\ faults' \in 0 .. MaxFaults
    BY <1>1, <2>1, SeesObject, StoredObject, GoneObject
  <2>2. CASE notWritten
    BY <1>1, <2>2, NotWritten
  <2> QED
    BY <1>3, <2>1, <2>2
<1>5. Typed'
  BY <1>1, <1>2, <1>4, TickEnds DEF Typed, TypeOK, LoopType
<1> QED
  BY <1>1, <1>4, <1>5, TickEnds

\* The status is written, or it is not.
Writes ==
    /\ Views' \subseteq Views \cup {Stored'}
    /\ \/ Stored' = Stored
       \/ /\ Stored # Gone
          /\ Stored'.phase = op.phase /\ Stored'.targets = op.targets
          /\ Stored'.finalizer = Stored.finalizer

LEMMA StatusStep ==
    ASSUME Typed, writeTerminal \/ writeStatus
    PROVE  /\ Typed' /\ Writes /\ Drops
           /\ pc \in {"TERM", "END"}
           /\ pc' = "IDLE" \/ (pc' = "END" /\ op' = op)
           /\ UNCHANGED <<calls, sent, stale>>
<1>1. /\ pc \in {"TERM", "END"} /\ (patched \/ patchFails)
      /\ (Done \/ (pc' = "END" /\ UNCHANGED <<op, loop>>))
      /\ UNCHANGED <<spec, cache, toggles, stale, calls, due, sent>>
  BY DEF writeTerminal, writeStatus, tickVars
<1>2. /\ Writes /\ Drops /\ events' \in Seq(Object) /\ faults' \in 0 .. MaxFaults
  BY <1>1, StatusWritten DEF Writes, Drops
<1>3. pc' \in Place /\ op' \in Object /\ loop' \in LoopType' /\ LoopShape'
  <2>1. CASE Done
    BY <1>1, <2>1, TickEnds DEF Place
  <2>2. CASE pc' = "END" /\ UNCHANGED <<op, loop>>
    BY <1>1, <2>2 DEF Place, Typed, TypeOK, LoopType, LoopShape
  <2> QED
    BY <1>1, <2>1, <2>2
<1>4. Typed'
  BY <1>1, <1>2, <1>3 DEF Typed, TypeOK, LoopType, Place, Drops
<1> QED
  BY <1>1, <1>2, <1>4 DEF Done

\* A step inside the loop that touches neither the object nor the memory.
Inside == UNCHANGED <<spec, cache, events, calls, results, due, sent, toggles, stale>>

LEMMA InsideObject ==
    ASSUME Inside
    PROVE  Stored' = Stored /\ Views' = Views
BY DEF Inside, Stored, Views

LEMMA LoopEnds ==
    ASSUME Typed, dispatchEnds
    PROVE  /\ Typed' /\ Inside
           /\ pc = "LOOP" /\ pc' \in {"TERM", "END"}
           /\ op'.targets = op.targets
           /\ op'.phase = op.phase \/ op'.phase \in Final
<1>1. pc = "LOOP" /\ Inside /\ faults' = faults /\ loop' = NoLoop /\ pc' \in {"TERM", "END"}
  BY DEF dispatchEnds, Inside, tickVars, groovyVars
<1>2. op \in Object
  BY DEF Typed, TypeOK
<1>3. PICK phase \in {op.phase, "Failed", "Succeeded"} : op' = [op EXCEPT !.phase = phase]
  <2>1. op' = [op EXCEPT !.phase = IF ~AllTerminal(op.targets) THEN op.phase
                                   ELSE IF AnyFailed(op.targets) THEN "Failed" ELSE "Succeeded"]
    BY <1>2 DEF dispatchEnds, Object
  <2> QED
    BY <2>1
<1>4. phase \in Phase
  BY <1>2, States DEF Object
<1>5. op' \in Object /\ op'.targets = op.targets /\ op'.phase = phase
  BY <1>2, <1>3, <1>4 DEF Object
<1>6. NoLoop \in LoopType'
  BY <1>1, Bounds DEF NoLoop, LoopType, Typed, TypeOK, Inside
<1>7. Typed'
  BY <1>1, <1>5, <1>6 DEF Typed, TypeOK, LoopType, LoopShape, Inside
<1> QED
  BY <1>1, <1>5, <1>7, States

\* The loop goes to the next pending target it may reach, and marks it, fails it or
\* leaves it.
LEMMA LoopGoesOn ==
    ASSUME Typed, dispatchNext
    PROVE  /\ Typed' /\ Inside
           /\ pc = "LOOP" /\ loop.slots > 0
           /\ loop'.slots = loop.slots /\ loop'.wave = loop.wave
           /\ \E t \in Target :
                 /\ op.targets[t] = "Pending" /\ spec.wave[t] <= loop.wave
                 /\ \/ /\ pc' = "WRITE" /\ loop'.at = t
                       /\ op' = [op EXCEPT !.targets[t] = "Dispatched"]
                    \/ /\ pc' = "LOOP"
                       /\ op' \in {op, [op EXCEPT !.targets[t] = "Failed"]}
<1>1. pc = "LOOP" /\ Inside /\ loop.slots > 0 /\ reachable # {}
  BY DEF dispatchNext, Inside, tickVars, groovyVars, slotFree
<1>2. op \in Object /\ loop \in LoopType /\ faults \in 0 .. MaxFaults
  BY DEF Typed, TypeOK, LoopType
<1> DEFINE t == CHOOSE u \in reachable : \A v \in reachable : u <= v
<1>3. reachable \in SUBSET Target /\ reachable \in SUBSET Nat
  BY Bounds DEF reachable
<1>4. t \in reachable
  <2>1. \E u \in reachable : \A v \in reachable : u <= v
    BY <1>1, <1>3, LeastNumber
  <2> QED
    BY <2>1
<1>5. \/ /\ op' = [op EXCEPT !.targets[t] = "Dispatched"]
         /\ pc' = "WRITE"
         /\ loop' = [loop EXCEPT !.at = t]
         /\ UNCHANGED faults
      \/ /\ op' \in {op, [op EXCEPT !.targets[t] = "Failed"]}
         /\ pc' = "LOOP"
         /\ loop' = [loop EXCEPT !.at = t + 1]
         /\ faults' \in 0 .. MaxFaults
  BY <1>1, <1>2, Bounds DEF dispatchNext
<1> HIDE DEF t
<1>6. t \in Target /\ op.targets[t] = "Pending" /\ spec.wave[t] <= loop.wave
  BY <1>4 DEF reachable
<1>7. t \in 1 .. Cardinality(Target) + 1 /\ t + 1 \in 1 .. Cardinality(Target) + 1
  BY <1>6, Bounds
<1>8. /\ op' \in Object
  BY <1>2, <1>5, <1>6, States DEF Object
<1>9. loop' \in LoopType /\ loop'.slots = loop.slots /\ loop'.wave = loop.wave
  BY <1>2, <1>5, <1>7 DEF LoopType
<1>10. pc' = "WRITE" => loop'.at = t
  BY <1>2, <1>5 DEF LoopType
<1>11. faults' \in 0 .. MaxFaults /\ pc' \in {"WRITE", "LOOP"}
  BY <1>2, <1>5
<1>12. TypeOK'
  BY <1>1, <1>8, <1>9, <1>11 DEF Typed, TypeOK, LoopType, Inside
<1>13. LoopShape'
  BY <1>1, <1>6, <1>9, <1>10, <1>11 DEF LoopShape
<1> QED
  BY <1>1, <1>5, <1>6, <1>9, <1>10, <1>12, <1>13 DEF Typed

\* An acknowledged write is the tick's status.
LEMMA PatchedStatus ==
    ASSUME Typed, patched, cache' = cache
    PROVE  /\ Stored # Gone
           /\ Stored'.phase = op.phase /\ Stored'.targets = op.targets
           /\ Stored'.finalizer = Stored.finalizer
<1>1. /\ withStatus \in Object /\ withStatus.phase = op.phase /\ withStatus.targets = op.targets
      /\ withStatus.finalizer = cache.finalizer
  BY DEF Typed, TypeOK, Object, withStatus
<1>2. Stored' = withStatus /\ Stored = cache /\ cache # Gone
  BY <1>1, SeesObject DEF patched, UpToDate
<1> QED
  BY <1>1, <1>2

\* The mark is written before the command is sent, or taken back.
LEMMA MarkStep ==
    ASSUME Typed, writeDispatched
    PROVE  /\ Typed' /\ Writes /\ Drops
           /\ pc = "WRITE" /\ loop.at \in Target
           /\ UNCHANGED <<spec, calls, sent, stale>>
           /\ \/ /\ pc' = "SEND" /\ op' = op /\ loop' = loop
                 /\ Stored # Gone
                 /\ Stored'.phase = op.phase /\ Stored'.targets = op.targets
                 /\ Stored'.finalizer = Stored.finalizer
              \/ pc' = "END" /\ op' = [op EXCEPT !.targets[loop.at] = "Pending"]
<1>1. /\ pc = "WRITE" /\ (patched \/ patchFails)
      /\ due' = due \ {loop.at}
      /\ UNCHANGED <<spec, cache, toggles, stale, calls, sent>>
  BY DEF writeDispatched, tickVars
<1>2. /\ Writes /\ Drops /\ events' \in Seq(Object) /\ faults' \in 0 .. MaxFaults
  BY <1>1, StatusWritten DEF Writes, Drops
<1>3. loop.at \in Target /\ op \in Object /\ loop \in LoopType /\ loop.slots > 0
  BY <1>1 DEF Typed, TypeOK, LoopType, LoopShape
<1>4. \/ patched /\ pc' = "SEND" /\ op' = op /\ loop' = loop
      \/ /\ pc' = "END" /\ loop' = NoLoop
         /\ op' = [op EXCEPT !.targets[loop.at] = "Pending"]
  BY DEF writeDispatched
<1>5. NoLoop \in LoopType
  BY Bounds DEF NoLoop, LoopType, Typed, TypeOK
<1>6. op' \in Object /\ loop' \in LoopType /\ LoopType' = LoopType
  BY <1>1, <1>3, <1>4, <1>5, States DEF Object, LoopType
<1>7. TypeOK'
  BY <1>1, <1>2, <1>4, <1>6 DEF Typed, TypeOK, LoopType, Drops
<1>8. LoopShape'
  BY <1>3, <1>4 DEF LoopShape
<1> QED
  BY <1>1, <1>2, <1>3, <1>4, <1>7, <1>8, PatchedStatus DEF Typed

\* The command is sent, or is lost, or the upgrade ends at once.
LEMMA SendStep ==
    ASSUME Typed, dispatchTarget
    PROVE  /\ Typed'
           /\ pc = "SEND" /\ pc' = "LOOP" /\ loop.at \in Target
           /\ UNCHANGED <<spec, cache, events, results, stale>>
           /\ loop'.wave = loop.wave /\ loop'.slots = loop.slots - 1
           /\ \/ /\ op' = op
                 /\ sent' = [sent EXCEPT ![loop.at] = IF @ < 2 THEN @ + 1 ELSE @]
              \/ /\ sent' = sent /\ calls' = calls
                 /\ \/ op' = op
                    \/ \E state \in {"Succeeded", "Failed"} :
                          op' = [op EXCEPT !.targets[loop.at] = state]
<1>1. /\ pc = "SEND" /\ pc' = "LOOP"
      /\ loop' = [loop EXCEPT !.at = @ + 1, !.slots = @ - 1]
      /\ UNCHANGED <<spec, cache, events, results, due, toggles, stale, faults>>
  BY DEF dispatchTarget, tickVars
<1>2. /\ loop.at \in Target /\ op \in Object /\ loop \in LoopType /\ loop.slots > 0
      /\ sent \in [Target -> 0 .. 2] /\ calls \in [Target -> Nat] /\ spec.maxParallel \in Nat
  BY <1>1, Bounds DEF Typed, TypeOK, LoopType, LoopShape
<1>3. /\ loop'.wave = loop.wave /\ loop'.slots = loop.slots - 1 /\ loop' \in LoopType
  <2>1. loop.at + 1 \in 1 .. Cardinality(Target) + 1
    BY <1>2, Bounds
  <2>2. loop.slots \in 0 .. spec.maxParallel
    BY <1>2 DEF LoopType
  <2>3. loop.slots - 1 \in 0 .. spec.maxParallel
    BY <1>2, <2>2
  <2> QED
    BY <1>1, <1>2, <2>1, <2>3 DEF LoopType
<1>4. \/ command(loop.at)
      \/ UNCHANGED <<sent, calls, op>>
      \/ dispatchUpgrade(loop.at)
  BY DEF dispatchTarget
<1>5. \/ /\ op' = op /\ calls' \in [Target -> Nat]
         /\ sent' = [sent EXCEPT ![loop.at] = IF @ < 2 THEN @ + 1 ELSE @]
      \/ /\ sent' = sent /\ calls' = calls
         /\ \/ op' = op
            \/ \E state \in {"Succeeded", "Failed"} :
                  op' = [op EXCEPT !.targets[loop.at] = state]
  BY <1>2, <1>4 DEF command, dispatchUpgrade
<1>6. op' \in Object /\ calls' \in [Target -> Nat]
  BY <1>2, <1>5, States DEF Object
<1>7. sent' \in [Target -> 0 .. 2]
  BY <1>2, <1>5
<1>8. TypeOK'
  BY <1>1, <1>3, <1>6, <1>7 DEF Typed, TypeOK, LoopType
<1>9. LoopShape'
  BY <1>1 DEF LoopShape
<1> QED
  BY <1>1, <1>2, <1>3, <1>5, <1>8, <1>9 DEF Typed

\* The time to live deletes; the worker stays where it is.
LEMMA TerminalStep ==
    ASSUME Typed, reconcileTerminal
    PROVE  /\ Typed' /\ Reads /\ SameObject
           /\ pc = "IDLE" /\ UNCHANGED <<op, pc, loop, results>>
           /\ Views' \subseteq Views \cup {Stored'}
<1>1. Get(TRUE) /\ pc = "IDLE" /\ UNCHANGED <<op, pc, loop, results>>
  BY DEF reconcileTerminal, Get
<1>2. Reads
  BY <1>1, GetReads
<1>3. /\ \/ UNCHANGED events
         \/ ~Stored.deleting /\ events' = Append(events, [Stored EXCEPT !.deleting = TRUE])
      /\ faults' \in 0 .. MaxFaults
  BY Bounds DEF reconcileTerminal, Typed, TypeOK
<1>4. CASE UNCHANGED events
  <2>1. Stored' = Stored /\ Views' = Views
    BY <1>2, <1>4 DEF Reads, Stored, Views
  <2>2. Typed'
    BY <1>1, <1>2, <1>3, <1>4 DEF Typed, TypeOK, LoopShape, Reads
  <2> QED
    BY <1>1, <1>2, <2>1, <2>2 DEF SameObject
<1>5. CASE ~Stored.deleting /\ events' = Append(events, [Stored EXCEPT !.deleting = TRUE])
  <2> DEFINE obj == [Stored EXCEPT !.deleting = TRUE]
  <2>1. Stored \in Object
    BY StoredObject
  <2>2. /\ obj \in Object /\ obj.phase = Stored.phase /\ obj.targets = Stored.targets
        /\ obj.finalizer = Stored.finalizer
    BY <2>1 DEF Object
  <2>3. Stored # Gone
    BY <1>5, GoneObject
  <2> HIDE DEF obj
  <2>4. events' \in Seq(Object) /\ Stored' = obj /\ Views' \subseteq Views \cup {obj}
    <3>1. events' = Append(events, obj) /\ cache' = cache
      BY <1>2, <1>5 DEF obj, Reads
    <3> QED
      BY <2>2, <3>1, AppendedObject
  <2>5. Typed'
    BY <1>1, <1>2, <1>3, <2>4 DEF Typed, TypeOK, LoopShape, Reads
  <2> QED
    BY <1>1, <1>2, <2>2, <2>3, <2>4, <2>5 DEF SameObject
<1> QED
  BY <1>3, <1>4, <1>5

\* The informer, the goroutines, time and the users.
Other ==
    \/ watch \/ toggleSuspend \/ cancel
    \/ \E t \in Target : groovyEnds(t) \/ timeout(t)

LEMMA OtherStep ==
    ASSUME Typed, Other
    PROVE  /\ Typed'
           /\ UNCHANGED <<spec, op, pc, loop, sent, stale>>
           /\ Views' \subseteq Views \cup {Stored'}
           /\ SameObject \/ (Stored' = Gone /\ ~Stored.finalizer)
           /\ UNCHANGED <<calls, results>> \/ \E t \in Target : calls[t] > 0
<1>1. UNCHANGED <<spec, op, pc, loop, sent, stale>>
  BY DEF Other, watch, toggleSuspend, cancel, groovyEnds, timeout, boundVars
<1>2. Stored \in Object
  BY StoredObject
<1>3. CASE watch
  <2>1. UNCHANGED <<due, faults, toggles, calls, results>>
    BY <1>3 DEF watch, boundVars, groovyVars
  <2>2. Typed'
    BY <1>1, <1>3, <2>1, WatchedObject DEF Typed, TypeOK, LoopShape
  <2> QED
    BY <1>1, <1>3, <2>1, <2>2, WatchedObject DEF SameObject
<1>4. CASE toggleSuspend
  <2> DEFINE obj == [Stored EXCEPT !.suspend = ~@]
  <2>1. /\ obj \in Object /\ obj.phase = Stored.phase /\ obj.targets = Stored.targets
        /\ obj.finalizer = Stored.finalizer
    BY <1>2 DEF Object
  <2>2. /\ events' = Append(events, obj) /\ Stored # Gone
        /\ UNCHANGED <<cache, due, faults, calls, results>>
        /\ toggles' \in 0 .. MaxToggles
    BY <1>4, Bounds DEF toggleSuspend, groovyVars, Typed, TypeOK
  <2> HIDE DEF obj
  <2>3. events' \in Seq(Object) /\ Stored' = obj /\ Views' \subseteq Views \cup {obj}
    BY <2>1, <2>2, AppendedObject
  <2>4. Typed'
    BY <1>1, <2>2, <2>3 DEF Typed, TypeOK, LoopShape
  <2> QED
    BY <1>1, <2>1, <2>2, <2>3, <2>4 DEF SameObject
<1>5. CASE cancel
  <2> DEFINE obj == IF Stored.finalizer THEN [Stored EXCEPT !.deleting = TRUE] ELSE Gone
  <2>1. /\ obj \in Object
        /\ \/ /\ obj.phase = Stored.phase /\ obj.targets = Stored.targets
              /\ obj.finalizer = Stored.finalizer
           \/ obj = Gone /\ ~Stored.finalizer
    BY <1>2, GoneObject DEF Object
  <2>2. /\ events' = Append(events, obj) /\ Stored # Gone
        /\ UNCHANGED <<cache, due, faults, calls, results, toggles>>
    BY <1>5 DEF cancel, groovyVars, boundVars
  <2> HIDE DEF obj
  <2>3. events' \in Seq(Object) /\ Stored' = obj /\ Views' \subseteq Views \cup {obj}
    BY <2>1, <2>2, AppendedObject
  <2>4. Typed'
    BY <1>1, <2>2, <2>3 DEF Typed, TypeOK, LoopShape
  <2> QED
    BY <1>1, <2>1, <2>2, <2>3, <2>4 DEF SameObject
<1>6. ASSUME NEW t \in Target, groovyEnds(t) \/ timeout(t)
      PROVE  /\ Typed'
             /\ Views' \subseteq Views \cup {Stored'}
             /\ SameObject
             /\ UNCHANGED <<calls, results>> \/ calls[t] > 0
  <2>1. UNCHANGED <<cache, events, faults, toggles>>
    BY <1>6 DEF groovyEnds, timeout, boundVars
  <2>2. Stored' = Stored /\ Views' = Views
    BY <2>1 DEF Stored, Views
  <2>3. UNCHANGED <<calls, results>> \/ calls[t] > 0
    BY <1>6 DEF groovyEnds, timeout, groovyVars
  <2>4. due' \subseteq Target
    BY <1>6 DEF groovyEnds, timeout, Typed, TypeOK
  <2>5. calls' \in [Target -> Nat]
    BY <1>6 DEF groovyEnds, timeout, groovyVars, Typed, TypeOK
  <2>6. results' \in [Target -> {"none", "ok", "error"}]
    BY <1>6 DEF groovyEnds, timeout, groovyVars, Typed, TypeOK
  <2>7. Typed'
    BY <1>1, <2>1, <2>4, <2>5, <2>6 DEF Typed, TypeOK, LoopShape
  <2> QED
    BY <2>2, <2>3, <2>7 DEF SameObject
<1> QED
  BY <1>1, <1>3, <1>4, <1>5, <1>6 DEF Other

LEMMA CrashStep ==
    ASSUME Typed, crash
    PROVE  /\ Typed' /\ pc' = "IDLE"
           /\ Stored' = Stored /\ Views' \subseteq {Stored'}
           /\ \A t \in Target : calls'[t] = 0 /\ results'[t] = "none"
           /\ UNCHANGED <<sent, stale>>
<1>1. /\ Done /\ UNCHANGED <<spec, due, sent, toggles, stale>>
      /\ cache' = Stored /\ events' = <<>>
      /\ calls' = [t \in Target |-> 0] /\ results' = [t \in Target |-> "none"]
      /\ faults' \in 0 .. MaxFaults
  BY Bounds DEF crash, Typed, TypeOK
<1>2. Stored' = Stored /\ Views' \subseteq {Stored'}
  BY <1>1, EmptySeq DEF Stored, Views
<1>3. cache' \in Object /\ events' \in Seq(Object)
  BY <1>1, StoredObject, EmptySeq
<1>4. calls' \in [Target -> Nat] /\ results' \in [Target -> {"none", "ok", "error"}]
  BY <1>1
<1>5. Typed'
  BY <1>1, <1>3, <1>4, TickEnds DEF Typed, TypeOK, LoopType
<1> QED
  BY <1>1, <1>2, <1>5, TickEnds

\* Every step is one of these.
LEMMA Steps ==
    ASSUME Next
    PROVE  \/ Begin \/ writeFinalizer \/ removeFinalizer \/ writeTerminal \/ writeStatus
           \/ dispatchEnds \/ dispatchNext \/ writeDispatched \/ dispatchTarget
           \/ reconcileTerminal \/ Other \/ crash
BY DEF Next, Reconcile, Begin, Other

LEMMA TypedInit == Init => Typed
<1> SUFFICES ASSUME Init
             PROVE  Typed
  OBVIOUS
<1>1. cache \in Object
  BY States DEF Init, Object, NoTargets
<1>2. loop \in LoopType /\ op \in Object /\ events \in Seq(Object)
  BY Bounds, GoneObject, EmptySeq DEF Init, NoLoop, LoopType
<1> QED
  BY <1>1, <1>2, Bounds DEF Init, Typed, TypeOK, LoopShape, LoopType

LEMMA TypedKept ==
    ASSUME Typed, [Next]_vars
    PROVE  Typed'
<1>1. CASE Next
  BY <1>1, Steps, TickBegins, FinalizerStep, RemoveStep, StatusStep, LoopEnds, LoopGoesOn, MarkStep,
     SendStep, TerminalStep, OtherStep, CrashStep
<1>2. CASE UNCHANGED vars
  BY <1>2 DEF vars, Typed, TypeOK, LoopShape
<1> QED
  BY <1>1, <1>2

\* The types of the operation: in particular the loop stays within the snapshot and
\* gives out no slot it does not have, whatever the waves and maxParallel are.
THEOREM BroodTypeCorrect == Spec => []TypeOK
<1>1. Spec => []Typed
  BY TypedInit, TypedKept, PTL DEF Spec
<1> QED
  BY <1>1, PTL DEF Typed

-----------------------------------------------------------------------------
(* Nothing is left behind *)

NothingHeld == \A t \in Target : calls[t] = 0 /\ results[t] = "none"

\* The finalizer guards the memory.  The operator acts on copies of the object, so the
\* guard has to be carried from the copy, through the loop, to the send.
Tidy ==
    /\ ~Stored.finalizer => NothingHeld
    /\ pc = "UNFIN" => NothingHeld
    /\ \A o \in Views : o.finalizer => Stored.finalizer \/ Stored = Gone
    /\ pc \in {"LOOP", "WRITE"} => Stored.finalizer \/ Stored = Gone
    /\ pc = "SEND" => Stored.finalizer

LEMMA TidyInit == Init => Tidy
BY EmptySeq DEF Init, Tidy, NothingHeld, Stored, Views

\* Results that are dropped leave nothing.
LEMMA DropsHold ==
    ASSUME Drops, UNCHANGED calls, NothingHeld
    PROVE  NothingHeld'
BY DEF Drops, NothingHeld

\* The views of a step that keeps the finalizer.
LEMMA FinalizerKept ==
    ASSUME Tidy, Views' \subseteq Views \cup {Stored'},
           Stored'.finalizer = Stored.finalizer, Stored = Gone => Stored' = Gone
    PROVE  \A o \in Views' : o.finalizer => Stored'.finalizer \/ Stored' = Gone
BY DEF Tidy

LEMMA TidyKept ==
    ASSUME Typed, Tidy, [Next]_vars
    PROVE  Tidy'
<1>1. CASE Begin
  <2>1. Begins
    BY <1>1, TickBegins
  <2>2. Stored' = Stored /\ Views' = Views
    BY <2>1 DEF Begins, Reads, Stored, Views
  <2>3. NothingHeld => NothingHeld'
    BY <2>1, DropsHold DEF Begins, Reads
  <2>4. pc' = "UNFIN" => NothingHeld'
    BY <2>1 DEF Begins, Reads, NothingHeld
  <2>5. pc' = "LOOP" => Stored.finalizer \/ Stored = Gone
    <3>1. pc' = "LOOP" => cache.finalizer
      BY <2>1 DEF Begins
    <3>2. cache \in Views
      BY DEF Views
    <3> QED
      BY <3>1, <3>2 DEF Tidy
  <2>6. pc' \notin {"WRITE", "SEND"}
    BY <2>1 DEF Begins
  <2> QED
    BY <2>2, <2>3, <2>4, <2>5, <2>6 DEF Tidy
<1>2. CASE writeFinalizer
  <2>1. /\ pc' = "IDLE" /\ UNCHANGED <<calls, results>>
        /\ Views' \subseteq Views \cup {Stored'} /\ (Stored' = Stored \/ Stored'.finalizer)
    BY <1>2, FinalizerStep
  <2>2. NothingHeld' = NothingHeld
    BY <2>1 DEF NothingHeld
  <2> QED
    BY <2>1, <2>2 DEF Tidy
<1>3. CASE removeFinalizer
  <2>1. /\ pc = "UNFIN" /\ pc' = "IDLE" /\ UNCHANGED <<calls, results>>
        /\ Views' \subseteq Views \cup {Stored'} /\ Stored' \in {Stored, Gone}
    BY <1>3, RemoveStep
  <2>2. NothingHeld'
    BY <2>1 DEF NothingHeld, Tidy
  <2> QED
    BY <2>1, <2>2 DEF Tidy
<1>4. CASE writeTerminal \/ writeStatus
  <2>1. /\ Writes /\ Drops /\ pc' \in {"IDLE", "END"} /\ UNCHANGED calls
    BY <1>4, StatusStep
  <2>2. /\ Views' \subseteq Views \cup {Stored'}
        /\ Stored'.finalizer = Stored.finalizer /\ (Stored = Gone => Stored' = Gone)
    BY <2>1 DEF Writes
  <2> QED
    BY <2>1, <2>2, DropsHold, FinalizerKept DEF Tidy
<1>5. CASE dispatchEnds
  <2>1. Inside /\ pc' \in {"TERM", "END"} /\ Stored' = Stored /\ Views' = Views
    BY <1>5, LoopEnds, InsideObject
  <2>2. NothingHeld' = NothingHeld
    BY <2>1 DEF NothingHeld, Inside
  <2> QED
    BY <2>1, <2>2 DEF Tidy
<1>6. CASE dispatchNext
  <2>1. Inside /\ pc = "LOOP" /\ pc' \in {"WRITE", "LOOP"} /\ Stored' = Stored /\ Views' = Views
    BY <1>6, LoopGoesOn, InsideObject
  <2>2. NothingHeld' = NothingHeld
    BY <2>1 DEF NothingHeld, Inside
  <2> QED
    BY <2>1, <2>2 DEF Tidy
<1>7. CASE writeDispatched
  <2>1. Writes /\ Drops /\ pc = "WRITE" /\ UNCHANGED calls
    BY <1>7, MarkStep
  <2>2. \/ pc' = "SEND" /\ Stored # Gone /\ Stored'.finalizer = Stored.finalizer
        \/ pc' = "END"
    BY <1>7, MarkStep
  <2>3. /\ Views' \subseteq Views \cup {Stored'}
        /\ Stored'.finalizer = Stored.finalizer /\ (Stored = Gone => Stored' = Gone)
    BY <2>1 DEF Writes
  <2> QED
    BY <2>1, <2>2, <2>3, DropsHold, FinalizerKept DEF Tidy
<1>8. CASE dispatchTarget
  <2>1. pc = "SEND" /\ pc' = "LOOP" /\ UNCHANGED <<cache, events>>
    BY <1>8, SendStep
  <2>2. Stored' = Stored /\ Views' = Views
    BY <2>1 DEF Stored, Views
  <2> QED
    BY <2>1, <2>2 DEF Tidy
<1>9. CASE reconcileTerminal
  <2>1. /\ SameObject /\ Views' \subseteq Views \cup {Stored'}
        /\ pc' = pc /\ UNCHANGED <<calls, results>>
    BY <1>9, TerminalStep DEF Reads
  <2>2. NothingHeld' = NothingHeld
    BY <2>1 DEF NothingHeld
  <2> QED
    BY <2>1, <2>2, FinalizerKept DEF Tidy, SameObject
<1>10. CASE Other
  <2>1. /\ pc' = pc /\ Views' \subseteq Views \cup {Stored'}
        /\ (SameObject \/ (Stored' = Gone /\ ~Stored.finalizer))
        /\ (UNCHANGED <<calls, results>> \/ \E t \in Target : calls[t] > 0)
    BY <1>10, OtherStep
  <2>2. NothingHeld => NothingHeld'
    BY <2>1 DEF NothingHeld
  <2>3. CASE SameObject
    BY <2>1, <2>2, <2>3, FinalizerKept DEF Tidy, SameObject
  <2>4. CASE Stored' = Gone /\ ~Stored.finalizer
    BY <2>1, <2>2, <2>4 DEF Tidy
  <2> QED
    BY <2>1, <2>3, <2>4
<1>11. CASE crash
  <2>1. NothingHeld' /\ pc' = "IDLE" /\ Views' \subseteq {Stored'}
    BY <1>11, CrashStep DEF NothingHeld
  <2> QED
    BY <2>1 DEF Tidy
<1>12. CASE UNCHANGED vars
  <2>1. UNCHANGED <<cache, events, pc, calls, results>>
    BY <1>12 DEF vars
  <2>2. Stored' = Stored /\ Views' = Views /\ NothingHeld' = NothingHeld
    BY <2>1 DEF Stored, Views, NothingHeld
  <2> QED
    BY <2>1, <2>2 DEF Tidy
<1> QED
  BY <1>1, <1>2, <1>3, <1>4, <1>5, <1>6, <1>7, <1>8, <1>9, <1>10, <1>11, <1>12, Steps

\* NothingLeftBehind holds with any number of targets, crashes, failed writes and stale
\* ticks: the finalizer is in the stored object before a goroutine of the operation can
\* start, and goes only in a tick that found none and dropped the results.
THEOREM DeletionIsTidy == Spec => []NothingLeftBehind
<1>1. Spec => [](Typed /\ Tidy)
  BY TypedInit, TypedKept, TidyInit, TidyKept, PTL DEF Spec
<1>2. Tidy => NothingLeftBehind
  BY GoneObject DEF Tidy, NothingHeld, NothingLeftBehind
<1> QED
  BY <1>1, <1>2, PTL

-----------------------------------------------------------------------------
(* The record: a command is sent once, and an outcome stays *)

Working == pc \in {"END", "TERM", "LOOP", "WRITE", "SEND"}

\* What the stored status says of the commands that are out.
Noted ==
    /\ \A t \in Target : /\ sent[t] <= 1
                         /\ sent[t] > 0 => Stored.phase # "Pending" /\ Stored.targets[t] # "Pending"
    /\ Stored.phase = "Pending" => \A t \in Target : Stored.targets[t] = "None"

\* The copy that a tick is going to write says it too, and changes no outcome.
Carried ==
    Working =>
        /\ op.phase = "Pending" => \A t \in Target : op.targets[t] = "None"
        /\ Stored.phase \in Final => op.phase = Stored.phase
        /\ \A t \in Target :
              /\ sent[t] > 0 => op.phase # "Pending" /\ op.targets[t] # "Pending"
              /\ Stored.targets[t] \in Terminal => op.targets[t] = Stored.targets[t]

\* The target at the head of the loop is marked, has no command yet, and at the send
\* the mark is stored.
Marked ==
    /\ pc \in {"LOOP", "WRITE", "SEND"} => op.phase = "Running"
    /\ pc \in {"WRITE", "SEND"} => /\ sent[loop.at] = 0
                                   /\ op.targets[loop.at] = "Dispatched"
                                   /\ Stored.targets[loop.at] \notin Terminal
    /\ pc = "SEND" => Stored.phase # "Pending" /\ Stored.targets[loop.at] # "Pending"

Record == stale = 0 => Noted /\ Carried /\ Marked

LEMMA RecordInit == Init => Record
<1> SUFFICES ASSUME Init
             PROVE  Record
  OBVIOUS
<1>1. Stored = cache /\ cache.phase = "Pending" /\ cache.targets = NoTargets /\ pc = "IDLE"
      /\ sent = [t \in Target |-> 0]
  BY DEF Init, Stored
<1> QED
  BY <1>1 DEF Record, Noted, Carried, Marked, Working, NoTargets

\* A step between ticks, or to the end of one, that keeps the stored status.
LEMMA StatusKept ==
    ASSUME Record, UNCHANGED <<sent, stale>>, pc' \in {"IDLE", "FIN", "UNFIN"},
           \/ Stored'.phase = Stored.phase /\ Stored'.targets = Stored.targets
           \/ Stored' = Gone
    PROVE  Record'
<1>1. stale = 0 => Noted /\ Noted'
  BY GoneObject DEF Record, Noted
<1> QED
  BY <1>1 DEF Record, Carried, Marked, Working

\* The status of the tick is as good as the one it replaces.
LEMMA NotedWritten ==
    ASSUME stale = 0, Record, Working, Writes, UNCHANGED sent
    PROVE  Noted'
BY DEF Record, Noted, Carried, Writes

LEMMA RecordKept ==
    ASSUME Typed, Record, [Next]_vars
    PROVE  Record'
<1>1. CASE Begin
  <2> SUFFICES ASSUME stale' = 0
               PROVE  Record'
    BY DEF Record
  <2>1. Begins
    BY <1>1, TickBegins
  <2>2. /\ stale = 0 /\ sent' = sent
        /\ cache.phase = Stored.phase /\ cache.targets = Stored.targets
        /\ pc' \in {"FIN", "END", "TERM", "LOOP", "UNFIN"}
    BY <2>1 DEF Begins, Reads
  <2>3. Stored' = Stored
    BY <2>1 DEF Begins, Reads, Stored
  <2>4. Noted /\ Noted'
    BY <2>2, <2>3 DEF Record, Noted
  <2>5. Marked'
    BY <2>1, <2>2 DEF Begins, Marked
  <2>6. Working' => Decides
    BY <2>1, <2>2 DEF Begins, Working
  <2>7. Carried'
    <3> SUFFICES ASSUME Decides
                 PROVE  Carried'
      BY <2>6 DEF Carried
    <3>1. op'.phase = "Pending" => \A t \in Target : op'.targets[t] = "None"
      BY <2>2, <2>4 DEF Decides, Noted
    <3>2. ASSUME NEW t \in Target
          PROVE  /\ sent[t] > 0 => op'.phase # "Pending" /\ op'.targets[t] # "Pending"
                 /\ Stored.targets[t] \in Terminal => op'.targets[t] = Stored.targets[t]
      BY <2>2, <2>4, States DEF Decides, Noted
    <3> QED
      BY <2>2, <2>3, <3>1, <3>2 DEF Decides, Carried
  <2> QED
    BY <2>4, <2>5, <2>7 DEF Record
<1>2. CASE writeFinalizer
  BY <1>2, FinalizerStep, StatusKept
<1>3. CASE removeFinalizer
  BY <1>3, RemoveStep, StatusKept
<1>4. CASE writeTerminal \/ writeStatus
  <2> SUFFICES ASSUME stale = 0
               PROVE  Noted' /\ Carried' /\ Marked'
    BY <1>4, StatusStep DEF Record
  <2>1. /\ Writes /\ pc \in {"TERM", "END"} /\ sent' = sent
        /\ (pc' = "IDLE" \/ (pc' = "END" /\ op' = op))
    BY <1>4, StatusStep
  <2>2. Noted'
    BY <2>1, NotedWritten DEF Working
  <2>3. Marked'
    BY <2>1 DEF Marked
  <2>4. Carried'
    BY <2>1 DEF Record, Carried, Working, Writes
  <2> QED
    BY <2>2, <2>3, <2>4
<1>5. CASE dispatchEnds
  <2> SUFFICES ASSUME stale = 0
               PROVE  Noted' /\ Carried' /\ Marked'
    BY <1>5, LoopEnds DEF Record, Inside
  <2>1. /\ pc = "LOOP" /\ pc' \in {"TERM", "END"} /\ sent' = sent /\ Stored' = Stored
        /\ op'.targets = op.targets /\ (op'.phase = op.phase \/ op'.phase \in Final)
    BY <1>5, LoopEnds, InsideObject DEF Inside
  <2>2. Noted' /\ Marked'
    BY <2>1 DEF Record, Noted, Marked
  <2>3. op.phase = "Running"
    BY <2>1 DEF Record, Marked
  <2>4. Carried'
    BY <2>1, <2>3, States DEF Record, Carried, Working
  <2> QED
    BY <2>2, <2>4
<1>6. CASE dispatchNext
  <2> SUFFICES ASSUME stale = 0
               PROVE  Noted' /\ Carried' /\ Marked'
    BY <1>6, LoopGoesOn DEF Record, Inside
  <2>1. pc = "LOOP" /\ sent' = sent /\ Stored' = Stored
    BY <1>6, LoopGoesOn, InsideObject DEF Inside
  <2>2. PICK t \in Target :
           /\ op.targets[t] = "Pending"
           /\ \/ /\ pc' = "WRITE" /\ loop'.at = t
                 /\ op' = [op EXCEPT !.targets[t] = "Dispatched"]
              \/ /\ pc' = "LOOP"
                 /\ op' \in {op, [op EXCEPT !.targets[t] = "Failed"]}
    BY <1>6, LoopGoesOn
  <2>3. op \in Object /\ sent \in [Target -> 0 .. 2]
    BY DEF Typed, TypeOK
  <2>4. op.phase = "Running" /\ Noted /\ Carried
    BY <2>1 DEF Record, Marked
  <2>5. sent[t] = 0 /\ Stored.targets[t] \notin Terminal
    BY <2>1, <2>2, <2>3, <2>4, States DEF Carried, Working
  <2>6. /\ op'.phase = op.phase
        /\ \A u \in Target : u # t => op'.targets[u] = op.targets[u]
    BY <2>2, <2>3 DEF Object
  <2>7. pc' = "WRITE" => op'.targets[t] = "Dispatched"
    BY <2>2, <2>3 DEF Object
  <2>8. Noted'
    BY <2>1, <2>4 DEF Noted
  <2>9. Marked'
    BY <2>1, <2>2, <2>4, <2>5, <2>6, <2>7 DEF Marked
  <2>10. Carried'
    BY <2>1, <2>4, <2>5, <2>6 DEF Carried, Working
  <2> QED
    BY <2>8, <2>9, <2>10
<1>7. CASE writeDispatched
  <2> SUFFICES ASSUME stale = 0
               PROVE  Noted' /\ Carried' /\ Marked'
    BY <1>7, MarkStep DEF Record
  <2>1. /\ Writes /\ pc = "WRITE" /\ loop.at \in Target /\ sent' = sent
        /\ \/ /\ pc' = "SEND" /\ op' = op /\ loop' = loop
              /\ Stored'.phase = op.phase /\ Stored'.targets = op.targets
           \/ pc' = "END" /\ op' = [op EXCEPT !.targets[loop.at] = "Pending"]
    BY <1>7, MarkStep
  <2>2. Noted'
    BY <2>1, NotedWritten DEF Working
  <2>3. /\ op.phase = "Running" /\ op.targets[loop.at] = "Dispatched" /\ sent[loop.at] = 0
        /\ Stored.targets[loop.at] \notin Terminal /\ Carried
    BY <2>1 DEF Record, Marked
  <2>4. CASE /\ pc' = "SEND" /\ op' = op /\ loop' = loop
             /\ Stored'.phase = op.phase /\ Stored'.targets = op.targets
    BY <2>1, <2>2, <2>3, <2>4, States DEF Carried, Marked, Working
  <2>5. CASE pc' = "END" /\ op' = [op EXCEPT !.targets[loop.at] = "Pending"]
    <3>1. op \in Object
      BY DEF Typed, TypeOK
    <3>2. /\ op'.phase = op.phase /\ op'.targets[loop.at] = "Pending"
          /\ \A u \in Target : u # loop.at => op'.targets[u] = op.targets[u]
      BY <2>1, <2>5, <3>1 DEF Object
    <3>3. Stored'.targets[loop.at] \notin Terminal
      BY <2>1, <2>3, States DEF Writes
    <3>4. ASSUME NEW u \in Target, u # loop.at
          PROVE  Stored'.targets[u] \in Terminal => op.targets[u] = Stored'.targets[u]
      BY <2>1, <2>3 DEF Writes, Carried, Working
    <3>5. Stored'.phase \in Final => op.phase = Stored'.phase
      BY <2>1, <2>3 DEF Writes, Carried, Working
    <3>6. ASSUME NEW u \in Target
          PROVE  /\ sent[u] > 0 => op'.targets[u] # "Pending"
                 /\ Stored'.targets[u] \in Terminal => op'.targets[u] = Stored'.targets[u]
      BY <2>1, <2>3, <3>2, <3>3, <3>4 DEF Carried, Working
    <3>7. Carried'
      BY <2>1, <2>3, <3>2, <3>5, <3>6 DEF Carried
    <3> QED
      BY <2>2, <2>5, <3>7 DEF Marked
  <2> QED
    BY <2>1, <2>4, <2>5
<1>8. CASE dispatchTarget
  <2> SUFFICES ASSUME stale = 0
               PROVE  Noted' /\ Carried' /\ Marked'
    BY <1>8, SendStep DEF Record
  <2>1. /\ pc = "SEND" /\ pc' = "LOOP" /\ loop.at \in Target
        /\ UNCHANGED <<cache, events>>
    BY <1>8, SendStep
  <2>2. Stored' = Stored
    BY <2>1 DEF Stored
  <2>3. op \in Object /\ sent \in [Target -> 0 .. 2]
    BY DEF Typed, TypeOK
  <2>4. /\ op.phase = "Running" /\ op.targets[loop.at] = "Dispatched" /\ sent[loop.at] = 0
        /\ Stored.targets[loop.at] \notin Terminal
        /\ Stored.phase # "Pending" /\ Stored.targets[loop.at] # "Pending"
        /\ Carried /\ Noted
    BY <2>1 DEF Record, Marked
  <2>5. /\ sent'[loop.at] <= 1
        /\ \A u \in Target : u # loop.at => sent'[u] = sent[u]
    BY <1>8, <2>1, <2>3, <2>4, SendStep
  <2>6. /\ op'.phase = op.phase /\ op'.targets[loop.at] # "Pending"
        /\ \A u \in Target : u # loop.at => op'.targets[u] = op.targets[u]
    <3>1. CASE op' = op
      BY <2>4, <3>1
    <3>2. ASSUME NEW state \in {"Succeeded", "Failed"}, op' = [op EXCEPT !.targets[loop.at] = state]
          PROVE  /\ op'.phase = op.phase /\ op'.targets[loop.at] # "Pending"
                 /\ \A u \in Target : u # loop.at => op'.targets[u] = op.targets[u]
      BY <2>1, <2>3, <3>2 DEF Object
    <3> QED
      BY <1>8, <3>1, <3>2, SendStep
  <2>7. Noted'
    BY <2>2, <2>4, <2>5 DEF Noted
  <2>8. Marked'
    BY <2>1, <2>4, <2>6 DEF Marked
  <2>9. Carried'
    BY <2>1, <2>2, <2>4, <2>5, <2>6 DEF Carried, Working
  <2> QED
    BY <2>7, <2>8, <2>9
<1>9. CASE reconcileTerminal
  <2>1. /\ SameObject /\ pc' = "IDLE" /\ sent' = sent
        /\ (stale' = 0 => stale = 0)
    BY <1>9, TerminalStep DEF Reads
  <2>2. stale' = 0 => Noted'
    BY <2>1 DEF Record, Noted, SameObject
  <2> QED
    BY <2>1, <2>2 DEF Record, Carried, Marked, Working
<1>10. CASE Other
  <2> SUFFICES ASSUME stale = 0
               PROVE  Noted' /\ Carried' /\ Marked'
    BY <1>10, OtherStep DEF Record
  <2>1. /\ UNCHANGED <<op, pc, loop, sent>>
        /\ \/ Stored'.phase = Stored.phase /\ Stored'.targets = Stored.targets
           \/ Stored' = Gone
    BY <1>10, OtherStep DEF SameObject
  <2>2. Noted'
    BY <2>1, GoneObject DEF Record, Noted
  <2>3. Marked'
    <3>1. pc \in {"WRITE", "SEND"} => loop.at \in Target
      BY DEF Typed, LoopShape
    <3> QED
      BY <2>1, <3>1, GoneObject, States DEF Record, Marked
  <2>4. Carried'
    BY <2>1, GoneObject, States DEF Record, Carried, Working
  <2> QED
    BY <2>2, <2>3, <2>4
<1>11. CASE crash
  BY <1>11, CrashStep, StatusKept
<1>12. CASE UNCHANGED vars
  <2>1. UNCHANGED <<cache, events, pc, op, loop, sent, stale>>
    BY <1>12 DEF vars
  <2>2. Stored' = Stored
    BY <2>1 DEF Stored
  <2> QED
    BY <2>1, <2>2 DEF Record, Noted, Carried, Marked, Working
<1> QED
  BY <1>1, <1>2, <1>3, <1>4, <1>5, <1>6, <1>7, <1>8, <1>9, <1>10, <1>11, <1>12, Steps

LEMMA Recorded == Spec => [](Typed /\ Record)
BY TypedInit, TypedKept, RecordInit, RecordKept, PTL DEF Spec

\* SentOnce for any targets, waves, verbs and policies: the mark is in the stored status
\* before the command goes out, and no tick that read it takes the target back.
THEOREM CommandSentOnce == Spec => []SentOnce
<1>1. Typed /\ Record => SentOnce
  <2> SUFFICES ASSUME Typed, Record, stale = 0, NEW t \in Target
               PROVE  sent[t] <= 1 /\ (sent[t] = 1 => Stored.targets[t] # "Pending")
    BY DEF SentOnce
  <2> QED
    BY DEF Record, Noted
<1> QED
  BY <1>1, Recorded, PTL

\* OutcomeIsFinal: a tick that read the stored status carries every outcome it found.
THEOREM OutcomesStay == Spec => OutcomeIsFinal
<1> DEFINE Stays == /\ \A t \in Target : Stored.targets[t] \in Terminal =>
                                           Stored'.targets[t] = Stored.targets[t]
                    /\ Stored.phase \in Final => Stored'.phase = Stored.phase
<1>1. ASSUME Typed, Record, Next, stale' = 0, Stored' # Gone
      PROVE  Stays
  <2>1. CASE Begin
    <3>1. Begins
      BY <1>1, <2>1, TickBegins
    <3>2. Stored' = Stored
      BY <3>1 DEF Begins, Reads, Stored
    <3> QED
      BY <3>2
  <2>2. CASE writeTerminal \/ writeStatus
    <3>1. Writes /\ stale = 0 /\ Working
      BY <1>1, <2>2, StatusStep DEF Working
    <3> QED
      BY <1>1, <3>1 DEF Record, Carried, Writes
  <2>3. CASE writeDispatched
    <3>1. Writes /\ stale = 0 /\ Working
      BY <1>1, <2>3, MarkStep DEF Working
    <3> QED
      BY <1>1, <3>1 DEF Record, Carried, Writes
  <2>4. CASE dispatchEnds \/ dispatchNext \/ dispatchTarget
    <3>1. UNCHANGED <<cache, events>>
      BY <1>1, <2>4, LoopEnds, LoopGoesOn, SendStep DEF Inside
    <3>2. Stored' = Stored
      BY <3>1 DEF Stored
    <3> QED
      BY <3>2
  <2>5. CASE writeFinalizer \/ removeFinalizer \/ reconcileTerminal \/ Other \/ crash
    <3>1. Stored'.phase = Stored.phase /\ Stored'.targets = Stored.targets
      BY <1>1, <2>5, FinalizerStep, RemoveStep, TerminalStep, OtherStep, CrashStep DEF SameObject
    <3> QED
      BY <3>1
  <2> QED
    BY <1>1, <2>1, <2>2, <2>3, <2>4, <2>5, Steps
<1>2. ASSUME Typed, Record, [Next]_vars
      PROVE  [stale' = 0 /\ Stored' # Gone => Stays]_vars
  BY <1>1, <1>2
<1> QED
  BY <1>2, Recorded, PTL DEF Spec, OutcomeIsFinal

-----------------------------------------------------------------------------
(* The pace: waves in order, maxParallel at a time *)

LEMMA SpecFixed ==
    ASSUME [Next]_vars
    PROVE  spec' = spec
<1>1. CASE Begin
  BY <1>1 DEF Begin, addFinalizer, reconcilePending, followSuspend, reconcileSuspended,
              reconcileRunning, reconcileDelete, Get
<1>2. CASE writeFinalizer \/ removeFinalizer \/ writeTerminal \/ writeStatus
  BY <1>2 DEF writeFinalizer, removeFinalizer, writeTerminal, writeStatus, tickVars
<1>3. CASE dispatchEnds \/ dispatchNext \/ writeDispatched \/ dispatchTarget
  BY <1>3 DEF dispatchEnds, dispatchNext, writeDispatched, dispatchTarget, tickVars
<1>4. CASE reconcileTerminal \/ Other \/ crash
  BY <1>4 DEF reconcileTerminal, Get, Other, watch, toggleSuspend, cancel, groovyEnds, timeout, crash
<1>5. CASE UNCHANGED vars
  BY <1>5 DEF vars
<1> QED
  BY <1>1, <1>2, <1>3, <1>4, <1>5, Steps

\* Where fewer targets run, fewer are in flight.
LEMMA FewerRun ==
    ASSUME NEW f, NEW g, \A t \in Target : f[t] \in Running => g[t] \in Running
    PROVE  inFlight(f) <= inFlight(g)
<1> DEFINE F == {t \in Target : f[t] \in Running}
           G == {t \in Target : g[t] \in Running}
<1>1. F \in SUBSET G /\ IsFiniteSet(G)
  BY InFlight
<1>2. Cardinality(F) <= Cardinality(G)
  <2> HIDE DEF F, G
  <2> QED
    BY <1>1, FS_Subset
<1> QED
  BY <1>2 DEF inFlight

\* One more target in flight.
LEMMA OneMoreRuns ==
    ASSUME NEW f, NEW g, NEW t \in Target, f[t] \notin Running,
           \A u \in Target : u # t => g[u] = f[u]
    PROVE  inFlight(g) <= inFlight(f) + 1
<1> DEFINE F == {u \in Target : f[u] \in Running}
           G == {u \in Target : g[u] \in Running}
<1>1. IsFiniteSet(F) /\ t \notin F /\ G \in SUBSET (F \cup {t})
  BY InFlight
<1>2. Cardinality(G) <= Cardinality(F) + 1
  <2> HIDE DEF F, G
  <2>1. IsFiniteSet(F \cup {t}) /\ Cardinality(F \cup {t}) = Cardinality(F) + 1
    BY <1>1, FS_AddElement
  <2>2. Cardinality(G) <= Cardinality(F \cup {t})
    BY <1>1, <2>1, FS_Subset
  <2> QED
    BY <2>1, <2>2
<1> QED
  BY <1>2 DEF inFlight

LEMMA NoneRuns == inFlight(Gone.targets) = 0 /\ inFlight(NoTargets) = 0
<1>1. {t \in Target : Gone.targets[t] \in Running} = {}
  BY GoneObject, States
<1>2. {t \in Target : NoTargets[t] \in Running} = {}
  BY States DEF NoTargets
<1> QED
  BY <1>1, <1>2, FS_EmptySet DEF inFlight

\* Nothing was sent ahead of an unfinished target of an earlier wave.
InOrder(targets) ==
    \A t, u \in Target : sent[t] > 0 /\ spec.wave[u] < spec.wave[t] => targets[u] \in Terminal

\* The waves before the open one are finished.
WavesDone(targets) == \A u \in Target : spec.wave[u] < loop.wave => targets[u] \in Terminal

\* What is in flight and what the loop may still start fit in maxParallel together; the
\* marked target takes the slot that it is given back at the send.
Room ==
    /\ inFlight(Stored.targets) <= spec.maxParallel
    /\ Working => inFlight(op.targets) <= spec.maxParallel
    /\ pc = "LOOP" => inFlight(op.targets) + loop.slots <= spec.maxParallel
    /\ pc \in {"WRITE", "SEND"} => inFlight(op.targets) + loop.slots <= spec.maxParallel + 1

Order ==
    /\ Stored # Gone => InOrder(Stored.targets)
    /\ pc \in {"LOOP", "WRITE", "SEND"} => WavesDone(op.targets)
    /\ pc \in {"WRITE", "SEND"} => spec.wave[loop.at] <= loop.wave
    /\ pc = "SEND" /\ Stored # Gone => WavesDone(Stored.targets)

LEMMA RoomInit == Init => Room /\ Order
<1> SUFFICES ASSUME Init
             PROVE  Room /\ Order
  OBVIOUS
<1>1. /\ Stored = cache /\ cache.targets = NoTargets /\ pc = "IDLE"
      /\ sent = [t \in Target |-> 0] /\ spec \in Operation
  BY DEF Init, Stored
<1>2. spec.maxParallel \in Nat
  BY <1>1, Bounds
<1>3. Room
  BY <1>1, <1>2, NoneRuns DEF Room, Working
<1>4. Order
  BY <1>1 DEF Order, InOrder
<1> QED
  BY <1>3, <1>4

LEMMA RoomKept ==
    ASSUME Typed, Record, stale = 0 => Room, [Next]_vars, stale' = 0
    PROVE  Room'
<1>1. spec' = spec /\ spec.maxParallel \in Nat
  BY SpecFixed, Bounds DEF Typed, TypeOK
<1>2. inFlight(Stored.targets) \in Nat /\ inFlight(op.targets) \in Nat /\ inFlight(op'.targets) \in Nat
  BY InFlight
<1>3. CASE Begin
  <2>1. Begins
    BY <1>3, TickBegins
  <2>2. /\ stale = 0 /\ cache.targets = Stored.targets
        /\ pc' \in {"FIN", "END", "TERM", "LOOP", "UNFIN"}
    BY <2>1 DEF Begins, Reads
  <2>3. Stored' = Stored
    BY <2>1 DEF Begins, Reads, Stored
  <2>4. Working' => inFlight(op'.targets) <= spec.maxParallel
    <3>1. Working' => Decides
      BY <2>1, <2>2 DEF Begins, Working
    <3>2. Decides => inFlight(op'.targets) <= inFlight(Stored.targets)
      BY <2>2, FewerRun DEF Decides
    <3> QED
      BY <1>1, <1>2, <2>2, <3>1, <3>2 DEF Room
  <2>5. pc' = "LOOP" => inFlight(op'.targets) + loop'.slots <= spec.maxParallel
    <3>1. pc' = "LOOP" =>
             loop'.slots = IF inFlight(op'.targets) >= spec.maxParallel THEN 0
                           ELSE spec.maxParallel - inFlight(op'.targets)
      BY <2>1 DEF Begins
    <3>2. pc' = "LOOP" => Working'
      BY DEF Working
    <3> QED
      BY <1>1, <1>2, <2>4, <3>1, <3>2
  <2> QED
    BY <1>1, <2>2, <2>3, <2>4, <2>5 DEF Room
<1>4. CASE writeFinalizer \/ removeFinalizer \/ crash
  <2>1. /\ stale = 0 /\ pc' = "IDLE"
        /\ (Stored'.targets = Stored.targets \/ Stored' = Gone)
    BY <1>4, FinalizerStep, RemoveStep, CrashStep
  <2> QED
    BY <1>1, <2>1, NoneRuns DEF Room, Working
<1>5. CASE writeTerminal \/ writeStatus
  <2>1. /\ Writes /\ stale = 0 /\ Working
        /\ (pc' = "IDLE" \/ (pc' = "END" /\ op' = op))
    BY <1>5, StatusStep DEF Working
  <2> QED
    BY <1>1, <2>1 DEF Room, Writes, Working
<1>6. CASE dispatchEnds
  <2>1. /\ pc = "LOOP" /\ pc' \in {"TERM", "END"} /\ Stored' = Stored /\ stale = 0
        /\ op'.targets = op.targets
    BY <1>6, LoopEnds, InsideObject DEF Inside
  <2> QED
    BY <1>1, <2>1 DEF Room, Working
<1>7. CASE dispatchNext
  <2>1. /\ pc = "LOOP" /\ Stored' = Stored /\ stale = 0
        /\ loop'.slots = loop.slots /\ loop.slots > 0 /\ loop \in LoopType
    BY <1>7, LoopGoesOn, InsideObject DEF Inside, Typed, TypeOK, LoopType
  <2>2. PICK t \in Target :
           /\ op.targets[t] = "Pending"
           /\ \/ /\ pc' = "WRITE" /\ loop'.at = t
                 /\ op' = [op EXCEPT !.targets[t] = "Dispatched"]
              \/ /\ pc' = "LOOP"
                 /\ op' \in {op, [op EXCEPT !.targets[t] = "Failed"]}
    BY <1>7, LoopGoesOn
  <2>3. op \in Object /\ loop.slots \in Nat
    BY <1>1, <2>1 DEF Typed, TypeOK, LoopType
  <2>4. inFlight(op.targets) + loop.slots <= spec.maxParallel
    BY <2>1 DEF Room
  <2>5. /\ \A u \in Target : u # t => op'.targets[u] = op.targets[u]
        /\ pc' = "LOOP" => op'.targets[t] \in {"Pending", "Failed"}
    BY <2>2, <2>3 DEF Object
  <2>6. inFlight(op'.targets) <= inFlight(op.targets) + 1
    BY <2>2, <2>5, OneMoreRuns, States
  <2>7. pc' = "LOOP" => inFlight(op'.targets) <= inFlight(op.targets)
    BY <2>5, FewerRun, States
  <2>8. inFlight(op'.targets) <= spec.maxParallel
    BY <1>1, <1>2, <2>1, <2>3, <2>4, <2>6
  <2>9. CASE pc' = "WRITE"
    <3>1. inFlight(op'.targets) + loop'.slots <= spec.maxParallel + 1
      BY <1>1, <1>2, <2>1, <2>3, <2>4, <2>6
    <3> QED
      BY <1>1, <2>1, <2>8, <2>9, <3>1 DEF Room
  <2>10. CASE pc' = "LOOP"
    <3>1. inFlight(op'.targets) + loop'.slots <= spec.maxParallel
      BY <1>1, <1>2, <2>1, <2>3, <2>4, <2>7, <2>10
    <3> QED
      BY <1>1, <2>1, <2>8, <2>10, <3>1 DEF Room
  <2> QED
    BY <2>2, <2>9, <2>10
<1>8. CASE writeDispatched
  <2>1. /\ Writes /\ pc = "WRITE" /\ loop.at \in Target /\ stale = 0
        /\ \/ /\ pc' = "SEND" /\ op' = op /\ loop' = loop
           \/ pc' = "END" /\ op' = [op EXCEPT !.targets[loop.at] = "Pending"]
    BY <1>8, MarkStep
  <2>2. inFlight(op'.targets) <= inFlight(op.targets)
    <3>1. op \in Object
      BY DEF Typed, TypeOK
    <3>2. \A u \in Target : op'.targets[u] \in {op.targets[u], "Pending"}
      BY <2>1, <3>1 DEF Object
    <3> QED
      BY <3>2, FewerRun, States
  <2>3. /\ inFlight(op.targets) <= spec.maxParallel /\ inFlight(Stored.targets) <= spec.maxParallel
        /\ inFlight(op.targets) + loop.slots <= spec.maxParallel + 1
    BY <2>1 DEF Room, Working
  <2>4. inFlight(op'.targets) <= spec.maxParallel
    BY <1>1, <1>2, <2>2, <2>3
  <2>5. inFlight(Stored'.targets) <= spec.maxParallel
    BY <2>1, <2>3 DEF Writes
  <2>6. pc' = "SEND" => inFlight(op'.targets) + loop'.slots <= spec.maxParallel + 1
    BY <2>1, <2>3
  <2> QED
    BY <1>1, <2>1, <2>4, <2>5, <2>6 DEF Room
<1>9. CASE dispatchTarget
  <2>1. /\ pc = "SEND" /\ pc' = "LOOP" /\ loop.at \in Target /\ stale = 0
        /\ UNCHANGED <<cache, events>> /\ loop'.slots = loop.slots - 1 /\ loop \in LoopType
    BY <1>9, SendStep DEF Typed, TypeOK, LoopType
  <2>2. Stored' = Stored
    BY <2>1 DEF Stored
  <2>3. inFlight(op'.targets) <= inFlight(op.targets)
    <3>1. op \in Object
      BY DEF Typed, TypeOK
    <3>2. \/ op' = op
          \/ \E state \in {"Succeeded", "Failed"} : op' = [op EXCEPT !.targets[loop.at] = state]
      BY <1>9, SendStep
    <3>3. \A u \in Target : op'.targets[u] \in {op.targets[u], "Succeeded", "Failed"}
      BY <2>1, <3>1, <3>2 DEF Object
    <3> QED
      BY <3>3, FewerRun, States
  <2>4. /\ inFlight(op.targets) <= spec.maxParallel /\ loop.slots \in Nat
        /\ inFlight(op.targets) + loop.slots <= spec.maxParallel + 1
    BY <1>1, <2>1 DEF Room, Working, LoopType
  <2>5. /\ inFlight(op'.targets) <= spec.maxParallel
        /\ inFlight(op'.targets) + loop'.slots <= spec.maxParallel
    BY <1>1, <1>2, <2>1, <2>3, <2>4
  <2> QED
    BY <1>1, <2>1, <2>2, <2>5 DEF Room
<1>10. CASE reconcileTerminal
  <2>1. SameObject /\ pc' = "IDLE" /\ stale = 0
    BY <1>10, TerminalStep DEF Reads
  <2> QED
    BY <1>1, <2>1 DEF Room, Working, SameObject
<1>11. CASE Other
  <2>1. /\ stale = 0 /\ UNCHANGED <<op, pc, loop>>
        /\ (Stored'.targets = Stored.targets \/ Stored' = Gone)
    BY <1>11, OtherStep DEF SameObject
  <2>2. inFlight(Stored'.targets) <= spec.maxParallel
    BY <1>1, <2>1, NoneRuns DEF Room
  <2> QED
    BY <1>1, <2>1, <2>2 DEF Room, Working
<1>12. CASE UNCHANGED vars
  <2>1. UNCHANGED <<cache, events, pc, op, loop, stale>>
    BY <1>12 DEF vars
  <2>2. Stored' = Stored
    BY <2>1 DEF Stored
  <2> QED
    BY <1>1, <2>1, <2>2 DEF Room, Working
<1> QED
  BY <1>3, <1>4, <1>5, <1>6, <1>7, <1>8, <1>9, <1>10, <1>11, <1>12, Steps

\* A copy that changes no outcome is in order where the stored status is.
LEMMA OrderCarried ==
    ASSUME stale = 0, Record, Order, Working, Stored # Gone
    PROVE  InOrder(op.targets)
BY DEF Record, Carried, Order, InOrder

LEMMA OrderWritten ==
    ASSUME stale = 0, Record, Order, Working, Writes, UNCHANGED <<spec, sent>>, Stored' # Gone
    PROVE  Stored # Gone /\ InOrder(Stored'.targets)
<1>1. Stored # Gone /\ InOrder(Stored.targets) /\ InOrder(op.targets)
  BY OrderCarried DEF Writes, Order
<1> QED
  BY <1>1 DEF Writes

LEMMA OrderKept ==
    ASSUME Typed, Record, stale = 0 => Order, [Next]_vars, stale' = 0
    PROVE  Order'
<1>1. spec' = spec /\ spec.wave \in [Target -> Nat] /\ sent \in [Target -> 0 .. 2]
  BY SpecFixed, Bounds DEF Typed, TypeOK
<1>2. CASE Begin
  <2>1. Begins
    BY <1>2, TickBegins
  <2>2. /\ stale = 0 /\ sent' = sent /\ pc' \in {"FIN", "END", "TERM", "LOOP", "UNFIN"}
    BY <2>1 DEF Begins, Reads
  <2>3. Stored' = Stored
    BY <2>1 DEF Begins, Reads, Stored
  <2>4. pc' = "LOOP" => \A u \in Target : spec.wave[u] < loop'.wave => op'.targets[u] \in Terminal
    <3> SUFFICES ASSUME pc' = "LOOP", NEW u \in Target, spec.wave[u] < loop'.wave,
                        op'.targets[u] \notin Terminal
                 PROVE  FALSE
      OBVIOUS
    <3>1. loop'.wave = currentWave(op'.targets) /\ ~AllTerminal(op'.targets)
      BY <2>1 DEF Begins
    <3>2. loop'.wave \in Nat /\ loop'.wave <= spec.wave[u]
      BY <3>1, CurrentWave
    <3> QED
      BY <1>1, <3>2
  <2> QED
    BY <1>1, <2>2, <2>3, <2>4 DEF Order, InOrder, WavesDone
<1>3. CASE writeFinalizer \/ removeFinalizer \/ reconcileTerminal \/ crash
  <2>1. /\ stale = 0 /\ sent' = sent /\ pc' = "IDLE"
        /\ \/ Stored' = Gone
           \/ Stored # Gone /\ Stored'.targets = Stored.targets
    BY <1>3, FinalizerStep, RemoveStep, CrashStep, TerminalStep DEF SameObject, Reads
  <2> QED
    BY <1>1, <2>1 DEF Order, InOrder
<1>4. CASE writeTerminal \/ writeStatus
  <2>1. /\ Writes /\ stale = 0 /\ Working /\ sent' = sent /\ pc' \in {"IDLE", "END"}
    BY <1>4, StatusStep DEF Working
  <2>2. Stored' # Gone => InOrder(Stored'.targets)
    BY <1>1, <2>1, OrderWritten
  <2> QED
    BY <1>1, <2>1, <2>2 DEF Order, InOrder
<1>5. CASE dispatchEnds
  <2>1. pc' \in {"TERM", "END"} /\ Stored' = Stored /\ stale = 0 /\ sent' = sent
    BY <1>5, LoopEnds, InsideObject DEF Inside
  <2> QED
    BY <1>1, <2>1 DEF Order, InOrder
<1>6. CASE dispatchNext
  <2>1. /\ pc = "LOOP" /\ Stored' = Stored /\ stale = 0 /\ sent' = sent /\ loop'.wave = loop.wave
    BY <1>6, LoopGoesOn, InsideObject DEF Inside
  <2>2. PICK t \in Target :
           /\ op.targets[t] = "Pending" /\ spec.wave[t] <= loop.wave
           /\ \/ /\ pc' = "WRITE" /\ loop'.at = t
                 /\ op' = [op EXCEPT !.targets[t] = "Dispatched"]
              \/ /\ pc' = "LOOP"
                 /\ op' \in {op, [op EXCEPT !.targets[t] = "Failed"]}
    BY <1>6, LoopGoesOn
  <2>3. op \in Object
    BY DEF Typed, TypeOK
  <2>4. \A u \in Target : op.targets[u] \in Terminal => op'.targets[u] = op.targets[u]
    BY <2>2, <2>3, States DEF Object
  <2>5. WavesDone(op.targets)
    BY <2>1 DEF Order
  <2>6. WavesDone(op.targets)'
    BY <1>1, <2>1, <2>4, <2>5 DEF WavesDone
  <2>7. Stored # Gone => InOrder(Stored.targets)'
    BY <1>1, <2>1 DEF Order, InOrder
  <2>8. pc' = "WRITE" => spec.wave[loop'.at] <= loop'.wave
    BY <2>1, <2>2
  <2> QED
    BY <1>1, <2>1, <2>2, <2>6, <2>7, <2>8 DEF Order
<1>7. CASE writeDispatched
  <2>1. /\ Writes /\ pc = "WRITE" /\ stale = 0 /\ sent' = sent
        /\ \/ /\ pc' = "SEND" /\ op' = op /\ loop' = loop
              /\ Stored'.targets = op.targets
           \/ pc' = "END"
    BY <1>7, MarkStep
  <2>2. Stored' # Gone => InOrder(Stored'.targets)
    BY <1>1, <2>1, OrderWritten DEF Working
  <2>3. WavesDone(op.targets) /\ spec.wave[loop.at] <= loop.wave
    BY <2>1 DEF Order
  <2>4. Stored' # Gone => InOrder(Stored.targets)'
    BY <1>1, <2>1, <2>2 DEF InOrder
  <2>5. pc' = "SEND" => /\ WavesDone(op.targets)' /\ WavesDone(Stored.targets)'
                        /\ spec.wave[loop'.at] <= loop'.wave
    BY <1>1, <2>1, <2>3 DEF WavesDone
  <2> QED
    BY <1>1, <2>1, <2>4, <2>5 DEF Order
<1>8. CASE dispatchTarget
  <2>1. /\ pc = "SEND" /\ pc' = "LOOP" /\ loop.at \in Target /\ stale = 0
        /\ UNCHANGED <<cache, events>> /\ loop'.wave = loop.wave /\ loop.wave \in Nat
    BY <1>8, SendStep DEF Typed, TypeOK
  <2>2. Stored' = Stored
    BY <2>1 DEF Stored
  <2>3. \A u \in Target : u # loop.at => sent'[u] = sent[u]
    BY <1>1, <1>8, <2>1, SendStep
  <2>4. \A u \in Target : op.targets[u] \in Terminal => op'.targets[u] \in Terminal
    <3>1. op \in Object
      BY DEF Typed, TypeOK
    <3>2. \/ op' = op
          \/ \E state \in {"Succeeded", "Failed"} : op' = [op EXCEPT !.targets[loop.at] = state]
      BY <1>8, SendStep
    <3> QED
      BY <2>1, <3>1, <3>2, States DEF Object
  <2>5. WavesDone(op.targets) /\ spec.wave[loop.at] <= loop.wave
    BY <2>1 DEF Order
  <2>6. WavesDone(op.targets)'
    BY <1>1, <2>1, <2>4, <2>5 DEF WavesDone
  <2>7. ASSUME Stored # Gone, NEW t \in Target, NEW u \in Target,
               sent'[t] > 0, spec.wave[u] < spec.wave[t]
        PROVE  Stored.targets[u] \in Terminal
    <3>1. InOrder(Stored.targets) /\ WavesDone(Stored.targets)
      BY <2>1, <2>7 DEF Order
    <3>2. CASE t = loop.at
      <4>1. spec.wave[u] \in Nat /\ spec.wave[t] \in Nat
        BY <1>1, <2>7
      <4>2. spec.wave[u] < loop.wave
        BY <2>1, <2>5, <2>7, <3>2, <4>1
      <4> QED
        BY <3>1, <4>2 DEF WavesDone
    <3>3. CASE t # loop.at
      BY <2>3, <2>7, <3>1, <3>3 DEF InOrder
    <3> QED
      BY <3>2, <3>3
  <2>8. Stored # Gone => InOrder(Stored.targets)'
    BY <1>1, <2>2, <2>7 DEF InOrder
  <2> QED
    BY <2>1, <2>2, <2>6, <2>8 DEF Order
<1>9. CASE Other
  <2>1. /\ stale = 0 /\ UNCHANGED <<op, pc, loop, sent>>
        /\ \/ Stored' = Gone
           \/ Stored # Gone /\ Stored'.targets = Stored.targets
    BY <1>9, OtherStep DEF SameObject
  <2> QED
    BY <1>1, <2>1 DEF Order, InOrder, WavesDone
<1>10. CASE UNCHANGED vars
  <2>1. UNCHANGED <<cache, events, pc, op, loop, sent, stale>>
    BY <1>10 DEF vars
  <2>2. Stored' = Stored
    BY <2>1 DEF Stored
  <2> QED
    BY <1>1, <2>1, <2>2 DEF Order, InOrder, WavesDone
<1> QED
  BY <1>2, <1>3, <1>4, <1>5, <1>6, <1>7, <1>8, <1>9, <1>10, Steps

\* RolloutPaced for any waves and any maxParallel: the slots of a tick are what its
\* evaluated targets leave of maxParallel, and its wave is the least with work to finish.
THEOREM RolloutIsPaced == Spec => []RolloutPaced
<1> DEFINE Pace == Typed /\ Record /\ (stale = 0 => Room /\ Order)
<1>1. Init => Pace
  BY TypedInit, RecordInit, RoomInit
<1>2. Pace /\ [Next]_vars => Pace'
  BY TypedKept, RecordKept, RoomKept, OrderKept
<1>3. Pace => RolloutPaced
  BY DEF Room, Order, InOrder, RolloutPaced
<1> QED
  BY <1>1, <1>2, <1>3, PTL DEF Spec
=============================================================================
