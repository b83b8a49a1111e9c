----------------------------- MODULE EventSpool -----------------------------
(***************************************************************************)
(* How the plugin keeps the build events of a run until they are           *)
(* acknowledged: the sink that VarroaRunRecorder offers them to, the spool *)
(* on disk (RunSpool), the journal of live runs (RunJournal), the reconcile*)
(* at boot that ends the builds a stop of Jenkins ended                    *)
(* (VarroaBootReconcile, FailedProgramLoad), and the dispatcher that       *)
(* spools each event before it posts it (BuildEventDispatcher).            *)
(*                                                                         *)
(* The events of a group are a set: they are forwarded in the order of     *)
(* their sequence numbers, run by run.  A build emits STARTED, heartbeats, *)
(* which are never spooled, and COMPLETED; the phases between take the     *)
(* path of STARTED.                                                        *)
(***************************************************************************)
EXTENDS BuildEvent, Sequences, FiniteSets

CONSTANTS
    Pipeline,  \* the runs of a pipeline, which Jenkins resumes after a restart
    SinkMax,   \* VARROA_BUILD_BUFFER
    SpoolMax,  \* VARROA_SPOOL_BYTES, in events of one run
    MaxBeat    \* bound: the last sequence number that the timer gives to a heartbeat

ASSUME SpoolAssumption ==
    /\ Pipeline \subseteq Run
    /\ SinkMax \in Nat \ {0}
    /\ SpoolMax \in Nat \ {0}
    /\ MaxBeat \in Nat

VARIABLES
    up,        \* whether Jenkins runs
    build,     \* the builds
    clock,     \* the wall clock in milliseconds, which no sequence number of the run is above
    seqs,      \* RunState.seq of each run, lost with the process
    sink,      \* BuildEventSink
    spill,     \* events that a full sink leaves to the thread of the build to spool
    spool,     \* the event files, of all runs
    journal,   \* the runs with a journal entry
    expired,   \* runs last seen here more than seven days ago
    dropped,   \* runs with a completion that the size caps dropped
    announced, \* runs with a backlog, oldest first
    unchecked, \* journal entries the boot reconcile has still to look at
    claimed,   \* FailedProgramLoad.CLAIMED
    made       \* how many completions of a run this process made

buildVars == <<up, build, clock, seqs, expired, dropped, made>>
bootVars == <<unchecked, claimed>>
spoolVars == <<buildVars, sink, spill, spool, journal, announced, bootVars>>

\* PAUSED is a pipeline that waits for its resume.  REFUSED is one that does not resume: its program
\* does not load, or it is too old.  FINISHED is a refused one that Jenkins finished in this process.
\* DEAD is a build that loads as completed though no listener ran, GONE a pipeline whose record moved
\* to another cell.
BuildState == {"NEW", "BUILDING", "PAUSED", "REFUSED", "FINISHED", "DEAD", "DONE", "GONE"}

endedByRestart(r) == build[r] \in {"REFUSED", "FINISHED"}

SpoolTypeOK ==
    /\ up \in BOOLEAN
    /\ build \in [Run -> BuildState]
    /\ clock \in [Run -> Nat]
    /\ seqs \in [Run -> Nat]
    /\ sink \in SUBSET Event
    /\ spill \in [Run -> SUBSET Event]
    /\ spool \in SUBSET Event
    /\ journal \in SUBSET Run
    /\ announced \in Seq(Run)
    /\ unchecked \in SUBSET Run
    /\ claimed \in SUBSET Run
    /\ expired \in SUBSET Run
    /\ dropped \in SUBSET Run
    /\ made \in [Run -> Nat]

SpoolInit ==
    /\ up = TRUE
    /\ build = [r \in Run |-> "NEW"]
    /\ clock = [r \in Run |-> MaxBeat + 1]
    /\ seqs = [r \in Run |-> 0]
    /\ sink = {}
    /\ spill = [r \in Run |-> {}]
    /\ spool = {}
    /\ journal = {}
    /\ announced = <<>>
    /\ unchecked = {}
    /\ claimed = {}
    /\ expired = {}
    /\ dropped = {}
    /\ made = [r \in Run |-> 0]

-----------------------------------------------------------------------------
(* The spool and the sink *)

\* Mutant: the cap evicts the oldest file, whatever its phase.
evictsOldest(files, e) ==
    IF Cardinality(ofRun(files, e.run)) <= SpoolMax
      THEN {}
      ELSE earliest(ofRun(files, e.run) \ {e})

\* The file that the cap evicts once e is written: the oldest of the run that is neither e nor a
\* completion.
evictToCap(files, e) ==
    IF Cardinality(ofRun(files, e.run)) <= SpoolMax
      THEN {}
      ELSE earliest({f \in ofRun(files, e.run) : f # e /\ ~isCompletedPhase(f)})

\* The spool once the file of e is in place.
written(e) == (spool \cup {e}) \ evictToCap(spool \cup {e}, e)

\* A heartbeat is never written.  A completion on disk ends the journal entry of its run.  The lock of
\* the run hides the moment between the two from every other thread, though not from a stop of
\* Jenkins: see StopInAppend.
append(e) ==
    IF isHeartbeat(e)
      THEN UNCHANGED <<spool, journal>>
      ELSE /\ spool' = written(e)
           /\ journal' = IF isCompletedPhase(e) THEN journal \ {e.run} ELSE journal

isAnnounced(r) == \E i \in DOMAIN announced : announced[i] = r

noteSpooled(r) == announced' = IF isAnnounced(r) THEN announced ELSE Append(announced, r)

\* Offers e to the sink.  A full sink drops a heartbeat; any other event, and the events
\* of its run that wait in the sink, are left to spool.
emit(e) ==
    IF Cardinality(sink) < SinkMax
      THEN sink' = sink \cup {e} /\ UNCHANGED spill
      ELSE IF isHeartbeat(e)
        THEN UNCHANGED <<sink, spill>>
        ELSE /\ sink' = sink \ ofRun(sink, e.run)
             /\ spill' = [spill EXCEPT ![e.run] = ofRun(sink, e.run) \cup {e}]

\* The thread that found the sink full spools what it took, oldest first, and announces the run.
SpoolOverflow(r) ==
    /\ up
    /\ \E e \in earliest(spill[r]) :
         /\ append(e)
         /\ spill' = [spill EXCEPT ![r] = @ \ {e}]
         /\ IF spill[r] = {e} THEN noteSpooled(r) ELSE UNCHANGED announced
    /\ UNCHANGED <<buildVars, sink, bootVars>>

-----------------------------------------------------------------------------
(* Builds *)

\* Numbers the next event of r in this process.
nextSeq(r) == seqs[r] + 1

numbered(r, n) ==
    /\ seqs' = [seqs EXCEPT ![r] = n]
    /\ clock' = [clock EXCEPT ![r] = IF n > @ THEN n ELSE @]

event(r, n, phase) == [run |-> r, seq |-> n, phase |-> phase]

onStarted(r) ==
    /\ up
    /\ build[r] = "NEW"
    /\ build' = [build EXCEPT ![r] = "BUILDING"]
    /\ journal' = journal \cup {r}
    /\ numbered(r, nextSeq(r))
    /\ emit(event(r, nextSeq(r), "STARTED"))
    /\ UNCHANGED <<up, spool, announced, expired, dropped, made, bootVars>>

\* The tick dates the journal entry too.
heartbeatTick(r) ==
    /\ up
    /\ build[r] = "BUILDING"
    /\ nextSeq(r) <= MaxBeat
    /\ numbered(r, nextSeq(r))
    /\ emit(event(r, nextSeq(r), "HEARTBEAT"))
    /\ expired' = expired \ (journal \cap {r})
    /\ UNCHANGED <<up, build, spool, journal, announced, dropped, made, bootVars>>

\* A week passes since a run was last seen here: its build does not run, or Jenkins does not.
WeekPasses(r) ==
    /\ r \in journal \ expired
    /\ ~up \/ build[r] # "BUILDING"
    /\ expired' = expired \cup {r}
    /\ UNCHANGED <<up, build, clock, seqs, dropped, made, sink, spill, spool, journal, announced,
                   bootVars>>

makes(r) == made' = [made EXCEPT ![r] = @ + 1]

\* The size caps drop the completion of r, however far they shorten it.
capsDrop(r) ==
    /\ dropped' = dropped \cup {r}
    /\ UNCHANGED <<clock, seqs, made, sink, spill>>

\* The listener of a build that ended in this process.
onCompleted(r) ==
    /\ up
    /\ build[r] = "BUILDING"
    /\ spill[r] = {}
    /\ build' = [build EXCEPT ![r] = "DONE"]
    /\ \/ /\ numbered(r, nextSeq(r))
          /\ makes(r)
          /\ emit(event(r, nextSeq(r), "COMPLETED"))
          /\ UNCHANGED dropped
       \/ capsDrop(r)
    /\ UNCHANGED <<up, spool, journal, announced, expired, bootVars>>

\* The completion of a build that a restart ended carries the wall clock, and so does every
\* completion without a RunState.
bootCompletedEvent(r) == event(r, clock[r] + 1, "COMPLETED")

emitsLate(r) ==
    /\ clock' = [clock EXCEPT ![r] = @ + 1]
    /\ makes(r)
    /\ emit(bootCompletedEvent(r))
    /\ UNCHANGED <<seqs, dropped>>

\* Mutant: the listener sends without a claim.
completesUnclaimed(r) ==
    /\ up
    /\ build[r] = "REFUSED"
    /\ build' = [build EXCEPT ![r] = "FINISHED"]
    /\ emitsLate(r)
    /\ UNCHANGED <<up, spool, journal, announced, expired, bootVars>>

\* The listener of a build that a restart ended: it sends the completion unless the boot reconcile
\* claimed it first.  With a journal entry, a dropped completion gives the claim back; without one the
\* claim stays.
onCompletedByRestart(r) ==
    /\ up
    /\ build[r] = "REFUSED"
    /\ build' = [build EXCEPT ![r] = "FINISHED"]
    /\ \/ r \in claimed /\ UNCHANGED <<clock, seqs, made, sink, spill, dropped, claimed>>
       \/ r \notin claimed /\ claimed' = claimed \cup {r} /\ emitsLate(r)
       \/ /\ r \notin claimed
          /\ claimed' = IF r \in journal THEN claimed ELSE claimed \cup {r}
          /\ capsDrop(r)
    /\ UNCHANGED <<up, spool, journal, announced, expired, unchecked>>

\* A user unpauses the program of a refused build, it ends, and Jenkins finishes the build a second
\* time: nothing is sent if the completion of this boot was claimed.
onCompletedAgain(r) ==
    /\ up
    /\ build[r] = "FINISHED"
    /\ unchecked = {}
    /\ r \notin claimed
    /\ build' = [build EXCEPT ![r] = "DONE"]
    /\ emitsLate(r) \/ capsDrop(r)
    /\ UNCHANGED <<up, spool, journal, announced, expired, bootVars>>

\* A resumed build counts on from the wall clock.
seedSeq(r) == clock[r]

\* Jenkins resumes a pipeline once it is up; its first heartbeat goes out at once.
attachResumedRun(r) ==
    /\ up
    /\ build[r] = "PAUSED"
    /\ unchecked = {}
    /\ build' = [build EXCEPT ![r] = "BUILDING"]
    /\ numbered(r, seedSeq(r) + 1)
    /\ emit(event(r, seedSeq(r) + 1, "HEARTBEAT"))
    /\ UNCHANGED <<up, spool, journal, announced, expired, dropped, made, bootVars>>

-----------------------------------------------------------------------------
(* Stop and boot *)

\* Jenkins ends, with its memory.  A pipeline stays to be resumed, another build is over.
EndProcess ==
    /\ up
    /\ up' = FALSE
    /\ build' = [r \in Run |-> CASE build[r] \in {"BUILDING", "PAUSED"} ->
                                     IF r \in Pipeline THEN "PAUSED" ELSE "DEAD"
                                 [] build[r] = "FINISHED" -> "DONE"
                                 [] OTHER -> build[r]]
    /\ seqs' = [r \in Run |-> 0]
    /\ sink' = {}
    /\ spill' = [r \in Run |-> {}]
    /\ announced' = <<>>
    /\ unchecked' = {}
    /\ claimed' = {}
    /\ made' = [r \in Run |-> 0]
    /\ UNCHANGED <<journal, expired, dropped>>

StopJenkins == EndProcess /\ UNCHANGED <<clock, spool>>

\* Jenkins stops inside append, between the rename of the file of a completion and the removal of the
\* journal entry.
StopInAppend(e) ==
    /\ EndProcess
    /\ isCompletedPhase(e)
    /\ spool' = written(e)
    /\ clock' = [clock EXCEPT ![e.run] = IF e.seq > @ THEN e.seq ELSE @]

\* listRuns: the runs with a spool directory, oldest first.
spooledRuns ==
    {s \in [1 .. Cardinality({e.run : e \in spool}) -> {e.run : e \in spool}] :
       \A i, j \in DOMAIN s : s[i] = s[j] => i = j}

\* How a build loads.
loadsAs(r) ==
    CASE build[r] = "PAUSED" -> {"PAUSED", "REFUSED", "GONE"}
      [] build[r] = "REFUSED" -> {"REFUSED", "DEAD", "GONE"}
      [] OTHER -> {build[r]}

\* Jenkins loads the builds and starts the dispatcher with every spooled run announced.
StartJenkins ==
    /\ ~up
    /\ up' = TRUE
    /\ build' \in {b \in [Run -> BuildState] : \A r \in Run : b[r] \in loadsAs(r)}
    /\ announced' \in spooledRuns
    /\ unchecked' = journal
    /\ UNCHANGED <<clock, seqs, sink, spill, spool, journal, claimed, expired, dropped, made>>

spoolHoldsCompleted(r) == \E e \in ofRun(spool, r) : isCompletedPhase(e)

\* The entry stays: the pipeline resumes by itself, or the listener sends the completion.
keepsEntry(r) ==
    \/ build[r] \in {"BUILDING", "PAUSED"}
    \/ endedByRestart(r) /\ r \in claimed

\* The boot reconcile ends the lost build.
endsLostBuild(r) ==
    /\ r \in unchecked \ expired
    /\ ~spoolHoldsCompleted(r)
    /\ ~keepsEntry(r)
    /\ build[r] # "GONE"

\* The completions that another thread than the dispatcher is about to append.
appendsHere ==
    {bootCompletedEvent(r) : r \in {q \in Run : endsLostBuild(q)}}
      \cup UNION {earliest(spill[r]) : r \in Run}

\* One journal entry at boot.  The claim on a build that a restart ended is given back when the size
\* caps drop the event, and the entry goes all the same.
reconcileOne(r) ==
    /\ up
    /\ r \in unchecked
    /\ unchecked' = unchecked \ {r}
    /\ \/ /\ spoolHoldsCompleted(r) \/ r \in expired \/ build[r] = "GONE"
          /\ journal' = journal \ {r}
          /\ UNCHANGED <<clock, made, spool, announced, claimed, dropped>>
       \/ /\ ~spoolHoldsCompleted(r)
          /\ r \notin expired
          /\ keepsEntry(r)
          /\ UNCHANGED <<clock, made, spool, journal, announced, claimed, dropped>>
       \/ /\ endsLostBuild(r)
          /\ claimed' = IF endedByRestart(r) THEN claimed \cup {r} ELSE claimed
          /\ clock' = [clock EXCEPT ![r] = @ + 1]
          /\ makes(r)
          /\ append(bootCompletedEvent(r))
          /\ noteSpooled(r)
          /\ UNCHANGED dropped
       \/ /\ endsLostBuild(r)
          /\ dropped' = dropped \cup {r}
          /\ journal' = journal \ {r}
          /\ UNCHANGED <<clock, made, spool, announced, claimed>>
    /\ UNCHANGED <<up, build, seqs, sink, spill, expired>>
=============================================================================
