----------------------------- MODULE BuildEvent -----------------------------
(***************************************************************************)
(* The build events of a run (BuildEvent.java): the plugin numbers them    *)
(* per run, and (run, seq) is the key of an event everywhere on its way.   *)
(***************************************************************************)
EXTENDS Naturals

CONSTANT Run

Phase == {"STARTED", "HEARTBEAT", "COMPLETED"}
Event == [run : Run, seq : Nat, phase : Phase]
Key == [run : Run, seq : Nat]

keyOf(e) == [run |-> e.run, seq |-> e.seq]
keysOf(events) == {keyOf(e) : e \in events}

isHeartbeat(e) == e.phase = "HEARTBEAT"
isCompletedPhase(e) == e.phase = "COMPLETED"

ofRun(events, r) == {e \in events : e.run = r}

\* The events of a set that no earlier event of the same run precedes.
earliest(events) == {e \in events : \A f \in events : f.run = e.run => e.seq <= f.seq}
=============================================================================
