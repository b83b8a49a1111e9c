------------------------------ MODULE EventPath ------------------------------
(***************************************************************************)
(* The build events of a cell from the build to the event stream: the      *)
(* spool of the plugin (EventSpool), the dispatcher that posts it          *)
(* (BuildEventDispatcher), and the mite and the gateway that forward it    *)
(* (EventRetention).                                                       *)
(***************************************************************************)
EXTENDS EventSpool, EventRetention

CONSTANTS
    NoRun,
    NoHandler,
    GroupMax,   \* POST_CAP_BYTES, in events
    ClearRaces, \* whether an event may be spooled between the last look at a spool and the
                \* clear of its announcement, as in the code
    Faults,     \* which faults happen
    MaxFaults   \* bound on their number

ASSUME PathAssumption ==
    /\ NoRun \notin Run
    /\ NoHandler \notin Handler
    /\ GroupMax \in Nat \ {0}
    /\ ClearRaces \in BOOLEAN
    /\ Faults \subseteq {"jenkins", "mite", "stream", "timeout", "reject", "week", "oversize"}
    /\ MaxFaults \in Nat

VARIABLES
    disp,  \* the dispatcher thread
    faults

vars == <<spoolVars, eventVars, disp, faults>>

\* hand: drained events that are not spooled yet.  todo: events of the next groups.  group:
\* events of this group without an acknowledgement.  backlog: the run whose spool it posts.
\* via: the handler whose answer it waits for.
IdleDispatcher ==
    [at |-> "IDLE", hand |-> {}, todo |-> {}, group |-> {}, backlog |-> NoRun, via |-> NoHandler]

Init ==
    /\ SpoolInit
    /\ RetentionInit
    /\ disp = IdleDispatcher
    /\ faults = 0

\* Every variable has its type.
TypeOK ==
    /\ SpoolTypeOK
    /\ RetentionTypeOK
    /\ disp \in [at : {"IDLE", "SPOOL", "POST", "WAIT", "CLEAR"}, hand : SUBSET Event,
                 todo : SUBSET Event, group : SUBSET Event, backlog : Run \cup {NoRun},
                 via : Handler \cup {NoHandler}]
    /\ faults \in 0 .. MaxFaults

-----------------------------------------------------------------------------
(* BuildEventDispatcher *)

clearAnnounced(r) ==
    announced' \in IF isAnnounced(r)
                     THEN {SubSeq(announced, 1, i - 1) \o SubSeq(announced, i + 1, Len(announced)) :
                             i \in {j \in DOMAIN announced : announced[j] = r}}
                     ELSE {announced}

\* The next group of what is left to post, the events of a run in their order.
groups(todo) ==
    {g \in SUBSET todo :
       /\ g # {}
       /\ Cardinality(g) <= GroupMax
       /\ \A e \in g, f \in todo : f.run = e.run /\ f.seq < e.seq => f \in g}

\* runOnce with a backlog: the spool of the run that was announced first.
postAnnouncedBacklog ==
    /\ up
    /\ disp.at = "IDLE"
    /\ announced # <<>>
    /\ LET r == Head(announced)
       IN  disp' = [IdleDispatcher EXCEPT
                      !.at = IF ofRun(spool, r) = {} THEN "CLEAR" ELSE "POST",
                      !.todo = ofRun(spool, r),
                      !.backlog = r]
    /\ UNCHANGED <<spoolVars, eventVars, faults>>

\* runOnce without one drains the sink.
drain ==
    /\ up
    /\ disp.at = "IDLE"
    /\ announced = <<>>
    /\ sink # {}
    /\ disp' = [IdleDispatcher EXCEPT !.at = "SPOOL", !.hand = sink]
    /\ sink' = {}
    /\ UNCHANGED <<buildVars, spill, spool, journal, announced, bootVars, eventVars, faults>>

\* A drained event is spooled, and posted unless an older backlog of its run is still to go.
spoolDrained ==
    /\ up
    /\ disp.at = "SPOOL"
    /\ \E e \in earliest(disp.hand) :
         /\ append(e)
         /\ disp' = [disp EXCEPT
                       !.at = IF disp.hand = {e} THEN "POST" ELSE @,
                       !.hand = @ \ {e},
                       !.todo = IF ~isHeartbeat(e) /\ isAnnounced(e.run) THEN @ ELSE @ \cup {e}]
    /\ UNCHANGED <<buildVars, sink, spill, announced, bootVars, eventVars, faults>>

\* The group is posted to a handler of the mite.  A new group, or the rest of one.
post(h, g) ==
    /\ handlers[h].at = "FREE"
    /\ h = CHOOSE x \in Handler : handlers[x].at = "FREE"
    /\ handlers' = [handlers EXCEPT ![h] = [at |-> "NEXT", todo |-> g, evt |-> NoEvent]]
    /\ disp' = [disp EXCEPT !.at = "WAIT", !.todo = @ \ g, !.group = g, !.via = h]
    /\ UNCHANGED <<spoolVars, session, retentionVars, acks, gatewayVars, faults>>

postWithRetry(h) ==
    /\ up
    /\ disp.at = "POST"
    /\ IF disp.group = {}
         THEN \E g \in groups(disp.todo) : post(h, g)
         ELSE post(h, disp.group)

\* Every group is acknowledged.  For a backlog, the last look at its spool: a run with new files
\* stays announced.
postDone ==
    /\ up
    /\ disp.at = "POST"
    /\ disp.group = {}
    /\ disp.todo = {}
    /\ disp' = IF disp.backlog # NoRun /\ ofRun(spool, disp.backlog) = {}
                 THEN [disp EXCEPT !.at = "CLEAR"]
                 ELSE IdleDispatcher
    /\ UNCHANGED <<spoolVars, eventVars, faults>>

\* What the thread does after an answer: what is not acknowledged is posted again, but for
\* the heartbeats.
retry(acked) ==
    disp' = [disp EXCEPT !.at = "POST", !.via = NoHandler,
               !.group = {e \in disp.group : keyOf(e) \notin acked /\ ~isHeartbeat(e)}]

awaits(h) == disp.at = "WAIT" /\ disp.via = h

\* 202: the acknowledged events leave the spool, whatever group they came with.
parseAcks(h) ==
    /\ AnswersAccepted(h)
    /\ IF awaits(h)
         THEN /\ retry(acks)
              /\ spool' = {e \in spool : keyOf(e) \notin acks}
         ELSE UNCHANGED <<disp, spool>>
    /\ UNCHANGED <<buildVars, sink, spill, journal, announced, bootVars, faults>>

\* 503.
answersUnavailable(h) ==
    /\ AnswersFull(h) \/ AnswersDisconnected(h)
    /\ IF awaits(h) THEN retry({}) ELSE UNCHANGED disp
    /\ UNCHANGED <<spoolVars, faults>>

clearBacklog ==
    /\ up
    /\ disp.at = "CLEAR"
    /\ clearAnnounced(disp.backlog)
    /\ disp' = IdleDispatcher
    /\ UNCHANGED <<buildVars, sink, spill, spool, journal, bootVars, eventVars, faults>>

-----------------------------------------------------------------------------
(* The composition *)

fault(kind) == kind \in Faults /\ faults < MaxFaults /\ faults' = faults + 1

\* A completion that the size caps drop counts as a fault.
countsDrop == IF dropped' = dropped THEN UNCHANGED faults ELSE fault("oversize")

Builds ==
    /\ \E r \in Run :
         onStarted(r) \/ heartbeatTick(r) \/ onCompleted(r) \/ onCompletedAgain(r)
    /\ countsDrop
    /\ UNCHANGED <<eventVars, disp>>

\* What Jenkins does by itself with a build it loaded.
AfterLoad(r) ==
    /\ onCompletedByRestart(r) \/ attachResumedRun(r)
    /\ countsDrop
    /\ UNCHANGED <<eventVars, disp>>

\* A thread other than the dispatcher spools events and announces their run.
Spools(r) ==
    /\ disp.at = "CLEAR" => ClearRaces
    /\ SpoolOverflow(r) \/ reconcileOne(r)
    /\ countsDrop
    /\ UNCHANGED <<eventVars, disp>>

Boots ==
    /\ StartJenkins
    /\ UNCHANGED <<eventVars, disp, faults>>

\* Jenkins comes up again, and its threads go on: the thread that spools an overflow, the boot
\* reconcile, and the end and the resume of a build that was loaded.  None of them runs without end.
PluginGoesOn ==
    \/ Boots
    \/ \E r \in Run : Spools(r) \/ AfterLoad(r)

Dispatches ==
    \/ postAnnouncedBacklog \/ drain \/ spoolDrained \/ postDone \/ clearBacklog
    \/ \E h \in Handler : postWithRetry(h)

Forwards(h) ==
    /\ ReserveNext(h) \/ ForwardHeartbeat(h) \/ SendReserved(h) \/ CommitSent(h)
    /\ UNCHANGED <<spoolVars, disp, faults>>

Answers(h) == parseAcks(h) \/ answersUnavailable(h)

Delivers ==
    /\ deliverBuildEventItem \/ handleEventAck \/ Reconnect
    /\ UNCHANGED <<spoolVars, disp, faults>>

\* The process, its dispatcher and its post end, between two steps or inside an append; the handler
\* of the post goes on.
JenkinsStops ==
    /\ fault("jenkins")
    /\ \/ StopJenkins
       \/ \E e \in appendsHere \cup earliest(disp.hand) : StopInAppend(e)
    /\ disp' = IdleDispatcher
    /\ UNCHANGED eventVars

\* A post of the dispatcher to a mite that ends fails.
MiteRestarts ==
    /\ fault("mite")
    /\ RestartMite
    /\ IF disp.at = "WAIT" THEN retry({}) ELSE UNCHANGED disp
    /\ UNCHANGED spoolVars

StreamEnds ==
    /\ fault("stream")
    /\ Disconnect
    /\ UNCHANGED <<spoolVars, disp>>

\* The post times out at the plugin while its handler goes on.
PostTimesOut ==
    /\ fault("timeout")
    /\ disp.at = "WAIT"
    /\ retry({})
    /\ UNCHANGED <<spoolVars, eventVars>>

LongPause ==
    /\ fault("week")
    /\ \E r \in Run : WeekPasses(r)
    /\ UNCHANGED <<eventVars, disp>>

GatewayRejects ==
    /\ fault("reject")
    /\ rejectBuildEvent
    /\ UNCHANGED <<spoolVars, disp>>

Next ==
    \/ Builds \/ PluginGoesOn \/ Dispatches \/ Delivers
    \/ \E h \in Handler : Forwards(h) \/ Answers(h)
    \/ JenkinsStops \/ MiteRestarts \/ StreamEnds \/ PostTimesOut \/ GatewayRejects \/ LongPause

Spec == Init /\ [][Next]_vars

-----------------------------------------------------------------------------
(* Fairness *)

\* The dispatcher retries without end.  A handler of the mite ends, the mite reconnects, and the
\* gateway publishes and acknowledges.  A build need not start or end, and no fault has to happen.
Fairness ==
    /\ WF_<<up, build, spill, unchecked>>(PluginGoesOn)
    /\ WF_disp(Dispatches)
    /\ \A h \in Handler : WF_handlers(Forwards(h) \/ Answers(h))
    /\ WF_<<session, wire, down>>(Delivers)

FairSpec == Spec /\ Fairness

-----------------------------------------------------------------------------
(* Properties *)

\* Where an event is safe: the event stream has it, or the gateway refused it for good.
settled == stored \cup refused

completionIn(events, r) == \E e \in events : e.run = r /\ isCompletedPhase(e)

\* A build that started on this cell is never forgotten: at every moment its journal entry is there,
\* for the next boot to end it, or its completion is on disk or settled.  It relates the journal,
\* which RunSpool.append and VarroaBootReconcile empty, to the spool, which eviction and the
\* acknowledgements of the mite empty, over stops of Jenkins and of the mite, inside an append too.
\* The code gives up in two cases only: a run last seen a week ago, and a completion that the size
\* caps drop.
NeverForgotten ==
    \A r \in Run :
        build[r] \notin {"NEW", "GONE"} =>
            r \in journal \cup expired \cup dropped \/ completionIn(spool \cup settled, r)

\* One process of Jenkins makes at most one completion for a build, in whatever order the listener,
\* the refused load of its program, the boot reconcile and a second finish of the build come
\* (FailedProgramLoad.claim and claimed, VarroaBootReconcile.reconcileOne).
OneCompletionPerBoot == \A r \in Run : made[r] <= 1

\* What VarroaBootReconcile.java:31 says of a stop between the two writes of an append: "A second boot
\* then finds the spooled event and sends no second one."  So a build has one completion over all
\* boots.
OneCompletion ==
    \A e, f \in spool \cup settled :
        e.run = f.run /\ isCompletedPhase(e) /\ isCompletedPhase(f) => e = f

\* totalBytes of the retention store is what the kept events and the open reservations use, though
\* reserve supersedes, release marks, and rollback and commit come late: nothing leaks, and the cap
\* never refuses for ever (eventRetention in loopback.go).
RetentionAccounted ==
    total = Cardinality(retained) + Cardinality({h \in Handler : reserved[h].charged = 1})

\* The completion of a build that ended reaches the event stream, or is refused by the gateway,
\* after any finite number of stops, timeouts and disconnects (postWithRetry, reconcileOne,
\* replayRetainedEvents), unless the code gave it up as above or the build moved to another cell.
CompletionArrives ==
    \A r \in Run :
        build[r] \in {"DONE", "DEAD", "REFUSED", "FINISHED"}
          ~> completionIn(settled, r) \/ r \in expired \cup dropped \/ build[r] = "GONE"

\* What noteSpooled says (BuildEventDispatcher.java:122): a later pass posts the backlog of the run
\* it announces.  So a completion in the spool arrives without another stop of Jenkins.
SpooledIsPosted ==
    \A r \in Run : up /\ spoolHoldsCompleted(r) ~> ~up \/ completionIn(settled, r)
=============================================================================
