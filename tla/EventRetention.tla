--------------------------- MODULE EventRetention ---------------------------
(***************************************************************************)
(* The way of a build event from the loopback server of the mite to the    *)
(* stream of build events: the handlers of POST /v1/events, the store of   *)
(* forwarded and not acknowledged events with its reservations, and the    *)
(* buffer of acknowledgements (cmd/mite/loopback.go); the session with the *)
(* gateway, its publish worker and the acknowledgement it sends            *)
(* (internal/mite/build_events.go).                                        *)
(*                                                                         *)
(* A handler reserves room for an event, sends it and commits it, one      *)
(* event after the other.  Two handlers are at work when a post timed out  *)
(* at the plugin and is repeated.  An event has one body, so every event   *)
(* counts one toward the cap, and a repeated event counts nothing more.    *)
(***************************************************************************)
EXTENDS BuildEvent, Sequences, FiniteSets

CONSTANTS
    NoEvent,
    NoKey,
    Handler,   \* requests to /v1/events that the mite serves at a time
    RetainMax, \* VARROA_MITE_EVENT_RETAIN_BYTES, in events
    QueueMax   \* the stream's flow control and maxQueueEnvelopes, in events

ASSUME RetentionAssumption ==
    /\ NoEvent \notin Event
    /\ NoKey \notin Key
    /\ IsFiniteSet(Handler)
    /\ RetainMax \in Nat
    /\ QueueMax \in Nat \ {0}

VARIABLES
    session,  \* whether the mite has a stream to the gateway
    handlers, \* what each handler has still to forward, and where it stands
    reserved, \* pending: the open reservation of each handler
    retained, \* byKey: events sent and not acknowledged
    total,    \* totalBytes, in events
    acks,     \* the ackBuffer, of keys
    wire,     \* events on the stream and in the queue of the publish worker
    down,     \* acknowledgements, by key, on their way to the mite
    stored,   \* events JetStream acknowledged, but for the heartbeats
    refused   \* events the gateway answered with REJECTED

retentionVars == <<reserved, retained, total>>
gatewayVars == <<wire, down, stored, refused>>
eventVars == <<session, handlers, retentionVars, acks, gatewayVars>>

NoReservation == [key |-> NoKey, charged |-> 0, acked |-> FALSE]
FreeHandler == [at |-> "FREE", todo |-> {}, evt |-> NoEvent]

RetentionInit ==
    /\ session = TRUE
    /\ handlers = [h \in Handler |-> FreeHandler]
    /\ reserved = [h \in Handler |-> NoReservation]
    /\ retained = {}
    /\ total = 0
    /\ acks = {}
    /\ wire = <<>>
    /\ down = <<>>
    /\ stored = {}
    /\ refused = {}

RetentionTypeOK ==
    /\ session \in BOOLEAN
    /\ handlers \in [Handler -> [at : {"FREE", "NEXT", "SEND", "COMMIT"}, todo : SUBSET Event,
                                 evt : Event \cup {NoEvent}]]
    /\ reserved \in [Handler -> [key : Key \cup {NoKey}, charged : 0 .. 1, acked : BOOLEAN]]
    /\ retained \in SUBSET Event
    /\ total \in Nat
    /\ acks \in SUBSET Key
    /\ wire \in Seq(Event)
    /\ down \in Seq(Key)
    /\ stored \in SUBSET Event
    /\ refused \in SUBSET Event

-----------------------------------------------------------------------------
(* The retention store *)

\* The handlers with an open reservation of a key (openByKey), at most one.
openOn(k) == {h \in Handler : reserved[h].key = k}

\* Mutant: the reservation that a newer one supersedes keeps its charge.
forgetsRefund(k) == total

\* Mutant: the reservation that a newer one supersedes is refunded though it was not charged.
refundsUncharged(k) == IF openOn(k) # {} THEN total - 1 ELSE total

\* totalBytes once the reservation that a new one supersedes is refunded.
refunded(k) == IF \E h \in openOn(k) : reserved[h].charged = 1 THEN total - 1 ELSE total

\* What one more event with key k adds to the store.
delta(k) == IF k \in keysOf(retained) THEN 0 ELSE 1

fits(k) == delta(k) = 0 \/ refunded(k) + delta(k) <= RetainMax

\* The open reservations without the one of k.
closed(k) == [h \in Handler |-> IF reserved[h].key = k THEN NoReservation ELSE reserved[h]]

reserve(h, k) ==
    /\ total' = refunded(k) + delta(k)
    /\ reserved' = [closed(k) EXCEPT ![h] = [key |-> k, charged |-> delta(k), acked |-> FALSE]]
    /\ UNCHANGED retained

\* The cap refuses the event.  The reservation that the call superseded stays closed.
refuseReserve(k) ==
    /\ total' = refunded(k)
    /\ reserved' = closed(k)
    /\ UNCHANGED retained

\* A reservation that was superseded is not open any more: no effect.
rollback(h) ==
    /\ total' = total - reserved[h].charged
    /\ reserved' = [reserved EXCEPT ![h] = NoReservation]
    /\ UNCHANGED retained

without(k) == {e \in retained : keyOf(e) # k}

\* Keeps e, which was sent under the reservation of h, unless it is acknowledged by now.
commit(h, e) ==
    LET p == reserved[h]
    IN  /\ reserved' = [reserved EXCEPT ![h] = NoReservation]
        /\ IF p.key = NoKey \/ p.acked
             THEN total' = total - p.charged /\ UNCHANGED retained
             ELSE /\ total' = total + delta(p.key) - p.charged
                  /\ retained' = without(p.key) \cup {e}

\* Mutant: an acknowledgement of an event that is not committed yet is forgotten.
releasesCommitted(k) ==
    /\ retained' = without(k)
    /\ total' = IF k \in keysOf(retained) THEN total - 1 ELSE total
    /\ UNCHANGED reserved

\* An acknowledged event leaves the store.  One that is not committed yet is marked on
\* its reservation.
release(k) ==
    IF k \in keysOf(retained)
      THEN /\ retained' = without(k)
           /\ total' = total - 1
           /\ UNCHANGED reserved
      ELSE /\ reserved' = [h \in Handler |-> IF reserved[h].key = k
                                               THEN [reserved[h] EXCEPT !.acked = TRUE]
                                               ELSE reserved[h]]
           /\ UNCHANGED <<retained, total>>

-----------------------------------------------------------------------------
(* The handlers of POST /v1/events *)

\* The next event of the post: room is reserved for it.
ReserveNext(h) ==
    /\ handlers[h].at = "NEXT"
    /\ \E e \in earliest(handlers[h].todo) :
         /\ ~isHeartbeat(e)
         /\ fits(keyOf(e))
         /\ reserve(h, keyOf(e))
         /\ handlers' = [handlers EXCEPT ![h] = [at |-> "SEND", todo |-> @.todo \ {e}, evt |-> e]]
    /\ UNCHANGED <<session, acks, gatewayVars>>

\* A heartbeat is sent without a reservation, or dropped.
ForwardHeartbeat(h) ==
    /\ handlers[h].at = "NEXT"
    /\ \E e \in earliest(handlers[h].todo) :
         /\ isHeartbeat(e)
         /\ handlers' = [handlers EXCEPT ![h].todo = @ \ {e}]
         /\ IF session
              THEN Len(wire) < QueueMax /\ wire' = Append(wire, e)
              ELSE UNCHANGED wire
    /\ UNCHANGED <<session, retentionVars, acks, down, stored, refused>>

\* The reserved event goes out on the session.
SendReserved(h) ==
    /\ handlers[h].at = "SEND"
    /\ session
    /\ Len(wire) < QueueMax
    /\ wire' = Append(wire, handlers[h].evt)
    /\ handlers' = [handlers EXCEPT ![h].at = "COMMIT"]
    /\ UNCHANGED <<session, retentionVars, acks, down, stored, refused>>

CommitSent(h) ==
    /\ handlers[h].at = "COMMIT"
    /\ commit(h, handlers[h].evt)
    /\ handlers' = [handlers EXCEPT ![h] = [at |-> "NEXT", todo |-> @.todo, evt |-> NoEvent]]
    /\ UNCHANGED <<session, acks, gatewayVars>>

\* 503: the cap refuses the next event.
AnswersFull(h) ==
    /\ handlers[h].at = "NEXT"
    /\ \E e \in earliest(handlers[h].todo) :
         /\ ~isHeartbeat(e)
         /\ ~fits(keyOf(e))
         /\ refuseReserve(keyOf(e))
    /\ handlers' = [handlers EXCEPT ![h] = FreeHandler]
    /\ UNCHANGED <<session, acks, gatewayVars>>

\* 503: there is no session to send on.
AnswersDisconnected(h) ==
    /\ handlers[h].at = "SEND"
    /\ ~session
    /\ rollback(h)
    /\ handlers' = [handlers EXCEPT ![h] = FreeHandler]
    /\ UNCHANGED <<session, acks, gatewayVars>>

\* 202 with every buffered acknowledgement.
AnswersAccepted(h) ==
    /\ handlers[h].at = "NEXT"
    /\ handlers[h].todo = {}
    /\ acks' = {}
    /\ handlers' = [handlers EXCEPT ![h] = FreeHandler]
    /\ UNCHANGED <<session, retentionVars, gatewayVars>>

-----------------------------------------------------------------------------
(* The gateway *)

sendEventAck(e) ==
    /\ Len(down) < QueueMax
    /\ down' = Append(down, keyOf(e))

\* The publish worker takes the oldest event, publishes it until JetStream acknowledges
\* it, and acknowledges it.  A heartbeat is never acknowledged.
deliverBuildEventItem ==
    /\ session
    /\ wire # <<>>
    /\ wire' = Tail(wire)
    /\ IF isHeartbeat(Head(wire))
         THEN UNCHANGED <<down, stored>>
         ELSE stored' = stored \cup {Head(wire)} /\ sendEventAck(Head(wire))
    /\ UNCHANGED <<session, handlers, retentionVars, acks, refused>>

\* A tenant the cell does not host, or an event that does not fit a message: REJECTED.
rejectBuildEvent ==
    /\ session
    /\ wire # <<>>
    /\ ~isHeartbeat(Head(wire))
    /\ wire' = Tail(wire)
    /\ refused' = refused \cup {Head(wire)}
    /\ sendEventAck(Head(wire))
    /\ UNCHANGED <<session, handlers, retentionVars, acks, stored>>

handleEventAck ==
    /\ session
    /\ down # <<>>
    /\ down' = Tail(down)
    /\ release(Head(down))
    /\ acks' = acks \cup {Head(down)}
    /\ UNCHANGED <<session, handlers, wire, stored, refused>>

\* The stream ends: what is on it, and in the worker of the connection, is gone.
Disconnect ==
    /\ session
    /\ session' = FALSE
    /\ wire' = <<>>
    /\ down' = <<>>
    /\ UNCHANGED <<handlers, retentionVars, acks, stored, refused>>

\* The events a reconnect sends again, each run in the order of its events.
replayRetainedEvents ==
    {s \in [1 .. Cardinality(retained) -> retained] :
       /\ \A i, j \in DOMAIN s : s[i] = s[j] => i = j
       /\ \A i, j \in DOMAIN s : s[i].run = s[j].run /\ s[i].seq < s[j].seq => i < j}

\* A reconnect waits for five seconds: a handler that sent on the old stream has committed.
Reconnect ==
    /\ ~session
    /\ \A h \in Handler : handlers[h].at # "COMMIT"
    /\ session' = TRUE
    /\ wire' \in replayRetainedEvents
    /\ UNCHANGED <<handlers, retentionVars, acks, down, stored, refused>>

\* The mite process ends with everything it held.
RestartMite ==
    /\ session' = FALSE
    /\ handlers' = [h \in Handler |-> FreeHandler]
    /\ reserved' = [h \in Handler |-> NoReservation]
    /\ retained' = {}
    /\ total' = 0
    /\ acks' = {}
    /\ wire' = <<>>
    /\ down' = <<>>
    /\ UNCHANGED <<stored, refused>>
=============================================================================
