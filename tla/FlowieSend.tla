----------------------------- MODULE FlowieSend -----------------------------
(***************************************************************************)
(* The way of a QoS message from fan-out to one subscriber and back        *)
(* (flowie/src/flowie_endpoint.c): the endpoint reply queue that any       *)
(* thread fills, the lane task that drains it into the connection's send   *)
(* queue, the Receive Maximum window in front of the socket, the replay of *)
(* open deliveries after a reconnect, and the acknowledgements that move   *)
(* the window.  The subscriber's session is durable and it reconnects with *)
(* Clean Start 0; packet ids are chosen freely among the unused ones, and  *)
(* replay may present the open deliveries in any order.                    *)
(***************************************************************************)
EXTENDS Integers, Sequences, FiniteSets, SequencesExt

CONSTANTS
    DeliveryIds,       \* packet ids of the broker's deliveries
    MaxSent,           \* bound: messages published
    MaxSendConnects,   \* bound: connections the subscriber opens
    SendInflight,      \* max_inflight of the session
    SendHwm,           \* pending-send limit of a connection, in packets
    ReceiveMaximum,    \* client_receive_maximum
    Persistence,       \* persistence_enabled of the endpoint
    SubscriberRefuses  \* the subscriber may refuse a QoS 2 message (PUBREC >= 0x80) or
                       \* repeat a PUBCOMP

ASSUME SendAssumption ==
    /\ IsFiniteSet(DeliveryIds)
    /\ {MaxSent, MaxSendConnects, SendInflight, SendHwm, ReceiveMaximum} \subseteq Nat \ {0}
    /\ {Persistence, SubscriberRefuses} \subseteq BOOLEAN

VARIABLES
    generation,   \* session_generation: connections opened so far
    channel,      \* "none", "open", or "closing" (closed, release still to come)
    connack_admitted,
    out,          \* the owner's deliveries by packet id
    reply_queue,  \* endpoint->send_queue
    send_queue,   \* connection->send_queue
    outbound_qos_inflight,
    wire, back,   \* bytes under way to and from the subscriber
    held,         \* subscriber: message of each QoS 2 id received and not released
    received,     \* subscriber: times each message reached the application
    exactly,      \* the messages that their publishers send with QoS 2
    fanned,       \* messages published so far
    offline,      \* of these, the ones published while the subscriber was away
    unfinished    \* ids transmitted on this connection whose exchange is still open

sendOwner == <<generation, channel, connack_admitted, out>>
queues == <<reply_queue, send_queue, outbound_qos_inflight>>
bytes == <<wire, back>>
subscriber == <<held, received>>
ghost == <<exactly, fanned, offline, unfinished>>
sendVars == <<sendOwner, queues, bytes, subscriber, ghost>>

SentMessage == 1..MaxSent
Free == [msg |-> 0, qos |-> 0, state |-> "FREE"]
Used == {p \in DeliveryIds : out[p] # Free}
FirstState(qos) == IF qos = 1 THEN "WAIT_ACK" ELSE "WAIT_PUBREC"
Carries(msg, qos, state) == [msg |-> msg, qos |-> qos, state |-> state]
\* qd is qos_delivery: the request takes a place in the Receive Maximum window.
Request(kind, p, d, qd) ==
    [kind |-> kind, id |-> p, msg |-> d.msg, qos |-> d.qos, qd |-> qd, generation |-> generation]
\* The packet a delivery replays: its PUBLISH, or the PUBREL that replaced it.
Replayed(p, d) == Request(IF d.state = "WAIT_PUBCOMP" THEN "PUBREL" ELSE "PUBLISH", p, d, TRUE)

-----------------------------------------------------------------------------
(* The connection's send queue *)

QosDeliveries(q) == Cardinality({i \in DOMAIN q : q[i].qd})

\* Mutant: off by one at the window's edge.
TransmittableOneMore(q, n) ==
    Max({k \in 0..Len(q) : \A j \in 1..k :
            q[j].qd => n + QosDeliveries(SubSeq(q, 1, j)) <= ReceiveMaximum + 1})

\* How much of queue q a drain transmits when n deliveries are unacknowledged: it stops
\* at the first QoS delivery that finds the window full.
Transmittable(q, n) ==
    Max({k \in 0..Len(q) : \A j \in 1..k :
            q[j].qd => n + QosDeliveries(SubSeq(q, 1, j)) <= ReceiveMaximum})

reply_drain(q, n, open) ==
    LET k == Transmittable(q, n)
        batch == SubSeq(q, 1, k)
    IN /\ wire' = wire \o batch
       /\ send_queue' = SubSeq(q, k + 1, Len(q))
       /\ outbound_qos_inflight' = n + QosDeliveries(batch)
       /\ unfinished' = open \union {batch[i].id : i \in {j \in DOMAIN batch : batch[j].qd}}

\* Everything behind the socket is given up; the release of the connection follows.
connection_close ==
    /\ channel' = "closing"
    /\ send_queue' = <<>>
    /\ UNCHANGED <<outbound_qos_inflight, wire, unfinished>>

\* Mutant: a PUBREL queues behind the deliveries that wait for the window.
PrioritizedLast(r) == Append(send_queue, r)

\* A PUBREL goes in front of the first QoS delivery that is still waiting.
Prioritized(r) ==
    LET waiting == {i \in DOMAIN send_queue : send_queue[i].qd}
    IN IF waiting = {} THEN Append(send_queue, r) ELSE InsertAt(send_queue, Min(waiting), r)

\* The lane leaves the drain to a later request for the same connection in the same batch.
\* n and open are what the acknowledgement under way has made of the window.
reply_defer(q, n, open) ==
    /\ send_queue' = q
    /\ outbound_qos_inflight' = n
    /\ unfinished' = open
    /\ UNCHANGED wire

schedule_reply_drain(q, n, open, batched) ==
    \/ reply_drain(q, n, open)
    \/ batched /\ reply_defer(q, n, open)

reply_enqueue_with_priority(r, prioritize, batched) ==
    \/ /\ Len(send_queue) >= SendHwm
       /\ connection_close
    \/ /\ Len(send_queue) < SendHwm
       /\ schedule_reply_drain(IF prioritize THEN Prioritized(r) ELSE Append(send_queue, r),
                               outbound_qos_inflight, unfinished, batched)
       /\ UNCHANGED channel

-----------------------------------------------------------------------------
(* Fan-out and the endpoint reply queue *)

\* A publisher's accepted message becomes a fan-out command, from whatever thread.
publish ==
    /\ fanned < MaxSent
    /\ fanned' = fanned + 1
    /\ offline' = IF generation > 0 /\ channel = "none" THEN offline \union {fanned + 1}
                                                             ELSE offline
    /\ reply_queue' = Append(reply_queue, [kind |-> "FANOUT", id |-> 0, msg |-> fanned + 1,
                                           qos |-> IF fanned + 1 \in exactly THEN 2 ELSE 1,
                                           qd |-> FALSE, generation |-> 0])
    /\ UNCHANGED <<sendOwner, send_queue, outbound_qos_inflight, bytes, subscriber, exactly,
                   unfinished>>

\* The delivery of command r to the subscriber, under packet id p.
fanout_online(r, p) ==
    LET d == Carries(r.msg, r.qos, FirstState(r.qos)) IN
    \/ \* reply_packet_validate: not before the CONNACK is queued
       /\ ~connack_admitted
       /\ out' = IF Persistence THEN [out EXCEPT ![p] = d] ELSE out
       /\ UNCHANGED <<channel, send_queue, outbound_qos_inflight, wire, unfinished>>
    \/ /\ connack_admitted
       /\ reply_enqueue_with_priority(Request("PUBLISH", p, d, TRUE), FALSE, FALSE)
       /\ out' = IF Len(send_queue) < SendHwm \/ Persistence THEN [out EXCEPT ![p] = d] ELSE out

fanout_apply(r) ==
    \/ /\ generation = 0
       /\ UNCHANGED <<channel, out, send_queue, outbound_qos_inflight, wire, unfinished>>
    \/ /\ generation > 0
       /\ Cardinality(Used) >= SendInflight
       /\ \/ channel = "open" /\ connection_close  \* slow_subscriber_disconnect
          \/ /\ channel # "open"
             /\ UNCHANGED <<channel, send_queue, outbound_qos_inflight, wire, unfinished>>
       /\ UNCHANGED out
    \/ /\ generation > 0
       /\ Cardinality(Used) < SendInflight
       /\ \E p \in DeliveryIds \ Used :
            \/ channel = "open" /\ fanout_online(r, p)
            \/ /\ channel # "open"
               /\ out' = [out EXCEPT ![p] = Carries(r.msg, r.qos, "QUEUED")]
               /\ UNCHANGED <<channel, send_queue, outbound_qos_inflight, wire, unfinished>>

\* The request behind the one being drained is a reply to the same connection.
SameConnectionNext ==
    Len(reply_queue) > 1 /\ reply_queue[2].kind # "FANOUT" /\ reply_queue[2].generation = generation

\* A CONNACK or a replayed packet: only for the connection it was made for.
wire_apply(r) ==
    \/ /\ channel # "open" \/ r.generation # generation
       /\ UNCHANGED <<channel, connack_admitted, send_queue, outbound_qos_inflight, wire,
                      unfinished>>
    \/ /\ channel = "open" /\ r.generation = generation
       /\ (r.kind = "CONNACK") # connack_admitted  \* reply_packet_validate
       /\ reply_enqueue_with_priority(r, FALSE, SameConnectionNext)
       /\ connack_admitted' = TRUE

reply_drain_task ==
    /\ reply_queue # <<>>
    /\ reply_queue' = Tail(reply_queue)
    /\ LET r == Head(reply_queue) IN
       \/ r.kind = "FANOUT" /\ fanout_apply(r) /\ UNCHANGED connack_admitted
       \/ r.kind # "FANOUT" /\ wire_apply(r) /\ UNCHANGED out
    /\ UNCHANGED <<generation, back, subscriber, exactly, fanned, offline>>

-----------------------------------------------------------------------------
(* Connections of the subscriber *)

Handed(d) == IF d.state = "QUEUED" THEN [d EXCEPT !.state = FirstState(d.qos)] ELSE d

\* CONNECT: the session's next generation, whatever became of the previous connection
\* (an open one is fenced first), then CONNACK and the replay of the open deliveries.
subscriber_connect ==
    /\ generation < MaxSendConnects
    /\ generation' = generation + 1
    /\ channel' = "open"
    /\ connack_admitted' = FALSE
    /\ out' = [p \in DeliveryIds |-> Handed(out[p])]
    /\ \E order \in SetToSeqs(Used) :
         reply_queue' = reply_queue
             \o <<[Request("CONNACK", 0, Free, FALSE) EXCEPT !.generation = generation + 1]>>
             \o [i \in DOMAIN order |->
                   [Replayed(order[i], out'[order[i]]) EXCEPT !.generation = generation + 1]]
    /\ send_queue' = <<>>
    /\ outbound_qos_inflight' = 0
    /\ wire' = <<>>
    /\ back' = <<>>
    /\ unfinished' = {}
    /\ UNCHANGED <<subscriber, exactly, fanned, offline>>

\* The network reports the end of the connection: net_connection_release closes the owner,
\* which keeps the deliveries of a durable session.
subscriber_release ==
    /\ channel # "none"
    /\ channel' = "none"
    /\ connack_admitted' = FALSE
    /\ send_queue' = <<>>
    /\ outbound_qos_inflight' = 0
    /\ back' = <<>>
    /\ unfinished' = {}
    /\ UNCHANGED <<generation, out, reply_queue, wire, subscriber, exactly, fanned, offline>>

-----------------------------------------------------------------------------
(* Acknowledgements *)

Acknowledges(a) ==
    \/ a.kind = "PUBACK" /\ out[a.id].state = "WAIT_ACK"
    \/ a.kind \in {"PUBREC", "REFUSE"} /\ out[a.id].state \in {"WAIT_PUBREC", "WAIT_PUBCOMP"}
    \/ a.kind = "PUBCOMP" /\ out[a.id].state = "WAIT_PUBCOMP"

\* Mutant: PUBREC already ends the exchange.
ReturnsAtPubrec(a) == a.kind \in {"PUBACK", "PUBREC", "PUBCOMP"}

\* PUBACK and PUBCOMP give their place in the window back.
Returns(a) == a.kind \in {"PUBACK", "PUBCOMP"}

prepare_delivery_ack ==
    /\ channel = "open"
    /\ back # <<>>
    /\ back' = Tail(back)
    /\ LET a == Head(back)
           p == a.id
       IN \/ /\ ~Acknowledges(a) \/ (Returns(a) /\ outbound_qos_inflight = 0)
             /\ connection_close
             /\ out' = IF Acknowledges(a) THEN [out EXCEPT ![p] = Free] ELSE out
          \/ /\ Acknowledges(a) /\ Returns(a) /\ outbound_qos_inflight > 0
             /\ out' = [out EXCEPT ![p] = Free]
             /\ schedule_reply_drain(send_queue, outbound_qos_inflight - 1, unfinished \ {p},
                                     Len(back) > 1)
             /\ UNCHANGED channel
          \/ /\ Acknowledges(a) /\ a.kind = "REFUSE"
             /\ out' = [out EXCEPT ![p] = Free]
             /\ schedule_reply_drain(send_queue, outbound_qos_inflight, unfinished \ {p},
                                     Len(back) > 1)
             /\ UNCHANGED channel
          \/ /\ Acknowledges(a) /\ a.kind = "PUBREC"
             /\ out' = [out EXCEPT ![p].state = "WAIT_PUBCOMP"]
             /\ reply_enqueue_with_priority(Request("PUBREL", p, out[p], FALSE), TRUE, Len(back) > 1)
    /\ UNCHANGED <<generation, connack_admitted, reply_queue, subscriber, exactly, fanned, offline>>

\* The subscriber (outside this repository) follows MQTT: it answers every packet in
\* order, and hands a QoS 2 message to its application when its id is not yet held.
subscriber_step ==
    /\ wire # <<>>
    /\ wire' = Tail(wire)
    /\ LET r == Head(wire)
           answer(kind) == back' = Append(back, [kind |-> kind, id |-> r.id])
           deliver == received' = [received EXCEPT ![r.msg] = @ + 1]
       IN \/ r.kind = "CONNACK" /\ UNCHANGED <<back, subscriber>>
          \/ r.kind = "PUBLISH" /\ r.qos = 1 /\ deliver /\ answer("PUBACK") /\ UNCHANGED held
          \/ /\ r.kind = "PUBLISH" /\ r.qos = 2 /\ held[r.id] = 0
             /\ deliver /\ answer("PUBREC") /\ held' = [held EXCEPT ![r.id] = r.msg]
          \/ /\ r.kind = "PUBLISH" /\ r.qos = 2 /\ held[r.id] = 0 /\ SubscriberRefuses
             /\ answer("REFUSE") /\ UNCHANGED subscriber
          \/ /\ r.kind = "PUBLISH" /\ r.qos = 2 /\ held[r.id] # 0
             /\ answer("PUBREC") /\ UNCHANGED subscriber
          \/ /\ r.kind = "PUBREL"
             /\ answer("PUBCOMP") /\ held' = [held EXCEPT ![r.id] = 0] /\ UNCHANGED received
          \/ /\ r.kind = "PUBREL" /\ SubscriberRefuses
             /\ back' = back \o <<[kind |-> "PUBCOMP", id |-> r.id], [kind |-> "PUBCOMP", id |-> r.id]>>
             /\ held' = [held EXCEPT ![r.id] = 0] /\ UNCHANGED received
    /\ UNCHANGED <<sendOwner, queues, ghost>>

-----------------------------------------------------------------------------
SendInit ==
    /\ generation = 0 /\ channel = "none" /\ connack_admitted = FALSE
    /\ out = [p \in DeliveryIds |-> Free]
    /\ reply_queue = <<>> /\ send_queue = <<>> /\ outbound_qos_inflight = 0
    /\ wire = <<>> /\ back = <<>>
    /\ held = [p \in DeliveryIds |-> 0]
    /\ received = [m \in SentMessage |-> 0]
    /\ exactly \in SUBSET SentMessage
    /\ fanned = 0 /\ offline = {} /\ unfinished = {}

SendNext ==
    \/ publish
    \/ reply_drain_task
    \/ subscriber_connect
    \/ subscriber_release
    \/ prepare_delivery_ack
    \/ subscriber_step

\* The executor runs every posted task and every received packet, the network layer
\* reports the end of a connection the broker has closed, and the subscriber answers.
SendFairness ==
    /\ WF_sendVars(reply_drain_task)
    /\ WF_sendVars(prepare_delivery_ack)
    /\ WF_sendVars(channel = "closing" /\ subscriber_release)
    /\ WF_sendVars(subscriber_step)

SendSpec == SendInit /\ [][SendNext]_sendVars /\ SendFairness

-----------------------------------------------------------------------------
(* Properties *)

RequestType ==
    [kind: {"CONNACK", "PUBLISH", "PUBREL", "FANOUT"}, id: DeliveryIds \union {0}, msg: 0..MaxSent,
     qos: 0..2, qd: BOOLEAN, generation: 0..MaxSendConnects]

\* Every variable of the send path has its type.
SendTypeOK ==
    /\ generation \in 0..MaxSendConnects
    /\ channel \in {"none", "open", "closing"}
    /\ connack_admitted \in BOOLEAN
    /\ out \in [DeliveryIds -> [msg: 0..MaxSent, qos: 0..2,
                       state: {"FREE", "QUEUED", "WAIT_ACK", "WAIT_PUBREC", "WAIT_PUBCOMP"}]]
    /\ \A q \in {reply_queue, send_queue, wire} : \A i \in DOMAIN q : q[i] \in RequestType
    /\ \A i \in DOMAIN back :
         back[i] \in [kind: {"PUBACK", "PUBREC", "REFUSE", "PUBCOMP"}, id: DeliveryIds]
    /\ outbound_qos_inflight \in 0..ReceiveMaximum
    /\ held \in [DeliveryIds -> 0..MaxSent]
    /\ received \in [SentMessage -> Nat]
    /\ exactly \subseteq SentMessage /\ offline \subseteq SentMessage
    /\ fanned \in 0..MaxSent /\ unfinished \subseteq DeliveryIds

\* A QoS 2 message reaches the subscriber's application at most once, across lost
\* connections, takeovers and replays of the same session.
AtMostOnce == \A m \in exactly : received[m] <= 1

\* A packet id on the wire never means a message other than the one the subscriber still
\* holds under that id: the owner frees and reissues an id only when the subscriber has
\* finished with it, wherever connections broke in between.  With it, a QoS 2 message
\* reaches the application at most once.
IdUnambiguous ==
    /\ AtMostOnce
    /\ \A i \in DOMAIN wire :
        wire[i].kind = "PUBLISH" /\ wire[i].qos = 2 =>
            LET p == wire[i].id
                released == \E j \in 1..(i - 1) : wire[j].kind = "PUBREL" /\ wire[j].id = p
            IN held[p] = 0 \/ held[p] = wire[i].msg \/ released

\* However fan-out, replay and acknowledgements interleave, the exchanges open on the wire
\* never exceed the Receive Maximum the subscriber announced (OWNER-004 of the test
\* matrix).  And a connection carries packets of its own session generation only, starting
\* with one CONNACK: nothing queued for a connection that was taken over or lost reaches
\* its successor, and no fan-out overtakes the CONNACK.
WindowFenced ==
    /\ SendTypeOK
    /\ Cardinality(unfinished) <= ReceiveMaximum
    /\ \A q \in {send_queue, wire} : \A i \in DOMAIN q : q[i].generation = generation
    /\ (send_queue # <<>> \/ unfinished # {}) => connack_admitted
    /\ \A i \in DOMAIN wire : wire[i].kind = "CONNACK" => i = 1

Waiting(p) == \E i \in DOMAIN send_queue : send_queue[i].id = p /\ send_queue[i].qd

\* A delivery waiting in the send queue of a connection is eventually transmitted, and an
\* exchange opened on it completed by its acknowledgements, or the connection ends: the
\* window always reopens, because the PUBREL that completes an open exchange is never
\* stuck behind the deliveries that wait for the window.
QueueAdvances ==
    \A p \in DeliveryIds : []<>~Waiting(p) /\ []<>(p \notin unfinished)

\* A message published for the durable session while its subscriber is away reaches the
\* subscriber once it is back and stays connected.
OfflineDelivered ==
    \A m \in SentMessage : <>[](channel = "open") => [](m \in offline => <>(received[m] > 0))

=============================================================================
