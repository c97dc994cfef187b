---------------------------- MODULE FlowieInbound ----------------------------
(***************************************************************************)
(* QoS 1 and QoS 2 messages from one publisher into the broker: the        *)
(* session owner's inbound inflight records (flowie/src/flowie_session.c), *)
(* the packet handlers that settle and acknowledge them                    *)
(* (flowie/src/flowie_endpoint.c), the ingress pump that runs a handler,   *)
(* the application dispatch and its completion as one lane step            *)
(* (flowie/src/flowie_ingress.c), and what survives a lost connection, a   *)
(* takeover and a restart.  Persistence is on: a handler commits a copy of *)
(* the owner before it answers.  The publisher, which is not part of the   *)
(* repository, speaks MQTT 5, reconnects with Clean Start 0, keeps to the  *)
(* Receive Maximum of the CONNACK and resends what was not acknowledged.   *)
(***************************************************************************)
EXTENDS Integers, Sequences, FiniteSets

CONSTANTS
    Ids,           \* packet ids of the publisher
    MaxMessages,   \* bound: messages published
    MaxInflight,   \* max_inflight_per_session, announced as Receive Maximum
    MaxFaults,     \* bound: faults in one behaviour
    Faults,        \* the kinds of fault that may happen
    Policies,      \* the settlement points an operator may configure
    Patience,      \* whether a publisher waits until the broker has noticed a lost connection
    Refusals       \* the PUBLISH packets rights or quotas may refuse: "new", "repeated"

ASSUME InboundAssumption ==
    /\ IsFiniteSet(Ids)
    /\ {MaxMessages, MaxInflight} \subseteq Nat \ {0} /\ MaxFaults \in Nat
    /\ Faults \subseteq {"begin", "settle", "dispatch", "pubrel", "close", "loss", "takeover", "restart"}
    /\ Policies \subseteq {"received", "accepted", "processed"}
    /\ Patience \subseteq BOOLEAN /\ Refusals \subseteq {"new", "repeated"}

VARIABLES
    policy, patient,  \* chosen once per behaviour
    session,          \* "absent", "known", or "restored" from its row and not yet opened
    active,           \* owner->active
    connection,       \* "none", "open", or "closing" (closed, release still to come)
    inflight,         \* owner->inflight by packet id; msg is a ghost
    requests, replies,  \* bytes under way to the broker and back
    client,           \* publisher: the exchange it has open under each packet id
    exact,            \* the messages published with QoS 2
    published,        \* messages published so far
    handed,           \* messages handed to the application graph
    settled,          \* times the owner settled each message: never, once, or more often
    acked,            \* messages the publisher saw acknowledged (PUBACK or PUBREC)
    misled,           \* the publisher was told its session is gone although it was resumed
    faults            \* faults so far

choice == <<policy, patient, exact>>
owner == <<session, active, inflight>>
network == <<requests, replies>>
publisher == <<client, published, acked, misled>>
graph == <<handed, settled>>
vars == <<choice, owner, connection, network, publisher, graph, faults>>

Message == 1..MaxMessages
Absent == [qos |-> 0, state |-> "ABSENT", msg |-> 0]
Record(m, qos, state) == [qos |-> qos, state |-> state, msg |-> m]
Recorded == {p \in Ids : inflight[p] # Absent}
Idle == [stage |-> "idle", qos |-> 0, msg |-> 0]
Outstanding == {p \in Ids : client[p] # Idle}
Reply(kind, p) == Append(replies, [kind |-> kind, id |-> p])

\* One of the faults of this model happens (or, for {}, none).
Happen(kinds) ==
    /\ kinds \subseteq Faults
    /\ faults + Cardinality(kinds) <= MaxFaults
    /\ faults' = faults + Cardinality(kinds)

-----------------------------------------------------------------------------
(* The owner's inbound records *)

\* Settlement: PUBACK ends the exchange, PUBREC leaves the id to the coming PUBREL.
publish_settle(inf, p) ==
    [inf EXCEPT ![p] = IF @.qos = 1 THEN Absent ELSE [@ EXCEPT !.state = "QOS2_RELEASE"]]

AckOf(qos) == IF qos = 1 THEN "PUBACK" ELSE "PUBREC"

\* Mutant: a closing owner keeps no inbound record at all.
inflight_clear_all(inf) == [p \in Ids |-> Absent]

\* Owner close and the persisted row keep settled QoS 2 ids only.
inflight_clear(inf) == [p \in Ids |-> IF inf[p].state = "QOS2_RELEASE" THEN inf[p] ELSE Absent]

-----------------------------------------------------------------------------
(* Packets from the publisher *)

\* A handler failed: replies already queued are drained, then the connection is closed.
fail_connection == connection' = "closing" /\ requests' = <<>>

next_request == requests' = Tail(requests) /\ UNCHANGED connection

\* Rights or the retained quota refuse the message before the owner sees it.
refuse_publish(r) ==
    /\ (IF inflight[r.id] = Absent THEN "new" ELSE "repeated") \in Refusals
    /\ replies' = Reply("REFUSED", r.id)
    /\ next_request
    /\ UNCHANGED <<inflight, graph, faults>>

\* publish_begin finds the id in use.
repeat_publish(r) ==
    /\ inflight[r.id] # Absent
    /\ LET e == inflight[r.id] IN
       \/ /\ ~r.dup \/ e.qos # r.qos
          /\ fail_connection /\ UNCHANGED replies
       \/ /\ r.dup /\ e.qos = r.qos
          /\ replies' = IF e.state = "QOS2_RELEASE" THEN Reply("PUBREC", r.id) ELSE replies
          /\ next_request
    /\ UNCHANGED <<inflight, graph, faults>>

\* publish_begin finds no room, or its record cannot be saved.
reject_publish(r) ==
    /\ inflight[r.id] = Absent
    /\ IF Cardinality(Recorded) >= MaxInflight THEN Happen({}) ELSE Happen({"begin"})
    /\ fail_connection
    /\ UNCHANGED <<inflight, replies, graph>>

\* Whether the owner settles a message when the steps in bad fail: at once (received),
\* after the dispatch (processed), or on a command nobody sends (accepted).
Settles(bad) ==
    /\ "settle" \notin bad
    /\ policy = "received" \/ (policy = "processed" /\ "dispatch" \notin bad)

\* publish_begin, the settlement its policy asks for, the dispatch to the application
\* graph, and publish_complete.
admit_publish(r) ==
    /\ inflight[r.id] = Absent /\ Cardinality(Recorded) < MaxInflight
    /\ \E bad \in SUBSET {"settle", "dispatch"} :
         LET begun == [inflight EXCEPT ![r.id] = Record(r.msg, r.qos, "SETTLEMENT")]
             dispatched == "dispatch" \notin bad /\ ~(policy = "received" /\ "settle" \in bad)
         IN /\ Happen(bad)
            /\ inflight' = IF Settles(bad) THEN publish_settle(begun, r.id) ELSE begun
            /\ replies' = IF Settles(bad) THEN Reply(AckOf(r.qos), r.id) ELSE replies
            /\ settled' = IF Settles(bad) THEN [settled EXCEPT ![r.msg] = IF @ = 0 THEN 1 ELSE 2] ELSE settled
            /\ handed' = IF dispatched THEN handed \union {r.msg} ELSE handed
            /\ IF bad = {} THEN next_request ELSE fail_connection

prepare_publish ==
    /\ connection = "open" /\ requests # <<>> /\ Head(requests).kind = "PUBLISH"
    /\ LET r == Head(requests) IN
       refuse_publish(r) \/ repeat_publish(r) \/ reject_publish(r) \/ admit_publish(r)
    /\ UNCHANGED <<choice, session, active, publisher>>

\* Mutant: an id without a record is a protocol error.
qos2_release_known(p) ==
    \/ /\ inflight[p].state = "QOS2_RELEASE" /\ Happen({})
       /\ inflight' = [inflight EXCEPT ![p] = Absent]
       /\ replies' = Reply("PUBCOMP", p) /\ next_request
    \/ /\ inflight[p].state # "QOS2_RELEASE" /\ Happen({})
       /\ fail_connection /\ UNCHANGED <<inflight, replies>>

\* PUBREL: the record goes and PUBCOMP answers; an unknown id is answered as well.
qos2_release(p) ==
    \/ /\ inflight[p].state # "SETTLEMENT" /\ Happen({})
       /\ inflight' = [inflight EXCEPT ![p] = Absent]
       /\ replies' = Reply("PUBCOMP", p) /\ next_request
    \/ /\ \/ inflight[p].state = "SETTLEMENT" /\ Happen({})
          \/ inflight[p].state = "QOS2_RELEASE" /\ Happen({"pubrel"})
       /\ fail_connection /\ UNCHANGED <<inflight, replies>>

prepare_pubrel ==
    /\ connection = "open" /\ requests # <<>> /\ Head(requests).kind = "PUBREL"
    /\ qos2_release(Head(requests).id)
    /\ UNCHANGED <<choice, session, active, publisher, graph>>

-----------------------------------------------------------------------------
(* Connections of the publisher *)

\* What a publisher sends again: the PUBLISH with DUP set, or the PUBREL.
Resent(p, c) ==
    IF c.stage = "release"
    THEN [kind |-> "PUBREL", id |-> p, msg |-> c.msg, qos |-> 2, dup |-> FALSE]
    ELSE [kind |-> "PUBLISH", id |-> p, msg |-> c.msg, qos |-> c.qos, dup |-> TRUE]

\* CONNECT, Clean Start 0.  An owner whose connection is still there is taken over, one
\* that is active without a connection refuses (EALREADY).  CONNACK says Session Present
\* for an initialized owner only; otherwise the publisher discards its side of the session.
connect ==
    /\ patient => connection = "none"
    /\ connection = "none" => ~active
    /\ IF connection = "open" THEN Happen({"takeover"}) ELSE Happen({})
    /\ session' = "known" /\ active' = TRUE /\ connection' = "open"
    /\ misled' = (misled \/ session = "restored")
    /\ client' = IF session = "known" THEN client ELSE [p \in Ids |-> Idle]
    /\ \E order \in [1..Cardinality(Outstanding) -> Outstanding] :
         /\ \A i, j \in DOMAIN order : i < j => client[order[i]].msg < client[order[j]].msg
         /\ requests' = IF session = "known"
                        THEN [i \in DOMAIN order |-> Resent(order[i], client[order[i]])]
                        ELSE <<>>
    /\ replies' = <<>>
    /\ UNCHANGED <<choice, inflight, published, acked, graph>>

\* The network reports the end of a connection, closed by the broker or lost: the owner is
\* closed in a copy, and stays as it was when the copy cannot be saved.
net_connection_release ==
    /\ connection # "none"
    /\ \E save \in {{}, {"close"}} :
         /\ IF connection = "open" THEN Happen(save \union {"loss"}) ELSE Happen(save)
         /\ active' = (save # {})
         /\ inflight' = IF save = {} THEN inflight_clear(inflight) ELSE inflight
    /\ connection' = "none" /\ requests' = <<>>
    /\ UNCHANGED <<choice, session, replies, publisher, graph>>

\* The broker stops or crashes and restores its sessions from their rows.
restart ==
    /\ Happen({"restart"})
    /\ session' = IF session = "absent" THEN "absent" ELSE "restored"
    /\ active' = FALSE
    /\ inflight' = inflight_clear(inflight)
    /\ connection' = "none" /\ requests' = <<>> /\ replies' = <<>>
    /\ UNCHANGED <<choice, publisher, graph>>

-----------------------------------------------------------------------------
(* The publisher *)

client_publish ==
    /\ connection = "open"
    /\ published < MaxMessages
    /\ Cardinality(Outstanding) < MaxInflight
    /\ published' = published + 1
    /\ \E p \in Ids \ Outstanding :
         LET qos == IF published + 1 \in exact THEN 2 ELSE 1 IN
         /\ client' = [client EXCEPT ![p] = [stage |-> "publish", qos |-> qos, msg |-> published + 1]]
         /\ requests' = Append(requests, [kind |-> "PUBLISH", id |-> p, msg |-> published + 1,
                                          qos |-> qos, dup |-> FALSE])
    /\ UNCHANGED <<choice, owner, connection, replies, acked, misled, graph, faults>>

\* The publisher reads one reply; it may still do so after the broker has closed.
client_receive ==
    /\ replies # <<>>
    /\ replies' = Tail(replies)
    /\ LET a == Head(replies)
           c == client[a.id]
           finish == client' = [client EXCEPT ![a.id] = Idle] /\ UNCHANGED requests
       IN \/ /\ a.kind = "PUBACK" /\ c.stage = "publish" /\ c.qos = 1
             /\ finish /\ acked' = acked \union {c.msg}
          \/ /\ a.kind = "PUBREC" /\ c.stage # "idle" /\ c.qos = 2
             /\ client' = [client EXCEPT ![a.id].stage = "release"]
             /\ requests' = IF connection = "open"
                            THEN Append(requests, Resent(a.id, [c EXCEPT !.stage = "release"]))
                            ELSE requests
             /\ acked' = acked \union {c.msg}
          \/ a.kind = "PUBCOMP" /\ c.stage = "release" /\ finish /\ UNCHANGED acked
          \/ a.kind = "REFUSED" /\ c.stage = "publish" /\ finish /\ UNCHANGED acked
          \/ /\ \/ a.kind \in {"PUBREC", "PUBACK"} /\ c.stage = "idle"
                \/ a.kind = "PUBCOMP" /\ c.stage # "release"
                \/ a.kind = "REFUSED" /\ c.stage # "publish"
             /\ UNCHANGED <<client, requests, acked>>
    /\ UNCHANGED <<choice, owner, connection, published, misled, graph, faults>>

-----------------------------------------------------------------------------
Init ==
    /\ policy \in Policies /\ patient \in Patience /\ exact \in SUBSET Message
    /\ session = "absent" /\ active = FALSE /\ connection = "none"
    /\ inflight = [p \in Ids |-> Absent]
    /\ requests = <<>> /\ replies = <<>>
    /\ client = [p \in Ids |-> Idle]
    /\ published = 0 /\ acked = {} /\ misled = FALSE /\ faults = 0
    /\ handed = {} /\ settled = [m \in Message |-> 0]

Next ==
    \/ prepare_publish
    \/ prepare_pubrel
    \/ connect
    \/ net_connection_release
    \/ restart
    \/ client_publish
    \/ client_receive

\* The lane handles every packet received, the network reports the end of a connection the
\* broker has closed, and the publisher reads its replies and reconnects.
Fairness ==
    /\ WF_vars(prepare_publish)
    /\ WF_vars(prepare_pubrel)
    /\ WF_vars(connection = "closing" /\ net_connection_release)
    /\ WF_vars(connection # "open" /\ connect)
    /\ WF_vars(client_receive)

Spec == Init /\ [][Next]_vars /\ Fairness

-----------------------------------------------------------------------------
(* Properties *)

\* Every variable has its type; only QoS 2 records wait for a PUBREL, which is what lets a
\* stored row name packet ids without their state.
TypeOK ==
    /\ policy \in Policies /\ patient \in Patience /\ exact \subseteq Message
    /\ session \in {"absent", "known", "restored"} /\ active \in BOOLEAN
    /\ connection \in {"none", "open", "closing"}
    /\ \A p \in Ids : \/ inflight[p] = Absent
                      \/ inflight[p] \in [qos: {1, 2}, state: {"SETTLEMENT"}, msg: Message]
                      \/ inflight[p] \in [qos: {2}, state: {"QOS2_RELEASE"}, msg: Message]
    /\ Cardinality(Recorded) <= MaxInflight
    /\ \A i \in DOMAIN requests :
         requests[i] \in [kind: {"PUBLISH", "PUBREL"}, id: Ids, msg: Message, qos: {1, 2}, dup: BOOLEAN]
    /\ \A i \in DOMAIN replies :
         replies[i] \in [kind: {"PUBACK", "PUBREC", "PUBCOMP", "REFUSED"}, id: Ids]
    /\ client \in [Ids -> [stage: {"idle", "publish", "release"}, qos: 0..2, msg: 0..MaxMessages]]
    /\ published \in 0..MaxMessages /\ acked \subseteq Message /\ misled \in BOOLEAN
    /\ handed \subseteq Message /\ settled \in [Message -> 0..2]
    /\ faults \in 0..MaxFaults

\* With the policy `processed`, what the publisher sees acknowledged has been through the
\* application graph: the ACK prerequisite of the settlement table in ARCHITECTURE.md.
AckedWasProcessed == policy = "processed" => acked \subseteq handed

\* Every inbound record of the owner belongs to the message the publisher still has open
\* under that packet id.  So a publisher that keeps to the announced Receive Maximum never
\* finds the inflight table full, and a fresh PUBLISH never meets an old record.
RecordsOfOpenExchanges ==
    \A p \in Recorded : client[p].msg = inflight[p].msg /\ client[p].qos = inflight[p].qos

\* A QoS 2 message is settled at most once, wherever PUBLISH, PUBREC, PUBREL or PUBCOMP
\* are lost, and across reconnects, takeovers and restarts (OWNER-002 of the test matrix);
\* and AckedWasProcessed and RecordsOfOpenExchanges hold while no CONNACK has denied a
\* session that was resumed.
SettledOnce ==
    /\ TypeOK
    /\ \A m \in exact : settled[m] <= 1
    /\ misled \/ (AckedWasProcessed /\ RecordsOfOpenExchanges)

\* The publisher has an exchange open for message m.
Open(m) == \E p \in Ids : client[p].msg = m

\* Every exchange the publisher opens is completed or refused once faults stop: whatever
\* was lost, and whichever step of the broker failed, the repetition after the reconnect
\* is answered (for a publisher that waits until the broker has released its old
\* connection, and while no CONNACK has denied a session that was resumed).
ExchangesComplete ==
    \A m \in Message : []<>(patient /\ policy # "accepted" => ~Open(m) \/ misled)

\* With the policy `accepted`, a message the application graph has taken over is
\* acknowledged by the owner (the settlement table in ARCHITECTURE.md).
AcceptedAcknowledged == \A m \in Message : (policy = "accepted" /\ m \in handed) ~> (m \in acked)
=============================================================================
