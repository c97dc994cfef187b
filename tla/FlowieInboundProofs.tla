------------------------- MODULE FlowieInboundProofs -------------------------
(***************************************************************************)
(* The inbound exchanges of FlowieInbound, for every number of packet ids, *)
(* messages and faults: the inductive invariant behind SettledOnce, and    *)
(* the packet handlers of the broker, which keep it.  The connections and  *)
(* the publisher follow in FlowiePublisherProofs, the theorems in          *)
(* FlowieSettlementProofs.                                                 *)
(***************************************************************************)
EXTENDS FlowieInbound, TLAPS

RequestPacket ==
    [kind: {"PUBLISH", "PUBREL"}, id: Ids, msg: Message, qos: {1, 2}, dup: BOOLEAN]
ReplyPacket == [kind: {"PUBACK", "PUBREC", "PUBCOMP", "REFUSED"}, id: Ids]
Settling == [qos: {1, 2}, state: {"SETTLEMENT"}, msg: Message]
Releasing == [qos: {2}, state: {"QOS2_RELEASE"}, msg: Message]
InflightRecord == {Absent} \union Settling \union Releasing
Exchange == [stage: {"idle", "publish", "release"}, qos: 0..2, msg: 0..MaxMessages]

\* What a publisher chose, and the ghosts.
ChoiceOK ==
    /\ policy \in Policies /\ patient \in Patience /\ exact \subseteq Message
    /\ acked \subseteq Message /\ handed \subseteq Message
    /\ misled \in BOOLEAN

\* A connection is served by an owner the broker knows, and a session the broker has
\* never seen has no records.
SessionOK ==
    /\ session \in {"absent", "known", "restored"} /\ active \in BOOLEAN
    /\ connection \in {"none", "open", "closing"}
    /\ connection # "none" => session = "known"
    /\ session = "absent" => \A p \in Ids : inflight[p] = Absent

\* An exchange is idle, or it carries a published message with that message's QoS, and no
\* message is carried twice.
ClientOK ==
    /\ published \in 0..MaxMessages
    /\ client \in [Ids -> Exchange]
    /\ \A p \in Ids : client[p].stage # "idle" =>
         /\ client[p].msg \in 1..published
         /\ client[p].qos = IF client[p].msg \in exact THEN 2 ELSE 1
         /\ client[p].stage = "release" => client[p].msg \in exact
    /\ \A p \in Ids : client[p].stage = "idle" => client[p] = Idle
    /\ \A p, q \in Ids : client[p].stage # "idle" /\ client[p].msg = client[q].msg => p = q

RecordsOK == inflight \in [Ids -> InflightRecord]

\* One packet at most is under way for an id, in one of the two directions.
OneInTransit ==
    /\ requests \in Seq(RequestPacket) /\ replies \in Seq(ReplyPacket)
    /\ \A i, j \in DOMAIN requests : requests[i].id = requests[j].id => i = j
    /\ \A i, j \in DOMAIN replies : replies[i].id = replies[j].id => i = j
    /\ \A i \in DOMAIN requests, j \in DOMAIN replies : requests[i].id # replies[j].id

\* Request r is what the exchange open under its id asks for.
Asks(r, c) ==
    \/ r.kind = "PUBLISH" /\ c.stage = "publish" /\ c.msg = r.msg /\ c.qos = r.qos
    \/ r.kind = "PUBREL" /\ c.stage = "release"

\* No CONNACK has denied a session that was resumed, and a repeated PUBLISH is not refused
\* after its record was made.
Trusted == ~misled /\ "repeated" \notin Refusals

\* Message c.msg may be acknowledged under the policy "processed".
Processed(c) == policy = "processed" /\ Trusted => c.msg \in handed

\* Reply a answers exchange c, whose record at the owner is e.
Answers(a, c, e) ==
    \/ a.kind = "PUBACK" /\ c.stage = "publish" /\ c.qos = 1 /\ e = Absent /\ Processed(c)
    \/ /\ a.kind = "PUBREC" /\ c.stage = "publish" /\ c.qos = 2 /\ e.state = "QOS2_RELEASE"
       /\ Processed(c)
    \/ a.kind = "PUBCOMP" /\ c.stage = "release" /\ e = Absent
    \/ a.kind = "REFUSED" /\ c.stage = "publish" /\ (e = Absent \/ "repeated" \in Refusals)

PacketsOK ==
    /\ \A i \in DOMAIN requests : Asks(requests[i], client[requests[i].id])
    /\ \A j \in DOMAIN replies :
         Answers(replies[j], client[replies[j].id], inflight[replies[j].id])

\* A settled QoS 2 message cannot come a second time: while its publisher would still send
\* it again, the owner keeps the record that recognises it.
SettledOK ==
    /\ settled \in [Message -> 0..2]
    /\ \A m \in exact :
        /\ settled[m] <= 1
        /\ settled[m] # 0 =>
             /\ m <= published
             /\ \A p \in Ids : client[p].msg = m /\ client[p].stage = "publish" =>
                                 inflight[p].state = "QOS2_RELEASE"

\* Under the policy "processed", what was settled or acknowledged was handed over.
HandedOK ==
    policy = "processed" =>
        /\ \A p \in Ids : inflight[p].state = "QOS2_RELEASE" => inflight[p].msg \in handed
        /\ Trusted => acked \subseteq handed

OpenOK == Trusted => RecordsOfOpenExchanges

InboundInv ==
    /\ ChoiceOK /\ SessionOK /\ ClientOK /\ RecordsOK
    /\ OneInTransit /\ PacketsOK
    /\ SettledOK /\ HandedOK /\ OpenOK

-----------------------------------------------------------------------------
\* What is left of a queue of S when its first packet is taken.
LEMMA TailFacts ==
    ASSUME NEW S, NEW s \in Seq(S), s # <<>>
    PROVE  /\ Head(s) \in S /\ 1 \in DOMAIN s /\ Head(s) = s[1]
           /\ Tail(s) \in Seq(S)
           /\ \A i \in DOMAIN Tail(s) : i + 1 \in DOMAIN s /\ i + 1 # 1 /\ Tail(s)[i] = s[i + 1]
OBVIOUS

\* What a queue of S holds when packet e joins it.
LEMMA AppendFacts ==
    ASSUME NEW S, NEW s \in Seq(S), NEW e \in S
    PROVE  /\ Append(s, e) \in Seq(S)
           /\ \A i \in DOMAIN Append(s, e) :
                \/ i \in DOMAIN s /\ Append(s, e)[i] = s[i]
                \/ i = Len(s) + 1 /\ i \notin DOMAIN s /\ Append(s, e)[i] = e
OBVIOUS

\* The owner closes: records that wait for settlement go, the others stay.
LEMMA ClearFacts ==
    ASSUME inflight \in [Ids -> InflightRecord]
    PROVE  /\ inflight_clear(inflight) \in [Ids -> InflightRecord]
           /\ \A p \in Ids : inflight_clear(inflight)[p] \in {Absent, inflight[p]}
           /\ \A p \in Ids : inflight[p].state = "QOS2_RELEASE" =>
                               inflight_clear(inflight)[p] = inflight[p]
           /\ \A p \in Ids : inflight[p] = Absent => inflight_clear(inflight)[p] = Absent
BY DEF inflight_clear, InflightRecord, Absent, Settling, Releasing

\* The initial states satisfy the invariant.
LEMMA InboundInit == Init => InboundInv
<1> SUFFICES ASSUME Init PROVE InboundInv
  OBVIOUS
<1> USE InboundAssumption DEF Init
<1>1. Recorded = {}
  BY DEF Recorded
<1>2. RecordsOK
  BY DEF RecordsOK, InflightRecord
<1>3. ClientOK
  BY DEF ClientOK, Exchange, Idle
<1>4. OneInTransit /\ PacketsOK
  BY DEF OneInTransit, PacketsOK
<1>5. SettledOK /\ HandedOK /\ OpenOK
  BY <1>1 DEF SettledOK, HandedOK, OpenOK, RecordsOfOpenExchanges, Absent, Message
<1>6. ChoiceOK
  <2>1. misled \in BOOLEAN
    BY Zenon
  <2>2. policy \in Policies /\ patient \in Patience /\ exact \subseteq Message
    OBVIOUS
  <2>3. acked \subseteq Message /\ handed \subseteq Message
    OBVIOUS
  <2> QED BY <2>1, <2>2, <2>3 DEF ChoiceOK
<1>7. SessionOK
  <2>1. active \in BOOLEAN
    BY Zenon
  <2>2. \A p \in Ids : inflight[p] = Absent
    OBVIOUS
  <2> QED BY <2>1, <2>2 DEF SessionOK
<1> QED BY <1>2, <1>3, <1>4, <1>5, <1>6, <1>7 DEF InboundInv

-----------------------------------------------------------------------------
\* A handler consumes the first request, for id p, touches the record of p only, and sends
\* at most one reply, for p: one packet at most remains under way for every id.
LEMMA Handled ==
    ASSUME OneInTransit, PacketsOK, requests # <<>>,
           NEW p \in Ids, p = Head(requests).id,
           requests' = Tail(requests) \/ requests' = <<>>,
           UNCHANGED <<client, misled, policy>>,
           handed \subseteq handed',
           \A q \in Ids : q # p => inflight'[q] = inflight[q],
           NEW kind \in {"PUBACK", "PUBREC", "PUBCOMP", "REFUSED"},
           \/ replies' = replies
           \/ /\ replies' = Reply(kind, p)
              /\ Answers([kind |-> kind, id |-> p], client[p], inflight[p])'
    PROVE  OneInTransit' /\ PacketsOK'
<1> DEFINE a == [kind |-> kind, id |-> p]
<1>1. /\ requests' \in Seq(RequestPacket)
      /\ \A i \in DOMAIN requests' :
           i + 1 \in DOMAIN requests /\ i + 1 # 1 /\ requests'[i] = requests[i + 1]
  <2>1. CASE requests' = Tail(requests)
    BY <2>1, TailFacts DEF OneInTransit
  <2>2. CASE requests' = <<>>
    BY <2>2
  <2> QED BY <2>1, <2>2
<1>2. Head(requests) = requests[1] /\ 1 \in DOMAIN requests
  BY TailFacts DEF OneInTransit
<1>3. \A i \in DOMAIN requests' : requests'[i].id # p /\ requests'[i].id \in Ids
  <2>1. \A i \in DOMAIN requests : requests[i] \in RequestPacket
    BY DEF OneInTransit
  <2>2. \A i \in DOMAIN requests : requests[i].id \in Ids
    BY <2>1 DEF RequestPacket
  <2> QED BY <1>1, <1>2, <2>2 DEF OneInTransit
<1>4. \A j \in DOMAIN replies : replies[j].id # p /\ replies[j].id \in Ids
  <2>1. \A j \in DOMAIN replies : replies[j] \in ReplyPacket
    BY DEF OneInTransit
  <2>2. \A j \in DOMAIN replies : replies[j].id \in Ids
    BY <2>1 DEF ReplyPacket
  <2> QED BY <1>2, <2>2 DEF OneInTransit
<1>5. a \in ReplyPacket /\ a.id = p
  BY DEF ReplyPacket
<1>6. /\ replies' \in Seq(ReplyPacket)
      /\ \A j \in DOMAIN replies' :
           \/ j \in DOMAIN replies /\ replies'[j] = replies[j]
           \/ j = Len(replies) + 1 /\ j \notin DOMAIN replies /\ replies'[j] = a /\ replies' = Reply(kind, p)
  <2>1. CASE replies' = replies
    BY <2>1 DEF OneInTransit
  <2>2. CASE replies' = Reply(kind, p)
    BY <2>2, <1>5, AppendFacts DEF OneInTransit, Reply
  <2> QED BY <2>1, <2>2
<1>7. OneInTransit'
  <2>1. \A i, j \in DOMAIN requests' : requests'[i].id = requests'[j].id => i = j
    <3> SUFFICES ASSUME NEW i \in DOMAIN requests', NEW j \in DOMAIN requests',
                        requests'[i].id = requests'[j].id
                 PROVE  i = j
      OBVIOUS
    <3>1. i + 1 = j + 1
      BY <1>1 DEF OneInTransit
    <3>2. i \in Int /\ j \in Int
      BY <1>1
    <3> QED BY <3>1, <3>2
  <2>2. \A i, j \in DOMAIN replies' : replies'[i].id = replies'[j].id => i = j
    BY <1>4, <1>5, <1>6 DEF OneInTransit
  <2>3. \A i \in DOMAIN requests', j \in DOMAIN replies' : requests'[i].id # replies'[j].id
    BY <1>1, <1>3, <1>5, <1>6 DEF OneInTransit
  <2> QED BY <1>1, <1>6, <2>1, <2>2, <2>3 DEF OneInTransit
<1>8. PacketsOK'
  <2>1. ASSUME NEW i \in DOMAIN requests' PROVE Asks(requests'[i], client'[requests'[i].id])
    BY <1>1 DEF PacketsOK, Asks
  <2>2. ASSUME NEW j \in DOMAIN replies'
        PROVE  Answers(replies[j], client[replies[j].id], inflight[replies[j].id])'
    <3>1. CASE j \in DOMAIN replies /\ replies'[j] = replies[j]
      <4>1. Answers(replies[j], client[replies[j].id], inflight[replies[j].id])
        BY <3>1 DEF PacketsOK
      <4>2. inflight'[replies[j].id] = inflight[replies[j].id]
        BY <3>1, <1>4
      <4> QED BY <3>1, <4>1, <4>2 DEF Answers, Processed, Trusted
    <3>2. CASE j = Len(replies) + 1 /\ j \notin DOMAIN replies /\ replies'[j] = a /\ replies' = Reply(kind, p)
      <4>1. replies' # replies
        BY <3>2
      <4>2. Answers(a, client[p], inflight[p])'
        BY <4>1
      <4> QED BY <3>2, <4>2, <1>5
    <3> QED BY <2>2, <3>1, <3>2, <1>6, SMTT(60)
  <2>3. \A i \in DOMAIN requests' : Asks(requests'[i], client'[requests'[i].id])
    BY <2>1
  <2>4. \A j \in DOMAIN replies' : Answers(replies[j], client[replies[j].id], inflight[replies[j].id])'
    BY <2>2
  <2> QED BY <2>3, <2>4 DEF PacketsOK, Asks
<1> QED BY <1>7, <1>8

\* What a handler leaves alone: the publisher's side, its choices and the session.
LEMMA HandlerFrame ==
    ASSUME InboundInv, connection = "open",
           UNCHANGED <<choice, session, active, publisher>>,
           handed' \subseteq Message,
           connection' \in {"open", "closing"}
    PROVE  ChoiceOK' /\ SessionOK' /\ ClientOK'
<1> USE DEF InboundInv, choice, publisher
<1>1. ChoiceOK'
  <2>1. misled' \in BOOLEAN
    BY DEF ChoiceOK
  <2> QED BY <2>1 DEF ChoiceOK
<1>2. SessionOK'
  <2>1. active' \in BOOLEAN
    BY DEF SessionOK
  <2> QED BY <2>1 DEF SessionOK
<1>3. ClientOK'
  BY DEF ClientOK
<1> QED BY <1>1, <1>2, <1>3

\* The first request, its id and the exchange that asks for it.
LEMMA FirstRequest ==
    ASSUME InboundInv, requests # <<>>
    PROVE  /\ Head(requests) \in RequestPacket /\ Head(requests).id \in Ids
           /\ Asks(Head(requests), client[Head(requests).id])
<1>1. Head(requests) \in RequestPacket /\ Head(requests) = requests[1] /\ 1 \in DOMAIN requests
  BY TailFacts DEF InboundInv, OneInTransit
<1>2. Head(requests).id \in Ids
  BY <1>1 DEF RequestPacket
<1>3. Asks(requests[1], client[requests[1].id])
  BY <1>1 DEF InboundInv, PacketsOK
<1> QED BY <1>1, <1>2, <1>3

\* A handler that changes no record: it refuses, repeats its answer, or fails.
LEMMA QuietStep ==
    ASSUME InboundInv, connection = "open", requests # <<>>,
           UNCHANGED <<choice, session, active, publisher, inflight, graph>>,
           connection' \in {"open", "closing"},
           requests' = Tail(requests) \/ requests' = <<>>,
           NEW p \in Ids, p = Head(requests).id,
           NEW kind \in {"PUBACK", "PUBREC", "PUBCOMP", "REFUSED"},
           \/ replies' = replies
           \/ replies' = Reply(kind, p) /\ Answers([kind |-> kind, id |-> p], client[p], inflight[p])
    PROVE  InboundInv'
<1>0. InboundInv
  OBVIOUS
<1>1. ChoiceOK' /\ SessionOK' /\ ClientOK'
  BY HandlerFrame DEF graph, InboundInv, ChoiceOK
<1>2. OneInTransit' /\ PacketsOK'
  <2>1. Answers([kind |-> kind, id |-> p], client[p], inflight[p])'
          = Answers([kind |-> kind, id |-> p], client[p], inflight[p])
    BY DEF Answers, Processed, Trusted, choice, publisher, graph
  <2>2. UNCHANGED <<client, misled, policy>> /\ handed \subseteq handed'
    BY DEF choice, publisher, graph
  <2> QED BY <2>1, <2>2, Handled, Zenon DEF InboundInv
<1>3. RecordsOK'
  BY DEF RecordsOK, InboundInv
<1>4. SettledOK'
  BY DEF SettledOK, InboundInv, choice, publisher, graph
<1>5. HandedOK'
  BY DEF HandedOK, InboundInv, choice, publisher, graph, Trusted
<1>6. OpenOK'
  BY DEF OpenOK, RecordsOfOpenExchanges, Recorded, InboundInv, choice, publisher, Trusted
<1> QED BY <1>1, <1>2, <1>3, <1>4, <1>5, <1>6 DEF InboundInv

\* A fresh PUBLISH is recorded, and settled where policy and faults allow it.
LEMMA AdmitStep ==
    ASSUME InboundInv, connection = "open", requests # <<>>,
           Head(requests).kind = "PUBLISH", admit_publish(Head(requests)),
           UNCHANGED <<choice, session, active, publisher>>
    PROVE  InboundInv'
<1> USE InboundAssumption
<1>0. PICK r : r = Head(requests)
  OBVIOUS
<1>p. PICK p : p = r.id
  OBVIOUS
<1>1. /\ r \in RequestPacket /\ p \in Ids
      /\ client[p].stage = "publish" /\ client[p].msg = r.msg /\ client[p].qos = r.qos
  <2>1. r \in RequestPacket /\ r.id \in Ids /\ Asks(r, client[r.id])
    BY <1>0, FirstRequest
  <2> QED BY <1>0, <1>p, <2>1 DEF Asks
<1>2. PICK bad \in SUBSET {"settle", "dispatch"} :
        LET begun == [inflight EXCEPT ![r.id] = Record(r.msg, r.qos, "SETTLEMENT")]
            dispatched == "dispatch" \notin bad /\ ~(policy = "received" /\ "settle" \in bad)
        IN /\ Happen(bad)
           /\ inflight' = IF Settles(bad) THEN publish_settle(begun, r.id) ELSE begun
           /\ replies' = IF Settles(bad) THEN Reply(AckOf(r.qos), r.id) ELSE replies
           /\ settled' = IF Settles(bad) THEN [settled EXCEPT ![r.msg] = IF @ = 0 THEN 1 ELSE 2] ELSE settled
           /\ handed' = IF dispatched THEN handed \union {r.msg} ELSE handed
           /\ IF bad = {} THEN next_request ELSE fail_connection
  BY <1>0 DEF admit_publish
<1>3. inflight[p] = Absent
  BY <1>0, <1>p DEF admit_publish
<1>4. /\ r.msg \in Message /\ r.qos \in {1, 2}
      /\ r.msg <= published /\ r.qos = IF r.msg \in exact THEN 2 ELSE 1
  <2>1. ClientOK /\ client[p].stage # "idle"
    BY <1>1 DEF InboundInv
  <2> QED BY <1>1, <2>1 DEF ClientOK, RequestPacket
<1>5. connection' \in {"open", "closing"} /\ (requests' = Tail(requests) \/ requests' = <<>>)
  BY <1>2 DEF next_request, fail_connection
<1>6. handed \subseteq handed' /\ handed' \subseteq Message
  BY <1>2, <1>4 DEF InboundInv, ChoiceOK
<1>7. Settles(bad) /\ policy = "processed" => r.msg \in handed'
  BY <1>2 DEF Settles
<1>8. inflight \in [Ids -> InflightRecord]
  BY SMTT(60) DEF InboundInv, RecordsOK
<1>9. /\ inflight' \in [Ids -> InflightRecord]
      /\ \A q \in Ids : q # p => inflight'[q] = inflight[q]
      /\ ~Settles(bad) => inflight'[p] = Record(r.msg, r.qos, "SETTLEMENT")
      /\ Settles(bad) => inflight'[p] = IF r.qos = 1 THEN Absent ELSE Record(r.msg, 2, "QOS2_RELEASE")
  <2>1. Record(r.msg, r.qos, "SETTLEMENT") \in InflightRecord
    BY <1>4 DEF Record, InflightRecord, Settling
  <2>2. Record(r.msg, 2, "QOS2_RELEASE") \in InflightRecord
    BY <1>4 DEF Record, InflightRecord, Releasing
  <2>3. PICK begun : begun = [inflight EXCEPT ![p] = Record(r.msg, r.qos, "SETTLEMENT")]
    BY Zenon
  <2>4. /\ begun \in [Ids -> InflightRecord] /\ begun[p] = Record(r.msg, r.qos, "SETTLEMENT")
        /\ \A q \in Ids : q # p => begun[q] = inflight[q]
    BY <2>1, <2>3, <1>1, <1>8
  <2>5. CASE ~Settles(bad)
    BY <2>3, <2>4, <2>5, <1>2, <1>p
  <2>6. CASE Settles(bad)
    <3>1. inflight' = publish_settle(begun, p)
      BY <2>3, <2>6, <1>2, <1>p
    <3>2. begun[p].qos = r.qos /\ [begun[p] EXCEPT !.state = "QOS2_RELEASE"] = Record(r.msg, r.qos, "QOS2_RELEASE")
      BY <2>4 DEF Record
    <3>3. PICK e : e = IF r.qos = 1 THEN Absent ELSE Record(r.msg, 2, "QOS2_RELEASE")
      OBVIOUS
    <3>4. e \in InflightRecord
      BY <3>3, <2>2 DEF InflightRecord
    <3>5. inflight' = [begun EXCEPT ![p] = e]
      BY <3>1, <3>2, <3>3, <1>4, <2>4, Zenon DEF publish_settle
    <3>6. inflight' \in [Ids -> InflightRecord] /\ inflight'[p] = e /\ \A q \in Ids : q # p => inflight'[q] = inflight[q]
      BY <3>4, <3>5, <2>4, <1>1
    <3> QED BY <3>3, <3>6, <2>6
  <2> QED BY <2>5, <2>6, SMTT(60)
<1>10. ChoiceOK' /\ SessionOK' /\ ClientOK'
  BY <1>5, <1>6, HandlerFrame
<1>11. RecordsOK'
  BY <1>9 DEF RecordsOK
<1>12. OneInTransit' /\ PacketsOK'
  <2>1. AckOf(r.qos) \in {"PUBACK", "PUBREC", "PUBCOMP", "REFUSED"}
    BY DEF AckOf
  <2>2. \/ replies' = replies
        \/ /\ replies' = Reply(AckOf(r.qos), p)
           /\ Answers([kind |-> AckOf(r.qos), id |-> p], client[p], inflight[p])'
    <3>1. CASE ~Settles(bad)
      BY <3>1, <1>2
    <3>2. CASE Settles(bad)
      <4>1. replies' = Reply(AckOf(r.qos), p)
        BY <3>2, <1>2, <1>p
      <4>2. client'[p].stage = "publish" /\ client'[p].msg = r.msg /\ client'[p].qos = r.qos
        BY <1>1 DEF publisher
      <4>3. policy' = "processed" => r.msg \in handed'
        BY <1>7, <3>2, SMTT(60) DEF choice
      <4>4. CASE r.qos = 1
        <5>1. inflight'[p] = Absent
          BY <4>4, <3>2, <1>9, SMTT(60)
        <5> QED BY <4>1, <4>2, <4>3, <4>4, <5>1, SMTT(60) DEF Answers, AckOf, Processed
      <4>5. CASE r.qos = 2
        <5>1. inflight'[p].state = "QOS2_RELEASE"
          BY <4>5, <3>2, <1>9 DEF Record
        <5> QED BY <4>1, <4>2, <4>3, <4>5, <5>1, SMTT(60) DEF Answers, AckOf, Processed
      <4> QED BY <4>4, <4>5, <1>4
    <3> QED BY <3>1, <3>2
  <2>3. OneInTransit /\ PacketsOK /\ UNCHANGED <<client, misled, policy>>
    BY DEF InboundInv, choice, publisher
  <2> QED BY <2>1, <2>2, <2>3, <1>0, <1>p, <1>1, <1>5, <1>6, <1>9, Handled, Zenon
<1>13. SettledOK'
  <2>0. SettledOK /\ exact' = exact /\ client' = client /\ published' = published
    BY DEF InboundInv, choice, publisher
  <2>1. settled' \in [Message -> 0..2]
    <3>1. settled \in [Message -> 0..2]
      BY <2>0 DEF SettledOK
    <3> QED BY <3>1, <1>2, <1>4
  <2>2. r.msg \in exact => settled[r.msg] = 0
    <3>1. inflight[p].state # "QOS2_RELEASE"
      BY <1>3 DEF Absent
    <3> QED BY <3>1, <2>0, <1>1 DEF SettledOK
  <2>3. r.msg \in exact /\ Settles(bad) => settled'[r.msg] = 1 /\ inflight'[p].state = "QOS2_RELEASE"
    <3> SUFFICES ASSUME r.msg \in exact, Settles(bad)
                 PROVE  settled'[r.msg] = 1 /\ inflight'[p].state = "QOS2_RELEASE"
      BY SMTT(60)
    <3>1. settled'[r.msg] = 1
      BY <1>2, <1>4, <2>0, <2>2, SMTT(60) DEF SettledOK
    <3> QED BY <3>1, <1>4, <1>9 DEF Record
  <2>4. ASSUME NEW m \in exact
        PROVE  /\ settled'[m] <= 1
               /\ settled'[m] # 0 =>
                    /\ m <= published
                    /\ \A q \in Ids : client[q].msg = m /\ client[q].stage = "publish" =>
                                        inflight'[q].state = "QOS2_RELEASE"
    <3>1. CASE m = r.msg /\ Settles(bad)
      <4>1. \A q \in Ids : client[q].msg = m => q = p
        BY <3>1, <1>1, SMTT(60) DEF InboundInv, ClientOK
      <4> QED BY <3>1, <4>1, <2>3, <1>4
    <3>2. CASE m = r.msg /\ ~Settles(bad)
      BY <3>2, <2>2, <1>2, SMTT(60)
    <3>3. CASE m # r.msg
      <4>1. m \in Message /\ settled'[m] = settled[m]
        BY <3>3, <1>2, <2>0, SMTT(60) DEF SettledOK, InboundInv, ChoiceOK
      <4>2. \A q \in Ids : client[q].msg = m => inflight'[q] = inflight[q]
        BY <3>3, <1>1, <1>9, SMTT(60)
      <4> QED BY <4>1, <4>2, <2>0, SMTT(60) DEF SettledOK
    <3> QED BY <3>1, <3>2, <3>3
  <2> QED BY <2>0, <2>1, <2>4 DEF SettledOK
<1>14. HandedOK'
  <2> SUFFICES ASSUME policy' = "processed"
               PROVE  /\ \A q \in Ids : inflight'[q].state = "QOS2_RELEASE" => inflight'[q].msg \in handed'
                      /\ Trusted' => acked' \subseteq handed'
    BY DEF HandedOK
  <2>0. HandedOK /\ policy = "processed" /\ Trusted' = Trusted /\ acked' = acked
    BY DEF InboundInv, choice, publisher, Trusted
  <2>1. inflight'[p].state = "QOS2_RELEASE" => inflight'[p].msg \in handed'
    <3>1. CASE ~Settles(bad)
      BY <3>1, <1>9, SMTT(60) DEF Record
    <3>2. CASE Settles(bad)
      BY <3>2, <2>0, <1>7, <1>9, SMTT(60) DEF Record, Absent
    <3> QED BY <3>1, <3>2, SMTT(60)
  <2> QED BY <2>0, <2>1, <1>6, <1>9 DEF HandedOK
<1>15. OpenOK'
  <2> SUFFICES ASSUME Trusted', NEW q \in Recorded'
               PROVE  client'[q].msg = inflight'[q].msg /\ client'[q].qos = inflight'[q].qos
    BY DEF OpenOK, RecordsOfOpenExchanges
  <2>0. OpenOK /\ Trusted /\ client' = client
    BY SMTT(60) DEF InboundInv, publisher, Trusted
  <2>1. CASE q = p
    <3>1. inflight'[p] # Absent
      BY <2>1, SMTT(60) DEF Recorded
    <3> QED BY <2>0, <2>1, <3>1, <1>1, <1>4, <1>9 DEF Record
  <2>2. CASE q # p
    <3>1. q \in Ids /\ inflight'[q] = inflight[q] /\ q \in Recorded
      BY <2>2, <1>9 DEF Recorded
    <3> QED BY <3>1, <2>0, SMTT(60) DEF OpenOK, RecordsOfOpenExchanges
  <2> QED BY <2>1, <2>2, SMTT(60)
<1> QED BY <1>10, <1>11, <1>12, <1>13, <1>14, <1>15 DEF InboundInv

\* The PUBLISH handler keeps the invariant, on each of its ways out.
LEMMA PublishStep ==
    ASSUME InboundInv, prepare_publish
    PROVE  InboundInv'
<1> USE InboundAssumption
<1>0. PICK r : r = Head(requests)
  OBVIOUS
<1>1. /\ connection = "open" /\ requests # <<>> /\ r.kind = "PUBLISH"
      /\ UNCHANGED <<choice, session, active, publisher>>
      /\ refuse_publish(r) \/ repeat_publish(r) \/ reject_publish(r) \/ admit_publish(r)
  BY <1>0 DEF prepare_publish
<1>2. r.id \in Ids /\ client[r.id].stage = "publish" /\ client[r.id].qos = r.qos
      /\ client[r.id].msg = r.msg
  <2>1. r.id \in Ids /\ Asks(r, client[r.id])
    BY <1>0, <1>1, FirstRequest
  <2> QED BY <1>1, <2>1, SMTT(60) DEF Asks
<1>3. inflight \in [Ids -> InflightRecord]
  BY SMTT(60) DEF InboundInv, RecordsOK
<1>4. CASE refuse_publish(r)
  <2>1. /\ replies' = Reply("REFUSED", r.id) /\ requests' = Tail(requests) /\ connection' = connection
        /\ UNCHANGED <<inflight, graph, faults>>
    BY <1>4 DEF refuse_publish, next_request
  <2>2. inflight[r.id] = Absent \/ "repeated" \in Refusals
    BY <1>4 DEF refuse_publish
  <2>3. Answers([kind |-> "REFUSED", id |-> r.id], client[r.id], inflight[r.id])
    BY <1>2, <2>2 DEF Answers
  <2>4. connection' \in {"open", "closing"}
    BY <1>1, <2>1
  <2>5. UNCHANGED <<choice, session, active, publisher, inflight, graph>>
    BY <1>1, <2>1
  <2> QED BY <1>0, <1>1, <1>2, <2>1, <2>3, <2>4, <2>5, QuietStep, Zenon
<1>5. CASE repeat_publish(r)
  <2>1. /\ requests' = Tail(requests) \/ requests' = <<>>
        /\ connection' \in {"open", "closing"}
        /\ UNCHANGED <<inflight, graph, faults>>
    BY <1>1, <1>5 DEF repeat_publish, next_request, fail_connection
  <2>2. \/ replies' = replies
        \/ /\ replies' = Reply("PUBREC", r.id)
           /\ inflight[r.id].state = "QOS2_RELEASE" /\ inflight[r.id].qos = r.qos
    BY <1>5 DEF repeat_publish
  <2>3. \/ replies' = replies
        \/ /\ replies' = Reply("PUBREC", r.id)
           /\ Answers([kind |-> "PUBREC", id |-> r.id], client[r.id], inflight[r.id])
    <3> SUFFICES ASSUME inflight[r.id].state = "QOS2_RELEASE", inflight[r.id].qos = r.qos
                 PROVE  Answers([kind |-> "PUBREC", id |-> r.id], client[r.id], inflight[r.id])
      BY <2>2, SMTT(60)
    <3>1. inflight[r.id].qos = 2 /\ inflight[r.id] # Absent
      BY <1>2, <1>3, SMTT(60) DEF InflightRecord, Absent, Settling, Releasing
    <3>2. Processed(client[r.id])
      <4> SUFFICES ASSUME policy = "processed", Trusted PROVE client[r.id].msg \in handed
        BY DEF Processed
      <4>1. r.id \in Recorded
        BY <1>2, <3>1 DEF Recorded
      <4>2. client[r.id].msg = inflight[r.id].msg
        BY <4>1 DEF InboundInv, OpenOK, RecordsOfOpenExchanges
      <4>3. inflight[r.id].msg \in handed
        BY <1>2 DEF InboundInv, HandedOK
      <4> QED BY <4>2, <4>3, SMTT(60)
    <3> QED BY <1>2, <3>1, <3>2 DEF Answers
  <2>4. UNCHANGED <<choice, session, active, publisher, inflight, graph>>
    BY <1>1, <2>1, SMTT(60)
  <2> QED BY <1>0, <1>1, <1>2, <2>1, <2>3, <2>4, QuietStep, Zenon
<1>6. CASE reject_publish(r)
  <2>1. requests' = <<>> /\ connection' \in {"open", "closing"} /\ replies' = replies
    BY <1>6, SMTT(60) DEF reject_publish, fail_connection
  <2>2. UNCHANGED <<choice, session, active, publisher, inflight, graph>>
    BY <1>1, <1>6 DEF reject_publish
  <2>3. "REFUSED" \in {"PUBACK", "PUBREC", "PUBCOMP", "REFUSED"}
    OBVIOUS
  <2> QED BY <1>0, <1>1, <1>2, <2>1, <2>2, <2>3, QuietStep
<1>7. CASE admit_publish(r)
  BY <1>0, <1>1, <1>7, AdmitStep
<1> QED BY <1>1, <1>4, <1>5, <1>6, <1>7

\* The PUBREL handler keeps the invariant: it removes the record only when the publisher
\* will not send the PUBLISH again.
LEMMA PubrelStep ==
    ASSUME InboundInv, prepare_pubrel
    PROVE  InboundInv'
<1> USE InboundAssumption
<1>0. PICK p : p = Head(requests).id
  OBVIOUS
<1>1. /\ connection = "open" /\ requests # <<>> /\ Head(requests).kind = "PUBREL"
      /\ qos2_release(p) /\ UNCHANGED <<choice, session, active, publisher, graph>>
  BY <1>0 DEF prepare_pubrel
<1>2. p \in Ids /\ client[p].stage = "release"
  <2>1. p \in Ids /\ Asks(Head(requests), client[p])
    BY <1>0, <1>1, FirstRequest
  <2> QED BY <1>1, <2>1 DEF Asks
<1>3. inflight \in [Ids -> InflightRecord]
  BY DEF InboundInv, RecordsOK
<1>4. CASE /\ inflight[p].state # "SETTLEMENT" /\ Happen({})
           /\ inflight' = [inflight EXCEPT ![p] = Absent]
           /\ replies' = Reply("PUBCOMP", p) /\ next_request
  <2>1. requests' = Tail(requests) /\ connection' \in {"open", "closing"}
    BY <1>1, <1>4, SMTT(60) DEF next_request
  <2>2. /\ inflight' \in [Ids -> InflightRecord] /\ inflight'[p] = Absent
        /\ \A q \in Ids : q # p => inflight'[q] = inflight[q]
    BY <1>2, <1>3, <1>4 DEF InflightRecord
  <2>3. UNCHANGED <<client, published, acked, misled, policy, exact, handed, settled>>
    BY <1>1 DEF choice, publisher, graph
  <2>4. ChoiceOK' /\ SessionOK' /\ ClientOK'
    <3>1. handed' \subseteq Message
      BY <2>3, SMTT(60) DEF InboundInv, ChoiceOK
    <3> QED BY <1>1, <2>1, <3>1, HandlerFrame
  <2>5. OneInTransit' /\ PacketsOK'
    <3>1. Answers([kind |-> "PUBCOMP", id |-> p], client[p], inflight[p])'
      BY <1>2, <2>2, <2>3 DEF Answers
    <3> QED BY <1>0, <1>1, <1>2, <1>4, <2>1, <2>2, <2>3, <3>1, Handled, Zenon DEF InboundInv
  <2>6. RecordsOK'
    BY <2>2 DEF RecordsOK
  <2>7. SettledOK'
    BY <1>2, <2>2, <2>3 DEF InboundInv, SettledOK
  <2>8. HandedOK'
    BY <2>2, <2>3, SMTT(60) DEF InboundInv, HandedOK, Trusted, Absent
  <2>9. OpenOK'
    BY <2>2, <2>3, SMTT(60) DEF InboundInv, OpenOK, RecordsOfOpenExchanges, Recorded, Trusted
  <2> QED BY <2>4, <2>5, <2>6, <2>7, <2>8, <2>9 DEF InboundInv
<1>5. CASE /\ \/ inflight[p].state = "SETTLEMENT" /\ Happen({})
              \/ inflight[p].state = "QOS2_RELEASE" /\ Happen({"pubrel"})
           /\ fail_connection /\ UNCHANGED <<inflight, replies>>
  <2>1. requests' = <<>> /\ connection' \in {"open", "closing"} /\ replies' = replies
    BY <1>5, SMTT(60) DEF fail_connection
  <2>2. UNCHANGED <<choice, session, active, publisher, inflight, graph>>
    BY <1>1, <1>5
  <2>3. "REFUSED" \in {"PUBACK", "PUBREC", "PUBCOMP", "REFUSED"}
    OBVIOUS
  <2> QED BY <1>0, <1>1, <1>2, <2>1, <2>2, <2>3, QuietStep
<1> QED BY <1>1, <1>4, <1>5 DEF qos2_release
=============================================================================
