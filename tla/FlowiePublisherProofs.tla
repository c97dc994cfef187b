------------------------ MODULE FlowiePublisherProofs ------------------------
(***************************************************************************)
(* The invariant of FlowieInboundProofs is kept by connections, their loss *)
(* and restarts, and by the steps of the publisher.                        *)
(***************************************************************************)
EXTENDS FlowieInboundProofs

-----------------------------------------------------------------------------
\* CONNECT keeps the invariant: the publisher resends one packet for every exchange it has
\* open, or none when it was told that its session is gone.
LEMMA ConnectStep ==
    ASSUME InboundInv, connect, Cardinality(Outstanding) \in Nat
    PROVE  InboundInv'
<1> USE InboundAssumption
<1>1. PICK order \in [1..Cardinality(Outstanding) -> Outstanding] :
        /\ \A i, j \in DOMAIN order : i < j => client[order[i]].msg < client[order[j]].msg
        /\ requests' = IF session = "known"
                       THEN [i \in DOMAIN order |-> Resent(order[i], client[order[i]])]
                       ELSE <<>>
  BY Zenon DEF connect
<1>2. /\ session' = "known" /\ active' = TRUE /\ connection' = "open" /\ replies' = <<>>
      /\ client' = IF session = "known" THEN client ELSE [p \in Ids |-> Idle]
      /\ UNCHANGED <<policy, patient, exact, inflight, published, acked, handed, settled>>
  BY DEF connect, choice, graph
<1>3. /\ misled' \in BOOLEAN
      /\ Trusted' => Trusted /\ session # "restored"
  BY Zenon DEF connect, InboundInv, ChoiceOK, Trusted
<1>4. ClientOK /\ OneInTransit /\ PacketsOK /\ SettledOK /\ HandedOK /\ OpenOK /\ RecordsOK
  BY DEF InboundInv
<1>5. /\ Outstanding \subseteq Ids
      /\ \A p \in Outstanding : client[p].stage \in {"publish", "release"}
  BY <1>4 DEF Outstanding, ClientOK, Exchange, Idle
<1>6. \A i, j \in 1..Cardinality(Outstanding) : i # j => order[i] # order[j]
  <2> SUFFICES ASSUME NEW i \in 1..Cardinality(Outstanding), NEW j \in 1..Cardinality(Outstanding),
                      i # j, order[i] = order[j]
               PROVE  FALSE
    OBVIOUS
  <2>1. order[i] \in Outstanding /\ client[order[i]].msg \in Int
    BY <1>1, <1>4, <1>5 DEF ClientOK
  <2>2. i < j \/ j < i
    OBVIOUS
  <2> QED BY <1>1, <2>1, <2>2
<1>7. \A p \in Outstanding : /\ Resent(p, client[p]) \in RequestPacket
                             /\ Resent(p, client[p]).id = p
                             /\ Asks(Resent(p, client[p]), client[p])
  <2> SUFFICES ASSUME NEW p \in Outstanding
               PROVE  /\ Resent(p, client[p]) \in RequestPacket
                      /\ Resent(p, client[p]).id = p
                      /\ Asks(Resent(p, client[p]), client[p])
    OBVIOUS
  <2>1. /\ p \in Ids /\ client[p].msg \in Message /\ client[p].qos \in {1, 2}
        /\ client[p].stage \in {"publish", "release"}
    BY <1>4, <1>5 DEF ClientOK, Message
  <2>2. CASE client[p].stage = "release"
    BY <2>1, <2>2 DEF Resent, RequestPacket, Asks
  <2>3. CASE client[p].stage = "publish"
    BY <2>1, <2>3 DEF Resent, RequestPacket, Asks
  <2> QED BY <2>1, <2>2, <2>3
<1>8. OneInTransit' /\ PacketsOK'
  <2>1. CASE session = "known"
    <3>1. requests' = [i \in 1..Cardinality(Outstanding) |-> Resent(order[i], client[order[i]])]
      BY <1>1, <1>6, <2>1
    <3>2. /\ DOMAIN requests' = 1..Cardinality(Outstanding)
          /\ \A i \in DOMAIN requests' :
               /\ requests'[i] \in RequestPacket /\ requests'[i].id = order[i]
               /\ Asks(requests'[i], client[order[i]])
      BY <3>1, <1>6, <1>7
    <3>3. requests' \in Seq(RequestPacket)
      BY <3>1, <3>2
    <3>4. OneInTransit'
      BY <3>2, <3>3, <1>2, <1>6 DEF OneInTransit
    <3>5. PacketsOK'
      BY <3>2, <1>2, <2>1 DEF PacketsOK, Asks
    <3> QED BY <3>4, <3>5
  <2>2. CASE session # "known"
    <3>1. requests' = <<>>
      BY <2>2, <1>1
    <3> QED BY <3>1, <1>2 DEF OneInTransit, PacketsOK
  <2> QED BY <2>1, <2>2
<1>9. ClientOK'
  <2>1. CASE session = "known"
    BY <1>2, <1>4, <2>1 DEF ClientOK
  <2>2. CASE session # "known"
    BY <1>2, <1>4, <2>2 DEF ClientOK, Idle, Exchange
  <2> QED BY <2>1, <2>2
<1>10. ChoiceOK'
  BY <1>2, <1>3 DEF InboundInv, ChoiceOK
<1>11. SessionOK'
  <2>1. active' \in BOOLEAN
    BY <1>2
  <2> QED BY <1>2, <2>1 DEF SessionOK
<1>12. RecordsOK'
  BY <1>2, <1>4 DEF RecordsOK
<1>13. SettledOK'
  <2>1. CASE session = "known"
    BY <1>2, <1>4, <2>1 DEF SettledOK
  <2>2. CASE session # "known"
    BY <1>2, <1>4, <2>2 DEF SettledOK, Idle
  <2> QED BY <2>1, <2>2
<1>14. HandedOK'
  BY <1>2, <1>3, <1>4 DEF HandedOK
<1>15. OpenOK'
  <2> SUFFICES ASSUME Trusted' PROVE RecordsOfOpenExchanges'
    BY DEF OpenOK
  <2>1. CASE session = "known"
    BY <1>2, <1>3, <1>4, <2>1 DEF OpenOK, RecordsOfOpenExchanges, Recorded
  <2>2. CASE session = "absent"
    BY <1>2, <2>2 DEF RecordsOfOpenExchanges, Recorded, InboundInv, SessionOK
  <2> QED BY <1>3, <2>1, <2>2 DEF InboundInv, SessionOK
<1> QED BY <1>8, <1>9, <1>10, <1>11, <1>12, <1>13, <1>14, <1>15 DEF InboundInv

\* A connection ends or the broker restarts: what remains of the records still recognises
\* every settled message.
LEMMA ClearedStep ==
    ASSUME InboundInv,
           inflight' = inflight \/ inflight' = inflight_clear(inflight),
           UNCHANGED <<choice, publisher, graph>>,
           requests' = <<>>, replies' = replies \/ replies' = <<>>,
           connection' = "none", active' \in BOOLEAN,
           session' \in {"absent", "known", "restored"}, session' = "absent" => session = "absent"
    PROVE  InboundInv'
<1>1. UNCHANGED <<policy, patient, exact, client, published, acked, misled, handed, settled>>
  BY DEF choice, publisher, graph
<1>2. /\ ChoiceOK /\ SessionOK /\ ClientOK /\ OneInTransit /\ PacketsOK
      /\ SettledOK /\ HandedOK /\ OpenOK /\ RecordsOK
  BY DEF InboundInv
<1>3. /\ inflight' \in [Ids -> InflightRecord]
      /\ \A p \in Ids : inflight'[p] \in {Absent, inflight[p]}
      /\ \A p \in Ids : inflight[p].state = "QOS2_RELEASE" => inflight'[p] = inflight[p]
      /\ \A p \in Ids : inflight[p] = Absent => inflight'[p] = Absent
  <2>1. inflight \in [Ids -> InflightRecord]
    BY <1>2 DEF RecordsOK
  <2>2. CASE inflight' = inflight
    BY <2>1, <2>2
  <2>3. CASE inflight' = inflight_clear(inflight)
    BY <2>1, <2>3, ClearFacts
  <2> QED BY <2>2, <2>3
<1>4. ChoiceOK'
  BY <1>1, <1>2 DEF ChoiceOK
<1>5. SessionOK'
  BY <1>2, <1>3 DEF SessionOK
<1>6. ClientOK'
  BY <1>1, <1>2 DEF ClientOK
<1>7. RecordsOK'
  BY <1>3 DEF RecordsOK
<1>8. OneInTransit'
  <2>1. requests' \in Seq(RequestPacket) /\ DOMAIN requests' = {}
    OBVIOUS
  <2>2. CASE replies' = replies
    BY <1>2, <2>1, <2>2 DEF OneInTransit
  <2>3. CASE replies' = <<>>
    BY <2>1, <2>3 DEF OneInTransit
  <2> QED BY <2>2, <2>3
<1>9. PacketsOK'
  <2>1. \A j \in DOMAIN replies : replies[j].id \in Ids
    <3>1. \A j \in DOMAIN replies : replies[j] \in ReplyPacket
      BY <1>2 DEF OneInTransit
    <3> QED BY <3>1 DEF ReplyPacket
  <2>2. CASE replies' = replies
    <3>1. ASSUME NEW j \in DOMAIN replies
          PROVE  Answers(replies[j], client[replies[j].id], inflight[replies[j].id])'
      <4>1. Answers(replies[j], client[replies[j].id], inflight[replies[j].id])
        BY <1>2 DEF PacketsOK
      <4>2. replies[j].id \in Ids
        BY <2>1
      <4> QED BY <4>1, <4>2, <2>2, <1>1, <1>3 DEF Answers, Processed, Trusted
    <3> QED BY <2>2, <3>1, SMTT(60) DEF PacketsOK
  <2>3. CASE replies' = <<>>
    BY <2>3 DEF PacketsOK
  <2> QED BY <2>2, <2>3
<1>10. SettledOK'
  BY <1>1, <1>2, <1>3 DEF SettledOK
<1>11. HandedOK'
  BY <1>1, <1>2, <1>3 DEF HandedOK, Trusted, Absent
<1>12. OpenOK'
  BY <1>1, <1>2, <1>3 DEF OpenOK, RecordsOfOpenExchanges, Recorded, Trusted
<1> QED BY <1>4, <1>5, <1>6, <1>7, <1>8, <1>9, <1>10, <1>11, <1>12 DEF InboundInv

\* The end of a connection keeps the invariant, saved or not.
LEMMA ReleaseStep ==
    ASSUME InboundInv, net_connection_release
    PROVE  InboundInv'
<1>1. PICK save \in {{}, {"close"}} :
        /\ IF connection = "open" THEN Happen(save \union {"loss"}) ELSE Happen(save)
        /\ active' = (save # {})
        /\ inflight' = IF save = {} THEN inflight_clear(inflight) ELSE inflight
  BY Zenon DEF net_connection_release
<1>2. active' \in BOOLEAN
  BY <1>1
<1>3. inflight' = inflight \/ inflight' = inflight_clear(inflight)
  BY <1>1
<1>4. /\ connection' = "none" /\ requests' = <<>> /\ replies' = replies /\ session' = session
      /\ UNCHANGED <<choice, publisher, graph>>
  BY DEF net_connection_release
<1>5. session' \in {"absent", "known", "restored"}
  BY <1>4 DEF InboundInv, SessionOK
<1> QED BY <1>2, <1>3, <1>4, <1>5, ClearedStep

\* A restart keeps the invariant.
LEMMA RestartStep ==
    ASSUME InboundInv, restart
    PROVE  InboundInv'
<1>1. active' \in BOOLEAN
  BY Zenon DEF restart
<1>2. /\ inflight' = inflight_clear(inflight) /\ connection' = "none"
      /\ requests' = <<>> /\ replies' = <<>> /\ UNCHANGED <<choice, publisher, graph>>
  BY DEF restart
<1>3. session' \in {"absent", "known", "restored"} /\ (session' = "absent" => session = "absent")
  BY DEF restart
<1> QED BY <1>1, <1>2, <1>3, ClearedStep

-----------------------------------------------------------------------------
\* A fresh PUBLISH keeps the invariant: its id has no packet under way and no record, and
\* its message was never settled.
LEMMA ClientPublishStep ==
    ASSUME InboundInv, client_publish
    PROVE  InboundInv'
<1> USE InboundAssumption
<1>1. PICK m : m = published + 1
  OBVIOUS
<1>2. PICK qos : qos = IF m \in exact THEN 2 ELSE 1
  OBVIOUS
<1>3. PICK p \in Ids \ Outstanding :
        /\ client' = [client EXCEPT ![p] = [stage |-> "publish", qos |-> qos, msg |-> m]]
        /\ requests' = Append(requests, [kind |-> "PUBLISH", id |-> p, msg |-> m,
                                         qos |-> qos, dup |-> FALSE])
  BY <1>1, <1>2, Zenon DEF client_publish
<1>4. /\ published < MaxMessages /\ published' = m
      /\ UNCHANGED <<policy, patient, exact, session, active, inflight, connection, replies,
                     acked, misled, handed, settled, faults>>
  BY <1>1 DEF client_publish, choice, owner, graph
<1>5. /\ ChoiceOK /\ SessionOK /\ ClientOK /\ OneInTransit /\ PacketsOK
      /\ SettledOK /\ HandedOK /\ OpenOK /\ RecordsOK
  BY DEF InboundInv
<1>6. p \in Ids /\ client[p] = Idle /\ client[p].stage = "idle" /\ client[p].msg = 0
  BY DEF Outstanding, Idle
<1>7. published \in 0..MaxMessages /\ m \in Message /\ m > published /\ qos \in {1, 2}
  BY <1>1, <1>2, <1>4, <1>5 DEF ClientOK, Message
<1>8. PICK x : x = [stage |-> "publish", qos |-> qos, msg |-> m]
  BY Zenon
<1>9. /\ client' \in [Ids -> Exchange] /\ client'[p] = x
      /\ \A q \in Ids : q # p => client'[q] = client[q]
  <2>1. x \in Exchange
    BY <1>7, <1>8 DEF Exchange, Message
  <2> QED BY <2>1, <1>3, <1>5, <1>6, <1>8 DEF ClientOK
<1>10. x.stage = "publish" /\ x.qos = qos /\ x.msg = m
  BY <1>8
<1>11. PICK r : r = [kind |-> "PUBLISH", id |-> p, msg |-> m, qos |-> qos, dup |-> FALSE]
  BY Zenon
<1>12. r \in RequestPacket /\ r.id = p /\ Asks(r, x)
  BY <1>6, <1>7, <1>10, <1>11 DEF RequestPacket, Asks
<1>13. /\ requests' \in Seq(RequestPacket)
       /\ \A i \in DOMAIN requests' :
            \/ i \in DOMAIN requests /\ requests'[i] = requests[i]
            \/ i = Len(requests) + 1 /\ i \notin DOMAIN requests /\ requests'[i] = r
  <2>1. requests \in Seq(RequestPacket) /\ requests' = Append(requests, r) /\ r \in RequestPacket
    BY <1>3, <1>5, <1>11, <1>12 DEF OneInTransit
  <2> QED BY <2>1, AppendFacts
<1>14. \A i \in DOMAIN requests : requests[i].id # p /\ requests[i].id \in Ids
  <2>1. \A i \in DOMAIN requests : requests[i] \in RequestPacket
    BY <1>5, SMTT(60) DEF OneInTransit
  <2> QED BY <2>1, <1>5, <1>6 DEF PacketsOK, Asks, RequestPacket
<1>15. \A j \in DOMAIN replies : replies[j].id # p /\ replies[j].id \in Ids
  <2>1. \A j \in DOMAIN replies : replies[j] \in ReplyPacket
    BY <1>5, SMTT(60) DEF OneInTransit
  <2> QED BY <2>1, <1>5, <1>6, SMTT(60) DEF PacketsOK, Answers, ReplyPacket
<1>16. OneInTransit'
  <2>1. \A i, j \in DOMAIN requests' : requests'[i].id = requests'[j].id => i = j
    BY <1>5, <1>12, <1>13, <1>14 DEF OneInTransit
  <2>2. \A i \in DOMAIN requests', j \in DOMAIN replies : requests'[i].id # replies[j].id
    BY <1>5, <1>12, <1>13, <1>15, SMTT(60) DEF OneInTransit
  <2>3. replies \in Seq(ReplyPacket) /\ \A i, j \in DOMAIN replies : replies[i].id = replies[j].id => i = j
    BY <1>5 DEF OneInTransit
  <2>4. requests' \in Seq(RequestPacket) /\ replies' = replies
    BY <1>4, <1>13
  <2> QED BY <2>1, <2>2, <2>3, <2>4, Zenon DEF OneInTransit
<1>17. PacketsOK'
  <2>1. \A i \in DOMAIN requests' : Asks(requests'[i], client'[requests'[i].id])
    BY <1>5, <1>9, <1>12, <1>13, <1>14, SMTT(60) DEF PacketsOK
  <2>2. ASSUME NEW j \in DOMAIN replies
        PROVE  Answers(replies[j], client[replies[j].id], inflight[replies[j].id])'
    <3>1. Answers(replies[j], client[replies[j].id], inflight[replies[j].id])
      BY <1>5 DEF PacketsOK
    <3>2. client'[replies[j].id] = client[replies[j].id]
      BY <1>9, <1>15, SMTT(60)
    <3> QED BY <3>1, <3>2, <1>4, ZenonT(60) DEF Answers, Processed, Trusted
  <2> QED BY <1>4, <2>1, <2>2, SMTT(60) DEF PacketsOK, Asks
<1>18. ClientOK'
  <2>1. published' \in 0..MaxMessages
    BY <1>4, <1>7 DEF Message
  <2>2. \A q \in Ids : client[q].stage # "idle" => client[q].msg \in 1..m
    BY <1>1, <1>5, <1>7, SMTT(60) DEF ClientOK
  <2>3. \A q \in Ids : client[q].msg # m
    BY <1>5, <1>7, SMTT(60) DEF ClientOK, Idle
  <2>4. \A q \in Ids : client'[q].stage # "idle" =>
          /\ client'[q].msg \in 1..published'
          /\ client'[q].qos = IF client'[q].msg \in exact THEN 2 ELSE 1
          /\ client'[q].stage = "release" => client'[q].msg \in exact
    BY <1>2, <1>4, <1>5, <1>7, <1>9, <1>10, <2>2, SMTT(60) DEF ClientOK, Message
  <2>5. \A q \in Ids : client'[q].stage = "idle" => client'[q] = Idle
    BY <1>5, <1>9, <1>10 DEF ClientOK
  <2>6. \A q, s \in Ids : client'[q].stage # "idle" /\ client'[q].msg = client'[s].msg => q = s
    BY <1>5, <1>9, <1>10, <2>3 DEF ClientOK
  <2> QED BY <1>4, <1>9, <2>1, <2>4, <2>5, <2>6 DEF ClientOK
<1>19. ChoiceOK'
  BY <1>4, <1>5 DEF ChoiceOK
<1>20. SessionOK'
  BY <1>4, <1>5 DEF SessionOK
<1>21. RecordsOK'
  BY <1>4, <1>5, SMTT(60) DEF RecordsOK
<1>22. SettledOK'
  <2>1. \A k \in exact : settled[k] # 0 => k # m /\ k <= m
    <3>1. \A k \in exact : k \in Int
      BY <1>5 DEF ChoiceOK, Message
    <3>2. \A k \in exact : settled[k] # 0 => k <= published
      BY <1>5, SMTT(60) DEF SettledOK
    <3> QED BY <1>7, <3>1, <3>2 DEF Message
  <2>2. ASSUME NEW k \in exact, settled[k] # 0, NEW q \in Ids,
               client'[q].msg = k, client'[q].stage = "publish"
        PROVE  inflight[q].state = "QOS2_RELEASE"
    <3>1. q # p
      BY <1>9, <1>10, <2>1, <2>2
    <3> QED BY <1>5, <1>9, <2>2, <3>1, SMTT(60) DEF SettledOK
  <2>3. settled \in [Message -> 0..2] /\ \A k \in exact : settled[k] <= 1
    BY <1>5, SMTT(60) DEF SettledOK
  <2> QED BY <1>4, <2>1, <2>2, <2>3 DEF SettledOK
<1>23. HandedOK'
  BY <1>4, <1>5, SMTT(60) DEF HandedOK, Trusted
<1>24. OpenOK'
  <2> SUFFICES ASSUME Trusted', NEW q \in Recorded'
               PROVE  client'[q].msg = inflight'[q].msg /\ client'[q].qos = inflight'[q].qos
    BY DEF OpenOK, RecordsOfOpenExchanges
  <2>1. q \in Recorded /\ Trusted
    BY <1>4 DEF Recorded, Trusted
  <2>2. client[q].msg = inflight[q].msg /\ client[q].qos = inflight[q].qos
    BY <1>5, <2>1 DEF OpenOK, RecordsOfOpenExchanges
  <2>3. q \in Ids /\ inflight[q].msg # 0
    <3>1. q \in Ids /\ inflight[q] \in InflightRecord /\ inflight[q] # Absent
      BY <1>5, <2>1 DEF Recorded, RecordsOK
    <3> QED BY <3>1 DEF InflightRecord, Settling, Releasing, Message
  <2> QED BY <2>2, <2>3, <1>4, <1>6, <1>9, SMTT(60)
<1> QED BY <1>16, <1>17, <1>18, <1>19, <1>20, <1>21, <1>22, <1>23, <1>24 DEF InboundInv

\* The publisher reads the first reply, for id p, changes its exchange under p only, and
\* sends at most one request, for p: one packet at most remains under way for every id.
LEMMA Received ==
    ASSUME OneInTransit, PacketsOK, replies # <<>>, replies' = Tail(replies),
           NEW p \in Ids, p = Head(replies).id,
           \A q \in Ids : q # p => client'[q] = client[q],
           UNCHANGED <<inflight, misled, policy, handed>>,
           NEW r \in RequestPacket, r.id = p,
           requests' = requests \/ (requests' = Append(requests, r) /\ Asks(r, client'[p]))
    PROVE  OneInTransit' /\ PacketsOK'
<1>1. /\ replies' \in Seq(ReplyPacket)
      /\ \A j \in DOMAIN replies' : j + 1 \in DOMAIN replies /\ j + 1 # 1 /\ replies'[j] = replies[j + 1]
      /\ Head(replies) = replies[1] /\ 1 \in DOMAIN replies
  BY TailFacts, SMTT(60) DEF OneInTransit
<1>2. /\ requests' \in Seq(RequestPacket)
      /\ \A i \in DOMAIN requests' :
           \/ i \in DOMAIN requests /\ requests'[i] = requests[i]
           \/ /\ i = Len(requests) + 1 /\ i \notin DOMAIN requests /\ requests'[i] = r
              /\ Asks(r, client'[p])
  <2>1. CASE requests' = requests
    BY <2>1 DEF OneInTransit
  <2>2. CASE requests' = Append(requests, r) /\ Asks(r, client'[p])
    BY <2>2, AppendFacts, SMTT(60) DEF OneInTransit
  <2> QED BY <2>1, <2>2, SMTT(60)
<1>3. \A i \in DOMAIN requests : requests[i].id # p /\ requests[i].id \in Ids
  <2>1. \A i \in DOMAIN requests : requests[i] \in RequestPacket
    BY DEF OneInTransit
  <2>2. \A i \in DOMAIN requests : requests[i].id \in Ids
    BY <2>1 DEF RequestPacket
  <2> QED BY <1>1, <2>2 DEF OneInTransit
<1>4. \A j \in DOMAIN replies' : replies'[j].id # p /\ replies'[j].id \in Ids
  <2>1. \A j \in DOMAIN replies : replies[j] \in ReplyPacket
    BY DEF OneInTransit
  <2>2. \A j \in DOMAIN replies : replies[j].id \in Ids
    BY <2>1, SMTT(60) DEF ReplyPacket
  <2> QED BY <1>1, <2>2 DEF OneInTransit
<1>5. OneInTransit'
  <2>1. \A i, j \in DOMAIN requests' : requests'[i].id = requests'[j].id => i = j
    BY <1>2, <1>3 DEF OneInTransit
  <2>2. \A i, j \in DOMAIN replies' : replies'[i].id = replies'[j].id => i = j
    <3> SUFFICES ASSUME NEW i \in DOMAIN replies', NEW j \in DOMAIN replies',
                        replies'[i].id = replies'[j].id
                 PROVE  i = j
      BY SMTT(60)
    <3>1. i + 1 = j + 1
      BY <1>1 DEF OneInTransit
    <3>2. i \in Int /\ j \in Int
      BY <1>1
    <3> QED BY <3>1, <3>2, SMTT(60)
  <2>3. \A i \in DOMAIN requests', j \in DOMAIN replies' : requests'[i].id # replies'[j].id
    <3> SUFFICES ASSUME NEW i \in DOMAIN requests', NEW j \in DOMAIN replies'
                 PROVE  requests'[i].id # replies'[j].id
      OBVIOUS
    <3>1. CASE i \in DOMAIN requests /\ requests'[i] = requests[i]
      BY <1>1, <3>1 DEF OneInTransit
    <3>2. CASE requests'[i] = r
      BY <1>4, <3>2, SMTT(60)
    <3> QED BY <1>2, <3>1, <3>2
  <2> QED BY <1>1, <1>2, <2>1, <2>2, <2>3, SMTT(60) DEF OneInTransit
<1>6. PacketsOK'
  <2>1. \A i \in DOMAIN requests' : Asks(requests'[i], client'[requests'[i].id])
    BY <1>2, <1>3, SMTT(60) DEF PacketsOK
  <2>2. ASSUME NEW j \in DOMAIN replies'
        PROVE  Answers(replies[j], client[replies[j].id], inflight[replies[j].id])'
    <3>1. PICK a : a = replies'[j]
      BY SMTT(60)
    <3>2. Answers(a, client[a.id], inflight[a.id])
      BY <1>1, <3>1, SMTT(60) DEF PacketsOK
    <3>3. client'[a.id] = client[a.id]
      BY <1>4, <3>1, SMTT(60)
    <3>4. Answers(a, client[a.id], inflight[a.id])'
      BY <3>2, <3>3 DEF Answers, Processed, Trusted
    <3> QED BY <3>1, <3>4, SMTT(60)
  <2> QED BY <2>1, <2>2, SMTT(60) DEF PacketsOK, Asks
<1> QED BY <1>5, <1>6, SMTT(60)

\* A reply read by the publisher keeps the invariant: an exchange ends only when the owner
\* has no record of it left, and a PUBREC moves it past the point of sending again.
LEMMA ClientReceiveStep ==
    ASSUME InboundInv, client_receive
    PROVE  InboundInv'
<1> USE InboundAssumption
<1>0. PICK a : a = Head(replies)
  OBVIOUS
<1>p. PICK p : p = a.id
  OBVIOUS
<1>c. PICK c : c = client[p]
  OBVIOUS
<1>1. /\ ChoiceOK /\ SessionOK /\ ClientOK /\ OneInTransit /\ PacketsOK
      /\ SettledOK /\ HandedOK /\ OpenOK /\ RecordsOK
  BY SMTT(60) DEF InboundInv
<1>2. /\ replies # <<>> /\ replies' = Tail(replies)
      /\ UNCHANGED <<policy, patient, exact, session, active, inflight, connection, published,
                     misled, handed, settled, faults>>
  BY SMTT(60) DEF client_receive, choice, owner, graph
<1>3. /\ a \in ReplyPacket /\ p \in Ids /\ Answers(a, c, inflight[p])
  <2>1. a \in ReplyPacket /\ a = replies[1] /\ 1 \in DOMAIN replies
    BY <1>0, <1>1, <1>2, TailFacts, SMTT(60) DEF OneInTransit
  <2> QED BY <2>1, <1>1, <1>p, <1>c, SMTT(60) DEF ReplyPacket, PacketsOK
<1>4. /\ c \in Exchange /\ c.stage # "idle" /\ c.msg \in 1..published /\ c.msg \in Message
      /\ c.qos \in {1, 2} /\ c.stage = "release" => c.msg \in exact
      /\ c.qos = 2 <=> c.msg \in exact
  <2>1. c \in Exchange
    BY <1>1, <1>3, <1>c DEF ClientOK
  <2>2. c.stage # "idle"
    BY <1>3 DEF Answers
  <2> QED BY <2>1, <2>2, <1>1, <1>3, <1>c, SMTT(60) DEF ClientOK, Message
<1>5. PICK r : r = [kind |-> "PUBREL", id |-> p, msg |-> c.msg, qos |-> 2, dup |-> FALSE]
  BY Zenon
<1>6. r \in RequestPacket /\ r.id = p /\ r.kind = "PUBREL"
  BY <1>3, <1>4, <1>5 DEF RequestPacket
<1>7. PICK x : x = client'[p]
  OBVIOUS
<1>8. /\ client' = [client EXCEPT ![p] = x]
      /\ \/ x = Idle /\ requests' = requests /\ ("repeated" \notin Refusals => inflight[p] = Absent)
         \/ /\ x = [c EXCEPT !.stage = "release"] /\ c.msg \in exact
            /\ requests' = requests \/ requests' = Append(requests, r)
      /\ acked' = acked \/ (acked' = acked \union {c.msg} /\ Processed(c))
  <2>0. client \in [Ids -> Exchange]
    BY <1>1 DEF ClientOK
  <2>1. CASE a.kind = "PUBACK" /\ c.stage = "publish" /\ c.qos = 1
    <3>1. inflight[p] = Absent /\ Processed(c)
      BY <1>3, <2>1 DEF Answers
    <3>2. client' = [client EXCEPT ![p] = Idle] /\ requests' = requests /\ acked' = acked \union {c.msg}
      BY <1>0, <1>p, <1>c, <2>1 DEF client_receive
    <3> QED BY <3>1, <3>2, <2>0, <1>3, <1>7
  <2>2. CASE a.kind = "PUBREC" /\ c.stage = "publish" /\ c.qos = 2
    <3>1. Processed(c) /\ c.msg \in exact
      BY <1>3, <1>4, <2>2 DEF Answers
    <3>2. /\ client' = [client EXCEPT ![p].stage = "release"]
          /\ requests' = IF connection = "open"
                         THEN Append(requests, Resent(p, [c EXCEPT !.stage = "release"]))
                         ELSE requests
          /\ acked' = acked \union {c.msg}
      BY <1>0, <1>p, <1>c, <2>2 DEF client_receive
    <3>3. Resent(p, [c EXCEPT !.stage = "release"]) = r
      BY <1>4, <1>5 DEF Resent, Exchange
    <3>4. client' = [client EXCEPT ![p] = [c EXCEPT !.stage = "release"]]
      BY <3>2, <1>c
    <3>5. x = [c EXCEPT !.stage = "release"]
      BY <3>4, <2>0, <1>3, <1>7
    <3> QED BY <3>1, <3>2, <3>3, <3>4, <3>5, Zenon
  <2>3. CASE a.kind = "PUBCOMP" /\ c.stage = "release"
    <3>1. inflight[p] = Absent
      BY <1>3, <2>3 DEF Answers
    <3>2. client' = [client EXCEPT ![p] = Idle] /\ requests' = requests /\ acked' = acked
      BY <1>0, <1>p, <1>c, <2>3 DEF client_receive
    <3> QED BY <3>1, <3>2, <2>0, <1>3, <1>7
  <2>4. CASE a.kind = "REFUSED" /\ c.stage = "publish"
    <3>1. "repeated" \notin Refusals => inflight[p] = Absent
      BY <1>3, <2>4, SMTT(60) DEF Answers
    <3>2. client' = [client EXCEPT ![p] = Idle] /\ requests' = requests /\ acked' = acked
      BY <1>0, <1>p, <1>c, <2>4 DEF client_receive
    <3> QED BY <3>1, <3>2, <2>0, <1>3, <1>7, SMTT(60)
  <2> QED BY <1>3, <2>1, <2>2, <2>3, <2>4 DEF Answers
<1>9. \A q \in Ids : q # p => client'[q] = client[q]
  BY <1>1, <1>8 DEF ClientOK
<1>10. /\ x \in Exchange /\ x.stage # "publish"
       /\ x.stage # "idle" => x.msg = c.msg /\ x.qos = c.qos /\ c.msg \in exact
       /\ x.stage = "idle" => x = Idle
  <2>1. Idle \in Exchange /\ Idle.stage = "idle"
    BY DEF Idle, Exchange
  <2>2. /\ [c EXCEPT !.stage = "release"] \in Exchange
        /\ [c EXCEPT !.stage = "release"].stage = "release"
        /\ [c EXCEPT !.stage = "release"].msg = c.msg
        /\ [c EXCEPT !.stage = "release"].qos = c.qos
    BY <1>4 DEF Exchange
  <2> QED BY <1>8, <2>1, <2>2, Zenon
<1>11. OneInTransit' /\ PacketsOK'
  <2>1. requests' = requests \/ (requests' = Append(requests, r) /\ Asks(r, client'[p]))
    <3>1. x = [c EXCEPT !.stage = "release"] => x.stage = "release"
      BY <1>4 DEF Exchange
    <3> QED BY <1>6, <1>7, <1>8, <3>1 DEF Asks
  <2>2. UNCHANGED <<inflight, misled, policy, handed>> /\ p = Head(replies).id
    BY <1>0, <1>p, <1>2
  <2> QED BY <1>1, <1>2, <1>3, <1>6, <1>9, <2>1, <2>2, Received
<1>12. ClientOK'
  <2>1. client' \in [Ids -> Exchange]
    BY <1>1, <1>8, <1>10, ZenonT(60) DEF ClientOK
  <2>2. \A q \in Ids : client'[q].stage # "idle" => client'[q].msg = client[q].msg /\ client'[q].qos = client[q].qos
                                                    /\ client[q].stage # "idle"
    BY <1>c, <1>4, <1>7, <1>9, <1>10
  <2>3. \A q \in Ids : client'[q].stage = "idle" => client'[q] = Idle
    BY <1>1, <1>7, <1>9, <1>10 DEF ClientOK
  <2>4. \A q \in Ids : client'[q].stage = "release" => client'[q].msg \in exact
    BY <1>1, <1>7, <1>9, <1>10 DEF ClientOK
  <2>5. \A q, s \in Ids : client'[q].stage # "idle" /\ client'[q].msg = client'[s].msg => q = s
    <3> SUFFICES ASSUME NEW q \in Ids, NEW s \in Ids, client'[q].stage # "idle",
                        client'[q].msg = client'[s].msg
                 PROVE  q = s
      OBVIOUS
    <3>1. client[q].stage # "idle" /\ client'[q].msg = client[q].msg /\ client[q].msg # 0
      BY <2>2, <1>1 DEF ClientOK
    <3>2. client'[s].stage # "idle"
      <4>1. Idle.msg = 0
        BY DEF Idle
      <4>2. client'[s] # Idle
        BY <3>1, <4>1, Zenon
      <4> QED BY <2>3, <4>2
    <3> QED BY <2>2, <3>1, <3>2, <1>1, ZenonT(60) DEF ClientOK
  <2> QED BY <1>1, <1>2, <2>1, <2>2, <2>3, <2>4, <2>5 DEF ClientOK
<1>13. ChoiceOK'
  <2>1. acked' \subseteq Message
    BY <1>1, <1>4, <1>8 DEF ChoiceOK
  <2> QED BY <1>1, <1>2, <2>1 DEF ChoiceOK
<1>14. SessionOK'
  BY <1>1, <1>2 DEF SessionOK
<1>15. RecordsOK'
  BY <1>1, <1>2, SMTT(60) DEF RecordsOK
<1>16. SettledOK'
  BY <1>1, <1>2, <1>7, <1>9, <1>10, SMTT(60) DEF SettledOK
<1>17. HandedOK'
  <2>1. policy = "processed" /\ Trusted => acked' \subseteq handed
    BY <1>1, <1>8, SMTT(60) DEF HandedOK, Processed
  <2> QED BY <1>1, <1>2, <2>1 DEF HandedOK, Trusted
<1>18. OpenOK'
  <2> SUFFICES ASSUME Trusted', NEW q \in Recorded'
               PROVE  client'[q].msg = inflight'[q].msg /\ client'[q].qos = inflight'[q].qos
    BY DEF OpenOK, RecordsOfOpenExchanges
  <2>1. q \in Recorded /\ q \in Ids /\ inflight[q] # Absent /\ Trusted
    BY <1>2, SMTT(60) DEF Recorded, Trusted
  <2>2. client[q].msg = inflight[q].msg /\ client[q].qos = inflight[q].qos
    BY <1>1, <2>1, SMTT(60) DEF OpenOK, RecordsOfOpenExchanges
  <2>3. CASE q = p
    <3>1. x = [c EXCEPT !.stage = "release"]
      BY <1>8, <2>1, <2>3 DEF Trusted
    <3>2. x.msg = c.msg /\ x.qos = c.qos
      BY <3>1, <1>4, SMTT(60) DEF Exchange
    <3> QED BY <1>2, <1>7, <1>c, <2>2, <2>3, <3>2
  <2>4. CASE q # p
    BY <1>2, <1>9, <2>1, <2>2, <2>4, SMTT(60)
  <2> QED BY <2>3, <2>4, SMTT(60)
<1> QED BY <1>11, <1>12, <1>13, <1>14, <1>15, <1>16, <1>17, <1>18 DEF InboundInv

-----------------------------------------------------------------------------
\* A step that changes nothing keeps the invariant.
LEMMA InboundStutter ==
    ASSUME InboundInv, UNCHANGED vars
    PROVE  InboundInv'
<1> USE DEF vars, choice, owner, network, publisher, graph, InboundInv
<1>1. ChoiceOK' /\ SessionOK'
  BY SMTT(60) DEF ChoiceOK, SessionOK
<1>2. ClientOK' /\ SettledOK'
  BY SMTT(60) DEF ClientOK, SettledOK
<1>3. RecordsOK' /\ OneInTransit'
  BY ZenonT(60) DEF RecordsOK, OneInTransit
<1>4. PacketsOK'
  BY SMTT(60) DEF PacketsOK, Asks, Answers, Processed, Trusted
<1>5. HandedOK' /\ OpenOK'
  BY Zenon DEF HandedOK, OpenOK, Trusted, RecordsOfOpenExchanges, Recorded
<1> QED BY <1>1, <1>2, <1>3, <1>4, <1>5, SMTT(60)
=============================================================================
