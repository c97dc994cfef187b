------------------------ MODULE FlowieSettlementProofs ------------------------
(***************************************************************************)
(* The theorems about the inbound exchanges.  The invariant of             *)
(* FlowieInboundProofs and the bounds of the owner's inflight table hold   *)
(* in every behaviour.  So a QoS 2 message is settled at most once,        *)
(* nothing is acknowledged that was not processed where the policy asks    *)
(* for it, and the owner's records are those of the publisher's open       *)
(* exchanges.                                                              *)
(***************************************************************************)
EXTENDS FlowiePublisherProofs, FiniteSetTheorems

\* The inflight table keeps to max_inflight, and the faults to their bound.
BoundsOK == Cardinality(Recorded) <= MaxInflight /\ faults \in 0..MaxFaults

-----------------------------------------------------------------------------
\* The records of an owner are finitely many.
LEMMA RecordedFinite == IsFiniteSet(Recorded) /\ Cardinality(Recorded) \in Nat
<1>1. Recorded \in SUBSET Ids
  BY DEF Recorded
<1> QED BY <1>1, InboundAssumption, FS_Subset, FS_CardinalityType

\* A table that gains no record stays within its bound.
LEMMA RecordsShrink ==
    ASSUME Cardinality(Recorded) <= MaxInflight,
           \A p \in Ids : inflight[p] = Absent => inflight'[p] = Absent
    PROVE  Cardinality(Recorded') <= MaxInflight
<1>1. Recorded' \in SUBSET Recorded
  BY DEF Recorded
<1>2. IsFiniteSet(Recorded') /\ Cardinality(Recorded') <= Cardinality(Recorded)
  BY <1>1, RecordedFinite, FS_Subset
<1>3. Cardinality(Recorded') \in Nat
  BY <1>2, FS_CardinalityType
<1> QED BY <1>2, <1>3, RecordedFinite, InboundAssumption

\* A table with room stays within its bound when it gains the record of one id.
LEMMA RecordAdded ==
    ASSUME NEW p \in Ids, Cardinality(Recorded) < MaxInflight,
           \A q \in Ids : q # p => inflight'[q] = inflight[q]
    PROVE  Cardinality(Recorded') <= MaxInflight
<1>1. Recorded' \in SUBSET (Recorded \union {p})
  BY DEF Recorded
<1>2. /\ IsFiniteSet(Recorded \union {p})
      /\ Cardinality(Recorded \union {p}) =
           IF p \in Recorded THEN Cardinality(Recorded) ELSE Cardinality(Recorded) + 1
  BY RecordedFinite, FS_AddElement
<1>3. IsFiniteSet(Recorded') /\ Cardinality(Recorded') <= Cardinality(Recorded \union {p})
  BY <1>1, <1>2, FS_Subset
<1>4. Cardinality(Recorded') \in Nat
  BY <1>3, FS_CardinalityType
<1> QED BY <1>2, <1>3, <1>4, RecordedFinite, InboundAssumption

\* Counting faults keeps the count within its bound.
LEMMA FaultCount ==
    ASSUME NEW kinds, faults \in 0..MaxFaults, Happen(kinds)
    PROVE  faults' \in 0..MaxFaults
<1>1. IsFiniteSet({"begin"} \union {"settle"})
  BY FS_Singleton, FS_AddElement, Zenon
<1>2. IsFiniteSet(({"begin"} \union {"settle"}) \union {"dispatch"})
  BY <1>1, FS_AddElement
<1>3. IsFiniteSet((({"begin"} \union {"settle"}) \union {"dispatch"}) \union {"pubrel"})
  BY <1>2, FS_AddElement
<1>4. IsFiniteSet({"begin", "settle", "dispatch", "pubrel"})
  BY <1>3, {"begin", "settle", "dispatch", "pubrel"}
             = (({"begin"} \union {"settle"}) \union {"dispatch"}) \union {"pubrel"}
<1>5. IsFiniteSet({"close"} \union {"loss"})
  BY FS_Singleton, FS_AddElement, Zenon
<1>6. IsFiniteSet(({"close"} \union {"loss"}) \union {"takeover"})
  BY <1>5, FS_AddElement
<1>7. IsFiniteSet((({"close"} \union {"loss"}) \union {"takeover"}) \union {"restart"})
  BY <1>6, FS_AddElement
<1>8. IsFiniteSet({"close", "loss", "takeover", "restart"})
  BY <1>7, {"close", "loss", "takeover", "restart"}
             = (({"close"} \union {"loss"}) \union {"takeover"}) \union {"restart"}
<1>9. IsFiniteSet({"begin", "settle", "dispatch", "pubrel"} \union {"close", "loss", "takeover", "restart"})
  BY <1>4, <1>8, FS_Union, Zenon
<1>10. kinds \in SUBSET ({"begin", "settle", "dispatch", "pubrel"} \union {"close", "loss", "takeover", "restart"})
  BY InboundAssumption DEF Happen
<1>11. IsFiniteSet(kinds)
  BY <1>9, <1>10, FS_Subset, Zenon
<1>12. Cardinality(kinds) \in Nat
  BY <1>11, FS_CardinalityType
<1> QED BY <1>12, InboundAssumption DEF Happen

\* Every step keeps the bounds: only a fresh PUBLISH gains a record, and publish_begin has
\* found room for it.
LEMMA BoundsStep ==
    ASSUME InboundInv, BoundsOK, [Next]_vars
    PROVE  BoundsOK'
<1>0. inflight \in [Ids -> InflightRecord] /\ faults \in 0..MaxFaults /\ Cardinality(Recorded) <= MaxInflight
  BY DEF InboundInv, RecordsOK, BoundsOK
<1> SUFFICES (Cardinality(Recorded) <= MaxInflight)' /\ faults' \in 0..MaxFaults
  BY DEF BoundsOK
<1>1. CASE prepare_publish
  <2>0. PICK r : r = Head(requests)
    OBVIOUS
  <2>1. refuse_publish(r) \/ repeat_publish(r) \/ reject_publish(r) \/ admit_publish(r)
    BY <1>1, <2>0 DEF prepare_publish
  <2>2. r.id \in Ids
    BY <1>1, <2>0, FirstRequest DEF prepare_publish
  <2>3. CASE refuse_publish(r) \/ repeat_publish(r)
    <3>1. inflight' = inflight /\ faults' = faults
      BY <2>3 DEF refuse_publish, repeat_publish
    <3> QED BY <3>1, <1>0 DEF Recorded
  <2>4. CASE reject_publish(r)
    <3>1. inflight' = inflight
      BY <2>4 DEF reject_publish
    <3>2. faults' \in 0..MaxFaults
      BY <2>4, <1>0, FaultCount DEF reject_publish
    <3> QED BY <3>1, <3>2, <1>0 DEF Recorded
  <2>5. CASE admit_publish(r)
    <3>1. Cardinality(Recorded) < MaxInflight
      BY <2>5 DEF admit_publish
    <3>2. \A q \in Ids : q # r.id => inflight'[q] = inflight[q]
      BY <2>5, <1>0 DEF admit_publish, publish_settle
    <3>3. faults' \in 0..MaxFaults
      BY <2>5, <1>0, FaultCount DEF admit_publish
    <3> QED BY <2>2, <3>1, <3>2, <3>3, RecordAdded
  <2> QED BY <2>1, <2>3, <2>4, <2>5
<1>2. CASE prepare_pubrel
  <2>1. \A p \in Ids : inflight[p] = Absent => inflight'[p] = Absent
    BY <1>0, <1>2 DEF prepare_pubrel, qos2_release
  <2>2. faults' \in 0..MaxFaults
    BY <1>0, <1>2, FaultCount DEF prepare_pubrel, qos2_release
  <2> QED BY <1>0, <2>1, <2>2, RecordsShrink, SMTT(60)
<1>3. CASE connect
  <2>1. inflight' = inflight
    BY <1>3 DEF connect
  <2>2. faults' \in 0..MaxFaults
    BY <1>0, <1>3, FaultCount DEF connect
  <2> QED BY <1>0, <2>1, <2>2 DEF Recorded
<1>4. CASE net_connection_release
  <2>1. \A p \in Ids : inflight[p] = Absent => inflight'[p] = Absent
    BY <1>0, <1>4, ClearFacts DEF net_connection_release
  <2>2. faults' \in 0..MaxFaults
    <3>1. PICK save : Happen(save \union {"loss"}) \/ Happen(save)
      BY <1>4 DEF net_connection_release
    <3> QED BY <1>0, <3>1, FaultCount
  <2> QED BY <1>0, <2>1, <2>2, RecordsShrink
<1>5. CASE restart
  <2>1. \A p \in Ids : inflight[p] = Absent => inflight'[p] = Absent
    BY <1>0, <1>5, ClearFacts DEF restart
  <2>2. faults' \in 0..MaxFaults
    BY <1>0, <1>5, FaultCount DEF restart
  <2> QED BY <1>0, <2>1, <2>2, RecordsShrink, SMTT(60)
<1>6. CASE client_publish \/ client_receive \/ UNCHANGED vars
  <2>1. inflight' = inflight /\ faults' = faults
    BY <1>6 DEF client_publish, client_receive, vars, owner
  <2> QED BY <1>0, <2>1, SMTT(60) DEF Recorded
<1> QED BY <1>1, <1>2, <1>3, <1>4, <1>5, <1>6 DEF Next

\* A publisher has finitely many exchanges open.
LEMMA OutstandingFinite == Cardinality(Outstanding) \in Nat
<1>1. Outstanding \in SUBSET Ids
  BY DEF Outstanding
<1>2. IsFiniteSet(Outstanding)
  BY <1>1, InboundAssumption, FS_Subset
<1> QED BY <1>2, FS_CardinalityType

\* The invariant gives the types, and the settlement of every QoS 2 message at most once.
LEMMA InboundTypes ==
    ASSUME InboundInv, BoundsOK
    PROVE  TypeOK /\ \A m \in exact : settled[m] <= 1
<1> USE DEF InboundInv
<1>1. \A p \in Ids : inflight[p] = Absent \/ inflight[p] \in Settling \/ inflight[p] \in Releasing
  BY DEF RecordsOK, InflightRecord
<1>2. /\ \A i \in DOMAIN requests : requests[i] \in RequestPacket
      /\ \A i \in DOMAIN replies : replies[i] \in ReplyPacket
  BY DEF OneInTransit
<1>3. active \in BOOLEAN /\ misled \in BOOLEAN
  BY DEF SessionOK, ChoiceOK
<1>4. /\ policy \in Policies /\ patient \in Patience /\ exact \subseteq Message
      /\ acked \subseteq Message /\ handed \subseteq Message
  BY DEF ChoiceOK
<1>5. session \in {"absent", "known", "restored"} /\ connection \in {"none", "open", "closing"}
  BY DEF SessionOK
<1>6. client \in [Ids -> Exchange] /\ published \in 0..MaxMessages
  BY DEF ClientOK
<1>7. Cardinality(Recorded) <= MaxInflight /\ faults \in 0..MaxFaults
  BY DEF BoundsOK
<1>8. settled \in [Message -> 0..2] /\ \A m \in exact : settled[m] <= 1
  BY DEF SettledOK
<1> HIDE DEF InboundInv
<1> QED BY <1>1, <1>2, <1>3, <1>4, <1>5, <1>6, <1>7, <1>8, SMTT(60)
        DEF TypeOK, Settling, Releasing, RequestPacket, ReplyPacket, Exchange

\* The invariant holds in every behaviour of the broker and its publisher: every handler,
\* every loss, takeover and restart, and every step of the publisher keeps it.
THEOREM InboundInvariance == Spec => [](InboundInv /\ BoundsOK)
<1>1. Init => InboundInv /\ BoundsOK
  <2> SUFFICES ASSUME Init PROVE BoundsOK
    BY InboundInit
  <2>1. Recorded = {}
    BY DEF Recorded, Init
  <2> QED BY <2>1, FS_EmptySet, InboundAssumption DEF BoundsOK, Init
<1>2. InboundInv /\ BoundsOK /\ [Next]_vars => (InboundInv /\ BoundsOK)'
  <2> SUFFICES ASSUME InboundInv, BoundsOK, [Next]_vars PROVE InboundInv' /\ BoundsOK'
    OBVIOUS
  <2>1. BoundsOK'
    BY BoundsStep
  <2>2. CASE prepare_publish
    BY <2>1, <2>2, PublishStep
  <2>3. CASE prepare_pubrel
    BY <2>1, <2>3, PubrelStep
  <2>4. CASE connect
    BY <2>1, <2>4, ConnectStep, OutstandingFinite
  <2>5. CASE net_connection_release
    BY <2>1, <2>5, ReleaseStep
  <2>6. CASE restart
    BY <2>1, <2>6, RestartStep
  <2>7. CASE client_publish
    BY <2>1, <2>7, ClientPublishStep
  <2>8. CASE client_receive
    BY <2>1, <2>8, ClientReceiveStep
  <2>9. CASE UNCHANGED vars
    BY <2>1, <2>9, InboundStutter
  <2> QED BY <2>2, <2>3, <2>4, <2>5, <2>6, <2>7, <2>8, <2>9, SMTT(60) DEF Next
<1> QED BY <1>1, <1>2, PTL DEF Spec

\* However packets are lost, connections taken over and the broker restarted, the session
\* owner settles a QoS 2 message at most once, whatever the policy and whatever is refused.
THEOREM SettledAtMostOnce == Spec => [](TypeOK /\ \A m \in exact : settled[m] <= 1)
<1>1. InboundInv /\ BoundsOK => TypeOK /\ \A m \in exact : settled[m] <= 1
  BY InboundTypes
<1> QED BY <1>1, InboundInvariance, PTL

\* When rights and quotas refuse a repeated PUBLISH only as long as no record was made for
\* it, the whole of SettledOnce holds: in addition, while no CONNACK has denied a resumed
\* session, the policy "processed" acknowledges nothing the application graph has not
\* taken, and every record of the owner belongs to an exchange its publisher has open.
THEOREM Settlement ==
    ASSUME "repeated" \notin Refusals
    PROVE  Spec => []SettledOnce
<1>1. InboundInv /\ BoundsOK => SettledOnce
  <2> SUFFICES ASSUME InboundInv, BoundsOK PROVE SettledOnce
    OBVIOUS
  <2>1. TypeOK /\ \A m \in exact : settled[m] <= 1
    BY InboundTypes
  <2>2. ~misled => AckedWasProcessed /\ RecordsOfOpenExchanges
    BY DEF InboundInv, HandedOK, OpenOK, Trusted, AckedWasProcessed
  <2> QED BY <2>1, <2>2 DEF SettledOnce
<1> QED BY <1>1, InboundInvariance, PTL
===============================================================================
