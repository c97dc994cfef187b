------------------------ MODULE FlowieDeliveryProofs ------------------------
(***************************************************************************)
(* Machine-checked proofs about the outbound half of the session owner.    *)
(***************************************************************************)
EXTENDS FlowieDelivery, SequenceTheorems, TLAPS

\* What the type invariant says of the vector's elements.
LEMMA VectorFacts ==
    ASSUME TypeOK
    PROVE  /\ Len(deliveries) \in Nat
           /\ deliveries \in [1..Len(deliveries) -> Delivery]
           /\ \A k \in 1..Len(deliveries) : deliveries[k] \in Delivery /\ deliveries[k].id \in PacketId
<1>1. deliveries \in Seq(Delivery)
  BY DEF TypeOK
<1>2. Len(deliveries) \in Nat /\ deliveries \in [1..Len(deliveries) -> Delivery]
  BY <1>1, LenProperties
<1> QED BY <1>2 DEF Delivery

\* Swap-remove keeps the vector well typed and its index exact; no surviving
\* packet id changes its delivery.
LEMMA RemoveAt ==
    ASSUME TypeOK, IndexAgrees, NEW i \in 1..Len(deliveries), delivery_remove_at(i)
    PROVE  /\ deliveries' \in Seq(Delivery)
           /\ delivery_index' \in [PacketId -> Nat]
           /\ Len(deliveries') = Len(deliveries) - 1
           /\ IndexAgrees'
           /\ \A k \in 1..(Len(deliveries) - 1) :
                /\ deliveries'[k] = deliveries[IF k = i THEN Len(deliveries) ELSE k]
                /\ deliveries'[k].id # deliveries[i].id
           /\ \A p \in PacketId : Found(p)' => Found(p) /\ At(p)' = At(p)
<1> DEFINE n == Len(deliveries)
           rest == [k \in 1..(n - 1) |-> IF k = i THEN deliveries[n] ELSE deliveries[k]]
<1>1. /\ n \in Nat \ {0}
      /\ deliveries \in [1..n -> Delivery]
      /\ \A k \in 1..n : deliveries[k] \in Delivery /\ deliveries[k].id \in PacketId
  BY VectorFacts
<1>2. rest \in [1..(n - 1) -> Delivery]
  BY <1>1
<1>3. rest \in Seq(Delivery) /\ Len(rest) = n - 1
  BY <1>1, <1>2, SeqDef, LenProperties
<1>4. deliveries' = rest
  BY DEF delivery_remove_at
<1>5. delivery_index' = [p \in PacketId |-> IF p = deliveries[i].id THEN 0
                                             ELSE IF p = deliveries[n].id THEN i
                                             ELSE delivery_index[p]]
  BY DEF delivery_remove_at
<1>6. \A p \in PacketId : Found(p)' => Found(p) /\ At(p)' = At(p)
  BY <1>1, <1>3, <1>4, <1>5, SMTT(60) DEF IndexAgrees, Found, At, TypeOK
<1>7. IndexAgrees'
  BY <1>1, <1>3, <1>4, <1>5, SMTT(60) DEF IndexAgrees, Found, At, TypeOK
<1>8. \A k \in 1..(n - 1) : /\ deliveries'[k] = deliveries[IF k = i THEN n ELSE k]
                            /\ deliveries'[k].id # deliveries[i].id
  BY <1>1, <1>4 DEF IndexAgrees
<1> QED BY <1>1, <1>3, <1>4, <1>5, <1>6, <1>7, <1>8 DEF TypeOK

\* Appending a delivery under a packet id that is not in use keeps the index exact.
LEMMA AppendOne ==
    ASSUME TypeOK, IndexAgrees, NEW d \in Delivery, delivery_append(d)
    PROVE  /\ deliveries' \in Seq(Delivery)
           /\ delivery_index' \in [PacketId -> Nat]
           /\ Len(deliveries') = Len(deliveries) + 1
           /\ IndexAgrees'
           /\ \A k \in 1..Len(deliveries) : /\ deliveries'[k] = deliveries[k]
                                            /\ deliveries[k].id # d.id
           /\ deliveries'[Len(deliveries) + 1] = d
           /\ \A p \in PacketId : Found(p) => At(p)' = At(p)
<1> DEFINE n == Len(deliveries)
<1>1. /\ deliveries \in Seq(Delivery)
      /\ deliveries' = Append(deliveries, d)
      /\ d.id \in PacketId
      /\ delivery_index[d.id] = 0
  BY DEF TypeOK, delivery_append, Found, Delivery
<1>2. n \in Nat /\ \A k \in 1..n : deliveries[k] \in Delivery /\ deliveries[k].id \in PacketId
  BY VectorFacts
<1>3. /\ deliveries' \in Seq(Delivery)
      /\ Len(deliveries') = n + 1
      /\ \A k \in 1..n : deliveries'[k] = deliveries[k]
      /\ deliveries'[n + 1] = d
  BY <1>1
<1>4. delivery_index' = [delivery_index EXCEPT ![d.id] = n + 1]
  BY DEF delivery_append
<1>5. delivery_index' \in [PacketId -> Nat]
  <2>1. n + 1 \in Nat /\ delivery_index \in [PacketId -> Nat]
    BY <1>2 DEF TypeOK
  <2> QED BY <1>1, <1>4, <2>1
<1>6. \A k \in 1..n : deliveries[k].id # d.id
  BY <1>1, <1>2 DEF IndexAgrees
<1>7. IndexAgrees' /\ \A p \in PacketId : Found(p) => At(p)' = At(p)
  BY <1>1, <1>2, <1>3, <1>4, <1>6 DEF IndexAgrees, Found, At, TypeOK
<1> QED BY <1>3, <1>5, <1>6, <1>7

\* A vector whose elements keep their positions and packet ids keeps its index exact.
LEMMA SameIds ==
    ASSUME TypeOK, IndexAgrees, UNCHANGED delivery_index,
           deliveries' \in Seq(Delivery), Len(deliveries') = Len(deliveries),
           \A k \in 1..Len(deliveries) : deliveries'[k].id = deliveries[k].id
    PROVE  IndexAgrees'
BY SMTT(60) DEF IndexAgrees, Found, At, TypeOK

\* Rewriting the state and the deadline of one delivery.
LEMMA UpdateOne ==
    ASSUME TypeOK, IndexAgrees, NEW i \in 1..Len(deliveries),
           NEW state \in DeliveryState, NEW expiry \in Deadline,
           delivery_update(i, state, expiry)
    PROVE  /\ deliveries' \in Seq(Delivery)
           /\ Len(deliveries') = Len(deliveries)
           /\ IndexAgrees'
           /\ \A k \in 1..Len(deliveries) :
                /\ deliveries'[k].id = deliveries[k].id
                /\ deliveries'[k].qos = deliveries[k].qos
                /\ k = i => deliveries'[k].state = state /\ deliveries'[k].expiry = expiry
                /\ k # i => deliveries'[k] = deliveries[k]
<1> DEFINE n == Len(deliveries)
           d == [deliveries[i] EXCEPT !.state = state, !.expiry = expiry]
<1>1. deliveries \in Seq(Delivery) /\ n \in Nat /\ deliveries[i] \in Delivery
  BY DEF TypeOK
<1>2. /\ d \in Delivery
      /\ d.id = deliveries[i].id /\ d.qos = deliveries[i].qos
      /\ d.state = state /\ d.expiry = expiry
  BY <1>1, Zenon DEF Delivery
<1>3. deliveries' = [deliveries EXCEPT ![i] = d]
  BY DEF delivery_update
<1>4. /\ deliveries' \in Seq(Delivery)
      /\ Len(deliveries') = n
      /\ \A k \in 1..n : deliveries'[k] = IF k = i THEN d ELSE deliveries[k]
  BY <1>1, <1>2, <1>3
<1>5. \A k \in 1..n : deliveries'[k].id = deliveries[k].id
  BY <1>2, <1>4, Zenon
<1>6. IndexAgrees'
  BY <1>4, <1>5, SameIds DEF delivery_update
<1> QED BY <1>2, <1>4, <1>5, <1>6, Zenon

\* Moving every QUEUED delivery to its waiting state, as replay and restart do.
LEMMA ResumeAll ==
    ASSUME TypeOK, IndexAgrees, deliveries' = Resumed, UNCHANGED delivery_index
    PROVE  /\ deliveries' \in Seq(Delivery)
           /\ Len(deliveries') = Len(deliveries)
           /\ IndexAgrees'
           /\ \A k \in 1..Len(deliveries) :
                /\ deliveries'[k].id = deliveries[k].id
                /\ deliveries'[k].qos = deliveries[k].qos
                /\ deliveries'[k].expiry = deliveries[k].expiry
                /\ deliveries'[k].state = IF deliveries[k].state = "QUEUED"
                                         THEN FirstWait(deliveries[k].qos)
                                         ELSE deliveries[k].state
<1> DEFINE n == Len(deliveries)
           r(k) == [deliveries[k] EXCEPT !.state = IF @ = "QUEUED" THEN FirstWait(deliveries[k].qos)
                                                                   ELSE @]
<1>1. n \in Nat /\ \A k \in 1..n : deliveries[k] \in Delivery
  BY VectorFacts
<1>2. ASSUME NEW k \in 1..n
      PROVE  /\ r(k) \in Delivery
             /\ r(k).id = deliveries[k].id /\ r(k).qos = deliveries[k].qos
             /\ r(k).expiry = deliveries[k].expiry
             /\ r(k).state = IF deliveries[k].state = "QUEUED" THEN FirstWait(deliveries[k].qos)
                                                               ELSE deliveries[k].state
  BY <1>1 DEF Delivery, DeliveryState, FirstWait
<1>3. deliveries' = [k \in 1..n |-> r(k)]
  BY DEF Resumed
<1> HIDE DEF r
<1>4. deliveries' \in [1..n -> Delivery]
  BY <1>2, <1>3
<1>5. deliveries' \in Seq(Delivery) /\ Len(deliveries') = n
  BY <1>1, <1>4, SeqDef, LenProperties
<1>6. \A k \in 1..n : deliveries'[k] = r(k)
  BY <1>3
<1>7. IndexAgrees'
  BY <1>2, <1>5, <1>6, SameIds
<1> QED BY <1>2, <1>5, <1>6, <1>7

\* The empty vector with the empty index.
LEMMA ClearAll ==
    ASSUME deliveries_clear
    PROVE  /\ deliveries' \in Seq(Delivery)
           /\ delivery_index' \in [PacketId -> Nat]
           /\ Len(deliveries') = 0
           /\ IndexAgrees'
           /\ \A p \in PacketId : ~Found(p)'
<1>1. deliveries' = <<>> /\ delivery_index' = [p \in PacketId |-> 0]
  BY DEF deliveries_clear, EmptyIndex
<1>2. deliveries' \in Seq(Delivery) /\ Len(deliveries') = 0
  BY <1>1
<1> QED BY <1>1, <1>2 DEF IndexAgrees, Found, At

-----------------------------------------------------------------------------
(* The inductive invariant *)

\* The lane's cursor names a packet id while a delivery is built and a position of the
\* vector, counted from 1, while the expired deliveries are pruned.
LaneOK ==
    /\ lane \in {"reserved", "committed"} => cursor \in PacketId
    /\ lane = "expiring" => cursor >= 1

IInv == TypeOK /\ IndexAgrees /\ DeliveriesRestorable /\ PruneComplete /\ LaneOK

\* A session owner as flowie_session_owner_create leaves it satisfies the invariant.
LEMMA InitIInv == Init => IInv
<1> SUFFICES ASSUME Init PROVE IInv
  OBVIOUS
<1>1. TypeOK
  <2>1. <<>> \in Seq(Delivery) /\ EmptyIndex \in [PacketId -> Nat] /\ 0 \in 0..MaxPacketId
    BY DeliveryAssumption DEF EmptyIndex
  <2> QED BY <2>1, Zenon DEF Init, TypeOK
<1>2. Len(deliveries) = 0
  BY DEF Init
<1> QED BY <1>1, <1>2 DEF Init, IInv, IndexAgrees, Found, EmptyIndex, DeliveriesRestorable,
                          PruneComplete, LaneOK

\* The packet id after the last one, at any distance up to a full turn, is a packet id.
LEMMA CandidateInRange ==
    ASSUME TypeOK, NEW k \in PacketId
    PROVE  Candidate(k) \in PacketId
BY DeliveryAssumption DEF TypeOK, Candidate, PacketId

\* Removing a delivery other than the one being built preserves the invariant's
\* conjuncts about the vector.
LEMMA RemovePreserves ==
    ASSUME IInv, NEW i \in 1..Len(deliveries), delivery_remove_at(i),
           \/ lane' = lane /\ cursor' = cursor /\ lane # "reserved"
           \/ lane' = "idle" /\ deliveries[i].id = cursor
           \/ lane' = "idle" /\ lane # "reserved"
    PROVE  /\ deliveries' \in Seq(Delivery) /\ delivery_index' \in [PacketId -> Nat]
           /\ IndexAgrees' /\ DeliveriesRestorable' /\ Forward
<1>1. TypeOK /\ IndexAgrees /\ DeliveriesRestorable
  BY DEF IInv
<1>2. /\ deliveries' \in Seq(Delivery) /\ delivery_index' \in [PacketId -> Nat]
      /\ IndexAgrees'
      /\ Len(deliveries') = Len(deliveries) - 1
      /\ \A k \in 1..(Len(deliveries) - 1) :
            /\ deliveries'[k] = deliveries[IF k = i THEN Len(deliveries) ELSE k]
            /\ deliveries'[k].id # deliveries[i].id
      /\ \A p \in PacketId : Found(p)' => Found(p) /\ At(p)' = At(p)
  BY <1>1, RemoveAt
<1>3. Len(deliveries) \in Nat
  BY <1>1, VectorFacts
<1>4. DeliveriesRestorable'
  <2> SUFFICES ASSUME NEW k \in 1..(Len(deliveries) - 1)
               PROVE  /\ RowValid(deliveries'[k])
                      /\ deliveries'[k].state = "RESERVED" <=>
                            lane' = "reserved" /\ deliveries'[k].id = cursor'
    BY <1>2 DEF DeliveriesRestorable, RowValid
  <2> DEFINE j == IF k = i THEN Len(deliveries) ELSE k
  <2>1. j \in 1..Len(deliveries) /\ deliveries'[k] = deliveries[j]
    BY <1>2, <1>3
  <2>2. /\ RowValid(deliveries[j])
        /\ deliveries[j].state = "RESERVED" <=> lane = "reserved" /\ deliveries[j].id = cursor
    BY <1>1, <2>1 DEF DeliveriesRestorable
  <2>3. deliveries'[k].id # deliveries[i].id
    BY <1>2
  <2> QED BY <2>1, <2>2, <2>3
<1>5. Forward
  <2> SUFFICES ASSUME NEW p \in PacketId, Found(p), Found(p)'
               PROVE  At(p)'.qos = At(p).qos /\ Rank(At(p)'.state) >= Rank(At(p).state)
    BY DEF Forward
  <2>1. At(p)' = At(p) /\ At(p) \in Delivery
    BY <1>1, <1>2, VectorFacts DEF IndexAgrees, At, Found
  <2>2. Rank(At(p).state) \in Nat
    BY <2>1 DEF Rank, Delivery, DeliveryState
  <2> QED BY <2>1, <2>2
<1> QED BY <1>2, <1>4, <1>5

\* Rewriting deliveries in place, ids kept, never moves one backwards if each rewritten
\* state ranks at least as high as the old one.
LEMMA InPlaceForward ==
    ASSUME TypeOK, IndexAgrees, UNCHANGED delivery_index,
           \A k \in 1..Len(deliveries) :
                /\ deliveries'[k].qos = deliveries[k].qos
                /\ Rank(deliveries'[k].state) >= Rank(deliveries[k].state)
    PROVE  Forward
BY DEF Forward, Found, At, IndexAgrees

\* The rank of a delivery state is a number.
LEMMA RankNat == \A state \in DeliveryState : Rank(state) \in Nat
BY DEF Rank, DeliveryState

\* Leaving vector and index alone.
LEMMA UnchangedOutbound ==
    ASSUME TypeOK, IndexAgrees, UNCHANGED <<deliveries, delivery_index>>
    PROVE  /\ deliveries' \in Seq(Delivery) /\ delivery_index' \in [PacketId -> Nat]
           /\ IndexAgrees' /\ Forward
<1>1. /\ deliveries' \in Seq(Delivery) /\ delivery_index' \in [PacketId -> Nat]
      /\ IndexAgrees'
  BY DEF TypeOK, IndexAgrees, Found, At
<1>2. \A k \in 1..Len(deliveries) :
        /\ deliveries'[k].qos = deliveries[k].qos
        /\ Rank(deliveries'[k].state) >= Rank(deliveries[k].state)
  BY VectorFacts, RankNat DEF Delivery
<1> QED BY <1>1, <1>2, InPlaceForward

-----------------------------------------------------------------------------
(* One lemma per operation that changes a delivery *)

\* flowie_session_owner_delivery_reserve keeps the invariant: the id the allocator settles on
\* is unused, so appending it keeps the index exact.
LEMMA ReserveStep ==
    ASSUME IInv, NEW qos \in 1..2, delivery_reserve(qos)
    PROVE  IInv' /\ Forward
<1> USE DEF IInv
<1>1. PICK k \in PacketId :
        /\ delivery_append([id |-> Candidate(k), qos |-> qos, state |-> "RESERVED",
                            expiry |-> "none"])
        /\ next_delivery_packet_id' = Candidate(k)
        /\ cursor' = Candidate(k)
  BY DEF delivery_reserve
<1> DEFINE c == Candidate(k)
           d == [id |-> c, qos |-> qos, state |-> "RESERVED", expiry |-> "none"]
<1>2. c \in PacketId
  BY CandidateInRange
<1> HIDE DEF c
<1>3. d \in Delivery /\ d.id = c /\ d.state = "RESERVED" /\ RowValid(d)
  BY <1>2 DEF Delivery, DeliveryState, Deadline, RowValid
<1> DEFINE e == d
<1>4. e \in Delivery /\ e.id = c /\ e.state = "RESERVED" /\ RowValid(e) /\ delivery_append(e)
  BY <1>1, <1>3 DEF c
<1> HIDE DEF e
<1>5. /\ deliveries' \in Seq(Delivery)
      /\ delivery_index' \in [PacketId -> Nat]
      /\ Len(deliveries') = Len(deliveries) + 1
      /\ IndexAgrees'
      /\ \A j \in 1..Len(deliveries) : deliveries'[j] = deliveries[j] /\ deliveries[j].id # e.id
      /\ deliveries'[Len(deliveries) + 1] = e
      /\ \A p \in PacketId : Found(p) => At(p)' = At(p)
  BY <1>4, AppendOne
<1>6. /\ lane = "idle" /\ lane' = "reserved" /\ cursor' = c /\ next_delivery_packet_id' = c
      /\ UNCHANGED <<session, inbound>>
  BY <1>1 DEF delivery_reserve, c
<1>7. Len(deliveries) \in Nat /\ \A j \in 1..Len(deliveries) : deliveries[j] \in Delivery
  BY VectorFacts
<1>8. TypeOK'
  BY <1>2, <1>5, <1>6, DeliveryAssumption DEF TypeOK, session, inbound, PacketId
<1>9. DeliveriesRestorable'
  <2> SUFFICES ASSUME NEW j \in 1..(Len(deliveries) + 1)
               PROVE  /\ RowValid(deliveries'[j])
                      /\ deliveries'[j].state = "RESERVED" <=>
                            lane' = "reserved" /\ deliveries'[j].id = cursor'
    BY <1>5 DEF DeliveriesRestorable, RowValid
  <2>1. CASE j = Len(deliveries) + 1
    BY <2>1, <1>4, <1>5, <1>6
  <2>2. CASE j \in 1..Len(deliveries)
    BY <2>2, <1>4, <1>5, <1>6 DEF DeliveriesRestorable
  <2> QED BY <2>1, <2>2, <1>7
<1>10. Forward
  <2>1. \A p \in PacketId : Found(p) => At(p) \in Delivery
    BY <1>7 DEF IndexAgrees, At
  <2> QED BY <2>1, <1>5, RankNat DEF Forward, Delivery
<1> QED BY <1>2, <1>5, <1>6, <1>8, <1>9, <1>10 DEF PruneComplete, LaneOK

\* flowie_session_owner_delivery_commit (and commit_queued) keeps the invariant and moves the
\* reserved delivery forward in place.
LEMMA CommitStep ==
    ASSUME IInv, NEW queued \in BOOLEAN, NEW expiry \in Deadlines,
           delivery_commit(queued, expiry)
    PROVE  IInv' /\ Forward
<1> USE DEF IInv
<1> DEFINE i == delivery_index[cursor]
           state == IF queued THEN "QUEUED" ELSE FirstWait(At(cursor).qos)
<1>1. cursor \in PacketId /\ lane = "reserved"
  BY DEF LaneOK, delivery_commit
<1>2. /\ i \in 1..Len(deliveries) /\ deliveries[i].id = cursor /\ deliveries[i] = At(cursor)
      /\ deliveries[i] \in Delivery
  BY <1>1, VectorFacts DEF delivery_commit, IndexAgrees, At
<1>3. state \in DeliveryState /\ expiry \in Deadline /\ expiry # "passed"
  BY <1>2, DeliveryAssumption DEF FirstWait, DeliveryState, Deadline, Delivery
<1>4. /\ delivery_update(i, state, expiry)
      /\ lane' = "committed" /\ cursor' = cursor
      /\ UNCHANGED <<session, inbound, next_delivery_packet_id>>
      /\ deliveries[i].state = "RESERVED"
  BY DEF delivery_commit, At
<1>5. /\ state = "QUEUED" \/ state = FirstWait(deliveries[i].qos)
  BY <1>2
<1> HIDE DEF state, i
<1>6. /\ deliveries' \in Seq(Delivery)
      /\ Len(deliveries') = Len(deliveries)
      /\ IndexAgrees'
      /\ \A k \in 1..Len(deliveries) :
           /\ deliveries'[k].id = deliveries[k].id
           /\ deliveries'[k].qos = deliveries[k].qos
           /\ k = i => deliveries'[k].state = state /\ deliveries'[k].expiry = expiry
           /\ k # i => deliveries'[k] = deliveries[k]
  BY <1>2, <1>3, <1>4, UpdateOne
<1>61. UNCHANGED delivery_index
  BY <1>4 DEF delivery_update
<1>7. TypeOK'
  BY <1>4, <1>6, <1>61 DEF TypeOK, session, inbound
<1>8. \A k \in 1..Len(deliveries) : k # i => deliveries[k].id # cursor
  BY <1>1, <1>2 DEF IndexAgrees
<1>9. DeliveriesRestorable'
  <2> SUFFICES ASSUME NEW k \in 1..Len(deliveries)
               PROVE  RowValid(deliveries'[k]) /\ deliveries'[k].state # "RESERVED"
    BY <1>4, <1>6 DEF DeliveriesRestorable, RowValid
  <2>1. CASE k = i
    BY <2>1, <1>2, <1>5, <1>6 DEF RowValid, FirstWait, Delivery
  <2>2. CASE k # i
    BY <2>2, <1>6, <1>8 DEF DeliveriesRestorable
  <2> QED BY <2>1, <2>2
<1>10. Forward
  <2>1. \A k \in 1..Len(deliveries) : deliveries[k].state \in DeliveryState
    BY VectorFacts DEF Delivery
  <2>2. Rank("RESERVED") = 0
    BY DEF Rank
  <2>3. \A k \in 1..Len(deliveries) : Rank(deliveries'[k].state) >= Rank(deliveries[k].state)
    BY <1>3, <1>4, <1>6, <2>1, <2>2, RankNat
  <2> QED BY <2>3, <1>6, <1>61, InPlaceForward
<1> QED BY <1>1, <1>4, <1>6, <1>7, <1>9, <1>10 DEF PruneComplete, LaneOK

\* flowie_session_owner_delivery_cancel keeps the invariant: the swap-remove leaves every other
\* delivery under its id.
LEMMA CancelStep ==
    ASSUME IInv, delivery_cancel
    PROVE  IInv' /\ Forward
<1> USE DEF IInv
<1> DEFINE i == delivery_index[cursor]
<1>1. cursor \in PacketId
  BY DEF LaneOK, delivery_cancel
<1>2. i \in 1..Len(deliveries) /\ deliveries[i].id = cursor
  BY <1>1 DEF delivery_cancel, IndexAgrees, At
<1>3. /\ delivery_remove_at(i) /\ lane' = "idle" /\ cursor' = 0
      /\ UNCHANGED <<session, inbound, next_delivery_packet_id>>
  BY DEF delivery_cancel
<1> HIDE DEF i
<1>4. /\ deliveries' \in Seq(Delivery) /\ delivery_index' \in [PacketId -> Nat]
      /\ IndexAgrees' /\ DeliveriesRestorable' /\ Forward
  BY <1>2, <1>3, RemovePreserves
<1> QED BY <1>3, <1>4 DEF TypeOK, session, inbound, PruneComplete, LaneOK

\* flowie_session_owner_delivery_ack keeps the invariant: it removes a completed delivery or
\* advances one to WAIT_PUBCOMP without a deadline.
LEMMA AckStep ==
    ASSUME IInv, NEW p \in PacketId, NEW type, NEW failed, delivery_ack(p, type, failed)
    PROVE  IInv' /\ Forward
<1> USE DEF IInv
<1> DEFINE i == delivery_index[p]
<1>1. /\ lane = "idle" /\ UNCHANGED <<lane, cursor, session, inbound, next_delivery_packet_id>>
      /\ Found(p)
  BY DEF delivery_ack, work
<1>2. /\ i \in 1..Len(deliveries) /\ deliveries[i].id = p /\ deliveries[i] = At(p)
      /\ deliveries[i] \in Delivery
  BY <1>1, VectorFacts DEF IndexAgrees, At
<1>3. CASE delivery_remove_at(i)
  <2>1. /\ deliveries' \in Seq(Delivery) /\ delivery_index' \in [PacketId -> Nat]
        /\ IndexAgrees' /\ DeliveriesRestorable' /\ Forward
    BY <1>1, <1>2, <1>3, RemovePreserves, SMTT(60)
  <2> QED BY <1>1, <2>1, SMTT(60) DEF TypeOK, session, inbound, PruneComplete, LaneOK
<1>4. CASE Releases(p, type, failed) /\ delivery_update(i, "WAIT_PUBCOMP", "none")
  <2>1. "WAIT_PUBCOMP" \in DeliveryState /\ "none" \in Deadline
    BY DEF DeliveryState, Deadline
  <2>2. deliveries[i].qos = 2 /\ deliveries[i].state \in {"WAIT_PUBREC", "WAIT_PUBCOMP"}
    BY <1>2, <1>4 DEF Releases
  <2> HIDE DEF i
  <2>3. /\ deliveries' \in Seq(Delivery)
        /\ Len(deliveries') = Len(deliveries)
        /\ IndexAgrees'
        /\ \A k \in 1..Len(deliveries) :
             /\ deliveries'[k].id = deliveries[k].id
             /\ deliveries'[k].qos = deliveries[k].qos
             /\ k = i => deliveries'[k].state = "WAIT_PUBCOMP" /\ deliveries'[k].expiry = "none"
             /\ k # i => deliveries'[k] = deliveries[k]
    BY <1>2, <1>4, <2>1, UpdateOne
  <2>4. UNCHANGED delivery_index
    BY <1>4, SMTT(60) DEF delivery_update
  <2>5. DeliveriesRestorable'
    BY <1>1, <1>2, <2>2, <2>3 DEF DeliveriesRestorable, RowValid
  <2>6. \A k \in 1..Len(deliveries) : Rank(deliveries'[k].state) >= Rank(deliveries[k].state)
    <3>1. \A k \in 1..Len(deliveries) : deliveries[k].state \in DeliveryState
      BY VectorFacts DEF Delivery
    <3>2. Rank("WAIT_PUBREC") = 2 /\ Rank("WAIT_PUBCOMP") = 3
      BY DEF Rank
    <3> QED BY <2>2, <2>3, <3>1, <3>2, RankNat
  <2>7. Forward
    BY <2>3, <2>4, <2>6, InPlaceForward
  <2> QED BY <1>1, <2>3, <2>4, <2>5, <2>7 DEF TypeOK, session, inbound, PruneComplete, LaneOK
<1> QED BY <1>3, <1>4 DEF delivery_ack

\* The passing of a deadline keeps the invariant outside the pruning loop.
LEMMA DeadlineStep ==
    ASSUME IInv, NEW i \in 1..Len(deliveries), DeadlinePasses(i)
    PROVE  IInv' /\ Forward
<1> USE DEF IInv
<1>1. /\ lane = "idle" /\ UNCHANGED <<lane, cursor, session, inbound, next_delivery_packet_id>>
      /\ deliveries[i].expiry = "pending"
      /\ delivery_update(i, deliveries[i].state, "passed")
  BY DEF DeadlinePasses, work
<1>2. "passed" \in Deadline /\ \A k \in 1..Len(deliveries) : deliveries[k].state \in DeliveryState
  BY VectorFacts DEF Deadline, Delivery
<1>3. /\ deliveries' \in Seq(Delivery)
      /\ Len(deliveries') = Len(deliveries)
      /\ IndexAgrees'
      /\ \A k \in 1..Len(deliveries) :
           /\ deliveries'[k].id = deliveries[k].id
           /\ deliveries'[k].qos = deliveries[k].qos
           /\ k = i => deliveries'[k].state = deliveries[i].state
           /\ k # i => deliveries'[k] = deliveries[k]
  BY <1>1, <1>2, UpdateOne
<1>4. UNCHANGED delivery_index
  BY <1>1 DEF delivery_update
<1>5. DeliveriesRestorable'
  BY <1>1, <1>3 DEF DeliveriesRestorable, RowValid
<1>6. Forward
  BY <1>2, <1>3, <1>4, RankNat, InPlaceForward
<1> QED BY <1>1, <1>3, <1>4, <1>5, <1>6 DEF TypeOK, session, inbound, PruneComplete, LaneOK

\* flowie_session_owner_delivery_expire_packet keeps the invariant.
LEMMA ExpirePacketStep ==
    ASSUME IInv, NEW p \in PacketId, delivery_expire_packet(p)
    PROVE  IInv' /\ Forward
<1> USE DEF IInv
<1> DEFINE i == delivery_index[p]
<1>1. /\ lane = "idle" /\ UNCHANGED <<lane, cursor, session, inbound, next_delivery_packet_id>>
      /\ delivery_remove_at(i)
  BY DEF delivery_expire_packet, work
<1>2. i \in 1..Len(deliveries)
  BY DEF delivery_expire_packet, IndexAgrees
<1> HIDE DEF i
<1>3. /\ deliveries' \in Seq(Delivery) /\ delivery_index' \in [PacketId -> Nat]
      /\ IndexAgrees' /\ DeliveriesRestorable' /\ Forward
  BY <1>1, <1>2, RemovePreserves
<1> QED BY <1>1, <1>3 DEF TypeOK, session, inbound, PruneComplete, LaneOK

\* One turn of the loop of flowie_session_owner_delivery_expire keeps the invariant, PruneComplete
\* included: the element that a swap-remove brings to the cursor is examined next.
LEMMA ExpireStep ==
    ASSUME IInv, delivery_expire
    PROVE  IInv' /\ Forward
<1> USE DEF IInv
<1>1. /\ lane = "expiring" /\ UNCHANGED <<lane, session, inbound, next_delivery_packet_id>>
      /\ cursor \in 1..Len(deliveries)
  BY VectorFacts DEF delivery_expire, LaneOK, TypeOK
<1>2. CASE delivery_remove_at(cursor) /\ UNCHANGED cursor
  <2>1. /\ deliveries' \in Seq(Delivery) /\ delivery_index' \in [PacketId -> Nat]
        /\ IndexAgrees' /\ DeliveriesRestorable' /\ Forward
    BY <1>1, <1>2, RemovePreserves
  <2>2. /\ Len(deliveries') = Len(deliveries) - 1
        /\ \A k \in 1..(Len(deliveries) - 1) :
             deliveries'[k] = deliveries[IF k = cursor THEN Len(deliveries) ELSE k]
    BY <1>1, <1>2, RemoveAt
  <2>3. PruneComplete'
    BY <1>1, <1>2, <2>2, VectorFacts DEF PruneComplete
  <2> QED BY <1>1, <1>2, <2>1, <2>3 DEF TypeOK, session, inbound, LaneOK
<1>3. CASE /\ deliveries[cursor].expiry # "passed" /\ cursor' = cursor + 1
           /\ UNCHANGED <<deliveries, delivery_index>>
  <2>1. /\ deliveries' \in Seq(Delivery) /\ delivery_index' \in [PacketId -> Nat]
        /\ IndexAgrees' /\ Forward
    BY <1>3, UnchangedOutbound
  <2>2. PruneComplete'
    BY <1>1, <1>3 DEF PruneComplete
  <2>3. DeliveriesRestorable'
    BY <1>1, <1>3 DEF DeliveriesRestorable
  <2> QED BY <1>1, <1>3, <2>1, <2>2, <2>3 DEF TypeOK, session, inbound, LaneOK
<1> QED BY <1>2, <1>3 DEF delivery_expire

\* Resuming every delivery preserves the invariant's conjuncts about the vector.
LEMMA ResumePreserves ==
    ASSUME IInv, deliveries' = Resumed, UNCHANGED delivery_index,
           lane # "reserved", lane' # "reserved"
    PROVE  /\ deliveries' \in Seq(Delivery) /\ delivery_index' \in [PacketId -> Nat]
           /\ IndexAgrees' /\ DeliveriesRestorable' /\ Forward
<1> USE DEF IInv
<1>1. /\ deliveries' \in Seq(Delivery)
      /\ Len(deliveries') = Len(deliveries)
      /\ IndexAgrees'
      /\ \A k \in 1..Len(deliveries) :
           /\ deliveries'[k].id = deliveries[k].id
           /\ deliveries'[k].qos = deliveries[k].qos
           /\ deliveries'[k].expiry = deliveries[k].expiry
           /\ deliveries'[k].state = IF deliveries[k].state = "QUEUED"
                                    THEN FirstWait(deliveries[k].qos)
                                    ELSE deliveries[k].state
  BY ResumeAll
<1>2. \A k \in 1..Len(deliveries) : deliveries[k].state \in DeliveryState /\ deliveries[k].qos \in 1..2
  BY VectorFacts DEF Delivery
<1>3. DeliveriesRestorable'
  BY <1>1, <1>2 DEF DeliveriesRestorable, RowValid, FirstWait
<1>4. \A k \in 1..Len(deliveries) : Rank(deliveries'[k].state) >= Rank(deliveries[k].state)
  <2>1. Rank("QUEUED") = 1 /\ \A q \in 1..2 : Rank(FirstWait(q)) = 2
    BY DEF Rank, FirstWait
  <2> QED BY <1>1, <1>2, <2>1, RankNat
<1>5. Forward
  BY <1>1, <1>4, InPlaceForward
<1> QED BY <1>1, <1>3, <1>5 DEF TypeOK

\* The replay of a CONNECT keeps the invariant and moves QUEUED deliveries forward in place.
LEMMA ReplayStep ==
    ASSUME IInv, delivery_replay
    PROVE  IInv' /\ Forward
<1>1. /\ lane = "expiring" /\ lane' = "idle" /\ cursor' = 0 /\ deliveries' = Resumed
      /\ UNCHANGED <<session, inbound, delivery_index, next_delivery_packet_id>>
  BY DEF delivery_replay
<1>2. /\ deliveries' \in Seq(Delivery) /\ delivery_index' \in [PacketId -> Nat]
      /\ IndexAgrees' /\ DeliveriesRestorable' /\ Forward
  BY <1>1, ResumePreserves
<1> QED BY <1>1, <1>2 DEF IInv, TypeOK, session, inbound, PruneComplete, LaneOK

\* flowie_session_repository_restore rebuilds exactly the index the vector had.
LEMMA RestoreKeepsIndex ==
    ASSUME TypeOK, IndexAgrees, repository_restore
    PROVE  UNCHANGED delivery_index
<1> DEFINE at(p) == IF \E i \in 1..Len(deliveries) : deliveries[i].id = p
                    THEN CHOOSE i \in 1..Len(deliveries) : deliveries[i].id = p
                    ELSE 0
<1>1. ASSUME NEW p \in PacketId PROVE at(p) = delivery_index[p]
  <2>1. CASE \E i \in 1..Len(deliveries) : deliveries[i].id = p
    <3>1. at(p) \in 1..Len(deliveries) /\ deliveries[at(p)].id = p
      BY <2>1
    <3> QED BY <3>1 DEF IndexAgrees
  <2>2. CASE ~\E i \in 1..Len(deliveries) : deliveries[i].id = p
    BY <2>2 DEF IndexAgrees, Found, At
  <2> QED BY <2>1, <2>2
<1>2. delivery_index' = [p \in PacketId |-> at(p)]
  BY DEF repository_restore
<1>3. delivery_index \in [PacketId -> Nat]
  BY DEF TypeOK
<1> HIDE DEF at
<1> QED BY <1>1, <1>2, <1>3

\* flowie_session_repository_restore keeps the invariant.
LEMMA RestoreStep ==
    ASSUME IInv, repository_restore
    PROVE  IInv' /\ Forward
<1> USE DEF IInv
<1>1. /\ lane = "idle" /\ UNCHANGED <<lane, cursor, durable, release, next_delivery_packet_id>>
      /\ initialized' = FALSE /\ active' = FALSE /\ settlement' = 0
      /\ deliveries' = Resumed
  BY DEF repository_restore, work
<1>2. UNCHANGED delivery_index
  BY RestoreKeepsIndex
<1>3. /\ deliveries' \in Seq(Delivery) /\ delivery_index' \in [PacketId -> Nat]
      /\ IndexAgrees' /\ DeliveriesRestorable' /\ Forward
  BY <1>1, <1>2, ResumePreserves
<1> QED BY <1>1, <1>3, Zenon DEF TypeOK, PruneComplete, LaneOK

\* Clearing the vector preserves the invariant's conjuncts about it.
LEMMA ClearPreserves ==
    ASSUME IInv, deliveries_clear
    PROVE  /\ deliveries' \in Seq(Delivery) /\ delivery_index' \in [PacketId -> Nat]
           /\ IndexAgrees' /\ DeliveriesRestorable' /\ PruneComplete' /\ Forward
BY ClearAll DEF DeliveriesRestorable, PruneComplete, Forward

\* Leaving the vector alone preserves the invariant's conjuncts about it.
LEMMA StutterPreserves ==
    ASSUME IInv, UNCHANGED <<deliveries, delivery_index>>, lane # "reserved", lane' # "reserved"
    PROVE  /\ deliveries' \in Seq(Delivery) /\ delivery_index' \in [PacketId -> Nat]
           /\ IndexAgrees' /\ DeliveriesRestorable' /\ Forward
BY UnchangedOutbound DEF IInv, DeliveriesRestorable

\* Opening, disconnecting, closing and removing a session keep the invariant.
LEMMA SessionStep ==
    ASSUME IInv,
           \/ \E clean_start, expiry \in BOOLEAN : open(clean_start, expiry)
           \/ disconnect \/ close \/ session_remove
    PROVE  IInv' /\ Forward
<1> USE DEF IInv
<1>1. CASE \E clean_start, expiry \in BOOLEAN : open(clean_start, expiry)
  <2>1. PICK clean_start \in BOOLEAN, expiry \in BOOLEAN : open(clean_start, expiry)
    BY <1>1
  <2>2. CASE deliveries_clear /\ settlement' = 0 /\ release' = 0
    BY <2>1, <2>2, ClearPreserves DEF open, TypeOK, LaneOK
  <2>3. CASE UNCHANGED <<inbound, deliveries, delivery_index>>
    <3>1. /\ deliveries' \in Seq(Delivery) /\ delivery_index' \in [PacketId -> Nat]
          /\ IndexAgrees' /\ DeliveriesRestorable' /\ Forward
      BY <2>1, <2>3, StutterPreserves DEF open
    <3> QED BY <2>1, <2>3, <3>1 DEF open, TypeOK, LaneOK, inbound, PruneComplete
  <2> QED BY <2>1, <2>2, <2>3 DEF open
<1>2. CASE disconnect
  <2>1. /\ deliveries' \in Seq(Delivery) /\ delivery_index' \in [PacketId -> Nat]
        /\ IndexAgrees' /\ DeliveriesRestorable' /\ Forward
    BY <1>2, StutterPreserves DEF disconnect, outbound, work
  <2> QED BY <1>2, <2>1, Zenon DEF disconnect, TypeOK, LaneOK, inbound, outbound, work, PruneComplete
<1>3. CASE close
  <2>1. CASE durable
    <3>1. /\ deliveries' \in Seq(Delivery) /\ delivery_index' \in [PacketId -> Nat]
          /\ IndexAgrees' /\ DeliveriesRestorable' /\ Forward
      BY <1>3, <2>1, StutterPreserves DEF close, work
    <3> QED BY <1>3, <2>1, <3>1, Zenon DEF close, TypeOK, LaneOK, work, PruneComplete
  <2>2. CASE ~durable
    <3>1. deliveries_clear
      BY <1>3, <2>2 DEF close
    <3>2. /\ deliveries' \in Seq(Delivery) /\ delivery_index' \in [PacketId -> Nat]
          /\ IndexAgrees' /\ DeliveriesRestorable' /\ PruneComplete' /\ Forward
      BY <3>1, ClearPreserves
    <3>3. /\ initialized' = initialized /\ active' = FALSE /\ durable' = durable
          /\ settlement' = 0 /\ release' = 0
          /\ next_delivery_packet_id' = next_delivery_packet_id /\ lane' = lane /\ cursor' = cursor
      BY <1>3, <2>2 DEF close, work
    <3> QED BY <3>2, <3>3, Zenon DEF TypeOK, LaneOK
  <2> QED BY <2>1, <2>2
<1>4. CASE session_remove
  <2>1. deliveries_clear
    BY <1>4 DEF session_remove
  <2>2. /\ deliveries' \in Seq(Delivery) /\ delivery_index' \in [PacketId -> Nat]
        /\ IndexAgrees' /\ DeliveriesRestorable' /\ PruneComplete' /\ Forward
    BY <2>1, ClearPreserves
  <2>3. 0 \in 0..MaxPacketId
    BY DeliveryAssumption
  <2> QED BY <1>4, <2>2, <2>3, Zenon DEF session_remove, TypeOK, LaneOK, work
<1> QED BY <1>1, <1>2, <1>3, <1>4

\* The inbound QoS operations keep the invariant: they touch nothing of the outbound side.
LEMMA InboundStep ==
    ASSUME IInv,
           \/ delivery_admit \/ publish_begin \/ qos2_release
           \/ \E qos \in 1..2 : publish_settle(qos)
    PROVE  IInv' /\ Forward
<1> USE DEF IInv
<1>1. /\ UNCHANGED <<deliveries, delivery_index>> /\ lane # "reserved" /\ lane' = "idle"
      /\ UNCHANGED <<session, next_delivery_packet_id>>
  BY DEF delivery_admit, publish_begin, publish_settle, qos2_release, outbound, work
<1>2. /\ deliveries' \in Seq(Delivery) /\ delivery_index' \in [PacketId -> Nat]
      /\ IndexAgrees' /\ DeliveriesRestorable' /\ Forward
  BY <1>1, StutterPreserves
<1>3. settlement' \in Nat /\ release' \in Nat /\ cursor' \in Nat
  BY DEF delivery_admit, publish_begin, publish_settle, qos2_release, inbound, work, TypeOK
<1> QED BY <1>1, <1>2, <1>3 DEF TypeOK, session, LaneOK, PruneComplete

-----------------------------------------------------------------------------
(* The theorems *)

\* Every step of the owner keeps the invariant and moves deliveries forward only.
LEMMA NextStep == ASSUME IInv, [Next]_vars PROVE IInv' /\ (Forward \/ UNCHANGED vars)
<1>1. ASSUME NEW qos \in 1..2, delivery_reserve(qos) PROVE IInv' /\ Forward
  BY <1>1, ReserveStep
<1>2. ASSUME NEW queued \in BOOLEAN, NEW expiry \in Deadlines, delivery_commit(queued, expiry)
      PROVE  IInv' /\ Forward
  BY <1>2, CommitStep
<1>3. CASE delivery_cancel
  BY <1>3, CancelStep
<1>4. ASSUME NEW p \in PacketId, NEW type \in {"PUBACK", "PUBREC", "PUBCOMP"},
             NEW failed \in BOOLEAN, delivery_ack(p, type, failed)
      PROVE  IInv' /\ Forward
  BY <1>4, AckStep
<1>5. ASSUME NEW i \in 1..Len(deliveries), DeadlinePasses(i) PROVE IInv' /\ Forward
  BY <1>5, DeadlineStep
<1>6. ASSUME NEW p \in PacketId, delivery_expire_packet(p) PROVE IInv' /\ Forward
  BY <1>6, ExpirePacketStep
<1>7. CASE delivery_expire
  BY <1>7, ExpireStep
<1>8. CASE delivery_replay
  BY <1>8, ReplayStep
<1>9. CASE \/ \E clean_start, expiry \in BOOLEAN : open(clean_start, expiry)
           \/ disconnect \/ close \/ session_remove
  BY <1>9, SessionStep
<1>10. CASE repository_restore
  BY <1>10, RestoreStep
<1>11. CASE \/ delivery_admit \/ publish_begin \/ qos2_release
            \/ \E qos \in 1..2 : publish_settle(qos)
  BY <1>11, InboundStep, SMTT(60)
<1>12. CASE UNCHANGED vars
  BY <1>12 DEF vars, session, inbound, outbound, work, IInv, TypeOK, IndexAgrees, Found, At,
               DeliveriesRestorable, RowValid, PruneComplete, LaneOK
<1> QED BY <1>1, <1>2, <1>3, <1>4, <1>5, <1>6, <1>7, <1>8, <1>9, <1>10, <1>11, <1>12 DEF Next

\* The inductive invariant holds of every reachable state, for every packet-id range and
\* every inflight capacity.
THEOREM Invariance == Spec => []IInv
<1>1. IInv /\ [Next]_vars => IInv'
  BY NextStep
<1> QED BY InitIInv, <1>1, PTL DEF Spec

\* The session owner's variables keep their types through every operation.
THEOREM TypeCorrect == Spec => []TypeOK
<1>1. IInv => TypeOK
  BY DEF IInv
<1> QED BY Invariance, <1>1, PTL

\* The packet-id index and the delivery vector describe each other exactly in every
\* reachable state: flowie_session_delivery_lookup finds each delivery under its id, and
\* nothing else.
THEOREM IndexExact == Spec => []IndexAgrees
<1>1. IInv => IndexAgrees
  BY DEF IInv
<1> QED BY Invariance, <1>1, PTL

\* Every delivery the owner holds passes the validation of a restart, and none stays
\* RESERVED once the lane has left it.
THEOREM RowsRestorable == Spec => []DeliveriesRestorable
<1>1. IInv => DeliveriesRestorable
  BY DEF IInv
<1> QED BY Invariance, <1>1, PTL

\* The pruning loop of a CONNECT leaves no expired delivery behind its cursor, whatever
\* swap-remove moves into the position it is examining.
THEOREM PruneSkipsNothing == Spec => []PruneComplete
<1>1. IInv => PruneComplete
  BY DEF IInv
<1> QED BY Invariance, <1>1, PTL

\* No step makes a packet id in use name another delivery or moves a delivery backwards.
THEOREM DeliveriesAdvance == Spec => NeverRegresses
<1>1. IInv /\ [Next]_vars => [Forward]_vars
  BY NextStep
<1>2. IInv /\ [Next]_vars => IInv'
  BY NextStep
<1> QED BY InitIInv, <1>1, <1>2, PTL DEF Spec, NeverRegresses
=============================================================================
