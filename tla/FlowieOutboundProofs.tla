------------------------ MODULE FlowieOutboundProofs ------------------------
(***************************************************************************)
(* The delivery vector with its index, allocator, quota and clock          *)
(* implements the table of FlowieOutbound: a step of the owner is a step   *)
(* of the table under the mapping DeliveryTable, or leaves it as it is.    *)
(***************************************************************************)
EXTENDS FlowieDeliveryProofs

\* What delivery_cancel may roll back besides a reservation: a delivery that was just
\* committed, to which the subscriber cannot have answered yet.
CommittedFresh ==
    lane = "committed" /\ Found(cursor) => At(cursor).state # "WAIT_PUBCOMP"

\* Deliveries are pruned and replayed within the CONNECT that made the session active.
ReplayOnline == lane = "expiring" => active

RInv == IInv /\ CommittedFresh /\ ReplayOnline

\* The entry of the table for one packet id.
Entry(p) == IF Found(p) THEN [qos |-> At(p).qos, state |-> At(p).state]
                        ELSE [qos |-> 0, state |-> "FREE"]

\* The table is a function on packet ids, before and after a step.
LEMMA TableEntries ==
    /\ DeliveryTable = [p \in PacketId |-> Entry(p)]
    /\ DeliveryTable' = [p \in PacketId |-> Entry(p)']
    /\ \A p \in PacketId : DeliveryTable[p] = Entry(p)
BY DEF DeliveryTable, Entry, Found, At

\* A step that changes the entry of one packet id.
LEMMA OneEntry ==
    ASSUME NEW q \in PacketId, NEW e, Entry(q)' = e,
           \A p \in PacketId \ {q} : Entry(p)' = Entry(p)
    PROVE  DeliveryTable' = [DeliveryTable EXCEPT ![q] = e]
BY TableEntries

\* A step that changes no entry.
LEMMA SameEntries ==
    ASSUME \A p \in PacketId : Entry(p)' = Entry(p)
    PROVE  DeliveryTable' = DeliveryTable
BY TableEntries

\* A swap-remove frees one entry of the table, and the element it moves keeps its own.
LEMMA RemoveFrees ==
    ASSUME IInv, NEW i \in 1..Len(deliveries), delivery_remove_at(i),
           NEW q \in PacketId, q = deliveries[i].id
    PROVE  /\ DeliveryTable' = [DeliveryTable EXCEPT ![q] = Abstract!Free]
           /\ DeliveryTable[q] = [qos |-> deliveries[i].qos, state |-> deliveries[i].state]
<1>1. TypeOK /\ IndexAgrees
  BY DEF IInv
<1>2. Len(deliveries) \in Nat /\ i # 0
  BY <1>1, VectorFacts
<1>3. \A p \in PacketId : Found(p)' => Found(p) /\ At(p)' = At(p)
  BY <1>1, RemoveAt
<1>4. ~Found(q)' /\ \A p \in PacketId \ {q} : Found(p) => Found(p)'
  BY <1>2 DEF Found, delivery_remove_at
<1>5. Found(q) /\ At(q) = deliveries[i]
  BY <1>1, <1>2 DEF IndexAgrees, Found, At
<1>6. Entry(q)' = Abstract!Free
  BY <1>4 DEF Entry, Abstract!Free
<1>7. \A p \in PacketId \ {q} : Entry(p)' = Entry(p)
  BY <1>3, <1>4 DEF Entry
<1>8. DeliveryTable' = [DeliveryTable EXCEPT ![q] = Abstract!Free]
  BY <1>6, <1>7, OneEntry
<1>9. DeliveryTable[q] = [qos |-> deliveries[i].qos, state |-> deliveries[i].state]
  BY <1>5, TableEntries DEF Entry
<1> QED BY <1>8, <1>9

\* Rewriting one delivery in place changes its entry only.
LEMMA UpdateOneEntry ==
    ASSUME IInv, NEW i \in 1..Len(deliveries), NEW state \in DeliveryState,
           NEW expiry \in Deadline, delivery_update(i, state, expiry),
           NEW q \in PacketId, q = deliveries[i].id
    PROVE  /\ DeliveryTable[q] = [qos |-> deliveries[i].qos, state |-> deliveries[i].state]
           /\ DeliveryTable' = [DeliveryTable EXCEPT ![q] =
                                    [qos |-> deliveries[i].qos, state |-> state]]
<1>1. TypeOK /\ IndexAgrees /\ Len(deliveries) \in Nat
  BY VectorFacts DEF IInv
<1>2. /\ Len(deliveries') = Len(deliveries)
      /\ \A k \in 1..Len(deliveries) :
            /\ deliveries'[k].qos = deliveries[k].qos
            /\ k = i => deliveries'[k].state = state
            /\ k # i => deliveries'[k] = deliveries[k]
  BY <1>1, UpdateOne
<1>21. UNCHANGED delivery_index
  BY DEF delivery_update
<1>3. delivery_index[q] = i
  BY <1>1 DEF IndexAgrees
<1>4. i # 0 /\ Found(q) /\ Found(q)' /\ At(q) = deliveries[i] /\ At(q)' = deliveries'[i]
  BY <1>1, <1>21, <1>3 DEF Found, At
<1>5. Entry(q) = [qos |-> deliveries[i].qos, state |-> deliveries[i].state]
  BY <1>4 DEF Entry
<1>6. Entry(q)' = [qos |-> deliveries[i].qos, state |-> state]
  BY <1>2, <1>4 DEF Entry
<1>7. \A p \in PacketId \ {q} : Entry(p)' = Entry(p)
  <2> SUFFICES ASSUME NEW p \in PacketId \ {q} PROVE Entry(p)' = Entry(p)
    OBVIOUS
  <2>1. CASE ~Found(p)
    BY <2>1, <1>21 DEF Found, Entry
  <2>2. CASE Found(p)
    <3>1. delivery_index[p] \in 1..Len(deliveries) /\ delivery_index[p] # i
      BY <2>2, <1>1 DEF IndexAgrees, At
    <3> QED BY <3>1, <1>2, <1>21, <2>2 DEF Found, At, Entry
  <2> QED BY <2>1, <2>2
<1> QED BY <1>1, <1>5, <1>6, <1>7, OneEntry, TableEntries

\* Replay and restart hand over every waiting delivery and no other.
LEMMA ResumeHands ==
    ASSUME IInv, deliveries' = Resumed, UNCHANGED delivery_index
    PROVE  DeliveryTable' = Abstract!Handed
<1>1. TypeOK /\ IndexAgrees
  BY DEF IInv
<1>2. \A k \in 1..Len(deliveries) :
        /\ deliveries'[k].qos = deliveries[k].qos
        /\ deliveries'[k].state = IF deliveries[k].state = "QUEUED"
                                 THEN FirstWait(deliveries[k].qos)
                                 ELSE deliveries[k].state
  BY <1>1, ResumeAll
<1>3. ASSUME NEW p \in PacketId
      PROVE  Entry(p)' = IF Entry(p).state = "QUEUED"
                         THEN [qos |-> Entry(p).qos, state |-> FirstWait(Entry(p).qos)]
                         ELSE Entry(p)
  <2>1. CASE ~Found(p)
    BY <2>1 DEF Found, Entry
  <2>2. CASE Found(p)
    <3>1. delivery_index[p] \in 1..Len(deliveries)
      BY <2>2, <1>1 DEF IndexAgrees
    <3>2. /\ At(p)'.qos = At(p).qos
          /\ At(p)'.state = IF At(p).state = "QUEUED" THEN FirstWait(At(p).qos) ELSE At(p).state
      BY <3>1, <1>2 DEF At
    <3>3. Found(p)'
      BY <2>2 DEF Found
    <3> QED BY <2>2, <3>2, <3>3 DEF Entry
  <2> QED BY <2>1, <2>2
<1> QED BY <1>3, TableEntries DEF Abstract!Handed, Abstract!Carried, Abstract!AwaitsFirst, FirstWait

\* Clearing the vector frees every entry.
LEMMA ClearFrees ==
    ASSUME deliveries_clear
    PROVE  DeliveryTable' = Abstract!Cleared
<1>1. \A p \in PacketId : Entry(p)' = Abstract!Free
  BY ClearAll DEF Entry, Abstract!Free
<1> QED BY <1>1, TableEntries DEF Abstract!Cleared

\* A step that leaves vector and index alone leaves the table alone.
LEMMA KeepTable ==
    ASSUME UNCHANGED <<deliveries, delivery_index>>
    PROVE  DeliveryTable' = DeliveryTable
BY DEF DeliveryTable, Found, At

-----------------------------------------------------------------------------
(* Each operation as a step of the table *)

\* Reserving a packet id begins a delivery under an id that is free.
LEMMA ReserveBegins ==
    ASSUME IInv, NEW qos \in 1..2, delivery_reserve(qos)
    PROVE  \E p \in PacketId : Abstract!Begin(p, qos)
<1>1. TypeOK /\ IndexAgrees
  BY DEF IInv
<1>2. PICK k \in PacketId :
        delivery_append([id |-> Candidate(k), qos |-> qos, state |-> "RESERVED", expiry |-> "none"])
  BY DEF delivery_reserve
<1>3. PICK c \in PacketId : c = Candidate(k)
  BY <1>1, CandidateInRange
<1>4. PICK d \in Delivery : d = [id |-> c, qos |-> qos, state |-> "RESERVED", expiry |-> "none"]
  BY Zenon DEF Delivery, DeliveryState, Deadline
<1>5. d.id = c /\ d.qos = qos /\ d.state = "RESERVED" /\ delivery_append(d)
  BY <1>2, <1>3, <1>4
<1>6. /\ Len(deliveries') = Len(deliveries) + 1
      /\ deliveries'[Len(deliveries) + 1] = d
      /\ \A p \in PacketId : Found(p) => At(p)' = At(p)
  BY <1>1, <1>5, AppendOne
<1>7. Len(deliveries) \in Nat
  BY <1>1, VectorFacts
<1>8. /\ ~Found(c)
      /\ delivery_index' = [delivery_index EXCEPT ![c] = Len(deliveries) + 1]
      /\ delivery_index \in [PacketId -> Nat]
  BY <1>1, <1>5 DEF delivery_append, TypeOK
<1>9. Found(c)' /\ At(c)' = d /\ \A p \in PacketId \ {c} : Found(p)' = Found(p)
  BY <1>6, <1>7, <1>8 DEF Found, At
<1>10. Entry(c)' = [qos |-> qos, state |-> "RESERVED"]
  BY <1>5, <1>9 DEF Entry
<1>11. \A p \in PacketId \ {c} : Entry(p)' = Entry(p)
  BY <1>6, <1>9 DEF Entry
<1>12. DeliveryTable[c] = Abstract!Free
  BY <1>8, TableEntries DEF Entry, Abstract!Free
<1>13. DeliveryTable' = [DeliveryTable EXCEPT ![c] = Abstract!Carried(qos, "RESERVED")]
  BY <1>10, <1>11, OneEntry DEF Abstract!Carried
<1> QED BY <1>12, <1>13, Zenon DEF Abstract!Begin, delivery_reserve, session

\* Committing the reservation queues the delivery or hands it to the connection.
LEMMA CommitCommits ==
    ASSUME IInv, NEW queued \in BOOLEAN, NEW expiry \in Deadlines, delivery_commit(queued, expiry)
    PROVE  \E p \in PacketId : Abstract!Commit(p)
<1>1. TypeOK /\ IndexAgrees /\ LaneOK
  BY DEF IInv
<1>2. PICK q \in PacketId : q = cursor
  BY <1>1 DEF LaneOK, delivery_commit
<1>3. PICK i \in 1..Len(deliveries) : i = delivery_index[q] /\ deliveries[i].id = q
  BY <1>1, <1>2 DEF delivery_commit, IndexAgrees, At
<1>4. PICK state : state = IF queued THEN "QUEUED" ELSE FirstWait(deliveries[i].qos)
  OBVIOUS
<1>5. deliveries[i] \in Delivery /\ expiry \in Deadline /\ state \in DeliveryState
  BY <1>1, <1>4, VectorFacts, DeliveryAssumption DEF FirstWait, DeliveryState, Deadline, Delivery
<1>6. /\ delivery_update(i, state, expiry) /\ deliveries[i].state = "RESERVED"
      /\ queued \/ active
      /\ UNCHANGED active
  BY <1>2, <1>3, <1>4 DEF delivery_commit, At, session
<1>7. /\ DeliveryTable[q] = [qos |-> deliveries[i].qos, state |-> "RESERVED"]
      /\ DeliveryTable' = [DeliveryTable EXCEPT ![q] = [qos |-> deliveries[i].qos, state |-> state]]
  BY <1>3, <1>5, <1>6, UpdateOneEntry
<1>8. DeliveryTable[q].qos = deliveries[i].qos /\ DeliveryTable[q].state = "RESERVED"
  BY <1>7
<1>9. CASE queued
  BY <1>4, <1>6, <1>7, <1>8, <1>9, Zenon DEF Abstract!Commit, Abstract!Carried
<1>10. CASE ~queued
  BY <1>4, <1>6, <1>7, <1>8, <1>10, Zenon DEF Abstract!Commit, Abstract!Carried, Abstract!AwaitsFirst, FirstWait
<1> QED BY <1>9, <1>10

\* Cancelling drops a delivery the subscriber has not answered.
LEMMA CancelDrops ==
    ASSUME RInv, delivery_cancel
    PROVE  \E p \in PacketId : Abstract!Drop(p)
<1>1. IInv /\ TypeOK /\ IndexAgrees /\ LaneOK /\ DeliveriesRestorable /\ CommittedFresh
  BY DEF RInv, IInv
<1>2. PICK q \in PacketId : q = cursor
  BY <1>1 DEF LaneOK, delivery_cancel
<1>3. PICK i \in 1..Len(deliveries) : i = delivery_index[q] /\ deliveries[i].id = q
  BY <1>1, <1>2 DEF delivery_cancel, IndexAgrees, At
<1>4. delivery_remove_at(i) /\ UNCHANGED active /\ lane \in {"reserved", "committed"} /\ Found(cursor)
  BY <1>2, <1>3 DEF delivery_cancel, session
<1>5. deliveries[i].state \in DeliveryState /\ deliveries[i].state # "WAIT_PUBCOMP"
  <2>1. deliveries[i] \in Delivery
    BY <1>1, VectorFacts
  <2>2. CASE lane = "reserved"
    BY <1>1, <1>2, <1>3, <2>1, <2>2 DEF DeliveriesRestorable, Delivery
  <2>3. CASE lane = "committed"
    BY <1>1, <1>2, <1>3, <1>4, <2>1, <2>3 DEF CommittedFresh, At, Delivery
  <2> QED BY <1>4, <2>2, <2>3
<1>6. /\ DeliveryTable' = [DeliveryTable EXCEPT ![q] = Abstract!Free]
      /\ DeliveryTable[q] = [qos |-> deliveries[i].qos, state |-> deliveries[i].state]
  BY <1>1, <1>3, <1>4, RemoveFrees
<1>7. DeliveryTable[q].state \in {"RESERVED", "QUEUED", "WAIT_ACK", "WAIT_PUBREC"}
  BY <1>5, <1>6 DEF DeliveryState
<1> QED BY <1>4, <1>6, <1>7, Zenon DEF Abstract!Drop

\* A delivery whose deadline has passed is dropped, which a released one never is: its row
\* carries no deadline.
LEMMA ExpiryDrops ==
    ASSUME IInv, NEW i \in 1..Len(deliveries), delivery_remove_at(i),
           deliveries[i].expiry = "passed", UNCHANGED active
    PROVE  \E p \in PacketId : Abstract!Drop(p)
<1>1. TypeOK /\ DeliveriesRestorable
  BY DEF IInv
<1>2. PICK q \in PacketId : q = deliveries[i].id
  BY <1>1, VectorFacts
<1>3. deliveries[i].state \in DeliveryState \ {"WAIT_PUBCOMP"}
  BY <1>1, VectorFacts DEF DeliveriesRestorable, RowValid, Delivery
<1>4. /\ DeliveryTable' = [DeliveryTable EXCEPT ![q] = Abstract!Free]
      /\ DeliveryTable[q] = [qos |-> deliveries[i].qos, state |-> deliveries[i].state]
  BY <1>2, RemoveFrees
<1>5. DeliveryTable[q].state \in {"RESERVED", "QUEUED", "WAIT_ACK", "WAIT_PUBREC"}
  BY <1>3, <1>4 DEF DeliveryState
<1> QED BY <1>4, <1>5, Zenon DEF Abstract!Drop

\* An acknowledgement completes its delivery, releases it, or repeats a PUBREC.
LEMMA AckCompletes ==
    ASSUME IInv, NEW p \in PacketId, NEW type, NEW failed, delivery_ack(p, type, failed)
    PROVE  Abstract!Complete(p) \/ Abstract!Release(p) \/ UNCHANGED Abstract!view
<1>1. TypeOK /\ IndexAgrees
  BY DEF IInv
<1>2. active /\ UNCHANGED active /\ Found(p)
  BY DEF delivery_ack, session
<1>3. PICK i \in 1..Len(deliveries) : i = delivery_index[p] /\ deliveries[i].id = p /\ At(p) = deliveries[i]
  BY <1>1, <1>2 DEF IndexAgrees, At
<1>4. deliveries[i] \in Delivery
  BY <1>1, VectorFacts
<1>5. CASE Completes(p, type, failed) /\ delivery_remove_at(i)
  <2>1. deliveries[i].state \in {"WAIT_ACK", "WAIT_PUBREC", "WAIT_PUBCOMP"}
    BY <1>3, <1>5 DEF Completes
  <2>2. /\ DeliveryTable' = [DeliveryTable EXCEPT ![p] = Abstract!Free]
        /\ DeliveryTable[p] = [qos |-> deliveries[i].qos, state |-> deliveries[i].state]
    BY <1>3, <1>5, RemoveFrees
  <2>3. DeliveryTable[p].state \in {"WAIT_ACK", "WAIT_PUBREC", "WAIT_PUBCOMP"}
    BY <2>1, <2>2
  <2> QED BY <1>2, <2>2, <2>3 DEF Abstract!Complete
<1>6. CASE Releases(p, type, failed) /\ delivery_update(i, "WAIT_PUBCOMP", "none")
  <2>1. deliveries[i].qos = 2 /\ deliveries[i].state \in {"WAIT_PUBREC", "WAIT_PUBCOMP"}
    BY <1>3, <1>6 DEF Releases
  <2>2. "WAIT_PUBCOMP" \in DeliveryState /\ "none" \in Deadline
    BY DEF DeliveryState, Deadline
  <2>3. /\ DeliveryTable[p] = [qos |-> deliveries[i].qos, state |-> deliveries[i].state]
        /\ DeliveryTable' = [DeliveryTable EXCEPT ![p] = [qos |-> deliveries[i].qos, state |-> "WAIT_PUBCOMP"]]
    BY <1>3, <1>6, <2>2, UpdateOneEntry
  <2>4. CASE deliveries[i].state = "WAIT_PUBREC"
    <3>1. DeliveryTable[p].state = "WAIT_PUBREC"
      BY <2>3, <2>4
    <3> QED BY <1>2, <2>1, <2>3, <3>1 DEF Abstract!Release, Abstract!Carried
  <2>5. CASE deliveries[i].state = "WAIT_PUBCOMP"
    <3>1. DeliveryTable' = DeliveryTable
      BY <2>3, <2>5, TableEntries
    <3> QED BY <1>2, <3>1 DEF Abstract!view
  <2> QED BY <2>1, <2>4, <2>5
<1> QED BY <1>3, <1>5, <1>6 DEF delivery_ack

\* The passing of a deadline is invisible in the table.
LEMMA DeadlineHidden ==
    ASSUME IInv, NEW i \in 1..Len(deliveries), DeadlinePasses(i)
    PROVE  UNCHANGED Abstract!view
<1>1. TypeOK
  BY DEF IInv
<1>2. PICK q \in PacketId : q = deliveries[i].id
  BY <1>1, VectorFacts
<1>3. PICK state \in DeliveryState : state = deliveries[i].state
  BY <1>1, VectorFacts DEF Delivery
<1>4. "passed" \in Deadline /\ delivery_update(i, state, "passed") /\ UNCHANGED active
  BY <1>3 DEF Deadline, DeadlinePasses, session
<1>5. /\ DeliveryTable[q] = [qos |-> deliveries[i].qos, state |-> state]
      /\ DeliveryTable' = [DeliveryTable EXCEPT ![q] = [qos |-> deliveries[i].qos, state |-> state]]
  BY <1>2, <1>3, <1>4, UpdateOneEntry
<1>6. DeliveryTable' = DeliveryTable
  BY <1>5, TableEntries
<1> QED BY <1>4, <1>6 DEF Abstract!view

-----------------------------------------------------------------------------
(* The theorem *)

\* No step but a commit enters the state in which a committed delivery is rolled back.
LEMMA FreshStep ==
    ASSUME IInv, CommittedFresh, [Next]_vars
    PROVE  CommittedFresh'
<1>1. ASSUME NEW queued \in BOOLEAN, NEW expiry \in Deadlines, delivery_commit(queued, expiry)
      PROVE  CommittedFresh'
  <2>1. TypeOK /\ IndexAgrees /\ LaneOK
    BY DEF IInv
  <2>2. PICK i \in 1..Len(deliveries) : i = delivery_index[cursor]
    BY <1>1, <2>1 DEF delivery_commit, IndexAgrees, LaneOK
  <2>3. PICK state : state = IF queued THEN "QUEUED" ELSE FirstWait(At(cursor).qos)
    OBVIOUS
  <2>4. expiry \in Deadline /\ state \in DeliveryState \ {"WAIT_PUBCOMP"}
    BY <2>3, DeliveryAssumption DEF FirstWait, DeliveryState, Deadline
  <2>5. delivery_update(i, state, expiry) /\ UNCHANGED <<delivery_index, cursor>>
    BY <1>1, <2>2, <2>3, SMTT(60) DEF delivery_commit, delivery_update
  <2>6. deliveries'[i].state = state
    BY <2>1, <2>4, <2>5, UpdateOne
  <2> QED BY <2>2, <2>4, <2>5, <2>6 DEF CommittedFresh, At
<1>2. CASE lane' # "committed"
  BY <1>2 DEF CommittedFresh
<1>3. CASE UNCHANGED vars
  BY <1>3, SMTT(60) DEF CommittedFresh, vars, outbound, work, Found, At
<1>4. \/ \E queued \in BOOLEAN, expiry \in Deadlines : delivery_commit(queued, expiry)
      \/ lane' # "committed" \/ UNCHANGED vars
  BY DEF Next, delivery_reserve, delivery_admit, delivery_cancel, delivery_ack, DeadlinePasses,
         delivery_expire_packet, delivery_expire, delivery_replay, open, disconnect, close,
         session_remove, repository_restore, publish_begin, publish_settle, qos2_release, work
<1> QED BY <1>1, <1>2, <1>3, <1>4

\* A step that leaves the session while it is replayed would have to run within CONNECT.
LEMMA OnlineStep ==
    ASSUME ReplayOnline, [Next]_vars
    PROVE  ReplayOnline'
<1>1. CASE UNCHANGED vars
  BY <1>1, SMTT(60) DEF ReplayOnline, vars, session, work
<1>2. CASE Next
  BY <1>2, Zenon DEF Next, ReplayOnline, delivery_reserve, delivery_commit, delivery_admit, delivery_cancel,
         delivery_ack, DeadlinePasses, delivery_expire_packet, delivery_expire, delivery_replay,
         open, disconnect, close, session_remove, repository_restore, publish_begin,
         publish_settle, qos2_release, work, session
<1> QED BY <1>1, <1>2

\* Opening, closing, removing and restoring a session as steps of the table.
LEMMA SessionSimulated ==
    ASSUME IInv,
           \/ \E clean_start, expiry \in BOOLEAN : open(clean_start, expiry)
           \/ disconnect \/ close \/ session_remove \/ repository_restore
    PROVE  Abstract!Open \/ Abstract!Leave \/ UNCHANGED Abstract!view
<1>1. ASSUME NEW clean_start \in BOOLEAN, NEW expiry \in BOOLEAN, open(clean_start, expiry)
      PROVE  Abstract!Open
  <2>1. CASE deliveries_clear
    BY <1>1, <2>1, ClearFrees DEF open, Abstract!Open
  <2>2. CASE UNCHANGED <<deliveries, delivery_index>>
    BY <1>1, <2>2, KeepTable DEF open, Abstract!Open
  <2> QED BY <1>1, <2>1, <2>2 DEF open
<1>2. CASE disconnect
  <2>1. UNCHANGED <<active, deliveries, delivery_index>>
    BY <1>2 DEF disconnect, outbound
  <2> QED BY <2>1, KeepTable DEF Abstract!view
<1>3. CASE close
  <2>1. active' = FALSE /\ (deliveries_clear \/ UNCHANGED <<deliveries, delivery_index>>)
    BY <1>3 DEF close
  <2> QED BY <2>1, ClearFrees, KeepTable DEF Abstract!Leave
<1>4. CASE session_remove
  <2>1. active' = FALSE /\ deliveries_clear
    BY <1>4 DEF session_remove, IInv, TypeOK
  <2> QED BY <2>1, ClearFrees DEF Abstract!Leave
<1>5. CASE repository_restore
  <2>1. deliveries' = Resumed /\ active' = FALSE
    BY <1>5 DEF repository_restore
  <2>2. UNCHANGED delivery_index
    BY <1>5, RestoreKeepsIndex, SMTT(60) DEF IInv
  <2> QED BY <2>1, <2>2, ResumeHands DEF Abstract!Leave
<1> QED BY <1>1, <1>2, <1>3, <1>4, <1>5

\* Every step of the owner is a step of the table or leaves it alone.
LEMMA StepSimulation ==
    ASSUME RInv, [Next]_vars
    PROVE  [Abstract!OutboundNext]_(Abstract!view)
<1> USE DEF Abstract!OutboundNext
<1>0. IInv
  BY DEF RInv
<1>1. ASSUME NEW qos \in 1..2, delivery_reserve(qos) PROVE Abstract!OutboundNext
  BY <1>0, <1>1, ReserveBegins
<1>2. ASSUME NEW queued \in BOOLEAN, NEW expiry \in Deadlines, delivery_commit(queued, expiry)
      PROVE  Abstract!OutboundNext
  BY <1>0, <1>2, CommitCommits
<1>3. CASE delivery_cancel
  BY <1>3, CancelDrops
<1>4. ASSUME NEW p \in PacketId, NEW type \in {"PUBACK", "PUBREC", "PUBCOMP"},
             NEW failed \in BOOLEAN, delivery_ack(p, type, failed)
      PROVE  [Abstract!OutboundNext]_(Abstract!view)
  BY <1>0, <1>4, AckCompletes
<1>5. ASSUME NEW i \in 1..Len(deliveries), DeadlinePasses(i) PROVE UNCHANGED Abstract!view
  BY <1>0, <1>5, DeadlineHidden, SMTT(60)
<1>6. ASSUME NEW p \in PacketId, delivery_expire_packet(p) PROVE Abstract!OutboundNext
  <2>1. PICK i \in 1..Len(deliveries) : i = delivery_index[p] /\ deliveries[i] = At(p)
    BY <1>0, <1>6, SMTT(60) DEF delivery_expire_packet, IInv, IndexAgrees, At
  <2> QED BY <1>0, <1>6, <2>1, ExpiryDrops, SMTT(60) DEF delivery_expire_packet, session
<1>7. CASE delivery_expire
  <2>1. cursor \in 1..Len(deliveries) /\ UNCHANGED active
    BY <1>0, <1>7, VectorFacts DEF delivery_expire, IInv, LaneOK, TypeOK, session
  <2>2. PICK i \in 1..Len(deliveries) : i = cursor
    BY <2>1
  <2>3. CASE deliveries[i].expiry = "passed" /\ delivery_remove_at(i)
    BY <1>0, <2>1, <2>3, ExpiryDrops
  <2>4. CASE UNCHANGED <<deliveries, delivery_index>>
    BY <2>1, <2>4, KeepTable DEF Abstract!view
  <2> QED BY <1>7, <2>2, <2>3, <2>4, SMTT(60) DEF delivery_expire
<1>8. CASE delivery_replay
  <2>1. deliveries' = Resumed /\ UNCHANGED <<delivery_index, active>>
    BY <1>8 DEF delivery_replay, session
  <2>2. DeliveryTable' = Abstract!Handed
    BY <1>0, <2>1, ResumeHands
  <2>3. active
    BY <1>8 DEF delivery_replay, RInv, ReplayOnline
  <2> QED BY <2>1, <2>2, <2>3 DEF Abstract!Replay
<1>9. CASE \/ \E clean_start, expiry \in BOOLEAN : open(clean_start, expiry)
           \/ disconnect \/ close \/ session_remove \/ repository_restore
  BY <1>0, <1>9, SessionSimulated
<1>10. CASE \/ delivery_admit \/ publish_begin \/ qos2_release
            \/ \E qos \in 1..2 : publish_settle(qos)
  <2>1. UNCHANGED <<active, deliveries, delivery_index>>
    BY <1>10 DEF delivery_admit, publish_begin, publish_settle, qos2_release, outbound, session
  <2> QED BY <2>1, KeepTable DEF Abstract!view
<1>11. CASE UNCHANGED vars
  <2>1. UNCHANGED <<active, deliveries, delivery_index>>
    BY <1>11 DEF vars, outbound, session
  <2> QED BY <2>1, KeepTable DEF Abstract!view
<1> QED BY <1>1, <1>2, <1>3, <1>4, <1>5, <1>6, <1>7, <1>8, <1>9, <1>10, <1>11, SMTT(60) DEF Next

\* The owner's vector, index, allocator and quota implement the table of FlowieOutbound for
\* every packet-id range, capacity and set of deadlines: an id carries one delivery, which
\* only advances, and once the subscriber has answered PUBREC nothing but its own answer or
\* the end of the session frees the id.
THEOREM OutboundRefinement == Spec => ImplementsOutbound
<1>1. Init => RInv
  BY InitIInv DEF Init, RInv, CommittedFresh, ReplayOnline
<1>2. RInv /\ [Next]_vars => RInv'
  BY NextStep, FreshStep, OnlineStep DEF RInv
<1>3. Init => Abstract!OutboundInit
  BY DEF Init, Abstract!OutboundInit, Abstract!Cleared, Abstract!Free, DeliveryTable, Found, EmptyIndex
<1>4. RInv /\ [Next]_vars => [Abstract!OutboundNext]_(Abstract!view)
  BY StepSimulation
<1> QED BY <1>1, <1>2, <1>3, <1>4, PTL DEF Spec, ImplementsOutbound, Abstract!OutboundSpec
=============================================================================
