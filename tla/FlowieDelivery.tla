--------------------------- MODULE FlowieDelivery ---------------------------
(***************************************************************************)
(* The outbound half of one MQTT session owner (flowie_session_owner_t in  *)
(* flowie/src/flowie_session.c): the vector of broker-owned deliveries,    *)
(* the derived packet-id index beside it, the packet-id allocator, and the *)
(* quota that deliveries share with the inbound QoS records.               *)
(*                                                                         *)
(* Every operation runs on the endpoint owner lane.  An operation that the *)
(* code performs as a loop (pruning expired deliveries) or as a fixed      *)
(* sequence of owner calls (reserve, commit, admit or cancel) is a         *)
(* sequence of steps here; the variable lane keeps every other operation   *)
(* out until the sequence ends, as the lane does.                          *)
(***************************************************************************)
EXTENDS Integers, Sequences

CONSTANTS
    MaxPacketId,  \* UINT16_MAX in the code: packet ids are 1..MaxPacketId
    MaxInflight,  \* config.max_inflight of the session
    Deadlines     \* message-expiry values a new delivery may carry

ASSUME DeliveryAssumption ==
    /\ MaxPacketId \in Nat \ {0}
    /\ MaxInflight \in Nat \ {0}
    /\ Deadlines \subseteq {"none", "pending"}

VARIABLES
    initialized,              \* an open has happened in this process
    active,                   \* a network connection owns the session
    durable,                  \* session_expiry_interval # 0
    settlement,               \* inbound records in state SETTLEMENT (their number)
    release,                  \* inbound records in state QOS2_RELEASE (their number)
    deliveries,               \* the vector of outbound deliveries
    delivery_index,           \* packet id -> 1-based position in the vector, 0 = absent
    next_delivery_packet_id,  \* last packet id handed out
    lane,                     \* "idle", or the sequence the lane is inside of
    cursor                    \* packet id being built, or position of the expiry scan

session == <<initialized, active, durable>>
inbound == <<settlement, release>>
outbound == <<deliveries, delivery_index, next_delivery_packet_id>>
work == <<lane, cursor>>
vars == <<session, inbound, outbound, work>>

PacketId == 1..MaxPacketId
DeliveryState == {"RESERVED", "QUEUED", "WAIT_ACK", "WAIT_PUBREC", "WAIT_PUBCOMP"}
\* "pending" is a deadline in the future, "passed" one the wall clock has reached.
Deadline == {"none", "pending", "passed"}
Delivery == [id: PacketId, qos: 1..2, state: DeliveryState, expiry: Deadline]

EmptyIndex == [p \in PacketId |-> 0]
\* The state in which a packet sent to the subscriber waits for its first acknowledgement.
FirstWait(qos) == IF qos = 1 THEN "WAIT_ACK" ELSE "WAIT_PUBREC"
Found(p) == delivery_index[p] # 0
At(p) == deliveries[delivery_index[p]]

-----------------------------------------------------------------------------
(* The vector and its index *)

delivery_append(d) ==
    /\ ~Found(d.id)
    /\ deliveries' = Append(deliveries, d)
    /\ delivery_index' = [delivery_index EXCEPT ![d.id] = Len(deliveries) + 1]

\* Mutant: the index of the element that moves is not refreshed.
remove_at_stale_index(i) ==
    LET last == deliveries[Len(deliveries)] IN
    /\ deliveries' = [k \in 1..(Len(deliveries) - 1) |-> IF k = i THEN last ELSE deliveries[k]]
    /\ delivery_index' = [delivery_index EXCEPT ![deliveries[i].id] = 0]

\* Swap-remove: the last element takes the place of the removed one.
delivery_remove_at(i) ==
    LET last == deliveries[Len(deliveries)] IN
    /\ deliveries' = [k \in 1..(Len(deliveries) - 1) |-> IF k = i THEN last ELSE deliveries[k]]
    /\ delivery_index' = [p \in PacketId |->
                            IF p = deliveries[i].id THEN 0
                            ELSE IF p = last.id THEN i
                            ELSE delivery_index[p]]

deliveries_clear ==
    /\ deliveries' = <<>>
    /\ delivery_index' = EmptyIndex

delivery_update(i, state, expiry) ==
    /\ deliveries' = [deliveries EXCEPT ![i] = [@ EXCEPT !.state = state, !.expiry = expiry]]
    /\ UNCHANGED delivery_index

-----------------------------------------------------------------------------
(* Sending: reserve a packet id, commit the encoded PUBLISH, admit it or roll back *)

\* The k-th packet id after the last one handed out; UINT16_MAX wraps to 1.
Candidate(k) ==
    IF next_delivery_packet_id + k <= MaxPacketId
    THEN next_delivery_packet_id + k
    ELSE next_delivery_packet_id + k - MaxPacketId

delivery_reserve(qos) ==
    /\ lane = "idle"
    /\ active \/ (initialized /\ durable)
    /\ settlement + release + Len(deliveries) < MaxInflight
    /\ \E k \in PacketId :
        /\ ~Found(Candidate(k))
        /\ \A j \in 1..(k - 1) : Found(Candidate(j))
        /\ delivery_append([id |-> Candidate(k), qos |-> qos, state |-> "RESERVED",
                            expiry |-> "none"])
        /\ next_delivery_packet_id' = Candidate(k)
        /\ cursor' = Candidate(k)
    /\ lane' = "reserved"
    /\ UNCHANGED <<session, inbound>>

\* commit (the subscriber is online: the packet goes to its send queue) and
\* commit_queued (it is offline: the packet waits for the next replay).
delivery_commit(queued, expiry) ==
    /\ lane = "reserved"
    /\ queued \/ active
    /\ queued => durable
    /\ Found(cursor)
    /\ At(cursor).state = "RESERVED"
    /\ delivery_update(delivery_index[cursor],
                       IF queued THEN "QUEUED" ELSE FirstWait(At(cursor).qos), expiry)
    /\ lane' = "committed"
    /\ UNCHANGED <<session, inbound, next_delivery_packet_id, cursor>>

delivery_admit ==
    /\ lane = "committed"
    /\ lane' = "idle"
    /\ cursor' = 0
    /\ UNCHANGED <<session, inbound, outbound>>

\* Mutant: the failure path forgets the reservation.
cancel_forgets ==
    /\ lane \in {"reserved", "committed"}
    /\ lane' = "idle"
    /\ cursor' = 0
    /\ UNCHANGED <<session, inbound, outbound>>

\* Encoding, commit or queue admission failed.
delivery_cancel ==
    /\ lane \in {"reserved", "committed"}
    /\ Found(cursor)
    /\ delivery_remove_at(delivery_index[cursor])
    /\ lane' = "idle"
    /\ cursor' = 0
    /\ UNCHANGED <<session, inbound, next_delivery_packet_id>>

-----------------------------------------------------------------------------
(* Acknowledgements from the subscriber *)

Completes(p, type, failed) ==
    \/ type = "PUBACK" /\ At(p).qos = 1 /\ At(p).state = "WAIT_ACK"
    \/ /\ type = "PUBREC" /\ failed
       /\ At(p).qos = 2 /\ At(p).state \in {"WAIT_PUBREC", "WAIT_PUBCOMP"}
    \/ type = "PUBCOMP" /\ At(p).qos = 2 /\ At(p).state = "WAIT_PUBCOMP"

Releases(p, type, failed) ==
    /\ type = "PUBREC" /\ ~failed
    /\ At(p).qos = 2 /\ At(p).state \in {"WAIT_PUBREC", "WAIT_PUBCOMP"}

\* failed: the reason code of the PUBREC is 0x80 or above.
delivery_ack(p, type, failed) ==
    /\ lane = "idle"
    /\ active
    /\ Found(p)
    /\ At(p).state # "RESERVED"
    /\ \/ /\ Completes(p, type, failed)
          /\ delivery_remove_at(delivery_index[p])
       \/ /\ Releases(p, type, failed)
          /\ delivery_update(delivery_index[p], "WAIT_PUBCOMP", "none")
    /\ UNCHANGED <<session, inbound, next_delivery_packet_id, work>>

-----------------------------------------------------------------------------
(* Message expiry *)

\* The wall clock reaches the deadline of the delivery at position i.
DeadlinePasses(i) ==
    /\ lane = "idle"
    /\ deliveries[i].expiry = "pending"
    /\ delivery_update(i, deliveries[i].state, "passed")
    /\ UNCHANGED <<session, inbound, next_delivery_packet_id, work>>

\* Mutant: the deadline is not compared with the clock.
expire_packet_early(p) ==
    /\ lane = "idle"
    /\ Found(p)
    /\ delivery_remove_at(delivery_index[p])
    /\ UNCHANGED <<session, inbound, next_delivery_packet_id, work>>

\* The connection found the deadline of a queued packet passed before sending it.
delivery_expire_packet(p) ==
    /\ lane = "idle"
    /\ Found(p)
    /\ At(p).expiry = "passed"
    /\ delivery_remove_at(delivery_index[p])
    /\ UNCHANGED <<session, inbound, next_delivery_packet_id, work>>

\* One turn of the pruning loop that every CONNECT runs before it replays.
delivery_expire ==
    /\ lane = "expiring"
    /\ cursor <= Len(deliveries)
    /\ \/ /\ deliveries[cursor].expiry = "passed"
          /\ delivery_remove_at(cursor)
          /\ UNCHANGED cursor
       \/ /\ deliveries[cursor].expiry # "passed"
          /\ cursor' = cursor + 1
          /\ UNCHANGED <<deliveries, delivery_index>>
    /\ UNCHANGED <<session, inbound, next_delivery_packet_id, lane>>

\* Mutant: a delivery waiting for PUBCOMP is published again.
ResumedFromStart ==
    [i \in 1..Len(deliveries) |->
        [deliveries[i] EXCEPT !.state = FirstWait(deliveries[i].qos)]]

\* The vector with every QUEUED delivery waiting for its first acknowledgement.
Resumed ==
    [i \in 1..Len(deliveries) |->
        [deliveries[i] EXCEPT !.state = IF @ = "QUEUED" THEN FirstWait(deliveries[i].qos)
                                                        ELSE @]]

\* The loop is over: every remaining delivery is handed to the connection again.
delivery_replay ==
    /\ lane = "expiring"
    /\ cursor = Len(deliveries) + 1
    /\ deliveries' = Resumed
    /\ lane' = "idle"
    /\ cursor' = 0
    /\ UNCHANGED <<session, inbound, delivery_index, next_delivery_packet_id>>

-----------------------------------------------------------------------------
(* The session around the deliveries *)

\* CONNECT: a first open, a reconnect, or (when active) a takeover.  The endpoint
\* prunes and replays the deliveries within the same handler.
open(clean_start, expiry) ==
    /\ lane = "idle"
    /\ initialized' = TRUE
    /\ active' = TRUE
    /\ durable' = expiry
    /\ \/ /\ clean_start
          /\ deliveries_clear
          /\ settlement' = 0
          /\ release' = 0
       \/ /\ ~clean_start
          /\ UNCHANGED <<inbound, deliveries, delivery_index>>
    /\ lane' = "expiring"
    /\ cursor' = 1
    /\ UNCHANGED next_delivery_packet_id

\* DISCONNECT may lower the session expiry interval to zero, never raise it from zero.
disconnect ==
    /\ lane = "idle"
    /\ active
    /\ durable' = FALSE
    /\ UNCHANGED <<initialized, active, inbound, outbound, work>>

close ==
    /\ lane = "idle"
    /\ active
    /\ active' = FALSE
    /\ settlement' = 0
    /\ \/ /\ durable
          /\ UNCHANGED <<release, deliveries, delivery_index>>
       \/ /\ ~durable
          /\ release' = 0
          /\ deliveries_clear
    /\ UNCHANGED <<initialized, durable, next_delivery_packet_id, work>>

\* The endpoint drops an inactive session: expiry zero, or its deadline passed.
session_remove ==
    /\ lane = "idle"
    /\ initialized
    /\ ~active
    /\ initialized' = FALSE
    /\ durable' = FALSE
    /\ settlement' = 0
    /\ release' = 0
    /\ deliveries_clear
    /\ next_delivery_packet_id' = 0
    /\ UNCHANGED <<active, work>>

\* The process restarts on the row of the last commit: repository_snapshot writes a
\* QUEUED delivery as waiting, repository_restore rebuilds vector and index from the
\* row and leaves the owner inactive and not initialized.
repository_restore ==
    /\ lane = "idle"
    /\ initialized
    /\ durable
    /\ release + Len(deliveries) <= MaxInflight
    /\ initialized' = FALSE
    /\ active' = FALSE
    /\ settlement' = 0
    /\ deliveries' = Resumed
    /\ delivery_index' = [p \in PacketId |->
                            IF \E i \in 1..Len(deliveries) : deliveries[i].id = p
                            THEN CHOOSE i \in 1..Len(deliveries) : deliveries[i].id = p
                            ELSE 0]
    /\ UNCHANGED <<durable, release, next_delivery_packet_id, work>>

-----------------------------------------------------------------------------
(* Inbound QoS records: only their number matters here, as they share the quota *)

publish_begin ==
    /\ lane = "idle"
    /\ active
    /\ settlement + release < MaxInflight
    /\ settlement' = settlement + 1
    /\ UNCHANGED <<session, release, outbound, work>>

publish_settle(qos) ==
    /\ lane = "idle"
    /\ active
    /\ settlement > 0
    /\ settlement' = settlement - 1
    /\ release' = IF qos = 2 THEN release + 1 ELSE release
    /\ UNCHANGED <<session, outbound, work>>

qos2_release ==
    /\ lane = "idle"
    /\ active
    /\ release > 0
    /\ release' = release - 1
    /\ UNCHANGED <<session, settlement, outbound, work>>

-----------------------------------------------------------------------------
Init ==
    /\ initialized = FALSE
    /\ active = FALSE
    /\ durable = FALSE
    /\ settlement = 0
    /\ release = 0
    /\ deliveries = <<>>
    /\ delivery_index = EmptyIndex
    /\ next_delivery_packet_id = 0
    /\ lane = "idle"
    /\ cursor = 0

Next ==
    \/ \E qos \in 1..2 : delivery_reserve(qos)
    \/ \E queued \in BOOLEAN, expiry \in Deadlines : delivery_commit(queued, expiry)
    \/ delivery_admit
    \/ delivery_cancel
    \/ \E p \in PacketId, type \in {"PUBACK", "PUBREC", "PUBCOMP"}, failed \in BOOLEAN :
          delivery_ack(p, type, failed)
    \/ \E i \in 1..Len(deliveries) : DeadlinePasses(i)
    \/ \E p \in PacketId : delivery_expire_packet(p)
    \/ delivery_expire
    \/ delivery_replay
    \/ \E clean_start, expiry \in BOOLEAN : open(clean_start, expiry)
    \/ disconnect
    \/ close
    \/ session_remove
    \/ repository_restore
    \/ publish_begin
    \/ \E qos \in 1..2 : publish_settle(qos)
    \/ qos2_release

Spec == Init /\ [][Next]_vars

-----------------------------------------------------------------------------
(* Properties *)

\* Every variable of the session owner has its type.
TypeOK ==
    /\ initialized \in BOOLEAN
    /\ active \in BOOLEAN
    /\ durable \in BOOLEAN
    /\ settlement \in Nat
    /\ release \in Nat
    /\ deliveries \in Seq(Delivery)
    /\ delivery_index \in [PacketId -> Nat]
    /\ next_delivery_packet_id \in 0..MaxPacketId
    /\ lane \in {"idle", "reserved", "committed", "expiring"}
    /\ cursor \in Nat

\* The packet-id index and the vector describe each other exactly, through every
\* append, swap-remove, clear, prune and restore: an id is found at the position whose
\* element carries it, every element is found under its id (so ids are distinct), and
\* flowie_session_delivery_lookup never reports SALTS_EPROTO.
IndexAgrees ==
    /\ \A p \in PacketId : Found(p) => /\ delivery_index[p] \in 1..Len(deliveries)
                                      /\ At(p).id = p
    /\ \A i \in 1..Len(deliveries) : delivery_index[deliveries[i].id] = i

\* What flowie_session_record_delivery_validate accepts of a row that is read back.
RowValid(d) ==
    /\ d.state = "WAIT_ACK" => d.qos = 1
    /\ d.state = "WAIT_PUBREC" => d.qos = 2
    /\ d.state = "WAIT_PUBCOMP" => d.qos = 2 /\ d.expiry = "none"

\* Every delivery is one whose row passes the validation of a restart, and a RESERVED one
\* exists only while the lane is building it: no order of acknowledgements, expiry, replay
\* and restart leaves a delivery whose state contradicts its QoS, a PUBREL that could still
\* expire, or a packet id reserved for a PUBLISH that will never be committed.
DeliveriesRestorable ==
    \A i \in 1..Len(deliveries) :
        /\ RowValid(deliveries[i])
        /\ deliveries[i].state = "RESERVED" <=> lane = "reserved" /\ deliveries[i].id = cursor

Rank(state) ==
    CASE state = "RESERVED" -> 0
      [] state = "QUEUED" -> 1
      [] state \in {"WAIT_ACK", "WAIT_PUBREC"} -> 2
      [] state = "WAIT_PUBCOMP" -> 3

Forward ==
    \A p \in PacketId : Found(p) /\ Found(p)' => /\ At(p)'.qos = At(p).qos
                                               /\ Rank(At(p)'.state) >= Rank(At(p).state)

\* As long as a packet id is in use it names one and the same delivery, and that delivery
\* only moves forward (reserved, queued, waiting, released): removing, moving or expiring
\* a neighbour in the vector never swaps two deliveries behind their ids, an id is never
\* reissued while its delivery is open, and no step returns a released delivery to PUBLISH.
NeverRegresses == [][Forward]_vars

\* Replay starts only when pruning has left no delivery whose deadline has passed, so
\* flowie_session_owner_delivery_pending_at_ex never fails a CONNECT with SALTS_EBUSY:
\* the loop that re-examines a position after a swap-remove skips nothing.
PruneComplete ==
    lane = "expiring" => \A i \in 1..Len(deliveries) :
                            i < cursor => deliveries[i].expiry # "passed"

\* The table of deliveries that the vector and its index stand for.
DeliveryTable == [p \in PacketId |-> IF Found(p) THEN [qos |-> At(p).qos, state |-> At(p).state]
                                               ELSE [qos |-> 0, state |-> "FREE"]]

Abstract == INSTANCE FlowieOutbound WITH Ids <- PacketId, online <- active, table <- DeliveryTable

\* The owner implements the table of FlowieOutbound: every operation on vector, index and
\* quota is one step of the table or none, so the subscriber's acknowledgement (or the end
\* of the session) is the only thing that frees a delivery whose PUBREL may be under way.
ImplementsOutbound == Abstract!OutboundSpec

=============================================================================
