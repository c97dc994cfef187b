--------------------------- MODULE FlowieOutbound ---------------------------
(***************************************************************************)
(* What the session owner promises about its outbound QoS deliveries,      *)
(* without the vector, the index, the packet-id allocator, the quota and   *)
(* the clock of the implementation: a table from packet ids to deliveries. *)
(* Each packet id carries at most one delivery; a delivery moves only      *)
(* forward; only the subscriber's acknowledgement or the end of the        *)
(* session frees a delivery that the subscriber has begun to release.      *)
(***************************************************************************)
EXTENDS Integers

CONSTANT Ids  \* packet ids

VARIABLES
    online,   \* the session has an owner connection
    table     \* packet id -> its delivery, or Free

view == <<online, table>>

Free == [qos |-> 0, state |-> "FREE"]
Carried(qos, state) == [qos |-> qos, state |-> state]
AwaitsFirst(qos) == IF qos = 1 THEN "WAIT_ACK" ELSE "WAIT_PUBREC"
Cleared == [p \in Ids |-> Free]
\* Every delivery that was waiting for a connection has been handed to one.
Handed == [p \in Ids |-> IF table[p].state = "QUEUED"
                         THEN Carried(table[p].qos, AwaitsFirst(table[p].qos))
                         ELSE table[p]]

Begin(p, qos) ==
    /\ table[p] = Free
    /\ table' = [table EXCEPT ![p] = Carried(qos, "RESERVED")]
    /\ UNCHANGED online

Commit(p) ==
    /\ table[p].state = "RESERVED"
    /\ \/ table' = [table EXCEPT ![p] = Carried(@.qos, "QUEUED")]
       \/ /\ online
          /\ table' = [table EXCEPT ![p] = Carried(@.qos, AwaitsFirst(@.qos))]
    /\ UNCHANGED online

\* Cancellation, or message expiry: never once the subscriber has answered PUBREC.
Drop(p) ==
    /\ table[p].state \in {"RESERVED", "QUEUED", "WAIT_ACK", "WAIT_PUBREC"}
    /\ table' = [table EXCEPT ![p] = Free]
    /\ UNCHANGED online

\* PUBACK, PUBCOMP, or a PUBREC that refuses the message.
Complete(p) ==
    /\ online
    /\ table[p].state \in {"WAIT_ACK", "WAIT_PUBREC", "WAIT_PUBCOMP"}
    /\ table' = [table EXCEPT ![p] = Free]
    /\ UNCHANGED online

\* PUBREC.
Release(p) ==
    /\ online
    /\ table[p].state = "WAIT_PUBREC"
    /\ table' = [table EXCEPT ![p] = Carried(2, "WAIT_PUBCOMP")]
    /\ UNCHANGED online

Open == online' = TRUE /\ table' \in {table, Cleared}
Replay == online /\ table' = Handed /\ UNCHANGED online
Leave == online' = FALSE /\ table' \in {table, Cleared, Handed}

OutboundInit == online = FALSE /\ table = Cleared

OutboundNext ==
    \/ \E p \in Ids : \/ \E qos \in 1..2 : Begin(p, qos)
                      \/ Commit(p) \/ Drop(p) \/ Complete(p) \/ Release(p)
    \/ Open \/ Replay \/ Leave

OutboundSpec == OutboundInit /\ [][OutboundNext]_view

=============================================================================
