------------------------ MODULE FlowieClusterPublish ------------------------
(* How a publish becomes durable on a majority before its descriptor is
   proposed: the router of the leading node cuts the event into chunks for
   every follower, counts durable acknowledgements, and proposes; the ingress
   of a follower puts the chunks together, commits the event and answers.
   Chunks and answers are lost, repeated and reordered, queues are full,
   commits fail, followers restart and leadership comes and goes.  The chunk
   stream, the quorum count and Raft itself are external.                  *)
EXTENDS Integers, Sequences, FiniteSets

CONSTANTS
  Followers,       \* the other voters, as a sequence
  Streams,         \* stream ids
  Chunks,          \* Chunks[s]: chunks of the event of stream s
  Inflight,        \* max_inflight_chunks of a sender
  MaxOutbound, MaxInbound,   \* max_outbound_streams, max_inbound_streams
  PublishFaults    \* full queues, failed commits, restarts and elections

ASSUME PublishAssumption ==
  /\ Followers \in Seq({Followers[i] : i \in DOMAIN Followers})
  /\ IsFiniteSet(Streams)
  /\ {MaxOutbound, MaxInbound, PublishFaults} \subseteq Nat

VARIABLES
  outbound,    \* streams of the router that are not proposed yet
  ingress,     \* ingress[f][s]: what follower f has of stream s
  stored,      \* stored[f]: streams whose event f has committed
  sent,        \* chunks and acknowledgements under way, for ever
  leads,       \* is the node the leader
  proposals,   \* descriptors proposed, in order
  submitted,   \* what the caller of each stream was told
  pubFaults

publishVars == <<outbound, ingress, stored, sent, leads, proposals, submitted, pubFaults>>

FollowerSet == {Followers[i] : i \in DOMAIN Followers}
NoStream == [open |-> FALSE, used |-> 0, pending |-> FALSE, committed |-> FALSE, next |-> 0]

PublishInit ==
  /\ outbound = <<>>
  /\ ingress = [f \in FollowerSet |-> [s \in Streams |-> NoStream]]
  /\ stored = [f \in FollowerSet |-> {}]
  /\ sent = {} /\ leads = TRUE /\ proposals = <<>>
  /\ submitted = [s \in Streams |-> "none"]
  /\ pubFaults = PublishFaults

----------------------------------------------------------------------------
(* Egress.                                                                 *)

\* How much the transport takes in one call: everything, or with a fault less.
Rooms == {9} \cup (IF pubFaults > 0 THEN {0, 1} ELSE {})
Spend(room) == pubFaults' = IF room = 9 THEN pubFaults ELSE pubFaults - 1

Chunk(s, f, i) == [kind |-> "chunk", stream |-> s, node |-> f, offset |-> i, durable |-> FALSE]
Ack(s, f, i, d) == [kind |-> "ack", stream |-> s, node |-> f, offset |-> i, durable |-> d]

\* egress_create: one sender for every other voter.
egress_create(s) ==
  [stream |-> s, next |-> [f \in FollowerSet |-> 0], acked |-> [f \in FollowerSet |-> 0],
   quorum |-> FALSE, durable |-> {}]

Smaller(a, b) == IF a < b THEN a ELSE b
Larger(a, b) == IF a < b THEN b ELSE a

\* egress_pump_leg on st = [next, quorum, room, rc]: the chunks of e the window
\* allows, until the transport takes no more; the first one makes the quorum.
egress_pump_leg(e, st, f) ==
  LET open == Smaller(Inflight - (st.next[f] - e.acked[f]), Chunks[e.stream] - st.next[f])
      taken == Smaller(open, st.room)
  IN IF st.rc # "OK" THEN st
     ELSE [next |-> [st.next EXCEPT ![f] = @ + taken], quorum |-> st.quorum \/ open > 0,
           room |-> st.room - taken, rc |-> IF taken < open THEN "ENOSPC" ELSE "OK"]

Unpumped(e, room) == [next |-> e.next, quorum |-> e.quorum, room |-> room, rc |-> "OK"]

\* The sender after its legs were pumped as far as st, and the chunks they sent.
Pumped(e, st) ==
  [e |-> [stream |-> e.stream, next |-> st.next, acked |-> e.acked, quorum |-> st.quorum,
          durable |-> e.durable],
   out |-> {Chunk(e.stream, m[1], m[2]) :
              m \in UNION {{f} \X (e.next[f] .. st.next[f] - 1) : f \in FollowerSet}},
   rc |-> st.rc]

\* egress_pump: one leg after the other.
egress_pump(e, room) ==
  LET legs[k \in 0 .. Len(Followers)] ==
        IF k = 0 THEN Unpumped(e, room) ELSE egress_pump_leg(e, legs[k - 1], Followers[k])
  IN Pumped(e, legs[Len(Followers)])

\* quorum_make_proposal: the local node and the acknowledging ones are more
\* than half of the configuration.
make_proposal(e) ==
  /\ e.quorum
  /\ 2 * (1 + Cardinality(e.durable)) > 1 + Cardinality(FollowerSet)

Without(i) == [k \in 1 .. Len(outbound) - 1 |->
                 IF k = i THEN outbound[Len(outbound)] ELSE outbound[k]]

\* router_try_propose: a stream that is proposed leaves the router.
router_try_propose(i, e) ==
  IF make_proposal(e) /\ leads
  THEN /\ proposals' = Append(proposals, e.stream)
       /\ outbound' = Without(i)
  ELSE /\ outbound' = [outbound EXCEPT ![i] = e]
       /\ UNCHANGED proposals

\* egress_acknowledge: the sender moves on; a durable answer counts.
egress_acknowledge_AnyAnswer(e, m) ==
  [e EXCEPT !.acked[m.node] = Larger(@, m.offset), !.durable = @ \cup {m.node}]

egress_acknowledge(e, m) ==
  [e EXCEPT !.acked[m.node] = Larger(@, m.offset),
            !.durable = IF m.durable THEN @ \cup {m.node} ELSE @]

----------------------------------------------------------------------------
(* Router.                                                                 *)

\* raft_generation_submit_publish_durable and router_submit_durable: the stream
\* stays in the router although a full transport is reported to the caller.
SubmitDurable(s) ==
  /\ submitted[s] \in {"none", "busy", "refused"}
  /\ IF ~leads
     THEN /\ submitted' = [submitted EXCEPT ![s] = "busy"]
          /\ UNCHANGED <<outbound, sent, pubFaults>>
     ELSE IF Len(outbound) >= MaxOutbound
     THEN /\ submitted' = [submitted EXCEPT ![s] = "refused"]
          /\ UNCHANGED <<outbound, sent, pubFaults>>
     ELSE \E room \in Rooms :
            LET st == egress_pump(egress_create(s), room)
            IN /\ outbound' = Append(outbound, st.e)
               /\ sent' = sent \cup st.out
               /\ submitted' = [submitted EXCEPT ![s] = IF st.rc = "OK" THEN "accepted" ELSE "full"]
               /\ Spend(room)
  /\ UNCHANGED <<ingress, stored, leads, proposals>>

\* router_handle of an acknowledgement: the sender, the quorum, the next chunks
\* for that follower, and the proposal when that went well.
router_handle(i, m, room) ==
  LET e == egress_acknowledge(outbound[i], m)
      st == Pumped(e, egress_pump_leg(e, Unpumped(e, room), m.node))
  IN /\ outbound[i].stream = m.stream /\ m.offset <= outbound[i].next[m.node]
     /\ IF st.rc = "OK" THEN router_try_propose(i, st.e)
        ELSE outbound' = [outbound EXCEPT ![i] = st.e] /\ UNCHANGED proposals
     /\ sent' = sent \cup st.out

HandleAck ==
  \E m \in sent, i \in DOMAIN outbound, room \in Rooms :
    /\ m.kind = "ack"
    /\ router_handle(i, m, room)
    /\ Spend(room)
    /\ UNCHANGED <<ingress, stored, leads, submitted>>

\* router_retry, entry by entry; the first failure ends it, so an entry is
\* reached only when those before it can be pumped and none waits for a leader.
Retry ==
  \E i \in DOMAIN outbound, room \in Rooms :
    LET st == egress_pump(outbound[i], room)
    IN /\ \A j \in 1 .. i - 1 : ~make_proposal(outbound[j])
       /\ IF st.rc = "OK" THEN router_try_propose(i, st.e)
          ELSE outbound' = [outbound EXCEPT ![i] = st.e] /\ UNCHANGED proposals
       /\ sent' = sent \cup st.out
       /\ Spend(room)
       /\ UNCHANGED <<ingress, stored, leads, submitted>>

----------------------------------------------------------------------------
(* Ingress.                                                                *)

ingress_active(f) == {s \in Streams : ingress[f][s].open}

\* ingress_send_ack on st = [e, room, out]: an answer that is not taken stays
\* pending; a committed stream leaves when its answer is taken.
send_ack(st, f, s) ==
  IF st.room = 0 THEN [st EXCEPT !.e.pending = TRUE]
  ELSE [e |-> IF st.e.committed THEN NoStream ELSE [st.e EXCEPT !.pending = FALSE],
        room |-> st.room - 1,
        out |-> st.out \cup {Ack(s, f, st.e.next, st.e.committed)}]

\* stream_receiver_handle: the next chunk is written, the last one commits the
\* event, unless that fails and the stream starts again; an older chunk is
\* answered again.
receiver_handle(e, s, offset, commitOk) ==
  LET used == Larger(e.used, offset + 1)
      last == used = Chunks[s]
  IN IF last /\ ~commitOk THEN [e EXCEPT !.used = 0]
     ELSE [e EXCEPT !.used = used, !.next = used, !.committed = last]

\* ingress_handle: a pending answer goes first, and is all there is to do for a
\* chunk it covers; a new stream starts with its first chunk, if there is room.
ingress_handle(m, room, commitOk) ==
  LET f == m.node
      s == m.stream
      first == [e |-> ingress[f][s], room |-> room, out |-> {}]
      answered == IF first.e.pending THEN send_ack(first, f, s) ELSE first
      done == first.e.pending /\ (room = 0 \/ first.e.committed \/ m.offset < first.e.next)
      e == [answered.e EXCEPT !.open = TRUE]
      handled == receiver_handle(e, s, m.offset, commitOk)
      failed == handled.used = 0
      st == IF done THEN answered
            ELSE IF failed THEN [answered EXCEPT !.e = handled]
            ELSE send_ack([answered EXCEPT !.e = handled], f, s)
  IN /\ done \/ (m.offset <= e.used
                 /\ (first.e.open \/ (m.offset = 0 /\ Cardinality(ingress_active(f)) < MaxInbound)))
     /\ commitOk \/ (~done /\ failed /\ room = 9)
     /\ ingress' = [ingress EXCEPT ![f][s] = st.e]
     /\ sent' = sent \cup st.out
     /\ stored' = [stored EXCEPT ![f] = IF ~done /\ handled.committed THEN @ \cup {s} ELSE @]
     /\ pubFaults' = IF room = 9 /\ commitOk THEN pubFaults ELSE pubFaults - 1

HandleChunk ==
  \E m \in sent, room \in Rooms, commitOk \in {TRUE} \cup {pubFaults = 0} :
    /\ m.kind = "chunk"
    /\ ingress_handle(m, room, commitOk)
    /\ UNCHANGED <<outbound, leads, proposals, submitted>>

\* A follower restarts: what it was putting together is gone, what it committed
\* is not.
FollowerRestart(f) ==
  /\ pubFaults > 0 /\ ingress_active(f) # {}
  /\ ingress' = [ingress EXCEPT ![f] = [s \in Streams |-> NoStream]]
  /\ pubFaults' = pubFaults - 1
  /\ UNCHANGED <<outbound, stored, sent, leads, proposals, submitted>>

Election ==
  /\ leads => pubFaults > 0
  /\ leads' = ~leads
  /\ pubFaults' = IF leads THEN pubFaults - 1 ELSE pubFaults
  /\ UNCHANGED <<outbound, ingress, stored, sent, proposals, submitted>>

PublishNext ==
  \/ \E s \in Streams : SubmitDurable(s)
  \/ HandleAck \/ Retry \/ HandleChunk \/ Election
  \/ \E f \in FollowerSet : FollowerRestart(f)

PublishSpec == PublishInit /\ [][PublishNext]_publishVars

----------------------------------------------------------------------------
(* A descriptor is proposed only when the event is stored on a majority of the
   voters, and once, however chunks and answers are lost, repeated or late;
   every stream the router took is proposed or still in it; and neither the
   router nor an ingress holds more streams than it may.                   *)
PublishDurable ==
  /\ \A i \in DOMAIN proposals :
       LET s == proposals[i]
           copies == {f \in FollowerSet : s \in stored[f]}
       IN /\ 2 * (1 + Cardinality(copies)) > 1 + Cardinality(FollowerSet)
          /\ \A j \in DOMAIN proposals : proposals[j] = s => i = j
  /\ \A s \in Streams :
       submitted[s] \in {"accepted", "full"} <=>
         ((\E i \in DOMAIN proposals : proposals[i] = s) \/ (\E i \in DOMAIN outbound : outbound[i].stream = s))
  /\ Len(outbound) <= MaxOutbound
  /\ \A f \in FollowerSet : Cardinality(ingress_active(f)) <= MaxInbound
=============================================================================
