----------------------------- MODULE FlowieEdge -----------------------------
(* One MQTT 5 connection as flowie_endpoint_session_prepare sees it: who the
   client is (enhanced authentication, re-authentication and the expiry of the
   principal), its Topic Aliases and, when the endpoint is clustered, the
   requests it hands to the session owner behind the cluster binding.

   Everything runs on one lane of the executor, so a step is atomic up to the
   next await.  The network's owner thread calls receive and close and waits
   for each (tf_execution_call_common): neither overlaps the other, but while
   receive waits for an answer the binding, the expiry task and the reply
   drain get their turns.  The provider of enhanced authentication and the
   binding are external; both follow the contract of flowie.h.              *)
EXTENDS Naturals, Sequences, FiniteSets

CONSTANTS
  EdgeTopics, EdgeFilters,  \* what is published and subscribed to
  Forbidden,                \* the topics and filters the access rules deny
  TopicAliasMaximum, MaxPackets, MaxTime

ASSUME EdgeAssumption ==
  /\ TopicAliasMaximum \in Nat /\ MaxPackets \in Nat \ {0} /\ MaxTime \in Nat
  /\ "" \notin EdgeTopics \cup EdgeFilters

VARIABLES
  clustered, \* endpoint->cluster_enabled
  conn,      \* flowie_endpoint_connection_t
  co,        \* where the receive coroutine is
  provider,  \* exchanges the provider of enhanced authentication holds open
  binding,   \* what the session owner was asked, answered and told
  told,      \* what the client was answered and what its packets meant
  clock      \* the time, and how many packets were received
edgeVars == <<clustered, conn, co, provider, binding, told, clock>>

Aliases == 1 .. TopicAliasMaximum
Never == MaxTime + 1
Nobody == [who |-> "none", until |-> Never]
EdgePrincipals == [who : {"client", "other"}, until : 1 .. Never]
NoDeadline == [at |-> 0, set_for |-> 0]

Connection0 ==
  [open |-> TRUE, version |-> FALSE, closing |-> FALSE, failed |-> FALSE, terminal |-> "no", blocked |-> FALSE,
   connack |-> "no", session |-> FALSE, principal |-> Nobody, deadline |-> NoDeadline,
   expiry_pending |-> FALSE, exchange |-> 0, reauth |-> FALSE, aliases |-> [a \in Aliases |-> ""],
   command |-> "NONE", pending |-> FALSE, status |-> "OK", connected |-> FALSE, graceful |-> FALSE,
   detached |-> FALSE, taken |-> FALSE, reasons |-> <<>>, admit |-> FALSE]
Resting == [pc |-> "idle", publish |-> "none", woken |-> "no"]

NoRequest == [command |-> "none"]

EdgeInit ==
  /\ clustered \in BOOLEAN
  /\ conn = Connection0 /\ co = Resting
  /\ provider = {}
  /\ binding = [request |-> NoRequest, bound |-> FALSE, unheard |-> FALSE, calls |-> <<>>]
  /\ told = [asked |-> <<>>, suback |-> <<>>, meaning |-> [a \in Aliases |-> ""], meant |-> ""]
  /\ clock = [time |-> 0, packets |-> 0]

-----------------------------------------------------------------------------
(* Answers to the client.  A terminal one closes the connection when it is sent;
   until then it is in the queue of the endpoint ("queued") or, behind a
   delivery the client's Receive Maximum holds back, of the connection.     *)

Fails(c) == [c EXCEPT !.failed = TRUE]
Farewell(c) == [c EXCEPT !.terminal = "queued"]

\* flowie_connection_close wakes the coroutine that waits for the binding.
edge_close(c) == [c EXCEPT !.closing = TRUE, !.terminal = "no", !.blocked = FALSE]
Woken(status) == IF co.pc = "wait" /\ co.woken = "no" THEN [co EXCEPT !.woken = status] ELSE co

\* flowie_connection_enhanced_auth_clear
enhanced_auth_clear(c) == [c EXCEPT !.exchange = 0, !.reauth = FALSE]
Cancelled(c) == provider \ {c.exchange}

-----------------------------------------------------------------------------
(* Requests to the session owner: one at a time, awaited by the coroutine *)

\* The binding refuses the request, or keeps it and answers later.
Submit(c, command, request) ==
  \/ /\ binding' = [binding EXCEPT !.request = request]
     /\ conn' = [c EXCEPT !.pending = TRUE, !.command = command, !.status = "EBUSY"]
     /\ co' = [pc |-> "wait", publish |-> IF command = "PUBLISH" THEN request.qos ELSE "none", woken |-> "no"]
  \/ /\ conn' = Fails([c EXCEPT !.status = "refused", !.reasons = <<>>])
     /\ co' = Resting
     /\ UNCHANGED binding

cluster_submit_connect(c) == Submit(c, "CONNECT", [command |-> "CONNECT"])

-----------------------------------------------------------------------------
(* CONNECT and AUTH *)

\* The mutant forgets for which principal the deadline was set.
principal_deadline_apply_SameFor(c) == [c EXCEPT !.deadline.at = c.principal.until]

\* flowie_principal_deadline_compute and _apply: none for a principal without expiry.
principal_deadline_apply(c) ==
  [c EXCEPT !.deadline = IF c.principal.until = Never THEN NoDeadline
                         ELSE [at |-> c.principal.until, set_for |-> c.principal.until]]

Kept(c) == conn' = c /\ UNCHANGED <<co, binding>>
Refused(c) == Kept(Farewell(c)) \/ Kept(Fails(c))

\* The client is who it says.  Its Client ID, its Will or the session's owner
\* may still be refused; then a clustered endpoint asks the session owner, any
\* other binds its own session and queues the CONNACK.
connect_authorized(c, principal) ==
  \/ Refused(c)
  \/ clustered /\ cluster_submit_connect([c EXCEPT !.principal = principal])
  \/ /\ ~ clustered
     /\ Kept(principal_deadline_apply([c EXCEPT !.principal = principal, !.session = TRUE,
                                                !.expiry_pending = FALSE, !.connack = "queued"]))

\* The provider begins an exchange, which it may end at once.
Begins(c, Rejected(_), Continued(_), Completed(_, _)) ==
  LET id == clock.packets + 1 IN
  \/ Rejected(c) /\ UNCHANGED provider
  \/ Continued([c EXCEPT !.exchange = id]) /\ provider' = provider \cup {id}
  \/ \E p \in EdgePrincipals : Completed(c, p) /\ UNCHANGED provider

connect_packet(c, packet) ==
  LET v == [c EXCEPT !.version = TRUE] IN
  IF packet.method THEN Begins(v, Refused, Kept, connect_authorized)
  ELSE /\ Refused(v) \/ \E p \in EdgePrincipals : p.who = "client" /\ connect_authorized(v, p)
       /\ UNCHANGED provider

\* flowie_reauth_commit_principal: only the session's own principal may be renewed.
Renewed(c, principal) ==
  principal_deadline_apply([enhanced_auth_clear(c) EXCEPT !.principal = principal])
reauth_commit_principal(c, principal) ==
  principal.who = c.principal.who /\ Kept(Renewed(c, principal))

\* AUTH while an exchange is open: of another method, rejected, continued, or
\* the end of the exchange.
auth_continue(c, packet) ==
  \/ /\ packet.reason # "continue"
     /\ Kept(Fails(c)) /\ UNCHANGED provider
  \/ /\ packet.reason = "continue"
     /\ \/ Kept(Farewell(enhanced_auth_clear(c))) /\ provider' = Cancelled(c)
        \/ Kept(c) /\ UNCHANGED provider
        \/ \E p \in EdgePrincipals :
             /\ provider' = Cancelled(c)
             /\ IF c.reauth THEN reauth_commit_principal(c, p)
                ELSE connect_authorized(enhanced_auth_clear(c), p)

\* AUTH of a connected client: a re-authentication, unless it is clustered.
ReauthContinued(c) == Kept([c EXCEPT !.reauth = TRUE])
auth_begin(c, packet) ==
  IF clustered \/ packet.reason # "reauth" THEN Kept(Farewell(c)) /\ UNCHANGED provider
  ELSE Begins(c, Refused, ReauthContinued, reauth_commit_principal)

-----------------------------------------------------------------------------
(* PUBLISH and SUBSCRIBE *)

\* flowie_publish_topic_alias: a topic with an alias (re)defines it.
publish_topic_alias(c, packet) ==
  IF packet.alias \in Aliases /\ packet.topic # ""
  THEN [c EXCEPT !.aliases[packet.alias] = packet.topic] ELSE c

AliasInvalid(c, packet) ==
  /\ packet.alias # 0
  /\ packet.alias \notin Aliases \/ (packet.topic = "" /\ c.aliases[packet.alias] = "")
Resolved(c, packet) == IF packet.topic # "" THEN packet.topic ELSE c.aliases[packet.alias]

prepare_cluster_publish(c, packet) ==
  LET d == publish_topic_alias(c, packet)
      topic == Resolved(d, packet)
  IN  /\ UNCHANGED provider
      /\ IF AliasInvalid(c, packet) THEN Kept(Farewell(c))
         ELSE IF topic \in Forbidden
         THEN Kept(IF packet.qos = "0" THEN Fails(d) ELSE d)
         ELSE Submit([d EXCEPT !.admit = FALSE], "PUBLISH",
                     [command |-> "PUBLISH", topic |-> topic, qos |-> packet.qos])

\* Positions of a SUBSCRIBE the owner decides on, in the order of the packet.
Owned(filters) == SelectSeq([i \in DOMAIN filters |-> i], LAMBDA i : filters[i] \notin Forbidden)
LocalReasons(filters) == [i \in DOMAIN filters |-> IF filters[i] \in Forbidden THEN "denied" ELSE "owner"]

prepare_cluster_subscribe(c, packet) ==
  LET owned == Owned(packet.filters)
      asked == [i \in DOMAIN owned |-> packet.filters[owned[i]]]
      reasons == IF Len(owned) = Len(packet.filters) THEN <<>> ELSE LocalReasons(packet.filters)
  IN  /\ UNCHANGED provider
      /\ IF c.reasons # <<>> THEN Kept(Fails(c))
         ELSE IF owned = <<>> THEN Kept(c)
         ELSE Submit([c EXCEPT !.reasons = reasons], "SUBSCRIBE", [command |-> "SUBSCRIBE", filters |-> asked])

-----------------------------------------------------------------------------
(* flowie_endpoint_session_prepare *)

\* flowie_endpoint_principal_expiry_gate: only AUTH and DISCONNECT pass once the
\* principal has expired, and nothing once the DISCONNECT of the broker is queued.
ExpiredPrincipal(c) == c.principal.until <= clock.time
Gated(c, packet) ==
  c.expiry_pending \/ (ExpiredPrincipal(c) /\ packet.type \notin {"AUTH", "DISCONNECT"})

connected_packet(c, packet) ==
  \/ /\ Gated(c, packet)
     /\ Kept(IF c.expiry_pending THEN c ELSE Farewell(c)) /\ UNCHANGED provider
  \/ /\ ~ Gated(c, packet)
     /\ \/ packet.type = "AUTH" /\ auth_begin(c, packet)
        \/ packet.type = "DISCONNECT" /\ ~ clustered /\ Kept(edge_close(c)) /\ UNCHANGED provider
        \/ packet.type = "PUBLISH" /\ ~ clustered /\ UNCHANGED provider
           /\ Kept(IF AliasInvalid(c, packet) THEN Farewell(c) ELSE publish_topic_alias(c, packet))
        \/ packet.type = "ACK" /\ ~ clustered /\ Kept([c EXCEPT !.blocked = FALSE]) /\ UNCHANGED provider
        \/ packet.type = "PUBLISH" /\ clustered /\ prepare_cluster_publish(c, packet)
        \/ packet.type = "SUBSCRIBE" /\ clustered /\ prepare_cluster_subscribe(c, packet)
        \/ packet.type \in {"ACK", "DISCONNECT"} /\ clustered /\ UNCHANGED provider
           /\ Submit(c, packet.type, [command |-> packet.type])

session_prepare(packet) ==
  \/ ~ conn.version /\ packet.type = "CONNECT" /\ connect_packet(conn, packet)
  \/ conn.version /\ conn.exchange # 0 /\ packet.type = "AUTH" /\ auth_continue(conn, packet)
  \/ conn.version /\ (conn.session \/ conn.connected) /\ (conn.exchange = 0 \/ packet.type # "AUTH")
     /\ packet.type # "CONNECT" /\ connected_packet(conn, packet)
  \/ /\ \/ conn.version = (packet.type = "CONNECT")
        \/ /\ conn.version /\ ~ (conn.session \/ conn.connected)
           /\ packet.type # "CONNECT" /\ (packet.type # "AUTH" \/ conn.exchange = 0)
     /\ Kept(Fails(conn)) /\ UNCHANGED provider

EdgePackets ==
  [type : {"CONNECT"}, method : BOOLEAN]
  \cup [type : {"AUTH"}, reason : {"continue", "reauth"}]
  \cup [type : {"DISCONNECT", "ACK"}]
  \cup [type : {"PUBLISH"}, topic : EdgeTopics \cup {""}, alias : 0 .. TopicAliasMaximum + 1, qos : {"0", "1"}]
  \cup [type : {"SUBSCRIBE"}, filters : UNION {[1 .. n -> EdgeFilters] : n \in {1, 2}}]

\* What the client meant: a ghost of its own table of aliases.
Means(packet) ==
  IF packet.type = "PUBLISH" /\ packet.alias \in Aliases /\ packet.topic # ""
  THEN [told.meaning EXCEPT ![packet.alias] = packet.topic] ELSE told.meaning

\* flowie_net_receive_apply, up to the first wait.
Receive(packet) ==
  /\ conn.open /\ co.pc = "idle" /\ ~ conn.closing /\ ~ conn.failed
  /\ clock.packets < MaxPackets
  /\ packet.type = "PUBLISH" => packet.topic # "" \/ packet.alias # 0
  /\ clock' = [clock EXCEPT !.packets = @ + 1]
  /\ session_prepare(packet)
  /\ told' = [told EXCEPT !.meaning = Means(packet),
                          !.asked = IF packet.type = "SUBSCRIBE" THEN packet.filters ELSE @,
                          !.suback = IF packet.type # "SUBSCRIBE" THEN @
                                     ELSE IF Owned(packet.filters) = <<>> THEN LocalReasons(packet.filters)
                                     ELSE <<>>,
                          !.meant = IF packet.type # "PUBLISH" THEN ""
                                    ELSE IF packet.topic # "" THEN packet.topic
                                    ELSE IF packet.alias \in Aliases THEN Means(packet)[packet.alias] ELSE ""]
  /\ UNCHANGED clustered

-----------------------------------------------------------------------------
(* The answers of the session owner *)

\* flowie_connection_cluster_suback_apply: the owner's reasons, in order, where
\* the endpoint left the decision to it.
suback_apply(local, owners) ==
  [i \in DOMAIN local |->
     IF local[i] # "owner" THEN local[i]
     ELSE owners[Cardinality({j \in 1 .. i : local[j] = "owner"})]]

\* What an answer with status OK does to the connection.  Unless it is silent
\* (it has no packet), a closing connection turns it into an error.
Applied(c, accepted, admit, silent) ==
  CASE c.closing /\ ~ silent -> [c EXCEPT !.status = "ENOTCONN"]
    [] c.command = "CONNECT" ->
         IF accepted THEN [c EXCEPT !.status = "OK", !.connected = TRUE]
         ELSE [edge_close(c) EXCEPT !.status = "OK"]
    [] c.command = "PUBLISH" -> [c EXCEPT !.status = "OK", !.admit = admit]
    [] c.command = "DISCONNECT" -> [edge_close(c) EXCEPT !.status = "OK", !.graceful = TRUE]
    [] OTHER -> [c EXCEPT !.status = "OK"]

\* flowie_connection_cluster_complete, called by the binding once per request
\* and never after detach.
cluster_complete(ok, accepted, admit, silent) ==
  /\ binding.request # NoRequest /\ ~ conn.detached
  /\ accepted => conn.command = "CONNECT" /\ ok
  /\ admit => conn.command = "PUBLISH" /\ ok
  /\ silent => ok /\ conn.command \notin {"CONNECT", "SUBSCRIBE"}
  /\ ok /\ conn.command = "DISCONNECT" => silent
  /\ LET d == IF ok THEN Applied(conn, accepted, admit, silent) ELSE [conn EXCEPT !.status = "error"] IN
     /\ conn' = [d EXCEPT !.pending = FALSE, !.reasons = IF conn.command = "SUBSCRIBE" THEN <<>> ELSE @]
     /\ binding' = [binding EXCEPT !.request = NoRequest,
                                   !.bound = (@ \/ accepted) /\ ~ (ok /\ conn.command = "DISCONNECT"),
                                   !.unheard = @ \/ (accepted /\ ~ d.connected)]
     /\ told' = IF ok /\ conn.command = "SUBSCRIBE" /\ ~ conn.closing
                THEN [told EXCEPT !.suback = IF conn.reasons = <<>> THEN binding.request.filters
                                             ELSE suback_apply(conn.reasons, binding.request.filters)]
                ELSE told
  /\ co' = Woken("EINTR")
  /\ UNCHANGED <<clustered, provider, clock>>

\* The owner fences this socket: a newer connection has taken the session over.
cluster_takeover_close ==
  /\ binding.bound /\ ~ conn.detached /\ ~ conn.closing /\ conn.open
  /\ binding' = [binding EXCEPT !.bound = FALSE]
  /\ IF co.publish # "none"
     THEN conn' = [conn EXCEPT !.taken = TRUE, !.terminal = "admitted"] /\ UNCHANGED co
     ELSE conn' = edge_close([conn EXCEPT !.taken = TRUE]) /\ co' = Woken("ENOTCONN")
  /\ UNCHANGED <<clustered, provider, told, clock>>

\* flowie_connection_cluster_detach
cluster_detach(c) == [c EXCEPT !.detached = TRUE, !.reasons = <<>>, !.pending = FALSE]
Told(call) == IF conn.detached THEN binding.calls ELSE Append(binding.calls, call)

\* The end of a wait without an answer: the binding is told to forget the connection.
cluster_wait_GivesUp ==
  /\ conn' = Fails(cluster_detach(conn))
  /\ binding' = [binding EXCEPT !.request = NoRequest, !.calls = Told("detach"), !.unheard = TRUE]
  /\ co' = Resting

\* What the coroutine does with the answer: a PUBLISH that was admitted goes to
\* the graph, whose result is reported for QoS 1; then the replies are sent.
Answered ==
  \/ /\ conn.status = "OK" /\ co.publish = "1" /\ conn.admit
     /\ Submit(conn, "SETTLE", [command |-> "SETTLE"])
  \/ /\ co' = Resting /\ UNCHANGED binding
     /\ LET d == IF conn.status = "OK" THEN conn ELSE Fails(conn) IN
        conn' = IF d.terminal = "admitted" THEN edge_close(d) ELSE d

\* flowie_connection_cluster_wait returns to its caller.
cluster_wait ==
  /\ co.pc = "wait" /\ co.woken # "no"
  /\ IF conn.pending /\ co.woken # "EINTR" THEN cluster_wait_GivesUp ELSE Answered
  /\ UNCHANGED <<clustered, provider, told, clock>>

request_timeout ==
  /\ co.pc = "wait" /\ co.woken = "no"
  /\ co' = Woken("ETIMEDOUT")
  /\ UNCHANGED <<clustered, conn, provider, binding, told, clock>>

-----------------------------------------------------------------------------
(* The other tasks of the lane, and the network *)

\* flowie_reply_drain_task; a PUBLISH that waits for its answer holds replies back.
reply_drain ==
  /\ conn.open /\ ~ conn.closing /\ co.publish = "none" /\ ~ conn.blocked
  /\ conn.terminal # "no" \/ conn.connack = "queued"
  /\ LET d == [conn EXCEPT !.connack = IF @ = "queued" THEN "sent" ELSE @] IN
     IF conn.terminal = "no" THEN conn' = d /\ UNCHANGED co
     ELSE conn' = edge_close(d) /\ co' = Woken("ENOTCONN")
  /\ UNCHANGED <<clustered, provider, binding, told, clock>>

\* A delivery is queued that the client's Receive Maximum does not let out; its
\* acknowledgements let it.
window_full ==
  /\ conn.open /\ ~ clustered /\ conn.session /\ conn.connack = "sent"
  /\ ~ conn.closing /\ ~ conn.blocked /\ conn.terminal = "no"
  /\ conn' = [conn EXCEPT !.blocked = TRUE]
  /\ UNCHANGED <<clustered, co, provider, binding, told, clock>>

\* flowie_expiry_task, for the session of an active connection.
expiry_task ==
  /\ conn.open /\ conn.session /\ conn.deadline.at # 0
  /\ \/ /\ conn.deadline.set_for # conn.principal.until
        /\ conn' = [conn EXCEPT !.deadline = NoDeadline]
     \/ /\ conn.deadline.set_for = conn.principal.until
        /\ conn.deadline.at <= clock.time /\ conn.connack = "sent"
        /\ conn' = LET d == [conn EXCEPT !.deadline = NoDeadline] IN
                   IF conn.blocked /\ ~ conn.closing
                   THEN [d EXCEPT !.expiry_pending = TRUE, !.terminal = "admitted"]
                   ELSE edge_close([d EXCEPT !.expiry_pending = TRUE])
  /\ UNCHANGED <<clustered, co, provider, binding, told, clock>>

\* A failed send, a slow subscriber or the end of the endpoint.
send_failed ==
  /\ conn.open /\ ~ conn.closing
  /\ conn' = edge_close(conn) /\ co' = Woken("ENOTCONN")
  /\ UNCHANGED <<clustered, provider, binding, told, clock>>

\* The mutant forgets that the client said goodbye.
lost_NotGraceful(c) == c.connected /\ ~ c.taken /\ ~ c.detached

\* flowie_net_connection_release tells the owner of a loss the owner cannot know of.
lost(c) == c.connected /\ ~ c.graceful /\ ~ c.taken /\ ~ c.detached

net_connection_release ==
  /\ conn.open /\ co.pc = "idle"
  /\ provider' = Cancelled(conn)
  /\ conn' = [cluster_detach(enhanced_auth_clear(conn)) EXCEPT !.open = FALSE, !.session = FALSE,
                 !.connected = FALSE, !.detached = clustered, !.blocked = FALSE, !.terminal = "no"]
  /\ binding' = IF ~ clustered \/ conn.detached THEN binding
                ELSE [binding EXCEPT !.calls = (IF lost(conn) THEN Append(@, "lost") ELSE @) \o <<"detach">>]
  /\ UNCHANGED <<clustered, co, told, clock>>

\* The network closes what is closing or failed; a client may leave at any time.
net_close == (conn.closing \/ conn.failed) /\ net_connection_release
client_leaves == ~ conn.closing /\ ~ conn.failed /\ net_connection_release

EdgeTick ==
  /\ clock.time < MaxTime
  /\ clock' = [clock EXCEPT !.time = @ + 1]
  /\ UNCHANGED <<clustered, conn, co, provider, binding, told>>

EdgeNext ==
  \/ \E packet \in EdgePackets : Receive(packet)
  \/ \E ok, accepted, admit, silent \in BOOLEAN : cluster_complete(ok, accepted, admit, silent)
  \/ cluster_takeover_close \/ cluster_wait \/ request_timeout
  \/ reply_drain \/ window_full \/ expiry_task \/ send_failed
  \/ net_close \/ client_leaves \/ EdgeTick

\* The lane runs every task that is ready, and the network closes what it was
\* told to close.
EdgeFairness ==
  WF_edgeVars(cluster_wait) /\ WF_edgeVars(request_timeout) /\ WF_edgeVars(reply_drain)
  /\ WF_edgeVars(expiry_task) /\ WF_edgeVars(net_close)
EdgeSpec == EdgeInit /\ [][EdgeNext]_edgeVars /\ EdgeFairness

-----------------------------------------------------------------------------
(* Properties *)

Calls(call) == {i \in DOMAIN binding.calls : binding.calls[i] = call}

\* The endpoint keeps its side of the contracts of flowie.h.  The provider holds
\* exactly the exchange the connection knows of.  The owner has at most the one
\* request the coroutine waits for, is told once to forget the connection and
\* nothing afterwards, and is told of a loss exactly if the session it bound was
\* neither given back nor taken over and none of its answers went unheard.  A
\* SUBACK answers every filter of its own SUBSCRIBE, and a PUBLISH carries the
\* topic the client meant by its alias.
EdgeContract ==
  /\ provider = IF conn.exchange = 0 THEN {} ELSE {conn.exchange}
  /\ conn.open \/ conn.exchange = 0
  /\ (binding.request # NoRequest) = conn.pending
  /\ conn.pending => co.pc = "wait" /\ conn.command = binding.request.command
  /\ Cardinality(Calls("detach")) = (IF conn.detached THEN 1 ELSE 0)
  /\ ~ conn.open /\ clustered => binding.calls[Len(binding.calls)] = "detach"
  /\ ~ conn.open => (Calls("lost") # {}) = (binding.bound /\ ~ binding.unheard)
  /\ conn.reasons # <<>> => conn.pending /\ conn.command = "SUBSCRIBE"
  /\ told.suback # <<>> =>
       told.suback = [i \in DOMAIN told.asked |->
                        IF told.asked[i] \in Forbidden THEN "denied" ELSE told.asked[i]]
  /\ binding.request.command = "PUBLISH" => binding.request.topic = told.meant

\* The connection of a client whose principal has expired is closed, or the
\* principal renewed, even if the client sends nothing
\* (flowie_principal_expiry_disconnect).  Two connections are left: that of a
\* clustered endpoint, for which no task watches, and one whose DISCONNECT
\* stands behind a delivery that waits for acknowledgements the expiry gate no
\* longer lets in.
ExpiredLeaves ==
  []<>(~ conn.session \/ ~ ExpiredPrincipal(conn) \/ conn.blocked)
=============================================================================
