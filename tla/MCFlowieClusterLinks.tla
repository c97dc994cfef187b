------------------------ MODULE MCFlowieClusterLinks ------------------------
(* The way of a client's packet into the cluster, in three parts that share no
   state: the connection that hands it to the session owner's binding, what the
   codecs make of every message, and the link that carries the frames.     *)
EXTENDS FlowieClusterWire, FlowieClusterLink, FlowieEdge

Packet(t, n, v) == [type |-> t, size |-> n, valid |-> v]
FrameOf(kind, op, connection) ==
  [kind |-> kind, op |-> op, flags |-> 0, header |-> 0, total |-> 0, status |-> 0,
   sizes |-> [cluster |-> 2, listener |-> IF kind \in StateKinds THEN 1 ELSE 0,
              source |-> 1, target |-> 1, payload |-> 0],
   source_boot |-> 1, target_boot |-> 2, epoch |-> 1, correlation |-> 1, connection |-> connection]
Case(codec, kind, op, x, limit) ==
  [codec |-> codec, op |-> op, x |-> x, limit |-> limit, frame |-> FrameOf(kind, op, 1)]

Principals == {[texts |-> <<>>, roles |-> 0, groups |-> 0, scope |-> "SELF"],
               [texts |-> <<1, 1, 1, 1>>, roles |-> 0, groups |-> 0, scope |-> "SELF"],
               [texts |-> <<1, 1, 0, 1, 2>>, roles |-> 1, groups |-> 0, scope |-> "SYSTEM"],
               [texts |-> <<1, 1, 0, 1, 2>>, roles |-> 1, groups |-> 0, scope |-> "SELF"]}
Binds == {Case("connect_bind", "COMMAND", "CONNECT_BIND",
               [version |-> v, client |-> c, credentials |-> cr, properties |-> ps, will |-> 1,
                principal |-> p, remote |-> r, peer |-> q, tlvs |-> 1], 32 + lim) :
            v \in {4, 5}, c \in {0, 1}, cr \in BOOLEAN, ps \in SUBSET {"expiry", "auth"},
            p \in Principals, r \in {0, 1}, q \in {0, 1}, lim \in {4, 40, 60}}
Commands == {Case("mqtt_command", "COMMAND", op, [version |-> 5, client |-> c, packet |-> Packet(t, n, v)], lim) :
               op \in {"PUBLISH", "ACK", "CONNECTION_LOST"}, c \in {0, 1}, t \in {"PUBLISH", "PUBREC"},
               n \in {0, 2}, v \in BOOLEAN, lim \in {1, 2, 22, 23, 24}}
Losses == {Case("connection_lost", "COMMAND", "CONNECTION_LOST", [version |-> v, client |-> c], lim) :
             v \in {4, 6}, c \in {0, 2}, lim \in {17, 18}}
Takeovers == {Case("takeover_close", "COMMAND", "TAKEOVER_CLOSE", [version |-> v, client |-> c], lim) :
             v \in {4, 6}, c \in {0, 2}, lim \in {17, 18}}
Settles == {Case("publish_settle", "COMMAND", "PUBLISH_SETTLE",
                 [client |-> 1, attempt |-> a, point |-> p, qos |-> q, packet_id |-> 1, flags |-> f], lim) :
             a \in {0, 1}, p \in {"RECEIVED", "DURABLE"}, q \in 0 .. 2, f \in SUBSET {"duplicate", "retain"},
             lim \in {64, 65}}
Answer(v, n, t, c, p) == [version |-> v, packet |-> Packet(t, n, TRUE), close |-> c, point |-> p]
Answers == {Answer(v, n, t, c, p) : v \in {3, 5}, n \in {0, 2}, t \in {"SUBACK", "CONNACK"},
              c \in BOOLEAN, p \in {"none", "DURABLE"}}
Replies == {Case("mqtt_reply", "REPLY", "MQTT_REPLY", x, lim) : x \in Answers, lim \in {1, 2, 22}}
Edges == {Case("edge_action", "COMMAND", "EDGE_ACTION", x @@ [sequence |-> s], lim) :
            x \in Answers, s \in {0, 1}, lim \in {44, 45, 46}}
Acks == {Case("edge_action_ack", "REPLY", "EDGE_ACTION_ACK", [sequence |-> s], 24) : s \in {0, 1}}
Events == {[Case("publish_event", "EVENT", "EVENT_DELIVER",
                [version |-> 5, client |-> 1, packet |-> Packet("PUBLISH", 2, TRUE), point |-> p,
                 qos |-> q, connection |-> 1, session |-> s, accepted |-> a, edge |-> 1], lim)
            EXCEPT !.frame.connection = 0] :
             p \in {"RECEIVED", "DURABLE"}, q \in {0, 1}, s \in {0, 1}, a \in {0, 1}, lim \in {88, 111, 112}}

MCWireCases == Binds \cup Commands \cup Losses \cup Takeovers \cup Settles \cup Replies
               \cup Edges \cup Acks \cup Events

MCMsgs == {"m1", "m2"}
MCSize == [f \in {"m1", "m2", "HELLO", "HELLO_ACK"} |-> IF f = "m1" THEN 2 ELSE 1]
MCLinkScenarios ==
  [boot : {1}, expects : {1}, authorized : {Ends}, owners : {{"dial"}}, faults : {1}]
  \cup [boot : {1}, expects : {1}, authorized : {Ends, {"dial"}, {"accept"}}, owners : {{"accept"}}, faults : {0}]
  \cup [boot : {1}, expects : {2}, authorized : {Ends}, owners : {{}}, faults : {0}]

VARIABLE part
linksVars == <<part, w, linkVars, edgeVars>>

EdgeRests == EdgeInit /\ clustered = FALSE
LinkRests == LinkInit /\ scen = CHOOSE c \in LinkScenarios : TRUE

Init ==
  \/ part = "wire" /\ WireInit /\ LinkRests /\ EdgeRests
  \/ part = "link" /\ w = WireIdle /\ LinkInit /\ EdgeRests
  \/ part = "edge" /\ w = WireIdle /\ LinkRests /\ EdgeInit
Next ==
  \/ part = "wire" /\ WireNext /\ UNCHANGED <<part, linkVars, edgeVars>>
  \/ part = "link" /\ LinkNext /\ UNCHANGED <<part, w, edgeVars>>
  \/ part = "edge" /\ EdgeNext /\ UNCHANGED <<part, w, linkVars>>
Spec ==
  Init /\ [][Next]_linksVars /\ (part = "link" => LinkFairness) /\ (part = "edge" => EdgeFairness)
=============================================================================
