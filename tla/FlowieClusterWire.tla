------------------------- MODULE FlowieClusterWire -------------------------
(* The payloads two cluster nodes exchange, and the frame that carries them.
   Bytes are abstracted to what the decoders tell apart: the fixed part of a
   header, the sizes it records, and the fields a payload stands for.  A
   failed allocation is left out.                                          *)
EXTENDS Integers, Sequences, FiniteSets, FiniteSetsExt, Functions, TLC

AddressMax == 127
NodeIdMax == 64
ClusterIdMax == 255
ListenerIdMax == 255
FrameHeader == 112
CommandHeader == 20
ReplyHeader == 20
EdgeHeader == 24
EventHeader(v) == IF v = 1 THEN 80 ELSE 88

Supported(version) == version \in {3, 4, 5}
Total(sizes) == MapThenSumSet(LAMBDA p : sizes[p], DOMAIN sizes)

\* The first check that fails decides the status; with none the data is out.
Checked(checks, data) ==
  LET bad == {i \in DOMAIN checks : checks[i][1]}
  IN IF bad = {} THEN [rc |-> "OK", data |-> data]
     ELSE [rc |-> checks[Min(bad)][2]]

\* A payload as it is written: magic and version, header size, total size and
\* reserved bytes, the flags, the sizes of the variable parts, the fields.
Bytes(codec, header, flags, sizes, fields) ==
  LET n == header + Total(sizes)
  IN [codec |-> codec, header |-> header, total |-> n, size |-> n,
      reserved |-> 0, flags |-> flags, sizes |-> sizes, fields |-> fields]

\* What every decoder checks before it looks at a field.
Misshapen(d, codec, header) ==
  \/ d.codec # codec \/ d.header # header \/ d.size < header
  \/ d.total # d.size \/ d.reserved # 0
  \/ header + Total(d.sizes) # d.size

----------------------------------------------------------------------------
(* CONNECT_BIND: an authenticated CONNECT moves to the owner of its shard
   without credentials and without the properties only the edge needs.     *)

\* A principal is the sizes of its texts: id, type, domain and method, then
\* the roles and the groups its counts announce.  No principal has no texts.
principal_size(p) ==
  IF p.texts = <<>> THEN 0
  ELSE 24 + FoldFunction(LAMBDA n, sum : sum + 2 + n, 0, p.texts)

principal_invalid(p) ==
  /\ p.texts # <<>>
  /\ \/ Len(p.texts) # 4 + p.roles + p.groups
     \/ \E i \in DOMAIN p.texts : p.texts[i] = 0 /\ ~(i = 3 /\ p.scope = "SYSTEM")

\* The texts are read one by one and must end where the principal ends.
principal_decode_fails(p, size) ==
  /\ size # 0
  /\ \/ 4 + p.roles + p.groups > Len(p.texts)
     \/ principal_size([p EXCEPT !.texts = SubSeq(@, 1, 4 + p.roles + p.groups)]) # size
     \/ principal_invalid(p)

Carried(properties) == properties \cap {"expiry"}

ConnectSize(x) == x.client + x.will + 5 * Cardinality(Carried(x.properties))

connect_bind_view_Unsanitized(x) == x

connect_bind_view(x) ==
  [version |-> x.version, client |-> x.client, will |-> x.will,
   properties |-> Carried(x.properties), credentials |-> FALSE,
   principal |-> x.principal, remote |-> x.remote, peer |-> x.peer, tlvs |-> x.tlvs]

connect_validate(x) ==
  << <<~Supported(x.version) \/ x.client = 0, "EINVAL">>,
     <<x.version # 5 /\ x.properties # {}, "EPROTO">> >>

metadata_invalid(x) ==
  \/ x.remote > AddressMax \/ x.peer > AddressMax
  \/ (x.remote = 0) # (x.peer = 0)

connect_bind_encode(x, limit) ==
  LET sizes == [principal |-> principal_size(x.principal), remote |-> x.remote, peer |-> x.peer,
                tlvs |-> x.tlvs, connect |-> ConnectSize(x)]
  IN Checked(<< <<limit < 32, "EINVAL">> >> \o connect_validate(x)
             \o << <<metadata_invalid(x), "EINVAL">>,
                   <<principal_invalid(x.principal), "EINVAL">>,
                   <<32 + Total(sizes) > limit, "EMSGSIZE">> >>,
             Bytes("TFCB", 32, IF sizes.principal # 0 THEN {"security"} ELSE {}, sizes,
                   connect_bind_view(x)))

connect_bind_decode(d, limit) ==
  Checked(<< <<limit < 32, "EINVAL">>, <<d.size > limit, "EMSGSIZE">>,
             <<Misshapen(d, "TFCB", 32), "EPROTO">>,
             <<\/ d.flags \notin SUBSET {"security"} \/ d.sizes.connect = 0
               \/ metadata_invalid([remote |-> d.sizes.remote, peer |-> d.sizes.peer])
               \/ ("security" \in d.flags) # (d.sizes.principal # 0), "EPROTO">>,
             <<principal_decode_fails(d.fields.principal, d.sizes.principal), "EPROTO">>,
             <<d.fields.client = 0 \/ d.fields.credentials, "EPROTO">>,
             <<d.fields.properties \notin SUBSET {"expiry"}, "EPROTO">> >>, d.fields)

----------------------------------------------------------------------------
(* Commands about one client: a packet, a lost socket, a fenced socket.    *)

operation_type(op) ==
  CASE op = "PUBLISH" -> {"PUBLISH"}
    [] op = "SUBSCRIBE" -> {"SUBSCRIBE"}
    [] op = "UNSUBSCRIBE" -> {"UNSUBSCRIBE"}
    [] op = "ACK" -> {"PUBACK", "PUBREC", "PUBREL", "PUBCOMP"}
    [] op = "DISCONNECT" -> {"DISCONNECT"}
    [] OTHER -> {}

packet_parse(types, x, max_packet) ==
  << <<types = {}, "ENOTSUP">>,
     <<~Supported(x.version) \/ x.packet.size = 0 \/ max_packet = 0, "EINVAL">>,
     <<x.packet.size > max_packet, "EMSGSIZE">>,
     <<x.packet.type \notin types \/ ~x.packet.valid, "EPROTO">> >>

mqtt_command_encode(op, x, max_packet) ==
  Checked(<< <<x.client = 0, "EPROTO">> >> \o packet_parse(operation_type(op), x, max_packet),
          Bytes("TFMQ", CommandHeader, {}, [client |-> x.client, packet |-> x.packet.size], x))

mqtt_command_decode(op, d, max_packet) ==
  Checked(<< <<Misshapen(d, "TFMQ", CommandHeader) \/ d.sizes.client = 0, "EPROTO">> >>
          \o packet_parse(operation_type(op), [d.fields EXCEPT !.packet.size = d.sizes.packet],
                          max_packet), d.fields)

connection_lost_encode(x, limit) ==
  Checked(<< <<~Supported(x.version) \/ x.client = 0, "EPROTO">>,
             <<16 + x.client > limit, "EMSGSIZE">> >>,
          Bytes("TFCL", 16, {}, [client |-> x.client], x))

connection_lost_decode(d, limit) ==
  Checked(<< <<d.size > limit, "EMSGSIZE">>,
             <<Misshapen(d, "TFCL", 16) \/ d.sizes.client = 0, "EPROTO">>,
             <<~Supported(d.fields.version), "EPROTO">> >>, d.fields)

takeover_close_encode(x, limit) ==
  Checked(<< <<~Supported(x.version) \/ x.client = 0, "EPROTO">>,
             <<16 + x.client > limit, "EMSGSIZE">> >>,
          Bytes("TFTC", 16, {}, [client |-> x.client], x))

takeover_close_decode(d, limit) ==
  Checked(<< <<d.size > limit, "EMSGSIZE">>,
             <<Misshapen(d, "TFTC", 16) \/ d.sizes.client = 0, "EPROTO">>,
             <<~Supported(d.fields.version), "EPROTO">> >>, d.fields)

publish_settlement_invalid(x) ==
  \/ x.client = 0 \/ x.attempt = 0 \/ x.point \notin {"ACCEPTED", "PROCESSED", "DURABLE"}
  \/ x.qos \notin {1, 2} \/ x.packet_id = 0

publish_settle_encode(x, limit) ==
  Checked(<< <<publish_settlement_invalid(x), "EPROTO">>,
             <<64 + x.client > limit, "EMSGSIZE">> >>,
          Bytes("TFPS", 64, x.flags, [client |-> x.client], x))

publish_settle_decode(d, limit) ==
  Checked(<< <<d.size > limit, "EMSGSIZE">>,
             <<\/ Misshapen(d, "TFPS", 64) \/ d.flags \notin SUBSET {"duplicate", "retain"}
               \/ d.sizes.client = 0, "EPROTO">>,
             <<publish_settlement_invalid(d.fields), "EPROTO">> >>, d.fields)

----------------------------------------------------------------------------
(* What an owner answers: one action for the socket of the edge, alone or in
   a sequence of its own, and the acknowledgement of that sequence.        *)

ReplyTypes == {"PUBLISH", "PUBACK", "PUBREC", "PUBREL", "PUBCOMP", "SUBACK",
               "UNSUBACK", "PINGRESP", "DISCONNECT", "AUTH"}
Points == {"RECEIVED", "ACCEPTED", "PROCESSED", "DURABLE"}

reply_parse(x, max_packet) ==
  IF x.packet.size = 0 THEN <<>>
  ELSE << <<x.packet.size > max_packet, "EMSGSIZE">>,
          <<x.packet.type \notin ReplyTypes \/ ~x.packet.valid, "EPROTO">> >>

reply_flags(x) ==
  (IF x.packet.size # 0 THEN {"packet"} ELSE {}) \cup
  (IF x.close THEN {"close"} ELSE {}) \cup
  (IF x.point # "none" THEN {"settlement"} ELSE {})

mqtt_reply_encode(x, max_packet) ==
  Checked(<< <<~Supported(x.version) \/ max_packet = 0
               \/ x.point \notin Points \cup {"none"}, "EINVAL">> >> \o reply_parse(x, max_packet),
          Bytes("TFRP", ReplyHeader, reply_flags(x), [packet |-> x.packet.size], x))

mqtt_reply_decode(d, max_packet) ==
  Checked(<< <<max_packet = 0, "EINVAL">>,
             <<\/ Misshapen(d, "TFRP", ReplyHeader)
               \/ d.flags \notin SUBSET {"packet", "close", "settlement"}
               \/ ~Supported(d.fields.version) \/ d.fields.point \notin Points \cup {"none"}, "EPROTO">>,
             <<\/ ("packet" \in d.flags) # (d.sizes.packet # 0)
               \/ ("settlement" \in d.flags) # (d.fields.point # "none"), "EPROTO">> >>
          \o reply_parse(d.fields, max_packet), d.fields)

NoOperation(x) == x.packet.size = 0 /\ ~x.close /\ x.point = "none"

edge_action_encode(x, limit) ==
  LET reply == mqtt_reply_encode(x, limit - EdgeHeader - ReplyHeader)
  IN IF x.sequence = 0 \/ NoOperation(x) \/ limit <= EdgeHeader + ReplyHeader THEN [rc |-> "EINVAL"]
     ELSE IF reply.rc # "OK" THEN reply
     ELSE Checked(<< <<EdgeHeader + reply.data.size > limit, "EMSGSIZE">> >>,
                  Bytes("TFEA", EdgeHeader, {}, [action |-> reply.data.size],
                        [sequence |-> x.sequence, action |-> reply.data]))

edge_action_decode(d, limit) ==
  LET reply == mqtt_reply_decode(d.fields.action, limit - EdgeHeader - ReplyHeader)
  IN IF limit <= EdgeHeader + ReplyHeader THEN [rc |-> "EINVAL"]
     ELSE IF d.size > limit THEN [rc |-> "EMSGSIZE"]
     ELSE IF Misshapen(d, "TFEA", EdgeHeader) \/ d.fields.sequence = 0 \/ d.sizes.action < ReplyHeader
     THEN [rc |-> "EPROTO"]
     ELSE IF reply.rc # "OK" THEN reply
     ELSE Checked(<< <<NoOperation(reply.data), "EPROTO">> >>, reply.data)

edge_action_ack_encode(x) ==
  Checked(<< <<x.sequence = 0, "EINVAL">> >>, Bytes("TFEK", 24, {}, [none |-> 0], x))

edge_action_ack_decode(d) ==
  Checked(<< <<Misshapen(d, "TFEK", 24) \/ d.fields.sequence = 0, "EPROTO">> >>, d.fields)

(* The event a publication is replicated as.  Version 1 had no acceptance
   time; it is still read.                                                 *)

event_settlement_invalid(x) ==
  x.point \notin Points \/ (x.qos = 0 /\ x.point # "RECEIVED")

publish_event_encode(x, limit) ==
  LET command == mqtt_command_encode("PUBLISH", x, limit)
  IN IF x.connection = 0 \/ x.session = 0 \/ x.accepted = 0 \/ x.edge = 0 \/ x.edge > NodeIdMax
        \/ limit <= EventHeader(2) THEN [rc |-> "EINVAL"]
     ELSE IF command.rc # "OK" THEN command
     ELSE Checked(<< <<event_settlement_invalid(x), "EPROTO">>,
                     <<EventHeader(2) + x.edge + command.data.size > limit, "EMSGSIZE">> >>,
                  Bytes("TFPE", EventHeader(2), {}, [edge |-> x.edge, command |-> command.data.size],
                        [version |-> 2, accepted |-> x.accepted, connection |-> x.connection,
                         session |-> x.session, command |-> command.data]))

publish_event_decode(d, limit) ==
  LET v == d.fields.version
      command == mqtt_command_decode("PUBLISH", d.fields.command, limit)
      accepted == IF v = 1 THEN 0 ELSE d.fields.accepted
  IN IF limit = 0 THEN [rc |-> "EINVAL"]
     ELSE IF d.size > limit THEN [rc |-> "EMSGSIZE"]
     ELSE IF \/ v \notin {1, 2} \/ Misshapen(d, "TFPE", EventHeader(v))
             \/ d.sizes.edge = 0 \/ d.sizes.edge > NodeIdMax \/ d.sizes.command < CommandHeader
             \/ d.fields.connection = 0 \/ d.fields.session = 0
     THEN [rc |-> "EPROTO"]
     ELSE IF command.rc # "OK" THEN command
     ELSE Checked(<< <<event_settlement_invalid(command.data), "EPROTO">> >>,
                  [command.data EXCEPT !.accepted = accepted])

----------------------------------------------------------------------------
(* The frame around a payload: kind and operation, the route with the boot
   of both processes, and for a state frame the epoch of the owner, the
   correlation and the connection it is about.                             *)

StateKinds == {"COMMAND", "REPLY", "EVENT"}
Kinds == StateKinds \cup {"HELLO", "HELLO_ACK", "PING", "PONG", "GOAWAY"}

operation_validate(kind, op) ==
  CASE kind = "COMMAND" -> op \in {"CONNECT_BIND", "PUBLISH", "SUBSCRIBE", "UNSUBSCRIBE", "ACK",
                                   "DISCONNECT", "CONNECTION_LOST", "TAKEOVER_CLOSE",
                                   "EDGE_ACTION", "PUBLISH_SETTLE"}
    [] kind = "REPLY" -> op \in {"MQTT_REPLY", "EDGE_ACTION_ACK"}
    [] kind = "EVENT" -> op \in {"EVENT_DELIVER", "EVENT_ACK"}
    [] OTHER -> op = "NONE"

requires_connection(op) == op \notin {"EVENT_DELIVER", "EVENT_ACK", "NONE"}

text_validate(size, maximum, required) ==
  << <<required /\ size = 0, "EINVAL">>, <<size > maximum, "EMSGSIZE">> >>

frame_validate(f, limit) ==
  << <<limit = 0, "EINVAL">>,
     <<f.kind \notin Kinds \/ f.flags # 0 \/ ~operation_validate(f.kind, f.op), "EPROTO">>,
     <<f.sizes.payload > limit, "EMSGSIZE">> >>
  \o text_validate(f.sizes.cluster, ClusterIdMax, TRUE)
  \o text_validate(f.sizes.source, NodeIdMax, TRUE)
  \o text_validate(f.sizes.target, NodeIdMax, TRUE)
  \o << <<f.source_boot = 0 \/ f.target_boot = 0, "EPROTO">> >>
  \o text_validate(f.sizes.listener, ListenerIdMax, f.kind \in StateKinds)
  \o << <<f.kind \in StateKinds /\ (f.epoch = 0 \/ f.correlation = 0), "EPROTO">>,
     <<f.kind \in StateKinds /\ requires_connection(f.op) # (f.connection # 0), "EPROTO">>,
     <<f.kind # "REPLY" /\ f.status # 0, "EPROTO">>,
     <<f.kind \notin StateKinds /\ (f.sizes.listener # 0 \/ f.epoch # 0 \/ f.correlation # 0
                                    \/ f.connection # 0), "EPROTO">>,
     <<f.kind \in {"PING", "PONG"} /\ f.sizes.payload # 0, "EPROTO">> >>

frame_encode(f, limit) ==
  Checked(frame_validate(f, limit),
          [f EXCEPT !.header = FrameHeader, !.total = FrameHeader + Total(f.sizes)])

header_decode(b, limit) ==
  << <<b.header # FrameHeader, "EPROTO">>,
     <<\/ b.sizes.cluster > ClusterIdMax \/ b.sizes.listener > ListenerIdMax
       \/ b.sizes.source > NodeIdMax \/ b.sizes.target > NodeIdMax
       \/ b.sizes.payload > limit, "EMSGSIZE">>,
     <<FrameHeader + Total(b.sizes) # b.total, "EPROTO">> >>

\* The first frame of a buffer that holds available bytes of it.
frame_decode(b, available, limit) ==
  LET header == Checked(header_decode(b, limit), b)
      whole == Checked(frame_validate(b, limit), b)
  IN IF available < FrameHeader THEN [rc |-> "INCOMPLETE"]
     ELSE IF header.rc # "OK" THEN header
     ELSE IF available < b.total THEN [rc |-> "INCOMPLETE"]
     ELSE IF whole.rc = "EINVAL" THEN [rc |-> "EPROTO"] ELSE whole

frame_require_target(f, cluster, node, boot) ==
  Checked(<< <<f.sizes.cluster # cluster \/ f.sizes.target # node \/ f.target_boot # boot, "EPROTO">> >>, f)

----------------------------------------------------------------------------
(* One payload on its way from node to node.                               *)
CONSTANT WireCases   \* records [codec, op, x, limit, frame]

VARIABLE w   \* the case, how far it is, the payload and the frame

PayloadEncode(c) ==
  CASE c.codec = "connect_bind" -> connect_bind_encode(c.x, c.limit)
    [] c.codec = "mqtt_command" -> mqtt_command_encode(c.op, c.x, c.limit)
    [] c.codec = "connection_lost" -> connection_lost_encode(c.x, c.limit)
    [] c.codec = "takeover_close" -> takeover_close_encode(c.x, c.limit)
    [] c.codec = "publish_settle" -> publish_settle_encode(c.x, c.limit)
    [] c.codec = "mqtt_reply" -> mqtt_reply_encode(c.x, c.limit)
    [] c.codec = "edge_action" -> edge_action_encode(c.x, c.limit)
    [] c.codec = "edge_action_ack" -> edge_action_ack_encode(c.x)
    [] c.codec = "publish_event" -> publish_event_encode(c.x, c.limit)

PayloadDecode(c, d) ==
  CASE c.codec = "connect_bind" -> connect_bind_decode(d, c.limit)
    [] c.codec = "mqtt_command" -> mqtt_command_decode(c.op, d, c.limit)
    [] c.codec = "connection_lost" -> connection_lost_decode(d, c.limit)
    [] c.codec = "takeover_close" -> takeover_close_decode(d, c.limit)
    [] c.codec = "publish_settle" -> publish_settle_decode(d, c.limit)
    [] c.codec = "mqtt_reply" -> mqtt_reply_decode(d, c.limit)
    [] c.codec = "edge_action" -> edge_action_decode(d, c.limit)
    [] c.codec = "edge_action_ack" -> edge_action_ack_decode(d)
    [] c.codec = "publish_event" -> publish_event_decode(d, c.limit)

\* One field of the structure changed on the way.
Damaged(d) ==
  {[d EXCEPT !.total = @ + 1], [d EXCEPT !.header = @ + 1], [d EXCEPT !.size = @ - 1]}
  \cup {[d EXCEPT !.sizes[p] = @ + 1] : p \in DOMAIN d.sizes}
  \cup {[d EXCEPT !.sizes[p] = @ - 1] : p \in {q \in DOMAIN d.sizes : d.sizes[q] > 0}}

DamagedFrame(f) ==
  {[f EXCEPT !.total = @ + 1], [f EXCEPT !.flags = 1], [f EXCEPT !.header = @ - 1]}
  \cup {[f EXCEPT !.sizes[p] = @ + 1] : p \in DOMAIN f.sizes}
  \cup {[f EXCEPT !.kind = k] : k \in Kinds \ {f.kind}}

WireIdle == [phase |-> "idle"]

WireInit ==
  w \in {[phase |-> "input", case |-> c, rc |-> "OK", got |-> 0, damaged |-> FALSE] : c \in WireCases}

EncodePayload ==
  /\ w.phase = "input"
  /\ LET r == PayloadEncode(w.case)
     IN w' = IF r.rc # "OK" THEN [w EXCEPT !.phase = "refused", !.rc = r.rc]
             ELSE [w EXCEPT !.phase = "payload"] @@ [payload |-> r.data]

EncodeFrame ==
  /\ w.phase = "payload"
  /\ LET f == [w.case.frame EXCEPT !.sizes.payload = w.payload.size]
         r == frame_encode(f, w.case.limit)
     IN w' = IF r.rc # "OK" THEN [w EXCEPT !.phase = "refused", !.rc = r.rc]
             ELSE [w EXCEPT !.phase = "sent"] @@ [bytes |-> r.data]

Damage ==
  /\ w.phase = "sent" /\ ~w.damaged /\ w.got = 0
  /\ \/ \E d \in Damaged(w.payload) : w' = [w EXCEPT !.payload = d, !.damaged = TRUE]
     \/ \E f \in DamagedFrame(w.bytes) : w' = [w EXCEPT !.bytes = f, !.damaged = TRUE]

\* The bytes arrive in pieces; each time the receiver tries to decode.
Arrive ==
  /\ w.phase = "sent"
  /\ \E n \in {FrameHeader - 1, FrameHeader, w.bytes.total - 1, w.bytes.total} :
       /\ n > w.got
       /\ LET r == frame_decode(w.bytes, n, w.case.limit)
              t == frame_require_target(r.data, w.case.frame.sizes.cluster,
                                        w.case.frame.sizes.target, w.case.frame.target_boot)
          IN w' = IF r.rc = "INCOMPLETE" THEN [w EXCEPT !.got = n]
                  ELSE IF r.rc # "OK" THEN [w EXCEPT !.got = n, !.phase = "rejected", !.rc = r.rc]
                  ELSE IF t.rc # "OK" THEN [w EXCEPT !.got = n, !.phase = "rejected", !.rc = t.rc]
                  ELSE [w EXCEPT !.got = n, !.phase = "framed"]

DecodePayload ==
  /\ w.phase = "framed"
  /\ LET r == PayloadDecode(w.case, w.payload)
     IN w' = IF r.rc # "OK" THEN [w EXCEPT !.phase = "rejected", !.rc = r.rc]
             ELSE [w EXCEPT !.phase = "decoded"] @@ [view |-> r.data]

WireNext == EncodePayload \/ EncodeFrame \/ Damage \/ Arrive \/ DecodePayload

\* What the codecs promise together: a payload the sender could encode is
\* never refused at the receiver and means there what it meant at the sender,
\* except that a CONNECT arrives without its credentials and with no property
\* but the session expiry; and a frame or payload whose sizes, counts or kind
\* changed on the way is never taken for a message.
WireFaithful ==
  /\ w.phase = "rejected" => w.damaged
  /\ w.phase = "decoded" =>
       /\ ~w.damaged
       /\ IF w.case.codec = "connect_bind"
          THEN /\ ~w.view.credentials /\ w.view.properties \subseteq {"expiry"}
               /\ ("expiry" \in w.view.properties) = ("expiry" \in w.case.x.properties)
               /\ \A k \in {"version", "client", "will", "principal", "remote", "peer", "tlvs"} :
                     w.view[k] = w.case.x[k]
          ELSE w.view = w.case.x

============================================================================
