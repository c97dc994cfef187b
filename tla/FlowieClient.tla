--------------------------- MODULE FlowieClient ---------------------------
(***************************************************************************)
(* The asynchronous MQTT client (client/src/flowie_mqtt_client.c).         *)
(*                                                                         *)
(* Application threads put commands on a bounded queue; one worker thread  *)
(* owns the connection, runs a command at a time, reconnects with back-off *)
(* when a resilience policy is configured, and hands inbound messages to   *)
(* the topic handlers.  try_destroy stops the worker through a handshake   *)
(* that may take several calls.  The broker and the network stack (CNet,   *)
(* WebSocket) are external: they answer, stay silent, refuse, disconnect   *)
(* or drop the connection at any point.                                    *)
(*                                                                         *)
(* command_mutex makes submit, the pop, each wake-up and each pass of the  *)
(* try_destroy loop atomic; command_changed is a condition variable whose  *)
(* signal wakes one sleeping thread and whose broadcast wakes all of them. *)
(***************************************************************************)
EXTENDS Naturals, Sequences, FiniteSets

CONSTANTS Scenarios,      \* what an application does: see Init
          Capacity,       \* command_queue_capacity
          MaxAttempts,    \* resilience.max_attempts
          MaxDelay,       \* resilience.max_delay_ms, in initial delays
          MaxInboundQos2, \* max_inbound_qos2
          Ids,            \* packet identifiers of the broker's QoS 2 messages
          Destroyers,     \* threads calling try_destroy
          MaxDrains       \* bound: cleanup attempts that fail

ASSUME ClientAssumption ==
    /\ Capacity \in Nat \ {0}
    /\ MaxAttempts \in Nat \ {0}
    /\ MaxDelay \in Nat \ {0}

VARIABLES plan,      \* the scenario, with the batches still to submit
          queue,     \* commands: accepted and not yet popped
          accepted,  \* number of commands accepted
          finished,  \* the numbers of the commands completed, in order
          c,         \* the connection and recovery state, worker's own
          w,         \* the worker: where it is and what it runs
          k,         \* stopping and the cleanup handshake
          d,         \* each thread inside try_destroy
          woken,     \* threads a signal or a broadcast has woken
          broker,    \* each QoS 2 message, as the broker sees it
          handled,   \* times a message was handled in this connection
          kept,      \* messages some handler accepted
          drains,    \* cleanup attempts that failed
          freed      \* times finalize ran

vars == <<plan, queue, accepted, finished, c, w, k, d, woken, broker, handled, kept,
          drains, freed>>

app == <<plan, queue, accepted>>
inbox == <<broker, handled, kept>>
ending == <<k, d, drains, freed>>

---------------------------------------------------------------------------
(* Commands, statuses and packets. *)

Worker == "worker"

NoCommand == [n |-> 0, op |-> "none", version |-> 0]

\* The statuses reconnect_status takes for transient, of those modelled.
reconnect_status == {"ECONNRESET", "ECONNREFUSED", "ETIMEDOUT"}

\* CONNACK reasons: reconnect_reason (0x88, 0x89), refresh_reason (0x86, 0x87),
\* any other refusal.
Refusals == {"busy", "expired", "denied"}

\* DISCONNECT reasons: 0x89, 0x86 and 0x87, any other (0x88 among them).
Reasons == {"busy", "expired", "other"}

Versioned == {"connect", "publish0", "publish1", "publish2", "subscribe", "unsubscribe"}

\* The packet an operation waits for once its own is sent.
Answer(op) ==
    CASE op = "connect" -> "CONNACK"
      [] op = "publish1" -> "PUBACK"
      [] op = "publish2" -> "PUBREC"
      [] op = "subscribe" -> "SUBACK"
      [] op = "unsubscribe" -> "UNSUBACK"
      [] op = "ping" -> "PINGRESP"
      [] op = "auth" -> "AUTH"

Asleep == {"idle", "backoff", "cleanupWait"}

\* The threads asleep on command_changed.
Sleepers ==
    ({t \in Destroyers : d[t].pc = "wait"}
       \cup IF w.pc \in Asleep THEN {Worker} ELSE {}) \ woken

Signalled == IF Sleepers = {} THEN {{}} ELSE {{t} : t \in Sleepers}

---------------------------------------------------------------------------
(* Recovery state. *)

\* reconnect_cancel(clear_connect)
reconnect_cancel(x, clear) ==
    [x EXCEPT !.pending = FALSE, !.attempt = 0, !.delay = 1, !.due = FALSE,
              !.retained = IF clear THEN 0 ELSE @]

\* reconnect_schedule: nothing to schedule without a policy and a retained
\* CONNECT, or once the attempts are used up.
reconnect_schedule(x) ==
    IF ~x.resilient \/ x.retained = 0 THEN x
    ELSE [x EXCEPT !.pending = x.attempt < MaxAttempts, !.due = FALSE]

reconnect_backoff(x) ==
    [x EXCEPT !.delay = IF 2 * @ > MaxDelay THEN MaxDelay ELSE 2 * @]

\* refresh_reconnect, and what its callers do with the outcome: the callback
\* supplies a new CONNECT or recovery ends.
Refreshed(x, then) == {reconnect_schedule(then), reconnect_cancel(x, TRUE)}

\* reconnect_after_failure
reconnect_after_failure(x, status, increase) ==
    LET y == [x EXCEPT !.reason = "none"]
        then == IF increase THEN reconnect_backoff(y) ELSE y
    IN  CASE ~x.resilient \/ x.retained = 0 -> {x}
          [] x.resilient /\ x.retained # 0 /\ x.security -> {reconnect_cancel(x, TRUE)}
          [] x.resilient /\ x.retained # 0 /\ ~x.security ->
               IF x.reason = "expired" THEN Refreshed(y, then)
               ELSE IF \/ x.reason = "busy"
                       \/ x.reason = "none" /\ status \in reconnect_status
               THEN {reconnect_schedule(then)}
               ELSE {y}

\* transport_close: the native dial is sealed and polled for one timeout; when
\* it is not recycled by then it stays behind, still owned by the client.
transport_close(x) ==
    {[x EXCEPT !.state = "down", !.qos2 = {}, !.dial = left] :
       left \in IF x.dial = "none" THEN {"none"} ELSE {"none", "closing"}}

\* What of the broker's view a lost connection leaves: an acknowledgement still
\* on the wire arrived or did not.
AfterLoss(view) ==
    {v \in [Ids -> {"none", "sent", "recd", "released", "done"}] :
       \A i \in Ids : IF view[i] = "recd" THEN v[i] \in {"sent", "released"}
                      ELSE v[i] = view[i]}

---------------------------------------------------------------------------
(* The worker's positions. *)

At(pc) == w.pc = pc

Goto(pc) == w' = [w EXCEPT !.pc = pc]

\* The operation ends with a status: the command's completion, or the
\* on_reconnect report, comes next.
Ends(status, reason) ==
    w' = [w EXCEPT !.pc = "complete", !.rc = IF status # "OK" /\ k.stopping
                                             THEN "ESHUTDOWN" ELSE status,
                   !.reason = reason]

\* The operation fails on the wire: transport_close, then the same.  With no
\* operation (idle receive) the failure is reported and recovery decided.
FailsFrom(x, view, status) ==
    /\ c' \in transport_close(x)
    /\ broker' \in AfterLoss(view)
    /\ IF w.pc = "receive"
       THEN w' = [w EXCEPT !.pc = "report", !.rc = status]
       ELSE Ends(status, "none")

Fails(x, status) == FailsFrom(x, broker, status)

---------------------------------------------------------------------------
(* The application: submit, submit_many, set_version. *)

\* A scenario: batches of command types to submit in order, whether a
\* resilience policy is configured, the versions set_version is called with,
\* the messages the broker has and the threads that call try_destroy.
Init ==
    /\ plan \in Scenarios
    /\ queue = << >> /\ accepted = 0 /\ finished = << >>
    /\ c \in [state : {"down"}, dial : {"none"}, qos2 : {{}}, resilient : {plan.resilient},
              retained : {0}, session : {0}, pending : {FALSE}, attempt : {0},
              delay : {1}, due : {FALSE}, reason : {"none"}, security : {FALSE},
              selected : {5}, locked : {FALSE}]
    /\ w = [pc |-> "pump", cmd |-> NoCommand, want |-> "none", rc |-> "OK",
            reason |-> "none"]
    /\ k = [stopping |-> FALSE, ready |-> FALSE, retry |-> FALSE,
            complete |-> FALSE, status |-> "OK", busy |-> FALSE]
    /\ d = [t \in Destroyers |-> [pc |-> "out", timed |-> FALSE, late |-> FALSE]]
    /\ woken = {}
    /\ broker = [i \in Ids |-> "none"]
    /\ handled = [i \in Ids |-> 0] /\ kept = {}
    /\ drains = 0 /\ freed = 0

\* A command as submit stores it: an unspecified version becomes the client's.
Commands(ops) ==
    [i \in 1 .. Len(ops) |->
       [n |-> accepted + i, op |-> ops[i],
        version |-> IF ops[i] \in Versioned THEN c.selected ELSE 0]]

\* submit and submit_many: refused when stopping, when a packet names another
\* version than the client's, or when the whole batch does not fit.
Submit(ops) ==
    /\ freed = 0 /\ ~k.stopping
    /\ Len(queue) + Len(ops) <= Capacity
    /\ queue' = queue \o Commands(ops)
    /\ accepted' = accepted + Len(ops)
    /\ c' = [c EXCEPT !.locked = @ \/ \E i \in 1 .. Len(ops) : ops[i] \in Versioned]
    /\ \E s \in Signalled : woken' = woken \cup s
    /\ plan' = [plan EXCEPT !.batches = Tail(@)]
    /\ UNCHANGED <<finished, w, inbox, ending>>

\* set_version: only before the first versioned command is accepted.
SetVersion(v) ==
    /\ freed = 0 /\ ~k.stopping /\ ~c.locked
    /\ c' = [c EXCEPT !.selected = v]
    /\ UNCHANGED <<app, finished, w, woken, inbox, ending>>

---------------------------------------------------------------------------
(* The worker's loop: worker_pump. *)

Numbers(cmds) == [i \in 1 .. Len(cmds) |-> cmds[i].n]

\* Variant: the queue is discarded without completing its commands.
PumpStop_Drop ==
    /\ At("pump") /\ k.stopping
    /\ \E x \in transport_close(c) : c' = reconnect_cancel(x, TRUE)
    /\ broker' \in AfterLoss(broker)
    /\ finished' = finished
    /\ queue' = << >>
    /\ Goto("cleanup")
    /\ UNCHANGED <<plan, accepted, woken, handled, kept, ending>>

\* Stopping: close, forget the retained CONNECT, complete what is queued with
\* ESHUTDOWN (cancel_commands), leave the loop.
PumpStop ==
    /\ At("pump") /\ k.stopping
    /\ \E x \in transport_close(c) : c' = reconnect_cancel(x, TRUE)
    /\ broker' \in AfterLoss(broker)
    /\ finished' = finished \o Numbers(queue)
    /\ queue' = << >>
    /\ Goto("cleanup")
    /\ UNCHANGED <<plan, accepted, woken, handled, kept, ending>>

\* command_pop
PumpCommand ==
    /\ At("pump") /\ ~k.stopping /\ queue # << >>
    /\ w' = [w EXCEPT !.pc = "command", !.cmd = Head(queue)]
    /\ queue' = Tail(queue)
    /\ c' = [c EXCEPT !.reason = "none"]
    /\ UNCHANGED <<plan, accepted, finished, woken, inbox, ending>>

PumpEmpty ==
    /\ At("pump") /\ ~k.stopping /\ queue = << >>
    /\ Goto("empty")
    /\ UNCHANGED <<app, finished, c, woken, inbox, ending>>

\* Variant: the queue is not looked at again before sleeping.
PumpNext_Sleep ==
    /\ At("empty")
    /\ w' = [w EXCEPT !.cmd = NoCommand,
                !.pc = CASE c.pending /\ c.due -> "attempt"
                         [] c.pending /\ ~c.due ->
                              IF k.stopping \/ queue # << >> THEN "pump" ELSE "backoff"
                         [] ~c.pending /\ c.state = "up" -> "receive"
                         [] ~c.pending /\ c.state # "up" ->
                              "idle"]
    /\ c' = IF ~c.pending /\ c.state = "up" THEN [c EXCEPT !.reason = "none"] ELSE c
    /\ UNCHANGED <<app, finished, woken, inbox, ending>>

\* Nothing was queued: recover, receive, or sleep.  Both sleeps look at the
\* queue again under the lock.
PumpNext ==
    /\ At("empty")
    /\ w' = [w EXCEPT !.cmd = NoCommand,
                !.pc = CASE c.pending /\ c.due -> "attempt"
                         [] c.pending /\ ~c.due ->
                              IF k.stopping \/ queue # << >> THEN "pump" ELSE "backoff"
                         [] ~c.pending /\ c.state = "up" -> "receive"
                         [] ~c.pending /\ c.state # "up" ->
                              IF k.stopping \/ queue # << >> THEN "pump" ELSE "idle"]
    /\ c' = IF ~c.pending /\ c.state = "up" THEN [c EXCEPT !.reason = "none"] ELSE c
    /\ UNCHANGED <<app, finished, woken, inbox, ending>>

\* cond_wait returns; the loop condition is looked at again.
Wake ==
    /\ At("idle") /\ Worker \in woken
    /\ woken' = woken \ {Worker}
    /\ IF k.stopping \/ queue # << >> THEN Goto("pump") ELSE UNCHANGED w
    /\ UNCHANGED <<app, finished, c, inbox, ending>>

\* The timed wait of a scheduled attempt ends, woken or at the deadline.
WakeBackoff ==
    /\ At("backoff") /\ (Worker \in woken \/ c.due)
    /\ woken' = woken \ {Worker}
    /\ Goto(IF k.stopping \/ ~c.due THEN "pump" ELSE "attempt")
    /\ UNCHANGED <<app, finished, c, inbox, ending>>

\* The monotonic clock reaches reconnect_deadline_ms.
DelayOver ==
    /\ c.pending /\ ~c.due
    /\ c' = [c EXCEPT !.due = TRUE]
    /\ UNCHANGED <<app, finished, w, woken, inbox, ending>>

---------------------------------------------------------------------------
(* Operations: run_command, run_reconnect and the *_operation functions. *)

\* Variant: the retained CONNECT is replaced before the state is looked at.
StartConnect_ReplaceFirst ==
    /\ At("command") /\ w.cmd.op = "connect"
    /\ IF c.state # "down"
       THEN Ends("EALREADY", "none")
            /\ c' = IF c.resilient THEN [c EXCEPT !.retained = w.cmd.n] ELSE c
       ELSE /\ c' = IF c.resilient
                    THEN [reconnect_cancel(c, FALSE) EXCEPT !.retained = w.cmd.n]
                    ELSE c
            /\ Goto("dial")
    /\ UNCHANGED <<app, finished, woken, inbox, ending>>

\* CONNECT: refused while connected, before anything is replaced.
StartConnect ==
    /\ At("command") /\ w.cmd.op = "connect"
    /\ IF c.state # "down"
       THEN Ends("EALREADY", "none") /\ UNCHANGED c
       ELSE /\ c' = IF c.resilient
                    THEN [reconnect_cancel(c, FALSE) EXCEPT !.retained = w.cmd.n]
                    ELSE c
            /\ Goto("dial")
    /\ UNCHANGED <<app, finished, woken, inbox, ending>>

\* run_reconnect
StartReconnect ==
    /\ At("attempt")
    /\ IF k.stopping
       THEN Goto("pump") /\ UNCHANGED c
       ELSE /\ c' = [c EXCEPT !.pending = FALSE, !.due = FALSE, !.attempt = @ + 1]
            /\ Goto("dial")
    /\ UNCHANGED <<app, finished, woken, inbox, ending>>

\* transport_connect and the CONNECT packet: connected, or refused.
DialUp ==
    /\ At("dial") /\ c.dial = "none"
    /\ c' = [c EXCEPT !.state = "transport", !.dial = "live", !.qos2 = {},
                      !.security = FALSE,
                      !.session = IF w.cmd.op = "connect" THEN w.cmd.n ELSE c.retained]
    /\ w' = [w EXCEPT !.pc = "await", !.want = "CONNACK"]
    /\ handled' = [i \in Ids |-> 0]
    /\ UNCHANGED <<app, finished, woken, broker, kept, ending>>

\* The dial fails: the previous one still closing (EBUSY), the network, the TLS
\* handshake, or stopping; whatever was begun is closed again.
DialFails ==
    /\ At("dial")
    /\ \/ c.dial # "none" /\ Fails([c EXCEPT !.qos2 = {}], "EBUSY")
       \/ /\ c.dial = "none"
          /\ \/ \E rc \in {"ECONNREFUSED", "ETIMEDOUT"} :
                  Fails([c EXCEPT !.dial = "live", !.security = FALSE], rc)
             \/ Fails([c EXCEPT !.dial = "live", !.security = TRUE], "EPROTO")
             \/ k.stopping /\ Fails([c EXCEPT !.dial = "live", !.security = FALSE], "ESHUTDOWN")
    /\ UNCHANGED <<app, finished, woken, handled, kept, ending>>

\* The other operations need a connection; publish and AUTH may be beyond what
\* the server or the version offers.  Neither touches the connection.
StartRefused ==
    /\ At("command") /\ w.cmd.op # "connect"
    /\ \/ c.state # "up" /\ Ends("ENOTCONN", "none")
       \/ /\ c.state = "up"
          /\ \/ w.cmd.op \in {"publish1", "publish2"}
             \/ w.cmd.op = "auth" /\ c.selected # 5
          /\ Ends("ENOTSUP", "none")
    /\ UNCHANGED <<app, finished, c, woken, inbox, ending>>

\* The packet is sent; a QoS 0 publish is then complete.
StartSend ==
    /\ At("command") /\ w.cmd.op \notin {"connect", "disconnect"} /\ c.state = "up"
    /\ w.cmd.op = "auth" => c.selected = 5
    /\ IF w.cmd.op = "publish0" THEN Ends("OK", "none")
       ELSE w' = [w EXCEPT !.pc = "await", !.want = Answer(w.cmd.op)]
    /\ UNCHANGED <<app, finished, c, woken, inbox, ending>>

StartSendFails ==
    /\ At("command") /\ w.cmd.op \notin {"connect", "disconnect"} /\ c.state = "up"
    /\ \E rc \in {"ECONNRESET", "ETIMEDOUT"} : Fails(c, rc)
    /\ UNCHANGED <<app, finished, woken, handled, kept, ending>>

\* disconnect_operation: closed whether or not the packet could be sent; a
\* connection already gone is success.
StartDisconnect ==
    /\ At("command") /\ w.cmd.op = "disconnect" /\ c.state = "up"
    /\ \E rc \in {"OK", "ETIMEDOUT"} : Fails(c, rc)
    /\ UNCHANGED <<app, finished, woken, handled, kept, ending>>

---------------------------------------------------------------------------
(* Waiting for a packet: receive_packet, wait_control, handle_unsolicited. *)

Receiving == At("await") \/ At("receive")

\* The expected packet.  A PUBREC goes on to PUBREL and PUBCOMP unless it
\* reports an error; AUTH 0x18 is a challenge answered in between.
Answered ==
    /\ At("await") /\ w.want # "CONNACK" /\ ~k.stopping
    /\ \/ Ends("OK", "none")
       \/ w.want = "PUBREC" /\ w' = [w EXCEPT !.want = "PUBCOMP"]
    /\ UNCHANGED <<app, finished, c, woken, inbox, ending>>

Connected ==
    /\ At("await") /\ w.want = "CONNACK" /\ ~k.stopping
    /\ c' = [c EXCEPT !.state = "up"]
    /\ Ends("OK", "accepted")
    /\ UNCHANGED <<app, finished, woken, inbox, ending>>

\* A refusing CONNACK is a completed exchange: closed, status OK.
Refused ==
    /\ At("await") /\ w.want = "CONNACK" /\ ~k.stopping
    /\ c' \in transport_close(c)
    /\ \E r \in Refusals : Ends("OK", r)
    /\ UNCHANGED <<app, finished, woken, inbox, ending>>

\* The connection ends, the deadline passes or an unexpected packet arrives.
WaitFails ==
    /\ Receiving
    /\ \E rc \in {"ECONNRESET", "ETIMEDOUT", "EPROTO"} : Fails(c, rc)
    /\ UNCHANGED <<app, finished, woken, handled, kept, ending>>

\* A DISCONNECT packet; before CONNACK it is a protocol error.
Disconnected ==
    /\ Receiving /\ c.state = "up"
    /\ \E r \in Reasons : Fails([c EXCEPT !.reason = r], "ECONNRESET")
    /\ UNCHANGED <<app, finished, woken, handled, kept, ending>>

\* should_interrupt
Interrupted ==
    /\ Receiving
    /\ \/ k.stopping /\ Fails(c, "ESHUTDOWN")
       \/ ~k.stopping /\ At("receive") /\ queue # << >> /\ Goto("pump") /\ UNCHANGED <<c, broker>>
    /\ UNCHANGED <<app, finished, woken, handled, kept, ending>>

\* An inbound packet was dealt with: the wait goes on, the idle loop starts over.
Continue == IF At("receive") THEN Goto("pump") ELSE UNCHANGED w

\* handle_publish of a QoS 2 message: a known identifier is only acknowledged
\* again; a new one is stored, given to the handlers and acknowledged when they
\* accept it, and forgotten when they do not.
handle_publish(i) ==
    /\ Receiving /\ c.state = "up" /\ broker[i] \in {"none", "sent", "recd"}
    /\ LET known == i \in c.qos2
           room == Cardinality(c.qos2) < MaxInboundQos2
           sent == [broker EXCEPT ![i] = "sent"]
           recd == [broker EXCEPT ![i] = "recd"]
           added == [c EXCEPT !.qos2 = @ \cup {i}]
       IN  \/ /\ known \/ room
              /\ handled' = IF known THEN handled ELSE [handled EXCEPT ![i] = @ + 1]
              /\ kept' = kept \cup {i}
              /\ \/ c' = added /\ broker' = recd /\ Continue
                 \/ FailsFrom(added, recd, "ECONNRESET")
           \/ /\ ~known /\ room /\ FailsFrom(c, sent, "ENOTSUP")
              /\ UNCHANGED <<handled, kept>>
           \/ /\ ~known /\ ~room /\ FailsFrom(c, sent, "ENOSPC")
              /\ UNCHANGED <<handled, kept>>
    /\ UNCHANGED <<app, finished, woken, ending>>

\* handle_pubrel: PUBCOMP whether or not the identifier is known.
handle_pubrel(i) ==
    /\ Receiving /\ c.state = "up" /\ broker[i] \in {"recd", "released"}
    /\ LET removed == [c EXCEPT !.qos2 = @ \ {i}]
       IN  \/ c' = removed /\ broker' = [broker EXCEPT ![i] = "done"] /\ Continue
           \/ FailsFrom(removed, [broker EXCEPT ![i] = "released"], "ECONNRESET")
    /\ UNCHANGED <<app, finished, woken, handled, kept, ending>>

---------------------------------------------------------------------------
(* The end of an operation: its callback, then what recovery does. *)

\* complete, or report_reconnect: the callback may ask for the stop
\* (try_destroy on the worker's own thread).
Complete ==
    /\ At("complete")
    /\ finished' = IF w.cmd.n = 0 THEN finished ELSE Append(finished, w.cmd.n)
    /\ Goto("decide")
    /\ \/ UNCHANGED <<k, woken>>
       \/ k' = [k EXCEPT !.stopping = TRUE] /\ woken' = woken \cup Sleepers
    /\ UNCHANGED <<app, c, inbox, d, drains, freed>>

\* What run_reconnect does after an attempt.
AfterAttempt ==
    CASE k.stopping -> {c}
      [] ~k.stopping /\ w.rc # "OK" -> reconnect_after_failure(c, w.rc, TRUE)
      [] ~k.stopping /\ w.rc = "OK" ->
           CASE w.reason = "accepted" -> {reconnect_cancel(c, FALSE)}
             [] w.reason = "busy" -> {reconnect_schedule(reconnect_backoff(c))}
             [] w.reason = "expired" -> Refreshed(c, reconnect_backoff(c))
             [] w.reason = "denied" -> {[c EXCEPT !.pending = FALSE]}

\* What run_command does after a CONNECT under a resilience policy.
AfterConnect ==
    IF w.rc # "OK" THEN reconnect_after_failure(c, w.rc, FALSE)
    ELSE CASE w.reason = "accepted" -> {reconnect_cancel(c, FALSE)}
           [] w.reason = "busy" -> {reconnect_schedule(c)}
           [] w.reason = "expired" -> Refreshed(c, c)
           [] w.reason = "denied" -> {reconnect_cancel(c, TRUE)}

Decide ==
    /\ At("decide")
    /\ LET policy == c.resilient /\ ~k.stopping
       IN  c' \in CASE w.cmd.n = 0 -> AfterAttempt
                    [] w.cmd.op = "connect" /\ policy -> AfterConnect
                    [] w.cmd.op = "disconnect" -> {reconnect_cancel(c, TRUE)}
                    [] w.cmd.op \notin {"none", "connect", "disconnect"} /\ policy /\ w.rc # "OK" ->
                         reconnect_after_failure(c, w.rc, FALSE)
                    [] OTHER -> {c}
    /\ Goto("pump")
    /\ UNCHANGED <<app, finished, woken, inbox, ending>>

\* report_error for a failure between commands, then recovery.
Report ==
    /\ At("report")
    /\ c' \in reconnect_after_failure(c, w.rc, FALSE)
    /\ Goto("pump")
    /\ UNCHANGED <<app, finished, woken, inbox, ending>>

---------------------------------------------------------------------------
(* Cleanup on the worker, and try_destroy. *)

\* One bounded worker_network_destroy: the native owner is drained or kept for
\* another attempt.
Cleanup ==
    /\ At("cleanup")
    /\ \E st \in {"OK", "EBUSY", "EIO"} :
         /\ st # "OK" => drains < MaxDrains
         /\ drains' = IF st = "OK" THEN drains ELSE drains + 1
         /\ IF st # "OK" /\ k.retry
            THEN k' = [k EXCEPT !.status = st, !.retry = FALSE, !.ready = FALSE]
            ELSE k' = [k EXCEPT !.status = st, !.ready = TRUE, !.complete = st = "OK"]
         /\ c' = IF st = "OK" THEN [c EXCEPT !.dial = "none"] ELSE c
         /\ Goto(CASE st = "OK" -> "exited"
                   [] st # "OK" /\ k.retry -> "cleanup"
                   [] st # "OK" /\ ~k.retry -> "cleanupWait")
    /\ woken' = woken \cup Sleepers
    /\ UNCHANGED <<app, finished, d, freed, inbox>>

CleanupRetry ==
    /\ At("cleanupWait") /\ Worker \in woken
    /\ woken' = woken \ {Worker}
    /\ IF k.retry
       THEN k' = [k EXCEPT !.retry = FALSE, !.ready = FALSE] /\ Goto("cleanup")
       ELSE UNCHANGED <<k, w>>
    /\ UNCHANGED <<app, finished, c, d, drains, freed, inbox>>

\* One pass of try_destroy's loop, holding the mutex: the handshake kk and the
\* caller x before it.
DestroyLoop(t, kk, x) ==
    LET over == ~x.timed \/ x.late
        again == kk.ready /\ kk.status \in {"EBUSY"} /\ ~over
        asked == [kk EXCEPT !.ready = FALSE, !.retry = TRUE]
        out == [pc |-> "out", timed |-> FALSE, late |-> FALSE]
    IN  IF kk.ready /\ kk.status = "OK"
        THEN k' = kk /\ d' = [d EXCEPT ![t] = [x EXCEPT !.pc = "join"]]
        ELSE IF again
        THEN k' = asked /\ d' = [d EXCEPT ![t] = [x EXCEPT !.pc = "wait"]]
        ELSE IF kk.ready \/ over
        THEN k' = [kk EXCEPT !.busy = FALSE] /\ d' = [d EXCEPT ![t] = out]
        ELSE k' = kk /\ d' = [d EXCEPT ![t] = [x EXCEPT !.pc = "wait"]]

\* try_destroy: one caller at a time; a failed result already posted is turned
\* into a request for another attempt.
TryDestroy(t, timed) ==
    /\ freed = 0 /\ d[t].pc = "out" /\ ~k.busy
    /\ LET failed == k.ready /\ ~k.complete
       IN  DestroyLoop(t, [k EXCEPT !.busy = TRUE, !.stopping = TRUE,
                                    !.ready = @ /\ ~failed, !.retry = @ \/ failed],
                       [pc |-> "in", timed |-> timed, late |-> FALSE])
    /\ woken' = woken \cup Sleepers
    /\ UNCHANGED <<app, finished, c, w, inbox, drains, freed>>

\* The timed wait returns, woken or at the caller's deadline.
DestroyWakes(t, late) ==
    /\ d[t].pc = "wait" /\ (late \/ t \in woken)
    /\ DestroyLoop(t, k, [d[t] EXCEPT !.late = late])
    /\ woken' = (woken \cup IF k'.retry /\ ~k.retry THEN Sleepers ELSE {}) \ {t}
    /\ UNCHANGED <<app, finished, c, w, inbox, drains, freed>>

\* The worker is joined; finalize releases the client.
DestroyJoin(t) ==
    /\ d[t].pc = "join" /\ At("exited")
    /\ freed' = freed + 1
    /\ d' = [d EXCEPT ![t].pc = "out"]
    /\ UNCHANGED <<app, finished, c, w, k, woken, inbox, drains>>

---------------------------------------------------------------------------
WorkerStep ==
    \/ PumpStop \/ PumpCommand \/ PumpEmpty \/ PumpNext \/ Wake \/ WakeBackoff
    \/ StartConnect \/ StartReconnect \/ DialUp \/ DialFails
    \/ StartRefused \/ StartSend \/ StartSendFails \/ StartDisconnect
    \/ Answered \/ Connected \/ Refused \/ WaitFails \/ Disconnected \/ Interrupted
    \/ \E i \in plan.ids : handle_publish(i) \/ handle_pubrel(i)
    \/ Complete \/ Decide \/ Report \/ Cleanup \/ CleanupRetry

Next ==
    \/ plan.batches # << >> /\ Submit(Head(plan.batches))
    \/ \E v \in plan.versions : SetVersion(v)
    \/ WorkerStep
    \/ DelayOver
    \/ \E t \in plan.destroyers, timed \in BOOLEAN : TryDestroy(t, timed)
    \/ \E t \in Destroyers, late \in BOOLEAN : DestroyWakes(t, late)
    \/ \E t \in Destroyers : DestroyJoin(t)

\* The worker runs: each of its waits is bounded by a deadline or ended by a
\* wake-up.  The clock advances.  An application that began to stop the client
\* keeps calling try_destroy until it succeeds.
Fairness ==
    /\ WF_vars(WorkerStep)
    /\ WF_vars(DelayOver)
    /\ \A t \in Destroyers : /\ WF_vars(\E late \in BOOLEAN : DestroyWakes(t, late))
                             /\ WF_vars(DestroyJoin(t))
    /\ WF_vars(k.stopping /\ \E t \in plan.destroyers : TryDestroy(t, TRUE))

Spec == Init /\ [][Next]_vars /\ Fairness

---------------------------------------------------------------------------
(* Properties. *)

\* Every part of the client's state keeps its kind, the queue and the inbound
\* QoS 2 set their configured sizes, and every accepted versioned command the
\* one version the client selected.
TypeOK ==
    /\ Len(queue) <= Capacity /\ accepted \in Nat
    /\ \A i \in 1 .. Len(queue) :
         queue[i].version = IF queue[i].op \in Versioned THEN c.selected ELSE 0
    /\ c.state \in {"down", "transport", "up"} /\ c.dial \in {"none", "live", "closing"}
    /\ c.qos2 \subseteq Ids /\ Cardinality(c.qos2) <= MaxInboundQos2
    /\ c.attempt \in 0 .. MaxAttempts /\ c.delay \in 1 .. MaxDelay
    /\ woken \subseteq Destroyers \cup {Worker}

\* The command the worker has taken from the queue and not completed.
Running ==
    IF w.cmd.n # 0 /\ w.pc \in {"command", "dial", "await", "complete"}
    THEN <<w.cmd.n>> ELSE << >>

\* An accepted command is completed exactly once, in the order of acceptance,
\* and by the time the worker leaves its loop all of them are: none is lost to
\* a stop, a lost connection or a reconnect between two commands.  The client
\* is released once, after its worker has ended with every native resource
\* returned, and no other caller is then inside try_destroy.
CompletedOnceInOrder ==
    /\ TypeOK
    /\ freed <= 1
    /\ freed = 1 => /\ At("exited") /\ c.dial = "none" /\ queue = << >>
                    /\ \A t \in Destroyers : d[t].pc = "out"
    /\ finished \o Running \o Numbers(queue) = [i \in 1 .. accepted |-> i]
    /\ w.pc \in {"cleanup", "cleanupWait", "exited"} => Len(finished) = accepted

\* Automatic recovery is scheduled only while the client is disconnected, with
\* a CONNECT to repeat and attempts left; and the CONNECT it would repeat is
\* the one the live connection was made with, whatever was submitted since.
\* The handlers see a QoS 2 message at most once in a connection, however often
\* it is sent again, and the broker is told it was received only when a handler
\* accepted it.
RecoverySound ==
    /\ c.pending => /\ c.resilient /\ c.state = "down" /\ c.retained # 0
                    /\ c.attempt < MaxAttempts
    /\ c.resilient /\ c.state = "up" => c.retained = c.session
    /\ \A i \in Ids :
       /\ handled[i] <= 1
       /\ broker[i] \in {"recd", "released", "done"} => i \in kept

\* Every accepted command is eventually completed, even when its signal wakes a
\* thread other than the worker or the client is stopped meanwhile; and once
\* stopped, which is for good, the client is eventually released: no request for
\* another cleanup attempt and no result of one is lost between worker and caller.
EveryCommandCompletes ==
    /\ []<>(Len(finished) = accepted)
    /\ []<>(k.stopping => freed = 1)

===========================================================================
