------------------------- MODULE FlowieClusterLink -------------------------
(* A link between two cluster nodes: the registry that routes the sends of
   the dialing node, the bounded queue of the link, the thread that runs it
   (handshake, then sending and receiving on one connection), and the frames
   that arrive at the other end in pieces.  CNet, the network library, is
   external: its events reach a link only while the link polls.            *)
EXTENDS Integers, Sequences, FiniteSets, SequencesExt

CONSTANTS
  Msgs,           \* frames the dialing node is asked to send
  Size,           \* Size[f], in units, of every frame; MaxFrame at most
  MaxFrame,       \* capacity of a receive buffer
  ReceiveMax,     \* units the network hands over at once
  QueueEntries,   \* queue_entries of a link
  MaxInflight,    \* max_inflight_sends of the registry
  LinkScenarios   \* [boot, expects, authorized, owners, faults]

ASSUME LinkAssumption ==
  /\ QueueEntries \in Nat \ {0} /\ MaxInflight \in Nat \ {0} /\ ReceiveMax \in Nat \ {0}
  /\ \A f \in Msgs \cup {"HELLO", "HELLO_ACK"} : Size[f] \in 1 .. MaxFrame

VARIABLES
  scen,   \* boots, who is authorized, how many faults are left
  link,   \* the two link objects and where their threads are
  wire,   \* bytes under way to each end; whether the connection is open
  reg,    \* the registry of the dialing node
  snd,    \* where each send is
  log     \* frames written by the dialing end, frames received at the other

linkVars == <<scen, link, wire, reg, snd, log>>

Ends == {"dial", "accept"}
Other(e) == IF e = "dial" THEN "accept" ELSE "dial"
Units(f) == [i \in 1 .. Size[f] |-> <<f, i>>]

NewLink == [state |-> "CREATED", pc |-> "new", rc |-> "OK", net |-> "none", status |-> "OK",
            queue |-> <<>>, pending |-> 0, current |-> "none", buffer |-> <<>>,
            polled |-> FALSE, closing |-> FALSE, freed |-> FALSE]

LinkInit ==
  /\ scen \in LinkScenarios
  /\ link = [e \in Ends |-> NewLink]
  /\ wire = [to |-> [e \in Ends |-> <<>>], open |-> TRUE]
  /\ reg = [entry |-> "FREE", inflight |-> 0, total |-> 0, closing |-> FALSE, drained |-> FALSE,
            freed |-> FALSE]
  /\ snd = [m \in Msgs |-> [at |-> "new", status |-> "none", completions |-> 0]]
  /\ log = [written |-> <<>>, received |-> <<>>]

----------------------------------------------------------------------------
(* The thread of a link.                                                   *)

\* flowie_cluster_peer_link_run: the observer is bound and the state checked.
Run(e) ==
  /\ link[e].pc = "new" /\ link[e].state = "CREATED" /\ ~link[e].freed
  /\ link' = [link EXCEPT ![e].state = "HANDSHAKING", ![e].pc = "connect"]
  /\ UNCHANGED <<scen, wire, reg, snd, log>>

\* CNet state events, taken in a poll: connected, or closed for good.  What
\* was under way to an end that learns of the close is lost.
Connected(e) ==
  /\ link[e].pc = "connect" /\ wire.open /\ link[e].status = "OK"
  /\ link' = [link EXCEPT ![e].net = "up", ![e].pc = IF e = "dial" THEN "hello" ELSE "greet"]
  /\ UNCHANGED <<scen, wire, reg, snd, log>>

Terminal(e) ==
  /\ link[e].pc \in {"connect", "greet", "receive", "shut"} /\ ~link[e].polled
  /\ ~wire.open /\ link[e].net # "terminal"
  /\ link' = [link EXCEPT ![e].net = "terminal", ![e].status = "ECONNRESET",
                          ![e].polled = link[e].pc \in {"greet", "receive"}]
  /\ wire' = [wire EXCEPT !.to[e] = <<>>]
  /\ UNCHANGED <<scen, reg, snd, log>>

\* send_bytes: the bytes are on their way, or the connection is gone; when it
\* is lost meanwhile the bytes may arrive although the send fails.
send_bytes(e, f, rc) ==
  LET up == wire.open /\ link[e].net = "up" /\ link[e].status = "OK"
      sent == [wire EXCEPT !.to[Other(e)] = @ \o Units(f)]
  IN \/ /\ up /\ rc = "OK"
        /\ wire' = sent /\ UNCHANGED scen
     \/ /\ ~up /\ rc = "ECONNRESET"
        /\ UNCHANGED <<wire, scen>>
     \/ /\ up /\ scen.faults > 0 /\ rc = "ECONNRESET"
        /\ wire' = [sent EXCEPT !.open = FALSE]
        /\ scen' = [scen EXCEPT !.faults = @ - 1]

SendHello ==
  /\ link["dial"].pc = "hello"
  /\ \E rc \in {"OK", "ECONNRESET"} :
       /\ send_bytes("dial", "HELLO", rc)
       /\ link' = [link EXCEPT !["dial"].rc = rc,
                               !["dial"].pc = IF rc = "OK" THEN "greet" ELSE "shutdown"]
  /\ UNCHANGED <<reg, snd, log>>

\* decode_buffer: the frame at the front of the receive buffer, once all of
\* it is there; what follows it moves to the front.
Ready(e) ==
  LET b == link[e].buffer
  IN IF b = <<>> \/ Len(b) < Size[b[1][1]] THEN "none" ELSE b[1][1]
Consumed(e) == SubSeq(link[e].buffer, Size[Ready(e)] + 1, Len(link[e].buffer))

\* The poll of receive_next: bytes may arrive, as many as the network has,
\* and a view that does not fit beside what is buffered fails the link.
Interrupted(e) == link[e].state = "CLOSING" \/ link[e].pending # 0

network_receive(l, units) ==
  IF Len(l.buffer) + Len(units) > MaxFrame
  THEN [l EXCEPT !.status = "EMSGSIZE", !.polled = TRUE]
  ELSE [l EXCEPT !.buffer = @ \o units, !.polled = TRUE]

Poll(e) ==
  /\ link[e].pc \in {"greet", "receive"} /\ Ready(e) = "none" /\ ~link[e].polled
  /\ link[e].status = "OK"
  /\ \E k \in 0 .. Min({ReceiveMax, Len(wire.to[e])}) :
       /\ k > 0 \/ Interrupted(e)
       /\ wire' = [wire EXCEPT !.to[e] = SubSeq(@, k + 1, Len(@))]
       /\ link' = [link EXCEPT ![e] = IF k = 0 THEN [@ EXCEPT !.polled = TRUE]
                                      ELSE network_receive(@, SubSeq(wire.to[e], 1, k))]
  /\ UNCHANGED <<scen, reg, snd, log>>

\* After a poll a closing link or a waiting send ends the wait; during the
\* handshake only a closing link does.
CheckInterrupt(e) ==
  /\ link[e].polled
  /\ link' = [link EXCEPT
       ![e].polled = FALSE,
       ![e].pc = IF ~Interrupted(e) THEN @
                 ELSE IF @ = "receive" THEN "loop"
                 ELSE IF link[e].state = "CLOSING" THEN "shutdown" ELSE @,
       ![e].rc = IF link[e].pc = "greet" /\ link[e].state = "CLOSING" THEN "ECANCELED" ELSE @]
  /\ UNCHANGED <<scen, wire, reg, snd, log>>

ReceiveFails(e) ==
  /\ link[e].pc \in {"connect", "greet", "receive"} /\ Ready(e) = "none" /\ ~link[e].polled
  /\ link[e].status # "OK"
  /\ link' = [link EXCEPT ![e].rc = link[e].status, ![e].pc = "shutdown"]
  /\ UNCHANGED <<scen, wire, reg, snd, log>>

\* The handshake: the dialing end names the boot it expects; the accepting
\* end checks target, channel binding and certificate, learns its peer and
\* answers; the dialing end checks the answer the same way.
handshake_refused(e, f) ==
  IF e = "accept"
  THEN f # "HELLO" \/ scen.expects # scen.boot \/ "dial" \notin scen.authorized
  ELSE f # "HELLO_ACK" \/ "accept" \notin scen.authorized

Handshake(e) ==
  /\ link[e].pc = "greet" /\ Ready(e) # "none" /\ ~link[e].polled
  /\ LET refused == handshake_refused(e, Ready(e))
     IN \E rc \in {"OK", "ECONNRESET", "EPROTO"} :
          /\ IF refused \/ e = "dial"
             THEN rc = (IF refused THEN "EPROTO" ELSE "OK") /\ UNCHANGED <<wire, scen>>
             ELSE send_bytes(e, "HELLO_ACK", rc)
          /\ link' = [link EXCEPT ![e].buffer = Consumed(e), ![e].rc = rc,
                                  ![e].pc = IF rc = "OK" THEN "settle" ELSE "shutdown"]
  /\ UNCHANGED <<reg, snd, log>>

Settle(e) ==
  /\ link[e].pc = "settle"
  /\ link' = [link EXCEPT ![e].state = IF @ = "HANDSHAKING" THEN "ACTIVE" ELSE @, ![e].pc = "active"]
  /\ UNCHANGED <<scen, wire, reg, snd, log>>

\* The active callback of the dialing end registers the link; the frames of
\* the accepting end are not modelled, it only receives.
registry_register == [reg EXCEPT !.entry = "ACTIVE", !.drained = FALSE]

Activate(e) ==
  /\ link[e].pc = "active"
  /\ LET refused == e = "dial" /\ reg.closing
     IN /\ reg' = IF e = "accept" \/ refused THEN reg ELSE registry_register
        /\ link' = [link EXCEPT ![e].rc = IF refused THEN "ESHUTDOWN" ELSE @,
                                ![e].pc = IF refused THEN "shutdown" ELSE "loop"]
  /\ UNCHANGED <<scen, wire, snd, log>>

\* The head of the loop: waiting sends first, then a close, then receiving.
Loop(e) ==
  /\ link[e].pc = "loop"
  /\ link' = [link EXCEPT ![e].pc = IF link[e].pending # 0 THEN "drain"
                                    ELSE IF link[e].state = "CLOSING" THEN "shutdown" ELSE "receive"]
  /\ UNCHANGED <<scen, wire, reg, snd, log>>

ReceiveFrame(e) ==
  /\ link[e].pc = "receive" /\ Ready(e) # "none" /\ ~link[e].polled
  /\ link' = [link EXCEPT ![e].buffer = Consumed(e), ![e].pc = "loop"]
  /\ log' = [log EXCEPT !.received = Append(@, Ready(e))]
  /\ UNCHANGED <<scen, wire, reg, snd>>

\* drain_one: pop the oldest send and write it out.
DrainOne(e) ==
  /\ link[e].pc = "drain"
  /\ LET m == Head(link[e].queue)
     IN \E rc \in {"OK", "ECONNRESET"} :
          /\ send_bytes(e, m, rc)
          /\ link' = [link EXCEPT ![e].queue = Tail(@), ![e].current = m,
                                  ![e].rc = rc, ![e].pc = "account"]
          /\ log' = IF wire' # wire THEN [log EXCEPT !.written = Append(@, m)] ELSE log
  /\ UNCHANGED <<reg, snd>>

complete_account(l) == [l EXCEPT !.pending = @ - 1]

Account(e) ==
  /\ link[e].pc \in {"account", "failAccount"}
  /\ link' = [link EXCEPT ![e] = [complete_account(@) EXCEPT
                !.pc = IF @ = "account" THEN "complete" ELSE "failComplete"]]
  /\ UNCHANGED <<scen, wire, reg, snd, log>>

\* registry_complete: the caller's callback first, then the counters.
registry_complete ==
  [reg EXCEPT !.inflight = @ - 1, !.total = @ - 1,
              !.drained = @ \/ (reg.closing /\ reg.total = 1)]

Complete(e) ==
  /\ link[e].pc \in {"complete", "failComplete"}
  /\ LET m == link[e].current
     IN /\ snd' = [snd EXCEPT ![m] = [at |-> "done", status |-> link[e].rc, completions |-> @.completions + 1]]
        /\ reg' = registry_complete
        /\ link' = [link EXCEPT ![e].current = "none",
                                ![e].pc = IF @ = "failComplete" THEN "fail"
                                          ELSE IF link[e].rc = "OK" THEN "loop" ELSE "shutdown"]
  /\ UNCHANGED <<scen, wire, log>>

\* The transport is shut down: closed unless it already is, then polled until
\* the network reports it closed.
Shutdown(e) ==
  /\ link[e].pc = "shutdown"
  /\ wire' = [wire EXCEPT !.open = @ /\ link[e].net = "terminal"]
  /\ link' = [link EXCEPT ![e].pc = "shut"]
  /\ UNCHANGED <<scen, reg, snd, log>>

\* A failed run closes admission and fails what is queued; any run ends closed.
ShutdownDone(e) ==
  /\ link[e].pc = "shut" /\ link[e].net = "terminal"
  /\ link' = [link EXCEPT ![e].state = IF link[e].rc = "OK" THEN @ ELSE "CLOSING",
                          ![e].pc = IF link[e].rc = "OK" THEN "closed" ELSE "fail"]
  /\ UNCHANGED <<scen, wire, reg, snd, log>>

FailPending(e) ==
  /\ link[e].pc = "fail"
  /\ link' = [link EXCEPT ![e].queue = IF @ = <<>> THEN @ ELSE Tail(@),
                          ![e].current = IF link[e].queue = <<>> THEN @ ELSE Head(link[e].queue),
                          ![e].pc = IF link[e].queue = <<>> THEN "closed" ELSE "failAccount"]
  /\ UNCHANGED <<scen, wire, reg, snd, log>>

RunReturns(e) ==
  /\ link[e].pc = "closed"
  /\ link' = [link EXCEPT ![e].state = "CLOSED", ![e].pc = "returned"]
  /\ UNCHANGED <<scen, wire, reg, snd, log>>

----------------------------------------------------------------------------
(* What other threads do to the link and through the registry.             *)

\* peer_link_close: the state under the lock, the connection after it.
CloseMark(e) ==
  /\ e \in scen.owners /\ ~link[e].freed /\ ~link[e].closing /\ link[e].state \notin {"CLOSING", "CLOSED"}
  /\ link' = [link EXCEPT ![e].state = IF @ = "CREATED" THEN "CLOSED" ELSE "CLOSING",
                          ![e].closing = link[e].state # "CREATED"]
  /\ UNCHANGED <<scen, wire, reg, snd, log>>

CloseNetwork(e) ==
  /\ link[e].closing
  /\ wire' = [wire EXCEPT !.open = FALSE]
  /\ link' = [link EXCEPT ![e].closing = FALSE]
  /\ UNCHANGED <<scen, reg, snd, log>>

\* peer_link_destroy, as the header asks: after run has returned, no close is
\* under way and the link is unregistered.
Destroy(e) ==
  /\ e \in scen.owners /\ ~link[e].freed /\ link[e].state \notin {"HANDSHAKING", "ACTIVE", "CLOSING"}
  /\ link[e].pc \in {"new", "returned"} /\ ~link[e].closing
  /\ e = "dial" => reg.entry = "FREE"
  /\ link' = [link EXCEPT ![e].freed = TRUE]
  /\ UNCHANGED <<scen, wire, reg, snd, log>>

\* peer_registry_send, in three steps: a place is reserved under the lock of
\* the registry; the link accepts or refuses the frame under its own; a
\* refusal (full queue, closing link, failed wake, no memory) gives it back.
registry_send_refused == reg.closing \/ reg.entry # "ACTIVE" \/ reg.total >= MaxInflight

Reserve(m) ==
  /\ snd[m].at = "new" /\ ~reg.freed
  /\ reg' = IF registry_send_refused THEN reg
            ELSE [reg EXCEPT !.inflight = @ + 1, !.total = @ + 1, !.drained = FALSE]
  /\ snd' = [snd EXCEPT ![m].at = IF registry_send_refused THEN "refused" ELSE "reserved"]
  /\ UNCHANGED <<scen, link, wire, log>>

LinkSend(m) ==
  /\ snd[m].at = "reserved"
  /\ LET l == link["dial"]
         full == l.state # "ACTIVE" \/ l.pending >= QueueEntries
     IN \/ /\ ~full
           /\ link' = [link EXCEPT !["dial"].queue = Append(@, m), !["dial"].pending = @ + 1]
           /\ snd' = [snd EXCEPT ![m].at = "queued"] /\ UNCHANGED scen
        \/ /\ full
           /\ snd' = [snd EXCEPT ![m].at = "unreserve"] /\ UNCHANGED <<link, scen>>
        \/ /\ scen.faults > 0
           /\ scen' = [scen EXCEPT !.faults = @ - 1]
           /\ snd' = [snd EXCEPT ![m].at = "unreserve"] /\ UNCHANGED link
  /\ UNCHANGED <<wire, reg, log>>

Unreserve(m) ==
  /\ snd[m].at = "unreserve"
  /\ reg' = [reg EXCEPT !.inflight = @ - 1, !.total = @ - 1]
  /\ snd' = [snd EXCEPT ![m].at = "refused"]
  /\ UNCHANGED <<scen, link, wire, log>>

registry_unregister_Forget == [reg EXCEPT !.entry = "FREE"]

\* Mutant: the entry stays, although nothing is under way.
registry_unregister_Keep == [reg EXCEPT !.entry = "DRAINING"]

registry_unregister ==
  IF reg.inflight # 0 THEN [reg EXCEPT !.entry = "DRAINING"] ELSE [reg EXCEPT !.entry = "FREE"]

Unregister ==
  /\ ~reg.freed /\ reg.entry # "FREE"
  /\ reg' = registry_unregister
  /\ UNCHANGED <<scen, link, wire, snd, log>>

RegistryClose ==
  /\ ~reg.freed /\ ~reg.closing
  /\ reg' = [reg EXCEPT !.closing = TRUE, !.drained = reg.total = 0]
  /\ UNCHANGED <<scen, link, wire, snd, log>>

RegistryDrain ==
  /\ ~reg.freed /\ reg.closing /\ reg.total = 0
  /\ reg' = [reg EXCEPT !.drained = TRUE]
  /\ UNCHANGED <<scen, link, wire, snd, log>>

registry_ready == reg.closing /\ reg.drained /\ reg.total = 0 /\ reg.entry = "FREE"

RegistryDestroy ==
  /\ ~reg.freed /\ registry_ready
  /\ reg' = [reg EXCEPT !.freed = TRUE]
  /\ UNCHANGED <<scen, link, wire, snd, log>>

\* The connection is lost.
Lost ==
  /\ scen.faults > 0 /\ wire.open
  /\ wire' = [wire EXCEPT !.open = FALSE]
  /\ scen' = [scen EXCEPT !.faults = @ - 1]
  /\ UNCHANGED <<link, reg, snd, log>>

Worker(e) ==
  \/ Connected(e) \/ Terminal(e) \/ Poll(e) \/ CheckInterrupt(e) \/ ReceiveFails(e)
  \/ Handshake(e) \/ Settle(e) \/ Activate(e) \/ Loop(e) \/ ReceiveFrame(e) \/ DrainOne(e)
  \/ Account(e) \/ Complete(e) \/ Shutdown(e) \/ ShutdownDone(e) \/ FailPending(e) \/ RunReturns(e)

Caller == (\E m \in Msgs : LinkSend(m) \/ Unreserve(m)) \/ Unregister \/ RegistryDrain \/ RegistryDestroy

LinkNext ==
  \/ \E e \in Ends : Run(e) \/ Worker(e) \/ CloseMark(e) \/ CloseNetwork(e) \/ Destroy(e)
  \/ SendHello \/ Lost \/ RegistryClose \/ Caller
  \/ \E m \in Msgs : Reserve(m)

LinkSpec == LinkInit /\ [][LinkNext]_linkVars

\* A link thread runs once its turn comes, CNet reports what happened to a
\* connection, a send that started goes on, and the owner that closed the
\* registry keeps draining, unregistering and destroying it.
LinkFairness ==
  /\ \A e \in Ends : WF_linkVars(Worker(e)) /\ WF_linkVars(CloseNetwork(e))
  /\ WF_linkVars(SendHello)
  /\ \A m \in Msgs : WF_linkVars(LinkSend(m)) /\ WF_linkVars(Unreserve(m))
  /\ WF_linkVars(reg.closing /\ Unregister)
  /\ WF_linkVars(RegistryDrain) /\ WF_linkVars(RegistryDestroy)

----------------------------------------------------------------------------
InFlight == {m \in Msgs : snd[m].at \in {"reserved", "unreserve", "queued"}}

(* The registry counts exactly the sends that were admitted and have not been
   settled; each of them is with its sender, in the queue of the link or in
   the hands of its thread; a send is completed once if the link took it and
   never if it was refused; and while one is under way neither the registry
   nor the link it points to is freed.  Frames come out of the byte stream
   whole and in the order they were written, however the network cut it,
   only between ends that passed the handshake; a send reported done was
   written.                                                                *)
SendsSettled ==
  /\ reg.total = Cardinality(InFlight) /\ reg.inflight = reg.total
  /\ \A m \in Msgs : snd[m].completions = (IF snd[m].at = "done" THEN 1 ELSE 0)
  /\ \A m \in Msgs : (snd[m].at = "queued") =
       (link["dial"].current = m \/ \E i \in DOMAIN link["dial"].queue : link["dial"].queue[i] = m)
  /\ link["dial"].pending = Len(link["dial"].queue)
       + (IF link["dial"].pc \in {"account", "failAccount"} THEN 1 ELSE 0)
  /\ link["dial"].pending <= QueueEntries /\ reg.total <= MaxInflight
  /\ InFlight # {} => ~reg.freed /\ ~link["dial"].freed
  /\ IsPrefix(log.received, log.written)
  /\ log.written # <<>> => /\ scen.boot = scen.expects /\ scen.authorized = Ends
  /\ \A m \in Msgs : snd[m].status = "OK" => \E i \in DOMAIN log.written : log.written[i] = m

(* A registry that is closed, which is for good, is in the end drained,
   unregistered and freed, whatever the link and its peer are doing.       *)
RegistryCloses == []<>(reg.closing => reg.freed)
============================================================================
