------------------------- MODULE FlowieConnection -------------------------
(***************************************************************************)
(* The stream listener (connection/src/flowie_connection.c) over TCP/TLS:  *)
(* fixed owner threads, each with its own network client, peer table and   *)
(* command mailbox; one accept thread that hands accepted streams to an    *)
(* owner through a bounded handoff; a control thread that starts, stops    *)
(* and destroys the group; and application threads that submit commands    *)
(* for a connection handle.  With one owner there is no accept thread and  *)
(* no handoff: the owner accepts for itself.                               *)
(*                                                                         *)
(* CNet (client, manager, listener, handoff, placement) is external.       *)
(***************************************************************************)
EXTENDS Naturals, Sequences, FiniteSets

CONSTANTS MaxOwners,        \* the largest group of a scenario
          Groups,        \* records [owners, streams, submits, faults]: network_workers,
                            \* and bounds on the clients that connect, the commands
                            \* submitted and the failures of the platform
          Slots,            \* peer slots of an owner: 1 .. connection_capacity
          CommandCapacity,  \* command_capacity
          MaxStreams        \* the most clients of a scenario

ASSUME ConnectionAssumption ==
    /\ MaxOwners \in Nat \ {0} /\ MaxStreams \in Nat
    /\ \A sc \in Groups : sc.owners \in 1 .. MaxOwners /\ sc.streams \in 0 .. MaxStreams
    /\ Slots \in SUBSET Nat /\ Slots # {} /\ CommandCapacity \in Nat \ {0}

VARIABLES n,           \* owner_count
          own,         \* each owner's flags and where its worker is
          peers,       \* each owner's peer table
          handoff,     \* each owner's accepted streams on their way
          mail,        \* each owner's command mailbox
          wakers,      \* threads holding a wake lease on an owner's client
          group,       \* the owner a thread's group stop has come to, or 0
          acc,         \* the accept thread
          ctl,         \* the control thread
          snd,         \* the application thread
          streams,     \* each client connection
          called,      \* handles on_open was called for
          closed,      \* handles on_close was called for
          submits,     \* bound: commands still to be submitted
          faults       \* bound: failures still to come

connVars == <<n, own, peers, handoff, mail, wakers, group, acc, ctl, snd, streams,
          called, closed, submits, faults>>

Owners == 1 .. MaxOwners
Streams == 1 .. MaxStreams
Group == 1 .. n
Acceptor == MaxOwners + 1
Controller == MaxOwners + 2
Sender == MaxOwners + 3
Threads == 1 .. Sender

callbacks == <<called, closed>>
bounds == <<n, submits, faults>>

\* A peer slot without a connection; the generation survives.
Empty(gen) == [used |-> FALSE, opened |-> FALSE, phase |-> "none", stream |-> 0,
               ticket |-> FALSE, gen |-> gen]

ConnInit ==
    /\ \E sc \in Groups :
         /\ n = sc.owners /\ submits = sc.submits /\ faults = sc.faults
         /\ streams = [x \in Streams |-> IF x <= sc.streams THEN "away" ELSE "closed"]
    /\ own = [o \in Owners |-> [pc |-> "none", stop |-> FALSE, init |-> FALSE,
                                closing |-> FALSE, status |-> "OK", ready |-> FALSE,
                                started |-> FALSE, thread |-> FALSE, done |-> FALSE]]
    /\ peers = [o \in Owners |-> [s \in Slots |-> Empty(0)]]
    /\ handoff = [o \in Owners |-> [sealed |-> FALSE, reserved |-> 0, queue |-> << >>]]
    /\ mail = [o \in Owners |-> << >>]
    /\ wakers = [o \in Owners |-> {}]
    /\ group = [t \in Threads |-> 0]
    /\ acc = [pc |-> "none", owner |-> 0, stream |-> 0, status |-> "OK",
              done |-> FALSE, thread |-> FALSE]
    /\ ctl = [pc |-> "start", i |-> 1]
    /\ snd = [pc |-> "out", owner |-> 0]
    /\ called = {} /\ closed = {}

---------------------------------------------------------------------------
(* Stop requests and wake leases. *)

Fault == faults > 0 /\ faults' = faults - 1

\* Streams reserved, queued or taken: what bounds a handoff.
Occupied(o) ==
    handoff[o].reserved + Len(handoff[o].queue)
      + Cardinality({s \in Slots : peers[o][s].ticket})

\* flowie_stream_wake may touch the client only under a lease.
MayWake(o) == own[o].init /\ ~own[o].closing

After(o) == IF o = n THEN 0 ELSE o + 1

\* group_request_stop, owner by owner: the flag, the seal, then the wake.
request_stop(t) ==
    LET o == group[t]
    IN  /\ o # 0 /\ t \notin wakers[o]
        /\ own' = [own EXCEPT ![o].stop = TRUE]
        /\ handoff' = [handoff EXCEPT ![o].sealed = TRUE]
        /\ IF MayWake(o)
           THEN wakers' = [wakers EXCEPT ![o] = @ \cup {t}] /\ UNCHANGED group
           ELSE group' = [group EXCEPT ![t] = After(o)] /\ UNCHANGED wakers
        /\ UNCHANGED <<peers, mail, acc, ctl, snd, streams, callbacks, bounds>>

request_stop_woken(t) ==
    LET o == group[t]
    IN  /\ o # 0 /\ t \in wakers[o]
        /\ wakers' = [wakers EXCEPT ![o] = @ \ {t}]
        /\ group' = [group EXCEPT ![t] = After(o)]
        /\ UNCHANGED <<own, peers, handoff, mail, acc, ctl, snd, streams, callbacks, bounds>>

---------------------------------------------------------------------------
(* The accept thread: owner_reserve and accept_worker. *)

AcceptStop ==
    /\ acc.pc = "wait" /\ own[1].stop
    /\ acc' = [acc EXCEPT !.pc = "close"]
    /\ UNCHANGED <<own, peers, handoff, mail, wakers, group, ctl, snd, streams, callbacks, bounds>>

\* A client is waiting: reserve room at an owner before accepting it.  With
\* every owner full it stays in the backlog; a sealed handoff ends the thread.
owner_reserve ==
    /\ acc.pc = "wait" /\ ~own[1].stop
    /\ \E x \in Streams : streams[x] = "away"
    /\ \/ \E o \in Group :
            /\ ~handoff[o].sealed /\ Occupied(o) < Cardinality(Slots)
            /\ handoff' = [handoff EXCEPT ![o].reserved = @ + 1]
            /\ acc' = [acc EXCEPT !.pc = "reserved", !.owner = o]
       \/ /\ \E o \in Group : handoff[o].sealed
          /\ acc' = [acc EXCEPT !.pc = "close"]
          /\ UNCHANGED handoff
    /\ UNCHANGED <<own, peers, mail, wakers, group, ctl, snd, streams, callbacks, bounds>>

Unreserve(o) == handoff' = [handoff EXCEPT ![o].reserved = @ - 1]

\* accept_detached: a stream; or none after all, and the reservation is given
\* back; or the listener fails.
AcceptStream ==
    /\ acc.pc = "reserved"
    /\ \/ \E x \in Streams :
            /\ streams[x] = "away"
            /\ streams' = [streams EXCEPT ![x] = "held"]
            /\ acc' = [acc EXCEPT !.pc = "publish", !.stream = x]
            /\ UNCHANGED <<handoff, bounds>>
       \/ /\ Unreserve(acc.owner)
          /\ acc' = [acc EXCEPT !.pc = "wait"]
          /\ UNCHANGED <<streams, bounds>>
       \/ /\ Unreserve(acc.owner) /\ Fault
          /\ acc' = [acc EXCEPT !.pc = "close", !.status = "EIO"]
          /\ UNCHANGED <<streams, n, submits>>
    /\ UNCHANGED <<own, peers, mail, wakers, group, ctl, snd, callbacks>>

\* Mutant: a stream refused by a sealed handoff is not closed.
AcceptPublish_Leak ==
    LET o == acc.owner
    IN  /\ acc.pc = "publish"
        /\ handoff' = [handoff EXCEPT ![o].reserved = @ - 1,
                          ![o].queue = IF handoff[o].sealed THEN @ ELSE Append(@, acc.stream)]
        /\ acc' = [acc EXCEPT !.pc = IF handoff[o].sealed THEN "close" ELSE "wake",
                              !.stream = 0]
        /\ UNCHANGED <<own, peers, mail, wakers, group, ctl, snd, streams, callbacks, bounds>>

\* handoff_publish moves the stream to its owner, unless the handoff was sealed
\* meanwhile: then the stream is closed and the thread ends.
AcceptPublish ==
    LET o == acc.owner
    IN  /\ acc.pc = "publish"
        /\ IF handoff[o].sealed
           THEN /\ Unreserve(o)
                /\ streams' = [streams EXCEPT ![acc.stream] = "closed"]
                /\ acc' = [acc EXCEPT !.pc = "close", !.stream = 0]
           ELSE /\ handoff' = [handoff EXCEPT ![o].reserved = @ - 1,
                                              ![o].queue = Append(@, acc.stream)]
                /\ acc' = [acc EXCEPT !.pc = "wake", !.stream = 0]
                /\ UNCHANGED streams
        /\ UNCHANGED <<own, peers, mail, wakers, group, ctl, snd, callbacks, bounds>>

\* The owner is woken under a lease.  Publication stands even when this fails.
AcceptWake ==
    LET o == acc.owner
    IN  /\ acc.pc = "wake"
        /\ IF MayWake(o)
           THEN /\ wakers' = [wakers EXCEPT ![o] = @ \cup {Acceptor}]
                /\ acc' = [acc EXCEPT !.pc = "woken"]
           ELSE /\ acc' = [acc EXCEPT !.pc = "close",
                                      !.status = IF own[1].stop THEN "OK" ELSE "ESHUTDOWN"]
                /\ UNCHANGED wakers
        /\ UNCHANGED <<own, peers, handoff, mail, group, ctl, snd, streams, callbacks, bounds>>

AcceptWoken ==
    /\ acc.pc = "woken"
    /\ wakers' = [wakers EXCEPT ![acc.owner] = @ \ {Acceptor}]
    /\ \/ acc' = [acc EXCEPT !.pc = "wait"] /\ UNCHANGED bounds
       \/ acc' = [acc EXCEPT !.pc = "close", !.status = "EIO"] /\ Fault /\ UNCHANGED <<n, submits>>
    /\ UNCHANGED <<own, peers, handoff, mail, group, ctl, snd, streams, callbacks>>

\* The listener is closed; after a failure the whole group is stopped.
AcceptClose ==
    /\ acc.pc = "close"
    /\ acc' = [acc EXCEPT !.pc = "group"]
    /\ group' = [group EXCEPT ![Acceptor] = IF acc.status = "OK" THEN 0 ELSE 1]
    /\ UNCHANGED <<own, peers, handoff, mail, wakers, ctl, snd, streams, callbacks, bounds>>

accept_mark_done ==
    /\ acc.pc = "group" /\ group[Acceptor] = 0
    /\ acc' = [acc EXCEPT !.pc = "exited", !.done = TRUE]
    /\ UNCHANGED <<own, peers, handoff, mail, wakers, group, ctl, snd, streams, callbacks, bounds>>

---------------------------------------------------------------------------
(* Peers of an owner: adopt, callbacks, recycle. *)

Handle(o, s) ==
    [owner |-> o, slot |-> s, gen |-> peers[o][s].gen, stream |-> peers[o][s].stream]

RuntimeRunning(o) == own[o].pc = "run"

\* The worker's loop ends with a status.
Leaves(o, status) ==
    /\ own' = [own EXCEPT ![o].pc = "group", ![o].status = status]
    /\ group' = [group EXCEPT ![o] = 1]

Free(o) == {s \in Slots : ~peers[o][s].used}

\* stream_peer_acquire: the first slot that is not used.
Acquired(o) == {s \in Free(o) : \A r \in Free(o) : s <= r}

\* stream_adopt of an accepted stream, with or without a handoff ticket: a new
\* generation once CNet has it.  The manager may refuse the record (the stream
\* is closed, the ticket released) or the adoption (the slot stays until it is
\* recycled); either ends the worker.
stream_adopt(o, x, ticket) ==
    \/ \E s \in Acquired(o) :
       LET peer == [used |-> TRUE, opened |-> FALSE, phase |-> "adopted", stream |-> x,
                    ticket |-> ticket, gen |-> peers[o][s].gen + 1]
       IN  \/ /\ peers' = [peers EXCEPT ![o][s] = peer]
              /\ streams' = [streams EXCEPT ![x] = "held"]
              /\ UNCHANGED <<own, group, bounds>>
           \/ /\ Fault
              /\ peers' = [peers EXCEPT ![o][s] =
                              [peer EXCEPT !.phase = "retired", !.gen = @ - 1]]
              /\ streams' = [streams EXCEPT ![x] = "closed"]
              /\ Leaves(o, "EIO")
              /\ UNCHANGED <<n, submits>>
    \/ /\ IF Free(o) = {} THEN UNCHANGED faults ELSE Fault
       /\ streams' = [streams EXCEPT ![x] = "closed"]
       /\ Leaves(o, "ENOBUFS")
       /\ UNCHANGED <<peers, n, submits>>

\* accepted_progress takes the next stream of the handoff; its ticket goes with
\* the peer.
accepted_progress(o) ==
    /\ n > 1 /\ RuntimeRunning(o) /\ handoff[o].queue # << >>
    /\ stream_adopt(o, Head(handoff[o].queue), TRUE)
    /\ handoff' = [handoff EXCEPT ![o].queue = Tail(@)]
    /\ UNCHANGED <<mail, wakers, acc, ctl, snd, callbacks>>

\* stream_accept: a single owner accepts while the manager has a record left.
stream_accept(o) ==
    /\ n = 1 /\ RuntimeRunning(o) /\ Free(o) # {}
    /\ \E x \in Streams : streams[x] = "away" /\ stream_adopt(o, x, FALSE)
    /\ UNCHANGED <<handoff, mail, wakers, acc, ctl, snd, callbacks>>

\* stream_state CONNECTED: on_open, whose refusal closes the connection again
\* (on_close follows); a certificate that cannot be read closes it unopened.
PeerConnected(o, s) ==
    /\ RuntimeRunning(o) /\ peers[o][s].phase = "adopted"
    /\ \/ /\ \E phase \in {"open", "closing"} :
               peers' = [peers EXCEPT ![o][s].opened = TRUE, ![o][s].phase = phase]
          /\ called' = called \cup {Handle(o, s)}
       \/ /\ peers' = [peers EXCEPT ![o][s].phase = "closing"]
          /\ UNCHANGED called
    /\ UNCHANGED <<own, handoff, mail, wakers, group, acc, ctl, snd, streams, closed, bounds>>

\* stream_receive: the observer's refusal closes the connection.
PeerReceive(o, s) ==
    /\ RuntimeRunning(o) /\ peers[o][s].phase = "open"
    /\ peers' = [peers EXCEPT ![o][s].phase = "closing"]
    /\ UNCHANGED <<own, handoff, mail, wakers, group, acc, ctl, snd, streams, callbacks, bounds>>

Live(o) == {s \in Slots : peers[o][s].phase \in {"adopted", "open", "closing"}}

\* stream_state CLOSED or FAILED, for a set of slots: on_close for those opened.
\* The slot waits for the manager to recycle it.
Ended(o, ss) ==
    /\ peers' = [peers EXCEPT ![o] = [s \in Slots |->
          IF s \in ss THEN [@[s] EXCEPT !.opened = FALSE, !.phase = "retired"] ELSE @[s]]]
    /\ closed' = closed \cup {Handle(o, s) : s \in {r \in ss : peers[o][r].opened}}
    /\ streams' = [x \in Streams |->
          IF \E s \in ss : peers[o][s].stream = x THEN "closed" ELSE streams[x]]

PeerClosed(o, s) ==
    /\ RuntimeRunning(o) /\ s \in Live(o)
    /\ Ended(o, {s})
    /\ UNCHANGED <<own, handoff, mail, wakers, group, acc, ctl, snd, called, bounds>>

\* manager_advance: stream_recycle empties the slot and releases its ticket.
stream_recycle(o, s) ==
    /\ RuntimeRunning(o) /\ peers[o][s].phase = "retired"
    /\ peers' = [peers EXCEPT ![o][s] = Empty(@.gen)]
    /\ UNCHANGED <<own, handoff, mail, wakers, group, acc, ctl, snd, streams, callbacks, bounds>>

---------------------------------------------------------------------------
(* The command mailbox. *)

\* stream_peer_find: the slot's connection must be open and of the handle's
\* generation.
Found(h) ==
    LET p == peers[h.owner][h.slot] IN p.used /\ p.opened /\ p.gen = h.gen

\* command_progress on the head: dropped when its connection is gone; a send
\* leaves it unless CNet is busy (then nothing happens); a close closes.
command_progress(o) ==
    LET c == Head(mail[o])
    IN  /\ RuntimeRunning(o) /\ mail[o] # << >>
        /\ mail' = [mail EXCEPT ![o] = Tail(@)]
        /\ peers' = IF Found(c.handle) /\ c.kind = "close"
                    THEN [peers EXCEPT ![o][c.handle.slot].phase = "closing"] ELSE peers
        /\ UNCHANGED <<own, handoff, wakers, group, acc, ctl, snd, streams, callbacks, bounds>>

\* command_submit, command_submit_slicev: by any thread, for any handle it was
\* ever given; refused once the owner stops or the mailbox is full.
command_submit(h, kind) ==
    LET o == h.owner
    IN  /\ snd.pc = "out" /\ ctl.pc # "end" /\ submits > 0
        /\ own[o].started /\ ~own[o].stop /\ ~own[o].done
        /\ Len(mail[o]) < CommandCapacity
        /\ mail' = [mail EXCEPT ![o] = Append(@, [handle |-> h, kind |-> kind])]
        /\ submits' = submits - 1
        /\ snd' = [pc |-> "wake", owner |-> o]
        /\ UNCHANGED <<own, peers, handoff, wakers, group, acc, ctl, streams, callbacks, n, faults>>

\* stream_wake after the mailbox was unlocked.
SubmitWake ==
    /\ snd.pc = "wake"
    /\ IF MayWake(snd.owner)
       THEN /\ wakers' = [wakers EXCEPT ![snd.owner] = @ \cup {Sender}]
            /\ snd' = [snd EXCEPT !.pc = "woken"]
       ELSE snd' = [snd EXCEPT !.pc = "out"] /\ UNCHANGED wakers
    /\ UNCHANGED <<own, peers, handoff, mail, group, acc, ctl, streams, callbacks, bounds>>

\* Mutant: the wake lease is not given back.
SubmitWoken_Keep ==
    /\ snd.pc = "woken"
    /\ snd' = [snd EXCEPT !.pc = "out"]
    /\ UNCHANGED <<wakers, own, peers, handoff, mail, group, acc, ctl, streams, callbacks, bounds>>

SubmitWoken ==
    /\ snd.pc = "woken"
    /\ wakers' = [wakers EXCEPT ![snd.owner] = @ \ {Sender}]
    /\ snd' = [snd EXCEPT !.pc = "out"]
    /\ UNCHANGED <<own, peers, handoff, mail, group, acc, ctl, streams, callbacks, bounds>>

---------------------------------------------------------------------------
(* An owner's worker around its loop. *)

\* Startup: the client and the manager, or a failure reported to start.
WorkerInit(o) ==
    /\ own[o].pc = "init"
    /\ \/ /\ own' = [own EXCEPT ![o].pc = "run", ![o].init = TRUE, ![o].ready = TRUE]
          /\ UNCHANGED <<group, bounds>>
       \/ /\ \E init \in BOOLEAN :
               own' = [own EXCEPT ![o].pc = "group", ![o].init = init, ![o].ready = TRUE,
                                  ![o].status = "EIO"]
          /\ group' = [group EXCEPT ![o] = 1]
          /\ Fault /\ UNCHANGED <<n, submits>>
    /\ UNCHANGED <<peers, handoff, mail, wakers, acc, ctl, snd, streams, callbacks>>

\* The loop ends on a stop request or a failure, and stops the whole group.
WorkerLeaves(o) ==
    /\ RuntimeRunning(o)
    /\ \/ own[o].stop /\ Leaves(o, own[o].status) /\ UNCHANGED bounds
       \/ Leaves(o, "EIO") /\ Fault /\ UNCHANGED <<n, submits>>
    /\ UNCHANGED <<peers, handoff, mail, wakers, acc, ctl, snd, streams, callbacks>>

\* The accept thread must have finished publishing; then no new wake lease.
WorkerCloses(o) ==
    /\ own[o].pc = "group" /\ group[o] = 0
    /\ n > 1 => acc.done
    /\ own' = [own EXCEPT ![o].pc = "closing", ![o].closing = TRUE]
    /\ UNCHANGED <<peers, handoff, mail, wakers, group, acc, ctl, snd, streams, callbacks, bounds>>

\* The last lease is back: streams still in the handoff are closed.
WorkerDrains(o) ==
    /\ own[o].pc = "closing" /\ wakers[o] = {}
    /\ streams' = [x \in Streams |->
          IF \E i \in 1 .. Len(handoff[o].queue) : handoff[o].queue[i] = x
          THEN "closed" ELSE streams[x]]
    /\ handoff' = [handoff EXCEPT ![o].queue = << >>]
    /\ own' = [own EXCEPT ![o].pc = "stop"]
    /\ UNCHANGED <<peers, mail, wakers, group, acc, ctl, snd, callbacks, bounds>>

\* client_stop ends every connection.
WorkerStops(o) ==
    /\ own[o].pc = "stop"
    /\ Ended(o, Live(o))
    /\ own' = [own EXCEPT ![o].pc = "destroy"]
    /\ UNCHANGED <<handoff, mail, wakers, group, acc, ctl, snd, called, bounds>>

\* The manager recycles every slot; manager and client are destroyed on the
\* thread that owned them; worker_finish.
WorkerFinishes(o) ==
    /\ own[o].pc = "destroy"
    /\ peers' = [peers EXCEPT ![o] = [s \in Slots |-> Empty(@[s].gen)]]
    /\ own' = [own EXCEPT ![o].pc = "done", ![o].init = FALSE, ![o].done = TRUE]
    /\ UNCHANGED <<handoff, mail, wakers, group, acc, ctl, snd, streams, callbacks, bounds>>

---------------------------------------------------------------------------
(* The control thread: server_start, server_stop, server_destroy. *)

Control(pc) == ctl' = [ctl EXCEPT !.pc = pc, !.i = 1]

\* Start fails: with several owners the accept thread counts as done, and the
\* group is stopped.
StartFails(more) ==
    /\ acc' = [acc EXCEPT !.done = @ \/ n > 1]
    /\ Control("stop")
    /\ own' = more

\* start creates an owner's thread and waits until it is ready.
StartOwner ==
    LET i == ctl.i
    IN  /\ ctl.pc = "start"
        /\ \/ /\ own' = [own EXCEPT ![i].started = TRUE, ![i].thread = TRUE, ![i].pc = "init"]
              /\ ctl' = [ctl EXCEPT !.pc = "ready"]
              /\ UNCHANGED <<acc, bounds>>
           \/ /\ StartFails([own EXCEPT ![i].started = n > 1, ![i].done = n > 1])
              /\ Fault /\ UNCHANGED <<n, submits>>
        /\ UNCHANGED <<peers, handoff, mail, wakers, group, snd, streams, callbacks>>

StartReady ==
    LET i == ctl.i
    IN  /\ ctl.pc = "ready" /\ own[i].ready
        /\ IF own[i].status # "OK" THEN StartFails(own)
           ELSE /\ ctl' = IF i < n THEN [pc |-> "start", i |-> i + 1]
                          ELSE [pc |-> IF n = 1 THEN "running" ELSE "acceptor", i |-> 1]
                /\ UNCHANGED <<own, acc>>
        /\ UNCHANGED <<peers, handoff, mail, wakers, group, snd, streams, callbacks, bounds>>

\* The accept thread is created last, unless an owner has failed by then.
StartAcceptor ==
    /\ ctl.pc = "acceptor"
    /\ \/ own[1].stop /\ StartFails(own) /\ UNCHANGED bounds
       \/ ~own[1].stop /\ StartFails(own) /\ Fault /\ UNCHANGED <<n, submits>>
       \/ /\ ~own[1].stop
          /\ acc' = [acc EXCEPT !.pc = "wait", !.thread = TRUE]
          /\ Control("running")
          /\ UNCHANGED <<own, bounds>>
    /\ UNCHANGED <<peers, handoff, mail, wakers, group, snd, streams, callbacks>>

\* stop may be called at any time, and again after a timeout.
StopCall ==
    /\ ctl.pc = "running"
    /\ Control("stop")
    /\ UNCHANGED <<own, peers, handoff, mail, wakers, group, acc, snd, streams, callbacks, bounds>>

StopGroup ==
    /\ ctl.pc = "stop"
    /\ Control("group")
    /\ group' = [group EXCEPT ![Controller] = 1]
    /\ UNCHANGED <<own, peers, handoff, mail, wakers, acc, snd, streams, callbacks, bounds>>

\* Without an accept thread nothing will mark it done.
StopMark ==
    /\ ctl.pc = "group" /\ group[Controller] = 0
    /\ acc' = [acc EXCEPT !.done = @ \/ (n > 1 /\ ~acc.thread)]
    /\ Control("join")
    /\ UNCHANGED <<own, peers, handoff, mail, wakers, group, snd, streams, callbacks, bounds>>

StopJoinsAccept ==
    /\ ctl.pc = "join"
    /\ acc.thread => acc.pc = "exited"
    /\ acc' = [acc EXCEPT !.thread = FALSE]
    /\ Control("owner")
    /\ UNCHANGED <<own, peers, handoff, mail, wakers, group, snd, streams, callbacks, bounds>>

\* owner_stop: an owner that never started is skipped, the others are joined.
StopJoinsOwner ==
    LET i == ctl.i
    IN  /\ ctl.pc = "owner"
        /\ own[i].started => own[i].done /\ (own[i].thread => own[i].pc = "done")
        /\ own' = [own EXCEPT ![i].started = FALSE, ![i].thread = FALSE]
        /\ ctl' = IF i < n THEN [ctl EXCEPT !.i = i + 1] ELSE [pc |-> "stopped", i |-> 1]
        /\ UNCHANGED <<peers, handoff, mail, wakers, group, acc, snd, streams, callbacks, bounds>>

\* The caller's timeout, while it waits: ETIMEDOUT, to be called again.
StopTimeout ==
    /\ \/ ctl.pc = "join" /\ acc.thread /\ ~acc.done
       \/ ctl.pc = "owner" /\ own[ctl.i].started /\ ~own[ctl.i].done
    /\ Control("running")
    /\ UNCHANGED <<own, peers, handoff, mail, wakers, group, acc, snd, streams, callbacks, bounds>>

\* destroy: EBUSY while anything is left (the guard), then everything is freed.
server_destroy ==
    /\ ctl.pc = "stopped" /\ ~acc.thread
    /\ \A o \in Group : /\ ~own[o].started /\ ~own[o].thread /\ ~own[o].init
                        /\ Occupied(o) = 0
    /\ Control("end")
    /\ UNCHANGED <<own, peers, handoff, mail, wakers, group, acc, snd, streams, callbacks, bounds>>

\* Nothing is left to do.
Ended_ == ctl.pc = "end" /\ UNCHANGED connVars

---------------------------------------------------------------------------
AcceptStep ==
    \/ AcceptStop \/ owner_reserve \/ AcceptStream \/ AcceptPublish \/ AcceptWake
    \/ AcceptWoken \/ AcceptClose \/ accept_mark_done

OwnerStep(o) ==
    \/ WorkerInit(o) \/ WorkerLeaves(o) \/ WorkerCloses(o) \/ WorkerDrains(o)
    \/ WorkerStops(o) \/ WorkerFinishes(o)

LoopStep(o) ==
    \/ accepted_progress(o) \/ stream_accept(o) \/ command_progress(o)
    \/ \E s \in Slots : \/ PeerConnected(o, s) \/ PeerReceive(o, s)
                        \/ PeerClosed(o, s) \/ stream_recycle(o, s)

ControlStep ==
    \/ StartOwner \/ StartReady \/ StartAcceptor \/ StopCall \/ StopGroup \/ StopMark
    \/ StopJoinsAccept \/ StopJoinsOwner \/ server_destroy

StopStep(t) == request_stop(t) \/ request_stop_woken(t)

ConnNext ==
    \/ AcceptStep
    \/ \E o \in Group : OwnerStep(o) \/ LoopStep(o)
    \/ \E t \in Threads : StopStep(t)
    \/ \E h \in called, kind \in {"send", "close"} : command_submit(h, kind)
    \/ SubmitWake \/ SubmitWoken
    \/ ControlStep \/ StopTimeout
    \/ Ended_

\* Every thread runs; a caller that began to stop the server calls stop again
\* after a timeout, and destroys it.
ConnFairness ==
    /\ WF_connVars(AcceptStep)
    /\ \A o \in Owners : WF_connVars(OwnerStep(o))
    /\ \A t \in Threads : WF_connVars(StopStep(t))
    /\ WF_connVars(SubmitWake) /\ WF_connVars(SubmitWoken)
    /\ WF_connVars(ControlStep)

ConnSpec == ConnInit /\ [][ConnNext]_connVars /\ ConnFairness

---------------------------------------------------------------------------
(* Properties. *)

\* Tickets and slots stay within an owner's partition of connection_capacity,
\* its mailbox within command_capacity, and a taken ticket has a used slot.
ConnTypeOK ==
    /\ \A o \in Owners :
         /\ Occupied(o) <= Cardinality(Slots) /\ Len(mail[o]) <= CommandCapacity
         /\ handoff[o].reserved >= 0
         /\ \A s \in Slots : peers[o][s].ticket => peers[o][s].used
    /\ ctl.pc \in {"start", "ready", "acceptor", "running", "stop", "group", "join",
                   "owner", "stopped", "end"}

\* A queued command finds the connection its handle was given out for or none:
\* never a later connection in the same slot.  on_open is called once for a
\* handle and on_close once after it: a handle is open exactly between the two,
\* and none is left open when its owner is done.
HandleNeverReused ==
    /\ \A o \in Owners, s \in Slots : peers[o][s].opened <=> Handle(o, s) \in called \ closed
    /\ \A h \in called \ closed : ~own[h.owner].done
    /\ \A o \in Owners : \A i \in 1 .. Len(mail[o]) :
       LET h == mail[o][i].handle IN Found(h) => peers[o][h.slot].stream = h.stream

\* A client is destroyed (worker_finish) only when no thread can still be waking
\* it, and the server's memory (server_destroy) only when no thread is left at
\* all and no client is left for a thread to wake.
NothingFreedEarly ==
    /\ \A o \in Owners : wakers[o] # {} => own[o].init
    /\ ctl.pc = "end" => /\ acc.pc \in {"none", "exited"}
                         /\ \A o \in Owners : /\ own[o].pc \in {"none", "done"}
                                               /\ wakers[o] = {}

\* An accepted stream is in exactly one place: with the accept thread, in one
\* handoff or at one peer.  None is lost between them and none is left over.
\* The bounds, the handles by which streams are reached and the threads that
\* hold them are as HandleNeverReused and NothingFreedEarly say.
StreamsOwned ==
    /\ ConnTypeOK /\ HandleNeverReused /\ NothingFreedEarly
    /\ \A x \in Streams :
       LET accepting == IF acc.stream = x THEN 1 ELSE 0
           handedOff == {p \in Owners \X (1 .. Cardinality(Slots)) :
                           /\ p[2] <= Len(handoff[p[1]].queue)
                           /\ handoff[p[1]].queue[p[2]] = x}
           atPeer == {p \in Owners \X Slots :
                        p[2] \in Live(p[1]) /\ peers[p[1]][p[2]].stream = x}
           held == accepting + Cardinality(handedOff) + Cardinality(atPeer)
       IN  held = IF streams[x] = "held" THEN 1 ELSE 0

\* A stop that was begun ends with the server destroyed: the accept thread, the
\* owners, the wake leases and the caller never wait for each other in a ring.
StopCompletes == []<>(ctl.pc \notin {"stop", "group", "join", "owner", "stopped"})

===========================================================================
