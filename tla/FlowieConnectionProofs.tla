---------------------- MODULE FlowieConnectionProofs ----------------------
(***************************************************************************)
(* What the stream listener guarantees for any number of owners, slots,    *)
(* clients, commands and failures: nothing is freed under a thread that    *)
(* still uses it (NothingFreedEarly), and a connection handle reaches the  *)
(* connection it was given out for or none (HandleNeverReused).            *)
(*                                                                         *)
(* ThreadInv is about the threads alone: which flags a thread has set when *)
(* it has come to a point, and what that excludes for the others.          *)
(* HandleInv, on top of it, relates the peer tables to the callbacks made  *)
(* and to the commands in the mailboxes.                                   *)
(***************************************************************************)
EXTENDS FlowieConnection, Integers, TLAPS

OwnerPcs == {"none", "init", "run", "group", "closing", "stop", "destroy", "done"}

OwnerRecords ==
    [pc : OwnerPcs, stop : BOOLEAN, init : BOOLEAN, closing : BOOLEAN,
     status : {"OK", "EIO", "ENOBUFS"}, ready : BOOLEAN, started : BOOLEAN,
     thread : BOOLEAN, done : BOOLEAN]

AcceptorRecords ==
    [pc : {"none", "wait", "reserved", "publish", "wake", "woken", "close", "group", "exited"},
     owner : 0 .. MaxOwners, stream : 0 .. MaxStreams, status : {"OK", "EIO", "ESHUTDOWN"},
     done : BOOLEAN, thread : BOOLEAN]

ControlPcs == {"start", "ready", "acceptor", "running", "stop", "group", "join", "owner",
               "stopped", "end"}

ThreadTypes ==
    /\ n \in 1 .. MaxOwners
    /\ own \in [Owners -> OwnerRecords]
    /\ wakers \in [Owners -> SUBSET Threads]
    /\ acc \in AcceptorRecords
    /\ ctl \in [pc : ControlPcs, i : 1 .. MaxOwners]
    /\ ctl.i <= n

\* A lease is on a client between worker startup and the last drain; a worker
\* that has begun to close refuses new ones.
LeaseInv ==
    \A o \in Owners :
      /\ wakers[o] # {} => own[o].init /\ own[o].pc \in {"run", "group", "closing"}
      /\ own[o].pc \in {"closing", "stop", "destroy", "done"} => own[o].closing
      /\ own[o].init => own[o].pc \in {"run", "group", "closing", "stop", "destroy"}

Untouched(o) ==
    own[o].pc = "none" /\ own[o].thread = FALSE /\ own[o].done = FALSE

\* The thread of a worker that is not done is there to be joined.
JoinInv ==
    /\ \A o \in Owners :
         /\ own[o].pc \notin {"none", "done"} => own[o].thread
         /\ own[o].thread => own[o].started
         /\ own[o].done => own[o].pc \in {"none", "done"}
         /\ o > n => Untouched(o)
         /\ ctl.pc = "start" /\ o >= ctl.i => Untouched(o)
         /\ ctl.pc = "ready" /\ o > ctl.i => Untouched(o)
    /\ acc.pc \notin {"none", "exited"} => acc.thread
    /\ ctl.pc = "end" => /\ acc.pc \in {"none", "exited"}
                         /\ \A o \in Owners : own[o].pc \in {"none", "done"}

ThreadInv == ThreadTypes /\ LeaseInv /\ JoinInv


\* Initially no thread exists.
LEMMA ThreadStart == ConnInit => ThreadInv
<1> SUFFICES ASSUME ConnInit PROVE ThreadInv
  OBVIOUS
<1>1. ThreadTypes
  BY ConnectionAssumption
  DEF ConnInit, ThreadTypes, OwnerRecords, OwnerPcs, AcceptorRecords, ControlPcs, Owners
<1>2. LeaseInv /\ JoinInv
  BY DEF ConnInit, LeaseInv, JoinInv, Untouched, Owners
<1> QED
  BY <1>1, <1>2 DEF ThreadInv

\* A step that leaves the threads where they are.
LEMMA ThreadStutter ==
    ASSUME ThreadInv, UNCHANGED <<n, own, wakers, acc, ctl>>
    PROVE  ThreadInv'
BY DEF ThreadInv, ThreadTypes, LeaseInv, JoinInv, Untouched

\* The flags and the place of a worker that a stop request leaves alone.
SameWorker(o) ==
    /\ own'[o].pc = own[o].pc /\ own'[o].init = own[o].init
    /\ own'[o].closing = own[o].closing /\ own'[o].done = own[o].done
    /\ own'[o].thread = own[o].thread /\ own'[o].started = own[o].started

\* A thread that takes a lease where it may, or gives one back.
LEMMA LeaseStep ==
    ASSUME ThreadInv, \A o \in Owners : SameWorker(o),
           \/ UNCHANGED wakers
           \/ \E o : \E t \in Threads : /\ MayWake(o)
                                        /\ wakers' = [wakers EXCEPT ![o] = @ \cup {t}]
           \/ \E o, t : wakers' = [wakers EXCEPT ![o] = @ \ {t}]
    PROVE  wakers' \in [Owners -> SUBSET Threads] /\ LeaseInv'
<1>1. CASE UNCHANGED wakers
  BY <1>1 DEF ThreadInv, ThreadTypes, LeaseInv, SameWorker
<1>2. ASSUME NEW o, NEW t \in Threads, MayWake(o),
             wakers' = [wakers EXCEPT ![o] = @ \cup {t}]
      PROVE  wakers' \in [Owners -> SUBSET Threads] /\ LeaseInv'
  <2>1. wakers' \in [Owners -> SUBSET Threads]
    BY <1>2, Zenon DEF ThreadInv, ThreadTypes
  <2>2. \A p \in Owners : p # o => wakers'[p] = wakers[p]
    BY <1>2 DEF ThreadInv, ThreadTypes
  <2>3. o \in Owners => own[o].init /\ own[o].pc \in {"run", "group", "closing"}
    BY <1>2 DEF ThreadInv, LeaseInv, MayWake
  <2> QED
    BY <2>1, <2>2, <2>3 DEF ThreadInv, LeaseInv, SameWorker
<1>3. ASSUME NEW o, NEW t, wakers' = [wakers EXCEPT ![o] = @ \ {t}]
      PROVE  wakers' \in [Owners -> SUBSET Threads] /\ LeaseInv'
  <2>1. /\ wakers' \in [Owners -> SUBSET Threads]
        /\ \A p \in Owners : wakers'[p] \subseteq wakers[p]
    BY <1>3, Zenon DEF ThreadInv, ThreadTypes
  <2> QED
    BY <2>1 DEF ThreadInv, LeaseInv, SameWorker
<1> QED
  BY <1>1, <1>2, <1>3, Zenon

\* The accept thread between its start and its end: it stays there to be joined.
LEMMA AcceptThread ==
    ASSUME ThreadInv, AcceptStep
    PROVE  ThreadInv'
<1>1. /\ UNCHANGED <<n, own, ctl>>
      /\ acc.pc \notin {"none", "exited"} /\ acc'.thread = acc.thread
  BY ZenonT(60) DEF AcceptStep, AcceptStop, owner_reserve, AcceptStream, AcceptPublish, AcceptWake,
               AcceptWoken, AcceptClose, accept_mark_done, bounds, Fault, ThreadInv, ThreadTypes,
               AcceptorRecords
<1>2. acc' \in AcceptorRecords
  <2> USE DEF ThreadInv, ThreadTypes
  <2>1. CASE AcceptStop
    BY <2>1 DEF AcceptStop, AcceptorRecords
  <2>2. CASE owner_reserve
    <3>1. \E o \in Group : acc' = [acc EXCEPT !.pc = "reserved", !.owner = o]
          \/ acc' = [acc EXCEPT !.pc = "close"]
      BY <2>2, Zenon DEF owner_reserve
    <3>2. Group \subseteq 0 .. MaxOwners
      BY ConnectionAssumption DEF Group
    <3> QED
      BY <3>1, <3>2, ZenonT(60) DEF AcceptorRecords
  <2>3. CASE AcceptStream
    <3>1. \/ \E x \in Streams : acc' = [acc EXCEPT !.pc = "publish", !.stream = x]
          \/ acc' = [acc EXCEPT !.pc = "wait"]
          \/ acc' = [acc EXCEPT !.pc = "close", !.status = "EIO"]
      BY <2>3, Zenon DEF AcceptStream
    <3>2. Streams \subseteq 0 .. MaxStreams
      BY ConnectionAssumption DEF Streams
    <3> QED
      BY <3>1, <3>2, ZenonT(60) DEF AcceptorRecords
  <2>4. CASE AcceptPublish
    <3>1. \E pc \in {"close", "wake"} : acc' = [acc EXCEPT !.pc = pc, !.stream = 0]
      BY <2>4 DEF AcceptPublish
    <3>2. 0 \in 0 .. MaxStreams
      BY ConnectionAssumption
    <3> QED
      BY <3>1, <3>2, Zenon DEF AcceptorRecords
  <2>5. CASE AcceptWake
    <3>1. \/ acc' = [acc EXCEPT !.pc = "woken"]
          \/ \E status \in {"OK", "ESHUTDOWN"} :
                acc' = [acc EXCEPT !.pc = "close", !.status = status]
      BY <2>5, Zenon DEF AcceptWake
    <3> QED
      BY <3>1, ZenonT(60) DEF AcceptorRecords
  <2>6. CASE AcceptWoken
    BY <2>6, ZenonT(60) DEF AcceptWoken, AcceptorRecords
  <2>7. CASE AcceptClose
    BY <2>7 DEF AcceptClose, AcceptorRecords
  <2>8. CASE accept_mark_done
    BY <2>8, Zenon DEF accept_mark_done, AcceptorRecords
  <2> QED
    BY <2>1, <2>2, <2>3, <2>4, <2>5, <2>6, <2>7, <2>8 DEF AcceptStep
<1>3. \/ UNCHANGED wakers
      \/ /\ MayWake(acc.owner)
         /\ wakers' = [wakers EXCEPT ![acc.owner] = @ \cup {Acceptor}]
      \/ wakers' = [wakers EXCEPT ![acc.owner] = @ \ {Acceptor}]
  BY Zenon DEF AcceptStep, AcceptStop, owner_reserve, AcceptStream, AcceptPublish, AcceptWake,
               AcceptWoken, AcceptClose, accept_mark_done
<1>4. wakers' \in [Owners -> SUBSET Threads] /\ LeaseInv'
  <2>1. Acceptor \in Threads
    BY ConnectionAssumption DEF Acceptor, Threads, Sender
  <2> QED
    BY <1>1, <1>3, <2>1, LeaseStep DEF SameWorker
<1>5. JoinInv'
  BY <1>1 DEF ThreadInv, JoinInv, Untouched
<1> QED
  BY <1>1, <1>2, <1>4, <1>5 DEF ThreadInv, ThreadTypes

\* The waking threads: the group stop and the application's submissions.
LEMMA WakeThread ==
    ASSUME ThreadInv,
           (\E t \in Threads : StopStep(t)) \/ SubmitWake \/ SubmitWoken
    PROVE  ThreadInv'
<1>1. UNCHANGED <<n, acc, ctl>>
  BY Zenon DEF StopStep, request_stop, request_stop_woken, SubmitWake, SubmitWoken, bounds
<1>2. PICK o : own' = [own EXCEPT ![o].stop = TRUE] \/ own' = own
  BY Zenon DEF StopStep, request_stop, request_stop_woken, SubmitWake, SubmitWoken
<1>3. /\ own' \in [Owners -> OwnerRecords]
      /\ \A p \in Owners : SameWorker(p)
  <2>1. \A p \in Owners : own'[p] = own[p] \/ own'[p] = [own[p] EXCEPT !.stop = TRUE]
    BY <1>2, Zenon DEF ThreadInv, ThreadTypes
  <2>2. ASSUME NEW p \in Owners PROVE own'[p] \in OwnerRecords /\ SameWorker(p)
    <3>1. own[p] \in OwnerRecords
      BY DEF ThreadInv, ThreadTypes
    <3>2. CASE own'[p] = own[p]
      BY <3>1, <3>2 DEF SameWorker
    <3>3. CASE own'[p] = [own[p] EXCEPT !.stop = TRUE]
      BY <3>1, <3>3, Zenon DEF OwnerRecords, SameWorker
    <3> QED
      BY <2>1, <3>2, <3>3
  <2> QED
    BY <1>2, <2>2 DEF ThreadInv, ThreadTypes
<1>4. \/ UNCHANGED wakers
      \/ \E p : \E t \in Threads : /\ MayWake(p)
                                   /\ wakers' = [wakers EXCEPT ![p] = @ \cup {t}]
      \/ \E p, t : wakers' = [wakers EXCEPT ![p] = @ \ {t}]
  <2>1. CASE \E t \in Threads : StopStep(t)
    BY <2>1, Zenon DEF StopStep, request_stop, request_stop_woken
  <2>2. Sender \in Threads
    BY ConnectionAssumption DEF Threads, Sender
  <2>3. CASE SubmitWake \/ SubmitWoken
    BY <2>2, <2>3 DEF SubmitWake, SubmitWoken
  <2> QED
    BY <2>1, <2>3, Zenon
<1>5. wakers' \in [Owners -> SUBSET Threads] /\ LeaseInv'
  BY <1>3, <1>4, LeaseStep, Zenon
<1>6. JoinInv'
  BY <1>1, <1>3 DEF ThreadInv, JoinInv, Untouched, SameWorker
<1> QED
  BY <1>1, <1>3, <1>5, <1>6 DEF ThreadInv, ThreadTypes

\* A worker goes on, as the record r: it keeps its thread, and its lease holders.
LEMMA WorkerMoves ==
    ASSUME ThreadInv, NEW o \in Owners, NEW r \in OwnerRecords,
           own' = [own EXCEPT ![o] = r], UNCHANGED <<n, wakers, acc, ctl>>,
           own[o].pc \notin {"none", "done"}, r.pc # "none",
           r.thread = own[o].thread, r.started = own[o].started, r.done => r.pc = "done",
           wakers[o] # {} => r.init /\ r.pc \in {"run", "group", "closing"},
           r.pc \in {"closing", "stop", "destroy", "done"} => r.closing,
           r.init => r.pc \in {"run", "group", "closing", "stop", "destroy"}
    PROVE  ThreadInv'
<1>1. /\ own' \in [Owners -> OwnerRecords] /\ own'[o] = r
      /\ \A p \in Owners : p # o => own'[p] = own[p]
  BY DEF ThreadInv, ThreadTypes
<1>2. ThreadTypes'
  BY <1>1 DEF ThreadInv, ThreadTypes
<1>3. LeaseInv'
  BY <1>1 DEF ThreadInv, LeaseInv
<1>4. own[o].thread
  BY DEF ThreadInv, JoinInv
<1>5. /\ ~Untouched(o)
      /\ ctl.pc # "end"
  BY DEF ThreadInv, JoinInv, Untouched
<1>6. JoinInv'
  BY <1>1, <1>4, <1>5, Zenon DEF ThreadInv, JoinInv, Untouched
<1> QED
  BY <1>2, <1>3, <1>6 DEF ThreadInv

\* A worker leaves its loop.
LEMMA LeavesThread ==
    ASSUME ThreadInv, NEW o \in Owners, own[o].pc = "run",
           NEW status \in {"OK", "EIO", "ENOBUFS"},
           own' = [own EXCEPT ![o] = [@ EXCEPT !.pc = "group", !.status = status]],
           UNCHANGED <<n, wakers, acc, ctl>>
    PROVE  ThreadInv'
<1> DEFINE r == [own[o] EXCEPT !.pc = "group", !.status = status]
<1>1. own[o] \in OwnerRecords
  BY DEF ThreadInv, ThreadTypes
<1>2. r \in OwnerRecords /\ r.pc = "group" /\ r.thread = own[o].thread
      /\ r.started = own[o].started /\ r.done = own[o].done /\ r.init = own[o].init
  BY <1>1, Zenon DEF OwnerRecords, OwnerPcs
<1>3. own' = [own EXCEPT ![o] = r]
  OBVIOUS
<1>4. /\ wakers[o] # {} => own[o].init
      /\ own[o].done => own[o].pc \in {"none", "done"}
  BY DEF ThreadInv, LeaseInv, JoinInv
<1> HIDE DEF r
<1> QED
  BY <1>2, <1>3, <1>4, WorkerMoves, Zenon

\* The worker's steps around its loop.
LEMMA OwnerThread ==
    ASSUME ThreadInv, NEW o \in Owners, OwnerStep(o)
    PROVE  ThreadInv'
<1>1. own[o] \in OwnerRecords /\ own \in [Owners -> OwnerRecords]
  BY DEF ThreadInv, ThreadTypes
<1>2. UNCHANGED <<n, wakers, acc, ctl>>
  BY Zenon DEF OwnerStep, WorkerInit, WorkerLeaves, WorkerCloses, WorkerDrains, WorkerStops,
               WorkerFinishes, bounds
<1>3. /\ wakers[o] # {} => own[o].init /\ own[o].pc \in {"run", "group", "closing"}
      /\ own[o].pc \in {"closing", "stop", "destroy", "done"} => own[o].closing
      /\ own[o].init => own[o].pc \in {"run", "group", "closing", "stop", "destroy"}
      /\ own[o].done => own[o].pc \in {"none", "done"}
  BY DEF ThreadInv, LeaseInv, JoinInv
<1>4. CASE WorkerInit(o)
  <2>1. PICK pc \in {"run", "group"}, init \in BOOLEAN, status \in {"OK", "EIO", "ENOBUFS"} :
           own' = [own EXCEPT ![o] = [@ EXCEPT !.pc = pc, !.init = init, !.ready = TRUE,
                                               !.status = status]]
    <3>1. CASE own' = [own EXCEPT ![o].pc = "run", ![o].init = TRUE, ![o].ready = TRUE]
      <4>1. own' = [own EXCEPT ![o] = [@ EXCEPT !.pc = "run", !.init = TRUE, !.ready = TRUE,
                                                !.status = own[o].status]]
        BY <1>1, <3>1, Zenon DEF OwnerRecords
      <4> QED
        BY <1>1, <4>1, Zenon DEF OwnerRecords
    <3>2. CASE \E init \in BOOLEAN :
                 own' = [own EXCEPT ![o].pc = "group", ![o].init = init, ![o].ready = TRUE,
                                    ![o].status = "EIO"]
      BY <1>1, <3>2, ZenonT(60)
    <3> QED
      BY <1>4, <3>1, <3>2, Zenon DEF WorkerInit
  <2> DEFINE r == [own[o] EXCEPT !.pc = pc, !.init = init, !.ready = TRUE, !.status = status]
  <2>2. r \in OwnerRecords /\ r.pc = pc /\ r.thread = own[o].thread
        /\ r.started = own[o].started /\ r.done = own[o].done
    BY <1>1, Zenon DEF OwnerRecords, OwnerPcs
  <2>3. own' = [own EXCEPT ![o] = r]
    BY <2>1
  <2>4. own[o].pc = "init"
    BY <1>4, Zenon DEF WorkerInit
  <2> HIDE DEF r
  <2> QED
    BY <1>2, <1>3, <2>2, <2>3, <2>4, WorkerMoves, Zenon
<1>5. CASE WorkerLeaves(o)
  <2>1. PICK status \in {"OK", "EIO", "ENOBUFS"} :
           own' = [own EXCEPT ![o] = [@ EXCEPT !.pc = "group", !.status = status]]
    BY <1>1, <1>5, Zenon DEF WorkerLeaves, Leaves, OwnerRecords
  <2> QED
    BY <1>2, <1>5, <2>1, LeavesThread, Zenon DEF WorkerLeaves, RuntimeRunning
<1>6. CASE WorkerCloses(o)
  <2> DEFINE r == [own[o] EXCEPT !.pc = "closing", !.closing = TRUE]
  <2>1. own' = [own EXCEPT ![o] = r] /\ own[o].pc = "group"
    BY <1>6, Zenon DEF WorkerCloses
  <2>2. r \in OwnerRecords /\ r.pc = "closing" /\ r.closing /\ r.thread = own[o].thread
        /\ r.started = own[o].started /\ r.done = own[o].done /\ r.init = own[o].init
    BY <1>1, Zenon DEF OwnerRecords, OwnerPcs
  <2> HIDE DEF r
  <2> QED
    BY <1>2, <1>3, <2>1, <2>2, WorkerMoves, Zenon
<1>7. CASE WorkerDrains(o)
  <2> DEFINE r == [own[o] EXCEPT !.pc = "stop"]
  <2>1. own' = [own EXCEPT ![o] = r] /\ own[o].pc = "closing" /\ wakers[o] = {}
    BY <1>7 DEF WorkerDrains
  <2>2. r \in OwnerRecords /\ r.pc = "stop" /\ r.closing = own[o].closing
        /\ r.thread = own[o].thread /\ r.started = own[o].started /\ r.done = own[o].done
    BY <1>1 DEF OwnerRecords, OwnerPcs
  <2> HIDE DEF r
  <2> QED
    BY <1>2, <1>3, <2>1, <2>2, WorkerMoves, Zenon
<1>8. CASE WorkerStops(o)
  <2> DEFINE r == [own[o] EXCEPT !.pc = "destroy"]
  <2>1. own' = [own EXCEPT ![o] = r] /\ own[o].pc = "stop"
    BY <1>8 DEF WorkerStops
  <2>2. r \in OwnerRecords /\ r.pc = "destroy" /\ r.closing = own[o].closing
        /\ r.thread = own[o].thread /\ r.started = own[o].started /\ r.done = own[o].done
    BY <1>1 DEF OwnerRecords, OwnerPcs
  <2> HIDE DEF r
  <2> QED
    BY <1>2, <1>3, <2>1, <2>2, WorkerMoves, Zenon
<1>9. CASE WorkerFinishes(o)
  <2> DEFINE r == [own[o] EXCEPT !.pc = "done", !.init = FALSE, !.done = TRUE]
  <2>1. own' = [own EXCEPT ![o] = r] /\ own[o].pc = "destroy"
    BY <1>9, Zenon DEF WorkerFinishes
  <2>2. r \in OwnerRecords /\ r.pc = "done" /\ r.closing = own[o].closing
        /\ r.thread = own[o].thread /\ r.started = own[o].started /\ ~r.init
    BY <1>1, Zenon DEF OwnerRecords, OwnerPcs
  <2> HIDE DEF r
  <2> QED
    BY <1>2, <1>3, <2>1, <2>2, WorkerMoves, Zenon
<1> QED
  BY <1>4, <1>5, <1>6, <1>7, <1>8, <1>9 DEF OwnerStep

\* The steps of the loop: the worker stays in it or leaves it.
LEMMA LoopThread ==
    ASSUME ThreadInv, NEW o \in Owners, LoopStep(o)
    PROVE  ThreadInv'
<1>1. own \in [Owners -> OwnerRecords]
  BY DEF ThreadInv, ThreadTypes
<1>2. UNCHANGED <<n, wakers, acc, ctl>> /\ own[o].pc = "run"
  BY Zenon DEF LoopStep, accepted_progress, stream_accept, stream_adopt, command_progress,
               PeerConnected, PeerReceive, PeerClosed, stream_recycle, bounds, RuntimeRunning
<1>3. UNCHANGED own \/ Leaves(o, "EIO") \/ Leaves(o, "ENOBUFS")
  BY Zenon DEF LoopStep, accepted_progress, stream_accept, stream_adopt, command_progress,
               PeerConnected, PeerReceive, PeerClosed, stream_recycle
<1>4. CASE UNCHANGED own
  BY <1>2, <1>4, ThreadStutter
<1>5. ASSUME NEW status \in {"EIO", "ENOBUFS"}, Leaves(o, status) PROVE ThreadInv'
  <2>1. own' = [own EXCEPT ![o] = [@ EXCEPT !.pc = "group", !.status = status]]
    BY <1>1, <1>5, Zenon DEF Leaves
  <2> QED
    BY <1>2, <2>1, LeavesThread, Zenon
<1> QED
  BY <1>3, <1>4, <1>5

\* The control thread goes on to pc, past the start of the owners.
LEMMA ControlMoves ==
    ASSUME ThreadInv, UNCHANGED <<n, own, wakers>>,
           NEW pc \in {"acceptor", "running", "stop", "group", "join", "owner"},
           ctl' = [pc |-> pc, i |-> 1], acc' \in AcceptorRecords,
           acc'.pc \notin {"none", "exited"} => acc'.thread
    PROVE  ThreadInv'
<1>1. ThreadTypes'
  BY ConnectionAssumption DEF ThreadInv, ThreadTypes, ControlPcs
<1>2. LeaseInv' /\ JoinInv'
  BY DEF ThreadInv, LeaseInv, JoinInv, Untouched
<1> QED
  BY <1>1, <1>2 DEF ThreadInv

\* The control thread starts, joins and destroys.
LEMMA ControlThread ==
    ASSUME ThreadInv, ControlStep \/ StopTimeout
    PROVE  ThreadInv'
<1> USE DEF ThreadInv, Control
<1>1. /\ own \in [Owners -> OwnerRecords] /\ ctl \in [pc : ControlPcs, i : 1 .. MaxOwners]
      /\ acc \in AcceptorRecords /\ n \in 1 .. MaxOwners /\ ctl.i \in Owners /\ ctl.i \in 1 .. n
      /\ own[ctl.i] \in OwnerRecords /\ MaxOwners \in Nat \ {0}
      /\ acc.pc \notin {"none", "exited"} => acc.thread
  BY ConnectionAssumption, SMTT(60) DEF ThreadTypes, JoinInv, Owners
<1>2. UNCHANGED <<n, wakers>>
  BY DEF ControlStep, StartOwner, StartReady, StartAcceptor, StopCall, StopGroup, StopMark,
         StopJoinsAccept, StopJoinsOwner, server_destroy, StopTimeout, bounds
<1>3. ASSUME StartFails(own) PROVE ThreadInv'
  <2>1. acc' \in AcceptorRecords /\ acc'.pc = acc.pc /\ acc'.thread = acc.thread
    <3>1. PICK b \in BOOLEAN : acc' = [acc EXCEPT !.done = b]
      BY <1>1, <1>3, Zenon DEF StartFails, AcceptorRecords
    <3> QED
      BY <1>1, <3>1 DEF AcceptorRecords
  <2>2. ctl' = [pc |-> "stop", i |-> 1] /\ own' = own
    BY <1>1, <1>3, Zenon DEF StartFails
  <2> QED
    BY <1>1, <1>2, <2>1, <2>2, ControlMoves
<1>4. CASE StartOwner
  <2> DEFINE i == ctl.i
  <2>1. Untouched(i) /\ ctl.pc = "start"
    BY <1>1, <1>4 DEF JoinInv, StartOwner
  <2>2. /\ wakers[i] = {} /\ ~own[i].init
        /\ \A p \in Owners : p > i => Untouched(p)
    BY <1>1, <2>1 DEF LeaseInv, JoinInv, Untouched, Owners
  <2>3. CASE /\ own' = [own EXCEPT ![i].started = TRUE, ![i].thread = TRUE, ![i].pc = "init"]
             /\ ctl' = [ctl EXCEPT !.pc = "ready"]
             /\ UNCHANGED <<acc, bounds>>
    <3>1. /\ own'[i] \in OwnerRecords /\ own'[i].pc = "init" /\ own'[i].thread
          /\ own'[i].started /\ own'[i].done = own[i].done /\ own'[i].init = own[i].init
      BY <1>1, <2>3, Zenon DEF OwnerRecords, OwnerPcs
    <3>2. \A p \in Owners : p # i => own'[p] = own[p]
      BY <1>1, <2>3
    <3>3. own' \in [Owners -> OwnerRecords]
      BY <1>1, <2>3, <3>1
    <3>4. ctl' = [pc |-> "ready", i |-> i] /\ acc' = acc
      BY <1>1, <2>3
    <3>5. ThreadTypes'
      BY <1>1, <1>2, <3>3, <3>4 DEF ThreadTypes, ControlPcs
    <3>6. LeaseInv'
      BY <1>1, <1>2, <2>2, <3>1, <3>2, SMTT(60) DEF LeaseInv
    <3>7. JoinInv'
      BY <1>1, <1>2, <2>1, <2>2, <3>1, <3>2, <3>4 DEF JoinInv, Untouched, Owners
    <3> QED
      BY <3>5, <3>6, <3>7
  <2>4. CASE StartFails([own EXCEPT ![i].started = n > 1, ![i].done = n > 1])
    <3>1. PICK b \in BOOLEAN : b = (n > 1)
      <4>1. (n > 1) \in BOOLEAN
        BY <1>1
      <4> QED
        BY <4>1, Zenon
    <3>2. own' = [own EXCEPT ![i] = [@ EXCEPT !.started = b, !.done = b]]
      BY <1>1, <2>4, <3>1, Zenon DEF StartFails
    <3>3. /\ own'[i] \in OwnerRecords /\ own'[i].pc = own[i].pc
          /\ own'[i].thread = own[i].thread /\ own'[i].init = own[i].init
      BY <1>1, <3>2, Zenon DEF OwnerRecords
    <3>4. /\ own' \in [Owners -> OwnerRecords]
          /\ \A p \in Owners : p # i => own'[p] = own[p]
      BY <1>1, <3>2, <3>3
    <3>5. PICK d \in BOOLEAN : acc' = [acc EXCEPT !.done = d]
      BY <1>1, <2>4, Zenon DEF StartFails, AcceptorRecords
    <3>6. acc' \in AcceptorRecords /\ acc'.pc = acc.pc /\ acc'.thread = acc.thread
      BY <1>1, <3>5 DEF AcceptorRecords
    <3>7. ctl' = [pc |-> "stop", i |-> 1]
      BY <1>1, <2>4, Zenon DEF StartFails
    <3>8. ThreadTypes'
      BY <1>1, <1>2, <3>4, <3>6, <3>7 DEF ThreadTypes, ControlPcs
    <3>9. LeaseInv'
      BY <1>1, <1>2, <2>1, <2>2, <3>3, <3>4, SMTT(60) DEF LeaseInv, Untouched
    <3>10. JoinInv'
      BY <1>1, <1>2, <2>1, <2>2, <3>3, <3>4, <3>6, <3>7 DEF JoinInv, Untouched, Owners
    <3> QED
      BY <3>8, <3>9, <3>10
  <2> QED
    BY <1>4, <2>3, <2>4 DEF StartOwner
<1>5. CASE StartReady
  <2>1. CASE StartFails(own)
    BY <1>3, <2>1
  <2>2. CASE /\ ctl' = IF ctl.i < n THEN [pc |-> "start", i |-> ctl.i + 1]
                       ELSE [pc |-> IF n = 1 THEN "running" ELSE "acceptor", i |-> 1]
             /\ UNCHANGED <<own, acc>>
    <3>1. ctl.pc = "ready"
      BY <1>5 DEF StartReady
    <3>2. CASE ctl.i < n
      <4>1. ctl' = [pc |-> "start", i |-> ctl.i + 1]
        BY <2>2, <3>2
      <4>2. ThreadTypes' /\ LeaseInv'
        BY <1>1, <1>2, <2>2, <3>2, <4>1 DEF ThreadTypes, LeaseInv, ControlPcs
      <4>3. JoinInv'
        BY <1>1, <1>2, <2>2, <3>1, <4>1 DEF JoinInv, Untouched, Owners
      <4> QED
        BY <4>2, <4>3
    <3>3. CASE ~(ctl.i < n)
      <4>1. \E pc \in {"running", "acceptor"} : ctl' = [pc |-> pc, i |-> 1]
        BY <2>2, <3>3
      <4> QED
        BY <1>1, <1>2, <2>2, <4>1, ControlMoves
    <3> QED
      BY <3>2, <3>3
  <2> QED
    BY <1>5, <2>1, <2>2 DEF StartReady
<1>6. CASE StartAcceptor
  <2>1. CASE StartFails(own)
    BY <1>3, <2>1
  <2>2. CASE /\ acc' = [acc EXCEPT !.pc = "wait", !.thread = TRUE]
             /\ Control("running") /\ UNCHANGED <<own, bounds>>
    <3>1. acc' \in AcceptorRecords /\ acc'.thread
      BY <1>1, <2>2, Zenon DEF AcceptorRecords
    <3>2. ctl' = [pc |-> "running", i |-> 1]
      BY <1>1, <2>2, Zenon
    <3> QED
      BY <1>1, <1>2, <2>2, <3>1, <3>2, ControlMoves, Zenon
  <2> QED
    BY <1>6, <2>1, <2>2 DEF StartAcceptor
<1>7. CASE StopCall \/ StopGroup \/ StopTimeout
  <2>1. PICK pc \in {"stop", "group", "running"} : ctl' = [pc |-> pc, i |-> 1]
    BY <1>1, <1>7, Zenon DEF StopCall, StopGroup, StopTimeout
  <2>2. UNCHANGED <<own, acc>>
    BY <1>7 DEF StopCall, StopGroup, StopTimeout
  <2> QED
    BY <1>1, <1>2, <2>1, <2>2, ControlMoves
<1>8. CASE StopMark
  <2>1. PICK d \in BOOLEAN : acc' = [acc EXCEPT !.done = d]
    BY <1>1, <1>8, Zenon DEF StopMark, AcceptorRecords
  <2>2. acc' \in AcceptorRecords /\ acc'.pc = acc.pc /\ acc'.thread = acc.thread
    BY <1>1, <2>1 DEF AcceptorRecords
  <2>3. ctl' = [pc |-> "join", i |-> 1] /\ own' = own
    BY <1>1, <1>8, Zenon DEF StopMark
  <2> QED
    BY <1>1, <1>2, <2>2, <2>3, ControlMoves
<1>9. CASE StopJoinsAccept
  <2>1. acc' \in AcceptorRecords /\ acc'.pc = acc.pc
    BY <1>1, <1>9, Zenon DEF StopJoinsAccept, AcceptorRecords
  <2>2. acc.pc \in {"none", "exited"}
    BY <1>9 DEF StopJoinsAccept, JoinInv
  <2>3. ctl' = [pc |-> "owner", i |-> 1] /\ own' = own
    BY <1>1, <1>9, Zenon DEF StopJoinsAccept
  <2> QED
    BY <1>1, <1>2, <2>1, <2>2, <2>3, ControlMoves
<1>10. CASE StopJoinsOwner
  <2> DEFINE i == ctl.i
  <2>1. own' = [own EXCEPT ![i] = [@ EXCEPT !.started = FALSE, !.thread = FALSE]]
    BY <1>1, <1>10, Zenon DEF StopJoinsOwner
  <2>2. /\ own'[i] \in OwnerRecords /\ own'[i].pc = own[i].pc
        /\ own'[i].thread = FALSE /\ own'[i].init = own[i].init
        /\ own'[i].done = own[i].done /\ own'[i].closing = own[i].closing
    BY <1>1, <2>1, Zenon DEF OwnerRecords
  <2>3. /\ own' \in [Owners -> OwnerRecords]
        /\ \A p \in Owners : p # i => own'[p] = own[p]
    BY <1>1, <2>1, <2>2
  <2>4. own[i].pc \in {"none", "done"}
    BY <1>1, <1>10 DEF StopJoinsOwner, JoinInv
  <2>5. ctl' \in [pc : ControlPcs, i : 1 .. MaxOwners] /\ ctl'.i <= n
        /\ ctl'.pc \in {"owner", "stopped"} /\ acc' = acc
    <3>1. acc' = acc /\ ctl.pc = "owner"
      BY <1>10 DEF StopJoinsOwner
    <3>2. CASE i < n /\ ctl' = [ctl EXCEPT !.i = i + 1]
      BY <1>1, <3>1, <3>2
    <3>3. CASE ctl' = [pc |-> "stopped", i |-> 1]
      BY <1>1, <3>1, <3>3 DEF ControlPcs
    <3> QED
      BY <1>10, <3>2, <3>3 DEF StopJoinsOwner
  <2>6. ThreadTypes'
    BY <1>1, <1>2, <2>3, <2>5 DEF ThreadTypes
  <2>7. LeaseInv'
    BY <1>1, <1>2, <2>2, <2>3, SMTT(60) DEF LeaseInv
  <2>8. JoinInv'
    BY <1>1, <1>2, <2>2, <2>3, <2>4, <2>5 DEF JoinInv, Untouched
  <2> QED
    BY <2>6, <2>7, <2>8
<1>11. CASE server_destroy
  <2>1. ctl' = [pc |-> "end", i |-> 1] /\ UNCHANGED <<own, acc>>
    BY <1>1, <1>11, Zenon DEF server_destroy
  <2>2. acc.pc \in {"none", "exited"}
    BY <1>11 DEF server_destroy, JoinInv
  <2>3. ASSUME NEW o \in Owners PROVE own[o].pc \in {"none", "done"}
    <3>1. CASE o \in Group
      BY <1>11, <3>1 DEF server_destroy, JoinInv
    <3>2. CASE o \notin Group
      BY <1>1, <3>2 DEF JoinInv, Untouched, Group, Owners
    <3> QED
      BY <3>1, <3>2
  <2>4. ThreadTypes'
    BY <1>1, <1>2, <2>1, SMTT(60) DEF ThreadTypes, ControlPcs
  <2>5. LeaseInv' /\ JoinInv'
    BY <1>1, <1>2, <2>1, <2>2, <2>3 DEF LeaseInv, JoinInv, Untouched
  <2> QED
    BY <2>4, <2>5
<1> QED
  BY <1>4, <1>5, <1>6, <1>7, <1>8, <1>9, <1>10, <1>11 DEF ControlStep

\* Every step keeps ThreadInv.
LEMMA ThreadStep == ThreadInv /\ [ConnNext]_connVars => ThreadInv'
<1> SUFFICES ASSUME ThreadInv, [ConnNext]_connVars PROVE ThreadInv'
  OBVIOUS
<1>1. Group \subseteq Owners
  BY ConnectionAssumption DEF ThreadInv, ThreadTypes, Group, Owners
<1>2. CASE AcceptStep
  BY <1>2, AcceptThread
<1>3. CASE \E o \in Group : OwnerStep(o) \/ LoopStep(o)
  BY <1>1, <1>3, OwnerThread, LoopThread
<1>4. CASE (\E t \in Threads : StopStep(t)) \/ SubmitWake \/ SubmitWoken
  BY <1>4, WakeThread
<1>5. CASE \E h \in called, kind \in {"send", "close"} : command_submit(h, kind)
  BY <1>5, ThreadStutter DEF command_submit
<1>6. CASE ControlStep \/ StopTimeout
  BY <1>6, ControlThread
<1>7. CASE UNCHANGED connVars
  BY <1>7, ThreadStutter DEF connVars
<1> QED
  BY <1>2, <1>3, <1>4, <1>5, <1>6, <1>7 DEF ConnNext, Ended_

\* ThreadInv holds throughout.
LEMMA ThreadInvariance == ConnSpec => []ThreadInv
BY ThreadStart, ThreadStep, PTL DEF ConnSpec

\* No client is destroyed (worker_finish) under a thread that holds a lease to
\* wake it, and server_destroy frees the server's memory only once the accept
\* thread, every owner's worker and every lease are gone, whatever the
\* interleaving of stop requests, timeouts, failures and submissions.
THEOREM FreedLast == ConnSpec => []NothingFreedEarly
<1>1. ThreadInv => NothingFreedEarly
  BY DEF ThreadInv, LeaseInv, JoinInv, NothingFreedEarly
<1> QED
  BY <1>1, ThreadInvariance, PTL

---------------------------------------------------------------------------
PeerRecords ==
    [used : BOOLEAN, opened : BOOLEAN,
     phase : {"none", "adopted", "open", "closing", "retired"}, stream : Nat,
     ticket : BOOLEAN, gen : Nat]

Handles == [owner : Owners, slot : Slots, gen : Nat, stream : Nat]

Commands == [handle : Handles, kind : {"send", "close"}]

PeerTypes ==
    /\ peers \in [Owners -> [Slots -> PeerRecords]]
    /\ called \in SUBSET Handles
    /\ closed \in SUBSET called

\* Where a worker still has its connections.
Serving == {"run", "group", "closing", "stop"}

\* on_open ran for a slot in use, while its owner had not closed its connections.
OpenedInv ==
    \A o \in Owners : \A s \in Slots :
      /\ peers[o][s].phase = "adopted" => peers[o][s].used
      /\ peers[o][s].opened => /\ peers[o][s].used
                               /\ peers[o][s].phase \in {"open", "closing"}
                               /\ own[o].pc \in Serving
                               /\ Handle(o, s) \in called
                               /\ Handle(o, s) \notin closed

\* A slot's generation has reached every handle's; a slot adopted but not yet
\* connected is ahead of them all.
GenerationInv ==
    \A h \in called :
      /\ h.gen <= peers[h.owner][h.slot].gen
      /\ peers[h.owner][h.slot].phase = "adopted" => h.gen < peers[h.owner][h.slot].gen
      /\ h \notin closed => /\ peers[h.owner][h.slot].opened
                            /\ h = Handle(h.owner, h.slot)

\* A generation of a slot is of one connection.
UniqueInv ==
    \A h, k \in called : h.owner = k.owner /\ h.slot = k.slot /\ h.gen = k.gen => h = k

PeerInv == PeerTypes /\ OpenedInv /\ GenerationInv /\ UniqueInv

\* A command in an owner's mailbox has a handle that on_open gave out for it.
MailInv ==
    /\ mail \in [Owners -> Seq(Commands)]
    /\ \A o \in Owners : \A i \in DOMAIN mail[o] :
         mail[o][i].handle \in called /\ mail[o][i].handle.owner = o

Handoffs == [sealed : BOOLEAN, reserved : Int, queue : Seq(Nat)]

\* The streams on their way to an owner.
QueueInv == handoff \in [Owners -> Handoffs]

HandleInv == PeerInv /\ MailInv /\ QueueInv

\* Initially every slot is empty and no handle was given out.
LEMMA HandleStart == ConnInit => HandleInv
<1> SUFFICES ASSUME ConnInit PROVE HandleInv
  OBVIOUS
<1>1. Empty(0) \in PeerRecords /\ ~Empty(0).opened /\ Empty(0).phase = "none"
  BY DEF Empty, PeerRecords
<1>2. /\ peers = [o \in Owners |-> [s \in Slots |-> Empty(0)]]
      /\ mail = [o \in Owners |-> << >>] /\ called = {} /\ closed = {}
  BY DEF ConnInit
<1>3. PeerTypes
  BY <1>1, <1>2 DEF PeerTypes
<1>4. OpenedInv
  BY <1>1, <1>2 DEF OpenedInv
<1>5. GenerationInv /\ UniqueInv
  BY <1>2, SMTT(60) DEF GenerationInv, UniqueInv
<1>6. MailInv /\ QueueInv
  BY <1>2, SMTT(60) DEF MailInv, QueueInv, Handoffs, ConnInit
<1> QED
  BY <1>3, <1>4, <1>5, <1>6 DEF HandleInv, PeerInv

\* No worker stops serving.
ServingKept == \A o \in Owners : own[o].pc \in Serving => own'[o].pc \in Serving

\* A step that leaves the peer tables and the callbacks alone.
LEMMA PeerStutter ==
    ASSUME PeerInv, ServingKept, UNCHANGED <<peers, called, closed>>
    PROVE  PeerInv'
BY DEF PeerInv, PeerTypes, OpenedInv, GenerationInv, UniqueInv, Handle, ServingKept

\* A slot that is not open, before or after: adopted, failed or recycled.
LEMMA UnopenedMoves ==
    ASSUME PeerInv, ServingKept, UNCHANGED <<called, closed>>,
           NEW o \in Owners, NEW s \in Slots, NEW r \in PeerRecords,
           peers' = [peers EXCEPT ![o][s] = r],
           ~peers[o][s].opened, ~r.opened, r.gen >= peers[o][s].gen,
           r.phase = "adopted" => r.used /\ r.gen > peers[o][s].gen
    PROVE  PeerInv'
<1>1. /\ peers' \in [Owners -> [Slots -> PeerRecords]] /\ peers'[o][s] = r
      /\ \A p \in Owners, q \in Slots : p # o \/ q # s => peers'[p][q] = peers[p][q]
  BY DEF PeerInv, PeerTypes
<1>2. PeerTypes' /\ UniqueInv'
  BY <1>1, SMTT(60) DEF PeerInv, PeerTypes, UniqueInv
<1>3. OpenedInv'
  BY <1>1, SMTT(60) DEF PeerInv, OpenedInv, ServingKept, Handle
<1>4. ASSUME NEW h \in called
      PROVE  /\ h.gen <= peers'[h.owner][h.slot].gen
             /\ peers'[h.owner][h.slot].phase = "adopted" => h.gen < peers'[h.owner][h.slot].gen
             /\ h \notin closed => /\ peers'[h.owner][h.slot].opened
                                   /\ h = Handle(h.owner, h.slot)'
  <2>1. h.owner \in Owners /\ h.slot \in Slots /\ h.gen \in Nat
    BY SMTT(60) DEF PeerInv, PeerTypes, Handles
  <2>2. /\ h.gen <= peers[h.owner][h.slot].gen
        /\ peers[h.owner][h.slot].phase = "adopted" => h.gen < peers[h.owner][h.slot].gen
        /\ h \notin closed => /\ peers[h.owner][h.slot].opened
                              /\ h = Handle(h.owner, h.slot)
    BY DEF PeerInv, GenerationInv
  <2>3. CASE h.owner = o /\ h.slot = s
    <3>1. r.gen \in Nat /\ peers[o][s].gen \in Nat
      BY SMTT(60) DEF PeerInv, PeerTypes, PeerRecords
    <3> QED
      BY <1>1, <2>1, <2>2, <2>3, <3>1
  <2>4. CASE h.owner # o \/ h.slot # s
    BY <1>1, <2>1, <2>2, <2>4, SMTT(60) DEF Handle
  <2> QED
    BY <2>3, <2>4
<1>5. GenerationInv'
  BY <1>4 DEF GenerationInv
<1> QED
  BY <1>2, <1>3, <1>5 DEF PeerInv

\* A slot only moves on to closing.
LEMMA ClosingMoves ==
    ASSUME PeerInv, ServingKept, UNCHANGED <<called, closed>>,
           NEW o \in Owners, NEW s \in Slots,
           peers' = [peers EXCEPT ![o][s].phase = "closing"]
    PROVE  PeerInv'
<1>1. peers[o][s] \in PeerRecords
  BY DEF PeerInv, PeerTypes
<1>2. PICK r \in PeerRecords : r = [peers[o][s] EXCEPT !.phase = "closing"]
  BY <1>1, Zenon DEF PeerRecords
<1>3. /\ r.phase = "closing" /\ r.used = peers[o][s].used
      /\ r.opened = peers[o][s].opened /\ r.stream = peers[o][s].stream
      /\ r.gen = peers[o][s].gen /\ r.gen \in Nat
  BY <1>1, <1>2 DEF PeerRecords
<1>4. /\ peers' \in [Owners -> [Slots -> PeerRecords]] /\ peers'[o][s] = r
      /\ \A p \in Owners, q \in Slots : p # o \/ q # s => peers'[p][q] = peers[p][q]
  BY <1>2 DEF PeerInv, PeerTypes
<1>5. \A p \in Owners, q \in Slots :
        /\ peers'[p][q].gen = peers[p][q].gen /\ peers'[p][q].stream = peers[p][q].stream
        /\ peers'[p][q].opened = peers[p][q].opened /\ peers'[p][q].used = peers[p][q].used
        /\ peers'[p][q].phase = peers[p][q].phase \/ peers'[p][q].phase = "closing"
  BY <1>3, <1>4
<1>6. PeerTypes' /\ UniqueInv'
  BY <1>4, SMTT(60) DEF PeerInv, PeerTypes, UniqueInv
<1>7. OpenedInv'
  BY <1>5 DEF PeerInv, OpenedInv, ServingKept, Handle
<1>8. \A h \in called : h.owner \in Owners /\ h.slot \in Slots
  BY SMTT(60) DEF PeerInv, PeerTypes, Handles
<1>9. GenerationInv'
  BY <1>5, <1>8 DEF PeerInv, GenerationInv, Handle
<1> QED
  BY <1>6, <1>7, <1>9 DEF PeerInv

\* on_open: the adopted slot opens under a handle no other connection has.
LEMMA OpenMoves ==
    ASSUME PeerInv, ServingKept, UNCHANGED closed,
           NEW o \in Owners, NEW s \in Slots, own[o].pc = "run",
           peers[o][s].phase = "adopted",
           NEW phase \in {"open", "closing"},
           peers' = [peers EXCEPT ![o][s].opened = TRUE, ![o][s].phase = phase],
           called' = called \cup {Handle(o, s)}
    PROVE  PeerInv'
<1>1. peers[o][s] \in PeerRecords
  BY DEF PeerInv, PeerTypes
<1>2. PICK g \in Handles : g = Handle(o, s)
  BY <1>1, Zenon DEF Handle, Handles, PeerRecords
<1>3. g.owner = o /\ g.slot = s /\ g.gen = peers[o][s].gen /\ g.stream = peers[o][s].stream
  BY <1>2 DEF Handle
<1>4. PICK r \in PeerRecords : r = [peers[o][s] EXCEPT !.opened = TRUE, !.phase = phase]
  BY <1>1, Zenon DEF PeerRecords
<1>5. /\ r.phase = phase /\ r.used = peers[o][s].used /\ r.opened
      /\ r.stream = peers[o][s].stream /\ r.gen = peers[o][s].gen /\ r.gen \in Nat
  BY <1>1, <1>4 DEF PeerRecords
<1>6. /\ peers' \in [Owners -> [Slots -> PeerRecords]] /\ peers'[o][s] = r
      /\ \A p \in Owners, q \in Slots : p # o \/ q # s => peers'[p][q] = peers[p][q]
  BY <1>4, Zenon DEF PeerInv, PeerTypes
<1>7. called' = called \cup {g} /\ called \subseteq Handles
  BY <1>2 DEF PeerInv, PeerTypes
<1>8. \A h \in called : /\ h.owner \in Owners /\ h.slot \in Slots /\ h.gen \in Nat
                        /\ h.owner = o /\ h.slot = s => h.gen < g.gen /\ h \in closed
  <2> SUFFICES ASSUME NEW h \in called
               PROVE  /\ h.owner \in Owners /\ h.slot \in Slots /\ h.gen \in Nat
                      /\ h.owner = o /\ h.slot = s => h.gen < g.gen /\ h \in closed
    OBVIOUS
  <2>1. h.owner \in Owners /\ h.slot \in Slots /\ h.gen \in Nat
    BY <1>7 DEF Handles
  <2>2. /\ peers[h.owner][h.slot].phase = "adopted" => h.gen < peers[h.owner][h.slot].gen
        /\ h \notin closed => peers[h.owner][h.slot].opened
    BY DEF PeerInv, GenerationInv
  <2>3. peers[o][s].opened => peers[o][s].phase \in {"open", "closing"}
    BY DEF PeerInv, OpenedInv
  <2> QED
    BY <1>3, <2>1, <2>2, <2>3
<1>9. closed \subseteq called
  BY DEF PeerInv, PeerTypes
<1>10. g \notin called
  BY <1>3, <1>5, <1>8
<1>11. PeerTypes'
  BY <1>6, <1>7, <1>9 DEF PeerTypes
<1>12. UniqueInv'
  BY <1>3, <1>5, <1>7, <1>8 DEF PeerInv, UniqueInv
<1>13. Handle(o, s)' = g
  BY <1>3, <1>5, <1>6, <1>2 DEF Handle
<1>14. OpenedInv'
  <2> SUFFICES ASSUME NEW p \in Owners, NEW q \in Slots
               PROVE  /\ peers'[p][q].phase = "adopted" => peers'[p][q].used
                      /\ peers'[p][q].opened =>
                           /\ peers'[p][q].used /\ peers'[p][q].phase \in {"open", "closing"}
                           /\ own'[p].pc \in Serving
                           /\ Handle(p, q)' \in called' /\ Handle(p, q)' \notin closed'
    BY Zenon DEF OpenedInv
  <2>1. CASE p = o /\ q = s
    <3>1. peers[o][s].used
      BY DEF PeerInv, OpenedInv
    <3> QED
      BY <1>5, <1>6, <1>7, <1>9, <1>10, <1>13, <2>1, <3>1 DEF ServingKept, Serving
  <2>2. CASE p # o \/ q # s
    <3>1. peers'[p][q] = peers[p][q]
      BY <1>6, <2>2
    <3>2. Handle(p, q)' = Handle(p, q)
      BY <3>1, Zenon DEF Handle
    <3>3. /\ peers[p][q].phase = "adopted" => peers[p][q].used
          /\ peers[p][q].opened =>
               /\ peers[p][q].used /\ peers[p][q].phase \in {"open", "closing"}
               /\ own[p].pc \in Serving /\ Handle(p, q) \in called /\ Handle(p, q) \notin closed
      BY DEF PeerInv, OpenedInv
    <3> QED
      BY <1>7, <3>1, <3>2, <3>3, Zenon DEF ServingKept
  <2> QED
    BY <2>1, <2>2, Zenon
<1>15. GenerationInv'
  <2> SUFFICES ASSUME NEW h \in called'
               PROVE  /\ h.gen <= peers'[h.owner][h.slot].gen
                      /\ peers'[h.owner][h.slot].phase = "adopted"
                           => h.gen < peers'[h.owner][h.slot].gen
                      /\ h \notin closed' => /\ peers'[h.owner][h.slot].opened
                                             /\ h = Handle(h.owner, h.slot)'
    BY ZenonT(60) DEF GenerationInv
  <2>1. CASE h = g
    BY <1>3, <1>5, <1>6, <1>13, <2>1
  <2>2. CASE h \in called /\ h.owner = o /\ h.slot = s
    BY <1>3, <1>5, <1>6, <1>8, <2>2
  <2>3. CASE h \in called /\ (h.owner # o \/ h.slot # s)
    <3>1. peers'[h.owner][h.slot] = peers[h.owner][h.slot]
      BY <1>6, <1>8, <2>3
    <3> QED
      BY <2>3, <3>1, Zenon DEF PeerInv, GenerationInv, Handle
  <2> QED
    BY <1>7, <2>1, <2>2, <2>3, Zenon
<1> QED
  BY <1>11, <1>12, <1>14, <1>15 DEF PeerInv

\* on_close: slots of an owner retire, and each open one closes its handle.
\* The worker goes on serving unless it has ended every slot that was open.
LEMMA EndedMoves ==
    ASSUME PeerInv, NEW o \in Owners, NEW ss \in SUBSET Slots, Ended(o, ss), UNCHANGED called,
           \A p \in Owners \ {o} : own'[p].pc = own[p].pc,
           \/ own'[o].pc \in Serving
           \/ \A s \in Slots : peers[o][s].opened => s \in ss
    PROVE  PeerInv'
<1>1. peers \in [Owners -> [Slots -> PeerRecords]] /\ called \subseteq Handles
      /\ closed \subseteq called
  BY DEF PeerInv, PeerTypes
<1>2. \A s \in Slots : peers[o][s] \in PeerRecords
  BY <1>1
<1>3. /\ \A s \in ss : peers'[o][s] = [peers[o][s] EXCEPT !.opened = FALSE, !.phase = "retired"]
      /\ \A s \in Slots \ ss : peers'[o][s] = peers[o][s]
      /\ \A p \in Owners \ {o} : peers'[p] = peers[p]
      /\ DOMAIN peers' = Owners
      /\ \E f : f = peers'[o] /\ f = [s \in Slots |-> f[s]]
  BY <1>1, Zenon DEF Ended
<1>4. \A s \in ss : /\ peers'[o][s] \in PeerRecords
                    /\ ~peers'[o][s].opened /\ peers'[o][s].phase = "retired"
                    /\ peers'[o][s].gen = peers[o][s].gen
  <2> SUFFICES ASSUME NEW s \in ss
               PROVE  /\ peers'[o][s] \in PeerRecords
                      /\ ~peers'[o][s].opened /\ peers'[o][s].phase = "retired"
                      /\ peers'[o][s].gen = peers[o][s].gen
    OBVIOUS
  <2>1. PICK r \in PeerRecords : r = peers[o][s]
    BY <1>2
  <2>2. peers'[o][s] = [r EXCEPT !.opened = FALSE, !.phase = "retired"]
    BY <1>3, <2>1, Zenon
  <2> QED
    BY <2>1, <2>2, Zenon DEF PeerRecords
<1>5. \A h : h \in closed' <=> \/ h \in closed
                              \/ \E s \in ss : peers[o][s].opened /\ h = Handle(o, s)
  BY Zenon DEF Ended
<1>6. \A s \in Slots : peers[o][s].opened => Handle(o, s) \in called
  BY DEF PeerInv, OpenedInv
<1>7. PeerTypes'
  <2>1. peers'[o] \in [Slots -> PeerRecords]
    BY <1>2, <1>3, <1>4, Zenon
  <2>2. peers' \in [Owners -> [Slots -> PeerRecords]]
    BY <1>1, <1>3, <2>1, Zenon DEF Ended
  <2>3. closed' \subseteq called
    BY <1>1, <1>5, <1>6
  <2> QED
    BY <1>1, <2>2, <2>3 DEF PeerTypes
<1>8. UniqueInv'
  BY SMTT(60) DEF PeerInv, UniqueInv
<1>9. OpenedInv'
  <2> SUFFICES ASSUME NEW p \in Owners, NEW q \in Slots
               PROVE  /\ peers'[p][q].phase = "adopted" => peers'[p][q].used
                      /\ peers'[p][q].opened =>
                           /\ peers'[p][q].used /\ peers'[p][q].phase \in {"open", "closing"}
                           /\ own'[p].pc \in Serving
                           /\ Handle(p, q)' \in called' /\ Handle(p, q)' \notin closed'
    BY DEF OpenedInv
  <2>1. CASE p = o /\ q \in ss
    BY <1>4, <2>1, SMTT(60)
  <2>2. CASE p # o \/ q \notin ss
    <3>1. peers'[p][q] = peers[p][q]
      BY <1>3, <2>2, Zenon
    <3>2. /\ peers[p][q].phase = "adopted" => peers[p][q].used
          /\ peers[p][q].opened =>
               /\ peers[p][q].used /\ peers[p][q].phase \in {"open", "closing"}
               /\ own[p].pc \in Serving /\ Handle(p, q) \in called /\ Handle(p, q) \notin closed
      BY DEF PeerInv, OpenedInv
    <3>3. Handle(p, q)' = Handle(p, q)
      BY <3>1 DEF Handle
    <3>4. peers[p][q].opened => own'[p].pc \in Serving
      BY <2>2, <3>2
    <3>5. \A s \in ss : Handle(p, q) # Handle(o, s)
      BY <2>2, SMTT(60) DEF Handle
    <3> QED
      BY <1>5, <3>1, <3>2, <3>3, <3>4, <3>5
  <2> QED
    BY <2>1, <2>2
<1>10. GenerationInv'
  <2> SUFFICES ASSUME NEW h \in called
               PROVE  /\ h.gen <= peers'[h.owner][h.slot].gen
                      /\ peers'[h.owner][h.slot].phase = "adopted"
                           => h.gen < peers'[h.owner][h.slot].gen
                      /\ h \notin closed' => /\ peers'[h.owner][h.slot].opened
                                             /\ h = Handle(h.owner, h.slot)'
    BY DEF GenerationInv
  <2>1. h.owner \in Owners /\ h.slot \in Slots
    BY <1>1, SMTT(60) DEF Handles
  <2>2. /\ h.gen <= peers[h.owner][h.slot].gen
        /\ peers[h.owner][h.slot].phase = "adopted" => h.gen < peers[h.owner][h.slot].gen
        /\ h \notin closed => /\ peers[h.owner][h.slot].opened
                              /\ h = Handle(h.owner, h.slot)
    BY SMTT(60) DEF PeerInv, GenerationInv
  <2>3. CASE h.owner = o /\ h.slot \in ss
    BY <1>4, <1>5, <2>2, <2>3, SMTT(60)
  <2>4. CASE h.owner # o \/ h.slot \notin ss
    <3>1. peers'[h.owner][h.slot] = peers[h.owner][h.slot]
      BY <1>3, <2>1, <2>4, Zenon
    <3> QED
      BY <1>5, <2>2, <3>1 DEF Handle
  <2> QED
    BY <2>3, <2>4, SMTT(60)
<1> QED
  BY <1>7, <1>8, <1>9, <1>10 DEF PeerInv

\* The handles of an owner that has ended its connections are closed, so its
\* slots can be emptied.
LEMMA FinishMoves ==
    ASSUME PeerInv, NEW o \in Owners, own[o].pc \notin Serving, UNCHANGED <<called, closed>>,
           \A p \in Owners \ {o} : own'[p].pc = own[p].pc,
           peers' = [peers EXCEPT ![o] = [s \in Slots |-> Empty(@[s].gen)]]
    PROVE  PeerInv'
<1>1. peers \in [Owners -> [Slots -> PeerRecords]] /\ called \subseteq Handles
  BY DEF PeerInv, PeerTypes
<1>2. /\ \A s \in Slots : peers'[o][s] = Empty(peers[o][s].gen)
      /\ \A p \in Owners \ {o} : peers'[p] = peers[p]
  BY <1>1
<1>3. \A s \in Slots : peers[o][s].gen \in Nat /\ ~peers[o][s].opened
  BY <1>1 DEF PeerInv, OpenedInv, PeerRecords
<1>4. \A g \in Nat : /\ Empty(g) \in PeerRecords /\ ~Empty(g).opened /\ Empty(g).gen = g
                     /\ Empty(g).phase = "none"
  BY DEF Empty, PeerRecords
<1>5. peers' \in [Owners -> [Slots -> PeerRecords]]
  BY <1>1, <1>3, <1>4
<1>6. PeerTypes' /\ UniqueInv'
  BY <1>5, SMTT(60) DEF PeerInv, PeerTypes, UniqueInv
<1>7. OpenedInv'
  <2> SUFFICES ASSUME NEW p \in Owners, NEW q \in Slots
               PROVE  /\ peers'[p][q].phase = "adopted" => peers'[p][q].used
                      /\ peers'[p][q].opened =>
                           /\ peers'[p][q].used /\ peers'[p][q].phase \in {"open", "closing"}
                           /\ own'[p].pc \in Serving
                           /\ Handle(p, q)' \in called' /\ Handle(p, q)' \notin closed'
    BY SMTT(60) DEF OpenedInv
  <2>1. CASE p = o
    BY <1>2, <1>3, <1>4, <2>1, SMTT(60)
  <2>2. CASE p # o
    BY <1>2, <2>2 DEF PeerInv, OpenedInv, Handle
  <2> QED
    BY <2>1, <2>2, SMTT(60)
<1>8. GenerationInv'
  <2> SUFFICES ASSUME NEW h \in called
               PROVE  /\ h.gen <= peers'[h.owner][h.slot].gen
                      /\ peers'[h.owner][h.slot].phase = "adopted"
                           => h.gen < peers'[h.owner][h.slot].gen
                      /\ h \notin closed => /\ peers'[h.owner][h.slot].opened
                                            /\ h = Handle(h.owner, h.slot)'
    BY DEF GenerationInv
  <2>1. h.owner \in Owners /\ h.slot \in Slots
    BY <1>1, SMTT(60) DEF Handles
  <2>2. /\ h.gen <= peers[h.owner][h.slot].gen
        /\ peers[h.owner][h.slot].phase = "adopted" => h.gen < peers[h.owner][h.slot].gen
        /\ h \notin closed => /\ peers[h.owner][h.slot].opened
                              /\ h = Handle(h.owner, h.slot)
    BY SMTT(60) DEF PeerInv, GenerationInv
  <2>3. CASE h.owner = o
    BY <1>2, <1>3, <1>4, <2>1, <2>2, <2>3, SMTT(60)
  <2>4. CASE h.owner # o
    BY <1>2, <2>1, <2>2, <2>4 DEF Handle
  <2> QED
    BY <2>3, <2>4, ZenonT(60)
<1> QED
  BY <1>6, <1>7, <1>8 DEF PeerInv

\* Adoption of a stream, accepted or refused, in a slot that is not used.
LEMMA AdoptMoves ==
    ASSUME PeerInv, ThreadTypes, NEW o \in Owners, own[o].pc = "run", NEW x \in Nat,
           NEW ticket \in BOOLEAN, stream_adopt(o, x, ticket), UNCHANGED <<called, closed>>
    PROVE  PeerInv'
<1>1. ServingKept
  <2>1. UNCHANGED own \/ \E status : own' = [own EXCEPT ![o].pc = "group", ![o].status = status]
    BY Zenon DEF stream_adopt, Leaves
  <2> QED
    BY <2>1, SMTT(60) DEF ServingKept, Serving, ThreadTypes, OwnerRecords
<1>2. CASE UNCHANGED peers
  BY <1>1, <1>2, PeerStutter, SMTT(60)
<1>3. ASSUME NEW s \in Acquired(o)
      PROVE  s \in Slots /\ peers[o][s].gen \in Nat /\ ~peers[o][s].opened
  <2>1. s \in Slots /\ ~peers[o][s].used
    BY <1>3 DEF Acquired, Free
  <2> QED
    BY <2>1 DEF PeerInv, PeerTypes, PeerRecords, OpenedInv
<1>4. ASSUME NEW s \in Acquired(o), NEW r \in PeerRecords, peers' = [peers EXCEPT ![o][s] = r],
             ~r.opened, r.gen >= peers[o][s].gen,
             r.phase = "adopted" => r.used /\ r.gen > peers[o][s].gen
      PROVE  PeerInv'
  BY <1>1, <1>3, <1>4, UnopenedMoves, Zenon
<1>5. ASSUME NEW s \in Acquired(o), NEW gen \in Nat
      PROVE  LET peer == [used |-> TRUE, opened |-> FALSE, phase |-> "adopted", stream |-> x,
                          ticket |-> ticket, gen |-> gen + 1]
                 retired == [peer EXCEPT !.phase = "retired", !.gen = @ - 1]
             IN  /\ peer \in PeerRecords /\ ~peer.opened /\ peer.gen = gen + 1 /\ peer.used
                 /\ retired \in PeerRecords /\ ~retired.opened /\ retired.gen = gen
                 /\ retired.phase = "retired"
  <2> DEFINE peer == [used |-> TRUE, opened |-> FALSE, phase |-> "adopted", stream |-> x,
                      ticket |-> ticket, gen |-> gen + 1]
             retired == [peer EXCEPT !.phase = "retired", !.gen = @ - 1]
  <2>1. peer \in PeerRecords /\ ~peer.opened /\ peer.gen = gen + 1 /\ peer.used
    BY DEF PeerRecords
  <2>2. retired.phase = "retired" /\ ~retired.opened /\ retired.gen = gen + 1 - 1
    OBVIOUS
  <2>3. gen + 1 - 1 = gen
    OBVIOUS
  <2>4. [peer EXCEPT !.phase = "retired", !.gen = gen] \in PeerRecords
    BY Zenon DEF PeerRecords
  <2> QED
    BY <2>1, <2>2, <2>3, <2>4, ZenonT(60)
<1>6. ASSUME NEW s \in Acquired(o),
             LET peer == [used |-> TRUE, opened |-> FALSE, phase |-> "adopted", stream |-> x,
                          ticket |-> ticket, gen |-> peers[o][s].gen + 1]
             IN  \/ peers' = [peers EXCEPT ![o][s] = peer]
                 \/ peers' = [peers EXCEPT ![o][s] =
                                [peer EXCEPT !.phase = "retired", !.gen = @ - 1]]
      PROVE  PeerInv'
  <2>1. PICK gen \in Nat : gen = peers[o][s].gen
    BY <1>3
  <2>2. PICK r \in PeerRecords :
           /\ peers' = [peers EXCEPT ![o][s] = r] /\ ~r.opened /\ r.gen >= gen
           /\ r.phase = "adopted" => r.used /\ r.gen > gen
    <3> DEFINE peer == [used |-> TRUE, opened |-> FALSE, phase |-> "adopted", stream |-> x,
                        ticket |-> ticket, gen |-> gen + 1]
               retired == [peer EXCEPT !.phase = "retired", !.gen = @ - 1]
    <3>1. /\ peer \in PeerRecords /\ ~peer.opened /\ peer.gen = gen + 1 /\ peer.used
          /\ retired \in PeerRecords /\ ~retired.opened /\ retired.gen = gen
          /\ retired.phase = "retired"
      BY <1>5, Zenon
    <3>2. peers' = [peers EXCEPT ![o][s] = peer] \/ peers' = [peers EXCEPT ![o][s] = retired]
      BY <1>6, <2>1
    <3> HIDE DEF peer, retired
    <3> QED
      BY <3>1, <3>2
  <2> QED
    BY <1>4, <2>1, <2>2, Zenon
<1> QED
  BY <1>2, <1>6, Zenon DEF stream_adopt

\* The steps of a worker's loop.
LEMMA LoopHandles ==
    ASSUME ThreadInv, HandleInv, NEW o \in Owners, LoopStep(o)
    PROVE  PeerInv'
<1> USE DEF HandleInv
<1>1. own[o].pc = "run" /\ own \in [Owners -> OwnerRecords]
  BY Zenon DEF LoopStep, accepted_progress, stream_accept, command_progress, PeerConnected,
               PeerReceive, PeerClosed, stream_recycle, RuntimeRunning, ThreadInv, ThreadTypes
<1>2. CASE accepted_progress(o)
  <2>1. Head(handoff[o].queue) \in Nat
    BY <1>2 DEF accepted_progress, QueueInv, Handoffs
  <2>2. stream_adopt(o, Head(handoff[o].queue), TRUE) /\ UNCHANGED <<called, closed>>
    BY <1>2, Zenon DEF accepted_progress, callbacks
  <2> QED
    BY <1>1, <2>1, <2>2, AdoptMoves, Zenon DEF ThreadInv
<1>3. CASE stream_accept(o)
  <2>1. PICK x \in Streams : stream_adopt(o, x, FALSE)
    BY <1>3, Zenon DEF stream_accept
  <2>2. UNCHANGED <<called, closed>> /\ x \in Nat
    BY <1>3, SMTT(60) DEF stream_accept, callbacks, Streams
  <2> QED
    BY <1>1, <2>1, <2>2, AdoptMoves, Zenon DEF ThreadInv
<1>4. CASE command_progress(o)
  <2> DEFINE c == Head(mail[o])
  <2>1. UNCHANGED <<own, called, closed>> /\ ServingKept
    BY <1>4 DEF command_progress, callbacks, ServingKept
  <2>2. c.handle.slot \in Slots
    <3>1. c \in Commands
      BY <1>4 DEF command_progress, MailInv
    <3> HIDE DEF c
    <3> QED
      BY <3>1, SMTT(60) DEF Commands, Handles
  <2>3. \/ UNCHANGED peers
        \/ peers' = [peers EXCEPT ![o][c.handle.slot].phase = "closing"]
    BY <1>4, Zenon DEF command_progress
  <2> QED
    BY <2>1, <2>2, <2>3, PeerStutter, ClosingMoves, SMTT(60)
<1>5. ASSUME NEW s \in Slots, PeerConnected(o, s) PROVE PeerInv'
  <2>1. UNCHANGED <<own, closed>> /\ ServingKept /\ peers[o][s].phase = "adopted"
    BY <1>5 DEF PeerConnected, ServingKept
  <2>2. CASE /\ peers' = [peers EXCEPT ![o][s].phase = "closing"]
             /\ UNCHANGED called
    BY <2>1, <2>2, ClosingMoves, Zenon
  <2>3. CASE /\ \E phase \in {"open", "closing"} :
                  peers' = [peers EXCEPT ![o][s].opened = TRUE, ![o][s].phase = phase]
             /\ called' = called \cup {Handle(o, s)}
    BY <1>1, <2>1, <2>3, OpenMoves, Zenon
  <2> QED
    BY <1>5, <2>2, <2>3, Zenon DEF PeerConnected
<1>6. ASSUME NEW s \in Slots, PeerReceive(o, s) PROVE PeerInv'
  BY <1>6, ClosingMoves, Zenon DEF PeerReceive, callbacks, ServingKept
<1>7. ASSUME NEW s \in Slots, PeerClosed(o, s) PROVE PeerInv'
  <2>1. Ended(o, {s}) /\ UNCHANGED <<own, called>>
    BY <1>7 DEF PeerClosed
  <2> QED
    BY <1>1, <2>1, EndedMoves DEF Serving
<1>8. ASSUME NEW s \in Slots, stream_recycle(o, s) PROVE PeerInv'
  <2>1. UNCHANGED <<own, called, closed>> /\ ServingKept /\ peers[o][s].phase = "retired"
    BY <1>8 DEF stream_recycle, callbacks, ServingKept
  <2>2. peers[o][s].gen \in Nat /\ ~peers[o][s].opened
    BY <2>1 DEF PeerInv, PeerTypes, PeerRecords, OpenedInv
  <2>3. PICK r \in PeerRecords : r = Empty(peers[o][s].gen)
    BY <2>2, Zenon DEF Empty, PeerRecords
  <2>4. peers' = [peers EXCEPT ![o][s] = r]
    BY <1>8, <2>3, SMTT(60) DEF stream_recycle
  <2>5. ~r.opened /\ r.gen >= peers[o][s].gen /\ r.phase # "adopted"
    BY <2>2, <2>3 DEF Empty
  <2> QED
    BY <2>1, <2>2, <2>4, <2>5, UnopenedMoves, Zenon
<1> QED
  BY <1>2, <1>3, <1>4, <1>5, <1>6, <1>7, <1>8 DEF LoopStep

\* The steps of a worker around its loop.
LEMMA OwnerHandles ==
    ASSUME ThreadInv, HandleInv, NEW o \in Owners, OwnerStep(o)
    PROVE  PeerInv'
<1> USE DEF HandleInv
<1>1. own \in [Owners -> OwnerRecords]
  BY DEF ThreadInv, ThreadTypes
<1>2. CASE WorkerInit(o) \/ WorkerLeaves(o) \/ WorkerCloses(o) \/ WorkerDrains(o)
  <2>1. UNCHANGED <<peers, called, closed>>
    BY <1>2, Zenon DEF WorkerInit, WorkerLeaves, WorkerCloses, WorkerDrains, callbacks
  <2>2. own'[o].pc \in {"run", "group", "closing", "stop"}
    <3>1. own[o] \in OwnerRecords
      BY <1>1
    <3>2. CASE WorkerInit(o)
      <4>1. CASE own' = [own EXCEPT ![o].pc = "run", ![o].init = TRUE, ![o].ready = TRUE]
        BY <1>1, <3>1, <4>1 DEF OwnerRecords
      <4>2. ASSUME NEW init \in BOOLEAN,
                   own' = [own EXCEPT ![o].pc = "group", ![o].init = init, ![o].ready = TRUE,
                                      ![o].status = "EIO"]
            PROVE  own'[o].pc = "group"
        BY <1>1, <3>1, <4>2 DEF OwnerRecords
      <4> QED
        BY <3>2, <4>1, <4>2, Zenon DEF WorkerInit
    <3>3. CASE WorkerLeaves(o)
      BY <1>1, <3>1, <3>3 DEF WorkerLeaves, Leaves, OwnerRecords
    <3>4. CASE WorkerCloses(o)
      BY <1>1, <3>1, <3>4 DEF WorkerCloses, OwnerRecords
    <3>5. CASE WorkerDrains(o)
      BY <1>1, <3>1, <3>5 DEF WorkerDrains, OwnerRecords
    <3> QED
      BY <1>2, <3>2, <3>3, <3>4, <3>5
  <2>3. \A p \in Owners \ {o} : own'[p] = own[p]
    BY <1>1, <1>2, ZenonT(60) DEF WorkerInit, WorkerLeaves, Leaves, WorkerCloses, WorkerDrains
  <2> QED
    BY <2>1, <2>2, <2>3, PeerStutter DEF ServingKept, Serving
<1>3. CASE WorkerStops(o)
  <2>1. Ended(o, Live(o)) /\ UNCHANGED called
    BY <1>3 DEF WorkerStops
  <2>2. \A p \in Owners \ {o} : own'[p].pc = own[p].pc
    BY <1>1, <1>3, SMTT(60) DEF WorkerStops
  <2>3. \A s \in Slots : peers[o][s].opened => s \in Live(o)
    BY SMTT(60) DEF PeerInv, OpenedInv, Live
  <2>4. Live(o) \in SUBSET Slots
    BY SMTT(60) DEF Live
  <2> QED
    BY <2>1, <2>2, <2>3, <2>4, EndedMoves
<1>4. CASE WorkerFinishes(o)
  <2>1. own[o].pc \notin Serving /\ UNCHANGED <<called, closed>>
    BY <1>4 DEF WorkerFinishes, Serving, callbacks
  <2>2. \A p \in Owners \ {o} : own'[p].pc = own[p].pc
    BY <1>1, <1>4 DEF WorkerFinishes
  <2>3. peers' = [peers EXCEPT ![o] = [s \in Slots |-> Empty(@[s].gen)]]
    BY <1>4 DEF WorkerFinishes
  <2> QED
    BY <2>1, <2>2, <2>3, FinishMoves
<1> QED
  BY <1>2, <1>3, <1>4 DEF OwnerStep

\* The threads that never touch a peer table.
LEMMA OtherHandles ==
    ASSUME ThreadInv, HandleInv,
           \/ AcceptStep \/ (\E t \in Threads : StopStep(t)) \/ SubmitWake \/ SubmitWoken
           \/ (\E h \in called, kind \in {"send", "close"} : command_submit(h, kind))
           \/ ControlStep \/ StopTimeout
    PROVE  PeerInv'
<1>1. UNCHANGED <<peers, called, closed>>
  BY Zenon DEF AcceptStep, AcceptStop, owner_reserve, AcceptStream, AcceptPublish, AcceptWake,
               AcceptWoken, AcceptClose, accept_mark_done, StopStep, request_stop, request_stop_woken,
               SubmitWake, SubmitWoken, command_submit, ControlStep, StartOwner, StartReady,
               StartAcceptor, StopCall, StopGroup, StopMark, StopJoinsAccept, StopJoinsOwner,
               server_destroy, StopTimeout, callbacks
<1>2. ServingKept
  <2>1. own \in [Owners -> OwnerRecords]
    BY DEF ThreadInv, ThreadTypes
  <2>2. CASE \/ AcceptStep \/ (\E t \in Threads : StopStep(t)) \/ SubmitWake \/ SubmitWoken
             \/ (\E h \in called, kind \in {"send", "close"} : command_submit(h, kind))
    <3>1. PICK o : own' = own \/ own' = [own EXCEPT ![o].stop = TRUE]
      BY <2>2, Zenon
      DEF AcceptStep, AcceptStop, owner_reserve, AcceptStream, AcceptPublish, AcceptWake,
          AcceptWoken, AcceptClose, accept_mark_done, StopStep, request_stop,
          request_stop_woken, SubmitWake, SubmitWoken, command_submit
    <3> QED
      BY <2>1, <3>1 DEF ServingKept, OwnerRecords
  <2>3. CASE ControlStep \/ StopTimeout
    <3>1. CASE StartOwner
      <4>1. ctl.i \in Owners /\ own[ctl.i].pc = "none"
        BY <3>1, ConnectionAssumption
        DEF StartOwner, ThreadInv, ThreadTypes, JoinInv, Untouched, Owners
      <4>2. \A p \in Owners \ {ctl.i} : own'[p] = own[p]
        BY <2>1, <3>1 DEF StartOwner, StartFails
      <4> QED
        BY <4>1, <4>2 DEF ServingKept, Serving
    <3>2. CASE StopJoinsOwner
      BY <2>1, <3>2, SMTT(60) DEF StopJoinsOwner, ServingKept, OwnerRecords
    <3>3. CASE (ControlStep /\ ~StartOwner /\ ~StopJoinsOwner) \/ StopTimeout
      BY <3>3 DEF ControlStep, StartReady, StartFails, StartAcceptor, StopCall, StopGroup,
                  StopMark, StopJoinsAccept, server_destroy, StopTimeout, ServingKept
    <3> QED
      BY <2>3, <3>1, <3>2, <3>3
  <2> QED
    BY <2>2, <2>3
<1> QED
  BY <1>1, <1>2, PeerStutter DEF HandleInv

\* Mailboxes: a command is appended with a handle on_open gave out, or leaves.
LEMMA MailStep ==
    ASSUME HandleInv, [ConnNext]_connVars
    PROVE  MailInv'
<1>1. called \subseteq called' /\ called \subseteq Handles /\ mail \in [Owners -> Seq(Commands)]
  <2>1. UNCHANGED called \/ \E o \in Group, s \in Slots : PeerConnected(o, s)
    BY ZenonT(60) DEF ConnNext, connVars, Ended_, callbacks, AcceptStep, AcceptStop, owner_reserve,
                 AcceptStream, AcceptPublish, AcceptWake, AcceptWoken, AcceptClose, accept_mark_done,
                 StopStep, request_stop, request_stop_woken, SubmitWake, SubmitWoken, command_submit,
                 ControlStep, StartOwner, StartReady, StartAcceptor, StopCall, StopGroup, StopMark,
                 StopJoinsAccept, StopJoinsOwner, server_destroy, StopTimeout, OwnerStep, WorkerInit,
                 WorkerLeaves, WorkerCloses, WorkerDrains, WorkerStops, WorkerFinishes, LoopStep,
                 accepted_progress, stream_accept, command_progress, PeerReceive,
                 PeerClosed, stream_recycle
  <2> QED
    BY <2>1, Zenon DEF PeerConnected, HandleInv, PeerInv, PeerTypes, MailInv
<1>2. \/ UNCHANGED mail
      \/ \E o \in Group : command_progress(o)
      \/ \E h \in called, kind \in {"send", "close"} : command_submit(h, kind)
  BY ZenonT(60) DEF ConnNext, connVars, Ended_, AcceptStep, AcceptStop, owner_reserve,
               AcceptStream, AcceptPublish, AcceptWake, AcceptWoken, AcceptClose, accept_mark_done,
               StopStep, request_stop, request_stop_woken, SubmitWake, SubmitWoken,
               ControlStep, StartOwner, StartReady, StartAcceptor, StopCall, StopGroup, StopMark,
               StopJoinsAccept, StopJoinsOwner, server_destroy, StopTimeout, OwnerStep, WorkerInit,
               WorkerLeaves, WorkerCloses, WorkerDrains, WorkerStops, WorkerFinishes, LoopStep,
               accepted_progress, stream_accept, PeerConnected, PeerReceive, PeerClosed,
               stream_recycle
<1>3. CASE UNCHANGED mail
  BY <1>1, <1>3 DEF HandleInv, MailInv
<1>4. ASSUME NEW o \in Group, command_progress(o) PROVE MailInv'
  <2>1. mail' = [mail EXCEPT ![o] = Tail(mail[o])] /\ mail[o] # << >>
    BY <1>4 DEF command_progress
  <2>2. CASE o \in Owners
    <3>1. PICK q \in Seq(Commands) : q = mail[o]
      BY <1>1, <2>2
    <3>2. /\ Tail(q) \in Seq(Commands)
          /\ \A i \in DOMAIN Tail(q) : i + 1 \in DOMAIN q /\ Tail(q)[i] = q[i + 1]
      BY <2>1, <3>1
    <3>3. mail'[o] = Tail(q) /\ \A p \in Owners \ {o} : mail'[p] = mail[p]
      BY <1>1, <2>1, <2>2, <3>1
    <3>4. mail' \in [Owners -> Seq(Commands)]
      BY <1>1, <2>1, <3>1, <3>2, Zenon
    <3>5. \A i \in DOMAIN q : q[i].handle \in called /\ q[i].handle.owner = o
      BY <2>2, <3>1 DEF HandleInv, MailInv
    <3>6. \A i \in DOMAIN Tail(q) : Tail(q)[i].handle \in called' /\ Tail(q)[i].handle.owner = o
      BY <1>1, <3>2, <3>5
    <3> QED
      BY <1>1, <3>3, <3>4, <3>6, ZenonT(60) DEF HandleInv, MailInv
  <2>3. CASE o \notin Owners
    BY <1>1, <2>1, <2>3, Zenon DEF HandleInv, MailInv
  <2> QED
    BY <2>2, <2>3
<1>5. ASSUME NEW h \in called, NEW kind \in {"send", "close"}, command_submit(h, kind)
      PROVE  MailInv'
  <2>1. PICK o \in Owners : o = h.owner
    BY <1>1 DEF Handles
  <2>2. PICK c \in Commands : c.handle = h /\ mail' = [mail EXCEPT ![o] = Append(mail[o], c)]
    <3>1. [handle |-> h, kind |-> kind] \in Commands
      BY <1>1 DEF Commands
    <3> QED
      BY <1>5, <2>1, <3>1, Zenon DEF command_submit
  <2>3. PICK q \in Seq(Commands) : q = mail[o]
    BY <1>1
  <2>4. /\ Append(q, c) \in Seq(Commands)
        /\ \A i \in DOMAIN Append(q, c) : \/ i \in DOMAIN q /\ Append(q, c)[i] = q[i]
                                          \/ Append(q, c)[i] = c
    OBVIOUS
  <2>5. mail'[o] = Append(q, c) /\ \A p \in Owners \ {o} : mail'[p] = mail[p]
    BY <1>1, <2>2, <2>3
  <2>6. mail' \in [Owners -> Seq(Commands)]
    BY <1>1, <2>2, <2>3, <2>4
  <2>7. \A i \in DOMAIN q : q[i].handle \in called /\ q[i].handle.owner = o
    BY <2>3 DEF HandleInv, MailInv
  <2>8. \A i \in DOMAIN Append(q, c) : /\ Append(q, c)[i].handle \in called'
                                       /\ Append(q, c)[i].handle.owner = o
    BY <1>1, <2>1, <2>2, <2>4, <2>7
  <2> QED
    BY <1>1, <2>5, <2>6, <2>8, ZenonT(60) DEF HandleInv, MailInv
<1> QED
  BY <1>2, <1>3, <1>4, <1>5

\* Handoffs: sealed, reserved in, filled with an accepted stream, and emptied.
LEMMA QueueStep ==
    ASSUME ThreadInv, HandleInv, [ConnNext]_connVars
    PROVE  QueueInv'
<1>1. handoff \in [Owners -> Handoffs] /\ acc.stream \in Nat
  BY ConnectionAssumption, SMTT(60)
  DEF HandleInv, QueueInv, ThreadInv, ThreadTypes, AcceptorRecords
<1>2. \/ UNCHANGED handoff
      \/ \E t \in Threads : request_stop(t)
      \/ owner_reserve \/ AcceptStream \/ AcceptPublish
      \/ \E o \in Group : accepted_progress(o) \/ WorkerDrains(o)
  <2>1. CASE AcceptStep
    BY <2>1 DEF AcceptStep, AcceptStop, AcceptWake, AcceptWoken, AcceptClose, accept_mark_done
  <2>2. CASE (\E t \in Threads : StopStep(t)) \/ SubmitWake \/ SubmitWoken
    BY <2>2, SMTT(60) DEF StopStep, request_stop_woken, SubmitWake, SubmitWoken
  <2>3. CASE \E h \in called, kind \in {"send", "close"} : command_submit(h, kind)
    BY <2>3, SMTT(60) DEF command_submit
  <2>4. CASE ControlStep \/ StopTimeout
    BY <2>4 DEF ControlStep, StartOwner, StartReady, StartAcceptor, StopCall, StopGroup,
                StopMark, StopJoinsAccept, StopJoinsOwner, server_destroy, StopTimeout
  <2>5. CASE \E o \in Group : OwnerStep(o)
    BY <2>5, Zenon
    DEF OwnerStep, WorkerInit, WorkerLeaves, WorkerCloses, WorkerStops, WorkerFinishes
  <2>6. CASE \E o \in Group : LoopStep(o)
    BY <2>6, ZenonT(60) DEF LoopStep, stream_accept, command_progress, PeerConnected, PeerReceive,
                       PeerClosed, stream_recycle
  <2> QED
    BY <2>1, <2>2, <2>3, <2>4, <2>5, <2>6 DEF ConnNext, Ended_, connVars
<1>3. ASSUME NEW o, NEW r, handoff' = [handoff EXCEPT ![o] = r],
             o \in Owners => r \in Handoffs
      PROVE  QueueInv'
  BY <1>1, <1>3, Zenon DEF QueueInv
<1>4. ASSUME NEW r \in Handoffs, NEW x \in Nat
      PROVE  /\ [r EXCEPT !.sealed = TRUE] \in Handoffs
             /\ [r EXCEPT !.reserved = @ + 1] \in Handoffs
             /\ [r EXCEPT !.reserved = @ - 1] \in Handoffs
             /\ [r EXCEPT !.queue = << >>] \in Handoffs
             /\ r.queue # << >> => [r EXCEPT !.queue = Tail(@)] \in Handoffs
             /\ [r EXCEPT !.reserved = @ - 1, !.queue = Append(@, x)] \in Handoffs
  <2>1. r.reserved + 1 \in Int /\ r.reserved - 1 \in Int /\ Append(r.queue, x) \in Seq(Nat)
        /\ (r.queue # << >> => Tail(r.queue) \in Seq(Nat))
    BY DEF Handoffs
  <2>2. [r EXCEPT !.sealed = TRUE] \in Handoffs
    BY Zenon DEF Handoffs
  <2>3. [r EXCEPT !.reserved = @ + 1] \in Handoffs /\ [r EXCEPT !.reserved = @ - 1] \in Handoffs
    BY <2>1 DEF Handoffs
  <2>4. [r EXCEPT !.queue = << >>] \in Handoffs
    <3>1. PICK q \in Seq(Nat) : q = << >>
      <4>1. << >> \in Seq(Nat)
        OBVIOUS
      <4> QED
        BY <4>1, Zenon
    <3>2. [r EXCEPT !.queue = q] \in Handoffs
      BY DEF Handoffs
    <3> QED
      BY <3>1, <3>2
  <2>5. r.queue # << >> => [r EXCEPT !.queue = Tail(@)] \in Handoffs
    BY <2>1, Zenon DEF Handoffs
  <2>6. [r EXCEPT !.reserved = @ - 1, !.queue = Append(@, x)] \in Handoffs
    <3>1. PICK i \in Int, q \in Seq(Nat) : i = r.reserved - 1 /\ q = Append(r.queue, x)
      BY <2>1, Zenon
    <3>2. [r EXCEPT !.reserved = i, !.queue = q] \in Handoffs
      BY Zenon DEF Handoffs
    <3> QED
      BY <3>1, <3>2
  <2> QED
    BY <2>2, <2>3, <2>4, <2>5, <2>6
<1>5. ASSUME NEW o, \/ handoff' = [handoff EXCEPT ![o].sealed = TRUE]
                    \/ handoff' = [handoff EXCEPT ![o].reserved = @ + 1]
                    \/ handoff' = [handoff EXCEPT ![o].reserved = @ - 1]
                    \/ handoff' = [handoff EXCEPT ![o].queue = << >>]
                    \/ /\ handoff' = [handoff EXCEPT ![o].queue = Tail(@)]
                       /\ handoff[o].queue # << >>
                    \/ handoff' = [handoff EXCEPT ![o].reserved = @ - 1,
                                                  ![o].queue = Append(@, acc.stream)]
      PROVE  QueueInv'
  <2>1. o \in Owners => handoff[o] \in Handoffs
    BY <1>1, SMTT(60)
  <2>2. PICK r : /\ handoff' = [handoff EXCEPT ![o] = r]
                 /\ \/ r = [handoff[o] EXCEPT !.sealed = TRUE]
                    \/ r = [handoff[o] EXCEPT !.reserved = @ + 1]
                    \/ r = [handoff[o] EXCEPT !.reserved = @ - 1]
                    \/ r = [handoff[o] EXCEPT !.queue = << >>]
                    \/ /\ r = [handoff[o] EXCEPT !.queue = Tail(@)]
                       /\ handoff[o].queue # << >>
                    \/ r = [handoff[o] EXCEPT !.reserved = @ - 1,
                                              !.queue = Append(@, acc.stream)]
    BY <1>5, SMTT(60)
  <2>3. o \in Owners => r \in Handoffs
    BY <1>1, <1>4, <2>1, <2>2, Zenon
  <2> QED
    BY <1>3, <2>2, <2>3, Zenon
<1>6. CASE \/ \E t \in Threads : request_stop(t)
           \/ owner_reserve \/ AcceptStream
           \/ \E o \in Group : WorkerDrains(o)
  BY <1>1, <1>5, <1>6, Zenon
  DEF request_stop, owner_reserve, AcceptStream, Unreserve, WorkerDrains, QueueInv
<1>7. CASE AcceptPublish
  BY <1>5, <1>7 DEF AcceptPublish, Unreserve
<1>8. ASSUME NEW o \in Group, accepted_progress(o) PROVE QueueInv'
  BY <1>5, <1>8, Zenon DEF accepted_progress
<1> QED
  BY <1>1, <1>2, <1>6, <1>7, <1>8 DEF QueueInv

\* Every step keeps HandleInv.
LEMMA HandleStep == ThreadInv /\ HandleInv /\ [ConnNext]_connVars => HandleInv'
<1> SUFFICES ASSUME ThreadInv, HandleInv, [ConnNext]_connVars PROVE HandleInv'
  OBVIOUS
<1>1. MailInv' /\ QueueInv'
  BY MailStep, QueueStep
<1>2. PeerInv'
  <2>1. Group \subseteq Owners
    BY ConnectionAssumption DEF ThreadInv, ThreadTypes, Group, Owners
  <2>2. CASE UNCHANGED connVars
    BY <2>2, PeerStutter DEF connVars, HandleInv, ServingKept
  <2>3. CASE \E o \in Group : OwnerStep(o) \/ LoopStep(o)
    BY <2>1, <2>3, OwnerHandles, LoopHandles
  <2>4. CASE \/ AcceptStep \/ (\E t \in Threads : StopStep(t)) \/ SubmitWake \/ SubmitWoken
             \/ (\E h \in called, kind \in {"send", "close"} : command_submit(h, kind))
             \/ ControlStep \/ StopTimeout
    BY <2>4, OtherHandles
  <2> QED
    BY <2>2, <2>3, <2>4 DEF ConnNext, Ended_
<1> QED
  BY <1>1, <1>2 DEF HandleInv

\* HandleInv holds throughout.
LEMMA HandleInvariance == ConnSpec => []HandleInv
BY HandleStart, HandleStep, ThreadInvariance, PTL DEF ConnSpec

\* A command finds the connection its handle was given out for or none, however
\* often the slot was reused meanwhile (stream_peer_find); on_open and on_close
\* alternate for a handle, and no handle is open when its owner is done.
THEOREM HandlesNeverReused == ConnSpec => []HandleNeverReused
<1>1. ThreadInv /\ HandleInv => HandleNeverReused
  <2> SUFFICES ASSUME ThreadInv, HandleInv PROVE HandleNeverReused
    OBVIOUS
  <2> USE DEF HandleInv, PeerInv
  <2>1. \A h \in called : /\ h \in Handles /\ h.owner \in Owners /\ h.slot \in Slots
    BY DEF PeerTypes, Handles
  <2>2. ASSUME NEW o \in Owners, NEW s \in Slots
        PROVE  peers[o][s].opened <=> Handle(o, s) \in called \ closed
    <3>1. peers[o][s].opened => Handle(o, s) \in called \ closed
      BY SMTT(60) DEF OpenedInv
    <3>2. ASSUME Handle(o, s) \in called \ closed PROVE peers[o][s].opened
      <4>1. Handle(o, s).owner = o /\ Handle(o, s).slot = s
        BY DEF Handle
      <4> QED
        BY <3>2, <4>1 DEF GenerationInv
    <3> QED
      BY <3>1, <3>2, SMTT(60)
  <2>3. ASSUME NEW h \in called \ closed PROVE ~own[h.owner].done
    <3>1. peers[h.owner][h.slot].opened
      BY SMTT(60) DEF GenerationInv
    <3>2. own[h.owner].pc \in Serving
      BY <2>1, <3>1, SMTT(60) DEF OpenedInv
    <3> QED
      BY <2>1, <3>2 DEF ThreadInv, JoinInv, Serving
  <2>4. ASSUME NEW o \in Owners, NEW i \in 1 .. Len(mail[o]), Found(mail[o][i].handle)
        PROVE  peers[o][mail[o][i].handle.slot].stream = mail[o][i].handle.stream
    <3>1. i \in DOMAIN mail[o]
      BY DEF MailInv
    <3>2. PICK h \in called : h = mail[o][i].handle
      BY <3>1 DEF MailInv
    <3>3. h.owner = o /\ peers[o][h.slot].opened /\ peers[o][h.slot].gen = h.gen
      BY <2>4, <3>1, <3>2, Zenon DEF MailInv, Found
    <3>4. Handle(o, h.slot) \in called
      BY <2>1, <3>3, SMTT(60) DEF OpenedInv
    <3>5. /\ Handle(o, h.slot).owner = o /\ Handle(o, h.slot).slot = h.slot
          /\ Handle(o, h.slot).gen = h.gen /\ Handle(o, h.slot).stream = peers[o][h.slot].stream
      BY <3>3, SMTT(60) DEF Handle
    <3>6. h = Handle(o, h.slot)
      BY <3>3, <3>4, <3>5 DEF UniqueInv
    <3> QED
      BY <3>2, <3>5, <3>6
  <2> QED
    BY <2>2, <2>3, <2>4 DEF HandleNeverReused
<1> QED
  BY <1>1, ThreadInvariance, HandleInvariance, PTL

===========================================================================
