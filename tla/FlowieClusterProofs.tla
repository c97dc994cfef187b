------------------------ MODULE FlowieClusterProofs ------------------------
(***************************************************************************)
(* The shard lease of FlowieClusterLease, for every number of nodes, every *)
(* validity and every safety margin: a node that believes in its lease is  *)
(* the one the database names.  And the durable publish of                 *)
(* FlowieClusterPublish, for every number of followers, streams, chunks    *)
(* and faults: what is proposed is stored on a majority, and once.         *)
(***************************************************************************)
EXTENDS FlowieClusterLease, FlowieClusterPublish, FiniteSetTheorems, TLAPS

(* The lease. *)

LeaseSpec == LeaseInit /\ [][LeaseNext]_leaseVars

Lease == [owned : BOOLEAN, left : Nat, epoch : Nat, node : LeaseNodes \cup {"none"}, boot : 0..2]
Holder == [boot : 1..2, epoch : Nat, left : Nat, request : {"none", "sent", "granted", "refused"},
           age : 0..LeaseTtl, granted : Nat]

LeaseTypeOK == lease \in Lease /\ holder \in [LeaseNodes -> Holder]

\* The row in the database names n, its boot and the epoch e.
Names(n, e) ==
    /\ lease.owned /\ lease.node = n /\ lease.boot = holder[n].boot /\ lease.epoch = e

\* The node takes itself for the owner of the shard.
Believes(n) == holder[n].epoch # 0 /\ holder[n].left > 0

\* A grant on its way: unless the answer is older than the lease, the row still stands, and
\* its remaining validity is at least what the age of the request leaves.
GrantStands ==
    \A n \in LeaseNodes : holder[n].request = "granted" =>
        /\ holder[n].granted # 0
        /\ holder[n].age < LeaseTtl =>
             Names(n, holder[n].granted) /\ lease.left >= LeaseTtl - holder[n].age

\* What a node believes ends a margin before what the database keeps, and no belief is
\* longer than a fresh lease less the margin.
BeliefStands ==
    \A n \in LeaseNodes :
        /\ holder[n].left <= LeaseTtl - SafetyMargin
        /\ Believes(n) =>
             Names(n, holder[n].epoch) /\ lease.left >= holder[n].left + SafetyMargin

\* The epoch fences: it never falls, and the row passes to another node or another boot of
\* the same one only under a larger epoch.
EpochsFenced ==
    /\ lease'.epoch >= lease.epoch
    /\ lease'.node # lease.node \/ lease'.boot # lease.boot => lease'.epoch > lease.epoch

LeaseInv == LeaseTypeOK /\ GrantStands /\ BeliefStands

-----------------------------------------------------------------------------
\* The initial row and the initial holders satisfy the invariant.
LEMMA LeaseInitInv == LeaseInit => LeaseInv
BY LeaseAssumption DEF LeaseInit, LeaseInv, LeaseTypeOK, Lease, Holder, NewHolder, GrantStands, BeliefStands, Believes

\* Time passes for the row and for every belief alike.
LEMMA TickStep ==
    ASSUME LeaseInv, LeaseTick
    PROVE  LeaseInv'
<1> USE LeaseAssumption
<1>0. LeaseTypeOK
  BY SMTT(60) DEF LeaseInv
<1>1. lease' = [lease EXCEPT !.left = Sooner(lease.left)] /\ lease \in Lease
  BY <1>0, Zenon DEF LeaseTick, LeaseTypeOK
<1>2. /\ lease' \in Lease /\ lease'.left = Sooner(lease.left)
      /\ lease'.owned = lease.owned /\ lease'.node = lease.node
      /\ lease'.boot = lease.boot /\ lease'.epoch = lease.epoch
  BY <1>1 DEF Lease, Sooner
<1>3. ASSUME NEW n \in LeaseNodes
      PROVE  /\ holder'[n] \in Holder
             /\ holder'[n].left = Sooner(holder[n].left)
             /\ holder'[n].boot = holder[n].boot /\ holder'[n].epoch = holder[n].epoch
             /\ holder'[n].request = holder[n].request /\ holder'[n].granted = holder[n].granted
             /\ holder[n].request # "none" => holder'[n].age = Older(holder[n].age)
  <2>1. holder[n] \in Holder
    BY <1>0 DEF LeaseTypeOK
  <2>2. holder'[n] = [holder[n] EXCEPT !.left = Sooner(holder[n].left),
                        !.age = IF holder[n].request = "none" THEN 0 ELSE Older(holder[n].age)]
    BY Zenon DEF LeaseTick
  <2>3. Sooner(holder[n].left) \in Nat /\ Older(holder[n].age) \in 0..LeaseTtl /\ 0 \in 0..LeaseTtl
    BY <2>1 DEF Holder, Sooner, Older
  <2> HIDE DEF Sooner, Older
  <2> QED BY <2>1, <2>2, <2>3, ZenonT(60) DEF Holder
<1>4. LeaseTypeOK'
  BY <1>2, <1>3, Zenon DEF LeaseTick, LeaseTypeOK
<1>5. GrantStands'
  BY <1>0, <1>2, <1>3 DEF LeaseInv, LeaseTypeOK, GrantStands, Names, Sooner, Older, Lease, Holder
<1>6. BeliefStands'
  BY <1>0, <1>2, <1>3 DEF LeaseInv, LeaseTypeOK, BeliefStands, Believes, Names, Sooner, Lease, Holder
<1> QED BY <1>4, <1>5, <1>6 DEF LeaseInv

\* What follows from the invariant for a node whose own record is the only one that changes,
\* while the row stays as it is.
LEMMA HolderStep ==
    ASSUME LeaseInv, NEW n \in LeaseNodes, NEW h \in Holder, UNCHANGED lease,
           holder' = [holder EXCEPT ![n] = h],
           h.request # "granted",
           h.left <= LeaseTtl - SafetyMargin,
           h.epoch # 0 /\ h.left > 0 =>
               /\ lease.owned /\ lease.node = n /\ lease.boot = h.boot /\ lease.epoch = h.epoch
               /\ lease.left >= h.left + SafetyMargin
    PROVE  LeaseInv'
<1>1. holder'[n] = h /\ \A m \in LeaseNodes \ {n} : holder'[m] = holder[m]
  BY DEF LeaseInv, LeaseTypeOK
<1>2. LeaseTypeOK'
  BY DEF LeaseInv, LeaseTypeOK
<1>3. GrantStands'
  BY <1>1 DEF LeaseInv, GrantStands, Names
<1>4. BeliefStands'
  BY <1>1 DEF LeaseInv, BeliefStands, Believes, Names
<1> QED BY <1>2, <1>3, <1>4 DEF LeaseInv

\* The database serves a request: a claim only of a row that has run out or was given up, a
\* renewal only of the row that names the node; nobody else's belief or grant rests on either.
LEMMA ServeStep ==
    ASSUME LeaseInv, NEW n \in LeaseNodes, LeaseServe(n)
    PROVE  LeaseInv' /\ EpochsFenced
<1> USE LeaseAssumption DEF Lease, Holder
<1>0. lease \in Lease /\ holder \in [LeaseNodes -> Holder] /\ holder[n] \in Holder
  BY DEF LeaseInv, LeaseTypeOK
<1> DEFINE claim == holder[n].epoch = 0
           granted == IF claim THEN lease.epoch + 1 ELSE holder[n].epoch
<1>1. CASE IF claim THEN ~lease_claim_refused ELSE lease_require(n)
  <2>1. /\ lease' = [owned |-> TRUE, left |-> LeaseTtl, node |-> n, boot |-> holder[n].boot,
                     epoch |-> granted]
        /\ holder' = [holder EXCEPT ![n].request = "granted", ![n].granted = granted]
    <3>1. CASE claim
      BY <1>1, <3>1 DEF LeaseServe
    <3>2. CASE ~claim
      BY <1>1, <3>2, Zenon DEF LeaseServe, lease_require
    <3> QED BY <3>1, <3>2
  <2>2. granted \in Nat \ {0} /\ holder[n].request = "sent"
    BY <1>0 DEF LeaseServe
  <2>3. holder'[n] = [holder[n] EXCEPT !.request = "granted", !.granted = granted]
    BY <1>0, <2>1
  <2>4. \A m \in LeaseNodes \ {n} : holder'[m] = holder[m]
    BY <1>0, <2>1
  <2>5. /\ holder'[n] \in Holder /\ holder'[n].request = "granted" /\ holder'[n].granted = granted
        /\ holder'[n].boot = holder[n].boot /\ holder'[n].epoch = holder[n].epoch
        /\ holder'[n].left = holder[n].left /\ holder'[n].age = holder[n].age
    BY <1>0, <2>2, <2>3, Zenon
  <2>6. LeaseTypeOK'
    BY <1>0, <2>1, <2>2, <2>4, <2>5 DEF LeaseTypeOK
  <2>7. EpochsFenced
    BY <1>0, <1>1, <2>1 DEF EpochsFenced, lease_require
  <2>8. ASSUME NEW m \in LeaseNodes \ {n}
        PROVE  ~(lease.owned /\ lease.left > 0 /\ lease.node = m)
    BY <1>1, <2>8 DEF lease_claim_refused, lease_require
  <2>9. ASSUME NEW m \in LeaseNodes, holder'[m].request = "granted"
        PROVE  /\ holder'[m].granted # 0
               /\ holder'[m].age < LeaseTtl =>
                    Names(m, holder[m].granted)' /\ lease'.left >= LeaseTtl - holder'[m].age
    <3>1. CASE m = n
      BY <1>0, <2>1, <2>2, <2>5, <3>1 DEF Names
    <3>2. CASE m # n
      <4>1. holder'[m] = holder[m] /\ holder[m] \in Holder
        BY <1>0, <2>4, <3>2
      <4>2. holder[m].granted # 0 /\ ~(holder[m].age < LeaseTtl)
        BY <1>0, <2>8, <2>9, <3>2, <4>1 DEF LeaseInv, GrantStands, Names
      <4> QED BY <4>1, <4>2
    <3> QED BY <3>1, <3>2
  <2>10. ASSUME NEW m \in LeaseNodes
         PROVE  /\ holder'[m].left <= LeaseTtl - SafetyMargin
                /\ holder'[m].epoch # 0 /\ holder'[m].left > 0 =>
                      Names(m, holder[m].epoch)' /\ lease'.left >= holder'[m].left + SafetyMargin
    <3>1. CASE m = n
      BY <1>0, <1>1, <2>1, <2>5, <3>1 DEF Names, LeaseInv, BeliefStands, Believes
    <3>2. CASE m # n
      <4>1. holder'[m] = holder[m] /\ holder[m] \in Holder
        BY <1>0, <2>4, <3>2
      <4> QED BY <1>0, <2>8, <3>2, <4>1 DEF LeaseInv, BeliefStands, Believes, Names
    <3> QED BY <3>1, <3>2
  <2> QED BY <2>6, <2>7, <2>9, <2>10 DEF LeaseInv, GrantStands, BeliefStands, Believes
<1>2. CASE ~(IF claim THEN ~lease_claim_refused ELSE lease_require(n))
  <2>1. /\ UNCHANGED lease
        /\ holder' = [holder EXCEPT ![n].request = "refused", ![n].granted = holder[n].epoch]
    BY <1>2 DEF LeaseServe
  <2>2. PICK h : h = [holder[n] EXCEPT !.request = "refused", !.granted = holder[n].epoch]
    OBVIOUS
  <2>3. h \in Holder /\ h.request = "refused" /\ h.left = holder[n].left
        /\ h.epoch = holder[n].epoch /\ h.boot = holder[n].boot
    BY <1>0, <2>2, Zenon
  <2>4. holder' = [holder EXCEPT ![n] = h]
    BY <1>0, <2>1, <2>2, Zenon
  <2>5. /\ h.left <= LeaseTtl - SafetyMargin
        /\ h.epoch # 0 /\ h.left > 0 =>
               /\ lease.owned /\ lease.node = n /\ lease.boot = h.boot /\ lease.epoch = h.epoch
               /\ lease.left >= h.left + SafetyMargin
    BY <2>3 DEF LeaseInv, BeliefStands, Believes, Names
  <2>6. LeaseInv'
    BY <2>1, <2>3, <2>4, <2>5, HolderStep, Zenon
  <2> QED BY <1>0, <2>1, <2>6 DEF EpochsFenced
<1> QED BY <1>1, <1>2

\* The answer arrives: what is believed is what the age of the request leaves of the grant.
LEMMA AnswerStep ==
    ASSUME LeaseInv, NEW n \in LeaseNodes, LeaseAnswer(n)
    PROVE  LeaseInv'
<1> USE LeaseAssumption
<1>0. lease \in Lease /\ holder \in [LeaseNodes -> Holder] /\ holder[n] \in Holder
  BY DEF LeaseInv, LeaseTypeOK
<1> DEFINE ok == holder[n].request = "granted"
<1>1. PICK h : h = [NewHolder(holder[n].boot) EXCEPT !.epoch = IF ok THEN holder[n].granted ELSE 0,
                                                     !.left = IF ok THEN lease_deadline(n) ELSE 0]
  OBVIOUS
<1>2. lease_deadline(n) \in Nat /\ lease_deadline(n) <= LeaseTtl - SafetyMargin
  BY <1>0 DEF lease_deadline, Holder
<1>3. /\ h \in Holder /\ h.request = "none" /\ h.boot = holder[n].boot
      /\ h.epoch = (IF ok THEN holder[n].granted ELSE 0)
      /\ h.left = (IF ok THEN lease_deadline(n) ELSE 0)
  <2>1. PICK e \in Nat, left \in Nat : /\ e = (IF ok THEN holder[n].granted ELSE 0)
                                      /\ left = (IF ok THEN lease_deadline(n) ELSE 0)
    BY <1>0, <1>2 DEF Holder
  <2>2. h = [boot |-> holder[n].boot, epoch |-> e, left |-> left, request |-> "none", age |-> 0,
             granted |-> 0]
    BY <1>1, <2>1, Zenon DEF NewHolder
  <2>3. holder[n].boot \in 1..2 /\ 0 \in 0..LeaseTtl
    BY <1>0 DEF Holder
  <2> QED BY <2>1, <2>2, <2>3 DEF Holder
<1>4. holder' = [holder EXCEPT ![n] = h] /\ UNCHANGED lease
  BY <1>0, <1>1 DEF LeaseAnswer
<1>5. h.left <= LeaseTtl - SafetyMargin
  BY <1>2, <1>3
<1>6. h.epoch # 0 /\ h.left > 0 =>
         /\ lease.owned /\ lease.node = n /\ lease.boot = h.boot /\ lease.epoch = h.epoch
         /\ lease.left >= h.left + SafetyMargin
  <2>1. SUFFICES ASSUME h.epoch # 0, h.left > 0
                 PROVE  /\ lease.owned /\ lease.node = n /\ lease.boot = h.boot
                        /\ lease.epoch = h.epoch /\ lease.left >= h.left + SafetyMargin
    OBVIOUS
  <2>2. ok /\ h.epoch = holder[n].granted /\ h.left = lease_deadline(n)
    BY <1>3, <2>1
  <2>3. holder[n].age < LeaseTtl - SafetyMargin /\ h.left = LeaseTtl - SafetyMargin - holder[n].age
    BY <2>1, <2>2 DEF lease_deadline
  <2>4. Names(n, holder[n].granted) /\ lease.left >= LeaseTtl - holder[n].age
    BY <1>0, <2>2, <2>3 DEF LeaseInv, GrantStands, Holder
  <2> QED BY <1>0, <1>3, <2>2, <2>3, <2>4 DEF Names, Holder, Lease
<1> QED BY <1>3, <1>4, <1>5, <1>6, HolderStep, Zenon

\* A node that gives its lease up, or restarts, believes nothing before the row changes.
LEMMA GiveUpStep ==
    ASSUME LeaseInv, NEW n \in LeaseNodes, LeaseRelease(n) \/ LeaseRestart(n)
    PROVE  LeaseInv' /\ EpochsFenced
<1> USE LeaseAssumption
<1>0. lease \in Lease /\ holder \in [LeaseNodes -> Holder] /\ holder[n] \in Holder
  BY DEF LeaseInv, LeaseTypeOK
<1>1. PICK h : /\ h \in Holder /\ h.request = "none" /\ h.epoch = 0 /\ h.left = 0
               /\ holder' = [holder EXCEPT ![n] = h]
  BY <1>0 DEF LeaseRelease, LeaseRestart, NewHolder, Holder
<1>2. CASE UNCHANGED lease
  <2>1. 0 <= LeaseTtl - SafetyMargin /\ h.request # "granted"
    BY <1>1
  <2>2. LeaseInv'
    BY <1>1, <1>2, <2>1, HolderStep, Zenon
  <2> QED BY <1>0, <1>2, <2>2 DEF EpochsFenced, Lease
<1>3. CASE lease_require(n) /\ lease' = [lease EXCEPT !.owned = FALSE, !.left = 0]
  <2>1. /\ lease' \in Lease /\ lease'.epoch = lease.epoch
        /\ lease'.node = lease.node /\ lease'.boot = lease.boot
    BY <1>0, <1>3, Zenon DEF Lease
  <2>2. holder'[n] = h /\ \A m \in LeaseNodes \ {n} : holder'[m] = holder[m]
    BY <1>0, <1>1
  <2>3. LeaseTypeOK'
    BY <1>0, <1>1, <2>1 DEF LeaseTypeOK
  <2>4. lease.node = n
    BY <1>3 DEF lease_require
  <2>5. GrantStands'
    BY <1>1, <2>2, <2>4 DEF LeaseInv, GrantStands, Names
  <2>6. BeliefStands'
    BY <1>1, <2>2, <2>4 DEF LeaseInv, BeliefStands, Believes, Names
  <2> QED BY <1>0, <2>1, <2>3, <2>5, <2>6 DEF LeaseInv, EpochsFenced, Lease
<1> QED BY <1>2, <1>3 DEF LeaseRelease, LeaseRestart

\* Every step keeps the invariant and the order of epochs.
LEMMA LeaseStep ==
    ASSUME LeaseInv, [LeaseNext]_leaseVars
    PROVE  LeaseInv' /\ (EpochsFenced \/ UNCHANGED leaseVars)
<1>0. lease \in Lease /\ holder \in [LeaseNodes -> Holder]
  BY DEF LeaseInv, LeaseTypeOK
<1>1. CASE LeaseTick
  <2>1. lease'.epoch = lease.epoch /\ lease'.node = lease.node /\ lease'.boot = lease.boot
    BY <1>0, <1>1, Zenon DEF LeaseTick, Lease
  <2> QED BY <1>0, <1>1, <2>1, TickStep DEF EpochsFenced, Lease
<1>2. ASSUME NEW n \in LeaseNodes, LeaseRequest(n)
      PROVE  LeaseInv' /\ EpochsFenced
  <2>1. PICK h : h = [holder[n] EXCEPT !.request = "sent", !.age = 0]
    OBVIOUS
  <2>2. /\ h \in Holder /\ h.request = "sent" /\ h.left = holder[n].left
        /\ h.epoch = holder[n].epoch /\ h.boot = holder[n].boot
    <3>1. holder[n] \in Holder /\ 0 \in 0..LeaseTtl
      BY <1>0, LeaseAssumption
    <3> QED BY <2>1, <3>1, Zenon DEF Holder
  <2>3. holder' = [holder EXCEPT ![n] = h] /\ UNCHANGED lease
    BY <1>0, <1>2, <2>1, Zenon DEF LeaseRequest
  <2>4. /\ h.left <= LeaseTtl - SafetyMargin
        /\ h.epoch # 0 /\ h.left > 0 =>
               /\ lease.owned /\ lease.node = n /\ lease.boot = h.boot /\ lease.epoch = h.epoch
               /\ lease.left >= h.left + SafetyMargin
    BY <2>2 DEF LeaseInv, BeliefStands, Believes, Names
  <2>5. LeaseInv'
    BY <2>2, <2>3, <2>4, HolderStep, Zenon
  <2> QED BY <1>0, <2>3, <2>5 DEF EpochsFenced, Lease
<1>3. ASSUME NEW n \in LeaseNodes, LeaseServe(n)
      PROVE  LeaseInv' /\ EpochsFenced
  BY <1>3, ServeStep
<1>4. ASSUME NEW n \in LeaseNodes, LeaseAnswer(n)
      PROVE  LeaseInv' /\ EpochsFenced
  <2>1. LeaseInv'
    BY <1>4, AnswerStep
  <2> QED BY <1>0, <1>4, <2>1 DEF LeaseAnswer, EpochsFenced, Lease
<1>5. ASSUME NEW n \in LeaseNodes, LeaseRelease(n) \/ LeaseRestart(n)
      PROVE  LeaseInv' /\ EpochsFenced
  BY <1>5, GiveUpStep
<1>6. CASE UNCHANGED leaseVars
  BY <1>6 DEF leaseVars, LeaseInv, LeaseTypeOK, GrantStands, BeliefStands, Believes, Names
<1> QED BY <1>1, <1>2, <1>3, <1>4, <1>5, <1>6 DEF LeaseNext

-----------------------------------------------------------------------------
\* The inductive invariant holds of every behaviour of the lease.
THEOREM LeaseInvariance == LeaseSpec => []LeaseInv
<1>1. LeaseInv /\ [LeaseNext]_leaseVars => LeaseInv'
  BY LeaseStep
<1> QED BY LeaseInitInv, <1>1, PTL DEF LeaseSpec

\* A node that believes in its lease (its lease_deadline_ns has not passed) is the
\* one the database names under the same epoch and boot, and the row is still valid: for every
\* number of nodes, validity and margin, and however long an answer took.
THEOREM LeaseBelieved == LeaseSpec => []LeaseExclusive
<1>1. LeaseInv => LeaseExclusive
  BY LeaseAssumption DEF LeaseInv, LeaseTypeOK, BeliefStands, Believes, LeaseExclusive, lease_require, Names, Lease, Holder
<1> QED BY <1>1, LeaseInvariance, PTL

\* So no two nodes ever believe at once that they own the shard.
THEOREM LeaseMutual ==
    LeaseSpec => [](\A n, m \in LeaseNodes : Believes(n) /\ Believes(m) => n = m)
<1>1. LeaseExclusive => \A n, m \in LeaseNodes : Believes(n) /\ Believes(m) => n = m
  BY DEF LeaseExclusive, lease_require, Believes
<1> QED BY <1>1, LeaseBelieved, PTL

\* shard_lease_claim numbers the holders: the epoch in the row never falls, and the row passes
\* to another node or another boot only under a larger one, so an epoch names one holder.
THEOREM LeaseFences == LeaseSpec => [][EpochsFenced]_leaseVars
<1>1. LeaseInv /\ [LeaseNext]_leaseVars => [EpochsFenced]_leaseVars
  BY LeaseStep
<1> QED BY <1>1, LeaseInvariance, PTL DEF LeaseSpec

-----------------------------------------------------------------------------
(* The durable publish. *)

IsSeq(q) == q \in Seq({q[i] : i \in DOMAIN q})

\* A sender of the router: its stream, and the followers that answered durably.
Sender(e) ==
    /\ e = [stream |-> e.stream, next |-> e.next, acked |-> e.acked, quorum |-> e.quorum,
            durable |-> e.durable]
    /\ e.stream \in Streams /\ e.durable \subseteq FollowerSet

Inbound == [open : BOOLEAN, used : Int, pending : BOOLEAN, committed : BOOLEAN, next : Int]
Packet == [kind : {"chunk", "ack"}, stream : Streams, node : FollowerSet, offset : Int, durable : BOOLEAN]

\* Every variable has its type; of a sender only what the quorum needs.
PublishTypeOK ==
    /\ IsSeq(outbound)
    /\ \A i \in DOMAIN outbound : Sender(outbound[i])
    /\ ingress \in [FollowerSet -> [Streams -> Inbound]]
    /\ stored \in [FollowerSet -> SUBSET Streams]
    /\ sent \subseteq Packet
    /\ proposals \in Seq(Streams)
    /\ submitted \in [Streams -> {"none", "busy", "refused", "accepted", "full"}]

\* Whatever says that a follower has an event is right: the ingress entry that waits to say
\* so, the answer under way, and the count of the sender.
CopiesReal ==
    /\ \A f \in FollowerSet, s \in Streams : ingress[f][s].committed => s \in stored[f]
    /\ \A m \in sent : m.durable => m.stream \in stored[m.node]
    /\ \A i \in DOMAIN outbound : \A f \in outbound[i].durable : outbound[i].stream \in stored[f]

\* A stream is in the router or proposed, never twice.
StreamsOnce ==
    /\ \A i, j \in DOMAIN outbound : outbound[i].stream = outbound[j].stream => i = j
    /\ \A i \in DOMAIN outbound, j \in DOMAIN proposals : outbound[i].stream # proposals[j]

\* The parts of PublishDurable.
Majority(S) == 2 * (1 + Cardinality(S)) > 1 + Cardinality(FollowerSet)
Copies(s) == {f \in FollowerSet : s \in stored[f]}
ProposedStored == \A i \in DOMAIN proposals : Majority(Copies(proposals[i]))
ProposedOnce == \A i, j \in DOMAIN proposals : proposals[i] = proposals[j] => i = j
Held(s) == (\E i \in DOMAIN proposals : proposals[i] = s) \/ (\E i \in DOMAIN outbound : outbound[i].stream = s)
TakenKept == \A s \in Streams : submitted[s] \in {"accepted", "full"} <=> Held(s)
RouterBounded == Len(outbound) <= MaxOutbound
IngressBounded == \A f \in FollowerSet : Cardinality(ingress_active(f)) <= MaxInbound

PublishInv ==
    /\ PublishTypeOK /\ CopiesReal /\ StreamsOnce
    /\ ProposedStored /\ ProposedOnce /\ TakenKept /\ RouterBounded /\ IngressBounded

-----------------------------------------------------------------------------
\* A function on 1 .. n is a sequence of the values it takes, and of length n.
LEMMA FunctionIsSeq ==
    ASSUME NEW n \in Nat, NEW T, NEW r \in [1 .. n -> T]
    PROVE  IsSeq(r) /\ Len(r) = n
<1> PICK R : R = {r[j] : j \in DOMAIN r}
  BY Zenon
<1>1. r \in [1 .. n -> R]
  OBVIOUS
<1>2. r \in Seq(R) /\ Len(r) = n
  BY <1>1
<1> QED BY <1>2 DEF IsSeq

\* A sequence over any set is a sequence of the values it takes.
LEMMA SeqIsSeq ==
    ASSUME NEW S, NEW r \in Seq(S)
    PROVE  IsSeq(r)
<1> PICK R : R = {r[j] : j \in DOMAIN r}
  BY Zenon
<1>1. \A j \in DOMAIN r : r[j] \in R
  OBVIOUS
<1>2. r \in Seq(R)
  BY <1>1
<1> QED BY <1>2 DEF IsSeq

\* A sequence with one element replaced.
LEMMA ReplaceFacts ==
    ASSUME NEW q, IsSeq(q), NEW i \in DOMAIN q, NEW e, NEW r, r = [j \in DOMAIN q |-> IF j = i THEN e ELSE q[j]]
    PROVE  /\ IsSeq(r) /\ DOMAIN r = DOMAIN q /\ Len(r) = Len(q) /\ r[i] = e
           /\ \A j \in DOMAIN q : j # i => r[j] = q[j]
<1>1. DOMAIN r = DOMAIN q /\ r[i] = e /\ \A j \in DOMAIN q : j # i => r[j] = q[j]
  OBVIOUS
<1>2. DOMAIN q = 1 .. Len(q) /\ Len(q) \in Nat
  BY DEF IsSeq
<1>3. r \in [1 .. Len(q) -> {q[j] : j \in DOMAIN q} \cup {e}]
  BY <1>1, <1>2 DEF IsSeq
<1>4. IsSeq(r) /\ Len(r) = Len(q)
  BY <1>2, <1>3, FunctionIsSeq, Zenon
<1> QED BY <1>1, <1>4

\* r is q with e behind it.
Joined(q, e, r) ==
    /\ IsSeq(r) /\ DOMAIN r = 1 .. Len(q) + 1 /\ Len(r) = Len(q) + 1 /\ r[Len(q) + 1] = e
    /\ DOMAIN q = 1 .. Len(q) /\ Len(q) \in Nat
    /\ \A j \in DOMAIN q : r[j] = q[j]

\* A sequence with one element more.
LEMMA JoinFacts ==
    ASSUME NEW q, IsSeq(q), NEW e, NEW r, r = Append(q, e)
    PROVE  Joined(q, e, r)
<1> DEFINE S == {q[i] : i \in DOMAIN q} \cup {e}
<1>1. q \in Seq(S) /\ e \in S
  BY DEF IsSeq
<1>2. /\ r \in Seq(S) /\ DOMAIN r = 1 .. Len(q) + 1 /\ Len(r) = Len(q) + 1 /\ r[Len(q) + 1] = e
      /\ DOMAIN q = 1 .. Len(q) /\ Len(q) \in Nat
      /\ \A j \in DOMAIN q : r[j] = q[j]
  <2> HIDE DEF S
  <2> QED BY <1>1
<1>4. IsSeq(r)
  BY <1>2, SeqIsSeq, Zenon
<1> QED BY <1>2, <1>4 DEF Joined

\* Without takes element i out of the router: the last one takes its place.
LEMMA WithoutFacts ==
    ASSUME IsSeq(outbound), NEW i \in DOMAIN outbound
    PROVE  /\ IsSeq(Without(i)) /\ Len(Without(i)) = Len(outbound) - 1
           /\ Len(outbound) \in Nat /\ DOMAIN outbound = 1 .. Len(outbound)
           /\ DOMAIN Without(i) = 1 .. Len(outbound) - 1
           /\ \A k \in DOMAIN Without(i) :
                Without(i)[k] = IF k = i THEN outbound[Len(outbound)] ELSE outbound[k]
<1> PICK w : w = Without(i)
  OBVIOUS
<1>1. DOMAIN outbound = 1 .. Len(outbound) /\ Len(outbound) \in Nat
  BY DEF IsSeq
<1>2. /\ DOMAIN w = 1 .. Len(outbound) - 1
      /\ \A k \in DOMAIN w : w[k] = IF k = i THEN outbound[Len(outbound)] ELSE outbound[k]
  BY DEF Without
<1>3. Len(outbound) - 1 \in Nat
  BY <1>1
<1>4. w \in [1 .. Len(outbound) - 1 -> {outbound[j] : j \in DOMAIN outbound}]
  <2>1. w = [k \in 1 .. Len(outbound) - 1 |-> IF k = i THEN outbound[Len(outbound)] ELSE outbound[k]]
    BY DEF Without
  <2> QED BY <1>1, <2>1
<1>5. IsSeq(w) /\ Len(w) = Len(outbound) - 1
  BY <1>3, <1>4, FunctionIsSeq, Zenon
<1> QED BY <1>1, <1>2, <1>5

-----------------------------------------------------------------------------
\* The parts make PublishDurable.
LEMMA DurableParts ==
    ASSUME ProposedStored, ProposedOnce, TakenKept, RouterBounded, IngressBounded
    PROVE  PublishDurable
BY Zenon DEF PublishDurable, ProposedStored, ProposedOnce, TakenKept, RouterBounded, IngressBounded, Majority, Copies, Held

\* The other voters are finitely many, and more copies are still a majority.
LEMMA MajorityGrows ==
    ASSUME NEW A, NEW B, A \subseteq B, B \subseteq FollowerSet, Majority(A)
    PROVE  Majority(B)
<1>1. IsFiniteSet(FollowerSet)
  <2>1. Followers \in Surjection(1 .. Len(Followers), FollowerSet) /\ Len(Followers) \in Nat
    BY PublishAssumption DEF FollowerSet, Surjection
  <2>2. IsFiniteSet(1 .. Len(Followers))
    BY <2>1, FS_Interval
  <2> QED BY <2>1, <2>2, FS_Surjection
<1>2. IsFiniteSet(B) /\ Cardinality(B) \in Nat
  BY <1>1, FS_Subset, FS_CardinalityType
<1>3. Cardinality(A) \in Nat /\ Cardinality(A) <= Cardinality(B)
  BY <1>2, FS_Subset, FS_CardinalityType
<1>4. Cardinality(FollowerSet) \in Nat
  BY <1>1, FS_CardinalityType
<1> QED BY <1>2, <1>3, <1>4 DEF Majority

\* The router keeps stream i, with a sender that has moved on.
LEMMA KeepStep ==
    ASSUME PublishInv, NEW i \in DOMAIN outbound, NEW e, Sender(e), e.stream = outbound[i].stream,
           \A f \in e.durable : e.stream \in stored[f],
           NEW out, out \subseteq Packet, \A m \in out : ~m.durable,
           outbound' = [outbound EXCEPT ![i] = e], sent' = sent \cup out,
           UNCHANGED <<ingress, stored, proposals, submitted>>
    PROVE  PublishInv'
<1>1. /\ IsSeq(outbound') /\ DOMAIN outbound' = DOMAIN outbound /\ Len(outbound') = Len(outbound)
      /\ outbound'[i] = e /\ \A j \in DOMAIN outbound : j # i => outbound'[j] = outbound[j]
  <2>1. IsSeq(outbound)
    BY DEF PublishInv, PublishTypeOK
  <2>2. PICK q, r : q = outbound /\ r = outbound'
    OBVIOUS
  <2>3. IsSeq(q) /\ i \in DOMAIN q /\ r = [j \in DOMAIN q |-> IF j = i THEN e ELSE q[j]]
    BY <2>1, <2>2, Zenon
  <2>4. /\ IsSeq(r) /\ DOMAIN r = DOMAIN q /\ Len(r) = Len(q) /\ r[i] = e
        /\ \A j \in DOMAIN q : j # i => r[j] = q[j]
    BY <2>3, ReplaceFacts, SMT
  <2> QED BY <2>2, <2>4
<1>2. \A j \in DOMAIN outbound : outbound'[j].stream = outbound[j].stream
  BY <1>1, Zenon
<1>3. PublishTypeOK'
  BY <1>1, Zenon DEF PublishInv, PublishTypeOK
<1>4. CopiesReal'
  BY <1>1, Zenon DEF PublishInv, CopiesReal
<1>5. StreamsOnce' /\ TakenKept'
  <2>1. StreamsOnce'
    BY <1>1, <1>2 DEF PublishInv, StreamsOnce
  <2>2. \A s : Held(s)' <=> Held(s)
    BY <1>1, <1>2 DEF Held
  <2> QED BY <2>1, <2>2, Zenon DEF PublishInv, TakenKept
<1>6. ProposedStored' /\ ProposedOnce' /\ RouterBounded' /\ IngressBounded'
  BY <1>1, Zenon DEF PublishInv, ProposedStored, ProposedOnce, RouterBounded, IngressBounded, Copies, ingress_active
<1> QED BY <1>3, <1>4, <1>5, <1>6 DEF PublishInv

\* The router proposes stream i, which leaves it.
LEMMA ProposeStep ==
    ASSUME PublishInv, NEW i \in DOMAIN outbound, NEW e, Sender(e), e.stream = outbound[i].stream,
           \A f \in e.durable : e.stream \in stored[f], Majority(e.durable),
           NEW out, out \subseteq Packet, \A m \in out : ~m.durable,
           outbound' = Without(i), proposals' = Append(proposals, e.stream), sent' = sent \cup out,
           UNCHANGED <<ingress, stored, submitted>>
    PROVE  PublishInv'
<1> DEFINE n == Len(outbound)
<1>1. /\ IsSeq(outbound') /\ Len(outbound') = n - 1 /\ n \in Nat /\ DOMAIN outbound = 1 .. n
      /\ DOMAIN outbound' = 1 .. n - 1
      /\ \A k \in DOMAIN outbound' : outbound'[k] = IF k = i THEN outbound[n] ELSE outbound[k]
  BY WithoutFacts, Zenon DEF PublishInv, PublishTypeOK
<1>2. /\ proposals \in Seq(Streams) /\ e.stream \in Streams /\ proposals' \in Seq(Streams)
      /\ DOMAIN proposals = 1 .. Len(proposals) /\ Len(proposals) \in Nat
      /\ DOMAIN proposals' = 1 .. Len(proposals) + 1
      /\ proposals'[Len(proposals) + 1] = e.stream
      /\ \A j \in DOMAIN proposals : proposals'[j] = proposals[j]
  BY DEF PublishInv, PublishTypeOK, Sender
<1>3. \A k \in DOMAIN outbound' : \E j \in DOMAIN outbound : j # i /\ outbound'[k] = outbound[j]
  BY <1>1, SMTT(60)
<1>4. \A k, l \in DOMAIN outbound' : outbound'[k].stream = outbound'[l].stream => k = l
  BY <1>1, SMTT(60) DEF PublishInv, StreamsOnce
<1>5. \A j \in DOMAIN outbound : j # i => \E k \in DOMAIN outbound' : outbound'[k] = outbound[j]
  <2> TAKE j \in DOMAIN outbound
  <2> HAVE j # i
  <2>1. CASE j = n
    <3>1. i \in DOMAIN outbound' /\ outbound'[i] = outbound[j]
      BY <1>1, <2>1
    <3> QED BY <3>1
  <2>2. CASE j # n
    <3>1. j \in DOMAIN outbound' /\ outbound'[j] = outbound[j]
      BY <1>1, <2>2
    <3> QED BY <3>1
  <2> QED BY <2>1, <2>2
<1>6. PublishTypeOK'
  <2>1. \A k \in DOMAIN outbound' : Sender(outbound'[k])
    BY <1>3, Zenon DEF PublishInv, PublishTypeOK
  <2>2. IsSeq(outbound') /\ proposals' \in Seq(Streams)
    BY <1>1, <1>2
  <2> QED BY <2>1, <2>2, ZenonT(60) DEF PublishInv, PublishTypeOK
<1>7. CopiesReal'
  BY <1>1, <1>3, ZenonT(60) DEF PublishInv, CopiesReal
<1>8. \A j \in DOMAIN proposals : proposals[j] # e.stream
  BY Zenon DEF PublishInv, StreamsOnce
<1>9. \A j \in DOMAIN proposals' : j \in DOMAIN proposals \/ j = Len(proposals) + 1
  BY <1>2
<1>10. Len(proposals) + 1 \in DOMAIN proposals' /\ DOMAIN proposals \subseteq DOMAIN proposals'
  BY <1>2
<1>11. StreamsOnce' /\ ProposedOnce'
  <2>1. \A k \in DOMAIN outbound' : outbound'[k].stream # e.stream
    BY <1>3 DEF PublishInv, StreamsOnce
  <2>2. \A k \in DOMAIN outbound', j \in DOMAIN proposals' : outbound'[k].stream # proposals'[j]
    BY <1>2, <1>3, <1>9, <2>1 DEF PublishInv, StreamsOnce
  <2>3. ProposedOnce'
    BY <1>2, <1>8, <1>9 DEF PublishInv, ProposedOnce
  <2> QED BY <1>4, <2>2, <2>3 DEF StreamsOnce
<1>12. ProposedStored'
  <2>1. Majority(Copies(e.stream))
    BY MajorityGrows DEF Copies, Sender
  <2>2. \A s : Copies(s)' = Copies(s)
    BY DEF Copies
  <2> QED BY <1>2, <1>9, <2>1, <2>2, Zenon DEF PublishInv, ProposedStored
<1>13. TakenKept'
  <2>1. ASSUME NEW s \in Streams, Held(s)
        PROVE  Held(s)'
    <3>1. CASE \E j \in DOMAIN proposals : proposals[j] = s
      BY <1>2, <1>10, <3>1 DEF Held
    <3>2. CASE \E j \in DOMAIN outbound : outbound[j].stream = s
      <4>1. CASE s = e.stream
        BY <1>2, <1>10, <4>1 DEF Held
      <4>2. CASE s # e.stream
        BY <1>5, <3>2, <4>2 DEF Held
      <4> QED BY <4>1, <4>2
    <3> QED BY <2>1, <3>1, <3>2 DEF Held
  <2>2. ASSUME NEW s \in Streams, Held(s)'
        PROVE  Held(s)
    <3>1. CASE \E j \in DOMAIN proposals' : proposals'[j] = s
      BY <1>2, <1>9, <3>1 DEF Held
    <3>2. CASE \E j \in DOMAIN outbound' : outbound'[j].stream = s
      BY <1>3, <3>2 DEF Held
    <3> QED BY <2>2, <3>1, <3>2 DEF Held
  <2> QED BY <2>1, <2>2, Zenon DEF PublishInv, TakenKept
<1>14. RouterBounded' /\ IngressBounded'
  <2>1. MaxOutbound \in Nat
    BY PublishAssumption
  <2> QED BY <1>1, <2>1 DEF PublishInv, RouterBounded, IngressBounded, ingress_active
<1> QED BY <1>6, <1>7, <1>11, <1>12, <1>13, <1>14 DEF PublishInv

\* What pumping does to a sender: its stream and its durable answers stay, and all it sends
\* are chunks of its stream.
LEMMA PumpedFacts ==
    ASSUME NEW e, e.stream \in Streams, e.durable \subseteq FollowerSet, NEW st
    PROVE  /\ Sender(Pumped(e, st).e)
           /\ Pumped(e, st).e.stream = e.stream /\ Pumped(e, st).e.durable = e.durable
           /\ Pumped(e, st).out \subseteq Packet /\ \A m \in Pumped(e, st).out : ~m.durable
<1> PICK p : p = Pumped(e, st)
  OBVIOUS
<1>1. /\ p.e = [stream |-> e.stream, next |-> st.next, acked |-> e.acked, quorum |-> st.quorum,
                durable |-> e.durable]
      /\ p.out = {Chunk(e.stream, m[1], m[2]) :
                    m \in UNION {{f} \X (e.next[f] .. st.next[f] - 1) : f \in FollowerSet}}
  BY Zenon DEF Pumped
<1>2. Sender(p.e) /\ p.e.stream = e.stream /\ p.e.durable = e.durable
  BY <1>1 DEF Sender
<1>3. ASSUME NEW c \in p.out
      PROVE  c \in Packet /\ ~c.durable
  <2>1. PICK m \in UNION {{f} \X (e.next[f] .. st.next[f] - 1) : f \in FollowerSet} :
          c = Chunk(e.stream, m[1], m[2])
    BY <1>1, <1>3, Zenon
  <2>2. PICK f \in FollowerSet : m \in {f} \X (e.next[f] .. st.next[f] - 1)
    BY <2>1, Zenon
  <2>3. m[1] \in FollowerSet /\ m[2] \in Int
    BY <2>2
  <2> QED BY <2>1, <2>3 DEF Chunk, Packet
<1> QED BY <1>2, <1>3

\* The router takes stream s.
LEMMA TakeStep ==
    ASSUME PublishInv, NEW s \in Streams, submitted[s] \in {"none", "busy", "refused"},
           Len(outbound) < MaxOutbound,
           NEW e, Sender(e), e.stream = s, e.durable = {},
           NEW out, out \subseteq Packet, \A m \in out : ~m.durable,
           NEW answer \in {"accepted", "full"},
           outbound' = Append(outbound, e), sent' = sent \cup out,
           submitted' = [submitted EXCEPT ![s] = answer],
           UNCHANGED <<ingress, stored, proposals>>
    PROVE  PublishInv'
<1> DEFINE n == Len(outbound)
<1>1. /\ IsSeq(outbound') /\ DOMAIN outbound' = 1 .. n + 1 /\ Len(outbound') = n + 1
      /\ outbound'[n + 1] = e /\ DOMAIN outbound = 1 .. n /\ n \in Nat
      /\ \A j \in DOMAIN outbound : outbound'[j] = outbound[j]
  <2>1. IsSeq(outbound)
    BY DEF PublishInv, PublishTypeOK
  <2>2. PICK q, r : q = outbound /\ r = outbound'
    OBVIOUS
  <2>3. IsSeq(q) /\ r = Append(q, e)
    BY <2>1, <2>2
  <2>4. Joined(q, e, r)
    BY <2>3, JoinFacts, Zenon
  <2> QED BY <2>2, <2>4 DEF Joined
<1>2. \A j \in DOMAIN outbound' : j \in DOMAIN outbound \/ j = n + 1
  BY <1>1
<1>3. n + 1 \in DOMAIN outbound' /\ DOMAIN outbound \subseteq DOMAIN outbound'
  BY <1>1
<1>4. (\A j \in DOMAIN outbound : outbound[j].stream # s) /\ (\A j \in DOMAIN proposals : proposals[j] # s)
  BY Zenon DEF PublishInv, TakenKept, Held
<1>5. PublishTypeOK'
  <2>1. submitted' \in [Streams -> {"none", "busy", "refused", "accepted", "full"}]
    BY DEF PublishInv, PublishTypeOK
  <2>2. \A j \in DOMAIN outbound' : Sender(outbound'[j])
    BY <1>1, <1>2, Zenon DEF PublishInv, PublishTypeOK
  <2> QED BY <1>1, <2>1, <2>2, Zenon DEF PublishInv, PublishTypeOK
<1>6. CopiesReal'
  <2>1. \A j \in DOMAIN outbound' : \A f \in outbound'[j].durable : outbound'[j].stream \in stored[f]
    BY <1>1, <1>2, Zenon DEF PublishInv, CopiesReal
  <2> QED BY <2>1, Zenon DEF PublishInv, CopiesReal
<1>7. StreamsOnce'
  BY <1>1, <1>2, <1>4 DEF PublishInv, StreamsOnce
<1>8. ProposedStored' /\ ProposedOnce' /\ RouterBounded' /\ IngressBounded'
  <2>1. MaxOutbound \in Nat
    BY PublishAssumption
  <2>2. RouterBounded'
    BY <1>1, <2>1 DEF RouterBounded
  <2> QED BY <2>2, Zenon DEF PublishInv, ProposedStored, ProposedOnce, IngressBounded, Copies, ingress_active
<1>9. TakenKept'
  <2>1. submitted'[s] = answer /\ \A t \in Streams : t # s => submitted'[t] = submitted[t]
    BY DEF PublishInv, PublishTypeOK
  <2>2. Held(s)'
    BY <1>1, <1>3 DEF Held
  <2>3. \A t : t # s => (Held(t)' <=> Held(t))
    BY <1>1, <1>2, <1>3 DEF Held
  <2>4. ASSUME NEW t \in Streams
        PROVE  submitted'[t] \in {"accepted", "full"} <=> Held(t)'
    <3>1. CASE t = s
      BY <2>1, <2>2, <3>1, Zenon
    <3>2. CASE t # s
      BY <2>1, <2>3, <3>2, Zenon DEF PublishInv, TakenKept
    <3> QED BY <3>1, <3>2
  <2> QED BY <2>4, Zenon DEF TakenKept
<1> QED BY <1>5, <1>6, <1>7, <1>8, <1>9, SMTT(60) DEF PublishInv

\* The caller is told that the stream was not taken.
LEMMA RefuseStep ==
    ASSUME PublishInv, NEW s \in Streams, submitted[s] \in {"none", "busy", "refused"},
           NEW answer \in {"busy", "refused"}, submitted' = [submitted EXCEPT ![s] = answer],
           UNCHANGED <<outbound, sent, ingress, stored, proposals>>
    PROVE  PublishInv'
<1>1. submitted' \in [Streams -> {"none", "busy", "refused", "accepted", "full"}]
  BY DEF PublishInv, PublishTypeOK
<1>2. \A t \in Streams : (submitted'[t] \in {"accepted", "full"}) <=> (submitted[t] \in {"accepted", "full"})
  BY DEF PublishInv, PublishTypeOK
<1>3. PublishTypeOK'
  BY <1>1, Zenon DEF PublishInv, PublishTypeOK
<1>4. TakenKept'
  BY <1>2, Zenon DEF PublishInv, TakenKept, Held
<1> QED BY <1>3, <1>4, Zenon DEF PublishInv, CopiesReal, StreamsOnce, ProposedStored, ProposedOnce,
                            RouterBounded, IngressBounded, Copies, ingress_active

-----------------------------------------------------------------------------
\* What follower f keeps of stream s becomes x, it sends out, and with c it commits the event.
Ingests(f, s, x, out, c) ==
    /\ ingress' = [ingress EXCEPT ![f][s] = x] /\ sent' = sent \cup out
    /\ stored' = [stored EXCEPT ![f] = IF c THEN @ \cup {s} ELSE @]
    /\ UNCHANGED <<outbound, proposals, submitted>>

\* What an ingress may keep and send: only what is committed counts as durable, and a
\* stream is opened within the bound.
Ingestible(f, s, x, out, c) ==
    /\ f \in FollowerSet /\ s \in Streams /\ x \in Inbound /\ c \in BOOLEAN /\ out \subseteq Packet
    /\ x.committed => s \in stored[f] \/ c
    /\ \A m \in out : m.stream = s /\ m.node = f /\ (m.durable => s \in stored[f] \/ c)
    /\ x.open => ingress[f][s].open \/ Cardinality(ingress_active(f)) < MaxInbound

\* An ingress that keeps, answers and commits like that.
LEMMA IngressStep ==
    ASSUME PublishInv, NEW f, NEW s, NEW x, NEW out, NEW c,
           Ingestible(f, s, x, out, c), Ingests(f, s, x, out, c)
    PROVE  PublishInv'
<1> USE DEF Ingests
<1>0. /\ f \in FollowerSet /\ s \in Streams /\ x \in Inbound /\ c \in BOOLEAN /\ out \subseteq Packet
      /\ x.committed => s \in stored[f] \/ c
      /\ \A m \in out : m.stream = s /\ m.node = f /\ (m.durable => s \in stored[f] \/ c)
      /\ x.open => ingress[f][s].open \/ Cardinality(ingress_active(f)) < MaxInbound
  BY DEF Ingestible
<1> USE <1>0
<1>1. /\ ingress' \in [FollowerSet -> [Streams -> Inbound]]
      /\ ingress'[f][s] = x /\ \A t \in Streams : t # s => ingress'[f][t] = ingress[f][t]
      /\ \A g \in FollowerSet : g # f => ingress'[g] = ingress[g]
  BY DEF PublishInv, PublishTypeOK
<1>2. /\ stored' \in [FollowerSet -> SUBSET Streams]
      /\ stored'[f] = IF c THEN stored[f] \cup {s} ELSE stored[f]
      /\ \A g \in FollowerSet : g # f => stored'[g] = stored[g]
  BY DEF PublishInv, PublishTypeOK
<1>3. \A g \in FollowerSet : stored[g] \subseteq stored'[g]
  BY <1>2
<1>4. PublishTypeOK'
  BY <1>1, <1>2, Zenon DEF PublishInv, PublishTypeOK
<1>5. CopiesReal'
  <2>1. ASSUME NEW g \in FollowerSet, NEW t \in Streams, ingress'[g][t].committed
        PROVE  t \in stored'[g]
    <3>1. CASE g = f /\ t = s
      BY <1>1, <1>2, <2>1, <3>1, SMTT(60)
    <3>2. CASE g # f \/ t # s
      <4>1. ingress'[g][t] = ingress[g][t]
        BY <1>1, <3>2, SMTT(60)
      <4>2. t \in stored[g]
        BY <2>1, <4>1, SMTT(60) DEF PublishInv, CopiesReal
      <4> QED BY <1>3, <4>2, SMTT(60)
    <3> QED BY <3>1, <3>2, SMTT(60)
  <2>2. ASSUME NEW m \in sent', m.durable
        PROVE  m.stream \in stored'[m.node]
    <3>1. CASE m \in sent
      <4>1. m.node \in FollowerSet /\ m.stream \in stored[m.node]
        BY <2>2, <3>1 DEF PublishInv, PublishTypeOK, CopiesReal, Packet
      <4> QED BY <1>3, <4>1, SMTT(60)
    <3>2. CASE m \in out
      BY <1>2, <2>2, <3>2
    <3> QED BY <3>1, <3>2
  <2>3. ASSUME NEW i \in DOMAIN outbound, NEW g \in outbound[i].durable
        PROVE  outbound[i].stream \in stored'[g]
    <3>1. g \in FollowerSet /\ outbound[i].stream \in stored[g]
      BY <2>3 DEF PublishInv, PublishTypeOK, CopiesReal, Sender
    <3> QED BY <1>3, <3>1, SMTT(60)
  <2> QED BY <2>1, <2>2, <2>3, Zenon DEF CopiesReal
<1>6. ProposedStored'
  <2>1. ASSUME NEW i \in DOMAIN proposals
        PROVE  Majority(Copies(proposals[i])')
    <3>1. Copies(proposals[i]) \subseteq Copies(proposals[i])' /\ Copies(proposals[i])' \subseteq FollowerSet
      BY <1>3 DEF Copies
    <3>2. Majority(Copies(proposals[i]))
      BY <2>1 DEF PublishInv, ProposedStored
    <3> QED BY <3>1, <3>2, MajorityGrows
  <2> QED BY <2>1 DEF ProposedStored, Copies
<1>7. IngressBounded'
  <2> SUFFICES ASSUME NEW g \in FollowerSet
               PROVE  Cardinality(ingress_active(g)') <= MaxInbound
    BY SMTT(60) DEF IngressBounded
  <2>1. IsFiniteSet(ingress_active(g)) /\ Cardinality(ingress_active(g)) \in Nat
        /\ Cardinality(ingress_active(g)) <= MaxInbound /\ MaxInbound \in Nat
    BY PublishAssumption, FS_Subset, FS_CardinalityType DEF PublishInv, IngressBounded, ingress_active
  <2>2. CASE g # f
    <3>1. ingress_active(g)' = ingress_active(g)
      BY <1>1, <2>2 DEF ingress_active
    <3> QED BY <2>1, <3>1, SMTT(60)
  <2>3. CASE g = f /\ (x.open => ingress[f][s].open)
    <3>1. ingress_active(g)' \subseteq ingress_active(g)
      BY <1>1, <2>3 DEF ingress_active
    <3>2. Cardinality(ingress_active(g)') \in Nat /\ Cardinality(ingress_active(g)') <= Cardinality(ingress_active(g))
      BY <2>1, <3>1, FS_Subset, FS_CardinalityType, SMTT(60)
    <3> QED BY <2>1, <3>2, SMTT(60)
  <2>4. CASE g = f /\ x.open /\ ~ingress[f][s].open
    <3>1. ingress_active(g)' = ingress_active(g) \cup {s} /\ s \notin ingress_active(g)
      BY <1>1, <2>4 DEF ingress_active
    <3>2. Cardinality(ingress_active(g)') = Cardinality(ingress_active(g)) + 1
      BY <2>1, <3>1, FS_AddElement, Zenon
    <3> QED BY <2>1, <2>4, <3>2, SMTT(60)
  <2> QED BY <2>2, <2>3, <2>4, SMTT(60)
<1> QED BY <1>4, <1>5, <1>6, <1>7, ZenonT(60) DEF PublishInv, StreamsOnce, ProposedOnce, TakenKept, Held, RouterBounded

\* An ingress entry x with a transport that takes room answers, and what was sent so far.
AckState == [e : Inbound, room : Int, out : SUBSET Packet]

\* send_ack answers for what is committed only, and opens nothing.
LEMMA SendAckFacts ==
    ASSUME NEW f \in FollowerSet, NEW s \in Streams, NEW st \in AckState
    PROVE  /\ send_ack(st, f, s) \in AckState
           /\ send_ack(st, f, s).e.open => st.e.open
           /\ send_ack(st, f, s).e.committed => st.e.committed
           /\ \A m \in send_ack(st, f, s).out :
                m \in st.out \/ (m.stream = s /\ m.node = f /\ m.durable = st.e.committed)
<1>0. st.e \in Inbound /\ st.room \in Int /\ st.out \subseteq Packet
  BY DEF AckState
<1>1. CASE st.room = 0
  <2>1. send_ack(st, f, s) = [st EXCEPT !.e.pending = TRUE]
    BY <1>1 DEF send_ack
  <2>2. PICK x : x = [st.e EXCEPT !.pending = TRUE]
    BY Zenon
  <2>3. x \in Inbound /\ x.open = st.e.open /\ x.committed = st.e.committed
    BY <1>0, <2>2, Zenon DEF Inbound
  <2>4. send_ack(st, f, s) = [e |-> x, room |-> st.room, out |-> st.out]
    BY <2>1, <2>2, Zenon DEF AckState
  <2> QED BY <1>0, <2>3, <2>4 DEF AckState
<1>2. CASE st.room # 0
  <2>1. PICK x : x = IF st.e.committed THEN NoStream ELSE [st.e EXCEPT !.pending = FALSE]
    BY Zenon
  <2>2. x \in Inbound /\ (x.open => st.e.open) /\ (x.committed => st.e.committed)
    <3>1. CASE st.e.committed
      <4>1. x = NoStream
        BY <2>1, <3>1
      <4> QED BY <4>1 DEF NoStream, Inbound
    <3>2. CASE ~st.e.committed
      <4>1. x = [st.e EXCEPT !.pending = FALSE]
        BY <2>1, <3>2
      <4> QED BY <1>0, <4>1, Zenon DEF Inbound
    <3> QED BY <3>1, <3>2
  <2>3. PICK a : a = Ack(s, f, st.e.next, st.e.committed)
    OBVIOUS
  <2>4. a \in Packet /\ a.stream = s /\ a.node = f /\ a.durable = st.e.committed
    BY <1>0, <2>3 DEF Ack, Packet, Inbound
  <2>5. send_ack(st, f, s) = [e |-> x, room |-> st.room - 1, out |-> st.out \cup {a}]
    BY <1>2, <2>1, <2>3 DEF send_ack
  <2> QED BY <1>0, <2>2, <2>4, <2>5 DEF AckState
<1> QED BY <1>1, <1>2

\* What stream_receiver_handle makes of an entry is an entry.
LEMMA ReceiverFacts ==
    ASSUME NEW x \in Inbound, NEW s, NEW offset \in Int, NEW ok \in BOOLEAN
    PROVE  receiver_handle(x, s, offset, ok) \in Inbound
<1> PICK used : used = Larger(x.used, offset + 1)
  OBVIOUS
<1>1. used \in Int
  BY DEF Larger, Inbound
<1>2. PICK last : last = (used = Chunks[s])
  OBVIOUS
<1>3. last \in BOOLEAN
  BY <1>2
<1>4. receiver_handle(x, s, offset, ok)
        = IF last /\ ~ok THEN [x EXCEPT !.used = 0]
          ELSE [x EXCEPT !.used = used, !.next = used, !.committed = last]
  BY <1>2, Zenon DEF receiver_handle
<1>5. [x EXCEPT !.used = 0] \in Inbound
  BY DEF Inbound
<1>6. [x EXCEPT !.used = used, !.next = used, !.committed = last] \in Inbound
  BY <1>1, <1>3, Zenon DEF Inbound
<1> QED BY <1>4, <1>5, <1>6

-----------------------------------------------------------------------------
(* The actions. *)

\* A submitted stream is refused, or taken with the chunks its legs may send at once.
LEMMA SubmitPreserves ==
    ASSUME PublishInv, NEW s \in Streams, SubmitDurable(s)
    PROVE  PublishInv'
<1>0. submitted[s] \in {"none", "busy", "refused"} /\ UNCHANGED <<ingress, stored, proposals>>
  BY DEF SubmitDurable
<1>1. CASE ~leads
  <2>1. submitted' = [submitted EXCEPT ![s] = "busy"] /\ UNCHANGED <<outbound, sent>>
    BY <1>1 DEF SubmitDurable
  <2> QED BY <1>0, <2>1, RefuseStep, Zenon
<1>2. CASE leads /\ Len(outbound) >= MaxOutbound
  <2>1. submitted' = [submitted EXCEPT ![s] = "refused"] /\ UNCHANGED <<outbound, sent>>
    BY <1>2 DEF SubmitDurable
  <2> QED BY <1>0, <2>1, RefuseStep, Zenon
<1>3. CASE leads /\ ~(Len(outbound) >= MaxOutbound)
  <2>1. PICK room \in Rooms :
          /\ outbound' = Append(outbound, egress_pump(egress_create(s), room).e)
          /\ sent' = sent \cup egress_pump(egress_create(s), room).out
          /\ submitted' = [submitted EXCEPT ![s] = IF egress_pump(egress_create(s), room).rc = "OK" THEN "accepted" ELSE "full"]
    BY <1>3, Zenon DEF SubmitDurable
  <2>2. PICK st : egress_pump(egress_create(s), room) = Pumped(egress_create(s), st)
    BY Zenon DEF egress_pump
  <2>3. egress_create(s).stream = s /\ egress_create(s).durable = {}
    BY DEF egress_create
  <2>4. PICK e : e = Pumped(egress_create(s), st).e
    OBVIOUS
  <2>5. PICK out : out = Pumped(egress_create(s), st).out
    OBVIOUS
  <2>6. Sender(e) /\ e.stream = s /\ e.durable = {} /\ out \subseteq Packet /\ \A m \in out : ~m.durable
    BY <2>3, <2>4, <2>5, PumpedFacts
  <2>7. PICK answer \in {"accepted", "full"} : submitted' = [submitted EXCEPT ![s] = answer]
    BY <2>1, Zenon
  <2>8. outbound' = Append(outbound, e) /\ sent' = sent \cup out
    BY <2>1, <2>2, <2>4, <2>5, SMTT(60)
  <2>9. Len(outbound) < MaxOutbound
    BY <1>3, PublishAssumption DEF PublishInv, PublishTypeOK, IsSeq
  <2> QED BY <1>0, <2>6, <2>7, <2>8, <2>9, TakeStep, Zenon
<1> QED BY <1>1, <1>2, <1>3, SMTT(60)

\* What router_try_propose needs to know of the sender it is given, and of what was sent.
LEMMA TryPropose ==
    ASSUME PublishInv, NEW i \in DOMAIN outbound, NEW e, Sender(e), e.stream = outbound[i].stream,
           \A f \in e.durable : e.stream \in stored[f],
           NEW out, out \subseteq Packet, \A m \in out : ~m.durable,
           router_try_propose(i, e) \/ (outbound' = [outbound EXCEPT ![i] = e] /\ UNCHANGED proposals),
           sent' = sent \cup out, UNCHANGED <<ingress, stored, submitted>>
    PROVE  PublishInv'
<1>1. CASE outbound' = [outbound EXCEPT ![i] = e] /\ UNCHANGED proposals
  BY <1>1, KeepStep, Zenon
<1>2. CASE /\ make_proposal(e)
           /\ proposals' = Append(proposals, e.stream) /\ outbound' = Without(i)
  <2>1. Majority(e.durable)
    BY <1>2 DEF make_proposal, Majority
  <2> QED BY <1>2, <2>1, ProposeStep, Zenon
<1> QED BY <1>1, <1>2, Zenon DEF router_try_propose

\* router_retry pumps a stream again and proposes it when a majority has it.
LEMMA RetryPreserves ==
    ASSUME PublishInv, Retry
    PROVE  PublishInv'
<1>1. PICK i \in DOMAIN outbound, room \in Rooms :
        /\ IF egress_pump(outbound[i], room).rc = "OK" THEN router_try_propose(i, egress_pump(outbound[i], room).e)
           ELSE outbound' = [outbound EXCEPT ![i] = egress_pump(outbound[i], room).e] /\ UNCHANGED proposals
        /\ sent' = sent \cup egress_pump(outbound[i], room).out
        /\ UNCHANGED <<ingress, stored, submitted>>
  BY Zenon DEF Retry
<1>2. PICK st : egress_pump(outbound[i], room) = Pumped(outbound[i], st)
  BY Zenon DEF egress_pump
<1>3. Sender(outbound[i]) /\ \A f \in outbound[i].durable : outbound[i].stream \in stored[f]
  BY Zenon DEF PublishInv, PublishTypeOK, CopiesReal
<1>4. PICK e, out : e = Pumped(outbound[i], st).e /\ out = Pumped(outbound[i], st).out
  BY Zenon
<1>5. /\ Sender(e) /\ e.stream = outbound[i].stream /\ e.durable = outbound[i].durable
      /\ out \subseteq Packet /\ \A m \in out : ~m.durable
  BY <1>3, <1>4, PumpedFacts DEF Sender
<1>6. router_try_propose(i, e) \/ (outbound' = [outbound EXCEPT ![i] = e] /\ UNCHANGED proposals)
  BY <1>1, <1>2, <1>4, Zenon
<1>7. sent' = sent \cup out
  BY <1>1, <1>2, <1>4, Zenon
<1>8. \A f \in e.durable : e.stream \in stored[f]
  BY <1>3, <1>5, Zenon
<1> QED BY <1>1, <1>5, <1>6, <1>7, <1>8, TryPropose, Zenon

\* An acknowledgement counts only when it is durable, and may make the proposal.
LEMMA AckPreserves ==
    ASSUME PublishInv, HandleAck
    PROVE  PublishInv'
<1>0. PICK m \in sent, i \in DOMAIN outbound, room \in Rooms :
        router_handle(i, m, room) /\ UNCHANGED <<ingress, stored, submitted>>
  BY Zenon DEF HandleAck
<1>1. PICK a : a = egress_acknowledge(outbound[i], m)
  OBVIOUS
<1>2. PICK st : /\ outbound[i].stream = m.stream
                /\ IF Pumped(a, st).rc = "OK" THEN router_try_propose(i, Pumped(a, st).e)
                   ELSE outbound' = [outbound EXCEPT ![i] = Pumped(a, st).e] /\ UNCHANGED proposals
                /\ sent' = sent \cup Pumped(a, st).out
  BY <1>0, <1>1, Zenon DEF router_handle
<1>3. Sender(outbound[i]) /\ \A f \in outbound[i].durable : outbound[i].stream \in stored[f]
  BY Zenon DEF PublishInv, PublishTypeOK, CopiesReal
<1>4. m.node \in FollowerSet /\ (m.durable => m.stream \in stored[m.node])
  BY DEF PublishInv, PublishTypeOK, CopiesReal, Packet
<1>5. a.stream = outbound[i].stream /\ a.durable = IF m.durable THEN outbound[i].durable \cup {m.node} ELSE outbound[i].durable
  BY <1>1, <1>3 DEF egress_acknowledge, Sender
<1>6. PICK e, out : e = Pumped(a, st).e /\ out = Pumped(a, st).out
  BY Zenon
<1>7. a.stream \in Streams /\ a.durable \subseteq FollowerSet
  BY <1>3, <1>4, <1>5, SMTT(60) DEF Sender
<1>8. /\ Sender(e) /\ e.stream = outbound[i].stream /\ e.durable = a.durable
      /\ out \subseteq Packet /\ \A c \in out : ~c.durable
  BY <1>5, <1>6, <1>7, PumpedFacts, SMTT(60)
<1>9. \A f \in e.durable : e.stream \in stored[f]
  BY <1>2, <1>3, <1>4, <1>5, <1>8
<1>10. router_try_propose(i, e) \/ (outbound' = [outbound EXCEPT ![i] = e] /\ UNCHANGED proposals)
  BY <1>2, <1>6, Zenon
<1>11. sent' = sent \cup out
  BY <1>2, <1>6, Zenon
<1> QED BY <1>0, <1>8, <1>9, <1>10, <1>11, TryPropose, Zenon

\* ingress_handle, whatever its transport takes and whether the commit succeeds.
LEMMA ChunkPreserves ==
    ASSUME PublishInv, HandleChunk
    PROVE  PublishInv'
<1> DEFINE first(f, s, room) == [e |-> ingress[f][s], room |-> room, out |-> {}]
           answered(f, s, room) == IF first(f, s, room).e.pending THEN send_ack(first(f, s, room), f, s) ELSE first(f, s, room)
           begun(f, s, room) == [answered(f, s, room).e EXCEPT !.open = TRUE]
           handled(m, room, ok) == receiver_handle(begun(m.node, m.stream, room), m.stream, m.offset, ok)
           old(m, room) == first(m.node, m.stream, room).e
           done(m, room) == old(m, room).pending
                              /\ (room = 0 \/ old(m, room).committed \/ m.offset < old(m, room).next)
           after(m, room, ok) ==
             IF done(m, room) THEN answered(m.node, m.stream, room)
             ELSE IF handled(m, room, ok).used = 0 THEN [answered(m.node, m.stream, room) EXCEPT !.e = handled(m, room, ok)]
             ELSE send_ack([answered(m.node, m.stream, room) EXCEPT !.e = handled(m, room, ok)], m.node, m.stream)
<1>0. PICK m \in sent, room \in Rooms, ok \in {TRUE} \cup {pubFaults = 0} :
        ingress_handle(m, room, ok) /\ UNCHANGED <<outbound, proposals, submitted>>
  BY Zenon DEF HandleChunk
<1>1. /\ done(m, room) \/ old(m, room).open \/ Cardinality(ingress_active(m.node)) < MaxInbound
      /\ ingress' = [ingress EXCEPT ![m.node][m.stream] = after(m, room, ok).e]
      /\ sent' = sent \cup after(m, room, ok).out
      /\ stored' = [stored EXCEPT ![m.node] = IF ~done(m, room) /\ handled(m, room, ok).committed THEN @ \cup {m.stream} ELSE @]
  BY <1>0, Zenon DEF ingress_handle
<1>2. PICK f, s : f = m.node /\ s = m.stream
  BY Zenon
<1>3. f \in FollowerSet /\ s \in Streams /\ m.offset \in Int /\ ingress[f][s] \in Inbound
      /\ (ingress[f][s].committed => s \in stored[f])
  BY <1>2 DEF PublishInv, PublishTypeOK, CopiesReal, Packet
<1>4. room \in Int /\ ok \in BOOLEAN
  <2>1. room \in Int
    BY DEF Rooms
  <2>2. (pubFaults = 0) \in BOOLEAN
    OBVIOUS
  <2> QED BY <2>1, <2>2, Zenon
<1>5. first(f, s, room) \in AckState /\ first(f, s, room).e = ingress[f][s] /\ first(f, s, room).out = {}
  BY <1>3, <1>4, SMTT(60) DEF AckState
<1>6. PICK a : a = answered(f, s, room)
  BY SMTT(60)
<1>7. /\ a \in AckState /\ (a.e.open => ingress[f][s].open)
      /\ a.e.committed => ingress[f][s].committed
      /\ \A p \in a.out : p.stream = s /\ p.node = f /\ p.durable = ingress[f][s].committed
  <2>1. CASE ingress[f][s].pending
    <3>1. a = send_ack(first(f, s, room), f, s)
      BY <1>5, <1>6, <2>1, SMTT(60)
    <3> HIDE DEF first
    <3> QED BY <1>3, <1>5, <3>1, SendAckFacts, SMTT(60)
  <2>2. CASE ~ingress[f][s].pending
    <3>1. a = first(f, s, room)
      BY <1>5, <1>6, <2>2, SMTT(60)
    <3> HIDE DEF first
    <3> QED BY <1>5, <3>1, SMTT(60)
  <2> QED BY <2>1, <2>2, SMTT(60)
<1>8. a.e \in Inbound /\ a.out \subseteq Packet
  BY <1>7 DEF AckState
<1>9. begun(f, s, room) \in Inbound
  BY <1>6, <1>8, ZenonT(60) DEF Inbound
<1>10. PICK h : h = handled(m, room, ok)
  OBVIOUS
<1>11. h \in Inbound
  <2> HIDE DEF begun
  <2> QED BY <1>2, <1>3, <1>4, <1>9, <1>10, ReceiverFacts
<1>12. PICK st : st = after(m, room, ok)
  BY Zenon
<1>13. PICK c \in BOOLEAN : c = (~done(m, room) /\ h.committed)
  BY Zenon
<1>14. [a EXCEPT !.e = h] \in AckState /\ [a EXCEPT !.e = h].e = h /\ [a EXCEPT !.e = h].out = a.out
  BY <1>7, <1>11 DEF AckState
<1>15. \/ done(m, room) /\ st = a
       \/ ~done(m, room) /\ st = [a EXCEPT !.e = h]
       \/ ~done(m, room) /\ st = send_ack([a EXCEPT !.e = h], f, s)
  <2> HIDE DEF answered, handled, done
  <2> QED BY <1>2, <1>6, <1>10, <1>12, Zenon
<1>16. /\ st \in AckState /\ (st.e.committed => s \in stored[f] \/ c)
       /\ \A p \in st.out : p.stream = s /\ p.node = f /\ (p.durable => s \in stored[f] \/ c)
       /\ done(m, room) => (st.e.open => ingress[f][s].open)
  <2> HIDE DEF answered, handled, done, after
  <2>1. CASE done(m, room) /\ st = a
    BY <1>3, <1>7, <2>1
  <2>2. CASE ~done(m, room) /\ st = [a EXCEPT !.e = h]
    BY <1>3, <1>7, <1>13, <1>14, <2>2, Zenon
  <2>3. CASE ~done(m, room) /\ st = send_ack([a EXCEPT !.e = h], f, s)
    <3>1. PICK b : b = [a EXCEPT !.e = h]
      BY Zenon
    <3>2. /\ st \in AckState /\ (st.e.committed => h.committed)
          /\ \A p \in st.out : p \in a.out \/ (p.stream = s /\ p.node = f /\ p.durable = h.committed)
      <4>1. b \in AckState /\ b.e = h /\ b.out = a.out /\ st = send_ack(b, f, s)
        BY <1>14, <2>3, <3>1, Zenon
      <4>2. /\ send_ack(b, f, s) \in AckState
            /\ send_ack(b, f, s).e.committed => b.e.committed
            /\ \A p \in send_ack(b, f, s).out :
                 p \in b.out \/ (p.stream = s /\ p.node = f /\ p.durable = b.e.committed)
        BY <1>3, <4>1, SendAckFacts, ZenonT(60)
      <4> QED BY <4>1, <4>2
    <3> QED BY <1>3, <1>7, <1>13, <2>3, <3>2, Zenon
  <2> QED BY <1>15, <2>1, <2>2, <2>3, SMTT(60)
<1>17. st.e \in Inbound /\ st.out \subseteq Packet
  BY <1>16 DEF AckState
<1>18. /\ ingress' = [ingress EXCEPT ![f][s] = st.e] /\ sent' = sent \cup st.out
       /\ stored' = [stored EXCEPT ![f] = IF c THEN @ \cup {s} ELSE @]
  <2> HIDE DEF after, handled, done
  <2> QED BY <1>1, <1>2, <1>10, <1>12, <1>13, Zenon
<1>19. st.e.open => ingress[f][s].open \/ Cardinality(ingress_active(f)) < MaxInbound
  <2>1. old(m, room) = ingress[f][s]
    BY <1>2, <1>5
  <2> HIDE DEF first, answered, begun, handled, done, after, old
  <2> QED BY <1>1, <1>2, <1>16, <2>1, Zenon
<1> HIDE DEF first, answered, begun, handled, done, after, old
<1>21. PICK x, out : x = st.e /\ out = st.out
  BY Zenon
<1>22. Ingestible(f, s, x, out, c)
  BY <1>3, <1>13, <1>16, <1>17, <1>19, <1>21, Zenon DEF Ingestible
<1>23. Ingests(f, s, x, out, c)
  BY <1>0, <1>18, <1>21, Zenon DEF Ingests
<1> QED BY <1>22, <1>23, IngressStep, Zenon

\* A restarted follower forgets what it was putting together and keeps what it stored.
LEMMA RestartPreserves ==
    ASSUME PublishInv, NEW f \in FollowerSet, FollowerRestart(f)
    PROVE  PublishInv'
<1>1. /\ ingress' = [ingress EXCEPT ![f] = [s \in Streams |-> NoStream]]
      /\ UNCHANGED <<outbound, stored, sent, proposals, submitted>>
  BY DEF FollowerRestart
<1>2. NoStream \in Inbound /\ ~NoStream.open /\ ~NoStream.committed
  BY DEF NoStream, Inbound
<1>3. /\ ingress' \in [FollowerSet -> [Streams -> Inbound]]
      /\ \A s \in Streams : ingress'[f][s] = NoStream
      /\ \A g \in FollowerSet : g # f => ingress'[g] = ingress[g]
  BY <1>1, <1>2 DEF PublishInv, PublishTypeOK
<1>4. PublishTypeOK'
  BY <1>1, <1>3, Zenon DEF PublishInv, PublishTypeOK
<1>5. CopiesReal'
  <2>1. \A g \in FollowerSet, s \in Streams : ingress'[g][s].committed => s \in stored[g]
    BY <1>2, <1>3 DEF PublishInv, CopiesReal
  <2> QED BY <1>1, <2>1, Zenon DEF PublishInv, CopiesReal
<1>6. IngressBounded'
  <2>1. ingress_active(f)' = {}
    BY <1>2, <1>3 DEF ingress_active
  <2>2. Cardinality({}) <= MaxInbound
    BY FS_EmptySet, PublishAssumption, SMTT(60)
  <2>3. \A g \in FollowerSet : g # f => ingress_active(g)' = ingress_active(g)
    BY <1>3, SMTT(60) DEF ingress_active
  <2> QED BY <2>1, <2>2, <2>3, ZenonT(60) DEF PublishInv, IngressBounded
<1>7. StreamsOnce' /\ ProposedOnce' /\ TakenKept' /\ RouterBounded'
  BY <1>1, SMTT(60) DEF PublishInv, StreamsOnce, ProposedOnce, TakenKept, Held, RouterBounded
<1>8. ProposedStored'
  BY <1>1 DEF PublishInv, ProposedStored, Copies
<1> QED BY <1>4, <1>5, <1>6, <1>7, <1>8, SMTT(60) DEF PublishInv

\* The initial state has the invariant.
LEMMA PublishInitInv == PublishInit => PublishInv
<1> HAVE PublishInit
<1>1. NoStream \in Inbound /\ ~NoStream.open /\ ~NoStream.committed
  BY DEF NoStream, Inbound
<1>2. outbound = <<>> /\ proposals = <<>> /\ sent = {} /\ DOMAIN outbound = {} /\ DOMAIN proposals = {}
  BY DEF PublishInit
<1>3. IsSeq(outbound) /\ Len(outbound) = 0
  BY <1>2 DEF IsSeq
<1>4. PublishTypeOK
  BY <1>1, <1>2, <1>3, SMTT(60) DEF PublishInit, PublishTypeOK
<1>5. CopiesReal
  BY <1>1, <1>2 DEF PublishInit, CopiesReal
<1>6. RouterBounded
  BY <1>3, PublishAssumption DEF RouterBounded
<1>7. IngressBounded
  <2>1. \A f \in FollowerSet : ingress_active(f) = {}
    BY <1>1 DEF PublishInit, ingress_active
  <2>2. Cardinality({}) <= MaxInbound
    BY FS_EmptySet, PublishAssumption, SMTT(60)
  <2> QED BY <2>1, <2>2, Zenon DEF IngressBounded
<1>8. StreamsOnce /\ ProposedStored /\ ProposedOnce /\ TakenKept
  BY <1>2 DEF PublishInit, StreamsOnce, ProposedStored, ProposedOnce, TakenKept, Held
<1> QED BY <1>4, <1>5, <1>6, <1>7, <1>8 DEF PublishInv

\* Every step keeps the invariant.
LEMMA PublishStep == PublishInv /\ [PublishNext]_publishVars => PublishInv'
<1> SUFFICES ASSUME PublishInv, [PublishNext]_publishVars
             PROVE  PublishInv'
  OBVIOUS
<1>1. CASE \E s \in Streams : SubmitDurable(s)
  BY <1>1, SubmitPreserves
<1>2. CASE HandleAck
  BY <1>2, AckPreserves
<1>3. CASE Retry
  BY <1>3, RetryPreserves
<1>4. CASE HandleChunk
  BY <1>4, ChunkPreserves
<1>5. CASE \E f \in FollowerSet : FollowerRestart(f)
  BY <1>5, RestartPreserves
<1>6. CASE UNCHANGED <<outbound, ingress, stored, sent, proposals, submitted>>
  <2>1. PublishTypeOK' /\ CopiesReal' /\ StreamsOnce'
    BY <1>6, SMTT(60) DEF PublishInv, PublishTypeOK, CopiesReal, StreamsOnce
  <2>2. ProposedStored' /\ ProposedOnce' /\ TakenKept' /\ RouterBounded' /\ IngressBounded'
    BY <1>6 DEF PublishInv, ProposedStored, ProposedOnce, TakenKept, Held, RouterBounded, IngressBounded, Copies, ingress_active
  <2> QED BY <2>1, <2>2, SMTT(60) DEF PublishInv
<1> QED BY <1>1, <1>2, <1>3, <1>4, <1>5, <1>6 DEF PublishNext, publishVars, Election

\* PublishDurable for any number of followers, streams, chunks and faults.
THEOREM ProposedDurably == PublishSpec => []PublishDurable
<1>1. PublishInv => PublishDurable
  BY DurableParts DEF PublishInv
<1> QED BY <1>1, PublishInitInv, PublishStep, PTL DEF PublishSpec
=============================================================================
