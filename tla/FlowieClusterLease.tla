------------------------- MODULE FlowieClusterLease -------------------------
(* The lease a node holds on a shard: a row in the database, and the deadline
   until which the node believes in it.  Requests and answers take any time,
   and nodes restart.  Clocks are kept as the time that is left.  The database
   and the node that asks are external.                                    *)
EXTENDS Integers

CONSTANTS
  LeaseNodes,    \* nodes that claim the lease
  LeaseTtl,      \* validity of a lease
  SafetyMargin,  \* by how much a node gives up earlier
  MaxEpoch       \* claims

ASSUME LeaseAssumption == SafetyMargin \in Nat \ {0} /\ LeaseTtl \in Nat /\ SafetyMargin < LeaseTtl

VARIABLES
  lease,     \* the row in the database
  holder     \* what each node believes of the lease

leaseVars == <<lease, holder>>

NewHolder(b) == [boot |-> b, epoch |-> 0, left |-> 0, request |-> "none", age |-> 0, granted |-> 0]

LeaseInit ==
  /\ lease = [owned |-> FALSE, left |-> 0, epoch |-> 0, node |-> "none", boot |-> 0]
  /\ holder = [n \in LeaseNodes |-> NewHolder(1)]

Older(t) == IF t < LeaseTtl THEN t + 1 ELSE t
Sooner(t) == IF t > 0 THEN t - 1 ELSE 0

LeaseTick ==
  /\ lease' = [lease EXCEPT !.left = Sooner(@)]
  /\ holder' = [n \in LeaseNodes |-> [holder[n] EXCEPT
       !.left = Sooner(@), !.age = IF holder[n].request = "none" THEN 0 ELSE Older(@)]]

\* A node asks: for the lease when it holds no epoch, to keep it when it does.
LeaseRequest(n) ==
  /\ holder[n].request = "none"
  /\ holder' = [holder EXCEPT ![n].request = "sent", ![n].age = 0]
  /\ UNCHANGED lease

\* shard_lease_require, shard_lease_claim, shard_lease_renew in the database.
lease_require(n) ==
  /\ lease.owned /\ lease.left > 0
  /\ lease.epoch = holder[n].epoch /\ lease.node = n /\ lease.boot = holder[n].boot

lease_claim_refused == lease.owned /\ lease.left > 0

LeaseServe(n) ==
  /\ holder[n].request = "sent" /\ lease.epoch < MaxEpoch
  /\ LET claim == holder[n].epoch = 0
         ok == IF claim THEN ~lease_claim_refused ELSE lease_require(n)
     IN /\ lease' = IF ~ok THEN lease
                    ELSE [owned |-> TRUE, left |-> LeaseTtl, node |-> n, boot |-> holder[n].boot,
                          epoch |-> IF claim THEN lease.epoch + 1 ELSE lease.epoch]
        /\ holder' = [holder EXCEPT ![n].request = IF ok THEN "granted" ELSE "refused",
                                    ![n].granted = IF ok /\ claim THEN lease.epoch + 1 ELSE holder[n].epoch]

\* lease_deadline_ns: the validity, less the margin, counted from the moment
\* the request was sent.
lease_deadline_FromAnswer(n) == LeaseTtl - SafetyMargin

lease_deadline(n) ==
  IF holder[n].age < LeaseTtl - SafetyMargin THEN LeaseTtl - SafetyMargin - holder[n].age ELSE 0

LeaseAnswer(n) ==
  /\ holder[n].request \in {"granted", "refused"}
  /\ LET ok == holder[n].request = "granted"
     IN holder' = [holder EXCEPT ![n] = [NewHolder(@.boot) EXCEPT
                     !.epoch = IF ok THEN holder[n].granted ELSE 0,
                     !.left = IF ok THEN lease_deadline(n) ELSE 0]]
  /\ UNCHANGED lease

\* shard_lease_release: the node gives up first, then asks.
LeaseRelease(n) ==
  /\ holder[n].request = "none" /\ holder[n].epoch # 0
  /\ lease' = IF lease_require(n) THEN [lease EXCEPT !.owned = FALSE, !.left = 0] ELSE lease
  /\ holder' = [holder EXCEPT ![n] = NewHolder(@.boot)]

LeaseRestart(n) ==
  /\ holder[n].boot = 1
  /\ holder' = [holder EXCEPT ![n] = NewHolder(2)]
  /\ UNCHANGED lease

LeaseNext ==
  LeaseTick \/ \E n \in LeaseNodes :
    LeaseRequest(n) \/ LeaseServe(n) \/ LeaseAnswer(n) \/ LeaseRelease(n) \/ LeaseRestart(n)

----------------------------------------------------------------------------
(* A node that believes in its lease is the one the database names, and the
   lease there is still valid: no two nodes believe at once, however long an
   answer took.                                                            *)
LeaseExclusive ==
  \A n \in LeaseNodes : holder[n].epoch # 0 /\ holder[n].left > 0 =>
    lease_require(n)
=============================================================================
