----------------------- MODULE FlowieClusterTopology -----------------------
(* Which node dials which: every node turns the membership it is shown into a
   plan of REMOVE and ADD operations against the peers it has, carries the
   plan out one operation at a time, and replaces the set of peers whose
   certificate it accepts.  Membership changes, old memberships are shown
   again, operations fail half-way and nodes restart under a new boot id.
   The driver that shows memberships and carries plans out is external.    *)
EXTENDS Integers, Sequences, FiniteSets, SequencesExt

CONSTANTS
  TopoNodes,     \* node ids; the order of the ids is that of the integers
  Pinned,        \* nodes with a configured certificate
  MaxRevision,   \* membership revisions considered
  MaxFailures    \* operations of plans that fail

VARIABLES
  history,   \* history[r]: the membership of revision r, ordered by node id
  node,      \* what each node knows and does
  failures   \* operations that may still fail

topoVars == <<history, node, failures>>

Connectable == {"SYNCING", "READY", "DRAINING"}

\* flowie_cluster_node_transition_validate
node_transition ==
  [STARTING |-> {"SYNCING", "OFFLINE"}, SYNCING |-> {"READY", "DRAINING", "OFFLINE", "EXPIRED"},
   READY |-> {"DRAINING", "EXPIRED"}, DRAINING |-> {"OFFLINE", "EXPIRED"}, OFFLINE |-> {}, EXPIRED |-> {}]

Peer(m) == [id |-> m.id, boot |-> m.boot, endpoint |-> m.endpoint]

\* Nodes in the order of their ids, each shown the first membership.
NewNode(b) == [boot |-> b, applied |-> 0, peers |-> <<>>, plan |-> <<>>, target |-> 0,
               active |-> {}, authority |-> 0]

TopoInit ==
  /\ history = << [n \in 1 .. Cardinality(TopoNodes) |->
       [id |-> n, boot |-> 1, endpoint |-> 1, state |-> "SYNCING", revision |-> 1]] >>
  /\ node = [n \in TopoNodes |-> NewNode(1)]
  /\ failures = MaxFailures

----------------------------------------------------------------------------
(* Planning.                                                               *)

member_desired(local, m) == m.state \in Connectable /\ local < m.id

Desired(local, membership) ==
  SelectSeq(membership, LAMBDA m : member_desired(local, m))

membership_validate(n, r) ==
  LET members == history[r]
      mine == {i \in DOMAIN members : members[i].id = n}
  IN IF r < node[n].applied THEN "EBUSY"
     ELSE IF \E i \in DOMAIN members : members[i].revision \notin 1 .. r THEN "EPROTO"
     ELSE IF mine = {} \/ \E i \in mine : members[i].boot # node[n].boot THEN "EBUSY"
     ELSE "OK"

peer_matches_member_NodeOnly(p, m) == p.id = m.id

peer_matches_member(p, m) == p.boot = m.boot /\ p.endpoint = m.endpoint

Operation(kind, p) == <<[kind |-> kind, peer |-> Peer(p)]>>

\* Two walks over the ordered current and desired peers.
plan_removals(current, desired) ==
  LET Walk[c \in 1 .. Len(current) + 1, d \in 1 .. Len(desired) + 1] ==
        IF c > Len(current) THEN <<>>
        ELSE IF d > Len(desired) THEN Operation("REMOVE", current[c]) \o Walk[c + 1, d]
        ELSE IF current[c].id < desired[d].id THEN Operation("REMOVE", current[c]) \o Walk[c + 1, d]
        ELSE IF current[c].id > desired[d].id THEN Walk[c, d + 1]
        ELSE (IF peer_matches_member(current[c], desired[d]) THEN <<>>
              ELSE Operation("REMOVE", current[c])) \o Walk[c + 1, d + 1]
  IN Walk[1, 1]

plan_additions(current, desired) ==
  LET Walk[c \in 1 .. Len(current) + 1, d \in 1 .. Len(desired) + 1] ==
        IF d > Len(desired) THEN <<>>
        ELSE IF c <= Len(current) /\ current[c].id < desired[d].id THEN Walk[c + 1, d]
        ELSE LET same == c <= Len(current) /\ current[c].id = desired[d].id
             IN (IF same /\ peer_matches_member(current[c], desired[d]) THEN <<>>
                 ELSE Operation("ADD", desired[d])) \o Walk[IF same THEN c + 1 ELSE c, d + 1]
  IN Walk[1, 1]

plan_build(n, r) ==
  LET desired == Desired(n, history[r])
      current == node[n].peers
      operations == plan_removals(current, desired) \o plan_additions(current, desired)
  IN IF membership_validate(n, r) # "OK" THEN [rc |-> membership_validate(n, r), operations |-> <<>>]
     ELSE IF r = node[n].applied /\ operations # <<>> THEN [rc |-> "EPROTO", operations |-> <<>>]
     ELSE [rc |-> "OK", operations |-> operations]

----------------------------------------------------------------------------
(* Authorization.                                                          *)

\* peer_authority_replace: all the other connectable members, each with the
\* certificate its node is pinned to; one that has none refuses the set.
authority_replace(n, r) ==
  LET peers == {Peer(history[r][i]) : i \in {j \in DOMAIN history[r] :
                  history[r][j].state \in Connectable /\ history[r][j].id # n}}
  IN IF \E p \in peers : p.id \notin Pinned THEN node[n]
     ELSE [node[n] EXCEPT !.active = {[id |-> p.id, boot |-> p.boot, cert |-> p.id] : p \in peers},
                          !.authority = r]

authority_authorize(n, id, boot, cert) ==
  \E m \in node[n].active : m.id = id /\ m.boot = boot /\ m.cert = cert

----------------------------------------------------------------------------
(* Steps.                                                                  *)

\* A membership is shown to a node: a plan replaces the one in hand.
Observe(n) ==
  \E r \in DOMAIN history :
    LET built == plan_build(n, r)
    IN /\ built.rc = "OK"
       /\ node' = [node EXCEPT ![n] = [authority_replace(n, r) EXCEPT
                     !.plan = built.operations, !.target = r,
                     !.applied = IF built.operations = <<>> THEN r ELSE @]]
       /\ UNCHANGED <<history, failures>>

\* The next operation of the plan; the revision is applied with the last one.
Carry(peers, op) ==
  IF op.kind = "REMOVE"
  THEN SelectSeq(peers, LAMBDA p : p # op.peer)
  ELSE SelectSeq(peers, LAMBDA p : p.id <= op.peer.id) \o <<op.peer>>
         \o SelectSeq(peers, LAMBDA p : p.id > op.peer.id)

Operate(n) ==
  /\ node[n].plan # <<>>
  /\ node' = [node EXCEPT ![n].peers = Carry(@, Head(node[n].plan)), ![n].plan = Tail(@),
                          ![n].applied = IF Len(node[n].plan) = 1 THEN node[n].target ELSE @]
  /\ UNCHANGED <<history, failures>>

\* An operation fails: the rest of the plan is dropped.
OperationFails(n) ==
  /\ node[n].plan # <<>> /\ failures > 0
  /\ node' = [node EXCEPT ![n].plan = <<>>]
  /\ failures' = failures - 1
  /\ UNCHANGED history

\* A member changes state or moves; the membership gets the next revision.
Changed(i, m) ==
  /\ Len(history) < MaxRevision
  /\ history' = Append(history, [Last(history) EXCEPT ![i] = [m EXCEPT !.revision = Len(history) + 1]])

MemberChanges ==
  /\ \E i \in DOMAIN Last(history) :
       LET m == Last(history)[i]
       IN \/ \E s \in node_transition[m.state] : Changed(i, [m EXCEPT !.state = s])
          \/ Changed(i, [m EXCEPT !.endpoint = 3 - @])
  /\ UNCHANGED <<node, failures>>

\* A node restarts: a new boot id, nothing dialed, and a new row.
Restart(n) ==
  /\ node[n].boot = 1
  /\ \E i \in DOMAIN Last(history) :
       /\ Last(history)[i].id = n
       /\ Changed(i, [Last(history)[i] EXCEPT !.boot = 2, !.state = "SYNCING"])
  /\ node' = [node EXCEPT ![n] = NewNode(2)]
  /\ UNCHANGED failures

TopoNext ==
  \/ MemberChanges
  \/ \E n \in TopoNodes : Observe(n) \/ Operate(n) \/ OperationFails(n) \/ Restart(n)

----------------------------------------------------------------------------
(* What is left of a plan always leads to exactly the peers the membership it
   was built for asks for, an operation never adds a node that is still dialed
   nor removes one that is not, and of two nodes that have both applied a
   membership exactly one dials the other, under the boot id it has there, and
   each accepts the other's certificate.                                   *)
PeersConverge ==
  /\ \A n \in TopoNodes : node[n].plan # <<>> =>
       /\ FoldLeft(Carry, node[n].peers, node[n].plan)
            = [i \in DOMAIN Desired(n, history[node[n].target]) |-> Peer(Desired(n, history[node[n].target])[i])]
       /\ LET op == Head(node[n].plan)
              known == {i \in DOMAIN node[n].peers : node[n].peers[i].id = op.peer.id}
          IN IF op.kind = "ADD" THEN known = {} ELSE \E i \in known : node[n].peers[i] = op.peer
  /\ \A n, p \in TopoNodes :
       LET r == node[n].applied
           dials(a, b) == \E i \in DOMAIN node[a].peers : node[a].peers[i].id = b
           known(a) == \E i \in DOMAIN history[r] : history[r][i].id = a /\ history[r][i].state \in Connectable
           settled(a) == node[a].applied = r /\ node[a].plan = <<>> /\ node[a].target = r /\ node[a].authority = r
       IN r # 0 /\ n # p /\ settled(n) /\ settled(p) /\ known(n) /\ known(p)
            /\ Last(history)[n].boot = history[r][n].boot /\ Last(history)[p].boot = history[r][p].boot =>
          /\ dials(n, p) # dials(p, n)
          /\ authority_authorize(n, p, node[p].boot, p) /\ authority_authorize(p, n, node[n].boot, n)
=============================================================================
