------------------------ MODULE MCFlowieClusterState ------------------------
(* What the nodes of a cluster agree on, in parts that share no state: the peers
   of a changing membership, the owners a replicated log gives, the lease on a
   database row, and the publishes that must reach a majority.             *)
EXTENDS FlowieClusterTopology, FlowieClusterOwnership, FlowieClusterLease, FlowieClusterPublish

MCFollowers == <<"f1", "f2">>
MCChunks == [s \in {1, 2, 3} |-> IF s = 1 THEN 2 ELSE 1]

VARIABLE part
stateVars == <<part, topoVars, ownerVars, leaseVars, publishVars>>

Init ==
  /\ part \in {"topology", "owners", "lease", "publish"}
  /\ TopoInit /\ OwnerInit /\ LeaseInit /\ PublishInit
Next ==
  /\ \/ part = "topology" /\ TopoNext /\ UNCHANGED <<ownerVars, leaseVars, publishVars>>
     \/ part = "owners" /\ OwnerNext /\ UNCHANGED <<topoVars, leaseVars, publishVars>>
     \/ part = "lease" /\ LeaseNext /\ UNCHANGED <<topoVars, ownerVars, publishVars>>
     \/ part = "publish" /\ PublishNext /\ UNCHANGED <<topoVars, ownerVars, leaseVars>>
  /\ UNCHANGED part
Spec == Init /\ [][Next]_stateVars
=============================================================================
