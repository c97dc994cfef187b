------------------------- MODULE MCFlowieClient -------------------------
(***************************************************************************)
(* Small instances of the two users of the network layer: the client and   *)
(* the listener.  part tells which of them a behaviour exercises; the      *)
(* other one stays as it is, and only the threads of that part are fair.   *)
(***************************************************************************)
EXTENDS FlowieClient, FlowieConnection

VARIABLE part

Both == {"d1", "d2"}

\* A batch of publishes after CONNECT, no recovery, two threads stopping it.
Batch ==
    [batches |-> <<<<"connect">>, <<"publish2", "publish1">>>>, resilient |-> FALSE,
     versions |-> {4}, ids |-> {}, destroyers |-> Both]

\* Recovery, a second CONNECT while connected or recovering, DISCONNECT.
Recovery ==
    [batches |-> <<<<"connect">>, <<"connect">>, <<"disconnect">>>>, resilient |-> TRUE,
     versions |-> {}, ids |-> {}, destroyers |-> {"d1"}]

\* Two inbound QoS 2 messages within a connection, and one over a second connection.
Inbound ==
    [batches |-> <<<<"connect">>>>, resilient |-> FALSE,
     versions |-> {}, ids |-> {1, 2}, destroyers |-> {"d1"}]
Again ==
    [batches |-> <<<<"connect">>, <<"connect">>>>, resilient |-> FALSE,
     versions |-> {}, ids |-> {1}, destroyers |-> {"d1"}]

\* An inbound message around a command and automatic reconnects.
Resumed ==
    [batches |-> <<<<"connect">>, <<"ping">>>>, resilient |-> TRUE,
     versions |-> {}, ids |-> {1}, destroyers |-> {"d1"}]

\* The remaining commands.
Others ==
    [batches |-> <<<<"connect">>, <<"subscribe">>, <<"auth">>, <<"publish0">>>>,
     resilient |-> FALSE, versions |-> {4}, ids |-> {}, destroyers |-> {"d1"}]

MCScenarios == {Batch, Recovery, Inbound, Again, Resumed, Others}
\* One owner that accepts for itself; commands race closing and slot reuse.
Single == [owners |-> 1, streams |-> 2, submits |-> 2, faults |-> 0]
Failing == [owners |-> 1, streams |-> 1, submits |-> 1, faults |-> 1]
\* An accept thread and two owners.
Pair == [owners |-> 2, streams |-> 1, submits |-> 0, faults |-> 1]

MCGroups == {Single, Failing, Pair}

networkVars == <<part, vars, connVars>>

MCInit ==
    /\ part \in {"client", "listener"}
    /\ Init /\ ConnInit
    /\ part = "client" => n = Pair.owners
    /\ part = "listener" => plan = Batch

MCNext ==
    \/ part = "client" /\ Next /\ UNCHANGED <<part, connVars>>
    \/ part = "listener" /\ ConnNext /\ UNCHANGED <<part, vars>>

MCSpec ==
    /\ MCInit /\ [][MCNext]_networkVars
    /\ part = "client" => Fairness
    /\ part = "listener" => ConnFairness

=========================================================================
