--------------------------- MODULE MCFlowieExchanges ---------------------------
(***************************************************************************)
(* What the broker and its clients complete, on small instances: the send  *)
(* path to a subscriber, the inbound exchanges of a publisher, or the life *)
(* of a session.  part tells which of them a behaviour exercises; the      *)
(* others stay as they are.  At rest the send path and the session have no *)
(* fair action enabled; a publisher has (it connects), so its fairness is  *)
(* asked for in its own part only.                                         *)
(***************************************************************************)
EXTENDS FlowieSend, FlowieInbound, FlowieLifecycle

VARIABLE part

exchangesVars == <<part, sendVars, vars, lifeVars>>

MCInit ==
    /\ part \in {"send", "inbound", "life"}
    /\ SendInit /\ Init /\ LifeInit
    /\ part # "send" => exactly = {}
    /\ part # "inbound" =>
         exact = {} /\ policy = (CHOOSE p \in Policies : TRUE)
         /\ patient = (CHOOSE b \in Patience : TRUE)

MCNext ==
    \/ part = "send" /\ SendNext /\ UNCHANGED <<part, vars, lifeVars>>
    \/ part = "inbound" /\ Next /\ UNCHANGED <<part, sendVars, lifeVars>>
    \/ part = "life" /\ LifeNext /\ UNCHANGED <<part, sendVars, vars>>

MCSpec ==
    /\ MCInit /\ [][MCNext]_exchangesVars
    /\ SendFairness /\ LifeFairness
    /\ part = "inbound" => Fairness
=============================================================================
