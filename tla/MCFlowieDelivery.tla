--------------------------- MODULE MCFlowieDelivery ---------------------------
(***************************************************************************)
(* The broker's outbound side on a small instance: the delivery table of a *)
(* session owner, or the send path in front of its subscriber.  part tells *)
(* which of the two a behaviour exercises; the other one stays as it is.   *)
(***************************************************************************)
EXTENDS FlowieDelivery, FlowieSend

VARIABLE part

outboundVars == <<part, vars, sendVars>>

MCInit ==
    /\ part \in {"table", "path"}
    /\ Init /\ SendInit
    /\ part = "table" => exactly = {}

MCNext ==
    \/ part = "table" /\ Next /\ UNCHANGED <<part, sendVars>>
    \/ part = "path" /\ SendNext /\ UNCHANGED <<part, vars>>

MCSpec == MCInit /\ [][MCNext]_outboundVars
=============================================================================
