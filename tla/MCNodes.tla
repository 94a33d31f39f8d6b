-------------------------------- MODULE MCNodes --------------------------------
(***************************************************************************)
(* The instance, for TLC, of what is asked of the nodes under every fault:  *)
(* the carry-over of key uses from one node to the other, and the Maxima    *)
(* relay of the classic node.                                               *)
(*                                                                         *)
(* These share no state; a behaviour is one of one part, `part`, while the  *)
(* other keeps its first state.                                             *)
(***************************************************************************)
EXTENDS MCCarryOver, MCRelay

VARIABLE part

nodesVars == <<vars, relayVars, part>>

NodesInit ==
  /\ part \in {"carry", "relay"}
  /\ Init /\ (part # "carry" => kind = "minima" /\ \A k \in Kind : wallet[k] = "none")
  /\ RelayInit /\ (part # "relay" => relay = h1)

NodesNext ==
  \/ part = "carry" /\ Next /\ UNCHANGED <<relayVars, part>>
  \/ part = "relay" /\ RelayNext /\ UNCHANGED <<vars, part>>

\* Every wait of a switch has a deadline and every RPC a timeout, so that a switch and the
\* calls about the relay go on; the timer asks for heals; and a relay that is dialled answers
\* at last, unless the connection is lost.
NodesFairness ==
  /\ WF_vars(part = "carry" /\ FlowStep)
  /\ \A c \in Caller : WF_relayVars(part = "relay" /\ CallStep(c))
  /\ WF_relayVars(part = "relay" /\ \E c \in Caller : AskHeal(c))
  /\ \A l \in Link : WF_relayVars(part = "relay" /\ ComesUp(l))

NodesSpec == NodesInit /\ [][NodesNext]_nodesVars /\ NodesFairness

\* If something failed, some later heal sets it right - a relay that was lost, duplicates, a
\* pin at the relay before -: in the end the node follows the settings
\* (node-manager.js:661-666, 684-703).
Settles == <>[](part = "relay" => Follows)
================================================================================
