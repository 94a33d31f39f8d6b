------------------------------- MODULE MCPorts -------------------------------
(***************************************************************************)
(* The instance, for TLC, of what faces the network: the router port        *)
(* mapping under every fault with the search for the router's model, the    *)
(* bridge of the sidecar of Keets, its mailbox, its private transfers and   *)
(* its reads of media.                                                      *)
(*                                                                         *)
(* These share no state; a behaviour is one of one part, `part`, while the  *)
(* others keep their first state.                                           *)
(***************************************************************************)
EXTENDS PortMap, RouterModel, Bridge, Mailbox, Transfers, MediaRead

CONSTANTS r1, r2, r3, s1, s2, l1, l2, l3, k1, k2, x1, x2, d1, d2

Cycles3 == {r1, r2, r3}
Stops2 == {s1, s2}
Links3 == {l1, l2, l3}
Recipients == {k1, k2}
SealedMessages == {x1, x2}
Connections == {d1, d2}

VARIABLE part

portsVars == <<vars, searchVars, bridgeVars, mailboxVars, transferVars, mediaReadVars, part>>

PortsInit ==
  /\ part \in {"ports", "search", "bridge", "mailbox", "transfers", "reads"}
  /\ Init
  /\ RouterModelInit /\ (part # "search" => namesItself = [b \in Responder |-> TRUE])
  /\ BridgeInit
  /\ MailboxInit
  /\ TransfersInit
  /\ MediaReadInit

\* The mapping's cycle goes round; the others may come to rest.
PortsNext ==
  \/ /\ part = "ports" /\ Next
     /\ UNCHANGED <<searchVars, bridgeVars, mailboxVars, transferVars, mediaReadVars, part>>
  \/ /\ part = "search" /\ SearchNext
     /\ UNCHANGED <<vars, bridgeVars, mailboxVars, transferVars, mediaReadVars, part>>
  \/ /\ part = "bridge" /\ BridgeNext
     /\ UNCHANGED <<vars, searchVars, mailboxVars, transferVars, mediaReadVars, part>>
  \/ /\ part = "mailbox" /\ MailboxNext
     /\ UNCHANGED <<vars, searchVars, bridgeVars, transferVars, mediaReadVars, part>>
  \/ /\ part = "transfers" /\ TransfersNext
     /\ UNCHANGED <<vars, searchVars, bridgeVars, mailboxVars, mediaReadVars, part>>
  \/ /\ part = "reads" /\ MediaReadNext
     /\ UNCHANGED <<vars, searchVars, bridgeVars, mailboxVars, transferVars, part>>
  \/ part # "ports" /\ UNCHANGED portsVars

\* A cycle of the mapping and a stop of it go on; timers fire; a read that its drive
\* rejects, or that ends, is followed up; no peer need ever answer.
PortsFairness ==
  /\ WF_vars(part = "ports" /\ (\/ \E s \in Stopper : StopEnds(s)
                                \/ \E c \in Cycle : CycleStep(c) \/ Destroyed(c)))
  /\ WF_searchVars(part = "search" /\ (SearchTimesOut \/ \E b \in Responder : DescriptionFails(b)))
  /\ WF_bridgeVars(part = "bridge" /\ \E l \in Link : PeekTimeout(l) \/ LinkClosed(l))
  /\ WF_mediaReadVars(part = "reads" /\ \E g \in MediaReader : DeadlinePasses(g))
  /\ WF_mediaReadVars(part = "reads" /\ \E g \in MediaReader : ReadTimesOut(g) \/ LoopsOn(g) \/ RequestRejected(g))

PortsSpec == PortsInit /\ [][PortsNext]_portsVars /\ PortsFairness

\* The mapping is as it was asked for (portmap.js:254-299): sought, retried or watched while
\* it is wanted, and gone for good once it was stopped.
MappingAsAsked == TypeOK /\ NeverForgotten /\ StoppedIsOff

\* What dials and answers is accounted for (index.js:95-109, 201-239, portmap.js:69-150): a
\* link is counted as long as it is there, the sidecar keeps its identity, and a search
\* reads no more than a responder's own, short description.
LinksAccounted ==
  BridgeTypeOK /\ CountsTrue /\ OneIdentity /\ RouterModelTypeOK /\ LabelIsModest

\* A mailbox keeps mail for whom it is (mailbox.js:10-19, 108-167): its live subscribers have
\* it all, and it goes by an ack of its recipient or by its age.
MailboxKeeps == [](MailboxTypeOK /\ NothingMissed) /\ KeptForTTL

\* Media are shared and read as it was asked (media.js:278, 309-318, media-read.js:1-48): a
\* transfer that was stopped stays so, a close releases all, and a read ends with what was
\* asked for, or alone.
MediaAsAsked ==
  /\ TransfersTypeOK /\ StopSticks /\ TransfersReleased
  /\ MediaReadTypeOK /\ FetchedIsAsked /\ GivenUpAlone

\* The search ends, whether anything answers or not: the mapping's status waits for it
\* (portmap.js:169).
SearchEnded == []<>(part = "search" => label # << >>)

\* Whoever does not answer, nothing hangs (portmap.js:113-169, 262-275, index.js:248-252,
\* media-read.js:19-48): "off" is not shown for good for a mapping that is wanted, a search
\* ends with or without a name, no link waits for ever to be routed, every read is answered.
NothingHangs == OffPasses /\ SearchEnded /\ PeekEnds /\ FetchesEnd
================================================================================
