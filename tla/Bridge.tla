-------------------------------- MODULE Bridge ---------------------------------
(***************************************************************************)
(* resources/keets-sidecar/index.js: the links of the sidecar.  A link that *)
(* was dialled is piped to the Minima node at once; one that was accepted   *)
(* is peeked at, and goes to the node, to the message service, or nowhere.  *)
(* The bytes of a link are those of module Wire: here they are "minima", a  *)
(* "part" of the magic, the magic, or "other".                              *)
(***************************************************************************)
EXTENDS Integers, FiniteSets

CONSTANTS
  Link,       \* links, each once
  MAXCONNS,   \* bridged links at most
  SVC_MAX,    \* service links at most
  MaxStarts   \* bound: starts of the sidecar

ASSUME BridgeAssumption ==
  IsFiniteSet(Link) /\ MAXCONNS \in Nat /\ SVC_MAX \in Nat /\ MaxStarts \in Nat

VARIABLES
  linkLife,       \* of each link: its stream
  route,      \* where it was sent
  peeked,     \* what was read of it
  tcp,        \* its connection to the node
  conns, svcConns,  \* the counters
  diag,       \* links refused at the cap, found dead, ended
  swarm,      \* are the swarms suspended
  seedFile, identity, starts  \* <keetsdir>/keypair; history: keys used, starts

bridgeVars == <<linkLife, route, peeked, tcp, conns, svcConns, diag, swarm, seedFile, identity, starts>>
linkVars == <<linkLife, route, peeked, tcp, conns, svcConns, diag>>
bootVars == <<seedFile, identity, starts>>

\* The seed file: not there, or cut short; otherwise the start that wrote it.
NoSeed == 0
CutShort == -1

BridgeTypeOK ==
  /\ linkLife \in [Link -> {"new", "open", "destroying", "closed"}]
  /\ route \in [Link -> {"none", "peek", "bridge", "svc"}]
  /\ peeked \in [Link -> {"none", "part", "magic", "minima", "other"}]
  /\ tcp \in [Link -> {"none", "dial", "up", "closed"}]
  /\ conns \in 0..MAXCONNS /\ svcConns \in 0..SVC_MAX
  /\ diag \in [{"capped", "dead", "closed"} -> Nat] /\ swarm \in {"down", "up", "suspended"}
  /\ seedFile \in {NoSeed, CutShort} \cup (1..MaxStarts)
  /\ identity \subseteq 1..MaxStarts /\ starts \in 0..MaxStarts

NoLinks ==
  /\ linkLife = [l \in Link |-> "new"] /\ route = [l \in Link |-> "none"]
  /\ peeked = [l \in Link |-> "none"] /\ tcp = [l \in Link |-> "none"]
  /\ conns = 0 /\ svcConns = 0 /\ diag = [k \in {"capped", "dead", "closed"} |-> 0]

BridgeInit ==
  /\ NoLinks /\ swarm = "down"
  /\ seedFile = NoSeed /\ identity = {} /\ starts = 0

-----------------------------------------------------------------------------
(* The process: its identity is a file that is written once.                *)

\* Another seed at every start.
BadSeed == seedFile # CutShort /\ seedFile' = starts'

\* What a start finds, or writes.  A file that is cut short makes no key pair.
Seed == seedFile # CutShort /\ seedFile' = IF seedFile = NoSeed THEN starts' ELSE seedFile

\* Without a token it refuses to start: not shown.
SidecarStarts ==
  /\ swarm = "down" /\ starts < MaxStarts /\ starts' = starts + 1
  /\ Seed /\ identity' = identity \cup {seedFile'} /\ swarm' = "up"
  /\ UNCHANGED linkVars

\* It dies while it writes its first seed.
DiesWriting ==
  /\ swarm = "down" /\ seedFile = NoSeed /\ starts < MaxStarts /\ starts' = starts + 1
  /\ seedFile' = CutShort /\ UNCHANGED <<linkVars, swarm, identity>>

\* The parent node dies and closes the pipe to its stdin, or the process is killed.
Exit ==
  /\ swarm # "down" /\ swarm' = "down" /\ conns' = 0 /\ svcConns' = 0
  /\ linkLife' = [l \in Link |-> IF linkLife[l] = "new" THEN "new" ELSE "closed"]
  /\ route' = [l \in Link |-> "none"] /\ peeked' = [l \in Link |-> "none"]
  /\ tcp' = [l \in Link |-> "none"] /\ diag' = [k \in DOMAIN diag |-> 0]
  /\ UNCHANGED bootVars

\* A suspended swarm drops its links and takes no new ones.
SuspendSwarm ==
  /\ swarm = "up" /\ swarm' = "suspended"
  /\ linkLife' = [l \in Link |-> IF linkLife[l] = "open" THEN "destroying" ELSE linkLife[l]]
  /\ UNCHANGED <<route, peeked, tcp, conns, svcConns, diag, bootVars>>

ResumeSwarm == swarm = "suspended" /\ swarm' = "up" /\ UNCHANGED <<linkVars, bootVars>>

-----------------------------------------------------------------------------
(* Routing.                                                                 *)

Destroys(l) == [linkLife EXCEPT ![l] = IF @ = "open" THEN "destroying" ELSE @]

Noted(what) == diag' = [diag EXCEPT ![what] = @ + 1]

\* Counted before the cap is looked at.
BadBridges(l) ==
  IF linkLife[l] # "open"
    THEN Noted("dead") /\ route' = [route EXCEPT ![l] = "none"] /\ UNCHANGED <<linkLife, tcp, conns>>
  ELSE IF conns + 1 >= MAXCONNS
    THEN /\ Noted("capped") /\ linkLife' = Destroys(l) /\ conns' = IF conns < MAXCONNS THEN conns + 1 ELSE conns
         /\ route' = [route EXCEPT ![l] = "none"] /\ UNCHANGED tcp
  ELSE /\ conns' = conns + 1 /\ tcp' = [tcp EXCEPT ![l] = "dial"]
       /\ route' = [route EXCEPT ![l] = "bridge"] /\ UNCHANGED <<linkLife, diag>>

\* bridge(): a link that died while it was peeked at is not counted.
Bridges(l) ==
  IF linkLife[l] # "open"
    THEN Noted("dead") /\ route' = [route EXCEPT ![l] = "none"] /\ UNCHANGED <<linkLife, tcp, conns>>
  ELSE IF conns >= MAXCONNS
    THEN /\ Noted("capped") /\ linkLife' = Destroys(l)
         /\ route' = [route EXCEPT ![l] = "none"] /\ UNCHANGED <<tcp, conns>>
  ELSE /\ conns' = conns + 1 /\ tcp' = [tcp EXCEPT ![l] = "dial"]
       /\ route' = [route EXCEPT ![l] = "bridge"] /\ UNCHANGED <<linkLife, diag>>

\* We dialled: always a Minima link.
Dialled(l) ==
  /\ swarm = "up" /\ linkLife[l] = "new"
  /\ IF conns >= MAXCONNS
       THEN linkLife' = [linkLife EXCEPT ![l] = "destroying"] /\ Noted("capped") /\ UNCHANGED <<route, tcp, conns>>
       ELSE /\ linkLife' = [linkLife EXCEPT ![l] = "open"] /\ route' = [route EXCEPT ![l] = "bridge"]
            /\ tcp' = [tcp EXCEPT ![l] = "dial"] /\ conns' = conns + 1 /\ UNCHANGED diag
  /\ UNCHANGED <<peeked, svcConns, swarm, bootVars>>

Accepted(l) ==
  /\ swarm = "up" /\ linkLife[l] = "new"
  /\ linkLife' = [linkLife EXCEPT ![l] = "open"] /\ route' = [route EXCEPT ![l] = "peek"]
  /\ UNCHANGED <<peeked, tcp, conns, svcConns, diag, swarm, bootVars>>

\* messages.handleConn(), if there is room.
Serves(l) ==
  IF svcConns >= SVC_MAX
    THEN linkLife' = Destroys(l) /\ route' = [route EXCEPT ![l] = "none"] /\ UNCHANGED svcConns
    ELSE svcConns' = svcConns + 1 /\ route' = [route EXCEPT ![l] = "svc"] /\ UNCHANGED linkLife

\* ondata(): a chunk of an accepted link; nothing comes of a stream being destroyed.
Chunk(l, bytes) ==
  /\ route[l] = "peek" /\ linkLife[l] = "open"
  /\ peeked[l] = "part" => bytes # "minima"
  /\ peeked' = [peeked EXCEPT ![l] = bytes]
  /\ CASE bytes = "part"   -> UNCHANGED <<linkLife, route, tcp, conns, svcConns, diag>>
       [] bytes = "minima" -> Bridges(l) /\ UNCHANGED svcConns
       [] bytes = "magic"  -> Serves(l) /\ UNCHANGED <<tcp, conns, diag>>
       [] bytes = "other"  -> /\ linkLife' = Destroys(l) /\ route' = [route EXCEPT ![l] = "none"]
                              /\ UNCHANGED <<tcp, conns, svcConns, diag>>
  /\ UNCHANGED <<swarm, bootVars>>

\* The first byte stops the timer.
BadPeeking(l) == route[l] = "peek" /\ linkLife[l] # "closed" /\ peeked[l] = "none"

\* The timer runs until the link is routed or closed.
Peeking(l) == route[l] = "peek" /\ linkLife[l] # "closed"

\* 15 s without enough to tell: our node may have to greet first.
PeekTimeout(l) ==
  /\ Peeking(l) /\ Bridges(l) /\ UNCHANGED <<peeked, svcConns, swarm, bootVars>>

-----------------------------------------------------------------------------
(* The two ends of a bridged link.                                          *)

TcpUp(l) ==
  /\ tcp[l] = "dial" /\ tcp' = [tcp EXCEPT ![l] = "up"]
  /\ UNCHANGED <<linkLife, route, peeked, conns, svcConns, diag, swarm, bootVars>>

\* The node is not there, or closes: the link goes with it.
TcpCloses(l) ==
  /\ tcp[l] \in {"dial", "up"} /\ tcp' = [tcp EXCEPT ![l] = "closed"] /\ linkLife' = Destroys(l)
  /\ UNCHANGED <<route, peeked, conns, svcConns, diag, swarm, bootVars>>

RemoteDrops(l) ==
  /\ linkLife[l] = "open" /\ linkLife' = Destroys(l)
  /\ UNCHANGED <<route, peeked, tcp, conns, svcConns, diag, swarm, bootVars>>

\* 'close' of the link: whoever counted it counts it off.
LinkClosed(l) ==
  /\ linkLife[l] = "destroying" /\ linkLife' = [linkLife EXCEPT ![l] = "closed"]
  /\ conns' = IF route[l] = "bridge" THEN conns - 1 ELSE conns
  /\ svcConns' = IF route[l] = "svc" THEN svcConns - 1 ELSE svcConns
  /\ tcp' = [tcp EXCEPT ![l] = IF route[l] = "bridge" THEN "closed" ELSE @]
  /\ IF route[l] = "bridge" THEN Noted("closed") ELSE UNCHANGED diag
  /\ UNCHANGED <<route, peeked, swarm, bootVars>>

BridgeNext ==
  \/ SidecarStarts \/ DiesWriting \/ Exit \/ SuspendSwarm \/ ResumeSwarm
  \/ \E l \in Link :
       \/ Dialled(l) \/ Accepted(l) \/ PeekTimeout(l) \/ TcpUp(l) \/ TcpCloses(l)
       \/ RemoteDrops(l) \/ LinkClosed(l)
       \/ \E bytes \in {"part", "magic", "minima", "other"} : Chunk(l, bytes)

BridgeSpec == BridgeInit /\ [][BridgeNext]_bridgeVars

-----------------------------------------------------------------------------
\* index.js:201-203, 234-239: a counter says how many links there are, whatever
\* dies while it is peeked at, refused or suspended: no link is counted for ever.
CountsTrue ==
  /\ conns = Cardinality({l \in Link : route[l] = "bridge" /\ linkLife[l] # "closed"})
  /\ svcConns = Cardinality({l \in Link : route[l] = "svc" /\ linkLife[l] # "closed"})

\* index.js:248-252: an accepted link does not wait to be routed for ever, however
\* little of the magic it sends.
PeekEnds == \A l \in Link : []<>~(route[l] = "peek" /\ linkLife[l] = "open")

\* index.js:95-109: the sidecar has one identity, over every restart.
OneIdentity == Cardinality(identity) <= 1
================================================================================
