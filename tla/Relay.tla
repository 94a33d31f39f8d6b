--------------------------------- MODULE Relay ---------------------------------
(***************************************************************************)
(* src/main/node-manager.js: the one Maxima relay a classic node is         *)
(* attached to, and the directory (MLS) its address is pinned at.           *)
(*                                                                          *)
(* setMaximaRelay(), setMls() and healMaxima() are called by the Settings    *)
(* sheet, the node's popover and a timer, regardless of one another.  Each   *)
(* sends the node one RPC after the other; an RPC takes effect, and the      *)
(* code runs on to the next one, in a single step.  Only heals wait for     *)
(* one another: healChain.  The health poll that sets the timer, and stops  *)
(* it with the node, is left out: the timer of the module never stops.      *)
(***************************************************************************)
EXTENDS Integers, FiniteSets

CONSTANTS
  Host,             \* relays
  NoHost,           \* no relay
  Link,             \* bound: the node's connections at a time
  Caller,           \* bound: calls in progress at a time
  MaxRelayChanges,  \* bound: changes of a setting
  MaxRelayFails,    \* bound: faults
  RelayFaults       \* what may go wrong: a subset of RelayFaultClasses

RelayFaultClasses ==
  { "rpc",     \* an RPC fails, whether or not it took effect
    "late",    \* a relay answers after the heal has gone on
    "lost" }   \* a relay does not answer, or a connection is lost

ASSUME RelayAssumption ==
  /\ NoHost \notin Host /\ {"none", "custom"} \cap Host = {}
  /\ MaxRelayChanges \in Nat /\ MaxRelayFails \in Nat /\ RelayFaults \subseteq RelayFaultClasses

VARIABLES
  relay, mlsMode,   \* config.json: maximaRelay, mls.mode
  to, linksUp, pin, \* the node's connections, those that are up, its static MLS
  doing, after,     \* each call, and the heals it waits for
  rel, mls,         \* of each call: the relay and the MLS mode it goes by
  drop, pinned,     \* the connections still to cut; pinnedNow
  relayChanges,     \* history: changes of a setting
  relayFails,       \* history: faults
  healed            \* history: a heal has ended

settings   == <<relay, mlsMode>>
attachment == <<to, linksUp, pin>>
locals     == <<rel, mls, drop, pinned>>
relayHist  == <<relayChanges, relayFails, healed>>
relayVars  == <<settings, attachment, doing, after, locals, relayHist>>

MlsModes == {"relay", "custom", "host"}
Pins  == Host \cup {"none", "custom"}
Heals == {"network", "dup", "connect", "sleep", "info", "hosts", "pin", "refresh"}
Doings   == {"idle", "list", "drop", "clear", "mls", "queued"} \cup Heals

\* The types; a connection that is up goes somewhere, and heals wait for heals.
RelayTypeOK ==
  /\ relay \in Host /\ mlsMode \in MlsModes
  /\ to \in [Link -> Host \cup {NoHost}] /\ linksUp \subseteq Link /\ pin \in Pins
  /\ \A l \in linksUp : to[l] # NoHost
  /\ doing \in [Caller -> Doings] /\ after \in [Caller -> SUBSET Caller]
  /\ \A c \in Caller : \A d \in after[c] : doing[c] = "queued" /\ doing[d] \in Heals \cup {"queued"}
  /\ rel \in [Caller -> Host] /\ mls \in [Caller -> MlsModes]
  /\ drop \in [Caller -> SUBSET Link] /\ pinned \in [Caller -> Pins]
  /\ relayChanges \in Nat /\ relayFails \in Nat /\ healed \in BOOLEAN

\* The defaults, and a node without a connection.
RelayInit ==
  /\ relay \in Host /\ mlsMode = "relay"
  /\ to = [l \in Link |-> NoHost] /\ linksUp = {} /\ pin = "none"
  /\ doing = [c \in Caller |-> "idle"] /\ after = [c \in Caller |-> {}]
  /\ rel = [c \in Caller |-> relay] /\ mls = [c \in Caller |-> "relay"]
  /\ drop = [c \in Caller |-> {}] /\ pinned = [c \in Caller |-> "none"]
  /\ relayChanges = 0 /\ relayFails = 0 /\ healed = FALSE

Does(c, p) == doing' = [doing EXCEPT ![c] = p]

FaultFree == UNCHANGED relayFails
Fault(f) == f \in RelayFaults /\ relayFails < MaxRelayFails /\ relayFails' = relayFails + 1

\* The connections to h that are up.
LinksTo(h) == {l \in linksUp : to[l] = h}

-----------------------------------------------------------------------------
(* The calls.                                                               *)

\* Behind those that wait, but not behind the one that runs.
BadEnqueue(c) ==
  /\ Does(c, "queued")
  /\ after' = [after EXCEPT ![c] = {d \in Caller : doing[d] = "queued"}]

\* healMaxima(): behind every heal asked for before.
Enqueue(c) ==
  /\ Does(c, "queued")
  /\ after' = [after EXCEPT ![c] = {d \in Caller : doing[d] \in Heals \cup {"queued"}}]

\* The timer, or a button.
AskHeal(c) ==
  /\ doing[c] = "idle" /\ Enqueue(c)
  /\ UNCHANGED <<settings, attachment, locals, relayHist>>

\* setMaximaRelay(): saved first, then the old relay's connections are looked for.
SetRelay(c, h) ==
  /\ doing[c] = "idle" /\ relayChanges < MaxRelayChanges
  /\ relay' = h /\ rel' = [rel EXCEPT ![c] = relay] /\ relayChanges' = relayChanges + 1
  /\ IF h = relay THEN Enqueue(c) ELSE Does(c, "list") /\ UNCHANGED after
  /\ UNCHANGED <<mlsMode, attachment, mls, drop, pinned, relayFails, healed>>

\* setMls().
SetMls(c, m) ==
  /\ doing[c] = "idle" /\ relayChanges < MaxRelayChanges
  /\ mlsMode' = m /\ mls' = [mls EXCEPT ![c] = m] /\ relayChanges' = relayChanges + 1
  /\ Does(c, "mls")
  /\ UNCHANGED <<relay, attachment, after, rel, drop, pinned, relayFails, healed>>

\* The connections are cut: a static MLS of the old relay is cleared, if the
\* setting asks for the relay's by now, and the new relay is attached.
RelayLeft(c) ==
  IF mlsMode = "relay" THEN Does(c, "clear") /\ UNCHANGED after ELSE Enqueue(c)

List(c) ==
  /\ doing[c] = "list"
  /\ \E found \in {LinksTo(rel[c]), {}} :
       /\ IF found = LinksTo(rel[c]) THEN FaultFree ELSE Fault("rpc")
       /\ drop' = [drop EXCEPT ![c] = found]
       /\ IF found = {} THEN RelayLeft(c) ELSE Does(c, "drop") /\ UNCHANGED after
  /\ UNCHANGED <<settings, attachment, rel, mls, pinned, relayChanges, healed>>

\* A connection that is cut, unless it is gone already.
Cut(c, l) ==
  IF l \in LinksTo(rel[c])
    THEN to' = [to EXCEPT ![l] = NoHost] /\ linksUp' = linksUp \ {l}
    ELSE UNCHANGED <<to, linksUp>>

\* `disconnect`, of an old relay's connections or of duplicates.
Disconnect(c, l) ==
  /\ doing[c] \in {"drop", "dup"} /\ l \in drop[c]
  /\ \/ FaultFree /\ Cut(c, l)
     \/ Fault("rpc") /\ (Cut(c, l) \/ UNCHANGED <<to, linksUp>>)
  /\ drop' = [drop EXCEPT ![c] = @ \ {l}]
  /\ \/ drop[c] # {l} /\ UNCHANGED <<doing, after>>
     \/ drop[c] = {l} /\ doing[c] = "drop" /\ RelayLeft(c)
     \/ drop[c] = {l} /\ doing[c] = "dup" /\ Does(c, "info") /\ UNCHANGED after
  /\ UNCHANGED <<settings, pin, rel, mls, pinned, relayChanges, healed>>

\* The RPC sets the pin to p, or fails.
Pinned(p) ==
  \/ FaultFree /\ pin' = p
  \/ Fault("rpc") /\ pin' \in {pin, p}

Clear(c) ==
  /\ doing[c] = "clear" /\ Pinned("none") /\ Enqueue(c)
  /\ UNCHANGED <<settings, to, linksUp, locals, relayChanges, healed>>

\* A failure ends setMls() without a heal.
Mls(c) ==
  /\ doing[c] = "mls"
  /\ Pinned(IF mls[c] = "custom" THEN "custom" ELSE "none")
  /\ \/ relayFails' = relayFails /\ Enqueue(c)
     \/ relayFails' # relayFails /\ Does(c, "idle") /\ UNCHANGED after
  /\ UNCHANGED <<settings, to, linksUp, locals, relayChanges, healed>>

-----------------------------------------------------------------------------
(* _heal().                                                                 *)

\* Whatever else is going on.
BadFirst(c) == TRUE

\* No heal that was asked for before is left.
First(c) == after[c] = {}

\* The settings are read when the heal's turn comes.
HealStarts(c) ==
  /\ doing[c] = "queued" /\ First(c)
  /\ rel' = [rel EXCEPT ![c] = relay] /\ mls' = [mls EXCEPT ![c] = mlsMode]
  /\ Does(c, "network")
  /\ after' = [after EXCEPT ![c] = {}]
  /\ UNCHANGED <<settings, attachment, drop, pinned, relayHist>>

\* Attached is attached.
BadSurplus(found, l) == {}

\* Of the connections to the relay one is kept, which may be any: the uids they
\* are sorted by are no numbers.
Surplus(found, l) == found \ {l}

\* Attached already?
Network(c) ==
  /\ doing[c] = "network"
  /\ \E found \in {LinksTo(rel[c]), {}} :
       /\ IF found = LinksTo(rel[c]) THEN FaultFree ELSE Fault("rpc")
       /\ IF found = {} THEN Does(c, "connect") /\ UNCHANGED drop
                        ELSE \E l \in found :
                               /\ drop' = [drop EXCEPT ![c] = Surplus(found, l)]
                               /\ Does(c, IF Surplus(found, l) = {} THEN "info" ELSE "dup")
  /\ UNCHANGED <<settings, attachment, after, rel, mls, pinned, relayChanges, healed>>

\* `connect`: the node dials; a failure is not looked at.
Connect(c) ==
  /\ doing[c] = "connect"
  /\ \/ FaultFree /\ \E l \in Link : to[l] = NoHost /\ to' = [to EXCEPT ![l] = rel[c]]
     \/ Fault("rpc") /\ UNCHANGED to
  /\ Does(c, "sleep")
  /\ UNCHANGED <<settings, linksUp, pin, after, locals, relayChanges, healed>>

\* 3.5 s later.
Slept(c) ==
  /\ doing[c] = "sleep"
  /\ IF \E l \in Link \ linksUp : to[l] = rel[c] THEN Fault("late") ELSE FaultFree
  /\ Does(c, "info")
  /\ UNCHANGED <<settings, attachment, after, locals, relayChanges, healed>>

\* `maxima action:info`: what is pinned now, and whether that is right.
Info(c) ==
  /\ doing[c] = "info"
  /\ \E p \in {pin, "none"} :
       /\ IF p = pin THEN FaultFree ELSE Fault("rpc")
       /\ pinned' = [pinned EXCEPT ![c] = p]
       /\ Does(c, CASE mls[c] = "relay"  -> "hosts"
                    [] mls[c] = "custom" -> IF p = "custom" THEN "refresh" ELSE "pin"
                    [] mls[c] = "host"   -> "refresh")
  /\ UNCHANGED <<settings, attachment, after, rel, mls, drop, relayChanges, healed>>

\* Only a relay that is attached has an MLS to pin.
RelayAttached(c) == LinksTo(rel[c]) # {}

Hosts(c) ==
  /\ doing[c] = "hosts"
  /\ \E known \in {RelayAttached(c), FALSE} :
       /\ IF known = RelayAttached(c) THEN FaultFree ELSE Fault("rpc")
       /\ Does(c, IF known /\ pinned[c] # rel[c] THEN "pin" ELSE "refresh")
  /\ UNCHANGED <<settings, attachment, after, locals, relayChanges, healed>>

\* Those behind it are not told.
BadHealEnds(c) ==
  Does(c, "idle") /\ healed' = TRUE /\ UNCHANGED after

\* The heal ends, and those behind it need not wait for it any more.
HealEnds(c) ==
  /\ Does(c, "idle") /\ healed' = TRUE
  /\ after' = [d \in Caller |-> after[d] \ {c}]

\* A failure here ends the heal.
Pin(c) ==
  /\ doing[c] = "pin"
  /\ Pinned(IF mls[c] = "custom" THEN "custom" ELSE rel[c])
  /\ \/ relayFails' = relayFails /\ Does(c, "refresh") /\ UNCHANGED <<after, healed>>
     \/ relayFails' # relayFails /\ HealEnds(c)
  /\ UNCHANGED <<settings, to, linksUp, locals, relayChanges>>

\* `maxima action:refresh`, which changes the contacts' addresses alone.
RefreshContacts(c) ==
  /\ doing[c] = "refresh"
  /\ FaultFree \/ Fault("rpc")
  /\ HealEnds(c)
  /\ UNCHANGED <<settings, attachment, locals, relayChanges>>

-----------------------------------------------------------------------------
(* The node's connections.                                                  *)

ComesUp(l) ==
  /\ l \notin linksUp /\ to[l] # NoHost /\ linksUp' = linksUp \cup {l}
  /\ UNCHANGED <<settings, to, pin, doing, after, locals, relayHist>>

\* Cut while it was being dialled or later.
Lost(l) ==
  /\ to[l] # NoHost /\ Fault("lost")
  /\ to' = [to EXCEPT ![l] = NoHost] /\ linksUp' = linksUp \ {l}
  /\ UNCHANGED <<settings, pin, doing, after, locals, relayChanges, healed>>

-----------------------------------------------------------------------------
Change(c) ==
  \/ \E h \in Host : SetRelay(c, h)
  \/ \E m \in MlsModes : SetMls(c, m)

CallStep(c) ==
  \/ List(c) \/ (\E l \in Link : Disconnect(c, l)) \/ Clear(c) \/ Mls(c)
  \/ HealStarts(c) \/ Network(c) \/ Connect(c) \/ Slept(c) \/ Info(c) \/ Hosts(c)
  \/ Pin(c) \/ RefreshContacts(c)

RelayNext ==
  \/ \E c \in Caller : AskHeal(c) \/ Change(c) \/ CallStep(c)
  \/ \E l \in Link : ComesUp(l) \/ Lost(l)

RelaySpec == RelayInit /\ [][RelayNext]_relayVars

-----------------------------------------------------------------------------
(* Properties.                                                              *)

Quiet == \A c \in Caller : doing[c] = "idle"

\* No two heals run at once, whoever asks for them and whatever fails
\* (node-manager.js:138, 669-670).
Serialised ==
  \A c, d \in Caller : doing[c] \in Heals /\ doing[d] \in Heals => c = d

\* The node has one connection to the relay that is configured, and is pinned at
\* the MLS that is configured.  In mlsMode "host" nothing is asked of the pin.
Follows ==
  /\ Cardinality(LinksTo(relay)) = 1
  /\ mlsMode = "relay" => pin = relay
  /\ mlsMode = "custom" => pin = "custom"

\* However the calls overlap, once all have ended the node follows the settings
\* that were made last, if nothing failed (node-manager.js:138, 671-675).
FollowsSettings == Quiet /\ healed /\ relayFails = 0 => Follows

\* node-manager.js:515: attaching to two relays double-delivers Maxima, so the
\* connection to the relay before is cut.
OneRelay == Quiet /\ relayFails = 0 => \A l \in linksUp : to[l] = relay
================================================================================
