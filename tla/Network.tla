-------------------------------- MODULE Network --------------------------------
(***************************************************************************)
(* Settings -> Network (Settings/Network/index.tsx): the switch that        *)
(* contributes to the network, the relay, the Location Service (MLS) and    *)
(* the permanent address, with the copies of the node's settings and of     *)
(* Maxima's state that the page decides by.                                 *)
(*                                                                         *)
(* What main does with a call is in Relay, Startup and NodeLifecycle; here  *)
(* a call ends with its setting made, or fails and leaves it. The node and  *)
(* its relays are external: a relay announces its identity some time after  *)
(* it is attached, and the pin is set by the heal that a call runs.         *)
(*                                                                         *)
(* Simplifications: two relays, so "the other one" is the one to change to; *)
(* the modal covers the page while it is up, and the mouse reaches nothing  *)
(* behind it; net:config is answered at once.                               *)
(***************************************************************************)
EXTENDS Integers

CONSTANTS
  RelayHost,      \* the relays known
  PageCall,       \* the page's calls: one is busy, earlier ones may be reading its copies
  MaxCalls,       \* bound: calls
  MaxNodeTurns    \* bound: times that the node comes, goes or hears from its relay

ASSUME NetworkAssumption == (\E r, s \in RelayHost : r # s) /\ MaxCalls \in Nat /\ MaxNodeTurns \in Nat

VARIABLES
  actual,         \* config.json: contribute, relay and MLS mode
  maxima,         \* Maxima: identity of the attached relay known (to whom), the pin
  netPage,        \* the page is displayed
  cfg, info, hosts,   \* its copies; "none" before the first reply
  netBusy, call,  \* the key of `run`; what each call is doing
  polling,        \* the reads of refreshMaxima: what action:info said, if it is half done
  netModal,       \* toggleContribute asks; the value that was captured
  calls, nodeTurns    \* history

netVars == <<actual, maxima, netPage, cfg, info, hosts, netBusy, call, polling, netModal, calls, nodeTurns>>

Keys == {"contribute", "relay", "perm", "mls", "host mode", "heal"}
Nothing == "nothing"
Config == [contribute : BOOLEAN, relay : RelayHost, mode : {"relay", "host"}]
NoConfig == [contribute |-> FALSE, relay |-> CHOOSE r \in RelayHost : TRUE, mode |-> "none"]
Idle == [key |-> Nothing, at |-> "idle", to |-> FALSE]
ModalOff == "off"

NetworkTypeOK ==
  /\ actual \in Config
  /\ maxima \in [identity : RelayHost \cup {Nothing}, pin : RelayHost \cup {Nothing}]
  /\ netPage \in BOOLEAN /\ cfg \in Config \cup {NoConfig}
  /\ info \in RelayHost \cup {Nothing} /\ hosts \in RelayHost \cup {Nothing}
  /\ netBusy \in Keys \cup {Nothing}
  /\ call \in [PageCall -> [key : Keys \cup {Nothing}, at : {"idle", "called", "copies"}, to : BOOLEAN]]
  /\ polling \in {"idle", "info", "hosts"} /\ netModal \in {ModalOff, "on?", "off?"}
  /\ calls \in 0..MaxCalls /\ nodeTurns \in 0..MaxNodeTurns

NetworkInit ==
  /\ actual \in {c \in Config : c.mode = "relay" /\ ~c.contribute}
  /\ maxima = [identity |-> Nothing, pin |-> Nothing]
  /\ netPage = FALSE /\ cfg = NoConfig /\ info = Nothing /\ hosts = Nothing
  /\ netBusy = Nothing /\ call = [c \in PageCall |-> Idle] /\ polling = "idle"
  /\ netModal = ModalOff /\ calls = 0 /\ nodeTurns = 0

-----------------------------------------------------------------------------
(* What is shown.                                                           *)

Known == cfg # NoConfig
Contributing == Known /\ cfg.contribute

\* relayIdentity: the list of hosts has the relay of the page's configuration.
RelayIdentity == Known /\ hosts = cfg.relay

\* anchoredToRelay: the pin is the identity of the relay the page takes for attached.
Anchored == RelayIdentity /\ info = hosts

\* "Make this my permanent address": to an anchor that is not set yet, at a relay that has
\* announced its identity.
CanAnchor == ~Anchored /\ RelayIdentity /\ netBusy = Nothing

\* "Use", of another relay.
CanUseRelay == netBusy = Nothing

\* "Heal Maxima" and "My IP changed".
CanFixUp == netBusy = Nothing

\* What can be pressed. The choices of the location service, and the switch that
\* contributes, are never disabled: `run` itself has to turn them away.
Pressable(key) ==
  /\ netPage /\ netModal = ModalOff
  /\ key = "perm" => CanAnchor
  /\ key = "relay" => CanUseRelay
  /\ key = "heal" => CanFixUp

-----------------------------------------------------------------------------

Elsewhere == UNCHANGED <<actual, maxima, nodeTurns>>

\* Nobody looks at busy.
BadMayRun == TRUE

\* run(): one of the page's calls at a time.
MayRun == netBusy = Nothing

Begins(key, to) ==
  /\ calls < MaxCalls /\ calls' = calls + 1 /\ netBusy' = key
  /\ \E c \in PageCall : call[c] = Idle /\ call' = [call EXCEPT ![c] = [key |-> key, at |-> "called", to |-> to]]

\* A button or a choice of the page.
Press(key) ==
  /\ key # "contribute" /\ Pressable(key) /\ MayRun /\ Begins(key, FALSE)
  /\ UNCHANGED <<netPage, cfg, info, hosts, polling, netModal>> /\ Elsewhere

\* toggleContribute(): the modal captures what the switch is to become.
ToggleContribute ==
  /\ Pressable("contribute") /\ MayRun /\ netModal' = IF Contributing THEN "off?" ELSE "on?"
  /\ UNCHANGED <<netPage, cfg, info, hosts, netBusy, call, polling, calls>> /\ Elsewhere

\* onConfirm runs the `run` of that moment, which saw no call under way.
ConfirmContribute ==
  /\ netModal # ModalOff /\ netModal' = ModalOff /\ Begins("contribute", netModal = "on?")
  /\ UNCHANGED <<netPage, cfg, info, hosts, polling>> /\ Elsewhere

CancelContribute ==
  /\ netModal # ModalOff /\ netModal' = ModalOff
  /\ UNCHANGED <<netPage, cfg, info, hosts, netBusy, call, polling, calls>> /\ Elsewhere

\* What a call that works leaves behind. Every one of them ends with a heal but the one
\* that contributes, which restarts the node.
Does(c) ==
  LET key == call[c].key IN
  /\ actual' = CASE key = "contribute" -> [actual EXCEPT !.contribute = call[c].to]
                 [] key = "relay" -> [actual EXCEPT !.relay = CHOOSE r \in RelayHost : r # actual.relay]
                 [] key \in {"perm", "mls"} -> [actual EXCEPT !.mode = "relay"]
                 [] key = "host mode" -> [actual EXCEPT !.mode = "host"]
                 [] OTHER -> actual
  /\ LET known == IF key \in {"relay", "contribute"} THEN Nothing ELSE maxima.identity IN
     maxima' = [identity |-> known,
                pin |-> IF key = "host mode" THEN Nothing
                        ELSE IF actual'.mode = "relay" /\ known # Nothing THEN known ELSE maxima.pin]

\* The reply to a call: busy is over, and the copies are read again.
Replied(c) ==
  /\ call[c].at = "called"
  /\ Does(c) \/ UNCHANGED <<actual, maxima>>
  /\ netBusy' = Nothing /\ call' = [call EXCEPT ![c].at = "copies"]
  /\ UNCHANGED <<netPage, cfg, info, hosts, polling, netModal, calls, nodeTurns>>

\* The configuration is not read again after a call.
BadCopies == UNCHANGED cfg

\* refreshCfg(): net:config.
Copies == cfg' = actual

\* `finally` of run: refreshCfg, then refreshMaxima (which the poll does as well).
Refreshed(c) ==
  /\ call[c].at = "copies" /\ call' = [call EXCEPT ![c] = Idle]
  /\ Copies /\ UNCHANGED <<netPage, info, hosts, netBusy, polling, netModal, calls>> /\ Elsewhere

\* The page is displayed: its copies are read.
OpenNetwork ==
  /\ ~netPage /\ netPage' = TRUE /\ cfg' = actual /\ polling' = "info"
  /\ UNCHANGED <<info, hosts, netBusy, call, netModal, calls>> /\ Elsewhere

\* SlideScreen hides the page; it stays mounted, and its poll ends.
CloseNetwork ==
  /\ netPage /\ netModal = ModalOff /\ netPage' = FALSE
  /\ UNCHANGED <<cfg, info, hosts, netBusy, call, polling, netModal, calls>> /\ Elsewhere

\* The interval of six seconds.
PollMaxima ==
  /\ netPage /\ polling = "idle" /\ polling' = "info"
  /\ UNCHANGED <<netPage, cfg, info, hosts, netBusy, call, netModal, calls>> /\ Elsewhere

\* action:hosts, after action:info.
HostsRead == hosts' = maxima.identity

\* refreshMaxima(): two commands, one after the other.
InfoBack ==
  /\ polling = "info" /\ polling' = "hosts" /\ info' = maxima.pin
  /\ UNCHANGED <<netPage, cfg, hosts, netBusy, call, netModal, calls>> /\ Elsewhere

HostsBack ==
  /\ polling = "hosts" /\ polling' = "idle" /\ HostsRead
  /\ UNCHANGED <<netPage, cfg, info, netBusy, call, netModal, calls>> /\ Elsewhere

\* The attached relay announces itself, or is lost.
RelayTurns ==
  /\ nodeTurns < MaxNodeTurns /\ nodeTurns' = nodeTurns + 1
  /\ maxima' = [maxima EXCEPT !.identity = IF @ = Nothing THEN actual.relay ELSE Nothing]
  /\ UNCHANGED <<actual, netPage, cfg, info, hosts, netBusy, call, polling, netModal, calls>>

NetworkNext ==
  \/ \E key \in Keys : Press(key)
  \/ ToggleContribute \/ ConfirmContribute \/ CancelContribute
  \/ \E c \in PageCall : Replied(c) \/ Refreshed(c)
  \/ OpenNetwork \/ CloseNetwork \/ PollMaxima \/ InfoBack \/ HostsBack \/ RelayTurns

NetworkSpec == NetworkInit /\ [][NetworkNext]_netVars

-----------------------------------------------------------------------------

\* The page never has two calls under way: not from its buttons, not from the choices that
\* are never disabled, and not from a modal that was up meanwhile (index.tsx:119-143).
OneCall == \A c, d \in PageCall : c # d => call[c].at # "called" \/ call[d].at # "called"

\* While the page is displayed, what it says of the permanent address becomes what is true:
\* anchored when, and only when, the pin is the identity of the relay that is configured
\* (index.tsx:93-103, read from three copies that were made at three moments).
AnchorTrue ==
  maxima.pin # Nothing /\ maxima.pin = maxima.identity /\ maxima.identity = actual.relay
AnchorSettles == <>[]netPage => <>[](Anchored = AnchorTrue)
=============================================================================
