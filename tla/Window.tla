-------------------------------- MODULE Window --------------------------------
(***************************************************************************)
(* renderer/src/shell: the window around the store of module Shell - the    *)
(* tab strip and which layer it shows, the node popover, and the prompt for  *)
(* what a dapp in read mode asks of the node.                               *)
(*                                                                         *)
(* The buttons of the prompt stay live while a decision is on its way, so    *)
(* several may be, of one request even: Allow and Deny.  The poll and every   *)
(* decision that was made read the node's pending list, with no sequence      *)
(* number.                                                                   *)
(***************************************************************************)
EXTENDS Integers, SequencesExt

CONSTANTS
  Tab,       \* dapps and views that may have a tab
  Request,   \* requests that may come to wait, each once
  Press,     \* presses of Allow and Deny that may be on their way at once
  NoRead,    \* no list was read, nothing is being decided
  MaxRpcFails  \* bound: RPCs that fail

ASSUME WindowAssumption == MaxRpcFails \in Nat /\ "home" \notin Tab /\ "poll" \notin Press

VARIABLES
  strip, active, pop,   \* tabs, activeId, is the node popover open
  waits, came,          \* the node: requests that wait; history: those that ever did
  shown, snoozed,       \* the store's pending list; what was put off
  reader, deciding,     \* who reads the list and what it got; the request a press decides
  rpcFails              \* history

windowVars == <<strip, active, pop, waits, came, shown, snoozed, reader, deciding, rpcFails>>

Reader == {"poll"} \cup Press

WindowTypeOK ==
  /\ strip \in Seq(Tab) /\ active \in {"home"} \cup Tab /\ pop \in BOOLEAN
  /\ waits \subseteq came /\ came \subseteq Request
  /\ shown \subseteq came /\ snoozed \subseteq came
  /\ reader \in [Reader -> [on : BOOLEAN, got : (SUBSET Request) \cup {NoRead}]]
  /\ deciding \in [Press -> Request \cup {NoRead}]
  /\ rpcFails \in 0..MaxRpcFails

NotReading == [on |-> FALSE, got |-> NoRead]

WindowInit ==
  /\ strip = <<>> /\ active = "home" /\ pop = FALSE
  /\ waits = {} /\ came = {} /\ shown = {} /\ snoozed = {}
  /\ reader = [r \in Reader |-> NotReading] /\ deciding = [p \in Press |-> NoRead] /\ rpcFails = 0

stripVars == <<strip, active, pop>>
promptVars == <<waits, came, shown, snoozed, reader, deciding, rpcFails>>

-----------------------------------------------------------------------------
(* The strip: home, which has no close button, and the tabs after it.       *)

\* openView(), and the end of openDapp(): the tab there is, or a new last one.
OpenTab(t) ==
  /\ strip' = IF t \in ToSet(strip) THEN strip ELSE Append(strip, t)
  /\ active' = t /\ UNCHANGED <<pop, promptVars>>

SwitchTab(t) ==
  /\ t \in {"home"} \cup ToSet(strip) /\ active' = t /\ UNCHANGED <<strip, pop, promptVars>>

\* What was shown is shown still.
BadNeighbour(i) == strip[i]

\* What is shown after tab i was closed: the one to its left.
Neighbour(i) == IF i = 1 THEN "home" ELSE strip[i - 1]

\* closeTab(): the cross or the middle button.
TabClosed(t) ==
  \E i \in DOMAIN strip :
    /\ strip[i] = t /\ strip' = RemoveAt(strip, i)
    /\ active' = IF active = t THEN Neighbour(i) ELSE active
    /\ UNCHANGED <<pop, promptVars>>

\* Stage: every layer stays mounted, one is displayed.
Displayed == IF active \in ToSet(strip) THEN active ELSE "home"

\* The node chip; a click outside, Escape or a click into a guest closes.
TogglePopover == pop' = ~pop /\ UNCHANGED <<strip, active, promptVars>>

\* The update pill, and what the popover offers, leave for the hub or a view.
LeavePopover(t) ==
  /\ t \in {"home"} \cup Tab /\ pop /\ pop' = FALSE
  /\ strip' = IF t \in {"home"} \cup ToSet(strip) THEN strip ELSE Append(strip, t)
  /\ active' = t /\ UNCHANGED promptVars

-----------------------------------------------------------------------------
(* The prompt.                                                              *)

\* A dapp in read mode issues a command that needs write.
Requested(q) ==
  /\ q \notin came /\ came' = came \cup {q} /\ waits' = waits \cup {q}
  /\ UNCHANGED <<stripVars, shown, snoozed, reader, deciding, rpcFails>>

Starts(r) == reader' = [reader EXCEPT ![r] = [on |-> TRUE, got |-> NoRead]]

\* checkPending() of the poll: the loop runs once at a time.
PollPending ==
  /\ ~reader["poll"].on /\ Starts("poll")
  /\ UNCHANGED <<stripVars, waits, came, shown, snoozed, deciding, rpcFails>>

PendingRead(r) ==
  /\ reader[r].on /\ reader[r].got = NoRead /\ reader' = [reader EXCEPT ![r].got = waits]
  /\ UNCHANGED <<stripVars, waits, came, shown, snoozed, deciding, rpcFails>>

\* Whatever is listed.
BadPrompted(list) == list

\* setPending(): what was not put off.
Prompted(list) == list \ snoozed

\* checkPending() ends; a reply without status reads as an empty list.
PendingShown(r) ==
  /\ reader[r].on /\ reader' = [reader EXCEPT ![r] = NotReading]
  /\ \/ reader[r].got # NoRead /\ shown' = Prompted(reader[r].got) /\ UNCHANGED rpcFails
     \/ rpcFails < MaxRpcFails /\ rpcFails' = rpcFails + 1 /\ shown' \in {shown, {}}
  /\ UNCHANGED <<stripVars, waits, came, snoozed, deciding>>

\* acceptPending() and denyPending(), to the prompt the same: it stays open while the command
\* is on its way.
Decide(p, q) ==
  /\ q \in shown /\ deciding[p] = NoRead /\ ~reader[p].on
  /\ deciding' = [deciding EXCEPT ![p] = q]
  /\ UNCHANGED <<stripVars, waits, came, shown, snoozed, reader, rpcFails>>

\* Accepted or denied at the node, or not: the RPC may fail either way.
Decided(p) ==
  /\ deciding[p] # NoRead
  /\ \/ waits' = waits \ {deciding[p]} /\ UNCHANGED rpcFails
     \/ /\ rpcFails < MaxRpcFails /\ rpcFails' = rpcFails + 1
        /\ waits' \in {waits, waits \ {deciding[p]}}
  /\ shown' = shown \ {deciding[p]} /\ Starts(p) /\ deciding' = [deciding EXCEPT ![p] = NoRead]
  /\ UNCHANGED <<stripVars, came, snoozed>>

\* "Decide later".
Snooze(q) ==
  /\ q \in shown /\ snoozed' = snoozed \cup {q} /\ shown' = shown \ {q}
  /\ UNCHANGED <<stripVars, waits, came, reader, deciding, rpcFails>>

PendingPrompt == \E q \in shown : Snooze(q) \/ \E p \in Press : Decide(p, q)

\* Decided by another way: the hub's Pending dapp.
DecidedElsewhere(q) ==
  /\ q \in waits /\ waits' = waits \ {q}
  /\ UNCHANGED <<stripVars, came, shown, snoozed, reader, deciding, rpcFails>>

StripNext ==
  \/ \E t \in Tab : OpenTab(t) \/ TabClosed(t)
  \/ \E t \in {"home"} \cup Tab : SwitchTab(t) \/ LeavePopover(t)
  \/ TogglePopover

PromptNext ==
  \/ PollPending \/ PendingPrompt \/ \E p \in Press : Decided(p)
  \/ \E r \in Reader : PendingRead(r) \/ PendingShown(r)
  \/ \E q \in Request : Requested(q) \/ DecidedElsewhere(q)

\* The strip and the prompt share no state.
WindowNext == StripNext \/ PromptNext

WindowSpec == WindowInit /\ [][WindowNext]_windowVars

-----------------------------------------------------------------------------
\* ShellContext.tsx:216: whatever is opened and closed in whatever order, the tab
\* that is active is in the strip and no tab is there twice.
ShownIsATab == Displayed = active /\ IsInjective(strip)

\* ShellContext.tsx:172, 190: what was put off comes back with no list, of however
\* old a read.
SnoozedStays == shown \cap snoozed = {}

\* ShellContext.tsx:168-188: what an old read shows again does not stay: in the end
\* the prompt shows what waits at the node and was not put off.
PromptRight == shown = waits \ snoozed
================================================================================
