------------------------------- MODULE KindPage -------------------------------
(***************************************************************************)
(* "Which node": the card of Settings -> minimaDesk that switches between   *)
(* the classic node and the Parlons Node (Settings/MinimaDesk/index.tsx),   *)
(* with what the main process makes of a press (main.js node:setKind,       *)
(* carryover.js start). The switch itself is abstracted here to the steps   *)
(* that the card tells apart; module CarryOver has all of it.               *)
(*                                                                         *)
(* `home` is the Parlons node in the folder 1.1: which one, 0 for none.     *)
(* The card works from copies: the last status that arrived, and the last   *)
(* answer to what there is in 1.1, each of which may be out of date.        *)
(***************************************************************************)
EXTENDS Integers

CONSTANTS
  HomeAsk,        \* questions for what 1.1 holds that may be under way at once
  MaxPresses,    \* bound: presses of the button
  MaxCardVisits   \* bound: times the card is opened

ASSUME KindPageAssumption == MaxPresses \in Nat /\ MaxCardVisits \in Nat

NodeKind == {"parlons", "minima"}
Unasked == [at |-> "idle", home |-> 0]
Unclear == -1    \* `existing` before the first answer

VARIABLES
  runsKind,       \* config.nodeKind
  home, newestHome,   \* the node in 1.1 (0: none); history: how many there have been
  barred,         \* parlonsBlocker() has a reason
  sw,             \* carryover's switch: its `stage`, what it was started with, its flag `running`
  kindCard,       \* the card: display, kindPick, existingChoice, existing, blocker, kindBusy
  kindStatus,     \* the status that the card has: << >> before the first
  homeAsk,        \* carryoverExisting() under way: Unasked, or what it read
  setKind,        \* setNodeKind() under way
  presses, visits

kindMain == <<runsKind, home, newestHome, barred>>
kindVars == <<kindMain, sw, kindCard, kindStatus, homeAsk, setKind, presses, visits>>

Stage == {"idle", "preflight", "stopping", "setaside", "starting", "waiting", "done"}
\* "none" is the empty string; "carry" and "fresh" both give 1.1 a node with another wallet.
Mode == {"none", "new", "keep"}
Choice == {"none", "replace", "keep"}
Settled == {"idle", "done"}
NoSwitch == [stage |-> "idle", running |-> FALSE, target |-> "none", mode |-> "none", existing |-> "none", of |-> 0]
NoCall == [at |-> "idle", want |-> "minima", mode |-> "none", existing |-> "none", of |-> 0]
MainStatus == [kind |-> runsKind, stage |-> sw.stage]

KindTypeOK ==
  /\ runsKind \in NodeKind /\ home \in 0..newestHome /\ newestHome \in 0..(MaxPresses + 1)
  /\ barred \in BOOLEAN
  /\ sw \in [stage : Stage, running : BOOLEAN, target : NodeKind \cup {"none"}, mode : Mode,
             existing : Choice, of : 0..newestHome]
  /\ kindCard \in [open : BOOLEAN, pick : NodeKind \cup {"none"}, choice : Choice,
                   existing : Unclear..newestHome, blocker : BOOLEAN, busy : BOOLEAN]
  /\ kindStatus \in {<< >>} \cup
       {<<s>> : s \in [kind : NodeKind, stage : Stage]}
  /\ homeAsk \in [HomeAsk -> [at : {"idle", "asked", "read"}, home : 0..newestHome]]
  /\ setKind \in [at : {"idle", "sent", "answered"}, want : NodeKind, mode : Mode, existing : Choice, of : 0..newestHome]
  /\ presses \in 0..MaxPresses /\ visits \in 0..MaxCardVisits

KindInit ==
  /\ runsKind \in NodeKind /\ newestHome \in {0, 1} /\ home = newestHome
  /\ runsKind = "parlons" => home = 1
  /\ barred \in BOOLEAN /\ (runsKind = "parlons" => ~barred)
  /\ sw = NoSwitch
  /\ kindCard = [open |-> FALSE, pick |-> "none", choice |-> "none", existing |-> Unclear,
                 blocker |-> FALSE, busy |-> FALSE]
  /\ kindStatus = << >> /\ homeAsk = [a \in HomeAsk |-> Unasked] /\ setKind = NoCall
  /\ presses = 0 /\ visits = 0

-----------------------------------------------------------------------------

\* What the card takes for the running kind, and for a switch under way.
ShownKind == IF kindStatus = << >> THEN "parlons" ELSE kindStatus[1].kind
ShownSettled == kindStatus # << >> => kindStatus[1].stage \in Settled
Want == IF kindCard.pick = "none" THEN ShownKind ELSE kindCard.pick
SwitchingToParlons == ShownKind = "minima" /\ Want = "parlons"
QuestionShown == SwitchingToParlons /\ kindCard.existing > 0

\* The effect on [display, kind]: what is in 1.1 is asked again.
AsksHome ==
  \E a \in HomeAsk :
    homeAsk[a] = Unasked /\ homeAsk' = [homeAsk EXCEPT ![a] = [at |-> "asked", home |-> 0]]

\* The card is displayed: the kinds, the blocker and 1.1 are read.
OpenKinds ==
  /\ ~kindCard.open /\ visits < MaxCardVisits /\ visits' = visits + 1
  /\ kindCard' = [kindCard EXCEPT !.open = TRUE] /\ AsksHome
  /\ UNCHANGED <<kindMain, sw, kindStatus, setKind, presses>>

\* It stays mounted: what it holds, and what is under way for it, remain.
LeaveKinds ==
  /\ kindCard.open /\ kindCard' = [kindCard EXCEPT !.open = FALSE]
  /\ UNCHANGED <<kindMain, sw, kindStatus, homeAsk, setKind, presses, visits>>

\* A status arrives, or the snapshot read at the opening; the kind may be another one now.
StatusArrives ==
  /\ kindCard.open /\ kindStatus # <<MainStatus>> /\ kindStatus' = <<MainStatus>>
  /\ kindCard' = [kindCard EXCEPT !.pick = IF @ = "none" THEN runsKind ELSE @]
  /\ IF ShownKind # runsKind THEN AsksHome ELSE UNCHANGED homeAsk
  /\ UNCHANGED <<kindMain, sw, setKind, presses, visits>>

BlockerArrives ==
  /\ kindCard.open /\ kindCard.blocker # barred /\ kindCard' = [kindCard EXCEPT !.blocker = barred]
  /\ UNCHANGED <<kindMain, sw, kindStatus, homeAsk, setKind, presses, visits>>

\* existingParlons() in main. Of the running Parlons node the balance is asked too, and the
\* answer may be overtaken by a later one.
ReadHome(a) ==
  /\ homeAsk[a].at = "asked"
  /\ homeAsk' = [homeAsk EXCEPT ![a] = [at |-> "read", home |-> home]]
  /\ UNCHANGED <<kindMain, sw, kindCard, kindStatus, setKind, presses, visits>>

\* The answer is shown. The first one of a node that is there ticks a choice: "replace" of
\* an empty one, "keep" otherwise; later ones leave it.
HomeShown(a) ==
  /\ homeAsk[a].at = "read" /\ homeAsk' = [homeAsk EXCEPT ![a] = Unasked]
  /\ \E ticks \in {"replace", "keep"} :
       kindCard' = [kindCard EXCEPT !.existing = homeAsk[a].home,
                                    !.choice = IF homeAsk[a].home > 0 /\ @ = "none" THEN ticks ELSE @]
  /\ UNCHANGED <<kindMain, sw, kindStatus, setKind, presses, visits>>

\* The radio buttons.
PickKind(k) ==
  /\ kindCard.open /\ Want # k /\ (k = "parlons" => ~kindCard.blocker)
  /\ kindCard' = [kindCard EXCEPT !.pick = k]
  /\ UNCHANGED <<kindMain, sw, kindStatus, homeAsk, setKind, presses, visits>>

PickExisting(c) ==
  /\ kindCard.open /\ QuestionShown /\ kindCard.choice # c /\ kindCard' = [kindCard EXCEPT !.choice = c]
  /\ UNCHANGED <<kindMain, sw, kindStatus, homeAsk, setKind, presses, visits>>

\* The button of the card is enabled.
MayApply ==
  /\ ~kindCard.busy /\ ~(Want = "parlons" /\ kindCard.blocker)
  /\ ~(QuestionShown /\ kindCard.choice = "none") /\ ShownSettled

\* Only an answer to a question that is shown goes along.
ChoiceSent == IF QuestionShown THEN kindCard.choice ELSE "none"

\* applyKind(): `of` is the node that the card shows as the one in 1.1.
ApplyKind ==
  /\ kindCard.open /\ MayApply /\ presses < MaxPresses
  /\ presses' = presses + 1 /\ kindCard' = [kindCard EXCEPT !.busy = TRUE]
  /\ setKind' = [at |-> "sent", want |-> Want, mode |-> IF SwitchingToParlons THEN "new" ELSE "none",
                 existing |-> ChoiceSent, of |-> IF QuestionShown THEN kindCard.existing ELSE 0]
  /\ UNCHANGED <<kindMain, sw, kindStatus, homeAsk, visits>>

\* A switch to the Parlons Node is refused only for its mode.
BadRefuses ==
  setKind.want = "parlons" /\ (barred \/ setKind.mode = "none")

\* "Never a silent switch": without a mode, or without an answer for the node that is
\* there, a switch to the Parlons Node is refused.
Refuses ==
  setKind.want = "parlons" /\ (barred \/ setKind.mode = "none" \/ (home > 0 /\ setKind.existing = "none"))

\* node:setKind in main, and start() of carryover; for the kind that runs already there is
\* only the heap to be saved.
SetKind ==
  /\ setKind.at = "sent" /\ setKind' = [setKind EXCEPT !.at = "answered"]
  /\ IF runsKind # setKind.want /\ ~Refuses /\ ~sw.running
     THEN sw' = [stage |-> "preflight", running |-> TRUE, target |-> setKind.want, of |-> setKind.of,
                 mode |-> IF setKind.existing = "keep" THEN "keep" ELSE setKind.mode,
                 existing |-> setKind.existing]
     ELSE UNCHANGED sw
  /\ UNCHANGED <<kindMain, kindCard, kindStatus, homeAsk, presses, visits>>

SetKindBack ==
  /\ setKind.at = "answered" /\ setKind' = NoCall /\ kindCard' = [kindCard EXCEPT !.busy = FALSE]
  /\ UNCHANGED <<kindMain, sw, kindStatus, homeAsk, presses, visits>>

\* "Cancel", shown while the switch reads, waits or verifies: only the flag is cleared.
CancelSwitch ==
  /\ kindCard.open /\ kindStatus # << >> /\ kindStatus[1].stage \in {"preflight", "waiting"}
  /\ sw.running /\ sw' = [sw EXCEPT !.running = FALSE]
  /\ UNCHANGED <<kindMain, kindCard, kindStatus, homeAsk, setKind, presses, visits>>

-----------------------------------------------------------------------------

\* The end of a switch that failed, without a word.
BadEnds(s) == [s EXCEPT !.running = FALSE]

\* Every end of a switch, good or bad, says "done".
Ends(s) == [s EXCEPT !.stage = "done", !.running = FALSE]

\* preflight: the node being left is read; it may not answer, or its wallet be locked.
ReadsLeft ==
  /\ sw.stage = "preflight"
  /\ \/ sw' = [sw EXCEPT !.stage = "stopping"]
     \/ sw' = Ends(sw)
  /\ UNCHANGED <<kindMain, kindCard, kindStatus, homeAsk, setKind, presses, visits>>

\* The node being left has stopped; the earlier Parlons node is set aside if that was chosen.
SetAside ==
  /\ sw.stage = "stopping" /\ sw' = [sw EXCEPT !.stage = "setaside"]
  /\ home' = IF sw.target = "parlons" /\ sw.existing = "replace" THEN 0 ELSE home
  /\ UNCHANGED <<runsKind, newestHome, barred, kindCard, kindStatus, homeAsk, setKind, presses, visits>>

\* The other kind is saved and started: a Parlons Node that is not kept as it is gets a
\* wallet, in the folder 1.1 as it finds it.
StartOther ==
  /\ sw.stage = "setaside" /\ runsKind' = sw.target
  /\ \/ sw' = [sw EXCEPT !.stage = "waiting"]
     \/ sw' = Ends(sw)
  /\ LET new == sw.target = "parlons" /\ sw.mode = "new"
     IN  /\ home' = IF new THEN newestHome + 1 ELSE home
         /\ newestHome' = IF new THEN newestHome + 1 ELSE newestHome
  /\ UNCHANGED <<barred, kindCard, kindStatus, homeAsk, setKind, presses, visits>>

\* The wallet is there and its counters raised, or not in time; cancelled, the wait ends at once.
WaitOver ==
  /\ sw.stage = "waiting" /\ sw' = Ends(sw)
  /\ UNCHANGED <<kindMain, kindCard, kindStatus, homeAsk, setKind, presses, visits>>

-----------------------------------------------------------------------------

KindNext ==
  \/ OpenKinds \/ LeaveKinds \/ StatusArrives \/ BlockerArrives
  \/ \E a \in HomeAsk : ReadHome(a) \/ HomeShown(a)
  \/ \E k \in NodeKind : PickKind(k)
  \/ \E c \in {"replace", "keep"} : PickExisting(c)
  \/ ApplyKind \/ SetKind \/ SetKindBack \/ CancelSwitch
  \/ ReadsLeft \/ SetAside \/ StartOther \/ WaitOver

KindSpec == KindInit /\ [][KindNext]_kindVars

-----------------------------------------------------------------------------

\* "Never a silent switch" (main.js:235): a node that is in the folder 1.1 leaves it only by
\* a press on a card that showed a node there with "Replace it" ticked, and no wallet is
\* carried onto, and no new node started over, a node that is there: however old what the
\* card showed was, and whatever was cancelled before.
NoSilentReplace ==
  [][home # 0 /\ home' # home =>
       home' = 0 /\ sw.existing = "replace" /\ sw.of > 0]_kindVars

\* A press is answered, a switch ends, and a card that stays open says so: its button is not
\* left disabled by a switch that failed (carryover.js:357-361, the button's `disabled`).
ButtonComesBack ==
  []<>((ShownSettled /\ ~kindCard.busy) \/ ~kindCard.open)
=============================================================================
