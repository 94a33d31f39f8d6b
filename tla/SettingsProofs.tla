---------------------------- MODULE SettingsProofs ----------------------------
(***************************************************************************)
(* Proofs about the pages around the carry-over and the provisioning: for   *)
(* each module its types and an inductive invariant, and then the safety    *)
(* properties of MCSettings, for every value of the constants.              *)
(***************************************************************************)
EXTENDS MCSettings, CarryOverProofs, FiniteSetTheorems

-----------------------------------------------------------------------------
(* The invariants.                                                          *)

\* The stages before the other node is started.
Early == {"preflight", "stopping", "setaside"}

\* How many more wallets the presses made so far can still make.
Making == (IF setKind.at = "sent" THEN 1 ELSE 0) + (IF sw.stage \in Early THEN 1 ELSE 0)

\* A choice is sent along, and kept by the switch, only with the node it is about; and a switch
\* has a target.
ChoiceInv ==
  /\ sw.stage \in Early => sw.target # "none"
  /\ setKind.existing # "none" => setKind.of > 0
  /\ sw.existing # "none" => sw.of > 0
  /\ sw.existing = "keep" => sw.mode = "keep"

\* A switch that gives 1.1 a new node finds the folder empty when it comes to it: it was
\* empty when the switch was accepted, or its node has been set aside.
HomeInv ==
  sw.target = "parlons" /\ sw.mode = "new" =>
    /\ sw.stage \in Early /\ sw.existing = "none" => home = 0
    /\ sw.stage = "setaside" /\ sw.existing = "replace" => home = 0

KindInv == KindTypeOK /\ newestHome + Making <= presses + 1 /\ ChoiceInv /\ HomeInv

\* Whoever signs in with a ticket that is not fresh, or posts after a second sign-in with a
\* session that has ended, has been disturbed; and an account that answers has a fresh ticket
\* in its file.
ApiInv ==
  /\ serving => ticketFile = "fresh"
  /\ \A c \in PanelCall :
       /\ apiPc[c] \in {"sign in", "sign in again"} /\ held[c] # "fresh" => disturbed[c]
       /\ apiPc[c] = "post again" /\ sentCookie[c] # "valid" => disturbed[c]

AccountInv ==
  AccountTypeOK /\ (getting # "no" => linkTries <= MaxLinkTries) /\ ApiInv /\ ApiFailsForAReason

\* The import of the page that is displayed, and the last load of one that has come back:
\* there is one of them, and the card is busy with it.
Mine(r) == importRun[r].answers
BusyInv ==
  /\ \A r \in ImportRun : Mine(r) => cardOpen /\ cardBusy
  /\ \A r, s \in ImportRun : Mine(r) /\ Mine(s) => r = s
  /\ \A l \in ListLoad : listLoad[l].last => cardOpen /\ cardBusy /\ \A r \in ImportRun : ~Mine(r)
  /\ \A l, k \in ListLoad : listLoad[l].last /\ listLoad[k].last => l = k

\* An entry that is still to be added has no result yet.
TodoInv == \A r \in ImportRun : importRun[r].todo \subseteq importRun[r].asked \ importRun[r].failed

\* An entry still to be added that is there already, and one that is to be added twice or is
\* ticked while it is on its way, is one that the user could not know of.
UnsureInv ==
  /\ \A r \in ImportRun : \A e \in importRun[r].todo : copies[e] > 0 => e \in unsure
  /\ \A r, s \in ImportRun : r # s => importRun[r].todo \cap importRun[s].todo \subseteq unsure
  /\ \A r, s \in ImportRun : Mine(r) /\ ~Mine(s) => importRun[r].asked \cap importRun[s].todo \subseteq unsure
  /\ \A s \in ImportRun : ~Mine(s) => pick \cap importRun[s].todo \subseteq unsure

\* So is one that is ticked, or will be ticked again, and is there already.
TickedInv ==
  /\ (\A r \in ImportRun : ~Mine(r)) => \A e \in pick : copies[e] > 0 => e \in unsure
  /\ \A r \in ImportRun : Mine(r) =>
       \A e \in importRun[r].asked \cap importRun[r].failed : copies[e] > 0 => e \in unsure

ImportsInv == ImportsTypeOK /\ BusyInv /\ TodoInv /\ UnsureInv /\ TickedInv /\ TwiceForAReason

\* The call that is under way is the one that the page is busy with, and the modal was put up
\* when there was none.
CallInv ==
  /\ \A c \in PageCall : call[c].at = "called" => call[c].key # Nothing /\ netBusy = call[c].key
  /\ netModal # ModalOff => \A c \in PageCall : call[c].at # "called"

NetworkInv == NetworkTypeOK /\ CallInv /\ OneCall

\* One run is on its way at most, the poll knows of it, and it works for this node or an earlier.
Active(r) == prov[r].pc # "off"
RunInv ==
  /\ \A r \in ProvRun : Active(r) => provisionBusy /\ ~provisionDone /\ prov[r].gen <= healthGen
  /\ \A r, s \in ProvRun : Active(r) /\ Active(s) => r = s
  /\ \A r \in ProvRun : prov[r].pc \in {"update", "write", "catalog", "fetch"} => prov[r].uid \in Copy

\* A dapp is installed only where there is none.
CopyInv ==
  /\ \A r \in ProvRun : prov[r].pc = "install" => \A c \in Copy : dapps[c].v = 0
  /\ \A c, d \in Copy : dapps[c].v > 0 /\ dapps[d].v > 0 => c = d

\* What a run of this node has seen is so, as long as nothing has failed or been changed by the
\* user and the app came with its zips, and is what the place that the run has reached promises.
Seen(at, uid, seen, d) ==
  /\ at \in {"update", "write", "catalog", "fetch", "ready"} => uid \in Copy /\ d[uid] = seen /\ seen.v > 0
  /\ at \in {"write", "catalog", "fetch", "ready"} => seen.v >= Bundle
  /\ at \in {"catalog", "fetch", "ready"} => seen.write
  /\ at = "fetch" => CatalogVersion > seen.v

SeenInv ==
  \A r \in ProvRun :
    Active(r) /\ prov[r].gen = healthGen /\ healthGen \notin spoiled /\ shipped = "all" =>
      Seen(prov[r].pc, prov[r].uid, prov[r].seen, dapps)

ProvisionInv == ProvisionTypeOK /\ RunInv /\ CopyInv /\ SeenInv /\ DoneMeansInstalled

-----------------------------------------------------------------------------
(* The parts of a behaviour of MCSettings.                                  *)

\* A behaviour of one part is, for every module, one of its own.
LEMMA PartSteps ==
  [SettingsNext]_settingsVars =>
    /\ [Next]_vars /\ [KindNext]_kindVars /\ [AccountNext]_accountVars /\ [ImportsNext]_importVars
    /\ [NetworkNext]_netVars /\ [ProvisionNext]_provisionVars
  BY Zenon DEF SettingsNext, settingsVars

LEMMA PartSpecs ==
  SettingsSpec => Spec /\ KindSpec /\ AccountSpec /\ ImportsSpec /\ NetworkSpec /\ ProvisionSpec
<1>1. SettingsInit =>
        Init /\ KindInit /\ AccountInit /\ ImportsInit /\ NetworkInit /\ ProvisionInit
  BY DEF SettingsInit
<1> QED
  BY <1>1, PartSteps, PTL DEF SettingsSpec, Spec, KindSpec, AccountSpec, ImportsSpec, NetworkSpec,
    ProvisionSpec

-----------------------------------------------------------------------------
(* The card that switches the node.                                         *)

LEMMA KindInvInit == KindInit => KindInv
<1> SUFFICES ASSUME KindInit PROVE KindInv
  OBVIOUS
<1>0. /\ runsKind \in NodeKind /\ newestHome \in {0, 1} /\ home = newestHome /\ barred \in BOOLEAN
      /\ sw = NoSwitch /\ setKind = NoCall /\ kindStatus = << >> /\ presses = 0 /\ visits = 0
      /\ homeAsk = [a \in HomeAsk |-> Unasked]
      /\ kindCard = [open |-> FALSE, pick |-> "none", choice |-> "none", existing |-> Unclear,
                     blocker |-> FALSE, busy |-> FALSE]
  BY Zenon DEF KindInit
<1>1. sw.stage = "idle" /\ sw.existing = "none" /\ sw.mode = "none" /\ setKind.at = "idle" /\ setKind.existing = "none"
  BY <1>0 DEF NoSwitch, NoCall
<1>2. KindTypeOK
  <2>1. /\ runsKind \in NodeKind /\ home \in 0..newestHome /\ newestHome \in 0..(MaxPresses + 1)
        /\ barred \in BOOLEAN
    BY <1>0, KindPageAssumption
  <2>2. sw \in [stage : Stage, running : BOOLEAN, target : NodeKind \cup {"none"}, mode : Mode,
               existing : Choice, of : 0..newestHome]
    BY <1>0, <2>1 DEF NoSwitch, Stage, Mode, Choice
  <2>3. kindCard \in [open : BOOLEAN, pick : NodeKind \cup {"none"}, choice : Choice,
                     existing : Unclear..newestHome, blocker : BOOLEAN, busy : BOOLEAN]
    BY <1>0, <2>1 DEF Unclear, Choice
  <2>4. homeAsk \in [HomeAsk -> [at : {"idle", "asked", "read"}, home : 0..newestHome]]
    BY <1>0, <2>1 DEF Unasked
  <2>5. setKind \in [at : {"idle", "sent", "answered"}, want : NodeKind, mode : Mode,
                    existing : Choice, of : 0..newestHome]
    BY <1>0, <2>1 DEF NoCall, NodeKind, Mode, Choice
  <2>6. presses \in 0..MaxPresses /\ visits \in 0..MaxCardVisits
    BY <1>0, KindPageAssumption
  <2>7. kindStatus = << >>
    BY <1>0
  <2> QED BY <2>1, <2>2, <2>3, <2>4, <2>5, <2>6, <2>7 DEF KindTypeOK
<1>3. newestHome + Making <= presses + 1
  <2>1. newestHome \in {0, 1} /\ presses = 0
    BY <1>0
  <2>2. Making = 0
    BY <1>1 DEF Making, Early
  <2> QED BY <2>1, <2>2
<1>4. ChoiceInv /\ HomeInv
  BY <1>1 DEF ChoiceInv, HomeInv, Early
<1> QED BY <1>2, <1>3, <1>4 DEF KindInv

LEMMA Bounded ==
  ASSUME NEW n \in Nat, NEW m \in Nat, NEW k \in Nat, NEW p \in Nat, NEW q \in Nat, n + m <= p + 1
  PROVE  /\ k <= m /\ q >= p => n + k <= q + 1
         /\ k <= m + 1 => n + k <= (p + 1) + 1
         /\ k + 1 <= m => (n + 1) + k <= p + 1 /\ n + k <= p + 1
         /\ n <= p + 1
  OBVIOUS

\* What the card does, and the main process when it is asked for what there is in 1.1, leaves
\* the switch and the node in 1.1 alone.
LEMMA CardStep ==
  ASSUME KindInv, KindTypeOK',
         UNCHANGED <<home, newestHome, sw>>, presses' >= presses,
         setKind' = setKind \/ setKind' = NoCall
  PROVE  KindInv'
<1>1. Making' <= Making /\ Making \in Nat /\ Making' \in Nat
  BY DEF Making, NoCall
<1>2. (newestHome + Making <= presses + 1)'
  <2>1. newestHome \in Nat /\ presses \in Nat /\ presses' \in Nat /\ newestHome + Making <= presses + 1
    BY KindPageAssumption DEF KindInv, KindTypeOK
  <2>2. newestHome' = newestHome /\ presses' >= presses
    OBVIOUS
  <2>3. newestHome + Making' <= presses' + 1
    BY <1>1, <2>1, <2>2, Bounded, Zenon
  <2> QED BY <2>2, <2>3, Zenon
<1>3. ChoiceInv' /\ HomeInv'
  BY DEF KindInv, ChoiceInv, HomeInv, NoCall
<1> QED BY <1>2, <1>3 DEF KindInv

\* What KindTypeOK says of every variable but the card, as facts without Booleans.
LEMMA KindTypes ==
  ASSUME KindTypeOK
  PROVE  /\ runsKind \in NodeKind /\ home \in 0..newestHome /\ newestHome \in 0..(MaxPresses + 1)
         /\ sw.stage \in Stage /\ sw.target \in NodeKind \cup {"none"} /\ sw.mode \in Mode
         /\ sw.existing \in Choice /\ sw.of \in 0..newestHome
         /\ setKind.of \in 0..newestHome /\ setKind.existing \in Choice /\ setKind.want \in NodeKind
         /\ presses \in 0..MaxPresses
  BY DEF KindTypeOK

LEMMA AsksHomeType ==
  ASSUME KindTypeOK, AsksHome
  PROVE  homeAsk' \in [HomeAsk -> [at : {"idle", "asked", "read"}, home : 0..newestHome]]
<1>1. PICK a \in HomeAsk : homeAsk' = [homeAsk EXCEPT ![a] = [at |-> "asked", home |-> 0]]
  BY DEF AsksHome
<1>2. [at |-> "asked", home |-> 0] \in [at : {"idle", "asked", "read"}, home : 0..newestHome]
  BY KindPageAssumption DEF KindTypeOK
<1> QED BY <1>1, <1>2 DEF KindTypeOK

LEMMA StatusStep == ASSUME KindInv, StatusArrives PROVE KindInv'
<1>1. KindTypeOK'
  <2>1. homeAsk' \in [HomeAsk -> [at : {"idle", "asked", "read"}, home : 0..newestHome]]
    BY AsksHomeType, Zenon DEF KindInv, KindTypeOK, StatusArrives
  <2>2. kindStatus' \in {<<s>> : s \in [kind : NodeKind, stage : Stage]}
    <3>1. MainStatus \in [kind : NodeKind, stage : Stage]
      BY KindTypes DEF MainStatus, KindInv
    <3> QED BY <3>1, Zenon DEF StatusArrives
  <2>3. kindCard' \in [open : BOOLEAN, pick : NodeKind \cup {"none"}, choice : Choice,
                      existing : Unclear..newestHome, blocker : BOOLEAN, busy : BOOLEAN]
    BY DEF KindInv, KindTypeOK, StatusArrives
  <2> QED BY <2>1, <2>2, <2>3 DEF KindInv, KindTypeOK, StatusArrives, kindMain
<1> QED BY <1>1, CardStep, KindTypes DEF StatusArrives, kindMain, KindInv

LEMMA HomeSteps ==
  ASSUME KindInv, NEW a \in HomeAsk, ReadHome(a) \/ HomeShown(a) PROVE KindInv'
<1>1. KindTypeOK'
  <2>1. CASE ReadHome(a)
    <3>1. [at |-> "read", home |-> home] \in [at : {"idle", "asked", "read"}, home : 0..newestHome]
      BY DEF KindInv, KindTypeOK
    <3> QED BY <2>1, <3>1 DEF KindInv, KindTypeOK, ReadHome, kindMain
  <2>2. CASE HomeShown(a)
    <3>1. Unasked \in [at : {"idle", "asked", "read"}, home : 0..newestHome]
      BY KindPageAssumption DEF KindInv, KindTypeOK, Unasked
    <3>2. kindCard' \in [open : BOOLEAN, pick : NodeKind \cup {"none"}, choice : Choice,
                      existing : Unclear..newestHome, blocker : BOOLEAN, busy : BOOLEAN]
      <4>1. homeAsk[a].home \in Unclear..newestHome
        BY KindPageAssumption DEF KindInv, KindTypeOK, Unclear
      <4> QED BY <2>2, <4>1 DEF KindInv, KindTypeOK, HomeShown, Choice
    <3> QED BY <2>2, <3>1, <3>2 DEF KindInv, KindTypeOK, HomeShown, kindMain
  <2> QED BY <2>1, <2>2
<1> QED BY <1>1, CardStep, KindTypes DEF ReadHome, HomeShown, kindMain, KindInv

LEMMA CardSteps ==
  ASSUME KindInv,
         \/ OpenKinds \/ LeaveKinds \/ BlockerArrives \/ SetKindBack
         \/ \E k \in NodeKind : PickKind(k)
         \/ \E c \in {"replace", "keep"} : PickExisting(c)
  PROVE  KindInv'
<1>1. KindTypeOK'
  <2>1. CASE OpenKinds
    <3>1. homeAsk' \in [HomeAsk -> [at : {"idle", "asked", "read"}, home : 0..newestHome]]
      BY <2>1, AsksHomeType DEF KindInv, OpenKinds
    <3>2. visits' \in 0..MaxCardVisits
      BY <2>1, KindPageAssumption DEF KindInv, KindTypeOK, OpenKinds
    <3> QED BY <2>1, <3>1, <3>2 DEF KindInv, KindTypeOK, OpenKinds, kindMain
  <2>2. CASE LeaveKinds
    BY <2>2 DEF KindInv, KindTypeOK, LeaveKinds, kindMain
  <2>3. CASE BlockerArrives
    BY <2>3 DEF KindInv, KindTypeOK, BlockerArrives, kindMain
  <2>4. CASE SetKindBack
    <3>1. NoCall \in [at : {"idle", "sent", "answered"}, want : NodeKind, mode : Mode,
                     existing : Choice, of : 0..newestHome]
      BY KindTypes, KindPageAssumption DEF KindInv, NoCall, NodeKind, Mode, Choice
    <3> QED BY <2>4, <3>1 DEF KindInv, KindTypeOK, SetKindBack, kindMain
  <2>5. ASSUME NEW k \in NodeKind, PickKind(k) PROVE KindTypeOK'
    BY <2>5 DEF KindInv, KindTypeOK, PickKind, kindMain
  <2>6. ASSUME NEW c \in {"replace", "keep"}, PickExisting(c) PROVE KindTypeOK'
    BY <2>6 DEF KindInv, KindTypeOK, PickExisting, kindMain, Choice
  <2> QED BY <2>1, <2>2, <2>3, <2>4, <2>5, <2>6
<1> QED BY <1>1, CardStep, KindTypes
     DEF OpenKinds, LeaveKinds, BlockerArrives, SetKindBack, PickKind, PickExisting, kindMain, KindInv

LEMMA ApplyStep == ASSUME KindInv, ApplyKind PROVE KindInv'
<1>1. /\ UNCHANGED <<runsKind, home, newestHome, barred, sw, kindStatus, homeAsk, visits>>
      /\ presses' = presses + 1 /\ presses < MaxPresses
      /\ kindCard' = [kindCard EXCEPT !.busy = TRUE]
  BY Zenon DEF ApplyKind, kindMain
<1>2. /\ Want \in NodeKind /\ ChoiceSent \in Choice
      /\ ChoiceSent # "none" => kindCard.existing > 0 /\ QuestionShown
  BY DEF KindInv, KindTypeOK, Want, ShownKind, NodeKind, ChoiceSent, QuestionShown, Choice
<1>3. /\ setKind'.at = "sent" /\ setKind'.existing = ChoiceSent
      /\ setKind'.of = IF QuestionShown THEN kindCard.existing ELSE 0
      /\ setKind' \in [at : {"idle", "sent", "answered"}, want : NodeKind, mode : Mode,
                      existing : Choice, of : 0..newestHome]
  <2>1. (IF QuestionShown THEN kindCard.existing ELSE 0) \in 0..newestHome
    BY KindPageAssumption DEF KindInv, KindTypeOK, QuestionShown, Unclear
  <2>2. (IF SwitchingToParlons THEN "new" ELSE "none") \in Mode
    BY DEF Mode
  <2>3. setKind' = [at |-> "sent", want |-> Want, mode |-> IF SwitchingToParlons THEN "new" ELSE "none",
                  existing |-> ChoiceSent, of |-> IF QuestionShown THEN kindCard.existing ELSE 0]
    BY Zenon DEF ApplyKind
  <2> QED BY <1>2, <2>1, <2>2, <2>3
<1>4. KindTypeOK'
  <2>1. presses' \in 0..MaxPresses
    BY <1>1, KindTypes, KindPageAssumption DEF KindInv
  <2>2. kindCard' \in [open : BOOLEAN, pick : NodeKind \cup {"none"}, choice : Choice,
                     existing : Unclear..newestHome, blocker : BOOLEAN, busy : BOOLEAN]
    BY <1>1 DEF KindInv, KindTypeOK
  <2> QED BY <1>1, <1>3, <2>1, <2>2 DEF KindInv, KindTypeOK
<1>5. (newestHome + Making <= presses + 1)'
  <2>1. /\ newestHome \in Nat /\ presses \in Nat /\ newestHome + Making <= presses + 1
        /\ Making \in Nat /\ Making' \in Nat /\ Making' <= Making + 1
    BY <1>1, <1>3, KindPageAssumption DEF KindInv, KindTypeOK, Making
  <2>2. newestHome + Making' <= (presses + 1) + 1
    BY <2>1, Bounded, Zenon
  <2> QED BY <1>1, <2>2, Zenon
<1>6. ChoiceInv' /\ HomeInv'
  BY <1>1, <1>2, <1>3 DEF KindInv, ChoiceInv, HomeInv
<1> QED BY <1>4, <1>5, <1>6 DEF KindInv

SwitchType == [stage : Stage, running : BOOLEAN, target : NodeKind \cup {"none"}, mode : Mode,
               existing : Choice, of : 0..newestHome]

\* The main process takes a call, and the switch takes a step that makes no node.
LEMMA SwitchStep ==
  ASSUME KindInv, UNCHANGED <<home, newestHome, barred, kindCard, kindStatus, homeAsk, presses, visits>>,
         runsKind' \in NodeKind, sw' \in SwitchType,
         setKind' \in {setKind, [setKind EXCEPT !.at = "answered"]},
         Making' <= Making, ChoiceInv', HomeInv'
  PROVE  KindInv'
<1>1. /\ setKind'.of = setKind.of /\ setKind'.existing = setKind.existing
      /\ setKind' \in [at : {"idle", "sent", "answered"}, want : NodeKind, mode : Mode,
                      existing : Choice, of : 0..newestHome]
  BY DEF KindInv, KindTypeOK
<1>2. KindTypeOK'
  BY <1>1 DEF KindInv, KindTypeOK, SwitchType
<1>3. (newestHome + Making <= presses + 1)'
  <2>1. /\ newestHome \in Nat /\ presses \in Nat /\ newestHome + Making <= presses + 1
        /\ Making \in Nat /\ Making' \in Nat /\ presses >= presses
    BY KindPageAssumption DEF KindInv, KindTypeOK, Making
  <2>2. newestHome + Making' <= presses + 1
    BY <2>1, Bounded, Zenon
  <2> QED BY <2>2, Zenon
<1> QED BY <1>2, <1>3 DEF KindInv

LEMMA SetKindStep == ASSUME KindInv, SetKind PROVE KindInv'
<1>1. /\ UNCHANGED <<runsKind, home, newestHome, barred, kindCard, kindStatus, homeAsk, presses, visits>>
      /\ setKind.at = "sent" /\ setKind' = [setKind EXCEPT !.at = "answered"]
  BY Zenon DEF SetKind, kindMain
<1>2. CASE UNCHANGED sw
  <2>1. setKind'.of = setKind.of /\ setKind'.existing = setKind.existing /\ setKind'.at = "answered"
    BY <1>1 DEF KindInv, KindTypeOK
  <2>2. Making' <= Making
    BY <1>1, <1>2, <2>1 DEF Making
  <2>3. sw' \in SwitchType /\ runsKind' \in NodeKind
    BY <1>1, <1>2 DEF KindInv, KindTypeOK, SwitchType
  <2>4. ChoiceInv' /\ HomeInv'
    BY <1>1, <1>2, <2>1 DEF KindInv, ChoiceInv, HomeInv
  <2> QED BY <1>1, <2>2, <2>3, <2>4, SwitchStep
<1>3. CASE ~UNCHANGED sw
  <2>1. /\ ~Refuses
        /\ sw' = [stage |-> "preflight", running |-> TRUE, target |-> setKind.want, of |-> setKind.of,
                 mode |-> IF setKind.existing = "keep" THEN "keep" ELSE setKind.mode,
                 existing |-> setKind.existing]
    BY <1>3, Zenon DEF SetKind
  <2>2. setKind.mode \in Mode
    BY DEF KindInv, KindTypeOK
  <2>3. sw' \in SwitchType
    BY <2>1, <2>2, KindTypes DEF KindInv, SwitchType, Stage, Mode
  <2>4. /\ sw'.stage = "preflight" /\ sw'.existing = setKind.existing /\ sw'.of = setKind.of
        /\ sw'.target = setKind.want /\ (sw'.existing = "keep" => sw'.mode = "keep")
    BY <2>1
  <2>5. setKind'.of = setKind.of /\ setKind'.existing = setKind.existing /\ setKind'.at = "answered"
    BY <1>1 DEF KindInv, KindTypeOK
  <2>6. Making' <= Making
    BY <1>1, <2>4, <2>5 DEF Making
  <2>7. ChoiceInv'
    BY <2>4, <2>5, KindTypes DEF KindInv, ChoiceInv, NodeKind
  <2>8. HomeInv'
    <3>1. setKind.want = "parlons" /\ setKind.existing = "none" => home = 0
      BY <2>1, KindTypes DEF Refuses, KindInv
    <3> QED BY <1>1, <2>4, <3>1 DEF HomeInv
  <2> QED BY <1>1, <2>3, <2>6, <2>7, <2>8, SwitchStep DEF KindInv, KindTypeOK
<1> QED BY <1>2, <1>3

LEMMA SwitchSteps == ASSUME KindInv, CancelSwitch \/ ReadsLeft \/ WaitOver PROVE KindInv'
<1>1. /\ UNCHANGED <<runsKind, home, newestHome, barred, kindCard, kindStatus, homeAsk, presses, visits, setKind>>
      /\ \/ sw' = [sw EXCEPT !.running = FALSE]
         \/ sw.stage \in {"preflight", "waiting"} /\ sw' = [sw EXCEPT !.stage = "done", !.running = FALSE]
         \/ sw.stage = "preflight" /\ sw' = [sw EXCEPT !.stage = "stopping"]
  BY Zenon DEF CancelSwitch, ReadsLeft, WaitOver, Ends, kindMain
<1>2. /\ sw' \in SwitchType /\ sw'.of = sw.of /\ sw'.existing = sw.existing /\ sw'.mode = sw.mode
      /\ sw'.target = sw.target
      /\ sw'.stage = sw.stage \/ sw'.stage = "done" \/ (sw.stage = "preflight" /\ sw'.stage = "stopping")
  BY <1>1 DEF KindInv, KindTypeOK, SwitchType, Stage
<1>3. Making' <= Making
  BY <1>1, <1>2 DEF Making, Early
<1>4. ChoiceInv' /\ HomeInv'
  BY <1>1, <1>2 DEF KindInv, ChoiceInv, HomeInv, Early
<1> QED BY <1>1, <1>2, <1>3, <1>4, SwitchStep DEF KindInv, KindTypeOK

\* Setting aside is the one step that empties 1.1: for a switch with "replace".
LEMMA SetAsideStep ==
  ASSUME KindInv, SetAside
  PROVE  KindInv' /\ (home' # home => home' = 0 /\ sw.existing = "replace" /\ sw.of > 0)
<1>1. /\ UNCHANGED <<runsKind, newestHome, barred, kindCard, kindStatus, homeAsk, setKind, presses, visits>>
      /\ sw.stage = "stopping" /\ sw' = [sw EXCEPT !.stage = "setaside"]
      /\ home' = IF sw.target = "parlons" /\ sw.existing = "replace" THEN 0 ELSE home
  BY Zenon DEF SetAside
<1>2. /\ sw' \in SwitchType /\ sw'.of = sw.of /\ sw'.existing = sw.existing /\ sw'.mode = sw.mode
      /\ sw'.target = sw.target /\ sw'.stage = "setaside"
  BY <1>1 DEF KindInv, KindTypeOK, SwitchType, Stage
<1>3. KindTypeOK'
  <2>1. home' \in 0..newestHome'
    BY <1>1, KindTypes, KindPageAssumption DEF KindInv
  <2> QED BY <1>1, <1>2, <2>1 DEF KindInv, KindTypeOK, SwitchType
<1>4. (newestHome + Making <= presses + 1)'
  <2>1. Making' = Making
    BY <1>1, <1>2 DEF Making, Early
  <2>2. newestHome + Making <= presses + 1
    BY DEF KindInv
  <2> QED BY <1>1, <2>1, <2>2, Zenon
<1>5. ChoiceInv' /\ HomeInv'
  BY <1>1, <1>2 DEF KindInv, ChoiceInv, HomeInv, Early
<1>6. home' # home => home' = 0 /\ sw.existing = "replace" /\ sw.of > 0
  BY <1>1 DEF KindInv, ChoiceInv
<1> QED BY <1>3, <1>4, <1>5, <1>6 DEF KindInv

\* Starting the other node is the one step that makes one in 1.1: into an empty folder.
LEMMA StartStep ==
  ASSUME KindInv, StartOther PROVE KindInv' /\ (home' # home => home = 0)
<1> DEFINE new == sw.target = "parlons" /\ sw.mode = "new"
<1>1. /\ UNCHANGED <<barred, kindCard, kindStatus, homeAsk, setKind, presses, visits>>
      /\ sw.stage = "setaside" /\ runsKind' = sw.target
      /\ sw' = [sw EXCEPT !.stage = "waiting"] \/ sw' = [sw EXCEPT !.stage = "done", !.running = FALSE]
      /\ home' = IF new THEN newestHome + 1 ELSE home
      /\ newestHome' = IF new THEN newestHome + 1 ELSE newestHome
  BY Zenon DEF StartOther, Ends
<1>2. /\ sw' \in SwitchType /\ sw'.of = sw.of /\ sw'.existing = sw.existing /\ sw'.mode = sw.mode
      /\ sw'.target = sw.target /\ sw'.stage \in {"waiting", "done"}
  <2>1. sw \in SwitchType
    BY DEF KindInv, KindTypeOK, SwitchType
  <2>2. CASE sw' = [sw EXCEPT !.stage = "waiting"]
    BY <2>1, <2>2 DEF SwitchType, Stage
  <2>3. CASE sw' = [sw EXCEPT !.stage = "done", !.running = FALSE]
    BY <2>1, <2>3 DEF SwitchType, Stage
  <2> QED BY <1>1, <2>2, <2>3, Zenon
<1>3. new => home = 0
  BY <1>1, KindTypes DEF KindInv, ChoiceInv, HomeInv, Early, Choice
<1>4. /\ newestHome \in Nat /\ presses \in Nat /\ newestHome + Making <= presses + 1
      /\ Making \in Nat /\ Making' \in Nat /\ Making' + 1 <= Making
  BY <1>1, <1>2, KindPageAssumption DEF KindInv, KindTypeOK, Making, Early
<1>5. (newestHome + Making <= presses + 1)'
  <2>1. (newestHome + 1) + Making' <= presses + 1 /\ newestHome + Making' <= presses + 1
    BY <1>4, Bounded, Zenon
  <2> QED BY <1>1, <2>1, Zenon
<1>6. newestHome' \in 0..(MaxPresses + 1)
  <2>1. newestHome' \in Nat /\ Making' \in Nat /\ newestHome' + Making' <= presses + 1
    BY <1>1, <1>4, <1>5
  <2>2. newestHome' <= presses + 1
    BY <2>1, <1>4, Bounded, Zenon
  <2>3. presses \in 0..MaxPresses
    BY KindTypes DEF KindInv
  <2> QED BY <2>1, <2>2, <2>3, KindPageAssumption
<1>7. KindTypeOK'
  <2>1. home' \in 0..newestHome' /\ newestHome' \in Nat /\ newestHome' >= newestHome
    BY <1>1, <1>4, KindTypes DEF KindInv
  <2>2. 0..newestHome \subseteq 0..newestHome' /\ Unclear..newestHome \subseteq Unclear..newestHome'
    BY <1>4, <2>1 DEF Unclear
  <2>3. runsKind' \in NodeKind
    BY <1>1, KindTypes DEF KindInv, ChoiceInv, Early
  <2>4. sw' \in [stage : Stage, running : BOOLEAN, target : NodeKind \cup {"none"}, mode : Mode,
               existing : Choice, of : 0..newestHome']
    BY <1>2, <2>2 DEF SwitchType
  <2>5. kindCard \in [open : BOOLEAN, pick : NodeKind \cup {"none"}, choice : Choice,
                   existing : Unclear..newestHome', blocker : BOOLEAN, busy : BOOLEAN]
    BY <2>2 DEF KindInv, KindTypeOK
  <2>6. homeAsk \in [HomeAsk -> [at : {"idle", "asked", "read"}, home : 0..newestHome']]
    BY <2>2 DEF KindInv, KindTypeOK
  <2>7. setKind \in [at : {"idle", "sent", "answered"}, want : NodeKind, mode : Mode,
                    existing : Choice, of : 0..newestHome']
    BY <2>2 DEF KindInv, KindTypeOK
  <2> QED BY <1>1, <1>6, <2>1, <2>3, <2>4, <2>5, <2>6, <2>7 DEF KindInv, KindTypeOK
<1>8. ChoiceInv' /\ HomeInv'
  BY <1>1, <1>2 DEF KindInv, ChoiceInv, HomeInv, Early
<1> QED BY <1>1, <1>3, <1>5, <1>7, <1>8 DEF KindInv

LEMMA KindStutters == ASSUME KindInv, UNCHANGED kindVars PROVE KindInv'
BY DEF KindInv, KindTypeOK, Making, ChoiceInv, HomeInv, kindVars, kindMain

LEMMA KindInvStep == KindInv /\ [KindNext]_kindVars => KindInv'
<1> SUFFICES ASSUME KindInv, [KindNext]_kindVars PROVE KindInv'
  OBVIOUS
<1> QED
  BY StatusStep, HomeSteps, CardSteps, ApplyStep, SetKindStep, SwitchSteps, SetAsideStep, StartStep,
    KindStutters DEF KindNext

\* The steps that are neither leave what is in 1.1 alone.
LEMMA ReplaceStep ==
  KindInv /\ [KindNext]_kindVars =>
    [home # 0 /\ home' # home => home' = 0 /\ sw.existing = "replace" /\ sw.of > 0]_kindVars
<1> SUFFICES ASSUME KindInv, KindNext, home # 0, home' # home
             PROVE  home' = 0 /\ sw.existing = "replace" /\ sw.of > 0
  OBVIOUS
<1>1. SetAside \/ StartOther
  BY Zenon DEF KindNext, OpenKinds, LeaveKinds, StatusArrives, BlockerArrives, ReadHome, HomeShown, PickKind,
    PickExisting, ApplyKind, SetKind, SetKindBack, CancelSwitch, ReadsLeft, WaitOver, kindMain
<1> QED BY <1>1, SetAsideStep, StartStep

\* The card's switch of the node never replaces a node that it did not show (main.js:235,
\* MinimaDesk/index.tsx:66-88).
THEOREM SettingsNoSilentSwitch == SettingsSpec => NoSilentSwitch
<1>1. KindSpec => []KindInv
  BY KindInvInit, KindInvStep, PTL DEF KindSpec
<1>2. KindInv => KindTypeOK
  BY DEF KindInv
<1> QED
  BY <1>1, <1>2, ReplaceStep, PartSpecs, PTL DEF KindSpec, NoSilentSwitch, NoSilentReplace

-----------------------------------------------------------------------------
(* The network page.                                                        *)

CallType == [key : Keys \cup {Nothing}, at : {"idle", "called", "copies"}, to : BOOLEAN]

LEMMA NetworkInvInit == NetworkInit => NetworkInv
<1> SUFFICES ASSUME NetworkInit PROVE NetworkInv
  OBVIOUS
<1>1. Idle \in CallType /\ Idle.at = "idle"
  BY DEF Idle, CallType
<1>2. NetworkTypeOK
  <2>1. call \in [PageCall -> CallType]
    BY <1>1, Zenon DEF NetworkInit
  <2>2. maxima \in [identity : RelayHost \cup {Nothing}, pin : RelayHost \cup {Nothing}]
    BY DEF NetworkInit
  <2>3. calls \in 0..MaxCalls /\ nodeTurns \in 0..MaxNodeTurns
    <3>1. calls = 0 /\ nodeTurns = 0
      BY Zenon DEF NetworkInit
    <3> QED BY <3>1, NetworkAssumption
  <2> QED BY <2>1, <2>2, <2>3, Zenon DEF NetworkInit, NetworkTypeOK, CallType, ModalOff
<1>3. \A c \in PageCall : call[c].at = "idle"
  BY <1>1, Zenon DEF NetworkInit
<1> QED BY <1>2, <1>3 DEF NetworkInv, CallInv, OneCall

\* A call begins when none is under way.
LEMMA BeginsStep ==
  ASSUME NetworkInv, NEW key \in Keys, NEW to \in BOOLEAN, Begins(key, to),
         \A c \in PageCall : call[c].at # "called", netModal' = ModalOff
  PROVE  /\ call' \in [PageCall -> CallType] /\ calls' \in 0..MaxCalls /\ netBusy' = key
         /\ CallInv' /\ OneCall'
<1>1. key # Nothing
  BY DEF Keys, Nothing
<1>2. PICK c \in PageCall : call' = [call EXCEPT ![c] = [key |-> key, at |-> "called", to |-> to]]
  BY Zenon DEF Begins
<1>3. netBusy' = key /\ calls' = calls + 1 /\ calls < MaxCalls
  BY Zenon DEF Begins
<1>4. calls' \in 0..MaxCalls
  BY <1>3, NetworkAssumption DEF NetworkInv, NetworkTypeOK
<1>5. call \in [PageCall -> CallType] /\ [key |-> key, at |-> "called", to |-> to] \in CallType
  BY DEF NetworkInv, NetworkTypeOK, CallType
<1>6. call' \in [PageCall -> CallType]
  BY <1>2, <1>5
<1>7. CallInv' /\ OneCall'
  BY <1>1, <1>2, <1>3, <1>5 DEF CallInv, OneCall
<1> QED BY <1>3, <1>4, <1>6, <1>7

LEMMA NoneCalled ==
  ASSUME NetworkInv, netBusy = Nothing \/ netModal # ModalOff PROVE \A c \in PageCall : call[c].at # "called"
  BY DEF NetworkInv, CallInv

\* What a call leaves behind is a configuration.
LEMMA DoesType ==
  ASSUME NetworkTypeOK, NEW c \in PageCall, Does(c)
  PROVE  actual' \in Config /\ maxima' \in [identity : RelayHost \cup {Nothing}, pin : RelayHost \cup {Nothing}]
<1>1. call[c].to \in BOOLEAN
  BY DEF NetworkTypeOK
<1>2. (CHOOSE r \in RelayHost : r # actual.relay) \in RelayHost
  <2>1. \E r \in RelayHost : r # actual.relay
    BY NetworkAssumption
  <2> QED BY <2>1
<1>3. actual' \in Config
  BY <1>1, <1>2 DEF Does, NetworkTypeOK, Config
<1>4. maxima' \in [identity : RelayHost \cup {Nothing}, pin : RelayHost \cup {Nothing}]
  BY DEF Does, NetworkTypeOK
<1> QED BY <1>3, <1>4

LEMMA NetworkInvStep == NetworkInv /\ [NetworkNext]_netVars => NetworkInv'
<1> SUFFICES ASSUME NetworkInv, [NetworkNext]_netVars PROVE NetworkInv'
  OBVIOUS
<1>1. ASSUME NEW key \in Keys, Press(key) PROVE NetworkInv'
  <2>1. Begins(key, FALSE) /\ netBusy = Nothing /\ netModal = ModalOff
        /\ UNCHANGED <<actual, maxima, netPage, cfg, info, hosts, polling, netModal, nodeTurns>>
    BY <1>1, Zenon DEF Press, Pressable, MayRun, Elsewhere
  <2>2. /\ call' \in [PageCall -> CallType] /\ calls' \in 0..MaxCalls /\ netBusy' = key
        /\ CallInv' /\ OneCall'
    BY <2>1, NoneCalled, BeginsStep
  <2>3. NetworkTypeOK'
    BY <2>1, <2>2, Zenon DEF NetworkInv, NetworkTypeOK, CallType
  <2> QED BY <2>2, <2>3 DEF NetworkInv
<1>2. CASE ToggleContribute
  <2>1. netBusy = Nothing /\ netModal' \in {"on?", "off?"}
        /\ UNCHANGED <<actual, maxima, netPage, cfg, info, hosts, netBusy, call, polling, calls, nodeTurns>>
    BY <1>2, Zenon DEF ToggleContribute, MayRun, Elsewhere
  <2>2. \A c \in PageCall : call[c].at # "called"
    BY <2>1, NoneCalled
  <2>3. NetworkTypeOK'
    BY <2>1, Zenon DEF NetworkInv, NetworkTypeOK
  <2> QED BY <2>1, <2>2, <2>3 DEF NetworkInv, CallInv, OneCall
<1>3. CASE ConfirmContribute
  <2>1. /\ Begins("contribute", netModal = "on?") /\ netModal # ModalOff /\ netModal' = ModalOff
        /\ UNCHANGED <<actual, maxima, netPage, cfg, info, hosts, polling, nodeTurns>>
    BY <1>3, Zenon DEF ConfirmContribute, Elsewhere
  <2>2. "contribute" \in Keys /\ (netModal = "on?") \in BOOLEAN
    BY DEF Keys
  <2>3. /\ call' \in [PageCall -> CallType] /\ calls' \in 0..MaxCalls /\ netBusy' = "contribute"
        /\ CallInv' /\ OneCall'
    BY <2>1, <2>2, NoneCalled, BeginsStep
  <2>4. NetworkTypeOK'
    BY <2>1, <2>2, <2>3, Zenon DEF NetworkInv, NetworkTypeOK, CallType
  <2> QED BY <2>3, <2>4 DEF NetworkInv
<1>4. CASE CancelContribute
  <2>1. netModal' = ModalOff
        /\ UNCHANGED <<actual, maxima, netPage, cfg, info, hosts, netBusy, call, polling, calls, nodeTurns>>
    BY <1>4, Zenon DEF CancelContribute, Elsewhere
  <2> QED BY <2>1, Zenon DEF NetworkInv, NetworkTypeOK, CallInv, OneCall
<1>5. ASSUME NEW c \in PageCall, Replied(c) PROVE NetworkInv'
  <2>1. /\ call[c].at = "called" /\ (Does(c) \/ UNCHANGED <<actual, maxima>>)
        /\ netBusy' = Nothing /\ call' = [call EXCEPT ![c].at = "copies"]
        /\ UNCHANGED <<netPage, cfg, info, hosts, polling, netModal, calls, nodeTurns>>
    BY <1>5, Zenon DEF Replied
  <2>2. actual' \in Config /\ maxima' \in [identity : RelayHost \cup {Nothing}, pin : RelayHost \cup {Nothing}]
    BY <2>1, DoesType DEF NetworkInv, NetworkTypeOK
  <2>3. call \in [PageCall -> CallType]
    BY DEF NetworkInv, NetworkTypeOK, CallType
  <2>4. call' \in [PageCall -> CallType]
    BY <2>1, <2>3 DEF CallType
  <2>5. \A d \in PageCall : call'[d].at # "called"
    <3>1. call'[c].at = "copies" /\ \A d \in PageCall : d # c => call'[d] = call[d]
      BY <2>1, <2>3 DEF CallType
    <3>2. \A d \in PageCall : d # c => call[d].at # "called"
      BY <2>1 DEF NetworkInv, OneCall
    <3> QED BY <3>1, <3>2
  <2>6. NetworkTypeOK'
    BY <2>1, <2>2, <2>4, Zenon DEF NetworkInv, NetworkTypeOK, CallType
  <2> QED BY <2>5, <2>6 DEF NetworkInv, CallInv, OneCall
<1>6. ASSUME NEW c \in PageCall, Refreshed(c) PROVE NetworkInv'
  <2>1. /\ call' = [call EXCEPT ![c] = Idle] /\ cfg' = actual
        /\ UNCHANGED <<actual, maxima, netPage, info, hosts, netBusy, polling, netModal, calls, nodeTurns>>
    BY <1>6, Zenon DEF Refreshed, Copies, Elsewhere
  <2>2. call \in [PageCall -> CallType] /\ Idle \in CallType /\ Idle.at = "idle"
    BY DEF NetworkInv, NetworkTypeOK, CallType, Idle
  <2>3. call' \in [PageCall -> CallType] /\ \A d \in PageCall : call'[d].at = "called" => call'[d] = call[d]
    BY <2>1, <2>2
  <2>4. NetworkTypeOK'
    BY <2>1, <2>3, Zenon DEF NetworkInv, NetworkTypeOK, CallType
  <2> QED BY <2>1, <2>3, <2>4 DEF NetworkInv, CallInv, OneCall
<1>7. CASE OpenNetwork \/ CloseNetwork \/ PollMaxima \/ InfoBack \/ HostsBack \/ RelayTurns
  <2>1. UNCHANGED <<netBusy, call, netModal>>
    BY <1>7, Zenon DEF OpenNetwork, CloseNetwork, PollMaxima, InfoBack, HostsBack, RelayTurns
  <2>2. maxima.pin \in RelayHost \cup {Nothing} /\ maxima.identity \in RelayHost \cup {Nothing}
    BY DEF NetworkInv, NetworkTypeOK
  <2>3. NetworkTypeOK'
    <3>1. CASE RelayTurns
      <4>1. nodeTurns' \in 0..MaxNodeTurns
        BY <3>1, NetworkAssumption DEF RelayTurns, NetworkInv, NetworkTypeOK
      <4>2. maxima' \in [identity : RelayHost \cup {Nothing}, pin : RelayHost \cup {Nothing}]
        BY <3>1 DEF RelayTurns, NetworkInv, NetworkTypeOK, Config
      <4> QED BY <3>1, <4>1, <4>2, Zenon DEF RelayTurns, NetworkInv, NetworkTypeOK
    <3>2. CASE OpenNetwork \/ CloseNetwork \/ PollMaxima \/ InfoBack \/ HostsBack
      BY <2>2, <3>2, Zenon DEF OpenNetwork, CloseNetwork, PollMaxima, InfoBack, HostsBack, HostsRead, Elsewhere,
        NetworkInv, NetworkTypeOK
    <3> QED BY <1>7, <3>1, <3>2
  <2> QED BY <2>1, <2>3 DEF NetworkInv, CallInv, OneCall
<1>8. CASE UNCHANGED netVars
  BY <1>8, Zenon DEF netVars, NetworkInv, NetworkTypeOK, CallInv, OneCall
<1> QED BY <1>1, <1>2, <1>3, <1>4, <1>5, <1>6, <1>7, <1>8, Zenon DEF NetworkNext

LEMMA NetworkInvAlways == NetworkSpec => []NetworkInv
  BY NetworkInvInit, NetworkInvStep, PTL DEF NetworkSpec

-----------------------------------------------------------------------------
(* Provisioning.                                                            *)

DappType == [v : 0..TopVersion, write : BOOLEAN]
RunType == [pc : ProvStep, gen : 0..MaxRestarts, uid : Copy \cup {NoCopy}, seen : DappType, late : BOOLEAN]

LEMMA Numbers ==
  /\ TopVersion \in Nat /\ Bundle \in 1..TopVersion /\ CatalogVersion \in 0..TopVersion
  /\ PROVISION_MAX_TRIES \in Nat /\ MaxRestarts \in Nat /\ MaxUserSteps \in Nat /\ MaxRpcFailures \in Nat
  BY ProvisionAssumption DEF TopVersion, Higher

LEMMA NoDappType == NoDapp \in DappType /\ NoDapp.v = 0
<1>1. 0 \in 0..TopVersion
  BY Numbers
<1> QED BY <1>1, Zenon DEF NoDapp, DappType

LEMMA ProvTypes ==
  ASSUME ProvisionTypeOK
  PROVE  /\ dapps \in [Copy -> DappType] /\ prov \in [ProvRun -> RunType]
         /\ healthGen \in 0..MaxRestarts /\ provisionTries \in 0..PROVISION_MAX_TRIES
         /\ rpcFailures \in 0..MaxRpcFailures /\ userSteps \in 0..MaxUserSteps /\ spoiled \subseteq 0..MaxRestarts
         /\ shipped \in Shipment
  BY Zenon DEF ProvisionTypeOK, DappType, RunType

LEMMA OffRunType == OffRun \in RunType /\ OffRun.pc = "off"
<1>1. 0 \in 0..MaxRestarts /\ NoDapp \in DappType /\ "off" \in ProvStep
  BY Numbers, NoDappType DEF ProvStep
<1> QED BY <1>1, Zenon DEF OffRun, RunType

LEMMA ProvisionInvInit == ProvisionInit => ProvisionInv
<1> SUFFICES ASSUME ProvisionInit PROVE ProvisionInv
  OBVIOUS
<1>0. /\ prov = [r \in ProvRun |-> OffRun] /\ spoiled = {} /\ userSteps = 0 /\ rpcFailures = 0 /\ healthGen = 0
      /\ provisionTries = 0 /\ mds = FALSE /\ provisionDone = FALSE /\ provisionBusy = FALSE
  BY Zenon DEF ProvisionInit
<1>1. /\ dapps \in [Copy -> DappType]
      /\ \A c, d \in Copy : dapps[c].v > 0 /\ dapps[d].v > 0 => c = d
  <2>1. CASE dapps = [c \in Copy |-> NoDapp]
    <3>1. \A c \in Copy : dapps[c].v = 0
      BY <2>1, NoDappType
    <3> QED BY <2>1, <3>1, NoDappType
  <2>2. CASE \E x \in Copy, n \in 1..TopVersion, w \in BOOLEAN :
               dapps = [[c \in Copy |-> NoDapp] EXCEPT ![x] = [v |-> n, write |-> w]]
    <3>1. PICK x \in Copy, n \in 1..TopVersion, w \in BOOLEAN :
               dapps = [[c \in Copy |-> NoDapp] EXCEPT ![x] = [v |-> n, write |-> w]]
      BY <2>2
    <3>2. [v |-> n, write |-> w] \in DappType
      BY Numbers DEF DappType
    <3>3. \A c \in Copy : c # x => dapps[c].v = 0
      BY <3>1, NoDappType
    <3> QED BY <3>1, <3>2, <3>3, NoDappType
  <2>3. dapps \in {[c \in Copy |-> NoDapp]}
          \cup {[[c \in Copy |-> NoDapp] EXCEPT ![x] = [v |-> n, write |-> w]] :
                 x \in Copy, n \in 1..TopVersion, w \in BOOLEAN}
    BY DEF ProvisionInit
  <2> QED BY <2>1, <2>2, <2>3
<1>2. ProvisionTypeOK
  <2>1. healthGen \in 0..MaxRestarts /\ provisionTries \in 0..PROVISION_MAX_TRIES
        /\ rpcFailures \in 0..MaxRpcFailures /\ userSteps \in 0..MaxUserSteps
    BY <1>0, Numbers
  <2>2. prov \in [ProvRun -> RunType]
    BY <1>0, OffRunType
  <2>3. shipped \in Shipment
    BY DEF ProvisionInit
  <2> QED BY <1>0, <1>1, <2>1, <2>2, <2>3, Zenon DEF ProvisionTypeOK, DappType, RunType
<1>3. \A r \in ProvRun : prov[r].pc = "off"
  BY <1>0, OffRunType
<1>4. RunInv /\ CopyInv /\ SeenInv
  BY <1>1, <1>3 DEF RunInv, CopyInv, SeenInv, Active
<1>5. DoneMeansInstalled
  BY <1>0, Zenon DEF DoneMeansInstalled
<1> QED BY <1>2, <1>4, <1>5 DEF ProvisionInv

\* A step of the poll or of the node: no copy changes.
LEMMA PollStep == ASSUME ProvisionInv, PollProvisions PROVE ProvisionInv'
<1>1. /\ ~provisionDone /\ ~provisionBusy
      /\ UNCHANGED <<dapps, mds, healthGen, shipped, userSteps, rpcFailures>>
  BY Zenon DEF PollProvisions
<1>2. \A r \in ProvRun : ~Active(r)
  BY <1>1, Zenon DEF ProvisionInv, RunInv
<1>3. CASE provisionTries >= PROVISION_MAX_TRIES
  <2>1. /\ provisionDone' = TRUE /\ spoiled' = spoiled \cup {healthGen}
        /\ UNCHANGED <<provisionBusy, provisionTries, prov>>
    BY <1>3, Zenon DEF PollProvisions
  <2>2. ProvisionTypeOK'
    BY <1>1, <2>1, Zenon DEF ProvisionInv, ProvisionTypeOK
  <2>3. RunInv' /\ SeenInv' /\ DoneMeansInstalled'
    BY <1>1, <1>2, <2>1 DEF ProvisionInv, RunInv, SeenInv, DoneMeansInstalled, Active
  <2>4. CopyInv'
    BY <1>1, <2>1, Zenon DEF ProvisionInv, CopyInv
  <2> QED BY <2>2, <2>3, <2>4 DEF ProvisionInv
<1>4. CASE ~(provisionTries >= PROVISION_MAX_TRIES)
  <2>1. PICK x \in ProvRun :
          /\ prov' = [prov EXCEPT ![x] = [OffRun EXCEPT !.pc = FirstPlace, !.gen = healthGen]]
          /\ provisionBusy' = TRUE /\ provisionTries' = provisionTries + 1
          /\ UNCHANGED <<provisionDone, spoiled>>
    BY <1>4, Zenon DEF PollProvisions
  <2> DEFINE new == [OffRun EXCEPT !.pc = FirstPlace, !.gen = healthGen]
  <2>2. /\ new \in RunType /\ new.pc \in {"list", "ready"} /\ new.gen = healthGen
        /\ (shipped = "all" => new.pc = "list")
    BY OffRunType, ProvTypes DEF ProvisionInv, RunType, ProvStep, FirstPlace
  <2> HIDE DEF new
  <2>3. prov' = [prov EXCEPT ![x] = new]
    BY <2>1 DEF new
  <2>4. /\ prov' \in [ProvRun -> RunType] /\ prov'[x] = new /\ \A r \in ProvRun : r # x => prov'[r] = prov[r]
    BY <2>2, <2>3, ProvTypes DEF ProvisionInv
  <2>5. provisionTries' \in 0..PROVISION_MAX_TRIES
    BY <1>4, <2>1, ProvTypes, Numbers DEF ProvisionInv
  <2>6. ProvisionTypeOK'
    BY <1>1, <2>1, <2>4, <2>5, Zenon DEF ProvisionInv, ProvisionTypeOK, DappType, RunType
  <2>7. \A r \in ProvRun : Active(r)' => r = x
    BY <1>2, <2>4 DEF Active
  <2>8. RunInv'
    <3>1. healthGen <= healthGen
      BY ProvTypes, Numbers DEF ProvisionInv
    <3>2. \A r \in ProvRun : prov'[r].pc \in {"update", "write", "catalog", "fetch"} => r # x
      BY <2>2, <2>4
    <3> QED BY <1>1, <2>1, <2>2, <2>4, <2>7, <3>1, <3>2, Zenon DEF ProvisionInv, RunInv
  <2>9. CopyInv' /\ SeenInv'
    <3>1. \A r \in ProvRun : /\ prov'[r].pc \in {"off", "list", "ready"}
                             /\ (shipped = "all" => prov'[r].pc # "ready")
      BY <1>2, <2>2, <2>4 DEF Active
    <3> QED BY <1>1, <3>1 DEF ProvisionInv, CopyInv, SeenInv, Seen
  <2> QED BY <1>1, <2>1, <2>6, <2>8, <2>9, Zenon DEF ProvisionInv, DoneMeansInstalled
<1> QED BY <1>3, <1>4

\* A step of a run r that goes on as n, and of the copies.
LEMMA RunMoves ==
  ASSUME ProvisionInv, NEW r \in ProvRun, Active(r), NEW n \in RunType,
         prov' = [prov EXCEPT ![r] = n], n.gen = prov[r].gen, n.pc # "off",
         n.pc \in {"update", "write", "catalog", "fetch"} => n.uid \in Copy,
         n.pc = "install" => \A c \in Copy : dapps'[c].v = 0,
         UNCHANGED <<mds, healthGen, provisionDone, provisionBusy, provisionTries, shipped, userSteps>>,
         spoiled' = spoiled \/ spoiled' = spoiled \cup {prov[r].gen},
         rpcFailures' \in 0..MaxRpcFailures, dapps' \in [Copy -> DappType],
         \A c, d \in Copy : dapps'[c].v > 0 /\ dapps'[d].v > 0 => c = d,
         prov[r].gen = healthGen /\ healthGen \notin spoiled' /\ shipped = "all" => Seen(n.pc, n.uid, n.seen, dapps')
  PROVE  ProvisionInv'
<1>1. /\ prov' \in [ProvRun -> RunType] /\ prov'[r] = n /\ \A s \in ProvRun : s # r => prov'[s] = prov[s]
  BY ProvTypes DEF ProvisionInv
<1>2. \A s \in ProvRun : s # r => prov[s].pc = "off" /\ prov'[s].pc = "off"
  BY <1>1 DEF ProvisionInv, RunInv, Active
<1>3. provisionBusy /\ ~provisionDone /\ prov[r].gen <= healthGen /\ prov[r].gen \in 0..MaxRestarts
  <2>1. provisionBusy /\ ~provisionDone /\ prov[r].gen <= healthGen
    BY Zenon DEF ProvisionInv, RunInv
  <2>2. prov[r].gen \in 0..MaxRestarts
    BY ProvTypes DEF ProvisionInv, RunType
  <2> QED BY <2>1, <2>2, Zenon
<1>4. ProvisionTypeOK'
  <2>1. spoiled' \subseteq 0..MaxRestarts
    BY <1>3, ProvTypes DEF ProvisionInv
  <2> QED BY <1>1, <2>1, Zenon DEF ProvisionInv, ProvisionTypeOK, DappType, RunType
<1>5. RunInv'
  <2>1. \A s \in ProvRun : prov'[s].pc # "off" => s = r
    BY <1>2, Zenon
  <2>2. \A s \in ProvRun : prov'[s].pc \in {"update", "write", "catalog", "fetch"} => prov'[s].uid \in Copy
    BY <1>1, <1>2
  <2>3. /\ \A s \in ProvRun : prov'[s].pc # "off" => provisionBusy' /\ ~provisionDone' /\ prov'[s].gen <= healthGen'
        /\ \A s, t \in ProvRun : prov'[s].pc # "off" /\ prov'[t].pc # "off" => s = t
    BY <1>1, <1>3, <2>1, Zenon
  <2> QED BY <2>2, <2>3, Zenon DEF RunInv, Active
<1>6. CopyInv'
  BY <1>1, <1>2 DEF CopyInv
<1>7. SeenInv'
  BY <1>1, <1>2, Zenon DEF SeenInv, Active
<1>8. DoneMeansInstalled'
  BY <1>3, Zenon DEF DoneMeansInstalled
<1> QED BY <1>4, <1>5, <1>6, <1>7, <1>8 DEF ProvisionInv

LEMMA RunGoes ==
  ASSUME ProvisionInv, NEW r \in ProvRun, Active(r),
         NEW at \in ProvStep \ {"off"}, NEW uid \in Copy \cup {NoCopy}, NEW seen \in DappType,
         Goes(r, at, uid, seen),
         at \in {"update", "write", "catalog", "fetch"} => uid \in Copy,
         at = "install" => \A c \in Copy : dapps'[c].v = 0,
         UNCHANGED <<mds, healthGen, provisionDone, provisionBusy, provisionTries, shipped, userSteps>>,
         spoiled' = spoiled \/ spoiled' = spoiled \cup {prov[r].gen},
         rpcFailures' \in 0..MaxRpcFailures, dapps' \in [Copy -> DappType],
         \A c, d \in Copy : dapps'[c].v > 0 /\ dapps'[d].v > 0 => c = d,
         prov[r].gen = healthGen /\ healthGen \notin spoiled' /\ shipped = "all" => Seen(at, uid, seen, dapps')
  PROVE  ProvisionInv'
<1> DEFINE n == [prov[r] EXCEPT !.pc = at, !.uid = uid, !.seen = seen]
<1>1. prov \in [ProvRun -> RunType]
  BY ProvTypes DEF ProvisionInv
<1>2. n \in RunType /\ n.pc = at /\ n.uid = uid /\ n.seen = seen /\ n.gen = prov[r].gen
  BY <1>1 DEF RunType
<1>3. prov' = [prov EXCEPT ![r] = n]
  BY <1>1 DEF Goes, RunType
<1> HIDE DEF n
<1> QED BY <1>2, <1>3, RunMoves

LEMMA FailsType ==
  ASSUME ProvisionInv, NEW r \in ProvRun, FailsRpc(r)
  PROVE  rpcFailures' \in 0..MaxRpcFailures /\ spoiled' = spoiled \cup {prov[r].gen}
<1>1. /\ UNCHANGED rpcFailures \/ (rpcFailures < MaxRpcFailures /\ rpcFailures' = rpcFailures + 1)
      /\ spoiled' = spoiled \cup {prov[r].gen}
  BY Zenon DEF FailsRpc
<1> QED BY <1>1, ProvTypes, Numbers DEF ProvisionInv

\* What a run has at hand, in a step of its own.
LEMMA RunFacts ==
  ASSUME ProvisionInv, NEW r \in ProvRun, Active(r)
  PROVE  /\ prov[r].uid \in Copy \cup {NoCopy} /\ prov[r].seen \in DappType /\ prov[r].gen \in 0..MaxRestarts
         /\ rpcFailures \in 0..MaxRpcFailures /\ dapps \in [Copy -> DappType]
         /\ \A c, d \in Copy : dapps[c].v > 0 /\ dapps[d].v > 0 => c = d
         /\ prov[r].pc \in {"update", "write", "catalog", "fetch"} => prov[r].uid \in Copy
         /\ prov[r].gen = healthGen /\ healthGen \notin spoiled /\ shipped = "all" =>
              Seen(prov[r].pc, prov[r].uid, prov[r].seen, dapps)
<1>1. prov[r] \in RunType
  BY ProvTypes DEF ProvisionInv
<1> QED BY <1>1, ProvTypes DEF ProvisionInv, RunType, CopyInv, RunInv, SeenInv

LEMMA ListStep == ASSUME ProvisionInv, NEW r \in ProvRun, listInstalled(r) PROVE ProvisionInv'
<1> DEFINE here == {c \in Copy : dapps[c].v > 0}
           newest == {c \in here : \A d \in here : dapps[c].v >= dapps[d].v}
<1>1. /\ prov[r].pc = "list" /\ Active(r)
      /\ UNCHANGED <<dapps, mds, healthGen, provisionDone, provisionBusy, provisionTries, shipped, userSteps>>
  BY Zenon DEF listInstalled, pollVars, Active
<1>2. UNCHANGED dapps
  BY <1>1
<1>3. ASSUME RpcWorks, NEW best \in (IF here = {} THEN {NoCopy} ELSE newest),
             Goes(r, FirstStepFor(best), best, IF best = NoCopy THEN NoDapp ELSE dapps[best])
      PROVE  ProvisionInv'
  <2>1. UNCHANGED <<spoiled, rpcFailures>>
    BY <1>3, Zenon DEF RpcWorks
  <2>2. CASE here = {}
    <3> DEFINE at == FirstStepFor(NoCopy)
    <3>1. /\ best = NoCopy /\ Goes(r, at, NoCopy, NoDapp)
      BY <1>3, <2>2, Zenon
    <3>0. at \in {"install", "ready"} /\ (shipped = "all" => at = "install")
      BY DEF FirstStepFor
    <3> HIDE DEF at
    <3>2. \A c \in Copy : dapps[c].v = 0
      <4>1. \A c \in Copy : ~(dapps[c].v > 0)
        BY <2>2
      <4> QED BY <1>1, <4>1, RunFacts, Numbers DEF DappType
    <3>3. shipped = "all" => Seen(at, NoCopy, NoDapp, dapps)
      BY <3>0 DEF Seen
    <3>4. NoDapp \in DappType /\ at \in ProvStep \ {"off"} /\ at \notin {"update", "write", "catalog", "fetch"}
      BY <3>0, NoDappType DEF ProvStep
    <3> HIDE DEF here, newest
    <3> QED BY <1>1, <1>2, <2>1, <3>1, <3>2, <3>3, <3>4, RunFacts, RunGoes
  <2>3. CASE here # {}
    <3>1. best \in Copy /\ dapps[best].v > 0 /\ best # NoCopy
      BY <1>3, <2>3, ProvisionAssumption
    <3>2. Goes(r, FirstStepFor(best), best, dapps[best]) /\ FirstStepFor(best) \in {"catalog", "update", "write"}
          /\ (shipped = "all" => FirstStepFor(best) # "catalog")
      BY <1>3, <3>1 DEF FirstStepFor
    <3>3. FirstStepFor(best) = "write" => dapps[best].v >= Bundle
      BY <1>1, <3>1, RunFacts, Numbers DEF FirstStepFor, DappType
    <3>4. shipped = "all" => Seen(FirstStepFor(best), best, dapps[best], dapps)
      BY <3>1, <3>2, <3>3 DEF Seen
    <3>5. dapps[best] \in DappType /\ FirstStepFor(best) \in ProvStep \ {"off"} /\ FirstStepFor(best) # "install"
      BY <1>1, <3>1, <3>2, RunFacts DEF ProvStep
    <3> HIDE DEF here, newest
    <3> QED BY <1>1, <1>2, <2>1, <3>1, <3>2, <3>4, <3>5, RunFacts, RunGoes
  <2> QED BY <2>2, <2>3
<1>4. ASSUME rpcFailures' = (IF mds THEN rpcFailures + 1 ELSE rpcFailures), ~mds \/ rpcFailures < MaxRpcFailures,
             UNCHANGED spoiled, Goes(r, Unlisted, NoCopy, NoDapp)
      PROVE  ProvisionInv'
  <2>1. rpcFailures' \in 0..MaxRpcFailures
    <3>1. UNCHANGED rpcFailures \/ (rpcFailures < MaxRpcFailures /\ rpcFailures' = rpcFailures + 1)
      BY <1>4, Zenon
    <3> QED BY <1>1, <3>1, RunFacts, Numbers
  <2>2. Seen(Unlisted, NoCopy, NoDapp, dapps) /\ Unlisted \in ProvStep \ {"off"} /\ NoDapp \in DappType
        /\ Unlisted \notin {"update", "write", "catalog", "fetch", "install"}
    BY NoDappType DEF Seen, Unlisted, ProvStep
  <2> QED BY <1>1, <1>2, <1>4, <2>1, <2>2, RunFacts, RunGoes
<1>5. ASSUME FailsRpc(r), Goes(r, "threw", NoCopy, NoDapp) PROVE ProvisionInv'
  <2>1. rpcFailures' \in 0..MaxRpcFailures /\ spoiled' = spoiled \cup {prov[r].gen}
    BY <1>5, FailsType
  <2>2. "threw" \in ProvStep \ {"off"} /\ NoDapp \in DappType
    BY NoDappType DEF ProvStep
  <2> HIDE DEF here, newest
  <2> QED BY <1>1, <1>2, <1>5, <2>1, <2>2, RunFacts, RunGoes
<1> QED BY <1>3, <1>4, <1>5, Zenon DEF listInstalled

LEMMA InstallStep == ASSUME ProvisionInv, NEW r \in ProvRun, installOrUpdateNew(r) PROVE ProvisionInv'
<1>1. /\ prov[r].pc = "install" /\ Active(r)
      /\ UNCHANGED <<mds, healthGen, provisionDone, provisionBusy, provisionTries, shipped, userSteps>>
  BY Zenon DEF installOrUpdateNew, pollVars, Active
<1> DEFINE new == [v |-> Bundle, write |-> TRUE]
<1>2. new \in DappType /\ new.v = Bundle /\ new.write /\ new.v > 0 /\ new.v >= Bundle
  BY Numbers DEF DappType
<1> HIDE DEF new
<1>3. \A c \in Copy : dapps[c].v = 0
  BY <1>1, Zenon DEF ProvisionInv, CopyInv
<1>4. ASSUME NEW c \in Copy, Installs(c)
      PROVE  /\ dapps' \in [Copy -> DappType] /\ dapps'[c] = new
             /\ \A x, y \in Copy : dapps'[x].v > 0 /\ dapps'[y].v > 0 => x = y
  <2>1. dapps' = [dapps EXCEPT ![c] = new]
    BY <1>4, Zenon DEF Installs, new
  <2> QED BY <1>1, <1>2, <1>3, <2>1, RunFacts
<1>5. ASSUME RpcWorks, NEW c \in Copy, Installs(c), Goes(r, "write", c, new) PROVE ProvisionInv'
  <2>1. UNCHANGED <<spoiled, rpcFailures>>
    BY <1>5, Zenon DEF RpcWorks
  <2>2. Seen("write", c, new, dapps') /\ "write" \in ProvStep \ {"off"}
    BY <1>2, <1>4, <1>5 DEF Seen, ProvStep
  <2> QED BY <1>1, <1>2, <1>4, <1>5, <2>1, <2>2, RunFacts, RunGoes
<1>6. ASSUME FailsRpc(r), Goes(r, "ready", NoCopy, NoDapp), Same \/ \E c \in Copy : Installs(c)
      PROVE  ProvisionInv'
  <2>1. /\ dapps' \in [Copy -> DappType]
        /\ \A x, y \in Copy : dapps'[x].v > 0 /\ dapps'[y].v > 0 => x = y
    BY <1>1, <1>4, <1>6, RunFacts DEF Same
  <2>2. rpcFailures' \in 0..MaxRpcFailures /\ spoiled' = spoiled \cup {prov[r].gen}
    BY <1>6, FailsType
  <2>3. "ready" \in ProvStep \ {"off"}
    BY DEF ProvStep
  <2> QED BY <1>1, <1>6, <2>1, <2>2, <2>3, NoDappType, RunGoes
<1> QED BY <1>5, <1>6, Zenon DEF installOrUpdateNew, new

\* The zip of the bundle, or of the catalog, in place of the copy.
LEMMA UpdateToStep ==
  ASSUME ProvisionInv, NEW r \in ProvRun, NEW v \in 0..TopVersion, UpdateTo(r, v),
         prov[r].pc \in {"update", "fetch"},
         prov[r].gen = healthGen /\ healthGen \notin spoiled /\ shipped = "all" => v >= Bundle,
         UNCHANGED <<mds, healthGen, provisionDone, provisionBusy, provisionTries, shipped, userSteps>>
  PROVE  ProvisionInv'
<1> DEFINE uid == prov[r].uid
           seen == prov[r].seen
           next == [seen EXCEPT !.v = v]
<1>1. Active(r) /\ prov[r].pc # "off" /\ "write" \in ProvStep \ {"off"} /\ "ready" \in ProvStep \ {"off"}
  BY DEF Active, ProvStep
<1>2. uid \in Copy /\ seen \in DappType /\ rpcFailures \in 0..MaxRpcFailures /\ dapps \in [Copy -> DappType]
      /\ \A c, d \in Copy : dapps[c].v > 0 /\ dapps[d].v > 0 => c = d
  BY <1>1, RunFacts
<1>3. next \in DappType /\ next.v = v /\ next.write = seen.write
  BY <1>2, Numbers DEF DappType
<1>4. ASSUME dapps[uid].v > 0, Updated(uid, v)
      PROVE  /\ dapps' \in [Copy -> DappType] /\ (dapps[uid] = seen => dapps'[uid] = next)
             /\ \A x, y \in Copy : dapps'[x].v > 0 /\ dapps'[y].v > 0 => x = y
  <2> DEFINE changed == [dapps[uid] EXCEPT !.v = v]
  <2>1. changed \in DappType /\ (dapps[uid] = seen => changed = next)
    BY <1>2, Numbers DEF DappType
  <2>2. dapps' = [dapps EXCEPT ![uid] = changed]
    BY <1>4 DEF Updated
  <2> HIDE DEF changed, next
  <2>3. /\ dapps' \in [Copy -> DappType] /\ dapps'[uid] = changed
        /\ \A x \in Copy : x # uid => dapps'[x] = dapps[x]
    BY <1>2, <2>1, <2>2
  <2>4. \A x \in Copy : dapps'[x].v > 0 => x = uid
    BY <1>2, <1>4, <2>3
  <2> QED BY <2>1, <2>3, <2>4
<1>5. prov[r].gen = healthGen /\ healthGen \notin spoiled /\ shipped = "all" => dapps[uid] = seen /\ seen.v > 0
  BY <1>1, RunFacts DEF Seen
<1>6. ASSUME RpcWorks, dapps[uid].v > 0, Updated(uid, v), Goes(r, "write", uid, next) PROVE ProvisionInv'
  <2>1. UNCHANGED <<spoiled, rpcFailures>>
    BY <1>6, Zenon DEF RpcWorks
  <2> HIDE DEF uid, seen, next
  <2>2. ASSUME prov[r].gen = healthGen, healthGen \notin spoiled, shipped = "all" PROVE Seen("write", uid, next, dapps')
    <3>1. v > 0
      BY <2>2, Numbers
    <3> QED BY <1>2, <1>3, <1>4, <1>5, <1>6, <2>2, <3>1 DEF Seen
  <2>3. next \in DappType /\ dapps' \in [Copy -> DappType] /\ rpcFailures' \in 0..MaxRpcFailures
        /\ \A x, y \in Copy : dapps'[x].v > 0 /\ dapps'[y].v > 0 => x = y
    BY <1>2, <1>3, <1>4, <1>6, <2>1
  <2>4. Goes(r, "write", uid, next)
    BY <1>6
  <2> QED BY <1>1, <1>2, <2>1, <2>2, <2>3, <2>4, RunGoes
<1>7. ASSUME RpcWorks, dapps[uid].v = 0, Same, Goes(r, "write", uid, seen) PROVE ProvisionInv'
  <2>1. UNCHANGED <<spoiled, rpcFailures>>
    BY <1>7, Zenon DEF RpcWorks
  <2>2. ~(prov[r].gen = healthGen /\ healthGen \notin spoiled /\ shipped = "all")
    BY <1>5, <1>7
  <2>3. UNCHANGED dapps
    BY <1>7 DEF Same
  <2> HIDE DEF uid, seen, next
  <2> QED BY <1>1, <1>2, <1>7, <2>1, <2>2, <2>3, RunGoes
<1>8. ASSUME FailsRpc(r), NEW at \in {"write", "ready"}, Goes(r, at, uid, seen),
             Same \/ (dapps[uid].v > 0 /\ Updated(uid, v))
      PROVE  ProvisionInv'
  <2>1. /\ dapps' \in [Copy -> DappType]
        /\ \A x, y \in Copy : dapps'[x].v > 0 /\ dapps'[y].v > 0 => x = y
    <3>1. CASE Same
      BY <1>2, <3>1 DEF Same
    <3>2. CASE dapps[uid].v > 0 /\ Updated(uid, v)
      BY <1>4, <3>2
    <3> QED BY <1>8, <3>1, <3>2
  <2>2. rpcFailures' \in 0..MaxRpcFailures /\ spoiled' = spoiled \cup {prov[r].gen}
    BY <1>8, FailsType
  <2> HIDE DEF uid, seen, next
  <2> QED BY <1>1, <1>2, <1>8, <2>1, <2>2, RunGoes
<1> QED BY <1>6, <1>7, <1>8, Zenon DEF UpdateTo

LEMMA UpdateSteps ==
  ASSUME ProvisionInv, NEW r \in ProvRun, installOrUpdate(r) \/ catalogUpdate(r) PROVE ProvisionInv'
<1>0. /\ UNCHANGED <<mds, healthGen, provisionDone, provisionBusy, provisionTries, shipped, userSteps>>
      /\ prov[r].pc \in {"update", "fetch"}
  BY Zenon DEF installOrUpdate, catalogUpdate, pollVars
<1>1. CASE installOrUpdate(r)
  <2>1. Bundle \in 1..TopVersion /\ Bundle >= Bundle
    BY Numbers
  <2>2. UpdateTo(r, Bundle)
    BY <1>1, Zenon DEF installOrUpdate
  <2> QED BY <1>0, <2>1, <2>2, UpdateToStep
<1>2. CASE catalogUpdate(r)
  <2>0. /\ prov[r].pc = "fetch" /\ Active(r) /\ "ready" \in ProvStep \ {"off"}
        /\ UpdateTo(r, CatalogVersion)
             \/ (Goes(r, "ready", prov[r].uid, prov[r].seen) /\ Same /\ UNCHANGED <<spoiled, rpcFailures>>)
    BY <1>2, Zenon DEF catalogUpdate, Active, ProvStep
  <2>1. ASSUME UpdateTo(r, CatalogVersion) PROVE ProvisionInv'
    <3>1. ASSUME prov[r].gen = healthGen, healthGen \notin spoiled, shipped = "all" PROVE CatalogVersion >= Bundle
      BY <2>0, <3>1, RunFacts, Numbers DEF Seen, DappType
    <3> QED BY <1>0, <2>1, <3>1, UpdateToStep, Numbers
  <2>2. ASSUME Goes(r, "ready", prov[r].uid, prov[r].seen), Same, UNCHANGED <<spoiled, rpcFailures>>
        PROVE  ProvisionInv'
    <3>1. prov[r].gen = healthGen /\ healthGen \notin spoiled /\ shipped = "all" => Seen("ready", prov[r].uid, prov[r].seen, dapps')
      BY <2>0, <2>2, RunFacts DEF Seen, Same
    <3> QED BY <1>0, <2>0, <2>2, <3>1, RunFacts, RunGoes DEF Same
  <2> QED BY <2>0, <2>1, <2>2
<1> QED BY <1>1, <1>2

LEMMA WriteStep == ASSUME ProvisionInv, NEW r \in ProvRun, ensureWrite(r) PROVE ProvisionInv'
<1> DEFINE uid == prov[r].uid
           seen == prov[r].seen
           next == [seen EXCEPT !.write = TRUE]
<1>0. /\ prov[r].pc = "write" /\ Active(r)
      /\ UNCHANGED <<mds, healthGen, provisionDone, provisionBusy, provisionTries, shipped, userSteps>>
  BY Zenon DEF ensureWrite, pollVars, Active
<1>1. AfterWrite(r) \in {"catalog", "ready"} /\ "catalog" \in ProvStep \ {"off"} /\ "ready" \in ProvStep \ {"off"}
  BY DEF AfterWrite, ProvStep
<1>2. uid \in Copy /\ seen \in DappType /\ rpcFailures \in 0..MaxRpcFailures /\ dapps \in [Copy -> DappType]
      /\ \A c, d \in Copy : dapps[c].v > 0 /\ dapps[d].v > 0 => c = d
  BY <1>0, RunFacts
<1>3. next \in DappType /\ next.v = seen.v /\ next.write
  BY <1>2 DEF DappType
<1>4. prov[r].gen = healthGen /\ healthGen \notin spoiled /\ shipped = "all" => dapps[uid] = seen /\ seen.v > 0 /\ seen.v >= Bundle
  BY <1>0, RunFacts DEF Seen
<1>5. ASSUME seen.write, Goes(r, AfterWrite(r), uid, seen), Same, UNCHANGED <<spoiled, rpcFailures>>
      PROVE  ProvisionInv'
  <2>1. UNCHANGED dapps
    BY <1>5 DEF Same
  <2>2. prov[r].gen = healthGen /\ healthGen \notin spoiled /\ shipped = "all" => Seen(AfterWrite(r), uid, seen, dapps')
    BY <1>1, <1>2, <1>4, <1>5, <2>1 DEF Seen
  <2> HIDE DEF uid, seen, next
  <2> QED BY <1>0, <1>1, <1>2, <1>5, <2>1, <2>2, RunGoes
<1>6. ASSUME RpcWorks, Goes(r, AfterWrite(r), uid, next),
             dapps' = IF dapps[uid].v > 0 THEN [dapps EXCEPT ![uid].write = TRUE] ELSE dapps
      PROVE  ProvisionInv'
  <2>1. UNCHANGED <<spoiled, rpcFailures>>
    BY <1>6, Zenon DEF RpcWorks
  <2>2. /\ dapps' \in [Copy -> DappType]
        /\ (dapps[uid].v > 0 /\ dapps[uid] = seen => dapps'[uid] = next)
        /\ \A x, y \in Copy : dapps'[x].v > 0 /\ dapps'[y].v > 0 => x = y
    <3> DEFINE changed == [dapps[uid] EXCEPT !.write = TRUE]
    <3>1. changed \in DappType /\ changed.v = dapps[uid].v /\ (dapps[uid] = seen => changed = next)
      BY <1>2 DEF DappType
    <3>2. dapps' = IF dapps[uid].v > 0 THEN [dapps EXCEPT ![uid] = changed] ELSE dapps
      BY <1>6
    <3> HIDE DEF changed, next
    <3> QED BY <1>2, <3>1, <3>2
  <2> HIDE DEF uid, seen, next
  <2>3. prov[r].gen = healthGen /\ healthGen \notin spoiled /\ shipped = "all" => Seen(AfterWrite(r), uid, next, dapps')
    BY <1>1, <1>2, <1>3, <1>4, <2>2 DEF Seen
  <2>4. Goes(r, AfterWrite(r), uid, next)
    BY <1>6
  <2> QED BY <1>0, <1>1, <1>2, <1>3, <2>1, <2>2, <2>3, <2>4, RunGoes
<1>7. ASSUME FailsRpc(r), Same, NEW at \in {AfterWrite(r), "ready"}, Goes(r, at, uid, seen)
      PROVE  ProvisionInv'
  <2>1. rpcFailures' \in 0..MaxRpcFailures /\ spoiled' = spoiled \cup {prov[r].gen} /\ UNCHANGED dapps
    BY <1>7, FailsType DEF Same
  <2> HIDE DEF uid, seen, next
  <2> QED BY <1>0, <1>1, <1>2, <1>7, <2>1, RunGoes
<1> QED BY <1>5, <1>6, <1>7, Zenon DEF ensureWrite

LEMMA CatalogStep == ASSUME ProvisionInv, NEW r \in ProvRun, readCatalog(r) PROVE ProvisionInv'
<1>0. /\ prov[r].pc = "catalog" /\ Active(r)
      /\ UNCHANGED <<mds, healthGen, provisionDone, provisionBusy, provisionTries, shipped, userSteps, spoiled,
                     rpcFailures, dapps>>
  BY Zenon DEF readCatalog, pollVars, Active
<1>1. PICK found \in BOOLEAN :
        prov' = [prov EXCEPT ![r].pc = IF found /\ CatalogVersion > prov[r].seen.v THEN "fetch" ELSE "ready",
                             ![r].late = found]
  BY Zenon DEF readCatalog
<1> DEFINE at == IF found /\ CatalogVersion > prov[r].seen.v THEN "fetch" ELSE "ready"
           n == [prov[r] EXCEPT !.pc = at, !.late = found]
<1>2. prov \in [ProvRun -> RunType]
  BY ProvTypes DEF ProvisionInv
<1>3. at \in {"fetch", "ready"} /\ at \in ProvStep /\ (at = "fetch" => CatalogVersion > prov[r].seen.v)
  BY DEF ProvStep
<1> HIDE DEF at
<1>4. n \in RunType /\ n.pc = at /\ n.uid = prov[r].uid /\ n.seen = prov[r].seen /\ n.gen = prov[r].gen
  BY <1>2, <1>3 DEF RunType
<1>5. prov' = [prov EXCEPT ![r] = n]
  BY <1>1, <1>2 DEF RunType, at
<1>6. prov[r].gen = healthGen /\ healthGen \notin spoiled /\ shipped = "all" => Seen(at, prov[r].uid, prov[r].seen, dapps)
  BY <1>0, <1>3, RunFacts DEF Seen
<1> HIDE DEF n
<1>7. /\ prov[r].uid \in Copy /\ rpcFailures \in 0..MaxRpcFailures /\ dapps \in [Copy -> DappType]
      /\ \A c, d \in Copy : dapps[c].v > 0 /\ dapps[d].v > 0 => c = d
  BY <1>0, RunFacts
<1> QED BY <1>0, <1>3, <1>4, <1>5, <1>6, <1>7, RunMoves

\* The run that ends is the only one, and if it is of this node what it promises is so.
LEMMA EndStep == ASSUME ProvisionInv, NEW r \in ProvRun, RunEnds(r) PROVE ProvisionInv'
<1>1. /\ prov[r].pc \in {"ready", "notReady"} /\ Active(r)
      /\ prov' = [prov EXCEPT ![r] = OffRun]
      /\ provisionDone' = (provisionDone \/ (prov[r].pc = "ready" /\ LiveRun(r))) /\ provisionBusy' = FALSE
      /\ UNCHANGED <<dapps, mds, healthGen, provisionTries, shipped, spoiled, userSteps, rpcFailures>>
  BY Zenon DEF RunEnds, RunOver, Active
<1>2. prov' \in [ProvRun -> RunType] /\ \A s \in ProvRun : prov'[s].pc = "off"
  <2>1. prov \in [ProvRun -> RunType]
    BY ProvTypes DEF ProvisionInv
  <2>2. \A s \in ProvRun : s # r => prov[s].pc = "off"
    BY <1>1, Zenon DEF ProvisionInv, RunInv, Active
  <2> QED BY <1>1, <2>1, <2>2, OffRunType
<1>3. ProvisionTypeOK'
  <2>1. provisionDone' \in BOOLEAN /\ provisionBusy' \in BOOLEAN
    BY <1>1, Zenon DEF ProvisionInv, ProvisionTypeOK
  <2> QED BY <1>1, <1>2, <2>1, Zenon DEF ProvisionInv, ProvisionTypeOK, DappType, RunType
<1>4. RunInv' /\ SeenInv'
  BY <1>2 DEF RunInv, SeenInv, Active
<1>5. CopyInv'
  BY <1>1, <1>2, Zenon DEF ProvisionInv, CopyInv
<1>6. DoneMeansInstalled'
  <2>1. ~provisionDone
    BY <1>1, Zenon DEF ProvisionInv, RunInv
  <2>2. ASSUME prov[r].pc = "ready", LiveRun(r), healthGen \notin spoiled, shipped = "all"
        PROVE  \E c \in Copy : dapps[c].v >= Bundle /\ dapps[c].write
    BY <1>1, <2>2, RunFacts DEF LiveRun, Seen
  <2> QED BY <1>1, <2>1, <2>2, Zenon DEF DoneMeansInstalled
<1> QED BY <1>3, <1>4, <1>5, <1>6 DEF ProvisionInv

\* The run that threw was the only one, and whoever is told that all is done knows that it was not.
LEMMA ThrewStep == ASSUME ProvisionInv, NEW r \in ProvRun, RunThrew(r) PROVE ProvisionInv'
<1>1. /\ prov[r].pc = "threw" /\ Active(r) /\ prov' = [prov EXCEPT ![r] = OffRun]
      /\ provisionDone' = TRUE /\ provisionBusy' = FALSE /\ spoiled' = spoiled \cup {healthGen}
      /\ UNCHANGED <<dapps, mds, healthGen, provisionTries, shipped, userSteps, rpcFailures>>
  BY Zenon DEF RunThrew, RunOver, Active
<1>2. prov' \in [ProvRun -> RunType] /\ \A s \in ProvRun : prov'[s].pc = "off"
  <2>1. prov \in [ProvRun -> RunType]
    BY ProvTypes DEF ProvisionInv
  <2>2. \A s \in ProvRun : s # r => prov[s].pc = "off"
    BY <1>1, Zenon DEF ProvisionInv, RunInv, Active
  <2> QED BY <1>1, <2>1, <2>2, OffRunType
<1>3. ProvisionTypeOK'
  <2>1. spoiled' \subseteq 0..MaxRestarts
    BY <1>1, ProvTypes DEF ProvisionInv
  <2> QED BY <1>1, <1>2, <2>1, Zenon DEF ProvisionInv, ProvisionTypeOK, DappType, RunType
<1>4. RunInv' /\ SeenInv'
  BY <1>2 DEF RunInv, SeenInv, Active
<1>5. CopyInv'
  BY <1>1, <1>2, Zenon DEF ProvisionInv, CopyInv
<1>6. DoneMeansInstalled'
  BY <1>1, Zenon DEF DoneMeansInstalled
<1> QED BY <1>3, <1>4, <1>5, <1>6 DEF ProvisionInv

\* The node restarts, and no run on its way is one of the new node.
LEMMA RestartStep == ASSUME ProvisionInv, NodeRestarts PROVE ProvisionInv'
<1>1. /\ healthGen < MaxRestarts /\ healthGen' = healthGen + 1 /\ mds' = FALSE
      /\ provisionDone' = FALSE /\ provisionTries' = 0 /\ UNCHANGED provisionBusy
      /\ UNCHANGED <<dapps, prov, shipped, spoiled, userSteps, rpcFailures>>
  BY Zenon DEF NodeRestarts, ForgetsRun
<1>2. healthGen' \in 0..MaxRestarts /\ provisionTries' \in 0..PROVISION_MAX_TRIES
  <2>1. healthGen < MaxRestarts /\ healthGen' = healthGen + 1 /\ provisionTries' = 0
    BY <1>1, Zenon
  <2> QED BY <2>1, ProvTypes, Numbers DEF ProvisionInv
<1>3. ProvisionTypeOK'
  BY <1>1, <1>2, Zenon DEF ProvisionInv, ProvisionTypeOK
<1>4. ASSUME NEW r \in ProvRun, Active(r) PROVE prov[r].gen <= healthGen' /\ prov[r].gen # healthGen'
  <2>1. prov[r].gen <= healthGen /\ healthGen' = healthGen + 1
    BY <1>1, <1>4, Zenon DEF ProvisionInv, RunInv
  <2>2. prov[r].gen \in Nat /\ healthGen \in Nat
    BY ProvTypes, Numbers DEF ProvisionInv, RunType
  <2> QED BY <2>1, <2>2
<1>5. RunInv'
  <2>1. /\ \A r \in ProvRun : Active(r) => provisionBusy
        /\ \A r, s \in ProvRun : Active(r) /\ Active(s) => r = s
        /\ \A r \in ProvRun : prov[r].pc \in {"update", "write", "catalog", "fetch"} => prov[r].uid \in Copy
    BY Zenon DEF ProvisionInv, RunInv
  <2> QED BY <1>1, <1>4, <2>1, Zenon DEF RunInv, Active
<1>6. CopyInv'
  BY <1>1, Zenon DEF ProvisionInv, CopyInv
<1>7. SeenInv' /\ DoneMeansInstalled'
  BY <1>1, <1>4, Zenon DEF SeenInv, DoneMeansInstalled, Active
<1> QED BY <1>3, <1>5, <1>6, <1>7 DEF ProvisionInv

LEMMA MdsStep == ASSUME ProvisionInv, MdsComesUp PROVE ProvisionInv'
<1>1. mds' = TRUE /\ UNCHANGED <<dapps, healthGen, provisionDone, provisionBusy, provisionTries, prov, shipped, spoiled,
                                userSteps, rpcFailures>>
  BY Zenon DEF MdsComesUp
<1> QED BY <1>1, Zenon DEF ProvisionInv, ProvisionTypeOK, RunInv, CopyInv, SeenInv, DoneMeansInstalled, Active

\* The user changes a copy that is installed.
LEMMA UserStepInv == ASSUME ProvisionInv, UserStep PROVE ProvisionInv'
<1>1. /\ userSteps < MaxUserSteps /\ userSteps' = userSteps + 1
      /\ spoiled' = spoiled \cup {healthGen}
      /\ UNCHANGED <<mds, healthGen, provisionDone, provisionBusy, provisionTries, shipped, prov, rpcFailures>>
  BY Zenon DEF UserStep, pollVars
<1>2. PICK c \in Copy : dapps[c].v > 0 /\ dapps' \in {[dapps EXCEPT ![c] = NoDapp], [dapps EXCEPT ![c].v = TopVersion]}
  BY Zenon DEF UserStep
<1>3. dapps \in [Copy -> DappType]
  BY ProvTypes DEF ProvisionInv
<1>4. PICK n \in DappType : dapps' = [dapps EXCEPT ![c] = n]
  <2>1. [dapps[c] EXCEPT !.v = TopVersion] \in DappType /\ NoDapp \in DappType
    BY <1>3, Numbers, NoDappType DEF DappType
  <2>2. CASE dapps' = [dapps EXCEPT ![c] = NoDapp]
    BY <2>1, <2>2
  <2>3. CASE dapps' = [dapps EXCEPT ![c].v = TopVersion]
    BY <2>1, <2>3
  <2> QED BY <1>2, <2>2, <2>3
<1>5. dapps' \in [Copy -> DappType] /\ \A x \in Copy : x # c => dapps'[x] = dapps[x]
  BY <1>3, <1>4
<1>6. ProvisionTypeOK'
  <2>1. userSteps' \in 0..MaxUserSteps
    <3>1. userSteps < MaxUserSteps /\ userSteps' = userSteps + 1
      BY <1>1, Zenon
    <3> QED BY <3>1, ProvTypes, Numbers DEF ProvisionInv
  <2>2. spoiled' \subseteq 0..MaxRestarts
    BY <1>1, ProvTypes DEF ProvisionInv
  <2> QED BY <1>1, <1>5, <2>1, <2>2, Zenon DEF ProvisionInv, ProvisionTypeOK, DappType, RunType
<1>7. RunInv'
  BY <1>1, Zenon DEF ProvisionInv, RunInv, Active
<1>8. CopyInv'
  <2>1. \A r \in ProvRun : prov[r].pc # "install"
    BY <1>2, <1>3, Numbers DEF ProvisionInv, CopyInv, DappType
  <2>2. \A x \in Copy : x # c => ~(dapps'[x].v > 0)
    BY <1>2, <1>5 DEF ProvisionInv, CopyInv
  <2> QED BY <1>1, <2>1, <2>2, Zenon DEF CopyInv
<1>9. SeenInv' /\ DoneMeansInstalled'
  BY <1>1 DEF SeenInv, DoneMeansInstalled
<1> QED BY <1>6, <1>7, <1>8, <1>9 DEF ProvisionInv

LEMMA ProvisionInvStep == ProvisionInv /\ [ProvisionNext]_provisionVars => ProvisionInv'
<1> SUFFICES ASSUME ProvisionInv, [ProvisionNext]_provisionVars PROVE ProvisionInv'
  OBVIOUS
<1>1. CASE UNCHANGED provisionVars
  BY <1>1, Zenon DEF provisionVars, ProvisionInv, ProvisionTypeOK, RunInv, CopyInv, SeenInv,
    DoneMeansInstalled, Active
<1>2. ASSUME NEW r \in ProvRun,
             \/ RunEnds(r) \/ RunThrew(r) \/ listInstalled(r) \/ installOrUpdateNew(r) \/ installOrUpdate(r)
             \/ ensureWrite(r) \/ readCatalog(r) \/ catalogUpdate(r)
      PROVE  ProvisionInv'
  BY <1>2, EndStep, ThrewStep, ListStep, InstallStep, UpdateSteps, WriteStep, CatalogStep, Zenon
<1> QED BY <1>1, <1>2, PollStep, RestartStep, MdsStep, UserStepInv, Zenon DEF ProvisionNext

LEMMA ProvisionInvAlways == ProvisionSpec => []ProvisionInv
  BY ProvisionInvInit, ProvisionInvStep, PTL DEF ProvisionSpec

\* provision.js:91-93, over restarts of the node, RPCs that fail although they took effect and changes by
\* the user: the dapp is never there twice. And where the app was shipped with its zips and manifest, a
\* node none of whose own RPCs failed, whose dapps the user left alone and of which no run threw or was
\* given up, is said to have its dapps in place only when it has them.
THEOREM SettingsProvisioned == SettingsSpec => []Provisioned
<1>1. ProvisionInv => Provisioned
  <2> SUFFICES ASSUME ProvisionInv PROVE Provisioned
    OBVIOUS
  <2>1. OneCopy
    <3> DEFINE installed == {c \in Copy : dapps[c].v > 0}
    <3>1. CASE installed = {}
      <4>1. Cardinality(installed) = 0
        BY <3>1, FS_EmptySet
      <4> QED BY <4>1 DEF OneCopy
    <3>2. CASE installed # {}
      <4>1. PICK c \in installed : TRUE
        BY <3>2
      <4>2. installed = {c}
        BY <4>1 DEF ProvisionInv, CopyInv
      <4>3. Cardinality(installed) = 1
        BY <4>2, FS_Singleton
      <4> QED BY <4>3 DEF OneCopy
    <3> QED BY <3>1, <3>2
  <2> QED BY <2>1 DEF ProvisionInv, Provisioned
<1> QED BY <1>1, PartSpecs, ProvisionInvAlways, PTL

-----------------------------------------------------------------------------
(* The Parlons account and its panel.                                       *)

Ticket == {"none", "fresh", "used"}
Session == {"none", "valid", "stale"}
CallStep == {"idle", "sign in", "post", "sign in again", "post again", "ok", "failed"}

\* The types of the calls of the API, and of the tab; and how often the link is asked for.
ApiTypes ==
  /\ ticketFile \in Ticket /\ held \in [Holder -> Ticket] /\ cookie \in Session
  /\ apiPc \in [PanelCall -> CallStep] /\ sentCookie \in [PanelCall -> Session]
  /\ disturbed \in [PanelCall -> BOOLEAN] /\ serving \in BOOLEAN
ViewTypes ==
  /\ checked \in {"unknown", "ready", "not ready", "failed"} /\ checkDue \in BOOLEAN
  /\ loadedFor \in 0..MaxAccountStarts /\ guest \in {"none", "loading", "panel", "refused"}
  /\ getting \in {"no", "asked", "retry"} /\ linkTries \in 0..MaxLinkTries + 1
  /\ linkError \in BOOLEAN /\ (getting # "no" => linkTries <= MaxLinkTries)
OtherTypes ==
  /\ accountStarts \in 0..MaxAccountStarts /\ accountNode \in BOOLEAN /\ logged \in BOOLEAN
  /\ apiCalls \in 0..MaxApiCalls /\ checkFails \in 0..MaxCheckFails /\ spoilt \in {"nobody", "api", "browser"}

LEMMA AccountParts ==
  /\ AccountInv <=> ApiTypes /\ ViewTypes /\ OtherTypes /\ ApiInv /\ ApiFailsForAReason
  /\ AccountInv' <=> ApiTypes' /\ ViewTypes' /\ OtherTypes' /\ ApiInv' /\ ApiFailsForAReason'
<1>1. AccountInv <=> ApiTypes /\ ViewTypes /\ OtherTypes /\ ApiInv /\ ApiFailsForAReason
  BY Zenon DEF AccountInv, AccountTypeOK, ApiTypes, ViewTypes, OtherTypes, Ticket, Session, CallStep
<1>2. AccountInv' <=> ApiTypes' /\ ViewTypes' /\ OtherTypes' /\ ApiInv' /\ ApiFailsForAReason'
  BY Zenon DEF AccountInv, AccountTypeOK, ApiTypes, ViewTypes, OtherTypes, Ticket, Session, CallStep
<1> QED BY <1>1, <1>2

LEMMA Bounds ==
  /\ MaxAccountStarts \in Nat /\ MaxApiCalls \in Nat /\ MaxCheckFails \in Nat /\ MaxLinkTries \in Nat
  /\ 0 \in 0..MaxAccountStarts /\ 0 \in 0..MaxApiCalls /\ 0 \in 0..MaxCheckFails /\ 0 \in 0..MaxLinkTries + 1
  /\ 0 <= MaxLinkTries
  BY AccountAssumption

LEMMA Callers == \A c \in PanelCall : c \in Holder /\ c # "tab" /\ c # "browser"
  BY AccountAssumption DEF Holder

LEMMA AccountInvInit == AccountInit => AccountInv
<1> SUFFICES ASSUME AccountInit PROVE AccountInv
  OBVIOUS
<1>1. ApiTypes
  BY Zenon DEF AccountInit, ApiTypes, Ticket, Session, CallStep
<1>2. ViewTypes
  BY Bounds, Zenon DEF AccountInit, ViewTypes
<1>3. OtherTypes
  BY Bounds, Zenon DEF AccountInit, OtherTypes
<1>4. ApiInv /\ ApiFailsForAReason
  <2>1. ~serving /\ \A c \in PanelCall : apiPc[c] = "idle"
    BY DEF AccountInit
  <2> QED BY <2>1 DEF ApiInv, ApiFailsForAReason
<1> QED BY <1>1, <1>2, <1>3, <1>4, AccountParts, Zenon

\* The effect of the tab that keeps one session of the panel for each start of the node.
LEMMA EffectTypes ==
  ASSUME ViewTypes, NEW seen, NEW there, NEW n, Effect(seen, there, n)
  PROVE  /\ loadedFor' \in 0..MaxAccountStarts /\ guest' \in {"none", "loading", "panel", "refused"}
         /\ getting' \in {"no", "asked", "retry"} /\ linkTries' \in 0..MaxLinkTries + 1
         /\ linkError' \in BOOLEAN /\ (getting' # "no" => linkTries' <= MaxLinkTries)
<1>1. CASE UNCHANGED <<loadedFor, guest, getting, linkTries, linkError>>
  BY <1>1, Zenon DEF ViewTypes
<1>2. CASE /\ loadedFor' = 0 /\ guest' = "none" /\ getting' = "no" /\ UNCHANGED <<linkTries, linkError>>
  BY <1>2, Bounds, Zenon DEF ViewTypes
<1>3. CASE /\ getting' \in {"asked", "no"} /\ linkTries' = 0 /\ linkError' = FALSE /\ UNCHANGED <<loadedFor, guest>>
  BY <1>3, Bounds, Zenon DEF ViewTypes
<1> QED BY <1>1, <1>2, <1>3, Zenon DEF Effect

\* Calls that are left alone, with their tickets, are as they were.
LEMMA CallsAlone ==
  ASSUME ApiInv, ApiFailsForAReason, serving' => ticketFile' = "fresh",
         UNCHANGED <<apiPc, sentCookie, disturbed>>, \A c \in PanelCall : held'[c] = held[c]
  PROVE  ApiInv' /\ ApiFailsForAReason'
  BY Zenon DEF ApiInv, ApiFailsForAReason

\* The account and its node come and go.
LEMMA NodeSteps ==
  ASSUME AccountInv, NodeStarts \/ AccountComes \/ AccountNoticed \/ NodeGoes PROVE AccountInv'
<1>0. ApiTypes /\ ViewTypes /\ OtherTypes /\ ApiInv /\ ApiFailsForAReason
  BY AccountParts, Zenon
<1>1. CASE NodeStarts
  <2>1. /\ accountStarts < MaxAccountStarts /\ accountStarts' = accountStarts + 1 /\ accountNode' = TRUE
        /\ logged' = FALSE /\ checkDue' = TRUE /\ Effect(checked, TRUE, accountStarts + 1)
        /\ UNCHANGED <<serving, ticketFile, held, cookie, apiPc, sentCookie, disturbed, apiCalls, checked,
                       checkFails, spoilt>>
    BY <1>1, Zenon DEF NodeStarts, apiVars
  <2>2. accountStarts' \in 0..MaxAccountStarts
    <3>1. accountStarts \in 0..MaxAccountStarts /\ accountStarts < MaxAccountStarts
          /\ accountStarts' = accountStarts + 1
      BY <1>0, <2>1, Zenon DEF OtherTypes
    <3> QED BY <3>1, Bounds
  <2>3. ViewTypes'
    BY <1>0, <2>1, EffectTypes, Zenon DEF ViewTypes
  <2>4. ApiTypes' /\ OtherTypes'
    BY <1>0, <2>1, <2>2, Zenon DEF ApiTypes, OtherTypes
  <2>5. ApiInv' /\ ApiFailsForAReason'
    BY <1>0, <2>1, CallsAlone, Zenon DEF ApiInv
  <2> QED BY <2>3, <2>4, <2>5, AccountParts, Zenon
<1>2. CASE AccountComes
  <2>1. /\ serving' = TRUE /\ ticketFile' = "fresh"
        /\ UNCHANGED <<accountStarts, accountNode, logged, held, cookie, apiPc, sentCookie, disturbed, apiCalls,
                       checked, checkDue, loadedFor, guest, getting, linkTries, linkError, checkFails, spoilt>>
    BY <1>2, Zenon DEF AccountComes, apiVars, viewVars
  <2>2. ApiTypes' /\ ViewTypes' /\ OtherTypes'
    BY <1>0, <2>1, Zenon DEF ApiTypes, ViewTypes, OtherTypes, Ticket
  <2>3. ApiInv' /\ ApiFailsForAReason'
    BY <1>0, <2>1, CallsAlone, Zenon
  <2> QED BY <2>2, <2>3, AccountParts, Zenon
<1>3. CASE AccountNoticed
  <2>1. /\ logged' = TRUE /\ checkDue' = TRUE
        /\ UNCHANGED <<accountStarts, accountNode, serving, ticketFile, held, cookie, apiPc, sentCookie, disturbed,
                       apiCalls, spoilt, checked, loadedFor, guest, getting, linkTries, linkError, checkFails>>
    BY <1>3, Zenon DEF AccountNoticed, apiVars
  <2>2. ApiTypes' /\ ViewTypes' /\ OtherTypes'
    BY <1>0, <2>1, Zenon DEF ApiTypes, ViewTypes, OtherTypes
  <2>3. ApiInv' /\ ApiFailsForAReason'
    BY <1>0, <2>1, CallsAlone, Zenon DEF ApiInv
  <2> QED BY <2>2, <2>3, AccountParts, Zenon
<1>4. CASE NodeGoes
  <2>1. /\ accountNode' = FALSE /\ serving' = FALSE
        /\ ticketFile' = IF ticketFile = "fresh" THEN "used" ELSE ticketFile
        /\ held' = [h \in Holder |-> IF held[h] = "fresh" THEN "used" ELSE held[h]]
        /\ cookie' = IF cookie = "valid" THEN "stale" ELSE cookie
        /\ sentCookie' = [c \in PanelCall |-> IF sentCookie[c] = "valid" THEN "stale" ELSE sentCookie[c]]
        /\ disturbed' = [c \in PanelCall |-> disturbed[c] \/ c \in Busy]
        /\ checkDue' = TRUE /\ Effect(checked, FALSE, accountStarts)
        /\ UNCHANGED <<accountStarts, logged, apiPc, apiCalls, checked, checkFails, spoilt>>
    BY <1>4, Zenon DEF NodeGoes
  <2>2. ViewTypes'
    BY <1>0, <2>1, EffectTypes, Zenon DEF ViewTypes
  <2>3. OtherTypes'
    BY <1>0, <2>1, Zenon DEF OtherTypes
  <2>4. ApiTypes'
    BY <1>0, <2>1, Zenon DEF ApiTypes, Ticket, Session
  <2>5. ApiInv' /\ ApiFailsForAReason'
    <3>1. ASSUME NEW c \in PanelCall, apiPc[c] \in {"sign in", "sign in again", "post again", "failed"}
          PROVE  disturbed'[c]
      <4>1. disturbed'[c] = (disturbed[c] \/ c \in Busy)
        BY <2>1
      <4>2. CASE apiPc[c] = "failed"
        BY <1>0, <4>1, <4>2, Zenon DEF ApiFailsForAReason
      <4>3. CASE apiPc[c] # "failed"
        BY <3>1, <4>1, <4>3 DEF Busy
      <4> QED BY <4>2, <4>3
    <3> QED BY <2>1, <3>1, Zenon DEF ApiInv, ApiFailsForAReason
  <2> QED BY <2>2, <2>3, <2>4, <2>5, AccountParts, Zenon
<1> QED BY <1>1, <1>2, <1>3, <1>4

\* A call of the API reads the ticket: of a node that answers the ticket is fresh.
LEMMA ReadsStep ==
  ASSUME ApiTypes, ApiInv, NEW c \in PanelCall, NEW at \in {"sign in", "sign in again"}, NEW was \in BOOLEAN,
         Reads(c, at, was)
  PROVE  /\ held' \in [Holder -> Ticket] /\ apiPc' \in [PanelCall -> CallStep]
         /\ disturbed' \in [PanelCall -> BOOLEAN]
         /\ \A x \in PanelCall : x # c =>
              apiPc'[x] = apiPc[x] /\ held'[x] = held[x] /\ disturbed'[x] = disturbed[x]
         /\ \/ apiPc'[c] = "failed" /\ disturbed'[c]
            \/ apiPc'[c] = at /\ (held'[c] # "fresh" => disturbed'[c])
<1>1. c \in Holder /\ \A x \in PanelCall : x \in Holder
  BY Callers
<1>2. CASE /\ apiPc' = [apiPc EXCEPT ![c] = "failed"] /\ disturbed' = [disturbed EXCEPT ![c] = TRUE]
           /\ UNCHANGED held
  BY <1>2 DEF ApiTypes, CallStep
<1>3. ASSUME NEW t \in {ticketFile, "none"}, t # "none",
             apiPc' = [apiPc EXCEPT ![c] = at], held' = [held EXCEPT ![c] = t],
             disturbed' = [disturbed EXCEPT ![c] = was \/ ~serving]
      PROVE  /\ held' \in [Holder -> Ticket] /\ apiPc' \in [PanelCall -> CallStep]
             /\ disturbed' \in [PanelCall -> BOOLEAN]
             /\ \A x \in PanelCall : x # c =>
                  apiPc'[x] = apiPc[x] /\ held'[x] = held[x] /\ disturbed'[x] = disturbed[x]
             /\ apiPc'[c] = at /\ (held'[c] # "fresh" => disturbed'[c])
  <2>1. held'[c] = t /\ held' \in [Holder -> Ticket] /\ \A x \in PanelCall : x # c => held'[x] = held[x]
    BY <1>1, <1>3 DEF ApiTypes
  <2>2. /\ apiPc'[c] = at /\ apiPc' \in [PanelCall -> CallStep]
        /\ \A x \in PanelCall : x # c => apiPc'[x] = apiPc[x]
    BY <1>3 DEF ApiTypes, CallStep
  <2>3. /\ disturbed'[c] = (was \/ ~serving) /\ disturbed' \in [PanelCall -> BOOLEAN]
        /\ \A x \in PanelCall : x # c => disturbed'[x] = disturbed[x]
    BY <1>3 DEF ApiTypes
  <2>4. serving => t = "fresh"
    BY <1>3, Zenon DEF ApiInv
  <2> QED BY <2>1, <2>2, <2>3, <2>4, Zenon
<1> QED BY <1>2, <1>3, Zenon DEF Reads, Found

\* The calls but c are as they were, and c has its reason if it needs one.
LEMMA OneCallMoves ==
  ASSUME ApiInv, ApiFailsForAReason, NEW c \in PanelCall, UNCHANGED <<serving, ticketFile>>,
         \A x \in PanelCall : x # c =>
           /\ apiPc'[x] = apiPc[x] /\ held'[x] = held[x] /\ sentCookie'[x] = sentCookie[x]
           /\ disturbed'[x] = disturbed[x],
         apiPc'[c] \in {"sign in", "sign in again"} /\ held'[c] # "fresh" => disturbed'[c],
         apiPc'[c] = "post again" /\ sentCookie'[c] # "valid" => disturbed'[c],
         apiPc'[c] = "failed" => disturbed'[c]
  PROVE  ApiInv' /\ ApiFailsForAReason'
<1>1. serving' => ticketFile' = "fresh"
  BY Zenon DEF ApiInv
<1>2. ASSUME NEW x \in PanelCall
      PROVE  /\ apiPc'[x] \in {"sign in", "sign in again"} /\ held'[x] # "fresh" => disturbed'[x]
             /\ apiPc'[x] = "post again" /\ sentCookie'[x] # "valid" => disturbed'[x]
             /\ apiPc'[x] = "failed" => disturbed'[x]
  <2>1. CASE x = c
    BY <2>1, Zenon
  <2>2. CASE x # c
    <3>1. /\ apiPc'[x] = apiPc[x] /\ held'[x] = held[x] /\ sentCookie'[x] = sentCookie[x]
          /\ disturbed'[x] = disturbed[x]
      BY <2>2
    <3> QED BY <3>1, Zenon DEF ApiInv, ApiFailsForAReason
  <2> QED BY <2>1, <2>2
<1> QED BY <1>1, <1>2, Zenon DEF ApiInv, ApiFailsForAReason

LEMMA CallStepInv == ASSUME AccountInv, NEW c \in PanelCall, CallApi(c) PROVE AccountInv'
<1>0. ApiTypes /\ ViewTypes /\ OtherTypes /\ ApiInv /\ ApiFailsForAReason
  BY AccountParts, Zenon
<1>1. /\ apiCalls < MaxApiCalls /\ apiCalls' = apiCalls + 1
      /\ UNCHANGED <<accountStarts, accountNode, serving, logged, ticketFile, checked, checkDue, loadedFor, guest,
                     getting, linkTries, linkError, checkFails, spoilt, cookie>>
  BY Zenon DEF CallApi, ApiAlone, panelVars, viewVars
<1>2. apiCalls' \in 0..MaxApiCalls
  <2>1. apiCalls \in 0..MaxApiCalls /\ apiCalls < MaxApiCalls /\ apiCalls' = apiCalls + 1
    BY <1>0, <1>1, Zenon DEF OtherTypes
  <2> QED BY <2>1, Bounds
<1>3. OtherTypes' /\ ViewTypes'
  BY <1>0, <1>1, <1>2, Zenon DEF OtherTypes, ViewTypes
<1>4. CASE cookie = "none"
  <2>1. Reads(c, "sign in", FALSE) /\ UNCHANGED sentCookie
    BY <1>4, Zenon DEF CallApi
  <2>2. /\ held' \in [Holder -> Ticket] /\ apiPc' \in [PanelCall -> CallStep]
        /\ disturbed' \in [PanelCall -> BOOLEAN]
        /\ \A x \in PanelCall : x # c =>
             apiPc'[x] = apiPc[x] /\ held'[x] = held[x] /\ disturbed'[x] = disturbed[x]
        /\ \/ apiPc'[c] = "failed" /\ disturbed'[c]
           \/ apiPc'[c] = "sign in" /\ (held'[c] # "fresh" => disturbed'[c])
    BY <1>0, <2>1, ReadsStep, Zenon
  <2>3. ApiTypes'
    BY <1>0, <1>1, <2>1, <2>2, Zenon DEF ApiTypes
  <2>4. apiPc'[c] # "post again"
    BY <2>2
  <2>5. ApiInv' /\ ApiFailsForAReason'
    <3>1. /\ apiPc'[c] \in {"sign in", "sign in again"} /\ held'[c] # "fresh" => disturbed'[c]
          /\ apiPc'[c] = "failed" => disturbed'[c]
      BY <2>2
    <3> QED BY <1>0, <1>1, <2>1, <2>2, <2>4, <3>1, OneCallMoves, Zenon
  <2> QED BY <1>3, <2>3, <2>5, AccountParts, Zenon
<1>5. CASE cookie # "none"
  <2>1. /\ disturbed' = [disturbed EXCEPT ![c] = ~serving]
        /\ apiPc' = [apiPc EXCEPT ![c] = "post"] /\ sentCookie' = [sentCookie EXCEPT ![c] = cookie]
        /\ UNCHANGED held
    BY <1>5, Zenon DEF CallApi
  <2>2. ApiTypes'
    BY <1>0, <1>1, <2>1 DEF ApiTypes, CallStep
  <2>3. /\ apiPc'[c] = "post"
        /\ \A x \in PanelCall : x # c =>
             /\ apiPc'[x] = apiPc[x] /\ held'[x] = held[x] /\ sentCookie'[x] = sentCookie[x]
             /\ disturbed'[x] = disturbed[x]
    BY <1>0, <2>1 DEF ApiTypes
  <2>4. apiPc'[c] \notin {"sign in", "sign in again", "post again", "failed"}
    BY <2>3
  <2>5. ApiInv' /\ ApiFailsForAReason'
    BY <1>0, <1>1, <2>3, <2>4, OneCallMoves
  <2> QED BY <1>3, <2>2, <2>5, AccountParts, Zenon
<1> QED BY <1>4, <1>5

\* Whoever shows a ticket to the account makes the ticket of every other call late.
LEMMA SpendStep ==
  ASSUME ApiTypes, NEW h \in Holder, Spend(h), disturbed' = Late(h)
  PROVE  /\ held' \in [Holder -> Ticket] /\ disturbed' \in [PanelCall -> BOOLEAN]
         /\ \A x \in PanelCall : disturbed[x] => disturbed'[x]
         /\ ApiInv => \A x \in PanelCall : x # h /\ x \in Signing => disturbed'[x]
<1>1. held' \in [Holder -> Ticket]
  BY DEF ApiTypes, Spend, Ticket
<1>2. disturbed' \in [PanelCall -> BOOLEAN]
  BY DEF Late
<1>3. \A x \in PanelCall : disturbed'[x] = (disturbed[x] \/ (x \in Signing \ {h} /\ held[x] = "fresh"))
  BY Zenon DEF Late
<1>4. ASSUME ApiInv, NEW x \in PanelCall, x # h, x \in Signing PROVE disturbed'[x]
  <2>1. apiPc[x] \in {"sign in", "sign in again"}
    BY <1>4 DEF Signing
  <2>2. held[x] # "fresh" => disturbed[x]
    BY <1>4, <2>1, Zenon DEF ApiInv
  <2> QED BY <1>3, <1>4, <2>2
<1> QED BY <1>1, <1>2, <1>3, <1>4

LEMMA SignStep == ASSUME AccountInv, NEW c \in PanelCall, SignedIn(c) PROVE AccountInv'
<1>0. ApiTypes /\ ViewTypes /\ OtherTypes /\ ApiInv /\ ApiFailsForAReason
  BY AccountParts, Zenon
<1>1. /\ c \in Signing
      /\ UNCHANGED <<accountStarts, accountNode, serving, logged, ticketFile, checked, checkDue, loadedFor, guest,
                     getting, linkTries, linkError, checkFails, apiCalls>>
  BY Zenon DEF SignedIn, panelVars, viewVars
<1>2. ViewTypes'
  BY <1>0, <1>1, Zenon DEF ViewTypes
<1>3. c \in Holder
  BY Callers
<1>4. CASE serving /\ held[c] = "fresh"
  <2>1. /\ Spend(c) /\ disturbed' = Late(c) /\ cookie' = "valid"
        /\ sentCookie' = [sentCookie EXCEPT ![c] = "valid"]
        /\ apiPc' = [apiPc EXCEPT ![c] = IF @ = "sign in" THEN "post" ELSE "post again"]
        /\ spoilt' = IF held["tab"] = "fresh" THEN "api" ELSE spoilt
    BY <1>4, Zenon DEF SignedIn, SpoiltBy
  <2>2. OtherTypes'
    BY <1>0, <1>1, <2>1, Zenon DEF OtherTypes
  <2>3. /\ held' \in [Holder -> Ticket] /\ disturbed' \in [PanelCall -> BOOLEAN]
        /\ \A x \in PanelCall : disturbed[x] => disturbed'[x]
        /\ \A x \in PanelCall : x # c /\ x \in Signing => disturbed'[x]
    BY <1>0, <1>3, <2>1, SpendStep, Zenon
  <2>4. /\ apiPc' \in [PanelCall -> CallStep] /\ apiPc'[c] \in {"post", "post again"}
        /\ \A x \in PanelCall : x # c => apiPc'[x] = apiPc[x]
    BY <1>0, <2>1 DEF ApiTypes, CallStep
  <2>5. /\ sentCookie' \in [PanelCall -> Session] /\ sentCookie'[c] = "valid"
        /\ \A x \in PanelCall : x # c => sentCookie'[x] = sentCookie[x]
    BY <1>0, <2>1 DEF ApiTypes, Session
  <2>6. ApiTypes'
    <3>1. cookie' \in Session
      BY <2>1 DEF Session
    <3> QED BY <1>0, <1>1, <2>3, <2>4, <2>5, <3>1, Zenon DEF ApiTypes
  <2>7. ASSUME NEW x \in PanelCall
        PROVE  /\ apiPc'[x] \in {"sign in", "sign in again"} => disturbed'[x]
               /\ apiPc'[x] = "post again" /\ sentCookie'[x] # "valid" => disturbed'[x]
               /\ apiPc'[x] = "failed" => disturbed'[x]
    <3>1. CASE x = c
      BY <2>4, <2>5, <3>1
    <3>2. CASE x # c
      <4>1. /\ apiPc'[x] = apiPc[x] /\ sentCookie'[x] = sentCookie[x]
            /\ apiPc[x] \in {"sign in", "sign in again"} => x \in Signing
        BY <2>4, <2>5, <3>2 DEF Signing
      <4> QED BY <1>0, <2>3, <3>2, <4>1, Zenon DEF ApiInv, ApiFailsForAReason
    <3> QED BY <3>1, <3>2
  <2>8. ApiInv' /\ ApiFailsForAReason'
    BY <1>0, <1>1, <2>7, Zenon DEF ApiInv, ApiFailsForAReason
  <2> QED BY <1>2, <2>2, <2>6, <2>8, AccountParts, Zenon
<1>5. CASE ~(serving /\ held[c] = "fresh")
  <2>1. /\ held' = [held EXCEPT ![c] = "none"] /\ apiPc' = [apiPc EXCEPT ![c] = "failed"]
        /\ disturbed' = [disturbed EXCEPT ![c] = @ \/ ~serving] /\ UNCHANGED <<cookie, sentCookie, spoilt>>
    BY <1>5, Zenon DEF SignedIn
  <2>2. OtherTypes'
    BY <1>0, <1>1, <2>1, Zenon DEF OtherTypes
  <2>3. ApiTypes'
    BY <1>0, <1>1, <1>3, <2>1 DEF ApiTypes, CallStep, Ticket
  <2>4. /\ apiPc'[c] = "failed" /\ disturbed'[c] = (disturbed[c] \/ ~serving)
        /\ \A x \in PanelCall : x # c =>
             /\ apiPc'[x] = apiPc[x] /\ held'[x] = held[x] /\ sentCookie'[x] = sentCookie[x]
             /\ disturbed'[x] = disturbed[x]
    BY <1>0, <1>3, <2>1, Callers DEF ApiTypes
  <2>5. disturbed'[c]
    <3>1. apiPc[c] \in {"sign in", "sign in again"}
      BY <1>1 DEF Signing
    <3> QED BY <1>0, <1>5, <2>4, <3>1, Zenon DEF ApiInv
  <2>6. ApiInv' /\ ApiFailsForAReason'
    BY <1>0, <1>1, <2>4, <2>5, OneCallMoves, Zenon
  <2> QED BY <1>2, <2>2, <2>3, <2>6, AccountParts, Zenon
<1> QED BY <1>4, <1>5

\* The answer is lost: the call has its reason, and so have the others if the ticket was used.
LEMMA LostStep == ASSUME AccountInv, NEW c \in PanelCall, SignInLost(c) PROVE AccountInv'
<1>0. ApiTypes /\ ViewTypes /\ OtherTypes /\ ApiInv /\ ApiFailsForAReason
  BY AccountParts, Zenon
<1>1. /\ c \in Signing /\ apiPc' = [apiPc EXCEPT ![c] = "failed"]
      /\ UNCHANGED <<accountStarts, accountNode, serving, logged, ticketFile, checked, checkDue, loadedFor, guest,
                     getting, linkTries, linkError, checkFails, cookie, sentCookie, apiCalls>>
      /\ UNCHANGED spoilt \/ spoilt' = IF held["tab"] = "fresh" THEN "api" ELSE spoilt
  BY Zenon DEF SignInLost, SpoiltBy, panelVars, viewVars
<1>2. ViewTypes' /\ OtherTypes'
  BY <1>0, <1>1, Zenon DEF ViewTypes, OtherTypes
<1>3. c \in Holder
  BY Callers
<1>4. apiPc' \in [PanelCall -> CallStep] /\ \A x \in PanelCall : x # c => apiPc'[x] = apiPc[x]
  BY <1>0, <1>1 DEF ApiTypes, CallStep
<1>5. CASE Spend(c) /\ disturbed' = [Late(c) EXCEPT ![c] = TRUE]
  <2>1. /\ held' \in [Holder -> Ticket] /\ disturbed' \in [PanelCall -> BOOLEAN] /\ disturbed'[c]
        /\ \A x \in PanelCall : x # c => disturbed'[x] = (disturbed[x] \/ (x \in Signing /\ held[x] = "fresh"))
    BY <1>0, <1>5 DEF ApiTypes, Spend, Ticket, Late
  <2>2. ApiTypes'
    BY <1>0, <1>1, <1>4, <2>1, Zenon DEF ApiTypes
  <2>3. ASSUME NEW x \in PanelCall
        PROVE  /\ apiPc'[x] \in {"sign in", "sign in again"} => disturbed'[x]
               /\ apiPc'[x] = "post again" /\ sentCookie'[x] # "valid" => disturbed'[x]
               /\ apiPc'[x] = "failed" => disturbed'[x]
    <3>1. CASE x = c
      BY <2>1, <3>1
    <3>2. CASE x # c
      <4>1. apiPc'[x] = apiPc[x] /\ (apiPc[x] \in {"sign in", "sign in again"} => x \in Signing)
        BY <1>4, <3>2 DEF Signing
      <4> QED BY <1>0, <1>1, <2>1, <3>2, <4>1, Zenon DEF ApiInv, ApiFailsForAReason
    <3> QED BY <3>1, <3>2
  <2>4. ApiInv' /\ ApiFailsForAReason'
    BY <1>0, <1>1, <2>3, Zenon DEF ApiInv, ApiFailsForAReason
  <2> QED BY <1>2, <2>2, <2>4, AccountParts, Zenon
<1>6. CASE held' = [held EXCEPT ![c] = "none"] /\ disturbed' = [disturbed EXCEPT ![c] = TRUE]
  <2>1. ApiTypes'
    BY <1>0, <1>1, <1>4, <1>6 DEF ApiTypes, Ticket
  <2>2. /\ disturbed'[c] /\ apiPc'[c] = "failed"
        /\ \A x \in PanelCall : x # c =>
             /\ apiPc'[x] = apiPc[x] /\ held'[x] = held[x] /\ sentCookie'[x] = sentCookie[x]
             /\ disturbed'[x] = disturbed[x]
    BY <1>0, <1>1, <1>3, <1>6, Callers DEF ApiTypes
  <2>3. ApiInv' /\ ApiFailsForAReason'
    BY <1>0, <1>1, <2>2, OneCallMoves, Zenon
  <2> QED BY <1>2, <2>1, <2>3, AccountParts, Zenon
<1> QED BY <1>5, <1>6, Zenon DEF SignInLost

LEMMA PostStep == ASSUME AccountInv, NEW c \in PanelCall, Posted(c) PROVE AccountInv'
<1>0. ApiTypes /\ ViewTypes /\ OtherTypes /\ ApiInv /\ ApiFailsForAReason
  BY AccountParts, Zenon
<1>1. /\ apiPc[c] \in {"post", "post again"}
      /\ UNCHANGED <<accountStarts, accountNode, serving, logged, ticketFile, checked, checkDue, loadedFor, guest,
                     getting, linkTries, linkError, checkFails, spoilt, apiCalls>>
  BY Zenon DEF Posted, ApiAlone, panelVars, viewVars
<1>2. ViewTypes' /\ OtherTypes'
  BY <1>0, <1>1, Zenon DEF ViewTypes, OtherTypes
<1>3. CASE serving /\ sentCookie[c] = "valid" /\ apiPc' = [apiPc EXCEPT ![c] = "ok"]
           /\ UNCHANGED <<cookie, held, sentCookie, disturbed>>
  <2>1. ApiTypes'
    BY <1>0, <1>1, <1>3 DEF ApiTypes, CallStep
  <2>2. apiPc'[c] \notin {"sign in", "sign in again", "post again", "failed"}
        /\ \A x \in PanelCall : x # c => apiPc'[x] = apiPc[x]
    BY <1>0, <1>3 DEF ApiTypes
  <2>3. ApiInv' /\ ApiFailsForAReason'
    BY <1>0, <1>1, <1>3, <2>2, OneCallMoves
  <2> QED BY <1>2, <2>1, <2>3, AccountParts, Zenon
<1>4. CASE serving /\ sentCookie[c] # "valid" /\ apiPc[c] = "post" /\ Rejected(c)
  <2>1. cookie' = "none" /\ Reads(c, "sign in again", disturbed[c]) /\ UNCHANGED sentCookie
    BY <1>4, Zenon DEF Rejected
  <2>2. disturbed[c] \in BOOLEAN
    BY <1>0 DEF ApiTypes
  <2>3. /\ held' \in [Holder -> Ticket] /\ apiPc' \in [PanelCall -> CallStep]
        /\ disturbed' \in [PanelCall -> BOOLEAN]
        /\ \A x \in PanelCall : x # c =>
             apiPc'[x] = apiPc[x] /\ held'[x] = held[x] /\ disturbed'[x] = disturbed[x]
        /\ \/ apiPc'[c] = "failed" /\ disturbed'[c]
           \/ apiPc'[c] = "sign in again" /\ (held'[c] # "fresh" => disturbed'[c])
    BY <1>0, <2>1, <2>2, ReadsStep, Zenon
  <2>4. ApiTypes'
    <3>1. cookie' \in Session
      BY <2>1 DEF Session
    <3> QED BY <1>0, <1>1, <2>1, <2>3, <3>1, Zenon DEF ApiTypes
  <2>5. apiPc'[c] # "post again"
    BY <2>3
  <2>6. /\ apiPc'[c] \in {"sign in", "sign in again"} /\ held'[c] # "fresh" => disturbed'[c]
        /\ apiPc'[c] = "failed" => disturbed'[c]
    BY <2>3
  <2>7. ApiInv' /\ ApiFailsForAReason'
    BY <1>0, <1>1, <2>1, <2>3, <2>5, <2>6, OneCallMoves, Zenon
  <2> QED BY <1>2, <2>4, <2>7, AccountParts, Zenon
<1>5. CASE serving /\ sentCookie[c] # "valid" /\ apiPc[c] # "post" /\ Rejected(c)
  <2>1. apiPc' = [apiPc EXCEPT ![c] = "failed"] /\ UNCHANGED <<cookie, held, sentCookie, disturbed>>
    BY <1>5, Zenon DEF Rejected
  <2>2. ApiTypes'
    BY <1>0, <1>1, <2>1 DEF ApiTypes, CallStep
  <2>3. disturbed'[c]
    <3>1. apiPc[c] = "post again"
      BY <1>1, <1>5
    <3> QED BY <1>0, <1>5, <2>1, <3>1, Zenon DEF ApiInv
  <2>4. apiPc'[c] = "failed" /\ \A x \in PanelCall : x # c => apiPc'[x] = apiPc[x]
    BY <1>0, <2>1 DEF ApiTypes
  <2>5. ApiInv' /\ ApiFailsForAReason'
    BY <1>0, <1>1, <2>1, <2>3, <2>4, OneCallMoves
  <2> QED BY <1>2, <2>2, <2>5, AccountParts, Zenon
<1>6. CASE apiPc' = [apiPc EXCEPT ![c] = "failed"] /\ disturbed' = [disturbed EXCEPT ![c] = TRUE]
           /\ UNCHANGED <<cookie, held, sentCookie>>
  <2>1. ApiTypes'
    BY <1>0, <1>1, <1>6 DEF ApiTypes, CallStep
  <2>2. disturbed'[c]
        /\ \A x \in PanelCall : x # c => apiPc'[x] = apiPc[x] /\ disturbed'[x] = disturbed[x]
    BY <1>0, <1>6 DEF ApiTypes
  <2>3. ApiInv' /\ ApiFailsForAReason'
    BY <1>0, <1>1, <1>6, <2>2, OneCallMoves
  <2> QED BY <1>2, <2>1, <2>3, AccountParts, Zenon
<1> QED BY <1>3, <1>4, <1>5, <1>6, Zenon DEF Posted

LEMMA Counted == \A n \in Nat : \A k \in 0..n : k + 0 \in 0..n /\ (k < n => k + 1 \in 0..n)
  OBVIOUS

\* What the tab and the browser do leaves the calls alone, unless they show a ticket.
LEMMA TabSteps ==
  ASSUME AccountInv, Pull \/ LinkBack \/ LinkRetry \/ ReloadPanel \/ OpenExternal PROVE AccountInv'
<1>0. ApiTypes /\ ViewTypes /\ OtherTypes /\ ApiInv /\ ApiFailsForAReason
  BY AccountParts, Zenon
<1>1. /\ UNCHANGED <<accountStarts, accountNode, serving, logged, ticketFile, cookie, apiPc, sentCookie, disturbed,
                     apiCalls>>
  BY Zenon DEF Pull, LinkBack, LinkRetry, ReloadPanel, OpenExternal, ViewAlone, panelVars, apiVars
<1>2. CASE Pull
  <2>1. PICK seen \in {IF logged THEN "ready" ELSE "not ready", "failed"} :
          /\ seen = "failed" => checkFails < MaxCheckFails
          /\ checkFails' = checkFails + (IF seen = "failed" THEN 1 ELSE 0)
          /\ checked' = seen /\ checkDue' = (checkDue /\ seen = "failed")
          /\ Effect(seen, accountNode, accountStarts) /\ UNCHANGED <<held, spoilt>>
    BY <1>2, Zenon DEF Pull
  <2>2. checkFails' \in 0..MaxCheckFails
    <3>1. checkFails \in 0..MaxCheckFails
      BY <1>0, Zenon DEF OtherTypes
    <3>2. CASE seen = "failed"
      <4>1. checkFails < MaxCheckFails /\ checkFails' = checkFails + 1
        BY <2>1, <3>2, Zenon
      <4> QED BY <3>1, <4>1, Bounds, Counted, Zenon
    <3>3. CASE seen # "failed"
      <4>1. checkFails' = checkFails + 0
        BY <2>1, <3>3, Zenon
      <4> QED BY <3>1, <4>1, Bounds, Counted, Zenon
    <3> QED BY <3>2, <3>3
  <2>3. ViewTypes'
    <3>1. checked' \in {"unknown", "ready", "not ready", "failed"}
      BY <2>1
    <3>2. checkDue' \in BOOLEAN
      BY <2>1, Zenon
    <3> QED BY <1>0, <2>1, <3>1, <3>2, EffectTypes, Zenon DEF ViewTypes
  <2>4. ApiTypes' /\ OtherTypes'
    BY <1>0, <1>1, <2>1, <2>2, Zenon DEF ApiTypes, OtherTypes
  <2>5. ApiInv' /\ ApiFailsForAReason'
    BY <1>0, <1>1, <2>1, CallsAlone, Zenon DEF ApiInv
  <2> QED BY <2>3, <2>4, <2>5, AccountParts, Zenon
<1>3. CASE LinkBack
  <2>0. UNCHANGED <<checked, checkDue, checkFails>> /\ getting = "asked"
    BY <1>3, Zenon DEF LinkBack
  <2>1. PICK t \in Found :
          IF t # "none"
          THEN /\ loadedFor' = accountStarts /\ guest' = "loading" /\ held' = [held EXCEPT !["tab"] = t]
               /\ spoilt' = "nobody" /\ getting' = "no" /\ linkError' = FALSE /\ UNCHANGED linkTries
          ELSE /\ linkTries' = linkTries + 1
               /\ getting' = (IF linkTries < MaxLinkTries THEN "retry" ELSE "no")
               /\ linkError' = (linkTries = MaxLinkTries)
               /\ UNCHANGED <<loadedFor, guest, held, spoilt>>
    BY <1>3, Zenon DEF LinkBack
  <2>2. t \in Ticket
    BY <1>0, <2>1 DEF Found, ApiTypes, Ticket
  <2>3. held' \in [Holder -> Ticket] /\ \A c \in PanelCall : held'[c] = held[c]
    <3>1. CASE held' = [held EXCEPT !["tab"] = t]
      BY <1>0, <2>2, <3>1, Callers DEF ApiTypes
    <3>2. CASE UNCHANGED held
      BY <1>0, <3>2 DEF ApiTypes
    <3> QED BY <2>1, <3>1, <3>2, Zenon
  <2>4. ApiTypes'
    BY <1>0, <1>1, <2>3, Zenon DEF ApiTypes
  <2>5. OtherTypes'
    BY <1>0, <1>1, <2>0, <2>1, Zenon DEF OtherTypes
  <2>6. ViewTypes'
    <3>1. CASE t # "none"
      <4>1. /\ loadedFor' = accountStarts /\ guest' = "loading" /\ getting' = "no" /\ linkError' = FALSE
            /\ UNCHANGED linkTries
        BY <2>1, <3>1, Zenon
      <4> QED BY <1>0, <2>0, <4>1, Zenon DEF ViewTypes, OtherTypes
    <3>2. CASE t = "none"
      <4>1. /\ linkTries' = linkTries + 1
            /\ getting' = (IF linkTries < MaxLinkTries THEN "retry" ELSE "no")
        BY <2>1, <3>2, Zenon
      <4>2. /\ linkError' \in BOOLEAN /\ UNCHANGED <<loadedFor, guest>>
        BY <2>1, <3>2, Zenon
      <4>3. linkTries \in 0..MaxLinkTries + 1 /\ linkTries <= MaxLinkTries
        <5>1. getting # "no"
          BY <2>0
        <5> QED BY <1>0, <5>1, Zenon DEF ViewTypes
      <4>4. /\ linkTries' \in 0..MaxLinkTries + 1 /\ getting' \in {"no", "asked", "retry"}
            /\ (getting' # "no" => linkTries' <= MaxLinkTries)
        BY <4>1, <4>3, Bounds
      <4> QED BY <1>0, <2>0, <4>2, <4>4, Zenon DEF ViewTypes
    <3> QED BY <3>1, <3>2
  <2>7. ApiInv' /\ ApiFailsForAReason'
    BY <1>0, <1>1, <2>3, CallsAlone, Zenon DEF ApiInv
  <2> QED BY <2>4, <2>5, <2>6, <2>7, AccountParts, Zenon
<1>4. CASE LinkRetry
  <2>1. /\ getting = "retry" /\ getting' = "asked"
        /\ UNCHANGED <<held, checked, checkDue, loadedFor, guest, linkTries, linkError, checkFails, spoilt>>
    BY <1>4, Zenon DEF LinkRetry
  <2>2. getting # "no"
    BY <2>1
  <2>3. ViewTypes'
    BY <1>0, <2>1, <2>2, Zenon DEF ViewTypes
  <2>4. ApiTypes' /\ OtherTypes'
    BY <1>0, <1>1, <2>1, Zenon DEF ApiTypes, OtherTypes
  <2>5. ApiInv' /\ ApiFailsForAReason'
    BY <1>0, <1>1, <2>1, CallsAlone, Zenon DEF ApiInv
  <2> QED BY <2>3, <2>4, <2>5, AccountParts, Zenon
<1>5. CASE ReloadPanel
  <2>1. /\ loadedFor' = 0 /\ guest' = "none" /\ linkError' = FALSE /\ checkDue' = TRUE
        /\ linkTries' = 0 /\ getting' \in {"asked", "no"}
        /\ UNCHANGED <<held, checked, checkFails, spoilt>>
    BY <1>5, Zenon DEF ReloadPanel
  <2>2. ViewTypes'
    BY <1>0, <2>1, Bounds, Zenon DEF ViewTypes
  <2>3. ApiTypes' /\ OtherTypes'
    BY <1>0, <1>1, <2>1, Zenon DEF ApiTypes, OtherTypes
  <2>4. ApiInv' /\ ApiFailsForAReason'
    BY <1>0, <1>1, <2>1, CallsAlone, Zenon DEF ApiInv
  <2> QED BY <2>2, <2>3, <2>4, AccountParts, Zenon
<1>6. CASE OpenExternal
  <2>1. /\ held' = [held EXCEPT !["browser"] = ticketFile]
        /\ UNCHANGED <<checked, checkDue, loadedFor, guest, getting, linkTries, linkError, checkFails, spoilt>>
    BY <1>6, Zenon DEF OpenExternal, viewVars
  <2>2. held' \in [Holder -> Ticket] /\ \A c \in PanelCall : held'[c] = held[c]
    BY <1>0, <2>1, Callers DEF ApiTypes
  <2>3. ApiTypes' /\ ViewTypes' /\ OtherTypes'
    BY <1>0, <1>1, <2>1, <2>2, Zenon DEF ApiTypes, ViewTypes, OtherTypes
  <2>4. ApiInv' /\ ApiFailsForAReason'
    BY <1>0, <1>1, <2>2, CallsAlone, Zenon DEF ApiInv
  <2> QED BY <2>3, <2>4, AccountParts, Zenon
<1> QED BY <1>2, <1>3, <1>4, <1>5, <1>6

\* The tab, or the browser, shows its ticket to the account.
LEMMA ShowSteps == ASSUME AccountInv, GuestLoads \/ BrowserOpens PROVE AccountInv'
<1>0. ApiTypes /\ ViewTypes /\ OtherTypes /\ ApiInv /\ ApiFailsForAReason
  BY AccountParts, Zenon
<1>1. /\ UNCHANGED <<accountStarts, accountNode, serving, logged, ticketFile, cookie, apiPc, sentCookie,
                     apiCalls, checked, checkDue, loadedFor, getting, linkTries, linkError, checkFails>>
      /\ guest' \in {"panel", "refused", guest}
      /\ UNCHANGED spoilt \/ spoilt' = IF held["tab"] = "fresh" THEN "browser" ELSE spoilt
  BY Zenon DEF GuestLoads, BrowserOpens, panelVars, viewVars, SpoiltBy
<1>2. PICK h \in {"tab", "browser"} :
        \/ Spend(h) /\ disturbed' = Late(h)
        \/ held' = [held EXCEPT ![h] = "none"] /\ UNCHANGED disturbed
  <2>1. "tab" \in {"tab", "browser"} /\ "browser" \in {"tab", "browser"}
    OBVIOUS
  <2> QED BY <2>1, Zenon DEF GuestLoads, BrowserOpens
<1>3. ViewTypes'
  <2>1. guest' \in {"none", "loading", "panel", "refused"}
    BY <1>0, <1>1 DEF ViewTypes
  <2> QED BY <1>0, <1>1, <2>1, Zenon DEF ViewTypes
<1>4. OtherTypes'
  BY <1>0, <1>1, Zenon DEF OtherTypes
<1>5. h \in Holder /\ \A c \in PanelCall : c # h
  BY Callers DEF Holder
<1>6. CASE Spend(h) /\ disturbed' = Late(h)
  <2>1. /\ held' \in [Holder -> Ticket] /\ disturbed' \in [PanelCall -> BOOLEAN]
        /\ \A x \in PanelCall : disturbed[x] => disturbed'[x]
        /\ \A x \in PanelCall : x # h /\ x \in Signing => disturbed'[x]
    BY <1>0, <1>5, <1>6, SpendStep, Zenon
  <2>2. ApiTypes'
    BY <1>0, <1>1, <2>1, Zenon DEF ApiTypes
  <2>3. \A x \in PanelCall : apiPc[x] \in {"sign in", "sign in again"} => disturbed'[x]
    BY <1>5, <2>1 DEF Signing
  <2>4. ApiInv' /\ ApiFailsForAReason'
    BY <1>0, <1>1, <2>1, <2>3, Zenon DEF ApiInv, ApiFailsForAReason
  <2> QED BY <1>3, <1>4, <2>2, <2>4, AccountParts, Zenon
<1>7. CASE held' = [held EXCEPT ![h] = "none"] /\ UNCHANGED disturbed
  <2>1. held' \in [Holder -> Ticket] /\ \A c \in PanelCall : held'[c] = held[c]
    BY <1>0, <1>5, <1>7, Callers DEF ApiTypes, Ticket
  <2>2. ApiTypes'
    BY <1>0, <1>1, <1>7, <2>1, Zenon DEF ApiTypes
  <2>3. ApiInv' /\ ApiFailsForAReason'
    BY <1>0, <1>1, <1>7, <2>1, CallsAlone, Zenon DEF ApiInv
  <2> QED BY <1>3, <1>4, <2>2, <2>3, AccountParts, Zenon
<1> QED BY <1>2, <1>6, <1>7

LEMMA AccountInvStep == AccountInv /\ [AccountNext]_accountVars => AccountInv'
<1> SUFFICES ASSUME AccountInv, [AccountNext]_accountVars PROVE AccountInv'
  OBVIOUS
<1>1. CASE UNCHANGED accountVars
  <2>1. UNCHANGED <<accountStarts, accountNode, serving, logged, ticketFile, held, cookie, apiPc, sentCookie,
                    disturbed, apiCalls, checked, checkDue, loadedFor, guest, getting, linkTries, linkError,
                    checkFails, spoilt>>
    BY <1>1, Zenon DEF accountVars, panelVars, apiVars, viewVars
  <2>2. ApiTypes /\ ViewTypes /\ OtherTypes /\ ApiInv /\ ApiFailsForAReason
    BY AccountParts, Zenon
  <2>3. ApiTypes' /\ ViewTypes' /\ OtherTypes'
    BY <2>1, <2>2, Zenon DEF ApiTypes, ViewTypes, OtherTypes
  <2>4. ApiInv' /\ ApiFailsForAReason'
    BY <2>1, <2>2, CallsAlone, Zenon DEF ApiInv
  <2> QED BY <2>3, <2>4, AccountParts, Zenon
<1>2. ASSUME NEW c \in PanelCall, CallApi(c) \/ SignedIn(c) \/ SignInLost(c) \/ Posted(c) PROVE AccountInv'
  BY <1>2, CallStepInv, SignStep, LostStep, PostStep, Zenon
<1> QED BY <1>1, <1>2, NodeSteps, TabSteps, ShowSteps, Zenon DEF AccountNext

LEMMA AccountInvAlways == AccountSpec => []AccountInv
  BY AccountInvInit, AccountInvStep, PTL DEF AccountSpec

-----------------------------------------------------------------------------
(* The import of the classic node's contacts and dapps.                     *)

LEMMA NoImportType == /\ NoImport \in Import /\ NoImport.todo = {} /\ NoImport.answers = FALSE
                      /\ NoImport.asked = {} /\ NoImport.failed = {}
  BY DEF NoImport, Import

LEMMA NoLoadType == NoLoad \in Load /\ NoLoad.last = FALSE /\ NoLoad.at = "idle"
  BY DEF NoLoad, Load

LEMMA ImportsInvInit == ImportsInit => ImportsInv
<1> SUFFICES ASSUME ImportsInit PROVE ImportsInv
  OBVIOUS
<1>1. /\ copies = [e \in ImportEntry |-> 0] /\ ups = 0 /\ imports = 0
      /\ rows = NoRows /\ pick = {} /\ unsure = {}
      /\ importRun = [r \in ImportRun |-> NoImport] /\ listLoad = [l \in ListLoad |-> NoLoad]
  BY Zenon DEF ImportsInit
<1>2. ImportsTypeOK
  <2>1. ups \in 0..MaxUps /\ imports \in 0..MaxImports /\ copies \in [ImportEntry -> 0..2]
    BY <1>1, ImportsAssumption
  <2>2. importRun \in [ImportRun -> Import] /\ listLoad \in [ListLoad -> Load]
    BY <1>1, NoImportType, NoLoadType
  <2>3. accepts \in BOOLEAN /\ cardOpen \in BOOLEAN /\ cardBusy \in BOOLEAN
    BY Zenon DEF ImportsInit
  <2>4. pick \subseteq ImportEntry /\ unsure \subseteq ImportEntry /\ rows \in {NoRows} \cup {<<s>> : s \in SUBSET ImportEntry}
    BY <1>1
  <2> QED BY <2>1, <2>2, <2>3, <2>4, Zenon DEF ImportsTypeOK
<1>3. /\ \A r \in ImportRun : ~Mine(r) /\ importRun[r].todo = {}
      /\ \A l \in ListLoad : ~listLoad[l].last
      /\ \A e \in ImportEntry : copies[e] = 0
  BY <1>1, NoImportType, NoLoadType DEF Mine
<1>4. BusyInv /\ TodoInv /\ UnsureInv /\ TickedInv /\ TwiceForAReason
  BY <1>1, <1>3 DEF BusyInv, TodoInv, UnsureInv, TickedInv, TwiceForAReason
<1> QED BY <1>2, <1>4 DEF ImportsInv

\* The types of the variables.
LEMMA ImportsTypes ==
  ASSUME ImportsTypeOK
  PROVE  /\ copies \in [ImportEntry -> 0..2] /\ pick \subseteq ImportEntry /\ unsure \subseteq ImportEntry
         /\ importRun \in [ImportRun -> Import] /\ listLoad \in [ListLoad -> Load]
         /\ ups \in 0..MaxUps /\ imports \in 0..MaxImports
         /\ rows \in {NoRows} \cup {<<s>> : s \in SUBSET ImportEntry}
  BY Zenon DEF ImportsTypeOK

\* A list is asked for.
LEMMA LoadsStep ==
  ASSUME ImportsTypeOK, NEW last \in BOOLEAN, Loads(last)
  PROVE  /\ listLoad' \in [ListLoad -> Load]
         /\ \E l \in ListLoad : /\ listLoad'[l].last = last
                                /\ \A k \in ListLoad : k # l => listLoad'[k] = listLoad[k]
<1>1. PICK l \in ListLoad :
        listLoad' = [listLoad EXCEPT ![l] = [at |-> "asked", there |-> {}, last |-> last]]
  BY DEF Loads
<1> DEFINE new == [at |-> "asked", there |-> {}, last |-> last]
<1>2. new \in Load /\ new.last = last
  BY DEF Load
<1> HIDE DEF new
<1>3. listLoad' = [listLoad EXCEPT ![l] = new]
  BY <1>1 DEF new
<1> QED BY <1>2, <1>3, ImportsTypes

LEMMA LoadsPlain ==
  ASSUME ImportsTypeOK, Loads(FALSE)
  PROVE  listLoad' \in [ListLoad -> Load] /\ \A l \in ListLoad : listLoad'[l].last => listLoad[l].last
  BY LoadsStep, Zenon

\* The page is displayed, left, and told that the node comes or goes.
LEMMA OpenStep == ASSUME ImportsInv, OpenCard PROVE ImportsInv'
<1>1. /\ ~cardOpen /\ cardOpen' = TRUE /\ rows' = NoRows /\ pick' = {} /\ cardBusy' = FALSE
      /\ Loads(FALSE) /\ UNCHANGED <<accepts, ups, copies, importRun, imports, unsure>>
  BY Zenon DEF OpenCard
<1>2. listLoad' \in [ListLoad -> Load] /\ \A l \in ListLoad : ~listLoad'[l].last
  BY <1>1, LoadsPlain, Zenon DEF ImportsInv, BusyInv
<1>3. \A r \in ImportRun : ~Mine(r)
  BY <1>1, Zenon DEF ImportsInv, BusyInv
<1>4. ImportsTypeOK'
  BY <1>1, <1>2, Zenon DEF ImportsInv, ImportsTypeOK
<1>5. BusyInv' /\ TodoInv' /\ UnsureInv' /\ TickedInv' /\ TwiceForAReason'
  BY <1>1, <1>2, <1>3 DEF ImportsInv, BusyInv, TodoInv, UnsureInv, TickedInv, TwiceForAReason, Mine
<1> QED BY <1>4, <1>5 DEF ImportsInv

LEMMA LeaveStep == ASSUME ImportsInv, LeaveCard PROVE ImportsInv'
<1>1. /\ cardOpen' = FALSE /\ rows' = NoRows /\ pick' = {} /\ cardBusy' = FALSE
      /\ listLoad' = [l \in ListLoad |-> NoLoad]
      /\ importRun' = [r \in ImportRun |-> [importRun[r] EXCEPT !.answers = FALSE]]
      /\ UNCHANGED <<accepts, ups, copies, imports, unsure>>
  BY Zenon DEF LeaveCard
<1>2. /\ importRun' \in [ImportRun -> Import]
      /\ \A r \in ImportRun : /\ importRun'[r].todo = importRun[r].todo /\ importRun'[r].answers = FALSE
                              /\ importRun'[r].asked = importRun[r].asked
                              /\ importRun'[r].failed = importRun[r].failed
  BY <1>1, ImportsTypes DEF ImportsInv, Import
<1>3. listLoad' \in [ListLoad -> Load] /\ \A l \in ListLoad : ~listLoad'[l].last
  BY <1>1, NoLoadType
<1>4. ImportsTypeOK'
  BY <1>1, <1>2, <1>3, Zenon DEF ImportsInv, ImportsTypeOK
<1>5. \A r \in ImportRun : ~Mine(r)'
  BY <1>2 DEF Mine
<1>6. BusyInv' /\ TodoInv' /\ TwiceForAReason'
  BY <1>1, <1>2, <1>3, <1>5 DEF ImportsInv, BusyInv, TodoInv, TwiceForAReason
<1>7. UnsureInv' /\ TickedInv'
  BY <1>1, <1>2, <1>5 DEF ImportsInv, UnsureInv, TickedInv
<1> QED BY <1>4, <1>6, <1>7 DEF ImportsInv

LEMMA TurnStep == ASSUME ImportsInv, Turns PROVE ImportsInv'
<1>1. /\ ups < MaxUps /\ ups' = ups + 1 /\ accepts' = ~accepts
      /\ Loads(FALSE) \/ UNCHANGED listLoad
      /\ UNCHANGED <<copies, cardOpen, rows, pick, cardBusy, importRun, imports, unsure>>
  BY Zenon DEF Turns, cardVars
<1>2. listLoad' \in [ListLoad -> Load] /\ \A l \in ListLoad : listLoad'[l].last => listLoad[l].last
  <2>1. CASE UNCHANGED listLoad
    BY <2>1, ImportsTypes, Zenon DEF ImportsInv
  <2> QED BY <1>1, <2>1, LoadsPlain, Zenon DEF ImportsInv
<1>3. ups' \in 0..MaxUps
  <2>1. ups < MaxUps /\ ups' = ups + 1
    BY <1>1, Zenon
  <2> QED BY <2>1, ImportsTypes, ImportsAssumption DEF ImportsInv
<1>4. ImportsTypeOK'
  BY <1>1, <1>2, <1>3, Zenon DEF ImportsInv, ImportsTypeOK
<1>5. BusyInv'
  BY <1>1, <1>2, Zenon DEF ImportsInv, BusyInv, Mine
<1>6. TodoInv' /\ UnsureInv' /\ TickedInv' /\ TwiceForAReason'
  BY <1>1, Zenon DEF ImportsInv, TodoInv, UnsureInv, TickedInv, TwiceForAReason, Mine
<1> QED BY <1>4, <1>5, <1>6 DEF ImportsInv

\* The list is read, and comes back; the last one of an import ends it.
LEMMA ListSteps ==
  ASSUME ImportsInv, NEW l \in ListLoad, ClassicListRead(l) \/ ListBack(l) PROVE ImportsInv'
<1>0. listLoad \in [ListLoad -> Load]
  BY ImportsTypes DEF ImportsInv
<1>1. CASE ClassicListRead(l)
  <2>1. UNCHANGED <<accepts, ups, copies, cardOpen, rows, pick, cardBusy, importRun, imports, unsure>>
    BY <1>1, Zenon DEF ClassicListRead, cardVars
  <2>2. PICK seen \in {There, {}} : listLoad' = [listLoad EXCEPT ![l].at = "read", ![l].there = seen]
    BY <1>1, Zenon DEF ClassicListRead
  <2>3. /\ listLoad' \in [ListLoad -> Load]
        /\ \A k \in ListLoad : listLoad'[k].last = listLoad[k].last
    <3>1. seen \subseteq ImportEntry
      BY <2>2 DEF There
    <3> QED BY <1>0, <2>2, <3>1 DEF Load
  <2>4. ImportsTypeOK'
    BY <2>1, <2>3, Zenon DEF ImportsInv, ImportsTypeOK
  <2>5. BusyInv' /\ TodoInv' /\ UnsureInv' /\ TickedInv' /\ TwiceForAReason'
    BY <2>1, <2>3, Zenon DEF ImportsInv, BusyInv, TodoInv, UnsureInv, TickedInv, TwiceForAReason, Mine
  <2> QED BY <2>4, <2>5 DEF ImportsInv
<1>2. CASE ListBack(l)
  <2>1. /\ listLoad' = [listLoad EXCEPT ![l] = NoLoad]
        /\ rows' = <<listLoad[l].there>> /\ cardBusy' = (cardBusy /\ ~listLoad[l].last)
        /\ UNCHANGED <<accepts, ups, copies, cardOpen, pick, importRun, imports, unsure>>
    BY <1>2, Zenon DEF ListBack
  <2>2. /\ listLoad' \in [ListLoad -> Load] /\ ~listLoad'[l].last
        /\ \A k \in ListLoad : k # l => listLoad'[k] = listLoad[k]
    BY <1>0, <2>1, NoLoadType
  <2>3. ImportsTypeOK'
    <3>1. rows' \in {NoRows} \cup {<<s>> : s \in SUBSET ImportEntry}
      BY <1>0, <2>1 DEF Load
    <3>2. cardBusy' \in BOOLEAN
      BY <2>1, Zenon
    <3> QED BY <2>1, <2>2, <3>1, <3>2, Zenon DEF ImportsInv, ImportsTypeOK
  <2>4. BusyInv'
    <3>1. ASSUME NEW r \in ImportRun, Mine(r) PROVE cardOpen' /\ cardBusy'
      BY <2>1, <3>1, Zenon DEF ImportsInv, BusyInv
    <3>2. ASSUME NEW k \in ListLoad, listLoad'[k].last
          PROVE  cardOpen' /\ cardBusy' /\ listLoad[k].last /\ k # l
      <4>1. k # l /\ listLoad[k].last
        BY <2>2, <3>2
      <4>2. ~listLoad[l].last
        BY <4>1, Zenon DEF ImportsInv, BusyInv
      <4> QED BY <2>1, <4>1, <4>2, Zenon DEF ImportsInv, BusyInv
    <3>3. \A r \in ImportRun : Mine(r)' <=> Mine(r)
      BY <2>1 DEF Mine
    <3> QED BY <3>1, <3>2, <3>3, Zenon DEF ImportsInv, BusyInv
  <2>5. TodoInv' /\ UnsureInv' /\ TickedInv' /\ TwiceForAReason'
    BY <2>1, Zenon DEF ImportsInv, TodoInv, UnsureInv, TickedInv, TwiceForAReason, Mine
  <2> QED BY <2>3, <2>4, <2>5 DEF ImportsInv
<1> QED BY <1>1, <1>2

\* Something is ticked: who ticks what is there already, or is on its way, cannot know it.
LEMMA Ticked ==
  ASSUME ImportsInv, NEW new \in SUBSET ImportEntry,
         pick' \subseteq pick \cup new, unsure' = unsure \cup (new \cap (There \cup OnItsWay)),
         UNCHANGED <<accepts, ups, copies, cardOpen, rows, cardBusy, importRun, listLoad, imports>>
  PROVE  ImportsInv'
<1>1. pick' \subseteq ImportEntry /\ unsure' \subseteq ImportEntry /\ unsure \subseteq unsure'
  BY ImportsTypes DEF ImportsInv
<1>2. ImportsTypeOK'
  BY <1>1, Zenon DEF ImportsInv, ImportsTypeOK
<1>3. BusyInv' /\ TodoInv'
  BY Zenon DEF ImportsInv, BusyInv, TodoInv, Mine
<1>4. TwiceForAReason'
  BY <1>1 DEF ImportsInv, TwiceForAReason
<1>5. ASSUME NEW s \in ImportRun, ~Mine(s) PROVE pick' \cap importRun[s].todo \subseteq unsure'
  <2>1. importRun[s].todo \subseteq OnItsWay
    BY <1>5 DEF OnItsWay, Mine
  <2>2. pick \cap importRun[s].todo \subseteq unsure
    BY <1>5 DEF ImportsInv, UnsureInv
  <2> QED BY <2>1, <2>2
<1>6. UnsureInv'
  <2>1. \A r \in ImportRun : Mine(r)' <=> Mine(r)
    BY DEF Mine
  <2>2. /\ \A r \in ImportRun : \A e \in importRun[r].todo : copies[e] > 0 => e \in unsure'
        /\ \A r, s \in ImportRun : r # s => importRun[r].todo \cap importRun[s].todo \subseteq unsure'
        /\ \A r, s \in ImportRun : Mine(r) /\ ~Mine(s) => importRun[r].asked \cap importRun[s].todo \subseteq unsure'
    BY <1>1 DEF ImportsInv, UnsureInv
  <2> QED BY <1>5, <2>1, <2>2 DEF UnsureInv
<1>7. TickedInv'
  <2>1. \A r \in ImportRun : Mine(r)' <=> Mine(r)
    BY DEF Mine
  <2>2. ASSUME \A r \in ImportRun : ~Mine(r), NEW e \in pick', copies[e] > 0 PROVE e \in unsure'
    <3>1. CASE e \in pick
      BY <1>1, <2>2, <3>1 DEF ImportsInv, TickedInv
    <3>2. CASE e \in new
      BY <2>2, <3>2 DEF There
    <3> QED BY <2>2, <3>1, <3>2
  <2>3. ASSUME NEW r \in ImportRun, Mine(r), NEW e \in importRun[r].asked \cap importRun[r].failed, copies[e] > 0
        PROVE  e \in unsure'
    BY <1>1, <2>3 DEF ImportsInv, TickedInv
  <2> QED BY <2>1, <2>2, <2>3 DEF TickedInv
<1> QED BY <1>2, <1>3, <1>4, <1>6, <1>7 DEF ImportsInv

LEMMA TickSteps ==
  ASSUME ImportsInv, SelectAll \/ SelectNone \/ \E e \in ImportEntry : TickEntry(e) PROVE ImportsInv'
<1>1. CASE SelectAll
  <2>1. Importable \in SUBSET ImportEntry
    BY DEF Importable
  <2>2. /\ pick' = Importable /\ unsure' = unsure \cup (Importable \cap (There \cup OnItsWay))
        /\ UNCHANGED <<accepts, ups, copies, cardOpen, rows, cardBusy, importRun, listLoad, imports>>
    BY <1>1, Zenon DEF SelectAll
  <2>3. pick' \subseteq pick \cup Importable
    BY <2>2
  <2> QED BY <2>1, <2>2, <2>3, Ticked
<1>2. CASE SelectNone
  <2>1. /\ pick' = {}
        /\ UNCHANGED <<accepts, ups, copies, cardOpen, rows, cardBusy, importRun, listLoad, imports, unsure>>
    BY <1>2, Zenon DEF SelectNone
  <2>2. pick' \subseteq pick \cup {} /\ unsure' = unsure \cup ({} \cap (There \cup OnItsWay))
        /\ {} \in SUBSET ImportEntry
    BY <2>1
  <2> QED BY <2>1, <2>2, Ticked
<1>3. ASSUME NEW e \in ImportEntry, TickEntry(e) PROVE ImportsInv'
  <2>1. /\ pick' = IF e \in pick THEN pick \ {e} ELSE pick \cup {e}
        /\ unsure' = unsure \cup ({e} \cap (There \cup OnItsWay))
        /\ UNCHANGED <<accepts, ups, copies, cardOpen, rows, cardBusy, importRun, listLoad, imports>>
    BY <1>3, Zenon DEF TickEntry
  <2>2. pick' \subseteq pick \cup {e} /\ {e} \in SUBSET ImportEntry
    BY <2>1
  <2> QED BY <2>1, <2>2, Ticked
<1> QED BY <1>1, <1>2, <1>3

\* An import starts with what is ticked.
LEMMA PressStep == ASSUME ImportsInv, PressImport PROVE ImportsInv'
<1>0. /\ ~cardBusy /\ ListShown /\ imports < MaxImports /\ imports' = imports + 1 /\ cardBusy' = TRUE
      /\ UNCHANGED <<accepts, ups, copies, cardOpen, rows, pick, listLoad, unsure>>
  BY Zenon DEF PressImport
<1> DEFINE new == [todo |-> pick, asked |-> pick, failed |-> {}, answers |-> TRUE]
<1>1. PICK x \in ImportRun : importRun[x] = NoImport /\ importRun' = [importRun EXCEPT ![x] = new]
  BY Zenon DEF PressImport
<1>2. new \in Import /\ new.todo = pick /\ new.asked = pick /\ new.failed = {} /\ new.answers
  BY ImportsTypes DEF ImportsInv, Import
<1> HIDE DEF new
<1>3. /\ importRun' \in [ImportRun -> Import] /\ importRun'[x] = new
      /\ \A r \in ImportRun : r # x => importRun'[r] = importRun[r]
  BY <1>1, <1>2, ImportsTypes DEF ImportsInv
<1>4. /\ \A r \in ImportRun : ~Mine(r)
      /\ \A l \in ListLoad : ~listLoad[l].last
  BY <1>0, Zenon DEF ImportsInv, BusyInv
<1>5. \A r \in ImportRun : Mine(r)' <=> r = x
  BY <1>2, <1>3, <1>4 DEF Mine
<1>6. ImportsTypeOK'
  <2>1. imports' \in 0..MaxImports
    <3>1. imports < MaxImports /\ imports' = imports + 1
      BY <1>0, Zenon
    <3> QED BY <3>1, ImportsTypes, ImportsAssumption DEF ImportsInv
  <2> QED BY <1>0, <1>3, <2>1, Zenon DEF ImportsInv, ImportsTypeOK
<1>7. BusyInv'
  <2>1. cardOpen
    BY <1>0, Zenon DEF ListShown
  <2> QED BY <1>0, <1>4, <1>5, <2>1, Zenon DEF BusyInv
<1>8. TodoInv'
  BY <1>2, <1>3 DEF ImportsInv, TodoInv
<1>9. UnsureInv'
  <2>1. \A s \in ImportRun : pick \cap importRun[s].todo \subseteq unsure
    BY <1>4 DEF ImportsInv, UnsureInv
  <2>2. \A e \in pick : copies[e] > 0 => e \in unsure
    BY <1>4 DEF ImportsInv, TickedInv
  <2>3. \A r \in ImportRun : \A e \in importRun'[r].todo : copies[e] > 0 => e \in unsure
    BY <1>2, <1>3, <2>2 DEF ImportsInv, UnsureInv
  <2>4. \A r, s \in ImportRun : r # s => importRun'[r].todo \cap importRun'[s].todo \subseteq unsure
    BY <1>2, <1>3, <2>1 DEF ImportsInv, UnsureInv
  <2>5. \A s \in ImportRun : s # x => pick \cap importRun'[s].todo \subseteq unsure
    BY <1>3, <2>1
  <2> QED BY <1>0, <1>2, <1>3, <1>5, <2>3, <2>4, <2>5 DEF UnsureInv
<1>10. TickedInv' /\ TwiceForAReason'
  <2>1. importRun'[x].failed = {}
    BY <1>2, <1>3
  <2>2. TwiceForAReason'
    BY <1>0, Zenon DEF ImportsInv, TwiceForAReason
  <2>3. TickedInv'
    BY <1>5, <2>1 DEF TickedInv
  <2> QED BY <2>2, <2>3
<1> QED BY <1>6, <1>7, <1>8, <1>9, <1>10 DEF ImportsInv

\* An import comes to an entry that it has still to add.
LEMMA RowStep ==
  ASSUME ImportsInv, NEW x \in ImportRun, NEW e \in ImportEntry, ImportRow(x, e) PROVE ImportsInv'
<1>0. /\ e \in importRun[x].todo /\ copies[e] < 2
      /\ UNCHANGED <<accepts, ups, cardOpen, rows, pick, cardBusy, listLoad, imports>>
  BY Zenon DEF ImportRow, cardVars
<1>1. PICK added \in BOOLEAN, answered \in BOOLEAN :
        /\ copies' = IF added THEN [copies EXCEPT ![e] = @ + 1] ELSE copies
        /\ unsure' = IF added /\ ~answered THEN unsure \cup {e} ELSE unsure
        /\ RowDone(x, e, added /\ answered)
  BY Zenon DEF ImportRow
<1> DEFINE todo == importRun[x].todo \ {e}
           failed == IF added /\ answered THEN importRun[x].failed ELSE importRun[x].failed \cup {e}
<1>2. importRun[x] \in Import /\ importRun \in [ImportRun -> Import]
  BY ImportsTypes DEF ImportsInv
<1>3. /\ importRun' \in [ImportRun -> Import]
      /\ importRun'[x].todo = todo /\ importRun'[x].failed = failed
      /\ importRun'[x].asked = importRun[x].asked /\ importRun'[x].answers = importRun[x].answers
      /\ \A r \in ImportRun : r # x => importRun'[r] = importRun[r]
  <2>1. importRun' = [importRun EXCEPT ![x].todo = @ \ {e},
                                       ![x].failed = IF added /\ answered THEN @ ELSE @ \cup {e}]
    BY <1>1 DEF RowDone
  <2> QED BY <1>2, <2>1 DEF Import
<1> DEFINE known == added /\ answered
<1>4. /\ todo \subseteq importRun[x].todo /\ failed \subseteq importRun[x].failed \cup {e}
      /\ (known => failed = importRun[x].failed) /\ e \notin todo
  OBVIOUS
<1>5. /\ copies' \in [ImportEntry -> 0..2]
      /\ \A f \in ImportEntry : f # e => copies'[f] = copies[f]
      /\ added => copies[e] + 1 = copies'[e]
      /\ ~added => copies' = copies
  BY <1>0, <1>1, ImportsTypes DEF ImportsInv
<1>6. unsure \subseteq unsure' /\ unsure' \subseteq ImportEntry /\ (added /\ ~known => e \in unsure')
  BY <1>1, ImportsTypes DEF ImportsInv
<1> HIDE DEF todo, failed, known
<1>7. copies[e] > 0 => e \in unsure
  BY <1>0 DEF ImportsInv, UnsureInv
<1>8. \A r \in ImportRun : Mine(r)' <=> Mine(r)
  BY <1>3 DEF Mine
<1>9. \A r \in ImportRun : importRun'[r].todo \subseteq importRun[r].todo /\ importRun'[r].asked = importRun[r].asked
  BY <1>3, <1>4
<1>10. ImportsTypeOK'
  BY <1>0, <1>3, <1>5, <1>6, Zenon DEF ImportsInv, ImportsTypeOK
<1>11. BusyInv'
  BY <1>0, <1>8, Zenon DEF ImportsInv, BusyInv
<1>12. TodoInv'
  BY <1>3, <1>4 DEF ImportsInv, TodoInv
<1>13. UnsureInv'
  <2>1. ASSUME NEW r \in ImportRun, NEW f \in importRun'[r].todo, copies'[f] > 0 PROVE f \in unsure'
    <3>0. f \in importRun[r].todo
      BY <1>9, <2>1
    <3>1. CASE f = e
      <4>1. r # x
        BY <1>3, <1>4, <2>1, <3>1
      <4> QED BY <1>0, <1>6, <3>0, <3>1, <4>1 DEF ImportsInv, UnsureInv
    <3>2. CASE f # e
      <4>1. f \in ImportEntry
        BY <1>2, <3>0 DEF Import
      <4> QED BY <1>5, <1>6, <2>1, <3>0, <3>2, <4>1 DEF ImportsInv, UnsureInv
    <3> QED BY <3>1, <3>2
  <2>2. \A r, s \in ImportRun : r # s => importRun'[r].todo \cap importRun'[s].todo \subseteq unsure'
    BY <1>6, <1>9 DEF ImportsInv, UnsureInv
  <2>3. \A r, s \in ImportRun : Mine(r) /\ ~Mine(s) => importRun'[r].asked \cap importRun'[s].todo \subseteq unsure'
    BY <1>6, <1>9 DEF ImportsInv, UnsureInv
  <2>4. \A s \in ImportRun : ~Mine(s) => pick \cap importRun'[s].todo \subseteq unsure'
    BY <1>6, <1>9 DEF ImportsInv, UnsureInv
  <2> QED BY <1>0, <1>8, <2>1, <2>2, <2>3, <2>4 DEF UnsureInv
<1>14. TickedInv'
  <2>1. ASSUME \A r \in ImportRun : ~Mine(r), NEW f \in pick, copies'[f] > 0 PROVE f \in unsure'
    <3>1. CASE f = e
      BY <1>0, <1>6, <2>1, <3>1 DEF ImportsInv, UnsureInv
    <3>2. CASE f # e
      BY <1>5, <1>6, <2>1, <3>2, ImportsTypes DEF ImportsInv, TickedInv
    <3> QED BY <3>1, <3>2
  <2>2. ASSUME NEW r \in ImportRun, Mine(r), NEW f \in importRun'[r].asked \cap importRun'[r].failed, copies'[f] > 0
        PROVE  f \in unsure'
    <3>1. CASE f # e
      <4>1. f \in importRun[r].asked \cap importRun[r].failed /\ f \in ImportEntry
        BY <1>2, <1>3, <1>4, <2>2, <3>1 DEF Import
      <4> QED BY <1>5, <1>6, <2>2, <3>1, <4>1 DEF ImportsInv, TickedInv
    <3>2. CASE f = e /\ r # x
      <4>1. CASE Mine(x)
        BY <2>2, <3>2, <4>1, Zenon DEF ImportsInv, BusyInv
      <4>2. CASE ~Mine(x)
        BY <1>0, <1>6, <1>9, <2>2, <3>2, <4>2 DEF ImportsInv, UnsureInv
      <4> QED BY <4>1, <4>2
    <3>3. CASE f = e /\ r = x
      <4>1. e \notin importRun[x].failed
        BY <1>0 DEF ImportsInv, TodoInv
      <4>2. ~known
        BY <1>3, <1>4, <2>2, <3>3, <4>1
      <4>3. CASE added
        BY <1>6, <3>3, <4>2, <4>3
      <4>4. CASE ~added
        BY <1>5, <1>6, <1>7, <2>2, <3>3, <4>4
      <4> QED BY <4>3, <4>4
    <3> QED BY <3>1, <3>2, <3>3
  <2> QED BY <1>0, <1>8, <2>1, <2>2 DEF TickedInv
<1>15. TwiceForAReason'
  <2>1. ASSUME NEW f \in ImportEntry, copies'[f] = 2 PROVE f \in unsure'
    <3>1. CASE f # e
      BY <1>5, <1>6, <2>1, <3>1 DEF ImportsInv, TwiceForAReason
    <3>2. CASE f = e
      <4>1. copies[e] > 0
        BY <1>0, <1>5, <2>1, <3>2, ImportsTypes DEF ImportsInv
      <4> QED BY <1>6, <1>7, <3>2, <4>1
    <3> QED BY <3>1, <3>2
  <2> QED BY <2>1 DEF TwiceForAReason
<1> QED BY <1>10, <1>11, <1>12, <1>13, <1>14, <1>15 DEF ImportsInv

\* The import is over; what failed stays ticked, if the page is still there.
LEMMA BackStep == ASSUME ImportsInv, NEW x \in ImportRun, ImportBack(x) PROVE ImportsInv'
<1>0. /\ importRun[x].todo = {} /\ importRun' = [importRun EXCEPT ![x] = NoImport]
      /\ UNCHANGED <<accepts, ups, copies, cardOpen, rows, cardBusy, imports, unsure>>
      /\ \/ importRun[x].answers /\ pick' = StillTicked(x) /\ Loads(TRUE)
         \/ ~importRun[x].answers /\ UNCHANGED <<pick, listLoad>>
  BY Zenon DEF ImportBack
<1>1. importRun \in [ImportRun -> Import] /\ pick \subseteq ImportEntry
  BY ImportsTypes DEF ImportsInv
<1>2. /\ importRun' \in [ImportRun -> Import] /\ importRun'[x] = NoImport
      /\ \A r \in ImportRun : r # x => importRun'[r] = importRun[r]
  BY <1>0, <1>1, NoImportType
<1>3. \A r \in ImportRun : Mine(r)' <=> (Mine(r) /\ r # x)
  BY <1>2, NoImportType DEF Mine
<1>4. TodoInv' /\ TwiceForAReason'
  <2>1. TodoInv'
    BY <1>2, NoImportType DEF ImportsInv, TodoInv
  <2> QED BY <1>0, <2>1, Zenon DEF ImportsInv, TwiceForAReason
<1>5. /\ \A r \in ImportRun : \A e \in importRun'[r].todo : copies[e] > 0 => e \in unsure
      /\ \A r, s \in ImportRun : r # s => importRun'[r].todo \cap importRun'[s].todo \subseteq unsure
      /\ \A r, s \in ImportRun : Mine(r)' /\ ~Mine(s)' => importRun'[r].asked \cap importRun'[s].todo \subseteq unsure
  <2>1. \A r \in ImportRun : \A e \in importRun'[r].todo : copies[e] > 0 => e \in unsure
    BY <1>2, NoImportType DEF ImportsInv, UnsureInv
  <2>2. \A r, s \in ImportRun : r # s => importRun'[r].todo \cap importRun'[s].todo \subseteq unsure
    BY <1>2, NoImportType DEF ImportsInv, UnsureInv
  <2>3. ASSUME NEW r \in ImportRun, NEW s \in ImportRun, Mine(r)', ~Mine(s)'
        PROVE  importRun'[r].asked \cap importRun'[s].todo \subseteq unsure
    <3>1. Mine(r) /\ r # x /\ importRun'[r] = importRun[r]
      BY <1>2, <1>3, <2>3
    <3>2. CASE s = x
      BY <1>2, <3>2, NoImportType
    <3>3. CASE s # x
      BY <1>2, <1>3, <2>3, <3>1, <3>3 DEF ImportsInv, UnsureInv
    <3> QED BY <3>2, <3>3
  <2> QED BY <2>1, <2>2, <2>3
<1>6. CASE importRun[x].answers /\ pick' = StillTicked(x) /\ Loads(TRUE)
  <2>1. Mine(x) /\ (\A r \in ImportRun : ~Mine(r)') /\ (\A l \in ListLoad : ~listLoad[l].last)
        /\ cardOpen /\ cardBusy
    <3>1. Mine(x)
      BY <1>6 DEF Mine
    <3>2. cardOpen /\ cardBusy /\ (\A r \in ImportRun : Mine(r) => r = x) /\ (\A l \in ListLoad : ~listLoad[l].last)
      BY <3>1, Zenon DEF ImportsInv, BusyInv
    <3> QED BY <1>3, <3>1, <3>2, Zenon
  <2>2. /\ listLoad' \in [ListLoad -> Load]
        /\ \E l \in ListLoad : /\ listLoad'[l].last = TRUE
                               /\ \A k \in ListLoad : k # l => listLoad'[k] = listLoad[k]
    BY <1>6, LoadsStep, Zenon DEF ImportsInv
  <2>3. \A l, k \in ListLoad : listLoad'[l].last /\ listLoad'[k].last => l = k
    BY <2>1, <2>2
  <2>4. BusyInv'
    BY <1>0, <2>1, <2>3, Zenon DEF BusyInv
  <2>5. pick' \subseteq importRun[x].asked /\ pick' \subseteq importRun[x].failed /\ pick' \subseteq ImportEntry
    BY <1>1, <1>6 DEF StillTicked, Import
  <2>6. ImportsTypeOK'
    BY <1>0, <1>2, <2>2, <2>5, Zenon DEF ImportsInv, ImportsTypeOK
  <2>7. UnsureInv'
    <3>1. ASSUME NEW s \in ImportRun PROVE pick' \cap importRun'[s].todo \subseteq unsure
      <4>1. CASE s = x
        BY <1>2, <4>1, NoImportType
      <4>2. CASE s # x
        <5>1. ~Mine(s)
          BY <2>1, <4>2, <1>3
        <5> QED BY <1>2, <2>1, <2>5, <4>2, <5>1 DEF ImportsInv, UnsureInv
      <4> QED BY <4>1, <4>2
    <3> QED BY <1>0, <1>5, <3>1 DEF UnsureInv
  <2>8. TickedInv'
    <3>1. \A e \in pick' : copies[e] > 0 => e \in unsure
      BY <2>1, <2>5 DEF ImportsInv, TickedInv
    <3> QED BY <1>0, <2>1, <3>1 DEF TickedInv
  <2> QED BY <1>4, <2>4, <2>6, <2>7, <2>8 DEF ImportsInv
<1>7. CASE ~importRun[x].answers /\ UNCHANGED <<pick, listLoad>>
  <2>1. \A r \in ImportRun : Mine(r)' <=> Mine(r)
    BY <1>3, <1>7 DEF Mine
  <2>2. BusyInv'
    BY <1>0, <1>7, <2>1, Zenon DEF ImportsInv, BusyInv
  <2>3. ImportsTypeOK'
    BY <1>0, <1>2, <1>7, Zenon DEF ImportsInv, ImportsTypeOK
  <2>4. UnsureInv'
    <3>1. \A s \in ImportRun : ~Mine(s)' => pick \cap importRun'[s].todo \subseteq unsure
      BY <1>2, <2>1, NoImportType DEF ImportsInv, UnsureInv
    <3> QED BY <1>0, <1>5, <1>7, <3>1 DEF UnsureInv
  <2>5. TickedInv'
    <3>1. \A r \in ImportRun : Mine(r) => r # x /\ importRun'[r] = importRun[r]
      BY <1>2, <1>7 DEF Mine
    <3> QED BY <1>0, <1>7, <2>1, <3>1 DEF ImportsInv, TickedInv
  <2> QED BY <1>4, <2>2, <2>3, <2>4, <2>5 DEF ImportsInv
<1> QED BY <1>0, <1>6, <1>7

LEMMA ImportsInvStep == ImportsInv /\ [ImportsNext]_importVars => ImportsInv'
<1> SUFFICES ASSUME ImportsInv, [ImportsNext]_importVars PROVE ImportsInv'
  OBVIOUS
<1>1. CASE UNCHANGED importVars
  BY <1>1, Zenon DEF importVars, cardVars, ImportsInv, ImportsTypeOK, BusyInv, TodoInv, UnsureInv, TickedInv,
    TwiceForAReason, Mine
<1>2. ASSUME NEW l \in ListLoad, ClassicListRead(l) \/ ListBack(l) PROVE ImportsInv'
  BY <1>2, ListSteps, Zenon
<1>3. ASSUME NEW r \in ImportRun, NEW e \in ImportEntry, ImportRow(r, e) PROVE ImportsInv'
  BY <1>3, RowStep, Zenon
<1> QED BY <1>1, <1>2, <1>3, OpenStep, LeaveStep, TurnStep, TickSteps, PressStep, BackStep, Zenon DEF ImportsNext

LEMMA ImportsInvAlways == ImportsSpec => []ImportsInv
  BY ImportsInvInit, ImportsInvStep, PTL DEF ImportsSpec

-----------------------------------------------------------------------------
(* The pages together, and the carry-over as part of them.                  *)

\* Whoever acts on what a page has shown does no harm that the page could have told of: calls of
\* the Parlons account, imports from the classic node and calls of the network page.
THEOREM SettingsPagesHonest == SettingsSpec => []PagesHonest
<1>1. AccountInv /\ ImportsInv /\ NetworkInv => PagesHonest
  BY Zenon DEF AccountInv, ImportsInv, NetworkInv, PagesHonest
<1> QED BY <1>1, PartSpecs, AccountInvAlways, ImportsInvAlways, NetworkInvAlways, PTL
================================================================================
