------------------------------- MODULE DeskProofs -------------------------------
(***************************************************************************)
(* Proofs about what the desktop window shows (module MCDesk): for any      *)
(* dapps, tabs, requests, refreshes, submits and questions, and any bounds. *)
(***************************************************************************)
EXTENDS MCDesk, FiniteSetTheorems, TLAPS

-----------------------------------------------------------------------------
(* Sequences in which nothing is twice.                                     *)

\* One more at the end.
LEMMA AppendKeeps ==
  ASSUME NEW S, NEW s \in Seq(S), NEW x \in S, x \notin ToSet(s), IsInjective(s)
  PROVE  /\ Append(s, x) \in Seq(S) /\ IsInjective(Append(s, x))
         /\ ToSet(Append(s, x)) = ToSet(s) \cup {x}
<1> DEFINE t == Append(s, x)
<1>1. t \in Seq(S) /\ Len(t) = Len(s) + 1 /\ (\A i \in 1..Len(s) : t[i] = s[i]) /\ t[Len(s) + 1] = x
  OBVIOUS
<1>2. DOMAIN t = 1..(Len(s) + 1) /\ DOMAIN s = 1..Len(s) /\ Len(s) \in Nat
  BY <1>1
<1> HIDE DEF t
<1>3. ToSet(t) = ToSet(s) \cup {x}
  BY <1>1, <1>2 DEF ToSet
<1>4. IsInjective(t)
  <2> SUFFICES ASSUME NEW i \in 1..(Len(s) + 1), NEW j \in 1..(Len(s) + 1), t[i] = t[j] PROVE i = j
    BY <1>2 DEF IsInjective
  <2>1. \A k \in 1..Len(s) : s[k] # x
    BY <1>2 DEF ToSet
  <2>2. CASE i \in 1..Len(s) /\ j \in 1..Len(s)
    BY <1>1, <1>2, <2>2 DEF IsInjective
  <2>3. CASE i = Len(s) + 1 \/ j = Len(s) + 1
    BY <1>1, <1>2, <2>1, <2>3
  <2> QED BY <1>2, <2>2, <2>3
<1> QED BY <1>1, <1>3, <1>4 DEF t

\* One less: the others are as they were.
LEMMA RemoveKeeps ==
  ASSUME NEW S, NEW s \in Seq(S), NEW n \in DOMAIN s, IsInjective(s)
  PROVE  /\ RemoveAt(s, n) \in Seq(S) /\ IsInjective(RemoveAt(s, n))
         /\ ToSet(RemoveAt(s, n)) = ToSet(s) \ {s[n]}
<1> DEFINE t == RemoveAt(s, n)
<1>1. n \in 1..Len(s) /\ Len(s) \in Nat /\ DOMAIN s = 1..Len(s) /\ n \in Nat
  OBVIOUS
<1> DEFINE l == SubSeq(s, 1, n - 1)
           r == SubSeq(s, n + 1, Len(s))
<1>2. l \in Seq(S) /\ r \in Seq(S) /\ Len(l) = n - 1 /\ Len(r) = Len(s) - n
  BY <1>1
<1>3. (\A i \in 1..(n - 1) : l[i] = s[i]) /\ (\A i \in 1..(Len(s) - n) : r[i] = s[i + n])
  BY <1>1
<1>4. t = l \o r
  BY DEF RemoveAt
<1> HIDE DEF l, r, t
<1>5. t \in Seq(S) /\ Len(t) = Len(s) - 1
  <2>1. t \in Seq(S) /\ Len(t) = Len(l) + Len(r)
    BY <1>2, <1>4
  <2> QED BY <1>1, <1>2, <2>1
<1>6. DOMAIN t = 1..(Len(s) - 1)
  BY <1>5
<1>7. ASSUME NEW i \in 1..(Len(s) - 1) PROVE t[i] = IF i < n THEN s[i] ELSE s[i + 1]
  <2>1. CASE i < n
    BY <1>1, <1>2, <1>3, <1>4, <2>1
  <2>2. CASE ~(i < n)
    <3>1. i - (n - 1) \in 1..(Len(s) - n) /\ (i - (n - 1)) + n = i + 1
      BY <1>1, <2>2
    <3>2. t[i] = r[i - (n - 1)]
      BY <1>1, <1>2, <1>4, <2>2, <3>1
    <3> QED BY <1>3, <2>2, <3>1, <3>2
  <2> QED BY <2>1, <2>2
<1>8. IsInjective(t)
  <2> SUFFICES ASSUME NEW i \in 1..(Len(s) - 1), NEW j \in 1..(Len(s) - 1), t[i] = t[j] PROVE i = j
    BY <1>6 DEF IsInjective
  <2>1. \A k, m \in 1..Len(s) : s[k] = s[m] => k = m
    BY <1>1 DEF IsInjective
  <2> QED BY <1>1, <1>7, <2>1
<1>9. ToSet(t) = ToSet(s) \ {s[n]}
  <2>1. \A k \in 1..Len(s) : s[k] = s[n] => k = n
    BY <1>1 DEF IsInjective
  <2>2. ASSUME NEW y \in ToSet(t) PROVE y \in ToSet(s) /\ y # s[n]
    <3>1. PICK i \in 1..(Len(s) - 1) : y = t[i]
      BY <1>6 DEF ToSet
    <3>2. i \in 1..Len(s) /\ i + 1 \in 1..Len(s) /\ i \in Nat
      BY <1>1
    <3> QED BY <1>1, <1>7, <2>1, <3>1, <3>2 DEF ToSet
  <2>3. ASSUME NEW y \in ToSet(s), y # s[n] PROVE y \in ToSet(t)
    <3>1. PICK k \in 1..Len(s) : y = s[k]
      BY <1>1 DEF ToSet
    <3>2. CASE k < n
      BY <1>1, <1>6, <1>7, <3>1, <3>2 DEF ToSet
    <3>3. CASE k > n
      <4>1. k - 1 \in 1..(Len(s) - 1) /\ ~(k - 1 < n) /\ (k - 1) + 1 = k
        BY <1>1, <3>3
      <4>2. t[k - 1] = s[k]
        BY <1>7, <4>1
      <4> QED BY <1>6, <3>1, <4>1, <4>2 DEF ToSet
    <3> QED BY <1>1, <2>3, <3>1, <3>2, <3>3
  <2> QED BY <2>2, <2>3
<1> QED BY <1>5, <1>8, <1>9 DEF t

-----------------------------------------------------------------------------
(* The tab strip and the prompt.                                            *)

\* The lists that are being read are of requests that came.
WindowInv ==
  /\ WindowTypeOK /\ SnoozedStays /\ IsInjective(strip) /\ active \in {"home"} \cup ToSet(strip)
  /\ \A r \in Reader : reader[r].got # NoRead => reader[r].got \subseteq came

LEMMA NoneRead ==
  /\ NotReading.got = NoRead /\ NotReading \in [on : BOOLEAN, got : (SUBSET Request) \cup {NoRead}]
<1>1. NoRead \in (SUBSET Request) \cup {NoRead}
  OBVIOUS
<1>2. NotReading.got = NoRead /\ NotReading \in [on : BOOLEAN, got : (SUBSET Request) \cup {NoRead}]
  BY <1>1 DEF NotReading
<1> QED BY <1>2

LEMMA WindowStarts == WindowInit => WindowInv
<1> SUFFICES ASSUME WindowInit PROVE WindowInv
  OBVIOUS
<1>1. strip = <<>> /\ strip \in Seq(Tab) /\ IsInjective(strip)
  BY DEF WindowInit, IsInjective
<1>2. reader = [r \in Reader |-> NotReading]
  BY DEF WindowInit
<1>3. 0 \in 0..MaxRpcFails
  BY WindowAssumption DEF WindowAssumption
<1>4. WindowTypeOK
  BY <1>1, <1>2, <1>3, NoneRead DEF WindowInit, WindowTypeOK
<1> QED BY <1>1, <1>2, <1>4, NoneRead DEF WindowInit, WindowInv, SnoozedStays

\* The strip with a tab in it.
LEMMA StripHas ==
  ASSUME WindowInv, NEW t \in Tab,
         strip' = IF t \in ToSet(strip) THEN strip ELSE Append(strip, t)
  PROVE  strip' \in Seq(Tab) /\ IsInjective(strip') /\ ToSet(strip') = ToSet(strip) \cup {t}
<1>1. CASE t \in ToSet(strip)
  BY <1>1 DEF WindowInv, WindowTypeOK
<1>2. CASE t \notin ToSet(strip)
  <2>1. strip \in Seq(Tab) /\ IsInjective(strip)
    BY DEF WindowInv, WindowTypeOK
  <2>2. strip' = Append(strip, t)
    BY <1>2
  <2>3. /\ Append(strip, t) \in Seq(Tab) /\ IsInjective(Append(strip, t))
        /\ ToSet(Append(strip, t)) = ToSet(strip) \cup {t}
    BY <1>2, <2>1, AppendKeeps
  <2> QED BY <2>2, <2>3
<1> QED BY <1>1, <1>2

\* A step of the strip leaves the prompt as it is.
LEMMA StripKeeps ==
  ASSUME WindowInv, UNCHANGED promptVars, pop' \in BOOLEAN, strip' \in Seq(Tab), IsInjective(strip'),
         active' \in {"home"} \cup ToSet(strip'), active' \in {"home"} \cup Tab
  PROVE  WindowInv'
BY DEF WindowInv, WindowTypeOK, SnoozedStays, promptVars

LEMMA InStrip == ASSUME WindowInv PROVE ToSet(strip) \subseteq Tab /\ DOMAIN strip = 1..Len(strip)
<1>1. strip \in Seq(Tab)
  BY DEF WindowInv, WindowTypeOK
<1>2. DOMAIN strip = 1..Len(strip) /\ \A i \in 1..Len(strip) : strip[i] \in Tab
  BY <1>1
<1> QED BY <1>2 DEF ToSet

LEMMA TabsMove ==
  ASSUME WindowInv, NEW t \in {"home"} \cup Tab,
         \/ t \in Tab /\ (OpenTab(t) \/ TabClosed(t))
         \/ SwitchTab(t) \/ LeavePopover(t) \/ TogglePopover
  PROVE  WindowInv'
<1>1. strip \in Seq(Tab) /\ IsInjective(strip) /\ active \in {"home"} \cup ToSet(strip) /\ pop \in BOOLEAN
  BY DEF WindowInv, WindowTypeOK
<1>2. CASE t \in Tab /\ OpenTab(t)
  BY <1>1, <1>2, StripHas, StripKeeps DEF OpenTab
<1>3. CASE SwitchTab(t)
  BY <1>1, <1>3, InStrip, StripKeeps DEF SwitchTab
<1>4. CASE LeavePopover(t)
  <2>1. CASE t \in {"home"} \cup ToSet(strip)
    BY <1>1, <1>4, <2>1, InStrip, StripKeeps DEF LeavePopover
  <2>2. CASE t \notin {"home"} \cup ToSet(strip)
    BY <1>1, <1>4, <2>2, StripHas, StripKeeps DEF LeavePopover
  <2> QED BY <2>1, <2>2
<1>5. CASE TogglePopover
  BY <1>1, <1>5, InStrip, StripKeeps DEF TogglePopover
<1>6. CASE t \in Tab /\ TabClosed(t)
  <2>1. PICK i \in DOMAIN strip :
          /\ strip[i] = t /\ strip' = RemoveAt(strip, i)
          /\ active' = (IF active = t THEN Neighbour(i) ELSE active) /\ UNCHANGED <<pop, promptVars>>
    BY <1>6 DEF TabClosed
  <2>2. strip' \in Seq(Tab) /\ IsInjective(strip') /\ ToSet(strip') = ToSet(strip) \ {t}
    BY <1>1, <2>1, RemoveKeeps
  <2>3. Neighbour(i) \in {"home"} \cup (ToSet(strip) \ {t})
    <3>1. i \in 1..Len(strip) /\ Len(strip) \in Nat
      BY <1>1
    <3>2. i # 1 => i - 1 \in DOMAIN strip /\ strip[i - 1] # strip[i]
      BY <1>1, <3>1 DEF IsInjective
    <3> QED BY <2>1, <3>1, <3>2 DEF Neighbour, ToSet
  <2>4. active' \in {"home"} \cup ToSet(strip')
    BY <1>1, <2>1, <2>2, <2>3
  <2> QED BY <1>1, <2>1, <2>2, <2>4, InStrip, StripKeeps
<1> QED BY <1>2, <1>3, <1>4, <1>5, <1>6

\* A step of the prompt leaves the strip as it is.
LEMMA PromptKeeps ==
  ASSUME WindowInv, UNCHANGED stripVars,
         waits' \subseteq came', came' \subseteq Request, shown' \subseteq came', snoozed' \subseteq came',
         reader' \in [Reader -> [on : BOOLEAN, got : (SUBSET Request) \cup {NoRead}]],
         \A r \in Reader : reader'[r].got # NoRead => reader'[r].got \subseteq came',
         deciding' \in [Press -> Request \cup {NoRead}],
         rpcFails' \in 0..MaxRpcFails, shown' \cap snoozed' = {}
  PROVE  WindowInv'
BY DEF WindowInv, WindowTypeOK, SnoozedStays, stripVars

LEMMA PromptMoves ==
  ASSUME WindowInv,
         \/ PollPending \/ PendingPrompt \/ \E p \in Press : Decided(p)
         \/ \E r \in Reader : PendingRead(r) \/ PendingShown(r)
         \/ \E q \in Request : Requested(q) \/ DecidedElsewhere(q)
  PROVE  WindowInv'
<1> DEFINE GotType == [on : BOOLEAN, got : (SUBSET Request) \cup {NoRead}]
<1>1. /\ waits \subseteq came /\ came \subseteq Request /\ shown \subseteq came /\ snoozed \subseteq came
      /\ reader \in [Reader -> GotType] /\ (\A r \in Reader : reader[r].got # NoRead => reader[r].got \subseteq came)
      /\ deciding \in [Press -> Request \cup {NoRead}]
      /\ rpcFails \in 0..MaxRpcFails /\ shown \cap snoozed = {}
  BY DEF WindowInv, WindowTypeOK, SnoozedStays
<1>2. ASSUME NEW r \in Reader, Starts(r)
      PROVE  reader' \in [Reader -> GotType] /\ \A x \in Reader : reader'[x].got # NoRead => reader'[x].got \subseteq came
  <2>1. NoRead \in (SUBSET Request) \cup {NoRead}
    OBVIOUS
  <2>2. [on |-> TRUE, got |-> NoRead] \in GotType /\ [on |-> TRUE, got |-> NoRead].got = NoRead
    BY <2>1
  <2> QED BY <1>1, <1>2, <2>2 DEF Starts
<1>3. "poll" \in Reader /\ Press \subseteq Reader
  BY DEF Reader
<1>4. rpcFails < MaxRpcFails => rpcFails + 1 \in 0..MaxRpcFails
  <2>1. rpcFails \in 0..MaxRpcFails /\ MaxRpcFails \in Nat
    BY <1>1, WindowAssumption DEF WindowAssumption
  <2> QED BY <2>1
<1>5. CASE PollPending
  BY <1>1, <1>2, <1>3, <1>5, PromptKeeps DEF PollPending
<1>6. ASSUME NEW p \in Press, Decided(p) PROVE WindowInv'
  <2>1. waits' \subseteq came /\ rpcFails' \in 0..MaxRpcFails
    BY <1>1, <1>4, <1>6 DEF Decided
  <2>2. deciding' \in [Press -> Request \cup {NoRead}]
    BY <1>1, <1>6 DEF Decided
  <2> QED BY <1>1, <1>2, <1>3, <1>6, <2>1, <2>2, PromptKeeps DEF Decided
<1>7. CASE PendingPrompt
  <2>1. PICK q \in shown : Snooze(q) \/ \E p \in Press : Decide(p, q)
    BY <1>7 DEF PendingPrompt
  <2>2. CASE Snooze(q)
    BY <1>1, <2>1, <2>2, PromptKeeps DEF Snooze
  <2>3. ASSUME NEW p \in Press, Decide(p, q) PROVE WindowInv'
    <3>1. deciding' \in [Press -> Request \cup {NoRead}]
      BY <1>1, <2>3 DEF Decide
    <3> QED BY <1>1, <2>3, <3>1, PromptKeeps DEF Decide
  <2> QED BY <2>1, <2>2, <2>3
<1>8. ASSUME NEW r \in Reader, PendingRead(r) PROVE WindowInv'
  <2>1. reader' \in [Reader -> GotType] /\ \A x \in Reader : reader'[x].got # NoRead => reader'[x].got \subseteq came
    <3>1. waits \in SUBSET Request
      BY <1>1
    <3> QED BY <1>1, <1>8, <3>1 DEF PendingRead
  <2> QED BY <1>1, <1>8, <2>1, PromptKeeps DEF PendingRead
<1>9. ASSUME NEW r \in Reader, PendingShown(r) PROVE WindowInv'
  <2>1. reader' \in [Reader -> GotType] /\ \A x \in Reader : reader'[x].got # NoRead => reader'[x].got \subseteq came
    BY <1>1, <1>9, NoneRead DEF PendingShown
  <2>2. shown' \subseteq came /\ shown' \cap snoozed = {} /\ rpcFails' \in 0..MaxRpcFails
    BY <1>1, <1>4, <1>9 DEF PendingShown, Prompted
  <2> QED BY <1>1, <1>9, <2>1, <2>2, PromptKeeps DEF PendingShown
<1>10. ASSUME NEW q \in Request, Requested(q) \/ DecidedElsewhere(q) PROVE WindowInv'
  <2>1. waits' \subseteq came' /\ came \subseteq came' /\ came' \subseteq Request
    BY <1>1, <1>10 DEF Requested, DecidedElsewhere
  <2> QED BY <1>1, <1>10, <2>1, PromptKeeps DEF Requested, DecidedElsewhere
<1> QED BY <1>5, <1>6, <1>7, <1>8, <1>9, <1>10

LEMMA WindowKeeps == WindowInv /\ [WindowNext]_windowVars => WindowInv'
<1> SUFFICES ASSUME WindowInv, [WindowNext]_windowVars PROVE WindowInv'
  OBVIOUS
<1>1. CASE UNCHANGED windowVars
  BY <1>1 DEF windowVars, WindowInv, WindowTypeOK, SnoozedStays
<1> QED BY <1>1, TabsMove, PromptMoves DEF WindowNext, StripNext, PromptNext

LEMMA WindowImplies == WindowInv => PromptHonest
BY DEF WindowInv, PromptHonest, ShownIsATab, Displayed

-----------------------------------------------------------------------------
(* The forms that install.                                                  *)

SubmitType == [at : {"no", "check", "rpc", "list"}, file : ZipFile \cup {""},
               dapp : {"", "install"} \cup Dapps, warned : BOOLEAN]

\* What is sent replaces no dapp unwarned.
MayBe(x) == x.at = "rpc" /\ x.dapp \in Dapps => x.file = x.dapp \/ x.warned

\* The step that ReplacedAfterWarning asks for.
Replaces ==
  \A s \in Submit :
    submit'[s].at = "rpc" /\ submit[s].at # "rpc" /\ submit'[s].dapp \in Dapps
      => submit'[s].file = submit'[s].dapp \/ submit'[s].warned

LEMMA NoSubmit == NotSubmitted \in SubmitType /\ MayBe(NotSubmitted)
BY DEF NotSubmitted, SubmitType, ZipFile, MayBe

LEMMA OneSubmit ==
  ASSUME InstallerTypeOK, NEW s \in Submit, NEW x \in SubmitType, MayBe(x),
         submit' = [submit EXCEPT ![s] = x]
  PROVE  submit' \in [Submit -> SubmitType] /\ Replaces
<1>1. submit \in [Submit -> SubmitType]
  BY DEF InstallerTypeOK, SubmitType
<1>2. \A y \in Submit : submit'[y] = IF y = s THEN x ELSE submit[y]
  BY <1>1
<1> QED BY <1>1, <1>2 DEF Replaces, MayBe

\* The submits are as they were.
LEMMA SameSubmits ==
  ASSUME InstallerTypeOK, UNCHANGED submit
  PROVE  submit' \in [Submit -> SubmitType] /\ Replaces
BY DEF InstallerTypeOK, SubmitType, Replaces

\* The other parts of the type, with the submits of the lemmas before.
LEMMA FormTyped ==
  ASSUME InstallerTypeOK, UNCHANGED form, submit' \in [Submit -> SubmitType],
         shownFor' \in {"closed"} \cup Target, file' \in ZipFile \cup {""},
         warned' \in BOOLEAN, busy' \in BOOLEAN, resetDue' \in BOOLEAN,
         outcome' \in {"", "installed", "error"}, formFails' \in 0..MaxFormFails
  PROVE  InstallerTypeOK'
BY DEF InstallerTypeOK, SubmitType, Target, ZipFile

\* What try { begins with.
LEMMA Sent ==
  ASSUME InstallerTypeOK, NEW s \in Submit, NEW from \in SubmitType,
         MayBe([from EXCEPT !.at = "rpc"]), Sends(s, from)
  PROVE  /\ submit' \in [Submit -> SubmitType] /\ Replaces
         /\ busy' \in BOOLEAN /\ outcome' \in {"", "installed", "error"}
<1>1. outcome \in {"", "installed", "error"}
  BY DEF InstallerTypeOK
<1>2. busy' \in BOOLEAN /\ outcome' \in {"", "installed", "error"}
  BY <1>1 DEF Sends, Caught
<1>3. CASE submit' = [submit EXCEPT ![s] = NotSubmitted]
  BY <1>2, <1>3, NoSubmit, OneSubmit
<1>4. CASE submit' = [submit EXCEPT ![s] = [from EXCEPT !.at = "rpc"]]
  <2>1. [from EXCEPT !.at = "rpc"] \in SubmitType
    BY DEF SubmitType
  <2> QED BY <1>2, <1>4, <2>1, OneSubmit
<1> QED BY <1>3, <1>4 DEF Sends

LEMMA InstallerMoves == InstallerTypeOK /\ InstallerNext => InstallerTypeOK' /\ Replaces
<1> SUFFICES ASSUME InstallerTypeOK, InstallerNext PROVE InstallerTypeOK' /\ Replaces
  OBVIOUS
<1>1. /\ form \in {"install", "update"} /\ shownFor \in {"closed"} \cup Target /\ file \in ZipFile \cup {""}
      /\ warned \in BOOLEAN /\ busy \in BOOLEAN /\ resetDue \in BOOLEAN
      /\ outcome \in {"", "installed", "error"} /\ formFails \in 0..MaxFormFails
      /\ submit \in [Submit -> SubmitType]
  BY DEF InstallerTypeOK, SubmitType
<1>2. formFails < MaxFormFails => formFails + 1 \in 0..MaxFormFails
  <2>1. formFails \in 0..MaxFormFails /\ MaxFormFails \in Nat
    BY <1>1, InstallerAssumption DEF InstallerAssumption
  <2> QED BY <2>1
<1>3. ASSUME NEW d, OpenForm(d) PROVE InstallerTypeOK' /\ Replaces
  BY <1>1, <1>3, SameSubmits, FormTyped DEF OpenForm
<1>4. ASSUME NEW zip \in ZipFile \cup {""}, Choose(zip) PROVE InstallerTypeOK' /\ Replaces
  BY <1>1, <1>4, SameSubmits, FormTyped DEF Choose
<1>5. ASSUME NEW ticks \in BOOLEAN, CloseForm(ticks) PROVE InstallerTypeOK' /\ Replaces
  BY <1>1, <1>5, SameSubmits, FormTyped DEF CloseForm
<1>6. CASE ResetFires
  BY <1>1, <1>6, SameSubmits, FormTyped DEF ResetFires
<1>7. ASSUME NEW s \in Submit, SubmitForm(s) PROVE InstallerTypeOK' /\ Replaces
  <2> DEFINE from == [at |-> "check", file |-> file, dapp |-> shownFor, warned |-> warned]
  <2>1. UNCHANGED <<form, shownFor, file, warned, resetDue, formFails>> /\ shownFor # "closed"
    BY <1>7 DEF SubmitForm, Controls
  <2>2. shownFor = "install" \/ shownFor \in Dapps
    BY <1>1, <2>1 DEF Target
  <2>3. from \in SubmitType /\ MayBe(from)
    BY <1>1, <2>2 DEF SubmitType, MayBe
  <2>4. CASE outcome' = "error" /\ UNCHANGED <<busy, submit>>
    BY <1>1, <2>1, <2>4, SameSubmits, FormTyped
  <2>5. CASE shownFor = "install" /\ Sends(s, from)
    <3>1. MayBe([from EXCEPT !.at = "rpc"])
      BY <2>5, InstallerAssumption DEF InstallerAssumption, MayBe
    <3>2. /\ submit' \in [Submit -> SubmitType] /\ Replaces
          /\ busy' \in BOOLEAN /\ outcome' \in {"", "installed", "error"}
      BY <2>3, <2>5, <3>1, Sent
    <3> QED BY <1>1, <2>1, <3>2, FormTyped
  <2>6. CASE submit' = [submit EXCEPT ![s] = from] /\ UNCHANGED <<busy, outcome>>
    <3>1. submit' \in [Submit -> SubmitType] /\ Replaces
      BY <2>3, <2>6, OneSubmit
    <3> QED BY <1>1, <2>1, <2>6, <3>1, FormTyped
  <2> QED BY <1>7, <2>4, <2>5, <2>6 DEF SubmitForm
<1>8. ASSUME NEW s \in Submit, Checked(s) PROVE InstallerTypeOK' /\ Replaces
  <2>1. UNCHANGED <<form, shownFor, file, resetDue, formFails>>
    BY <1>8 DEF Checked
  <2>2. CASE submit' = [submit EXCEPT ![s] = NotSubmitted] /\ warned' \in BOOLEAN /\ UNCHANGED <<busy, outcome>>
    BY <1>1, <2>1, <2>2, NoSubmit, OneSubmit, FormTyped
  <2>3. CASE ~Warns(s) /\ Sends(s, submit[s]) /\ UNCHANGED warned
    <3>1. submit[s] \in SubmitType
      BY <1>1
    <3>2. MayBe([submit[s] EXCEPT !.at = "rpc"])
      BY <2>3, <3>1 DEF Warns, MayBe, SubmitType
    <3>3. /\ submit' \in [Submit -> SubmitType] /\ Replaces
          /\ busy' \in BOOLEAN /\ outcome' \in {"", "installed", "error"}
      BY <2>3, <3>1, <3>2, Sent
    <3> QED BY <1>1, <2>1, <2>3, <3>3, FormTyped
  <2> QED BY <1>1, <1>8, <2>2, <2>3 DEF Checked
<1>9. ASSUME NEW s \in Submit, FormRpc(s) PROVE InstallerTypeOK' /\ Replaces
  <2>1. UNCHANGED <<form, shownFor, file, warned, resetDue>>
    BY <1>9 DEF FormRpc
  <2>2. CASE submit' = [submit EXCEPT ![s] = NotSubmitted] /\ Caught /\ formFails' \in 0..MaxFormFails
    <3>1. submit' \in [Submit -> SubmitType] /\ Replaces
      BY <2>2, NoSubmit, OneSubmit
    <3> QED BY <1>1, <2>1, <2>2, <3>1, FormTyped DEF Caught
  <2>3. CASE submit' = [submit EXCEPT ![s].at = "list"] /\ UNCHANGED <<busy, outcome, formFails>>
    <3>1. [submit[s] EXCEPT !.at = "list"] \in SubmitType /\ MayBe([submit[s] EXCEPT !.at = "list"])
      BY <1>1 DEF SubmitType, MayBe
    <3>2. submit' = [submit EXCEPT ![s] = [submit[s] EXCEPT !.at = "list"]]
      BY <1>1, <2>3
    <3>3. submit' \in [Submit -> SubmitType] /\ Replaces
      BY <3>1, <3>2, OneSubmit
    <3> QED BY <1>1, <2>1, <2>3, <3>3, FormTyped
  <2> QED BY <1>2, <1>9, <2>2, <2>3 DEF FormRpc
<1>10. ASSUME NEW s \in Submit, FormListed(s) PROVE InstallerTypeOK' /\ Replaces
  <2>1. UNCHANGED <<form, shownFor, file, warned, resetDue>> /\ submit' = [submit EXCEPT ![s] = NotSubmitted]
    BY <1>10 DEF FormListed
  <2>2. submit' \in [Submit -> SubmitType] /\ Replaces
    BY <2>1, NoSubmit, OneSubmit
  <2>3. busy' \in BOOLEAN /\ outcome' \in {"", "installed", "error"} /\ formFails' \in 0..MaxFormFails
    BY <1>1, <1>2, <1>10 DEF FormListed, Caught
  <2> QED BY <1>1, <2>1, <2>2, <2>3, FormTyped
<1> QED BY <1>3, <1>4, <1>5, <1>6, <1>7, <1>8, <1>9, <1>10 DEF InstallerNext

-----------------------------------------------------------------------------
(* The introduction.  The timers: at most two asks are on their way, and     *)
(* whatever timer is not cleared leaves room for one ask less.               *)

NoAsk == \A x \in Question : ~ask[x].on
OneAsk == \A x, y \in Question : ask[x].on /\ ask[y].on => x = y
TwoAsks ==
  \A x, y, z \in Question : ask[x].on /\ ask[y].on /\ ask[z].on => x = y \/ y = z \/ x = z

\* The name is not set at the node yet.
Early == intro \in {"boot", "hello", "name"} \/ naming # ""

\* Until it is, there is one ask or the timer for the next; then one more.
Timers ==
  /\ intro \in {"boot", "hello", "name"} => naming = ""
  /\ intro = "boot" => NoAsk /\ ~retry
  /\ Early => strays = 0 /\ OneAsk /\ (retry => NoAsk)
  /\ ~Early /\ strays = 0 => TwoAsks /\ (retry => OneAsk)
  /\ ~Early /\ strays = 1 => OneAsk /\ (retry => NoAsk)

WelcomeInv == WelcomeTypeOK /\ AddedMeansPeers /\ joining # "addNone" /\ Timers

AskType == [on : BOOLEAN, got : Names]

\* One ask more.
LEMMA AsksMore ==
  ASSUME WelcomeTypeOK, GetsDetails
  PROVE  /\ ask' \in [Question -> AskType] /\ retry' \in BOOLEAN /\ ~retry' /\ behind' \subseteq Question
         /\ (NoAsk => OneAsk') /\ (OneAsk => TwoAsks')
<1>1. ask \in [Question -> AskType] /\ behind \subseteq Question
  BY DEF WelcomeTypeOK, AskType
<1>2. PICK q \in Question :
        /\ ~ask[q].on /\ ask' = [ask EXCEPT ![q] = [on |-> TRUE, got |-> ""]]
        /\ retry' = FALSE /\ behind' = behind \ {q}
  BY DEF GetsDetails
<1>3. [on |-> TRUE, got |-> ""] \in AskType
  BY DEF AskType, Names
<1>4. ask' \in [Question -> AskType] /\ \A x \in Question : ask'[x].on => x = q \/ ask[x].on
  BY <1>1, <1>2, <1>3
<1> QED BY <1>1, <1>2, <1>4 DEF NoAsk, OneAsk, TwoAsks

\* And one less.
LEMMA AsksLess ==
  ASSUME WelcomeTypeOK, NEW q \in Question, ask[q].on, ask' = [ask EXCEPT ![q] = NotAsked]
  PROVE  ask' \in [Question -> AskType] /\ (OneAsk => NoAsk') /\ (TwoAsks => OneAsk')
<1>1. ask \in [Question -> AskType]
  BY DEF WelcomeTypeOK, AskType
<1>2. NotAsked \in AskType /\ NotAsked.on = FALSE
  BY DEF NotAsked, AskType, Names
<1>3. ask' \in [Question -> AskType] /\ \A x \in Question : ask'[x].on => x # q /\ ask[x].on
  BY <1>1, <1>2
<1>4. ASSUME OneAsk PROVE NoAsk'
  BY <1>3, <1>4 DEF NoAsk, OneAsk
<1>5. ASSUME TwoAsks PROVE OneAsk'
  BY <1>3, <1>5 DEF OneAsk, TwoAsks
<1> QED BY <1>3, <1>4, <1>5

\* The asks on their way are the same.
LEMMA SameAsks ==
  ASSUME \A x \in Question : ask'[x].on = ask[x].on
  PROVE  NoAsk' = NoAsk /\ OneAsk' = OneAsk /\ TwoAsks' = TwoAsks
BY DEF NoAsk, OneAsk, TwoAsks

\* With fewer asks there may be less.
LEMMA Fewer == (NoAsk => OneAsk) /\ (OneAsk => TwoAsks) /\ (NoAsk' => OneAsk') /\ (OneAsk' => TwoAsks')
BY DEF NoAsk, OneAsk, TwoAsks

LEMMA Bits == 0..1 = {0, 1} /\ 0 # 1 /\ 0 + 1 = 1
OBVIOUS

LEMMA WelcomeStarts == WelcomeInit => WelcomeInv
<1> SUFFICES ASSUME WelcomeInit PROVE WelcomeInv
  OBVIOUS
<1>1. NotAsked \in AskType /\ NotAsked.on = FALSE /\ ask = [x \in Question |-> NotAsked]
  BY DEF WelcomeInit, NotAsked, AskType, Names
<1>2. ask \in [Question -> AskType] /\ NoAsk
  BY <1>1 DEF NoAsk
<1>3. downs \in 0..MaxDowns
  <2>1. 0 \in 0..MaxDowns
    BY WelcomeAssumption DEF WelcomeAssumption
  <2> QED BY <2>1 DEF WelcomeInit
<1>4. WelcomeTypeOK
  <2>1. strays \in 0..1
    BY Bits DEF WelcomeInit
  <2>2. shownName \in Names /\ naming \in Names /\ behind \subseteq Question /\ noPeers \subseteq Alarm
    BY DEF WelcomeInit, Names
  <2> QED BY <1>2, <1>3, <2>1, <2>2 DEF WelcomeInit, WelcomeTypeOK, AskType
<1>5. Timers
  BY <1>2, Fewer DEF WelcomeInit, Timers, Early
<1> QED BY <1>4, <1>5 DEF WelcomeInit, WelcomeInv, AddedMeansPeers

\* A step that leaves the timers alone.
LEMMA TimersKeep ==
  ASSUME Timers, UNCHANGED <<intro, naming, ask, retry, strays>>
  PROVE  Timers'
<1>1. NoAsk' = NoAsk /\ OneAsk' = OneAsk /\ TwoAsks' = TwoAsks
  BY SameAsks
<1> QED BY <1>1 DEF Timers, Early

\* The steps of the peers, of the address and of the node.
LEMMA PeersMove ==
  ASSUME WelcomeInv,
         \/ NodeTurns \/ AskAddress \/ AddressBack \/ PeersChecked \/ AnswerAlarm \/ AutoConnect
         \/ Pinged \/ PeersAdded \/ ImportPeers \/ DismissAdded
  PROVE  WelcomeInv'
<1>1. UNCHANGED <<intro, seen, nameVars>>
  BY DEF NodeTurns, AskAddress, AddressBack, PeersChecked, AnswerAlarm, AutoConnect, Pinged, PeersAdded,
         ImportPeers, DismissAdded, startVars
<1>2. WelcomeTypeOK /\ Timers /\ AddedMeansPeers /\ joining # "addNone"
  BY DEF WelcomeInv
<1>3. Timers'
  BY <1>1, <1>2, TimersKeep DEF nameVars
<1>4. /\ havePeers' \in BOOLEAN /\ peerCheck' \in BOOLEAN /\ noPeers' \subseteq Alarm /\ added' \in BOOLEAN
      /\ joining' \in {"no", "ping", "add", "stuck"} /\ address' \in {"no", "asked", "timer", "known"}
      /\ nodeUp' \in BOOLEAN /\ downs' \in 0..MaxDowns /\ AddedMeansPeers'
  <2>1. /\ havePeers \in BOOLEAN /\ peerCheck \in BOOLEAN /\ noPeers \subseteq Alarm /\ added \in BOOLEAN
        /\ joining \in {"no", "ping", "add", "stuck"} /\ address \in {"no", "asked", "timer", "known"}
        /\ nodeUp \in BOOLEAN /\ downs \in 0..MaxDowns /\ (added => havePeers)
    BY <1>2 DEF WelcomeTypeOK, AddedMeansPeers
  <2>2. CASE NodeTurns
    <3>1. downs' \in 0..MaxDowns
      <4>1. downs \in 0..MaxDowns /\ MaxDowns \in Nat
        BY <2>1, WelcomeAssumption DEF WelcomeAssumption
      <4>2. (downs' = downs \/ downs' = downs + 1) /\ downs' <= MaxDowns
        BY <2>2 DEF NodeTurns
      <4> QED BY <4>1, <4>2
    <3> QED BY <2>1, <2>2, <3>1 DEF NodeTurns, peerVars, AddedMeansPeers
  <2>3. CASE AskAddress \/ AddressBack
    BY <2>1, <2>3 DEF AskAddress, AddressBack, startVars, peerVars, AddedMeansPeers
  <2>4. CASE PeersChecked \/ AnswerAlarm
    <3>1. noPeers' \subseteq Alarm
      BY <2>1, <2>4 DEF PeersChecked, AnswerAlarm, Alarm
    <3>2. peerCheck' \in BOOLEAN /\ UNCHANGED <<nodeUp, downs, address, havePeers, joining, added>>
      BY <2>1, <2>4 DEF PeersChecked, AnswerAlarm, startVars
    <3> QED BY <2>1, <3>1, <3>2 DEF AddedMeansPeers
  <2>5. CASE AutoConnect \/ DismissAdded
    <3>1. /\ joining' \in {"no", "ping", "add", "stuck"} /\ added' \in BOOLEAN /\ (added' => added)
          /\ UNCHANGED <<nodeUp, downs, address, havePeers, noPeers, peerCheck>>
      <4>1. CASE AutoConnect
        BY <2>1, <4>1 DEF AutoConnect, startVars
      <4>2. CASE DismissAdded
        BY <2>1, <4>2 DEF DismissAdded, startVars
      <4> QED BY <2>5, <4>1, <4>2
    <3> QED BY <2>1, <3>1 DEF AddedMeansPeers
  <2>6. CASE Pinged
    BY <2>1, <2>6 DEF Pinged, Rejects, startVars, AddedMeansPeers
  <2>7. CASE PeersAdded
    <3>1. UNCHANGED <<nodeUp, downs, address, peerCheck>>
      BY <2>7 DEF PeersAdded, startVars
    <3>2. CASE joining' = "stuck" /\ UNCHANGED <<havePeers, noPeers, added>>
      BY <2>1, <3>1, <3>2 DEF AddedMeansPeers
    <3>3. CASE havePeers' = TRUE /\ Success
      BY <2>1, <3>1, <3>3 DEF AddedMeansPeers, Success
    <3>4. joining = "add"
      BY <2>1, <2>7 DEF PeersAdded
    <3> QED BY <2>7, <3>2, <3>3, <3>4 DEF PeersAdded
  <2>8. CASE ImportPeers
    BY <2>1, <2>8 DEF ImportPeers, startVars, AddedMeansPeers
  <2> QED BY <2>2, <2>3, <2>4, <2>5, <2>6, <2>7, <2>8
<1> QED BY <1>1, <1>2, <1>3, <1>4 DEF WelcomeInv, WelcomeTypeOK, nameVars

\* What the steps of the name leave of the rest, and what of the type is left to show.
LEMMA NameTyped ==
  ASSUME WelcomeInv, UNCHANGED <<nodeUp, downs, address, havePeers, noPeers, joining, added>>,
         Timers', seen' \in BOOLEAN, peerCheck' \in BOOLEAN,
         intro' \in {"boot", "hello", "name", "welcome", "tour?", "tour", "off"},
         nodeName' \in {"old", "typed"}, shownName' \in Names, naming' \in Names,
         ask' \in [Question -> AskType], retry' \in BOOLEAN, strays' \in 0..1,
         behind' \subseteq Question, overtaken' \in BOOLEAN
  PROVE  WelcomeInv'
BY DEF WelcomeInv, WelcomeTypeOK, AddedMeansPeers, AskType

LEMMA NameMoves ==
  ASSUME WelcomeInv,
         \/ Inited \/ RetryFires \/ TypeName \/ SetName \/ NameSet \/ Introduction
         \/ \E q \in Question : NameRead(q) \/ DetailsBack(q)
  PROVE  WelcomeInv'
<1>1. /\ WelcomeTypeOK /\ Timers /\ seen \in BOOLEAN /\ peerCheck \in BOOLEAN
      /\ intro \in {"boot", "hello", "name", "welcome", "tour?", "tour", "off"}
      /\ nodeName \in {"old", "typed"} /\ shownName \in Names /\ naming \in Names
      /\ ask \in [Question -> AskType] /\ retry \in BOOLEAN /\ strays \in 0..1 /\ strays \in {0, 1}
      /\ behind \subseteq Question /\ overtaken \in BOOLEAN
  BY Bits DEF WelcomeInv, WelcomeTypeOK, AskType
<1>2. CASE Inited
  <2>1. /\ intro = "boot" /\ seen' = TRUE /\ intro' = (IF seen THEN "off" ELSE "hello") /\ peerCheck' = seen
        /\ GetsDetails /\ UNCHANGED <<strays, naming>>
        /\ UNCHANGED <<nodeUp, downs, address, havePeers, noPeers, joining, added, nodeName, shownName, overtaken>>
    BY <1>2 DEF Inited
  <2>2. /\ ask' \in [Question -> AskType] /\ retry' \in BOOLEAN /\ ~retry' /\ behind' \subseteq Question
        /\ (NoAsk => OneAsk') /\ (OneAsk => TwoAsks')
    BY <1>1, <2>1, AsksMore
  <2>3. Timers'
    BY <1>1, <2>1, <2>2, Fewer DEF Timers, Early
  <2> QED BY <1>1, <2>1, <2>2, <2>3, NameTyped
<1>3. CASE RetryFires
  <2>1. /\ GetsDetails /\ ((retry /\ strays' = strays) \/ (strays = 1 /\ strays' = 0))
        /\ UNCHANGED <<seen, intro, peerCheck, naming>>
        /\ UNCHANGED <<nodeUp, downs, address, havePeers, noPeers, joining, added, nodeName, shownName, overtaken>>
    BY <1>1, <1>3 DEF RetryFires, startVars, peerVars
  <2>2. /\ ask' \in [Question -> AskType] /\ retry' \in BOOLEAN /\ ~retry' /\ behind' \subseteq Question
        /\ (NoAsk => OneAsk') /\ (OneAsk => TwoAsks')
    BY <1>1, <2>1, AsksMore
  <2>3. Timers'
    <3>1. CASE Early
      <4>1. strays = 0 /\ OneAsk /\ (retry => NoAsk)
        BY <1>1, <3>1 DEF Timers
      <4>2. retry /\ strays' = 0
        BY <2>1, <4>1, Bits
      <4>3. OneAsk' /\ ~retry' /\ intro' # "boot" /\ Early'
        BY <1>1, <2>1, <2>2, <3>1, <4>1, <4>2 DEF Timers, Early
      <4> QED BY <1>1, <2>1, <4>2, <4>3 DEF Timers
    <3>2. CASE ~Early
      <4>1. OneAsk /\ ~Early' /\ intro' \notin {"boot", "hello", "name"}
        BY <1>1, <2>1, <3>2 DEF Timers, Early
      <4>2. CASE strays' = 0
        BY <2>2, <4>1, <4>2, Bits DEF Timers
      <4>3. CASE strays' # 0
        <5>1. strays = 1 /\ strays' = 1 /\ retry
          BY <1>1, <2>1, <4>3
        <5>2. OneAsk'
          BY <1>1, <2>2, <3>2, <5>1 DEF Timers
        <5> QED BY <2>2, <4>1, <5>1, <5>2, Bits DEF Timers
      <4> QED BY <4>2, <4>3
    <3> QED BY <3>1, <3>2
  <2>4. strays' \in 0..1
    BY <1>1, <2>1, Bits
  <2> QED BY <1>1, <2>1, <2>2, <2>3, <2>4, NameTyped
<1>4. CASE TypeName
  <2>1. UNCHANGED <<intro, naming, ask, retry, strays>> /\ shownName' = "typed" /\ overtaken' = FALSE
    BY <1>4 DEF TypeName, startVars
  <2>2. Timers'
    BY <1>1, <2>1, TimersKeep
  <2> QED BY <1>1, <1>4, <2>1, <2>2, NameTyped DEF TypeName, startVars, peerVars, Names
<1>5. CASE SetName
  <2>1. /\ intro = "name" /\ intro' = "welcome" /\ UNCHANGED <<ask, retry, strays>>
        /\ shownName' = (IF shownName = "" THEN "typed" ELSE shownName) /\ naming' = shownName'
    BY <1>5 DEF SetName
  <2>2. shownName' \in Names /\ shownName' # ""
    BY <1>1, <2>1 DEF Names
  <2>3. NoAsk' = NoAsk /\ OneAsk' = OneAsk /\ TwoAsks' = TwoAsks
    BY <2>1, SameAsks
  <2>4. Timers'
    BY <1>1, <2>1, <2>2, <2>3 DEF Timers, Early
  <2> QED BY <1>1, <1>5, <2>1, <2>2, <2>4, NameTyped DEF SetName, peerVars
<1>6. CASE NameSet
  <2>1. /\ naming # "" /\ naming' = "" /\ nodeName' \in {nodeName, naming} /\ GetsDetails
        /\ UNCHANGED <<seen, intro, peerCheck, strays>>
        /\ UNCHANGED <<nodeUp, downs, address, havePeers, noPeers, joining, added, shownName, overtaken>>
    BY <1>6 DEF NameSet, startVars, peerVars
  <2>2. /\ ask' \in [Question -> AskType] /\ retry' \in BOOLEAN /\ ~retry' /\ behind' \subseteq Question
        /\ (NoAsk => OneAsk') /\ (OneAsk => TwoAsks')
    BY <1>1, <2>1, AsksMore
  <2>3. intro \notin {"boot", "hello", "name"} /\ strays = 0 /\ OneAsk
    BY <1>1, <2>1 DEF Timers, Early
  <2>4. Timers'
    <3>1. ~Early' /\ strays' = 0 /\ intro' \notin {"boot", "hello", "name"}
      BY <2>1, <2>3 DEF Early
    <3> QED BY <2>2, <2>3, <3>1, Bits DEF Timers
  <2>5. nodeName' \in {"old", "typed"} /\ naming' \in Names
    BY <1>1, <2>1 DEF Names
  <2> QED BY <1>1, <2>1, <2>2, <2>4, <2>5, NameTyped
<1>7. CASE Introduction
  <2>1. /\ UNCHANGED nameVars
        /\ UNCHANGED <<nodeUp, downs, seen, address, havePeers, noPeers, joining, added>>
        /\ \/ intro = "hello" /\ intro' = "name" /\ UNCHANGED peerCheck
           \/ intro = "welcome" /\ intro' = "tour?" /\ UNCHANGED peerCheck
           \/ intro = "tour?" /\ intro' = "tour" /\ UNCHANGED peerCheck
           \/ intro = "tour?" /\ intro' = "off" /\ peerCheck' = TRUE
    BY <1>7 DEF Introduction
  <2>2. /\ UNCHANGED <<naming, ask, retry, strays, nodeName, shownName, behind, overtaken>>
        /\ intro' # "boot" /\ (intro' \in {"boot", "hello", "name"} <=> intro \in {"boot", "hello", "name"})
    BY <2>1 DEF nameVars
  <2>3. NoAsk' = NoAsk /\ OneAsk' = OneAsk /\ TwoAsks' = TwoAsks
    BY <2>2, SameAsks
  <2>4. Timers'
    BY <1>1, <2>2, <2>3 DEF Timers, Early
  <2> QED BY <1>1, <2>1, <2>2, <2>4, NameTyped
<1>8. ASSUME NEW q \in Question, NameRead(q) PROVE WelcomeInv'
  <2>1. /\ ask[q].on /\ ask' = [ask EXCEPT ![q].got = nodeName]
        /\ UNCHANGED <<seen, intro, peerCheck, naming, retry, strays, behind>>
        /\ UNCHANGED <<nodeUp, downs, address, havePeers, noPeers, joining, added, nodeName, shownName, overtaken>>
    BY <1>8 DEF NameRead, startVars, peerVars
  <2>2. nodeName \in Names
    BY <1>1 DEF Names
  <2>3. ask' \in [Question -> AskType] /\ \A x \in Question : ask'[x].on = ask[x].on
    BY <1>1, <2>1, <2>2 DEF AskType
  <2>4. NoAsk' = NoAsk /\ OneAsk' = OneAsk /\ TwoAsks' = TwoAsks
    BY <2>3, SameAsks
  <2>5. Timers'
    BY <1>1, <2>1, <2>4 DEF Timers, Early
  <2> QED BY <1>1, <2>1, <2>3, <2>5, NameTyped
<1>9. ASSUME NEW q \in Question, DetailsBack(q) PROVE WelcomeInv'
  <2>1. /\ ask[q].on /\ ask' = [ask EXCEPT ![q] = NotAsked]
        /\ \/ UNCHANGED <<retry, strays>>
           \/ retry' = TRUE /\ strays' = IF retry THEN strays + 1 ELSE strays
        /\ UNCHANGED <<seen, intro, peerCheck, naming>>
        /\ UNCHANGED <<nodeUp, downs, address, havePeers, noPeers, joining, added, nodeName>>
    BY <1>9 DEF DetailsBack, Retries, startVars, peerVars
  <2>2. ask' \in [Question -> AskType] /\ (OneAsk => NoAsk') /\ (TwoAsks => OneAsk')
    BY <1>1, <2>1, AsksLess
  <2>3. ~NoAsk
    BY <2>1 DEF NoAsk
  <2>4. strays = 1 => ~retry /\ OneAsk
    BY <1>1, <2>3, Bits DEF Timers
  <2>5. strays = 0 => TwoAsks /\ (retry => OneAsk)
    BY <1>1, Fewer DEF Timers
  <2>6. strays' \in {0, 1} /\ retry' \in BOOLEAN
    BY <1>1, <2>1, <2>4, Bits
  <2>7. intro' = intro /\ naming' = naming /\ Early' = Early
    BY <2>1 DEF Early
  <2>8. ASSUME strays' = 0 PROVE Timers'
    <3>1. strays = 0 /\ (retry' => ~retry \/ UNCHANGED retry) /\ (retry => OneAsk)
      BY <1>1, <2>1, <2>5, <2>8, Bits
    <3>2. Early => NoAsk' /\ OneAsk'
      BY <1>1, <2>2, <3>1, Fewer DEF Timers
    <3>3. TwoAsks' /\ OneAsk'
      BY <2>2, <2>5, <3>1, Fewer
    <3>4. intro # "boot"
      BY <1>1, <2>3 DEF Timers
    <3> QED BY <1>1, <2>7, <2>8, <3>2, <3>3, <3>4, Bits DEF Timers
  <2>9. ASSUME strays' = 1 PROVE Timers'
    <3>1. ~Early
      <4>1. Early => strays = 0 /\ ~retry
        BY <1>1, <2>3 DEF Timers
      <4> QED BY <2>1, <2>9, <4>1, Bits
    <3>2. OneAsk
      <4>1. strays = 1 \/ (strays = 0 /\ retry)
        BY <1>1, <2>1, <2>9, Bits
      <4> QED BY <2>4, <2>5, <4>1
    <3>3. NoAsk' /\ OneAsk'
      BY <2>2, <3>2, Fewer
    <3>4. intro \notin {"boot", "hello", "name"}
      BY <3>1 DEF Early
    <3> QED BY <2>7, <2>9, <3>1, <3>3, <3>4, Bits DEF Timers
  <2>10. Timers' /\ strays' \in 0..1
    BY <2>6, <2>8, <2>9, Bits
  <2>11. shownName' \in Names /\ overtaken' \in BOOLEAN /\ behind' \subseteq Question
    <3>1. ask[q].got \in Names
      BY <1>1 DEF AskType
    <3>2. \/ UNCHANGED <<shownName, overtaken, behind>>
          \/ /\ shownName' = ask[q].got /\ overtaken' = (q \in behind)
             /\ behind' = {x \in Question : ask[x].got \notin {"", ask[q].got}}
      BY <1>9 DEF DetailsBack
    <3>3. CASE UNCHANGED <<shownName, overtaken, behind>>
      BY <1>1, <3>3
    <3>4. CASE /\ shownName' = ask[q].got /\ overtaken' = (q \in behind)
               /\ behind' = {x \in Question : ask[x].got \notin {"", ask[q].got}}
      <4>1. behind' \subseteq Question
        BY <3>4
      <4>2. overtaken' \in BOOLEAN
        <5>1. (q \in behind) \in BOOLEAN
          OBVIOUS
        <5> QED BY <3>4, <5>1
      <4>3. shownName' \in Names
        BY <3>1, <3>4
      <4> QED BY <4>1, <4>2, <4>3
    <3> QED BY <3>2, <3>3, <3>4
  <2> QED BY <1>1, <2>1, <2>2, <2>6, <2>10, <2>11, NameTyped
<1> QED BY <1>2, <1>3, <1>4, <1>5, <1>6, <1>7, <1>8, <1>9

LEMMA WelcomeKeeps == WelcomeInv /\ [WelcomeNext]_welcomeVars => WelcomeInv'
<1> SUFFICES ASSUME WelcomeInv, [WelcomeNext]_welcomeVars PROVE WelcomeInv'
  OBVIOUS
<1>1. CASE UNCHANGED welcomeVars
  <2>1. Timers'
    BY <1>1, TimersKeep DEF WelcomeInv, welcomeVars
  <2> QED BY <1>1, <2>1 DEF welcomeVars, WelcomeInv, WelcomeTypeOK, AddedMeansPeers
<1>2. CASE WelcomeNext
  BY <1>2, NameMoves, PeersMove DEF WelcomeNext
<1> QED BY <1>1, <1>2

-----------------------------------------------------------------------------
(* The list of the hub.                                                     *)

RefreshType == [at : {"no", "asked", "answered", "icons"}, got : 0..MaxTable]

\* The refreshes without a reply.
Replyless == {r \in Refresh : refresh[r].at \in {"asked", "answered"}}

\* Who is to paint the icons painted the list they belong to.
NewestPainted ==
  newest # "none" => refresh[newest].at = "icons" /\ painted.ver = refresh[newest].got

HubInv == HubTypeOK /\ IsInjective(order) /\ NewestPainted

\* The step that IconsKeepList asks for.
KeepsList == \A r \in Refresh : IconsReady(r) => painted'.ver = painted.ver

\* The parts of the invariant.
LEMMA HubParts ==
  ASSUME HubInv
  PROVE  /\ table \in 0..MaxTable /\ announced \in 0..table
         /\ refresh \in [Refresh -> RefreshType] /\ newest \in Refresh \cup {"none"}
         /\ order \in Seq(Refresh) /\ IsInjective(order) /\ ToSet(order) = Replyless
         /\ late \subseteq ToSet(order) /\ painted \in [ver : 0..MaxTable, icons : BOOLEAN]
         /\ modal \in HubOp \cup {"none"} /\ mdsOp \subseteq HubOp
         /\ excused \in BOOLEAN /\ mdsFails \in 0..MaxMdsFails
         /\ NewestPainted /\ MaxTable \in Nat \ {0} /\ MaxMdsFails \in Nat /\ "none" \notin Refresh
BY HubAssumption DEF HubAssumption, HubInv, HubTypeOK, RefreshType, Replyless

\* One request more.
LEMMA AnotherRefresh ==
  ASSUME HubInv, Refreshes, UNCHANGED <<newest, painted>>
  PROVE  /\ refresh' \in [Refresh -> RefreshType] /\ order' \in Seq(Refresh) /\ IsInjective(order')
         /\ ToSet(order') = Replyless' /\ ToSet(order) \subseteq ToSet(order') /\ NewestPainted'
<1>1. PICK r \in Refresh :
        /\ refresh[r] = IdleRefresh /\ refresh' = [refresh EXCEPT ![r].at = "asked"]
        /\ order' = Append(order, r)
  BY DEF Refreshes
<1>2. refresh \in [Refresh -> RefreshType] /\ refresh[r].at = "no"
  BY <1>1, HubParts DEF IdleRefresh
<1>3. /\ refresh' \in [Refresh -> RefreshType] /\ refresh'[r].at = "asked"
      /\ \A x \in Refresh \ {r} : refresh'[x] = refresh[x]
  BY <1>1, <1>2 DEF RefreshType
<1>4. r \notin ToSet(order) /\ order \in Seq(Refresh) /\ IsInjective(order) /\ ToSet(order) = Replyless
  BY <1>2, HubParts DEF Replyless
<1>5. /\ Append(order, r) \in Seq(Refresh) /\ IsInjective(Append(order, r))
      /\ ToSet(Append(order, r)) = ToSet(order) \cup {r}
  BY <1>4, AppendKeeps
<1>6. Replyless' = Replyless \cup {r}
  BY <1>3 DEF Replyless
<1>7. NewestPainted'
  <2>1. newest \in Refresh \cup {"none"} /\ NewestPainted
    BY HubParts
  <2> QED BY <1>2, <1>3, <2>1 DEF NewestPainted
<1> QED BY <1>1, <1>3, <1>4, <1>5, <1>6, <1>7

\* One request less.
LEMMA OvertakeKeeps ==
  ASSUME HubInv, NEW r \in Refresh, Overtakes(r), NEW x \in RefreshType,
         x.at \notin {"asked", "answered"}, refresh' = [refresh EXCEPT ![r] = x]
  PROVE  /\ refresh' \in [Refresh -> RefreshType] /\ order' \in Seq(Refresh) /\ IsInjective(order')
         /\ ToSet(order') = Replyless' /\ late' \subseteq ToSet(order')
<1>1. PICK i \in DOMAIN order :
        /\ order[i] = r /\ order' = RemoveAt(order, i)
        /\ late' = (late \cup {order[j] : j \in 1..(i - 1)}) \ {r}
  BY DEF Overtakes
<1>2. /\ refresh \in [Refresh -> RefreshType] /\ order \in Seq(Refresh) /\ IsInjective(order)
      /\ ToSet(order) = Replyless /\ late \subseteq ToSet(order)
  BY HubParts
<1>3. /\ order' \in Seq(Refresh) /\ IsInjective(order') /\ ToSet(order') = ToSet(order) \ {r}
  BY <1>1, <1>2, RemoveKeeps
<1>4. refresh' \in [Refresh -> RefreshType] /\ refresh'[r] = x /\ \A y \in Refresh \ {r} : refresh'[y] = refresh[y]
  BY <1>2
<1>5. Replyless' = Replyless \ {r}
  BY <1>4 DEF Replyless
<1>6. {order[j] : j \in 1..(i - 1)} \subseteq ToSet(order)
  <2>1. i \in 1..Len(order) /\ Len(order) \in Nat /\ DOMAIN order = 1..Len(order)
    BY <1>2
  <2>2. \A j \in 1..(i - 1) : j \in DOMAIN order
    BY <2>1
  <2> QED BY <2>2 DEF ToSet
<1> QED BY <1>1, <1>2, <1>3, <1>4, <1>5, <1>6

\* No refresh changes what is newest, unless it is the newest that ends.
LEMMA FailKeepsNewest ==
  ASSUME HubInv, NEW r \in Refresh, refresh[r].at # "icons", NEW x,
         refresh' = [refresh EXCEPT ![r] = x], UNCHANGED <<newest, painted>>
  PROVE  NewestPainted'
<1>1. newest \in Refresh \cup {"none"} /\ NewestPainted /\ refresh \in [Refresh -> RefreshType]
  BY HubParts
<1>2. \A y \in Refresh \ {r} : refresh'[y] = refresh[y]
  BY <1>1
<1> QED BY <1>1, <1>2 DEF NewestPainted

LEMMA HubStarts == HubInit => HubInv
<1> SUFFICES ASSUME HubInit PROVE HubInv
  OBVIOUS
<1>1. MaxTable \in Nat \ {0} /\ MaxMdsFails \in Nat
  BY HubAssumption DEF HubAssumption
<1>2. 0 \in 0..MaxTable /\ 1 \in 0..MaxTable /\ 0 \in 0..1 /\ 0 \in 0..MaxMdsFails
  BY <1>1
<1>3. IdleRefresh \in RefreshType /\ IdleRefresh.at = "no"
  BY <1>2 DEF IdleRefresh, RefreshType
<1>4. refresh = [r \in Refresh |-> IdleRefresh]
  BY DEF HubInit
<1>5. refresh \in [Refresh -> RefreshType] /\ {r \in Refresh : refresh[r].at \in {"asked", "answered"}} = {}
  BY <1>3, <1>4
<1>6. order = <<>> /\ order \in Seq(Refresh) /\ ToSet(order) = {} /\ IsInjective(order)
  BY DEF HubInit, ToSet, IsInjective
<1>7. painted \in [ver : 0..MaxTable, icons : BOOLEAN]
  BY <1>2 DEF HubInit
<1>8. table \in 0..MaxTable /\ announced \in 0..table /\ mdsFails \in 0..MaxMdsFails
  BY <1>2 DEF HubInit
<1>9. HubTypeOK
  BY <1>5, <1>6, <1>7, <1>8 DEF HubInit, HubTypeOK, RefreshType
<1> QED BY <1>6, <1>9 DEF HubInv, NewestPainted, HubInit

\* What of the type is left to show for the steps of the refreshes.
LEMMA HubTyped ==
  ASSUME table' \in 0..MaxTable, announced' \in 0..table', newest' \in Refresh \cup {"none"},
         refresh' \in [Refresh -> RefreshType], order' \in Seq(Refresh), IsInjective(order'),
         ToSet(order') = Replyless', late' \subseteq ToSet(order'),
         painted' \in [ver : 0..MaxTable, icons : BOOLEAN], modal' \in HubOp \cup {"none"},
         mdsOp' \subseteq HubOp, excused' \in BOOLEAN, mdsFails' \in 0..MaxMdsFails, NewestPainted'
  PROVE  HubInv'
BY DEF HubInv, HubTypeOK, RefreshType, Replyless

\* The steps that leave the refreshes alone.
LEMMA ConfirmMoves ==
  ASSUME HubInv,
         \/ CancelConfirm \/ TableChanges
         \/ \E o \in HubOp : AskConfirm(o) \/ ConfirmOp(o)
  PROVE  HubInv'
<1>1. UNCHANGED <<refresh, newest, order, late, painted, excused, mdsFails, announced>>
  BY DEF CancelConfirm, TableChanges, AskConfirm, ConfirmOp
<1>2. Replyless' = Replyless /\ NewestPainted' = NewestPainted
  BY <1>1 DEF Replyless, NewestPainted
<1>3. modal' \in HubOp \cup {"none"} /\ mdsOp' \subseteq HubOp
  BY HubParts DEF CancelConfirm, TableChanges, AskConfirm, ConfirmOp
<1>4. table' \in 0..MaxTable /\ announced' \in 0..table'
  <2>1. table \in 0..MaxTable /\ announced \in 0..table /\ MaxTable \in Nat
    BY HubParts
  <2>2. UNCHANGED table \/ (table < MaxTable /\ table' = table + 1)
    BY DEF CancelConfirm, TableChanges, AskConfirm, ConfirmOp
  <2> QED BY <1>1, <2>1, <2>2
<1> QED BY <1>1, <1>2, <1>3, <1>4, HubParts, HubTyped

LEMMA HubFailed ==
  ASSUME HubInv, mdsFails < MaxMdsFails
  PROVE  mdsFails + 1 \in 0..MaxMdsFails
<1>1. mdsFails \in 0..MaxMdsFails /\ MaxMdsFails \in Nat
  BY HubParts
<1> QED BY <1>1

LEMMA RefreshMoves ==
  ASSUME HubInv, NEW r \in Refresh, ListRead(r) \/ ListPainted(r) \/ ListFails(r) \/ IconsReady(r)
  PROVE  HubInv'
<1>1. refresh \in [Refresh -> RefreshType] /\ table \in 0..MaxTable /\ newest \in Refresh \cup {"none"}
  BY HubParts
<1>2. IdleRefresh \in RefreshType /\ IdleRefresh.at = "no"
  <2>1. MaxTable \in Nat
    BY HubAssumption DEF HubAssumption
  <2>2. 0 \in 0..MaxTable
    BY <2>1
  <2> QED BY <2>2 DEF IdleRefresh, RefreshType
<1>3. CASE ListRead(r)
  <2>1. /\ refresh[r].at = "asked" /\ refresh' = [refresh EXCEPT ![r] = [at |-> "answered", got |-> table]]
        /\ UNCHANGED <<table, announced, newest, order, late, painted, modal, mdsOp, excused, mdsFails>>
    BY <1>3 DEF ListRead
  <2>2. [at |-> "answered", got |-> table] \in RefreshType
    BY <1>1 DEF RefreshType
  <2>3. /\ refresh' \in [Refresh -> RefreshType] /\ refresh'[r].at = "answered"
        /\ \A y \in Refresh \ {r} : refresh'[y] = refresh[y]
    BY <1>1, <2>1, <2>2
  <2>4. Replyless' = Replyless
    BY <2>1, <2>3 DEF Replyless
  <2>5. NewestPainted'
    BY <2>1, FailKeepsNewest
  <2> QED BY <2>1, <2>3, <2>4, <2>5, HubParts, HubTyped
<1>4. CASE ListPainted(r)
  <2>1. /\ refresh[r].at = "answered" /\ refresh' = [refresh EXCEPT ![r].at = "icons"]
        /\ newest' = r /\ painted' = [ver |-> refresh[r].got, icons |-> FALSE] /\ Overtakes(r)
        /\ excused' = (r \in late) /\ UNCHANGED <<table, announced, modal, mdsOp, mdsFails>>
    BY <1>4 DEF ListPainted
  <2> DEFINE x == [at |-> "icons", got |-> refresh[r].got]
  <2>2. x \in RefreshType /\ refresh' = [refresh EXCEPT ![r] = x] /\ refresh[r].got \in 0..MaxTable
    <3>1. refresh[r].got \in 0..MaxTable /\ x \in RefreshType
      BY <1>1 DEF RefreshType
    <3>2. [refresh[r] EXCEPT !.at = "icons"] = x
      BY <1>1 DEF RefreshType
    <3>3. refresh' = [refresh EXCEPT ![r] = [refresh[r] EXCEPT !.at = "icons"]]
      BY <2>1
    <3> HIDE DEF x
    <3> QED BY <3>1, <3>2, <3>3
  <2>3. /\ refresh' \in [Refresh -> RefreshType] /\ order' \in Seq(Refresh) /\ IsInjective(order')
        /\ ToSet(order') = Replyless' /\ late' \subseteq ToSet(order')
    BY <2>1, <2>2, OvertakeKeeps
  <2>4. refresh'[r] = x
    BY <1>1, <2>2
  <2>5. NewestPainted'
    BY <2>1, <2>4 DEF NewestPainted
  <2>6. painted' \in [ver : 0..MaxTable, icons : BOOLEAN]
    BY <2>1, <2>2
  <2>7. excused' \in BOOLEAN
    <3>1. (r \in late) \in BOOLEAN
      OBVIOUS
    <3> QED BY <2>1, <3>1
  <2> QED BY <2>1, <2>3, <2>5, <2>6, <2>7, HubParts, HubTyped
<1>5. CASE ListFails(r)
  <2>1. /\ refresh[r].at \in {"asked", "answered"} /\ refresh' = [refresh EXCEPT ![r] = IdleRefresh]
        /\ mdsFails < MaxMdsFails /\ mdsFails' = mdsFails + 1 /\ Overtakes(r)
        /\ UNCHANGED <<table, announced, newest, painted, modal, mdsOp>>
    BY <1>5 DEF ListFails
  <2>2. /\ refresh' \in [Refresh -> RefreshType] /\ order' \in Seq(Refresh) /\ IsInjective(order')
        /\ ToSet(order') = Replyless' /\ late' \subseteq ToSet(order')
    BY <1>2, <2>1, OvertakeKeeps
  <2>3. NewestPainted'
    BY <2>1, FailKeepsNewest
  <2>4. excused' \in BOOLEAN
    <3>1. (excused \/ r \notin late) \in BOOLEAN
      OBVIOUS
    <3>2. excused' = (excused \/ r \notin late)
      BY <1>5 DEF ListFails
    <3> QED BY <3>1, <3>2
  <2>5. mdsFails' \in 0..MaxMdsFails
    BY <2>1, HubFailed
  <2> QED BY <2>1, <2>2, <2>3, <2>4, <2>5, HubParts, HubTyped
<1>6. CASE IconsReady(r)
  <2>1. /\ refresh[r].at = "icons" /\ refresh' = [refresh EXCEPT ![r] = IdleRefresh]
        /\ painted' = (IF Paints(r) THEN [ver |-> refresh[r].got, icons |-> TRUE] ELSE painted)
        /\ newest' = (IF r = newest THEN "none" ELSE newest)
        /\ UNCHANGED <<table, announced, order, late, modal, mdsOp, excused, mdsFails>>
    BY <1>6 DEF IconsReady
  <2>2. /\ refresh' \in [Refresh -> RefreshType] /\ refresh'[r].at = "no"
        /\ \A y \in Refresh \ {r} : refresh'[y] = refresh[y]
    BY <1>1, <1>2, <2>1
  <2>3. Replyless' = Replyless
    BY <2>1, <2>2 DEF Replyless
  <2>4. painted' \in [ver : 0..MaxTable, icons : BOOLEAN]
    <3>1. refresh[r].got \in 0..MaxTable /\ painted \in [ver : 0..MaxTable, icons : BOOLEAN]
      BY <1>1, HubParts DEF RefreshType
    <3> QED BY <2>1, <3>1
  <2>5. NewestPainted' /\ newest' \in Refresh \cup {"none"}
    <3>1. CASE r = newest
      BY <2>1, <3>1 DEF NewestPainted
    <3>2. CASE r # newest
      BY <1>1, <2>1, <2>2, <3>2, HubParts DEF NewestPainted, Paints
    <3> QED BY <3>1, <3>2
  <2> QED BY <2>1, <2>2, <2>3, <2>4, <2>5, HubParts, HubTyped
<1> QED BY <1>3, <1>4, <1>5, <1>6

LEMMA AskerMoves ==
  ASSUME HubInv, DappsChanged \/ \E o \in HubOp : OpDone(o)
  PROVE  HubInv'
<1>1. CASE DappsChanged
  <2>1. /\ announced' = table /\ Refreshes
        /\ UNCHANGED <<table, newest, late, painted, modal, mdsOp, excused, mdsFails>>
    BY <1>1 DEF DappsChanged, Hears
  <2>2. /\ refresh' \in [Refresh -> RefreshType] /\ order' \in Seq(Refresh) /\ IsInjective(order')
        /\ ToSet(order') = Replyless' /\ ToSet(order) \subseteq ToSet(order') /\ NewestPainted'
    BY <2>1, AnotherRefresh
  <2>3. announced' \in 0..table'
    BY <2>1, HubParts
  <2> QED BY <2>1, <2>2, <2>3, HubParts, HubTyped
<1>2. ASSUME NEW o \in HubOp, OpDone(o) PROVE HubInv'
  <2>1. /\ mdsOp' = mdsOp \ {o} /\ (table' = table \/ table' = table + 1) /\ table' <= MaxTable
        /\ UNCHANGED <<announced, newest, late, painted, excused>>
    BY <1>2 DEF OpDone
  <2>2. \/ mdsFails < MaxMdsFails /\ mdsFails' = mdsFails + 1 /\ UNCHANGED <<refresh, order, modal>>
        \/ Refreshes /\ UNCHANGED mdsFails /\ modal' \in {modal, "none"}
    BY <1>2 DEF OpDone
  <2>3. table' \in 0..MaxTable /\ announced' \in 0..table'
    <3>1. table \in 0..MaxTable /\ announced \in 0..table /\ MaxTable \in Nat
      BY HubParts
    <3> QED BY <2>1, <3>1
  <2>4. CASE mdsFails < MaxMdsFails /\ mdsFails' = mdsFails + 1 /\ UNCHANGED <<refresh, order, modal>>
    <3>1. Replyless' = Replyless /\ NewestPainted' = NewestPainted
      BY <2>1, <2>4 DEF Replyless, NewestPainted
    <3>2. mdsFails' \in 0..MaxMdsFails
      BY <2>4, HubFailed
    <3> QED BY <2>1, <2>3, <2>4, <3>1, <3>2, HubParts, HubTyped
  <2>5. CASE Refreshes /\ UNCHANGED mdsFails /\ modal' \in {modal, "none"}
    <3>1. /\ refresh' \in [Refresh -> RefreshType] /\ order' \in Seq(Refresh) /\ IsInjective(order')
          /\ ToSet(order') = Replyless' /\ ToSet(order) \subseteq ToSet(order') /\ NewestPainted'
      BY <2>1, <2>5, AnotherRefresh
    <3> QED BY <2>1, <2>3, <2>5, <3>1, HubParts, HubTyped
  <2> QED BY <2>2, <2>4, <2>5
<1> QED BY <1>1, <1>2

LEMMA HubKeeps == HubInv /\ [HubNext]_hubVars => HubInv'
<1> SUFFICES ASSUME HubInv, [HubNext]_hubVars PROVE HubInv'
  OBVIOUS
<1>1. CASE UNCHANGED hubVars
  BY <1>1 DEF hubVars, HubInv, HubTypeOK, NewestPainted
<1>2. CASE HubNext
  BY <1>2, ConfirmMoves, RefreshMoves, AskerMoves DEF HubNext
<1> QED BY <1>1, <1>2

LEMMA IconsKeep == HubInv => KeepsList
<1> SUFFICES ASSUME HubInv, NEW r \in Refresh, IconsReady(r) PROVE painted'.ver = painted.ver
  BY DEF KeepsList
<1>1. "none" \notin Refresh /\ NewestPainted
  BY HubParts
<1>2. CASE r = newest
  BY <1>1, <1>2 DEF IconsReady, Paints, NewestPainted
<1>3. CASE r # newest
  BY <1>3 DEF IconsReady, Paints
<1> QED BY <1>2, <1>3

-----------------------------------------------------------------------------
(* The store and the webviews.                                              *)

Contents ==
  [list : Table, loaded : BOOLEAN, sig : UNION {[D -> Entry] : D \in SUBSET Dapp}, told : BOOLEAN,
   tabs : [Dapp -> Nat], opening : [Dapp -> {"no", "grant", "list"}], had : [Dapp -> Nat],
   waiting : Dapp \cup {Nobody}, notice : {"", "installing", "missing"}]

ViewType == [at : {"none", "mounting", "up"}, ver : Nat, behind : BOOLEAN]

\* t is a table that the node had before u, or u.
Older(t, u) == \A d \in Dapp : t[d].ver <= u[d].ver

\* The list is of before the reply that counts, and that is of before now.
Fresh ==
  /\ Older(sh.list, node)
  /\ latest # Nobody /\ reply[latest] # NotYet =>
       Older(sh.list, reply[latest]) /\ Older(reply[latest], node)

\* There is a webview for each tab; one that no reload has missed shows its session.
ViewsRight ==
  \A d \in Dapp :
    /\ view[d].at = "none" <=> ~Open(sh, d)
    /\ view[d].at # "none" /\ ~view[d].behind => view[d].ver = sh.tabs[d]

ShellInv == ShellTypeOK /\ sh \in Contents /\ Fresh /\ ViewsRight

\* The store x has the list of s.
SameList(s, x) == x \in Contents /\ x.list = s.list /\ x.sig = s.sig

LEMMA StoreParts ==
  ASSUME NEW s \in Contents
  PROVE  /\ s.list \in Table /\ s.loaded \in BOOLEAN /\ s.told \in BOOLEAN
         /\ s.sig \in UNION {[D -> Entry] : D \in SUBSET Dapp}
         /\ s.tabs \in [Dapp -> Nat] /\ s.opening \in [Dapp -> {"no", "grant", "list"}]
         /\ s.had \in [Dapp -> Nat] /\ s.waiting \in Dapp \cup {Nobody}
         /\ s.notice \in {"", "installing", "missing"}
         /\ \A d \in Dapp : s.list[d] \in Entry /\ s.list[d].ver \in Nat
BY DEF Contents, Table, Entry

\* A field of the store changes, and it is a store still.
LEMMA SetTabs ==
  ASSUME NEW s \in Contents, NEW f \in [Dapp -> Nat]
  PROVE  SameList(s, [s EXCEPT !.tabs = f]) /\ [s EXCEPT !.tabs = f].tabs = f
BY DEF Contents, SameList

LEMMA SetOpening ==
  ASSUME NEW s \in Contents, NEW f \in [Dapp -> {"no", "grant", "list"}], NEW g \in [Dapp -> Nat]
  PROVE  SameList(s, [s EXCEPT !.opening = f, !.had = g]) /\ [s EXCEPT !.opening = f, !.had = g].opening = f
BY DEF Contents, SameList

LEMMA SetWaiting ==
  ASSUME NEW s \in Contents, NEW w \in Dapp \cup {Nobody}, NEW n \in {"", "installing", "missing"}
  PROVE  SameList(s, [s EXCEPT !.waiting = w, !.notice = n])
BY DEF Contents, SameList

LEMMA SigTyped == ASSUME NEW t \in Table PROVE Sig(t) \in UNION {[D -> Entry] : D \in SUBSET Dapp}
<1>1. Sig(t) \in [{x \in Dapp : t[x].inst} -> Entry]
  BY DEF Sig, Table
<1>2. {x \in Dapp : t[x].inst} \in SUBSET Dapp
  OBVIOUS
<1> QED BY <1>1, <1>2

LEMMA NoSigTyped == NoSig \in UNION {[D -> Entry] : D \in SUBSET Dapp}
<1>1. NoSig \in [{} -> Entry]
  BY DEF NoSig
<1>2. {} \in SUBSET Dapp
  OBVIOUS
<1> QED BY <1>1, <1>2

LEMMA SetList ==
  ASSUME NEW s \in Contents, NEW t \in Table
  PROVE  /\ [s EXCEPT !.list = t, !.loaded = TRUE] \in Contents
         /\ [s EXCEPT !.list = t, !.loaded = TRUE].list = t
         /\ [s EXCEPT !.list = t, !.loaded = TRUE].sig = s.sig
         /\ [[s EXCEPT !.list = t, !.loaded = TRUE] EXCEPT !.sig = Sig(t)] \in Contents
         /\ [[s EXCEPT !.list = t, !.loaded = TRUE] EXCEPT !.sig = Sig(t)].list = t
         /\ [[s EXCEPT !.list = t, !.loaded = TRUE] EXCEPT !.sig = Sig(t)].sig = Sig(t)
BY SigTyped DEF Contents

\* What the operators of the store leave alone.
LEMMA WithTabKeeps ==
  ASSUME NEW s \in Contents, NEW d \in Dapp, NEW n \in Nat
  PROVE  SameList(s, WithTab(s, d, n)) /\ WithTab(s, d, n).opening = s.opening
<1>1. s.tabs \in [Dapp -> Nat]
  BY StoreParts
<1>2. [s.tabs EXCEPT ![d] = n] \in [Dapp -> Nat]
  BY <1>1
<1>3. WithTab(s, d, n) = [s EXCEPT !.tabs = [s.tabs EXCEPT ![d] = n]]
  BY DEF WithTab
<1>4. SameList(s, WithTab(s, d, n))
  BY <1>2, <1>3, SetTabs
<1>5. WithTab(s, d, n).opening = s.opening
  BY DEF WithTab, Contents
<1> QED BY <1>4, <1>5

LEMMA RetabbedKeeps ==
  ASSUME NEW s \in Contents, NEW t \in Table
  PROVE  SameList(s, Retabbed(s, t))
<1> DEFINE f == [d \in Dapp |-> IF Open(s, d) /\ t[d].inst THEN t[d].ver ELSE s.tabs[d]]
<1>1. Retabbed(s, t) = [s EXCEPT !.tabs = f]
  BY DEF Retabbed
<1>2. f \in [Dapp -> Nat]
  BY StoreParts DEF Table, Entry
<1> QED BY <1>1, <1>2, SetTabs

\* An open that begins changes how far it is of this dapp only.
LEMMA OpenDappKeeps ==
  ASSUME NEW s \in Contents, NEW d \in Dapp, NEW arg \in Nat
  PROVE  /\ SameList(s, OpenDapp(s, d, arg))
         /\ \A x \in Dapp \ {d} : OpenDapp(s, d, arg).opening[x] = s.opening[x]
<1>1. s.list[d].ver \in Nat /\ SameList(s, s)
  BY StoreParts DEF SameList
<1>2. SameList(s, WithTab(s, d, s.list[d].ver)) /\ SameList(s, WithTab(s, d, arg))
  BY <1>1, WithTabKeeps
<1>3. WithTab(s, d, s.list[d].ver).opening = s.opening /\ WithTab(s, d, arg).opening = s.opening
  BY <1>1, WithTabKeeps
<1> DEFINE f == [s.opening EXCEPT ![d] = "grant"]
           g == [s.had EXCEPT ![d] = s.list[d].ver]
           x == [s EXCEPT !.opening[d] = "grant", !.had[d] = s.list[d].ver]
<1>4. x = [s EXCEPT !.opening = f, !.had = g]
  BY DEF Contents
<1>5. f \in [Dapp -> {"no", "grant", "list"}] /\ g \in [Dapp -> Nat] /\ \A y \in Dapp \ {d} : f[y] = s.opening[y]
  BY <1>1, StoreParts
<1> HIDE DEF x, f, g
<1>6. SameList(s, x) /\ x.opening = f
  <2>1. SameList(s, [s EXCEPT !.opening = f, !.had = g]) /\ [s EXCEPT !.opening = f, !.had = g].opening = f
    BY <1>5, SetOpening
  <2> QED BY <1>4, <2>1
<1>7. OpenDapp(s, d, arg) \in {s, x, WithTab(s, d, s.list[d].ver), WithTab(s, d, arg)}
  BY DEF OpenDapp, x
<1> QED BY <1>1, <1>2, <1>3, <1>5, <1>6, <1>7

LEMMA OpenEndsKeeps ==
  ASSUME NEW s \in Contents, NEW d \in Dapp
  PROVE  SameList(s, OpenEnds(s, d))
<1> DEFINE n == IF s.list[d].inst THEN s.list[d].ver ELSE s.had[d]
           w == WithTab(s, d, n)
<1>1. n \in Nat
  BY StoreParts
<1> HIDE DEF n
<1>2. SameList(s, w)
  BY <1>1, WithTabKeeps
<1>3. w \in Contents
  BY <1>2 DEF SameList
<1> HIDE DEF w
<1>4. [w.opening EXCEPT ![d] = "no"] \in [Dapp -> {"no", "grant", "list"}] /\ [w.had EXCEPT ![d] = 0] \in [Dapp -> Nat]
  BY <1>3, StoreParts
<1>5. SameList(w, [w EXCEPT !.opening = [w.opening EXCEPT ![d] = "no"], !.had = [w.had EXCEPT ![d] = 0]])
  BY <1>3, <1>4, SetOpening
<1>6. OpenEnds(s, d) = [w EXCEPT !.opening = [w.opening EXCEPT ![d] = "no"], !.had = [w.had EXCEPT ![d] = 0]]
  BY <1>3 DEF OpenEnds, w, n, Contents
<1> QED BY <1>2, <1>5, <1>6 DEF SameList

LEMMA GiveUpKeeps == ASSUME NEW s \in Contents, NEW d PROVE SameList(s, GiveUp(s, d))
<1>1. SameList(s, s)
  BY DEF SameList
<1>2. SameList(s, [s EXCEPT !.waiting = Nobody, !.notice = "missing"])
  BY SetWaiting
<1> QED BY <1>1, <1>2 DEF GiveUp

\* A reply that counts becomes the list.
LEMMA ListedTakes ==
  ASSUME NEW s \in Contents, NEW t \in Table
  PROVE  Listed(s, t) \in Contents /\ Listed(s, t).list = t /\ Listed(s, t).sig = Sig(t)
<1> DEFINE new == [s EXCEPT !.list = t, !.loaded = TRUE]
           signed == [new EXCEPT !.sig = Sig(t)]
           changed == Retabbed(signed, t)
           told1 == [changed EXCEPT !.waiting = Nobody, !.notice = ""]
<1>1. /\ new \in Contents /\ new.list = t /\ new.sig = s.sig
      /\ signed \in Contents /\ signed.list = t /\ signed.sig = Sig(t)
  BY SetList
<1> HIDE DEF signed
<1>2. SameList(signed, changed)
  BY <1>1, RetabbedKeeps
<1>3. changed \in Contents /\ changed.list = t /\ changed.sig = Sig(t)
  BY <1>1, <1>2 DEF SameList
<1> HIDE DEF changed
<1>4. SameList(changed, told1)
  BY <1>3, SetWaiting
<1>5. told1 \in Contents /\ told1.list = t /\ told1.sig = Sig(t)
  BY <1>3, <1>4 DEF SameList
<1> HIDE DEF told1
<1>6. ASSUME s.waiting # Nobody PROVE SameList(told1, OpenDapp(told1, s.waiting, 0))
  BY <1>5, <1>6, StoreParts, OpenDappKeeps
<1> HIDE DEF new
<1>7. Listed(s, t) = (IF Sig(t) = s.sig THEN new
                      ELSE IF s.waiting # Nobody /\ t[s.waiting].inst THEN OpenDapp(told1, s.waiting, 0)
                      ELSE changed)
  BY DEF Listed, told1, changed, signed, new
<1> QED BY <1>1, <1>3, <1>5, <1>6, <1>7 DEF SameList

-----------------------------------------------------------------------------
(* The node's table.                                                        *)

LEMMA OlderSelf == ASSUME NEW t \in Table PROVE Older(t, t)
<1>1. \A d \in Dapp : t[d].ver \in Nat
  BY DEF Table, Entry
<1> QED BY <1>1 DEF Older

LEMMA OlderStill ==
  ASSUME NEW t \in Table, NEW u \in Table, NEW v \in Table, Older(t, u), Older(u, v)
  PROVE  Older(t, v)
<1>1. \A d \in Dapp : t[d].ver \in Nat /\ u[d].ver \in Nat /\ v[d].ver \in Nat
  BY DEF Table, Entry
<1> QED BY <1>1 DEF Older

\* A change of the table gives a session id that was not there.
LEMMA ChangeIsNewer ==
  ASSUME NEW t \in Table, NEW d \in Dapp, NEW i \in BOOLEAN, NEW w \in BOOLEAN, NEW u,
         u = [t EXCEPT ![d] = [ver |-> @.ver + 1, inst |-> i, write |-> w]]
  PROVE  u \in Table /\ Older(t, u)
<1>1. \A x \in Dapp : t[x] \in Entry /\ t[x].ver \in Nat
  BY DEF Table, Entry
<1>2. [ver |-> t[d].ver + 1, inst |-> i, write |-> w] \in Entry
  BY <1>1 DEF Entry
<1>3. u \in Table
  BY <1>2 DEF Table
<1>4. u[d].ver = t[d].ver + 1 /\ \A x \in Dapp \ {d} : u[x] = t[x]
  BY DEF Table
<1> QED BY <1>1, <1>3, <1>4 DEF Older

-----------------------------------------------------------------------------
(* The steps of the shell.                                                  *)

SigRight == sh.sig = NoSig \/ sh.sig = Sig(sh.list)

LEMMA ShellParts ==
  ASSUME ShellInv
  PROVE  /\ node \in Table /\ done \in BOOLEAN /\ acting \in BOOLEAN /\ sh \in Contents /\ SigRight
         /\ calling \subseteq Asker /\ latest \in Asker \cup {Nobody} /\ Nobody \notin Asker
         /\ reply \in [Asker -> Table \cup {NotYet}]
         /\ sought \in [{"named", "status"} -> Dapp \cup {Nobody}]
         /\ view \in [Dapp -> ViewType] /\ changes \in 0..MaxChanges /\ fails \in 0..MaxFails
         /\ Fresh /\ ViewsRight /\ MaxChanges \in Nat /\ MaxFails \in Nat
BY ShellAssumption DEF ShellAssumption, ShellInv, ShellTypeOK, SigRight, ViewType, Asker

LEMMA ShellTyped ==
  ASSUME node' \in Table, done' \in BOOLEAN, acting' \in BOOLEAN, sh' \in Contents, SigRight',
         calling' \subseteq Asker, latest' \in Asker \cup {Nobody}, reply' \in [Asker -> Table \cup {NotYet}],
         sought' \in [{"named", "status"} -> Dapp \cup {Nobody}],
         view' \in [Dapp -> ViewType], changes' \in 0..MaxChanges, fails' \in 0..MaxFails,
         Fresh', ViewsRight'
  PROVE  ShellInv'
<1>1. /\ sh'.list \in Table /\ sh'.loaded \in BOOLEAN /\ sh'.told \in BOOLEAN /\ sh'.tabs \in [Dapp -> Nat]
      /\ sh'.opening \in [Dapp -> {"no", "grant", "list"}] /\ sh'.had \in [Dapp -> Nat]
      /\ sh'.waiting \in Dapp \cup {Nobody} /\ sh'.notice \in {"", "installing", "missing"}
  BY StoreParts
<1> QED BY <1>1 DEF ShellInv, ShellTypeOK, SigRight, ViewType

\* The webviews follow what the store has become.
LEMMA Rendering ==
  ASSUME ShellInv, NEW s \in Contents, Render(s)
  PROVE  sh' = s /\ view' \in [Dapp -> ViewType] /\ ViewsRight'
<1>1. sh' = s /\ view' = Rendered(s)
  BY DEF Render
<1>2. view \in [Dapp -> ViewType] /\ ViewsRight
  BY ShellParts
<1>3. ASSUME NEW d \in Dapp
      PROVE  /\ view'[d] \in ViewType /\ (view'[d].at = "none" <=> ~Open(s, d))
             /\ (view'[d].at # "none" /\ ~view'[d].behind => view'[d].ver = s.tabs[d])
  <2>1. s.tabs[d] \in Nat /\ view[d] \in ViewType
    BY <1>2, StoreParts
  <2>2. CASE ~Open(s, d)
    <3>1. view'[d] = NoView
      BY <1>1, <2>2 DEF Rendered
    <3> QED BY <2>2, <3>1 DEF NoView, ViewType
  <2>3. CASE Open(s, d) /\ view[d].at = "none"
    <3>1. view'[d] = [at |-> "mounting", ver |-> s.tabs[d], behind |-> FALSE]
      BY <1>1, <2>3 DEF Rendered
    <3> QED BY <2>1, <2>3, <3>1 DEF ViewType
  <2>4. CASE Open(s, d) /\ view[d].at # "none"
    <3>1. view'[d] = IF s.tabs[d] # sh.tabs[d] THEN Loaded(view[d], s.tabs[d]) ELSE view[d]
      BY <1>1, <2>4 DEF Rendered
    <3>2. CASE s.tabs[d] # sh.tabs[d] /\ view[d].at = "up"
      <4>1. view'[d] = [view[d] EXCEPT !.ver = s.tabs[d], !.behind = FALSE]
        BY <3>1, <3>2 DEF Loaded
      <4> QED BY <2>1, <2>4, <4>1 DEF ViewType
    <3>3. CASE s.tabs[d] # sh.tabs[d] /\ view[d].at # "up"
      <4>1. view'[d] = [view[d] EXCEPT !.behind = TRUE]
        BY <3>1, <3>3 DEF Loaded
      <4> QED BY <2>1, <2>4, <4>1 DEF ViewType
    <3>4. CASE s.tabs[d] = sh.tabs[d]
      <4>1. view'[d] = view[d]
        BY <3>1, <3>4
      <4> QED BY <1>2, <2>1, <2>4, <3>4, <4>1 DEF ViewsRight
    <3> QED BY <3>2, <3>3, <3>4
  <2> QED BY <2>2, <2>3, <2>4
<1>4. view' \in [Dapp -> ViewType]
  BY <1>1, <1>3 DEF Rendered
<1>5. ViewsRight'
  BY <1>1, <1>3 DEF ViewsRight
<1> QED BY <1>1, <1>4, <1>5

\* Nothing is rendered when no tab has changed.
LEMMA SameTabs ==
  ASSUME ShellInv, UNCHANGED view, sh'.tabs = sh.tabs
  PROVE  view' \in [Dapp -> ViewType] /\ ViewsRight'
<1>1. view \in [Dapp -> ViewType] /\ ViewsRight
  BY ShellParts
<1> QED BY <1>1 DEF ViewsRight, Open

\* To ask for the list makes the replies that are on their way stale.
LEMMA AskTyped ==
  ASSUME ShellInv, NEW p \in Asker, AskList(p)
  PROVE  /\ calling' \subseteq Asker /\ latest' \in Asker \cup {Nobody}
         /\ reply' \in [Asker -> Table \cup {NotYet}] /\ reply'[latest'] = NotYet
<1>1. calling \subseteq Asker /\ reply \in [Asker -> Table \cup {NotYet}]
  BY ShellParts
<1> QED BY <1>1 DEF AskList

\* The list is kept, and the node goes on.
LEMMA ListKept ==
  ASSUME ShellInv, sh' \in Contents, sh'.list = sh.list, node' \in Table, Older(node, node'),
         UNCHANGED <<latest, reply>> \/ \E p \in Asker : AskList(p)
  PROVE  Fresh' /\ Older(sh.list, sh'.list)
<1>1. /\ node \in Table /\ sh.list \in Table /\ Fresh /\ reply \in [Asker -> Table \cup {NotYet}]
      /\ latest \in Asker \cup {Nobody}
  BY ShellParts, StoreParts
<1>2. Older(sh'.list, node') /\ Older(sh.list, sh'.list)
  <2>1. Older(sh.list, node)
    BY <1>1 DEF Fresh
  <2> QED BY <1>1, <2>1, OlderStill, OlderSelf
<1>3. CASE UNCHANGED <<latest, reply>>
  <2>1. ASSUME latest # Nobody, reply[latest] # NotYet
        PROVE  Older(sh.list, reply[latest]) /\ Older(reply[latest], node')
    <3>1. reply[latest] \in Table
      BY <1>1, <2>1
    <3>2. Older(sh.list, reply[latest]) /\ Older(reply[latest], node)
      BY <1>1, <2>1 DEF Fresh
    <3> QED BY <1>1, <3>1, <3>2, OlderStill
  <2> QED BY <1>2, <1>3, <2>1 DEF Fresh
<1>4. CASE \E p \in Asker : AskList(p)
  BY <1>2, <1>4, AskTyped DEF Fresh
<1> QED BY <1>2, <1>3, <1>4

LEMMA SigKept == ASSUME ShellInv, SameList(sh, sh') PROVE SigRight'
BY ShellParts DEF SigRight, SameList

\* The store of a reply: as it was, or with the list of the one that counts.
LEMMA AfterTakes ==
  ASSUME ShellInv, NEW p \in Asker, NEW failed \in BOOLEAN, Back(p, failed)
  PROVE  /\ After(p, failed) \in Contents
         /\ \/ SameList(sh, After(p, failed))
            \/ /\ p = latest /\ latest # Nobody /\ reply[p] # NotYet /\ reply[p] \in Table
               /\ After(p, failed).list = reply[p] /\ After(p, failed).sig = Sig(reply[p])
<1>1. reply[p] \in Table \cup {NotYet} /\ Nobody \notin Asker /\ sh \in Contents
  BY ShellParts
<1>2. CASE ~(Counts(p) /\ ~failed)
  <2>1. After(p, failed) = sh
    BY <1>2 DEF After
  <2> QED BY <1>1, <2>1 DEF SameList
<1>3. CASE Counts(p) /\ ~failed
  <2>1. reply[p] # NotYet /\ p = latest
    BY <1>3 DEF Back, Counts
  <2>2. reply[p] \in Table /\ After(p, failed) = Listed(sh, reply[p])
    BY <1>1, <1>3, <2>1 DEF After
  <2>3. Listed(sh, reply[p]) \in Contents /\ Listed(sh, reply[p]).list = reply[p] /\ Listed(sh, reply[p]).sig = Sig(reply[p])
    BY <1>1, <2>2, ListedTakes
  <2> QED BY <1>1, <2>1, <2>2, <2>3
<1> QED BY <1>2, <1>3

\* A request for the list is back, and the store becomes s.
LEMMA BackMoves ==
  ASSUME ShellInv, NEW p \in Asker, NEW failed \in BOOLEAN, Back(p, failed), NEW s,
         SameList(After(p, failed), s), Render(s), UNCHANGED <<node, done, acting, changes>>,
         sought' \in [{"named", "status"} -> Dapp \cup {Nobody}]
  PROVE  ShellInv' /\ Older(sh.list, sh'.list)
<1>1. s \in Contents /\ s.list = After(p, failed).list /\ s.sig = After(p, failed).sig
  BY DEF SameList
<1>2. sh' = s /\ view' \in [Dapp -> ViewType] /\ ViewsRight'
  BY <1>1, Rendering
<1>3. /\ node \in Table /\ sh \in Contents /\ sh.list \in Table /\ SigRight /\ Fresh /\ calling \subseteq Asker
      /\ latest \in Asker \cup {Nobody} /\ reply \in [Asker -> Table \cup {NotYet}] /\ Nobody \notin Asker
  BY ShellParts, StoreParts
<1>4. /\ calling' \subseteq Asker /\ latest' \in Asker \cup {Nobody} /\ reply' \in [Asker -> Table \cup {NotYet}]
      /\ (latest' = Nobody \/ (latest' = latest /\ latest # p /\ reply'[latest] = reply[latest]))
  BY <1>3 DEF Back
<1>5. fails' \in 0..MaxFails
  <2>1. fails \in 0..MaxFails /\ MaxFails \in Nat
    BY ShellParts
  <2>2. fails' = fails \/ (fails < MaxFails /\ fails' = fails + 1)
    BY DEF Back, Fails, Works
  <2> QED BY <2>1, <2>2
<1>6. SigRight' /\ Older(sh.list, s.list) /\ Older(s.list, node) /\ (SameList(sh, s) \/ latest' = Nobody)
  <2>1. CASE SameList(sh, After(p, failed))
    <3>1. SameList(sh, s)
      BY <1>1, <2>1 DEF SameList
    <3>2. SigRight'
      BY <1>2, <3>1, SigKept
    <3>3. s.list = sh.list /\ Older(sh.list, node)
      BY <1>3, <3>1 DEF SameList, Fresh
    <3> QED BY <1>3, <3>1, <3>2, <3>3, OlderSelf
  <2>2. CASE /\ p = latest /\ latest # Nobody /\ reply[p] # NotYet /\ reply[p] \in Table
             /\ After(p, failed).list = reply[p] /\ After(p, failed).sig = Sig(reply[p])
    <3>1. SigRight'
      BY <1>1, <1>2, <2>2 DEF SigRight
    <3>2. Older(sh.list, reply[p]) /\ Older(reply[p], node)
      BY <1>3, <2>2 DEF Fresh
    <3> QED BY <1>1, <1>4, <2>2, <3>1, <3>2
  <2> QED BY <2>1, <2>2, AfterTakes
<1>7. Fresh'
  <2>1. ASSUME latest' # Nobody, reply'[latest'] # NotYet
        PROVE  Older(sh'.list, reply'[latest']) /\ Older(reply'[latest'], node')
    <3>1. latest' = latest /\ reply'[latest] = reply[latest] /\ sh'.list = sh.list
      BY <1>2, <1>4, <1>6, <2>1 DEF SameList
    <3> QED BY <1>3, <2>1, <3>1 DEF Fresh
  <2> QED BY <1>2, <1>6, <2>1 DEF Fresh
<1> QED BY <1>1, <1>2, <1>4, <1>5, <1>6, <1>7, ShellParts, ShellTyped

\* What a step of the shell keeps: the invariant, and the list is not rewound.
Goes == ShellInv' /\ Older(sh.list, sh'.list)

\* A tab is opened or closed, and the list is as it was.
LEMMA RenderMoves ==
  ASSUME ShellInv, NEW s, SameList(sh, s), Render(s), changes' \in 0..MaxChanges,
         UNCHANGED <<node, done, calling, latest, reply, acting, sought, fails>>
  PROVE  Goes
<1>1. s \in Contents /\ s.list = sh.list
  BY DEF SameList
<1>2. sh' = s /\ view' \in [Dapp -> ViewType] /\ ViewsRight'
  BY <1>1, Rendering
<1>3. SigRight'
  BY <1>2, SigKept
<1>4. Fresh' /\ Older(sh.list, sh'.list)
  BY <1>1, <1>2, ShellParts, OlderSelf, ListKept
<1> QED BY <1>1, <1>2, <1>3, <1>4, ShellParts, ShellTyped DEF Goes

\* No tab is opened or closed; the list may be asked for, and the node may go on.
LEMMA QuietMoves ==
  ASSUME ShellInv, sh' \in Contents, sh'.list = sh.list, sh'.tabs = sh.tabs, SigRight', UNCHANGED view,
         node' \in Table, Older(node, node'),
         UNCHANGED <<calling, latest, reply>> \/ \E p \in Asker : AskList(p),
         done' \in BOOLEAN, acting' \in BOOLEAN, sought' \in [{"named", "status"} -> Dapp \cup {Nobody}],
         changes' \in 0..MaxChanges, fails' \in 0..MaxFails
  PROVE  Goes
<1>1. view' \in [Dapp -> ViewType] /\ ViewsRight'
  BY SameTabs
<1>2. Fresh' /\ Older(sh.list, sh'.list)
  BY ListKept
<1>3. calling' \subseteq Asker /\ latest' \in Asker \cup {Nobody} /\ reply' \in [Asker -> Table \cup {NotYet}]
  BY ShellParts, AskTyped
<1> QED BY <1>1, <1>2, <1>3, ShellTyped DEF Goes

\* A bounded count goes up.
LEMMA Counted ==
  ASSUME ShellInv
  PROVE  /\ changes < MaxChanges => changes + 1 \in 0..MaxChanges
         /\ Fails \/ Works => fails' \in 0..MaxFails
<1>1. changes \in 0..MaxChanges /\ fails \in 0..MaxFails /\ MaxChanges \in Nat /\ MaxFails \in Nat
  BY ShellParts
<1> QED BY <1>1 DEF Fails, Works

\* Of one dapp there is one grant to come at most.
LEMMA GrantCounted ==
  ASSUME ShellInv, NEW d \in Dapp, NEW arg \in Nat, LastAsked(OpenDapp(sh, d, arg))
  PROVE  changes' \in 0..MaxChanges
<1> DEFINE G == {x \in Dapp : OpenDapp(sh, d, arg).opening[x] = "grant" /\ sh.opening[x] = "no"}
<1>1. \A x \in Dapp \ {d} : OpenDapp(sh, d, arg).opening[x] = sh.opening[x]
  BY ShellParts, OpenDappKeeps
<1>2. G \subseteq {d}
  BY <1>1
<1>3. changes' = changes + Cardinality(G) /\ changes' <= MaxChanges
  BY DEF LastAsked
<1> HIDE DEF G
<1>4. Cardinality(G) \in Nat
  BY <1>2, FS_Singleton, FS_Subset, FS_CardinalityType
<1>5. changes \in 0..MaxChanges /\ MaxChanges \in Nat
  BY ShellParts
<1> QED BY <1>3, <1>4, <1>5

LEMMA NamedAskers == {"poll", "act", "status", "named"} \subseteq Asker /\ Dapp \subseteq Asker
BY DEF Asker

\* A reply to the poll, to a push, to a decision, to an open.
LEMMA ReplyMoves ==
  ASSUME ShellInv,
         PollListed \/ StatusListed \/ NamedListed \/ ActListed \/ \E d \in Dapp : OpenListed(d)
  PROVE  Goes
<1>1. sought \in [{"named", "status"} -> Dapp \cup {Nobody}]
  BY ShellParts
<1>2. ASSUME NEW p \in Asker, NEW failed \in BOOLEAN, Back(p, failed)
      PROVE  /\ SameList(After(p, failed), After(p, failed))
             /\ \A d : SameList(After(p, failed), GiveUp(After(p, failed), d))
             /\ \A d \in Dapp : SameList(After(p, failed), OpenEnds(After(p, failed), d))
  <2>1. After(p, failed) \in Contents
    BY <1>2, AfterTakes
  <2> QED BY <2>1, GiveUpKeeps, OpenEndsKeeps DEF SameList
<1>3. CASE PollListed
  <2>1. PICK failed \in BOOLEAN : Back("poll", failed) /\ Render(After("poll", failed))
    BY <1>3 DEF PollListed
  <2>2. UNCHANGED <<node, done, acting, changes>> /\ UNCHANGED sought
    BY <1>3 DEF PollListed
  <2> QED BY <1>1, <1>2, <2>1, <2>2, NamedAskers, BackMoves DEF Goes
<1>4. CASE StatusListed
  <2>1. PICK failed \in BOOLEAN :
          Back("status", failed) /\ Render(GiveUp(After("status", failed), sought["status"]))
    BY <1>4 DEF StatusListed
  <2>2. UNCHANGED <<node, done, acting, changes>> /\ sought' \in [{"named", "status"} -> Dapp \cup {Nobody}]
    BY <1>1, <1>4 DEF StatusListed
  <2> QED BY <1>2, <2>1, <2>2, NamedAskers, BackMoves DEF Goes
<1>5. CASE NamedListed
  <2>1. PICK failed \in BOOLEAN :
          Back("named", failed) /\ Render(GiveUp(After("named", failed), sought["named"]))
    BY <1>5 DEF NamedListed
  <2>2. UNCHANGED <<node, done, acting, changes>> /\ sought' \in [{"named", "status"} -> Dapp \cup {Nobody}]
    BY <1>1, <1>5 DEF NamedListed
  <2> QED BY <1>2, <2>1, <2>2, NamedAskers, BackMoves DEF Goes
<1>6. CASE ActListed
  <2>1. PICK failed \in BOOLEAN : Back("act", failed) /\ Render(After("act", failed))
    BY <1>6 DEF ActListed
  <2>2. UNCHANGED <<node, done, acting, changes>> /\ UNCHANGED sought
    BY <1>6 DEF ActListed
  <2> QED BY <1>1, <1>2, <2>1, <2>2, NamedAskers, BackMoves DEF Goes
<1>7. ASSUME NEW d \in Dapp, OpenListed(d) PROVE Goes
  <2>1. PICK failed \in BOOLEAN : Back(d, failed) /\ Render(OpenEnds(After(d, failed), d))
    BY <1>7 DEF OpenListed
  <2>2. UNCHANGED <<node, done, acting, changes>> /\ UNCHANGED sought
    BY <1>7 DEF OpenListed
  <2>3. d \in Asker
    BY NamedAskers
  <2>4. SameList(After(d, failed), OpenEnds(After(d, failed), d))
    BY <1>2, <2>1, <2>3
  <2> QED BY <1>1, <2>1, <2>2, <2>3, <2>4, BackMoves DEF Goes
<1> QED BY <1>3, <1>4, <1>5, <1>6, <1>7

\* An open, by a tile, a link or a button, and a tab closed.
LEMMA TabMoves ==
  ASSUME ShellInv, NEW d \in Dapp, AskOpen(d) \/ AskNamed(d) \/ CloseTab(d)
  PROVE  Goes
<1>1. sh \in Contents /\ node \in Table /\ 0 \in Nat /\ node[d].ver \in Nat /\ SigRight
  BY ShellParts DEF Table, Entry
<1>2. CASE AskOpen(d)
  <2>1. PICK arg \in {0, node[d].ver} : Render(OpenDapp(sh, d, arg)) /\ LastAsked(OpenDapp(sh, d, arg))
    BY <1>2 DEF AskOpen
  <2>2. arg \in Nat
    BY <1>1
  <2>3. SameList(sh, OpenDapp(sh, d, arg)) /\ changes' \in 0..MaxChanges
    BY <1>1, <2>1, <2>2, OpenDappKeeps, GrantCounted
  <2>4. UNCHANGED <<node, done, calling, latest, reply, acting, sought, fails>>
    BY <1>2 DEF AskOpen
  <2> QED BY <2>1, <2>3, <2>4, RenderMoves
<1>3. CASE CloseTab(d)
  <2>1. Render([sh EXCEPT !.tabs[d] = 0]) /\ UNCHANGED changes
    BY <1>3 DEF CloseTab
  <2>2. SameList(sh, [sh EXCEPT !.tabs[d] = 0])
    BY <1>1, WithTabKeeps DEF WithTab
  <2>3. UNCHANGED <<node, done, calling, latest, reply, acting, sought, fails>>
    BY <1>3 DEF CloseTab
  <2> QED BY <2>1, <2>2, <2>3, ShellParts, RenderMoves
<1>4. CASE AskNamed(d) /\ sh.list[d].inst
  <2>1. Render(OpenDapp(sh, d, 0)) /\ LastAsked(OpenDapp(sh, d, 0))
    BY <1>4 DEF AskNamed
  <2>2. SameList(sh, OpenDapp(sh, d, 0)) /\ changes' \in 0..MaxChanges
    BY <1>1, <2>1, OpenDappKeeps, GrantCounted
  <2>3. UNCHANGED <<node, done, calling, latest, reply, acting, sought, fails>>
    BY <1>4 DEF AskNamed
  <2> QED BY <2>1, <2>2, <2>3, RenderMoves
<1>5. CASE AskNamed(d) /\ ~sh.list[d].inst
  <2>1. /\ UNCHANGED <<view, changes>> /\ UNCHANGED <<node, done, acting, fails>>
        /\ \/ /\ sh' = [sh EXCEPT !.waiting = d] /\ AskList("named")
              /\ sought' = [sought EXCEPT !["named"] = d]
           \/ /\ sh' = [sh EXCEPT !.waiting = d, !.notice = "installing"]
              /\ UNCHANGED <<calling, latest, reply, sought>>
    BY <1>5 DEF AskNamed
  <2>2. SameList(sh, sh') /\ sh'.tabs = sh.tabs
    BY <1>1, <2>1 DEF SameList, Contents
  <2>3. SigRight' /\ sh' \in Contents /\ sh'.list = sh.list
    BY <2>2, SigKept DEF SameList
  <2>4. Older(node, node')
    BY <1>1, <2>1, OlderSelf
  <2>5. sought' \in [{"named", "status"} -> Dapp \cup {Nobody}]
    BY <2>1, ShellParts
  <2>6. UNCHANGED <<calling, latest, reply>> \/ \E p \in Asker : AskList(p)
    BY <2>1, NamedAskers
  <2> QED BY <2>1, <2>2, <2>3, <2>4, <2>5, <2>6, ShellParts, QuietMoves
<1> QED BY <1>2, <1>3, <1>4, <1>5

\* The store in another field than the tabs, and what is asked for.
LEMMA AskMoves ==
  ASSUME ShellInv, PollStarts \/ Tick \/ Act \/ Acted \/ \E d \in Dapp : Granted(d)
  PROVE  Goes
<1>1. sh \in Contents /\ node \in Table /\ SigRight /\ SameList(sh, sh) /\ Older(node, node)
  BY ShellParts, OlderSelf DEF SameList
<1>2. CASE PollStarts \/ Act
  <2>1. UNCHANGED <<node, done, sh, view, fails, sought>> /\ acting' \in BOOLEAN
    BY <1>2, ShellParts DEF PollStarts, Act
  <2>2. changes' \in 0..MaxChanges
    BY <1>2, ShellParts, Counted DEF PollStarts, Act
  <2>3. UNCHANGED <<calling, latest, reply>> \/ \E p \in Asker : AskList(p)
    BY <1>2, NamedAskers DEF PollStarts, Act
  <2>4. SigRight'
    BY <1>1, <2>1 DEF SigRight
  <2> QED BY <1>1, <2>1, <2>2, <2>3, <2>4, ShellParts, QuietMoves
<1>3. CASE Tick
  <2>1. /\ sh' = [sh EXCEPT !.told = done] /\ UNCHANGED <<node, done, acting, view, changes, fails>>
        /\ \/ /\ sh.waiting # Nobody /\ AskList("status")
              /\ sought' = [sought EXCEPT !["status"] = sh.waiting]
           \/ UNCHANGED <<calling, latest, reply, sought>>
    BY <1>3 DEF Tick
  <2>2. SameList(sh, sh') /\ sh'.tabs = sh.tabs
    BY <1>1, <2>1, ShellParts DEF SameList, Contents
  <2>3. SigRight' /\ sh' \in Contents /\ sh'.list = sh.list
    BY <2>2, SigKept DEF SameList
  <2>4. sought' \in [{"named", "status"} -> Dapp \cup {Nobody}]
    BY <1>1, <2>1, ShellParts, StoreParts
  <2>5. UNCHANGED <<calling, latest, reply>> \/ \E p \in Asker : AskList(p)
    BY <2>1, NamedAskers
  <2> QED BY <1>1, <2>1, <2>2, <2>3, <2>4, <2>5, ShellParts, QuietMoves
<1>4. CASE Acted
  <2>1. /\ acting' = FALSE /\ sh' = [sh EXCEPT !.sig = NoSig] /\ AskList("act")
        /\ UNCHANGED <<done, sought, view, changes>> /\ (Fails \/ Works)
        /\ (node' = node \/ \E d \in Dapp : node' = Changed(node, d, FALSE))
    BY <1>4 DEF Acted
  <2>2. sh' \in Contents /\ sh'.list = sh.list /\ sh'.tabs = sh.tabs /\ SigRight'
    BY <1>1, <2>1, NoSigTyped DEF Contents, SigRight
  <2>3. node' \in Table /\ Older(node, node')
    BY <1>1, <2>1, ChangeIsNewer DEF Changed
  <2>4. fails' \in 0..MaxFails
    BY <2>1, Counted
  <2> QED BY <2>1, <2>2, <2>3, <2>4, ShellParts, NamedAskers, QuietMoves
<1>5. ASSUME NEW d \in Dapp, Granted(d) PROVE Goes
  <2>1. /\ sh' = [sh EXCEPT !.opening[d] = "list", !.sig = NoSig] /\ AskList(d)
        /\ UNCHANGED <<done, acting, sought, view, changes>> /\ (Fails \/ Works)
        /\ (node' = node \/ node' = Changed(node, d, TRUE))
    BY <1>5 DEF Granted
  <2>2. [sh.opening EXCEPT ![d] = "list"] \in [Dapp -> {"no", "grant", "list"}]
    BY <1>1, StoreParts
  <2>3. sh' = [sh EXCEPT !.opening = [sh.opening EXCEPT ![d] = "list"], !.sig = NoSig]
    BY <1>1, <2>1 DEF Contents
  <2>4. sh' \in Contents /\ sh'.list = sh.list /\ sh'.tabs = sh.tabs /\ SigRight'
    BY <1>1, <2>2, <2>3, NoSigTyped DEF Contents, SigRight
  <2>5. node' \in Table /\ Older(node, node')
    BY <1>1, <2>1, ChangeIsNewer DEF Changed
  <2>6. fails' \in 0..MaxFails /\ d \in Asker
    BY <2>1, Counted, NamedAskers
  <2> QED BY <2>1, <2>4, <2>5, <2>6, ShellParts, QuietMoves
<1> QED BY <1>2, <1>3, <1>4, <1>5

\* The reply that counts is made: it is of now.
LEMMA AnswerMoves == ASSUME ShellInv, NEW p \in Asker, Answer(p) PROVE Goes
<1>1. /\ node \in Table /\ sh \in Contents /\ sh.list \in Table /\ SigRight /\ Fresh
      /\ reply \in [Asker -> Table \cup {NotYet}]
  BY ShellParts, StoreParts
<1>2. /\ p = latest /\ reply' = [reply EXCEPT ![p] = node]
      /\ UNCHANGED <<node, done, sh, calling, latest, acting, sought, view, changes, fails>>
  BY DEF Answer, Counts
<1>3. reply' \in [Asker -> Table \cup {NotYet}] /\ reply'[latest] = node
  BY <1>1, <1>2
<1>4. Fresh' /\ Older(sh.list, sh'.list) /\ SigRight'
  BY <1>1, <1>2, <1>3, OlderSelf DEF Fresh, SigRight
<1>5. view' \in [Dapp -> ViewType] /\ ViewsRight'
  BY <1>2, SameTabs
<1> QED BY <1>1, <1>2, <1>3, <1>4, <1>5, ShellParts, ShellTyped DEF Goes

\* The node and main go on, and a webview attaches.
LEMMA OtherMoves ==
  ASSUME ShellInv, ProvisionDone \/ \E d \in Dapp : Attached(d) \/ NodeChanges(d)
  PROVE  Goes
<1>1. /\ sh \in Contents /\ node \in Table /\ SigRight /\ Older(node, node) /\ view \in [Dapp -> ViewType]
      /\ ViewsRight
  BY ShellParts, OlderSelf
<1>2. CASE ProvisionDone
  <2>1. UNCHANGED <<node, sh, calling, latest, reply, acting, sought, view, changes, fails>> /\ done' = TRUE
    BY <1>2 DEF ProvisionDone
  <2>2. SigRight'
    BY <1>1, <2>1 DEF SigRight
  <2> QED BY <1>1, <2>1, <2>2, ShellParts, QuietMoves
<1>3. ASSUME NEW d \in Dapp, NodeChanges(d) PROVE Goes
  <2>1. /\ UNCHANGED <<done, sh, calling, latest, reply, acting, sought, view, fails>>
        /\ changes < MaxChanges /\ changes' = changes + 1
    BY <1>3 DEF NodeChanges
  <2>2. PICK i \in BOOLEAN, w \in BOOLEAN :
          node' = [node EXCEPT ![d] = [ver |-> @.ver + 1, inst |-> i, write |-> w]]
    <3>1. CASE node' \in {Changed(node, d, w) : w \in BOOLEAN}
      BY <3>1 DEF Changed
    <3>2. CASE node' = [node EXCEPT ![d] = [ver |-> @.ver + 1, inst |-> FALSE, write |-> FALSE]]
      BY <3>2
    <3> QED BY <1>3, <3>1, <3>2 DEF NodeChanges
  <2>3. node' \in Table /\ Older(node, node')
    BY <1>1, <2>2, ChangeIsNewer
  <2>4. changes' \in 0..MaxChanges
    BY <2>1, Counted
  <2>5. SigRight'
    BY <1>1, <2>1 DEF SigRight
  <2> QED BY <1>1, <2>1, <2>3, <2>4, <2>5, ShellParts, QuietMoves
<1>4. ASSUME NEW d \in Dapp, Attached(d) PROVE Goes
  <2>1. /\ view[d].at = "mounting" /\ view' = [view EXCEPT ![d].at = "up"]
        /\ UNCHANGED <<node, done, sh, calling, latest, reply, acting, sought, changes, fails>>
    BY <1>4 DEF Attached
  <2>2. /\ view' \in [Dapp -> ViewType] /\ \A x \in Dapp \ {d} : view'[x] = view[x]
        /\ view'[d].at = "up" /\ view'[d].ver = view[d].ver /\ view'[d].behind = view[d].behind
    BY <1>1, <2>1 DEF ViewType
  <2>3. ViewsRight'
    BY <1>1, <2>1, <2>2 DEF ViewsRight, Open
  <2>4. Fresh' /\ Older(sh.list, sh'.list)
    BY <1>1, <2>1, ListKept
  <2>5. SigRight'
    BY <1>1, <2>1 DEF SigRight
  <2> QED BY <1>1, <2>1, <2>2, <2>3, <2>4, <2>5, ShellParts, ShellTyped DEF Goes
<1> QED BY <1>2, <1>3, <1>4

LEMMA ShellMoves == ASSUME ShellInv, ShellNext PROVE Goes
BY ReplyMoves, TabMoves, AskMoves, AnswerMoves, OtherMoves DEF ShellNext

LEMMA ShellStarts == ShellInit => ShellInv
<1> SUFFICES ASSUME ShellInit PROVE ShellInv
  OBVIOUS
<1>1. MaxChanges \in Nat /\ MaxFails \in Nat
  BY ShellAssumption DEF ShellAssumption
<1>2. 0 \in 0..MaxChanges /\ 0 \in 0..MaxFails
  BY <1>1
<1>3. Absent \in Entry /\ [ver |-> 1, inst |-> TRUE, write |-> FALSE] \in Entry /\ Absent.ver = 0
  BY DEF Absent, Entry
<1>4. node \in Table /\ \A d \in Dapp : node[d].ver \in Nat
  BY <1>3 DEF ShellInit, Table, Entry
<1>5. sh = [list |-> [d \in Dapp |-> Absent], loaded |-> FALSE, sig |-> NoSig, told |-> FALSE,
           tabs |-> [d \in Dapp |-> 0], opening |-> [d \in Dapp |-> "no"],
           had |-> [d \in Dapp |-> 0], waiting |-> Nobody, notice |-> ""]
  BY DEF ShellInit
<1>6. /\ [d \in Dapp |-> Absent] \in Table /\ [d \in Dapp |-> 0] \in [Dapp -> Nat]
      /\ [d \in Dapp |-> "no"] \in [Dapp -> {"no", "grant", "list"}]
  BY <1>3 DEF Table
<1>7. sh \in Contents
  BY <1>5, <1>6, NoSigTyped DEF Contents
<1>8. Older(sh.list, node)
  <2>1. \A d \in Dapp : sh.list[d].ver = 0
    BY <1>3, <1>5
  <2> QED BY <1>4, <2>1 DEF Older
<1>9. Fresh
  BY <1>8 DEF Fresh, ShellInit
<1>10. view = [d \in Dapp |-> NoView]
  BY DEF ShellInit
<1>11. view \in [Dapp -> ViewType]
  BY <1>10 DEF NoView, ViewType
<1>12. ViewsRight
  <2>1. \A d \in Dapp : ~Open(sh, d)
    BY <1>5 DEF Open
  <2> QED BY <1>10, <2>1 DEF ViewsRight, NoView
<1>13. sh.sig = NoSig
  BY <1>5
<1>14. reply \in [Asker -> Table \cup {NotYet}] /\ sought \in [{"named", "status"} -> Dapp \cup {Nobody}]
  BY DEF ShellInit
<1>15. ShellTypeOK
  BY <1>2, <1>4, <1>7, <1>11, <1>13, <1>14, StoreParts DEF ShellInit, ShellTypeOK, ViewType
<1> QED BY <1>7, <1>9, <1>12, <1>15 DEF ShellInv

LEMMA ShellKeeps ==
  ShellInv /\ [ShellNext]_shellVars => ShellInv' /\ [\A d \in Dapp : sh'.list[d].ver >= sh.list[d].ver]_shellVars
<1> SUFFICES ASSUME ShellInv, [ShellNext]_shellVars
             PROVE  ShellInv' /\ [\A d \in Dapp : sh'.list[d].ver >= sh.list[d].ver]_shellVars
  OBVIOUS
<1>1. CASE UNCHANGED shellVars
  BY <1>1 DEF shellVars, ShellInv, ShellTypeOK, Fresh, ViewsRight, Open
<1>2. CASE ShellNext
  <2>1. ShellInv' /\ Older(sh.list, sh'.list)
    BY <1>2, ShellMoves DEF Goes
  <2>2. sh \in Contents /\ sh' \in Contents
    BY <2>1 DEF ShellInv
  <2>3. \A d \in Dapp : sh.list[d].ver \in Nat /\ sh'.list[d].ver \in Nat
    BY <2>2, StoreParts
  <2> QED BY <2>1, <2>3 DEF Older
<1> QED BY <1>1, <1>2

-----------------------------------------------------------------------------
(* What the window shows.                                                   *)

\* A step of the window is a step of each part, or leaves it alone.
LEMMA PartsMove ==
  [DeskNext]_deskVars =>
    /\ [ShellNext]_shellVars /\ [WindowNext]_windowVars /\ [HubNext]_hubVars
    /\ [InstallerNext]_installerVars /\ [WelcomeNext]_welcomeVars
BY DEF DeskNext, deskVars, otherVars, WindowNext

\* ShellContext.tsx:168-192, 216: for any tabs and requests, the tab that is active is in
\* the strip, which has no tab twice, and no read brings back what was put off.
THEOREM DeskPromptHonest == DeskSpec => []PromptHonest
<1>1. DeskInit => WindowInv
  BY WindowStarts DEF DeskInit
<1>2. WindowInv /\ [DeskNext]_deskVars => WindowInv'
  BY PartsMove, WindowKeeps
<1> QED BY <1>1, <1>2, WindowImplies, PTL DEF DeskSpec

\* ShellContext.tsx:88-134, DappWebview.tsx:24-29: for any dapps, and any number of changes
\* and failures, the list is never rewound by a reply that comes late, and a webview that no
\* reload has missed shows the session of its tab.
THEOREM DeskTabsFollow == DeskSpec => TabsFollowNode
<1>1. DeskInit => ShellInv
  BY ShellStarts DEF DeskInit
<1>2. ShellInv /\ [DeskNext]_deskVars =>
        ShellInv' /\ [\A d \in Dapp : sh'.list[d].ver >= sh.list[d].ver]_shellVars
  BY PartsMove, ShellKeeps
<1>3. ShellInv => ShellTypeOK /\ GuestFollows
  BY DEF ShellInv, ViewsRight, GuestFollows
<1> QED BY <1>1, <1>2, <1>3, PTL DEF DeskSpec, TabsFollowNode, NoRewind

\* AppContext.tsx:202-227, UpdateMiniDapp:55-59, HasNoPeersModal:35-41: for any refreshes,
\* submits and questions on their way, late icons bring no older list back, no dapp is replaced
\* unwarned, and "added" is shown only when the node was given peers.
THEOREM DeskFormsHonest == DeskSpec => FormsHonest
<1>1. DeskInit => HubInv /\ InstallerTypeOK /\ WelcomeInv
  <2>1. InstallerInit => InstallerTypeOK
    <3>1. 0 \in 0..MaxFormFails
      <4>1. MaxFormFails \in Nat
        BY InstallerAssumption DEF InstallerAssumption
      <4> QED BY <4>1
    <3>2. NotSubmitted \in SubmitType
      BY NoSubmit
    <3> QED BY <3>1, <3>2 DEF InstallerInit, InstallerTypeOK, SubmitType
  <2> QED BY <2>1, HubStarts, WelcomeStarts DEF DeskInit
<1>2. HubInv /\ [DeskNext]_deskVars =>
        HubInv' /\ [\A r \in Refresh : IconsReady(r) => painted'.ver = painted.ver]_hubVars
  BY PartsMove, HubKeeps, IconsKeep DEF KeepsList
<1>3. InstallerTypeOK /\ [DeskNext]_deskVars =>
        InstallerTypeOK' /\
        [\A s \in Submit :
           submit'[s].at = "rpc" /\ submit[s].at # "rpc" /\ submit'[s].dapp \in Dapps
             => submit'[s].file = submit'[s].dapp \/ submit'[s].warned]_installerVars
  <2> SUFFICES ASSUME InstallerTypeOK, [InstallerNext]_installerVars
               PROVE  InstallerTypeOK' /\ [Replaces]_installerVars
    BY PartsMove DEF Replaces
  <2>1. CASE UNCHANGED installerVars
    BY <2>1 DEF installerVars, InstallerTypeOK, Target
  <2>2. CASE InstallerNext
    BY <2>2, InstallerMoves
  <2> QED BY <2>1, <2>2
<1>4. WelcomeInv /\ [DeskNext]_deskVars => WelcomeInv'
  BY PartsMove, WelcomeKeeps
<1>5. HubInv /\ InstallerTypeOK /\ WelcomeInv => HubTypeOK /\ InstallerTypeOK /\ WelcomeTypeOK /\ AddedMeansPeers
  BY DEF HubInv, WelcomeInv
<1> QED BY <1>1, <1>2, <1>3, <1>4, <1>5, PTL DEF DeskSpec, FormsHonest, IconsKeepList, ReplacedAfterWarning

-----------------------------------------------------------------------------
(* The node, with one caller: the theorem of NodeProofs, for the instance   *)
(* of the process manager that is part of the desk.                         *)

Lone ==
  INSTANCE NodeProofs WITH
    Ops <- {"stop", "restart", "switch", "quit"},
    Faults <- {"crash", "selfExit", "launch", "foreign", "kill"},
    timer <- again, pc <- callAt

\* One module under one substitution, whatever it is called.
LEMMA LoneIsSingle ==
  /\ Single!TypeOK <=> Lone!TypeOK
  /\ Single!Init <=> Lone!Init
  /\ Single!HonestStopped <=> Lone!HonestStopped
  /\ Single!Next <=> Lone!Next
<1>1. Single!TypeOK <=> Lone!TypeOK
  BY Zenon
  DEF Single!Operations, Lone!Operations, Single!Kind, Lone!Kind, Single!Lives, Lone!Lives, Single!Microtasks,
      Lone!Microtasks, Single!Awaits, Lone!Awaits, Single!TypeOK, Lone!TypeOK
<1>2. Single!Init <=> Lone!Init
  BY Zenon
  DEF Single!Kind, Lone!Kind, Single!Init, Lone!Init
<1>3. Single!HonestStopped <=> Lone!HonestStopped
  BY Zenon
  DEF Single!Alive, Lone!Alive, Single!Idle, Lone!Idle, Single!HonestStopped, Lone!HonestStopped
<1>4. Single!Next <=> Lone!Next
  BY Zenon
  DEF Single!Operations, Lone!Operations, Single!Other, Lone!Other, Single!world, Lone!world, Single!manager,
      Lone!manager, Single!booting, Lone!booting, Single!polls, Lone!polls, Single!again, Lone!again,
      Single!calls, Lone!calls, Single!Microtasks, Lone!Microtasks, Single!Alive, Lone!Alive, Single!Answering,
      Lone!Answering, Single!NothingStale, Lone!NothingStale, Single!microtask, Lone!microtask, Single!AppReset,
      Lone!AppReset, Single!StopHealth, Lone!StopHealth, Single!Released, Lone!Released, Single!BootEnds,
      Lone!BootEnds, Single!Starting, Lone!Starting, Single!AdoptEnds, Lone!AdoptEnds, Single!KindMismatch,
      Lone!KindMismatch, Single!Adopt, Lone!Adopt, Single!ProbeMisses, Lone!ProbeMisses, Single!Abandon,
      Lone!Abandon, Single!LookForStale, Lone!LookForStale, Single!ReclaimStale, Lone!ReclaimStale, Single!Blocked,
      Lone!Blocked, Single!SpawnReady, Lone!SpawnReady, Single!Spawn, Lone!Spawn, Single!LaunchFails,
      Lone!LaunchFails, Single!ComesUp, Lone!ComesUp, Single!SelfRestarts, Lone!SelfRestarts, Single!Planned,
      Lone!Planned, Single!OnExit, Lone!OnExit, Single!Dies, Lone!Dies, Single!Closes, Lone!Closes,
      Single!SelfExit, Lone!SelfExit, Single!NodeCrash, Lone!NodeCrash, Single!TimerFires, Lone!TimerFires,
      Single!WindowPasses, Lone!WindowPasses, Single!Live, Lone!Live, Single!PollAnswered, Lone!PollAnswered,
      Single!Counted, Lone!Counted, Single!PollFails, Lone!PollFails, Single!Goto, Lone!Goto, Single!FirstStep,
      Lone!FirstStep, Single!Ask, Lone!Ask, Single!CallPortmap, Lone!CallPortmap, Single!PortmapStopped,
      Lone!PortmapStopped, Single!StopNothing, Lone!StopNothing, Single!Quit, Lone!Quit, Single!StopAdopted,
      Lone!StopAdopted, Single!PollEnds, Lone!PollEnds, Single!AdoptedGone, Lone!AdoptedGone, Single!StopChild,
      Lone!StopChild, Single!SigTerm, Lone!SigTerm, Single!SigKill, Lone!SigKill, Single!ChildGone,
      Lone!ChildGone, Single!Start, Lone!Start, Single!Stopped, Lone!Stopped, Single!AppExits, Lone!AppExits,
      Single!QuitEnds, Lone!QuitEnds, Single!QuitAgain, Lone!QuitAgain, Single!AppKilled, Lone!AppKilled,
      Single!Launch, Lone!Launch, Single!Microtask, Lone!Microtask, Single!CallStep, Lone!CallStep,
      Single!SignalStep, Lone!SignalStep, Single!StartStep, Lone!StartStep, Single!NodeStep, Lone!NodeStep,
      Single!PollStep, Lone!PollStep, Single!AppStep, Lone!AppStep, Single!Next, Lone!Next
<1> QED BY <1>1, <1>2, <1>3, <1>4

LEMMA LoneAssumption ==
  /\ NoProc \notin Proc
  /\ {"stop", "restart", "switch", "quit"} \subseteq Lone!Operations
  /\ {"crash", "selfExit", "launch", "foreign", "kill"} \subseteq Lone!FaultClasses
  /\ SELF_RESTART_MAX \in Nat /\ ADOPTED_DEAD_AFTER \in Nat \ {0}
BY DeskAssumption DEF DeskAssumption, Lone!Operations, Lone!FaultClasses

LEMMA LoneCaller ==
  Lone!OneCaller /\ {"crash", "selfExit", "launch", "foreign", "kill"} \subseteq Lone!Contained
BY DeskAssumption DEF DeskAssumption, Lone!OneCaller, Lone!Contained

\* A step of the desk is one of the node, or leaves it as it is.
LEMMA NodeMoves == [DeskNext]_deskVars => Lone!Next \/ UNCHANGED Lone!vars
<1>1. [DeskNext]_deskVars => Single!Next \/ UNCHANGED nodeVars
  BY DEF DeskNext, deskVars, otherVars
<1>2. UNCHANGED nodeVars => UNCHANGED Lone!vars
  BY DEF nodeVars, Lone!vars, Lone!world, Lone!manager, Lone!booting, Lone!polls, Lone!again, Lone!calls
<1> QED BY <1>1, <1>2, LoneIsSingle

\* node-manager.js:347, 415-426: with one caller, and under the faults that the app contains, "stopped" is said
\* of no node that runs: in the run's own instance of the process manager.
THEOREM DeskStopsHonestly == DeskSpec => []HonestStopped
<1> DEFINE Inv == Lone!NodeInv /\ Lone!StopKeeps /\ Lone!StoppedIsGone
<1>1. DeskInit => Inv
  <2> SUFFICES ASSUME DeskInit PROVE Inv
    OBVIOUS
  <2>1. Lone!Init
    BY LoneIsSingle DEF DeskInit
  <2>2. Lone!NodeInv /\ Lone!StopKeeps
    BY <2>1, LoneAssumption, Lone!NodeInit, Lone!KeepsInit
  <2>3. Lone!StoppedIsGone
    BY <2>1 DEF Lone!Init, Lone!StoppedIsGone, Lone!Alive
  <2> QED BY <2>2, <2>3
<1>2. Inv /\ [DeskNext]_deskVars => Inv'
  <2> SUFFICES ASSUME Inv, [DeskNext]_deskVars PROVE Inv'
    OBVIOUS
  <2>1. Lone!Next \/ UNCHANGED Lone!vars
    BY NodeMoves
  <2>2. Lone!OwnInv
    BY DEF Lone!NodeInv
  <2> QED BY <2>1, <2>2, LoneAssumption, LoneCaller, Lone!NodeNext, Lone!KeepsNext, Lone!GoneNext
<1>3. Inv => HonestStopped
  <2>1. Lone!StoppedIsGone => Lone!HonestStopped
    BY DEF Lone!StoppedIsGone, Lone!HonestStopped, Lone!Idle
  <2> QED BY <2>1, LoneIsSingle DEF HonestStopped
<1> QED BY <1>1, <1>2, <1>3, PTL DEF DeskSpec
================================================================================
