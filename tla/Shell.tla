--------------------------------- MODULE Shell ---------------------------------
(***************************************************************************)
(* renderer/src/shell: the store of the window - the node's dapp list with  *)
(* its session ids, and the tabs - and the webviews of the tabs.            *)
(*                                                                         *)
(* Many ask for the list at once: the poll, an open that has granted write,  *)
(* a decision, an install, a status push.  Only the reply to the request     *)
(* asked last counts.  What the code does between two awaits is one step.    *)
(* The store's refs and states are the fields of sh; the operators named     *)
(* after functions map a store to the store these leave behind.  Which tab   *)
(* is shown, the order of the tabs and the tabs of the shell's own views     *)
(* (logs, parlons) decide nothing and are left out.                         *)
(***************************************************************************)
EXTENDS Integers, FiniteSets

CONSTANTS
  Dapp,        \* dapps the node may have
  AutoWrite,   \* those that are given write when opened: AUTO_WRITE
  Nobody,      \* no dapp, no reply
  MaxChanges,  \* bound: changes of the node's dapp table
  MaxFails     \* bound: RPCs that fail, whether or not they took effect

ASSUME ShellAssumption ==
  /\ AutoWrite \subseteq Dapp /\ Nobody \notin Dapp \cup {"poll", "act", "status", "named"}
  /\ MaxChanges \in Nat /\ MaxFails \in Nat

VARIABLES
  node,               \* the node's dapp table
  done,               \* main: provisioning is done
  sh,                 \* the store
  calling, latest, reply,  \* list requests on their way, the one asked last, its reply
  acting,             \* a decision or an install: its command is on its way
  sought,              \* the dapps that a named open and a status push refresh for
  view,               \* the webview of each tab
  changes, fails      \* history: changes of the table, failures

shellVars == <<node, done, sh, calling, latest, reply, acting, sought, view, changes, fails>>

\* A dapp at the node: every change gives it a new session id; 0 is none.
Entry == [ver : Nat, inst : BOOLEAN, write : BOOLEAN]
Table == [Dapp -> Entry]
Absent == [ver |-> 0, inst |-> FALSE, write |-> FALSE]

\* Who asks for the list: the poll, a decision or an install, a status push, a
\* named open, and every open of a dapp.
Asker == {"poll", "act", "status", "named"} \cup Dapp
NotYet == Nobody

NoSig == [d \in {} |-> Absent]

\* uid:permission:sessionid:version of what is installed.
Sig(t) == [d \in {x \in Dapp : t[x].inst} |-> t[d]]

ShellTypeOK ==
  /\ node \in Table /\ done \in BOOLEAN /\ acting \in BOOLEAN
  /\ sh.list \in Table /\ sh.loaded \in BOOLEAN /\ sh.told \in BOOLEAN
  /\ sh.sig = NoSig \/ sh.sig = Sig(sh.list)
  /\ sh.tabs \in [Dapp -> Nat]
  /\ sh.opening \in [Dapp -> {"no", "grant", "list"}] /\ sh.had \in [Dapp -> Nat]
  /\ sh.waiting \in Dapp \cup {Nobody} /\ sh.notice \in {"", "installing", "missing"}
  /\ calling \subseteq Asker /\ latest \in Asker \cup {Nobody}
  /\ reply \in [Asker -> Table \cup {NotYet}]
  /\ sought \in [{"named", "status"} -> Dapp \cup {Nobody}]
  /\ view \in [Dapp -> [at : {"none", "mounting", "up"}, ver : Nat, behind : BOOLEAN]]
  /\ changes \in 0..MaxChanges /\ fails \in 0..MaxFails

NoView == [at |-> "none", ver |-> 0, behind |-> FALSE]

ShellInit ==
  /\ node \in [Dapp -> {Absent, [ver |-> 1, inst |-> TRUE, write |-> FALSE]}]
  /\ done = FALSE /\ acting = FALSE
  /\ sh = [list |-> [d \in Dapp |-> Absent], loaded |-> FALSE, sig |-> NoSig, told |-> FALSE,
           tabs |-> [d \in Dapp |-> 0], opening |-> [d \in Dapp |-> "no"],
           had |-> [d \in Dapp |-> 0], waiting |-> Nobody, notice |-> ""]
  /\ calling = {} /\ latest = Nobody /\ reply = [p \in Asker |-> NotYet]
  /\ sought = [x \in {"named", "status"} |-> Nobody]
  /\ view = [d \in Dapp |-> NoView]
  /\ changes = 0 /\ fails = 0

Works == UNCHANGED fails
Fails == fails < MaxFails /\ fails' = fails + 1

-----------------------------------------------------------------------------
(* The tabs: the session id of each; 0 is a dapp without one.               *)

Open(s, d) == s.tabs[d] # 0

\* setTabs(), setActiveId(): a tab of its own, or the one there is.
WithTab(s, d, ver) == [s EXCEPT !.tabs[d] = ver]

\* No tab follows.
BadRetabbed(s, t) == s

\* The list has new session ids: their tabs follow.
Retabbed(s, t) ==
  [s EXCEPT !.tabs = [d \in Dapp |-> IF Open(s, d) /\ t[d].inst THEN t[d].ver ELSE @[d]]]

\* Nothing is loaded that was not there when the webview was made.
BadLoaded(v, ver) == v

\* loadURL() - which throws, and is not repeated, while the webview attaches.
Loaded(v, ver) == IF v.at = "up" THEN [v EXCEPT !.ver = ver, !.behind = FALSE]
                  ELSE [v EXCEPT !.behind = TRUE]

\* The webviews after a step that leaves the store s.
Rendered(s) ==
  [d \in Dapp |->
     CASE ~Open(s, d) -> NoView
       [] Open(s, d) /\ view[d].at = "none" -> [at |-> "mounting", ver |-> s.tabs[d], behind |-> FALSE]
       [] Open(s, d) /\ view[d].at # "none" ->
            IF s.tabs[d] # sh.tabs[d] THEN Loaded(view[d], s.tabs[d]) ELSE view[d]]

Render(s) == sh' = s /\ view' = Rendered(s)

-----------------------------------------------------------------------------
(* openDapp() and the list.                                                 *)

\* Stores and the terminal are given write first.
NeedsGrant(s, d) == d \in AutoWrite /\ s.list[d].inst /\ ~s.list[d].write

\* openDapp() up to its first await; arg is the session id it was called with.
OpenDapp(s, d, arg) ==
  IF s.opening[d] # "no" \/ (~s.list[d].inst /\ s.loaded) THEN s
  ELSE IF NeedsGrant(s, d) THEN [s EXCEPT !.opening[d] = "grant", !.had[d] = s.list[d].ver]
  ELSE IF s.list[d].inst THEN WithTab(s, d, s.list[d].ver)
  ELSE IF arg # 0 THEN WithTab(s, d, arg) ELSE s

\* And after the await: by the list there is now, or the entry found before.
OpenEnds(s, d) ==
  LET ver == IF s.list[d].inst THEN s.list[d].ver ELSE s.had[d]
  IN [WithTab(s, d, ver) EXCEPT !.opening[d] = "no", !.had[d] = 0]

\* The dapp that was waited for is forgotten with the notice.
BadListed(s, t) == Retabbed([s EXCEPT !.list = t, !.loaded = TRUE, !.sig = Sig(t)], t)

\* refreshDapps() with a reply that counts: a list without a change ends here;
\* otherwise the tabs follow, and a dapp that was waited for is opened.
Listed(s, t) ==
  LET new == [s EXCEPT !.list = t, !.loaded = TRUE]
      changed == Retabbed([new EXCEPT !.sig = Sig(t)], t)
  IN IF Sig(t) = s.sig THEN new
     ELSE IF s.waiting # Nobody /\ t[s.waiting].inst
       THEN OpenDapp([changed EXCEPT !.waiting = Nobody, !.notice = ""], s.waiting, 0)
     ELSE changed

\* The list was refreshed and the dapp d, waited for still, is not in it.
GiveUp(s, d) ==
  IF s.waiting = d /\ d # Nobody /\ ~s.list[d].inst
    THEN [s EXCEPT !.waiting = Nobody, !.notice = "missing"] ELSE s

\* minima.cmd("mds action:list") by p: whatever was asked before is stale now.
AskList(p) ==
  /\ calling' = calling \cup {p} /\ latest' = p /\ reply' = [reply EXCEPT ![p] = NotYet]

\* A reply that anyone waits for counts.
BadCounts(p) == TRUE

\* Only the reply to the latest request counts.
Counts(p) == p = latest

\* The node answers; a stale reply is not looked at, so when it is made is left open.
Answer(p) ==
  /\ p \in calling /\ Counts(p) /\ reply[p] = NotYet /\ reply' = [reply EXCEPT ![p] = node]
  /\ UNCHANGED <<node, done, sh, calling, latest, acting, sought, view, changes, fails>>

\* The store once p has its reply, or has none because the request failed.
After(p, failed) == IF Counts(p) /\ ~failed THEN Listed(sh, reply[p]) ELSE sh

Back(p, failed) ==
  /\ p \in calling /\ calling' = calling \ {p}
  /\ IF failed THEN Fails ELSE Works /\ (reply[p] # NotYet \/ ~Counts(p))
  /\ reply' = [reply EXCEPT ![p] = NotYet]
  /\ latest' = IF p = latest THEN Nobody ELSE latest

-----------------------------------------------------------------------------
(* Who asks.                                                                *)

\* The loop of the store; a run that is on its way is not doubled.
PollStarts ==
  /\ "poll" \notin calling /\ AskList("poll")
  /\ UNCHANGED <<node, done, sh, acting, sought, view, changes, fails>>

PollListed ==
  /\ \E failed \in BOOLEAN : Back("poll", failed) /\ Render(After("poll", failed))
  /\ UNCHANGED <<node, done, acting, sought, changes>>

\* applyStatus(): the push of main's health poll; a dapp that is waited for is
\* looked for once more when provisioning is done.
Tick ==
  /\ "status" \notin calling
  /\ sh' = [sh EXCEPT !.told = done]
  /\ IF done /\ sh.waiting # Nobody
       THEN AskList("status") /\ sought' = [sought EXCEPT !["status"] = sh.waiting]
       ELSE UNCHANGED <<calling, latest, reply, sought>>
  /\ UNCHANGED <<node, done, acting, view, changes, fails>>

StatusListed ==
  /\ \E failed \in BOOLEAN :
       Back("status", failed) /\ Render(GiveUp(After("status", failed), sought["status"]))
  /\ sought' = [sought EXCEPT !["status"] = Nobody]
  /\ UNCHANGED <<node, done, acting, changes>>

\* What a command does to one dapp: installs it or gives it another permission.
Changed(t, d, write) == [t EXCEPT ![d] = [ver |-> @.ver + 1, inst |-> TRUE, write |-> write]]

\* acceptPending() or installFromFile(): one at a time (a bound).
Act ==
  /\ ~acting /\ "act" \notin calling /\ acting' = TRUE
  /\ changes < MaxChanges /\ changes' = changes + 1
  /\ UNCHANGED <<node, done, sh, calling, latest, reply, sought, view, fails>>

\* Its command is back.
Acted ==
  /\ acting /\ acting' = FALSE
  /\ \E took, failed \in BOOLEAN :
       /\ (failed \/ took) /\ IF failed THEN Fails ELSE Works
       /\ IF took THEN \E d \in Dapp : node' = Changed(node, d, FALSE) ELSE UNCHANGED node
  /\ sh' = [sh EXCEPT !.sig = NoSig] /\ AskList("act")
  /\ UNCHANGED <<done, sought, view, changes>>

ActListed ==
  /\ \E failed \in BOOLEAN : Back("act", failed) /\ Render(After("act", failed))
  /\ UNCHANGED <<node, done, acting, sought, changes>>

-----------------------------------------------------------------------------
(* Opening.                                                                 *)

\* A grant to come is counted as a change of the table.
LastAsked(s) ==
  /\ changes' = changes + Cardinality({d \in Dapp : s.opening[d] = "grant" /\ sh.opening[d] = "no"})
  /\ changes' <= MaxChanges

\* A tile of the hub, or a link in a dapp (openDappUrl).
AskOpen(d) ==
  /\ \E arg \in {0, node[d].ver} :
       LET s == OpenDapp(sh, d, arg) IN s # sh /\ Render(s) /\ LastAsked(s)
  /\ UNCHANGED <<node, done, calling, latest, reply, acting, sought, fails>>

\* openNamedDapp(): the Store and Terminal buttons.
AskNamed(d) ==
  /\ d \in AutoWrite
  /\ IF sh.list[d].inst
       THEN LET s == OpenDapp(sh, d, 0)
            IN s # sh /\ Render(s) /\ LastAsked(s) /\ UNCHANGED <<calling, latest, reply, sought>>
       ELSE /\ "named" \notin calling /\ UNCHANGED <<view, changes>>
            /\ IF sh.told
                 THEN /\ sh' = [sh EXCEPT !.waiting = d] /\ AskList("named")
                      /\ sought' = [sought EXCEPT !["named"] = d]
                 ELSE /\ sh' = [sh EXCEPT !.waiting = d, !.notice = "installing"]
                      /\ UNCHANGED <<calling, latest, reply, sought>>
  /\ UNCHANGED <<node, done, acting, fails>>

NamedListed ==
  /\ \E failed \in BOOLEAN :
       Back("named", failed) /\ Render(GiveUp(After("named", failed), sought["named"]))
  /\ sought' = [sought EXCEPT !["named"] = Nobody]
  /\ UNCHANGED <<node, done, acting, changes>>

\* mds action:permission ... trust:write is back, and the list is asked for.
Granted(d) ==
  /\ sh.opening[d] = "grant"
  /\ \E took, failed \in BOOLEAN :
       /\ (failed \/ took) /\ IF failed THEN Fails ELSE Works
       /\ node' = IF took /\ node[d].inst THEN Changed(node, d, TRUE) ELSE node
  /\ sh' = [sh EXCEPT !.opening[d] = "list", !.sig = NoSig] /\ AskList(d)
  /\ UNCHANGED <<done, acting, sought, view, changes>>

OpenListed(d) ==
  /\ d \in Dapp
  /\ \E failed \in BOOLEAN : Back(d, failed) /\ Render(OpenEnds(After(d, failed), d))
  /\ UNCHANGED <<node, done, acting, sought, changes>>

CloseTab(d) ==
  /\ Open(sh, d) /\ Render([sh EXCEPT !.tabs[d] = 0])
  /\ UNCHANGED <<node, done, calling, latest, reply, acting, sought, changes, fails>>

Attached(d) ==
  /\ view[d].at = "mounting" /\ view' = [view EXCEPT ![d].at = "up"]
  /\ UNCHANGED <<node, done, sh, calling, latest, reply, acting, sought, changes, fails>>

-----------------------------------------------------------------------------
(* The node and main.                                                       *)

\* A dapp is installed by the provisioning, or given another permission or
\* uninstalled in the hub.
NodeChanges(d) ==
  /\ changes < MaxChanges /\ changes' = changes + 1
  /\ node' \in {Changed(node, d, w) : w \in BOOLEAN} \cup
               {[node EXCEPT ![d] = [ver |-> @.ver + 1, inst |-> FALSE, write |-> FALSE]]}
  /\ UNCHANGED <<done, sh, calling, latest, reply, acting, sought, view, fails>>

ProvisionDone ==
  /\ ~done /\ done' = TRUE
  /\ UNCHANGED <<node, sh, calling, latest, reply, acting, sought, view, changes, fails>>

ShellNext ==
  \/ PollStarts \/ PollListed \/ Tick \/ StatusListed \/ NamedListed
  \/ \E p \in Asker : Answer(p)
  \/ Act \/ Acted \/ ActListed \/ ProvisionDone
  \/ \E d \in Dapp :
       \/ AskOpen(d) \/ AskNamed(d) \/ Granted(d) \/ OpenListed(d)
       \/ CloseTab(d) \/ Attached(d) \/ NodeChanges(d)

ShellSpec == ShellInit /\ [][ShellNext]_shellVars

-----------------------------------------------------------------------------
(* Properties.                                                              *)

\* ShellContext.tsx:88: replies that come out of order are discarded, so the list
\* never goes back to what the node had before.
NoRewind == [][\A d \in Dapp : sh'.list[d].ver >= sh.list[d].ver]_shellVars

\* ShellContext.tsx:105, 121-133: once the node's table is left alone, every tab of
\* an installed dapp has the session id that is valid, however its open, the
\* grant, the poll and the decisions overlapped and whatever failed: so in the end.
TabsRight ==
  \A d \in Dapp : Open(sh, d) /\ node[d].inst => sh.tabs[d] = node[d].ver

\* DappWebview.tsx:7-12: a webview that has attached shows the session its tab asks
\* for, unless the tab was reloaded while it attached.
GuestFollows ==
  \A d \in Dapp : view[d].at = "up" /\ ~view[d].behind => view[d].ver = sh.tabs[d]

\* ShellContext.tsx:134, 155: a dapp that is waited for is opened or given up once
\* provisioning is done and the user no longer presses its button.
WaitEnds ==
  <>[][\A d \in Dapp : ~AskNamed(d)]_shellVars /\ <>[]done => []<>(sh.waiting = Nobody)
================================================================================
