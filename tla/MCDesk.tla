-------------------------------- MODULE MCDesk --------------------------------
(***************************************************************************)
(* The instance, for TLC, of what the desktop window shows: the shell with  *)
(* its tabs and prompts, the hub, the forms that install, the introduction; *)
(* of the messages of Keets, of which one is enough as they do not touch    *)
(* each other; and of the node that the app runs, for one caller.           *)
(*                                                                         *)
(* In the code these share the node and nothing else, and each module has   *)
(* its own copy of what it needs of the node; so a behaviour is one of one  *)
(* part, `part`, while the others keep their first state.                   *)
(***************************************************************************)
EXTENDS Shell, Window, Hub, Installer, Welcome, Mail

CONSTANTS
  a, t1, t2, q1, q2,
  m1, b1, b2, s1, p1,
  Proc, NoProc, Client, SELF_RESTART_MAX, ADOPTED_DEAD_AFTER   \* of NodeLifecycle

\* One caller at a time: two that overlap are the matter of MCProcesses.
ASSUME DeskAssumption ==
  /\ NoProc \notin Proc /\ \A c, d \in Client : c = d
  /\ SELF_RESTART_MAX \in Nat /\ ADOPTED_DEAD_AFTER \in Nat \ {0}

OneDapp == {a}
Tabs == {t1, t2}
Requests == {q1, q2}
OneMessage == {m1}
Boxes == {b1, b2}
OnePoll == {p1}
Interruptions == {"lost", "full"}

VARIABLES
  life, kindOf, pidfile, nodeKind, app, state, proc, adopted, mapped, boot, stale, health,
  failures, again, selfRestarts, callAt, op, signals, asked,   \* of NodeLifecycle
  part

\* The process manager, under the faults that the app contains.
Single ==
  INSTANCE NodeLifecycle WITH
    Ops <- {"stop", "restart", "switch", "quit"},
    Faults <- {"crash", "selfExit", "launch", "foreign", "kill"},
    timer <- again, pc <- callAt

nodeVars ==
  <<life, kindOf, pidfile, nodeKind, app, state, proc, adopted, mapped, boot, stale, health,
    failures, again, selfRestarts, callAt, op, signals, asked>>
otherVars == <<mailVars, nodeVars>>
deskVars == <<shellVars, windowVars, hubVars, installerVars, welcomeVars, otherVars, part>>

DeskInit ==
  /\ part \in {"shell", "strip", "prompt", "hub", "installer", "welcome", "mail", "node"}
  /\ ShellInit /\ (part # "shell" => node = [d \in Dapp |-> Absent])
  /\ WindowInit
  /\ HubInit
  /\ InstallerInit /\ (part # "installer" => form = "install")
  /\ WelcomeInit /\ (part # "welcome" => ~nodeUp /\ ~seen /\ ~havePeers)
  /\ MailInit
  /\ Single!Init /\ (part # "node" => nodeKind = "minima")

\* The shell and its prompts, the messages and the node may not come to rest, the others may.
DeskNext ==
  \/ /\ part = "shell" /\ ShellNext
     /\ UNCHANGED <<windowVars, hubVars, installerVars, welcomeVars, otherVars, part>>
  \/ /\ (part = "strip" /\ StripNext) \/ (part = "prompt" /\ PromptNext)
     /\ UNCHANGED <<shellVars, hubVars, installerVars, welcomeVars, otherVars, part>>
  \/ /\ part = "hub" /\ HubNext
     /\ UNCHANGED <<shellVars, windowVars, installerVars, welcomeVars, otherVars, part>>
  \/ /\ part = "installer" /\ InstallerNext
     /\ UNCHANGED <<shellVars, windowVars, hubVars, welcomeVars, otherVars, part>>
  \/ /\ part = "welcome" /\ WelcomeNext
     /\ UNCHANGED <<shellVars, windowVars, hubVars, installerVars, otherVars, part>>
  \/ /\ part = "mail" /\ MailNext
     /\ UNCHANGED <<shellVars, windowVars, hubVars, installerVars, welcomeVars, nodeVars, part>>
  \/ /\ part = "node" /\ Single!Next
     /\ UNCHANGED <<shellVars, windowVars, hubVars, installerVars, welcomeVars, mailVars, part>>
  \/ part \in {"hub", "installer", "welcome"} /\ UNCHANGED deskVars

\* The steps that go on of themselves: timers and intervals fire ...
Ticks ==
  \/ part = "shell" /\ (PollStarts \/ PollListed)
  \/ part = "prompt" /\ PollPending
  \/ part = "mail" /\ Resume

\* ... and what was begun goes on: an RPC ends, a list that was read is shown, a poll of the
\* mailboxes ends and the next begins, a node asked to go goes.
GoesOn ==
  \/ part = "shell" /\ (\/ Tick \/ StatusListed \/ NamedListed \/ Acted \/ ActListed
                        \/ \E p \in Asker \ {"poll"} : Answer(p)
                        \/ \E d \in Dapp : Granted(d) \/ OpenListed(d))
  \/ part = "prompt" /\ (\/ \E p \in Press : Decided(p)
                         \/ \E r \in Reader : PendingRead(r) \/ PendingShown(r))
  \/ part = "hub" /\ (\/ DappsChanged
                      \/ \E r \in Refresh : ListRead(r) \/ ListPainted(r) \/ IconsReady(r)
                      \/ \E o \in HubOp : OpDone(o))
  \/ part = "installer" /\ \E s \in Submit : Checked(s) \/ FormRpc(s) \/ FormListed(s)
  \/ part = "welcome" /\ (\/ Inited \/ RetryFires \/ NameSet \/ AskAddress \/ AddressBack
                          \/ \E n \in Question : NameRead(n) \/ DetailsBack(n))
  \/ part = "mail" /\ (PollFires \/ \E p \in Poll : PollEnds(p))
  \/ part = "node" /\ (\/ Single!StartStep \/ Single!NodeStep \/ Single!PollStep
                       \/ \E c \in Client : Single!SignalStep(c))

\* And again and again the reply of the shell's poll is there before anyone else asks; a
\* mailbox that holds a message is reached by a poll for it, and its answer arrives; and a
\* call about the node goes on, which nothing takes out of the event loop's queue.
Reached ==
  \/ part = "shell" /\ PollListed /\ Counts("poll")
  \/ part = "mail" /\ \E p \in Poll : Opens(p) /\ mail[box[p]] # {}
  \/ part = "node" /\ \E c \in Client : Single!CallStep(c)

Replied ==
  \/ part = "shell" /\ Answer("poll")
  \/ part = "mail" /\ \E p \in Poll, m \in Msg : Receive(p, m)

\* The variables of the part that runs: as a behaviour is of one part, a condition names the
\* steps of several.
moving ==
  CASE part = "shell" -> shellVars [] part \in {"strip", "prompt"} -> windowVars
    [] part = "hub" -> hubVars [] part = "installer" -> installerVars
    [] part = "welcome" -> welcomeVars [] part = "mail" -> mailVars [] part = "node" -> nodeVars

DeskFairness ==
  /\ WF_moving(UNCHANGED part /\ Ticks) /\ WF_moving(UNCHANGED part /\ GoesOn)
  /\ SF_moving(UNCHANGED part /\ Reached) /\ SF_moving(UNCHANGED part /\ Replied)

DeskSpec == DeskInit /\ [][DeskNext]_deskVars /\ DeskFairness

\* The tabs follow the node (ShellContext.tsx:88-134, DappWebview.tsx:24-29): the list is
\* never rewound by a reply that comes late, and a webview shows the session of its tab.
TabsFollowNode == [](ShellTypeOK /\ GuestFollows) /\ NoRewind

\* The prompt is honest (ShellContext.tsx:168-192, 216): what was put off stays off, and the
\* tab that is active is one that is there.
PromptHonest == WindowTypeOK /\ ShownIsATab /\ SnoozedStays

\* What the hub, its forms and its introduction show is so (AppContext.tsx:202-227,
\* UpdateMiniDapp:55-59, HasNoPeersModal:35-41): icons that come late never bring an older
\* list back, no dapp is replaced unwarned, and "added" means that there are peers.
FormsHonest ==
  [](HubTypeOK /\ InstallerTypeOK /\ WelcomeTypeOK /\ AddedMeansPeers)
    /\ IconsKeepList /\ ReplacedAfterWarning

\* In the end the window is right (ShellContext.tsx:121-134, 155, 168-188, 235-262,
\* AppContext.tsx:318-320, 410-420, UpdateMiniDapp:77-80): every tab has the session id that is
\* valid, a dapp that is waited for is opened or given up, the prompt shows what waits, the hub
\* the node's table, the spinner goes, and the name shown is the node's.
DeskSettles ==
  /\ <>[](TabsRight /\ PromptRight /\ (part = "hub" => HubIsRight))
  /\ WaitEnds /\ SpinnerEnds /\ NameSettles

\* HonestStopped, OpsEnd and DeathNoticed, of one caller: the app does not say "stopped" while
\* a node is left (node-manager.js:347, 415-426), every call about the node ends whatever the
\* node does (407-436), and the app does not go on saying "running" of a node that is gone (629-637).
HonestStopped == Single!HonestStopped
OpsEnd == Single!OpsEnd
DeathNoticed == Single!DeathNoticed
================================================================================
