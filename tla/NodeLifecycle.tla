----------------------------- MODULE NodeLifecycle -----------------------------
(***************************************************************************)
(* src/main/node-manager.js: how the app starts, adopts, stops, restarts    *)
(* and loses the one java process that runs the node.                       *)
(*                                                                          *)
(* The app is one event loop.  Each IPC call is an asynchronous operation   *)
(* of its own (a client here, with a program counter); nothing serialises   *)
(* them but startPromise.  Code between two awaits is one step, and what a  *)
(* resolved promise wakes up runs before the next timer, reply or process   *)
(* event: see `microtask`.  Processes outlive an app that is killed, and    *)
(* the pidfile is how the next launch knows of one that does not answer.    *)
(*                                                                          *)
(* The app contributes to the network, so that it has a router mapping to   *)
(* release; a mapping's own life is portmap.js's and only its existence is  *)
(* kept.  Process ids are reused, which bounds nothing but their number.    *)
(***************************************************************************)
EXTENDS Integers, FiniteSets

CONSTANTS
  Proc,                 \* process ids
  NoProc,               \* null
  Client,               \* IPC calls that may be in progress at a time
  Ops,                  \* what they may ask for: a subset of Operations
  SELF_RESTART_MAX,
  ADOPTED_DEAD_AFTER,
  Faults                \* what may go wrong: a subset of FaultClasses

Operations == {"stop", "restart", "switch", "quit"}

FaultClasses ==
  { "deaf",       \* a node that is up does not answer an RPC in time
    "crash",      \* a node dies on its own
    "selfExit",   \* a node shuts itself down: megammrsync, restore, reset
    "launch",     \* java cannot be launched
    "foreign",    \* the port belongs to another program
    "stuck",      \* a stale node cannot be stopped
    "slowClose",  \* a node that no longer answers takes its time to die
    "kill",       \* the app is killed
    "quitTwice" } \* a second quit while the first waits for the node

\* The faults under which the app never loses track of a node.
Contained == {"crash", "selfExit", "launch", "foreign", "kill"}

ASSUME NodeAssumption ==
  /\ NoProc \notin Proc
  /\ Ops \subseteq Operations /\ Faults \subseteq FaultClasses
  /\ SELF_RESTART_MAX \in Nat /\ ADOPTED_DEAD_AFTER \in Nat \ {0}

Kind == {"minima", "parlons"}
Other(k) == IF k = "minima" THEN "parlons" ELSE "minima"

VARIABLES
  life, kindOf, pidfile, nodeKind,        \* the processes; node.pid and config.json
  app,                                    \* "up", or how it went: "quit", "killed"
  state, proc, adopted, mapped,           \* NodeManager's fields
  boot, stale,                            \* _start(): where it is, the nodes to reclaim
  health, failures,                       \* polling on; healthFailures
  timer, selfRestarts,                    \* the self-restart timer and its count
  pc, op, signals,                        \* the IPC calls
  asked                                   \* history: processes a stop() asked to go

world   == <<life, kindOf, pidfile, nodeKind>>
manager == <<state, proc, adopted, mapped>>
booting == <<boot, stale>>
polls   == <<health, failures>>
again   == <<timer, selfRestarts>>
calls   == <<pc, op, signals>>
vars    == <<world, app, manager, booting, polls, again, calls, asked>>

\* "boot": running, not yet answering; "up": answering; "closing": shutting down
\* on a `quit`; "termed": shutting down on SIGTERM.
Lives == {"none", "boot", "up", "closing", "termed"}

\* The continuations of a resolved promise ...
Microtasks == {"callPortmap", "stopNow", "stopped"}

\* ... and the awaits.
Awaits == {"awaitStart", "portmap", "adoptedPoll", "gonePoll", "starting"}

TypeOK ==
  /\ life \in [Proc -> Lives] /\ kindOf \in [Proc -> Kind]
  /\ pidfile \in Proc \cup {NoProc} /\ nodeKind \in Kind
  /\ app \in {"up", "quit", "killed"}
  /\ state \in {"stopped", "starting", "running", "stopping", "error"}
  /\ proc \in Proc \cup {NoProc} /\ adopted \in BOOLEAN /\ mapped \in BOOLEAN
  /\ boot \in {"none", "probe", "reclaim"} /\ stale \subseteq Proc
  /\ health \in BOOLEAN /\ failures \in 0 .. ADOPTED_DEAD_AFTER
  /\ timer \in BOOLEAN /\ selfRestarts \in 0 .. SELF_RESTART_MAX
  /\ pc \in [Client -> {"idle"} \cup Microtasks \cup Awaits]
  /\ op \in [Client -> Operations \cup {"none"}]
  /\ signals \in [Client -> {"none", "SIGTERM", "SIGKILL"}]
  /\ asked \subseteq Proc

Alive     == {p \in Proc : life[p] # "none"}
Answering == {p \in Proc : life[p] = "up"}

\* Nothing to reclaim: reclaimStaleNode() returns without an await.
NothingStale == boot = "reclaim" /\ stale = {}

\* A microtask is due: nothing else can happen before it ran.
microtask == NothingStale \/ \E c \in Client : pc[c] \in Microtasks

\* A fresh NodeManager, and no IPC call in progress.
AppReset(s) ==
  /\ state' = s /\ proc' = NoProc /\ adopted' = FALSE /\ mapped' = FALSE
  /\ stale' = {} /\ health' = FALSE /\ failures' = 0
  /\ timer' = FALSE /\ selfRestarts' = 0
  /\ pc' = [c \in Client |-> "idle"] /\ op' = [c \in Client |-> "none"]
  /\ signals' = [c \in Client |-> "none"]

\* The app is launched on a machine with no node.
Init ==
  /\ life = [p \in Proc |-> "none"] /\ kindOf = [p \in Proc |-> "minima"]
  /\ pidfile = NoProc /\ nodeKind \in Kind
  /\ app = "up"
  /\ state = "starting" /\ proc = NoProc /\ adopted = FALSE /\ mapped = FALSE
  /\ boot = "probe" /\ stale = {}
  /\ health = FALSE /\ failures = 0
  /\ timer = FALSE /\ selfRestarts = 0
  /\ pc = [c \in Client |-> "idle"] /\ op = [c \in Client |-> "none"]
  /\ signals = [c \in Client |-> "none"]
  /\ asked = {}

-----------------------------------------------------------------------------
(* start().                                                                 *)

\* stopHealth().
StopHealth == health' = FALSE /\ failures' = 0

\* Only start() hears that startPromise has settled.
BadReleased(where) == IF where = "starting" THEN "idle" ELSE where

\* startPromise settles: whoever awaits it goes on.
Released(where) ==
  CASE where = "awaitStart" -> "callPortmap"
    [] where = "starting"   -> "idle"
    [] OTHER                -> where

BootEnds ==
  /\ boot' = "none" /\ stale' = {}
  /\ pc' = [c \in Client |-> Released(pc[c])]
  /\ UNCHANGED <<op, signals>>

\* start() when it has something to do: _start() up to its first await.
Starting == boot' = "probe" /\ state' = "starting" /\ UNCHANGED stale

\* An adopted node does not end the start.
BadAdoptEnds == boot' = "reclaim" /\ UNCHANGED <<stale, calls>>

AdoptEnds == BootEnds

\* runningKindMismatch(): what answers is a node of the other kind.
KindMismatch == \E p \in Answering : kindOf[p] # nodeKind

\* An answering node of the configured kind is adopted, whatever the state is
\* by now.
Adopt ==
  /\ boot = "probe"
  /\ Answering # {} /\ ~KindMismatch
  /\ adopted' = TRUE /\ health' = TRUE /\ failures' = 0 /\ mapped' = TRUE
  /\ AdoptEnds
  /\ UNCHANGED <<world, app, state, proc, again, asked>>

\* Nothing answers, or the answer comes from a node of the other kind.
ProbeMisses ==
  /\ boot = "probe"
  /\ Answering = {} \/ KindMismatch \/ "deaf" \in Faults

\* A stop() has come to its end during the probe: do not spawn.
Abandon ==
  /\ ProbeMisses
  /\ state \in {"stopping", "stopped"}
  /\ BootEnds
  /\ UNCHANGED <<world, app, manager, polls, again, asked>>

\* The nodes to reclaim: the pidfile's, and whoever listens on the port.  A node
\* that is booting or closing may or may not listen.
LookForStale ==
  /\ ProbeMisses
  /\ state \notin {"stopping", "stopped"}
  /\ \E quiet \in SUBSET (Alive \ (Answering \cup {pidfile})) :
       stale' = Alive \ quiet
  /\ boot' = "reclaim"
  /\ UNCHANGED <<world, app, manager, polls, again, calls, asked>>

\* quit, SIGTERM, SIGKILL: a stale node goes.
ReclaimStale ==
  /\ boot = "reclaim"
  /\ \E p \in stale \cap Alive : life' = [life EXCEPT ![p] = "none"]
  /\ UNCHANGED <<kindOf, pidfile, nodeKind, app, manager, booting, polls, again,
                 calls, asked>>

\* A stale node survives its SIGKILL, or the port belongs to another program.
Blocked ==
  /\ boot = "reclaim"
  /\ (IF stale \cap Alive # {} THEN "stuck" ELSE "foreign") \in Faults
  /\ state' = "error"
  /\ BootEnds
  /\ UNCHANGED <<world, app, proc, adopted, mapped, polls, again, asked>>

\* A start() that does not wait for what it reclaims.
BadSpawnReady == boot = "reclaim"

SpawnReady == boot = "reclaim" /\ stale \cap Alive = {}

\* The spawn, the pidfile, startHealth() and the router mapping; the state is
\* not looked at again.  A java that cannot be run is a child that never lives.
Spawn ==
  /\ SpawnReady
  /\ \E p \in Proc \ Alive :
       /\ \/ life' = [life EXCEPT ![p] = "boot"]
          \/ "launch" \in Faults /\ UNCHANGED life
       /\ kindOf' = [kindOf EXCEPT ![p] = nodeKind]
       /\ pidfile' = p /\ proc' = p
       /\ asked' = asked \ {p}
  /\ mapped' = TRUE /\ health' = TRUE /\ failures' = 0
  /\ BootEnds
  /\ UNCHANGED <<nodeKind, app, state, adopted, again>>

\* "error" of the child: java does not exist or cannot be run.
LaunchFails ==
  /\ proc # NoProc /\ life[proc] = "none"
  /\ proc' = NoProc /\ StopHealth /\ mapped' = FALSE /\ state' = "error"
  /\ UNCHANGED <<world, app, adopted, booting, again, calls, asked>>

-----------------------------------------------------------------------------
(* The node process.                                                        *)

ComesUp ==
  /\ \E p \in Proc : life[p] = "boot" /\ life' = [life EXCEPT ![p] = "up"]
  /\ UNCHANGED <<kindOf, pidfile, nodeKind, app, manager, booting, polls, again,
                 calls, asked>>

\* A node that keeps shutting itself down is restarted for ever.
BadSelfRestarts(code) == code = 0

\* A clean exit that nobody asked for is answered by a restart, a bounded
\* number of times in a window.
SelfRestarts(code) == code = 0 /\ selfRestarts < SELF_RESTART_MAX

\* A clean exit is what tells a stop from a crash.
BadPlanned(code) == code = 0

Planned(code) == state = "stopping"

\* The "exit" handler of the child.
OnExit(code) ==
  /\ proc' = NoProc /\ pidfile' = NoProc /\ StopHealth
  /\ IF Planned(code)
       THEN state' = "stopped" /\ UNCHANGED <<mapped, again>>
       ELSE /\ mapped' = FALSE
            /\ IF SelfRestarts(code)
                 THEN /\ state' = "starting" /\ timer' = TRUE
                      /\ selfRestarts' = selfRestarts + 1
                 ELSE state' = "error" /\ UNCHANGED again

\* Process p dies.  Only its parent hears of it, and only if it is the current
\* child.
Dies(p, code) ==
  /\ life' = [life EXCEPT ![p] = "none"]
  /\ IF p = proc THEN OnExit(code)
                 ELSE UNCHANGED <<pidfile, state, proc, mapped, polls, again>>
  /\ UNCHANGED <<kindOf, nodeKind, app, adopted, booting, calls, asked>>

\* A node that was asked to go goes: code 0 after `quit`, another after SIGTERM.
Closes ==
  \E p \in Proc : \/ life[p] = "closing" /\ Dies(p, 0)
                  \/ life[p] = "termed" /\ Dies(p, 143)

SelfExit ==
  \E p \in Proc : life[p] \in {"boot", "up"} /\ "selfExit" \in Faults /\ Dies(p, 0)

NodeCrash == \E p \in Alive : "crash" \in Faults /\ Dies(p, 1)

\* The setTimeout of a self-restart.
TimerFires ==
  /\ timer /\ timer' = FALSE
  /\ IF proc = NoProc /\ ~adopted /\ state = "starting" /\ boot = "none"
       THEN Starting ELSE UNCHANGED <<state, boot, stale>>
  /\ UNCHANGED <<world, app, proc, adopted, mapped, polls, selfRestarts, calls, asked>>

\* SELF_RESTART_WINDOW_MS passes.
WindowPasses ==
  /\ selfRestarts > 0 /\ selfRestarts' = 0
  /\ UNCHANGED <<world, app, manager, booting, polls, timer, calls, asked>>

-----------------------------------------------------------------------------
(* The health poll: alive() and the current generation.                     *)

Live == health /\ (proc # NoProc \/ adopted) /\ state \notin {"stopping", "stopped"}

PollAnswered ==
  /\ Live /\ Answering # {}
  /\ failures' = 0 /\ state' = "running"
  /\ UNCHANGED <<world, app, proc, adopted, mapped, booting, health, again, calls, asked>>

\* A count that every poll begins afresh.
BadCounted == 1

Counted == failures + 1

\* Only an adopted node is given up for not answering.
PollFails ==
  /\ Live /\ adopted
  /\ Answering = {} \/ "deaf" \in Faults
  /\ IF Counted < ADOPTED_DEAD_AFTER
       THEN failures' = Counted /\ UNCHANGED <<health, state, adopted, mapped>>
       ELSE adopted' = FALSE /\ StopHealth /\ mapped' = FALSE /\ state' = "error"
  /\ UNCHANGED <<world, app, proc, booting, again, calls, asked>>

-----------------------------------------------------------------------------
(* stop(), restart(), the switch of the node kind, and quit.                *)

Goto(c, where) == pc' = [pc EXCEPT ![c] = where]

\* A switch that saves the kind and starts, and leaves the stopping to start().
BadFirstStep(o) ==
  IF o = "switch" THEN "stopped"
  ELSE IF boot # "none" THEN "awaitStart" ELSE "callPortmap"

\* Whatever is asked for, a stop() comes first, and that waits for a start().
FirstStep(o) == IF boot # "none" THEN "awaitStart" ELSE "callPortmap"

\* An IPC call arrives: stop(), or restart() and the rest, which stop first.
\* Quit comes once: the flag `quitting`.
Ask(c, o) ==
  /\ pc[c] = "idle" /\ o \in Ops
  /\ o = "quit" => \A d \in Client : op[d] # "quit"
  /\ op' = [op EXCEPT ![c] = o]
  /\ Goto(c, FirstStep(o))
  /\ UNCHANGED <<world, app, manager, booting, polls, again, signals, asked>>

\* await portmap.stop(): a wait if there is a client to destroy.
CallPortmap(c) ==
  /\ pc[c] = "callPortmap"
  /\ mapped' = FALSE
  /\ \/ Goto(c, "stopNow")
     \/ mapped /\ Goto(c, "portmap")
  /\ UNCHANGED <<world, app, state, proc, adopted, booting, polls, again, op,
                 signals, asked>>

PortmapStopped(c) ==
  /\ pc[c] = "portmap" /\ Goto(c, "stopNow")
  /\ UNCHANGED <<world, app, manager, booting, polls, again, op, signals, asked>>

\* There is no node to stop.
StopNothing(c) ==
  /\ pc[c] = "stopNow" /\ proc = NoProc /\ ~adopted
  /\ state' = "stopped" /\ Goto(c, "stopped")
  /\ UNCHANGED <<world, app, proc, adopted, mapped, booting, polls, again, op,
                 signals, asked>>

\* `quit` reaches the node that answers, unless it is deaf.
Quit(targets) ==
  \/ life' = [p \in Proc |-> IF p \in targets \cap Answering THEN "closing" ELSE life[p]]
  \/ "deaf" \in Faults /\ UNCHANGED life

StopAdopted(c) ==
  /\ pc[c] = "stopNow" /\ proc = NoProc /\ adopted
  /\ state' = "stopping" /\ StopHealth
  /\ Quit(Proc) /\ asked' = asked \cup Answering
  /\ Goto(c, "adoptedPoll")
  /\ UNCHANGED <<kindOf, pidfile, nodeKind, app, proc, adopted, mapped, booting,
                 again, op, signals>>

\* `quit` is sent, and that is that.
BadPollEnds == TRUE

\* The poll is refused, or its deadline passes: no node is closing, or the one
\* that is has stopped answering before it is gone, or takes too long.
PollEnds ==
  \/ \A p \in Proc : life[p] \notin {"closing", "termed"}
  \/ "slowClose" \in Faults

AdoptedGone(c) ==
  /\ pc[c] = "adoptedPoll" /\ PollEnds
  /\ adopted' = FALSE /\ state' = "stopped" /\ Goto(c, "stopped")
  /\ UNCHANGED <<world, app, proc, mapped, booting, polls, again, op, signals, asked>>

StopChild(c) ==
  /\ pc[c] = "stopNow" /\ proc # NoProc
  /\ state' = "stopping" /\ StopHealth
  /\ Quit({proc}) /\ asked' = asked \cup {proc}
  /\ signals' = [signals EXCEPT ![c] = "none"]
  /\ Goto(c, "gonePoll")
  /\ UNCHANGED <<kindOf, pidfile, nodeKind, app, proc, adopted, mapped, booting,
                 again, op>>

\* The two timers of a stop(): they signal whichever child there is by then.
SigTerm(c) ==
  /\ pc[c] = "gonePoll" /\ signals[c] = "none" /\ proc \in Alive
  /\ signals' = [signals EXCEPT ![c] = "SIGTERM"]
  /\ life' = [life EXCEPT ![proc] = "termed"]
  /\ asked' = asked \cup {proc}
  /\ UNCHANGED <<kindOf, pidfile, nodeKind, app, manager, booting, polls, again, pc, op>>

SigKill(c) ==
  /\ pc[c] = "gonePoll" /\ signals[c] = "SIGTERM" /\ proc \in Alive
  /\ signals' = [signals EXCEPT ![c] = "SIGKILL"]
  /\ asked' = asked \cup {proc}
  /\ life' = [life EXCEPT ![proc] = "none"]
  /\ OnExit(137)
  /\ UNCHANGED <<kindOf, nodeKind, app, adopted, booting, pc, op>>

\* The interval finds no child.
ChildGone(c) ==
  /\ pc[c] = "gonePoll" /\ proc = NoProc
  /\ Goto(c, "stopped")
  /\ UNCHANGED <<world, app, manager, booting, polls, again, op, signals, asked>>

\* start() on behalf of call c, which awaits it.
Start(c) ==
  IF boot # "none" THEN Goto(c, "starting") /\ UNCHANGED <<state, boot, stale>>
  ELSE IF proc # NoProc \/ adopted
    THEN Goto(c, "idle") /\ UNCHANGED <<state, boot, stale>>
  ELSE Starting /\ Goto(c, "starting")

\* The stop of a stop() is all; a restart() starts; a switch saves the new kind
\* and starts.
Stopped(c) ==
  /\ pc[c] = "stopped" /\ op[c] # "quit"
  /\ op' = [op EXCEPT ![c] = "none"]
  /\ nodeKind' = IF op[c] = "switch" THEN Other(nodeKind) ELSE nodeKind
  /\ IF op[c] = "stop" THEN Goto(c, "idle") /\ UNCHANGED <<state, boot, stale>>
                       ELSE Start(c)
  /\ UNCHANGED <<life, kindOf, pidfile, app, proc, adopted, mapped, polls, again,
                 signals, asked>>

\* The app goes: killNow() kills the child, if there is one, and removes the
\* pidfile; an adopted node is left.
AppExits ==
  /\ life' = [p \in Proc |-> IF p = proc THEN "none" ELSE life[p]]
  /\ pidfile' = NoProc
  /\ app' = "quit" /\ AppReset("stopped") /\ boot' = "none"
  /\ UNCHANGED <<kindOf, nodeKind, asked>>

QuitEnds(c) == pc[c] = "stopped" /\ op[c] = "quit" /\ AppExits

\* before-quit lets a second quit through.
QuitAgain == "quitTwice" \in Faults /\ (\E c \in Client : op[c] = "quit") /\ AppExits

\* SIGKILL of the app, a power cut for the app alone.
AppKilled ==
  /\ "kill" \in Faults
  /\ app' = "killed" /\ AppReset("stopped") /\ boot' = "none"
  /\ UNCHANGED <<world, asked>>

\* app.whenReady().
Launch ==
  /\ app # "up" /\ app' = "up"
  /\ AppReset("starting") /\ boot' = "probe"
  /\ UNCHANGED <<world, asked>>

-----------------------------------------------------------------------------
Microtask(c) ==
  \/ CallPortmap(c) \/ StopNothing(c) \/ StopAdopted(c) \/ StopChild(c)
  \/ Stopped(c) \/ QuitEnds(c)

CallStep(c) ==
  \/ Microtask(c)
  \/ ~microtask /\ (PortmapStopped(c) \/ AdoptedGone(c) \/ ChildGone(c))

SignalStep(c) == ~microtask /\ (SigTerm(c) \/ SigKill(c))

StartStep ==
  /\ app = "up"
  /\ \/ ~microtask /\ (Adopt \/ Abandon \/ LookForStale \/ ReclaimStale)
     \/ (NothingStale \/ ~microtask) /\ (Blocked \/ Spawn)

NodeStep == ~microtask /\ (Closes \/ ComesUp \/ LaunchFails)

PollStep == ~microtask /\ PollFails

AppStep ==
  /\ app = "up" /\ ~microtask
  /\ \/ TimerFires \/ WindowPasses \/ PollAnswered
     \/ \E c \in Client, o \in Operations : Ask(c, o)
     \/ QuitAgain \/ AppKilled

Next ==
  \/ \E c \in Client : CallStep(c) \/ SignalStep(c)
  \/ StartStep \/ NodeStep \/ PollStep \/ AppStep
  \/ ~microtask /\ (SelfExit \/ NodeCrash \/ Launch)

Spec == Init /\ [][Next]_vars

\* Timers fire, replies arrive or time out, and a node asked to go goes.  Strong
\* fairness, because an event that is due stays in the loop's queue while the
\* microtasks of others run before it.
Fairness ==
  /\ SF_vars(StartStep) /\ SF_vars(NodeStep) /\ SF_vars(PollStep)
  /\ \A c \in Client : SF_vars(CallStep(c)) /\ SF_vars(SignalStep(c))

FairSpec == Spec /\ Fairness

-----------------------------------------------------------------------------
(* Properties.                                                              *)

\* The app is up and nothing is in progress.
Idle == app = "up" /\ boot = "none" /\ \A c \in Client : pc[c] = "idle"

\* Never two node processes on the one data folder and port, across launches of
\* the app and whatever nodes an earlier launch left behind
\* (node-manager.js:81-86, 329-332).
OneNode == Cardinality(Alive) <= 1

\* Once nothing is in progress, the node is of the kind config.json names: the
\* wallet folder that the counters of carryover.js are kept for
\* (node-manager.js:442-443).
RunsConfiguredKind ==
  Idle /\ state = "running" => \A p \in Alive : kindOf[p] = nodeKind

\* The app does not say "stopped" while a node is left: neither one that a start
\* spawned behind the back of the stop, nor one that was still closing
\* (node-manager.js:347, 415-426).
HonestStopped == Idle /\ state = "stopped" => Alive = {}

\* A node is the app's child or an adopted process, never both: stop() looks at
\* the child alone if there is one (node-manager.js:317, 411-412).
OwnedOrAdopted == ~(adopted /\ proc # NoProc)

\* node-manager.js:17-18: the exit of a node that a stop() asked to go is never
\* reported as a crash.
StopIsNoCrash ==
  \A p \in asked \cap Alive :
    p = proc /\ proc' = NoProc /\ app' = "up" => state' # "error"
PlannedStopNotCrash == [][StopIsNoCrash]_vars

\* A stop, a restart, a switch and a quit come to their end, whatever the node
\* does (node-manager.js:407-436).
OpsEnd == \A c \in Client : []<>(pc[c] = "idle")

\* The app does not go on saying "running" of a node that is gone: a child's exit
\* is an event, an adopted node's has to be noticed (node-manager.js:629-637).
DeathNoticed == []<>~(app = "up" /\ state = "running" /\ Alive = {})
================================================================================
