------------------------------ MODULE NodeProofs -------------------------------
(***************************************************************************)
(* Proofs about module NodeLifecycle, for any processes and callers: what   *)
(* holds under every fault, what holds under the contained ones, and what   *)
(* holds of one caller.                                                     *)
(***************************************************************************)
EXTENDS NodeLifecycle, FiniteSetTheorems, TLAPS

-----------------------------------------------------------------------------
(* Under every fault.                                                       *)

\* While a start is under way there is no node of the app's: neither a child nor
\* an adopted one.
StartsAlone == boot # "none" => app = "up" /\ proc = NoProc /\ ~adopted

\* An app that is gone has forgotten everything.
Forgotten ==
  app # "up" => proc = NoProc /\ ~adopted /\ ~health /\ \A c \in Client : pc[c] = "idle"

OwnInv == TypeOK /\ StartsAlone /\ Forgotten /\ OwnedOrAdopted

LEMMA Zeros == 0 \in 0 .. ADOPTED_DEAD_AFTER /\ 0 \in 0 .. SELF_RESTART_MAX
BY NodeAssumption DEF NodeAssumption

LEMMA OwnInit == Init => OwnInv
<1> SUFFICES ASSUME Init PROVE OwnInv
  OBVIOUS
<1>1. TypeOK
  BY Zeros DEF Init, TypeOK, Lives, Kind
<1>2. StartsAlone /\ Forgotten /\ OwnedOrAdopted
  BY DEF Init, StartsAlone, Forgotten, OwnedOrAdopted
<1> QED BY <1>1, <1>2 DEF OwnInv

\* Fewer names to expand: what the steps leave alone.
LEMMA OwnStutters == OwnInv /\ UNCHANGED vars => OwnInv'
BY DEF OwnInv, TypeOK, StartsAlone, Forgotten, OwnedOrAdopted, vars, world, manager, booting,
       polls, again, calls

\* A start ends, or goes on.
LEMMA OwnStart == ASSUME OwnInv, StartStep PROVE OwnInv'
<1> USE NodeAssumption, Zeros DEF NodeAssumption, OwnInv, TypeOK, StartsAlone, Forgotten, OwnedOrAdopted, world, manager,
        booting, polls, again, calls, Lives, Kind, Microtasks, Awaits, BootEnds, Released, Alive, StartStep
<1>1. CASE Adopt
  BY <1>1 DEF Adopt, AdoptEnds
<1>2. CASE Abandon
  BY <1>2 DEF Abandon
<1>3. CASE LookForStale
  BY <1>3 DEF LookForStale, ProbeMisses
<1>4. CASE ReclaimStale
  BY <1>4 DEF ReclaimStale
<1>5. CASE Blocked
  BY <1>5 DEF Blocked
<1>6. CASE Spawn
  BY <1>6 DEF Spawn, SpawnReady
<1> QED BY <1>1, <1>2, <1>3, <1>4, <1>5, <1>6

\* A process dies, and its parent may hear of it.
LEMMA OwnExit ==
  ASSUME OwnInv, NEW code \in Nat, OnExit(code), proc # NoProc,
         life' \in [Proc -> Lives], UNCHANGED <<kindOf, nodeKind, app, adopted, booting, pc, op>>,
         signals' \in [Client -> {"none", "SIGTERM", "SIGKILL"}], asked' \subseteq Proc
  PROVE  OwnInv'
<1> USE DEF OwnInv, TypeOK, booting, again, OnExit, StopHealth
<1>1. /\ proc' = NoProc /\ pidfile' = NoProc /\ health' = FALSE /\ failures' = 0
      /\ state' \in {"stopped", "starting", "error"}
  OBVIOUS
<1>2. mapped' \in BOOLEAN /\ timer' \in BOOLEAN /\ selfRestarts' \in 0 .. SELF_RESTART_MAX
  <2>1. CASE Planned(code)
    BY <2>1
  <2>2. CASE ~Planned(code) /\ SelfRestarts(code)
    <3>1. mapped' = FALSE /\ timer' = TRUE /\ selfRestarts' = selfRestarts + 1
      BY <2>2
    <3>2. selfRestarts + 1 \in 0 .. SELF_RESTART_MAX
      BY <2>2, NodeAssumption DEF NodeAssumption, SelfRestarts
    <3> QED BY <3>1, <3>2
  <2>3. CASE ~Planned(code) /\ ~SelfRestarts(code)
    BY <2>3
  <2> QED BY <2>1, <2>2, <2>3
<1> HIDE DEF OnExit
<1>3. TypeOK'
  BY <1>1, <1>2, Zeros
<1>4. (StartsAlone /\ Forgotten /\ OwnedOrAdopted)'
  BY <1>1 DEF StartsAlone, Forgotten, OwnedOrAdopted
<1> QED BY <1>3, <1>4

LEMMA OwnDies == ASSUME OwnInv, NEW p \in Proc, NEW code \in Nat, Dies(p, code) PROVE OwnInv'
<1> USE DEF Dies, calls
<1>1. life' \in [Proc -> Lives]
  BY DEF OwnInv, TypeOK, Lives
<1>2. CASE p = proc
  BY <1>1, <1>2, OwnExit, NodeAssumption DEF NodeAssumption, OwnInv, TypeOK
<1>3. CASE p # proc
  BY <1>1, <1>3 DEF OwnInv, TypeOK, StartsAlone, Forgotten, OwnedOrAdopted, booting, polls, again
<1> QED BY <1>2, <1>3

LEMMA OwnNode == ASSUME OwnInv, NodeStep \/ SelfExit \/ NodeCrash PROVE OwnInv'
<1>1. CASE Closes \/ SelfExit \/ NodeCrash
  BY <1>1, OwnDies DEF Closes, SelfExit, NodeCrash, Alive
<1> USE NodeAssumption, Zeros DEF NodeAssumption, OwnInv, TypeOK, StartsAlone, Forgotten, OwnedOrAdopted, manager, booting, world,
        polls, again, calls, Lives
<1>2. CASE ComesUp
  BY <1>2 DEF ComesUp
<1>3. CASE LaunchFails
  BY <1>3 DEF LaunchFails, StopHealth
<1> QED BY <1>1, <1>2, <1>3 DEF NodeStep

\* The app leaves, dies or is launched.
LEMMA OwnReset ==
  ASSUME OwnInv, QuitAgain \/ AppKilled \/ Launch \/ \E c \in Client : QuitEnds(c)
  PROVE  OwnInv'
<1> USE NodeAssumption, Zeros DEF NodeAssumption, OwnInv, TypeOK, StartsAlone, Forgotten, OwnedOrAdopted, world, Lives,
        AppReset
<1>1. CASE AppExits
  BY <1>1 DEF AppExits
<1>2. CASE AppKilled
  BY <1>2 DEF AppKilled
<1>3. CASE Launch
  BY <1>3 DEF Launch
<1> QED BY <1>1, <1>2, <1>3 DEF QuitAgain, QuitEnds

LEMMA OwnApp == ASSUME OwnInv, AppStep \/ PollStep PROVE OwnInv'
<1> USE NodeAssumption, Zeros DEF NodeAssumption, OwnInv, TypeOK, StartsAlone, Forgotten, OwnedOrAdopted, world, manager, booting,
        polls, again, calls, Awaits, Microtasks
<1>1. CASE TimerFires /\ app = "up"
  BY <1>1 DEF TimerFires, Starting
<1>2. CASE WindowPasses
  BY <1>2 DEF WindowPasses
<1>3. CASE PollAnswered
  BY <1>3 DEF PollAnswered
<1>4. ASSUME NEW c \in Client, NEW o \in Operations, Ask(c, o), app = "up" PROVE OwnInv'
  BY <1>4 DEF Ask, Goto, FirstStep
<1>5. CASE PollFails
  <2>1. /\ failures' \in 0 .. ADOPTED_DEAD_AFTER /\ adopted' \in BOOLEAN /\ health' \in BOOLEAN
        /\ mapped' \in BOOLEAN /\ (adopted' => adopted) /\ (health' => health)
        /\ state' \in {state, "error"}
    <3>1. CASE Counted < ADOPTED_DEAD_AFTER
      BY <1>5, <3>1 DEF PollFails, Counted
    <3>2. CASE ~(Counted < ADOPTED_DEAD_AFTER)
      BY <1>5, <3>2 DEF PollFails, StopHealth
    <3> QED BY <3>1, <3>2
  <2> QED BY <1>5, <2>1 DEF PollFails
<1> QED BY <1>1, <1>2, <1>3, <1>4, <1>5, OwnReset DEF AppStep, PollStep

LEMMA OwnCall == ASSUME OwnInv, NEW c \in Client, CallStep(c) \/ SignalStep(c) PROVE OwnInv'
<1> USE NodeAssumption, Zeros DEF NodeAssumption, OwnInv, TypeOK, StartsAlone, Forgotten, OwnedOrAdopted, world, manager, booting,
        polls, again, calls, Awaits, Microtasks, Goto, Lives
<1>1. CASE CallPortmap(c)
  BY <1>1 DEF CallPortmap
<1>2. CASE StopNothing(c)
  BY <1>2 DEF StopNothing
<1>3. CASE StopAdopted(c)
  BY <1>3 DEF StopAdopted, Quit, StopHealth, Answering
<1>4. CASE StopChild(c)
  BY <1>4 DEF StopChild, Quit, StopHealth
<1>5. CASE Stopped(c)
  BY <1>5 DEF Stopped, Start, Starting, Other, Kind
<1>6. CASE PortmapStopped(c)
  BY <1>6 DEF PortmapStopped
<1>7. CASE AdoptedGone(c)
  BY <1>7 DEF AdoptedGone
<1>8. CASE ChildGone(c)
  BY <1>8 DEF ChildGone
<1>9. CASE SigTerm(c)
  BY <1>9 DEF SigTerm, Alive
<1>10. CASE SigKill(c)
  <2>1. life' \in [Proc -> Lives] /\ proc # NoProc /\ asked' \subseteq Proc
    BY <1>10 DEF SigKill, Alive
  <2>2. signals' \in [Client -> {"none", "SIGTERM", "SIGKILL"}]
    BY <1>10 DEF SigKill
  <2> QED BY <1>10, <2>1, <2>2, OwnExit DEF SigKill
<1> QED
  BY <1>1, <1>2, <1>3, <1>4, <1>5, <1>6, <1>7, <1>8, <1>9, <1>10, OwnReset
  DEF CallStep, Microtask, SignalStep

LEMMA OwnNext == OwnInv /\ [Next]_vars => OwnInv'
BY OwnStutters, OwnStart, OwnNode, OwnApp, OwnCall, OwnReset DEF Next

\* node-manager.js:317, 411-412: under every fault, and however many calls overlap, the
\* app never has a child and an adopted node at a time, and every variable keeps its range.
THEOREM OneOwner == Spec => [](TypeOK /\ OwnedOrAdopted)
<1>1. OwnInv => TypeOK /\ OwnedOrAdopted
  BY DEF OwnInv
<1> QED BY <1>1, OwnInit, OwnNext, PTL DEF Spec

-----------------------------------------------------------------------------
(* Under the contained faults: the app never loses track of a node.         *)

StopStates == {"stopping", "stopped"}

\* A call that has its stop() under way, or has done with it.
Past(c) == pc[c] \notin {"idle", "awaitStart"}

\* The pidfile names the node, whoever it belongs to.
PidfileKnows == Alive \subseteq {pidfile} /\ (proc # NoProc => pidfile = proc)

\* What a start reclaims is all there is.
ReclaimsAll == boot = "reclaim" => Alive \subseteq stale

\* A node that is neither the app's child nor adopted is one that an earlier launch
\* left, and the start that will find it goes before every stop.
LostAtStart ==
  app = "up" /\ Alive # {} /\ proc = NoProc /\ ~adopted =>
    boot # "none" /\ state = "starting" /\ \A c \in Client : ~Past(c)

\* An adopted node is past its boot, and answers for as long as it is polled.
AdoptedAnswers == adopted => \A p \in Proc : life[p] # "boot" /\ (health => life[p] \in {"none", "up"})

\* A stop() of an adopted node has told it to go.
AdoptedCloses == \A c \in Client : pc[c] = "adoptedPoll" /\ adopted => Answering = {}

\* A stop() of a child leaves no adopted node, and no stop() does.
StopsOwned == \A c \in Client : pc[c] \in {"gonePoll", "stopped"} => ~adopted

\* A start that has looked for stale nodes is not stopped any more: either there were
\* none and it spawns at once, or no call has come past it.
ReclaimQuiet ==
  boot = "reclaim" =>
    /\ state \notin StopStates
    /\ stale # {} => \A c \in Client : ~Past(c)
    /\ stale = {} => \A c \in Client : pc[c] \notin Microtasks

\* A call whose stop() has ended finds no node that runs on.
StoppedSays == \A c \in Client : pc[c] = "stopped" /\ proc # NoProc => state \in StopStates

\* The node that the app has is of the configured kind, unless it is being stopped.
KindKept == adopted \/ (proc # NoProc /\ state \notin StopStates) => \A p \in Alive : kindOf[p] = nodeKind

Tracked ==
  /\ PidfileKnows /\ ReclaimsAll /\ LostAtStart /\ AdoptedAnswers /\ AdoptedCloses
  /\ StopsOwned /\ ReclaimQuiet /\ StoppedSays /\ KindKept

NodeInv == OwnInv /\ Tracked

LEMMA NodeInit == Init => NodeInv
<1> SUFFICES ASSUME Init PROVE Tracked
  BY OwnInit DEF NodeInv
<1>1. Alive = {} /\ \A c \in Client : pc[c] = "idle"
  BY DEF Init, Alive
<1> QED
  BY <1>1 DEF Init, Tracked, PidfileKnows, ReclaimsAll, LostAtStart, AdoptedAnswers, AdoptedCloses,
     StopsOwned, ReclaimQuiet, StoppedSays, KindKept

\* What is not lost is there: whoever has come past the start knows the node.
LEMMA KnownPast ==
  ASSUME NodeInv, NEW c \in Client, Past(c), proc = NoProc, ~adopted
  PROVE  Alive = {}
BY DEF NodeInv, OwnInv, Forgotten, Tracked, LostAtStart, Past, TypeOK

\* A step that takes no process up, and neither child nor adopted node.
LEMMA TrackedDies ==
  ASSUME NodeInv, OwnInv', NEW p \in Proc, NEW code \in Nat, Dies(p, code)
  PROVE  Tracked'
<1> USE DEF NodeInv, OwnInv, TypeOK
<1>1. life' = [life EXCEPT ![p] = "none"] /\ Alive' \subseteq Alive /\ p \notin Alive' /\ Answering' \subseteq Answering
  BY DEF Dies, Alive, Answering
<1>2. UNCHANGED <<kindOf, nodeKind, app, adopted, boot, stale, pc, op, signals>>
  BY DEF Dies, booting, calls
<1>3. CASE p # proc
  <2>1. UNCHANGED <<pidfile, state, proc, health>>
    BY <1>3 DEF Dies, polls
  <2> QED
    BY <1>1, <1>2, <2>1 DEF Tracked, PidfileKnows, ReclaimsAll, LostAtStart, AdoptedAnswers, AdoptedCloses,
       StopsOwned, ReclaimQuiet, StoppedSays, KindKept, Past
<1>4. CASE p = proc
  <2>1. proc' = NoProc /\ pidfile' = NoProc /\ health' = FALSE
    BY <1>4 DEF Dies, OnExit, StopHealth
  <2>2. Alive' = {} /\ boot = "none" /\ ~adopted
    BY <1>1, <1>4, NodeAssumption DEF NodeAssumption, Tracked, PidfileKnows, StartsAlone, OwnedOrAdopted
  <2> QED
    BY <1>1, <1>2, <2>1, <2>2 DEF Tracked, PidfileKnows, ReclaimsAll, LostAtStart, AdoptedAnswers, AdoptedCloses,
       StopsOwned, ReclaimQuiet, StoppedSays, KindKept, Past
<1> QED BY <1>3, <1>4

\* The names that nearly every step needs.
LEMMA TrackedNode ==
  ASSUME NodeInv, OwnInv', NodeStep \/ SelfExit \/ NodeCrash
  PROVE  Tracked'
<1>1. CASE Closes \/ SelfExit \/ NodeCrash
  BY <1>1, TrackedDies DEF Closes, SelfExit, NodeCrash, Alive
<1> USE DEF NodeInv, OwnInv, TypeOK
<1>2. CASE ComesUp
  <2>1. PICK p \in Proc : life[p] = "boot" /\ life' = [life EXCEPT ![p] = "up"]
    BY <1>2 DEF ComesUp
  <2>2. Alive' = Alive
    BY <2>1 DEF Alive
  <2>3. UNCHANGED <<kindOf, pidfile, nodeKind, app, state, proc, adopted, boot, stale, health, pc>>
    BY <1>2 DEF ComesUp, world, manager, booting, polls, again, calls
  <2>4. ~adopted
    BY <2>1 DEF Tracked, AdoptedAnswers
  <2> QED
    BY <2>2, <2>3, <2>4 DEF Tracked, PidfileKnows, ReclaimsAll, LostAtStart, AdoptedAnswers, AdoptedCloses,
       StopsOwned, ReclaimQuiet, StoppedSays, KindKept, Past
<1>3. CASE LaunchFails
  <2>1. proc' = NoProc /\ health' = FALSE /\ state' = "error"
    BY <1>3 DEF LaunchFails, StopHealth
  <2>2. UNCHANGED <<life, kindOf, pidfile, nodeKind, app, adopted, boot, stale, pc>>
    BY <1>3 DEF LaunchFails, world, booting, calls
  <2>3. Alive = {} /\ Alive' = Alive /\ boot = "none" /\ ~adopted
    BY <1>3, <2>2 DEF LaunchFails, Alive, Tracked, PidfileKnows, StartsAlone, OwnedOrAdopted
  <2> QED
    BY <2>1, <2>2, <2>3 DEF Tracked, PidfileKnows, ReclaimsAll, LostAtStart, AdoptedAnswers, AdoptedCloses,
       StopsOwned, ReclaimQuiet, StoppedSays, KindKept, Past, Answering
<1> QED BY <1>1, <1>2, <1>3 DEF NodeStep

\* A start, from its probe to the spawn or to its failure.
LEMMA TrackedStart ==
  ASSUME NodeInv, OwnInv', StartStep, Faults \subseteq Contained
  PROVE  Tracked'
<1> USE DEF NodeInv, OwnInv, TypeOK
<1>f. "deaf" \notin Faults /\ "stuck" \notin Faults
  BY DEF Contained
<1>a. app = "up" /\ (boot # "none" => proc = NoProc /\ ~adopted)
  BY DEF StartStep, StartsAlone
<1>1. CASE Adopt
  <2>1. /\ adopted' = TRUE /\ boot' = "none" /\ stale' = {} /\ pc' = [c \in Client |-> Released(pc[c])]
        /\ UNCHANGED <<life, kindOf, pidfile, nodeKind, app, state, proc>>
    BY <1>1 DEF Adopt, AdoptEnds, BootEnds, world
  <2>2. Alive' = Alive /\ Answering' = Answering
    BY <2>1 DEF Alive, Answering
  <2>3. PICK p \in Answering : kindOf[p] = nodeKind
    BY <1>1 DEF Adopt, KindMismatch
  <2>4. Alive = {p} /\ Answering = {p}
    BY <2>3 DEF Tracked, PidfileKnows, Alive, Answering
  <2>5. \A c \in Client : pc[c] \in {"idle", "awaitStart"} /\ pc'[c] \in {"idle", "callPortmap"}
    BY <1>1, <1>a, <2>1, <2>4 DEF Adopt, Tracked, LostAtStart, Past, Released
  <2>6. \A q \in Proc : life'[q] \in {"none", "up"}
    BY <2>1, <2>4 DEF Alive, Answering, Lives
  <2> QED
    BY <2>1, <2>2, <2>3, <2>4, <2>5, <2>6
    DEF Tracked, PidfileKnows, ReclaimsAll, LostAtStart, AdoptedAnswers, AdoptedCloses, StopsOwned, ReclaimQuiet, StoppedSays, KindKept
<1>2. CASE Abandon
  <2>1. /\ boot' = "none" /\ pc' = [c \in Client |-> Released(pc[c])] /\ state \in StopStates /\ boot = "probe"
        /\ UNCHANGED <<life, kindOf, pidfile, nodeKind, app, state, proc, adopted, health>>
    BY <1>2 DEF Abandon, ProbeMisses, BootEnds, world, manager, polls, StopStates
  <2>2. Alive' = Alive /\ Alive = {}
    BY <1>a, <2>1 DEF Alive, Tracked, LostAtStart, StopStates
  <2>3. \A c \in Client : pc'[c] = "stopped" => pc[c] = "stopped"
    BY <2>1 DEF Released
  <2> QED
    BY <1>a, <2>1, <2>2, <2>3
    DEF Tracked, PidfileKnows, ReclaimsAll, LostAtStart, AdoptedAnswers, AdoptedCloses, StopsOwned, ReclaimQuiet, StoppedSays, KindKept
<1>3. CASE LookForStale /\ ~microtask
  <2>1. PICK quiet \in SUBSET (Alive \ (Answering \cup {pidfile})) : stale' = Alive \ quiet
    BY <1>3 DEF LookForStale
  <2>2. boot' = "reclaim" /\ state \notin StopStates /\ boot = "probe"
        /\ UNCHANGED <<life, kindOf, pidfile, nodeKind, app, state, proc, adopted, health, pc>>
    BY <1>3 DEF LookForStale, ProbeMisses, StopStates, world, manager, polls, calls
  <2>3. quiet = {} /\ Alive' = Alive /\ Answering' = Answering
    BY <2>1, <2>2 DEF Tracked, PidfileKnows, Alive, Answering
  <2>4. \A c \in Client : pc[c] \notin Microtasks
    BY <1>3 DEF microtask
  <2>5. ReclaimQuiet' /\ ReclaimsAll'
    BY <1>a, <2>1, <2>2, <2>3, <2>4 DEF ReclaimQuiet, ReclaimsAll, Tracked, LostAtStart, Past
  <2> QED
    BY <2>2, <2>3, <2>5
    DEF Tracked, PidfileKnows, LostAtStart, Past, AdoptedAnswers, AdoptedCloses, StopsOwned, StoppedSays, KindKept
<1>4. CASE ReclaimStale
  <2>1. PICK p \in stale \cap Alive : life' = [life EXCEPT ![p] = "none"]
    BY <1>4 DEF ReclaimStale
  <2>2. UNCHANGED <<kindOf, pidfile, nodeKind, app, state, proc, adopted, boot, stale, health, pc>>
    BY <1>4 DEF ReclaimStale, manager, booting, polls, calls
  <2>3. Alive' \subseteq Alive /\ Answering' \subseteq Answering
    BY <2>1 DEF Alive, Answering
  <2> QED
    BY <2>1, <2>2, <2>3
    DEF Tracked, PidfileKnows, ReclaimsAll, LostAtStart, Past, AdoptedAnswers, AdoptedCloses, StopsOwned, ReclaimQuiet, StoppedSays, KindKept
<1>5. CASE Blocked
  <2>1. /\ boot' = "none" /\ pc' = [c \in Client |-> Released(pc[c])] /\ state' = "error" /\ boot = "reclaim"
        /\ UNCHANGED <<life, kindOf, pidfile, nodeKind, app, proc, adopted, health>>
    BY <1>5 DEF Blocked, BootEnds, world, polls
  <2>2. Alive' = Alive /\ Alive = {}
    BY <1>5, <1>f, <2>1 DEF Blocked, Alive, Tracked, ReclaimsAll
  <2>3. \A c \in Client : pc'[c] = "stopped" => pc[c] = "stopped"
    BY <2>1 DEF Released
  <2> QED
    BY <1>a, <2>1, <2>2, <2>3
    DEF Tracked, PidfileKnows, ReclaimsAll, LostAtStart, AdoptedAnswers, AdoptedCloses, StopsOwned, ReclaimQuiet, StoppedSays, KindKept
<1>6. CASE Spawn
  <2>1. boot = "reclaim" /\ Alive = {}
    BY <1>6 DEF Spawn, SpawnReady, Tracked, ReclaimsAll
  <2>2. PICK p \in Proc :
          /\ life' = [life EXCEPT ![p] = "boot"] \/ life' = life
          /\ kindOf' = [kindOf EXCEPT ![p] = nodeKind] /\ pidfile' = p /\ proc' = p
    BY <1>6 DEF Spawn
  <2>3. /\ boot' = "none" /\ pc' = [c \in Client |-> Released(pc[c])]
        /\ UNCHANGED <<nodeKind, app, state, adopted>>
    BY <1>6 DEF Spawn, BootEnds
  <2>4. Alive' \subseteq {p} /\ p # NoProc
    BY <2>1, <2>2, NodeAssumption DEF NodeAssumption, Alive
  <2>5. \A c \in Client : pc'[c] # "stopped"
    BY <2>1, <2>3 DEF Released, Tracked, ReclaimQuiet, Past, Microtasks
  <2>6. \A c \in Client : pc'[c] = "gonePoll" => pc[c] = "gonePoll"
    BY <2>3 DEF Released
  <2> QED
    BY <1>a, <2>1, <2>2, <2>3, <2>4, <2>5
    DEF Tracked, PidfileKnows, ReclaimsAll, LostAtStart, AdoptedAnswers, AdoptedCloses, StopsOwned, ReclaimQuiet, StoppedSays, KindKept
<1> QED BY <1>1, <1>2, <1>3, <1>4, <1>5, <1>6 DEF StartStep

\* The app leaves, dies or is launched.
LEMMA TrackedReset ==
  ASSUME NodeInv, OwnInv', Faults \subseteq Contained,
         QuitAgain \/ AppKilled \/ Launch \/ \E c \in Client : QuitEnds(c)
  PROVE  Tracked'
<1> USE DEF NodeInv, OwnInv, TypeOK
<1>r. /\ proc' = NoProc /\ ~adopted' /\ ~health' /\ stale' = {} /\ boot' \in {"none", "probe"}
      /\ \A c \in Client : pc'[c] = "idle"
  BY DEF QuitAgain, AppKilled, Launch, QuitEnds, AppExits, AppReset
<1>1. CASE AppKilled \/ Launch
  <2>1. UNCHANGED <<life, kindOf, pidfile, nodeKind>> /\ Alive' = Alive
    BY <1>1 DEF AppKilled, Launch, world, Alive
  <2>2. (AppKilled /\ app' = "killed") \/ (app' = "up" /\ boot' = "probe" /\ state' = "starting")
    BY <1>1 DEF AppKilled, Launch, AppReset
  <2> QED
    BY <1>r, <2>1, <2>2
    DEF Tracked, PidfileKnows, ReclaimsAll, LostAtStart, Past, AdoptedAnswers, AdoptedCloses, StopsOwned, ReclaimQuiet, StoppedSays, KindKept
<1>2. ASSUME NEW c \in Client, QuitEnds(c) PROVE Tracked'
  <2>1. ~adopted /\ (proc = NoProc => Alive = {})
    BY <1>2, KnownPast DEF QuitEnds, Past, Tracked, StopsOwned
  <2>2. Alive \subseteq {proc}
    BY <2>1 DEF Tracked, PidfileKnows
  <2>3. life' = [p \in Proc |-> IF p = proc THEN "none" ELSE life[p]] /\ app' = "quit"
    BY <1>2 DEF QuitEnds, AppExits
  <2>4. Alive' = {}
    BY <2>2, <2>3 DEF Alive
  <2> QED
    BY <1>r, <2>3, <2>4
    DEF Tracked, PidfileKnows, ReclaimsAll, LostAtStart, Past, AdoptedAnswers, AdoptedCloses, StopsOwned, ReclaimQuiet, StoppedSays, KindKept
<1>3. ~QuitAgain
  BY DEF QuitAgain, Contained
<1> QED BY <1>1, <1>2, <1>3

\* The timers and the polls of the app.
LEMMA TrackedApp ==
  ASSUME NodeInv, OwnInv', Faults \subseteq Contained, AppStep \/ PollStep
  PROVE  Tracked'
<1> USE DEF NodeInv, OwnInv, TypeOK
<1>1. CASE TimerFires
  <2>1. UNCHANGED <<life, kindOf, pidfile, nodeKind, app, proc, adopted, health, pc, stale>>
    BY <1>1 DEF TimerFires, Starting, world, polls, calls
  <2>2. Alive' = Alive /\ Answering' = Answering
    BY <2>1 DEF Alive, Answering
  <2>3. UNCHANGED <<state, boot>> \/ (boot = "none" /\ boot' = "probe" /\ proc = NoProc /\ ~adopted /\ state' = "starting")
    BY <1>1 DEF TimerFires, Starting
  <2> QED
    BY <2>1, <2>2, <2>3
    DEF Tracked, PidfileKnows, ReclaimsAll, LostAtStart, Past, AdoptedAnswers, AdoptedCloses, StopsOwned, ReclaimQuiet, StoppedSays, KindKept
<1>2. CASE WindowPasses
  <2>1. UNCHANGED <<life, kindOf, pidfile, nodeKind, app, state, proc, adopted, boot, stale, health, pc>>
    BY <1>2 DEF WindowPasses, world, manager, booting, polls, calls
  <2>2. Alive' = Alive /\ Answering' = Answering
    BY <2>1 DEF Alive, Answering
  <2> QED
    BY <2>1, <2>2
    DEF Tracked, PidfileKnows, ReclaimsAll, LostAtStart, Past, AdoptedAnswers, AdoptedCloses, StopsOwned, ReclaimQuiet, StoppedSays, KindKept
<1>3. CASE PollAnswered /\ ~microtask
  <2>1. /\ UNCHANGED <<life, kindOf, pidfile, nodeKind, app, proc, adopted, boot, stale, health, pc>>
        /\ proc # NoProc \/ adopted
        /\ state \notin StopStates
    BY <1>3 DEF PollAnswered, Live, StopStates, world, manager, booting, polls, calls
  <2>2. Alive' = Alive /\ Answering' = Answering /\ boot = "none"
    BY <2>1 DEF Alive, Answering, StartsAlone
  <2>3. \A c \in Client : pc[c] # "stopped"
    BY <1>3 DEF microtask, Microtasks
  <2> QED
    BY <2>1, <2>2, <2>3
    DEF Tracked, PidfileKnows, ReclaimsAll, LostAtStart, Past, AdoptedAnswers, AdoptedCloses, StopsOwned, ReclaimQuiet, StoppedSays, KindKept
<1>4. ASSUME NEW c \in Client, NEW o \in Operations, Ask(c, o) PROVE Tracked'
  <2>1. /\ UNCHANGED <<life, kindOf, pidfile, nodeKind, app, state, proc, adopted, boot, stale, health>>
        /\ pc' = [pc EXCEPT ![c] = FirstStep(o)]
    BY <1>4 DEF Ask, Goto, world, manager, booting, polls
  <2>2. Alive' = Alive /\ Answering' = Answering
    BY <2>1 DEF Alive, Answering
  <2>3. FirstStep(o) = IF boot # "none" THEN "awaitStart" ELSE "callPortmap"
    BY DEF FirstStep
  <2> QED
    BY <2>1, <2>2, <2>3
    DEF Tracked, PidfileKnows, ReclaimsAll, LostAtStart, Past, AdoptedAnswers, AdoptedCloses, StopsOwned, ReclaimQuiet, StoppedSays, KindKept,
        Microtasks
<1>5. CASE PollFails
  <2>1. /\ UNCHANGED <<life, kindOf, pidfile, nodeKind, app, proc, boot, stale, pc>>
        /\ adopted /\ health /\ Answering = {}
    BY <1>5 DEF PollFails, Live, Contained, world, booting, calls
  <2>2. Alive = {} /\ Alive' = Alive /\ boot = "none" /\ proc = NoProc
    BY <2>1 DEF Alive, Answering, Tracked, AdoptedAnswers, StartsAlone, OwnedOrAdopted
  <2>3. (adopted' => adopted) /\ (health' => health)
    BY <2>1
  <2> QED
    BY <2>1, <2>2, <2>3
    DEF Tracked, PidfileKnows, ReclaimsAll, LostAtStart, Past, AdoptedAnswers, AdoptedCloses, StopsOwned, ReclaimQuiet, StoppedSays, KindKept,
        Alive, Answering
<1> QED BY <1>1, <1>2, <1>3, <1>4, <1>5, TrackedReset DEF AppStep, PollStep

\* No call that goes on is one while a start reclaims.
LEMMA CallFindsNoReclaim ==
  ASSUME NodeInv, NEW c \in Client, CallStep(c) \/ SignalStep(c)
  PROVE  boot # "reclaim" /\ Past(c)
<1>1. Past(c)
  BY DEF CallStep, SignalStep, Microtask, CallPortmap, StopNothing, StopAdopted, StopChild, Stopped, QuitEnds,
     PortmapStopped, AdoptedGone, ChildGone, SigTerm, SigKill, Past
<1>2. pc[c] \in Microtasks \/ ~microtask
  BY DEF CallStep, SignalStep, Microtask, CallPortmap, StopNothing, StopAdopted, StopChild, Stopped, QuitEnds,
     Microtasks
<1> QED BY <1>1, <1>2 DEF NodeInv, Tracked, ReclaimQuiet, microtask, NothingStale

\* A call goes on to its stop, and from there to the wait for a child or for an adopted node.
LEMMA TrackedStops ==
  ASSUME NodeInv, OwnInv', NEW c \in Client, Faults \subseteq Contained, boot # "reclaim", Past(c),
         CallPortmap(c) \/ PortmapStopped(c) \/ StopAdopted(c) \/ StopChild(c)
  PROVE  Tracked'
<1> USE DEF NodeInv, OwnInv, TypeOK, Goto, Past
<1>f. "deaf" \notin Faults
  BY DEF Contained
<1>1. CASE CallPortmap(c) \/ PortmapStopped(c)
  <2>1. UNCHANGED <<life, kindOf, pidfile, nodeKind, app, state, proc, adopted, boot, stale, health>>
    BY <1>1 DEF CallPortmap, PortmapStopped, world, manager, booting, polls
  <2>2. Alive' = Alive /\ Answering' = Answering
    BY <2>1 DEF Alive, Answering
  <2>3. PICK where \in {"stopNow", "portmap"} : pc' = [pc EXCEPT ![c] = where]
    BY <1>1 DEF CallPortmap, PortmapStopped
  <2> QED
    BY <2>1, <2>2, <2>3
    DEF Tracked, PidfileKnows, ReclaimsAll, LostAtStart, AdoptedAnswers, AdoptedCloses, StopsOwned, ReclaimQuiet, StoppedSays, KindKept
<1>2. ASSUME StopAdopted(c) \/ StopChild(c) PROVE Tracked'
  <2>1. /\ UNCHANGED <<kindOf, pidfile, nodeKind, app, proc, adopted, boot, stale>>
        /\ state' = "stopping" /\ health' = FALSE
    BY <1>2 DEF StopAdopted, StopChild, booting, StopHealth
  <2>2. PICK targets : life' = [p \in Proc |-> IF p \in targets \cap Answering THEN "closing" ELSE life[p]]
    BY <1>2, <1>f DEF StopAdopted, StopChild, Quit
  <2>3. Alive' = Alive /\ Answering' \subseteq Answering /\ \A p \in Proc : life'[p] = "boot" => life[p] = "boot"
    BY <2>2 DEF Alive, Answering
  <2>4. CASE StopAdopted(c)
    <3>1. pc' = [pc EXCEPT ![c] = "adoptedPoll"] /\ adopted
      BY <2>4 DEF StopAdopted
    <3>2. life' = [p \in Proc |-> IF p \in Proc \cap Answering THEN "closing" ELSE life[p]]
      BY <2>4, <1>f DEF StopAdopted, Quit
    <3>3. Answering' = {}
      BY <3>2 DEF Answering
    <3> QED
      BY <2>1, <2>3, <3>1, <3>3
      DEF Tracked, PidfileKnows, ReclaimsAll, LostAtStart, AdoptedAnswers, AdoptedCloses, StopsOwned, ReclaimQuiet, StoppedSays, KindKept,
          StopStates
  <2>5. CASE StopChild(c)
    <3>1. pc' = [pc EXCEPT ![c] = "gonePoll"] /\ proc # NoProc /\ ~adopted
      BY <2>5 DEF StopChild, OwnedOrAdopted
    <3> QED
      BY <2>1, <2>3, <3>1
      DEF Tracked, PidfileKnows, ReclaimsAll, LostAtStart, AdoptedAnswers, AdoptedCloses, StopsOwned, ReclaimQuiet, StoppedSays, KindKept,
          StopStates
  <2> QED BY <1>2, <2>4, <2>5
<1> QED BY <1>1, <1>2

\* The poll of a stop() ends when the adopted node is gone.
LEMMA PollSawItGo ==
  ASSUME NodeInv, NEW c \in Client, Faults \subseteq Contained, AdoptedGone(c), adopted
  PROVE  Alive = {}
<1>1. pc[c] = "adoptedPoll" /\ \A p \in Proc : life[p] \notin {"closing", "termed"}
  BY DEF AdoptedGone, PollEnds, Contained
<1> QED BY <1>1 DEF NodeInv, OwnInv, TypeOK, Tracked, AdoptedAnswers, AdoptedCloses, Alive, Answering, Lives

\* A stop ends, or signals the child.
LEMMA TrackedEnds ==
  ASSUME NodeInv, OwnInv', NEW c \in Client, Faults \subseteq Contained, boot # "reclaim", Past(c),
         StopNothing(c) \/ AdoptedGone(c) \/ (ChildGone(c) /\ ~microtask) \/ Stopped(c) \/ SigTerm(c) \/ SigKill(c)
  PROVE  Tracked'
<1> USE DEF NodeInv, OwnInv, TypeOK, Goto, Past
<1>1. CASE StopNothing(c)
  <2>1. /\ UNCHANGED <<life, kindOf, pidfile, nodeKind, app, proc, adopted, boot, stale, health>>
        /\ state' = "stopped" /\ pc' = [pc EXCEPT ![c] = "stopped"] /\ proc = NoProc /\ ~adopted
    BY <1>1 DEF StopNothing, world, booting, polls
  <2>2. Alive = {} /\ Alive' = {} /\ Answering' = Answering
    BY <2>1, KnownPast DEF Alive, Answering
  <2> QED
    BY <2>1, <2>2
    DEF Tracked, PidfileKnows, ReclaimsAll, LostAtStart, AdoptedAnswers, AdoptedCloses, StopsOwned, ReclaimQuiet, StoppedSays, KindKept
<1>2. CASE AdoptedGone(c)
  <2>1. /\ UNCHANGED <<life, kindOf, pidfile, nodeKind, app, proc, boot, stale, health>>
        /\ state' = "stopped" /\ pc' = [pc EXCEPT ![c] = "stopped"] /\ ~adopted' /\ pc[c] = "adoptedPoll"
    BY <1>2 DEF AdoptedGone, world, booting, polls
  <2>2. Alive' = Alive /\ Answering' = Answering
    BY <2>1 DEF Alive, Answering
  <2>3. proc = NoProc => Alive = {}
    <3>1. CASE adopted
      BY <1>2, <3>1, PollSawItGo
    <3>2. CASE ~adopted
      BY <3>2, KnownPast
    <3> QED BY <3>1, <3>2
  <2> QED
    BY <2>1, <2>2, <2>3
    DEF Tracked, PidfileKnows, ReclaimsAll, LostAtStart, AdoptedAnswers, AdoptedCloses, StopsOwned, ReclaimQuiet, StoppedSays, KindKept,
        StopStates
<1>3. CASE ChildGone(c)
  <2>1. /\ UNCHANGED <<life, kindOf, pidfile, nodeKind, app, state, proc, adopted, boot, stale, health>>
        /\ pc' = [pc EXCEPT ![c] = "stopped"] /\ proc = NoProc /\ pc[c] = "gonePoll"
    BY <1>3 DEF ChildGone, world, manager, booting, polls
  <2>2. Alive' = Alive /\ Answering' = Answering
    BY <2>1 DEF Alive, Answering
  <2> QED
    BY <2>1, <2>2
    DEF Tracked, PidfileKnows, ReclaimsAll, LostAtStart, AdoptedAnswers, AdoptedCloses, StopsOwned, ReclaimQuiet, StoppedSays, KindKept
<1>4. CASE Stopped(c)
  <2>1. UNCHANGED <<life, kindOf, pidfile, app, proc, adopted, health, stale>> /\ pc[c] = "stopped" /\ ~adopted
    BY <1>4 DEF Stopped, polls, Start, Starting, Tracked, StopsOwned
  <2>2. Alive' = Alive /\ Answering' = Answering
    BY <2>1 DEF Alive, Answering
  <2>3. PICK where \in {"idle", "starting"} : pc' = [pc EXCEPT ![c] = where]
    BY <1>4 DEF Stopped, Start
  <2>4. UNCHANGED <<state, boot>> \/ (proc = NoProc /\ boot' = "probe")
    BY <1>4 DEF Stopped, Start, Starting
  <2>5. proc = NoProc => Alive = {}
    BY <2>1, KnownPast
  <2>6. proc # NoProc => state \in StopStates /\ UNCHANGED <<state, boot>>
    BY <2>1, <2>4 DEF Tracked, StoppedSays
  <2> QED
    BY <2>1, <2>2, <2>3, <2>4, <2>5, <2>6
    DEF Tracked, PidfileKnows, ReclaimsAll, LostAtStart, AdoptedAnswers, AdoptedCloses, StopsOwned, ReclaimQuiet, StoppedSays, KindKept
<1>5. CASE SigTerm(c)
  <2>1. /\ UNCHANGED <<kindOf, pidfile, nodeKind, app, state, proc, adopted, boot, stale, health, pc>>
        /\ life' = [life EXCEPT ![proc] = "termed"] /\ proc \in Alive
    BY <1>5 DEF SigTerm, manager, booting, polls
  <2>2. Alive' = Alive /\ Answering' \subseteq Answering /\ ~adopted
    BY <2>1, NodeAssumption DEF NodeAssumption, Alive, Answering, OwnedOrAdopted
  <2> QED
    BY <2>1, <2>2
    DEF Tracked, PidfileKnows, ReclaimsAll, LostAtStart, AdoptedAnswers, AdoptedCloses, StopsOwned, ReclaimQuiet, StoppedSays, KindKept
<1>6. CASE SigKill(c)
  <2>1. /\ UNCHANGED <<kindOf, nodeKind, app, adopted, boot, stale, pc>>
        /\ life' = [life EXCEPT ![proc] = "none"] /\ proc \in Alive /\ proc' = NoProc /\ health' = FALSE /\ pidfile' = NoProc
    BY <1>6 DEF SigKill, OnExit, StopHealth, booting
  <2>2. Alive' = {} /\ boot = "none" /\ ~adopted
    BY <2>1, NodeAssumption DEF NodeAssumption, Alive, OwnedOrAdopted, StartsAlone, Tracked, PidfileKnows
  <2> QED
    BY <2>1, <2>2
    DEF Tracked, PidfileKnows, ReclaimsAll, LostAtStart, AdoptedAnswers, AdoptedCloses, StopsOwned, ReclaimQuiet, StoppedSays, KindKept,
        Alive, Answering
<1> QED BY <1>1, <1>2, <1>3, <1>4, <1>5, <1>6

LEMMA NodeNext == NodeInv /\ [Next]_vars /\ Faults \subseteq Contained => NodeInv'
<1> SUFFICES ASSUME NodeInv, [Next]_vars, Faults \subseteq Contained PROVE Tracked'
  BY OwnNext DEF NodeInv
<1>o. OwnInv'
  BY OwnNext DEF NodeInv
<1>1. ASSUME NEW c \in Client, CallStep(c) \/ SignalStep(c) PROVE Tracked'
  <2>1. boot # "reclaim" /\ Past(c)
    BY <1>1, CallFindsNoReclaim
  <2> QED
    BY <1>o, <1>1, <2>1, TrackedStops, TrackedEnds, TrackedReset DEF CallStep, SignalStep, Microtask
<1>2. CASE UNCHANGED vars
  BY <1>2 DEF NodeInv, Tracked, PidfileKnows, ReclaimsAll, LostAtStart, AdoptedAnswers, AdoptedCloses, StopsOwned, ReclaimQuiet,
     StoppedSays, KindKept, Alive, Answering, Past, vars, world, manager, booting, polls, again, calls
<1> QED BY <1>o, <1>1, <1>2, TrackedNode, TrackedStart, TrackedApp, TrackedReset DEF Next

\* What a reader wants to know of it.
LEMMA NodeInvImplies == NodeInv => OneNode /\ RunsConfiguredKind
<1> SUFFICES ASSUME NodeInv PROVE OneNode /\ RunsConfiguredKind
  OBVIOUS
<1> USE DEF NodeInv, OwnInv, TypeOK, Tracked
<1>1. OneNode
  <2>1. IsFiniteSet({pidfile}) /\ Cardinality({pidfile}) = 1
    BY FS_Singleton
  <2>2. Cardinality(Alive) <= Cardinality({pidfile}) /\ Cardinality(Alive) \in Nat
    BY <2>1, FS_Subset, FS_CardinalityType DEF PidfileKnows
  <2> QED BY <2>1, <2>2 DEF OneNode
<1>2. RunsConfiguredKind
  BY DEF RunsConfiguredKind, Idle, LostAtStart, KindKept, StopStates
<1> QED BY <1>1, <1>2

\* node-manager.js:81-86, 329-332, 442-443: under the faults that the app contains, whatever
\* calls overlap and whatever nodes earlier launches left, there is one node at most, and once
\* nothing is in progress it is of the kind that config.json names.
THEOREM OneNodeOfItsKind ==
  ASSUME Faults \subseteq Contained
  PROVE  Spec => [](OneNode /\ RunsConfiguredKind)
<1>1. NodeInv /\ [Next]_vars => NodeInv'
  BY NodeNext
<1> QED BY <1>1, NodeInit, NodeInvImplies, PTL DEF Spec

-----------------------------------------------------------------------------
(* Of one caller.                                                           *)

OneCaller == \A c, d \in Client : c = d

\* A stop() of an adopted node keeps it and does not poll it; a stop() of a child has its
\* exit planned, and nothing is started before it has seen it; and a child that was asked
\* to go has its exit planned.
StopKeeps ==
  /\ \A c \in Client : pc[c] = "adoptedPoll" => adopted /\ ~health
  /\ \A c \in Client : pc[c] = "gonePoll" =>
       /\ boot = "none" /\ ~adopted
       /\ IF proc # NoProc THEN state = "stopping" ELSE state \in {"stopped", "error"}
  /\ proc # NoProc /\ proc \in asked \cap Alive => state = "stopping"

LEMMA KeepsInit == Init => StopKeeps
BY DEF Init, StopKeeps

\* What a process, a start and the app's timers do.
LEMMA KeepsEvents ==
  ASSUME OwnInv, StopKeeps, StartStep \/ NodeStep \/ SelfExit \/ NodeCrash
  PROVE  StopKeeps'
<1> USE DEF OwnInv, TypeOK, StopKeeps
<1>1. ASSUME NEW p \in Proc, NEW code, Dies(p, code) PROVE StopKeeps'
  <2>1. UNCHANGED <<app, adopted, boot, pc, asked>> /\ Alive' \subseteq Alive
    BY <1>1 DEF Dies, booting, calls, Alive
  <2>2. CASE p # proc
    BY <1>1, <2>1, <2>2 DEF Dies, polls
  <2>3. CASE p = proc
    <3>1. proc' = NoProc /\ health' = FALSE /\ (state = "stopping" => state' = "stopped")
      BY <1>1, <2>3 DEF Dies, OnExit, StopHealth, Planned
    <3>2. proc # NoProc
      BY <2>3, NodeAssumption DEF NodeAssumption
    <3> QED BY <2>1, <3>1, <3>2
  <2> QED BY <2>2, <2>3
<1>2. CASE ComesUp
  BY <1>2 DEF ComesUp, manager, booting, polls, calls, Alive
<1>3. CASE LaunchFails
  BY <1>3 DEF LaunchFails, StopHealth, booting, calls, Alive
<1>4. CASE StartStep
  <2>1. app = "up" /\ boot # "none" /\ proc = NoProc /\ ~adopted
    BY <1>4
    DEF StartStep, Adopt, Abandon, ProbeMisses, LookForStale, ReclaimStale, Blocked, Spawn, SpawnReady, StartsAlone
  <2>2. \A c \in Client : pc[c] \notin {"adoptedPoll", "gonePoll"}
    BY <2>1
  <2>3. \A c \in Client : pc'[c] \in {pc[c], Released(pc[c])}
    BY <1>4 DEF StartStep, Adopt, AdoptEnds, Abandon, LookForStale, ReclaimStale, Blocked, Spawn, BootEnds, calls
  <2>4. \A c \in Client : pc'[c] \notin {"adoptedPoll", "gonePoll"}
    BY <2>2, <2>3 DEF Released
  <2>5. proc' # NoProc => proc' \notin asked'
    BY <1>4, <2>1 DEF StartStep, Adopt, Abandon, LookForStale, ReclaimStale, Blocked, Spawn, manager
  <2> QED BY <2>4, <2>5
<1> QED BY <1>1, <1>2, <1>3, <1>4 DEF NodeStep, Closes, SelfExit, NodeCrash, Alive

LEMMA KeepsApp ==
  ASSUME OwnInv, StopKeeps, OneCaller,
         AppStep \/ PollStep \/ Launch \/ \E c \in Client : QuitEnds(c)
  PROVE  StopKeeps'
<1> USE DEF OwnInv, TypeOK, StopKeeps
<1>1. CASE AppExits \/ AppKilled \/ Launch
  BY <1>1 DEF AppExits, AppKilled, Launch, AppReset
<1>2. CASE TimerFires
  <2>1. UNCHANGED <<life, app, proc, adopted, health, pc, asked>> /\ Alive' = Alive
    BY <1>2 DEF TimerFires, Starting, world, polls, calls, Alive
  <2>2. UNCHANGED <<state, boot>> \/ (proc = NoProc /\ ~adopted /\ state = "starting")
    BY <1>2 DEF TimerFires
  <2> QED BY <2>1, <2>2
<1>3. CASE WindowPasses
  BY <1>3 DEF WindowPasses, world, manager, booting, polls, calls, Alive
<1>4. CASE PollAnswered
  <2>1. /\ UNCHANGED <<life, app, proc, adopted, boot, health, pc, asked>> /\ Alive' = Alive
        /\ health /\ (proc # NoProc \/ adopted) /\ state \notin {"stopping", "stopped"}
    BY <1>4 DEF PollAnswered, Live, world, booting, calls, Alive
  <2> QED BY <2>1
<1>5. ASSUME NEW c \in Client, NEW o \in Operations, Ask(c, o) PROVE StopKeeps'
  <2>1. /\ UNCHANGED <<life, app, state, proc, adopted, boot, health, asked>> /\ Alive' = Alive
        /\ pc' = [pc EXCEPT ![c] = FirstStep(o)] /\ FirstStep(o) \in {"awaitStart", "callPortmap"}
    BY <1>5 DEF Ask, Goto, FirstStep, world, manager, booting, polls, Alive
  <2> QED BY <2>1
<1>6. CASE PollFails
  <2>1. /\ UNCHANGED <<life, app, proc, boot, pc, asked>> /\ Alive' = Alive
        /\ adopted /\ health /\ proc = NoProc
    BY <1>6 DEF PollFails, Live, world, booting, calls, Alive, OwnedOrAdopted
  <2> QED BY <2>1
<1> QED BY <1>1, <1>2, <1>3, <1>4, <1>5, <1>6 DEF AppStep, PollStep, QuitAgain, QuitEnds

LEMMA KeepsCall ==
  ASSUME OwnInv, StopKeeps, OneCaller, NEW c \in Client, CallStep(c) \/ SignalStep(c)
  PROVE  StopKeeps'
<1> USE DEF OwnInv, TypeOK, StopKeeps, Goto, OneCaller
<1>1. CASE CallPortmap(c) \/ PortmapStopped(c) \/ ChildGone(c)
  <2>1. UNCHANGED <<life, state, proc, adopted, boot, health, asked>> /\ Alive' = Alive
    BY <1>1 DEF CallPortmap, PortmapStopped, ChildGone, world, manager, booting, polls, Alive
  <2>2. PICK where \in {"stopNow", "portmap", "stopped"} : pc' = [pc EXCEPT ![c] = where]
    BY <1>1 DEF CallPortmap, PortmapStopped, ChildGone
  <2> QED BY <2>1, <2>2
<1>2. CASE StopNothing(c) \/ AdoptedGone(c)
  <2>1. /\ UNCHANGED <<life, proc, boot, health, asked>> /\ Alive' = Alive /\ proc = NoProc
        /\ pc' = [pc EXCEPT ![c] = "stopped"]
    BY <1>2 DEF StopNothing, AdoptedGone, world, booting, polls, Alive, OwnedOrAdopted
  <2> QED BY <2>1
<1>3. CASE StopAdopted(c)
  <2>1. UNCHANGED <<proc, adopted, boot>> /\ health' = FALSE /\ pc' = [pc EXCEPT ![c] = "adoptedPoll"] /\ adopted /\ proc = NoProc
    BY <1>3 DEF StopAdopted, booting, StopHealth
  <2> QED BY <2>1
<1>4. CASE StopChild(c)
  <2>1. UNCHANGED <<proc, adopted, boot>> /\ state' = "stopping" /\ pc' = [pc EXCEPT ![c] = "gonePoll"] /\ ~adopted /\ proc # NoProc
        /\ boot = "none"
    BY <1>4 DEF StopChild, booting, StartsAlone, OwnedOrAdopted
  <2> QED BY <2>1
<1>5. CASE Stopped(c)
  <2>1. UNCHANGED <<life, proc, adopted, health, asked>> /\ Alive' = Alive /\ (proc # NoProc => state' = state)
    BY <1>5 DEF Stopped, Start, Starting, polls, Alive
  <2>2. PICK where \in {"idle", "starting"} : pc' = [pc EXCEPT ![c] = where]
    BY <1>5 DEF Stopped, Start
  <2> QED BY <2>1, <2>2
<1>6. CASE SigTerm(c)
  <2>1. UNCHANGED <<state, proc, adopted, boot, health, pc>> /\ pc[c] = "gonePoll" /\ proc \in Alive
    BY <1>6 DEF SigTerm, manager, booting, polls
  <2>2. proc # NoProc
    BY <2>1, NodeAssumption DEF NodeAssumption, Alive
  <2> QED BY <2>1, <2>2
<1>7. CASE SigKill(c)
  <2>1. UNCHANGED <<adopted, boot, pc>> /\ pc[c] = "gonePoll" /\ proc \in Alive /\ proc' = NoProc
    BY <1>7 DEF SigKill, OnExit, booting
  <2>2. state = "stopping"
    BY <2>1, NodeAssumption DEF NodeAssumption, Alive
  <2>3. state' = "stopped"
    BY <1>7, <2>2 DEF SigKill, OnExit, Planned
  <2> QED BY <2>1, <2>3
<1> QED
  BY <1>1, <1>2, <1>3, <1>4, <1>5, <1>6, <1>7, KeepsApp DEF CallStep, SignalStep, Microtask

LEMMA KeepsNext == OwnInv /\ StopKeeps /\ [Next]_vars /\ OneCaller => StopKeeps'
<1> SUFFICES ASSUME OwnInv, StopKeeps, [Next]_vars, OneCaller PROVE StopKeeps'
  OBVIOUS
<1>1. CASE UNCHANGED vars
  BY <1>1 DEF StopKeeps, Alive, vars, world, manager, booting, polls, calls
<1> QED BY <1>1, KeepsEvents, KeepsApp, KeepsCall DEF Next

\* The child of a stop ends as planned, whatever it was that ended it.
LEMMA KeepsPlan == OwnInv /\ StopKeeps /\ [Next]_vars => StopIsNoCrash
<1> SUFFICES ASSUME OwnInv, StopKeeps, [Next]_vars, proc \in asked \cap Alive, proc' = NoProc, app' = "up"
             PROVE  state' # "error"
  BY DEF StopIsNoCrash
<1> USE DEF OwnInv, TypeOK
<1>1. proc # NoProc /\ proc' # proc /\ state = "stopping"
  BY NodeAssumption DEF NodeAssumption, Alive, StopKeeps
<1>2. ASSUME NEW code, OnExit(code) PROVE state' # "error"
  BY <1>1, <1>2 DEF OnExit, Planned
<1>3. ASSUME NEW p \in Proc, NEW code, Dies(p, code) PROVE state' # "error"
  BY <1>1, <1>2, <1>3 DEF Dies
<1>4. ASSUME NEW c \in Client, CallStep(c) \/ SignalStep(c) PROVE state' # "error"
  BY <1>1, <1>2, <1>4
  DEF CallStep, SignalStep, Microtask, CallPortmap, StopNothing, StopAdopted, StopChild, Stopped, QuitEnds, AppExits,
      PortmapStopped, AdoptedGone, ChildGone, SigTerm, SigKill, manager
<1>5. ~StartStep
  BY <1>1
  DEF StartsAlone, StartStep, Adopt, Abandon, LookForStale, ReclaimStale, Blocked, Spawn, SpawnReady, ProbeMisses
<1>6. CASE NodeStep \/ SelfExit \/ NodeCrash
  BY <1>1, <1>3, <1>6 DEF NodeStep, Closes, ComesUp, LaunchFails, SelfExit, NodeCrash, Alive, manager
<1>7. CASE AppStep \/ PollStep \/ Launch
  BY <1>1, <1>7
  DEF AppStep, PollStep, TimerFires, WindowPasses, PollAnswered, Ask, PollFails, QuitAgain, AppExits, AppKilled, Launch, AppReset, manager
<1> QED BY <1>1, <1>4, <1>5, <1>6, <1>7 DEF Next, vars, manager

\* node-manager.js:17-18: with one caller, and under every fault, the exit of a node that a
\* stop() asked to go is not reported as a crash.
THEOREM PlannedStop ==
  ASSUME OneCaller
  PROVE  Spec => PlannedStopNotCrash
<1>1. Init => OwnInv /\ StopKeeps
  BY OwnInit, KeepsInit
<1>2. OwnInv /\ StopKeeps /\ [Next]_vars => (OwnInv /\ StopKeeps)'
  BY OwnNext, KeepsNext
<1>3. OwnInv /\ StopKeeps /\ [Next]_vars => [StopIsNoCrash]_vars
  BY KeepsPlan
<1> QED BY <1>1, <1>2, <1>3, PTL DEF Spec, PlannedStopNotCrash

\* The app says "stopped" of no node that runs: of none at all, in between two steps.
StoppedIsGone == app = "up" /\ state = "stopped" => Alive = {}

LEMMA GoneStarts ==
  ASSUME NodeInv, StoppedIsGone, StartStep \/ NodeStep \/ SelfExit \/ NodeCrash
  PROVE  StoppedIsGone'
<1> USE DEF NodeInv, OwnInv, TypeOK, StoppedIsGone
<1>1. CASE Spawn
  <2>1. boot = "reclaim" /\ UNCHANGED <<app, state>>
    BY <1>1 DEF Spawn, SpawnReady
  <2> QED BY <2>1 DEF Tracked, ReclaimQuiet, StopStates
<1>2. CASE Adopt \/ Abandon \/ LookForStale \/ Blocked
  <2>1. Alive' = Alive /\ app' = app /\ state' \in {state, "error"}
    BY <1>2 DEF Adopt, Abandon, LookForStale, Blocked, world, manager, Alive
  <2> QED BY <2>1
<1>3. CASE ReclaimStale
  <2>1. Alive' \subseteq Alive /\ UNCHANGED <<app, state>>
    BY <1>3 DEF ReclaimStale, manager, Alive
  <2> QED BY <2>1
<1>4. CASE ComesUp \/ LaunchFails
  <2>1. Alive' = Alive /\ app' = app /\ state' \in {state, "error"}
    BY <1>4 DEF ComesUp, LaunchFails, world, manager, Alive
  <2> QED BY <2>1
<1>5. ASSUME NEW p \in Proc, NEW code, Dies(p, code) PROVE StoppedIsGone'
  <2>1. Alive' \subseteq Alive \ {p} /\ app' = app
    BY <1>5 DEF Dies, Alive
  <2>2. CASE p = proc
    BY <2>1, <2>2, NodeAssumption DEF NodeAssumption, Tracked, PidfileKnows
  <2>3. CASE p # proc
    BY <1>5, <2>1, <2>3 DEF Dies
  <2> QED BY <2>2, <2>3
<1> QED BY <1>1, <1>2, <1>3, <1>4, <1>5 DEF StartStep, NodeStep, Closes, SelfExit, NodeCrash, Alive

LEMMA GoneCalls ==
  ASSUME NodeInv, StopKeeps, StoppedIsGone, Faults \subseteq Contained,
         AppStep \/ PollStep \/ Launch \/ \E c \in Client : CallStep(c) \/ SignalStep(c)
  PROVE  StoppedIsGone'
<1> USE DEF NodeInv, OwnInv, TypeOK, StoppedIsGone
<1>1. CASE AppExits \/ AppKilled \/ Launch
  BY <1>1 DEF AppExits, AppKilled, Launch, AppReset
<1>2. CASE TimerFires \/ WindowPasses \/ PollAnswered \/ PollFails
  <2>1. Alive' = Alive /\ app' = app /\ state' \in {state, "starting", "running", "error"}
    BY <1>2 DEF TimerFires, Starting, WindowPasses, PollAnswered, PollFails, world, manager, Alive
  <2> QED BY <2>1
<1>3. ASSUME NEW c \in Client, NEW o \in Operations, Ask(c, o) PROVE StoppedIsGone'
  BY <1>3 DEF Ask, world, manager, Alive
<1>4. ASSUME NEW c \in Client, CallPortmap(c) \/ PortmapStopped(c) \/ ChildGone(c) \/ Stopped(c)
      PROVE  StoppedIsGone'
  <2>1. Alive' = Alive /\ app' = app /\ state' \in {state, "starting"}
    BY <1>4 DEF CallPortmap, PortmapStopped, ChildGone, Stopped, Start, Starting, world, manager, Alive
  <2> QED BY <2>1
<1>5. ASSUME NEW c \in Client, StopNothing(c) PROVE StoppedIsGone'
  <2>1. Alive' = Alive /\ Past(c) /\ proc = NoProc /\ ~adopted
    BY <1>5 DEF StopNothing, world, Alive, Past
  <2> QED BY <2>1, KnownPast
<1>6. ASSUME NEW c \in Client, AdoptedGone(c) PROVE StoppedIsGone'
  <2>1. Alive' = Alive /\ adopted
    BY <1>6 DEF AdoptedGone, world, Alive, StopKeeps
  <2> QED BY <1>6, <2>1, PollSawItGo
<1>7. ASSUME NEW c \in Client, StopAdopted(c) \/ StopChild(c) PROVE StoppedIsGone'
  BY <1>7 DEF StopAdopted, StopChild
<1>8. ASSUME NEW c \in Client, SigTerm(c) PROVE StoppedIsGone'
  <2>1. proc \in Alive /\ UNCHANGED <<app, state>>
    BY <1>8 DEF SigTerm, manager
  <2> QED BY <2>1
<1>9. ASSUME NEW c \in Client, SigKill(c) PROVE StoppedIsGone'
  <2>1. proc \in Alive /\ app' = app /\ life' = [life EXCEPT ![proc] = "none"]
    BY <1>9 DEF SigKill
  <2>2. Alive' = {}
    BY <2>1, NodeAssumption DEF NodeAssumption, Alive, Tracked, PidfileKnows
  <2> QED BY <2>2
<1> QED
  BY <1>1, <1>2, <1>3, <1>4, <1>5, <1>6, <1>7, <1>8, <1>9
  DEF AppStep, PollStep, QuitAgain, CallStep, Microtask, SignalStep, QuitEnds

LEMMA GoneNext ==
  NodeInv /\ StopKeeps /\ StoppedIsGone /\ [Next]_vars /\ Faults \subseteq Contained => StoppedIsGone'
<1> SUFFICES ASSUME NodeInv, StopKeeps, StoppedIsGone, [Next]_vars, Faults \subseteq Contained
             PROVE  StoppedIsGone'
  OBVIOUS
<1>1. CASE UNCHANGED vars
  BY <1>1 DEF StoppedIsGone, Alive, vars, world, manager
<1> QED BY <1>1, GoneStarts, GoneCalls DEF Next

\* node-manager.js:347, 415-426: with one caller, and under the faults that the app contains,
\* "stopped" means that no node is left.
THEOREM StoppedHonestly ==
  ASSUME OneCaller, Faults \subseteq Contained
  PROVE  Spec => []HonestStopped
<1>1. Init => NodeInv /\ StopKeeps /\ StoppedIsGone
  BY NodeInit, KeepsInit DEF Init, StoppedIsGone, Alive
<1>2. NodeInv /\ StopKeeps /\ StoppedIsGone /\ [Next]_vars => (NodeInv /\ StopKeeps /\ StoppedIsGone)'
  BY NodeNext, KeepsNext, GoneNext DEF NodeInv
<1>3. StoppedIsGone => HonestStopped
  BY DEF StoppedIsGone, HonestStopped, Idle
<1> QED BY <1>1, <1>2, <1>3, PTL DEF Spec
================================================================================
