-------------------------------- MODULE Launch --------------------------------
(***************************************************************************)
(* Settings -> Startup parameters, applied (main.js "params:apply",          *)
(* startup.js), with the node they are for.  A new Minima port is saved at   *)
(* once, and from then on every command goes to the new port; the node that  *)
(* runs stays on the old one until the app, 300 ms later, stops it and        *)
(* relaunches itself.  start(), stop() and the reclaim of NodeLifecycle      *)
(* appear here as one step each: what matters is which port and which folder *)
(* they look at.                                                            *)
(***************************************************************************)
EXTENDS Integers, FiniteSets

CONSTANTS
  Program, NoProgram,  \* node processes; none
  Port, Folder,  \* Minima ports; data folders
  MaxAppKills, MaxHangs, MaxApplies \* bounds

ASSUME LaunchAssumption ==
  NoProgram \notin Program /\ {MaxAppKills, MaxHangs, MaxApplies} \subseteq Nat

VARIABLES
  launchSettings, foreign,    \* config.json: the port and the folder; ports that another program holds
  process,              \* each node process: does it run, with which port and folder, does it answer
  child, adoptee,       \* this.proc; this.adopted
  pidOnDisk,              \* node.pid
  doing,                \* what the app does
  relaunching,          \* the 300 ms timer of "params:apply"
  orphaned,             \* history: a node was left that neither its port nor its folder leads to
  appKills, hangs, applies

launchVars == <<launchSettings, foreign, process, child, adoptee, pidOnDisk, doing, relaunching,
                orphaned, appKills, hangs, applies>>
launchHistory == <<orphaned, appKills, hangs, applies>>

Off == [on |-> FALSE, port |-> CHOOSE p \in Port : TRUE, folder |-> CHOOSE f \in Folder : TRUE, answers |-> FALSE]

LaunchTypeOK ==
  /\ launchSettings \in [port : Port, folder : Folder] /\ foreign \subseteq Port
  /\ process \in [Program -> [on : BOOLEAN, port : Port, folder : Folder, answers : BOOLEAN]]
  /\ child \in Program \cup {NoProgram} /\ adoptee \in BOOLEAN /\ pidOnDisk \in Program \cup {NoProgram}
  /\ doing \in {"start", "idle", "restart", "relaunch", "quit", "leave", "dead"}
  /\ relaunching \in BOOLEAN /\ orphaned \in BOOLEAN
  /\ appKills \in 0..MaxAppKills /\ hangs \in 0..MaxHangs /\ applies \in 0..MaxApplies

LaunchInit ==
  /\ launchSettings \in [port : Port, folder : Folder] /\ foreign \in SUBSET Port /\ process = [n \in Program |-> Off]
  /\ child = NoProgram /\ adoptee = FALSE /\ pidOnDisk = NoProgram /\ doing = "start" /\ relaunching = FALSE
  /\ orphaned = FALSE /\ appKills = 0 /\ hangs = 0 /\ applies = 0

Running == {n \in Program : process[n].on}
Answerers == {n \in Running : process[n].answers /\ process[n].port = launchSettings.port}
Listeners == {n \in Running : process[n].port = launchSettings.port}
Gone(dead) == process' = [n \in Program |-> IF n \in dead THEN Off ELSE process[n]]

-----------------------------------------------------------------------------
(* Settings.                                                                *)

\* A validated patch is saved; the port decides between a restart and a relaunch. A new port
\* has all that follows look for an adopted node where it is not.
ApplyPatch ==
  /\ doing = "idle" /\ ~relaunching /\ applies < MaxApplies /\ applies' = applies + 1
  /\ \E next \in [port : Port, folder : Folder] :
       /\ launchSettings' = next
       /\ orphaned' = (orphaned \/ (adoptee /\ next.port # launchSettings.port))
       /\ IF next.port # launchSettings.port
            THEN relaunching' = TRUE /\ UNCHANGED doing
            ELSE doing' = "restart" /\ UNCHANGED relaunching
  /\ UNCHANGED <<foreign, process, child, adoptee, pidOnDisk, appKills, hangs>>

\* 300 ms later.
RelaunchTimer ==
  /\ relaunching /\ doing = "idle" /\ doing' = "relaunch" /\ relaunching' = FALSE
  /\ UNCHANGED <<launchSettings, foreign, process, child, adoptee, pidOnDisk, launchHistory>>

QuitApp ==
  /\ doing = "idle" /\ ~relaunching /\ doing' = "quit"
  /\ UNCHANGED <<launchSettings, foreign, process, child, adoptee, pidOnDisk, relaunching, launchHistory>>

-----------------------------------------------------------------------------
(* The node.                                                                *)

Stopping == doing \in {"restart", "relaunch", "quit"}
AfterStop == doing' = IF doing = "restart" THEN "start" ELSE "leave"

\* stop() of a child: `quit`, which may go to the wrong port, and then the signals, which do not miss.
StopsChild ==
  /\ Stopping /\ child # NoProgram /\ Gone({child}) /\ child' = NoProgram
  /\ pidOnDisk' = NoProgram /\ AfterStop
  /\ UNCHANGED <<launchSettings, foreign, adoptee, relaunching, launchHistory>>

\* An adopted node is left to itself.
BadAdopteeGone == {}

\* The adopted node is whoever answers at the port.
AdopteeGone == IF adoptee THEN Answerers ELSE {}

\* stop() of an adopted node: `quit`, until nothing answers at the port that is configured by now.
StopsAdopted ==
  /\ Stopping /\ child = NoProgram /\ Gone(AdopteeGone) /\ adoptee' = FALSE /\ AfterStop
  /\ UNCHANGED <<launchSettings, foreign, child, pidOnDisk, relaunching, launchHistory>>

\* The pidfile is not read.
BadCandidates == Listeners

\* reclaimStaleNode(): the node of the pidfile, and whoever listens on the port.
Candidates == ({pidOnDisk} \cap Running) \cup Listeners
Ours(n) == process[n].folder = launchSettings.folder \/ process[n].port = launchSettings.port

\* A node answers at the port: it is adopted, whatever folder it was started with.
StartAdopts ==
  /\ doing = "start" /\ Answerers # {} /\ adoptee' = TRUE /\ doing' = "idle"
  /\ UNCHANGED <<launchSettings, foreign, process, child, pidOnDisk, relaunching, launchHistory>>

\* None does: the candidates that are ours are stopped, and a node is spawned ...
StartSpawns ==
  /\ doing = "start" /\ Answerers = {} /\ launchSettings.port \notin foreign /\ \A n \in Candidates : Ours(n)
  /\ \E n \in Program \ (Running \ Candidates) :
       /\ process' = [m \in Program |-> IF m = n THEN [on |-> TRUE, port |-> launchSettings.port, folder |-> launchSettings.folder, answers |-> TRUE]
                                    ELSE IF m \in Candidates THEN Off ELSE process[m]]
       /\ child' = n /\ pidOnDisk' = n
  /\ doing' = "idle"
  /\ UNCHANGED <<launchSettings, foreign, adoptee, relaunching, launchHistory>>

\* ... unless one of them is not ours: "port in use". The node of the pidfile is looked at first.
StartBlocked ==
  LET named == {pidOnDisk} \cap Running
      ours == {n \in Candidates : Ours(n)}
  IN /\ doing = "start" /\ Answerers = {} /\ (launchSettings.port \in foreign \/ ours # Candidates)
     /\ IF named \subseteq ours THEN \E more \in SUBSET ours : Gone(named \cup more) ELSE UNCHANGED process
  /\ doing' = "idle"
  /\ UNCHANGED <<launchSettings, foreign, child, adoptee, pidOnDisk, relaunching, launchHistory>>

\* The app leaves: killNow(), and it may be launched again.
AppLeaves ==
  /\ doing = "leave" /\ doing' = "dead" /\ Gone({child} \cap Program) /\ child' = NoProgram
  /\ adoptee' = FALSE /\ pidOnDisk' = NoProgram
  /\ UNCHANGED <<launchSettings, foreign, relaunching, launchHistory>>

\* SIGKILL of the app: its node runs on. One that was to be moved to another port and folder is
\* on neither.
AppDies ==
  /\ doing # "dead" /\ appKills < MaxAppKills /\ appKills' = appKills + 1
  /\ orphaned' = (orphaned \/ (child # NoProgram /\ ~Ours(child)))
  /\ doing' = "dead" /\ child' = NoProgram /\ adoptee' = FALSE /\ relaunching' = FALSE
  /\ UNCHANGED <<launchSettings, foreign, process, pidOnDisk, hangs, applies>>

AppLaunches ==
  /\ doing = "dead" /\ doing' = "start"
  /\ UNCHANGED <<launchSettings, foreign, process, child, adoptee, pidOnDisk, relaunching, launchHistory>>

\* A node stops answering, or exits by itself.
NodeHangs ==
  /\ hangs < MaxHangs /\ hangs' = hangs + 1
  /\ \E n \in Running : process[n].answers /\ process' = [process EXCEPT ![n].answers = FALSE]
  /\ UNCHANGED <<launchSettings, foreign, child, adoptee, pidOnDisk, doing, relaunching, orphaned, appKills, applies>>

NodeExits ==
  /\ \E n \in Running :
       /\ Gone({n})
       /\ IF n = child THEN child' = NoProgram /\ pidOnDisk' = NoProgram ELSE UNCHANGED <<child, pidOnDisk>>
  /\ UNCHANGED <<launchSettings, foreign, adoptee, doing, relaunching, launchHistory>>

LaunchNext ==
  \/ ApplyPatch \/ RelaunchTimer \/ QuitApp \/ StopsChild \/ StopsAdopted
  \/ StartAdopts \/ StartSpawns \/ StartBlocked \/ AppLeaves \/ AppDies \/ AppLaunches
  \/ NodeHangs \/ NodeExits

LaunchSpec == LaunchInit /\ [][LaunchNext]_launchVars

-----------------------------------------------------------------------------
(* Properties.                                                              *)

\* No two nodes ever run on one data folder, wherever they listen: not when the settings move the node to
\* another port, nor when the app dies between saving them and stopping the node that they were for -
\* unless a node was orphaned before: an adopted one by a new port, or the app's own when the app died with
\* a new port and a new folder saved and the node not yet stopped.
FolderHasOneNode ==
  orphaned \/ \A m, n \in Running : m # n => process[m].folder # process[n].folder

NothingLeft == \A n \in Program : ~(process'[n].on /\ process'[n].answers)

\* main.js:472: when the app leaves by itself, to quit or to relaunch on another port, no node that still
\* answers is left behind, whatever was killed, hung or reclaimed before - unless a node was orphaned.
NoNodeOutlives == [][doing = "leave" /\ doing' = "dead" /\ ~orphaned => NothingLeft]_launchVars

\* main.js:472 "The node must never outlive the app: before-quit stops it gracefully": the same of every
\* node, the adopted one whose port was changed included.
NeverOutlives == [][doing = "leave" /\ doing' = "dead" => NothingLeft]_launchVars
=============================================================================
