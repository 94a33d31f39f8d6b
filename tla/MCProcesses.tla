------------------------------ MODULE MCProcesses ------------------------------
(***************************************************************************)
(* The instances, for TLC, of what the app's processes keep. Of the main    *)
(* process: two instances of its node process manager - two callers under   *)
(* the faults that the app contains, and one caller under every fault -,    *)
(* how it finds and adopts a node when it starts, the startup parameters,   *)
(* the updater, the versions it compares and the icons it caches. Of the    *)
(* sidecar of Keets: its wire format and its store of media.                *)
(*                                                                         *)
(* Each module has its own copy of what it needs of the others; a behaviour *)
(* is one of one part, `part`, while the others keep their first state.     *)
(***************************************************************************)
EXTENDS NodeLifecycle, Launch, Startup, Updater, Versions, Icons, Wire, Media, TLC

CONSTANTS p1, p2, c1, c2

Procs == {p1, p2}
OneCall == {c1}
TwoCalls == {c1, c2}
Symmetry == Permutations(Procs) \cup Permutations(TwoCalls)

\* Words of one digit and of two, trailing zeros, and the ninth word where the text of two
\* versions is compared (FirstWord).
MCSamples ==
  {<<0>>, <<1>>} \cup ({0, 1} \X {0, 1, 8, 9}) \cup ({1} \X {0, 1} \X {8, 9})
    \cup {<<1, 8>>, <<1, 8, 0>>, <<1, 8, 8>>, <<1, 0, 8, 1>>, <<1, 0, 8, 0>>}

\* The process manager once more: one caller, every fault.
Faulty == INSTANCE NodeLifecycle WITH Client <- OneCall, Faults <- FaultClasses

VARIABLE part

mainVars == <<launchVars, startupVars, updaterVars, versionsVars, iconVars>>
sidecarVars == <<wireVars, mediaVars>>
processVars == <<vars, mainVars, sidecarVars, part>>

ProcessInit ==
  /\ part \in {"overlap", "faults", "launch", "startup", "updater", "versions", "icons", "wire", "media"}
  /\ IF part = "faults" THEN Faulty!Init ELSE Init
  /\ part \notin {"overlap", "faults"} => nodeKind = "minima"
  /\ LaunchInit /\ (part # "launch" => launchSettings = CHOOSE s \in [port : Port, folder : Folder] : TRUE)
  /\ part # "launch" => foreign = {}
  /\ StartupInit /\ (part # "startup" => jar = "minima")
  /\ UpdaterInit /\ (part # "updater" => feed.version = 1)
  /\ VersionsInit /\ (part # "versions" => triple = << <<0>>, <<0>>, <<0>> >>)
  /\ IconsInit
  /\ WireInit /\ (part # "wire" => acceptor = "sidecar" /\ plan = << >> /\ junk = {})
  /\ MediaInit /\ (part # "media" => pins = {})

\* The node may not come to rest; what the app is asked to do may.
ProcessNext ==
  \/ part = "overlap" /\ Next /\ UNCHANGED <<mainVars, sidecarVars, part>>
  \/ part = "faults" /\ Faulty!Next /\ UNCHANGED <<mainVars, sidecarVars, part>>
  \/ /\ part = "launch" /\ LaunchNext
     /\ UNCHANGED <<vars, startupVars, updaterVars, versionsVars, iconVars, sidecarVars, part>>
  \/ /\ part = "startup" /\ StartupNext
     /\ UNCHANGED <<vars, launchVars, updaterVars, versionsVars, iconVars, sidecarVars, part>>
  \/ /\ part = "updater" /\ UpdaterNext
     /\ UNCHANGED <<vars, launchVars, startupVars, versionsVars, iconVars, sidecarVars, part>>
  \/ /\ part = "versions" /\ VersionsNext
     /\ UNCHANGED <<vars, launchVars, startupVars, updaterVars, iconVars, sidecarVars, part>>
  \/ /\ part = "icons" /\ IconsNext
     /\ UNCHANGED <<vars, launchVars, startupVars, updaterVars, versionsVars, sidecarVars, part>>
  \/ part = "wire" /\ WireNext /\ UNCHANGED <<vars, mainVars, mediaVars, part>>
  \/ part = "media" /\ MediaNext /\ UNCHANGED <<vars, mainVars, wireVars, part>>
  \/ part \notin {"overlap", "faults", "versions"} /\ UNCHANGED processVars

ProcessSpec == ProcessInit /\ [][ProcessNext]_processVars

\* OneNode and RunsConfiguredKind, under the faults that the app contains: those of calls
\* that overlap (node-manager.js:347, 415-426, 442-443).
OneConfiguredNode ==
  /\ IF part = "faults" THEN Faulty!TypeOK ELSE TypeOK
  /\ part = "overlap" => OneNode /\ RunsConfiguredKind

\* PlannedStopNotCrash, under every fault but with one caller (node-manager.js:17-18).
FaultsPlannedStopNotCrash == [][part = "faults" => Faulty!StopIsNoCrash]_vars

\* The node runs as it was saved (main.js:330-347, startup.js:86-116): one node for a data
\* folder, over changes of its port and deaths of the app; none outlives the app; with the
\* parameters saved last, which are none that are refused, and with its secret.
StartsAsSaved ==
  /\ [](LaunchTypeOK /\ FolderHasOneNode) /\ NoNodeOutlives
  /\ [](StartupTypeOK /\ MarkerHasSecret /\ RunsWhatWasSaved) /\ NothingRefusedSaved

\* What the app and the sidecar keep is so (updater.js:83, versions.js:8-32, iconcache.js:16,
\* media.js:121-139, 307-318): the file that was downloaded is the one announced, an update is
\* to a newer version, an icon is of the version it is shown for, and the media that are served
\* belong to the store that is open, until none is.
KeptHonest ==
  /\ UpdaterTypeOK /\ IconsTypeOK /\ DownloadedIsAnnounced /\ VersionsOrdered /\ StaleForAReason
  /\ MediaTypeOK /\ OfTheStore /\ MediaReleased

\* The bytes of a service connection (wire.js:41-56): frames come out as they went in wherever
\* they are cut, and nobody whose frames are legal is thrown out.
FramesSound == WireTypeOK /\ FramesExact /\ NeverCut
================================================================================
