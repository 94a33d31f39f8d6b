------------------------------- MODULE Transfers -------------------------------
(***************************************************************************)
(* resources/keets-sidecar/media.js: the private transfers.  Each has a     *)
(* Corestore of its own, so that to stop one stops the replication of what  *)
(* it held.  What is done to them is queued: one job at a time (serial()).  *)
(***************************************************************************)
EXTENDS Integers, FiniteSets, SequencesExt

CONSTANTS
  Slot,          \* transfers: own ones and those received
  LIMIT,         \* transfers that are remembered: 128
  MaxJobs,       \* bound: jobs that wait or run
  MaxSaveFails   \* bound: writes of the file that fail

ASSUME TransfersAssumption == LIMIT \in Nat /\ MaxJobs \in Nat /\ MaxSaveFails \in Nat

VARIABLES
  records,    \* privateRecords: is each there, and shared
  onDisk,     \* private-transfers.json
  privateOpen,  \* the open ones
  isolated,   \* Corestores of a slot that are not closed
  jobs,       \* privateQueue: the first one runs
  running,    \* what the jobs that have begun wait for
  isUp, shuts,  \* the process; close(): not asked, asked, done
  stopped,    \* history: slots whose last order that was carried out is a stop
  saveFails   \* history

transferVars == <<records, onDisk, privateOpen, isolated, jobs, running, isUp, shuts, stopped, saveFails>>

None == "none"
Op == {"use", "share", "stop", "forget", "start"}
Job == [op : Op, slot : Slot]

TransfersTypeOK ==
  /\ records \in [Slot -> {None, "shared", "paused"}] /\ onDisk \in [Slot -> {None, "shared", "paused"}]
  /\ privateOpen \subseteq Slot /\ isolated \in [Slot -> 0..MaxJobs]
  /\ jobs \in Seq(Job) /\ Len(jobs) <= MaxJobs
  /\ running \in [Job -> {"no", "opening", "leaving"}]
  /\ isUp \in BOOLEAN /\ shuts \in {"no", "asked", "done"}
  /\ stopped \subseteq Slot /\ saveFails \in 0..MaxSaveFails

TransfersInit ==
  /\ records = [s \in Slot |-> None] /\ onDisk = records
  /\ privateOpen = {} /\ isolated = [s \in Slot |-> 0]
  /\ jobs = <<>> /\ running = [j \in Job |-> "no"] /\ isUp = TRUE /\ shuts = "no"
  /\ stopped = {} /\ saveFails = 0

\* A job is asked for by the API, each at most once at a time; a start is asked
\* for by every /info, for all slots (here one by one).
Queue(j) ==
  /\ isUp /\ shuts # "done" /\ Len(jobs) < MaxJobs /\ j \notin ToSet(jobs)
  /\ jobs' = Append(jobs, j)
  /\ UNCHANGED <<records, onDisk, privateOpen, isolated, running, isUp, shuts, stopped, saveFails>>

\* Any job runs.
BadTurn(j) == j \in ToSet(jobs)

Turn(j) == jobs # <<>> /\ jobs[1] = j

Replies(j) == jobs' = Tail(jobs) /\ running' = [running EXCEPT ![j] = "no"]
JobAwaits(j, what) == running' = [running EXCEPT ![j] = what] /\ UNCHANGED jobs

\* savePrivate(): the file is replaced as a whole, or the write throws.
Saved == onDisk' = records' /\ UNCHANGED saveFails
SaveThrows == saveFails < MaxSaveFails /\ saveFails' = saveFails + 1 /\ UNCHANGED onDisk

\* openPrivate() up to its first await.
OpensDrive(j) ==
  IF j.slot \in privateOpen THEN Replies(j) /\ UNCHANGED isolated
  ELSE JobAwaits(j, "opening") /\ isolated' = [isolated EXCEPT ![j.slot] = @ + 1]

Remembered == {s \in Slot : records[s] # None}

\* privateDrive() of a publish or a fetch, and the start of the sidecar.
Use(j) ==
  LET s == j.slot
      full == j.op = "use" /\ records[s] = None /\ Cardinality(Remembered) >= LIMIT
      refused == records[s] = "paused" \/ full \/ (j.op = "start" /\ records[s] = None)
  IN /\ j.op \in {"use", "start"}
     /\ IF refused
          THEN Replies(j) /\ UNCHANGED <<records, isolated, stopped>>
          ELSE /\ records' = [records EXCEPT ![s] = "shared"] /\ OpensDrive(j)
               /\ stopped' = IF records[s] = None THEN stopped \ {s} ELSE stopped
     /\ UNCHANGED <<onDisk, privateOpen, saveFails>>

\* privateSharing(true).
Share(j) ==
  LET s == j.slot
  IN /\ j.op = "share"
     /\ IF records[s] = None THEN Replies(j) /\ UNCHANGED <<records, onDisk, isolated, stopped, saveFails>>
        ELSE /\ records' = [records EXCEPT ![s] = "shared"] /\ stopped' = stopped \ {s}
             /\ \/ Saved /\ OpensDrive(j)
                \/ SaveThrows /\ Replies(j) /\ UNCHANGED isolated
     /\ UNCHANGED privateOpen

\* privateSharing(false): the intent is saved before a socket is closed.
StopSharing(j) ==
  LET s == j.slot
  IN /\ j.op = "stop"
     /\ records' = [records EXCEPT ![s] = IF @ = None THEN None ELSE "paused"]
     /\ IF records[s] = None
          THEN Replies(j) /\ stopped' = stopped \cup {s} /\ UNCHANGED <<onDisk, saveFails>>
        ELSE \/ SaveThrows /\ Replies(j) /\ UNCHANGED stopped
             \/ /\ Saved
                /\ IF s \in privateOpen THEN JobAwaits(j, "leaving") /\ UNCHANGED stopped
                   ELSE Replies(j) /\ stopped' = stopped \cup {s}
     /\ UNCHANGED <<privateOpen, isolated>>

\* forgetPrivate(): only what is stopped; its files go before its record.
Forget(j) ==
  LET s == j.slot
  IN /\ j.op = "forget" /\ Replies(j)
     /\ IF records[s] = "paused" /\ s \notin privateOpen
          THEN records' = [records EXCEPT ![s] = None] /\ (Saved \/ SaveThrows)
          ELSE UNCHANGED <<records, onDisk, saveFails>>
     /\ UNCHANGED <<privateOpen, isolated, stopped>>

\* A job begins - or is refused, because the sidecar is closing.
Runs(j) ==
  /\ isUp /\ Turn(j) /\ running[j] = "no"
  /\ IF shuts # "no"
       THEN Replies(j) /\ UNCHANGED <<records, onDisk, privateOpen, isolated, stopped, saveFails>>
       ELSE Use(j) \/ Share(j) \/ StopSharing(j) \/ Forget(j)
  /\ UNCHANGED <<isUp, shuts>>

\* The drive is ready, or not; its key is saved, or the store closed again.
Opened(j) ==
  LET s == j.slot
      fails == isolated' = [isolated EXCEPT ![s] = @ - 1] /\ UNCHANGED privateOpen
  IN /\ isUp /\ running[j] = "opening" /\ Replies(j)
     /\ \/ shuts = "no" /\ privateOpen' = privateOpen \cup {s} /\ onDisk' = records /\ UNCHANGED <<isolated, saveFails>>
        \/ shuts = "no" /\ SaveThrows /\ fails
        \/ fails /\ UNCHANGED <<onDisk, saveFails>>
     /\ UNCHANGED <<records, isUp, shuts, stopped>>

\* The topic is left and the store closed - or one of them is refused.
Left(j) ==
  LET s == j.slot
  IN /\ isUp /\ running[j] = "leaving" /\ Replies(j)
     /\ \/ /\ isolated' = [isolated EXCEPT ![s] = @ - 1] /\ privateOpen' = privateOpen \ {s}
           /\ stopped' = stopped \cup {s}
        \/ UNCHANGED <<isolated, privateOpen, stopped>>
     /\ UNCHANGED <<records, onDisk, isUp, shuts, saveFails>>

ShutAsked ==
  /\ isUp /\ shuts = "no" /\ shuts' = "asked"
  /\ UNCHANGED <<records, onDisk, privateOpen, isolated, jobs, running, isUp, stopped, saveFails>>

\* It does not wait for the queue.
BadQueueDone == shuts = "asked"

QueueDone == shuts = "asked" /\ jobs = <<>>

ShutEnds ==
  /\ isUp /\ QueueDone /\ shuts' = "done"
  /\ isolated' = [s \in Slot |-> IF s \in privateOpen THEN isolated[s] - 1 ELSE isolated[s]]
  /\ privateOpen' = {}
  /\ UNCHANGED <<records, onDisk, jobs, running, isUp, stopped, saveFails>>

Crash ==
  /\ isUp /\ isUp' = FALSE /\ shuts' = "no"
  /\ records' = [s \in Slot |-> None] /\ privateOpen' = {} /\ isolated' = [s \in Slot |-> 0]
  /\ jobs' = <<>> /\ running' = [j \in Job |-> "no"] /\ UNCHANGED <<onDisk, stopped, saveFails>>

Reboot ==
  /\ ~isUp /\ isUp' = TRUE /\ records' = onDisk
  /\ UNCHANGED <<onDisk, privateOpen, isolated, jobs, running, shuts, stopped, saveFails>>

TransfersNext ==
  \/ \E j \in Job : Queue(j) \/ Runs(j) \/ Opened(j) \/ Left(j)
  \/ ShutAsked \/ ShutEnds \/ Crash \/ Reboot

TransfersSpec == TransfersInit /\ [][TransfersNext]_transferVars

-----------------------------------------------------------------------------
\* media.js:61-62, 278: a transfer whose stop was answered is not served, whichever
\* jobs were queued around it, and a crash does not bring it back, if a writing of the
\* file has failed or not.  It can if two have: that of a stop, and that of the removal
\* after it; the next stop is answered because there is no record any more.
StopSticks ==
  saveFails <= 1 => \A s \in stopped : isolated[s] = 0 /\ onDisk[s] # "shared"

\* media.js:309-318: when the host is told so, no store of a transfer is open, and
\* none is opened after it.
TransfersReleased == shuts = "done" => \A s \in Slot : isolated[s] = 0
================================================================================
