-------------------------------- MODULE PortMap --------------------------------
(***************************************************************************)
(* src/main/portmap.js: the router mapping of a node that contributes.      *)
(*                                                                          *)
(* start() and stop() are called without regard for one another, and each   *)
(* run of cycle() goes on across awaits while others begin: a run is stale  *)
(* once `gen` has moved on.  Here `gen` names the current run, a run being   *)
(* one of a few slots that are used again.  The client a run creates goes   *)
(* by the slot's name.                                                      *)
(*                                                                          *)
(* One port: a new base port comes with a restart of the node, and that     *)
(* stops the mapping first.  An `await` of a promise that is settled        *)
(* already is not a step of its own.                                        *)
(***************************************************************************)
EXTENDS Integers, FiniteSets

CONSTANTS
  Cycle,     \* bound: the runs of cycle() and the clients there can be at a time
  NoCycle,   \* null
  Stopper,   \* bound: the calls of stop() in progress at a time
  Faults     \* what may go wrong: a subset of FaultClasses

FaultClasses ==
  { "import",     \* the library cannot be loaded
    "noGateway",  \* the router does not answer
    "refused",    \* the router refuses the mapping
    "moved",      \* the external address is another one than before
    "slowRouter" }\* the router is slower to unmap than to do anything else

ASSUME PortMapAssumption == NoCycle \notin Cycle /\ Faults \subseteq FaultClasses

VARIABLES
  enabled, gen, client, state, externalIp,   \* PortMapper's fields
  pc,        \* where each run of cycle(), or what it left behind, is
  awaits,    \* the client whose destruction a run or a stop() waits for
  life,      \* of each client: "none", "open", "destroying"
  holds,     \* the clients that the router has granted the mapping
  stopping,  \* the calls of stop() that wait
  router,    \* the router forwards the port to this machine
  late       \* history: the router did something else while it had to unmap

fields  == <<enabled, gen, client, state, externalIp>>
clients == <<client, life, holds>>
waits   == <<awaits, stopping>>
vars    == <<fields, pc, waits, life, holds, router, late>>

\* "retry": the retry timer is set; "watch": the watchdog is; "probe": its
\* callback waits for the external address, the watchdog still being set.
PCs == {"idle", "teardown", "import", "ip", "map", "retry", "watch", "probe"}
States == {"off", "searching", "mapped", "no_gateway", "mapping_refused",
           "double_nat", "error"}

\* The types, and that only the current run has a timer.
TypeOK ==
  /\ enabled \in BOOLEAN /\ gen \in Cycle \cup {NoCycle}
  /\ client \in Cycle \cup {NoCycle} /\ state \in States
  /\ externalIp \in {"none", "public", "private"}
  /\ pc \in [Cycle -> PCs]
  /\ awaits \in [Cycle \cup Stopper -> Cycle \cup {NoCycle}]
  /\ life \in [Cycle -> {"none", "open", "destroying"}]
  /\ holds \subseteq Cycle /\ stopping \subseteq Stopper
  /\ router \in BOOLEAN /\ late \in BOOLEAN
  /\ \A c \in Cycle : pc[c] \in {"retry", "watch"} => c = gen

Init ==
  /\ enabled = FALSE /\ gen = NoCycle /\ client = NoCycle
  /\ state = "off" /\ externalIp = "none"
  /\ pc = [c \in Cycle |-> "idle"]
  /\ awaits = [x \in Cycle \cup Stopper |-> NoCycle]
  /\ life = [c \in Cycle |-> "none"] /\ holds = {}
  /\ stopping = {} /\ router = FALSE /\ late = FALSE

\* A slot that nothing refers to any more.
Free(c) ==
  /\ pc[c] = "idle" /\ life[c] = "none" /\ c # gen
  /\ \A x \in Cycle \cup Stopper : awaits[x] # c

\* Any run will do, as long as the mapping is wanted.
BadCurrent(c) == enabled

\* A run that no stop() and no other run has overtaken.
Current(c) == enabled /\ gen = c

-----------------------------------------------------------------------------
(* Beginning and ending.                                                    *)

\* A timer that is never cleared.
BadClearTimers == pc

\* clearTimers(): no retry, no watchdog; a callback that waits goes on waiting.
ClearTimers == [d \in Cycle |-> IF pc[d] \in {"retry", "watch"} THEN "idle" ELSE pc[d]]

\* teardown(), up to its await.
Teardown(who) ==
  /\ client' = NoCycle
  /\ life' = [d \in Cycle |-> IF d = client THEN "destroying" ELSE life[d]]
  /\ awaits' = [awaits EXCEPT ![who] = client]

\* cycle(), up to its first await that waits: `over` is what is left of the
\* callback that calls it.
NewCycle(over) ==
  \E c \in Cycle :
    /\ Free(c)
    /\ gen' = c
    /\ Teardown(c)
    /\ pc' = [d \in Cycle |-> IF d = c THEN IF client = NoCycle THEN "import" ELSE "teardown"
                              ELSE IF d \in over THEN "idle" ELSE ClearTimers[d]]
    /\ state' = IF client = NoCycle THEN "searching" ELSE state

\* start(port): nothing to do if a mapping is there or sought.
Start ==
  /\ ~(enabled /\ state \in {"mapped", "double_nat", "searching"})
  /\ enabled' = TRUE
  /\ NewCycle({})
  /\ UNCHANGED <<externalIp, holds, stopping, router, late>>

Off == externalIp' = "none" /\ state' = "off"

\* stop(), up to its await, which is only a wait if there is a client.
Stop(s) ==
  /\ s \notin stopping
  /\ enabled' = FALSE /\ gen' = NoCycle
  /\ pc' = ClearTimers
  /\ Teardown(s)
  /\ IF client = NoCycle
       THEN Off /\ UNCHANGED stopping
       ELSE stopping' = stopping \cup {s} /\ UNCHANGED <<externalIp, state>>
  /\ UNCHANGED <<holds, router, late>>

\* destroy() has unmapped, or its timeout passes.
Gone(d) == life[d] = "none" \/ "slowRouter" \in Faults

\* The rest of stop(), whatever was called since.
StopEnds(s) ==
  /\ s \in stopping /\ Gone(awaits[s])
  /\ stopping' = stopping \ {s}
  /\ awaits' = [awaits EXCEPT ![s] = NoCycle]
  /\ Off
  /\ UNCHANGED <<enabled, gen, clients, pc, router, late>>

-----------------------------------------------------------------------------
(* cycle().                                                                 *)

Goto(c, where) == pc' = [pc EXCEPT ![c] = where]

\* The run finds that it has been overtaken, and returns.
Overtaken(c) ==
  /\ pc[c] \in {"import", "ip", "map", "probe"} /\ ~Current(c)
  /\ Goto(c, "idle")
  /\ UNCHANGED <<fields, waits, life, holds, router, late>>

\* A run that was in its teardown when the stop() came.
BadGoesOn(c) == TRUE

GoesOn(c) == Current(c)

TornDown(c) ==
  /\ pc[c] = "teardown" /\ Gone(awaits[c])
  /\ awaits' = [awaits EXCEPT ![c] = NoCycle]
  /\ IF GoesOn(c) THEN state' = "searching" /\ Goto(c, "import")
                  ELSE UNCHANGED state /\ Goto(c, "idle")
  /\ UNCHANGED <<enabled, gen, clients, externalIp, stopping, router, late>>

\* A refusal is final.
BadFails(c, s) == state' = s /\ Goto(c, IF s = "mapping_refused" THEN "idle" ELSE "retry")

\* setStatus() and scheduleRetry().
Fails(c, s) == state' = s /\ Goto(c, "retry")

ImportFails(c) ==
  /\ pc[c] = "import" /\ Current(c) /\ "import" \in Faults
  /\ Fails(c, "error")
  /\ UNCHANGED <<enabled, gen, clients, externalIp, waits, router, late>>

Imported(c) ==
  /\ pc[c] = "import" /\ Current(c)
  /\ client' = c /\ life' = [life EXCEPT ![c] = "open"]
  /\ Goto(c, "ip")
  /\ UNCHANGED <<enabled, gen, state, externalIp, holds, waits, router, late>>

\* The router has still to unmap.
Unmapping == \E d \in Cycle : life[d] = "destroying"

\* It answers something else all the same.
Answers ==
  /\ Unmapping => "slowRouter" \in Faults
  /\ late' = (late \/ Unmapping)

NoGateway(c) ==
  /\ pc[c] = "ip" /\ Current(c) /\ "noGateway" \in Faults
  /\ externalIp' = "none"
  /\ Fails(c, "no_gateway")
  /\ UNCHANGED <<enabled, gen, clients, waits, router, late>>

GotIp(c) ==
  /\ pc[c] = "ip" /\ Current(c) /\ Answers
  /\ externalIp' \in {"public", "private"}
  /\ Goto(c, "map")
  /\ UNCHANGED <<enabled, gen, clients, state, waits, router>>

\* The router maps the port; the reply is still to come, or is lost.
Maps(c) ==
  /\ pc[c] = "map" /\ life[c] = "open" /\ c \notin holds /\ Answers
  /\ router' = TRUE /\ holds' = holds \cup {c}
  /\ UNCHANGED <<fields, pc, waits, life>>

\* It does so for a client that is being destroyed.
MapsLate(c) ==
  /\ pc[c] = "map" /\ life[c] # "open" /\ "slowRouter" \in Faults
  /\ router' = TRUE /\ late' = TRUE
  /\ UNCHANGED <<fields, pc, waits, life, holds>>

Refused(c) ==
  /\ pc[c] = "map" /\ Current(c) /\ "refused" \in Faults
  /\ Fails(c, "mapping_refused")
  /\ UNCHANGED <<enabled, gen, clients, externalIp, waits, router, late>>

\* A reply is taken for a yes.
BadGranted(c) == TRUE

Granted(c) == c \in holds

\* The address that tells the two states apart is the run's own: a stop() that
\* ends late may have cleared the field.
Mapped(c) ==
  /\ pc[c] = "map" /\ Current(c) /\ Granted(c)
  /\ state' \in {"mapped", "double_nat"}
  /\ externalIp # "none" => (state' = "double_nat" <=> externalIp = "private")
  /\ Goto(c, "watch")
  /\ UNCHANGED <<enabled, gen, clients, externalIp, waits, router, late>>

-----------------------------------------------------------------------------
(* The timers, and the router.                                              *)

RetryFires(c) ==
  /\ pc[c] = "retry"
  /\ NewCycle({c})
  /\ UNCHANGED <<enabled, externalIp, holds, stopping, router, late>>

WatchdogFires(c) ==
  /\ pc[c] = "watch" /\ Goto(c, "probe")
  /\ UNCHANGED <<fields, waits, life, holds, router, late>>

\* Any address will do.
BadSameAddress == TRUE

\* The router gives the external address it gave before.
SameAddress == externalIp # "none"

AllWell(c) ==
  /\ pc[c] = "probe" /\ Current(c) /\ SameAddress
  /\ Goto(c, "watch")
  /\ UNCHANGED <<fields, waits, life, holds, router, late>>

\* No address, or another one: from scratch.
Remaps(c) ==
  /\ pc[c] = "probe" /\ Current(c)
  /\ externalIp = "none" \/ "noGateway" \in Faults \/ "moved" \in Faults
  /\ NewCycle({c})
  /\ UNCHANGED <<enabled, externalIp, holds, stopping, router, late>>

\* destroy() unmaps what the client has mapped: the port, whoever has it now.
Destroyed(d) ==
  /\ life[d] = "destroying"
  /\ life' = [life EXCEPT ![d] = "none"]
  /\ router' = (router /\ d \notin holds)
  /\ holds' = holds \ {d}
  /\ UNCHANGED <<fields, pc, waits, late>>

-----------------------------------------------------------------------------
CycleStep(c) ==
  \/ Overtaken(c) \/ TornDown(c) \/ ImportFails(c) \/ Imported(c)
  \/ NoGateway(c) \/ GotIp(c) \/ Maps(c) \/ MapsLate(c) \/ Refused(c) \/ Mapped(c)
  \/ RetryFires(c) \/ WatchdogFires(c) \/ AllWell(c) \/ Remaps(c)

Next ==
  \/ Start
  \/ \E s \in Stopper : Stop(s) \/ StopEnds(s)
  \/ \E c \in Cycle : CycleStep(c) \/ Destroyed(c)

Spec == Init /\ [][Next]_vars

-----------------------------------------------------------------------------
(* Properties.                                                              *)

\* No client is ever lost: one that is open is the one that the next stop() or
\* cycle() destroys.  A lost client renews its mapping for as long as the app
\* runs (portmap.js:199, 202-203).
NoClientLost == \A c \in Cycle : life[c] = "open" => client = c

\* While the mapping is wanted it is being sought, retried or watched; while it
\* is not, no timer is left to bring it back (portmap.js:254-280, 293-296).
NeverForgotten ==
  IF enabled THEN gen # NoCycle /\ pc[gen] # "idle"
             ELSE \A c \in Cycle : pc[c] \notin {"retry", "watch"}

\* A stop() is final: once it has ended, no run that was on its way says
\* otherwise, or leaves a client behind (portmap.js:195, 200, 210, 225).
StoppedIsOff ==
  ~enabled /\ stopping = {} => state = "off" /\ client = NoCycle

\* What the app shows is what the router does, as long as the router unmaps
\* before it does anything else (portmap.js:236-241, 289-299): a mapping that is
\* watched is there, and none is left when it is off and nothing is on its way.
HonestStatus ==
  ~late =>
    /\ enabled /\ pc[gen] \in {"watch", "probe"} => router
    /\ ~enabled /\ stopping = {} /\ (\A c \in Cycle : life[c] = "none") => ~router

\* A start() while a stop() still waits is not lost: "off" is written over its
\* status, but not for good (portmap.js:262-275, 297-299).
OffPasses == []<>~(enabled /\ state = "off")
================================================================================
