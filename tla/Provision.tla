------------------------------ MODULE Provision ------------------------------
(***************************************************************************)
(* main/provision.js and the health poll of main/node-manager.js: how the    *)
(* MiniDapp that comes with the app is installed and kept current.  A run    *)
(* reads the list of dapps once and then works on what it read, one RPC      *)
(* after the other, while the node may restart and the user may change the   *)
(* dapp.  Versions are numbered in the order of compareVersions.            *)
(***************************************************************************)
EXTENDS Integers, FiniteSets

CONSTANTS
  Copy, NoCopy, \* uids the node may give to an installed copy; none
  ProvRun,      \* runs of provisionBundledDapps
  Bundle,       \* the version that comes with the app
  CatalogVersion, \* the version of the catalog
  PROVISION_MAX_TRIES,
  MaxRestarts, MaxUserSteps, MaxRpcFailures \* bounds

ASSUME ProvisionAssumption ==
  /\ NoCopy \notin Copy
  /\ Bundle \in Nat \ {0} /\ CatalogVersion \in Nat
  /\ {PROVISION_MAX_TRIES, MaxRestarts, MaxUserSteps, MaxRpcFailures} \subseteq Nat

VARIABLES
  dapps,                  \* the node: the version and permission of each copy; version 0: not installed
  mds, healthGen,         \* does MDS answer; the generation of the health poll
  provisionDone, provisionBusy, provisionTries,
  prov,                   \* the runs
  shipped,                \* what is in the app's folder of dapps; it does not change
  spoiled,                \* history: generations in which an RPC of a run failed, or a run threw
  userSteps, rpcFailures

provisionVars == <<dapps, mds, healthGen, provisionDone, provisionBusy, provisionTries, prov, shipped,
                   spoiled, userSteps, rpcFailures>>
pollVars == <<mds, healthGen, provisionDone, provisionBusy, provisionTries, shipped>>

NoDapp == [v |-> 0, write |-> FALSE]
Higher(a, b) == IF a > b THEN a ELSE b
TopVersion == Higher(Bundle, CatalogVersion) + 1
ProvStep == {"off", "list", "install", "update", "write", "catalog", "fetch", "ready", "notReady", "threw"}
Shipment == {"all", "no zip", "no manifest"}
OffRun == [pc |-> "off", gen |-> 0, uid |-> NoCopy, seen |-> NoDapp, late |-> FALSE]

ProvisionTypeOK ==
  /\ dapps \in [Copy -> [v : 0..TopVersion, write : BOOLEAN]]
  /\ mds \in BOOLEAN /\ healthGen \in 0..MaxRestarts
  /\ provisionDone \in BOOLEAN /\ provisionBusy \in BOOLEAN /\ provisionTries \in 0..PROVISION_MAX_TRIES
  /\ prov \in [ProvRun -> [pc : ProvStep, gen : 0..MaxRestarts, uid : Copy \cup {NoCopy},
                           seen : [v : 0..TopVersion, write : BOOLEAN], late : BOOLEAN]]
  /\ shipped \in Shipment /\ spoiled \subseteq 0..MaxRestarts /\ userSteps \in 0..MaxUserSteps /\ rpcFailures \in 0..MaxRpcFailures

ProvisionInit ==
  /\ dapps \in {[c \in Copy |-> NoDapp]}
       \cup {[[c \in Copy |-> NoDapp] EXCEPT ![x] = [v |-> n, write |-> w]] :
              x \in Copy, n \in 1..TopVersion, w \in BOOLEAN}
  /\ mds = FALSE /\ healthGen = 0 /\ shipped \in Shipment
  /\ provisionDone = FALSE /\ provisionBusy = FALSE /\ provisionTries = 0
  /\ prov = [r \in ProvRun |-> OffRun] /\ spoiled = {} /\ userSteps = 0 /\ rpcFailures = 0

-----------------------------------------------------------------------------
(* The health poll.                                                         *)

\* readManifest(): without one, or with an unreadable one, there is nothing to do.
FirstPlace == IF shipped = "no manifest" THEN "ready" ELSE "list"

\* A run starts unless one is on its way; after too many tries none does.
PollProvisions ==
  /\ ~provisionDone /\ ~provisionBusy
  /\ IF provisionTries >= PROVISION_MAX_TRIES
       THEN /\ provisionDone' = TRUE /\ spoiled' = spoiled \cup {healthGen}
            /\ UNCHANGED <<provisionBusy, provisionTries, prov>>
       ELSE \E r \in ProvRun :
              /\ prov[r].pc = "off"
              /\ prov' = [prov EXCEPT ![r] = [OffRun EXCEPT !.pc = FirstPlace, !.gen = healthGen]]
              /\ provisionBusy' = TRUE /\ provisionTries' = provisionTries + 1
              /\ UNCHANGED <<provisionDone, spoiled>>
  /\ UNCHANGED <<dapps, mds, healthGen, shipped, userSteps, rpcFailures>>

\* The run of an earlier node speaks for this one.
BadLiveRun(r) == TRUE

LiveRun(r) == prov[r].gen = healthGen

BadRunOver == UNCHANGED provisionBusy

RunOver == provisionBusy' = FALSE

\* The run is over; what it found is of this node only if the node is the same.
RunEnds(r) ==
  /\ prov[r].pc \in {"ready", "notReady"}
  /\ prov' = [prov EXCEPT ![r] = OffRun]
  /\ provisionDone' = (provisionDone \/ (prov[r].pc = "ready" /\ LiveRun(r))) /\ RunOver
  /\ UNCHANGED <<dapps, mds, healthGen, provisionTries, shipped, spoiled, userSteps, rpcFailures>>

\* The catch: nothing more is tried, at whatever node is there by now.
RunThrew(r) ==
  /\ prov[r].pc = "threw" /\ prov' = [prov EXCEPT ![r] = OffRun]
  /\ provisionDone' = TRUE /\ RunOver /\ spoiled' = spoiled \cup {healthGen}
  /\ UNCHANGED <<dapps, mds, healthGen, provisionTries, shipped, userSteps, rpcFailures>>

\* The node is restarted: stopHealth() also lets go of the run that is on its way.
BadForgetsRun == provisionDone' = FALSE /\ provisionTries' = 0 /\ provisionBusy' = FALSE

\* stopHealth(): the next node is provisioned anew, once the run on its way is over.
ForgetsRun == provisionDone' = FALSE /\ provisionTries' = 0 /\ UNCHANGED provisionBusy

NodeRestarts ==
  /\ healthGen < MaxRestarts /\ healthGen' = healthGen + 1 /\ mds' = FALSE /\ ForgetsRun
  /\ UNCHANGED <<dapps, prov, shipped, spoiled, userSteps, rpcFailures>>

MdsComesUp ==
  /\ ~mds /\ mds' = TRUE
  /\ UNCHANGED <<dapps, healthGen, provisionDone, provisionBusy, provisionTries, prov, shipped,
                 spoiled, userSteps, rpcFailures>>

-----------------------------------------------------------------------------
(* provisionBundledDapps().                                                 *)

Goes(r, pc, uid, seen) == prov' = [prov EXCEPT ![r].pc = pc, ![r].uid = uid, ![r].seen = seen]

\* An RPC of a run: it works if MDS is up, and it may fail although it took effect.
RpcWorks == mds /\ UNCHANGED <<spoiled, rpcFailures>>
FailsRpc(r) ==
  /\ IF mds THEN rpcFailures < MaxRpcFailures /\ rpcFailures' = rpcFailures + 1 ELSE UNCHANGED rpcFailures
  /\ spoiled' = spoiled \cup {prov[r].gen}
Same == UNCHANGED dapps

\* The list is read: no copy, or the newest one. Without the zip the bundle does nothing, and
\* the catalog looks only after a copy that is there.
FirstStepFor(best) ==
  CASE best = NoCopy -> IF shipped = "all" THEN "install" ELSE "ready"
    [] best # NoCopy /\ shipped # "all" -> "catalog"
    [] OTHER -> IF Bundle > dapps[best].v THEN "update" ELSE "write"

BadUnlisted == "ready"

\* No list: not ready, the next poll tries again. A list that is not as expected throws.
Unlisted == "notReady"

listInstalled(r) ==
  /\ prov[r].pc = "list"
  /\ \/ /\ RpcWorks
        /\ LET here == {c \in Copy : dapps[c].v > 0}
               newest == {c \in here : \A d \in here : dapps[c].v >= dapps[d].v}
           IN \E best \in (IF here = {} THEN {NoCopy} ELSE newest) :
                Goes(r, FirstStepFor(best), best, IF best = NoCopy THEN NoDapp ELSE dapps[best])
     \/ /\ ~mds \/ rpcFailures < MaxRpcFailures
        /\ rpcFailures' = (IF mds THEN rpcFailures + 1 ELSE rpcFailures) /\ UNCHANGED spoiled
        /\ Goes(r, Unlisted, NoCopy, NoDapp)
     \/ FailsRpc(r) /\ mds /\ Goes(r, "threw", NoCopy, NoDapp)
  /\ UNCHANGED <<dapps, pollVars, userSteps>>

\* `mds action:install`: a copy of its own, whatever else is installed by now.
Installs(c) == dapps[c].v = 0 /\ dapps' = [dapps EXCEPT ![c] = [v |-> Bundle, write |-> TRUE]]

installOrUpdateNew(r) ==
  /\ prov[r].pc = "install"
  /\ \/ /\ RpcWorks /\ \E c \in Copy : Installs(c) /\ Goes(r, "write", c, [v |-> Bundle, write |-> TRUE])
     \/ /\ FailsRpc(r) /\ Goes(r, "ready", NoCopy, NoDapp)
        /\ Same \/ (mds /\ \E c \in Copy : Installs(c))
  /\ UNCHANGED <<pollVars, userSteps>>

\* `mds action:update`: in place, to the version of the zip, if the copy is still there.
Updated(uid, v) == dapps' = [dapps EXCEPT ![uid].v = v]

UpdateTo(r, v) ==
  LET uid == prov[r].uid
      seen == prov[r].seen
  IN \/ RpcWorks /\ dapps[uid].v > 0 /\ Updated(uid, v) /\ Goes(r, "write", uid, [seen EXCEPT !.v = v])
     \/ RpcWorks /\ dapps[uid].v = 0 /\ Same /\ Goes(r, "write", uid, seen)
     \/ /\ FailsRpc(r) /\ \E pc \in {"write", "ready"} : Goes(r, pc, uid, seen)
        /\ Same \/ (mds /\ dapps[uid].v > 0 /\ Updated(uid, v))

installOrUpdate(r) ==
  prov[r].pc = "update" /\ UpdateTo(r, Bundle) /\ UNCHANGED <<pollVars, userSteps>>

\* After the bundle the catalog, after the catalog the end.
AfterWrite(r) == IF prov[r].late THEN "ready" ELSE "catalog"

ensureWrite(r) ==
  LET uid == prov[r].uid
      seen == prov[r].seen
  IN /\ prov[r].pc = "write"
     /\ \/ /\ seen.write /\ Goes(r, AfterWrite(r), uid, seen) /\ Same /\ UNCHANGED <<spoiled, rpcFailures>>
        \/ /\ ~seen.write /\ RpcWorks /\ Goes(r, AfterWrite(r), uid, [seen EXCEPT !.write = TRUE])
           /\ dapps' = IF dapps[uid].v > 0 THEN [dapps EXCEPT ![uid].write = TRUE] ELSE dapps
        \/ ~seen.write /\ FailsRpc(r) /\ Same /\ \E pc \in {AfterWrite(r), "ready"} : Goes(r, pc, uid, seen)
     /\ UNCHANGED <<pollVars, userSteps>>

\* The catalog: unreachable, refused or not newer is the end; else its zip is downloaded and checked.
readCatalog(r) ==
  /\ prov[r].pc = "catalog"
  /\ \E found \in BOOLEAN :
       prov' = [prov EXCEPT ![r].pc = IF found /\ CatalogVersion > prov[r].seen.v THEN "fetch" ELSE "ready",
                            ![r].late = found]
  /\ UNCHANGED <<dapps, pollVars, spoiled, userSteps, rpcFailures>>

catalogUpdate(r) ==
  /\ prov[r].pc = "fetch"
  /\ \/ UpdateTo(r, CatalogVersion)
     \/ Goes(r, "ready", prov[r].uid, prov[r].seen) /\ Same /\ UNCHANGED <<spoiled, rpcFailures>>
  /\ UNCHANGED <<pollVars, userSteps>>

\* The user updates, or uninstalls, the dapp.
UserStep ==
  /\ userSteps < MaxUserSteps /\ mds /\ userSteps' = userSteps + 1
  /\ \E c \in Copy :
       /\ dapps[c].v > 0
       /\ dapps' \in {[dapps EXCEPT ![c] = NoDapp], [dapps EXCEPT ![c].v = TopVersion]}
  /\ spoiled' = spoiled \cup {healthGen}
  /\ UNCHANGED <<pollVars, prov, rpcFailures>>

ProvisionNext ==
  \/ PollProvisions \/ NodeRestarts \/ MdsComesUp \/ UserStep
  \/ \E r \in ProvRun :
       \/ RunEnds(r) \/ RunThrew(r) \/ listInstalled(r) \/ installOrUpdateNew(r) \/ installOrUpdate(r)
       \/ ensureWrite(r) \/ readCatalog(r) \/ catalogUpdate(r)

ProvisionSpec == ProvisionInit /\ [][ProvisionNext]_provisionVars

-----------------------------------------------------------------------------
(* Properties.                                                              *)

\* Runs that overlap a restart of the node, and RPCs that fail although they took effect, never leave two
\* copies of the dapp.
OneCopy == Cardinality({c \in Copy : dapps[c].v > 0}) <= 1

\* provision.js:91-93, what "ready" is worth when all that could be done could be: a node of which the app
\* says that its dapps are in place has the dapp, at the version of the bundle or above and with write
\* permission - unless the app came without its zip or manifest, an RPC of this node's own run failed, a
\* run threw, the app gave up, or the user changed the dapp. In particular no run that is only late, or of
\* an earlier node, says so.
DoneMeansInstalled ==
  provisionDone /\ shipped = "all" /\ healthGen \notin spoiled => \E c \in Copy : dapps[c].v >= Bundle /\ dapps[c].write
=============================================================================
