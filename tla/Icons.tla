---------------------------------- MODULE Icons --------------------------------
(***************************************************************************)
(* The icon of a MiniDapp on its way from the node to the home page and to  *)
(* a tab: the cache of the main process (main/iconcache.js and mds:icon in  *)
(* main.js), which an update of the dapp evicts, and the cache of the tabs  *)
(* (shell/useIcon.ts). An icon is known by the dapp's id and version, which *)
(* an update may leave as they were; one such name is modelled.             *)
(***************************************************************************)
EXTENDS Integers

CONSTANTS
  IconFetch,      \* fetches that may be under way at once
  MaxIconUpdates, \* bound: updates of the dapp
  MaxIconFails    \* bound: fetches that fail

ASSUME IconsAssumption == MaxIconUpdates \in Nat /\ MaxIconFails \in Nat

VARIABLES
  icon,           \* the node's: the number of the last update
  updatePc,       \* mds action:update, by a user or a provisioning run
  mainIcon,       \* iconcache: nothing, or the icon of a moment
  fetches,        \* fetchLoopback: whom it is for and what it has got
  tabIcon,        \* useIcon's cache: nothing, "" after a failure, or an icon
  overtaken,      \* history: the cached icon was on its way during an update
  missed,         \* history: it was there when one took effect whose reply did not come
  iconFails       \* history

iconVars == <<icon, updatePc, mainIcon, fetches, tabIcon, overtaken, missed, iconFails>>

Unknown == -1
Blank == -2
NoFetch == [for |-> "nobody", got |-> Unknown, late |-> FALSE]

IconsTypeOK ==
  /\ icon \in 0..MaxIconUpdates /\ updatePc \in {"idle", "asked", "done", "late"}
  /\ mainIcon \in {Unknown} \cup 0..MaxIconUpdates
  /\ fetches \in [IconFetch -> [for : {"nobody", "home", "tab"}, got : -2..MaxIconUpdates, late : BOOLEAN]]
  /\ tabIcon \in -2..MaxIconUpdates
  /\ overtaken \in BOOLEAN /\ missed \in BOOLEAN /\ iconFails \in 0..MaxIconFails

IconsInit ==
  /\ icon = 0 /\ updatePc = "idle" /\ mainIcon = Unknown /\ tabIcon = Unknown
  /\ fetches = [f \in IconFetch |-> NoFetch] /\ overtaken = FALSE /\ missed = FALSE /\ iconFails = 0

-----------------------------------------------------------------------------

\* resolveIcon(): one request at a time for a name (`inflight`), none for one that is cached.
TabAsks == tabIcon = Unknown /\ \A f \in IconFetch : fetches[f].for # "tab"

\* An update that is on its way may change the icon under the fetch.
Late == updatePc # "idle"

\* mds:icon: from the cache at once, or by a fetch.
AskIcon(f, who) ==
  /\ fetches[f] = NoFetch /\ who = "tab" => TabAsks
  /\ \/ /\ mainIcon # Unknown /\ tabIcon' = IF who = "tab" THEN mainIcon ELSE tabIcon
        /\ UNCHANGED fetches
     \/ /\ mainIcon = Unknown /\ fetches' = [fetches EXCEPT ![f] = [for |-> who, got |-> Unknown, late |-> Late]]
        /\ UNCHANGED tabIcon
  /\ UNCHANGED <<icon, updatePc, mainIcon, overtaken, missed, iconFails>>

\* fetchLoopback(): the node answers, or not in time, or not with an icon.
NodeSends(f) ==
  /\ fetches[f].for # "nobody" /\ fetches[f].got = Unknown
  /\ \/ fetches' = [fetches EXCEPT ![f].got = icon] /\ UNCHANGED iconFails
     \/ /\ iconFails < MaxIconFails /\ iconFails' = iconFails + 1
        /\ fetches' = [fetches EXCEPT ![f].got = Blank]
  /\ UNCHANGED <<icon, updatePc, mainIcon, tabIcon, overtaken, missed>>

\* The reply: a failed fetch is not cached in main, and is blank for the one who asked.
IconBack(f) ==
  /\ fetches[f].got # Unknown /\ fetches' = [fetches EXCEPT ![f] = NoFetch]
  /\ IF fetches[f].got = Blank THEN UNCHANGED <<mainIcon, overtaken, missed>>
     ELSE mainIcon' = fetches[f].got /\ overtaken' = fetches[f].late /\ missed' = FALSE
  /\ tabIcon' = IF fetches[f].for = "tab" THEN fetches[f].got ELSE tabIcon
  /\ UNCHANGED <<icon, updatePc, iconFails>>

UpdateDapp ==
  /\ updatePc = "idle" /\ icon < MaxIconUpdates /\ updatePc' = "asked"
  /\ fetches' = [f \in IconFetch |-> [fetches[f] EXCEPT !.late = @ \/ fetches[f] # NoFetch]]
  /\ UNCHANGED <<icon, mainIcon, tabIcon, overtaken, missed, iconFails>>

\* The node does it, which nobody waits for any more when it is late.
NodeUpdates ==
  /\ updatePc \in {"asked", "late"} /\ icon' = icon + 1
  /\ updatePc' = (IF updatePc = "asked" THEN "done" ELSE "idle") /\ missed' = (missed \/ updatePc = "late")
  /\ UNCHANGED <<mainIcon, fetches, tabIcon, overtaken, iconFails>>

\* The cached icon stays.
BadEvict == UNCHANGED <<mainIcon, missed>>

\* evictUid(): every entry that mentions the dapp.
Evict == mainIcon' = Unknown /\ missed' = FALSE

\* The reply to the update (rpc:cmd, and installOrUpdate of provision.js).
UpdateBack ==
  /\ updatePc = "done" /\ updatePc' = "idle" /\ Evict
  /\ UNCHANGED <<icon, fetches, tabIcon, overtaken, iconFails>>

\* The node has refused it: rpc:cmd evicts all the same, installOrUpdate does not.
UpdateRefused ==
  /\ updatePc = "asked" /\ updatePc' = "idle" /\ (Evict \/ UNCHANGED <<mainIcon, missed>>)
  /\ UNCHANGED <<icon, fetches, tabIcon, overtaken, iconFails>>

\* rpcCall throws, or the reply is not one that names the update: nothing is evicted, whether the node has
\* done it, does it later, or never.
UpdateLost ==
  /\ \/ updatePc = "done" /\ updatePc' = "idle" /\ missed' = TRUE
     \/ updatePc = "asked" /\ updatePc' \in {"late", "idle"} /\ UNCHANGED missed
  /\ UNCHANGED <<icon, mainIcon, fetches, tabIcon, overtaken, iconFails>>

\* A cache that is full is emptied: 500 entries in main, 300 in the tabs.
CacheFull ==
  /\ \/ Evict /\ UNCHANGED tabIcon
     \/ tabIcon' = Unknown /\ UNCHANGED <<mainIcon, missed>>
  /\ UNCHANGED <<icon, updatePc, fetches, overtaken, iconFails>>

IconsNext ==
  \/ \E f \in IconFetch : \/ \E who \in {"home", "tab"} : AskIcon(f, who)
                          \/ NodeSends(f) \/ IconBack(f)
  \/ UpdateDapp \/ NodeUpdates \/ UpdateBack \/ UpdateRefused \/ UpdateLost \/ CacheFull

IconsSpec == IconsInit /\ [][IconsNext]_iconVars

-----------------------------------------------------------------------------

\* When no update is under way, main serves the icon that the node has, unless the one it holds was on its
\* way while the dapp was updated, or was there when an update took effect whose reply was lost or was not
\* understood: only a reply that arrives evicts (iconcache.js:16, main.js:283-287, provision.js:82-86).
StaleForAReason == updatePc = "idle" /\ mainIcon # Unknown /\ mainIcon # icon => overtaken \/ missed
=============================================================================
