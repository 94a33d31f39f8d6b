--------------------------------- MODULE Media ---------------------------------
(***************************************************************************)
(* resources/keets-sidecar/media.js: the shared media store - one Corestore *)
(* directory, the drives that are opened in it, and what happens when the   *)
(* store has to be opened anew or is closed.  The private transfers, with   *)
(* stores of their own, are module Transfers.                               *)
(*                                                                         *)
(* A Corestore is known by the number of the attempt that made it.  The     *)
(* library may fail to open a store or a drive, and a store may break; it   *)
(* does not open two stores of one directory at once.                       *)
(***************************************************************************)
EXTENDS Integers, FiniteSets

CONSTANTS
  Scope,      \* own drives: "media", "salon"
  Mirror,     \* drives of others
  Call,       \* calls that may be on their way at once
  MaxStores   \* bound: times the store is opened

ASSUME MediaAssumption == Scope \cap Mirror = {} /\ MaxStores \in Nat

VARIABLES
  store,      \* the Corestore there is; 0 is none
  corestore,  \* the state of each
  opening,    \* storeOpening: how far it is, and what is still to be restored
  owned,      \* ownedDrives: a promise for a drive of a store
  drives,     \* the store that the drive was opened in; 0 is no drive
  pins,
  link,       \* a replication stream: the store it replicates
  mediaCall,  \* calls: what they wait for
  closing     \* close(): not asked, asked, done

mediaVars == <<store, corestore, opening, owned, drives, pins, link, mediaCall, closing>>

Key == Scope \cup Mirror
Stores == 1..MaxStores
NotOpening == [at |-> "no", scopes |-> {}, keys |-> {}]
NotOwned == [st |-> "no", of |-> 0]
NoCall == [at |-> "idle", key |-> "", of |-> 0, pin |-> FALSE]

\* A link that is destroyed; one that waits for the store.
NoLink == 0
LinkWaits == -1

MediaTypeOK ==
  /\ store \in 0..MaxStores /\ corestore \in [Stores -> {"no", "opening", "open", "closed"}]
  /\ opening \in [at : {"no", "leave", "ready", "restore"}, scopes : SUBSET Scope, keys : SUBSET Mirror]
  /\ owned \in [Scope -> [st : {"no", "getting", "ready"}, of : 0..MaxStores]]
  /\ drives \in [Key -> 0..MaxStores] /\ pins \subseteq Mirror
  /\ link \in {LinkWaits, NoLink} \cup Stores
  /\ mediaCall \in [Call -> [at : {"idle", "store", "drive"}, key : Key \cup {""},
                             of : 0..MaxStores, pin : BOOLEAN]]
  /\ closing \in {"no", "asked", "done"}

MediaInit ==
  /\ store = 0 /\ corestore = [s \in Stores |-> "no"] /\ opening = NotOpening
  /\ owned = [s \in Scope |-> NotOwned] /\ drives = [k \in Key |-> 0] /\ pins \in SUBSET Mirror
  /\ link = NoLink /\ mediaCall = [c \in Call |-> NoCall] /\ closing = "no"

AssertOpen == closing = "no"
StoreOpen == store # 0 /\ corestore[store] = "open"

-----------------------------------------------------------------------------
(* readyStore().                                                            *)

\* new Corestore(): nothing of the store before is there any more.
NewStore(s) ==
  /\ store' = s /\ corestore' = [corestore EXCEPT ![s] = "opening"]
  /\ drives' = [k \in Key |-> 0] /\ owned' = [x \in Scope |-> NotOwned]

\* The call that finds no store opens one; those that come after it share that.
OpensStore ==
  LET again == [at |-> "leave", scopes |-> {s \in Scope : owned[s].st # "no"},
                keys |-> {k \in Mirror : drives[k] # 0}]
  IN IF store # 0
       THEN opening' = again /\ UNCHANGED <<store, corestore, owned, drives>>
       ELSE opening' = [NotOpening EXCEPT !.at = "ready"] /\ NewStore(1)

\* What every caller of readyStore() does: wait for the store that is being
\* opened, go on with the one there is, or open one.
NeedsStore(goesOn, waits) ==
  /\ AssertOpen
  /\ IF opening.at # "no" THEN waits /\ UNCHANGED <<store, corestore, opening, owned, drives>>
     ELSE IF StoreOpen THEN goesOn /\ UNCHANGED <<store, corestore, opening, drives>>
     ELSE store < MaxStores /\ waits /\ OpensStore

\* The drives are left, the streams destroyed and the old store is closed.
OldClosed ==
  /\ opening.at = "leave" /\ NewStore(store + 1)
  /\ opening' = [opening EXCEPT !.at = "ready"]
  /\ link' = IF link \in Stores THEN NoLink ELSE link
  /\ UNCHANGED <<pins, mediaCall, closing>>

\* The store could not be opened: whoever waited for it is told so.
OpeningFails ==
  /\ corestore' = [corestore EXCEPT ![store] = "closed"] /\ opening' = NotOpening
  /\ mediaCall' = [c \in Call |-> IF mediaCall[c].at = "store" THEN NoCall ELSE mediaCall[c]]
  /\ link' = IF link = LinkWaits THEN NoLink ELSE link

StoreReady ==
  /\ opening.at = "ready"
  /\ \/ /\ corestore' = [corestore EXCEPT ![store] = "open"]
        /\ opening' = [opening EXCEPT !.at = "restore", !.keys = @ \cup pins]
        /\ UNCHANGED <<mediaCall, link>>
     \/ OpeningFails
  /\ UNCHANGED <<store, owned, drives, pins, closing>>

\* A drive that got ready counts only in the store there is.
BadInStore(s) == closing = "no"

InStore(s) == closing = "no" /\ s = store /\ corestore[s] = "open"

\* The own drives are restored one after the other, and without one of them the
\* store is not opened.
RestoreOwn(s) ==
  /\ opening.at = "restore" /\ s \in opening.scopes
  /\ IF AssertOpen /\ StoreOpen
       THEN \/ /\ drives' = [drives EXCEPT ![s] = store]
               /\ owned' = [owned EXCEPT ![s] = [st |-> "ready", of |-> store]]
               /\ opening' = [opening EXCEPT !.scopes = @ \ {s}]
               /\ UNCHANGED <<corestore, mediaCall, link>>
            \/ OpeningFails /\ UNCHANGED <<drives, owned>>
       ELSE OpeningFails /\ UNCHANGED <<drives, owned>>
  /\ UNCHANGED <<store, pins, closing>>

\* A drive of others that cannot be restored is left out.
RestoreMirror(k) ==
  /\ opening.at = "restore" /\ opening.scopes = {} /\ k \in opening.keys
  /\ opening' = [opening EXCEPT !.keys = @ \ {k}]
  /\ drives' \in {drives} \cup (IF InStore(store) THEN {[drives EXCEPT ![k] = store]} ELSE {})
  /\ UNCHANGED <<store, corestore, owned, pins, link, mediaCall, closing>>

\* openOwn(): one promise for all who want the drive of a scope.
Owns(keys) ==
  owned' = [s \in Scope |-> IF s \in keys /\ owned[s].st = "no"
                              THEN [st |-> "getting", of |-> store] ELSE owned[s]]

\* The store is there: whoever waited goes on with it, or stops when it is closing.
Restored ==
  /\ opening.at = "restore" /\ opening.scopes \cup opening.keys = {} /\ opening' = NotOpening
  /\ LET waiting == {c \in Call : mediaCall[c].at = "store"}
     IN IF AssertOpen
          THEN /\ mediaCall' = [c \in Call |-> IF c \in waiting THEN [mediaCall[c] EXCEPT !.at = "drive", !.of = store]
                                               ELSE mediaCall[c]]
               /\ Owns({mediaCall[c].key : c \in waiting})
          ELSE /\ mediaCall' = [c \in Call |-> IF c \in waiting THEN NoCall ELSE mediaCall[c]]
               /\ UNCHANGED owned
  /\ link' = IF link = LinkWaits THEN store ELSE link
  /\ UNCHANGED <<store, corestore, drives, pins, closing>>

-----------------------------------------------------------------------------
(* The calls: publish, list and remove use an own drive, fetch and pin one   *)
(* of others.                                                               *)

Asks(c, k, pin) ==
  /\ mediaCall[c] = NoCall /\ pin => k \in Mirror
  /\ LET at(where, of) == mediaCall' = [mediaCall EXCEPT ![c] = [at |-> where, key |-> k, of |-> of, pin |-> pin]]
     IN NeedsStore(at("drive", store) /\ Owns({k}), at("store", 0))
  /\ UNCHANGED <<pins, link, closing>>

\* A call ends; a pin is kept when its drive could be opened.
Ends(calls, ok) ==
  /\ mediaCall' = [c \in Call |-> IF c \in calls THEN NoCall ELSE mediaCall[c]]
  /\ pins' = pins \cup {k \in Mirror : ok /\ \E c \in calls : mediaCall[c].pin /\ mediaCall[c].key = k}

\* The drive of a scope gets ready, or not.
OwnReady(s) ==
  /\ owned[s].st = "getting"
  /\ \E ok \in {FALSE, InStore(owned[s].of)} :
       /\ owned' = [owned EXCEPT ![s] = IF ok THEN [@ EXCEPT !.st = "ready"] ELSE NotOwned]
       /\ drives' = IF ok THEN [drives EXCEPT ![s] = owned[s].of] ELSE drives
       /\ Ends({c \in Call : mediaCall[c].at = "drive" /\ mediaCall[c].key = s}, ok)
  /\ UNCHANGED <<store, corestore, opening, link, closing>>

\* openDrive() of a call, which has a promise of its own.
MirrorReady(c) ==
  LET k == mediaCall[c].key IN
  /\ mediaCall[c].at = "drive" /\ k \in Mirror
  /\ \E ok \in {FALSE, InStore(mediaCall[c].of)} :
       /\ drives' = IF ok THEN [drives EXCEPT ![k] = mediaCall[c].of] ELSE drives
       /\ Ends({c}, ok)
  /\ UNCHANGED <<store, corestore, opening, owned, link, closing>>

\* A call for a drive that is there.
AlreadyOpen(c) ==
  LET k == mediaCall[c].key IN
  /\ mediaCall[c].at = "drive" /\ k \in Scope /\ owned[k].st # "getting" /\ Ends({c}, owned[k].st = "ready")
  /\ UNCHANGED <<store, corestore, opening, owned, drives, link, closing>>

Unpin(k) ==
  /\ k \in pins /\ pins' = pins \ {k}
  /\ UNCHANGED <<store, corestore, opening, owned, drives, link, mediaCall, closing>>

\* 'connection' of the media swarm.
Connected ==
  /\ link = NoLink
  /\ NeedsStore(link' = store /\ UNCHANGED owned, link' = LinkWaits)
  /\ UNCHANGED <<pins, mediaCall, closing>>

Disconnected ==
  /\ link # NoLink /\ link' = NoLink
  /\ UNCHANGED <<store, corestore, opening, owned, drives, pins, mediaCall, closing>>

\* The library closes the store.
StoreBreaks ==
  /\ StoreOpen /\ corestore' = [corestore EXCEPT ![store] = "closed"]
  /\ UNCHANGED <<store, opening, owned, drives, pins, link, mediaCall, closing>>

-----------------------------------------------------------------------------
(* close(), asked by the host of a worklet.                                 *)

CloseAsked ==
  /\ closing = "no" /\ closing' = "asked" /\ link' = NoLink
  /\ UNCHANGED <<store, corestore, opening, owned, drives, pins, mediaCall>>

\* It waits for the own drives only.
BadReleases == \A s \in Scope : owned[s].st # "getting"

\* It waits for the opening and the own drives that are on their way.
Releases == opening.at = "no" /\ \A s \in Scope : owned[s].st # "getting"

CloseEnds ==
  /\ closing = "asked" /\ Releases /\ closing' = "done"
  /\ corestore' = [s \in Stores |-> IF s = store THEN "closed" ELSE corestore[s]]
  /\ drives' = [k \in Key |-> 0] /\ owned' = [s \in Scope |-> NotOwned]
  /\ UNCHANGED <<store, opening, pins, link, mediaCall>>

MediaNext ==
  \/ OldClosed \/ StoreReady \/ Restored \/ Connected \/ Disconnected \/ StoreBreaks
  \/ CloseAsked \/ CloseEnds
  \/ \E s \in Scope : RestoreOwn(s) \/ OwnReady(s)
  \/ \E k \in Mirror : RestoreMirror(k) \/ Unpin(k)
  \/ \E c \in Call :
       \/ MirrorReady(c) \/ AlreadyOpen(c)
       \/ \E k \in Key, pin \in BOOLEAN : Asks(c, k, pin)

MediaSpec == MediaInit /\ [][MediaNext]_mediaVars

-----------------------------------------------------------------------------
\* media.js:121-139, 182, 203: what a call registered, however late its drive got
\* ready, belongs to the store there is, and so does a stream.
OfTheStore ==
  /\ \A k \in Key : drives[k] \in {0, store}
  /\ \A s \in Scope : owned[s].st = "no" \/ owned[s].of = store
  /\ link \in {LinkWaits, NoLink, store}

\* media.js:307-308: the reply to the host means that no store holds its lock, and
\* none is opened after it, whatever was on its way when the close was asked.
MediaReleased == closing = "done" => \A s \in Stores : corestore[s] \in {"no", "closed"}
================================================================================
