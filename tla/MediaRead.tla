------------------------------ MODULE MediaRead ------------------------------
(***************************************************************************)
(* resources/keets-sidecar/media-read.js, and fetch() of media.js: reading  *)
(* one path of a peer's drive, within a size limit and by a deadline.       *)
(*                                                                         *)
(* Readers of the same path are modelled, while the peer that writes it     *)
(* puts one content after the other there.  The time is abstracted to       *)
(* whether a reader's deadline has passed; its timer fires after that, and  *)
(* in the meantime the loop may look at the clock itself.                   *)
(***************************************************************************)
EXTENDS Integers

CONSTANTS
  MediaReader,   \* calls of fetch(), each made once
  Contents,      \* the contents, in the order in which they are written: 1..Contents
  TooBig         \* those of them that exceed the limit

ASSUME MediaReadAssumption == Contents \in Nat /\ TooBig \subseteq 1..Contents

VARIABLES
  latest,        \* what the path has: 0 for nothing
  peered,        \* a peer of the drive is connected
  loop,          \* of each reader: where its loop is
  asksPeer,      \* its activeRequests: one is outstanding
  entryOf,       \* the entry whose size it has looked at
  asked,         \* the content whose hash its url names, 0 for none
  deadline,      \* its deadline has passed
  settled        \* the promise: "no", "expired", "refused", or the content

mediaReadVars == <<latest, peered, loop, asksPeer, entryOf, asked, deadline, settled>>

Awaits == {"update", "entry", "get"}
Outcome == {[is |-> w, of |-> 0] : w \in {"no", "expired", "refused"}} \cup
           {[is |-> "bytes", of |-> c] : c \in 1..Contents}
Out(w) == [is |-> w, of |-> 0]

MediaReadTypeOK ==
  /\ latest \in 0..Contents /\ peered \in BOOLEAN
  /\ loop \in [MediaReader -> {"idle", "sleep", "over"} \cup Awaits]
  /\ asksPeer \in [MediaReader -> BOOLEAN] /\ entryOf \in [MediaReader -> 0..Contents]
  /\ asked \in [MediaReader -> 0..Contents] /\ deadline \in [MediaReader -> BOOLEAN]
  /\ settled \in [MediaReader -> Outcome]

MediaReadInit ==
  /\ latest = 0 /\ peered = FALSE
  /\ loop = [r \in MediaReader |-> "idle"] /\ asksPeer = [r \in MediaReader |-> FALSE]
  /\ entryOf = [r \in MediaReader |-> 0] /\ asked = [r \in MediaReader |-> 0]
  /\ deadline = [r \in MediaReader |-> FALSE] /\ settled = [r \in MediaReader |-> Out("no")]

-----------------------------------------------------------------------------
(* The peer, and the clock.                                                 *)

Written ==
  /\ latest < Contents /\ latest' = latest + 1
  /\ UNCHANGED <<peered, loop, asksPeer, entryOf, asked, deadline, settled>>

Peers ==
  /\ peered' = ~peered /\ UNCHANGED <<latest, loop, asksPeer, entryOf, asked, deadline, settled>>

DeadlinePasses(r) ==
  /\ loop[r] # "idle" /\ ~deadline[r] /\ deadline' = [deadline EXCEPT ![r] = TRUE]
  /\ UNCHANGED <<latest, peered, loop, asksPeer, entryOf, asked, settled>>

-----------------------------------------------------------------------------

\* Nobody looks whether the time is up.
BadInTime(r) == TRUE

\* check(): neither has the promise settled nor the deadline passed.
InTime(r) == settled[r] = Out("no") /\ ~deadline[r]

\* Every reader's requests to the drive are given up.
BadCleared(r) == [q \in MediaReader |-> FALSE]

\* clearRequests(): this reader's own, "other readers and replication stay alive".
Cleared(r) == [asksPeer EXCEPT ![r] = FALSE]

\* The race is decided, once; its finally clears the requests.
Settles(r, out) ==
  /\ settled' = [settled EXCEPT ![r] = IF @ = Out("no") THEN out ELSE @]
  /\ asksPeer' = Cleared(r)

\* The loop throws, or returns.
LoopEnds(r, out) ==
  /\ loop' = [loop EXCEPT ![r] = "over"] /\ Settles(r, out) /\ UNCHANGED entryOf

\* On to the next await, whose request is outstanding.
Asking(r, where) ==
  /\ loop' = [loop EXCEPT ![r] = where] /\ asksPeer' = [asksPeer EXCEPT ![r] = TRUE]
  /\ UNCHANGED settled

Around == UNCHANGED <<latest, peered, asked, deadline>>

\* fetch(): the url may name the hash of the content that is meant.
FetchMedia(r) ==
  /\ loop[r] = "idle" /\ \E h \in 0..Contents : asked' = [asked EXCEPT ![r] = h]
  /\ Asking(r, "update") /\ UNCHANGED <<latest, peered, deadline, entryOf>>

\* update(): answered by a peer, or there is none to be found.
DriveUpdated(r) ==
  /\ loop[r] = "update" /\ asksPeer[r]
  /\ IF InTime(r) THEN Asking(r, "entry") /\ UNCHANGED entryOf ELSE LoopEnds(r, Out("expired"))
  /\ Around

\* entry(): what the path has now, or nothing; its size is looked at before a block of it
\* is asked for.
EntryFound(r) ==
  /\ loop[r] = "entry" /\ asksPeer[r]
  /\ CASE ~InTime(r) -> LoopEnds(r, Out("expired"))
       [] InTime(r) /\ (peered => latest = 0) ->
            /\ loop' = [loop EXCEPT ![r] = "sleep"] /\ asksPeer' = [asksPeer EXCEPT ![r] = FALSE]
            /\ UNCHANGED <<entryOf, settled>>
       [] InTime(r) /\ peered /\ latest \in TooBig -> LoopEnds(r, Out("refused"))
       [] OTHER ->
            /\ entryOf' = [entryOf EXCEPT ![r] = latest] /\ Asking(r, "get")
  /\ Around

\* The path is read again when its bytes are.
BadBytesOf(r) == latest

\* get(entry): the bytes of the entry that was looked at, whatever the path has by now.
BytesOf(r) == entryOf[r]

\* The bytes are there, or too few of them; fetch() compares the hash at the end.
BytesRead(r) ==
  /\ loop[r] = "get" /\ asksPeer[r] /\ peered
  /\ LET right == asked[r] \in {0, BytesOf(r)} IN
     LoopEnds(r, IF ~InTime(r) THEN Out("expired")
                 ELSE IF right THEN [is |-> "bytes", of |-> BytesOf(r)] ELSE Out("refused"))
  /\ Around

\* A second's sleep, and the loop goes round.
LoopsOn(r) ==
  /\ loop[r] = "sleep"
  /\ IF InTime(r) THEN Asking(r, "update") /\ UNCHANGED entryOf ELSE LoopEnds(r, Out("expired"))
  /\ Around

\* A request that was given up is rejected.
RequestRejected(r) ==
  /\ loop[r] \in Awaits /\ ~asksPeer[r] /\ LoopEnds(r, Out("expired")) /\ Around

\* The timer of the race: the loop is left where it is.
ReadTimesOut(r) ==
  /\ deadline[r] /\ settled[r] = Out("no") /\ Settles(r, Out("expired"))
  /\ UNCHANGED <<loop, entryOf>> /\ Around

MediaReadNext ==
  \/ Written \/ Peers
  \/ \E r \in MediaReader :
       \/ DeadlinePasses(r) \/ FetchMedia(r) \/ DriveUpdated(r) \/ EntryFound(r) \/ BytesRead(r)
       \/ LoopsOn(r) \/ RequestRejected(r) \/ ReadTimesOut(r)

MediaReadSpec == MediaReadInit /\ [][MediaReadNext]_mediaReadVars

-----------------------------------------------------------------------------

\* "A mutable path cannot change between size check and allocation" (media-read.js:1-3):
\* what a reader gets is within the limit and, if its url has a hash, what that names,
\* though the peer writes the path while it is read.
FetchedIsAsked ==
  \A r \in MediaReader :
    settled[r].is = "bytes" => settled[r].of \notin TooBig /\ asked[r] \in {0, settled[r].of}

\* A read is given up for its own deadline only, and leaves no request behind that its
\* loop would go on asking: the end of one does not take the other's with it.
GivenUpAlone ==
  \A r \in MediaReader :
    /\ settled[r] = Out("expired") => deadline[r]
    /\ settled[r] # Out("no") => ~asksPeer[r]

\* Every fetch is answered, and its loop ends too, though no peer ever is.
FetchesEnd == \A r \in MediaReader : []<>(loop[r] = "idle" \/ (settled[r] # Out("no") /\ loop[r] = "over"))
=============================================================================
