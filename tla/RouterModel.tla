------------------------------ MODULE RouterModel ------------------------------
(***************************************************************************)
(* routerModel() of src/main/portmap.js: the router's name, which the help  *)
(* to forward a port by hand shows.  Anything on the network may answer the *)
(* multicast, several at a time, and name any location; the description of  *)
(* each is fetched while the answers of others come in.                     *)
(*                                                                         *)
(* A description is read in chunks; the limit on its bytes is one on them.  *)
(***************************************************************************)
EXTENDS Integers

CONSTANTS
  Responder,     \* what answers on the network
  MAX_CHUNKS     \* ROOTDESC_MAX_BYTES

ASSUME RouterModelAssumption == MAX_CHUNKS \in Nat

NoLabel == "null"

VARIABLES
  socketOpen,    \* the search; `done` is ~socketOpen
  guardSet,      \* its timer
  reads,         \* of each answer: what is done about it
  got,           \* the chunks of its description that are held
  namesItself,   \* the location that it names is its own, by http, on the network
  label          \* what the search resolves with, << >> before it does

searchVars == <<socketOpen, guardSet, reads, got, namesItself, label>>

RouterModelTypeOK ==
  /\ socketOpen \in BOOLEAN /\ guardSet \in BOOLEAN
  /\ reads \in [Responder -> {"silent", "fetching", "reading", "over"}]
  /\ got \in [Responder -> 0..(MAX_CHUNKS + 1)] /\ namesItself \in [Responder -> BOOLEAN]
  /\ label \in {<< >>, <<NoLabel>>} \cup {<<r>> : r \in Responder}

RouterModelInit ==
  /\ socketOpen = TRUE /\ guardSet = TRUE /\ label = << >>
  /\ reads = [r \in Responder |-> "silent"] /\ got = [r \in Responder |-> 0]
  /\ namesItself \in [Responder -> BOOLEAN]

-----------------------------------------------------------------------------

\* finish(): once, the first result.
Finish(v) ==
  IF socketOpen
    THEN label' = <<v>> /\ socketOpen' = FALSE /\ guardSet' = FALSE
    ELSE UNCHANGED <<label, socketOpen, guardSet>>

\* Only a responder that describes itself, on the local network, is listened to.
Follows(r) == namesItself[r]

\* An answer to the multicast. That of a responder that names another's location is left.
Announces(r) ==
  /\ socketOpen /\ reads[r] = "silent" /\ Follows(r) /\ reads' = [reads EXCEPT ![r] = "fetching"]
  /\ UNCHANGED <<socketOpen, guardSet, got, namesItself, label>>

\* Its description begins to arrive.
DescriptionBegins(r) ==
  /\ reads[r] = "fetching" /\ reads' = [reads EXCEPT ![r] = "reading"]
  /\ UNCHANGED <<socketOpen, guardSet, got, namesItself, label>>

\* No redirect, no body, no answer in time, or a connection that breaks.
DescriptionFails(r) ==
  /\ reads[r] \in {"fetching", "reading"} /\ reads' = [reads EXCEPT ![r] = "over"]
  /\ got' = [got EXCEPT ![r] = 0] /\ Finish(NoLabel) /\ UNCHANGED namesItself

\* Another chunk is kept.
BadTooLong(r) == FALSE

\* The chunk that passes the limit.
TooLong(r) == got[r] + 1 > MAX_CHUNKS

\* A chunk: past the limit the fetch is aborted, what was read is dropped.
ChunkRead(r) ==
  /\ reads[r] = "reading" /\ got[r] <= MAX_CHUNKS
  /\ IF TooLong(r)
       THEN reads' = [reads EXCEPT ![r] = "over"] /\ got' = [got EXCEPT ![r] = 0] /\ Finish(NoLabel)
       ELSE got' = [got EXCEPT ![r] = @ + 1] /\ UNCHANGED <<reads, socketOpen, guardSet, label>>
  /\ UNCHANGED namesItself

\* The end of the description, with or without a name in it.
DescriptionRead(r) ==
  /\ reads[r] = "reading" /\ reads' = [reads EXCEPT ![r] = "over"] /\ got' = [got EXCEPT ![r] = 0]
  /\ \E named \in BOOLEAN : Finish(IF named THEN r ELSE NoLabel)
  /\ UNCHANGED namesItself

\* The timer runs from the first answer.
BadSearchTimesOut ==
  /\ guardSet /\ \E r \in Responder : reads[r] # "silent"
  /\ Finish(NoLabel) /\ UNCHANGED <<reads, got, namesItself>>

\* SSDP_WAIT_MS have passed.
SearchTimesOut ==
  /\ guardSet /\ Finish(NoLabel) /\ UNCHANGED <<reads, got, namesItself>>

SearchNext ==
  \/ SearchTimesOut
  \/ \E r \in Responder : Announces(r) \/ DescriptionBegins(r) \/ DescriptionFails(r) \/ ChunkRead(r) \/ DescriptionRead(r)

RouterModelSpec == RouterModelInit /\ [][SearchNext]_searchVars

-----------------------------------------------------------------------------

\* "It must not become a way to make the app fetch arbitrary URLs or swallow a huge body"
\* (portmap.js:69-72): whoever answers, and whatever is under way when the search ends, only
\* descriptions of their own are fetched, and no more than the limit is held of one.
LabelIsModest ==
  /\ \A r \in Responder : reads[r] # "silent" => namesItself[r]
  /\ \A r \in Responder : got[r] <= MAX_CHUNKS
  /\ label # << >> /\ label[1] # NoLabel => namesItself[label[1]]
=============================================================================
