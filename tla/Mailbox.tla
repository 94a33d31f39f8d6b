-------------------------------- MODULE Mailbox --------------------------------
(***************************************************************************)
(* resources/keets-sidecar/mailbox.js: one mailbox, its connections and     *)
(* what it keeps.  Module Mail has the messages from end to end and sees a  *)
(* mailbox as a set; here are its frames, one at a time, several recipients *)
(* and live subscriptions, the caps, and the sweep.                         *)
(*                                                                         *)
(* The mailbox does everything of a frame in one turn.  Frames come whole   *)
(* and in order (module Wire); a proof is good or it is not.                *)
(***************************************************************************)
EXTENDS Integers, FiniteSets

CONSTANTS
  Pk,             \* recipients
  Sealed,         \* sealed messages: the id of one is a hash of it
  Conn,           \* connections, each once
  Nobody,         \* no recipient
  RECIPIENT_CAP,  \* messages of one recipient
  TOTAL_CAP,      \* messages of all
  TTL,            \* hours a message is kept
  MaxClock        \* bound: hours that pass

ASSUME MailboxAssumption ==
  /\ Nobody \notin Pk /\ TTL \in Nat /\ MaxClock \in Nat
  /\ RECIPIENT_CAP \in Nat /\ TOTAL_CAP \in Nat

VARIABLES
  files,    \* <maildir>/<recipient>/<id>.bin: when it was written, or NotThere
  clock,    \* hours
  claimed, wantSub, authed,  \* of a connection
  up,       \* is it open
  subs,     \* live subscribers of a recipient
  handed    \* history: of what is held, what went to a live subscriber

mailboxVars == <<files, clock, claimed, wantSub, authed, up, subs, handed>>

NotThere == -1

MailboxTypeOK ==
  /\ files \in [Pk -> [Sealed -> NotThere..MaxClock]] /\ clock \in 0..MaxClock
  /\ claimed \in [Conn -> Pk \cup {Nobody}] /\ authed \in [Conn -> Pk \cup {Nobody}]
  /\ wantSub \in [Conn -> BOOLEAN] /\ up \in [Conn -> {"no", "open", "closed"}]
  /\ subs \in [Pk -> SUBSET Conn] /\ handed \in [Conn -> SUBSET (Pk \X Sealed)]

MailboxInit ==
  /\ files = [p \in Pk |-> [m \in Sealed |-> NotThere]] /\ clock = 0
  /\ claimed = [c \in Conn |-> Nobody] /\ authed = claimed
  /\ wantSub = [c \in Conn |-> FALSE] /\ up = [c \in Conn |-> "no"]
  /\ subs = [p \in Pk |-> {}] /\ handed = [c \in Conn |-> {}]

Held(p) == {m \in Sealed : files[p][m] # NotThere}
Total == Cardinality({x \in Pk \X Sealed : files[x[1]][x[2]] # NotThere})

\* handle(): a connection that has sent the magic.
Connects(c) ==
  /\ up[c] = "no" /\ up' = [up EXCEPT ![c] = "open"]
  /\ UNCHANGED <<files, clock, claimed, wantSub, authed, subs, handed>>

\* One subscriber is told.
BadPushes(p, m) ==
  IF subs[p] = {} THEN handed
  ELSE [handed EXCEPT ![CHOOSE c \in subs[p] : TRUE] = @ \cup {<<p, m>>}]

\* pushStored(): to every live subscriber.
Pushes(p, m) == [c \in Conn |-> IF c \in subs[p] THEN handed[c] \cup {<<p, m>>} ELSE handed[c]]

\* A message that is there already counts all the same, and is written anew.
StoreFrame(p, m) ==
  /\ \E c \in Conn : up[c] = "open"
  /\ Cardinality(Held(p)) < RECIPIENT_CAP /\ Total < TOTAL_CAP
  /\ files' = [files EXCEPT ![p][m] = clock] /\ handed' = Pushes(p, m)
  /\ UNCHANGED <<clock, claimed, wantSub, authed, up, subs>>

\* The nonce is a new one each time.
FetchFrame(c, p, sub) ==
  /\ up[c] = "open"
  /\ claimed' = [claimed EXCEPT ![c] = p] /\ wantSub' = [wantSub EXCEPT ![c] = sub]
  /\ UNCHANGED <<files, clock, authed, up, subs, handed>>

\* The proof of what was claimed last: all there is is handed over, and the
\* subscription starts, in one turn.
ProofFrame(c) ==
  LET p == claimed[c]
  IN /\ up[c] = "open" /\ p # Nobody
     /\ authed' = [authed EXCEPT ![c] = p]
     /\ IF wantSub[c] THEN /\ subs' = [subs EXCEPT ![p] = @ \cup {c}]
                            /\ handed' = [handed EXCEPT ![c] = @ \cup ({p} \X Held(p))]
                       ELSE UNCHANGED <<subs, handed>>
     /\ UNCHANGED <<files, clock, claimed, wantSub, up>>

\* What is claimed is taken for proved.
BadOwner(c) == claimed[c]

Owner(c) == authed[c]

\* Any id may be named.
AckFrame(c, m) ==
  /\ up[c] = "open" /\ Owner(c) # Nobody
  /\ files' = [files EXCEPT ![Owner(c)][m] = NotThere]
  /\ handed' = [x \in Conn |-> handed[x] \ {<<Owner(c), m>>}]
  /\ UNCHANGED <<clock, claimed, wantSub, authed, up, subs>>

\* The state of the connections that close goes with them.
Forgets(gone) ==
  /\ up' = [c \in Conn |-> IF c \in gone THEN "closed" ELSE up[c]]
  /\ claimed' = [c \in Conn |-> IF c \in gone THEN Nobody ELSE claimed[c]]
  /\ authed' = [c \in Conn |-> IF c \in gone THEN Nobody ELSE authed[c]]
  /\ wantSub' = [c \in Conn |-> c \notin gone /\ wantSub[c]]
  /\ handed' = [c \in Conn |-> IF c \in gone THEN {} ELSE handed[c]]

\* The subscriptions of a connection that is gone stay.
BadUnsubscribed(c) == subs

Unsubscribed(c) == [p \in Pk |-> subs[p] \ {c}]

ConnCloses(c) ==
  /\ up[c] = "open" /\ subs' = Unsubscribed(c) /\ Forgets({c})
  /\ UNCHANGED <<files, clock>>

\* Everything that is not new.
BadExpired(t) == t # NotThere /\ t < clock + 1

Expired(t) == t # NotThere /\ t < clock + 1 - TTL

\* sweep(), every hour.
Sweep ==
  /\ clock < MaxClock /\ clock' = clock + 1
  /\ files' = [p \in Pk |-> [m \in Sealed |-> IF Expired(files[p][m]) THEN NotThere ELSE files[p][m]]]
  /\ handed' = [c \in Conn |-> {x \in handed[c] : files'[x[1]][x[2]] # NotThere}]
  /\ UNCHANGED <<claimed, wantSub, authed, up, subs>>

\* The process is started again: the files stay.
MailboxRestarts ==
  /\ \E c \in Conn : up[c] = "open"
  /\ Forgets({c \in Conn : up[c] = "open"}) /\ subs' = [p \in Pk |-> {}]
  /\ UNCHANGED <<files, clock>>

MailboxNext ==
  \/ \E c \in Conn :
       \/ Connects(c) \/ ProofFrame(c) \/ ConnCloses(c)
       \/ \E p \in Pk, sub \in BOOLEAN : FetchFrame(c, p, sub)
       \/ \E m \in Sealed : AckFrame(c, m)
  \/ \E p \in Pk, m \in Sealed : StoreFrame(p, m)
  \/ Sweep \/ MailboxRestarts

MailboxSpec == MailboxInit /\ [][MailboxNext]_mailboxVars

-----------------------------------------------------------------------------
\* mailbox.js:13-17: a live subscriber has been handed all that the mailbox holds
\* for it, whenever that was stored, whoever else is subscribed and however often
\* it claimed another key in between.
NothingMissed ==
  \A p \in Pk : \A c \in subs[p] : up[c] = "open" /\ {p} \X Held(p) \subseteq handed[c]

\* mailbox.js:10-12, 19, 108: what is held goes by the ack of somebody who has proved
\* the key that it is addressed to, or when the TTL since the last store is over.
KeptForTTL ==
  [][\A p \in Pk : \A m \in Held(p) :
       files'[p][m] = NotThere =>
         \/ clock' - files[p][m] > TTL
         \/ \E c \in Conn : up[c] = "open" /\ authed[c] = p /\ AckFrame(c, m)]_mailboxVars
================================================================================
