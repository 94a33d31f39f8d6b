--------------------------------- MODULE Mail ----------------------------------
(***************************************************************************)
(* src/resources/keets-sidecar/messages.js and mailbox.js: messages from    *)
(* one node to another, directly or by way of mailboxes that store and      *)
(* forward them.                                                            *)
(*                                                                          *)
(* A connection is not a process: what is under way on one - a stored frame *)
(* in `down`, an acknowledgement in `acks` - may arrive late or be lost     *)
(* with it.  Signatures, sealing and the challenge always succeed, so a     *)
(* session is dialled, open or over.  Sender and recipient are configured   *)
(* with the same mailboxes and so agree on the primary one.                 *)
(***************************************************************************)
EXTENDS Integers, FiniteSets

CONSTANTS
  Msg,          \* the messages one node sends to the other, once each
  Box,          \* the mailboxes
  Primary,      \* primaryMailbox(recipient)
  NoBox,        \* no mailbox
  Poll,         \* bound: the fetchMail() in progress at a time
  Sub,          \* the session of subscribeLoop()
  MaxRestarts,  \* bound: restarts of the recipient's sidecar
  MailFaults    \* what may go wrong: a subset of MailFaultClasses

MailFaultClasses ==
  { "lost",       \* a connection breaks, with what is under way on it
    "full",       \* a mailbox is full: RECIPIENT_CAP, TOTAL_CAP
    "disk" }      \* the inbox cannot be written

ASSUME MailAssumption ==
  /\ Primary \in Box /\ NoBox \notin Box /\ Sub \notin Poll
  /\ MaxRestarts \in Nat /\ MailFaults \subseteq MailFaultClasses

Session == Poll \cup {Sub}

VARIABLES
  direct,           \* of each message: sendDirect()
  via, at, left,    \* sendViaMailbox(), the mailbox it is at, those left to try
  mail,             \* what each mailbox stores for the recipient
  phase, box, todo, \* the recipient's sessions, and the mailboxes left to poll
  down, acks,       \* frames under way to the recipient, and to the mailboxes
  suspended, timer, \* suspend(); pollTimer is set
  inbox, kept,      \* messages in the inbox; history: messages that ever were in it
  restarts          \* history: restarts

sender    == <<direct, via, at, left>>
sessions  == <<phase, box, todo, down>>
recipient == <<suspended, timer, inbox, kept>>
mailVars  == <<sender, mail, sessions, acks, recipient, restarts>>

Directs == {"none", "dial", "saved", "ok", "failed"}
Vias    == {"none", "grace", "dial", "stored", "refused", "ok", "failed"}
Phases  == {"idle", "dial", "open", "closing", "parked", "backoff"}

\* The types, and that a session that is not over has its mailbox.
MailTypeOK ==
  /\ direct \in [Msg -> Directs] /\ via \in [Msg -> Vias]
  /\ \A m \in Msg : via[m] \in {"dial", "stored", "refused", "ok"} => at[m] \in Box
  /\ at \in [Msg -> Box \cup {NoBox}] /\ left \in [Msg -> SUBSET Box]
  /\ mail \in [Box -> SUBSET Msg]
  /\ phase \in [Session -> Phases] /\ box \in [Session -> Box \cup {NoBox}]
  /\ box[Sub] = Primary /\ phase[Sub] # "idle"
  /\ \A p \in Poll : /\ phase[p] \in {"idle", "dial", "open"}
                     /\ phase[p] = "idle" <=> box[p] = NoBox
  /\ todo \in [Poll -> SUBSET Box] /\ down \in [Session -> SUBSET Msg]
  /\ acks \subseteq Box \X Msg
  /\ suspended \in BOOLEAN /\ timer \in BOOLEAN
  /\ inbox \subseteq kept /\ kept \subseteq Msg /\ restarts \in Nat

\* start(): the poll timer and the subscription, with no mail yet.
MailInit ==
  /\ direct = [m \in Msg |-> "none"] /\ via = [m \in Msg |-> "none"]
  /\ at = [m \in Msg |-> NoBox] /\ left = [m \in Msg |-> {}]
  /\ mail = [b \in Box |-> {}]
  /\ phase = [s \in Session |-> IF s = Sub THEN "dial" ELSE "idle"]
  /\ box = [s \in Session |-> IF s = Sub THEN Primary ELSE NoBox]
  /\ todo = [p \in Poll |-> {}] /\ down = [s \in Session |-> {}]
  /\ acks = {} /\ suspended = FALSE /\ timer = TRUE
  /\ inbox = {} /\ kept = {} /\ restarts = 0

-----------------------------------------------------------------------------
(* send(): a direct dial, and after a grace the mailboxes.                  *)

Send(m) ==
  /\ direct[m] = "none"
  /\ direct' = [direct EXCEPT ![m] = "dial"]
  /\ via' = [via EXCEPT ![m] = "grace"]
  /\ UNCHANGED <<at, left, mail, sessions, acks, recipient, restarts>>

\* saveInbox(). The id of a message is a hash of what came, the plain message or the
\* sealed, so that the inbox may have it twice; it is counted once.
Save(m) == inbox' = inbox \cup {m} /\ kept' = kept \cup {m}

\* handleConn() at the recipient: saved, and the "ok" is under way.
ReceiveDirect(m) ==
  /\ direct[m] = "dial"
  /\ Save(m)
  /\ direct' = [direct EXCEPT ![m] = "saved"]
  /\ UNCHANGED <<via, at, left, mail, sessions, acks, suspended, timer, restarts>>

\* The "ok" arrives; mailboxes not yet dialled are not needed.
DirectOk(m) ==
  /\ direct[m] = "saved"
  /\ direct' = [direct EXCEPT ![m] = "ok"]
  /\ via' = [via EXCEPT ![m] = IF @ = "grace" THEN "none" ELSE @]
  /\ UNCHANGED <<at, left, mail, sessions, acks, recipient, restarts>>

\* No connection, or none any more, or an inbox that cannot be written.
DirectFails(m) ==
  /\ direct[m] = "dial" \/ (direct[m] = "saved" /\ "lost" \in MailFaults)
  /\ direct' = [direct EXCEPT ![m] = "failed"]
  /\ UNCHANGED <<via, at, left, mail, sessions, acks, recipient, restarts>>

\* The loop runs out of mailboxes, and its last error is not thrown.
BadTry(m, boxes) ==
  IF boxes = {}
    THEN via' = [via EXCEPT ![m] = "ok"] /\ UNCHANGED <<at, left>>
    ELSE \E b \in boxes :
           /\ Primary \in boxes => b = Primary
           /\ at' = [at EXCEPT ![m] = b] /\ left' = [left EXCEPT ![m] = boxes \ {b}]
           /\ via' = [via EXCEPT ![m] = "dial"]

\* The next mailbox in the order, or the last error.
Try(m, boxes) ==
  IF boxes = {}
    THEN /\ via' = [via EXCEPT ![m] = "failed"]
         /\ UNCHANGED <<at, left>>
    ELSE \E b \in boxes :
           /\ Primary \in boxes => b = Primary
           /\ at' = [at EXCEPT ![m] = b] /\ left' = [left EXCEPT ![m] = boxes \ {b}]
           /\ via' = [via EXCEPT ![m] = "dial"]

GraceEnds(m) ==
  /\ via[m] = "grace" /\ Try(m, Box)
  /\ UNCHANGED <<direct, mail, sessions, acks, recipient, restarts>>

\* pushStored(): to whoever is subscribed to this mailbox.
Pushed(b, m) ==
  [s \in Session |->
     IF s = Sub /\ box[s] = b /\ phase[s] \in {"open", "closing"}
       THEN down[s] \cup {m} ELSE down[s]]

\* The "store" of a mailbox, where the caps count what others store as well.
Store(m) ==
  /\ via[m] = "dial"
  /\ mail' = [mail EXCEPT ![at[m]] = @ \cup {m}]
  /\ down' = Pushed(at[m], m)
  /\ via' = [via EXCEPT ![m] = "stored"]
  /\ UNCHANGED <<direct, at, left, phase, box, todo, acks, recipient, restarts>>

Refuse(m) ==
  /\ via[m] = "dial" /\ "full" \in MailFaults
  /\ via' = [via EXCEPT ![m] = "refused"]
  /\ UNCHANGED <<direct, at, left, mail, sessions, acks, recipient, restarts>>

StoreOk(m) ==
  /\ via[m] = "stored"
  /\ via' = [via EXCEPT ![m] = "ok"]
  /\ UNCHANGED <<direct, at, left, mail, sessions, acks, recipient, restarts>>

\* No connection, an error, or no answer: on to the next mailbox.
StoreFails(m) ==
  /\ via[m] \in {"dial", "refused"} \/ (via[m] = "stored" /\ "lost" \in MailFaults)
  /\ Try(m, left[m])
  /\ UNCHANGED <<direct, mail, sessions, acks, recipient, restarts>>

-----------------------------------------------------------------------------
(* fetchMail() and subscribeLoop().                                         *)

\* A poll that ends with its first mailbox.
BadPollNext(p, boxes, others) ==
  /\ UNCHANGED todo
  /\ IF boxes = Box
       THEN \E b \in Box : /\ phase' = [others EXCEPT ![p] = "dial"]
                           /\ box' = [box EXCEPT ![p] = b]
       ELSE /\ phase' = [others EXCEPT ![p] = "idle"]
            /\ box' = [box EXCEPT ![p] = NoBox]

\* A poll that ends and keeps its last mailbox.
BadPollOver(p, boxes, others) ==
  IF boxes = {}
    THEN phase' = [others EXCEPT ![p] = "idle"] /\ UNCHANGED <<box, todo>>
    ELSE \E b \in boxes :
           /\ phase' = [others EXCEPT ![p] = "dial"] /\ box' = [box EXCEPT ![p] = b]
           /\ todo' = [todo EXCEPT ![p] = boxes \ {b}]

\* The mailboxes one after the other, each as its turn comes: the rest of poll p,
\* the other sessions being at `others`.
PollNext(p, boxes, others) ==
  IF boxes = {}
    THEN /\ phase' = [others EXCEPT ![p] = "idle"] /\ box' = [box EXCEPT ![p] = NoBox]
         /\ UNCHANGED todo
    ELSE \E b \in boxes :
           /\ phase' = [others EXCEPT ![p] = "dial"] /\ box' = [box EXCEPT ![p] = b]
           /\ todo' = [todo EXCEPT ![p] = boxes \ {b}]

Idle == {p \in Poll : phase[p] = "idle"}

\* loop(): the timer is set again whether or not the poll before has ended.
PollFires ==
  /\ timer
  /\ \E p \in Idle : PollNext(p, Box, phase)
  /\ UNCHANGED <<sender, mail, down, acks, recipient, restarts>>

\* The mailbox takes the proof, hands over what it stores, and subscribes in
\* the same turn.
Opens(s) ==
  /\ phase[s] = "dial"
  /\ phase' = [phase EXCEPT ![s] = "open"]
  /\ down' = [down EXCEPT ![s] = mail[box[s]]]
  /\ UNCHANGED <<sender, mail, box, todo, acks, recipient, restarts>>

\* Saved only if that works, and acknowledged anyhow.
Stored(m) ==
  \/ Save(m)
  \/ "disk" \in MailFaults /\ UNCHANGED <<inbox, kept>>

Receive(s, m) ==
  /\ phase[s] \in {"open", "closing"} /\ m \in down[s]
  /\ Stored(m)
  /\ down' = [down EXCEPT ![s] = @ \ {m}]
  /\ acks' = acks \cup {<<box[s], m>>}
  /\ UNCHANGED <<sender, mail, phase, box, todo, suspended, timer, restarts>>

\* "done", or the session is lost: the next mailbox.
PollEnds(p) ==
  /\ phase[p] = "dial" \/ (phase[p] = "open" /\ (down[p] = {} \/ "lost" \in MailFaults))
  /\ PollNext(p, todo[p], phase)
  /\ down' = [down EXCEPT ![p] = {}]
  /\ UNCHANGED <<sender, mail, acks, recipient, restarts>>

\* The subscription is over: a pause, or the wait for resume().
SubEnds ==
  /\ phase[Sub] \in {"dial", "closing"} \/ (phase[Sub] = "open" /\ "lost" \in MailFaults)
  /\ phase' = [phase EXCEPT ![Sub] = IF suspended THEN "parked" ELSE "backoff"]
  /\ down' = [down EXCEPT ![Sub] = {}]
  /\ UNCHANGED <<sender, mail, box, todo, acks, recipient, restarts>>

SubRetries ==
  /\ phase[Sub] = "backoff"
  /\ phase' = [phase EXCEPT ![Sub] = IF suspended THEN "parked" ELSE "dial"]
  /\ UNCHANGED <<sender, mail, box, todo, down, acks, recipient, restarts>>

\* The "ack" of a mailbox.
AckArrives(b, m) ==
  /\ <<b, m>> \in acks
  /\ acks' = acks \ {<<b, m>>}
  /\ mail' = [mail EXCEPT ![b] = @ \ {m}]
  /\ UNCHANGED <<sender, sessions, recipient, restarts>>

AckLost(b, m) ==
  /\ <<b, m>> \in acks /\ "lost" \in MailFaults
  /\ acks' = acks \ {<<b, m>>}
  /\ UNCHANGED <<sender, mail, sessions, recipient, restarts>>

-----------------------------------------------------------------------------
(* The recipient's app, and the life of its sidecar.                        *)

\* ackMessage(): the app has read a message, the last copy of it that there is.
AckMessage(m) ==
  /\ m \in inbox /\ inbox' = inbox \ {m}
  /\ UNCHANGED <<sender, mail, sessions, acks, suspended, timer, kept, restarts>>

Suspend ==
  /\ ~suspended /\ suspended' = TRUE
  /\ timer' = FALSE
  /\ phase' = [phase EXCEPT ![Sub] = IF @ = "open" THEN "closing" ELSE @]
  /\ UNCHANGED <<sender, mail, box, todo, down, acks, inbox, kept, restarts>>

\* The poll timer alone is started again.
BadWoken == phase

\* The subscription that waits for it is woken.
Woken == [phase EXCEPT ![Sub] = IF @ = "parked" THEN "dial" ELSE @]

\* resume(): a poll at once, and the timer.
Resume ==
  /\ suspended /\ suspended' = FALSE /\ timer' = TRUE
  /\ IF Idle = {} THEN phase' = Woken /\ UNCHANGED <<box, todo>>
                  ELSE \E p \in Idle : PollNext(p, Box, Woken)
  /\ UNCHANGED <<sender, mail, down, acks, inbox, kept, restarts>>

\* The process starts afresh; its inbox and the mailboxes stay.
Restart ==
  /\ restarts < MaxRestarts /\ restarts' = restarts + 1
  /\ phase' = [s \in Session |-> IF s = Sub THEN "dial" ELSE "idle"]
  /\ box' = [s \in Session |-> IF s = Sub THEN Primary ELSE NoBox]
  /\ todo' = [p \in Poll |-> {}] /\ down' = [s \in Session |-> {}]
  /\ suspended' = FALSE /\ timer' = TRUE
  /\ UNCHANGED <<sender, mail, acks, inbox, kept>>

-----------------------------------------------------------------------------
SendStep(m) ==
  \/ ReceiveDirect(m) \/ DirectOk(m) \/ DirectFails(m)
  \/ GraceEnds(m) \/ Store(m) \/ Refuse(m) \/ StoreOk(m) \/ StoreFails(m)

MailNext ==
  \/ \E m \in Msg : Send(m) \/ SendStep(m)
  \/ PollFires \/ \E p \in Poll : PollEnds(p)
  \/ \E s \in Session : Opens(s) \/ \E m \in Msg : Receive(s, m)
  \/ SubEnds \/ SubRetries
  \/ \E b \in Box, m \in Msg : AckArrives(b, m) \/ AckLost(b, m)
  \/ \E m \in Msg : AckMessage(m)
  \/ Suspend \/ Resume \/ Restart

MailSpec == MailInit /\ [][MailNext]_mailVars

-----------------------------------------------------------------------------
(* Properties.                                                              *)

\* What send() reports as delivered.
Delivered(m) == direct[m] = "ok" \/ via[m] = "ok"

\* No message that was reported as delivered is ever nowhere: until it has been
\* in the inbox a mailbox keeps it, whatever is cut off, restarted or
\* acknowledged late (messages.js:231-234, mailbox.js:10-12).
NoMailLost ==
  \A m \in Msg : Delivered(m) => m \in kept \/ \E b \in Box : m \in mail[b]

\* Nobody sleeps through a resume(): there is a poll timer and the subscription
\* does not wait for it, and while suspended there is no timer (messages.js:305-332).
\* A subscription that is being dialled when suspend() comes opens all the same.
NobodySleeps ==
  IF suspended THEN ~timer ELSE timer /\ phase[Sub] # "parked"

\* A message reported as delivered reaches the inbox, at whichever mailbox it
\* is parked; neither is ever undone (messages.js:213-240).
MailArrives == \A m \in Msg : []<>(Delivered(m) => m \in kept)
================================================================================
