------------------------------ MODULE MailProofs ------------------------------
(***************************************************************************)
(* Proofs about module Mail, for any messages, mailboxes, polls, restarts   *)
(* and, but for NothingLost, any faults.                                    *)
(***************************************************************************)
EXTENDS Mail, TLAPS

-----------------------------------------------------------------------------
(* Types.                                                                   *)

\* A helper that hands a message to its next mailbox keeps the types.
LEMMA TryType ==
  ASSUME MailTypeOK, NEW m \in Msg, NEW B \in SUBSET Box, Try(m, B),
         UNCHANGED direct
  PROVE  /\ via' \in [Msg -> Vias] /\ at' \in [Msg -> Box \cup {NoBox}]
         /\ left' \in [Msg -> SUBSET Box]
         /\ \A n \in Msg : via'[n] \in {"dial", "stored", "refused", "ok"} => at'[n] \in Box
<1>1. CASE B = {}
  BY <1>1 DEF Try, MailTypeOK, Vias
<1>2. CASE B # {}
  <2>1. PICK b \in B : /\ at' = [at EXCEPT ![m] = b] /\ left' = [left EXCEPT ![m] = B \ {b}]
                       /\ via' = [via EXCEPT ![m] = "dial"]
    BY <1>2 DEF Try
  <2> QED BY <2>1 DEF MailTypeOK, Vias
<1> QED BY <1>1, <1>2

\* The part of the types that is about the recipient's sessions.
SessionsOK ==
  /\ phase \in [Session -> Phases] /\ box \in [Session -> Box \cup {NoBox}]
  /\ box[Sub] = Primary /\ phase[Sub] # "idle"
  /\ \A p \in Poll : /\ phase[p] \in {"idle", "dial", "open"}
                     /\ phase[p] = "idle" <=> box[p] = NoBox
  /\ todo \in [Poll -> SUBSET Box] /\ down \in [Session -> SUBSET Msg]

\* The next mailbox of a poll keeps the types.
LEMMA PollNextType ==
  ASSUME MailTypeOK, NEW p \in Poll, NEW B \in SUBSET Box, NEW others,
         others \in [Session -> Phases], others[Sub] # "idle",
         \A q \in Poll : others[q] = phase[q],
         PollNext(p, B, others), down' \in [Session -> SUBSET Msg]
  PROVE  SessionsOK'
<1> USE MailAssumption DEF Session
<1>1. CASE B = {}
  <2>1. phase' = [others EXCEPT ![p] = "idle"] /\ box' = [box EXCEPT ![p] = NoBox] /\ todo' = todo
    BY <1>1 DEF PollNext
  <2> QED BY <2>1 DEF MailTypeOK, SessionsOK, Phases
<1>2. CASE B # {}
  <2>1. PICK b \in B : /\ phase' = [others EXCEPT ![p] = "dial"]
                       /\ box' = [box EXCEPT ![p] = b]
                       /\ todo' = [todo EXCEPT ![p] = B \ {b}]
    BY <1>2 DEF PollNext
  <2> QED BY <2>1 DEF MailTypeOK, SessionsOK, Phases
<1> QED BY <1>1, <1>2

LEMMA InitType == MailInit => MailTypeOK
<1> SUFFICES ASSUME MailInit PROVE MailTypeOK
  OBVIOUS
<1>1. SessionsOK
  BY MailAssumption DEF MailInit, SessionsOK, Session, Phases
<1>2. \A m \in Msg : via[m] \notin {"dial", "stored", "refused", "ok"}
  BY DEF MailInit
<1> QED
  BY <1>1, <1>2 DEF MailInit, MailTypeOK, SessionsOK, Directs, Vias

\* Every step keeps the types.
LEMMA NextType == MailTypeOK /\ [MailNext]_mailVars => MailTypeOK'
<1> SUFFICES ASSUME MailTypeOK, [MailNext]_mailVars PROVE MailTypeOK'
  OBVIOUS
<1> USE DEF sender, sessions, recipient
<1>1. ASSUME NEW m \in Msg, Send(m) PROVE MailTypeOK'
  BY <1>1 DEF MailTypeOK, Send, Directs, Vias
<1>2. ASSUME NEW m \in Msg, ReceiveDirect(m) PROVE MailTypeOK'
  BY <1>2 DEF MailTypeOK, ReceiveDirect, Save, Directs
<1>3. ASSUME NEW m \in Msg, DirectOk(m) PROVE MailTypeOK'
  BY <1>3 DEF MailTypeOK, DirectOk, Directs, Vias
<1>4. ASSUME NEW m \in Msg, DirectFails(m) PROVE MailTypeOK'
  BY <1>4 DEF MailTypeOK, DirectFails, Directs
<1>5. ASSUME NEW m \in Msg, GraceEnds(m) PROVE MailTypeOK'
  <2>1. Try(m, Box) /\ UNCHANGED direct
    BY <1>5 DEF GraceEnds
  <2> QED BY <1>5, <2>1, TryType DEF MailTypeOK, GraceEnds
<1>6. ASSUME NEW m \in Msg, Store(m) PROVE MailTypeOK'
  <2>1. down' \in [Session -> SUBSET Msg]
    BY <1>6 DEF Store, Pushed, MailTypeOK
  <2>2. mail' \in [Box -> SUBSET Msg]
    BY <1>6 DEF Store, MailTypeOK
  <2> QED BY <1>6, <2>1, <2>2 DEF MailTypeOK, Store, Vias
<1>7. ASSUME NEW m \in Msg, Refuse(m) PROVE MailTypeOK'
  BY <1>7 DEF MailTypeOK, Refuse, Vias
<1>8. ASSUME NEW m \in Msg, StoreOk(m) PROVE MailTypeOK'
  BY <1>8 DEF MailTypeOK, StoreOk, Vias
<1>9. ASSUME NEW m \in Msg, StoreFails(m) PROVE MailTypeOK'
  <2>1. Try(m, left[m]) /\ UNCHANGED direct /\ left[m] \in SUBSET Box
    BY <1>9 DEF StoreFails, MailTypeOK
  <2> QED BY <1>9, <2>1, TryType DEF MailTypeOK, StoreFails
<1>10. ASSUME PollFires PROVE MailTypeOK'
  <2>1. PICK p \in Idle : PollNext(p, Box, phase)
    BY <1>10 DEF PollFires
  <2>2. SessionsOK'
    BY <1>10, <2>1, PollNextType DEF MailTypeOK, Idle, PollFires
  <2> QED BY <1>10, <2>2 DEF MailTypeOK, PollFires, SessionsOK
<1>11. ASSUME NEW p \in Poll, PollEnds(p) PROVE MailTypeOK'
  <2>1. SessionsOK'
    BY <1>11, PollNextType DEF MailTypeOK, PollEnds
  <2> QED BY <1>11, <2>1 DEF MailTypeOK, PollEnds, SessionsOK
<1>12. ASSUME NEW s \in Session, Opens(s) PROVE MailTypeOK'
  BY <1>12, MailAssumption DEF MailTypeOK, Opens, Session, Phases
<1>13. ASSUME NEW s \in Session, NEW m \in Msg, Receive(s, m) PROVE MailTypeOK'
  <2>1. box[s] \in Box
    BY <1>13, MailAssumption DEF Receive, MailTypeOK, Session
  <2>2. inbox' \subseteq kept' /\ kept' \subseteq Msg
    BY <1>13 DEF Receive, Stored, Save, MailTypeOK
  <2>3. acks' \subseteq Box \X Msg /\ down' \in [Session -> SUBSET Msg]
    BY <1>13, <2>1 DEF Receive, MailTypeOK
  <2> QED BY <1>13, <2>2, <2>3 DEF MailTypeOK, Receive
<1>14. ASSUME SubEnds PROVE MailTypeOK'
  BY <1>14, MailAssumption DEF MailTypeOK, SubEnds, Session, Phases
<1>15. ASSUME SubRetries PROVE MailTypeOK'
  BY <1>15, MailAssumption DEF MailTypeOK, SubRetries, Session, Phases
<1>16. ASSUME NEW b \in Box, NEW m \in Msg, AckArrives(b, m) PROVE MailTypeOK'
  BY <1>16 DEF MailTypeOK, AckArrives
<1>17. ASSUME NEW b \in Box, NEW m \in Msg, AckLost(b, m) PROVE MailTypeOK'
  BY <1>17 DEF MailTypeOK, AckLost
<1>18. ASSUME NEW m \in Msg, AckMessage(m) PROVE MailTypeOK'
  BY <1>18 DEF MailTypeOK, AckMessage
<1>19. ASSUME Suspend PROVE MailTypeOK'
  BY <1>19, MailAssumption DEF MailTypeOK, Suspend, Session, Phases
<1>20. ASSUME Resume PROVE MailTypeOK'
  <2>1. /\ Woken \in [Session -> Phases] /\ Woken[Sub] # "idle"
        /\ \A q \in Poll : Woken[q] = phase[q]
    BY MailAssumption DEF MailTypeOK, Woken, Session, Phases
  <2>2. SessionsOK'
    <3>1. CASE Idle = {}
      <4>1. phase' = Woken /\ UNCHANGED <<box, todo, down>>
        BY <1>20, <3>1 DEF Resume
      <4> QED BY <2>1, <4>1 DEF MailTypeOK, SessionsOK
    <3>2. CASE Idle # {}
      <4>1. PICK p \in Idle : PollNext(p, Box, Woken)
        BY <1>20, <3>2 DEF Resume
      <4>2. p \in Poll /\ down' \in [Session -> SUBSET Msg]
        BY <1>20 DEF Resume, MailTypeOK, Idle
      <4> QED BY <2>1, <4>1, <4>2, PollNextType
    <3> QED BY <3>1, <3>2
  <2> QED BY <1>20, <2>2 DEF MailTypeOK, Resume, SessionsOK
<1>21. ASSUME Restart PROVE MailTypeOK'
  <2>1. SessionsOK'
    BY <1>21, MailAssumption DEF Restart, SessionsOK, Session, Phases
  <2>2. restarts' \in Nat
    BY <1>21 DEF Restart, MailTypeOK
  <2>3. suspended' \in BOOLEAN /\ timer' \in BOOLEAN
    BY <1>21, Zenon DEF Restart
  <2>4. UNCHANGED <<direct, via, at, left, mail, acks, inbox, kept>>
    BY <1>21 DEF Restart
  <2> QED BY <2>1, <2>2, <2>3, <2>4 DEF MailTypeOK, SessionsOK
<1>22. CASE UNCHANGED mailVars
  BY <1>22 DEF mailVars, MailTypeOK
<1> QED
  BY <1>1, <1>2, <1>3, <1>4, <1>5, <1>6, <1>7, <1>8, <1>9, <1>10, <1>11, <1>12, <1>13,
     <1>14, <1>15, <1>16, <1>17, <1>18, <1>19, <1>20, <1>21, <1>22 DEF MailNext, SendStep

\* The variables keep their types, whatever fails.
THEOREM TypeCorrect == MailSpec => []MailTypeOK
BY InitType, NextType, PTL DEF MailSpec

-----------------------------------------------------------------------------
(* The recipient is awake when it should be.                                *)

\* A poll leaves the subscription where the others are.
LEMMA PollLeavesSub ==
  ASSUME NEW p \in Poll, NEW B, NEW others, others \in [Session -> Phases],
         PollNext(p, B, others)
  PROVE  phase'[Sub] = others[Sub]
<1>1. p # Sub /\ Sub \in Session
  BY MailAssumption DEF Session
<1>2. \E x : phase' = [others EXCEPT ![p] = x]
  BY DEF PollNext
<1> QED BY <1>1, <1>2

\* Nobody sleeps through a resume(), and while suspended there is no timer,
\* whatever fails (messages.js:146-147, 268, 320-332).
THEOREM Awake == MailSpec => []NobodySleeps
<1>1. MailInit => NobodySleeps
  BY DEF MailInit, NobodySleeps, Session
<1>2. MailTypeOK /\ NobodySleeps /\ [MailNext]_mailVars => NobodySleeps'
  <2> SUFFICES ASSUME MailTypeOK, NobodySleeps, [MailNext]_mailVars PROVE NobodySleeps'
    OBVIOUS
  <2> USE DEF sender, sessions, recipient
  <2>1. phase \in [Session -> Phases] /\ Sub \in Session /\ Sub \notin Poll
    BY MailAssumption DEF MailTypeOK, Session
  <2>2. ASSUME NEW m \in Msg, Send(m) \/ SendStep(m) PROVE NobodySleeps'
    BY <2>2 DEF NobodySleeps, Send, SendStep, ReceiveDirect, Save, DirectOk, DirectFails,
                GraceEnds, Store, Refuse, StoreOk, StoreFails
  <2>3. ASSUME PollFires PROVE NobodySleeps'
    <3>1. PICK p \in Poll : PollNext(p, Box, phase)
      BY <2>3 DEF PollFires, Idle
    <3>2. phase'[Sub] = phase[Sub]
      BY <2>1, <3>1, PollLeavesSub
    <3> QED BY <2>3, <3>2 DEF PollFires, NobodySleeps
  <2>4. ASSUME NEW p \in Poll, PollEnds(p) PROVE NobodySleeps'
    <3>1. phase'[Sub] = phase[Sub]
      BY <2>1, <2>4, PollLeavesSub DEF PollEnds
    <3> QED BY <2>4, <3>1 DEF PollEnds, NobodySleeps
  <2>5. ASSUME NEW s \in Session, Opens(s) PROVE NobodySleeps'
    BY <2>1, <2>5 DEF Opens, NobodySleeps
  <2>6. ASSUME NEW s \in Session, NEW m \in Msg, Receive(s, m) PROVE NobodySleeps'
    BY <2>6 DEF Receive, NobodySleeps
  <2>7. ASSUME SubEnds \/ SubRetries PROVE NobodySleeps'
    BY <2>1, <2>7 DEF SubEnds, SubRetries, NobodySleeps
  <2>8. ASSUME NEW b \in Box, NEW m \in Msg, AckArrives(b, m) \/ AckLost(b, m)
        PROVE  NobodySleeps'
    BY <2>8 DEF AckArrives, AckLost, NobodySleeps
  <2>9. ASSUME NEW m \in Msg, AckMessage(m) PROVE NobodySleeps'
    BY <2>9 DEF AckMessage, NobodySleeps
  <2>10. ASSUME Suspend PROVE NobodySleeps'
    BY <2>10 DEF Suspend, NobodySleeps
  <2>11. ASSUME Resume PROVE NobodySleeps'
    <3>1. Woken \in [Session -> Phases] /\ Woken[Sub] # "parked"
      BY <2>1 DEF Woken, Phases
    <3>2. phase'[Sub] = Woken[Sub]
      BY <2>11, <3>1, PollLeavesSub DEF Resume, Idle
    <3> QED BY <2>11, <3>1, <3>2 DEF Resume, NobodySleeps
  <2>12. ASSUME Restart PROVE NobodySleeps'
    BY <2>1, <2>12 DEF Restart, NobodySleeps
  <2>13. CASE UNCHANGED mailVars
    BY <2>13 DEF mailVars, NobodySleeps
  <2> QED
    BY <2>2, <2>3, <2>4, <2>5, <2>6, <2>7, <2>8, <2>9, <2>10, <2>11, <2>12, <2>13 DEF MailNext
<1> QED BY <1>1, <1>2, TypeCorrect, PTL DEF MailSpec

-----------------------------------------------------------------------------
(* Nothing is lost.  What was handed over is in the inbox or in a mailbox,  *)
(* and a mailbox is told to delete only what has been in the inbox.         *)

Safe(m) == m \in kept \/ \E b \in Box : m \in mail[b]

HandedOver ==
  /\ \A m \in Msg : direct[m] \in {"saved", "ok"} => m \in kept
  /\ \A m \in Msg : via[m] \in {"stored", "ok"} => Safe(m)
  /\ \A b \in Box, m \in Msg : <<b, m>> \in acks => m \in kept

\* A step that only moves on the way by mailboxes, to none that has stored.
LEMMA TryHands ==
  ASSUME MailTypeOK, HandedOver, NEW m \in Msg, NEW B \in SUBSET Box, Try(m, B),
         UNCHANGED <<direct, mail, acks, kept>>
  PROVE  HandedOver'
<1>1. \E x \in {"failed", "dial"} : via' = [via EXCEPT ![m] = x]
  BY DEF Try
<1> QED BY <1>1 DEF HandedOver, Safe, MailTypeOK

LEMMA HandedOverInit == MailInit => HandedOver
BY DEF MailInit, HandedOver

LEMMA HandedOverNext ==
  ASSUME "disk" \notin MailFaults
  PROVE  MailTypeOK /\ HandedOver /\ [MailNext]_mailVars => HandedOver'
<1> SUFFICES ASSUME MailTypeOK, HandedOver, [MailNext]_mailVars PROVE HandedOver'
  OBVIOUS
<1> USE DEF sender, sessions, recipient
<1>1. ASSUME NEW m \in Msg, Send(m) PROVE HandedOver'
  BY <1>1 DEF Send, HandedOver, Safe, MailTypeOK
<1>2. ASSUME NEW m \in Msg, ReceiveDirect(m) PROVE HandedOver'
  <2>1. kept' = kept \cup {m}
    BY <1>2 DEF ReceiveDirect, Save
  <2> QED BY <1>2, <2>1 DEF ReceiveDirect, HandedOver, Safe, MailTypeOK
<1>3. ASSUME NEW m \in Msg, DirectOk(m) PROVE HandedOver'
  BY <1>3 DEF DirectOk, HandedOver, Safe, MailTypeOK
<1>4. ASSUME NEW m \in Msg, DirectFails(m) PROVE HandedOver'
  BY <1>4 DEF DirectFails, HandedOver, Safe, MailTypeOK
<1>5. ASSUME NEW m \in Msg, GraceEnds(m) PROVE HandedOver'
  BY <1>5, TryHands DEF GraceEnds
<1>6. ASSUME NEW m \in Msg, Store(m) PROVE HandedOver'
  <2>1. at[m] \in Box /\ m \in mail'[at[m]]
    BY <1>6 DEF Store, MailTypeOK
  <2>2. \A n \in Msg : Safe(n) => Safe(n)'
    BY <1>6, <2>1 DEF Store, MailTypeOK, Safe
  <2>3. Safe(m)'
    BY <2>1 DEF Safe
  <2> QED BY <1>6, <2>2, <2>3 DEF Store, HandedOver, MailTypeOK
<1>7. ASSUME NEW m \in Msg, Refuse(m) \/ StoreOk(m) PROVE HandedOver'
  BY <1>7 DEF Refuse, StoreOk, HandedOver, Safe, MailTypeOK
<1>8. ASSUME NEW m \in Msg, StoreFails(m) PROVE HandedOver'
  <2>1. Try(m, left[m]) /\ left[m] \in SUBSET Box /\ UNCHANGED <<direct, mail, acks, kept>>
    BY <1>8 DEF StoreFails, MailTypeOK
  <2> QED BY <2>1, TryHands
<1>9. ASSUME NEW s \in Session, NEW m \in Msg, Receive(s, m) PROVE HandedOver'
  <2>1. kept' = kept \cup {m} /\ UNCHANGED <<sender, mail>>
    BY <1>9 DEF Receive, Stored, Save
  <2>2. acks' = acks \cup {<<box[s], m>>}
    BY <1>9 DEF Receive
  <2> QED BY <2>1, <2>2 DEF HandedOver, Safe
<1>10. ASSUME NEW b \in Box, NEW m \in Msg, AckArrives(b, m) PROVE HandedOver'
  <2>1. m \in kept /\ kept' = kept /\ acks' \subseteq acks /\ UNCHANGED sender
    BY <1>10 DEF AckArrives, HandedOver
  <2>2. \A n \in Msg : Safe(n) => Safe(n)'
    BY <1>10, <2>1 DEF AckArrives, Safe, MailTypeOK
  <2> QED BY <2>1, <2>2 DEF HandedOver
<1>11. ASSUME NEW b \in Box, NEW m \in Msg, AckLost(b, m) PROVE HandedOver'
  BY <1>11 DEF AckLost, HandedOver, Safe
<1>12. ASSUME UNCHANGED <<direct, via, mail, acks, kept>> PROVE HandedOver'
  BY <1>12 DEF HandedOver, Safe
<1> QED
  BY <1>1, <1>2, <1>3, <1>4, <1>5, <1>6, <1>7, <1>8, <1>9, <1>10, <1>11, <1>12
  DEF MailNext, SendStep, PollFires, PollEnds, Opens, SubEnds, SubRetries, AckMessage,
      Suspend, Resume, Restart, mailVars

\* As long as the inbox can be written, no message that was reported as
\* delivered is ever nowhere (messages.js:231-234, mailbox.js:10-12).
THEOREM NothingLost ==
  ASSUME "disk" \notin MailFaults
  PROVE  MailSpec => []NoMailLost
<1>1. HandedOver => NoMailLost
  BY DEF HandedOver, Safe, NoMailLost, Delivered
<1> QED BY <1>1, HandedOverInit, HandedOverNext, TypeCorrect, PTL DEF MailSpec
================================================================================
