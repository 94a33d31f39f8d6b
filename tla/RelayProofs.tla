------------------------------ MODULE RelayProofs ------------------------------
(***************************************************************************)
(* Proofs about module Relay, for any relays, calls, connections and        *)
(* faults.                                                                  *)
(***************************************************************************)
EXTENDS Relay, FiniteSetTheorems, TLAPS

-----------------------------------------------------------------------------
(* Heals wait for one another.                                              *)

\* A call that has a heal on its way.
Healing(c) == doing[c] \in Heals \cup {"queued"}

\* Of two heals on their way one waits for the other, and one that runs waits
\* for none.  That no two run at once is not inductive without this: two that
\* are queued must not both be first.
QueueInv ==
  /\ mlsMode \in MlsModes /\ mls \in [Caller -> MlsModes]
  /\ doing \in [Caller -> Doings] /\ after \in [Caller -> SUBSET Caller]
  /\ \A c \in Caller : \A d \in after[c] : doing[c] = "queued" /\ Healing(d)
  /\ \A c, d \in Caller :
       c # d /\ Healing(c) /\ Healing(d) => c \in after[d] \/ d \in after[c]

LEMMA QueueSerialises == QueueInv => Serialised
<1> SUFFICES ASSUME QueueInv, NEW c \in Caller, NEW d \in Caller,
                    doing[c] \in Heals, doing[d] \in Heals, c # d
             PROVE  FALSE
  BY DEF Serialised
<1>1. c \in after[d] \/ d \in after[c]
  BY DEF QueueInv, Healing
<1>2. "queued" \notin Heals
  BY DEF Heals
<1> QED BY <1>1, <1>2 DEF QueueInv

LEMMA QueueInit == RelayInit => QueueInv
BY DEF RelayInit, QueueInv, Healing, Heals, Doings, MlsModes

\* A call joins the queue.
LEMMA QueueJoin ==
  ASSUME QueueInv, NEW c \in Caller, ~Healing(c), Enqueue(c),
         mlsMode' \in MlsModes, mls' \in [Caller -> MlsModes]
  PROVE  QueueInv'
<1>1. doing' = [doing EXCEPT ![c] = "queued"]
  BY DEF Enqueue, Does
<1>2. after' = [after EXCEPT ![c] = {d \in Caller : Healing(d)}]
  BY DEF Enqueue, Healing
<1>3. \A d \in Caller : Healing(d)' <=> d = c \/ Healing(d)
  BY <1>1 DEF QueueInv, Healing
<1>4. \A d \in Caller : c \notin after[d]
  BY DEF QueueInv
<1>5. after[c] = {}
  BY DEF QueueInv, Healing, Heals
<1> QED BY <1>1, <1>2, <1>3, <1>4 DEF QueueInv, Doings

\* A call goes on without changing whether its heal is on its way.
LEMMA QueueStays ==
  ASSUME QueueInv, NEW c \in Caller, NEW p \in Doings \ {"queued"},
         doing[c] # "queued", doing[c] \in Heals <=> p \in Heals,
         Does(c, p), UNCHANGED after,
         mlsMode' \in MlsModes, mls' \in [Caller -> MlsModes]
  PROVE  QueueInv'
<1>1. doing' = [doing EXCEPT ![c] = p]
  BY DEF Does
<1>2. \A d \in Caller : Healing(d)' <=> Healing(d)
  BY <1>1 DEF QueueInv, Healing
<1> QED BY <1>1, <1>2 DEF QueueInv, Doings

\* A heal's turn comes.
LEMMA QueueStarts ==
  ASSUME QueueInv, NEW c \in Caller, HealStarts(c)
  PROVE  QueueInv'
<1>1. doing' = [doing EXCEPT ![c] = "network"] /\ doing[c] = "queued" /\ after[c] = {}
  BY DEF HealStarts, Does, First
<1>2. after' = after /\ mlsMode' = mlsMode /\ mls' = [mls EXCEPT ![c] = mlsMode]
  BY <1>1 DEF HealStarts, QueueInv, settings
<1>3. \A d \in Caller : Healing(d)' <=> Healing(d)
  BY <1>1 DEF QueueInv, Healing, Heals
<1> QED BY <1>1, <1>2, <1>3 DEF QueueInv, Doings, Heals

\* A heal ends.
LEMMA QueueEnds ==
  ASSUME QueueInv, NEW c \in Caller, doing[c] \in Heals, HealEnds(c),
         mlsMode' \in MlsModes, mls' \in [Caller -> MlsModes]
  PROVE  QueueInv'
<1>1. doing' = [doing EXCEPT ![c] = "idle"] /\ after' = [d \in Caller |-> after[d] \ {c}]
  BY DEF HealEnds, Does
<1>2. \A d \in Caller : Healing(d)' <=> d # c /\ Healing(d)
  BY <1>1 DEF QueueInv, Healing, Heals
<1> QED BY <1>1, <1>2 DEF QueueInv, Doings, Heals

\* The modes are set to modes.
LEMMA ModesStay ==
  ASSUME QueueInv, [RelayNext]_relayVars
  PROVE  mlsMode' \in MlsModes /\ mls' \in [Caller -> MlsModes]
<1> USE DEF settings, locals, QueueInv
<1>1. ASSUME NEW c \in Caller, NEW m \in MlsModes, SetMls(c, m)
      PROVE  mlsMode' \in MlsModes /\ mls' \in [Caller -> MlsModes]
  BY <1>1 DEF SetMls
<1>2. ASSUME NEW c \in Caller, HealStarts(c)
      PROVE  mlsMode' \in MlsModes /\ mls' \in [Caller -> MlsModes]
  BY <1>2 DEF HealStarts
<1>3. ASSUME UNCHANGED <<mlsMode, mls>> PROVE mlsMode' \in MlsModes /\ mls' \in [Caller -> MlsModes]
  BY <1>3
<1> QED
  BY <1>1, <1>2, <1>3
  DEF RelayNext, Change, CallStep, AskHeal, SetRelay, List, Disconnect, Clear, Mls, Network,
      Connect, Slept, Info, Hosts, Pin, RefreshContacts, ComesUp, Lost, relayVars

LEMMA QueueNext == QueueInv /\ [RelayNext]_relayVars => QueueInv'
<1> SUFFICES ASSUME QueueInv, [RelayNext]_relayVars PROVE QueueInv'
  OBVIOUS
<1>m. mlsMode' \in MlsModes /\ mls' \in [Caller -> MlsModes]
  BY ModesStay
<1>1. ASSUME NEW c \in Caller, AskHeal(c) PROVE QueueInv'
  BY <1>m, <1>1, QueueJoin DEF AskHeal, Healing, Heals
<1>2. ASSUME NEW c \in Caller, NEW h \in Host, SetRelay(c, h) PROVE QueueInv'
  BY <1>m, <1>2, QueueJoin, QueueStays DEF SetRelay, Healing, Heals, Doings
<1>3. ASSUME NEW c \in Caller, NEW m \in MlsModes, SetMls(c, m) PROVE QueueInv'
  BY <1>m, <1>3, QueueStays DEF SetMls, Heals, Doings
<1>4. ASSUME NEW c \in Caller, doing[c] \in {"list", "drop"}, RelayLeft(c) PROVE QueueInv'
  BY <1>m, <1>4, QueueJoin, QueueStays DEF RelayLeft, Healing, Heals, Doings
<1>5. ASSUME NEW c \in Caller, List(c) PROVE QueueInv'
  BY <1>m, <1>4, <1>5, QueueStays DEF List, Heals, Doings
<1>6. ASSUME UNCHANGED <<doing, after>> PROVE QueueInv'
  BY <1>m, <1>6 DEF QueueInv, Healing
<1>7. ASSUME NEW c \in Caller, NEW l \in Link, Disconnect(c, l) PROVE QueueInv'
  BY <1>m, <1>4, <1>6, <1>7, QueueStays DEF Disconnect, Heals, Doings
<1>8. ASSUME NEW c \in Caller, Clear(c) PROVE QueueInv'
  BY <1>m, <1>8, QueueJoin DEF Clear, Healing, Heals
<1>9. ASSUME NEW c \in Caller, Mls(c) PROVE QueueInv'
  BY <1>m, <1>9, QueueJoin, QueueStays DEF Mls, Healing, Heals, Doings
<1>10. ASSUME NEW c \in Caller, HealStarts(c) PROVE QueueInv'
  BY <1>10, QueueStarts
<1>11. ASSUME NEW c \in Caller, NEW p \in Heals, doing[c] \in Heals, Does(c, p), UNCHANGED after
       PROVE  QueueInv'
  BY <1>m, <1>11, QueueStays DEF Heals, Doings
<1>12. ASSUME NEW c \in Caller, Network(c) PROVE QueueInv'
  <2>1. \E p \in {"connect", "info", "dup"} : Does(c, p)
    BY <1>12 DEF Network
  <2> QED BY <1>11, <1>12, <2>1 DEF Network, Heals
<1>13. ASSUME NEW c \in Caller, Connect(c) \/ Slept(c) PROVE QueueInv'
  BY <1>11, <1>13 DEF Connect, Slept, Heals
<1>14. ASSUME NEW c \in Caller, Info(c) PROVE QueueInv'
  <2>1. mls[c] \in MlsModes
    BY DEF QueueInv
  <2>2. \E p \in {"hosts", "pin", "refresh"} : Does(c, p)
    BY <1>14, <2>1 DEF Info, MlsModes
  <2> QED BY <1>11, <1>14, <2>2 DEF Info, Heals
<1>15. ASSUME NEW c \in Caller, Hosts(c) PROVE QueueInv'
  <2>1. \E p \in {"pin", "refresh"} : Does(c, p)
    BY <1>15 DEF Hosts
  <2> QED BY <1>11, <1>15, <2>1 DEF Hosts, Heals
<1>16. ASSUME NEW c \in Caller, Pin(c) PROVE QueueInv'
  BY <1>m, <1>11, <1>16, QueueEnds DEF Pin, Heals
<1>17. ASSUME NEW c \in Caller, RefreshContacts(c) PROVE QueueInv'
  BY <1>m, <1>17, QueueEnds DEF RefreshContacts, Heals
<1> QED
  BY <1>1, <1>2, <1>3, <1>5, <1>6, <1>7, <1>8, <1>9, <1>10, <1>12, <1>13, <1>14, <1>15,
     <1>16, <1>17
  DEF RelayNext, Change, CallStep, ComesUp, Lost, relayVars

\* No two heals run at once, whoever asks for them and whatever fails
\* (node-manager.js:138, 669-676).
THEOREM OneHealAtATime == RelaySpec => []Serialised
BY QueueInit, QueueNext, QueueSerialises, PTL DEF RelaySpec

-----------------------------------------------------------------------------
(* Types.                                                                   *)

\* The part of the types that the queue does not need.
NodeTypes ==
  /\ relay \in Host
  /\ to \in [Link -> Host \cup {NoHost}] /\ linksUp \subseteq Link /\ pin \in Pins
  /\ \A l \in linksUp : to[l] # NoHost
  /\ rel \in [Caller -> Host]
  /\ drop \in [Caller -> SUBSET Link] /\ pinned \in [Caller -> Pins]
  /\ relayChanges \in Nat /\ relayFails \in Nat /\ healed \in BOOLEAN

LEMMA TypeParts == QueueInv /\ NodeTypes => RelayTypeOK
BY DEF QueueInv, NodeTypes, RelayTypeOK, Healing

LEMMA NodeTypesInit == RelayInit => NodeTypes
<1> SUFFICES ASSUME RelayInit PROVE NodeTypes
  OBVIOUS
<1>1. healed \in BOOLEAN
  BY DEF RelayInit
<1>2. /\ to \in [Link -> Host \cup {NoHost}] /\ linksUp \subseteq Link
      /\ \A l \in linksUp : to[l] # NoHost
  BY DEF RelayInit
<1>3. rel \in [Caller -> Host] /\ drop \in [Caller -> SUBSET Link]
  BY DEF RelayInit
<1>4. pinned \in [Caller -> Pins] /\ pin \in Pins
  BY DEF RelayInit, Pins
<1> QED BY <1>1, <1>2, <1>3, <1>4 DEF RelayInit, NodeTypes

\* A fault is counted.
LEMMA FaultCounts ==
  ASSUME NEW f, relayFails \in Nat, FaultFree \/ Fault(f)
  PROVE  relayFails' \in Nat
BY DEF FaultFree, Fault

\* Connections that are cut leave the others typed.
LEMMA CutTypes ==
  ASSUME NodeTypes, NEW c \in Caller, NEW l \in Link, Cut(c, l) \/ UNCHANGED <<to, linksUp>>
  PROVE  /\ to' \in [Link -> Host \cup {NoHost}] /\ linksUp' \subseteq Link
         /\ \A k \in linksUp' : to'[k] # NoHost
BY DEF NodeTypes, Cut

LEMMA NodeTypesNext == QueueInv /\ NodeTypes /\ [RelayNext]_relayVars => NodeTypes'
<1> SUFFICES ASSUME QueueInv, NodeTypes, [RelayNext]_relayVars PROVE NodeTypes'
  OBVIOUS
<1> USE DEF settings, attachment, locals, relayHist
<1>1. ASSUME NEW c \in Caller, AskHeal(c) PROVE NodeTypes'
  BY <1>1 DEF AskHeal, NodeTypes
<1>2. ASSUME NEW c \in Caller, NEW h \in Host, SetRelay(c, h) PROVE NodeTypes'
  BY <1>2 DEF SetRelay, NodeTypes
<1>3. ASSUME NEW c \in Caller, NEW m \in MlsModes, SetMls(c, m) PROVE NodeTypes'
  BY <1>3 DEF SetMls, NodeTypes
<1>4. ASSUME NEW c \in Caller, List(c) PROVE NodeTypes'
  <2>1. relayFails' \in Nat
    BY <1>4, FaultCounts DEF List, NodeTypes
  <2>2. drop' \in [Caller -> SUBSET Link]
    BY <1>4 DEF List, LinksTo, NodeTypes
  <2> QED BY <1>4, <2>1, <2>2 DEF List, NodeTypes
<1>5. ASSUME NEW c \in Caller, NEW l \in Link, Disconnect(c, l) PROVE NodeTypes'
  <2>1. relayFails' \in Nat
    BY <1>5, FaultCounts DEF Disconnect, NodeTypes
  <2>2. Cut(c, l) \/ UNCHANGED <<to, linksUp>>
    BY <1>5 DEF Disconnect
  <2>3. drop' \in [Caller -> SUBSET Link]
    BY <1>5 DEF Disconnect, NodeTypes
  <2> QED BY <1>5, <2>1, <2>2, <2>3, CutTypes DEF Disconnect, NodeTypes
<1>6. ASSUME NEW p \in Pins, Pinned(p) PROVE pin' \in Pins /\ relayFails' \in Nat
  BY <1>6, FaultCounts DEF Pinned, NodeTypes
<1>7. ASSUME NEW c \in Caller, Clear(c) PROVE NodeTypes'
  BY <1>6, <1>7 DEF Clear, NodeTypes, Pins
<1>8. ASSUME NEW c \in Caller, Mls(c) PROVE NodeTypes'
  BY <1>6, <1>8 DEF Mls, NodeTypes, Pins
<1>9. ASSUME NEW c \in Caller, HealStarts(c) PROVE NodeTypes'
  BY <1>9 DEF HealStarts, NodeTypes
<1>10. ASSUME NEW c \in Caller, Network(c) PROVE NodeTypes'
  <2>1. relayFails' \in Nat
    BY <1>10, FaultCounts DEF Network, NodeTypes
  <2>2. drop' \in [Caller -> SUBSET Link]
    BY <1>10 DEF Network, Surplus, LinksTo, NodeTypes
  <2> QED BY <1>10, <2>1, <2>2 DEF Network, NodeTypes
<1>11. ASSUME NEW c \in Caller, Connect(c) PROVE NodeTypes'
  <2>1. relayFails' \in Nat
    BY <1>11, FaultCounts DEF Connect, NodeTypes
  <2>2. /\ to' \in [Link -> Host \cup {NoHost}] /\ linksUp' = linksUp
        /\ \A l \in linksUp' : to'[l] # NoHost
    BY <1>11, RelayAssumption DEF Connect, NodeTypes
  <2> QED BY <1>11, <2>1, <2>2 DEF Connect, NodeTypes
<1>12. ASSUME NEW c \in Caller, Slept(c) PROVE NodeTypes'
  BY <1>12, FaultCounts DEF Slept, NodeTypes
<1>13. ASSUME NEW c \in Caller, Info(c) PROVE NodeTypes'
  <2>1. relayFails' \in Nat
    BY <1>13, FaultCounts DEF Info, NodeTypes
  <2>2. pinned' \in [Caller -> Pins]
    BY <1>13 DEF Info, NodeTypes, Pins
  <2> QED BY <1>13, <2>1, <2>2 DEF Info, NodeTypes
<1>14. ASSUME NEW c \in Caller, Hosts(c) PROVE NodeTypes'
  <2>1. relayFails' \in Nat
    BY <1>14, FaultCounts DEF Hosts, NodeTypes
  <2> QED BY <1>14, <2>1 DEF Hosts, NodeTypes
<1>15. ASSUME NEW c \in Caller, Pin(c) PROVE NodeTypes'
  <2>1. rel[c] \in Host
    BY DEF NodeTypes
  <2>2. pin' \in Pins /\ relayFails' \in Nat
    BY <1>6, <1>15, <2>1 DEF Pin, Pins
  <2>3. healed' \in BOOLEAN
    BY <1>15, Zenon DEF Pin, HealEnds, NodeTypes
  <2> QED BY <1>15, <2>2, <2>3 DEF Pin, NodeTypes
<1>16. ASSUME NEW c \in Caller, RefreshContacts(c) PROVE NodeTypes'
  <2>1. relayFails' \in Nat
    BY <1>16, FaultCounts DEF RefreshContacts, NodeTypes
  <2> QED BY <1>16, <2>1 DEF RefreshContacts, HealEnds, NodeTypes
<1>17. ASSUME NEW l \in Link, ComesUp(l) PROVE NodeTypes'
  BY <1>17 DEF ComesUp, NodeTypes
<1>18. ASSUME NEW l \in Link, Lost(l) PROVE NodeTypes'
  <2>1. relayFails' \in Nat
    BY <1>18, FaultCounts DEF Lost, NodeTypes
  <2> QED BY <1>18, <2>1 DEF Lost, NodeTypes
<1>19. CASE UNCHANGED relayVars
  BY <1>19 DEF relayVars, NodeTypes
<1> QED
  BY <1>1, <1>2, <1>3, <1>4, <1>5, <1>7, <1>8, <1>9, <1>10, <1>11, <1>12, <1>13, <1>14,
     <1>15, <1>16, <1>17, <1>18, <1>19
  DEF RelayNext, Change, CallStep

\* The variables keep their types, whatever fails.
THEOREM TypeCorrect == RelaySpec => []RelayTypeOK
BY QueueInit, QueueNext, NodeTypesInit, NodeTypesNext, TypeParts, PTL DEF RelaySpec

-----------------------------------------------------------------------------
(* What the heals leave behind, as long as nothing fails.                   *)

\* A call that will ask for a heal, or has asked for one that has not begun.
Owes(c) == doing[c] \in {"list", "drop", "clear", "mls", "queued"}
HealOwed == \E c \in Caller : Owes(c)

\* A connection that is not up is one that a heal waits for, and there is one to a
\* relay at most: a heal connects only where there is none.
LinksSingle ==
  /\ \A l \in Link : to[l] # NoHost /\ l \notin linksUp => \E c \in Caller : doing[c] = "sleep" /\ rel[c] = to[l]
  /\ \A k, l \in Link : to[k] # NoHost /\ to[k] = to[l] => k = l
  /\ \A c \in Caller : doing[c] # "dup" /\ (doing[c] = "connect" => \A l \in Link : to[l] # rel[c])

\* What heal c is for is attached, and pinned, as far as it has come.
AttachedBy(c) ==
  /\ doing[c] = "sleep" => \E l \in Link : to[l] = rel[c]
  /\ doing[c] \in {"info", "hosts", "pin", "refresh"} => LinksTo(rel[c]) # {}

PinnedBy(c) ==
  /\ doing[c] = "hosts" => mls[c] = "relay" /\ pinned[c] = pin
  /\ doing[c] = "refresh" => (mls[c] = "relay" => pin = rel[c]) /\ (mls[c] = "custom" => pin = "custom")

\* A heal that runs goes by the settings and keeps what it has done, unless another is
\* owed; and when the calls are at rest the last heal's work is what there is.
HealsTidy ==
  /\ LinksSingle
  /\ ~HealOwed =>
       \A c \in Caller : doing[c] \in Heals => rel[c] = relay /\ mls[c] = mlsMode /\ AttachedBy(c) /\ PinnedBy(c)
  /\ Quiet /\ healed => /\ LinksTo(relay) # {}
                        /\ mlsMode = "relay" => pin = relay
                        /\ mlsMode = "custom" => pin = "custom"

Tidy == relayFails = 0 => HealsTidy

HealInv == QueueInv /\ NodeTypes /\ Tidy

LEMMA TidyInit == RelayInit => Tidy
BY RelayAssumption DEF RelayInit, Tidy, HealsTidy, LinksSingle, HealOwed, Owes, Heals, Quiet

\* A fault is remembered.
LEMMA NoFault ==
  ASSUME NodeTypes, relayFails' = 0, NEW f
  PROVE  (FaultFree => relayFails = 0) /\ ~Fault(f)
BY DEF NodeTypes, FaultFree, Fault

\* While a heal runs no other does.
LEMMA OnlyHeal ==
  ASSUME QueueInv, NEW c \in Caller, NEW d \in Caller, doing[c] \in Heals, doing[d] \in Heals
  PROVE  c = d
BY QueueSerialises DEF Serialised

\* And when the first of those that wait begins, none runs.
LEMMA FirstRunsAlone ==
  ASSUME QueueInv, NEW c \in Caller, HealStarts(c), NEW d \in Caller, d # c
  PROVE  doing[d] \notin Heals
<1> SUFFICES ASSUME doing[d] \in Heals PROVE FALSE
  OBVIOUS
<1>1. doing[c] = "queued" /\ after[c] = {}
  BY DEF HealStarts, First
<1>2. c \in after[d] \/ d \in after[c]
  BY <1>1 DEF QueueInv, Healing
<1> QED BY <1>1, <1>2 DEF QueueInv, Heals

\* Whoever owes a heal may change anything but the links of a relay: it dials none.
LEMMA OwedKeeps ==
  ASSUME HealInv, relayFails = 0, NEW c \in Caller, Owes(c)', to' \in [Link -> Host \cup {NoHost}],
         \A d \in Caller : doing'[d] \in Heals => doing[d] = doing'[d] /\ rel'[d] = rel[d],
         \A d \in Caller : doing[d] = "sleep" => doing'[d] = "sleep",
         \A l \in Link : to'[l] = NoHost \/ (to'[l] = to[l] /\ (l \in linksUp => l \in linksUp'))
  PROVE  HealsTidy'
<1> USE DEF HealInv, NodeTypes, Tidy, HealsTidy
<1>1. HealOwed' /\ ~Quiet'
  BY DEF HealOwed, Owes, Quiet
<1>2. \A l \in Link : to'[l] # NoHost /\ l \notin linksUp' => \E d \in Caller : doing'[d] = "sleep" /\ rel'[d] = to'[l]
  BY DEF LinksSingle, Heals
<1>3. \A k, l \in Link : to'[k] # NoHost /\ to'[k] = to'[l] => k = l
  BY DEF LinksSingle
<1>4. \A d \in Caller : doing'[d] # "dup" /\ (doing'[d] = "connect" => \A l \in Link : to'[l] # rel'[d])
  BY RelayAssumption DEF LinksSingle, Heals
<1> QED BY <1>1, <1>2, <1>3, <1>4 DEF LinksSingle

\* The changes of a setting, with what they do before their heal.
LEMMA TidyChanges ==
  ASSUME HealInv, NodeTypes', relayFails' = 0, NEW c \in Caller,
         \/ AskHeal(c) \/ Change(c) \/ List(c) \/ Clear(c) \/ Mls(c)
         \/ doing[c] = "drop" /\ \E l \in Link : Disconnect(c, l)
  PROVE  HealsTidy'
<1> USE DEF HealInv, NodeTypes
<1>p. doing \in [Caller -> Doings]
  BY DEF QueueInv
<1>1. CASE AskHeal(c)
  BY <1>1, <1>p, OwedKeeps DEF AskHeal, Enqueue, Does, Owes, Heals, attachment, locals, relayHist
<1>2. ASSUME NEW h \in Host, SetRelay(c, h) PROVE HealsTidy'
  <2>1. PICK where \in {"queued", "list"} : doing' = [doing EXCEPT ![c] = where]
    BY <1>2 DEF SetRelay, Enqueue, Does
  <2>2. doing[c] = "idle" /\ UNCHANGED <<to, linksUp, relayFails>> /\ rel' = [rel EXCEPT ![c] = relay]
    BY <1>2 DEF SetRelay, attachment
  <2> QED BY <1>p, <2>1, <2>2, OwedKeeps DEF Owes, Heals
<1>3. ASSUME NEW m \in MlsModes, SetMls(c, m) PROVE HealsTidy'
  BY <1>3, <1>p, OwedKeeps DEF SetMls, Does, Owes, Heals, attachment
<1>4. ASSUME RelayLeft(c) PROVE \E where \in {"clear", "queued"} : doing' = [doing EXCEPT ![c] = where]
  BY <1>4 DEF RelayLeft, Enqueue, Does
<1>5. CASE List(c)
  <2>1. relayFails = 0 /\ UNCHANGED <<to, linksUp, rel>> /\ doing[c] = "list"
    BY <1>5, NoFault DEF List, attachment
  <2>2. PICK where \in {"clear", "queued", "drop"} : doing' = [doing EXCEPT ![c] = where]
    BY <1>4, <1>5 DEF List, Does
  <2> QED BY <1>p, <2>1, <2>2, OwedKeeps DEF Owes, Heals
<1>6. ASSUME NEW l \in Link, doing[c] = "drop", Disconnect(c, l) PROVE HealsTidy'
  <2>1. relayFails = 0 /\ Cut(c, l) /\ rel' = rel
    BY <1>6, NoFault DEF Disconnect
  <2>2. PICK where \in {"clear", "queued", "drop"} : doing' = [doing EXCEPT ![c] = where]
    <3>1. doing = [doing EXCEPT ![c] = "drop"]
      BY <1>6, <1>p
    <3>2. doing' = doing \/ RelayLeft(c)
      BY <1>6 DEF Disconnect
    <3> QED BY <1>4, <3>1, <3>2
  <2>3. \A k \in Link : to'[k] = NoHost \/ (to'[k] = to[k] /\ (k \in linksUp => k \in linksUp'))
    BY <2>1 DEF Cut
  <2> QED BY <1>6, <1>p, <2>1, <2>2, <2>3, OwedKeeps DEF Owes, Heals
<1>7. CASE Clear(c) \/ Mls(c)
  <2>1. relayFails = 0 /\ UNCHANGED <<to, linksUp, rel, relayFails>> /\ doing[c] \in {"clear", "mls"}
    BY <1>7, NoFault DEF Clear, Mls, Pinned, locals
  <2>2. doing' = [doing EXCEPT ![c] = "queued"]
    BY <1>7, <2>1 DEF Clear, Mls, Enqueue, Does
  <2> QED BY <1>p, <2>1, <2>2, OwedKeeps DEF Owes, Heals
<1> QED BY <1>1, <1>2, <1>3, <1>5, <1>6, <1>7 DEF Change

\* A heal whose turn has come finds every connection up.
LEMMA TidyStarts ==
  ASSUME HealInv, relayFails' = 0, NEW c \in Caller, HealStarts(c)
  PROVE  HealsTidy'
<1> USE DEF HealInv, NodeTypes
<1>1. /\ UNCHANGED <<relay, mlsMode, to, linksUp, pin, relayFails, healed>> /\ doing[c] = "queued"
      /\ doing' = [doing EXCEPT ![c] = "network"]
      /\ rel' = [rel EXCEPT ![c] = relay] /\ mls' = [mls EXCEPT ![c] = mlsMode]
  BY DEF HealStarts, Does, settings, attachment, relayHist
<1>2. \A d \in Caller : d # c => doing[d] \notin Heals /\ doing'[d] \notin Heals
  BY <1>1, FirstRunsAlone DEF QueueInv
<1>3. doing'[c] = "network" /\ doing[c] \notin Heals /\ rel'[c] = relay /\ mls'[c] = mlsMode
  BY <1>1 DEF QueueInv, Heals
<1>4. LinksSingle'
  BY <1>1, <1>2, <1>3 DEF LinksSingle, Tidy, HealsTidy, Heals
<1> QED BY <1>1, <1>2, <1>3, <1>4 DEF HealsTidy, AttachedBy, PinnedBy, Quiet

\* A heal that goes on, from one of its steps to the next, with the node's connections as
\* they were or with one more.
LEMMA TidyGoesOn ==
  ASSUME HealInv, relayFails = 0, NEW c \in Caller, NEW p \in Heals \ {"dup"}, doing[c] \in Heals,
         doing' = [doing EXCEPT ![c] = p], UNCHANGED <<relay, mlsMode, rel, mls>>, LinksSingle',
         ~HealOwed => (AttachedBy(c) /\ PinnedBy(c))'
  PROVE  HealsTidy'
<1> USE DEF HealInv, QueueInv
<1>1. \A d \in Caller : d # c => doing[d] \notin Heals /\ doing'[d] = doing[d]
  BY OnlyHeal
<1>2. doing'[c] = p
  OBVIOUS
<1>3. HealOwed' => HealOwed
  BY <1>1, <1>2 DEF HealOwed, Owes, Heals
<1>4. HealOwed => HealOwed'
  BY <1>1, <1>2 DEF HealOwed, Owes, Heals
<1>5. ~Quiet'
  BY <1>2 DEF Quiet, Heals
<1> QED BY <1>1, <1>2, <1>3, <1>4, <1>5 DEF HealsTidy, Tidy

LEMMA TidyAttaches ==
  ASSUME HealInv, NodeTypes', relayFails' = 0, NEW c \in Caller, Network(c) \/ Connect(c) \/ Slept(c)
  PROVE  HealsTidy'
<1> USE DEF HealInv, NodeTypes, QueueInv
<1>1. /\ relayFails = 0 /\ UNCHANGED <<relay, mlsMode, linksUp, pin, rel, mls>>
      /\ doing[c] \in {"network", "connect", "sleep"}
  BY NoFault DEF Network, Connect, Slept, settings, attachment, locals
<1>2. HealsTidy
  BY <1>1 DEF Tidy
<1>3. doing[c] \in Heals /\ \A d \in Caller : d # c => doing[d] \notin Heals
  BY <1>1, OnlyHeal DEF Heals
<1>4. CASE Network(c)
  <2>1. to' = to /\ \A l \in Link : to[l] # NoHost => l \in linksUp
    BY <1>2, <1>3, <1>4 DEF Network, attachment, HealsTidy, LinksSingle, Heals
  <2>2. CASE LinksTo(rel[c]) = {}
    <3>1. doing' = [doing EXCEPT ![c] = "connect"]
      BY <1>1, <1>4, <2>2, NoFault DEF Network, Does
    <3>2. \A l \in Link : to[l] # rel[c]
      BY <2>1, <2>2, RelayAssumption DEF LinksTo
    <3>3. LinksSingle'
      BY <1>1, <1>2, <1>3, <2>1, <3>1, <3>2 DEF HealsTidy, LinksSingle, Heals
    <3> QED BY <1>1, <1>3, <3>1, <3>3, TidyGoesOn DEF Heals, AttachedBy, PinnedBy
  <2>3. CASE LinksTo(rel[c]) # {}
    <3>1. PICK l \in LinksTo(rel[c]) : doing' = [doing EXCEPT ![c] = IF LinksTo(rel[c]) \ {l} = {} THEN "info" ELSE "dup"]
      BY <1>1, <1>4, <2>3, NoFault DEF Network, Surplus, Does
    <3>2. LinksTo(rel[c]) \ {l} = {}
      BY <1>2, RelayAssumption DEF HealsTidy, LinksSingle, LinksTo
    <3>3. doing' = [doing EXCEPT ![c] = "info"]
      BY <3>1, <3>2
    <3>4. LinksSingle'
      BY <1>1, <1>2, <1>3, <2>1, <3>3 DEF HealsTidy, LinksSingle, Heals
    <3>5. LinksTo(rel[c])' # {}
      BY <1>1, <2>1, <2>3 DEF LinksTo
    <3> QED BY <1>1, <1>3, <3>3, <3>4, <3>5, TidyGoesOn DEF Heals, AttachedBy, PinnedBy
  <2> QED BY <2>2, <2>3
<1>5. CASE Connect(c)
  <2>1. PICK l \in Link : to[l] = NoHost /\ to' = [to EXCEPT ![l] = rel[c]]
    BY <1>5, NoFault DEF Connect
  <2>2. doing' = [doing EXCEPT ![c] = "sleep"] /\ doing[c] = "connect"
    BY <1>5 DEF Connect, Does
  <2>3. LinksSingle'
    BY <1>1, <1>2, <1>3, <2>1, <2>2 DEF HealsTidy, LinksSingle, Heals
  <2>4. to'[l] = rel'[c]
    BY <1>1, <2>1
  <2> QED BY <1>1, <1>3, <2>2, <2>3, <2>4, TidyGoesOn DEF Heals, AttachedBy, PinnedBy
<1>6. CASE Slept(c)
  <2>1. to' = to /\ doing' = [doing EXCEPT ![c] = "info"] /\ doing[c] = "sleep" /\ \A l \in Link \ linksUp : to[l] # rel[c]
    BY <1>6, NoFault DEF Slept, Does, attachment
  <2>2. \A l \in Link : to[l] # NoHost => l \in linksUp
    BY <1>2, <1>3, <2>1 DEF HealsTidy, LinksSingle, Heals
  <2>3. LinksSingle'
    BY <1>1, <1>2, <1>3, <2>1, <2>2 DEF HealsTidy, LinksSingle, Heals
  <2>4. ~HealOwed => \E l \in Link : to[l] = rel[c]
    BY <1>2, <1>3, <2>1 DEF HealsTidy, AttachedBy
  <2>5. ~HealOwed => LinksTo(rel[c])' # {}
    BY <1>1, <2>1, <2>4 DEF LinksTo
  <2> QED BY <1>1, <1>3, <2>1, <2>3, <2>5, TidyGoesOn DEF Heals, AttachedBy, PinnedBy
<1> QED BY <1>4, <1>5, <1>6

\* A heal that looks what is pinned, and pins.
LEMMA TidyPins ==
  ASSUME HealInv, NodeTypes', relayFails' = 0, NEW c \in Caller, Info(c) \/ Hosts(c) \/ (Pin(c) /\ ~HealEnds(c))
  PROVE  HealsTidy'
<1> USE DEF HealInv, NodeTypes, QueueInv
<1>1. /\ relayFails = 0 /\ UNCHANGED <<relay, mlsMode, to, linksUp, rel, mls>>
      /\ doing[c] \in {"info", "hosts", "pin"}
  BY NoFault DEF Info, Hosts, Pin, Pinned, settings, attachment, locals
<1>2. HealsTidy
  BY <1>1 DEF Tidy
<1>3. doing[c] \in Heals /\ \A d \in Caller : d # c => doing[d] \notin Heals
  BY <1>1, OnlyHeal DEF Heals
<1>4. ~HealOwed => LinksTo(rel[c]) # {} /\ PinnedBy(c)
  BY <1>1, <1>2, <1>3 DEF HealsTidy, AttachedBy
<1>5. ~HealOwed => LinksTo(rel[c])' # {}
  BY <1>1, <1>4 DEF LinksTo
<1>6. ASSUME NEW p \in {"hosts", "pin", "refresh"}, doing' = [doing EXCEPT ![c] = p] PROVE LinksSingle'
  BY <1>1, <1>2, <1>3, <1>6 DEF HealsTidy, LinksSingle, Heals
<1>7. CASE Info(c)
  <2>1. /\ pin' = pin /\ pinned' = [pinned EXCEPT ![c] = pin]
        /\ doing' = [doing EXCEPT ![c] = CASE mls[c] = "relay"  -> "hosts"
                                     [] mls[c] = "custom" -> IF pin = "custom" THEN "refresh" ELSE "pin"
                                     [] mls[c] = "host"   -> "refresh"]
    BY <1>7, NoFault DEF Info, Does, attachment
  <2>2. mls[c] \in MlsModes
    OBVIOUS
  <2>3. CASE mls[c] = "relay"
    <3>1. doing' = [doing EXCEPT ![c] = "hosts"]
      BY <2>1, <2>3
    <3> QED BY <1>1, <1>3, <1>5, <1>6, <2>1, <2>3, <3>1, TidyGoesOn DEF Heals, AttachedBy, PinnedBy
  <2>4. CASE mls[c] = "custom" /\ pin = "custom"
    <3>1. doing' = [doing EXCEPT ![c] = "refresh"]
      BY <2>1, <2>4
    <3> QED BY <1>1, <1>3, <1>5, <1>6, <2>1, <2>4, <3>1, TidyGoesOn DEF Heals, AttachedBy, PinnedBy
  <2>5. CASE mls[c] = "custom" /\ pin # "custom"
    <3>1. doing' = [doing EXCEPT ![c] = "pin"]
      BY <2>1, <2>5
    <3> QED BY <1>1, <1>3, <1>5, <1>6, <2>1, <2>5, <3>1, TidyGoesOn DEF Heals, AttachedBy, PinnedBy
  <2>6. CASE mls[c] = "host"
    <3>1. doing' = [doing EXCEPT ![c] = "refresh"]
      BY <2>1, <2>6
    <3> QED BY <1>1, <1>3, <1>5, <1>6, <2>1, <2>6, <3>1, TidyGoesOn DEF Heals, AttachedBy, PinnedBy
  <2> QED BY <2>2, <2>3, <2>4, <2>5, <2>6 DEF MlsModes
<1>8. CASE Hosts(c)
  <2>1. /\ UNCHANGED <<pin, pinned>> /\ doing[c] = "hosts"
        /\ doing' = [doing EXCEPT ![c] = IF RelayAttached(c) /\ pinned[c] # rel[c] THEN "pin" ELSE "refresh"]
    BY <1>8, NoFault DEF Hosts, Does, attachment, locals
  <2>2. CASE RelayAttached(c) /\ pinned[c] # rel[c]
    <3>1. doing' = [doing EXCEPT ![c] = "pin"]
      BY <2>1, <2>2
    <3> QED BY <1>1, <1>3, <1>5, <1>6, <3>1, TidyGoesOn DEF Heals, AttachedBy, PinnedBy
  <2>3. CASE ~(RelayAttached(c) /\ pinned[c] # rel[c])
    <3>1. doing' = [doing EXCEPT ![c] = "refresh"]
      BY <2>1, <2>3
    <3>2. ~HealOwed => mls[c] = "relay" /\ pin = rel[c]
      BY <1>4, <2>1, <2>3 DEF PinnedBy, RelayAttached
    <3> QED BY <1>1, <1>3, <1>5, <1>6, <2>1, <3>1, <3>2, TidyGoesOn DEF Heals, AttachedBy, PinnedBy
  <2> QED BY <2>2, <2>3
<1>9. CASE Pin(c) /\ ~HealEnds(c)
  <2>1. /\ pin' = IF mls[c] = "custom" THEN "custom" ELSE rel[c]
        /\ doing' = [doing EXCEPT ![c] = "refresh"]
    BY <1>9, NoFault DEF Pin, Pinned, Does
  <2> QED BY <1>1, <1>3, <1>5, <1>6, <2>1, TidyGoesOn DEF Heals, AttachedBy, PinnedBy
<1> QED BY <1>7, <1>8, <1>9

\* A heal that ends without a fault has refreshed.
LEMMA TidyEnds ==
  ASSUME HealInv, NodeTypes', relayFails' = 0, NEW c \in Caller, RefreshContacts(c) \/ (Pin(c) /\ HealEnds(c))
  PROVE  HealsTidy'
<1> USE DEF HealInv, NodeTypes, QueueInv
<1>1. ~(Pin(c) /\ HealEnds(c))
  <2> SUFFICES ASSUME Pin(c), HealEnds(c) PROVE FALSE
    OBVIOUS
  <2>1. relayFails' = relayFails /\ doing[c] = "pin"
    BY NoFault DEF Pin, Pinned
  <2>2. doing' = [doing EXCEPT ![c] = "refresh"] /\ doing' = [doing EXCEPT ![c] = "idle"]
    BY <2>1 DEF Pin, HealEnds, Does
  <2> QED BY <2>2
<1>2. /\ relayFails = 0 /\ UNCHANGED <<relay, mlsMode, to, linksUp, pin, rel, mls, pinned>>
      /\ doing[c] = "refresh" /\ doing' = [doing EXCEPT ![c] = "idle"]
  BY <1>1, NoFault DEF RefreshContacts, HealEnds, Does, settings, attachment, locals
<1>3. HealsTidy
  BY <1>2 DEF Tidy
<1>4. doing[c] \in Heals /\ \A d \in Caller : d # c => doing[d] \notin Heals /\ doing'[d] \notin Heals
  BY <1>2, OnlyHeal DEF Heals
<1>5. doing'[c] \notin Heals
  BY <1>2 DEF Heals
<1>6. LinksSingle'
  BY <1>2, <1>3, <1>4, <1>5 DEF HealsTidy, LinksSingle, Heals
<1>7. Quiet' => ~HealOwed
  BY <1>2 DEF Quiet, HealOwed, Owes
<1>8. ~HealOwed => rel[c] = relay /\ mls[c] = mlsMode /\ LinksTo(rel[c]) # {} /\ PinnedBy(c)
  BY <1>2, <1>3, <1>4 DEF HealsTidy, AttachedBy
<1>9. LinksTo(relay)' = LinksTo(relay)
  BY <1>2 DEF LinksTo
<1> QED BY <1>2, <1>4, <1>5, <1>6, <1>7, <1>8, <1>9 DEF HealsTidy, PinnedBy

\* A connection comes up.
LEMMA TidyComesUp ==
  ASSUME HealInv, relayFails' = 0, NEW l \in Link, ComesUp(l)
  PROVE  HealsTidy'
<1> USE DEF HealInv, NodeTypes, QueueInv
<1>1. UNCHANGED <<relay, mlsMode, to, pin, doing, rel, mls, pinned, healed>> /\ linksUp' = linksUp \cup {l} /\ relayFails = 0
  BY DEF ComesUp, settings, locals, relayHist
<1>2. HealsTidy
  BY <1>1 DEF Tidy
<1>3. LinksSingle' /\ (HealOwed' <=> HealOwed) /\ (Quiet' <=> Quiet)
  BY <1>1, <1>2 DEF HealsTidy, LinksSingle, HealOwed, Owes, Quiet
<1>4. \A h \in Host : LinksTo(h) # {} => LinksTo(h)' # {}
  BY <1>1 DEF LinksTo
<1>5. ASSUME NEW c \in Caller, AttachedBy(c) /\ PinnedBy(c) PROVE (AttachedBy(c) /\ PinnedBy(c))'
  BY <1>1, <1>4, <1>5 DEF AttachedBy, PinnedBy
<1> QED BY <1>1, <1>2, <1>3, <1>4, <1>5 DEF HealsTidy

LEMMA TidyNext == HealInv /\ [RelayNext]_relayVars => HealInv'
<1> SUFFICES ASSUME HealInv, [RelayNext]_relayVars PROVE HealInv'
  OBVIOUS
<1>1. QueueInv' /\ NodeTypes'
  BY QueueNext, NodeTypesNext DEF HealInv
<1>2. ASSUME relayFails' = 0 PROVE HealsTidy'
  <2>1. CASE UNCHANGED relayVars
    <3>1. UNCHANGED <<relay, mlsMode, to, linksUp, pin, doing, rel, mls, pinned, healed>> /\ relayFails = 0
      BY <1>2, <2>1 DEF relayVars, settings, attachment, locals, relayHist
    <3> QED
      BY <3>1 DEF HealInv, Tidy, HealsTidy, LinksSingle, HealOwed, Owes, Quiet, AttachedBy, PinnedBy, LinksTo
  <2>2. ASSUME NEW l \in Link, Lost(l) PROVE FALSE
    BY <1>2, <2>2, NoFault DEF Lost, HealInv
  <2>3. ASSUME NEW c \in Caller, NEW l \in Link, Disconnect(c, l) PROVE HealsTidy'
    <3>1. relayFails = 0 /\ doing[c] # "dup"
      <4>1. relayFails = 0
        BY <1>2, <2>3, NoFault DEF Disconnect, HealInv
      <4> QED BY <4>1 DEF HealInv, Tidy, HealsTidy, LinksSingle
    <3> QED BY <1>1, <1>2, <2>3, <3>1, TidyChanges DEF Disconnect
  <2> QED
    BY <1>1, <1>2, <2>1, <2>2, <2>3, TidyChanges, TidyStarts, TidyAttaches, TidyPins, TidyEnds, TidyComesUp
    DEF RelayNext, CallStep
<1> QED BY <1>1, <1>2 DEF HealInv, Tidy

LEMMA TidyFollows == HealInv => FollowsSettings
<1> SUFFICES ASSUME HealInv, Quiet, healed, relayFails = 0 PROVE Follows
  BY DEF FollowsSettings
<1> USE DEF HealInv, Tidy, HealsTidy, NodeTypes
<1>1. PICK l : l \in LinksTo(relay)
  OBVIOUS
<1>2. LinksTo(relay) = {l}
  BY <1>1, RelayAssumption DEF LinksSingle, LinksTo
<1>3. Cardinality(LinksTo(relay)) = 1
  BY <1>2, FS_Singleton
<1> QED BY <1>3 DEF Follows

\* However many calls overlap, once all have ended and nothing failed the node has one
\* connection to the relay that is configured, and is pinned as is configured
\* (node-manager.js:138, 671-675).
THEOREM FollowsWhenQuiet == RelaySpec => []FollowsSettings
<1>1. RelayInit => HealInv
  BY QueueInit, NodeTypesInit, TidyInit DEF HealInv
<1> QED BY <1>1, TidyNext, TidyFollows, PTL DEF RelaySpec
================================================================================
