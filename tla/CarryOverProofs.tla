---------------------------- MODULE CarryOverProofs ----------------------------
(***************************************************************************)
(* Proofs about CarryOver, for any set of keys, any margin, any starting    *)
(* counters and any number of switches and signatures: the types, and what  *)
(* holds whatever fails; then, under the benign faults, that no slot of the *)
(* classic wallet is ever signed with twice, and that CarryOver therefore   *)
(* implements OneTimeKeys.                                                  *)
(***************************************************************************)
EXTENDS CarryOverProps, TLAPS

-----------------------------------------------------------------------------
(* The shape of a flow, whatever goes wrong.                                *)

Restoring == pc \in {"waitCarry", "resync", "selfRestart", "verify"} /\ mode = "carry"
Raising   == pc \in {"resync", "selfRestart", "raise", "raiseCheck"} /\ mode \in {"none", "keep"}
Retrying  == pc \in {"retryWait", "resync", "selfRestart", "raise", "raiseCheck"} /\ mode = "retry"

\* What each place in the flow knows of the flow's locals.
FlowShape ==
  /\ pc = "idle" => mode = "none" /\ left = NoRead
  /\ pc \in {"readUses", "readPre", "commit"} =>
       /\ target = Other(kind)
       /\ kind = "minima" => mode \in {"carry", "fresh", "keep"}
       /\ kind = "parlons" => mode = "none"
       /\ replace => mode \in {"carry", "fresh"}
  /\ pc = "readUses" => left = NoRead
  /\ pc = "readPre" => mode = "carry" /\ left \in Nat
  /\ pc = "commit" /\ mode = "carry" => left \in Nat /\ pre \in Nat
  /\ pc = "commit" /\ same => left \in Nat
  /\ pc = "waitMirror" =>
       same /\ left \in Nat /\ mode \in {"none", "keep"}
  /\ pc \notin Preflight =>
       /\ target = kind
       /\ (pc = "waitMirror" \/ Restoring \/ Raising \/ Retrying)
  /\ Restoring => kind = "parlons" /\ pre \in Nat
  /\ Restoring /\ pc # "waitCarry" => goal = pre + MARGIN
  /\ Raising /\ pc = "raise" => kind = "parlons"
  /\ Raising /\ pc \in {"resync", "selfRestart"} => kind = "minima"

\* The type invariant and the shape of the flow are inductive together: a goal
\* is a number because left and pre are read before it is computed.
TypeInv == TypeOK /\ FlowShape

LEMMA OtherKind ==
  /\ \A k \in Kind : Other(k) \in Kind /\ Other(k) # k /\ Other(Other(k)) = k
  /\ Other("minima") = "parlons" /\ Other("parlons") = "minima"
  BY DEF Kind, Other

LEMMA TypeInvInit == Init => TypeInv
<1> SUFFICES ASSUME Init PROVE TypeInv
  OBVIOUS
<1> USE CarryOverAssumption DEF Init, Kind
<1>1. ConfigOK /\ up \in {"none", kind}
  BY DEF ConfigOK, NoPending
<1>2. DiskOK
  <2>1. PICK u \in [Key -> InitUses] :
          uses = [k \in Kind |-> IF wallet[k] = "classic" THEN u ELSE [x \in Key |-> 0]]
    OBVIOUS
  <2>2. u \in [Key -> Nat]
    OBVIOUS
  <2>3. uses \in [Kind -> [Key -> Nat]]
    BY <2>1, <2>2
  <2> QED
    BY <2>3 DEF DiskOK
<1>3. FlowOK
  BY DEF FlowOK, PCs, Modes, NoRead
<1>4. HistOK
  <2>1. \A n \in Nat : 0 .. n - 1 \in SUBSET Nat
    OBVIOUS
  <2>2. \A x \in Key : uses["minima"][x] \in Nat
    BY <1>2 DEF DiskOK
  <2>3. spent \in [Key -> SUBSET Nat]
    BY <2>1, <2>2
  <2> QED
    BY <2>3 DEF HistOK
<1>5. FlowShape
  BY DEF FlowShape, Restoring, Raising, Retrying, Preflight, NoRead
<1> QED
  BY <1>1, <1>2, <1>3, <1>4, <1>5 DEF TypeInv, TypeOK

\* A flow that ends leaves nothing behind but its outcome.
LEMMA FlowEndsClears ==
  ASSUME NEW success \in BOOLEAN, FlowEnds(success)
  PROVE  /\ pc' = "idle" /\ running' = FALSE /\ ok' = success
         /\ target' = "minima" /\ mode' = "none" /\ replace' = FALSE /\ same' = FALSE
         /\ left' = NoRead /\ pre' = NoRead /\ goal' = 0
         /\ FlowOK'
<1>1. /\ pc' = "idle" /\ running' = FALSE /\ ok' = success
      /\ target' = "minima" /\ mode' = "none" /\ replace' = FALSE /\ same' = FALSE
      /\ left' = NoRead /\ pre' = NoRead /\ goal' = 0
  BY DEF FlowEnds, FlowLocals
<1>2. FlowOK'
  BY <1>1 DEF FlowOK, PCs, Kind, Modes
<1> QED
  BY <1>1, <1>2

LEMMA SignTypes == ASSUME TypeInv, NEW x \in Key, Sign(x) PROVE TypeInv'
<1>1. ConfigOK /\ DiskOK /\ FlowOK /\ HistOK /\ FlowShape /\ up \in {"none", kind}
  BY DEF TypeInv, TypeOK
<1>2. up \in Kind /\ uses[up][x] \in Nat
  BY <1>1 DEF Sign, DiskOK, ConfigOK
<1>3. HistOK'
  BY <1>1, <1>2 DEF Sign, HistOK
<1>4. DiskOK'
  <2>1. [uses[up] EXCEPT ![x] = uses[up][x] + 1] \in [Key -> Nat]
    BY <1>1, <1>2 DEF DiskOK
  <2>2. uses' = [uses EXCEPT ![up] = [uses[up] EXCEPT ![x] = uses[up][x] + 1]]
    BY <1>1, <1>2 DEF Sign, DiskOK
  <2> QED
    BY <1>1, <1>2, <2>1, <2>2 DEF Sign, DiskOK
<1>5. ConfigOK' /\ FlowOK' /\ up' \in {"none", kind'}
  BY <1>1 DEF Sign, ConfigOK, FlowOK, config, flow
<1>6. FlowShape'
  BY <1>1 DEF Sign, FlowShape, Restoring, Raising, Retrying, config, flow
<1> QED
  BY <1>3, <1>4, <1>5, <1>6 DEF TypeInv, TypeOK

LEMMA CommitTypes == ASSUME TypeInv, Commit PROVE TypeInv'
<1>1. ConfigOK /\ DiskOK /\ FlowOK /\ HistOK /\ FlowShape
  BY DEF TypeInv, TypeOK
<1>2. CASE FlowEnds(TRUE)
  BY <1>1, <1>2, FlowEndsClears DEF Commit, Writes, StopNode, TypeInv, TypeOK, ConfigOK,
    FlowOK, DiskOK, HistOK, hist, NoPending, FlowShape, Restoring, Raising, Retrying,
    Preflight, Kind
<1>3. CASE ~FlowEnds(TRUE)
  <2>1. pc' = (IF mode = "carry" THEN "waitCarry" ELSE "waitMirror")
        /\ UNCHANGED <<flow, running, ok>> /\ (mode = "carry" \/ Mirrors)
    BY <1>3 DEF Commit, Goto
  <2>2. FlowOK'
    BY <1>1, <2>1 DEF FlowOK, flow, PCs
  <2>3. ConfigOK' /\ DiskOK' /\ HistOK' /\ up' \in {"none", kind'}
    BY <1>1 DEF Commit, Writes, StopNode, ConfigOK, FlowOK, DiskOK, HistOK, hist,
      NoPending, Kind
  <2>4. kind' = target
    BY DEF Commit, Writes
  <2>5. FlowShape'
    BY <1>1, <2>1, <2>4, OtherKind DEF Commit, Mirrors, flow, FlowShape, Restoring,
      Raising, Retrying, FlowOK, ConfigOK, Preflight, Kind, NoRead
  <2> QED
    BY <2>2, <2>3, <2>5 DEF TypeInv, TypeOK
<1> QED
  BY <1>2, <1>3

LEMMA MirrorTypes == ASSUME TypeInv, Mirror PROVE TypeInv'
<1>1. ConfigOK /\ DiskOK /\ FlowOK /\ HistOK /\ FlowShape /\ up \in {"none", kind}
  BY DEF TypeInv, TypeOK
<1>2. Owed \in Nat
  BY <1>1, CarryOverAssumption DEF Mirror, Owed, Larger, FlowShape, ConfigOK
<1>3. ConfigOK' /\ up' \in {"none", kind'}
  <2>1. pending' \in {pending, NoPending, [kind |-> target, to |-> Owed]}
    BY DEF Mirror, SavePending
  <2> QED
    BY <1>1, <1>2, <2>1 DEF Mirror, ConfigOK, FlowOK, NoPending
<1>4. DiskOK' /\ HistOK'
  BY <1>1 DEF Mirror, DiskOK, HistOK, disk, hist
<1>5. CASE FlowEnds(TRUE)
  BY <1>3, <1>4, <1>5, FlowEndsClears DEF TypeInv, TypeOK, FlowShape, Restoring, Raising,
    Retrying, Preflight
<1>6. CASE ~FlowEnds(TRUE)
  <2>1. /\ pc' = (IF target = "parlons" THEN "raise" ELSE "resync") /\ goal' = Owed
        /\ UNCHANGED <<kind, running, ok, target, mode, replace, same, left, pre>>
    BY <1>6 DEF Mirror, Goto
  <2>2. FlowOK'
    BY <1>1, <1>2, <2>1 DEF FlowOK, PCs
  <2>3. FlowShape'
    BY <1>1, <2>1 DEF Mirror, FlowShape, Restoring, Raising, Retrying, FlowOK, ConfigOK,
      Preflight, Kind, NoRead
  <2> QED
    BY <1>3, <1>4, <2>2, <2>3 DEF TypeInv, TypeOK
<1> QED
  BY <1>5, <1>6

LEMMA TypeInvStep == TypeInv /\ [Next]_vars => TypeInv'
<1> SUFFICES ASSUME TypeInv, [Next]_vars PROVE TypeInv'
  OBVIOUS
<1> USE CarryOverAssumption, OtherKind
    DEF TypeInv, TypeOK, ConfigOK, DiskOK, FlowOK, HistOK, FlowShape, Restoring,
        Raising, Retrying, Kind, Modes, PCs, Preflight, NoRead, NoPending,
        config, disk, flow, hist
<1>1. CASE NodeUp
  BY <1>1 DEF NodeUp, SetCounters
<1>2. CASE NodeDown
  BY <1>2 DEF NodeDown
<1>3. ASSUME NEW x \in Key, Sign(x) PROVE TypeInv'
  BY <1>3, SignTypes
<1>4. ASSUME NEW m \in Modes, NEW r \in BOOLEAN, Start(m, r) PROVE TypeInv'
  <2> USE <1>4 DEF Start, FlowLocals
  <2>1. ConfigOK' /\ up' \in {"none", kind'}
    OBVIOUS
  <2>2. DiskOK'
    OBVIOUS
  <2>3. FlowOK'
    OBVIOUS
  <2>4. HistOK'
    OBVIOUS
  <2>5. FlowShape'
    OBVIOUS
  <2> QED
    BY <2>1, <2>2, <2>3, <2>4, <2>5
<1>5. CASE Retry
  BY <1>5 DEF Retry, FlowLocals
<1>6. CASE Cancel
  <2> USE <1>6 DEF Cancel
  <2>1. ConfigOK' /\ up' \in {"none", kind'}
    OBVIOUS
  <2>2. DiskOK'
    OBVIOUS
  <2>3. FlowOK'
    OBVIOUS
  <2>4. HistOK'
    OBVIOUS
  <2>5. FlowShape'
    OBVIOUS
  <2> QED
    BY <2>1, <2>2, <2>3, <2>4, <2>5
<1>7. CASE Crash
  BY <1>7 DEF Crash, FlowEnds, FlowLocals
<1>8. CASE CrashInCommit
  <2> USE <1>8 DEF CrashInCommit, Writes, StopNode, Forgets, FlowEnds, FlowLocals
  <2>1. ConfigOK' /\ up' \in {"none", kind'}
    OBVIOUS
  <2>2. DiskOK'
    OBVIOUS
  <2>3. FlowOK'
    OBVIOUS
  <2>4. HistOK'
    OBVIOUS
  <2>5. FlowShape'
    OBVIOUS
  <2> QED
    BY <2>1, <2>2, <2>3, <2>4, <2>5
<1>9. CASE ReadUses
  BY <1>9 DEF ReadUses, Highest, Goto, AfterReadUses
<1>10. CASE SkipRead
  BY <1>10 DEF SkipRead, Goto
<1>11. CASE ReadPre
  BY <1>11 DEF ReadPre, Highest, Goto
<1>12. CASE Commit
  BY <1>12, CommitTypes
<1>13. CASE SetAsideFails
  BY <1>13 DEF SetAsideFails, Writes, StopNode, Forgets, FlowEnds, FlowLocals
<1>14. CASE CarryOwed
  BY <1>14 DEF CarryOwed, SavePending, Goto
<1>15. CASE Resync
  BY <1>15 DEF Resync, Restored, SetCounters, Goto
<1>16. CASE ResyncLost
  BY <1>16 DEF ResyncLost, Restored, SetCounters, FlowEnds, FlowLocals
<1>17. CASE SelfRestart
  BY <1>17 DEF SelfRestart, Goto
<1>18. CASE Verify
  BY <1>18 DEF Verify, FlowEnds, FlowLocals
<1>19. CASE Mirror
  BY <1>19, MirrorTypes
<1>20. CASE RetryRaise
  BY <1>20 DEF RetryRaise, SavePending, Goto
<1>21. CASE Raise
  BY <1>21 DEF Raise, SetCounters, Goto
<1>22. CASE RaiseCheck
  BY <1>22 DEF RaiseCheck, FlowEnds, FlowLocals
<1>23. CASE GiveUp
  BY <1>23 DEF GiveUp, FlowEnds, FlowLocals
<1>24. CASE UNCHANGED vars
  BY <1>24 DEF vars
<1> QED
  BY <1>1, <1>2, <1>3, <1>4, <1>5, <1>6, <1>7, <1>8, <1>9, <1>10, <1>11, <1>12,
     <1>13, <1>14, <1>15, <1>16, <1>17, <1>18, <1>19, <1>20, <1>21, <1>22, <1>23,
     <1>24 DEF Next, FlowStep

LEMMA TypeInvAlways == Spec => []TypeInv
  BY TypeInvInit, TypeInvStep, PTL DEF Spec

\* The node running is always of the configured kind, and everything keeps its
\* type: no counter is ever set from a reading that was not made.
THEOREM TypeCorrect == Spec => []TypeOK
<1>1. TypeInv => TypeOK
  BY DEF TypeInv
<1> QED
  BY <1>1, TypeInvAlways, PTL
-----------------------------------------------------------------------------
(* Facts that the later modules use.                                        *)

\* What TypeInv says of the state, for the leaves that need only types.
LEMMA Types ==
  ASSUME TypeInv
  PROVE  /\ kind \in Kind /\ target \in Kind /\ up \in {"none", kind}
         /\ wallet \in [Kind -> {"none", "classic", "own"}]
         /\ uses \in [Kind -> [Key -> Nat]] /\ spent \in [Key -> SUBSET Nat]
         /\ left \in Nat \cup {NoRead} /\ pre \in Nat \cup {NoRead} /\ goal \in Nat
         /\ reused \in BOOLEAN /\ carried \in BOOLEAN /\ same \in BOOLEAN /\ replace \in BOOLEAN /\ pc \in PCs
         /\ MARGIN \in Nat /\ FlowShape
  BY CarryOverAssumption DEF TypeInv, TypeOK, ConfigOK, DiskOK, FlowOK, HistOK

\* What the first n of the four writes come to.
LEMMA WritesDo ==
  ASSUME TypeInv, NEW n \in 0 .. 4, Writes(n)
  PROVE  /\ n >= 2 /\ Forgets => ~carried' /\ pending' = NoPending
         /\ ~(n >= 2 /\ Forgets) => carried' = carried /\ pending' = pending
         /\ ~(n >= 1 /\ replace) => wallet' = wallet
         /\ n >= 1 /\ replace => wallet' = [wallet EXCEPT !["parlons"] = "none"]
         /\ kind' = (IF n >= 4 THEN target ELSE kind)
         /\ up' = "none" /\ UNCHANGED <<uses, hist>>
<1>1. carried' = (carried /\ ~(n >= 2 /\ Forgets))
  BY Zenon DEF Writes
<1>2. n >= 2 /\ Forgets => ~carried'
  BY <1>1, Zenon
<1>3. ~(n >= 2 /\ Forgets) => carried' = carried
  <2>1. CASE carried = TRUE
    BY <1>1, <2>1, Zenon
  <2>2. CASE carried = FALSE
    BY <1>1, <2>2, Zenon
  <2> QED
    BY <2>1, <2>2, Types
<1>4. /\ n >= 2 /\ Forgets => pending' = NoPending
      /\ ~(n >= 2 /\ Forgets) => pending' = pending
      /\ ~(n >= 1 /\ replace) => wallet' = wallet
      /\ n >= 1 /\ replace => wallet' = [wallet EXCEPT !["parlons"] = "none"]
      /\ kind' = (IF n >= 4 THEN target ELSE kind)
      /\ up' = "none" /\ UNCHANGED <<uses, hist>>
  BY DEF Writes, StopNode
<1> QED
  BY <1>2, <1>3, <1>4

-----------------------------------------------------------------------------
(* What CarryOver keeps whatever goes wrong, for every subset of the fault  *)
(* classes: the inductive invariants.                                       *)

\* parlonsCarried vouches for the folder that holds the carried wallet, or for
\* one just set aside, before the next write forgets it.
CarriedInv ==
  /\ carried => wallet["parlons"] # "own"
  /\ carried /\ kind = "parlons" => wallet["parlons"] = "classic"
  /\ pc \in {"readUses", "commit"} /\ mode = "keep" => wallet["parlons"] # "none"

\* keyUsesPending is saved before anything is sent to the node.
NamedInv ==
  pc \in {"resync", "selfRestart", "verify", "raise", "raiseCheck"}
    => pending = [kind |-> target, to |-> goal]

\* What was read of the node left bounds its counters, from the reading on.
BoundInv ==
  /\ up # "none" => wallet[up] # "none"
  /\ pc \in {"readPre", "commit"} /\ left # NoRead =>
       /\ wallet[kind] # "none"
       /\ \E x \in Key : left <= uses[kind][x]
       /\ \A x \in Key : uses[kind][x] <= left + MARGIN
  /\ pc = "commit" /\ mode = "carry" => left <= pre
  /\ pc = "waitMirror" => \A x \in Key : uses[Other(kind)][x] <= left + MARGIN
  /\ Restoring => \A x \in Key : uses["minima"][x] <= pre + MARGIN
  /\ Raising => \A x \in Key : uses[Other(kind)][x] <= goal

-----------------------------------------------------------------------------
(* parlonsCarried.                                                          *)

\* A switch that ends, and the writes it has made: none, some or all.
LEMMA CarriedWrites ==
  ASSUME TypeInv, CarriedInv, NEW n \in 0 .. 4, Writes(n), pc = "commit",
         pc' \notin {"readUses", "commit"}
  PROVE  CarriedInv'
<1>1. /\ kind = "minima" => target = "parlons" /\ mode \in {"carry", "fresh", "keep"}
      /\ kind = "parlons" => target = "minima" /\ ~replace
      /\ replace => mode \in {"carry", "fresh"}
      /\ kind \in Kind
  BY Types, OtherKind DEF FlowShape
<1>2. CASE n >= 2 /\ Forgets
  <2>1. ~carried'
    BY <1>2, WritesDo
  <2> QED
    BY <2>1 DEF CarriedInv
<1>3. CASE ~(n >= 2 /\ Forgets)
  <2>1. carried' = carried /\ kind' \in {kind, target}
    BY <1>3, WritesDo
  <2>2. wallet'["parlons"] \in {wallet["parlons"], "none"}
    BY WritesDo, Types DEF Kind
  <2>3. kind' = "parlons" => wallet' = wallet /\ (kind = "parlons" \/ mode = "keep")
    <3> SUFFICES ASSUME kind' = "parlons"
                 PROVE  wallet' = wallet /\ (kind = "parlons" \/ mode = "keep")
      OBVIOUS
    <3>1. CASE kind = "parlons"
      BY <1>1, <3>1, WritesDo
    <3>2. CASE kind = "minima"
      <4>1. n >= 4 /\ n >= 2 /\ target = "parlons"
        BY <1>1, <3>2, WritesDo
      <4>2. mode = "keep" /\ ~replace
        BY <1>1, <1>3, <4>1 DEF Forgets
      <4> QED
        BY <4>2, WritesDo
    <3> QED
      BY <1>1, <3>1, <3>2 DEF Kind
  <2>4. kind = "minima" /\ mode = "keep" => wallet["parlons"] # "none"
    BY DEF CarriedInv
  <2>5. carried' => wallet'["parlons"] # "own"
    BY <2>1, <2>2 DEF CarriedInv
  <2>6. carried' /\ kind' = "parlons" => wallet'["parlons"] = "classic"
    BY <2>1, <2>3, <2>4, <1>1, Types DEF CarriedInv, Kind
  <2> QED
    BY <2>5, <2>6 DEF CarriedInv
<1> QED
  BY <1>2, <1>3

LEMMA CarriedStep == ASSUME TypeInv, CarriedInv, [Next]_vars PROVE CarriedInv'
<1> USE DEF CarriedInv
<1>1. CASE NodeUp
  BY <1>1, Types DEF NodeUp, SetCounters, config, flow, disk, Kind
<1>2. CASE NodeDown \/ Cancel
  BY <1>2 DEF NodeDown, Cancel, config, disk, flow
<1>3. ASSUME NEW x \in Key, Sign(x) PROVE CarriedInv'
  BY <1>3 DEF Sign, config, flow
<1>4. ASSUME NEW m \in Modes, NEW r \in BOOLEAN, Start(m, r) PROVE CarriedInv'
  BY <1>4 DEF Start, FlowLocals, config, disk
<1>5. CASE Retry
  BY <1>5 DEF Retry, config, disk
<1>6. CASE Crash \/ GiveUp
  <2>1. pc' = "idle"
    BY <1>6, FlowEndsClears DEF Crash, GiveUp
  <2>2. UNCHANGED <<kind, carried, wallet>>
    BY <1>6 DEF Crash, GiveUp, config, disk
  <2> QED
    BY <2>1, <2>2
<1>7. CASE CrashInCommit
  <2>1. PICK n \in 0 .. 4 : Writes(n)
    BY <1>7 DEF CrashInCommit
  <2>2. pc = "commit" /\ pc' = "idle"
    BY <1>7, FlowEndsClears DEF CrashInCommit
  <2> QED
    BY <2>1, <2>2, CarriedWrites
<1>8. CASE Commit
  <2>1. pc = "commit" /\ Writes(4) /\ 4 \in 0 .. 4
    BY <1>8 DEF Commit
  <2>2. pc' \in {"waitCarry", "waitMirror", "idle"}
    BY <1>8, FlowEndsClears DEF Commit, Goto
  <2> QED
    BY <2>1, <2>2, CarriedWrites
<1>9. CASE SetAsideFails
  <2>1. pc = "commit" /\ Writes(0) /\ 0 \in 0 .. 4
    BY <1>9 DEF SetAsideFails
  <2>2. pc' = "idle"
    BY <1>9, FlowEndsClears DEF SetAsideFails
  <2> QED
    BY <2>1, <2>2, CarriedWrites
<1>10. CASE ReadUses \/ SkipRead \/ ReadPre
  <2>1. /\ UNCHANGED <<config, disk, mode>>
        /\ pc \in {"readUses", "readPre"}
        /\ pc = "readPre" => mode = "carry"
    BY <1>10, Types DEF ReadUses, SkipRead, ReadPre, FlowShape, flow
  <2> QED
    BY <2>1 DEF config, disk
<1>11. CASE CarryOwed \/ SelfRestart \/ Mirror \/ RetryRaise \/ RaiseCheck
  <2>1. pc' \notin {"readUses", "commit"} /\ UNCHANGED <<kind, carried, disk>>
    BY <1>11, FlowEndsClears DEF CarryOwed, SelfRestart, Mirror, RetryRaise, RaiseCheck,
      Goto, config
  <2> QED
    BY <2>1 DEF disk
<1>12. CASE Resync \/ ResyncLost
  <2>1. pc' \notin {"readUses", "commit"}
    BY <1>12, FlowEndsClears DEF Resync, ResyncLost, Goto
  <2>2. UNCHANGED config /\ wallet' = [wallet EXCEPT ![up] = "classic"]
    BY <1>12 DEF Resync, ResyncLost, Restored
  <2> QED
    BY <2>1, <2>2, Types DEF config, Kind
<1>13. CASE Raise
  BY <1>13 DEF Raise, Goto, config
<1>14. CASE Verify
  <2>1. /\ pc = "verify" /\ up = kind /\ kind = "parlons" /\ UNCHANGED <<kind, disk>>
    BY <1>14, Types DEF Verify, FlowShape, Preflight, Restoring, Raising, Retrying
  <2>2. CASE wallet[up] = "classic" /\ AllAtLeast(up, goal)
    <3>1. FlowEnds(TRUE)
      <4>1. (wallet[up] = "classic" /\ AllAtLeast(up, goal)) = TRUE
        BY <2>2
      <4>2. FlowEnds(wallet[up] = "classic" /\ AllAtLeast(up, goal))
        BY <1>14 DEF Verify
      <4> QED
        BY <4>1, <4>2
    <3> QED
      BY <2>1, <2>2, <3>1, FlowEndsClears DEF disk
  <2>3. CASE ~(wallet[up] = "classic" /\ AllAtLeast(up, goal))
    <3>1. (wallet[up] = "classic" /\ AllAtLeast(up, goal)) = FALSE
      BY <2>3
    <3>2. FlowEnds(FALSE)
      BY <1>14, <3>1 DEF Verify
    <3>3. carried' = (carried \/ (wallet[up] = "classic" /\ AllAtLeast(up, goal)))
      BY <1>14, Zenon DEF Verify
    <3>4. carried' => carried
      BY <2>3, <3>3, Zenon
    <3> QED
      BY <2>1, <3>2, <3>4, FlowEndsClears DEF disk
  <2> QED
    BY <2>2, <2>3
<1>15. CASE UNCHANGED vars
  BY <1>15 DEF vars, config, disk, flow
<1> QED
  BY <1>1, <1>2, <1>3, <1>4, <1>5, <1>6, <1>7, <1>8, <1>9, <1>10, <1>11, <1>12, <1>13,
     <1>14, <1>15 DEF Next, FlowStep

\* Whatever goes wrong, parlonsCarried never vouches for a Parlons Node with
\* another seed (carryover.js:271, 331).
THEOREM CarriedIsSame == Spec => []CarriedMeansSameWallet
<1>1. Init => CarriedInv
  BY DEF Init, CarriedInv
<1>2. TypeInv /\ CarriedInv /\ [Next]_vars => CarriedInv'
  BY CarriedStep
<1>3. CarriedInv => CarriedMeansSameWallet
  BY DEF CarriedInv, CarriedMeansSameWallet
<1> QED
  BY <1>1, <1>2, <1>3, TypeInvAlways, PTL DEF Spec

-----------------------------------------------------------------------------
(* keyUsesPending.                                                          *)

LEMMA NamedStep == ASSUME TypeInv, NamedInv, [Next]_vars PROVE NamedInv'
<1> DEFINE Sent == {"resync", "selfRestart", "verify", "raise", "raiseCheck"}
<1>1. CASE pc' \in Sent /\ ~(UNCHANGED <<pending, target, goal>> /\ pc \in Sent)
  <2>1. CASE CarryOwed
    <3>1. target = "parlons"
      BY <2>1, Types DEF CarryOwed, FlowShape, Preflight, Restoring, Raising, Retrying
    <3> QED
      BY <2>1, <3>1 DEF CarryOwed, SavePending, NamedInv
  <2>2. CASE Mirror
    <3>1. ~FlowEnds(TRUE)
      BY <1>1, FlowEndsClears
    <3> QED
      BY <2>2, <3>1 DEF Mirror, SavePending, NamedInv
  <2>3. CASE RetryRaise
    BY <2>3 DEF RetryRaise, SavePending, NamedInv, flow
  <2>4. CASE NodeUp \/ NodeDown \/ Cancel \/ Resync \/ SelfRestart \/ Raise
    BY <1>1, <2>4 DEF NodeUp, NodeDown, Cancel, Resync, Restored, SelfRestart, Raise, Goto,
      config, flow
  <2>5. ASSUME NEW x \in Key, Sign(x) PROVE FALSE
    BY <1>1, <2>5 DEF Sign, Preflight, config, flow
  <2>6. ASSUME NEW m \in Modes, NEW r \in BOOLEAN, Start(m, r) PROVE FALSE
    BY <1>1, <2>6 DEF Start
  <2>7. CASE Retry \/ ReadUses \/ SkipRead \/ ReadPre
    BY <1>1, <2>7 DEF Retry, ReadUses, SkipRead, ReadPre, Goto, AfterReadUses
  <2>8. CASE Crash \/ CrashInCommit \/ SetAsideFails \/ ResyncLost \/ RaiseCheck \/ GiveUp
    BY <1>1, <2>8, FlowEndsClears DEF Crash, CrashInCommit, SetAsideFails, ResyncLost,
      RaiseCheck, GiveUp
  <2>9. CASE Verify
    BY <1>1, <2>9 DEF Verify, FlowEnds
  <2>10. CASE Commit
    BY <1>1, <2>10, FlowEndsClears DEF Commit, Goto
  <2>11. CASE UNCHANGED vars
    BY <1>1, <2>11 DEF vars, config, flow
  <2> QED
    BY <2>1, <2>2, <2>3, <2>4, <2>5, <2>6, <2>7, <2>8, <2>9, <2>10, <2>11
    DEF Next, FlowStep
<1>2. CASE pc' \notin Sent \/ (UNCHANGED <<pending, target, goal>> /\ pc \in Sent)
  BY <1>2 DEF NamedInv
<1> QED
  BY <1>1, <1>2

\* A raise or a restore that did not succeed leaves keyUsesPending naming the
\* node and all it owes, whatever made it fail (carryover.js:216-217).
THEOREM FailedRaiseNamed == Spec => FailedRaiseIsNamed
<1> DEFINE Fails == /\ pc \in {"resync", "selfRestart", "verify", "raise", "raiseCheck"}
                    /\ pc' = "idle" /\ ~ok'
<1>1. Init => NamedInv
  BY DEF Init, NamedInv
<1>2. TypeInv /\ NamedInv /\ [Next]_vars => NamedInv'
  BY NamedStep
<1>3. TypeInv /\ NamedInv /\ [Next]_vars
        => [Fails => pending' = [kind |-> target, to |-> goal]]_vars
  <2> SUFFICES ASSUME TypeInv, NamedInv, Next, Fails PROVE pending' = pending
    BY DEF NamedInv
  <2>1. CASE Verify
    <3>1. ~(wallet[up] = "classic" /\ AllAtLeast(up, goal))
      <4> SUFFICES ASSUME wallet[up] = "classic" /\ AllAtLeast(up, goal) PROVE FALSE
        OBVIOUS
      <4>1. (wallet[up] = "classic" /\ AllAtLeast(up, goal)) = TRUE
        OBVIOUS
      <4>2. FlowEnds(TRUE)
        BY <2>1, <4>1 DEF Verify
      <4> QED
        BY <4>2, FlowEndsClears
    <3> QED
      BY <2>1, <3>1 DEF Verify
  <2>2. CASE RaiseCheck
    BY <2>2, FlowEndsClears DEF RaiseCheck
  <2>3. CASE GiveUp \/ Crash \/ ResyncLost
    BY <2>3 DEF GiveUp, Crash, ResyncLost, Restored, config
  <2>4. CASE NodeUp \/ NodeDown \/ Cancel \/ Resync \/ SelfRestart \/ Raise
    BY <2>4 DEF NodeUp, NodeDown, Cancel, Resync, SelfRestart, Raise, Goto, config
  <2>5. CASE \/ CrashInCommit \/ SetAsideFails \/ Commit \/ CarryOwed \/ Mirror
             \/ ReadUses \/ SkipRead \/ ReadPre \/ RetryRaise \/ Retry
    BY <2>5 DEF CrashInCommit, SetAsideFails, Commit, CarryOwed, Mirror, ReadUses, SkipRead,
      ReadPre, RetryRaise, Retry
  <2>6. ASSUME NEW x \in Key, Sign(x) PROVE pending' = pending
    BY <2>6 DEF Sign, config
  <2>7. ASSUME NEW m \in Modes, NEW r \in BOOLEAN, Start(m, r) PROVE pending' = pending
    BY <2>7 DEF Start, config
  <2> QED
    BY <2>1, <2>2, <2>3, <2>4, <2>5, <2>6, <2>7 DEF Next, FlowStep
<1> QED
  BY <1>1, <1>2, <1>3, TypeInvAlways, PTL DEF Spec, FailedRaiseIsNamed

-----------------------------------------------------------------------------
(* The counters after a switch that reports success.                        *)

LEMMA BoundSign ==
  ASSUME TypeInv, BoundInv, NEW x \in Key, Sign(x)
  PROVE  BoundInv'
<1>1. /\ up = kind /\ up \in Kind /\ pc \in Preflight /\ uses[up][x] \in Nat
      /\ uses' = [uses EXCEPT ![up] = [uses[up] EXCEPT ![x] = uses[up][x] + 1]]
      /\ UNCHANGED <<config, wallet, up, pc, flow>>
  BY Types DEF Sign
<1>2. ~Restoring' /\ ~Raising' /\ pc' # "waitMirror"
  BY <1>1 DEF Restoring, Raising, Preflight, flow
<1>3. ASSUME pc \in {"readPre", "commit"}, left # NoRead
      PROVE  /\ \E y \in Key : left <= uses'[kind][y]
             /\ \A y \in Key : uses'[kind][y] <= left + MARGIN
  <2>1. \A y \in Key : /\ uses[kind][y] \in Nat
                       /\ uses'[kind][y] = IF y = x THEN uses[kind][x] + 1 ELSE uses[kind][y]
    BY <1>1, Types
  <2>2. left \in Nat /\ uses[kind][x] < left + MARGIN
    BY <1>1, <1>3, Types DEF Sign
  <2>3. PICK y \in Key : left <= uses[kind][y]
    BY <1>3 DEF BoundInv
  <2>4. left <= uses'[kind][y]
    BY <2>1, <2>2, <2>3
  <2>5. \A z \in Key : uses[kind][z] <= left + MARGIN
    BY <1>3 DEF BoundInv
  <2>6. \A z \in Key : uses'[kind][z] <= left + MARGIN
    BY <2>1, <2>2, <2>5, Types
  <2> QED
    BY <2>4, <2>6
<1> QED
  BY <1>1, <1>2, <1>3 DEF BoundInv, config, flow

LEMMA BoundNodeUp == ASSUME TypeInv, BoundInv, NodeUp PROVE BoundInv'
<1>1. /\ up' = kind /\ kind \in Kind
      /\ UNCHANGED <<config, pc, flow>>
  BY Types DEF NodeUp
<1>2. CASE wallet[kind] # "none"
  BY <1>1, <1>2 DEF NodeUp, BoundInv, Restoring, Raising, config, disk, flow
<1>3. CASE wallet[kind] = "none"
  <2>1. /\ uses' = [uses EXCEPT ![kind] = [y \in Key |-> 0]]
        /\ wallet' = [wallet EXCEPT ![kind] = IF kind = "minima" THEN "classic" ELSE "own"]
    BY <1>3 DEF NodeUp, SetCounters
  <2>2. wallet'[kind] # "none"
    BY <1>1, <2>1, Types
  <2>3. uses'[Other(kind)] = uses[Other(kind)]
    BY <1>1, <2>1, OtherKind, Types
  <2>4. Restoring => uses'["minima"] = uses["minima"]
    BY <1>1, <2>1, Types DEF FlowShape, Kind
  <2> QED
    BY <1>1, <1>3, <2>2, <2>3, <2>4 DEF BoundInv, Restoring, Raising, config, flow
<1> QED
  BY <1>2, <1>3

\* A step that ends the flow, or leaves it where BoundInv asks nothing.
LEMMA BoundEnds ==
  ASSUME TypeInv, BoundInv, up' = "none" \/ (up' = up /\ UNCHANGED wallet), pc' = "idle"
  PROVE  BoundInv'
<1>1. ~Restoring' /\ ~Raising'
  BY DEF Restoring, Raising
<1> QED
  BY <1>1 DEF BoundInv

LEMMA BoundReads ==
  ASSUME TypeInv, BoundInv, ReadUses \/ SkipRead \/ ReadPre
  PROVE  BoundInv'
<1>1. ~Restoring' /\ ~Raising' /\ pc' # "waitMirror"
  BY DEF ReadUses, SkipRead, ReadPre, Goto, AfterReadUses, Restoring, Raising
<1>2. CASE ReadUses
  <2>1. PICK m \in Highest(up) : left' = m
    BY <1>2 DEF ReadUses
  <2>2. /\ up = kind /\ up \in Kind /\ wallet[kind] # "none"
        /\ pc' = "commit" => mode # "carry"
        /\ UNCHANGED <<config, disk, up, mode>>
    BY <1>2, Types DEF ReadUses, Goto, AfterReadUses, BoundInv, Kind
  <2>3. /\ m \in Nat /\ \E x \in Key : m <= uses[kind][x]
        /\ \A x \in Key : uses[kind][x] <= m + MARGIN
    BY <2>1, <2>2, Types DEF Highest
  <2> QED
    BY <1>1, <2>1, <2>2, <2>3 DEF BoundInv, config, disk
<1>3. CASE SkipRead
  <2>1. /\ left = NoRead /\ mode # "carry" /\ pc' = "commit"
        /\ UNCHANGED <<config, disk, up, flow>>
    BY <1>3, Types DEF SkipRead, FlowShape, Goto
  <2> QED
    BY <1>1, <2>1 DEF BoundInv, config, disk, flow
<1>4. CASE ReadPre
  <2>1. PICK m \in Highest(up) : pre' = m
    BY <1>4 DEF ReadPre
  <2>2. /\ pc = "readPre" /\ up = kind /\ up \in Kind /\ left \in Nat /\ left # NoRead
        /\ UNCHANGED <<config, disk, up, mode, left>>
    BY <1>4, Types DEF ReadPre, FlowShape, NoRead, Kind
  <2>3. PICK x \in Key : left <= uses[kind][x]
    BY <2>2 DEF BoundInv
  <2>4. uses[kind][x] <= m /\ m \in Nat /\ uses[kind][x] \in Nat
    BY <2>1, <2>2, Types DEF Highest
  <2>5. left <= m
    BY <2>2, <2>3, <2>4
  <2> QED
    BY <1>1, <2>1, <2>2, <2>5 DEF BoundInv, config, disk
<1> QED
  BY <1>2, <1>3, <1>4

LEMMA BoundCommit == ASSUME TypeInv, BoundInv, Commit PROVE BoundInv'
<1>1. /\ pc = "commit" /\ kind \in Kind /\ target = Other(kind) /\ kind' = target
      /\ Other(kind') = kind /\ up' = "none" /\ uses' = uses
  <2>1. pc = "commit" /\ kind \in Kind /\ target = Other(kind)
    BY Types DEF Commit, FlowShape
  <2>2. kind' = target /\ up' = "none" /\ uses' = uses
    BY DEF Commit, Writes, StopNode
  <2> QED
    BY <2>1, <2>2, OtherKind
<1>2. ~Raising'
  BY FlowEndsClears DEF Commit, Goto, Raising
<1>3. CASE mode = "carry"
  <2>1. /\ kind = "minima" /\ left \in Nat /\ left # NoRead /\ pre \in Nat
        /\ pc' = "waitCarry" /\ UNCHANGED flow
    BY <1>1, <1>3, Types DEF Commit, Goto, FlowShape, NoRead, Kind
  <2>2. \A x \in Key : uses["minima"][x] <= pre + MARGIN
    <3> SUFFICES ASSUME NEW x \in Key PROVE uses["minima"][x] <= pre + MARGIN
      OBVIOUS
    <3>1. /\ uses["minima"][x] \in Nat /\ uses["minima"][x] <= left + MARGIN
          /\ left <= pre
      BY <1>1, <1>3, <2>1, Types DEF BoundInv, Kind
    <3> QED
      BY <2>1, <3>1, Types
  <2> QED
    BY <1>1, <1>2, <2>1, <2>2 DEF BoundInv, flow
<1>4. CASE mode # "carry" /\ Mirrors
  <2>1. pc' = "waitMirror" /\ UNCHANGED flow /\ left # NoRead
    BY <1>4 DEF Commit, Goto, Mirrors
  <2> QED
    BY <1>1, <1>2, <2>1 DEF BoundInv, Restoring, flow
<1>5. CASE mode # "carry" /\ ~Mirrors
  BY <1>1, <1>5, BoundEnds, FlowEndsClears DEF Commit
<1> QED
  BY <1>3, <1>4, <1>5

LEMMA BoundMirror == ASSUME TypeInv, BoundInv, Mirror PROVE BoundInv'
<1>1. /\ pc = "waitMirror" /\ kind \in Kind /\ left \in Nat /\ target = kind
      /\ UNCHANGED <<kind, disk, up>>
      /\ \A x \in Key : uses[Other(kind)][x] <= left + MARGIN
  BY Types DEF Mirror, FlowShape, Preflight, BoundInv
<1>2. CASE FlowEnds(TRUE)
  BY <1>1, <1>2, BoundEnds, FlowEndsClears DEF disk
<1>3. CASE ~FlowEnds(TRUE)
  <2>1. goal' = Owed /\ pc' \in {"raise", "resync"} /\ mode' = mode
    BY <1>3 DEF Mirror, Goto
  <2>2. mode \in {"none", "keep"}
    BY <1>1, Types DEF FlowShape
  <2>3. \A x \in Key : uses[Other(kind)][x] <= Owed
    <3> SUFFICES ASSUME NEW x \in Key PROVE uses[Other(kind)][x] <= Owed
      OBVIOUS
    <3>1. uses[Other(kind)][x] \in Nat /\ uses[Other(kind)][x] <= left + MARGIN
      BY <1>1, Types, OtherKind
    <3>2. Owed \in Nat /\ Owed >= left + MARGIN
      BY <1>1, Types DEF Owed, Larger, TypeInv, TypeOK, ConfigOK
    <3> QED
      BY <1>1, <3>1, <3>2, Types
  <2> QED
    BY <1>1, <2>1, <2>2, <2>3 DEF BoundInv, Restoring, disk
<1> QED
  BY <1>2, <1>3

LEMMA BoundSets ==
  ASSUME TypeInv, BoundInv, Resync \/ Raise
  PROVE  BoundInv'
<1>1. /\ up = kind /\ kind \in Kind /\ pc \in {"resync", "raise"}
      /\ pc' \in {"selfRestart", "raiseCheck"}
      /\ uses' = [uses EXCEPT ![kind] = [x \in Key |-> goal]]
      /\ up' = "none" \/ UNCHANGED <<up, wallet>>
      /\ UNCHANGED <<kind, flow>>
  BY Types DEF Resync, Restored, Raise, SetCounters, Goto, config
<1>2. uses'[Other(kind)] = uses[Other(kind)]
  BY <1>1, OtherKind, Types
<1>3. Restoring' => Restoring /\ uses'["minima"] = uses["minima"]
  <2> SUFFICES ASSUME Restoring' PROVE Restoring /\ uses'["minima"] = uses["minima"]
    OBVIOUS
  <2>1. pc \notin Preflight /\ mode = "carry"
    BY <1>1 DEF Restoring, Preflight, flow
  <2>2. Restoring
    BY <1>1, <2>1, Types DEF FlowShape, Restoring, Raising, Retrying
  <2> QED
    BY <1>1, <2>2, Types DEF FlowShape, Kind
<1>4. Raising' => Raising
  BY <1>1 DEF Raising, flow
<1> QED
  BY <1>1, <1>2, <1>3, <1>4 DEF BoundInv, flow

LEMMA BoundStep == ASSUME TypeInv, BoundInv, [Next]_vars PROVE BoundInv'
<1>1. CASE NodeUp
  BY <1>1, BoundNodeUp
<1>2. CASE NodeDown \/ Cancel
  BY <1>2 DEF NodeDown, Cancel, BoundInv, Restoring, Raising, config, disk, flow
<1>3. ASSUME NEW x \in Key, Sign(x) PROVE BoundInv'
  BY <1>3, BoundSign
<1>4. ASSUME NEW m \in Modes, NEW r \in BOOLEAN, Start(m, r) PROVE BoundInv'
  <2>1. /\ pc' \in {"readUses", "commit"} /\ left' = NoRead /\ mode' = m
        /\ pc' = "commit" => m # "carry"
        /\ UNCHANGED <<disk, up>>
    BY <1>4, Types DEF Start, FlowLocals, Kind
  <2> QED
    BY <2>1 DEF BoundInv, Restoring, Raising, disk
<1>5. CASE Retry
  BY <1>5 DEF Retry, FlowLocals, BoundInv, Restoring, Raising, disk
<1>6. CASE Crash \/ GiveUp \/ Verify \/ RaiseCheck
  <2>1. pc' = "idle" /\ UNCHANGED wallet /\ up' \in {up, "none"}
    BY <1>6 DEF FlowEnds, Crash, GiveUp, Verify, RaiseCheck, disk
  <2> QED
    BY <2>1, BoundEnds
<1>7. CASE CrashInCommit \/ SetAsideFails \/ ResyncLost
  <2>1. pc' = "idle" /\ up' = "none"
    BY <1>7, FlowEndsClears DEF CrashInCommit, SetAsideFails, ResyncLost, Restored, Writes,
      StopNode
  <2> QED
    BY <2>1, BoundEnds
<1>8. CASE ReadUses \/ SkipRead \/ ReadPre
  BY <1>8, BoundReads
<1>9. CASE Commit
  BY <1>9, BoundCommit
<1>10. CASE CarryOwed
  <2>1. Restoring /\ pc' = "resync" /\ UNCHANGED <<disk, up, mode, pre>> /\ mode = "carry"
    BY <1>10, Types DEF CarryOwed, Goto, FlowShape, Preflight, Restoring, Raising, Retrying
  <2> QED
    BY <2>1 DEF BoundInv, Raising, disk
<1>11. CASE SelfRestart
  <2>1. pc = "selfRestart" /\ pc' \in {"verify", "raiseCheck"} /\ UNCHANGED <<config, disk, up, flow>>
    BY <1>11 DEF SelfRestart, Goto
  <2>2. (Restoring' => Restoring) /\ (Raising' => Raising)
    BY <2>1 DEF Restoring, Raising, flow
  <2> QED
    BY <2>1, <2>2 DEF BoundInv, config, disk, flow
<1>12. CASE Mirror
  BY <1>12, BoundMirror
<1>13. CASE RetryRaise
  <2>1. pc' \in {"raise", "resync"} /\ mode' = "retry" /\ UNCHANGED <<disk, up>>
    BY <1>13, Types DEF RetryRaise, Goto, FlowShape, Preflight, Restoring, Raising, Retrying, flow
  <2> QED
    BY <2>1 DEF BoundInv, Restoring, Raising, disk
<1>14. CASE Resync \/ Raise
  BY <1>14, BoundSets
<1>15. CASE UNCHANGED vars
  BY <1>15 DEF vars, BoundInv, Restoring, Raising, config, disk, flow
<1> QED
  BY <1>1, <1>2, <1>3, <1>4, <1>5, <1>6, <1>7, <1>8, <1>9, <1>10, <1>11, <1>12, <1>13,
     <1>14, <1>15 DEF Next, FlowStep

\* No success is reported before the end.
LEMMA NotYetOk == ASSUME pc # "idle" => ~ok, [Next]_vars PROVE pc' # "idle" => ~ok'
<1>1. CASE NodeUp \/ NodeDown \/ Cancel \/ Retry \/ UNCHANGED vars
  BY <1>1 DEF NodeUp, NodeDown, Cancel, Retry, vars
<1>2. ASSUME NEW x \in Key, Sign(x) PROVE pc' # "idle" => ~ok'
  BY <1>2 DEF Sign
<1>3. ASSUME NEW m \in Modes, NEW r \in BOOLEAN, Start(m, r) PROVE pc' # "idle" => ~ok'
  BY <1>3 DEF Start
<1>4. CASE \/ Crash \/ CrashInCommit \/ SetAsideFails \/ ResyncLost \/ Verify \/ RaiseCheck
           \/ GiveUp
  BY <1>4 DEF Crash, CrashInCommit, SetAsideFails, ResyncLost, Verify, RaiseCheck, GiveUp, FlowEnds
<1>5. CASE \/ ReadUses \/ SkipRead \/ ReadPre \/ CarryOwed \/ Resync \/ SelfRestart
           \/ RetryRaise \/ Raise
  <2>1. pc # "idle" /\ ok' = ok
    BY <1>5 DEF ReadUses, SkipRead, ReadPre, CarryOwed, Resync, Restored, SelfRestart, RetryRaise,
      Raise, Goto
  <2> QED
    BY <2>1
<1>6. CASE Commit \/ Mirror
  <2>1. CASE FlowEnds(TRUE)
    BY <2>1 DEF FlowEnds
  <2>2. CASE ~FlowEnds(TRUE)
    <3>1. pc # "idle" /\ ok' = ok
      BY <1>6, <2>2 DEF Commit, Mirror, Goto
    <3> QED
      BY <3>1
  <2> QED
    BY <2>1, <2>2
<1> QED
  BY <1>1, <1>2, <1>3, <1>4, <1>5, <1>6 DEF Next, FlowStep

LEMMA OkStep ==
  ASSUME TypeInv, BoundInv, pc # "idle" => ~ok, Next,
         ok', pc \in {"waitMirror", "verify", "raiseCheck"}, mode # "retry"
  PROVE  /\ \A x \in Key : uses[target][x] >= uses[Other(target)][x]
         /\ pending'.kind # target
<1>1. /\ target = kind /\ kind \in Kind
      /\ \A k \in Kind, x \in Key : uses[k][x] \in Nat
      /\ Other(kind) \in Kind
  BY Types, OtherKind DEF FlowShape, Preflight
<1>2. CASE Verify
  <2>1. /\ up = kind /\ kind = "parlons" /\ goal = pre + MARGIN /\ Restoring
        /\ Other(kind) = "minima" /\ kind # "none"
    BY <1>2, Types, OtherKind DEF Verify, FlowShape, Preflight, Restoring, Raising, Retrying
  <2>2. AllAtLeast(kind, goal) /\ pending' = NoPending
    <3>1. ok' = (wallet[up] = "classic" /\ AllAtLeast(up, goal))
      BY <1>2, Zenon DEF Verify, FlowEnds
    <3>2. wallet[up] = "classic" /\ AllAtLeast(up, goal)
      BY <3>1, Zenon
    <3> QED
      BY <1>2, <2>1, <3>2 DEF Verify
  <2>3. \A x \in Key : uses["minima"][x] <= goal
    BY <2>1 DEF BoundInv
  <2> QED
    BY <1>1, <2>1, <2>2, <2>3, Types DEF AllAtLeast, NoPending
<1>3. CASE Mirror
  <2>1. /\ pc = "waitMirror" /\ up = kind /\ left \in Nat
        /\ \A x \in Key : uses[Other(kind)][x] <= left + MARGIN
    BY <1>3, Types DEF Mirror, FlowShape, BoundInv
  <2>2. AllAtLeast(up, Owed)
    BY <1>3, <2>1 DEF Mirror, Goto
  <2>3. Owed \in Nat /\ Owed >= left + MARGIN
    BY <1>1, <2>1, Types DEF Owed, Larger, TypeInv, TypeOK, ConfigOK
  <2>4. pending'.kind # target
    BY <1>1, <1>3, <2>2 DEF Mirror, NoPending, Kind
  <2>5. \A x \in Key : uses[kind][x] >= uses[Other(kind)][x]
    <3> SUFFICES ASSUME NEW x \in Key PROVE uses[kind][x] >= uses[Other(kind)][x]
      OBVIOUS
    <3>1. uses[kind][x] >= Owed /\ uses[Other(kind)][x] <= left + MARGIN
      BY <2>1, <2>2 DEF AllAtLeast
    <3> QED
      BY <1>1, <2>1, <2>3, <3>1, Types
  <2> QED
    BY <1>1, <2>4, <2>5
<1>4. CASE RaiseCheck
  <2>1. up = kind /\ AllAtLeast(kind, goal) /\ pending' = NoPending /\ pc = "raiseCheck"
    BY <1>4, Types DEF RaiseCheck
  <2>2. Raising
    BY <2>1, Types DEF FlowShape, Preflight, Restoring, Raising, Retrying
  <2>3. \A x \in Key : uses[Other(kind)][x] <= goal
    BY <2>2 DEF BoundInv
  <2> QED
    BY <1>1, <2>1, <2>3, Types DEF AllAtLeast, NoPending, Kind
<1>5. CASE NodeUp \/ NodeDown \/ Cancel \/ SelfRestart
  BY <1>5 DEF NodeUp, NodeDown, Cancel, SelfRestart
<1>6. CASE Crash \/ GiveUp \/ CrashInCommit \/ SetAsideFails \/ ResyncLost
  BY <1>6, FlowEndsClears DEF Crash, GiveUp, CrashInCommit, SetAsideFails, ResyncLost
<1>7. CASE \/ Retry \/ ReadUses \/ SkipRead \/ ReadPre \/ Commit \/ CarryOwed \/ Resync
           \/ RetryRaise \/ Raise
  BY <1>7 DEF Retry, ReadUses, SkipRead, ReadPre, Commit, CarryOwed, Resync, Restored,
    RetryRaise, Raise
<1>8. ASSUME NEW x \in Key, Sign(x) PROVE FALSE
  BY <1>8 DEF Sign, Preflight
<1>9. ASSUME NEW m \in Modes, NEW r \in BOOLEAN, Start(m, r) PROVE FALSE
  BY <1>9 DEF Start
<1> QED
  BY <1>2, <1>3, <1>4, <1>5, <1>6, <1>7, <1>8, <1>9 DEF Next, FlowStep

\* Whatever goes wrong, a switch that reports success after it restored or
\* mirrored a wallet leaves no counter of the node it started below that of the
\* node it left (carryover.js:14-20).
THEOREM OkCovers == Spec => OkCoversNodeLeft
<1> DEFINE Early == pc # "idle" => ~ok
           Succeeds == ok' /\ pc \in {"waitMirror", "verify", "raiseCheck"} /\ mode # "retry"
<1>1. Init => BoundInv /\ Early
  BY DEF Init, BoundInv, Restoring, Raising
<1>2. TypeInv /\ BoundInv /\ [Next]_vars => BoundInv'
  BY BoundStep
<1>3. Early /\ [Next]_vars => Early'
  BY NotYetOk
<1>4. TypeInv /\ BoundInv /\ Early /\ [Next]_vars
        => [ Succeeds => /\ \A x \in Key : uses[target][x] >= uses[Other(target)][x]
                         /\ pending'.kind # target ]_vars
  BY OkStep
<1> QED
  BY <1>1, <1>2, <1>3, <1>4, TypeInvAlways, PTL DEF Spec, OkCoversNodeLeft

-----------------------------------------------------------------------------
(* Under the benign faults: the inductive invariant.                         *)

\* Every slot signed with lies below the counter of its key on node k.
Covers(k) == \A x \in Key : \A s \in spent[x] : s < uses[k][x]

\* Every slot signed with lies below n.
SpentBelow(n) == \A x \in Key : \A s \in spent[x] : s < n

WalletInv ==
  /\ ~reused
  /\ wallet["minima"] # "own"
  /\ wallet["minima"] = "none" =>
       wallet["parlons"] # "classic" /\ \A x \in Key : spent[x] = {}
  /\ up # "none" => wallet[up] # "none"
  /\ pc # "idle" => running

\* A node that holds the classic wallet, and may sign, lies above every slot
\* signed with.  So does the classic node as long as no Parlons Node has
\* verifiably taken the wallet over; from then on either may be behind, but
\* never the one that is running.
SettledInv ==
  /\ pc \in Preflight /\ wallet[kind] = "classic" => Covers(kind)
  /\ pc \in Preflight \/ Retrying =>
       /\ carried <=> wallet["parlons"] = "classic"
       /\ ~carried => Covers("minima")
       /\ pending.kind # "none" => pending.kind = "parlons" /\ ~carried
  /\ Retrying =>
       kind = "parlons" /\ ~carried /\ pc \notin {"resync", "selfRestart"}

\* A switch that has not stopped the node it leaves.
LeavingInv ==
  /\ pc \in {"readUses", "readPre", "commit"} =>
       /\ same = carried
       /\ mode \in {"carry", "fresh"} /\ ~replace => wallet["parlons"] = "none"
  /\ pc \in {"readPre", "commit"} /\ left # NoRead =>
       /\ wallet[kind] # "none"
       /\ \E x \in Key : left <= uses[kind][x]
       /\ \A x \in Key : uses[kind][x] <= left + MARGIN
  /\ pc = "commit" /\ mode = "carry" => left <= pre

\* A switch that restores the wallet into the other node, or raises it.
ArrivingInv ==
  /\ Restoring =>
       /\ ~carried /\ wallet["minima"] # "none" /\ Covers("minima")
       /\ \A x \in Key : uses["minima"][x] <= pre + MARGIN
       /\ IF pc \in {"waitCarry", "resync"}
            THEN wallet["parlons"] # "classic"
            ELSE wallet["parlons"] = "classic" /\ AllAtLeast("parlons", goal)
       /\ pending.kind = (IF pc = "waitCarry" THEN "none" ELSE "parlons")
  /\ pc = "waitMirror" =>
       /\ carried /\ wallet["parlons"] = "classic" /\ pending.kind = "none"
       /\ SpentBelow(left + MARGIN)
  /\ Raising =>
       carried /\ wallet["parlons"] = "classic" /\ SpentBelow(goal)

BenignInv == WalletInv /\ SettledInv /\ LeavingInv /\ ArrivingInv

-----------------------------------------------------------------------------
(* The starting states.                                                     *)

LEMMA BenignInit == Init => BenignInv
<1> SUFFICES ASSUME Init PROVE BenignInv
  OBVIOUS
<1>1. TypeInv
  BY TypeInvInit
<1>2. wallet["minima"] = "none" => \A x \in Key : spent[x] = {}
  <2> SUFFICES ASSUME wallet["minima"] = "none", NEW x \in Key PROVE spent[x] = {}
    OBVIOUS
  <2>1. uses["minima"][x] = 0
    BY DEF Init, Kind
  <2>2. 0 .. 0 - 1 = {}
    OBVIOUS
  <2> QED
    BY <2>1, <2>2 DEF Init
<1>3. Covers("minima")
  <2> SUFFICES ASSUME NEW x \in Key, NEW s \in spent[x] PROVE s < uses["minima"][x]
    BY DEF Covers
  <2>1. uses["minima"][x] \in Nat
    BY <1>1 DEF TypeInv, TypeOK, DiskOK, Kind
  <2>2. s \in 0 .. uses["minima"][x] - 1
    BY DEF Init
  <2> QED
    BY <2>1, <2>2
<1>4. wallet["minima"] # "own" /\ wallet["parlons"] # "classic" /\ kind \in Kind
  BY DEF Init
<1>5. /\ pc = "idle" /\ ~carried /\ ~reused /\ up = "none" /\ pending.kind = "none"
      /\ ~Retrying /\ ~Restoring /\ ~Raising
  BY DEF Init, NoPending, Retrying, Restoring, Raising
<1>6. WalletInv
  BY <1>2, <1>4, <1>5 DEF WalletInv
<1>7. SettledInv
  BY <1>3, <1>4, <1>5 DEF SettledInv, Kind
<1>8. LeavingInv /\ ArrivingInv
  BY <1>5 DEF LeavingInv, ArrivingInv
<1> QED
  BY <1>6, <1>7, <1>8 DEF BenignInv

-----------------------------------------------------------------------------
(* One lemma for each action that changes a counter, a wallet or the record *)
(* of what is owed.                                                         *)

LEMMA SignSafe ==
  ASSUME TypeInv, BenignInv, NEW x \in Key, Sign(x)
  PROVE  BenignInv'
<1>1. /\ up = kind /\ up \in Kind /\ pc \in Preflight /\ wallet[up] # "none"
      /\ uses[up][x] \in Nat
      /\ uses' = [uses EXCEPT ![up] = [uses[up] EXCEPT ![x] = uses[up][x] + 1]]
      /\ UNCHANGED <<config, wallet, identity, up, running, pc, ok, flow, switches>>
  BY Types DEF Sign, BenignInv, WalletInv, Kind
<1>2. /\ \A k \in Kind, y \in Key :
           uses'[k][y] = IF k = up /\ y = x THEN uses[up][x] + 1 ELSE uses[k][y]
      /\ \A k \in Kind, y \in Key : uses[k][y] \in Nat /\ uses'[k][y] \in Nat
  BY <1>1, Types
<1>3. wallet[up] = "classic" =>
        /\ Covers(up) /\ reused' = reused /\ Covers(up)'
        /\ spent' = [spent EXCEPT ![x] = spent[x] \cup {uses[up][x]}]
  <2> SUFFICES ASSUME wallet[up] = "classic"
               PROVE  /\ Covers(up) /\ reused' = reused /\ Covers(up)'
                      /\ spent' = [spent EXCEPT ![x] = spent[x] \cup {uses[up][x]}]
    OBVIOUS
  <2>1. Covers(up)
    BY <1>1 DEF BenignInv, SettledInv
  <2>2. uses[up][x] \notin spent[x]
    BY <2>1, <1>1 DEF Covers
  <2>3. /\ reused' = reused
        /\ spent' = [spent EXCEPT ![x] = spent[x] \cup {uses[up][x]}]
    <3>1. reused = FALSE
      BY Types DEF BenignInv, WalletInv
    <3>2. /\ reused' = (reused \/ uses[up][x] \in spent[x])
          /\ spent' = [spent EXCEPT ![x] = spent[x] \cup {uses[up][x]}]
      BY Zenon DEF Sign
    <3>3. (reused \/ uses[up][x] \in spent[x]) = FALSE
      BY <2>2, <3>1
    <3> QED
      BY <3>1, <3>2, <3>3
  <2>4. \A y \in Key : \A s \in spent'[y] : s < uses'[up][y]
    <3> SUFFICES ASSUME NEW y \in Key, NEW s \in spent'[y] PROVE s < uses'[up][y]
      OBVIOUS
    <3>1. s \in spent[y] \/ (y = x /\ s = uses[up][x])
      BY <2>3, Types
    <3>2. s \in spent[y] => s < uses[up][y] /\ s \in Nat
      BY <2>1, Types DEF Covers
    <3> QED
      BY <3>1, <3>2, <1>1, <1>2
  <2> QED
    BY <2>1, <2>3, <2>4, <1>1 DEF Covers
<1>4. wallet[up] # "classic" => up = "parlons" /\ UNCHANGED <<reused, spent>>
  BY <1>1, Types DEF Sign, BenignInv, WalletInv, Kind
<1>5. WalletInv'
  <2>1. ~reused'
    BY <1>3, <1>4, Types DEF BenignInv, WalletInv
  <2>2. wallet["minima"] = "none" => wallet["parlons"] # "classic" /\ UNCHANGED spent
    BY <1>1, <1>4 DEF BenignInv, WalletInv, Kind
  <2> QED
    BY <1>1, <2>1, <2>2 DEF BenignInv, WalletInv, config
<1>6. ~carried => Covers("minima")'
  <2> SUFFICES ASSUME ~carried PROVE Covers("minima")'
    OBVIOUS
  <2>1. Covers("minima") /\ wallet["parlons"] # "classic"
    BY <1>1 DEF BenignInv, SettledInv
  <2>2. CASE wallet[up] = "classic"
    BY <2>1, <2>2, <1>1, <1>3 DEF Kind
  <2>3. CASE wallet[up] # "classic"
    BY <2>1, <2>3, <1>1, <1>2, <1>4 DEF Covers, Kind
  <2> QED
    BY <2>2, <2>3
<1>7. ~Retrying' /\ ~Restoring' /\ ~Raising'
  BY <1>1 DEF Retrying, Restoring, Raising, Preflight, flow
<1>8. SettledInv'
  BY <1>1, <1>3, <1>6, <1>7 DEF BenignInv, SettledInv, config, flow
<1>9. LeavingInv'
  <2>1. /\ pc \in {"readUses", "readPre", "commit"} =>
             /\ same' = carried'
             /\ mode' \in {"carry", "fresh"} /\ ~replace' => wallet'["parlons"] = "none"
        /\ pc = "commit" /\ mode = "carry" => left <= pre
    BY <1>1 DEF BenignInv, LeavingInv, config, flow
  <2>2. ASSUME pc \in {"readPre", "commit"}, left # NoRead
        PROVE  /\ wallet'[kind'] # "none"
               /\ \E y \in Key : left' <= uses'[kind'][y]
               /\ \A y \in Key : uses'[kind'][y] <= left' + MARGIN
    <3>1. left' = left /\ left \in Nat /\ kind' = kind /\ wallet[kind] # "none"
      BY <1>1, <2>2, Types DEF config, flow, BenignInv, LeavingInv
    <3>2. PICK y \in Key : left <= uses[kind][y]
      BY <2>2 DEF BenignInv, LeavingInv
    <3>3. left <= uses'[kind][y]
      BY <3>1, <3>2, <1>1, <1>2
    <3>4. \A z \in Key : uses'[kind][z] <= left + MARGIN
      <4>1. \A z \in Key : uses[kind][z] <= left + MARGIN
        BY <2>2 DEF BenignInv, LeavingInv
      <4>2. uses[up][x] < left + MARGIN
        BY <2>2 DEF Sign
      <4> QED
        BY <4>1, <4>2, <3>1, <1>1, <1>2, Types
    <3> QED
      BY <3>1, <3>3, <3>4, <1>1
  <2> QED
    BY <2>1, <2>2, <1>1 DEF LeavingInv, flow
<1>10. ArrivingInv'
  BY <1>1, <1>7 DEF ArrivingInv, Preflight
<1> QED
  BY <1>5, <1>8, <1>9, <1>10 DEF BenignInv

LEMMA NodeUpSafe == ASSUME TypeInv, BenignInv, NodeUp PROVE BenignInv'
<1>1. /\ up' = kind /\ kind \in Kind
      /\ UNCHANGED <<config, running, pc, ok, flow, hist>>
  BY Types DEF NodeUp
<1>2. CASE wallet[kind] # "none"
  BY <1>1, <1>2, Types DEF NodeUp, disk, BenignInv, WalletInv, SettledInv, LeavingInv,
    ArrivingInv, Covers, SpentBelow, AllAtLeast, Retrying, Restoring, Raising,
    config, flow, hist
<1>3. CASE wallet[kind] = "none" /\ kind = "minima"
  <2>1. /\ wallet' = [wallet EXCEPT !["minima"] = "classic"]
        /\ uses' = [uses EXCEPT !["minima"] = [y \in Key |-> 0]]
    BY <1>3 DEF NodeUp, SetCounters
  <2>2. wallet'["minima"] = "classic" /\ wallet'["parlons"] = wallet["parlons"]
        /\ uses'["parlons"] = uses["parlons"]
    BY <2>1, Types DEF Kind
  <2>3. \A y \in Key : spent'[y] = {}
    BY <1>1, <1>3 DEF BenignInv, WalletInv, hist
  <2>4. \A n, k : SpentBelow(n)' /\ Covers(k)'
    BY <2>3 DEF SpentBelow, Covers
  <2>5. WalletInv' /\ SettledInv'
    BY <1>1, <1>3, <2>2, <2>3, <2>4 DEF BenignInv, WalletInv, SettledInv, Retrying,
      config, flow, hist
  <2>6. LeavingInv'
    BY <1>1, <1>3, <2>2 DEF BenignInv, LeavingInv, config, flow
  <2>7. ArrivingInv'
    BY <1>1, <1>3, <2>2, <2>4, Types DEF BenignInv, ArrivingInv, AllAtLeast, FlowShape, Retrying,
      Restoring, Raising, config, flow
  <2> QED
    BY <2>5, <2>6, <2>7 DEF BenignInv
<1>4. CASE wallet[kind] = "none" /\ kind = "parlons"
  <2>1. /\ wallet' = [wallet EXCEPT !["parlons"] = "own"]
        /\ uses' = [uses EXCEPT !["parlons"] = [y \in Key |-> 0]]
    BY <1>4 DEF NodeUp, SetCounters
  <2>2. wallet'["parlons"] = "own" /\ wallet'["minima"] = wallet["minima"]
        /\ uses'["minima"] = uses["minima"]
    BY <2>1, Types DEF Kind
  <2>3. WalletInv' /\ SettledInv'
    BY <1>1, <1>4, <2>2 DEF BenignInv, WalletInv, SettledInv, Covers, Retrying,
      config, flow, hist
  <2>4. LeavingInv'
    BY <1>1, <1>4, <2>2, Types DEF BenignInv, LeavingInv, FlowShape, config, flow
  <2>5. ArrivingInv'
    BY <1>1, <1>4, <2>2, Types DEF BenignInv, ArrivingInv, Covers, Retrying,
      Restoring, Raising, config, flow, hist
  <2> QED
    BY <2>3, <2>4, <2>5 DEF BenignInv
<1> QED
  BY <1>1, <1>2, <1>3, <1>4 DEF Kind

\* Nothing that BenignInv is about changes.
LEMMA StayedSafe ==
  ASSUME TypeInv, BenignInv,
         UNCHANGED <<config, wallet, uses, hist, pc, running, flow>>,
         up' \in {up, "none"}
  PROVE  BenignInv'
<1>1. WalletInv' /\ SettledInv'
  BY DEF BenignInv, WalletInv, SettledInv, Retrying, Covers, config, flow, hist
<1>2. LeavingInv' /\ ArrivingInv'
  BY DEF BenignInv, LeavingInv, ArrivingInv, Restoring, Raising, Covers, SpentBelow,
    AllAtLeast, config, flow, hist
<1> QED
  BY <1>1, <1>2 DEF BenignInv

\* A flow that ends before it has changed anything, or a switch that could not
\* begin to restore, ends in a settled state.
LEMMA EndedSafe ==
  ASSUME TypeInv, BenignInv, NEW success \in BOOLEAN, FlowEnds(success),
         UNCHANGED <<config, wallet, uses, hist>>, up' \in {up, "none"},
         \/ pc \in Preflight
         \/ Retrying
         \/ Restoring /\ pc \in {"waitCarry", "resync"}
  PROVE  BenignInv'
<1>1. /\ pc' = "idle" /\ left' = NoRead
      /\ ~Retrying' /\ ~Restoring' /\ ~Raising'
  BY FlowEndsClears DEF Retrying, Restoring, Raising
<1>2. WalletInv'
  BY <1>1 DEF BenignInv, WalletInv, hist
<1>3. SettledInv'
  <2>1. /\ carried <=> wallet["parlons"] = "classic"
        /\ ~carried => Covers("minima")
        /\ pending.kind # "none" => pending.kind = "parlons" /\ ~carried
    BY DEF BenignInv, SettledInv, ArrivingInv
  <2>2. wallet[kind] = "classic" => Covers(kind)
    BY <2>1, Types DEF BenignInv, SettledInv, ArrivingInv, FlowShape
  <2> QED
    BY <1>1, <2>1, <2>2 DEF SettledInv, Covers, config, hist
<1>4. LeavingInv' /\ ArrivingInv'
  BY <1>1 DEF LeavingInv, ArrivingInv
<1> QED
  BY <1>2, <1>3, <1>4 DEF BenignInv

LEMMA StartSafe ==
  ASSUME TypeInv, BenignInv, NEW m, NEW r \in BOOLEAN, Start(m, r)
  PROVE  BenignInv'
<1>1. /\ pc = "idle" /\ running' /\ left' = NoRead /\ mode' = m /\ replace' = r
      /\ same' = carried /\ pc' \in {"readUses", "commit"}
      /\ kind = "minima" => pc' = "readUses"
      /\ UNCHANGED <<config, disk, up, spent, reused>>
  BY DEF Start, FlowLocals
<1>2. ~Retrying' /\ ~Restoring' /\ ~Raising'
  BY <1>1 DEF Retrying, Restoring, Raising
<1>3. m \in {"carry", "fresh"} /\ ~r => wallet["parlons"] = "none"
  BY Types DEF Start, Kind
<1>4. m = "carry" => kind = "minima"
  BY Types DEF Start, Kind
<1>5. WalletInv'
  BY <1>1 DEF BenignInv, WalletInv, config, disk
<1>6. SettledInv'
  BY <1>1, <1>2 DEF BenignInv, SettledInv, Preflight, Covers, config, disk
<1>7. LeavingInv'
  BY <1>1, <1>3, <1>4 DEF LeavingInv, config, disk
<1>8. ArrivingInv'
  BY <1>1, <1>2 DEF ArrivingInv
<1> QED
  BY <1>5, <1>6, <1>7, <1>8 DEF BenignInv

LEMMA RetrySafe == ASSUME TypeInv, BenignInv, Retry PROVE BenignInv'
<1>1. /\ pc = "idle" /\ running' /\ mode' = "retry" /\ pc' = "retryWait"
      /\ pending.kind = kind /\ kind \in Kind
      /\ UNCHANGED <<config, disk, up, hist>>
  BY Types DEF Retry, FlowLocals
<1>2. kind = "parlons" /\ ~carried
  BY <1>1 DEF BenignInv, SettledInv, Preflight, Kind
<1>3. WalletInv'
  BY <1>1 DEF BenignInv, WalletInv, config, disk, hist
<1>4. SettledInv'
  BY <1>1, <1>2 DEF BenignInv, SettledInv, Preflight, Covers, Retrying, config, disk, hist
<1>5. LeavingInv' /\ ArrivingInv'
  BY <1>1 DEF LeavingInv, ArrivingInv, Restoring, Raising
<1> QED
  BY <1>3, <1>4, <1>5 DEF BenignInv

\* The highest counter of a node is one of its counters, and bounds them all.
LEMMA HighestBounds ==
  ASSUME TypeInv, NEW k \in Kind, NEW m \in Highest(k)
  PROVE  /\ m \in Nat
         /\ \E x \in Key : m = uses[k][x]
         /\ \A x \in Key : uses[k][x] <= m
  BY Types DEF Highest

LEMMA ReadUsesSafe == ASSUME TypeInv, BenignInv, ReadUses PROVE BenignInv'
<1>1. PICK m \in Highest(up) : left' = m
  BY DEF ReadUses
<1>2. /\ pc = "readUses" /\ pc' \in {"readPre", "commit"} /\ up = kind /\ up \in Kind
      /\ pc' = "commit" => mode # "carry"
      /\ UNCHANGED <<config, disk, up, running, mode, replace, same, hist>>
  BY Types DEF ReadUses, Goto, AfterReadUses
<1>3. /\ m \in Nat /\ \E x \in Key : m <= uses[kind][x]
      /\ \A x \in Key : uses[kind][x] <= m + MARGIN
  BY <1>1, <1>2, HighestBounds, Types
<1>4. ~Retrying' /\ ~Restoring' /\ ~Raising'
  BY <1>2 DEF Retrying, Restoring, Raising
<1>5. WalletInv'
  BY <1>2 DEF BenignInv, WalletInv, config, disk, hist
<1>6. SettledInv'
  BY <1>2, <1>4 DEF BenignInv, SettledInv, Preflight, Covers, config, disk, hist
<1>7. LeavingInv'
  <2>1. wallet[kind] # "none"
    BY <1>2, Types DEF BenignInv, WalletInv, Kind, ReadUses
  <2> QED
    BY <1>1, <1>2, <1>3, <2>1 DEF BenignInv, LeavingInv, config, disk
<1>8. ArrivingInv'
  BY <1>2, <1>4 DEF ArrivingInv
<1> QED
  BY <1>5, <1>6, <1>7, <1>8 DEF BenignInv

LEMMA SkipReadSafe == ASSUME TypeInv, BenignInv, SkipRead PROVE BenignInv'
<1>1. /\ pc = "readUses" /\ pc' = "commit" /\ mode # "carry" /\ left = NoRead
      /\ UNCHANGED <<config, disk, up, running, flow, hist>>
  BY Types DEF SkipRead, Goto, FlowShape
<1>2. ~Retrying' /\ ~Restoring' /\ ~Raising'
  BY <1>1 DEF Retrying, Restoring, Raising
<1>3. WalletInv'
  BY <1>1 DEF BenignInv, WalletInv, config, disk, hist
<1>4. SettledInv'
  BY <1>1, <1>2 DEF BenignInv, SettledInv, Preflight, Covers, config, disk, hist
<1>5. LeavingInv'
  BY <1>1 DEF BenignInv, LeavingInv, config, disk, flow
<1>6. ArrivingInv'
  BY <1>1, <1>2 DEF ArrivingInv
<1> QED
  BY <1>3, <1>4, <1>5, <1>6 DEF BenignInv

LEMMA ReadPreSafe == ASSUME TypeInv, BenignInv, ReadPre PROVE BenignInv'
<1>1. PICK m \in Highest(up) : pre' = m
  BY DEF ReadPre
<1>2. /\ pc = "readPre" /\ pc' = "commit" /\ up = kind /\ up \in Kind
      /\ UNCHANGED <<config, disk, up, running, mode, replace, same, left, hist>>
  BY Types DEF ReadPre, Goto
<1>3. left \in Nat /\ left # NoRead
  BY <1>2, Types DEF FlowShape, NoRead
<1>4. left <= m
  <2>1. PICK x \in Key : left <= uses[kind][x]
    BY <1>2, <1>3 DEF BenignInv, LeavingInv
  <2>2. uses[kind][x] <= m /\ m \in Nat /\ uses[kind][x] \in Nat
    BY <1>1, <1>2, HighestBounds, Types
  <2> QED
    BY <1>3, <2>1, <2>2
<1>5. ~Retrying' /\ ~Restoring' /\ ~Raising'
  BY <1>2 DEF Retrying, Restoring, Raising
<1>6. WalletInv'
  BY <1>2 DEF BenignInv, WalletInv, config, disk, hist
<1>7. SettledInv'
  BY <1>2, <1>5 DEF BenignInv, SettledInv, Preflight, Covers, config, disk, hist
<1>8. LeavingInv'
  BY <1>1, <1>2, <1>3, <1>4 DEF BenignInv, LeavingInv, config, disk
<1>9. ArrivingInv'
  BY <1>2, <1>5 DEF ArrivingInv
<1> QED
  BY <1>6, <1>7, <1>8, <1>9 DEF BenignInv

\* The node is stopped, the writes are made, the other node is to be started.
LEMMA CommitSafe == ASSUME TypeInv, BenignInv, Commit PROVE BenignInv'
<1>1. /\ pc = "commit" /\ kind \in Kind /\ target = Other(kind) /\ kind' = target
      /\ up' = "none" /\ running /\ same = carried
      /\ UNCHANGED <<uses, spent, reused>>
  BY Types DEF Commit, Writes, StopNode, BenignInv, WalletInv, LeavingInv, FlowShape, hist
<1>2. /\ kind = "minima" => target = "parlons" /\ mode \in {"carry", "fresh", "keep"}
      /\ kind = "parlons" => target = "minima" /\ mode = "none" /\ ~replace
      /\ replace => mode \in {"carry", "fresh"}
  BY <1>1, Types, OtherKind DEF FlowShape, Kind
<1>3. /\ carried <=> wallet["parlons"] = "classic"
      /\ ~carried => Covers("minima")
      /\ wallet[kind] = "classic" => Covers(kind)
      /\ pending.kind # "none" => ~carried
  BY <1>1 DEF BenignInv, SettledInv, Preflight
<1>4. /\ wallet'["minima"] = wallet["minima"] /\ wallet["minima"] # "own"
      /\ wallet'["parlons"] \in {wallet["parlons"], "none"}
      /\ wallet["minima"] = "none" =>
           wallet["parlons"] # "classic" /\ \A x \in Key : spent[x] = {}
  BY Types DEF Commit, Writes, BenignInv, WalletInv, Kind
<1>5. WalletInv'
  BY <1>1, <1>4 DEF BenignInv, WalletInv, Commit, Goto, FlowEnds
<1>6. CASE mode = "carry"
  <2>1. /\ kind = "minima" /\ target = "parlons" /\ left \in Nat /\ pre \in Nat
        /\ pc' = "waitCarry" /\ UNCHANGED flow
    BY <1>1, <1>2, <1>6, Types DEF Commit, Goto, FlowShape, Kind
  <2>2. ~carried' /\ pending' = NoPending /\ wallet'["parlons"] = "none"
    <3>1. ~replace => wallet["parlons"] = "none"
      BY <1>1, <1>6 DEF BenignInv, LeavingInv
    <3> QED
      BY <1>6, <2>1, <3>1, WritesDo, Types DEF Commit, Forgets, Kind
  <2>3. /\ wallet["minima"] = "classic"
        /\ \A x \in Key : uses["minima"][x] <= left + MARGIN
        /\ left <= pre
    BY <1>1, <1>4, <1>6, <2>1, Types DEF BenignInv, LeavingInv, NoRead, Kind
  <2>4. \A x \in Key : uses["minima"][x] <= pre + MARGIN
    <3> SUFFICES ASSUME NEW x \in Key PROVE uses["minima"][x] <= pre + MARGIN
      OBVIOUS
    <3>1. uses["minima"][x] \in Nat /\ uses["minima"][x] <= left + MARGIN
      BY <2>3, Types DEF Kind
    <3> QED
      BY <2>1, <2>3, <3>1, Types
  <2>5. ~Retrying' /\ ~Raising'
    BY <1>6, <2>1 DEF Retrying, Raising, flow
  <2>6. SettledInv' /\ LeavingInv'
    BY <2>1, <2>5 DEF SettledInv, LeavingInv, Preflight
  <2>7. ArrivingInv'
    BY <1>1, <1>3, <1>4, <2>1, <2>2, <2>3, <2>4, <2>5 DEF ArrivingInv, Covers, NoPending, flow
  <2> QED
    BY <1>5, <2>6, <2>7 DEF BenignInv
<1>7. CASE mode # "carry" /\ Mirrors
  <2>1. /\ pc' = "waitMirror" /\ UNCHANGED flow /\ carried /\ left # NoRead
    BY <1>1, <1>7 DEF Commit, Goto, Mirrors
  <2>2. ~replace /\ carried' = carried /\ pending' = pending /\ wallet' = wallet
    <3>1. ~replace /\ ~Forgets
      BY <1>1, <1>2, <1>7 DEF Forgets, Mirrors, Kind
    <3>2. Writes(4) /\ 4 \in 0 .. 4
      BY DEF Commit
    <3> QED
      BY <3>1, <3>2, WritesDo
  <2>3. SpentBelow(left + MARGIN)
    <3>1. /\ Covers(kind) /\ left \in Nat
          /\ \A x \in Key : uses[kind][x] <= left + MARGIN
      BY <1>1, <1>3, <1>4, <2>1, Types DEF BenignInv, LeavingInv, Kind
    <3> SUFFICES ASSUME NEW x \in Key, NEW s \in spent[x] PROVE s < left + MARGIN
      BY DEF SpentBelow
    <3>2. s \in Nat /\ uses[kind][x] \in Nat
      BY <1>1, Types
    <3> QED
      BY <3>1, <3>2, Types DEF Covers
  <2>4. ~Retrying' /\ ~Restoring' /\ ~Raising'
    BY <2>1 DEF Retrying, Restoring, Raising
  <2>5. SettledInv' /\ LeavingInv'
    BY <2>1, <2>4 DEF SettledInv, LeavingInv, Preflight
  <2>6. pending.kind = "none"
    BY <1>3, <2>1
  <2>7. ArrivingInv'
    BY <1>1, <1>3, <2>1, <2>2, <2>3, <2>4, <2>6 DEF ArrivingInv, SpentBelow, flow
  <2> QED
    BY <1>5, <2>5, <2>7 DEF BenignInv
<1>8. CASE mode # "carry" /\ ~Mirrors
  <2>1. FlowEnds(TRUE)
    BY <1>8 DEF Commit
  <2>2. pc' = "idle" /\ left' = NoRead /\ ~Retrying' /\ ~Restoring' /\ ~Raising'
    BY <2>1, FlowEndsClears DEF Retrying, Restoring, Raising
  <2>3. CASE kind = "minima" /\ mode = "fresh"
    <3>1. ~carried' /\ pending' = NoPending /\ wallet'["parlons"] = "none"
      <4>1. ~replace => wallet["parlons"] = "none"
        BY <1>1, <2>3 DEF BenignInv, LeavingInv
      <4> QED
        BY <1>2, <2>3, <4>1, WritesDo, Types DEF Commit, Forgets, Kind
    <3>2. Covers("minima")
      BY <1>3, <1>4, <2>3, Types DEF Covers, Kind
    <3> QED
      BY <1>1, <1>2, <1>5, <2>2, <2>3, <3>1, <3>2 DEF BenignInv, SettledInv, LeavingInv,
        ArrivingInv, Covers, NoPending
  <2>4. CASE kind = "parlons" \/ mode = "keep"
    <3>1. ~carried
      BY <1>1, <1>2, <1>8, <2>4, Types DEF Mirrors, FlowShape, NoRead
    <3>2. carried' = carried /\ pending' = pending /\ wallet' = wallet
      BY <1>1, <1>2, <2>4, WritesDo DEF Commit, Forgets
    <3>3. pending.kind # "none" => pending.kind = "parlons"
      BY <1>1 DEF BenignInv, SettledInv, Preflight
    <3> QED
      BY <1>1, <1>2, <1>3, <1>5, <2>2, <3>1, <3>2, <3>3 DEF BenignInv, SettledInv,
        LeavingInv, ArrivingInv, Covers, Kind
  <2> QED
    BY <1>1, <1>2, <1>8, <2>3, <2>4 DEF Kind
<1> QED
  BY <1>6, <1>7, <1>8

LEMMA CarryOwedSafe == ASSUME TypeInv, BenignInv, CarryOwed PROVE BenignInv'
<1>1. /\ pc = "waitCarry" /\ pc' = "resync" /\ Restoring /\ mode = "carry"
      /\ kind = "parlons" /\ target = "parlons" /\ pending'.kind = "parlons"
      /\ UNCHANGED <<kind, carried, disk, up, running, mode, pre, hist>>
  BY Types DEF CarryOwed, SavePending, Goto, FlowShape, Restoring, Raising, Retrying, Preflight
<1>2. Restoring' /\ ~Retrying' /\ ~Raising'
  BY <1>1 DEF Retrying, Restoring, Raising
<1>3. WalletInv'
  BY <1>1 DEF BenignInv, WalletInv, disk, hist
<1>4. SettledInv' /\ LeavingInv'
  BY <1>1, <1>2 DEF SettledInv, LeavingInv, Preflight
<1>5. ArrivingInv'
  BY <1>1, <1>2 DEF BenignInv, ArrivingInv, Covers, disk, hist
<1> QED
  BY <1>3, <1>4, <1>5 DEF BenignInv

LEMMA ResyncSafe == ASSUME TypeInv, BenignInv, Resync PROVE BenignInv'
<1>1. /\ pc = "resync" /\ pc' = "selfRestart" /\ up = kind /\ up' = "none" /\ running'
      /\ wallet' = [wallet EXCEPT ![kind] = "classic"]
      /\ uses' = [uses EXCEPT ![kind] = [x \in Key |-> goal]]
      /\ UNCHANGED <<config, flow, hist>>
  BY Types DEF Resync, Restored, SetCounters, Goto
<1>2. /\ Restoring \/ Raising
      /\ ~Retrying /\ ~Retrying'
      /\ Restoring' <=> Restoring
      /\ Raising' <=> Raising
  BY <1>1, Types DEF FlowShape, Preflight, Restoring, Raising, Retrying, BenignInv,
    SettledInv, flow
<1>3. wallet["minima"] # "none" \/ kind = "minima"
  BY <1>1, <1>2, Types DEF FlowShape, BenignInv, ArrivingInv
<1>4. wallet'["minima"] # "own" /\ wallet'["minima"] # "none"
  BY <1>1, <1>3, Types DEF BenignInv, WalletInv, Kind
<1>5. WalletInv'
  BY <1>1, <1>4 DEF BenignInv, WalletInv, hist
<1>6. SettledInv' /\ LeavingInv'
  BY <1>1, <1>2 DEF SettledInv, LeavingInv, Preflight
<1>7. CASE Restoring
  <2>1. kind = "parlons" /\ uses'["minima"] = uses["minima"] /\ ~Raising
    BY <1>1, <1>7, Types DEF FlowShape, Restoring, Raising, Kind
  <2>2. AllAtLeast("parlons", goal)' /\ wallet'["parlons"] = "classic"
    BY <1>1, <2>1, Types DEF AllAtLeast, Kind, flow
  <2> QED
    BY <1>1, <1>2, <1>4, <1>5, <1>6, <1>7, <2>1, <2>2 DEF BenignInv, ArrivingInv, Covers, config,
      flow, hist
<1>8. CASE Raising
  <2>1. kind = "minima" /\ wallet'["parlons"] = wallet["parlons"] /\ ~Restoring
    BY <1>1, <1>8, Types DEF FlowShape, Restoring, Raising, Kind
  <2> QED
    BY <1>1, <1>2, <1>5, <1>6, <1>8, <2>1 DEF BenignInv, ArrivingInv, SpentBelow, config,
      flow, hist
<1> QED
  BY <1>2, <1>7, <1>8

\* A step of a restore or a raise that waits for the node only.
LEMMA SelfRestartSafe == ASSUME TypeInv, BenignInv, SelfRestart PROVE BenignInv'
<1>1. /\ pc = "selfRestart" /\ pc' = (IF mode = "carry" THEN "verify" ELSE "raiseCheck")
      /\ UNCHANGED <<config, disk, up, running, flow, hist>>
  BY DEF SelfRestart, Goto
<1>2. /\ Restoring \/ Raising
      /\ ~Retrying /\ ~Retrying'
      /\ Restoring' <=> Restoring
      /\ Raising' <=> Raising
  BY <1>1, Types DEF FlowShape, Preflight, Restoring, Raising, Retrying, BenignInv,
    SettledInv, flow
<1>3. WalletInv'
  BY <1>1 DEF BenignInv, WalletInv, disk, hist
<1>4. SettledInv' /\ LeavingInv'
  BY <1>1, <1>2 DEF SettledInv, LeavingInv, Preflight
<1>5. ArrivingInv'
  BY <1>1, <1>2 DEF BenignInv, ArrivingInv, Covers, SpentBelow, AllAtLeast, config, disk,
    flow, hist
<1> QED
  BY <1>3, <1>4, <1>5 DEF BenignInv

\* The restored wallet passes its verification and becomes the carried one.
LEMMA VerifySafe == ASSUME TypeInv, BenignInv, Verify PROVE BenignInv'
<1>1. /\ pc = "verify" /\ Restoring /\ up = kind /\ kind = "parlons"
      /\ goal = pre + MARGIN /\ pre \in Nat
      /\ UNCHANGED <<kind, disk, up, hist>>
  BY Types DEF Verify, FlowShape, Preflight, Restoring, Raising, Retrying
<1>2. /\ wallet["parlons"] = "classic" /\ AllAtLeast("parlons", goal)
      /\ Covers("minima") /\ \A x \in Key : uses["minima"][x] <= goal
  BY <1>1 DEF BenignInv, ArrivingInv
<1>3. carried' /\ pending' = NoPending /\ FlowEnds(TRUE)
  <2>1. wallet[up] = "classic" /\ AllAtLeast(up, goal)
    BY <1>1, <1>2
  <2>2. FlowEnds(wallet[up] = "classic" /\ AllAtLeast(up, goal))
    BY DEF Verify
  <2>3. (wallet[up] = "classic" /\ AllAtLeast(up, goal)) = TRUE
    BY <2>1
  <2>4. FlowEnds(TRUE)
    BY <2>2, <2>3
  <2>5. carried' = (carried \/ (wallet[up] = "classic" /\ AllAtLeast(up, goal)))
    BY Zenon DEF Verify
  <2>6. carried'
    BY <2>1, <2>5, Zenon
  <2> QED
    BY <2>1, <2>4, <2>6 DEF Verify
<1>4. Covers("parlons")
  <2> SUFFICES ASSUME NEW x \in Key, NEW s \in spent[x] PROVE s < uses["parlons"][x]
    BY DEF Covers
  <2>1. /\ s \in Nat /\ uses["minima"][x] \in Nat /\ uses["parlons"][x] \in Nat
        /\ s < uses["minima"][x] /\ uses["minima"][x] <= goal
        /\ uses["parlons"][x] >= goal
    BY <1>2, Types DEF Covers, AllAtLeast, Kind
  <2> QED
    BY <2>1, Types
<1>5. pc' = "idle" /\ left' = NoRead /\ ~Retrying' /\ ~Restoring' /\ ~Raising'
  BY <1>3, FlowEndsClears DEF Retrying, Restoring, Raising
<1>6. WalletInv'
  BY <1>1, <1>5 DEF BenignInv, WalletInv, disk, hist
<1>7. SettledInv'
  BY <1>1, <1>2, <1>3, <1>4, <1>5 DEF SettledInv, Covers, NoPending, disk, hist
<1>8. LeavingInv' /\ ArrivingInv'
  BY <1>5 DEF LeavingInv, ArrivingInv
<1> QED
  BY <1>6, <1>7, <1>8 DEF BenignInv

\* The node started is measured against what it must reach.
LEMMA MirrorSafe == ASSUME TypeInv, BenignInv, Mirror PROVE BenignInv'
<1>1. /\ pc = "waitMirror" /\ up = kind /\ kind \in Kind /\ target = kind /\ left \in Nat
      /\ carried /\ wallet["parlons"] = "classic" /\ pending.kind = "none"
      /\ SpentBelow(left + MARGIN) /\ mode \in {"none", "keep"}
      /\ UNCHANGED <<kind, carried, disk, up, hist>>
  BY Types DEF Mirror, FlowShape, Preflight, BenignInv, ArrivingInv
<1>2. Owed = left + MARGIN
  BY <1>1, Types DEF Owed, Larger, Kind
<1>3. CASE AllAtLeast(up, Owed)
  <2>1. FlowEnds(TRUE) /\ pending' = pending
    BY <1>1, <1>3 DEF Mirror, Kind
  <2>2. pc' = "idle" /\ left' = NoRead /\ ~Retrying' /\ ~Restoring' /\ ~Raising'
    BY <2>1, FlowEndsClears DEF Retrying, Restoring, Raising
  <2>3. Covers(kind)
    <3> SUFFICES ASSUME NEW x \in Key, NEW s \in spent[x] PROVE s < uses[kind][x]
      BY DEF Covers
    <3>1. s \in Nat /\ uses[kind][x] \in Nat /\ s < left + MARGIN /\ uses[kind][x] >= left + MARGIN
      BY <1>1, <1>2, <1>3, Types DEF SpentBelow, AllAtLeast
    <3> QED
      BY <1>1, <3>1, Types
  <2>4. WalletInv'
    BY <1>1, <2>2 DEF BenignInv, WalletInv, disk, hist
  <2>5. SettledInv'
    BY <1>1, <2>1, <2>2, <2>3 DEF SettledInv, Covers, disk, hist
  <2>6. LeavingInv' /\ ArrivingInv'
    BY <2>2 DEF LeavingInv, ArrivingInv
  <2> QED
    BY <2>4, <2>5, <2>6 DEF BenignInv
<1>4. CASE ~AllAtLeast(up, Owed)
  <2>1. /\ goal' = Owed /\ pc' \in {"raise", "resync"}
        /\ UNCHANGED <<mode, running>>
    BY <1>4 DEF Mirror, Goto
  <2>2. ~Retrying' /\ ~Restoring'
    BY <1>1, <2>1 DEF Retrying, Restoring
  <2>3. SpentBelow(goal)'
    BY <1>1, <1>2, <2>1 DEF SpentBelow, hist
  <2>4. WalletInv'
    BY <1>1, <2>1 DEF BenignInv, WalletInv, disk, hist
  <2>5. SettledInv' /\ LeavingInv'
    BY <2>1, <2>2 DEF SettledInv, LeavingInv, Preflight
  <2>6. ArrivingInv'
    BY <1>1, <2>1, <2>2, <2>3 DEF ArrivingInv, disk
  <2> QED
    BY <2>4, <2>5, <2>6 DEF BenignInv
<1> QED
  BY <1>3, <1>4

LEMMA RetryRaiseSafe == ASSUME TypeInv, BenignInv, RetryRaise PROVE BenignInv'
<1>1. /\ pc = "retryWait" /\ Retrying /\ target = kind /\ kind = "parlons" /\ ~carried
      /\ mode = "retry" /\ pc' = "raise" /\ pending'.kind = "parlons"
      /\ UNCHANGED <<kind, carried, disk, up, running, mode, hist>>
  BY Types DEF RetryRaise, SavePending, Goto, FlowShape, Preflight, Restoring, Raising,
    Retrying, BenignInv, SettledInv, flow
<1>2. Retrying' /\ ~Restoring' /\ ~Raising'
  BY <1>1 DEF Retrying, Restoring, Raising
<1>3. WalletInv'
  BY <1>1 DEF BenignInv, WalletInv, disk, hist
<1>4. SettledInv'
  BY <1>1, <1>2 DEF BenignInv, SettledInv, Preflight, Covers, disk, hist
<1>5. LeavingInv' /\ ArrivingInv'
  BY <1>1, <1>2 DEF LeavingInv, ArrivingInv
<1> QED
  BY <1>3, <1>4, <1>5 DEF BenignInv

LEMMA RaiseSafe == ASSUME TypeInv, BenignInv, Raise PROVE BenignInv'
<1>1. /\ pc = "raise" /\ pc' = "raiseCheck" /\ up = kind /\ kind = "parlons"
      /\ Raising \/ Retrying
      /\ uses' = [uses EXCEPT !["parlons"] = [x \in Key |-> goal]]
      /\ UNCHANGED <<config, wallet, identity, up, running, flow, hist>>
  BY Types DEF Raise, SetCounters, Goto, FlowShape, Preflight, Restoring, BenignInv, SettledInv
<1>2. /\ ~Restoring /\ ~Restoring'
      /\ Retrying' <=> Retrying
      /\ Raising' <=> Raising
      /\ uses'["minima"] = uses["minima"]
  BY <1>1, Types DEF Retrying, Restoring, Raising, flow, Kind
<1>3. WalletInv'
  BY <1>1 DEF BenignInv, WalletInv, hist
<1>4. SettledInv'
  BY <1>1, <1>2 DEF BenignInv, SettledInv, Preflight, Covers, config, hist
<1>5. LeavingInv'
  BY <1>1 DEF LeavingInv
<1>6. ArrivingInv'
  BY <1>1, <1>2 DEF BenignInv, ArrivingInv, SpentBelow, config, flow, hist
<1> QED
  BY <1>3, <1>4, <1>5, <1>6 DEF BenignInv

LEMMA RaiseCheckSafe == ASSUME TypeInv, BenignInv, RaiseCheck PROVE BenignInv'
<1>1. /\ pc = "raiseCheck" /\ up = kind /\ kind \in Kind /\ AllAtLeast(kind, goal)
      /\ Raising \/ Retrying
      /\ FlowEnds(TRUE) /\ pending' = NoPending
      /\ UNCHANGED <<kind, carried, disk, up, hist>>
  BY Types DEF RaiseCheck, FlowShape, Preflight, Restoring
<1>2. pc' = "idle" /\ left' = NoRead /\ ~Retrying' /\ ~Restoring' /\ ~Raising'
  BY <1>1, FlowEndsClears DEF Retrying, Restoring, Raising
<1>3. CASE Raising
  <2>1. carried /\ wallet["parlons"] = "classic" /\ SpentBelow(goal)
    BY <1>3 DEF BenignInv, ArrivingInv
  <2>2. Covers(kind)
    <3> SUFFICES ASSUME NEW x \in Key, NEW s \in spent[x] PROVE s < uses[kind][x]
      BY DEF Covers
    <3>1. s \in Nat /\ uses[kind][x] \in Nat /\ s < goal /\ uses[kind][x] >= goal
      BY <1>1, <2>1, Types DEF SpentBelow, AllAtLeast
    <3> QED
      BY <3>1, Types
  <2> QED
    BY <1>1, <1>2, <2>1, <2>2 DEF BenignInv, WalletInv, SettledInv, LeavingInv, ArrivingInv,
      Covers, NoPending, disk, hist
<1>4. CASE Retrying
  BY <1>1, <1>2, <1>4 DEF BenignInv, WalletInv, SettledInv, LeavingInv, ArrivingInv,
    Covers, NoPending, disk, hist
<1> QED
  BY <1>1, <1>3, <1>4

-----------------------------------------------------------------------------
(* The invariant is inductive, and what follows from it.                    *)

LEMMA BenignStep ==
  ASSUME Benign, TypeInv, BenignInv, [Next]_vars
  PROVE  BenignInv'
<1>1. CASE NodeUp
  BY <1>1, NodeUpSafe
<1>2. CASE NodeDown
  BY <1>2, StayedSafe DEF NodeDown, disk
<1>3. ASSUME NEW x \in Key, Sign(x) PROVE BenignInv'
  BY <1>3, SignSafe
<1>4. ASSUME NEW m \in Modes, NEW r \in BOOLEAN, Start(m, r) PROVE BenignInv'
  BY <1>4, StartSafe
<1>5. CASE Retry
  BY <1>5, RetrySafe
<1>6. CASE Cancel \/ CrashInCommit \/ ResyncLost
  BY <1>6 DEF Benign, Cancel, CrashInCommit, ResyncLost
<1>7. CASE Crash
  BY <1>7, EndedSafe DEF Crash, Benign, disk
<1>8. CASE ReadUses
  BY <1>8, ReadUsesSafe
<1>9. CASE SkipRead
  BY <1>9, SkipReadSafe
<1>10. CASE ReadPre
  BY <1>10, ReadPreSafe
<1>11. CASE Commit
  BY <1>11, CommitSafe
<1>12. CASE SetAsideFails
  <2>1. FlowEnds(FALSE) /\ pc \in Preflight /\ Writes(0)
    BY <1>12 DEF SetAsideFails, Preflight
  <2>2. up' = "none" /\ UNCHANGED <<config, wallet, uses, hist>>
    BY <2>1, WritesDo DEF config
  <2> QED
    BY <2>1, <2>2, EndedSafe
<1>13. CASE CarryOwed
  BY <1>13, CarryOwedSafe
<1>14. CASE Resync
  BY <1>14, ResyncSafe
<1>15. CASE SelfRestart
  BY <1>15, SelfRestartSafe
<1>16. CASE Verify
  BY <1>16, VerifySafe
<1>17. CASE Mirror
  BY <1>17, MirrorSafe
<1>18. CASE RetryRaise
  BY <1>18, RetryRaiseSafe
<1>19. CASE Raise
  BY <1>19, RaiseSafe
<1>20. CASE RaiseCheck
  BY <1>20, RaiseCheckSafe
<1>21. CASE GiveUp
  <2>1. FaultHere \in Faults
    BY <1>21 DEF GiveUp, SeesCancel, BenignInv, WalletInv
  <2>2. \/ pc \in Preflight
        \/ pc \in {"waitCarry", "retryWait"}
        \/ pc = "resync" /\ mode = "carry"
    BY <2>1, Types DEF FaultHere, Benign, PCs, Preflight
  <2>3. pc \in Preflight \/ Retrying \/ (Restoring /\ pc \in {"waitCarry", "resync"})
    BY <2>2, Types DEF FlowShape, Preflight, Restoring, Raising, Retrying
  <2> QED
    BY <1>21, <2>3, EndedSafe DEF GiveUp, disk
<1>22. CASE UNCHANGED vars
  BY <1>22, StayedSafe DEF vars, disk
<1> QED
  BY <1>1, <1>2, <1>3, <1>4, <1>5, <1>6, <1>7, <1>8, <1>9, <1>10, <1>11, <1>12, <1>13,
     <1>14, <1>15, <1>16, <1>17, <1>18, <1>19, <1>20, <1>21, <1>22 DEF Next, FlowStep

LEMMA BenignAlways == ASSUME Benign PROVE Spec => []BenignInv
<1>1. TypeInv /\ BenignInv /\ [Next]_vars => BenignInv'
  BY BenignStep
<1> QED
  BY <1>1, BenignInit, TypeInvAlways, PTL DEF Spec

\* Whatever the switches, the signatures and the benign faults, no slot of the
\* classic wallet is signed with twice (carryover.js:2-3).
THEOREM NoReuse == ASSUME Benign PROVE Spec => []NoSlotReused
<1>1. BenignInv => NoSlotReused
  BY DEF BenignInv, WalletInv, NoSlotReused
<1> QED
  BY <1>1, BenignAlways, PTL

\* A node that may sign lies above every slot signed with on either node
\* (carryover.js:14-20).
THEOREM NoDebt == ASSUME Benign PROVE Spec => []NoDebtWhenIdle
<1>1. TypeInv /\ BenignInv => NoDebtWhenIdle
  <2> SUFFICES ASSUME TypeInv, BenignInv, pc = "idle", up # "none",
                      wallet[up] = "classic", NEW x \in Key, NEW s \in spent[x],
                      s >= uses[up][x]
               PROVE  FALSE
    BY DEF NoDebtWhenIdle, InDebt
  <2>1. Covers(up) /\ up \in Kind
    BY Types DEF BenignInv, SettledInv, Preflight
  <2>2. s \in Nat /\ uses[up][x] \in Nat /\ s < uses[up][x]
    BY <2>1, Types DEF Covers
  <2> QED
    BY <2>2
<1> QED
  BY <1>1, BenignAlways, TypeInvAlways, PTL

-----------------------------------------------------------------------------
(* The two nodes together are one wallet of one-time keys.                  *)

LEMMA HistoryStep ==
  ASSUME Benign, TypeInv, BenignInv, [Next]_vars
  PROVE  [Wallet!OTKNext]_(Wallet!otkVars)
<1>1. ASSUME NEW x \in Key, Sign(x) PROVE [Wallet!OTKNext]_(Wallet!otkVars)
  <2>1. /\ up \in Kind /\ uses[up][x] \in Nat /\ wallet[up] # "none"
        /\ wallet[up] = "classic" => Covers(up)
    BY <1>1, Types DEF Sign, BenignInv, WalletInv, SettledInv, Kind
  <2>2. CASE wallet[up] = "classic"
    <3>1. uses[up][x] \notin spent[x]
      BY <2>1, <2>2 DEF Covers
    <3>2. spent' = [spent EXCEPT ![x] = spent[x] \cup {uses[up][x]}]
      BY <1>1, <2>2 DEF Sign
    <3>3. reused' = reused
      <4>1. reused = FALSE /\ (uses[up][x] \in spent[x]) = FALSE
        BY <3>1, Types DEF BenignInv, WalletInv
      <4>2. reused' = (reused \/ uses[up][x] \in spent[x])
        BY <1>1, <2>2, Zenon DEF Sign
      <4> QED
        BY <4>1, <4>2
    <3>4. uses[up][x] \in spent'[x] \ spent[x]
      BY <3>1, <3>2, Types
    <3>5. Wallet!SignFresh(x)
      BY <2>1, <3>2, <3>3, <3>4 DEF Wallet!SignFresh
    <3> QED
      BY <3>5 DEF Wallet!OTKNext
  <2>3. CASE wallet[up] # "classic"
    BY <1>1, <2>3 DEF Sign, Wallet!otkVars
  <2> QED
    BY <2>2, <2>3
<1>2. CASE ~(\E x \in Key : Sign(x))
  <2>1. UNCHANGED <<spent, reused>>
    BY <1>2 DEF Next, FlowStep, vars, hist, NodeUp, NodeDown, Start, Retry, Cancel, Crash,
      CrashInCommit, ReadUses, SkipRead, ReadPre, Commit, SetAsideFails, CarryOwed, Resync,
      ResyncLost, Restored, SelfRestart, Verify, Mirror, RetryRaise, Raise, RaiseCheck,
      GiveUp, Writes
  <2> QED
    BY <2>1 DEF Wallet!otkVars
<1> QED
  BY <1>1, <1>2

\* Refinement: every step of a switch signs with a fresh slot of a key of the
\* one wallet, or leaves the wallet's history alone (carryover.js:2-3, 14-20).
THEOREM Refinement == ASSUME Benign PROVE Spec => WalletSpec
<1>1. Init => Wallet!OTKInit
  <2> SUFFICES ASSUME Init PROVE Wallet!OTKInit
    OBVIOUS
  <2>1. spent \in [Key -> SUBSET Nat]
    BY TypeInvInit, Types
  <2> QED
    BY <2>1 DEF Init, Wallet!OTKInit
<1>2. TypeInv /\ BenignInv /\ [Next]_vars => [Wallet!OTKNext]_(Wallet!otkVars)
  BY HistoryStep
<1> QED
  BY <1>1, <1>2, TypeInvAlways, BenignAlways, PTL DEF Spec, WalletSpec, Wallet!OTKSpec

=============================================================================
