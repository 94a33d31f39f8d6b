------------------------------- MODULE CarryOver -------------------------------
(***************************************************************************)
(* src/main/carryover.js: switching between the classic node (folder 1.0,   *)
(* kind "minima") and the Parlons Node (folder 1.1, kind "parlons") without *)
(* losing the wallet or re-using a one-time signing key.                    *)
(*                                                                          *)
(* A Minima key signs with a chain of one-time slots; its counter `uses` is *)
(* the next slot.  When both folders hold the classic wallet, each switch   *)
(* reads the counters of the node being left and raises those of the node   *)
(* being started.  One switch (or one retry of a pending raise) runs at a   *)
(* time: an asynchronous flow whose program counter is pc.  Every await is  *)
(* a step boundary; the code between two awaits is one step.                *)
(*                                                                          *)
(* The node process is abstracted to `up`; the lifecycle behind it is the   *)
(* subject of module NodeLifecycle.                                         *)
(***************************************************************************)
EXTENDS Integers, FiniteSets

CONSTANTS
  Key,          \* the wallet's signing keys (64 in the program)
  MARGIN,       \* KEYUSES_MARGIN
  InitUses,     \* the counters a key may start with
  MaxUse,       \* bound: no signature at this slot or beyond
  MaxSwitches,  \* bound: switches started
  Faults        \* what may go wrong: a subset of FaultClasses

FaultClasses ==
  { "read",      \* `keys` or `vault` unreadable on the node being left
    "setAside",  \* the old 1.1 folder cannot be renamed
    "wait",      \* no vault in time before a restore or a retry
    "mirror",    \* no vault in time on the node to be raised
    "refused",   \* no MegaMMR host accepts the restore
    "verify",    \* the restore took effect but its end is never seen
    "raise",     \* the raise of the counters fails or is not confirmed
    "cancel",    \* the user presses Cancel
    "crash" }    \* the app dies after it stopped the node being left

ASSUME CarryOverAssumption ==
  /\ MARGIN \in Nat /\ MaxUse \in Nat /\ MaxSwitches \in Nat
  /\ InitUses \subseteq Nat
  /\ Faults \subseteq FaultClasses

Kind == {"minima", "parlons"}
Other(k) == IF k = "minima" THEN "parlons" ELSE "minima"

NoRead == -1                                   \* null in the code
NoPending == [kind |-> "none", to |-> 0]

VARIABLES
  kind, carried, pending,    \* config.json: nodeKind, parlonsCarried, keyUsesPending
  wallet, uses, identity,    \* the data folder: whose seed each node holds, its
                             \* counters, and what identity.txt pins
  up,                        \* the kind of the node process, or "none"
  running, pc, ok,           \* carryover.js's running flag, the flow, state.ok
  target, mode, replace, same, left, pre, goal,   \* the flow's locals
  spent, reused, switches    \* history: slots of the classic wallet signed with,
                             \* whether one was signed twice, switches started

config == <<kind, carried, pending>>
disk   == <<wallet, uses, identity>>
flow   == <<target, mode, replace, same, left, pre, goal>>
hist   == <<spent, reused, switches>>
vars   == <<config, disk, up, running, pc, ok, flow, hist>>

Modes == {"none", "carry", "fresh", "keep", "retry"}
PCs == {"idle", "readUses", "readPre", "commit", "waitCarry", "waitMirror",
        "retryWait", "resync", "selfRestart", "verify", "raise", "raiseCheck"}

\* Up to here the node being left is still up and nothing has been changed.
Preflight == {"idle", "readUses", "readPre", "commit"}

ConfigOK ==
  /\ kind \in Kind /\ carried \in BOOLEAN
  /\ pending \in [kind : Kind \cup {"none"}, to : Nat]

DiskOK ==
  /\ wallet \in [Kind -> {"none", "classic", "own"}]
  /\ uses \in [Kind -> [Key -> Nat]]
  /\ identity \in {"none", "classic", "own"}

FlowOK ==
  /\ running \in BOOLEAN /\ pc \in PCs /\ ok \in BOOLEAN
  /\ target \in Kind /\ mode \in Modes /\ replace \in BOOLEAN /\ same \in BOOLEAN
  /\ left \in Nat \cup {NoRead} /\ pre \in Nat \cup {NoRead} /\ goal \in Nat

HistOK == spent \in [Key -> SUBSET Nat] /\ reused \in BOOLEAN /\ switches \in Nat

\* The types, and that the node running is of the configured kind.
TypeOK == ConfigOK /\ DiskOK /\ FlowOK /\ HistOK /\ up \in {"none", kind}

-----------------------------------------------------------------------------
(* Reading and setting counters.                                            *)

(* Definitions whose names begin with Bad are wrong on purpose: each is a     *)
(* slip the code could have made, and shows which property would notice it.   *)

\* The lowest counter taken for the highest.
BadHighest(k) == {m \in {uses[k][x] : x \in Key} : \A y \in Key : uses[k][y] >= m}

\* readKeys().max: the highest counter of node k.
Highest(k) == {m \in {uses[k][x] : x \in Key} : \A y \in Key : uses[k][y] <= m}

\* One key that is high enough taken for all of them.
BadAllAtLeast(k, n) == \E x \in Key : uses[k][x] >= n

\* readKeys().min >= n.
AllAtLeast(k, n) == \A x \in Key : uses[k][x] >= n

\* Both commands that set counters (`megammrsync ... keyuses:n` recreates the
\* keys, `keys action:createallkeys keyuses:n`) put every key at n.
SetCounters(k, n) == uses' = [uses EXCEPT ![k] = [x \in Key |-> n]]

\* The start of a flow that is not running.
FlowLocals(t, m, r, s) ==
  /\ target' = t /\ mode' = m /\ replace' = r /\ same' = s
  /\ left' = NoRead /\ pre' = NoRead

\* set({stage: "done", ok}) and the finally block: the locals go, the phrase
\* leaves memory.
FlowEnds(success) ==
  /\ pc' = "idle" /\ running' = FALSE /\ ok' = success
  /\ FlowLocals("minima", "none", FALSE, FALSE) /\ goal' = 0

Goto(p) == pc' = p /\ UNCHANGED <<running, ok>>

Init ==
  /\ kind \in Kind
  /\ wallet \in {w \in [Kind -> {"none", "classic", "own"}] :
                   /\ w["minima"] \in {"none", "classic"}
                   /\ w["parlons"] \in {"none", "own"}}
  /\ \E u \in [Key -> InitUses] :
       uses = [k \in Kind |-> IF wallet[k] = "classic" THEN u ELSE [x \in Key |-> 0]]
  /\ identity = wallet["parlons"]
  /\ carried = FALSE /\ pending = NoPending
  /\ up = "none"
  /\ running = FALSE /\ pc = "idle" /\ ok = FALSE
  /\ target = "minima" /\ mode = "none" /\ replace = FALSE /\ same = FALSE
  /\ left = NoRead /\ pre = NoRead /\ goal = 0
  /\ spent = [x \in Key |-> 0 .. uses["minima"][x] - 1]
  /\ reused = FALSE /\ switches = 0

-----------------------------------------------------------------------------
(* The node process and its users.                                          *)

\* The node of the configured kind comes up: started by a switch, by the user,
\* or by itself after a resync.  A folder that does not exist yet is created
\* with a seed of its own; identity.txt is honoured when it exists.
NodeUp ==
  /\ up = "none"
  /\ up' = kind
  /\ IF wallet[kind] = "none"
       THEN /\ wallet' = [wallet EXCEPT ![kind] =
                            IF kind = "minima" THEN "classic" ELSE "own"]
            /\ SetCounters(kind, 0)
            /\ identity' = IF kind = "parlons" /\ identity = "none"
                             THEN "own" ELSE identity
       ELSE UNCHANGED disk
  /\ UNCHANGED <<config, running, pc, ok, flow, hist>>

NodeDown ==
  /\ up # "none"
  /\ up' = "none"
  /\ UNCHANGED <<config, disk, running, pc, ok, flow, hist>>

\* A dapp, the phone gateway or the user signs with key x on the running node.
\* They heed the app: nothing is signed on the node keyUsesPending names, nor
\* between the stop of one node and the end of the switch; and between the
\* reading of the counters and the stop fewer slots than MARGIN are spent.
Sign(x) ==
  /\ up # "none" /\ pc \in Preflight /\ pending.kind # up
  /\ uses[up][x] < MaxUse
  /\ left # NoRead => uses[up][x] < left + MARGIN
  /\ uses' = [uses EXCEPT ![up][x] = @ + 1]
  /\ IF wallet[up] = "classic"
       THEN /\ reused' = (reused \/ uses[up][x] \in spent[x])
            /\ spent' = [spent EXCEPT ![x] = @ \cup {uses[up][x]}]
       ELSE UNCHANGED <<reused, spent>>
  /\ UNCHANGED <<config, wallet, identity, up, running, pc, ok, flow, switches>>

\* The app quits or dies; config.json and the node folders stay, the node
\* process may outlive it.  Once the node being left has been stopped this is a
\* fault of its own.
Crash ==
  /\ pc \in Preflight \/ "crash" \in Faults
  /\ FlowEnds(FALSE)
  /\ up' \in {up, "none"}
  /\ UNCHANGED <<config, disk, hist>>

-----------------------------------------------------------------------------
(* start(): the switch.                                                     *)

\* node:setKind and start() up to the first await.  The UI offers no switch
\* while a flow runs, and asks for `existing` when a 1.1 folder exists.
Start(m, r) ==
  /\ pc = "idle" /\ ~running
  /\ switches < MaxSwitches
  /\ IF kind = "parlons" THEN m = "none" /\ ~r
     ELSE /\ m \in {"carry", "fresh", "keep"}
          /\ IF wallet["parlons"] = "none" THEN m # "keep" /\ ~r
                                           ELSE r = (m # "keep")
  /\ running' = TRUE /\ ok' = FALSE
  /\ FlowLocals(Other(kind), m, r, carried) /\ goal' = 0
  /\ pc' = IF kind = "minima" \/ carried THEN "readUses" ELSE "commit"
  /\ switches' = switches + 1
  /\ UNCHANGED <<config, disk, up, spent, reused>>

AfterReadUses == IF mode = "carry" THEN "readPre" ELSE "commit"

\* leftMax = readKeys().max on the node being left.
ReadUses ==
  /\ pc = "readUses" /\ up # "none"
  /\ \E m \in Highest(up) : left' = m
  /\ Goto(AfterReadUses)
  /\ UNCHANGED <<config, disk, up, target, mode, replace, same, pre, goal, hist>>

\* The counters could not be read, and neither the mirroring nor the carry-over
\* depends on them: the switch goes on without.
SkipRead ==
  /\ pc = "readUses" /\ "read" \in Faults /\ ~same /\ mode # "carry"
  /\ Goto("commit")
  /\ UNCHANGED <<config, disk, up, flow, hist>>

\* pre = {phrase, keys} of the classic node.
ReadPre ==
  /\ pc = "readPre" /\ up # "none"
  /\ \E m \in Highest(up) : pre' = m
  /\ Goto("commit")
  /\ UNCHANGED <<config, disk, up, target, mode, replace, same, left, goal, hist>>

\* The switch does not wait for the node it leaves.
BadStopNode == UNCHANGED up

\* await node.stop().
StopNode == up' = "none"

\* A fresh 1.1 inherits the record of the carry-over before it.
BadForgets == mode = "carry"

\* A 1.1 that is new to this switch: what config.json says of the old one goes.
Forgets == target = "parlons" /\ mode # "keep"

\* What is on disk after the first n of the four writes that follow the stop:
\* set aside the old 1.1, forget its carry-over, pin the identity, save the kind.
Writes(n) ==
  LET aside  == n >= 1 /\ replace
      forget == n >= 2 /\ Forgets
      pin    == n >= 3 /\ mode = "carry"
  IN /\ wallet' = IF aside THEN [wallet EXCEPT !["parlons"] = "none"] ELSE wallet
     /\ carried' = (carried /\ ~forget)
     /\ pending' = IF forget THEN NoPending ELSE pending
     /\ identity' = IF pin THEN "classic" ELSE IF aside THEN "none" ELSE identity
     /\ kind' = IF n >= 4 THEN target ELSE kind
     /\ StopNode
     /\ UNCHANGED <<uses, hist>>

\* Only the way back to the classic node mirrors.
BadMirrors == same /\ target = "minima" /\ left # NoRead

\* The counters of the node being left are to be mirrored onto the new one.
Mirrors == same /\ (target = "minima" \/ mode = "keep") /\ left # NoRead

\* node.stop(), the four writes and node.start().
Commit ==
  /\ pc = "commit"
  /\ Writes(4)
  /\ IF mode = "carry" THEN Goto("waitCarry") /\ UNCHANGED flow
     ELSE IF Mirrors THEN Goto("waitMirror") /\ UNCHANGED flow
     ELSE FlowEnds(TRUE)

\* The node is stopped, but the old folder cannot be renamed.
SetAsideFails ==
  /\ pc = "commit" /\ replace /\ "setAside" \in Faults
  /\ Writes(0)
  /\ FlowEnds(FALSE)

\* The app dies among the writes.
CrashInCommit ==
  /\ pc = "commit" /\ "crash" \in Faults
  /\ \E n \in 0 .. 4 : Writes(n)
  /\ FlowEnds(FALSE)

-----------------------------------------------------------------------------
(* The carry-over: restore the phrase into the new Parlons Node.            *)

\* An older debt is kept, whichever node it names.
BadSavePending(n) == pending' = IF pending = NoPending
                                  THEN [kind |-> target, to |-> n] ELSE pending

\* config.save({keyUsesPending: {kind, to}}): one slot, the last debt wins.
SavePending(n) == pending' = [kind |-> target, to |-> n]

CarryOwed ==
  /\ pc = "waitCarry" /\ running /\ up # "none"
  /\ goal' = pre + MARGIN
  /\ SavePending(goal')
  /\ Goto("resync")
  /\ UNCHANGED <<kind, carried, disk, up, target, mode, replace, same, left, pre, hist>>

\* The node restores the phrase, sets its counters and shuts itself down.
Restored ==
  /\ pc = "resync" /\ running /\ up # "none"
  /\ wallet' = [wallet EXCEPT ![up] = "classic"]
  /\ SetCounters(up, goal)
  /\ up' = "none"
  /\ UNCHANGED <<identity, config, hist>>

Resync == Restored /\ Goto("selfRestart") /\ UNCHANGED flow

\* It did so, but the call failed, or no host served the chain afterwards.
ResyncLost ==
  /\ (IF mode = "carry" THEN "verify" ELSE "raise") \in Faults
  /\ Restored /\ FlowEnds(FALSE)

SelfRestart ==
  /\ pc = "selfRestart" /\ running /\ up # "none"
  /\ Goto(IF mode = "carry" THEN "verify" ELSE "raiseCheck")
  /\ UNCHANGED <<config, disk, up, flow, hist>>

\* Same phrase, same keys, every counter at N or above?
Verify ==
  /\ pc = "verify" /\ running /\ up # "none"
  /\ LET good == wallet[up] = "classic" /\ AllAtLeast(up, goal)
     IN /\ carried' = (carried \/ good)
        /\ pending' = IF good THEN NoPending ELSE pending
        /\ FlowEnds(good)
  /\ UNCHANGED <<kind, disk, up, hist>>

-----------------------------------------------------------------------------
(* Mirroring the counters, and retrying a raise that is pending.            *)

Larger(a, b) == IF a > b THEN a ELSE b

\* The counters without the margin for the signatures nobody saw.
BadOwed == Larger(left, IF pending.kind = target THEN pending.to ELSE 0)

\* What the new node must reach: the margin above the node left, and whatever
\* an earlier attempt still owes it.
Owed == Larger(left + MARGIN, IF pending.kind = target THEN pending.to ELSE 0)

\* The new node answers: what it must reach, and whether it is there already.
\* raiseRunning() saves keyUsesPending before it sends anything.
Mirror ==
  /\ pc = "waitMirror" /\ running /\ up # "none"
  /\ IF AllAtLeast(up, Owed)
       THEN /\ pending' = IF pending.kind = target THEN NoPending ELSE pending
            /\ FlowEnds(TRUE)
       ELSE /\ SavePending(Owed)
            /\ goal' = Owed
            /\ Goto(IF target = "parlons" THEN "raise" ELSE "resync")
            /\ UNCHANGED <<target, mode, replace, same, left, pre>>
  /\ UNCHANGED <<kind, carried, disk, up, hist>>

\* retryRaise() up to its first await.
Retry ==
  /\ pc = "idle" /\ ~running /\ pending.kind = kind
  /\ running' = TRUE /\ ok' = FALSE
  /\ FlowLocals(kind, "retry", FALSE, FALSE) /\ goal' = pending.to
  /\ pc' = "retryWait"
  /\ UNCHANGED <<config, disk, up, hist>>

RetryRaise ==
  /\ pc = "retryWait" /\ running /\ up # "none"
  /\ SavePending(goal)
  /\ Goto(IF target = "parlons" THEN "raise" ELSE "resync")
  /\ UNCHANGED <<kind, carried, disk, up, flow, hist>>

\* `keys action:createallkeys keyuses:N` on the Parlons Node.
Raise ==
  /\ pc = "raise" /\ up # "none"
  /\ SetCounters(up, goal)
  /\ Goto("raiseCheck")
  /\ UNCHANGED <<config, wallet, identity, up, flow, hist>>

\* Only the classic path looks at `running` here: it waits for the vault again.
RaiseCheck ==
  /\ pc = "raiseCheck" /\ up # "none"
  /\ target = "minima" => running
  /\ AllAtLeast(up, goal)
  /\ pending' = NoPending
  /\ FlowEnds(TRUE)
  /\ UNCHANGED <<kind, carried, disk, up, hist>>

-----------------------------------------------------------------------------
(* Cancel, and the catch block.                                             *)

\* cancel(): the button is there while the stage is preflight, waiting or
\* verifying.
Cancel ==
  /\ "cancel" \in Faults /\ running
  /\ pc \in {"readUses", "readPre", "waitCarry", "waitMirror", "verify"}
  /\ running' = FALSE
  /\ UNCHANGED <<config, disk, up, pc, ok, flow, hist>>

\* A wait without a deadline.
BadFaultHere == IF pc \in {"readUses", "readPre"} THEN "read" ELSE "none"

\* The class of fault that makes the current step throw.
FaultHere ==
  CASE pc \in {"readUses", "readPre"}   -> "read"
    [] pc \in {"waitCarry", "retryWait"} -> "wait"
    [] pc = "waitMirror"                -> "mirror"
    [] pc = "verify"                    -> "verify"
    [] pc \in {"raise", "raiseCheck"}   -> "raise"
    [] pc = "resync"      -> IF mode = "carry" THEN "refused" ELSE "raise"
    [] pc = "selfRestart" -> IF mode = "carry" THEN "verify" ELSE "raise"
    [] OTHER              -> "none"

\* The waits that throw "cancelled" when they find running unset.
SeesCancel ==
  \/ pc \in {"waitCarry", "waitMirror", "retryWait", "resync", "selfRestart", "verify"}
  \/ pc = "raiseCheck" /\ target = "minima"

\* catch (e) and finally: the switch ends where it is.  Unreadable counters are
\* fatal to a carry-over and to a switch between nodes that share the wallet;
\* to "keep" when the dialog's other choice was still "carry".
GiveUp ==
  /\ FaultHere \in Faults \/ (SeesCancel /\ ~running)
  /\ pc = "readUses" => same \/ mode \in {"carry", "keep"}
  /\ FlowEnds(FALSE)
  /\ UNCHANGED <<config, disk, up, hist>>

-----------------------------------------------------------------------------
FlowStep ==
  \/ ReadUses \/ SkipRead \/ ReadPre \/ Commit \/ SetAsideFails
  \/ CarryOwed \/ Resync \/ ResyncLost \/ SelfRestart \/ Verify
  \/ Mirror \/ RetryRaise \/ Raise \/ RaiseCheck \/ GiveUp

Next ==
  \/ NodeUp \/ NodeDown
  \/ \E x \in Key : Sign(x)
  \/ \E m \in Modes, r \in BOOLEAN : Start(m, r)
  \/ Retry \/ Cancel \/ Crash \/ CrashInCommit
  \/ FlowStep

Spec == Init /\ [][Next]_vars
================================================================================
