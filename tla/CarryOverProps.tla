---------------------------- MODULE CarryOverProps -----------------------------
(***************************************************************************)
(* What the key-use carry-over of module CarryOver must guarantee.          *)
(***************************************************************************)
EXTENDS CarryOver

\* The faults the switch withstands whatever the sequence of switches: they all
\* strike before a node that shares the wallet has been started with counters
\* that are not yet raised.
Benign == Faults \cap {"mirror", "verify", "raise", "cancel", "crash"} = {}

\* No slot of the classic wallet is ever signed with twice, on whichever node
\* (carryover.js:2-3, 14-20).
NoSlotReused == ~reused

\* Refinement: the two nodes together are one wallet of one-time keys.
Wallet == INSTANCE OneTimeKeys
            WITH Key <- Key, spent <- spent, reused <- reused

WalletSpec == Wallet!OTKSpec

\* A node whose counters lie below a slot already signed with.
InDebt(k) ==
  wallet[k] = "classic" /\ \E x \in Key : \E s \in spent[x] : s >= uses[k][x]

\* Once no switch runs, the node that is up may sign: its counters lie above
\* every slot signed with on either node (carryover.js:14-20).
NoDebtWhenIdle == pc = "idle" /\ up # "none" => ~InDebt(up)

\* carryover.js:23-25: until a needed raise has succeeded, keyUsesPending names
\* the node that must not sign.  Once no switch runs, a node in debt that is up
\* is the one named.
DebtIsNamed ==
  pc = "idle" /\ up # "none" /\ InDebt(up) => pending.kind = up

\* carryover.js:271, 331: parlonsCarried is recorded after a verified carry
\* only and forgotten before another 1.1 takes its place, so whatever goes
\* wrong in between, it never vouches for a Parlons Node with another seed.
CarriedMeansSameWallet == carried => wallet["parlons"] # "own"

\* carryover.js:14-20: a switch that reports success after it restored or
\* mirrored a wallet leaves every counter of the node now running at or above
\* that of the node left, and not as the node that must not sign.
OkCoversNodeLeft ==
  [][ ok' /\ pc \in {"waitMirror", "verify", "raiseCheck"} /\ mode # "retry"
      => /\ \A x \in Key : uses[target][x] >= uses[Other(target)][x]
         /\ pending'.kind # target ]_vars

\* carryover.js:216-217: a raise or a restore that was asked for and did not
\* succeed - refused, unconfirmed, cancelled, or cut off by the death of the
\* app - leaves keyUsesPending naming the node and all it owes.
FailedRaiseIsNamed ==
  [][ /\ pc \in {"resync", "selfRestart", "verify", "raise", "raiseCheck"}
      /\ pc' = "idle" /\ ~ok'
      => pending' = [kind |-> target, to |-> goal] ]_vars

\* A switch or a retry always comes to its end, whatever fails: the Settings
\* sheet is never left with a switch "already running" (carryover.js:260).
SwitchEnds == []<>(pc = "idle")
================================================================================
