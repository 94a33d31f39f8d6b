----------------------------- MODULE OneTimeKeys ------------------------------
(***************************************************************************)
(* What src/main/carryover.js promises of the wallet, whichever node holds  *)
(* it: every signature takes a slot of its key that no signature took       *)
(* before, and nothing ever gives a slot back.                              *)
(***************************************************************************)
EXTENDS Naturals

CONSTANT Key

VARIABLES
  spent,    \* the slots signed with, per key
  reused    \* whether a slot was signed with twice

otkVars == <<spent, reused>>

OTKInit ==
  /\ spent \in [Key -> SUBSET Nat]
  /\ reused = FALSE

SignFresh(x) ==
  /\ \E slot \in spent'[x] \ spent[x] :
       slot \in Nat /\ spent' = [spent EXCEPT ![x] = @ \cup {slot}]
  /\ UNCHANGED reused

OTKNext == \E x \in Key : SignFresh(x)

OTKSpec == OTKInit /\ [][OTKNext]_otkVars
================================================================================
