------------------------------ MODULE MCCarryOver ------------------------------
(***************************************************************************)
(* Instances of CarryOver for TLC.                                          *)
(***************************************************************************)
EXTENDS CarryOverProps, TLC

CONSTANTS k1, k2

WalletKeys == {k1, k2}
KeySymmetry == Permutations(WalletKeys)

BenignFaults == {"read", "setAside", "wait", "refused"}
MirrorFault == {"mirror"}
VerifyFault == {"verify"}
================================================================================
