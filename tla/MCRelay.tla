-------------------------------- MODULE MCRelay --------------------------------
(***************************************************************************)
(* Instances of Relay for TLC.                                              *)
(***************************************************************************)
EXTENDS Relay

CONSTANTS h1, h2, l1, l2, l3, c1, c2

Relays == {h1, h2}
Links == {l1, l2, l3}
Calls == {c1, c2}
NoFaults == {}
================================================================================
