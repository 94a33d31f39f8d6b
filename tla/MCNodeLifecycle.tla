---------------------------- MODULE MCNodeLifecycle ----------------------------
(***************************************************************************)
(* The instance for TLC of two calls that overlap, without any fault.       *)
(***************************************************************************)
EXTENDS NodeLifecycle

CONSTANTS p1, p2, c1, c2

Procs == {p1, p2}
TwoCalls == {c1, c2}

NoFaults == {}
================================================================================
