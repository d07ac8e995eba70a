-------------------------- MODULE MCHostLifecycle --------------------------
(* The instance of HostLifecycle for TLC.                                   *)
EXTENDS HostLifecycle

CONSTANTS a, b

One == {a}
Two == {a, b}
=============================================================================
