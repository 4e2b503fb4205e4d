-------------------------- MODULE MCCapacityCache --------------------------
(* Values of the constants of CapacityCache for TLC. *)
EXTENDS CapacityCache

\* Long enough for an entry to go out of date before it expires.
TwoTicks == 2
=============================================================================
