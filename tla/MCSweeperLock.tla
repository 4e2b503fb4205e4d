--------------------------- MODULE MCSweeperLock ---------------------------
(* Values of the constants of SweeperLock for TLC. *)
EXTENDS SweeperLock

\* As many sessions as two pools of two connections can open.
FourSessions == 1 .. 4
=============================================================================
