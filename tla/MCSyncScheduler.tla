--------------------------- MODULE MCSyncScheduler ---------------------------
(* Small instances of SyncScheduler for TLC. *)
EXTENDS SyncScheduler, TLC

CONSTANTS s1, s2, p1, p2, noInstance
=============================================================================
