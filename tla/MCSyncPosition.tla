--------------------------- MODULE MCSyncPosition ---------------------------
(* SyncPosition for TLC: the bounds are in the configurations. *)
EXTENDS SyncPosition
=============================================================================
