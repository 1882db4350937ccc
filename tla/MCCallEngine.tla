---------------------------- MODULE MCCallEngine ----------------------------
(* One room of two people, a call of theirs and two starts of ours: two voice calls, or a video   *)
(* call and the voice call its watchdog falls back to.                        *)
EXTENDS CallEngine
=============================================================================
