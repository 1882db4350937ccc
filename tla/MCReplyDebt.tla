---------------------------- MODULE MCReplyDebt ----------------------------
EXTENDS ReplyDebt, TLC

(* Commands of one kind are interchangeable. *)
Symmetry == Permutations(Plains) \cup Permutations(Logins)
=============================================================================
