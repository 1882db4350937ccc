--------------------------- MODULE MCSessionGate ---------------------------
(* The session's life cycle for TLC. *)
EXTENDS SessionGate, TLC

KeySymmetry == Permutations(Keys)
=============================================================================
