---------------------------- MODULE MCOpenView ----------------------------
(* OpenView for TLC: the bound is in the configurations.                    *)
EXTENDS OpenView
=============================================================================
