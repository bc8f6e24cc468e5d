------------------------------ MODULE MCHarness -----------------------------
(* Harness for TLC: a scaling scenario of two phases. *)
EXTENDS Harness

MCPhases == <<1, 2>>
=============================================================================
