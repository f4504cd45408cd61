------------------------------ MODULE MCHarness ------------------------------
(* Two matches of three frames on one slot, or two games in two slots, with *)
(* one fault: see MCHarness.cfg.                                            *)
EXTENDS Harness
=============================================================================
