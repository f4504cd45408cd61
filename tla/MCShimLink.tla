----------------------------- MODULE MCShimLink -----------------------------
(* ShimLink on a small instance: two matches, decisions at frames 0 and 1   *)
(* (or 0 only, when the bot asks for a frame_skip of 2), one event a match, *)
(* two faults.                                                              *)
EXTENDS ShimLink

\* frame_skip values: 0 is clamped to 1.
MCSkips == {0, 2}
=============================================================================
