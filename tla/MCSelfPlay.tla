----------------------------- MODULE MCSelfPlay -----------------------------
(***************************************************************************)
(* Two matches, one after the other on the ports of one slot.              *)
(***************************************************************************)
EXTENDS SelfPlay

=============================================================================
