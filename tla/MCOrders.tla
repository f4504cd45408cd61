----------------------------- MODULE MCOrders -----------------------------
(* Two units and three slots, one of which leases at two priorities; two    *)
(* units in a game of nine frames; two workers at two patches and a         *)
(* refinery.  The base to start from is only of interest to the pool.       *)
EXTENDS Orders, TLC

CONSTANTS macro, micro, scouting, u1, u2

MCCmdPrio == [s \in Slots |-> CASE s = scouting -> 1 [] OTHER -> 2]
MCSymmetry == Permutations({u1, u2}) \cup Permutations({macro, micro})
MCLeasePrios == [s \in Slots |-> CASE s = scouting -> {1, 3} [] OTHER -> {2}]
MCBaseOf == [p1 |-> "b1", p2 |-> "b2", r1 |-> "b1"]

MCInit == AllInit /\ (which /= "pool" => hall["b1"] = "done")
MCSpec == MCInit /\ [][AllNext]_<<which, vars, cVars, pVars>>
=============================================================================
