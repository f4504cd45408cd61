------------------------------ MODULE MCStance ------------------------------
(***************************************************************************)
(* Small instances of Stance: two builds, the five strategies, and sights   *)
(* that name a threat of every detector.                                   *)
(***************************************************************************)
EXTENDS Stance, TLC

CONSTANTS std, safe

Quiet == [workers |-> FALSE, army |-> "none", drop |-> FALSE, atBase |-> FALSE,
          workersWin |-> FALSE, buildings |-> "none", cloaked |-> "no", air |-> FALSE,
          expanding |-> FALSE, bunkerable |-> FALSE, detector |-> FALSE]
MCSights ==
    {Quiet, [Quiet EXCEPT !.workers = TRUE],
     [Quiet EXCEPT !.army = "losing", !.expanding = TRUE, !.atBase = TRUE, !.workersWin = TRUE],
     [Quiet EXCEPT !.buildings = "proxy", !.army = "even", !.drop = TRUE,
                   !.cloaked = "seen", !.air = TRUE]}
MCSetups == {[selector |-> "rules", learned |-> TRUE], [selector |-> "select", learned |-> FALSE],
             [selector |-> "blend", learned |-> FALSE],
             [selector |-> "explore", learned |-> FALSE], [selector |-> "fixed", learned |-> FALSE]}
MCRequests == {"pull", "cancel"}
MCTtl == [k \in MCRequests |-> 1]
=============================================================================
