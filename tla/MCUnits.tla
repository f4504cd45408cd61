------------------------------ MODULE MCUnits ------------------------------
(***************************************************************************)
(* Small instances of three of the adjutant's parts: four units of ours,   *)
(* two of the enemy's and three sites, a tank and a marine against a       *)
(* zergling and a wraith.                                                  *)
(***************************************************************************)
EXTENDS Adjutant, TLC

MCStartOrder == <<"s1", "s2">>
MCVolleys == [ling |-> 1, wraith |-> 2]

\* The start locations are seen again and again, the components tick, the tank morphs.
UnitsFairness ==
    /\ WF_all(Controls)
    /\ []<>(which = "belief" => "s1" \in vis) /\ []<>(which = "belief" => "s2" \in vis)
    /\ WF_all(which = "micro" /\ M!Morphs /\ UNCHANGED <<which, vars, bVars>>)
    /\ []<>(which = "micro" => even) /\ []<>(which = "micro" => ~even)
    /\ []<>(tank = "lost") => []<>(tank = "heard")
UnitsSpec == AllSpec /\ UnitsFairness
=============================================================================
