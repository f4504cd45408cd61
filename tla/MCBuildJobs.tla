---------------------------- MODULE MCBuildJobs ----------------------------
(***************************************************************************)
(* Two small instances of BuildJobs, with two workers and two sites, over  *)
(* the same variables; `which` names the one that a behaviour runs.        *)
(* "exact": halls on given sites, which are retried, for each race.        *)
(* "shared": two types of structure compete for the same sites.            *)
(***************************************************************************)
EXTENDS BuildJobs, TLC

CONSTANTS w1, w2, s1, s2, depot, barracks, hall

MCSitesOf  == [t \in Types |-> {s1, s2}]
MCSymmetry == Permutations({w1, w2}) \cup Permutations({s1, s2}) \cup Permutations({depot, barracks})

Shared == INSTANCE BuildJobs WITH
    Types <- {depot, barracks}, SitesOf <- [t \in {depot, barracks} |-> {s1, s2}], Exact <- {},
    Races <- {"terran"}, Reissue <- 1, ExactRetries <- 2

VARIABLE which
AllInit == (which = "exact" /\ Init) \/ (which = "shared" /\ Shared!Init)
AllNext ==
    /\ UNCHANGED which
    /\ (which = "exact" /\ Next) \/ (which = "shared" /\ Shared!Next)
AllSpec == AllInit /\ [][AllNext]_<<which, vars>>
=============================================================================
