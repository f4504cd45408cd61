------------------------------ MODULE MCPlanner ------------------------------
(* Terran in the small: one kind of everything the planner tells apart.  What  *)
(* an upgrade stands on, down to the hall, is its own requirement here.        *)
EXTENDS Planner

\* kind, minerals, gas, supply taken and given, origin, requirements
Thing(kind, m, g, s, gives, from, req) ==
    [kind |-> kind, m |-> m, g |-> g, s |-> s, gives |-> gives, from |-> from, req |-> req,
     fights |-> kind = "unit", psi |-> FALSE, eats |-> FALSE]
TerranData ==
    [cc     |-> Thing("building", 2, 0, 0, 2, "scv", {}),
     scv    |-> Thing("worker", 1, 0, 1, 0, "cc", {}),
     depot  |-> Thing("building", 1, 0, 0, 4, "scv", {}),
     rax    |-> Thing("building", 1, 0, 0, 0, "scv", {"depot"}),
     ref    |-> Thing("building", 1, 0, 0, 0, "scv", {}),
     marine |-> Thing("unit", 1, 0, 1, 0, "rax", {}),
     stim   |-> Thing("tech", 1, 1, 0, 0, "rax", {"ref", "cc"})]
TerranStart == [t \in DOMAIN TerranData |-> CASE t \in {"cc", "ref"} -> 1 [] t = "scv" -> 2 [] OTHER -> 0]
TerranGoal ==
    [units |-> [marine |-> 1], buildings |-> [rax |-> 1], addons |-> <<>>,
     techs |-> {"stim"}, workers |-> 2, bases |-> 1]
TerranSinks == {"stim"}
TerranOpening == <<[t |-> "depot", at |-> 1], [t |-> "rax", at |-> 2]>>
TerranRequests == {[t |-> "depot", item |-> "build", count |-> 1]}
=============================================================================
