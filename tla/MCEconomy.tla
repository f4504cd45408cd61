----------------------------- MODULE MCEconomy -----------------------------
(***************************************************************************)
(* What to make, where and in which order, in instances that share         *)
(* nothing: the greedy planner with the executor that carries out its plan *)
(* (Planner, Ledger), the expansions (Expansion: three bases, one of them  *)
(* taken unseen), and the build-order search over its simulator            *)
(* (BuildSearch, EconSim).  A behaviour runs the one that `which` names;   *)
(* the others stand still.                                                 *)
(***************************************************************************)
EXTENDS MCPlanner

CONSTANT None

VARIABLES
    which,
    xStage, hall, mined, foes, jobs, avoid, section, asks, cancels, waits, xFaults,
    live, best, last, sAsked
xVars == <<xStage, hall, mined, foes, jobs, avoid, section, asks, cancels, waits, xFaults>>
sVars == <<live, best, last, sAsked>>
all == <<which, allvars, xVars, sVars>>

X == INSTANCE Expansion WITH
    stage <- xStage, macro <- section, faults <- xFaults,
    Sites <- <<"main", "nat", "third">>, Natural <- "nat", Islands <- {}, Hopeless <- {"nat"},
    Goal <- 2, Blocked <- 3, Unreachable <- 4, Danger <- 3, Patience <- 1, MaxFaults <- 2

T == INSTANCE MCTree
S == INSTANCE BuildSearch WITH
    asked <- sAsked,
    Data <- T!Tree, Game <- T!FirstFrame, GoalArmy <- T!Army, GoalBuildings <- T!Buildings, GoalTechs <- T!Techs,
    WantWorkers <- 6, BasesWanted <- 1, MinArmy <- 4, ArmyChunk <- 4, MaxArmyChunk <- 8,
    WorkerChunk <- 2, Geysers <- 1, FloatMinerals <- 120, Hall <- "cc", Worker <- "scv",
    Refinery <- "ref", SupplyType <- "depot", Race <- "terran", PerPatch <- 2, Patches <- 2,
    Travel <- 2, BuilderGap <- 1, Limit <- 40, MaxSupply <- 400, MaxSteps <- 12,
    StartWeight <- 1, OrderSlack <- 4, Penalty <- 1000, Every <- 4, Slack <- 4, Skip <- 2,
    SupplyLead <- 1, MaxJobs <- 3, EarlyDispatch <- TRUE,
    Cuts <- {1, 99}, MaxAsks <- 1, Others <- {"depot", "scv"}, MaxFrame <- 100

Plans    == which = "planner" /\ Next /\ UNCHANGED <<which, xVars, sVars>>
Settles  == which = "expansion" /\ X!Next /\ UNCHANGED <<which, allvars, sVars>>
Searches == which = "search" /\ S!Next /\ UNCHANGED <<which, allvars, xVars>>
Rests    == which = "search" /\ ~S!Playing /\ UNCHANGED all      \* the target is reached

AllInit == InitAll /\ X!Init /\ S!Init /\ which \in {"planner", "expansion", "search"}
AllNext == Plans \/ Settles \/ Searches \/ Rests

\* The fairness of each, while it is the one that runs.
OfPlanner(A) == which = "planner" /\ A /\ UNCHANGED <<which, xVars, sVars>>
AllSpec ==
    /\ AllInit /\ [][AllNext]_all
    /\ []<>(which = "planner" => stage = "game") /\ WF_all(OfPlanner(ObservesOn))
    /\ SF_all(OfPlanner(MinesOn)) /\ SF_all(OfPlanner(DrillsOn))
    /\ SF_all(OfPlanner(Finishes)) /\ SF_all(OfPlanner(Arrives))
    /\ \A r \in Requests : SF_all(OfPlanner(Lapses(r)))
    /\ WF_all(Settles)
    /\ []<>(which = "expansion" => ~X!Underway) /\ []<>(which = "expansion" => ~X!Making)
    /\ <>[](which = "search" => ~S!Playing) \/ []<><<live'.frame /= live.frame>>_live
-----------------------------------------------------------------------------
\* Whatever is lost in between, the goal is there again and again (Planner).
GoalThere == which = "planner" => GoalReached

\* A place where no hall can be built does not keep the bot from expanding (Expansion).
Expanded == which = "expansion" => X!Expanded

\* `when` skips no frame at which an action could start (BuildSearch).
WhenIsEarliest == which = "search" => S!WhenIsEarliest

\* Searching again and again reaches the target (BuildSearch).
TargetReached == <>(which /= "search" \/ S!GoalMet)
=============================================================================
