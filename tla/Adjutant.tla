------------------------------ MODULE Adjutant ------------------------------
(***************************************************************************)
(* What the adjutant's components make of the units in a game, in three    *)
(* instances that share nothing: which component has which of ours         *)
(* (UnitControl), what is believed of the enemy's (Belief), and what those *)
(* of the squads are told to do (Micro).  A behaviour runs the one that    *)
(* `which` names; the others stand still.                                  *)
(***************************************************************************)
EXTENDS UnitControl, Sequences

CONSTANTS
    \* of Belief
    EnemyUnits, Sites, StartOrder, FullInfo, MaxChanges,
    \* of Micro
    Fighters, Enemies, Tank, HitsAir, Ranged, Flyers, Melee, EnemyWorkers, Volleys,
    Distances, OnTop, WeaponRange, Reach, Cannon, Repeat, KiteRepeat, UnsiegeAfter, MaxCmds

\* The start locations are sites, in some order (ScriptedBelief sorts them).
ASSUME BeliefAssumption == StartOrder \in Seq(Sites)

VARIABLES
    which,
    world, home, hall, steady, changes, lost, witnessed, vis, seen, guess, tracks, candidates, alive, met, raised,
    sieged, last, near, doing, leaves, tank, even
bVars == <<world, home, hall, steady, changes, lost, witnessed, vis, seen, guess, tracks, candidates, alive, met, raised>>
mVars == <<sieged, last, near, doing, leaves, tank, even>>
all == <<which, vars, bVars, mVars>>

B == INSTANCE Belief WITH Units <- EnemyUnits
M == INSTANCE Micro WITH Units <- Fighters, Workers <- EnemyWorkers

Controls == which = "control" /\ Next /\ UNCHANGED <<which, bVars, mVars>>
Believes == which = "belief" /\ B!Next /\ UNCHANGED <<which, vars, mVars>>
Fights   == which = "micro" /\ M!Next /\ UNCHANGED <<which, vars, bVars>>

\* What stands still does so in one state only.
Still ==
    /\ which /= "control" => scoutDone = FALSE
    /\ which /= "belief" =>
           hall = (CHOOSE v \in EnemyUnits : TRUE) /\ home = StartOrder[1] /\ guess = B!Start(home)
AllInit == Init /\ B!Init /\ M!Init /\ which \in {"control", "belief", "micro"} /\ Still
AllNext == Controls \/ Believes \/ Fights
AllSpec == AllInit /\ [][AllNext]_all
-----------------------------------------------------------------------------
\* What is remembered of a site in sight is what stands there (Belief).
TrueInSight == B!TrueInSight

\* The enemy's true start is found in the end (Belief).
HomeFound == which = "belief" => B!HomeFound

\* A sieged tank that has no business there is mobile in the end (Micro).
TankFollows == M!TankFollows
=============================================================================
