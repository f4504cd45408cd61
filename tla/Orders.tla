------------------------------- MODULE Orders -------------------------------
(***************************************************************************)
(* What reaches the units, in three instances that share nothing: the      *)
(* leases and the command bus (Arbiter), what the commands become on their *)
(* way into the game (Commands) and the workers' own assignment (Pool).    *)
(* A behaviour runs the one that `which` names; the others stand still.    *)
(***************************************************************************)
EXTENDS Arbiter

CONSTANTS
    \* of Commands
    Targets, UnitTypes, Techs, TargetTechs, Overlays, FrameSkip, Minute, Window, MinWindow,
    Budget, MaxBatch, LastFrame,
    \* of Pool
    Workers, Patches, Refineries, Bases, BaseOf, Idle, GasPerRefinery, PerPatch, Transfers,
    GasBank, MaxFaults

\* A unit's id is not the number that stands for no target, a type is not none, and tech 0
\* needs no target; the budget is counted in commands, the windows in frames.
ASSUME CommandsAssumption ==
    /\ None \notin Targets /\ -1 \notin Targets
    /\ None \notin UnitTypes \cup Techs \cup TargetTechs /\ 0 \notin TargetTechs
    /\ FrameSkip \in Nat \ {0} /\ Minute \in Nat \ {0} /\ Window \in Nat \ {0}
    /\ MinWindow \in Nat /\ Budget \in Nat /\ MaxBatch \in Nat /\ LastFrame \in Nat
ASSUME PoolAssumption ==
    /\ IsFiniteSet(Workers) /\ IsFiniteSet(Patches) /\ None \notin Patches
    /\ GasPerRefinery \in Nat /\ PerPatch \in Nat /\ Transfers \in Nat

VARIABLES
    which,
    cPhase, cFrame, cAlive, said, speed, issued, drawn, lastDraws, screen, window, sum, sent,
    hall, patches, refs, order, gas, mineral, per, free, turn, pTodo, pairs, moved, faults
cVars == <<cPhase, cFrame, cAlive, said, speed, issued, drawn, lastDraws, screen, window, sum, sent>>
pVars == <<hall, patches, refs, order, gas, mineral, per, free, turn, pTodo, pairs, moved, faults>>

C == INSTANCE Commands WITH
    phase <- cPhase, frame <- cFrame, alive <- cAlive, Units <- Targets, MaxFrame <- LastFrame
P == INSTANCE Pool WITH todo <- pTodo

AllInit == Init /\ C!Init /\ P!Init /\ which \in {"arbiter", "commands", "pool"}

Arbitrates == which = "arbiter" /\ Next /\ UNCHANGED <<which, cVars, pVars>>
Sends == which = "commands" /\ C!Next /\ UNCHANGED <<which, vars, pVars>>
Pools == which = "pool" /\ P!Next /\ UNCHANGED <<which, vars, cVars>>
AllNext == Arbitrates \/ Sends \/ Pools
AllSpec == AllInit /\ [][AllNext]_<<which, vars, cVars, pVars>>
-----------------------------------------------------------------------------
\* Every command does in the game what the bot said it should (Commands).
Meant == C!Meant

\* A minute of the game stays within the bot's budget of actions (Commands).
WithinBudget == C!WithinBudget

\* What the pool publishes is shared out as it promises, and a worker counts twice
\* only as one that was found at a refinery (Pool).
Shared == P!Shared
=============================================================================
