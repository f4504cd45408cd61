------------------------------- MODULE Harness -------------------------------
(***************************************************************************)
(* The two harnesses, in instances that share nothing: self-play           *)
(* matches on the ports of their slots (SelfPlay), and games against       *)
(* published bots side by side in theirs (BotMatch).  A behaviour runs the *)
(* one that `which` names; the other stands still.                         *)
(***************************************************************************)
EXTENDS SelfPlay

CONSTANTS
    BotGames, BotSlots,   \* the games against published bots, and their slots
    Wines,                \* which harness plays them: {FALSE}, {TRUE} or both
    BotFaults             \* StarCrafts and brains that fail (a bound)

ASSUME BotsAssumption ==
    /\ Wines \subseteq BOOLEAN
    /\ None \notin BotGames /\ None \notin BotSlots
    /\ None \notin BotSlots \X Sides /\ None \notin BotGames \X Sides

VARIABLES
    which,
    wine, bFree, bSlot, pc, lock, install, ini, sc, conf, before, pids, missed,
    bBrain, bFile, began, started, bRow, bMain, bFaults
bVars == <<wine, bFree, bSlot, pc, lock, install, ini, sc, conf, before, pids, missed,
           bBrain, bFile, began, started, bRow, bMain, bFaults>>
all == <<which, vars, bVars>>

B == INSTANCE BotMatch WITH
    free <- bFree, slot <- bSlot, brain <- bBrain, file <- bFile, row <- bRow, main <- bMain,
    faults <- bFaults,
    Games <- BotGames, Slots <- BotSlots, MaxFaults <- BotFaults

PlaysSelf == which = "self" /\ Next /\ UNCHANGED <<which, bVars>>
PlaysBots == which = "bots" /\ B!Next /\ UNCHANGED <<which, vars>>

AllInit == Init /\ B!Init /\ which \in {"self", "bots"} /\ (which = "self" => ~wine)
AllNext == PlaysSelf \/ PlaysBots

\* The fairness of each, while it is the one that runs.
AllSpec ==
    /\ AllInit /\ [][AllNext]_all
    /\ WF_all(which = "self" /\ Proceeds /\ UNCHANGED <<which, bVars>>)
    /\ WF_all(which = "self" /\ Collects /\ UNCHANGED <<which, bVars>>)
    /\ WF_all(PlaysBots)
-----------------------------------------------------------------------------
\* No game against a bot takes another one's StarCraft for its own, unless that one's
\* launch ended without it (BotMatch).
OwnProcesses == B!OwnProcesses

\* However games fail, each run ends: every match is over and main's loop too
\* (SelfPlay.AllOver); every slot, the lock, the registry value and every process is
\* given back but a StarCraft that no launch ever saw (BotMatch.RunEnds).
RunEnds == <>(IF which = "self" THEN Ended ELSE B!AllBack)
=============================================================================
