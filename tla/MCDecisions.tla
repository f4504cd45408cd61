---------------------------- MODULE MCDecisions ----------------------------
(***************************************************************************)
(* The bot's decisions and what is written down of them, side by side: the *)
(* scheduler of the components (Scheduler) and the game's log with its     *)
(* fights (GameLog) share nothing.  A behaviour runs the one that `which`  *)
(* names; the other stands still.                                          *)
(***************************************************************************)
EXTENDS Scheduler, GameLog, TLC

CONSTANTS sensor, learned, scripted, reporter, sighting, a, b, x

MCFirst == <<sensor, learned, reporter>>
MCPhaseOf == <<"SENSE", "DECIDE", "REPORT">>
MCFallback == [y \in Components |-> IF y = learned THEN scripted ELSE None]
MCPeriod == [y \in Components |->
    CASE y = learned -> 1 [] y = reporter -> 2 [] OTHER -> 0]
MCTriggers == [y \in Components |-> IF y \in {learned, reporter} THEN {sighting} ELSE {}]
MCMaxFrame == <<4, 1>>
Alike == Permutations({a, b})

VARIABLE which

AllInit == Init /\ LogInit /\ which \in {"scheduler", "log"}
AllNext ==
    /\ UNCHANGED which
    /\ \/ which = "scheduler" /\ Next /\ UNCHANGED logVars
       \/ which = "log" /\ LogNext /\ UNCHANGED vars
AllSpec == AllInit /\ [][AllNext]_<<which, vars, logVars>>
=============================================================================
