------------------------------ MODULE Lockstep ------------------------------
(***************************************************************************)
(* What the game sees of the link to the bot: "per decision frame the shim *)
(* sends Frame, waits for Commands, applies them, advances" (README.md).   *)
(* A decision is asked for the current frame and then either answered by   *)
(* the Commands for that frame or given up; the frame count only moves on  *)
(* when no decision is open, and stands still while the game is paused.    *)
(* One thing breaks the lockstep: a decision abandoned while its bot still *)
(* thinks.  From then on, until that bot's connection is closed, Commands  *)
(* may be those for an earlier decision.                                   *)
(* ShimLink implements this specification.                                 *)
(***************************************************************************)
EXTENDS Naturals

CONSTANTS Games, MaxFrame
VARIABLES match, game, frame, asked, applied,
    adrift      \* has a decision been abandoned over the connection in use

vars == <<match, game, frame, asked, applied, adrift>>
None == <<0, 0>>
Decisions == (1..Games) \X (0..MaxFrame)

\* The connection lasts, or is closed, and what was abandoned over it with it.
Connection == adrift' \in {adrift, FALSE}

Init ==
    /\ match = "none" /\ game = Games /\ frame = 0
    /\ asked = FALSE /\ applied = None /\ adrift = FALSE

Start ==
    /\ match = "none" /\ ~asked
    /\ match' = "running" /\ game' = (game % Games) + 1 /\ frame' = 0
    /\ Connection
    /\ UNCHANGED <<asked, applied>>

\* A frame without a decision: between two of them, or with no bot.
Advance ==
    /\ match = "running" /\ ~asked /\ frame <= MaxFrame
    /\ frame' = frame + 1
    /\ Connection
    /\ UNCHANGED <<match, game, asked, applied>>

Ask ==
    /\ match = "running" /\ ~asked /\ frame <= MaxFrame
    /\ asked' = TRUE
    /\ UNCHANGED <<match, game, frame, applied, adrift>>

Answer ==
    /\ asked
    /\ applied' = <<game, frame>> \/ (adrift /\ applied' \in Decisions)
    /\ asked' = FALSE /\ frame' \in {frame, frame + 1}
    /\ UNCHANGED <<match, game, adrift>>

\* The bot went away.
GiveUp ==
    /\ asked
    /\ asked' = FALSE /\ adrift' = FALSE /\ frame' \in {frame, frame + 1}
    /\ UNCHANGED <<match, game, applied>>

\* The game stopped waiting for a bot that is still there.
Abandon ==
    /\ asked
    /\ asked' = FALSE /\ adrift' = TRUE /\ frame' \in {frame, frame + 1}
    /\ UNCHANGED <<match, game, applied>>

\* The connection is closed between two decisions.
Leave ==
    /\ ~asked /\ adrift' = FALSE
    /\ UNCHANGED <<match, game, frame, asked, applied>>

End ==
    /\ match = "running" /\ ~asked
    /\ match' = "none"
    /\ Connection
    /\ UNCHANGED <<game, frame, asked, applied>>

\* The game's process dies; the module's memory of its last decision with it.
Die ==
    /\ match = "running"
    /\ match' = "none" /\ asked' = FALSE /\ applied' = None /\ adrift' = FALSE
    /\ UNCHANGED <<game, frame>>

Next ==
    \/ Start \/ Advance \/ Ask \/ Answer \/ GiveUp \/ Abandon \/ Leave
    \/ End \/ Die

Spec == Init /\ [][Next]_vars
=============================================================================
