------------------------------ MODULE Commands ------------------------------
(* From a bot's calls to the game: bwbot/commands.py, the runner's trim with *)
(* bwbot/apm.py, and CommandApplier.cpp.                                     *)
(*                                                                           *)
(* A bot calls methods of Actions in a decision; the runner cuts its unit    *)
(* commands down to what the APM budget leaves, the shim issues them and     *)
(* draws its overlay, which it draws again on the frames in between.  The    *)
(* methods are told apart by what they send: a command for the unit alone,   *)
(* with a place, with another unit, with a type to make, with a tech.        *)
EXTENDS Integers, Sequences, SequencesExt, FiniteSetsExt, Functions, Lists

CONSTANTS
    Units, None,
    UnitTypes,     \* of the types that can be made
    Techs, TargetTechs,      \* all the techs, and those that need a target (tech 0, Stim Packs, needs none)
    Overlays,      \* what a bot may draw; {} is nothing
    FrameSkip,
    Minute, Window, MinWindow,        \* FRAMES_PER_MINUTE and the meter's windows
    Budget,        \* Bot.apm_budget
    MaxBatch, MaxFrame       \* bounds

VARIABLES
    phase,         \* "menu" or "game"
    frame, alive,
    said,          \* the unit calls of the last decision
    speed,         \* what its game commands are about
    issued,        \* the unit commands the game has got for it
    drawn,         \* what the bot drew in it
    lastDraws,     \* CommandApplier::lastDraws_
    screen,        \* what this frame shows
    window, sum,   \* ApmMeter._window, by frame, and ._window_sum
    sent           \* how many commands went out at each decision of the game, by frame
vars == <<phase, frame, alive, said, speed, issued, drawn, lastDraws, screen, window, sum, sent>>
----------------------------------------------------------------------------
(* Actions *)

Call(kind, u, target, arg, queued) ==
    [kind |-> kind, unit |-> u, target |-> target, arg |-> arg, queued |-> queued]

\* What the methods let a bot say.
Calls ==
    {Call("alone", u, None, None, FALSE) : u \in Units}
    \cup {Call(k, u, None, None, q) : k \in {"stand", "place"}, u \in Units, q \in BOOLEAN}
    \cup {Call("unit", u, v, None, q) : u \in Units, v \in Units, q \in BOOLEAN}
    \cup {Call("make", u, None, t, FALSE) : u \in Units, t \in UnitTypes}
    \cup {Call("tech", u, None, t, FALSE) : u \in Units, t \in Techs}
    \cup {Call("techUnit", u, v, t, q) : u \in Units, v \in Units, t \in TargetTechs, q \in BOOLEAN}

\* Actions.command: the command on the wire; -1 is no target, 0 no argument.
Command(c) ==
    [unit |-> c.unit, type |-> c.kind, target |-> IF c.target = None THEN -1 ELSE c.target,
     extra |-> IF c.arg = None THEN 0 ELSE c.arg, queued |-> c.queued]

\* Actions.to_bytes: a field that has the schema's default is not sent, and
\* read as the default.
Default == [unit |-> 0, type |-> "none", target |-> -1, extra |-> 0, queued |-> FALSE]
Encoded(c) == LET fields == {f \in DOMAIN c : c[f] /= Default[f]} IN [f \in fields |-> c[f]]
Decoded(w) == [f \in DOMAIN Default |-> IF f \in DOMAIN w THEN w[f] ELSE Default[f]]

Message(cmds, game, overlay) ==
    [frame_count |-> frame, unit_commands |-> [i \in DOMAIN cmds |-> Encoded(cmds[i])],
     game_commands |-> game, draws |-> overlay]
----------------------------------------------------------------------------
(* ApmMeter *)

SpanWhole(f) == Window                                                 \* mutant
Span(f) == LET elapsed == IF f < Window THEN f ELSE Window
           IN  IF elapsed < MinWindow THEN MinWindow ELSE elapsed

CommandsAllowed(f) ==
    LET room == (Budget * Span(f)) \div Minute - sum
    IN  IF room < 1 THEN 1 ELSE room

\* The entry of frame f is added, unless it is of nothing; what is older than the
\* window goes.
Grown(f, n) == IF n = 0 THEN window ELSE [g \in DOMAIN window \cup {f} |-> IF g = f THEN n ELSE window[g]]
Expired(w, f) == {g \in DOMAIN w : g <= f - Window}
Record(f, n) ==
    LET grown == Grown(f, n)
    IN  /\ window' = Restrict(grown, DOMAIN grown \ Expired(grown, f))
        /\ sum' = sum + n - SumFunctionOnSet(grown, Expired(grown, f))
----------------------------------------------------------------------------
(* CommandApplier *)

ExtraIsShiftFlag == {"stand", "place", "unit", "techUnit"}

ExtraOfQueued(c) == IF c.queued /\ c.type \in ExtraIsShiftFlag THEN 1 ELSE c.extra \* mutant
Extra(c) == IF c.queued /\ c.type \in ExtraIsShiftFlag /\ c.extra = 0 THEN 1 ELSE c.extra

\* The unit command the game gets, if there is such a unit.
ApplyUnitCommand(c) ==
    [unit |-> c.unit, type |-> c.type, extra |-> Extra(c),
     target |-> IF c.target \in alive THEN c.target ELSE None]
Issues(cmds) ==
    LET list  == [i \in DOMAIN cmds |-> Decoded(cmds[i])]
        heard == Picked(list, {i \in DOMAIN list : list[i].unit \in alive})
    IN  [i \in DOMAIN heard |-> ApplyUnitCommand(heard[i])]

\* Game commands: one that throws is skipped.
ApplyGameCommand(s, c) == IF c = "unimplemented" THEN s ELSE c

\* What lastDraws_ becomes, and what redrawLast shows on frame f.
LastDraws(overlay) == overlay
Redrawn(f) == IF f % FrameSkip = 0 THEN {} ELSE lastDraws
----------------------------------------------------------------------------
Init ==
    /\ phase = "menu" /\ frame = 0
    /\ alive = {} /\ said = <<>> /\ speed = "default" /\ issued = <<>>
    /\ drawn = {} /\ lastDraws = {} /\ screen = {}
    /\ window = <<>> /\ sum = 0 /\ sent = <<>>

\* Bridge::onStart and the runner's _play_one: everything is new but the speed.
Starts ==
    /\ phase = "menu"
    /\ phase' = "game" /\ frame' = 0
    /\ alive' = Units
    /\ said' = <<>> /\ issued' = <<>>
    /\ drawn' = {} /\ lastDraws' = {} /\ screen' = {}
    /\ window' = <<>> /\ sum' = 0 /\ sent' = <<>>
    /\ UNCHANGED speed

\* A bot says the same thing more often than the budget may allow, but what it
\* says first is anything.
Batches ==
    {<<>>} \cup {[i \in 1 .. n |-> IF i = 1 THEN c ELSE Call("place", c.unit, None, None, FALSE)] :
                    c \in Calls, n \in 1 .. MaxBatch}
GameBatches == {<<>>, <<"fast">>, <<"unimplemented", "slow">>}

Trimmed(list) ==
    [i \in 1 .. IF CommandsAllowed(frame) < Len(list) THEN CommandsAllowed(frame) ELSE Len(list) |-> list[i]]

\* A decision: the calls, the trim, the message and what the shim does with it.
Decides ==
    /\ phase = "game" /\ frame < MaxFrame /\ frame % FrameSkip = 0 /\ frame \notin DOMAIN sent
    /\ \E batch \in Batches, overlay \in Overlays, game \in GameBatches :
           LET cmds == [i \in DOMAIN batch |-> Command(batch[i])]
               out  == Trimmed(cmds)
               msg  == Message(out, game, overlay)
           IN  /\ said' = Trimmed(batch)
               /\ speed' = FoldLeft(ApplyGameCommand, speed, msg.game_commands)
               /\ issued' = Issues(msg.unit_commands)
               /\ drawn' = overlay /\ screen' = msg.draws /\ lastDraws' = LastDraws(msg.draws)
               /\ Record(frame, Len(out))
               /\ sent' = [f \in DOMAIN sent \cup {frame} |-> IF f = frame THEN Len(out) ELSE sent[f]]
    /\ UNCHANGED <<phase, frame, alive>>

\* The game's next frame; BWAPI forgets what was drawn, the shim draws it again.
NextFrame ==
    /\ phase = "game" /\ frame < MaxFrame
    /\ frame % FrameSkip = 0 => frame \in DOMAIN sent
    /\ frame' = frame + 1
    /\ alive' \in {alive} \cup {alive \ {u} : u \in alive}
    /\ said' = <<>> /\ issued' = <<>>
    /\ screen' = Redrawn(frame')
    /\ UNCHANGED <<phase, speed, drawn, lastDraws, window, sum, sent>>

Ends ==
    /\ phase = "game"
    /\ phase' = "menu" /\ screen' = {}
    /\ UNCHANGED <<frame, alive, said, speed, issued, drawn, lastDraws, window, sum, sent>>

Next == Starts \/ Decides \/ NextFrame \/ Ends
Spec == Init /\ [][Next]_vars
----------------------------------------------------------------------------
\* How the game reads a command: `extra` is the shift flag of a command that
\* can be queued, and the argument of the others.
Queueable == {"stand", "place", "unit"}
Reads(c) ==
    [kind |-> c.type, unit |-> c.unit, target |-> c.target,
     queued |-> c.type \in Queueable /\ c.extra = 1,
     arg |-> IF c.type \in {"make", "tech", "techUnit"} THEN c.extra ELSE None]

\* The game does what the bot said, in that order, as far as the units are
\* there: same unit, target and argument, queued where a command can be.
Meant ==
    LET heard == Picked(said, {i \in DOMAIN said : said[i].unit \in alive})
    IN  /\ DOMAIN issued = DOMAIN heard
        /\ \A i \in DOMAIN issued :
               Reads(issued[i]) =
                   [heard[i] EXCEPT !.target = IF @ \in alive THEN @ ELSE None,
                                    !.queued = @ /\ heard[i].kind \in Queueable]

\* The frames between two decisions show what the bot drew last, and no frame
\* shows another game's overlay (CommandApplier.h: "kept on screen").
OverlayStays ==
    phase = "game" /\ (frame % FrameSkip /= 0 \/ frame \in DOMAIN sent) => screen = drawn

\* A decision that sends more than the one command that is always allowed
\* leaves the last minute within the budget (apm.py: commands_allowed), however
\* the commands were spread over it.  A minute is counted from the session's start: a
\* bot that reconnects in mid-match begins a new one (runner.py:53: apm.reset).
WithinBudget ==
    LET now    == Max(DOMAIN sent)
        minute == Max({MinWindow, Min({now, Window})})
        lately == SumFunctionOnSet(sent, {f \in DOMAIN sent : f > now - Window})
    IN  DOMAIN sent /= {} /\ sent[now] > 1 => lately * Minute <= Budget * minute
============================================================================
