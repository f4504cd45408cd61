------------------------------ MODULE GameLog ------------------------------
(* What is left of a game: the rows that its components record, in           *)
(* blackboard/recorder.py and bot.py, with the fight log of                  *)
(* components/engagement.py as the component that records most, and what     *)
(* blackboard/datasets.py makes of the files.                                *)
(*                                                                           *)
(* A process plays one game after the other with one Recorder.  A game may   *)
(* end, lose its connection (the runner plays on, without on_end) or take    *)
(* the process with it, in the middle of a line or not.  BWBOT_GAME_ID may   *)
(* pin the name of the file for all the games of a process and the next.     *)
(*                                                                           *)
(* Places stand for where a cluster or an enemy is: at the same place they   *)
(* are in contact, at neighbouring places their fights are one.              *)
(*                                                                           *)
(* The names LogInit, GameStarts, RowDue, nextFid and the like leave those   *)
(* of Scheduler free for a module that extends both.                         *)
EXTENDS Integers, Sequences, FiniteSetsExt, Lists

CONSTANTS
    Own, Foes,     \* units
    NPlaces,       \* the places are 1 .. NPlaces, in a row
    Join,          \* the distance within which a cluster joins a fight
    Quiet, Longest,       \* FightLog.quiet and .max
    RecordEvery,   \* StrategyBase.record_every
    Nothing,       \* no file, no row, no result
    MaxFrame       \* bound: how many decisions each game has

MaxGames == Len(MaxFrame)
\* The file of each game, and the one of the id that BWBOT_GAME_ID pins.
PinnedFile == 0
Paths == PinnedFile .. MaxGames

ASSUME LogAssumption ==
    /\ IsFiniteSet(Own) /\ IsFiniteSet(Foes)
    /\ NPlaces \in Nat
    /\ MaxFrame \in Seq(Nat)
    /\ Nothing \notin Paths

VARIABLES
    phase,         \* "down" (no process), "idle" (no game), "playing"
    game, frame,   \* which game it is, and the decision
    pinned,        \* BWBOT_GAME_ID is set
    file, rows, last,        \* Recorder._fh, .rows and ._last
    disk,          \* the log files: the rows of each
    fights, nextFid,      \* FightLog.active and ._next
    dead,          \* whose UnitDestroy event was seen in this game
    result         \* how a game did end: who won, and how many fights it had
logVars == <<phase, game, frame, pinned, file, rows, last, disk, fights, nextFid, dead, result>>
----------------------------------------------------------------------------
(* FightLog *)

DestroyedInOwnOrFoes(f, died) ==                                       \* mutant
    IF f.own \cap died /= {} THEN [f EXCEPT !.ownLost = @ + Cardinality(f.own \cap died)]
    ELSE [f EXCEPT !.foesLost = @ + Cardinality(f.foes \cap died)]
\* A death counts in every fight the unit was seen in.
Destroyed(f, died) ==
    [f EXCEPT !.ownLost = @ + Cardinality(f.own \cap died),
              !.foesLost = @ + Cardinality(f.foes \cap died)]
Struck(list, died) == [i \in DOMAIN list |-> Destroyed(list[i], died)]

Near(p, q) == p - q <= Join /\ q - p <= Join

Joined(f, now, p, own, foes) ==
    [f EXCEPT !.own = @ \cup own, !.foes = @ \cup foes, !.last = now, !.center = p]
Begun(n, now, p, own, foes) ==
    [fid |-> n, start |-> now, last |-> now, center |-> p,
     own |-> own, foes |-> foes, ownLost |-> 0, foesLost |-> 0]

\* A cluster joins the first fight it is near to, or it begins one.
Observe(s, now, p, own, foes) ==
    LET near == {i \in DOMAIN s.fights : Near(s.fights[i].center, p)}
    IN  IF near /= {} THEN [s EXCEPT !.fights[Min(near)] = Joined(@, now, p, own, foes)]
        ELSE [fights |-> Append(s.fights, Begun(s.next, now, p, own, foes)), next |-> s.next + 1]

Over(f, now, force) == force \/ now - f.last > Quiet \/ now - f.start > Longest
CloseDue(list, now, force) == Picked(list, {i \in DOMAIN list : Over(list[i], now, force)})
StillActive(list, now) == Picked(list, {i \in DOMAIN list : ~Over(list[i], now, FALSE)})

There(at, p, who) == {u \in who \cap DOMAIN at : at[u] = p}

\* The fights after LanchesterEngagement.tick's clusters that are in contact, one
\* per place, were observed one after the other.
Seen(struck, at, now) ==
    LET seen[p \in 0 .. NPlaces] ==
            IF p = 0 THEN [fights |-> struck, next |-> nextFid]
            ELSE IF There(at, p, Own) = {} \/ There(at, p, Foes) = {} THEN seen[p - 1]
            ELSE Observe(seen[p - 1], now, p, There(at, p, Own), There(at, p, Foes))
    IN  seen[NPlaces]
----------------------------------------------------------------------------
(* Recorder *)

Header == [t |-> "header", game |-> game']
FightRow(f) ==
    [t |-> "fight", game |-> game, f |-> frame', fid |-> f.fid, own |-> f.own, foes |-> f.foes,
     ownLost |-> f.ownLost, foesLost |-> f.foesLost]
FightList(list) == [i \in DOMAIN list |-> FightRow(list[i])]
Context == [t |-> "ctx", game |-> game, f |-> frame']
End(won, n) == [t |-> "end", game |-> game, won |-> won, rows |-> n]
Torn == [t |-> "torn"]

Writes(list) == disk' = [disk EXCEPT ![file] = @ \o list]

OpenedAtEnd(path) == [disk EXCEPT ![path] = Append(@, Header)]         \* mutant
Opened(path) == [disk EXCEPT ![path] = <<Header>>]

RowDue(now) == last = Nothing \/ now - last >= RecordEvery
----------------------------------------------------------------------------
(* read_game and iter_games *)

\* Where the rows of these kinds are in the file.
Lines(path, kinds) == {i \in DOMAIN disk[path] : disk[path][i].t \in kinds}
LastOf(path, kind) ==
    IF Lines(path, {kind}) = {} THEN Nothing ELSE disk[path][Max(Lines(path, {kind}))]

ReadGame(path) ==
    [header |-> LastOf(path, "header"),
     rows   |-> Picked(disk[path], Lines(path, {"fight", "ctx"})),
     end    |-> LastOf(path, "end")]

\* The games a trainer gets.
IterGames == {g \in {ReadGame(p) : p \in Paths} : g.header /= Nothing /\ g.end /= Nothing}
----------------------------------------------------------------------------
LogInit ==
    /\ phase = "down" /\ game = 0 /\ frame = 0
    /\ pinned = FALSE
    /\ file = Nothing /\ rows = 0 /\ last = Nothing
    /\ disk = [p \in Paths |-> <<>>]
    /\ fights = <<>> /\ nextFid = 0
    /\ dead = {}
    /\ result = <<>>

Boots ==
    /\ phase = "down" /\ game < MaxGames
    /\ phase' = "idle"
    /\ pinned' \in BOOLEAN
    /\ file' = Nothing /\ rows' = 0 /\ last' = Nothing
    /\ fights' = <<>> /\ nextFid' = 0
    /\ UNCHANGED <<game, frame, disk, dead, result>>

\* BlackboardBot.on_start: the components first, then the file.
GameStarts ==
    /\ phase = "idle" /\ game < MaxGames
    /\ phase' = "playing"
    /\ game' = game + 1 /\ frame' = 0
    /\ fights' = <<>> /\ nextFid' = 0
    /\ rows' = 0 /\ last' = Nothing
    /\ file' = IF pinned THEN PinnedFile ELSE game'
    /\ disk' = Opened(file')
    /\ dead' = {} /\ result' = Append(result, Nothing)
    /\ UNCHANGED pinned

\* BlackboardBot.on_frame: the deaths since the last decision, the fights of
\* the clusters that are in contact, the fights that are over; the strategy.
OnFrame ==
    /\ phase = "playing" /\ frame < MaxFrame[game]
    /\ frame' = frame + 1
    /\ \E died \in SUBSET ((Own \cup Foes) \ dead) :
       \E at \in [(Own \cup Foes) \ (dead \cup died) -> 1 .. NPlaces] :
           LET seen == Seen(Struck(fights, died), at, frame')
               over == CloseDue(seen.fights, frame', FALSE)
               new  == FightList(over) \o (IF RowDue(frame') THEN <<Context>> ELSE <<>>)
           IN  /\ dead' = dead \cup died
               /\ fights' = StillActive(seen.fights, frame')
               /\ nextFid' = seen.next
               /\ Writes(new)
               /\ rows' = rows + Len(new)
               /\ last' = IF RowDue(frame') THEN frame' ELSE last
    /\ UNCHANGED <<phase, game, pinned, file, result>>

\* BlackboardBot.on_end: the components' last rows, then the footer.
OnEnd(won) ==
    /\ phase = "playing"
    /\ phase' = "idle"
    /\ UNCHANGED <<game, frame, pinned, last, nextFid, dead>>
    /\ LET over == CloseDue(fights, frame, TRUE)
           new  == FightList(over)
       IN  Writes(Append(new, End(won, rows + Len(new)))) /\ rows' = rows + Len(new)
    /\ fights' = <<>>
    /\ file' = Nothing
    /\ result' = [result EXCEPT ![game] = [won |-> won, fights |-> nextFid]]

\* The runner's connection is gone: no on_end, the next game is a new on_start.
Disconnects ==
    /\ phase = "playing"
    /\ phase' = "idle"
    /\ UNCHANGED <<game, frame, pinned, file, rows, last, disk, fights, nextFid, dead, result>>

\* The process dies, perhaps while it writes a line.
Crashes ==
    /\ phase \in {"idle", "playing"}
    /\ phase' = "down"
    /\ \/ UNCHANGED disk
       \/ phase = "playing" /\ Writes(<<Torn>>)
    /\ UNCHANGED <<game, frame, pinned, file, rows, last, fights, nextFid, dead, result>>

LogNext == Boots \/ GameStarts \/ OnFrame \/ (\E won \in BOOLEAN : OnEnd(won)) \/ Disconnects \/ Crashes
LogSpec == LogInit /\ [][LogNext]_logVars
----------------------------------------------------------------------------
\* Whatever a trainer reads of a finished game is of that one game: its rows
\* and its footer are the header's, none is missing, and the result is the one
\* the game had.  Crashes, torn lines, lost connections and a file name that
\* is used again never mix two games (recorder.py:3-5).
DatasetTrue ==
    \A g \in IterGames :
        /\ g.end.game = g.header.game
        /\ g.end.rows = Len(g.rows)
        /\ \A i \in DOMAIN g.rows : g.rows[i].game = g.header.game
        /\ g.end.won = result[g.header.game].won

\* Every fight of a finished game is written, once (engagement.py:8-10).
FightsWritten ==
    \A g \in IterGames :
        LET written == {i \in DOMAIN g.rows : g.rows[i].t = "fight"}
        IN  /\ \A i, k \in written : g.rows[i].fid = g.rows[k].fid => i = k
            /\ {g.rows[i].fid : i \in written} = 0 .. result[g.header.game].fights - 1

\* The losses of a fight that is written are the units it saw that have died
\* by then, whichever of its clusters they were in and wherever they had gone.
NewRows == IF file = Nothing THEN {}
           ELSE {disk'[file][i] : i \in {k \in DOMAIN disk'[file] : k > Len(disk[file])}}
LossesTrue ==
    [][\A r \in NewRows : r.t = "fight" =>
           /\ r.ownLost = Cardinality(r.own \cap dead')
           /\ r.foesLost = Cardinality(r.foes \cap dead')]_logVars
============================================================================
