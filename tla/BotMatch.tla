------------------------------ MODULE BotMatch ------------------------------
(***************************************************************************)
(* Games against published bots: harness/botmatch.py on native Windows and *)
(* harness/winematch.py under Wine.  A thread pool plays the games; each   *)
(* starts two StarCrafts from the folders of its slot, with its brain      *)
(* beside the first, waits for the brain, kills what it started and        *)
(* returns a row.                                                          *)
(*                                                                         *)
(* On Windows a StarCraft finds its bwapi.ini through InstallPath, one     *)
(* registry value for all, and a game knows its StarCrafts as the ones     *)
(* that were not running before: both need LAUNCH_LOCK.  Under Wine a slot *)
(* has prefixes, a registry and a network of its own.                      *)
(***************************************************************************)
EXTENDS Naturals, Sequences, FiniteSets

CONSTANTS
    Games, Slots,   \* numbers: games are submitted in order
    None,
    Wines,          \* which of the two harnesses: {FALSE}, {TRUE} or both
    MaxFaults       \* StarCrafts that fail to start, brains that fail (a bound)

Sides == {"a", "b"}
Procs == Games \X Sides

VARIABLES
    wine,
    free, slot,     \* main's free slots; the one of a game
    pc,             \* how far a game is
    lock,           \* who holds LAUNCH_LOCK
    install,        \* InstallPath: the user's own (None), or a folder <<slot, side>>
    ini,            \* whose bwapi.ini is in a folder
    sc,             \* a game's StarCrafts: none, starting, up or dead
    conf,           \* the bwapi.ini a StarCraft read: a game's and side's, or the user's (<<>>)
    before, pids,   \* launch's snapshot; what a game takes for its StarCrafts
    missed,         \* the StarCrafts that their launch ended without (a history variable)
    brain,          \* a game's brain: none, waits, plays, writes, exited or dead
    file,           \* its result_a.json: none, torn or whole
    began, started, \* has its game begun, and has winematch looked and found so?
    row,            \* the reason a game's row gives
    main,           \* collecting, cancelled or over
    faults

slots  == <<free, slot>>
files  == <<install, ini>>
procs  == <<sc, conf, before, pids, missed>>
brains == <<brain, file, began, started>>
vars   == <<wine, slots, pc, lock, files, procs, brains, row, main, faults>>

Folder(g, s) == <<slot[g], s>>
Shown        == {p \in Procs : sc[p] = "up"}
Running(p)   == sc[p] \in {"starting", "up"}
Ended(g)     == pc[g] \in {"done", "failed", "cancelled"}

Init ==
    /\ wine \in Wines /\ free = Slots /\ slot = [g \in Games |-> None]
    /\ pc = [g \in Games |-> "queued"] /\ lock = None
    /\ install = None /\ ini = [f \in Slots \X Sides |-> None]
    /\ sc = [p \in Procs |-> "none"] /\ conf = [p \in Procs |-> None]
    /\ before = [g \in Games |-> {}] /\ pids = [g \in Games |-> {}] /\ missed = {}
    /\ brain = [g \in Games |-> "none"] /\ file = [g \in Games |-> "none"]
    /\ began = [g \in Games |-> FALSE] /\ started = [g \in Games |-> FALSE]
    /\ row = [g \in Games |-> None] /\ main = "collecting" /\ faults = 0

\* The stages of a game that there are two of, one for each StarCraft.
Launching == [a |-> "launchA", b |-> "launchB"]
Waiting   == [a |-> "waitA", b |-> "waitB"]

Goes(g, from, to) == pc[g] = from /\ pc' = [pc EXCEPT ![g] = to] /\ UNCHANGED <<wine, main>>
Fault == faults < MaxFaults /\ faults' = faults + 1

-----------------------------------------------------------------------------
(* A game                                                                  *)

\* pool.map hands the games out in their order.
NextInLine(g) == \A h \in Games : h < g => pc[h] # "queued"

\* prepare_instance and bwapi_ini: both folders of a slot are made anew for a game.
Rewritten(g, s) == [f \in DOMAIN ini |-> IF f[1] = s THEN g ELSE ini[f]]

\* one: a thread takes the next game and a free slot; play writes both folders of it
\* (under Wine also its registry).
Take(g, s) ==
    /\ Goes(g, "queued", IF wine THEN Launching["a"] ELSE "lock") /\ NextInLine(g)
    /\ s \in free /\ free' = free \ {s} /\ slot' = [slot EXCEPT ![g] = s]
    /\ ini' = Rewritten(g, s)
    /\ UNCHANGED <<lock, install, procs, brains, row, faults>>

\* load_bot or prepare_instance fails before anything runs, the latter too where a
\* StarCraft still runs in the folders: the slot is given back.
InUse(s) == \E p \in Procs : Running(p) /\ slot[p[1]] = s
TakeFails(g) ==
    /\ Goes(g, "queued", "failed") /\ NextInLine(g)
    /\ free # {} /\ (Fault \/ ((\E s \in free : InUse(s)) /\ UNCHANGED faults))
    /\ UNCHANGED <<slots, lock, files, procs, brains, row>>

NoLock(g) == lock' = g                                                 \* mutant
Acquire(g) == lock = None /\ lock' = g
Locks(g) ==
    /\ Goes(g, "lock", Launching["a"]) /\ Acquire(g)
    /\ UNCHANGED <<slots, files, procs, brains, row, faults>>

\* install_path sets the value, or deletes it again.
SetInstall(value) == install' = value

Starts(g, s) == sc' = [sc EXCEPT ![<<g, s>>] = "starting"]

\* On Windows, launch: the registry, the snapshot, then injectory.
Launch(g, s) ==
    /\ ~wine /\ Goes(g, Launching[s], Waiting[s])
    /\ SetInstall(Folder(g, s)) /\ before' = [before EXCEPT ![g] = Shown] /\ Starts(g, s)
    /\ UNCHANGED <<slots, lock, ini, conf, pids, missed, brains, row, faults>>

\* Under Wine, play's spawn: nothing is waited for.
Spawn(g, s) ==
    /\ wine /\ Goes(g, Launching[s], IF s = "a" THEN "brain" ELSE "play")
    /\ Starts(g, s)
    /\ UNCHANGED <<slots, lock, files, conf, before, pids, missed, brains, row, faults>>

\* launch polls the task list until it shows a StarCraft that was not there, or gives up
\* after 20 seconds whatever the StarCraft does: a slow one, or one that showed up after
\* the last poll, is in nobody's pids then.
New(g) == Shown \ before[g]
Known(g) == pids[g] \cup New(g)
Misses(g, s) == missed' = missed \cup ({<<g, s>>} \ pids'[g])
Sees(g, s) ==
    /\ Goes(g, Waiting[s], IF s = "a" THEN "brain" ELSE "reading") /\ New(g) # {}
    /\ pids' = [pids EXCEPT ![g] = Known(g)] /\ Misses(g, s)
    /\ UNCHANGED <<slots, lock, files, sc, conf, before, brains, row, faults>>
GivesUp(g, s) ==
    /\ Goes(g, Waiting[s], "stopFailed")
    /\ UNCHANGED pids /\ Misses(g, s)
    /\ UNCHANGED <<slots, lock, files, sc, conf, before, brains, row, faults>>

\* A StarCraft that launch saw has the time to read its bwapi.ini: the host has
\* join_delay, which passes after the brain is started ...
HasRead(p) == Running(p) /\ p \notin missed => conf[p] # None
Brain(g) ==
    /\ Goes(g, "brain", Launching["b"]) /\ HasRead(<<g, "a">>)
    /\ brain' = [brain EXCEPT ![g] = "waits"]
    /\ UNCHANGED <<slots, lock, files, procs, file, began, started, row, faults>>

\* ... and the joiner three seconds.
Unlocks(g) ==
    /\ Goes(g, "reading", "play") /\ HasRead(<<g, "b">>) /\ lock' = None
    /\ UNCHANGED <<slots, files, procs, brains, row, faults>>

\* Under Wine: has the brain's log told of a game start when lobby_timeout is over?
Looks(g) ==
    /\ wine /\ pc[g] = "play" /\ ~started[g]
    /\ IF began[g] THEN started' = [started EXCEPT ![g] = TRUE] /\ UNCHANGED pc
                   ELSE pc' = [pc EXCEPT ![g] = "stop"] /\ UNCHANGED started
    /\ UNCHANGED <<wine, slots, lock, files, procs, brain, file, began, row, main, faults>>

\* The brain has exited, or the time of the game is over.
Waited(g) == Goes(g, "play", "stop") /\ UNCHANGED <<slots, lock, files, procs, brains, row, faults>>

\* game_row: no row of a game whose brain was killed while it wrote (the file is no
\* JSON); else what judge makes of one result and a timeout, and under Wine of a game
\* that never started.
NoResult(g) == file[g] = "none"
Alive(b) == b \in {"waits", "plays", "writes"}
NoStart(g) == wine /\ ~started[g] /\ NoResult(g)
Reason(g) ==
    CASE file[g] = "torn" -> None
      [] NoStart(g) -> "no_start"
      [] Alive(brain[g]) -> "timeout"
      [] OTHER -> IF NoResult(g) THEN "crash" ELSE "judged"

\* finally: the lock if it is held, the brain, and by pid or by prefix the StarCrafts.
Killed(g) == IF wine THEN {p \in Procs : Running(p) /\ slot[p[1]] = slot[g]} ELSE pids[g]
HoldsOn(g) == lock                                                     \* mutant
Released(g) == IF lock = g THEN None ELSE lock
Stops(g, how, to) ==
    /\ Goes(g, how, to)
    /\ lock' = Released(g)
    /\ sc' = [p \in Procs |-> IF p \in Killed(g) THEN "dead" ELSE sc[p]]
    /\ brain' = [brain EXCEPT ![g] = IF Alive(@) THEN "dead" ELSE @]
    /\ row' = [row EXCEPT ![g] = IF to = "giveBack" THEN None ELSE Reason(g)]
    /\ UNCHANGED <<slots, files, conf, before, pids, missed, file, began, started, faults>>

\* one's finally; then the row of a game that has one goes into results.jsonl.
GivesBack(g) ==
    /\ pc[g] \in {"row", "giveBack"}
    /\ pc' = [pc EXCEPT ![g] = IF pc[g] = "row" /\ file[g] # "torn" THEN "done" ELSE "failed"]
    /\ free' = free \cup {slot[g]}
    /\ UNCHANGED <<wine, slot, lock, files, procs, brains, row, main, faults>>

-----------------------------------------------------------------------------
(* The main thread                                                         *)

\* The results are collected in order: at one that failed the queued games are cancelled.
Cancels(g) ==
    /\ main = "collecting" /\ pc[g] = "failed" /\ \A h \in Games : h < g => pc[h] = "done"
    /\ main' = "cancelled" /\ pc' = [h \in Games |-> IF pc[h] = "queued" THEN "cancelled" ELSE pc[h]]
    /\ UNCHANGED <<wine, slots, lock, files, procs, brains, row, faults>>
Restores ==
    /\ main # "over" /\ \A g \in Games : Ended(g) /\ (pc[g] = "failed" => main = "cancelled")
    /\ main' = "over" /\ SetInstall(None)
    /\ UNCHANGED <<wine, slots, pc, lock, ini, procs, brains, row, faults>>

-----------------------------------------------------------------------------
(* StarCraft, BWAPI and the brain                                          *)

Elsewhere == UNCHANGED <<wine, slots, pc, lock, files, before, pids, missed, row, main>>
Appears(p) == sc[p] = "starting" /\ sc' = [sc EXCEPT ![p] = "up"] /\ Elsewhere /\ UNCHANGED <<conf, brains, faults>>
Reads(p) ==
    /\ sc[p] = "up" /\ conf[p] = None
    /\ LET f == IF wine THEN Folder(p[1], p[2]) ELSE install
       IN  conf' = [conf EXCEPT ![p] = IF f = None THEN <<>> ELSE <<ini[f], f[2]>>]
    /\ Elsewhere /\ UNCHANGED <<sc, brains, faults>>
Crashes(p) == Running(p) /\ sc' = [sc EXCEPT ![p] = "dead"] /\ Fault /\ Elsewhere /\ UNCHANGED <<conf, brains>>

\* The brain is on the port of its slot, and a joiner finds the host by its slot's name.
There(g, s) == \E p \in Shown : \E h \in Games : conf[p] = <<h, s>> /\ slot[h] = slot[g]
Begins(g) ==
    /\ brain[g] = "waits" /\ There(g, "a") /\ There(g, "b")
    /\ brain' = [brain EXCEPT ![g] = "plays"] /\ began' = [began EXCEPT ![g] = TRUE]
    /\ Elsewhere /\ UNCHANGED <<sc, conf, file, started, faults>>
Finishes(g) ==
    /\ \/ brain[g] = "plays"  /\ brain' = [brain EXCEPT ![g] = "writes"] /\ file' = [file EXCEPT ![g] = "torn"]
       \/ brain[g] = "writes" /\ brain' = [brain EXCEPT ![g] = "exited"] /\ file' = [file EXCEPT ![g] = "whole"]
    /\ Elsewhere /\ UNCHANGED <<sc, conf, began, started, faults>>
BrainDies(g) ==
    /\ brain[g] \in {"waits", "plays"} /\ brain' = [brain EXCEPT ![g] = "exited"]
    /\ Fault /\ Elsewhere /\ UNCHANGED <<sc, conf, file, began, started>>

Next ==
    \/ \E g \in Games : \E s \in Slots : Take(g, s)
    \/ \E g \in Games :
         \/ TakeFails(g) \/ Locks(g) \/ Brain(g) \/ Unlocks(g) \/ Looks(g) \/ Waited(g)
         \/ Stops(g, "stop", "row") \/ Stops(g, "stopFailed", "giveBack") \/ GivesBack(g)
         \/ Cancels(g) \/ Begins(g) \/ Finishes(g) \/ BrainDies(g)
         \/ \E s \in Sides : Launch(g, s) \/ Spawn(g, s) \/ Sees(g, s) \/ GivesUp(g, s)
    \/ \E p \in Procs : Appears(p) \/ Reads(p) \/ Crashes(p)
    \/ Restores

\* Every wait has a time limit, and nothing is done twice: what can happen happens.
Fairness == WF_vars(Next)
Spec == Init /\ [][Next]_vars /\ Fairness

-----------------------------------------------------------------------------
(* Properties                                                              *)

\* A game takes no StarCraft for its own that another one waits for or has taken
\* (launch: "returns the new StarCraft pid(s)"), so that none is killed under another
\* game: only one that its own launch ended without may be taken by a later launch.
OwnProcesses == \A g \in Games : \A p \in pids[g] : p[1] = g \/ p \in missed

\* Every StarCraft that launch saw reads the bwapi.ini that was written for it, though
\* they all find theirs through one registry value ("launches must not overlap").
OwnConfig == \A p \in Procs : conf[p] \in {None, p} \/ p \in missed

\* Nothing that launch saw runs any more in the folders, the prefixes and on the port of
\* a free slot, which the next game of the slot deletes, rewrites and joins by name.
FreeIsIdle == \A p \in Procs : Running(p) /\ p \notin missed => slot[p[1]] \notin free

\* However games fail, the run ends with the user's InstallPath restored, the lock and
\* all slots free, and every StarCraft gone that any launch ever saw.  One that none saw
\* is left running: its launch gave up before it was there, and nobody knows its pid.
Forgotten(p) == p \in missed /\ \A g \in Games : p \notin pids[g]
AllBack ==
    /\ main = "over" /\ install = None /\ lock = None /\ free = Slots
    /\ \A p \in Procs : Running(p) => Forgotten(p)
RunEnds == <>AllBack

\* "A game that has not started after `--lobby-timeout` seconds (a crashed client) is
\* recorded as `no_start`" (docs/harness.md:57-58), and only such a game.
NoStartTrue == \A g \in Games : row[g] = "no_start" => ~began[g]
=============================================================================
