------------------------------ MODULE SelfPlay ------------------------------
(***************************************************************************)
(* Self-play matches (harness/selfplay.py with harness/brain.py and the    *)
(* reconnecting loop of bwbot/runner.py): a pool of worker threads plays   *)
(* matches, each with two game launchers and two brains, on the ports of   *)
(* the slot it was given, stops them, judges the game from the files the   *)
(* brains wrote, and hands a row to the collecting main thread.            *)
(*                                                                         *)
(* A launcher is "lobby" (meeting the other one), "playing" (the shim      *)
(* listens, or serves its brain), "over", "dying" (killed, not gone yet),  *)
(* "gone" or "none".  A brain is "connecting", "game", "ended" (it has the *)
(* GameEnd), "writing" its result, "exited", "dead" or "none".             *)
(***************************************************************************)
EXTENDS Naturals, Sequences, FiniteSets, SequencesExt

CONSTANTS
    NMatches,    \* the matches of a run, numbered in the order they are submitted
    NSlots,      \* --parallel: the slots, and the executor's threads
    None,        \* no slot, no match, no winner
    MaxFrames,   \* --max-frames
    Margin,      \* judge's 48 frames before the limit
    Totals,      \* scores
    MaxFaults    \* crashes and lost connections per behaviour (a bound)

Matches == 1..NMatches
Slots == 1..NSlots
Sides == {"a", "b"}
Other(s) == CHOOSE o \in Sides : o # s

ASSUME CountsAssumption ==
    /\ NMatches \in Nat /\ MaxFrames \in Nat \ {0} /\ Margin \in 0..MaxFrames /\ MaxFaults \in Nat
    /\ NSlots \in Nat \ {0} /\ Totals \subseteq Nat
ASSUME NoneAssumption == None \notin Matches /\ None \notin Slots /\ None \notin Sides

VARIABLES
    free,       \* main's slots
    stage,      \* a match: "queued", "watch", "stop", "wait", "judge", "done" or "lost"
    slot,       \* Match.slot
    timedOut,   \* timed_out
    launcher, brain,
    peer,       \* the match whose launcher a brain is connected to
    seen,       \* the frame of a brain's last decision (harness.brain's state)
    out,        \* the sides that are out of a game: eliminated, left or dropped
    beaten,     \* the side that lost the game: eliminated or dropped
    file,       \* result_a.json and result_b.json
    row,        \* what a match returned
    results,    \* the matches with a row in results.jsonl
    main,       \* "collect", "raised" or "reported"
    faults

game == <<launcher, brain, peer, seen, out, beaten, file>>
pool == <<free, stage, slot, timedOut, row>>
vars == <<game, pool, results, main, faults>>

NoFile == [state |-> "none"]
Torn   == [state |-> "torn"]
Result == [state : {"ok"}, won : BOOLEAN, frame : 0..MaxFrames, total : Totals]

Running == {m \in Matches : stage[m] \in {"watch", "stop", "wait", "judge"}}
Over(m) == stage[m] \in {"done", "lost"}
Live(b) == b \in {"connecting", "game", "ended", "writing"}
Up(l)   == l \in {"lobby", "playing", "over"}
Both(x) == [s \in Sides |-> x]

Init ==
    /\ free = [i \in Slots |-> i]
    /\ stage = [m \in Matches |-> "queued"]
    /\ slot = [m \in Matches |-> None] /\ timedOut = [m \in Matches |-> FALSE]
    /\ launcher = [m \in Matches |-> Both("none")] /\ brain = [m \in Matches |-> Both("none")]
    /\ peer = [m \in Matches |-> Both(None)]
    /\ seen = [m \in Matches |-> Both(0)]
    /\ out = [m \in Matches |-> {}] /\ beaten = [m \in Matches |-> None]
    /\ file = [m \in Matches |-> Both(NoFile)]
    /\ row = [m \in Matches |-> None]
    /\ results = {} /\ main = "collect" /\ faults = 0

-----------------------------------------------------------------------------
(* The game and the brains                                                 *)

\* An earlier match's launcher that is not gone yet keeps the port of its slot.
Listens(k, s) ==
    /\ launcher[k][s] = "playing"
    /\ \A j \in 1..(k - 1) : slot[j] = slot[k] => launcher[j][s] \in {"none", "gone"}

\* The two launchers meet in the lobby of their socket.
GameStarts(m) ==
    /\ launcher[m] = Both("lobby")
    /\ launcher' = [launcher EXCEPT ![m] = Both("playing")]
    /\ UNCHANGED <<brain, peer, seen, out, beaten, file>>

\* A brain reaches whoever listens on the port it was given.
Connects(m, s) ==
    /\ brain[m][s] = "connecting"
    /\ \E k \in Matches :
        /\ slot[k] = slot[m] /\ Listens(k, s)
        /\ \A j \in Matches : peer[j][s] # k
        /\ peer' = [peer EXCEPT ![m][s] = k]
    /\ brain' = [brain EXCEPT ![m][s] = "game"]
    /\ UNCHANGED <<launcher, seen, out, beaten, file>>

\* A decision, in lockstep with the other side; at the limit the brain leaves.
Decides(m, s) ==
    LET k == peer[m][s]
        f == seen[m][s] + 1
    IN  /\ brain[m][s] = "game" /\ s \notin out[k]
        /\ f <= seen[m][Other(s)] + 1 \/ out[k] # {}
        /\ seen' = [seen EXCEPT ![m][s] = f]
        /\ out' = IF f >= MaxFrames THEN [out EXCEPT ![k] = @ \cup {s}] ELSE out
        /\ UNCHANGED <<launcher, brain, peer, beaten, file>>

\* A side is eliminated.
Eliminated(k, s) ==
    /\ launcher[k] = Both("playing") /\ out[k] = {} /\ \A o \in Sides : seen[k][o] > 0
    /\ out' = [out EXCEPT ![k] = {s}] /\ beaten' = [beaten EXCEPT ![k] = s]
    /\ UNCHANGED <<launcher, brain, peer, seen, file>>

\* The other side drops one that does not answer: its launcher is gone or its
\* shim waits for a brain.
Dropped(k, s) ==
    /\ launcher[k][Other(s)] = "playing" /\ out[k] = {}
    /\ launcher[k][s] \in {"playing", "gone"} /\ \A m \in Matches : peer[m][s] # k
    /\ out' = [out EXCEPT ![k] = {s}] /\ beaten' = [beaten EXCEPT ![k] = s]
    /\ UNCHANGED <<launcher, brain, peer, seen, file>>

\* A player gets onEnd when it is out or alone.
GameEnds(k, s) ==
    /\ launcher[k][s] = "playing" /\ out[k] # {}
    /\ launcher' = [launcher EXCEPT ![k][s] = "over"]
    /\ LET of == {m \in Matches : peer[m][s] = k}
       IN  /\ brain' = [m \in Matches |-> IF m \in of THEN [brain[m] EXCEPT ![s] = "ended"] ELSE brain[m]]
           /\ peer' = [m \in Matches |-> IF m \in of THEN [peer[m] EXCEPT ![s] = None] ELSE peer[m]]
    /\ UNCHANGED <<seen, out, beaten, file>>

\* harness.brain's on_end: the result file is created, then filled; the brain's
\* one game is played and it exits.
WriteStarts(m, s) ==
    /\ brain[m][s] = "ended"
    /\ brain' = [brain EXCEPT ![m][s] = "writing"] /\ file' = [file EXCEPT ![m][s] = Torn]
    /\ UNCHANGED <<launcher, peer, seen, out, beaten>>

WriteEnds(m, s) ==
    /\ brain[m][s] = "writing"
    /\ brain' = [brain EXCEPT ![m][s] = "exited"]
    /\ \E t \in Totals : file' = [file EXCEPT ![m][s] =
          [state |-> "ok", won |-> s \notin out[m], frame |-> seen[m][s], total |-> t]]
    /\ UNCHANGED <<launcher, peer, seen, out, beaten>>

\* A killed process is gone some time after the signal.
Vanishes(m, s) ==
    /\ launcher[m][s] = "dying"
    /\ launcher' = [launcher EXCEPT ![m][s] = "gone"]
    /\ UNCHANGED <<brain, peer, seen, out, beaten, file>>

\* Faults: a brain dies, a launcher dies, a connection breaks.  run() connects
\* again for as long as its game has not been played.
BrainDies(m, s) ==
    /\ brain[m][s] \in {"connecting", "game", "ended"}
    /\ brain' = [brain EXCEPT ![m][s] = "dead"] /\ peer' = [peer EXCEPT ![m][s] = None]
    /\ UNCHANGED <<launcher, seen, out, beaten, file>>

LinkBreaks(m, s) ==
    /\ brain[m][s] = "game"
    /\ brain' = [brain EXCEPT ![m][s] = "connecting"] /\ peer' = [peer EXCEPT ![m][s] = None]
    /\ UNCHANGED <<launcher, seen, out, beaten, file>>

Unlinked(k, s) == [m \in Matches |-> IF peer[m][s] = k THEN [peer[m] EXCEPT ![s] = None] ELSE peer[m]]
Searching(k, s) == [m \in Matches |->
    IF peer[m][s] = k /\ brain[m][s] = "game" THEN [brain[m] EXCEPT ![s] = "connecting"] ELSE brain[m]]

LauncherDies(k, s) ==
    /\ Up(launcher[k][s])
    /\ launcher' = [launcher EXCEPT ![k][s] = "gone"]
    /\ peer' = Unlinked(k, s) /\ brain' = Searching(k, s)
    /\ UNCHANGED <<seen, out, beaten, file>>

-----------------------------------------------------------------------------
(* A match                                                                 *)

Taken == Front(free)

\* _spawn: the launchers meet on the socket of the match's slot, and each brain is
\* given the port of its side in that slot.
Spawned(m) ==
    /\ launcher' = [launcher EXCEPT ![m] = Both("lobby")]
    /\ brain' = [brain EXCEPT ![m] = Both("connecting")]

\* play and Match.run up to the loop, on a thread of the executor: a slot is taken, the processes started.
Start(m) ==
    /\ stage[m] = "queued" /\ \A j \in 1..(m - 1) : stage[j] # "queued"
    /\ Cardinality(Running) < NSlots
    /\ slot' = [slot EXCEPT ![m] = Last(free)] /\ free' = Taken
    /\ stage' = [stage EXCEPT ![m] = "watch"]
    /\ Spawned(m)
    /\ UNCHANGED <<timedOut, row, peer, seen, out, beaten, file>>

\* The loop ends when both brains have exited, or at the deadline.
WatchedTillExit(m) ==                                                  \* mutant
    /\ stage[m] = "watch" /\ \A s \in Sides : ~Live(brain[m][s])
    /\ stage' = [stage EXCEPT ![m] = "stop"]
    /\ UNCHANGED <<free, slot, timedOut, row, game>>
Watched(m) ==
    /\ stage[m] = "watch"
    /\ stage' = [stage EXCEPT ![m] = "stop"]
    /\ timedOut' = [timedOut EXCEPT ![m] = \E s \in Sides : Live(brain[m][s])]
    /\ UNCHANGED <<free, slot, row, game>>

\* _stop: SIGTERM ends the brains at once, and the launchers, some of them late.
Terminate(m) ==
    /\ stage[m] = "stop"
    /\ stage' = [stage EXCEPT ![m] = "wait"]
    /\ brain' = [brain EXCEPT ![m] = [s \in Sides |-> IF Live(@[s]) THEN "dead" ELSE @[s]]]
    /\ peer' = [peer EXCEPT ![m] = Both(None)]
    /\ \E late \in SUBSET {s \in Sides : Up(launcher[m][s])} :
          launcher' = [launcher EXCEPT ![m] =
             [s \in Sides |-> IF s \in late THEN @[s] ELSE "gone"]]
    /\ UNCHANGED <<free, slot, timedOut, row, seen, out, beaten, file>>

\* _stop waits for five seconds, then kills what is left and waits no more.
NotKilled(m) == launcher[m]                                            \* mutant
Killed(m) == [s \in Sides |-> IF Up(launcher[m][s]) THEN "dying" ELSE launcher[m][s]]
Kill(m) ==
    /\ stage[m] = "wait"
    /\ stage' = [stage EXCEPT ![m] = "judge"]
    /\ launcher' = [launcher EXCEPT ![m] = Killed(m)]
    /\ UNCHANGED <<free, slot, timedOut, row, brain, peer, seen, out, beaten, file>>

-----------------------------------------------------------------------------
(* The verdict                                                             *)

Higher(x, y) == IF x > y THEN x ELSE y
Verdict(winner, reason) == [winner |-> winner, reason |-> reason]

\* judge, of two results.
ToTheLimit(frame) == frame <= MaxFrames                                \* mutant
BeforeLimit(frame) == frame + Margin < MaxFrames
Judged(ra, rb) ==
    IF BeforeLimit(Higher(ra.frame, rb.frame)) /\ ra.won # rb.won
    THEN Verdict(IF ra.won THEN "a" ELSE "b", "elimination")
    ELSE IF ra.total = rb.total THEN Verdict(None, "draw")
    ELSE Verdict(IF ra.total > rb.total THEN "a" ELSE "b", "score")

\* judge, with the sides that left no result.
Judge(f) ==
    LET missing == {s \in Sides : f[s] = NoFile}
    IN  CASE missing = Sides -> Verdict(None, "crash")
          [] missing = {"a"} -> Verdict("b", "crash_a")
          [] missing = {"b"} -> Verdict("a", "crash_b")
          [] OTHER -> Judged(f["a"], f["b"])

\* Match._result: the row of a match.
RowOf(m) ==
    LET v == Judge(file[m])
    IN  IF timedOut[m] /\ v.reason # "elimination" THEN [v EXCEPT !.reason = "timeout"] ELSE v

\* The slot goes back whether or not _result raised, which it does at a file
\* that is not JSON.
Returned(m) == Append(free, slot[m])
Finish(m) ==
    /\ stage[m] = "judge"
    /\ IF \E s \in Sides : file[m][s] = Torn
       THEN stage' = [stage EXCEPT ![m] = "lost"] /\ UNCHANGED row
       ELSE stage' = [stage EXCEPT ![m] = "done"] /\ row' = [row EXCEPT ![m] = RowOf(m)]
    /\ free' = Returned(m)
    /\ brain' = [brain EXCEPT ![m] = Both("none")]       \* nobody looks at these again
    /\ seen' = [seen EXCEPT ![m] = Both(0)] /\ out' = [out EXCEPT ![m] = {}]
    /\ file' = [file EXCEPT ![m] = Both(NoFile)]
    /\ timedOut' = [timedOut EXCEPT ![m] = FALSE]
    /\ UNCHANGED <<slot, launcher, peer, beaten>>

\* The main thread takes the matches as they complete.
Collect(m) ==
    /\ main = "collect" /\ m \notin results
    /\ \/ stage[m] = "done" /\ results' = results \cup {m}
          /\ main' = IF results' = Matches THEN "reported" ELSE main
       \/ stage[m] = "lost" /\ main' = "raised" /\ UNCHANGED results

-----------------------------------------------------------------------------
Fault == \E m \in Matches, s \in Sides : BrainDies(m, s) \/ LinkBreaks(m, s) \/ LauncherDies(m, s)

Plays == \E m \in Matches :
    \/ GameStarts(m)
    \/ \E s \in Sides :
        \/ Connects(m, s) \/ Decides(m, s) \/ WriteStarts(m, s) \/ WriteEnds(m, s)
        \/ Eliminated(m, s) \/ Dropped(m, s) \/ GameEnds(m, s) \/ Vanishes(m, s)

Runs(m) == Start(m) \/ Watched(m) \/ Terminate(m) \/ Kill(m) \/ Finish(m)

Proceeds == \E m \in Matches : Runs(m) /\ UNCHANGED <<results, main, faults>>
Collects == \E m \in Matches : Collect(m) /\ UNCHANGED <<game, pool, faults>>

Next ==
    \/ Plays /\ UNCHANGED <<pool, results, main, faults>>
    \/ Fault /\ faults < MaxFaults /\ faults' = faults + 1 /\ UNCHANGED <<pool, results, main>>
    \/ Proceeds
    \/ Collects

Spec == Init /\ [][Next]_vars

\* The workers and the main thread go on, and a deadline passes.  The games and
\* the brains owe nothing.
Fairness == WF_vars(Proceeds) /\ WF_vars(Collects)
FairSpec == Spec /\ Fairness

-----------------------------------------------------------------------------
(* Properties                                                              *)

\* Every variable keeps its type; in particular play's pool never holds more
\* slots than it was made with, however the matches end.
TypeOK ==
    /\ free \in Seq(Slots) /\ Len(free) <= NSlots
    /\ stage \in [Matches -> {"queued", "watch", "stop", "wait", "judge", "done", "lost"}]
    /\ slot \in [Matches -> Slots \cup {None}] /\ timedOut \in [Matches -> BOOLEAN]
    /\ launcher \in [Matches -> [Sides -> {"none", "lobby", "playing", "over", "dying", "gone"}]]
    /\ brain \in [Matches -> [Sides ->
          {"none", "connecting", "game", "ended", "writing", "exited", "dead"}]]
    /\ peer \in [Matches -> [Sides -> Matches \cup {None}]]
    /\ seen \in [Matches -> [Sides -> 0..MaxFrames]]
    /\ out \in [Matches -> SUBSET Sides] /\ beaten \in [Matches -> Sides \cup {None}]
    /\ file \in [Matches -> [Sides -> Result \cup {NoFile, Torn}]]
    /\ results \subseteq Matches /\ main \in {"collect", "raised", "reported"}
    /\ faults \in 0..MaxFaults

\* No two matches play on the same ports and socket, and there is a slot for
\* every thread: play's pop never finds its list empty.
SlotsExclusive ==
    /\ \A m, k \in Running : slot[m] = slot[k] => m = k /\ slot[m] \notin Range(free)
    /\ Len(free) + Cardinality(Running) = NSlots

\* A brain plays its own match, whatever _stop left behind of the last one on
\* its ports.
OwnGame == \A m \in Matches, s \in Sides : peer[m][s] \in {m, None}

\* judge says "elimination" only of a game in which the loser really lost, never
\* of one that ended because the brains left at the limit.
VerdictTrue ==
    \A m \in Matches : stage[m] = "done" /\ row[m].reason = "elimination" =>
        beaten[m] = Other(row[m].winner)

\* Every match comes to an end, whatever its games and brains do, and so does
\* main's loop over the results.
Ended == main # "collect" /\ \A m \in Matches : Over(m)
AllOver == <>Ended

\* selfplay's docstring: "results.jsonl (one row per game ...)", once main's
\* loop has ended.
OneRowPerGame ==
    (\A m \in Matches : Over(m)) /\ main # "collect" => results = Matches
=============================================================================
