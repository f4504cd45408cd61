----------------------------- MODULE Expansion -----------------------------
(***************************************************************************)
(* Where and when the bot expands: the planner asks for a base while it    *)
(* counts too few, the executor sends a builder to the next base that the  *)
(* base tracker names, and a base where that failed is passed over for a   *)
(* while (adjutant/macro/bases.py; executor.py: the expand items, what     *)
(* _step_jobs tells the tracker, _publish; MacroState.base_count).         *)
(*                                                                         *)
(* The count is made from the macro section of the last decision.  How a   *)
(* builder gets to its site or fails is the subject of BuildJobs; whether  *)
(* there is the money for a hall, of Ledger.  Time is counted in decisions.*)
(***************************************************************************)
EXTENDS Naturals, Sequences, FiniteSets, SequencesExt

CONSTANTS
    Sites,       \* the bases, in the order of their score
    Natural,     \* GameInfo.self_natural_id
    Islands,     \* behind water, or a choke that something blocks
    Hopeless,    \* taken by something that nobody sees
    None,
    Goal,        \* strategy.goal.bases
    Blocked, Unreachable, Danger,    \* how long a base is passed over
    Patience,    \* how often a base that is asked for is put off for want of money or of a
                 \* builder (a bound: both are there before a mark expires)
    MaxFaults    \* what goes wrong in a game (a bound)

Bases == ToSet(Sites)
Main  == Head(Sites)

VARIABLES
    stage,
    hall,        \* what stands on a base's hall site: none, making or done
    mined,       \* the bases without minerals
    foes,        \* the bases that the belief takes for the enemy's
    jobs,        \* Macro.jobs, the expansions: base and placed
    avoid,       \* BaseTracker.avoid: the decisions left
    macro,       \* the section: halls, those with minerals left, `expanding`, `pending`
    asks,        \* is there an expand item?
    cancels,     \* does the plan cancel halls?
    waits,       \* how often a base was put off since the last builder was sent
    faults

game == <<hall, mined, foes, faults>>
vars == <<stage, game, jobs, avoid, macro, asks, cancels, waits>>

Halls     == {b \in Bases : hall[b] /= "none"}
WalkingIn(js) == {i \in DOMAIN js : ~js[i].placed}
Published(js) ==
    [halls |-> Halls, bases |-> Halls \ mined, pending |-> Cardinality(WalkingIn(js)),
     expanding |-> IF js = <<>> THEN None ELSE js[1].base]

\* MacroState.base_count, and GreedyPlanner.bases while there is none.
BaseCount == Cardinality(macro.bases) + (IF macro.expanding \in macro.halls \cup {None} THEN 0 ELSE 1)
Counted == IF macro.halls = {} THEN Cardinality(Halls) + macro.pending ELSE BaseCount

Init ==
    /\ stage = "game" /\ hall = [b \in Bases |-> IF b = Main THEN "done" ELSE "none"]
    /\ mined = {} /\ foes = {} /\ faults = 0
    /\ jobs = <<>> /\ avoid = [b \in Bases |-> 0]
    /\ macro = [halls |-> {}, bases |-> {}, pending |-> 0, expanding |-> None]
    /\ asks = FALSE /\ cancels = FALSE /\ waits = 0

-----------------------------------------------------------------------------
(* The decision                                                            *)

\* GreedyPlanner.tick: one more base while the last decision's count is below the goal,
\* and none while Crisis wants them cancelled.
Plan ==
    /\ stage = "game" /\ stage' = "step"
    /\ \/ cancels' = FALSE /\ UNCHANGED faults
       \/ cancels' = TRUE /\ faults < MaxFaults /\ faults' = faults + 1
    /\ asks' = (Counted < Goal /\ ~cancels')
    /\ UNCHANGED <<hall, mined, foes, jobs, avoid, macro, waits>>

\* BaseTracker.mark_blocked, mark_unreachable, mark_dangerous.
Longer(a, b) == IF a > b THEN a ELSE b
MarkedInVain(why, left) == left                                        \* mutant
Marked(why, left) ==
    CASE why = "blocked"     -> Blocked
      [] why = "unreachable" -> Unreachable
      [] OTHER               -> Longer(left, Danger)

\* JobRunner.step, of a job for a base: what may become of it.
Outcomes(job) ==
    IF job.placed \/ hall[job.base] = "making"
    THEN {CASE hall[job.base] = "none" -> "destroyed" [] hall[job.base] = "done" -> "finished"
            [] OTHER -> "placed"}
    ELSE IF job.base \in Hopeless THEN {"walks", "blocked", "unreachable", "dangerous"}
    ELSE {"walks", "dangerous"}
Failed == {"blocked", "unreachable", "dangerous", "destroyed"}

\* BaseTracker.update and _step_jobs, then the cancelled ones.
Steps ==
    /\ stage = "step" /\ stage' = "spend"
    /\ \E out \in [DOMAIN jobs -> Failed \cup {"finished", "placed", "walks"}] :
         LET over == {i \in DOMAIN jobs : out[i] \in Failed \cup {"finished"}}
             left == [b \in Bases |-> IF avoid[b] > 0 THEN avoid[b] - 1 ELSE 0]
             kept(i) == i \notin over /\ ~(cancels /\ out[i] = "walks")
             stay == SelectSeq([i \in DOMAIN jobs |-> i], kept)
         IN  /\ \A i \in DOMAIN jobs : out[i] \in Outcomes(jobs[i])
             /\ jobs' = [k \in DOMAIN stay |->
                           [base |-> jobs[stay[k]].base, placed |-> out[stay[k]] = "placed"]]
             /\ avoid' = [b \in Bases |->
                   LET why == {out[i] : i \in {j \in over : jobs[j].base = b}} \cap Failed
                   IN  IF why = {} THEN left[b] ELSE Marked(CHOOSE w \in why : TRUE, left[b])]
             /\ faults' = faults + Cardinality({i \in DOMAIN jobs :
                                     out[i] = "dangerous" /\ jobs[i].base \notin Hopeless})
             /\ faults' <= MaxFaults
    /\ UNCHANGED <<hall, mined, foes, macro, asks, cancels, waits>>

\* BaseTracker.next_base
Free == {b \in Bases : hall[b] = "none" /\ avoid[b] = 0 /\ b \notin foes \cup Islands}
NextBase ==
    IF Free = {} THEN None
    ELSE IF Natural \in Free THEN Natural ELSE SelectSeq(Sites, LAMBDA b : b \in Free)[1]

\* Macro._build of an expand item, and _publish.
MayGo == asks /\ WalkingIn(jobs) = {} /\ NextBase /= None
Sent(b) == Append(jobs, [base |-> b, placed |-> FALSE])
Goes(b) ==
    /\ stage = "spend" /\ stage' = "game"
    /\ MayGo /\ b = NextBase /\ jobs' = Sent(b)
    /\ macro' = Published(Sent(b)) /\ asks' = FALSE /\ cancels' = FALSE /\ waits' = 0
    /\ UNCHANGED <<game, avoid>>
Stays ==             \* not asked for, no base, or for now no money or no builder
    /\ stage = "spend" /\ stage' = "game"
    /\ \/ ~MayGo /\ UNCHANGED waits
       \/ MayGo /\ waits < Patience /\ waits' = waits + 1
    /\ macro' = Published(jobs) /\ asks' = FALSE /\ cancels' = FALSE
    /\ UNCHANGED <<game, jobs, avoid>>

-----------------------------------------------------------------------------
(* The game                                                                *)

InGame == stage = "game" /\ UNCHANGED <<stage, jobs, avoid, macro, asks, cancels, waits>>
Becomes(b, h) == hall' = [hall EXCEPT ![b] = h]
Fault == faults < MaxFaults /\ faults' = faults + 1
Lands(b) ==
    /\ InGame /\ hall[b] = "none" /\ b \notin Hopeless
    /\ \E i \in WalkingIn(jobs) : jobs[i].base = b
    /\ Becomes(b, "making") /\ UNCHANGED <<mined, foes, faults>>
Finishes(b) ==       \* not in the decision in which it was begun
    /\ InGame /\ hall[b] = "making" /\ \A i \in WalkingIn(jobs) : jobs[i].base /= b
    /\ Becomes(b, "done") /\ UNCHANGED <<mined, foes, faults>>
Razed(b)  == InGame /\ Fault /\ hall[b] /= "none" /\ Becomes(b, "none") /\ UNCHANGED <<mined, foes>>
Dries(b)  == InGame /\ Fault /\ hall[b] = "done" /\ b \notin mined /\ mined' = mined \cup {b}
             /\ UNCHANGED <<hall, foes>>
Comes(b)  == InGame /\ Fault /\ hall[b] = "none" /\ b \notin foes /\ foes' = foes \cup {b}
             /\ UNCHANGED <<hall, mined>>

Next ==
    \/ Plan \/ Steps \/ Stays
    \/ \E b \in Bases : Goes(b) \/ Lands(b) \/ Finishes(b) \/ Razed(b) \/ Dries(b) \/ Comes(b)

\* Decisions go on; a builder gets where it can get, and a job for a place where it
\* cannot fails (BuildJobs); a hall that is begun is finished.
Underway == \E i \in WalkingIn(jobs) : hall[jobs[i].base] = "none"
Making   == \E b \in Bases : hall[b] = "making"
Fairness == WF_vars(Next) /\ []<>~Underway /\ []<>~Making
Spec == Init /\ [][Next]_vars /\ Fairness

-----------------------------------------------------------------------------
(* Properties                                                              *)

TypeOK ==
    /\ stage \in {"game", "step", "spend"} /\ hall \in [Bases -> {"none", "making", "done"}]
    /\ mined \cup foes \subseteq Bases /\ faults \in 0 .. MaxFaults
    /\ jobs \in Seq([base : Bases, placed : BOOLEAN]) /\ avoid \in [Bases -> Nat]
    /\ {asks, cancels} \subseteq BOOLEAN /\ waits \in 0 .. Patience

\* No two jobs are for one base, whatever is lost, cancelled or marked in between.
JobsApart == IsInjective([i \in DOMAIN jobs |-> jobs[i].base])

\* A place where a hall cannot be built does not keep the bot from expanding: with
\* enough bases left it gets to its number of bases again and again (bases.py:6-7).
Useful == {b \in Bases \ (Islands \cup mined) : hall[b] /= "none" \/ b \notin foes \cup Hopeless}
Expanded == <>[](Cardinality(Useful) >= Goal) => []<>(Cardinality(Halls \ mined) >= Goal)

\* "Bases with minerals left, counting ones under construction and an expansion in
\* flight" (sections.py:305), so that "nothing is built twice" (src/README.md:195-196):
\* a builder is sent for a base only while there are too few, those included.
NoneTooMany ==
    [][Len(jobs') > Len(jobs) => Cardinality(Halls \ mined) + Cardinality(WalkingIn(jobs)) < Goal]_vars
=============================================================================
