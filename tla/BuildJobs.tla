----------------------------- MODULE BuildJobs -----------------------------
(***************************************************************************)
(* The building jobs of the macro executor: dispatch, the builder's walk,  *)
(* the Build order, the structure until it is finished, and every way a    *)
(* job ends (adjutant/macro/jobs.py, the job half of executor.py, Placer). *)
(*                                                                         *)
(* Macro.tick is one run of the stages "step" (the jobs in order), "plan"  *)
(* (cancels, then the plan's building items) and back to "idle" (leases    *)
(* and worker pool); nothing else happens meanwhile.  Between two ticks    *)
(* the game and the other components move.  The commands of a tick take    *)
(* effect, or are lost to the APM trim or a refusal, before the next tick, *)
(* and the game may move on before they do.                                *)
(*                                                                         *)
(* A site is a place for one structure; a worker is at a site (within      *)
(* ARRIVE_PX) or away.  Times are counted in decisions.  The walk's        *)
(* timeout, which depends on distances, may strike whenever the builder    *)
(* has not arrived.                                                        *)
(***************************************************************************)
EXTENDS Naturals, Sequences, FiniteSets, Lists

CONSTANTS
    Workers,       \* ids of our workers
    Types,         \* structures built by workers
    SitesOf,       \* the sites where a type may go
    Exact,         \* the types whose site is given (a hall, a geyser)
    Races,         \* the races to play
    None,          \* no worker, no command, nowhere
    Shim,          \* may the shim's getBuildLocation name a site?
    MaxJobs,       \* Macro.max_jobs: jobs walking at once
    SiteTimeout,   \* JobRunner.site_timeout
    Reissue,       \* REISSUE_FRAMES
    ExactRetries, TravelRetries, BuilderDeaths,
    MaxMoney,      \* money is counted no further (a bound)
    MaxFaults      \* deaths, pulls, losses and blockings of a game (a bound)

Sites == UNION {SitesOf[t] : t \in Types}

ASSUME ConstantsAssumption ==
    /\ SitesOf \in [Types -> SUBSET Sites] /\ Exact \subseteq Types
    /\ Races \subseteq {"terran", "protoss", "zerg"}
    /\ None \notin Workers \cup Sites /\ Shim \in BOOLEAN
    /\ MaxJobs \in Nat /\ SiteTimeout \in Nat /\ Reissue \in Nat /\ MaxMoney \in Nat
    /\ ExactRetries \in Nat /\ TravelRetries \in Nat /\ BuilderDeaths \in Nat \ {0}
    /\ MaxFaults \in Nat

\* A given site is the hall's tile of a base or a geyser, for one type of
\* structure, and the Placer keeps off both (executor.py's keep_free, RESOURCE_PAD).
ASSUME ExactAssumption ==
    \A t \in Exact, u \in Types : t # u => SitesOf[t] \cap SitesOf[u] = {}

VARIABLES
    race,       \* the race we play
    \* the game
    order,      \* what a worker does
    at,         \* where it is
    ground,     \* what stands on a site
    money,      \* enough for how many structures
    faults,     \* how much has gone wrong
    \* the executor
    stage, pos, \* where the tick is
    jobs,       \* Macro.jobs
    reserved,   \* Placer.reserved
    failed,     \* Placer.failed
    cancelled,  \* Macro.cancelled
    owner,      \* UnitLeases.owner of a worker
    cmds        \* the command a worker was given and has not received

game  == <<order, at, ground, money, faults>>
macro == <<stage, pos, jobs, reserved, failed, cancelled>>
vars  == <<race, game, macro, owner, cmds>>

Mine == <<"mine">>
Dead == <<"dead">>
Orders ==
    {Mine, Dead} \cup ({"move", "construct", "resume"} \X Sites)
                 \cup ({"build"} \X Sites \X Types)
Alive(w) == w # None /\ order[w] # Dead
Constructing(w) == order[w][1] = "construct"

Unfinished(t) == <<"unfinished", t>>
Ground == {<<"free">>, <<"blocked">>} \cup ({"unfinished", "done"} \X Types)
FreeGround(s) == ground[s] = <<"free">>

NotYet == SiteTimeout + 2                     \* BuildJob.arrived = 0
Older(n, bound) == IF n < bound THEN n + 1 ELSE bound

\* BuildJob.  arrived and issued are the decisions since; tried says whether a
\* Build order was given since the job began or began again.
Job == [type : Types, site : Sites, worker : Workers \cup {None},
        status : {"walking", "placed", "over"}, arrived : 0..NotYet, issued : 0..Reissue,
        retries : 0..ExactRetries, deaths : 0..BuilderDeaths, tried : BOOLEAN]
NewJob(t, s, w) ==
    [type |-> t, site |-> s, worker |-> w, status |-> "walking", arrived |-> NotYet,
     issued |-> Reissue, retries |-> 0, deaths |-> 0, tried |-> FALSE]

Live    == {i \in DOMAIN jobs : jobs[i].status # "over"}
Walking == {i \in DOMAIN jobs : jobs[i].status = "walking"}
Busy    == {jobs[i].worker : i \in DOMAIN jobs} \ {None}

Init ==
    /\ race \in Races
    /\ order = [w \in Workers |-> Mine] /\ at = [w \in Workers |-> None]
    /\ ground = [s \in Sites |-> <<"free">>] /\ money = 0 /\ faults = 0
    /\ stage = "idle" /\ pos = 0 /\ jobs = <<>>
    /\ reserved = {} /\ failed = {} /\ cancelled = {}
    /\ owner = [w \in Workers |-> "none"] /\ cmds = [w \in Workers |-> None]

-----------------------------------------------------------------------------
(* The game and the other components, between ticks                        *)

Walks(w, s) ==
    /\ at' = [at EXCEPT ![w] = s] /\ at[w] # s
    /\ \/ order[w] = Mine /\ s = None
       \/ order[w][1] \in {"move", "build"} /\ s = order[w][2]
    /\ UNCHANGED <<order, ground, money, faults, owner, cmds>>

Receives(w) ==
    /\ cmds[w] # None /\ cmds' = [cmds EXCEPT ![w] = None]
    /\ order' = [order EXCEPT ![w] = cmds[w]]
    /\ at' = IF cmds[w] = Mine THEN [at EXCEPT ![w] = None] ELSE at
    /\ UNCHANGED <<ground, money, faults, owner>>

Fault == faults < MaxFaults /\ faults' = faults + 1

CommandLost(w) ==
    /\ Fault
    /\ cmds[w] # None /\ cmds' = [cmds EXCEPT ![w] = None]
    /\ UNCHANGED <<order, at, ground, money, owner>>

\* An SCV stays, a probe goes, a drone becomes the structure.
AfterPlacing(s) ==
    CASE race = "terran" -> <<"construct", s>>
      [] race = "protoss" -> Mine
      [] race = "zerg" -> Dead

\* The builder puts the structure down, or the game refuses the order.
Builds(w) ==
    /\ order[w][1] = "build"
    /\ LET s == order[w][2]
           t == order[w][3]
       IN  /\ at[w] = s
           /\ IF FreeGround(s) /\ money > 0
              THEN /\ ground' = [ground EXCEPT ![s] = Unfinished(t)]
                   /\ money' = money - 1
                   /\ order' = [order EXCEPT ![w] = AfterPlacing(s)]
                   /\ at' = [at EXCEPT ![w] = IF race = "terran" THEN s ELSE None]
                   /\ cmds' = [cmds EXCEPT ![w] = IF race = "zerg" THEN None ELSE @]
              ELSE order' = [order EXCEPT ![w] = Mine] /\ UNCHANGED <<at, ground, money, cmds>>
    /\ UNCHANGED <<faults, owner>>

Resumes(w) ==
    /\ order[w][1] = "resume"
    /\ LET s == order[w][2]
       IN  order' = [order EXCEPT ![w] =
               IF ground[s][1] = "unfinished" THEN <<"construct", s>> ELSE Mine]
    /\ UNCHANGED <<at, ground, money, faults, owner, cmds>>

\* Its constructor goes back to the minerals.
Leaves(s) ==
    LET team == {w \in Workers : order[w] = <<"construct", s>>}
    IN  /\ order' = [w \in Workers |-> IF w \in team THEN Mine ELSE order[w]]
        /\ at' = [w \in Workers |-> IF w \in team THEN None ELSE at[w]]

Completes(s) ==
    /\ ground[s][1] = "unfinished"
    /\ race = "terran" => \E w \in Workers : order[w] = <<"construct", s>>
    /\ ground' = [ground EXCEPT ![s] = <<"done", ground[s][2]>>]
    /\ Leaves(s)
    /\ UNCHANGED <<money, faults, owner, cmds>>

\* A structure is destroyed, or something else takes or leaves the site.
Changes(s) ==
    /\ Fault
    /\ \/ ground[s][1] # "free" /\ ground' = [ground EXCEPT ![s] = <<"free">>] /\ Leaves(s)
       \/ FreeGround(s) /\ ground' = [ground EXCEPT ![s] = <<"blocked">>] /\ UNCHANGED <<order, at>>
    /\ UNCHANGED <<money, owner, cmds>>

Dies(w) ==
    /\ Fault
    /\ Alive(w) /\ order' = [order EXCEPT ![w] = Dead]
    /\ at' = [at EXCEPT ![w] = None] /\ cmds' = [cmds EXCEPT ![w] = None]
    /\ UNCHANGED <<ground, money, owner>>

\* Workers earn, and the rest of the plan spends.
MoneyMoves ==
    /\ money' \in {money - 1, money + 1} \cap (0..MaxMoney)
    /\ UNCHANGED <<order, at, ground, faults, owner, cmds>>

\* Another component leases a worker, a builder too at a higher priority, as
\* _step_jobs reckons and test_macro.py does (WorkerDefense spares builders),
\* or lets go of one.
Pulled(w) ==
    /\ Fault
    /\ Alive(w) /\ owner[w] # "other"
    /\ owner' = [owner EXCEPT ![w] = "other"]
    /\ UNCHANGED <<order, at, ground, money, cmds>>

LetGo(w) ==
    /\ owner[w] = "other" /\ owner' = [owner EXCEPT ![w] = "none"]
    /\ UNCHANGED <<order, at, ground, money, faults, cmds>>

Between ==
    /\ stage = "idle"
    /\ \/ \E w \in Workers :
            \/ \E s \in Sites \cup {None} : Walks(w, s)
            \/ Receives(w) \/ CommandLost(w) \/ Builds(w) \/ Resumes(w) \/ Dies(w)
            \/ Pulled(w) \/ LetGo(w)
       \/ \E s \in Sites : Completes(s) \/ Changes(s)
       \/ MoneyMoves
    /\ UNCHANGED <<race, macro>>

-----------------------------------------------------------------------------
(* Macro.tick: the jobs                                                    *)

\* The observation, after perception's sync of the leases.
Begin ==
    /\ stage = "idle" /\ \A w \in Workers : cmds[w] = None
    /\ stage' = "step" /\ pos' = 1
    /\ jobs' = [i \in DOMAIN jobs |-> [jobs[i] EXCEPT
            !.arrived = IF @ = NotYet THEN @ ELSE Older(@, SiteTimeout + 1),
            !.issued  = Older(@, Reissue)]]
    /\ owner' = [w \in Workers |-> IF Alive(w) THEN owner[w] ELSE "none"]
    /\ UNCHANGED <<race, game, reserved, failed, cancelled, cmds>>

\* The job whose turn it is; a builder with another owner is the job's no more.
J == [jobs[pos] EXCEPT !.worker =
        IF @ # None /\ owner[@] = "other" THEN None ELSE @]

\* _pick: a worker nobody else owns, no job has and no site needs.
PickableBusy ==                                                       \* mutant
    {w \in Workers : Alive(w) /\ owner[w] # "other" /\ ~Constructing(w)}
Pickable == {w \in Workers \ Busy :
                Alive(w) /\ owner[w] # "other" /\ ~Constructing(w)}

\* _placed: our unfinished structure at the job's site, no other job's.
Placed(j) ==
    /\ ground[j.site] = Unfinished(j.type)
    /\ \A i \in Live : jobs[i].status = "placed" => jobs[i].site # j.site

\* _retry, for an exact site: again from the start, or the job is over.
Again(j) == [j EXCEPT !.arrived = NotYet, !.issued = Reissue, !.tried = FALSE]
Over(j)  == [j EXCEPT !.status = "over"]
Retried(j, why) ==
    LET n == j.retries + 1
    IN  IF \/ j.type \notin Exact
           \/ why = "travel" /\ n >= TravelRetries
           \/ n >= ExactRetries
        THEN Over(j) ELSE [Again(j) EXCEPT !.retries = n]

\* Placer.release and Placer.fail, when a job is over; exact sites are not the Placer's.
Released(r, j) == IF j.type \in Exact THEN r ELSE r \ {j.site}
Failed(f, j)   == IF j.type \in Exact THEN f ELSE f \cup {j.site}

\* The turn of the job ends with j in its place.
Turn(j) ==
    /\ jobs' = [jobs EXCEPT ![pos] = j]
    /\ reserved' = IF j.status = "over" THEN Released(reserved, j) ELSE reserved
    /\ pos' = pos + 1
    /\ UNCHANGED <<race, game, stage, cancelled>>

\* The structure is gone or finished.
StructureOver ==
    /\ J.status = "placed" /\ ground[J.site] # Unfinished(J.type)
    /\ Turn(Over(J))
    /\ UNCHANGED <<failed, owner, cmds>>

Claim(w) == owner' = [owner EXCEPT ![w] = "macro"]

\* _keep_builder: a Terran structure without an SCV at work is sent its own,
\* or another one, no more often than every Reissue.
KeepBuilder ==
    /\ J.status = "placed" /\ ground[J.site] = Unfinished(J.type)
    /\ UNCHANGED failed
    /\ IF \/ race # "terran"
          \/ Alive(J.worker) /\ Constructing(J.worker)
          \/ J.issued < Reissue
       THEN Turn(J) /\ UNCHANGED <<owner, cmds>>
       ELSE \/ /\ Alive(J.worker)
               /\ Turn([J EXCEPT !.issued = 0])
               /\ cmds' = [cmds EXCEPT ![J.worker] = <<"resume", J.site>>]
               /\ UNCHANGED owner
            \/ \E w \in Pickable :
               /\ ~Alive(J.worker)
               /\ Turn([J EXCEPT !.issued = 0, !.worker = w])
               /\ Claim(w) /\ cmds' = [cmds EXCEPT ![w] = <<"resume", J.site>>]
            \/ /\ ~Alive(J.worker) /\ Pickable = {}
               /\ Turn([J EXCEPT !.issued = 0, !.worker = None])
               /\ UNCHANGED <<owner, cmds>>

SeesPlaced ==
    /\ J.status = "walking" /\ Placed(J)
    /\ Turn([J EXCEPT !.status = "placed",
                      !.worker = IF race = "terran" THEN @ ELSE None])
    /\ UNCHANGED <<failed, owner, cmds>>

\* Is a builder in place of a dead one, or of none, wanted?
BereftFirst == J.status = "walking" /\ ~Alive(J.worker)               \* mutant
Bereft == J.status = "walking" /\ ~Placed(J) /\ ~Alive(J.worker)
Deaths == J.deaths + (IF J.worker = None THEN 0 ELSE 1)

Dangerous ==
    /\ Bereft /\ J.worker # None /\ Deaths >= BuilderDeaths
    /\ Turn(Over([J EXCEPT !.deaths = Deaths])) /\ failed' = Failed(failed, J)
    /\ UNCHANGED <<owner, cmds>>

Waits ==
    /\ Bereft /\ (J.worker # None => Deaths < BuilderDeaths) /\ Pickable = {}
    /\ Turn([J EXCEPT !.deaths = Deaths, !.worker = None])
    /\ UNCHANGED <<failed, owner, cmds>>

\* The rest of JobRunner.step for job j with the builder w.
Advance(j, w) ==
    LET near     == at[w] = j.site
        building == Constructing(w) \/ order[w][1] = "build"
        mayIssue == ~building /\ j.issued >= Reissue
        ready    == near /\ money > 0
        arrived  == IF j.arrived = NotYet /\ near THEN 0 ELSE j.arrived
        stuck    == arrived # NotYet /\ money > 0 /\ arrived > SiteTimeout
        after    == [j EXCEPT !.arrived = arrived, !.worker = w,
                        !.issued = IF mayIssue THEN 0 ELSE @,
                        !.tried = @ \/ (mayIssue /\ ready)]
    IN  /\ cmds' \in
             CASE mayIssue /\ ready  -> {[cmds EXCEPT ![w] = <<"build", j.site, j.type>>]}
               [] mayIssue /\ ~ready /\ order[w] # <<"move", j.site>>
                    -> {[cmds EXCEPT ![w] = <<"move", j.site>>]}
                       \cup (IF near THEN {cmds} ELSE {})      \* within two tiles
               [] OTHER -> {cmds}
        /\ \/ /\ stuck
              /\ Turn(Retried(after, "site"))
              /\ failed' = Failed(failed, j)
           \/ /\ ~stuck /\ arrived = NotYet                    \* the walk times out
              /\ Turn(Retried(after, "travel"))
              /\ failed' = Failed(failed, j)
           \/ ~stuck /\ Turn(after) /\ UNCHANGED failed

WalksOn ==
    /\ J.status = "walking" /\ ~Placed(J) /\ Alive(J.worker)
    /\ Advance(J, J.worker)
    /\ UNCHANGED owner

NewBuilder(w) ==
    /\ Bereft /\ (J.worker # None => Deaths < BuilderDeaths) /\ w \in Pickable
    /\ Advance([J EXCEPT !.deaths = Deaths, !.issued = Reissue], w)
    /\ Claim(w)

StepJob ==
    /\ stage = "step" /\ pos \in DOMAIN jobs
    /\ \/ StructureOver \/ KeepBuilder \/ SeesPlaced \/ Dangerous \/ Waits \/ WalksOn
       \/ \E w \in Workers : NewBuilder(w)

-----------------------------------------------------------------------------
(* Macro.tick: the plan, the leases and the pool                           *)

IsCancelled(j, cancel) == j.status = "walking" /\ j.type \in cancel

\* cancel, for each type in plan.cancel; the jobs that are over are gone by now.
Cancel(cancel) ==
    /\ stage = "step" /\ pos \notin DOMAIN jobs
    /\ stage' = "plan" /\ pos' = 0 /\ cancelled' = cancel
    /\ LET dropped == {jobs[i] : i \in {k \in Live : IsCancelled(jobs[k], cancel)}}
       IN  /\ jobs' = Picked(jobs, {i \in Live : ~IsCancelled(jobs[i], cancel)})
           /\ reserved' = reserved \ {j.site : j \in {k \in dropped : k.type \notin Exact}}
           /\ owner' = [w \in Workers |->
                 IF \E j \in dropped : j.worker = w /\ owner[w] = "macro"
                 THEN "none" ELSE owner[w]]
    /\ UNCHANGED <<race, game, failed, cmds>>

\* Where a structure of type t may go: a given site, one the Placer finds, or
\* one the shim named, which knows nothing of reservations.
FoundUnreserved(t) ==                                                 \* mutant
    IF t \in Exact THEN {s \in SitesOf[t] : ground[s][1] \notin {"unfinished", "done"}}
    ELSE {s \in SitesOf[t] \ failed : FreeGround(s)}
FoundSites(t) ==
    IF t \in Exact THEN {s \in SitesOf[t] : ground[s][1] \notin {"unfinished", "done"}}
    ELSE {s \in SitesOf[t] \ failed : Shim \/ (s \notin reserved /\ FreeGround(s))}

\* _build for an item of the plan, when it dispatches a builder.
Dispatch(t, s, w) ==
    /\ stage = "plan" /\ t \notin cancelled
    /\ \A i \in Walking : jobs[i].type # t
    /\ Cardinality(Walking) < MaxJobs
    /\ s \in FoundSites(t) /\ w \in Pickable
    /\ jobs' = Append(jobs, NewJob(t, s, w))
    /\ reserved' = IF t \in Exact THEN reserved ELSE reserved \cup {s}
    /\ Claim(w)
    /\ UNCHANGED <<race, game, stage, pos, failed, cancelled, cmds>>

LeasedOnly == [w \in Workers |->                                       \* mutant
    IF w \in Busy /\ owner[w] = "none" THEN "macro" ELSE owner[w]]
Held == [w \in Workers |->
    CASE w \in Busy /\ owner[w] = "none" -> "macro"
      [] w \notin Busy /\ owner[w] = "macro" -> "none"
      [] OTHER -> owner[w]]

\* leases.hold for the builders, and WorkerPool.update for who is left.
CloseTick ==
    /\ stage = "plan" /\ stage' = "idle" /\ cancelled' = {}
    /\ owner' = Held
    /\ cmds' = [w \in Workers |->
            IF /\ Alive(w) /\ w \notin Busy /\ owner[w] # "other"
               /\ order[w] # Mine \/ cmds[w] # None
            THEN Mine ELSE cmds[w]]
    /\ UNCHANGED <<race, game, pos, jobs, reserved, failed>>

Tick ==
    \/ Begin
    \/ StepJob
    \/ \E cancel \in SUBSET Types : Cancel(cancel)
    \/ \E t \in Types, s \in Sites, w \in Workers : Dispatch(t, s, w)
    \/ CloseTick

Next == Between \/ Tick

Spec == Init /\ [][Next]_vars

-----------------------------------------------------------------------------
(* Properties                                                              *)

\* Every variable has its type; a tick that is not running has no turn.
TypeOK ==
    /\ race \in Races
    /\ order \in [Workers -> Orders] /\ at \in [Workers -> Sites \cup {None}]
    /\ ground \in [Sites -> Ground] /\ money \in 0..MaxMoney
    /\ faults \in 0..MaxFaults
    /\ stage \in {"idle", "step", "plan"} /\ pos \in Nat /\ (stage # "step" => pos = 0)
    /\ jobs \in Seq(Job) /\ reserved \subseteq Sites /\ failed \subseteq Sites
    /\ cancelled \subseteq Types
    /\ owner \in [Workers -> {"none", "macro", "other"}]
    /\ cmds \in [Workers -> Orders \cup {None}]

\* No worker builds for two jobs, however builders were lost, pulled, replaced
\* and claimed (Macro._pick against JobRunner.step).
BuilderExclusive ==
    \A i, k \in Live : jobs[i].worker = jobs[k].worker /\ i # k => jobs[i].worker = None

\* When a tick is over, macro leases the builders of its jobs and no other
\* worker: a job's end, a cancel and a replacement all give their lease back,
\* and no builder is left for another component to take as free (Macro.tick's
\* hold against cancel, _claim and _build).
BuildersLeased ==
    [][stage = "plan" /\ stage' = "idle" =>
        {w \in Workers : owner'[w] = "macro"} = Busy]_vars

\* Every job that has not ended holds its own site, so no two structures are
\* sent to one place (Placer.reserve, release and find over a job's life).
SitesHeld ==
    \A i \in Live : jobs[i].type \notin Exact =>
        /\ jobs[i].site \in reserved
        /\ \A k \in Live : jobs[k].site = jobs[i].site => k = i

\* And no site stays held when its job is over.
NothingElseHeld == reserved \subseteq {jobs[i].site : i \in Live}

\* A structure of a job that stands unfinished when the tick looks keeps its
\* job: neither a dead builder, nor a timeout, nor a cancel that comes in the
\* same tick ends it (the order of _placed, the builder check and cancel).
InHand(j, js) == \E i \in DOMAIN js : js[i].site = j.site /\ js[i].status # "over"
StructuresKeepTheirJob ==
    [][stage # "idle" => \A i \in Live :
        ground[jobs[i].site] = Unfinished(jobs[i].type) => InHand(jobs[i], jobs')]_vars

\* "A site that does not take the structure within site_timeout fails the
\* tile" (jobs.py): a site fails only after a builder that stood there was given
\* the Build order, since the job began or began again (JobRunner.step).
FailedWithoutTrying ==
    /\ failed' # failed /\ Alive(J.worker) /\ J.arrived # NotYet /\ ~J.tried
TriedBeforeFailed == [][stage = "step" => ~FailedWithoutTrying]_vars

\* "Tiles held for building jobs that have not placed yet" (Placer): while a
\* builder is on its way, nothing else takes its site from the reserved tiles,
\* also when the shim's getBuildLocation named it (Macro._site and _build).
HeldWhileWalking ==
    \A i \in Walking : jobs[i].type \notin Exact => jobs[i].site \in reserved
=============================================================================
