---------------------------- MODULE BuildSearch ----------------------------
(* The build-order search and the planner that runs it: buildsearch.py and   *)
(* components/search_planner.py, over the simulator of EconSim.               *)
(*                                                                           *)
(* Decide is one decision: the planner searches when its last plan is too    *)
(* old, emits what others ask for, what supply needs and what that plan      *)
(* starts soon, the executor starts, holds money for or leaves out each of   *)
(* these, and the game goes on for Skip frames.  What was started takes the  *)
(* time that the simulator thinks, and every worker mines as it thinks; the  *)
(* search sees of it what from_game sees.  `live` has the money that is not  *)
(* reserved: a building is paid for when its builder is sent.                *)
EXTENDS EconSim

CONSTANTS
    Game,          \* the live game in which the opening is over
    GoalArmy, GoalBuildings, GoalTechs,    \* strategy.goal: sequences of [t, n] and of techs
    WantWorkers, BasesWanted,              \* what want_workers and want_bases say
    MinArmy, ArmyChunk, MaxArmyChunk,      \* in supply, as BWAPI counts it
    WorkerChunk, Geysers, FloatMinerals,
    SupplyType, Hall,
    MaxSteps, StartWeight, OrderSlack, Penalty,
    Every, Slack, Skip,      \* frames between searches, of the plan, of a decision
    SupplyLead,    \* GreedyPlanner.supply_lead
    MaxJobs, EarlyDispatch,  \* the executor's builders at once; may they go before the money is there?
    Cuts,          \* the steps a search may be granted before its deadline
    Others,        \* what other components may request, with its requirements standing
    MaxAsks,       \* bound on the decisions in which they do
    MaxFrame       \* bound on the time it takes

VARIABLES
    live,          \* the game, as from_game sees it
    best, last,    \* SearchPlanner.best and .last
    asked
vars == <<live, best, last, asked>>

----------------------------------------------------------------------------
(* What SearchPlanner._search makes of the game *)

\* The builders that are on their way (macro.pending).
OnTheWay(s, e) == e.kind = "unit" /\ IsPlaced(e.type) /\ e.at - Data[e.type].time > s.frame
Walking(s) == SelectSeq(s.events, LAMBDA e : OnTheWay(s, e))
Walks(s, t) == \E e \in ToSet(Walking(s)) : e.type = t

\* It does not know how far they are, takes them for miners, and does not know when
\* those that build come back.
Seen(s) ==
    LET making == SelectSeq(s.events, LAMBDA e : e.kind = "unit" /\ ~OnTheWay(s, e))
        away   == IF Race = "protoss" THEN 0 ELSE Len(Walking(s))
    IN  FoldLeft(LAMBDA a, e : Push(a, s.frame + Travel + Data[e.type].time, "unit", e.type),
                 [s EXCEPT !.events = making, !.builder = 0, !.mw = @ + away], Walking(s))

\* The game's minerals, those reserved for the builders on their way included.
Cash(s) == FoldLeft(LAMBDA n, e : n + Data[e.type].m, s.m, Walking(s))

(* SearchPlanner.target: what is to be started next of the goal. *)

ArmySupply(s) == FoldSet(LAMBDA t, n : n + s.done[t] * Data[t].need, 0, {t \in Units : Data[t].kind = "unit"})
Short(s) == ArmySupply(s) < MinArmy

\* a / b, a half to the even side.
Round(a, b) ==
    LET q == a \div b  r == 2 * (a % b)
    IN  IF r > b \/ (r = b /\ q % 2 = 1) THEN q + 1 ELSE q

\* The next chunk of the army, past the goal's numbers when it is short or
\* money piles up.
NextArmy(s) ==
    LET chunk == Least(MaxArmyChunk, Most(ArmyChunk, MinArmy - ArmySupply(s)))
        total == FoldLeft(LAMBDA n, w : n + w.n, 0, GoalArmy)
        more == Short(s) \/ Cash(s) >= FloatMinerals
        step(w) == Most(1, Round(chunk * w.n, total * Most(1, Data[w.t].need)))
        grows(w) == s.started[w.t] < w.n \/ more
    IN  LET next == SelectSeq(GoalArmy, grows)
        IN  [i \in DOMAIN next |-> [t |-> next[i].t, n |-> s.started[next[i].t] + step(next[i])]]

\* Minerals pile up: one more producer of what most of that army is.
NextProducer(s, army) ==
    LET weight(w) == w.n * Most(1, Data[w.t].need)
        heaviest == {i \in DOMAIN army : \A j \in DOMAIN army : weight(army[j]) <= weight(army[i])}
        from == Data[army[Min(heaviest)].t].from
    IN  IF Cash(s) < 2 * FloatMinerals \/ army = <<>> THEN <<>>
        ELSE IF IsBuilding(from) /\ s.started[from] = s.done[from]
        THEN <<[t |-> from, n |-> s.started[from] + 1]>>
        ELSE <<>>

\* No more refineries than the bases have geysers.
Capped(w) == IF w.t = Refinery THEN [w EXCEPT !.n = Least(@, Most(1, Geysers))] ELSE w

\* In order of preference; the army comes first when it is short, and then
\* nothing is researched.
Wishes(s) ==
    LET men == <<[t |-> Worker, n |-> Least(WantWorkers, s.started[Worker] + WorkerChunk)]>>
        hall == IF BasesWanted > s.started[Hall] THEN <<[t |-> Hall, n |-> s.started[Hall] + 1]>> ELSE <<>>
        next(t) == t \notin s.techs /\ (Data[t].after = None \/ Data[t].after \in s.techs)
        techs == IF Short(s) THEN <<>> ELSE SelectSeq(GoalTechs, next)
    IN  (IF Short(s) THEN NextArmy(s) ELSE <<>>) \o men \o hall
        \o [i \in DOMAIN GoalBuildings |-> Capped(GoalBuildings[i])]
        \o [i \in DOMAIN techs |-> [t |-> techs[i], n |-> 1]]
        \o NextArmy(s) \o NextProducer(s, NextArmy(s))

Target(wishes) ==
    LET types == [i \in DOMAIN wishes |-> wishes[i].t]
        units == {t \in ToSet(types) : ~IsTech(t)}
    IN  [counts |-> [t \in units |-> Max({w.n : w \in {v \in ToSet(wishes) : v.t = t}})],
         techs |-> ToSet(types) \ units,
         order |-> FoldLeft(LAMBDA q, t : IF t \in ToSet(q) THEN q ELSE Append(q, t), <<>>, types)]
TargetOf(s) ==
    LET open(w) == IsTech(w.t) \/ w.n > s.started[w.t]
    IN  Target(SelectSeq(Wishes(s), open))

\* Target.done
Reached(s, target) ==
    /\ \A t \in DOMAIN target.counts : s.started[t] >= target.counts[t]
    /\ target.techs \subseteq s.techs
----------------------------------------------------------------------------
(* BuildSearch.candidates *)

Met(s, target, t) == IF IsTech(t) THEN t \in s.techs ELSE s.started[t] >= target.counts[t]

\* TechTree.missing, each type after what it needs itself.
Missing(s, t) ==
    LET miss[x \in Units] ==
            IF s.started[x] > 0 \/ x = Worker THEN <<>>
            ELSE Append(FlattenSeq([i \in DOMAIN Reqs(x) |-> miss[Reqs(x)[i]]]), x)
    IN  FlattenSeq([i \in DOMAIN Reqs(t) |-> miss[Reqs(t)[i]]])

Startable(s, t) == \A r \in ToSet(Reqs(t)) : s.started[r] > 0

StepItself(s, t) == <<t>>                                              \* mutant
\* What is tried for t: t, or the first missing type that can be started.
Step(s, t) ==
    LET miss == Missing(s, t)
        open == {i \in DOMAIN miss : Startable(s, miss[i])}
    IN  CASE miss = <<>> -> <<t>>
          [] miss /= <<>> /\ open /= {} -> <<miss[Min(open)]>>
          [] OTHER -> <<>>

SupplyShort(s, cands) ==
    LET eventually == SupplyEventually(s)
        need == Max({2} \cup {Data[t].need : t \in ToSet(cands)})
        producers == FoldSet(LAMBDA t, n : n + Len(s.slots[t]), 0, {t \in Units : ~IsAddon(t)})
    IN  eventually < MaxSupply /\ eventually - s.used < need * (1 + Most(1, producers))

\* Each once, and only if the simulator allows it.
Pushed(s, list, t) == IF t \in ToSet(list) \/ ~Legal(s, t) THEN list ELSE Append(list, t)

WithStep(s, c, t, step) ==
    [list |-> IF step = <<>> THEN c.list ELSE Pushed(s, c.list, step[1]),
     gas  |-> c.gas \/ Data[t].g > 0 \/ \E x \in ToSet(step) : Data[x].g > 0]
WithGas(s, c) == IF c.gas /\ s.started[Refinery] = 0 THEN Pushed(s, c.list, Refinery) ELSE c.list
WithSupply(s, list) == IF SupplyShort(s, list) THEN Pushed(s, list, SupplyType) ELSE list

Candidates(s, target) ==
    WithSupply(s, WithGas(s,
        FoldLeft(LAMBDA c, t : IF Met(s, target, t) THEN c ELSE WithStep(s, c, t, Step(s, t)),
                 [list |-> <<>>, gas |-> FALSE], target.order)))
----------------------------------------------------------------------------
(* BuildSearch.rollout and BuildSearch.search *)

\* What a rollout does next, of the candidates c that can start at f: [f, t],
\* None when nothing can start.
Picked(policy, c, f) ==
    LET open == {i \in DOMAIN c : f[i] /= None}
        first == Min({f[i] : i \in open})
        near == {i \in open : f[i] <= first + OrderSlack}
        workers == {i \in near : c[i] = Worker}
        i == CASE workers /= {} -> Min(workers)
               [] workers = {} /\ policy = "order" -> Min(near)
               [] OTHER -> Min({j \in open : f[j] = first})
    IN  IF open = {} THEN None ELSE [f |-> f[i], t |-> c[i]]
PickAmong(s, policy, c) == Picked(policy, c, [i \in DOMAIN c |-> When(s, c[i])])
Pick(s, target, policy) == PickAmong(s, policy, Candidates(s, target))

\* One step p of a rollout r = [s, steps, going].
Rolled(r, target, p) ==
    IF Reached(r.s, target) \/ ~r.going \/ p = None THEN [r EXCEPT !.going = FALSE]
    ELSE [r EXCEPT !.s = Do(@, p.t, p.f), !.steps = Append(@, p)]

ForcedStep(r, t, f) ==
    IF ~r.going \/ f = None THEN [r EXCEPT !.going = FALSE]
    ELSE [r EXCEPT !.s = Do(@, t, f), !.steps = Append(@, [f |-> f, t |-> t])]
Forced(s, first) ==
    FoldLeft(LAMBDA r, t : ForcedStep(r, t, When(r.s, t)), [s |-> s, steps |-> <<>>, going |-> TRUE], first)

Score(from, target, r) ==
    LET late == IF Reached(r.s, target) THEN 0 ELSE Penalty
        n == Len(r.steps)
        starts == FoldLeft(LAMBDA sum, p : sum + (p.f - from), 0, r.steps)
    IN  Finish(r.s) + late + (IF n = 0 THEN 0 ELSE (StartWeight * starts) \div n)

PlanOf(from, target, r) ==
    [steps |-> r.steps, makespan |-> Finish(r.s), score |-> Score(from, target, r),
     reached |-> Reached(r.s, target)]

\* At most `granted` steps after the forced ones.
Rollout(s, target, policy, first, granted) ==
    PlanOf(s.frame, target,
           FoldLeft(LAMBDA r, i : Rolled(r, target, Pick(r.s, target, policy)),
                    Forced(s, first), [i \in 1 .. granted |-> i]))
CanForce(s, first) == Forced(s, first).going

\* The deadline: so many more steps fit in before it.  A rollout takes one.
Granted(left) == Most(1, Least(left, MaxSteps))

\* The best plan b.best, or p.
Better(b, p) ==
    [best |-> IF b.best = None \/ p.score < b.best.score THEN p ELSE b.best,
     left |-> b.left - Len(p.steps)]

Policies == <<"earliest", "order">>
TryBoth(s, target, first, b) ==
    FoldLeft(LAMBDA a, policy : Better(a, Rollout(s, target, policy, first, Granted(a.left))), b, Policies)

\* Both policies after each first action c[i] that the prefix leaves.
TryEach(s, target, prefix, c, b) ==
    FoldLeft(LAMBDA a, t : IF a.left <= 0 \/ ~CanForce(s, Append(prefix, t)) THEN a
                           ELSE TryBoth(s, target, Append(prefix, t), a),
             b, c)
Deeper(s, target, prefix, b) ==
    TryEach(s, target, prefix, Candidates(Forced(s, prefix).s, target), b)

\* The first rollout knows no deadline, the second does; then two depths.
Base(s, target, b) == Better(b, Rollout(s, target, "order", <<>>, Granted(b.left)))
Depth1(s, target, b) == IF b.left <= 0 THEN b ELSE Deeper(s, target, <<>>, b)
Depth2(s, target, b) ==
    IF b.best.steps = <<>> \/ b.left <= 0 THEN b ELSE Deeper(s, target, <<b.best.steps[1].t>>, b)
Search(s, target, granted) ==
    Depth2(s, target, Depth1(s, target, Base(s, target,
        Better([best |-> None, left |-> granted], Rollout(s, target, "earliest", <<>>, MaxSteps))))).best
----------------------------------------------------------------------------
(* SearchPlanner._emit *)

\* GreedyPlanner._need_supply, in supply as the game shows it.
NeedSupply(s) ==
    LET half(n) == n \div 2
        halls  == Len(SelectSeq(Walking(s), LAMBDA e : e.type = Hall))
        future == half(s.total - s.used)
                  + (s.started[SupplyType] - s.done[SupplyType]) * half(Data[SupplyType].gives)
                  + (s.started[Hall] - s.done[Hall] - halls) * half(Data[Hall].gives)
        makes(w) == IF IsBuilding(Data[w.t].from) THEN s.done[Data[w.t].from] ELSE 0
        producers == FoldLeft(LAMBDA n, w : n + makes(w), s.done[Hall], GoalArmy)
    IN  /\ half(s.total) < half(MaxSupply) /\ ~(half(s.total) <= 10 /\ half(s.used) < 8)
        /\ future <= 2 + 2 * SupplyLead * producers

Soon(b, now) == SelectSeq(b.steps, LAMBDA p : p.f <= now + Slack)

\* A unit as often as the steps have it, all at the place of the first; anything else once.
StepItems(b, now) ==
    LET types == [i \in DOMAIN Soon(b, now) |-> Soon(b, now)[i].t]
        first == {i \in DOMAIN types : \A j \in 1 .. i - 1 : types[j] /= types[i]}
        often(t) == IF Data[t].kind \in {"unit", "worker"} THEN Len(SelectSeq(types, LAMBDA x : x = t)) ELSE 1
        item(i) == IF i \in first THEN <<[t |-> types[i], n |-> often(types[i])]>> ELSE <<>>
    IN  FlattenSeq([i \in DOMAIN types |-> item(i)])

\* A request [t, urgent], or None, then supply, then the steps, whatever of them is not
\* there already; a request that is not urgent has the lowest priority.
Emitted(s, b, ask) ==
    LET asks   == IF ask = None THEN <<>> ELSE <<[t |-> ask.t, n |-> 1]>>
        supply == IF NeedSupply(s) /\ (ask = None \/ ask.t /= SupplyType)
                  THEN <<[t |-> SupplyType, n |-> 1]>> ELSE <<>>
        new(e) == \A x \in ToSet(asks \o supply) : x.t /= e.t
        steps  == SelectSeq(StepItems(b, s.frame), new)
    IN  IF ask = None \/ ask.urgent THEN asks \o supply \o steps ELSE supply \o steps \o asks
----------------------------------------------------------------------------
(* What the executor makes of it: Macro._item.  a = [s, held, gave]: the game, *)
(* the money held so far, and whether this item has already been held for.     *)

\* What t needs but money is there: an idle producer or a builder, and for a refinery a geyser.
Open(s, t) ==
    /\ Ready(s, t)
    /\ Pools(s, t) /= None => FreeFrom(Pools(s, t)) <= s.frame
    /\ IsTech(t) => t \notin s.techs /\ (Data[t].after = None \/ Data[t].after \in s.techs)
    /\ IsPlaced(t) => ~Walks(s, t) /\ Len(Walking(s)) < MaxJobs
    /\ t = Refinery => s.started[t] < Geysers

\* Macro._gas_blocked: more gas than there is, and nobody will mine any.
GasBlocked(a, t) ==
    ~IsAddon(t) /\ ~IsTech(t) /\ Data[t].g > Most(0, a.s.g - a.held.g) /\ a.s.started[Refinery] = 0

\* Budget.can, and early dispatch: the money comes in while the builder walks.
Affordable(a, t, wait) ==
    /\ a.s.m - a.held.m + Income(a.s).m * wait >= Data[t].m
    /\ a.s.g - a.held.g + Income(a.s).g * wait >= Data[t].g
Starts(a, t) == Affordable(a, t, 0) \/ (IsPlaced(t) /\ EarlyDispatch /\ Affordable(a, t, Travel))

\* Budget.hold: gas only, when the minerals are there.
HoldFor(a, t) ==
    [a EXCEPT !.gave = TRUE, !.held.g = @ + Data[t].g,
              !.held.m = IF a.s.m - @ >= Data[t].m THEN @ ELSE @ + Data[t].m]

One(a, t) ==
    IF a.gave \/ ~Open(a.s, t) \/ GasBlocked(a, t) THEN a
    ELSE IF Starts(a, t) THEN [a EXCEPT !.s = Do(@, t, @.frame)] ELSE HoldFor(a, t)

Executed(s, items) ==
    FoldLeft(LAMBDA a, e : FoldLeft(LAMBDA x, i : One(x, e.t), [a EXCEPT !.gave = FALSE], [i \in 1 .. e.n |-> i]),
             [s |-> s, held |-> [m |-> 0, g |-> 0], gave |-> FALSE], items).s
----------------------------------------------------------------------------
Init ==
    /\ live = FromGame(Game)
    /\ best = None /\ last = -Every
    /\ asked = 0

Due == live.frame - last >= Every \/ best = None
RequestKinds == [t : Others, urgent : BOOLEAN]

Decide ==
    \E granted \in IF Due THEN Cuts ELSE {Max(Cuts)} :
    \E plan \in {IF Due THEN Search(Seen(live), TargetOf(Seen(live)), granted) ELSE best} :
    \E ask \in {None} \cup (IF asked < MaxAsks THEN RequestKinds ELSE {}) :
        /\ best' = plan
        /\ last' = IF Due THEN live.frame ELSE last
        /\ live' = Advance(Executed(live, Emitted(live, plan, ask)), live.frame + Skip)
        /\ asked' = asked + (IF ask = None THEN 0 ELSE 1)

\* All that the goal has, as far as there are geysers, is started.
GoalMet ==
    /\ \A w \in ToSet(GoalArmy \o GoalBuildings) : live.started[w.t] >= Capped(w).n
    /\ live.started[Worker] >= WantWorkers /\ live.started[Hall] >= BasesWanted
    /\ ToSet(GoalTechs) \subseteq live.techs
Playing == live.frame < MaxFrame /\ ~(GoalMet /\ live.events = <<>>)
Next == Playing /\ Decide
Spec == Init /\ [][Next]_vars
\* The game goes on while there is something to do: Decide is always possible
\* then, and is fair (said of the frame count, which every Decide moves).
Fairness == <>[]~Playing \/ []<><<live'.frame /= live.frame>>_vars
FairSpec == Spec /\ Fairness
----------------------------------------------------------------------------

\* What an action needs is there now.
Could(s, t) ==
    /\ Ready(s, t)
    /\ s.m >= Data[t].m /\ s.g >= Data[t].g
    /\ Pools(s, t) /= None => FreeFrom(Pools(s, t)) <= s.frame
    /\ IsPlaced(t) => s.builder <= s.frame

\* `when` skips from completion to completion; a search that looks at every
\* frame finds the same one: no earlier frame would do, at that frame the
\* action really can start, and `None` means that there is none.
WhenIsEarliest ==
    LET s == Seen(live)
    IN  \A t \in ToSet(Candidates(s, TargetOf(s))) :
            LET f == When(s, t)
                tries == s.frame .. (IF f = None THEN s.frame + Limit ELSE f)
                could == {x \in tries : Could(Advance(s, x), t)}
            IN  IF f = None THEN could = {} ELSE could = {f}

\* The producers make one thing at a time.  (With two factories they do not:
\* the addon of one takes the busiest slot, whichever factory that is.)
OneThingEach ==
    \A b \in Units \ {Worker} :
        Len(SelectSeq(live.events, LAMBDA e : e.kind = "unit" /\ Data[e.type].from = b)) <= live.done[b]

\* Searching again and again with a plan that is a little old never leaves the
\* target unreached: no candidate is missing, nothing is asked for in a ring.
TargetReached == <>GoalMet
============================================================================
