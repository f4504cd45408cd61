------------------------------ MODULE Planner ------------------------------
(***************************************************************************)
(* The production planner over the ledger: what the greedy planner wants   *)
(* in a decision, in order of importance (adjutant/components/planner.py,  *)
(* techtree.missing, Opening.next_build), spent by the macro executor and  *)
(* played out by the game.  The planner counts what is made from the world *)
(* of this decision and what walks from the macro section published at the *)
(* end of the last one.                                                    *)
(***************************************************************************)
EXTENDS Ledger, SequencesExt

CONSTANTS
    SupplyT,
    Zerg,           \* do we play Zerg?
    Goal,           \* bb.strategy.goal: [units, buildings, addons, techs, workers, bases]
    Sinks,          \* GAS_SINKS for the goal's army: an upgrade has the level before it in its req
    Opening,        \* the build's opening: a sequence of [at, t]
    Armies,         \* how much army min_army may ask for
    Requests,       \* what Crisis may ask for: [item, t, count]
    MaxSupply, SupplyLead, FewSupply, FewUsed, PerBase, PerGas, MaxWorkers,
    Slack, Floating, Oversaturated, LarvaFloat, GasFloating,
    FloatShort, FloatMinerals, FloatTrain, FloatKeep, PerHall, PerLarva

\* Goals, openings and requests are of what there is, and of the right kind
\* (validate_goal, validate_template; Crisis asks for turrets, bunkers and addons).
Kinds(K) == {t \in Things : Data[t].kind \in K}
ASSUME PlannerAssumption ==
    /\ {SupplyT, Refinery} \subseteq Things /\ Hall # SupplyT /\ (Zerg => Larva \in Things)
    /\ Data[Hall].kind = "building" /\ Data[Worker].kind = "worker"
    /\ \A t \in Things : (t = Larva \/ Data[t].fights => Data[t].kind = "unit")
                       /\ (Data[t].psi => Pylon = SupplyT)
    /\ DOMAIN Goal.units \subseteq Kinds({"unit"}) /\ DOMAIN Goal.addons \subseteq Kinds({"addon"})
    /\ DOMAIN Goal.buildings \subseteq Kinds({"building", "morph"})
    /\ \A counts \in {Goal.units, Goal.buildings, Goal.addons} : \A t \in DOMAIN counts : counts[t] \in Nat
    /\ Goal.techs \cup Sinks \subseteq Kinds({"tech"}) /\ Goal.workers \in Nat /\ Goal.bases \in Nat
    /\ Opening \in Seq([at : Nat, t : Things \ Kinds({"addon"})])
    /\ IsFiniteSet(Requests)
    /\ \A r \in Requests :
           /\ r.t \in Things /\ r.count \in Nat /\ r.item \in {"build", "addon", "train", "cancel"}
           /\ r.item = "build" => Data[r.t].kind \in {"building", "morph"}
           /\ r.item = "addon" => Data[r.t].kind = "addon"
           /\ r.item = "train" => Data[r.t].kind \in {"unit", "worker"}
    /\ {PerBase, PerGas, PerHall, MaxWorkers} \subseteq Nat /\ PerLarva \in Nat \ {0}

VARIABLES
    macro,          \* bb.macro as published last: the jobs that walk, our bases, how many there are
                    \* with the one in flight, is there one, is there another, the workers wanted
    reserved,       \* bb.macro.reserved: what was set aside when that tick began
    step,           \* how much of the opening is done
    need,           \* min_army: what the clock and the enemy ask for
    asked           \* the requests that are active

plans == <<macro, reserved, step, need, asked>>
allvars == <<vars, plans>>

Have(t) == own[t] + making[t] + macro.pending[t]
Army == SumFunction([t \in Things |-> IF Data[t].kind = "unit" /\ t # Larva THEN Data[t].s * own[t] ELSE 0])
IsBuilding(t) == Data[t].kind \in {"building", "addon", "morph"}
Prio == [supply |-> 90, opening |-> 80, severe |-> 73, worker |-> 72, chain |-> 68, urgent |-> 67,
         expand |-> 66, tech |-> 64, building |-> 62, upgrade |-> 61, army |-> 60, filler |-> 59]

-----------------------------------------------------------------------------
(* The list under construction: add, and what it has set aside so far      *)

Entry(kind, t, prio, count, pays) ==
    [kind |-> kind, t |-> t, prio |-> prio, count |-> count, pays |-> pays]
Add(list, e) ==
    IF \E i \in DOMAIN list : list[i].kind = e.kind /\ list[i].t = e.t THEN list ELSE Append(list, e)
AddIf(list, cond, e) == IF cond THEN Add(list, e) ELSE list
AddAll(list, S) ==                                \* a set of entries, in any order
    LET es == SetToSeq(S)
        after[n \in 0..Len(es)] == IF n = 0 THEN list ELSE Add(after[n - 1], es[n])
    IN  after[Len(es)]

FirstBuild(list) ==
    LET B == {i \in DOMAIN list : list[i].kind \in {"build", "expand"} /\ macro.pending[list[i].t] = 0}
    IN  IF B = {} THEN {} ELSE {Min(B)}
SetAside(list, c) ==
    SumFunctionOnSet([i \in DOMAIN list |-> list[i].count * Cost(list[i].t, c)],
                     {i \in DOMAIN list : list[i].pays} \cup FirstBuild(list))
HeldFor(list, p) ==
    Cardinality({i \in DOMAIN list : list[i].kind = "addon" /\ Data[list[i].t].from = p})

-----------------------------------------------------------------------------
(* What is wanted                                                          *)

ParentFree(a) == own[Data[a].from] > own[a] + making[a]
Bases  == IF macro.bases = 0 THEN Have(Hall) ELSE macro.count
Target == macro.target
WantWorkers ==
    IF Bases <= Goal.bases THEN Goal.workers
    ELSE Max({Goal.workers, Min({MaxWorkers, Target})})
WantBases(attacked) ==
    IF /\ Goal.bases <= Bases /\ ~macro.expanding /\ ~attacked /\ Target > 0
       /\ own[Worker] >= Min({Target, WantWorkers}) - Slack
       /\ minerals >= Floating \/ own[Worker] >= Target + Oversaturated
    THEN Bases + 1 ELSE Goal.bases

\* _need_supply: supply that is on its way counts, for two units per producer.
NeedSupply ==
    LET coming == making[SupplyT] + macro.pending[SupplyT]
        future == Total - Used + coming * Data[SupplyT].gives + making[Hall] * Data[Hall].gives
        makers == own[Hall] + SumFunction([t \in DOMAIN Goal.units |->
                                  IF IsBuilding(Data[t].from) THEN own[Data[t].from] ELSE 0])
    IN  /\ Total < MaxSupply /\ ~(Total <= FewSupply /\ Used < FewUsed)
        /\ future <= 2 + SupplyLead * 2 * makers

\* TechTree.missing: what must be made, in any order, so that all of S exist; the
\* chain is followed no deeper than MaxDepth.
MaxDepth == 12
Lacking == {t \in Things \ Always : Have(t) = 0}
Deeper(R) == R \cup (UNION {Data[t].req \cup {Data[t].from} : t \in R} \cap Lacking)
Missing(S) ==
    LET reach[n \in 0..MaxDepth] == IF n = 0 THEN S \cap Lacking ELSE Deeper(reach[n - 1])
    IN  Lacking \cap reach[MaxDepth]

\* Opening.next_build: the steps that are there are passed.
Count2(t, i) == Cardinality({k \in 1..i : Opening[k].t = t}) + Start[t]
StepNow == Max({step} \cup {i \in step..Len(Opening) :
                            \A k \in step + 1..i : own[Opening[k].t] + making[Opening[k].t] >= Count2(Opening[k].t, k)})
OpeningDone(i) == i = Len(Opening)
OpeningNext(i) == ~OpeningDone(i) /\ Used >= Opening[i + 1].at
LaterAll(i) == {Opening[k].t : k \in DOMAIN Opening}                     \* mutant
Later(i) == {Opening[k].t : k \in i + 1..Len(Opening)}

GasFloat == gas >= GasFloating /\ gas >= minerals
Short == Army < need

-----------------------------------------------------------------------------
(* The pieces                                                              *)

\* _requests: what Crisis asks for comes first, or what is missing for it.
Entries(r) ==
    IF r.item = "cancel" \/ (r.item # "train" /\ Have(r.t) >= r.count) THEN {}
    ELSE IF ~ReqsDone(r.t)
    THEN {Entry("build", p, 99, 1, FALSE) :
             p \in {q \in Missing(Data[r.t].req \cup {Data[r.t].from}) :
                       Data[q].kind \in {"building", "morph"} /\ ReqsDone(q)}}
    ELSE CASE r.item = "build" -> {Entry("build", r.t, 100, 1, FALSE)}
           [] r.item = "addon" -> IF ParentFree(r.t) THEN {Entry("addon", r.t, 100, r.count, TRUE)} ELSE {}
           [] r.item = "train" -> {Entry("train", r.t, 100, r.count, TRUE)}
Asked(list) == AddAll(list, UNION {Entries(r) : r \in asked})
Cancels == {r.t : r \in {q \in asked : q.item = "cancel"}}

Opens(list, i) ==
    LET t == Opening[i + 1].t
    IN  IF ~OpeningNext(i) THEN list
        ELSE IF ~ReqsDone(t) THEN list
        ELSE IF ~IsBuilding(t) THEN Add(list, Entry("train", t, Prio.opening, 1, TRUE))
        ELSE IF t = Hall /\ own[Hall] > 0
        THEN AddIf(list, Hall \notin Cancels, Entry("expand", t, Prio.opening, 1, FALSE))
        ELSE Add(list, Entry("build", t, Prio.opening, 1, FALSE))

WorkersWanted(list) ==
    LET room == Min({WantWorkers - Have(Worker), own[Hall]})
        n    == IF Zerg /\ Short THEN Min({room, own[Larva] \div 2}) ELSE room
    IN  AddIf(list, n > 0, Entry("train", Worker, Prio.worker, n, FALSE))

\* _army: each producer that is done, and not held for an addon, takes a unit of
\* the goal, the one that is furthest behind (with gas to burn, the dearest in
\* gas); when it is urgent, one that can be paid for, beyond the goal's count.
Affordable(left, t) ==
    Data[t].m <= left.m /\ (Data[t].g = 0 \/ Data[t].g <= left.g) /\ Data[t].s <= left.s
Before(left, a, b) ==
    \/ GasFloat /\ Data[a].g > Data[b].g
    \/ /\ ~(GasFloat /\ Data[b].g > Data[a].g)
       /\ (Have(a) + left.n[a]) * Goal.units[b] < (Have(b) + left.n[b]) * Goal.units[a]
Foremost(left, C) == CHOOSE t \in C : \A o \in C : ~Before(left, o, t)
PickOf(left, p, urgent) ==
    LET past(t) == urgent /\ Data[t].fights
        T == {t \in DOMAIN Goal.units :
                 /\ Goal.units[t] > 0 /\ Data[t].from = p /\ ReqsDone(t)
                 /\ past(t) \/ Have(t) + left.n[t] < Goal.units[t]}
        C == IF urgent THEN {t \in T : Affordable(left, t)} ELSE T
    IN  {t \in C : t = Foremost(left, C) /\ Affordable(left, t)}
Less(left, t) ==
    [m |-> left.m - Data[t].m, g |-> left.g - Data[t].g, s |-> left.s - Data[t].s, n |-> More(left.n, t, 1)]
PickOne(left, p, urgent) ==
    LET P == PickOf(left, p, urgent) IN IF P = {} THEN left ELSE Less(left, CHOOSE t \in P : TRUE)
Slots(left, p, n, urgent) ==
    LET after[k \in 0..n] == IF k = 0 THEN left ELSE PickOne(after[k - 1], p, urgent)
    IN  IF n <= 0 THEN left ELSE after[n]
ArmyLeft(list, urgent) ==
    LET ps == SetToSeq({Data[t].from : t \in DOMAIN Goal.units})
        after[k \in 0..Len(ps)] ==
            IF k = 0 THEN [m |-> minerals - SetAside(list, "m") - reserved.m,
                           g |-> gas - SetAside(list, "g") - reserved.g, s |-> Total - Used, n |-> Nothing]
            ELSE Slots(after[k - 1], ps[k], own[ps[k]] - HeldFor(list, ps[k]), urgent)
    IN  after[Len(ps)]

\* What is left of a float goes to another producer of the main unit.
MainProducer ==
    LET t == CHOOSE u \in DOMAIN Goal.units : \A o \in DOMAIN Goal.units :
                        Goal.units[o] * Data[o].s <= Goal.units[u] * Data[u].s
    IN  IF IsBuilding(Data[t].from) THEN Data[t].from ELSE Hall
FloatProducer(list, left, urgent) ==
    AddIf(list, /\ \E t \in DOMAIN Goal.units : Goal.units[t] > 0 /\ ReqsDone(t)
                /\ Data[MainProducer].kind # "addon"
                /\ left.m >= (IF urgent THEN FloatShort ELSE FloatMinerals)
                /\ Have(MainProducer) = own[MainProducer]
                /\ Have(MainProducer) < PerHall * Max({1, own[Hall]}),
          Entry("build", MainProducer, Prio.building, 1, FALSE))

\* _filler: a surplus goes to units without gas from the producers left idle.
Fillers(p) ==
    {t \in Things : /\ Data[t].fights /\ Data[t].from = p /\ (IsBuilding(p) \/ p = Larva)
                    /\ Data[t].g = 0 /\ Data[t].s > 0 /\ ReqsDone(t)}
Cheapest(S) == CHOOSE t \in S : \A o \in S : Data[t].m <= Data[o].m
FillFrom(acc, p, prio, keep) ==
    LET t    == Cheapest(Fillers(p))
        mine == SumFunctionOnSet(acc.n, From(p))
        idle == own[p] - HeldFor(acc.list, p) - mine
        most == IF p = Larva THEN Min({idle, Max({1, acc.m \div PerLarva})}) ELSE idle
        n    == Max({0} \cup {i \in 0..most : acc.m - i * Data[t].m >= keep /\ i * Data[t].s <= acc.s})
    IN  IF n = 0 THEN acc
        ELSE [list |-> Add(acc.list, Entry("train", t, prio, n, TRUE)),
              m |-> acc.m - n * Data[t].m, s |-> acc.s - n * Data[t].s, n |-> acc.n]
Fill(list, left, prio, start, keep) ==
    LET ps == SetToSeq({p \in Things : Fillers(p) # {}})
        after[k \in 0..Len(ps)] ==
            IF k = 0 THEN [list |-> list, m |-> left.m, s |-> left.s, n |-> left.n]
            ELSE FillFrom(after[k - 1], ps[k], prio, keep)
    IN  IF left.m < start THEN list ELSE after[Len(ps)].list

Recruits(list, left, prio, start, keep) ==
    LET urgent == prio # Prio.army
        army   == AddAll(FloatProducer(list, left, urgent),
                         {Entry("train", t, prio, left.n[t], TRUE) : t \in {u \in DOMAIN Goal.units : left.n[u] > 0}})
    IN  Fill(army, left, IF urgent THEN prio ELSE Prio.filler, start, keep)
ArmyAndFiller(list, prio, start, keep) ==
    Recruits(list, ArmyLeft(list, prio # Prio.army), prio, start, keep)

\* The goal, once the opening waits for nothing: requirements, bases, buildings, techs.
Chain(list, i) ==
    LET techs == IF (~Short \/ GasFloat) /\ OpeningDone(i) THEN Goal.techs ELSE {}
        wants == {t \in DOMAIN Goal.units : Goal.units[t] > 0} \cup
                 {t \in DOMAIN Goal.buildings : Goal.buildings[t] > 0} \cup
                 {t \in DOMAIN Goal.addons : Goal.addons[t] > 0} \cup techs
        M == {t \in Missing(UNION {Data[t].req \cup {Data[t].from} : t \in wants} \ {Worker}) :
                 t \notin Later(i) /\ (t = Hall => own[Hall] = 0) /\ ReqsDone(t)
                   /\ (Data[t].kind = "addon" => ParentFree(t))}
        count(t) == IF t \in DOMAIN Goal.addons THEN Max({1, Goal.addons[t]}) ELSE 1
    IN  AddAll(list, {Entry("addon", t, Prio.chain, count(t), TRUE) : t \in {u \in M : Data[u].kind = "addon"}}
                     \cup {Entry("build", t, Prio.chain, 1, FALSE) :
                              t \in {u \in M : Data[u].kind \in {"building", "morph"}}})
LarvaStarved == Zerg /\ minerals >= LarvaFloat /\ own[Larva] = 0 /\ making[Hall] + macro.pending[Hall] = 0
Expands(list, i, attacked) ==
    LET wanted == WantBases(attacked) > Bases /\ Hall \notin Later(i)
        kind   == IF wanted \/ macro.next THEN "expand" ELSE "build"
    IN  AddIf(list, Hall \notin Cancels /\ (wanted \/ LarvaStarved), Entry(kind, Hall, Prio.expand, 1, FALSE))
IsProducer(t) == \E u \in DOMAIN Goal.units : Data[u].from = t
Geysers == Max({1, macro.bases})
Buildings(list, i) ==
    AddAll(list, {Entry("build", t, IF IsProducer(t) THEN Prio.building ELSE Prio.tech, 1, FALSE) :
                     t \in {u \in DOMAIN Goal.buildings \ Later(i) :
                               /\ Have(u) < Goal.buildings[u] /\ (u = Refinery => Have(u) < Geysers)
                               /\ ReqsDone(u) /\ (IsProducer(u) \/ ~Short)}})
Techs(list) ==
    AddAll(list, {Entry("upgrade", t, Prio.upgrade, 1, TRUE) :
                     t \in {u \in Goal.techs : own[u] + making[u] = 0 /\ ReqsDone(u) /\ (~Short \/ GasFloat)}})

\* _gas_sink: gas that piles up goes to more upgrades for the army, level by level, or to
\* what is missing for the next one, which is never an addon.
SinkFor(u) ==
    LET M == {p \in Missing(Data[u].req \cup {Data[u].from}) :
                 Data[p].kind \in {"building", "morph"} /\ ReqsDone(p)}
    IN  IF ReqsDone(u) THEN {Entry("upgrade", u, Prio.upgrade, 1, TRUE)}
        ELSE {Entry("build", p, Prio.tech, 1, FALSE) : p \in {q \in M : q = CHOOSE o \in M : TRUE}}
GasSink(list) ==
    LET U == {u \in Sinks : /\ own[u] + making[u] = 0
                            /\ \A r \in Data[u].req : Data[r].kind = "tech" => own[r] > 0}
    IN  IF GasFloat THEN AddAll(list, UNION {SinkFor(u) : u \in U}) ELSE list
Addons(list) ==
    AddAll(list, {Entry("addon", t, Prio.tech, Goal.addons[t], TRUE) :
                     t \in {u \in DOMAIN Goal.addons : Goal.addons[u] > Have(u) /\ ReqsDone(u) /\ ParentFree(u)}})

\* GreedyPlanner.tick, stage by stage.  Whether we are under attack, and whether the
\* enemy is known to have an army, is up to the game.
Supply == IF IsBuilding(SupplyT) THEN Entry("build", SupplyT, Prio.supply, 1, FALSE)
          ELSE Entry("train", SupplyT, Prio.supply, 1, TRUE)
Pressing(known) == IF 2 * Army < need /\ known THEN Prio.severe ELSE Prio.urgent
AddonsFirst(list, i) == IF OpeningNext(i) THEN list ELSE Addons(list)
ArmyFirst(list, known) == IF Short THEN ArmyAndFiller(list, Pressing(known), 0, 0) ELSE list
Aims(list, i, attacked) ==
    IF OpeningNext(i) THEN list
    ELSE GasSink(Techs(Buildings(Expands(Chain(list, i), i, attacked), i)))
Tick(i, attacked, known) ==
    LET first   == WorkersWanted(Opens(Asked(AddIf(<<>>, NeedSupply, Supply)), i))
        pressed == ArmyFirst(AddonsFirst(first, i), known)
    IN  ArmyAndFiller(Aims(pressed, i, attacked), Prio.army, FloatTrain, FloatKeep)

\* items.sort: the most important first, and what was added first before its equals.
Behind(list, e) == Cardinality({k \in DOMAIN list : list[k].prio >= e.prio})
Insert(list, e) ==
    [i \in 1..Len(list) + 1 |-> IF i <= Behind(list, e) THEN list[i]
                                ELSE IF i = Behind(list, e) + 1 THEN e ELSE list[i - 1]]
Sorted(list) ==
    LET after[n \in 0..Len(list)] == IF n = 0 THEN <<>> ELSE Insert(after[n - 1], list[n])
    IN  after[Len(list)]
PlanOf(i, attacked, known) == Sorted(Tick(i, attacked, known))

-----------------------------------------------------------------------------
(* The decision, and what goes on around it                                *)

\* _publish: our bases are those where a hall stands or goes up; the first expansion is
\* in flight until its hall is done (MacroState.base_count).
Macro(jobs, at) ==
    LET n == at.make + at.done
    IN  [pending |-> jobs, bases |-> n, count |-> IF at.make = 0 /\ at.walk > 0 THEN n + 1 ELSE n,
         expanding |-> at.walk + at.make > 0, next |-> n < Sites,
         target |-> IF n = 0 THEN 0 ELSE PerBase * n + PerGas * own[Refinery]]
NoMacro == [pending |-> Nothing, bases |-> 0, count |-> 0, expanding |-> FALSE, next |-> FALSE, target |-> 0]

InitAll ==
    /\ Init /\ macro = NoMacro /\ reserved = [m |-> 0, g |-> 0]
    /\ step = 0 /\ asked = {} /\ need \in Armies

Plan ==
    /\ step' = StepNow
    /\ \E attacked, known \in BOOLEAN : Open(PlanOf(step', attacked, known), Cancels)
    /\ reserved' = [m |-> CostOf(walking', "m"), g |-> CostOf(walking', "g")]
    /\ UNCHANGED <<macro, need, asked>>
Publish == Carry /\ macro' = Macro(walking, bases) /\ UNCHANGED <<reserved, step, need, asked>>
Plays   == Happens /\ UNCHANGED plans
Spends  == Spending /\ UNCHANGED plans

\* The enemy is seen, and Crisis asks for something; both may change the need.
Asks(r) ==
    /\ Alarm /\ asked' = asked \cup {r} /\ need' \in Armies
    /\ UNCHANGED <<macro, reserved, step>>
Lapses(r) ==
    /\ stage = "game" /\ r \in asked /\ asked' = asked \ {r}
    /\ UNCHANGED <<vars, macro, reserved, step, need>>

Next == Plan \/ Publish \/ Plays \/ Spends \/ \E r \in Requests : Asks(r) \/ Lapses(r)

\* Workers mine, what is begun is finished, jobs reach their sites, requests run out
\* (their time to live), every decision ends and another one begins.
MinesOn    == Mines /\ UNCHANGED plans
DrillsOn   == Drills /\ UNCHANGED plans
ObservesOn == Observes /\ UNCHANGED plans
Finishes   == \E t \in Things : Completes(t) /\ UNCHANGED plans
Arrives    == \E t \in Things : Places(t) /\ UNCHANGED plans
Fairness ==
    /\ []<>(stage = "game") /\ WF_allvars(ObservesOn)
    /\ SF_allvars(MinesOn) /\ SF_allvars(DrillsOn)
    /\ SF_allvars(Finishes) /\ SF_allvars(Arrives) /\ \A r \in Requests : SF_allvars(Lapses(r))
Spec == InitAll /\ [][Next]_allvars /\ Fairness

-----------------------------------------------------------------------------
(* Properties                                                              *)

\* "Planners count dispatched jobs through the macro section, so nothing is built
\* twice" (src/README.md:195-196): what stands, is built or is walked to is never
\* more than something asked for, although the opening counts only what it sees and
\* the rest of the planner counts jobs one decision late; and no base is taken twice.
\* Halls for a base do not count with the others: when all halls are lost, one is built
\* and another one expands (planner.py:276-291, executor.py:163).  A float may add
\* producers of the main unit, so many per hall.  Supply has no such bound, nor have the
\* halls that a float adds where larvae are the producers (_army counts them against
\* themselves).
InOpening(t) == Count2(t, Len(Opening))
AskedFor(t) ==
    Max({1, Start[t], InOpening(t)} \cup {r.count : r \in {q \in Requests : q.t = t}}
        \cup {Goal.buildings[b] : b \in {t} \cap DOMAIN Goal.buildings}
        \cup {Goal.addons[b] : b \in {t} \cap DOMAIN Goal.addons})
Wanted(t) == IF t = MainProducer THEN Max({AskedFor(t), PerHall * (AskedFor(Hall) + Sites)}) ELSE AskedFor(t)
Unbounded == {SupplyT} \cup (IF Zerg \/ MainProducer = Hall THEN {Hall, MainProducer} ELSE {})
AtBases == bases.walk + bases.make + bases.done
Besides(t) == own[t] + making[t] + walking[t] - (IF t = Hall THEN AtBases ELSE 0)
NothingTwice ==
    /\ \A t \in Things \ Unbounded : IsBuilding(t) => Besides(t) <= Wanted(t)
    /\ AtBases <= Sites

\* Whatever is lost, cancelled or asked for in between, the goal is there again and
\* again: no hold, reservation, request or wait of the opening starves it for ever.
GoalMet ==
    /\ \A t \in DOMAIN Goal.units : own[t] >= Goal.units[t]
    /\ \A t \in DOMAIN Goal.buildings : own[t] >= Goal.buildings[t]
    /\ \A t \in DOMAIN Goal.addons : own[t] >= Goal.addons[t]
    /\ \A t \in Goal.techs : own[t] > 0
    /\ own[Hall] >= Goal.bases /\ own[Worker] >= Goal.workers
GoalReached == []<>GoalMet
=============================================================================
