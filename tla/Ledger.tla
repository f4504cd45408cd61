------------------------------- MODULE Ledger -------------------------------
(***************************************************************************)
(* How the macro executor spends: a decision's plan, item by item in order *)
(* of importance, against one budget (adjutant/macro/executor.py: tick,    *)
(* _item and what it calls, Budget, _reserved, _publish), and what the     *)
(* game does with it.  Who plans is left to the module that extends it.    *)
(*                                                                         *)
(* A thing is a unit, a structure, an addon or a technology; Data says     *)
(* what it costs, from what it is made, and what it requires.  Jobs are    *)
(* only counted here, by what they build: a job walks, and its money is    *)
(* set aside, until the game takes the money and the structure stands      *)
(* unfinished.  How a job does this is the subject of BuildJobs.  A hall   *)
(* that is morphed further keeps its base here.                            *)
(***************************************************************************)
EXTENDS Integers, Sequences, FiniteSets, FiniteSetsExt, Functions

CONSTANTS
    Data,           \* cost, supply, origin and requirements of every thing
    Worker, Larva, Refinery, Pylon, Hall,
    Start,          \* what there is of each thing at the start
    Sites,          \* the bases (BaseTracker.next_base finds no other)
    MaxJobs,        \* Macro.max_jobs
    EarlyDispatch,  \* Macro.early_dispatch
    Cap, GasCap,    \* minerals and gas are counted no further (bounds)
    MaxFaults       \* deaths and lost jobs of a game (a bound)

Things == DOMAIN Data

\* Nothing costs less than nothing, and everything is made from something there is.
ASSUME LedgerAssumption ==
    /\ IsFiniteSet(Things) /\ {Worker, Hall} \subseteq Things /\ Cap \in Nat /\ GasCap \in Nat
    /\ Sites \in Nat /\ Start[Hall] \in 0..Sites
    /\ \A t \in Things :
           /\ Data[t].m \in Nat /\ Data[t].g \in Nat /\ Data[t].s \in Nat
           /\ Data[t].gives \in Nat /\ Data[t].from \in Things /\ Start[t] \in Nat
           /\ Data[t].psi => Pylon \in Things

VARIABLES
    minerals, gas,
    own,            \* how many of a thing are complete
    making,         \* how many are being made
    walking,        \* how many jobs walk to build it
    bases,          \* of the halls: how many walk to, go up at and stand at the site of a base
    faults,         \* how much has gone wrong
    stage,          \* whose turn it is
    plan, pos,      \* bb.plan.items and the item in hand
    cancelled,      \* Macro.cancelled
    budget,         \* Macro's Budget
    used,           \* how many producers of a kind have an order of this decision
    issued          \* what has been ordered in this decision, how many times

game   == <<minerals, gas, own, making, walking, bases, faults>>
ledger == <<plan, pos, cancelled, budget, used, issued>>
vars   == <<game, stage, ledger>>

Nothing  == [t \in Things |-> 0]
More(f, t, n) == [f EXCEPT ![t] = @ + n]

Produced(t) == Data[t].kind \in {"worker", "unit", "tech", "addon"}
From(p) == {t \in Things : Data[t].from = p}
Busy(p) == SumFunctionOnSet(making, {t \in From(p) : Produced(t)})
Used  == SumFunction([t \in Things |-> Data[t].s * (own[t] + making[t])])
Total == SumFunction([t \in Things |-> Data[t].gives * own[t]])

\* What some things cost, so many of each, in minerals, gas or supply.
Cost(t, c) == CASE c = "m" -> Data[t].m [] c = "g" -> Data[t].g [] c = "s" -> Data[t].s
CostOf(many, c) == SumFunction([t \in Things |-> many[t] * Cost(t, c)])
IssuedCost(c) == CostOf(issued, c)
ReservedNot(c) == 0                                                    \* mutant
Reserved(c) == CostOf(walking, c)
Walkers == SumFunction(walking)

Init ==
    /\ minerals = 0 /\ gas = 0 /\ faults = 0 /\ stage = "game"
    /\ own = [t \in Things |-> Start[t]] /\ making = Nothing /\ walking = Nothing
    /\ bases = [walk |-> 0, make |-> 0, done |-> Start[Hall]]
    /\ plan = <<>> /\ pos = 1 /\ cancelled = {} /\ used = Nothing /\ issued = Nothing
    /\ budget = [m |-> 0, g |-> 0, s |-> 0]

-----------------------------------------------------------------------------
(* The budget                                                              *)

Can(b, t)   == b.m >= Data[t].m /\ b.g >= Data[t].g /\ b.s >= 0
Spend(b, t, n) ==
    [m |-> b.m - n * Data[t].m, g |-> b.g - n * Data[t].g, s |-> b.s - n * Data[t].s]
Hold(b, t) ==
    [m |-> IF b.m >= Data[t].m THEN b.m ELSE b.m - Data[t].m, g |-> b.g - Data[t].g, s |-> b.s]

Always == {Worker, Larva}
ReqsDone(t) == \A r \in Data[t].req \cup {Data[t].from} : r \in Always \/ own[r] > 0
GasBlocked(t) ==
    Data[t].g > 0 /\ budget.g < Data[t].g /\ own[Refinery] + making[Refinery] + walking[Refinery] = 0

\* How many producers could take t now.  Which of them carry the addon that t
\* needs, if it needs one, is not followed.
FreeOf(p) == own[p] - (IF p = Larva THEN 0 ELSE Busy(p)) - used[p]
Free(t) ==
    LET n == FreeOf(Data[t].from)
        A == {a \in Data[t].req : Data[a].kind = "addon" /\ Data[a].from = Data[t].from}
        k == SumFunctionOnSet(own, A)
    IN  IF Data[t].kind = "addon"
        THEN n - own[t] - making[t] .. n
        ELSE IF A = {} THEN {n} ELSE {i \in 0..n : i <= k /\ i >= k - (own[Data[t].from] - n)}

\* The start of the tick: cancels first, then what is left to spend.
Open(items, cancels) ==
    /\ stage = "plan" /\ stage' = "spend"
    /\ plan' = items /\ pos' = 1 /\ cancelled' = cancels
    /\ walking' = [t \in Things |-> IF t \in cancels THEN 0 ELSE walking[t]]
    /\ bases' = IF Hall \in cancels THEN [bases EXCEPT !.walk = 0] ELSE bases
    /\ budget' = [m |-> minerals - Reserved("m")', g |-> gas - Reserved("g")', s |-> Total - Used]
    /\ used' = Nothing /\ issued' = Nothing
    /\ UNCHANGED <<minerals, gas, own, making, faults>>

-----------------------------------------------------------------------------
(* One item of the plan                                                    *)

It    == plan[pos]
Count == IF It.count > 1 THEN It.count ELSE 1
OnItem(kinds) == stage = "spend" /\ pos <= Len(plan) /\ It.kind \in kinds
NextItem == pos' = pos + 1 /\ UNCHANGED <<stage, plan, cancelled, minerals, gas, own, making, faults>>
Leave == UNCHANGED <<walking, bases, budget, used, issued>>
Save(b) == budget' = b /\ UNCHANGED <<walking, bases, used, issued>>
Order(t, n) ==
    /\ issued' = More(issued, t, n) /\ used' = More(used, Data[t].from, n)
    /\ UNCHANGED <<walking, bases>>

\* _build, once t is known to be built by a worker: a builder is sent if the money
\* is there or will be when it arrives; otherwise the money is held.  Only the job of
\* an expansion is for a base (base_id).
Worthwhile(t) ==
    ReqsDone(t) /\ ~GasBlocked(t) /\ Walkers < MaxJobs /\ own[Worker] > Walkers
Send(t) ==
    /\ walking' = More(walking, t, 1) /\ budget' = [Spend(budget, t, 1) EXCEPT !.s = budget.s]
    /\ bases' = IF It.kind = "expand" /\ t = Hall THEN [bases EXCEPT !.walk = @ + 1] ELSE bases
    /\ UNCHANGED <<used, issued>>
Dispatch(t) ==
    CASE ~Worthwhile(t)   -> Leave
      [] Worthwhile(t) /\ Can(budget, t) -> Send(t)
      [] OTHER -> \/ EarlyDispatch /\ Send(t)
                  \/ /\ ~(EarlyDispatch /\ budget.m >= Data[t].m /\ budget.g >= Data[t].g)
                     /\ Save(Hold(budget, t))

\* _build and _power: a hall that walks to no base keeps no expansion from being sent,
\* nor does next_base count it.  There may be no site for a structure that needs power;
\* a pylon is then put down, one at a time.
AlreadyWalksNot(t) == FALSE                                            \* mutant
AlreadyWalks(t) == (IF It.kind = "expand" THEN bases.walk ELSE walking[t]) >= Count
NoPlace == It.kind = "expand" /\ bases.make + bases.done >= Sites
Build ==
    /\ OnItem({"build", "expand"}) /\ NextItem
    /\ LET t == It.t
       IN  IF t \in cancelled \/ AlreadyWalks(t) \/ NoPlace THEN Leave
           ELSE IF Data[t].kind = "morph"
           THEN IF ~ReqsDone(t) \/ FreeOf(Data[t].from) <= 0 THEN Leave
                ELSE IF Can(budget, t) THEN Order(t, 1) /\ budget' = Spend(budget, t, 1)
                ELSE Save(Hold(budget, t))
           ELSE \/ Dispatch(t)
                \/ /\ Worthwhile(t) /\ Data[t].psi
                   /\ IF walking[Pylon] + making[Pylon] > 0 THEN Leave ELSE Dispatch(Pylon)

\* _train: each free producer takes one, as long as supply and money last; the
\* first that lacks only the money holds it.
Fits(b, t) == Data[t].s <= b.s /\ Can(b, t)
Train ==
    /\ OnItem({"train"}) /\ NextItem
    /\ IF ~ReqsDone(It.t) \/ GasBlocked(It.t) THEN Leave
       ELSE \E k \in Free(It.t) :
           LET t == It.t
               n == IF k < Count THEN k ELSE Count
               j == Max({0} \cup {i \in 1..n : \A h \in 1..i : Fits(Spend(budget, t, h - 1), t)})
               b == Spend(budget, t, j)
           IN  /\ Order(t, j)
               /\ budget' = IF j < n /\ Data[t].s <= b.s THEN Hold(b, t) ELSE b

\* _addon, _upgrade and _research: one order for the first building that can.
Single ==
    /\ OnItem({"addon", "upgrade"}) /\ NextItem
    /\ LET t == It.t
       IN  IF own[t] + making[t] >= Count \/ ~ReqsDone(t) THEN Leave
           ELSE \E k \in Free(t) :
                  IF k <= 0 THEN Leave
                  ELSE IF Can(budget, t) THEN Order(t, 1) /\ budget' = Spend(budget, t, 1)
                  ELSE Save(Hold(budget, t))

-----------------------------------------------------------------------------
(* The game                                                                *)

\* The orders are carried out: what is made is paid for, and larva and what is
\* morphed is used up.  What no later decision reads is forgotten.
Eaten(p) == SumFunctionOnSet(issued, {t \in From(p) : Data[t].eats})
Carry ==
    /\ stage = "spend" /\ pos > Len(plan) /\ stage' = "game"
    /\ minerals' = minerals - IssuedCost("m") /\ gas' = gas - IssuedCost("g")
    /\ making' = [t \in Things |-> making[t] + issued[t]]
    /\ own' = [t \in Things |-> own[t] - Eaten(t)]
    /\ plan' = <<>> /\ pos' = 1 /\ cancelled' = {} /\ used' = Nothing /\ issued' = Nothing
    /\ budget' = [m |-> 0, g |-> 0, s |-> 0] /\ UNCHANGED <<walking, bases, faults>>

\* One of n of a thing: of the halls, one at a base in stage k, which leaves b, or another.
OneOf(t, n, k, b) ==
    \/ t = Hall /\ bases[k] > 0 /\ bases' = b
    \/ (t = Hall => n > bases[k]) /\ UNCHANGED bases

InGame == stage = "game" /\ UNCHANGED <<stage, ledger>>
Mine(m, g) ==
    /\ InGame /\ own[Worker] > 0 /\ <<m, g>> # <<minerals, gas>>
    /\ minerals' = m /\ gas' = g /\ UNCHANGED <<own, making, walking, bases, faults>>
Mines == Mine(IF minerals < Cap THEN minerals + 1 ELSE Cap, gas)
Drills == own[Refinery] > 0 /\ Mine(minerals, IF gas < GasCap THEN gas + 1 ELSE GasCap)
Completes(t) ==                       \* a larva hatches by itself
    /\ InGame /\ IF t = Larva THEN own[t] = 0 ELSE making[t] > 0
    /\ OneOf(t, making[t], "make", [bases EXCEPT !.make = @ - 1, !.done = @ + 1])
    /\ making' = IF t = Larva THEN making ELSE More(making, t, -1)
    /\ own' = More(own, t, 1) /\ UNCHANGED <<minerals, gas, walking, faults>>
Places(t) ==
    /\ InGame /\ walking[t] > 0 /\ minerals >= Data[t].m /\ gas >= Data[t].g
    /\ Data[t].eats => own[Worker] > 0
    /\ OneOf(t, walking[t], "walk", [bases EXCEPT !.walk = @ - 1, !.make = @ + 1])
    /\ walking' = More(walking, t, -1) /\ making' = More(making, t, 1)
    /\ minerals' = minerals - Data[t].m /\ gas' = gas - Data[t].g
    /\ own' = IF Data[t].eats THEN More(own, Worker, -1) ELSE own
    /\ UNCHANGED faults
JobEnds(t) ==
    /\ InGame /\ walking[t] > 0 /\ faults < MaxFaults /\ faults' = faults + 1
    /\ OneOf(t, walking[t], "walk", [bases EXCEPT !.walk = @ - 1])
    /\ walking' = More(walking, t, -1) /\ UNCHANGED <<minerals, gas, own, making>>
Dies(t) ==
    /\ InGame /\ own[t] > 0 /\ faults < MaxFaults /\ faults' = faults + 1
    /\ own[t] > Busy(t) /\ Data[t].kind # "tech"
    /\ OneOf(t, own[t], "done", [bases EXCEPT !.done = @ - 1])
    /\ own' = More(own, t, -1) /\ UNCHANGED <<minerals, gas, making, walking>>
Observes ==
    /\ stage = "game" /\ stage' = "plan" /\ UNCHANGED <<game, ledger>>

Spending == Build \/ Train \/ Single
Happens ==
    \/ Mines \/ Drills \/ Observes
    \/ \E t \in Things : Completes(t) \/ Places(t) \/ JobEnds(t) \/ Dies(t)

\* The enemy is seen and a component asks for something, which costs nothing yet.
Alarm ==
    /\ stage = "game" /\ faults < MaxFaults /\ faults' = faults + 1
    /\ UNCHANGED <<minerals, gas, own, making, walking, bases, stage, ledger>>

\* The ledger under any planner: a plan may be any list of items (blackboard's PlanItem),
\* of which those to expand are for halls, and anything may be cancelled.
Item == {e \in [kind : {"build", "expand", "train", "addon", "upgrade"}, t : Things, prio : Nat,
                count : Int, pays : BOOLEAN] : e.kind = "expand" => e.t = Hall}
Planned == plan' \in Seq(Item) /\ cancelled' \subseteq Things /\ Open(plan', cancelled')
AnyNext == Planned \/ Spending \/ Carry \/ Happens \/ Alarm
AnySpec == Init /\ [][AnyNext]_vars

-----------------------------------------------------------------------------
(* Properties                                                              *)

TypeOK ==
    /\ minerals \in 0..Cap /\ gas \in 0..GasCap /\ faults \in 0..MaxFaults
    /\ \A t \in Things : {own[t], making[t], walking[t], used[t], issued[t]} \subseteq Nat
    /\ Walkers <= MaxJobs /\ stage \in {"plan", "spend", "game"}
    /\ budget \in [m : Int, g : Int, s : Int] /\ cancelled \subseteq Things
    /\ bases \in [walk : Nat, make : Nat, done : Nat]

\* What a decision orders can be paid for: no order is refused by the game for
\* want of minerals, gas, supply, or of a producer that is free.
Payable ==
    stage = "spend" =>
        /\ IssuedCost("m") <= minerals /\ IssuedCost("g") <= gas
        /\ (IssuedCost("s") > 0 => Used + IssuedCost("s") <= Total)
        /\ \A p \in Things : used[p] <= own[p]

\* Money that is once there for all the jobs that walk stays there until they
\* place: nothing else is bought with it.  Only a builder sent early, for money
\* that is not there yet, may come on top (Macro._reserved, Budget).
Covered ==
    /\ minerals - IssuedCost("m") >= CostOf(walking, "m")
    /\ gas - IssuedCost("g") >= CostOf(walking, "g")
SentEarly == \E t \in Things : walking'[t] > walking[t] /\ ~Can(budget, t)
JobsStayCovered == [][Covered => Covered' \/ SentEarly]_vars

\* "start what is ready and affordable", src/README.md:193-194, and "Save for an
\* unaffordable item: gas only if minerals already cover it", executor.py:66: what
\* needs no gas, can be paid for in minerals and for which there is supply and a
\* free producer is started, when nothing before it was held for minerals.
ReadyAndAffordableStarts ==
    [][\A t \in Things :
        /\ OnItem({"train"}) /\ It.t = t /\ Data[t].g = 0 /\ ReqsDone(t) /\ FreeOf(Data[t].from) > 0
        /\ budget.m >= Data[t].m
        /\ Data[t].s = 0 \/ Data[t].s <= budget.s
        => issued'[t] > issued[t]]_vars
=============================================================================
