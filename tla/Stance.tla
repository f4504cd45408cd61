------------------------------- MODULE Stance -------------------------------
(***************************************************************************)
(* How the bot makes up its mind in a decision: Crisis names the threats,  *)
(* overrides the posture and posts requests; the strategy slot chooses a   *)
(* build, now and then switches, and sets goal and posture; Tactics gives  *)
(* the main squad its order (adjutant/components/crisis.py, strategy.py,   *)
(* tactics.py, strategies/, RequestQueue).                                 *)
(*                                                                         *)
(* Three clocks meet here: the override's, the switch's hysteresis and the *)
(* retreat's, and four memories: the stance itself, the push, the learned  *)
(* choice and the opening.  A clock is kept as the decisions left of it;   *)
(* the frame count of a paused game stands still.  What the bot sees is a  *)
(* member of Sights; a fight's estimate is losing (below retreat_prob),    *)
(* even, or winning (above resume_prob).                                   *)
(***************************************************************************)
EXTENDS Naturals, Integers, FiniteSets

CONSTANTS
    Sights,         \* what Crisis may see
    Templates,      \* the builds of our race
    RushSafe, AntiAir, Default,   \* those the rules pick
    Setups,         \* which variant of the strategy, and does a model pick the main order?
    Requests,       \* the kinds of requests that are followed
    Nil,            \* no build, no override, no choice
    MinSwitch,      \* min_switch_frames, in decisions
    Defend,         \* Crisis.defend_frames
    Retreat,        \* Tactics.retreat_frames
    Hold,           \* LearnedTactics.hold_frames
    Eval,           \* LearnedTactics.eval_frames
    Ttl             \* a request's time to live, by kind

ASSUME TemplatesAssumption == {RushSafe, AntiAir, Default} \subseteq Templates /\ Nil \notin Templates
ASSUME ClocksAssumption ==
    /\ {MinSwitch, Defend, Retreat, Hold, Eval} \subseteq Nat \ {0}
    /\ Ttl \in [Requests -> Nat \ {0}]
ASSUME SetupsAssumption ==
    Setups \subseteq [selector : {"rules", "fixed", "explore", "select", "blend"}, learned : BOOLEAN]

VARIABLES
    step,       \* whose turn it is
    setup,      \* the profile: which strategy (selector), and learned tactics or not
    early,      \* is the game younger than Crisis.early and RuleSelector.rush_until?
    threats,    \* the kinds in bb.threats.active
    override,   \* is posture_override "defend"?
    left,       \* override_until - frame, no less than -1
    requests,   \* what is left of each request, -1 when there is none
    current,    \* TemplateStrategy.current
    since,      \* frame - switched_frame, no more than MinSwitch
    weights,    \* the builds in TemplateStrategy.weights
    opening,    \* "none", "going" or "done"
    stance,     \* bb.strategy.posture.stance
    goal,       \* the builds mixed in bb.strategy.goal
    pushing, retreat,              \* Tactics.pushing, what is left of retreat_until
    choice, choiceLeft, evalLeft,  \* LearnedTactics.choice, choice_until, next_eval
    order,      \* the kind of the main squad's order
    fight       \* is the fight that order was given for being lost?

crisis     == <<early, threats, override, left, requests>>
strategy   == <<current, since, weights, opening, stance, goal>>
tactics    == <<pushing, retreat, choice, choiceLeft, evalLeft, order, fight>>
stanceVars == <<step, setup, crisis, strategy, tactics>>

Less(n, floor) == IF n > floor THEN n - 1 ELSE floor

\* Crisis.on_start: nothing is threatened and nothing overridden.
CrisisInit == early = TRUE /\ threats = {} /\ override = FALSE /\ left = -1

\* RequestQueue: empty.
RequestsInit == requests = [k \in Requests |-> -1]

\* TemplateStrategy.on_start, and the section that it writes.
SlotInit == current = Nil /\ weights = {} /\ opening = "none"
StrategyInit == stance = "hold" /\ goal = {} /\ since = 0

\* Tactics.on_start, what LearnedTactics adds, and the order of a squad not formed.
PushInit == pushing = FALSE /\ retreat = 0 /\ fight = FALSE
LearnedInit == choice = Nil /\ choiceLeft = 0 /\ evalLeft = 0
OrderInit == order = "none"

StanceInit ==
    /\ step = "observe" /\ setup \in Setups
    /\ CrisisInit /\ RequestsInit
    /\ SlotInit /\ StrategyInit
    /\ PushInit /\ LearnedInit /\ OrderInit

\* A new observation: requests expire and time passes, unless the game is paused.
Pauses ==
    /\ step = "observe" /\ step' = "crisis"
    /\ UNCHANGED <<setup, crisis, strategy, tactics>>
Passes ==
    /\ step = "observe" /\ step' = "crisis" /\ early' \in {early, FALSE}
    /\ left' = Less(left, -1) /\ retreat' = Less(retreat, 0)
    /\ choiceLeft' = Less(choiceLeft, 0) /\ evalLeft' = Less(evalLeft, 0)
    /\ since' = IF since < MinSwitch THEN since + 1 ELSE since
    /\ requests' = [k \in Requests |-> Less(requests[k], -1)]
    /\ UNCHANGED <<setup, threats, override, current, weights, opening, stance,
                   goal, pushing, choice, order, fight>>

-----------------------------------------------------------------------------
(* Crisis                                                                  *)

\* A sight: enemy workers in numbers, the army near our bases and how a fight
\* would go without and with our workers, where it is, buildings near our bases,
\* cloaked units, flyers we cannot shoot down, and what we have against them.
Sight == [workers : BOOLEAN, army : {"none", "beaten", "even", "losing"}, drop : BOOLEAN,
          atBase : BOOLEAN, workersWin : BOOLEAN, buildings : {"none", "proxy", "static"},
          cloaked : {"no", "tech", "seen"}, air : BOOLEAN, expanding : BOOLEAN,
          bunkerable : BOOLEAN, detector : BOOLEAN]

\* _worker_rush, _army_threat, _proxy, _cloak, _air: the threats they name.
WorkerRush(o) == IF o.workers /\ early THEN {"worker_rush"} ELSE {}
ArmyThreat(o) ==
    CASE o.army = "losing" -> {IF early THEN "early_rush" ELSE "overrun"}
      [] o.army = "even"   -> {"pressure"}
      [] OTHER             -> {}
Drop(o)  == IF o.army # "none" /\ o.drop THEN {"drop"} ELSE {}
Proxy(o) == CASE early /\ o.buildings = "proxy"  -> {"proxy"}
              [] early /\ o.buildings = "static" -> {"cannon_rush"}
              [] OTHER -> {}
Cloak(o) == CASE o.cloaked = "seen" -> {"cloak"} [] o.cloaked = "tech" -> {"cloak_tech"}
              [] OTHER -> {}
Air(o)   == IF o.air THEN {"air"} ELSE {}
Active(o) == WorkerRush(o) \cup ArmyThreat(o) \cup Drop(o) \cup Proxy(o) \cup Cloak(o) \cup Air(o)

\* The requests they post.
Posted(o) ==
    {k \in Requests :
        CASE k = "pull"   -> \/ WorkerRush(o) \cup Proxy(o) # {}
                             \/ o.army = "losing" /\ o.atBase /\ o.workersWin
          [] k = "cancel" -> o.army = "losing" /\ o.expanding
          [] k = "ground" -> o.army = "losing" /\ o.bunkerable
          [] k = "scan"   -> o.cloaked = "seen"
          [] k = "addon"  -> o.cloaked # "no" /\ ~o.detector
          [] k = "aa"     -> (o.cloaked # "no" /\ ~o.detector) \/ o.air}

\* RequestQueue.post: a request that is there already starts its time anew.
PostAll(ks) == [k \in Requests |-> IF k \in ks THEN Ttl[k] ELSE requests[k]]
Asked(k) == requests[k] >= 0

Severe == {"worker_rush", "early_rush", "overrun", "cannon_rush"}

StillDefendingAnyway == override                                       \* mutant
StillDefending == override /\ left >= 0

\* Crisis.tick.  The override outlives the threat by Defend.
Crisis ==
    /\ step = "crisis" /\ step' = "strategy"
    /\ \E o \in Sights :
          /\ threats' = Active(o)
          /\ requests' = PostAll(Posted(o))
    /\ \/ threats' \cap Severe # {} /\ override' = TRUE /\ left' = Defend
       \/ /\ threats' \cap Severe = {} /\ UNCHANGED left
          /\ override' = StillDefending
    /\ UNCHANGED <<setup, early, strategy, tactics>>

-----------------------------------------------------------------------------
(* The strategy slot                                                       *)

Has(kind) == kind \in threats

\* RuleSelector.rule, for what belief says of a rush and of air.
Rush(believed) == believed \/ Has("rush") \/ Has("worker_rush") \/ Has("proxy")
Rule(rushBelieved, airBelieved) ==
    IF Rush(rushBelieved) /\ early THEN RushSafe
    ELSE IF airBelieved THEN AntiAir ELSE Default

\* choose: the builds it weighs and the heaviest of them, or nothing (Nil).
Only(t) == [top |-> t, ws |-> {t}]
Nothing == IF current = Nil THEN {} ELSE {[top |-> Nil, ws |-> {}]}

\* ScriptedStrategy: the build it is given, or the rules' if that is none of ours,
\* and never another one.
FixedChoices == IF current = Nil THEN {Only(t) : t \in Templates} ELSE Nothing
RuleChoices  == {Only(Rule(r, a)) : r \in BOOLEAN, a \in BOOLEAN}

\* Explore: any build at first, and after the opening now and then another one.
ExploreChoices ==
    LET others == IF current = Nil \/ opening = "done" THEN Templates \ {current} ELSE {}
    IN  {Only(t) : t \in others} \cup Nothing

\* LearnedStrategy keeps the current build unless the best is better by margin; in
\* a blend only if the current one weighs anything.
LearnedChoices ==
    Nothing \cup IF setup.selector = "select" THEN {Only(t) : t \in Templates}
                ELSE {c \in [top : Templates, ws : SUBSET Templates] : c.top \in c.ws}

Choices ==
    CASE setup.selector = "rules"   -> RuleChoices
      [] setup.selector = "fixed"   -> FixedChoices
      [] setup.selector = "explore" -> ExploreChoices
      [] OTHER                      -> LearnedChoices

MaySwitch == current = Nil \/ since >= MinSwitch

\* tick and _switch: a new build starts its own opening, unless one was finished.
\* While a switch has to wait, the weights are already the new choice's.
Choose(c) ==
    \/ c.top = Nil /\ UNCHANGED <<current, since, weights>>
    \/ /\ c.top \notin {Nil, current} /\ MaySwitch
       /\ current' = c.top /\ since' = 0 /\ weights' = c.ws
    \/ /\ c.top # Nil /\ (c.top = current \/ ~MaySwitch)
       /\ weights' = c.ws /\ UNCHANGED <<current, since>>

OpeningNow == IF current' # current /\ opening # "done" THEN "going" ELSE opening

\* _apply: once the opening is done, the goal mixes the current build with what
\* else has weight (blend_goals).
Mixed == IF OpeningNow = "done" THEN {current'} \cup weights' ELSE {current'}

\* Template.posture and BuildSpec.posture: attack, fall back, and in between go on.
PostureOf(attack, fallBack, holdIf, attacked) ==
    CASE (attack \/ (stance = "attack" /\ ~fallBack)) /\ ~holdIf -> "attack"
      [] (attack \/ (stance = "attack" /\ ~fallBack)) /\ holdIf  -> "hold"
      [] OTHER -> IF attacked THEN "defend" ELSE "hold"

Strategy ==
    /\ step = "strategy" /\ step' = "tactics"
    /\ \E c \in Choices : Choose(c)
    /\ goal' = Mixed
    /\ \E attack, fallBack, holdIf, attacked \in BOOLEAN :
          stance' = IF override /\ left > 0 THEN "defend"
                    ELSE PostureOf(attack, fallBack, holdIf, attacked)
    /\ opening' \in {OpeningNow, "done"}              \* Opening.next_build
    /\ UNCHANGED <<setup, crisis, tactics>>

-----------------------------------------------------------------------------
(* Tactics, the main squad's order.  No build asks for "all_in" or "contain". *)

InForce == override /\ left >= 0
EffectiveStance == stance                                              \* mutant
Effective == IF InForce THEN "defend" ELSE stance

\* What the order depends on besides: contact and the odds, the army's size, and
\* whether it is strung out, has a target, and enemy air is near.
Fight == [contact : BOOLEAN, odds : {"losing", "even", "winning"}]
Push(massed, thin) ==
    Effective = "attack" /\ IF pushing THEN ~thin ELSE massed

LosingIgnored(f) == FALSE                                              \* mutant
Losing(f) == f.contact /\ f.odds = "losing"

\* What is left of the retreat: started anew by a push that loses, ended by one
\* that wins.
RetreatLeft(push, f) ==
    CASE push /\ Losing(f)     -> Retreat
      [] f.odds = "winning"    -> 0
      [] OTHER                 -> retreat

\* _main_order.
OrderKind(push, left2, strung, target, air) ==
    CASE left2 > 0                      -> "retreat"
      [] left2 = 0 /\ push /\ strung    -> "gather"
      [] left2 = 0 /\ push /\ ~strung /\ target -> "attack"
      [] left2 = 0 /\ ~(push /\ (strung \/ target)) /\ air -> "hunt_air"
      [] OTHER                          -> IF Effective = "defend" THEN "defend" ELSE "hold"

OptionOf(kind) == CASE kind \in {"attack", "gather"} -> "attack"
                    [] kind \in {"hold", "defend"}   -> "hold" [] OTHER -> kind
Options == {"hold", "contain", "attack", "attack_base", "retreat"}
ASSUME OptionsAssumption == Nil \notin Options

\* LearnedTactics._take.
Take(o, strung) ==
    /\ pushing' = (o \in {"attack", "attack_base"})
    /\ order' = CASE pushing' /\ strung -> "gather" [] pushing' /\ ~strung -> "attack"
                  [] OTHER -> o

\* LearnedTactics._main_order after the scripted one gave kind, push and left2.
Learnt(kind, push, left2, f, strung) ==
    LET Scripted == order' = kind /\ pushing' = push
    IN
    \/ /\ ~setup.learned \/ kind = "hunt_air" \/ InForce
       /\ Scripted /\ choice' = Nil /\ retreat' = left2 /\ UNCHANGED <<choiceLeft, evalLeft>>
    \/ /\ setup.learned /\ kind # "hunt_air" /\ ~InForce
       /\ \/ /\ choice \in {"attack", "attack_base", "contain"} /\ Losing(f)
             /\ choice' = Nil /\ choiceLeft' = 0 /\ retreat' = Retreat
             /\ order' = "retreat" /\ pushing' = push /\ UNCHANGED evalLeft
          \/ /\ ~(choice \in {"attack", "attack_base", "contain"} /\ Losing(f))
             /\ retreat' = left2
             /\ evalLeft' = IF evalLeft = 0 THEN Eval ELSE evalLeft
             /\ \/ /\ choice # Nil /\ choiceLeft > 0
                   /\ Take(choice, strung) /\ UNCHANGED <<choice, choiceLeft>>
                \/ /\ choice = Nil \/ choiceLeft = 0 \/ evalLeft = 0   \* or no longer an option
                   /\ \/ evalLeft > 0 /\ Scripted /\ UNCHANGED <<choice, choiceLeft>>
                      \/ evalLeft = 0 /\ Scripted /\ choice' = Nil /\ UNCHANGED choiceLeft
                      \/ /\ evalLeft = 0
                         /\ \E o \in Options \ {OptionOf(kind)} :
                               choice' = o /\ choiceLeft' = Hold /\ Take(o, strung)

\* Tactics.tick as far as the main squad goes: no army, none left for it, or an order.
MainOrder ==
    /\ step = "tactics" /\ step' = "observe"
    /\ \/ /\ order' = "none" /\ pushing' \in {FALSE, pushing} /\ fight' = FALSE
          /\ UNCHANGED <<retreat, choice, choiceLeft, evalLeft>>
       \/ \E f \in Fight, massed, thin, strung, target, air \in BOOLEAN :
             LET push  == Push(massed, thin)
                 left2 == RetreatLeft(push, f)
                 apart == strung /\ ~f.contact
             IN  /\ ~(massed /\ thin)
                 /\ fight' = (f.contact /\ f.odds = "losing")
                 /\ Learnt(OrderKind(push, left2, apart, target, air), push, left2, f, apart)
    /\ UNCHANGED <<setup, crisis, strategy>>

StanceNext == Pauses \/ Passes \/ Crisis \/ Strategy \/ MainOrder

\* Every decision runs through the three components, and a paused game goes on.
StanceSpec == StanceInit /\ [][StanceNext]_stanceVars /\ WF_stanceVars(StanceNext) /\ SF_stanceVars(Passes)

-----------------------------------------------------------------------------
(* Properties                                                              *)

StanceTypeOK ==
    /\ step \in {"observe", "crisis", "strategy", "tactics"}
    /\ setup \in Setups /\ {early, override, pushing, fight} \subseteq BOOLEAN
    /\ left \in -1..Defend /\ requests \in [Requests -> Int]
    /\ \A k \in Requests : requests[k] \in -1..Ttl[k]
    /\ current \in Templates \cup {Nil} /\ since \in 0..MinSwitch
    /\ weights \subseteq Templates /\ goal \subseteq Templates
    /\ opening \in {"none", "going", "done"} /\ stance \in {"hold", "defend", "attack"}
    /\ retreat \in 0..Retreat /\ choice \in Options \cup {Nil}
    /\ choiceLeft \in 0..Hold /\ evalLeft \in 0..Eval
    /\ order \in Options \cup {"none", "gather", "defend", "hunt_air"}

\* As long as the override is in force, the main squad is sent neither to attack
\* nor to contain, whatever stance the build, the retreat's clock and the learned
\* choice are left with, and at the frame in which the override ends (strategy
\* applies it before that frame, tactics still at it).
CrisisDefends == step = "observe" /\ InForce => order \notin {"attack", "gather", "contain"}

\* A push is never carried on into a fight that is being lost: the order is then to
\* retreat, unless the value model has chosen the attack in this very decision
\* (Tactics._main_order, LearnedTactics' early drop).
NoLosingPush ==
    step = "observe" /\ fight /\ order \in {"attack", "gather"} =>
        setup.learned /\ choice # Nil /\ choiceLeft = Hold

\* The opening is finished once and for all, whatever the selector switches to
\* later, and builds are mixed only after it (TemplateStrategy._switch, _apply).
OpeningFirst ==
    [][/\ opening = "done" => opening' = "done"
       /\ Cardinality(goal') > 1 => opening' = "done"]_stanceVars

\* When the threats are over, the override goes, and so does the request that
\* pulls workers (Crisis.tick, RequestQueue.expire).
CrisisEnds == <>[](threats = {}) => <>[](~override /\ ~Asked("pull"))

\* "a rush or proxy seen early -> a build tagged `rush_safe`", strategy.py:178-179,
\* of the build that the rules want for the threats Crisis has just named.
RushAnswered ==
    step = "tactics" /\ setup.selector = "rules" /\ early
      /\ threats \cap {"worker_rush", "early_rush", "cannon_rush", "proxy"} # {} => weights = {RushSafe}

\* "`select`: follow the best build", strategy.py:290-291: its goal is one build's.
SelectsOne == setup.selector = "select" => Cardinality(goal) <= 1
=============================================================================
