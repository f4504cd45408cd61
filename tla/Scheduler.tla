----------------------------- MODULE Scheduler -----------------------------
(***************************************************************************)
(* The decision loop of the blackboard (blackboard/scheduler.py with the   *)
(* events of blackboard/board.py): which component ticks in a decision,    *)
(* which is passed over, which is put off, and when a fallback steps in.   *)
(*                                                                         *)
(* Slots are numbered in the order the components run (order_components).  *)
(* A component is known by the frames since its last tick, counted in      *)
(* steps of the period and no further than the longest one: all that       *)
(* Scheduler._due looks at.  Wall-clock time is left open: any tick may    *)
(* overrun its limit, and the decision's budget may be spent at any point. *)
(***************************************************************************)
EXTENDS Naturals, FiniteSets

CONSTANTS
    NSlots,       \* the number of slots
    Components,   \* the components and their fallbacks
    None,         \* no component
    First,        \* the component a slot starts with
    Fallback,     \* Component.fallback
    PhaseOf,      \* the phase of a slot (validate: its fallback's too)
    Period,       \* Component.period_frames
    Events,       \* board events
    Triggers,     \* Component.triggers
    MaxFailures,  \* Scheduler.max_failures
    MaxSlow,      \* Scheduler.max_slow
    MaxAge        \* frames are counted no further than this since a tick (a bound)

Slots  == 1..NSlots
Phases == {"SENSE", "DECIDE", "PLAN", "ACT", "REPORT"}
Deferrable == {"DECIDE", "PLAN", "REPORT"}
Never  == MaxAge + 1          \* the age of a component that has not ticked

ASSUME ConstantsAssumption ==
    /\ NSlots \in Nat \ {0} /\ None \notin Components
    /\ First \in [Slots -> Components]
    /\ Fallback \in [Components -> Components \cup {None}]
    /\ PhaseOf \in [Slots -> Phases]
    /\ Period \in [Components -> 0..MaxAge]
    /\ Triggers \in [Components -> SUBSET Events]
    /\ MaxAge \in Nat /\ MaxFailures \in Nat \ {0}
\* validate raises, before anything runs, unless a slot is filled once and a fallback
\* fills its component's.
SameSlot(home) ==
    /\ \A s \in Slots : home[First[s]] = s
    /\ \A x \in Components : Fallback[x] # None => home[Fallback[x]] = home[x]

\* build_component makes every component and its fallbacks anew, for one slot: a
\* component has a home, and comes at some rank in its slot's chain of fallbacks.
InChains(home, rank) ==
    /\ SameSlot(home)
    /\ \A x \in Components : Fallback[x] # None => rank[Fallback[x]] > rank[x]
ASSUME ChainsAssumption ==
    \E home \in [Components -> Slots], rank \in [Components -> 1..Cardinality(Components)] :
        InChains(home, rank)
\* A limit of one would have _replace look for a component it has replaced already.
ASSUME SlowAssumption == MaxSlow \in Nat \ {0, 1}

VARIABLES
    stage,    \* "start" in Scheduler.start, "idle" between decisions, "run" in Scheduler.run
    pos,      \* the slot whose turn it is
    comps,    \* Scheduler.components
    age,      \* bb.frame - _last_tick
    spent,    \* is the decision's time budget spent
    events,   \* Blackboard.events
    next,     \* Blackboard._next_events
    fails,    \* ComponentStats.consecutive_failures
    slow,     \* ComponentStats.slow
    turn,     \* what became of the slot's last turn
    owed,     \* the events raised since the slot's last turn
    failed,   \* how many times in a row a component has raised
    overran   \* how many times in a row a component has overrun its limit

code  == <<stage, pos, comps, age, spent, events, next, fails, slow>>
ghost == <<turn, owed, failed, overran>>
vars  == <<code, ghost>>

AtMost(n, bound) == IF n > bound THEN bound ELSE n
Inc(n, bound) == AtMost(n + 1, bound)
c == comps[pos]               \* the component whose turn it is

Init ==
    /\ stage = "start" /\ pos = 1
    /\ comps = First
    /\ age = [x \in Components |-> Never]
    /\ spent = FALSE
    /\ events = {} /\ next = {}
    /\ fails = [s \in Slots |-> 0] /\ slow = [s \in Slots |-> 0]
    /\ turn = [s \in Slots |-> "none"]
    /\ owed = [s \in Slots |-> {}]
    /\ failed = [x \in Components |-> 0] /\ overran = [x \in Components |-> 0]

-----------------------------------------------------------------------------
(* Failures and fallbacks                                                  *)

\* What _fail and _replace make of a slot's component and its two counters.
Seat == [comp : Components, fails : 0..MaxFailures, slow : 0..MaxSlow]
Replaced(seat) == [comp |-> Fallback[seat.comp], fails |-> 0, slow |-> 0]
HasFallback(x) == Fallback[x] # None

FailsLate(seat) ==                                                     \* mutant
    LET n == seat.fails + 1
    IN  IF n > MaxFailures /\ HasFallback(seat.comp)
        THEN Replaced(seat) ELSE [seat EXCEPT !.fails = AtMost(n, MaxFailures)]
Fails(seat) ==
    LET n == Inc(seat.fails, MaxFailures)
    IN  IF n >= MaxFailures /\ HasFallback(seat.comp)
        THEN Replaced(seat) ELSE [seat EXCEPT !.fails = n]

StaysFailed(seat) == seat                                              \* mutant
Succeeds(seat) == [seat EXCEPT !.fails = 0]

\* The time check after a tick of x: it looks at x's fallback, and at the
\* counter of the slot x may have lost a moment ago.
Overruns(seat, x) ==
    LET n == Inc(seat.slow, MaxSlow)
    IN  IF n >= MaxSlow /\ HasFallback(x) THEN Replaced(seat) ELSE [seat EXCEPT !.slow = n]
InTime(seat) == [seat EXCEPT !.slow = 0]

SeatOf(s) == [comp |-> comps[s], fails |-> fails[s], slow |-> slow[s]]
Reseat(s, seat) ==
    /\ comps' = [comps EXCEPT ![s] = seat.comp]
    /\ fails' = [fails EXCEPT ![s] = seat.fails]
    /\ slow'  = [slow EXCEPT ![s] = seat.slow]

-----------------------------------------------------------------------------
(* The game's start                                                        *)

Advance == IF pos = NSlots THEN stage' = "idle" /\ pos' = 1 ELSE pos' = pos + 1 /\ UNCHANGED stage

\* Scheduler.start calls on_start, which may raise.
OnStart ==
    /\ stage = "start"
    /\ \/ UNCHANGED <<comps, fails, slow, failed>>
       \/ /\ Reseat(pos, Fails(SeatOf(pos)))
          /\ failed' = [failed EXCEPT ![c] = Inc(@, MaxFailures)]
    /\ Advance
    /\ UNCHANGED <<age, spent, events, next, turn, owed, overran>>

-----------------------------------------------------------------------------
(* A decision                                                              *)

\* Blackboard.begin_decision's events.
EventsDropped == events' = {} /\ next' = {}                            \* mutant
EventsCarried == events' = next /\ next' = {}

\* begin_decision, d frames after the last one (none if the game is paused).
BeginDecision ==
    /\ stage = "idle" /\ stage' = "run"
    /\ EventsCarried
    /\ spent' = FALSE
    /\ \E d \in 0..MaxAge : age' = [x \in Components |->
          IF age[x] = Never THEN Never ELSE AtMost(age[x] + d, MaxAge)]
    /\ UNCHANGED <<pos, comps, fails, slow, ghost>>

\* Scheduler._due.
Due(x) ==
    \/ age[x] = Never
    \/ age[x] >= Period[x]
    \/ Triggers[x] \cap events # {}

\* When may the loop put x off?
MayDefer(s, x) == PhaseOf[s] \in Deferrable /\ Period[x] > 0 /\ age[x] # Never

\* The loop moves on; time passes.
TurnEnds(outcome, raised) ==
    /\ stage = "run"
    /\ Advance
    /\ turn' = [turn EXCEPT ![pos] = outcome]
    /\ owed' = [s \in Slots |-> IF s = pos THEN raised ELSE owed[s] \cup raised]

Skip ==
    /\ ~Due(c)
    /\ TurnEnds("skipped", {})
    /\ UNCHANGED <<comps, age, spent, events, next, fails, slow, failed, overran>>

\* The budget is found to be spent when the component's turn comes.
Defer ==
    /\ Due(c) /\ MayDefer(pos, c)
    /\ spent' = TRUE
    /\ TurnEnds("deferred", {})
    /\ UNCHANGED <<comps, age, events, next, fails, slow, failed, overran>>

\* The component ticks: it raises events, returns or fails, in time or not.
Tick(raised, fine, inTime) ==
    /\ Due(c) /\ (spent => ~MayDefer(pos, c))
    /\ events' = events \cup raised /\ next' = next \cup raised
    /\ LET seat == IF fine THEN Succeeds(SeatOf(pos)) ELSE Fails(SeatOf(pos))
       IN  Reseat(pos, IF inTime THEN InTime(seat) ELSE Overruns(seat, c))
    /\ age' = [age EXCEPT ![c] = 0]
    /\ failed'  = [failed EXCEPT ![c] = IF fine THEN 0 ELSE Inc(@, MaxFailures)]
    /\ overran' = [overran EXCEPT ![c] = IF inTime THEN 0 ELSE Inc(@, MaxSlow)]
    /\ TurnEnds("ticked", raised)
    /\ UNCHANGED spent

Next ==
    \/ OnStart
    \/ BeginDecision
    \/ Skip
    \/ Defer
    \/ \E raised \in SUBSET Events, fine, inTime \in BOOLEAN : Tick(raised, fine, inTime)

Spec == Init /\ [][Next]_vars

-----------------------------------------------------------------------------
(* Properties                                                              *)

\* Every variable has its type; no slot is ever left without a component.
TypeOK ==
    /\ stage \in {"start", "idle", "run"} /\ pos \in Slots /\ (stage = "idle" => pos = 1)
    /\ comps \in [Slots -> Components]
    /\ age \in [Components -> 0..Never] /\ spent \in BOOLEAN
    /\ events \subseteq Events /\ next \subseteq Events
    /\ fails \in [Slots -> 0..MaxFailures] /\ slow \in [Slots -> 0..MaxSlow]
    /\ turn \in [Slots -> {"none", "skipped", "deferred", "ticked"}]
    /\ owed \in [Slots -> SUBSET Events]
    /\ failed \in [Components -> 0..MaxFailures] /\ overran \in [Components -> 0..MaxSlow]

\* No trigger is lost on its way: an event raised since a component's last
\* turn, by a component before or after it and in this decision or the last
\* one, forces a tick or at least a deferral (raise_event, begin_decision, _due).
TriggersReach ==
    [][\A s \in Slots :
        stage = "run" /\ pos = s /\ turn'[s] = "skipped" => owed[s] \cap Triggers[comps[s]] = {}]_vars

\* A component with a fallback that has raised max_failures times in a row, or
\* overrun its limit max_slow times in a row, no longer fills its slot.
FaultyRetire ==
    \A s \in Slots : HasFallback(comps[s]) =>
        failed[comps[s]] < MaxFailures /\ overran[comps[s]] < MaxSlow

\* A component is replaced for its own failures or overruns only, by its own
\* fallback, and only if it was faulty as often, and in a row, as the limits say.
ReplacedForCause ==
    [][\A s \in Slots : comps'[s] # comps[s] =>
        /\ comps'[s] = Fallback[comps[s]]
        /\ failed'[comps[s]] = MaxFailures \/ overran'[comps[s]] = MaxSlow]_vars

\* A component's first turn is taken, a fallback's too, however late the
\* decision is (run's _last_tick test): no section stays unwritten.
FirstTurnsTaken ==
    [][\A s \in Slots :
        stage = "run" /\ pos = s /\ age[comps[s]] = Never => turn'[s] = "ticked"]_vars

\* "periodic DECIDE/PLAN/REPORT components are deferred (they stay due)":
\* a deferred component is not passed over at its next turn.
DeferredStayDue ==
    [][\A s \in Slots :
        stage = "run" /\ pos = s /\ turn[s] = "deferred" => turn'[s] # "skipped"]_vars
=============================================================================
