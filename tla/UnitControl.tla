---------------------------- MODULE UnitControl ----------------------------
(***************************************************************************)
(* Which component has which unit: perception's sync of the leases,        *)
(* tactics' squads, macro's builders, and the slots worker_defense,        *)
(* scouting, repair and micro, as they tick one after the other in every   *)
(* decision (adjutant/components, the lease half of Macro.tick).           *)
(*                                                                         *)
(* Arbiter shows what leases do whatever the components want; here is what *)
(* they want: each remembers its units from one decision to the next, and  *)
(* leases the others took in between make these memories stale.  A lease   *)
(* is known by its purpose, which fixes its owner and its priority.        *)
(* Distances, hit points and the fights that lead to a choice are left     *)
(* open: every choice they may lead to is possible.                        *)
(***************************************************************************)
EXTENDS Naturals, FiniteSets

CONSTANTS
    Workers, Soldiers,   \* ids of our units
    None,                \* no unit
    Timeout,             \* Scouting.timeout, in decisions
    Cooldown,            \* Scouting.rescout_every, in decisions
    MaxPull,             \* a request's count (a bound)
    MaxFaults            \* deaths and ticks that raise, in a game (a bound)

ASSUME UnitsAssumption ==
    /\ None \notin Workers \cup Soldiers /\ Workers \cap Soldiers = {}
    /\ IsFiniteSet(Workers \cup Soldiers)
ASSUME TimesAssumption == Timeout \in Nat /\ Cooldown \in Nat \ {0} /\ MaxPull \in Nat /\ MaxFaults \in Nat

Units  == Workers \cup Soldiers
Stages == <<"tactics", "macro", "worker_defense", "scouting", "rescout", "repair", "micro", "flush">>

VARIABLES
    stage,      \* the component whose turn it is
    faults,
    mine,       \* the completed units in the observation
    unborn,     \* those that are not completed yet
    lease,      \* UnitLeases._leases: a unit's purpose, or "free"
    squads,     \* bb.squads
    repairing,  \* Tactics.repairing
    builders,   \* the workers of Macro.jobs
    pulled,     \* WorkerDefense.pulled
    scout,      \* WorkerScout.worker_id
    scoutDone,  \* WorkerScout.done
    rescouter,  \* Scouting.unit_id
    clock,      \* decisions since it was sent, or until the next one may be
    scv,        \* Repair.scv
    broken      \* of macro and worker_defense, those whose last tick raised (a history variable)

memories == <<squads, repairing, builders, pulled, scout, scoutDone, rescouter, clock, scv>>
vars == <<stage, faults, mine, unborn, lease, memories, broken>>

\* Component.slot and the priority of a lease, by its purpose.
Owner(p) == CASE p = "build" -> "macro" [] p = "pull" -> "worker_defense"
              [] p \in {"scout", "rescout"} -> "scouting"
              [] p = "repair" -> "repair" [] p = "squad" -> "micro" [] OTHER -> "nobody"
LeasePrio(p) == CASE p = "build" -> 70 [] p = "pull" -> 100 [] p = "scout" -> 40
                  [] p = "rescout" -> 81 [] p = "repair" -> 50 [] p = "squad" -> 80 [] OTHER -> 0

Purposes == {"free", "build", "pull", "scout", "rescout", "repair", "squad"}
Kinds    == {"repair", "defense", "harass", "main"}

OwnerOf(u) == Owner(lease[u])
Owned(s)   == {u \in Units : OwnerOf(u) = s}

\* UnitLeases.lease for a purpose: may its slot have u?
CanLease(u, p) == OwnerOf(u) \in {"nobody", Owner(p)} \/ LeasePrio(lease[u]) < LeasePrio(p)

\* UnitLeases.hold: lease what can be had, give back what else the slot has.
Held(ids, p) == [u \in Units |->
    CASE u \in ids /\ CanLease(u, p) -> p
      [] u \notin ids /\ OwnerOf(u) = Owner(p) -> "free"
      [] OTHER -> lease[u]]

Freed(us, s) == [u \in Units |-> IF u \in us /\ OwnerOf(u) = s THEN "free" ELSE lease[u]]

InSquads  == UNION {squads[k] : k \in Kinds}
NoSquads  == [k \in Kinds |-> {}]

\* What the components start with; a profile may do without the worker scout.
TacticsInit == squads = NoSquads /\ repairing = {}
DefenseInit == pulled = {}
ScoutInit   == scout = None
ScoutingInit == ScoutInit /\ scoutDone \in BOOLEAN /\ rescouter = None /\ clock = 0
RepairInit  == scv = None

Init ==
    /\ stage = "sense" /\ faults = 0
    /\ mine = Workers /\ unborn = Soldiers
    /\ lease = [u \in Units |-> "free"]
    /\ builders = {} /\ broken = {}
    /\ TacticsInit /\ DefenseInit /\ ScoutingInit /\ RepairInit

-----------------------------------------------------------------------------
(* A decision: the game moves on, perception and the DECIDE phase          *)

Comes(s) == stage = s /\ stage' = Stages[1 + CHOOSE i \in 1..7 : Stages[i] = s]

\* Perception.tick: the units of the new observation, and UnitLeases.sync.
Sense ==
    /\ stage = "sense" /\ stage' = "tactics"
    /\ \E dead \in SUBSET mine, born \in SUBSET unborn :
          /\ faults' = faults + Cardinality(dead) /\ faults' <= MaxFaults
          /\ mine' = (mine \ dead) \cup born
          /\ unborn' = unborn \ born
    /\ lease' = [u \in Units |-> IF u \in mine' THEN lease[u] ELSE "free"]
    /\ UNCHANGED <<memories, broken>>

\* Tactics._available: the army that is free or the executor's.
AvailableLeased == {u \in mine \cap Soldiers : OwnerOf(u) = "micro"}   \* mutant
Available == {u \in mine \cap Soldiers : OwnerOf(u) \in {"nobody", "micro"}}

\* Tactics._repair_squad: hurt below repair_hp, until it is above repaired_hp.
RepairSquad(units, hurt, mended) ==
    IF mine \cap Workers = {} THEN {} ELSE ((repairing \cap units) \ mended) \cup hurt

\* Tactics._home_threat: is there one?
HomeThreats == BOOLEAN

\* Tactics._defense_squad: as many as are likely to win, at least one.
DefenseSquads(units) == (SUBSET units) \ {{}}

\* Tactics._harass_squad: some vultures, or none.
HarassSquads(units) == SUBSET units

\* Tactics.tick: the damaged go home, enough defend against a threat near home,
\* without one some may harass, and the rest is the main squad.
Tactics ==
    /\ Comes("tactics")
    /\ LET units == Available
       IN  \/ units = {} /\ squads' = NoSquads /\ UNCHANGED repairing
           \/ /\ units # {}
              /\ \E hurt \in SUBSET units, mended \in SUBSET units :
                    hurt \cap mended = {} /\ repairing' = RepairSquad(units, hurt, mended)
              /\ LET rest == units \ repairing'
                     Split(d, h) == [k \in Kinds |->
                         CASE k = "repair" -> repairing' [] k = "defense" -> d
                           [] k = "harass" -> h [] OTHER -> rest \ (d \cup h)]
                 IN  \E threat \in HomeThreats :
                        \/ threat /\ \E d \in DefenseSquads(rest) : squads' = Split(d, {})
                        \/ threat /\ rest = {} /\ squads' = Split({}, {})
                        \/ ~threat /\ \E h \in HarassSquads(rest) : squads' = Split({}, h)
    /\ UNCHANGED <<faults, mine, unborn, lease, builders, pulled, scout, scoutDone,
                   rescouter, clock, scv, broken>>

-----------------------------------------------------------------------------
(* The ACT phase                                                           *)

\* Macro._pick: a worker that is free or macro's and builds for no job.
Pickable == {w \in mine \cap Workers : OwnerOf(w) \in {"nobody", "macro"}} \ builders

\* Macro.tick's part in the leases: jobs end, keep their builder while it is
\* theirs or take another, new ones claim one; then hold, and the pool gives
\* orders to the workers that are left.
Macro ==
    /\ Comes("macro")
    /\ \E over \in SUBSET builders, claimed \in SUBSET Pickable :
          LET kept == {w \in builders \ over : w \in mine /\ OwnerOf(w) \in {"nobody", "macro"}}
          IN  builders' = kept \cup claimed
    /\ lease' = Held(builders', "build") /\ broken' = broken \ {"macro"}
    /\ UNCHANGED <<faults, mine, unborn, squads, repairing, pulled, scout, scoutDone,
                   rescouter, clock, scv>>

\* WorkerDefense.tick: without a request everybody goes back.  Else the pulled
\* are those still alive and well, filled up or cut down to the number asked for,
\* never with a builder or a scout of somebody else.
SparedNone(w) == FALSE                                                 \* mutant
Spared(w) == lease[w] \in {"build", "scout"}

WorkerDefense ==
    /\ Comes("worker_defense")
    /\ \E want \in 0..MaxPull :                       \* 0: no request
          LET here == mine \cap Workers
          IN \E weak \in SUBSET here :
               LET well == (pulled \cap here) \ weak
                   fit  == {w \in here \ weak : w \notin well /\ ~Spared(w)}
                   n    == Cardinality(well)
               IN IF want = 0 THEN pulled' = {}
                  ELSE \E kept \in SUBSET well, more \in SUBSET fit :
                         /\ Cardinality(kept) = IF n > want THEN want ELSE n
                         /\ n >= want => more = {}
                         /\ n < want => Cardinality(more) =
                               IF Cardinality(fit) < want - n THEN Cardinality(fit) ELSE want - n
                         /\ pulled' = kept \cup more
    /\ lease' = Held(pulled', "pull") /\ broken' = broken \ {"worker_defense"}
    /\ UNCHANGED <<faults, mine, unborn, squads, repairing, builders, scout, scoutDone,
                   rescouter, clock, scv>>

FreeWorkers == {w \in mine \cap Workers : lease[w] = "free"}

\* WorkerScout.update: send a free worker, once there are enough; forget it when
\* it is dead or somebody else's; give it back, for good, when it is threatened or
\* has seen everything.
ScoutThere == scout \in mine /\ OwnerOf(scout) = "scouting"

SendScout ==
    /\ scout = None
    /\ \E w \in FreeWorkers : scout' = w /\ lease' = [lease EXCEPT ![w] = "scout"]
    /\ UNCHANGED scoutDone
ForgetScout ==
    /\ scout # None /\ ~ScoutThere /\ scout' = None
    /\ UNCHANGED <<scoutDone, lease>>
WalkScout ==
    /\ scout # None /\ ScoutThere
    /\ UNCHANGED <<scout, scoutDone, lease>>
FinishScout ==
    /\ scout = None \/ ScoutThere
    /\ scoutDone' = TRUE /\ scout' = None /\ lease' = Freed({scout}, "scouting")
NoScout == (scoutDone \/ scout = None) /\ UNCHANGED <<scout, scoutDone, lease>>

WorkerScout ==
    /\ Comes("scouting")
    /\ \/ ~scoutDone /\ (SendScout \/ ForgetScout \/ WalkScout \/ FinishScout)
       \/ NoScout
    /\ UNCHANGED <<faults, mine, unborn, squads, repairing, builders, pulled,
                   rescouter, clock, scv, broken>>

\* Scouting._takeable.
Takeable(u) ==
    \/ lease[u] = "free"
    \/ lease[u] = "squad" /\ u \notin squads["defense"]

\* Scouting._pick_unit.
Choice == {u \in mine \cap Soldiers : Takeable(u)}

\* Scouting._rescout and _release, in the same tick: a unit that is out comes back
\* when it has arrived, is threatened, lost, or out for too long.
Overdue == clock > Timeout

EndRescout ==
    /\ rescouter # None /\ rescouter' = None
    /\ lease' = Freed({rescouter}, "scouting")
    /\ clock' = IF rescouter \in mine THEN Cooldown ELSE 2 * Cooldown
WalkRescout ==
    /\ rescouter \in mine /\ ~Overdue
    /\ clock' = clock + 1
    /\ UNCHANGED <<rescouter, lease>>
SendRescout ==
    /\ rescouter = None /\ clock = 0
    /\ \E u \in Choice : rescouter' = u /\ lease' = [lease EXCEPT ![u] = "rescout"]
    /\ UNCHANGED clock
NoRescout ==
    /\ rescouter = None \/ ~scoutDone
    /\ clock' = IF clock > 0 /\ rescouter = None THEN clock - 1 ELSE clock
    /\ UNCHANGED <<rescouter, lease>>

Rescout ==
    /\ Comes("rescout")
    /\ \/ scoutDone /\ (EndRescout \/ WalkRescout \/ SendRescout)
       \/ NoRescout
    /\ UNCHANGED <<faults, mine, unborn, squads, repairing, builders, pulled, scout,
                   scoutDone, scv, broken>>

\* Repair._target: is anything in need of repair near our bases?
HurtTargets == BOOLEAN

\* Repair.tick: let go of an SCV that is dead, leased by somebody else, without a
\* target or busy otherwise; take a free one for the target.
KeepsScv == scv \in mine /\ OwnerOf(scv) \in {"nobody", "repair"}

Repair ==
    /\ Comes("repair")
    /\ \E target \in HurtTargets, busy \in BOOLEAN :
       LET kept  == target /\ KeepsScv /\ ~busy
           ls    == IF kept THEN lease ELSE Freed({scv}, "repair")
           found == {w \in mine \cap Workers : ls[w] = "free"}
       IN  \/ kept /\ UNCHANGED <<scv, lease>>
           \/ ~kept /\ scv' = None /\ lease' = ls     \* no target, or nobody is free
           \/ /\ ~kept /\ target
              /\ \E w \in found : scv' = w /\ lease' = [ls EXCEPT ![w] = "repair"]
    /\ UNCHANGED <<faults, mine, unborn, squads, repairing, builders, pulled, scout,
                   scoutDone, rescouter, clock, broken>>

\* Micro.tick: hold exactly the squads, and command whoever of them is there.
Micro ==
    /\ Comes("micro")
    /\ lease' = Held(InSquads, "squad")
    /\ UNCHANGED <<faults, mine, unborn, memories, broken>>

\* CommandBus.flush, and the next decision.
Flush == stage = "flush" /\ stage' = "sense" /\ UNCHANGED <<faults, mine, unborn, lease, memories, broken>>

-----------------------------------------------------------------------------
(* Scheduler.run: a tick that raises is caught; what it did before stays   *)

Caught == faults < MaxFaults /\ faults' = faults + 1 /\ UNCHANGED <<mine, unborn>>

\* Tactics.tick, before it has new squads.
TacticsRaises ==
    /\ Comes("tactics") /\ Caught
    /\ \E hurt \in SUBSET Available, mended \in SUBSET Available :
          /\ hurt \cap mended = {}
          /\ repairing' \in {repairing, RepairSquad(Available, hurt, mended), (repairing \ mended) \cup hurt}
    /\ UNCHANGED <<lease, squads, builders, pulled, scout, scoutDone, rescouter, clock, scv, broken>>

\* Macro.tick, before its hold: jobs may be over, their builders let go and cancelled ones
\* given back, and others claimed.
MacroRaises ==
    /\ Comes("macro") /\ Caught
    /\ \E over \in SUBSET builders, claimed \in SUBSET Pickable :
       \E back \in SUBSET over, leased \in SUBSET claimed :
          /\ builders' = (builders \ over) \cup claimed
          /\ lease' = [u \in Units |-> IF u \in leased THEN "build" ELSE Freed(back, "macro")[u]]
    /\ broken' = broken \cup {"macro"}
    /\ UNCHANGED <<squads, repairing, pulled, scout, scoutDone, rescouter, clock, scv>>

\* WorkerDefense.tick, before its hold: some of the pulled let off, or others chosen.
DefenseRaises ==
    /\ Comes("worker_defense") /\ Caught
    /\ \E off \in SUBSET pulled, more \in SUBSET {w \in (mine \cap Workers) \ pulled : ~Spared(w)} :
          /\ pulled' = (pulled \ off) \cup more
          /\ more # {} => pulled' \subseteq mine /\ Cardinality(pulled') <= MaxPull
    /\ broken' = broken \cup {"worker_defense"}
    /\ UNCHANGED <<lease, squads, repairing, builders, scout, scoutDone, rescouter, clock, scv>>

\* The others lease and remember in one go: what they do before they raise is nothing, or
\* what their ticks do that end.  (WorkerScout and Rescout are one tick.)
OtherRaises ==
    /\ \/ stage \in {"rescout", "repair", "micro"} /\ Comes(stage)
       \/ stage = "scouting" /\ stage' = "repair"
    /\ Caught /\ UNCHANGED <<lease, memories, broken>>

Raises == TacticsRaises \/ MacroRaises \/ DefenseRaises \/ OtherRaises

Next ==
    \/ Sense \/ Tactics \/ Macro \/ WorkerDefense \/ WorkerScout \/ Rescout \/ Repair \/ Micro
    \/ Flush \/ Raises

\* Scheduler.run goes through the components in every decision; no component here
\* has a period, so none is deferred.
Fairness == WF_vars(Next)
Spec == Init /\ [][Next]_vars /\ Fairness

-----------------------------------------------------------------------------
(* Properties                                                              *)

TypeOK ==
    /\ stage \in {"sense"} \cup {Stages[i] : i \in DOMAIN Stages}
    /\ faults \in 0..MaxFaults /\ mine \subseteq Units /\ unborn \subseteq Soldiers \ mine
    /\ lease \in [Units -> Purposes]
    /\ squads \in [Kinds -> SUBSET Soldiers] /\ repairing \subseteq Soldiers
    /\ builders \cup pulled \subseteq Workers /\ scv \in Workers \cup {None}
    /\ scout \in Workers \cup {None} /\ scoutDone \in BOOLEAN
    /\ rescouter \in Soldiers \cup {None} /\ broken \subseteq {"macro", "worker_defense"}
    /\ clock \in 0..(IF Timeout < 2 * Cooldown THEN 2 * Cooldown ELSE Timeout + 1)

\* When a decision's commands go out, the leases are what the components
\* remember: every leased unit is remembered by the slot that leased it, which
\* will give it back, and every remembered unit is leased by that slot, but for
\* one the squads share with a re-scout (crisis.py, scouting.py, repair.py,
\* micro.py and Macro.tick against UnitLeases).
Remembered == [u \in Units |->
    CASE u \in builders -> "build" [] u \in pulled -> "pull"
      [] u = scout -> "scout"      [] u = rescouter -> "rescout"
      [] u = scv -> "repair"       [] u \in InSquads -> "squad" [] OTHER -> "free"]
MemoriesTrue == stage = "flush" => lease = Remembered

\* The half of it that a death and a lease lost in between do not break: a lease is never
\* forgotten by the slot that has to give it back (every component's release and hold
\* against its own memory).  A tick of macro or of worker_defense that raises before its
\* hold may forget one; the next that does not raise gives it back.  The squads are left
\* out, as tactics forms them before micro leases them.
LeasesRemembered ==
    \A u \in Units :
        /\ lease[u] = "build" /\ "macro" \notin broken => u \in builders
        /\ lease[u] = "pull" /\ "worker_defense" \notin broken => u \in pulled
        /\ lease[u] = "scout"   => u = scout
        /\ lease[u] = "rescout" => u = rescouter
        /\ lease[u] = "repair"  => u = scv

\* A worker that macro leased to build is taken by nobody else, whatever the crisis: its
\* lease ends in macro's own tick or with its death (WorkerDefense.tick's exception for
\* builders, UnitLeases.lease).  The one exception: worker_defense raised between choosing
\* a worker and leasing it, macro leased it in between, and the next tick, which asks only
\* those it adds whether they build, takes it.
BuildersStay ==
    [][\A w \in Workers : lease[w] = "build" /\ lease'[w] # "build" =>
          \/ stage = "macro" \/ w \notin mine'
          \/ stage = "worker_defense" /\ "worker_defense" \in broken /\ w \in pulled]_vars

\* A unit sent to re-scout comes back to the squads and to micro's lease, or
\* dies: the re-scout ends by itself, and neither it nor tactics nor micro lose
\* the unit on the way (Scouting._rescout's timeout, Tactics._available,
\* Micro.tick's hold).
RescoutReturns ==
    \A u \in Soldiers : rescouter = u ~> (lease[u] = "squad" \/ u \notin mine)

\* "one cheap unit ... is leased ... (taken from the squad pool, never from the
\* defense squad)", scouting.py:6-7.
RescoutSparesDefense ==
    [][\A u \in Soldiers : rescouter # u /\ rescouter' = u => u \notin squads["defense"]]_vars
=============================================================================
