------------------------------- MODULE Micro -------------------------------
(* Combat micro: components/micro.py.                                        *)
(*                                                                           *)
(* Each decision gives every unit of the squad at most one command: from a   *)
(* list sorted by urgency and cut at MaxCmds, and no command that `last`     *)
(* remembers from too short a time ago.  What was sent may still be lost:    *)
(* the bus and the runner's APM trim come after.                             *)
(*                                                                           *)
(* The units stand together and the enemies at a distance from them.  Times  *)
(* are ages in decisions, up to the age from which nothing changes any more. *)
EXTENDS Integers, Sequences, SequencesExt, FiniteSetsExt

CONSTANTS
    Units, Enemies, None,
    Tank,                \* which unit is a siege tank
    HitsAir,             \* the units that can shoot at flyers
    Ranged,              \* the units that kite
    Flyers, Melee, Workers,  \* which enemies are that
    Volleys,             \* how many volleys an enemy takes
    Distances, OnTop, WeaponRange, Reach, Cannon,
    Repeat, KiteRepeat, UnsiegeAfter, MaxCmds

\* SquadOrder.kind, as told apart here, and whether its point is where the squad stands.
Orders == {"attack", "harass", "hold", "retreat"} \X {FALSE} \cup {"hold", "retreat"} \X {TRUE}

VARIABLES
    sieged,    \* the tank's mode
    last,      \* Micro.last: the command sent last and its age
    near,      \* Micro.enemy_near: its age
    doing,     \* what a unit does, as the game knows it
    leaves,    \* whether the last decision had no use for a sieged tank
    tank,      \* what the last decision told the tank: "nothing", "cut" by MaxCmds, "lost" later, "heard"
    even       \* the parity of the number of decisions, for fairness
vars == <<sieged, last, near, doing, leaves, tank, even>>

Older(age, limit) == Min({age + 1, limit})
----------------------------------------------------------------------------
(* A unit's command, if any, as a set. *)

AgainOnce(u, key, repeat) == last[u] = None \/ last[u].key /= key      \* mutant
Again(u, key, repeat) == last[u] = None \/ last[u].key /= key \/ last[u].age >= repeat
Cmd(u, urgency, key, repeat) ==
    IF Again(u, key, repeat) THEN {[unit |-> u, urgency |-> urgency, key |-> key]} ELSE {}

CanHit(u, e) == e \in Flyers => u \in HitsAir
InReach(u, d) == {e \in Enemies : d[e] <= Reach /\ CanHit(u, e)}

(* The best target that the volleys assigned so far do not kill, else the    *)
(* best of the rest.  picked[e] is how many volleys are assigned to e.       *)
Score(e, o, d) ==
    LET prio == IF e \notin Workers THEN 30 ELSE IF o = "harass" THEN 40 ELSE 15
    IN  (10 * prio) \div (Volleys[e] + 3) - (IF d[e] <= WeaponRange THEN 0 ELSE 10) - d[e]
Best(es, o, d) == CHOOSE e \in es : \A f \in es : Score(e, o, d) >= Score(f, o, d)
Pick(u, picked, o, d) ==
    LET open == {e \in InReach(u, d) : picked[e] < Volleys[e]}
    IN  Best(IF open /= {} THEN open ELSE InReach(u, d), o, d)

Ground(d, far) == {e \in Enemies \ Flyers : d[e] <= far}
Held(o, h) == h /\ o = "hold"
Age(o, d) == IF o /= "retreat" /\ Ground(d, Cannon) /= {} THEN 0 ELSE near

Siege(o, h, d) ==
    IF sieged THEN IF Age(o, d) >= UnsiegeAfter /\ ~Held(o, h) THEN Cmd(Tank, 30, "unsiege", Repeat) ELSE {}
    ELSE IF Ground(d, OnTop) = {} /\ (Ground(d, Cannon) /= {} \/ Held(o, h)) THEN Cmd(Tank, 40, "siege", Repeat)
    ELSE {}

Kite(u, cold, d) ==
    IF u \in Ranged /\ cold /\ \E e \in Melee \cap InReach(u, d) : d[e] <= OnTop
    THEN Cmd(u, 45, "kite", KiteRepeat) ELSE {}

Retreats(u, h) ==
    IF u = Tank /\ sieged THEN Cmd(u, 50, "unsiege", Repeat)
    ELSE IF h THEN {} ELSE Cmd(u, 50, "move", Repeat)
Walks(u, o, h) == IF Held(o, h) \/ doing[u] = "amove" THEN {} ELSE Cmd(u, 20, "amove", Repeat)
Attacks(u, target) == IF doing[u] = target THEN {} ELSE Cmd(u, 40, target, Repeat)

\* A step of tick's loop: s is [cmds, picked].
UnitTurn(s, u, o, h, cold, d) ==
    LET mode   == IF u = Tank THEN Siege(o, h, d) ELSE {}
        kite   == Kite(u, cold, d)
        target == Pick(u, s.picked, o, d)
        Add(cmd) == [s EXCEPT !.cmds = @ \o SetToSeq(cmd)]
    IN  CASE o = "retreat" -> Add(Retreats(u, h))
          [] o /= "retreat" /\ (mode /= {} \/ (u = Tank /\ sieged)) -> Add(mode)
          [] OTHER ->
               IF InReach(u, d) = {} THEN Add(Walks(u, o, h))
               ELSE IF kite /= {} THEN Add(kite)
               ELSE [cmds |-> s.cmds \o SetToSeq(Attacks(u, target)), picked |-> [s.picked EXCEPT ![target] = @ + 1]]

\* The MaxCmds most urgent, ties as they come.
Urgent(cmds) ==
    LET Before(i) == {j \in DOMAIN cmds : cmds[j].urgency > cmds[i].urgency \/ (cmds[j].urgency = cmds[i].urgency /\ j < i)}
    IN  {cmds[i] : i \in {k \in DOMAIN cmds : Cardinality(Before(k)) < MaxCmds}}

Collected(turn, o, h, cold, d) ==
    FoldLeft(LAMBDA s, u : UnitTurn(s, u, o, h, cold, d), [cmds |-> <<>>, picked |-> [e \in Enemies |-> 0]], turn).cmds
----------------------------------------------------------------------------
Init ==
    /\ sieged = FALSE /\ near = UnsiegeAfter
    /\ last = [u \in Units |-> None] /\ doing = [u \in Units |-> None]
    /\ leaves = FALSE /\ tank = "nothing" /\ even = TRUE

\* A decision with what the squads and the enemies are then: what is sent, and what it saw.
Decisions ==
    {[cmds |-> Collected(turn, p[1], p[2], cold, d), near |-> Age(p[1], d),
      leaves |-> p[1] = "retreat" \/ (Ground(d, Cannon) = {} /\ ~Held(p[1], p[2]))] :
        turn \in SetToSeqs(Units), d \in [Enemies -> Distances], p \in Orders, cold \in BOOLEAN}

Tick ==
    \E r \in Decisions, lost \in BOOLEAN :
        LET sent    == Urgent(r.cmds)
            Told(u) == \E c \in sent : c.unit = u
            Key(u)  == (CHOOSE c \in sent : c.unit = u).key
            cut     == \E i \in DOMAIN r.cmds : r.cmds[i].unit = Tank /\ r.cmds[i] \notin sent
        IN  /\ near' = Older(r.near, UnsiegeAfter)
            /\ last' = [u \in Units |->
                          IF Told(u) THEN [key |-> Key(u), age |-> 1]
                          ELSE IF last[u] = None THEN None ELSE [last[u] EXCEPT !.age = Older(@, Repeat)]]
            /\ doing' = [u \in Units |-> IF Told(u) /\ ~lost THEN Key(u) ELSE doing[u]]
            /\ leaves' = r.leaves
            /\ tank' = IF cut THEN "cut" ELSE IF ~Told(Tank) THEN "nothing" ELSE IF lost THEN "lost" ELSE "heard"
            /\ even' = ~even
            /\ UNCHANGED sieged

\* The game: the tank is in the mode it was told, if nothing came between; a unit is done.
Morphs ==
    /\ doing[Tank] = (IF sieged THEN "unsiege" ELSE "siege")
    /\ sieged' = ~sieged
    /\ doing' = [doing EXCEPT ![Tank] = None]
    /\ UNCHANGED <<last, near, leaves, tank, even>>

Idles(u) ==
    /\ doing[u] \notin {None, "siege", "unsiege"}
    /\ doing' = [doing EXCEPT ![u] = None]
    /\ UNCHANGED <<sieged, last, near, leaves, tank, even>>

Next == Tick \/ Morphs \/ (\E u \in Units : Idles(u))

\* Decisions go on, the game carries out what it was told, and of the commands for the
\* tank not all are lost.
Fairness ==
    /\ WF_vars(Morphs)
    /\ []<>even /\ []<>~even
    /\ []<>(tank = "lost") => []<>(tank = "heard")
Spec == Init /\ [][Next]_vars /\ Fairness

\* A tank that has no business where it is sieged, and whose commands the more urgent ones
\* of others leave room for, is mobile in the end, however many of its commands were lost
\* or too young on the way (micro.py:10-11 and 234-238).
TankFollows == <>[](leaves /\ tank /= "cut") => <>[]~sieged
============================================================================
