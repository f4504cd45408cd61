------------------------------- MODULE Belief -------------------------------
(***************************************************************************)
(* What the bot believes of the enemy: Perception (perception.py), the fog *)
(* memory (enemy.py: FogMemory) and ScriptedBelief (belief.py), against    *)
(* the enemy as it really is.  Two memories of the enemy's units are kept  *)
(* by different code: FogMemory.seen and ScriptedBelief.tracks.            *)
(*                                                                         *)
(* A site stands for a tile and what is built around it: every start       *)
(* location is one, the others are expansions.  Counts, tech, army         *)
(* position and the classification of the opening are left out.            *)
(***************************************************************************)
EXTENDS Integers, Sequences, FiniteSets, Functions

CONSTANTS
    Units,        \* the enemy's units, by id
    Sites,
    StartOrder,   \* the start locations but ours, sorted
    FullInfo,     \* CompleteMapInformation: the game also tells of what we cannot see
    MaxChanges    \* changes on the enemy's side (a bound)

Starts == {StartOrder[i] : i \in DOMAIN StartOrder}
VARIABLES
    world,        \* the enemy's units as they are
    home, hall,   \* where the enemy started, and its first depot
    steady,       \* has the first depot stayed, and no other stood at a start?
    changes,
    lost,         \* UnitDestroy events of the next observation
    witnessed,    \* those of units that died in sight
    vis,          \* the sites in sight at the last decision
    seen, guess,  \* FogMemory.seen, enemy_start
    tracks,       \* ScriptedBelief.tracks
    candidates,   \* the starts not ruled out
    alive,        \* enemy_bases: alive or not, at the sites where one was found
    met, raised   \* Perception._enemy_seen; the events of the decision

enemy   == <<world, home, hall, steady, changes, lost, witnessed>>
beliefs == <<vis, seen, guess, tracks, candidates, alive, met, raised>>
vars    == <<enemy, beliefs>>

Kinds    == {"depot", "building", "mobile"}
Thing    == [kind : Kinds, at : Sites]
Building(t) == t.kind # "mobile"
Depots(mem) == {mem[u].at : u \in {v \in DOMAIN mem : mem[v].kind = "depot"}}
Without(mem, S) == Restrict(mem, DOMAIN mem \ S)

\* enemy_start: a start location, or the tile of a depot - never the same tile.
Start(s) == <<"start", s>>
Depot(s) == <<"depot", s>>

Init ==
    /\ home \in Starts /\ hall \in Units
    /\ world = [u \in {hall} |-> [kind |-> "depot", at |-> home]]
    /\ steady = TRUE /\ changes = 0 /\ lost = {} /\ witnessed = {} /\ vis = {}
    /\ seen = <<>> /\ tracks = <<>> /\ alive = <<>>
    /\ \E s \in Starts : guess = Start(s)
    /\ candidates = Starts /\ met = FALSE /\ raised = {}

-----------------------------------------------------------------------------
(* The enemy, between two decisions                                        *)

Changes(w) ==
    /\ changes < MaxChanges /\ changes' = changes + 1
    /\ world' = w
    /\ steady' = (steady /\ Depots(w) \cap Starts = {home} /\ hall \in DOMAIN w /\ w[hall] = world[hall])
    /\ UNCHANGED <<home, hall, beliefs>>

\* Ids are not used twice: a new unit is one that no memory and no event names.
Appears(u, t) ==
    /\ u \notin DOMAIN world \cup DOMAIN tracks \cup DOMAIN seen \cup lost
    /\ Changes([v \in DOMAIN world \cup {u} |-> IF v = u THEN t ELSE world[v]])
    /\ UNCHANGED <<lost, witnessed>>

\* Units walk, Terran buildings fly, drones become buildings.
Turns(u, t) ==
    /\ u \in DOMAIN world /\ t # world[u] /\ (Building(world[u]) => t.kind = world[u].kind)
    /\ Changes([world EXCEPT ![u] = t])
    /\ UNCHANGED <<lost, witnessed>>

\* The game reports the death of a unit in sight; under FullInfo of any unit.
Dies(u, sight) ==
    /\ u \in DOMAIN world
    /\ Changes(Without(world, {u}))
    /\ lost' = IF sight \/ FullInfo THEN lost \cup {u} ELSE lost
    /\ witnessed' = IF sight THEN witnessed \cup {u} ELSE witnessed

-----------------------------------------------------------------------------
(* A decision                                                              *)

\* Perception.fog_filter: only what we see, whatever the game tells.
Shown(V) == Restrict(world, {u \in DOMAIN world : world[u].at \in V})

\* FogMemory.update
Update(V, shown) ==
    LET kept == Without(seen, lost)
        told == [u \in DOMAIN kept \cup DOMAIN shown |-> IF u \in DOMAIN shown THEN shown[u] ELSE kept[u]]
        gone == {u \in DOMAIN told \ DOMAIN shown : Building(told[u]) /\ told[u].at \in V}
    IN  Without(told, gone)

\* The depot that comes last in the observation is the enemy's start.
Guesses(shown) == IF Depots(shown) = {} THEN {guess} ELSE {Depot(s) : s \in Depots(shown)}

\* ScriptedBelief.tick: kills, sightings, and buildings that are not where they were.
Track(V, shown) ==
    LET known == [u \in (DOMAIN tracks \ lost) \cup DOMAIN shown |->
                     IF u \in DOMAIN shown THEN shown[u] ELSE tracks[u]]
    IN  Restrict(known, {u \in DOMAIN known :
            u \in DOMAIN shown \/ ~Building(known[u]) \/ known[u].at \notin V})

BasesForget(V, mem) ==                                                \* mutant
    LET known == DOMAIN alive \cup Depots(mem)
    IN  [s \in known |-> s \in Depots(mem) \/ alive[s]]
\* _bases: a depot owns its base, a base in sight without one is not alive.
Bases(V, mem) ==
    LET known == DOMAIN alive \cup Depots(mem)
    IN  [s \in known |-> s \in Depots(mem) \/ (s \notin V /\ alive[s])]

Empty(V, mem) == {s \in candidates \cap V : \A u \in DOMAIN mem : Building(mem[u]) => mem[u].at # s}
NarrowedBefore(V, mem) ==                                             \* mutant
    IF Empty(V, tracks) = candidates THEN {{s} : s \in candidates}
    ELSE {candidates \ Empty(V, tracks)}
\* _starts: a depot at a start settles it; else starts in sight without a building
\* are ruled out one by one, in any order, the last never.
Narrowed(V, mem) ==
    IF Depots(mem) \cap Starts # {}
    THEN {{s} : s \in Depots(mem) \cap Starts}
    ELSE IF Empty(V, mem) = candidates THEN {{s} : s \in candidates}
         ELSE {candidates \ Empty(V, mem)}

\* Until a depot is known the fog memory's guess is a live candidate.
First(C) == StartOrder[CHOOSE i \in DOMAIN StartOrder :
                StartOrder[i] \in C /\ \A j \in 1 .. i - 1 : StartOrder[j] \notin C]
Corrected(g, C) == IF g \in {Start(s) : s \in C} THEN g ELSE Start(First(C))

Living(b) == Cardinality({s \in DOMAIN b : b[s]})

Tick(V) ==
    LET shown == Shown(V)
    IN  /\ vis' = V
        /\ seen' = Update(V, shown)
        /\ tracks' = Track(V, shown)
        /\ alive' = Bases(V, tracks')
        /\ candidates' \in Narrowed(V, tracks')
        /\ \E g \in Guesses(shown) :
              guess' = IF Depots(seen') = {} THEN Corrected(g, candidates') ELSE g
        /\ met' = (met \/ shown # <<>>)
        /\ raised' = {e \in {"enemy_seen", "enemy_base_found", "enemy_expanded"} :
              CASE e = "enemy_seen"       -> met' /\ ~met
                [] e = "enemy_base_found" -> guess' # guess /\ Depots(seen') # {}
                [] e = "enemy_expanded"   -> Living(alive') > Living(alive) /\ Living(alive) >= 1}
        /\ lost' = {} /\ witnessed' = {}
        /\ UNCHANGED <<world, home, hall, steady, changes>>

\* Belief.enemy_start as the other components read it.
EnemyStart == IF Cardinality(candidates) = 1 THEN {Start(s) : s \in candidates} ELSE {guess}

Next ==
    \/ \E u \in Units, t \in Thing : Appears(u, t) \/ Turns(u, t)
    \/ \E u \in Units, b \in BOOLEAN : Dies(u, b)
    \/ \E V \in SUBSET Sites : Tick(V)

\* Every start location is seen again and again.  The worker scout does not see to
\* that, as it stops for good once it is threatened (scouting.py:98-100); the re-scouts
\* and the army do, as long as the bot has either.
Fairness == \A s \in Starts : []<>(s \in vis)
Spec == Init /\ [][Next]_vars /\ Fairness

-----------------------------------------------------------------------------
\* The memories hold units where units can be, and a start is always left to believe in.
TypeOK ==
    /\ DOMAIN tracks \subseteq Units /\ Range(tracks) \subseteq Thing /\ Range(alive) \subseteq BOOLEAN
    /\ candidates \in (SUBSET Starts) \ {{}} /\ witnessed \subseteq lost
    /\ EnemyStart \subseteq ({"start"} \X Starts) \cup ({"depot"} \X Sites)

\* The two memories of the enemy, kept by FogMemory.update and by ScriptedBelief.tick,
\* hold the same units at the same places.
MemoriesAgree == seen = tracks

\* A decision leaves nothing false in sight: the buildings believed to stand at a site in
\* sight stand there, those that stand there are known, and a base is alive exactly there.
BuildingsIn(mem, V) == {u \in DOMAIN mem : Building(mem[u]) /\ mem[u].at \in V}
TrueInSight ==
    [][world' = world =>
         /\ Restrict(tracks', BuildingsIn(tracks', vis')) = Restrict(world, BuildingsIn(world, vis'))
         /\ \A s \in DOMAIN alive' \cap vis' : alive'[s] = (s \in Depots(world))]_vars

\* While the enemy's first depot stands and none of another start has been its, the
\* start it stands at is never ruled out.
HomeNotRuledOut == steady => home \in candidates

\* Then, since every start is looked at again and again, it is found.
HomeFound == []steady => <>(candidates = {home})

\* The fog filter hides what a normal game would not show (truth.py: "so no component can
\* cheat by accident"): a unit is forgotten only because its death, or its absence, was seen.
NoPeeking ==
    [][\A u \in DOMAIN tracks \ DOMAIN tracks' :
         u \in witnessed \/ (Building(tracks[u]) /\ tracks[u].at \in vis')]_vars
=============================================================================
