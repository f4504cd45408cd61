--------------------------- MODULE AdjutantProofs ---------------------------
(***************************************************************************)
(* The adjutant's components, for any units, sites, builds and times, and  *)
(* for games of any length: the leases (UnitControl), what is believed of  *)
(* the enemy (Belief, as an instance of Adjutant), and how the bot makes   *)
(* up its mind (Stance).                                                   *)
(*                                                                         *)
(* BuildersStay is about one step, of worker_defense, scouting, repair or  *)
(* micro; what it needs of the state before is that a worker remembered as *)
(* pulled is leased as pulled, unless the tick that pulled it raised       *)
(* (PullTrue), as worker_defense asks only the others whether they build.  *)
(* LeasesRemembered needs in turn that a scout with a lease is alive       *)
(* (ScoutAlive), or scouting would forget it.                              *)
(*                                                                         *)
(* Of Belief the one assumption is on the map: its start locations are     *)
(* sites, and they come in some order.                                     *)
(*                                                                         *)
(* StanceTypeOK says what the four clocks and the learned choice may hold, *)
(* and is inductive but for the step of the strategy slot, which first     *)
(* needs that no choice leaves the slot without a build.  CrisisDefends is *)
(* established anew by every tick of Tactics.  NoLosingPush too, but only  *)
(* from StanceTypeOK: a retreat that starts anew must last for at least    *)
(* one decision, and a choice that is kept must be an option.              *)
(***************************************************************************)
EXTENDS Adjutant, Stance, FiniteSetTheorems, TLAPS

-----------------------------------------------------------------------------
(* UnitControl: what it needs of the state                                 *)

PullTrue   == "worker_defense" \notin broken => \A w \in pulled \cap mine : lease[w] = "pull"
ScoutAlive == \A w \in Units : lease[w] = "scout" => w \in mine
IInv       == TypeOK /\ PullTrue /\ LeasesRemembered /\ ScoutAlive

-----------------------------------------------------------------------------
(* What the helpers return                                                 *)

\* A purpose names its owner.
LEMMA Owners ==
    /\ Owner("free") = "nobody" /\ Owner("build") = "macro" /\ Owner("pull") = "worker_defense"
    /\ Owner("scout") = "scouting" /\ Owner("rescout") = "scouting"
    /\ Owner("repair") = "repair" /\ Owner("squad") = "micro"
  BY DEF Owner

\* UnitLeases.hold: nobody else has what was held before, and a lease is changed
\* only for a unit that is held or was the slot's.
LEMMA HeldFacts ==
    ASSUME lease \in [Units -> Purposes], NEW p \in {"build", "pull", "squad"}, NEW ids \in SUBSET Units
    PROVE  /\ Held(ids, p) \in [Units -> Purposes]
           /\ \A u \in Units : Held(ids, p)[u] \in {p, "free", lease[u]}
           /\ \A u \in Units : Held(ids, p)[u] = p => u \in ids
           /\ \A u \in Units : u \notin ids /\ lease[u] # p => Held(ids, p)[u] = lease[u]
           /\ \A u \in Units : u \in ids /\ CanLease(u, p) => Held(ids, p)[u] = p
           /\ \A u \in Units : u \in ids /\ ~CanLease(u, p) => Held(ids, p)[u] = lease[u]
<1>1. \A u \in Units : OwnerOf(u) = Owner(p) <=> lease[u] = p
  <2> TAKE u \in Units
  <2>1. lease[u] \in Purposes
    OBVIOUS
  <2> QED
    BY <2>1, Owners DEF OwnerOf, Purposes
<1>2. Held(ids, p) = [u \in Units |-> CASE u \in ids /\ CanLease(u, p) -> p
                        [] u \notin ids /\ lease[u] = p -> "free" [] OTHER -> lease[u]]
  BY <1>1 DEF Held
<1>3. p \in Purposes /\ "free" \in Purposes /\ p # "free"
  BY DEF Purposes
<1> QED
  BY <1>2, <1>3

\* UnitLeases.release.
LEMMA FreedFacts ==
    ASSUME lease \in [Units -> Purposes], NEW s \in {"macro", "scouting", "repair"}, NEW us
    PROVE  /\ Freed(us, s) \in [Units -> Purposes]
           /\ \A u \in Units : Freed(us, s)[u] \in {"free", lease[u]}
           /\ \A u \in Units : u \notin us \/ OwnerOf(u) # s => Freed(us, s)[u] = lease[u]
           /\ \A u \in Units : u \in us /\ OwnerOf(u) = s => Freed(us, s)[u] = "free"
  BY DEF Freed, Purposes

-----------------------------------------------------------------------------
(* Each component's tick                                                   *)

LEMMA InitInvariant == Init => IInv
<1> SUFFICES ASSUME Init PROVE IInv
  OBVIOUS
<1> USE UnitsAssumption, TimesAssumption DEF Init, TacticsInit, DefenseInit, ScoutingInit, ScoutInit, RepairInit
<1>1. TypeOK
  <2>1. clock \in 0..(IF Timeout < 2 * Cooldown THEN 2 * Cooldown ELSE Timeout + 1)
    OBVIOUS
  <2>2. faults \in 0..MaxFaults
    OBVIOUS
  <2>3. squads \in [Kinds -> SUBSET Soldiers]
    BY DEF NoSquads
  <2> QED
    BY <2>1, <2>2, <2>3 DEF TypeOK, Units, Purposes
<1>2. \A u \in Units : lease[u] = "free"
  OBVIOUS
<1> QED
  BY <1>1, <1>2 DEF IInv, PullTrue, LeasesRemembered, ScoutAlive

\* A component's turn is followed by another one's, and it is never perception's.
LEMMA StageValues ==
    /\ DOMAIN Stages = 1..8
    /\ {Stages[i] : i \in 1..7} =
          {"tactics", "macro", "worker_defense", "scouting", "rescout", "repair", "micro"}
    /\ Stages[1] = "tactics" /\ Stages[6] = "repair" /\ Stages[8] = "flush"
  BY DEF Stages

LEMMA Turns ==
    ASSUME NEW s \in {"tactics", "macro", "worker_defense", "scouting", "rescout", "repair", "micro"}
    PROVE  Stages[1 + CHOOSE i \in 1..7 : Stages[i] = s] \in {Stages[i] : i \in DOMAIN Stages}
<1> DEFINE n == CHOOSE i \in 1..7 : Stages[i] = s
<1>1. \E i \in 1..7 : Stages[i] = s
  BY StageValues
<1>2. n \in 1..7
  BY <1>1
<1> HIDE DEF n
<1>3. 1 + n \in DOMAIN Stages
  BY <1>2, StageValues
<1> QED
  BY <1>3 DEF n

\* BuildersStay for one step.
StayStep ==
    \A w \in Workers : lease[w] = "build" /\ lease'[w] # "build" =>
        \/ stage = "macro" \/ w \notin mine'
        \/ stage = "worker_defense" /\ "worker_defense" \in broken /\ w \in pulled

LEMMA SenseStep == IInv /\ Sense => IInv' /\ StayStep
<1> SUFFICES ASSUME IInv, Sense PROVE IInv' /\ StayStep
  OBVIOUS
<1> USE DEF IInv
<1>1. PICK dead \in SUBSET mine, born \in SUBSET unborn :
          /\ faults' = faults + Cardinality(dead) /\ faults' <= MaxFaults
          /\ mine' = (mine \ dead) \cup born /\ unborn' = unborn \ born
  BY DEF Sense
<1>2. faults' \in 0..MaxFaults
  <2>1. IsFiniteSet(dead)
    BY UnitsAssumption, FS_Subset DEF TypeOK, Units
  <2>2. Cardinality(dead) \in Nat
    BY <2>1, FS_CardinalityType
  <2> QED
    BY <1>1, <2>2, TimesAssumption DEF TypeOK
<1>3. mine' \subseteq Units /\ unborn' \subseteq Soldiers \ mine'
  BY <1>1 DEF TypeOK, Units
<1>4. lease' = [u \in Units |-> IF u \in mine' THEN lease[u] ELSE "free"]
  BY DEF Sense
<1>5. lease' \in [Units -> Purposes]
  BY <1>4 DEF TypeOK, Purposes
<1>6. TypeOK'
  <2>1. stage' \in {Stages[i] : i \in DOMAIN Stages}
    BY StageValues DEF Sense
  <2> QED
    BY <1>2, <1>3, <1>5, <2>1 DEF TypeOK, Sense, memories
<1>7. \A w \in pulled : w \in mine' => w \in mine
  BY <1>1, UnitsAssumption DEF TypeOK
<1>8. PullTrue' /\ LeasesRemembered' /\ ScoutAlive'
  BY <1>3, <1>4, <1>7 DEF PullTrue, LeasesRemembered, ScoutAlive, Sense, memories, TypeOK
<1>9. StayStep
  BY <1>4 DEF StayStep, Units
<1> QED
  BY <1>6, <1>8, <1>9

LEMMA TacticsStep == IInv /\ Tactics => IInv' /\ StayStep
<1> SUFFICES ASSUME IInv, Tactics PROVE IInv' /\ StayStep
  OBVIOUS
<1> USE DEF IInv
<1>1. stage' \in {Stages[i] : i \in DOMAIN Stages}
  BY Turns DEF Tactics, Comes
<1>2. Available \subseteq Soldiers
  BY DEF Available
<1>3. squads' \in [Kinds -> SUBSET Soldiers] /\ repairing' \subseteq Soldiers
  <2>1. CASE Available = {} /\ squads' = NoSquads /\ UNCHANGED repairing
    BY <2>1 DEF NoSquads, TypeOK
  <2>2. CASE Available # {}
    <3>1. PICK hurt \in SUBSET Available, mended \in SUBSET Available : repairing' = RepairSquad(Available, hurt, mended)
      BY <2>2 DEF Tactics
    <3>2. repairing' \subseteq Soldiers
      BY <1>2, <3>1 DEF RepairSquad, TypeOK
    <3> DEFINE rest == Available \ repairing'
               Split(d, h) == [k \in Kinds |->
                         CASE k = "repair" -> repairing' [] k = "defense" -> d
                           [] k = "harass" -> h [] OTHER -> rest \ (d \cup h)]
    <3>3. \E d, h \in SUBSET rest : squads' = Split(d, h)
      <4>1. {} \in SUBSET rest
        OBVIOUS
      <4> QED
        BY <2>2, <4>1 DEF Tactics, DefenseSquads, HarassSquads
    <3>4. \A d, h \in SUBSET rest : Split(d, h) \in [Kinds -> SUBSET Soldiers]
      BY <1>2, <3>2
    <3> QED
      BY <3>2, <3>3, <3>4
  <2> QED
    BY <2>1, <2>2 DEF Tactics
<1>4. TypeOK'
  BY <1>1, <1>3 DEF TypeOK, Tactics
<1> QED
  BY <1>4 DEF Tactics, PullTrue, LeasesRemembered, ScoutAlive, StayStep

LEMMA MacroStep == IInv /\ Macro => IInv' /\ StayStep
<1> SUFFICES ASSUME IInv, Macro PROVE IInv' /\ StayStep
  OBVIOUS
<1> USE DEF IInv
<1>1. stage' \in {Stages[i] : i \in DOMAIN Stages}
  BY Turns DEF Macro, Comes
<1>2. builders' \subseteq Workers
  BY DEF Macro, Pickable, TypeOK
<1>3. lease' = Held(builders', "build") /\ builders' \in SUBSET Units
  BY <1>2 DEF Macro, Units
<1>4. lease \in [Units -> Purposes]
  BY DEF TypeOK
<1>5. /\ lease' \in [Units -> Purposes]
      /\ \A u \in Units : lease'[u] \in {"build", "free", lease[u]}
      /\ \A u \in Units : lease'[u] = "build" => u \in builders'
      /\ \A u \in Units : u \notin builders' /\ lease[u] # "build" => lease'[u] = lease[u]
      /\ \A u \in Units : u \in builders' /\ ~CanLease(u, "build") => lease'[u] = lease[u]
  BY <1>3, <1>4, HeldFacts
<1>6. TypeOK'
  BY <1>1, <1>2, <1>5 DEF TypeOK, Macro
<1>7. \A u \in Units : lease[u] = "pull" => ~CanLease(u, "build")
  BY Owners DEF CanLease, OwnerOf, LeasePrio
<1>8. PullTrue'
  BY <1>5, <1>7 DEF PullTrue, Macro, TypeOK, Units
<1>9. LeasesRemembered' /\ ScoutAlive'
  BY <1>5 DEF LeasesRemembered, ScoutAlive, Macro
<1>10. StayStep
  BY DEF StayStep, Macro, Comes
<1> QED
  BY <1>6, <1>8, <1>9, <1>10

LEMMA WorkerDefenseStep == IInv /\ WorkerDefense => IInv' /\ StayStep
<1> SUFFICES ASSUME IInv, WorkerDefense PROVE IInv' /\ StayStep
  OBVIOUS
<1> USE DEF IInv
<1>1. stage' \in {Stages[i] : i \in DOMAIN Stages}
  BY Turns DEF WorkerDefense, Comes
<1>2. \A w \in pulled' : w \in mine \cap Workers /\ (w \in pulled \/ ~Spared(w))
  BY DEF WorkerDefense
<1>3. lease' = Held(pulled', "pull") /\ pulled' \in SUBSET Units
  BY <1>2 DEF WorkerDefense, Units
<1>4. lease \in [Units -> Purposes]
  BY DEF TypeOK
<1>5. /\ lease' \in [Units -> Purposes]
      /\ \A u \in Units : lease'[u] \in {"pull", "free", lease[u]}
      /\ \A u \in Units : lease'[u] = "pull" => u \in pulled'
      /\ \A u \in Units : u \notin pulled' /\ lease[u] # "pull" => lease'[u] = lease[u]
      /\ \A u \in Units : u \in pulled' /\ CanLease(u, "pull") => lease'[u] = "pull"
  BY <1>3, <1>4, HeldFacts
<1>6. TypeOK'
  BY <1>1, <1>2, <1>5 DEF TypeOK, WorkerDefense
<1>7. \A u \in Units : CanLease(u, "pull")
  BY <1>4, Owners DEF CanLease, OwnerOf, LeasePrio, Purposes
<1>8. PullTrue'
  BY <1>3, <1>5, <1>7 DEF PullTrue
<1>9. LeasesRemembered' /\ ScoutAlive'
  BY <1>5 DEF LeasesRemembered, ScoutAlive, WorkerDefense
<1>10. \A w \in pulled' : lease[w] = "build" => "worker_defense" \in broken /\ w \in pulled
  BY <1>2 DEF PullTrue, Spared
<1>11. StayStep
  <2>1. stage = "worker_defense"
    BY DEF WorkerDefense, Comes
  <2> QED
    BY <1>5, <1>10, <2>1 DEF StayStep, Units
<1> QED
  BY <1>6, <1>8, <1>9, <1>11

LEMMA WorkerScoutStep == IInv /\ WorkerScout => IInv' /\ StayStep
<1> SUFFICES ASSUME IInv, WorkerScout PROVE IInv' /\ StayStep
  OBVIOUS
<1> USE DEF IInv
<1>1. stage' \in {Stages[i] : i \in DOMAIN Stages}
  BY Turns DEF WorkerScout, Comes
<1>2. lease \in [Units -> Purposes]
  BY DEF TypeOK
<1>3. /\ scout' \in Workers \cup {None} /\ scoutDone' \in BOOLEAN
      /\ lease' \in [Units -> Purposes]
      /\ \A u \in Units : lease'[u] # lease[u] =>
            \/ lease'[u] = "scout" /\ u = scout' /\ u \in mine /\ lease[u] = "free"
            \/ lease'[u] = "free" /\ OwnerOf(u) = "scouting"
      /\ \A u \in Units : lease'[u] = "scout" => u = scout'
  <2>1. CASE SendScout
    <3>1. PICK w \in FreeWorkers : scout' = w /\ lease' = [lease EXCEPT ![w] = "scout"]
      BY <2>1 DEF SendScout
    <3>2. w \in Units /\ w \in mine /\ w \in Workers /\ lease[w] = "free"
      BY DEF FreeWorkers, Units
    <3>3. \A u \in Units : lease[u] # "scout"
      BY <2>1, UnitsAssumption DEF SendScout, LeasesRemembered, Units
    <3> QED
      BY <1>2, <2>1, <3>1, <3>2, <3>3 DEF SendScout, TypeOK, Purposes
  <2>2. CASE ForgetScout
    <3>1. \A u \in Units : lease[u] # "scout"
      BY <2>2, Owners DEF ForgetScout, ScoutThere, LeasesRemembered, ScoutAlive, OwnerOf
    <3> QED
      BY <1>2, <2>2, <3>1 DEF ForgetScout, TypeOK
  <2>3. CASE FinishScout
    <3>1. lease' = Freed({scout}, "scouting") /\ scout' = None /\ scoutDone' = TRUE
      BY <2>3 DEF FinishScout
    <3>2. \A u \in Units : lease'[u] # "scout"
      BY <1>2, <3>1, FreedFacts, Owners DEF LeasesRemembered, OwnerOf
    <3>3. /\ lease' \in [Units -> Purposes]
          /\ \A u \in Units : lease'[u] # lease[u] => lease'[u] = "free" /\ OwnerOf(u) = "scouting"
      BY <1>2, <3>1, FreedFacts
    <3> QED
      BY <3>1, <3>2, <3>3
  <2>4. CASE UNCHANGED <<scout, scoutDone, lease>>
    BY <1>2, <2>4 DEF TypeOK, LeasesRemembered
  <2> QED
    BY <2>1, <2>2, <2>3, <2>4 DEF WorkerScout, WalkScout, NoScout
<1>4. TypeOK'
  BY <1>1, <1>3 DEF TypeOK, WorkerScout
<1>5. \A u \in Units : lease'[u] # lease[u] => lease[u] \in {"free", "scout", "rescout"}
  BY <1>2, <1>3, Owners DEF OwnerOf, Purposes
<1>6. PullTrue'
  BY <1>3, <1>5 DEF PullTrue, WorkerScout, TypeOK, Units
<1>7. LeasesRemembered' /\ ScoutAlive'
  BY <1>3 DEF LeasesRemembered, ScoutAlive, WorkerScout
<1>8. StayStep
  BY <1>5 DEF StayStep, Units
<1> QED
  BY <1>4, <1>6, <1>7, <1>8

LEMMA RescoutStep == IInv /\ Rescout => IInv' /\ StayStep
<1> SUFFICES ASSUME IInv, Rescout PROVE IInv' /\ StayStep
  OBVIOUS
<1> USE DEF IInv
<1>1. stage' \in {Stages[i] : i \in DOMAIN Stages}
  BY Turns DEF Rescout, Comes
<1>2. lease \in [Units -> Purposes]
  BY DEF TypeOK
<1>3. /\ rescouter' \in Soldiers \cup {None}
      /\ lease' \in [Units -> Purposes]
      /\ \A u \in Units : lease'[u] # lease[u] => u \in Soldiers /\ lease'[u] \in {"free", "rescout"}
      /\ \A u \in Units : lease'[u] = "rescout" => u = rescouter'
  <2>1. CASE EndRescout
    <3>1. lease' = Freed({rescouter}, "scouting") /\ rescouter' = None /\ rescouter \in Soldiers
      BY <2>1 DEF EndRescout, TypeOK
    <3>2. \A u \in Units : lease'[u] # "rescout"
      BY <1>2, <3>1, FreedFacts, Owners DEF LeasesRemembered, OwnerOf
    <3> QED
      BY <1>2, <3>1, <3>2, FreedFacts
  <2>2. CASE SendRescout
    <3>1. PICK u \in Choice : rescouter' = u /\ lease' = [lease EXCEPT ![u] = "rescout"]
      BY <2>2 DEF SendRescout
    <3>2. u \in Soldiers /\ u \in Units
      BY DEF Choice, Units
    <3>3. \A x \in Units : lease[x] # "rescout"
      BY <2>2, UnitsAssumption DEF SendRescout, LeasesRemembered, Units
    <3> QED
      BY <1>2, <3>1, <3>2, <3>3 DEF Purposes
  <2>3. CASE UNCHANGED <<rescouter, lease>>
    BY <1>2, <2>3 DEF TypeOK, LeasesRemembered
  <2> QED
    BY <2>1, <2>2, <2>3 DEF Rescout, WalkRescout, NoRescout
<1>4. clock' \in 0..(IF Timeout < 2 * Cooldown THEN 2 * Cooldown ELSE Timeout + 1)
  BY TimesAssumption DEF TypeOK, Rescout, EndRescout, WalkRescout, SendRescout, NoRescout, Overdue
<1>5. TypeOK'
  BY <1>1, <1>3, <1>4 DEF TypeOK, Rescout
<1>6. \A w \in Workers : lease'[w] = lease[w]
  BY <1>3, UnitsAssumption DEF Units
<1>7. PullTrue'
  BY <1>6 DEF PullTrue, Rescout, TypeOK
<1>8. LeasesRemembered' /\ ScoutAlive'
  BY <1>3 DEF LeasesRemembered, ScoutAlive, Rescout
<1>9. StayStep
  BY <1>6 DEF StayStep
<1> QED
  BY <1>5, <1>7, <1>8, <1>9

LEMMA RepairStep == IInv /\ Repair => IInv' /\ StayStep
<1> SUFFICES ASSUME IInv, Repair PROVE IInv' /\ StayStep
  OBVIOUS
<1> USE DEF IInv
<1>1. stage' \in {Stages[i] : i \in DOMAIN Stages}
  BY Turns DEF Repair, Comes
<1>2. lease \in [Units -> Purposes]
  BY DEF TypeOK
<1> DEFINE ls == Freed({scv}, "repair")
<1>3. /\ ls \in [Units -> Purposes]
      /\ \A u \in Units : ls[u] # lease[u] => ls[u] = "free" /\ lease[u] = "repair"
      /\ \A u \in Units : ls[u] # "repair"
  <2>1. \A u \in Units : OwnerOf(u) = "repair" <=> lease[u] = "repair"
    BY <1>2, Owners DEF OwnerOf, Purposes
  <2> QED
    BY <1>2, <2>1, FreedFacts DEF LeasesRemembered
<1> HIDE DEF ls
<1>4. /\ scv' \in Workers \cup {None}
      /\ lease' \in [Units -> Purposes]
      /\ \A u \in Units : lease'[u] # lease[u] =>
            lease[u] \in {"free", "repair"} /\ lease'[u] \in {"free", "repair"}
      /\ \A u \in Units : lease'[u] = "repair" => u = scv'
  <2>1. CASE UNCHANGED <<scv, lease>>
    BY <1>2, <2>1 DEF TypeOK, LeasesRemembered
  <2>2. CASE scv' = None /\ lease' = ls
    BY <1>3, <2>2
  <2>3. CASE \E w \in {x \in mine \cap Workers : ls[x] = "free"} :
               scv' = w /\ lease' = [ls EXCEPT ![w] = "repair"]
    <3>1. PICK w \in {x \in mine \cap Workers : ls[x] = "free"} :
               scv' = w /\ lease' = [ls EXCEPT ![w] = "repair"]
      BY <2>3
    <3>2. w \in Units /\ w \in Workers /\ ls[w] = "free"
      BY <3>1 DEF Units
    <3>3. lease[w] \in {"free", "repair"}
      BY <1>3, <3>2
    <3> QED
      BY <1>3, <3>1, <3>2, <3>3 DEF Purposes
  <2>4. \E target \in HurtTargets, busy \in BOOLEAN :
          LET kept == target /\ KeepsScv /\ ~busy
          IN  \/ kept /\ UNCHANGED <<scv, lease>>
              \/ ~kept /\ scv' = None /\ lease' = ls
              \/ /\ ~kept /\ target
                 /\ \E w \in {x \in mine \cap Workers : ls[x] = "free"} :
                       scv' = w /\ lease' = [ls EXCEPT ![w] = "repair"]
    BY DEF Repair, ls
  <2> QED
    BY <2>1, <2>2, <2>3, <2>4
<1>5. TypeOK'
  BY <1>1, <1>4 DEF TypeOK, Repair
<1>6. PullTrue'
  BY <1>4 DEF PullTrue, Repair, TypeOK, Units
<1>7. LeasesRemembered' /\ ScoutAlive'
  BY <1>4 DEF LeasesRemembered, ScoutAlive, Repair
<1>8. StayStep
  BY <1>4 DEF StayStep, Units
<1> QED
  BY <1>5, <1>6, <1>7, <1>8

LEMMA MicroStep == IInv /\ Micro => IInv' /\ StayStep
<1> SUFFICES ASSUME IInv, Micro PROVE IInv' /\ StayStep
  OBVIOUS
<1> USE DEF IInv
<1>1. stage' \in {Stages[i] : i \in DOMAIN Stages}
  BY Turns DEF Micro, Comes
<1>2. lease \in [Units -> Purposes]
  BY DEF TypeOK
<1>3. InSquads \in SUBSET Units /\ InSquads \subseteq Soldiers
  BY DEF InSquads, TypeOK, Units
<1>4. /\ lease' \in [Units -> Purposes]
      /\ \A u \in Units : lease'[u] \in {"squad", "free", lease[u]}
      /\ \A u \in Units : lease'[u] = "squad" => u \in InSquads
      /\ \A u \in Units : u \notin InSquads /\ lease[u] # "squad" => lease'[u] = lease[u]
  BY <1>2, <1>3, HeldFacts DEF Micro
<1>5. \A w \in Workers : lease[w] # "squad" => lease'[w] = lease[w]
  BY <1>3, <1>4, UnitsAssumption DEF Units
<1>6. TypeOK'
  BY <1>1, <1>4 DEF TypeOK, Micro, memories
<1>7. PullTrue'
  BY <1>5 DEF PullTrue, Micro, memories, TypeOK
<1>8. LeasesRemembered' /\ ScoutAlive'
  BY <1>4 DEF LeasesRemembered, ScoutAlive, Micro, memories
<1>9. StayStep
  BY <1>5 DEF StayStep
<1> QED
  BY <1>6, <1>7, <1>8, <1>9

LEMMA FlushStep == IInv /\ Flush => IInv' /\ StayStep
<1> SUFFICES ASSUME IInv, Flush PROVE IInv' /\ StayStep
  OBVIOUS
<1> QED
  BY DEF Flush, IInv, TypeOK, PullTrue, LeasesRemembered, ScoutAlive, StayStep, memories

LEMMA TacticsRaisesStep == IInv /\ TacticsRaises => IInv' /\ StayStep
<1> SUFFICES ASSUME IInv, TacticsRaises PROVE IInv' /\ StayStep
  OBVIOUS
<1> USE DEF IInv
<1>1. stage' \in {Stages[i] : i \in DOMAIN Stages}
  BY Turns DEF TacticsRaises, Comes
<1>2. faults' \in 0..MaxFaults
  BY TimesAssumption DEF TacticsRaises, Caught, TypeOK
<1>3. repairing' \subseteq Soldiers
  BY DEF TacticsRaises, RepairSquad, Available, TypeOK
<1>4. TypeOK'
  BY <1>1, <1>2, <1>3 DEF TypeOK, TacticsRaises, Caught
<1> QED
  BY <1>4 DEF TacticsRaises, Caught, PullTrue, LeasesRemembered, ScoutAlive, StayStep

LEMMA MacroRaisesStep == IInv /\ MacroRaises => IInv' /\ StayStep
<1> SUFFICES ASSUME IInv, MacroRaises PROVE IInv' /\ StayStep
  OBVIOUS
<1> USE DEF IInv
<1>1. stage' \in {Stages[i] : i \in DOMAIN Stages} /\ stage = "macro"
  BY Turns DEF MacroRaises, Comes
<1>2. faults' \in 0..MaxFaults
  BY TimesAssumption DEF MacroRaises, Caught, TypeOK
<1>3. lease \in [Units -> Purposes]
  BY DEF TypeOK
<1>4. PICK over \in SUBSET builders, claimed \in SUBSET Pickable :
      \E back \in SUBSET over, leased \in SUBSET claimed :
          /\ builders' = (builders \ over) \cup claimed
          /\ lease' = [u \in Units |-> IF u \in leased THEN "build" ELSE Freed(back, "macro")[u]]
  BY DEF MacroRaises
<1>5. PICK back \in SUBSET over, leased \in SUBSET claimed :
          lease' = [u \in Units |-> IF u \in leased THEN "build" ELSE Freed(back, "macro")[u]]
  BY <1>4
<1>6. builders' \subseteq Workers
  BY <1>4 DEF Pickable, TypeOK
<1>7. /\ Freed(back, "macro") \in [Units -> Purposes]
      /\ \A u \in Units : Freed(back, "macro")[u] \in {"free", lease[u]}
      /\ \A u \in Units : OwnerOf(u) # "macro" => Freed(back, "macro")[u] = lease[u]
  BY <1>3, FreedFacts
<1>8. \A u \in leased : OwnerOf(u) \in {"nobody", "macro"}
  BY DEF Pickable
<1>9. /\ lease' \in [Units -> Purposes]
      /\ \A u \in Units : lease'[u] \in {"build", "free", lease[u]}
      /\ \A u \in Units : lease[u] = "pull" => lease'[u] = "pull"
  <2>1. lease' \in [Units -> Purposes] /\ \A u \in Units : lease'[u] \in {"build", "free", lease[u]}
    BY <1>5, <1>7 DEF Purposes
  <2>2. ASSUME NEW u \in Units, lease[u] = "pull" PROVE lease'[u] = "pull"
    <3>1. OwnerOf(u) = "worker_defense"
      BY <2>2, Owners DEF OwnerOf
    <3> QED
      BY <1>5, <1>7, <1>8, <2>2, <3>1
  <2> QED
    BY <2>1, <2>2
<1>10. broken' = broken \cup {"macro"} /\ UNCHANGED <<mine, unborn, pulled, scout, rescouter, scv>>
  BY DEF MacroRaises, Caught
<1>11. TypeOK'
  BY <1>1, <1>2, <1>6, <1>9 DEF TypeOK, MacroRaises, Caught
<1>12. PullTrue'
  BY <1>9, <1>10 DEF PullTrue, TypeOK, Units
<1>13. LeasesRemembered' /\ ScoutAlive'
  BY <1>9, <1>10 DEF LeasesRemembered, ScoutAlive
<1>14. StayStep
  BY <1>1 DEF StayStep
<1> QED
  BY <1>11, <1>12, <1>13, <1>14

LEMMA DefenseRaisesStep == IInv /\ DefenseRaises => IInv' /\ StayStep
<1> SUFFICES ASSUME IInv, DefenseRaises PROVE IInv' /\ StayStep
  OBVIOUS
<1> USE DEF IInv
<1>1. stage' \in {Stages[i] : i \in DOMAIN Stages}
  BY Turns DEF DefenseRaises, Comes
<1>2. faults' \in 0..MaxFaults
  BY TimesAssumption DEF DefenseRaises, Caught, TypeOK
<1>3. pulled' \subseteq Workers
  BY DEF DefenseRaises, TypeOK
<1>4. TypeOK'
  BY <1>1, <1>2, <1>3 DEF TypeOK, DefenseRaises, Caught
<1>5. PullTrue' /\ LeasesRemembered' /\ ScoutAlive' /\ StayStep
  BY DEF DefenseRaises, Caught, PullTrue, LeasesRemembered, ScoutAlive, StayStep
<1> QED
  BY <1>4, <1>5

LEMMA OtherRaisesStep == IInv /\ OtherRaises => IInv' /\ StayStep
<1> SUFFICES ASSUME IInv, OtherRaises PROVE IInv' /\ StayStep
  OBVIOUS
<1> USE DEF IInv
<1>1. stage' \in {Stages[i] : i \in DOMAIN Stages}
  BY Turns, StageValues DEF OtherRaises, Comes
<1>2. faults' \in 0..MaxFaults
  BY TimesAssumption DEF OtherRaises, Caught, TypeOK
<1> QED
  BY <1>1, <1>2 DEF OtherRaises, Caught, TypeOK, PullTrue, LeasesRemembered, ScoutAlive, StayStep, memories

-----------------------------------------------------------------------------
(* The theorems                                                            *)

LEMMA StepInvariant == IInv /\ [Next]_vars => IInv' /\ (StayStep \/ UNCHANGED vars)
<1> SUFFICES ASSUME IInv, [Next]_vars PROVE IInv' /\ (StayStep \/ UNCHANGED vars)
  OBVIOUS
<1>1. CASE UNCHANGED vars
  BY <1>1 DEF vars, memories, IInv, TypeOK, PullTrue, LeasesRemembered, ScoutAlive
<1>2. CASE Next
  BY <1>2, SenseStep, TacticsStep, MacroStep, WorkerDefenseStep, WorkerScoutStep, RescoutStep,
     RepairStep, MicroStep, FlushStep, TacticsRaisesStep, MacroRaisesStep, DefenseRaisesStep,
     OtherRaisesStep DEF Next, Raises
<1> QED
  BY <1>1, <1>2

LEMMA Invariant == Spec => []IInv
<1>1. IInv /\ [Next]_vars => IInv'
  BY StepInvariant
<1> QED
  BY InitInvariant, <1>1, PTL DEF Spec

\* Every variable keeps to its values, whatever dies or raises (all components).
THEOREM TypeCorrect == Spec => []TypeOK
<1>1. IInv => TypeOK
  BY DEF IInv
<1> QED
  BY <1>1, Invariant, PTL

\* No component forgets a lease it has: what it remembers covers what it would
\* have to give back (Macro.tick, WorkerDefense.tick, WorkerScout, Scouting._rescout
\* and Repair.tick against UnitLeases).  Macro and worker_defense may forget one in a
\* tick that raises before its hold, until their next one that does not.
THEOREM NoLeaseForgotten == Spec => []LeasesRemembered
<1>1. IInv => LeasesRemembered
  BY DEF IInv
<1> QED
  BY <1>1, Invariant, PTL

\* Nobody takes a builder from macro: its lease ends in macro's tick or with its
\* death (WorkerDefense.tick, Scouting, Repair.tick, Micro.tick).  Only a worker that
\* worker_defense had chosen in a tick that raised is not asked whether it builds.
THEOREM BuildersAreLeftAlone == Spec => BuildersStay
<1>1. IInv /\ [Next]_vars =>
        [\A w \in Workers : lease[w] = "build" /\ lease'[w] # "build" =>
            \/ stage = "macro" \/ w \notin mine'
            \/ stage = "worker_defense" /\ "worker_defense" \in broken /\ w \in pulled]_vars
  BY StepInvariant DEF StayStep
<1> QED
  BY <1>1, Invariant, PTL DEF Spec, BuildersStay

-----------------------------------------------------------------------------
(* Belief: the first of the starts that are left                           *)

\* Of some indices one is the least: as many as lie below all of them come before it.
LEMMA LeastIndex ==
    ASSUME NEW n \in Nat, NEW S \in SUBSET (1..n), S # {}
    PROVE  \E i \in S : \A j \in S : i <= j
<1>. DEFINE A == {k \in 1..n : \A j \in S : k < j}
            c == Cardinality(A)
<1>1. IsFiniteSet(1..n) /\ IsFiniteSet(A) /\ c \in Nat
  <2>1. IsFiniteSet(1..n)
    BY FS_Interval
  <2>2. A \subseteq 1..n
    OBVIOUS
  <2>. HIDE DEF A
  <2>3. IsFiniteSet(A)
    BY <2>1, <2>2, FS_Subset
  <2>. QED  BY <2>1, <2>3, FS_CardinalityType
<1>2. ASSUME NEW k \in A, NEW i \in 1..k PROVE i \in A
  OBVIOUS
<1>3. c + 1 \notin A
  <2>1. SUFFICES ASSUME c + 1 \in A PROVE FALSE
    OBVIOUS
  <2>2. 1..(c + 1) \subseteq A
    BY <2>1, <1>2
  <2>3. Cardinality(1..(c + 1)) = c + 1
    BY <1>1, FS_Interval
  <2>4. Cardinality(1..(c + 1)) <= c
    BY <1>1, <2>2, FS_Subset
  <2>. QED  BY <1>1, <2>3, <2>4
<1>4. \A k \in A : k <= c
  <2>1. SUFFICES ASSUME NEW k \in A, k > c PROVE FALSE
    BY <1>1
  <2>2. c + 1 \in 1..k
    BY <1>1, <2>1
  <2>. QED  BY <1>2, <1>3, <2>2
<1>5. A = 1..c
  <2>1. A \subseteq 1..c
    BY <1>1, <1>4
  <2>2. IsFiniteSet(1..c) /\ Cardinality(1..c) = c
    BY <1>1, FS_Interval
  <2>. HIDE DEF A
  <2>. QED  BY <2>1, <2>2, FS_Subset
<1>6. \A j \in S : j >= c + 1
  <2>1. \A j \in S : j \notin A /\ j \in Nat /\ j >= 1
    OBVIOUS
  <2>. HIDE DEF A
  <2>2. \A j \in S : j \notin 1..c
    BY <1>5, <2>1
  <2>. HIDE DEF c
  <2>. QED  BY <1>1, <2>1, <2>2
<1>7. c + 1 \in S
  <2>1. PICK j \in S : TRUE
    OBVIOUS
  <2>2. c + 1 \in 1..n
    BY <1>1, <1>6, <2>1
  <2>3. PICK k \in S : ~(c + 1 < k)
    BY <1>3, <2>2
  <2>4. k = c + 1
    BY <1>1, <1>6, <2>3
  <2>. QED  BY <2>4
<1>. QED  BY <1>6, <1>7

\* While a start is left there is a first one, and it is one of them.
LEMMA FirstIsLeft ==
    ASSUME NEW C \in (SUBSET B!Starts) \ {{}}
    PROVE  B!First(C) \in C
<1>. DEFINE I == {i \in DOMAIN StartOrder : StartOrder[i] \in C}
<1>1. DOMAIN StartOrder = 1..Len(StartOrder) /\ Len(StartOrder) \in Nat
  BY BeliefAssumption
<1>2. I \in SUBSET (1..Len(StartOrder)) /\ I # {}
  BY <1>1 DEF B!Starts
<1>3. PICK i \in I : \A j \in I : i <= j
  BY <1>1, <1>2, LeastIndex
<1>4. i \in DOMAIN StartOrder /\ StartOrder[i] \in C /\ \A j \in 1..i - 1 : StartOrder[j] \notin C
  BY <1>1, <1>3
<1>. QED  BY <1>4 DEF B!First

-----------------------------------------------------------------------------
(* The inductive invariant                                                 *)

\* The enemy's units are units somewhere, and so is the first depot.
WorldOK ==
    /\ DOMAIN world \subseteq EnemyUnits /\ \A u \in DOMAIN world : world[u] \in B!Thing
    /\ home \in B!Starts /\ hall \in EnemyUnits /\ steady \in BOOLEAN

\* What is remembered are units, what is believed of the start is a place.
MemoryOK ==
    /\ DOMAIN tracks \subseteq EnemyUnits /\ \A u \in DOMAIN tracks : tracks[u] \in B!Thing
    /\ \A s \in DOMAIN alive : alive[s] \in BOOLEAN
    /\ candidates \in (SUBSET B!Starts) \ {{}} /\ witnessed \subseteq lost
    /\ guess \in ({"start"} \X B!Starts) \cup ({"depot"} \X Sites)

\* As long as the first depot has stayed where it was and no other has stood at a
\* start, none is remembered at another start either.
Steady ==
    steady =>
        /\ hall \in DOMAIN world /\ world[hall] = [kind |-> "depot", at |-> home]
        /\ \A u \in DOMAIN world : world[u].kind = "depot" /\ world[u].at \in B!Starts => world[u].at = home
        /\ \A u \in DOMAIN tracks : tracks[u].kind = "depot" /\ tracks[u].at \in B!Starts => tracks[u].at = home
        /\ home \in candidates

BInv == WorldOK /\ MemoryOK /\ B!MemoriesAgree /\ Steady

\* At the start the enemy has its first depot, and nothing is remembered.
LEMMA StartsWell == B!Init => BInv
<1>. SUFFICES ASSUME B!Init PROVE BInv
  OBVIOUS
<1>1. B!Starts \subseteq Sites
  BY BeliefAssumption DEF B!Starts
<1>2. world = [u \in {hall} |-> [kind |-> "depot", at |-> home]] /\ home \in B!Starts /\ hall \in EnemyUnits
  BY DEF B!Init
<1>3. DOMAIN world = {hall} /\ world[hall] = [kind |-> "depot", at |-> home]
  BY <1>2
<1>4. WorldOK
  BY <1>1, <1>2, <1>3 DEF WorldOK, B!Thing, B!Kinds, B!Init
<1>5. DOMAIN tracks = {} /\ DOMAIN alive = {} /\ seen = tracks /\ candidates = B!Starts
  BY DEF B!Init
<1>6. MemoryOK
  BY <1>2, <1>5 DEF B!Init, MemoryOK, B!Start
<1>7. Steady
  BY <1>2, <1>3, <1>5 DEF Steady
<1>. QED  BY <1>4, <1>5, <1>6, <1>7 DEF BInv, B!MemoriesAgree

-----------------------------------------------------------------------------
(* A decision                                                              *)

\* What is shown is what stands in sight.
LEMMA ShownIsInSight ==
    ASSUME NEW V
    PROVE  /\ DOMAIN B!Shown(V) = {u \in DOMAIN world : world[u].at \in V}
           /\ \A u \in DOMAIN B!Shown(V) : B!Shown(V)[u] = world[u]
  BY DEF B!Shown, B!Restrict

\* What ScriptedBelief knows after a decision: what it is shown, and of the rest what
\* is not known to be dead and not missed where it stood.
LEMMA TrackedIsShownOrKept ==
    ASSUME NEW V
    PROVE  /\ DOMAIN B!Track(V, B!Shown(V)) =
                DOMAIN B!Shown(V) \cup {u \in DOMAIN tracks \ lost :
                                        ~B!Building(tracks[u]) \/ tracks[u].at \notin V}
           /\ \A u \in DOMAIN B!Track(V, B!Shown(V)) :
                B!Track(V, B!Shown(V))[u] = IF u \in DOMAIN B!Shown(V) THEN world[u] ELSE tracks[u]
<1>. DEFINE shown == B!Shown(V)
            known == [u \in (DOMAIN tracks \ lost) \cup DOMAIN shown |->
                         IF u \in DOMAIN shown THEN shown[u] ELSE tracks[u]]
            D == {u \in DOMAIN known : u \in DOMAIN shown \/ ~B!Building(known[u]) \/ known[u].at \notin V}
<1>1. B!Track(V, shown) = [u \in D |-> known[u]]
  BY DEF B!Track, B!Restrict
<1>2. D = DOMAIN shown \cup {u \in DOMAIN tracks \ lost : ~B!Building(tracks[u]) \/ tracks[u].at \notin V}
  OBVIOUS
<1>3. \A u \in D : known[u] = IF u \in DOMAIN shown THEN world[u] ELSE tracks[u]
  BY ShownIsInSight
<1>. HIDE DEF shown, known, D
<1>. QED  BY <1>1, <1>2, <1>3 DEF shown

\* FogMemory.update comes to the same, by another way.
LEMMA UpdatedIsTracked ==
    ASSUME NEW V, B!MemoriesAgree
    PROVE  B!Update(V, B!Shown(V)) = B!Track(V, B!Shown(V))
<1>. DEFINE shown == B!Shown(V)
            kept == [u \in DOMAIN seen \ lost |-> seen[u]]
            told == [u \in DOMAIN kept \cup DOMAIN shown |->
                        IF u \in DOMAIN shown THEN shown[u] ELSE kept[u]]
            gone == {u \in DOMAIN told \ DOMAIN shown : B!Building(told[u]) /\ told[u].at \in V}
            known == [u \in (DOMAIN tracks \ lost) \cup DOMAIN shown |->
                         IF u \in DOMAIN shown THEN shown[u] ELSE tracks[u]]
            D == {u \in DOMAIN known : u \in DOMAIN shown \/ ~B!Building(known[u]) \/ known[u].at \notin V}
<1>1. B!Update(V, shown) = [u \in DOMAIN told \ gone |-> told[u]]
  BY DEF B!Update, B!Without, B!Restrict
<1>2. B!Track(V, shown) = [u \in D |-> known[u]]
  BY DEF B!Track, B!Restrict
<1>3. told = known
  BY DEF B!MemoriesAgree
<1>4. DOMAIN told \ gone = D
  BY <1>3
<1>. HIDE DEF shown, told, gone, known, D
<1>. QED  BY <1>1, <1>2, <1>3, <1>4 DEF shown

\* Where the depots are, said of each.
LEMMA DepotsAre ==
    ASSUME NEW mem, NEW s
    PROVE  s \in B!Depots(mem) <=> \E u \in DOMAIN mem : mem[u].kind = "depot" /\ mem[u].at = s
  BY DEF B!Depots

\* Whatever becomes of the enemy, nothing is believed otherwise before the next decision.
LEMMA EnemySteps ==
    ASSUME BInv, NEW w, B!Changes(w), DOMAIN w \subseteq EnemyUnits, \A u \in DOMAIN w : w[u] \in B!Thing,
           witnessed' \subseteq lost'
    PROVE  BInv'
<1>1. /\ world' = w /\ home' = home /\ hall' = hall
      /\ UNCHANGED <<vis, seen, guess, tracks, candidates, alive>>
      /\ steady' <=> (steady /\ B!Depots(w) \cap B!Starts = {home} /\ hall \in DOMAIN w /\ w[hall] = world[hall])
      /\ steady' \in BOOLEAN
  BY DEF B!Changes, B!beliefs, BInv, WorldOK
<1>2. WorldOK'
  BY <1>1 DEF BInv, WorldOK
<1>3. MemoryOK' /\ B!MemoriesAgree'
  BY <1>1 DEF BInv, MemoryOK, B!MemoriesAgree
<1>4. Steady'
  <2>1. SUFFICES ASSUME steady' PROVE Steady'
    BY DEF Steady
  <2>2. steady /\ B!Depots(w) \cap B!Starts = {home} /\ hall \in DOMAIN w /\ w[hall] = world[hall]
    BY <1>1, <2>1
  <2>3. \A u \in DOMAIN w : w[u].kind = "depot" /\ w[u].at \in B!Starts => w[u].at = home
    BY <2>2, DepotsAre
  <2>. QED  BY <1>1, <2>2, <2>3 DEF BInv, Steady
<1>. QED  BY <1>2, <1>3, <1>4 DEF BInv

\* A decision's memory of what it sees.
LEMMA TickTracks ==
    ASSUME BInv, NEW V \in SUBSET Sites, B!Tick(V)
    PROVE  /\ B!MemoriesAgree'
           /\ DOMAIN tracks' \subseteq EnemyUnits /\ \A u \in DOMAIN tracks' : tracks'[u] \in B!Thing
           /\ \A u \in DOMAIN world : world[u].at \in V => u \in DOMAIN tracks' /\ tracks'[u] = world[u]
           /\ \A u \in DOMAIN tracks' :
                \/ u \in DOMAIN world /\ world[u].at \in V /\ tracks'[u] = world[u]
                \/ /\ u \in DOMAIN tracks /\ tracks'[u] = tracks[u]
                   /\ ~B!Building(tracks[u]) \/ tracks[u].at \notin V
<1>1. tracks' = B!Track(V, B!Shown(V)) /\ seen' = B!Update(V, B!Shown(V))
  BY DEF B!Tick
<1>2. seen' = tracks'
  BY <1>1, UpdatedIsTracked DEF BInv
<1>3. /\ DOMAIN tracks' = DOMAIN B!Shown(V) \cup {u \in DOMAIN tracks \ lost :
                              ~B!Building(tracks[u]) \/ tracks[u].at \notin V}
      /\ \A u \in DOMAIN tracks' : tracks'[u] = IF u \in DOMAIN B!Shown(V) THEN world[u] ELSE tracks[u]
  BY <1>1, TrackedIsShownOrKept
<1>4. DOMAIN B!Shown(V) = {u \in DOMAIN world : world[u].at \in V}
  BY ShownIsInSight
<1>5. \A u \in DOMAIN tracks' :
         \/ u \in DOMAIN world /\ world[u].at \in V /\ tracks'[u] = world[u]
         \/ /\ u \in DOMAIN tracks /\ tracks'[u] = tracks[u]
            /\ ~B!Building(tracks[u]) \/ tracks[u].at \notin V
  BY <1>3, <1>4
<1>6. \A u \in DOMAIN world : world[u].at \in V => u \in DOMAIN tracks' /\ tracks'[u] = world[u]
  BY <1>3, <1>4
<1>7. DOMAIN tracks' \subseteq EnemyUnits /\ \A u \in DOMAIN tracks' : tracks'[u] \in B!Thing
  BY <1>5 DEF BInv, WorldOK, MemoryOK
<1>. QED  BY <1>2, <1>5, <1>6, <1>7 DEF B!MemoriesAgree

\* The starts that are left after a decision: one at least, and the enemy's own while
\* its depot has stayed there.
LEMMA StartsLeft ==
    ASSUME BInv, NEW V \in SUBSET Sites, B!Tick(V)
    PROVE  candidates' \in (SUBSET B!Starts) \ {{}} /\ (steady => home \in candidates')
<1>1. candidates' \in B!Narrowed(V, tracks') /\ candidates \in (SUBSET B!Starts) \ {{}}
  BY DEF B!Tick, BInv, MemoryOK
<1>2. CASE B!Depots(tracks') \cap B!Starts # {}
  <2>1. PICK s \in B!Depots(tracks') \cap B!Starts : candidates' = {s}
    BY <1>1, <1>2 DEF B!Narrowed
  <2>2. PICK u \in DOMAIN tracks' : tracks'[u].kind = "depot" /\ tracks'[u].at = s
    BY <2>1, DepotsAre
  <2>3. steady => s = home
    BY <2>1, <2>2, TickTracks DEF BInv, Steady
  <2>. QED  BY <2>1, <2>3
<1>3. CASE B!Depots(tracks') \cap B!Starts = {}
  <2>1. B!Empty(V, tracks') \subseteq candidates
    BY DEF B!Empty
  <2>2. candidates' \in (SUBSET B!Starts) \ {{}}
    BY <1>1, <1>3, <2>1 DEF B!Narrowed
  <2>3. ASSUME steady PROVE home \in candidates'
    <3>1. home \in candidates /\ hall \in DOMAIN world /\ world[hall] = [kind |-> "depot", at |-> home]
      BY <2>3 DEF BInv, Steady
    <3>2. home \notin B!Empty(V, tracks')
      <4>1. CASE home \in V
        <5>1. hall \in DOMAIN tracks' /\ tracks'[hall] = [kind |-> "depot", at |-> home]
          BY <3>1, <4>1, TickTracks
        <5>. QED  BY <5>1 DEF B!Empty, B!Building
      <4>2. CASE home \notin V
        BY <4>2 DEF B!Empty
      <4>. QED  BY <4>1, <4>2
    <3>. QED  BY <1>1, <1>3, <3>1, <3>2 DEF B!Narrowed
  <2>. QED  BY <2>2, <2>3
<1>. QED  BY <1>2, <1>3

\* The start that is believed in is a start, or the place of a depot.
LEMMA GuessIsAPlace ==
    ASSUME BInv, NEW V \in SUBSET Sites, B!Tick(V)
    PROVE  guess' \in ({"start"} \X B!Starts) \cup ({"depot"} \X Sites)
<1>1. PICK g \in B!Guesses(B!Shown(V)) :
         guess' = IF B!Depots(seen') = {} THEN B!Corrected(g, candidates') ELSE g
  BY DEF B!Tick
<1>2. g \in ({"start"} \X B!Starts) \cup ({"depot"} \X Sites)
  <2>1. CASE g = guess
    BY <2>1 DEF BInv, MemoryOK
  <2>2. CASE g # guess
    <3>1. PICK s \in B!Depots(B!Shown(V)) : g = B!Depot(s)
      BY <1>1, <2>2 DEF B!Guesses
    <3>2. PICK u \in DOMAIN B!Shown(V) : B!Shown(V)[u].at = s
      BY <3>1, DepotsAre
    <3>3. s \in Sites
      BY <3>2, ShownIsInSight DEF BInv, WorldOK, B!Thing
    <3>. QED  BY <3>1, <3>3 DEF B!Depot
  <2>. QED  BY <2>1, <2>2
<1>3. B!Corrected(g, candidates') \in {g, B!Start(B!First(candidates'))}
  BY DEF B!Corrected
<1>4. B!First(candidates') \in B!Starts
  BY StartsLeft, FirstIsLeft
<1>. QED  BY <1>1, <1>2, <1>3, <1>4 DEF B!Start

\* A decision keeps the invariant.
LEMMA TickStep ==
    ASSUME BInv, NEW V \in SUBSET Sites, B!Tick(V)
    PROVE  BInv'
<1>1. /\ UNCHANGED <<world, home, hall, steady>> /\ lost' = {} /\ witnessed' = {}
      /\ alive' = B!Bases(V, tracks')
  BY DEF B!Tick
<1>2. WorldOK'
  BY <1>1 DEF BInv, WorldOK
<1>3. \A s \in DOMAIN alive' : alive'[s] \in BOOLEAN
  BY <1>1 DEF B!Bases
<1>4. MemoryOK'
  BY <1>1, <1>3, TickTracks, StartsLeft, GuessIsAPlace DEF MemoryOK
<1>5. B!MemoriesAgree'
  BY TickTracks
<1>6. Steady'
  <2>1. SUFFICES ASSUME steady PROVE Steady'
    BY <1>1 DEF Steady
  <2>2. \A u \in DOMAIN tracks' : tracks'[u].kind = "depot" /\ tracks'[u].at \in B!Starts => tracks'[u].at = home
    BY <2>1, TickTracks DEF BInv, Steady
  <2>. QED  BY <1>1, <2>1, <2>2, StartsLeft DEF BInv, Steady
<1>. QED  BY <1>2, <1>4, <1>5, <1>6 DEF BInv

\* Every step does.
LEMMA StepsWell == BInv /\ [B!Next]_(B!vars) => BInv'
<1>. SUFFICES ASSUME BInv, [B!Next]_(B!vars) PROVE BInv'
  OBVIOUS
<1>1. ASSUME NEW u \in EnemyUnits, NEW t \in B!Thing, B!Appears(u, t) PROVE BInv'
  <2>. DEFINE w == [v \in DOMAIN world \cup {u} |-> IF v = u THEN t ELSE world[v]]
  <2>1. B!Changes(w) /\ UNCHANGED <<lost, witnessed>>
    BY <1>1 DEF B!Appears
  <2>2. DOMAIN w \subseteq EnemyUnits /\ \A v \in DOMAIN w : w[v] \in B!Thing
    BY DEF BInv, WorldOK
  <2>. HIDE DEF w
  <2>. QED  BY <2>1, <2>2, EnemySteps DEF BInv, MemoryOK
<1>2. ASSUME NEW u \in EnemyUnits, NEW t \in B!Thing, B!Turns(u, t) PROVE BInv'
  <2>. DEFINE w == [world EXCEPT ![u] = t]
  <2>1. B!Changes(w) /\ UNCHANGED <<lost, witnessed>>
    BY <1>2 DEF B!Turns
  <2>2. DOMAIN w \subseteq EnemyUnits /\ \A v \in DOMAIN w : w[v] \in B!Thing
    BY DEF BInv, WorldOK
  <2>. HIDE DEF w
  <2>. QED  BY <2>1, <2>2, EnemySteps DEF BInv, MemoryOK
<1>3. ASSUME NEW u \in EnemyUnits, NEW b \in BOOLEAN, B!Dies(u, b) PROVE BInv'
  <2>. DEFINE w == B!Without(world, {u})
  <2>1. B!Changes(w) /\ witnessed' \subseteq lost'
    BY <1>3 DEF B!Dies, BInv, MemoryOK
  <2>2. DOMAIN w \subseteq EnemyUnits /\ \A v \in DOMAIN w : w[v] \in B!Thing
    BY DEF BInv, WorldOK, B!Without, B!Restrict
  <2>. HIDE DEF w
  <2>. QED  BY <2>1, <2>2, EnemySteps
<1>4. ASSUME NEW V \in SUBSET Sites, B!Tick(V) PROVE BInv'
  BY <1>4, TickStep
<1>5. CASE UNCHANGED B!vars
  BY <1>5 DEF B!vars, B!enemy, B!beliefs, BInv, WorldOK, MemoryOK, B!MemoriesAgree, Steady
<1>. QED  BY <1>1, <1>2, <1>3, <1>4, <1>5 DEF B!Next

\* What the other two do leaves belief and the enemy as they are.
LEMMA BelievesOrNot == [AllNext]_all => [B!Next]_(B!vars)
  BY DEF AllNext, Controls, Believes, Fights, all, bVars, B!vars, B!enemy, B!beliefs

\* So it holds throughout.
LEMMA BeliefThroughout == AllSpec => []BInv
<1>1. AllInit => BInv
  BY StartsWell DEF AllInit
<1>2. BInv /\ [AllNext]_all => BInv'
  BY StepsWell, BelievesOrNot
<1>. QED  BY <1>1, <1>2, PTL DEF AllSpec

-----------------------------------------------------------------------------
(* The theorems                                                            *)

\* The memories hold units where units can be, and a start of the enemy's is
\* always left to believe in, whatever is ruled out.
THEOREM BeliefTypes == AllSpec => []B!TypeOK
<1>1. BInv => B!TypeOK
  <2>. SUFFICES ASSUME BInv PROVE B!TypeOK
    OBVIOUS
  <2>1. B!EnemyStart \subseteq ({"start"} \X B!Starts) \cup ({"depot"} \X Sites)
    BY DEF B!EnemyStart, B!Start, BInv, MemoryOK
  <2>2. B!Range(tracks) \subseteq B!Thing /\ B!Range(alive) \subseteq BOOLEAN
    BY DEF B!Range, BInv, MemoryOK
  <2>. QED  BY <2>1, <2>2 DEF B!TypeOK, BInv, MemoryOK
<1>. QED  BY <1>1, BeliefThroughout, PTL

\* FogMemory and ScriptedBelief, which remember the enemy by code of their own, never
\* disagree on which units there are and where.
THEOREM MemoriesNeverDisagree == AllSpec => []B!MemoriesAgree
<1>1. BInv => B!MemoriesAgree
  BY DEF BInv
<1>. QED  BY <1>1, BeliefThroughout, PTL

\* While the enemy's first depot stands and none of another start has been its, the
\* start it stands at is not ruled out, however the others are looked at.
THEOREM HomeStaysACandidate == AllSpec => []B!HomeNotRuledOut
<1>1. BInv => B!HomeNotRuledOut
  BY DEF BInv, Steady, B!HomeNotRuledOut
<1>. QED  BY <1>1, BeliefThroughout, PTL

\* After a decision what is believed of a site in sight is what stands there.
THEOREM NothingFalseInSight == AllSpec => TrueInSight
<1>1. ASSUME BInv, [B!Next]_(B!vars), world' = world
      PROVE  \/ UNCHANGED B!vars
             \/ /\ B!Restrict(tracks', B!BuildingsIn(tracks', vis')) = B!Restrict(world, B!BuildingsIn(world, vis'))
                /\ \A s \in DOMAIN alive' \cap vis' : alive'[s] = (s \in B!Depots(world))
  <2>1. CASE UNCHANGED B!vars
    BY <2>1
  <2>2. ASSUME NEW u \in EnemyUnits, NEW t \in B!Thing, B!Appears(u, t) \/ B!Turns(u, t) PROVE FALSE
    <3>1. CASE B!Appears(u, t)
      <4>1. u \notin DOMAIN world /\ u \in DOMAIN world'
        BY <3>1 DEF B!Appears, B!Changes
      <4>. QED  BY <4>1, <1>1
    <3>2. CASE B!Turns(u, t)
      <4>1. u \in DOMAIN world /\ t # world[u] /\ world'[u] = t
        BY <3>2 DEF B!Turns, B!Changes
      <4>. QED  BY <4>1, <1>1
    <3>. QED  BY <2>2, <3>1, <3>2
  <2>3. ASSUME NEW u \in EnemyUnits, NEW b \in BOOLEAN, B!Dies(u, b) PROVE FALSE
    <3>1. u \in DOMAIN world /\ u \notin DOMAIN world'
      BY <2>3 DEF B!Dies, B!Changes, B!Without, B!Restrict
    <3>. QED  BY <3>1, <1>1
  <2>4. ASSUME NEW V \in SUBSET Sites, B!Tick(V)
        PROVE  /\ B!Restrict(tracks', B!BuildingsIn(tracks', V)) = B!Restrict(world, B!BuildingsIn(world, V))
               /\ \A s \in DOMAIN alive' \cap V : alive'[s] = (s \in B!Depots(world))
    <3>1. /\ \A u \in DOMAIN world : world[u].at \in V => u \in DOMAIN tracks' /\ tracks'[u] = world[u]
          /\ \A u \in DOMAIN tracks' :
                \/ u \in DOMAIN world /\ world[u].at \in V /\ tracks'[u] = world[u]
                \/ /\ u \in DOMAIN tracks /\ tracks'[u] = tracks[u]
                   /\ ~B!Building(tracks[u]) \/ tracks[u].at \notin V
      BY <1>1, <2>4, TickTracks
    <3>2. B!BuildingsIn(tracks', V) = B!BuildingsIn(world, V)
      BY <3>1 DEF B!BuildingsIn
    <3>3. \A u \in B!BuildingsIn(world, V) : tracks'[u] = world[u]
      BY <3>1 DEF B!BuildingsIn
    <3>4. B!Restrict(tracks', B!BuildingsIn(tracks', V)) = B!Restrict(world, B!BuildingsIn(world, V))
      BY <3>2, <3>3 DEF B!Restrict
    <3>5. ASSUME NEW s \in V PROVE s \in B!Depots(tracks') <=> s \in B!Depots(world)
      <4>1. \A u \in DOMAIN tracks' : tracks'[u].kind = "depot" /\ tracks'[u].at = s =>
               u \in DOMAIN world /\ world[u] = tracks'[u]
        BY <3>1 DEF B!Building
      <4>2. \A u \in DOMAIN world : world[u].at = s => u \in DOMAIN tracks' /\ tracks'[u] = world[u]
        BY <3>1
      <4>. QED  BY <4>1, <4>2, DepotsAre
    <3>6. ASSUME NEW s \in DOMAIN alive', s \in V PROVE alive'[s] = (s \in B!Depots(tracks'))
      BY <2>4, <3>6 DEF B!Tick, B!Bases
    <3>. QED  BY <3>4, <3>5, <3>6
  <2>5. \A V : B!Tick(V) => vis' = V
    BY DEF B!Tick
  <2>. QED  BY <1>1, <2>1, <2>2, <2>3, <2>4, <2>5 DEF B!Next
<1>2. BInv /\ [AllNext]_all =>
        [world' = world =>
            /\ B!Restrict(tracks', B!BuildingsIn(tracks', vis')) = B!Restrict(world, B!BuildingsIn(world, vis'))
            /\ \A s \in DOMAIN alive' \cap vis' : alive'[s] = (s \in B!Depots(world))]_(B!vars)
  BY <1>1, BelievesOrNot
<1>. QED  BY <1>2, BeliefThroughout, PTL DEF AllSpec, TrueInSight, B!TrueInSight

-----------------------------------------------------------------------------
(* Stance: what the helpers return                                         *)

\* A clock that runs stays between its floor and where it was.
LEMMA LessBounds ==
    ASSUME NEW floor \in {-1, 0}, NEW top \in Nat, NEW n \in floor..top
    PROVE  Less(n, floor) \in floor..top
  BY DEF Less

\* A choice is a build with the builds it weighs, or, once there is a current
\* build, none (TemplateStrategy.choose).
LEMMA ChoicesAreBuilds ==
    ASSUME NEW c \in Choices
    PROVE  /\ c.ws \subseteq Templates
           /\ c.top \in Templates \/ (c.top = Nil /\ current # Nil)
<1>1. ASSUME c \in Nothing PROVE c.ws = {} /\ c.top = Nil /\ current # Nil
  BY <1>1 DEF Nothing
<1>2. ASSUME NEW t \in Templates, c = Only(t) PROVE c.ws \subseteq Templates /\ c.top \in Templates
  BY <1>2 DEF Only
<1>3. \A r, a \in BOOLEAN : Rule(r, a) \in Templates
  BY TemplatesAssumption DEF Rule
<1>4. CASE setup.selector = "rules"
  <2>1. c \in RuleChoices
    BY <1>4 DEF Choices
  <2> QED
    BY <2>1, <1>2, <1>3 DEF RuleChoices
<1>5. CASE setup.selector = "fixed"
  <2>1. c \in FixedChoices
    BY <1>5 DEF Choices
  <2> QED
    BY <2>1, <1>1, <1>2 DEF FixedChoices
<1>6. CASE setup.selector = "explore"
  <2>1. c \in ExploreChoices
    BY <1>6 DEF Choices
  <2>2. c \in Nothing \/ \E t \in Templates : c = Only(t)
    BY <2>1 DEF ExploreChoices
  <2> QED
    BY <2>2, <1>1, <1>2
<1>7. CASE setup.selector \notin {"rules", "fixed", "explore"}
  <2>1. c \in LearnedChoices
    BY <1>7 DEF Choices
  <2>2. CASE c \in Nothing
    BY <2>2, <1>1
  <2>3. CASE setup.selector = "select" /\ c \notin Nothing
    BY <2>1, <2>3, <1>2 DEF LearnedChoices
  <2>4. CASE setup.selector # "select" /\ c \notin Nothing
    BY <2>1, <2>4 DEF LearnedChoices
  <2> QED
    BY <2>2, <2>3, <2>4
<1> QED
  BY <1>4, <1>5, <1>6, <1>7

\* Whatever is chosen, the slot has a build afterwards.
LEMMA ChooseKeepsABuild ==
    ASSUME StanceTypeOK, NEW c \in Choices, Choose(c)
    PROVE  current' \in Templates /\ since' \in 0..MinSwitch /\ weights' \subseteq Templates
<1> USE TemplatesAssumption, ClocksAssumption
<1>1. c.ws \subseteq Templates /\ (c.top \in Templates \/ (c.top = Nil /\ current # Nil))
  BY ChoicesAreBuilds
<1>2. CASE c.top = Nil /\ UNCHANGED <<current, since, weights>>
  BY <1>1, <1>2 DEF StanceTypeOK
<1>3. CASE /\ c.top \notin {Nil, current} /\ MaySwitch
           /\ current' = c.top /\ since' = 0 /\ weights' = c.ws
  BY <1>1, <1>3
<1>4. CASE /\ c.top # Nil /\ (c.top = current \/ ~MaySwitch)
           /\ weights' = c.ws /\ UNCHANGED <<current, since>>
  BY <1>1, <1>4 DEF StanceTypeOK, MaySwitch
<1> QED
  BY <1>2, <1>3, <1>4 DEF Choose

\* The scripted orders: only a push gives one of an advance.
ScriptedOrders == {"retreat", "gather", "attack", "hunt_air", "defend", "hold"}

LEMMA OrderKinds ==
    ASSUME NEW push \in BOOLEAN, NEW left2, NEW strung \in BOOLEAN, NEW target \in BOOLEAN,
           NEW air \in BOOLEAN
    PROVE  LET kind == OrderKind(push, left2, strung, target, air)
           IN  /\ kind \in ScriptedOrders
               /\ kind \in {"gather", "attack"} => push /\ left2 = 0
<1>1. Effective = "defend" \/ Effective # "defend"
  OBVIOUS
<1> QED
  BY <1>1 DEF OrderKind, ScriptedOrders

-----------------------------------------------------------------------------
(* Types                                                                   *)

LEMMA TypeInit == StanceInit => StanceTypeOK
<1> SUFFICES ASSUME StanceInit PROVE StanceTypeOK
  OBVIOUS
<1> USE ClocksAssumption DEF StanceInit
<1>1. requests \in [Requests -> Int] /\ \A k \in Requests : requests[k] \in -1..Ttl[k]
  BY DEF RequestsInit
<1>2. left \in -1..Defend /\ since \in 0..MinSwitch /\ retreat \in 0..Retreat
        /\ choiceLeft \in 0..Hold /\ evalLeft \in 0..Eval
  BY DEF CrisisInit, StrategyInit, PushInit, LearnedInit
<1> QED
  BY <1>1, <1>2 DEF CrisisInit, SlotInit, StrategyInit, PushInit, LearnedInit, OrderInit, StanceTypeOK

LEMMA TypePasses == StanceTypeOK /\ Passes => StanceTypeOK'
<1> SUFFICES ASSUME StanceTypeOK, Passes PROVE StanceTypeOK'
  OBVIOUS
<1> USE ClocksAssumption
<1>1. left' \in -1..Defend /\ retreat' \in 0..Retreat /\ choiceLeft' \in 0..Hold /\ evalLeft' \in 0..Eval
  BY LessBounds DEF StanceTypeOK, Passes
<1>2. since' \in 0..MinSwitch
  BY DEF StanceTypeOK, Passes
<1>3. requests' \in [Requests -> Int] /\ \A k \in Requests : requests'[k] \in -1..Ttl[k]
  <2>1. \A k \in Requests : Less(requests[k], -1) \in -1..Ttl[k]
    BY LessBounds DEF StanceTypeOK
  <2> QED
    BY <2>1 DEF Passes
<1> QED
  BY <1>1, <1>2, <1>3 DEF StanceTypeOK, Passes

LEMMA TypeCrisis == StanceTypeOK /\ Crisis => StanceTypeOK'
<1> SUFFICES ASSUME StanceTypeOK, Crisis PROVE StanceTypeOK'
  OBVIOUS
<1> USE ClocksAssumption
<1>1. requests' \in [Requests -> Int] /\ \A k \in Requests : requests'[k] \in -1..Ttl[k]
  BY DEF StanceTypeOK, Crisis, PostAll
<1>2. left' \in -1..Defend
  BY DEF StanceTypeOK, Crisis
<1>3. override' \in BOOLEAN
  <2>1. override' = TRUE \/ override' = (override /\ left >= 0)
    BY DEF Crisis, StillDefending
  <2> QED
    BY <2>1
<1> QED
  BY <1>1, <1>2, <1>3 DEF StanceTypeOK, Crisis, strategy, tactics

LEMMA TypeStrategy == StanceTypeOK /\ Strategy => StanceTypeOK'
<1> SUFFICES ASSUME StanceTypeOK, Strategy PROVE StanceTypeOK'
  OBVIOUS
<1>1. current' \in Templates /\ since' \in 0..MinSwitch /\ weights' \subseteq Templates
  BY ChooseKeepsABuild DEF Strategy
<1>2. goal' \subseteq Templates
  BY <1>1 DEF Strategy, Mixed
<1>3. opening' \in {"none", "going", "done"}
  BY DEF Strategy, OpeningNow, StanceTypeOK
<1>4. stance' \in {"hold", "defend", "attack"}
  BY DEF Strategy, PostureOf
<1> QED
  BY <1>1, <1>2, <1>3, <1>4 DEF StanceTypeOK, Strategy, crisis, tactics

\* What the scripted order leaves of the retreat.
LEMMA RetreatBounds ==
    ASSUME StanceTypeOK, NEW push, NEW f
    PROVE  RetreatLeft(push, f) \in 0..Retreat
  BY ClocksAssumption DEF StanceTypeOK, RetreatLeft

\* What a tick of Tactics comes to: no order, or one that depends on a fight f, on
\* whether the squad pushes and is strung out, and on what is left of the retreat.
NoOrder ==
    /\ order' = "none" /\ pushing' \in {FALSE, pushing} /\ fight' = FALSE
    /\ UNCHANGED <<retreat, choice, choiceLeft, evalLeft>>

Ordered(f, push, apart, left2, kind) ==
    /\ fight' = (f.contact /\ f.odds = "losing")
    /\ push => Effective = "attack"
    /\ push /\ Losing(f) => left2 = Retreat
    /\ kind \in {"gather", "attack"} => push /\ left2 = 0
    /\ Learnt(kind, push, left2, f, apart)

LEMMA TacticsOrders ==
    ASSUME StanceTypeOK, MainOrder
    PROVE  \/ NoOrder
           \/ \E f \in Fight, push \in BOOLEAN, apart \in BOOLEAN, left2 \in 0..Retreat, kind \in ScriptedOrders :
                 Ordered(f, push, apart, left2, kind)
<1> SUFFICES ASSUME ~NoOrder
             PROVE  \E f \in Fight, push \in BOOLEAN, apart \in BOOLEAN, left2 \in 0..Retreat, kind \in ScriptedOrders :
                       Ordered(f, push, apart, left2, kind)
  OBVIOUS
<1>0. \E f \in Fight, massed, thin, strung, target, air \in BOOLEAN :
           LET push  == Push(massed, thin)
               left2 == RetreatLeft(push, f)
               apart == strung /\ ~f.contact
           IN  /\ ~(massed /\ thin)
               /\ fight' = (f.contact /\ f.odds = "losing")
               /\ Learnt(OrderKind(push, left2, apart, target, air), push, left2, f, apart)
  BY DEF MainOrder, NoOrder
<1>1. PICK f \in Fight, massed \in BOOLEAN, thin \in BOOLEAN, strung \in BOOLEAN,
           target \in BOOLEAN, air \in BOOLEAN :
           LET push  == Push(massed, thin)
               left2 == RetreatLeft(push, f)
               apart == strung /\ ~f.contact
           IN  /\ fight' = (f.contact /\ f.odds = "losing")
               /\ Learnt(OrderKind(push, left2, apart, target, air), push, left2, f, apart)
  BY <1>0
<1> DEFINE push  == Push(massed, thin)
           left2 == RetreatLeft(push, f)
           apart == strung /\ ~f.contact
           kind  == OrderKind(push, left2, apart, target, air)
<1>2. push \in BOOLEAN /\ apart \in BOOLEAN /\ (push => Effective = "attack")
  BY DEF Push
<1>3. left2 \in 0..Retreat /\ (push /\ Losing(f) => left2 = Retreat)
  <2>1. left2 \in 0..Retreat
    BY RetreatBounds
  <2>2. ASSUME push, Losing(f) PROVE left2 = Retreat
    BY <2>2 DEF RetreatLeft, Losing
  <2> QED
    BY <2>1, <2>2
<1>4. fight' = (f.contact /\ f.odds = "losing") /\ Learnt(kind, push, left2, f, apart)
  BY <1>1
<1>5. kind \in ScriptedOrders /\ (kind \in {"gather", "attack"} => push /\ left2 = 0)
  BY <1>2, OrderKinds
<1> HIDE DEF push, left2, apart, kind
<1> QED
  BY <1>2, <1>3, <1>4, <1>5 DEF Ordered

LEMMA TypeLearnt ==
    ASSUME StanceTypeOK,
           NEW kind \in ScriptedOrders,
           NEW push \in BOOLEAN, NEW left2 \in 0..Retreat, NEW f, NEW strung \in BOOLEAN,
           Learnt(kind, push, left2, f, strung)
    PROVE  /\ pushing' \in BOOLEAN /\ retreat' \in 0..Retreat /\ choice' \in Options \cup {Nil}
           /\ choiceLeft' \in 0..Hold /\ evalLeft' \in 0..Eval
           /\ order' \in Options \cup {"none", "gather", "defend", "hunt_air"}
<1> USE ClocksAssumption
<1>0. kind \in Options \cup {"none", "gather", "defend", "hunt_air"}
  BY DEF Options, ScriptedOrders
<1>1. ASSUME NEW o \in Options, Take(o, strung)
      PROVE  pushing' \in BOOLEAN /\ order' \in Options \cup {"none", "gather", "defend", "hunt_air"}
  <2>1. pushing' \in BOOLEAN
    BY <1>1 DEF Take
  <2> QED
    BY <1>1, <2>1 DEF Take, Options
<1>2. CASE ~setup.learned \/ kind = "hunt_air" \/ InForce
  BY <1>0, <1>2 DEF Learnt, StanceTypeOK
<1>3. CASE setup.learned /\ kind # "hunt_air" /\ ~InForce
  <2>1. CASE choice' = Nil /\ choiceLeft' = 0 /\ retreat' = Retreat /\ order' = "retreat"
             /\ pushing' = push /\ UNCHANGED evalLeft
    BY <2>1 DEF StanceTypeOK, Options
  <2>2. CASE /\ retreat' = left2
             /\ evalLeft' = IF evalLeft = 0 THEN Eval ELSE evalLeft
             /\ \/ choice # Nil /\ Take(choice, strung) /\ UNCHANGED <<choice, choiceLeft>>
                \/ order' = kind /\ pushing' = push /\ UNCHANGED <<choice, choiceLeft>>
                \/ order' = kind /\ pushing' = push /\ choice' = Nil /\ UNCHANGED choiceLeft
                \/ \E o \in Options : choice' = o /\ choiceLeft' = Hold /\ Take(o, strung)
    <3>1. evalLeft' \in 0..Eval /\ retreat' \in 0..Retreat
      BY <2>2 DEF StanceTypeOK
    <3>2. CASE choice # Nil /\ Take(choice, strung) /\ UNCHANGED <<choice, choiceLeft>>
      BY <3>1, <3>2, <1>1 DEF StanceTypeOK
    <3>3. CASE order' = kind /\ pushing' = push /\ UNCHANGED <<choice, choiceLeft>>
      BY <3>1, <3>3, <1>0 DEF StanceTypeOK
    <3>4. CASE order' = kind /\ pushing' = push /\ choice' = Nil /\ UNCHANGED choiceLeft
      BY <3>1, <3>4, <1>0 DEF StanceTypeOK
    <3>5. CASE \E o \in Options : choice' = o /\ choiceLeft' = Hold /\ Take(o, strung)
      BY <3>1, <3>5, <1>1
    <3> QED
      BY <2>2, <3>2, <3>3, <3>4, <3>5
  <2> QED
    BY <1>3, <2>1, <2>2 DEF Learnt
<1> QED
  BY <1>2, <1>3 DEF Learnt

LEMMA TypeTactics == StanceTypeOK /\ MainOrder => StanceTypeOK'
<1> SUFFICES ASSUME StanceTypeOK, MainOrder PROVE StanceTypeOK'
  OBVIOUS
<1>1. CASE NoOrder
  BY <1>1 DEF NoOrder, StanceTypeOK, MainOrder, crisis, strategy
<1>2. CASE \E f \in Fight, push \in BOOLEAN, apart \in BOOLEAN, left2 \in 0..Retreat, kind \in ScriptedOrders :
             Ordered(f, push, apart, left2, kind)
  <2>1. PICK f \in Fight, push \in BOOLEAN, apart \in BOOLEAN, left2 \in 0..Retreat, kind \in ScriptedOrders :
             Ordered(f, push, apart, left2, kind)
    BY <1>2
  <2>2. fight' \in BOOLEAN
    BY <2>1 DEF Ordered
  <2>3. /\ pushing' \in BOOLEAN /\ retreat' \in 0..Retreat /\ choice' \in Options \cup {Nil}
        /\ choiceLeft' \in 0..Hold /\ evalLeft' \in 0..Eval
        /\ order' \in Options \cup {"none", "gather", "defend", "hunt_air"}
    BY <2>1, TypeLearnt DEF Ordered
  <2> QED
    BY <2>2, <2>3 DEF StanceTypeOK, MainOrder, crisis, strategy
<1> QED
  BY <1>1, <1>2, TacticsOrders

\* Every variable keeps to its values in every step (Crisis.tick,
\* TemplateStrategy.tick, Tactics.tick, Blackboard.begin_decision).
THEOREM StanceTypes == StanceSpec => []StanceTypeOK
<1>1. StanceTypeOK /\ [StanceNext]_stanceVars => StanceTypeOK'
  <2> SUFFICES ASSUME StanceTypeOK, [StanceNext]_stanceVars PROVE StanceTypeOK'
    OBVIOUS
  <2>1. CASE Pauses
    BY <2>1 DEF StanceTypeOK, Pauses, crisis, strategy, tactics
  <2>2. CASE UNCHANGED stanceVars
    BY <2>2 DEF StanceTypeOK, stanceVars, crisis, strategy, tactics
  <2> QED
    BY <2>1, <2>2, TypePasses, TypeCrisis, TypeStrategy, TypeTactics DEF StanceNext
<1> QED
  BY TypeInit, <1>1, PTL DEF StanceSpec

-----------------------------------------------------------------------------
(* What the main squad is ordered to do                                    *)

LEMMA DefendsAfterTactics == StanceTypeOK /\ MainOrder => CrisisDefends'
<1> SUFFICES ASSUME StanceTypeOK, MainOrder, InForce PROVE order' \notin {"attack", "gather", "contain"}
  BY DEF CrisisDefends, InForce, MainOrder, crisis
<1>1. ~(Effective = "attack")
  BY DEF Effective
<1>2. CASE NoOrder
  BY <1>2 DEF NoOrder
<1>3. ASSUME NEW f \in Fight, NEW push \in BOOLEAN, NEW apart \in BOOLEAN, NEW left2 \in 0..Retreat,
             NEW kind \in ScriptedOrders, Ordered(f, push, apart, left2, kind)
      PROVE  order' \notin {"attack", "gather", "contain"}
  <2>1. kind \notin {"attack", "gather", "contain"}
    BY <1>1, <1>3 DEF Ordered, ScriptedOrders
  <2>2. order' = kind
    BY <1>3 DEF Ordered, Learnt
  <2> QED
    BY <2>1, <2>2
<1> QED
  BY <1>2, <1>3, TacticsOrders

\* Once Crisis has overridden the posture, no decision ends with the main squad
\* sent to attack or to contain (Crisis.tick, Tactics._main_order,
\* LearnedTactics._main_order).
THEOREM DefendsInACrisis == StanceSpec => []CrisisDefends
<1>1. StanceInit => CrisisDefends
  BY DEF StanceInit, OrderInit, CrisisDefends
<1>2. StanceTypeOK /\ CrisisDefends /\ [StanceNext]_stanceVars => CrisisDefends'
  <2> SUFFICES ASSUME StanceTypeOK, CrisisDefends, [StanceNext]_stanceVars PROVE CrisisDefends'
    OBVIOUS
  <2>1. CASE Pauses \/ Passes \/ Crisis \/ Strategy
    BY <2>1 DEF Pauses, Passes, Crisis, Strategy, CrisisDefends
  <2>2. CASE UNCHANGED stanceVars
    BY <2>2 DEF stanceVars, crisis, tactics, CrisisDefends, InForce
  <2> QED
    BY <2>1, <2>2, DefendsAfterTactics DEF StanceNext
<1> QED
  BY <1>1, <1>2, StanceTypes, PTL DEF StanceSpec

LEMMA NoLosingPushAfterTactics == StanceTypeOK /\ MainOrder => NoLosingPush'
<1> SUFFICES ASSUME StanceTypeOK, MainOrder, fight', order' \in {"attack", "gather"}
             PROVE  setup'.learned /\ choice' # Nil /\ choiceLeft' = Hold
  BY DEF NoLosingPush
<1>1. ~NoOrder
  BY DEF NoOrder
<1>2. PICK f \in Fight, push \in BOOLEAN, apart \in BOOLEAN, left2 \in 0..Retreat, kind \in ScriptedOrders :
           Ordered(f, push, apart, left2, kind)
  BY <1>1, TacticsOrders
<1>3. Losing(f)
  BY <1>2 DEF Ordered, Losing
<1>4. kind \notin {"attack", "gather"}
  BY <1>2, <1>3, ClocksAssumption DEF Ordered
<1>5. setup.learned /\ kind # "hunt_air" /\ ~InForce
  BY <1>2, <1>4 DEF Ordered, Learnt
<1>6. choice \notin {"attack", "attack_base", "contain"}
  BY <1>2, <1>3, <1>5 DEF Ordered, Learnt
<1>7. ~(choice # Nil /\ Take(choice, apart))
  <2> SUFFICES ASSUME choice # Nil, Take(choice, apart) PROVE FALSE
    OBVIOUS
  <2>1. choice \in {"hold", "retreat"}
    BY <1>6 DEF StanceTypeOK, Options
  <2>2. order' = choice
    BY <2>1 DEF Take
  <2> QED
    BY <2>1, <2>2
<1> QED
  BY <1>2, <1>4, <1>5, <1>6, <1>7, OptionsAssumption DEF Ordered, Learnt, MainOrder

\* A fight that is being lost is never pushed into, but for an attack the value
\* model has just picked (Tactics._main_order, LearnedTactics._main_order).
THEOREM LosingPushesEnd == StanceSpec => []NoLosingPush
<1>1. StanceInit => NoLosingPush
  BY DEF StanceInit, OrderInit, PushInit, NoLosingPush
<1>2. StanceTypeOK /\ NoLosingPush /\ [StanceNext]_stanceVars => NoLosingPush'
  <2> SUFFICES ASSUME StanceTypeOK, NoLosingPush, [StanceNext]_stanceVars PROVE NoLosingPush'
    OBVIOUS
  <2>1. CASE Pauses \/ Passes \/ Crisis \/ Strategy
    BY <2>1 DEF Pauses, Passes, Crisis, Strategy, NoLosingPush
  <2>2. CASE UNCHANGED stanceVars
    BY <2>2 DEF stanceVars, tactics, NoLosingPush
  <2> QED
    BY <2>1, <2>2, NoLosingPushAfterTactics DEF StanceNext
<1> QED
  BY <1>1, <1>2, StanceTypes, PTL DEF StanceSpec

-----------------------------------------------------------------------------
(* The opening                                                             *)

\* Builds are mixed only while the opening is done: what OpeningFirst's second half
\* needs of the states before a step, for the goal that is kept.
MixedAfterOpening == Cardinality(goal) > 1 => opening = "done"

LEMMA OpeningStep ==
    ASSUME StanceTypeOK, MixedAfterOpening, [StanceNext]_stanceVars
    PROVE  /\ opening = "done" => opening' = "done"
           /\ Cardinality(goal') > 1 => opening' = "done"
<1>1. CASE Strategy
  <2>1. OpeningNow = "done" => opening' = "done"
    BY <1>1 DEF Strategy
  <2>2. opening = "done" => OpeningNow = "done"
    BY DEF OpeningNow
  <2>3. CASE OpeningNow # "done"
    <3>1. goal' = {current'}
      BY <1>1, <2>3 DEF Strategy, Mixed
    <3>2. Cardinality(goal') = 1
      BY <3>1, FS_Singleton
    <3> QED
      BY <3>2, <2>2, <2>3
  <2> QED
    BY <2>1, <2>2, <2>3
<1>2. CASE UNCHANGED <<opening, goal>>
  BY <1>2 DEF MixedAfterOpening
<1> QED
  BY <1>1, <1>2 DEF StanceNext, Pauses, Passes, Crisis, MainOrder, strategy, stanceVars

\* The opening ends once and for all, and only then are builds mixed
\* (TemplateStrategy._switch, _apply).
THEOREM OpeningComesFirst == StanceSpec => OpeningFirst
<1>1. StanceInit => MixedAfterOpening
  <2>1. Cardinality({}) = 0
    BY FS_EmptySet
  <2> QED
    BY <2>1 DEF StanceInit, StrategyInit, MixedAfterOpening
<1>2. StanceTypeOK /\ MixedAfterOpening /\ [StanceNext]_stanceVars => MixedAfterOpening'
  BY OpeningStep DEF MixedAfterOpening
<1>3. StanceTypeOK /\ MixedAfterOpening /\ [StanceNext]_stanceVars =>
        [/\ opening = "done" => opening' = "done"
         /\ Cardinality(goal') > 1 => opening' = "done"]_stanceVars
  BY OpeningStep
<1> QED
  BY <1>1, <1>2, <1>3, StanceTypes, PTL DEF StanceSpec, OpeningFirst
=============================================================================
