-------------------------- MODULE BuildJobsProofs --------------------------
(***************************************************************************)
(* The building jobs, for any workers, structures, sites, race and         *)
(* timeouts, and for games of any length.                                  *)
(***************************************************************************)
EXTENDS BuildJobs, CollectionTheorems

-----------------------------------------------------------------------------
(* Lists of jobs                                                           *)

\* The picked list holds the jobs at the places ix, each once.
LEMMA PickedJobs ==
    ASSUME NEW js \in Seq(Job), NEW ix \in SUBSET DOMAIN js
    PROVE  /\ Picked(js, ix) \in Seq(Job)
           /\ \A n \in DOMAIN Picked(js, ix) :
                Place(ix, n) \in ix /\ Picked(js, ix)[n] = js[Place(ix, n)]
           /\ \A n, m \in DOMAIN Picked(js, ix) : Place(ix, n) = Place(ix, m) => n = m
           /\ \A i \in ix : \E n \in DOMAIN Picked(js, ix) : Picked(js, ix)[n] = js[i]
<1>. DEFINE new == Picked(js, ix)
            m == Cardinality(ix)
<1>1. /\ new \in Seq(Job) /\ DOMAIN new = 1..m
      /\ \A n \in 1..m : Place(ix, n) \in ix /\ new[n] = js[Place(ix, n)]
      /\ \A n, k \in 1..m : Place(ix, n) = Place(ix, k) => n = k
      /\ \A i \in ix : \E n \in 1..m : Place(ix, n) = i /\ new[n] = js[i]
  BY PickedList
<1>. HIDE DEF new, m
<1>2. /\ \A n \in DOMAIN new : Place(ix, n) \in ix /\ new[n] = js[Place(ix, n)]
      /\ \A n, k \in DOMAIN new : Place(ix, n) = Place(ix, k) => n = k
      /\ \A i \in ix : \E n \in DOMAIN new : new[n] = js[i]
  BY <1>1
<1>. QED  BY <1>1, <1>2 DEF new

-----------------------------------------------------------------------------
(* What a worker does, what stands on a site, and what the game changes    *)

LEMMA OrdersThere ==
    ASSUME NEW s \in Sites, NEW t \in Types
    PROVE  /\ Mine \in Orders /\ Dead \in Orders
           /\ <<"move", s>> \in Orders /\ <<"construct", s>> \in Orders
           /\ <<"resume", s>> \in Orders /\ <<"build", s, t>> \in Orders
BY DEF Orders

LEMMA MineAndDead == Mine \in Orders /\ Dead \in Orders
BY DEF Orders

LEMMA OrderKinds ==
    ASSUME NEW o \in Orders
    PROVE  /\ o[1] = "build" => o[2] \in Sites /\ o[3] \in Types
           /\ o[1] \in {"move", "resume"} => o[2] \in Sites
BY DEF Orders, Mine, Dead

\* What can stand on a site.
LEMMA GroundKinds ==
    /\ \A g \in Ground : g[1] \in {"unfinished", "done"} => g[2] \in Types
    /\ \A t \in Types : Unfinished(t) \in Ground /\ <<"done", t>> \in Ground
    /\ <<"free">> \in Ground /\ <<"blocked">> \in Ground
BY DEF Ground, Unfinished

\* What belongs to the game and to other components has its type.
GameOK ==
    /\ order \in [Workers -> Orders] /\ at \in [Workers -> Sites \cup {None}]
    /\ ground \in [Sites -> Ground] /\ money \in 0..MaxMoney /\ faults \in 0..MaxFaults
    /\ owner \in [Workers -> {"none", "macro", "other"}]
    /\ cmds \in [Workers -> Orders \cup {None}]

\* What belongs to the executor has its type.
MacroOK ==
    /\ stage \in {"idle", "step", "plan"} /\ pos \in Nat /\ (stage # "step" => pos = 0)
    /\ jobs \in Seq(Job) /\ reserved \subseteq Sites /\ failed \subseteq Sites
    /\ cancelled \subseteq Types

LEMMA TypeParts == TypeOK <=> race \in Races /\ GameOK /\ MacroOK
BY DEF TypeOK, GameOK, MacroOK

\* A constructor that leaves goes to the minerals.
LEMMA LeavesType ==
    ASSUME GameOK, NEW s \in Sites, Leaves(s)
    PROVE  order' \in [Workers -> Orders] /\ at' \in [Workers -> Sites \cup {None}]
<1>1. order' \in [Workers -> Orders]
  BY MineAndDead DEF Leaves, GameOK
<1>2. at' \in [Workers -> Sites \cup {None}]
  BY DEF Leaves, GameOK
<1>. QED  BY <1>1, <1>2

LEMMA BuildsType ==
    ASSUME race \in Races, GameOK, NEW w \in Workers, Builds(w)
    PROVE  GameOK'
<1>. USE ConstantsAssumption DEF GameOK
<1>. DEFINE s == order[w][2]
            t == order[w][3]
<1>1. s \in Sites /\ t \in Types
  BY OrderKinds DEF Builds
<1>2. CASE FreeGround(s) /\ money > 0
  <2>1. /\ ground' = [ground EXCEPT ![s] = Unfinished(t)] /\ money' = money - 1
        /\ order' = [order EXCEPT ![w] = AfterPlacing(s)]
        /\ at' = [at EXCEPT ![w] = IF race = "terran" THEN s ELSE None]
        /\ cmds' = [cmds EXCEPT ![w] = IF race = "zerg" THEN None ELSE @]
        /\ UNCHANGED <<faults, owner>>
    BY <1>2 DEF Builds
  <2>2. AfterPlacing(s) \in Orders
    BY <1>1, OrdersThere DEF AfterPlacing
  <2>3. order' \in [Workers -> Orders] /\ at' \in [Workers -> Sites \cup {None}]
    BY <1>1, <2>1, <2>2
  <2>4. ground' \in [Sites -> Ground] /\ cmds' \in [Workers -> Orders \cup {None}]
    BY <1>1, <2>1, GroundKinds
  <2>5. money' \in 0..MaxMoney
    BY <1>2, <2>1
  <2>. QED  BY <2>1, <2>3, <2>4, <2>5
<1>3. CASE ~ (FreeGround(s) /\ money > 0)
  <2>1. order' = [order EXCEPT ![w] = Mine] /\ UNCHANGED <<at, ground, money, cmds, faults, owner>>
    BY <1>3 DEF Builds
  <2>. QED  BY <2>1, MineAndDead
<1>. QED  BY <1>2, <1>3

\* Between two ticks nothing leaves its type.
LEMMA BetweenType ==
    ASSUME race \in Races, GameOK, Between
    PROVE  GameOK'
<1>. USE ConstantsAssumption DEF GameOK
<1>1. ASSUME NEW w \in Workers, NEW s \in Sites \cup {None}, Walks(w, s)  PROVE GameOK'
  BY <1>1 DEF Walks
<1>2. ASSUME NEW w \in Workers, Receives(w)  PROVE GameOK'
  BY <1>2 DEF Receives
<1>3. ASSUME NEW w \in Workers, CommandLost(w)  PROVE GameOK'
  BY <1>3 DEF CommandLost, Fault
<1>4. ASSUME NEW w \in Workers, Builds(w)  PROVE GameOK'
  BY <1>4, BuildsType
<1>5. ASSUME NEW w \in Workers, Resumes(w)  PROVE GameOK'
  <2>1. order[w][2] \in Sites
    BY <1>5, OrderKinds DEF Resumes
  <2>2. <<"construct", order[w][2]>> \in Orders /\ Mine \in Orders
    BY <2>1 DEF Orders
  <2>. QED  BY <1>5, <2>2 DEF Resumes
<1>6. ASSUME NEW w \in Workers, Dies(w)  PROVE GameOK'
  BY <1>6, MineAndDead DEF Dies, Fault
<1>7. ASSUME NEW w \in Workers, Pulled(w) \/ LetGo(w)  PROVE GameOK'
  BY <1>7 DEF Pulled, LetGo, Fault
<1>8. ASSUME NEW s \in Sites, Completes(s)  PROVE GameOK'
  <2>1. ground[s][2] \in Types
    BY <1>8, GroundKinds DEF Completes
  <2>2. <<"done", ground[s][2]>> \in Ground
    BY <2>1, GroundKinds
  <2>3. ground' \in [Sites -> Ground]
    BY <1>8, <2>2 DEF Completes
  <2>. QED  BY <1>8, <2>3, LeavesType DEF Completes
<1>9. ASSUME NEW s \in Sites, Changes(s)  PROVE GameOK'
  <2>1. ground' \in [Sites -> Ground]
    BY <1>9, GroundKinds DEF Changes
  <2>2. order' \in [Workers -> Orders] /\ at' \in [Workers -> Sites \cup {None}]
    BY <1>9, LeavesType DEF Changes
  <2>. QED  BY <1>9, <2>1, <2>2 DEF Changes, Fault
<1>10. ASSUME MoneyMoves  PROVE GameOK'
  BY <1>10 DEF MoneyMoves
<1>. QED  BY <1>1, <1>2, <1>3, <1>4, <1>5, <1>6, <1>7, <1>8, <1>9, <1>10 DEF Between

-----------------------------------------------------------------------------
(* The turn of a job                                                       *)

\* The invariant that goes with the types.  A turn is that of a job or the one
\* after the last.  A job that is not over can lose another builder.  No two
\* jobs, over or not, have one builder.  And the builders of the jobs that have
\* had their turn belong to no other component until the tick is over.
TurnsTaken == stage = "step" => pos \in 1..Len(jobs) + 1
Spared     == \A i \in Live : jobs[i].deaths < BuilderDeaths
Exclusive  ==
    \A i, k \in DOMAIN jobs : jobs[i].worker = jobs[k].worker /\ i # k => jobs[i].worker = None
StillOurs  ==
    \A i \in DOMAIN jobs :
        stage = "plan" \/ (stage = "step" /\ i < pos)
        => jobs[i].worker = None \/ owner[jobs[i].worker] # "other"

IInv == TypeOK /\ TurnsTaken /\ Spared /\ Exclusive /\ StillOurs

LEMMA JobsThere ==
    ASSUME MacroOK
    PROVE  /\ Len(jobs) \in Nat /\ DOMAIN jobs = 1..Len(jobs)
           /\ \A i \in DOMAIN jobs : jobs[i] \in Job
BY LenProperties DEF MacroOK

\* The job whose turn it is, as the step finds it.
LEMMA JobAtTurn ==
    ASSUME MacroOK, GameOK, pos \in DOMAIN jobs
    PROVE  /\ J \in Job
           /\ J.type = jobs[pos].type /\ J.site = jobs[pos].site
           /\ J.status = jobs[pos].status /\ J.deaths = jobs[pos].deaths
           /\ J.worker = None \/ (J.worker = jobs[pos].worker /\ owner[J.worker] # "other")
<1>1. jobs[pos] \in Job
  BY JobsThere
<1>. DEFINE b == IF jobs[pos].worker # None /\ owner[jobs[pos].worker] = "other"
                 THEN None ELSE jobs[pos].worker
<1>2. J = [jobs[pos] EXCEPT !.worker = b]
  BY DEF J
<1>3. b \in Workers \cup {None}
  BY <1>1 DEF Job
<1>4. J \in Job /\ J.worker = b
  <2>. HIDE DEF b
  <2>. QED  BY <1>1, <1>2, <1>3 DEF Job
<1>5. /\ J.type = jobs[pos].type /\ J.site = jobs[pos].site
      /\ J.status = jobs[pos].status /\ J.deaths = jobs[pos].deaths
  <2>. HIDE DEF b
  <2>. QED  BY <1>1, <1>2 DEF Job
<1>. QED  BY <1>4, <1>5

\* What a turn does, whichever it is: job j takes its place, with the same
\* structure and site.  Its builder is the one it had, or a free worker, and
\* does not belong to another component; no worker gets another owner that way.
\* And if the structure stands there unfinished, the job is placed, or another
\* placed one has that site.
Shows(j) == ground[j.site] = Unfinished(j.type)
InOtherHands(j) ==
    jobs[pos].status = "walking"
    /\ \E k \in Live : jobs[k].status = "placed" /\ jobs[k].site = j.site

TurnOf(j) ==
    /\ j \in Job /\ j.type = jobs[pos].type /\ j.site = jobs[pos].site
    /\ Turn(j)
    /\ j.worker \in Pickable \cup {jobs[pos].worker, None}
    /\ j.worker = None \/ owner'[j.worker] # "other"
    /\ \A w \in Workers : owner'[w] = "other" => owner[w] = "other"
    /\ owner' \in [Workers -> {"none", "macro", "other"}]
    /\ cmds' \in [Workers -> Orders \cup {None}]
    /\ failed' \subseteq Sites
    /\ j.status = "over" \/ j.deaths < BuilderDeaths
    /\ Shows(j) => j.status = "placed" \/ InOtherHands(j)

\* Placer.fail takes a site of the map.
LEMMA FailedType ==
    ASSUME NEW j \in Job, NEW f \in SUBSET Sites
    PROVE  Failed(f, j) \subseteq Sites
BY DEF Failed, Job

\* Taking a worker gives it to macro and leaves the others' owners alone.
LEMMA ClaimOwns ==
    ASSUME GameOK, NEW w \in Workers, owner' = [owner EXCEPT ![w] = "macro"]
    PROVE  /\ owner' \in [Workers -> {"none", "macro", "other"}]
           /\ owner'[w] # "other"
           /\ \A v \in Workers : owner'[v] = "other" => owner[v] = "other"
BY DEF GameOK

\* What is given again or given up is still the job.
LEMMA AgainOrOver ==
    ASSUME NEW j \in Job, NEW why \in {"site", "travel"}, BuilderDeaths \in Nat
    PROVE  /\ Over(j) \in Job /\ Over(j).status = "over"
           /\ Over(j).type = j.type /\ Over(j).site = j.site
           /\ Over(j).worker = j.worker /\ Over(j).deaths = j.deaths
           /\ Retried(j, why) \in Job
           /\ Retried(j, why).type = j.type /\ Retried(j, why).site = j.site
           /\ Retried(j, why).worker = j.worker /\ Retried(j, why).deaths = j.deaths
<1>1. /\ Over(j) \in Job /\ Over(j).status = "over"
      /\ Over(j).type = j.type /\ Over(j).site = j.site
      /\ Over(j).worker = j.worker /\ Over(j).deaths = j.deaths
  BY DEF Over, Job
<1>2. CASE Retried(j, why) = Over(j)
  BY <1>1, <1>2
<1>3. CASE Retried(j, why) # Over(j)
  <2>1. Retried(j, why) = [Again(j) EXCEPT !.retries = j.retries + 1] /\ ~ (j.retries + 1 >= ExactRetries)
    BY <1>3 DEF Retried
  <2>2. /\ j.retries \in 0..ExactRetries /\ ExactRetries \in Nat /\ Reissue \in Nat /\ NotYet \in Nat
    BY ConstantsAssumption DEF NotYet, Job
  <2>3. NotYet \in 0..NotYet /\ Reissue \in 0..Reissue /\ j.retries + 1 \in 0..ExactRetries
    BY <2>1, <2>2
  <2>. DEFINE n == j.retries + 1
              a == [j EXCEPT !.arrived = NotYet, !.issued = Reissue, !.tried = FALSE]
  <2>4. /\ a \in Job /\ a.type = j.type /\ a.site = j.site
        /\ a.worker = j.worker /\ a.deaths = j.deaths
    BY <2>3 DEF Job
  <2>5. Retried(j, why) = [a EXCEPT !.retries = n] /\ n \in 0..ExactRetries
    BY <2>1, <2>3 DEF Again
  <2>. HIDE DEF n, a
  <2>. QED  BY <1>1, <2>4, <2>5 DEF Job
<1>. QED  BY <1>1, <1>2, <1>3

\* An order the executor gives leaves the commands what they are.
LEMMA OrderGiven ==
    ASSUME GameOK, NEW w \in Workers, NEW o \in Orders
    PROVE  [cmds EXCEPT ![w] = o] \in [Workers -> Orders \cup {None}]
BY DEF GameOK

\* The part of a turn that a builder w carries out, for a job j that goes on.
LEMMA AdvanceTurns ==
    ASSUME GameOK, MacroOK, pos \in DOMAIN jobs, NEW j \in Job, NEW w \in Workers,
           j.deaths < BuilderDeaths, Advance(j, w)
    PROVE  /\ cmds' \in [Workers -> Orders \cup {None}] /\ failed' \subseteq Sites
           /\ \E k \in Job :
                /\ Turn(k) /\ k.worker = w
                /\ k.type = j.type /\ k.site = j.site /\ k.deaths = j.deaths
<1>. DEFINE near     == at[w] = j.site
            building == Constructing(w) \/ order[w][1] = "build"
            mayIssue == ~building /\ j.issued >= Reissue
            ready    == near /\ money > 0
            arrived  == IF j.arrived = NotYet /\ near THEN 0 ELSE j.arrived
            stuck    == arrived # NotYet /\ money > 0 /\ arrived > SiteTimeout
            issued   == IF mayIssue THEN 0 ELSE j.issued
            tried    == j.tried \/ (mayIssue /\ ready)
            after    == [j EXCEPT !.arrived = arrived, !.worker = w, !.issued = issued,
                                  !.tried = tried]
<1>1. /\ cmds' \in
             CASE mayIssue /\ ready  -> {[cmds EXCEPT ![w] = <<"build", j.site, j.type>>]}
               [] mayIssue /\ ~ready /\ order[w] # <<"move", j.site>>
                    -> {[cmds EXCEPT ![w] = <<"move", j.site>>]}
                       \cup (IF near THEN {cmds} ELSE {})
               [] OTHER -> {cmds}
      /\ \/ Turn(Retried(after, "site")) /\ failed' = Failed(failed, j)
         \/ Turn(Retried(after, "travel")) /\ failed' = Failed(failed, j)
         \/ Turn(after) /\ UNCHANGED failed
  BY DEF Advance
<1>2. arrived \in 0..NotYet /\ issued \in 0..Reissue /\ tried \in BOOLEAN
  BY ConstantsAssumption DEF Job, NotYet
<1>3. /\ after \in Job /\ after.worker = w
      /\ after.type = j.type /\ after.site = j.site /\ after.deaths = j.deaths
  <2>. HIDE DEF arrived, issued, tried
  <2>. QED  BY <1>2 DEF Job
<1>4. BuilderDeaths \in Nat
  BY ConstantsAssumption
<1>5. cmds' \in [Workers -> Orders \cup {None}]
  <2>1. j.site \in Sites /\ j.type \in Types
    BY DEF Job
  <2>2. /\ cmds \in [Workers -> Orders \cup {None}]
        /\ [cmds EXCEPT ![w] = <<"build", j.site, j.type>>] \in [Workers -> Orders \cup {None}]
        /\ [cmds EXCEPT ![w] = <<"move", j.site>>] \in [Workers -> Orders \cup {None}]
    BY <2>1, OrdersThere, OrderGiven DEF GameOK
  <2>3. cmds' \in {cmds, [cmds EXCEPT ![w] = <<"build", j.site, j.type>>],
                   [cmds EXCEPT ![w] = <<"move", j.site>>]}
    <3>. HIDE DEF near, mayIssue, ready
    <3>1. CASE mayIssue /\ ready
      BY <1>1, <3>1
    <3>2. CASE mayIssue /\ ~ready /\ order[w] # <<"move", j.site>>
      BY <1>1, <3>2
    <3>3. CASE ~ (mayIssue /\ ready) /\ ~ (mayIssue /\ ~ready /\ order[w] # <<"move", j.site>>)
      BY <1>1, <3>3
    <3>. QED  BY <3>1, <3>2, <3>3
  <2>. QED  BY <2>2, <2>3
<1>6. failed' \subseteq Sites
  BY <1>1, FailedType DEF MacroOK
<1>7. \E k \in Job : /\ Turn(k) /\ k.worker = w
                     /\ k.type = j.type /\ k.site = j.site /\ k.deaths = j.deaths
  <2>. HIDE DEF after
  <2>. QED  BY <1>1, <1>3, <1>4, AgainOrOver
<1>. QED  BY <1>5, <1>6, <1>7

\* A job that walks and is not placed leaves its structure, if it stands there,
\* in the hands of another.
LEMMA NotPlaced ==
    ASSUME MacroOK, GameOK, pos \in DOMAIN jobs, J.status = "walking", ~Placed(J),
           NEW j \in Job, j.type = J.type, j.site = J.site, Shows(j)
    PROVE  InOtherHands(j)
BY JobAtTurn DEF Placed, Shows, InOtherHands

\* A worker that is pickable is one, and belongs to no other component.
LEMMA PickableThere ==
    ASSUME NEW w \in Pickable
    PROVE  w \in Workers /\ w \notin Busy /\ owner[w] # "other"
BY DEF Pickable

\* Every turn is the turn of a job.
LEMMA StepIsTurn ==
    ASSUME TypeOK, Spared, StepJob
    PROVE  stage = "step" /\ pos \in DOMAIN jobs /\ \E j \in Job : TurnOf(j)
<1>1. stage = "step" /\ pos \in DOMAIN jobs
  BY DEF StepJob
<1>2. GameOK /\ MacroOK
  BY TypeParts
<1>3. /\ J \in Job /\ J.type = jobs[pos].type /\ J.site = jobs[pos].site
      /\ J.status = jobs[pos].status /\ J.deaths = jobs[pos].deaths
      /\ J.worker = None \/ (J.worker = jobs[pos].worker /\ owner[J.worker] # "other")
  BY <1>1, <1>2, JobAtTurn
<1>4. /\ J.site \in Sites /\ J.type \in Types /\ J.worker \in Workers \cup {None}
      /\ J.deaths \in 0..BuilderDeaths /\ BuilderDeaths \in Nat \ {0}
      /\ 0 \in 0..Reissue /\ Reissue \in 0..Reissue /\ None \notin Workers
  BY <1>3, ConstantsAssumption DEF Job
<1>5. J.status # "over" => J.deaths < BuilderDeaths
  BY <1>1, <1>3 DEF Spared, Live
<1>6. /\ owner \in [Workers -> {"none", "macro", "other"}]
      /\ cmds \in [Workers -> Orders \cup {None}] /\ failed \subseteq Sites
  BY <1>2 DEF GameOK, MacroOK
<1>7. CASE StructureOver
  <2>. DEFINE j == Over(J)
  <2>1. /\ j \in Job /\ j.type = J.type /\ j.site = J.site
        /\ j.worker = J.worker /\ j.status = "over"
    BY <1>3, <1>4, AgainOrOver
  <2>2. Turn(j) /\ UNCHANGED <<failed, owner, cmds>> /\ ~Shows(j)
    BY <1>7, <2>1 DEF StructureOver, Shows
  <2>. HIDE DEF j
  <2>3. TurnOf(j)
    BY <1>3, <1>6, <2>1, <2>2 DEF TurnOf
  <2>. QED  BY <1>1, <2>1, <2>3
<1>8. CASE KeepBuilder
  <2>1. J.status = "placed" /\ UNCHANGED failed
    BY <1>8 DEF KeepBuilder
  <2>2. CASE Turn(J) /\ UNCHANGED <<owner, cmds>>
    <3>1. TurnOf(J)
      BY <1>3, <1>5, <1>6, <2>1, <2>2 DEF TurnOf
    <3>. QED  BY <1>1, <1>3, <3>1
  <2>. DEFINE sent == <<"resume", J.site>>
  <2>3. sent \in Orders
    BY <1>4, OrdersThere
  <2>4. CASE /\ Alive(J.worker) /\ Turn([J EXCEPT !.issued = 0])
             /\ cmds' = [cmds EXCEPT ![J.worker] = sent]
             /\ UNCHANGED owner
    <3>. DEFINE j == [J EXCEPT !.issued = 0]
    <3>1. /\ j \in Job /\ j.type = J.type /\ j.site = J.site /\ j.status = J.status
          /\ j.worker = J.worker /\ j.deaths = J.deaths
      BY <1>3, <1>4 DEF Job
    <3>2. cmds' \in [Workers -> Orders \cup {None}]
      BY <1>2, <1>4, <2>3, <2>4, OrderGiven DEF Alive
    <3>3. Turn(j) /\ UNCHANGED owner
      BY <2>4
    <3>. HIDE DEF j
    <3>4. TurnOf(j)
      BY <1>3, <1>5, <1>6, <2>1, <3>1, <3>2, <3>3 DEF TurnOf
    <3>. QED  BY <1>1, <3>1, <3>4
  <2>5. ASSUME NEW w \in Pickable, Turn([J EXCEPT !.issued = 0, !.worker = w]),
               Claim(w), cmds' = [cmds EXCEPT ![w] = sent]
        PROVE  \E j \in Job : TurnOf(j)
    <3>. DEFINE j == [J EXCEPT !.issued = 0, !.worker = w]
    <3>1. w \in Workers
      BY PickableThere
    <3>2. /\ j \in Job /\ j.type = J.type /\ j.site = J.site /\ j.status = J.status
          /\ j.worker = w /\ j.deaths = J.deaths
      BY <1>3, <1>4, <3>1 DEF Job
    <3>3. cmds' \in [Workers -> Orders \cup {None}]
      BY <1>2, <2>3, <2>5, <3>1, OrderGiven
    <3>4. /\ owner' \in [Workers -> {"none", "macro", "other"}] /\ owner'[w] # "other"
          /\ \A v \in Workers : owner'[v] = "other" => owner[v] = "other"
      BY <1>2, <2>5, <3>1, ClaimOwns DEF Claim
    <3>5. Turn(j)
      BY <2>5
    <3>. HIDE DEF j
    <3>6. TurnOf(j)
      BY <1>3, <1>5, <1>6, <2>1, <3>2, <3>3, <3>4, <3>5 DEF TurnOf
    <3>. QED  BY <3>2, <3>6
  <2>6. CASE /\ Turn([J EXCEPT !.issued = 0, !.worker = None])
             /\ UNCHANGED <<owner, cmds>>
    <3>. DEFINE j == [J EXCEPT !.issued = 0, !.worker = None]
    <3>1. /\ j \in Job /\ j.type = J.type /\ j.site = J.site /\ j.status = J.status
          /\ j.worker = None /\ j.deaths = J.deaths
      BY <1>3, <1>4 DEF Job
    <3>2. Turn(j) /\ UNCHANGED <<owner, cmds>>
      BY <2>6
    <3>. HIDE DEF j
    <3>3. TurnOf(j)
      BY <1>3, <1>5, <1>6, <2>1, <3>1, <3>2 DEF TurnOf
    <3>. QED  BY <1>1, <3>1, <3>3
  <2>. QED  BY <1>1, <1>8, <2>2, <2>4, <2>5, <2>6 DEF KeepBuilder
<1>9. CASE SeesPlaced
  <2>. DEFINE b == IF race = "terran" THEN J.worker ELSE None
              j == [J EXCEPT !.status = "placed", !.worker = b]
  <2>1. J.status = "walking" /\ UNCHANGED <<failed, owner, cmds>>
    BY <1>9 DEF SeesPlaced
  <2>2. /\ j \in Job /\ j.type = J.type /\ j.site = J.site /\ j.status = "placed"
        /\ j.worker = b /\ j.deaths = J.deaths
    <3>1. b \in Workers \cup {None}
      BY <1>4
    <3>. HIDE DEF b
    <3>. QED  BY <1>3, <3>1 DEF Job
  <2>3. Turn(j)
    BY <1>9 DEF SeesPlaced
  <2>4. b = None \/ b = J.worker
    OBVIOUS
  <2>. HIDE DEF j, b
  <2>5. TurnOf(j)
    BY <1>3, <1>5, <1>6, <2>1, <2>2, <2>3, <2>4 DEF TurnOf
  <2>. QED  BY <1>1, <2>2, <2>5
<1>10. CASE Dangerous
  <2>1. /\ J.status = "walking" /\ ~Placed(J) /\ J.worker # None
        /\ Turn(Over([J EXCEPT !.deaths = Deaths])) /\ failed' = Failed(failed, J)
        /\ UNCHANGED <<owner, cmds>>
    BY <1>10 DEF Dangerous, Bereft
  <2>2. Deaths \in 0..BuilderDeaths
    BY <1>4, <1>5, <2>1 DEF Deaths
  <2>. DEFINE d == [J EXCEPT !.deaths = Deaths]
              j == Over(d)
  <2>3. d \in Job /\ d.type = J.type /\ d.site = J.site /\ d.worker = J.worker
    BY <1>3, <2>2 DEF Job
  <2>4. /\ j \in Job /\ j.type = J.type /\ j.site = J.site
        /\ j.worker = J.worker /\ j.status = "over"
    BY <1>4, <2>3, AgainOrOver
  <2>5. failed' \subseteq Sites
    BY <1>3, <1>6, <2>1, FailedType
  <2>6. Shows(j) => InOtherHands(j)
    BY <1>1, <1>2, <2>1, <2>4, NotPlaced
  <2>7. Turn(j)
    BY <2>1
  <2>. HIDE DEF j
  <2>8. TurnOf(j)
    BY <1>3, <1>6, <2>1, <2>4, <2>5, <2>6, <2>7 DEF TurnOf
  <2>. QED  BY <1>1, <2>4, <2>8
<1>11. CASE Waits
  <2>1. /\ J.status = "walking" /\ ~Placed(J) /\ (J.worker # None => Deaths < BuilderDeaths)
        /\ Turn([J EXCEPT !.deaths = Deaths, !.worker = None])
        /\ UNCHANGED <<failed, owner, cmds>>
    BY <1>11 DEF Waits, Bereft
  <2>2. Deaths \in 0..BuilderDeaths /\ Deaths < BuilderDeaths
    BY <1>4, <1>5, <2>1 DEF Deaths
  <2>. DEFINE j == [J EXCEPT !.deaths = Deaths, !.worker = None]
  <2>3. /\ j \in Job /\ j.type = J.type /\ j.site = J.site /\ j.status = J.status
        /\ j.worker = None /\ j.deaths = Deaths
    BY <1>3, <2>2 DEF Job
  <2>4. Shows(j) => InOtherHands(j)
    BY <1>1, <1>2, <2>1, <2>3, NotPlaced
  <2>5. Turn(j)
    BY <2>1
  <2>. HIDE DEF j
  <2>6. TurnOf(j)
    BY <1>3, <1>6, <2>1, <2>2, <2>3, <2>4, <2>5 DEF TurnOf
  <2>. QED  BY <1>1, <2>3, <2>6
<1>12. CASE WalksOn
  <2>1. /\ J.status = "walking" /\ ~Placed(J) /\ Alive(J.worker)
        /\ Advance(J, J.worker) /\ UNCHANGED owner
    BY <1>12 DEF WalksOn
  <2>2. J.worker \in Workers
    BY <1>4, <2>1 DEF Alive
  <2>3. PICK j \in Job : /\ Turn(j) /\ j.worker = J.worker
                         /\ j.type = J.type /\ j.site = J.site /\ j.deaths = J.deaths
    BY <1>1, <1>2, <1>3, <1>5, <2>1, <2>2, AdvanceTurns
  <2>4. cmds' \in [Workers -> Orders \cup {None}] /\ failed' \subseteq Sites
    BY <1>1, <1>2, <1>3, <1>5, <2>1, <2>2, AdvanceTurns
  <2>5. Shows(j) => InOtherHands(j)
    BY <1>1, <1>2, <2>1, <2>3, NotPlaced
  <2>6. TurnOf(j)
    BY <1>3, <1>5, <1>6, <2>1, <2>3, <2>4, <2>5 DEF TurnOf
  <2>. QED  BY <1>1, <2>6
<1>13. ASSUME NEW w \in Workers, NewBuilder(w)  PROVE \E j \in Job : TurnOf(j)
  <2>. DEFINE i == [J EXCEPT !.deaths = Deaths, !.issued = Reissue]
  <2>1. /\ J.status = "walking" /\ ~Placed(J) /\ (J.worker # None => Deaths < BuilderDeaths)
        /\ w \in Pickable /\ Advance(i, w) /\ Claim(w)
    BY <1>13 DEF NewBuilder, Bereft
  <2>2. Deaths \in 0..BuilderDeaths /\ Deaths < BuilderDeaths
    BY <1>4, <1>5, <2>1 DEF Deaths
  <2>3. /\ i \in Job /\ i.type = J.type /\ i.site = J.site /\ i.deaths = Deaths
    BY <1>3, <1>4, <2>2 DEF Job
  <2>. HIDE DEF i
  <2>4. PICK j \in Job : /\ Turn(j) /\ j.worker = w
                         /\ j.type = i.type /\ j.site = i.site /\ j.deaths = i.deaths
    BY <1>1, <1>2, <2>1, <2>2, <2>3, AdvanceTurns
  <2>5. cmds' \in [Workers -> Orders \cup {None}] /\ failed' \subseteq Sites
    BY <1>1, <1>2, <2>1, <2>2, <2>3, AdvanceTurns
  <2>6. /\ owner' \in [Workers -> {"none", "macro", "other"}] /\ owner'[w] # "other"
        /\ \A v \in Workers : owner'[v] = "other" => owner[v] = "other"
    BY <1>2, <2>1, ClaimOwns DEF Claim
  <2>7. Shows(j) => InOtherHands(j)
    BY <1>1, <1>2, <2>1, <2>3, <2>4, NotPlaced
  <2>8. TurnOf(j)
    BY <1>3, <2>1, <2>2, <2>3, <2>4, <2>5, <2>6, <2>7 DEF TurnOf
  <2>. QED  BY <2>8
<1>. QED  BY <1>1, <1>7, <1>8, <1>9, <1>10, <1>11, <1>12, <1>13 DEF StepJob

-----------------------------------------------------------------------------
(* The invariant                                                           *)

LEMMA InitInv == Init => IInv
<1>. SUFFICES ASSUME Init  PROVE IInv
  OBVIOUS
<1>1. Len(jobs) = 0 /\ DOMAIN jobs = {} /\ jobs \in Seq(Job)
  BY EmptySeq DEF Init
<1>2. GameOK
  BY MineAndDead, GroundKinds, ConstantsAssumption DEF Init, GameOK
<1>3. race \in Races /\ MacroOK
  BY <1>1 DEF Init, MacroOK
<1>4. TurnsTaken
  BY DEF Init, TurnsTaken
<1>5. Spared /\ Exclusive /\ StillOurs
  BY <1>1 DEF Spared, Exclusive, StillOurs, Live
<1>. QED  BY <1>2, <1>3, <1>4, <1>5, TypeParts DEF IInv

\* Between ticks the jobs stay what they are.
LEMMA BetweenInv ==
    ASSUME IInv, Between
    PROVE  IInv'
<1>1. stage = "idle" /\ UNCHANGED <<race, macro>>
  BY DEF Between
<1>2. race \in Races /\ GameOK /\ MacroOK
  BY TypeParts DEF IInv
<1>3. race' \in Races /\ MacroOK'
  BY <1>1, <1>2 DEF macro, MacroOK
<1>4. GameOK'
  BY <1>2, BetweenType
<1>5. TypeOK'
  BY <1>3, <1>4 DEF TypeOK, GameOK, MacroOK
<1>6. TurnsTaken' /\ Spared' /\ Exclusive' /\ StillOurs'
  BY <1>1 DEF macro, IInv, TurnsTaken, Spared, Exclusive, StillOurs, Live
<1>. QED  BY <1>5, <1>6 DEF IInv

\* What the executor leaves of the game.
LEMMA GameStays ==
    ASSUME TypeOK, UNCHANGED <<race, game>>,
           owner' \in [Workers -> {"none", "macro", "other"}],
           cmds' \in [Workers -> Orders \cup {None}]
    PROVE  race' \in Races /\ GameOK'
BY TypeParts DEF game, GameOK

LEMMA PrimedTypes ==
    ASSUME race' \in Races, GameOK', MacroOK'
    PROVE  TypeOK'
BY DEF TypeOK, GameOK, MacroOK

\* The clocks of a job run on.
LEMMA Ticked ==
    ASSUME NEW j \in Job
    PROVE  LET k == [j EXCEPT !.arrived = IF @ = NotYet THEN @ ELSE Older(@, SiteTimeout + 1),
                              !.issued  = Older(@, Reissue)]
           IN  /\ k \in Job /\ k.type = j.type /\ k.site = j.site /\ k.worker = j.worker
               /\ k.status = j.status /\ k.deaths = j.deaths
<1>. DEFINE a == IF j.arrived = NotYet THEN j.arrived ELSE Older(j.arrived, SiteTimeout + 1)
            b == Older(j.issued, Reissue)
            k == [j EXCEPT !.arrived = a, !.issued = b]
<1>1. a \in 0..NotYet /\ b \in 0..Reissue
  BY ConstantsAssumption DEF Job, NotYet, Older
<1>2. /\ k \in Job /\ k.type = j.type /\ k.site = j.site /\ k.worker = j.worker
      /\ k.status = j.status /\ k.deaths = j.deaths
  <2>. HIDE DEF a, b
  <2>. QED  BY <1>1 DEF Job
<1>. QED  BY <1>2

\* The jobs as a tick begins.
LEMMA BeginJobs ==
    ASSUME MacroOK, Begin
    PROVE  /\ jobs' \in Seq(Job) /\ DOMAIN jobs' = DOMAIN jobs
           /\ \A i \in DOMAIN jobs :
                /\ jobs'[i].type = jobs[i].type /\ jobs'[i].site = jobs[i].site
                /\ jobs'[i].worker = jobs[i].worker /\ jobs'[i].status = jobs[i].status
                /\ jobs'[i].deaths = jobs[i].deaths
<1>. DEFINE tick(j) == [j EXCEPT !.arrived = IF @ = NotYet THEN @ ELSE Older(@, SiteTimeout + 1),
                                 !.issued  = Older(@, Reissue)]
<1>1. jobs' = [i \in DOMAIN jobs |-> tick(jobs[i])]
  BY DEF Begin
<1>2. /\ Len(jobs) \in Nat /\ DOMAIN jobs = 1..Len(jobs)
      /\ \A i \in DOMAIN jobs : jobs[i] \in Job
  BY JobsThere
<1>3. \A j \in Job : /\ tick(j) \in Job /\ tick(j).type = j.type /\ tick(j).site = j.site
                     /\ tick(j).worker = j.worker /\ tick(j).status = j.status
                     /\ tick(j).deaths = j.deaths
  BY Ticked
<1>. HIDE DEF tick
<1>4. jobs' \in [1..Len(jobs) -> Job] /\ DOMAIN jobs' = DOMAIN jobs
  BY <1>1, <1>2, <1>3
<1>5. jobs' \in Seq(Job)
  BY <1>2, <1>4, SeqDef
<1>. QED  BY <1>1, <1>2, <1>3, <1>4, <1>5

LEMMA BeginInv ==
    ASSUME IInv, Begin
    PROVE  IInv'
<1>1. race \in Races /\ GameOK /\ MacroOK /\ TypeOK
  BY TypeParts DEF IInv
<1>2. /\ jobs' \in Seq(Job) /\ DOMAIN jobs' = DOMAIN jobs
      /\ \A i \in DOMAIN jobs :
           /\ jobs'[i].type = jobs[i].type /\ jobs'[i].site = jobs[i].site
           /\ jobs'[i].worker = jobs[i].worker /\ jobs'[i].status = jobs[i].status
           /\ jobs'[i].deaths = jobs[i].deaths
  BY <1>1, BeginJobs
<1>3. owner' \in [Workers -> {"none", "macro", "other"}] /\ UNCHANGED cmds
  BY <1>1 DEF Begin, GameOK
<1>4. race' \in Races /\ GameOK'
  BY <1>1, <1>3, GameStays DEF Begin, GameOK
<1>5. MacroOK' /\ stage' = "step" /\ pos' = 1
  BY <1>1, <1>2 DEF Begin, MacroOK
<1>6. TypeOK'
  BY <1>4, <1>5, PrimedTypes
<1>7. TurnsTaken'
  <2>1. Len(jobs') \in Nat
    BY <1>2, LenProperties
  <2>. QED  BY <1>5, <2>1 DEF TurnsTaken
<1>8. Spared'
  BY <1>2 DEF IInv, Spared, Live
<1>9. Exclusive'
  BY <1>2 DEF IInv, Exclusive
<1>10. StillOurs'
  <2>1. DOMAIN jobs \subseteq Nat \ {0}
    BY <1>1, JobsThere
  <2>. QED  BY <1>2, <1>5, <2>1 DEF StillOurs
<1>. QED  BY <1>6, <1>7, <1>8, <1>9, <1>10 DEF IInv

\* The jobs after a turn.
LEMMA TurnJobs ==
    ASSUME MacroOK, pos \in DOMAIN jobs, NEW j \in Job, Turn(j)
    PROVE  /\ jobs' \in Seq(Job) /\ DOMAIN jobs' = DOMAIN jobs /\ Len(jobs') = Len(jobs)
           /\ jobs'[pos] = j
           /\ \A i \in DOMAIN jobs : i # pos => jobs'[i] = jobs[i]
           /\ pos' = pos + 1 /\ pos' \in 1..Len(jobs) + 1
           /\ UNCHANGED <<race, game, stage, cancelled>>
<1>1. Len(jobs) \in Nat /\ DOMAIN jobs = 1..Len(jobs) /\ jobs \in Seq(Job)
  BY JobsThere DEF MacroOK
<1>2. /\ jobs' = [jobs EXCEPT ![pos] = j] /\ pos' = pos + 1
      /\ UNCHANGED <<race, game, stage, cancelled>>
  BY DEF Turn
<1>3. jobs' \in Seq(Job) /\ Len(jobs') = Len(jobs) /\ DOMAIN jobs' = DOMAIN jobs
  BY <1>1, <1>2, ExceptSeq
<1>4. jobs'[pos] = j /\ \A i \in DOMAIN jobs : i # pos => jobs'[i] = jobs[i]
  BY <1>1, <1>2
<1>. QED  BY <1>1, <1>2, <1>3, <1>4

LEMMA StepInv ==
    ASSUME IInv, StepJob
    PROVE  IInv'
<1>1. race \in Races /\ GameOK /\ MacroOK /\ TypeOK
  BY TypeParts DEF IInv
<1>2. stage = "step" /\ pos \in DOMAIN jobs
  BY <1>1, StepIsTurn DEF IInv
<1>3. PICK j \in Job : TurnOf(j)
  BY <1>1, StepIsTurn DEF IInv
<1>4. /\ jobs' \in Seq(Job) /\ DOMAIN jobs' = DOMAIN jobs /\ Len(jobs') = Len(jobs)
      /\ jobs'[pos] = j
      /\ \A i \in DOMAIN jobs : i # pos => jobs'[i] = jobs[i]
      /\ pos' = pos + 1 /\ pos' \in 1..Len(jobs) + 1
      /\ UNCHANGED <<race, game, stage, cancelled>>
  BY <1>1, <1>2, <1>3, TurnJobs DEF TurnOf
<1>5. Len(jobs) \in Nat /\ DOMAIN jobs = 1..Len(jobs) /\ pos \in Nat
  BY <1>1, JobsThere DEF MacroOK
<1>6. /\ owner' \in [Workers -> {"none", "macro", "other"}]
      /\ cmds' \in [Workers -> Orders \cup {None}] /\ failed' \subseteq Sites
  BY <1>3 DEF TurnOf
<1>7. race' \in Races /\ GameOK'
  BY <1>1, <1>4, <1>6, GameStays
<1>8. reserved' \subseteq Sites
  BY <1>1, <1>3 DEF TurnOf, Turn, Released, MacroOK
<1>9. MacroOK'
  BY <1>1, <1>2, <1>4, <1>5, <1>6, <1>8 DEF MacroOK
<1>10. TypeOK'
  BY <1>7, <1>9, PrimedTypes
<1>11. TurnsTaken'
  BY <1>4 DEF TurnsTaken
<1>12. Spared'
  <2>1. j.status = "over" \/ j.deaths < BuilderDeaths
    BY <1>3 DEF TurnOf
  <2>. QED  BY <1>4, <2>1 DEF IInv, Spared, Live
<1>13. Exclusive'
  <2>1. j.worker \in Pickable \cup {jobs[pos].worker, None}
    BY <1>3 DEF TurnOf
  <2>2. ASSUME NEW i \in DOMAIN jobs, i # pos, jobs[i].worker = j.worker
        PROVE  j.worker = None
    <3>1. CASE j.worker \in Pickable
      <4>1. j.worker \notin Busy
        BY <3>1, PickableThere
      <4>. QED  BY <2>2, <4>1 DEF Busy
    <3>2. CASE j.worker = jobs[pos].worker
      BY <1>2, <2>2, <3>2 DEF IInv, Exclusive
    <3>. QED  BY <2>1, <3>1, <3>2
  <2>3. ASSUME NEW i \in DOMAIN jobs', NEW k \in DOMAIN jobs',
               jobs'[i].worker = jobs'[k].worker, i # k
        PROVE  jobs'[i].worker = None
    <3>1. CASE i = pos
      BY <1>4, <2>2, <2>3, <3>1
    <3>2. CASE k = pos
      BY <1>4, <2>2, <2>3, <3>2
    <3>3. CASE i # pos /\ k # pos
      BY <1>4, <2>3, <3>3 DEF IInv, Exclusive
    <3>. QED  BY <3>1, <3>2, <3>3
  <2>. QED  BY <2>3 DEF Exclusive
<1>14. StillOurs'
  <2>1. ASSUME NEW i \in DOMAIN jobs, i < pos + 1
        PROVE  jobs'[i].worker = None \/ owner'[jobs'[i].worker] # "other"
    <3>1. CASE i = pos
      BY <1>3, <1>4, <3>1 DEF TurnOf
    <3>2. CASE i # pos
      <4>1. i < pos
        BY <1>5, <2>1, <3>2
      <4>2. jobs[i].worker = None \/ owner[jobs[i].worker] # "other"
        BY <1>2, <4>1 DEF IInv, StillOurs
      <4>3. jobs[i].worker \in Workers \cup {None}
        BY <1>1, JobsThere DEF Job
      <4>. QED  BY <1>3, <1>4, <3>2, <4>2, <4>3 DEF TurnOf
    <3>. QED  BY <3>1, <3>2
  <2>. QED  BY <1>2, <1>4, <2>1 DEF StillOurs
<1>. QED  BY <1>10, <1>11, <1>12, <1>13, <1>14 DEF IInv

\* What a cancel leaves of the jobs: every place of the new list is that of a
\* job that was live and is not cancelled, and all of those are there.
Left(cancel) == {i \in Live : ~IsCancelled(jobs[i], cancel)}

LEMMA CancelJobs ==
    ASSUME MacroOK, NEW cancel \in SUBSET Types, Cancel(cancel)
    PROVE  /\ jobs' \in Seq(Job)
           /\ \A n \in DOMAIN jobs' :
                Place(Left(cancel), n) \in Left(cancel) /\ jobs'[n] = jobs[Place(Left(cancel), n)]
           /\ \A n, m \in DOMAIN jobs' : Place(Left(cancel), n) = Place(Left(cancel), m) => n = m
           /\ \A i \in Left(cancel) : \E n \in DOMAIN jobs' : jobs'[n] = jobs[i]
<1>1. jobs \in Seq(Job) /\ Left(cancel) \in SUBSET DOMAIN jobs
  BY DEF MacroOK, Left, Live
<1>2. jobs' = Picked(jobs, Left(cancel))
  BY DEF Cancel, Left
<1>. QED  BY <1>1, <1>2, PickedJobs

LEMMA CancelInv ==
    ASSUME IInv, NEW cancel \in SUBSET Types, Cancel(cancel)
    PROVE  IInv'
<1>1. race \in Races /\ GameOK /\ MacroOK /\ TypeOK
  BY TypeParts DEF IInv
<1>2. /\ stage = "step" /\ pos \notin DOMAIN jobs /\ stage' = "plan" /\ pos' = 0
      /\ cancelled' = cancel /\ reserved' \subseteq reserved
      /\ UNCHANGED <<race, game, failed, cmds>>
  BY DEF Cancel
<1>. DEFINE src(n) == Place(Left(cancel), n)
<1>3. /\ jobs' \in Seq(Job)
      /\ \A n \in DOMAIN jobs' : src(n) \in Left(cancel) /\ jobs'[n] = jobs[src(n)]
      /\ \A n, m \in DOMAIN jobs' : src(n) = src(m) => n = m
  BY <1>1, CancelJobs
<1>4. Left(cancel) \subseteq Live /\ Live \subseteq DOMAIN jobs
  BY DEF Left, Live
<1>5. /\ owner' \in [Workers -> {"none", "macro", "other"}]
      /\ \A w \in Workers : owner'[w] = "other" => owner[w] = "other"
  BY <1>1 DEF Cancel, GameOK
<1>6. cmds' \in [Workers -> Orders \cup {None}]
  BY <1>1, <1>2 DEF GameOK
<1>7. race' \in Races /\ GameOK'
  BY <1>1, <1>2, <1>5, <1>6, GameStays
<1>8. MacroOK'
  BY <1>1, <1>2, <1>3 DEF MacroOK
<1>9. TypeOK'
  BY <1>7, <1>8, PrimedTypes
<1>10. TurnsTaken'
  BY <1>2 DEF TurnsTaken
<1>. HIDE DEF src
<1>11. Spared'
  BY <1>3, <1>4 DEF IInv, Spared, Live
<1>12. Exclusive'
  BY <1>3, <1>4 DEF IInv, Exclusive
<1>13. \A i \in DOMAIN jobs : i < pos
  <2>1. /\ Len(jobs) \in Nat /\ DOMAIN jobs = 1..Len(jobs) /\ pos \in Nat
        /\ pos \in 1..Len(jobs) + 1
    BY <1>1, <1>2, JobsThere DEF MacroOK, IInv, TurnsTaken
  <2>. QED  BY <1>2, <2>1
<1>14. StillOurs'
  <2>1. ASSUME NEW n \in DOMAIN jobs'
        PROVE  jobs'[n].worker = None \/ owner'[jobs'[n].worker] # "other"
    <3>1. src(n) \in DOMAIN jobs /\ jobs'[n] = jobs[src(n)]
      BY <1>3, <1>4
    <3>2. jobs[src(n)].worker = None \/ owner[jobs[src(n)].worker] # "other"
      BY <1>2, <1>13, <3>1 DEF IInv, StillOurs
    <3>3. jobs[src(n)].worker \in Workers \cup {None}
      BY <1>1, <3>1, JobsThere DEF Job
    <3>. QED  BY <1>5, <3>1, <3>2, <3>3
  <2>. QED  BY <2>1 DEF StillOurs
<1>. QED  BY <1>9, <1>10, <1>11, <1>12, <1>14 DEF IInv

\* The jobs after one more is dispatched.
LEMMA DispatchJobs ==
    ASSUME MacroOK, NEW t \in Types, NEW s \in Sites, NEW w \in Workers, Dispatch(t, s, w)
    PROVE  /\ NewJob(t, s, w) \in Job /\ jobs' \in Seq(Job)
           /\ Len(jobs) \in Nat /\ DOMAIN jobs = 1..Len(jobs)
           /\ DOMAIN jobs' = DOMAIN jobs \cup {Len(jobs) + 1}
           /\ jobs'[Len(jobs) + 1] = NewJob(t, s, w)
           /\ \A i \in DOMAIN jobs : jobs'[i] = jobs[i]
<1>1. NewJob(t, s, w) \in Job
  BY ConstantsAssumption DEF NewJob, Job, NotYet
<1>2. jobs' = Append(jobs, NewJob(t, s, w)) /\ jobs \in Seq(Job)
  BY DEF Dispatch, MacroOK
<1>3. Len(jobs) \in Nat /\ DOMAIN jobs = 1..Len(jobs)
  BY JobsThere
<1>. DEFINE j == NewJob(t, s, w)
<1>. HIDE DEF j
<1>4. /\ jobs' \in Seq(Job) /\ Len(jobs') = Len(jobs) + 1
      /\ jobs'[Len(jobs) + 1] = j /\ \A i \in 1..Len(jobs) : jobs'[i] = jobs[i]
  BY <1>1, <1>2, <1>3, AppendProperties DEF j
<1>5. DOMAIN jobs' = 1..Len(jobs')
  BY <1>4, LenProperties
<1>6. 1..Len(jobs') = 1..Len(jobs) \cup {Len(jobs) + 1}
  BY <1>3, <1>4
<1>. QED  BY <1>1, <1>3, <1>4, <1>5, <1>6 DEF j

LEMMA DispatchInv ==
    ASSUME IInv, NEW t \in Types, NEW s \in Sites, NEW w \in Workers, Dispatch(t, s, w)
    PROVE  IInv'
<1>1. race \in Races /\ GameOK /\ MacroOK /\ TypeOK
  BY TypeParts DEF IInv
<1>2. /\ NewJob(t, s, w) \in Job /\ jobs' \in Seq(Job)
      /\ Len(jobs) \in Nat /\ DOMAIN jobs = 1..Len(jobs)
      /\ DOMAIN jobs' = DOMAIN jobs \cup {Len(jobs) + 1}
      /\ jobs'[Len(jobs) + 1] = NewJob(t, s, w)
      /\ \A i \in DOMAIN jobs : jobs'[i] = jobs[i]
  BY <1>1, DispatchJobs
<1>3. /\ stage = "plan" /\ w \in Pickable /\ reserved' \subseteq Sites
      /\ owner' = [owner EXCEPT ![w] = "macro"]
      /\ UNCHANGED <<race, game, stage, pos, failed, cancelled, cmds>>
  BY <1>1 DEF Dispatch, Claim, MacroOK
<1>4. /\ owner' \in [Workers -> {"none", "macro", "other"}] /\ owner'[w] # "other"
      /\ \A v \in Workers : owner'[v] = "other" => owner[v] = "other"
  BY <1>1, <1>3, ClaimOwns
<1>5. cmds' \in [Workers -> Orders \cup {None}]
  BY <1>1, <1>3 DEF GameOK
<1>6. race' \in Races /\ GameOK'
  BY <1>1, <1>3, <1>4, <1>5, GameStays
<1>7. MacroOK'
  BY <1>1, <1>2, <1>3 DEF MacroOK
<1>8. TypeOK'
  BY <1>6, <1>7, PrimedTypes
<1>9. TurnsTaken'
  BY <1>3 DEF TurnsTaken
<1>10. NewJob(t, s, w).worker = w /\ NewJob(t, s, w).deaths = 0
  BY DEF NewJob
<1>11. Spared'
  <2>1. 0 < BuilderDeaths
    BY ConstantsAssumption
  <2>. QED  BY <1>2, <1>10, <2>1 DEF IInv, Spared, Live
<1>12. Exclusive'
  <2>1. \A i \in DOMAIN jobs : jobs[i].worker = w => w = None
    BY <1>3, PickableThere DEF Busy
  <2>. QED  BY <1>2, <1>10, <2>1 DEF IInv, Exclusive
<1>13. StillOurs'
  <2>1. \A i \in DOMAIN jobs : jobs[i].worker = None \/ owner[jobs[i].worker] # "other"
    BY <1>3 DEF IInv, StillOurs
  <2>2. \A i \in DOMAIN jobs : jobs[i].worker \in Workers \cup {None}
    BY <1>1, JobsThere DEF Job
  <2>3. \A i \in DOMAIN jobs' : jobs'[i].worker = None \/ owner'[jobs'[i].worker] # "other"
    BY <1>2, <1>4, <1>10, <2>1, <2>2
  <2>. QED  BY <2>3 DEF StillOurs
<1>. QED  BY <1>8, <1>9, <1>11, <1>12, <1>13 DEF IInv

\* The builders of the jobs, when the plan is done.
LEMMA BusyWorkers ==
    ASSUME MacroOK
    PROVE  Busy \subseteq Workers
BY JobsThere DEF Busy, Job

LEMMA CloseInv ==
    ASSUME IInv, CloseTick
    PROVE  IInv'
<1>1. race \in Races /\ GameOK /\ MacroOK /\ TypeOK
  BY TypeParts DEF IInv
<1>2. /\ stage = "plan" /\ stage' = "idle" /\ cancelled' = {}
      /\ owner' = Held
      /\ UNCHANGED <<race, game, pos, jobs, reserved, failed>>
  BY DEF CloseTick
<1>3. owner' \in [Workers -> {"none", "macro", "other"}]
  <2>1. \A w \in Workers : owner[w] \in {"none", "macro", "other"}
    BY <1>1 DEF GameOK
  <2>2. \A w \in Workers : Held[w] \in {"none", "macro", owner[w]}
    BY DEF Held
  <2>3. Held = [w \in Workers |-> Held[w]]
    BY DEF Held
  <2>. QED  BY <1>2, <2>1, <2>2, <2>3
<1>4. cmds' \in [Workers -> Orders \cup {None}]
  BY <1>1, MineAndDead DEF CloseTick, GameOK
<1>5. race' \in Races /\ GameOK'
  BY <1>1, <1>2, <1>3, <1>4, GameStays
<1>6. MacroOK'
  BY <1>1, <1>2 DEF MacroOK
<1>7. TypeOK'
  BY <1>5, <1>6, PrimedTypes
<1>8. TurnsTaken' /\ Spared' /\ Exclusive' /\ StillOurs'
  BY <1>2 DEF IInv, TurnsTaken, Spared, Exclusive, StillOurs, Live
<1>. QED  BY <1>7, <1>8 DEF IInv

LEMMA StutterInv ==
    ASSUME IInv, UNCHANGED vars
    PROVE  IInv'
BY DEF IInv, TypeOK, TurnsTaken, Spared, Exclusive, StillOurs, Live, vars, game, macro

LEMMA NextInv == IInv /\ [Next]_vars => IInv'
<1>1. ASSUME IInv, Between  PROVE IInv'
  BY <1>1, BetweenInv
<1>2. ASSUME IInv, Tick  PROVE IInv'
  BY <1>2, BeginInv, StepInv, CancelInv, DispatchInv, CloseInv DEF Tick
<1>3. ASSUME IInv, UNCHANGED vars  PROVE IInv'
  BY <1>3, StutterInv
<1>. QED  BY <1>1, <1>2, <1>3 DEF Next

LEMMA Invariance == Spec => []IInv
BY InitInv, NextInv, PTL DEF Spec

\* Type correctness: every variable of the building jobs keeps its type, for
\* games of any length (adjutant/macro/jobs.py and the job half of executor.py).
THEOREM TypeCorrect == Spec => []TypeOK
<1>1. IInv => TypeOK
  BY DEF IInv
<1>. QED  BY <1>1, Invariance, PTL

\* No worker ever builds for two jobs, however builders are lost, pulled,
\* replaced and claimed (Macro._pick against JobRunner.step).
THEOREM OneJobEach == Spec => []BuilderExclusive
<1>1. IInv => BuilderExclusive
  BY DEF IInv, Exclusive, BuilderExclusive, Live
<1>. QED  BY <1>1, Invariance, PTL

\* Whenever a tick is over, macro leases the builders of its jobs and no other
\* worker (Macro.tick's hold against cancel, _claim and _build).
THEOREM LeasesAreBuilders == Spec => BuildersLeased
<1>1. ASSUME IInv, Next, stage = "plan", stage' = "idle"
      PROVE  {w \in Workers : owner'[w] = "macro"} = Busy
  <2>1. CloseTick
    BY <1>1 DEF Next, Between, Tick, Begin, StepJob, Cancel, Dispatch, macro
  <2>2. GameOK /\ MacroOK
    BY <1>1, TypeParts DEF IInv
  <2>3. Busy \subseteq Workers
    BY <2>2, BusyWorkers
  <2>4. \A w \in Busy : owner[w] # "other"
    BY <1>1 DEF IInv, StillOurs, Busy
  <2>5. \A w \in Workers : owner[w] \in {"none", "macro", "other"}
    BY <2>2 DEF GameOK
  <2>6. ASSUME NEW w \in Workers  PROVE owner'[w] = "macro" <=> w \in Busy
    <3>1. owner'[w] = CASE w \in Busy /\ owner[w] = "none" -> "macro"
                        [] w \notin Busy /\ owner[w] = "macro" -> "none"
                        [] OTHER -> owner[w]
      BY <2>1 DEF CloseTick, Held
    <3>2. CASE w \in Busy
      BY <2>4, <2>5, <3>1, <3>2
    <3>3. CASE w \notin Busy
      BY <2>5, <3>1, <3>3
    <3>. QED  BY <3>2, <3>3
  <2>. QED  BY <2>3, <2>6
<1>2. IInv /\ [Next]_vars
      => [stage = "plan" /\ stage' = "idle" =>
            {w \in Workers : owner'[w] = "macro"} = Busy]_vars
  BY <1>1
<1>. QED  BY <1>2, Invariance, PTL DEF Spec, BuildersLeased

-----------------------------------------------------------------------------
(* The sites, as long as the Placer alone finds them                       *)

\* Every job has a site for its structure.  And when a job that walks has had
\* its turn while its structure stands there unfinished, another job that is
\* placed has that site.
OnASite  == \A i \in DOMAIN jobs : jobs[i].site \in SitesOf[jobs[i].type]
Attended ==
    stage = "step" =>
    \A i \in Live : i < pos /\ jobs[i].status = "walking" /\ Shows(jobs[i]) =>
        \E k \in Live : jobs[k].status = "placed" /\ jobs[k].site = jobs[i].site

SInv == IInv /\ OnASite /\ SitesHeld /\ Attended

\* Two live jobs on one site are for the same type of structure.
LEMMA SameSiteSameType ==
    ASSUME MacroOK, OnASite, SitesHeld, NEW i \in Live, NEW k \in Live,
           jobs[i].site = jobs[k].site
    PROVE  jobs[i].type = jobs[k].type
<1>1. i \in DOMAIN jobs /\ k \in DOMAIN jobs
  BY DEF Live
<1>2. jobs[i] \in Job /\ jobs[k] \in Job
  BY <1>1, JobsThere
<1>3. jobs[i].type \in Types /\ jobs[k].type \in Types
  BY <1>2 DEF Job
<1>4. jobs[i].site \in SitesOf[jobs[i].type] \cap SitesOf[jobs[k].type]
  BY <1>1 DEF OnASite
<1>5. CASE jobs[i].type \notin Exact
  BY <1>5 DEF SitesHeld
<1>6. CASE jobs[i].type \in Exact
  BY <1>3, <1>4, <1>6, ExactAssumption
<1>. QED  BY <1>5, <1>6

LEMMA InitSites == Init => SInv
<1>. SUFFICES ASSUME Init  PROVE SInv
  OBVIOUS
<1>1. DOMAIN jobs = {}
  BY EmptySeq DEF Init
<1>2. OnASite /\ SitesHeld /\ Attended
  BY <1>1 DEF OnASite, SitesHeld, Attended, Live
<1>. QED  BY <1>2, InitInv DEF SInv

LEMMA BetweenSites ==
    ASSUME SInv, Between
    PROVE  SInv'
<1>1. stage = "idle" /\ UNCHANGED macro
  BY DEF Between
<1>2. OnASite' /\ SitesHeld'
  BY <1>1 DEF SInv, OnASite, SitesHeld, Live, macro
<1>3. Attended'
  BY <1>1 DEF Attended, macro
<1>. QED  BY <1>2, <1>3, BetweenInv DEF SInv

LEMMA BeginSites ==
    ASSUME SInv, Begin
    PROVE  SInv'
<1>1. MacroOK
  BY TypeParts DEF SInv, IInv
<1>2. /\ DOMAIN jobs' = DOMAIN jobs
      /\ \A i \in DOMAIN jobs :
           /\ jobs'[i].type = jobs[i].type /\ jobs'[i].site = jobs[i].site
           /\ jobs'[i].status = jobs[i].status
  BY <1>1, BeginJobs
<1>3. pos' = 1 /\ UNCHANGED reserved
  BY DEF Begin
<1>4. OnASite' /\ SitesHeld'
  BY <1>2, <1>3 DEF SInv, OnASite, SitesHeld, Live
<1>5. Attended'
  <2>1. DOMAIN jobs \subseteq Nat \ {0}
    BY <1>1, JobsThere
  <2>. QED  BY <1>2, <1>3, <2>1 DEF Attended, Live
<1>. QED  BY <1>4, <1>5, BeginInv DEF SInv

LEMMA StepSites ==
    ASSUME SInv, StepJob
    PROVE  SInv'
<1>1. GameOK /\ MacroOK /\ TypeOK /\ Spared
  BY TypeParts DEF SInv, IInv
<1>2. stage = "step" /\ pos \in DOMAIN jobs
  BY <1>1, StepIsTurn
<1>3. PICK j \in Job : TurnOf(j)
  BY <1>1, StepIsTurn
<1>4. /\ DOMAIN jobs' = DOMAIN jobs /\ jobs'[pos] = j
      /\ \A i \in DOMAIN jobs : i # pos => jobs'[i] = jobs[i]
      /\ pos' = pos + 1
      /\ UNCHANGED <<race, game, stage, cancelled>>
  BY <1>1, <1>2, <1>3, TurnJobs DEF TurnOf
<1>5. j.type = jobs[pos].type /\ j.site = jobs[pos].site
  BY <1>3 DEF TurnOf
<1>6. DOMAIN jobs \subseteq Nat /\ pos \in Nat
  BY <1>1, JobsThere DEF MacroOK
<1>7. pos \in Live
  <2>1. J.status \in {"walking", "placed"}
    BY DEF StepJob, StructureOver, KeepBuilder, SeesPlaced, Dangerous, Waits, WalksOn,
           NewBuilder, Bereft
  <2>. QED  BY <1>1, <1>2, <2>1, JobAtTurn DEF Live
<1>8. Live' \subseteq Live /\ \A i \in Live : i # pos => i \in Live'
  BY <1>4, <1>7 DEF Live
<1>9. reserved' = IF j.status = "over" THEN Released(reserved, j) ELSE reserved
  BY <1>3 DEF TurnOf, Turn
<1>10. OnASite'
  BY <1>4, <1>5 DEF SInv, OnASite
<1>11. SitesHeld'
  <2>. SUFFICES ASSUME NEW i \in Live', jobs'[i].type \notin Exact
                PROVE  /\ jobs'[i].site \in reserved'
                       /\ \A k \in Live' : jobs'[k].site = jobs'[i].site => k = i
    BY DEF SitesHeld
  <2>1. i \in Live /\ i \in DOMAIN jobs
    BY <1>8 DEF Live
  <2>2. jobs'[i].type = jobs[i].type /\ jobs'[i].site = jobs[i].site
    BY <1>4, <1>5, <2>1
  <2>3. /\ jobs[i].site \in reserved
        /\ \A k \in Live : jobs[k].site = jobs[i].site => k = i
    BY <2>1, <2>2 DEF SInv, SitesHeld
  <2>4. \A k \in Live' : k \in Live /\ jobs'[k].site = jobs[k].site
    BY <1>4, <1>5, <1>8 DEF Live
  <2>5. jobs'[i].site \in reserved'
    <3>1. CASE j.status = "over"
      <4>1. i # pos
        BY <1>4, <3>1 DEF Live
      <4>2. j.site # jobs[i].site
        BY <1>5, <1>7, <2>3, <4>1
      <4>. QED  BY <1>9, <2>2, <2>3, <4>2 DEF Released
    <3>2. CASE j.status # "over"
      BY <1>9, <2>2, <2>3, <3>2
    <3>. QED  BY <3>1, <3>2
  <2>. QED  BY <2>2, <2>3, <2>4, <2>5
<1>12. Attended'
  <2>. SUFFICES ASSUME NEW i \in Live', i < pos', jobs'[i].status = "walking",
                       ground'[jobs'[i].site] = Unfinished(jobs'[i].type)
                PROVE  \E k \in Live' : jobs'[k].status = "placed" /\ jobs'[k].site = jobs'[i].site
    BY DEF Attended, Shows, Unfinished
  <2>1. i \in Live /\ i \in DOMAIN jobs /\ i \in Nat
    BY <1>6, <1>8 DEF Live
  <2>2. /\ jobs'[i].type = jobs[i].type /\ jobs'[i].site = jobs[i].site
        /\ ground[jobs[i].site] = Unfinished(jobs[i].type)
    BY <1>4, <1>5, <2>1 DEF game
  <2>3. \E k \in Live : jobs[k].status = "placed" /\ jobs[k].site = jobs[i].site
                         /\ (k = pos => i # pos)
    <3>1. CASE i = pos
      <4>1. Shows(j) /\ j.status = "walking"
        BY <1>4, <1>5, <2>2, <3>1 DEF Shows
      <4>2. InOtherHands(j)
        BY <1>3, <4>1 DEF TurnOf
      <4>. QED  BY <1>5, <3>1, <4>2 DEF InOtherHands
    <3>2. CASE i # pos
      <4>1. i < pos
        BY <1>4, <1>6, <2>1, <3>2
      <4>2. jobs[i].status = "walking" /\ Shows(jobs[i])
        BY <1>4, <2>1, <2>2, <3>2 DEF Shows
      <4>. QED  BY <1>2, <2>1, <3>2, <4>1, <4>2 DEF SInv, Attended
    <3>. QED  BY <3>1, <3>2
  <2>4. PICK k \in Live : jobs[k].status = "placed" /\ jobs[k].site = jobs[i].site
                          /\ (k = pos => i # pos)
    BY <2>3
  <2>5. CASE k # pos
    <3>1. k \in Live' /\ jobs'[k] = jobs[k]
      BY <1>4, <1>8, <2>4, <2>5 DEF Live
    <3>. QED  BY <2>2, <2>4, <3>1
  <2>6. CASE k = pos
    <3>1. jobs[k].type = jobs[i].type
      BY <1>1, <2>1, <2>4, SameSiteSameType DEF SInv
    <3>2. Shows(j)
      BY <1>5, <2>2, <2>4, <2>6, <3>1 DEF Shows
    <3>3. j.status = "placed"
      BY <1>3, <2>4, <2>6, <3>2 DEF TurnOf, InOtherHands
    <3>4. k \in Live'
      BY <1>2, <1>4, <2>6, <3>3 DEF Live
    <3>. QED  BY <1>4, <1>5, <2>2, <2>4, <2>6, <3>3, <3>4
  <2>. QED  BY <2>5, <2>6
<1>. QED  BY <1>10, <1>11, <1>12, StepInv DEF SInv

LEMMA CancelSites ==
    ASSUME SInv, NEW cancel \in SUBSET Types, Cancel(cancel)
    PROVE  SInv'
<1>1. MacroOK
  BY TypeParts DEF SInv, IInv
<1>. DEFINE src(n) == Place(Left(cancel), n)
<1>2. /\ \A n \in DOMAIN jobs' : src(n) \in Left(cancel) /\ jobs'[n] = jobs[src(n)]
      /\ \A n, m \in DOMAIN jobs' : src(n) = src(m) => n = m
  BY <1>1, CancelJobs
<1>. HIDE DEF src
<1>3. Left(cancel) \subseteq Live /\ Live \subseteq DOMAIN jobs
  BY DEF Left, Live
<1>4. stage' = "plan"
  BY DEF Cancel
<1>5. OnASite'
  BY <1>2, <1>3 DEF SInv, OnASite
<1>6. SitesHeld'
  <2>. SUFFICES ASSUME NEW n \in DOMAIN jobs', jobs'[n].type \notin Exact
                PROVE  /\ jobs'[n].site \in reserved'
                       /\ \A m \in DOMAIN jobs' : jobs'[m].site = jobs'[n].site => m = n
    BY DEF SitesHeld, Live
  <2>1. src(n) \in Live /\ jobs'[n] = jobs[src(n)] /\ src(n) \in Left(cancel)
    BY <1>2, <1>3
  <2>2. /\ jobs[src(n)].site \in reserved
        /\ \A k \in Live : jobs[k].site = jobs[src(n)].site => k = src(n)
    BY <2>1 DEF SInv, SitesHeld
  <2>3. reserved' = reserved \ {x.site : x \in
            {y \in {jobs[i] : i \in {k \in Live : IsCancelled(jobs[k], cancel)}} : y.type \notin Exact}}
    BY DEF Cancel
  <2>4. \A i \in Live : IsCancelled(jobs[i], cancel) => jobs[i].site # jobs[src(n)].site
    BY <2>1, <2>2 DEF Left
  <2>5. jobs[src(n)].site \in reserved'
    BY <2>2, <2>3, <2>4
  <2>6. \A m \in DOMAIN jobs' : jobs'[m].site = jobs'[n].site => m = n
    BY <1>2, <1>3, <2>1, <2>2
  <2>. QED  BY <2>1, <2>5, <2>6
<1>7. Attended'
  BY <1>4 DEF Attended
<1>. QED  BY <1>5, <1>6, <1>7, CancelInv DEF SInv

LEMMA DispatchSites ==
    ASSUME ~Shim, SInv, NEW t \in Types, NEW s \in Sites, NEW w \in Workers, Dispatch(t, s, w)
    PROVE  SInv'
<1>1. MacroOK
  BY TypeParts DEF SInv, IInv
<1>. DEFINE m == Len(jobs) + 1
            j == NewJob(t, s, w)
<1>2. /\ m \notin DOMAIN jobs /\ DOMAIN jobs' = DOMAIN jobs \cup {m}
      /\ jobs'[m] = j /\ \A i \in DOMAIN jobs : jobs'[i] = jobs[i]
  <2>1. /\ Len(jobs) \in Nat /\ DOMAIN jobs = 1..Len(jobs)
        /\ DOMAIN jobs' = DOMAIN jobs \cup {Len(jobs) + 1}
        /\ jobs'[Len(jobs) + 1] = NewJob(t, s, w)
        /\ \A i \in DOMAIN jobs : jobs'[i] = jobs[i]
    BY <1>1, DispatchJobs
  <2>. QED  BY <2>1
<1>3. j.site = s /\ j.type = t /\ j.status = "walking"
  BY DEF NewJob
<1>4. /\ s \in FoundSites(t) /\ stage' = "plan"
      /\ reserved' = IF t \in Exact THEN reserved ELSE reserved \cup {s}
  BY DEF Dispatch
<1>. HIDE DEF m, j
<1>5. s \in SitesOf[t] /\ (t \notin Exact => s \notin reserved)
  BY <1>4 DEF FoundSites
<1>6. OnASite'
  BY <1>2, <1>3, <1>5 DEF SInv, OnASite
<1>7. Live' = Live \cup {m}
  BY <1>2, <1>3 DEF Live
<1>8. \A i \in Live : i \in DOMAIN jobs /\ jobs'[i] = jobs[i] /\ jobs[i].type \in Types
                      /\ jobs[i].site \in SitesOf[jobs[i].type]
  <2>1. \A i \in DOMAIN jobs : jobs[i].type \in Types
    BY <1>1, JobsThere DEF Job
  <2>. QED  BY <1>2, <2>1 DEF Live, SInv, OnASite
<1>9. ASSUME NEW i \in Live, jobs[i].type \notin Exact \/ t \notin Exact
      PROVE  jobs[i].site # s
  <2>1. CASE jobs[i].type \notin Exact /\ t \notin Exact
    BY <1>5, <2>1 DEF SInv, SitesHeld
  <2>2. CASE jobs[i].type \in Exact /\ t \notin Exact
    BY <1>5, <1>8, <2>2, ExactAssumption
  <2>3. CASE jobs[i].type \notin Exact /\ t \in Exact
    BY <1>5, <1>8, <2>3, ExactAssumption
  <2>. QED  BY <1>9, <2>1, <2>2, <2>3
<1>10. SitesHeld'
  <2>. SUFFICES ASSUME NEW i \in Live', jobs'[i].type \notin Exact
                PROVE  /\ jobs'[i].site \in reserved'
                       /\ \A k \in Live' : jobs'[k].site = jobs'[i].site => k = i
    BY DEF SitesHeld
  <2>1. CASE i = m
    BY <1>2, <1>3, <1>4, <1>7, <1>8, <1>9, <2>1
  <2>2. CASE i # m
    <3>1. i \in Live /\ jobs'[i] = jobs[i] /\ jobs[i].type \notin Exact
      BY <1>7, <1>8, <2>2
    <3>2. /\ jobs[i].site \in reserved
          /\ \A k \in Live : jobs[k].site = jobs[i].site => k = i
      BY <3>1 DEF SInv, SitesHeld
    <3>3. jobs'[m].site # jobs[i].site
      BY <1>2, <1>3, <1>9, <3>1
    <3>. QED  BY <1>4, <1>7, <1>8, <3>1, <3>2, <3>3
  <2>. QED  BY <2>1, <2>2
<1>11. Attended'
  BY <1>4 DEF Attended
<1>. QED  BY <1>6, <1>10, <1>11, DispatchInv DEF SInv

LEMMA CloseSites ==
    ASSUME SInv, CloseTick
    PROVE  SInv'
<1>1. stage' = "idle" /\ UNCHANGED <<jobs, reserved>>
  BY DEF CloseTick
<1>2. OnASite' /\ SitesHeld' /\ Attended'
  BY <1>1 DEF SInv, OnASite, SitesHeld, Attended, Live
<1>. QED  BY <1>2, CloseInv DEF SInv

LEMMA NextSites ==
    ASSUME ~Shim
    PROVE  SInv /\ [Next]_vars => SInv'
<1>1. ASSUME SInv, Between  PROVE SInv'
  BY <1>1, BetweenSites
<1>2. ASSUME SInv, Tick  PROVE SInv'
  BY <1>2, BeginSites, StepSites, CancelSites, DispatchSites, CloseSites DEF Tick
<1>3. ASSUME SInv, UNCHANGED vars  PROVE SInv'
  <2>1. OnASite' /\ SitesHeld' /\ Attended'
    BY <1>3 DEF SInv, OnASite, SitesHeld, Attended, Live, Shows, vars, game, macro
  <2>. QED  BY <1>3, <2>1, StutterInv DEF SInv
<1>. QED  BY <1>1, <1>2, <1>3 DEF Next

\* As long as the Placer alone finds the sites, every job that has not ended
\* holds its own site, so no two structures are sent to one place
\* (Placer.reserve, release and find over a job's life).
THEOREM SitesAreHeld == ASSUME ~Shim  PROVE Spec => []SitesHeld
<1>1. SInv => SitesHeld
  BY DEF SInv
<1>. QED  BY <1>1, InitSites, NextSites, PTL DEF Spec

\* And a structure of a job that stands unfinished when the tick looks keeps its
\* job, whatever else the tick finds out: that the builder is dead, that the walk
\* has timed out, that the plan cancels its type (the order of _placed, the
\* builder check and cancel in JobRunner.step and Macro.tick).
THEOREM StructuresAreKept == ASSUME ~Shim  PROVE Spec => StructuresKeepTheirJob
<1>. DEFINE Keeps ==
        \A i \in Live : ground[jobs[i].site] = Unfinished(jobs[i].type) => InHand(jobs[i], jobs')
<1>1. ASSUME SInv, StepJob  PROVE Keeps
  <2>1. GameOK /\ MacroOK /\ TypeOK /\ Spared
    BY <1>1, TypeParts DEF SInv, IInv
  <2>2. pos \in DOMAIN jobs
    BY <1>1, <2>1, StepIsTurn
  <2>3. PICK j \in Job : TurnOf(j)
    BY <1>1, <2>1, StepIsTurn
  <2>4. /\ DOMAIN jobs' = DOMAIN jobs /\ jobs'[pos] = j
        /\ \A i \in DOMAIN jobs : i # pos => jobs'[i] = jobs[i]
    BY <2>1, <2>2, <2>3, TurnJobs DEF TurnOf
  <2>5. ASSUME NEW i \in Live, ground[jobs[i].site] = Unfinished(jobs[i].type)
        PROVE  InHand(jobs[i], jobs')
    <3>1. i \in DOMAIN jobs /\ jobs[i].status # "over"
      BY DEF Live
    <3>2. CASE i # pos
      BY <2>4, <3>1, <3>2 DEF InHand
    <3>3. CASE i = pos
      <4>1. j.site = jobs[i].site /\ Shows(j)
        BY <2>3, <2>5, <3>3 DEF TurnOf, Shows
      <4>2. CASE j.status = "placed"
        BY <2>4, <3>1, <3>3, <4>1, <4>2 DEF InHand
      <4>3. CASE InOtherHands(j)
        <5>1. PICK k \in Live : jobs[k].status = "placed" /\ jobs[k].site = j.site
          BY <4>3 DEF InOtherHands
        <5>2. k \in DOMAIN jobs /\ k # pos
          BY <4>3, <5>1 DEF Live, InOtherHands
        <5>. QED  BY <2>4, <4>1, <5>1, <5>2 DEF InHand
      <4>. QED  BY <2>3, <4>1, <4>2, <4>3 DEF TurnOf
    <3>. QED  BY <3>2, <3>3
  <2>. QED  BY <2>5
<1>2. ASSUME SInv, NEW cancel \in SUBSET Types, Cancel(cancel)  PROVE Keeps
  <2>1. MacroOK
    BY <1>2, TypeParts DEF SInv, IInv
  <2>2. \A i \in Left(cancel) : \E n \in DOMAIN jobs' : jobs'[n] = jobs[i]
    BY <1>2, <2>1, CancelJobs
  <2>3. \A i \in DOMAIN jobs : i < pos
    <3>1. /\ Len(jobs) \in Nat /\ DOMAIN jobs = 1..Len(jobs) /\ pos \in Nat
          /\ pos \in 1..Len(jobs) + 1 /\ pos \notin DOMAIN jobs
      BY <1>2, <2>1, JobsThere DEF Cancel, MacroOK, SInv, IInv, TurnsTaken
    <3>. QED  BY <3>1
  <2>4. ASSUME NEW i \in Live, ground[jobs[i].site] = Unfinished(jobs[i].type)
        PROVE  InHand(jobs[i], jobs')
    <3>1. i \in DOMAIN jobs /\ jobs[i].status # "over" /\ i < pos
      BY <2>3 DEF Live
    <3>2. CASE i \in Left(cancel)
      BY <2>2, <3>1, <3>2 DEF InHand
    <3>3. CASE i \notin Left(cancel)
      <4>1. jobs[i].status = "walking"
        BY <3>3 DEF Left, IsCancelled
      <4>2. PICK k \in Live : jobs[k].status = "placed" /\ jobs[k].site = jobs[i].site
        BY <1>2, <2>4, <3>1, <4>1 DEF SInv, Attended, Shows, Cancel
      <4>3. k \in Left(cancel)
        BY <4>2 DEF Left, IsCancelled
      <4>. QED  BY <2>2, <4>2, <4>3 DEF InHand
    <3>. QED  BY <3>2, <3>3
  <2>. QED  BY <2>4
<1>3. ASSUME SInv, NEW t \in Types, NEW s \in Sites, NEW w \in Workers, Dispatch(t, s, w)
      PROVE  Keeps
  <2>1. MacroOK
    BY <1>3, TypeParts DEF SInv, IInv
  <2>2. DOMAIN jobs \subseteq DOMAIN jobs' /\ \A i \in DOMAIN jobs : jobs'[i] = jobs[i]
    BY <1>3, <2>1, DispatchJobs
  <2>. QED  BY <2>2 DEF Live, InHand
<1>4. ASSUME SInv, CloseTick  PROVE Keeps
  BY <1>4 DEF CloseTick, Live, InHand
<1>5. ASSUME SInv, Next, stage # "idle"  PROVE Keeps
  BY <1>1, <1>2, <1>3, <1>4, <1>5 DEF Next, Between, Tick, Begin
<1>6. SInv /\ [Next]_vars => [stage # "idle" => Keeps]_vars
  BY <1>5
<1>. QED  BY <1>6, InitSites, NextSites, PTL DEF Spec, StructuresKeepTheirJob

=============================================================================
