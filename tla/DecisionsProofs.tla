-------------------------- MODULE DecisionsProofs --------------------------
(***************************************************************************)
(* The decision loop (Scheduler), for any slots, components, chains of     *)
(* fallbacks, periods, triggers and limits; and what is left of its games  *)
(* in the files (GameLog), for any units, places, limits of a fight and    *)
(* number of games.                                                        *)
(***************************************************************************)
EXTENDS Scheduler, GameLog, CollectionTheorems, TLAPS

-----------------------------------------------------------------------------
(* The scheduler.                                                          *)
(* Homes: no component serves in two slots or returns to one it has lost.  *)

Chains == {h \in [home : [Components -> Slots], rank : [Components -> Int]] :
              InChains(h.home, h.rank)}
Chain == CHOOSE h \in Chains : TRUE
Home == Chain.home
Rank == Chain.rank

LEMMA ChainFacts ==
    /\ Home \in [Components -> Slots] /\ Rank \in [Components -> Int]
    /\ \A s \in Slots : Home[First[s]] = s
    /\ \A x \in Components : HasFallback(x) =>
          Home[Fallback[x]] = Home[x] /\ Rank[Fallback[x]] > Rank[x]
<1>1. PICK home \in [Components -> Slots], rank \in [Components -> 1..Cardinality(Components)] :
        InChains(home, rank)
  BY ChainsAssumption
<1>2. rank \in [Components -> Int]
  <2>1. \A x \in Components : rank[x] \in Int
    OBVIOUS
  <2>. QED  BY <2>1
<1>3. [home |-> home, rank |-> rank] \in Chains
  BY <1>1, <1>2 DEF Chains
<1>4. Chain \in Chains
  BY <1>3 DEF Chain
<1>. QED  BY <1>4 DEF Chains, InChains, SameSlot, Home, Rank, HasFallback

-----------------------------------------------------------------------------
(* The inductive invariant                                                 *)

\* A slot's component is at home there.
AtHome == \A s \in Slots : Home[comps[s]] = s

\* A component that has not had its chance yet has a clean record.
CleanRecords ==
    \A x \in Components : Rank[x] > Rank[comps[Home[x]]] => failed[x] = 0 /\ overran[x] = 0

\* The code's counters are those of the slot's component, up to the overrun a
\* fallback may inherit.
Counted ==
    \A s \in Slots :
        /\ fails[s] = failed[comps[s]] /\ overran[comps[s]] <= slow[s]
        /\ HasFallback(comps[s]) => fails[s] < MaxFailures /\ slow[s] < MaxSlow

\* An event that is owed to a slot is still there when its turn comes.
EventsKept ==
    \A s \in Slots :
        /\ stage = "run" /\ s >= pos => owed[s] \subseteq events
        /\ stage = "run" /\ s < pos => owed[s] \subseteq next
        /\ stage = "idle" => owed[s] \subseteq next
        /\ stage = "start" => owed[s] = {}

IInv == TypeOK /\ AtHome /\ CleanRecords /\ Counted /\ EventsKept

LEMMA InitInvariant == Init => IInv
<1>. SUFFICES ASSUME Init  PROVE IInv
  OBVIOUS
<1>1. TypeOK
  <2>1. 1 \in Slots /\ Never \in 0..Never
    BY ConstantsAssumption DEF Slots, Never
  <2>2. 0 \in 0..MaxFailures /\ 0 \in 0..MaxSlow
    BY ConstantsAssumption, SlowAssumption
  <2>3. stage \in {"start", "idle", "run"} /\ (stage = "idle" => pos = 1)
    BY DEF Init
  <2>4. age \in [Components -> 0..Never]
    BY <2>1 DEF Init
  <2>5. turn \in [Slots -> {"none", "skipped", "deferred", "ticked"}]
    BY DEF Init
  <2>. QED  BY <2>1, <2>2, <2>3, <2>4, <2>5, ConstantsAssumption DEF Init, TypeOK
<1>2. AtHome
  BY ChainFacts DEF Init, AtHome
<1>3. CleanRecords
  BY DEF Init, CleanRecords
<1>4. Counted
  BY ConstantsAssumption, SlowAssumption DEF Init, Counted
<1>5. EventsKept
  BY DEF Init, EventsKept
<1>. QED  BY <1>1, <1>2, <1>3, <1>4, <1>5 DEF IInv

-----------------------------------------------------------------------------
(* A slot's component after a turn: stays, or makes way for its fallback.  *)

\* What a turn of x may do to its seat, and to x's record.
SeatChange(x, seat, f, o) ==
    /\ seat \in Seat /\ f \in 0..MaxFailures /\ o \in 0..MaxSlow
    /\ \/ /\ seat.comp = x /\ seat.fails = f /\ o <= seat.slow
          /\ HasFallback(x) => f < MaxFailures /\ seat.slow < MaxSlow
       \/ /\ HasFallback(x) /\ seat.comp = Fallback[x]
          /\ seat.fails = 0 /\ seat.slow < MaxSlow

\* The seat after a failure.
LEMMA FailsSeat ==
    ASSUME NEW seat \in Seat,
           HasFallback(seat.comp) => seat.fails < MaxFailures /\ seat.slow < MaxSlow
    PROVE  /\ Fails(seat) \in Seat /\ Inc(seat.fails, MaxFailures) \in 0..MaxFailures
           /\ \/ /\ Fails(seat).comp = seat.comp /\ Fails(seat).slow = seat.slow
                 /\ Fails(seat).fails = Inc(seat.fails, MaxFailures)
                 /\ HasFallback(seat.comp) => Fails(seat).fails < MaxFailures
              \/ /\ HasFallback(seat.comp) /\ Fails(seat).comp = Fallback[seat.comp]
                 /\ Fails(seat).fails = 0 /\ Fails(seat).slow = 0
                 /\ Inc(seat.fails, MaxFailures) = MaxFailures
<1>. DEFINE n == Inc(seat.fails, MaxFailures)
<1>1. seat.comp \in Components /\ seat.fails \in 0..MaxFailures /\ seat.slow \in 0..MaxSlow
      /\ seat = [comp |-> seat.comp, fails |-> seat.fails, slow |-> seat.slow]
  BY DEF Seat
<1>2. MaxFailures \in Nat \ {0} /\ MaxSlow \in Nat \ {0, 1}
  BY ConstantsAssumption, SlowAssumption
<1>3. n \in 0..MaxFailures
  BY <1>1, <1>2 DEF Inc, AtMost
<1>. HIDE DEF n
<1>4. CASE n >= MaxFailures /\ HasFallback(seat.comp)
  <2>1. Fails(seat) = [comp |-> Fallback[seat.comp], fails |-> 0, slow |-> 0]
    BY <1>4 DEF Fails, Replaced, n
  <2>2. Fallback[seat.comp] \in Components
    BY <1>1, <1>4, ConstantsAssumption DEF HasFallback
  <2>. QED  BY <1>2, <1>3, <1>4, <2>1, <2>2 DEF Seat, n
<1>5. CASE ~(n >= MaxFailures /\ HasFallback(seat.comp))
  <2>1. Fails(seat) = [comp |-> seat.comp, fails |-> n, slow |-> seat.slow]
    BY <1>1, <1>5 DEF Fails, n
  <2>. QED  BY <1>1, <1>2, <1>3, <1>5, <2>1 DEF Seat, n
<1>. QED  BY <1>4, <1>5

\* The seat after a tick, whatever came of it.
SeatAfter(seat, fine, inTime) ==
    LET judged == IF fine THEN Succeeds(seat) ELSE Fails(seat)
    IN  IF inTime THEN InTime(judged) ELSE Overruns(judged, seat.comp)

LEMMA TickSeat ==
    ASSUME NEW seat \in Seat, NEW o \in 0..MaxSlow,
           NEW fine \in BOOLEAN, NEW inTime \in BOOLEAN, o <= seat.slow,
           HasFallback(seat.comp) => seat.fails < MaxFailures /\ seat.slow < MaxSlow
    PROVE  SeatChange(seat.comp, SeatAfter(seat, fine, inTime),
                      IF fine THEN 0 ELSE Inc(seat.fails, MaxFailures),
                      IF inTime THEN 0 ELSE Inc(o, MaxSlow))
<1>. DEFINE x == seat.comp
            judged == IF fine THEN Succeeds(seat) ELSE Fails(seat)
            f == IF fine THEN 0 ELSE Inc(seat.fails, MaxFailures)
            m == IF inTime THEN 0 ELSE Inc(o, MaxSlow)
            after == SeatAfter(seat, fine, inTime)
            n == Inc(judged.slow, MaxSlow)
<1>1. MaxFailures \in Nat \ {0} /\ MaxSlow \in Nat \ {0, 1}
  BY ConstantsAssumption, SlowAssumption
<1>2. x \in Components /\ seat.slow \in 0..MaxSlow
      /\ seat = [comp |-> x, fails |-> seat.fails, slow |-> seat.slow]
  BY DEF Seat
<1>3. /\ judged \in Seat /\ f \in 0..MaxFailures
      /\ \/ /\ judged.comp = x /\ judged.slow = seat.slow /\ judged.fails = f
            /\ HasFallback(x) => f < MaxFailures
         \/ HasFallback(x) /\ judged.comp = Fallback[x] /\ judged.fails = 0 /\ judged.slow = 0
  <2>1. CASE fine
    <3>1. judged = [comp |-> x, fails |-> 0, slow |-> seat.slow]
      BY <1>2, <2>1 DEF Succeeds
    <3>. QED  BY <1>1, <1>2, <2>1, <3>1 DEF Seat
  <2>2. CASE ~fine
    BY <2>2, FailsSeat
  <2>. QED  BY <2>1, <2>2
<1>. HIDE DEF judged, f
<1>4. judged.comp \in Components /\ judged.fails \in 0..MaxFailures /\ judged.slow \in 0..MaxSlow
      /\ judged = [comp |-> judged.comp, fails |-> judged.fails, slow |-> judged.slow]
  BY <1>3 DEF Seat
<1>5. m \in 0..MaxSlow /\ n \in 0..MaxSlow /\ (m = 0 \/ (o <= judged.slow => m <= n))
  BY <1>1, <1>4 DEF Inc, AtMost
<1>6. judged.slow = 0 => n < MaxSlow
  BY <1>1 DEF Inc, AtMost
<1>7. CASE inTime
  <2>1. after = [comp |-> judged.comp, fails |-> judged.fails, slow |-> 0] /\ m = 0
    BY <1>4, <1>7 DEF SeatAfter, InTime, judged
  <2>. QED  BY <1>1, <1>3, <1>4, <2>1 DEF SeatChange, Seat, f
<1>8. CASE ~inTime
  <2>1. after = Overruns(judged, x) /\ m = Inc(o, MaxSlow)
    BY <1>8 DEF SeatAfter, judged
  <2>2. CASE n >= MaxSlow /\ HasFallback(x)
    <3>1. judged.comp = x
      BY <1>6, <1>1, <1>3, <1>5, <2>2
    <3>2. after = [comp |-> Fallback[x], fails |-> 0, slow |-> 0]
      BY <2>1, <2>2, <3>1 DEF Overruns, Replaced
    <3>3. Fallback[x] \in Components
      BY <1>2, <2>2, ConstantsAssumption DEF HasFallback
    <3>. QED  BY <1>1, <1>3, <1>5, <2>2, <3>2, <3>3 DEF SeatChange, Seat, f
  <2>3. CASE ~(n >= MaxSlow /\ HasFallback(x))
    <3>1. after = [comp |-> judged.comp, fails |-> judged.fails, slow |-> n]
      BY <1>4, <2>1, <2>3 DEF Overruns
    <3>2. after \in Seat
      BY <1>4, <1>5, <3>1 DEF Seat
    <3>3. judged.comp = x /\ judged.slow = seat.slow => m <= n
      BY <1>1, <1>2, <1>4, <2>1 DEF Inc, AtMost
    <3>. QED  BY <1>1, <1>3, <1>5, <1>6, <2>3, <3>1, <3>2, <3>3 DEF SeatChange, f
  <2>. QED  BY <2>2, <2>3
<1>. QED  BY <1>7, <1>8 DEF f

-----------------------------------------------------------------------------
(* What a reseated slot keeps of the invariant.                            *)

LEMMA SeatType == \A s \in Slots : TypeOK => SeatOf(s) \in Seat /\ SeatOf(s).comp = comps[s]
BY DEF TypeOK, SeatOf, Seat

LEMMA ReseatKeeps ==
    ASSUME IInv, NEW seat, NEW f, NEW o,
           Reseat(pos, seat), SeatChange(comps[pos], seat, f, o),
           failed' = [failed EXCEPT ![comps[pos]] = f],
           overran' = [overran EXCEPT ![comps[pos]] = o]
    PROVE  /\ comps' \in [Slots -> Components]
           /\ fails' \in [Slots -> 0..MaxFailures] /\ slow' \in [Slots -> 0..MaxSlow]
           /\ failed' \in [Components -> 0..MaxFailures]
           /\ overran' \in [Components -> 0..MaxSlow]
           /\ AtHome' /\ CleanRecords' /\ Counted'
<1>. DEFINE x == comps[pos]
            y == seat.comp
<1>1. /\ pos \in Slots /\ comps \in [Slots -> Components] /\ x \in Components
      /\ fails \in [Slots -> 0..MaxFailures] /\ slow \in [Slots -> 0..MaxSlow]
      /\ failed \in [Components -> 0..MaxFailures] /\ overran \in [Components -> 0..MaxSlow]
  BY DEF IInv, TypeOK
<1>2. /\ y \in Components /\ seat.fails \in 0..MaxFailures /\ seat.slow \in 0..MaxSlow
      /\ f \in 0..MaxFailures /\ o \in 0..MaxSlow
  BY DEF SeatChange, Seat
<1>3. /\ comps' = [comps EXCEPT ![pos] = y]
      /\ fails' = [fails EXCEPT ![pos] = seat.fails]
      /\ slow' = [slow EXCEPT ![pos] = seat.slow]
  BY DEF Reseat
<1>4. /\ comps'[pos] = y /\ \A s \in Slots \ {pos} : comps'[s] = comps[s]
      /\ fails'[pos] = seat.fails /\ \A s \in Slots \ {pos} : fails'[s] = fails[s]
      /\ slow'[pos] = seat.slow /\ \A s \in Slots \ {pos} : slow'[s] = slow[s]
      /\ failed'[x] = f /\ \A z \in Components \ {x} : failed'[z] = failed[z]
      /\ overran'[x] = o /\ \A z \in Components \ {x} : overran'[z] = overran[z]
  BY <1>1, <1>3
<1>5. /\ comps' \in [Slots -> Components]
      /\ fails' \in [Slots -> 0..MaxFailures] /\ slow' \in [Slots -> 0..MaxSlow]
      /\ failed' \in [Components -> 0..MaxFailures]
      /\ overran' \in [Components -> 0..MaxSlow]
  BY <1>1, <1>2, <1>3
<1>6. Home[x] = pos /\ Home[y] = pos /\ (y = x \/ (HasFallback(x) /\ y = Fallback[x] /\ Rank[y] > Rank[x]))
  <2>1. Home[x] = pos
    BY <1>1 DEF IInv, AtHome
  <2>2. y = x \/ (HasFallback(x) /\ y = Fallback[x])
    BY DEF SeatChange
  <2>3. x \in Components
    BY <1>1
  <2>4. HasFallback(x) => Home[Fallback[x]] = Home[x] /\ Rank[Fallback[x]] > Rank[x]
    BY <2>3, ChainFacts
  <2>. HIDE DEF x, y
  <2>. QED  BY <2>1, <2>2, <2>4
<1>7. AtHome'
  BY <1>4, <1>6 DEF IInv, AtHome
<1>8. \A s \in Slots \ {pos} : comps[s] # x /\ comps[s] # y /\ comps[s] \in Components
  BY <1>1, <1>6 DEF IInv, AtHome
<1>9. Rank \in [Components -> Int] /\ Home \in [Components -> Slots]
  BY ChainFacts
<1>10. CleanRecords'
  <2>. SUFFICES ASSUME NEW z \in Components, Rank[z] > Rank[comps'[Home[z]]]
                PROVE  failed'[z] = 0 /\ overran'[z] = 0
    BY DEF CleanRecords
  <2>1. CASE Home[z] # pos
    <3>1. z # x /\ comps'[Home[z]] = comps[Home[z]]
      BY <1>4, <1>6, <1>9, <2>1
    <3>. QED  BY <1>4, <3>1 DEF IInv, CleanRecords
  <2>2. CASE Home[z] = pos
    <3>1. Rank[z] > Rank[y] /\ Rank[y] >= Rank[x] /\ Rank[z] \in Int
          /\ Rank[y] \in Int /\ Rank[x] \in Int
      BY <1>1, <1>2, <1>4, <1>6, <1>9, <2>2
    <3>2. z # x /\ Rank[z] > Rank[comps[Home[z]]]
      BY <2>2, <3>1
    <3>. QED  BY <1>4, <3>2 DEF IInv, CleanRecords
  <2>. QED  BY <2>1, <2>2
<1>11. Counted'
  <2>. SUFFICES ASSUME NEW s \in Slots
                PROVE  /\ fails'[s] = failed'[comps'[s]] /\ overran'[comps'[s]] <= slow'[s]
                       /\ HasFallback(comps'[s]) => fails'[s] < MaxFailures /\ slow'[s] < MaxSlow
    BY DEF Counted, HasFallback
  <2>1. CASE s # pos
    BY <1>4, <1>8, <2>1 DEF IInv, Counted
  <2>2. CASE s = pos /\ y = x
    <3>1. ~(HasFallback(x) /\ y = Fallback[x])
      BY <1>1, <1>9, <2>2, ChainFacts
    <3>. QED  BY <1>4, <2>2, <3>1 DEF SeatChange
  <2>3. CASE s = pos /\ y # x
    <3>1. Rank[y] > Rank[comps[Home[y]]]
      BY <1>6, <2>3
    <3>2. failed'[y] = 0 /\ overran'[y] = 0
      BY <1>2, <1>4, <2>3, <3>1 DEF IInv, CleanRecords
    <3>3. seat.fails = 0 /\ seat.slow \in Nat /\ seat.slow < MaxSlow /\ 0 < MaxFailures
      BY <1>2, <2>3, ConstantsAssumption DEF SeatChange
    <3>. QED  BY <1>4, <2>3, <3>2, <3>3
  <2>. QED  BY <2>1, <2>2, <2>3
<1>. QED  BY <1>5, <1>7, <1>10, <1>11

-----------------------------------------------------------------------------
(* Every step keeps the invariant.                                         *)

\* The loop goes on to the next slot, or ends the decision.
LEMMA AdvanceType ==
    ASSUME TypeOK, stage # "idle", Advance
    PROVE  /\ stage' \in {"start", "idle", "run"} /\ pos' \in Slots
           /\ stage' = "idle" => pos' = 1
<1>1. NSlots \in Nat \ {0} /\ pos \in 1..NSlots /\ stage \in {"start", "run"}
  BY ConstantsAssumption DEF TypeOK, Slots
<1>. QED  BY <1>1 DEF Advance, Slots

LEMMA OnStartKeeps == IInv /\ OnStart => IInv'
<1>. SUFFICES ASSUME IInv, OnStart  PROVE IInv'
  OBVIOUS
<1>. DEFINE x == comps[pos]
<1>1. TypeOK /\ pos \in Slots /\ x \in Components /\ stage = "start" /\ Advance
      /\ UNCHANGED <<age, spent, events, next, turn, owed, overran>>
  BY DEF IInv, TypeOK, OnStart
<1>2. stage' \in {"start", "idle", "run"} /\ pos' \in Slots /\ (stage' = "idle" => pos' = 1)
  BY <1>1, AdvanceType
<1>3. /\ comps' \in [Slots -> Components]
      /\ fails' \in [Slots -> 0..MaxFailures] /\ slow' \in [Slots -> 0..MaxSlow]
      /\ failed' \in [Components -> 0..MaxFailures]
      /\ overran' \in [Components -> 0..MaxSlow]
      /\ AtHome' /\ CleanRecords' /\ Counted'
  <2>1. CASE UNCHANGED <<comps, fails, slow, failed>>
    <3>1. UNCHANGED <<comps, fails, slow, failed, overran>>
      BY <1>1, <2>1
    <3>. QED  BY <3>1 DEF IInv, TypeOK, AtHome, CleanRecords, Counted, HasFallback
  <2>2. CASE Reseat(pos, Fails(SeatOf(pos))) /\ failed' = [failed EXCEPT ![x] = Inc(@, MaxFailures)]
    <3>. DEFINE seat == SeatOf(pos)
                f == Inc(seat.fails, MaxFailures)
                o == overran[x]
    <3>1. seat \in Seat /\ seat.comp = x /\ seat.fails = fails[pos] /\ seat.slow = slow[pos]
      BY <1>1, SeatType DEF SeatOf
    <3>2. /\ fails[pos] = failed[x] /\ overran[x] <= slow[pos]
          /\ HasFallback(x) => fails[pos] < MaxFailures /\ slow[pos] < MaxSlow
          /\ slow[pos] \in 0..MaxSlow /\ o \in 0..MaxSlow /\ MaxSlow \in Nat \ {0}
      BY <1>1, SlowAssumption DEF IInv, Counted, TypeOK
    <3>. HIDE DEF seat
    <3>3. SeatChange(x, Fails(seat), f, o)
      BY <3>1, <3>2, FailsSeat DEF SeatChange
    <3>4. failed' = [failed EXCEPT ![x] = f]
      BY <2>2, <3>1, <3>2
    <3>5. overran \in [Components -> 0..MaxSlow]
      BY <1>1 DEF TypeOK
    <3>6. overran' = [overran EXCEPT ![x] = o]
      BY <1>1, <3>5
    <3>7. Reseat(pos, Fails(seat))
      BY <2>2 DEF seat
    <3>. HIDE DEF f, o
    <3>. QED  BY <3>3, <3>4, <3>6, <3>7, ReseatKeeps
  <2>. QED  BY <2>1, <2>2 DEF OnStart, c
<1>4. TypeOK'
  BY <1>1, <1>2, <1>3 DEF TypeOK
<1>5. EventsKept'
  BY <1>1 DEF IInv, EventsKept, Advance
<1>. QED  BY <1>3, <1>4, <1>5 DEF IInv

LEMMA BeginDecisionKeeps == IInv /\ BeginDecision => IInv'
<1>. SUFFICES ASSUME IInv, BeginDecision  PROVE IInv'
  OBVIOUS
<1>1. TypeOK /\ stage = "idle" /\ stage' = "run" /\ pos = 1 /\ events' = next /\ next' = {}
      /\ UNCHANGED <<pos, comps, fails, slow, turn, owed, failed, overran>> /\ spent' = FALSE
  BY DEF IInv, TypeOK, BeginDecision, EventsCarried, ghost
<1>2. age' \in [Components -> 0..Never]
  <2>1. PICK d \in 0..MaxAge : age' = [x \in Components |->
          IF age[x] = Never THEN Never ELSE AtMost(age[x] + d, MaxAge)]
    BY DEF BeginDecision
  <2>2. ASSUME NEW x \in Components, age[x] # Never
        PROVE  AtMost(age[x] + d, MaxAge) \in 0..Never
    <3>1. MaxAge \in Nat /\ age[x] \in 0..Never
      BY <1>1, ConstantsAssumption DEF TypeOK
    <3>. QED  BY <3>1 DEF AtMost, Never
  <2>3. Never \in 0..Never
    BY ConstantsAssumption DEF Never
  <2>. QED  BY <2>1, <2>2, <2>3
<1>3. TypeOK'
  BY <1>1, <1>2 DEF TypeOK
<1>4. AtHome' /\ CleanRecords' /\ Counted'
  BY <1>1 DEF IInv, AtHome, CleanRecords, Counted, HasFallback
<1>5. EventsKept'
  <2>1. \A s \in Slots : s >= 1 /\ ~(s < 1) /\ owed[s] \subseteq next
    BY <1>1 DEF IInv, EventsKept, Slots
  <2>. QED  BY <1>1, <2>1 DEF EventsKept
<1>. QED  BY <1>3, <1>4, <1>5 DEF IInv

\* What every turn does to the loop and the ghosts that follow it.
LEMMA TurnKeeps ==
    ASSUME IInv, NEW raised \in SUBSET Events,
           NEW outcome \in {"skipped", "deferred", "ticked"}, TurnEnds(outcome, raised),
           events' = events \cup raised, next' = next \cup raised
    PROVE  /\ stage' \in {"start", "idle", "run"} /\ pos' \in Slots
           /\ stage' = "idle" => pos' = 1
           /\ events' \subseteq Events /\ next' \subseteq Events
           /\ turn' \in [Slots -> {"none", "skipped", "deferred", "ticked"}]
           /\ owed' \in [Slots -> SUBSET Events]
           /\ EventsKept'
<1>1. TypeOK /\ stage = "run" /\ Advance
  BY DEF IInv, TurnEnds
<1>2. stage' \in {"start", "idle", "run"} /\ pos' \in Slots /\ (stage' = "idle" => pos' = 1)
  BY <1>1, AdvanceType
<1>3. events' \subseteq Events /\ next' \subseteq Events
  BY <1>1 DEF TypeOK
<1>4. turn' \in [Slots -> {"none", "skipped", "deferred", "ticked"}]
  BY <1>1 DEF TypeOK, TurnEnds
<1>5. owed' = [s \in Slots |-> IF s = pos THEN raised ELSE owed[s] \cup raised]
  BY DEF TurnEnds
<1>6. owed' \in [Slots -> SUBSET Events]
  BY <1>1, <1>5 DEF TypeOK
<1>7. EventsKept'
  <2>. SUFFICES ASSUME NEW s \in Slots
                PROVE  /\ stage' = "run" /\ s >= pos' => owed'[s] \subseteq events'
                       /\ stage' = "run" /\ s < pos' => owed'[s] \subseteq next'
                       /\ stage' = "idle" => owed'[s] \subseteq next'
                       /\ stage' = "start" => owed'[s] = {}
    BY DEF EventsKept
  <2>1. NSlots \in Nat /\ s \in 1..NSlots /\ pos \in 1..NSlots
    BY <1>1, ConstantsAssumption DEF TypeOK, Slots
  <2>2. owed'[s] = IF s = pos THEN raised ELSE owed[s] \cup raised
    BY <1>5
  <2>3. s < pos => owed'[s] \subseteq next'
    BY <1>1, <2>1, <2>2 DEF IInv, EventsKept
  <2>4. s = pos => owed'[s] \subseteq next' /\ owed'[s] \subseteq events'
    BY <2>2
  <2>5. s > pos => owed'[s] \subseteq events'
    BY <1>1, <2>1, <2>2 DEF IInv, EventsKept
  <2>6. \/ pos = NSlots /\ stage' = "idle" /\ pos' = 1
        \/ pos' = pos + 1 /\ stage' = "run"
    BY <1>1 DEF Advance
  <2>. QED  BY <2>1, <2>3, <2>4, <2>5, <2>6
<1>. QED  BY <1>2, <1>3, <1>4, <1>6, <1>7

LEMMA PassedOverKeeps == IInv /\ (Skip \/ Defer) => IInv'
<1>. SUFFICES ASSUME IInv, Skip \/ Defer  PROVE IInv'
  OBVIOUS
<1>1. PICK outcome \in {"skipped", "deferred", "ticked"} : TurnEnds(outcome, {})
  BY DEF Skip, Defer
<1>2. /\ UNCHANGED <<comps, age, events, next, fails, slow, failed, overran>>
      /\ spent' \in BOOLEAN
  BY DEF Skip, Defer, IInv, TypeOK
<1>3. /\ stage' \in {"start", "idle", "run"} /\ pos' \in Slots /\ (stage' = "idle" => pos' = 1)
      /\ events' \subseteq Events /\ next' \subseteq Events
      /\ turn' \in [Slots -> {"none", "skipped", "deferred", "ticked"}]
      /\ owed' \in [Slots -> SUBSET Events]
      /\ EventsKept'
  <2>1. events' = events \cup {} /\ next' = next \cup {}
    BY <1>2
  <2>. QED  BY <1>1, <2>1, TurnKeeps
<1>4. TypeOK'
  BY <1>2, <1>3 DEF IInv, TypeOK
<1>5. AtHome' /\ CleanRecords' /\ Counted'
  BY <1>2 DEF IInv, AtHome, CleanRecords, Counted, HasFallback
<1>. QED  BY <1>3, <1>4, <1>5 DEF IInv

LEMMA TickKeeps ==
    ASSUME NEW raised \in SUBSET Events, NEW fine \in BOOLEAN, NEW inTime \in BOOLEAN
    PROVE  IInv /\ Tick(raised, fine, inTime) => IInv'
<1>. SUFFICES ASSUME IInv, Tick(raised, fine, inTime)  PROVE IInv'
  OBVIOUS
<1>. DEFINE x == comps[pos]
            seat == SeatOf(pos)
            f == IF fine THEN 0 ELSE Inc(seat.fails, MaxFailures)
            o == IF inTime THEN 0 ELSE Inc(overran[x], MaxSlow)
<1>1. TypeOK /\ pos \in Slots /\ x \in Components
  BY DEF IInv, TypeOK
<1>2. seat \in Seat /\ seat.comp = x /\ seat.fails = fails[pos] /\ seat.slow = slow[pos]
  BY <1>1, SeatType DEF SeatOf
<1>3. /\ fails[pos] = failed[x] /\ overran[x] <= slow[pos] /\ overran[x] \in 0..MaxSlow
      /\ HasFallback(x) => fails[pos] < MaxFailures /\ slow[pos] < MaxSlow
  BY <1>1 DEF IInv, Counted, TypeOK
<1>. HIDE DEF seat
<1>4. SeatChange(x, SeatAfter(seat, fine, inTime), f, o)
  BY <1>2, <1>3, TickSeat
<1>5. Reseat(pos, SeatAfter(seat, fine, inTime))
  BY <1>2 DEF Tick, SeatAfter, c, seat
<1>6. failed' = [failed EXCEPT ![x] = f] /\ overran' = [overran EXCEPT ![x] = o]
  <2>1. /\ failed'  = [failed EXCEPT ![x] = IF fine THEN 0 ELSE Inc(@, MaxFailures)]
        /\ overran' = [overran EXCEPT ![x] = IF inTime THEN 0 ELSE Inc(@, MaxSlow)]
    BY DEF Tick, c
  <2>. QED  BY <1>2, <1>3, <2>1
<1>. HIDE DEF f, o
<1>7. /\ comps' \in [Slots -> Components]
      /\ fails' \in [Slots -> 0..MaxFailures] /\ slow' \in [Slots -> 0..MaxSlow]
      /\ failed' \in [Components -> 0..MaxFailures]
      /\ overran' \in [Components -> 0..MaxSlow]
      /\ AtHome' /\ CleanRecords' /\ Counted'
  BY <1>4, <1>5, <1>6, ReseatKeeps
<1>8. /\ stage' \in {"start", "idle", "run"} /\ pos' \in Slots /\ (stage' = "idle" => pos' = 1)
      /\ events' \subseteq Events /\ next' \subseteq Events
      /\ turn' \in [Slots -> {"none", "skipped", "deferred", "ticked"}]
      /\ owed' \in [Slots -> SUBSET Events]
      /\ EventsKept'
  <2>1. TurnEnds("ticked", raised) /\ events' = events \cup raised /\ next' = next \cup raised
    BY DEF Tick
  <2>. QED  BY <2>1, TurnKeeps
<1>9. age' \in [Components -> 0..Never] /\ spent' \in BOOLEAN
  <2>1. age' = [age EXCEPT ![x] = 0] /\ spent' = spent
    BY DEF Tick, c
  <2>2. 0 \in 0..Never
    BY ConstantsAssumption DEF Never
  <2>. QED  BY <1>1, <2>1, <2>2 DEF TypeOK
<1>10. TypeOK'
  BY <1>7, <1>8, <1>9 DEF TypeOK
<1>. QED  BY <1>7, <1>8, <1>10 DEF IInv

LEMMA StepInvariant == IInv /\ [Next]_vars => IInv'
<1>. SUFFICES ASSUME IInv, [Next]_vars  PROVE IInv'
  OBVIOUS
<1>1. CASE OnStart
  BY <1>1, OnStartKeeps
<1>2. CASE BeginDecision
  BY <1>2, BeginDecisionKeeps
<1>3. CASE Skip \/ Defer
  BY <1>3, PassedOverKeeps
<1>4. ASSUME NEW raised \in SUBSET Events, NEW fine \in BOOLEAN, NEW inTime \in BOOLEAN,
             Tick(raised, fine, inTime)
      PROVE  IInv'
  BY <1>4, TickKeeps
<1>5. CASE UNCHANGED vars
  BY <1>5 DEF vars, code, ghost, IInv, TypeOK, AtHome, CleanRecords, Counted, EventsKept, HasFallback
<1>. QED  BY <1>1, <1>2, <1>3, <1>4, <1>5 DEF Next

LEMMA Invariance == Spec => []IInv
BY InitInvariant, StepInvariant, PTL DEF Spec

-----------------------------------------------------------------------------
(* The theorems                                                            *)

\* Every variable keeps its type: no slot is ever left without a component,
\* whatever fails and whatever overruns (Scheduler.run, _fail, _replace).
THEOREM TypeCorrect == Spec => []TypeOK
<1>1. IInv => TypeOK
  BY DEF IInv
<1>. QED  BY <1>1, Invariance, PTL

\* A component that raised or overran as often as the limits allow is out, for
\* any number of slots and any length of the chains of fallbacks.
THEOREM FaultyRetireHolds == Spec => []FaultyRetire
<1>1. IInv => FaultyRetire
  <2>. SUFFICES ASSUME IInv, NEW s \in Slots, HasFallback(comps[s])
                PROVE  failed[comps[s]] < MaxFailures /\ overran[comps[s]] < MaxSlow
    BY DEF FaultyRetire
  <2>1. /\ fails[s] = failed[comps[s]] /\ overran[comps[s]] <= slow[s]
        /\ fails[s] < MaxFailures /\ slow[s] < MaxSlow
    BY DEF IInv, Counted
  <2>2. overran[comps[s]] \in 0..MaxSlow /\ slow[s] \in 0..MaxSlow /\ MaxSlow \in Nat
    BY SlowAssumption DEF IInv, TypeOK
  <2>. QED  BY <2>1, <2>2
<1>. QED  BY <1>1, Invariance, PTL

\* A component's first turn is taken however late the decision is.
THEOREM FirstTurnsTakenHolds == Spec => FirstTurnsTaken
<1>1. IInv /\ [Next]_vars =>
        [\A s \in Slots :
            stage = "run" /\ pos = s /\ age[comps[s]] = Never => turn'[s] = "ticked"]_vars
  <2>. SUFFICES ASSUME IInv, Next, stage = "run", age[comps[pos]] = Never
                PROVE  turn'[pos] = "ticked"
    BY DEF vars
  <2>1. turn \in [Slots -> {"none", "skipped", "deferred", "ticked"}] /\ pos \in Slots
    BY DEF IInv, TypeOK
  <2>2. PICK raised \in SUBSET Events, fine \in BOOLEAN, inTime \in BOOLEAN :
          Tick(raised, fine, inTime)
    BY DEF Next, OnStart, BeginDecision, Skip, Defer, Due, MayDefer, c
  <2>3. turn' = [turn EXCEPT ![pos] = "ticked"]
    BY <2>2 DEF Tick, TurnEnds
  <2>. QED  BY <2>1, <2>3
<1>. QED  BY <1>1, Invariance, PTL DEF Spec, FirstTurnsTaken

\* An event raised since a slot's last turn is noticed at its next one, whoever
\* raised it and in whatever order the slots come.
THEOREM TriggersReachHolds == Spec => TriggersReach
<1>1. IInv /\ [Next]_vars =>
        [\A s \in Slots :
            stage = "run" /\ pos = s /\ turn'[s] = "skipped"
              => owed[s] \cap Triggers[comps[s]] = {}]_vars
  <2>. SUFFICES ASSUME IInv, Next, stage = "run", turn'[pos] = "skipped"
                PROVE  owed[pos] \cap Triggers[comps[pos]] = {}
    BY DEF vars
  <2>1. turn \in [Slots -> {"none", "skipped", "deferred", "ticked"}] /\ pos \in Slots
    BY DEF IInv, TypeOK
  <2>2. owed[pos] \subseteq events
    <3>1. pos >= pos
      BY <2>1 DEF Slots
    <3>. QED  BY <2>1, <3>1 DEF IInv, EventsKept
  <2>3. CASE Skip
    BY <2>2, <2>3 DEF Skip, Due, c
  <2>4. ASSUME NEW outcome \in {"deferred", "ticked"}, NEW raised, TurnEnds(outcome, raised)
        PROVE  FALSE
    BY <2>1, <2>4 DEF TurnEnds
  <2>. QED  BY <2>3, <2>4 DEF Next, OnStart, BeginDecision, Defer, Tick
<1>. QED  BY <1>1, Invariance, PTL DEF Spec, TriggersReach

-----------------------------------------------------------------------------
(* Replacement.  When a failure costs a component its slot, the time of   *)
(* the same tick is booked on its fallback: the counts agree for a        *)
(* component that has a fallback only if fallbacks have none of their own,*)
(* as in the profile that profile.py shows and wherever the tests use one.*)

SingleFallbacks == \A x \in Components : HasFallback(x) => ~HasFallback(Fallback[x])

\* As long as a component can be replaced, its overruns are its own.
OwnOverruns == \A s \in Slots : HasFallback(comps[s]) => overran[comps[s]] = slow[s]

\* The judgement of a turn, as a seat, and what it says of x.
LEMMA TickCause ==
    ASSUME NEW seat \in Seat, NEW fine \in BOOLEAN, NEW inTime \in BOOLEAN,
           NEW after, after = SeatAfter(seat, fine, inTime),
           HasFallback(seat.comp) => seat.fails < MaxFailures /\ seat.slow < MaxSlow
    PROVE  \/ /\ after.comp = seat.comp
              /\ HasFallback(seat.comp) =>
                    after.slow = IF inTime THEN 0 ELSE Inc(seat.slow, MaxSlow)
           \/ /\ HasFallback(seat.comp) /\ after.comp = Fallback[seat.comp]
              /\ \/ ~fine /\ Inc(seat.fails, MaxFailures) = MaxFailures
                 \/ ~inTime /\ Inc(seat.slow, MaxSlow) = MaxSlow
<1>. DEFINE x == seat.comp
            judged == IF fine THEN Succeeds(seat) ELSE Fails(seat)
            n == Inc(judged.slow, MaxSlow)
<1>1. MaxSlow \in Nat \ {0, 1} /\ x \in Components /\ seat.slow \in 0..MaxSlow
      /\ seat = [comp |-> x, fails |-> seat.fails, slow |-> seat.slow]
  BY SlowAssumption DEF Seat
<1>2. \/ judged.comp = x /\ judged.slow = seat.slow
      \/ /\ HasFallback(x) /\ judged.comp = Fallback[x] /\ judged.slow = 0
         /\ ~fine /\ Inc(seat.fails, MaxFailures) = MaxFailures
  <2>1. CASE fine
    <3>1. judged = [comp |-> x, fails |-> 0, slow |-> seat.slow]
      BY <1>1, <2>1 DEF Succeeds
    <3>. QED  BY <3>1
  <2>2. CASE ~fine
    BY <2>2, FailsSeat
  <2>. QED  BY <2>1, <2>2
<1>3. judged \in Seat
  <2>1. CASE fine
    BY <2>1, <1>1, ConstantsAssumption DEF Succeeds, Seat
  <2>2. CASE ~fine
    BY <2>2, FailsSeat
  <2>. QED  BY <2>1, <2>2
<1>. HIDE DEF judged
<1>4. judged = [comp |-> judged.comp, fails |-> judged.fails, slow |-> judged.slow]
      /\ judged.slow \in 0..MaxSlow
  BY <1>3 DEF Seat
<1>5. CASE inTime
  <2>1. after = [comp |-> judged.comp, fails |-> judged.fails, slow |-> 0]
    BY <1>4, <1>5 DEF SeatAfter, InTime, judged
  <2>2. after.comp = judged.comp /\ after.slow = 0
    BY <2>1
  <2>3. (IF inTime THEN 0 ELSE Inc(seat.slow, MaxSlow)) = 0
    BY <1>5
  <2>. QED  BY <1>2, <2>2, <2>3
<1>6. CASE ~inTime
  <2>1. after = Overruns(judged, x)
    BY <1>6 DEF SeatAfter, judged
  <2>2. (n >= MaxSlow => n = MaxSlow) /\ (judged.slow = 0 => ~(n >= MaxSlow))
    BY <1>1, <1>4 DEF Inc, AtMost
  <2>3. CASE n >= MaxSlow /\ HasFallback(x)
    <3>1. judged.slow # 0 /\ n = MaxSlow
      BY <2>2, <2>3
    <3>2. judged.comp = x /\ judged.slow = seat.slow
      BY <1>2, <3>1
    <3>3. after = [comp |-> Fallback[x], fails |-> 0, slow |-> 0]
      BY <2>1, <2>3, <3>2 DEF Overruns, Replaced
    <3>. QED  BY <1>6, <2>3, <3>1, <3>2, <3>3
  <2>4. CASE ~(n >= MaxSlow /\ HasFallback(x))
    <3>1. after = [comp |-> judged.comp, fails |-> judged.fails, slow |-> n]
      BY <1>4, <2>1, <2>4 DEF Overruns
    <3>. QED  BY <1>2, <1>6, <3>1
  <2>. QED  BY <2>3, <2>4
<1>. QED  BY <1>5, <1>6

\* What a tick and a failed on_start mean for the slot's component.
LEMMA TickReplaces ==
    ASSUME IInv, OwnOverruns, NEW raised, NEW fine \in BOOLEAN, NEW inTime \in BOOLEAN,
           Tick(raised, fine, inTime)
    PROVE  /\ \A s \in Slots \ {pos} : comps'[s] = comps[s] /\ overran'[comps[s]] = overran[comps[s]]
                                       /\ slow'[s] = slow[s]
           /\ \/ /\ comps'[pos] = comps[pos]
                 /\ HasFallback(comps[pos]) => overran'[comps[pos]] = slow'[pos]
              \/ /\ HasFallback(comps[pos]) /\ comps'[pos] = Fallback[comps[pos]]
                 /\ failed'[comps[pos]] = MaxFailures \/ overran'[comps[pos]] = MaxSlow
<1>. DEFINE x == comps[pos]
            seat == SeatOf(pos)
            after == SeatAfter(seat, fine, inTime)
<1>1. /\ pos \in Slots /\ comps \in [Slots -> Components] /\ x \in Components
      /\ slow \in [Slots -> 0..MaxSlow] /\ fails \in [Slots -> 0..MaxFailures]
      /\ failed \in [Components -> 0..MaxFailures] /\ overran \in [Components -> 0..MaxSlow]
  BY DEF IInv, TypeOK
<1>2. seat \in Seat /\ seat.comp = x /\ seat.fails = fails[pos] /\ seat.slow = slow[pos]
  BY SeatType, <1>1 DEF SeatOf, IInv
<1>3. /\ fails[pos] = failed[x]
      /\ HasFallback(x) => overran[x] = slow[pos]
      /\ HasFallback(x) => fails[pos] < MaxFailures /\ slow[pos] < MaxSlow
  BY <1>1 DEF IInv, Counted, OwnOverruns
<1>. HIDE DEF seat
<1>4. \/ after.comp = x /\ (HasFallback(x) => after.slow = IF inTime THEN 0 ELSE Inc(slow[pos], MaxSlow))
      \/ /\ HasFallback(x) /\ after.comp = Fallback[x]
         /\ \/ ~fine /\ Inc(fails[pos], MaxFailures) = MaxFailures
            \/ ~inTime /\ Inc(slow[pos], MaxSlow) = MaxSlow
  BY <1>2, <1>3, TickCause
<1>5. /\ comps' = [comps EXCEPT ![pos] = after.comp] /\ slow' = [slow EXCEPT ![pos] = after.slow]
      /\ failed'  = [failed EXCEPT ![x] = IF fine THEN 0 ELSE Inc(@, MaxFailures)]
      /\ overran' = [overran EXCEPT ![x] = IF inTime THEN 0 ELSE Inc(@, MaxSlow)]
  BY <1>2 DEF Tick, Reseat, SeatAfter, c, seat
<1>. HIDE DEF after
<1>6. \A s \in Slots \ {pos} : comps[s] # x /\ comps[s] \in Components
  BY <1>1 DEF IInv, AtHome
<1>7. /\ \A s \in Slots \ {pos} : comps'[s] = comps[s] /\ overran'[comps[s]] = overran[comps[s]]
                                  /\ slow'[s] = slow[s]
      /\ comps'[pos] = after.comp /\ slow'[pos] = after.slow
      /\ failed'[x] = IF fine THEN 0 ELSE Inc(failed[x], MaxFailures)
      /\ overran'[x] = IF inTime THEN 0 ELSE Inc(overran[x], MaxSlow)
  BY <1>1, <1>5, <1>6
<1>8. CASE after.comp = x /\ (HasFallback(x) => after.slow = IF inTime THEN 0 ELSE Inc(slow[pos], MaxSlow))
  <2>1. HasFallback(x) => overran'[x] = slow'[pos]
    BY <1>3, <1>7, <1>8
  <2>. QED  BY <1>7, <1>8, <2>1
<1>9. CASE /\ HasFallback(x) /\ after.comp = Fallback[x]
           /\ \/ ~fine /\ Inc(fails[pos], MaxFailures) = MaxFailures
              \/ ~inTime /\ Inc(slow[pos], MaxSlow) = MaxSlow
  <2>1. failed'[x] = MaxFailures \/ overran'[x] = MaxSlow
    BY <1>3, <1>7, <1>9
  <2>. QED  BY <1>7, <1>9, <2>1
<1>. QED  BY <1>4, <1>8, <1>9

LEMMA StartReplaces ==
    ASSUME IInv, OwnOverruns, OnStart
    PROVE  /\ \A s \in Slots \ {pos} : comps'[s] = comps[s] /\ overran'[comps[s]] = overran[comps[s]]
                                       /\ slow'[s] = slow[s]
           /\ \/ /\ comps'[pos] = comps[pos]
                 /\ HasFallback(comps[pos]) => overran'[comps[pos]] = slow'[pos]
              \/ /\ HasFallback(comps[pos]) /\ comps'[pos] = Fallback[comps[pos]]
                 /\ failed'[comps[pos]] = MaxFailures \/ overran'[comps[pos]] = MaxSlow
<1>. DEFINE x == comps[pos]
            seat == SeatOf(pos)
<1>1. /\ pos \in Slots /\ comps \in [Slots -> Components] /\ x \in Components
      /\ slow \in [Slots -> 0..MaxSlow] /\ failed \in [Components -> 0..MaxFailures]
      /\ UNCHANGED overran
  BY DEF IInv, TypeOK, OnStart
<1>2. HasFallback(x) => overran[x] = slow[pos]
  BY <1>1 DEF OwnOverruns
<1>3. CASE UNCHANGED <<comps, fails, slow, failed>>
  BY <1>1, <1>2, <1>3
<1>4. CASE Reseat(pos, Fails(SeatOf(pos))) /\ failed' = [failed EXCEPT ![x] = Inc(@, MaxFailures)]
  <2>1. seat \in Seat /\ seat.comp = x /\ seat.fails = fails[pos] /\ seat.slow = slow[pos]
    BY <1>1, SeatType DEF SeatOf, IInv
  <2>2. /\ fails[pos] = failed[x]
        /\ HasFallback(x) => fails[pos] < MaxFailures /\ slow[pos] < MaxSlow
    BY <1>1 DEF IInv, Counted
  <2>. HIDE DEF seat
  <2>3. \/ Fails(seat).comp = x /\ Fails(seat).slow = slow[pos]
        \/ /\ HasFallback(x) /\ Fails(seat).comp = Fallback[x]
           /\ Inc(fails[pos], MaxFailures) = MaxFailures
    BY <2>1, <2>2, FailsSeat
  <2>4. comps' = [comps EXCEPT ![pos] = Fails(seat).comp] /\ slow' = [slow EXCEPT ![pos] = Fails(seat).slow]
    BY <1>4 DEF Reseat, seat
  <2>5. /\ \A s \in Slots \ {pos} : comps'[s] = comps[s] /\ slow'[s] = slow[s]
        /\ comps'[pos] = Fails(seat).comp /\ slow'[pos] = Fails(seat).slow
        /\ failed'[x] = Inc(failed[x], MaxFailures)
    BY <1>1, <1>4, <2>4
  <2>. QED  BY <1>1, <1>2, <2>2, <2>3, <2>5
<1>. QED  BY <1>3, <1>4 DEF OnStart, c

LEMMA StepReplaces ==
    ASSUME IInv, OwnOverruns, [Next]_vars, SingleFallbacks
    PROVE  /\ OwnOverruns'
           /\ \A s \in Slots : comps'[s] # comps[s] =>
                 /\ comps'[s] = Fallback[comps[s]]
                 /\ failed'[comps[s]] = MaxFailures \/ overran'[comps[s]] = MaxSlow
<1>1. CASE OnStart \/ \E raised \in SUBSET Events, fine, inTime \in BOOLEAN : Tick(raised, fine, inTime)
  <2>1. /\ \A s \in Slots \ {pos} : comps'[s] = comps[s] /\ overran'[comps[s]] = overran[comps[s]]
                                    /\ slow'[s] = slow[s]
        /\ \/ /\ comps'[pos] = comps[pos]
              /\ HasFallback(comps[pos]) => overran'[comps[pos]] = slow'[pos]
           \/ /\ HasFallback(comps[pos]) /\ comps'[pos] = Fallback[comps[pos]]
              /\ failed'[comps[pos]] = MaxFailures \/ overran'[comps[pos]] = MaxSlow
    BY <1>1, TickReplaces, StartReplaces
  <2>2. \A s \in Slots : comps[s] \in Components
    BY DEF IInv, TypeOK
  <2>3. OwnOverruns'
    <3>. SUFFICES ASSUME NEW s \in Slots, HasFallback(comps'[s])
                  PROVE  overran'[comps'[s]] = slow'[s]
      BY DEF OwnOverruns, HasFallback
    <3>1. CASE s # pos
      BY <2>1, <3>1 DEF OwnOverruns
    <3>2. CASE s = pos
      BY <2>1, <2>2, <3>2 DEF SingleFallbacks
    <3>. QED  BY <3>1, <3>2
  <2>. QED  BY <2>1, <2>3
<1>2. CASE UNCHANGED <<comps, slow, overran>>
  BY <1>2 DEF OwnOverruns, HasFallback
<1>. QED  BY <1>1, <1>2 DEF Next, BeginDecision, Skip, Defer, ghost, vars, code

\* A component loses its slot only to its own fallback and after as many faults
\* of its own, in a row, as the limits say (run's time check, _fail, _replace),
\* if fallbacks have none of their own.
THEOREM ReplacedForCauseHolds ==
    ASSUME SingleFallbacks
    PROVE  Spec => ReplacedForCause
<1>1. Init => OwnOverruns
  <2>. SUFFICES ASSUME Init, NEW s \in Slots  PROVE overran[comps[s]] = slow[s]
    BY DEF OwnOverruns
  <2>. QED  BY ConstantsAssumption DEF Init
<1>2. IInv /\ OwnOverruns /\ [Next]_vars => OwnOverruns'
  BY StepReplaces
<1>3. IInv /\ OwnOverruns /\ [Next]_vars =>
        [\A s \in Slots : comps'[s] # comps[s] =>
            /\ comps'[s] = Fallback[comps[s]]
            /\ failed'[comps[s]] = MaxFailures \/ overran'[comps[s]] = MaxSlow]_vars
  BY StepReplaces
<1>. QED  BY <1>1, <1>2, <1>3, Invariance, PTL DEF Spec, ReplacedForCause

-----------------------------------------------------------------------------
(* The log (GameLog)                                                       *)

GameIds == 1..MaxGames
FightRows == [t : {"fight"}, game : GameIds, f : Nat, fid : Nat, own : SUBSET Own, foes : SUBSET Foes,
              ownLost : Nat, foesLost : Nat]
ContextRows == [t : {"ctx"}, game : GameIds, f : Nat]
EndRows == [t : {"end"}, game : GameIds, won : BOOLEAN, rows : Nat]
HeaderRows == [t : {"header"}, game : GameIds]
Rows == HeaderRows \cup FightRows \cup ContextRows \cup EndRows \cup {Torn}
Fights == [fid : Nat, start : Nat, last : Nat, center : 1..NPlaces, own : SUBSET Own, foes : SUBSET Foes,
           ownLost : Nat, foesLost : Nat]
Results == [won : BOOLEAN, fights : Nat] \cup {Nothing}

LogTypes ==
    /\ phase \in {"down", "idle", "playing"}
    /\ game \in 0..MaxGames /\ frame \in Nat
    /\ file \in Paths \cup {Nothing} /\ rows \in Nat
    /\ disk \in [Paths -> Seq(Rows)]
    /\ fights \in Seq(Fights) /\ nextFid \in Nat
    /\ dead \subseteq Own \cup Foes
    /\ result \in Seq(Results) /\ Len(result) = game

\* Where the rows of these kinds are in a list.
At(list, kinds) == {i \in DOMAIN list : list[i].t \in kinds}
Recorded == {"fight", "ctx"}
FidsOf(list) == {list[i].fid : i \in DOMAIN list}
FidsIn(list) == {list[i].fid : i \in At(list, {"fight"})}

\* A file begins with its only header, which is that of a game that was begun,
\* its other rows are that game's, and none of its fights is in it twice.
OfOneGame(list, g) ==
    list # <<>> =>
        /\ list[1] \in HeaderRows /\ list[1].game <= g
        /\ \A i \in At(list, {"header"}) : i = 1
        /\ \A i \in At(list, {"fight", "ctx", "end"}) : list[i].game = list[1].game
        /\ \A i, k \in At(list, {"fight"}) : list[i].fid = list[k].fid => i = k

\* A file with a footer has all that the game has recorded, and its result.
Complete(list, res) ==
    \A i \in At(list, {"end"}) :
        /\ list[i].rows = Cardinality(At(list, Recorded))
        /\ res[list[1].game] \in [won : {list[i].won}, fights : Nat]
        /\ FidsIn(list) = 0..res[list[1].game].fights - 1

LogFiles == \A p \in Paths : OfOneGame(disk[p], game) /\ Complete(disk[p], result)

\* No unit's death is missing in a fight it was seen in.
LossesIn(list, gone) ==
    \A i \in DOMAIN list :
        /\ list[i].ownLost = Cardinality(list[i].own \cap gone)
        /\ list[i].foesLost = Cardinality(list[i].foes \cap gone)

\* Each fight there was is going on or is written.
Numbered(list, n, written) ==
    /\ \A i, k \in DOMAIN list : list[i].fid = list[k].fid => i = k
    /\ \A i \in DOMAIN list : list[i].fid \in 0..n-1 /\ list[i].fid \notin written
    /\ \A m \in 0..n-1 : m \in written \/ \E i \in DOMAIN list : list[i].fid = m
    /\ written \subseteq 0..n-1

\* The file of the game that is being played is its own, and it is not ended.
LogOpen ==
    phase = "playing" =>
        /\ file \in Paths /\ disk[file] # <<>>
        /\ disk[file][1].game = game
        /\ At(disk[file], {"end"}) = {}
        /\ Cardinality(At(disk[file], Recorded)) = rows
        /\ \A p \in Paths \ {file} : disk[p] # <<>> => disk[p][1].game < game
        /\ Numbered(fights, nextFid, FidsIn(disk[file]))

LogLosses == LossesIn(fights, dead)

LogInv == LogTypes /\ LogFiles /\ LogOpen /\ LogLosses

\* The rows of a list that has got longer.
LEMMA AtAppended ==
    ASSUME NEW S, NEW old \in Seq(S), NEW new \in Seq(S), NEW K
    PROVE  /\ old \o new \in Seq(S) /\ Len(old \o new) = Len(old) + Len(new)
           /\ \A i \in DOMAIN old : i \in DOMAIN (old \o new) /\ (old \o new)[i] = old[i]
           /\ \A i \in DOMAIN new : Len(old) + i \in DOMAIN (old \o new) /\ (old \o new)[Len(old) + i] = new[i]
           /\ At(old \o new, K) = At(old, K) \cup {Len(old) + i : i \in At(new, K)}
           /\ At(old, K) \subseteq 1..Len(old) /\ At(new, K) \subseteq 1..Len(new)
<1>. DEFINE all == old \o new
<1>1. /\ Len(old) \in Nat /\ Len(new) \in Nat /\ DOMAIN old = 1..Len(old) /\ DOMAIN new = 1..Len(new)
  BY LenProperties
<1>2. /\ all \in Seq(S) /\ Len(all) = Len(old) + Len(new)
      /\ \A i \in 1..Len(old) + Len(new) : all[i] = IF i <= Len(old) THEN old[i] ELSE new[i - Len(old)]
  BY ConcatProperties
<1>3. DOMAIN all = 1..Len(old) + Len(new)
  BY <1>2, LenProperties
<1>. HIDE DEF all
<1>4. \A i \in DOMAIN old : i \in DOMAIN all /\ all[i] = old[i]
  BY <1>1, <1>2, <1>3
<1>5. \A i \in DOMAIN new : Len(old) + i \in DOMAIN all /\ all[Len(old) + i] = new[i]
  BY <1>1, <1>2, <1>3
<1>6. ASSUME NEW i \in At(all, K) PROVE i \in At(old, K) \/ \E k \in At(new, K) : i = Len(old) + k
  <2>1. i \in 1..Len(old) + Len(new) /\ all[i].t \in K
    BY <1>3 DEF At
  <2>2. CASE i <= Len(old)
    BY <1>1, <1>2, <2>1, <2>2 DEF At
  <2>3. CASE i > Len(old)
    <3>1. i - Len(old) \in DOMAIN new /\ all[i] = new[i - Len(old)] /\ i = Len(old) + (i - Len(old))
      BY <1>1, <1>2, <2>1, <2>3
    <3>2. i - Len(old) \in At(new, K)
      BY <2>1, <3>1 DEF At
    <3>. QED  BY <3>1, <3>2
  <2>. QED  BY <1>1, <2>1, <2>2, <2>3
<1>7. \A i \in At(old, K) : i \in At(all, K)
  BY <1>4 DEF At
<1>8. \A i \in At(new, K) : Len(old) + i \in At(all, K)
  BY <1>5 DEF At
<1>9. At(all, K) = At(old, K) \cup {Len(old) + i : i \in At(new, K)}
  BY <1>6, <1>7, <1>8
<1>10. At(old, K) \subseteq 1..Len(old) /\ At(new, K) \subseteq 1..Len(new)
  BY <1>1 DEF At
<1>. QED  BY <1>2, <1>4, <1>5, <1>9, <1>10 DEF all

\* Rows of a kind that are all the new ones have are added to those there were.
LEMMA CountAppended ==
    ASSUME NEW S, NEW old \in Seq(S), NEW new \in Seq(S), NEW K, At(new, K) = DOMAIN new
    PROVE  Cardinality(At(old \o new, K)) = Cardinality(At(old, K)) + Len(new)
<1>. DEFINE O == At(old, K)
            n == Len(old)
            m == Len(new)
<1>1. n \in Nat /\ m \in Nat /\ DOMAIN new = 1..m
  BY LenProperties
<1>2. At(old \o new, K) = O \cup {n + i : i \in 1..m} /\ O \subseteq 1..n
  BY <1>1, AtAppended
<1>. HIDE DEF O, n, m
<1>3. {n + i : i \in 1..m} = n+1..n+m
  <2>1. \A k \in n+1..n+m : k - n \in 1..m /\ k = n + (k - n)
    BY <1>1
  <2>2. \A i \in 1..m : n + i \in n+1..n+m
    BY <1>1
  <2>. QED  BY <2>1, <2>2
<1>. DEFINE N == n+1..n+m
<1>4. IsFiniteSet(N) /\ Cardinality(N) = m
  <2>1. \A lo, hi \in Int : IsFiniteSet(lo..hi) /\ Cardinality(lo..hi) = IF lo > hi THEN 0 ELSE hi - lo + 1
    BY FS_Interval
  <2>2. \A lo, hi \in Int : lo = n + 1 /\ hi = n + m => IsFiniteSet(lo..hi) /\ Cardinality(lo..hi) = m
    <3>1. \A lo, hi \in Int : lo = n + 1 /\ hi = n + m => m = IF lo > hi THEN 0 ELSE hi - lo + 1
      BY <1>1
    <3>. QED  BY <2>1, <3>1
  <2>3. n + 1 \in Int /\ n + m \in Int
    BY <1>1
  <2>. QED  BY <2>2, <2>3
<1>5. IsFiniteSet(O)
  <2>1. IsFiniteSet(1..n)
    BY <1>1, FS_Interval
  <2>. QED  BY <1>2, <2>1, FS_Subset
<1>6. O \cap N = {}
  BY <1>1, <1>2
<1>. HIDE DEF N
<1>7. Cardinality(O \cup N) = Cardinality(O) + Cardinality(N) - Cardinality(O \cap N)
  BY <1>4, <1>5, FS_Union
<1>8. Cardinality(O \cap N) = 0 /\ Cardinality(O) \in Nat
  BY <1>5, <1>6, FS_EmptySet, FS_CardinalityType
<1>9. Cardinality(At(old \o new, K)) = Cardinality(O) + m
  <2>1. At(old \o new, K) = O \cup N
    BY <1>2, <1>3 DEF N
  <2>. QED  BY <1>1, <1>4, <1>7, <1>8, <2>1
<1>. QED  BY <1>9 DEF O, m

\* Rows of other kinds change nothing of those of these.
LEMMA NothingAppended ==
    ASSUME NEW S, NEW old \in Seq(S), NEW new \in Seq(S), NEW K, At(new, K) = {}
    PROVE  At(old \o new, K) = At(old, K)
<1>1. At(old \o new, K) = At(old, K) \cup {Len(old) + i : i \in At(new, K)}
  BY AtAppended
<1>. QED  BY <1>1

\* The fights in a list that has got longer.
LEMMA FidsAppended ==
    ASSUME NEW S, NEW old \in Seq(S), NEW new \in Seq(S)
    PROVE  FidsIn(old \o new) = FidsIn(old) \cup FidsIn(new)
<1>. DEFINE all == old \o new
            K == {"fight"}
<1>1. /\ At(all, K) = At(old, K) \cup {Len(old) + i : i \in At(new, K)}
      /\ \A i \in DOMAIN old : all[i] = old[i]
      /\ \A i \in DOMAIN new : all[Len(old) + i] = new[i]
  BY AtAppended
<1>2. At(old, K) \subseteq DOMAIN old /\ At(new, K) \subseteq DOMAIN new
  BY DEF At
<1>. HIDE DEF all, K
<1>3. \A i \in At(old, K) : i \in At(all, K) /\ all[i].fid = old[i].fid
  BY <1>1, <1>2
<1>4. \A i \in At(new, K) : Len(old) + i \in At(all, K) /\ all[Len(old) + i].fid = new[i].fid
  BY <1>1, <1>2
<1>5. \A j \in At(all, K) : j \in At(old, K) \/ \E i \in At(new, K) : j = Len(old) + i
  BY <1>1
<1>6. {all[j].fid : j \in At(all, K)} = {old[i].fid : i \in At(old, K)} \cup {new[i].fid : i \in At(new, K)}
  BY <1>3, <1>4, <1>5
<1>. QED  BY <1>6 DEF FidsIn, all, K

\* More rows of the file's game leave it a file of that one game.
LEMMA FileGrows ==
    ASSUME NEW old \in Seq(Rows), NEW new \in Seq(Rows), OfOneGame(old, game), old # <<>>,
           At(new, {"header"}) = {},
           \A i \in At(new, {"fight", "ctx", "end"}) : new[i].game = old[1].game,
           \A i, k \in At(new, {"fight"}) : new[i].fid = new[k].fid => i = k,
           \A i \in At(new, {"fight"}) : new[i].fid \notin FidsIn(old)
    PROVE  OfOneGame(old \o new, game) /\ old \o new # <<>> /\ (old \o new)[1] = old[1]
<1>. DEFINE all == old \o new
            n == Len(old)
<1>0. n \in Nat /\ n >= 1 /\ 1 \in DOMAIN old
  BY LenProperties, EmptySeq
<1>1. /\ all \in Seq(Rows) /\ Len(all) = n + Len(new) /\ Len(new) \in Nat
      /\ \A i \in DOMAIN old : all[i] = old[i]
      /\ \A i \in DOMAIN new : all[n + i] = new[i]
  BY AtAppended, LenProperties
<1>2. \A K : At(all, K) = At(old, K) \cup {n + i : i \in At(new, K)}
  BY AtAppended
<1>3. \A K : At(old, K) \subseteq DOMAIN old /\ At(new, K) \subseteq DOMAIN new
  BY DEF At
<1>4. all # <<>> /\ all[1] = old[1]
  <2>1. Len(all) # 0
    BY <1>0, <1>1
  <2>2. all # <<>>
    BY <2>1
  <2>. QED  BY <1>0, <1>1, <2>2
<1>. HIDE DEF all, n
<1>5. \A i \in At(all, {"header"}) : i = 1
  <2>1. At(all, {"header"}) = At(old, {"header"})
    BY <1>2
  <2>. QED  BY <2>1 DEF OfOneGame
<1>6. ASSUME NEW i \in At(all, {"fight", "ctx", "end"}) PROVE all[i].game = all[1].game
  <2>1. CASE i \in At(old, {"fight", "ctx", "end"})
    <3>1. all[i] = old[i]
      BY <1>1, <1>3, <2>1
    <3>2. old[i].game = old[1].game
      BY <2>1 DEF OfOneGame
    <3>. QED  BY <1>4, <3>1, <3>2
  <2>2. ASSUME NEW k \in At(new, {"fight", "ctx", "end"}), i = n + k PROVE all[i].game = all[1].game
    <3>1. all[i] = new[k]
      BY <1>1, <1>3, <2>2
    <3>. QED  BY <1>4, <3>1
  <2>. QED  BY <1>2, <2>1, <2>2
<1>7. ASSUME NEW i \in At(all, {"fight"}), NEW k \in At(all, {"fight"}), all[i].fid = all[k].fid PROVE i = k
  <2>. DEFINE K == {"fight"}
  <2>1. \A j \in At(old, K) : all[j] = old[j] /\ all[j].fid \in FidsIn(old)
    BY <1>1, <1>3 DEF FidsIn
  <2>2. \A j \in At(new, K) : all[n + j] = new[j] /\ all[n + j].fid \notin FidsIn(old)
    BY <1>1, <1>3
  <2>3. CASE i \in At(old, K) /\ k \in At(old, K)
    BY <1>7, <2>1, <2>3 DEF OfOneGame
  <2>4. ASSUME NEW j \in At(new, K), NEW l \in At(new, K), i = n + j, k = n + l PROVE i = k
    BY <1>7, <2>2, <2>4
  <2>5. (i \in At(old, K) \/ \E j \in At(new, K) : i = n + j) /\ (k \in At(old, K) \/ \E j \in At(new, K) : k = n + j)
    BY <1>2
  <2>. HIDE DEF K
  <2>. QED  BY <1>7, <2>1, <2>2, <2>3, <2>4, <2>5
<1>8. all[1] \in HeaderRows /\ all[1].game <= game
  BY <1>4 DEF OfOneGame
<1>. QED  BY <1>4, <1>5, <1>6, <1>7, <1>8 DEF OfOneGame, all

-----------------------------------------------------------------------------
(* The clusters that are observed                                          *)

\* What the fights are after any of the clusters was observed.
Folded(gone, written) ==
    {s \in [fights : Seq(Fights), next : Nat] :
        LossesIn(s.fights, gone) /\ Numbered(s.fights, s.next, written)}

\* A fight that a cluster joins is the same fight still.
LEMMA JoinKeeps ==
    ASSUME NEW gone, NEW written, NEW s \in Folded(gone, written), NEW j \in DOMAIN s.fights,
           NEW now \in Nat, NEW p \in 1..NPlaces,
           NEW own \in SUBSET Own, NEW foes \in SUBSET Foes, own \cap gone = {}, foes \cap gone = {},
           NEW t, t = [s EXCEPT !.fights[j] = Joined(@, now, p, own, foes)]
    PROVE  t \in Folded(gone, written)
<1>. DEFINE list == s.fights
            f == list[j]
            g == Joined(f, now, p, own, foes)
            new == [list EXCEPT ![j] = g]
<1>1. /\ s \in [fights : Seq(Fights), next : Nat] /\ LossesIn(list, gone) /\ Numbered(list, s.next, written)
      /\ list \in Seq(Fights) /\ j \in DOMAIN list
  BY DEF Folded
<1>2. t = [s EXCEPT !.fights = new]
  OBVIOUS
<1>3. \A i \in DOMAIN list : list[i] \in Fights
  BY <1>1, LenProperties
<1>4. /\ g \in Fights /\ g.fid = f.fid /\ g.ownLost = f.ownLost /\ g.foesLost = f.foesLost
      /\ g.own = f.own \cup own /\ g.foes = f.foes \cup foes
  <2>1. f \in Fights
    BY <1>1, <1>3
  <2>. HIDE DEF f
  <2>. QED  BY <2>1 DEF Fights, Joined
<1>5. g.own \cap gone = f.own \cap gone /\ g.foes \cap gone = f.foes \cap gone
  BY <1>4
<1>. HIDE DEF g
<1>6. new \in Seq(Fights)
  BY <1>1, <1>4, ExceptSeq
<1>7. DOMAIN new = DOMAIN list /\ \A i \in DOMAIN list : new[i] = IF i = j THEN g ELSE list[i]
  OBVIOUS
<1>8. \A i \in DOMAIN list : new[i].fid = list[i].fid
  BY <1>4, <1>7
<1>. HIDE DEF new, list, f
<1>9. LossesIn(new, gone)
  <2>1. \A i \in DOMAIN list : /\ list[i].ownLost = Cardinality(list[i].own \cap gone)
                               /\ list[i].foesLost = Cardinality(list[i].foes \cap gone)
    BY <1>1 DEF LossesIn
  <2>2. ASSUME NEW i \in DOMAIN list
        PROVE  /\ new[i].ownLost = Cardinality(new[i].own \cap gone)
               /\ new[i].foesLost = Cardinality(new[i].foes \cap gone)
    <3>1. CASE i = j
      <4>1. new[i] = g /\ f = list[i]
        BY <1>7, <3>1 DEF f
      <4>. QED  BY <1>4, <1>5, <2>1, <4>1
    <3>2. CASE i # j
      BY <1>7, <2>1, <3>2
    <3>. QED  BY <3>1, <3>2
  <2>. QED  BY <1>7, <2>2 DEF LossesIn
<1>10. Numbered(new, s.next, written)
  BY <1>1, <1>7, <1>8 DEF Numbered
<1>11. t.fights = new /\ t.next = s.next /\ t \in [fights : Seq(Fights), next : Nat]
  BY <1>1, <1>2, <1>6
<1>. QED  BY <1>9, <1>10, <1>11 DEF Folded

\* A fight that begins has the next number, and no losses.
LEMMA BeginKeeps ==
    ASSUME NEW gone, NEW written, NEW s \in Folded(gone, written), NEW f \in Fights,
           f.fid = s.next, f.ownLost = 0, f.foesLost = 0, f.own \cap gone = {}, f.foes \cap gone = {}
    PROVE  [fights |-> Append(s.fights, f), next |-> s.next + 1] \in Folded(gone, written)
<1>. DEFINE list == s.fights
            n == Len(list)
            m == s.next
            new == Append(list, f)
            t == [fights |-> new, next |-> m + 1]
<1>1. /\ LossesIn(list, gone) /\ Numbered(list, m, written)
      /\ list \in Seq(Fights) /\ m \in Nat /\ f.fid = m
  BY DEF Folded
<1>. HIDE DEF list, m
<1>2. /\ n \in Nat /\ DOMAIN list = 1..n /\ new \in Seq(Fights) /\ Len(new) = n + 1
      /\ \A i \in 1..n : new[i] = list[i]
      /\ new[n + 1] = f
  BY <1>1, LenProperties, AppendProperties
<1>3. DOMAIN new = 1..n+1
  BY <1>2, LenProperties
<1>. HIDE DEF new, n
<1>4. \A i \in 1..n+1 : i \in 1..n \/ i = n + 1
  BY <1>2
<1>5. LossesIn(new, gone)
  <2>1. Cardinality({}) = 0
    BY FS_EmptySet
  <2>2. ASSUME NEW i \in 1..n+1
        PROVE  /\ new[i].ownLost = Cardinality(new[i].own \cap gone)
               /\ new[i].foesLost = Cardinality(new[i].foes \cap gone)
    <3>1. CASE i \in 1..n
      BY <1>1, <1>2, <3>1 DEF LossesIn
    <3>2. CASE i = n + 1
      <4>1. new[i] = f
        BY <1>2, <3>2
      <4>. QED  BY <2>1, <4>1
    <3>. QED  BY <1>4, <3>1, <3>2
  <2>. QED  BY <1>3, <2>2 DEF LossesIn
<1>6. Numbered(new, m + 1, written)
  <2>1. \A i \in 1..n : new[i].fid = list[i].fid /\ list[i].fid \in 0..m-1 /\ list[i].fid \notin written
    BY <1>1, <1>2 DEF Numbered
  <2>2. new[n + 1].fid = m /\ m \notin 0..m-1 /\ m \notin written
    BY <1>1, <1>2 DEF Numbered
  <2>3. \A k \in 0..m : k \in 0..m-1 \/ k = m
    BY <1>1
  <2>4. \A k \in 0..m-1 : k \in 0..m
    BY <1>1
  <2>5. m + 1 - 1 = m /\ m \in 0..m
    BY <1>1
  <2>6. \A i, k \in 1..n : list[i].fid = list[k].fid => i = k
    BY <1>1, <1>2 DEF Numbered
  <2>7. ASSUME NEW i \in 1..n+1, NEW k \in 1..n+1, new[i].fid = new[k].fid PROVE i = k
    BY <1>4, <2>1, <2>2, <2>6, <2>7
  <2>8. ASSUME NEW i \in 1..n+1 PROVE new[i].fid \in 0..m /\ new[i].fid \notin written
    BY <1>4, <2>1, <2>2, <2>4, <2>5
  <2>9. ASSUME NEW k \in 0..m PROVE k \in written \/ \E i \in 1..n+1 : new[i].fid = k
    <3>1. CASE k = m
      <4>1. n + 1 \in 1..n+1
        BY <1>2
      <4>. QED  BY <2>2, <3>1, <4>1
    <3>2. CASE k \in 0..m-1
      <4>1. k \in written \/ \E i \in 1..n : list[i].fid = k
        BY <1>1, <1>2, <3>2 DEF Numbered
      <4>2. \A i \in 1..n : i \in 1..n+1
        BY <1>2
      <4>. QED  BY <2>1, <4>1, <4>2
    <3>. QED  BY <2>3, <3>1, <3>2
  <2>10. written \subseteq 0..m
    BY <1>1, <2>4 DEF Numbered
  <2>. QED  BY <1>3, <2>5, <2>7, <2>8, <2>9, <2>10 DEF Numbered
<1>7. t.fights = new /\ t.next = m + 1 /\ t \in [fights : Seq(Fights), next : Nat]
  BY <1>1, <1>2
<1>. QED  BY <1>5, <1>6, <1>7 DEF Folded, new, m, list

\* So a cluster that is observed leaves the fights what they are.
LEMMA ObserveKeeps ==
    ASSUME NEW gone, NEW written, NEW s \in Folded(gone, written),
           NEW now \in Nat, NEW p \in 1..NPlaces,
           NEW own \in SUBSET Own, NEW foes \in SUBSET Foes, own \cap gone = {}, foes \cap gone = {}
    PROVE  Observe(s, now, p, own, foes) \in Folded(gone, written)
<1>. DEFINE near == {i \in DOMAIN s.fights : Near(s.fights[i].center, p)}
<1>1. s.fights \in Seq(Fights) /\ s.next \in Nat
  BY DEF Folded
<1>2. CASE near # {}
  <2>. DEFINE j == Min(near)
              t == [s EXCEPT !.fights[j] = Joined(@, now, p, own, foes)]
  <2>1. j \in near
    <3>1. near \subseteq DOMAIN s.fights
      OBVIOUS
    <3>. HIDE DEF near
    <3>2. IsFiniteSet(near) /\ near \subseteq Nat
      BY <1>1, <3>1, PlacesFinite
    <3>3. near \in SUBSET Int
      BY <3>2
    <3>. QED  BY <1>2, <3>2, <3>3, MinIsLeast
  <2>2. j \in DOMAIN s.fights
    BY <2>1
  <2>. HIDE DEF j
  <2>3. t \in Folded(gone, written)
    <3>. HIDE DEF t
    <3>1. t = [s EXCEPT !.fights[j] = Joined(@, now, p, own, foes)]
      BY DEF t
    <3>. QED  BY <2>2, <3>1, JoinKeeps
  <2>4. Observe(s, now, p, own, foes) = t
    BY <1>2 DEF Observe, j
  <2>. QED  BY <2>3, <2>4
<1>3. CASE near = {}
  <2>. DEFINE f == Begun(s.next, now, p, own, foes)
  <2>1. f \in Fights /\ f.fid = s.next /\ f.ownLost = 0 /\ f.foesLost = 0 /\ f.own = own /\ f.foes = foes
    BY <1>1 DEF Fights, Begun
  <2>2. Observe(s, now, p, own, foes) = [fights |-> Append(s.fights, f), next |-> s.next + 1]
    BY <1>3 DEF Observe
  <2>. HIDE DEF f
  <2>. QED  BY <2>1, <2>2, BeginKeeps
<1>. QED  BY <1>2, <1>3

\* What becomes of the fights at a place, and at each place after the other.
After(s, at, now, p) ==
    IF There(at, p, Own) = {} \/ There(at, p, Foes) = {} THEN s
    ELSE Observe(s, now, p, There(at, p, Own), There(at, p, Foes))
IsSeen(g, n, s, at, now) ==
    g = [p \in 0..n |-> IF p = 0 THEN s ELSE After(g[p - 1], at, now, p)]

\* What Seen is, unfolded.
LEMMA SeenDef ==
    \A struck, at, now :
        Seen(struck, at, now) =
            (CHOOSE g : IsSeen(g, NPlaces, [fights |-> struck, next |-> nextFid], at, now))[NPlaces]
  BY DEF Seen, IsSeen, After

\* There is a function that says it, whatever the number of places.
LEMMA SeenExists ==
    ASSUME NEW N \in Nat, NEW s, NEW at, NEW now
    PROVE  \E g : IsSeen(g, N, s, at, now)
<1>. DEFINE G == {n \in 0..N : \E g : IsSeen(g, n, s, at, now)}
            Val(g, p) == IF p = 0 THEN s ELSE After(g[p - 1], at, now, p)
<1>1. 0 \in G
  <2>. DEFINE g == [p \in 0..0 |-> s]
  <2>1. \A p \in 0..0 : p = 0
    OBVIOUS
  <2>2. g = [p \in 0..0 |-> Val(g, p)]
    BY <2>1
  <2>3. IsSeen(g, 0, s, at, now)
    BY <2>2 DEF IsSeen
  <2>. QED  BY <2>3
<1>2. ASSUME NEW n \in 1..N, n - 1 \in G PROVE n \in G
  <2>1. PICK g : IsSeen(g, n - 1, s, at, now)
    BY <1>2
  <2>. DEFINE h == [p \in 0..n |-> IF p = n THEN After(g[n - 1], at, now, n) ELSE g[p]]
  <2>2. n \in Nat /\ n # 0 /\ n - 1 \in 0..n-1 /\ n - 1 \in 0..n /\ n - 1 # n
    OBVIOUS
  <2>3. ASSUME NEW p \in 0..n PROVE h[p] = Val(h, p)
    <3>1. CASE p = n
      <4>1. h[p] = After(g[n - 1], at, now, n) /\ h[n - 1] = g[n - 1]
        BY <2>2, <3>1
      <4>. HIDE DEF h
      <4>. QED  BY <2>2, <3>1, <4>1
    <3>2. CASE p # n
      <4>1. p \in 0..n-1 /\ (p # 0 => p - 1 \in 0..n /\ p - 1 # n)
        BY <2>2, <3>2
      <4>2. h[p] = g[p] /\ (p # 0 => h[p - 1] = g[p - 1])
        BY <3>2, <4>1
      <4>3. g[p] = Val(g, p)
        BY <2>1, <4>1 DEF IsSeen
      <4>. HIDE DEF h
      <4>. QED  BY <4>2, <4>3
    <3>. HIDE DEF h, Val
    <3>. QED  BY <3>1, <3>2
  <2>4. h = [p \in 0..n |-> Val(h, p)]
    <3>1. h = [p \in 0..n |-> h[p]]
      OBVIOUS
    <3>. HIDE DEF h, Val
    <3>2. [p \in 0..n |-> h[p]] = [p \in 0..n |-> Val(h, p)]
      BY <2>3
    <3>. QED  BY <3>1, <3>2
  <2>5. IsSeen(h, n, s, at, now)
    <3>. HIDE DEF h
    <3>. QED  BY <2>4 DEF IsSeen
  <2>6. n \in 0..N
    OBVIOUS
  <2>. HIDE DEF h
  <2>. QED  BY <2>5, <2>6
<1>3. N \in G
  <2>. HIDE DEF G
  <2>1. \A p \in 0..N : p \in G
    BY <1>1, <1>2, CountsUp
  <2>. QED  BY <2>1
<1>. QED  BY <1>3

\* So the clusters of a decision leave the fights what they are.
LEMMA SeenKeeps ==
    ASSUME LogAssumption, NEW gone, NEW written, NEW struck, NEW now \in Nat,
           [fights |-> struck, next |-> nextFid] \in Folded(gone, written),
           NEW at, DOMAIN at \cap gone = {}
    PROVE  Seen(struck, at, now) \in Folded(gone, written)
<1>. DEFINE s == [fights |-> struck, next |-> nextFid]
            g == CHOOSE g : IsSeen(g, NPlaces, s, at, now)
            G == {p \in 0..NPlaces : g[p] \in Folded(gone, written)}
<1>0. NPlaces \in Nat
  BY DEF LogAssumption
<1>1. IsSeen(g, NPlaces, s, at, now)
  <2>. HIDE DEF s
  <2>. QED  BY <1>0, SeenExists
<1>2. Seen(struck, at, now) = g[NPlaces]
  BY SeenDef
<1>. HIDE DEF g
<1>3. s \in Folded(gone, written)
  OBVIOUS
<1>. HIDE DEF s
<1>4. \A p \in 0..NPlaces : g[p] = IF p = 0 THEN s ELSE After(g[p - 1], at, now, p)
  BY <1>1 DEF IsSeen
<1>5. 0 \in G
  BY <1>0, <1>3, <1>4
<1>6. ASSUME NEW p \in 1..NPlaces, p - 1 \in G PROVE p \in G
  <2>1. p \in 0..NPlaces /\ p # 0 /\ g[p] = After(g[p - 1], at, now, p) /\ g[p - 1] \in Folded(gone, written)
    BY <1>0, <1>4, <1>6
  <2>2. There(at, p, Own) \in SUBSET Own /\ There(at, p, Own) \cap gone = {}
    BY DEF There
  <2>3. There(at, p, Foes) \in SUBSET Foes /\ There(at, p, Foes) \cap gone = {}
    BY DEF There
  <2>4. After(g[p - 1], at, now, p) \in Folded(gone, written)
    BY <2>1, <2>2, <2>3, ObserveKeeps DEF After
  <2>. QED  BY <2>1, <2>4
<1>7. \A p \in 0..NPlaces : p \in G
  <2>. HIDE DEF G
  <2>. QED  BY <1>0, <1>5, <1>6, CountsUp
<1>. QED  BY <1>0, <1>2, <1>7

\* A death counts in every fight the unit was seen in.
LEMMA StruckKeeps ==
    ASSUME LogAssumption, NEW list \in Seq(Fights), NEW gone \in SUBSET (Own \cup Foes),
           NEW died \in SUBSET (Own \cup Foes), died \cap gone = {}, LossesIn(list, gone)
    PROVE  LET struck == Struck(list, died)
           IN  /\ struck \in Seq(Fights) /\ DOMAIN struck = DOMAIN list
               /\ LossesIn(struck, gone \cup died)
               /\ \A i \in DOMAIN list : struck[i].fid = list[i].fid
<1>. DEFINE struck == Struck(list, died)
<1>1. IsFiniteSet(Own) /\ IsFiniteSet(Foes)
  BY DEF LogAssumption
<1>2. DOMAIN list = 1..Len(list) /\ Len(list) \in Nat /\ \A i \in DOMAIN list : list[i] \in Fights
  BY LenProperties
<1>3. ASSUME NEW A, IsFiniteSet(A)
      PROVE  /\ Cardinality(A \cap died) \in Nat
             /\ Cardinality(A \cap (gone \cup died)) = Cardinality(A \cap gone) + Cardinality(A \cap died)
  <2>. DEFINE B == A \cap gone
              C == A \cap died
  <2>1. IsFiniteSet(B) /\ IsFiniteSet(C)
    <3>1. B \subseteq A /\ C \subseteq A
      OBVIOUS
    <3>. HIDE DEF B, C
    <3>. QED  BY <1>3, <3>1, FS_Subset
  <2>2. B \cap C = {} /\ A \cap (gone \cup died) = B \cup C
    OBVIOUS
  <2>. HIDE DEF B, C
  <2>3. Cardinality(B \cup C) = Cardinality(B) + Cardinality(C) - Cardinality(B \cap C)
    BY <2>1, FS_Union
  <2>4. Cardinality(B \cap C) = 0 /\ Cardinality(B) \in Nat /\ Cardinality(C) \in Nat
    BY <2>1, <2>2, FS_EmptySet, FS_CardinalityType
  <2>5. Cardinality(B \cup C) = Cardinality(B) + Cardinality(C)
    BY <2>3, <2>4
  <2>. QED  BY <2>2, <2>4, <2>5 DEF B, C
<1>4. ASSUME NEW i \in DOMAIN list
      PROVE  /\ struck[i] \in Fights /\ struck[i].fid = list[i].fid
             /\ struck[i].ownLost = Cardinality(struck[i].own \cap (gone \cup died))
             /\ struck[i].foesLost = Cardinality(struck[i].foes \cap (gone \cup died))
  <2>. DEFINE f == list[i]
              g == Destroyed(f, died)
  <2>1. f \in Fights /\ f.own \in SUBSET Own /\ f.foes \in SUBSET Foes /\ f.ownLost \in Nat /\ f.foesLost \in Nat
    BY <1>2 DEF Fights
  <2>2. f.ownLost = Cardinality(f.own \cap gone) /\ f.foesLost = Cardinality(f.foes \cap gone)
    BY DEF LossesIn
  <2>3. struck[i] = g
    BY DEF Struck
  <2>. HIDE DEF f
  <2>4. IsFiniteSet(f.own) /\ IsFiniteSet(f.foes)
    BY <1>1, <2>1, FS_Subset
  <2>5. /\ Cardinality(f.own \cap died) \in Nat /\ Cardinality(f.foes \cap died) \in Nat
        /\ Cardinality(f.own \cap (gone \cup died)) = f.ownLost + Cardinality(f.own \cap died)
        /\ Cardinality(f.foes \cap (gone \cup died)) = f.foesLost + Cardinality(f.foes \cap died)
    BY <1>3, <2>2, <2>4
  <2>6. /\ g.ownLost = f.ownLost + Cardinality(f.own \cap died) /\ g.own = f.own
        /\ g.foesLost = f.foesLost + Cardinality(f.foes \cap died) /\ g.foes = f.foes
        /\ g.fid = f.fid
    BY <2>1 DEF Destroyed, Fights
  <2>7. g \in Fights
    <3>. DEFINE m == f.ownLost + Cardinality(f.own \cap died)
                n == f.foesLost + Cardinality(f.foes \cap died)
    <3>1. m \in Nat /\ n \in Nat
      BY <2>1, <2>5
    <3>2. g = [f EXCEPT !.ownLost = m, !.foesLost = n]
      BY DEF Destroyed
    <3>. HIDE DEF m, n, g
    <3>. QED  BY <2>1, <3>1, <3>2 DEF Fights
  <2>. HIDE DEF g
  <2>8. struck[i].fid = f.fid /\ struck[i] \in Fights
    BY <2>3, <2>6, <2>7
  <2>9. /\ struck[i].ownLost = Cardinality(struck[i].own \cap (gone \cup died))
        /\ struck[i].foesLost = Cardinality(struck[i].foes \cap (gone \cup died))
    BY <2>3, <2>5, <2>6
  <2>. QED  BY <2>8, <2>9 DEF f
<1>5. DOMAIN struck = DOMAIN list
  BY DEF Struck
<1>6. struck \in [1..Len(list) -> Fights]
  <2>1. struck = [i \in 1..Len(list) |-> struck[i]]
    BY <1>2, <1>5 DEF Struck
  <2>. HIDE DEF struck
  <2>. QED  BY <1>2, <1>4, <2>1
<1>. HIDE DEF struck
<1>7. struck \in Seq(Fights)
  BY <1>2, <1>6, SeqDef
<1>8. LossesIn(struck, gone \cup died)
  BY <1>4, <1>5 DEF LossesIn
<1>. QED  BY <1>4, <1>5, <1>7, <1>8 DEF struck

\* The fights that are over and those that are not are all there are.
LEMMA SplitFights ==
    ASSUME NEW list \in Seq(Fights), NEW gone, NEW n, NEW written,
           LossesIn(list, gone), Numbered(list, n, written), NEW ix \in SUBSET DOMAIN list
    PROVE  LET over == Picked(list, ix)
               rest == Picked(list, DOMAIN list \ ix)
           IN  /\ over \in Seq(Fights) /\ rest \in Seq(Fights)
               /\ LossesIn(over, gone) /\ LossesIn(rest, gone)
               /\ \A i, k \in DOMAIN over : over[i].fid = over[k].fid => i = k
               /\ \A i \in DOMAIN over : over[i].fid \notin written
               /\ Numbered(rest, n, written \cup FidsOf(over))
<1>. DEFINE jx == DOMAIN list \ ix
            over == Picked(list, ix)
            rest == Picked(list, jx)
            o(i) == Place(ix, i)
            r(i) == Place(jx, i)
            O == FidsOf(over)
<1>1. jx \in SUBSET DOMAIN list /\ ix \cup jx = DOMAIN list /\ ix \cap jx = {}
  OBVIOUS
<1>2. /\ over \in Seq(Fights)
      /\ \A i \in DOMAIN over : o(i) \in ix /\ over[i] = list[o(i)]
      /\ \A i, k \in DOMAIN over : o(i) = o(k) => i = k
      /\ \A k \in ix : \E i \in DOMAIN over : o(i) = k
  BY PickedList
<1>. HIDE DEF jx
<1>3. /\ rest \in Seq(Fights)
      /\ \A i \in DOMAIN rest : r(i) \in jx /\ rest[i] = list[r(i)]
      /\ \A i, k \in DOMAIN rest : r(i) = r(k) => i = k
      /\ \A k \in jx : \E i \in DOMAIN rest : r(i) = k
  BY <1>1, PickedList
<1>. HIDE DEF over, rest, o, r
<1>4. /\ \A i, k \in DOMAIN list : list[i].fid = list[k].fid => i = k
      /\ \A i \in DOMAIN list : list[i].fid \in 0..n-1 /\ list[i].fid \notin written
      /\ \A m \in 0..n-1 : m \in written \/ \E i \in DOMAIN list : list[i].fid = m
      /\ written \subseteq 0..n-1
  BY DEF Numbered
<1>5. LossesIn(over, gone) /\ LossesIn(rest, gone)
  <2>1. \A i \in DOMAIN list : /\ list[i].ownLost = Cardinality(list[i].own \cap gone)
                               /\ list[i].foesLost = Cardinality(list[i].foes \cap gone)
    BY DEF LossesIn
  <2>2. ASSUME NEW i \in DOMAIN over
        PROVE  /\ over[i].ownLost = Cardinality(over[i].own \cap gone)
               /\ over[i].foesLost = Cardinality(over[i].foes \cap gone)
    <3>1. o(i) \in DOMAIN list /\ over[i] = list[o(i)]
      BY <1>1, <1>2
    <3>. QED  BY <2>1, <3>1
  <2>3. ASSUME NEW i \in DOMAIN rest
        PROVE  /\ rest[i].ownLost = Cardinality(rest[i].own \cap gone)
               /\ rest[i].foesLost = Cardinality(rest[i].foes \cap gone)
    <3>1. r(i) \in DOMAIN list /\ rest[i] = list[r(i)]
      BY <1>1, <1>3
    <3>. QED  BY <2>1, <3>1
  <2>. QED  BY <2>2, <2>3 DEF LossesIn
<1>6. \A i \in DOMAIN over : o(i) \in DOMAIN list /\ over[i].fid = list[o(i)].fid
  BY <1>1, <1>2
<1>7. \A i \in DOMAIN rest : r(i) \in DOMAIN list /\ rest[i].fid = list[r(i)].fid
  BY <1>1, <1>3
<1>8. \A i, k \in DOMAIN over : over[i].fid = over[k].fid => i = k
  BY <1>2, <1>4, <1>6
<1>9. \A i \in DOMAIN over : over[i].fid \notin written /\ over[i].fid \in 0..n-1
  BY <1>4, <1>6
<1>10. Numbered(rest, n, written \cup O)
  <2>1. ASSUME NEW i \in DOMAIN rest, NEW k \in DOMAIN rest, rest[i].fid = rest[k].fid PROVE i = k
    BY <1>3, <1>4, <1>7, <2>1
  <2>0. O = {over[i].fid : i \in DOMAIN over}
    BY DEF FidsOf
  <2>. HIDE DEF O
  <2>2. ASSUME NEW i \in DOMAIN rest PROVE rest[i].fid \in 0..n-1 /\ rest[i].fid \notin written /\ rest[i].fid \notin O
    <3>1. rest[i].fid \in 0..n-1 /\ rest[i].fid \notin written
      BY <1>4, <1>7
    <3>2. ASSUME NEW k \in DOMAIN over, rest[i].fid = over[k].fid PROVE FALSE
      <4>1. r(i) = o(k)
        BY <1>4, <1>6, <1>7, <3>2
      <4>. QED  BY <1>1, <1>2, <1>3, <4>1
    <3>. QED  BY <2>0, <3>1, <3>2
  <2>3. ASSUME NEW m \in 0..n-1 PROVE m \in written \/ m \in O \/ \E i \in DOMAIN rest : rest[i].fid = m
    <3>1. CASE m \in written
      BY <3>1
    <3>2. ASSUME NEW j \in DOMAIN list, list[j].fid = m PROVE m \in O \/ \E i \in DOMAIN rest : rest[i].fid = m
      <4>1. CASE j \in ix
        <5>1. PICK i \in DOMAIN over : o(i) = j
          BY <1>2, <4>1
        <5>2. over[i].fid = m
          BY <1>6, <3>2, <5>1
        <5>. QED  BY <2>0, <5>2
      <4>2. CASE j \in jx
        <5>1. PICK i \in DOMAIN rest : r(i) = j
          BY <1>3, <4>2
        <5>2. rest[i].fid = m
          BY <1>7, <3>2, <5>1
        <5>. QED  BY <5>2
      <4>. QED  BY <1>1, <4>1, <4>2
    <3>. QED  BY <1>4, <3>1, <3>2
  <2>4. written \cup O \subseteq 0..n-1
    <3>. DEFINE I == 0..n-1
    <3>1. (\A x \in O : x \in I) /\ written \subseteq I
      <4>. HIDE DEF I
      <4>1. \A i \in DOMAIN over : over[i].fid \in I
        BY <1>9 DEF I
      <4>2. written \subseteq I
        BY <1>4 DEF I
      <4>. QED  BY <2>0, <4>1, <4>2
    <3>. QED  BY <3>1
  <2>. QED  BY <2>1, <2>2, <2>3, <2>4 DEF Numbered
<1>. QED  BY <1>2, <1>3, <1>5, <1>8, <1>9, <1>10 DEF over, rest, jx

\* What is written of fights.
LEMMA RowsOfFights ==
    ASSUME NEW over \in Seq(Fights), frame' \in Nat, game \in GameIds
    PROVE  LET new == FightList(over) IN
           /\ new \in Seq(Rows) /\ Len(new) = Len(over)
           /\ DOMAIN new = DOMAIN over
           /\ \A i \in DOMAIN over :
                /\ new[i].t = "fight" /\ new[i].game = game /\ new[i].fid = over[i].fid
                /\ new[i].own = over[i].own /\ new[i].ownLost = over[i].ownLost
                /\ new[i].foes = over[i].foes /\ new[i].foesLost = over[i].foesLost
           /\ At(new, Recorded) = DOMAIN new /\ At(new, {"fight"}) = DOMAIN new
           /\ At(new, {"header"}) = {} /\ At(new, {"end"}) = {}
           /\ FidsIn(new) = FidsOf(over)
<1>. DEFINE new == FightList(over)
<1>1. DOMAIN over = 1..Len(over) /\ Len(over) \in Nat /\ \A i \in DOMAIN over : over[i] \in Fights
  BY LenProperties
<1>2. DOMAIN new = DOMAIN over /\ \A i \in DOMAIN over : new[i] = FightRow(over[i])
  BY DEF FightList
<1>. HIDE DEF new
<1>3. ASSUME NEW i \in DOMAIN over
      PROVE  /\ new[i] \in FightRows
             /\ new[i].t = "fight" /\ new[i].game = game /\ new[i].fid = over[i].fid
             /\ new[i].own = over[i].own /\ new[i].ownLost = over[i].ownLost
             /\ new[i].foes = over[i].foes /\ new[i].foesLost = over[i].foesLost
  <2>1. over[i] \in Fights /\ new[i] = FightRow(over[i])
    BY <1>1, <1>2
  <2>. DEFINE f == over[i]
  <2>. HIDE DEF f
  <2>2. f \in Fights /\ new[i] = FightRow(f)
    BY <2>1 DEF f
  <2>3. FightRow(f) \in FightRows
    BY <2>2 DEF FightRow, FightRows, Fights
  <2>4. /\ FightRow(f).t = "fight" /\ FightRow(f).game = game /\ FightRow(f).fid = f.fid
        /\ FightRow(f).own = f.own /\ FightRow(f).ownLost = f.ownLost
        /\ FightRow(f).foes = f.foes /\ FightRow(f).foesLost = f.foesLost
    BY DEF FightRow
  <2>. QED  BY <2>2, <2>3, <2>4 DEF f
<1>4. new \in Seq(Rows) /\ Len(new) = Len(over)
  <2>1. \A i \in 1..Len(over) : new[i] \in Rows
    BY <1>1, <1>3 DEF Rows
  <2>2. new = [i \in 1..Len(over) |-> new[i]]
    BY <1>1 DEF FightList, new
  <2>3. new \in [1..Len(over) -> Rows]
    BY <2>1, <2>2
  <2>. QED  BY <1>1, <2>3, SeqDef, LenProperties
<1>5. \A K : "fight" \in K => At(new, K) = DOMAIN new
  BY <1>2, <1>3 DEF At
<1>6. \A K : "fight" \notin K => At(new, K) = {}
  BY <1>2, <1>3 DEF At
<1>7. FidsIn(new) = FidsOf(over)
  <2>1. At(new, {"fight"}) = DOMAIN over
    BY <1>2, <1>5
  <2>. QED  BY <1>3, <2>1 DEF FidsIn, FidsOf
<1>8. "fight" \in Recorded /\ "fight" \in {"fight"} /\ "fight" \notin {"header"} /\ "fight" \notin {"end"}
  BY DEF Recorded
<1>. QED  BY <1>2, <1>3, <1>4, <1>5, <1>6, <1>7, <1>8 DEF new

-----------------------------------------------------------------------------
(* The steps                                                               *)

\* A file is what it was, as long as the game's result stands.
LEMMA FileStays ==
    ASSUME NEW list \in Seq(Rows), NEW g \in Nat, NEW h \in Nat, g <= h, NEW res, NEW new,
           OfOneGame(list, g), Complete(list, res),
           list # <<>> => new[list[1].game] = res[list[1].game]
    PROVE  OfOneGame(list, h) /\ Complete(list, new)
<1>1. CASE list = <<>>
  <2>1. At(list, {"end"}) = {}
    BY <1>1 DEF At
  <2>. QED  BY <1>1, <2>1 DEF OfOneGame, Complete
<1>2. CASE list # <<>>
  <2>1. list[1] \in HeaderRows /\ list[1].game <= g
    BY <1>2 DEF OfOneGame
  <2>2. list[1].game <= h
    BY <2>1 DEF HeaderRows, GameIds
  <2>3. OfOneGame(list, h)
    BY <1>2, <2>1, <2>2 DEF OfOneGame
  <2>4. Complete(list, new)
    BY <1>2 DEF Complete
  <2>. QED  BY <2>3, <2>4
<1>. QED  BY <1>1, <1>2

\* Which game's header a file that is not empty begins with.
LEMMA Headers ==
    ASSUME LogInv, NEW p \in Paths, disk[p] # <<>>
    PROVE  /\ disk[p] \in Seq(Rows) /\ 1 \in DOMAIN disk[p]
           /\ disk[p][1] \in HeaderRows /\ disk[p][1].game \in 1..game /\ disk[p][1].game \in DOMAIN result
<1>1. disk[p] \in Seq(Rows) /\ OfOneGame(disk[p], game)
  BY DEF LogInv, LogTypes, LogFiles
<1>2. disk[p][1] \in HeaderRows /\ disk[p][1].game <= game
  BY <1>1 DEF OfOneGame
<1>3. result \in Seq(Results) /\ Len(result) = game /\ game \in Nat
  <2>1. MaxGames \in Nat \/ game \in Nat
    BY DEF LogInv, LogTypes
  <2>. QED  BY <2>1 DEF LogInv, LogTypes
<1>4. disk[p][1].game \in 1..game
  BY <1>2, <1>3 DEF HeaderRows, GameIds
<1>5. DOMAIN result = 1..game
  BY <1>3, LenProperties
<1>6. 1 \in DOMAIN disk[p]
  BY <1>1, LenProperties, EmptySeq
<1>. QED  BY <1>1, <1>2, <1>4, <1>5, <1>6

\* What is written goes to the end of the one file.
LEMMA RowsWritten ==
    ASSUME disk \in [Paths -> Seq(Rows)], file \in Paths, NEW new \in Seq(Rows), Writes(new)
    PROVE  /\ disk' \in [Paths -> Seq(Rows)] /\ disk'[file] = disk[file] \o new
           /\ \A p \in Paths \ {file} : disk'[p] = disk[p]
<1>1. disk[file] \o new \in Seq(Rows)
  <2>1. disk[file] \in Seq(Rows)
    OBVIOUS
  <2>. QED  BY <2>1, ConcatProperties
<1>2. disk' = [disk EXCEPT ![file] = disk[file] \o new]
  BY DEF Writes
<1>. DEFINE list == disk[file] \o new
<1>. HIDE DEF list
<1>. QED  BY <1>1, <1>2 DEF list

\* The new rows are those.
LEMMA RowsAreNew ==
    ASSUME NEW old \in Seq(Rows), NEW new \in Seq(Rows), NEW k \in DOMAIN (old \o new), k > Len(old)
    PROVE  \E i \in DOMAIN new : (old \o new)[k] = new[i]
<1>1. /\ Len(old) \in Nat /\ Len(new) \in Nat /\ DOMAIN new = 1..Len(new)
      /\ old \o new \in Seq(Rows) /\ Len(old \o new) = Len(old) + Len(new)
      /\ \A i \in 1..Len(old) + Len(new) : (old \o new)[i] = IF i <= Len(old) THEN old[i] ELSE new[i - Len(old)]
  BY LenProperties, ConcatProperties
<1>2. DOMAIN (old \o new) = 1..Len(old) + Len(new)
  BY <1>1, LenProperties
<1>3. k - Len(old) \in DOMAIN new /\ (old \o new)[k] = new[k - Len(old)]
  BY <1>1, <1>2
<1>. QED  BY <1>3

\* No process, no file and no fights at first.
LEMMA LogInvInit == ASSUME LogAssumption, LogInit PROVE LogInv
<1>1. MaxGames \in Nat
  BY LenProperties DEF LogAssumption, MaxGames
<1>2. DOMAIN fights = {} /\ DOMAIN result = {}
  BY DEF LogInit
<1>3. \A p \in Paths : disk[p] = <<>>
  BY DEF LogInit
<1>4. LogTypes
  <2>1. \A S : <<>> \in Seq(S) /\ Len(<<>>) = 0
    BY EmptySeq
  <2>2. disk \in [Paths -> Seq(Rows)]
    BY <2>1 DEF LogInit
  <2>. QED  BY <1>1, <2>1, <2>2 DEF LogInit, LogTypes
<1>5. LogFiles
  <2>1. \A K : At(<<>>, K) = {}
    BY DEF At
  <2>2. OfOneGame(<<>>, game) /\ Complete(<<>>, result)
    BY <2>1 DEF OfOneGame, Complete
  <2>. QED  BY <1>3, <2>2 DEF LogFiles
<1>6. LogOpen
  BY DEF LogInit, LogOpen
<1>7. LogLosses
  BY <1>2 DEF LogLosses, LossesIn
<1>. QED  BY <1>4, <1>5, <1>6, <1>7 DEF LogInv

\* What a step that leaves the files, the fights and the game alone needs.
LEMMA LogStays ==
    ASSUME LogInv, UNCHANGED <<game, frame, disk, dead, result>>,
           phase' \in {"down", "idle", "playing"}, phase' # "playing",
           file' \in Paths \cup {Nothing}, rows' \in Nat, nextFid' \in Nat,
           fights' = fights \/ fights' = <<>>
    PROVE  LogInv'
<1>1. LogTypes'
  <2>1. fights' \in Seq(Fights)
    <3>1. <<>> \in Seq(Fights) /\ fights \in Seq(Fights)
      BY EmptySeq DEF LogInv, LogTypes
    <3>. QED  BY <3>1
  <2>. QED  BY <2>1 DEF LogInv, LogTypes
<1>2. LogFiles'
  BY DEF LogInv, LogFiles
<1>3. LogOpen'
  BY DEF LogOpen
<1>4. LogLosses'
  <2>1. CASE fights' = <<>>
    <3>1. DOMAIN fights' = {}
      BY <2>1
    <3>. QED  BY <3>1 DEF LogLosses, LossesIn
  <2>2. CASE fights' = fights
    BY <2>2 DEF LogInv, LogLosses, LossesIn
  <2>. QED  BY <2>1, <2>2
<1>. QED  BY <1>1, <1>2, <1>3, <1>4 DEF LogInv

\* What a decision or the end of the game leaves of the file, before the last row.
LEMMA FightsGoIn ==
    ASSUME LogInv, phase = "playing", frame' \in Nat,
           NEW over \in Seq(Fights),
           \A i, k \in DOMAIN over : over[i].fid = over[k].fid => i = k,
           \A i \in DOMAIN over : over[i].fid \notin FidsIn(disk[file]),
           NEW new, new = FightList(over),
           NEW all, all = disk[file] \o new
    PROVE  /\ all \in Seq(Rows) /\ new \in Seq(Rows) /\ disk[file] \in Seq(Rows)
           /\ OfOneGame(all, game) /\ all # <<>> /\ all[1] = disk[file][1]
           /\ At(all, {"end"}) = {} /\ At(new, {"end"}) = {} /\ At(new, {"header"}) = {}
           /\ Cardinality(At(all, Recorded)) = rows + Len(new)
           /\ FidsIn(all) = FidsIn(disk[file]) \cup FidsOf(over)
<1>. DEFINE old == disk[file]
<1>1. /\ file \in Paths /\ old # <<>> /\ old[1].game = game /\ At(old, {"end"}) = {}
      /\ Cardinality(At(old, Recorded)) = rows
  BY DEF LogInv, LogOpen
<1>2. old \in Seq(Rows) /\ OfOneGame(old, game)
  BY <1>1 DEF LogInv, LogTypes, LogFiles
<1>3. game \in GameIds
  <2>1. old[1] \in HeaderRows
    BY <1>1, <1>2 DEF OfOneGame
  <2>2. old[1].game \in GameIds
    BY <2>1 DEF HeaderRows
  <2>. QED  BY <1>1, <2>2
<1>4. /\ new \in Seq(Rows) /\ Len(new) = Len(over) /\ DOMAIN new = DOMAIN over
      /\ \A i \in DOMAIN over : new[i].game = game /\ new[i].fid = over[i].fid
      /\ At(new, Recorded) = DOMAIN new /\ At(new, {"fight"}) = DOMAIN new
      /\ At(new, {"header"}) = {} /\ At(new, {"end"}) = {}
      /\ FidsIn(new) = FidsOf(over)
  BY <1>3, RowsOfFights
<1>. HIDE DEF old
<1>5. \A i \in At(new, {"fight", "ctx", "end"}) : new[i].game = old[1].game
  <2>1. At(new, {"fight", "ctx", "end"}) \subseteq DOMAIN new
    BY DEF At
  <2>. QED  BY <1>1, <1>4, <2>1
<1>6. \A i, k \in At(new, {"fight"}) : new[i].fid = new[k].fid => i = k
  BY <1>4
<1>7. \A i \in At(new, {"fight"}) : new[i].fid \notin FidsIn(old)
  BY <1>4 DEF old
<1>8. OfOneGame(old \o new, game) /\ old \o new # <<>> /\ (old \o new)[1] = old[1]
  BY <1>1, <1>2, <1>4, <1>5, <1>6, <1>7, FileGrows
<1>9. At(old \o new, {"end"}) = {} /\ old \o new \in Seq(Rows)
  <2>1. At(old \o new, {"end"}) = At(old, {"end"})
    BY <1>2, <1>4, NothingAppended
  <2>. QED  BY <1>1, <1>2, <1>4, <2>1, AtAppended
<1>10. Cardinality(At(old \o new, Recorded)) = rows + Len(new)
  BY <1>1, <1>2, <1>4, CountAppended
<1>11. FidsIn(old \o new) = FidsIn(old) \cup FidsIn(new)
  BY <1>2, <1>4, FidsAppended
<1>. QED  BY <1>2, <1>4, <1>8, <1>9, <1>10, <1>11 DEF old

\* A game begins with a file of its own, whatever was in it.
LEMMA GameStartsKeeps == ASSUME LogAssumption, LogInv, GameStarts PROVE LogInv'
<1>. DEFINE row == [t |-> "header", game |-> game']
            new == <<row>>
<1>1. /\ phase' = "playing" /\ game' = game + 1 /\ frame' = 0 /\ fights' = <<>> /\ nextFid' = 0
      /\ rows' = 0 /\ dead' = {} /\ result' = Append(result, Nothing)
      /\ disk' = [disk EXCEPT ![file'] = new] /\ game < MaxGames
      /\ file' = IF pinned THEN PinnedFile ELSE game'
  BY DEF GameStarts, Opened, Header
<1>2. /\ MaxGames \in Nat /\ game \in Nat /\ game' \in 1..MaxGames /\ game' \in 0..MaxGames /\ game' \in Nat
      /\ file' \in Paths
  <2>1. MaxGames \in Nat
    BY LenProperties DEF LogAssumption, MaxGames
  <2>2. game \in 0..MaxGames
    BY DEF LogInv, LogTypes
  <2>3. game \in Nat /\ game' \in 1..MaxGames /\ game' \in 0..MaxGames /\ game' \in Nat
    BY <1>1, <2>1, <2>2
  <2>. QED  BY <1>1, <2>1, <2>3 DEF Paths, PinnedFile
<1>3. row \in HeaderRows /\ row.t = "header" /\ row.game = game'
  BY <1>2 DEF HeaderRows, GameIds
<1>. HIDE DEF row
<1>4. new \in Seq(Rows) /\ DOMAIN new = {1} /\ new[1] = row /\ new # <<>>
  BY <1>3 DEF Rows
<1>5. \A K : "header" \notin K => At(new, K) = {}
  BY <1>3, <1>4 DEF At
<1>. HIDE DEF new
<1>6. disk \in [Paths -> Seq(Rows)] /\ LogFiles /\ result \in Seq(Results) /\ Len(result) = game
  BY DEF LogInv, LogTypes
<1>7. disk' \in [Paths -> Seq(Rows)] /\ disk'[file'] = new /\ \A p \in Paths \ {file'} : disk'[p] = disk[p]
  BY <1>1, <1>2, <1>4, <1>6
<1>8. result' \in Seq(Results) /\ Len(result') = game' /\ \A i \in 1..game : result'[i] = result[i]
  BY <1>1, <1>6, AppendProperties DEF Results
<1>9. LogTypes'
  BY <1>1, <1>2, <1>7, <1>8, EmptySeq DEF LogTypes
<1>10. OfOneGame(new, game') /\ Complete(new, result')
  <2>1. At(new, {"fight", "ctx", "end"}) = {} /\ At(new, {"fight"}) = {} /\ At(new, {"end"}) = {}
    BY <1>5
  <2>2. \A i \in At(new, {"header"}) : i = 1
    BY <1>4 DEF At
  <2>. QED  BY <1>2, <1>3, <1>4, <2>1, <2>2 DEF OfOneGame, Complete
<1>11. LogFiles'
  <2>1. ASSUME NEW p \in Paths, p # file' PROVE OfOneGame(disk'[p], game') /\ Complete(disk'[p], result')
    <3>1. disk'[p] = disk[p] /\ disk[p] \in Seq(Rows)
      BY <1>6, <1>7, <2>1
    <3>2. OfOneGame(disk[p], game) /\ Complete(disk[p], result)
      BY <1>6 DEF LogFiles
    <3>3. disk[p] # <<>> => result'[disk[p][1].game] = result[disk[p][1].game]
      BY <1>8, Headers
    <3>4. game <= game'
      BY <1>1, <1>2
    <3>. QED  BY <1>2, <3>1, <3>2, <3>3, <3>4, FileStays
  <2>2. ASSUME NEW p \in Paths PROVE OfOneGame(disk'[p], game') /\ Complete(disk'[p], result')
    BY <1>7, <1>10, <2>1
  <2>. QED  BY <2>2 DEF LogFiles
<1>12. LogOpen'
  <2>1. At(new, {"end"}) = {} /\ At(new, Recorded) = {} /\ FidsIn(new) = {}
    <3>1. At(new, {"end"}) = {} /\ At(new, Recorded) = {} /\ At(new, {"fight"}) = {}
      BY <1>5 DEF Recorded
    <3>. QED  BY <3>1 DEF FidsIn
  <2>2. Cardinality(At(new, Recorded)) = 0
    BY <2>1, FS_EmptySet
  <2>3. ASSUME NEW p \in Paths \ {file'}, disk'[p] # <<>> PROVE disk'[p][1].game < game'
    <3>1. disk[p] # <<>> /\ disk'[p] = disk[p]
      BY <1>7, <2>3
    <3>2. disk[p][1].game \in 1..game
      BY <3>1, Headers
    <3>. QED  BY <1>1, <1>2, <3>1, <3>2
  <2>4. Numbered(<<>>, 0, {})
    <3>1. DOMAIN <<>> = {} /\ 0..0-1 = {}
      OBVIOUS
    <3>. QED  BY <3>1 DEF Numbered
  <2>. QED  BY <1>1, <1>2, <1>3, <1>4, <1>7, <2>1, <2>2, <2>3, <2>4 DEF LogOpen
<1>13. LogLosses'
  <2>1. DOMAIN fights' = {}
    BY <1>1
  <2>. QED  BY <2>1 DEF LogLosses, LossesIn
<1>. QED  BY <1>9, <1>11, <1>12, <1>13 DEF LogInv

\* What is written to the file of the game leaves the others what they were.
LEMMA OthersStay ==
    ASSUME LogInv, LogAssumption, phase = "playing", game' = game, NEW new \in Seq(Rows), Writes(new),
           \A g \in DOMAIN result \ {game} : result'[g] = result[g],
           OfOneGame(disk[file] \o new, game), Complete(disk[file] \o new, result')
    PROVE  /\ disk' \in [Paths -> Seq(Rows)] /\ disk'[file] = disk[file] \o new /\ file \in Paths
           /\ \A p \in Paths \ {file} : disk'[p] = disk[p] /\ (disk'[p] # <<>> => disk'[p][1].game < game)
           /\ LogFiles' /\ game \in Nat /\ game \in GameIds /\ game \in DOMAIN result
<1>1. /\ disk \in [Paths -> Seq(Rows)] /\ LogFiles /\ result \in Seq(Results) /\ Len(result) = game
      /\ file \in Paths /\ disk[file] # <<>> /\ disk[file][1].game = game
      /\ \A p \in Paths \ {file} : disk[p] # <<>> => disk[p][1].game < game
  BY DEF LogInv, LogTypes, LogOpen
<1>2. /\ disk' \in [Paths -> Seq(Rows)] /\ disk'[file] = disk[file] \o new
      /\ \A p \in Paths \ {file} : disk'[p] = disk[p]
  BY <1>1, RowsWritten
<1>3. game \in GameIds /\ game \in DOMAIN result
  BY <1>1, Headers DEF HeaderRows
<1>4. game \in Nat
  BY <1>1, LenProperties
<1>5. ASSUME NEW p \in Paths, p # file PROVE OfOneGame(disk'[p], game) /\ Complete(disk'[p], result')
  <2>1. disk'[p] = disk[p] /\ disk[p] \in Seq(Rows) /\ OfOneGame(disk[p], game) /\ Complete(disk[p], result)
    BY <1>1, <1>2, <1>5 DEF LogFiles
  <2>2. disk[p] # <<>> => result'[disk[p][1].game] = result[disk[p][1].game]
    <3>1. SUFFICES ASSUME disk[p] # <<>> PROVE result'[disk[p][1].game] = result[disk[p][1].game]
      OBVIOUS
    <3>2. disk[p][1].game \in DOMAIN result /\ disk[p][1].game < game /\ disk[p][1].game \in 1..game
      BY <1>1, <1>5, <3>1, Headers
    <3>3. disk[p][1].game # game
      BY <1>4, <3>2
    <3>. QED  BY <3>2, <3>3
  <2>3. game <= game
    BY <1>4
  <2>. QED  BY <1>4, <2>1, <2>2, <2>3, FileStays
<1>6. \A p \in Paths : OfOneGame(disk'[p], game') /\ Complete(disk'[p], result')
  BY <1>2, <1>5
<1>7. LogFiles'
  BY <1>6 DEF LogFiles
<1>. QED  BY <1>1, <1>2, <1>3, <1>4, <1>7

\* A file that is not ended has no footer to be true.
LEMMA NotEnded == ASSUME NEW list, NEW res, At(list, {"end"}) = {} PROVE Complete(list, res)
  BY DEF Complete

\* A line that is cut short is no row.
LEMMA CrashesKeeps == ASSUME LogAssumption, LogInv, Crashes PROVE LogInv'
<1>1. phase' = "down" /\ UNCHANGED <<game, frame, pinned, file, rows, last, fights, nextFid, dead, result>>
  BY DEF Crashes
<1>2. CASE UNCHANGED disk
  BY <1>1, <1>2, LogStays DEF LogInv, LogTypes
<1>3. CASE phase = "playing" /\ Writes(<<Torn>>)
  <2>. DEFINE new == <<Torn>>
              old == disk[file]
  <2>1. new \in Seq(Rows) /\ \A K : "torn" \notin K => At(new, K) = {}
    BY DEF Rows, At, Torn
  <2>. HIDE DEF new
  <2>2. /\ old \in Seq(Rows) /\ OfOneGame(old, game) /\ old # <<>> /\ At(old, {"end"}) = {}
    BY <1>3 DEF LogInv, LogTypes, LogFiles, LogOpen
  <2>3. At(new, {"header"}) = {} /\ At(new, {"fight", "ctx", "end"}) = {} /\ At(new, {"fight"}) = {} /\ At(new, {"end"}) = {}
    BY <2>1
  <2>. HIDE DEF old
  <2>4. OfOneGame(old \o new, game)
    BY <2>1, <2>2, <2>3, FileGrows
  <2>5. At(old \o new, {"end"}) = {}
    BY <2>1, <2>2, <2>3, NothingAppended
  <2>6. Complete(old \o new, result')
    BY <2>5, NotEnded
  <2>7. Writes(new)
    BY <1>3 DEF new
  <2>8. disk' \in [Paths -> Seq(Rows)] /\ LogFiles'
    BY <1>1, <1>3, <2>1, <2>4, <2>6, <2>7, OthersStay DEF old
  <2>9. LogTypes'
    BY <1>1, <2>8 DEF LogInv, LogTypes
  <2>10. LogOpen'
    BY <1>1 DEF LogOpen
  <2>11. LogLosses'
    BY <1>1 DEF LogInv, LogLosses
  <2>. QED  BY <2>8, <2>9, <2>10, <2>11 DEF LogInv
<1>. QED  BY <1>2, <1>3 DEF Crashes

\* What one row more that is no fight leaves of the file.
LEMMA RowGoesIn ==
    ASSUME NEW list \in Seq(Rows), OfOneGame(list, game), list # <<>>, NEW row \in Rows,
           row.t \in {"ctx", "end"}, row.game = list[1].game
    PROVE  /\ list \o <<row>> \in Seq(Rows) /\ OfOneGame(list \o <<row>>, game)
           /\ list \o <<row>> # <<>> /\ (list \o <<row>>)[1] = list[1]
           /\ FidsIn(list \o <<row>>) = FidsIn(list)
           /\ row.t = "ctx" => /\ At(list \o <<row>>, {"end"}) = At(list, {"end"})
                               /\ Cardinality(At(list \o <<row>>, Recorded)) = Cardinality(At(list, Recorded)) + 1
           /\ row.t = "end" => /\ At(list \o <<row>>, {"end"}) = At(list, {"end"}) \cup {Len(list) + 1}
                               /\ (list \o <<row>>)[Len(list) + 1] = row
                               /\ At(list \o <<row>>, Recorded) = At(list, Recorded)
<1>. DEFINE new == <<row>>
<1>1. new \in Seq(Rows) /\ DOMAIN new = {1} /\ new[1] = row /\ Len(new) = 1
  OBVIOUS
<1>. HIDE DEF new
<1>2. \A K : row.t \notin K => At(new, K) = {}
  BY <1>1 DEF At
<1>3. \A K : row.t \in K => At(new, K) = DOMAIN new
  BY <1>1 DEF At
<1>4. /\ At(new, {"header"}) = {} /\ At(new, {"fight"}) = {} /\ FidsIn(new) = {}
      /\ At(new, {"fight", "ctx", "end"}) = {1}
  <2>1. row.t \notin {"header"} /\ row.t \notin {"fight"} /\ row.t \in {"fight", "ctx", "end"}
    OBVIOUS
  <2>2. At(new, {"header"}) = {} /\ At(new, {"fight"}) = {} /\ At(new, {"fight", "ctx", "end"}) = {1}
    BY <1>1, <1>2, <1>3, <2>1
  <2>. QED  BY <2>2 DEF FidsIn
<1>5. OfOneGame(list \o new, game) /\ list \o new # <<>> /\ (list \o new)[1] = list[1]
  BY <1>1, <1>4, FileGrows
<1>6. list \o new \in Seq(Rows) /\ FidsIn(list \o new) = FidsIn(list)
  <2>1. FidsIn(list \o new) = FidsIn(list) \cup FidsIn(new)
    BY <1>1, FidsAppended
  <2>. QED  BY <1>1, <1>4, <2>1, AtAppended
<1>7. ASSUME row.t = "ctx"
      PROVE  /\ At(list \o new, {"end"}) = At(list, {"end"})
             /\ Cardinality(At(list \o new, Recorded)) = Cardinality(At(list, Recorded)) + 1
  <2>1. At(new, {"end"}) = {} /\ At(new, Recorded) = DOMAIN new
    BY <1>2, <1>3, <1>7 DEF Recorded
  <2>2. At(list \o new, {"end"}) = At(list, {"end"})
    BY <1>1, <2>1, NothingAppended
  <2>3. Cardinality(At(list \o new, Recorded)) = Cardinality(At(list, Recorded)) + Len(new)
    BY <1>1, <2>1, CountAppended
  <2>. QED  BY <1>1, <2>2, <2>3
<1>8. ASSUME row.t = "end"
      PROVE  /\ At(list \o new, {"end"}) = At(list, {"end"}) \cup {Len(list) + 1}
             /\ (list \o new)[Len(list) + 1] = row
             /\ At(list \o new, Recorded) = At(list, Recorded)
  <2>1. At(new, {"end"}) = {1} /\ At(new, Recorded) = {}
    BY <1>1, <1>2, <1>3, <1>8 DEF Recorded
  <2>2. At(list \o new, {"end"}) = At(list, {"end"}) \cup {Len(list) + i : i \in At(new, {"end"})}
    BY <1>1, AtAppended
  <2>3. \A i \in DOMAIN new : (list \o new)[Len(list) + i] = new[i]
    BY <1>1, AtAppended
  <2>4. {Len(list) + i : i \in {1}} = {Len(list) + 1}
    OBVIOUS
  <2>5. At(list \o new, Recorded) = At(list, Recorded)
    BY <1>1, <2>1, NothingAppended
  <2>6. (list \o new)[Len(list) + 1] = row
    BY <1>1, <2>3
  <2>7. At(list \o new, {"end"}) = At(list, {"end"}) \cup {Len(list) + 1}
    BY <2>1, <2>2, <2>4
  <2>. QED  BY <2>5, <2>6, <2>7
<1>. QED  BY <1>5, <1>6, <1>7, <1>8 DEF new

\* The fights of a decision: who has died is struck, what is over is written.
LEMMA FightsOfAFrame ==
    ASSUME LogAssumption, LogInv, phase = "playing", frame' = frame + 1,
           NEW died \in SUBSET ((Own \cup Foes) \ dead),
           NEW at, DOMAIN at = (Own \cup Foes) \ (dead \cup died)
    PROVE  LET seen == Seen(Struck(fights, died), at, frame')
               over == CloseDue(seen.fights, frame', FALSE)
               rest == StillActive(seen.fights, frame')
           IN  /\ over \in Seq(Fights) /\ rest \in Seq(Fights) /\ seen.next \in Nat
               /\ LossesIn(over, dead \cup died) /\ LossesIn(rest, dead \cup died)
               /\ \A i, k \in DOMAIN over : over[i].fid = over[k].fid => i = k
               /\ \A i \in DOMAIN over : over[i].fid \notin FidsIn(disk[file])
               /\ Numbered(rest, seen.next, FidsIn(disk[file]) \cup FidsOf(over))
<1>. DEFINE gone == dead \cup died
            written == FidsIn(disk[file])
            struck == Struck(fights, died)
            seen == Seen(struck, at, frame')
            list == seen.fights
            ix == {i \in DOMAIN list : Over(list[i], frame', FALSE)}
            over == Picked(list, ix)
            rest == Picked(list, DOMAIN list \ ix)
<1>1. /\ fights \in Seq(Fights) /\ dead \subseteq Own \cup Foes /\ LossesIn(fights, dead)
      /\ Numbered(fights, nextFid, written) /\ nextFid \in Nat /\ frame' \in Nat
  BY DEF LogInv, LogTypes, LogOpen, LogLosses
<1>2. died \in SUBSET (Own \cup Foes) /\ died \cap dead = {}
  OBVIOUS
<1>3. /\ struck \in Seq(Fights) /\ DOMAIN struck = DOMAIN fights /\ LossesIn(struck, gone)
      /\ \A i \in DOMAIN fights : struck[i].fid = fights[i].fid
  BY <1>1, <1>2, StruckKeeps
<1>. HIDE DEF gone, written
<1>. HIDE DEF struck
<1>4. Numbered(struck, nextFid, written)
  BY <1>1, <1>3 DEF Numbered
<1>5. [fights |-> struck, next |-> nextFid] \in Folded(gone, written)
  <2>1. [fights |-> struck, next |-> nextFid] \in [fights : Seq(Fights), next : Nat]
    BY <1>1, <1>3
  <2>. QED  BY <1>3, <1>4, <2>1 DEF Folded
<1>6. DOMAIN at \cap gone = {}
  BY DEF gone
<1>7. seen \in Folded(gone, written)
  BY <1>1, <1>5, <1>6, SeenKeeps
<1>. HIDE DEF seen
<1>8. /\ list \in Seq(Fights) /\ seen.next \in Nat
      /\ LossesIn(list, gone) /\ Numbered(list, seen.next, written)
  BY <1>7 DEF Folded
<1>. HIDE DEF list
<1>9. ix \in SUBSET DOMAIN list
  OBVIOUS
<1>10. CloseDue(list, frame', FALSE) = over
  BY DEF CloseDue
<1>11. StillActive(list, frame') = rest
  <2>1. {i \in DOMAIN list : ~Over(list[i], frame', FALSE)} = DOMAIN list \ ix
    OBVIOUS
  <2>. HIDE DEF ix
  <2>. QED  BY <2>1 DEF StillActive
<1>. HIDE DEF ix
<1>12. /\ over \in Seq(Fights) /\ rest \in Seq(Fights)
       /\ LossesIn(over, gone) /\ LossesIn(rest, gone)
       /\ \A i, k \in DOMAIN over : over[i].fid = over[k].fid => i = k
       /\ \A i \in DOMAIN over : over[i].fid \notin written
       /\ Numbered(rest, seen.next, written \cup FidsOf(over))
  <2>. DEFINE m == seen.next
  <2>1. list \in Seq(Fights) /\ LossesIn(list, gone) /\ Numbered(list, m, written)
    BY <1>8
  <2>. HIDE DEF m
  <2>2. /\ over \in Seq(Fights) /\ rest \in Seq(Fights)
        /\ LossesIn(over, gone) /\ LossesIn(rest, gone)
        /\ \A i, k \in DOMAIN over : over[i].fid = over[k].fid => i = k
        /\ \A i \in DOMAIN over : over[i].fid \notin written
        /\ Numbered(rest, m, written \cup FidsOf(over))
    BY <1>9, <2>1, SplitFights
  <2>. QED  BY <2>2 DEF m
<1>. HIDE DEF over, rest
<1>. QED  BY <1>8, <1>10, <1>11, <1>12 DEF gone, written, struck, seen, list

\* A decision writes the fights that are over, and perhaps a row of the strategy.
LEMMA OnFrameKeeps == ASSUME LogAssumption, LogInv, OnFrame PROVE LogInv'
<1>1. /\ phase = "playing" /\ frame' = frame + 1 /\ UNCHANGED <<phase, game, pinned, file, result>>
  BY DEF OnFrame
<1>2. PICK died \in SUBSET ((Own \cup Foes) \ dead) :
        \E at \in [(Own \cup Foes) \ (dead \cup died) -> 1 .. NPlaces] :
        LET seen == Seen(Struck(fights, died), at, frame')
            over == CloseDue(seen.fights, frame', FALSE)
            new  == FightList(over) \o (IF RowDue(frame') THEN <<Context>> ELSE <<>>)
        IN  /\ dead' = dead \cup died
            /\ fights' = StillActive(seen.fights, frame')
            /\ nextFid' = seen.next
            /\ Writes(new)
            /\ rows' = rows + Len(new)
            /\ last' = IF RowDue(frame') THEN frame' ELSE last
  BY DEF OnFrame
<1>20. PICK at \in [(Own \cup Foes) \ (dead \cup died) -> 1 .. NPlaces] :
        LET seen == Seen(Struck(fights, died), at, frame')
            over == CloseDue(seen.fights, frame', FALSE)
            new  == FightList(over) \o (IF RowDue(frame') THEN <<Context>> ELSE <<>>)
        IN  /\ dead' = dead \cup died
            /\ fights' = StillActive(seen.fights, frame')
            /\ nextFid' = seen.next
            /\ Writes(new)
            /\ rows' = rows + Len(new)
            /\ last' = IF RowDue(frame') THEN frame' ELSE last
  BY <1>2
<1>. DEFINE seen == Seen(Struck(fights, died), at, frame')
            over == CloseDue(seen.fights, frame', FALSE)
            one == FightList(over)
            two == IF RowDue(frame') THEN <<Context>> ELSE <<>>
            new == one \o two
            old == disk[file]
            all == old \o one
<1>3. /\ dead' = dead \cup died /\ fights' = StillActive(seen.fights, frame') /\ nextFid' = seen.next
      /\ Writes(new) /\ rows' = rows + Len(new)
  BY <1>20
<1>4. DOMAIN at = (Own \cup Foes) \ (dead \cup died)
  OBVIOUS
<1>5. /\ over \in Seq(Fights) /\ fights' \in Seq(Fights) /\ nextFid' \in Nat
      /\ LossesIn(over, dead') /\ LossesIn(fights', dead')
      /\ \A i, k \in DOMAIN over : over[i].fid = over[k].fid => i = k
      /\ \A i \in DOMAIN over : over[i].fid \notin FidsIn(old)
      /\ Numbered(fights', nextFid', FidsIn(old) \cup FidsOf(over))
  <2>1. /\ over \in Seq(Fights) /\ StillActive(seen.fights, frame') \in Seq(Fights) /\ seen.next \in Nat
        /\ LossesIn(over, dead \cup died) /\ LossesIn(StillActive(seen.fights, frame'), dead \cup died)
        /\ \A i, k \in DOMAIN over : over[i].fid = over[k].fid => i = k
        /\ \A i \in DOMAIN over : over[i].fid \notin FidsIn(old)
        /\ Numbered(StillActive(seen.fights, frame'), seen.next, FidsIn(old) \cup FidsOf(over))
    BY <1>1, <1>4, FightsOfAFrame
  <2>. HIDE DEF over, seen, old
  <2>. QED  BY <1>3, <2>1
<1>. HIDE DEF over, seen
<1>6. frame' \in Nat /\ rows \in Nat
  BY <1>1 DEF LogInv, LogTypes
<1>7. /\ all \in Seq(Rows) /\ one \in Seq(Rows) /\ old \in Seq(Rows)
      /\ OfOneGame(all, game) /\ all # <<>> /\ all[1] = old[1]
      /\ At(all, {"end"}) = {}
      /\ Cardinality(At(all, Recorded)) = rows + Len(one)
      /\ FidsIn(all) = FidsIn(old) \cup FidsOf(over)
  BY <1>1, <1>5, <1>6, FightsGoIn
<1>8. old[1].game = game
  BY <1>1 DEF LogInv, LogOpen
<1>9. game \in GameIds
  BY <1>1, <1>8, Headers DEF LogInv, LogOpen, HeaderRows
<1>. HIDE DEF one, old
<1>10. Context \in Rows /\ Context.t = "ctx" /\ Context.game = game
  BY <1>6, <1>9 DEF Context, ContextRows, Rows
<1>11. /\ two \in Seq(Rows) /\ all \o two \in Seq(Rows) /\ OfOneGame(all \o two, game)
       /\ all \o two # <<>> /\ (all \o two)[1] = old[1]
       /\ At(all \o two, {"end"}) = {}
       /\ Cardinality(At(all \o two, Recorded)) = rows + Len(one) + Len(two)
       /\ FidsIn(all \o two) = FidsIn(all)
  <2>. HIDE DEF all
  <2>1. CASE RowDue(frame')
    <3>1. two = <<Context>> /\ Len(two) = 1 /\ two \in Seq(Rows)
      BY <1>10, <2>1
    <3>. DEFINE row == Context
    <3>. HIDE DEF two, row
    <3>2. row \in Rows /\ row.t = "ctx" /\ row.t \in {"ctx", "end"} /\ row.game = all[1].game
      BY <1>7, <1>8, <1>10 DEF row
    <3>3. two = <<row>>
      BY <3>1 DEF row
    <3>. QED  BY <1>7, <3>1, <3>2, <3>3, RowGoesIn
  <2>2. CASE ~RowDue(frame')
    <3>1. two = <<>> /\ Len(two) = 0 /\ two \in Seq(Rows)
      BY <2>2, EmptySeq
    <3>. HIDE DEF two
    <3>2. all \o two = all
      BY <1>7, <3>1
    <3>3. Len(one) \in Nat
      BY <1>7, LenProperties
    <3>. QED  BY <1>6, <1>7, <3>1, <3>2, <3>3
  <2>. QED  BY <2>1, <2>2
<1>. HIDE DEF two
<1>12. /\ new \in Seq(Rows) /\ Len(new) = Len(one) + Len(two) /\ old \o new = all \o two
       /\ Len(one) \in Nat /\ Len(two) \in Nat
  <2>1. one \in Seq(Rows) /\ two \in Seq(Rows) /\ old \in Seq(Rows)
    BY <1>7, <1>11
  <2>2. Len(one) \in Nat /\ Len(two) \in Nat
    BY <2>1, LenProperties
  <2>3. new \in Seq(Rows) /\ Len(new) = Len(one) + Len(two)
    BY <2>1, ConcatProperties
  <2>4. old \o (one \o two) = (old \o one) \o two
    BY <2>1, ConcatAssociative
  <2>. QED  BY <2>2, <2>3, <2>4
<1>. HIDE DEF new, all
<1>13. Complete(old \o new, result')
  BY <1>11, <1>12, NotEnded
<1>14. /\ disk' \in [Paths -> Seq(Rows)] /\ disk'[file] = old \o new /\ file \in Paths
       /\ \A p \in Paths \ {file} : disk'[p] # <<>> => disk'[p][1].game < game
       /\ LogFiles'
  <2>1. OfOneGame(old \o new, game)
    BY <1>11, <1>12
  <2>2. \A g \in DOMAIN result \ {game} : result'[g] = result[g]
    BY <1>1
  <2>3. game' = game
    BY <1>1
  <2>. QED  BY <1>1, <1>3, <1>12, <1>13, <2>1, <2>2, <2>3, OthersStay DEF old
<1>15. rows' = rows + Len(one) + Len(two) /\ rows' \in Nat
  BY <1>3, <1>6, <1>12
<1>16. LogTypes'
  <2>1. dead' \subseteq Own \cup Foes
    BY <1>3 DEF LogInv, LogTypes
  <2>. QED  BY <1>1, <1>5, <1>6, <1>14, <1>15, <2>1 DEF LogInv, LogTypes
<1>17. LogOpen'
  <2>1. /\ disk'[file] # <<>> /\ disk'[file][1].game = game /\ At(disk'[file], {"end"}) = {}
        /\ Cardinality(At(disk'[file], Recorded)) = rows'
        /\ Numbered(fights', nextFid', FidsIn(disk'[file]))
    BY <1>5, <1>7, <1>8, <1>11, <1>12, <1>14, <1>15
  <2>. QED  BY <1>1, <1>14, <2>1 DEF LogOpen
<1>18. LogLosses'
  BY <1>5 DEF LogLosses
<1>. QED  BY <1>14, <1>16, <1>17, <1>18 DEF LogInv

\* The game's end writes the fights that go on, and the footer.
LEMMA OnEndKeeps == ASSUME LogAssumption, LogInv, NEW won \in BOOLEAN, OnEnd(won) PROVE LogInv'
<1>. DEFINE over == CloseDue(fights, frame, TRUE)
            one == FightList(over)
            n == rows + Len(one)
            row == End(won, n)
            old == disk[file]
            all == old \o one
            new == Append(one, row)
<1>1. /\ phase = "playing" /\ phase' = "idle" /\ UNCHANGED <<game, frame, pinned, last, nextFid, dead>>
      /\ Writes(new) /\ rows' = n /\ fights' = <<>> /\ file' = Nothing
      /\ result' = [result EXCEPT ![game] = [won |-> won, fights |-> nextFid]]
  BY DEF OnEnd
<1>2. /\ fights \in Seq(Fights) /\ LossesIn(fights, dead) /\ Numbered(fights, nextFid, FidsIn(old))
      /\ old[1].game = game /\ file \in Paths /\ old # <<>> /\ nextFid \in Nat
      /\ frame' \in Nat /\ rows \in Nat
  BY <1>1 DEF LogInv, LogTypes, LogOpen, LogLosses
<1>. HIDE DEF old
<1>3. /\ over \in Seq(Fights)
      /\ \A i, k \in DOMAIN over : over[i].fid = over[k].fid => i = k
      /\ \A i \in DOMAIN over : over[i].fid \notin FidsIn(old)
      /\ FidsIn(old) \cup FidsOf(over) = 0..nextFid-1
  <2>. DEFINE ix == DOMAIN fights
              rest == Picked(fights, DOMAIN fights \ ix)
  <2>1. over = Picked(fights, ix)
    <3>1. {i \in DOMAIN fights : Over(fights[i], frame, TRUE)} = ix
      BY DEF Over
    <3>. HIDE DEF ix
    <3>. QED  BY <3>1 DEF CloseDue
  <2>2. ix \in SUBSET DOMAIN fights /\ DOMAIN fights \ ix = {}
    OBVIOUS
  <2>. HIDE DEF ix, over
  <2>3. /\ over \in Seq(Fights)
        /\ \A i, k \in DOMAIN over : over[i].fid = over[k].fid => i = k
        /\ \A i \in DOMAIN over : over[i].fid \notin FidsIn(old)
        /\ Numbered(rest, nextFid, FidsIn(old) \cup FidsOf(over))
    BY <1>2, <2>1, <2>2, SplitFights
  <2>4. DOMAIN rest = {}
    <3>1. DOMAIN rest = 1..Cardinality({})
      BY <2>2 DEF Picked
    <3>2. Cardinality({}) = 0
      BY FS_EmptySet
    <3>. QED  BY <3>1, <3>2
  <2>. DEFINE W == FidsIn(old) \cup FidsOf(over)
  <2>. HIDE DEF W, rest
  <2>5. W \subseteq 0..nextFid-1 /\ \A m \in 0..nextFid-1 : m \in W
    BY <2>3, <2>4 DEF Numbered, W
  <2>6. W = 0..nextFid-1
    BY <2>5
  <2>. QED  BY <2>3, <2>6 DEF W
<1>. HIDE DEF over
<1>4. /\ all \in Seq(Rows) /\ one \in Seq(Rows) /\ old \in Seq(Rows)
      /\ OfOneGame(all, game) /\ all # <<>> /\ all[1] = old[1]
      /\ At(all, {"end"}) = {}
      /\ Cardinality(At(all, Recorded)) = n
      /\ FidsIn(all) = 0..nextFid-1
  BY <1>1, <1>2, <1>3, FightsGoIn DEF old
<1>5. game \in GameIds /\ game \in DOMAIN result
  BY <1>1, <1>2, Headers DEF LogInv, LogOpen, HeaderRows, old
<1>. HIDE DEF one
<1>6. n \in Nat
  BY <1>2, <1>4, LenProperties
<1>. HIDE DEF n, all
<1>7. row \in Rows /\ row.t = "end" /\ row.game = game /\ row.won = won /\ row.rows = n
  BY <1>5, <1>6 DEF End, EndRows, Rows
<1>. HIDE DEF row
<1>8. /\ all \o <<row>> \in Seq(Rows) /\ OfOneGame(all \o <<row>>, game)
      /\ all \o <<row>> # <<>> /\ (all \o <<row>>)[1] = all[1]
      /\ FidsIn(all \o <<row>>) = FidsIn(all)
      /\ At(all \o <<row>>, {"end"}) = At(all, {"end"}) \cup {Len(all) + 1}
      /\ (all \o <<row>>)[Len(all) + 1] = row
      /\ At(all \o <<row>>, Recorded) = At(all, Recorded)
  <2>1. row.t \in {"ctx", "end"} /\ row.game = all[1].game
    BY <1>2, <1>4, <1>7
  <2>. QED  BY <1>4, <1>7, <2>1, RowGoesIn
<1>9. new \in Seq(Rows) /\ old \o new = all \o <<row>>
  <2>1. <<row>> \in Seq(Rows)
    BY <1>7
  <2>2. new = one \o <<row>>
    BY <1>4, <1>7, AppendIsConcat
  <2>3. new \in Seq(Rows)
    BY <1>4, <1>7, AppendProperties
  <2>4. old \o (one \o <<row>>) = (old \o one) \o <<row>>
    BY <1>4, <2>1, ConcatAssociative
  <2>. QED  BY <2>2, <2>3, <2>4 DEF all
<1>. HIDE DEF new
<1>10. /\ result' \in Seq(Results) /\ Len(result') = game
       /\ result'[game] = [won |-> won, fights |-> nextFid]
       /\ \A g \in DOMAIN result \ {game} : result'[g] = result[g]
  <2>1. result \in Seq(Results) /\ Len(result) = game /\ DOMAIN result = 1..Len(result)
    BY LenProperties DEF LogInv, LogTypes
  <2>. DEFINE r == [won |-> won, fights |-> nextFid]
  <2>2. r \in Results
    BY <1>2 DEF Results
  <2>. HIDE DEF r
  <2>3. result' = [result EXCEPT ![game] = r]
    BY <1>1 DEF r
  <2>4. result' \in Seq(Results) /\ Len(result') = game
    BY <1>5, <2>1, <2>2, <2>3, ExceptSeq
  <2>5. result'[game] = r /\ \A g \in DOMAIN result \ {game} : result'[g] = result[g]
    BY <1>5, <2>1, <2>3
  <2>. QED  BY <2>4, <2>5 DEF r
<1>11. Complete(all \o <<row>>, result')
  <2>. DEFINE file1 == all \o <<row>>
              r == [won |-> won, fights |-> nextFid]
  <2>1. \A i \in At(file1, {"end"}) : file1[i] = row
    BY <1>4, <1>8
  <2>2. /\ Cardinality(At(file1, Recorded)) = n /\ FidsIn(file1) = 0..nextFid-1
        /\ file1[1].game = game
    BY <1>2, <1>4, <1>8
  <2>. HIDE DEF file1
  <2>3. result'[game] = r /\ r.fights = nextFid /\ r \in [won : {won}, fights : Nat]
    BY <1>2, <1>10
  <2>. HIDE DEF r
  <2>4. /\ row.rows = Cardinality(At(file1, Recorded))
        /\ result'[file1[1].game] \in [won : {row.won}, fights : Nat]
        /\ FidsIn(file1) = 0..result'[file1[1].game].fights - 1
    BY <1>7, <2>2, <2>3
  <2>5. Complete(file1, result')
    BY <2>1, <2>4 DEF Complete
  <2>. QED  BY <2>5 DEF file1
<1>12. disk' \in [Paths -> Seq(Rows)] /\ LogFiles'
  <2>1. OfOneGame(old \o new, game) /\ Complete(old \o new, result')
    BY <1>8, <1>9, <1>11
  <2>2. game' = game
    BY <1>1
  <2>. QED  BY <1>1, <1>9, <1>10, <2>1, <2>2, OthersStay DEF old
<1>13. LogTypes'
  <2>1. <<>> \in Seq(Fights)
    BY EmptySeq
  <2>. QED  BY <1>1, <1>2, <1>6, <1>10, <1>12, <2>1 DEF LogInv, LogTypes
<1>14. LogOpen'
  BY <1>1 DEF LogOpen
<1>15. LogLosses'
  <2>1. DOMAIN fights' = {}
    BY <1>1
  <2>. QED  BY <2>1 DEF LogLosses, LossesIn
<1>. QED  BY <1>12, <1>13, <1>14, <1>15 DEF LogInv

\* No step of a process breaks what the files are.
LEMMA LogInvNext == ASSUME LogAssumption, LogInv, [LogNext]_logVars PROVE LogInv'
<1>1. CASE Boots
  <2>1. /\ UNCHANGED <<game, frame, disk, dead, result>> /\ phase' = "idle" /\ file' = Nothing
        /\ rows' = 0 /\ nextFid' = 0 /\ fights' = <<>>
    BY <1>1 DEF Boots
  <2>. QED  BY <2>1, LogStays
<1>2. CASE Disconnects
  <2>1. /\ UNCHANGED <<game, frame, disk, dead, result, file, rows, nextFid, fights>> /\ phase' = "idle"
    BY <1>2 DEF Disconnects
  <2>. QED  BY <2>1, LogStays DEF LogInv, LogTypes
<1>3. CASE UNCHANGED logVars
  BY <1>3 DEF logVars, LogInv, LogTypes, LogFiles, LogOpen, LogLosses
<1>. QED  BY <1>1, <1>2, <1>3, GameStartsKeeps, OnFrameKeeps, OnEndKeeps, CrashesKeeps DEF LogNext

\* The files are what they are meant to be, at every time.
LEMMA LogInvariant == LogSpec => []LogInv
<1>1. LogInit => LogInv
  BY LogInvInit, LogAssumption
<1>2. LogInv /\ [LogNext]_logVars => LogInv'
  BY LogInvNext, LogAssumption
<1>. QED  BY <1>1, <1>2, PTL DEF LogSpec

\* What a trainer reads of a file that has a header and a footer.
LEMMA WhatIsRead ==
    ASSUME LogInv, NEW g \in IterGames
    PROVE  \E p \in Paths :
             /\ disk[p] \in Seq(Rows) /\ OfOneGame(disk[p], game) /\ Complete(disk[p], result) /\ disk[p] # <<>>
             /\ g.header = disk[p][1] /\ g.rows = Picked(disk[p], At(disk[p], Recorded))
             /\ \E e \in At(disk[p], {"end"}) : g.end = disk[p][e]
<1>1. PICK p \in Paths : g = ReadGame(p) /\ g.header /= Nothing /\ g.end /= Nothing
  BY DEF IterGames
<1>. DEFINE list == disk[p]
            H == At(list, {"header"})
            E == At(list, {"end"})
<1>2. list \in Seq(Rows) /\ OfOneGame(list, game) /\ Complete(list, result)
  BY DEF LogInv, LogTypes, LogFiles
<1>3. \A K : Lines(p, K) = At(list, K)
  BY DEF Lines, At
<1>4. /\ g.header = LastOf(p, "header") /\ g.end = LastOf(p, "end")
      /\ g.rows = Picked(list, At(list, Recorded))
  BY <1>1, <1>3 DEF ReadGame, Recorded
<1>5. H # {} /\ g.header = list[Max(H)]
  BY <1>1, <1>3, <1>4 DEF LastOf
<1>6. E # {} /\ g.end = list[Max(E)]
  BY <1>1, <1>3, <1>4 DEF LastOf
<1>7. H \subseteq DOMAIN list /\ E \subseteq DOMAIN list
  BY DEF At
<1>8. list # <<>>
  BY <1>5, <1>7
<1>9. \A i \in H : i = 1
  BY <1>2, <1>8 DEF OfOneGame
<1>. HIDE DEF H, E, list
<1>10. IsFiniteSet(H) /\ H \in SUBSET Int /\ IsFiniteSet(E) /\ E \in SUBSET Int
  <2>1. IsFiniteSet(H) /\ H \in SUBSET Nat /\ IsFiniteSet(E) /\ E \in SUBSET Nat
    BY <1>2, <1>7, PlacesFinite
  <2>. QED  BY <2>1
<1>11. Max(H) \in H /\ Max(E) \in E
  BY <1>5, <1>6, <1>10, MaxIsGreatest
<1>12. g.header = list[1]
  BY <1>5, <1>9, <1>11
<1>. QED  BY <1>2, <1>4, <1>6, <1>8, <1>11, <1>12 DEF list, E

\* The rows, the footer and the result that are read are those of the header's game.
LEMMA ReadsTrue == LogInv => DatasetTrue
<1>. SUFFICES ASSUME LogInv, NEW g \in IterGames
     PROVE  /\ g.end.game = g.header.game
            /\ g.end.rows = Len(g.rows)
            /\ \A i \in DOMAIN g.rows : g.rows[i].game = g.header.game
            /\ g.end.won = result[g.header.game].won
  BY DEF DatasetTrue
<1>1. PICK p \in Paths :
        /\ disk[p] \in Seq(Rows) /\ OfOneGame(disk[p], game) /\ Complete(disk[p], result) /\ disk[p] # <<>>
        /\ g.header = disk[p][1] /\ g.rows = Picked(disk[p], At(disk[p], Recorded))
        /\ \E e \in At(disk[p], {"end"}) : g.end = disk[p][e]
  BY WhatIsRead
<1>2. PICK e \in At(disk[p], {"end"}) : g.end = disk[p][e]
  BY <1>1
<1>. DEFINE list == disk[p]
            R == At(list, Recorded)
<1>3. \A i \in At(list, {"fight", "ctx", "end"}) : list[i].game = g.header.game
  BY <1>1 DEF OfOneGame
<1>4. g.end.game = g.header.game
  <2>1. e \in At(list, {"fight", "ctx", "end"})
    BY DEF At
  <2>. QED  BY <1>2, <1>3, <2>1
<1>5. g.end.rows = Cardinality(R) /\ g.end.won = result[g.header.game].won
  BY <1>1, <1>2 DEF Complete
<1>6. R \in SUBSET DOMAIN list /\ R \subseteq At(list, {"fight", "ctx", "end"})
  BY DEF At, Recorded
<1>. HIDE DEF R, list
<1>7. /\ Len(g.rows) = Cardinality(R)
      /\ \A n \in DOMAIN g.rows : Place(R, n) \in R /\ g.rows[n] = list[Place(R, n)]
  BY <1>1, <1>6, PickedList DEF R, list
<1>8. \A n \in DOMAIN g.rows : g.rows[n].game = g.header.game
  BY <1>3, <1>6, <1>7
<1>. QED  BY <1>4, <1>5, <1>7, <1>8

\* Whatever a trainer reads of a finished game is of that one game: its rows and
\* its footer are the header's, none is missing, and the result is the game's own,
\* whichever processes have crashed, lost their games or used the name again.
THEOREM OnlyTrueGames == LogSpec => []DatasetTrue
  BY LogInvariant, ReadsTrue, PTL

\* The fights that are read are those there were, each once.
LEMMA ReadsFights == LogInv => FightsWritten
<1>. SUFFICES ASSUME LogInv, NEW g \in IterGames
     PROVE  LET written == {i \in DOMAIN g.rows : g.rows[i].t = "fight"}
            IN  /\ \A i, k \in written : g.rows[i].fid = g.rows[k].fid => i = k
                /\ {g.rows[i].fid : i \in written} = 0 .. result[g.header.game].fights - 1
  BY DEF FightsWritten
<1>1. PICK p \in Paths :
        /\ disk[p] \in Seq(Rows) /\ OfOneGame(disk[p], game) /\ Complete(disk[p], result) /\ disk[p] # <<>>
        /\ g.header = disk[p][1] /\ g.rows = Picked(disk[p], At(disk[p], Recorded))
        /\ \E e \in At(disk[p], {"end"}) : g.end = disk[p][e]
  BY WhatIsRead
<1>. DEFINE list == disk[p]
            R == At(list, Recorded)
            F == At(list, {"fight"})
            written == {i \in DOMAIN g.rows : g.rows[i].t = "fight"}
            at(n) == Place(R, n)
<1>2. FidsIn(list) = 0..result[g.header.game].fights - 1
  BY <1>1 DEF Complete
<1>3. \A i, k \in F : list[i].fid = list[k].fid => i = k
  BY <1>1 DEF OfOneGame
<1>4. R \in SUBSET DOMAIN list /\ F \subseteq R
  BY DEF At, Recorded
<1>5. \A i \in R : list[i].t = "fight" <=> i \in F
  BY DEF At
<1>6. FidsIn(list) = {list[i].fid : i \in F}
  BY DEF FidsIn
<1>. HIDE DEF R, F, list, at
<1>7. /\ \A n \in DOMAIN g.rows : at(n) \in R /\ g.rows[n] = list[at(n)]
      /\ \A n, m \in DOMAIN g.rows : at(n) = at(m) => n = m
      /\ \A i \in R : \E n \in DOMAIN g.rows : at(n) = i
  BY <1>1, <1>4, PickedList DEF R, list, at
<1>8. \A n \in written : at(n) \in F /\ g.rows[n].fid = list[at(n)].fid /\ n \in DOMAIN g.rows
  BY <1>5, <1>7
<1>9. \A i \in F : \E n \in written : at(n) = i
  <2>1. SUFFICES ASSUME NEW i \in F PROVE \E n \in written : at(n) = i
    OBVIOUS
  <2>2. PICK n \in DOMAIN g.rows : at(n) = i
    BY <1>4, <1>7
  <2>3. g.rows[n].t = "fight"
    BY <1>4, <1>5, <1>7, <2>2
  <2>. QED  BY <2>2, <2>3
<1>. HIDE DEF written
<1>10. \A i, k \in written : g.rows[i].fid = g.rows[k].fid => i = k
  BY <1>3, <1>7, <1>8
<1>11. {g.rows[i].fid : i \in written} = {list[i].fid : i \in F}
  BY <1>8, <1>9
<1>. QED  BY <1>2, <1>6, <1>10, <1>11 DEF written

\* Every fight of a finished game is written, once.
THEOREM FightsAreWritten == LogSpec => []FightsWritten
  BY LogInvariant, ReadsFights, PTL

\* The rows of a step have the losses of their fights.
LEMMA WritesLosses ==
    ASSUME LogAssumption, LogInv, LogInv', [LogNext]_logVars, NEW r \in NewRows, r.t = "fight"
    PROVE  r.ownLost = Cardinality(r.own \cap dead') /\ r.foesLost = Cardinality(r.foes \cap dead')
<1>1. PICK k \in DOMAIN disk'[file] : k > Len(disk[file]) /\ r = disk'[file][k] /\ file /= Nothing
  BY DEF NewRows
<1>2. file \in Paths /\ disk \in [Paths -> Seq(Rows)] /\ disk[file] \in Seq(Rows)
  BY <1>1 DEF LogInv, LogTypes
<1>3. ASSUME UNCHANGED disk PROVE FALSE
  <2>1. k \in 1..Len(disk[file]) /\ Len(disk[file]) \in Nat
    BY <1>1, <1>2, <1>3, LenProperties
  <2>. QED  BY <1>1, <2>1
<1>4. ASSUME NEW new \in Seq(Rows), Writes(new) PROVE \E i \in DOMAIN new : r = new[i]
  <2>1. disk'[file] = disk[file] \o new
    BY <1>2, <1>4, RowsWritten
  <2>. QED  BY <1>1, <1>2, <1>4, <2>1, RowsAreNew
<1>5. ASSUME NEW over \in Seq(Fights), LossesIn(over, dead'), frame' \in Nat, game \in GameIds,
             NEW i \in DOMAIN FightList(over), r = FightList(over)[i]
      PROVE  r.ownLost = Cardinality(r.own \cap dead') /\ r.foesLost = Cardinality(r.foes \cap dead')
  <2>. DEFINE new == FightList(over)
  <2>1. /\ DOMAIN new = DOMAIN over
        /\ \A j \in DOMAIN over :
             /\ new[j].own = over[j].own /\ new[j].ownLost = over[j].ownLost
             /\ new[j].foes = over[j].foes /\ new[j].foesLost = over[j].foesLost
    BY <1>5, RowsOfFights
  <2>2. i \in DOMAIN over /\ r = new[i]
    BY <1>5, <2>1
  <2>. HIDE DEF new
  <2>. QED  BY <1>5, <2>1, <2>2 DEF LossesIn
<1>6. phase = "playing" => game \in GameIds
  <2>1. SUFFICES ASSUME phase = "playing" PROVE game \in GameIds
    OBVIOUS
  <2>2. disk[file] # <<>> /\ disk[file][1].game = game
    BY <2>1 DEF LogInv, LogOpen
  <2>. QED  BY <1>2, <2>2, Headers DEF HeaderRows
<1>7. ASSUME GameStarts PROVE FALSE
  <2>. DEFINE new == <<[t |-> "header", game |-> game']>>
  <2>1. disk' = [disk EXCEPT ![file'] = new]
    BY <1>7 DEF GameStarts, Opened, Header
  <2>2. DOMAIN new = {1} /\ new[1].t = "header"
    OBVIOUS
  <2>. HIDE DEF new
  <2>3. CASE file' = file
    <3>1. disk'[file] = new
      BY <1>2, <2>1, <2>3
    <3>. QED  BY <1>1, <2>2, <3>1
  <2>4. CASE file' # file
    <3>1. disk'[file] = disk[file]
      BY <1>2, <2>1, <2>4
    <3>2. k \in 1..Len(disk[file]) /\ Len(disk[file]) \in Nat
      BY <1>1, <1>2, <3>1, LenProperties
    <3>. QED  BY <1>1, <3>2
  <2>. QED  BY <2>3, <2>4
<1>8. ASSUME Crashes PROVE FALSE
  <2>1. Writes(<<Torn>>)
    BY <1>3, <1>8 DEF Crashes
  <2>2. <<Torn>> \in Seq(Rows)
    BY DEF Rows
  <2>3. PICK i \in DOMAIN <<Torn>> : r = <<Torn>>[i]
    BY <1>4, <2>1, <2>2
  <2>4. r = Torn
    BY <2>3
  <2>. QED  BY <2>4 DEF Torn
<1>9. CASE OnFrame
  <2>1. phase = "playing" /\ frame' = frame + 1
    BY <1>9 DEF OnFrame
  <2>2. PICK died \in SUBSET ((Own \cup Foes) \ dead) :
          \E at \in [(Own \cup Foes) \ (dead \cup died) -> 1 .. NPlaces] :
          LET seen == Seen(Struck(fights, died), at, frame')
              over == CloseDue(seen.fights, frame', FALSE)
              new  == FightList(over) \o (IF RowDue(frame') THEN <<Context>> ELSE <<>>)
          IN  dead' = dead \cup died /\ Writes(new)
    BY <1>9 DEF OnFrame
  <2>3. PICK at \in [(Own \cup Foes) \ (dead \cup died) -> 1 .. NPlaces] :
          LET seen == Seen(Struck(fights, died), at, frame')
              over == CloseDue(seen.fights, frame', FALSE)
              new  == FightList(over) \o (IF RowDue(frame') THEN <<Context>> ELSE <<>>)
          IN  dead' = dead \cup died /\ Writes(new)
    BY <2>2
  <2>. DEFINE seen == Seen(Struck(fights, died), at, frame')
              over == CloseDue(seen.fights, frame', FALSE)
              one == FightList(over)
              two == IF RowDue(frame') THEN <<Context>> ELSE <<>>
  <2>4. dead' = dead \cup died /\ Writes(one \o two)
    BY <2>3
  <2>5. DOMAIN at = (Own \cup Foes) \ (dead \cup died)
    OBVIOUS
  <2>6. over \in Seq(Fights) /\ LossesIn(over, dead \cup died)
    BY <2>1, <2>5, FightsOfAFrame
  <2>7. frame' \in Nat /\ game \in GameIds
    BY <1>6, <2>1 DEF LogInv, LogTypes
  <2>. HIDE DEF over
  <2>8. one \in Seq(Rows)
    BY <2>6, <2>7, RowsOfFights
  <2>9. two \in Seq(Rows) /\ \A i \in DOMAIN two : two[i].t = "ctx"
    <3>1. Context \in Rows /\ Context.t = "ctx"
      BY <2>7 DEF Context, ContextRows, Rows
    <3>2. CASE RowDue(frame')
      <4>1. two = <<Context>>
        BY <3>2
      <4>. QED  BY <3>1, <4>1
    <3>3. CASE ~RowDue(frame')
      <4>1. two = <<>>
        BY <3>3
      <4>. QED  BY <4>1, EmptySeq
    <3>. QED  BY <3>2, <3>3
  <2>. HIDE DEF one, two
  <2>10. one \o two \in Seq(Rows)
    BY <2>8, <2>9, ConcatProperties
  <2>11. PICK i \in DOMAIN (one \o two) : r = (one \o two)[i]
    BY <1>4, <2>4, <2>10
  <2>12. (\E j \in DOMAIN one : r = one[j]) \/ (\E j \in DOMAIN two : r = two[j])
    <3>1. CASE i > Len(one)
      BY <2>8, <2>9, <2>11, <3>1, RowsAreNew
    <3>2. CASE ~(i > Len(one))
      <4>1. /\ DOMAIN one = 1..Len(one) /\ Len(one) \in Nat /\ DOMAIN (one \o two) = 1..Len(one \o two)
            /\ Len(one \o two) = Len(one) + Len(two) /\ Len(two) \in Nat
            /\ \A j \in 1..Len(one) + Len(two) : (one \o two)[j] = IF j <= Len(one) THEN one[j] ELSE two[j - Len(one)]
        BY <2>8, <2>9, <2>10, LenProperties, ConcatProperties
      <4>2. i \in DOMAIN one /\ r = one[i]
        BY <2>11, <3>2, <4>1
      <4>. QED  BY <4>2
    <3>. QED  BY <3>1, <3>2
  <2>13. PICK j \in DOMAIN one : r = one[j]
    BY <2>9, <2>12
  <2>. QED  BY <1>5, <2>4, <2>6, <2>7, <2>13 DEF one
<1>10. ASSUME NEW won \in BOOLEAN, OnEnd(won)
       PROVE  r.ownLost = Cardinality(r.own \cap dead') /\ r.foesLost = Cardinality(r.foes \cap dead')
  <2>. DEFINE over == CloseDue(fights, frame, TRUE)
              one == FightList(over)
              row == End(won, rows + Len(one))
  <2>1. phase = "playing" /\ frame' = frame /\ dead' = dead /\ Writes(Append(one, row))
    BY <1>10 DEF OnEnd
  <2>2. /\ fights \in Seq(Fights) /\ LossesIn(fights, dead) /\ Numbered(fights, nextFid, FidsIn(disk[file]))
        /\ frame' \in Nat /\ rows \in Nat /\ game \in GameIds
    BY <1>6, <2>1 DEF LogInv, LogTypes, LogOpen, LogLosses
  <2>3. over \in Seq(Fights) /\ LossesIn(over, dead)
    <3>. DEFINE ix == {i \in DOMAIN fights : Over(fights[i], frame, TRUE)}
    <3>1. over = Picked(fights, ix) /\ ix \in SUBSET DOMAIN fights
      BY DEF CloseDue
    <3>. HIDE DEF ix, over
    <3>. QED  BY <2>2, <3>1, SplitFights
  <2>. HIDE DEF over
  <2>4. one \in Seq(Rows)
    BY <2>2, <2>3, RowsOfFights
  <2>5. Len(one) \in Nat
    BY <2>4, LenProperties
  <2>. HIDE DEF one
  <2>6. row \in Rows /\ row.t = "end"
    BY <1>10, <2>2, <2>5 DEF End, EndRows, Rows
  <2>. HIDE DEF row
  <2>7. Append(one, row) \in Seq(Rows) /\ Len(Append(one, row)) = Len(one) + 1
    BY <2>4, <2>6, AppendProperties
  <2>8. PICK i \in DOMAIN Append(one, row) : r = Append(one, row)[i]
    BY <1>4, <2>1, <2>7
  <2>9. i \in 1..Len(one) + 1 /\ DOMAIN one = 1..Len(one)
    BY <2>4, <2>7, LenProperties
  <2>10. i # Len(one) + 1
    <3>1. Append(one, row)[Len(one) + 1] = row
      BY <2>4, <2>6, AppendProperties
    <3>. QED  BY <2>6, <2>8, <3>1
  <2>11. i \in DOMAIN one
    BY <2>5, <2>9, <2>10
  <2>12. r = one[i]
    BY <2>4, <2>6, <2>8, <2>9, <2>11, AppendProperties
  <2>. QED  BY <1>5, <2>1, <2>2, <2>3, <2>11, <2>12 DEF one
<1>11. CASE Boots
  BY <1>3, <1>11 DEF Boots
<1>12. CASE Disconnects
  BY <1>3, <1>12 DEF Disconnects
<1>13. CASE UNCHANGED logVars
  BY <1>3, <1>13 DEF logVars
<1>. QED  BY <1>7, <1>8, <1>9, <1>10, <1>11, <1>12, <1>13 DEF LogNext

\* The losses of a fight that is written are the units it saw that have died by
\* then, whichever of its clusters they were in and wherever they had gone.
THEOREM LossesAreTrue == LogSpec => LossesTrue
<1>1. LogInv /\ LogInv' /\ [LogNext]_logVars =>
        \A r \in NewRows : r.t = "fight" =>
           /\ r.ownLost = Cardinality(r.own \cap dead')
           /\ r.foesLost = Cardinality(r.foes \cap dead')
  BY WritesLosses, LogAssumption
<1>. QED  BY <1>1, LogInvariant, PTL DEF LogSpec, LossesTrue
=============================================================================
