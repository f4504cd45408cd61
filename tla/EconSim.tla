------------------------------ MODULE EconSim ------------------------------
(* The economy simulator of the build-order search: econsim.py.             *)
(*                                                                           *)
(* A simulated state holds the money, the workers, the supply, what is done  *)
(* and what is started, for each type of producer the frames at which the    *)
(* producers are next free, and the completions to come.  When answers from  *)
(* which frame on an action can start, Do starts it.                         *)
(*                                                                           *)
(* Rates and costs are integers (a worker's rate is ten units per frame); an *)
(* upgrade's level is a tech that comes after the level below it.            *)
EXTENDS Integers, Sequences, SequencesExt, FiniteSetsExt

CONSTANTS
    Data,          \* what BWAPI tells of every type and tech: kind ("unit",
                   \* "worker", "building", "addon", "tech"), m, g, time, need,
                   \* gives, from, req (a sequence), after, hall
    Worker, Refinery,
    Race,          \* "terran", "protoss" or "zerg"
    PerPatch, Patches,      \* workers a patch feeds, patches of a base
    Travel, BuilderGap,
    Limit,                  \* `when` looks no further ahead than this
    MaxSupply,
    None

Types == DOMAIN Data
Units == {t \in Types : Data[t].kind /= "tech"}
IsAddon(t) == Data[t].kind = "addon"
IsPlaced(t) == Data[t].kind = "building"
IsBuilding(t) == IsAddon(t) \/ IsPlaced(t)
IsTech(t) == Data[t].kind = "tech"

Least(a, b) == IF a < b THEN a ELSE b
Most(a, b) == IF a > b THEN a ELSE b
Sorted(q) == SortSeq(q, <)
----------------------------------------------------------------------------
(* Income and time. *)

Income(s) ==
    LET cap == PerPatch * s.patches
    IN  [m |-> 10 * Least(s.mw, cap) + 3 * Most(0, Least(s.mw - cap, s.patches)),
         g |-> 10 * s.gw]

Accrue(s, f) ==
    LET dt == Most(0, f - s.frame)
    IN  [s EXCEPT !.m = @ + Income(s).m * dt, !.g = @ + Income(s).g * dt, !.frame = Most(@, f)]

\* An addon's parent produces from the addon's list from now on.
Moved(s, t, f) ==
    LET pool == s.slots[Data[t].from]
    IN  IF IsAddon(t) /\ pool /= <<>>
        THEN [s.slots EXCEPT ![Data[t].from] = Front(pool), ![t] = Sorted(Append(@, f))]
        ELSE [s.slots EXCEPT ![t] = Sorted(Append(@, f))]

Complete(s, e) ==
    LET t == e.type
        gasMen == IF t = Refinery THEN Least(3, s.mw) ELSE 0
    IN  CASE e.kind = "unit" ->
                [s EXCEPT !.done[t] = @ + 1, !.total = Least(MaxSupply, @ + Data[t].gives),
                          !.mw = @ - gasMen + (IF t = Worker THEN 1 ELSE 0), !.gw = @ + gasMen,
                          !.slots = IF IsBuilding(t) THEN Moved(s, t, e.at) ELSE @,
                          !.research[t] = IF IsBuilding(t) THEN Sorted(Append(@, e.at)) ELSE @,
                          !.patches = IF Data[t].hall THEN @ + Patches ELSE @]
          [] e.kind = "builder" -> [s EXCEPT !.mw = @ + 1]
          [] OTHER -> s

Advance(s, f) ==
    LET due(e) == e.at <= f
        later(e) == e.at > f
    IN  Accrue(FoldLeft(LAMBDA t, e : Complete(Accrue(t, e.at), e),
                        [s EXCEPT !.events = SelectSeq(@, later)],
                        SelectSeq(s.events, due)),
               f)

Push(s, at, kind, t) ==
    LET before(e) == e.at <= at
        after(e) == e.at > at
    IN  [s EXCEPT !.events = SelectSeq(@, before) \o <<[at |-> at, kind |-> kind, type |-> t]>>
                             \o SelectSeq(@, after)]
----------------------------------------------------------------------------
(* What an action needs. *)

Reqs(t) == SelectSeq(Data[t].req, LAMBDA r : r /= Worker)

\* The lists of producers that can make t; None when it takes a builder only.
Pools(s, t) ==
    LET b == Data[t].from
        own == SelectSeq(Data[t].req, LAMBDA r : IsAddon(r) /\ Data[r].from = b)
    IN  CASE IsTech(t) -> <<s.research[Reqs(t)[1]]>>
          [] b \in {Worker, None} -> None
          [] IsAddon(t) -> <<s.slots[b]>>
          [] ~IsTech(t) /\ ~IsAddon(t) /\ own /= <<>> -> <<s.slots[own[1]]>>
          [] OTHER -> <<s.slots[b]>> \o
                      SetToSeq({s.slots[a] : a \in {x \in Units : IsAddon(x) /\ Data[x].from = b}})

HasProducer(pools) == \E p \in ToSet(pools) : p /= <<>>
FreeFrom(pools) == Min({Head(p) : p \in {q \in ToSet(pools) : q /= <<>>}})

SupplyEventually(s) ==
    LET coming == SelectSeq(s.events, LAMBDA e : e.kind = "unit")
    IN  Least(MaxSupply, FoldLeft(LAMBDA n, e : n + Data[e.type].gives, s.total, coming))

Legal(s, t) ==
    /\ \A r \in ToSet(Reqs(t)) : s.started[r] > 0
    /\ Data[t].g > 0 => s.gw > 0 \/ s.g >= Data[t].g \/ s.started[Refinery] > 0
    /\ Data[t].need > 0 => s.used + Data[t].need <= SupplyEventually(s)
    /\ IsTech(t) => t \notin s.techs /\ (Data[t].after = None \/ Data[t].after \in s.techs)
    /\ \/ Pools(s, t) = None
       \/ HasProducer(Pools(s, t))
       \/ \E r \in ToSet(Reqs(t)) : s.started[r] > s.done[r]

\* The prerequisites stand, supply is there and a producer exists.
Ready(s, t) ==
    /\ \A r \in ToSet(Reqs(t)) : s.done[r] > 0
    /\ Data[t].need > 0 => s.used + Data[t].need <= s.total
    /\ Pools(s, t) /= None => HasProducer(Pools(s, t))

Never == 1000000
CeilDiv(a, b) == (a + b - 1) \div b
Wait(have, cost, rate) ==
    CASE have >= cost -> 0 [] have < cost /\ rate <= 0 -> Never [] OTHER -> CeilDiv(cost - have, rate)

\* The first frame for t if nothing completes before.
Offer(s, t) ==
    LET money == Most(Wait(s.m, Data[t].m, Income(s).m), Wait(s.g, Data[t].g, Income(s).g))
    IN  IF ~Ready(s, t) \/ money >= Never THEN Never
        ELSE Max({s.frame + money}
                 \cup (IF Pools(s, t) = None THEN {} ELSE {FreeFrom(Pools(s, t))})
                 \cup (IF IsPlaced(t) THEN {s.builder} ELSE {}))

WhenFirstOffer(s, t) ==                                                \* mutant
    IF Legal(s, t) /\ Offer(s, t) <= s.frame + Limit THEN Offer(s, t) ELSE None

\* The first offer that nothing completes before, of those that `when` looks at:
\* now and after each completion.
FirstTaken(s, offer) ==
    LET nxt(f) == Min({Never} \cup {e.at : e \in {x \in ToSet(s.events) : x.at > f}})
        taken  == {f \in DOMAIN offer : offer[f] < Never /\ offer[f] <= nxt(f)}
    IN  IF taken = {} THEN Never ELSE offer[Min(taken)]
When(s, t) ==
    LET end    == s.frame + Limit
        stages == {s.frame} \cup {e.at : e \in {x \in ToSet(s.events) : x.at <= end}}
        state(f) == IF f = s.frame THEN s ELSE Advance(s, f)
        within(f) == IF f <= end THEN f ELSE None
    IN  IF Legal(s, t) THEN within(FirstTaken(s, [f \in stages |-> Offer(state(f), t)])) ELSE None
----------------------------------------------------------------------------
(* Starting it. *)

\* The producer that is free first makes t until `until`.
BusyIn(s, field, list, until) == [s EXCEPT ![field][list] = Sorted(Append(Tail(@), until))]

\* Which list that producer is in.
FirstFree(s, t) ==
    LET b == Data[t].from
        own == {r \in ToSet(Data[t].req) : IsAddon(r) /\ Data[r].from = b}
        lists == IF IsAddon(t) THEN {b} ELSE IF own /= {} THEN own
                 ELSE {b} \cup {x \in Units : IsAddon(x) /\ Data[x].from = b}
        free == {l \in lists : s.slots[l] /= <<>>}
        best == {l \in free : \A k \in free : Head(s.slots[l]) <= Head(s.slots[k])}
    IN  IF b \in best THEN b ELSE CHOOSE l \in best : TRUE

\* do's min() finds a producer that is not there (a ValueError).
CanDo(s, t, f) == Pools(Advance(s, f), t) /= None => HasProducer(Pools(Advance(s, f), t))

Paid(s, t) == [s EXCEPT !.m = @ - Data[t].m, !.g = @ - Data[t].g]
Busied(s, t, until) ==
    CASE IsTech(t) -> BusyIn(s, "research", Reqs(t)[1], until)
      [] ~IsTech(t) /\ Pools(s, t) = None -> s
      [] OTHER -> BusyIn(s, "slots", FirstFree(s, t), until)
Counted(s, t) == [s EXCEPT !.used = @ + Data[t].need, !.started[t] = @ + 1]

\* A Terran builder is away until the building stands, a drone becomes it.
BuilderSent(s, t, back) ==
    CASE Data[t].from /= Worker \/ Race = "protoss" -> s
      [] Data[t].from = Worker /\ Race = "terran" ->
             Push([s EXCEPT !.mw = Most(0, @ - 1)], back, "builder", t)
      [] OTHER -> [s EXCEPT !.mw = Most(0, @ - 1), !.used = @ - Data[Worker].need]

\* Its completion is to come; s has paid for it and a producer is busy with it.
Coming(s, t, f) ==
    LET end == f + Data[t].time
    IN  CASE IsTech(t) -> Push([s EXCEPT !.techs = @ \cup {t}], end, "tech", t)
          [] IsPlaced(t) -> Push([BuilderSent(Counted(s, t), t, end + Travel) EXCEPT !.builder = f + BuilderGap],
                                 end + Travel, "unit", t)
          [] OTHER -> Push(Counted(s, t), end, "unit", t)
Do(s, t, f) == Coming(Busied(Paid(Advance(s, f), t), t, f + Data[t].time), t, f)

Finish(s) == Max({s.frame} \cup {e.at : e \in ToSet(s.events)})
----------------------------------------------------------------------------
(* The simulated state of a live game: a sequence of units, each with its    *)
(* type, the frames until it is complete, the unit it trains and the frames  *)
(* that takes, and what it does (`job`).                                     *)

\* How many there are, and the frames they are busy for.
SeeUnit(s, u) ==
    LET t == u.type
        making == u.left = 0 /\ u.trains /= None
        busy == s.frame + (IF u.trains /= None THEN u.trainLeft ELSE 0)
        seen == [s EXCEPT !.started[t] = @ + 1]
        done == [seen EXCEPT
                    !.done[t] = @ + 1,
                    !.gw = @ + (IF t = Worker /\ u.job = "gas" THEN 1 ELSE 0),
                    !.mw = @ + (IF t = Worker /\ u.job \notin {"gas", "constructs"} THEN 1 ELSE 0),
                    !.slots[t] = IF IsAddon(t) THEN Sorted(Append(@, s.frame))
                                 ELSE IF IsPlaced(t) THEN Sorted(Append(@, busy)) ELSE @,
                    !.research[t] = IF IsBuilding(t) THEN Sorted(Append(@, s.frame + u.researchLeft)) ELSE @]
    IN  IF u.left > 0 THEN Push(seen, s.frame + u.left, "unit", t)
        ELSE IF making THEN Push([done EXCEPT !.started[u.trains] = @ + 1],
                                 s.frame + Most(1, u.trainLeft), "unit", u.trains)
        ELSE done

\* A parent that carries an addon produces from the addon's list.
Carrying(slots, a) ==
    LET b == Data[a].from
        n == Least(Len(slots[b]), Len(slots[a]))
        busiest == SubSeq(slots[b], Len(slots[b]) - n + 1, Len(slots[b]))
    IN  [slots EXCEPT ![b] = SubSeq(@, 1, Len(@) - n),
                      ![a] = Sorted(busiest \o SubSeq(@, n + 1, Len(@)))]

FromGame(game) ==
    LET blank == [frame |-> game.frame, m |-> game.m, g |-> game.g, mw |-> 0, gw |-> 0,
                  used |-> game.used, total |-> game.total,
                  done |-> [t \in Units |-> 0], started |-> [t \in Units |-> 0],
                  slots |-> [t \in Units |-> <<>>], research |-> [t \in Units |-> <<>>],
                  techs |-> game.techs, events |-> <<>>, builder |-> 0, patches |-> 0]
        seen == FoldLeft(SeeUnit, blank, game.units)
        depots == {i \in DOMAIN game.units : Data[game.units[i].type].hall /\ game.units[i].left = 0}
    IN  [seen EXCEPT !.slots = FoldLeft(Carrying, @, SetToSeq({t \in Units : IsAddon(t)})),
                     !.patches = Most(Patches, Patches * Cardinality(depots))]
============================================================================
