--------------------------- MODULE HarnessProofs ----------------------------
(***************************************************************************)
(* The harnesses.  Self-play, for any number of matches, slots, frames and *)
(* faults: the pool of slots, who plays whose game, and the verdict.       *)
(*                                                                         *)
(* A match is stopped before it gives its slot back, and nothing of it     *)
(* that could still be reached lives on: so the one game on the ports of a *)
(* slot is the match's own.  From that it follows who is out of whose      *)
(* game, and that a result file which tells of a defeat before the limit   *)
(* tells of a real one.                                                    *)
(*                                                                         *)
(* Games against published bots, for any number of games, slots and        *)
(* faults, on Windows and under Wine: one game at a time launches, so what *)
(* is new to it is its own and InstallPath is its folder, and each game    *)
(* stops what it started before its slot is free.                          *)
(***************************************************************************)
EXTENDS Harness, FiniteSetTheorems, TLAPS

-----------------------------------------------------------------------------
(* The inductive invariant                                                 *)

\* What Match._result returns.
Reasons == {"crash", "crash_a", "crash_b", "elimination", "draw", "score", "timeout"}
Rows    == [winner : Sides \cup {None}, reason : Reasons]
RowsOK  == row \in [Matches -> Rows \cup {None}]

\* A slot is in the pool once, and a match that runs has one.
Distinct ==
    /\ \A i, j \in DOMAIN free : free[i] = free[j] => i = j
    /\ \A m \in Running : slot[m] \in Slots

\* What can still be reached of a match is the business of a thread that has not
\* stopped it yet, and nothing is known of a match before it starts.
Stopped == \A m \in Matches, s \in Sides :
    /\ Live(brain[m][s]) => stage[m] \in {"watch", "stop"}
    /\ Up(launcher[m][s]) => stage[m] \in {"watch", "stop", "wait"}
    /\ brain[m][s] = "exited" => stage[m] # "queued"

\* A brain in a game is in its own, any other in none.
Linked == \A m \in Matches, s \in Sides :
    peer[m][s] = IF brain[m][s] = "game" THEN m ELSE None

\* Who is out of a game has lost it, or has left it at the limit.
Left == \A m \in Matches, s \in Sides :
    /\ seen[m][s] = MaxFrames => s \in out[m]
    /\ s \in out[m] => seen[m][s] = MaxFrames \/ beaten[m] = s

\* A result file tells how its brain's game was when it ended.
Written == \A m \in Matches, s \in Sides :
    file[m][s] \notin {NoFile, Torn} =>
        /\ brain[m][s] = "exited"
        /\ file[m][s].frame = seen[m][s]
        /\ ~file[m][s].won => s \in out[m]

PoolOK == Distinct /\ SlotsExclusive
GameOK == Stopped /\ Linked /\ Left /\ Written
IInv == TypeOK /\ RowsOK /\ PoolOK /\ GameOK /\ VerdictTrue

-----------------------------------------------------------------------------
(* The pool                                                                *)

\* There are finitely many matches, so the running ones can be counted.
LEMMA MatchesFinite == IsFiniteSet(Matches)
  BY CountsAssumption, FS_Interval DEF Matches

\* A thread that starts a match finds a slot, which nobody else has.
LEMMA PoolTake ==
    ASSUME NEW sq \in Seq(Slots), Len(sq) > 0,
           \A i, j \in DOMAIN sq : sq[i] = sq[j] => i = j
    PROVE  /\ Last(sq) \in Slots /\ Front(sq) \in Seq(Slots)
           /\ Len(Front(sq)) = Len(sq) - 1
           /\ \A i, j \in DOMAIN Front(sq) : Front(sq)[i] = Front(sq)[j] => i = j
           /\ Last(sq) \in Range(sq) /\ Last(sq) \notin Range(Front(sq))
           /\ Range(Front(sq)) \subseteq Range(sq)
<1>1. DOMAIN sq = 1..Len(sq) /\ Len(sq) \in Nat
  OBVIOUS
<1>2. Last(sq) = sq[Len(sq)] /\ Last(sq) \in Slots
  BY <1>1 DEF Last
<1>3. /\ Front(sq) \in Seq(Slots) /\ Len(Front(sq)) = Len(sq) - 1
      /\ \A i \in 1..(Len(sq) - 1) : Front(sq)[i] = sq[i]
  BY <1>1 DEF Front
<1>4. DOMAIN Front(sq) = 1..(Len(sq) - 1)
  BY <1>3, <1>1
<1>. QED  BY <1>1, <1>2, <1>3, <1>4 DEF Range

\* And it gives it back once.
LEMMA PoolGive ==
    ASSUME NEW sq \in Seq(Slots), NEW x \in Slots, x \notin Range(sq),
           \A i, j \in DOMAIN sq : sq[i] = sq[j] => i = j
    PROVE  /\ Append(sq, x) \in Seq(Slots) /\ Len(Append(sq, x)) = Len(sq) + 1
           /\ \A i, j \in DOMAIN Append(sq, x) : Append(sq, x)[i] = Append(sq, x)[j] => i = j
           /\ Range(Append(sq, x)) = Range(sq) \cup {x}
<1>1. DOMAIN sq = 1..Len(sq) /\ Len(sq) \in Nat
  OBVIOUS
<1>2. /\ Append(sq, x) \in Seq(Slots) /\ Len(Append(sq, x)) = Len(sq) + 1
      /\ \A i \in 1..Len(sq) : Append(sq, x)[i] = sq[i]
      /\ Append(sq, x)[Len(sq) + 1] = x
  BY <1>1
<1>3. DOMAIN Append(sq, x) = 1..(Len(sq) + 1)
  BY <1>1, <1>2
<1>4. \A i \in 1..(Len(sq) + 1) : i = Len(sq) + 1 \/ i \in 1..Len(sq)
  BY <1>1
<1>5. \A i \in 1..Len(sq) : sq[i] # x
  BY <1>1 DEF Range
<1>6. Range(Append(sq, x)) = Range(sq) \cup {x}
  BY <1>1, <1>2, <1>3, <1>4 DEF Range
<1>. QED  BY <1>1, <1>2, <1>3, <1>4, <1>5, <1>6

\* A match that runs on keeps the pool as it is.
LEMMA SameRunning ==
    ASSUME NEW m \in Matches, TypeOK, stage[m] \in {"watch", "stop", "wait", "judge"},
           NEW to \in {"watch", "stop", "wait", "judge"}, stage' = [stage EXCEPT ![m] = to]
    PROVE  Running' = Running
  BY DEF Running, TypeOK

\* play takes a slot for a match, and the pool is one shorter.
LEMMA StartsPool ==
    ASSUME NEW m \in Matches, TypeOK, PoolOK, Start(m)
    PROVE  PoolOK' /\ free' \in Seq(Slots) /\ slot'[m] \in Slots
<1>1. /\ free \in Seq(Slots) /\ Len(free) \in Nat
      /\ stage \in [Matches -> {"queued", "watch", "stop", "wait", "judge", "done", "lost"}]
      /\ slot \in [Matches -> Slots \cup {None}]
  BY DEF TypeOK
<1>2. /\ stage[m] = "queued" /\ stage' = [stage EXCEPT ![m] = "watch"]
      /\ slot' = [slot EXCEPT ![m] = Last(free)] /\ free' = Front(free)
      /\ Cardinality(Running) < NSlots
  BY DEF Start, Taken
<1>3. Running' = Running \cup {m} /\ m \notin Running
  BY <1>1, <1>2 DEF Running
<1>4. /\ IsFiniteSet(Running) /\ Cardinality(Running) \in Nat
      /\ Cardinality(Running') = Cardinality(Running) + 1
  <2>1. IsFiniteSet(Running)
    BY MatchesFinite, FS_Subset DEF Running
  <2>. QED  BY <2>1, <1>3, FS_AddElement, FS_CardinalityType
<1>5. Len(free) + Cardinality(Running) = NSlots /\ NSlots \in Nat
  BY CountsAssumption DEF PoolOK, SlotsExclusive
<1>6. Len(free) > 0
  BY <1>1, <1>2, <1>4, <1>5
<1>7. /\ Last(free) \in Slots /\ Front(free) \in Seq(Slots)
      /\ Len(Front(free)) = Len(free) - 1
      /\ \A i, j \in DOMAIN Front(free) : Front(free)[i] = Front(free)[j] => i = j
      /\ Last(free) \in Range(free) /\ Last(free) \notin Range(Front(free))
      /\ Range(Front(free)) \subseteq Range(free)
  BY <1>1, <1>6, PoolTake DEF PoolOK, Distinct
<1>8. Len(free') + Cardinality(Running') = NSlots
  BY <1>1, <1>2, <1>4, <1>5, <1>7
<1>9. slot'[m] = Last(free) /\ \A k \in Running : slot'[k] = slot[k] /\ k # m
  BY <1>1, <1>2, <1>3 DEF Running
<1>10. \A k \in Running : slot[k] \notin Range(free) /\ slot[k] \in Slots
  BY DEF PoolOK, SlotsExclusive, Distinct
<1>11. \A k, l \in Running' :
         slot'[k] \in Slots /\ (slot'[k] = slot'[l] => k = l /\ slot'[k] \notin Range(free'))
  BY <1>2, <1>3, <1>7, <1>9, <1>10 DEF PoolOK, SlotsExclusive
<1>. QED  BY <1>2, <1>7, <1>8, <1>9, <1>11 DEF PoolOK, Distinct, SlotsExclusive

\* play gives the slot back, and the pool is one longer, whether a row came of the
\* match or not.
LEMMA FinishesPool ==
    ASSUME NEW m \in Matches, TypeOK, PoolOK, Finish(m)
    PROVE  PoolOK' /\ free' \in Seq(Slots)
<1>1. /\ free \in Seq(Slots) /\ Len(free) \in Nat
      /\ stage \in [Matches -> {"queued", "watch", "stop", "wait", "judge", "done", "lost"}]
  BY DEF TypeOK
<1>2. /\ stage[m] = "judge" /\ slot' = slot /\ free' = Append(free, slot[m])
      /\ stage' = [stage EXCEPT ![m] = "done"] \/ stage' = [stage EXCEPT ![m] = "lost"]
  BY DEF Finish, Returned
<1>3. Running' = Running \ {m} /\ m \in Running
  BY <1>1, <1>2 DEF Running
<1>4. /\ Cardinality(Running) \in Nat /\ Cardinality(Running') = Cardinality(Running) - 1
  <2>1. IsFiniteSet(Running)
    BY MatchesFinite, FS_Subset DEF Running
  <2>. QED  BY <2>1, <1>3, FS_RemoveElement, FS_CardinalityType
<1>5. Len(free) + Cardinality(Running) = NSlots /\ NSlots \in Nat
  BY CountsAssumption DEF PoolOK, SlotsExclusive
<1>6. slot[m] \in Slots /\ slot[m] \notin Range(free)
  BY <1>3 DEF PoolOK, Distinct, SlotsExclusive
<1>7. /\ free' \in Seq(Slots) /\ Len(free') = Len(free) + 1
      /\ \A i, j \in DOMAIN free' : free'[i] = free'[j] => i = j
      /\ Range(free') = Range(free) \cup {slot[m]}
  BY <1>1, <1>2, <1>6, PoolGive DEF PoolOK, Distinct
<1>8. Len(free') + Cardinality(Running') = NSlots
  BY <1>1, <1>4, <1>5, <1>7
<1>9. \A k, l \in Running' :
         slot'[k] \in Slots /\ (slot'[k] = slot'[l] => k = l /\ slot'[k] \notin Range(free'))
  BY <1>2, <1>3, <1>7 DEF PoolOK, Distinct, SlotsExclusive
<1>. QED  BY <1>7, <1>8, <1>9 DEF PoolOK, Distinct, SlotsExclusive

\* No pool holds more slots than it was made with.
LEMMA PoolBound ==
    ASSUME NEW sq \in Seq(Slots), NEW R \in SUBSET Matches, Len(sq) + Cardinality(R) = NSlots
    PROVE  Len(sq) <= NSlots
<1>1. IsFiniteSet(R)
  BY MatchesFinite, FS_Subset
<1>2. Cardinality(R) \in Nat
  BY <1>1, FS_CardinalityType
<1>. QED  BY <1>2, CountsAssumption

-----------------------------------------------------------------------------
(* The initial state                                                       *)

\* A run starts with every slot in the pool and no match started.
LEMMA StartsWell == Init => IInv
<1>. SUFFICES ASSUME Init PROVE IInv
  OBVIOUS
<1>1. free = [i \in Slots |-> i] /\ NSlots \in Nat
  BY CountsAssumption DEF Init
<1>2. free \in Seq(Slots) /\ Len(free) = NSlots /\ DOMAIN free = Slots
  BY <1>1 DEF Slots
<1>3. TypeOK
  <2>1. None \notin Sides /\ 0 \in 0..MaxFrames /\ 0 \in 0..MaxFaults
    BY CountsAssumption, NoneAssumption
  <2>. QED  BY <1>2, <2>1, CountsAssumption DEF Init, TypeOK, Both
<1>4. Running = {}
  BY DEF Init, Running
<1>5. PoolOK
  <2>1. Cardinality(Running) = 0
    BY <1>4, FS_EmptySet
  <2>2. \A i, j \in DOMAIN free : free[i] = free[j] => i = j
    BY <1>1
  <2>. QED  BY <1>1, <1>2, <1>4, <2>1, <2>2 DEF PoolOK, Distinct, SlotsExclusive
<1>6. Stopped /\ Linked
  BY DEF Init, Stopped, Linked, Both, Live, Up
<1>7. Left /\ Written
  BY CountsAssumption DEF Init, Left, Written, Both
<1>8. RowsOK /\ VerdictTrue
  BY DEF Init, RowsOK, VerdictTrue
<1>. QED  BY <1>3, <1>5, <1>6, <1>7, <1>8 DEF IInv, GameOK

-----------------------------------------------------------------------------
(* The game and the brains                                                 *)

\* The game's half of TypeOK, which is what its steps can disturb.
GameTypes ==
    /\ launcher \in [Matches -> [Sides -> {"none", "lobby", "playing", "over", "dying", "gone"}]]
    /\ brain \in [Matches -> [Sides ->
          {"none", "connecting", "game", "ended", "writing", "exited", "dead"}]]
    /\ peer \in [Matches -> [Sides -> Matches \cup {None}]]
    /\ seen \in [Matches -> [Sides -> 0..MaxFrames]]
    /\ out \in [Matches -> SUBSET Sides] /\ beaten \in [Matches -> Sides \cup {None}]
    /\ file \in [Matches -> [Sides -> Result \cup {NoFile, Torn}]]

\* The only match whose launcher a brain can reach on its port is its own: the
\* others on the slot have been stopped (Match._stop), or have not started.
LEMMA ReachesItsOwn ==
    ASSUME IInv, NEW m \in Matches, NEW s \in Sides, NEW k \in Matches,
           brain[m][s] = "connecting", slot[k] = slot[m], Listens(k, s)
    PROVE  k = m
<1>1. stage[m] \in {"watch", "stop"}
  BY DEF IInv, GameOK, Stopped, Live
<1>2. stage[k] \in {"watch", "stop", "wait"}
  BY DEF IInv, GameOK, Stopped, Up, Listens
<1>3. m \in Running /\ k \in Running
  BY <1>1, <1>2 DEF Running
<1>. QED  BY <1>3 DEF IInv, PoolOK, SlotsExclusive

\* A result file says "not won" only of a side that is out of its game.
LEMMA FileTells ==
    ASSUME NEW f, NEW s, NEW gone, NEW n, NEW t,
           f = [state |-> "ok", won |-> s \notin gone, frame |-> n, total |-> t]
    PROVE  f.frame = n /\ (~f.won => s \in gone)
  OBVIOUS

\* A step of the game, of a brain, or of a fault keeps the game's invariant.
LEMMA GameSteps ==
    ASSUME IInv, UNCHANGED pool, Plays \/ Fault
    PROVE  GameTypes' /\ GameOK'
<1>0. /\ GameTypes /\ Stopped /\ Linked /\ Left /\ Written
      /\ stage' = stage /\ slot' = slot
  BY DEF IInv, GameOK, TypeOK, GameTypes, pool
<1>1. ASSUME NEW m \in Matches, GameStarts(m) PROVE GameTypes' /\ GameOK'
  <2>1. GameTypes'
    BY <1>0, <1>1 DEF GameStarts, GameTypes, Both
  <2>2. Stopped'
    BY <1>0, <1>1 DEF GameStarts, GameTypes, Both, Stopped, Up
  <2>. QED  BY <2>1, <2>2, <1>0, <1>1 DEF GameStarts, GameOK, Linked, Left, Written
<1>2. ASSUME NEW m \in Matches, NEW s \in Sides, Connects(m, s) PROVE GameTypes' /\ GameOK'
  <2>1. peer' = [peer EXCEPT ![m][s] = m]
    BY <1>2, ReachesItsOwn DEF Connects
  <2>2. /\ brain[m][s] = "connecting" /\ brain' = [brain EXCEPT ![m][s] = "game"]
        /\ UNCHANGED <<launcher, seen, out, beaten, file>>
    BY <1>2 DEF Connects
  <2>3. GameTypes'
    BY <1>0, <2>1, <2>2 DEF GameTypes
  <2>4. Stopped'
    BY <1>0, <2>2 DEF GameTypes, Stopped, Live
  <2>5. Linked'
    BY <1>0, <2>1, <2>2 DEF GameTypes, Linked
  <2>6. Left' /\ Written'
    BY <1>0, <2>2 DEF GameTypes, Left, Written
  <2>. QED  BY <2>3, <2>4, <2>5, <2>6 DEF GameOK
<1>3. ASSUME NEW m \in Matches, NEW s \in Sides, Decides(m, s) PROVE GameTypes' /\ GameOK'
  <2>1. peer[m][s] = m /\ brain[m][s] = "game"
    BY <1>0, <1>3 DEF Decides, Linked
  <2>2. /\ s \notin out[m] /\ seen' = [seen EXCEPT ![m][s] = seen[m][s] + 1]
        /\ out' = IF seen[m][s] + 1 >= MaxFrames THEN [out EXCEPT ![m] = @ \cup {s}] ELSE out
        /\ UNCHANGED <<launcher, brain, peer, beaten, file>>
    BY <1>3, <2>1 DEF Decides
  <2>3. seen[m][s] \in 0..MaxFrames /\ seen[m][s] # MaxFrames /\ MaxFrames \in Nat
    BY <1>0, <2>2, CountsAssumption DEF GameTypes, Left
  <2>4. GameTypes'
    <3>1. seen[m][s] + 1 \in 0..MaxFrames
      BY <2>3
    <3>2. seen' \in [Matches -> [Sides -> 0..MaxFrames]]
      BY <1>0, <2>2, <3>1 DEF GameTypes
    <3>3. out' \in [Matches -> SUBSET Sides]
      BY <1>0, <2>2 DEF GameTypes
    <3>. QED  BY <1>0, <2>2, <3>2, <3>3 DEF GameTypes
  <2>5. Stopped' /\ Linked'
    BY <1>0, <2>2 DEF Stopped, Linked
  <2>6. Left'
    <3>1. \A k \in Matches, o \in Sides :
             seen'[k][o] = IF k = m /\ o = s THEN seen[m][s] + 1 ELSE seen[k][o]
      BY <1>0, <2>2 DEF GameTypes
    <3>2. CASE seen[m][s] + 1 >= MaxFrames
      <4>1. seen[m][s] + 1 = MaxFrames
        BY <2>3, <3>2
      <4>2. \A k \in Matches, o \in Sides :
              o \in out'[k] <=> (o \in out[k] \/ (k = m /\ o = s))
        BY <1>0, <2>2, <3>2 DEF GameTypes
      <4>. QED  BY <1>0, <2>2, <3>1, <4>1, <4>2 DEF Left
    <3>3. CASE ~(seen[m][s] + 1 >= MaxFrames)
      <4>1. seen[m][s] + 1 # MaxFrames /\ out' = out
        BY <2>2, <2>3, <3>3
      <4>. QED  BY <1>0, <2>2, <3>1, <4>1 DEF Left
    <3>. QED  BY <3>2, <3>3
  <2>7. Written'
    BY <1>0, <2>1, <2>2 DEF GameTypes, Written
  <2>. QED  BY <2>4, <2>5, <2>6, <2>7 DEF GameOK
<1>4. ASSUME NEW k \in Matches, NEW s \in Sides, Eliminated(k, s) \/ Dropped(k, s) PROVE GameTypes' /\ GameOK'
  <2>1. /\ out[k] = {} /\ out' = [out EXCEPT ![k] = {s}] /\ beaten' = [beaten EXCEPT ![k] = s]
        /\ UNCHANGED <<launcher, brain, peer, seen, file>>
    BY <1>4 DEF Eliminated, Dropped
  <2>2. GameTypes'
    BY <1>0, <2>1 DEF GameTypes
  <2>3. Stopped' /\ Linked'
    BY <1>0, <2>1 DEF Stopped, Linked
  <2>4. Left'
    BY <1>0, <2>1 DEF GameTypes, Left
  <2>5. Written'
    BY <1>0, <2>1 DEF GameTypes, Written
  <2>. QED  BY <2>2, <2>3, <2>4, <2>5 DEF GameOK
<1>5. ASSUME NEW k \in Matches, NEW s \in Sides, GameEnds(k, s) PROVE GameTypes' /\ GameOK'
  <2>. DEFINE of == {m \in Matches : peer[m][s] = k}
  <2>1. /\ launcher[k][s] = "playing" /\ launcher' = [launcher EXCEPT ![k][s] = "over"]
        /\ brain' = [m \in Matches |-> IF m \in of THEN [brain[m] EXCEPT ![s] = "ended"] ELSE brain[m]]
        /\ peer' = [m \in Matches |-> IF m \in of THEN [peer[m] EXCEPT ![s] = None] ELSE peer[m]]
        /\ UNCHANGED <<seen, out, beaten, file>>
    BY <1>5 DEF GameEnds
  <2>2. \A m \in of : brain[m][s] = "game"
    BY <1>0, NoneAssumption DEF Linked
  <2>3. GameTypes'
    BY <1>0, <2>1 DEF GameTypes
  <2>4. Stopped'
    BY <1>0, <2>1, <2>2 DEF GameTypes, Stopped, Live, Up
  <2>5. Linked'
    BY <1>0, <2>1, <2>2 DEF GameTypes, Linked
  <2>6. Left' /\ Written'
    BY <1>0, <2>1, <2>2 DEF GameTypes, Left, Written
  <2>. QED  BY <2>3, <2>4, <2>5, <2>6 DEF GameOK
<1>6. ASSUME NEW m \in Matches, NEW s \in Sides, WriteStarts(m, s) PROVE GameTypes' /\ GameOK'
  <2>1. /\ brain[m][s] = "ended" /\ brain' = [brain EXCEPT ![m][s] = "writing"]
        /\ file' = [file EXCEPT ![m][s] = Torn]
        /\ UNCHANGED <<launcher, peer, seen, out, beaten>>
    BY <1>6 DEF WriteStarts
  <2>2. GameTypes'
    BY <1>0, <2>1 DEF GameTypes
  <2>3. Stopped' /\ Linked'
    BY <1>0, <2>1 DEF GameTypes, Stopped, Linked, Live
  <2>4. Left' /\ Written'
    BY <1>0, <2>1 DEF GameTypes, Left, Written
  <2>. QED  BY <2>2, <2>3, <2>4 DEF GameOK
<1>7. ASSUME NEW m \in Matches, NEW s \in Sides, WriteEnds(m, s) PROVE GameTypes' /\ GameOK'
  <2>1. PICK t \in Totals : file' = [file EXCEPT ![m][s] =
          [state |-> "ok", won |-> s \notin out[m], frame |-> seen[m][s], total |-> t]]
    BY <1>7 DEF WriteEnds
  <2>2. /\ brain[m][s] = "writing" /\ brain' = [brain EXCEPT ![m][s] = "exited"]
        /\ UNCHANGED <<launcher, peer, seen, out, beaten>>
    BY <1>7 DEF WriteEnds
  <2>3. [state |-> "ok", won |-> s \notin out[m], frame |-> seen[m][s], total |-> t] \in Result
    <3>1. seen[m][s] \in 0..MaxFrames /\ (s \notin out[m]) \in BOOLEAN
      BY <1>0 DEF GameTypes
    <3>. QED  BY <3>1 DEF Result
  <2>4. GameTypes'
    BY <1>0, <2>1, <2>2, <2>3 DEF GameTypes
  <2>5. Stopped' /\ Linked'
    BY <1>0, <2>2 DEF GameTypes, Stopped, Linked, Live
  <2>6. Left'
    BY <1>0, <2>2 DEF Left
  <2>7. Written'
    <3>1. file'[m][s] = [state |-> "ok", won |-> s \notin out[m], frame |-> seen[m][s], total |-> t]
      BY <1>0, <2>1 DEF GameTypes
    <3>2. brain'[m][s] = "exited" /\ file'[m][s].frame = seen[m][s] /\ (~file'[m][s].won => s \in out[m])
      <4>1. brain'[m][s] = "exited"
        BY <1>0, <2>2 DEF GameTypes
      <4>. QED  BY <4>1, <3>1, FileTells
    <3>3. \A k \in Matches, o \in Sides : ~(k = m /\ o = s) =>
             brain'[k][o] = brain[k][o] /\ file'[k][o] = file[k][o]
      BY <1>0, <2>1, <2>2 DEF GameTypes
    <3>4. ASSUME NEW k \in Matches, NEW o \in Sides, file'[k][o] \notin {NoFile, Torn}
          PROVE  /\ brain'[k][o] = "exited" /\ file'[k][o].frame = seen'[k][o]
                 /\ ~file'[k][o].won => o \in out'[k]
      <4>1. CASE k = m /\ o = s
        BY <2>2, <3>2, <4>1
      <4>2. CASE ~(k = m /\ o = s)
        BY <1>0, <2>2, <3>3, <3>4, <4>2 DEF Written
      <4>. QED  BY <4>1, <4>2
    <3>. QED  BY <3>4 DEF Written, NoFile, Torn
  <2>. QED  BY <2>4, <2>5, <2>6, <2>7 DEF GameOK
<1>8. ASSUME NEW m \in Matches, NEW s \in Sides, Vanishes(m, s) PROVE GameTypes' /\ GameOK'
  <2>1. GameTypes'
    BY <1>0, <1>8 DEF GameTypes, Vanishes
  <2>2. Stopped'
    BY <1>0, <1>8 DEF GameTypes, Vanishes, Stopped, Up
  <2>3. Linked' /\ Left' /\ Written'
    BY <1>0, <1>8 DEF Vanishes, Linked, Left, Written
  <2>. QED  BY <2>1, <2>2, <2>3 DEF GameOK
<1>9. ASSUME NEW m \in Matches, NEW s \in Sides, BrainDies(m, s) \/ LinkBreaks(m, s) PROVE GameTypes' /\ GameOK'
  <2>1. /\ brain[m][s] \in {"connecting", "game", "ended"} /\ peer' = [peer EXCEPT ![m][s] = None]
        /\ \/ brain' = [brain EXCEPT ![m][s] = "dead"]
           \/ brain' = [brain EXCEPT ![m][s] = "connecting"]
        /\ UNCHANGED <<launcher, seen, out, beaten, file>>
    BY <1>9 DEF BrainDies, LinkBreaks
  <2>2. GameTypes'
    <3>1. peer' \in [Matches -> [Sides -> Matches \cup {None}]]
      BY <1>0, <2>1 DEF GameTypes
    <3>2. CASE brain' = [brain EXCEPT ![m][s] = "dead"]
      BY <1>0, <2>1, <3>1, <3>2 DEF GameTypes
    <3>3. CASE brain' = [brain EXCEPT ![m][s] = "connecting"]
      BY <1>0, <2>1, <3>1, <3>3 DEF GameTypes
    <3>. QED  BY <2>1, <3>2, <3>3
  <2>3. Stopped'
    BY <1>0, <2>1 DEF GameTypes, Stopped, Live
  <2>4. Linked'
    BY <1>0, <2>1 DEF GameTypes, Linked
  <2>5. Left'
    BY <1>0, <2>1 DEF Left
  <2>6. \A k \in Matches, o \in Sides : brain[k][o] = "exited" => brain'[k][o] = "exited"
    BY <1>0, <2>1 DEF GameTypes
  <2>7. Written'
    BY <1>0, <2>1, <2>6 DEF Written
  <2>. QED  BY <2>2, <2>3, <2>4, <2>5, <2>7 DEF GameOK
<1>10. ASSUME NEW k \in Matches, NEW s \in Sides, LauncherDies(k, s) PROVE GameTypes' /\ GameOK'
  <2>1. /\ launcher' = [launcher EXCEPT ![k][s] = "gone"]
        /\ peer' = [m \in Matches |-> IF peer[m][s] = k THEN [peer[m] EXCEPT ![s] = None] ELSE peer[m]]
        /\ brain' = [m \in Matches |-> IF peer[m][s] = k /\ brain[m][s] = "game"
                                       THEN [brain[m] EXCEPT ![s] = "connecting"] ELSE brain[m]]
        /\ UNCHANGED <<seen, out, beaten, file>>
    BY <1>10 DEF LauncherDies, Unlinked, Searching
  <2>2. \A m \in Matches : peer[m][s] = k => brain[m][s] = "game"
    BY <1>0, NoneAssumption DEF Linked
  <2>3. GameTypes'
    <3>1. launcher' \in [Matches -> [Sides -> {"none", "lobby", "playing", "over", "dying", "gone"}]]
      BY <1>0, <2>1 DEF GameTypes
    <3>2. peer' \in [Matches -> [Sides -> Matches \cup {None}]]
      BY <1>0, <2>1 DEF GameTypes
    <3>3. brain' \in [Matches -> [Sides ->
             {"none", "connecting", "game", "ended", "writing", "exited", "dead"}]]
      BY <1>0, <2>1 DEF GameTypes
    <3>. QED  BY <1>0, <2>1, <3>1, <3>2, <3>3 DEF GameTypes
  <2>4. Stopped'
    BY <1>0, <2>1 DEF GameTypes, Stopped, Live, Up
  <2>5. Linked'
    BY <1>0, <2>1, <2>2 DEF GameTypes, Linked
  <2>6. Left'
    BY <1>0, <2>1 DEF Left
  <2>7. \A m \in Matches, o \in Sides : brain[m][o] = "exited" => brain'[m][o] = "exited"
    BY <1>0, <2>1 DEF GameTypes
  <2>8. Written'
    BY <1>0, <2>1, <2>7 DEF Written
  <2>. QED  BY <2>3, <2>4, <2>5, <2>6, <2>8 DEF GameOK
<1>. QED  BY <1>1, <1>2, <1>3, <1>4, <1>5, <1>6, <1>7, <1>8, <1>9, <1>10 DEF Plays, Fault

\* The verdict of a match that is over stands: only a game that is played has a
\* loser.
LEMMA VerdictsStand ==
    ASSUME IInv, UNCHANGED pool, Plays \/ Fault
    PROVE  VerdictTrue'
<1>1. \A k \in Matches : stage[k] = "done" => beaten'[k] = beaten[k]
  <2>1. ASSUME NEW k \in Matches, NEW s \in Sides, Eliminated(k, s) \/ Dropped(k, s)
        PROVE  stage[k] # "done" /\ beaten' = [beaten EXCEPT ![k] = s]
    <3>1. \E o \in Sides : launcher[k][o] = "playing"
      <4>1. "a" \in Sides /\ "b" \in Sides /\ Other(s) \in Sides
        BY DEF Sides, Other
      <4>2. CASE Eliminated(k, s)
        BY <4>1, <4>2 DEF Eliminated, Both
      <4>3. CASE Dropped(k, s)
        BY <4>1, <4>3 DEF Dropped
      <4>. QED  BY <2>1, <4>2, <4>3
    <3>. QED  BY <2>1, <3>1 DEF IInv, GameOK, Stopped, Up, Eliminated, Dropped
  <2>2. ASSUME NEW k \in Matches, NEW s \in Sides, Eliminated(k, s) \/ Dropped(k, s)
        PROVE  \A j \in Matches : stage[j] = "done" => beaten'[j] = beaten[j]
    BY <2>1, <2>2 DEF IInv, TypeOK
  <2>3. (\E k \in Matches, s \in Sides : Eliminated(k, s) \/ Dropped(k, s)) \/ beaten' = beaten
    BY DEF Plays, Fault, GameStarts, Connects, Decides, WriteStarts, WriteEnds, GameEnds,
           Vanishes, BrainDies, LinkBreaks, LauncherDies
  <2>. QED  BY <2>2, <2>3
<1>. QED  BY <1>1 DEF IInv, VerdictTrue, pool

-----------------------------------------------------------------------------
(* The verdict                                                             *)

\* Two results make a verdict; an elimination has one winner, before the limit.
LEMMA JudgesTwo ==
    ASSUME NEW ra \in Result, NEW rb \in Result
    PROVE  /\ Judged(ra, rb) \in Rows
           /\ Judged(ra, rb).reason = "elimination" =>
                /\ BeforeLimit(Higher(ra.frame, rb.frame))
                /\ \/ Judged(ra, rb).winner = "a" /\ ~rb.won
                   \/ Judged(ra, rb).winner = "b" /\ ~ra.won
<1>1. ASSUME NEW w \in Sides \cup {None}, NEW r \in Reasons
      PROVE  Verdict(w, r) \in Rows /\ Verdict(w, r).winner = w /\ Verdict(w, r).reason = r
  BY DEF Verdict, Rows
<1>2. /\ "a" \in Sides \cup {None} /\ "b" \in Sides \cup {None} /\ None \in Sides \cup {None}
      /\ "elimination" \in Reasons /\ "draw" \in Reasons /\ "score" \in Reasons
  BY DEF Sides, Reasons
<1>3. CASE BeforeLimit(Higher(ra.frame, rb.frame)) /\ ra.won # rb.won
  <2>1. ra.won \in BOOLEAN /\ rb.won \in BOOLEAN
    BY DEF Result
  <2>2. CASE ra.won
    <3>1. Judged(ra, rb) = Verdict("a", "elimination") /\ ~rb.won
      BY <1>3, <2>1, <2>2 DEF Judged
    <3>. QED  BY <1>1, <1>2, <1>3, <3>1
  <2>3. CASE ~ra.won
    <3>1. Judged(ra, rb) = Verdict("b", "elimination")
      BY <1>3, <2>3 DEF Judged
    <3>. QED  BY <1>1, <1>2, <1>3, <2>3, <3>1
  <2>. QED  BY <2>2, <2>3
<1>4. CASE ~(BeforeLimit(Higher(ra.frame, rb.frame)) /\ ra.won # rb.won)
  <2>1. Judged(ra, rb) = IF ra.total = rb.total THEN Verdict(None, "draw")
                         ELSE Verdict(IF ra.total > rb.total THEN "a" ELSE "b", "score")
    BY <1>4, Zenon DEF Judged
  <2>2. CASE ra.total = rb.total
    BY <1>1, <1>2, <2>1, <2>2
  <2>3. CASE ra.total # rb.total
    <3>. DEFINE w == IF ra.total > rb.total THEN "a" ELSE "b"
    <3>1. w \in Sides \cup {None} /\ Judged(ra, rb) = Verdict(w, "score")
      BY <1>2, <2>1, <2>3
    <3>. HIDE DEF w
    <3>. QED  BY <1>1, <1>2, <3>1
  <2>. QED  BY <2>2, <2>3
<1>. QED  BY <1>3, <1>4

\* So do files of which some are missing, but not an elimination.
LEMMA JudgesAll ==
    ASSUME NEW f, \A s \in Sides : f[s] \in Result \cup {NoFile}
    PROVE  /\ Judge(f) \in Rows
           /\ Judge(f).reason = "elimination" =>
                /\ f["a"] \in Result /\ f["b"] \in Result
                /\ BeforeLimit(Higher(f["a"].frame, f["b"].frame))
                /\ \/ Judge(f).winner = "a" /\ ~f["b"].won
                   \/ Judge(f).winner = "b" /\ ~f["a"].won
<1>. DEFINE missing == {s \in Sides : f[s] = NoFile}
<1>1. ASSUME NEW w \in Sides \cup {None}, NEW r \in {"crash", "crash_a", "crash_b"}
      PROVE  Verdict(w, r) \in Rows /\ Verdict(w, r).reason # "elimination"
  BY DEF Verdict, Rows, Reasons
<1>2. "a" \in Sides /\ "b" \in Sides /\ {"a"} # {"b"} /\ Sides # {"a"} /\ Sides # {"b"}
  BY DEF Sides
<1>3. CASE missing = Sides
  <2>1. Judge(f) = Verdict(None, "crash")
    BY <1>2, <1>3 DEF Judge
  <2>. QED  BY <1>1, <2>1
<1>4. CASE missing = {"a"}
  <2>1. Judge(f) = Verdict("b", "crash_a")
    BY <1>2, <1>4 DEF Judge
  <2>. QED  BY <1>1, <1>2, <2>1
<1>5. CASE missing = {"b"}
  <2>1. Judge(f) = Verdict("a", "crash_b")
    BY <1>2, <1>5 DEF Judge
  <2>. QED  BY <1>1, <1>2, <2>1
<1>6. CASE missing # Sides /\ missing # {"a"} /\ missing # {"b"}
  <2>1. Judge(f) = Judged(f["a"], f["b"])
    BY <1>6 DEF Judge
  <2>2. "a" \notin missing /\ "b" \notin missing
    BY <1>6 DEF Sides
  <2>3. f["a"] \in Result /\ f["b"] \in Result
    BY <1>2, <2>2
  <2>. QED  BY <2>1, <2>3, JudgesTwo
<1>. QED  BY <1>3, <1>4, <1>5, <1>6

-----------------------------------------------------------------------------
(* The threads of the pool                                                 *)

\* The pool's half of TypeOK.
PoolTypes ==
    /\ free \in Seq(Slots)
    /\ stage \in [Matches -> {"queued", "watch", "stop", "wait", "judge", "done", "lost"}]
    /\ slot \in [Matches -> Slots \cup {None}] /\ timedOut \in [Matches -> BOOLEAN]

\* A thread starts a match on a slot of its own.
LEMMA StartStep ==
    ASSUME IInv, NEW m \in Matches, Start(m)
    PROVE  GameTypes' /\ GameOK' /\ PoolTypes' /\ PoolOK' /\ RowsOK' /\ VerdictTrue'
<1>0. /\ TypeOK /\ GameTypes /\ PoolTypes /\ PoolOK /\ RowsOK /\ VerdictTrue
      /\ Stopped /\ Linked /\ Left /\ Written
  BY DEF IInv, GameOK, TypeOK, GameTypes, PoolTypes
<1>1. /\ stage[m] = "queued" /\ stage' = [stage EXCEPT ![m] = "watch"]
      /\ slot' = [slot EXCEPT ![m] = Last(free)] /\ free' = Front(free)
      /\ launcher' = [launcher EXCEPT ![m] = Both("lobby")]
      /\ brain' = [brain EXCEPT ![m] = Both("connecting")]
      /\ UNCHANGED <<timedOut, row, peer, seen, out, beaten, file>>
  BY DEF Start, Taken, Spawned
<1>2. PoolOK' /\ free' \in Seq(Slots) /\ slot'[m] \in Slots
  BY <1>0, StartsPool
<1>3. PoolTypes'
  <2>1. Last(free) \in Slots
    BY <1>0, <1>1, <1>2 DEF PoolTypes
  <2>. QED  BY <1>0, <1>1, <1>2, <2>1 DEF PoolTypes
<1>4. GameTypes'
  BY <1>0, <1>1 DEF GameTypes, Both
<1>5. \A s \in Sides : ~Live(brain[m][s]) /\ ~Up(launcher[m][s]) /\ brain[m][s] # "exited"
  BY <1>0, <1>1 DEF Stopped
<1>6. Stopped'
  BY <1>0, <1>1 DEF Stopped, GameTypes, PoolTypes, Both, Live, Up
<1>7. Linked'
  BY <1>0, <1>1, <1>5 DEF Linked, GameTypes, Both, Live
<1>8. Left' /\ Written'
  BY <1>0, <1>1, <1>5 DEF Left, Written, GameTypes
<1>9. RowsOK' /\ VerdictTrue'
  BY <1>0, <1>1 DEF RowsOK, VerdictTrue, PoolTypes
<1>. QED  BY <1>2, <1>3, <1>4, <1>6, <1>7, <1>8, <1>9 DEF GameOK

\* Between its start and its verdict a match keeps its slot, and _stop leaves
\* nothing of it that could be reached.
LEMMA StopSteps ==
    ASSUME IInv, NEW m \in Matches, Watched(m) \/ Terminate(m) \/ Kill(m)
    PROVE  GameTypes' /\ GameOK' /\ PoolTypes' /\ PoolOK' /\ RowsOK' /\ VerdictTrue'
<1>0. /\ TypeOK /\ GameTypes /\ PoolTypes /\ PoolOK /\ RowsOK /\ VerdictTrue
      /\ Stopped /\ Linked /\ Left /\ Written
  BY DEF IInv, GameOK, TypeOK, GameTypes, PoolTypes
<1>1. /\ UNCHANGED <<free, slot, row, seen, out, beaten, file>>
      /\ timedOut' \in [Matches -> BOOLEAN]
  BY <1>0 DEF PoolTypes, Watched, Terminate, Kill, game
<1>2. PICK to \in {"stop", "wait", "judge"} :
         stage' = [stage EXCEPT ![m] = to] /\ stage[m] \in {"watch", "stop", "wait"}
  BY DEF Watched, Terminate, Kill
<1>3. Running' = Running
  BY <1>0, <1>2, SameRunning
<1>4. PoolOK' /\ PoolTypes'
  BY <1>0, <1>1, <1>2, <1>3 DEF PoolOK, Distinct, SlotsExclusive, PoolTypes
<1>5. RowsOK' /\ VerdictTrue'
  BY <1>0, <1>1, <1>2 DEF RowsOK, VerdictTrue, PoolTypes
<1>6. Left'
  BY <1>0, <1>1 DEF Left
<1>7. CASE Watched(m)
  <2>1. /\ stage[m] = "watch" /\ stage' = [stage EXCEPT ![m] = "stop"]
        /\ UNCHANGED <<launcher, brain, peer>>
    BY <1>7 DEF Watched, game
  <2>. QED  BY <1>0, <1>1, <1>4, <1>5, <1>6, <2>1
            DEF GameTypes, PoolTypes, GameOK, Stopped, Linked, Written
<1>8. CASE Terminate(m)
  <2>1. /\ stage[m] = "stop" /\ stage' = [stage EXCEPT ![m] = "wait"]
        /\ brain' = [brain EXCEPT ![m] = [s \in Sides |-> IF Live(brain[m][s]) THEN "dead" ELSE brain[m][s]]]
        /\ peer' = [peer EXCEPT ![m] = Both(None)]
    BY <1>0, <1>8 DEF Terminate, GameTypes
  <2>2. PICK late \in SUBSET Sides : launcher' = [launcher EXCEPT ![m] =
             [s \in Sides |-> IF s \in late THEN launcher[m][s] ELSE "gone"]]
    BY <1>0, <1>8 DEF Terminate, GameTypes
  <2>3. \A k \in Matches, s \in Sides :
          brain'[k][s] = IF k = m /\ Live(brain[k][s]) THEN "dead" ELSE brain[k][s]
    BY <1>0, <2>1 DEF GameTypes
  <2>4. GameTypes'
    <3>1. launcher' \in [Matches -> [Sides -> {"none", "lobby", "playing", "over", "dying", "gone"}]]
      BY <1>0, <2>2 DEF GameTypes
    <3>2. brain' \in [Matches -> [Sides ->
             {"none", "connecting", "game", "ended", "writing", "exited", "dead"}]]
      BY <1>0, <2>1 DEF GameTypes
    <3>3. peer' \in [Matches -> [Sides -> Matches \cup {None}]]
      BY <1>0, <2>1 DEF GameTypes, Both
    <3>. QED  BY <1>0, <1>1, <3>1, <3>2, <3>3 DEF GameTypes
  <2>5. Stopped'
    <3>1. \A k \in Matches, s \in Sides : Live(brain'[k][s]) => k # m /\ Live(brain[k][s])
      BY <2>3 DEF Live
    <3>2. \A k \in Matches, s \in Sides : Up(launcher'[k][s]) => Up(launcher[k][s])
      BY <1>0, <2>2 DEF Up, GameTypes
    <3>3. \A k \in Matches, s \in Sides : brain'[k][s] = "exited" => brain[k][s] = "exited"
      BY <2>3
    <3>. QED  BY <1>0, <2>1, <3>1, <3>2, <3>3 DEF Stopped, PoolTypes
  <2>6. Linked'
    BY <1>0, <2>1, <2>3 DEF Linked, Live, Both, GameTypes
  <2>7. Written'
    BY <1>0, <1>1, <2>3 DEF Written, Live
  <2>. QED  BY <1>4, <1>5, <1>6, <2>4, <2>5, <2>6, <2>7 DEF GameOK
<1>9. CASE Kill(m)
  <2>1. /\ stage[m] = "wait" /\ stage' = [stage EXCEPT ![m] = "judge"]
        /\ launcher' = [launcher EXCEPT ![m] = Killed(m)] /\ UNCHANGED <<brain, peer>>
    BY <1>9 DEF Kill
  <2>2. \A s \in Sides : ~Live(brain[m][s])
    BY <1>0, <2>1 DEF Stopped
  <2>3. \A k \in Matches, s \in Sides :
          launcher'[k][s] = IF k = m /\ Up(launcher[k][s]) THEN "dying" ELSE launcher[k][s]
    BY <1>0, <2>1 DEF GameTypes, Killed
  <2>4. GameTypes'
    BY <1>0, <1>1, <2>1 DEF GameTypes, Killed
  <2>5. Stopped'
    <3>1. \A k \in Matches, s \in Sides : Up(launcher'[k][s]) => k # m /\ Up(launcher[k][s])
      BY <2>3 DEF Up
    <3>. QED  BY <1>0, <2>1, <2>2, <3>1 DEF Stopped, PoolTypes
  <2>. QED  BY <1>0, <1>1, <1>4, <1>5, <1>6, <2>1, <2>4, <2>5 DEF GameOK, Linked, Written
<1>. QED  BY <1>7, <1>8, <1>9

\* The row of a match names a winner only of a game that was won.
LEMMA RowIsTrue ==
    ASSUME IInv, NEW m \in Matches, \A s \in Sides : file[m][s] # Torn
    PROVE  RowOf(m) \in Rows /\ (RowOf(m).reason = "elimination" => beaten[m] = Other(RowOf(m).winner))
<1>. DEFINE f == file[m]
            v == Judge(f)
<1>1. \A s \in Sides : f[s] \in Result \cup {NoFile}
  BY DEF IInv, TypeOK
<1>2. /\ v \in Rows
      /\ v.reason = "elimination" =>
           /\ f["a"] \in Result /\ f["b"] \in Result
           /\ BeforeLimit(Higher(f["a"].frame, f["b"].frame))
           /\ \/ v.winner = "a" /\ ~f["b"].won
              \/ v.winner = "b" /\ ~f["a"].won
  <2>. HIDE DEF f
  <2>. QED  BY <1>1, JudgesAll
<1>3. RowOf(m) = v \/ RowOf(m) = [v EXCEPT !.reason = "timeout"]
  BY DEF RowOf
<1>4. RowOf(m) \in Rows /\ (RowOf(m).reason = "elimination" => RowOf(m) = v)
  <2>. HIDE DEF v
  <2>. QED  BY <1>2, <1>3 DEF Rows, Reasons
<1>5. ASSUME NEW s \in Sides, f["a"] \in Result, f["b"] \in Result,
             BeforeLimit(Higher(f["a"].frame, f["b"].frame)), ~f[s].won
      PROVE  beaten[m] = s
  <2>1. f[s] \in Result /\ f[s] \notin {NoFile, Torn}
    <3>1. f[s] \in Result
      BY <1>5 DEF Sides
    <3>2. \A r \in Result : r.state = "ok"
      BY DEF Result
    <3>3. NoFile.state # "ok" /\ Torn.state # "ok"
      BY DEF NoFile, Torn
    <3>. QED  BY <3>1, <3>2, <3>3
  <2>2. f[s].frame = seen[m][s] /\ s \in out[m]
    BY <1>5, <2>1 DEF IInv, GameOK, Written
  <2>3. f[s].frame < MaxFrames
    <3>1. /\ f["a"].frame \in Nat /\ f["b"].frame \in Nat /\ MaxFrames \in Nat /\ Margin \in Nat
          /\ f[s].frame = f["a"].frame \/ f[s].frame = f["b"].frame
      BY <1>5, CountsAssumption DEF Result, Sides
    <3>. HIDE DEF f
    <3>. QED  BY <1>5, <3>1 DEF BeforeLimit, Higher
  <2>4. seen[m][s] # MaxFrames
    BY <2>2, <2>3, CountsAssumption
  <2>. QED  BY <2>2, <2>4 DEF IInv, GameOK, Left
<1>6. Other("a") = "b" /\ Other("b") = "a" /\ "a" \in Sides /\ "b" \in Sides
  BY DEF Other, Sides
<1>7. v.reason = "elimination" => beaten[m] = Other(v.winner)
  BY <1>2, <1>5, <1>6
<1>. QED  BY <1>4, <1>7

\* A match that is over leaves nothing behind, and its row is true.
LEMMA FinishStep ==
    ASSUME IInv, NEW m \in Matches, Finish(m)
    PROVE  GameTypes' /\ GameOK' /\ PoolTypes' /\ PoolOK' /\ RowsOK' /\ VerdictTrue'
<1>0. /\ TypeOK /\ GameTypes /\ PoolTypes /\ PoolOK /\ RowsOK /\ VerdictTrue
      /\ Stopped /\ Linked /\ Left /\ Written
  BY DEF IInv, GameOK, TypeOK, GameTypes, PoolTypes
<1>1. /\ stage[m] = "judge"
      /\ \/ stage' = [stage EXCEPT ![m] = "lost"] /\ row' = row
         \/ /\ stage' = [stage EXCEPT ![m] = "done"] /\ row' = [row EXCEPT ![m] = RowOf(m)]
            /\ \A s \in Sides : file[m][s] # Torn
      /\ brain' = [brain EXCEPT ![m] = Both("none")]
      /\ seen' = [seen EXCEPT ![m] = Both(0)] /\ out' = [out EXCEPT ![m] = {}]
      /\ file' = [file EXCEPT ![m] = Both(NoFile)]
      /\ timedOut' = [timedOut EXCEPT ![m] = FALSE]
      /\ UNCHANGED <<slot, launcher, peer, beaten>>
  BY DEF Finish
<1>2. PoolOK' /\ free' \in Seq(Slots)
  BY <1>0, FinishesPool
<1>3. PoolTypes'
  BY <1>0, <1>1, <1>2 DEF PoolTypes
<1>4. GameTypes'
  <2>1. 0 \in 0..MaxFrames
    BY CountsAssumption
  <2>2. brain' \in [Matches -> [Sides ->
          {"none", "connecting", "game", "ended", "writing", "exited", "dead"}]]
    BY <1>0, <1>1 DEF GameTypes, Both
  <2>3. seen' \in [Matches -> [Sides -> 0..MaxFrames]]
    BY <1>0, <1>1, <2>1 DEF GameTypes, Both
  <2>4. file' \in [Matches -> [Sides -> Result \cup {NoFile, Torn}]]
    BY <1>0, <1>1 DEF GameTypes, Both
  <2>. QED  BY <1>0, <1>1, <2>2, <2>3, <2>4 DEF GameTypes
<1>5. \A s \in Sides : ~Live(brain[m][s]) /\ ~Up(launcher[m][s])
  BY <1>0, <1>1 DEF Stopped
<1>6. \A k \in Matches, s \in Sides :
         /\ brain'[k][s] = IF k = m THEN "none" ELSE brain[k][s]
         /\ seen'[k][s] = IF k = m THEN 0 ELSE seen[k][s]
         /\ file'[k][s] = IF k = m THEN NoFile ELSE file[k][s]
         /\ out'[k] = IF k = m THEN {} ELSE out[k]
  BY <1>0, <1>1 DEF GameTypes, Both
<1>7. Stopped'
  <2>1. \A k \in Matches : k # m => stage'[k] = stage[k]
    BY <1>0, <1>1 DEF PoolTypes
  <2>2. stage'[m] # "queued"
    BY <1>0, <1>1 DEF PoolTypes
  <2>. QED  BY <1>0, <1>1, <1>5, <1>6, <2>1, <2>2 DEF Stopped, Live
<1>8. Linked'
  BY <1>0, <1>1, <1>5, <1>6 DEF Linked, Live
<1>9. Left'
  BY <1>0, <1>1, <1>6, CountsAssumption DEF Left
<1>10. Written'
  BY <1>0, <1>6 DEF Written
<1>11. RowsOK' /\ VerdictTrue'
  <2>1. CASE row' = row /\ stage' = [stage EXCEPT ![m] = "lost"]
    BY <1>0, <1>1, <2>1 DEF RowsOK, VerdictTrue, PoolTypes
  <2>2. CASE /\ stage' = [stage EXCEPT ![m] = "done"] /\ row' = [row EXCEPT ![m] = RowOf(m)]
             /\ \A s \in Sides : file[m][s] # Torn
    <3>1. /\ RowOf(m) \in Rows
          /\ RowOf(m).reason = "elimination" => beaten[m] = Other(RowOf(m).winner)
      BY <2>2, RowIsTrue
    <3>2. RowsOK'
      BY <1>0, <2>2, <3>1 DEF RowsOK
    <3>3. VerdictTrue'
      BY <1>0, <1>1, <2>2, <3>1 DEF RowsOK, VerdictTrue, PoolTypes
    <3>. QED  BY <3>2, <3>3
  <2>. QED  BY <1>1, <2>1, <2>2
<1>. QED  BY <1>2, <1>3, <1>4, <1>7, <1>8, <1>9, <1>10, <1>11 DEF GameOK

-----------------------------------------------------------------------------
(* Every step                                                              *)

\* The invariant is inductive.
LEMMA StepsWell == IInv /\ [Next]_vars => IInv'
<1>. SUFFICES ASSUME IInv, [Next]_vars PROVE IInv'
  OBVIOUS
<1>0. /\ GameTypes /\ PoolTypes /\ GameOK /\ PoolOK /\ RowsOK /\ VerdictTrue
      /\ results \subseteq Matches /\ main \in {"collect", "raised", "reported"}
      /\ faults \in 0..MaxFaults
  BY DEF IInv, TypeOK, GameTypes, PoolTypes
<1>w. ASSUME GameTypes', PoolTypes', GameOK', PoolOK', RowsOK', VerdictTrue',
             results' \subseteq Matches, main' \in {"collect", "raised", "reported"},
             faults' \in 0..MaxFaults
      PROVE  IInv'
  <2>1. Running' \in SUBSET Matches
    BY DEF Running
  <2>2. Len(free') <= NSlots
    BY <1>w, <2>1, PoolBound DEF PoolOK, SlotsExclusive, PoolTypes
  <2>. QED  BY <1>w, <2>2 DEF IInv, TypeOK, GameTypes, PoolTypes
<1>1. ASSUME Plays \/ Fault, UNCHANGED <<pool, results, main>>,
             faults' = faults \/ (faults < MaxFaults /\ faults' = faults + 1)
      PROVE  IInv'
  <2>1. GameTypes' /\ GameOK' /\ VerdictTrue'
    BY <1>1, GameSteps, VerdictsStand
  <2>2. PoolTypes' /\ PoolOK' /\ RowsOK'
    BY <1>0, <1>1 DEF pool, PoolTypes, PoolOK, Distinct, SlotsExclusive, Running, RowsOK
  <2>3. faults' \in 0..MaxFaults
    BY <1>0, <1>1, CountsAssumption
  <2>. QED  BY <1>0, <1>1, <2>1, <2>2, <2>3, <1>w
<1>2. ASSUME Proceeds PROVE IInv'
  <2>1. PICK m \in Matches : Runs(m) /\ UNCHANGED <<results, main, faults>>
    BY <1>2 DEF Proceeds
  <2>2. GameTypes' /\ GameOK' /\ PoolTypes' /\ PoolOK' /\ RowsOK' /\ VerdictTrue'
    BY <2>1, StartStep, StopSteps, FinishStep DEF Runs
  <2>. QED  BY <1>0, <2>1, <2>2, <1>w
<1>3. ASSUME UNCHANGED <<game, pool, faults>>, results' \subseteq Matches,
             main' \in {"collect", "raised", "reported"}
      PROVE  IInv'
  <2>1. GameTypes' /\ PoolTypes' /\ RowsOK'
    BY <1>0, <1>3 DEF game, pool, GameTypes, PoolTypes, RowsOK
  <2>2. GameOK'
    BY <1>0, <1>3 DEF game, pool, GameOK, Stopped, Linked, Left, Written
  <2>3. PoolOK' /\ VerdictTrue'
    BY <1>0, <1>3 DEF game, pool, PoolOK, Distinct, SlotsExclusive, Running, VerdictTrue
  <2>. QED  BY <1>0, <1>3, <2>1, <2>2, <2>3, <1>w
<1>4. CASE Collects
  BY <1>0, <1>3, <1>4 DEF Collects, Collect
<1>5. CASE UNCHANGED vars
  BY <1>0, <1>3, <1>5 DEF vars
<1>. QED  BY <1>1, <1>2, <1>4, <1>5 DEF Next

\* So it holds throughout.
LEMMA Throughout == Spec => []IInv
  BY StartsWell, StepsWell, PTL DEF Spec

-----------------------------------------------------------------------------
(* The theorems                                                            *)

\* Every variable keeps its type; in particular play's pool never holds more
\* slots than --parallel made.
THEOREM TypeCorrect == Spec => []TypeOK
<1>1. IInv => TypeOK
  BY DEF IInv
<1>. QED  BY <1>1, Throughout, PTL

\* No two matches that run have the same ports and socket, none has one that is in
\* the pool, and play's pop never finds its list empty.
THEOREM SlotsAreExclusive == Spec => []SlotsExclusive
<1>1. IInv => SlotsExclusive
  BY DEF IInv, PoolOK
<1>. QED  BY <1>1, Throughout, PTL

\* Whatever _stop leaves behind on the ports of a slot, a brain that reaches a
\* launcher on them reaches that of its own match.
THEOREM BrainsPlayTheirOwn == Spec => []OwnGame
<1>1. IInv => OwnGame
  BY DEF IInv, GameOK, Linked, OwnGame
<1>. QED  BY <1>1, Throughout, PTL

\* judge says "elimination" only of a game its loser really lost.
THEOREM VerdictsAreTrue == Spec => []VerdictTrue
<1>1. IInv => VerdictTrue
  BY DEF IInv
<1>. QED  BY <1>1, Throughout, PTL

-----------------------------------------------------------------------------
(* The games against published bots                                        *)

\* What the variables of BotMatch hold, as far as the argument needs them.
BotStages == {"queued", "lock", "launchA", "waitA", "brain", "launchB", "waitB", "reading",
              "play", "stop", "stopFailed", "row", "giveBack", "done", "failed", "cancelled"}
BotTypes ==
    /\ wine \in BOOLEAN /\ bFree \subseteq BotSlots /\ bSlot \in [BotGames -> BotSlots \cup {None}]
    /\ pc \in [BotGames -> BotStages] /\ lock \in BotGames \cup {None}
    /\ install \in (BotSlots \X Sides) \cup {None}
    /\ ini \in [BotSlots \X Sides -> BotGames \cup {None}]
    /\ sc \in [BotGames \X Sides -> {"none", "starting", "up", "dead"}]
    /\ conf \in [BotGames \X Sides -> (BotGames \cup {None}) \X Sides \cup {None, <<>>}]
    /\ before \in [BotGames -> SUBSET (BotGames \X Sides)]
    /\ pids \in [BotGames -> SUBSET (BotGames \X Sides)] /\ missed \subseteq BotGames \X Sides

\* Under Wine nobody takes the lock or asks which StarCrafts are new.
Modes == wine => missed = {} /\ \A g \in BotGames :
    /\ pids[g] = {}
    /\ pc[g] \notin {"lock", "waitA", "waitB", "reading", "stopFailed", "giveBack"}

\* A game has a slot of its own from its start to one's finally, with its own
\* bwapi.ini in both folders.
Holds(g) == pc[g] \notin {"queued", "done", "failed", "cancelled"}
SlotsOK ==
    /\ \A g \in BotGames : Holds(g) => bSlot[g] \in BotSlots \ bFree
    /\ \A g, h \in BotGames : Holds(g) /\ Holds(h) /\ bSlot[g] = bSlot[h] => g = h
Folders == \A g \in BotGames, s \in Sides : Holds(g) => ini[<<bSlot[g], s>>] = g

\* On Windows one game at a time is between its lock and its last read.
Launches == {"launchA", "waitA", "brain", "launchB", "waitB", "reading", "stopFailed"}
Locked == ~wine => \A g \in BotGames : pc[g] \in Launches => lock = g

\* A StarCraft is not there before it is launched, nor, unless its launch ended without
\* it, after its game was stopped.
Ahead(s) == {"queued", "lock", "launchA"} \cup IF s = "a" THEN {} ELSE {"waitA", "brain", "launchB"}
Playing == {"waitA", "brain", "launchB", "waitB", "reading", "play", "stop", "stopFailed"}
IsRunning(g, s) == sc[<<g, s>>] \in {"starting", "up"}
IsMissed(g, s) == <<g, s>> \in missed
Placed(g, s) ==
    /\ pc[g] \in Ahead(s) => sc[<<g, s>>] = "none" /\ ~IsMissed(g, s) /\ <<g, s>> \notin pids[g]
    /\ IsRunning(g, s) => pc[g] \in Playing \/ IsMissed(g, s)

\* The game that waits for one knows all others but the missed, and notes it before it
\* goes on, or misses it.
Awaits(s) == IF s = "a" THEN "waitA" ELSE "waitB"
Comes(g, s) == sc[<<g, s>>] = "starting" => pc[g] = Awaits(s) \/ IsMissed(g, s)
Knows(g, s) == pc[g] = Awaits(s) =>
    /\ <<g, s>> \notin before[g] /\ ~IsMissed(g, s) /\ <<g, s>> \notin pids[g]
    /\ \A h \in BotGames, o \in Sides :
         sc[<<h, o>>] = "up" => <<h, o>> \in before[g] \/ (h = g /\ o = s) \/ IsMissed(h, o)
Noted(g, s) == IsRunning(g, s) => <<g, s>> \in pids[g] \/ pc[g] = Awaits(s) \/ IsMissed(g, s)

\* While a StarCraft has not read its bwapi.ini yet, InstallPath is its folder.
Reading(s) == IF s = "a" THEN {"waitA", "brain"} ELSE {"waitB", "reading"}
Installs(g, s) == pc[g] \in Reading(s) => install = <<bSlot[g], s>>
Unread(g, s) == IsRunning(g, s) /\ conf[<<g, s>>] = None => pc[g] \in Reading(s) \/ IsMissed(g, s)

OnWindows(g, s) == Comes(g, s) /\ Knows(g, s) /\ Noted(g, s) /\ Installs(g, s) /\ Unread(g, s)
Processes == \A g \in BotGames, s \in Sides : Placed(g, s) /\ (~wine => OnWindows(g, s))

OwnConfig == B!OwnConfig
FreeIsIdle == B!FreeIsIdle
Owned == OwnProcesses /\ OwnConfig
BotInv == BotTypes /\ Modes /\ SlotsOK /\ Folders /\ Locked /\ Processes /\ Owned

\* The start.
LEMMA BotsStart == ASSUME B!Init PROVE BotInv
  BY BotsAssumption DEF B!Init, BotInv, BotTypes, BotStages, Modes, SlotsOK, Holds, Folders, Locked,
     Launches, Processes, Placed, Ahead, IsRunning, OnWindows, Comes, Knows, Noted, Awaits, Installs,
     IsMissed, Unread, Reading, Owned, OwnProcesses, OwnConfig, B!OwnProcesses, B!OwnConfig, B!Procs, B!Sides, Sides

LEMMA BotTake ==
    ASSUME BotInv, NEW g \in BotGames, NEW s \in BotSlots, B!Take(g, s)
    PROVE  BotInv'
<1>. USE DEF Sides, B!Sides, B!Procs
<1>1. /\ pc[g] = "queued" /\ pc' = [pc EXCEPT ![g] = IF wine THEN "launchA" ELSE "lock"]
      /\ s \in bFree /\ bFree' = bFree \ {s} /\ bSlot' = [bSlot EXCEPT ![g] = s]
      /\ ini' = [f \in DOMAIN ini |-> IF f[1] = s THEN g ELSE ini[f]]
      /\ UNCHANGED <<wine, lock, install, sc, conf, before, pids, missed>>
  BY DEF B!Take, B!Goes, B!Launching, B!procs, B!Rewritten
<1>2. /\ pc[g] = "queued" /\ pc'[g] \in {"launchA", "lock"} /\ bSlot'[g] = s
      /\ \A h \in BotGames : h # g => pc'[h] = pc[h] /\ bSlot'[h] = bSlot[h]
      /\ UNCHANGED <<wine, install, sc, conf, before, pids, missed>>
  BY <1>1 DEF BotInv, BotTypes
<1>3. BotTypes'
  BY <1>1 DEF BotInv, BotTypes, BotStages
<1>4. SlotsOK' /\ Folders'
  BY <1>1 DEF BotInv, BotTypes, BotStages, SlotsOK, Folders, Holds
<1>5. Modes' /\ Locked'
  BY <1>1 DEF BotInv, BotTypes, BotStages, Modes, Locked, Launches
<1>6. ASSUME NEW h \in BotGames, NEW o \in Sides
      PROVE  Placed(h, o)' /\ (~wine' => OnWindows(h, o)')
  <2>. Placed(h, o) /\ (~wine => OnWindows(h, o)) /\ wine' = wine
    BY <1>2 DEF BotInv, Processes
  <2>1. CASE h # g
    BY <2>1, <1>2 DEF Placed, IsMissed, IsRunning, OnWindows, Comes, Knows, Noted, Installs, Unread
  <2>2. CASE h = g
    BY <2>2, <1>2 DEF Placed, IsMissed, Ahead, Playing, OnWindows, Comes, Knows, Noted, Awaits, IsRunning,
       Installs, Unread, Reading
  <2>. QED  BY <2>1, <2>2
<1>7. Owned'
  BY <1>1 DEF BotInv, BotTypes, Owned, OwnProcesses, OwnConfig, B!OwnProcesses, B!OwnConfig
<1>. QED  BY <1>3, <1>4, <1>5, <1>6, <1>7 DEF BotInv, Processes

\* A step that only takes one game from a stage to another.
LEMMA BotMoves ==
    ASSUME BotInv, NEW g \in BotGames, NEW to \in BotStages,
           pc' \in [BotGames -> BotStages], pc'[g] = to,
           \A h \in BotGames : h # g => pc'[h] = pc[h],
           UNCHANGED <<wine, bFree, bSlot, lock, install, ini, sc, conf, before, pids, missed>>,
           \/ pc[g] = "queued" /\ to \in {"failed", "cancelled"}
           \/ pc[g] = "play" /\ to = "stop"
           \/ pc[g] = "brain" /\ to = "launchB" /\
                (IsRunning(g, "a") /\ ~IsMissed(g, "a") => conf[<<g, "a">>] # None)
    PROVE  BotInv'
<1>. USE DEF Sides, B!Sides, B!Procs
<1>1. BotTypes'
  BY DEF BotInv, BotTypes, BotStages
<1>2. Modes' /\ SlotsOK' /\ Folders' /\ Locked'
  BY DEF BotInv, BotTypes, Modes, SlotsOK, Folders, Holds, Locked, Launches, Awaits
<1>3. ASSUME NEW h \in BotGames, NEW o \in Sides
      PROVE  Placed(h, o)' /\ (~wine' => OnWindows(h, o)')
  <2>. Placed(h, o) /\ (~wine => OnWindows(h, o)) /\ wine' = wine
    BY DEF BotInv, Processes
  <2>1. CASE h # g
    BY <2>1 DEF Placed, IsMissed, IsRunning, OnWindows, Comes, Knows, Noted, Installs, Unread
  <2>2. CASE h = g
    BY <2>2 DEF Placed, IsMissed, Ahead, Playing, OnWindows, Comes, Knows, Noted, Awaits, IsRunning,
       Installs, Unread, Reading
  <2>. QED  BY <2>1, <2>2
<1>4. Owned'
  BY DEF BotInv, Owned, OwnProcesses, OwnConfig, B!OwnProcesses, B!OwnConfig
<1>. QED  BY <1>1, <1>2, <1>3, <1>4 DEF BotInv, Processes

\* A game that gives up waiting may have a StarCraft there, or about to come up: it is
\* missed from now on.
LEMMA BotGivesUp ==
    ASSUME BotInv, NEW g \in BotGames, NEW s \in Sides, B!GivesUp(g, s)
    PROVE  BotInv'
<1>. USE DEF Sides, B!Sides, B!Procs
<1>1. /\ pc[g] = Awaits(s) /\ pc' = [pc EXCEPT ![g] = "stopFailed"]
      /\ missed' = missed \cup ({<<g, s>>} \ pids[g])
      /\ UNCHANGED <<wine, bFree, bSlot, lock, install, ini, sc, conf, before, pids>>
  BY DEF B!GivesUp, B!Goes, B!Waiting, B!Misses, B!slots, B!files, B!brains, Awaits
<1>2. ~wine
  BY <1>1 DEF BotInv, Modes, Awaits
<1>3. /\ pc[g] = Awaits(s) /\ pc'[g] = "stopFailed"
      /\ \A h \in BotGames : h # g => pc'[h] = pc[h]
      /\ \A h \in BotGames, o \in Sides : IsMissed(h, o) => IsMissed(h, o)'
      /\ \A h \in BotGames, o \in Sides : h # g \/ o # s => (IsMissed(h, o)' <=> IsMissed(h, o))
      /\ <<g, s>> \in pids[g] \/ IsMissed(g, s)'
      /\ UNCHANGED <<wine, bSlot, install, sc, conf, before, pids>>
  BY <1>1 DEF BotInv, BotTypes, IsMissed
<1>4. BotTypes'
  BY <1>1 DEF BotInv, BotTypes, BotStages
<1>5. Modes' /\ SlotsOK' /\ Folders' /\ Locked'
  BY <1>1, <1>2, <1>3 DEF BotInv, Modes, SlotsOK, Folders, Holds, Locked, Launches, Awaits
<1>6. ASSUME NEW h \in BotGames, NEW o \in Sides
      PROVE  Placed(h, o)' /\ OnWindows(h, o)'
  <2>. Placed(h, o) /\ OnWindows(h, o)
    BY <1>2 DEF BotInv, Processes
  <2>1. CASE h # g
    BY <2>1, <1>3 DEF Placed, IsMissed, IsRunning, OnWindows, Comes, Knows, Noted, Installs, Unread
  <2>2. CASE h = g /\ o = s
    BY <2>2, <1>3 DEF Placed, IsMissed, Ahead, Playing, IsRunning, OnWindows, Comes, Knows, Noted, Awaits,
       Installs, Unread, Reading
  <2>3. CASE h = g /\ o # s
    BY <2>3, <1>3 DEF Placed, IsMissed, Ahead, Playing, IsRunning, OnWindows, Comes, Knows, Noted, Awaits,
       Installs, Unread, Reading
  <2>. QED  BY <2>1, <2>2, <2>3
<1>7. Owned'
  BY <1>1 DEF BotInv, Owned, OwnProcesses, OwnConfig, B!OwnProcesses, B!OwnConfig
<1>. QED  BY <1>4, <1>5, <1>6, <1>7 DEF BotInv, Processes

LEMMA BotLocks ==
    ASSUME BotInv, NEW g \in BotGames, B!Locks(g)
    PROVE  BotInv'
<1>. USE DEF Sides, B!Sides, B!Procs
<1>1. /\ pc[g] = "lock" /\ pc' = [pc EXCEPT ![g] = "launchA"] /\ lock = None /\ lock' = g
      /\ UNCHANGED <<wine, bFree, bSlot, install, ini, sc, conf, before, pids, missed>>
  BY DEF B!Locks, B!Goes, B!Acquire, B!Launching, B!slots, B!files, B!procs
<1>2. /\ pc[g] = "lock" /\ pc'[g] = "launchA" /\ \A h \in BotGames : h # g => pc'[h] = pc[h]
      /\ UNCHANGED <<wine, bSlot, install, sc, conf, before, pids, missed>>
  BY <1>1 DEF BotInv, BotTypes
<1>3. BotTypes'
  BY <1>1 DEF BotInv, BotTypes, BotStages
<1>4. Modes' /\ SlotsOK' /\ Folders' /\ Locked'
  BY <1>1, <1>2, BotsAssumption DEF BotInv, Modes, SlotsOK, Folders, Holds, Locked, Launches
<1>5. ASSUME NEW h \in BotGames, NEW o \in Sides
      PROVE  Placed(h, o)' /\ (~wine' => OnWindows(h, o)')
  <2>. Placed(h, o) /\ (~wine => OnWindows(h, o)) /\ wine' = wine
    BY <1>2 DEF BotInv, Processes
  <2>1. CASE h # g
    BY <2>1, <1>2 DEF Placed, IsMissed, IsRunning, OnWindows, Comes, Knows, Noted, Installs, Unread
  <2>2. CASE h = g
    BY <2>2, <1>2 DEF Placed, IsMissed, Ahead, Playing, OnWindows, Comes, Knows, Noted, Awaits, IsRunning,
       Installs, Unread, Reading
  <2>. QED  BY <2>1, <2>2
<1>6. Owned'
  BY <1>1 DEF BotInv, Owned, OwnProcesses, OwnConfig, B!OwnProcesses, B!OwnConfig
<1>. QED  BY <1>3, <1>4, <1>5, <1>6 DEF BotInv, Processes

\* Nobody else is launching, so nothing but the new StarCraft can come up from here on
\* that is not in the snapshot.
LEMMA BotLaunch ==
    ASSUME BotInv, NEW g \in BotGames, NEW s \in Sides, B!Launch(g, s)
    PROVE  BotInv'
<1>. USE DEF Sides, B!Sides, B!Procs
<1>1. B!Launching[s] = (IF s = "a" THEN "launchA" ELSE "launchB") /\ B!Waiting[s] = Awaits(s)
  BY DEF B!Launching, B!Waiting, Awaits
<1>2. /\ ~wine /\ pc[g] = (IF s = "a" THEN "launchA" ELSE "launchB")
      /\ pc' = [pc EXCEPT ![g] = Awaits(s)]
      /\ install' = <<bSlot[g], s>>
      /\ before' = [before EXCEPT ![g] = {p \in BotGames \X Sides : sc[p] = "up"}]
      /\ sc' = [sc EXCEPT ![<<g, s>>] = "starting"]
      /\ UNCHANGED <<wine, bFree, bSlot, lock, ini, conf, pids, missed>>
  BY <1>1 DEF B!Launch, B!Goes, B!SetInstall, B!Folder, B!Shown, B!Starts, B!slots, B!brains
<1>3. lock = g /\ \A h \in BotGames : h # g => pc[h] \notin Launches
  BY <1>2 DEF BotInv, Locked, Launches
<1>4. sc[<<g, s>>] = "none"
  BY <1>2 DEF BotInv, Processes, Placed, Ahead
<1>5. /\ pc[g] = (IF s = "a" THEN "launchA" ELSE "launchB") /\ pc'[g] = Awaits(s)
      /\ \A h \in BotGames : h # g => pc'[h] = pc[h] /\ before'[h] = before[h]
      /\ sc'[<<g, s>>] = "starting" /\ sc[<<g, s>>] = "none"
      /\ \A h \in BotGames, o \in Sides : h # g \/ o # s => sc'[<<h, o>>] = sc[<<h, o>>]
      /\ \A h \in BotGames, o \in Sides : <<h, o>> \in before'[g] <=> sc[<<h, o>>] = "up"
      /\ install' = <<bSlot[g], s>> /\ UNCHANGED <<wine, bSlot, conf, pids, missed>>
  BY <1>2, <1>4 DEF BotInv, BotTypes
<1>6. BotTypes'
  BY <1>2 DEF BotInv, BotTypes, BotStages, Awaits, SlotsOK, Holds
<1>7. Modes' /\ SlotsOK' /\ Folders' /\ Locked'
  BY <1>2, <1>3, <1>5 DEF BotInv, Modes, SlotsOK, Folders, Holds, Locked, Launches, Awaits
<1>8. ASSUME NEW h \in BotGames, NEW o \in Sides
      PROVE  Placed(h, o)' /\ OnWindows(h, o)'
  <2>. Placed(h, o) /\ OnWindows(h, o)
    BY <1>2 DEF BotInv, Processes
  <2>1. CASE h # g
    BY <2>1, <1>3, <1>5 DEF Placed, IsMissed, IsRunning, OnWindows, Comes, Knows, Noted, Awaits, Installs,
       Unread, Reading, Launches
  <2>2. CASE h = g /\ o = s
    <3>1. <<g, s>> \notin before'[g]
      BY <1>5
    <3>2. ASSUME NEW k \in BotGames, NEW q \in Sides, sc'[<<k, q>>] = "up"
          PROVE  <<k, q>> \in before'[g] \/ (k = g /\ q = s)
      <4>1. CASE k = g /\ q = s
        BY <4>1
      <4>2. CASE k # g \/ q # s
        BY <4>2, <3>2, <1>5
      <4>. QED  BY <4>1, <4>2
    <3>3. Knows(g, s)'
      BY <3>1, <3>2, <1>5, <2>2 DEF Knows, Placed, Ahead, IsMissed
    <3>. QED  BY <2>2, <3>3, <1>5 DEF Placed, IsMissed, Ahead, Playing, IsRunning, OnWindows, Comes, Noted,
              Awaits, Installs, Unread, Reading
  <2>3. CASE h = g /\ o # s
    BY <2>3, <1>5 DEF Placed, IsMissed, Ahead, Playing, IsRunning, OnWindows, Comes, Knows, Noted, Awaits,
       Installs, Unread, Reading
  <2>. QED  BY <2>1, <2>2, <2>3
<1>9. Owned'
  BY <1>2 DEF BotInv, Owned, OwnProcesses, OwnConfig, B!OwnProcesses, B!OwnConfig
<1>. QED  BY <1>6, <1>7, <1>8, <1>9 DEF BotInv, Processes

LEMMA BotSpawn ==
    ASSUME BotInv, NEW g \in BotGames, NEW s \in Sides, B!Spawn(g, s)
    PROVE  BotInv'
<1>. USE DEF Sides, B!Sides, B!Procs
<1>1. /\ wine /\ pc[g] = (IF s = "a" THEN "launchA" ELSE "launchB")
      /\ pc' = [pc EXCEPT ![g] = IF s = "a" THEN "brain" ELSE "play"]
      /\ sc' = [sc EXCEPT ![<<g, s>>] = "starting"]
      /\ UNCHANGED <<wine, bFree, bSlot, lock, install, ini, conf, before, pids, missed>>
  BY DEF B!Spawn, B!Goes, B!Launching, B!Starts, B!slots, B!files, B!brains
<1>2. /\ pc[g] = (IF s = "a" THEN "launchA" ELSE "launchB")
      /\ pc'[g] = (IF s = "a" THEN "brain" ELSE "play")
      /\ \A h \in BotGames : h # g => pc'[h] = pc[h]
      /\ \A h \in BotGames, o \in Sides : h # g \/ o # s => sc'[<<h, o>>] = sc[<<h, o>>]
      /\ wine' /\ UNCHANGED <<pids, missed>>
  BY <1>1 DEF BotInv, BotTypes
<1>3. BotTypes'
  BY <1>1 DEF BotInv, BotTypes, BotStages
<1>4. Modes' /\ SlotsOK' /\ Folders' /\ Locked'
  BY <1>1, <1>2 DEF BotInv, Modes, SlotsOK, Folders, Holds, Locked
<1>5. ASSUME NEW h \in BotGames, NEW o \in Sides
      PROVE  Placed(h, o)'
  <2>. Placed(h, o)
    BY DEF BotInv, Processes
  <2>1. CASE h # g
    BY <2>1, <1>2 DEF Placed, IsMissed, IsRunning
  <2>2. CASE h = g
    BY <2>2, <1>2 DEF Placed, IsMissed, Ahead, Playing, IsRunning
  <2>. QED  BY <2>1, <2>2
<1>6. Owned'
  BY <1>1 DEF BotInv, Owned, OwnProcesses, OwnConfig, B!OwnProcesses, B!OwnConfig
<1>. QED  BY <1>2, <1>3, <1>4, <1>5, <1>6 DEF BotInv, Processes

\* What is new to a game that waits is what it waits for, or a missed one: then what it
\* waits for may be missed in its turn.
LEMMA BotSees ==
    ASSUME BotInv, NEW g \in BotGames, NEW s \in Sides, B!Sees(g, s)
    PROVE  BotInv'
<1>. USE DEF Sides, B!Sides, B!Procs
<1>1. /\ pc[g] = Awaits(s) /\ pc' = [pc EXCEPT ![g] = IF s = "a" THEN "brain" ELSE "reading"]
      /\ pids' = [pids EXCEPT ![g] = pids[g] \cup B!New(g)]
      /\ missed' = missed \cup ({<<g, s>>} \ pids'[g])
      /\ UNCHANGED <<wine, bFree, bSlot, lock, install, ini, sc, conf, before>>
  BY DEF B!Sees, B!Goes, B!Waiting, B!Known, B!Misses, B!slots, B!files, B!brains, Awaits
<1>2. ~wine
  BY <1>1 DEF BotInv, Modes, Awaits
<1>3. /\ B!New(g) \subseteq BotGames \X Sides
      /\ \A h \in BotGames, o \in Sides :
            <<h, o>> \in B!New(g) => (h = g /\ o = s) \/ IsMissed(h, o)
  <2>1. Knows(g, s)
    BY <1>2 DEF BotInv, Processes, OnWindows
  <2>2. B!New(g) \subseteq BotGames \X Sides
    BY DEF B!New, B!Shown
  <2>. QED  BY <2>1, <2>2, <1>1 DEF Knows, B!New, B!Shown
<1>4. /\ pc[g] = Awaits(s) /\ pc'[g] = (IF s = "a" THEN "brain" ELSE "reading")
      /\ \A h \in BotGames : h # g => pc'[h] = pc[h] /\ pids'[h] = pids[h]
      /\ pids'[g] = pids[g] \cup B!New(g)
      /\ \A h \in BotGames, o \in Sides : IsMissed(h, o) => IsMissed(h, o)'
      /\ \A h \in BotGames, o \in Sides : h # g \/ o # s => (IsMissed(h, o)' <=> IsMissed(h, o))
      /\ <<g, s>> \in pids'[g] \/ IsMissed(g, s)'
      /\ \A o \in Sides : sc[<<g, o>>] # "up" => <<g, o>> \notin B!New(g)
      /\ UNCHANGED <<wine, bSlot, install, sc, conf, before>>
  BY <1>1 DEF BotInv, BotTypes, IsMissed, B!New, B!Shown
<1>5. BotTypes'
  BY <1>1, <1>3 DEF BotInv, BotTypes, BotStages
<1>6. Modes' /\ SlotsOK' /\ Folders' /\ Locked'
  BY <1>1, <1>2, <1>4 DEF BotInv, Modes, SlotsOK, Folders, Holds, Locked, Launches, Awaits
<1>7. ASSUME NEW h \in BotGames, NEW o \in Sides
      PROVE  Placed(h, o)' /\ OnWindows(h, o)'
  <2>. Placed(h, o) /\ OnWindows(h, o)
    BY <1>2 DEF BotInv, Processes
  <2>1. CASE h # g
    BY <2>1, <1>4 DEF Placed, IsMissed, IsRunning, OnWindows, Comes, Knows, Noted, Installs, Unread
  <2>2. CASE h = g /\ o = s
    BY <2>2, <1>4 DEF Placed, IsMissed, Ahead, Playing, IsRunning, OnWindows, Comes, Knows, Noted, Awaits,
       Installs, Unread, Reading
  <2>3. CASE h = g /\ o # s
    BY <2>3, <1>4 DEF Placed, IsMissed, Ahead, Playing, IsRunning, OnWindows, Comes, Knows, Noted, Awaits,
       Installs, Unread, Reading
  <2>. QED  BY <2>1, <2>2, <2>3
<1>8. OwnConfig'
  BY <1>1 DEF BotInv, Owned, OwnConfig, B!OwnConfig
<1>9. OwnProcesses'
  <2>1. SUFFICES ASSUME NEW h \in BotGames, NEW p \in pids'[h]
                 PROVE  p[1] = h \/ p \in missed'
    BY DEF OwnProcesses, B!OwnProcesses
  <2>2. p \in pids[h] => p[1] = h \/ p \in missed
    BY DEF BotInv, Owned, OwnProcesses, B!OwnProcesses
  <2>3. ASSUME h = g, p \in B!New(g)
        PROVE  p[1] = h \/ p \in missed
    <3>1. PICK k \in BotGames, o \in Sides : p = <<k, o>>
      BY <1>3, <2>3
    <3>. QED  BY <3>1, <1>3, <2>3 DEF IsMissed
  <2>. QED  BY <2>1, <2>2, <2>3, <1>1, <1>4
<1>. QED  BY <1>5, <1>6, <1>7, <1>8, <1>9 DEF BotInv, Processes, Owned

LEMMA BotUnlocks ==
    ASSUME BotInv, NEW g \in BotGames, B!Unlocks(g)
    PROVE  BotInv'
<1>. USE DEF Sides, B!Sides, B!Procs
<1>1. /\ pc[g] = "reading" /\ pc' = [pc EXCEPT ![g] = "play"] /\ lock' = None
      /\ IsRunning(g, "b") /\ ~IsMissed(g, "b") => conf[<<g, "b">>] # None
      /\ UNCHANGED <<wine, bFree, bSlot, install, ini, sc, conf, before, pids, missed>>
  BY DEF B!Unlocks, B!Goes, B!HasRead, B!Running, IsRunning, IsMissed, B!slots, B!files, B!procs
<1>2. ~wine /\ lock = g
  BY <1>1 DEF BotInv, Modes, Locked, Launches
<1>3. /\ pc[g] = "reading" /\ pc'[g] = "play"
      /\ \A h \in BotGames : h # g => pc'[h] = pc[h] /\ pc[h] \notin Launches
      /\ UNCHANGED <<wine, bSlot, install, sc, conf, before, pids, missed>>
      /\ IsRunning(g, "b") /\ ~IsMissed(g, "b") => conf[<<g, "b">>] # None
  BY <1>1, <1>2 DEF BotInv, BotTypes, Locked
<1>4. BotTypes'
  BY <1>1 DEF BotInv, BotTypes, BotStages
<1>5. Modes' /\ SlotsOK' /\ Folders' /\ Locked'
  BY <1>1, <1>2, <1>3 DEF BotInv, Modes, SlotsOK, Folders, Holds, Locked, Launches
<1>6. ASSUME NEW h \in BotGames, NEW o \in Sides
      PROVE  Placed(h, o)' /\ (~wine' => OnWindows(h, o)')
  <2>. Placed(h, o) /\ (~wine => OnWindows(h, o)) /\ wine' = wine
    BY <1>3 DEF BotInv, Processes
  <2>1. CASE h # g
    BY <2>1, <1>3 DEF Placed, IsMissed, IsRunning, OnWindows, Comes, Knows, Noted, Installs, Unread
  <2>2. CASE h = g
    BY <2>2, <1>3 DEF Placed, IsMissed, Ahead, Playing, OnWindows, Comes, Knows, Noted, Awaits, IsRunning,
       Installs, Unread, Reading
  <2>. QED  BY <2>1, <2>2
<1>7. Owned'
  BY <1>1 DEF BotInv, Owned, OwnProcesses, OwnConfig, B!OwnProcesses, B!OwnConfig
<1>. QED  BY <1>4, <1>5, <1>6, <1>7 DEF BotInv, Processes

\* finally kills what runs of the game itself, and perhaps others under Wine; of
\* the lock it gives back its own.
LEMMA BotStops ==
    ASSUME BotInv, NEW g \in BotGames,
           NEW how \in {"stop", "stopFailed"}, NEW to \in {"row", "giveBack"},
           how = "stopFailed" <=> to = "giveBack", B!Stops(g, how, to)
    PROVE  BotInv'
<1>. USE DEF Sides, B!Sides, B!Procs
<1>1. /\ pc[g] = how /\ pc' = [pc EXCEPT ![g] = to]
      /\ lock' = (IF lock = g THEN None ELSE lock)
      /\ sc' = [p \in BotGames \X Sides |-> IF p \in B!Killed(g) THEN "dead" ELSE sc[p]]
      /\ UNCHANGED <<wine, bFree, bSlot, install, ini, conf, before, pids, missed>>
  BY DEF B!Stops, B!Goes, B!Released, B!slots, B!files
<1>2. /\ pc[g] = how /\ pc'[g] = to /\ \A h \in BotGames : h # g => pc'[h] = pc[h]
      /\ \A h \in BotGames, o \in Sides :
           sc'[<<h, o>>] = IF <<h, o>> \in B!Killed(g) THEN "dead" ELSE sc[<<h, o>>]
      /\ UNCHANGED <<wine, bSlot, install, conf, before, pids, missed>>
  BY <1>1 DEF BotInv, BotTypes
<1>3. \A o \in Sides : IsRunning(g, o) => <<g, o>> \in B!Killed(g) \/ (~wine /\ IsMissed(g, o))
  BY <1>1 DEF BotInv, Modes, IsMissed, Processes, OnWindows, Noted, Awaits, IsRunning, B!Killed, B!Running
<1>4. \A o \in Sides : IsRunning(g, o)' => IsMissed(g, o)'
  BY <1>2, <1>3 DEF IsRunning, IsMissed
<1>5. \A h \in BotGames, o \in Sides :
         /\ pc[h] \in Ahead(o) => <<h, o>> \notin B!Killed(g)
         /\ sc'[<<h, o>>] # "dead" => sc'[<<h, o>>] = sc[<<h, o>>]
  <2>1. \A h \in BotGames, o \in Sides :
           pc[h] \in Ahead(o) => sc[<<h, o>>] = "none" /\ ~IsMissed(h, o)
    BY DEF BotInv, Processes, Placed
  <2>2. \A h \in BotGames, o \in Sides : wine /\ <<h, o>> \in B!Killed(g) => IsRunning(h, o)
    BY DEF B!Killed, B!Running, IsRunning
  <2>3. \A h \in BotGames, o \in Sides : ~wine /\ <<h, o>> \in B!Killed(g) => h = g \/ IsMissed(h, o)
    BY DEF B!Killed, IsMissed, BotInv, Owned, OwnProcesses, B!OwnProcesses
  <2>4. \A o \in Sides : pc[g] \notin Ahead(o)
    BY <1>2 DEF Ahead
  <2>. QED  BY <1>2, <2>1, <2>2, <2>3, <2>4 DEF IsRunning
<1>6. BotTypes'
  BY <1>1 DEF BotInv, BotTypes, BotStages
<1>7. Modes' /\ SlotsOK' /\ Folders' /\ Locked'
  BY <1>1, <1>2, BotsAssumption DEF BotInv, Modes, SlotsOK, Folders, Holds, Locked, Launches
<1>8. ASSUME NEW h \in BotGames, NEW o \in Sides
      PROVE  Placed(h, o)' /\ (~wine' => OnWindows(h, o)')
  <2>. Placed(h, o) /\ (~wine => OnWindows(h, o)) /\ wine' = wine
    BY <1>2 DEF BotInv, Processes
  <2>1. Placed(h, o)'
    BY <1>2, <1>4, <1>5 DEF Placed, Ahead, IsRunning, IsMissed
  <2>2. ~wine => Knows(h, o)'
    BY <1>2, <1>5 DEF OnWindows, Knows, Awaits, IsMissed
  <2>3. ~wine => Comes(h, o)' /\ Noted(h, o)' /\ Installs(h, o)' /\ Unread(h, o)'
    BY <1>2, <1>4, <1>5 DEF OnWindows, Comes, Noted, Installs, Unread, Awaits, Reading, IsRunning, IsMissed
  <2>. QED  BY <2>1, <2>2, <2>3 DEF OnWindows
<1>9. Owned'
  BY <1>1 DEF BotInv, Owned, OwnProcesses, OwnConfig, B!OwnProcesses, B!OwnConfig
<1>. QED  BY <1>6, <1>7, <1>8, <1>9 DEF BotInv, Processes

LEMMA BotGivesBack ==
    ASSUME BotInv, NEW g \in BotGames, B!GivesBack(g)
    PROVE  BotInv'
<1>. USE DEF Sides, B!Sides, B!Procs
<1>1. PICK to \in {"done", "failed"} :
        /\ pc[g] \in {"row", "giveBack"} /\ pc' = [pc EXCEPT ![g] = to]
        /\ bFree' = bFree \cup {bSlot[g]}
        /\ UNCHANGED <<wine, bSlot, lock, install, ini, sc, conf, before, pids, missed>>
  BY DEF B!GivesBack, B!files, B!procs
<1>2. /\ pc[g] \in {"row", "giveBack"} /\ pc'[g] \in {"done", "failed"}
      /\ \A h \in BotGames : h # g => pc'[h] = pc[h]
      /\ UNCHANGED <<wine, bSlot, install, sc, conf, before, pids, missed>>
  BY <1>1 DEF BotInv, BotTypes
<1>3. BotTypes'
  BY <1>1 DEF BotInv, BotTypes, BotStages, SlotsOK, Holds
<1>4. Modes' /\ SlotsOK' /\ Folders' /\ Locked'
  BY <1>1, <1>2 DEF BotInv, Modes, SlotsOK, Folders, Holds, Locked, Launches
<1>5. ASSUME NEW h \in BotGames, NEW o \in Sides
      PROVE  Placed(h, o)' /\ (~wine' => OnWindows(h, o)')
  <2>. Placed(h, o) /\ (~wine => OnWindows(h, o)) /\ wine' = wine
    BY <1>2 DEF BotInv, Processes
  <2>1. CASE h # g
    BY <2>1, <1>2 DEF Placed, IsMissed, IsRunning, OnWindows, Comes, Knows, Noted, Installs, Unread
  <2>2. CASE h = g
    BY <2>2, <1>2 DEF Placed, IsMissed, Ahead, Playing, OnWindows, Comes, Knows, Noted, Awaits, IsRunning,
       Installs, Unread, Reading
  <2>. QED  BY <2>1, <2>2
<1>6. Owned'
  BY <1>1 DEF BotInv, Owned, OwnProcesses, OwnConfig, B!OwnProcesses, B!OwnConfig
<1>. QED  BY <1>3, <1>4, <1>5, <1>6 DEF BotInv, Processes

\* The queued games of a run that is cancelled never held anything.
LEMMA BotCancels ==
    ASSUME BotInv, NEW g \in BotGames, B!Cancels(g)
    PROVE  BotInv'
<1>. USE DEF Sides, B!Sides, B!Procs
<1>1. /\ pc' = [h \in BotGames |-> IF pc[h] = "queued" THEN "cancelled" ELSE pc[h]]
      /\ UNCHANGED <<wine, bFree, bSlot, lock, install, ini, sc, conf, before, pids, missed>>
  BY DEF B!Cancels, B!slots, B!files, B!procs
<1>2. /\ \A h \in BotGames : pc'[h] = pc[h] \/ (pc[h] = "queued" /\ pc'[h] = "cancelled")
      /\ UNCHANGED <<wine, bSlot, install, sc, conf, before, pids, missed>>
  BY <1>1
<1>3. BotTypes'
  BY <1>1 DEF BotInv, BotTypes, BotStages
<1>4. Modes' /\ SlotsOK' /\ Folders' /\ Locked'
  BY <1>1, <1>2 DEF BotInv, Modes, SlotsOK, Folders, Holds, Locked, Launches
<1>5. ASSUME NEW h \in BotGames, NEW o \in Sides
      PROVE  Placed(h, o)' /\ (~wine' => OnWindows(h, o)')
  <2>. Placed(h, o) /\ (~wine => OnWindows(h, o)) /\ wine' = wine
    BY <1>2 DEF BotInv, Processes
  <2>1. CASE pc'[h] = pc[h]
    BY <2>1, <1>2 DEF Placed, IsMissed, IsRunning, OnWindows, Comes, Knows, Noted, Installs, Unread
  <2>2. CASE pc[h] = "queued" /\ pc'[h] = "cancelled"
    BY <2>2, <1>2 DEF Placed, IsMissed, Ahead, Playing, OnWindows, Comes, Knows, Noted, Awaits, IsRunning,
       Installs, Unread, Reading
  <2>. QED  BY <1>2, <2>1, <2>2
<1>6. Owned'
  BY <1>1 DEF BotInv, Owned, OwnProcesses, OwnConfig, B!OwnProcesses, B!OwnConfig
<1>. QED  BY <1>3, <1>4, <1>5, <1>6 DEF BotInv, Processes

\* InstallPath is the user's again when nobody launches any more.
LEMMA BotRestores ==
    ASSUME BotInv, B!Restores
    PROVE  BotInv'
<1>. USE DEF Sides, B!Sides, B!Procs
<1>1. /\ \A g \in BotGames : pc[g] \in {"done", "failed", "cancelled"}
      /\ install' = None
      /\ UNCHANGED <<wine, bFree, bSlot, pc, lock, ini, sc, conf, before, pids, missed>>
  BY DEF B!Restores, B!Ended, B!SetInstall, B!slots, B!procs
<1>2. BotTypes' /\ Modes' /\ SlotsOK' /\ Folders' /\ Locked'
  BY <1>1 DEF BotInv, BotTypes, Modes, SlotsOK, Folders, Holds, Locked
<1>3. ASSUME NEW h \in BotGames, NEW o \in Sides
      PROVE  Placed(h, o)' /\ (~wine' => OnWindows(h, o)')
  <2>. Placed(h, o) /\ (~wine => OnWindows(h, o))
    BY DEF BotInv, Processes
  <2>. QED  BY <1>1 DEF Placed, IsMissed, IsRunning, OnWindows, Comes, Knows, Noted, Installs, Unread, Reading
<1>4. Owned'
  BY <1>1 DEF BotInv, Owned, OwnProcesses, OwnConfig, B!OwnProcesses, B!OwnConfig
<1>. QED  BY <1>2, <1>3, <1>4 DEF BotInv, Processes

-----------------------------------------------------------------------------
(* StarCraft, BWAPI and the brain                                          *)

\* A StarCraft that shows up is the one its game waits for, and no other game
\* waits then; or it is missed.
LEMMA BotAppears ==
    ASSUME BotInv, NEW g \in BotGames, NEW s \in Sides, B!Appears(<<g, s>>)
    PROVE  BotInv'
<1>. USE DEF Sides, B!Sides, B!Procs
<1>1. /\ sc[<<g, s>>] = "starting" /\ sc' = [sc EXCEPT ![<<g, s>>] = "up"]
      /\ UNCHANGED <<wine, bFree, bSlot, pc, lock, install, ini, conf, before, pids, missed>>
  BY DEF B!Appears, B!Elsewhere, B!slots, B!files
<1>2. /\ sc[<<g, s>>] = "starting" /\ sc'[<<g, s>>] = "up"
      /\ \A h \in BotGames, o \in Sides : h # g \/ o # s => sc'[<<h, o>>] = sc[<<h, o>>]
      /\ UNCHANGED <<wine, bSlot, pc, install, conf, before, pids, missed>>
  BY <1>1 DEF BotInv, BotTypes
<1>3. BotTypes' /\ Modes' /\ SlotsOK' /\ Folders' /\ Locked'
  BY <1>1 DEF BotInv, BotTypes, Modes, SlotsOK, Folders, Holds, Locked
<1>4. \A h \in BotGames, o \in Sides : ~wine /\ pc[h] = Awaits(o) => (h = g /\ o = s) \/ IsMissed(g, s)
  <2>1. ~wine => IsMissed(g, s) \/ (pc[g] = Awaits(s) /\ lock = g)
    BY <1>2 DEF BotInv, Processes, OnWindows, Comes, Locked, Launches, Awaits
  <2>. QED  BY <2>1 DEF BotInv, Locked, Launches, Awaits
<1>5. ASSUME NEW h \in BotGames, NEW o \in Sides
      PROVE  Placed(h, o)' /\ (~wine' => OnWindows(h, o)')
  <2>. Placed(h, o) /\ (~wine => OnWindows(h, o)) /\ wine' = wine
    BY <1>2 DEF BotInv, Processes
  <2>1. ~wine => Knows(h, o)'
    BY <1>2, <1>4 DEF OnWindows, Knows, IsMissed
  <2>2. CASE h = g /\ o = s
    BY <2>1, <2>2, <1>2 DEF Placed, IsMissed, IsRunning, OnWindows, Comes, Noted, Installs, Unread
  <2>3. CASE ~(h = g /\ o = s)
    <3>1. sc'[<<h, o>>] = sc[<<h, o>>] /\ UNCHANGED <<wine, bSlot, pc, install, conf, before, pids, missed>>
      BY <2>3, <1>2
    <3>. QED  BY <2>1, <3>1 DEF Placed, IsMissed, IsRunning, OnWindows, Comes, Noted, Installs, Unread
  <2>. QED  BY <2>2, <2>3
<1>6. Owned'
  BY <1>1 DEF BotInv, Owned, OwnProcesses, OwnConfig, B!OwnProcesses, B!OwnConfig
<1>. QED  BY <1>3, <1>5, <1>6 DEF BotInv, Processes

\* What a StarCraft that is not missed reads is its own: under Wine because the folder
\* is, on Windows because InstallPath still is that folder.
LEMMA BotReads ==
    ASSUME BotInv, NEW g \in BotGames, NEW s \in Sides, B!Reads(<<g, s>>)
    PROVE  BotInv'
<1>. USE DEF Sides, B!Sides, B!Procs
<1>. DEFINE f == IF wine THEN <<bSlot[g], s>> ELSE install
            c == IF f = None THEN <<>> ELSE <<ini[f], f[2]>>
<1>1. /\ sc[<<g, s>>] = "up" /\ conf' = [conf EXCEPT ![<<g, s>>] = c]
      /\ UNCHANGED <<wine, bFree, bSlot, pc, lock, install, ini, sc, before, pids, missed>>
  BY DEF B!Reads, B!Elsewhere, B!Folder, B!slots, B!files
<1>2. ~IsMissed(g, s) => Holds(g)
  BY <1>1 DEF BotInv, Processes, Placed, IsRunning, Playing, Holds
<1>3. conf[<<g, s>>] = None
  BY DEF B!Reads
<1>4. ~IsMissed(g, s) => f = <<bSlot[g], s>> /\ bSlot[g] \in BotSlots
  BY <1>1, <1>2, <1>3 DEF BotInv, Processes, OnWindows, Unread, IsRunning, Installs, SlotsOK
<1>5. ~IsMissed(g, s) => c = <<g, s>>
  <2>1. ~IsMissed(g, s) => ini[f] = g
    BY <1>2, <1>4 DEF BotInv, Folders
  <2>. QED  BY <2>1, <1>4, BotsAssumption
<1>6. c \in (BotGames \cup {None}) \X Sides \cup {<<>>}
  <2>1. CASE wine
    <3>1. missed = {}
      BY <2>1 DEF BotInv, Modes
    <3>. QED  BY <3>1, <1>5 DEF IsMissed
  <2>2. CASE ~wine /\ install = None
    BY <2>2
  <2>3. CASE ~wine /\ install # None
    <3>1. install \in BotSlots \X Sides
      BY <2>3 DEF BotInv, BotTypes
    <3>2. ini[install] \in BotGames \cup {None} /\ install[2] \in Sides
      BY <3>1 DEF BotInv, BotTypes
    <3>3. c = <<ini[install], install[2]>>
      BY <2>3
    <3>. QED  BY <3>2, <3>3
  <2>. QED  BY <2>1, <2>2, <2>3
<1>. HIDE DEF c
<1>7. /\ conf'[<<g, s>>] = c
      /\ \A h \in BotGames, o \in Sides : h # g \/ o # s => conf'[<<h, o>>] = conf[<<h, o>>]
      /\ UNCHANGED <<wine, bSlot, pc, install, sc, before, pids, missed>>
  BY <1>1 DEF BotInv, BotTypes
<1>8. conf' \in [BotGames \X Sides -> (BotGames \cup {None}) \X Sides \cup {None, <<>>}]
  BY <1>1, <1>6 DEF BotInv, BotTypes
<1>9. BotTypes' /\ Modes' /\ SlotsOK' /\ Folders' /\ Locked'
  BY <1>1, <1>8 DEF BotInv, BotTypes, Modes, SlotsOK, Folders, Holds, Locked
<1>10. ASSUME NEW h \in BotGames, NEW o \in Sides
       PROVE  Placed(h, o)' /\ (~wine' => OnWindows(h, o)')
  <2>. Placed(h, o) /\ (~wine => OnWindows(h, o)) /\ wine' = wine
    BY <1>7 DEF BotInv, Processes
  <2>1. ~wine => Unread(h, o)'
    <3>1. CASE h = g /\ o = s
      BY <3>1, <1>5, <1>7, BotsAssumption DEF Unread, IsMissed
    <3>2. CASE h # g \/ o # s
      BY <3>2, <1>7 DEF OnWindows, Unread, IsRunning, IsMissed
    <3>. QED  BY <3>1, <3>2
  <2>. QED  BY <2>1, <1>7 DEF Placed, IsMissed, IsRunning, OnWindows, Comes, Knows, Noted, Installs
<1>11. OwnProcesses'
  BY <1>1 DEF BotInv, Owned, OwnProcesses, B!OwnProcesses
<1>12. OwnConfig'
  <2>1. SUFFICES ASSUME NEW p \in BotGames \X Sides
                 PROVE  conf'[p] \in {None, p} \/ p \in missed'
    BY DEF OwnConfig, B!OwnConfig
  <2>. PICK h \in BotGames, o \in Sides : p = <<h, o>>
    OBVIOUS
  <2>2. conf[<<h, o>>] \in {None, <<h, o>>} \/ IsMissed(h, o)
    BY DEF BotInv, Owned, OwnConfig, B!OwnConfig, IsMissed
  <2>. QED  BY <2>2, <1>5, <1>7 DEF IsMissed
<1>. QED  BY <1>9, <1>10, <1>11, <1>12 DEF BotInv, Processes, Owned

LEMMA BotCrashes ==
    ASSUME BotInv, NEW g \in BotGames, NEW s \in Sides, B!Crashes(<<g, s>>)
    PROVE  BotInv'
<1>. USE DEF Sides, B!Sides, B!Procs
<1>1. /\ IsRunning(g, s) /\ sc' = [sc EXCEPT ![<<g, s>>] = "dead"]
      /\ UNCHANGED <<wine, bFree, bSlot, pc, lock, install, ini, conf, before, pids, missed>>
  BY DEF B!Crashes, B!Running, IsRunning, B!Elsewhere, B!slots, B!files
<1>2. /\ IsRunning(g, s) /\ sc'[<<g, s>>] = "dead"
      /\ \A h \in BotGames, o \in Sides : h # g \/ o # s => sc'[<<h, o>>] = sc[<<h, o>>]
      /\ UNCHANGED <<wine, bSlot, pc, install, conf, before, pids, missed>>
  BY <1>1 DEF BotInv, BotTypes
<1>3. BotTypes' /\ Modes' /\ SlotsOK' /\ Folders' /\ Locked'
  BY <1>1 DEF BotInv, BotTypes, Modes, SlotsOK, Folders, Holds, Locked
<1>4. ASSUME NEW h \in BotGames, NEW o \in Sides
      PROVE  Placed(h, o)' /\ (~wine' => OnWindows(h, o)')
  <2>. Placed(h, o) /\ (~wine => OnWindows(h, o)) /\ wine' = wine
    BY <1>2 DEF BotInv, Processes
  <2>1. \A k \in BotGames, q \in Sides : sc'[<<k, q>>] = "up" => sc[<<k, q>>] = "up"
    BY <1>2
  <2>2. ~wine => Knows(h, o)'
    BY <1>2, <2>1 DEF OnWindows, Knows, IsMissed
  <2>3. CASE h = g /\ o = s
    BY <2>2, <2>3, <1>2 DEF Placed, IsMissed, IsRunning, OnWindows, Comes, Noted, Installs, Unread
  <2>4. CASE ~(h = g /\ o = s)
    <3>1. sc'[<<h, o>>] = sc[<<h, o>>] /\ UNCHANGED <<wine, bSlot, pc, install, conf, before, pids, missed>>
      BY <2>4, <1>2
    <3>. QED  BY <2>2, <3>1 DEF Placed, IsMissed, IsRunning, OnWindows, Comes, Noted, Installs, Unread
  <2>. QED  BY <2>3, <2>4
<1>5. Owned'
  BY <1>1 DEF BotInv, Owned, OwnProcesses, OwnConfig, B!OwnProcesses, B!OwnConfig
<1>. QED  BY <1>3, <1>4, <1>5 DEF BotInv, Processes

LEMMA BotsStand ==
    ASSUME BotInv,
           UNCHANGED <<wine, bFree, bSlot, pc, lock, install, ini, sc, conf, before, pids, missed>>
    PROVE  BotInv'
<1>1. BotTypes' /\ Modes' /\ SlotsOK' /\ Folders' /\ Locked'
  BY DEF BotInv, BotTypes, Modes, SlotsOK, Folders, Holds, Locked
<1>2. ASSUME NEW h \in BotGames, NEW o \in Sides
      PROVE  Placed(h, o)' /\ (~wine' => OnWindows(h, o)')
  <2>. Placed(h, o) /\ (~wine => OnWindows(h, o))
    BY DEF BotInv, Processes
  <2>. QED  BY DEF Placed, IsMissed, IsRunning, OnWindows, Comes, Knows, Noted, Installs, Unread
<1>3. Owned'
  BY DEF BotInv, Owned, OwnProcesses, OwnConfig, B!OwnProcesses, B!OwnConfig
<1>. QED  BY <1>1, <1>2, <1>3 DEF BotInv, Processes

LEMMA BotsStep ==
    ASSUME BotInv, B!Next
    PROVE  BotInv'
<1>. USE DEF Sides, B!Sides, B!Procs
<1>1. ASSUME NEW g \in BotGames, NEW s \in BotSlots, B!Take(g, s)
      PROVE  BotInv'
  BY <1>1, BotTake
<1>2. ASSUME NEW g \in BotGames, NEW to \in BotStages, pc' = [pc EXCEPT ![g] = to]
      PROVE  /\ pc' \in [BotGames -> BotStages] /\ pc'[g] = to
             /\ \A h \in BotGames : h # g => pc'[h] = pc[h]
  BY <1>2 DEF BotInv, BotTypes
<1>3. ASSUME NEW g \in BotGames, B!TakeFails(g)
      PROVE  BotInv'
  <2>1. /\ pc[g] = "queued" /\ pc' = [pc EXCEPT ![g] = "failed"]
        /\ UNCHANGED <<wine, bFree, bSlot, lock, install, ini, sc, conf, before, pids, missed>>
    BY <1>3 DEF B!TakeFails, B!Goes, B!slots, B!files, B!procs
  <2>. QED  BY <2>1, <1>2, BotMoves DEF BotStages
<1>4. ASSUME NEW g \in BotGames, B!Brain(g)
      PROVE  BotInv'
  <2>1. /\ pc[g] = "brain" /\ pc' = [pc EXCEPT ![g] = "launchB"]
        /\ IsRunning(g, "a") /\ ~IsMissed(g, "a") => conf[<<g, "a">>] # None
        /\ UNCHANGED <<wine, bFree, bSlot, lock, install, ini, sc, conf, before, pids, missed>>
    BY <1>4 DEF B!Brain, B!Goes, B!Launching, B!HasRead, B!Running, IsRunning, IsMissed, B!slots, B!files, B!procs
  <2>. QED  BY <2>1, <1>2, BotMoves DEF BotStages
<1>5. ASSUME NEW g \in BotGames, B!Looks(g)
      PROVE  BotInv'
  <2>1. /\ pc[g] = "play" /\ (pc' = pc \/ pc' = [pc EXCEPT ![g] = "stop"])
        /\ UNCHANGED <<wine, bFree, bSlot, lock, install, ini, sc, conf, before, pids, missed>>
    BY <1>5 DEF B!Looks, B!slots, B!files, B!procs
  <2>. QED  BY <2>1, <1>2, BotsStand, BotMoves DEF BotStages
<1>6. ASSUME NEW g \in BotGames, B!Waited(g)
      PROVE  BotInv'
  <2>1. /\ pc[g] = "play" /\ pc' = [pc EXCEPT ![g] = "stop"]
        /\ UNCHANGED <<wine, bFree, bSlot, lock, install, ini, sc, conf, before, pids, missed>>
    BY <1>6 DEF B!Waited, B!Goes, B!slots, B!files, B!procs
  <2>. QED  BY <2>1, <1>2, BotMoves DEF BotStages
<1>7. ASSUME NEW g \in BotGames, B!Begins(g) \/ B!Finishes(g) \/ B!BrainDies(g)
      PROVE  BotInv'
  BY <1>7, BotsStand DEF B!Begins, B!Finishes, B!BrainDies, B!Elsewhere, B!slots, B!files
<1>8. ASSUME NEW g \in BotGames, B!Stops(g, "stop", "row") \/ B!Stops(g, "stopFailed", "giveBack")
      PROVE  BotInv'
  BY <1>8, BotStops
<1>9. ASSUME NEW g \in BotGames,
              B!Locks(g) \/ B!Unlocks(g) \/ B!GivesBack(g) \/ B!Cancels(g)
       PROVE  BotInv'
  BY <1>9, BotLocks, BotUnlocks, BotGivesBack, BotCancels
<1>10. ASSUME NEW g \in BotGames, NEW s \in Sides,
              B!Launch(g, s) \/ B!Spawn(g, s) \/ B!Sees(g, s) \/ B!GivesUp(g, s)
       PROVE  BotInv'
  BY <1>10, BotLaunch, BotSpawn, BotSees, BotGivesUp
<1>11. ASSUME NEW p \in BotGames \X Sides, B!Appears(p) \/ B!Reads(p) \/ B!Crashes(p)
       PROVE  BotInv'
  <2>1. PICK g \in BotGames, s \in Sides : p = <<g, s>>
    OBVIOUS
  <2>. QED  BY <2>1, <1>11, BotAppears, BotReads, BotCrashes
<1>12. CASE B!Restores
  BY <1>12, BotRestores
<1>. QED  BY <1>1, <1>3, <1>4, <1>5, <1>6, <1>7, <1>8, <1>9, <1>10, <1>11, <1>12 DEF B!Next

\* For any games, slots and faults, on Windows and under Wine, and whatever launch gives
\* up on: see BotInv.
LEMMA BotsInvariant == AllSpec => []BotInv
<1>1. AllInit => BotInv
  BY BotsStart DEF AllInit
<1>2. BotInv /\ [AllNext]_all => BotInv'
  <2>1. ASSUME BotInv, PlaysBots
        PROVE  BotInv'
    BY <2>1, BotsStep DEF PlaysBots
  <2>2. ASSUME BotInv, UNCHANGED bVars
        PROVE  BotInv'
    BY <2>2, BotsStand DEF bVars
  <2>. QED  BY <2>1, <2>2 DEF AllNext, PlaysSelf, all
<1>. QED  BY <1>1, <1>2, PTL DEF AllSpec

\* OwnProcesses of the harness run: a game takes no StarCraft for its own that another
\* one waits for or has taken, so that none is killed under another game; only one that
\* its own launch ended without may be taken by a later launch.
THEOREM OwnProcessesInvariant == AllSpec => []OwnProcesses
<1>1. BotInv => OwnProcesses
  BY DEF BotInv, Owned
<1>. QED  BY <1>1, BotsInvariant, PTL

\* Every StarCraft that its launch saw reads the bwapi.ini that was written for it, though on Windows they
\* all find theirs through one registry value (LAUNCH_LOCK's "launches must not overlap").
THEOREM OwnConfigInvariant == AllSpec => []OwnConfig
<1>1. BotInv => OwnConfig
  BY DEF BotInv, Owned
<1>. QED  BY <1>1, BotsInvariant, PTL

\* Nothing that its launch saw runs any more in the folders, the prefixes and on the port
\* of a free slot.
THEOREM FreeIsIdleInvariant == AllSpec => []FreeIsIdle
<1>1. ASSUME BotInv, NEW p \in BotGames \X Sides, B!Running(p), p \notin missed
      PROVE  bSlot[p[1]] \notin bFree
  <2>1. PICK g \in BotGames, s \in Sides : p = <<g, s>>
    OBVIOUS
  <2>2. Holds(g)
    BY <1>1, <2>1 DEF BotInv, Processes, Placed, IsMissed, Playing, Holds, IsRunning, B!Running
  <2>. QED  BY <1>1, <2>1, <2>2 DEF BotInv, SlotsOK
<1>2. BotInv => FreeIsIdle
  BY <1>1 DEF FreeIsIdle, B!FreeIsIdle, B!Procs, B!Sides, Sides
<1>. QED  BY <1>2, BotsInvariant, PTL

\* No two games that hold a slot hold the same one, and none of them is free.
THEOREM BotSlotsInvariant == AllSpec => []SlotsOK
<1>1. BotInv => SlotsOK
  BY DEF BotInv
<1>. QED  BY <1>1, BotsInvariant, PTL
=============================================================================
