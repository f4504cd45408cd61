---------------------------- MODULE OrdersProofs ----------------------------
(***************************************************************************)
(* The arbitration of units, for any units, slots, priorities and any      *)
(* number of commands; the worker pool, for any workers, patches and       *)
(* refineries; the commands' way into the game, for any units, types,      *)
(* budget and window.                                                      *)
(***************************************************************************)
EXTENDS Orders, CollectionTheorems

-----------------------------------------------------------------------------
(* Sorting: a command's rank is its place in the sorted list.              *)

\* What a command list holds.
LEMMA CommandFields ==
    ASSUME NEW cs \in Seq(Command), NEW i \in DOMAIN cs
    PROVE  /\ cs[i] \in Command /\ i \in 1..Len(cs) /\ i \in Nat
           /\ cs[i].unit \in Units /\ cs[i].owner \in Slots
           /\ cs[i].prio \in Nat /\ cs[i].seq \in Nat
<1>1. cs[i] \in Command /\ i \in 1..Len(cs)
  OBVIOUS
<1>. QED  BY <1>1 DEF Command

\* The order of the sort is total.
LEMMA BeforeTotal ==
    ASSUME NEW cs \in Seq(Command), NEW i \in DOMAIN cs, NEW j \in DOMAIN cs
    PROVE  /\ Before(cs, i, j) \/ Before(cs, j, i)
           /\ Before(cs, i, j) /\ Before(cs, j, i) => i = j
           /\ Before(cs, i, i)
<1>1. cs[i].prio \in Nat /\ cs[j].prio \in Nat /\ i \in Nat /\ j \in Nat
  BY CommandFields
<1>. QED  BY <1>1 DEF Before

LEMMA BeforeTransitive ==
    ASSUME NEW cs \in Seq(Command), NEW i \in DOMAIN cs, NEW j \in DOMAIN cs,
           NEW k \in DOMAIN cs, Before(cs, i, j), Before(cs, j, k)
    PROVE  Before(cs, i, k)
<1>1. \A l \in {i, j, k} : cs[l].prio \in Nat /\ l \in Nat
  BY CommandFields
<1>. QED  BY <1>1 DEF Before

\* A set of places of a list is finite.
LEMMA RankedFinite ==
    ASSUME NEW cs \in Seq(Command), NEW K \in SUBSET DOMAIN cs
    PROVE  IsFiniteSet(K) /\ Cardinality(K) \in Nat
<1>1. IsFiniteSet(1..Len(cs))
  BY FS_Interval
<1>2. IsFiniteSet(K)
  BY <1>1, FS_Subset
<1>. QED  BY <1>2, FS_CardinalityType

\* A rank is a place of the sorted list.
LEMMA RankBounds ==
    ASSUME NEW cs \in Seq(Command), NEW K \in SUBSET DOMAIN cs, NEW i \in K
    PROVE  Rank(cs, K, i) \in 1..Cardinality(K)
<1>. DEFINE upto == {j \in K : Before(cs, j, i)}
<1>1. IsFiniteSet(K) /\ Cardinality(K) \in Nat
  BY RankedFinite
<1>2. IsFiniteSet(upto) /\ Cardinality(upto) \in Nat
  BY RankedFinite
<1>3. Cardinality(upto) <= Cardinality(K)
  BY <1>1, FS_Subset
<1>4. i \in upto
  BY BeforeTotal
<1>5. Cardinality(upto) # 0
  BY <1>2, <1>4, FS_EmptySet
<1>. QED  BY <1>1, <1>2, <1>3, <1>5 DEF Rank

\* What comes before has the lower rank.
LEMMA RankMonotone ==
    ASSUME NEW cs \in Seq(Command), NEW K \in SUBSET DOMAIN cs,
           NEW i \in K, NEW j \in K, i # j, Before(cs, i, j)
    PROVE  Rank(cs, K, i) < Rank(cs, K, j)
<1>. DEFINE A == {k \in K : Before(cs, k, i)}
            B == {k \in K : Before(cs, k, j)}
<1>1. IsFiniteSet(B) /\ Cardinality(A) \in Nat /\ Cardinality(B) \in Nat
  BY RankedFinite
<1>2. A \subseteq B
  BY BeforeTransitive
<1>3. j \in B /\ j \notin A
  BY BeforeTotal
<1>4. Cardinality(A) <= Cardinality(B) /\ (Cardinality(B) = Cardinality(A) => B = A)
  BY <1>1, <1>2, FS_Subset
<1>. QED  BY <1>1, <1>3, <1>4 DEF Rank

\* Every place of the sorted list is taken.
LEMMA RankOnto ==
    ASSUME NEW cs \in Seq(Command), NEW K \in SUBSET DOMAIN cs, NEW k \in 1..Cardinality(K)
    PROVE  \E i \in K : Rank(cs, K, i) = k
<1>. DEFINE n == Cardinality(K)
            f == [i \in K |-> Rank(cs, K, i)]
<1>1. IsFiniteSet(K) /\ n \in Nat
  BY RankedFinite
<1>2. f \in [K -> 1..n]
  BY RankBounds
<1>3. \A i, j \in K : f[i] = f[j] => i = j
  <2>. SUFFICES ASSUME NEW i \in K, NEW j \in K, i # j  PROVE f[i] # f[j]
    OBVIOUS
  <2>1. f[i] \in 1..n /\ f[j] \in 1..n
    BY <1>2
  <2>2. CASE Before(cs, i, j)
    <3>1. f[i] < f[j]
      BY <2>2, RankMonotone
    <3>. QED  BY <3>1, <2>1, <1>1
  <2>3. CASE Before(cs, j, i)
    <3>1. f[j] < f[i]
      BY <2>3, RankMonotone
    <3>. QED  BY <3>1, <2>1, <1>1
  <2>. QED  BY <2>2, <2>3, BeforeTotal
<1>4. f \in Injection(K, 1..n)
  BY <1>2, <1>3 DEF Injection, IsInjective
<1>5. IsFiniteSet(1..n) /\ Cardinality(1..n) = n
  BY <1>1, FS_Interval
<1>6. f \in Surjection(K, 1..n)
  BY <1>4, <1>5, FS_Injection
<1>. QED  BY <1>6 DEF Surjection

\* The first of some commands.
LEMMA FirstExists ==
    ASSUME NEW cs \in Seq(Command), NEW K \in SUBSET DOMAIN cs, K # {}
    PROVE  \E i \in K : \A j \in K : Before(cs, i, j)
<1>1. IsFiniteSet(K) /\ Cardinality(K) \in Nat
  BY RankedFinite
<1>2. Cardinality(K) # 0
  BY <1>1, FS_EmptySet
<1>3. PICK i \in K : Rank(cs, K, i) = 1
  BY <1>1, <1>2, RankOnto
<1>4. ASSUME NEW j \in K  PROVE Before(cs, i, j)
  <2>1. CASE i = j
    BY <2>1, BeforeTotal
  <2>2. CASE i # j
    <3>1. Rank(cs, K, j) \in 1..Cardinality(K)
      BY RankBounds
    <3>2. ~ Before(cs, j, i)
      BY <1>1, <1>3, <2>2, <3>1, RankMonotone
    <3>. QED  BY <3>2, BeforeTotal
  <2>. QED  BY <2>1, <2>2
<1>. QED  BY <1>4

\* A function on 1..n is a sequence of length n.
LEMMA ListOf ==
    ASSUME NEW S, NEW n \in Nat, NEW t \in [1..n -> S]
    PROVE  t \in Seq(S) /\ DOMAIN t = 1..n /\ Len(t) = n
OBVIOUS

\* The sorted list holds each command of K once, in order.
LEMMA Sorted ==
    ASSUME NEW cs \in Seq(Command), NEW K \in SUBSET DOMAIN cs
    PROVE  LET t == ByPriority(cs, K) IN
           /\ t \in Seq(Command)
           /\ DOMAIN t = 1..Len(t)
           /\ \E at \in [DOMAIN t -> K] :
                /\ \A k \in DOMAIN t : t[k] = cs[at[k]]
                /\ \A i \in K : \E k \in DOMAIN t : at[k] = i
                /\ \A k, l \in DOMAIN t : k < l => at[k] # at[l] /\ Before(cs, at[k], at[l])
<1>. DEFINE n == Cardinality(K)
            place(k) == CHOOSE i \in K : Rank(cs, K, i) = k
            at == [k \in 1..n |-> place(k)]
            t == [k \in 1..n |-> cs[place(k)]]
<1>1. n \in Nat
  BY RankedFinite
<1>2. \A k \in 1..n : place(k) \in K /\ Rank(cs, K, place(k)) = k
  BY RankOnto
<1>3. at \in [1..n -> K]
  BY <1>2
<1>4. \A k \in 1..n : t[k] = cs[at[k]] /\ t[k] \in Command
  BY <1>2, CommandFields
<1>5. t \in Seq(Command) /\ DOMAIN t = 1..n /\ Len(t) = n
  <2>1. t \in [1..n -> Command]
    BY <1>4
  <2>. QED  BY <1>1, <2>1, ListOf
<1>6. ASSUME NEW i \in K  PROVE \E k \in 1..n : at[k] = i
  <2>1. Rank(cs, K, i) \in 1..n
    BY RankBounds
  <2>. DEFINE j == place(Rank(cs, K, i))
  <2>2. j \in K /\ Rank(cs, K, j) = Rank(cs, K, i)
    BY <1>2, <2>1
  <2>3. ~ (i # j)
    <3>. SUFFICES ASSUME i # j  PROVE FALSE
      OBVIOUS
    <3>. HIDE DEF j
    <3>1. Before(cs, i, j) \/ Before(cs, j, i)
      BY <2>2, BeforeTotal
    <3>2. Rank(cs, K, i) < Rank(cs, K, j) \/ Rank(cs, K, j) < Rank(cs, K, i)
      BY <2>2, <3>1, RankMonotone
    <3>. QED  BY <1>1, <2>1, <2>2, <3>2
  <2>. QED  BY <2>1, <2>3
<1>7. ASSUME NEW k \in 1..n, NEW l \in 1..n, k < l
      PROVE  at[k] # at[l] /\ Before(cs, at[k], at[l])
  <2>1. at[k] \in K /\ at[l] \in K /\ Rank(cs, K, at[k]) = k /\ Rank(cs, K, at[l]) = l
    BY <1>2, <1>3
  <2>2. at[k] # at[l]
    BY <2>1, <1>1, <1>7
  <2>3. ~ Before(cs, at[l], at[k])
    <3>. HIDE DEF at
    <3>1. Before(cs, at[l], at[k]) => Rank(cs, K, at[l]) < Rank(cs, K, at[k])
      BY <2>1, <2>2, RankMonotone
    <3>. QED  BY <3>1, <2>1, <1>1, <1>7
  <2>. QED  BY <2>1, <2>2, <2>3, BeforeTotal
<1>8. t = ByPriority(cs, K)
  BY DEF ByPriority
<1>. HIDE DEF t, at
<1>. QED  BY <1>3, <1>4, <1>5, <1>6, <1>7, <1>8

-----------------------------------------------------------------------------
(* The inductive invariant.                                                *)

\* The strength of a lease is one its owner may claim.
ClaimsOK == \A u \in Units : ~Free(u) => leases[u].prio \in LeasePrios[Owner(u)]

\* A queued command carries its slot's priority and its place in the queue.
QueueOK == \A i \in DOMAIN cmds : cmds[i].prio = CmdPrio[cmds[i].owner] /\ cmds[i].seq = i - 1

\* What the runner is given.
OutOK == phase = "flushed" => out = Flushed(cmds)

IInv == TypeOK /\ ClaimsOK /\ QueueOK /\ LeasesShieldUnits /\ OutOK

\* A unit whose lease a step drops, refreshes or grants anew in this decision
\* is no less shielded than it was.
SameOrNew(u) ==
    \/ leases'[u] = leases[u]
    \/ leases'[u] = NoLease
    \/ /\ leases'[u].owner \in Slots /\ leases'[u].since \in Nat
       /\ \/ leases'[u].owner = leases[u].owner /\ leases'[u].since = leases[u].since
          \/ leases'[u].since = frame

LEMMA ShieldKept ==
    ASSUME TypeOK, LeasesShieldUnits, cmds' = cmds, frame' = frame,
           \A u \in Units : SameOrNew(u)
    PROVE  LeasesShieldUnits'
<1>. SUFFICES ASSUME NEW i \in DOMAIN cmds  PROVE Shielded(cmds[i])'
  BY DEF LeasesShieldUnits
<1>. DEFINE u == cmds[i].unit
<1>1. u \in Units
  BY CommandFields DEF TypeOK
<1>2. Shielded(cmds[i])
  BY DEF LeasesShieldUnits
<1>3. SameOrNew(u)
  BY <1>1
<1>4. frame \in Nat
  BY DEF TypeOK
<1>. QED  BY <1>2, <1>3, <1>4, NoneAssumption DEF Shielded, SameOrNew, NoLease

\* lease() and hold() only drop, refresh or grant.
LEMMA GrantedIsNew ==
    ASSUME TypeOK, NEW s \in Slots, NEW u \in Units, NEW p \in LeasePrios[s]
    PROVE  /\ Granted(s, u, p) \in Lease
           /\ Granted(s, u, p).owner = s /\ Granted(s, u, p).prio = p
           /\ Granted(s, u, p).since = IF Owner(u) = s THEN leases[u].since ELSE frame
<1>1. p \in Nat
  BY PriorityAssumption
<1>2. leases[u] \in Lease \cup {NoLease} /\ frame \in Nat
  BY DEF TypeOK
<1>3. leases[u].since \in Nat
  BY <1>2 DEF Lease, NoLease
<1>. QED  BY <1>1, <1>2, <1>3 DEF Granted, Lease

LEMMA GrantKeepsInvariants ==
    ASSUME IInv, NEW s \in Slots, running = s, NEW p \in LeasePrios[s],
           leases' \in [Units -> Lease \cup {NoLease}],
           \A u \in Units : \/ leases'[u] = leases[u]
                            \/ leases'[u] = NoLease
                            \/ leases'[u] = Granted(s, u, p),
           UNCHANGED <<frame, alive, phase, running, todo, cmds, out>>
    PROVE  IInv'
<1>1. TypeOK'
  BY DEF IInv, TypeOK
<1>2. ClaimsOK'
  <2>. SUFFICES ASSUME NEW u \in Units, ~Free(u)'  PROVE (leases[u].prio \in LeasePrios[Owner(u)])'
    BY DEF ClaimsOK
  <2>1. CASE leases'[u] = leases[u]
    BY <2>1 DEF IInv, ClaimsOK, Free, Owner
  <2>2. CASE leases'[u] = NoLease
    BY <2>2 DEF NoLease, Free, Owner
  <2>3. CASE leases'[u] = Granted(s, u, p)
    BY <2>3, GrantedIsNew DEF IInv, Owner
  <2>. QED  BY <2>1, <2>2, <2>3
<1>3. QueueOK' /\ OutOK'
  BY DEF IInv, QueueOK, OutOK
<1>4. ASSUME NEW u \in Units  PROVE SameOrNew(u)
  <2>1. CASE leases'[u] = Granted(s, u, p)
    <3>1. leases'[u].owner = s /\ leases'[u].since \in Nat
          /\ leases'[u].since = IF leases[u].owner = s THEN leases[u].since ELSE frame
      BY <2>1, GrantedIsNew DEF IInv, Lease, Owner
    <3>. QED  BY <3>1 DEF SameOrNew
  <2>. QED  BY <2>1 DEF SameOrNew
<1>5. LeasesShieldUnits'
  BY <1>4, ShieldKept DEF IInv
<1>. QED  BY <1>1, <1>2, <1>3, <1>5 DEF IInv

LEMMA InitInvariant == Init => IInv
<1>. SUFFICES ASSUME Init  PROVE IInv
  OBVIOUS
<1>1. \A u \in Units : leases[u] = NoLease /\ Free(u)
  BY DEF Init, Free, Owner, NoLease
<1>2. cmds = <<>> /\ cmds \in Seq(Command) /\ DOMAIN cmds = {} /\ out \in Seq(Command)
  BY DEF Init
<1>3. TypeOK
  BY <1>2 DEF Init, TypeOK
<1>. QED  BY <1>1, <1>2, <1>3 DEF Init, IInv, ClaimsOK, QueueOK, LeasesShieldUnits, OutOK

\* A new decision drops the commands and the leases of the units that are gone.
LEMMA BeginKeeps == IInv /\ Begin => IInv'
<1>. SUFFICES ASSUME IInv, Begin  PROVE IInv'
  OBVIOUS
<1>1. cmds' = <<>> /\ cmds' \in Seq(Command) /\ DOMAIN cmds' = {} /\ out' \in Seq(Command)
  BY DEF Begin
<1>2. \A u \in Units : leases'[u] = leases[u] \/ leases'[u] = NoLease
  BY DEF Begin, Synced
<1>3. leases' \in [Units -> Lease \cup {NoLease}]
  BY DEF Begin, Synced, IInv, TypeOK
<1>4. frame' \in Nat /\ alive' \subseteq Units
  BY DEF Begin, IInv, TypeOK
<1>5. TypeOK'
  BY <1>1, <1>3, <1>4 DEF Begin, IInv, TypeOK
<1>6. ClaimsOK'
  BY <1>2 DEF IInv, ClaimsOK, Free, Owner, NoLease
<1>. QED  BY <1>1, <1>5, <1>6 DEF Begin, IInv, QueueOK, LeasesShieldUnits, OutOK

\* A step that touches neither leases, nor commands, nor the frame.
LEMMA QuietStepKeeps ==
    ASSUME IInv, UNCHANGED <<frame, alive, leases, cmds, out>>,
           phase' = phase, running' \in Slots \cup {None}, todo' \subseteq todo,
           running' # None => phase = "ticks"
    PROVE  IInv'
<1>1. TypeOK' /\ ClaimsOK' /\ QueueOK'
  BY DEF IInv, TypeOK, ClaimsOK, QueueOK, Free, Owner
<1>2. LeasesShieldUnits'
  BY DEF IInv, LeasesShieldUnits, Shielded
<1>3. OutOK'
  BY DEF IInv, OutOK
<1>. QED  BY <1>1, <1>2, <1>3 DEF IInv

LEMMA TickStartsKeeps == ASSUME NEW s \in Slots  PROVE IInv /\ TickStarts(s) => IInv'
BY QuietStepKeeps DEF TickStarts

LEMMA TickEndsKeeps == IInv /\ TickEnds => IInv'
BY QuietStepKeeps DEF TickEnds

LEMMA LeaseUnitKeeps ==
    ASSUME NEW s \in Slots, NEW u \in Units, NEW p \in LeasePrios[s]
    PROVE  IInv /\ LeaseUnit(s, u, p) => IInv'
<1>. SUFFICES ASSUME IInv, LeaseUnit(s, u, p)  PROVE IInv'
  OBVIOUS
<1>1. leases \in [Units -> Lease \cup {NoLease}]
  BY DEF IInv, TypeOK
<1>2. Granted(s, u, p) \in Lease
  BY GrantedIsNew DEF IInv
<1>3. leases' = [leases EXCEPT ![u] = Granted(s, u, p)]
  BY DEF LeaseUnit
<1>4. leases' \in [Units -> Lease \cup {NoLease}]
  BY <1>1, <1>2, <1>3
<1>5. \A v \in Units : leases'[v] = leases[v] \/ leases'[v] = Granted(s, v, p)
  BY <1>1, <1>3
<1>. QED  BY <1>4, <1>5, GrantKeepsInvariants DEF LeaseUnit

LEMMA ReleaseUnitKeeps ==
    ASSUME NEW s \in Slots, NEW u \in Units
    PROVE  IInv /\ ReleaseUnit(s, u) => IInv'
<1>. SUFFICES ASSUME IInv, ReleaseUnit(s, u)  PROVE IInv'
  OBVIOUS
<1>1. leases \in [Units -> Lease \cup {NoLease}]
  BY DEF IInv, TypeOK
<1>2. leases' = [leases EXCEPT ![u] = NoLease]
  BY DEF ReleaseUnit
<1>3. TypeOK'
  BY <1>1, <1>2 DEF IInv, TypeOK, ReleaseUnit
<1>4. ClaimsOK'
  BY <1>1, <1>2 DEF IInv, ClaimsOK, Free, Owner, NoLease
<1>5. \A v \in Units : SameOrNew(v)
  BY <1>1, <1>2 DEF SameOrNew
<1>6. LeasesShieldUnits'
  BY <1>5, ShieldKept DEF IInv, ReleaseUnit
<1>7. QueueOK' /\ OutOK'
  BY DEF ReleaseUnit, IInv, QueueOK, OutOK
<1>. QED  BY <1>3, <1>4, <1>6, <1>7 DEF IInv

LEMMA HoldUnitsKeeps ==
    ASSUME NEW s \in Slots, NEW ids \in SUBSET Units, NEW p \in LeasePrios[s]
    PROVE  IInv /\ HoldUnits(s, ids, p) => IInv'
<1>. SUFFICES ASSUME IInv, HoldUnits(s, ids, p)  PROVE IInv'
  OBVIOUS
<1>1. leases \in [Units -> Lease \cup {NoLease}]
  BY DEF IInv, TypeOK
<1>2. \A u \in Units : Granted(s, u, p) \in Lease
  BY GrantedIsNew DEF IInv
<1>3. leases' = Held(s, ids, p)
  BY DEF HoldUnits
<1>4. \A u \in Units : \/ leases'[u] = leases[u]
                       \/ leases'[u] = NoLease
                       \/ leases'[u] = Granted(s, u, p)
  BY <1>3 DEF Held
<1>5. DOMAIN leases' = Units /\ leases' = [u \in Units |-> leases'[u]]
  BY <1>3 DEF Held
<1>6. leases' \in [Units -> Lease \cup {NoLease}]
  BY <1>1, <1>2, <1>4, <1>5
<1>. QED  BY <1>4, <1>6, GrantKeepsInvariants DEF HoldUnits

LEMMA CommandUnitKeeps ==
    ASSUME NEW s \in Slots, NEW u \in Units
    PROVE  IInv /\ CommandUnit(s, u) => IInv'
<1>. SUFFICES ASSUME IInv, CommandUnit(s, u)  PROVE IInv'
  OBVIOUS
<1>. DEFINE c == [unit |-> u, owner |-> s, prio |-> CmdPrio[s], seq |-> Len(cmds)]
            n == Len(cmds)
<1>1. cmds \in Seq(Command) /\ n \in Nat /\ DOMAIN cmds = 1..n
  BY DEF IInv, TypeOK
<1>2. c \in Command
  BY <1>1, PriorityAssumption DEF Command
<1>3. cmds' = Append(cmds, c)
  BY DEF CommandUnit
<1>. HIDE DEF c
<1>4. cmds' \in Seq(Command) /\ DOMAIN cmds' = 1..(n + 1)
      /\ cmds'[n + 1] = c /\ \A i \in 1..n : cmds'[i] = cmds[i]
  BY <1>1, <1>2, <1>3
<1>5. TypeOK' /\ ClaimsOK' /\ OutOK'
  BY <1>4, NoneAssumption DEF IInv, TypeOK, ClaimsOK, OutOK, CommandUnit, Free, Owner
<1>6. QueueOK'
  BY <1>1, <1>4 DEF IInv, QueueOK, c
<1>7. Shielded(c)
  <2>1. u \in Units /\ c.unit = u /\ c.owner = s /\ c.prio = CmdPrio[s]
    BY DEF c
  <2>2. Free(u) \/ Owner(u) = s \/ leases[u].prio < CmdPrio[s]
    BY DEF CommandUnit, Allowed
  <2>3. ~Free(u) => leases[u].prio \in LeasePrios[Owner(u)]
    BY DEF IInv, ClaimsOK
  <2>. QED  BY <2>1, <2>2, <2>3 DEF Shielded, Free, Owner
<1>8. \A i \in 1..n : Shielded(cmds[i])
  BY <1>1 DEF IInv, LeasesShieldUnits
<1>9. LeasesShieldUnits'
  <2>. SUFFICES ASSUME NEW i \in 1..(n + 1)  PROVE Shielded(cmds[i])'
    BY <1>4 DEF LeasesShieldUnits
  <2>1. Shielded(cmds'[i])
    BY <1>1, <1>4, <1>7, <1>8
  <2>. QED  BY <2>1 DEF Shielded, CommandUnit
<1>. QED  BY <1>5, <1>6, <1>9 DEF IInv

LEMMA FlushKeeps == IInv /\ Flush => IInv'
<1>. SUFFICES ASSUME IInv, Flush  PROVE IInv'
  OBVIOUS
<1>1. Flushed(cmds) \in Seq(Command)
  <2>1. cmds \in Seq(Command) /\ Kept(cmds) \in SUBSET DOMAIN cmds
    BY DEF IInv, TypeOK, Kept
  <2>. QED  BY <2>1, Sorted DEF Flushed
<1>2. TypeOK'
  BY <1>1 DEF IInv, TypeOK, Flush
<1>3. ClaimsOK' /\ QueueOK' /\ OutOK'
  BY DEF IInv, ClaimsOK, QueueOK, OutOK, Flush, Free, Owner
<1>4. LeasesShieldUnits'
  BY DEF IInv, LeasesShieldUnits, Shielded, Flush
<1>. QED  BY <1>2, <1>3, <1>4 DEF IInv

LEMMA SendKeeps == IInv /\ Send => IInv'
<1>. SUFFICES ASSUME IInv, Send  PROVE IInv'
  OBVIOUS
<1>1. out \in Seq(Command) /\ Len(out) \in Nat
  BY DEF IInv, TypeOK
<1>2. ASSUME NEW a \in 1..Len(out)  PROVE SubSeq(out, 1, a) \in Seq(Command)
  BY <1>1, SubSeqProperties
<1>3. out' \in Seq(Command)
  BY <1>1, <1>2 DEF Send
<1>4. TypeOK' /\ ClaimsOK' /\ QueueOK' /\ OutOK'
  BY <1>3 DEF IInv, TypeOK, ClaimsOK, QueueOK, OutOK, Send, Free, Owner
<1>5. LeasesShieldUnits'
  BY DEF IInv, LeasesShieldUnits, Shielded, Send
<1>. QED  BY <1>4, <1>5 DEF IInv

LEMMA StepInvariant == IInv /\ [Next]_vars => IInv'
<1>. SUFFICES ASSUME IInv, [Next]_vars  PROVE IInv'
  OBVIOUS
<1>1. CASE Begin
  BY <1>1, BeginKeeps
<1>2. ASSUME NEW s \in Slots, Calls(s)  PROVE IInv'
  <2>1. CASE TickStarts(s)
    BY <2>1, TickStartsKeeps
  <2>2. ASSUME NEW u \in Units, ReleaseUnit(s, u) \/ CommandUnit(s, u)  PROVE IInv'
    BY <2>2, ReleaseUnitKeeps, CommandUnitKeeps
  <2>3. ASSUME NEW u \in Units, NEW p \in LeasePrios[s], LeaseUnit(s, u, p)  PROVE IInv'
    BY <2>3, LeaseUnitKeeps
  <2>4. ASSUME NEW ids \in SUBSET Units, NEW p \in LeasePrios[s], HoldUnits(s, ids, p)  PROVE IInv'
    BY <2>4, HoldUnitsKeeps
  <2>. QED  BY <1>2, <2>1, <2>2, <2>3, <2>4 DEF Calls
<1>3. CASE TickEnds
  BY <1>3, TickEndsKeeps
<1>4. CASE Flush
  BY <1>4, FlushKeeps
<1>5. CASE Send
  BY <1>5, SendKeeps
<1>6. CASE UNCHANGED vars
  <2>1. IInv' = IInv
    BY <1>6 DEF vars, IInv, TypeOK, ClaimsOK, QueueOK, OutOK, LeasesShieldUnits, Shielded, Free, Owner
  <2>. QED  BY <2>1
<1>. QED  BY <1>1, <1>2, <1>3, <1>4, <1>5, <1>6 DEF Next

LEMMA Invariance == Spec => []IInv
BY InitInvariant, StepInvariant, PTL DEF Spec

\* Every variable keeps its type, whatever the components call and in whatever
\* order (UnitLeases, CommandBus).
THEOREM TypeCorrect == Spec => []TypeOK
<1>1. IInv => TypeOK
  BY DEF IInv
<1>. QED  BY <1>1, Invariance, PTL

\* A lease from before the decision shields its unit for the whole decision, in
\* any interleaving of any components' calls.
THEOREM ShieldingHolds == Spec => []LeasesShieldUnits
<1>1. IInv => LeasesShieldUnits
  BY DEF IInv
<1>. QED  BY <1>1, Invariance, PTL

-----------------------------------------------------------------------------
(* Leases change hands by the rules.                                       *)

LEMMA StepNoSeizure ==
    ASSUME IInv, [Next]_vars, NEW u \in Units, ~Free(u)
    PROVE  MayLose(u)
<1>. SUFFICES ASSUME leases'[u].owner # leases[u].owner  PROVE MayLose(u)
  BY DEF MayLose
<1>1. CASE Begin
  <2>1. leases'[u] = leases[u] \/ u \notin alive'
    BY <1>1 DEF Begin, Synced
  <2>. QED  BY <2>1 DEF MayLose
<1>2. ASSUME NEW s \in Slots, Calls(s)  PROVE MayLose(u)
  <2>1. CASE TickStarts(s)
    BY <2>1 DEF TickStarts
  <2>2. ASSUME NEW v \in Units, ReleaseUnit(s, v)  PROVE MayLose(u)
    <3>1. leases' = [leases EXCEPT ![v] = NoLease] /\ Owner(v) = s /\ running = s
      BY <2>2 DEF ReleaseUnit
    <3>2. v = u
      BY <3>1 DEF IInv, TypeOK
    <3>. QED  BY <3>1, <3>2 DEF MayLose, Owner
  <2>3. ASSUME NEW v \in Units, CommandUnit(s, v)  PROVE MayLose(u)
    BY <2>3 DEF CommandUnit
  <2>4. ASSUME NEW v \in Units, NEW p \in LeasePrios[s], LeaseUnit(s, v, p)  PROVE MayLose(u)
    <3>1. leases' = [leases EXCEPT ![v] = Granted(s, v, p)] /\ CanLease(s, v, p) /\ running = s
      BY <2>4 DEF LeaseUnit
    <3>2. v = u /\ leases'[u] = Granted(s, u, p)
      BY <3>1 DEF IInv, TypeOK
    <3>3. leases'[u].owner = s /\ leases'[u].prio = p
      BY <3>2, GrantedIsNew DEF IInv
    <3>. QED  BY <3>1, <3>2, <3>3 DEF MayLose, CanLease, Owner, Free
  <2>5. ASSUME NEW ids \in SUBSET Units, NEW p \in LeasePrios[s], HoldUnits(s, ids, p)  PROVE MayLose(u)
    <3>1. leases' = Held(s, ids, p) /\ running = s
      BY <2>5 DEF HoldUnits
    <3>2. CASE CanLease(s, u, p) /\ leases'[u] = Granted(s, u, p)
      <4>1. leases'[u].owner = s /\ leases'[u].prio = p
        BY <3>2, GrantedIsNew DEF IInv
      <4>. QED  BY <3>1, <3>2, <4>1 DEF MayLose, CanLease, Owner, Free
    <3>3. CASE Owner(u) = s
      BY <3>1, <3>3 DEF MayLose, Owner
    <3>4. CASE leases'[u] = leases[u]
      BY <3>4
    <3>. QED  BY <3>1, <3>2, <3>3, <3>4 DEF Held
  <2>. QED  BY <1>2, <2>1, <2>2, <2>3, <2>4, <2>5 DEF Calls
<1>3. CASE TickEnds \/ Flush \/ Send \/ UNCHANGED vars
  BY <1>3 DEF TickEnds, Flush, Send, vars
<1>. QED  BY <1>1, <1>2, <1>3 DEF Next

\* A lease leaves its owner only by its own hand, to a strictly higher bid or
\* with the unit (UnitLeases.lease, release, hold and sync).
THEOREM NoSeizureHolds == Spec => NoSeizure
<1>1. IInv /\ [Next]_vars => [\A u \in Units : ~Free(u) => MayLose(u)]_vars
  BY StepNoSeizure
<1>. QED  BY <1>1, Invariance, PTL DEF Spec, NoSeizure

-----------------------------------------------------------------------------
(* The flush and the trim.                                                 *)

\* The winner's command is first among those for its unit.
LEMMA WinnerFirst ==
    ASSUME TypeOK, NEW u \in Units, ForUnit(cmds, u) # {}
    PROVE  \E w \in ForUnit(cmds, u) :
              /\ \A j \in ForUnit(cmds, u) : Before(cmds, w, j)
              /\ Winner(cmds, u) = cmds[w].owner
<1>. DEFINE K == ForUnit(cmds, u)
            w == CHOOSE i \in K : \A j \in K : Before(cmds, i, j)
<1>1. cmds \in Seq(Command) /\ K \in SUBSET DOMAIN cmds
  BY DEF TypeOK, ForUnit
<1>2. \E i \in K : \A j \in K : Before(cmds, i, j)
  BY <1>1, FirstExists
<1>3. w \in K /\ \A j \in K : Before(cmds, w, j)
  BY <1>2
<1>4. Winner(cmds, u) = cmds[w].owner
  BY DEF Winner
<1>. QED  BY <1>3, <1>4

\* What flush leaves: the kept commands, each once, the more important first.
LEMMA FlushedOrder ==
    ASSUME TypeOK
    PROVE  \E at \in [DOMAIN Flushed(cmds) -> Kept(cmds)] :
              /\ \A k \in DOMAIN Flushed(cmds) : Flushed(cmds)[k] = cmds[at[k]]
              /\ \A i \in Kept(cmds) : \E k \in DOMAIN Flushed(cmds) : at[k] = i
              /\ \A k, l \in DOMAIN Flushed(cmds) :
                    k < l => at[k] # at[l] /\ Before(cmds, at[k], at[l])
<1>1. cmds \in Seq(Command) /\ Kept(cmds) \in SUBSET DOMAIN cmds
  BY DEF TypeOK, Kept
<1>. QED  BY <1>1, Sorted DEF Flushed

LEMMA OneMasterHolds ==
    ASSUME TypeOK, QueueOK, out = Flushed(cmds), NEW u \in {c.unit : c \in Range(cmds)}
    PROVE  OneMaster(u)
<1>. DEFINE asked == {c \in Range(cmds) : c.unit = u}
            got   == {c \in Range(out) : c.unit = u}
<1>1. cmds \in Seq(Command) /\ DOMAIN cmds \subseteq Nat
  BY DEF TypeOK
<1>2. PICK q \in DOMAIN cmds : cmds[q].unit = u
  BY DEF Range
<1>3. u \in Units /\ q \in ForUnit(cmds, u)
  BY <1>1, <1>2, CommandFields DEF ForUnit
<1>4. PICK w \in ForUnit(cmds, u) :
        /\ \A j \in ForUnit(cmds, u) : Before(cmds, w, j)
        /\ Winner(cmds, u) = cmds[w].owner
  BY <1>3, WinnerFirst
<1>5. w \in DOMAIN cmds /\ cmds[w].unit = u /\ w \in Kept(cmds)
  BY <1>4 DEF ForUnit, Kept
<1>6. PICK at \in [DOMAIN out -> Kept(cmds)] :
        /\ \A k \in DOMAIN out : out[k] = cmds[at[k]]
        /\ \A i \in Kept(cmds) : \E k \in DOMAIN out : at[k] = i
        /\ \A k, l \in DOMAIN out : k < l => at[k] # at[l] /\ Before(cmds, at[k], at[l])
  BY FlushedOrder
<1>7. \A i \in Kept(cmds) : i \in DOMAIN cmds /\ cmds[i].owner = Winner(cmds, cmds[i].unit)
  BY DEF Kept
<1>. DEFINE top == cmds[w]
<1>8. top \in got
  BY <1>5, <1>6 DEF Range
<1>9. got = {c \in asked : c.owner = top.owner}
  <2>1. ASSUME NEW c \in got  PROVE c \in asked /\ c.owner = top.owner
    <3>1. PICK k \in DOMAIN out : c = out[k]
      BY DEF Range
    <3>2. c = cmds[at[k]] /\ at[k] \in Kept(cmds)
      BY <1>6, <3>1
    <3>. QED  BY <1>4, <1>7, <3>2 DEF Range
  <2>2. ASSUME NEW c \in asked, c.owner = top.owner  PROVE c \in got
    <3>1. PICK i \in DOMAIN cmds : c = cmds[i]
      BY DEF Range
    <3>2. i \in Kept(cmds)
      BY <1>4, <2>2, <3>1 DEF Kept
    <3>. QED  BY <1>6, <3>1, <3>2 DEF Range
  <2>. QED  BY <2>1, <2>2
<1>10. ASSUME NEW c \in asked
       PROVE  c.prio < top.prio \/ (c.prio = top.prio /\ top.seq <= c.seq)
  <2>1. PICK i \in DOMAIN cmds : c = cmds[i]
    BY DEF Range
  <2>2. Before(cmds, w, i)
    BY <1>4, <2>1 DEF ForUnit
  <2>3. cmds[w].seq = w - 1 /\ cmds[i].seq = i - 1
    BY <1>5 DEF QueueOK
  <2>4. w \in Nat /\ i \in Nat /\ cmds[w].prio \in Nat /\ cmds[i].prio \in Nat
    BY <1>1, <1>5, CommandFields
  <2>. QED  BY <2>1, <2>2, <2>3, <2>4 DEF Before
<1>11. ASSUME NEW k \in DOMAIN out, NEW l \in DOMAIN out,
              k < l, out[k].unit = u, out[l].unit = u
       PROVE  out[k].seq < out[l].seq
  <2>. DEFINE i == at[k]
              j == at[l]
  <2>1. i \in Kept(cmds) /\ j \in Kept(cmds) /\ out[k] = cmds[i] /\ out[l] = cmds[j]
        /\ i # j /\ Before(cmds, i, j)
    BY <1>6, <1>11
  <2>. HIDE DEF i, j
  <2>2. cmds[i].owner = cmds[j].owner /\ i \in DOMAIN cmds /\ j \in DOMAIN cmds
    BY <1>7, <1>11, <2>1
  <2>3. cmds[i].prio = cmds[j].prio /\ cmds[i].seq = i - 1 /\ cmds[j].seq = j - 1
    BY <2>2 DEF QueueOK
  <2>4. i \in Nat /\ j \in Nat /\ cmds[i].prio \in Nat /\ cmds[j].prio \in Nat
    BY <1>1, <2>2, CommandFields
  <2>. QED  BY <2>1, <2>3, <2>4 DEF Before
<1>. HIDE DEF top
<1>. QED  BY <1>8, <1>9, <1>10, <1>11 DEF OneMaster

\* Flushing leaves every commanded unit one master, for any number of commands
\* of any slots (CommandBus.flush).
THEOREM FlushArbitratesHolds == Spec => []FlushArbitrates
<1>1. IInv => FlushArbitrates
  BY OneMasterHolds DEF IInv, OutOK, FlushArbitrates
<1>. QED  BY <1>1, Invariance, PTL

LEMMA TrimStep ==
    ASSUME IInv, Send
    PROVE  /\ \A cut \in Range(out) \ Range(out'), kept \in Range(out') : cut.prio <= kept.prio
           /\ cmds # <<>> => out' # <<>>
<1>1. TypeOK /\ QueueOK /\ out = Flushed(cmds) /\ cmds \in Seq(Command) /\ out \in Seq(Command)
  BY DEF IInv, TypeOK, OutOK, Send
<1>2. PICK at \in [DOMAIN out -> Kept(cmds)] :
        /\ \A k \in DOMAIN out : out[k] = cmds[at[k]]
        /\ \A k, l \in DOMAIN out : k < l => Before(cmds, at[k], at[l])
  BY <1>1, FlushedOrder
<1>3. cmds # <<>> => out # <<>>
  <2>. SUFFICES ASSUME cmds # <<>>  PROVE out # <<>>
    OBVIOUS
  <2>1. 1 \in DOMAIN cmds
    BY <1>1
  <2>2. cmds[1].unit \in {c.unit : c \in Range(cmds)}
    BY <2>1 DEF Range
  <2>3. OneMaster(cmds[1].unit)
    BY <1>1, <2>2, OneMasterHolds
  <2>4. Range(out) # {}
    BY <2>3 DEF OneMaster
  <2>. QED  BY <2>4 DEF Range
<1>4. CASE out' = out
  BY <1>3, <1>4
<1>5. ASSUME NEW a \in 1..Len(out), out' = SubSeq(out, 1, a)
      PROVE  /\ \A cut \in Range(out) \ Range(out'), kept \in Range(out') : cut.prio <= kept.prio
             /\ out' # <<>>
  <2>1. Len(out) \in Nat /\ DOMAIN out = 1..Len(out) /\ a \in Nat
    BY <1>1
  <2>2. Len(out') = a /\ DOMAIN out' = 1..a /\ \A l \in 1..a : out'[l] = out[l]
    BY <1>1, <1>5, <2>1
  <2>3. ASSUME NEW cut \in Range(out) \ Range(out'), NEW kept \in Range(out')
        PROVE  cut.prio <= kept.prio
    <3>1. PICK k \in 1..Len(out) : cut = out[k]
      BY <2>1 DEF Range
    <3>2. PICK l \in 1..a : kept = out[l]
      BY <2>2 DEF Range
    <3>3. k \notin 1..a
      BY <2>2, <3>1 DEF Range
    <3>4. l < k /\ l \in DOMAIN out /\ k \in DOMAIN out
      BY <2>1, <3>3
    <3>5. Before(cmds, at[l], at[k]) /\ kept = cmds[at[l]] /\ cut = cmds[at[k]]
      BY <1>2, <3>1, <3>2, <3>4
    <3>6. at[l] \in DOMAIN cmds /\ at[k] \in DOMAIN cmds
      BY <1>2, <3>4 DEF Kept
    <3>7. kept.prio \in Nat /\ cut.prio \in Nat
      BY <1>1, <3>5, <3>6, CommandFields
    <3>. QED  BY <3>5, <3>7 DEF Before
  <2>. QED  BY <2>1, <2>2, <2>3
<1>. QED  BY <1>3, <1>4, <1>5 DEF Send

\* The APM trim cuts from the unimportant end only, and never everything
\* (flush's sort with the slice in runner._play_one).
THEOREM TrimSparesTheImportantHolds == Spec => TrimSparesTheImportant
<1>1. IInv /\ [Next]_vars =>
        [phase = "flushed" /\ phase' = "idle" =>
           /\ \A cut \in Range(out) \ Range(out'), kept \in Range(out') : cut.prio <= kept.prio
           /\ cmds # <<>> => out' # <<>>]_vars
  <2>. SUFFICES ASSUME IInv, [Next]_vars, phase = "flushed", phase' = "idle"
                PROVE  Send
    BY TrimStep
  <2>. QED  BY DEF Next, Begin, Calls, TickStarts, ReleaseUnit, CommandUnit, LeaseUnit,
                   HoldUnits, TickEnds, Flush, vars
<1>. QED  BY <1>1, Invariance, PTL DEF Spec, TrimSparesTheImportant

-----------------------------------------------------------------------------
(* The worker pool                                                         *)

PoolTypes ==
    /\ turn \in {"game", "gas", "minerals"} /\ free \subseteq Workers /\ pTodo \subseteq free
    /\ gas \in [Workers -> Refineries \cup {None}] /\ mineral \in [Workers -> Patches \cup {None}]
    /\ patches \subseteq Patches /\ refs \subseteq Refineries
    /\ per \in {0, GasPerRefinery} /\ moved \in Nat

\* Whoever is leased away is forgotten at once; from the gas step on the refineries
\* are right, nobody has a patch that does not count, and whoever had his turn has
\* one.  Two bases that the transfers have come to are even, or nothing more can be
\* moved.
Forgotten == \A w \in Workers \ free : gas[w] = None /\ mineral[w] = None
GasRight == \A w \in Workers : gas[w] # None =>
    gas[w] \in P!Usable /\ Cardinality(P!OnGas(gas[w])) <= per
PatchesRight ==
    /\ \A w \in Workers : mineral[w] \in P!Fields \cup {None}
    /\ \A w \in free \ pTodo : gas[w] = None /\ P!Fields # {} => mineral[w] \in P!Fields
Compared(s, d) == <<s, d>> \in pairs \/ (pTodo = {} /\ (~P!Unbalanced(s, d) \/ moved = Transfers))
PairsRight == \A s \in P!Mining : \A d \in P!Mining : Compared(s, d)
PoolInv ==
    /\ PoolTypes /\ Forgotten
    /\ turn = "gas" => pTodo = free
    /\ turn = "minerals" => GasRight /\ PatchesRight /\ PairsRight

\* Pool counts as this module does.
LEMMA PoolCounts == \A S : P!Cardinality(S) = Cardinality(S)
  BY DEF P!Cardinality, Cardinality

\* Two sets of workers have no more than their sum together.
LEMMA Together ==
    ASSUME NEW S \in SUBSET Workers, NEW T \in SUBSET Workers
    PROVE  /\ Cardinality(S) \in Nat /\ Cardinality(T) \in Nat /\ Cardinality(S \cup T) \in Nat
           /\ Cardinality(S \cup T) <= Cardinality(S) + Cardinality(T)
<1>1. IsFiniteSet(S) /\ IsFiniteSet(T) /\ IsFiniteSet(S \cap T) /\ IsFiniteSet(S \cup T)
  BY PoolAssumption, FS_Subset
<1>2. Cardinality(S \cup T) = Cardinality(S) + Cardinality(T) - Cardinality(S \cap T)
  BY <1>1, FS_Union
<1>. QED  BY <1>1, <1>2, FS_CardinalityType

LEMMA PoolStart == ASSUME P!Init PROVE PoolInv
  BY DEF P!Init, PoolInv, PoolTypes, Forgotten

LEMMA PoolBegin == ASSUME PoolInv, NEW F \in SUBSET Workers, P!Begin(F) PROVE PoolInv'
<1>1. /\ turn' = "gas" /\ free' = F /\ pTodo' = F /\ moved' = 0
      /\ gas' = [w \in Workers |-> IF w \in F THEN gas[w] ELSE None]
      /\ mineral' = [w \in Workers |-> IF w \in F THEN mineral[w] ELSE None]
      /\ per' \in {0, GasPerRefinery} /\ UNCHANGED <<patches, refs>>
  BY DEF P!Begin, P!game
<1>2. PoolTypes'
  BY <1>1 DEF PoolInv, PoolTypes
<1>. QED  BY <1>1, <1>2 DEF PoolInv, Forgotten

\* The gas step in the names of this module.
GasStep(stay, adopted, added) ==
    LET at(r) == stay[r] \cup adopted[r] \cup added[r]
        new   == UNION {added[r] : r \in P!Usable}
    IN  /\ \A r \in P!Usable :
             /\ stay[r] \subseteq {w \in free : gas[w] = r}
             /\ adopted[r] \subseteq {w \in free : order[w] = r} /\ added[r] \subseteq free
             /\ Cardinality(added[r]) <= per - Cardinality(stay[r]) - Cardinality(adopted[r])
        /\ gas' = [w \in Workers |-> IF \E r \in P!Usable : w \in at(r)
                                     THEN CHOOSE r \in P!Usable : w \in at(r) ELSE None]
        /\ mineral' = [w \in Workers |-> IF w \in new \/ mineral[w] \notin P!Fields THEN None ELSE mineral[w]]

LEMMA GasSteps ==
    ASSUME P!Gas
    PROVE  /\ \E stay, adopted, added \in [P!Usable -> SUBSET free] : GasStep(stay, adopted, added)
           /\ turn = "gas" /\ turn' = "minerals" /\ pairs' = P!Mining \X P!Mining
           /\ UNCHANGED <<hall, patches, refs, per, free, pTodo, moved>>
<1>1. PICK stay, adopted, added \in [P!Usable -> SUBSET free] : P!GasGoes(stay, adopted, added)
  BY DEF P!Gas
<1>2. GasStep(stay, adopted, added)
  <2>1. \A r \in P!Usable :
            /\ P!Fills(stay[r], {w \in free : gas[w] = r}, per)
            /\ P!Fills(adopted[r], {w \in free : order[w] = r /\ \A q \in P!Usable : w \notin stay[q]},
                       per - P!Cardinality(stay[r]))
            /\ added[r] \subseteq free
            /\ P!Cardinality(added[r]) <= per - P!Cardinality(stay[r]) - P!Cardinality(adopted[r])
    BY <1>1 DEF P!GasGoes
  <2>2. \A r \in P!Usable : /\ stay[r] \subseteq {w \in free : gas[w] = r}
                            /\ adopted[r] \subseteq {w \in free : order[w] = r}
    BY <2>1 DEF P!Fills
  <2>. QED  BY <1>1, <2>1, <2>2, PoolCounts DEF P!GasGoes, GasStep
<1>. QED  BY <1>2 DEF P!Gas, P!game

\* It leaves at a refinery only whom it put, adopted or kept there.
LEMMA PoolGas == ASSUME PoolInv, P!Gas PROVE PoolInv'
<1>1. PICK stay, adopted, added \in [P!Usable -> SUBSET free] : GasStep(stay, adopted, added)
  BY GasSteps
<1>. DEFINE at(r) == stay[r] \cup adopted[r] \cup added[r]
<1>2. /\ turn = "gas" /\ turn' = "minerals" /\ pTodo = free /\ pairs' = P!Mining \X P!Mining
      /\ UNCHANGED <<hall, patches, refs, per, free, pTodo, moved>>
      /\ PoolTypes /\ Forgotten
  BY GasSteps DEF PoolInv
<1>3. P!Fields' = P!Fields /\ P!Usable' = P!Usable /\ P!Mining' = P!Mining
  BY <1>2 DEF P!Fields, P!Usable, P!Done, P!Mining, P!FieldsOf
<1>4. ASSUME NEW w \in Workers
      PROVE  \/ gas'[w] \in P!Usable /\ w \in at(gas'[w]) /\ w \in free
             \/ gas'[w] = None
  BY <1>1, <1>4 DEF GasStep
<1>5. /\ gas' \in [Workers -> Refineries \cup {None}] /\ mineral' \in [Workers -> Patches \cup {None}]
      /\ \A w \in Workers : mineral'[w] \in {None, mineral[w]} /\ mineral'[w] \in P!Fields \cup {None}
  <2>1. P!Usable \subseteq Refineries
    BY <1>2 DEF PoolTypes, P!Usable
  <2>2. \A w \in Workers : gas'[w] \in Refineries \cup {None}
    BY <1>4, <2>1
  <2>. QED  BY <1>1, <1>2, <2>2 DEF GasStep, PoolTypes
<1>6. PoolTypes'
  BY <1>2, <1>5 DEF PoolTypes
<1>7. Forgotten'
  BY <1>2, <1>4, <1>5 DEF Forgotten
<1>8. GasRight'
  <2>1. ASSUME NEW w \in Workers, gas'[w] # None
        PROVE  gas'[w] \in P!Usable /\ Cardinality({v \in Workers : gas'[v] = gas'[w]}) <= per
    <3>. DEFINE r == gas'[w]  a == stay[r]  b == adopted[r]  c == added[r]
                S == {v \in Workers : gas'[v] = r}
    <3>1. r \in P!Usable /\ S \subseteq at(r)
      BY <1>4, <2>1
    <3>2. /\ a \in SUBSET Workers /\ b \in SUBSET Workers /\ c \in SUBSET Workers
          /\ Cardinality(c) <= per - Cardinality(a) - Cardinality(b) /\ per \in Nat
      BY <1>1, <1>2, <3>1, PoolAssumption DEF GasStep, PoolTypes
    <3>. HIDE DEF r, a, b, c, S
    <3>3. /\ Cardinality(a) \in Nat /\ Cardinality(b) \in Nat /\ Cardinality(c) \in Nat
          /\ Cardinality(a \cup b) \in Nat /\ Cardinality((a \cup b) \cup c) \in Nat
          /\ Cardinality(a \cup b) <= Cardinality(a) + Cardinality(b)
          /\ Cardinality((a \cup b) \cup c) <= Cardinality(a \cup b) + Cardinality(c)
      BY <3>2, Together
    <3>4. Cardinality((a \cup b) \cup c) <= per
      BY <3>2, <3>3
    <3>5. S \in SUBSET ((a \cup b) \cup c) /\ IsFiniteSet((a \cup b) \cup c)
      BY <3>1, <3>2, PoolAssumption, FS_Subset DEF a, b, c
    <3>6. Cardinality(S) <= Cardinality((a \cup b) \cup c) /\ Cardinality(S) \in Nat
      BY <3>5, FS_Subset, FS_CardinalityType
    <3>. QED  BY <3>1, <3>2, <3>3, <3>4, <3>6 DEF r, S
  <2>. QED  BY <2>1, <1>2, <1>3 DEF GasRight, P!OnGas
<1>9. PatchesRight'
  BY <1>2, <1>3, <1>5 DEF PatchesRight
<1>10. PairsRight'
  BY <1>2, <1>3 DEF PairsRight, Compared
<1>. QED  BY <1>2, <1>6, <1>7, <1>8, <1>9, <1>10 DEF PoolInv

\* Where assign sends a worker is a field of that base.
LEMMA AssignsField ==
    ASSUME PoolTypes, NEW w \in Workers, NEW b, P!Assign(w, b)
    PROVE  \E p \in P!FieldsOf(b) : p \in P!Fields /\ p \in Patches /\ mineral' = [mineral EXCEPT ![w] = p]
<1>1. PICK p \in P!LeastLoaded(b) : mineral' = [mineral EXCEPT ![w] = p]
  BY DEF P!Assign
<1>2. p \in P!FieldsOf(b) /\ p \in P!Fields /\ p \in Patches
  BY <1>1 DEF P!LeastLoaded, P!FieldsOf, P!Fields, PoolTypes
<1>. QED  BY <1>1, <1>2

LEMMA PoolSettle == ASSUME PoolInv, NEW w \in Workers, P!Settle(w) PROVE PoolInv'
<1>1. /\ turn = "minerals" /\ w \in pTodo /\ pTodo' = pTodo \ {w} /\ w \in free
      /\ UNCHANGED <<hall, patches, refs, gas, per, free, turn, pairs, moved>>
      /\ PoolTypes /\ Forgotten /\ GasRight /\ PatchesRight /\ PairsRight
  BY DEF P!Settle, P!game, PoolInv, PoolTypes
<1>2. P!Fields' = P!Fields /\ P!Usable' = P!Usable /\ P!Mining' = P!Mining /\ \A r : P!OnGas(r)' = P!OnGas(r)
  BY <1>1 DEF P!Fields, P!Usable, P!Done, P!OnGas, P!Mining, P!FieldsOf
<1>3. \/ mineral' = mineral /\ (P!Fields = {} \/ gas[w] # None \/ mineral[w] # None)
      \/ \E p \in P!Fields : p \in Patches /\ mineral' = [mineral EXCEPT ![w] = p]
  BY <1>1, AssignsField DEF P!Settle
<1>4. PoolTypes'
  BY <1>1, <1>3 DEF PoolTypes
<1>5. Forgotten'
  BY <1>1, <1>3 DEF Forgotten, PoolTypes
<1>6. GasRight'
  BY <1>1, <1>2 DEF GasRight
<1>7. PatchesRight'
  <2>1. CASE mineral' = mineral
    BY <2>1, <1>1, <1>2, <1>3 DEF PatchesRight, PoolTypes
  <2>2. ASSUME NEW p \in P!Fields, mineral' = [mineral EXCEPT ![w] = p]
        PROVE  PatchesRight'
    BY <2>2, <1>1, <1>2 DEF PatchesRight, PoolTypes
  <2>. QED  BY <1>3, <2>1, <2>2
<1>8. PairsRight'
  <2>1. pTodo # {}
    BY <1>1
  <2>. SUFFICES ASSUME NEW s \in P!Mining', NEW d \in P!Mining'
                PROVE  Compared(s, d)'
    BY DEF PairsRight
  <2>2. <<s, d>> \in pairs'
    BY <1>1, <1>2, <2>1 DEF PairsRight, Compared
  <2>. QED  BY <2>2 DEF Compared
<1>. QED  BY <1>1, <1>4, <1>5, <1>6, <1>7, <1>8 DEF PoolInv

\* A move makes no base uneven: the one it leaves had too many, the one it goes to
\* too few.
LEMMA MoveEvens ==
    ASSUME PoolInv, NEW src \in Bases, NEW dst \in Bases, P!Move(src, dst), NEW b \in Bases
    PROVE  (P!Over(b)' > 0 => P!Over(b) > 0) /\ (P!Over(b)' < 0 => P!Over(b) < 0)
<1>1. /\ UNCHANGED <<hall, patches, refs>> /\ PoolTypes /\ P!Unbalanced(src, dst)
  BY DEF P!Move, P!game, PoolInv
<1>2. \A c : P!FieldsOf(c)' = P!FieldsOf(c)
  BY <1>1 DEF P!Fields, P!Done, P!FieldsOf
<1>3. PICK w \in free : mineral[w] \in P!FieldsOf(src) /\ P!Assign(w, dst)
  BY DEF P!Move
<1>4. w \in Workers /\ mineral \in [Workers -> Patches \cup {None}]
  BY <1>1, <1>3 DEF PoolTypes
<1>5. PICK p \in P!FieldsOf(dst) : mineral' = [mineral EXCEPT ![w] = p]
  BY <1>1, <1>3, <1>4, AssignsField
<1>. DEFINE M(c) == P!MinersOf(c)
            N(c) == {v \in Workers : mineral'[v] \in P!FieldsOf(c)}
            share(c) == PerPatch * Cardinality(P!FieldsOf(c))
<1>6. \A c \in Bases : /\ share(c) \in Nat
                       /\ P!Over(c) = Cardinality(M(c)) - share(c)
                       /\ P!Over(c)' = Cardinality(N(c)) - share(c)
  <2>1. \A c : IsFiniteSet(P!FieldsOf(c))
    <3>1. \A c : P!FieldsOf(c) \in SUBSET Patches
      BY <1>1 DEF P!FieldsOf, P!Fields, PoolTypes
    <3>. QED  BY <3>1, PoolAssumption, FS_Subset
  <2>2. \A c : Cardinality(P!FieldsOf(c)) \in Nat
    BY <2>1, FS_CardinalityType
  <2>3. \A c : share(c) \in Nat
    BY <2>2, PoolAssumption
  <2>. QED  BY <1>2, <2>3, PoolCounts DEF P!Over, P!BaseLoad, P!MinersOf
<1>7. \A c, d : c # d => P!FieldsOf(c) \cap P!FieldsOf(d) = {}
  BY DEF P!FieldsOf
<1>8. ASSUME NEW c \in Bases
      PROVE  /\ Cardinality(M(c)) \in Nat /\ Cardinality(N(c)) \in Nat
             /\ Cardinality(N(c)) <= Cardinality(M(c)) + 1
             /\ Cardinality(M(c)) <= Cardinality(N(c)) + 1
             /\ c # dst => Cardinality(N(c)) <= Cardinality(M(c))
             /\ c # src => Cardinality(M(c)) <= Cardinality(N(c))
  <2>1. /\ N(c) \subseteq M(c) \cup {w} /\ M(c) \subseteq N(c) \cup {w}
        /\ c # dst => N(c) \subseteq M(c)
        /\ c # src => M(c) \subseteq N(c)
    BY <1>3, <1>4, <1>5, <1>7 DEF P!MinersOf
  <2>2. /\ IsFiniteSet(M(c)) /\ IsFiniteSet(N(c)) /\ IsFiniteSet(M(c) \cup {w}) /\ IsFiniteSet(N(c) \cup {w})
    <3>1. M(c) \in SUBSET Workers /\ N(c) \in SUBSET Workers /\ M(c) \cup {w} \in SUBSET Workers
          /\ N(c) \cup {w} \in SUBSET Workers
      BY <1>4 DEF P!MinersOf
    <3>. HIDE DEF M, N
    <3>. QED  BY <3>1, PoolAssumption, FS_Subset
  <2>. HIDE DEF M, N
  <2>3. /\ Cardinality(M(c)) \in Nat /\ Cardinality(N(c)) \in Nat
        /\ Cardinality(M(c) \cup {w}) \in Nat /\ Cardinality(M(c) \cup {w}) <= Cardinality(M(c)) + 1
        /\ Cardinality(N(c) \cup {w}) \in Nat /\ Cardinality(N(c) \cup {w}) <= Cardinality(N(c)) + 1
    <3>1. \A S : IsFiniteSet(S) => Cardinality(S) \in Nat
      BY FS_CardinalityType
    <3>2. \A S : IsFiniteSet(S) => Cardinality(S \cup {w}) = IF w \in S THEN Cardinality(S) ELSE Cardinality(S) + 1
      BY FS_AddElement
    <3>3. \A S : IsFiniteSet(S) => /\ Cardinality(S) \in Nat /\ Cardinality(S \cup {w}) \in Nat
                                  /\ Cardinality(S \cup {w}) <= Cardinality(S) + 1
      BY <3>1, <3>2
    <3>. QED  BY <2>2, <3>3
  <2>4. /\ Cardinality(N(c)) <= Cardinality(M(c) \cup {w})
        /\ Cardinality(M(c)) <= Cardinality(N(c) \cup {w})
        /\ c # dst => Cardinality(N(c)) <= Cardinality(M(c))
        /\ c # src => Cardinality(M(c)) <= Cardinality(N(c))
    BY <2>1, <2>2, FS_Subset
  <2>. QED  BY <2>3, <2>4
<1>9. P!Over(src) > 0 /\ P!Over(dst) < 0
  BY <1>1 DEF P!Unbalanced
<1>. HIDE DEF M, N, share
<1>10. CASE b = dst
  BY <1>6, <1>8, <1>9, <1>10
<1>11. CASE b = src
  BY <1>6, <1>8, <1>9, <1>11
<1>12. CASE b # src /\ b # dst
  BY <1>6, <1>8, <1>12
<1>. QED  BY <1>10, <1>11, <1>12

LEMMA PoolMove == ASSUME PoolInv, NEW src \in Bases, NEW dst \in Bases, P!Move(src, dst) PROVE PoolInv'
<1>1. /\ turn = "minerals" /\ UNCHANGED <<hall, patches, refs, gas, per, free, turn, pTodo, pairs>>
      /\ moved' = moved + 1 /\ moved < Transfers
      /\ PoolTypes /\ Forgotten /\ GasRight /\ PatchesRight /\ PairsRight
  BY DEF P!Move, P!Transferring, P!game, PoolInv
<1>2. P!Fields' = P!Fields /\ P!Usable' = P!Usable /\ P!Mining' = P!Mining /\ \A r : P!OnGas(r)' = P!OnGas(r)
  BY <1>1 DEF P!Fields, P!Usable, P!Done, P!OnGas, P!Mining, P!FieldsOf
<1>3. PICK w \in free, p \in P!Fields : p \in Patches /\ mineral' = [mineral EXCEPT ![w] = p]
  <2>1. PICK w \in free : P!Assign(w, dst)
    BY DEF P!Move
  <2>2. w \in Workers
    BY <1>1 DEF PoolTypes
  <2>. QED  BY <2>1, <2>2, <1>1, AssignsField
<1>4. PoolTypes'
  BY <1>1, <1>3 DEF PoolTypes
<1>5. Forgotten'
  BY <1>1, <1>3 DEF Forgotten, PoolTypes
<1>6. GasRight'
  BY <1>1, <1>2 DEF GasRight
<1>7. PatchesRight'
  BY <1>1, <1>2, <1>3 DEF PatchesRight, PoolTypes
<1>8. PairsRight'
  <2>1. moved # Transfers /\ P!Mining \subseteq Bases
    BY <1>1, PoolAssumption DEF PoolTypes, P!Mining
  <2>2. ASSUME NEW s \in P!Mining, NEW d \in P!Mining, <<s, d>> \notin pairs
        PROVE  pTodo = {} /\ ~(P!Over(s)' > 0 /\ P!Over(d)' < 0)
    BY <1>1, <2>1, <2>2, MoveEvens DEF PairsRight, Compared, P!Unbalanced
  <2>. SUFFICES ASSUME NEW s \in P!Mining', NEW d \in P!Mining'
                PROVE  Compared(s, d)'
    BY DEF PairsRight
  <2>3. s \in P!Mining /\ d \in P!Mining /\ pairs' = pairs
    BY <1>1, <1>2
  <2>. QED  BY <1>1, <2>2, <2>3 DEF Compared, P!Unbalanced
<1>. QED  BY <1>1, <1>4, <1>5, <1>6, <1>7, <1>8 DEF PoolInv

LEMMA PoolPass == ASSUME PoolInv, NEW src, NEW dst, P!Pass(src, dst) PROVE PoolInv'
<1>1. /\ turn = "minerals" /\ pTodo = {} /\ pairs' = pairs \ {<<src, dst>>}
      /\ ~P!Unbalanced(src, dst) \/ moved = Transfers
      /\ UNCHANGED <<hall, patches, refs, gas, mineral, per, free, turn, pTodo, moved>>
      /\ PoolTypes /\ Forgotten /\ GasRight /\ PatchesRight /\ PairsRight
  BY DEF P!Pass, P!Transferring, P!game, P!pool, PoolInv
<1>2. /\ P!Fields' = P!Fields /\ P!Usable' = P!Usable /\ P!Mining' = P!Mining
      /\ \A r : P!OnGas(r)' = P!OnGas(r) /\ P!Over(r)' = P!Over(r)
  BY <1>1 DEF P!Fields, P!Usable, P!Done, P!OnGas, P!Mining, P!FieldsOf, P!Over, P!BaseLoad, P!MinersOf
<1>3. PairsRight'
  <2>. SUFFICES ASSUME NEW s \in P!Mining', NEW d \in P!Mining'
                PROVE  Compared(s, d)'
    BY DEF PairsRight
  <2>. SUFFICES ASSUME <<s, d>> \notin pairs'
                PROVE  Compared(s, d)'
    BY DEF Compared
  <2>1. s \in P!Mining /\ d \in P!Mining /\ (<<s, d>> \notin pairs \/ (s = src /\ d = dst))
    BY <1>1, <1>2
  <2>2. ~P!Unbalanced(s, d) \/ moved = Transfers
    BY <1>1, <2>1 DEF PairsRight, Compared
  <2>3. P!Unbalanced(s, d)' <=> P!Unbalanced(s, d)
    BY <1>2 DEF P!Unbalanced
  <2>. QED  BY <1>1, <2>2, <2>3 DEF Compared
<1>. QED  BY <1>1, <1>2, <1>3 DEF PoolInv, PoolTypes, Forgotten, GasRight, PatchesRight

\* Between decisions the game does to the pool's fields and refineries what it likes.
LEMMA PoolStep == ASSUME PoolInv, P!Next PROVE PoolInv'
<1>1. CASE P!End
  <2>1. turn' = "game" /\ UNCHANGED <<patches, refs, gas, mineral, per, free, pTodo, moved>>
    BY <1>1 DEF P!End, P!game, P!pool
  <2>. QED  BY <2>1 DEF PoolInv, PoolTypes, Forgotten
<1>2. ASSUME P!Playing, patches' \subseteq Patches, refs' \subseteq Refineries
      PROVE  PoolInv'
  BY <1>2 DEF P!Playing, P!pool, PoolInv, PoolTypes, Forgotten
<1>3. ASSUME NEW b, P!Builds(b) \/ P!Finished(b) \/ P!Razed(b)
      PROVE  PoolInv'
  BY <1>2, <1>3 DEF P!Builds, P!Finished, P!Razed, P!Faulty, PoolInv, PoolTypes
<1>4. ASSUME NEW r \in Refineries, P!Refines(r) \/ P!Loses(r)
      PROVE  PoolInv'
  BY <1>2, <1>4 DEF P!Refines, P!Loses, P!Faulty, PoolInv, PoolTypes
<1>5. ASSUME NEW p, P!Empties(p) \/ P!Strays(p)
      PROVE  PoolInv'
  BY <1>2, <1>5 DEF P!Empties, P!Strays, P!Faulty, PoolInv, PoolTypes
<1>. QED  BY <1>1, <1>3, <1>4, <1>5, PoolBegin, PoolGas, PoolSettle, PoolMove, PoolPass DEF P!Next

LEMMA PoolInvariant == AllSpec => []PoolInv
<1>1. AllInit => PoolInv
  BY PoolStart DEF AllInit
<1>2. PoolInv /\ [AllNext]_<<which, vars, cVars, pVars>> => PoolInv'
  <2>1. ASSUME PoolInv, UNCHANGED pVars
        PROVE  PoolInv'
    <3>1. /\ P!Fields' = P!Fields /\ P!Usable' = P!Usable /\ P!Mining' = P!Mining
          /\ \A r : P!OnGas(r)' = P!OnGas(r) /\ P!Over(r)' = P!Over(r)
      BY <2>1 DEF pVars, P!Fields, P!Usable, P!Done, P!OnGas, P!Mining, P!FieldsOf, P!Over, P!BaseLoad,
                  P!MinersOf
    <3>. QED  BY <2>1, <3>1 DEF pVars, PoolInv, PoolTypes, Forgotten, GasRight, PatchesRight, PairsRight, Compared,
                                P!Unbalanced
  <2>. QED  BY <2>1, PoolStep DEF AllNext, Arbitrates, Sends, Pools
<1>. QED  BY <1>1, <1>2, PTL DEF AllSpec

\* A decision ends as SharedOut says.
LEMMA PublishedIsShared == ASSUME PoolInv, P!Published PROVE P!SharedOut
<1>1. PoolTypes /\ Forgotten /\ GasRight /\ PatchesRight /\ PairsRight /\ pTodo = {} /\ pairs = {}
  BY DEF PoolInv, P!Published, P!Transferring
<1>2. \A r : Cardinality(P!OnGas(r)) \in Nat
  BY PoolAssumption, FS_Subset, FS_CardinalityType DEF P!OnGas
<1>3. per \in Nat /\ per <= GasPerRefinery
  BY <1>1, PoolAssumption DEF PoolTypes
<1>4. P!Mining # {} => P!Fields # {}
  BY DEF P!Mining, P!FieldsOf
<1>5. ASSUME NEW w \in Workers, gas[w] # None
      PROVE  gas[w] \in P!Usable /\ Cardinality(P!OnGas(gas[w])) <= GasPerRefinery
  BY <1>1, <1>2, <1>3, <1>5, PoolAssumption DEF GasRight
<1>6. \A w \in free : gas[w] # None \/ mineral[w] \in P!Fields \/ P!Mining = {}
  BY <1>1, <1>4 DEF PatchesRight
<1>7. ASSUME NEW src \in P!Mining, NEW dst \in P!Mining, moved # Transfers,
             Cardinality(P!MinersOf(src)) > PerPatch * Cardinality(P!FieldsOf(src)),
             Cardinality(P!MinersOf(dst)) < PerPatch * Cardinality(P!FieldsOf(dst))
      PROVE  FALSE
  <2>. DEFINE m(b) == Cardinality(P!MinersOf(b))  share(b) == PerPatch * Cardinality(P!FieldsOf(b))
  <2>1. ASSUME NEW b  PROVE m(b) \in Nat /\ share(b) \in Nat
    <3>1. P!MinersOf(b) \in SUBSET Workers /\ P!FieldsOf(b) \in SUBSET Patches
      BY <1>1 DEF P!MinersOf, P!FieldsOf, P!Fields, PoolTypes
    <3>2. Cardinality(P!MinersOf(b)) \in Nat /\ Cardinality(P!FieldsOf(b)) \in Nat
      BY <3>1, PoolAssumption, FS_Subset, FS_CardinalityType
    <3>. QED  BY <3>2, PoolAssumption
  <2>2. P!Over(src) = m(src) - share(src) /\ P!Over(dst) = m(dst) - share(dst)
    BY PoolCounts DEF P!Over, P!BaseLoad
  <2>3. ~P!Unbalanced(src, dst)
    BY <1>1, <1>7 DEF PairsRight, Compared
  <2>4. m(src) > share(src) /\ m(dst) < share(dst)
    BY <1>7
  <2>. HIDE DEF m, share
  <2>. QED  BY <2>1, <2>2, <2>3, <2>4 DEF P!Unbalanced
<1>. QED  BY <1>1, <1>5, <1>6, <1>7, PoolCounts DEF P!SharedOut, Forgotten

\* Only the gas step makes a worker count twice, and only one it adopts.
LEMMA TwiceByAdoption == ASSUME PoolInv, P!Next, NEW w \in Workers PROVE P!CountsTwice(w)
<1>. SUFFICES ASSUME ~P!Twice(w), P!Twice(w)'
              PROVE  mineral[w] # None /\ gas'[w] = order[w]
  BY DEF P!CountsTwice
<1>1. gas'[w] # None /\ mineral'[w] # None /\ (gas[w] = None \/ mineral[w] = None) /\ PoolTypes
  BY DEF P!Twice, PoolInv
<1>2. CASE P!Gas
  <2>1. PICK stay, adopted, added \in [P!Usable -> SUBSET free] : GasStep(stay, adopted, added)
    BY <1>2, GasSteps
  <2>2. mineral[w] # None /\ \A r \in P!Usable : w \notin added[r]
    BY <1>1, <2>1 DEF GasStep
  <2>3. \E r \in P!Usable : gas'[w] = r /\ (w \in stay[r] \/ w \in adopted[r])
    BY <1>1, <2>1, <2>2 DEF GasStep
  <2>. QED  BY <1>1, <2>1, <2>2, <2>3 DEF GasStep
<1>3. ASSUME NEW F \in SUBSET Workers, P!Begin(F)  PROVE FALSE
  <2>1. gas'[w] \in {None, gas[w]} /\ mineral'[w] \in {None, mineral[w]}
    BY <1>3 DEF P!Begin
  <2>. QED  BY <1>1, <2>1
<1>4. ASSUME NEW v \in Workers, P!Settle(v)  PROVE FALSE
  <2>1. gas' = gas /\ (mineral' = mineral \/ (gas[v] = None /\ \E p : mineral' = [mineral EXCEPT ![v] = p]))
    BY <1>4 DEF P!Settle, P!Assign
  <2>. QED  BY <1>1, <2>1 DEF PoolTypes
<1>5. ASSUME NEW src, NEW dst, P!Move(src, dst)  PROVE FALSE
  <2>1. PICK v \in free : mineral[v] \in P!FieldsOf(src) /\ P!Assign(v, dst)
    BY <1>5 DEF P!Move
  <2>2. mineral[v] # None
    BY <1>1, <2>1, PoolAssumption DEF P!FieldsOf, P!Fields, PoolTypes
  <2>3. gas' = gas /\ \E p : mineral' = [mineral EXCEPT ![v] = p]
    BY <1>5, <2>1 DEF P!Move, P!Assign
  <2>. QED  BY <1>1, <2>2, <2>3 DEF PoolTypes
<1>6. ASSUME UNCHANGED <<gas, mineral>>  PROVE FALSE
  BY <1>1, <1>6
<1>. QED  BY <1>2, <1>3, <1>4, <1>5, <1>6
     DEF P!Next, P!Pass, P!End, P!pool, P!Strays, P!Builds, P!Finished, P!Razed, P!Refines, P!Loses,
         P!Empties, P!Playing, P!Faulty

\* Shared of the orders run, for any workers, patches, refineries and bases, and
\* whatever the game does to them between two decisions.
THEOREM SharedHolds == AllSpec => Shared
<1>1. PoolInv => (P!Published => P!SharedOut)
  BY PublishedIsShared
<1>2. PoolInv /\ [AllNext]_<<which, vars, cVars, pVars>>
        => [\A w \in Workers : P!CountsTwice(w)]_(P!vars)
  <2>1. ASSUME UNCHANGED pVars  PROVE UNCHANGED P!vars
    BY <2>1 DEF pVars, P!vars, P!game, P!pool
  <2>. QED  BY <2>1, TwiceByAdoption DEF AllNext, Arbitrates, Sends, Pools
<1>. QED  BY <1>1, <1>2, PoolInvariant, PTL DEF AllSpec, Shared, P!Shared
-----------------------------------------------------------------------------
(* The commands                                                            *)

\* Commands picks and counts as this module does.
LEMMA CommandsPick ==
    /\ \A list, ix : C!Picked(list, ix) = Picked(list, ix)
    /\ \A f, S : C!SumFunctionOnSet(f, S) = SumFunctionOnSet(f, S)
<1>1. \A list, ix : C!Picked(list, ix) = Picked(list, ix)
  BY DEF C!Picked, C!Place, C!Cardinality, Picked, Place, Cardinality
<1>2. \A f, S : C!SumFunctionOnSet(f, S) = SumFunctionOnSet(f, S)
  BY DEF C!SumFunctionOnSet, C!FoldFunctionOnSet, C!MapThenFoldSet, SumFunctionOnSet, FoldFunctionOnSet, MapThenFoldSet
<1>. QED  BY <1>1, <1>2

\* The calls' fields.
Kinds == {"alone", "stand", "place", "unit", "make", "tech", "techUnit"}
Args == UnitTypes \cup Techs \cup TargetTechs \cup {None}
Said == [kind : Kinds, unit : Targets, target : Targets \cup {None}, arg : Args, queued : BOOLEAN]
Alone == {C!Call("alone", u, None, None, FALSE) : u \in Targets}
Placed == {C!Call(k, u, None, None, q) : k \in {"stand", "place"}, u \in Targets, q \in BOOLEAN}
Aimed == {C!Call("unit", u, v, None, q) : u \in Targets, v \in Targets, q \in BOOLEAN}
Made == {C!Call("make", u, None, t, FALSE) : u \in Targets, t \in UnitTypes}
Teched == {C!Call("tech", u, None, t, FALSE) : u \in Targets, t \in Techs}
TechAimed == {C!Call("techUnit", u, v, t, q) : u \in Targets, v \in Targets, t \in TargetTechs, q \in BOOLEAN}
\* The kinds of calls, each with its own arguments.
LEMMA CallKinds == C!Calls = Alone \cup Placed \cup Aimed \cup Made \cup Teched \cup TechAimed
  BY DEF C!Calls, C!Call, Alone, Placed, Aimed, Made, Teched, TechAimed

\* What the calls are.
LEMMA CallsAre ==
    ASSUME NEW c \in C!Calls
    PROVE  /\ c \in Said
           /\ c.kind \in {"alone", "make", "tech"} => ~c.queued
           /\ c.kind \in {"alone", "stand", "place", "unit"} => c.arg = None
           /\ c.kind \in {"make", "tech", "techUnit"} => c.arg # None
           /\ c.kind = "techUnit" => c.arg # 0
<1>0. ASSUME NEW k \in Kinds, NEW u \in Targets, NEW v \in Targets \cup {None}, NEW t \in Args, NEW q \in BOOLEAN
      PROVE  /\ C!Call(k, u, v, t, q) \in Said
             /\ C!Call(k, u, v, t, q).kind = k /\ C!Call(k, u, v, t, q).queued = q
             /\ C!Call(k, u, v, t, q).arg = t
  BY DEF C!Call, Said, Kinds, Args
<1>1. CASE c \in Alone
  <2>1. PICK u \in Targets : c = C!Call("alone", u, None, None, FALSE)
    BY <1>1 DEF Alone, C!Call
  <2>2. "alone" \in Kinds /\ FALSE \in BOOLEAN /\ None \in Targets \cup {None} /\ None \in Args
    BY <2>1 DEF Kinds, Args
  <2>3. c \in Said /\ c.kind = "alone" /\ c.arg = None /\ c.queued = FALSE
    <3>. QED  BY <2>1, <2>2 DEF C!Call, Said, Kinds, Args
  <2>. QED  BY <2>1, <2>3, CommandsAssumption
<1>2. CASE c \in Placed
  <2>1. PICK k \in {"stand", "place"}, u \in Targets, q \in BOOLEAN : c = C!Call(k, u, None, None, q)
    BY <1>2 DEF Placed
  <2>2. k \in Kinds /\ None \in Targets \cup {None} /\ None \in Args
    BY <2>1 DEF Kinds, Args
  <2>3. c \in Said /\ c.kind = k /\ c.arg = None /\ c.queued = q
    <3>. HIDE DEF Kinds, Args
    <3>. QED  BY <1>0, <2>1, <2>2
  <2>. QED  BY <2>1, <2>3, CommandsAssumption
<1>3. CASE c \in Aimed
  <2>1. PICK u \in Targets, v \in Targets, q \in BOOLEAN : c = C!Call("unit", u, v, None, q)
    BY <1>3 DEF Aimed
  <2>2. "unit" \in Kinds /\ v \in Targets \cup {None} /\ None \in Targets \cup {None} /\ None \in Args
    BY <2>1 DEF Kinds, Args
  <2>3. c \in Said /\ c.kind = "unit" /\ c.arg = None /\ c.queued = q
    <3>. HIDE DEF Kinds, Args
    <3>. QED  BY <1>0, <2>1, <2>2
  <2>. QED  BY <2>1, <2>3, CommandsAssumption
<1>4. CASE c \in Made
  <2>1. PICK u \in Targets, t \in UnitTypes : c = C!Call("make", u, None, t, FALSE)
    BY <1>4 DEF Made, C!Call
  <2>2. "make" \in Kinds /\ t \in Args /\ FALSE \in BOOLEAN /\ None \in Targets \cup {None} /\ None \in Args
    BY <2>1 DEF Kinds, Args
  <2>3. c \in Said /\ c.kind = "make" /\ c.arg = t /\ c.queued = FALSE
    <3>. QED  BY <2>1, <2>2 DEF C!Call, Said, Kinds, Args
  <2>. QED  BY <2>1, <2>3, CommandsAssumption
<1>5. CASE c \in Teched
  <2>1. PICK u \in Targets, t \in Techs : c = C!Call("tech", u, None, t, FALSE)
    BY <1>5 DEF Teched, C!Call
  <2>2. "tech" \in Kinds /\ t \in Args /\ FALSE \in BOOLEAN /\ None \in Targets \cup {None} /\ None \in Args
    BY <2>1 DEF Kinds, Args
  <2>3. c \in Said /\ c.kind = "tech" /\ c.arg = t /\ c.queued = FALSE
    <3>. QED  BY <2>1, <2>2 DEF C!Call, Said, Kinds, Args
  <2>. QED  BY <2>1, <2>3, CommandsAssumption
<1>6. CASE c \in TechAimed
  <2>1. PICK u \in Targets, v \in Targets, t \in TargetTechs, q \in BOOLEAN : c = C!Call("techUnit", u, v, t, q)
    BY <1>6 DEF TechAimed
  <2>2. "techUnit" \in Kinds /\ t \in Args /\ v \in Targets \cup {None} /\ None \in Targets \cup {None} /\ None \in Args
    BY <2>1 DEF Kinds, Args
  <2>3. c \in Said /\ c.kind = "techUnit" /\ c.arg = t /\ c.queued = q
    <3>. HIDE DEF Kinds, Args
    <3>. QED  BY <1>0, <2>1, <2>2
  <2>. QED  BY <2>1, <2>3, CommandsAssumption
<1>. QED  BY <1>1, <1>2, <1>3, <1>4, <1>5, <1>6, CallKinds

\* What is left out on the wire has its default there.
LEMMA WireIsTrue ==
    ASSUME NEW c, c \in [unit : Targets, type : Kinds, target : Targets \cup {-1},
                         extra : UnitTypes \cup Techs \cup TargetTechs \cup {0}, queued : BOOLEAN]
    PROVE  C!Decoded(C!Encoded(c)) = c
<1>. DEFINE F == {"unit", "type", "target", "extra", "queued"}
            w == C!Encoded(c)
            d == C!Decoded(w)
<1>1. DOMAIN c = F /\ DOMAIN C!Default = F
  BY DEF C!Default
<1>2. DOMAIN w = {f \in F : c[f] # C!Default[f]} /\ \A f \in DOMAIN w : w[f] = c[f]
  BY <1>1 DEF C!Encoded
<1>3. DOMAIN d = F /\ \A f \in F : d[f] = IF f \in DOMAIN w THEN w[f] ELSE C!Default[f]
  BY <1>1 DEF C!Decoded
<1>. HIDE DEF w, d
<1>4. \A f \in F : d[f] = c[f]
  BY <1>2, <1>3
<1>5. d = [f \in F |-> d[f]]
  <2>1. d = [f \in DOMAIN C!Default |-> IF f \in DOMAIN w THEN w[f] ELSE C!Default[f]]
    BY DEF d, C!Decoded
  <2>. QED  BY <1>1, <1>3, <2>1
<1>6. c = [f \in F |-> c[f]]
  BY <1>1
<1>7. d = c
  BY <1>4, <1>5, <1>6
<1>. QED  BY <1>7 DEF d, w

\* What the game reads from the command that arrives is what the bot said, as far as the
\* units are there and a command can be queued.
AsHeard(c, there) == [c EXCEPT !.target = IF @ \in there THEN @ ELSE None,
                               !.queued = @ /\ c.kind \in C!Queueable]
LEMMA ReadAsSaid ==
    ASSUME NEW c \in C!Calls, cAlive \in SUBSET Targets
    PROVE  /\ C!Decoded(C!Encoded(C!Command(c))).unit = c.unit
           /\ C!Reads(C!ApplyUnitCommand(C!Decoded(C!Encoded(C!Command(c))))) = AsHeard(c, cAlive)
<1>. DEFINE d == C!Command(c)
<1>1. /\ c \in Said
      /\ c.kind \in {"alone", "make", "tech"} => ~c.queued
      /\ c.kind \in {"alone", "stand", "place", "unit"} => c.arg = None
      /\ c.kind \in {"make", "tech", "techUnit"} => c.arg # None
      /\ c.kind = "techUnit" => c.arg # 0
  BY CallsAre
<1>2. /\ c.unit \in Targets /\ c.kind \in Kinds /\ c.target \in Targets \cup {None} /\ c.arg \in Args
      /\ c.queued \in BOOLEAN
  BY <1>1 DEF Said, Kinds, Args
<1>3. /\ d.unit = c.unit /\ d.type = c.kind /\ d.target = (IF c.target = None THEN -1 ELSE c.target)
      /\ d.extra = (IF c.arg = None THEN 0 ELSE c.arg) /\ d.queued = c.queued
      /\ d \in [unit : Targets, type : Kinds, target : Targets \cup {-1},
                extra : UnitTypes \cup Techs \cup TargetTechs \cup {0}, queued : BOOLEAN]
  <2>1. c.kind \in Kinds
    BY <1>2
  <2>2. (IF c.arg = None THEN 0 ELSE c.arg) \in UnitTypes \cup Techs \cup TargetTechs \cup {0}
    BY <1>2 DEF Args
  <2>3. (IF c.target = None THEN -1 ELSE c.target) \in Targets \cup {-1}
    BY <1>2
  <2>. DEFINE t == IF c.target = None THEN -1 ELSE c.target
              a == IF c.arg = None THEN 0 ELSE c.arg
              q == c.queued
  <2>4. d = [unit |-> c.unit, type |-> c.kind, target |-> t, extra |-> a, queued |-> q]
    BY DEF C!Command
  <2>5. q \in BOOLEAN
    BY <1>2
  <2>. HIDE DEF t, a, q, d
  <2>6. /\ d.unit = c.unit /\ d.type = c.kind /\ d.target = t /\ d.extra = a /\ d.queued = q
        /\ d \in [unit : Targets, type : Kinds, target : Targets \cup {-1},
                  extra : UnitTypes \cup Techs \cup TargetTechs \cup {0}, queued : BOOLEAN]
    BY <1>2, <2>1, <2>2, <2>3, <2>4, <2>5 DEF t, a
  <2>. QED  BY <2>6 DEF t, a, q
<1>4. C!Decoded(C!Encoded(d)) = d
  BY <1>3, WireIsTrue
<1>. HIDE DEF d
<1>. DEFINE g == C!ApplyUnitCommand(d)
<1>5. /\ g.unit = c.unit /\ g.type = c.kind /\ g.extra = C!Extra(d)
      /\ g.target = IF c.target \in cAlive THEN c.target ELSE None
  BY <1>2, <1>3, CommandsAssumption DEF C!ApplyUnitCommand
<1>6. C!Extra(d) = IF c.queued /\ c.kind \in C!ExtraIsShiftFlag /\ d.extra = 0 THEN 1 ELSE d.extra
  BY <1>3 DEF C!Extra
<1>. HIDE DEF g
<1>. DEFINE r(q) == [kind |-> c.kind, unit |-> c.unit, target |-> IF c.target \in cAlive THEN c.target ELSE None,
                    queued |-> q, arg |-> c.arg]
            Queues == c.queued /\ c.kind \in C!Queueable
<1>7. AsHeard(c, cAlive) = r(Queues)
  <2>1. c = [kind |-> c.kind, unit |-> c.unit, target |-> c.target, arg |-> c.arg, queued |-> c.queued]
    BY <1>1 DEF Said, Kinds, Args
  <2>2. DOMAIN c = {"kind", "unit", "target", "arg", "queued"}
    BY <1>1 DEF Said, Kinds, Args
  <2>3. AsHeard(c, cAlive) = [f \in DOMAIN c |-> IF f = "target" THEN IF c.target \in cAlive THEN c.target ELSE None
                                                 ELSE IF f = "queued" THEN Queues ELSE c[f]]
    BY <2>2, Zenon DEF AsHeard
  <2>4. r(Queues) = [f \in {"kind", "unit", "target", "arg", "queued"} |->
                       IF f = "target" THEN IF c.target \in cAlive THEN c.target ELSE None
                       ELSE IF f = "queued" THEN Queues ELSE c[f]]
    OBVIOUS
  <2>. HIDE DEF r, Queues
  <2>. QED  BY <2>2, <2>3, <2>4
<1>8. C!Reads(g) = r(Queues)
  <2>1. c.kind \in C!Queueable => d.extra = 0 /\ c.arg = None /\ c.kind \in C!ExtraIsShiftFlag
    BY <1>1, <1>3 DEF C!Queueable, C!ExtraIsShiftFlag
  <2>2. (g.type \in C!Queueable /\ g.extra = 1) <=> Queues
    BY <1>5, <1>6, <2>1
  <2>3. c.kind = "alone" => c.arg = None /\ ~(c.kind \in {"make", "tech", "techUnit"})
    BY <1>1
  <2>4. c.kind \in {"make", "tech", "techUnit"} => g.extra = c.arg /\ c.kind \notin C!Queueable
    <3>1. SUFFICES ASSUME c.kind \in {"make", "tech", "techUnit"} PROVE g.extra = c.arg /\ c.kind \notin C!Queueable
      OBVIOUS
    <3>2. d.extra = c.arg /\ c.arg # None
      BY <1>1, <1>3, <3>1
    <3>3. c.queued /\ c.kind \in C!ExtraIsShiftFlag => d.extra # 0
      BY <1>1, <3>1, <3>2 DEF C!ExtraIsShiftFlag
    <3>. QED  BY <1>5, <1>6, <3>1, <3>2, <3>3 DEF C!Queueable
  <2>5. (IF g.type \in {"make", "tech", "techUnit"} THEN g.extra ELSE None) = c.arg
    BY <1>2, <1>5, <2>1, <2>3, <2>4 DEF Kinds, C!Queueable
  <2>6. C!Reads(g) = [kind |-> g.type, unit |-> g.unit, target |-> g.target,
                      queued |-> g.type \in C!Queueable /\ g.extra = 1,
                      arg |-> IF g.type \in {"make", "tech", "techUnit"} THEN g.extra ELSE None]
    BY DEF C!Reads
  <2>7. (g.type \in C!Queueable /\ g.extra = 1) = Queues
    BY <2>2
  <2>8. C!Reads(g) = [kind |-> c.kind, unit |-> c.unit, target |-> IF c.target \in cAlive THEN c.target ELSE None,
                      queued |-> Queues, arg |-> c.arg]
    <3>. HIDE DEF Queues
    <3>. QED  BY <1>5, <2>5, <2>6, <2>7
  <2>. HIDE DEF Queues
  <2>. QED  BY <2>8
<1>9. C!Reads(g) = AsHeard(c, cAlive)
  BY <1>7, <1>8
<1>. QED  BY <1>3, <1>4, <1>9 DEF d, g

\* Calls that are issued do what they say.
HeardOf(s, there) == {i \in DOMAIN s : s[i].unit \in there}
MeantBy(s, got, there) ==
    /\ DOMAIN got = DOMAIN Picked(s, HeardOf(s, there))
    /\ \A i \in DOMAIN got : C!Reads(got[i]) = AsHeard(Picked(s, HeardOf(s, there))[i], there)
LEMMA IssuesMean ==
    ASSUME NEW k \in Nat, NEW b \in [1..k -> C!Calls], cAlive \in SUBSET Targets
    PROVE  MeantBy(b, C!Issues([i \in 1..k |-> C!Encoded(C!Command(b[i]))]), cAlive)
<1>. DEFINE w == [i \in 1..k |-> C!Encoded(C!Command(b[i]))]
            l == [i \in DOMAIN w |-> C!Decoded(w[i])]
            ix == {i \in DOMAIN l : l[i].unit \in cAlive}
<1>1. DOMAIN w = 1..k /\ DOMAIN l = 1..k /\ DOMAIN b = 1..k
  OBVIOUS
<1>2. \A i \in 1..k : b[i] \in C!Calls /\ l[i] = C!Decoded(C!Encoded(C!Command(b[i])))
  OBVIOUS
<1>3. C!Issues(w) = [i \in DOMAIN C!Picked(l, ix) |-> C!ApplyUnitCommand(C!Picked(l, ix)[i])]
  BY DEF C!Issues
<1>. HIDE DEF l
<1>4. ix = HeardOf(b, cAlive)
  <2>1. \A i \in 1..k : l[i].unit = b[i].unit
    BY <1>2, ReadAsSaid
  <2>. QED  BY <1>1, <2>1 DEF HeardOf
<1>5. ix \in SUBSET (1..k)
  BY <1>1
<1>. HIDE DEF ix, w
<1>6. b \in Seq(C!Calls)
  BY SeqDef
<1>7. /\ DOMAIN Picked(b, ix) = 1..Cardinality(ix)
      /\ \A n \in 1..Cardinality(ix) : Place(ix, n) \in ix /\ Picked(b, ix)[n] = b[Place(ix, n)]
  <2>1. ix \in SUBSET DOMAIN b
    BY <1>1, <1>5
  <2>. QED  BY <1>6, <2>1, PickedList
<1>8. DOMAIN Picked(l, ix) = 1..Cardinality(ix) /\ \A n \in 1..Cardinality(ix) : Picked(l, ix)[n] = l[Place(ix, n)]
  BY DEF Picked
<1>9. C!Picked(l, ix) = Picked(l, ix)
  BY CommandsPick
<1>10. ASSUME NEW n \in 1..Cardinality(ix)
       PROVE  C!Reads(C!ApplyUnitCommand(Picked(l, ix)[n])) = AsHeard(Picked(b, ix)[n], cAlive)
  <2>1. Place(ix, n) \in 1..k
    BY <1>5, <1>7
  <2>. DEFINE p == Place(ix, n)
  <2>. HIDE DEF p
  <2>2. b[p] \in C!Calls /\ l[p] = C!Decoded(C!Encoded(C!Command(b[p])))
    BY <1>2, <2>1 DEF p
  <2>3. C!Reads(C!ApplyUnitCommand(l[p])) = AsHeard(b[p], cAlive)
    BY <2>2, ReadAsSaid
  <2>. QED  BY <1>7, <1>8, <2>3 DEF p
<1>11. /\ DOMAIN C!Issues(w) = 1..Cardinality(ix)
       /\ \A n \in 1..Cardinality(ix) : C!Issues(w)[n] = C!ApplyUnitCommand(Picked(l, ix)[n])
  BY <1>3, <1>8, <1>9
<1>12. MeantBy(b, C!Issues(w), cAlive)
  BY <1>4, <1>7, <1>10, <1>11 DEF MeantBy
<1>. QED  BY <1>12 DEF w

\* Nothing said is nothing meant.
LEMMA NothingMeant ==
    ASSUME NEW there PROVE MeantBy(<<>>, <<>>, there)
<1>1. HeardOf(<<>>, there) = {}
  BY DEF HeardOf
<1>2. Cardinality({}) = 0
  BY FS_EmptySet
<1>3. DOMAIN Picked(<<>>, {}) = {}
  BY <1>2 DEF Picked
<1>4. DOMAIN <<>> = {}
  OBVIOUS
<1>5. \A i \in DOMAIN <<>> : FALSE
  BY <1>4
<1>. QED  BY <1>1, <1>3, <1>4, <1>5, Zenon DEF MeantBy

\* The run's Meant is that, of the last decision's calls.
LEMMA MeantIs == C!Meant = MeantBy(said, issued, cAlive) /\ C!Meant' = MeantBy(said', issued', cAlive')
<1>1. \A i : C!Picked(said, HeardOf(said, cAlive)) = Picked(said, HeardOf(said, cAlive))
             /\ C!Picked(said', HeardOf(said', cAlive')) = Picked(said', HeardOf(said', cAlive'))
  BY CommandsPick
<1>. QED  BY <1>1 DEF C!Meant, MeantBy, HeardOf, AsHeard

\* What the meter knows: its window has every command of the last minute, and they are its sum.
Meter(f, w, s, se) ==
    /\ f \in Nat /\ IsFiniteSet(DOMAIN se) /\ DOMAIN se \in SUBSET (0..f)
    /\ \A g \in DOMAIN se : se[g] \in Nat
    /\ DOMAIN w \in SUBSET DOMAIN se /\ \A g \in DOMAIN w : w[g] = se[g]
    /\ s = SumFunctionOnSet(w, DOMAIN w)
    /\ \A g \in DOMAIN se : se[g] > 0 /\ (\A h \in DOMAIN se : g > h - Window) => g \in DOMAIN w

\* The last decision, if it was of more than a command, left its minute within the budget.
Lately(se, now) == {g \in DOMAIN se : g > now - Window}
BudgetKept(se) ==
    \A now \in DOMAIN se :
        (\A h \in DOMAIN se : h <= now) /\ se[now] > 1
            => SumFunctionOnSet(se, Lately(se, now)) * Minute <= Budget * C!Span(now)

\* A whole number of commands a minute is no more than the budget's share of it.
LEMMA ShareOfMinute ==
    ASSUME NEW a \in Nat, NEW m \in Nat \ {0}, NEW x \in Int, x <= a \div m
    PROVE  x * m <= a
<1>. DEFINE q == a \div m
<1>1. q \in Int /\ q * m <= a
  OBVIOUS
<1>. HIDE DEF q
<1>2. x <= q
  BY DEF q
<1>3. x * m <= q * m
  BY <1>1, <1>2
<1>4. x * m \in Int /\ q * m \in Int
  BY <1>1
<1>. QED  BY <1>1, <1>3, <1>4

\* How long the meter looks back.
LEMMA SpanIs ==
    ASSUME NEW f \in Nat
    PROVE  C!Span(f) \in Nat /\ C!Max({MinWindow, C!Min({f, Window})}) = C!Span(f)
<1>. DEFINE e == IF f < Window THEN f ELSE Window
<1>1. MinWindow \in Nat /\ Window \in Nat /\ e \in Nat
  BY CommandsAssumption
<1>2. C!Min({f, Window}) = e
  <2>1. e \in {f, Window} /\ \A y \in {f, Window} : e <= y
    BY <1>1
  <2>2. \A x \in {f, Window} : (\A y \in {f, Window} : x <= y) => x = e
    BY <1>1
  <2>. HIDE DEF e
  <2>. QED  BY <2>1, <2>2 DEF C!Min
<1>. DEFINE m == IF e < MinWindow THEN MinWindow ELSE e
<1>3. C!Max({MinWindow, e}) = m
  <2>. HIDE DEF e
  <2>1. m \in {MinWindow, e} /\ \A y \in {MinWindow, e} : m >= y
    BY <1>1
  <2>2. \A x \in {MinWindow, e} : (\A y \in {MinWindow, e} : x >= y) => x = m
    BY <1>1
  <2>. HIDE DEF m
  <2>. QED  BY <2>1, <2>2 DEF C!Max
<1>4. C!Span(f) = m
  BY DEF C!Span
<1>. HIDE DEF m, e
<1>. QED  BY <1>1, <1>2, <1>3, <1>4 DEF m

\* At least one command is allowed; more than one only within the budget.
LEMMA AllowedIs ==
    ASSUME NEW f \in Nat, sum \in Int
    PROVE  /\ C!CommandsAllowed(f) \in Nat \ {0}
           /\ C!CommandsAllowed(f) > 1 =>
                  C!CommandsAllowed(f) + sum <= (Budget * C!Span(f)) \div Minute
<1>. DEFINE a == Budget * C!Span(f)
            q == a \div Minute
<1>1. C!Span(f) \in Nat /\ Budget \in Nat /\ Minute \in Nat \ {0}
  BY SpanIs, CommandsAssumption
<1>2. a \in Nat
  BY <1>1
<1>. HIDE DEF a
<1>3. q \in Int
  BY <1>1, <1>2
<1>4. C!CommandsAllowed(f) = IF q - sum < 1 THEN 1 ELSE q - sum
  BY DEF C!CommandsAllowed, a
<1>. HIDE DEF q
<1>5. /\ C!CommandsAllowed(f) \in Nat \ {0}
      /\ C!CommandsAllowed(f) > 1 => C!CommandsAllowed(f) + sum <= q
  BY <1>3, <1>4
<1>. QED  BY <1>5 DEF q, a

\* The meter has the sum of some whole numbers.
LEMMA MeterSum ==
    ASSUME NEW f, NEW w, NEW s, NEW se, Meter(f, w, s, se)
    PROVE  /\ IsFiniteSet(DOMAIN w) /\ \A g \in DOMAIN w : w[g] \in Nat
           /\ s \in Nat
<1>1. IsFiniteSet(DOMAIN w) /\ \A g \in DOMAIN w : w[g] \in Nat
  BY FS_Subset DEF Meter
<1>. QED  BY <1>1, SumNat DEF Meter

\* The commands since a frame that is later than any decision are in the meter's sum.
LEMMA LatelyInWindow ==
    ASSUME NEW f, NEW w, NEW s, NEW se, Meter(f, w, s, se)
    PROVE  IsFiniteSet(Lately(se, f)) /\ SumFunctionOnSet(se, Lately(se, f)) \in Nat
           /\ SumFunctionOnSet(se, Lately(se, f)) <= s
<1>. DEFINE L == Lately(se, f)
            A == L \cap DOMAIN w
            Z == L \ DOMAIN w
            O == DOMAIN w \ L
<1>0. Window \in Nat /\ f \in Nat /\ DOMAIN se \in SUBSET Nat /\ \A h \in DOMAIN se : h <= f
  BY CommandsAssumption DEF Meter
<1>1. L \in SUBSET DOMAIN se /\ \A g \in DOMAIN se : se[g] \in Nat
  BY DEF Meter, Lately
<1>2. IsFiniteSet(DOMAIN se) /\ IsFiniteSet(L) /\ IsFiniteSet(A) /\ IsFiniteSet(Z)
  BY <1>1, FS_Subset DEF Meter
<1>3. IsFiniteSet(DOMAIN w) /\ (\A g \in DOMAIN w : w[g] \in Nat) /\ IsFiniteSet(O)
  BY MeterSum, FS_Subset
<1>4. \A g \in Z : se[g] = 0
  <2>1. SUFFICES ASSUME NEW g \in Z PROVE se[g] = 0
    OBVIOUS
  <2>2. g \in DOMAIN se /\ g > f - Window /\ g \notin DOMAIN w
    BY <2>1 DEF Lately
  <2>3. \A h \in DOMAIN se : g > h - Window
    BY <1>0, <2>2
  <2>4. ~(se[g] > 0)
    BY <2>2, <2>3 DEF Meter
  <2>. QED  BY <1>1, <2>2, <2>4
<1>. HIDE DEF L
<1>5. L = A \cup Z /\ A \cap Z = {} /\ DOMAIN w = A \cup O /\ A \cap O = {}
  OBVIOUS
<1>6. SumFunctionOnSet(se, L) = SumFunctionOnSet(se, A) + SumFunctionOnSet(se, Z)
  <2>1. \A g \in A \cup Z : se[g] \in Int
    BY <1>1, <1>5
  <2>2. SumFunctionOnSet(se, A \cup Z) = SumFunctionOnSet(se, A) + SumFunctionOnSet(se, Z)
    <3>. HIDE DEF A, Z
    <3>. QED  BY <1>2, <1>5, <2>1, SumUnion
  <2>. QED  BY <1>5, <2>2
<1>7. SumFunctionOnSet(w, DOMAIN w) = SumFunctionOnSet(w, A) + SumFunctionOnSet(w, O)
  <2>1. \A g \in A \cup O : w[g] \in Int
    BY <1>3, <1>5
  <2>2. SumFunctionOnSet(w, A \cup O) = SumFunctionOnSet(w, A) + SumFunctionOnSet(w, O)
    <3>. HIDE DEF A, O
    <3>. QED  BY <1>2, <1>3, <1>5, <2>1, SumUnion
  <2>. QED  BY <1>5, <2>2
<1>8. SumFunctionOnSet(se, Z) = 0
  <2>. HIDE DEF Z
  <2>. QED  BY <1>2, <1>4, SumZero
<1>9. SumFunctionOnSet(w, A) = SumFunctionOnSet(se, A)
  <2>1. \A g \in A : se[g] \in Int /\ w[g] = se[g]
    BY <1>1 DEF Meter
  <2>. HIDE DEF A
  <2>. QED  BY <1>2, <2>1, SumSame
<1>10. SumFunctionOnSet(w, O) \in Nat
  <2>1. \A g \in O : w[g] \in Nat
    BY <1>3
  <2>. HIDE DEF O
  <2>. QED  BY <1>3, <2>1, SumNat
<1>11. SumFunctionOnSet(se, A) \in Nat
  <2>1. \A g \in A : se[g] \in Nat
    BY <1>1
  <2>. HIDE DEF A
  <2>. QED  BY <1>2, <2>1, SumNat
<1>12. s = SumFunctionOnSet(w, DOMAIN w)
  BY DEF Meter
<1>. HIDE DEF A, Z, O
<1>13. SumFunctionOnSet(se, L) \in Nat /\ SumFunctionOnSet(se, L) <= s
  BY <1>6, <1>7, <1>8, <1>9, <1>10, <1>11, <1>12
<1>. QED  BY <1>2, <1>13 DEF L

\* A decision's commands are added to the meter, and if there are several the minute has room.
LEMMA RecordsDecision ==
    ASSUME Meter(cFrame, window, sum, sent), cFrame \notin DOMAIN sent,
           NEW n \in Nat, n <= C!CommandsAllowed(cFrame), C!Record(cFrame, n),
           sent' = [f \in DOMAIN sent \cup {cFrame} |-> IF f = cFrame THEN n ELSE sent[f]]
    PROVE  Meter(cFrame, window', sum', sent') /\ BudgetKept(sent')
<1>. DEFINE grown == C!Grown(cFrame, n)
            D == DOMAIN grown
            E == C!Expired(grown, cFrame)
            K == D \ E
<1>1. /\ cFrame \in Nat /\ Window \in Nat \ {0} /\ Minute \in Nat \ {0} /\ Budget \in Nat
      /\ DOMAIN sent \in SUBSET (0..cFrame) /\ DOMAIN window \in SUBSET DOMAIN sent
      /\ IsFiniteSet(DOMAIN sent)
      /\ \A g \in DOMAIN sent : sent[g] \in Nat
      /\ \A g \in DOMAIN window : window[g] = sent[g]
      /\ sum = SumFunctionOnSet(window, DOMAIN window)
      /\ \A g \in DOMAIN sent : sent[g] > 0 /\ (\A h \in DOMAIN sent : g > h - Window) => g \in DOMAIN window
  BY CommandsAssumption DEF Meter
<1>2. IsFiniteSet(DOMAIN window) /\ (\A g \in DOMAIN window : window[g] \in Nat) /\ sum \in Nat
  BY MeterSum
<1>3. /\ DOMAIN sent' = DOMAIN sent \cup {cFrame} /\ sent'[cFrame] = n
      /\ \A g \in DOMAIN sent : sent'[g] = sent[g]
  BY <1>1
<1>4. IsFiniteSet(DOMAIN sent') /\ DOMAIN sent' \in SUBSET (0..cFrame) /\ \A g \in DOMAIN sent' : sent'[g] \in Nat
  <2>1. IsFiniteSet(DOMAIN sent')
    BY <1>1, <1>3, FS_AddElement
  <2>. QED  BY <1>1, <1>3, <2>1
<1>5. /\ D = (IF n = 0 THEN DOMAIN window ELSE DOMAIN window \cup {cFrame})
      /\ \A g \in D : grown[g] = sent'[g]
  <2>1. CASE n = 0
    <3>1. grown = window
      BY <2>1 DEF C!Grown
    <3>. HIDE DEF grown
    <3>. QED  BY <1>1, <1>3, <2>1, <3>1
  <2>2. CASE n # 0
    <3>1. grown = [g \in DOMAIN window \cup {cFrame} |-> IF g = cFrame THEN n ELSE window[g]]
      BY <2>2 DEF C!Grown
    <3>2. D = DOMAIN window \cup {cFrame} /\ grown[cFrame] = n /\ \A g \in DOMAIN window : g # cFrame => grown[g] = window[g]
      BY <3>1
    <3>. HIDE DEF grown
    <3>. QED  BY <1>1, <1>3, <2>2, <3>2
  <2>. QED  BY <2>1, <2>2
<1>6. E = {g \in D : g <= cFrame - Window}
  BY DEF C!Expired
<1>7. /\ window' = C!Restrict(grown, K)
      /\ sum' = sum + n - SumFunctionOnSet(grown, E)
  <2>1. C!SumFunctionOnSet(grown, E) = SumFunctionOnSet(grown, E)
    BY CommandsPick
  <2>. QED  BY <2>1 DEF C!Record
<1>8. DOMAIN window' = K /\ \A g \in K : window'[g] = grown[g]
  BY <1>7 DEF C!Restrict
<1>. HIDE DEF grown, E
<1>9. IsFiniteSet(D) /\ IsFiniteSet(E) /\ IsFiniteSet(K) /\ (\A g \in D : grown[g] \in Nat)
      /\ E \in SUBSET D /\ D = E \cup K /\ E \cap K = {}
  <2>1. IsFiniteSet(D)
    <3>1. IsFiniteSet(DOMAIN window \cup {cFrame})
      BY <1>2, FS_AddElement
    <3>. QED  BY <1>2, <1>5, <3>1
  <2>2. E \in SUBSET D /\ D = E \cup K /\ E \cap K = {}
    BY <1>6
  <2>3. IsFiniteSet(E) /\ IsFiniteSet(K)
    BY <2>1, <2>2, FS_Subset
  <2>4. \A g \in D : grown[g] \in Nat
    BY <1>1, <1>3, <1>4, <1>5
  <2>. QED  BY <2>1, <2>2, <2>3, <2>4
<1>10. SumFunctionOnSet(grown, D) = sum + n
  <2>1. \A g \in DOMAIN window : window[g] \in Int /\ grown[g] = window[g]
    BY <1>1, <1>2, <1>3, <1>5
  <2>2. SumFunctionOnSet(grown, DOMAIN window) = SumFunctionOnSet(window, DOMAIN window)
    BY <1>2, <2>1, SumSame
  <2>3. CASE n = 0
    BY <1>1, <1>2, <1>5, <2>2, <2>3
  <2>4. CASE n # 0
    <3>1. D = DOMAIN window \cup {cFrame} /\ cFrame \notin DOMAIN window /\ grown[cFrame] = n
      BY <1>1, <1>3, <1>5, <2>4
    <3>2. \A g \in DOMAIN window \cup {cFrame} : grown[g] \in Int
      BY <1>9, <3>1
    <3>3. SumFunctionOnSet(grown, DOMAIN window \cup {cFrame}) = grown[cFrame] + SumFunctionOnSet(grown, DOMAIN window)
      BY <1>2, <3>1, <3>2, SumAdd
    <3>. HIDE DEF D
    <3>. QED  BY <1>1, <1>2, <2>2, <3>1, <3>3
  <2>. QED  BY <2>3, <2>4
<1>. HIDE DEF D, K
<1>11. sum' = SumFunctionOnSet(window', DOMAIN window')
  <2>1. \A g \in E \cup K : grown[g] \in Int
    BY <1>9
  <2>2. SumFunctionOnSet(grown, D) = SumFunctionOnSet(grown, E) + SumFunctionOnSet(grown, K)
    BY <1>9, <2>1, SumUnion
  <2>3. \A g \in K : grown[g] \in Int /\ window'[g] = grown[g]
    BY <1>8, <1>9
  <2>4. SumFunctionOnSet(window', K) = SumFunctionOnSet(grown, K)
    BY <1>9, <2>3, SumSame
  <2>5. SumFunctionOnSet(grown, K) \in Int /\ SumFunctionOnSet(grown, E) \in Int
    BY <1>9, SumInt
  <2>. QED  BY <1>2, <1>7, <1>8, <1>10, <2>2, <2>4, <2>5
<1>12. ASSUME NEW g \in DOMAIN sent', sent'[g] > 0, \A h \in DOMAIN sent' : g > h - Window
       PROVE  g \in DOMAIN window'
  <2>1. g > cFrame - Window
    BY <1>3, <1>12
  <2>2. g \in D
    <3>1. CASE g = cFrame
      BY <1>3, <1>5, <1>12, <3>1 DEF D
    <3>2. CASE g # cFrame
      <4>1. g \in DOMAIN sent /\ sent[g] > 0 /\ \A h \in DOMAIN sent : g > h - Window
        BY <1>3, <1>12, <3>2
      <4>. QED  BY <1>1, <1>5, <4>1 DEF D
    <3>. QED  BY <3>1, <3>2
  <2>3. g \in Nat
    BY <1>4
  <2>4. ~(g <= cFrame - Window)
    BY <1>1, <2>1, <2>3
  <2>. QED  BY <1>6, <1>8, <2>2, <2>4 DEF K
<1>13. DOMAIN window' \in SUBSET DOMAIN sent' /\ \A g \in DOMAIN window' : window'[g] = sent'[g]
  <2>1. D \in SUBSET DOMAIN sent'
    BY <1>1, <1>3, <1>5 DEF D
  <2>2. K \in SUBSET D
    BY DEF K
  <2>. QED  BY <1>5, <1>8, <2>1, <2>2
<1>14. Meter(cFrame, window', sum', sent')
  BY <1>1, <1>4, <1>11, <1>12, <1>13 DEF Meter
<1>15. BudgetKept(sent')
  <2>1. SUFFICES ASSUME NEW now \in DOMAIN sent', \A h \in DOMAIN sent' : h <= now, sent'[now] > 1
                 PROVE  SumFunctionOnSet(sent', Lately(sent', now)) * Minute <= Budget * C!Span(now)
    BY DEF BudgetKept
  <2>2. now = cFrame
    <3>1. cFrame \in DOMAIN sent'
      BY <1>3
    <3>2. cFrame <= now /\ now \in 0..cFrame
      BY <1>4, <2>1, <3>1
    <3>. QED  BY <1>1, <3>2
  <2>. DEFINE L == Lately(sent, cFrame)
              q == (Budget * C!Span(cFrame)) \div Minute
  <2>3. IsFiniteSet(L) /\ SumFunctionOnSet(sent, L) \in Nat /\ SumFunctionOnSet(sent, L) <= sum
    BY LatelyInWindow
  <2>4. Lately(sent', cFrame) = L \cup {cFrame} /\ cFrame \notin L /\ L \in SUBSET DOMAIN sent
    BY <1>1, <1>3 DEF Lately
  <2>. HIDE DEF L
  <2>5. SumFunctionOnSet(sent', L \cup {cFrame}) = n + SumFunctionOnSet(sent, L)
    <3>1. \A g \in L \cup {cFrame} : sent'[g] \in Int
      BY <1>1, <1>3, <2>4
    <3>2. SumFunctionOnSet(sent', L \cup {cFrame}) = sent'[cFrame] + SumFunctionOnSet(sent', L)
      BY <2>3, <2>4, <3>1, SumAdd
    <3>3. \A g \in L : sent[g] \in Int /\ sent'[g] = sent[g]
      BY <1>1, <1>3, <2>4
    <3>4. SumFunctionOnSet(sent', L) = SumFunctionOnSet(sent, L)
      BY <2>3, <3>3, SumSame
    <3>. QED  BY <1>3, <3>2, <3>4
  <2>6. C!CommandsAllowed(cFrame) \in Nat /\ C!CommandsAllowed(cFrame) > 1
    BY <1>1, <1>2, <1>3, <2>1, <2>2, AllowedIs
  <2>7. C!CommandsAllowed(cFrame) + sum <= q
    BY <1>1, <1>2, <2>6, AllowedIs
  <2>8. C!Span(cFrame) \in Nat /\ Budget * C!Span(cFrame) \in Nat
    <3>1. C!Span(cFrame) \in Nat
      BY <1>1, SpanIs
    <3>2. \A x, y \in Nat : x * y \in Nat
      OBVIOUS
    <3>. QED  BY <1>1, <3>1, <3>2
  <2>9. q \in Int
    <3>1. \A a \in Nat, m \in Nat \ {0} : a \div m \in Int
      OBVIOUS
    <3>. QED  BY <1>1, <2>8, <3>1
  <2>. DEFINE x == n + SumFunctionOnSet(sent, L)
  <2>10. x \in Int /\ x <= q
    <3>. HIDE DEF q
    <3>. QED  BY <1>2, <2>3, <2>6, <2>7, <2>9
  <2>. DEFINE a == Budget * C!Span(cFrame)
  <2>11. x * Minute <= a
    <3>1. a \in Nat /\ Minute \in Nat \ {0} /\ x \in Int /\ x <= a \div Minute
      BY <1>1, <2>8, <2>10
    <3>. HIDE DEF a, x
    <3>. QED  BY <3>1, ShareOfMinute
  <2>. QED  BY <2>2, <2>4, <2>5, <2>11
<1>. QED  BY <1>14, <1>15

\* The batches are lists of calls.
LEMMA BatchIs ==
    ASSUME NEW batch \in C!Batches
    PROVE  \E k \in Nat : batch \in [1..k -> C!Calls]
<1>1. CASE batch = <<>>
  <2>1. batch \in [1..0 -> C!Calls]
    BY <1>1
  <2>. QED  BY <2>1
<1>2. CASE batch # <<>>
  <2>1. PICK c \in C!Calls, k \in 1..MaxBatch :
             batch = [i \in 1..k |-> IF i = 1 THEN c ELSE C!Call("place", c.unit, None, None, FALSE)]
    BY <1>2 DEF C!Batches, C!Call
  <2>2. c.unit \in Targets
    BY CallsAre DEF Said, Kinds, Args
  <2>3. C!Call("place", c.unit, None, None, FALSE) \in C!Calls
    <3>1. C!Call("place", c.unit, None, None, FALSE) \in Placed
      <4>1. \A q \in BOOLEAN : C!Call("place", c.unit, None, None, q) \in Placed
        BY <2>2 DEF Placed
      <4>. QED  BY <4>1, Zenon
    <3>. QED  BY <3>1, CallKinds
  <2>4. k \in Nat
    BY CommandsAssumption
  <2>5. batch \in [1..k -> C!Calls]
    BY <2>1, <2>3
  <2>. QED  BY <2>4, <2>5
<1>. QED  BY <1>1, <1>2

\* What is trimmed keeps its beginning, and no more than is allowed.
LEMMA TrimmedIs ==
    ASSUME cFrame \in Nat, sum \in Int, NEW k \in Nat, NEW list, DOMAIN list = 1..k, Len(list) = k
    PROVE  \E m \in Nat : /\ m <= k /\ m <= C!CommandsAllowed(cFrame)
                          /\ m = (IF C!CommandsAllowed(cFrame) < k THEN C!CommandsAllowed(cFrame) ELSE k)
                          /\ C!Trimmed(list) = [i \in 1..m |-> list[i]]
<1>. DEFINE m == IF C!CommandsAllowed(cFrame) < k THEN C!CommandsAllowed(cFrame) ELSE k
<1>1. C!CommandsAllowed(cFrame) \in Nat
  BY AllowedIs
<1>2. m \in Nat /\ m <= k /\ m <= C!CommandsAllowed(cFrame)
  BY <1>1
<1>3. C!Trimmed(list) = [i \in 1..m |-> list[i]]
  BY DEF C!Trimmed
<1>. QED  BY <1>2, <1>3

\* The commands' invariant: they were meant, the units are units, and the meter knows the minute.
CInv ==
    /\ cAlive \in SUBSET Targets
    /\ Meter(cFrame, window, sum, sent)
    /\ BudgetKept(sent)
    /\ MeantBy(said, issued, cAlive)

\* A new game has sent nothing.
LEMMA MeterEmpty ==
    ASSUME NEW f \in Nat PROVE Meter(f, <<>>, 0, <<>>) /\ BudgetKept(<<>>)
<1>1. DOMAIN <<>> = {}
  OBVIOUS
<1>2. IsFiniteSet({}) /\ SumFunctionOnSet(<<>>, {}) = 0
  BY FS_EmptySet, SumEmpty
<1>3. \A g \in DOMAIN <<>> : FALSE
  BY <1>1
<1>4. BudgetKept(<<>>)
  BY <1>3, Zenon DEF BudgetKept
<1>5. {} \in SUBSET (0..f)
  OBVIOUS
<1>6. Meter(f, <<>>, 0, <<>>)
  BY <1>1, <1>2, <1>3, <1>5, Zenon DEF Meter
<1>. QED  BY <1>4, <1>6

\* Before the first game nothing has been said or sent.
LEMMA CommandsInit == C!Init => CInv
<1>1. SUFFICES ASSUME C!Init PROVE CInv
  OBVIOUS
<1>2. cFrame = 0 /\ cAlive = {} /\ said = <<>> /\ issued = <<>> /\ window = <<>> /\ sum = 0 /\ sent = <<>>
  BY <1>1 DEF C!Init
<1>3. Meter(0, <<>>, 0, <<>>) /\ BudgetKept(<<>>)
  BY MeterEmpty
<1>4. MeantBy(<<>>, <<>>, {})
  BY NothingMeant
<1>. QED  BY <1>2, <1>3, <1>4 DEF CInv

\* A decision's calls are cut to what the minute allows, said, sent and issued.
LEMMA CommandsDecides == ASSUME CInv, C!Decides PROVE CInv'
<1>1. /\ cAlive \in SUBSET Targets /\ Meter(cFrame, window, sum, sent)
      /\ cFrame \in Nat /\ sum \in Int
  <2>1. cAlive \in SUBSET Targets /\ Meter(cFrame, window, sum, sent)
    BY DEF CInv
  <2>2. sum \in Nat
    BY <2>1, MeterSum
  <2>3. cFrame \in Nat
    BY <2>1 DEF Meter
  <2>. QED  BY <2>1, <2>2, <2>3
<1>2. PICK batch \in C!Batches, overlay \in Overlays, game \in C!GameBatches :
         LET coded == [i \in DOMAIN batch |-> C!Command(batch[i])]
             going == C!Trimmed(coded)
             msg   == C!Message(going, game, overlay)
         IN  /\ said' = C!Trimmed(batch)
             /\ issued' = C!Issues(msg.unit_commands)
             /\ C!Record(cFrame, Len(going))
             /\ sent' = [f \in DOMAIN sent \cup {cFrame} |-> IF f = cFrame THEN Len(going) ELSE sent[f]]
  BY DEF C!Decides
<1>. DEFINE coded == [i \in DOMAIN batch |-> C!Command(batch[i])]
            going == C!Trimmed(coded)
<1>3. cFrame \notin DOMAIN sent /\ cFrame' = cFrame /\ cAlive' = cAlive
  BY DEF C!Decides
<1>4. PICK k \in Nat : batch \in [1..k -> C!Calls]
  BY BatchIs
<1>5. DOMAIN batch = 1..k /\ Len(batch) = k /\ DOMAIN coded = 1..k /\ Len(coded) = k
      /\ \A i \in 1..k : coded[i] = C!Command(batch[i])
  BY <1>4, LenProperties
<1>6. PICK m \in Nat : /\ m <= k /\ m <= C!CommandsAllowed(cFrame)
                       /\ m = (IF C!CommandsAllowed(cFrame) < k THEN C!CommandsAllowed(cFrame) ELSE k)
                       /\ going = [i \in 1..m |-> coded[i]]
  <2>. HIDE DEF coded
  <2>. QED  BY <1>1, <1>5, TrimmedIs
<1>7. C!Trimmed(batch) = [i \in 1..m |-> batch[i]]
  BY <1>1, <1>5, <1>6, TrimmedIs
<1>8. DOMAIN going = 1..m /\ Len(going) = m /\ \A i \in 1..m : going[i] = C!Command(batch[i])
  <2>1. \A i \in 1..m : i \in 1..k
    BY <1>6
  <2>. HIDE DEF coded, going
  <2>. QED  BY <1>5, <1>6, <2>1
<1>9. C!Message(going, game, overlay).unit_commands = [i \in 1..m |-> C!Encoded(C!Command(batch[i]))]
  <2>. HIDE DEF going
  <2>1. C!Message(going, game, overlay).unit_commands = [i \in DOMAIN going |-> C!Encoded(going[i])]
    BY DEF C!Message
  <2>. QED  BY <1>8, <2>1
<1>10. /\ said' = [i \in 1..m |-> batch[i]]
       /\ issued' = C!Issues([i \in 1..m |-> C!Encoded(C!Command(batch[i]))])
       /\ C!Record(cFrame, m)
       /\ sent' = [f \in DOMAIN sent \cup {cFrame} |-> IF f = cFrame THEN m ELSE sent[f]]
  <2>1. /\ said' = C!Trimmed(batch)
        /\ issued' = C!Issues(C!Message(going, game, overlay).unit_commands)
        /\ C!Record(cFrame, Len(going))
        /\ sent' = [f \in DOMAIN sent \cup {cFrame} |-> IF f = cFrame THEN Len(going) ELSE sent[f]]
    BY <1>2
  <2>. HIDE DEF going, coded
  <2>. QED  BY <1>7, <1>8, <1>9, <2>1
<1>. HIDE DEF going, coded
<1>. DEFINE b == [i \in 1..m |-> batch[i]]
<1>11. b \in [1..m -> C!Calls]
  <2>1. \A i \in 1..m : i \in 1..k
    BY <1>6
  <2>. QED  BY <1>4, <2>1
<1>12. [i \in 1..m |-> C!Encoded(C!Command(b[i]))] = [i \in 1..m |-> C!Encoded(C!Command(batch[i]))]
  <2>1. \A i \in 1..m : b[i] = batch[i]
    OBVIOUS
  <2>. HIDE DEF b
  <2>. QED  BY <2>1
<1>13. MeantBy(b, C!Issues([i \in 1..m |-> C!Encoded(C!Command(b[i]))]), cAlive)
  <2>. HIDE DEF b
  <2>. QED  BY <1>1, <1>11, IssuesMean
<1>14. MeantBy(said', issued', cAlive')
  <2>1. said' = b
    BY <1>10
  <2>. HIDE DEF b
  <2>. QED  BY <1>3, <1>10, <1>12, <1>13, <2>1
<1>15. Meter(cFrame, window', sum', sent') /\ BudgetKept(sent')
  BY <1>1, <1>3, <1>6, <1>10, RecordsDecision
<1>. QED  BY <1>1, <1>3, <1>14, <1>15 DEF CInv

\* A new game starts afresh; between decisions only the frame goes on and units die.
LEMMA CommandsStep == ASSUME CInv, C!Next PROVE CInv'
<1>1. CASE C!Starts
  <2>1. /\ cFrame' = 0 /\ cAlive' = Targets /\ said' = <<>> /\ issued' = <<>>
        /\ window' = <<>> /\ sum' = 0 /\ sent' = <<>>
    BY <1>1 DEF C!Starts
  <2>2. Meter(0, <<>>, 0, <<>>) /\ BudgetKept(<<>>)
    BY MeterEmpty
  <2>3. MeantBy(<<>>, <<>>, Targets)
    BY NothingMeant
  <2>. QED  BY <2>1, <2>2, <2>3 DEF CInv
<1>2. CASE C!Decides
  BY <1>2, CommandsDecides
<1>3. CASE C!NextFrame
  <2>1. /\ cFrame' = cFrame + 1 /\ said' = <<>> /\ issued' = <<>>
        /\ window' = window /\ sum' = sum /\ sent' = sent
        /\ cAlive' \in {cAlive} \cup {cAlive \ {u} : u \in cAlive}
    BY <1>3 DEF C!NextFrame
  <2>2. cAlive' \in SUBSET Targets
    BY <2>1 DEF CInv
  <2>3. Meter(cFrame + 1, window, sum, sent)
    <3>1. cFrame \in Nat /\ cFrame + 1 \in Nat /\ \A S \in SUBSET (0..cFrame) : S \in SUBSET (0..(cFrame + 1))
      BY DEF CInv, Meter
    <3>. QED  BY <3>1 DEF CInv, Meter
  <2>4. MeantBy(<<>>, <<>>, cAlive')
    BY NothingMeant
  <2>. QED  BY <2>1, <2>2, <2>3, <2>4 DEF CInv
<1>4. CASE C!Ends
  BY <1>4 DEF C!Ends, CInv
<1>. QED  BY <1>1, <1>2, <1>3, <1>4 DEF C!Next

\* What the invariant says of the last decision is what the run checks.
LEMMA BudgetIs == ASSUME Meter(cFrame, window, sum, sent), BudgetKept(sent) PROVE C!WithinBudget
<1>1. /\ IsFiniteSet(DOMAIN sent) /\ cFrame \in Nat /\ DOMAIN sent \in SUBSET (0..cFrame)
  BY DEF Meter
<1>. DEFINE now == C!Max(DOMAIN sent)
<1>2. SUFFICES ASSUME DOMAIN sent # {}, sent[now] > 1
               PROVE  C!SumFunctionOnSet(sent, {f \in DOMAIN sent : f > now - Window}) * Minute
                        <= Budget * C!Max({MinWindow, C!Min({now, Window})})
  BY DEF C!WithinBudget
<1>3. now \in DOMAIN sent /\ \A h \in DOMAIN sent : h <= now
  <2>1. DOMAIN sent \in SUBSET Int
    BY <1>1
  <2>2. Max(DOMAIN sent) \in DOMAIN sent /\ \A h \in DOMAIN sent : h <= Max(DOMAIN sent)
    BY <1>1, <1>2, <2>1, MaxIsGreatest
  <2>3. now = Max(DOMAIN sent)
    BY DEF C!Max, Max
  <2>. QED  BY <2>2, <2>3
<1>4. SumFunctionOnSet(sent, Lately(sent, now)) * Minute <= Budget * C!Span(now)
  <2>. HIDE DEF now
  <2>. QED  BY <1>2, <1>3 DEF BudgetKept
<1>5. C!Max({MinWindow, C!Min({now, Window})}) = C!Span(now)
  <2>1. now \in Nat
    BY <1>1, <1>3
  <2>. HIDE DEF now
  <2>. QED  BY <2>1, SpanIs
<1>6. C!SumFunctionOnSet(sent, {f \in DOMAIN sent : f > now - Window}) = SumFunctionOnSet(sent, Lately(sent, now))
  BY CommandsPick DEF Lately
<1>. QED  BY <1>4, <1>5, <1>6

\* It is an invariant of the orders.
LEMMA CommandsInvariant == AllSpec => []CInv
<1>1. AllInit => CInv
  BY CommandsInit DEF AllInit
<1>2. CInv /\ [AllNext]_<<which, vars, cVars, pVars>> => CInv'
  <2>1. ASSUME CInv, UNCHANGED cVars
        PROVE  CInv'
    BY <2>1 DEF cVars, CInv
  <2>. QED  BY <2>1, CommandsStep DEF AllNext, Arbitrates, Sends, Pools
<1>. QED  BY <1>1, <1>2, PTL DEF AllSpec

\* Meant of the orders run, for any units, types and techs, batches of any length and
\* units that die in any order: the game reads from what the shim issues what the bot
\* said, whatever is left out on the wire and however the batch was trimmed.
THEOREM MeantHolds == AllSpec => []Meant
<1>1. CInv => Meant
  BY MeantIs DEF Meant, CInv
<1>. QED  BY <1>1, CommandsInvariant, PTL

\* WithinBudget of the orders run, for any budget, window and number of frames
\* between decisions: a decision of several commands leaves its minute within the budget.
THEOREM BudgetHolds == AllSpec => []WithinBudget
<1>1. CInv => WithinBudget
  BY BudgetIs DEF WithinBudget, CInv
<1>. QED  BY <1>1, CommandsInvariant, PTL
=============================================================================
