------------------------ MODULE CollectionTheorems ------------------------
(***************************************************************************)
(* Facts about lists that are picked from (Lists), about sums over         *)
(* finite sets (Functions: SumFunctionOnSet), which the ledger's costs and *)
(* the meter's window are, and about what is greatest and least.           *)
(***************************************************************************)
EXTENDS Integers, Sequences, Lists, Functions, FiniteSetsExt, FiniteSetTheorems,
        SequenceTheorems, WellFoundedInduction, TLAPS

-----------------------------------------------------------------------------
(* Lists                                                                   *)

\* How many of the places ix are no later than i.
UpTo(ix, i) == Cardinality({k \in ix : k <= i})

\* It is a place of the list that is picked.
LEMMA UpToBounds ==
    ASSUME NEW ix \in SUBSET Nat, IsFiniteSet(ix), NEW i \in ix
    PROVE  UpTo(ix, i) \in 1..Cardinality(ix)
<1>. DEFINE A == {k \in ix : k <= i}
<1>1. A \in SUBSET ix /\ i \in A
  OBVIOUS
<1>2. IsFiniteSet(A) /\ Cardinality(A) <= Cardinality(ix)
  BY <1>1, FS_Subset
<1>3. Cardinality(ix) \in Nat /\ Cardinality(A) \in Nat
  BY <1>2, FS_CardinalityType
<1>4. Cardinality(A) # 0
  BY <1>1, <1>2, FS_EmptySet
<1>. QED  BY <1>2, <1>3, <1>4 DEF UpTo

\* A later place comes later.
LEMMA UpToMonotone ==
    ASSUME NEW ix \in SUBSET Nat, IsFiniteSet(ix), NEW i \in ix, NEW j \in ix, i < j
    PROVE  UpTo(ix, i) < UpTo(ix, j)
<1>. DEFINE A == {k \in ix : k <= i}
            B == {k \in ix : k <= j}
<1>0. i \in Nat /\ j \in Nat /\ \A k \in ix : k \in Nat
  OBVIOUS
<1>1. A \in SUBSET B /\ B \in SUBSET ix /\ j \in B /\ j \notin A
  <2>1. \A k \in A : k \in B
    BY <1>0
  <2>2. j \in B /\ j \notin A
    BY <1>0
  <2>3. B \in SUBSET ix
    OBVIOUS
  <2>. HIDE DEF A, B
  <2>. QED  BY <2>1, <2>2, <2>3
<1>2. IsFiniteSet(B)
  BY <1>1, FS_Subset
<1>3. Cardinality(A) <= Cardinality(B) /\ (Cardinality(B) = Cardinality(A) => B = A) /\ IsFiniteSet(A)
  BY <1>1, <1>2, FS_Subset
<1>4. Cardinality(A) \in Nat /\ Cardinality(B) \in Nat
  BY <1>2, <1>3, FS_CardinalityType
<1>. QED  BY <1>1, <1>3, <1>4 DEF UpTo

\* Two places never come to the same one.
LEMMA UpToInjective ==
    ASSUME NEW ix \in SUBSET Nat, IsFiniteSet(ix), NEW i \in ix, NEW j \in ix, UpTo(ix, i) = UpTo(ix, j)
    PROVE  i = j
<1>1. i \in Nat /\ j \in Nat
  OBVIOUS
<1>2. UpTo(ix, i) \in Nat /\ UpTo(ix, j) \in Nat
  BY UpToBounds
<1>3. ~(i < j)
  BY <1>2, UpToMonotone
<1>4. ~(j < i)
  BY <1>2, UpToMonotone
<1>. QED  BY <1>1, <1>3, <1>4

\* And every place of the picked list is come to.
LEMMA UpToOnto ==
    ASSUME NEW ix \in SUBSET Nat, IsFiniteSet(ix), NEW n \in 1..Cardinality(ix)
    PROVE  \E i \in ix : UpTo(ix, i) = n
<1>. DEFINE m == Cardinality(ix)
            f == [i \in ix |-> UpTo(ix, i)]
<1>1. m \in Nat
  BY FS_CardinalityType
<1>2. f \in [ix -> 1..m]
  BY UpToBounds
<1>3. \A i, j \in ix : f[i] = f[j] => i = j
  BY UpToInjective
<1>4. f \in Injection(ix, 1..m)
  BY <1>2, <1>3 DEF Injection, IsInjective
<1>5. IsFiniteSet(1..m) /\ Cardinality(1..m) = m
  BY <1>1, FS_Interval
<1>6. f \in Surjection(ix, 1..m)
  BY <1>1, <1>4, <1>5, FS_Injection
<1>. QED  BY <1>6 DEF Surjection

\* The n-th of the places is the one with n up to it, and each has its n.
LEMMA PlacesNumbered ==
    ASSUME NEW ix \in SUBSET Nat, IsFiniteSet(ix)
    PROVE  /\ \A n \in 1..Cardinality(ix) : Place(ix, n) \in ix /\ UpTo(ix, Place(ix, n)) = n
           /\ \A i \in ix : UpTo(ix, i) \in 1..Cardinality(ix) /\ Place(ix, UpTo(ix, i)) = i
<1>1. ASSUME NEW n \in 1..Cardinality(ix)
      PROVE  Place(ix, n) \in ix /\ UpTo(ix, Place(ix, n)) = n
  <2>1. \E i \in ix : UpTo(ix, i) = n
    BY UpToOnto
  <2>. QED  BY <2>1 DEF Place, UpTo
<1>2. ASSUME NEW i \in ix
      PROVE  UpTo(ix, i) \in 1..Cardinality(ix) /\ Place(ix, UpTo(ix, i)) = i
  <2>1. UpTo(ix, i) \in 1..Cardinality(ix)
    BY UpToBounds
  <2>. DEFINE p == Place(ix, UpTo(ix, i))
  <2>2. p \in ix /\ UpTo(ix, p) = UpTo(ix, i)
    BY <1>1, <2>1
  <2>. HIDE DEF p
  <2>3. p = i
    BY <2>2, UpToInjective
  <2>. QED  BY <2>1, <2>3 DEF p
<1>. QED  BY <1>1, <1>2

\* The places of a list are some numbers.
LEMMA PlacesFinite ==
    ASSUME NEW S, NEW list \in Seq(S), NEW ix \in SUBSET DOMAIN list
    PROVE  IsFiniteSet(ix) /\ Cardinality(ix) \in Nat /\ ix \in SUBSET Nat
<1>1. DOMAIN list = 1..Len(list) /\ Len(list) \in Nat
  BY LenProperties
<1>2. IsFiniteSet(1..Len(list))
  BY <1>1, FS_Interval
<1>3. IsFiniteSet(ix)
  BY <1>1, <1>2, FS_Subset
<1>. QED  BY <1>1, <1>3, FS_CardinalityType

\* A list that is picked from another is a list of the same kind, as long as there
\* are places, and has what stands at them.
LEMMA PickedList ==
    ASSUME NEW S, NEW list \in Seq(S), NEW ix \in SUBSET DOMAIN list
    PROVE  /\ Picked(list, ix) \in Seq(S) /\ Len(Picked(list, ix)) = Cardinality(ix)
           /\ DOMAIN Picked(list, ix) = 1..Cardinality(ix)
           /\ \A n \in 1..Cardinality(ix) :
                Place(ix, n) \in ix /\ Picked(list, ix)[n] = list[Place(ix, n)]
           /\ \A n, m \in 1..Cardinality(ix) : Place(ix, n) = Place(ix, m) => n = m
           /\ \A i \in ix : \E n \in 1..Cardinality(ix) : Place(ix, n) = i /\ Picked(list, ix)[n] = list[i]
<1>. DEFINE m == Cardinality(ix)
            new == [n \in 1..m |-> list[Place(ix, n)]]
<1>1. IsFiniteSet(ix) /\ m \in Nat /\ ix \in SUBSET Nat
  BY PlacesFinite
<1>2. /\ \A n \in 1..m : Place(ix, n) \in ix /\ UpTo(ix, Place(ix, n)) = n
      /\ \A i \in ix : UpTo(ix, i) \in 1..m /\ Place(ix, UpTo(ix, i)) = i
  BY <1>1, PlacesNumbered
<1>3. \A i \in ix : list[i] \in S
  BY LenProperties
<1>4. new \in [1..m -> S] /\ DOMAIN new = 1..m
  BY <1>2, <1>3
<1>5. new \in Seq(S) /\ Len(new) = m
  BY <1>1, <1>4, SeqDef, LenProperties
<1>6. new = Picked(list, ix)
  BY DEF Picked
<1>7. \A n \in 1..m : new[n] = list[Place(ix, n)]
  OBVIOUS
<1>. HIDE DEF new
<1>. QED  BY <1>2, <1>4, <1>5, <1>6, <1>7

-----------------------------------------------------------------------------
(* Sums                                                                    *)

\* The fold takes some element of the set, and the rest of it after that.
Choice(s) == CHOOSE x \in s : TRUE
IsSum(g, f, S) == g = [s \in SUBSET S |-> IF s = {} THEN 0 ELSE f[Choice(s)] + g[s \ {Choice(s)}]]

\* What SumFunctionOnSet is, unfolded.
LEMMA SumDef == \A f, S : SumFunctionOnSet(f, S) = (CHOOSE g : IsSum(g, f, S))[S]
  BY DEF SumFunctionOnSet, FoldFunctionOnSet, MapThenFoldSet, IsSum, Choice

\* Of some subsets of a finite set one has none of the others within it.
LEMMA SmallestSet ==
    ASSUME NEW S, IsFiniteSet(S), NEW A \in SUBSET SUBSET S, A # {}
    PROVE  \E s \in A : \A t \in SUBSET s : t \in A => t = s
<1>. DEFINE R == StrictSubsetOrdering(S)
<1>1. IsWellFoundedOn(R, SUBSET S)
  BY FS_StrictSubsetOrderingWellFounded, FS_FiniteSubsetsOfFinite
<1>2. PICK s \in A : \A t \in A : ~(<<t, s>> \in R)
  <2>. HIDE DEF R
  <2>. QED  BY <1>1, WFMin
<1>3. ASSUME NEW t \in SUBSET s, t \in A, t # s PROVE FALSE
  <2>1. <<t, s>> \in R
    BY <1>3 DEF StrictSubsetOrdering
  <2>. QED  BY <1>2, <1>3, <2>1
<1>. QED  BY <1>3

\* What holds of the empty set, and of a set with an element more, holds of all.
LEMMA SetsInduct ==
    ASSUME NEW S, IsFiniteSet(S), NEW G, {} \in G,
           \A s \in SUBSET S : \A x \in S \ s : s \in G => s \cup {x} \in G
    PROVE  \A s \in SUBSET S : s \in G
<1>1. SUFFICES ASSUME NEW u \in SUBSET S, u \notin G PROVE FALSE
  OBVIOUS
<1>. DEFINE A == {s \in SUBSET S : s \notin G}
<1>2. PICK s \in A : \A t \in SUBSET s : t \in A => t = s
  <2>1. A \in SUBSET SUBSET S /\ A # {}
    BY <1>1
  <2>. HIDE DEF A
  <2>. QED  BY <2>1, SmallestSet
<1>0. s \in SUBSET S /\ s \notin G /\ s # {}
  BY <1>2
<1>3. PICK x \in s : TRUE
  BY <1>0
<1>4. s \ {x} \in SUBSET S /\ s \ {x} \in SUBSET s /\ s \ {x} # s /\ x \in S \ (s \ {x})
  BY <1>0, <1>3
<1>5. s \ {x} \in G
  <2>1. s \ {x} \notin A
    BY <1>2, <1>4
  <2>. QED  BY <1>4, <2>1
<1>6. (s \ {x}) \cup {x} = s
  BY <1>3
<1>. QED  BY <1>0, <1>4, <1>5, <1>6

\* A sum does not depend on the set it is a part of.
LEMMA SumsAgree ==
    ASSUME NEW f, NEW S, NEW T, IsFiniteSet(S), NEW g, NEW h, IsSum(g, f, S), IsSum(h, f, T)
    PROVE  \A s \in SUBSET S : s \in SUBSET T => g[s] = h[s]
<1>1. SUFFICES ASSUME NEW u \in SUBSET S, u \in SUBSET T, g[u] # h[u] PROVE FALSE
  OBVIOUS
<1>. DEFINE A == {s \in SUBSET S : s \in SUBSET T /\ g[s] # h[s]}
<1>2. PICK s \in A : \A t \in SUBSET s : t \in A => t = s
  <2>1. A \in SUBSET SUBSET S /\ A # {}
    BY <1>1
  <2>. HIDE DEF A
  <2>. QED  BY <2>1, SmallestSet
<1>. DEFINE c == Choice(s)
<1>3. s \in SUBSET S /\ s \in SUBSET T /\ g[s] # h[s]
  BY <1>2
<1>4. g[s] = IF s = {} THEN 0 ELSE f[c] + g[s \ {c}]
  BY <1>3 DEF IsSum
<1>5. h[s] = IF s = {} THEN 0 ELSE f[c] + h[s \ {c}]
  BY <1>3 DEF IsSum
<1>6. s # {} /\ g[s \ {c}] # h[s \ {c}]
  <2>. HIDE DEF c
  <2>. QED  BY <1>3, <1>4, <1>5
<1>7. c \in s
  BY <1>6 DEF Choice
<1>8. s \ {c} \in A /\ s \ {c} \in SUBSET s /\ s \ {c} # s
  <2>. HIDE DEF c
  <2>. QED  BY <1>3, <1>6, <1>7
<1>. QED  BY <1>2, <1>8

\* There is a function of the subsets that adds up as the fold does.
LEMMA SumExists ==
    ASSUME NEW f, NEW S, IsFiniteSet(S)
    PROVE  \A s \in SUBSET S : \E g : IsSum(g, f, s)
<1>1. SUFFICES ASSUME NEW u \in SUBSET S, ~(\E g : IsSum(g, f, u)) PROVE FALSE
  OBVIOUS
<1>. DEFINE A == {s \in SUBSET S : ~(\E g : IsSum(g, f, s))}
<1>2. PICK s \in A : \A t \in SUBSET s : t \in A => t = s
  <2>1. A \in SUBSET SUBSET S /\ A # {}
    BY <1>1
  <2>. HIDE DEF A
  <2>. QED  BY <2>1, SmallestSet
<1>. DEFINE h(t) == CHOOSE g : IsSum(g, f, t)
            val(t) == IF t = {} THEN 0 ELSE f[Choice(t)] + h(t \ {Choice(t)})[t \ {Choice(t)}]
            all == [t \in SUBSET s |-> val(t)]
<1>3. \A t \in SUBSET s : t # s => IsSum(h(t), f, t)
  <2>1. SUFFICES ASSUME NEW t \in SUBSET s, t # s PROVE \E g : IsSum(g, f, t)
    OBVIOUS
  <2>. QED  BY <1>2, <2>1
<1>4. ASSUME NEW t \in SUBSET s, t # s PROVE h(t)[t] = val(t)
  <2>. DEFINE c == Choice(t)
              r == t \ {c}
  <2>1. IsSum(h(t), f, t)
    BY <1>3, <1>4
  <2>2. h(t)[t] = IF t = {} THEN 0 ELSE f[c] + h(t)[r]
    <3>. HIDE DEF h
    <3>. QED  BY <2>1 DEF IsSum
  <2>3. CASE t = {}
    BY <2>2, <2>3
  <2>4. CASE t # {}
    <3>1. c \in t
      BY <2>4 DEF Choice
    <3>2. r \in SUBSET s /\ r # s /\ r \in SUBSET t /\ r \in SUBSET r
      <4>. HIDE DEF c
      <4>. QED  BY <1>4, <3>1
    <3>3. IsSum(h(r), f, r)
      <4>. HIDE DEF h, r
      <4>. QED  BY <1>3, <3>2
    <3>4. IsFiniteSet(t)
      <4>1. s \in SUBSET S
        BY <1>2
      <4>2. t \in SUBSET S
        BY <4>1
      <4>. QED  BY <4>2, FS_Subset
    <3>5. h(t)[r] = h(r)[r]
      <4>. HIDE DEF h, r
      <4>. QED  BY <2>1, <3>2, <3>3, <3>4, SumsAgree
    <3>6. h(t)[t] = f[c] + h(t)[r]
      <4>. HIDE DEF h, r, c
      <4>. QED  BY <2>2, <2>4
    <3>7. val(t) = f[c] + h(r)[r]
      <4>. HIDE DEF h
      <4>. QED  BY <2>4
    <3>. HIDE DEF val, h, r, c
    <3>. QED  BY <3>5, <3>6, <3>7
  <2>. QED  BY <2>3, <2>4
<1>5. IsSum(all, f, s)
  <2>1. ASSUME NEW t \in SUBSET s
        PROVE  val(t) = IF t = {} THEN 0 ELSE f[Choice(t)] + all[t \ {Choice(t)}]
    <3>1. CASE t = {}
      BY <3>1
    <3>2. CASE t # {}
      <4>. DEFINE c == Choice(t)
                  r == t \ {c}
      <4>1. c \in t
        BY <3>2 DEF Choice
      <4>2. r \in SUBSET s /\ r # s
        <5>. HIDE DEF c
        <5>. QED  BY <2>1, <4>1
      <4>3. all[r] = val(r)
        <5>. HIDE DEF val, r
        <5>. QED  BY <4>2
      <4>4. h(r)[r] = val(r)
        <5>. HIDE DEF val, r, h
        <5>. QED  BY <1>4, <4>2
      <4>5. val(t) = f[c] + h(r)[r]
        <5>. HIDE DEF h
        <5>. QED  BY <3>2
      <4>6. val(t) = f[c] + all[r]
        <5>. HIDE DEF val, r, h, all, c
        <5>. QED  BY <4>3, <4>4, <4>5
      <4>. HIDE DEF val, h, all
      <4>. QED  BY <3>2, <4>6
    <3>. HIDE DEF val, all, h
    <3>. QED  BY <3>1, <3>2
  <2>2. [t \in SUBSET s |-> val(t)] = [t \in SUBSET s |-> IF t = {} THEN 0 ELSE f[Choice(t)] + all[t \ {Choice(t)}]]
    <3>. HIDE DEF val, all, h
    <3>. QED  BY <2>1
  <2>. HIDE DEF val, h
  <2>. QED  BY <2>2 DEF IsSum
<1>. HIDE DEF all, val, h
<1>. QED  BY <1>2, <1>5

\* So the sum over a set is what the fold says it is: one element and the rest.
LEMMA SumStep ==
    ASSUME NEW f, NEW S, IsFiniteSet(S)
    PROVE  SumFunctionOnSet(f, S) =
               IF S = {} THEN 0 ELSE f[Choice(S)] + SumFunctionOnSet(f, S \ {Choice(S)})
<1>. DEFINE h(t) == CHOOSE g : IsSum(g, f, t)
            c == Choice(S)
            r == S \ {c}
<1>1. \A t \in SUBSET S : IsSum(h(t), f, t)
  BY SumExists
<1>2. h(S)[S] = IF S = {} THEN 0 ELSE f[c] + h(S)[r]
  <2>1. IsSum(h(S), f, S)
    BY <1>1
  <2>. HIDE DEF h
  <2>. QED  BY <2>1 DEF IsSum
<1>3. h(S)[r] = h(r)[r]
  <2>1. r \in SUBSET S /\ r \in SUBSET r
    OBVIOUS
  <2>. HIDE DEF h, r
  <2>2. IsSum(h(S), f, S) /\ IsSum(h(r), f, r)
    BY <1>1, <2>1
  <2>. QED  BY <2>1, <2>2, SumsAgree
<1>4. SumFunctionOnSet(f, S) = h(S)[S] /\ SumFunctionOnSet(f, r) = h(r)[r]
  BY SumDef
<1>. HIDE DEF h, r
<1>5. SumFunctionOnSet(f, S) = IF S = {} THEN 0 ELSE f[c] + SumFunctionOnSet(f, r)
  BY <1>2, <1>3, <1>4
<1>. QED  BY <1>5 DEF r
\* A sum of integers is one.
LEMMA SumInt ==
    ASSUME NEW f, NEW S, IsFiniteSet(S), \A x \in S : f[x] \in Int
    PROVE  \A s \in SUBSET S : SumFunctionOnSet(f, s) \in Int
<1>1. SUFFICES ASSUME NEW u \in SUBSET S, SumFunctionOnSet(f, u) \notin Int PROVE FALSE
  OBVIOUS
<1>. DEFINE A == {s \in SUBSET S : SumFunctionOnSet(f, s) \notin Int}
<1>2. PICK s \in A : \A t \in SUBSET s : t \in A => t = s
  <2>1. A \in SUBSET SUBSET S /\ A # {}
    BY <1>1
  <2>. HIDE DEF A
  <2>. QED  BY <2>1, SmallestSet
<1>3. s \in SUBSET S /\ SumFunctionOnSet(f, s) \notin Int /\ IsFiniteSet(s)
  BY <1>2, FS_Subset
<1>. DEFINE c == Choice(s)
            r == s \ {c}
<1>4. SumFunctionOnSet(f, s) = IF s = {} THEN 0 ELSE f[c] + SumFunctionOnSet(f, r)
  BY <1>3, SumStep
<1>. HIDE DEF c
<1>5. s # {}
  BY <1>3, <1>4
<1>6. c \in s
  BY <1>5 DEF c, Choice
<1>7. r \in SUBSET s /\ r # s /\ r \in SUBSET S
  BY <1>3, <1>6
<1>8. SumFunctionOnSet(f, r) \in Int
  BY <1>2, <1>7
<1>9. f[c] \in Int
  BY <1>3, <1>6
<1>. HIDE DEF r
<1>10. f[c] + SumFunctionOnSet(f, r) \in Int
  BY <1>8, <1>9
<1>. QED  BY <1>3, <1>4, <1>5, <1>10

\* It does not matter which element is taken first.
LEMMA SumAny ==
    ASSUME NEW f, NEW S, IsFiniteSet(S), \A x \in S : f[x] \in Int
    PROVE  \A s \in SUBSET S : \A x \in s :
               SumFunctionOnSet(f, s) = f[x] + SumFunctionOnSet(f, s \ {x})
<1>. DEFINE Good(s) == \A x \in s : SumFunctionOnSet(f, s) = f[x] + SumFunctionOnSet(f, s \ {x})
<1>1. SUFFICES ASSUME NEW u \in SUBSET S, ~Good(u) PROVE FALSE
  OBVIOUS
<1>. DEFINE A == {s \in SUBSET S : ~Good(s)}
<1>2. PICK s \in A : \A t \in SUBSET s : t \in A => t = s
  <2>1. A \in SUBSET SUBSET S /\ A # {}
    BY <1>1
  <2>. HIDE DEF A
  <2>. QED  BY <2>1, SmallestSet
<1>3. s \in SUBSET S /\ IsFiniteSet(s)
  BY <1>2, FS_Subset
<1>4. PICK x \in s : SumFunctionOnSet(f, s) # f[x] + SumFunctionOnSet(f, s \ {x})
  BY <1>2
<1>. DEFINE c == Choice(s)
<1>5. SumFunctionOnSet(f, s) = f[c] + SumFunctionOnSet(f, s \ {c})
  BY <1>3, <1>4, SumStep
<1>6. c \in s
  BY <1>4 DEF Choice
<1>. HIDE DEF c
<1>7. x # c
  BY <1>4, <1>5
<1>8. /\ s \ {c} \in SUBSET s /\ s \ {c} # s /\ s \ {c} \in SUBSET S /\ x \in s \ {c}
      /\ s \ {x} \in SUBSET s /\ s \ {x} # s /\ s \ {x} \in SUBSET S /\ c \in s \ {x}
      /\ s \ {c, x} \in SUBSET S
      /\ (s \ {c}) \ {x} = s \ {c, x} /\ (s \ {x}) \ {c} = s \ {c, x}
  BY <1>3, <1>4, <1>6, <1>7
<1>9. Good(s \ {c}) /\ Good(s \ {x})
  <2>. HIDE DEF Good
  <2>. QED  BY <1>2, <1>8
<1>10. SumFunctionOnSet(f, s \ {c}) = f[x] + SumFunctionOnSet(f, s \ {c, x})
  BY <1>8, <1>9
<1>11. SumFunctionOnSet(f, s \ {x}) = f[c] + SumFunctionOnSet(f, s \ {c, x})
  BY <1>8, <1>9
<1>12. f[x] \in Int /\ f[c] \in Int /\ SumFunctionOnSet(f, s \ {c, x}) \in Int
  BY <1>3, <1>4, <1>6, <1>8, SumInt
<1>. HIDE DEF A, Good
<1>. QED  BY <1>4, <1>5, <1>10, <1>11, <1>12

\* Over nothing it is 0.
LEMMA SumEmpty == \A f : SumFunctionOnSet(f, {}) = 0
  BY FS_EmptySet, SumStep

\* An element more adds its value.
LEMMA SumAdd ==
    ASSUME NEW f, NEW S, IsFiniteSet(S), NEW x, x \notin S, \A y \in S \cup {x} : f[y] \in Int
    PROVE  SumFunctionOnSet(f, S \cup {x}) = f[x] + SumFunctionOnSet(f, S)
<1>1. IsFiniteSet(S \cup {x})
  BY FS_AddElement
<1>2. (S \cup {x}) \ {x} = S /\ x \in S \cup {x} /\ S \cup {x} \in SUBSET (S \cup {x})
  OBVIOUS
<1>. QED  BY <1>1, <1>2, SumAny

\* Sums add up.
LEMMA SumPlus ==
    ASSUME NEW f, NEW g, NEW h, NEW S, IsFiniteSet(S),
           \A x \in S : f[x] \in Int /\ g[x] \in Int /\ h[x] = f[x] + g[x]
    PROVE  SumFunctionOnSet(h, S) = SumFunctionOnSet(f, S) + SumFunctionOnSet(g, S)
<1>. DEFINE G == {s \in SUBSET S :
                     SumFunctionOnSet(h, s) = SumFunctionOnSet(f, s) + SumFunctionOnSet(g, s)}
<1>1. {} \in G
  BY SumEmpty
<1>2. ASSUME NEW s \in SUBSET S, NEW x \in S \ s, s \in G PROVE s \cup {x} \in G
  <2>1. IsFiniteSet(s) /\ s \cup {x} \in SUBSET S
    BY <1>2, FS_Subset
  <2>2. /\ SumFunctionOnSet(f, s \cup {x}) = f[x] + SumFunctionOnSet(f, s)
        /\ SumFunctionOnSet(g, s \cup {x}) = g[x] + SumFunctionOnSet(g, s)
        /\ SumFunctionOnSet(h, s \cup {x}) = h[x] + SumFunctionOnSet(h, s)
    BY <1>2, <2>1, SumAdd
  <2>3. SumFunctionOnSet(f, s) \in Int /\ SumFunctionOnSet(g, s) \in Int
    BY SumInt
  <2>4. f[x] \in Int /\ g[x] \in Int /\ h[x] = f[x] + g[x]
    OBVIOUS
  <2>5. SumFunctionOnSet(h, s) = SumFunctionOnSet(f, s) + SumFunctionOnSet(g, s)
    BY <1>2
  <2>6. SumFunctionOnSet(h, s \cup {x}) = SumFunctionOnSet(f, s \cup {x}) + SumFunctionOnSet(g, s \cup {x})
    BY <2>2, <2>3, <2>4, <2>5
  <2>. QED  BY <2>1, <2>6
<1>3. S \in G
  <2>. HIDE DEF G
  <2>. QED  BY <1>1, <1>2, SetsInduct
<1>. QED  BY <1>3

\* What is smaller everywhere has the smaller sum.
LEMMA SumLeq ==
    ASSUME NEW f, NEW g, NEW S, IsFiniteSet(S),
           \A x \in S : f[x] \in Int /\ g[x] \in Int /\ f[x] <= g[x]
    PROVE  SumFunctionOnSet(f, S) <= SumFunctionOnSet(g, S)
<1>. DEFINE G == {s \in SUBSET S : SumFunctionOnSet(f, s) <= SumFunctionOnSet(g, s)}
<1>1. {} \in G
  BY SumEmpty
<1>2. ASSUME NEW s \in SUBSET S, NEW x \in S \ s, s \in G PROVE s \cup {x} \in G
  <2>1. IsFiniteSet(s) /\ s \cup {x} \in SUBSET S
    BY <1>2, FS_Subset
  <2>2. /\ SumFunctionOnSet(f, s \cup {x}) = f[x] + SumFunctionOnSet(f, s)
        /\ SumFunctionOnSet(g, s \cup {x}) = g[x] + SumFunctionOnSet(g, s)
    BY <1>2, <2>1, SumAdd
  <2>3. SumFunctionOnSet(f, s) \in Int /\ SumFunctionOnSet(g, s) \in Int
    BY SumInt
  <2>4. f[x] \in Int /\ g[x] \in Int /\ f[x] <= g[x]
    OBVIOUS
  <2>5. SumFunctionOnSet(f, s) <= SumFunctionOnSet(g, s)
    BY <1>2
  <2>6. SumFunctionOnSet(f, s \cup {x}) <= SumFunctionOnSet(g, s \cup {x})
    BY <2>2, <2>3, <2>4, <2>5
  <2>. QED  BY <2>1, <2>6
<1>3. S \in G
  <2>. HIDE DEF G
  <2>. QED  BY <1>1, <1>2, SetsInduct
<1>. QED  BY <1>3

\* What is the same on the set has the same sum.
LEMMA SumSame ==
    ASSUME NEW f, NEW g, NEW S, IsFiniteSet(S), \A x \in S : f[x] \in Int /\ g[x] = f[x]
    PROVE  SumFunctionOnSet(g, S) = SumFunctionOnSet(f, S)
<1>1. SumFunctionOnSet(f, S) <= SumFunctionOnSet(g, S) /\ SumFunctionOnSet(g, S) <= SumFunctionOnSet(f, S)
  BY SumLeq
<1>2. SumFunctionOnSet(f, S) \in Int /\ SumFunctionOnSet(g, S) \in Int
  BY SumInt
<1>. QED  BY <1>1, <1>2

\* A change at one element changes the sum by as much.
LEMMA SumChange ==
    ASSUME NEW f, NEW g, NEW S, IsFiniteSet(S), NEW x \in S, f[x] \in Int, g[x] \in Int,
           \A y \in S \ {x} : f[y] \in Int /\ g[y] = f[y]
    PROVE  SumFunctionOnSet(g, S) = SumFunctionOnSet(f, S) + (g[x] - f[x])
<1>1. IsFiniteSet(S \ {x}) /\ S \in SUBSET S /\ S \ {x} \in SUBSET S
  BY FS_Subset
<1>2. \A y \in S : f[y] \in Int /\ g[y] \in Int
  OBVIOUS
<1>3. SumFunctionOnSet(g, S) = g[x] + SumFunctionOnSet(g, S \ {x})
  BY <1>1, <1>2, SumAny
<1>4. SumFunctionOnSet(f, S) = f[x] + SumFunctionOnSet(f, S \ {x})
  BY <1>1, <1>2, SumAny
<1>5. SumFunctionOnSet(g, S \ {x}) = SumFunctionOnSet(f, S \ {x})
  BY <1>1, SumSame
<1>6. SumFunctionOnSet(f, S \ {x}) \in Int
  BY <1>1, <1>2, SumInt
<1>. QED  BY <1>3, <1>4, <1>5, <1>6

\* The sum over two disjoint sets.
LEMMA SumUnion ==
    ASSUME NEW f, NEW S, NEW T, IsFiniteSet(S), IsFiniteSet(T), S \cap T = {},
           \A x \in S \cup T : f[x] \in Int
    PROVE  SumFunctionOnSet(f, S \cup T) = SumFunctionOnSet(f, S) + SumFunctionOnSet(f, T)
<1>. DEFINE G == {t \in SUBSET T : SumFunctionOnSet(f, S \cup t) = SumFunctionOnSet(f, S) + SumFunctionOnSet(f, t)}
<1>0. SumFunctionOnSet(f, S) \in Int
  BY SumInt
<1>1. {} \in G
  <2>1. S \cup {} = S
    OBVIOUS
  <2>. QED  BY <1>0, <2>1, SumEmpty
<1>2. ASSUME NEW t \in SUBSET T, NEW x \in T \ t, t \in G PROVE t \cup {x} \in G
  <2>1. /\ IsFiniteSet(t) /\ IsFiniteSet(S \cup t) /\ t \cup {x} \in SUBSET T /\ x \notin S \cup t
        /\ S \cup (t \cup {x}) = (S \cup t) \cup {x}
    BY <1>2, FS_Subset, FS_Union
  <2>2. /\ SumFunctionOnSet(f, t \cup {x}) = f[x] + SumFunctionOnSet(f, t)
        /\ SumFunctionOnSet(f, (S \cup t) \cup {x}) = f[x] + SumFunctionOnSet(f, S \cup t)
    BY <1>2, <2>1, SumAdd
  <2>3. SumFunctionOnSet(f, t) \in Int /\ f[x] \in Int
    BY SumInt
  <2>5. SumFunctionOnSet(f, S \cup t) = SumFunctionOnSet(f, S) + SumFunctionOnSet(f, t)
    BY <1>2
  <2>4. SumFunctionOnSet(f, (S \cup t) \cup {x}) = SumFunctionOnSet(f, S) + SumFunctionOnSet(f, t \cup {x})
    BY <1>0, <2>2, <2>3, <2>5
  <2>6. SumFunctionOnSet(f, S \cup (t \cup {x})) = SumFunctionOnSet(f, (S \cup t) \cup {x})
    BY <2>1
  <2>. QED  BY <2>1, <2>4, <2>6
<1>3. T \in G
  <2>. HIDE DEF G
  <2>. QED  BY <1>1, <1>2, SetsInduct
<1>. QED  BY <1>3

\* A sum of nothing but zeros is 0.
LEMMA SumZero ==
    ASSUME NEW f, NEW S, IsFiniteSet(S), \A x \in S : f[x] = 0
    PROVE  SumFunctionOnSet(f, S) = 0
<1>1. SumFunctionOnSet(f, S) = SumFunctionOnSet(f, S) + SumFunctionOnSet(f, S)
  BY SumPlus
<1>2. SumFunctionOnSet(f, S) \in Int
  BY SumInt
<1>. QED  BY <1>1, <1>2

\* A sum of naturals is one.
LEMMA SumNat ==
    ASSUME NEW f, NEW S, IsFiniteSet(S), \A x \in S : f[x] \in Nat
    PROVE  SumFunctionOnSet(f, S) \in Nat
<1>. DEFINE g == [x \in S |-> 0]
<1>1. SumFunctionOnSet(g, S) = 0
  BY SumZero
<1>2. SumFunctionOnSet(g, S) <= SumFunctionOnSet(f, S)
  BY SumLeq
<1>3. SumFunctionOnSet(f, S) \in Int
  BY SumInt
<1>. HIDE DEF g
<1>. QED  BY <1>1, <1>2, <1>3

\* A finite set of integers has a greatest element, and Max is it.
LEMMA MaxIsGreatest ==
    ASSUME NEW S \in SUBSET Int, IsFiniteSet(S), S # {}
    PROVE  Max(S) \in S /\ \A y \in S : y <= Max(S)
<1>. DEFINE G == {s \in SUBSET S : s = {} \/ \E x \in s : \A y \in s : y <= x}
<1>1. {} \in G
  OBVIOUS
<1>2. ASSUME NEW s \in SUBSET S, NEW x \in S \ s, s \in G PROVE s \cup {x} \in G
  <2>1. CASE s = {}
    BY <2>1
  <2>2. CASE s # {}
    <3>1. PICK g \in s : \A y \in s : y <= g
      BY <1>2, <2>2
    <3>2. x \in Int /\ g \in Int /\ \A y \in s : y \in Int
      OBVIOUS
    <3>3. \E z \in s \cup {x} : \A y \in s \cup {x} : y <= z
      <4>1. CASE x <= g
        BY <3>1, <3>2, <4>1
      <4>2. CASE g <= x
        BY <3>1, <3>2, <4>2
      <4>. QED  BY <3>2, <4>1, <4>2
    <3>. QED  BY <3>3
  <2>. QED  BY <2>1, <2>2
<1>3. S \in G
  <2>. HIDE DEF G
  <2>. QED  BY <1>1, <1>2, SetsInduct
<1>4. \E x \in S : \A y \in S : x >= y
  BY <1>3
<1>5. Max(S) \in S /\ \A y \in S : Max(S) >= y
  BY <1>4 DEF Max
<1>. QED  BY <1>5

\* And a least one, which Min is.
LEMMA MinIsLeast ==
    ASSUME NEW S \in SUBSET Int, IsFiniteSet(S), S # {}
    PROVE  Min(S) \in S /\ \A y \in S : Min(S) <= y
<1>. DEFINE G == {s \in SUBSET S : s = {} \/ \E x \in s : \A y \in s : x <= y}
<1>1. {} \in G
  OBVIOUS
<1>2. ASSUME NEW s \in SUBSET S, NEW x \in S \ s, s \in G PROVE s \cup {x} \in G
  <2>1. CASE s = {}
    BY <2>1
  <2>2. CASE s # {}
    <3>1. PICK g \in s : \A y \in s : g <= y
      BY <1>2, <2>2
    <3>2. x \in Int /\ g \in Int /\ \A y \in s : y \in Int
      OBVIOUS
    <3>3. \E z \in s \cup {x} : \A y \in s \cup {x} : z <= y
      <4>1. CASE x <= g
        BY <3>1, <3>2, <4>1
      <4>2. CASE g <= x
        BY <3>1, <3>2, <4>2
      <4>. QED  BY <3>2, <4>1, <4>2
    <3>. QED  BY <3>3
  <2>. QED  BY <2>1, <2>2
<1>3. S \in G
  <2>. HIDE DEF G
  <2>. QED  BY <1>1, <1>2, SetsInduct
<1>4. \E x \in S : \A y \in S : x <= y
  BY <1>3
<1>. QED  BY <1>4 DEF Min

-----------------------------------------------------------------------------
(* Counting up                                                             *)

\* What holds at zero and of each number after one it holds of, holds up to n.
LEMMA CountsUp ==
    ASSUME NEW n \in Nat, NEW G, 0 \in G, \A p \in 1..n : p - 1 \in G => p \in G
    PROVE  \A p \in 0..n : p \in G
<1>. DEFINE B == {p \in 0..n : \A q \in 0..p : q \in G}
            m == Max(B)
<1>1. 0 \in B
  OBVIOUS
<1>2. IsFiniteSet(B) /\ B \in SUBSET Int
  <2>1. IsFiniteSet(0..n)
    BY FS_Interval
  <2>. QED  BY <2>1, FS_Subset
<1>3. m \in B /\ \A y \in B : y <= m
  <2>. HIDE DEF B
  <2>. QED  BY <1>1, <1>2, MaxIsGreatest
<1>4. m \in 0..n /\ \A q \in 0..m : q \in G
  <2>. HIDE DEF m
  <2>. QED  BY <1>3
<1>. HIDE DEF m
<1>5. ASSUME m < n PROVE FALSE
  <2>1. m + 1 \in G
    BY <1>4, <1>5
  <2>2. \A q \in 0..m + 1 : q \in G
    BY <1>4, <2>1
  <2>3. m + 1 \in B
    BY <1>4, <1>5, <2>2
  <2>. QED  BY <1>3, <1>4, <2>3
<1>6. m = n
  BY <1>4, <1>5
<1>. QED  BY <1>4, <1>6
\* As many images as elements, at most: what is said of each element of a finite set
\* is a finite set.
LEMMA Images == ASSUME NEW S, IsFiniteSet(S), NEW f PROVE IsFiniteSet({f[x] : x \in S})
<1>. DEFINE T == {f[x] : x \in S}
            g == [x \in S |-> f[x]]
<1>1. g \in Surjection(S, T)
  BY DEF Surjection
<1>. HIDE DEF g, T
<1>2. IsFiniteSet(T)
  BY <1>1, FS_Surjection
<1>. QED  BY <1>2 DEF T

\* What starts within S, and whose steps stay in it, can be gone through to the end.
Walk(f, n, S, a, next) == f \in [0..n -> S] /\ f[0] = a /\ \A i \in 1..n : f[i] = next[i][f[i - 1]]
LEMMA Recursion ==
    ASSUME NEW n \in Nat, NEW S, NEW a \in S, NEW next \in [1..n -> [S -> S]]
    PROVE  \E f : Walk(f, n, S, a, next)
<1>. DEFINE Upto(m, f) == f \in [0..m -> S] /\ f[0] = a /\ \A i \in 1..m : f[i] = next[i][f[i - 1]]
            G == {m \in 0..n : \E f : Upto(m, f)}
<1>1. 0 \in G
  <2>1. Upto(0, [i \in 0..0 |-> a])
    OBVIOUS
  <2>. HIDE DEF Upto
  <2>. QED  BY <2>1
<1>2. ASSUME NEW p \in 1..n, p - 1 \in G PROVE p \in G
  <2>1. PICK f : Upto(p - 1, f)
    BY <1>2
  <2>. DEFINE g == [i \in 0..p |-> IF i = p THEN next[p][f[p - 1]] ELSE f[i]]
  <2>2. f[p - 1] \in S /\ next[p][f[p - 1]] \in S
    BY <2>1
  <2>3. \A i \in 0..p : g[i] \in S
    BY <2>1, <2>2
  <2>4. g \in [0..p -> S] /\ g[0] = a
    BY <2>1, <2>3
  <2>5. \A i \in 1..p : g[i] = next[i][g[i - 1]]
    <3>1. ASSUME NEW i \in 1..p, i # p PROVE g[i] = next[i][g[i - 1]]
      <4>1. g[i] = f[i] /\ g[i - 1] = f[i - 1] /\ i \in 1..p - 1
        BY <3>1
      <4>. HIDE DEF g
      <4>. QED  BY <2>1, <4>1
    <3>2. g[p] = next[p][f[p - 1]] /\ g[p - 1] = f[p - 1]
      OBVIOUS
    <3>. HIDE DEF g
    <3>. QED  BY <3>1, <3>2
  <2>6. Upto(p, g)
    <3>. HIDE DEF g
    <3>. QED  BY <2>4, <2>5
  <2>. HIDE DEF Upto, g
  <2>. QED  BY <2>6
<1>3. n \in G
  <2>1. \A p \in 0..n : p \in G
    <3>. HIDE DEF G
    <3>1. \A p \in 1..n : p - 1 \in G => p \in G
      BY <1>2
    <3>. QED  BY <1>1, <3>1, CountsUp
  <2>. HIDE DEF G
  <2>. QED  BY <2>1
<1>4. \E f : Upto(n, f)
  <2>. HIDE DEF Upto
  <2>. QED  BY <1>3
<1>. QED  BY <1>4 DEF Walk

\* What starts within S, and whose steps from within S stay in it, is always in it.
LEMMA Within ==
    ASSUME NEW n \in Nat, NEW S, NEW f, f[0] \in S, \A i \in 1..n : f[i - 1] \in S => f[i] \in S
    PROVE  \A i \in 0..n : f[i] \in S
<1>. DEFINE G == {i \in 0..n : f[i] \in S}
<1>1. 0 \in G /\ \A i \in 1..n : i - 1 \in G => i \in G
  OBVIOUS
<1>2. \A i \in 0..n : i \in G
  <2>. HIDE DEF G
  <2>. QED  BY <1>1, CountsUp
<1>. QED  BY <1>2
=============================================================================
