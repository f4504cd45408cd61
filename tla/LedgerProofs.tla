---------------------------- MODULE LedgerProofs ----------------------------
(***************************************************************************)
(* The ledger of the macro executor, for any things at any cost: first     *)
(* under any planner, then under the greedy planner, which is one of them  *)
(* and asks for nothing twice.                                             *)
(***************************************************************************)
EXTENDS Planner, CollectionTheorems

LTypes ==
    /\ minerals \in Int /\ gas \in Int /\ minerals <= Cap /\ gas <= GasCap
    /\ own \in [Things -> Int] /\ making \in [Things -> Int] /\ used \in [Things -> Int]
    /\ walking \in [Things -> Nat] /\ issued \in [Things -> Nat]
    /\ budget \in [m : Int, g : Int, s : Int]
    /\ plan \in Seq(Item) /\ pos \in Nat \ {0}
    /\ stage \in {"game", "plan", "spend"}

\* What is in the budget is in the bank, neither set aside nor ordered for.
LBudget ==
    stage = "spend" =>
        /\ budget.m + CostOf(walking, "m") + CostOf(issued, "m") <= minerals
        /\ budget.g + CostOf(walking, "g") + CostOf(issued, "g") <= gas
LInv == LTypes /\ LBudget

-----------------------------------------------------------------------------
(* What things cost                                                        *)

LEMMA CostIsNat == \A t \in Things : Cost(t, "m") = Data[t].m /\ Cost(t, "g") = Data[t].g
                       /\ Data[t].m \in Nat /\ Data[t].g \in Nat /\ Data[t].s \in Nat
  BY LedgerAssumption DEF Cost

\* One product, so that no later step has to multiply.
LEMMA Products ==
    ASSUME NEW c \in {"m", "g"}, NEW many \in [Things -> Int], NEW t \in Things
    PROVE  /\ many[t] * Cost(t, c) \in Int
           /\ many[t] \in Nat => many[t] * Cost(t, c) \in Nat
           /\ \A n \in Int : (many[t] + n) * Cost(t, c) = many[t] * Cost(t, c) + n * Cost(t, c)
           /\ \A n \in Int : many[t] <= n => many[t] * Cost(t, c) <= n * Cost(t, c)
<1>1. Cost(t, c) \in Nat /\ many[t] \in Int
  BY CostIsNat
<1>2. \A a, n \in Int, d \in Nat :
          a * d \in Int /\ (a \in Nat => a * d \in Nat) /\ (a + n) * d = a * d + n * d
          /\ (a <= n => a * d <= n * d)
  OBVIOUS
<1>. QED  BY <1>1, <1>2

LEMMA CostType ==
    ASSUME NEW c \in {"m", "g"}, NEW many \in [Things -> Int]
    PROVE  CostOf(many, c) \in Int /\ (many \in [Things -> Nat] => CostOf(many, c) \in Nat)
<1>. DEFINE f == [t \in Things |-> many[t] * Cost(t, c)]
<1>1. \A t \in Things : f[t] \in Int /\ (many[t] \in Nat => f[t] \in Nat)
  BY Products
<1>2. CostOf(many, c) = SumFunctionOnSet(f, Things)
  BY DEF CostOf, SumFunction
<1>. HIDE DEF f
<1>. QED  BY <1>1, <1>2, LedgerAssumption, SumInt, SumNat

LEMMA CostLess ==
    ASSUME NEW c \in {"m", "g"}, NEW many \in [Things -> Int], NEW more \in [Things -> Int],
           \A t \in Things : many[t] <= more[t]
    PROVE  CostOf(many, c) <= CostOf(more, c)
<1>. DEFINE f == [t \in Things |-> many[t] * Cost(t, c)]
            g == [t \in Things |-> more[t] * Cost(t, c)]
<1>1. \A t \in Things : f[t] \in Int /\ g[t] \in Int /\ f[t] <= g[t]
  BY Products
<1>2. CostOf(many, c) = SumFunctionOnSet(f, Things) /\ CostOf(more, c) = SumFunctionOnSet(g, Things)
  BY DEF CostOf, SumFunction
<1>. HIDE DEF f, g
<1>. QED  BY <1>1, <1>2, LedgerAssumption, SumLeq

\* Some more of one thing cost that much more.
LEMMA CostMore ==
    ASSUME NEW c \in {"m", "g"}, NEW many \in [Things -> Int], NEW t \in Things, NEW n \in Int
    PROVE  /\ More(many, t, n) \in [Things -> Int]
           /\ CostOf(More(many, t, n), c) = CostOf(many, c) + n * Cost(t, c)
           /\ n * Cost(t, c) \in Int
<1>. DEFINE more == More(many, t, n)
            f == [u \in Things |-> many[u] * Cost(u, c)]
            g == [u \in Things |-> more[u] * Cost(u, c)]
<1>1. more \in [Things -> Int] /\ more[t] = many[t] + n /\ \A u \in Things \ {t} : more[u] = many[u]
  BY DEF More
<1>2. n * Cost(t, c) \in Int
  BY CostIsNat
<1>. HIDE DEF more
<1>3. \A u \in Things : f[u] \in Int /\ g[u] \in Int
  BY <1>1, Products
<1>4. g[t] = f[t] + n * Cost(t, c)
  BY <1>1, Products
<1>5. \A u \in Things \ {t} : g[u] = f[u]
  BY <1>1
<1>6. CostOf(many, c) = SumFunctionOnSet(f, Things) /\ CostOf(more, c) = SumFunctionOnSet(g, Things)
  BY DEF CostOf, SumFunction
<1>. HIDE DEF f, g
<1>7. SumFunctionOnSet(g, Things) = SumFunctionOnSet(f, Things) + (g[t] - f[t])
  BY <1>3, <1>5, LedgerAssumption, SumChange
<1>8. f[t] \in Int /\ SumFunctionOnSet(f, Things) \in Int
  BY <1>3, LedgerAssumption, SumInt
<1>9. CostOf(more, c) = CostOf(many, c) + n * Cost(t, c)
  BY <1>2, <1>4, <1>6, <1>7, <1>8
<1>. QED  BY <1>1, <1>2, <1>9 DEF more

LEMMA CostNothing == \A c \in {"m", "g"} : CostOf(Nothing, c) = 0
<1>1. SUFFICES ASSUME NEW c \in {"m", "g"} PROVE CostOf(Nothing, c) = 0
  OBVIOUS
<1>. DEFINE f == [t \in Things |-> Nothing[t] * Cost(t, c)]
<1>2. \A t \in Things : f[t] = 0
  BY CostIsNat DEF Nothing
<1>3. CostOf(Nothing, c) = SumFunctionOnSet(f, Things)
  BY DEF CostOf, SumFunction
<1>. HIDE DEF f
<1>. QED  BY <1>2, <1>3, LedgerAssumption, SumZero

LEMMA NothingType == Nothing \in [Things -> Nat]
  BY DEF Nothing

-----------------------------------------------------------------------------
(* The steps of a decision                                                 *)

StepOK == LInv' /\ (Covered => Covered' \/ SentEarly)

LEMMA ItemInHand ==
    ASSUME LInv, NEW kinds, OnItem(kinds)
    PROVE  It \in Item /\ It.t \in Things /\ stage = "spend" /\ Count \in Nat \ {0}
<1>1. plan \in Seq(Item) /\ pos \in 1..Len(plan) /\ stage = "spend"
  BY DEF LInv, LTypes, OnItem
<1>2. It \in Item
  BY <1>1 DEF It
<1>3. It.t \in Things /\ It.count \in Int
  BY <1>2 DEF Item
<1>. QED  BY <1>1, <1>2, <1>3 DEF Count

\* A step that orders nothing and sends nobody, and at most holds money.
LEMMA Holds ==
    ASSUME LInv, stage = "spend", NextItem, UNCHANGED <<walking, used, issued>>,
           budget' \in [m : Int, g : Int, s : Int], budget'.m <= budget.m, budget'.g <= budget.g
    PROVE  StepOK
<1>1. UNCHANGED <<stage, plan, minerals, gas, own, making>> /\ pos' = pos + 1
  BY DEF NextItem
<1>2. LTypes'
  BY <1>1 DEF LInv, LTypes
<1>3. /\ CostOf(walking, "m")' = CostOf(walking, "m") /\ CostOf(walking, "g")' = CostOf(walking, "g")
      /\ CostOf(issued, "m")' = CostOf(issued, "m") /\ CostOf(issued, "g")' = CostOf(issued, "g")
  OBVIOUS
<1>4. /\ CostOf(walking, "m") \in Int /\ CostOf(walking, "g") \in Int
      /\ CostOf(issued, "m") \in Int /\ CostOf(issued, "g") \in Int
  BY CostType DEF LInv, LTypes
<1>5. budget.m \in Int /\ budget.g \in Int /\ budget'.m \in Int /\ budget'.g \in Int /\ minerals \in Int /\ gas \in Int
  BY DEF LInv, LTypes
<1>6. LBudget'
  BY <1>1, <1>3, <1>4, <1>5 DEF LInv, LBudget
<1>7. Covered => Covered'
  BY <1>1, <1>3 DEF Covered, IssuedCost
<1>. QED  BY <1>2, <1>6, <1>7 DEF StepOK, LInv

\* More of one thing is still so many of each, and costs that much more.
LEMMA MoreOf ==
    ASSUME NEW many \in [Things -> Nat], NEW t \in Things, NEW n \in Int, many[t] + n >= 0,
           NEW more, more = More(many, t, n)
    PROVE  /\ more \in [Things -> Nat] /\ more[t] = many[t] + n
           /\ CostOf(more, "m") = CostOf(many, "m") + n * Data[t].m /\ n * Data[t].m \in Int
           /\ CostOf(more, "g") = CostOf(many, "g") + n * Data[t].g /\ n * Data[t].g \in Int
<1>1. many \in [Things -> Int]
  OBVIOUS
<1>2. more \in [Things -> Nat] /\ more[t] = many[t] + n
  BY DEF More
<1>3. CostOf(more, "m") = CostOf(many, "m") + n * Cost(t, "m") /\ n * Cost(t, "m") \in Int
  BY <1>1, CostMore
<1>4. CostOf(more, "g") = CostOf(many, "g") + n * Cost(t, "g") /\ n * Cost(t, "g") \in Int
  BY <1>1, CostMore
<1>. QED  BY <1>2, <1>3, <1>4, CostIsNat

\* More of one thing is still so many of each, whatever there is of it.
LEMMA MoreInt ==
    ASSUME NEW many \in [Things -> Int], NEW t \in Things, NEW n \in Int
    PROVE  More(many, t, n) \in [Things -> Int]
  BY DEF More

\* What the costs of the ledger are, as numbers.
LEMMA LedgerCosts ==
    ASSUME LTypes
    PROVE  /\ CostOf(walking, "m") \in Nat /\ CostOf(walking, "g") \in Nat
           /\ CostOf(issued, "m") \in Nat /\ CostOf(issued, "g") \in Nat
           /\ budget.m \in Int /\ budget.g \in Int /\ budget.s \in Int /\ minerals \in Int /\ gas \in Int
<1>1. /\ walking \in [Things -> Nat] /\ issued \in [Things -> Nat]
      /\ walking \in [Things -> Int] /\ issued \in [Things -> Int]
  BY DEF LTypes
<1>. QED  BY <1>1, CostType DEF LTypes

\* A step that orders n of a thing, for money that is there.
LEMMA Orders ==
    ASSUME LInv, stage = "spend", NextItem, NEW t \in Things, NEW n \in Nat, Order(t, n),
           budget' \in [m : Int, g : Int, s : Int],
           budget'.m + n * Data[t].m <= budget.m, budget'.g + n * Data[t].g <= budget.g,
           n = 0 \/ (n * Data[t].m <= budget.m /\ n * Data[t].g <= budget.g)
    PROVE  StepOK
<1>1. /\ UNCHANGED <<stage, plan, minerals, gas, own, making, walking>> /\ pos' = pos + 1
      /\ issued' = More(issued, t, n) /\ used' = More(used, Data[t].from, n)
  BY DEF NextItem, Order
<1>2. issued \in [Things -> Nat] /\ issued \in [Things -> Int] /\ used \in [Things -> Int] /\ issued[t] + n >= 0
  BY DEF LInv, LTypes
<1>0. n \in Int /\ issued' = More(issued, t, n) /\ used' = More(used, Data[t].from, n)
  BY <1>1
<1>3. issued' \in [Things -> Nat] /\ used' \in [Things -> Int]
  <2>1. issued' \in [Things -> Nat]
    BY <1>0, <1>2, MoreOf
  <2>2. Data[t].from \in Things
    BY LedgerAssumption
  <2>3. used' \in [Things -> Int]
    BY <1>0, <1>2, <2>2, MoreInt
  <2>. QED  BY <2>1, <2>3
<1>4. LTypes'
  BY <1>1, <1>3 DEF LInv, LTypes
<1>5. /\ CostOf(issued', "m") = CostOf(issued, "m") + n * Data[t].m /\ n * Data[t].m \in Int
      /\ CostOf(issued', "g") = CostOf(issued, "g") + n * Data[t].g /\ n * Data[t].g \in Int
  BY <1>0, <1>2, MoreOf
<1>6. CostOf(walking', "m") = CostOf(walking, "m") /\ CostOf(walking', "g") = CostOf(walking, "g")
  BY <1>1
<1>7. /\ CostOf(walking, "m") \in Nat /\ CostOf(walking, "g") \in Nat
      /\ CostOf(issued, "m") \in Nat /\ CostOf(issued, "g") \in Nat
      /\ budget.m \in Int /\ budget.g \in Int /\ minerals \in Int /\ gas \in Int
  BY LedgerCosts DEF LInv
<1>8. budget'.m \in Int /\ budget'.g \in Int
  OBVIOUS
<1>9. /\ budget.m + CostOf(walking, "m") + CostOf(issued, "m") <= minerals
      /\ budget.g + CostOf(walking, "g") + CostOf(issued, "g") <= gas
  BY DEF LInv, LBudget
<1>10. LBudget'
  <2>1. minerals' = minerals /\ gas' = gas
    BY <1>1
  <2>2. budget'.m + CostOf(walking', "m") + CostOf(issued', "m") <= minerals
    BY <1>5, <1>6, <1>7, <1>8, <1>9
  <2>3. budget'.g + CostOf(walking', "g") + CostOf(issued', "g") <= gas
    BY <1>5, <1>6, <1>7, <1>8, <1>9
  <2>. QED  BY <2>1, <2>2, <2>3 DEF LBudget
<1>11. Covered => Covered'
  <2>1. minerals' = minerals /\ gas' = gas
    BY <1>1
  <2>2. CASE n = 0
    <3>1. n * Data[t].m = 0 /\ n * Data[t].g = 0
      BY <2>2, CostIsNat
    <3>2. CostOf(issued', "m") = CostOf(issued, "m") /\ CostOf(issued', "g") = CostOf(issued, "g")
      BY <1>5, <1>7, <3>1
    <3>. QED  BY <2>1, <1>6, <3>2 DEF Covered, IssuedCost
  <2>3. CASE n * Data[t].m <= budget.m /\ n * Data[t].g <= budget.g
    <3>1. minerals - CostOf(issued', "m") >= CostOf(walking', "m")
      BY <1>5, <1>6, <1>7, <1>9, <2>3
    <3>2. gas - CostOf(issued', "g") >= CostOf(walking', "g")
      BY <1>5, <1>6, <1>7, <1>9, <2>3
    <3>. QED  BY <2>1, <3>1, <3>2 DEF Covered, IssuedCost
  <2>. QED  BY <2>2, <2>3
<1>. QED  BY <1>4, <1>10, <1>11 DEF StepOK, LInv

\* A step that sends a builder, whose money is there or will be.
LEMMA Sends ==
    ASSUME LInv, stage = "spend", NextItem, NEW t \in Things, Send(t)
    PROVE  StepOK
<1>1. /\ UNCHANGED <<stage, plan, minerals, gas, own, making, used, issued>> /\ pos' = pos + 1
      /\ walking' = More(walking, t, 1)
  BY DEF NextItem, Send
<1>2. walking \in [Things -> Nat] /\ walking \in [Things -> Int] /\ walking[t] + 1 >= 0 /\ walking[t] \in Nat
  BY DEF LInv, LTypes
<1>3. walking' \in [Things -> Nat] /\ walking'[t] = walking[t] + 1
  <2>1. walking' = More(walking, t, 1) /\ 1 \in Int
    BY <1>1
  <2>. QED  BY <1>2, <2>1, MoreOf
<1>4. /\ CostOf(walking', "m") = CostOf(walking, "m") + Data[t].m /\ Data[t].m \in Nat
      /\ CostOf(walking', "g") = CostOf(walking, "g") + Data[t].g /\ Data[t].g \in Nat
  <2>1. /\ CostOf(walking', "m") = CostOf(walking, "m") + 1 * Data[t].m
        /\ CostOf(walking', "g") = CostOf(walking, "g") + 1 * Data[t].g
    <3>1. walking' = More(walking, t, 1) /\ 1 \in Int
      BY <1>1
    <3>. QED  BY <1>2, <3>1, MoreOf
  <2>2. 1 * Data[t].m = Data[t].m /\ 1 * Data[t].g = Data[t].g
    BY CostIsNat
  <2>. QED  BY <2>1, <2>2, CostIsNat
<1>5. /\ CostOf(walking, "m") \in Nat /\ CostOf(walking, "g") \in Nat
      /\ CostOf(issued, "m") \in Nat /\ CostOf(issued, "g") \in Nat
      /\ budget.m \in Int /\ budget.g \in Int /\ budget.s \in Int /\ minerals \in Int /\ gas \in Int
  BY LedgerCosts DEF LInv
<1>6. /\ budget'.m = budget.m - Data[t].m /\ budget'.g = budget.g - Data[t].g
      /\ budget' \in [m : Int, g : Int, s : Int]
  BY <1>5, CostIsNat DEF Send, Spend
<1>7. LTypes'
  BY <1>1, <1>3, <1>6 DEF LInv, LTypes
<1>8. /\ budget.m + CostOf(walking, "m") + CostOf(issued, "m") <= minerals
      /\ budget.g + CostOf(walking, "g") + CostOf(issued, "g") <= gas
  BY DEF LInv, LBudget
<1>9. issued' = issued /\ minerals' = minerals /\ gas' = gas
  BY <1>1
<1>10. LBudget'
  <2>1. budget'.m + CostOf(walking', "m") + CostOf(issued, "m") <= minerals
    BY <1>4, <1>5, <1>6, <1>8
  <2>2. budget'.g + CostOf(walking', "g") + CostOf(issued, "g") <= gas
    BY <1>4, <1>5, <1>6, <1>8
  <2>. QED  BY <1>9, <2>1, <2>2 DEF LBudget
<1>11. CASE Can(budget, t)
  <2>1. Data[t].m <= budget.m /\ Data[t].g <= budget.g
    BY <1>5, <1>4, <1>11 DEF Can
  <2>2. minerals - CostOf(issued, "m") >= CostOf(walking', "m")
    BY <1>4, <1>5, <1>8, <2>1
  <2>3. gas - CostOf(issued, "g") >= CostOf(walking', "g")
    BY <1>4, <1>5, <1>8, <2>1
  <2>4. Covered'
    BY <1>9, <2>2, <2>3 DEF Covered, IssuedCost
  <2>. QED  BY <1>7, <1>10, <2>4 DEF StepOK, LInv
<1>12. CASE ~Can(budget, t)
  <2>1. SentEarly
    BY <1>2, <1>3, <1>12 DEF SentEarly
  <2>. QED  BY <1>7, <1>10, <2>1 DEF StepOK, LInv
<1>. QED  BY <1>11, <1>12

\* Holding money leaves less of it.
LEMMA HoldLess ==
    ASSUME NEW b \in [m : Int, g : Int, s : Int], NEW t \in Things
    PROVE  /\ Hold(b, t) \in [m : Int, g : Int, s : Int]
           /\ Hold(b, t).m <= b.m /\ Hold(b, t).g <= b.g
<1>1. Data[t].m \in Nat /\ Data[t].g \in Nat /\ b.m \in Int /\ b.g \in Int
  BY LedgerAssumption
<1>. QED  BY <1>1 DEF Hold

\* What n of a thing leave.
LEMMA SpendLess ==
    ASSUME NEW b \in [m : Int, g : Int, s : Int], NEW t \in Things, NEW n \in Nat
    PROVE  /\ Spend(b, t, n) \in [m : Int, g : Int, s : Int]
           /\ Spend(b, t, n).m = b.m - n * Data[t].m /\ n * Data[t].m \in Int
           /\ Spend(b, t, n).g = b.g - n * Data[t].g /\ n * Data[t].g \in Int
<1>1. Data[t].m \in Nat /\ Data[t].g \in Nat /\ Data[t].s \in Nat
  BY LedgerAssumption
<1>2. \A d \in Nat : n * d \in Int
  OBVIOUS
<1>3. n * Data[t].m \in Int /\ n * Data[t].g \in Int /\ n * Data[t].s \in Int
  BY <1>1, <1>2
<1>. QED  BY <1>3 DEF Spend

LEMMA BudgetType == LInv => budget \in [m : Int, g : Int, s : Int]
  BY DEF LInv, LTypes

\* The four ways to deal with an item.
LEMMA LeaveOK == ASSUME LInv, stage = "spend", NextItem, Leave PROVE StepOK
<1>1. budget' = budget /\ UNCHANGED <<walking, used, issued>>
  BY DEF Leave
<1>2. budget.m \in Int /\ budget.g \in Int
  BY BudgetType
<1>. QED  BY <1>1, <1>2, BudgetType, Holds

LEMMA SaveOK ==
    ASSUME LInv, stage = "spend", NextItem, NEW t \in Things, Save(Hold(budget, t))
    PROVE  StepOK
<1>1. budget' = Hold(budget, t) /\ UNCHANGED <<walking, used, issued>>
  BY DEF Save
<1>2. /\ budget' \in [m : Int, g : Int, s : Int]
      /\ budget'.m <= budget.m /\ budget'.g <= budget.g
  BY <1>1, BudgetType, HoldLess
<1>. QED  BY <1>1, <1>2, Holds

LEMMA OneOK ==
    ASSUME LInv, stage = "spend", NextItem, NEW t \in Things, Can(budget, t),
           Order(t, 1), budget' = Spend(budget, t, 1)
    PROVE  StepOK
<1>1. /\ budget' \in [m : Int, g : Int, s : Int]
      /\ budget'.m = budget.m - 1 * Data[t].m /\ budget'.g = budget.g - 1 * Data[t].g
      /\ 1 * Data[t].m \in Int /\ 1 * Data[t].g \in Int
  BY BudgetType, SpendLess
<1>2. /\ budget.m \in Int /\ budget.g \in Int
      /\ 1 * Data[t].m = Data[t].m /\ 1 * Data[t].g = Data[t].g
  BY BudgetType, CostIsNat
<1>3. 1 * Data[t].m <= budget.m /\ 1 * Data[t].g <= budget.g
  BY <1>2, CostIsNat DEF Can
<1>4. budget'.m + 1 * Data[t].m <= budget.m /\ budget'.g + 1 * Data[t].g <= budget.g
  BY <1>1, <1>2
<1>5. 1 \in Nat
  OBVIOUS
<1>. QED  BY <1>1, <1>3, <1>4, <1>5, Orders

LEMMA DispatchOK ==
    ASSUME LInv, stage = "spend", NextItem, NEW t \in Things, Dispatch(t)
    PROVE  StepOK
<1>1. CASE ~Worthwhile(t)
  BY <1>1, LeaveOK DEF Dispatch
<1>2. CASE Worthwhile(t) /\ Can(budget, t)
  BY <1>2, Sends DEF Dispatch
<1>3. CASE Worthwhile(t) /\ ~Can(budget, t)
  <2>1. Send(t) \/ Save(Hold(budget, t))
    BY <1>3 DEF Dispatch
  <2>. QED  BY <2>1, Sends, SaveOK
<1>. QED  BY <1>1, <1>2, <1>3

LEMMA BuildOK == ASSUME LInv, Build PROVE StepOK
<1>. DEFINE t == It.t
<1>1. stage = "spend" /\ NextItem /\ t \in Things
  BY ItemInHand DEF Build, OnItem
<1>2. \/ Leave
      \/ Can(budget, t) /\ Order(t, 1) /\ budget' = Spend(budget, t, 1)
      \/ Save(Hold(budget, t))
      \/ Dispatch(t)
      \/ Data[t].psi /\ Dispatch(Pylon)
  BY DEF Build
<1>3. Data[t].psi => Pylon \in Things
  BY <1>1, LedgerAssumption
<1>. HIDE DEF t
<1>. QED  BY <1>1, <1>2, <1>3, LeaveOK, OneOK, SaveOK, DispatchOK

LEMMA SingleOK == ASSUME LInv, Single PROVE StepOK
<1>. DEFINE t == It.t
<1>1. stage = "spend" /\ NextItem /\ t \in Things
  BY ItemInHand DEF Single, OnItem
<1>2. \/ Leave
      \/ Can(budget, t) /\ Order(t, 1) /\ budget' = Spend(budget, t, 1)
      \/ Save(Hold(budget, t))
  BY DEF Single
<1>. HIDE DEF t
<1>. QED  BY <1>1, <1>2, LeaveOK, OneOK, SaveOK

\* How many could be made is a number.
LEMMA FreeType == ASSUME LInv, NEW t \in Things, NEW k \in Free(t) PROVE k \in Int
<1>. DEFINE p == Data[t].from
            A == {a \in Data[t].req : Data[a].kind = "addon" /\ Data[a].from = p}
            n == FreeOf(p)
<1>1. p \in Things /\ IsFiniteSet(Things)
  BY LedgerAssumption
<1>2. own[p] \in Int /\ used[p] \in Int /\ own[t] \in Int /\ making[t] \in Int
      /\ \A u \in Things : making[u] \in Int
  BY <1>1 DEF LInv, LTypes
<1>3. Busy(p) \in Int
  <2>. DEFINE U == {u \in From(p) : Produced(u)}
  <2>1. U \in SUBSET Things
    BY DEF From
  <2>2. SumFunctionOnSet(making, U) \in Int
    <3>. HIDE DEF U
    <3>. QED  BY <1>1, <1>2, <2>1, SumInt
  <2>. QED  BY <2>2 DEF Busy
<1>4. n \in Int
  BY <1>2, <1>3 DEF FreeOf
<1>5. \/ k \in n - own[t] - making[t] .. n
      \/ k = n
      \/ k \in 0..n
  BY DEF Free
<1>. HIDE DEF n
<1>. QED  BY <1>2, <1>4, <1>5

\* What fits one after the other fits all at once.
LEMMA TrainOK == ASSUME LInv, Train PROVE StepOK
<1>. DEFINE t == It.t
<1>1. stage = "spend" /\ NextItem /\ t \in Things /\ Count \in Nat \ {0}
  BY ItemInHand DEF Train, OnItem
<1>2. CASE Leave
  BY <1>1, <1>2, LeaveOK
<1>3. CASE ~Leave
  <2>. DEFINE n(k) == IF k < Count THEN k ELSE Count
              F(k) == {i \in 1..n(k) : \A h \in 1..i : Fits(Spend(budget, t, h - 1), t)}
              j(k) == Max({0} \cup F(k))
              b(k) == Spend(budget, t, j(k))
  <2>1. PICK k \in Free(t) :
            /\ Order(t, j(k))
            /\ budget' = IF j(k) < n(k) /\ Data[t].s <= b(k).s THEN Hold(b(k), t) ELSE b(k)
    BY <1>3 DEF Train
  <2>2. k \in Int /\ n(k) \in Int
    BY <1>1, FreeType
  <2>. DEFINE S == {0} \cup F(k)
  <2>3. S \in SUBSET Int /\ S # {} /\ IsFiniteSet(S)
    <3>1. F(k) \in SUBSET (1..n(k)) /\ 1..n(k) \in SUBSET Int
      BY <2>2
    <3>. HIDE DEF F, n
    <3>2. IsFiniteSet(1..n(k))
      BY <2>2, FS_Interval
    <3>3. IsFiniteSet(F(k))
      BY <3>1, <3>2, FS_Subset
    <3>4. IsFiniteSet({0} \cup F(k))
      BY <3>3, FS_Singleton, FS_Union
    <3>. QED  BY <3>1, <3>4
  <2>4. j(k) \in S
    <3>. HIDE DEF S
    <3>1. Max(S) \in S
      BY <2>3, MaxIsGreatest
    <3>. QED  BY <3>1 DEF S
  <2>. DEFINE q == j(k)
  <2>5. q \in Nat /\ (q = 0 \/ (Fits(Spend(budget, t, q - 1), t) /\ q - 1 \in Nat))
    <3>1. CASE q = 0
      BY <3>1
    <3>2. CASE q \in F(k)
      <4>. HIDE DEF j
      <4>1. q \in 1..n(k) /\ \A h \in 1..q : Fits(Spend(budget, t, h - 1), t)
        BY <3>2
      <4>. HIDE DEF q, n
      <4>2. q \in Nat /\ q >= 1 /\ q \in 1..q
        BY <2>2, <4>1
      <4>. QED  BY <4>1, <4>2
    <3>. QED  BY <2>4, <3>1, <3>2
  <2>6. Order(t, q) /\ (budget' = Hold(Spend(budget, t, q), t) \/ budget' = Spend(budget, t, q))
    BY <2>1
  <2>. HIDE DEF q, t
  <2>7. /\ Spend(budget, t, q) \in [m : Int, g : Int, s : Int]
        /\ Spend(budget, t, q).m = budget.m - q * Data[t].m /\ q * Data[t].m \in Int
        /\ Spend(budget, t, q).g = budget.g - q * Data[t].g /\ q * Data[t].g \in Int
    BY <1>1, <2>5, BudgetType, SpendLess
  <2>8. budget.m \in Int /\ budget.g \in Int /\ Data[t].m \in Nat /\ Data[t].g \in Nat
    BY <1>1, BudgetType, CostIsNat
  <2>9. /\ budget' \in [m : Int, g : Int, s : Int]
        /\ budget'.m <= Spend(budget, t, q).m /\ budget'.g <= Spend(budget, t, q).g
    <3>1. CASE budget' = Spend(budget, t, q)
      BY <2>7, <2>8, <3>1
    <3>2. CASE budget' = Hold(Spend(budget, t, q), t)
      BY <1>1, <2>7, <3>2, HoldLess
    <3>. QED  BY <2>6, <3>1, <3>2
  <2>10. budget'.m \in Int /\ budget'.g \in Int
    BY <2>9
  <2>11. budget'.m + q * Data[t].m <= budget.m /\ budget'.g + q * Data[t].g <= budget.g
    BY <2>7, <2>8, <2>9, <2>10
  <2>12. q = 0 \/ (q * Data[t].m <= budget.m /\ q * Data[t].g <= budget.g)
    <3>1. SUFFICES ASSUME q # 0 PROVE q * Data[t].m <= budget.m /\ q * Data[t].g <= budget.g
      OBVIOUS
    <3>2. Can(Spend(budget, t, q - 1), t) /\ q - 1 \in Nat
      BY <2>5, <3>1 DEF Fits
    <3>3. /\ Spend(budget, t, q - 1).m = budget.m - (q - 1) * Data[t].m
          /\ Spend(budget, t, q - 1).g = budget.g - (q - 1) * Data[t].g
      BY <1>1, <3>2, BudgetType, SpendLess
    <3>4. \A d \in Nat : (q - 1) * d = q * d - d
      BY <2>5
    <3>5. /\ Data[t].m <= budget.m - (q * Data[t].m - Data[t].m)
          /\ Data[t].g <= budget.g - (q * Data[t].g - Data[t].g)
      BY <2>8, <3>2, <3>3, <3>4 DEF Can
    <3>. QED  BY <2>7, <2>8, <3>5
  <2>. QED  BY <1>1, <2>5, <2>6, <2>9, <2>11, <2>12, Orders
<1>. QED  BY <1>2, <1>3

-----------------------------------------------------------------------------
(* The other steps                                                         *)

\* What is used of supply, and what there is of it, are numbers.
LEMMA SupplyType == ASSUME LInv PROVE Used \in Int /\ Total \in Int
<1>1. \A t \in Things : own[t] \in Int /\ making[t] \in Int /\ Data[t].s \in Nat /\ Data[t].gives \in Nat
  BY LedgerAssumption DEF LInv, LTypes
<1>. DEFINE f == [t \in Things |-> Data[t].s * (own[t] + making[t])]
            g == [t \in Things |-> Data[t].gives * own[t]]
<1>2. \A a, b \in Int : a + b \in Int /\ a * b \in Int
  OBVIOUS
<1>3. \A t \in Things : f[t] \in Int /\ g[t] \in Int
  BY <1>1, <1>2
<1>4. Used = SumFunctionOnSet(f, Things) /\ Total = SumFunctionOnSet(g, Things)
  BY DEF Used, Total, SumFunction
<1>. HIDE DEF f, g
<1>. QED  BY <1>3, <1>4, LedgerAssumption, SumInt

\* The tick begins: what is left is what is in the bank less what is set aside.
LEMMA PlannedOK == ASSUME LInv, Planned PROVE StepOK
<1>1. /\ stage = "plan" /\ stage' = "spend" /\ plan' \in Seq(Item) /\ pos' = 1
      /\ walking' = [t \in Things |-> IF t \in cancelled' THEN 0 ELSE walking[t]]
      /\ budget' = [m |-> minerals - CostOf(walking', "m"), g |-> gas - CostOf(walking', "g"),
                    s |-> Total - Used]
      /\ used' = Nothing /\ issued' = Nothing /\ UNCHANGED <<minerals, gas, own, making>>
  BY DEF Planned, Open, Reserved, CostOf
<1>2. walking \in [Things -> Nat] /\ minerals \in Int /\ gas \in Int
  BY DEF LInv, LTypes
<1>3. walking' \in [Things -> Nat] /\ \A t \in Things : walking'[t] <= walking[t]
  BY <1>1, <1>2
<1>4. issued' \in [Things -> Nat] /\ used' \in [Things -> Int]
  BY <1>1 DEF Nothing
<1>5. /\ CostOf(walking', "m") \in Nat /\ CostOf(walking', "g") \in Nat
      /\ CostOf(walking', "m") <= CostOf(walking, "m") /\ CostOf(walking', "g") <= CostOf(walking, "g")
  <2>1. walking \in [Things -> Int] /\ walking' \in [Things -> Int]
    BY <1>2, <1>3
  <2>. QED  BY <1>3, <2>1, CostType, CostLess
<1>6. CostOf(issued', "m") = 0 /\ CostOf(issued', "g") = 0
  BY <1>1, CostNothing
<1>7. budget' \in [m : Int, g : Int, s : Int] /\ budget'.m = minerals - CostOf(walking', "m")
      /\ budget'.g = gas - CostOf(walking', "g")
  BY <1>1, <1>2, <1>5, SupplyType
<1>8. LTypes'
  BY <1>1, <1>3, <1>4, <1>7 DEF LInv, LTypes
<1>9. minerals' = minerals /\ gas' = gas
  BY <1>1
<1>10. LBudget'
  <2>1. /\ budget'.m + CostOf(walking', "m") + CostOf(issued', "m") <= minerals
        /\ budget'.g + CostOf(walking', "g") + CostOf(issued', "g") <= gas
    BY <1>2, <1>5, <1>6, <1>7
  <2>. QED  BY <1>9, <2>1 DEF LBudget
<1>11. Covered => Covered'
  <2>1. /\ CostOf(issued, "m") \in Nat /\ CostOf(issued, "g") \in Nat
        /\ CostOf(walking, "m") \in Nat /\ CostOf(walking, "g") \in Nat
    BY LedgerCosts DEF LInv
  <2>2. SUFFICES ASSUME Covered PROVE Covered'
    OBVIOUS
  <2>3. /\ minerals - CostOf(issued, "m") >= CostOf(walking, "m")
        /\ gas - CostOf(issued, "g") >= CostOf(walking, "g")
    BY <2>2 DEF Covered, IssuedCost
  <2>4. /\ minerals - CostOf(issued', "m") >= CostOf(walking', "m")
        /\ gas - CostOf(issued', "g") >= CostOf(walking', "g")
    BY <1>2, <1>5, <1>6, <2>1, <2>3
  <2>. QED  BY <1>9, <2>4 DEF Covered, IssuedCost
<1>. QED  BY <1>8, <1>10, <1>11 DEF StepOK, LInv

\* The orders are paid for.
LEMMA CarryOK == ASSUME LInv, Carry PROVE StepOK
<1>1. /\ stage' = "game" /\ plan' = <<>> /\ pos' = 1 /\ used' = Nothing /\ issued' = Nothing
      /\ minerals' = minerals - CostOf(issued, "m") /\ gas' = gas - CostOf(issued, "g")
      /\ making' = [t \in Things |-> making[t] + issued[t]]
      /\ own' = [t \in Things |-> own[t] - Eaten(t)]
      /\ budget' = [m |-> 0, g |-> 0, s |-> 0] /\ walking' = walking
  BY DEF Carry, IssuedCost
<1>2. /\ issued \in [Things -> Nat] /\ making \in [Things -> Int] /\ own \in [Things -> Int]
      /\ walking \in [Things -> Nat] /\ minerals <= Cap /\ gas <= GasCap
  BY DEF LInv, LTypes
<1>3. \A t \in Things : Eaten(t) \in Int
  <2>1. SUFFICES ASSUME NEW t \in Things PROVE Eaten(t) \in Int
    OBVIOUS
  <2>. DEFINE U == {u \in From(t) : Data[u].eats}
  <2>2. U \in SUBSET Things /\ \A u \in Things : issued[u] \in Int
    BY <1>2 DEF From
  <2>3. SumFunctionOnSet(issued, U) \in Int
    <3>. HIDE DEF U
    <3>. QED  BY <2>2, LedgerAssumption, SumInt
  <2>. QED  BY <2>3 DEF Eaten
<1>4. making' \in [Things -> Int] /\ own' \in [Things -> Int]
  BY <1>1, <1>2, <1>3
<1>5. /\ CostOf(issued, "m") \in Nat /\ CostOf(issued, "g") \in Nat /\ minerals \in Int /\ gas \in Int
      /\ CostOf(walking, "m") \in Nat /\ CostOf(walking, "g") \in Nat
  BY LedgerCosts DEF LInv
<1>6. minerals' \in Int /\ gas' \in Int /\ minerals' <= Cap /\ gas' <= GasCap
  <2>1. Cap \in Nat /\ GasCap \in Nat
    BY LedgerAssumption
  <2>. QED  BY <1>1, <1>2, <1>5, <2>1
<1>7. issued' \in [Things -> Nat] /\ used' \in [Things -> Int] /\ plan' \in Seq(Item)
      /\ budget' \in [m : Int, g : Int, s : Int]
  BY <1>1 DEF Nothing
<1>8. LInv'
  BY <1>1, <1>2, <1>4, <1>6, <1>7 DEF LInv, LTypes, LBudget
<1>9. CostOf(issued', "m") = 0 /\ CostOf(issued', "g") = 0
  BY <1>1, CostNothing
<1>10. Covered => Covered'
  <2>1. SUFFICES ASSUME Covered PROVE Covered'
    OBVIOUS
  <2>2. /\ minerals - CostOf(issued, "m") >= CostOf(walking, "m")
        /\ gas - CostOf(issued, "g") >= CostOf(walking, "g")
    BY <2>1 DEF Covered, IssuedCost
  <2>3. minerals' - CostOf(issued', "m") >= CostOf(walking, "m") /\ gas' - CostOf(issued', "g") >= CostOf(walking, "g")
    BY <1>1, <1>5, <1>9, <2>2
  <2>4. walking' = walking
    BY <1>1
  <2>. QED  BY <2>3, <2>4 DEF Covered, IssuedCost
<1>. QED  BY <1>8, <1>10 DEF StepOK

\* A step of the game that leaves the ledger alone, and what walks costs no more
\* than the bank gains.
LEMMA GameOK ==
    ASSUME LInv, stage = "game", stage' \in {"game", "plan"}, UNCHANGED ledger,
           own' \in [Things -> Int], making' \in [Things -> Int], walking' \in [Things -> Nat],
           minerals' \in Int, gas' \in Int, minerals' <= Cap, gas' <= GasCap,
           CostOf(walking', "m") + (minerals - minerals') <= CostOf(walking, "m"),
           CostOf(walking', "g") + (gas - gas') <= CostOf(walking, "g")
    PROVE  StepOK
<1>1. UNCHANGED <<plan, pos, budget, used, issued>>
  BY DEF ledger
<1>2. LInv'
  BY <1>1 DEF LInv, LTypes, LBudget
<1>3. /\ CostOf(issued, "m") \in Nat /\ CostOf(issued, "g") \in Nat /\ minerals \in Int /\ gas \in Int
      /\ CostOf(walking, "m") \in Nat /\ CostOf(walking, "g") \in Nat
  BY LedgerCosts DEF LInv
<1>4. CostOf(walking', "m") \in Nat /\ CostOf(walking', "g") \in Nat
  <2>1. walking' \in [Things -> Int]
    OBVIOUS
  <2>. QED  BY <2>1, CostType
<1>5. issued' = issued
  BY <1>1
<1>6. Covered => Covered'
  <2>1. SUFFICES ASSUME Covered PROVE Covered'
    OBVIOUS
  <2>2. /\ minerals - CostOf(issued, "m") >= CostOf(walking, "m")
        /\ gas - CostOf(issued, "g") >= CostOf(walking, "g")
    BY <2>1 DEF Covered, IssuedCost
  <2>3. minerals' - CostOf(issued, "m") >= CostOf(walking', "m") /\ gas' - CostOf(issued, "g") >= CostOf(walking', "g")
    BY <1>3, <1>4, <2>2
  <2>. QED  BY <1>5, <2>3 DEF Covered, IssuedCost
<1>. QED  BY <1>2, <1>6 DEF StepOK

LEMMA GameTypes ==
    ASSUME LInv
    PROVE  /\ minerals \in Int /\ gas \in Int /\ minerals <= Cap /\ gas <= GasCap
           /\ own \in [Things -> Int] /\ making \in [Things -> Int]
           /\ walking \in [Things -> Nat] /\ Cap \in Nat /\ GasCap \in Nat
           /\ CostOf(walking, "m") \in Nat /\ CostOf(walking, "g") \in Nat
  BY LedgerAssumption, LedgerCosts DEF LInv, LTypes

LEMMA MineOK ==
    ASSUME LInv, NEW m \in Int, NEW g \in Int, Mine(m, g),
           minerals <= m, m <= Cap, gas <= g, g <= GasCap
    PROVE  StepOK
<1>1. /\ stage = "game" /\ stage' = "game" /\ UNCHANGED ledger
      /\ minerals' = m /\ gas' = g /\ own' = own /\ making' = making /\ walking' = walking
  BY DEF Mine, InGame
<1>2. /\ CostOf(walking', "m") + (minerals - minerals') <= CostOf(walking, "m")
      /\ CostOf(walking', "g") + (gas - gas') <= CostOf(walking, "g")
  BY <1>1, GameTypes
<1>. QED  BY <1>1, <1>2, GameTypes, GameOK

\* A builder that is no longer walking sets its money free.
LEMMA FewerWalk ==
    ASSUME LInv, NEW t \in Things, walking[t] > 0, NEW more, more = More(walking, t, -1)
    PROVE  /\ more \in [Things -> Nat]
           /\ CostOf(more, "m") = CostOf(walking, "m") - Data[t].m
           /\ CostOf(more, "g") = CostOf(walking, "g") - Data[t].g
<1>1. walking \in [Things -> Nat] /\ walking[t] \in Nat /\ walking[t] + (-1) >= 0 /\ -1 \in Int
  BY GameTypes
<1>2. /\ more \in [Things -> Nat]
      /\ CostOf(more, "m") = CostOf(walking, "m") + (-1) * Data[t].m
      /\ CostOf(more, "g") = CostOf(walking, "g") + (-1) * Data[t].g
  BY <1>1, MoreOf
<1>3. \A d \in Nat : \A x \in Nat : x + (-1) * d = x - d
  OBVIOUS
<1>. QED  BY <1>2, <1>3, GameTypes, CostIsNat

LEMMA PlacesOK == ASSUME LInv, NEW t \in Things, Places(t) PROVE StepOK
<1>1. /\ stage = "game" /\ stage' = "game" /\ UNCHANGED ledger /\ walking[t] > 0
      /\ minerals >= Data[t].m /\ gas >= Data[t].g
      /\ walking' = More(walking, t, -1) /\ making' = More(making, t, 1)
      /\ minerals' = minerals - Data[t].m /\ gas' = gas - Data[t].g
      /\ own' = IF Data[t].eats THEN More(own, Worker, -1) ELSE own
  BY DEF Places, InGame
<1>2. /\ walking' \in [Things -> Nat]
      /\ CostOf(walking', "m") = CostOf(walking, "m") - Data[t].m
      /\ CostOf(walking', "g") = CostOf(walking, "g") - Data[t].g
  BY <1>1, FewerWalk
<1>3. making' \in [Things -> Int] /\ own' \in [Things -> Int]
  <2>1. making \in [Things -> Int] /\ own \in [Things -> Int]
    BY GameTypes
  <2>2. More(own, Worker, -1) \in [Things -> Int]
    <3>1. Worker \in Things /\ -1 \in Int
      BY LedgerAssumption
    <3>. QED  BY <2>1, <3>1, MoreInt
  <2>3. More(making, t, 1) \in [Things -> Int]
    BY <2>1 DEF More
  <2>. QED  BY <1>1, <2>1, <2>2, <2>3
<1>4. /\ minerals' \in Int /\ gas' \in Int /\ minerals' <= Cap /\ gas' <= GasCap
      /\ CostOf(walking', "m") + (minerals - minerals') <= CostOf(walking, "m")
      /\ CostOf(walking', "g") + (gas - gas') <= CostOf(walking, "g")
  BY <1>1, <1>2, GameTypes, CostIsNat
<1>5. stage' \in {"game", "plan"}
  BY <1>1
<1>. QED  BY <1>1, <1>2, <1>3, <1>4, <1>5, GameOK

\* What is in the bank stays, and what walks does not cost more.
LEMMA StillOK ==
    ASSUME LInv, stage = "game", stage' \in {"game", "plan"}, UNCHANGED ledger, UNCHANGED <<minerals, gas>>,
           own' \in [Things -> Int], making' \in [Things -> Int], walking' \in [Things -> Nat],
           CostOf(walking', "m") <= CostOf(walking, "m"), CostOf(walking', "g") <= CostOf(walking, "g")
    PROVE  StepOK
<1>1. walking' \in [Things -> Int]
  OBVIOUS
<1>2. CostOf(walking', "m") \in Nat /\ CostOf(walking', "g") \in Nat
  BY <1>1, CostType
<1>3. /\ minerals' \in Int /\ gas' \in Int /\ minerals' <= Cap /\ gas' <= GasCap
      /\ CostOf(walking', "m") + (minerals - minerals') <= CostOf(walking, "m")
      /\ CostOf(walking', "g") + (gas - gas') <= CostOf(walking, "g")
  BY <1>2, GameTypes
<1>. QED  BY <1>3, GameOK

LEMMA HappensOK == ASSUME LInv, Happens \/ Alarm PROVE StepOK
<1>1. CASE Mines
  <2>. DEFINE m == IF minerals < Cap THEN minerals + 1 ELSE Cap
  <2>1. m \in Int /\ minerals <= m /\ m <= Cap /\ gas \in Int /\ gas <= gas /\ gas <= GasCap
    BY GameTypes
  <2>2. Mine(m, gas)
    BY <1>1 DEF Mines
  <2>. HIDE DEF m
  <2>. QED  BY <2>1, <2>2, MineOK
<1>2. CASE Drills
  <2>. DEFINE g == IF gas < GasCap THEN gas + 1 ELSE GasCap
  <2>1. g \in Int /\ gas <= g /\ g <= GasCap /\ minerals \in Int /\ minerals <= minerals /\ minerals <= Cap
    BY GameTypes
  <2>2. Mine(minerals, g)
    BY <1>2 DEF Drills
  <2>. HIDE DEF g
  <2>. QED  BY <2>1, <2>2, MineOK
<1>3. CASE Observes
  <2>1. /\ stage = "game" /\ stage' = "plan" /\ UNCHANGED ledger
        /\ UNCHANGED <<minerals, gas, own, making, walking>>
    BY <1>3 DEF Observes, game
  <2>2. CostOf(walking', "m") <= CostOf(walking, "m") /\ CostOf(walking', "g") <= CostOf(walking, "g")
    BY <2>1, GameTypes
  <2>. QED  BY <2>1, <2>2, GameTypes, StillOK
<1>4. ASSUME NEW t \in Things, Completes(t) PROVE StepOK
  <2>1. /\ stage = "game" /\ stage' = "game" /\ UNCHANGED ledger /\ UNCHANGED <<minerals, gas>> /\ walking' = walking
        /\ making' = IF t = Larva THEN making ELSE More(making, t, -1)
        /\ own' = More(own, t, 1)
    BY <1>4 DEF Completes, InGame
  <2>2. making' \in [Things -> Int] /\ own' \in [Things -> Int]
    <3>1. making \in [Things -> Int] /\ own \in [Things -> Int]
      BY GameTypes
    <3>2. More(making, t, -1) \in [Things -> Int] /\ More(own, t, 1) \in [Things -> Int]
      BY <3>1 DEF More
    <3>. QED  BY <2>1, <3>1, <3>2
  <2>3. walking' \in [Things -> Nat] /\ stage' \in {"game", "plan"}
        /\ CostOf(walking', "m") <= CostOf(walking, "m") /\ CostOf(walking', "g") <= CostOf(walking, "g")
    BY <2>1, GameTypes
  <2>. QED  BY <2>1, <2>2, <2>3, StillOK
<1>5. ASSUME NEW t \in Things, JobEnds(t) PROVE StepOK
  <2>1. /\ stage = "game" /\ stage' = "game" /\ UNCHANGED ledger /\ walking[t] > 0
        /\ walking' = More(walking, t, -1) /\ UNCHANGED <<minerals, gas>> /\ own' = own /\ making' = making
    BY <1>5 DEF JobEnds, InGame
  <2>2. /\ walking' \in [Things -> Nat] /\ stage' \in {"game", "plan"}
        /\ own' \in [Things -> Int] /\ making' \in [Things -> Int]
        /\ CostOf(walking', "m") = CostOf(walking, "m") - Data[t].m
        /\ CostOf(walking', "g") = CostOf(walking, "g") - Data[t].g
    BY <2>1, FewerWalk, GameTypes
  <2>3. CostOf(walking', "m") <= CostOf(walking, "m") /\ CostOf(walking', "g") <= CostOf(walking, "g")
    BY <2>2, GameTypes, CostIsNat
  <2>. QED  BY <2>1, <2>2, <2>3, StillOK
<1>6. ASSUME NEW t \in Things, Dies(t) PROVE StepOK
  <2>1. /\ stage = "game" /\ stage' = "game" /\ UNCHANGED ledger
        /\ own' = More(own, t, -1) /\ UNCHANGED <<minerals, gas>> /\ walking' = walking /\ making' = making
    BY <1>6 DEF Dies, InGame
  <2>2. own' \in [Things -> Int]
    <3>1. own \in [Things -> Int]
      BY GameTypes
    <3>. QED  BY <2>1, <3>1 DEF More
  <2>3. walking' \in [Things -> Nat] /\ making' \in [Things -> Int] /\ stage' \in {"game", "plan"}
        /\ CostOf(walking', "m") <= CostOf(walking, "m") /\ CostOf(walking', "g") <= CostOf(walking, "g")
    BY <2>1, GameTypes
  <2>. QED  BY <2>1, <2>2, <2>3, StillOK
<1>7. CASE Alarm
  <2>1. /\ stage = "game" /\ stage' = "game" /\ UNCHANGED ledger
        /\ UNCHANGED <<minerals, gas, own, making, walking>>
    BY <1>7 DEF Alarm
  <2>2. CostOf(walking', "m") <= CostOf(walking, "m") /\ CostOf(walking', "g") <= CostOf(walking, "g")
    BY <2>1, GameTypes
  <2>. QED  BY <2>1, <2>2, GameTypes, StillOK
<1>. QED  BY <1>1, <1>2, <1>3, <1>4, <1>5, <1>6, <1>7, PlacesOK DEF Happens

LEMMA LedgerStart == Init => LInv
<1>1. SUFFICES ASSUME Init PROVE LInv
  OBVIOUS
<1>2. own \in [Things -> Int]
  BY <1>1, LedgerAssumption DEF Init
<1>3. minerals = 0 /\ gas = 0 /\ Cap \in Nat /\ GasCap \in Nat
  BY <1>1, LedgerAssumption DEF Init
<1>. QED  BY <1>1, <1>2, <1>3, NothingType DEF Init, LInv, LTypes, LBudget, Nothing

LEMMA LedgerStep == LInv /\ AnyNext => StepOK
  BY PlannedOK, BuildOK, TrainOK, SingleOK, CarryOK, HappensOK DEF AnyNext, Spending

LEMMA LedgerStutter == LInv /\ UNCHANGED vars => LInv'
<1>1. SUFFICES ASSUME LInv, UNCHANGED vars PROVE LInv'
  OBVIOUS
<1>2. UNCHANGED <<minerals, gas, own, making, walking, stage, plan, pos, budget, used, issued>>
  BY <1>1 DEF vars, game, ledger
<1>. QED  BY <1>1, <1>2 DEF LInv, LTypes, LBudget

LEMMA LedgerInvariant == AnySpec => []LInv
<1>1. LInv /\ [AnyNext]_vars => LInv'
  BY LedgerStep, LedgerStutter DEF StepOK
<1>. QED  BY <1>1, LedgerStart, PTL DEF AnySpec

\* The budget is right throughout (Budget, Macro._reserved): it holds no more than
\* the bank has beyond what is set aside for the jobs that walk and what has been
\* ordered for in this decision.
THEOREM BudgetIsLeft == AnySpec => []LBudget
  BY LedgerInvariant, PTL DEF LInv

\* Money that is once there for all the jobs that walk stays there until they place,
\* whatever is planned, cancelled or lost: only a builder that is sent early may ask
\* for more than there is (Macro._reserved, Budget, Macro._build).
THEOREM JobsAreCovered == AnySpec => JobsStayCovered
<1>1. LInv /\ [AnyNext]_vars => [Covered => Covered' \/ SentEarly]_vars
  BY LedgerStep DEF StepOK
<1>. QED  BY <1>1, LedgerInvariant, PTL DEF AnySpec, JobsStayCovered

-----------------------------------------------------------------------------
(* The list under construction                                             *)

\* A list of the elements of a finite set.
LEMMA ListOf == ASSUME NEW S, IsFiniteSet(S) PROVE SetToSeq(S) \in Seq(S)
<1>. DEFINE n == Cardinality(S)
<1>1. n \in Nat /\ ExistsBijection(1..n, S)
  BY FS_CardinalityType
<1>2. \E f \in [1..n -> S] : IsInjective(f)
  BY <1>1 DEF ExistsBijection, Bijection, Injection, IsInjective
<1>3. SetToSeq(S) \in [1..n -> S]
  BY <1>2 DEF SetToSeq
<1>. HIDE DEF n
<1>. QED  BY <1>1, <1>3, SeqDef

\* Nothing is on it twice.
Apart(list) == \A i, j \in DOMAIN list : list[i].kind = list[j].kind /\ list[i].t = list[j].t => i = j
Lists(S) == {list \in Seq(S) : Apart(list)}

LEMMA Added ==
    ASSUME NEW S, NEW list \in Lists(S), NEW e \in S
    PROVE  Add(list, e) \in Lists(S)
<1>1. list \in Seq(S) /\ Apart(list)
  BY DEF Lists
<1>2. CASE \E i \in DOMAIN list : list[i].kind = e.kind /\ list[i].t = e.t
  BY <1>2 DEF Add
<1>3. CASE ~(\E i \in DOMAIN list : list[i].kind = e.kind /\ list[i].t = e.t)
  <2>. DEFINE new == Append(list, e)
  <2>1. Add(list, e) = new
    BY <1>3 DEF Add
  <2>2. /\ new \in Seq(S) /\ DOMAIN new = 1..Len(list) + 1 /\ DOMAIN list = 1..Len(list)
        /\ Len(list) \in Nat /\ new[Len(list) + 1] = e /\ \A i \in 1..Len(list) : new[i] = list[i]
    BY <1>1, AppendProperties, LenProperties
  <2>. HIDE DEF new
  <2>3. ASSUME NEW i \in DOMAIN new, NEW j \in DOMAIN new, new[i].kind = new[j].kind, new[i].t = new[j].t
        PROVE  i = j
    <3>1. CASE i \in 1..Len(list) /\ j \in 1..Len(list)
      BY <1>1, <2>2, <2>3, <3>1 DEF Apart
    <3>2. CASE i = Len(list) + 1 \/ j = Len(list) + 1
      BY <1>3, <2>2, <2>3, <3>2
    <3>. QED  BY <2>2, <3>1, <3>2
  <2>4. Apart(new)
    BY <2>3 DEF Apart
  <2>. QED  BY <2>1, <2>2, <2>4 DEF Lists
<1>. QED  BY <1>2, <1>3

LEMMA AddedIf ==
    ASSUME NEW S, NEW list \in Lists(S), NEW cond, NEW e, cond => e \in S
    PROVE  AddIf(list, cond, e) \in Lists(S)
  BY Added DEF AddIf

LEMMA AddedAll ==
    ASSUME NEW S, NEW list \in Lists(S), NEW E \in SUBSET S, IsFiniteSet(E)
    PROVE  AddAll(list, E) \in Lists(S)
<1>. DEFINE es == SetToSeq(E)
            n == Len(es)
            L == Lists(S)
            IsAfter(f) == f = [i \in 0..n |-> IF i = 0 THEN list ELSE Add(f[i - 1], es[i])]
            after == CHOOSE f : IsAfter(f)
            next == [i \in 1..n |-> [l \in L |-> Add(l, es[i])]]
<1>1. AddAll(list, E) = after[n]
  BY DEF AddAll
<1>2. n \in Nat /\ \A i \in 1..n : es[i] \in S
  <2>1. es \in Seq(E)
    BY ListOf
  <2>. HIDE DEF es
  <2>. QED  BY <2>1, LenProperties
<1>. HIDE DEF es, n
<1>3. \A i \in 1..n : \A l \in L : Add(l, es[i]) \in L
  BY <1>2, Added
<1>4. /\ next \in [1..n -> [L -> L]] /\ list \in L
      /\ \A i \in 1..n : \A l \in L : next[i][l] = Add(l, es[i])
  <2>1. \A i \in 1..n : [l \in L |-> Add(l, es[i])] \in [L -> L]
    <3>. HIDE DEF L
    <3>. QED  BY <1>3
  <2>2. list \in L
    OBVIOUS
  <2>. HIDE DEF L
  <2>. QED  BY <2>1, <2>2
<1>5. PICK f : Walk(f, n, L, list, next)
  <2>1. n \in Nat /\ list \in L /\ next \in [1..n -> [L -> L]]
    BY <1>2, <1>4
  <2>. HIDE DEF next, L
  <2>. QED  BY <2>1, Recursion
<1>6. IsAfter(f)
  <2>1. \A i \in 1..n : f[i] = Add(f[i - 1], es[i])
    <3>. HIDE DEF L, next
    <3>1. \A i \in 1..n : f[i - 1] \in L
      BY <1>2, <1>5 DEF Walk
    <3>. QED  BY <1>4, <1>5, <3>1 DEF Walk
  <2>. QED  BY <1>2, <1>5, <2>1 DEF Walk
<1>7. IsAfter(after)
  <2>. HIDE DEF IsAfter
  <2>. QED  BY <1>6
<1>. HIDE DEF after, L
<1>8. after[0] = list /\ \A i \in 1..n : after[i] = Add(after[i - 1], es[i])
  BY <1>2, <1>7
<1>9. \A i \in 0..n : after[i] \in L
  <2>1. after[0] \in L /\ \A i \in 1..n : after[i - 1] \in L => after[i] \in L
    BY <1>3, <1>4, <1>8
  <2>. QED  BY <1>2, <2>1, Within
<1>10. after[n] \in L
  BY <1>2, <1>9
<1>. QED  BY <1>1, <1>10 DEF L

-----------------------------------------------------------------------------
(* How much of a thing is asked for                                        *)

\* How often a thing is in the opening up to some step of it.
LEMMA CountInOpening ==
    ASSUME NEW t \in Things, NEW i \in 0..Len(Opening)
    PROVE  Count2(t, i) \in Nat /\ Count2(t, i) <= InOpening(t) /\ InOpening(t) \in Nat
<1>. DEFINE n == Len(Opening)
            A == {k \in 1..i : Opening[k].t = t}
            B == {k \in 1..n : Opening[k].t = t}
<1>1. n \in Nat
  BY PlannerAssumption, LenProperties
<1>. HIDE DEF n
<1>2. B \in SUBSET (1..n) /\ A \in SUBSET B
  BY <1>1 DEF n
<1>3. IsFiniteSet(B) /\ IsFiniteSet(A)
  <2>. HIDE DEF A, B
  <2>1. IsFiniteSet(1..n)
    BY <1>1, FS_Interval
  <2>2. IsFiniteSet(B)
    BY <1>2, <2>1, FS_Subset
  <2>. QED  BY <1>2, <2>2, FS_Subset
<1>4. Cardinality(A) \in Nat /\ Cardinality(B) \in Nat /\ Cardinality(A) <= Cardinality(B)
  <2>. HIDE DEF A, B
  <2>. QED  BY <1>2, <1>3, FS_CardinalityType, FS_Subset
<1>5. Count2(t, i) = Cardinality(A) + Start[t] /\ InOpening(t) = Cardinality(B) + Start[t]
  BY DEF Count2, InOpening, n
<1>6. Start[t] \in Nat
  BY LedgerAssumption
<1>. HIDE DEF A, B
<1>. QED  BY <1>4, <1>5, <1>6

LEMMA AskedForIsMost ==
    ASSUME NEW t \in Things
    PROVE  /\ AskedFor(t) \in Nat /\ 1 <= AskedFor(t)
           /\ Start[t] <= AskedFor(t) /\ InOpening(t) <= AskedFor(t)
           /\ \A r \in Requests : r.t = t => r.count <= AskedFor(t)
           /\ t \in DOMAIN Goal.buildings => Goal.buildings[t] <= AskedFor(t)
           /\ t \in DOMAIN Goal.addons => Goal.addons[t] <= AskedFor(t)
<1>. DEFINE Q == {q \in Requests : q.t = t}
            A == {1, Start[t], InOpening(t)}
            B == {r.count : r \in Q}
            C == {Goal.buildings[b] : b \in {t} \cap DOMAIN Goal.buildings}
            D == {Goal.addons[b] : b \in {t} \cap DOMAIN Goal.addons}
            S == A \cup B \cup C \cup D
<1>1. AskedFor(t) = Max(S)
  BY DEF AskedFor
<1>2. A \in SUBSET Nat /\ IsFiniteSet(A)
  <2>1. 0 \in 0..Len(Opening)
    BY PlannerAssumption, LenProperties
  <2>2. InOpening(t) \in Nat /\ Start[t] \in Nat
    BY <2>1, CountInOpening, LedgerAssumption
  <2>3. IsFiniteSet({1}) /\ IsFiniteSet({Start[t]}) /\ IsFiniteSet({InOpening(t)})
    BY FS_Singleton
  <2>4. A = {1} \cup ({Start[t]} \cup {InOpening(t)})
    OBVIOUS
  <2>5. IsFiniteSet({Start[t]} \cup {InOpening(t)})
    BY <2>3, FS_Union
  <2>6. IsFiniteSet({1} \cup ({Start[t]} \cup {InOpening(t)}))
    BY <2>3, <2>5, FS_Union
  <2>. QED  BY <2>2, <2>4, <2>6
<1>3. B \in SUBSET Nat /\ IsFiniteSet(B)
  <2>1. Q \in SUBSET Requests /\ IsFiniteSet(Requests) /\ \A r \in Q : r.count \in Nat
    BY PlannerAssumption
  <2>. DEFINE g == [r \in Q |-> r.count]
  <2>2. IsFiniteSet({g[r] : r \in Q})
    <3>. HIDE DEF Q, g
    <3>1. IsFiniteSet(Q)
      BY <2>1, FS_Subset
    <3>. QED  BY <3>1, Images
  <2>3. {g[r] : r \in Q} = B
    <3>. HIDE DEF Q
    <3>. QED  OBVIOUS
  <2>. HIDE DEF Q
  <2>. QED  BY <2>1, <2>2, <2>3
<1>4. C \in SUBSET Nat /\ IsFiniteSet(C)
  <2>1. t \in DOMAIN Goal.buildings => Goal.buildings[t] \in Nat
    BY PlannerAssumption
  <2>2. C = {} \/ (C = {Goal.buildings[t]} /\ t \in DOMAIN Goal.buildings)
    OBVIOUS
  <2>. HIDE DEF C
  <2>. QED  BY <2>1, <2>2, FS_Singleton, FS_EmptySet
<1>5. D \in SUBSET Nat /\ IsFiniteSet(D)
  <2>1. t \in DOMAIN Goal.addons => Goal.addons[t] \in Nat
    BY PlannerAssumption
  <2>2. D = {} \/ (D = {Goal.addons[t]} /\ t \in DOMAIN Goal.addons)
    OBVIOUS
  <2>. HIDE DEF D
  <2>. QED  BY <2>1, <2>2, FS_Singleton, FS_EmptySet
<1>6. S \in SUBSET Nat /\ IsFiniteSet(S) /\ S # {}
  <2>1. 1 \in S
    OBVIOUS
  <2>. HIDE DEF A, B, C, D
  <2>2. IsFiniteSet(A \cup B)
    BY <1>2, <1>3, FS_Union
  <2>3. IsFiniteSet(A \cup B \cup C)
    BY <1>4, <2>2, FS_Union
  <2>4. IsFiniteSet(S)
    BY <1>5, <2>3, FS_Union
  <2>. QED  BY <1>2, <1>3, <1>4, <1>5, <2>1, <2>4
<1>7. Max(S) \in Nat /\ \A y \in S : y <= Max(S)
  <2>. HIDE DEF S
  <2>1. S \in SUBSET Int
    BY <1>6
  <2>. QED  BY <1>6, <2>1, MaxIsGreatest
<1>8. /\ 1 \in S /\ Start[t] \in S /\ InOpening(t) \in S
      /\ \A r \in Requests : r.t = t => r.count \in S
      /\ t \in DOMAIN Goal.buildings => Goal.buildings[t] \in S
      /\ t \in DOMAIN Goal.addons => Goal.addons[t] \in S
  OBVIOUS
<1>. HIDE DEF S
<1>. QED  BY <1>1, <1>7, <1>8

LEMMA WantedIsMost ==
    ASSUME NEW t \in Things
    PROVE  /\ Wanted(t) \in Nat /\ AskedFor(t) <= Wanted(t)
           /\ t = MainProducer => PerHall * (AskedFor(Hall) + Sites) <= Wanted(t)
<1>. DEFINE p == PerHall * (AskedFor(Hall) + Sites)
            S == {AskedFor(t)} \cup {p}
<1>1. AskedFor(t) \in Nat /\ p \in Nat
  <2>1. AskedFor(t) \in Nat /\ AskedFor(Hall) \in Nat /\ PerHall \in Nat /\ Sites \in Nat
    BY AskedForIsMost, PlannerAssumption, LedgerAssumption
  <2>2. \A a, b, c \in Nat : a * (b + c) \in Nat
    OBVIOUS
  <2>. QED  BY <2>1, <2>2
<1>. HIDE DEF p
<1>2. S \in SUBSET Int /\ S # {} /\ IsFiniteSet(S)
  <2>1. IsFiniteSet({AskedFor(t)}) /\ IsFiniteSet({p})
    BY FS_Singleton
  <2>2. IsFiniteSet({AskedFor(t)} \cup {p})
    BY <2>1, FS_Union
  <2>. QED  BY <1>1, <2>2
<1>3. Max(S) \in S /\ \A y \in S : y <= Max(S)
  <2>. HIDE DEF S
  <2>. QED  BY <1>2, MaxIsGreatest
<1>4. Wanted(t) = IF t = MainProducer THEN Max(S) ELSE AskedFor(t)
  <2>1. S = {AskedFor(t), p}
    OBVIOUS
  <2>. HIDE DEF S
  <2>. QED  BY <2>1 DEF Wanted, p
<1>5. Max(S) \in Nat /\ AskedFor(t) <= Max(S) /\ p <= Max(S)
  BY <1>1, <1>3
<1>. QED  BY <1>1, <1>4, <1>5 DEF p

-----------------------------------------------------------------------------
(* What may be planned                                                     *)

\* Of nothing that has a bound an item asks for more than may still be made, when so
\* many of it have been ordered.
Due(e, ordered) ==
    /\ e.kind = "expand" => e.t = Hall /\ e.count = 1
    /\ e.t \notin Unbounded =>
        /\ e.kind = "build" =>
               /\ Data[e.t].kind \in {"building", "morph"} /\ e.count = 1
               /\ own[e.t] + making[e.t] + ordered < Wanted(e.t)
        /\ e.kind = "addon" => Data[e.t].kind = "addon" /\ e.count <= Wanted(e.t) /\ ordered = 0
        /\ e.kind \in {"train", "upgrade"} => ~IsBuilding(e.t)
DueItems == {e \in Item : Due(e, 0)}

PTypes ==
    /\ macro \in [pending : [Things -> Nat], bases : Int, count : Int, target : Int,
                 expanding : BOOLEAN, next : BOOLEAN]
    /\ reserved \in [m : Int, g : Int] /\ step \in 0..Len(Opening) /\ asked \subseteq Requests
    /\ \A t \in Things : making[t] >= 0

\* No more halls than there are sites are for a base, and those that walk are among the
\* jobs.  With what has been ordered, nothing else is made twice; a builder walks only to what a
\* builder builds, and only what it does not build is ordered.
AtSites ==
    /\ bases \in [walk : Nat, make : Nat, done : Nat]
    /\ bases.walk <= walking[Hall] /\ AtBases <= Sites
NoneTwice ==
    /\ AtSites
    /\ \A t \in Things \ Unbounded : IsBuilding(t) =>
           /\ Besides(t) + issued[t] <= Wanted(t)
           /\ Data[t].kind = "building" => issued[t] = 0
           /\ Data[t].kind # "building" => walking[t] = 0
RestIsDue ==
    stage = "spend" =>
        /\ Apart(plan)
        /\ \A i \in DOMAIN plan : i >= pos => Due(plan[i], issued[plan[i].t])
PInv == LInv /\ PTypes /\ NoneTwice /\ RestIsDue

-----------------------------------------------------------------------------
(* The entries of the list                                                 *)

\* What there is, is being made and has been counted as walking.
LEMMA HaveType ==
    ASSUME PInv, NEW t \in Things
    PROVE  /\ own[t] \in Int /\ making[t] \in Nat /\ walking[t] \in Nat /\ issued[t] \in Nat
           /\ macro.pending[t] \in Nat /\ Have(t) = own[t] + making[t] + macro.pending[t]
           /\ Have(t) \in Int /\ own[t] + making[t] <= Have(t)
<1>1. own[t] \in Int /\ making[t] \in Nat /\ walking[t] \in Nat /\ issued[t] \in Nat
  BY DEF PInv, LInv, LTypes, PTypes
<1>2. macro.pending[t] \in Nat
  BY DEF PInv, PTypes
<1>. QED  BY <1>1, <1>2 DEF Have

LEMMA PlanNumbers ==
    ASSUME PInv
    PROVE  /\ minerals \in Int /\ gas \in Int /\ reserved.m \in Int /\ reserved.g \in Int
           /\ macro.bases \in Int /\ macro.count \in Int /\ macro.target \in Int /\ step \in 0..Len(Opening)
           /\ Used \in Int /\ Total \in Int /\ asked \subseteq Requests
           /\ IsFiniteSet(Things) /\ \A t \in Things : Data[t].from \in Things
<1>1. Used \in Int /\ Total \in Int
  BY SupplyType DEF PInv
<1>. QED  BY <1>1, LedgerAssumption DEF PInv, LInv, LTypes, PTypes

\* What there is besides the halls at the sites.
LEMMA BesidesType ==
    ASSUME PInv, NEW t \in Things
    PROVE  /\ bases.walk \in Nat /\ bases.make \in Nat /\ bases.done \in Nat
           /\ bases \in [walk : Nat, make : Nat, done : Nat]
           /\ bases.walk <= walking[Hall] /\ AtBases <= Sites /\ AtBases \in Nat
           /\ AtBases = bases.walk + bases.make + bases.done
           /\ Besides(t) = own[t] + making[t] + walking[t] - (IF t = Hall THEN AtBases ELSE 0)
           /\ Besides(t) \in Int
<1>1. AtSites
  BY DEF PInv, NoneTwice
<1>2. bases \in [walk : Nat, make : Nat, done : Nat] /\ bases.walk <= walking[Hall] /\ AtBases <= Sites
  BY <1>1 DEF AtSites
<1>3. bases.walk \in Nat /\ bases.make \in Nat /\ bases.done \in Nat
  BY <1>2
<1>4. AtBases = bases.walk + bases.make + bases.done /\ AtBases \in Nat
  BY <1>3 DEF AtBases
<1>5. own[t] \in Int /\ making[t] \in Nat /\ walking[t] \in Nat
  BY HaveType
<1>. QED  BY <1>2, <1>3, <1>4, <1>5 DEF Besides

LEMMA PrioNat ==
    /\ Prio.supply \in Nat /\ Prio.opening \in Nat /\ Prio.severe \in Nat /\ Prio.worker \in Nat
    /\ Prio.chain \in Nat /\ Prio.urgent \in Nat /\ Prio.expand \in Nat /\ Prio.tech \in Nat
    /\ Prio.building \in Nat /\ Prio.upgrade \in Nat /\ Prio.army \in Nat /\ Prio.filler \in Nat
  BY DEF Prio

LEMMA TrainDue ==
    ASSUME NEW kind \in {"train", "upgrade"}, NEW t \in Things, NEW prio \in Nat, NEW count \in Int,
           NEW pays \in BOOLEAN, ~IsBuilding(t)
    PROVE  Entry(kind, t, prio, count, pays) \in DueItems
<1>. DEFINE e == Entry(kind, t, prio, count, pays)
<1>1. e \in Item /\ e.kind = kind /\ e.t = t
  BY DEF Entry, Item
<1>. HIDE DEF e
<1>. QED  BY <1>1 DEF DueItems, Due, e

LEMMA BuildDue ==
    ASSUME NEW t \in Things, NEW prio \in Nat, PInv,
           t \notin Unbounded => Data[t].kind \in {"building", "morph"} /\ own[t] + making[t] < Wanted(t)
    PROVE  Entry("build", t, prio, 1, FALSE) \in DueItems
<1>. DEFINE e == Entry("build", t, prio, 1, FALSE)
<1>1. e \in Item /\ e.kind = "build" /\ e.t = t /\ e.count = 1
  BY DEF Entry, Item
<1>2. own[t] + making[t] + 0 = own[t] + making[t]
  BY HaveType
<1>. HIDE DEF e
<1>. QED  BY <1>1, <1>2 DEF DueItems, Due, e

LEMMA ExpandDue ==
    ASSUME NEW prio \in Nat
    PROVE  Entry("expand", Hall, prio, 1, FALSE) \in DueItems
<1>. DEFINE e == Entry("expand", Hall, prio, 1, FALSE)
<1>1. e \in Item /\ e.kind = "expand" /\ e.t = Hall /\ e.count = 1
  BY LedgerAssumption DEF Entry, Item
<1>. HIDE DEF e
<1>. QED  BY <1>1 DEF DueItems, Due, e

LEMMA AddonDue ==
    ASSUME NEW t \in Things, NEW prio \in Nat, NEW count \in Nat, Data[t].kind = "addon", count <= Wanted(t)
    PROVE  Entry("addon", t, prio, count, TRUE) \in DueItems
<1>. DEFINE e == Entry("addon", t, prio, count, TRUE)
<1>1. e \in Item /\ e.kind = "addon" /\ e.t = t /\ e.count = count
  BY DEF Entry, Item
<1>. HIDE DEF e
<1>. QED  BY <1>1 DEF DueItems, Due, e

\* What there is none of may be built.
LEMMA NoneYet ==
    ASSUME PInv, NEW t \in Things, NEW n \in Int, Have(t) < n, n <= AskedFor(t)
    PROVE  own[t] + making[t] < Wanted(t)
<1>1. AskedFor(t) \in Nat /\ Wanted(t) \in Nat /\ AskedFor(t) <= Wanted(t)
  BY AskedForIsMost, WantedIsMost
<1>. QED  BY <1>1, HaveType

-----------------------------------------------------------------------------
(* What the list has set aside                                             *)

LEMMA DomainFinite ==
    ASSUME NEW S, NEW list \in Seq(S)
    PROVE  /\ DOMAIN list = 1..Len(list) /\ Len(list) \in Nat /\ DOMAIN list \in SUBSET Int
           /\ \A U \in SUBSET DOMAIN list : IsFiniteSet(U) /\ Cardinality(U) \in Nat
<1>1. DOMAIN list = 1..Len(list) /\ Len(list) \in Nat
  BY LenProperties
<1>2. IsFiniteSet(DOMAIN list)
  BY <1>1, FS_Interval
<1>3. \A U \in SUBSET DOMAIN list : IsFiniteSet(U)
  BY <1>2, FS_Subset
<1>. QED  BY <1>1, <1>3, FS_CardinalityType

LEMMA SetAsideType ==
    ASSUME NEW list \in Seq(Item), NEW c \in {"m", "g"}
    PROVE  SetAside(list, c) \in Int
<1>. DEFINE f == [i \in DOMAIN list |-> list[i].count * Cost(list[i].t, c)]
            A == {i \in DOMAIN list : list[i].pays}
            B == {i \in DOMAIN list : list[i].kind \in {"build", "expand"} /\ macro.pending[list[i].t] = 0}
<1>1. \A i \in DOMAIN list : f[i] \in Int
  <2>1. SUFFICES ASSUME NEW i \in DOMAIN list PROVE list[i].count * Cost(list[i].t, c) \in Int
    OBVIOUS
  <2>2. list[i] \in Item
    OBVIOUS
  <2>3. list[i].count \in Int /\ list[i].t \in Things
    BY <2>2 DEF Item
  <2>4. Cost(list[i].t, c) \in Nat
    BY <2>3, CostIsNat
  <2>5. \A a \in Int, b \in Nat : a * b \in Int
    OBVIOUS
  <2>. QED  BY <2>3, <2>4, <2>5
<1>2. FirstBuild(list) \in SUBSET DOMAIN list
  <2>1. B \in SUBSET DOMAIN list
    OBVIOUS
  <2>2. FirstBuild(list) = IF B = {} THEN {} ELSE {Min(B)}
    BY DEF FirstBuild
  <2>. HIDE DEF B
  <2>3. IsFiniteSet(B) /\ B \in SUBSET Int
    BY <2>1, DomainFinite
  <2>4. B # {} => Min(B) \in B
    BY <2>3, MinIsLeast
  <2>. QED  BY <2>1, <2>2, <2>4
<1>. DEFINE U == A \cup FirstBuild(list)
<1>3. U \in SUBSET DOMAIN list
  BY <1>2
<1>4. SetAside(list, c) = SumFunctionOnSet(f, U)
  BY DEF SetAside
<1>5. IsFiniteSet(DOMAIN list)
  BY DomainFinite
<1>. HIDE DEF f, U
<1>. QED  BY <1>1, <1>3, <1>4, <1>5, SumInt

LEMMA HeldForType ==
    ASSUME NEW list \in Seq(Item), NEW p
    PROVE  HeldFor(list, p) \in Nat
<1>. DEFINE U == {i \in DOMAIN list : list[i].kind = "addon" /\ Data[list[i].t].from = p}
<1>1. U \in SUBSET DOMAIN list
  OBVIOUS
<1>2. Cardinality(U) \in Nat
  <2>. HIDE DEF U
  <2>. QED  BY <1>1, DomainFinite
<1>. QED  BY <1>2 DEF HeldFor

LEMMA ListsAreLists ==
    \A list \in Lists(DueItems) : list \in Seq(Item) /\ list \in Seq(DueItems) /\ Apart(list)
<1>1. DueItems \in SUBSET Item
  BY DEF DueItems
<1>2. \A list \in Seq(DueItems) : list \in Seq(Item)
  BY <1>1, SeqDef
<1>. QED  BY <1>2 DEF Lists

-----------------------------------------------------------------------------
(* What the pieces of the planner add                                      *)

\* One entry for each of some things.
LEMMA ForEach ==
    ASSUME NEW P \in SUBSET Things, NEW f, \A t \in P : f[t] \in DueItems
    PROVE  {f[t] : t \in P} \in SUBSET DueItems /\ IsFiniteSet({f[t] : t \in P})
<1>1. IsFiniteSet(P)
  BY LedgerAssumption, FS_Subset
<1>2. IsFiniteSet({f[t] : t \in P})
  BY <1>1, Images
<1>. QED  BY <1>2

LEMMA EmptyList == <<>> \in Lists(DueItems)
  BY DEF Lists, Apart

LEMMA SupplyAdded == ASSUME PInv PROVE AddIf(<<>>, NeedSupply, Supply) \in Lists(DueItems)
<1>1. SupplyT \in Things /\ SupplyT \in Unbounded
  BY PlannerAssumption DEF Unbounded
<1>2. Supply \in DueItems
  <2>1. CASE IsBuilding(SupplyT)
    <3>1. Entry("build", SupplyT, Prio.supply, 1, FALSE) \in DueItems
      BY <1>1, BuildDue, PrioNat
    <3>. QED  BY <2>1, <3>1 DEF Supply
  <2>2. CASE ~IsBuilding(SupplyT)
    <3>1. 1 \in Int /\ TRUE \in BOOLEAN /\ "train" \in {"train", "upgrade"}
      OBVIOUS
    <3>2. Entry("train", SupplyT, Prio.supply, 1, TRUE) \in DueItems
      BY <1>1, <2>2, <3>1, TrainDue, PrioNat
    <3>. QED  BY <2>2, <3>2 DEF Supply
  <2>. QED  BY <2>1, <2>2
<1>. QED  BY <1>2, EmptyList, AddedIf

LEMMA MissingLacks ==
    ASSUME NEW S, NEW t \in Missing(S)
    PROVE  t \in Things /\ Have(t) = 0
  BY DEF Missing, Lacking

\* What is missing may be built.
LEMMA MissingDue ==
    ASSUME PInv, NEW S, NEW t \in Missing(S), NEW prio \in Nat, Data[t].kind \in {"building", "morph"}
    PROVE  Entry("build", t, prio, 1, FALSE) \in DueItems
<1>1. t \in Things /\ Have(t) < 1
  BY MissingLacks
<1>2. 1 <= AskedFor(t)
  BY <1>1, AskedForIsMost
<1>3. own[t] + making[t] < Wanted(t)
  <2>1. 1 \in Int
    OBVIOUS
  <2>. QED  BY <1>1, <1>2, <2>1, NoneYet
<1>. QED  BY <1>1, <1>3, BuildDue

\* What Crisis asks for.
LEMMA EntriesDue ==
    ASSUME PInv, NEW r \in Requests
    PROVE  Entries(r) \in SUBSET DueItems /\ IsFiniteSet(Entries(r))
<1>. DEFINE S == Data[r.t].req \cup {Data[r.t].from}
            P == {q \in Missing(S) : Data[q].kind \in {"building", "morph"} /\ ReqsDone(q)}
            f == [p \in P |-> Entry("build", p, 99, 1, FALSE)]
            b == Entry("build", r.t, 100, 1, FALSE)
            a == Entry("addon", r.t, 100, r.count, TRUE)
            u == Entry("train", r.t, 100, r.count, TRUE)
<1>1. /\ r.t \in Things /\ r.count \in Nat /\ r.item \in {"build", "addon", "train", "cancel"}
      /\ r.item = "build" => Data[r.t].kind \in {"building", "morph"}
      /\ r.item = "addon" => Data[r.t].kind = "addon"
      /\ r.item = "train" => ~IsBuilding(r.t)
  BY PlannerAssumption DEF IsBuilding
<1>2. r.count \in Int /\ r.count <= AskedFor(r.t)
  BY <1>1, AskedForIsMost
<1>3. {f[p] : p \in P} \in SUBSET DueItems /\ IsFiniteSet({f[p] : p \in P})
  <2>1. P \in SUBSET Things
    BY MissingLacks
  <2>2. \A p \in P : f[p] \in DueItems
    <3>1. 99 \in Nat
      OBVIOUS
    <3>. HIDE DEF S
    <3>. QED  BY <3>1, MissingDue
  <2>. HIDE DEF P, f
  <2>. QED  BY <2>1, <2>2, ForEach
<1>4. {f[p] : p \in P} = {Entry("build", p, 99, 1, FALSE) : p \in P}
  <2>. HIDE DEF P
  <2>. QED  OBVIOUS
<1>5. ASSUME r.item = "build", Have(r.t) < r.count PROVE b \in DueItems
  <2>1. own[r.t] + making[r.t] < Wanted(r.t)
    BY <1>1, <1>2, <1>5, NoneYet
  <2>2. 100 \in Nat
    OBVIOUS
  <2>. QED  BY <1>1, <1>5, <2>1, <2>2, BuildDue
<1>6. ASSUME r.item = "addon" PROVE a \in DueItems
  <2>1. AskedFor(r.t) \in Nat /\ Wanted(r.t) \in Nat /\ AskedFor(r.t) <= Wanted(r.t)
    BY <1>1, AskedForIsMost, WantedIsMost
  <2>2. r.count <= Wanted(r.t) /\ 100 \in Nat
    BY <1>1, <1>2, <2>1
  <2>. QED  BY <1>1, <1>6, <2>2, AddonDue
<1>7. ASSUME r.item = "train" PROVE u \in DueItems
  <2>1. 100 \in Nat /\ TRUE \in BOOLEAN /\ "train" \in {"train", "upgrade"}
    OBVIOUS
  <2>. QED  BY <1>1, <1>2, <1>7, <2>1, TrainDue
<1>8. \/ Entries(r) = {}
      \/ Entries(r) = {f[p] : p \in P}
      \/ r.item = "build" /\ Have(r.t) < r.count /\ Entries(r) = {b}
      \/ r.item = "addon" /\ Entries(r) = {a}
      \/ r.item = "train" /\ Entries(r) = {u}
  <2>1. r.item = "cancel" \/ (r.item # "train" /\ Have(r.t) >= r.count) => Entries(r) = {}
    BY DEF Entries
  <2>2. ASSUME ~(r.item = "cancel" \/ (r.item # "train" /\ Have(r.t) >= r.count)), ~ReqsDone(r.t)
        PROVE  Entries(r) = {f[p] : p \in P}
    <3>1. Entries(r) = {Entry("build", p, 99, 1, FALSE) : p \in P}
      BY <2>2 DEF Entries
    <3>. HIDE DEF f, P
    <3>. QED  BY <1>4, <3>1
  <2>3. ASSUME ~(r.item = "cancel" \/ (r.item # "train" /\ Have(r.t) >= r.count)), ReqsDone(r.t)
        PROVE  \/ Entries(r) = {}
               \/ r.item = "build" /\ Have(r.t) < r.count /\ Entries(r) = {b}
               \/ r.item = "addon" /\ Entries(r) = {a}
               \/ r.item = "train" /\ Entries(r) = {u}
    <3>1. r.item # "train" => Have(r.t) < r.count
      BY <1>1, <1>2, <2>3, HaveType
    <3>2. CASE r.item = "build"
      BY <2>3, <3>1, <3>2 DEF Entries
    <3>3. CASE r.item = "addon"
      BY <2>3, <3>1, <3>3 DEF Entries
    <3>4. CASE r.item = "train"
      BY <2>3, <3>4 DEF Entries
    <3>. QED  BY <1>1, <2>3, <3>2, <3>3, <3>4
  <2>. QED  BY <2>1, <2>2, <2>3
<1>. HIDE DEF a, b, u, f, P
<1>. QED  BY <1>3, <1>5, <1>6, <1>7, <1>8, FS_Singleton, FS_EmptySet

LEMMA AskedAdded ==
    ASSUME PInv, NEW list \in Lists(DueItems)
    PROVE  Asked(list) \in Lists(DueItems)
<1>. DEFINE f == [r \in asked |-> Entries(r)]
            E == UNION {f[r] : r \in asked}
<1>1. asked \in SUBSET Requests /\ IsFiniteSet(asked)
  BY PlanNumbers, PlannerAssumption, FS_Subset
<1>2. \A r \in asked : f[r] \in SUBSET DueItems /\ IsFiniteSet(f[r])
  BY <1>1, EntriesDue
<1>3. IsFiniteSet({f[r] : r \in asked})
  <2>. HIDE DEF f
  <2>. QED  BY <1>1, Images
<1>4. {f[r] : r \in asked} = {Entries(r) : r \in asked}
  OBVIOUS
<1>. HIDE DEF f
<1>5. IsFiniteSet(E) /\ E \in SUBSET DueItems
  BY <1>2, <1>3, FS_UNION
<1>6. Asked(list) = AddAll(list, E)
  BY <1>4 DEF Asked
<1>. HIDE DEF E
<1>. QED  BY <1>5, <1>6, AddedAll

\* The next step of the opening is one that there is not yet.
LEMMA NextOfOpening ==
    ASSUME PInv, NEW i, i = StepNow, OpeningNext(i)
    PROVE  /\ i \in 0..Len(Opening) - 1 /\ Opening[i + 1].t \in Things \ Kinds({"addon"})
           /\ own[Opening[i + 1].t] + making[Opening[i + 1].t] < Wanted(Opening[i + 1].t)
<1>. DEFINE n == Len(Opening)
            seen(k) == own[Opening[k].t] + making[Opening[k].t] >= Count2(Opening[k].t, k)
            B == {j \in step..n : \A k \in step + 1..j : seen(k)}
            A == {step} \cup B
            t == Opening[i + 1].t
<1>1. n \in Nat /\ step \in 0..n /\ \A k \in 1..n : Opening[k].t \in Things \ Kinds({"addon"})
  <2>1. Opening \in Seq([at : Nat, t : Things \ Kinds({"addon"})])
    BY PlannerAssumption
  <2>2. n \in Nat /\ \A k \in 1..n : Opening[k] \in [at : Nat, t : Things \ Kinds({"addon"})]
    BY <2>1, LenProperties
  <2>. QED  BY <2>2, PlanNumbers
<1>2. i = Max(A)
  BY DEF StepNow
<1>. HIDE DEF seen, n
<1>3. i \in A /\ \A j \in A : j <= i
  <2>1. A \in SUBSET Int /\ A # {}
    BY <1>1
  <2>2. IsFiniteSet(A)
    <3>1. IsFiniteSet(step..n)
      BY <1>1, FS_Interval
    <3>2. B \in SUBSET (step..n)
      OBVIOUS
    <3>. HIDE DEF B
    <3>3. IsFiniteSet(B)
      BY <3>1, <3>2, FS_Subset
    <3>. QED  BY <3>3, FS_Singleton, FS_Union
  <2>. HIDE DEF A
  <2>. QED  BY <1>2, <2>1, <2>2, MaxIsGreatest
<1>4. i \in step..n /\ \A k \in step + 1..i : seen(k)
  BY <1>1, <1>3
<1>5. i # n
  BY DEF OpeningNext, OpeningDone, n
<1>6. i \in 0..n - 1 /\ i + 1 \in step..n /\ i + 1 \in 1..n /\ i + 1 \in 0..n
  BY <1>1, <1>4, <1>5
<1>7. ~seen(i + 1)
  <2>1. SUFFICES ASSUME seen(i + 1) PROVE FALSE
    OBVIOUS
  <2>2. \A k \in step + 1..i + 1 : seen(k)
    BY <1>1, <1>4, <1>6, <2>1
  <2>3. i + 1 \in A
    BY <1>6, <2>2
  <2>. QED  BY <1>3, <1>6, <2>3
<1>8. t \in Things \ Kinds({"addon"})
  BY <1>1, <1>6
<1>9. own[t] + making[t] < Count2(t, i + 1)
  <2>1. Count2(t, i + 1) \in Nat
    BY <1>6, <1>8, CountInOpening DEF n
  <2>2. ~(own[t] + making[t] >= Count2(t, i + 1))
    BY <1>7 DEF seen
  <2>. QED  BY <1>8, <2>1, <2>2, HaveType
<1>10. /\ Count2(t, i + 1) \in Nat /\ Count2(t, i + 1) <= InOpening(t) /\ InOpening(t) \in Nat
       /\ InOpening(t) <= AskedFor(t) /\ AskedFor(t) <= Wanted(t) /\ AskedFor(t) \in Nat /\ Wanted(t) \in Nat
  BY <1>6, <1>8, CountInOpening, AskedForIsMost, WantedIsMost DEF n
<1>11. own[t] + making[t] < Wanted(t)
  BY <1>8, <1>9, <1>10, HaveType
<1>. QED  BY <1>6, <1>8, <1>11 DEF n

LEMMA OpensAdded ==
    ASSUME PInv, NEW list \in Lists(DueItems), NEW i, i = StepNow
    PROVE  Opens(list, i) \in Lists(DueItems)
<1>1. CASE ~OpeningNext(i)
  BY <1>1 DEF Opens
<1>2. CASE OpeningNext(i)
  <2>. DEFINE t == Opening[i + 1].t
              u == Entry("train", t, Prio.opening, 1, TRUE)
              x == Entry("expand", t, Prio.opening, 1, FALSE)
              b == Entry("build", t, Prio.opening, 1, FALSE)
  <2>1. t \in Things /\ Data[t].kind # "addon" /\ own[t] + making[t] < Wanted(t)
    BY <1>2, NextOfOpening DEF Kinds
  <2>2. ASSUME ~IsBuilding(t) PROVE u \in DueItems
    <3>1. 1 \in Int /\ TRUE \in BOOLEAN /\ "train" \in {"train", "upgrade"}
      OBVIOUS
    <3>. QED  BY <2>1, <2>2, <3>1, TrainDue, PrioNat
  <2>3. ASSUME IsBuilding(t) PROVE b \in DueItems
    <3>1. Data[t].kind \in {"building", "morph"}
      BY <2>1, <2>3 DEF IsBuilding
    <3>. QED  BY <2>1, <3>1, BuildDue, PrioNat
  <2>4. ASSUME t = Hall PROVE x \in DueItems
    BY <2>4, ExpandDue, PrioNat
  <2>5. \/ Opens(list, i) = list
        \/ ~IsBuilding(t) /\ Opens(list, i) = Add(list, u)
        \/ t = Hall /\ Opens(list, i) = AddIf(list, Hall \notin Cancels, x)
        \/ IsBuilding(t) /\ Opens(list, i) = Add(list, b)
    BY <1>2 DEF Opens
  <2>. HIDE DEF t, u, x, b
  <2>. QED  BY <2>2, <2>3, <2>4, <2>5, Added, AddedIf
<1>. QED  BY <1>1, <1>2

\* The least of two numbers is one of them.
LEMMA MinOfTwo ==
    ASSUME NEW a \in Int, NEW b \in Int
    PROVE  /\ Min({a, b}) \in Int /\ Min({a, b}) <= a /\ Min({a, b}) <= b /\ Min({a, b}) \in {a, b}
           /\ Max({a, b}) \in Int /\ a <= Max({a, b}) /\ b <= Max({a, b}) /\ Max({a, b}) \in {a, b}
<1>. DEFINE S == {a, b}
<1>1. S \in SUBSET Int /\ S # {} /\ a \in S /\ b \in S
  OBVIOUS
<1>2. IsFiniteSet(S)
  <2>1. S = {a} \cup {b}
    OBVIOUS
  <2>2. IsFiniteSet({a} \cup {b})
    BY FS_Singleton, FS_Union
  <2>. QED  BY <2>1, <2>2
<1>3. Min(S) \in S /\ (\A y \in S : Min(S) <= y) /\ Max(S) \in S /\ (\A y \in S : y <= Max(S))
  <2>. HIDE DEF S
  <2>. QED  BY <1>1, <1>2, MinIsLeast, MaxIsGreatest
<1>4. Min(S) \in Int /\ Max(S) \in Int
  <2>. HIDE DEF S
  <2>. QED  BY <1>1, <1>3
<1>. QED  BY <1>1, <1>3, <1>4

LEMMA WorkersAdded ==
    ASSUME PInv, NEW list \in Lists(DueItems)
    PROVE  WorkersWanted(list) \in Lists(DueItems)
<1>. DEFINE room == Min({WantWorkers - Have(Worker), own[Hall]})
            half == own[Larva] \div 2
            n == IF Zerg /\ Short THEN Min({room, half}) ELSE room
            e == Entry("train", Worker, Prio.worker, n, FALSE)
<1>1. WantWorkers \in Int
  <2>1. Goal.workers \in Int /\ MaxWorkers \in Int /\ macro.target \in Int
    BY PlannerAssumption, PlanNumbers
  <2>. DEFINE m == Min({MaxWorkers, macro.target})
  <2>2. m \in Int
    BY <2>1, MinOfTwo
  <2>3. Max({Goal.workers, m}) \in Int
    <3>. HIDE DEF m
    <3>. QED  BY <2>1, <2>2, MinOfTwo
  <2>. QED  BY <2>1, <2>3 DEF WantWorkers, Target
<1>2. Worker \in Things /\ Hall \in Things /\ ~IsBuilding(Worker)
  BY LedgerAssumption, PlannerAssumption DEF IsBuilding
<1>3. room \in Int
  <2>1. WantWorkers - Have(Worker) \in Int /\ own[Hall] \in Int
    BY <1>1, <1>2, HaveType
  <2>. QED  BY <2>1, MinOfTwo
<1>4. n \in Int
  <2>1. CASE Zerg
    <3>1. Larva \in Things
      BY <2>1, PlannerAssumption
    <3>2. own[Larva] \in Int
      BY <3>1, HaveType
    <3>3. half \in Int
      BY <3>2
    <3>. HIDE DEF room, half
    <3>. QED  BY <1>3, <3>3, MinOfTwo
  <2>2. CASE ~Zerg
    <3>. HIDE DEF room
    <3>. QED  BY <1>3, <2>2
  <2>. QED  BY <2>1, <2>2
<1>. HIDE DEF n
<1>5. e \in DueItems
  <2>1. FALSE \in BOOLEAN /\ "train" \in {"train", "upgrade"}
    OBVIOUS
  <2>. QED  BY <1>2, <1>4, <2>1, TrainDue, PrioNat
<1>6. WorkersWanted(list) = AddIf(list, n > 0, e)
  BY DEF WorkersWanted, n
<1>. HIDE DEF e
<1>. QED  BY <1>5, <1>6, AddedIf

LEMMA AddonsAdded ==
    ASSUME PInv, NEW list \in Lists(DueItems)
    PROVE  Addons(list) \in Lists(DueItems)
<1>. DEFINE P == {u \in DOMAIN Goal.addons : Goal.addons[u] > Have(u) /\ ReqsDone(u) /\ ParentFree(u)}
            f == [t \in P |-> Entry("addon", t, Prio.tech, Goal.addons[t], TRUE)]
<1>1. P \in SUBSET Things
  BY PlannerAssumption DEF Kinds
<1>2. \A t \in P : f[t] \in DueItems
  <2>1. SUFFICES ASSUME NEW t \in P PROVE Entry("addon", t, Prio.tech, Goal.addons[t], TRUE) \in DueItems
    OBVIOUS
  <2>2. t \in Things /\ Data[t].kind = "addon" /\ Goal.addons[t] \in Nat /\ t \in DOMAIN Goal.addons
    BY PlannerAssumption DEF Kinds
  <2>3. Goal.addons[t] <= AskedFor(t) /\ AskedFor(t) <= Wanted(t) /\ AskedFor(t) \in Nat /\ Wanted(t) \in Nat
    BY <2>2, AskedForIsMost, WantedIsMost
  <2>4. Goal.addons[t] <= Wanted(t)
    BY <2>2, <2>3
  <2>. QED  BY <2>2, <2>4, AddonDue, PrioNat
<1>3. Addons(list) = AddAll(list, {f[t] : t \in P})
  <2>1. {f[t] : t \in P} = {Entry("addon", t, Prio.tech, Goal.addons[t], TRUE) : t \in P}
    <3>. HIDE DEF P
    <3>. QED  OBVIOUS
  <2>. HIDE DEF f
  <2>. QED  BY <2>1 DEF Addons
<1>. HIDE DEF P, f
<1>4. {f[t] : t \in P} \in SUBSET DueItems /\ IsFiniteSet({f[t] : t \in P})
  BY <1>1, <1>2, ForEach
<1>. QED  BY <1>3, <1>4, AddedAll

LEMMA BuildingsAdded ==
    ASSUME PInv, NEW list \in Lists(DueItems), NEW i
    PROVE  Buildings(list, i) \in Lists(DueItems)
<1>. DEFINE P == {u \in DOMAIN Goal.buildings \ Later(i) :
                     /\ Have(u) < Goal.buildings[u] /\ (u = Refinery => Have(u) < Geysers)
                     /\ ReqsDone(u) /\ (IsProducer(u) \/ ~Short)}
            prio(t) == IF IsProducer(t) THEN Prio.building ELSE Prio.tech
            f == [t \in P |-> Entry("build", t, prio(t), 1, FALSE)]
<1>1. P \in SUBSET Things
  BY PlannerAssumption DEF Kinds
<1>2. \A t \in P : f[t] \in DueItems
  <2>1. SUFFICES ASSUME NEW t \in P PROVE Entry("build", t, prio(t), 1, FALSE) \in DueItems
    OBVIOUS
  <2>2. /\ t \in Things /\ Data[t].kind \in {"building", "morph"} /\ Goal.buildings[t] \in Int
        /\ t \in DOMAIN Goal.buildings /\ Have(t) < Goal.buildings[t]
    BY PlannerAssumption DEF Kinds
  <2>3. Goal.buildings[t] <= AskedFor(t)
    BY <2>2, AskedForIsMost
  <2>4. own[t] + making[t] < Wanted(t)
    BY <2>2, <2>3, NoneYet
  <2>5. prio(t) \in Nat
    BY PrioNat
  <2>. HIDE DEF prio
  <2>. QED  BY <2>2, <2>4, <2>5, BuildDue
<1>3. Buildings(list, i) = AddAll(list, {f[t] : t \in P})
  <2>1. {f[t] : t \in P} = {Entry("build", t, prio(t), 1, FALSE) : t \in P}
    <3>. HIDE DEF P, prio
    <3>. QED  OBVIOUS
  <2>. HIDE DEF f
  <2>. QED  BY <2>1 DEF Buildings
<1>. HIDE DEF P, f
<1>4. {f[t] : t \in P} \in SUBSET DueItems /\ IsFiniteSet({f[t] : t \in P})
  BY <1>1, <1>2, ForEach
<1>. QED  BY <1>3, <1>4, AddedAll

LEMMA TechsAdded ==
    ASSUME PInv, NEW list \in Lists(DueItems)
    PROVE  Techs(list) \in Lists(DueItems)
<1>. DEFINE P == {u \in Goal.techs : own[u] + making[u] = 0 /\ ReqsDone(u) /\ (~Short \/ GasFloat)}
            f == [t \in P |-> Entry("upgrade", t, Prio.upgrade, 1, TRUE)]
<1>1. P \in SUBSET Things
  BY PlannerAssumption DEF Kinds
<1>2. \A t \in P : f[t] \in DueItems
  <2>1. SUFFICES ASSUME NEW t \in P PROVE Entry("upgrade", t, Prio.upgrade, 1, TRUE) \in DueItems
    OBVIOUS
  <2>2. t \in Things /\ ~IsBuilding(t)
    BY PlannerAssumption DEF Kinds, IsBuilding
  <2>3. 1 \in Int /\ TRUE \in BOOLEAN /\ "upgrade" \in {"train", "upgrade"}
    OBVIOUS
  <2>. QED  BY <2>2, <2>3, TrainDue, PrioNat
<1>3. Techs(list) = AddAll(list, {f[t] : t \in P})
  <2>1. {f[t] : t \in P} = {Entry("upgrade", t, Prio.upgrade, 1, TRUE) : t \in P}
    <3>. HIDE DEF P
    <3>. QED  OBVIOUS
  <2>. HIDE DEF f
  <2>. QED  BY <2>1 DEF Techs
<1>. HIDE DEF P, f
<1>4. {f[t] : t \in P} \in SUBSET DueItems /\ IsFiniteSet({f[t] : t \in P})
  BY <1>1, <1>2, ForEach
<1>. QED  BY <1>3, <1>4, AddedAll

\* What gas is burnt for is an upgrade, or a structure that is missing for one.
LEMMA SinkDue ==
    ASSUME PInv, NEW u \in Sinks
    PROVE  SinkFor(u) \in SUBSET DueItems /\ IsFiniteSet(SinkFor(u))
<1>. DEFINE S == Data[u].req \cup {Data[u].from}
            M == {p \in Missing(S) : Data[p].kind \in {"building", "morph"} /\ ReqsDone(p)}
            one == CHOOSE o \in M : TRUE
            x == Entry("upgrade", u, Prio.upgrade, 1, TRUE)
            e(p) == Entry("build", p, Prio.tech, 1, FALSE)
            B == {e(p) : p \in {q \in M : q = one}}
<1>1. x \in DueItems
  <2>1. u \in Things /\ ~IsBuilding(u)
    BY PlannerAssumption DEF Kinds, IsBuilding
  <2>2. 1 \in Int /\ TRUE \in BOOLEAN /\ "upgrade" \in {"train", "upgrade"}
    OBVIOUS
  <2>. QED  BY <2>1, <2>2, TrainDue, PrioNat
<1>2. \A p \in M : e(p) \in DueItems
  <2>1. SUFFICES ASSUME NEW p \in M PROVE e(p) \in DueItems
    OBVIOUS
  <2>2. p \in Missing(S) /\ Data[p].kind \in {"building", "morph"}
    OBVIOUS
  <2>. HIDE DEF M, S
  <2>. QED  BY <2>2, MissingDue, PrioNat
<1>3. SinkFor(u) = IF ReqsDone(u) THEN {x} ELSE B
  BY DEF SinkFor
<1>4. B = {} \/ B = {e(one)}
  <2>. HIDE DEF M, e, one
  <2>. QED  OBVIOUS
<1>5. B \in SUBSET DueItems
  <2>. HIDE DEF M, e, one
  <2>. QED  BY <1>2
<1>6. IsFiniteSet(B) /\ IsFiniteSet({x})
  <2>. DEFINE b == e(one)
  <2>1. B = {} \/ B = {b}
    BY <1>4
  <2>. HIDE DEF B, b
  <2>. QED  BY <2>1, FS_Singleton, FS_EmptySet
<1>. HIDE DEF B, x
<1>. QED  BY <1>1, <1>3, <1>5, <1>6

LEMMA SinkAdded ==
    ASSUME PInv, NEW list \in Lists(DueItems)
    PROVE  GasSink(list) \in Lists(DueItems)
<1>. DEFINE U == {u \in Sinks : /\ own[u] + making[u] = 0
                               /\ \A r \in Data[u].req : Data[r].kind = "tech" => own[r] > 0}
            f == [u \in U |-> SinkFor(u)]
            F == {f[u] : u \in U}
<1>1. IsFiniteSet(U)
  <2>1. U \in SUBSET Things
    BY PlannerAssumption DEF Kinds
  <2>. HIDE DEF U
  <2>. QED  BY <2>1, LedgerAssumption, FS_Subset
<1>2. IsFiniteSet(F)
  <2>. HIDE DEF U, f
  <2>. QED  BY <1>1, Images
<1>3. \A X \in F : X \in SUBSET DueItems /\ IsFiniteSet(X)
  <2>1. \A u \in U : f[u] \in SUBSET DueItems /\ IsFiniteSet(f[u])
    BY SinkDue
  <2>. HIDE DEF U, f
  <2>. QED  BY <2>1
<1>4. UNION F \in SUBSET DueItems /\ IsFiniteSet(UNION F)
  <2>. HIDE DEF F
  <2>. QED  BY <1>2, <1>3, FS_UNION
<1>5. F = {SinkFor(u) : u \in U}
  <2>. HIDE DEF U
  <2>. QED  OBVIOUS
<1>6. GasSink(list) = IF GasFloat THEN AddAll(list, UNION F) ELSE list
  <2>. HIDE DEF F
  <2>. QED  BY <1>5 DEF GasSink
<1>. HIDE DEF F
<1>. QED  BY <1>4, <1>6, AddedAll

\* A larva farm is only for Zerg, whose halls have no bound.
LEMMA ExpandsAdded ==
    ASSUME PInv, NEW list \in Lists(DueItems), NEW i, NEW attacked
    PROVE  Expands(list, i, attacked) \in Lists(DueItems)
<1>. DEFINE wanted == WantBases(attacked) > Bases /\ Hall \notin Later(i)
            x == Entry("expand", Hall, Prio.expand, 1, FALSE)
            b == Entry("build", Hall, Prio.expand, 1, FALSE)
            kind == IF wanted \/ macro.next THEN "expand" ELSE "build"
            cond == Hall \notin Cancels /\ (wanted \/ LarvaStarved)
            e == Entry(kind, Hall, Prio.expand, 1, FALSE)
<1>1. x \in DueItems
  BY ExpandDue, PrioNat
<1>2. ASSUME Zerg PROVE b \in DueItems
  <2>1. Hall \in Things /\ Hall \in Unbounded
    BY <1>2, LedgerAssumption DEF Unbounded
  <2>. QED  BY <2>1, BuildDue, PrioNat
<1>3. Expands(list, i, attacked) = AddIf(list, cond, e)
  BY DEF Expands
<1>4. LarvaStarved => Zerg
  BY DEF LarvaStarved
<1>5. (wanted => e = x) /\ (e = x \/ e = b)
  OBVIOUS
<1>6. cond => e \in DueItems
  <2>. HIDE DEF e, x, b, wanted
  <2>. QED  BY <1>1, <1>2, <1>4, <1>5
<1>. HIDE DEF cond, e
<1>. QED  BY <1>3, <1>6, AddedIf

LEMMA ChainAdded ==
    ASSUME PInv, NEW list \in Lists(DueItems), NEW i
    PROVE  Chain(list, i) \in Lists(DueItems)
<1>. DEFINE techs == IF (~Short \/ GasFloat) /\ OpeningDone(i) THEN Goal.techs ELSE {}
            wants == {t \in DOMAIN Goal.units : Goal.units[t] > 0} \cup
                     {t \in DOMAIN Goal.buildings : Goal.buildings[t] > 0} \cup
                     {t \in DOMAIN Goal.addons : Goal.addons[t] > 0} \cup techs
            R == UNION {Data[t].req \cup {Data[t].from} : t \in wants} \ {Worker}
            M == {t \in Missing(R) :
                     t \notin Later(i) /\ (t = Hall => own[Hall] = 0) /\ ReqsDone(t)
                       /\ (Data[t].kind = "addon" => ParentFree(t))}
            count(t) == IF t \in DOMAIN Goal.addons THEN Max({1, Goal.addons[t]}) ELSE 1
            P == {u \in M : Data[u].kind = "addon"}
            Q == {u \in M : Data[u].kind \in {"building", "morph"}}
            f == [t \in P |-> Entry("addon", t, Prio.chain, count(t), TRUE)]
            g == [t \in Q |-> Entry("build", t, Prio.chain, 1, FALSE)]
<1>1. Chain(list, i) = AddAll(list, {f[t] : t \in P} \cup {g[t] : t \in Q})
  <2>1. {f[t] : t \in P} = {Entry("addon", t, Prio.chain, count(t), TRUE) : t \in P}
    <3>. HIDE DEF P, count
    <3>. QED  OBVIOUS
  <2>2. {g[t] : t \in Q} = {Entry("build", t, Prio.chain, 1, FALSE) : t \in Q}
    <3>. HIDE DEF Q
    <3>. QED  OBVIOUS
  <2>. HIDE DEF f, g
  <2>. QED  BY <2>1, <2>2 DEF Chain
<1>. HIDE DEF R
<1>2. \A t \in M : t \in Missing(R) /\ t \in Things
  BY MissingLacks
<1>. HIDE DEF M
<1>3. P \in SUBSET Things /\ Q \in SUBSET Things
  BY <1>2
<1>4. \A t \in P : f[t] \in DueItems
  <2>1. SUFFICES ASSUME NEW t \in P PROVE Entry("addon", t, Prio.chain, count(t), TRUE) \in DueItems
    OBVIOUS
  <2>2. t \in Things /\ Data[t].kind = "addon"
    BY <1>2
  <2>3. /\ AskedFor(t) \in Nat /\ 1 <= AskedFor(t) /\ Wanted(t) \in Nat /\ AskedFor(t) <= Wanted(t)
        /\ t \in DOMAIN Goal.addons => Goal.addons[t] <= AskedFor(t)
    BY <2>2, AskedForIsMost, WantedIsMost
  <2>4. count(t) \in Nat /\ count(t) <= Wanted(t)
    <3>1. CASE t \in DOMAIN Goal.addons
      <4>1. Goal.addons[t] \in Nat /\ 1 \in Int /\ Goal.addons[t] \in Int
        BY <3>1, PlannerAssumption
      <4>2. Max({1, Goal.addons[t]}) \in {1, Goal.addons[t]}
        BY <4>1, MinOfTwo
      <4>. QED  BY <2>3, <3>1, <4>1, <4>2
    <3>2. CASE t \notin DOMAIN Goal.addons
      BY <2>3, <3>2
    <3>. QED  BY <3>1, <3>2
  <2>. HIDE DEF count
  <2>. QED  BY <2>2, <2>4, AddonDue, PrioNat
<1>5. \A t \in Q : g[t] \in DueItems
  BY <1>2, MissingDue, PrioNat
<1>. HIDE DEF P, Q, f, g
<1>6. {f[t] : t \in P} \in SUBSET DueItems /\ IsFiniteSet({f[t] : t \in P})
  BY <1>3, <1>4, ForEach
<1>7. {g[t] : t \in Q} \in SUBSET DueItems /\ IsFiniteSet({g[t] : t \in Q})
  BY <1>3, <1>5, ForEach
<1>. DEFINE E == {f[t] : t \in P} \cup {g[t] : t \in Q}
<1>8. E \in SUBSET DueItems /\ IsFiniteSet(E)
  BY <1>6, <1>7, FS_Union
<1>. HIDE DEF E
<1>9. Chain(list, i) = AddAll(list, E)
  BY <1>1 DEF E
<1>. QED  BY <1>8, <1>9, AddedAll

-----------------------------------------------------------------------------
(* The army                                                                *)

Lefts == [m : Int, g : Int, s : Int, n : [Things -> Nat]]

LEMMA LessLeft ==
    ASSUME NEW left \in Lefts, NEW p, NEW urgent
    PROVE  PickOne(left, p, urgent) \in Lefts
<1>1. PickOf(left, p, urgent) \in SUBSET Things
  BY PlannerAssumption DEF PickOf, Kinds
<1>2. ASSUME NEW t \in Things PROVE Less(left, t) \in Lefts
  <2>1. /\ left.m \in Int /\ left.g \in Int /\ left.s \in Int /\ left.n \in [Things -> Nat]
        /\ Data[t].m \in Nat /\ Data[t].g \in Nat /\ Data[t].s \in Nat
    BY LedgerAssumption DEF Lefts
  <2>2. More(left.n, t, 1) \in [Things -> Nat]
    BY <2>1 DEF More
  <2>. QED  BY <2>1, <2>2 DEF Less, Lefts
<1>3. CASE PickOf(left, p, urgent) = {}
  BY <1>3 DEF PickOne
<1>4. CASE PickOf(left, p, urgent) # {}
  <2>. DEFINE t == CHOOSE u \in PickOf(left, p, urgent) : TRUE
  <2>1. t \in Things
    BY <1>1, <1>4
  <2>2. PickOne(left, p, urgent) = Less(left, t)
    BY <1>4 DEF PickOne
  <2>. HIDE DEF t
  <2>. QED  BY <1>2, <2>1, <2>2
<1>. QED  BY <1>3, <1>4

LEMMA SlotsLeft ==
    ASSUME NEW left \in Lefts, NEW p, NEW n \in Int, NEW urgent
    PROVE  Slots(left, p, n, urgent) \in Lefts
<1>1. CASE n <= 0
  BY <1>1 DEF Slots
<1>2. CASE ~(n <= 0)
  <2>. DEFINE IsAfter(f) == f = [k \in 0..n |-> IF k = 0 THEN left ELSE PickOne(f[k - 1], p, urgent)]
              after == CHOOSE f : IsAfter(f)
              next == [k \in 1..n |-> [l \in Lefts |-> PickOne(l, p, urgent)]]
  <2>1. Slots(left, p, n, urgent) = after[n]
    BY <1>2 DEF Slots
  <2>2. n \in Nat
    BY <1>2
  <2>3. /\ next \in [1..n -> [Lefts -> Lefts]]
        /\ \A k \in 1..n : \A l \in Lefts : next[k][l] = PickOne(l, p, urgent)
    <3>1. [l \in Lefts |-> PickOne(l, p, urgent)] \in [Lefts -> Lefts]
      BY LessLeft
    <3>. QED  BY <3>1
  <2>4. PICK f : Walk(f, n, Lefts, left, next)
    <3>. HIDE DEF next
    <3>. QED  BY <2>2, <2>3, Recursion
  <2>5. IsAfter(f)
    <3>1. \A k \in 1..n : f[k] = PickOne(f[k - 1], p, urgent)
      <4>. HIDE DEF next
      <4>1. \A k \in 1..n : f[k - 1] \in Lefts
        BY <2>2, <2>4 DEF Walk
      <4>. QED  BY <2>3, <2>4, <4>1 DEF Walk
    <3>. QED  BY <2>2, <2>4, <3>1 DEF Walk
  <2>6. IsAfter(after)
    <3>. HIDE DEF IsAfter
    <3>. QED  BY <2>5
  <2>. HIDE DEF after
  <2>7. after[0] = left /\ \A k \in 1..n : after[k] = PickOne(after[k - 1], p, urgent)
    BY <2>2, <2>6
  <2>8. \A k \in 0..n : after[k] \in Lefts
    <3>1. after[0] \in Lefts /\ \A k \in 1..n : after[k - 1] \in Lefts => after[k] \in Lefts
      BY <2>7, LessLeft
    <3>. QED  BY <2>2, <3>1, Within
  <2>. QED  BY <2>1, <2>2, <2>8
<1>. QED  BY <1>1, <1>2

LEMMA ArmyLeftType ==
    ASSUME PInv, NEW list \in Lists(DueItems), NEW urgent
    PROVE  ArmyLeft(list, urgent) \in Lefts
<1>. DEFINE F == {Data[t].from : t \in DOMAIN Goal.units}
            ps == SetToSeq(F)
            n == Len(ps)
            first == [m |-> minerals - SetAside(list, "m") - reserved.m,
                      g |-> gas - SetAside(list, "g") - reserved.g, s |-> Total - Used, n |-> Nothing]
            slots(k) == own[ps[k]] - HeldFor(list, ps[k])
            IsAfter(f) == f = [k \in 0..n |-> IF k = 0 THEN first ELSE Slots(f[k - 1], ps[k], slots(k), urgent)]
            after == CHOOSE f : IsAfter(f)
            next == [k \in 1..n |-> [l \in Lefts |-> Slots(l, ps[k], slots(k), urgent)]]
<1>1. ArmyLeft(list, urgent) = after[n]
  BY DEF ArmyLeft
<1>2. n \in Nat /\ \A k \in 1..n : ps[k] \in Things
  <2>1. DOMAIN Goal.units \in SUBSET Things
    BY PlannerAssumption DEF Kinds
  <2>2. IsFiniteSet(DOMAIN Goal.units)
    BY <2>1, LedgerAssumption, FS_Subset
  <2>. DEFINE h == [t \in DOMAIN Goal.units |-> Data[t].from]
  <2>3. IsFiniteSet({h[t] : t \in DOMAIN Goal.units})
    <3>. HIDE DEF h
    <3>. QED  BY <2>2, Images
  <2>4. {h[t] : t \in DOMAIN Goal.units} = F
    OBVIOUS
  <2>5. F \in SUBSET Things
    BY <2>1, LedgerAssumption
  <2>. HIDE DEF F
  <2>6. ps \in Seq(F)
    BY <2>3, <2>4, ListOf
  <2>. HIDE DEF ps
  <2>. QED  BY <2>5, <2>6, LenProperties
<1>. HIDE DEF F, ps, n
<1>3. first \in Lefts
  <2>1. SetAside(list, "m") \in Int /\ SetAside(list, "g") \in Int
    BY ListsAreLists, SetAsideType
  <2>2. /\ minerals \in Int /\ gas \in Int /\ reserved.m \in Int /\ reserved.g \in Int
        /\ Used \in Int /\ Total \in Int
    BY PlanNumbers
  <2>3. /\ minerals - SetAside(list, "m") - reserved.m \in Int
        /\ gas - SetAside(list, "g") - reserved.g \in Int /\ Total - Used \in Int
    BY ONLY <2>1, <2>2
  <2>. QED  BY <2>3, NothingType DEF Lefts
<1>. HIDE DEF first
<1>4. \A k \in 1..n : slots(k) \in Int
  <2>1. SUFFICES ASSUME NEW k \in 1..n PROVE slots(k) \in Int
    OBVIOUS
  <2>2. own[ps[k]] \in Int
    BY <1>2, HaveType
  <2>3. HeldFor(list, ps[k]) \in Nat
    BY ListsAreLists, HeldForType
  <2>. QED  BY <2>2, <2>3
<1>. HIDE DEF slots
<1>5. \A k \in 1..n : \A l \in Lefts : Slots(l, ps[k], slots(k), urgent) \in Lefts
  BY <1>4, SlotsLeft
<1>6. /\ next \in [1..n -> [Lefts -> Lefts]]
      /\ \A k \in 1..n : \A l \in Lefts : next[k][l] = Slots(l, ps[k], slots(k), urgent)
  <2>1. \A k \in 1..n : [l \in Lefts |-> Slots(l, ps[k], slots(k), urgent)] \in [Lefts -> Lefts]
    BY <1>5
  <2>. QED  BY <2>1
<1>7. PICK f : Walk(f, n, Lefts, first, next)
  <2>. HIDE DEF next
  <2>. QED  BY <1>2, <1>3, <1>6, Recursion
<1>8. IsAfter(f)
  <2>1. \A k \in 1..n : f[k] = Slots(f[k - 1], ps[k], slots(k), urgent)
    <3>. HIDE DEF next
    <3>1. \A k \in 1..n : f[k - 1] \in Lefts
      BY <1>2, <1>7 DEF Walk
    <3>. QED  BY <1>6, <1>7, <3>1 DEF Walk
  <2>. QED  BY <1>2, <1>7, <2>1 DEF Walk
<1>9. IsAfter(after)
  <2>. HIDE DEF IsAfter
  <2>. QED  BY <1>8
<1>. HIDE DEF after
<1>10. after[0] = first /\ \A k \in 1..n : after[k] = Slots(after[k - 1], ps[k], slots(k), urgent)
  BY <1>2, <1>9
<1>11. \A k \in 0..n : after[k] \in Lefts
  <2>1. after[0] \in Lefts /\ \A k \in 1..n : after[k - 1] \in Lefts => after[k] \in Lefts
    BY <1>3, <1>5, <1>10
  <2>. QED  BY <1>2, <2>1, Within
<1>. QED  BY <1>1, <1>2, <1>11

\* Of some things there is one for which a number is greatest, and one for which it
\* is least.
LEMMA Extremes ==
    ASSUME NEW S \in SUBSET Things, S # {}, NEW f, \A t \in S : f[t] \in Int
    PROVE  /\ \E t \in S : \A o \in S : f[o] <= f[t]
           /\ \E t \in S : \A o \in S : f[t] <= f[o]
<1>. DEFINE N == {f[t] : t \in S}
<1>1. N \in SUBSET Int /\ N # {}
  OBVIOUS
<1>2. IsFiniteSet(N)
  <2>1. IsFiniteSet(S)
    BY LedgerAssumption, FS_Subset
  <2>. QED  BY <2>1, Images
<1>3. (\A t \in S : f[t] \in N) /\ \A y \in N : \E t \in S : y = f[t]
  OBVIOUS
<1>. HIDE DEF N
<1>4. Max(N) \in N /\ (\A y \in N : y <= Max(N)) /\ Min(N) \in N /\ \A y \in N : Min(N) <= y
  BY <1>1, <1>2, MaxIsGreatest, MinIsLeast
<1>5. PICK t \in S : Max(N) = f[t]
  BY <1>3, <1>4
<1>6. PICK u \in S : Min(N) = f[u]
  BY <1>3, <1>4
<1>7. (\A o \in S : f[o] <= f[t]) /\ \A o \in S : f[u] <= f[o]
  BY <1>3, <1>4, <1>5, <1>6
<1>. QED  BY <1>7

LEMMA MainProducerType ==
    ASSUME DOMAIN Goal.units # {}
    PROVE  MainProducer \in Things /\ IsBuilding(MainProducer)
<1>. DEFINE D == DOMAIN Goal.units
            f == [t \in D |-> Goal.units[t] * Data[t].s]
            t == CHOOSE u \in D : \A o \in D : f[o] <= f[u]
<1>1. D \in SUBSET Things /\ \A u \in D : Goal.units[u] \in Nat /\ Data[u].s \in Nat
  BY PlannerAssumption, LedgerAssumption DEF Kinds
<1>2. \A a, b \in Nat : a * b \in Int
  OBVIOUS
<1>3. \A u \in D : f[u] \in Int
  BY <1>1, <1>2
<1>4. \E u \in D : \A o \in D : f[o] <= f[u]
  <2>. HIDE DEF D, f
  <2>. QED  BY <1>1, <1>3, Extremes DEF D
<1>5. t \in Things
  <2>. HIDE DEF D, f
  <2>. QED  BY <1>1, <1>4
<1>6. t = CHOOSE u \in D : \A o \in D : Goal.units[o] * Data[o].s <= Goal.units[u] * Data[u].s
  OBVIOUS
<1>. HIDE DEF t
<1>7. MainProducer = IF IsBuilding(Data[t].from) THEN Data[t].from ELSE Hall
  BY <1>6 DEF MainProducer
<1>8. Data[t].from \in Things /\ Hall \in Things /\ IsBuilding(Hall)
  BY <1>5, LedgerAssumption, PlannerAssumption DEF IsBuilding
<1>. QED  BY <1>7, <1>8

\* A float may build one more producer only while there are not so many of them as the
\* halls can bear, and of halls there are no more than asked for and at the sites.
LEMMA FloatAdded ==
    ASSUME PInv, NEW list \in Lists(DueItems), NEW left, NEW urgent
    PROVE  FloatProducer(list, left, urgent) \in Lists(DueItems)
<1>. DEFINE p == MainProducer
            most == Max({1, own[Hall]})
            cond == /\ \E t \in DOMAIN Goal.units : Goal.units[t] > 0 /\ ReqsDone(t)
                    /\ Data[p].kind # "addon"
                    /\ left.m >= (IF urgent THEN FloatShort ELSE FloatMinerals)
                    /\ Have(p) = own[p]
                    /\ Have(p) < PerHall * most
            e == Entry("build", p, Prio.building, 1, FALSE)
<1>1. FloatProducer(list, left, urgent) = AddIf(list, cond, e)
  BY DEF FloatProducer
<1>2. ASSUME cond PROVE e \in DueItems
  <2>1. p \in Things /\ IsBuilding(p) /\ Data[p].kind # "addon" /\ Have(p) < PerHall * most
    BY <1>2, MainProducerType
  <2>2. Data[p].kind \in {"building", "morph"}
    BY <2>1 DEF IsBuilding
  <2>3. ASSUME p \notin Unbounded PROVE own[p] + making[p] < Wanted(p)
    <3>1. Hall \in Things \ Unbounded /\ p # Hall /\ IsBuilding(Hall)
      BY <2>3, PlannerAssumption, LedgerAssumption DEF Unbounded, IsBuilding
    <3>2. own[Hall] + making[Hall] + walking[Hall] - AtBases + issued[Hall] <= Wanted(Hall)
      <4>1. Besides(Hall) + issued[Hall] <= Wanted(Hall)
        BY <3>1 DEF PInv, NoneTwice
      <4>. QED  BY <3>1, <4>1, BesidesType
    <3>3. /\ own[Hall] \in Int /\ making[Hall] \in Nat /\ walking[Hall] \in Nat /\ issued[Hall] \in Nat
      BY <3>1, HaveType
    <3>4. Wanted(Hall) = AskedFor(Hall)
      BY <3>1 DEF Wanted
    <3>. DEFINE halls == AskedFor(Hall) + Sites
    <3>5. AskedFor(Hall) \in Nat /\ 1 <= AskedFor(Hall) /\ AtBases \in Nat /\ AtBases <= Sites /\ Sites \in Nat
      BY <3>1, AskedForIsMost, BesidesType, LedgerAssumption
    <3>6. most \in {1, own[Hall]}
      <4>1. 1 \in Int /\ own[Hall] \in Int
        BY <3>3
      <4>. QED  BY <4>1, MinOfTwo
    <3>. HIDE DEF most, p
    <3>7. own[Hall] <= halls /\ halls \in Nat /\ 1 <= halls
      BY <3>2, <3>3, <3>4, <3>5
    <3>. HIDE DEF halls
    <3>8. most \in Int /\ most <= halls
      BY <3>3, <3>6, <3>7
    <3>9. PerHall * most \in Int /\ PerHall * most <= PerHall * halls /\ PerHall * halls \in Int
      <4>1. \A a \in Nat : \A b, c \in Int : b <= c => a * b \in Int /\ a * c \in Int /\ a * b <= a * c
        OBVIOUS
      <4>2. PerHall \in Nat /\ halls \in Int
        BY <3>7, PlannerAssumption
      <4>. QED  BY <3>8, <4>1, <4>2
    <3>10. PerHall * halls <= Wanted(p) /\ Wanted(p) \in Nat
      BY <2>1, WantedIsMost DEF p, halls
    <3>11. Have(p) \in Int /\ own[p] + making[p] <= Have(p) /\ own[p] \in Int /\ making[p] \in Nat
      BY <2>1, HaveType
    <3>. QED  BY <2>1, <3>9, <3>10, <3>11
  <2>. HIDE DEF p
  <2>. QED  BY <2>1, <2>2, <2>3, BuildDue, PrioNat
<1>. HIDE DEF cond, e
<1>. QED  BY <1>1, <1>2, AddedIf

Fills == [list : Lists(DueItems), m : Int, s : Int, n : [Things -> Nat]]

LEMMA FillFromType ==
    ASSUME PInv, NEW acc \in Fills, NEW p \in Things, Fillers(p) # {}, NEW prio \in Nat, NEW keep
    PROVE  FillFrom(acc, p, prio, keep) \in Fills
<1>. DEFINE F == Fillers(p)
            t == Cheapest(F)
            mine == SumFunctionOnSet(acc.n, From(p))
            idle == own[p] - HeldFor(acc.list, p) - mine
            most == IF p = Larva THEN Min({idle, Max({1, acc.m \div PerLarva})}) ELSE idle
            I == {i \in 0..most : acc.m - i * Data[t].m >= keep /\ i * Data[t].s <= acc.s}
            n == Max({0} \cup I)
            e == Entry("train", t, prio, n, TRUE)
<1>1. acc.list \in Lists(DueItems) /\ acc.m \in Int /\ acc.s \in Int /\ acc.n \in [Things -> Nat]
  BY DEF Fills
<1>2. t \in Things /\ ~IsBuilding(t) /\ Data[t].m \in Nat /\ Data[t].s \in Nat
  <2>1. F \in SUBSET Things /\ \A u \in F : Data[u].kind = "unit"
    BY PlannerAssumption DEF Fillers
  <2>. DEFINE f == [u \in F |-> Data[u].m]
  <2>2. \A u \in F : f[u] \in Int
    BY <2>1, LedgerAssumption
  <2>3. \E u \in F : \A o \in F : f[u] <= f[o]
    <3>. HIDE DEF f
    <3>. QED  BY <2>1, <2>2, Extremes
  <2>4. \E u \in F : \A o \in F : Data[u].m <= Data[o].m
    <3>. HIDE DEF F
    <3>. QED  BY <2>3
  <2>5. t \in F
    <3>. HIDE DEF F
    <3>. QED  BY <2>4 DEF Cheapest
  <2>. HIDE DEF t, F
  <2>. QED  BY <2>1, <2>5, LedgerAssumption DEF IsBuilding
<1>3. most \in Int
  <2>1. own[p] \in Int
    BY HaveType
  <2>2. HeldFor(acc.list, p) \in Nat
    BY <1>1, ListsAreLists, HeldForType
  <2>3. mine \in Int
    <3>1. From(p) \in SUBSET Things /\ IsFiniteSet(Things) /\ \A u \in Things : acc.n[u] \in Int
      BY <1>1, LedgerAssumption DEF From
    <3>. QED  BY <3>1, SumInt
  <2>. HIDE DEF mine
  <2>4. idle \in Int
    BY <2>1, <2>2, <2>3
  <2>. HIDE DEF idle
  <2>5. acc.m \div PerLarva \in Int
    BY <1>1, PlannerAssumption
  <2>6. Max({1, acc.m \div PerLarva}) \in Int
    <3>. DEFINE q == acc.m \div PerLarva
    <3>1. 1 \in Int /\ q \in Int
      BY <2>5
    <3>. HIDE DEF q
    <3>2. Max({1, q}) \in Int
      BY <3>1, MinOfTwo
    <3>. QED  BY <3>2 DEF q
  <2>7. Min({idle, Max({1, acc.m \div PerLarva})}) \in Int
    BY <2>4, <2>6, MinOfTwo
  <2>. QED  BY <2>4, <2>7
<1>. HIDE DEF most, t
<1>4. n \in Int
  <2>1. I \in SUBSET (0..most) /\ 0..most \in SUBSET Int
    BY <1>3
  <2>2. IsFiniteSet(0..most)
    BY <1>3, FS_Interval
  <2>. HIDE DEF I
  <2>3. IsFiniteSet(I)
    BY <2>1, <2>2, FS_Subset
  <2>. DEFINE S == {0} \cup I
  <2>4. IsFiniteSet(S)
    BY <2>3, FS_Singleton, FS_Union
  <2>5. S \in SUBSET Int /\ S # {}
    BY <2>1
  <2>. HIDE DEF S
  <2>6. Max(S) \in Int
    BY <2>4, <2>5, MaxIsGreatest
  <2>. QED  BY <2>6 DEF S
<1>5. FillFrom(acc, p, prio, keep) =
          IF n = 0 THEN acc
          ELSE [list |-> Add(acc.list, e), m |-> acc.m - n * Data[t].m, s |-> acc.s - n * Data[t].s, n |-> acc.n]
  BY DEF FillFrom, t, most
<1>. HIDE DEF n
<1>6. e \in DueItems
  <2>1. TRUE \in BOOLEAN /\ "train" \in {"train", "upgrade"}
    OBVIOUS
  <2>. QED  BY <1>2, <1>4, <2>1, TrainDue
<1>. HIDE DEF e
<1>7. Add(acc.list, e) \in Lists(DueItems)
  BY <1>1, <1>6, Added
<1>8. acc.m - n * Data[t].m \in Int /\ acc.s - n * Data[t].s \in Int
  <2>1. \A a, b, c \in Int : a - b * c \in Int
    OBVIOUS
  <2>. QED  BY <1>1, <1>2, <1>4, <2>1
<1>. QED  BY <1>1, <1>5, <1>7, <1>8 DEF Fills

LEMMA FillAdded ==
    ASSUME PInv, NEW list \in Lists(DueItems), NEW left \in Lefts, NEW prio \in Nat, NEW start, NEW keep
    PROVE  Fill(list, left, prio, start, keep) \in Lists(DueItems)
<1>. DEFINE F == {p \in Things : Fillers(p) # {}}
            ps == SetToSeq(F)
            n == Len(ps)
            first == [list |-> list, m |-> left.m, s |-> left.s, n |-> left.n]
            IsAfter(f) == f = [k \in 0..n |-> IF k = 0 THEN first ELSE FillFrom(f[k - 1], ps[k], prio, keep)]
            after == CHOOSE f : IsAfter(f)
            next == [k \in 1..n |-> [l \in Fills |-> FillFrom(l, ps[k], prio, keep)]]
<1>1. Fill(list, left, prio, start, keep) = IF left.m < start THEN list ELSE after[n].list
  BY DEF Fill
<1>2. n \in Nat /\ \A k \in 1..n : ps[k] \in Things /\ Fillers(ps[k]) # {}
  <2>1. F \in SUBSET Things /\ \A p \in F : Fillers(p) # {}
    OBVIOUS
  <2>. HIDE DEF F
  <2>2. IsFiniteSet(F)
    BY <2>1, LedgerAssumption, FS_Subset
  <2>3. ps \in Seq(F)
    BY <2>2, ListOf
  <2>. HIDE DEF ps
  <2>. QED  BY <2>1, <2>3, LenProperties
<1>. HIDE DEF F, ps, n
<1>3. first \in Fills
  BY DEF Fills, Lefts
<1>. HIDE DEF first
<1>5. \A k \in 1..n : \A l \in Fills : FillFrom(l, ps[k], prio, keep) \in Fills
  BY <1>2, FillFromType
<1>6. /\ next \in [1..n -> [Fills -> Fills]]
      /\ \A k \in 1..n : \A l \in Fills : next[k][l] = FillFrom(l, ps[k], prio, keep)
  <2>1. \A k \in 1..n : [l \in Fills |-> FillFrom(l, ps[k], prio, keep)] \in [Fills -> Fills]
    BY <1>5
  <2>. QED  BY <2>1
<1>7. PICK f : Walk(f, n, Fills, first, next)
  <2>. HIDE DEF next
  <2>. QED  BY <1>2, <1>3, <1>6, Recursion
<1>8. IsAfter(f)
  <2>1. \A k \in 1..n : f[k] = FillFrom(f[k - 1], ps[k], prio, keep)
    <3>. HIDE DEF next
    <3>1. \A k \in 1..n : f[k - 1] \in Fills
      BY <1>2, <1>7 DEF Walk
    <3>. QED  BY <1>6, <1>7, <3>1 DEF Walk
  <2>. QED  BY <1>2, <1>7, <2>1 DEF Walk
<1>9. IsAfter(after)
  <2>. HIDE DEF IsAfter
  <2>. QED  BY <1>8
<1>. HIDE DEF after
<1>10. after[0] = first /\ \A k \in 1..n : after[k] = FillFrom(after[k - 1], ps[k], prio, keep)
  BY <1>2, <1>9
<1>11. \A k \in 0..n : after[k] \in Fills
  <2>1. after[0] \in Fills /\ \A k \in 1..n : after[k - 1] \in Fills => after[k] \in Fills
    BY <1>3, <1>5, <1>10
  <2>. QED  BY <1>2, <2>1, Within
<1>12. after[n].list \in Lists(DueItems)
  <2>1. after[n] \in Fills
    BY <1>2, <1>11
  <2>. QED  BY <2>1 DEF Fills
<1>. QED  BY <1>1, <1>12

LEMMA ArmyAdded ==
    ASSUME PInv, NEW list \in Lists(DueItems), NEW prio \in Nat, NEW start, NEW keep
    PROVE  ArmyAndFiller(list, prio, start, keep) \in Lists(DueItems)
<1>. DEFINE urgent == prio # Prio.army
            left == ArmyLeft(list, urgent)
            float == FloatProducer(list, left, urgent)
            P == {u \in DOMAIN Goal.units : left.n[u] > 0}
            f == [t \in P |-> Entry("train", t, prio, left.n[t], TRUE)]
            army == AddAll(float, {f[t] : t \in P})
            fprio == IF urgent THEN prio ELSE Prio.filler
<1>1. left \in Lefts /\ float \in Lists(DueItems)
  BY ArmyLeftType, FloatAdded
<1>2. ArmyAndFiller(list, prio, start, keep) = Fill(army, left, fprio, start, keep)
  <2>1. {f[t] : t \in P} = {Entry("train", t, prio, left.n[t], TRUE) : t \in P}
    <3>. HIDE DEF P
    <3>. QED  OBVIOUS
  <2>. HIDE DEF f
  <2>. QED  BY <2>1 DEF ArmyAndFiller, Recruits
<1>. HIDE DEF left, float
<1>3. P \in SUBSET Things
  BY PlannerAssumption DEF Kinds
<1>4. \A t \in P : f[t] \in DueItems
  <2>1. SUFFICES ASSUME NEW t \in P PROVE Entry("train", t, prio, left.n[t], TRUE) \in DueItems
    OBVIOUS
  <2>2. t \in Things /\ ~IsBuilding(t)
    BY PlannerAssumption DEF Kinds, IsBuilding
  <2>3. left.n[t] \in Int
    BY <1>1, <2>2 DEF Lefts
  <2>4. TRUE \in BOOLEAN /\ "train" \in {"train", "upgrade"}
    OBVIOUS
  <2>. QED  BY <2>2, <2>3, <2>4, TrainDue
<1>. HIDE DEF P, f
<1>5. {f[t] : t \in P} \in SUBSET DueItems /\ IsFiniteSet({f[t] : t \in P})
  BY <1>3, <1>4, ForEach
<1>6. army \in Lists(DueItems)
  BY <1>1, <1>5, AddedAll
<1>7. fprio \in Nat
  BY PrioNat
<1>. HIDE DEF army, fprio
<1>. QED  BY <1>1, <1>2, <1>6, <1>7, FillAdded

\* Whatever stage of the planner adds it, nothing is listed twice and everything is due.
LEMMA TickLists ==
    ASSUME PInv, NEW i, i = StepNow, NEW attacked, NEW known
    PROVE  Tick(i, attacked, known) \in Lists(DueItems)
<1>. DEFINE L == Lists(DueItems)
            first == WorkersWanted(Opens(Asked(AddIf(<<>>, NeedSupply, Supply)), i))
            pressed == ArmyFirst(AddonsFirst(first, i), known)
            goal == Aims(pressed, i, attacked)
<1>1. first \in L
  <2>1. Asked(AddIf(<<>>, NeedSupply, Supply)) \in L
    BY SupplyAdded, AskedAdded
  <2>2. Opens(Asked(AddIf(<<>>, NeedSupply, Supply)), i) \in L
    BY <2>1, OpensAdded
  <2>. QED  BY <2>2, WorkersAdded
<1>. HIDE DEF first
<1>2. AddonsFirst(first, i) \in L
  BY <1>1, AddonsAdded DEF AddonsFirst
<1>3. pressed \in L
  <2>1. Pressing(known) \in Nat
    BY PrioNat DEF Pressing
  <2>2. ArmyAndFiller(AddonsFirst(first, i), Pressing(known), 0, 0) \in L
    BY <1>2, <2>1, ArmyAdded
  <2>. QED  BY <1>2, <2>2 DEF ArmyFirst
<1>. HIDE DEF pressed
<1>4. goal \in L
  <2>1. Chain(pressed, i) \in L
    BY <1>3, ChainAdded
  <2>2. Expands(Chain(pressed, i), i, attacked) \in L
    BY <2>1, ExpandsAdded
  <2>3. Buildings(Expands(Chain(pressed, i), i, attacked), i) \in L
    BY <2>2, BuildingsAdded
  <2>4. Techs(Buildings(Expands(Chain(pressed, i), i, attacked), i)) \in L
    BY <2>3, TechsAdded
  <2>5. GasSink(Techs(Buildings(Expands(Chain(pressed, i), i, attacked), i))) \in L
    BY <2>4, SinkAdded
  <2>. QED  BY <1>3, <2>5 DEF Aims
<1>5. Tick(i, attacked, known) = ArmyAndFiller(goal, Prio.army, FloatTrain, FloatKeep)
  BY DEF Tick, first, pressed
<1>. HIDE DEF goal
<1>. QED  BY <1>4, <1>5, PrioNat, ArmyAdded

-----------------------------------------------------------------------------
(* The plan is the list, sorted                                            *)

LEMMA Inserted ==
    ASSUME NEW S, NEW list \in Seq(S), NEW e \in S
    PROVE  \E b \in 0..Len(list) :
               /\ Insert(list, e) \in Seq(S) /\ DOMAIN Insert(list, e) = 1..Len(list) + 1 /\ Len(list) \in Nat
               /\ \A i \in 1..b : Insert(list, e)[i] = list[i] /\ i \in DOMAIN list
               /\ Insert(list, e)[b + 1] = e
               /\ \A i \in b + 2..Len(list) + 1 : Insert(list, e)[i] = list[i - 1] /\ i - 1 \in DOMAIN list
<1>. DEFINE B == {k \in DOMAIN list : list[k].prio >= e.prio}
            b == Behind(list, e)
            n == Len(list)
            new == [i \in 1..n + 1 |-> IF i <= b THEN list[i] ELSE IF i = b + 1 THEN e ELSE list[i - 1]]
<1>1. n \in Nat /\ DOMAIN list = 1..n /\ \A i \in 1..n : list[i] \in S
  BY LenProperties
<1>2. b \in 0..n
  <2>1. B \in SUBSET (1..n)
    BY <1>1
  <2>. HIDE DEF B, n
  <2>2. IsFiniteSet(1..n) /\ Cardinality(1..n) = n
    BY <1>1, FS_Interval
  <2>3. IsFiniteSet(B) /\ Cardinality(B) <= n
    BY <2>1, <2>2, FS_Subset
  <2>4. Cardinality(B) \in Nat
    BY <2>3, FS_CardinalityType
  <2>5. b = Cardinality(B)
    BY DEF Behind, B
  <2>. HIDE DEF b
  <2>. QED  BY <1>1, <2>3, <2>4, <2>5
<1>3. Insert(list, e) = new
  BY DEF Insert
<1>. HIDE DEF b, n
<1>4. \A i \in 1..n + 1 : new[i] \in S
  BY <1>1, <1>2
<1>5. new \in [1..n + 1 -> S]
  BY <1>4
<1>6. new \in Seq(S) /\ DOMAIN new = 1..n + 1
  BY <1>1, <1>5, SeqDef
<1>7. /\ \A i \in 1..b : new[i] = list[i] /\ i \in DOMAIN list
      /\ new[b + 1] = e
      /\ \A i \in b + 2..n + 1 : new[i] = list[i - 1] /\ i - 1 \in DOMAIN list
  BY <1>1, <1>2
<1>. HIDE DEF new
<1>. QED  BY <1>1, <1>2, <1>3, <1>6, <1>7 DEF n

\* What is nowhere on a list is on it once when it is inserted.
LEMMA InsertedApart ==
    ASSUME NEW S, NEW list \in Seq(S), NEW e \in S, Apart(list),
           \A i \in DOMAIN list : ~(list[i].kind = e.kind /\ list[i].t = e.t)
    PROVE  /\ Insert(list, e) \in Seq(S) /\ Apart(Insert(list, e))
           /\ \A i \in DOMAIN Insert(list, e) :
                  Insert(list, e)[i] = e \/ \E j \in DOMAIN list : Insert(list, e)[i] = list[j]
<1>. DEFINE new == Insert(list, e)
            n == Len(list)
<1>1. PICK b \in 0..n :
          /\ new \in Seq(S) /\ DOMAIN new = 1..n + 1 /\ n \in Nat
          /\ \A i \in 1..b : new[i] = list[i] /\ i \in DOMAIN list
          /\ new[b + 1] = e
          /\ \A i \in b + 2..n + 1 : new[i] = list[i - 1] /\ i - 1 \in DOMAIN list
  BY Inserted
<1>. HIDE DEF new, n
<1>. DEFINE from(i) == IF i <= b THEN i ELSE i - 1
<1>2. \A i \in DOMAIN new : i = b + 1 \/ (new[i] = list[from(i)] /\ from(i) \in DOMAIN list)
  BY <1>1
<1>3. \A i, j \in DOMAIN new : i # b + 1 /\ j # b + 1 /\ from(i) = from(j) => i = j
  BY <1>1
<1>. HIDE DEF from
<1>4. ASSUME NEW i \in DOMAIN new, NEW j \in DOMAIN new, new[i].kind = new[j].kind, new[i].t = new[j].t
      PROVE  i = j
  <2>1. CASE i = b + 1 /\ j = b + 1
    BY <2>1
  <2>2. CASE i = b + 1 /\ j # b + 1
    BY <1>1, <1>2, <1>4, <2>2
  <2>3. CASE i # b + 1 /\ j = b + 1
    BY <1>1, <1>2, <1>4, <2>3
  <2>4. CASE i # b + 1 /\ j # b + 1
    <3>1. from(i) = from(j)
      BY <1>2, <1>4, <2>4 DEF Apart
    <3>. QED  BY <1>3, <2>4, <3>1
  <2>. QED  BY <2>1, <2>2, <2>3, <2>4
<1>5. Apart(new)
  BY <1>4 DEF Apart
<1>6. \A i \in DOMAIN new : new[i] = e \/ \E j \in DOMAIN list : new[i] = list[j]
  BY <1>1, <1>2
<1>. QED  BY <1>1, <1>5, <1>6 DEF new

LEMMA SortedLists ==
    ASSUME NEW S, NEW list \in Lists(S)
    PROVE  Sorted(list) \in Lists(S)
<1>. DEFINE n == Len(list)
            IsAfter(f) == f = [k \in 0..n |-> IF k = 0 THEN <<>> ELSE Insert(f[k - 1], list[k])]
            after == CHOOSE f : IsAfter(f)
            L == Seq(S)
            next == [k \in 1..n |-> [l \in L |-> Insert(l, list[k])]]
<1>1. Sorted(list) = after[n]
  BY DEF Sorted
<1>2. list \in Seq(S) /\ Apart(list) /\ n \in Nat /\ DOMAIN list = 1..n /\ \A k \in 1..n : list[k] \in S
  <2>1. list \in Seq(S) /\ Apart(list)
    BY DEF Lists
  <2>. QED  BY <2>1, LenProperties
<1>. HIDE DEF n
<1>3. \A k \in 1..n : \A l \in L : Insert(l, list[k]) \in L
  BY <1>2, Inserted
<1>4. <<>> \in L
  OBVIOUS
<1>. HIDE DEF L
<1>5. /\ next \in [1..n -> [L -> L]]
      /\ \A k \in 1..n : \A l \in L : next[k][l] = Insert(l, list[k])
  <2>1. \A k \in 1..n : [l \in L |-> Insert(l, list[k])] \in [L -> L]
    BY <1>3
  <2>. QED  BY <2>1
<1>6. PICK f : Walk(f, n, L, <<>>, next)
  <2>. HIDE DEF next
  <2>. QED  BY <1>2, <1>4, <1>5, Recursion
<1>7. IsAfter(f)
  <2>1. \A k \in 1..n : f[k] = Insert(f[k - 1], list[k])
    <3>. HIDE DEF next
    <3>1. \A k \in 1..n : f[k - 1] \in L
      BY <1>2, <1>6 DEF Walk
    <3>. QED  BY <1>5, <1>6, <3>1 DEF Walk
  <2>. QED  BY <1>2, <1>6, <2>1 DEF Walk
<1>8. IsAfter(after)
  <2>. HIDE DEF IsAfter
  <2>. QED  BY <1>7
<1>. HIDE DEF after
<1>9. after[0] = <<>> /\ \A k \in 1..n : after[k] = Insert(after[k - 1], list[k])
  BY <1>2, <1>8
<1>. DEFINE Good(k) == /\ after[k] \in Seq(S) /\ Apart(after[k])
                       /\ \A i \in DOMAIN after[k] : \E j \in 1..k : after[k][i] = list[j]
            G == {k \in 0..n : Good(k)}
<1>10. 0 \in G
  <2>1. Good(0)
    BY <1>9 DEF Apart
  <2>. QED  BY <1>2, <2>1
<1>11. ASSUME NEW k \in 1..n, k - 1 \in G PROVE k \in G
  <2>. DEFINE old == after[k - 1]
              new == Insert(old, list[k])
  <2>1. /\ old \in Seq(S) /\ Apart(old)
        /\ \A i \in DOMAIN old : \E j \in 1..k - 1 : old[i] = list[j]
    BY <1>11
  <2>2. after[k] = new
    BY <1>9
  <2>. HIDE DEF old
  <2>3. \A i \in DOMAIN old : ~(old[i].kind = list[k].kind /\ old[i].t = list[k].t)
    <3>1. SUFFICES ASSUME NEW i \in DOMAIN old, old[i].kind = list[k].kind, old[i].t = list[k].t PROVE FALSE
      OBVIOUS
    <3>2. PICK j \in 1..k - 1 : old[i] = list[j]
      BY <2>1
    <3>3. j \in DOMAIN list /\ k \in DOMAIN list /\ j # k
      BY <1>2
    <3>. QED  BY <1>2, <3>1, <3>2, <3>3 DEF Apart
  <2>4. /\ new \in Seq(S) /\ Apart(new)
        /\ \A i \in DOMAIN new : new[i] = list[k] \/ \E j \in DOMAIN old : new[i] = old[j]
    BY <1>2, <2>1, <2>3, InsertedApart
  <2>. HIDE DEF new
  <2>5. \A i \in DOMAIN new : \E j \in 1..k : new[i] = list[j]
    <3>1. SUFFICES ASSUME NEW i \in DOMAIN new PROVE \E j \in 1..k : new[i] = list[j]
      OBVIOUS
    <3>2. CASE new[i] = list[k]
      BY <3>2
    <3>3. CASE \E j \in DOMAIN old : new[i] = old[j]
      <4>1. PICK j \in DOMAIN old : new[i] = old[j]
        BY <3>3
      <4>2. PICK m \in 1..k - 1 : old[j] = list[m]
        BY <2>1
      <4>3. m \in 1..k
        OBVIOUS
      <4>. QED  BY <4>1, <4>2, <4>3
    <3>. QED  BY <2>4, <3>2, <3>3
  <2>6. Good(k)
    BY <2>2, <2>4, <2>5
  <2>. HIDE DEF Good
  <2>. QED  BY <2>6
<1>12. n \in G
  <2>. HIDE DEF G
  <2>1. \A k \in 1..n : k - 1 \in G => k \in G
    BY <1>11
  <2>2. \A k \in 0..n : k \in G
    BY <1>2, <1>10, <2>1, CountsUp
  <2>. QED  BY <1>2, <2>2
<1>13. after[n] \in Lists(S)
  BY <1>12 DEF Lists
<1>. QED  BY <1>1, <1>13

LEMMA PlanIsDue ==
    ASSUME PInv, NEW i, i = StepNow, NEW attacked, NEW known
    PROVE  PlanOf(i, attacked, known) \in Lists(DueItems)
  BY TickLists, SortedLists DEF PlanOf

-----------------------------------------------------------------------------
(* Nothing is made twice, step by step                                     *)

KeepsPlan == NoneTwice' /\ RestIsDue'

LEMMA StepNowType == ASSUME PInv PROVE StepNow \in 0..Len(Opening)
<1>. DEFINE n == Len(Opening)
            seen(k) == own[Opening[k].t] + making[Opening[k].t] >= Count2(Opening[k].t, k)
            B == {j \in step..n : \A k \in step + 1..j : seen(k)}
            A == {step} \cup B
<1>1. n \in Nat /\ step \in 0..n
  <2>1. Opening \in Seq([at : Nat, t : Things \ Kinds({"addon"})])
    BY PlannerAssumption
  <2>. QED  BY <2>1, LenProperties, PlanNumbers
<1>2. StepNow = Max(A)
  BY DEF StepNow
<1>. HIDE DEF n, seen
<1>3. IsFiniteSet(A)
  <2>1. IsFiniteSet(step..n)
    BY <1>1, FS_Interval
  <2>2. B \in SUBSET (step..n)
    OBVIOUS
  <2>. HIDE DEF B
  <2>3. IsFiniteSet(B)
    BY <2>1, <2>2, FS_Subset
  <2>. QED  BY <2>3, FS_Singleton, FS_Union
<1>4. A \in SUBSET (0..n) /\ A # {}
  BY <1>1
<1>. HIDE DEF A
<1>5. A \in SUBSET Int
  BY <1>4
<1>6. Max(A) \in A
  BY <1>3, <1>4, <1>5, MaxIsGreatest
<1>. QED  BY <1>2, <1>4, <1>6 DEF n

\* The item in hand is due.
LEMMA InHand ==
    ASSUME PInv, NEW kinds, OnItem(kinds)
    PROVE  /\ It.t \in Things /\ It.kind \in kinds /\ Due(It, issued[It.t]) /\ stage = "spend"
           /\ pos \in DOMAIN plan /\ plan[pos] = It /\ Apart(plan)
           /\ \A i \in DOMAIN plan : i \in Int /\ plan[i].t \in Things
           /\ \A i \in DOMAIN plan : i >= pos => Due(plan[i], issued[plan[i].t])
<1>1. plan \in Seq(Item) /\ pos \in Nat \ {0} /\ stage = "spend" /\ pos <= Len(plan) /\ It.kind \in kinds
  BY DEF PInv, LInv, LTypes, OnItem
<1>2. DOMAIN plan = 1..Len(plan) /\ Len(plan) \in Nat /\ \A i \in 1..Len(plan) : plan[i] \in Item
  BY <1>1, LenProperties
<1>3. pos \in DOMAIN plan /\ plan[pos] = It /\ pos >= pos
  BY <1>1, <1>2 DEF It
<1>4. Apart(plan) /\ \A i \in DOMAIN plan : i >= pos => Due(plan[i], issued[plan[i].t])
  BY <1>1 DEF PInv, RestIsDue
<1>5. \A i \in DOMAIN plan : i \in Int /\ plan[i].t \in Things
  BY <1>2 DEF Item
<1>6. Due(It, issued[It.t])
  BY <1>3, <1>4
<1>. QED  BY <1>1, <1>3, <1>4, <1>5, <1>6

\* A step that orders nothing and sends nobody.
LEMMA HoldKeeps ==
    ASSUME PInv, NEW kinds, OnItem(kinds), NextItem, UNCHANGED <<walking, bases, issued>>
    PROVE  KeepsPlan
<1>1. UNCHANGED <<stage, plan, own, making, walking, bases, issued>> /\ pos' = pos + 1
  BY DEF NextItem
<1>2. NoneTwice'
  BY <1>1 DEF PInv, NoneTwice, AtSites, AtBases, Besides
<1>3. RestIsDue'
  <2>1. SUFFICES ASSUME NEW i \in DOMAIN plan, i >= pos + 1 PROVE Due(plan[i], issued[plan[i].t])'
    BY <1>1, InHand DEF RestIsDue, Apart
  <2>2. pos \in Int /\ i \in Int
    BY InHand
  <2>3. i >= pos
    BY <2>1, <2>2
  <2>4. Due(plan[i], issued[plan[i].t])
    BY <2>3, InHand
  <2>. QED  BY <1>1, <2>4 DEF Due
<1>. QED  BY <1>2, <1>3 DEF KeepsPlan

\* A builder is sent to what it builds, and there may be one more of it.
LEMMA SendKeeps ==
    ASSUME PInv, NEW kinds, OnItem(kinds), NextItem, NEW t \in Things, Send(t),
           It.kind = "expand" /\ t = Hall => bases.walk + bases.make + bases.done < Sites,
           t \notin Unbounded /\ IsBuilding(t) =>
               /\ Data[t].kind = "building"
               /\ \/ It.kind = "expand" /\ t = Hall
                  \/ own[t] + making[t] + walking[t] + issued[t] < Wanted(t)
    PROVE  KeepsPlan
<1>. DEFINE base == It.kind = "expand" /\ t = Hall
<1>1. /\ UNCHANGED <<stage, plan, own, making, issued>> /\ pos' = pos + 1 /\ walking' = More(walking, t, 1)
      /\ bases' = IF base THEN [bases EXCEPT !.walk = @ + 1] ELSE bases
  BY DEF NextItem, Send
<1>2. walking'[t] = walking[t] + 1 /\ \A u \in Things \ {t} : walking'[u] = walking[u]
  BY <1>1 DEF More, PInv, LInv, LTypes
<1>3. /\ base => t = Hall
      /\ base => bases.walk + bases.make + bases.done < Sites
      /\ t \notin Unbounded /\ IsBuilding(t) =>
             Data[t].kind = "building" /\ (base \/ own[t] + making[t] + walking[t] + issued[t] < Wanted(t))
  OBVIOUS
<1>. HIDE DEF base
<1>4. AtSites' /\ AtBases' = AtBases + (IF base THEN 1 ELSE 0) /\ AtBases \in Nat
  <2>1. /\ bases \in [walk : Nat, make : Nat, done : Nat] /\ bases.walk <= walking[Hall]
        /\ Hall \in Things /\ walking[Hall] \in Nat /\ Sites \in Nat
        /\ AtBases = bases.walk + bases.make + bases.done /\ AtBases <= Sites /\ AtBases \in Nat
    BY BesidesType, HaveType, LedgerAssumption
  <2>2. CASE base
    <3>1. /\ bases' \in [walk : Nat, make : Nat, done : Nat]
          /\ bases'.walk = bases.walk + 1 /\ bases'.make = bases.make /\ bases'.done = bases.done
      BY <1>1, <2>1, <2>2
    <3>. QED  BY <1>2, <1>3, <2>1, <2>2, <3>1 DEF AtSites, AtBases
  <2>3. CASE ~base
    BY <1>1, <1>2, <2>1, <2>3 DEF AtSites, AtBases
  <2>. QED  BY <2>2, <2>3
<1>5. NoneTwice'
  <2>1. SUFFICES ASSUME NEW u \in Things \ Unbounded, IsBuilding(u)
                 PROVE  /\ Besides(u)' + issued'[u] <= Wanted(u)
                        /\ Data[u].kind = "building" => issued'[u] = 0
                        /\ Data[u].kind # "building" => walking'[u] = 0
    BY <1>4 DEF NoneTwice
  <2>2. /\ Besides(u) + issued[u] <= Wanted(u)
        /\ Data[u].kind = "building" => issued[u] = 0
        /\ Data[u].kind # "building" => walking[u] = 0
    BY <2>1 DEF PInv, NoneTwice
  <2>3. /\ own[u] \in Int /\ making[u] \in Int /\ walking[u] \in Int /\ issued[u] \in Int /\ Wanted(u) \in Int
        /\ Besides(u) = own[u] + making[u] + walking[u] - (IF u = Hall THEN AtBases ELSE 0)
        /\ Besides(u)' = own[u] + making[u] + walking'[u] - (IF u = Hall THEN AtBases' ELSE 0)
    BY <1>1, HaveType, WantedIsMost, BesidesType DEF Besides
  <2>4. CASE u # t
    BY <1>1, <1>2, <1>3, <1>4, <2>2, <2>3, <2>4
  <2>5. CASE u = t
    <3>1. Data[t].kind = "building" /\ (base \/ own[t] + making[t] + walking[t] + issued[t] < Wanted(t))
      BY <1>3, <2>1, <2>5
    <3>2. Besides(u)' + issued'[u] <= Wanted(u)
      <4>1. CASE base
        BY <1>1, <1>2, <1>3, <1>4, <2>2, <2>3, <2>5, <4>1
      <4>2. CASE ~base
        BY <1>1, <1>2, <1>4, <2>3, <2>5, <3>1, <4>2
      <4>. QED  BY <4>1, <4>2
    <3>. QED  BY <1>1, <2>2, <2>5, <3>1, <3>2
  <2>. QED  BY <2>4, <2>5
<1>6. RestIsDue'
  <2>1. SUFFICES ASSUME NEW i \in DOMAIN plan, i >= pos + 1 PROVE Due(plan[i], issued[plan[i].t])'
    BY <1>1, InHand DEF RestIsDue, Apart
  <2>2. pos \in Int /\ i \in Int
    BY InHand
  <2>3. i >= pos
    BY <2>1, <2>2
  <2>4. Due(plan[i], issued[plan[i].t])
    BY <2>3, InHand
  <2>. QED  BY <1>1, <2>4 DEF Due
<1>. QED  BY <1>5, <1>6 DEF KeepsPlan

\* What is ordered is in hand: no other item of the kind is left that asks for it.
LEMMA OrderKeeps ==
    ASSUME PInv, NEW kinds, OnItem(kinds), NextItem, NEW t, t = It.t, NEW n \in Nat, Order(t, n),
           t \notin Unbounded /\ IsBuilding(t) =>
               /\ n = 1 /\ Data[t].kind # "building" /\ It.kind \in {"build", "addon"}
               /\ own[t] + making[t] + walking[t] + issued[t] < Wanted(t)
    PROVE  KeepsPlan
<1>1. UNCHANGED <<stage, plan, own, making, walking, bases>> /\ pos' = pos + 1 /\ issued' = More(issued, t, n)
  BY DEF NextItem, Order
<1>2. t \in Things /\ issued'[t] = issued[t] + n /\ \A u \in Things \ {t} : issued'[u] = issued[u]
  <2>1. t \in Things
    BY InHand
  <2>. QED  BY <1>1, <2>1 DEF More, PInv, LInv, LTypes
<1>3. NoneTwice'
  <2>1. AtSites' /\ AtBases' = AtBases
    BY <1>1 DEF PInv, NoneTwice, AtSites, AtBases
  <2>2. SUFFICES ASSUME NEW u \in Things \ Unbounded, IsBuilding(u)
                 PROVE  /\ Besides(u)' + issued'[u] <= Wanted(u)
                        /\ Data[u].kind = "building" => issued'[u] = 0
                        /\ Data[u].kind # "building" => walking'[u] = 0
    BY <2>1 DEF NoneTwice
  <2>3. /\ Besides(u) + issued[u] <= Wanted(u)
        /\ Data[u].kind = "building" => issued[u] = 0
        /\ Data[u].kind # "building" => walking[u] = 0
    BY <2>2 DEF PInv, NoneTwice
  <2>4. Besides(u)' = Besides(u)
    BY <1>1, <2>1 DEF Besides
  <2>5. CASE u # t
    BY <1>1, <1>2, <2>3, <2>4, <2>5
  <2>6. CASE u = t
    <3>1. /\ own[t] \in Int /\ making[t] \in Int /\ walking[t] \in Int /\ issued[t] \in Int /\ Wanted(t) \in Int
          /\ AtBases \in Nat /\ Besides(t) = own[t] + making[t] + walking[t] - (IF t = Hall THEN AtBases ELSE 0)
      BY <1>2, HaveType, WantedIsMost, BesidesType
    <3>2. n = 1 /\ Data[t].kind # "building" /\ own[t] + making[t] + walking[t] + issued[t] < Wanted(t)
      BY <2>2, <2>6
    <3>3. Besides(t) + (issued[t] + n) <= Wanted(t)
      BY <3>1, <3>2
    <3>. QED  BY <1>1, <1>2, <2>3, <2>4, <2>6, <3>2, <3>3
  <2>. QED  BY <2>5, <2>6
<1>4. RestIsDue'
  <2>1. SUFFICES ASSUME NEW i \in DOMAIN plan, i >= pos + 1 PROVE Due(plan[i], issued[plan[i].t])'
    BY <1>1, InHand DEF RestIsDue, Apart
  <2>2. pos \in Int /\ i \in Int /\ plan[i].t \in Things
    BY InHand
  <2>3. i >= pos /\ i # pos
    BY <2>1, <2>2
  <2>4. Due(plan[i], issued[plan[i].t])
    BY <2>3, InHand
  <2>5. CASE plan[i].t # t
    <3>1. issued'[plan[i].t] = issued[plan[i].t]
      BY <1>2, <2>2, <2>5
    <3>. QED  BY <1>1, <2>4, <3>1 DEF Due
  <2>6. CASE plan[i].t = t /\ t \in Unbounded
    BY <1>1, <2>4, <2>6 DEF Due
  <2>7. CASE plan[i].t = t /\ t \notin Unbounded /\ ~IsBuilding(t)
    <3>1. plan[i].kind # "build" /\ plan[i].kind # "addon"
      BY <2>4, <2>7 DEF Due, IsBuilding
    <3>. QED  BY <1>1, <2>4, <2>7, <3>1 DEF Due
  <2>8. CASE plan[i].t = t /\ t \notin Unbounded /\ IsBuilding(t)
    <3>1. It.kind \in {"build", "addon"} /\ Due(It, issued[t]) /\ plan[pos] = It /\ Apart(plan) /\ pos \in DOMAIN plan
      BY <2>8, InHand
    <3>2. plan[i].kind # It.kind
      BY <2>3, <2>8, <3>1 DEF Apart
    <3>3. /\ It.kind = "build" => Data[t].kind \in {"building", "morph"}
          /\ It.kind = "addon" => Data[t].kind = "addon"
      BY <2>8, <3>1 DEF Due
    <3>4. /\ plan[i].kind = "build" => Data[t].kind \in {"building", "morph"}
          /\ plan[i].kind = "addon" => Data[t].kind = "addon"
      BY <2>4, <2>8 DEF Due
    <3>5. plan[i].kind # "build" /\ plan[i].kind # "addon"
      BY <3>1, <3>2, <3>3, <3>4
    <3>. QED  BY <1>1, <2>4, <2>8, <3>5 DEF Due
  <2>. QED  BY <2>5, <2>6, <2>7, <2>8
<1>. QED  BY <1>3, <1>4 DEF KeepsPlan

LEMMA DispatchKeeps ==
    ASSUME PInv, NEW kinds, OnItem(kinds), NextItem, NEW t \in Things, Dispatch(t),
           It.kind = "expand" /\ t = Hall => bases.walk + bases.make + bases.done < Sites,
           t \notin Unbounded /\ IsBuilding(t) =>
               /\ Data[t].kind = "building"
               /\ \/ It.kind = "expand" /\ t = Hall
                  \/ own[t] + making[t] + walking[t] + issued[t] < Wanted(t)
    PROVE  KeepsPlan
<1>1. Leave \/ Send(t) \/ Save(Hold(budget, t))
  BY DEF Dispatch
<1>2. Leave => UNCHANGED <<walking, bases, issued>>
  BY DEF Leave
<1>3. Save(Hold(budget, t)) => UNCHANGED <<walking, bases, issued>>
  BY DEF Save
<1>. QED  BY <1>1, <1>2, <1>3, HoldKeeps, SendKeeps

LEMMA BuildKeeps == ASSUME PInv, Build PROVE KeepsPlan
<1>. DEFINE t == It.t
            kinds == {"build", "expand"}
<1>1. OnItem(kinds) /\ NextItem
  BY DEF Build
<1>. HIDE DEF kinds
<1>2. /\ t \in Things /\ It.kind \in kinds /\ Due(It, issued[t])
  BY <1>1, InHand
<1>3. /\ own[t] \in Int /\ making[t] \in Nat /\ walking[t] \in Nat /\ issued[t] \in Nat
      /\ Wanted(t) \in Nat
  BY <1>2, HaveType, WantedIsMost
<1>4. ASSUME t \notin Unbounded, IsBuilding(t)
      PROVE  /\ Data[t].kind = "building" => issued[t] = 0
             /\ Data[t].kind # "building" => walking[t] = 0
  BY <1>2, <1>4 DEF PInv, NoneTwice
<1>5. \/ Leave
      \/ Data[t].kind = "morph" /\ Order(t, 1)
      \/ Save(Hold(budget, t))
      \/ Data[t].kind # "morph" /\ ~AlreadyWalks(t) /\ ~NoPlace /\ Dispatch(t)
      \/ Data[t].psi /\ Dispatch(Pylon)
  BY DEF Build
<1>6. CASE Leave
  <2>1. UNCHANGED <<walking, bases, issued>>
    BY <1>6 DEF Leave
  <2>. QED  BY <1>1, <2>1, HoldKeeps
<1>7. CASE Save(Hold(budget, t))
  <2>1. UNCHANGED <<walking, bases, issued>>
    BY <1>7 DEF Save
  <2>. QED  BY <1>1, <2>1, HoldKeeps
<1>8. CASE Data[t].kind = "morph" /\ Order(t, 1)
  <2>1. ASSUME t \notin Unbounded, IsBuilding(t)
        PROVE  /\ Data[t].kind # "building" /\ It.kind \in {"build", "addon"}
               /\ own[t] + making[t] + walking[t] + issued[t] < Wanted(t)
    <3>1. t # Hall
      BY <1>8, PlannerAssumption
    <3>2. It.kind = "build"
      BY <1>2, <2>1, <3>1 DEF Due, kinds
    <3>3. own[t] + making[t] + issued[t] < Wanted(t) /\ walking[t] = 0
      BY <1>2, <1>4, <1>8, <2>1, <3>2 DEF Due
    <3>. QED  BY <1>3, <1>8, <3>2, <3>3
  <2>2. 1 \in Nat /\ t = It.t
    OBVIOUS
  <2>. HIDE DEF t
  <2>. QED  BY <1>1, <1>8, <2>1, <2>2, OrderKeeps
<1>9. CASE Data[t].kind # "morph" /\ ~AlreadyWalks(t) /\ ~NoPlace /\ Dispatch(t)
  <2>1. ASSUME t \notin Unbounded, IsBuilding(t)
        PROVE  /\ Data[t].kind = "building"
               /\ \/ It.kind = "expand" /\ t = Hall
                  \/ own[t] + making[t] + walking[t] + issued[t] < Wanted(t)
    <3>1. CASE It.kind = "build"
      <4>1. /\ Data[t].kind \in {"building", "morph"} /\ It.count = 1
            /\ own[t] + making[t] + issued[t] < Wanted(t)
        BY <1>2, <2>1, <3>1 DEF Due
      <4>2. walking[t] = 0
        <5>1. Count = 1 /\ ~(walking[t] >= Count)
          BY <1>9, <3>1, <4>1 DEF Count, AlreadyWalks
        <5>. QED  BY <1>3, <5>1
      <4>. QED  BY <1>3, <1>9, <4>1, <4>2
    <3>2. CASE It.kind = "expand"
      BY <1>2, <3>2, PlannerAssumption DEF Due
    <3>. QED  BY <1>2, <3>1, <3>2 DEF kinds
  <2>2. ASSUME It.kind = "expand" PROVE bases.walk + bases.make + bases.done < Sites
    <3>1. It.count = 1
      BY <1>2, <2>2 DEF Due
    <3>2. Count = 1 /\ ~(bases.walk >= Count) /\ ~(bases.make + bases.done >= Sites)
      BY <1>9, <2>2, <3>1 DEF Count, AlreadyWalks, NoPlace
    <3>3. bases.walk \in Nat /\ bases.make \in Nat /\ bases.done \in Nat /\ Sites \in Nat
      BY <1>2, BesidesType, LedgerAssumption
    <3>. QED  BY <3>2, <3>3
  <2>. HIDE DEF t
  <2>. QED  BY <1>1, <1>2, <1>9, <2>1, <2>2, DispatchKeeps
<1>10. CASE Data[t].psi /\ Dispatch(Pylon)
  <2>1. Pylon \in Things /\ Pylon \in Unbounded /\ Pylon # Hall
    BY <1>2, <1>10, PlannerAssumption DEF Unbounded
  <2>. HIDE DEF t
  <2>. QED  BY <1>1, <1>10, <2>1, DispatchKeeps
<1>. HIDE DEF t
<1>. QED  BY <1>5, <1>6, <1>7, <1>8, <1>9, <1>10

LEMMA TrainKeeps == ASSUME PInv, Train PROVE KeepsPlan
<1>. DEFINE t == It.t
            kinds == {"train"}
<1>1. OnItem(kinds) /\ NextItem
  BY DEF Train
<1>. HIDE DEF kinds
<1>2. It.kind \in kinds /\ Due(It, issued[t]) /\ t \in Things
  BY <1>1, InHand
<1>3. t \in Unbounded \/ ~IsBuilding(t)
  BY <1>2 DEF Due, kinds
<1>4. CASE Leave
  <2>1. UNCHANGED <<walking, bases, issued>>
    BY <1>4 DEF Leave
  <2>. QED  BY <1>1, <2>1, HoldKeeps
<1>5. CASE ~Leave
  <2>. DEFINE n(k) == IF k < Count THEN k ELSE Count
              F(k) == {i \in 1..n(k) : \A h \in 1..i : Fits(Spend(budget, t, h - 1), t)}
              j(k) == Max({0} \cup F(k))
  <2>1. PICK k \in Free(t) : Order(t, j(k))
    BY <1>5 DEF Train
  <2>2. j(k) \in Nat
    <3>1. k \in Int /\ Count \in Int
      BY <1>1, <1>2, FreeType, ItemInHand DEF PInv
    <3>2. n(k) \in Int
      BY <3>1
    <3>3. F(k) \in SUBSET (1..n(k)) /\ 1..n(k) \in SUBSET Nat
      BY <3>2
    <3>. HIDE DEF F, n
    <3>4. IsFiniteSet(1..n(k))
      BY <3>2, FS_Interval
    <3>5. IsFiniteSet(F(k))
      BY <3>3, <3>4, FS_Subset
    <3>. DEFINE S == {0} \cup F(k)
    <3>6. IsFiniteSet(S)
      BY <3>5, FS_Singleton, FS_Union
    <3>7. S \in SUBSET Int /\ S # {} /\ S \in SUBSET Nat
      BY <3>3
    <3>. HIDE DEF S
    <3>8. Max(S) \in Nat
      BY <3>6, <3>7, MaxIsGreatest
    <3>. QED  BY <3>8 DEF S
  <2>3. t = It.t
    OBVIOUS
  <2>. HIDE DEF j, t
  <2>. QED  BY <1>1, <1>3, <2>1, <2>2, <2>3, OrderKeeps
<1>. QED  BY <1>4, <1>5

LEMMA SingleKeeps == ASSUME PInv, Single PROVE KeepsPlan
<1>. DEFINE t == It.t
            kinds == {"addon", "upgrade"}
<1>1. OnItem(kinds) /\ NextItem
  BY DEF Single
<1>. HIDE DEF kinds
<1>2. It.kind \in kinds /\ Due(It, issued[t]) /\ t \in Things
  BY <1>1, InHand
<1>3. \/ Leave
      \/ ~(own[t] + making[t] >= Count) /\ Order(t, 1)
      \/ Save(Hold(budget, t))
  BY DEF Single
<1>4. CASE Leave
  <2>1. UNCHANGED <<walking, bases, issued>>
    BY <1>4 DEF Leave
  <2>. QED  BY <1>1, <2>1, HoldKeeps
<1>5. CASE Save(Hold(budget, t))
  <2>1. UNCHANGED <<walking, bases, issued>>
    BY <1>5 DEF Save
  <2>. QED  BY <1>1, <2>1, HoldKeeps
<1>6. CASE ~(own[t] + making[t] >= Count) /\ Order(t, 1)
  <2>1. ASSUME t \notin Unbounded, IsBuilding(t)
        PROVE  /\ Data[t].kind # "building" /\ It.kind \in {"build", "addon"}
               /\ own[t] + making[t] + walking[t] + issued[t] < Wanted(t)
    <3>1. It.kind = "addon"
      BY <1>2, <2>1 DEF Due, kinds
    <3>2. Data[t].kind = "addon" /\ It.count <= Wanted(t) /\ issued[t] = 0
      BY <1>2, <2>1, <3>1 DEF Due
    <3>3. walking[t] = 0
      BY <1>2, <2>1, <3>2 DEF PInv, NoneTwice
    <3>4. /\ own[t] \in Int /\ making[t] \in Nat /\ Wanted(t) \in Nat /\ 1 <= AskedFor(t)
          /\ AskedFor(t) <= Wanted(t) /\ AskedFor(t) \in Nat
      BY <1>2, HaveType, WantedIsMost, AskedForIsMost
    <3>5. Count \in Nat
      BY <1>1, ItemInHand DEF PInv
    <3>6. Count <= Wanted(t)
      <4>1. Count = It.count \/ Count = 1
        BY DEF Count
      <4>. HIDE DEF t
      <4>. QED  BY <3>2, <3>4, <4>1
    <3>. HIDE DEF t
    <3>7. own[t] + making[t] + walking[t] + issued[t] < Wanted(t)
      BY <1>6, <3>2, <3>3, <3>4, <3>5, <3>6
    <3>. QED  BY <3>1, <3>2, <3>7
  <2>2. 1 \in Nat /\ t = It.t
    OBVIOUS
  <2>. HIDE DEF t
  <2>. QED  BY <1>1, <1>6, <2>1, <2>2, OrderKeeps
<1>. HIDE DEF t
<1>. QED  BY <1>3, <1>4, <1>5, <1>6

\* What the game does makes no more of anything than was on its way.
LEMMA GameKeeps ==
    ASSUME PInv, stage' # "spend", AtSites',
           \A t \in Things \ Unbounded : IsBuilding(t) =>
               /\ Besides(t)' + issued'[t] <= Besides(t) + issued[t]
               /\ Besides(t)' + issued'[t] \in Int
               /\ issued[t] = 0 => issued'[t] = 0
               /\ walking[t] = 0 => walking'[t] = 0
    PROVE  KeepsPlan
<1>1. NoneTwice'
  <2>1. SUFFICES ASSUME NEW u \in Things \ Unbounded, IsBuilding(u)
                 PROVE  /\ Besides(u)' + issued'[u] <= Wanted(u)
                        /\ Data[u].kind = "building" => issued'[u] = 0
                        /\ Data[u].kind # "building" => walking'[u] = 0
    BY DEF NoneTwice
  <2>2. /\ Besides(u) + issued[u] <= Wanted(u)
        /\ Data[u].kind = "building" => issued[u] = 0
        /\ Data[u].kind # "building" => walking[u] = 0
    BY <2>1 DEF PInv, NoneTwice
  <2>3. Besides(u) + issued[u] \in Int /\ Wanted(u) \in Int
    BY HaveType, BesidesType, WantedIsMost
  <2>. DEFINE x == Besides(u)' + issued'[u]
              y == Besides(u) + issued[u]
  <2>4. x <= y /\ x \in Int /\ (issued[u] = 0 => issued'[u] = 0) /\ (walking[u] = 0 => walking'[u] = 0)
    BY <2>1
  <2>5. x <= Wanted(u)
    <3>1. y <= Wanted(u) /\ y \in Int /\ Wanted(u) \in Int
      BY <2>2, <2>3
    <3>. HIDE DEF x, y
    <3>. QED  BY <2>4, <3>1
  <2>. QED  BY <2>2, <2>4, <2>5
<1>2. RestIsDue'
  BY DEF RestIsDue
<1>. QED  BY <1>1, <1>2 DEF KeepsPlan

\* One thing moves on, is lost or placed, so many more are done, made and walked to: if
\* it is a hall, perhaps one of a site.
Moves(t, o, m, w) ==
    /\ o \in Int /\ m \in Int /\ w \in {-1, 0} /\ o + m + w <= 0
    /\ walking[t] + w >= 0
    /\ \A u \in Things : IsBuilding(u) =>
           IF u = t THEN own'[u] = own[u] + o /\ making'[u] = making[u] + m /\ walking'[u] = walking[u] + w
           ELSE own'[u] = own[u] /\ making'[u] = making[u] /\ walking'[u] = walking[u]
    /\ t # Hall => bases' = bases
    /\ t = Hall => /\ bases' \in [walk : Nat, make : Nat, done : Nat]
                   /\ bases'.walk <= walking[Hall] + w
                   /\ \/ AtBases' = AtBases
                      \/ AtBases' = AtBases - 1 /\ o + m + w = -1
LEMMA OneMoves ==
    ASSUME PInv, stage' # "spend", issued' = issued, NEW t \in Things,
           NEW o, NEW m, NEW w, Moves(t, o, m, w)
    PROVE  KeepsPlan
<1>0. /\ o \in Int /\ m \in Int /\ w \in {-1, 0} /\ o + m + w <= 0
      /\ walking[t] + w >= 0
      /\ \A u \in Things : IsBuilding(u) =>
             IF u = t THEN own'[u] = own[u] + o /\ making'[u] = making[u] + m /\ walking'[u] = walking[u] + w
             ELSE own'[u] = own[u] /\ making'[u] = making[u] /\ walking'[u] = walking[u]
      /\ t # Hall => bases' = bases
      /\ t = Hall => /\ bases' \in [walk : Nat, make : Nat, done : Nat]
                     /\ bases'.walk <= walking[Hall] + w
                     /\ \/ AtBases' = AtBases
                        \/ AtBases' = AtBases - 1 /\ o + m + w = -1
  BY DEF Moves
<1>1. Hall \in Things /\ IsBuilding(Hall)
  BY LedgerAssumption, PlannerAssumption DEF IsBuilding
<1>2. /\ bases \in [walk : Nat, make : Nat, done : Nat] /\ bases.walk <= walking[Hall]
      /\ AtBases <= Sites /\ AtBases \in Nat /\ walking[Hall] \in Nat /\ Sites \in Nat
  BY <1>1, BesidesType, HaveType, LedgerAssumption
<1>3. AtSites' /\ AtBases' \in Int
  <2>1. CASE t = Hall
    <3>1. walking'[Hall] = walking[Hall] + w
      BY <1>0, <1>1, <2>1
    <3>2. AtBases' <= Sites /\ AtBases' \in Int
      <4>1. AtBases' = AtBases \/ AtBases' = AtBases - 1
        BY <1>0, <2>1
      <4>. QED  BY <1>2, <4>1
    <3>. QED  BY <1>0, <2>1, <3>1, <3>2 DEF AtSites
  <2>2. CASE t # Hall
    <3>1. walking'[Hall] = walking[Hall] /\ bases' = bases
      BY <1>0, <1>1, <2>2
    <3>. QED  BY <1>2, <3>1 DEF AtSites, AtBases
  <2>. QED  BY <2>1, <2>2
<1>4. ASSUME NEW u \in Things, IsBuilding(u)
      PROVE  /\ Besides(u)' + issued'[u] <= Besides(u) + issued[u]
             /\ Besides(u)' + issued'[u] \in Int
             /\ issued[u] = 0 => issued'[u] = 0
             /\ walking[u] = 0 => walking'[u] = 0
  <2>1. /\ own[u] \in Int /\ making[u] \in Int /\ walking[u] \in Nat /\ issued[u] \in Nat
        /\ Besides(u) = own[u] + making[u] + walking[u] - (IF u = Hall THEN AtBases ELSE 0)
        /\ Besides(u)' = own'[u] + making'[u] + walking'[u] - (IF u = Hall THEN AtBases' ELSE 0)
    BY HaveType, BesidesType DEF Besides
  <2>2. CASE u # t
    <3>1. own'[u] = own[u] /\ making'[u] = making[u] /\ walking'[u] = walking[u]
      BY <1>0, <1>4, <2>2
    <3>2. u = Hall => AtBases' = AtBases
      BY <1>0, <2>2 DEF AtBases
    <3>. QED  BY <1>2, <1>3, <2>1, <3>1, <3>2
  <2>3. CASE u = t /\ u = Hall
    <3>1. own'[u] = own[u] + o /\ making'[u] = making[u] + m /\ walking'[u] = walking[u] + w
      BY <1>0, <1>4, <2>3
    <3>2. AtBases' = AtBases \/ (AtBases' = AtBases - 1 /\ o + m + w = -1)
      BY <1>0, <2>3
    <3>3. walking[u] + w >= 0
      BY <1>0, <2>3
    <3>. QED  BY <1>0, <1>2, <1>3, <2>1, <2>3, <3>1, <3>2, <3>3
  <2>4. CASE u = t /\ u # Hall
    <3>1. own'[u] = own[u] + o /\ making'[u] = making[u] + m /\ walking'[u] = walking[u] + w
      BY <1>0, <1>4, <2>4
    <3>2. walking[u] + w >= 0
      BY <1>0, <2>4
    <3>. QED  BY <1>0, <2>1, <2>4, <3>1, <3>2
  <2>. QED  BY <2>2, <2>3, <2>4
<1>. QED  BY <1>3, <1>4, GameKeeps

LEMMA HappensKeeps ==
    ASSUME PInv, Happens \/ Alarm
    PROVE  KeepsPlan /\ \A t \in Things : making'[t] >= 0
<1>0. /\ own \in [Things -> Int] /\ making \in [Things -> Int] /\ walking \in [Things -> Nat]
      /\ issued \in [Things -> Nat] /\ \A t \in Things : making[t] >= 0 /\ making[t] \in Nat
      /\ bases \in [walk : Nat, make : Nat, done : Nat] /\ bases.walk <= walking[Hall] /\ Hall \in Things
  <2>1. Hall \in Things
    BY LedgerAssumption
  <2>. QED  BY <2>1, BesidesType, HaveType DEF PInv, LInv, LTypes, PTypes
<1>1. CASE Mines \/ Drills \/ Observes \/ Alarm
  <2>1. UNCHANGED <<own, making, walking, bases, issued>> /\ stage' # "spend"
    BY <1>1 DEF Mines, Drills, Mine, InGame, Observes, Alarm, game, ledger
  <2>2. AtSites' /\ \A u \in Things : Besides(u)' = Besides(u)
    BY <2>1 DEF PInv, NoneTwice, AtSites, AtBases, Besides
  <2>3. \A u \in Things : Besides(u) + issued[u] \in Int
    BY BesidesType, HaveType
  <2>4. KeepsPlan
    BY <2>1, <2>2, <2>3, GameKeeps
  <2>. QED  BY <1>0, <2>1, <2>4
<1>2. ASSUME NEW t \in Things, Completes(t) PROVE KeepsPlan /\ \A u \in Things : making'[u] >= 0
  <2>1. /\ stage' # "spend" /\ issued' = issued /\ walking' = walking
        /\ making' = IF t = Larva THEN making ELSE More(making, t, -1)
        /\ own' = More(own, t, 1) /\ (t # Larva => making[t] > 0)
        /\ OneOf(t, making[t], "make", [bases EXCEPT !.make = @ - 1, !.done = @ + 1])
    BY <1>2 DEF Completes, InGame, ledger
  <2>2. /\ own'[t] = own[t] + 1 /\ \A u \in Things \ {t} : own'[u] = own[u]
    BY <1>0, <2>1 DEF More
  <2>3. /\ t # Larva => making'[t] = making[t] - 1
        /\ \A u \in Things : u # t \/ t = Larva => making'[u] = making[u]
    BY <1>0, <2>1 DEF More
  <2>4. t = Larva => ~IsBuilding(t) /\ t # Hall
    BY PlannerAssumption DEF IsBuilding
  <2>5. \A u \in Things : IsBuilding(u) =>
            IF u = t THEN own'[u] = own[u] + 1 /\ making'[u] = making[u] + (-1) /\ walking'[u] = walking[u] + 0
            ELSE own'[u] = own[u] /\ making'[u] = making[u] /\ walking'[u] = walking[u]
    BY <1>0, <2>1, <2>2, <2>3, <2>4
  <2>6. t # Hall => bases' = bases
    BY <2>1 DEF OneOf
  <2>7. t = Hall => /\ bases' \in [walk : Nat, make : Nat, done : Nat]
                    /\ bases'.walk <= walking[Hall] + 0
                    /\ AtBases' = AtBases
    <3>1. CASE bases["make"] > 0 /\ bases' = [bases EXCEPT !.make = @ - 1, !.done = @ + 1]
      <4>. DEFINE less == [bases EXCEPT !.make = bases.make - 1]
      <4>0. /\ less \in [walk : Nat, make : Nat, done : Nat] /\ less.walk = bases.walk
            /\ less.make = bases.make - 1 /\ less.done = bases.done /\ bases.done \in Nat
            /\ bases' = [less EXCEPT !.done = bases.done + 1]
        BY <1>0, <3>1
      <4>. HIDE DEF less
      <4>1. /\ bases' \in [walk : Nat, make : Nat, done : Nat] /\ bases'.walk = bases.walk
            /\ bases'.make = bases.make - 1 /\ bases'.done = bases.done + 1
        BY <4>0
      <4>. QED  BY <1>0, <2>1, <4>1 DEF AtBases
    <3>2. CASE bases' = bases
      BY <1>0, <3>2 DEF AtBases
    <3>. QED  BY <2>1, <3>1, <3>2 DEF OneOf
  <2>8. Moves(t, 1, -1, 0)
    BY <1>0, <2>5, <2>6, <2>7 DEF Moves
  <2>9. KeepsPlan
    BY <2>1, <2>8, OneMoves
  <2>10. \A u \in Things : making'[u] >= 0
    <3>1. SUFFICES ASSUME NEW u \in Things PROVE making'[u] >= 0
      OBVIOUS
    <3>2. making[u] \in Int /\ making[u] >= 0
      BY <1>0
    <3>3. CASE u = t /\ t # Larva
      <4>1. making'[u] = making[u] - 1 /\ making[u] > 0
        BY <2>1, <2>3, <3>3
      <4>. QED  BY <3>2, <4>1
    <3>4. CASE ~(u = t /\ t # Larva)
      BY <2>3, <3>2, <3>4
    <3>. QED  BY <3>3, <3>4
  <2>. QED  BY <2>9, <2>10
<1>3. ASSUME NEW t \in Things, Places(t) PROVE KeepsPlan /\ \A u \in Things : making'[u] >= 0
  <2>1. /\ stage' # "spend" /\ issued' = issued /\ walking[t] > 0
        /\ walking' = More(walking, t, -1) /\ making' = More(making, t, 1)
        /\ own' = IF Data[t].eats THEN More(own, Worker, -1) ELSE own
        /\ OneOf(t, walking[t], "walk", [bases EXCEPT !.walk = @ - 1, !.make = @ + 1])
    BY <1>3 DEF Places, InGame, ledger
  <2>2. /\ walking'[t] = walking[t] - 1 /\ \A u \in Things \ {t} : walking'[u] = walking[u]
        /\ making'[t] = making[t] + 1 /\ \A u \in Things \ {t} : making'[u] = making[u]
    BY <1>0, <2>1 DEF More
  <2>3. \A u \in Things : u # Worker => own'[u] = own[u]
    BY <1>0, <2>1 DEF More
  <2>4. ~IsBuilding(Worker)
    BY PlannerAssumption DEF IsBuilding
  <2>5. \A u \in Things : IsBuilding(u) =>
            IF u = t THEN own'[u] = own[u] + 0 /\ making'[u] = making[u] + 1 /\ walking'[u] = walking[u] + (-1)
            ELSE own'[u] = own[u] /\ making'[u] = making[u] /\ walking'[u] = walking[u]
    BY <1>0, <2>2, <2>3, <2>4
  <2>6. t # Hall => bases' = bases
    BY <2>1 DEF OneOf
  <2>7. t = Hall => /\ bases' \in [walk : Nat, make : Nat, done : Nat]
                    /\ bases'.walk <= walking[Hall] + (-1)
                    /\ AtBases' = AtBases
    <3>1. CASE bases["walk"] > 0 /\ bases' = [bases EXCEPT !.walk = @ - 1, !.make = @ + 1]
      <4>. DEFINE less == [bases EXCEPT !.walk = bases.walk - 1]
      <4>0. /\ less \in [walk : Nat, make : Nat, done : Nat] /\ less.walk = bases.walk - 1
            /\ less.make = bases.make /\ less.done = bases.done /\ bases.make \in Nat
            /\ bases' = [less EXCEPT !.make = bases.make + 1]
        BY <1>0, <3>1
      <4>. HIDE DEF less
      <4>1. /\ bases' \in [walk : Nat, make : Nat, done : Nat] /\ bases'.walk = bases.walk - 1
            /\ bases'.make = bases.make + 1 /\ bases'.done = bases.done
        BY <4>0
      <4>. QED  BY <1>0, <2>1, <4>1 DEF AtBases
    <3>2. CASE bases' = bases /\ (t = Hall => walking[t] > bases["walk"])
      BY <1>0, <3>2 DEF AtBases
    <3>. QED  BY <2>1, <3>1, <3>2 DEF OneOf
  <2>8. Moves(t, 0, 1, -1)
    BY <1>0, <2>1, <2>5, <2>6, <2>7 DEF Moves
  <2>9. KeepsPlan
    BY <2>1, <2>8, OneMoves
  <2>10. \A u \in Things : making'[u] >= 0
    BY <1>0, <2>2
  <2>. QED  BY <2>9, <2>10
<1>4. ASSUME NEW t \in Things, JobEnds(t) PROVE KeepsPlan /\ \A u \in Things : making'[u] >= 0
  <2>1. /\ stage' # "spend" /\ issued' = issued /\ walking[t] > 0
        /\ walking' = More(walking, t, -1) /\ making' = making /\ own' = own
        /\ OneOf(t, walking[t], "walk", [bases EXCEPT !.walk = @ - 1])
    BY <1>4 DEF JobEnds, InGame, ledger
  <2>2. /\ walking'[t] = walking[t] - 1 /\ \A u \in Things \ {t} : walking'[u] = walking[u]
    BY <1>0, <2>1 DEF More
  <2>3. \A u \in Things : IsBuilding(u) =>
            IF u = t THEN own'[u] = own[u] + 0 /\ making'[u] = making[u] + 0 /\ walking'[u] = walking[u] + (-1)
            ELSE own'[u] = own[u] /\ making'[u] = making[u] /\ walking'[u] = walking[u]
    BY <1>0, <2>1, <2>2
  <2>4. t # Hall => bases' = bases
    BY <2>1 DEF OneOf
  <2>5. t = Hall => /\ bases' \in [walk : Nat, make : Nat, done : Nat]
                    /\ bases'.walk <= walking[Hall] + (-1)
                    /\ AtBases' = AtBases \/ AtBases' = AtBases - 1
    <3>1. CASE bases["walk"] > 0 /\ bases' = [bases EXCEPT !.walk = @ - 1]
      BY <1>0, <3>1 DEF AtBases
    <3>2. CASE bases' = bases /\ (t = Hall => walking[t] > bases["walk"])
      BY <1>0, <3>2 DEF AtBases
    <3>. QED  BY <2>1, <3>1, <3>2 DEF OneOf
  <2>6. Moves(t, 0, 0, -1)
    BY <1>0, <2>1, <2>3, <2>4, <2>5 DEF Moves
  <2>7. KeepsPlan
    BY <2>1, <2>6, OneMoves
  <2>. QED  BY <1>0, <2>1, <2>7
<1>5. ASSUME NEW t \in Things, Dies(t) PROVE KeepsPlan /\ \A u \in Things : making'[u] >= 0
  <2>1. /\ stage' # "spend" /\ issued' = issued
        /\ walking' = walking /\ making' = making /\ own' = More(own, t, -1)
        /\ OneOf(t, own[t], "done", [bases EXCEPT !.done = @ - 1])
    BY <1>5 DEF Dies, InGame, ledger
  <2>2. /\ own'[t] = own[t] - 1 /\ \A u \in Things \ {t} : own'[u] = own[u]
    BY <1>0, <2>1 DEF More
  <2>3. \A u \in Things : IsBuilding(u) =>
            IF u = t THEN own'[u] = own[u] + (-1) /\ making'[u] = making[u] + 0 /\ walking'[u] = walking[u] + 0
            ELSE own'[u] = own[u] /\ making'[u] = making[u] /\ walking'[u] = walking[u]
    BY <1>0, <2>1, <2>2
  <2>4. t # Hall => bases' = bases
    BY <2>1 DEF OneOf
  <2>5. t = Hall => /\ bases' \in [walk : Nat, make : Nat, done : Nat]
                    /\ bases'.walk <= walking[Hall] + 0
                    /\ AtBases' = AtBases \/ AtBases' = AtBases - 1
    <3>1. CASE bases["done"] > 0 /\ bases' = [bases EXCEPT !.done = @ - 1]
      BY <1>0, <3>1 DEF AtBases
    <3>2. CASE bases' = bases
      BY <1>0, <3>2 DEF AtBases
    <3>. QED  BY <2>1, <3>1, <3>2 DEF OneOf
  <2>6. Moves(t, -1, 0, 0)
    BY <1>0, <2>1, <2>3, <2>4, <2>5 DEF Moves
  <2>7. KeepsPlan
    BY <2>1, <2>6, OneMoves
  <2>. QED  BY <1>0, <2>1, <2>7
<1>. QED  BY <1>1, <1>2, <1>3, <1>4, <1>5 DEF Happens

\* The orders are carried out: what was ordered is being made.
LEMMA CarryKeeps ==
    ASSUME PInv, Carry
    PROVE  KeepsPlan /\ \A t \in Things : making'[t] >= 0
<1>1. /\ stage' = "game" /\ issued' = Nothing /\ walking' = walking
      /\ making' = [t \in Things |-> making[t] + issued[t]]
      /\ own' = [t \in Things |-> own[t] - Eaten(t)] /\ bases' = bases
  BY DEF Carry
<1>2. ASSUME NEW t \in Things
      PROVE  /\ making'[t] = making[t] + issued[t] /\ issued'[t] = 0 /\ walking'[t] = walking[t]
             /\ own'[t] = own[t] - Eaten(t) /\ Eaten(t) \in Nat
             /\ own[t] \in Int /\ making[t] \in Nat /\ walking[t] \in Nat /\ issued[t] \in Nat
  <2>. DEFINE U == {u \in From(t) : Data[u].eats}
  <2>1. U \in SUBSET Things /\ \A u \in U : issued[u] \in Nat
    BY HaveType DEF From
  <2>2. SumFunctionOnSet(issued, U) \in Nat
    <3>. HIDE DEF U
    <3>1. IsFiniteSet(U)
      BY <2>1, LedgerAssumption, FS_Subset
    <3>. QED  BY <2>1, <3>1, SumNat
  <2>3. Eaten(t) \in Nat
    BY <2>2 DEF Eaten
  <2>4. issued'[t] = 0
    BY <1>1 DEF Nothing
  <2>5. own[t] \in Int /\ making[t] \in Nat /\ walking[t] \in Nat /\ issued[t] \in Nat
    BY HaveType
  <2>. QED  BY <1>1, <2>3, <2>4, <2>5
<1>3. AtSites' /\ AtBases' = AtBases
  BY <1>1 DEF PInv, NoneTwice, AtSites, AtBases
<1>4. ASSUME NEW u \in Things \ Unbounded, IsBuilding(u)
      PROVE  /\ Besides(u)' + issued'[u] <= Besides(u) + issued[u]
             /\ Besides(u)' + issued'[u] \in Int
             /\ issued[u] = 0 => issued'[u] = 0
             /\ walking[u] = 0 => walking'[u] = 0
  <2>1. /\ AtBases \in Nat /\ Besides(u) = own[u] + making[u] + walking[u] - (IF u = Hall THEN AtBases ELSE 0)
        /\ Besides(u)' = own'[u] + making'[u] + walking'[u] - (IF u = Hall THEN AtBases ELSE 0)
    BY <1>3, BesidesType DEF Besides
  <2>. QED  BY <1>2, <2>1
<1>5. stage' # "spend"
  BY <1>1
<1>6. KeepsPlan
  BY <1>3, <1>4, <1>5, GameKeeps
<1>7. \A t \in Things : making'[t] >= 0
  BY <1>2
<1>. QED  BY <1>6, <1>7

\* The planner's list is due when the decision begins, before anything is ordered.
LEMMA PlanKeeps ==
    ASSUME PInv, Plan
    PROVE  KeepsPlan /\ plan' \in Seq(Item) /\ cancelled' \subseteq Things /\ Planned
<1>1. PICK attacked \in BOOLEAN, known \in BOOLEAN : Open(PlanOf(step', attacked, known), Cancels)
  BY DEF Plan
<1>2. step' = StepNow
  BY DEF Plan
<1>3. /\ stage = "plan" /\ stage' = "spend" /\ plan' = PlanOf(step', attacked, known) /\ pos' = 1
      /\ cancelled' = Cancels /\ walking' = [t \in Things |-> IF t \in Cancels THEN 0 ELSE walking[t]]
      /\ issued' = Nothing /\ UNCHANGED <<own, making>>
      /\ bases' = IF Hall \in Cancels THEN [bases EXCEPT !.walk = 0] ELSE bases
  BY <1>1 DEF Open
<1>4. plan' \in Lists(DueItems)
  BY <1>2, <1>3, PlanIsDue
<1>5. plan' \in Seq(Item) /\ plan' \in Seq(DueItems) /\ Apart(plan')
  BY <1>4, ListsAreLists
<1>6. cancelled' \subseteq Things
  <2>1. \A r \in asked : r.t \in Things
    BY PlanNumbers, PlannerAssumption
  <2>. QED  BY <1>3, <2>1 DEF Cancels
<1>7. Planned
  <2>1. Open(plan', cancelled')
    BY <1>1, <1>3
  <2>. QED  BY <1>5, <1>6, <2>1 DEF Planned
<1>8. NoneTwice'
  <2>1. /\ bases \in [walk : Nat, make : Nat, done : Nat] /\ bases.walk <= walking[Hall]
        /\ AtBases = bases.walk + bases.make + bases.done /\ AtBases <= Sites /\ AtBases \in Nat
        /\ Hall \in Things /\ walking[Hall] \in Nat /\ Sites \in Nat
    BY BesidesType, HaveType, LedgerAssumption
  <2>2. walking'[Hall] = IF Hall \in Cancels THEN 0 ELSE walking[Hall]
    BY <1>3, <2>1
  <2>3. /\ AtSites' /\ AtBases' \in Nat
        /\ AtBases' = IF Hall \in Cancels THEN AtBases - bases.walk ELSE AtBases
    <3>1. CASE Hall \in Cancels
      <4>1. /\ bases' \in [walk : Nat, make : Nat, done : Nat]
            /\ bases'.walk = 0 /\ bases'.make = bases.make /\ bases'.done = bases.done
        BY <1>3, <2>1, <3>1
      <4>. QED  BY <2>1, <2>2, <3>1, <4>1 DEF AtSites, AtBases
    <3>2. CASE Hall \notin Cancels
      BY <1>3, <2>1, <2>2, <3>2 DEF AtSites, AtBases
    <3>. QED  BY <3>1, <3>2
  <2>4. SUFFICES ASSUME NEW u \in Things \ Unbounded, IsBuilding(u)
                 PROVE  /\ Besides(u)' + issued'[u] <= Wanted(u)
                        /\ Data[u].kind = "building" => issued'[u] = 0
                        /\ Data[u].kind # "building" => walking'[u] = 0
    BY <2>3 DEF NoneTwice
  <2>5. /\ Besides(u) + issued[u] <= Wanted(u)
        /\ Data[u].kind = "building" => issued[u] = 0
        /\ Data[u].kind # "building" => walking[u] = 0
    BY <2>4 DEF PInv, NoneTwice
  <2>6. /\ own[u] \in Int /\ making[u] \in Nat /\ walking[u] \in Nat /\ issued[u] \in Nat /\ Wanted(u) \in Nat
        /\ Besides(u) = own[u] + making[u] + walking[u] - (IF u = Hall THEN AtBases ELSE 0)
        /\ Besides(u)' = own[u] + making[u] + walking'[u] - (IF u = Hall THEN AtBases' ELSE 0)
    BY <1>3, HaveType, WantedIsMost, BesidesType DEF Besides
  <2>7. issued'[u] = 0 /\ walking'[u] = IF u \in Cancels THEN 0 ELSE walking[u]
    BY <1>3 DEF Nothing
  <2>8. Besides(u)' <= Besides(u) /\ Besides(u)' \in Int /\ Besides(u) \in Int
    <3>1. CASE u = Hall
      BY <2>1, <2>3, <2>6, <2>7, <3>1
    <3>2. CASE u # Hall
      BY <2>6, <2>7, <3>2
    <3>. QED  BY <3>1, <3>2
  <2>. QED  BY <2>5, <2>6, <2>7, <2>8
<1>9. RestIsDue'
  <2>1. SUFFICES ASSUME NEW i \in DOMAIN plan' PROVE Due(plan[i], issued[plan[i].t])'
    BY <1>5 DEF RestIsDue, Apart
  <2>2. plan'[i] \in DueItems
    BY <1>5
  <2>3. Due(plan'[i], 0) /\ plan'[i].t \in Things
    BY <2>2 DEF DueItems, Item
  <2>4. issued'[plan'[i].t] = 0
    BY <1>3, <2>3 DEF Nothing
  <2>. QED  BY <1>3, <2>3, <2>4 DEF Due
<1>. QED  BY <1>5, <1>6, <1>7, <1>8, <1>9 DEF KeepsPlan

\* Every step of the greedy planner is one that any planner might take.
LEMMA GreedyIsAPlanner == PInv /\ [Next]_allvars => [AnyNext]_vars
<1>1. ASSUME PInv, Plan PROVE Planned
  BY <1>1, PlanKeeps
<1>2. Publish => Carry
  BY DEF Publish
<1>3. Plays => Happens
  BY DEF Plays
<1>4. Spends => Spending
  BY DEF Spends
<1>5. (\E r \in Requests : Asks(r)) => Alarm
  BY DEF Asks
<1>6. (\E r \in Requests : Lapses(r)) => UNCHANGED vars
  BY DEF Lapses
<1>7. UNCHANGED allvars => UNCHANGED vars
  BY DEF allvars
<1>. QED  BY <1>1, <1>2, <1>3, <1>4, <1>5, <1>6, <1>7 DEF Next, AnyNext

LEMMA MacroType ==
    ASSUME NEW jobs \in [Things -> Nat], LInv, NEW at \in [walk : Nat, make : Nat, done : Nat]
    PROVE  Macro(jobs, at) \in [pending : [Things -> Nat], bases : Int, count : Int, target : Int,
                                expanding : BOOLEAN, next : BOOLEAN]
<1>. DEFINE n == at.make + at.done
            target == IF n = 0 THEN 0 ELSE PerBase * n + PerGas * own[Refinery]
            count == IF at.make = 0 /\ at.walk > 0 THEN n + 1 ELSE n
<1>1. Refinery \in Things /\ PerBase \in Nat /\ PerGas \in Nat
  BY PlannerAssumption
<1>2. n \in Int /\ own[Refinery] \in Int
  BY <1>1 DEF LInv, LTypes
<1>3. \A a, b \in Int : a * b \in Int /\ a + b \in Int
  OBVIOUS
<1>4. count \in Int
  BY <1>2
<1>. HIDE DEF n
<1>5. target \in Int
  BY <1>1, <1>2, <1>3
<1>. HIDE DEF target, count
<1>. QED  BY <1>2, <1>4, <1>5 DEF Macro, n, target, count

LEMMA PlannerStart == InitAll => PInv
<1>1. SUFFICES ASSUME InitAll PROVE PInv
  OBVIOUS
<1>2. Init /\ LInv
  BY <1>1, LedgerStart DEF InitAll
<1>3. /\ own = [t \in Things |-> Start[t]] /\ making = Nothing /\ walking = Nothing /\ issued = Nothing
      /\ stage = "game"
  BY <1>2 DEF Init
<1>4. PTypes
  <2>1. macro \in [pending : [Things -> Nat], bases : Int, count : Int, target : Int,
                    expanding : BOOLEAN, next : BOOLEAN]
    BY <1>1, NothingType DEF InitAll, NoMacro
  <2>2. reserved \in [m : Int, g : Int] /\ step = 0 /\ asked \subseteq Requests
    BY <1>1 DEF InitAll
  <2>3. 0 \in 0..Len(Opening)
    BY PlannerAssumption, LenProperties
  <2>4. \A t \in Things : making[t] >= 0
    BY <1>3 DEF Nothing
  <2>. QED  BY <2>1, <2>2, <2>3, <2>4 DEF PTypes
<1>5. NoneTwice
  <2>1. bases = [walk |-> 0, make |-> 0, done |-> Start[Hall]] /\ Start[Hall] \in Nat
        /\ Start[Hall] <= Sites /\ Hall \in Things /\ Sites \in Nat
    BY <1>2, LedgerAssumption DEF Init
  <2>2. AtBases = Start[Hall] /\ AtSites
    BY <1>3, <2>1 DEF AtSites, AtBases, Nothing
  <2>3. SUFFICES ASSUME NEW u \in Things
                 PROVE  /\ Besides(u) + issued[u] <= Wanted(u)
                        /\ issued[u] = 0 /\ walking[u] = 0
    BY <2>2 DEF NoneTwice
  <2>4. own[u] = Start[u] /\ making[u] = 0 /\ walking[u] = 0 /\ issued[u] = 0
    BY <1>3 DEF Nothing
  <2>5. /\ Start[u] \in Nat /\ AskedFor(u) \in Nat /\ Wanted(u) \in Nat
        /\ Start[u] <= AskedFor(u) /\ AskedFor(u) <= Wanted(u)
    BY LedgerAssumption, AskedForIsMost, WantedIsMost
  <2>. QED  BY <2>1, <2>2, <2>4, <2>5 DEF Besides
<1>6. RestIsDue
  BY <1>3 DEF RestIsDue
<1>. QED  BY <1>2, <1>4, <1>5, <1>6 DEF PInv

LEMMA PlannerStep == PInv /\ [Next]_allvars => PInv'
<1>1. SUFFICES ASSUME PInv, [Next]_allvars PROVE PInv'
  OBVIOUS
<1>2. LInv'
  <2>1. [AnyNext]_vars /\ LInv
    BY <1>1, GreedyIsAPlanner DEF PInv
  <2>. QED  BY <2>1, LedgerStep, LedgerStutter DEF StepOK
<1>3. PTypes /\ NoneTwice /\ RestIsDue /\ LInv
  BY <1>1 DEF PInv
<1>4. CASE Plan
  <2>1. KeepsPlan
    BY <1>1, <1>4, PlanKeeps
  <2>2. /\ step' = StepNow /\ UNCHANGED <<macro, need, asked>> /\ making' = making
        /\ reserved' = [m |-> CostOf(walking', "m"), g |-> CostOf(walking', "g")]
    BY <1>4 DEF Plan, Open
  <2>3. reserved' \in [m : Int, g : Int]
    <3>1. walking' \in [Things -> Nat]
      BY <1>2 DEF LInv, LTypes
    <3>2. walking' \in [Things -> Int]
      BY <3>1
    <3>3. CostOf(walking', "m") \in Int /\ CostOf(walking', "g") \in Int
      BY <3>2, CostType
    <3>. QED  BY <2>2, <3>3
  <2>4. step' \in 0..Len(Opening)
    BY <1>1, <2>2, StepNowType
  <2>5. PTypes'
    BY <1>3, <2>2, <2>3, <2>4 DEF PTypes
  <2>. QED  BY <1>2, <2>1, <2>5 DEF PInv, KeepsPlan
<1>5. CASE Publish
  <2>1. KeepsPlan /\ \A t \in Things : making'[t] >= 0
    BY <1>1, <1>5, CarryKeeps DEF Publish
  <2>2. macro' \in [pending : [Things -> Nat], bases : Int, count : Int, target : Int,
                     expanding : BOOLEAN, next : BOOLEAN]
    <3>1. macro' = Macro(walking, bases)
      BY <1>5 DEF Publish
    <3>2. walking \in [Things -> Nat] /\ bases \in [walk : Nat, make : Nat, done : Nat]
      BY <1>3 DEF LInv, LTypes, NoneTwice, AtSites
    <3>. QED  BY <1>3, <3>1, <3>2, MacroType
  <2>3. UNCHANGED <<reserved, step, asked>>
    BY <1>5 DEF Publish
  <2>4. PTypes'
    BY <1>3, <2>1, <2>2, <2>3 DEF PTypes
  <2>. QED  BY <1>2, <2>1, <2>4 DEF PInv, KeepsPlan
<1>6. CASE Plays
  <2>1. KeepsPlan /\ \A t \in Things : making'[t] >= 0
    BY <1>1, <1>6, HappensKeeps DEF Plays
  <2>2. UNCHANGED <<macro, reserved, step, asked>>
    BY <1>6 DEF Plays, plans
  <2>3. PTypes'
    BY <1>3, <2>1, <2>2 DEF PTypes
  <2>. QED  BY <1>2, <2>1, <2>3 DEF PInv, KeepsPlan
<1>7. CASE Spends
  <2>1. KeepsPlan
    BY <1>1, <1>7, BuildKeeps, TrainKeeps, SingleKeeps DEF Spends, Spending
  <2>2. UNCHANGED <<macro, reserved, step, asked>>
    BY <1>7 DEF Spends, plans
  <2>3. making' = making
    BY <1>7 DEF Spends, Spending, Build, Train, Single, NextItem
  <2>4. PTypes'
    BY <1>3, <2>2, <2>3 DEF PTypes
  <2>. QED  BY <1>2, <2>1, <2>4 DEF PInv, KeepsPlan
<1>8. ASSUME NEW r \in Requests, Asks(r) PROVE PInv'
  <2>1. Alarm
    BY <1>8 DEF Asks
  <2>2. KeepsPlan /\ \A t \in Things : making'[t] >= 0
    BY <1>1, <2>1, HappensKeeps
  <2>3. UNCHANGED <<macro, reserved, step>> /\ asked' = asked \cup {r}
    BY <1>8 DEF Asks
  <2>4. PTypes'
    BY <1>3, <2>2, <2>3 DEF PTypes
  <2>. QED  BY <1>2, <2>2, <2>4 DEF PInv, KeepsPlan
<1>9. ASSUME UNCHANGED <<vars, macro, reserved, step>>, asked' \subseteq Requests PROVE PInv'
  <2>1. UNCHANGED <<own, making, walking, bases, issued, stage, plan, pos>>
    BY <1>9 DEF vars, game, ledger
  <2>2. NoneTwice'
    BY <1>3, <2>1 DEF NoneTwice, AtSites, AtBases, Besides
  <2>3. RestIsDue'
    BY <1>3, <2>1 DEF RestIsDue, Apart, Due
  <2>4. PTypes'
    BY <1>3, <1>9, <2>1 DEF PTypes
  <2>. QED  BY <1>2, <2>2, <2>3, <2>4 DEF PInv
<1>10. ASSUME NEW r \in Requests, Lapses(r) PROVE PInv'
  <2>1. UNCHANGED <<vars, macro, reserved, step>> /\ asked' = asked \ {r}
    BY <1>10 DEF Lapses
  <2>2. asked' \subseteq Requests
    BY <1>3, <2>1 DEF PTypes
  <2>. QED  BY <1>9, <2>1, <2>2
<1>11. CASE UNCHANGED allvars
  <2>1. UNCHANGED <<vars, macro, reserved, step>> /\ asked' = asked
    BY <1>11 DEF allvars, plans
  <2>2. asked' \subseteq Requests
    BY <1>3, <2>1 DEF PTypes
  <2>. QED  BY <1>9, <2>1, <2>2
<1>. QED  BY <1>1, <1>4, <1>5, <1>6, <1>7, <1>8, <1>10, <1>11 DEF Next

LEMMA PlannerInvariant == Spec => []PInv
  BY PlannerStart, PlannerStep, PTL DEF Spec

\* The greedy planner, with the opening, the requests of Crisis and the goal, is one of
\* the planners the ledger allows for (adjutant/components/planner.py; a plan is a list of
\* PlanItems, blackboard/sections.py): what holds of the ledger under any planner
\* holds of the two together.
THEOREM GreedyRefines == Spec => AnySpec
<1>1. InitAll => Init
  BY DEF InitAll
<1>. QED  BY <1>1, GreedyIsAPlanner, PlannerInvariant, PTL DEF Spec, AnySpec

\* So the money that is there for the jobs that walk stays there until they place,
\* whatever the greedy planner asks for next (Macro._reserved, Budget, Macro._build).
THEOREM GreedyKeepsJobsCovered == Spec => JobsStayCovered
  BY GreedyRefines, JobsAreCovered

\* "Planners count dispatched jobs through the macro section, so nothing is built twice"
\* (src/README.md:195-196): what stands, is built and is walked to is never more of a
\* thing than is asked for, although the opening counts only what it sees and the
\* planner's count of the jobs is a decision old; and no more halls than there are sites
\* walk to one, go up there or stand there.  What it does not say: when all halls are
\* lost one walks to a site and one besides (planner.py:276-291, executor.py:163), and
\* the halls for a base are not counted with the others.
THEOREM NothingIsTwice == Spec => []NothingTwice
<1>1. PInv => NothingTwice
  <2>1. SUFFICES ASSUME PInv PROVE NothingTwice
    OBVIOUS
  <2>2. AtBases <= Sites
    BY <2>1 DEF PInv, NoneTwice, AtSites
  <2>3. ASSUME NEW t \in Things \ Unbounded, IsBuilding(t) PROVE Besides(t) <= Wanted(t)
    <3>1. Besides(t) + issued[t] <= Wanted(t)
      BY <2>1, <2>3 DEF PInv, NoneTwice
    <3>2. Besides(t) \in Int /\ issued[t] \in Nat /\ Wanted(t) \in Nat
      BY <2>1, HaveType, WantedIsMost, BesidesType
    <3>. QED  BY <3>1, <3>2
  <2>. QED  BY <2>2, <2>3 DEF NothingTwice
<1>. QED  BY <1>1, PlannerInvariant, PTL
=============================================================================
