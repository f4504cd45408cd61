-------------------------------- MODULE Pool --------------------------------
(***************************************************************************)
(* The worker pool (adjutant/macro/workers.py) over the bases that the     *)
(* base tracker finds (adjutant/macro/bases.py: update): who mines what,   *)
(* and which gather commands that takes when the runner may cut them.      *)
(*                                                                         *)
(* Where things are is not followed: the nearest of several is any of      *)
(* them, and so is the first of a list.  A decision is the steps Begin,    *)
(* Gas, one Settle per worker, a Move or a Pass at a time for every pair   *)
(* of bases, and End, which publishes how many work where.                 *)
(***************************************************************************)
EXTENDS Integers, FiniteSets

CONSTANTS
    Workers, Patches, Refineries, Bases,
    BaseOf,         \* BWEM's base of a patch or refinery
    None, Idle,
    GasPerRefinery, \* GAS_PER_REFINERY
    PerPatch,       \* PER_PATCH
    Transfers,      \* TRANSFERS_PER_DECISION
    GasBank,        \* is there a gas_bank?
    MaxFaults       \* losses in a game (a bound)

VARIABLES
    hall,           \* our hall at a base: none, making or done
    patches,        \* the patches with minerals left
    refs,           \* our finished refineries
    order,          \* what a worker is doing: gathering at a place, or idle
    gas, mineral,   \* WorkerPool.gas, mineral
    per,            \* gas_per
    free,           \* the workers the pool may use
    turn,
    todo,           \* the workers that _minerals has not come to yet
    pairs,          \* the pairs of bases that the transfers have not come to yet
    moved,          \* transfers in this decision
    faults

game == <<hall, patches, refs, faults>>
pool == <<gas, mineral, per, free>>
vars == <<game, order, pool, turn, todo, pairs, moved>>

Done(b)  == hall[b] = "done"
Fields   == {p \in patches : Done(BaseOf[p])}
OnGas(r) == {w \in Workers : gas[w] = r}
Load(p)  == Cardinality({w \in Workers : mineral[w] = p})
FieldsOf(b) == {p \in Fields : BaseOf[p] = b}
MinersOf(b) == {w \in Workers : mineral[w] \in FieldsOf(b)}
BaseLoad(b) == Cardinality(MinersOf(b))
OverThree(b) == BaseLoad(b) - (PerPatch + 1) * Cardinality(FieldsOf(b))  \* mutant
Over(b)  == BaseLoad(b) - PerPatch * Cardinality(FieldsOf(b))
Mining   == {b \in Bases : FieldsOf(b) # {}}

Init ==
    /\ \E b \in Bases : hall = [c \in Bases |-> IF c = b THEN "done" ELSE "none"]
    /\ patches = Patches /\ refs = {} /\ order = [w \in Workers |-> Idle]
    /\ gas = [w \in Workers |-> None] /\ mineral = [w \in Workers |-> None]
    /\ per = GasPerRefinery /\ free = {} /\ turn = "game" /\ todo = {} /\ pairs = {}
    /\ moved = 0 /\ faults = 0

\* A gather command reaches the game, or the trim of the runner cuts it.
Gathers(w, at) == order' = [order EXCEPT ![w] = at] \/ UNCHANGED order

-----------------------------------------------------------------------------
(* A decision                                                              *)

\* update: whoever is leased away is forgotten; the hysteresis of gas_target.
Begin(F) ==
    /\ turn = "game" /\ turn' = "gas" /\ free' = F /\ todo' = F /\ moved' = 0
    /\ gas' = [w \in Workers |-> IF w \in F THEN gas[w] ELSE None]
    /\ mineral' = [w \in Workers |-> IF w \in F THEN mineral[w] ELSE None]
    /\ per' \in (IF GasBank THEN {0, GasPerRefinery} ELSE {GasPerRefinery})
    /\ UNCHANGED <<game, order, pairs>>

\* Who comes first gets a place: T of S, as many as there is room for.
Fills(T, S, room) ==
    T \subseteq S /\ Cardinality(T) = IF Cardinality(S) <= room THEN Cardinality(S) ELSE room

\* _gas: at each refinery of ours, up to the target, those stay who count there;
\* then those are adopted who gather there without counting, but they still count
\* as mining, too; then others are sent, one refinery after the other.
Usable == {r \in refs : Done(BaseOf[r])}
GasGoes(stay, adopted, added) ==
    LET at(r)   == stay[r] \cup adopted[r] \cup added[r]
        spare   == free \ UNION {stay[r] \cup adopted[r] : r \in Usable}
        room(r) == per - Cardinality(stay[r]) - Cardinality(adopted[r])
        short   == {r \in Usable : Cardinality(added[r]) < room(r)}
        new     == UNION {added[r] : r \in Usable}
    IN  /\ \A r \in Usable :
             /\ Fills(stay[r], {w \in free : gas[w] = r}, per)
             /\ Fills(adopted[r], {w \in free : order[w] = r /\ \A q \in Usable : w \notin stay[q]},
                      per - Cardinality(stay[r]))
             /\ added[r] \subseteq spare /\ Cardinality(added[r]) <= room(r)
             /\ \A q \in Usable \ {r} : at(q) \cap at(r) = {}
        /\ short # {} => new = spare /\ \E r \in short : \A q \in short \ {r} : added[q] = {}
        /\ gas' = [w \in Workers |->
                     IF \E r \in Usable : w \in at(r) THEN CHOOSE r \in Usable : w \in at(r) ELSE None]
        /\ mineral' = [w \in Workers |-> IF w \in new \/ mineral[w] \notin Fields THEN None ELSE mineral[w]]
        /\ \E lost \in SUBSET new :
             order' = [w \in Workers |-> IF w \in new \ lost THEN gas'[w] ELSE order[w]]
Gas ==
    /\ turn = "gas" /\ turn' = "minerals" /\ pairs' = Mining \X Mining
    /\ \E stay, adopted, added \in [Usable -> SUBSET free] : GasGoes(stay, adopted, added)
    /\ UNCHANGED <<game, per, free, todo, moved>>

\* assign: a patch with the least load at the nearest base that is not full, or at
\* the one that is least full.
LeastLoaded(b) == {p \in FieldsOf(b) : \A q \in FieldsOf(b) : Load(p) <= Load(q)}
Open == {b \in Mining : Over(b) < 0}
Emptiest ==
    {b \in Mining : \A c \in Mining :
        BaseLoad(b) * Cardinality(FieldsOf(c)) <= BaseLoad(c) * Cardinality(FieldsOf(b))}
Candidates == IF Open # {} THEN Open ELSE Emptiest
Assign(w, b) ==
    \E p \in LeastLoaded(b) : mineral' = [mineral EXCEPT ![w] = p] /\ Gathers(w, p)

\* _minerals: a worker that is not for gas keeps its patch, is sent back to it when it
\* does something else, or gets one.
Again(w) == order[w] \notin Patches
Settle(w) ==
    /\ turn = "minerals" /\ w \in todo /\ todo' = todo \ {w}
    /\ IF Fields = {} \/ gas[w] # None THEN UNCHANGED <<mineral, order>>
       ELSE IF mineral[w] # None
       THEN UNCHANGED mineral /\ IF Again(w) THEN Gathers(w, mineral[w]) ELSE UNCHANGED order
       ELSE \E b \in Candidates : Assign(w, b)
    /\ UNCHANGED <<game, gas, per, free, turn, pairs, moved>>

\* A few move from a base that is over its two per patch to one that is under:
\* the pairs are gone through once, each until one of the two is even.
Transferring == turn = "minerals" /\ todo = {}
Unbalanced(src, dst) == Over(src) > 0 /\ Over(dst) < 0
Move(src, dst) ==
    /\ Transferring /\ <<src, dst>> \in pairs /\ Unbalanced(src, dst)
    /\ moved < Transfers /\ moved' = moved + 1
    /\ \E w \in free : mineral[w] \in FieldsOf(src) /\ Assign(w, dst)
    /\ UNCHANGED <<game, gas, per, free, turn, todo, pairs>>
Pass(src, dst) ==
    /\ Transferring /\ <<src, dst>> \in pairs /\ pairs' = pairs \ {<<src, dst>>}
    /\ ~Unbalanced(src, dst) \/ moved = Transfers
    /\ UNCHANGED <<game, order, pool, turn, todo, moved>>
Published == Transferring /\ pairs = {}
End ==
    /\ Published /\ turn' = "game"
    /\ UNCHANGED <<game, order, pool, todo, pairs, moved>>

-----------------------------------------------------------------------------
(* The game, and bases.update, which sees what became of it                *)

Playing == turn = "game" /\ UNCHANGED <<pool, turn, todo, pairs, moved>>
Builds(b) ==
    /\ Playing /\ hall[b] = "none" /\ hall' = [hall EXCEPT ![b] = "making"]
    /\ UNCHANGED <<patches, refs, faults, order>>
Finished(b) ==
    /\ Playing /\ hall[b] = "making" /\ hall' = [hall EXCEPT ![b] = "done"]
    /\ UNCHANGED <<patches, refs, faults, order>>
Refines(r) ==
    /\ Playing /\ r \notin refs /\ Done(BaseOf[r]) /\ refs' = refs \cup {r}
    /\ UNCHANGED <<hall, patches, faults, order>>
Faulty == Playing /\ faults < MaxFaults /\ faults' = faults + 1
Gone(at) == order' = [w \in Workers |-> IF order[w] = at THEN Idle ELSE order[w]]
Razed(b) == Faulty /\ hall[b] # "none" /\ hall' = [hall EXCEPT ![b] = "none"] /\ UNCHANGED <<patches, refs, order>>
Empties(p) == Faulty /\ p \in patches /\ patches' = patches \ {p} /\ Gone(p) /\ UNCHANGED <<hall, refs>>
Loses(r) == Faulty /\ r \in refs /\ refs' = refs \ {r} /\ Gone(r) /\ UNCHANGED <<hall, patches>>
Strays(w) ==            \* attacked, displaced or let go elsewhere
    Faulty /\ order[w] # Idle /\ order' = [order EXCEPT ![w] = Idle] /\ UNCHANGED <<hall, patches, refs>>

Next ==
    \/ \E F \in SUBSET Workers : Begin(F)
    \/ Gas \/ End
    \/ \E w \in Workers : Settle(w) \/ Strays(w)
    \/ \E src, dst \in Bases : Move(src, dst) \/ Pass(src, dst)
    \/ \E b \in Bases : Builds(b) \/ Finished(b) \/ Razed(b)
    \/ \E r \in Refineries : Refines(r) \/ Loses(r)
    \/ \E p \in Patches : Empties(p)

\* Decisions go on, and a command that is given again and again gets through.
Obeyed(w) == Settle(w) /\ order'[w] = mineral'[w]
Spec ==
    /\ Init /\ [][Next]_vars
    /\ WF_vars(\E F \in SUBSET Workers : Begin(F)) /\ WF_vars(Gas) /\ WF_vars(End)
    /\ WF_vars(\E src, dst \in Bases : Move(src, dst) \/ Pass(src, dst))
    /\ \A w \in Workers : WF_vars(Settle(w)) /\ SF_vars(Obeyed(w))

-----------------------------------------------------------------------------
(* Properties                                                              *)

TypeOK ==
    /\ hall \in [Bases -> {"none", "making", "done"}] /\ patches \subseteq Patches /\ refs \subseteq Refineries
    /\ order \in [Workers -> Patches \cup Refineries \cup {Idle}]
    /\ gas \in [Workers -> Refineries \cup {None}] /\ mineral \in [Workers -> Patches \cup {None}]
    /\ free \subseteq Workers /\ todo \subseteq Workers /\ pairs \subseteq Bases \X Bases
    /\ moved \in 0..Transfers /\ faults \in 0..MaxFaults

\* What a decision publishes: every free worker counts at a refinery, one of its
\* share and at a base that stands, or at a patch of such a base if there is one;
\* nobody else counts; and no base is over its two per patch while another is
\* under, unless the decision has made all its transfers (workers.py:3-6).
SharedOut ==
    /\ \A w \in free : gas[w] # None \/ mineral[w] \in Fields \/ Mining = {}
    /\ \A w \in Workers : gas[w] # None => gas[w] \in Usable /\ Cardinality(OnGas(gas[w])) <= GasPerRefinery
    /\ \A w \in Workers \ free : gas[w] = None /\ mineral[w] = None
    /\ \A src, dst \in Mining :
         /\ Cardinality(MinersOf(src)) > PerPatch * Cardinality(FieldsOf(src))
         /\ Cardinality(MinersOf(dst)) < PerPatch * Cardinality(FieldsOf(dst))
         => moved = Transfers

\* A worker counts both as mining and at a refinery only from when it was found
\* gathering there while it counted as mining (workers.py:81-88).
Twice(w) == gas[w] # None /\ mineral[w] # None
CountsTwice(w) == ~Twice(w) /\ Twice(w)' => mineral[w] # None /\ gas'[w] = order[w]

Shared == [](Published => SharedOut) /\ [][\A w \in Workers : CountsTwice(w)]_vars

\* Nobody counts twice (violated: see Gas).
CountedOnce == \A w \in Workers : ~Twice(w)

\* "gather commands go out only for new assignments and idle workers"
\* (workers.py:9-10): a worker that counts as mining comes to mine, however many of its
\* commands are cut, unless the pool gives it something else to do.  (It may be at
\* another patch than it counts for: a transfer whose command was cut is not repeated.)
MinersMine ==
    \A w \in Workers :
        (mineral[w] # None /\ gas[w] = None) ~>
            (order[w] \in Patches \/ mineral[w] = None \/ gas[w] # None)

\* The same of a worker that counts as mining gas.
GasMined ==
    \A w \in Workers : \A r \in Refineries : gas[w] = r ~> (order[w] = r \/ gas[w] # r)
=============================================================================
