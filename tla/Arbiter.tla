------------------------------ MODULE Arbiter ------------------------------
(***************************************************************************)
(* Who commands which unit: the unit leases, the command bus and the       *)
(* runner's APM trim (blackboard/arbiter.py, the loop of Scheduler.run,    *)
(* bwbot/runner.py), over any number of decisions.                         *)
(*                                                                         *)
(* A decision starts with the observation and perception's sync of the     *)
(* leases; then components tick one at a time, each at most once, each     *)
(* leasing, releasing and commanding units as it likes and possibly dying  *)
(* of an exception between two calls; then the bus is flushed and the      *)
(* runner sends as many commands as the APM budget allows.  Leases outlive *)
(* the decision, commands do not.                                          *)
(*                                                                         *)
(* What a component wants is left open here: every call any of them can    *)
(* make is possible.  A slot is the owner of a component's leases and      *)
(* commands; a component's fallback fills the same slot.                   *)
(***************************************************************************)
EXTENDS Naturals, Sequences, FiniteSets, Functions

CONSTANTS
    Units,       \* ids of the bot's own units
    Slots,       \* the slots that command units
    None,        \* no lease, no slot
    CmdPrio,     \* a slot's Component.priority
    LeasePrios,  \* the priorities a slot leases with (scouting has a second one)
    MaxFrame,    \* the last frame (a bound)
    MaxCmds      \* unit commands per decision (a bound)

ASSUME NoneAssumption == None \notin Slots
ASSUME PriorityAssumption ==
    /\ CmdPrio \in [Slots -> Nat]
    /\ LeasePrios \in [Slots -> SUBSET Nat]
ASSUME BoundsAssumption == MaxFrame \in Nat /\ MaxCmds \in Nat

VARIABLES
    frame,     \* Observation.frame_count of the decision
    alive,     \* the units of the observation
    leases,    \* UnitLeases._leases
    phase,     \* "idle" between decisions, "ticks" in Scheduler.run, "flushed" after it
    running,   \* the slot whose component ticks
    todo,      \* the slots whose component has not ticked in this decision
    cmds,      \* Actions.unit_cmds as the components fill it
    out        \* Actions.unit_cmds as flush, and then the runner, leave it

vars == <<frame, alive, leases, phase, running, todo, cmds, out>>

NoLease == [owner |-> None, prio |-> 0, since |-> 0]
Lease   == [owner : Slots, prio : Nat, since : Nat]
Command == [unit : Units, owner : Slots, prio : Nat, seq : Nat]

-----------------------------------------------------------------------------
(* UnitLeases                                                              *)

Owner(u) == leases[u].owner
Free(u)  == Owner(u) = None
Owned(s) == {u \in Units : Owner(u) = s}

\* lease(): may s have u at priority p?  The tie goes to the holder.
CanLease(s, u, p) ==
    \/ Free(u)
    \/ Owner(u) = s
    \/ leases[u].prio < p

\* The lease s gets: a renewal keeps `since`.
Granted(s, u, p) ==
    [owner |-> s, prio |-> p, since |-> IF Owner(u) = s THEN leases[u].since ELSE frame]

\* hold(): lease what can be had of ids, give back whatever else s owns.
HeldOthersToo(s, ids, p) == [u \in Units |->                           \* mutant
    CASE u \in ids /\ CanLease(s, u, p) -> Granted(s, u, p)
      [] OTHER -> NoLease]
Held(s, ids, p) == [u \in Units |->
    CASE u \in ids /\ CanLease(s, u, p) -> Granted(s, u, p)
      [] Owner(u) = s /\ ~(u \in ids /\ CanLease(s, u, p)) -> NoLease
      [] OTHER -> leases[u]]

\* allowed(): may s, whose commands have priority p, command u?
AllowedAlways(s, u, p) == TRUE                                         \* mutant
Allowed(s, u, p) == Free(u) \/ Owner(u) = s \/ leases[u].prio < p

-----------------------------------------------------------------------------
(* CommandBus.flush                                                        *)

\* Does the i-th command come before the j-th: more important, or as important
\* and issued no later?
Before(cs, i, j) ==
    \/ cs[i].prio > cs[j].prio
    \/ cs[i].prio = cs[j].prio /\ i <= j

\* Where the i-th command comes among those of K.
Rank(cs, K, i) == Cardinality({j \in K : Before(cs, j, i)})

\* The commands of K by priority, in the order they were issued (list.sort is stable).
ByPriority(cs, K) ==
    [k \in 1..Cardinality(K) |-> cs[CHOOSE i \in K : Rank(cs, K, i) = k]]

\* The owner of the first of the most important commands for a unit commands it.
ForUnit(cs, u) == {i \in DOMAIN cs : cs[i].unit = u}
Winner(cs, u) ==
    cs[CHOOSE i \in ForUnit(cs, u) : \A j \in ForUnit(cs, u) : Before(cs, i, j)].owner

Kept(cs) == {i \in DOMAIN cs : cs[i].owner = Winner(cs, cs[i].unit)}

FlushedUnsorted(cs) == SelectSeq(cs, LAMBDA c : c.owner = Winner(cs, c.unit))  \* mutant
FlushedUnarbitrated(cs) == ByPriority(cs, DOMAIN cs)                   \* mutant
Flushed(cs) == ByPriority(cs, Kept(cs))

-----------------------------------------------------------------------------
(* A decision                                                              *)

Init ==
    /\ frame = 0 /\ alive = Units
    /\ leases = [u \in Units |-> NoLease]
    /\ phase = "idle" /\ running = None /\ todo = {}
    /\ cmds = <<>> /\ out = <<>>

\* Perception.tick's sync, unless perception raised before it.
Synced(mine) == [u \in Units |-> IF u \in mine THEN leases[u] ELSE NoLease]

\* Actions.clear, begin_decision and the SENSE phase.  The frame count of a
\* paused game does not move.
Begin ==
    /\ phase = "idle" /\ phase' = "ticks"
    /\ frame' \in {f \in {frame, frame + 1} : f <= MaxFrame}
    /\ alive' \in SUBSET alive
    /\ leases' \in {Synced(alive'), leases}
    /\ cmds' = <<>> /\ out' = <<>> /\ todo' = Slots
    /\ UNCHANGED running

\* Scheduler.run comes to a component that is due.
TickStarts(s) ==
    /\ phase = "ticks" /\ running = None /\ s \in todo
    /\ running' = s /\ todo' = todo \ {s}
    /\ UNCHANGED <<frame, alive, leases, phase, cmds, out>>

\* UnitLeases.lease, when it returns True.
LeaseUnit(s, u, p) ==
    /\ running = s
    /\ CanLease(s, u, p)
    /\ leases' = [leases EXCEPT ![u] = Granted(s, u, p)]
    /\ UNCHANGED <<frame, alive, phase, running, todo, cmds, out>>

\* UnitLeases.release(u, s): nothing happens unless s is the owner.
ReleaseUnit(s, u) ==
    /\ running = s
    /\ Owner(u) = s
    /\ leases' = [leases EXCEPT ![u] = NoLease]
    /\ UNCHANGED <<frame, alive, phase, running, todo, cmds, out>>

\* UnitLeases.hold(s, ids, p).
HoldUnits(s, ids, p) ==
    /\ running = s
    /\ leases' = Held(s, ids, p)
    /\ UNCHANGED <<frame, alive, phase, running, todo, cmds, out>>

\* ScopedActions.command, when it is not dropped: the command carries the
\* slot, its priority and the bus's next sequence number.
CommandUnit(s, u) ==
    /\ running = s
    /\ Allowed(s, u, CmdPrio[s])
    /\ Len(cmds) < MaxCmds
    /\ cmds' = Append(cmds, [unit |-> u, owner |-> s, prio |-> CmdPrio[s], seq |-> Len(cmds)])
    /\ UNCHANGED <<frame, alive, leases, phase, running, todo, out>>

\* tick returns or raises.
TickEnds ==
    /\ running # None /\ running' = None
    /\ UNCHANGED <<frame, alive, leases, phase, todo, cmds, out>>

\* The end of Scheduler.run; whoever has not ticked was not due.
Flush ==
    /\ phase = "ticks" /\ running = None
    /\ phase' = "flushed" /\ out' = Flushed(cmds)
    /\ UNCHANGED <<frame, alive, leases, running, todo, cmds>>

\* runner._play_one keeps as many commands as commands_allowed says, at least one.
Send ==
    /\ phase = "flushed" /\ phase' = "idle"
    /\ \/ UNCHANGED out                               \* no budget, or room enough
       \/ \E allowed \in 1..Len(out) : out' = SubSeq(out, 1, allowed)
    /\ UNCHANGED <<frame, alive, leases, running, todo, cmds>>

Calls(s) ==
    \/ TickStarts(s)
    \/ \E u \in Units : ReleaseUnit(s, u) \/ CommandUnit(s, u)
    \/ \E u \in Units, p \in LeasePrios[s] : LeaseUnit(s, u, p)
    \/ \E ids \in SUBSET Units, p \in LeasePrios[s] : HoldUnits(s, ids, p)

Next ==
    \/ Begin
    \/ \E s \in Slots : Calls(s)
    \/ TickEnds
    \/ Flush
    \/ Send

Spec == Init /\ [][Next]_vars

-----------------------------------------------------------------------------
(* Properties                                                              *)

\* Every variable has its type; only a decision that runs has a component in it.
TypeOK ==
    /\ frame \in Nat /\ alive \subseteq Units
    /\ leases \in [Units -> Lease \cup {NoLease}]
    /\ phase \in {"idle", "ticks", "flushed"}
    /\ running \in Slots \cup {None} /\ (running # None => phase = "ticks")
    /\ todo \subseteq Slots
    /\ cmds \in Seq(Command) /\ out \in Seq(Command)

\* A lease that was there before this decision's frame shields its unit for
\* the whole decision: whatever other slots did before and after, whichever
\* of them lost it a unit or raised an exception, no command for that unit is
\* queued but its owner's own and those more important than the owner's claim
\* (ScopedActions.command against UnitLeases over a decision).
Shielded(c) ==
    LET l == leases[c.unit]
    IN  l.owner # None /\ l.since < frame =>
          \/ c.owner = l.owner
          \/ \E p \in LeasePrios[l.owner] : p < c.prio
LeasesShieldUnits == \A i \in DOMAIN cmds : Shielded(cmds[i])

\* A lease leaves its owner only by the owner's own hand, to a strictly higher
\* bid, or with its unit, and a step touches the leases of one bidder only
\* (UnitLeases.lease, release, hold, sync).
MayLose(u) ==
    \/ leases'[u].owner = leases[u].owner
    \/ running = leases[u].owner
    \/ leases'[u].owner = running /\ leases'[u].prio > leases[u].prio
    \/ u \notin alive'
NoSeizure == [][\A u \in Units : ~Free(u) => MayLose(u)]_vars

\* Flushing leaves every commanded unit with one master, the most important
\* bidder and the first among equals, and that master's commands for it in the
\* order given, so a queued chain of orders stays a chain (CommandBus.flush).
OneMaster(u) ==
    LET asked == {c \in Range(cmds) : c.unit = u}
        got   == {c \in Range(out) : c.unit = u}
    IN  /\ \E top \in got :
              /\ got = {c \in asked : c.owner = top.owner}
              /\ \A c \in asked : c.prio < top.prio \/ (c.prio = top.prio /\ top.seq <= c.seq)
        /\ \A i, j \in DOMAIN out :
              i < j /\ out[i].unit = u /\ out[j].unit = u => out[i].seq < out[j].seq
FlushArbitrates ==
    phase = "flushed" => \A u \in {c.unit : c \in Range(cmds)} : OneMaster(u)

\* Whatever the APM budget cuts, it never cuts a command more important than
\* one it sends, and it never sends nothing when there is something to send
\* (flush's sort with the runner's trim).
TrimSparesTheImportant ==
    [][phase = "flushed" /\ phase' = "idle" =>
        /\ \A cut \in Range(out) \ Range(out'), kept \in Range(out') : cut.prio <= kept.prio
        /\ cmds # <<>> => out' # <<>>]_vars
=============================================================================
