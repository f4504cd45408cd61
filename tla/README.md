# starcraft-ai in TLA+

A specification of this repository's own logic: the lockstep link between StarCraft and the Python bot,
the blackboard (scheduler, arbiters, recorder), the bot's components (perception and belief, strategy and
crisis, planner and build search, macro, workers, scouts, squads, micro), the way of a command into the
game, and the two harnesses that play matches. TLC checks the modules on small instances; TLAPS proves what
it found to hold of the link, the commands, the leases, the workers, the scheduler, the log files, the
building jobs, the money, the posture, the belief and both harnesses for every instance. Paths below are
relative to the repository's root (`src/` in `PROJECT.json`).

## The system

    StarCraft --callbacks--> shim (C++) <==TCP, one message at a time==> client/runner (Python)
                                                                             | on_start / on_frame / on_end
                                                                       BlackboardBot
                                                         Scheduler -> components -> CommandBus -> runner's trim
                                                                             | sections, events, leases, requests
                                       perception, belief, engagement, crisis, strategy, planner, tactics, macro,
                                       worker_defense, scouting, repair, micro, report

| Component | State | Operations | Talks to | Hard behaviour | Correct means | Module |
|---|---|---|---|---|---|---|
| Shim: `shim/src/Bridge.cpp`, `Transport.cpp`, `main_*.cpp` | peer, listening socket, frame skip, pending events, placement answers | onStart, onFrame, onEnd, onEvent, ensureConnected, handshake, exchangeFrame | game by callbacks, bot by TCP | crashes on both sides, half-open peers, exceptions swallowed, accept failing, two host modes | lockstep; no event or answer lost, doubled or misdelivered in a session; matches end | `ShimLink`, `Lockstep` |
| Client, runner: `python/bwbot/client.py`, `runner.py` | socket, game, pending Hello, games played | connect, wait_for_game, next_frame, send_*, run, _play_one | shim by TCP, bot by calls | Hello mid-match, stale GameEnd, reconnects | plays only the match that runs, gets into the next one | `ShimLink` |
| Commands, APM meter: `bwbot/commands.py`, `apm.py`, `shim/src/CommandApplier.cpp` | the batch, the sliding window, the overlay | the methods of Actions, record, commands_allowed, apply, draw | bot, runner, game | numbers that mean different things per command, window boundary | a command does what was said; a minute stays within the budget | `Commands` |
| Leases and command bus: `blackboard/arbiter.py` | leases, queued commands | lease, release, hold, sync, command, flush | all components | ownership changing inside a decision, exceptions between calls | one master per unit; nobody seizes a unit | `Arbiter` |
| Requests: `arbiter.py` | queue | post, withdraw, expire | crisis, planner, macro, worker_defense | keys shared by posts of different detectors, expiry boundary | a request outlives its cause by its time to live only | `Stance`, `Planner` |
| Scheduler, events: `blackboard/scheduler.py`, `board.py` | order, last ticks, failure and overrun counts, events | start, run, _fail, _replace, begin_decision | components | deferral, periods, fallbacks, event hand-over | triggers arrive; the faulty and only the faulty are replaced | `Scheduler` |
| Recorder, datasets, fight log: `blackboard/recorder.py`, `datasets.py`, `components/engagement.py` | one game's file, open fights | start, record, finish, observe, destroyed, close, read | components, training | lost games, pinned game ids, torn lines, a unit in two fights | finished games are whole and their fights' losses true | `GameLog` |
| Macro's plan and money: `adjutant/macro/executor.py` | budget, reservations, jobs, the macro section | tick, item by item | planner, game, jobs | order of spending, holds, money of walking builders | nothing spends what something more important saves for, and nothing starves | `Ledger` |
| Building jobs: `macro/jobs.py`, `executor.py`, `placement.py` | jobs, reserved and failed tiles | step, retry, cancel, dispatch, claim | game, leases, planner, shim | builders dying or leased away, refused orders, orders in flight, shared sites | no shared builder, no leaked lease or tile, no orphaned structure | `BuildJobs` |
| Worker pool: `macro/workers.py` | gas and mineral assignment | update | macro, game | workers leaving and returning, two dictionaries moved by hand | every free worker works, no refinery over its share | `Pool` |
| Base tracker, expansions: `macro/bases.py`, `executor.py`, `sections.py` | base marks, the macro section's base count | update, mark_*, next_base, the expand items | planner, jobs, belief | a count a decision old, marks that expire, sites that fail unseen | gets to its number of bases whatever is in the way | `Expansion` |
| Perception, belief: `components/perception.py`, `belief.py`, `enemy.py` | fog memory, tracks, start candidates | tick | game, all | fog, partial sight, two memories of the same units | never rules out the enemy's true start | `Belief` |
| Strategy, crisis: `components/strategy.py`, `crisis.py`, `strategies/` | template, opening, posture, override | choose, switch, apply, detect, post | planner, tactics | hysteresis against overrides | no attack during a crisis, an override ends | `Stance` |
| Planner: `components/planner.py`, `techtree.py` | the plan | tick | strategy, macro, requests | counts of two decisions added up | asks for nothing twice, gets to the goal | `Planner` |
| Build search: `search_planner.py`, `buildsearch.py`, `econsim.py` | the last plan | when, do, search, emit | macro | a simulator beside the game, a deadline, old plans | `when` is the first moment; the target is reached | `EconSim`, `BuildSearch` |
| Unit control: `components/tactics.py`, `scouting.py`, `repair.py`, `crisis.py` | squads, scouts, pulled workers | tick | leases | remembered units that changed hands | builders are left alone, borrowed units come back | `UnitControl` |
| Micro: `components/micro.py` | last commands | tick | bus | commands lost after they were remembered | a tank follows its squad | `Micro` |
| Learning: `learn/`, `blackboard/models.py`, `train.py`, `components/rl_micro.py` | weights | fit, predict | recorder | numerics | - | - |
| Self-play: `harness/selfplay.py`, `brain.py` | free slots, a match's processes, result files, results.jsonl | play, run, _stop, judge, _result, on_end | shim, brains, processes | kills, timeouts, slots reused, crashes at any point | a row for every match, no clash between matches, a true verdict | `SelfPlay` |
| Bot matches: `harness/botmatch.py`, `winematch.py` | slots, launch lock, InstallPath, processes | play, launch, stop, main | Windows or Wine, StarCraft | processes told apart by who was there before, one registry value for all | no game kills another's StarCraft; everything is given back | `BotMatch` |

`PROJECT.json` lists every component with its status and, under `hazards`, what can go wrong at which
line with the properties that would notice.

## Modules

One module per component, with the code's names where TLA+ allows. Modules that are small and touch nothing
of each other are checked in one run: `which` (chosen in the initial state) names the one a behaviour runs,
and the others stand still in their initial state. The state space is the sum of the parts', and a property
of one part is trivially kept by the behaviours of the others. Fairness is guarded with `which` for the same
reason. Where the parts are proved about together, the composition is a module of its own with its constants'
assumptions: `Orders` (Arbiter, Commands, Pool), `Harness` (SelfPlay, BotMatch), `Adjutant` (UnitControl,
Belief, Micro); the MC module that extends it only gives values. `MCDecisions` extends Scheduler and GameLog
side by side, `MCEconomy` composes Planner, Expansion and BuildSearch.

The composition of components that do interact is inside the modules: `ShimLink` (shim, bot and game),
`Planner` over `Ledger` (planner, macro and game), `Expansion` (planner, macro, base tracker and game),
`BuildSearch` over `EconSim`, `Stance` (crisis, strategy, tactics), `UnitControl` (six components and the
leases), `Commands` (bot, runner, applier, game), `BuildJobs` (jobs, placer, pool, game). `Lists` has what is
left of a list when some elements are dropped, which is what a Python comprehension with an `if` computes.

### ShimLink, Lockstep (run `shim_link`; `ShimLinkProofs`)

`ShimLink` has the two threads as program counters (`shim`, `bot`) and a connection as a pair of FIFO
channels with an open flag per end. A blocking call is a pair of program states: `MatchStart` and
`OnFrame` lead to "accept" when there is no peer, `Accept` is `waitForPeer` together with the Hello that
`handshake` sends, `RecvConfig` the rest of the handshake, `ExchangeFrame` and `RecvCommands` the two
halves of `exchangeFrame`. `after` remembers which callback `ensureConnected` will return to, as the
call stack does. A send succeeds (into the other end, or into the void if that end is closed) or, once
the other end is closed, fails and closes the peer. On the bot's side `BotWaits` is `wait_for_game`,
`BotReads` is `next_frame` with what `_play_one` makes of its result, `NextMatch` the pending Hello,
`Reconnect` the outer loop of `run`.

External: the operating system's sockets (a listen queue of one), the game (frames advance when a
callback returns, it may pause, end or die), and crashes of the bot. In module mode the death of the
game closes all its sockets; in client mode the shim is another process and keeps them.

A BWAPI stub may throw in module mode, where `guard` swallows it (main_module.cpp:84-85, 107-113).
`thrown` records that for the properties which do not hold afterwards, because a guarded exception can
leave the bot waiting for a message that will never be sent; the code promises nothing there.
`DecisionThrows` is the stub in `applyConfig` that throws in the middle of a decision (Bridge.cpp:243-246):
the callback ends with the decision unanswered and the connection open, the Commands that the bot still
sends are read as the answer to the next decision, and so on for as long as the connection lasts. `adrift`
has these connections (a history variable). A bot may send a ClientConfig while it thinks, one at a time
and only while nothing is on its way to it (a bound).

`AnswersAreMine` says whose placement answers a bot may read. Only `onStart` resets them, so a bot that
reconnects in mid-match finds those to the queries of the bot before it in its first Frame, under ids it
will use itself; the property allows that and nothing else.

`Lockstep` is what the game sees: a decision is asked for the current frame and answered by the Commands
for that very frame, or given up; frames advance only when no decision is open. After a decision that was
abandoned while its bot still thinks (`Abandon`), and until the connection is closed, the answer may be any
decision's. ShimLink implements it with `asked <- (shim = "commands")` and `adrift <- (peer \in adrift)`
(property `LockstepSpec`). `EventsContiguous` has no such exception: events are neither lost nor doubled
then.

### Arbiter (run `orders`; `OrdersProofs`)

Leases and the frame's command list over any number of decisions. A component's tick is a sequence of
arbitrary calls (`LeaseUnit`, `ReleaseUnit`, `HoldUnits`, `CommandUnit`) between `TickStarts` and
`TickEnds`; `TickEnds` covers a tick that raised. `Begin` is the new observation with perception's `sync`
(which is missing when perception raised first), `Flush` the command bus, `Send` the runner's APM trim
(any number of commands from one up, as `commands_allowed` gives). `lease` that returns False, `release`
by somebody else and a dropped command change nothing and are left out. Sorting is stable, so
`ByPriority` orders by priority, then by position.

### Scheduler (run `decisions`; `DecisionsProofs`)

Slots in the order the components run; `Tick`, `Skip`, `Defer` are the three ways through the loop of
`Scheduler.run`; `Fails`, `Overruns`, `Replaced` are `_fail`, the time check and `_replace` as functions of
a slot's component and counters, applied in the code's order, the quirk included that the time check
looks at the component that ticked even if it has just been replaced. Wall-clock time is left open: any
tick may overrun and any due, deferrable turn may find the budget spent, after which it stays spent.
Ghost variables `turn`, `owed`, `failed`, `overran` say independently of the code's counters what
happened. `ChainsAssumption` is what `build_component` builds: a fallback is made for the slot of the
component it stands behind, and only once, so every component has a slot and a rank in its chain; its
part `SameSlot` is what `validate` checks before anything runs.

### BuildJobs (run `build_jobs`; `BuildJobsProofs`)

A tick of the macro executor is the stages "step" (one action per outcome of a job's turn), "plan" (`Cancel`
has been applied, `Dispatch` any number of times) and `CloseTick` (the hold and the worker pool's gather for
who is left). Between ticks the game moves: workers walk, receive or lose their command, build, die;
structures appear, finish, are destroyed; sites are blocked and freed; another slot leases a worker. Sites,
distances and money are abstract: a worker is at a site or away, money is a number of structures that can be
paid. The timeout of the walk depends on distances and may strike whenever the builder has not arrived; the
timeout at the site counts decisions. `Placed` is the code's search for an unfinished structure that no
other job claims, `KeepBuilder` is Terran's SCV replacement, `Retried` is `_retry`.

A job's retry of an exact site, the placer's reservations and failures, the two death counts and the
order of `step`'s checks are as in the code. Left out: the money held by walking jobs, prerequisites, the
early dispatch rule, power fields, `base_id` bookkeeping (they decide whether a job starts, never what
becomes of it). `ExactAssumption` says that a given site (a base's hall tile, a geyser) is one type's.
`Pulled` lets another slot lease a builder: the shipped `WorkerDefense` spares builders,
but `_step_jobs` is written for it and `tests/test_macro.py` does it.

### SelfPlay (runs `harness`, `self_play_rows`; `HarnessProofs`)

`harness/selfplay.py` with `harness/brain.py`. A match goes through `Start` (`play` takes a slot,
`Match.run` starts two launchers and two brains), `Watched` (the loop's end: both brains have exited, or
the deadline), `Terminate` and `Kill` (the two halves of `_stop`, with five seconds between them),
`Finish` (`_result` with `judge`, and the slot given back) while the main thread's `Collect` takes what
is complete. The executor's threads start matches in the order they were submitted. Meanwhile the two
launchers meet, brains connect to whatever listens on their port, decide, leave at the frame limit,
write their result in two steps and exit; a side may be eliminated or dropped. A brain that loses its
connection searches again (`runner.run` with its reconnect), a launcher that got a SIGKILL goes at
some later time, and until then its port is taken. External: the game over the LAN socket, processes
dying. When a match is finished its files and counters are forgotten, its processes are not.

The frames are those of decisions, so two sides are never further apart than one decision; `Margin`
stands for the 48 frames of `judge`, `MaxFrames` for `--max-frames`.

### UnitControl (run `units`; `AdjutantProofs`)

Which component has which unit. A decision is a stage per component: `Sense` (the observation with the
deaths, perception's sync of the leases), `Tactics`, `Macro`, `WorkerDefense`, `WorkerScout`, `Rescout`,
`Repair`, `Micro`, `Flush`. Each reads its memory of the last decision (`pulled`, `scout`, `rescouter`,
`scv`, `squads`, `builders`), which may name units that died or that another slot took meanwhile. A lease is
known by its purpose, and `Owner` and `LeasePrio` give it a slot and a priority. `faults` counts deaths and
the ticks that raise and are caught by the scheduler. Such a tick keeps what it has done so far
(`Raises`): tactics may have a new repair squad and the old others, macro may have dropped, cancelled and
claimed jobs without the hold that makes its leases theirs, worker_defense may have chosen or let off
workers without leasing or releasing them. The other components lease and remember in one go, so that what
they leave behind is nothing or a whole tick. `broken` names macro and worker_defense while their last tick
raised (a history variable). Which unit is nearest and which fights there are is left open.

### Stance (run `stance`; `AdjutantProofs`)

A decision is `Crisis`, `Strategy`, `Tactics`, `Passes` (the clock) or `Pauses` (the frame stands still).
`Crisis` is every detector as what it sees, the override and the requests it posts; `Strategy` chooses,
switches after a hysteresis, blends, applies goal, posture and override, and follows the opening;
`Tactics` is the main squad's order with the push's memory, the learned choice's and the retreat's clock.
Clocks are kept as the decisions left of them. A fight's estimate is losing, even or winning; a learned
model's choice is any. The strategy slot comes in five variants, each with an operator for what it may
choose: `RuleChoices`, `FixedChoices`, `ExploreChoices` and, for select and blend, `LearnedChoices`. Its
`StanceInit`, `StanceNext`, `MainOrder` and the like are named so that one module can extend it and Adjutant.

### Ledger, Planner (runs `economy`, `economy_hold`; `LedgerProofs`)

`Ledger` is the money half of the executor: `Open` (cancels, then what is left of money after the
reservations of walking jobs), one of `Build`, `Train`, `Single` per item of the plan, `Carry` for the end
of the tick and its orders. `Budget` is `Can`, `Spend`, `Hold`. Jobs are counted by what they build, since
`BuildJobs` has their lives. Between the ticks the game mines, completes, places and loses things.
The ledger alone runs under any planner (`AnySpec`): a plan is then any list of items, and anything may be
cancelled.
`Planner` extends it by the greedy planner's whole tick: `Tick` takes a list through the stages of
`GreedyPlanner.tick`, each an operator (`Asked`, `Opens`, `WorkersWanted`, `Addons`, `Chain`, `Expands`,
`Buildings`, `Techs`, `GasSink`, `ArmyAndFiller`), with `TechTree.missing` (followed up to the code's depth) and
`Opening.next_build`; `PlanOf` sorts it by priority, what was added first before its equals. Loops are
recursive functions over their rounds. `PlannerAssumption` says what `validate_goal` and `validate_template`
let through, that no addon is in an opening (none is, in the builds there are), and what Crisis asks for. The planner counts what stands in this observation and what walks in the macro
section of the last decision, as the code does.

Halls are counted twice over: with all other things, and in `bases` those that walk to, go up at or stand at
the site of a base. Only an expand item is for a base, only walking jobs that have one keep another from
being sent (`AlreadyWalks`, executor.py:163), and only what stands or goes up there makes a base taken
(`NoPlace`). `Macro` publishes what the planner reads of it: our bases, `base_count` (with the first
expansion in flight), whether there is one and whether there is another base to go to. When all halls are
lost, the chain of prerequisites asks for a hall to build and the goal for one to expand (planner.py:276-291),
and both get a builder, in one decision if the money is there; `NothingTwice` counts them apart, those at
bases against the sites, the others against what asks for them.

### Expansion (runs `economy`, `expansion_count`)

Where and when the bot expands. A decision is `Plan` (the planner counts the bases in the macro section of
the last decision, first job's site included if no hall stands there yet), `Steps` (the tracker's marks run
down, each expansion's job gets an outcome, failures are marked, walking jobs are cancelled in a crisis) and
`Goes` or `Stays` (the expand item: `NextBase` unless somebody walks already, and the section published at
the end). What `JobRunner` does to a job is reduced to its outcomes; a job for a base in `Hopeless`, which
something unseen holds, can only fail. Between decisions halls appear, are finished and razed, bases run out
of minerals, and the belief takes some for the enemy's. The order of `Sites` is the order of their scores,
which the code computes once per game apart from the enemy's distance.

### EconSim, BuildSearch (runs `economy`, `sim_slots`)

`EconSim` is the simulator: `When` (the first frame at which something can start), `Advance`, `Do`,
`Complete`, `FromGame`, with integer rates. `BuildSearch` is the search over it (candidates, rollouts,
scoring, one and two forced steps ahead, cut short by the deadline after any number) and
`SearchPlanner`: the decision whether the last plan is too old, the game as `from_game` and `_search` see it
(`Seen`: builders on their way are counted as miners and as if they had just left, nobody is known to come
back from one), the target from the strategy's goal (`TargetOf`), and `_emit` (`Emitted`: requests, urgent or
of the lowest priority, the supply provider when `NeedSupply`, what the plan starts soon, each thing once).
`Executed` is what the executor makes of these items: `Open` (an idle producer, a builder, no job of the kind
on its way, a geyser left), `GasBlocked`, `Starts` (with the early dispatch), `HoldFor`, which keeps money from
the later items, once per item. `live` is the game, with the money that is not reserved. What the model
idealises is the game: a thing takes the time the simulator thinks, and the workers mine at its rates.
Requests that lack a requirement, cancels and the fallback to the greedy planner are left out. All are pure
operators of the one variable `live` and of what the planner keeps.

### Pool (run `orders`; `OrdersProofs`)

The worker pool over the bases: a decision is `Begin` (which workers are free), `Gas` (who stays at each
refinery, who is adopted because it gathers there without counting, who is sent), `Settle` per worker, `Move`
(a transfer) and `Pass` over the pairs of bases, each gone through once until one of the two is even, `End`;
the game changes halls, patches, refineries and workers' orders in between, and the runner's trim may cut any
command (then the worker's order stays as it was while the pool believes otherwise). Which patch, base or
worker is nearest is left open. `Shared` is said of what is counted when the decision ends (`Published`). It
allows a worker to count both as mining and at a refinery, since the code does not take an adopted worker from
its patch, but only from the moment it is adopted; such a worker is in `miners` and `gassers` of the macro
section both, and may even be transferred to another patch.

### Commands (run `orders`; `OrdersProofs`)

A bot's call becomes a command record (`Command`), is encoded with defaults left out (`Encoded`, `Decoded`),
cut by the APM meter (`CommandsAllowed`, `Record` with the sliding window), switched by number into a
BWAPI call (`ApplyUnitCommand`), while the overlay is drawn again on the frames between decisions. The
meter's window, a deque of pairs in the code, is a function from the frames that are still in it to what was
sent on them, and `sum` is kept beside it by hand as there.

### Belief (run `units`; `AdjutantProofs`)

The enemy as it is (`world`) beside what the bot believes: perception's fog filter, `FogMemory` (`seen`),
`ScriptedBelief` (`tracks`, `alive` bases, start `candidates`). Enemies appear, walk, morph and die, in
sight or not; a decision sees any set of sites.

### Micro (run `units`)

The scripted micro of a decision: per unit at most one command (`UnitTurn`: `Siege`, `Kite`, `Retreats`,
`Walks`, `Attacks`), sorted by urgency, cut at `MaxCmds`, throttled by the memory of what was sent; what was
sent may be lost afterwards. The tank's siege mode follows the commands that were heard.

### GameLog (run `decisions`; `DecisionsProofs`)

One process with one recorder over several games: `Boots`, `GameStarts`, `OnFrame`, `OnEnd`, `Disconnects`
(the runner goes on, `on_end` is skipped), `Crashes` (a last line may be torn). `PinnedFile` is the one that
`BWBOT_GAME_ID` names, each other game has a file of its own. A file is a sequence of lines. The fight log
takes the deaths (`Struck`), observes the clusters in contact one after the other, place by place (`Seen`: each
joins the first fight it is near to or begins one), and closes fights (`CloseDue`). `IterGames` is what a
trainer gets from the disk. `LogInit`, `RowDue`, `nextFid` and the like leave Scheduler's names free.

### BotMatch (run `harness`; `HarnessProofs`)

`botmatch.py` on Windows and `winematch.py` under Wine (`wine`): a game takes a slot, writes both its
folders anew, starts two StarCrafts, waits for its brain or the deadline, kills what it started and returns a
row; main collects, cancels what is queued after a failure, and restores InstallPath. On Windows a start is
`Launch` under `LAUNCH_LOCK`: InstallPath, the snapshot `before`, and `Sees`, which takes whatever was not
in the snapshot for its own. Under Wine it is `Spawn`, which knows its process and waits for nothing.

`GivesUp` is the end of `launch`'s 20 seconds, whatever its StarCraft does (botmatch.py:297-303). One that is
merely slow runs on and is in nobody's pids, as is one that shows up while the launch takes another's for it;
`missed` has these (a history variable). The properties say how far that goes: a missed StarCraft may be taken
for its own by a later launch, reads whatever InstallPath says by then and keeps the folders of its slot in use,
so that a later game's `prepare_instance` fails (`TakeFails`) and the queue is cancelled; but no other StarCraft
is ever taken by the wrong game or misread, and at the end of the run only missed ones that no later launch took
are left (`RunEnds`).

## Runs

| Run | Instance | Distinct states | Shows |
|---|---|---|---|
| `shim_link` | both modes, 2 connection slots, 2 match numbers, frames 0 and 1, 2 events, 2 faults, frame skips 0 (clamped) and 2 | 1,786,506 | `EventsContiguous`, `AnswersAreMine`, `NoMutualWait`, `LockstepSpec`, `MatchesEnd`, `BotIsServed` |
| `orders` | Arbiter: 2 units, 2 equal slots and one that leases at 1 or 3 and commands at 1, 3 frames, 3 commands. Commands: 2 units, types and techs that include number 0, batches of 3, a budget of 5 in 6 frames. Pool: 2 workers, 2 bases with a patch each, a refinery, 2 losses | 672,938 | `LeasesShieldUnits`, `FlushArbitrates`, `NoSeizure`, `TrimSparesTheImportant`; `Meant`, `WithinBudget`; `Shared` |
| `decisions` | Scheduler: 3 slots, one fallback, limits of 2, 1 event, periods 0 to 2. GameLog: 2 own units, an enemy, 3 places, a game of 4 frames and one of 1 | 1,718,968 | `FaultyRetire`, `TriggersReach`, `ReplacedForCause`; `DatasetTrue`, `LossesTrue` |
| `build_jobs` | "exact": one type on given sites that are retried, all races. "shared": 2 types on the same sites. 2 sites, 2 workers, 1 fault | 7,021,337 | `BuilderExclusive`, `SitesHeld`, `BuildersLeased`, `StructuresKeepTheirJob` |
| `stance` | 2 builds, the 5 variants of the strategy slot (learned tactics with the rules), a sight for every detector, clocks of one decision | 325,737 | `CrisisDefends`, `NoLosingPush`, `CrisisEnds` |
| `economy` | Planner: one hall and 2 workers, depot, barracks, refinery, marine, one technology that needs the refinery and the hall; one base, an opening of 2 steps, one request, gas that floats, 1 fault. Expansion: 3 bases, 2 wanted, the natural taken unseen, 2 faults. BuildSearch: 9 things up to a tank with siege mode, a target with an unreachable number of refineries, searches cut after 1 step or none, one request | 55,561 | `NothingTwice`, `JobsStayCovered`, `GoalThere`; `Expanded`; `WhenIsEarliest`, `TargetReached` |
| `units` | UnitControl: 2 workers, 2 soldiers, 1 fault (a death or a tick that raises). Belief: 2 starts, 1 expansion, 2 enemies, 2 changes. Micro: a tank and a marine against a melee unit and a flyer | 548,763 | `BuildersStay`, `RescoutReturns`; `TrueInSight`, `HomeFound`; `TankFollows` |
| `harness` | SelfPlay: 2 matches on 1 slot, 3 frames, margin 1, 2 scores, 1 fault. BotMatch: 2 games on 2 slots, both systems, launches that give up at any time, 1 fault | 1,522,693 | `OwnGame`, `VerdictTrue`; `OwnProcesses`; `RunEnds` |
| `self_play_rows` | as SelfPlay in `harness` | violated | a result file cut short costs its row and all later ones |
| `economy_hold` | as Planner in `economy`, with 3 minerals and without the gas that floats | violated | gas held for an item without minerals blocks one that needs none |
| `expansion_count` | 4 bases, 3 wanted, 1 fault | violated | a second expansion's builder is in no count, and a fourth base is started |
| `sim_slots` | 2 factories, one busy, an addon | violated | an addon's completion frees the busy factory |

Why the bounds are enough. Two match numbers, used in turn, let a stale message belong to another match; two
connections let an old one and a new one exist at once; two faults allow a failure during the recovery from
another. A third unit, slot or worker adds no new way to collide, as every property is about two actors and
one resource; for the modules with proofs the theorems confirm it for any number. Limits of two
distinguish "in a row" from "in total". Ages, waiting times, clocks and reissue counts stop at one more than
the largest value the code compares them with, which is exact. In BuildJobs money is compared with one
structure's price only; in Ledger minerals are counted in the price of the cheapest thing, up to one more
than the dearest thing's neighbour in the plan can take from it. One slot means that every later match plays
on the ports of an earlier one, which is where `OwnGame` could fail, with what is left of the earlier match
still dying; BotMatch has two, because its hazards are games side by side. In Commands the window is longer
than the budget's first minute, so that both ends of it fall into the game. In the search the plan is a few
steps long, `Every` and `Slack` are longer than a decision, so that an old plan is emitted, and the one
request makes it stale. In Expansion, `Patience` says that money and a builder are there before a mark
expires (the marks last 120, 180 and 600 s); with three bases the first choice fails for good and there is
one more than the goal; four bases were checked once alone (25,842 states). Fault counters end a behaviour's misfortunes, not
the behaviour.

`CHECK_DEADLOCK FALSE` is where the modelled system may really stop: after an exception in a BWAPI stub
(`shim_link`), when the last match is collected and its processes are gone (`harness`, `self_play_rows`),
when the goal is reached (`sim_slots`); and where a bound ends the model's time: the last frame
of the arbiter (`orders`), the last game of a log (`decisions`), the last change of an enemy without any
unit left (`units`).

### Fairness

* `shim_link`, under `ServedSpec`: weak fairness of the game's callbacks (StarCraft calls them for as long
  as it runs, and a match of bounded length ends), of every blocking call that can return, of the bot's
  single thread, and of `BotStarts` (the module's `spawnBotIfNeeded`, the harness or a person starts a bot
  again). Faults, events, pauses and `send_config` have none, and no strong fairness is used.
* `harness`: for SelfPlay the harness alone: the workers' steps (the deadline and the five seconds of
  `_stop` pass) and the main thread's. Games, brains and launchers owe nothing, so a match that hangs in
  any way is covered. In BotMatch every wait has a time limit: weak fairness of its next-state relation.
* `stance`: decisions go on, and a paused game goes on again and again (strong fairness of `Passes`).
* `economy`: every decision ends and another one begins; in Planner, workers mine, gas is drilled, what is
  begun is finished, jobs reach their sites and requests lapse, each strongly fair, since a decision in
  between disables them for a moment; losses are bounded, the goal is not. In Expansion a builder does not
  walk forever (it arrives where it can, and its job fails where it cannot, which is `BuildJobs`' business)
  and a hall that is begun is finished. In BuildSearch the game goes on while there is something to do.
* `units`: the components tick (UnitControl); each start location is seen again and again (Belief: this is
  generous, as a worker scout that is threatened stops for good (scouting.py:98-100), so that it takes
  re-scouts or the army, while there are any); the game carries out what it was told, decisions of both parities come, and of
  the tank's commands not all are lost (Micro).

### The divergences

Checked in a run of their own:

* `selfplay.py:14-15` says that results.jsonl has one row per game; a brain terminated while it writes
  its result leaves a file that is not JSON, the exception ends main's loop, and the games that
  complete later have no row although they are played (`self_play_rows`).
* `executor.py:66` says of `Budget.hold` "gas only if minerals already cover it", and the README that what is
  ready and affordable is started; `hold` subtracts the gas in both cases, the budget's gas turns negative,
  and `can` then refuses items that cost no gas (`economy_hold`).
* `econsim.py:127` speaks of the addon's parent; `_complete` takes the busiest producer of its type,
  whichever it is, and the simulator goes on training two units at a time from one factory (`sim_slots`).
* `sections.py:305` counts "an expansion in flight" among the bases, and the README (lines 195-196) says
  that nothing is built twice; `expanding` is the first job's site (`executor.py:526`), and while its hall
  is under construction the builder of a second expansion is in no count. In the decision after that builder
  has placed, the section is still one short, nobody walks any more, and a third builder is sent
  (`expansion_count`).

Met on the way, stated as definitions in their modules, each violated when it is put into a cfg:

| Definition | Says | What happens |
|---|---|---|
| `ShimLink!RunsOnWithIdleUnits` | Bridge.cpp:174-175: in module mode the game runs on with idle units | `ensureConnected` blocks in accept there too |
| `Scheduler!DeferredStayDue` | scheduler.py:5-6: deferred components stay due | one that was due by a trigger alone does not; events live for two decisions |
| `BuildJobs!TriedBeforeFailed` | jobs.py:7-8: a site fails when it does not take the structure in time | the clock also runs while the builder waits for money |
| `BuildJobs!HeldWhileWalking` | placement.py:118: reserved tiles are held for jobs that have not placed | with `Shim = TRUE` two jobs may share tiles, and the first to end releases them |
| `Stance!RushAnswered` | strategy.py:178-179: an early rush is answered by a `rush_safe` build | strategy.py:207 looks for a threat named "rush", and the detectors name none |
| `Stance!SelectsOne` | strategy.py:290-291: `select` follows the best build | while a switch has to wait, the weights are already the new choice's, and a finished opening blends both goals (strategy.py:98, 124) |
| `UnitControl!RescoutSparesDefense` | scouting.py:6-7: taken from the squad pool, never from the defense squad | a unit that tactics has put into the defense squad in this decision, before micro leases it, has no lease, and those without one are taken |
| `Pool!CountedOnce` | workers.py:33-34: a base's mineral workers, and its gas workers | one that gathers gas without counting is adopted without leaving its patch (workers.py:81-88), and published as both (99-104, 166-167) |
| `Pool!GasMined` | workers.py:9-10: a gather command goes out for a new assignment | one that the trim cuts is not given again while the worker mines elsewhere |
| `Belief!NoPeeking` | truth.py:3-5: no component can cheat by accident | the deaths that FullInfo lets the game report are not filtered by the fog |
| `BotMatch!NoStartTrue` | docs/harness.md:57-58: a game that has not started after the lobby timeout is recorded as `no_start` | winematch.py:259 writes it for a game, too, that had begun and whose brain crashed before the lobby deadline |

Other facts of the code seen in passing, without a definition: `strategy.py:358` blends more than six equal
builds into an empty sequence; `mark_blocked` and `mark_unreachable` overwrite each other's frame;
`next_base` looks at the minerals a base had at the start and may choose a mined-out one again; overlords
are refused by `executor.py:254` when the supply is overdrawn, although they take none; `_research_at` does
not ask whether its building is being built; the opening waits for ever when a requirement of its next step
is lost, since only the chain after the opening rebuilds it (planner.py:212-223, 259); a builder that
`worker_defense` chose in a tick that raised is pulled by its next tick although macro leased it in between;
one failing game cancels all queued ones (`botmatch.py:500`); a
unit in two fights is counted as lost in both.

## Proofs

`OrdersProofs` proves all five properties of `Arbiter` for any units, slots, priorities and bounds, from
`NoneAssumption`, `PriorityAssumption` and `BoundsAssumption`.

Its inductive invariant is

    IInv == TypeOK /\ ClaimsOK /\ QueueOK /\ LeasesShieldUnits /\ OutOK

`LeasesShieldUnits` alone is not inductive. That a command queued by s for u stays legitimate when the
lease of u changes hands needs two more facts: a lease got in this decision has `since = frame`
(`GrantedIsNew`, so that it makes no claim about earlier commands), and a lease's priority is one its
owner bids with (`ClaimsOK`, so that a renewal at another priority keeps the claim). `QueueOK` says that a queued
command carries its slot's priority and its place as sequence number, `OutOK` that after the flush the
output is the flush of the queue. `FlushArbitrates` then is a lemma about operators: `ByPriority` is onto
the kept indices (`RankOnto`, from the finiteness and the monotonicity of `Rank`) and sorted (`Sorted`);
every unit has a first command (`FirstExists`). `TrimSparesTheImportant` follows from the order of the
output, as a trim is a prefix. Each action has its preservation lemma; `StepInvariant` puts them
together and the theorems end with a temporal step.

It also proves `Shared` of `Pool`, for any workers, bases, patches and refineries and whatever the game does
between two decisions, from `PoolAssumption`. The dictionaries may well disagree with the game while nobody
looks; what is inductive (`PoolInv`) is what each stage of the update establishes: whoever is leased away is
forgotten in both dictionaries at once, after the gas step every gas worker is at a refinery in use with no
more than its share, from then on whoever had his turn mines a patch that counts (`PatchesRight`), and a pair
of bases that the transfers have been through stays even or finds them used up (`PairsRight`): a transfer makes
no base crowded and none empty again.

And it proves `Meant` and `WithinBudget` of `Commands`, for any units, types, techs, budget and windows and
batches of any length, from `CommandsAssumption`:

    CInv == cAlive \subseteq Targets /\ Meter(...) /\ BudgetKept(sent) /\ MeantBy(said, issued, cAlive)

`Meter` ties the code's hand-kept `sum` to the window (`s = SumFunctionOnSet(w, DOMAIN w)`) and says that the
window holds every command of the last minute. `BudgetKept` then is arithmetic over sums (`SumUnion`,
`SumLeq`) and the rounding down of the budget's share (`ShareOfMinute`), both while the window is still
growing in a game's first minute and when it slides.

`DecisionsProofs` proves all five properties of `Scheduler` for any slots, components, events, periods,
triggers and limits, from `ChainsAssumption`, `SlowAssumption` and the other assumptions on constants.
Its inductive invariant is

    IInv == TypeOK /\ AtHome /\ CleanRecords /\ Counted /\ EventsKept

`AtHome` says that every slot holds one of its own chain's components: without it two slots could hold the
same component, and a turn of one would spoil what is known of the other. `CleanRecords` says that a
component which is yet to come in its chain has not failed or overrun, so that a fallback starts with
counters that agree with its past; `Counted` that the code's two counters, kept per slot and reset by a
replacement, are those of the slot's component (up to an overrun that a fallback inherits) and below the
limits while it can be replaced; `EventsKept` that an event still owed to a slot is among the events of this
decision or the next one, whichever its next turn looks at. `FaultyRetire` is a consequence;
`FirstTurnsTaken` and `TriggersReach` are facts about one step from a state of the invariant.
`ReplacedForCause` needs a second invariant, `OwnOverruns`, and is proved where a fallback has no fallback
of its own: when a failure costs a component its slot, the overrun of the same tick is counted for its
fallback (scheduler.py:176-180 uses the slot's counters after `_replace`), which could go on to its own
fallback one overrun early.

It proves `DatasetTrue`, `FightsWritten` and `LossesTrue` of `GameLog` for any units, places, distances and
number of games, from `LogAssumption`. The inductive invariant is

    LogInv == LogTypes /\ LogFiles /\ LogOpen /\ LogLosses

`LogFiles` says of every file on the disk that it is empty or begins with its only header and has rows of
that one game only, no fight twice (`OfOneGame`), and that a footer's count, result and fights are all of
them (`Complete`). `LogOpen` says of the game that is being played that its file is its own, has no footer yet,
has as many rows as the recorder counted, and that every fight so far is written or still active, never
both (`Numbered`); files of finished or lost games are of earlier ones, which is why a pinned name that is
opened again cannot mix two. `LogLosses` says that a fight's counts are the units it saw that are dead. A
unit that joins a fight is alive, so neither a cluster that joins nor two clusters that meet in one fight
change that. The fold over the places is proved by counting up (`CountsUp`).

`ShimLinkProofs` proves all safety properties of `ShimLink` for any number of connections, matches, frames,
events, faults and frame skips, in both modes, from `ModesAssumption`, `NoConnAssumption` and
`BoundsAssumption`. The inductive invariant is

    IInv == Core /\ Stale /\ Told        Core == TypeOK /\ Ends /\ Calls /\ Channels /\ Session /\ Held

`Ends` says which ends of which connections are open and that nothing is left where nobody reads, `Calls`
where the shim may block, `Channels` what may be on its way: a Frame or a Hello is the last message to the
bot and the shim waits for its answer, Commands are the last one back and carry the frame that was asked
for. `Session` is the heart: when the bot is in a match, or its GameStart is on the way and nothing that ends
the match is, it is the match that runs, and what the bot has read, what is in flight and what
`pendingEvents_` holds are one unbroken run of events (`EventsContiguous` only speaks of the moment at which
all of it has arrived, and is not inductive). `Held` says the same of the shim alone. `Stale` is about
a connection whose module died with its game: the bot may still read a Frame from it, and it is one of its
match. All this is said of connections that are not adrift (`Tight`), and `Told` that one is only after a stub
threw. So `EventsAreContiguous`, `AnswersAreTheBots` and `FramesAreInOrder` except a bot whose decision was left
unanswered; that its events are contiguous as well is only model-checked. Each action has its lemma, most of them in parts for the conjuncts it can disturb. `NoMutualWait` and
the refinement need in addition that a decision which is waited for is still in the bot's hands or answered
(`Asked`). `LinkIsLockstep` then takes every action: it is a step of `Lockstep` (`ExchangeFrame` asks,
`RecvCommands` answers, gives up or abandons, the next callback advances) or leaves its variables alone.

`BuildJobsProofs` proves all four properties of `BuildJobs` for any workers, types, sites, races and
timeouts, from `ConstantsAssumption` and `ExactAssumption`. For the builders

    IInv == TypeOK /\ TurnsTaken /\ Spared /\ Exclusive /\ StillOurs

is inductive: `Exclusive` extends `BuilderExclusive` to jobs that are over but still listed, whose builders
`_pick` spares as well; `StillOurs` says that the builders of jobs that had their turn are not somebody
else's until the tick is over, without which the hold at its end could find one leased away.
`BuildersLeased` is a fact about one step from there. For the sites

    SInv == IInv /\ OnASite /\ SitesHeld /\ Attended

is inductive. Two live jobs on one site are for the same type (`OnASite`, with `ExactAssumption` for given
sites), and a walking job whose structure already stands when it has had its turn leaves it to another,
placed job on the site (`Attended`): so a cancel that comes after the turns leaves no structure without a
job. Both theorems about sites have the hypothesis `~Shim`: with the shim's placement two jobs may share
tiles, the divergence that `HeldWhileWalking` states. That the jobs which remain after a tick keep their
order and their builders (`Picked`) is proved from the cardinalities of initial segments.

`LedgerProofs` proves of `Ledger`, for any things at any cost and under any planner (`AnySpec`), that the budget
is covered (`BudgetIsLeft`) and `JobsStayCovered`, from `LedgerAssumption`. The inductive invariant is `LInv ==
LTypes /\ LBudget`: while a tick spends, what is left in the budget, what walking jobs will cost and what was
ordered in this tick are together no more than the bank. Every item keeps it, whether it spends, holds or sends
a builder, as the sums of the costs change by exactly one price (`CostMore`). `JobsStayCovered` is a fact about
one step from there, but for a builder that is sent early.

Of `Planner` it proves, for any race's things, goal, opening and requests that meet `PlannerAssumption`, that
it implements the ledger under any planner (`GreedyRefines`), so `JobsStayCovered` holds of it as well
(`GreedyKeepsJobsCovered`), and `NothingTwice` (`NothingIsTwice`). The inductive invariant is

    PInv == LInv /\ PTypes /\ NoneTwice /\ RestIsDue

`NothingTwice` alone is not inductive for two reasons. Orders of this tick are not yet in the world, so
`NoneTwice` counts them too; and a builder walks only to what a builder builds, while addons and morphs are
only ordered. And a plan is written at one moment and spent over the rest of the tick: `RestIsDue` says that
what is left of it asks for nothing that is there already (`Due`), whatever was spent before. It needs that no
two items ask for the same thing in the same way (`Apart`, the `emitted` of the code). An item to build and
one to expand may both be for the hall, and both get a builder: `AtSites` counts the halls for bases, which
`AlreadyWalks` and `NoPlace` bound, and `NoneTwice` the others, which the planner's count bounds. Each stage of the tick has a lemma that it keeps a list of due items one
(`Lists(DueItems)`), from lemmas about `Add`, `AddAll` and the sort; each step of the ledger has one that it keeps
`NoneTwice` and `RestIsDue`. The refinement comes from the same lemmas: a plan is a sequence of items, so what
the greedy planner opens a tick with is a plan the ledger allows for. Supply is without a bound in
`NothingTwice`, and so are the halls of Zerg or of a bot whose main unit the hall makes: a float may add
another one of these.

`AdjutantProofs` proves `BuildersStay` and `LeasesRemembered` of `UnitControl` for any workers, soldiers,
timeouts and faults, from `UnitsAssumption` and `TimesAssumption`. `BuildersStay` is about one step, but
`worker_defense` asks only those it has not pulled yet whether they build: `PullTrue` says that whoever is
remembered as pulled and is still ours is leased as pulled. `LeasesRemembered` needs that a scout with a lease
is alive (`ScoutAlive`), as scouting forgets a dead one. A tick of worker_defense that raises breaks `PullTrue`
until the next one that does not, and one of macro or worker_defense may forget a lease as long; so both facts
are said of components that are not `broken`, and `BuildersStay` excepts a worker that worker_defense had chosen
in a tick that raised.

It proves `MemoriesAgree`, `HomeNotRuledOut` and `TrueInSight` of `Belief` for any units, sites and start
locations, with FullInfo and without, from `BeliefAssumption`: the start locations are sites and come in
some order. The inductive invariant is

    BInv == WorldOK /\ MemoryOK /\ B!MemoriesAgree /\ Steady

`Steady` strengthens `HomeNotRuledOut` by what the tracks remember: while the first depot stands and no
other start has had one, none is remembered at another start. That `ScriptedBelief` always has a first
candidate to guess is proved from a least index (`LeastIndex`). `TrueInSight` then is a fact about one decision
from a state in which the memories agree.

And it proves `CrisisDefends`, `NoLosingPush` and `OpeningFirst` of `Stance` for any builds, sights, requests
and times, from the assumptions on constants. Each tick of tactics establishes the first two anew
(`TacticsOrders`), from `StanceTypeOK` alone; that in turn needs that no variant of the strategy slot leaves it
without a build once it has one (`ChoicesAreBuilds`).

`HarnessProofs` proves `SlotsExclusive`, `OwnGame` and `VerdictTrue` of `SelfPlay` for any number of matches, slots,
frames and faults and any margin, from `CountsAssumption` and `NoneAssumption`; the frame limit is at
least one. The inductive invariant is

    IInv == TypeOK /\ RowsOK /\ PoolOK /\ GameOK /\ VerdictTrue

`PoolOK` adds to `SlotsExclusive` that a slot is in the pool once and a match that runs has one: from both
and the counts of running matches and free slots, `pop` never finds its list empty. `GameOK` says that
what can be reached of a match is stopped before its slot is given back, that a brain in a game is in its
own, who is out of a game and why, and that a result file tells how its brain's game ended. A launcher that
got its SIGKILL and still has its port is out of the reach of later brains, which is why `OwnGame` holds
although `_stop` does not wait again.

It proves `OwnProcesses`, `OwnConfig` and `FreeIsIdle` of `BotMatch`, and that slots are exclusive
(`BotSlotsInvariant`), for any number of games, slots and faults, under both systems and however late a
StarCraft shows up, from `BotsAssumption`; the first three are said of StarCrafts that their launch saw. The
inductive invariant is

    BotInv == BotTypes /\ Modes /\ SlotsOK /\ Folders /\ Locked /\ Processes /\ Owned

`Locked` says that on Windows a game between its first launch and its last read has the lock, so that there
is one such game. From it `Processes` says that nothing runs outside of its game's life (`Placed`), that the
game which waits for its StarCraft has all others in its snapshot (`Knows`) and notes its own before it goes
on (`Noted`), and that InstallPath is the folder of the StarCraft that has still to read it (`Installs`,
`Unread`), each unless the StarCraft is missed. Under Wine nothing of that is needed.

`CollectionTheorems` has the facts about data that these proofs need for sets and lists of any size: what
`Picked` leaves of a list, how a sum over a finite set changes with one of its values or with the set, that a
finite set of integers has its `Max` and `Min`, that what holds at zero and carries over holds up to n, and what
a recursive function is that loops over so many rounds (`Recursion`, `Within`). The
library's induction theorems cannot be used here (they take an operator), so each is proved from a minimal
counterexample: a smallest set with the property that fails (`SmallestSet`), or the greatest number up to which
it does not.

The inductive invariants were checked by TLC as well, on the instances of the modules' runs (in BuildJobs and
Belief each on an instance of the module with the proofs, as a run may hold several).

Only model-checked, and why: the liveness properties (`MatchesEnd`, `BotIsServed`, `CrisisEnds`, `GoalThere`,
`Expanded`, `TargetReached`, `RescoutReturns`, `HomeFound`, `TankFollows`, `RunEnds`), as fairness and
ENABLED are out of the prover's reach; and what the recursive operators of the search compute, as a module that
has them cannot hold a theorem (`EconSim!WhenIsEarliest` and the search of `BuildSearch`). Of the planner's
recursive functions (the chain of prerequisites, the rounds of the army) only what the proof needs is proved: types
and that what they give is lacking; that the chain finds everything that is missing is in `GoalThere`, by TLC.

These hold on the instances above, too, and are in no run because a deeper property of the same module is.
Proved: the `TypeOK` of the modules with proofs, `Scheduler!FirstTurnsTaken`, `ShimLink!FramesInOrder`,
`SelfPlay!SlotsExclusive`, `Stance!OpeningFirst`, `UnitControl!LeasesRemembered`, `Belief!MemoriesAgree` and
`HomeNotRuledOut`, `BotMatch!OwnConfig` and `FreeIsIdle`, `GameLog!FightsWritten`. Only
model-checked: the other modules' `TypeOK`, `BuildJobs!NothingElseHeld`, `Ledger!Payable`,
`Pool!MinersMine`, `UnitControl!MemoriesTrue`, `Commands!OverlayStays`, `Expansion!JobsApart`.

## Not modelled

Learned models and their training, scripts and packaging: numerics and set-up. Map analysis is one call of
a third-party library. Inside modelled parts the following is left out, each because the properties do not tell
it apart: the encoding of messages as bytes, placement geometry and the ramp wall, the Lanchester estimate of a
fight (an estimate is losing, even or winning), which of several units, patches or bases is nearest, unit
counts and tech in the belief, scanner sweeps, base scores and ground distances,
`order_components` and strict mode of the scheduler, the merge of profiles, the recorder's feature arrays, `max_frames` and `reconnect=False` of the
runner, replays and folder contents of the harnesses, drawing and logging.

## Plan

1. (done) ShimLink with Lockstep; Arbiter and Scheduler with their proofs; BuildJobs; SelfPlay.
2. (done) UnitControl, Stance, Ledger and Planner, Pool, Belief, EconSim and BuildSearch, Commands, Micro,
   GameLog, BotMatch, Expansion.
3. (done) Proofs of ShimLink with its refinement, BuildJobs, UnitControl, Stance, SelfPlay and Belief.
4. (done) Proofs of BotMatch, Pool, Commands, the ledger under any planner and under the greedy one, GameLog,
   over lemmas about sums, lists and loops.
5. What could follow: `JobsApart` of Expansion, `MemoriesTrue` of UnitControl and `Payable` of Ledger as
   theorems.

To run a check: `tlc -config MCOrders.cfg MCOrders`; to check the proofs: `tlapm OrdersProofs.tla`.
