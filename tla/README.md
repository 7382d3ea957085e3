# FreeWPC: specifications

TLA+ specifications of FreeWPC, the operating system for WPC pinball machines
in this repository: what its core does, model-checked on small instances with
TLC, and in large part proved for all instances with TLAPS.  The repository is
the reference: the definitions follow the source, and `PROJECT.json` ("map")
names the lines each one stands for.

## 1. The system

FreeWPC runs on a 6809 without memory protection.  Three tiers of code share
the CPU:

* **interrupts** (`*_rtt`, every 1 to 16 ms) scan the switches, time the pulses
  of the solenoids and advance the clock; they preempt everything but the
  sections between `rtt_disable` and `rtt_enable`;
* **tasks** are coroutines: one runs until it sleeps or exits, so code between two
  sleeps is atomic for other tasks, and every sleep is a point where a
  task may be killed by group id, or with its duration;
* **idle functions** (`do_periodic`) run when the dispatcher has been through the
  whole table: the debouncing of switches and the 100 ms, 1 s and 10 s events.

Components call each other directly or through events (`callset_invoke`), whose
handlers are run in the task of the caller, in an order nobody fixes, and may sleep.
Units, credits and settings are in battery-backed memory, with a checksum per area.

### Inventory

| component | state | operations | what is hard | what makes it correct |
|---|---|---|---|---|
| task scheduler (`cpu/m6809/task.c`, `kernel/task.c`) | table of blocks, its tail, running task, clock | create, recreate, sleep, exit, kill by group or duration, shrink the table, dispatch, warm reboot | the tail moves under a scan and under sleeping tasks; 16-bit clock; tasks that kill their own group | no used block beyond the tail; the running block stays; no wakeup lost; no starvation |
| switch input (`wpc-switch.c`, `kernel/switches.c`) | five bit matrices, queue of pending switches | poll in the interrupt, debounce, latch, schedule handlers, disable on a short | the interrupt at any instruction; full queue; signed 8-bit timers; boot | what is latched is stable; queue and bits agree; final levels are seen |
| solenoid driver (`kernel/sol.c`) | lock, pulse timer, ring of pending pulses | synchronous and asynchronous request, pulse interrupt | lock held over a sleep; tasks killed while holding it; ring without overflow test | one synchronous pulse at a time, not disturbed; order of deferred pulses; the lock comes free |
| ball devices (`common/device.c`) with trough, serve, ball save | per device the count, the pending kicks, the errors, the state; missing and live balls | switch handler, update task, kick and empty requests, lock, unlock, probe | balls move while nobody looks; update tasks are killed and restarted by others; kicks fail; handlers sleep | balls in play are counted right; the ball ends when, and only when, the last one drained; no ball forgotten |
| game control (`kernel/game.c`) with players, extra balls, buy-in, tilt | in_game, in_bonus, in_tilt, valid_playfield, player, ball, players, the save areas, extra balls, the offer, the warnings | start, add a player, restart, start and end of ball, bonus, buy-in, tilt, slam tilt, end of the game | three tasks that sleep in the middle of it and are killed by each other's kills; buttons at any time | turns in order, each with a ball; end_player once per player; a player's variables are his; players are paid for; the game ends |
| timed and multiball modes (`kernel/timedmode.c`, `mbmode.c`, `timer.c`) | a task and a timer; state, task and count of multiballs | begin, add, pause, grace period, start, single ball, start and end of ball | a task that is killed tells nobody; handlers of one event in any order; bytes that wrap | no task outside its ball; a state has its task; the count is right; an exit per begin |
| display effects (`kernel/deff.c`) | running and background effect, its priority, queue of 8 with timeouts | start, stop, restart, exit, update, abort, tilt, end of ball, bonus | mutual recursion with a sleep in it; timeouts of a wrapping clock; stale priority | one task draws, the running effect's; the kickout lock follows it; the display comes back |
| lamp effects (`kernel/leff.c`) | lamps allocated to effects, a task per group id | start, restart, stop, exit, quick effects | preemption frees lamps; a killed task frees nothing | a lamp has one owner; lost lamps come back with the next ball |
| coins and protected memory (`common/coin.c`, `kernel/csum.c`, `file.c`) | units, bonus count, credits, checksum, version | coin, credit, game start, clear, power loss and power up | the power goes between any two writes; every helper locks the memory again | a coin counts once; nothing is paid twice; credits are not reset without need |
| high scores and match (`common/highscore.c`, `initials.c`, `match.c`) | the table, entries that wait for initials | insert, ask for initials, award, reset | a new game kills the task between two entries; a table in protected memory | the best scores stay, each with the initials of who made it |
| ball search (`common/search.c`) | a timer, the coil it has come to | monitor, search, chase ball | ends the ball from a task of its own; killed in the middle of a search | a lost ball comes back, the ball ends once |
| flippers, AC and triacs, lamps, sound, display, peripherals, tests, attract mode, machines, native build, tools | | | output, hardware timing, menus, templates, data | not in the scope of the models |

`PROJECT.json` lists every part with what is modelled ("components") and the
places in the code where a mistake would be hard to test ("hazards").

## 2. Modules

| module | models | checked by | proofs |
|---|---|---|---|
| `Tasks` | task layer | `MCTasks` | `TasksProofs` |
| `Switches` | switch interrupt and debouncing | `MCSwitches` | `SwitchesProofs` |
| `Solenoid` | shared solenoid driver | `MCSolenoid` | `SolenoidProofs` |
| `Device` | ball devices, trough, serve, end of ball, start of a game, over the solenoid driver | `MCDevice` | `DeviceProofs` |
| `Deff` | display effect driver | `MCDeff` | `DeffProofs` |
| `Leff` | lamp effect driver | `MCLeff` | `LeffProofs` |
| `Game` | players, turns, credits, extra balls, buy-in, tilt, restart | through `Modes` | `ModesProofs` |
| `Modes` | timed and multiball modes, in the games of `Game` | `MCModes` | `ModesProofs` |
| `Coin` | units and credits in protected memory | `MCCoin` | `CoinProofs` |

`Device` contains the three variables of the solenoid driver that it uses, and is
shown to implement `Solenoid` (`Sol == INSTANCE Solenoid WITH ...`,
`SolenoidSpec`; `UsesTheDriver` proves it): what a reader knows of the driver from `Solenoid` holds of the
update tasks.  `Modes` extends `Game`: every step of the game is taken together with
what the handlers of its events make of the modes.  The other modules share no state.
`Device` and `Game` see the same balls at two levels: `Device` has the coils, counts and
failures of one ball, `Game` only how many balls are live, over many turns.  Both rely on what
`Tasks` guarantees (atomicity between sleeps, kill and recreate) and have it in the form of
their actions.  `...Bug` operators are variants of an operator with a plausible
mistake; nothing uses them, and each shows that a property notices it.

### Tasks

`block` is `task_buffer`, `task_tail` the address of the first block that is not
scanned, `tp` the scan position, `pc` what the CPU is at: a task (`run`), the
loop of `task_dispatcher` (`scan`), idle functions (`periodic`), the wait for
the next tick (`idle`), `fatal`.  A call of the API is one action, an iteration of the
dispatcher's loop is one action, and `Tick` may come between any two.  The
saved `wakeup` is represented by `due`, its distance from `sys_time` modulo the
range of the clock, so that the states do not depend on the time of day.  `TaskChunk` is
the handler of `amode_start` and `end_ball` that takes free chunks off the table,
with the code's way of counting them.  A full table, or an expiry of one's own
duration, is `fatal`, and `Reboot` is `warm_reboot`.  With `MallocEnabled` the
table is shared with the chunks of `malloc`, which take a block and have it until the collector finds them empty.

### Switches

A bit matrix is the set of the switches whose bit is on; the interrupt handles the whole
matrix in one action (`Poll`).  `switch_periodic` is cut wherever the interrupt
could make a difference: the load and the store of the boot copy, the test of
`sw_unstable` and the critical section that follows, the snapshot of each column and
each of its bits.  `since` is the elapsed time as `get_elapsed_time` returns it, a
byte.  `differed` is a history variable that counts readings.

### Solenoid

One requester per coil, in `sol_alloc` (`"alloc"`), waiting for the end of the
pulse (`"free"`), or not there.  The state between taking the lock and starting
the pulse is not seen by anybody (no sleep there) and is part of `SolAlloc`.
`KillUser` is a task kill in either sleep.

### Device

`ball` and `lane` say where the balls really are (environment), `dev` is
`device_table`, `at` the point at which the update task of a device sleeps or, with
`cpu`, runs, `todo` the events still to throw for the last recount.  The function
`device_update` is one action per branch: `CountSame`, `SurpriseRelease`,
`CountRose`, `KickFailed`, `KickGivenUp`, `KickWorked` for the recount and its meaning,
one action per event thrown, and `Finish`, `Delay`, `KickAttempt` for the end of
the function.  Requests from other tasks (`SetBallCount`, `DeviceUnlockBall`,
`DeviceRequestEmpty`, `StartBall`) kill the update task at whatever sleep it
is in and make a new one, also in the middle of a pulse.  `DeviceProbe` is
one pass of the probe.  A machine is represented by what it may do in its
handlers: lock a ball, hold a kickout lock, deny a kick for now, sleep (`Sleepy`).  `AutoServe` says whether it has
an autoplunger: `serve_ball_auto` makes the playfield valid if it has, and falls back to `serve_ball` if not.

Assumptions about the machine, which the code makes too: a ball that is kicked
takes longer to come back than its device to notice that it has gone, unless
it falls right back (`BallFallsBack`); `settle_delay` is longer than a pulse, so
no recount falls into the pulse of the same device; a device is not entered
by more balls than it has switches.

### Deff

The driver's fields are one record (`Driver`), and `deff_stop`, `deff_queue_service` and
`deff_update`, which call each other, are functions from record to record
(`Stopped`, `Service`, `Update`, `UpdateBlank` ...), so that an action is a whole call with all it
nests.  The one sleep in there, in `deff_exit`, is a state of its own: `exiting` counts the
tasks asleep in it, at the two depths the nesting has (`Wakes`).  `tasks` is the set of
effects with a task of `GID_DEFF`, `pause` the kickout lock `KLOCK_DEFF`.  A queue entry's
timeout is relative to the clock.  What the `display_update` handlers propose is any of
`Conditions`, which always propose something (the scores or the attract mode).

### Leff

`task` says which effect's function the task of a group id runs, `list` what
`leff_running_list` says of it, `free` is `leff_free_set`.  Starting is one action with the
search for a group id, the test and the preemption (`LeffStart`).  Quick effects (switch
lamps, lamp timers) take a lamp beside the list.  `DurationExpire` is the kill by a tilt or
the end of the ball, which closes no effect; `LeffStopAll` the start of a ball.

### Game

The memory of the game is one record `g`, and the calls are functions of it (`StartBall`,
`StopGame`, `PlayerRestore`, ...).  Three tasks may sleep: `start` (the start button: the two
seconds of a slow restart, the three sleeps of `start_game`), `end` (`end_ball`: bonus, shoot again,
buy-in, the yield of `start_ball`) and `over` (`end_game_task`); `slam` says that the slam tilt sleeps on its way to
the reboot.  The start button starts another game before that (`PressStart`).  One action is what a task does from one sleep to the next; `DurationExpire` kills the
start task unless `stop_game` removed its duration (`immune`).  A save area holds
whose data it has (`of`) and the extra balls earned.  `Untimely` names what may happen, beyond the
ordinary, while the tasks sleep: a slow restart while `end_ball` is under way ("hold"), an old ball that
scores or drains during the first 66 ms of a new game ("ball"), a tilt ("tilt") and a slam tilt ("slam") there,
the start of a game between a slam tilt and its reboot while the `end_ball` it did not kill still sleeps ("start").

### Modes

`m` has the timer and the task of a timed mode, whether it is open (begun, not yet exited), and
for each multiball mode its state and its task, with `mb_mode_count`.  `GameStep` pairs each action
of `Game` with the handlers of the events it throws: `KillModes` for an expiry of the ball's
duration, `TimedModeEnd` and `MbEndBall` for `end_ball`, `MbStartBall` for `start_ball`, in any order
where the order matters (`after`).

### Coin

One action is one write to the memory, and `PowerLoss` may come after any of them.  `pc` is
the next write, `op` the operation it belongs to.  `Sum` is the checksum, modulo the size of a byte.
`Locks` says whether locked memory ignores writes.  `FileRegisterPart`, `FileRegister` and the `Check` after it are
the power up, perhaps with a program that has another structure (`Builds`); the first stands for a file entry with one or two of its
three fields written, which is like no program's.

## 3. What is checked

Every property is checked by one run, and each has a mutant of the code that breaks it.

| run | instance | properties |
|---|---|---|
| `tasks` | 3 chunks of 2 blocks shared with `malloc`, one group, one duration that expires, a clock of 6 ticks | `ScanInsideTable`: the scan never passes a tail that a task has rewound, and no kill, expiry or rewind takes the running task's block; `TailCoversAllocated`: no used block beyond the tail; `WakeupNotLost`; `NoStarvation` |
| `switches` | a coin door switch without debouncing, scheduled on both edges, and a matrix opto with a debounce of 2; closed together they are a short | `MatrixReadTwice`, `PendingIsStable` |
| `switches_settle` | 2 debounced switches of a column (an opto, an edge switch), queue of 1, shorts | `QueueConsistent`, `Settles` |
| `solenoid` | 2 coils, pulses of 2 ticks, ring of 3, kills | `SyncExclusive`, `DeferredInOrder`, `PulseWaitEnds` |
| `device` | 2 balls, a trough for two, a saucer with a lock for one and a handler that sleeps; failing coils, kickout locks, an autoplunger, one tolerated start with a ball missing | `TypeOK`, `BallsAccounted`, `GameGoesOn`, `BallEndsWhenDrained` |
| `device_multi` | requests from game code until a ball is live, failing coils, no autoplunger, one unkicked release from the saucer | `KicksCovered`, `NoBallForgotten`, `SolenoidSpec` (refinement) |
| `device_serve` | 2 balls, coils that work, an autoplunger | `BallIsServed` |
| `deff` | 2 background and 3 foreground effects (one queued, one that pauses kickouts, one that may be aborted), queue of 2, one task asleep in `deff_exit` | `OneEffectOnDisplay`, `PauseWhileShown`, `QueuedOnce`, `ExpiredStaysExpired`, `DisplayComesBack` |
| `leff` | 5 effects of three priorities that overlap in pairs, 4 lamps, 3 group ids, 2 quick effects on one lamp | `SharedOnlyWithQuick`, `LostOnlyBetweenBalls` |
| `game` | 2 players, 2 balls, 1 extra ball for a player and 2 for a ball in play, buy-in, tilt, slam tilt at any time, restart, 2 coins; a timed mode and 2 multiball modes; bytes of 3 values | `ModesTypeOK`, `LocalsArePlayers`, `EbLimit`, `PlayersPaid`, `CountMatches`, `ModeHasTask`, `NoModeOutsidePlay`, `TurnsPlayed`, `EveryPlayerEnds`, `ExitBeforeNextTurn`, `GameEnds` |
| `coin` | coins of 1 and 3 units, 2 units a credit, a bonus credit every 4, at most 9 units in all and 3 credits, 2 losses of power, 2 versions of the structure, memory that is never locked | `ResetOnlyWhenTorn`, `NothingForNothing`, `CoinCounts` |
| `coin_locked` | the same with the WPC's lock | `ResetOnlyWhenTorn` is violated (section 5) |

`MatrixReadTwice` leaves out the coin door's switches, `GameGoesOn` and
`BallsAccounted` are checked with handlers that sleep in the saucer only, and `game` with
no other untimely event than a slam tilt (so that no game starts between a slam tilt and its reboot as long as the old `end_ball` sleeps;
it does once that is done): section 5 says why.

Some invariants of the modules are not checked by a run because a theorem has them for all instances:
`TypeOK` of `Tasks`, `Switches`, `Solenoid`, `Deff`, `Leff` and `Coin`, `RunningIsListed` and
`OnlyLowerPreempted` of `Leff`, `ChecksumCurrent` of `Coin`; `TypeOK` of `Game` is part of `ModesTypeOK`.

**Bounds.**  Three chunks are the least for which a tail can be rewound by one or by two chunks;
the clock needs a range in which a wakeup can be reached and missed; a task that sleeps does so for no
time at all (`MaxSleep` of 0), and is then dispatched late.  Two switches in one column with a queue of
one entry bring a full queue, the compaction of the queue and a column with several bits;
the timer's range (`TimerHalf`) is scaled down with the debounce times.  A ring of three
holds two pulses, enough for an order and an overflow.  Two balls and two devices are
the least for a multiball, a lock with a ball served after it, and a missing ball
next to one in play; `MaxErrors` of 2 (instead of 20 and 7) lets a kick
fail, be retried and be given up.  `Surprises`, `Multiball`, `Starts`, `MaxProbes`,
`MaxPass`, `MaxSleep` bound the environment and are named in the modules.
`BallsAccounted`, `GameGoesOn` and `BallEndsWhenDrained` are about balls started with all balls known
to be at rest in their devices (`clean`): a ball started while another is still
out is one of the cases of section 5.

In `deff` a queue of two that three effects want is full, holds two priorities, and is serviced
with an entry left; the clock wraps at 4 (`Half` of 2) with timeouts of 1, so that an entry that is not
freed in time looks young again.  `MaxExiting` of 1 lets one task at a time sleep in `deff_exit`;
`DeffProofs` covers any number.  In `leff` an effect may preempt one or two others and be refused
by one, and a group id is reused while an entry of a killed task is in the list.  In `game` two players and two
balls have every kind of turn: next player, next ball, same player again, bought ball, last ball;
two balls live at once start and end a multiball; `ByteSize` of 3 is the least with room for the two modes
that may be on, and it makes bytes wrap.  In `coin` the maximum of credits, bonuses in the middle of a
coin, and a sum that is right by chance are all within reach.

**Fairness.**  `Tasks`: a running task suspends itself in the end (the lockup check reboots
otherwise), the dispatcher and the clock go on.  `Switches`: the interrupt and
`switch_periodic` never stop; strong fairness for the clock outside `switch_service_queue`
(a tick during the service is forgotten by the assignment at its end; not
every tick falls there), for the one-second event and the boot, which get their turn
between two passes.  `Solenoid`: the interrupt, and the wakeup of a requester that waits for its pulse; none for
`sol_alloc`, which may lose against asynchronous requests for ever.  `Device`: tasks run and
pulses end; strong fairness for a kick that a handler or a lock delays for some
time, and for the solenoid that is free now and then.  `Deff`: strong fairness for the task that calls
`deff_update` periodically (`effect_update.c`; a ball lasts longer than its period, so it
finds the display between two bonuses), weak fairness for the bonus, which ends; none for effects, which
may run or sleep for ever.  `Game`: tasks that sleep wake up, a held button is released or the two seconds pass,
a ball that is served touches a switch, balls drain; strong fairness for the last one: a player
does not keep several balls in play for ever.  Coins need not come.  `Leff` and `Coin` have none.

## 4. What is proved

Each `...Proofs` module proves its theorems for every value of the constants that the assumptions
of the module it extends allow; the assumptions are weaker than what the source has.  The form is the
same everywhere: an inductive invariant, the lemma that the initial states have it, one step per action
for the lemma that `Next` keeps it, and the theorems that follow.

**Tasks** (`IInv`): `TypeCorrect`, `TailIsSafe` (`TailCoversAllocated`), `ScanIsSafe` (`ScanInsideTable`),
`WakeupIsKept` (`WakeupNotLost`).  `TableAssumption` asks for chunks of two blocks at least, and a rewind
that requires no fewer free blocks than a chunk (the source: 48 blocks in chunks of 8, 10 free).
`ClockAssumption` says that a sleep and twice the longest pass over the table are less than half
the range of the clock: with ticks of 16 ms and a 16-bit clock, 524 s.  `IInv` adds to the properties
that the scan is inside the table and the running task is a used block below the tail and not
asleep; that blocks at or beyond the tail are free; and bounds on how far a
sleeping task's wakeup may lie in the past, depending on whether the scan has come by
it in the current pass: a task that the scan has still to reach may be overdue by the
time since the last rewind of this and the previous pass, one behind the scan only
by the time of this pass.  This is why `elapsed` (the ticks since
`last_dispatch_time`) is bounded by `MaxPass`, and why twice that bound must be
below half the clock.  `TaskChunk` keeps `TailCoversAllocated` because the run
of free blocks it counts is at least as long as what it takes off; the lemma
about it is the one piece of arithmetic with products of constants.

**Switches** (`SwInv`): `TypeCorrect`, `QueueStaysConsistent` (`QueueConsistent`), `PendingStaysStable`
(`PendingIsStable`), `ReadTwice` (`MatrixReadTwice`), for every matrix, debounce time, length of the queue and
range of the timer, with the interrupt between any two steps.  The invariant joins the three properties, which need each other
(a stable bit is taken away by `switch_periodic` alone, and with it the queue entry and the unstable bit),
and adds what is true in the middle of a pass: the entry being serviced is in the queue (`EntryInQueue`), an early copy
of the boot is of the coin door's column only (`EarlyInCabinet`), and the edge bits the interrupt leaves
mean one reading (`EdgeReadOnce`).

**Solenoid** (`SolInv`, the type invariant and the property): `TypeCorrect`, `OnePulseAtATime` (`SyncExclusive`),
for any set of coils, length of a pulse and length of the ring, with requesters killed in either sleep; and
`DeferredStayInOrder` (`DeferredInOrder`), whose steps are facts about the ring read as a sequence: an insertion at the tail
appends to it, a removal at the head takes its first element, wherever the ring wraps.

**Device** (`DeviceInv`): `TypeCorrect`, for every set of devices, number of balls, sizes and bounds.  The invariant has
the sum of the balls in all devices and on their way out (`Total`, the cardinality of a set of numbered balls, so that moving
one ball is a fact about sets), and for each device that one that has given up needs no kick and that no more successes
are thrown than kicks were needed (`Fine`).
* `UsesTheDriver` (`SolenoidSpec`): the initial states map to initial states and every step to a step of `Solenoid` or a stutter;
  a restart of an update task in the middle of its pulse is `KillUser`.
* `NoKickUncovered` (`KicksCovered`).  `KickOK` relates, per device, kicks needed, successes to come and the ball that
  a pulse is moving just then to the count and to the balls really there.  It assumes `Plain`: no handler sleeps, and a device that
  loses balls without a kick holds one ball.  Both are needed: section 5.
* `BallsRemembered` (`NoBallForgotten`).  `AllKnown` says of each device, once the probe is over, that it knows its balls and may keep them, or has
  a switch task or an update task; `TroughKnows`, that the trough, whose task `end_ball` takes over in the
  middle, has no unknown ball at that point.  It assumes that the trough may hold as many balls as it has switches and that its
  handlers do not sleep (`RoomyTrough`), and that the probe has not given up (`ProbeGivesUp`), which leaves a device overfull.
* `BallsCounted` (`BallsAccounted`), `BallEndsDrained` (`BallEndsWhenDrained`) and `NextBallServed` (`GameGoesOn`), from one invariant
  in three parts.  `TrackInv` bounds, for each device, how far the program's count may be from the balls: by the balls still in its lane,
  and for a device other than the trough so that the balls to keep, the kicks pending and the enter events still to be thrown are covered by the count
  (`LockOK`): no kick takes a locked ball.  `Rolling` is the number of balls that neither lie in the trough
  nor are locked; they are out, on their way, or in a device that is to kick them.  `OneBall` says of the trough in which of five states
  the ball in play is, each with what `live_balls`, the trough's record, its phase and `Rolling` then are: to be kicked or in the middle
  of it (`Serving`), gone but not yet counted on (`Served`), in play or back and not yet seen (`Out`), seen but not yet counted off
  (`Drained`), over without another (`Over`).  Every action is a step among these, whatever device it is of; a lock takes `Out` to `Serving`
  as it takes one off both `live_balls` and `Rolling`.  `PlayKnown` is `AllKnown` of `BallsRemembered` for clean play, in which
  no probe runs.  At rest only `Out` and `Over` are left, where `live_balls` is `Rolling` and `Rolling` is `Loose`.
  The assumption is `OneBallGame`: `RoomyTrough`; the other devices have an `init_max_count` of 0 and lose no ball without a kick (`Leaky`,
  `Surprises`); game code adds no ball (`Multiball` of 0).  The first two are what the machines' `[containers]` say (the trough of
  `bop` has a switch more than the game has balls: there `Size` is the two it ever holds); the last two are needed, see section 5.
  Coils may fail, balls fall back, handlers of the other devices sleep, effects hold kickouts.  `NextBallServed` also assumes that game code
  does not lock the last ball (`SpareBall`), as machines see to by starting a multiball.

**Deff** (`DeffInv`): `TypeCorrect`, `OneDraws` (`OneEffectOnDisplay`), `KickoutsFollow` (`PauseWhileShown`),
`WaitsOnce` (`QueuedOnce`), `TimedOutForGood` (`ExpiredStaysExpired`), for every table of effects, queue and clock, and any
number of tasks asleep in `deff_exit`.  As the actions are calls that nest, the proof is about calls: one lemma for each of the functions, which says that it
makes a good record (`Good`) of a good record, whatever called it.

**Leff** (`LeffInv`): `TypeCorrect`, `ListNamesRunning` (`RunningIsListed`), `LampsApart` (`SharedOnlyWithQuick`),
`NoLampLost` (`LostOnlyBetweenBalls`), and the action property `PreemptsLower` (`OnlyLowerPreempted`).  The invariant
says of what is *listed* what the properties say of what runs, because the driver looks at its list: entries of
killed tasks are in it until their id is used again.

**Game and Modes**, in `ModesProofs`.  `TasksInPlay` (`NoModeOutsidePlay`, from `ModesInv`) holds for every `Untimely`: also
with a slow restart, an old ball, a tilt or a slam tilt in the middle of other things.  The others are for any number of players,
balls, warnings, extra balls, credits and modes, and with a tilt or a slam tilt at any time.  They assume `Timely`, that neither "hold" nor
"ball" nor "start" is among the untimely events: with any of them most of the properties fail (section 5).
* Each of them is an invariant `GameInv \/ HaltInv` (`AllInv` with the modes).  `HaltInv` holds of the two halts that an untimely tilt
  leads to.  `Stuck`: the tilt killed `start_game` or the end of a game, so the game is on, tilted and without a ball, and nothing goes on in
  it but a slam tilt.  `Slammed`: the game is stopped, and the tasks that slept (an `end_ball`, an
  immune `start_game`) go on in a memory without a game, until the reboot or, once they are done, another game.  `StuckHalt` and `SlammedHalt` show
  that no turn passes and no extra ball is awarded there (`NoTurn`), step by step; `HaltReboot`, `HaltPlay` and `HaltIdle` that the reboot,
  and a game started before it, lead back to `GameInv`.
* `GameTypeCorrect` (`TypeOK`).  The invariant is `GameControl`: which of the three tasks may sleep where at the same time,
  and what the memory then is (`EndSleeps`, `StartSleeps`, `OverSleeps`).  While `end_ball` sleeps no ball is live and
  neither `start_game` nor `end_game_task` is under way; while `start_game` sleeps it is ball 1 of player 1.
* What the next theorems need of a step is one lemma, `StepKinds`: a step begins a game, leaves it, goes on in a turn, resets the areas,
  serves a bought ball, awards an extra ball or passes the turn, with what each does to turn, areas and history.
  `TurnsInOrder` (`TurnsPlayed`), `PlayersEnd` (`EveryPlayerEnds`: `EndsInv` says whose `end_player` has been thrown
  by when), `LocalsBelong` (`LocalsArePlayers`: `AreasInv` says whose data each save area has, which depends on who has played) and
  `ExtraBallsLimited` (`EbLimit`: `EarnedInv` equates the history with the field in the area or in the local copy) follow.
  The last one also assumes `NoSecondStart`: more than one ball per game, or no buy-in (section 5).
* `CreditsPaid` (`PlayersPaid`) needs only that "hold" is not among the untimely.  A slow restart sleeps with the credit it
  has seen (`HoldPaid`): what takes credits meanwhile needs ball 1 or an offer, and the sleep excludes both.
* `ModesTypeCorrect` (`ModesTypeOK`), `CountIsRight` (`CountMatches`), `ModesHaveTasks` (`ModeHasTask`), `ExitedBefore`
  (`ExitBeforeNextTurn`), from `AllInv`.  `ModeInv` says that nothing is on or open while `end_ball` sleeps
  (`ClosedInv`), that states and tasks agree but after a tilt or a restart, when all tasks are dead (`MatchInv`), and that the count
  is right while a ball is live (`CountInv`).  A step of the game does one of six things to the modes (`GameModes`).  That `mb_mode_count`
  does not wrap in play is the cardinality of the modes that run, one more or one less.

**Coin** (`CoinInv`): `CreditsAreSafe` (`ResetOnlyWhenTorn`), `ChecksumIsCurrent` (`ChecksumCurrent`).  Both
assume `Locks = FALSE`; with the WPC's lock the first is false (section 5).  The invariant says that the
checksum may be wrong only from the first write of an operation to its last, and that a power up whose last
operation had written nothing finds it right.  `TypeCorrect` and `NoFreeCredits` (`NothingForNothing`) hold with any lock: what
is in memory, what has been taken and what the operation under way has still to write (`Owed`) is worth no more than the coins put
in, with the bonuses of their sum; a loss of power, at any write, forgets what is owed and adds nothing.
`CoinsCount` (the action property `CoinCounts`, with `Locks = FALSE`) is the other half: from the check before a coin to the last update, the
worth of the memory, what is owed, and the bonuses of the units that still count towards one (`Coming`) are exactly what there was
before and the coin (`Due`), or the credits are at their maximum (`ExactInv`).  The bonus loop leaves that sum alone
because of `BonusOff`: a bonus taken off the units is one bonus less to come, which is a fact about the quotient.  It assumes `Fits`, that the
sums of `add_units` fit into their bytes.

Only model-checked is what ends or happens at last (`NoStarvation`, `Settles`, `PulseWaitEnds`, `BallIsServed`, `DisplayComesBack`,
`GameEnds`), since the prover does not treat fairness.

## 5. Where code and text disagree

One run shows a violation of what a comment says: `coin_locked`.  `add_units` locks the memory at `coin.c:166` and calls
`csum_area_update` at `coin.c:187`, of which `csum.c:56` says "It assumes the region is UNLOCKED, since you just
wrote to it."  On the WPC locked memory ignores writes (`wpc.h:361-363`) and the file table is in the protected part, so the
next check finds a wrong checksum and resets the credits.

More was met while the models were written.  The entries below have no run of their own: each is what a model does under the
constants named (and what a property of section 3 leaves out for that reason), or was read beside it.

*Tasks.*  With `MallocEnabled` the dispatcher restores a `malloc` block as a task (`pc = "weeds"`, `task.c:738`), which the
comment above the test excludes.

*Switches.*
* After a short the debounce timer of a switch wraps and grows (`switches.c:439`; `ShortColumns`, and a pass of more ticks than the timer is long).
* The boot copy of column 0 (`switches.c:547`) leaves stable bits that contradict the logical level, so that
  `MatrixReadTwice` does not hold of the coin door's switches.
* A clock tick during `switch_service_queue` is forgotten by the assignment at its end.

*Solenoid.*
* A task killed in the wait of `sol_request` never calls `sol_free`: the driver stays locked for ever (`sol.c:231`; `Kills`).
* `queue_insert` overwrites a full ring (`DeferredInOrder` names it as its one exception).

*Device.*
* A ball that visits a device and leaves by itself is counted as a second live ball (`device.c:275`; `Surprises`).
* A ball locked with the trough empty is not released as `freewpc.texi:2442` says (`device.c:913`).
* The trough gives up after 20 failed kicks (`device.c:322`; `CoilFails`); the comment says
  requests are cancelled "unless it is the trough".  Hence the alternative in `GameGoesOn`.
* With `Starts` of 2 a lost ball that comes back first ends the ball of the one still in
  play (`device.c:723`); hence `clean`.
* A game may be started with the trough empty (`device.c:840`).
* With `Multiball` and `Sleepy` a request during the delay of a `kick_success` handler wraps the
  kickable count (`device.c:466`), against `KicksCovered`.  So does a `Leaky` device of two balls: one
  leaves by itself while both are to be kicked, and is taken for the first kick.
* With `Multiball` of 2 and three balls a ball that drains while the trough is releasing another, or is trying again, is absorbed by the
  recount of the kick (`device.c:302-322` throws no enter event), against `BallsAccounted`: it stays live for ever.
* With all balls locked (`SpareBall` of section 4) there is none to serve, against `GameGoesOn`.
* With a trough in `Sleepy` a ball that drains during a handler of the trough is absorbed
  (`device.c:450`), against `BallsAccounted`.

*Deff.*
* `deff_queue_service` does not set `deff_prio` (`deff.c:307`), and `deff_stop` calls it with the priority of the effect just
  stopped: no queued effect gets the display then unless it has a higher one.
* `deff_update` chooses a background effect without a look at the queue, and when it replaces one, the queue service
  nested in `deff_stop` may start an effect that is killed at once.
* An effect with `D_QUEUED` that is preempted is not queued again.
* An effect that exits during the bonus leaves the kickout lock and a blank display, so that `bonus_entered` waits its full 15 s.

*Leff.*  Quick effects do not look at the list and effects do not look at them: a lamp allocated by one may be
taken by an effect that preempts (`leff.c:253-294`); `SharedOnlyWithQuick` names the exception.

*Game*, with `Untimely`:
* "hold": a slow restart that wakes up while `end_ball` sleeps starts a game, and the old `end_ball` goes on in it
  (`game.c:719`; the comments at `game.c:316` and `game.c:629-631` assume neither).  The credit is looked at two seconds before it is
  taken, and `verify_start_ok` is not repeated: a free game, against `PlayersPaid`.
* "ball": after a restart the old ball validates the playfield, or drains, within the 66 ms of `start_game` (`game.c:588-596`).
* "tilt": a tilt there kills the start task (`tilt.c:88`): in a game, with no ball, for ever, against `GameEnds`; the safety properties hold.
* "slam": a slam tilt during `end_ball` does not stop it until the reboot: it goes on in no game, and may serve a ball.  AFM's tilt switch
  does not have the `ingame` that its slam tilt has (`afm.md:100`).
* "start": for a second and a half or more between a slam tilt and its reboot (`tilt.c:118-145`) nothing keeps the start button from
  starting another game (`start_button.c:38-76`, `game.c:666-702`): `in_game` and `in_tilt` are off and all balls are home.  An `end_ball` that
  the slam tilt left asleep goes on in the new game.  With `Untimely` of {"slam", "start"} TLC finds it against `LocalsArePlayers`,
  `CountMatches`, `ModeHasTask`, `TurnsPlayed`, `EveryPlayerEnds` and `ExitBeforeNextTurn`: the turn passes without a ball, or with one in play,
  and the player has the variables of another.  `ModesTypeOK`, `EbLimit`, `PlayersPaid` and `NoModeOutsidePlay` hold with it.
* A bought ball on ball 1 throws `start_player` again (`game.c:443`), which zeroes `extra_balls_earned` (`eb.c:181`): with one ball
  per game and buy-in a player gets more than `max_ebs`, against `EbLimit`.  While another effect masks the offer, the start button goes to the game
  (`start_button.c:47`) though the timer still runs (`buyin.c:61-63`), and while the offer is shown the timer is counted down from 0 too (`buyin.c:102`).
* `stop_game` throws `end_player` for every player, also those who had no turn.
* A game that has its full number of players cannot be restarted.
* `units_clear` is called at every ball; the comment says ball 2 (`game.c:450`).

*Modes.*
* A multiball that ends between two balls after the count was cleared makes `mb_mode_count` wrap to 255; `timed_mode_add`
  wraps too.
* `timed_mode_end` at the end of a ball calls the exit of a mode that never ran; after a restart of the game the timer and
  the open mode of the old one remain.
* `mb_mode_restart` counts twice (`mbmode.c:98`); no machine uses it.  TOM's multiballs neither call `mb_mode_start_ball` and
  `mb_mode_end_ball` nor have a state, and its `double_score_mode` has no
  `.exit`: the double score outlasts the mode and is taken back at the next start of a ball.
* `timer_unlock` wraps when the lock is gone (`timer.c:71`); a free timer subtracts from an unsigned count that need not
  be a multiple of what it subtracts (`timer.c:158`).

*Coin and file table.*
* A coin at the maximum of credits is swallowed (`coin.c:151`).
* The new version of an area is saved before the area is reset (`file.c:172-182`): after a loss of power in between the
  old data is checked as if it were new, though "Previous data will not be considered no matter what" (`file.c:148`).

*Read, not modelled.*  `high_score_free` copies the last entry to one beyond the table (`highscore.c:308`), which its comment
excludes.  A game started while the initials are entered (`game.c:153` says this may happen) kills the task and leaves entries
with a player number in place of initials.  `high_score_enter_initials` updates a checksum with the memory locked
(`highscore.c:375`).  `match_value_score` ignores the value it is asked about (`match.c:143`).  The ball search's chase ball calls `end_ball` but does
not mark the balls as missing, as the comment at `search.c:60-61` has it.

## 6. Not modelled

* Tasks: saved stacks, `CONFIG_EXPAND_STACK`, task arguments, sleeping idle functions (a fatal error).
* Switches: the meaning of a switch (lamp, sound, flags of `switch_sched_task`); levels are arbitrary.
* Solenoid: two synchronous requesters of one coil, invalid coil numbers, duty cycles, flashers.
* Device: virtual and held balls, the shooter switch and the autoplunger's coil, tilt, `switch_stress`,
  restart of a game in the middle of a ball, the diagnostic checks, the fatal error of a lock by a device that is full of locked balls
  (`device.c:889`, a reset), Funhouse's handler of `empty_trough_kick` (`funhouse/mb.c:312`).  A handler that denies a
  kick is `Delay`; a handler that kicks another device is a request.
* Deff: test mode but for its lack of background effects, a background priority that differs from one call to the next, `deff_start_sync`, `deff_nice`, what effects draw, transitions and pages of the display.
* Leff: peers, further tasks of a group id that stop with it (`leff_create_peer`), and a `leff_quick_free` by an effect that has no quick lamp
  (`wcs/amode.c:79`); what effects do with their lamps, the general illumination, the shared lamp set of an effect that runs all the time.
* Game: a `start_game` that survives a slam tilt beside the start of another game before the reboot (one start task is modelled);
  timed games, whose monitor ends the ball from a task of its own (`game.c:385`), test mode, free play, the choice of
  `end_game` between score display, high scores and match, tournaments.  Scores: packed decimal arithmetic, with no state shared with the rest.
* Modes: timer locks and free timers; a machine's own reasons to add time.
* Coin: audits, the door's fraud handling, `file_reset` from the menus, what the bytes of one version mean to the next, a file
  entry that after a loss of power happens to be that of a third program.
* High scores and match: the table and its entries without initials, the two together over a kill, are the next module to write.
* Ball search: it makes a lost ball come back by firing coils, so its state is worth a model only over `Device`
  with balls that get stuck.  Read: `end_ball` called by the monitor itself, the monitor killed in
  the middle of a search (nothing throws `ball_search_end`, which machines rely on), `ball_search_now` beside
  the monitor's count, and the coin door, which stops and restarts the monitor (`service.c:111`, `service.c:138`).
* Flippers, AC and triac control, lamps, sound and display are output and timing of hardware, one bit or one table each, with no
  protocol between tasks; adjustments, audits, menus and tests are tables with their display; the native build and the simulator
  stand for the hardware; machines are rules written on what is modelled; tools run on another computer.

## 7. Plan

1. The count of the balls in play with several of them: `OneBall` for each, and what the code would have to do about a ball that drains
   during a kick (section 5).
2. `HighScores`: insertion, entries that wait for initials, initials and awards in a task that a new game kills, over the memory of `Coin`.
   Properties: the table is sorted, entries keep their initials, no entry waits for ever.
3. Ball search over `Device`, with balls that get stuck: the ball ends once, a lost ball is found or marked.
4. An abstract ball counter implemented by `Device`, an abstract mutex implemented by `Solenoid`.
