------------------------------- MODULE Device -------------------------------
(***************************************************************************)
(* Ball tracking: common/device.c, with the parts of common/trough.c,      *)
(* common/serve.c, common/ballsave.c and kernel/game.c that count balls in *)
(* play, serve them and end a ball, over the solenoid driver that kicks    *)
(* them (kernel/sol.c).                                                    *)
(*                                                                         *)
(* One update task per device recounts its switches and acts on the        *)
(* difference.  Tasks are not preempted: from one sleep to the next the    *)
(* task has the CPU (cpu), and nothing else happens.  Where the balls      *)
(* really are (ball) is the environment's; the program learns it from the  *)
(* switches of a device, at a recount.                                     *)
(***************************************************************************)
EXTENDS Integers, FiniteSets, FiniteSetsExt

CONSTANTS
  Devices,      \* device numbers, scanned in this order by device_probe
  Trough,       \* DEVNO_TROUGH
  Nobody,       \* no device
  Size,         \* the number of switches of a device
  InitMax,      \* init_max_count: the balls it may hold at first
  NumBalls,     \* MACHINE_MAX_BALLS
  MaxErrors,    \* failed kicks before a device gives up: 20 and 7
  MaxStarts,    \* 3, refusals to start with a ball missing
  MaxProbes,    \* 10, kicks of one device_probe
  Sleepy,       \* devices with a machine event handler that sleeps
  CoilFails,    \* whether a kick may fail: the ball stays or falls back
  Leaky,        \* devices a ball may leave without a kick
  Surprises,    \* bound: live_balls from which none leaves a leaky device
  Multiball,    \* bound: live_balls from which game code adds and unlocks no ball
  AutoServe,    \* HAVE_AUTO_SERVE
  Effects,      \* whether display effects take kickout locks
  Starts        \* bound: attempts to start a game with a ball missing

Byte    == 256
Free    == 0                          \* the values of req_lock
Done    == 128
Held(d) == 128 + d + 1

ASSUME DeviceAssumption ==
  /\ Devices \subseteq Nat /\ IsFiniteSet(Devices) /\ Trough \in Devices
  /\ Nobody \notin Devices
  /\ Size \in [Devices -> 1 .. Byte - 1]
  /\ InitMax \in [Devices -> 0 .. Byte - 1]
  /\ \A d \in Devices : InitMax[d] <= Size[d]
  /\ NumBalls \in 1 .. 15
  /\ MaxErrors \in [Devices -> 1 .. Byte - 1]
  /\ MaxStarts \in Nat /\ MaxProbes \in Nat /\ Starts \in Nat
  /\ Sleepy \subseteq Devices /\ Leaky \subseteq Devices
  /\ {Surprises, Multiball} \subseteq 0 .. Byte
  /\ {CoilFails, AutoServe, Effects} \subseteq BOOLEAN

VARIABLES
  ball,          \* the balls really in each device
  lane,          \* the balls kicked from each device and still on their way out
  moved,         \* devices with a switch task still to run
  dev,           \* device_table
  at,            \* where the update task of a device is, "none" if there is none
  todo,          \* the events it still has to throw
  cpu,           \* the device whose update task is running
  missing_balls, live_balls,
  game,          \* "attract", "starting", "play", "bonus", "over"
  valid_playfield,
  kickout_locks, \* whether any is held
  device_game_start_errors,
  probe,         \* where device_probe is: "none", "scan", "wait"
  kicks,         \* the kicks it has made
  req_lock, sol_pulse_timer, sol_pulsing, \* as in module Solenoid
  clean          \* history: no ball was out or on its way out of a device
                 \* when the ball was started

physical == <<ball, lane, moved>>
table    == <<dev, missing_balls, live_balls>>
tasks    == <<at, todo, cpu>>
play     == <<game, valid_playfield, kickout_locks, device_game_start_errors, clean>>
probing  == <<probe, kicks>>
solenoid == <<req_lock, sol_pulse_timer, sol_pulsing>>
vars     == <<physical, table, tasks, play, probing, solenoid>>

InGame   == game \notin {"attract", "over"}      \* in_game
InPlay   == game \in {"starting", "play"}       \* in_game && !in_bonus
Quiet    == cpu = Nobody

(* The balls counted per device, numbered in each of them, and their sum.  *)
Balls(count) == {b \in Devices \X (1 .. NumBalls) : b[2] <= count[b[1]]}
Total(count) == Cardinality(Balls(count))

Loose       == NumBalls - Total(ball)
OnPlayfield == Loose - Total(lane)

(* Variants of the code, wrong ones, are named ...Bug: none is used below.  *)

(* device_update_globals.                                                  *)
Missing(t) ==
  LET m == (NumBalls - Total([d \in Devices |-> t[d].actual])) % Byte
  IN  IF m > 240 THEN 0 ELSE m

(* device_request_kick, n times, on the record of the device.              *)
KickableCount(x) == (x.actual - x.kicks_needed) % Byte
RequestedTimesBug(x, n) == [x EXCEPT !.kicks_needed = (@ + n) % Byte, !.kick_errors = 0]
RequestedTimes(x, n) ==
  LET valid == Min({n, KickableCount(x)})
  IN  IF valid = 0 THEN x
      ELSE [x EXCEPT !.kicks_needed = (@ + valid) % Byte, !.kick_errors = 0]
Requested(x) == RequestedTimes(x, 1)

RestartBug(d) ==
  /\ at' = [at EXCEPT ![d] = "none"]
  /\ todo' = [todo EXCEPT ![d] = 0]

(* From any other task, the update task is killed and made again.          *)
Restart(d) ==
  /\ at' = [at EXCEPT ![d] = "settle"]
  /\ todo' = [todo EXCEPT ![d] = 0]

Goto(d, where) ==
  /\ at' = [at EXCEPT ![d] = where]
  /\ UNCHANGED todo

-----------------------------------------------------------------------------
(* The playfield, and the switch task of a device, which starts the update *)
(* task unless there is one.                                               *)

BallEnters(d) ==
  /\ Quiet
  /\ OnPlayfield > 0 /\ ball[d] < Size[d]
  /\ ball' = [ball EXCEPT ![d] = @ + 1]
  /\ moved' = moved \cup {d}
  /\ UNCHANGED <<lane, table, tasks, play, probing, solenoid>>

(* A ball kicked from a device may fall back, and takes longer to be gone  *)
(* than the device to notice that it has left.                             *)
BallFallsBack(d) ==
  /\ Quiet
  /\ CoilFails
  /\ lane[d] > 0 /\ ball[d] < Size[d]
  /\ lane' = [lane EXCEPT ![d] = @ - 1]
  /\ ball' = [ball EXCEPT ![d] = @ + 1]
  /\ moved' = moved \cup {d}
  /\ UNCHANGED <<table, tasks, play, probing, solenoid>>

BallGone(d) ==
  /\ Quiet
  /\ lane[d] > 0 /\ dev[d].actual = ball[d]
  /\ lane' = [lane EXCEPT ![d] = 0]
  /\ UNCHANGED <<ball, moved, table, tasks, play, probing, solenoid>>

BallEscapes(d) ==
  /\ Quiet
  /\ d \in Leaky /\ live_balls < Surprises /\ ball[d] > 0
  /\ ball' = [ball EXCEPT ![d] = @ - 1]
  /\ moved' = moved \cup {d}
  /\ UNCHANGED <<lane, table, tasks, play, probing, solenoid>>

DeviceSwHandler(d) ==
  /\ Quiet
  /\ d \in moved
  /\ moved' = moved \ {d}
  /\ at' = IF at[d] = "none" THEN [at EXCEPT ![d] = "settle"] ELSE at
  /\ UNCHANGED <<ball, lane, table, todo, cpu, play, probing, solenoid>>

(* set_valid_playfield, from a playfield switch.                           *)
SetValidPlayfield ==
  /\ Quiet
  /\ InGame /\ ~valid_playfield /\ OnPlayfield > 0
  /\ valid_playfield' = TRUE
  /\ UNCHANGED <<physical, table, tasks, game, kickout_locks,
                 device_game_start_errors, clean, probing, solenoid>>

(* A display effect takes and releases a kickout lock.                     *)
KickoutLock ==
  /\ Quiet
  /\ Effects
  /\ InGame \/ kickout_locks
  /\ kickout_locks' = ~kickout_locks
  /\ UNCHANGED <<physical, table, tasks, game, valid_playfield,
                 device_game_start_errors, clean, probing, solenoid>>

-----------------------------------------------------------------------------
(* device_update, first part: the sleeps (one of settle_delay and one of   *)
(* 50 ms, or only the second), the recount and its meaning.                *)

Idle(d)      == dev[d].state = "idle"
Releasing(d) == dev[d].state = "releasing" /\ dev[d].kicks_needed > 0
Before(d)    == dev[d].actual
Recounted(d) == [dev EXCEPT ![d].actual = ball[d]]

(* settle_delay, 700 ms unless a machine says otherwise, outlasts a pulse. *)
Recount(d) ==
  /\ Quiet
  /\ at[d] = "settle"
  /\ sol_pulse_timer = 0 \/ sol_pulsing # d
  /\ UNCHANGED <<physical, game, kickout_locks, device_game_start_errors, clean,
                 probing, solenoid>>

CountSame(d) ==
  /\ Recount(d)
  /\ \/ Idle(d) /\ ball[d] = Before(d)
     \/ ~Idle(d) /\ ~Releasing(d)
  /\ dev' = Recounted(d)
  /\ missing_balls' = Missing(dev')
  /\ Goto(d, "decide") /\ cpu' = d
  /\ UNCHANGED <<live_balls, valid_playfield>>

SurpriseRelease(d) ==
  /\ Recount(d)
  /\ Idle(d) /\ ball[d] < Before(d)
  /\ dev' = Recounted(d)
  /\ LET found == InGame /\ Missing(dev') > 0              \* device_add_live
     IN  /\ missing_balls' = Missing(dev') - (IF found THEN 1 ELSE 0)
         /\ live_balls' = (live_balls + (IF found THEN 1 ELSE 0)) % Byte
  /\ Goto(d, "decide") /\ cpu' = d
  /\ UNCHANGED valid_playfield

CountRose(d) ==
  /\ Recount(d)
  /\ Idle(d) /\ ball[d] > Before(d)
  /\ dev' = Recounted(d)
  /\ missing_balls' = Missing(dev')
  /\ valid_playfield' = (valid_playfield \/ (d # Trough /\ InGame))
  /\ at' = [at EXCEPT ![d] = "enter"]
  /\ todo' = [todo EXCEPT ![d] = ball[d] - Before(d)]
  /\ cpu' = d
  /\ UNCHANGED live_balls

(* The error sleep is in the middle of the function, before the rest.      *)
KickFailed(d) ==
  /\ Recount(d)
  /\ Releasing(d) /\ ball[d] >= Before(d)
  /\ dev[d].kick_errors + 1 # MaxErrors[d]
  /\ dev' = [Recounted(d) EXCEPT ![d].kick_errors = @ + 1]
  /\ missing_balls' = Missing(dev')
  /\ Goto(d, "retry")
  /\ UNCHANGED <<live_balls, valid_playfield, cpu>>

KickGivenUp(d) ==
  /\ Recount(d)
  /\ Releasing(d) /\ ball[d] >= Before(d)
  /\ dev[d].kick_errors + 1 = MaxErrors[d]
  /\ dev' = [Recounted(d) EXCEPT ![d].kick_errors = @ + 1,
                                 ![d].kicks_needed = 0, ![d].state = "idle"]
  /\ missing_balls' = Missing(dev')
  /\ Goto(d, "decide") /\ cpu' = d
  /\ UNCHANGED <<live_balls, valid_playfield>>

KickWorked(d) ==
  /\ Recount(d)
  /\ Releasing(d) /\ ball[d] < Before(d)
  /\ dev' = Recounted(d)
  /\ missing_balls' = Missing(dev')
  /\ at' = [at EXCEPT ![d] = "success"]
  /\ todo' = [todo EXCEPT ![d] = Min({Before(d) - ball[d], dev[d].kicks_needed})]
  /\ cpu' = d
  /\ UNCHANGED <<live_balls, valid_playfield>>

-----------------------------------------------------------------------------
(* The enter and kick_success events: the trough counts balls in play, a   *)
(* machine may lock the ball, and its handlers may sleep.                  *)

Throw(d, event) ==
  /\ cpu = d
  /\ at[d] = event /\ todo[d] > 0
  /\ UNCHANGED <<physical, kickout_locks, device_game_start_errors, clean, probing, solenoid>>

Thrown(d) == todo' = [todo EXCEPT ![d] = @ - 1] /\ UNCHANGED <<at, cpu>>

(* Out of a game, or a device with no handler.                             *)
EnterUnheard(d) ==
  /\ Throw(d, "enter")
  /\ ~InGame \/ d # Trough
  /\ Thrown(d)
  /\ UNCHANGED <<table, game, valid_playfield>>

(* device_remove_live: a missing ball was found.                           *)
RemoveMissing ==
  /\ Throw(Trough, "enter")
  /\ InGame
  /\ missing_balls > live_balls
  /\ missing_balls' = missing_balls - 1
  /\ Thrown(Trough)
  /\ UNCHANGED <<dev, live_balls, game, valid_playfield>>

RemoveNothingBug ==
  /\ Throw(Trough, "enter")
  /\ InGame
  /\ missing_balls <= live_balls
  /\ live_balls = 0 \/ ~InPlay
  /\ live_balls' = live_balls - 1
  /\ Thrown(Trough)
  /\ UNCHANGED <<dev, missing_balls, game, valid_playfield>>

RemoveNothing ==
  /\ Throw(Trough, "enter")
  /\ InGame
  /\ missing_balls <= live_balls
  /\ live_balls = 0 \/ ~InPlay
  /\ live_balls' = IF live_balls > 0 THEN live_balls - 1 ELSE 0
  /\ Thrown(Trough)
  /\ UNCHANGED <<dev, missing_balls, game, valid_playfield>>

BallDrainBug ==
  /\ Throw(Trough, "enter")
  /\ InPlay
  /\ missing_balls <= live_balls /\ live_balls > 0
  /\ UNCHANGED <<missing_balls, live_balls>>

BallDrain ==
  /\ Throw(Trough, "enter")
  /\ InPlay
  /\ missing_balls <= live_balls /\ live_balls > 0
  /\ live_balls' = live_balls - 1
  /\ UNCHANGED missing_balls

(* ballsave_launch: the ball goes back into play by serve_ball_auto, which *)
(* makes the playfield valid if there is an autoplunger, and not otherwise.*)
BallSaved ==
  /\ BallDrain
  /\ valid_playfield' = AutoServe
  /\ dev' = [dev EXCEPT ![Trough] = Requested(@)]
  /\ Thrown(Trough)
  /\ UNCHANGED game

BallsLeft == live_balls - 1 + dev[Trough].kicks_needed

DrainMultiball ==
  /\ BallDrain
  /\ BallsLeft # 0
  /\ Thrown(Trough)
  /\ UNCHANGED <<dev, game, valid_playfield>>

ServeAgainBug ==
  /\ BallDrain
  /\ BallsLeft = 0 /\ ~valid_playfield
  /\ Thrown(Trough)
  /\ UNCHANGED <<dev, game, valid_playfield>>

(* end_ball before valid playfield: the ball is served again.              *)
ServeAgain ==
  /\ BallDrain
  /\ BallsLeft = 0 /\ ~valid_playfield
  /\ dev' = [dev EXCEPT ![Trough] = Requested(@)]
  /\ Thrown(Trough)
  /\ UNCHANGED <<game, valid_playfield>>

(* end_ball: the task is the trough's no more (task_setgid).               *)
EndBall ==
  /\ BallDrain
  /\ BallsLeft = 0 /\ valid_playfield
  /\ game' = "bonus"
  /\ at' = [at EXCEPT ![Trough] = "none"]
  /\ todo' = [todo EXCEPT ![Trough] = 0]
  /\ cpu' = Nobody
  /\ UNCHANGED <<dev, valid_playfield>>

DeviceLockBallBug(d) ==
  /\ Throw(d, "enter")
  /\ InPlay /\ d # Trough
  /\ dev[d].max_count < Size[d]
  /\ live_balls' = (live_balls - (IF KickableCount(dev[d]) > 0 THEN 1 ELSE 0)) % Byte
  /\ IF dev[Trough].actual > 0
       THEN /\ dev' = [dev EXCEPT ![Trough] = Requested(@)]
            /\ valid_playfield' = FALSE
            /\ at' = [at EXCEPT ![Trough] = "settle"]
            /\ todo' = [todo EXCEPT ![d] = @ - 1, ![Trough] = 0]
       ELSE /\ todo' = [todo EXCEPT ![d] = @ - 1]
            /\ UNCHANGED <<dev, valid_playfield, at>>
  /\ UNCHANGED <<missing_balls, game, cpu>>

(* device_lock_ball in the enter handler of a machine, which sees to it    *)
(* that the device is not full (ERR_LOCK_FULL_DEVICE, a reset).  A ball is *)
(* served from the trough, or by an empty_trough_kick handler: one machine *)
(* has it (funhouse/mb.c:312, which unlocks another device's ball) and is  *)
(* not modelled; without it callset_invoke_boolean is TRUE.                *)
DeviceLockBall(d) ==
  /\ Throw(d, "enter")
  /\ InPlay /\ d # Trough
  /\ dev[d].max_count < Size[d]
  /\ live_balls' = (live_balls - (IF KickableCount(dev[d]) > 0 THEN 1 ELSE 0)) % Byte
  /\ IF dev[Trough].actual > 0
       THEN /\ dev' = [dev EXCEPT ![d].max_count = @ + 1, ![Trough] = Requested(@)]
            /\ valid_playfield' = FALSE
            /\ at' = [at EXCEPT ![Trough] = "settle"]
            /\ todo' = [todo EXCEPT ![d] = @ - 1, ![Trough] = 0]
       ELSE /\ dev' = [dev EXCEPT ![d].max_count = @ + 1]
            /\ todo' = [todo EXCEPT ![d] = @ - 1]
            /\ UNCHANGED <<valid_playfield, at>>
  /\ UNCHANGED <<missing_balls, game, cpu>>

(* device_add_live for the trough; kicks_needed goes down only when the    *)
(* handlers have returned.                                                 *)
KickSuccess(d) ==
  /\ Throw(d, "success")
  /\ LET found == d = Trough /\ InGame /\ missing_balls > 0
     IN  /\ missing_balls' = missing_balls - (IF found THEN 1 ELSE 0)
         /\ live_balls' = (live_balls + (IF found THEN 1 ELSE 0)) % Byte
  /\ Goto(d, "kicked")
  /\ UNCHANGED <<dev, game, valid_playfield, cpu>>

KickCounted(d) ==
  /\ Throw(d, "kicked")
  /\ dev' = [dev EXCEPT ![d].kicks_needed = (@ - 1) % Byte,
                        ![d].state = IF todo[d] = 1 THEN "idle" ELSE @]
  /\ todo' = [todo EXCEPT ![d] = @ - 1]
  /\ at' = [at EXCEPT ![d] = IF todo[d] = 1 THEN "decide" ELSE "success"]
  /\ UNCHANGED <<missing_balls, live_balls, game, valid_playfield, cpu>>

EntersDone(d) ==
  /\ cpu = d
  /\ at[d] = "enter" /\ todo[d] = 0
  /\ Goto(d, "decide")
  /\ UNCHANGED <<physical, table, cpu, play, probing, solenoid>>

HandlerSleeps(d) ==
  /\ cpu = d /\ d \in Sleepy /\ InGame
  /\ at[d] \in {"enter", "kicked"}
  /\ cpu' = Nobody
  /\ UNCHANGED <<physical, table, at, todo, play, probing, solenoid>>

HandlerWakes(d) ==
  /\ Quiet
  /\ at[d] \in {"enter", "kicked"}
  /\ cpu' = d
  /\ UNCHANGED <<physical, table, at, todo, play, probing, solenoid>>

-----------------------------------------------------------------------------
(* device_update, second part: excess balls, kicks, the last recount.      *)

Overfull(x) == x.kicks_needed = 0 /\ x.actual > x.max_count

Decided(x) == IF Overfull(x) THEN [x EXCEPT !.kicks_needed = 1, !.kick_errors = 0] ELSE x

MustKick(x) == x.kicks_needed > 0 /\ x.actual > 0

Decide(d) ==
  /\ (cpu = d /\ at[d] = "decide") \/ (Quiet /\ at[d] = "retry")
  /\ missing_balls' = Missing(dev)
  /\ UNCHANGED <<physical, live_balls, play, probing, solenoid>>

(* The recount makes the new count the previous one of the next update.    *)
Finish(d) ==
  /\ Decide(d)
  /\ ~MustKick(Decided(dev[d]))
  /\ dev' = [dev EXCEPT ![d].kicks_needed = 0, ![d].actual = ball[d]]
  /\ Goto(d, IF ball[d] = dev[d].actual THEN "none" ELSE "settle")
  /\ cpu' = Nobody

(* A kickout lock is held, or a kick_request handler says not now.         *)
Delay(d) ==
  /\ Decide(d)
  /\ MustKick(Decided(dev[d]))
  /\ dev' = [dev EXCEPT ![d] = Decided(@)]
  /\ Goto(d, "settle")
  /\ cpu' = Nobody

KickAttempt(d) ==
  /\ Decide(d)
  /\ MustKick(Decided(dev[d]))
  /\ d = Trough \/ ~kickout_locks
  /\ dev' = [dev EXCEPT ![d] = [Decided(@) EXCEPT !.state = "releasing"]]
  /\ Goto(d, "attempt")
  /\ cpu' = d

(* sol_request.                                                            *)
Busy == req_lock # Free \/ sol_pulse_timer # 0

SolAllocWaits(d) ==
  /\ cpu = d /\ at[d] = "attempt"
  /\ Busy \/ d \in Sleepy
  /\ cpu' = Nobody
  /\ UNCHANGED <<physical, table, at, todo, play, probing, solenoid>>

SolAlloc(d) ==
  /\ cpu \in {d, Nobody} /\ at[d] = "attempt"
  /\ ~Busy
  /\ req_lock' = Held(d) /\ sol_pulsing' = d /\ sol_pulse_timer' = 1
  /\ Goto(d, "pulse") /\ cpu' = Nobody
  /\ UNCHANGED <<physical, table, play, probing>>

SolFreeBug(d) ==
  /\ Quiet
  /\ at[d] = "pulse"
  /\ req_lock' = Free
  /\ Goto(d, "settle")
  /\ UNCHANGED <<physical, table, cpu, play, probing, sol_pulse_timer, sol_pulsing>>

SolFree(d) ==
  /\ Quiet
  /\ at[d] = "pulse" /\ req_lock = Done
  /\ req_lock' = Free
  /\ Goto(d, "settle")
  /\ UNCHANGED <<physical, table, cpu, play, probing, sol_pulse_timer, sol_pulsing>>

(* The pulse ends, with or without the ball.                               *)
PulseEnds ==
  /\ Quiet
  /\ sol_pulse_timer = 1
  /\ sol_pulse_timer' = 0
  /\ req_lock' = IF req_lock = Free THEN Free ELSE Done
  /\ UNCHANGED sol_pulsing

PulseKicks ==
  /\ PulseEnds
  /\ ball[sol_pulsing] > 0
  /\ ball' = [ball EXCEPT ![sol_pulsing] = @ - 1]
  /\ lane' = [lane EXCEPT ![sol_pulsing] = @ + 1]
  /\ moved' = moved \cup {sol_pulsing}
  /\ UNCHANGED <<table, tasks, play, probing>>

PulseFails ==
  /\ PulseEnds
  /\ CoilFails \/ ball[sol_pulsing] = 0
  /\ UNCHANGED <<physical, table, tasks, play, probing>>

-----------------------------------------------------------------------------
(* Requests from game code, in a task of its own.                          *)

(* set_ball_count, up to the balls in the trough, if it has any.           *)
SetBallCount(count) ==
  LET adds == Min({count - live_balls, dev[Trough].actual})
  IN  /\ Quiet
      /\ live_balls < Multiball /\ game = "play"
      /\ adds > 0
      /\ valid_playfield' = AutoServe
      /\ dev' = [dev EXCEPT ![Trough] = RequestedTimes(@, adds)]
      /\ Restart(Trough)
      /\ UNCHANGED <<physical, missing_balls, live_balls, cpu, game, kickout_locks,
                     device_game_start_errors, clean, probing, solenoid>>

DeviceUnlockBall(d) ==
  /\ Quiet
  /\ live_balls < Multiball /\ game = "play" /\ d # Trough
  /\ dev[d].max_count > 0
  /\ dev' = [dev EXCEPT ![d] = Requested([@ EXCEPT !.max_count = dev[d].max_count - 1])]
  /\ live_balls' = (live_balls + (IF KickableCount(dev[d]) > 0 THEN 1 ELSE 0)) % Byte
  /\ Restart(d)
  /\ UNCHANGED <<physical, missing_balls, cpu, play, probing, solenoid>>

(* device_request_empty.                                                   *)
Emptied(d, x) == [x EXCEPT !.kicks_needed = (@ + KickableCount(x)) % Byte,
                           !.kick_errors = 0, !.max_count = InitMax[d]]

DeviceRequestEmpty(d) ==
  /\ Quiet
  /\ live_balls < Multiball /\ game = "play" /\ d # Trough
  /\ dev' = [dev EXCEPT ![d] = Emptied(d, @)]
  /\ live_balls' = (live_balls + KickableCount(dev[d])) % Byte
  /\ Restart(d)
  /\ UNCHANGED <<physical, missing_balls, cpu, play, probing, solenoid>>

-----------------------------------------------------------------------------
(* Games: device_check_start_ok, start_ball, the end of the bonus.         *)

AtStartButton == Quiet /\ ~InGame /\ probe = "none"

Tolerated == missing_balls = 0 \/
             (device_game_start_errors >= MaxStarts /\ missing_balls < NumBalls)

StartGame ==
  /\ AtStartButton
  /\ Tolerated
  /\ device_game_start_errors' =
       IF missing_balls = 0 THEN device_game_start_errors ELSE device_game_start_errors + 1
  /\ device_game_start_errors' <= Starts
  /\ kickout_locks' = FALSE
  /\ game' = "starting"
  /\ UNCHANGED <<physical, table, tasks, valid_playfield, clean, probing, solenoid>>

StartRefused ==
  /\ AtStartButton
  /\ ~Tolerated
  /\ device_game_start_errors < Starts
  /\ device_game_start_errors' = device_game_start_errors + 1
  /\ kickout_locks' = FALSE
  /\ probe' = "scan" /\ kicks' = 0
  /\ UNCHANGED <<physical, table, tasks, game, valid_playfield, clean, solenoid>>

StartIgnored ==
  /\ Quiet
  /\ ~InGame /\ probe # "none"
  /\ kickout_locks' = FALSE
  /\ UNCHANGED <<physical, table, tasks, game, valid_playfield, clean,
                 device_game_start_errors, probing, solenoid>>

AtRest(d) == /\ d \notin moved /\ at[d] = "none"
             /\ ball[d] = dev[d].actual /\ ball[d] <= dev[d].max_count

StartBall ==
  /\ Quiet
  /\ game \in {"starting", "bonus"}
  /\ game' = "play"
  /\ live_balls' = 0 /\ kickout_locks' = FALSE /\ valid_playfield' = FALSE
  /\ dev' = [dev EXCEPT ![Trough] = Requested(@)]
  /\ Restart(Trough)
  /\ clean' = (Loose = 0 /\ sol_pulse_timer = 0 /\ \A d \in Devices : AtRest(d))
  /\ UNCHANGED <<physical, missing_balls, cpu, device_game_start_errors, probing, solenoid>>

(* end_game_task: stop_game, and amode_start unless a game starts first.   *)
StopGame ==
  /\ Quiet
  /\ game = "bonus"
  /\ game' = "over"
  /\ valid_playfield' = FALSE
  /\ UNCHANGED <<physical, table, tasks, kickout_locks, clean,
                 device_game_start_errors, probing, solenoid>>

AmodeStart ==
  /\ Quiet
  /\ game = "over"
  /\ game' = "attract"
  /\ live_balls' = 0 /\ device_game_start_errors' = 0
  /\ probe' = "scan" /\ kicks' = 0
  /\ UNCHANGED <<physical, dev, missing_balls, tasks, valid_playfield, kickout_locks,
                 clean, solenoid>>

(* device_probe, one pass up to the first device with too many balls.      *)
Extra  == {d \in Devices : ball[d] > InitMax[d]}
Probed == IF Extra = {} THEN Devices ELSE {d \in Devices : d <= Min(Extra)}

Cleared(d) == [dev[d] EXCEPT !.actual = ball[d], !.max_count = InitMax[d],
                             !.kicks_needed = IF d \in Extra THEN 1 ELSE 0,
                             !.kick_errors = 0]

DeviceProbe ==
  /\ Quiet
  /\ probe = "scan" /\ kicks < MaxProbes
  /\ dev' = [d \in Devices |-> IF d \in Probed THEN Cleared(d) ELSE dev[d]]
  /\ at' = [d \in Devices |-> IF d \notin Probed THEN at[d]
                              ELSE IF d \in Extra THEN "settle" ELSE "none"]
  /\ todo' = [d \in Devices |-> IF d \in Probed THEN 0 ELSE todo[d]]
  /\ live_balls' = IF Extra = {} \/ Min(Extra) = Trough
                     THEN live_balls ELSE (live_balls + 1) % Byte
  /\ IF Extra = {} THEN probe' = "wait" /\ UNCHANGED kicks
                   ELSE kicks' = kicks + 1 /\ UNCHANGED probe
  /\ UNCHANGED <<physical, missing_balls, cpu, play, solenoid>>

ProbeGivesUp ==
  /\ Quiet
  /\ probe = "scan" /\ kicks = MaxProbes
  /\ probe' = "wait"
  /\ UNCHANGED <<physical, table, tasks, play, kicks, solenoid>>

ProbeExit ==
  /\ Quiet
  /\ probe = "wait"
  /\ missing_balls' = Missing(dev)
  /\ probe' = "none" /\ kicks' = 0
  /\ UNCHANGED <<physical, dev, live_balls, tasks, play, solenoid>>

-----------------------------------------------------------------------------
(* device_init, with the balls anywhere; init_complete starts the probe.   *)
Init ==
  /\ ball \in [Devices -> 0 .. NumBalls]
  /\ \A d \in Devices : ball[d] <= Size[d]
  /\ Loose >= 0
  /\ lane = [d \in Devices |-> 0] /\ moved = {}
  /\ dev = [d \in Devices |-> [actual |-> 0, max_count |-> InitMax[d],
                               kicks_needed |-> 0, kick_errors |-> 0, state |-> "idle"]]
  /\ at = [d \in Devices |-> "none"] /\ todo = [d \in Devices |-> 0] /\ cpu = Nobody
  /\ missing_balls = 0 /\ live_balls = 0
  /\ game = "attract" /\ valid_playfield = FALSE /\ kickout_locks = FALSE
  /\ device_game_start_errors = 0 /\ clean = FALSE
  /\ probe = "scan" /\ kicks = 0
  /\ req_lock = Free /\ sol_pulse_timer = 0 /\ sol_pulsing = Nobody

Update(d) ==
  \/ CountSame(d) \/ SurpriseRelease(d) \/ CountRose(d)
  \/ KickFailed(d) \/ KickGivenUp(d) \/ KickWorked(d)
  \/ EnterUnheard(d) \/ DeviceLockBall(d) \/ EntersDone(d)
  \/ KickSuccess(d) \/ KickCounted(d)
  \/ HandlerSleeps(d) \/ HandlerWakes(d)
  \/ Finish(d) \/ Delay(d) \/ KickAttempt(d)
  \/ SolAllocWaits(d) \/ SolAlloc(d) \/ SolFree(d)

TroughEnter == RemoveMissing \/ RemoveNothing \/ BallSaved \/ DrainMultiball
               \/ ServeAgain \/ EndBall

Pulse == PulseKicks \/ PulseFails

Probe == DeviceProbe \/ ProbeGivesUp \/ ProbeExit

Game == StartGame \/ StartRefused \/ StartIgnored \/ StartBall \/ StopGame \/ AmodeStart

Playfield == \/ \E d \in Devices : BallEnters(d) \/ BallEscapes(d)
                                  \/ BallFallsBack(d) \/ BallGone(d)
             \/ SetValidPlayfield \/ KickoutLock

Requests == \/ \E count \in 1 .. NumBalls : SetBallCount(count)
            \/ \E d \in Devices : DeviceUnlockBall(d) \/ DeviceRequestEmpty(d)

Next == \/ Playfield \/ Game \/ Probe \/ Pulse \/ TroughEnter \/ Requests
        \/ \E d \in Devices : Update(d) \/ DeviceSwHandler(d)

Spec == Init /\ [][Next]_vars

(* Tasks are scheduled and pulses end.  A handler that delays a kick lets  *)
(* it go in the end, and the solenoid is not always busy when it is        *)
(* polled.                                                                 *)
Fairness ==
  /\ WF_vars(Pulse) /\ WF_vars(TroughEnter)
  /\ \A d \in Devices : /\ WF_vars(Update(d)) /\ WF_vars(DeviceSwHandler(d))
                        /\ SF_vars(KickAttempt(d)) /\ SF_vars(SolAlloc(d))
                        /\ WF_vars(BallGone(d))

FairSpec == Spec /\ Fairness

-----------------------------------------------------------------------------
TypeOK ==
  /\ ball \in [Devices -> 0 .. NumBalls]
  /\ lane \in [Devices -> 0 .. NumBalls]
  /\ moved \subseteq Devices
  /\ dev \in [Devices -> [actual : 0 .. NumBalls, max_count : 0 .. Byte - 1,
                          kicks_needed : 0 .. Byte - 1, kick_errors : 0 .. Byte - 1,
                          state : {"idle", "releasing"}]]
  /\ at \in [Devices -> {"none", "settle", "enter", "success", "kicked",
                         "retry", "decide", "attempt", "pulse"}]
  /\ todo \in [Devices -> 0 .. NumBalls]
  /\ cpu \in Devices \cup {Nobody}
  /\ missing_balls \in 0 .. Byte - 1 /\ live_balls \in 0 .. Byte - 1
  /\ game \in {"attract", "starting", "play", "bonus", "over"}
  /\ valid_playfield \in BOOLEAN /\ kickout_locks \in BOOLEAN
  /\ device_game_start_errors \in 0 .. Starts
  /\ probe \in {"none", "scan", "wait"} /\ kicks \in 0 .. MaxProbes
  /\ req_lock \in {Held(d) : d \in Devices} \cup {Free, Done}
  /\ clean \in BOOLEAN
  /\ sol_pulse_timer \in {0, 1} /\ sol_pulsing \in Devices \cup {Nobody}

AllAtRest == /\ moved = {} /\ sol_pulse_timer = 0
             /\ \A d \in Devices : at[d] = "none"

InCleanPlay == game = "play" /\ clean

(* When nothing is going on, the program's count of the balls in play is   *)
(* the number of balls that are out of the devices ("keeps track of the    *)
(* total number of balls in play at all times").                           *)
BallsAccounted == InCleanPlay /\ AllAtRest => live_balls = Loose

(* A ball ends when the last ball has drained, never with one still out or *)
(* on its way out of a device.                                             *)
AllDrained == Loose = 0 /\ \A d \in Devices \ {Trough} : ball[d] <= dev[d].max_count

BallEndsWhenDrained == [][InCleanPlay /\ game' = "bonus" => AllDrained]_vars

(* In a game at rest there is a ball for the player: after a lock, a save, *)
(* a failed kick or a drain before valid playfield another one is served,  *)
(* unless the trough has given up kicking it.                              *)
GameGoesOn ==
  InCleanPlay /\ AllAtRest =>
    Loose > 0 \/ dev[Trough].kick_errors = MaxErrors[Trough]

(* What a device holds without being known to hold it, or beyond what it   *)
(* should hold, is somebody's business: a switch task, the update task or  *)
(* a pulse; no ball is forgotten.                                          *)
NoBallForgotten ==
  InGame => \A d \in Devices :
    \/ ball[d] = dev[d].actual /\ ball[d] <= dev[d].max_count
    \/ d \in moved \/ at[d] # "none"
    \/ probe = "scan"
    \/ sol_pulse_timer # 0 /\ sol_pulsing = d

(* Whenever another task runs, no more kicks are pending than the device   *)
(* has balls, so the U8 difference of device_kickable_count never wraps.   *)
KicksCovered == Quiet => \A d \in Devices : dev[d].kicks_needed <= dev[d].actual

(* A ball that is started comes to the playfield, unless the trough gives  *)
(* up.  (The solenoid lock must not have been lost before.)                *)
GaveUp == dev[Trough].kick_errors = MaxErrors[Trough]

BallIsServed ==
  (InCleanPlay /\ req_lock = Free) ~> (OnPlayfield > 0 \/ GaveUp \/ game # "play")

-----------------------------------------------------------------------------
(* Update tasks use the solenoid driver as its module says, killed ones    *)
(* included.                                                               *)
UserAt(where) == IF where = "pulse" THEN "free" ELSE "none"

Sol == INSTANCE Solenoid WITH
         Sols <- Devices, NoSol <- Nobody, PulseTicks <- 1, QueueLen <- 1, Kills <- TRUE,
         user <- [d \in Devices |-> UserAt(at[d])],
         elems <- [i \in {0} |-> Nobody], head <- 0, tail <- 0

SolenoidSpec == Sol!Spec
=============================================================================
