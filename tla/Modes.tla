------------------------------- MODULE Modes --------------------------------
(***************************************************************************)
(* The modes of a ball, in the game of module Game: a timed mode           *)
(* (kernel/timedmode.c, which system_timer_pause of kernel/timer.c stops)  *)
(* and multiball modes (kernel/mbmode.c), as their drivers use them        *)
(* (machine/tz/spiral.c, machine/tom/rules.c, machine/afm/bonusmb.c).      *)
(*                                                                         *)
(* Each mode is a task, which the tilt, the end of the ball and the end of *)
(* the game kill without the mode being told, and variables, which the     *)
(* handlers of end_ball and start_ball put right.  What the game does and  *)
(* the handlers of the events it throws are one step.                      *)
(***************************************************************************)
EXTENDS Game, FiniteSets

CONSTANTS
  Mbs,        \* the multiball modes
  InitTimer,  \* init_timer of the timed mode
  TimeAdded,  \* what timed_mode_add adds
  ByteSize    \* bound: 2^8, for the timer and mb_mode_count

ASSUME ModesAssumption ==
  /\ IsFiniteSet(Mbs)
  /\ ByteSize \in Nat \ {0}
  /\ {InitTimer, TimeAdded} \subseteq 1 .. ByteSize - 1
  /\ Cardinality(Mbs) < ByteSize

VARIABLES
  m   \* timer and task of the timed mode, whether it is open: begun and not
      \* exited; state and task of each multiball mode; mb_mode_count

mvars == <<vars, m>>

(* What a mode starts and awards is in play only.                          *)
LiveBall == g.in_game /\ g.valid /\ g.live > 0 /\ ~ g.in_tilt /\ ~ g.in_bonus /\ BallActs

-----------------------------------------------------------------------------
(* Bytes.                                                                  *)
LessBug(n) == n - 1
Less(n)    == IF n = 0 THEN ByteSize - 1 ELSE n - 1
More(n)    == (n + 1) % ByteSize

(* The timed mode.  Its task counts the timer down, then it sleeps in the  *)
(* grace period, then it exits.                                            *)
ExitTimed(x) == [x EXCEPT !.timer = 0, !.task = "none", !.open = FALSE]

TimedModeBegin ==
  /\ LiveBall
  /\ m' = [m EXCEPT !.timer = InitTimer, !.task = "main", !.open = TRUE]
  /\ UNCHANGED vars

SystemTimerPause == ~ g.in_game \/ ~ g.valid

(* Five rounds of the loop, and its test.                                  *)
TimedModeMonitor ==
  /\ m.task = "main" /\ ~ SystemTimerPause
  /\ m' = [m EXCEPT !.timer = Less(@), !.task = IF Less(m.timer) = 0 THEN "grace" ELSE "main"]
  /\ UNCHANGED vars

TimedModeGraceOver ==
  /\ m.task = "grace"
  /\ m' = ExitTimed(m)
  /\ UNCHANGED vars

(* timed_mode_add and timed_mode_reset: in the grace period the task is    *)
(* created again.                                                          *)
TimedModeAdd ==
  /\ LiveBall /\ m.task # "none"
  /\ m' = [m EXCEPT !.timer = (@ + TimeAdded) % ByteSize,
                    !.task = IF m.timer = 0 THEN "main" ELSE @]
  /\ UNCHANGED vars

TimedModeEndBug(x) == IF x.task = "none" THEN x ELSE ExitTimed(x)
TimedModeEnd(x)    == ExitTimed(x)

-----------------------------------------------------------------------------
(* The multiball modes.                                                    *)
(* mb_mode_update, with the task that is left.                             *)
MbModeUpdate(x, b, s, t) ==
  [x EXCEPT !.mb[b] = s, !.mbtask[b] = t,
            !.count = IF x.mb[b] = s THEN @
                      ELSE CASE s = "inactive" -> Less(@)
                             [] s = "active"   -> More(@)
                             [] s = "grace"    -> @]

MbModeStart(b) ==
  /\ LiveBall /\ m.mb[b] = "inactive"
  /\ m' = MbModeUpdate(m, b, "active", "running")
  /\ UNCHANGED vars

MbModeGraceOver(b) ==
  /\ m.mbtask[b] = "grace"
  /\ m' = MbModeUpdate(m, b, "inactive", "none")
  /\ UNCHANGED vars

(* mb_mode_single_ball, for each of the modes that runs.                   *)
MbModeSingleBallBug(x) ==
  [x EXCEPT !.mb = [b \in Mbs |-> IF x.mbtask[b] = "running" THEN "grace" ELSE x.mb[b]]]
MbModeSingleBall(x) ==
  [x EXCEPT !.mb     = [b \in Mbs |-> IF x.mbtask[b] = "running" THEN "grace" ELSE x.mb[b]],
            !.mbtask = [b \in Mbs |-> IF x.mbtask[b] = "running" THEN "grace" ELSE x.mbtask[b]]]

(* The end_ball handlers of the drivers and of mbmode.c itself, which      *)
(* clears the count; nothing orders them, so each driver that finds its    *)
(* mode running may come before or after.                                  *)
Running(x) == {b \in Mbs : x.mb[b] # "inactive"}

MbEndBall(x, after) ==
  [x EXCEPT !.mb = [b \in Mbs |-> "inactive"], !.mbtask = [b \in Mbs |-> "none"],
            !.count = (ByteSize - after) % ByteSize]

(* mb_mode_start_ball, and the clearing of the count.                      *)
MbStartBallBug(x) == [x EXCEPT !.count = 0]
MbStartBall(x) == [x EXCEPT !.mb = [b \in Mbs |-> "inactive"], !.count = 0]

-----------------------------------------------------------------------------
(* The events of the game, as handlers of m.                               *)

(* task_duration_expire.                                                   *)
KillModesBug(x) == x
KillModes(x) == [x EXCEPT !.task = "none", !.mbtask = [b \in Mbs |-> "none"]]

(* The start_ball event: start_ball is done, and its task with it.         *)
StartBallEvent(x, sleep) == IF sleep = "none" THEN MbStartBall(x) ELSE x

Quiet      == UNCHANGED m
EndsBall   == \E after \in 0 .. Cardinality(Running(m)) : m' = MbEndBall(TimedModeEnd(m), after)
LosesBall  == m' = IF g'.live = 1 /\ g.in_game /\ ~ g.in_bonus THEN MbModeSingleBall(m) ELSE m
Tilts      == m' = IF g'.in_tilt THEN KillModes(m) ELSE m
AfterBonus == m' = StartBallEvent(KillModes(m), end')
StartsGame == m' = StartBallEvent(m, start')
StartsBall == m' = StartBallEvent(m, end')
Stops      == m' = KillModes(m)
Reboots    == m' = [m EXCEPT !.timer = 0, !.task = "none", !.open = FALSE, !.count = 0,
                             !.mb = [b \in Mbs |-> "inactive"], !.mbtask = [b \in Mbs |-> "none"]]

GameStep ==
  \/ (PressStart \/ PressAdd \/ PressHold \/ HoldReleased \/ BuyinPress \/ BuyinAbort) /\ Quiet
  \/ StartTask /\ StartsGame
  \/ (SetValidPlayfield \/ DeviceAddLive \/ IncrementExtraBalls) /\ Quiet
  \/ DeviceRemoveLive /\ LosesBall
  \/ EndBall /\ EndsBall
  \/ SwTilt /\ Tilts
  \/ (BonusDone \/ TiltSettled) /\ AfterBonus
  \/ (ShootAgain \/ EndServe \/ BuyinDone) /\ StartsBall
  \/ (BuyinTick \/ EndDone \/ OverDone \/ InsertCoin) /\ Quiet
  \/ (HoldDone \/ OverStop \/ SwSlamTilt) /\ Stops
  \/ WarmReboot /\ Reboots

ModeStep ==
  \/ TimedModeBegin \/ TimedModeMonitor \/ TimedModeGraceOver \/ TimedModeAdd
  \/ \E b \in Mbs : MbModeStart(b) \/ MbModeGraceOver(b)

ModesInit ==
  /\ Init
  /\ m = [timer |-> 0, task |-> "none", open |-> FALSE, count |-> 0,
          mb |-> [b \in Mbs |-> "inactive"], mbtask |-> [b \in Mbs |-> "none"]]

ModesNext == GameStep \/ ModeStep

ModesSpec     == ModesInit /\ [][ModesNext]_mvars
ModesFairSpec == ModesSpec /\ Fairness

-----------------------------------------------------------------------------
(* The variables of the modes keep their types.                            *)
ModesTypeOK ==
  /\ TypeOK
  /\ m \in [timer : 0 .. ByteSize - 1, task : {"none", "main", "grace"}, open : BOOLEAN,
            count : 0 .. ByteSize - 1, mb : [Mbs -> {"inactive", "active", "grace"}],
            mbtask : [Mbs -> {"none", "running", "grace"}]]

(* With a ball in play, mb_mode_count is the number of multiball modes     *)
(* that are active or in grace, whatever the order of the handlers when    *)
(* the last ball ended, and after a tilt or a restart too.                 *)
CountMatches ==
  g.in_game /\ g.live > 0 /\ ~ g.in_bonus => m.count = Cardinality(Running(m))

(* A multiball mode that is not inactive has its task, but for a tilt and  *)
(* the time from a restart to the start of its ball: no mode is left on    *)
(* that nothing will end.                                                  *)
ModeHasTask ==
  g.in_game /\ g.live > 0 /\ ~ g.in_bonus /\ ~ g.in_tilt /\ start \in {"none", "hold"}
    => \A b \in Mbs : m.mbtask[b] = CASE m.mb[b] = "inactive" -> "none"
                                      [] m.mb[b] = "active"   -> "running"
                                      [] m.mb[b] = "grace"    -> "grace"

(* No task of a mode outlives the play of its ball.                        *)
NoModeOutsidePlay ==
  m.task # "none" \/ (\E b \in Mbs : m.mbtask[b] # "none")
    => g.in_game /\ ~ g.in_bonus /\ ~ g.in_tilt

(* A timed mode that has been begun has been exited before the turn passes *)
(* to another player or ball, also when a tilt has killed its task.        *)
ExitBeforeNextTurn ==
  [][TurnPasses => ~ m.open]_mvars
=============================================================================
