---------------------------- MODULE ModesProofs -----------------------------
(***************************************************************************)
(* The game and the modes of a ball, for any number of players, balls,     *)
(* extra balls, warnings, credits and modes.                               *)
(*                                                                         *)
(* No task of a mode is alive outside the play of its ball: this holds     *)
(* with every untimely event (Untimely), and so little is said of the two  *)
(* records: their fields, and which tasks a multiball mode may have.  What *)
(* else the modules promise needs their types, where the tasks of the game *)
(* sleep, and that no start button is held, no old ball acts and no game   *)
(* is started while an end_ball sleeps (Timely).  The tilt and the slam    *)
(* tilt may come at any time, and then the game halts: it sleeps where no  *)
(* turn ends (HaltInv), until the reboot or the start of another game.     *)
(* The credits are paid for unless the start button may be held while      *)
(* end_ball sleeps.                                                        *)
(***************************************************************************)
EXTENDS Modes, FiniteSetTheorems, TLAPS

Fields  == {"in_game", "in_bonus", "in_tilt", "valid", "num_players", "player_up", "ball_up",
            "live", "warnings", "offer", "passed", "extra", "bip", "local", "saved"}
MFields == {"timer", "task", "open", "count", "mb", "mbtask"}

IsMemory(x) == x = [f \in Fields |-> x[f]]
IsModes(x)  == /\ x = [f \in MFields |-> x[f]]
               /\ x.mbtask = [b \in Mbs |-> x.mbtask[b]]

(* A ball is played: no bonus, no tilt.                                    *)
Played(x)  == x.in_game /\ ~ x.in_bonus /\ ~ x.in_tilt
NoTask(x)  == x.task = "none" /\ \A b \in Mbs : x.mbtask[b] = "none"

ModesInv == IsMemory(g) /\ IsModes(m) /\ NoModeOutsidePlay

LEMMA Outside == NoModeOutsidePlay <=> (NoTask(m) \/ Played(g))
  <1>1. CASE NoTask(m)
    BY <1>1, Zenon DEF NoModeOutsidePlay, NoTask
  <1>2. CASE ~ NoTask(m)
    BY <1>2, Zenon DEF NoModeOutsidePlay, NoTask, Played
  <1> QED BY <1>1, <1>2

LEMMA Holds ==
  ASSUME IsMemory(g'), IsModes(m'), NoTask(m') \/ Played(g')
  PROVE  ModesInv'
  <1>1. CASE NoTask(m')
    BY <1>1, Zenon DEF ModesInv, NoModeOutsidePlay, NoTask
  <1>2. CASE Played(g')
    BY <1>2, Zenon DEF ModesInv, NoModeOutsidePlay, Played
  <1> QED BY <1>1, <1>2

-----------------------------------------------------------------------------
(* The functions of the game on its memory.                                *)
LEMMA Balls ==
  ASSUME NEW x, IsMemory(x)
  PROVE  /\ IsMemory(StartBall(x)) /\ IsMemory(ServeBall(x))
         /\ Played(x) => Played(StartBall(x)) /\ Played(ServeBall(x))
  BY DEF IsMemory, Fields, Played, StartBall, StartPlayer, StartBallReset, ServeBall

LEMMA Areas ==
  ASSUME NEW x, IsMemory(x)
  PROVE  /\ IsMemory(PlayerStartGame(x)) /\ IsMemory(PlayerSave(x)) /\ IsMemory(PlayerRestore(x))
         /\ Played(x) => Played(PlayerStartGame(x))
  <1>1. IsMemory(PlayerSave(x)) BY DEF IsMemory, Fields, PlayerSave
  <1>2. IsMemory(PlayerRestore(x)) BY DEF IsMemory, Fields, PlayerRestore
  <1>3. IsMemory(PlayerStartGame(x)) BY DEF IsMemory, Fields, PlayerStartGame
  <1>4. Played(x) => Played(PlayerStartGame(x))
    BY DEF IsMemory, Fields, Played, PlayerStartGame
  <1> QED BY <1>1, <1>2, <1>3, <1>4

LEMMA Rotations == ASSUME NEW x, IsMemory(x) PROVE IsMemory(Rotated(x))
  <1> DEFINE up == IF x.player_up < x.num_players THEN x.player_up + 1 ELSE 1
             y  == [PlayerSave(x) EXCEPT !.player_up = up]
  <1>1. IsMemory(PlayerSave(x)) BY Areas
  <1>2. IsMemory(y) BY <1>1 DEF IsMemory, Fields
  <1>3. IsMemory(PlayerRestore(y)) BY <1>2, Areas
  <1> HIDE DEF y
  <1>4. Rotated(x) = IF x.num_players = 1 THEN x ELSE PlayerRestore(y)
    BY Zenon DEF Rotated, y
  <1> QED BY <1>3, <1>4

LEMMA Games ==
  ASSUME NEW x, IsMemory(x)
  PROVE  /\ IsMemory(StopGame(x)) /\ IsMemory(NewGame(x)) /\ IsMemory(LeaveBonus(x))
         /\ Played(NewGame(x))
  BY DEF IsMemory, Fields, Played, StopGame, NewGame, LeaveBonus

LEMMA Idles == IsMemory(Idle) /\ IsMemory([Idle EXCEPT !.num_players = g.num_players])
  BY DEF IsMemory, Fields, Idle

(* The end of a turn leaves a memory of the same form.                     *)
LEMMA NextTurns ==
  ASSUME NEW x, NEW ends, IsMemory(x), NextTurn(x, ends)
  PROVE  IsMemory(g')
  <1> DEFINE y == Rotated(x)
             z == IF PlayersLeft(x) THEN y ELSE [y EXCEPT !.ball_up = @ + 1]
  <1>1. IsMemory(y) BY Rotations
  <1> HIDE DEF y
  <1>2. IsMemory(z) BY <1>1 DEF IsMemory, Fields
  <1>3. g' = z \/ g' = StartBall(z) BY Zenon DEF NextTurn, NextBall, y
  <1> HIDE DEF z
  <1> QED BY <1>2, <1>3, Balls

LEMMA TurnOvers ==
  ASSUME NEW x, IsMemory(x), TurnOver(x)
  PROVE  IsMemory(g')
  <1> DEFINE y == [x EXCEPT !.bip = 0]
  <1>1. /\ IsMemory(y)
        /\ IsMemory([x EXCEPT !.extra = @ - 1])
        /\ IsMemory([y EXCEPT !.passed = TRUE, !.offer = BuyinTimeout])
    BY DEF IsMemory, Fields
  <1> HIDE DEF y
  <1>2. \/ g' = [x EXCEPT !.extra = @ - 1]
        \/ NextTurn(y, hist.ends)
        \/ NextTurn(y, EndPlayer(y))
        \/ g' = [y EXCEPT !.passed = TRUE, !.offer = BuyinTimeout]
    BY Zenon DEF TurnOver, y
  <1> QED BY <1>1, <1>2, NextTurns

-----------------------------------------------------------------------------
(* The functions of the events on the modes.                               *)
LEMMA Kills ==
  ASSUME NEW x, IsModes(x)
  PROVE  /\ IsModes(KillModes(x)) /\ NoTask(KillModes(x))
         /\ IsModes(ExitTimed(x)) /\ ExitTimed(x).mbtask = x.mbtask
         /\ ExitTimed(x).task = "none"
  <1>1. IsModes(KillModes(x)) /\ NoTask(KillModes(x))
    BY DEF IsModes, MFields, KillModes, NoTask
  <1>2. IsModes(ExitTimed(x)) /\ ExitTimed(x).mbtask = x.mbtask /\ ExitTimed(x).task = "none"
    BY DEF IsModes, MFields, ExitTimed
  <1> QED BY <1>1, <1>2

LEMMA Starts ==
  ASSUME NEW x, NEW sleep, IsModes(x)
  PROVE  /\ IsModes(StartBallEvent(x, sleep))
         /\ NoTask(x) => NoTask(StartBallEvent(x, sleep))
  <1>1. /\ IsModes(MbStartBall(x))
        /\ MbStartBall(x).task = x.task /\ MbStartBall(x).mbtask = x.mbtask
    BY DEF IsModes, MFields, MbStartBall
  <1>2. NoTask(x) => NoTask(MbStartBall(x))
    BY <1>1 DEF NoTask
  <1>3. CASE sleep = "none"
    BY <1>1, <1>2, <1>3 DEF StartBallEvent
  <1>4. CASE sleep # "none"
    BY <1>4 DEF StartBallEvent
  <1> QED BY <1>3, <1>4

LEMMA Singles ==
  ASSUME NEW x, IsModes(x)
  PROVE  /\ IsModes(MbModeSingleBall(x))
         /\ NoTask(x) => NoTask(MbModeSingleBall(x))
  BY DEF IsModes, MFields, MbModeSingleBall, NoTask

LEMMA Ends ==
  ASSUME NEW x, NEW after, IsModes(x)
  PROVE  /\ IsModes(MbEndBall(TimedModeEnd(x), after))
         /\ NoTask(MbEndBall(TimedModeEnd(x), after))
  <1>1. /\ IsModes(TimedModeEnd(x)) /\ TimedModeEnd(x).task = "none"
    BY Kills DEF TimedModeEnd
  <1> HIDE DEF TimedModeEnd
  <1> QED BY <1>1 DEF IsModes, MFields, MbEndBall, NoTask

LEMMA Updates ==
  ASSUME NEW x, NEW b \in Mbs, NEW s, NEW t, IsModes(x)
  PROVE  /\ IsModes(MbModeUpdate(x, b, s, t))
         /\ NoTask(x) /\ t = "none" => NoTask(MbModeUpdate(x, b, s, t))
  <1> DEFINE mb == [x.mb EXCEPT ![b] = s]
             tasks == [x.mbtask EXCEPT ![b] = t]
             n == IF x.mb[b] = s THEN x.count
                  ELSE CASE s = "inactive" -> Less(x.count)
                         [] s = "active"   -> More(x.count)
                         [] s = "grace"    -> x.count
             y == [x EXCEPT !.mb = mb, !.mbtask = tasks, !.count = n]
  <1>1. MbModeUpdate(x, b, s, t) = y
    BY DEF MbModeUpdate, IsModes, MFields
  <1>2. /\ tasks = [c \in Mbs |-> tasks[c]]
        /\ NoTask(x) /\ t = "none" => \A c \in Mbs : tasks[c] = "none"
    BY DEF IsModes, NoTask
  <1> HIDE DEF mb, tasks, n
  <1>3. /\ y = [f \in MFields |-> y[f]]
        /\ y.mbtask = tasks /\ y.task = x.task
    BY DEF IsModes, MFields
  <1> HIDE DEF y
  <1> QED BY <1>1, <1>2, <1>3 DEF IsModes, NoTask

-----------------------------------------------------------------------------
(* The steps of the game.                                                  *)
LEMMA Presses ==
  ASSUME ModesInv, Quiet,
         PressStart \/ PressAdd \/ PressHold \/ HoldReleased \/ BuyinPress \/ BuyinAbort
  PROVE  ModesInv'
  <1>1. IsMemory(g) /\ IsModes(m') /\ m' = m /\ (NoTask(m) \/ Played(g))
    BY Outside DEF ModesInv, Quiet
  <1>2. IsMemory(g') /\ (Played(g) => Played(g'))
    <2>1. CASE PressStart
      BY <1>1, <2>1, Games DEF PressStart, StartGame
    <2>2. CASE PressAdd
      BY <1>1, <2>2 DEF PressAdd, IsMemory, Fields, Played
    <2>3. CASE PressHold \/ HoldReleased
      BY <1>1, <2>3 DEF PressHold, HoldReleased
    <2>4. CASE BuyinPress \/ BuyinAbort
      BY <1>1, <2>4 DEF BuyinPress, BuyinAbort, IsMemory, Fields, Played
    <2> QED BY <2>1, <2>2, <2>3, <2>4
  <1> QED BY <1>1, <1>2, Holds

LEMMA Starting ==
  ASSUME ModesInv, StartTask, StartsGame
  PROVE  ModesInv'
  <1>1. IsMemory(g) /\ IsModes(m) /\ (NoTask(m) \/ Played(g))
    BY Outside DEF ModesInv
  <1>2. IsMemory(g') /\ (Played(g) => Played(g'))
    <2>1. CASE StartHooks
      BY <1>1, <2>1 DEF StartHooks, IsMemory, Fields, Played
    <2>2. CASE StartReset
      <3>1. IsMemory(PlayerStartGame(g)) /\ (Played(g) => Played(PlayerStartGame(g)))
        BY <1>1, Areas
      <3>2. g' = StartBall(PlayerStartGame(g)) BY <2>2 DEF StartReset
      <3> QED BY <3>1, <3>2, Balls
    <2>3. CASE StartServe
      BY <1>1, <2>3, Balls DEF StartServe
    <2> QED BY <2>1, <2>2, <2>3 DEF StartTask
  <1>3. IsModes(m') /\ (NoTask(m) => NoTask(m'))
    BY <1>1, Starts DEF StartsGame
  <1> QED BY <1>1, <1>2, <1>3, Holds

LEMMA Playing ==
  ASSUME ModesInv,
         \/ (SetValidPlayfield \/ DeviceAddLive \/ IncrementExtraBalls) /\ Quiet
         \/ DeviceRemoveLive /\ LosesBall
         \/ EndBall /\ EndsBall
         \/ SwTilt /\ Tilts
  PROVE  ModesInv'
  <1>1. IsMemory(g) /\ IsModes(m) /\ (NoTask(m) \/ Played(g))
    BY Outside DEF ModesInv
  <1>2. CASE (SetValidPlayfield \/ DeviceAddLive \/ IncrementExtraBalls) /\ Quiet
    <2>1. IsMemory(g') /\ (Played(g) => Played(g'))
      BY <1>1, <1>2 DEF SetValidPlayfield, DeviceAddLive, IncrementExtraBalls, IsMemory, Fields, Played
    <2>2. m' = m BY <1>2 DEF Quiet
    <2> QED BY <1>1, <2>1, <2>2, Holds
  <1>3. CASE DeviceRemoveLive /\ LosesBall
    <2>1. IsMemory(g') /\ (Played(g) => Played(g'))
      BY <1>1, <1>3 DEF DeviceRemoveLive, IsMemory, Fields, Played
    <2>2. m' = m \/ m' = MbModeSingleBall(m) BY <1>3, Zenon DEF LosesBall
    <2>3. IsModes(m') /\ (NoTask(m) => NoTask(m')) BY <1>1, <2>2, Singles
    <2> QED BY <1>1, <2>1, <2>3, Holds
  <1>4. CASE EndBall /\ EndsBall
    <2>1. IsMemory(g') BY <1>1, <1>4 DEF EndBall, IsMemory, Fields
    <2>2. PICK after : m' = MbEndBall(TimedModeEnd(m), after) BY <1>4 DEF EndsBall
    <2>3. IsModes(m') /\ NoTask(m') BY <1>1, <2>2, Ends
    <2> QED BY <2>1, <2>3, Holds
  <1>5. CASE SwTilt /\ Tilts
    <2>1. CASE g'.in_tilt
      <3>1. IsMemory(g') BY <1>1, <1>5 DEF SwTilt, IsMemory, Fields
      <3>2. m' = KillModes(m) BY <1>5, <2>1 DEF Tilts
      <3> QED BY <1>1, <3>1, <3>2, Kills, Holds
    <2>2. CASE ~ g'.in_tilt
      <3>1. IsMemory(g') /\ (Played(g) => Played(g'))
        BY <1>1, <1>5, <2>2 DEF SwTilt, IsMemory, Fields, Played
      <3>2. m' = m BY <1>5, <2>2 DEF Tilts
      <3> QED BY <1>1, <3>1, <3>2, Holds
    <2> QED BY <2>1, <2>2
  <1> QED BY <1>2, <1>3, <1>4, <1>5

LEMMA AfterBonuses ==
  ASSUME ModesInv, BonusDone \/ TiltSettled, AfterBonus
  PROVE  ModesInv'
  <1>1. IsMemory(g) /\ IsModes(m) BY DEF ModesInv
  <1>2. PICK x : IsMemory(x) /\ TurnOver(x)
    <2>1. CASE BonusDone
      BY <1>1, <2>1, Games DEF BonusDone
    <2>2. CASE TiltSettled
      <3>1. IsMemory([g EXCEPT !.in_tilt = FALSE]) BY <1>1 DEF IsMemory, Fields
      <3> QED BY <2>2, <3>1, Games DEF TiltSettled
    <2> QED BY <2>1, <2>2
  <1>3. IsMemory(g') BY <1>2, TurnOvers
  <1>4. IsModes(m') /\ NoTask(m') BY <1>1, Kills, Starts DEF AfterBonus
  <1> QED BY <1>3, <1>4, Holds

LEMMA NextBalls ==
  ASSUME NEW x, IsMemory(x), NextBall(x)
  PROVE  IsMemory(g') /\ (Played(x) => Played(g'))
  BY Balls DEF NextBall

(* The next player has the ball while end_ball goes on: nothing stopped    *)
(* the game, or everything did.                                            *)
LEMMA TurnsPlay ==
  ASSUME NEW x, NEW ends, IsMemory(x), NextTurn(x, ends), Played(x)
  PROVE  Played(g')
  <1> DEFINE y == Rotated(x)
             z == IF PlayersLeft(x) THEN y ELSE [y EXCEPT !.ball_up = @ + 1]
             up == IF x.player_up < x.num_players THEN x.player_up + 1 ELSE 1
             r  == [PlayerSave(x) EXCEPT !.player_up = up]
  <1>1. IsMemory(y) BY Rotations
  <1>2. Played(y)
    <2>1. IsMemory(PlayerSave(x)) /\ Played(PlayerSave(x))
      BY DEF IsMemory, Fields, Played, PlayerSave
    <2>2. IsMemory(r) /\ Played(r) BY <2>1 DEF IsMemory, Fields, Played
    <2>3. Played(PlayerRestore(r)) BY <2>2 DEF IsMemory, Fields, Played, PlayerRestore
    <2> HIDE DEF r
    <2>4. y = x \/ y = PlayerRestore(r) BY Zenon DEF Rotated, r
    <2> QED BY <2>3, <2>4
  <1> HIDE DEF y
  <1>3. IsMemory(z) /\ Played(z) BY <1>1, <1>2 DEF IsMemory, Fields, Played
  <1>4. g' = z \/ g' = StartBall(z) BY Zenon DEF NextTurn, NextBall, y
  <1> HIDE DEF z
  <1> QED BY <1>3, <1>4, Balls

LEMMA TurnStarts ==
  ASSUME ModesInv, ShootAgain \/ EndServe \/ BuyinDone, StartsBall
  PROVE  ModesInv'
  <1>1. IsMemory(g) /\ IsModes(m) /\ (NoTask(m) \/ Played(g))
    BY Outside DEF ModesInv
  <1>2. IsMemory(g') /\ (Played(g) => Played(g'))
    <2>1. CASE ShootAgain
      BY <1>1, <2>1, NextBalls DEF ShootAgain
    <2>2. CASE EndServe
      BY <1>1, <2>2, Balls DEF EndServe
    <2>3. CASE BuyinDone
      <3>1. NextTurn(g, EndPlayer(g)) \/ NextBall(g) BY <2>3, Zenon DEF BuyinDone
      <3> QED BY <1>1, <3>1, NextTurns, TurnsPlay, NextBalls
    <2> QED BY <2>1, <2>2, <2>3
  <1>3. IsModes(m') /\ (NoTask(m) => NoTask(m'))
    BY <1>1, Starts DEF StartsBall
  <1> QED BY <1>1, <1>2, <1>3, Holds

LEMMA Waiting ==
  ASSUME ModesInv, Quiet, BuyinTick \/ EndDone \/ OverDone \/ InsertCoin
  PROVE  ModesInv'
  <1>1. IsMemory(g) /\ IsModes(m') /\ m' = m /\ (NoTask(m) \/ Played(g))
    BY Outside DEF ModesInv, Quiet
  <1>2. IsMemory(g') /\ (Played(g) => Played(g'))
    BY <1>1 DEF BuyinTick, EndDone, OverDone, InsertCoin, IsMemory, Fields, Played
  <1> QED BY <1>1, <1>2, Holds

LEMMA Stopping ==
  ASSUME ModesInv,
         \/ (HoldDone \/ OverStop \/ SwSlamTilt) /\ Stops
         \/ WarmReboot /\ Reboots
  PROVE  ModesInv'
  <1>1. IsMemory(g) /\ IsModes(m) BY DEF ModesInv
  <1>2. CASE (HoldDone \/ OverStop \/ SwSlamTilt) /\ Stops
    <2>1. IsMemory(StopGame(g)) BY <1>1, Games
    <2>2. g' = StopGame(g) \/ g' = NewGame(StopGame(g))
      BY <1>2 DEF HoldDone, OverStop, SwSlamTilt, StartGame
    <2>3. IsMemory(g') BY <2>1, <2>2, Games
    <2>4. IsModes(m') /\ NoTask(m') BY <1>1, <1>2, Kills DEF Stops
    <2> QED BY <2>3, <2>4, Holds
  <1>3. CASE WarmReboot /\ Reboots
    <2>1. IsMemory(g') BY <1>3, Idles DEF WarmReboot
    <2>2. IsModes(m') /\ NoTask(m')
      BY <1>1, <1>3 DEF Reboots, IsModes, MFields, NoTask
    <2> QED BY <2>1, <2>2, Holds
  <1> QED BY <1>2, <1>3

-----------------------------------------------------------------------------
(* The steps of the modes.                                                 *)
LEMMA ModeSteps ==
  ASSUME ModesInv, ModeStep
  PROVE  ModesInv'
  <1>1. IsMemory(g) /\ IsModes(m) /\ (NoTask(m) \/ Played(g))
    BY Outside DEF ModesInv
  <1>2. g' = g BY DEF ModeStep, TimedModeBegin, TimedModeMonitor, TimedModeGraceOver,
                      TimedModeAdd, MbModeStart, MbModeGraceOver, vars
  <1>3. CASE TimedModeBegin
    <2>1. IsModes(m') BY <1>1, <1>3 DEF TimedModeBegin, IsModes, MFields
    <2>2. Played(g) BY <1>3 DEF TimedModeBegin, LiveBall, Played
    <2> QED BY <1>1, <1>2, <2>1, <2>2, Holds
  <1>4. CASE TimedModeMonitor
    <2>1. IsModes(m') BY <1>1, <1>4 DEF TimedModeMonitor, IsModes, MFields
    <2>2. Played(g) BY <1>1, <1>4 DEF TimedModeMonitor, NoTask
    <2> QED BY <1>1, <1>2, <2>1, <2>2, Holds
  <1>5. CASE TimedModeGraceOver
    <2>1. m' = ExitTimed(m) BY <1>5 DEF TimedModeGraceOver
    <2>2. IsModes(m') /\ (NoTask(m) => NoTask(m')) BY <1>1, <2>1, Kills DEF NoTask
    <2> QED BY <1>1, <1>2, <2>2, Holds
  <1>6. CASE TimedModeAdd
    <2>1. IsModes(m') BY <1>1, <1>6 DEF TimedModeAdd, IsModes, MFields
    <2>2. Played(g) BY <1>6 DEF TimedModeAdd, LiveBall, Played
    <2> QED BY <1>1, <1>2, <2>1, <2>2, Holds
  <1>7. CASE \E b \in Mbs : MbModeStart(b) \/ MbModeGraceOver(b)
    <2>1. PICK b \in Mbs : MbModeStart(b) \/ MbModeGraceOver(b) BY <1>7
    <2>2. CASE MbModeStart(b)
      <3>1. IsModes(m') BY <1>1, <2>2, Updates DEF MbModeStart
      <3>2. Played(g) BY <2>2 DEF MbModeStart, LiveBall, Played
      <3> QED BY <1>1, <1>2, <3>1, <3>2, Holds
    <2>3. CASE MbModeGraceOver(b)
      <3>1. IsModes(m') /\ (NoTask(m) => NoTask(m')) BY <1>1, <2>3, Updates DEF MbModeGraceOver
      <3> QED BY <1>1, <1>2, <3>1, Holds
    <2> QED BY <2>1, <2>2, <2>3
  <1> QED BY <1>3, <1>4, <1>5, <1>6, <1>7 DEF ModeStep

-----------------------------------------------------------------------------
LEMMA InitInv == ModesInit => ModesInv
  <1> SUFFICES ASSUME ModesInit PROVE ModesInv OBVIOUS
  <1>1. IsMemory(g) BY Idles DEF ModesInit, Init
  <1>2. IsModes(m) /\ NoTask(m) BY DEF ModesInit, IsModes, MFields, NoTask
  <1> QED BY <1>1, <1>2, Outside DEF ModesInv

LEMMA NextInv == ModesInv /\ [ModesNext]_mvars => ModesInv'
  <1> SUFFICES ASSUME ModesInv, [ModesNext]_mvars PROVE ModesInv' OBVIOUS
  <1>1. CASE GameStep
    BY <1>1, Presses, Starting, Playing, AfterBonuses, TurnStarts, Waiting, Stopping, Zenon
       DEF GameStep
  <1>2. CASE ModeStep
    BY <1>2, ModeSteps
  <1>3. CASE UNCHANGED mvars
    <2>1. g' = g /\ m' = m BY <1>3 DEF mvars, vars
    <2> QED BY <2>1, Outside, Holds DEF ModesInv
  <1> QED BY <1>1, <1>2, <1>3 DEF ModesNext

(* No task of a mode is alive but while its ball is played: not in the     *)
(* bonus, after a tilt or between games, with any interleaving of the      *)
(* start button, drains, tilts and slam tilts, for every value of the      *)
(* constants.                                                              *)
THEOREM TasksInPlay == ModesSpec => []NoModeOutsidePlay
  <1>1. ModesInv => NoModeOutsidePlay BY DEF ModesInv
  <1> QED BY <1>1, InitInv, NextInv, PTL DEF ModesSpec

-----------------------------------------------------------------------------
(* The memory of the game and its history.                                 *)
Memory == [in_game : BOOLEAN, in_bonus : BOOLEAN, in_tilt : BOOLEAN, valid : BOOLEAN,
           num_players : Players, player_up : 0 .. MaxPlayers, ball_up : 0 .. BallsPerGame + 1,
           live : 0 .. MaxLive, warnings : 0 .. TiltWarnings, offer : 0 .. BuyinTimeout,
           passed : BOOLEAN, extra : 0 .. MaxEbsPerBip, bip : 0 .. MaxEbsPerBip,
           local : Area, saved : [Players -> Area]]

History == [served : BOOLEAN, unpaid : Nat, coins : Nat, awarded : [Players -> Nat],
            ends : [Players -> Nat]]

(* Where end_ball, and start_game, may sleep.  A restart by a button that  *)
(* is held does not come in between, and neither does an old ball, nor the *)
(* start of a game after a slam tilt.  A tilt and a slam tilt may come at  *)
(* any time.                                                               *)
Ending  == {"bonus", "again", "buyin", "yield"}
Opening == {"hooks", "reset", "yield"}

Timely == "hold" \notin Untimely /\ "ball" \notin Untimely /\ "start" \notin Untimely

LEMMA Constants ==
  /\ MaxPlayers \in Nat /\ BallsPerGame \in Nat /\ TiltWarnings \in Nat
  /\ MaxPlayers >= 1 /\ BallsPerGame >= 1 /\ TiltWarnings >= 1
  /\ MaxEbs \in Nat /\ MaxEbsPerBip \in Nat /\ BuyinTimeout \in Nat /\ MaxCredits \in Nat /\ MaxCoins \in Nat
  /\ MaxLive \in Nat /\ BuyIn \in BOOLEAN /\ Players = 1 .. MaxPlayers
  BY GameAssumption DEF Players

(* The types of the fields, one by one.                                    *)
LEMMA MemoryFields ==
  ASSUME NEW x \in Memory
  PROVE  /\ {x.in_game, x.in_bonus, x.in_tilt, x.valid, x.passed} \subseteq BOOLEAN
         /\ x.num_players \in 1 .. MaxPlayers /\ x.player_up \in 0 .. MaxPlayers
         /\ x.ball_up \in 0 .. BallsPerGame + 1 /\ x.live \in 0 .. MaxLive
         /\ x.warnings \in 0 .. TiltWarnings /\ x.offer \in 0 .. BuyinTimeout
         /\ x.extra \in 0 .. MaxEbsPerBip /\ x.bip \in 0 .. MaxEbsPerBip
         /\ x.local \in Area /\ x.saved \in [Players -> Area]
         /\ x.local.earned \in Nat
  BY Constants DEF Memory, Area

LEMMA MemoryNumbers ==
  ASSUME NEW x \in Memory
  PROVE  /\ {x.num_players, x.player_up, x.ball_up, x.live, x.warnings, x.offer, x.extra, x.bip}
            \subseteq Nat
         /\ x.num_players >= 1 /\ x.num_players <= MaxPlayers
         /\ x.live <= MaxLive /\ x.extra <= MaxEbsPerBip /\ x.bip <= MaxEbsPerBip
         /\ x.ball_up <= BallsPerGame + 1
  BY SMTT(40), MemoryFields, Constants

(* All fields but those of the turn and of the areas.                      *)
Rest(x) == <<x.in_game, x.in_bonus, x.in_tilt, x.valid, x.num_players, x.live, x.warnings, x.offer,
             x.passed, x.extra, x.bip>>
TurnOf(x) == <<x.ball_up, x.player_up>>

(* start_ball: it ends in its sleep if the player starts, or with a ball.  *)
LEMMA StartBallFacts ==
  ASSUME NEW x \in Memory
  PROVE  LET y == StartBall(x)
             due == StartPlayerDue(x)
         IN  /\ y \in Memory
             /\ y.in_game = x.in_game /\ y.in_bonus = x.in_bonus /\ y.in_tilt = FALSE
             /\ y.valid = FALSE /\ y.num_players = x.num_players /\ y.player_up = x.player_up
             /\ y.ball_up = x.ball_up /\ y.extra = x.extra /\ y.bip = x.bip /\ y.saved = x.saved
             /\ due  => y.live = x.live /\ y.local = [of |-> x.player_up, earned |-> 0]
             /\ ~due => y.local = x.local
             /\ SleepIn(x) = IF due THEN "yield" ELSE "none"
<1> DEFINE r == StartBallReset(x)
<1>1. /\ r \in Memory /\ r.in_tilt = FALSE /\ r.valid = FALSE /\ TurnOf(r) = TurnOf(x)
      /\ r.in_game = x.in_game /\ r.in_bonus = x.in_bonus /\ r.num_players = x.num_players
      /\ r.extra = x.extra /\ r.bip = x.bip /\ r.saved = x.saved /\ r.local = x.local
      /\ r.live = x.live
  BY DEF StartBallReset, Memory, TurnOf
<1> HIDE DEF r
<1>2. CASE StartPlayerDue(x)
  <2>1. StartBall(x) = [r EXCEPT !.local = [of |-> r.player_up, earned |-> 0]]
    BY <1>2 DEF StartBall, StartPlayer, r
  <2>2. [of |-> r.player_up, earned |-> 0] \in Area
    BY <1>1, MemoryFields DEF Area
  <2> QED BY <1>1, <1>2, <2>1, <2>2 DEF Memory, TurnOf, SleepIn
<1>3. CASE ~ StartPlayerDue(x)
  <2> DEFINE n == IF r.live < MaxLive THEN r.live + 1 ELSE r.live
  <2>1. StartBall(x) = [r EXCEPT !.warnings = 0, !.valid = FALSE, !.live = n]
    BY <1>3 DEF StartBall, ServeBall, r
  <2>2. n \in 0 .. MaxLive /\ 0 \in 0 .. TiltWarnings
    BY <1>1, MemoryFields, Constants
  <2> HIDE DEF n
  <2> QED BY <1>1, <1>3, <2>1, <2>2 DEF Memory, TurnOf, SleepIn
<1> QED BY <1>2, <1>3

(* The areas change hands with the turn.                                   *)
PassesAreas(x, z) ==
  \/ x.num_players = 1 /\ z.local = x.local /\ z.saved = x.saved
  \/ /\ x.num_players > 1 /\ z.saved = [x.saved EXCEPT ![x.player_up] = x.local]
     /\ z.local = z.saved[z.player_up]

After(x) == IF x.player_up < x.num_players THEN <<x.ball_up, x.player_up + 1>>
                                           ELSE <<x.ball_up + 1, 1>>

LEMMA RotatedFacts ==
  ASSUME NEW x \in Memory, x.player_up \in 1 .. x.num_players
  PROVE  LET y == Rotated(x)
         IN  /\ y \in Memory /\ Rest(y) = Rest(x) /\ y.ball_up = x.ball_up
             /\ y.player_up = IF x.player_up < x.num_players THEN x.player_up + 1 ELSE 1
             /\ PassesAreas(x, y)
<1> DEFINE up == IF x.player_up < x.num_players THEN x.player_up + 1 ELSE 1
           s == PlayerSave(x)
           t == [s EXCEPT !.player_up = up]
           y == PlayerRestore(t)
<1>0. x.num_players \in Nat /\ MaxPlayers \in Nat /\ x.num_players <= MaxPlayers /\ x.player_up \in Nat
  BY MemoryFields, Constants
<1>1. up \in Players /\ up \in 0 .. MaxPlayers /\ x.player_up \in Players
  BY <1>0, Constants
<1>2. CASE x.num_players = 1
  <2>1. Rotated(x) = x
    BY <1>2 DEF Rotated
  <2> QED BY <1>0, <1>2, <2>1 DEF PassesAreas
<1>3. CASE x.num_players # 1
  <2>1. Rotated(x) = y
    BY <1>3, Zenon DEF Rotated
  <2> HIDE DEF up
  <2>2. /\ s \in Memory /\ Rest(s) = Rest(x) /\ s.ball_up = x.ball_up
        /\ s.saved = [x.saved EXCEPT ![x.player_up] = x.local]
    BY <1>1 DEF PlayerSave, Memory, Rest
  <2> HIDE DEF s
  <2>3. /\ t \in Memory /\ Rest(t) = Rest(x) /\ t.ball_up = x.ball_up /\ t.player_up = up
        /\ t.saved = [x.saved EXCEPT ![x.player_up] = x.local]
    BY <1>1, <2>2 DEF Memory, Rest
  <2> HIDE DEF t
  <2>4. t.saved[up] \in Area
    BY <1>1, <2>3 DEF Memory
  <2>5. /\ y \in Memory /\ Rest(y) = Rest(x) /\ y.ball_up = x.ball_up /\ y.player_up = up
        /\ y.saved = t.saved /\ y.local = t.saved[up]
    BY <2>3, <2>4 DEF PlayerRestore, Memory, Rest
  <2>6. x.num_players > 1 BY <1>0, <1>3, MemoryFields
  <2> HIDE DEF y
  <2> QED BY <2>1, <2>3, <2>5, <2>6 DEF PassesAreas, up
<1> QED BY <1>2, <1>3

(* The next turn is served, or the game ends.                              *)
LEMMA NextTurnFacts ==
  ASSUME NEW x \in Memory, x.player_up \in 1 .. x.num_players, x.ball_up <= BallsPerGame,
         NEW ends, NextTurn(x, ends)
  PROVE  \E z \in Memory :
           /\ Rest(z) = Rest(x) /\ TurnOf(z) = After(x) /\ PassesAreas(x, z)
           /\ \/ /\ z.ball_up <= BallsPerGame
                 /\ g' = StartBall(z) /\ end' = SleepIn(z) /\ over' = over
                 /\ hist' = [hist EXCEPT !.served = ~ StartPlayerDue(z), !.ends = ends]
              \/ /\ z.ball_up = BallsPerGame + 1 /\ x.player_up = x.num_players
                 /\ g' = z /\ end' = "ending" /\ over' = "stop"
                 /\ hist' = [hist EXCEPT !.ends = ends]
<1> DEFINE y == Rotated(x)
           z == IF PlayersLeft(x) THEN y ELSE [y EXCEPT !.ball_up = @ + 1]
<1>0. x.ball_up \in Nat /\ BallsPerGame \in Nat /\ x.num_players \in Nat /\ x.player_up \in Nat
      /\ x.player_up <= x.num_players
  BY MemoryFields, Constants
<1>1. /\ y \in Memory /\ Rest(y) = Rest(x) /\ y.ball_up = x.ball_up
      /\ y.player_up = IF x.player_up < x.num_players THEN x.player_up + 1 ELSE 1
      /\ PassesAreas(x, y)
  BY RotatedFacts
<1>2. /\ IF z.ball_up <= BallsPerGame
           THEN /\ g' = StartBall(z) /\ end' = SleepIn(z) /\ over' = over
                /\ hist' = [hist EXCEPT !.served = ~ StartPlayerDue(z), !.ends = ends]
           ELSE /\ g' = z /\ end' = "ending" /\ over' = "stop"
                /\ hist' = [hist EXCEPT !.ends = ends]
  BY Zenon DEF NextTurn, NextBall
<1> HIDE DEF y
<1>3. CASE x.player_up < x.num_players
  <2>1. z = y BY <1>3 DEF PlayersLeft
  <2>2. TurnOf(y) = After(x) /\ y.ball_up <= BallsPerGame BY <1>0, <1>1, <1>3 DEF TurnOf, After
  <2> HIDE DEF z
  <2> QED BY <1>1, <1>2, <2>1, <2>2
<1>4. CASE ~ (x.player_up < x.num_players)
  <2>1. z = [y EXCEPT !.ball_up = y.ball_up + 1] BY <1>4 DEF PlayersLeft
  <2>2. x.ball_up + 1 \in 0 .. BallsPerGame + 1 /\ x.player_up = x.num_players BY <1>0, <1>4
  <2> HIDE DEF z
  <2>3. /\ z \in Memory /\ Rest(z) = Rest(x) /\ z.ball_up = x.ball_up + 1 /\ z.player_up = 1
        /\ z.local = y.local /\ z.saved = y.saved
    BY <1>1, <1>4, <2>1, <2>2 DEF Memory, Rest
  <2>4. TurnOf(z) = After(x) BY <1>4, <2>3 DEF TurnOf, After
  <2>5. PassesAreas(x, z) BY <1>1, <1>4, <2>3 DEF PassesAreas
  <2>6. z.ball_up <= BallsPerGame \/ z.ball_up = BallsPerGame + 1 BY <1>0, <2>2, <2>3
  <2>7. ~ (z.ball_up <= BallsPerGame /\ z.ball_up = BallsPerGame + 1) BY <1>0, <2>3
  <2> QED BY <1>2, <2>2, <2>3, <2>4, <2>5, <2>6, <2>7
<1> QED BY <1>3, <1>4

-----------------------------------------------------------------------------
(* Which tasks sleep where, and what the memory then is.                   *)
Tasks(s, e, o) == /\ s \in {"none", "hold", "hooks", "reset", "yield"}
                  /\ e \in {"none", "bonus", "again", "buyin", "yield", "ending"}
                  /\ o \in {"none", "stop", "effects"}

OutOfGame(x) == ~ x.in_game => ~ x.valid /\ ~ x.in_bonus /\ ~ x.in_tilt

TurnExists(x, o) ==
  x.in_game => /\ x.player_up \in 1 .. x.num_players /\ x.ball_up >= 1
               /\ x.ball_up <= BallsPerGame \/ o = "stop"

EndSleeps(x, s, e, o) ==
  /\ e \in Ending => x.in_game /\ x.live = 0 /\ o = "none" /\ s \in {"none", "hold"}
  /\ e \in Ending /\ s = "hold" => e = "bonus"
  /\ x.in_bonus <=> e = "bonus"
  /\ e = "again" => x.bip > 0
  /\ e = "buyin" => x.ball_up = BallsPerGame /\ x.bip = 0 /\ BuyIn

StartSleeps(x, s, i, e, o) ==
  /\ s \in Opening => /\ x.in_game /\ o = "none" /\ x.player_up = 1 /\ x.ball_up = 1
                      /\ i \/ x.live = 0
  /\ s \in {"reset", "yield"} => x.bip = 0
  /\ s = "hold" => ~ i /\ x.in_game

OverSleeps(x, s, o) ==
  /\ o = "stop" => x.in_game /\ x.live = 0 /\ s \in {"none", "hold"} /\ x.ball_up = BallsPerGame + 1
  /\ o = "effects" => ~ x.in_game /\ s = "none"

Control(x, s, i, e, o) ==
  /\ x \in Memory /\ i \in BOOLEAN /\ Tasks(s, e, o)
  /\ x.extra <= x.bip
  /\ OutOfGame(x) /\ TurnExists(x, o)
  /\ EndSleeps(x, s, e, o) /\ StartSleeps(x, s, i, e, o) /\ OverSleeps(x, s, o)

GameControl == Control(g, start, immune, end, over)

LEMMA ControlFacts ==
  ASSUME GameControl
  PROVE  /\ g \in Memory /\ immune \in BOOLEAN /\ Tasks(start, end, over) /\ g.extra <= g.bip
         /\ OutOfGame(g) /\ TurnExists(g, over)
         /\ EndSleeps(g, start, end, over) /\ StartSleeps(g, start, immune, end, over)
         /\ OverSleeps(g, start, over)
         /\ {g.in_game, g.in_bonus, g.in_tilt, g.valid, g.passed} \subseteq BOOLEAN
         /\ g.num_players \in 1 .. MaxPlayers /\ g.player_up \in 0 .. MaxPlayers
         /\ g.ball_up \in 0 .. BallsPerGame + 1 /\ g.live \in 0 .. MaxLive
         /\ g.extra \in 0 .. MaxEbsPerBip /\ g.bip \in 0 .. MaxEbsPerBip
  BY MemoryFields DEF GameControl, Control

(* A new game, at the start button or when it has been held.               *)
LEMMA NewGameControl ==
  ASSUME NEW x \in Memory, x.extra <= x.bip, ~ x.valid, NEW i \in BOOLEAN, NEW e, Tasks("hooks", e, "none"),
         e \notin Ending, i \/ x.live = 0
  PROVE  Control(NewGame(x), "hooks", i, e, "none")
<1> DEFINE y == NewGame(x)
<1>1. 1 \in 1 .. MaxPlayers /\ 1 \in 0 .. MaxPlayers /\ 1 \in 0 .. BallsPerGame + 1
  BY Constants
<1>2. /\ y \in Memory /\ y.in_game /\ ~ y.in_bonus /\ ~ y.in_tilt /\ y.num_players = 1
      /\ y.player_up = 1 /\ y.ball_up = 1 /\ ~ y.valid /\ y.extra = x.extra /\ y.bip = x.bip
      /\ y.live = x.live
  BY <1>1, Constants DEF NewGame, Memory
<1> HIDE DEF y
<1>3. OutOfGame(y) /\ OverSleeps(y, "hooks", "none")
  BY <1>2 DEF OutOfGame, OverSleeps
<1>4. TurnExists(y, "none")
  BY <1>2, Constants DEF TurnExists
<1>5. EndSleeps(y, "hooks", e, "none")
  BY <1>2, Zenon DEF EndSleeps, Ending
<1>6. StartSleeps(y, "hooks", i, e, "none")
  BY <1>2 DEF StartSleeps, Opening
<1> QED BY <1>2, <1>3, <1>4, <1>5, <1>6 DEF Control, y

(* What these do not look at may change.                                   *)
LEMMA SameControl ==
  ASSUME NEW x, NEW y \in Memory, NEW s, NEW i, NEW e, NEW o, Control(x, s, i, e, o),
         y.in_game = x.in_game, y.in_bonus = x.in_bonus, y.in_tilt = x.in_tilt, y.valid = x.valid,
         y.player_up = x.player_up, y.ball_up = x.ball_up, y.live = x.live, y.bip = x.bip,
         y.num_players \in {x.num_players, x.num_players + 1}, y.extra <= y.bip
  PROVE  Control(y, s, i, e, o)
<1>1. OutOfGame(y) /\ OverSleeps(y, s, o) /\ EndSleeps(y, s, e, o) /\ StartSleeps(y, s, i, e, o)
  BY DEF Control, OutOfGame, OverSleeps, EndSleeps, StartSleeps
<1>2. TurnExists(y, o)
  <2>1. x.num_players \in Nat /\ y.num_players \in Nat /\ x.player_up \in Nat
    BY MemoryFields DEF Control
  <2> QED BY <2>1 DEF Control, TurnExists
<1> QED BY <1>1, <1>2 DEF Control

LEMMA PressControl == ASSUME Timely, GameControl, Press PROVE GameControl'
<1>0. g \in Memory
  BY ControlFacts
<1>1. CASE PressStart
  <2>1. ~ g.in_game /\ ~ g.valid /\ end \notin Ending /\ g.live = 0
    BY <1>1, ControlFacts DEF PressStart, OutOfGame, Timely, Ending
  <2>2. Tasks("hooks", end, "none")
    BY ControlFacts DEF Tasks
  <2>3. g' = NewGame(g) /\ start' = "hooks" /\ immune' = FALSE /\ end' = end /\ over' = "none"
    BY <1>1 DEF PressStart, StartGame
  <2> QED BY <2>1, <2>2, <2>3, ControlFacts, NewGameControl DEF GameControl
<1>2. CASE PressAdd
  <2>1. g' = [g EXCEPT !.num_players = g.num_players + 1] /\ g.num_players < MaxPlayers
    BY <1>2 DEF PressAdd
  <2>2. g.num_players + 1 \in Players
    <3>1. g.num_players \in Nat /\ g.num_players >= 1 /\ MaxPlayers \in Nat
      BY <1>0, MemoryNumbers, Constants
    <3> QED BY <2>1, <3>1, Constants
  <2>3. /\ g' \in Memory /\ g'.in_game = g.in_game /\ g'.in_bonus = g.in_bonus
        /\ g'.in_tilt = g.in_tilt /\ g'.valid = g.valid /\ g'.player_up = g.player_up
        /\ g'.ball_up = g.ball_up /\ g'.live = g.live /\ g'.bip = g.bip /\ g'.extra = g.extra
        /\ g'.num_players \in {g.num_players, g.num_players + 1}
    BY <1>0, <2>1, <2>2 DEF Memory
  <2>4. UNCHANGED <<start, immune, end, over>>
    BY <1>2 DEF PressAdd
  <2> QED BY <2>3, <2>4, ControlFacts, SameControl DEF GameControl
<1>3. CASE PressHold
  <2>1. /\ g' = g /\ end' = end /\ over' = over /\ start' = "hold" /\ immune' = FALSE
        /\ g.in_game /\ start = "none" /\ end = "none"
    BY <1>3 DEF PressHold, Timely
  <2> QED BY <2>1, ControlFacts DEF GameControl, Control, OutOfGame, TurnExists, EndSleeps,
       StartSleeps, OverSleeps, Ending, Opening, Tasks
<1>4. CASE HoldReleased
  <2>1. UNCHANGED <<g, immune, end, over>> /\ start = "hold" /\ start' = "none"
    BY <1>4 DEF HoldReleased
  <2> QED BY <2>1, ControlFacts DEF GameControl, Control, OutOfGame, TurnExists, EndSleeps,
       StartSleeps, OverSleeps, Ending, Opening, Tasks
<1>5. CASE HoldDone
  <2>1. /\ g' = NewGame(StopGame(g)) /\ start' = "hooks" /\ immune' = TRUE /\ end' = end
        /\ over' = "none" /\ end = "none"
    BY <1>5 DEF HoldDone, StartGame, Timely
  <2>2. /\ StopGame(g) \in Memory /\ ~ StopGame(g).valid
        /\ StopGame(g).extra <= StopGame(g).bip
    <3> DEFINE x == StopGame(g)
    <3>1. /\ x \in Memory /\ x.valid = FALSE /\ x.extra = g.extra /\ x.bip = g.bip
      <4>1. 0 \in 0 .. MaxPlayers /\ 0 \in 0 .. BallsPerGame + 1
        BY Constants
      <4> QED BY <1>0, <4>1 DEF StopGame, Memory
    <3> QED BY <3>1, ControlFacts
  <2>3. Tasks("hooks", end, "none") /\ end \notin Ending
    BY <2>1 DEF Tasks, Ending
  <2> QED BY <2>1, <2>2, <2>3, NewGameControl DEF GameControl
<1>6. CASE BuyinPress \/ BuyinAbort
  <2>1. /\ UNCHANGED <<start, immune, end, over>>
        /\ g' \in {[g EXCEPT !.passed = FALSE, !.offer = 0], [g EXCEPT !.offer = 0]}
    BY <1>6 DEF BuyinPress, BuyinAbort
  <2>2. 0 \in 0 .. BuyinTimeout
    BY Constants
  <2>3. /\ g' \in Memory /\ g'.in_game = g.in_game /\ g'.in_bonus = g.in_bonus
        /\ g'.in_tilt = g.in_tilt /\ g'.valid = g.valid /\ g'.player_up = g.player_up
        /\ g'.ball_up = g.ball_up /\ g'.live = g.live /\ g'.bip = g.bip /\ g'.extra = g.extra
        /\ g'.num_players \in {g.num_players, g.num_players + 1}
    BY <1>0, <2>1, <2>2 DEF Memory
  <2> QED BY <2>1, <2>3, ControlFacts, SameControl DEF GameControl
<1> QED BY <1>1, <1>2, <1>3, <1>4, <1>5, <1>6 DEF Press

LEMMA ServeFacts ==
  ASSUME NEW x \in Memory
  PROVE  LET y == ServeBall(x)
         IN  /\ y \in Memory
             /\ y.in_game = x.in_game /\ y.in_bonus = x.in_bonus /\ y.in_tilt = x.in_tilt
             /\ y.valid = FALSE /\ y.num_players = x.num_players /\ y.player_up = x.player_up
             /\ y.ball_up = x.ball_up /\ y.extra = x.extra /\ y.bip = x.bip /\ y.saved = x.saved
             /\ y.local = x.local
<1> DEFINE n == IF x.live < MaxLive THEN x.live + 1 ELSE x.live
<1>1. ServeBall(x) = [x EXCEPT !.warnings = 0, !.valid = FALSE, !.live = n]
  BY DEF ServeBall
<1>2. n \in 0 .. MaxLive /\ 0 \in 0 .. TiltWarnings
  BY MemoryFields, Constants
<1> HIDE DEF n
<1> QED BY <1>1, <1>2 DEF Memory

(* The start of a game has the first ball of the first player to start.    *)
LEMMA OpeningFacts ==
  ASSUME GameControl, start \in {"reset", "yield"}
  PROVE  /\ StartPlayerDue(g) /\ g.in_game /\ over = "none" /\ end \notin Ending
         /\ ~ g.in_bonus
         /\ PlayerStartGame(g) \in Memory /\ StartPlayerDue(PlayerStartGame(g))
         /\ Rest(PlayerStartGame(g)) = Rest(g) /\ TurnOf(PlayerStartGame(g)) = TurnOf(g)
         /\ PlayerStartGame(g).saved = [p \in Players |-> Zeroed]
<1>1. /\ g \in Memory /\ g.ball_up = 1 /\ g.player_up = 1 /\ g.bip = 0 /\ g.in_game
      /\ over = "none" /\ end \notin Ending
  BY ControlFacts DEF StartSleeps, EndSleeps, Opening
<1>2. ~ g.in_bonus
  BY <1>1, ControlFacts DEF EndSleeps, Ending
<1>3. Zeroed \in Area
  BY Constants DEF Zeroed, Area
<1>4. /\ PlayerStartGame(g) \in Memory /\ Rest(PlayerStartGame(g)) = Rest(g)
      /\ TurnOf(PlayerStartGame(g)) = TurnOf(g)
      /\ PlayerStartGame(g).saved = [p \in Players |-> Zeroed]
  BY <1>1, <1>3 DEF PlayerStartGame, Memory, Rest, TurnOf
<1>5. StartPlayerDue(g) /\ StartPlayerDue(PlayerStartGame(g))
  BY <1>1, <1>4 DEF StartPlayerDue, Rest, TurnOf
<1> QED BY <1>1, <1>2, <1>4, <1>5

LEMMA StartControl == ASSUME GameControl, StartTask PROVE GameControl'
<1>0. g \in Memory
  BY ControlFacts
<1>1. CASE StartHooks
  <2>1. /\ g' = [g EXCEPT !.extra = 0, !.bip = 0] /\ start = "hooks" /\ start' = "reset"
        /\ UNCHANGED <<immune, end, over>>
    BY <1>1 DEF StartHooks
  <2>2. 0 \in 0 .. MaxEbsPerBip
    BY Constants
  <2>3. /\ g' \in Memory /\ g'.in_game = g.in_game /\ g'.in_bonus = g.in_bonus
        /\ g'.in_tilt = g.in_tilt /\ g'.valid = g.valid /\ g'.player_up = g.player_up
        /\ g'.ball_up = g.ball_up /\ g'.live = g.live /\ g'.bip = 0 /\ g'.extra = 0
        /\ g'.num_players = g.num_players
    BY <1>0, <2>1, <2>2 DEF Memory
  <2>4. end \notin Ending
    BY <2>1, ControlFacts DEF EndSleeps
  <2>5. OutOfGame(g') /\ TurnExists(g', over) /\ OverSleeps(g', "reset", over)
    BY <2>1, <2>3, ControlFacts DEF OutOfGame, TurnExists, OverSleeps
  <2>6. EndSleeps(g', "reset", end, over) /\ StartSleeps(g', "reset", immune, end, over)
    BY <2>1, <2>3, <2>4, ControlFacts DEF EndSleeps, StartSleeps, Opening, Ending
  <2>7. Tasks("reset", end, over) BY ControlFacts DEF Tasks
  <2> QED BY <2>1, <2>3, <2>5, <2>6, <2>7, ControlFacts DEF GameControl, Control
<1>2. CASE StartReset
  <2> DEFINE x == PlayerStartGame(g)
  <2>1. /\ start = "reset" /\ g' = StartBall(x) /\ start' = SleepIn(g)
        /\ UNCHANGED <<immune, end, over>>
    BY <1>2 DEF StartReset
  <2>2. /\ StartPlayerDue(g) /\ g.in_game /\ over = "none" /\ end \notin Ending /\ ~ g.in_bonus
        /\ x \in Memory /\ StartPlayerDue(x) /\ Rest(x) = Rest(g) /\ TurnOf(x) = TurnOf(g)
    BY <2>1, OpeningFacts
  <2>3. start' = "yield" BY <2>1, <2>2 DEF SleepIn
  <2> HIDE DEF x
  <2>4. /\ g' \in Memory /\ g'.in_game = x.in_game /\ g'.in_bonus = x.in_bonus
        /\ g'.in_tilt = FALSE /\ g'.valid = FALSE /\ g'.player_up = x.player_up
        /\ g'.ball_up = x.ball_up /\ g'.live = x.live /\ g'.bip = x.bip /\ g'.extra = x.extra
        /\ g'.num_players = x.num_players
    BY <2>1, <2>2, StartBallFacts
  <2>5. /\ g'.in_game = g.in_game /\ g'.in_bonus = g.in_bonus /\ g'.player_up = g.player_up
        /\ g'.ball_up = g.ball_up /\ g'.live = g.live /\ g'.bip = g.bip /\ g'.extra = g.extra
        /\ g'.num_players = g.num_players
    BY <2>2, <2>4 DEF Rest, TurnOf
  <2>6. OutOfGame(g') /\ TurnExists(g', over) /\ OverSleeps(g', "yield", over)
    BY <2>1, <2>2, <2>4, <2>5, ControlFacts DEF OutOfGame, TurnExists, OverSleeps
  <2>7. EndSleeps(g', "yield", end, over) /\ StartSleeps(g', "yield", immune, end, over)
    BY <2>1, <2>2, <2>4, <2>5, ControlFacts DEF EndSleeps, StartSleeps, Opening, Ending
  <2>8. Tasks("yield", end, over) BY ControlFacts DEF Tasks
  <2> QED BY <2>1, <2>3, <2>4, <2>5, <2>6, <2>7, <2>8, ControlFacts DEF GameControl, Control
<1>3. CASE StartServe
  <2>1. /\ start = "yield" /\ start' = "none" /\ g' = ServeBall(g)
        /\ UNCHANGED <<immune, end, over>>
    BY <1>3 DEF StartServe
  <2>2. g.in_game /\ over = "none" /\ end \notin Ending
    BY <2>1, OpeningFacts
  <2>3. /\ g' \in Memory /\ g'.in_game = g.in_game /\ g'.in_bonus = g.in_bonus
        /\ g'.in_tilt = g.in_tilt /\ g'.valid = FALSE /\ g'.player_up = g.player_up
        /\ g'.ball_up = g.ball_up /\ g'.bip = g.bip /\ g'.extra = g.extra
        /\ g'.num_players = g.num_players
    BY <1>0, <2>1, ServeFacts
  <2>4. OutOfGame(g') /\ TurnExists(g', over) /\ OverSleeps(g', "none", over)
    BY <2>1, <2>2, <2>3, ControlFacts DEF OutOfGame, TurnExists, OverSleeps
  <2>5. EndSleeps(g', "none", end, over) /\ StartSleeps(g', "none", immune, end, over)
    BY <2>1, <2>2, <2>3, ControlFacts DEF EndSleeps, StartSleeps, Opening, Ending
  <2>6. Tasks("none", end, over) BY ControlFacts DEF Tasks
  <2> QED BY <2>1, <2>3, <2>4, <2>5, <2>6, ControlFacts DEF GameControl, Control
<1> QED BY <1>1, <1>2, <1>3 DEF StartTask

(* What leaves the game at a halt: a tilt that kills start_game, or        *)
(* end_game_task, and a slam tilt in the middle of anything.               *)
TiltHalts == /\ SwTilt /\ g.warnings + 1 = TiltWarnings
             /\ over # "none" \/ (start \in Opening /\ ~ immune)
SlamHalts == SwSlamTilt /\ ~ (start = "none" /\ end = "none" /\ over = "none")
Halts     == TiltHalts \/ SlamHalts

LEMMA PlayControl == ASSUME Timely, ~ TiltHalts, GameControl, Play PROVE GameControl'
<1>0. g \in Memory
  BY ControlFacts
<1>1. CASE SetValidPlayfield
  <2>1. /\ g' = [g EXCEPT !.valid = TRUE] /\ UNCHANGED <<start, immune, end, over>>
        /\ start \notin Opening /\ g.in_game
    BY <1>1, ControlFacts DEF SetValidPlayfield, BallActs, Timely, Opening
  <2>2. /\ g' \in Memory /\ g'.in_game = g.in_game /\ g'.in_bonus = g.in_bonus
        /\ g'.in_tilt = g.in_tilt /\ g'.player_up = g.player_up
        /\ g'.ball_up = g.ball_up /\ g'.live = g.live /\ g'.bip = g.bip /\ g'.extra = g.extra
        /\ g'.num_players = g.num_players
    BY <1>0, <2>1 DEF Memory
  <2>3. OutOfGame(g') /\ TurnExists(g', over) /\ OverSleeps(g', start, over)
    BY <2>1, <2>2, ControlFacts DEF OutOfGame, TurnExists, OverSleeps
  <2>4. EndSleeps(g', start, end, over)
    BY <2>1, <2>2, ControlFacts DEF EndSleeps
  <2>5. StartSleeps(g', start, immune, end, over)
    BY <2>1, <2>2, ControlFacts DEF StartSleeps, Opening
  <2> QED BY <2>1, <2>2, <2>3, <2>4, <2>5, ControlFacts DEF GameControl, Control
<1>2. CASE DeviceAddLive \/ DeviceRemoveLive
  <2> DEFINE n == g'.live
  <2>1. /\ n \in 0 .. MaxLive /\ g.live # 0 /\ g' = [g EXCEPT !.live = n]
        /\ UNCHANGED <<start, immune, end, over>>
    <3>1. UNCHANGED <<start, immune, end, over>>
      BY <1>2 DEF DeviceAddLive, DeviceRemoveLive
    <3>2. CASE DeviceAddLive
      <4>1. /\ g' = [g EXCEPT !.live = g.live + 1] /\ g.live \in 1 .. MaxLive - 1
        BY <3>2 DEF DeviceAddLive
      <4>2. g'.live = g.live + 1 BY <1>0, <4>1 DEF Memory
      <4>3. g'.live \in 0 .. MaxLive /\ g.live # 0
        <5> DEFINE k == g.live
                   l == g'.live
        <5>1. k \in 1 .. MaxLive - 1 /\ l = k + 1 BY <4>1, <4>2
        <5> HIDE DEF k, l
        <5>2. l \in 0 .. MaxLive /\ k # 0 BY <5>1, Constants
        <5> QED BY <5>2 DEF k, l
      <4> QED BY <3>1, <4>1, <4>2, <4>3
    <3>3. CASE DeviceRemoveLive
      <4>1. /\ g' = [g EXCEPT !.live = g.live - 1] /\ g.live > 0
        BY <3>3 DEF DeviceRemoveLive
      <4>2. g'.live = g.live - 1 BY <1>0, <4>1 DEF Memory
      <4>3. g.live \in 0 .. MaxLive /\ MaxLive \in Nat
        BY <1>0, MemoryFields, Constants
      <4>4. g'.live \in 0 .. MaxLive /\ g.live # 0
        <5> DEFINE k == g.live
                   l == g'.live
        <5>1. k \in 0 .. MaxLive /\ l = k - 1 /\ k > 0 BY <4>1, <4>2, <4>3
        <5> HIDE DEF k, l
        <5>2. l \in 0 .. MaxLive /\ k # 0 BY <4>3, <5>1
        <5> QED BY <5>2 DEF k, l
      <4> QED BY <3>1, <4>1, <4>2, <4>4
    <3> QED BY <1>2, <3>2, <3>3
  <2> HIDE DEF n
  <2>2. /\ g' \in Memory /\ g'.in_game = g.in_game /\ g'.in_bonus = g.in_bonus
        /\ g'.in_tilt = g.in_tilt /\ g'.valid = g.valid /\ g'.player_up = g.player_up
        /\ g'.ball_up = g.ball_up /\ g'.bip = g.bip /\ g'.extra = g.extra
        /\ g'.num_players = g.num_players
    BY <1>0, <2>1 DEF Memory
  <2>3. end \notin Ending /\ over # "stop"
    BY <2>1, ControlFacts DEF EndSleeps, OverSleeps
  <2>4. OutOfGame(g') /\ TurnExists(g', over) /\ OverSleeps(g', start, over)
    BY <2>2, <2>3, ControlFacts DEF OutOfGame, TurnExists, OverSleeps
  <2>5. EndSleeps(g', start, end, over)
    BY <2>2, <2>3, ControlFacts DEF EndSleeps
  <2>6. StartSleeps(g', start, immune, end, over)
    BY <2>1, <2>2, ControlFacts DEF StartSleeps
  <2> QED BY <2>1, <2>2, <2>4, <2>5, <2>6, ControlFacts DEF GameControl, Control
<1>3. CASE EndBall
  <2>1. /\ g' = [g EXCEPT !.live = 0, !.in_bonus = TRUE] /\ UNCHANGED <<start, immune, over>>
        /\ end' = "bonus" /\ start \in {"none", "hold"} /\ g.in_game /\ g.live = 1
    BY <1>3 DEF EndBall, BallActs, Timely
  <2>2. over = "none"
    BY <2>1, ControlFacts DEF OverSleeps, Tasks
  <2>3. /\ g' \in Memory /\ g'.in_game = g.in_game /\ g'.in_bonus = TRUE
        /\ g'.in_tilt = g.in_tilt /\ g'.valid = g.valid /\ g'.player_up = g.player_up
        /\ g'.ball_up = g.ball_up /\ g'.bip = g.bip /\ g'.extra = g.extra /\ g'.live = 0
        /\ g'.num_players = g.num_players
    <3>1. 0 \in 0 .. MaxLive BY Constants
    <3> QED BY <1>0, <2>1, <3>1 DEF Memory
  <2>4. OutOfGame(g') /\ TurnExists(g', over) /\ OverSleeps(g', start, over)
    BY <2>1, <2>2, <2>3, ControlFacts DEF OutOfGame, TurnExists, OverSleeps
  <2>5. EndSleeps(g', start, "bonus", over)
    BY <2>1, <2>2, <2>3 DEF EndSleeps
  <2>6. StartSleeps(g', start, immune, "bonus", over)
    BY <2>1, <2>3, ControlFacts DEF StartSleeps, Opening
  <2>7. Tasks(start, "bonus", over) BY ControlFacts DEF Tasks
  <2> QED BY <2>1, <2>3, <2>4, <2>5, <2>6, <2>7, ControlFacts DEF GameControl, Control
<1>4. CASE IncrementExtraBalls
  <2> DEFINE w == [g.local EXCEPT !.earned = g.local.earned + 1]
  <2>1. /\ g' = [g EXCEPT !.extra = g.extra + 1, !.bip = g.bip + 1, !.local = w]
        /\ UNCHANGED <<start, immune, end, over>> /\ g.bip < MaxEbsPerBip
        /\ start \in {"none", "hold"}
    BY <1>4 DEF IncrementExtraBalls, CanAwardExtraBall, BallActs, Timely
  <2>2. w \in Area BY <1>0, MemoryFields DEF Area
  <2> HIDE DEF w
  <2>3. /\ g.extra + 1 \in 0 .. MaxEbsPerBip /\ g.bip + 1 \in 0 .. MaxEbsPerBip
        /\ g.extra + 1 <= g.bip + 1 /\ g.bip + 1 > 0
    <3>1. g.extra <= g.bip BY ControlFacts
    <3>2. g.bip < MaxEbsPerBip /\ MaxEbsPerBip \in Nat /\ g.bip \in Nat /\ g.extra \in Nat
      BY <1>0, <2>1, MemoryNumbers, Constants
    <3> DEFINE a == g.extra
               b == g.bip
    <3> HIDE DEF a, b
    <3>3. a <= b /\ b < MaxEbsPerBip /\ MaxEbsPerBip \in Nat /\ a \in Nat /\ b \in Nat
      BY <3>1, <3>2 DEF a, b
    <3>4. a + 1 \in 0 .. MaxEbsPerBip /\ b + 1 \in 0 .. MaxEbsPerBip /\ a + 1 <= b + 1 /\ b + 1 > 0
      BY <3>3
    <3> QED BY <3>4 DEF a, b
  <2>4. /\ g' \in Memory /\ g'.in_game = g.in_game /\ g'.in_bonus = g.in_bonus
        /\ g'.in_tilt = g.in_tilt /\ g'.valid = g.valid /\ g'.player_up = g.player_up
        /\ g'.ball_up = g.ball_up /\ g'.bip = g.bip + 1 /\ g'.extra = g.extra + 1
        /\ g'.live = g.live /\ g'.num_players = g.num_players
    BY <1>0, <2>1, <2>2, <2>3 DEF Memory
  <2>5. OutOfGame(g') /\ TurnExists(g', over) /\ OverSleeps(g', start, over)
    BY <2>4, ControlFacts DEF OutOfGame, TurnExists, OverSleeps
  <2>6. EndSleeps(g', start, end, over)
    <3>1. g.live > 0 \/ end = "bonus"
      BY <1>4 DEF IncrementExtraBalls
    <3>2. end \in Ending => g.live = 0
      BY ControlFacts DEF EndSleeps
    <3>3. end # "buyin"
      BY <3>1, <3>2 DEF Ending
    <3> QED BY <2>3, <2>4, <3>3, ControlFacts DEF EndSleeps
  <2>7. StartSleeps(g', start, immune, end, over)
    BY <2>1, <2>4, ControlFacts DEF StartSleeps, Opening
  <2> QED BY <2>1, <2>3, <2>4, <2>5, <2>6, <2>7, ControlFacts DEF GameControl, Control
<1>5. CASE SwTilt
  <2>1. g.in_game /\ UNCHANGED <<immune, end>>
    BY <1>5 DEF SwTilt
  <2>2. CASE g.warnings + 1 = TiltWarnings
    <3>1. /\ g' = [g EXCEPT !.warnings = TiltWarnings, !.in_tilt = TRUE, !.valid = TRUE]
          /\ start' = (IF immune THEN start ELSE "none") /\ over' = "none"
      BY <1>5, <2>2 DEF SwTilt, DurationExpire
    <3>2. TiltWarnings \in 0 .. TiltWarnings BY Constants
    <3>3. /\ g' \in Memory /\ g'.in_game = g.in_game /\ g'.in_bonus = g.in_bonus
          /\ g'.player_up = g.player_up
          /\ g'.ball_up = g.ball_up /\ g'.live = g.live /\ g'.bip = g.bip /\ g'.extra = g.extra
          /\ g'.num_players = g.num_players
      BY <1>0, <3>1, <3>2 DEF Memory
    <3>4. over = "none" /\ (start \in Opening => immune)
      BY <1>5, <2>2 DEF TiltHalts
    <3>5. start' = start \/ (start' = "none" /\ start \notin Opening)
      BY <3>1, <3>4
    <3>6. OutOfGame(g') /\ TurnExists(g', "none") /\ OverSleeps(g', start', "none")
      BY <2>1, <3>3, <3>4, ControlFacts DEF OutOfGame, TurnExists, OverSleeps
    <3>7. EndSleeps(g', start', end, "none")
      BY <2>1, <3>3, <3>4, <3>5, ControlFacts DEF EndSleeps
    <3>8. StartSleeps(g', start', immune, end, "none")
      BY <3>3, <3>4, <3>5, ControlFacts DEF StartSleeps, Opening
    <3>9. Tasks(start', end, "none") BY <3>5, ControlFacts DEF Tasks
    <3> QED BY <2>1, <3>1, <3>3, <3>6, <3>7, <3>8, <3>9, ControlFacts DEF GameControl, Control
  <2>3. CASE g.warnings + 1 # TiltWarnings
    <3> DEFINE n == IF g.warnings < TiltWarnings THEN g.warnings + 1 ELSE g.warnings
    <3>1. g' = [g EXCEPT !.warnings = n] /\ UNCHANGED <<start, over>>
      BY <1>5, <2>3 DEF SwTilt
    <3>2. n \in 0 .. TiltWarnings BY <1>0, MemoryFields, Constants
    <3> HIDE DEF n
    <3>3. /\ g' \in Memory /\ g'.in_game = g.in_game /\ g'.in_bonus = g.in_bonus
          /\ g'.in_tilt = g.in_tilt /\ g'.valid = g.valid /\ g'.player_up = g.player_up
          /\ g'.ball_up = g.ball_up /\ g'.live = g.live /\ g'.bip = g.bip /\ g'.extra = g.extra
          /\ g'.num_players \in {g.num_players, g.num_players + 1}
      BY <1>0, <3>1, <3>2 DEF Memory
    <3> QED BY <2>1, <3>1, <3>3, ControlFacts, SameControl DEF GameControl
  <2> QED BY <2>2, <2>3
<1> QED BY <1>1, <1>2, <1>3, <1>4, <1>5 DEF Play

-----------------------------------------------------------------------------
(* end_ball.                                                               *)

(* A memory with a player up, and no ball yet.                             *)
BetweenBalls(x) ==
  /\ x \in Memory /\ x.in_game /\ ~ x.in_bonus /\ x.live = 0 /\ x.extra <= x.bip
  /\ x.player_up \in 1 .. x.num_players /\ x.ball_up \in 1 .. BallsPerGame

LEMMA ServeControl ==
  ASSUME NEW x, BetweenBalls(x), NEW i \in BOOLEAN
  PROVE  Control(StartBall(x), "none", i, SleepIn(x), "none")
<1> DEFINE y == StartBall(x)
           e == SleepIn(x)
<1>1. /\ y \in Memory
      /\ y.in_game = x.in_game /\ y.in_bonus = x.in_bonus /\ y.in_tilt = FALSE
      /\ y.valid = FALSE /\ y.num_players = x.num_players /\ y.player_up = x.player_up
      /\ y.ball_up = x.ball_up /\ y.extra = x.extra /\ y.bip = x.bip
      /\ e = "none" \/ (e = "yield" /\ y.live = x.live)
  BY StartBallFacts DEF BetweenBalls, SleepIn
<1> HIDE DEF y, e
<1>2. OutOfGame(y) /\ OverSleeps(y, "none", "none")
  BY <1>1 DEF BetweenBalls, OutOfGame, OverSleeps
<1>3. TurnExists(y, "none")
  BY <1>1, Constants DEF BetweenBalls, TurnExists
<1>4. EndSleeps(y, "none", e, "none")
  BY <1>1 DEF BetweenBalls, EndSleeps, Ending
<1>5. StartSleeps(y, "none", i, e, "none") /\ Tasks("none", e, "none")
  BY <1>1 DEF StartSleeps, Opening, Tasks
<1>6. y.extra <= y.bip
  BY <1>1 DEF BetweenBalls
<1> QED BY <1>1, <1>2, <1>3, <1>4, <1>5, <1>6 DEF Control, y, e

LEMMA AfterFacts ==
  ASSUME NEW x, BetweenBalls(x), NEW z \in Memory, Rest(z) = Rest(x), TurnOf(z) = After(x)
  PROVE  /\ z.in_game /\ ~ z.in_bonus /\ z.live = 0 /\ z.extra <= z.bip
         /\ z.player_up \in 1 .. z.num_players /\ z.ball_up \in 1 .. BallsPerGame + 1
         /\ z.in_game = x.in_game /\ z.in_tilt = x.in_tilt /\ z.valid = x.valid
         /\ z.num_players = x.num_players /\ z.bip = x.bip /\ z.extra = x.extra
<1>1. /\ z.in_game = x.in_game /\ z.in_bonus = x.in_bonus /\ z.live = x.live
      /\ z.extra = x.extra /\ z.bip = x.bip /\ z.num_players = x.num_players
      /\ z.in_tilt = x.in_tilt /\ z.valid = x.valid
  BY DEF Rest
<1>2. /\ x.player_up \in Nat /\ x.num_players \in Nat /\ x.player_up >= 1 /\ x.ball_up \in Nat
      /\ x.player_up <= x.num_players /\ x.ball_up >= 1 /\ x.ball_up <= BallsPerGame
      /\ BallsPerGame \in Nat
  BY MemoryNumbers, Constants DEF BetweenBalls
<1>3. /\ z.player_up \in 1 .. x.num_players /\ z.ball_up \in 1 .. BallsPerGame + 1
  <2>1. CASE x.player_up < x.num_players
    <3>1. z.player_up = x.player_up + 1 /\ z.ball_up = x.ball_up
      BY <2>1 DEF After, TurnOf
    <3> QED BY <1>2, <2>1, <3>1
  <2>2. CASE ~ (x.player_up < x.num_players)
    <3>1. z.player_up = 1 /\ z.ball_up = x.ball_up + 1
      BY <2>2 DEF After, TurnOf
    <3> QED BY <1>2, <3>1
  <2> QED BY <2>1, <2>2
<1> QED BY <1>1, <1>3 DEF BetweenBalls

LEMMA TurnControl ==
  ASSUME NEW x, BetweenBalls(x), NEW ends, NextTurn(x, ends), over = "none", start' = "none",
         immune' \in BOOLEAN
  PROVE  GameControl'
<1>1. x \in Memory /\ x.player_up \in 1 .. x.num_players /\ x.ball_up <= BallsPerGame
  BY Constants DEF BetweenBalls
<1>2. PICK z \in Memory :
        /\ Rest(z) = Rest(x) /\ TurnOf(z) = After(x)
        /\ \/ z.ball_up <= BallsPerGame /\ g' = StartBall(z) /\ end' = SleepIn(z) /\ over' = over
           \/ z.ball_up = BallsPerGame + 1 /\ g' = z /\ end' = "ending" /\ over' = "stop"
  BY <1>1, NextTurnFacts
<1>3. /\ z.in_game /\ ~ z.in_bonus /\ z.live = 0 /\ z.extra <= z.bip
      /\ z.player_up \in 1 .. z.num_players /\ z.ball_up \in 1 .. BallsPerGame + 1
  BY <1>2, AfterFacts
<1>4. CASE z.ball_up <= BallsPerGame /\ g' = StartBall(z) /\ end' = SleepIn(z) /\ over' = over
  <2>1. z.ball_up \in 1 .. BallsPerGame BY <1>3, <1>4, Constants
  <2>2. BetweenBalls(z) BY <1>2, <1>3, <2>1 DEF BetweenBalls
  <2> QED BY <1>4, <2>2, ServeControl DEF GameControl
<1>5. CASE z.ball_up = BallsPerGame + 1 /\ g' = z /\ end' = "ending" /\ over' = "stop"
  <2>1. OutOfGame(z) /\ OverSleeps(z, "none", "stop")
    BY <1>3, <1>5 DEF OutOfGame, OverSleeps
  <2>2. TurnExists(z, "stop")
    BY <1>3, Constants DEF TurnExists
  <2>3. EndSleeps(z, "none", "ending", "stop") /\ Tasks("none", "ending", "stop")
    BY <1>3 DEF EndSleeps, Ending, Tasks
  <2>4. StartSleeps(z, "none", immune', "ending", "stop")
    BY DEF StartSleeps, Opening
  <2> QED BY <1>2, <1>3, <1>5, <2>1, <2>2, <2>3, <2>4 DEF GameControl, Control
<1> QED BY <1>2, <1>4, <1>5

(* The end of the bonus finds the memory so, but for the bonus itself.     *)
LEMMA BonusFacts ==
  ASSUME GameControl, BonusDone \/ TiltSettled
  PROVE  /\ start' = "none" /\ immune' = immune /\ over = "none" /\ end = "bonus"
         /\ credits' = credits /\ start \in {"none", "hold"}
         /\ \E x : /\ TurnOver(x) /\ BetweenBalls(x) /\ x.in_tilt = FALSE
                   /\ x.valid = g.valid
                   /\ x.num_players = g.num_players /\ TurnOf(x) = TurnOf(g)
                   /\ x.extra = g.extra /\ x.bip = g.bip /\ x.local = g.local /\ x.saved = g.saved
<1>1. /\ g \in Memory /\ g.in_game /\ g.live = 0 /\ over = "none" /\ start \in {"none", "hold"}
      /\ end = "bonus"
  BY ControlFacts DEF BonusDone, TiltSettled, EndSleeps, Ending
<1>2. immune' = immune /\ start' = "none" /\ credits' = credits
  BY <1>1, ControlFacts DEF BonusDone, TiltSettled, DurationExpire, StartSleeps
<1>3. ASSUME NEW x \in Memory, x.in_tilt = FALSE, TurnOver(LeaveBonus(x)),
             x.in_game, x.live = 0, x.valid = g.valid,
             x.num_players = g.num_players, TurnOf(x) = TurnOf(g),
             x.extra = g.extra, x.bip = g.bip, x.local = g.local, x.saved = g.saved
      PROVE  \E y : /\ TurnOver(y) /\ BetweenBalls(y) /\ y.in_tilt = FALSE
                    /\ y.valid = g.valid
                    /\ y.num_players = g.num_players /\ TurnOf(y) = TurnOf(g)
                    /\ y.extra = g.extra /\ y.bip = g.bip /\ y.local = g.local
                    /\ y.saved = g.saved
  <2> DEFINE y == LeaveBonus(x)
  <2>1. /\ y \in Memory /\ y.in_game = x.in_game /\ y.in_bonus = FALSE /\ y.live = x.live
        /\ y.in_tilt = x.in_tilt /\ y.num_players = x.num_players /\ TurnOf(y) = TurnOf(x)
        /\ y.extra = x.extra /\ y.bip = x.bip /\ y.local = x.local /\ y.saved = x.saved
        /\ y.valid = x.valid
    BY DEF LeaveBonus, Memory, TurnOf
  <2> HIDE DEF y
  <2>2. g.player_up \in 1 .. g.num_players /\ g.ball_up \in 1 .. BallsPerGame
    <3>1. /\ g.player_up \in 1 .. g.num_players /\ g.ball_up >= 1 /\ g.ball_up <= BallsPerGame
      BY <1>1, ControlFacts DEF TurnExists
    <3> QED BY <1>1, <3>1, MemoryNumbers, Constants
  <2>3. y.extra <= y.bip /\ y.player_up = g.player_up /\ y.ball_up = g.ball_up
    BY <1>3, <2>1, ControlFacts DEF TurnOf
  <2>4. BetweenBalls(y)
    BY <1>3, <2>1, <2>2, <2>3 DEF BetweenBalls
  <2> QED BY <1>3, <2>1, <2>4 DEF y
<1>4. CASE BonusDone
  <2>1. g.in_tilt = FALSE /\ TurnOver(LeaveBonus(g))
    BY <1>1, <1>4, MemoryFields DEF BonusDone
  <2> QED BY <1>1, <1>2, <1>3, <2>1
<1>5. CASE TiltSettled
  <2> DEFINE x == [g EXCEPT !.in_tilt = FALSE]
  <2>1. TurnOver(LeaveBonus(x))
    BY <1>5, Zenon DEF TiltSettled
  <2>2. /\ x \in Memory /\ x.in_tilt = FALSE /\ x.in_game = g.in_game /\ x.live = g.live
        /\ x.num_players = g.num_players /\ TurnOf(x) = TurnOf(g) /\ x.valid = g.valid
        /\ x.extra = g.extra /\ x.bip = g.bip /\ x.local = g.local /\ x.saved = g.saved
    BY <1>1 DEF Memory, TurnOf
  <2> HIDE DEF x
  <2> QED BY <1>1, <1>2, <1>3, <2>1, <2>2
<1> QED BY <1>4, <1>5

(* What is left of the turn is an extra ball, or the buy-in, or nothing.   *)
LEMMA TurnOverCases ==
  ASSUME NEW x, TurnOver(x)
  PROVE  LET y == [x EXCEPT !.bip = 0]
         IN  \/ /\ x.extra > 0 /\ g' = [x EXCEPT !.extra = x.extra - 1]
                /\ end' = "again" /\ over' = over /\ hist' = hist
             \/ x.extra = 0 /\ ~ LastBall(x) /\ NextTurn(y, hist.ends)
             \/ x.extra = 0 /\ LastBall(x) /\ ~ BuyIn /\ NextTurn(y, EndPlayer(y))
             \/ /\ x.extra = 0 /\ LastBall(x) /\ BuyIn
                /\ g' = [y EXCEPT !.passed = TRUE, !.offer = BuyinTimeout]
                /\ end' = "buyin" /\ over' = over /\ hist' = hist
  BY Zenon DEF TurnOver

(* No extra ball is left over then.                                        *)
LEMMA TurnOverFacts ==
  ASSUME NEW x, BetweenBalls(x), x.extra = 0
  PROVE  LET y == [x EXCEPT !.bip = 0]
         IN  /\ BetweenBalls(y) /\ y.in_tilt = x.in_tilt /\ y.num_players = x.num_players
             /\ y.valid = x.valid
             /\ TurnOf(y) = TurnOf(x) /\ y.bip = 0 /\ y.extra = 0
             /\ y.local = x.local /\ y.saved = x.saved
<1> DEFINE y == [x EXCEPT !.bip = 0]
<1>1. 0 \in 0 .. MaxEbsPerBip /\ x \in Memory
  BY Constants DEF BetweenBalls
<1>2. /\ y \in Memory /\ y.in_game = x.in_game /\ y.in_bonus = x.in_bonus /\ y.live = x.live
      /\ y.in_tilt = x.in_tilt /\ y.num_players = x.num_players /\ y.bip = 0 /\ y.extra = 0
      /\ y.local = x.local /\ y.saved = x.saved /\ y.player_up = x.player_up /\ y.ball_up = x.ball_up
      /\ y.valid = x.valid
  BY <1>1 DEF Memory
<1> HIDE DEF y
<1>3. BetweenBalls(y)
  BY <1>2 DEF BetweenBalls
<1> QED BY <1>2, <1>3 DEF y, TurnOf

LEMMA AgainControl ==
  ASSUME NEW x, BetweenBalls(x), x.extra > 0, NEW i \in BOOLEAN
  PROVE  /\ [x EXCEPT !.extra = x.extra - 1] \in Memory
         /\ Control([x EXCEPT !.extra = x.extra - 1], "none", i, "again", "none")
<1> DEFINE n == x.extra - 1
           y == [x EXCEPT !.extra = n]
<1>1. n \in 0 .. MaxEbsPerBip /\ n <= x.bip /\ x.bip > 0 /\ x \in Memory
  <2> DEFINE a == x.extra
             b == x.bip
  <2>1. a \in Nat /\ b \in Nat /\ a <= b /\ a > 0 /\ a <= MaxEbsPerBip /\ MaxEbsPerBip \in Nat
    BY MemoryNumbers, Constants DEF BetweenBalls
  <2> HIDE DEF a, b
  <2>2. a - 1 \in 0 .. MaxEbsPerBip /\ a - 1 <= b /\ b > 0
    BY <2>1
  <2> QED BY <2>2 DEF a, b, BetweenBalls
<1> HIDE DEF n
<1>2. /\ y \in Memory /\ y.in_game = x.in_game /\ y.in_bonus = x.in_bonus /\ y.live = x.live
      /\ y.num_players = x.num_players /\ y.bip = x.bip /\ y.extra = n
      /\ y.player_up = x.player_up /\ y.ball_up = x.ball_up
  BY <1>1 DEF Memory
<1> HIDE DEF y
<1>3. OutOfGame(y) /\ OverSleeps(y, "none", "none") /\ Tasks("none", "again", "none")
  BY <1>2 DEF BetweenBalls, OutOfGame, OverSleeps, Tasks
<1>4. TurnExists(y, "none")
  BY <1>2, Constants DEF BetweenBalls, TurnExists
<1>5. EndSleeps(y, "none", "again", "none")
  BY <1>1, <1>2 DEF BetweenBalls, EndSleeps, Ending
<1>6. StartSleeps(y, "none", i, "again", "none")
  BY DEF StartSleeps, Opening
<1> QED BY <1>1, <1>2, <1>3, <1>4, <1>5, <1>6 DEF Control, y, n

LEMMA BonusControl == ASSUME GameControl, BonusDone \/ TiltSettled PROVE GameControl'
<1>1. /\ start' = "none" /\ immune' = immune /\ over = "none" /\ immune \in BOOLEAN
  BY BonusFacts, ControlFacts
<1>2. PICK x : TurnOver(x) /\ BetweenBalls(x)
  BY BonusFacts
<1> DEFINE y == [x EXCEPT !.bip = 0]
<1>3. CASE x.extra > 0
  <2>0. x.extra # 0
    BY <1>3
  <2>1. g' = [x EXCEPT !.extra = x.extra - 1] /\ end' = "again" /\ over' = over
    BY <1>2, <2>0, TurnOverCases, Zenon
  <2> QED BY <1>1, <1>2, <1>3, <2>1, AgainControl DEF GameControl
<1>4. CASE x.extra = 0
  <2>0. ~ (x.extra > 0)
    BY <1>4
  <2>1. /\ BetweenBalls(y) /\ TurnOf(y) = TurnOf(x) /\ y.bip = 0
    BY <1>2, <1>4, TurnOverFacts
  <2>2. \/ NextTurn(y, hist.ends) \/ NextTurn(y, EndPlayer(y))
        \/ /\ g' = [y EXCEPT !.passed = TRUE, !.offer = BuyinTimeout]
           /\ end' = "buyin" /\ over' = over /\ LastBall(x) /\ BuyIn
    BY <1>2, <2>0, TurnOverCases, Zenon
  <2> HIDE DEF y
  <2>3. CASE NextTurn(y, hist.ends) \/ NextTurn(y, EndPlayer(y))
    BY <1>1, <2>1, <2>3, TurnControl
  <2>4. CASE /\ g' = [y EXCEPT !.passed = TRUE, !.offer = BuyinTimeout]
             /\ end' = "buyin" /\ over' = over /\ LastBall(x) /\ BuyIn
    <3>1. BuyinTimeout \in 0 .. BuyinTimeout /\ y \in Memory
      BY <2>1, Constants DEF BetweenBalls
    <3>2. /\ g' \in Memory /\ g'.in_game = y.in_game /\ g'.in_bonus = y.in_bonus /\ g'.live = y.live
          /\ g'.num_players = y.num_players /\ g'.bip = y.bip /\ g'.extra = y.extra
          /\ g'.player_up = y.player_up /\ g'.ball_up = y.ball_up
      BY <2>4, <3>1 DEF Memory
    <3>3. OutOfGame(g') /\ OverSleeps(g', "none", "none") /\ Tasks("none", "buyin", "none")
      BY <2>1, <3>2 DEF BetweenBalls, OutOfGame, OverSleeps, Tasks
    <3>4. TurnExists(g', "none")
      BY <2>1, <3>2, Constants DEF BetweenBalls, TurnExists
    <3>5. EndSleeps(g', "none", "buyin", "none")
      BY <2>1, <2>4, <3>2 DEF BetweenBalls, EndSleeps, Ending, LastBall, TurnOf
    <3>6. StartSleeps(g', "none", immune, "buyin", "none")
      BY DEF StartSleeps, Opening
    <3>7. g'.extra <= g'.bip
      BY <2>1, <3>2 DEF BetweenBalls
    <3> QED BY <1>1, <2>4, <3>2, <3>3, <3>4, <3>5, <3>6, <3>7 DEF GameControl, Control
  <2> QED BY <2>2, <2>3, <2>4
<1> QED BY <1>2, <1>3, <1>4, MemoryNumbers DEF BetweenBalls

(* Between the bonus and the next ball.                                    *)
LEMMA BetweenFacts ==
  ASSUME GameControl, end \in {"again", "buyin"}
  PROVE  BetweenBalls(g) /\ start = "none" /\ over = "none" /\ ~ g.in_bonus
<1>1. /\ g \in Memory /\ g.in_game /\ g.live = 0 /\ over = "none" /\ start = "none"
      /\ ~ g.in_bonus
  BY ControlFacts DEF EndSleeps, Ending
<1>2. g.player_up \in 1 .. g.num_players /\ g.ball_up \in 1 .. BallsPerGame
  <2>1. /\ g.player_up \in 1 .. g.num_players /\ g.ball_up >= 1 /\ g.ball_up <= BallsPerGame
    BY <1>1, ControlFacts DEF TurnExists
  <2> QED BY <1>1, <2>1, MemoryNumbers, Constants
<1> QED BY <1>1, <1>2, ControlFacts DEF BetweenBalls

LEMMA EndControl == ASSUME GameControl, EndTask PROVE GameControl'
<1>0. g \in Memory /\ immune \in BOOLEAN
  BY ControlFacts
<1>1. CASE BonusDone \/ TiltSettled
  BY <1>1, BonusControl
<1>2. CASE ShootAgain
  <2>1. /\ end = "again" /\ g' = StartBall(g) /\ end' = SleepIn(g) /\ over' = over
        /\ UNCHANGED <<start, immune>>
    BY <1>2 DEF ShootAgain, NextBall
  <2>2. BetweenBalls(g) /\ start = "none" /\ over = "none" BY <2>1, BetweenFacts
  <2> QED BY <1>0, <2>1, <2>2, ServeControl DEF GameControl
<1>3. CASE EndServe
  <2>1. /\ end = "yield" /\ end' = "none" /\ g' = ServeBall(g) /\ UNCHANGED <<start, immune, over>>
    BY <1>3 DEF EndServe
  <2>2. g.in_game /\ ~ g.in_bonus /\ start = "none" /\ over = "none"
    BY <2>1, ControlFacts DEF EndSleeps, Ending
  <2>3. /\ g' \in Memory /\ g'.in_game = g.in_game /\ g'.in_bonus = g.in_bonus
        /\ g'.in_tilt = g.in_tilt /\ g'.valid = FALSE /\ g'.player_up = g.player_up
        /\ g'.ball_up = g.ball_up /\ g'.bip = g.bip /\ g'.extra = g.extra
        /\ g'.num_players = g.num_players
    BY <1>0, <2>1, ServeFacts
  <2>4. OutOfGame(g') /\ TurnExists(g', "none") /\ OverSleeps(g', "none", "none")
    BY <2>1, <2>2, <2>3, ControlFacts DEF OutOfGame, TurnExists, OverSleeps
  <2>5. EndSleeps(g', "none", "none", "none") /\ StartSleeps(g', "none", immune, "none", "none")
    BY <2>2, <2>3 DEF EndSleeps, StartSleeps, Opening, Ending
  <2>6. Tasks("none", "none", "none") BY DEF Tasks
  <2> QED BY <2>1, <2>2, <2>3, <2>4, <2>5, <2>6, ControlFacts DEF GameControl, Control
<1>4. CASE BuyinTick
  <2>1. UNCHANGED <<start, immune, end, over>> /\ g' = [g EXCEPT !.offer = g.offer - 1] /\ g.offer > 0
    BY <1>4 DEF BuyinTick, OfferShown
  <2>2. g.offer - 1 \in 0 .. BuyinTimeout
    BY <1>0, <2>1, MemoryFields, Constants
  <2>3. /\ g' \in Memory /\ g'.in_game = g.in_game /\ g'.in_bonus = g.in_bonus
        /\ g'.in_tilt = g.in_tilt /\ g'.valid = g.valid /\ g'.player_up = g.player_up
        /\ g'.ball_up = g.ball_up /\ g'.live = g.live /\ g'.bip = g.bip /\ g'.extra = g.extra
        /\ g'.num_players \in {g.num_players, g.num_players + 1}
    BY <1>0, <2>1, <2>2 DEF Memory
  <2> QED BY ZenonT(60), <2>1, <2>3, ControlFacts, SameControl DEF GameControl
<1>5. CASE BuyinDone
  <2>1. BetweenBalls(g) /\ start = "none" /\ over = "none"
    BY <1>5, BetweenFacts DEF BuyinDone
  <2>2. start' = start /\ immune' = immune /\ (NextTurn(g, EndPlayer(g)) \/ NextBall(g))
    BY <1>5, Zenon DEF BuyinDone
  <2>3. CASE NextTurn(g, EndPlayer(g))
    BY <1>0, <2>1, <2>2, <2>3, TurnControl
  <2>4. CASE NextBall(g)
    BY <1>0, <2>1, <2>2, <2>4, ServeControl DEF NextBall, GameControl
  <2> QED BY <2>2, <2>3, <2>4
<1>6. CASE EndDone
  <2>1. UNCHANGED <<g, start, immune, over>> /\ end = "ending" /\ end' = "none"
    BY <1>6 DEF EndDone
  <2>2. EndSleeps(g, start, "none", over)
    BY <2>1, ControlFacts DEF EndSleeps, Ending
  <2>3. StartSleeps(g, start, immune, "none", over) /\ Tasks(start, "none", over)
    BY ControlFacts DEF StartSleeps, Tasks
  <2> QED BY <2>1, <2>2, <2>3, ControlFacts DEF GameControl, Control
<1> QED BY <1>1, <1>2, <1>3, <1>4, <1>5, <1>6 DEF EndTask

-----------------------------------------------------------------------------
(* The game is over.                                                       *)
LEMMA StopFacts ==
  ASSUME NEW x \in Memory
  PROVE  LET y == StopGame(x)
         IN  /\ y \in Memory /\ y.in_game = FALSE /\ y.in_bonus = FALSE /\ y.in_tilt = FALSE
             /\ y.valid = FALSE /\ y.num_players = x.num_players /\ y.player_up = 0 /\ y.ball_up = 0
             /\ y.live = x.live /\ y.extra = x.extra /\ y.bip = x.bip
<1>1. 0 \in 0 .. MaxPlayers /\ 0 \in 0 .. BallsPerGame + 1
  BY Constants
<1> QED BY <1>1 DEF StopGame, Memory

LEMMA IdleControl ==
  ASSUME NEW x \in Memory, ~ x.in_game, ~ x.in_bonus, ~ x.in_tilt, ~ x.valid, x.extra <= x.bip,
         NEW i \in BOOLEAN, NEW e, NEW o, e \notin Ending, Tasks("none", e, o), o # "stop"
  PROVE  Control(x, "none", i, e, o)
<1>1. OutOfGame(x) /\ OverSleeps(x, "none", o) /\ TurnExists(x, o)
  BY DEF OutOfGame, OverSleeps, TurnExists
<1>2. EndSleeps(x, "none", e, o) /\ StartSleeps(x, "none", i, e, o)
  BY Zenon DEF EndSleeps, StartSleeps, Ending, Opening
<1> QED BY <1>1, <1>2 DEF Control

(* The reboot, wherever the tasks of the game slept.                       *)
LEMMA RebootControl ==
  ASSUME g \in Memory, immune \in BOOLEAN, WarmReboot
  PROVE  GameControl' /\ g'.in_game = FALSE /\ start' = "none" /\ end' = "none"
<1>1. /\ g' = [Idle EXCEPT !.num_players = g.num_players] /\ start' = "none" /\ end' = "none"
      /\ over' = "none" /\ immune' = immune
  BY DEF WarmReboot
<1>2. /\ {0} \subseteq (0 .. MaxPlayers) \cap (0 .. BallsPerGame + 1) \cap (0 .. MaxLive)
      /\ {0} \subseteq (0 .. TiltWarnings) \cap (0 .. BuyinTimeout) \cap (0 .. MaxEbsPerBip)
      /\ Zeroed \in Area /\ g.num_players \in Players
  BY MemoryFields, Constants DEF Zeroed, Area
<1>3. /\ g' \in Memory /\ g'.in_game = FALSE /\ g'.in_bonus = FALSE /\ g'.in_tilt = FALSE
      /\ g'.valid = FALSE /\ g'.extra = 0 /\ g'.bip = 0
  BY <1>1, <1>2 DEF Idle, Memory
<1>4. Tasks("none", "none", "none") /\ "none" \notin Ending BY DEF Tasks, Ending
<1>5. ~ g'.in_game /\ ~ g'.in_bonus /\ ~ g'.in_tilt /\ ~ g'.valid /\ g'.extra <= g'.bip
  BY <1>3
<1> QED BY <1>1, <1>3, <1>4, <1>5, IdleControl DEF GameControl

LEMMA OverControl ==
  ASSUME ~ SlamHalts, GameControl, OverTask \/ SwSlamTilt \/ WarmReboot
  PROVE  GameControl'
<1>0. g \in Memory /\ immune \in BOOLEAN /\ g.extra <= g.bip
  BY ControlFacts
<1>1. CASE OverStop
  <2>1. /\ g' = StopGame(g) /\ over = "stop" /\ over' = "effects" /\ UNCHANGED <<immune, end>>
        /\ start' = (IF immune THEN start ELSE "none")
    BY <1>1 DEF OverStop, DurationExpire
  <2>2. start' = "none" /\ end \notin Ending
    BY <2>1, ControlFacts DEF OverSleeps, StartSleeps, EndSleeps
  <2>3. Tasks("none", end, "effects") BY ControlFacts DEF Tasks
  <2> QED BY <1>0, <2>1, <2>2, <2>3, StopFacts, IdleControl DEF GameControl
<1>2. CASE OverDone
  <2>1. /\ g' = [g EXCEPT !.live = 0] /\ over = "effects" /\ over' = "none"
        /\ UNCHANGED <<start, immune, end>>
    BY <1>2 DEF OverDone
  <2>2. ~ g.in_game /\ start = "none"
    BY <2>1, ControlFacts DEF OverSleeps
  <2>3. end \notin Ending /\ ~ g.valid /\ ~ g.in_bonus /\ ~ g.in_tilt
    BY <2>2, ControlFacts DEF EndSleeps, OutOfGame
  <2>4. 0 \in 0 .. MaxLive BY Constants
  <2>5. /\ g' \in Memory /\ g'.in_game = g.in_game /\ g'.in_bonus = g.in_bonus
        /\ g'.in_tilt = g.in_tilt /\ g'.valid = g.valid /\ g'.bip = g.bip /\ g'.extra = g.extra
    BY <1>0, <2>1, <2>4 DEF Memory
  <2>6. Tasks("none", end, "none") BY ControlFacts DEF Tasks
  <2> QED BY <1>0, <2>1, <2>2, <2>3, <2>5, <2>6, IdleControl DEF GameControl
<1>3. CASE WarmReboot
  BY <1>0, <1>3, RebootControl
<1>4. CASE SwSlamTilt
  <2>1. /\ g' = StopGame(g) /\ over' = "none" /\ UNCHANGED <<immune, end>> /\ end = "none"
        /\ start' = "none"
    BY <1>4 DEF SwSlamTilt, DurationExpire, SlamHalts
  <2>2. Tasks("none", end, "none") /\ end \notin Ending BY <2>1 DEF Tasks, Ending
  <2> QED BY <1>0, <2>1, <2>2, StopFacts, IdleControl DEF GameControl
<1> QED BY <1>1, <1>2, <1>3, <1>4 DEF OverTask

LEMMA CoinControl == ASSUME GameControl, InsertCoin PROVE GameControl'
<1>0. g \in Memory
  BY ControlFacts
<1>1. /\ g' \in {g, [g EXCEPT !.offer = BuyinTimeout]} /\ UNCHANGED <<start, immune, end, over>>
  BY DEF InsertCoin
<1>2. BuyinTimeout \in 0 .. BuyinTimeout
  BY Constants
<1>3. /\ g' \in Memory /\ g'.in_game = g.in_game /\ g'.in_bonus = g.in_bonus
      /\ g'.in_tilt = g.in_tilt /\ g'.valid = g.valid /\ g'.player_up = g.player_up
      /\ g'.ball_up = g.ball_up /\ g'.live = g.live /\ g'.bip = g.bip /\ g'.extra = g.extra
      /\ g'.num_players \in {g.num_players, g.num_players + 1}
  BY <1>0, <1>1, <1>2 DEF Memory
<1> QED BY <1>1, <1>3, ControlFacts, SameControl DEF GameControl

LEMMA ControlStep == Timely /\ ~ Halts /\ GameControl /\ [Next]_vars => GameControl'
<1> SUFFICES ASSUME Timely, ~ Halts, GameControl, [Next]_vars PROVE GameControl'
  OBVIOUS
<1>1. CASE UNCHANGED vars
  BY <1>1 DEF vars, GameControl
<1>2. CASE Next
  BY <1>2, PressControl, StartControl, PlayControl, EndControl, OverControl, CoinControl DEF Next, Halts
<1> QED BY <1>1, <1>2

LEMMA ControlInit == Init => GameControl
<1> SUFFICES ASSUME Init PROVE GameControl
  OBVIOUS
<1>1. /\ {0} \subseteq (0 .. MaxPlayers) \cap (0 .. BallsPerGame + 1) \cap (0 .. MaxLive)
      /\ {0} \subseteq (0 .. TiltWarnings) \cap (0 .. BuyinTimeout) \cap (0 .. MaxEbsPerBip)
      /\ Zeroed \in Area /\ 1 \in Players
  BY Constants DEF Zeroed, Area
<1>2. /\ g \in Memory /\ g.in_game = FALSE /\ g.in_bonus = FALSE /\ g.in_tilt = FALSE
      /\ g.valid = FALSE /\ g.extra = 0 /\ g.bip = 0
  BY <1>1 DEF Init, Idle, Memory
<1>3. Tasks("none", "none", "none") /\ "none" \notin Ending BY DEF Tasks, Ending
<1>4. ~ g.in_game /\ ~ g.in_bonus /\ ~ g.in_tilt /\ ~ g.valid /\ g.extra <= g.bip
  BY <1>2
<1>5. start = "none" /\ immune \in BOOLEAN /\ end = "none" /\ over = "none"
  BY DEF Init
<1> QED BY <1>2, <1>3, <1>4, <1>5, IdleControl DEF GameControl

-----------------------------------------------------------------------------
(* The history, and the credits.                                           *)
LEMMA HistoryFields ==
  ASSUME NEW h \in History
  PROVE  /\ h.served \in BOOLEAN /\ h.unpaid \in Nat /\ h.coins \in Nat
         /\ h.awarded \in [Players -> Nat] /\ h.ends \in [Players -> Nat]
  BY DEF History

LEMMA HistoryTurn ==
  ASSUME NEW h \in History, NEW b \in BOOLEAN, NEW e \in [Players -> Nat]
  PROVE  LET k == [h EXCEPT !.served = b, !.ends = e]
         IN  /\ k \in History /\ k.served = b /\ k.ends = e /\ k.awarded = h.awarded
             /\ k.unpaid = h.unpaid
  BY DEF History

LEMMA HistoryEnds ==
  ASSUME NEW h \in History, NEW e \in [Players -> Nat]
  PROVE  LET l == [h EXCEPT !.ends = e]
         IN  /\ l \in History /\ l.served = h.served /\ l.ends = e /\ l.awarded = h.awarded
             /\ l.unpaid = h.unpaid
  BY DEF History

LEMMA HistoryServed ==
  ASSUME NEW h \in History
  PROVE  LET k == [h EXCEPT !.served = TRUE]
         IN  /\ k \in History /\ k.served = TRUE /\ k.ends = h.ends /\ k.awarded = h.awarded
             /\ k.unpaid = h.unpaid
  BY DEF History

LEMMA HistoryPaid ==
  ASSUME NEW h \in History, NEW n \in Nat
  PROVE  LET k == [h EXCEPT !.unpaid = n]
             l == [h EXCEPT !.coins = n]
         IN  /\ k \in History /\ k.served = h.served /\ k.ends = h.ends /\ k.awarded = h.awarded
             /\ k.unpaid = n
             /\ l \in History /\ l.served = h.served /\ l.ends = h.ends /\ l.awarded = h.awarded
             /\ l.unpaid = h.unpaid
  BY DEF History

LEMMA HistoryNew ==
  ASSUME NEW n \in Nat, NEW k \in Nat
  PROVE  LET h == [NoHist EXCEPT !.unpaid = n, !.coins = k]
         IN  /\ h \in History /\ h.awarded = [p \in Players |-> 0] /\ h.ends = [p \in Players |-> 0]
             /\ h.unpaid = n
<1>1. [p \in Players |-> 0] \in [Players -> Nat]
  OBVIOUS
<1> QED BY <1>1 DEF NoHist, History

LEMMA HistoryNone ==
  /\ NoHist \in History /\ NoHist.awarded = [p \in Players |-> 0]
  /\ NoHist.ends = [p \in Players |-> 0] /\ NoHist.unpaid = 0
<1>1. [p \in Players |-> 0] \in [Players -> Nat]
  OBVIOUS
<1> QED BY <1>1 DEF NoHist, History

LEMMA HistoryAward ==
  ASSUME NEW h \in History, NEW p \in Players
  PROVE  LET k == [h EXCEPT !.awarded[p] = @ + 1]
         IN  /\ k \in History /\ k.served = h.served /\ k.ends = h.ends /\ k.unpaid = h.unpaid
             /\ k.awarded = [h.awarded EXCEPT ![p] = h.awarded[p] + 1]
<1> DEFINE a == [h.awarded EXCEPT ![p] = h.awarded[p] + 1]
           k == [h EXCEPT !.awarded = a]
<1>1. a \in [Players -> Nat]
  BY HistoryFields
<1>2. [h EXCEPT !.awarded[p] = @ + 1] = k
  BY DEF History
<1> HIDE DEF a
<1>3. /\ k \in History /\ k.served = h.served /\ k.ends = h.ends /\ k.unpaid = h.unpaid /\ k.awarded = a
  BY <1>1 DEF History
<1> QED BY <1>2, <1>3 DEF a

GameInv == GameControl /\ hist \in History /\ credits \in 0 .. MaxCredits

LEMMA Money ==
  ASSUME credits \in 0 .. MaxCredits
  PROVE  /\ RemoveCredit \in 0 .. MaxCredits /\ AddCredit \in 0 .. MaxCredits
         /\ Unpaid \in Nat /\ (credits > 0 => Unpaid = 0)
         /\ AddCredit >= credits
  BY Constants DEF RemoveCredit, AddCredit, Unpaid

LEMMA CreditsStep == credits \in 0 .. MaxCredits /\ [Next]_vars => credits' \in 0 .. MaxCredits
<1> SUFFICES ASSUME credits \in 0 .. MaxCredits, [Next]_vars
             PROVE  credits' \in {credits, RemoveCredit, AddCredit}
  BY Money
<1>1. CASE Press
  BY <1>1, Zenon DEF Press, PressStart, StartGame, PressAdd, PressHold, HoldReleased, HoldDone, BuyinPress,
     BuyinAbort
<1>2. CASE StartTask \/ Play
  BY <1>2, Zenon DEF StartTask, StartHooks, StartReset, StartServe, Play, SetValidPlayfield, DeviceAddLive,
     DeviceRemoveLive, EndBall, IncrementExtraBalls, SwTilt
<1>3. CASE EndTask
  BY <1>3, Zenon DEF EndTask, BonusDone, TiltSettled, ShootAgain, EndServe, BuyinTick, BuyinDone, EndDone
<1>4. CASE OverTask \/ SwSlamTilt \/ WarmReboot \/ InsertCoin
  BY <1>4, Zenon DEF SwSlamTilt, OverTask, OverStop, OverDone, WarmReboot, InsertCoin
<1>5. CASE UNCHANGED vars
  BY <1>5 DEF vars
<1> QED BY <1>1, <1>2, <1>3, <1>4, <1>5 DEF Next

-----------------------------------------------------------------------------
(* What a step of the game does to the turn, the areas and the history.    *)
NoneYet(h) == h.awarded = [p \in Players |-> 0] /\ h.ends = [p \in Players |-> 0]
NewArea(p) == [of |-> p, earned |-> 0]

SameTurn   == g'.in_game = g.in_game /\ TurnOf(g') = TurnOf(g)
SameCounts == hist'.awarded = hist.awarded /\ hist'.ends = hist.ends

(* A game begins, or none is on.                                           *)
Begins == start # "hooks" /\ start' = "hooks" /\ TurnOf(g') = <<1, 1>> /\ NoneYet(hist')
Leaves == ~ g'.in_game /\ (hist'.awarded = hist.awarded \/ NoneYet(hist'))

(* The turn goes on.                                                       *)
Continues ==
  /\ SameTurn /\ SameCounts /\ g'.local = g.local /\ g'.saved = g.saved
  /\ g'.num_players = g.num_players \/ g.ball_up = 1
  /\ start' \in {"hooks", "reset"} <=> start \in {"hooks", "reset"}
  /\ \/ hist'.served
     \/ /\ hist'.served = hist.served
        /\ (start' \in Opening) <=> (start \in Opening)
        /\ (end' = "yield") <=> (end = "yield")

(* The first player starts; a player starts again, with the ball bought.   *)
Resets ==
  /\ start = "reset" /\ start' = "yield" /\ TurnOf(g') = <<1, 1>> /\ SameTurn /\ SameCounts
  /\ g'.num_players = g.num_players
  /\ g'.local = NewArea(1) /\ g'.saved = [p \in Players |-> Zeroed]

Rebuys ==
  /\ end' = "yield" /\ start = "none" /\ start' = "none" /\ SameTurn /\ SameCounts
  /\ g'.num_players = g.num_players /\ g'.saved = g.saved /\ g'.local = NewArea(g.player_up)
  /\ BuyIn /\ g.ball_up = 1 /\ BallsPerGame = 1

(* An extra ball.                                                          *)
Awards ==
  /\ g.in_game /\ SameTurn /\ start \notin Opening /\ start' = start /\ end' = end
  /\ g.local.earned < MaxEbs /\ g'.num_players = g.num_players /\ g'.saved = g.saved
  /\ g'.local = [g.local EXCEPT !.earned = g.local.earned + 1]
  /\ hist'.awarded = [hist.awarded EXCEPT ![g.player_up] = hist.awarded[g.player_up] + 1]
  /\ hist'.ends = hist.ends /\ hist'.served = hist.served

(* The turn passes.                                                        *)
PassesWith(ends) ==
  /\ g.in_game /\ start \notin Opening /\ start' = "none" /\ end \in {"bonus", "buyin"} /\ g.live = 0
  /\ g.player_up \in 1 .. g.num_players /\ g.ball_up \in 1 .. BallsPerGame
  /\ TurnOf(g') = After(g) /\ g'.num_players = g.num_players
  /\ hist'.awarded = hist.awarded
  /\ hist'.ends = ends
  /\ end' = "yield" \/ hist'.served \/ hist'.served = hist.served
  /\ g.num_players = 1 => g'.saved = g.saved
  /\ g.num_players # 1 => g'.saved = [g.saved EXCEPT ![g.player_up] = g.local]
  /\ g'.ball_up = 1 => g'.local = NewArea(g'.player_up)
  /\ g'.ball_up # 1 => g'.local = IF g.num_players = 1 THEN g.local ELSE g'.saved[g'.player_up]

Passes == PassesWith(IF g.ball_up = BallsPerGame THEN EndPlayer(g) ELSE hist.ends)

LEMMA PressKinds ==
  ASSUME Timely, GameInv, Press
  PROVE  hist' \in History /\ (Begins \/ Continues)
<1>0. /\ g \in Memory /\ hist \in History /\ Unpaid \in Nat /\ hist.coins \in Nat /\ GameControl
      /\ hist.unpaid + Unpaid \in Nat
  <2>1. /\ g \in Memory /\ hist \in History /\ Unpaid \in Nat /\ hist.coins \in Nat /\ GameControl
        /\ hist.unpaid \in Nat
    BY Money, ControlFacts, HistoryFields DEF GameInv
  <2> QED BY <2>1
<1>1. ASSUME NEW x \in Memory, StartGame(x), start \in {"none", "hold"}
      PROVE  hist' \in History /\ Begins
  <2>1. g' = NewGame(x) /\ start' = "hooks"
        /\ hist' = [NoHist EXCEPT !.unpaid = Unpaid, !.coins = hist.coins]
    BY <1>1 DEF StartGame
  <2>2. TurnOf(g') = <<1, 1>>
    BY <2>1 DEF NewGame, Memory, TurnOf
  <2>3. hist' \in History /\ NoneYet(hist')
    BY ZenonT(60), <1>0, <2>1, HistoryNew DEF NoneYet
  <2> QED BY <1>1, <2>1, <2>2, <2>3 DEF Begins
<1>2. CASE PressStart
  BY <1>0, <1>1, <1>2 DEF PressStart
<1>3. CASE HoldDone
  BY <1>0, <1>1, <1>3, StopFacts DEF HoldDone
<1>4. CASE PressAdd
  <2>1. /\ g' = [g EXCEPT !.num_players = g.num_players + 1] /\ g.ball_up = 1
        /\ hist' = [hist EXCEPT !.unpaid = hist.unpaid + Unpaid] /\ UNCHANGED <<start, end>>
    BY <1>4 DEF PressAdd
  <2>2. SameTurn /\ g'.local = g.local /\ g'.saved = g.saved
    BY <1>0, <2>1 DEF SameTurn, TurnOf, Memory
  <2>3. /\ hist' \in History /\ SameCounts /\ hist'.served = hist.served
    BY <1>0, <2>1, HistoryPaid DEF SameCounts
  <2> QED BY <2>1, <2>2, <2>3 DEF Continues
<1>5. CASE PressHold \/ HoldReleased
  <2>1. UNCHANGED <<g, end, hist>> /\ start \in {"none", "hold"} /\ start' \in {"none", "hold"}
    BY <1>5 DEF PressHold, HoldReleased
  <2>2. SameTurn /\ SameCounts /\ g'.num_players = g.num_players
        /\ g'.local = g.local /\ g'.saved = g.saved /\ hist'.served = hist.served
    BY <2>1 DEF SameTurn, SameCounts
  <2>3. hist' \in History
    BY <1>0, <2>1
  <2> QED BY <2>1, <2>2, <2>3, Zenon DEF Continues, Opening
<1>6. CASE BuyinPress \/ BuyinAbort
  <2>1. /\ g' \in {[g EXCEPT !.passed = FALSE, !.offer = 0], [g EXCEPT !.offer = 0]}
        /\ hist' \in {hist, [hist EXCEPT !.unpaid = hist.unpaid + Unpaid]} /\ UNCHANGED <<start, end>>
    BY <1>6 DEF BuyinPress, BuyinAbort
  <2>2. SameTurn /\ g'.num_players = g.num_players /\ g'.local = g.local /\ g'.saved = g.saved
    BY <1>0, <2>1 DEF SameTurn, TurnOf, Memory
  <2>3. /\ hist' \in History /\ SameCounts /\ hist'.served = hist.served
    <3>1. CASE hist' = hist
      BY <1>0, <3>1 DEF SameCounts
    <3>2. CASE hist' = [hist EXCEPT !.unpaid = hist.unpaid + Unpaid]
      BY <1>0, <3>2, HistoryPaid DEF SameCounts
    <3> QED BY <2>1, <3>1, <3>2
  <2> QED BY <2>1, <2>2, <2>3 DEF Continues
<1> QED BY <1>2, <1>3, <1>4, <1>5, <1>6 DEF Press

(* The start_ball event: a ball has been served.                           *)
LEMMA ServeKinds ==
  ASSUME g \in Memory, hist \in History, g' = ServeBall(g), Served,
         start' \in {"hooks", "reset"} <=> start \in {"hooks", "reset"}
  PROVE  hist' \in History /\ Continues
<1>1. SameTurn /\ g'.num_players = g.num_players /\ g'.local = g.local /\ g'.saved = g.saved
  BY ServeFacts DEF SameTurn, TurnOf
<1>2. hist' \in History /\ SameCounts /\ hist'.served
  BY HistoryServed DEF Served, SameCounts
<1> QED BY <1>1, <1>2 DEF Continues

LEMMA StartKinds ==
  ASSUME GameInv, StartTask
  PROVE  hist' \in History /\ (Continues \/ Resets)
<1>0. g \in Memory /\ hist \in History /\ GameControl
  BY ControlFacts DEF GameInv
<1>1. CASE StartHooks
  <2>1. /\ g' = [g EXCEPT !.extra = 0, !.bip = 0] /\ start = "hooks" /\ start' = "reset"
        /\ UNCHANGED <<end, hist>>
    BY <1>1 DEF StartHooks
  <2>2. SameTurn /\ g'.num_players = g.num_players /\ g'.local = g.local /\ g'.saved = g.saved
    BY <1>0, <2>1 DEF SameTurn, TurnOf, Memory
  <2> QED BY <1>0, <2>1, <2>2 DEF Continues, SameCounts, Opening
<1>2. CASE StartReset
  <2> DEFINE x == PlayerStartGame(g)
  <2>1. /\ start = "reset" /\ g' = StartBall(x) /\ start' = SleepIn(g)
        /\ StartPlayerDue(g) => hist' = hist
    BY <1>2 DEF StartReset
  <2>2. /\ StartPlayerDue(g) /\ x \in Memory /\ StartPlayerDue(x) /\ Rest(x) = Rest(g)
        /\ TurnOf(x) = TurnOf(g) /\ x.saved = [p \in Players |-> Zeroed]
    BY <1>0, <2>1, OpeningFacts
  <2>3. g.player_up = 1 /\ g.ball_up = 1
    BY <1>0, <2>1, ControlFacts DEF StartSleeps, Opening
  <2> HIDE DEF x
  <2>4. /\ g'.in_game = x.in_game /\ TurnOf(g') = TurnOf(x) /\ g'.num_players = x.num_players
        /\ g'.saved = x.saved /\ g'.local = NewArea(x.player_up)
    BY <2>1, <2>2, StartBallFacts DEF TurnOf, NewArea
  <2>5. SameTurn /\ g'.num_players = g.num_players /\ TurnOf(g') = <<1, 1>> /\ x.player_up = 1
    BY <2>2, <2>3, <2>4 DEF SameTurn, Rest, TurnOf
  <2>6. start' = "yield" /\ hist' = hist BY <2>1, <2>2 DEF SleepIn
  <2> QED BY <1>0, <2>1, <2>2, <2>4, <2>5, <2>6 DEF Resets, SameCounts
<1>3. CASE StartServe
  <2>1. start = "yield" /\ start' = "none" /\ g' = ServeBall(g) /\ Served
    BY <1>3 DEF StartServe
  <2> QED BY <1>0, <2>1, ServeKinds
<1> QED BY <1>1, <1>2, <1>3 DEF StartTask

LEMMA PlayKinds ==
  ASSUME Timely, ~ TiltHalts, GameInv, Play
  PROVE  hist' \in History /\ (Continues \/ Awards)
<1>0. g \in Memory /\ hist \in History /\ GameControl
  BY ControlFacts DEF GameInv
<1>1. ASSUME g' \in Memory, SameTurn, g'.num_players = g.num_players, g'.local = g.local, g'.saved = g.saved,
             hist' = hist, end' \in {end, "bonus"}, end' = "bonus" => end # "yield",
             start' = start \/ {start, start'} \subseteq {"none", "hold"}
      PROVE  hist' \in History /\ Continues
  <2>1. SameCounts /\ hist'.served = hist.served /\ hist' \in History
    BY <1>0, <1>1 DEF SameCounts
  <2>2. /\ (start' \in Opening) <=> (start \in Opening)
        /\ start' \in {"hooks", "reset"} <=> start \in {"hooks", "reset"}
    BY <1>1 DEF Opening
  <2>3. (end' = "yield") <=> (end = "yield")
    BY <1>1
  <2> QED BY <1>1, <2>1, <2>2, <2>3 DEF Continues
<1>2. CASE SetValidPlayfield \/ DeviceAddLive \/ DeviceRemoveLive
  <2>1. /\ g' \in {[g EXCEPT !.valid = TRUE], [g EXCEPT !.live = g.live + 1], [g EXCEPT !.live = g.live - 1]}
        /\ UNCHANGED <<start, end, hist>>
    BY <1>2 DEF SetValidPlayfield, DeviceAddLive, DeviceRemoveLive
  <2>2. SameTurn /\ g'.num_players = g.num_players /\ g'.local = g.local /\ g'.saved = g.saved
    BY <1>0, <2>1 DEF SameTurn, TurnOf, Memory
  <2>3. g' \in Memory
    BY <1>2, PlayControl, ControlFacts DEF GameControl, Control, Play, GameInv
  <2> QED BY <1>1, <2>1, <2>2, <2>3
<1>3. CASE EndBall
  <2>1. /\ g' = [g EXCEPT !.live = 0, !.in_bonus = TRUE] /\ UNCHANGED <<start, hist>>
        /\ end' = "bonus" /\ end = "none"
    BY <1>3 DEF EndBall
  <2>2. SameTurn /\ g'.num_players = g.num_players /\ g'.local = g.local /\ g'.saved = g.saved
    BY <1>0, <2>1 DEF SameTurn, TurnOf, Memory
  <2>3. g' \in Memory
    BY <1>3, PlayControl, ControlFacts DEF GameControl, Control, Play, GameInv
  <2> QED BY <1>1, <2>1, <2>2, <2>3
<1>4. CASE IncrementExtraBalls
  <2> DEFINE w == [g.local EXCEPT !.earned = g.local.earned + 1]
  <2>1. /\ g' = [g EXCEPT !.extra = g.extra + 1, !.bip = g.bip + 1, !.local = w]
        /\ hist' = [hist EXCEPT !.awarded[g.player_up] = @ + 1]
        /\ UNCHANGED <<start, end>> /\ g.local.earned < MaxEbs /\ g.in_game
        /\ start \notin Opening
    BY <1>4 DEF IncrementExtraBalls, CanAwardExtraBall, BallActs, Timely, Opening
  <2> HIDE DEF w
  <2>2. SameTurn /\ g'.num_players = g.num_players /\ g'.local = w /\ g'.saved = g.saved
    BY <1>0, <2>1 DEF SameTurn, TurnOf, Memory
  <2>3. g.player_up \in Players
    <3>1. g.player_up \in 1 .. g.num_players
      BY <1>0, <2>1, ControlFacts DEF TurnExists
    <3> QED BY <1>0, <3>1, MemoryNumbers, Constants
  <2>4. /\ hist' \in History /\ hist'.ends = hist.ends /\ hist'.served = hist.served
        /\ hist'.awarded = [hist.awarded EXCEPT ![g.player_up] = hist.awarded[g.player_up] + 1]
    BY <1>0, <2>1, <2>3, HistoryAward
  <2> QED BY <2>1, <2>2, <2>4 DEF Awards, w
<1>5. CASE SwTilt
  <2>1. /\ UNCHANGED <<end, hist>>
        /\ g' \in {[g EXCEPT !.warnings = TiltWarnings, !.in_tilt = TRUE, !.valid = TRUE],
                   [g EXCEPT !.warnings = IF @ < TiltWarnings THEN @ + 1 ELSE @]}
        /\ start' = start \/ (start' = "none" /\ start \notin Opening)
    BY <1>5 DEF SwTilt, DurationExpire, TiltHalts
  <2>2. SameTurn /\ g'.num_players = g.num_players /\ g'.local = g.local /\ g'.saved = g.saved
    BY <1>0, <2>1 DEF SameTurn, TurnOf, Memory
  <2>3. g' \in Memory
    BY <1>5, PlayControl, ControlFacts DEF GameControl, Control, Play, GameInv
  <2>4. start' = start \/ {start, start'} \subseteq {"none", "hold"}
    BY <1>0, <2>1, ControlFacts DEF Tasks, Opening
  <2> QED BY <1>1, <2>1, <2>2, <2>3, <2>4
<1> QED BY <1>2, <1>3, <1>4, <1>5 DEF Play

LEMMA AfterTurn ==
  ASSUME NEW x, x.ball_up \in Nat, x.player_up \in Nat
  PROVE  After(x) # TurnOf(x)
<1>1. After(x) = <<x.ball_up, x.player_up + 1>> \/ After(x) = <<x.ball_up + 1, 1>>
  BY DEF After
<1>2. x.ball_up + 1 # x.ball_up /\ x.player_up + 1 # x.player_up
  OBVIOUS
<1> QED BY <1>1, <1>2 DEF TurnOf

(* x is the memory as it was when the turn ended, but for the bonus.       *)
LEMMA TurnKinds ==
  ASSUME NEW x, BetweenBalls(x), x.bip = 0, NEW ends \in [Players -> Nat], NextTurn(x, ends),
         hist \in History, TurnOf(x) = TurnOf(g), x.num_players = g.num_players,
         x.local = g.local, x.saved = g.saved,
         g.in_game, start \in {"none", "hold"}, start' = "none", end \in {"bonus", "buyin"}, g.live = 0
  PROVE  hist' \in History /\ PassesWith(ends)
<1>1. x \in Memory /\ x.player_up \in 1 .. x.num_players /\ x.ball_up <= BallsPerGame
  BY Constants DEF BetweenBalls
<1>2. PICK z \in Memory :
           /\ Rest(z) = Rest(x) /\ TurnOf(z) = After(x) /\ PassesAreas(x, z)
           /\ \/ /\ z.ball_up <= BallsPerGame
                 /\ g' = StartBall(z) /\ end' = SleepIn(z) /\ over' = over
                 /\ hist' = [hist EXCEPT !.served = ~ StartPlayerDue(z), !.ends = ends]
              \/ /\ z.ball_up = BallsPerGame + 1 /\ x.player_up = x.num_players
                 /\ g' = z /\ end' = "ending" /\ over' = "stop"
                 /\ hist' = [hist EXCEPT !.ends = ends]
  BY <1>1, NextTurnFacts
<1>20. Rest(z) = Rest(x) /\ TurnOf(z) = After(x)
  BY <1>2
<1>3. z.num_players = x.num_players /\ z.bip = 0 /\ z.ball_up \in 1 .. BallsPerGame + 1
  BY <1>20, AfterFacts
<1>4. /\ hist' \in History /\ hist'.awarded = hist.awarded /\ hist'.ends = ends
      /\ end' = "yield" \/ hist'.served \/ hist'.served = hist.served
  <2>1. CASE hist' = [hist EXCEPT !.ends = ends]
    BY <2>1, HistoryEnds
  <2>2. CASE end' = SleepIn(z) /\ hist' = [hist EXCEPT !.served = ~ StartPlayerDue(z), !.ends = ends]
    <3>1. CASE StartPlayerDue(z)
      <4>1. end' = "yield" /\ hist' = [hist EXCEPT !.served = FALSE, !.ends = ends]
        BY <2>2, <3>1 DEF SleepIn
      <4> QED BY <4>1, HistoryTurn
    <3>2. CASE ~ StartPlayerDue(z)
      <4>1. hist' = [hist EXCEPT !.served = TRUE, !.ends = ends]
        BY <2>2, <3>2
      <4> QED BY <4>1, HistoryTurn
    <3> QED BY <3>1, <3>2
  <2> QED BY <1>2, <2>1, <2>2
<1>5. /\ TurnOf(g') = TurnOf(z) /\ g'.num_players = z.num_players /\ g'.saved = z.saved
      /\ g'.local = IF g'.ball_up = 1 THEN NewArea(g'.player_up) ELSE z.local
  <2>1. CASE z.ball_up = BallsPerGame + 1 /\ g' = z
    <3>1. z.ball_up # 1 BY <2>1, Constants
    <3> QED BY <2>1, <3>1
  <2>2. CASE g' = StartBall(z)
    <3>1. StartPlayerDue(z) <=> z.ball_up = 1
      BY <1>3 DEF StartPlayerDue
    <3> QED BY <1>2, <2>2, <3>1, StartBallFacts DEF TurnOf, NewArea
  <2> QED BY <1>2, <2>1, <2>2
<1>6. TurnOf(g') = After(g) /\ g'.num_players = g.num_players
  BY <1>2, <1>3, <1>5 DEF After, TurnOf
<1>7. /\ g.num_players = 1 => g'.saved = g.saved
      /\ g.num_players # 1 => g'.saved = [g.saved EXCEPT ![g.player_up] = g.local]
      /\ g'.ball_up = 1 => g'.local = NewArea(g'.player_up)
      /\ g'.ball_up # 1 => g'.local = IF g.num_players = 1 THEN g.local ELSE g'.saved[g'.player_up]
  <2>1. g.num_players \in Nat /\ x.player_up = g.player_up
    BY <1>1, MemoryNumbers DEF TurnOf
  <2>2. z.player_up = g'.player_up
    BY <1>5 DEF TurnOf
  <2>3. CASE g.num_players = 1
    <3>1. z.local = g.local /\ z.saved = g.saved
      BY <1>2, <2>3 DEF PassesAreas
    <3> QED BY <1>5, <2>3, <3>1
  <2>4. CASE g.num_players # 1
    <3>1. z.saved = [g.saved EXCEPT ![g.player_up] = g.local] /\ z.local = z.saved[z.player_up]
      BY <1>2, <2>1, <2>4 DEF PassesAreas
    <3> QED BY <1>5, <2>2, <2>4, <3>1
  <2> QED BY <2>3, <2>4
<1>8. g.player_up \in 1 .. g.num_players /\ g.ball_up \in 1 .. BallsPerGame /\ start \notin Opening
  BY DEF BetweenBalls, TurnOf, Opening
<1> QED BY <1>4, <1>6, <1>7, <1>8 DEF PassesWith

LEMMA EndPlayerFacts ==
  ASSUME hist \in History, NEW x \in Memory, x.player_up \in 1 .. x.num_players
  PROVE  EndPlayer(x) \in [Players -> Nat] /\ hist.ends \in [Players -> Nat]
<1>1. x.player_up \in Players /\ hist.ends \in [Players -> Nat]
  BY MemoryNumbers, Constants, HistoryFields
<1> QED BY <1>1 DEF EndPlayer

(* end_ball, when no ball that was bought starts a player again.           *)
LEMMA BallKinds ==
  ASSUME g \in Memory, hist \in History, NextBall(g), start' = start,
         IF StartPlayerDue(g) THEN UNCHANGED hist ELSE Served,
         ~ StartPlayerDue(g) \/ (BuyIn /\ g.ball_up = BallsPerGame /\ start = "none")
  PROVE  hist' \in History /\ (Continues \/ Rebuys)
<1>1. g' = StartBall(g) /\ end' = SleepIn(g)
  BY DEF NextBall
<1>2. /\ SameTurn /\ g'.num_players = g.num_players /\ g'.saved = g.saved
      /\ StartPlayerDue(g) => g'.local = NewArea(g.player_up)
      /\ ~ StartPlayerDue(g) => g'.local = g.local
  BY <1>1, StartBallFacts DEF SameTurn, TurnOf, NewArea
<1>3. CASE StartPlayerDue(g)
  <2>1. end' = "yield" /\ hist' = hist
    BY <1>1, <1>3 DEF SleepIn
  <2>2. BuyIn /\ g.ball_up = 1 /\ BallsPerGame = 1 /\ start = "none" /\ start' = "none"
    BY <1>3 DEF StartPlayerDue
  <2> QED BY <1>2, <1>3, <2>1, <2>2 DEF Rebuys, SameCounts
<1>4. CASE ~ StartPlayerDue(g)
  <2>1. hist' \in History /\ SameCounts /\ hist'.served
    BY <1>4, HistoryServed DEF Served, SameCounts
  <2> QED BY <1>2, <1>4, <2>1 DEF Continues
<1> QED BY <1>3, <1>4

LEMMA EndKinds ==
  ASSUME GameInv, EndTask
  PROVE  hist' \in History /\ (Continues \/ Rebuys \/ Passes)
<1>0. g \in Memory /\ hist \in History /\ GameControl
  BY ControlFacts DEF GameInv
<1>1. CASE BonusDone \/ TiltSettled
  <2>1. /\ start' = "none" /\ end = "bonus" /\ start \in {"none", "hold"} /\ g.in_game /\ g.live = 0
    BY <1>0, <1>1, BonusFacts, ControlFacts DEF EndSleeps, Ending
  <2>2. PICK x : /\ TurnOver(x) /\ BetweenBalls(x)
                 /\ x.num_players = g.num_players /\ TurnOf(x) = TurnOf(g)
                 /\ x.extra = g.extra /\ x.bip = g.bip /\ x.local = g.local /\ x.saved = g.saved
    BY <1>0, <1>1, BonusFacts
  <2>3. x \in Memory /\ x.in_game /\ g.in_game
    BY <1>0, <2>1, <2>2 DEF BetweenBalls
  <2> DEFINE y == [x EXCEPT !.bip = 0]
  <2>4. \/ /\ g' = [x EXCEPT !.extra = x.extra - 1] \/ g' = [y EXCEPT !.passed = TRUE, !.offer = BuyinTimeout]
           /\ end' # "yield" /\ hist' = hist
        \/ x.extra = 0 /\ ~ LastBall(x) /\ NextTurn(y, hist.ends)
        \/ x.extra = 0 /\ LastBall(x) /\ NextTurn(y, EndPlayer(y))
    BY <2>2, TurnOverCases
  <2>5. CASE /\ g' = [x EXCEPT !.extra = x.extra - 1] \/ g' = [y EXCEPT !.passed = TRUE, !.offer = BuyinTimeout]
             /\ end' # "yield" /\ hist' = hist
    <3>1. g'.in_game = x.in_game /\ TurnOf(g') = TurnOf(x) /\ g'.num_players = x.num_players
          /\ g'.local = x.local /\ g'.saved = x.saved
      BY <2>3, <2>5 DEF TurnOf, Memory
    <3>2. SameTurn /\ g'.num_players = g.num_players /\ g'.local = g.local /\ g'.saved = g.saved
      <4>1. g'.in_game = g.in_game
        BY <1>0, <2>3, <3>1, MemoryFields
      <4> QED BY <2>2, <3>1, <4>1 DEF SameTurn
    <3>3. SameCounts /\ hist'.served = hist.served /\ hist' \in History
      BY <1>0, <2>5 DEF SameCounts
    <3>4. (start' \in Opening) <=> (start \in Opening)
      BY <2>1 DEF Opening
    <3>5. /\ start' \in {"hooks", "reset"} <=> start \in {"hooks", "reset"}
          /\ (end' = "yield") <=> (end = "yield")
      BY <2>1, <2>5
    <3> QED BY <3>2, <3>3, <3>4, <3>5 DEF Continues
  <2>6. CASE \/ x.extra = 0 /\ ~ LastBall(x) /\ NextTurn(y, hist.ends)
             \/ x.extra = 0 /\ LastBall(x) /\ NextTurn(y, EndPlayer(y))
    <3>1. /\ BetweenBalls(y) /\ y.bip = 0 /\ TurnOf(y) = TurnOf(g) /\ y.num_players = g.num_players
          /\ y.local = g.local /\ y.saved = g.saved /\ (LastBall(x) <=> g.ball_up = BallsPerGame)
      BY <2>2, <2>6, TurnOverFacts DEF LastBall, TurnOf
    <3> HIDE DEF y
    <3>2. EndPlayer(y) = EndPlayer(g) /\ hist.ends \in [Players -> Nat] /\ EndPlayer(y) \in [Players -> Nat]
      <4>1. y \in Memory /\ y.player_up \in 1 .. y.num_players
        BY <3>1 DEF BetweenBalls
      <4>2. EndPlayer(y) = EndPlayer(g)
        BY <3>1 DEF EndPlayer, TurnOf
      <4> QED BY <1>0, <4>1, <4>2, EndPlayerFacts
    <3>3. CASE LastBall(x)
      <4>1. NextTurn(y, EndPlayer(y)) BY <2>6, <3>3
      <4>2. hist' \in History /\ PassesWith(EndPlayer(y))
        BY <1>0, <2>1, <3>1, <3>2, <4>1, TurnKinds
      <4> QED BY <3>1, <3>2, <3>3, <4>2 DEF Passes
    <3>4. CASE ~ LastBall(x)
      <4>1. NextTurn(y, hist.ends) BY <2>6, <3>4
      <4>2. hist' \in History /\ PassesWith(hist.ends)
        BY <1>0, <2>1, <3>1, <3>2, <4>1, TurnKinds
      <4> QED BY <3>1, <3>4, <4>2 DEF Passes
    <3> QED BY <3>3, <3>4
  <2> QED BY <2>4, <2>5, <2>6
<1>2. CASE ShootAgain
  <2>1. /\ end = "again" /\ NextBall(g) /\ start' = start
        /\ IF StartPlayerDue(g) THEN UNCHANGED hist ELSE Served
    BY <1>2 DEF ShootAgain
  <2>2. g.bip # 0
    BY <1>0, <2>1, ControlFacts DEF EndSleeps
  <2>3. ~ StartPlayerDue(g) BY <2>2 DEF StartPlayerDue
  <2> QED BY <1>0, <2>1, <2>3, BallKinds
<1>3. CASE EndServe
  <2>1. g' = ServeBall(g) /\ Served /\ start' = start
    BY <1>3 DEF EndServe
  <2> QED BY <1>0, <2>1, ServeKinds
<1>4. CASE BuyinTick \/ EndDone
  <2>1. /\ g' \in {g, [g EXCEPT !.offer = g.offer - 1]} /\ UNCHANGED <<start, hist>>
        /\ end # "yield" /\ end' # "yield"
    BY <1>4 DEF BuyinTick, EndDone, OfferShown
  <2>2. SameTurn /\ g'.num_players = g.num_players /\ g'.local = g.local /\ g'.saved = g.saved
    BY <1>0, <2>1 DEF SameTurn, TurnOf, Memory
  <2>3. SameCounts /\ hist'.served = hist.served /\ hist' \in History
    BY <1>0, <2>1 DEF SameCounts
  <2> QED BY <2>1, <2>2, <2>3 DEF Continues
<1>5. CASE BuyinDone
  <2>1. end = "buyin" /\ start' = start /\ start = "none" /\ g.in_game /\ g.live = 0 /\ BetweenBalls(g)
        /\ g.ball_up = BallsPerGame /\ g.bip = 0 /\ BuyIn
    <3>1. end = "buyin" /\ start' = start BY <1>5 DEF BuyinDone
    <3>2. BetweenBalls(g) /\ start = "none" BY <1>0, <3>1, BetweenFacts
    <3>3. g.ball_up = BallsPerGame /\ g.bip = 0 /\ BuyIn
      BY <1>0, <3>1, ControlFacts DEF EndSleeps
    <3> QED BY <3>1, <3>2, <3>3 DEF BetweenBalls
  <2>2. \/ NextTurn(g, EndPlayer(g))
        \/ NextBall(g) /\ IF StartPlayerDue(g) THEN UNCHANGED hist ELSE Served
    BY <1>5, Zenon DEF BuyinDone
  <2>3. CASE NextTurn(g, EndPlayer(g))
    <3>1. EndPlayer(g) \in [Players -> Nat]
      BY <1>0, <2>1, EndPlayerFacts DEF BetweenBalls
    <3>2. hist' \in History /\ PassesWith(EndPlayer(g))
      BY <1>0, <2>1, <2>3, <3>1, TurnKinds
    <3> QED BY <2>1, <3>2 DEF Passes
  <2>4. CASE NextBall(g) /\ IF StartPlayerDue(g) THEN UNCHANGED hist ELSE Served
    BY <1>0, <2>1, <2>4, BallKinds
  <2> QED BY <2>2, <2>3, <2>4
<1> QED BY <1>1, <1>2, <1>3, <1>4, <1>5 DEF EndTask

LEMMA OverKinds ==
  ASSUME GameInv, OverTask \/ SwSlamTilt \/ WarmReboot
  PROVE  hist' \in History /\ Leaves
<1>0. g \in Memory /\ hist \in History /\ GameControl
  BY ControlFacts DEF GameInv
<1>1. CASE OverStop \/ SwSlamTilt
  <2>1. g' = StopGame(g) /\ hist' = hist BY <1>1 DEF OverStop, SwSlamTilt
  <2> QED BY <1>0, <2>1, StopFacts DEF Leaves
<1>2. CASE OverDone
  <2>1. g' = [g EXCEPT !.live = 0] /\ hist' = NoHist /\ over = "effects" BY <1>2 DEF OverDone
  <2>2. ~ g.in_game BY <1>0, <2>1, ControlFacts DEF OverSleeps
  <2>3. g'.in_game = g.in_game BY <1>0, <2>1 DEF Memory
  <2> QED BY <2>1, <2>2, <2>3, HistoryNone DEF Leaves, NoneYet
<1>3. CASE WarmReboot
  <2>1. g' = [Idle EXCEPT !.num_players = g.num_players] /\ hist' = NoHist BY <1>3 DEF WarmReboot
  <2>2. ~ g'.in_game BY <2>1 DEF Idle
  <2> QED BY <2>1, <2>2, HistoryNone DEF Leaves, NoneYet
<1> QED BY <1>1, <1>2, <1>3 DEF OverTask

LEMMA CoinKinds ==
  ASSUME GameInv, InsertCoin
  PROVE  hist' \in History /\ Continues
<1>0. g \in Memory /\ hist \in History /\ hist.coins + 1 \in Nat
  <2>1. hist.coins \in Nat BY HistoryFields DEF GameInv
  <2> QED BY <2>1, ControlFacts DEF GameInv
<1>1. /\ g' \in {g, [g EXCEPT !.offer = BuyinTimeout]} /\ UNCHANGED <<start, end>>
      /\ hist' = [hist EXCEPT !.coins = hist.coins + 1]
  BY DEF InsertCoin
<1>2. SameTurn /\ g'.num_players = g.num_players /\ g'.local = g.local /\ g'.saved = g.saved
  BY <1>0, <1>1 DEF SameTurn, TurnOf, Memory
<1>3. hist' \in History /\ SameCounts /\ hist'.served = hist.served
  BY <1>0, <1>1, HistoryPaid DEF SameCounts
<1> QED BY <1>1, <1>2, <1>3 DEF Continues

(* Every step that does not halt the game is one of these.                 *)
LEMMA StepKinds ==
  ASSUME Timely, ~ Halts, GameInv, [Next]_vars
  PROVE  /\ hist' \in History
         /\ Begins \/ Leaves \/ Continues \/ Resets \/ Rebuys \/ Awards \/ Passes
<1>1. CASE UNCHANGED vars
  <2>1. UNCHANGED <<g, start, end, hist>> BY <1>1 DEF vars
  <2> QED BY <2>1 DEF GameInv, Continues, SameTurn, SameCounts
<1>2. CASE Next
  BY <1>2, PressKinds, StartKinds, PlayKinds, EndKinds, OverKinds, CoinKinds DEF Next, Halts
<1> QED BY <1>1, <1>2

LEMMA GameInit == Init => GameInv /\ NoneYet(hist)
  BY ControlInit, HistoryNone, Constants DEF GameInv, Init, NoneYet

LEMMA GameStepInv == Timely /\ ~ Halts /\ GameInv /\ [Next]_vars => GameInv'
  BY ControlStep, CreditsStep, StepKinds DEF GameInv

-----------------------------------------------------------------------------
(* The game at a halt.  After a tilt that has killed the task which was to *)
(* serve the first ball, or to stop the game, a game is on with no ball    *)
(* and no task.  After a slam tilt the tasks that slept go on, in no game: *)
(* end_ball turns to player 1, and serves a ball.  The reboot ends that,   *)
(* or a game that is started before it once these tasks are done.          *)
Stuck   == /\ g.in_game /\ g.in_tilt /\ g.live = 0
           /\ start = "none" /\ end \notin Ending /\ over = "none"
Slammed == /\ ~ g.in_game /\ ~ g.in_bonus /\ ~ g.in_tilt /\ ~ g.valid /\ g.ball_up = 0
           /\ end \in Ending => g.player_up = 0
           /\ start # "hold" /\ over = "none"

HaltInv == /\ g \in Memory /\ g.extra <= g.bip
           /\ immune \in BOOLEAN /\ Tasks(start, end, over)
           /\ hist \in History /\ credits \in 0 .. MaxCredits
           /\ Stuck \/ Slammed

(* What such a step does not do.                                           *)
NoTurn == ~ TurnPasses /\ hist'.awarded = hist.awarded

LEMMA HaltStart == ASSUME GameInv, Halts PROVE HaltInv' /\ NoTurn
<1>0. /\ g \in Memory /\ g.extra <= g.bip /\ immune \in BOOLEAN /\ Tasks(start, end, over) /\ hist \in History
      /\ StartSleeps(g, start, immune, end, over) /\ EndSleeps(g, start, end, over)
      /\ OverSleeps(g, start, over)
  BY ControlFacts DEF GameInv
<1>1. [Next]_vars /\ credits \in 0 .. MaxCredits
  BY DEF Halts, TiltHalts, SlamHalts, Next, Play, GameInv
<1>2. credits' \in 0 .. MaxCredits
  BY <1>1, CreditsStep
<1>3. CASE TiltHalts
  <2>1. /\ g' = [g EXCEPT !.warnings = TiltWarnings, !.in_tilt = TRUE, !.valid = TRUE]
        /\ g.in_game /\ start' = (IF immune THEN start ELSE "none") /\ over' = "none"
        /\ UNCHANGED <<immune, end, hist>>
        /\ over # "none" \/ (start \in Opening /\ ~ immune)
    BY <1>3 DEF TiltHalts, SwTilt, DurationExpire
  <2>2. TiltWarnings \in 0 .. TiltWarnings BY Constants
  <2>3. /\ g' \in Memory /\ g'.in_game = g.in_game /\ g'.live = g.live /\ g'.in_tilt = TRUE
        /\ TurnOf(g') = TurnOf(g) /\ g'.extra <= g'.bip
    BY <1>0, <2>1, <2>2 DEF Memory, TurnOf
  <2>4. over = "stop" \/ (over = "none" /\ start \in Opening /\ ~ immune)
    BY <1>0, <2>1 DEF OverSleeps, Tasks
  <2>5. g.live = 0 /\ start' = "none" /\ end \notin Ending
    <3>1. CASE over = "stop"
      BY <1>0, <2>1, <3>1 DEF OverSleeps, EndSleeps, StartSleeps
    <3>2. CASE over = "none" /\ start \in Opening /\ ~ immune
      BY <1>0, <2>1, <3>2 DEF EndSleeps, StartSleeps, Opening
    <3> QED BY <2>4, <3>1, <3>2
  <2>6. Tasks(start', end', over') BY <1>0, <2>1, <2>5 DEF Tasks
  <2>7. Stuck' BY <2>1, <2>3, <2>5 DEF Stuck
  <2>8. NoTurn
    BY <2>1, <2>3 DEF NoTurn, TurnPasses, Turn, TurnOf
  <2> QED BY <1>0, <1>2, <2>1, <2>3, <2>6, <2>7, <2>8 DEF HaltInv
<1>4. CASE SlamHalts
  <2>1. /\ g' = StopGame(g) /\ over' = "none" /\ start' = (IF immune THEN start ELSE "none")
        /\ UNCHANGED <<immune, end, hist>>
    BY <1>4 DEF SlamHalts, SwSlamTilt, DurationExpire
  <2>2. start' # "hold" BY <1>0, <2>1 DEF StartSleeps
  <2>3. Slammed' BY <1>0, <2>1, <2>2, StopFacts DEF Slammed
  <2>4. g' \in Memory /\ g'.extra <= g'.bip /\ Tasks(start', end', over')
    BY <1>0, <2>1, StopFacts DEF Tasks
  <2>5. NoTurn BY <1>0, <2>1, StopFacts DEF NoTurn, TurnPasses
  <2> QED BY <1>0, <1>2, <2>1, <2>3, <2>4, <2>5 DEF HaltInv
<1> QED BY <1>3, <1>4 DEF Halts

(* With no ball, and no task but that of the end of the last game, nothing *)
(* is left but coins and the slam tilt.                                    *)
LEMMA StuckStep ==
  ASSUME HaltInv, Stuck, Next, ~ WarmReboot
  PROVE  InsertCoin \/ EndDone \/ SwSlamTilt
<1>0. /\ g.in_game /\ g.in_tilt /\ g.live = 0 /\ start = "none" /\ over = "none" /\ end \notin Ending
  BY DEF Stuck
<1>1. ~ Press
  BY <1>0 DEF Press, PressStart, PressAdd, PressHold, HoldReleased, HoldDone, BuyinPress, BuyinAbort,
       MayStart, OfferShown, Ending
<1>2. ~ StartTask /\ ~ OverTask
  BY <1>0 DEF StartTask, StartHooks, StartReset, StartServe, OverTask, OverStop, OverDone
<1>3. ~ Play
  BY <1>0 DEF Play, SetValidPlayfield, DeviceAddLive, DeviceRemoveLive, EndBall, IncrementExtraBalls,
       SwTilt, Ending
<1>4. EndTask => EndDone
  BY <1>0 DEF EndTask, BonusDone, TiltSettled, ShootAgain, EndServe, BuyinTick, BuyinDone, OfferShown,
       Ending
<1> QED BY <1>1, <1>2, <1>3, <1>4 DEF Next

LEMMA StuckHalt == ASSUME HaltInv, Stuck, Next, ~ WarmReboot PROVE HaltInv' /\ NoTurn
<1>0. /\ g \in Memory /\ g.extra <= g.bip /\ immune \in BOOLEAN /\ Tasks(start, end, over) /\ hist \in History
      /\ credits' \in 0 .. MaxCredits
  BY CreditsStep DEF HaltInv
<1>1. CASE InsertCoin
  <2>1. /\ UNCHANGED <<start, immune, end, over>> /\ g' \in {g, [g EXCEPT !.offer = BuyinTimeout]}
        /\ hist' = [hist EXCEPT !.coins = hist.coins + 1]
    BY <1>1 DEF InsertCoin
  <2>2. BuyinTimeout \in 0 .. BuyinTimeout BY Constants
  <2>3. /\ g' \in Memory /\ g'.in_game = g.in_game /\ g'.in_tilt = g.in_tilt /\ g'.live = g.live
        /\ TurnOf(g') = TurnOf(g) /\ g'.extra <= g'.bip
    BY <1>0, <2>1, <2>2 DEF Memory, TurnOf
  <2>4. hist' \in History /\ hist'.awarded = hist.awarded
    <3>1. hist.coins + 1 \in Nat BY <1>0, HistoryFields
    <3> QED BY <1>0, <2>1, <3>1, HistoryPaid
  <2>5. Stuck' BY <2>1, <2>3 DEF Stuck
  <2>6. NoTurn BY <2>3, <2>4 DEF NoTurn, TurnPasses, Turn, TurnOf
  <2> QED BY <1>0, <2>1, <2>3, <2>4, <2>5, <2>6 DEF HaltInv
<1>2. CASE EndDone
  <2>1. UNCHANGED <<g, start, immune, over, credits, hist>> /\ end' = "none"
    BY <1>2 DEF EndDone
  <2>2. Stuck' /\ Tasks(start', end', over') BY <1>0, <2>1 DEF Stuck, Ending, Tasks
  <2>3. NoTurn BY <2>1 DEF NoTurn, TurnPasses, Turn
  <2> QED BY <1>0, <2>1, <2>2, <2>3 DEF HaltInv
<1>3. CASE SwSlamTilt
  <2>1. /\ g' = StopGame(g) /\ over' = "none" /\ start' = "none" /\ start = "none"
        /\ UNCHANGED <<immune, end, hist>>
    BY <1>3 DEF SwSlamTilt, DurationExpire, Stuck
  <2>2. Slammed' BY <1>0, <2>1, StopFacts DEF Slammed
  <2>3. g' \in Memory /\ g'.extra <= g'.bip /\ Tasks(start', end', over')
    BY <1>0, <2>1, StopFacts DEF Tasks
  <2>4. NoTurn BY <1>0, <2>1, StopFacts DEF NoTurn, TurnPasses
  <2> QED BY <1>0, <2>1, <2>2, <2>3, <2>4 DEF HaltInv
<1> QED BY <1>1, <1>2, <1>3, StuckStep

(* The memory of no game, in which ball_up and player_up are zero.         *)
Out(x) == /\ x \in Memory /\ ~ x.in_game /\ ~ x.in_bonus /\ ~ x.in_tilt /\ ~ x.valid
          /\ x.ball_up = 0 /\ x.extra <= x.bip

LEMMA OutServes ==
  ASSUME NEW x, Out(x)
  PROVE  /\ Out(StartBall(x)) /\ Out(ServeBall(x))
         /\ ~ StartPlayerDue(x) /\ SleepIn(x) = "none"
<1>1. ~ StartPlayerDue(x)
  BY DEF Out, StartPlayerDue
<1>2. SleepIn(x) = "none"
  BY <1>1 DEF SleepIn
<1>3. Out(StartBall(x))
  BY StartBallFacts DEF Out
<1>4. Out(ServeBall(x))
  BY ServeFacts DEF Out
<1> QED BY <1>1, <1>2, <1>3, <1>4

LEMMA OutEnds ==
  ASSUME hist \in History, NEW x, Out(x), x.player_up = 0
  PROVE  EndPlayer(x) \in [Players -> Nat]
<1>1. hist.ends \in [Players -> Nat] /\ 0 \notin Players
  BY HistoryFields, Constants
<1> QED BY <1>1 DEF EndPlayer

(* With player_up zero the areas of player 1 are restored, and nobody's    *)
(* are saved.                                                              *)
LEMMA OutTurn ==
  ASSUME hist \in History, NEW x, Out(x), x.player_up = 0, NEW ends \in [Players -> Nat],
         NextTurn(x, ends)
  PROVE  /\ Out(g') /\ end' = "none" /\ over' = over
         /\ hist' \in History /\ hist'.awarded = hist.awarded
<1> DEFINE y == Rotated(x)
<1>0. /\ x \in Memory /\ x.num_players \in Nat /\ x.num_players >= 1 /\ 1 \in Players
      /\ 1 \in 0 .. MaxPlayers /\ 0 \notin Players /\ PlayersLeft(x)
  BY MemoryNumbers, Constants DEF Out, PlayersLeft
<1>1. Out(y)
  <2>1. CASE x.num_players = 1
    BY <2>1 DEF Rotated
  <2>2. CASE x.num_players # 1
    <3> DEFINE s == PlayerSave(x)
               t == [s EXCEPT !.player_up = 1]
    <3>1. y = PlayerRestore(t)
      BY <1>0, <2>2 DEF Rotated, PlayersLeft
    <3> HIDE DEF y
    <3>2. [x.saved EXCEPT ![0] = x.local] \in [Players -> Area]
      BY <1>0, MemoryFields
    <3>3. s = [x EXCEPT !.saved = [x.saved EXCEPT ![0] = x.local]]
      BY <1>0 DEF PlayerSave, Memory
    <3>4. Out(s)
      BY <3>2, <3>3 DEF Out, Memory
    <3> HIDE DEF s
    <3>5. Out(t) /\ t.player_up = 1
      BY <1>0, <3>4 DEF Out, Memory
    <3> HIDE DEF t
    <3>6. t.saved[1] \in Area
      BY <1>0, <3>5, MemoryFields DEF Out
    <3> QED BY <3>1, <3>5, <3>6 DEF PlayerRestore, Out, Memory
  <2> QED BY <2>1, <2>2
<1>2. /\ y.ball_up <= BallsPerGame
           => NextBall(y) /\ hist' = [hist EXCEPT !.served = ~ StartPlayerDue(y), !.ends = ends]
  <2> HIDE DEF y
  <2> QED BY <1>0, Zenon DEF NextTurn, y
<1> HIDE DEF y
<1>3. NextBall(y) /\ hist' = [hist EXCEPT !.served = ~ StartPlayerDue(y), !.ends = ends]
  BY <1>1, <1>2, Constants DEF Out
<1>4. g' = StartBall(y) /\ end' = SleepIn(y) /\ over' = over
  BY <1>3 DEF NextBall
<1>5. hist' = [hist EXCEPT !.served = TRUE, !.ends = ends]
  BY <1>1, <1>3, OutServes
<1>6. hist' \in History /\ hist'.awarded = hist.awarded
  BY <1>5, HistoryTurn
<1> QED BY <1>1, <1>4, <1>6, OutServes

(* What is left to do is to show this.                                     *)
LEMMA SlammedStays ==
  ASSUME HaltInv, Slammed, Next, Out(g'), start' # "hold", over' = over, immune' = immune,
         Tasks(start', end', over'), end' \in Ending => g'.player_up = 0,
         hist' \in History, hist'.awarded = hist.awarded
  PROVE  HaltInv' /\ NoTurn
<1>1. credits' \in 0 .. MaxCredits
  BY CreditsStep DEF HaltInv
<1>2. Slammed'
  BY DEF Slammed, Out
<1>3. NoTurn
  BY DEF NoTurn, TurnPasses, Out
<1> QED BY <1>1, <1>2, <1>3 DEF HaltInv, Out

(* No game is on, so nothing is added, awarded or ended in it.             *)
LEMMA SlammedStep ==
  ASSUME HaltInv, Slammed, Next, ~ PressStart
  PROVE  \/ BuyinPress \/ BuyinAbort \/ StartTask \/ DeviceRemoveLive \/ InsertCoin \/ WarmReboot
         \/ BonusDone \/ ShootAgain \/ EndServe \/ BuyinTick \/ BuyinDone \/ EndDone
<1>0. ~ g.in_game /\ ~ g.in_tilt /\ start # "hold" /\ over = "none"
  BY DEF Slammed
<1>1. Press => BuyinPress \/ BuyinAbort
  BY <1>0 DEF Press, PressAdd, PressHold, HoldReleased, HoldDone
<1>2. Play => DeviceRemoveLive
  BY <1>0 DEF Play, SetValidPlayfield, DeviceAddLive, EndBall, IncrementExtraBalls, SwTilt
<1>3. ~ TiltSettled /\ ~ SwSlamTilt /\ ~ OverStop /\ ~ OverDone
  BY <1>0 DEF TiltSettled, SwSlamTilt, OverStop, OverDone
<1> QED BY <1>1, <1>2, <1>3, Zenon DEF Next, EndTask, OverTask

(* The buy-in, the coins and the balls that drain.                         *)
LEMMA SlammedSmall ==
  ASSUME HaltInv, Slammed, Next,
         BuyinPress \/ BuyinAbort \/ DeviceRemoveLive \/ InsertCoin \/ BuyinTick \/ EndDone \/ StartHooks
  PROVE  HaltInv' /\ NoTurn
<1>0. /\ Out(g) /\ g \in Memory /\ Tasks(start, end, over) /\ hist \in History /\ start # "hold"
      /\ end \in Ending => g.player_up = 0
      /\ hist.coins + 1 \in Nat /\ hist.unpaid + Unpaid \in Nat
  <2>1. hist.coins \in Nat /\ hist.unpaid \in Nat /\ Unpaid \in Nat
    BY HistoryFields, Money DEF HaltInv
  <2> QED BY <2>1 DEF HaltInv, Slammed, Out
<1>1. Out(g') /\ g'.player_up = g.player_up
  <2>1. CASE BuyinPress \/ BuyinAbort
    <3>1. g' \in {[g EXCEPT !.passed = FALSE, !.offer = 0], [g EXCEPT !.offer = 0]}
      BY <2>1 DEF BuyinPress, BuyinAbort
    <3>2. 0 \in 0 .. BuyinTimeout BY Constants
    <3>3. g' \in Memory
      <4>1. CASE g' = [g EXCEPT !.passed = FALSE, !.offer = 0]
        BY <1>0, <3>2, <4>1 DEF Memory
      <4>2. CASE g' = [g EXCEPT !.offer = 0]
        BY <1>0, <3>2, <4>2 DEF Memory
      <4> QED BY <3>1, <4>1, <4>2
    <3>4. /\ g'.in_game = g.in_game /\ g'.in_bonus = g.in_bonus /\ g'.in_tilt = g.in_tilt
          /\ g'.valid = g.valid /\ TurnOf(g') = TurnOf(g) /\ g'.extra <= g'.bip
      BY <1>0, <3>1 DEF Memory, TurnOf, Out
    <3> QED BY <1>0, <3>3, <3>4 DEF Out, TurnOf
  <2>2. CASE DeviceRemoveLive
    <3>1. g' = [g EXCEPT !.live = g.live - 1] /\ g.live - 1 \in 0 .. MaxLive
      <4>1. g' = [g EXCEPT !.live = g.live - 1] /\ g.live > 0
        BY <2>2 DEF DeviceRemoveLive
      <4>2. g.live \in 0 .. MaxLive /\ MaxLive \in Nat
        BY <1>0, MemoryFields, Constants
      <4> QED BY <4>1, <4>2
    <3>2. g' \in Memory BY <1>0, <3>1 DEF Memory
    <3>3. /\ g'.in_game = g.in_game /\ g'.in_bonus = g.in_bonus /\ g'.in_tilt = g.in_tilt
          /\ g'.valid = g.valid /\ TurnOf(g') = TurnOf(g) /\ g'.extra <= g'.bip
      BY <1>0, <3>1 DEF Memory, TurnOf, Out
    <3> QED BY <1>0, <3>2, <3>3 DEF Out, TurnOf
  <2>3. CASE InsertCoin
    <3>1. g' \in {g, [g EXCEPT !.offer = BuyinTimeout]} BY <2>3 DEF InsertCoin
    <3>2. BuyinTimeout \in 0 .. BuyinTimeout BY Constants
    <3>3. g' \in Memory BY <1>0, <3>1, <3>2 DEF Memory
    <3>4. /\ g'.in_game = g.in_game /\ g'.in_bonus = g.in_bonus /\ g'.in_tilt = g.in_tilt
          /\ g'.valid = g.valid /\ TurnOf(g') = TurnOf(g) /\ g'.extra <= g'.bip
      BY <1>0, <3>1 DEF Memory, TurnOf, Out
    <3> QED BY <1>0, <3>3, <3>4 DEF Out, TurnOf
  <2>4. CASE BuyinTick
    <3>1. g' = [g EXCEPT !.offer = g.offer - 1] /\ g.offer - 1 \in 0 .. BuyinTimeout
      <4>1. g' = [g EXCEPT !.offer = g.offer - 1] /\ g.offer > 0
        BY <2>4 DEF BuyinTick, OfferShown
      <4>2. g.offer \in 0 .. BuyinTimeout /\ BuyinTimeout \in Nat
        BY <1>0, MemoryFields, Constants
      <4> QED BY <4>1, <4>2
    <3>2. g' \in Memory BY <1>0, <3>1 DEF Memory
    <3>3. /\ g'.in_game = g.in_game /\ g'.in_bonus = g.in_bonus /\ g'.in_tilt = g.in_tilt
          /\ g'.valid = g.valid /\ TurnOf(g') = TurnOf(g) /\ g'.extra <= g'.bip
      BY <1>0, <3>1 DEF Memory, TurnOf, Out
    <3> QED BY <1>0, <3>2, <3>3 DEF Out, TurnOf
  <2>5. CASE EndDone
    BY <1>0, <2>5 DEF EndDone
  <2>6. CASE StartHooks
    <3>1. g' = [g EXCEPT !.extra = 0, !.bip = 0] BY <2>6 DEF StartHooks
    <3>2. 0 \in 0 .. MaxEbsPerBip BY Constants
    <3>3. g' \in Memory BY <1>0, <3>1, <3>2 DEF Memory
    <3>4. /\ g'.in_game = g.in_game /\ g'.in_bonus = g.in_bonus /\ g'.in_tilt = g.in_tilt
          /\ g'.valid = g.valid /\ TurnOf(g') = TurnOf(g) /\ g'.extra <= g'.bip
      BY <1>0, <3>1 DEF Memory, TurnOf, Out
    <3> QED BY <1>0, <3>3, <3>4 DEF Out, TurnOf
  <2> QED BY <2>1, <2>2, <2>3, <2>4, <2>5, <2>6
<1>2. hist' \in History /\ hist'.awarded = hist.awarded
  <2>1. \/ hist' = hist \/ hist' = [hist EXCEPT !.unpaid = hist.unpaid + Unpaid]
        \/ hist' = [hist EXCEPT !.coins = hist.coins + 1]
    BY DEF BuyinPress, BuyinAbort, DeviceRemoveLive, InsertCoin, BuyinTick, EndDone, StartHooks
  <2>2. CASE hist' = hist
    BY <1>0, <2>2
  <2>3. CASE hist' = [hist EXCEPT !.unpaid = hist.unpaid + Unpaid]
    BY <1>0, <2>3, HistoryPaid
  <2>4. CASE hist' = [hist EXCEPT !.coins = hist.coins + 1]
    BY <1>0, <2>4, HistoryPaid
  <2> QED BY <2>1, <2>2, <2>3, <2>4
<1>3. /\ over' = over /\ immune' = immune /\ start' \in {start, "reset"} /\ end' \in {end, "none"}
  BY DEF BuyinPress, BuyinAbort, DeviceRemoveLive, InsertCoin, BuyinTick, EndDone, StartHooks
<1>4. Tasks(start', end', over') /\ start' # "hold" /\ (end' \in Ending => end \in Ending)
  BY <1>0, <1>3 DEF Tasks, Ending
<1> QED BY <1>0, <1>1, <1>2, <1>3, <1>4, SlammedStays

(* The tasks that slept serve a ball.                                      *)
LEMMA SlammedServes ==
  ASSUME HaltInv, Slammed, Next, StartReset \/ StartServe \/ ShootAgain \/ EndServe
  PROVE  HaltInv' /\ NoTurn
<1>0. /\ Out(g) /\ g \in Memory /\ Tasks(start, end, over) /\ hist \in History /\ start # "hold"
      /\ end \in Ending => g.player_up = 0
  BY DEF HaltInv, Slammed, Out
<1>1. ~ StartPlayerDue(g) /\ SleepIn(g) = "none" /\ Out(StartBall(g)) /\ Out(ServeBall(g))
  BY <1>0, OutServes
<1>2. Out(PlayerStartGame(g))
  <2>1. Zeroed \in Area BY Constants DEF Zeroed, Area
  <2> QED BY <1>0, <2>1 DEF PlayerStartGame, Out, Memory
<1>3. Out(g')
  <2>1. g' \in {StartBall(PlayerStartGame(g)), StartBall(g), ServeBall(g)}
    BY DEF StartReset, StartServe, ShootAgain, EndServe, NextBall
  <2> QED BY <1>1, <1>2, <2>1, OutServes
<1>4. Served
  BY <1>1 DEF StartReset, StartServe, ShootAgain, EndServe
<1>5. hist' \in History /\ hist'.awarded = hist.awarded
  BY <1>0, <1>4, HistoryServed DEF Served
<1>6. /\ over' = over /\ immune' = immune
      /\ \/ start' = start /\ end' = "none"
         \/ start' = "none" /\ end' = end /\ g'.player_up = g.player_up
  <2>1. CASE StartReset
    <3>1. /\ g' = StartBall(PlayerStartGame(g)) /\ start' = "none" /\ UNCHANGED <<immune, end, over>>
      BY <1>1, <2>1 DEF StartReset
    <3>2. PlayerStartGame(g) \in Memory /\ PlayerStartGame(g).player_up = g.player_up
      BY <1>0, <1>2 DEF Out, PlayerStartGame, Memory
    <3> QED BY <3>1, <3>2, StartBallFacts
  <2>2. CASE StartServe
    BY <1>0, <2>2, ServeFacts DEF StartServe
  <2>3. CASE ShootAgain \/ EndServe
    BY <1>1, <2>3 DEF ShootAgain, EndServe, NextBall
  <2> QED BY <2>1, <2>2, <2>3
<1>7. /\ Tasks(start', end', over') /\ start' # "hold"
      /\ end' \in Ending => end' = end /\ g'.player_up = g.player_up
  BY <1>0, <1>6 DEF Tasks, Ending
<1> QED BY <1>0, <1>3, <1>5, <1>6, <1>7, SlammedStays

(* The bonus ends, or the buy-in.                                          *)
LEMMA SlammedTurns ==
  ASSUME HaltInv, Slammed, Next, BonusDone \/ BuyinDone
  PROVE  HaltInv' /\ NoTurn
<1>0. /\ Out(g) /\ g \in Memory /\ Tasks(start, end, over) /\ hist \in History /\ start # "hold"
      /\ end \in Ending => g.player_up = 0
  BY DEF HaltInv, Slammed, Out
<1>1. g.player_up = 0
  BY <1>0 DEF BonusDone, BuyinDone, Ending
<1>2. hist.ends \in [Players -> Nat]
  BY <1>0, HistoryFields
<1>3. immune' = immune /\ start' \in {start, "none"}
  BY DEF BonusDone, BuyinDone, DurationExpire
<1>4. ASSUME Out(g'), end' = "none", over' = over, hist' \in History, hist'.awarded = hist.awarded
      PROVE  HaltInv' /\ NoTurn
  <2>1. Tasks(start', end', over') /\ start' # "hold" /\ end' \notin Ending
    BY <1>0, <1>3, <1>4 DEF Tasks, Ending
  <2> QED BY <1>3, <1>4, <2>1, SlammedStays
<1>5. CASE BonusDone
  <2> DEFINE x == LeaveBonus(g)
             y == [x EXCEPT !.bip = 0]
  <2>1. Out(x) /\ x.player_up = 0
    BY <1>0, <1>1 DEF LeaveBonus, Out, Memory
  <2>2. TurnOver(x)
    BY <1>5, Zenon DEF BonusDone
  <2> HIDE DEF x
  <2>3. x.extra = 0 => Out(y) /\ y.player_up = 0
    <3>1. 0 \in 0 .. MaxEbsPerBip BY Constants
    <3> QED BY <2>1, <3>1 DEF Out, Memory
  <2>4. ~ LastBall(x)
    BY <2>1, Constants DEF Out, LastBall
  <2>5. \/ x.extra > 0 /\ g' = [x EXCEPT !.extra = x.extra - 1] /\ end' = "again" /\ over' = over
           /\ hist' = hist
        \/ x.extra = 0 /\ NextTurn(y, hist.ends)
    BY <2>2, <2>4, TurnOverCases
  <2>6. CASE x.extra > 0 /\ g' = [x EXCEPT !.extra = x.extra - 1] /\ end' = "again" /\ over' = over
             /\ hist' = hist
    <3>1. x.extra - 1 \in 0 .. MaxEbsPerBip /\ x.extra - 1 <= x.bip
      <4> DEFINE e == x.extra
                 b == x.bip
      <4>1. e \in Nat /\ b \in Nat /\ e <= b /\ b <= MaxEbsPerBip /\ e > 0
        BY <2>1, <2>6, MemoryNumbers DEF Out
      <4> HIDE DEF e, b
      <4>2. e - 1 \in 0 .. MaxEbsPerBip /\ e - 1 <= b
        BY <4>1, Constants
      <4> QED BY <4>2 DEF e, b
    <3>2. Out(g') /\ g'.player_up = 0
      <4>1. g' = [x EXCEPT !.extra = x.extra - 1] /\ x \in Memory
        BY <2>1, <2>6 DEF Out
      <4>2. /\ g' \in Memory /\ g'.in_game = x.in_game /\ g'.in_bonus = x.in_bonus
            /\ g'.in_tilt = x.in_tilt /\ g'.valid = x.valid /\ g'.ball_up = x.ball_up
            /\ g'.player_up = x.player_up /\ g'.extra = x.extra - 1 /\ g'.bip = x.bip
        BY <3>1, <4>1 DEF Memory
      <4>3. g'.extra <= g'.bip
        BY <3>1, <4>2
      <4> HIDE DEF x
      <4> QED BY <2>1, <4>2, <4>3 DEF Out
    <3>3. Tasks(start', end', over') /\ start' # "hold"
      BY <1>0, <1>3, <2>6 DEF Tasks
    <3> QED BY <1>0, <1>3, <2>6, <3>2, <3>3, SlammedStays
  <2>7. CASE x.extra = 0 /\ NextTurn(y, hist.ends)
    <3> HIDE DEF y
    <3> QED BY <1>0, <1>2, <1>4, <2>3, <2>7, OutTurn
  <2> QED BY <2>5, <2>6, <2>7
<1>6. CASE BuyinDone
  <2>1. \/ NextTurn(g, EndPlayer(g))
        \/ NextBall(g) /\ IF StartPlayerDue(g) THEN UNCHANGED hist ELSE Served
    BY <1>6, Zenon DEF BuyinDone
  <2>2. CASE NextTurn(g, EndPlayer(g))
    BY <1>0, <1>1, <1>4, <2>2, OutEnds, OutTurn
  <2>3. CASE NextBall(g) /\ IF StartPlayerDue(g) THEN UNCHANGED hist ELSE Served
    <3>1. Out(g') /\ end' = "none" /\ over' = over /\ Served
      BY <1>0, <2>3, OutServes DEF NextBall
    <3>2. hist' \in History /\ hist'.awarded = hist.awarded
      BY <1>0, <3>1, HistoryServed DEF Served
    <3> QED BY <1>4, <3>1, <3>2
  <2> QED BY <2>1, <2>2, <2>3
<1> QED BY <1>5, <1>6

LEMMA SlammedHalt ==
  ASSUME HaltInv, Slammed, Next, ~ WarmReboot, ~ PressStart PROVE HaltInv' /\ NoTurn
  BY SlammedStep, SlammedSmall, SlammedServes, SlammedTurns DEF StartTask

(* A game at a halt stays there until the reboot, or until another is      *)
(* started, and passes no turn.                                            *)
LEMMA HaltStep ==
  ASSUME HaltInv, [Next]_vars, ~ WarmReboot, ~ PressStart
  PROVE  HaltInv' /\ NoTurn
<1>1. CASE UNCHANGED vars
  BY <1>1 DEF vars, HaltInv, Stuck, Slammed, NoTurn, TurnPasses, Turn
<1>2. CASE Next
  BY <1>2, StuckHalt, SlammedHalt DEF HaltInv
<1> QED BY <1>1, <1>2

LEMMA HaltReboot ==
  ASSUME HaltInv, WarmReboot
  PROVE  /\ GameInv' /\ NoneYet(hist') /\ ~ g'.in_game /\ start' = "none" /\ end' = "none"
<1>1. GameControl' /\ ~ g'.in_game /\ start' = "none" /\ end' = "none"
  BY RebootControl DEF HaltInv
<1>2. hist' = NoHist /\ credits' = credits
  BY DEF WarmReboot
<1> QED BY <1>1, <1>2, HistoryNone DEF GameInv, NoneYet, HaltInv

(* The button starts a game only where the last one has come to an end.    *)
LEMMA HaltIdle ==
  ASSUME Timely, HaltInv, PressStart
  PROVE  GameInv /\ ~ Halts /\ ~ g.in_game /\ g.live = 0 /\ start = "none" /\ end \notin Ending
<1>1. ~ g.in_game /\ g.live = 0 /\ start = "none" /\ end \notin Ending
  BY DEF PressStart, Timely, Ending
<1>2. /\ Slammed /\ g \in Memory /\ g.extra <= g.bip /\ immune \in BOOLEAN
      /\ Tasks(start, end, over) /\ hist \in History /\ credits \in 0 .. MaxCredits
  BY <1>1 DEF HaltInv, Stuck
<1>3. GameControl
  BY <1>1, <1>2, IdleControl DEF Slammed, GameControl
<1>4. ~ Halts
  BY <1>1 DEF Halts, TiltHalts, SlamHalts, SwTilt, SwSlamTilt
<1> QED BY <1>1, <1>2, <1>3, <1>4 DEF GameInv

(* What a step does from a halt.                                           *)
LEMMA HaltCases ==
  ASSUME Timely, HaltInv, [Next]_vars
  PROVE  \/ HaltInv' /\ NoTurn
         \/ WarmReboot /\ GameInv' /\ NoneYet(hist') /\ ~ g'.in_game /\ start' = "none" /\ end' = "none"
         \/ GameInv /\ ~ Halts /\ ~ g.in_game
  BY HaltStep, HaltReboot, HaltIdle

SlamType == slam \in BOOLEAN

LEMMA SlamTypes == SlamType /\ [Next]_vars => SlamType'
<1> SUFFICES ASSUME SlamType, [Next]_vars PROVE slam' \in {slam, TRUE, FALSE}
  BY DEF SlamType
<1>1. Press \/ StartTask \/ Play => slam' = slam
  BY DEF Press, PressStart, PressAdd, PressHold, HoldReleased, HoldDone, BuyinPress, BuyinAbort,
         StartTask, StartHooks, StartReset, StartServe, Play, SetValidPlayfield, DeviceAddLive,
         DeviceRemoveLive, EndBall, IncrementExtraBalls, SwTilt
<1>2. EndTask \/ OverTask \/ InsertCoin => slam' = slam
  BY DEF EndTask, BonusDone, TiltSettled, ShootAgain, EndServe, BuyinTick, BuyinDone, EndDone,
         OverTask, OverStop, OverDone, InsertCoin
<1>3. SwSlamTilt \/ WarmReboot => slam' \in BOOLEAN
  BY DEF SwSlamTilt, WarmReboot
<1> QED BY <1>1, <1>2, <1>3 DEF Next, vars

LEMMA GameTypes == (GameInv \/ HaltInv) /\ SlamType => TypeOK
<1>1. GameInv /\ SlamType => TypeOK
  BY DEF GameInv, GameControl, Control, Tasks, Memory, SlamType, TypeOK
<1>2. HaltInv /\ SlamType => TypeOK
  BY DEF HaltInv, Tasks, Memory, SlamType, TypeOK
<1> QED BY <1>1, <1>2

(* The types of the game hold with any number of players, balls, extra     *)
(* balls, warnings and credits, whenever the game is tilted: no counter of *)
(* them runs past its limit.                                               *)
THEOREM GameTypeCorrect == Timely /\ Spec => []TypeOK
<1> SUFFICES ASSUME Timely PROVE Spec => []TypeOK
  OBVIOUS
<1> DEFINE Inv == (GameInv \/ HaltInv) /\ SlamType
<1>1. Inv => TypeOK
  BY GameTypes
<1>2. Init => Inv
  BY GameInit DEF Init, SlamType
<1>3. Inv /\ [Next]_vars => Inv'
  BY GameStepInv, HaltStart, HaltCases, SlamTypes
<1> HIDE DEF Inv
<1> QED BY <1>1, <1>2, <1>3, PTL DEF Spec

-----------------------------------------------------------------------------
(* A turn passes only when it has been played.                             *)
ServedInv == g.in_game /\ start \notin Opening /\ end # "yield" => hist.served

LEMMA SameGame ==
  ASSUME SameTurn
  PROVE  g'.in_game = g.in_game /\ g'.ball_up = g.ball_up /\ g'.player_up = g.player_up
  BY DEF SameTurn, TurnOf

LEMMA ServedStep ==
  ASSUME GameInv, ServedInv,
         Begins \/ Leaves \/ Continues \/ Resets \/ Rebuys \/ Awards \/ Passes
  PROVE  ServedInv'
<1>1. CASE Begins \/ Resets \/ Rebuys
  BY <1>1 DEF Begins, Resets, Rebuys, ServedInv, Opening
<1>2. CASE Leaves
  BY <1>2 DEF Leaves, ServedInv
<1>3. CASE Continues
  BY <1>3, SameGame DEF Continues, ServedInv
<1>4. CASE Awards
  BY <1>4 DEF Awards, ServedInv, SameTurn
<1>5. CASE Passes
  BY <1>5 DEF Passes, PassesWith, ServedInv
<1> QED BY <1>1, <1>2, <1>3, <1>4, <1>5

LEMMA TurnPassesThen ==
  ASSUME GameInv, ServedInv, TurnPasses,
         Begins \/ Leaves \/ Continues \/ Resets \/ Rebuys \/ Awards \/ Passes
  PROVE  Turn' = NextInOrder /\ hist.served /\ g.live = 0
<1>1. Turn = TurnOf(g) /\ Turn' = TurnOf(g')
  BY DEF Turn, TurnOf
<1>2. Passes
  BY <1>1 DEF TurnPasses, Begins, Leaves, Continues, Resets, Rebuys, Awards, SameTurn
<1> QED BY <1>1, <1>2 DEF Passes, PassesWith, ServedInv, After, NextInOrder

(* With any number of players and balls, a turn passes only to the player  *)
(* after, or from the last to the first with the next ball, and only when  *)
(* a ball of that turn has been served and none is in play: no player is   *)
(* skipped, and none is up without having played, whoever joins, tilts,    *)
(* slam tilts or buys a ball, unless a game meets an end_ball of the game  *)
(* before it, or an old ball (Timely).                                     *)
THEOREM TurnsInOrder == Timely /\ Spec => TurnsPlayed
<1> SUFFICES ASSUME Timely PROVE Spec => TurnsPlayed
  OBVIOUS
<1> DEFINE Inv == (GameInv /\ ServedInv) \/ HaltInv
<1>1. Init => Inv
  BY GameInit DEF Init, Idle, ServedInv
<1>2. Inv /\ [Next]_vars => Inv'
  <2> SUFFICES ASSUME Inv, [Next]_vars PROVE Inv'
    OBVIOUS
  <2>1. CASE GameInv /\ ServedInv /\ ~ Halts
    BY <2>1, GameStepInv, StepKinds, ServedStep
  <2>2. CASE GameInv /\ Halts
    BY <2>2, HaltStart
  <2>3. CASE HaltInv
    <3>1. CASE GameInv /\ ~ Halts /\ ~ g.in_game
      <4>1. ServedInv BY <3>1 DEF ServedInv
      <4> QED BY <2>1, <3>1, <4>1
    <3>2. CASE GameInv' /\ ~ g'.in_game
      BY <3>2 DEF ServedInv
    <3> QED BY <2>3, <3>1, <3>2, HaltCases
  <2> QED BY <2>1, <2>2, <2>3
<1>3. Inv /\ [Next]_vars
        => [TurnPasses => Turn' = NextInOrder /\ hist.served /\ g.live = 0]_vars
  <2> SUFFICES ASSUME Inv, [Next]_vars, TurnPasses
               PROVE  Turn' = NextInOrder /\ hist.served /\ g.live = 0
    OBVIOUS
  <2>1. CASE GameInv /\ ServedInv /\ ~ Halts
    BY <2>1, StepKinds, TurnPassesThen
  <2>2. CASE GameInv /\ Halts
    BY <2>2, HaltStart DEF NoTurn
  <2>3. CASE HaltInv
    <3>1. CASE GameInv /\ ~ Halts /\ ~ g.in_game
      <4>1. ServedInv BY <3>1 DEF ServedInv
      <4> QED BY <2>1, <3>1, <4>1
    <3> QED BY <2>3, <3>1, HaltCases DEF NoTurn, TurnPasses
  <2> QED BY <2>1, <2>2, <2>3
<1> HIDE DEF Inv
<1> QED BY <1>1, <1>2, <1>3, PTL DEF Spec, TurnsPlayed

-----------------------------------------------------------------------------
(* Every player ends a game that is played out, once.                      *)
Ended(x, p) == \/ x.ball_up = BallsPerGame /\ p < x.player_up
               \/ x.ball_up = BallsPerGame + 1 /\ p <= x.num_players

EndsInv == g.in_game => \A p \in Players : hist.ends[p] = IF Ended(g, p) THEN 1 ELSE 0

LEMMA UpAndNumber ==
  ASSUME GameInv
  PROVE  /\ g.num_players \in Nat /\ g.player_up \in Nat /\ g.ball_up \in Nat
         /\ g.num_players >= 1 /\ g.num_players <= MaxPlayers
         /\ g.in_game => g.player_up >= 1 /\ g.player_up <= g.num_players /\ g.ball_up >= 1
<1>1. g \in Memory /\ TurnExists(g, over)
  BY ControlFacts DEF GameInv
<1>2. g.num_players \in Nat /\ g.player_up \in Nat /\ g.ball_up \in Nat
      /\ g.num_players >= 1 /\ g.num_players <= MaxPlayers
  BY <1>1, MemoryNumbers
<1> QED BY <1>1, <1>2 DEF TurnExists

(* Numbers of balls and players, before and after the turn passes.         *)
LEMMA EndedThen ==
  ASSUME NEW b \in Nat, NEW u \in Nat, NEW n \in Nat, NEW b1 \in Nat, NEW u1 \in Nat, NEW p \in Nat,
         NEW e \in Nat, NEW e1 \in Nat, NEW B \in Nat, B >= 1,
         u >= 1, u <= n, b >= 1, b <= B, p >= 1,
         <<b1, u1>> = IF u < n THEN <<b, u + 1>> ELSE <<b + 1, 1>>,
         e = IF (b = B /\ p < u) \/ (b = B + 1 /\ p <= n) THEN 1 ELSE 0,
         e1 = IF b = B /\ p = u THEN e + 1 ELSE e
  PROVE  e1 = IF (b1 = B /\ p < u1) \/ (b1 = B + 1 /\ p <= n) THEN 1 ELSE 0
<1>1. CASE u < n
  <2>1. b1 = b /\ u1 = u + 1 BY <1>1
  <2> QED BY <2>1
<1>2. CASE ~ (u < n)
  <2>1. b1 = b + 1 /\ u1 = 1 /\ u = n BY <1>2
  <2> QED BY <2>1
<1> QED BY <1>1, <1>2

LEMMA EndsPass == ASSUME GameInv, GameInv', EndsInv, Passes PROVE EndsInv'
<1> SUFFICES ASSUME NEW p \in Players PROVE hist'.ends[p] = IF Ended(g', p) THEN 1 ELSE 0
  BY DEF EndsInv
<1> DEFINE e1 == hist'.ends[p]
           e  == hist.ends[p]
           b1 == g'.ball_up
           u1 == g'.player_up
           b  == g.ball_up
           u  == g.player_up
           n  == g.num_players
<1>1. /\ b \in Nat /\ u \in Nat /\ n \in Nat /\ b1 \in Nat /\ u1 \in Nat /\ p \in Nat /\ p >= 1
      /\ BallsPerGame \in Nat /\ BallsPerGame >= 1 /\ u >= 1 /\ u <= n /\ b >= 1
  <2>1. g' \in Memory BY DEF GameInv, GameControl, Control
  <2>2. b1 \in Nat /\ u1 \in Nat BY <2>1, MemoryNumbers
  <2>3. g.in_game BY DEF Passes, PassesWith
  <2> QED BY <2>2, <2>3, UpAndNumber, Constants
<1>2. e \in Nat /\ e1 \in Nat
  <2>1. hist \in History /\ hist' \in History BY DEF GameInv
  <2> QED BY <2>1, HistoryFields
<1>3. /\ g.in_game /\ b \in 1 .. BallsPerGame /\ TurnOf(g') = After(g)
      /\ hist'.ends = IF b = BallsPerGame THEN EndPlayer(g) ELSE hist.ends
      /\ g'.num_players = n /\ u \in 1 .. n
  BY DEF Passes, PassesWith
<1>4. <<b1, u1>> = IF u < n THEN <<b, u + 1>> ELSE <<b + 1, 1>>
  BY <1>3 DEF TurnOf, After
<1>5. e1 = IF b = BallsPerGame /\ p = u THEN e + 1 ELSE e
  <2>1. hist.ends \in [Players -> Nat] BY HistoryFields DEF GameInv
  <2> QED BY <1>3, <2>1 DEF EndPlayer
<1>6. e = IF (b = BallsPerGame /\ p < u) \/ (b = BallsPerGame + 1 /\ p <= n) THEN 1 ELSE 0
  BY <1>3 DEF EndsInv, Ended
<1>7. b <= BallsPerGame
  BY <1>3, <1>1
<1>8. e1 = IF (b1 = BallsPerGame /\ p < u1) \/ (b1 = BallsPerGame + 1 /\ p <= n) THEN 1 ELSE 0
  <2> HIDE DEF e, e1, b, b1, u, u1, n
  <2> QED BY <1>1, <1>2, <1>4, <1>5, <1>6, <1>7, EndedThen
<1> QED BY <1>3, <1>8 DEF Ended

LEMMA EndsStep ==
  ASSUME GameInv, GameInv', EndsInv,
         Begins \/ Leaves \/ Continues \/ Resets \/ Rebuys \/ Awards \/ Passes
  PROVE  EndsInv'
<1>1. CASE Begins
  <2>1. g'.ball_up = 1 /\ g'.player_up = 1 /\ hist'.ends = [p \in Players |-> 0]
    BY <1>1 DEF Begins, TurnOf, NoneYet
  <2>2. \A p \in Players : ~ Ended(g', p)
    BY <2>1, Constants DEF Ended
  <2> QED BY <2>1, <2>2 DEF EndsInv
<1>2. CASE Leaves
  BY <1>2 DEF Leaves, EndsInv
<1>3. CASE Continues \/ Resets \/ Rebuys \/ Awards
  <2>1. SameTurn /\ hist'.ends = hist.ends
        /\ (g'.num_players = g.num_players \/ g.ball_up = 1)
    BY <1>3 DEF Continues, Resets, Rebuys, Awards, SameCounts
  <2>2. \A p \in Players : Ended(g', p) <=> Ended(g, p)
    <3>1. BallsPerGame + 1 # 1 BY Constants
    <3> QED BY <2>1, <3>1, SameGame DEF Ended
  <2> QED BY <2>1, <2>2, SameGame DEF EndsInv
<1>4. CASE Passes
  BY <1>4, EndsPass
<1> QED BY <1>1, <1>2, <1>3, <1>4

(* When the last player has played the last ball and the game stops,       *)
(* end_player has been thrown exactly once for each of its players: those  *)
(* who joined during the first ball, and those who bought a ball, too.     *)
THEOREM PlayersEnd == Timely /\ Spec => EveryPlayerEnds
<1> SUFFICES ASSUME Timely PROVE Spec => EveryPlayerEnds
  OBVIOUS
<1> DEFINE Inv == (GameInv /\ EndsInv) \/ HaltInv
<1>1. Init => Inv
  BY GameInit DEF Init, Idle, EndsInv
<1>2. Inv /\ [Next]_vars => Inv'
  <2> SUFFICES ASSUME Inv, [Next]_vars PROVE Inv'
    OBVIOUS
  <2>1. CASE GameInv /\ EndsInv /\ ~ Halts
    BY <2>1, GameStepInv, StepKinds, EndsStep
  <2>2. CASE GameInv /\ Halts
    BY <2>2, HaltStart
  <2>3. CASE HaltInv
    <3>1. CASE GameInv /\ ~ Halts /\ ~ g.in_game
      <4>1. EndsInv BY <3>1 DEF EndsInv
      <4> QED BY <2>1, <3>1, <4>1
    <3>2. CASE GameInv' /\ ~ g'.in_game
      BY <3>2 DEF EndsInv
    <3> QED BY <2>3, <3>1, <3>2, HaltCases
  <2> QED BY <2>1, <2>2, <2>3
<1>3. GameInv /\ EndsInv
        => (over = "stop" => \A p \in 1 .. g.num_players : hist.ends[p] = 1)
  <2> SUFFICES ASSUME GameInv, EndsInv, over = "stop", NEW p \in 1 .. g.num_players
               PROVE  hist.ends[p] = 1
    OBVIOUS
  <2>1. g.in_game /\ g.ball_up = BallsPerGame + 1
    BY ControlFacts DEF GameInv, OverSleeps
  <2>2. p \in Players /\ p <= g.num_players
    BY UpAndNumber, Constants
  <2> QED BY <2>1, <2>2 DEF EndsInv, Ended
<1>4. HaltInv => over # "stop"
  BY DEF HaltInv, Stuck, Slammed
<1>5. Inv /\ [Next]_vars
        => [over = "stop" /\ over' = "effects" => \A p \in 1 .. g.num_players : hist.ends[p] = 1]_vars
  BY <1>3, <1>4
<1> HIDE DEF Inv
<1> QED BY <1>1, <1>2, <1>5, PTL DEF Spec, EveryPlayerEnds

-----------------------------------------------------------------------------
(* The areas: the local one is that of the player who is up, and those of  *)
(* the others are saved, once they have played.                            *)
Ready == g.in_game /\ start \notin {"hooks", "reset"}

HasPlayed(x, p) == p < x.player_up \/ (x.ball_up > 1 /\ p <= x.num_players /\ p # x.player_up)

AreasInv == Ready => /\ g.local.of = g.player_up
                     /\ \A p \in Players : HasPlayed(g, p) => g.saved[p].of = p

(* Who has played when the turn passes, in numbers.                        *)
LEMMA PlayedThen ==
  ASSUME NEW b \in Nat, NEW u \in Nat, NEW n \in Nat, NEW b1 \in Nat, NEW u1 \in Nat, NEW p \in Nat,
         u >= 1, u <= n, b >= 1,
         <<b1, u1>> = IF u < n THEN <<b, u + 1>> ELSE <<b + 1, 1>>
  PROVE  /\ b1 = 1 => b = 1 /\ u1 = u + 1 /\ n # 1
         /\ b1 # 1 => b1 > 1
         /\ u1 >= 1 /\ u1 <= n
         /\ p >= 1 /\ (p < u1 \/ (b1 > 1 /\ p <= n /\ p # u1))
              => p = u \/ p < u \/ (b > 1 /\ p <= n /\ p # u)
         /\ b1 # 1 /\ n # 1 => u1 # u /\ (u1 < u \/ (b > 1 /\ u1 <= n /\ u1 # u))
         /\ b1 # 1 /\ n = 1 => u1 = u
<1>1. CASE u < n
  <2>1. b1 = b /\ u1 = u + 1 BY <1>1
  <2> QED BY <1>1, <2>1
<1>2. CASE ~ (u < n)
  <2>1. b1 = b + 1 /\ u1 = 1 /\ u = n BY <1>2
  <2> QED BY <2>1
<1> QED BY <1>1, <1>2

LEMMA TurnNumbers ==
  ASSUME GameInv, GameInv', Passes, NEW p \in Players
  PROVE  /\ g'.ball_up = 1 => g.ball_up = 1 /\ g'.player_up = g.player_up + 1 /\ g.num_players # 1
         /\ g.player_up \in Players /\ g'.player_up \in Players
         /\ HasPlayed(g', p) => p = g.player_up \/ HasPlayed(g, p)
         /\ g'.ball_up # 1 /\ g.num_players # 1
              => g'.player_up # g.player_up /\ HasPlayed(g, g'.player_up)
         /\ g'.ball_up # 1 /\ g.num_players = 1 => g'.player_up = g.player_up
<1> DEFINE b1 == g'.ball_up
           u1 == g'.player_up
           b  == g.ball_up
           u  == g.player_up
           n  == g.num_players
<1>1. /\ b \in Nat /\ u \in Nat /\ n \in Nat /\ b1 \in Nat /\ u1 \in Nat /\ p \in Nat /\ p >= 1
      /\ u >= 1 /\ u <= n /\ b >= 1 /\ n <= MaxPlayers /\ MaxPlayers \in Nat
  <2>1. g' \in Memory BY DEF GameInv, GameControl, Control
  <2>2. b1 \in Nat /\ u1 \in Nat BY <2>1, MemoryNumbers
  <2>3. g.in_game BY DEF Passes, PassesWith
  <2> QED BY <2>2, <2>3, UpAndNumber, Constants
<1>2. g'.num_players = n /\ <<b1, u1>> = IF u < n THEN <<b, u + 1>> ELSE <<b + 1, 1>>
  BY DEF Passes, PassesWith, TurnOf, After
<1>3. /\ b1 = 1 => b = 1 /\ u1 = u + 1 /\ n # 1
      /\ u1 >= 1 /\ u1 <= n
      /\ p < u1 \/ (b1 > 1 /\ p <= n /\ p # u1)
           => p = u \/ p < u \/ (b > 1 /\ p <= n /\ p # u)
      /\ b1 # 1 /\ n # 1 => u1 # u /\ (u1 < u \/ (b > 1 /\ u1 <= n /\ u1 # u))
      /\ b1 # 1 /\ n = 1 => u1 = u
  <2> HIDE DEF b, b1, u, u1, n
  <2> QED BY <1>1, <1>2, PlayedThen
<1>4. u \in Players /\ u1 \in Players
  <2> HIDE DEF u, u1, n
  <2> QED BY <1>1, <1>3, Constants
<1> QED BY <1>2, <1>3, <1>4 DEF HasPlayed

(* The areas after the turn has passed.                                    *)
LEMMA AreasThen ==
  ASSUME GameInv, GameInv', Passes
  PROVE  /\ \A p \in Players :
              g'.saved[p] = IF p = g.player_up /\ g.num_players # 1 THEN g.local ELSE g.saved[p]
         /\ g'.ball_up = 1 => g'.local = NewArea(g'.player_up)
         /\ g'.ball_up # 1 /\ g.num_players = 1 => g'.local = g.local
         /\ g'.ball_up # 1 /\ g.num_players # 1 => g'.local = g.saved[g'.player_up]
<1>1. /\ g.num_players = 1 => g'.saved = g.saved
      /\ g.num_players # 1 => g'.saved = [g.saved EXCEPT ![g.player_up] = g.local]
      /\ g'.ball_up = 1 => g'.local = NewArea(g'.player_up)
      /\ g'.ball_up # 1 => g'.local = IF g.num_players = 1 THEN g.local ELSE g'.saved[g'.player_up]
  BY DEF Passes, PassesWith
<1>2. g.saved \in [Players -> Area]
  BY ControlFacts, MemoryFields DEF GameInv
<1>3. \A p \in Players :
        g'.saved[p] = IF p = g.player_up /\ g.num_players # 1 THEN g.local ELSE g.saved[p]
  BY <1>1, <1>2
<1>4. ASSUME g'.ball_up # 1, g.num_players # 1
      PROVE  g'.local = g.saved[g'.player_up]
  <2>1. 1 \in Players BY Constants
  <2>2. g'.player_up \in Players /\ g'.player_up # g.player_up
    BY <1>4, <2>1, TurnNumbers
  <2> QED BY <1>1, <1>3, <1>4, <2>2
<1> QED BY <1>1, <1>3, <1>4

LEMMA AreasPass == ASSUME GameInv, GameInv', AreasInv, Passes PROVE AreasInv'
<1>1. Ready /\ 1 \in Players
  BY Constants DEF Ready, Passes, PassesWith, Opening
<1>2. g.local.of = g.player_up /\ \A p \in Players : HasPlayed(g, p) => g.saved[p].of = p
  BY <1>1 DEF AreasInv
<1>3. g'.local.of = g'.player_up
  <2>1. CASE g'.ball_up = 1
    BY <2>1, AreasThen DEF NewArea
  <2>2. CASE g'.ball_up # 1 /\ g.num_players = 1
    BY <1>1, <1>2, <2>2, AreasThen, TurnNumbers
  <2>3. CASE g'.ball_up # 1 /\ g.num_players # 1
    <3>1. g'.player_up \in Players /\ HasPlayed(g, g'.player_up)
      BY <1>1, <2>3, TurnNumbers
    <3> QED BY <1>2, <2>3, <3>1, AreasThen
  <2> QED BY <2>1, <2>2, <2>3
<1>4. ASSUME NEW p \in Players, HasPlayed(g', p) PROVE g'.saved[p].of = p
  <2>1. p = g.player_up \/ HasPlayed(g, p)
    BY <1>4, TurnNumbers
  <2>2. CASE p = g.player_up /\ g.num_players # 1
    BY <1>2, <2>2, AreasThen
  <2>3. CASE p = g.player_up /\ g.num_players = 1
    <3>1. g.num_players = 1 /\ g'.num_players = 1 /\ g.player_up = 1 /\ g'.player_up = 1
      <4>1. g'.num_players = 1 /\ g.player_up \in 1 .. 1
        BY <2>3 DEF Passes, PassesWith
      <4>2. g'.ball_up # 1 BY <1>1, <2>3, TurnNumbers
      <4> QED BY <1>1, <2>3, <4>1, <4>2, TurnNumbers
    <3>2. p = 1 BY <2>3, <3>1
    <3> QED BY <1>4, <3>1, <3>2 DEF HasPlayed
  <2>4. CASE p # g.player_up
    BY <1>2, <2>1, <2>4, AreasThen
  <2> QED BY <2>2, <2>3, <2>4
<1> QED BY <1>3, <1>4 DEF AreasInv

LEMMA AreasStep ==
  ASSUME GameInv, GameInv', AreasInv,
         Begins \/ Leaves \/ Continues \/ Resets \/ Rebuys \/ Awards \/ Passes
  PROVE  AreasInv'
<1>1. CASE Begins \/ Leaves
  BY <1>1 DEF Begins, Leaves, AreasInv, Ready
<1>2. CASE Continues
  <2>1. Ready' <=> Ready
    BY <1>2, SameGame DEF Continues, Ready
  <2>2. \A p \in Players : HasPlayed(g', p) <=> HasPlayed(g, p)
    <3>1. ~ (1 > 1) OBVIOUS
    <3> QED BY <1>2, <3>1, SameGame DEF Continues, HasPlayed
  <2>3. g'.local = g.local /\ g'.saved = g.saved /\ g'.player_up = g.player_up
    BY <1>2, SameGame DEF Continues
  <2> QED BY <2>1, <2>2, <2>3 DEF AreasInv
<1>3. CASE Resets
  <2>1. g'.ball_up = 1 /\ g'.player_up = 1 /\ g'.local.of = 1
    BY <1>3 DEF Resets, TurnOf, NewArea
  <2>2. \A p \in Players : ~ HasPlayed(g', p)
    BY <2>1, Constants DEF HasPlayed
  <2> QED BY <2>1, <2>2 DEF AreasInv
<1>4. CASE Rebuys
  <2>1. Ready' <=> Ready
    BY <1>4, SameGame DEF Rebuys, Ready
  <2>2. \A p \in Players : HasPlayed(g', p) <=> HasPlayed(g, p)
    BY <1>4, SameGame DEF Rebuys, HasPlayed
  <2>3. g'.local.of = g'.player_up /\ g'.saved = g.saved
    BY <1>4, SameGame DEF Rebuys, NewArea
  <2> QED BY <2>1, <2>2, <2>3 DEF AreasInv
<1>5. CASE Awards
  <2>1. Ready' <=> Ready
    BY <1>5, SameGame DEF Awards, Ready
  <2>2. \A p \in Players : HasPlayed(g', p) <=> HasPlayed(g, p)
    BY <1>5, SameGame DEF Awards, HasPlayed
  <2>3. g'.local.of = g.local.of /\ g'.saved = g.saved /\ g'.player_up = g.player_up
    <3>1. g.local \in Area BY ControlFacts, MemoryFields DEF GameInv
    <3> QED BY <1>5, <3>1, SameGame DEF Awards, Area
  <2> QED BY <2>1, <2>2, <2>3 DEF AreasInv
<1>6. CASE Passes
  BY <1>6, AreasPass
<1> QED BY <1>1, <1>2, <1>3, <1>4, <1>5, <1>6

(* With a ball in play the local variables are those of the player who is  *)
(* up, in a game of any number of players and balls: start_player has been *)
(* thrown for that player, and saving and restoring mixes no two players   *)
(* up, whoever joins, tilts, slam tilts, buys a ball or shoots again, but  *)
(* for a game that meets an end_ball or a ball of the one before (Timely). *)
THEOREM LocalsBelong == Timely /\ Spec => []LocalsArePlayers
<1> SUFFICES ASSUME Timely PROVE Spec => []LocalsArePlayers
  OBVIOUS
<1> DEFINE Inv == (GameInv /\ AreasInv) \/ HaltInv
<1>1. Init => Inv
  BY GameInit DEF Init, Idle, AreasInv, Ready
<1>2. Inv /\ [Next]_vars => Inv'
  <2> SUFFICES ASSUME Inv, [Next]_vars PROVE Inv'
    OBVIOUS
  <2>1. CASE GameInv /\ AreasInv /\ ~ Halts
    BY <2>1, GameStepInv, StepKinds, AreasStep
  <2>2. CASE GameInv /\ Halts
    BY <2>2, HaltStart
  <2>3. CASE HaltInv
    <3>1. CASE GameInv /\ ~ Halts /\ ~ g.in_game
      <4>1. AreasInv BY <3>1 DEF AreasInv, Ready
      <4> QED BY <2>1, <3>1, <4>1
    <3>2. CASE GameInv' /\ ~ g'.in_game
      BY <3>2 DEF AreasInv, Ready
    <3> QED BY <2>3, <3>1, <3>2, HaltCases
  <2> QED BY <2>1, <2>2, <2>3
<1>3. Inv => LocalsArePlayers
  <2>1. AreasInv => LocalsArePlayers
    BY DEF AreasInv, Ready, LocalsArePlayers
  <2>2. HaltInv => LocalsArePlayers
    BY DEF HaltInv, Stuck, Slammed, LocalsArePlayers
  <2> QED BY <2>1, <2>2
<1> HIDE DEF Inv
<1> QED BY <1>1, <1>2, <1>3, PTL DEF Spec

-----------------------------------------------------------------------------
(* The extra balls of a player are counted in that player's area.          *)
EarnedOf(x, p) == IF p = x.player_up THEN x.local.earned ELSE x.saved[p].earned

Counted(p) == hist.awarded[p] = EarnedOf(g, p)
Fresh(p)   == g.ball_up = 1 /\ p > g.player_up => g.saved[p].earned = 0

EarnedInv ==
  /\ \A p \in Players : hist.awarded[p] <= MaxEbs
  /\ g.in_game /\ ~ Ready => \A p \in Players : hist.awarded[p] = 0
  /\ Ready => \A p \in Players : Counted(p) /\ Fresh(p)

(* A bought ball starts no player again.                                   *)
NoSecondStart == BallsPerGame > 1 \/ ~ BuyIn

LEMMA EarnedPass == ASSUME GameInv, GameInv', EarnedInv, Passes PROVE EarnedInv'
<1>1. Ready /\ (g'.in_game => Ready') /\ hist'.awarded = hist.awarded
  BY DEF Passes, PassesWith, Ready, Opening
<1>2. \A p \in Players : hist.awarded[p] <= MaxEbs /\ Counted(p) /\ Fresh(p)
  BY <1>1 DEF EarnedInv
<1>3. ASSUME NEW p \in Players PROVE Counted(p)' /\ Fresh(p)'
  <2>0. hist.awarded[p] = EarnedOf(g, p) /\ p \in Nat /\ g.player_up \in Nat
    BY <1>2, UpAndNumber, Constants DEF Counted
  <2>1. CASE p = g'.player_up
    <3>1. CASE g'.ball_up = 1
      <4>1. g.ball_up = 1 /\ p = g.player_up + 1
        BY <2>1, <3>1, TurnNumbers
      <4>2. p > g.player_up /\ p # g.player_up BY <2>0, <4>1
      <4>3. g.saved[p].earned = 0 BY <1>2, <4>1, <4>2 DEF Fresh
      <4>4. g'.local.earned = 0 BY <3>1, AreasThen DEF NewArea
      <4> QED BY <1>1, <2>0, <2>1, <4>2, <4>3, <4>4 DEF Counted, Fresh, EarnedOf
    <3>2. CASE g'.ball_up # 1 /\ g.num_players = 1
      <4>1. g'.local = g.local /\ p = g.player_up BY <2>1, <3>2, AreasThen, TurnNumbers
      <4> QED BY <1>1, <2>0, <2>1, <3>2, <4>1 DEF Counted, Fresh, EarnedOf
    <3>3. CASE g'.ball_up # 1 /\ g.num_players # 1
      <4>1. g'.local = g.saved[p] /\ p # g.player_up BY <2>1, <3>3, AreasThen, TurnNumbers
      <4> QED BY <1>1, <2>0, <2>1, <3>3, <4>1 DEF Counted, Fresh, EarnedOf
    <3> QED BY <3>1, <3>2, <3>3
  <2>2. CASE p # g'.player_up /\ p = g.player_up
    <3>1. g.num_players # 1
      <4>1. CASE g.num_players = 1
        <5>1. g'.ball_up # 1 BY <4>1, TurnNumbers
        <5> QED BY <2>2, <4>1, <5>1, TurnNumbers
      <4> QED BY <4>1
    <3>2. g'.saved[p] = g.local BY <2>2, <3>1, AreasThen
    <3>3. ~ (g'.ball_up = 1 /\ p > g'.player_up)
      <4>1. CASE g'.ball_up = 1
        <5>1. g'.player_up = p + 1 BY <2>2, <4>1, TurnNumbers
        <5> QED BY <2>0, <5>1
      <4> QED BY <4>1
    <3> QED BY <1>1, <2>0, <2>2, <3>2, <3>3 DEF Counted, Fresh, EarnedOf
  <2>3. CASE p # g'.player_up /\ p # g.player_up
    <3>1. g'.saved[p] = g.saved[p] BY <2>3, AreasThen
    <3>2. g'.ball_up = 1 /\ p > g'.player_up => g.ball_up = 1 /\ p > g.player_up
      <4>1. CASE g'.ball_up = 1
        <5>1. g'.player_up = g.player_up + 1 /\ g.ball_up = 1 BY <4>1, TurnNumbers
        <5> QED BY <2>0, <5>1
      <4> QED BY <4>1
    <3> QED BY <1>1, <1>2, <2>0, <2>3, <3>1, <3>2 DEF Counted, Fresh, EarnedOf
  <2> QED BY <2>1, <2>2, <2>3
<1> QED BY <1>1, <1>2, <1>3 DEF EarnedInv

LEMMA EarnedAward == ASSUME GameInv, EarnedInv, Awards PROVE EarnedInv'
<1>1. Ready /\ (Ready' <=> Ready) /\ g'.player_up = g.player_up /\ g'.ball_up = g.ball_up
  BY SameGame DEF Awards, Ready, Opening
<1>2. \A p \in Players : hist.awarded[p] <= MaxEbs /\ Counted(p) /\ Fresh(p)
  BY <1>1 DEF EarnedInv
<1>3. g.player_up \in Players /\ hist.awarded \in [Players -> Nat] /\ g.local \in Area
  <2>1. g.player_up \in Players BY <1>1, UpAndNumber, Constants DEF Ready
  <2> QED BY <2>1, ControlFacts, MemoryFields, HistoryFields DEF GameInv
<1>4. /\ g.local.earned < MaxEbs /\ g'.saved = g.saved
      /\ g'.local = [g.local EXCEPT !.earned = g.local.earned + 1]
      /\ hist'.awarded = [hist.awarded EXCEPT ![g.player_up] = hist.awarded[g.player_up] + 1]
  BY DEF Awards
<1>5. g'.local.earned = g.local.earned + 1 /\ g.local.earned \in Nat
  BY <1>3, <1>4 DEF Area
<1>6. ASSUME NEW p \in Players PROVE hist'.awarded[p] <= MaxEbs /\ Counted(p)' /\ Fresh(p)'
  <2>1. CASE p = g.player_up
    <3>1. hist'.awarded[p] = g.local.earned + 1
      BY <1>2, <1>3, <1>4, <2>1 DEF Counted, EarnedOf
    <3>2. g.local.earned + 1 <= MaxEbs
      <4> DEFINE e == g.local.earned
      <4>1. e \in Nat /\ MaxEbs \in Nat /\ e < MaxEbs BY <1>4, <1>5, Constants
      <4> HIDE DEF e
      <4>2. e + 1 <= MaxEbs BY <4>1
      <4> QED BY <4>2 DEF e
    <3> QED BY <1>1, <1>2, <1>4, <1>5, <2>1, <3>1, <3>2 DEF Counted, Fresh, EarnedOf
  <2>2. CASE p # g.player_up
    <3>1. hist'.awarded[p] = hist.awarded[p] BY <1>3, <1>4, <2>2
    <3> QED BY <1>1, <1>2, <1>4, <2>2, <3>1 DEF Counted, Fresh, EarnedOf
  <2> QED BY <2>1, <2>2
<1> QED BY <1>1, <1>6 DEF EarnedInv

LEMMA EarnedStep ==
  ASSUME NoSecondStart, GameInv, GameInv', EarnedInv,
         Begins \/ Leaves \/ Continues \/ Resets \/ Rebuys \/ Awards \/ Passes
  PROVE  EarnedInv'
<1>0. 0 <= MaxEbs BY Constants
<1>1. CASE Begins
  BY <1>0, <1>1 DEF Begins, NoneYet, EarnedInv, Ready
<1>2. CASE Leaves
  BY <1>0, <1>2 DEF Leaves, NoneYet, EarnedInv, Ready
<1>3. CASE Continues
  <2>1. (Ready' <=> Ready) /\ g'.in_game = g.in_game
    BY <1>3, SameGame DEF Continues, Ready
  <2>2. /\ g'.local = g.local /\ g'.saved = g.saved /\ g'.player_up = g.player_up
        /\ g'.ball_up = g.ball_up /\ hist'.awarded = hist.awarded
    BY <1>3, SameGame DEF Continues, SameCounts
  <2> QED BY <2>1, <2>2 DEF EarnedInv, Counted, Fresh, EarnedOf
<1>4. CASE Resets
  <2>1. /\ g'.player_up = 1 /\ g'.local.earned = 0 /\ hist'.awarded = hist.awarded
        /\ \A p \in Players : g'.saved[p].earned = 0
    BY <1>4 DEF Resets, TurnOf, NewArea, Zeroed, SameCounts
  <2>2. g.in_game /\ ~ Ready
    BY <1>4, ControlFacts DEF GameInv, Resets, Ready, StartSleeps, Opening
  <2>3. \A p \in Players : hist.awarded[p] = 0
    BY <2>2 DEF EarnedInv
  <2> QED BY <1>0, <2>1, <2>3 DEF EarnedInv, Counted, Fresh, EarnedOf
<1>5. CASE Rebuys
  BY <1>5, Constants DEF Rebuys, NoSecondStart
<1>6. CASE Awards
  BY <1>6, EarnedAward
<1>7. CASE Passes
  BY <1>7, EarnedPass
<1> QED BY <1>1, <1>2, <1>3, <1>4, <1>5, <1>6, <1>7

(* No player is given more extra balls in a game than max_ebs, whoever     *)
(* plays in between, for any number of players: the count is in the area   *)
(* of the player, which is saved and restored with the turn.  This needs   *)
(* more than one ball to a game, or no buy-in: with one, a ball that was   *)
(* bought starts the player again, and the count with it.                  *)
THEOREM ExtraBallsLimited == Timely /\ NoSecondStart /\ Spec => []EbLimit
<1> SUFFICES ASSUME Timely, NoSecondStart PROVE Spec => []EbLimit
  OBVIOUS
<1> DEFINE Inv == (GameInv /\ EarnedInv) \/ (HaltInv /\ EbLimit)
<1>1. Init => Inv
  <2> SUFFICES ASSUME Init PROVE GameInv /\ EarnedInv
    OBVIOUS
  <2>1. ~ g.in_game BY DEF Init, Idle
  <2> QED BY <2>1, GameInit, Constants DEF NoneYet, EarnedInv, Ready
<1>2. Inv /\ [Next]_vars => Inv'
  <2> SUFFICES ASSUME Inv, [Next]_vars PROVE Inv'
    OBVIOUS
  <2>1. CASE GameInv /\ EarnedInv /\ ~ Halts
    BY <2>1, GameStepInv, StepKinds, EarnedStep
  <2>2. CASE GameInv /\ EarnedInv /\ Halts
    BY <2>2, HaltStart DEF EarnedInv, EbLimit, NoTurn
  <2>3. CASE HaltInv /\ EbLimit
    <3>1. CASE GameInv /\ ~ Halts /\ ~ g.in_game
      <4>1. EarnedInv BY <2>3, <3>1 DEF EbLimit, EarnedInv, Ready
      <4> QED BY <2>1, <3>1, <4>1
    <3>2. CASE GameInv' /\ NoneYet(hist') /\ ~ g'.in_game
      BY <3>2, Constants DEF NoneYet, EarnedInv, Ready
    <3>3. CASE HaltInv' /\ NoTurn
      BY <2>3, <3>3 DEF EbLimit, NoTurn
    <3> QED BY <2>3, <3>1, <3>2, <3>3, HaltCases
  <2> QED BY <2>1, <2>2, <2>3
<1>3. Inv => EbLimit
  BY DEF EarnedInv, EbLimit
<1> HIDE DEF Inv
<1> QED BY <1>1, <1>2, <1>3, PTL DEF Spec

-----------------------------------------------------------------------------
(* Everything is paid for, whatever else is untimely, if the button that   *)
(* is held down starts no game while end_ball sleeps.                      *)
HFields == {"served", "unpaid", "coins", "awarded", "ends"}
IsHistory(h) == h = [f \in HFields |-> h[f]]

HoldPaid == start = "hold" => credits > 0 /\ immune = FALSE /\ g.ball_up # 1 /\ end # "buyin"

PaidInv == /\ IsMemory(g) /\ IsHistory(hist) /\ credits \in 0 .. MaxCredits
           /\ hist.unpaid = 0 /\ HoldPaid

LEMMA Histories ==
  ASSUME NEW h, IsHistory(h), h.unpaid = 0, NEW n
  PROVE  /\ IsHistory([h EXCEPT !.served = n]) /\ [h EXCEPT !.served = n].unpaid = 0
         /\ IsHistory([h EXCEPT !.coins = n]) /\ [h EXCEPT !.coins = n].unpaid = 0
         /\ IsHistory([h EXCEPT !.awarded = n]) /\ [h EXCEPT !.awarded = n].unpaid = 0
         /\ IsHistory([h EXCEPT !.ends = n]) /\ [h EXCEPT !.ends = n].unpaid = 0
  BY DEF IsHistory, HFields

LEMMA HistoriesTwo ==
  ASSUME NEW h, IsHistory(h), h.unpaid = 0, NEW n, NEW k
  PROVE  /\ IsHistory([h EXCEPT !.served = n, !.ends = k])
         /\ [h EXCEPT !.served = n, !.ends = k].unpaid = 0
  BY DEF IsHistory, HFields

LEMMA HistoriesZero ==
  ASSUME NEW h, IsHistory(h)
  PROVE  /\ IsHistory([h EXCEPT !.unpaid = 0]) /\ [h EXCEPT !.unpaid = 0].unpaid = 0
         /\ IsHistory(NoHist) /\ NoHist.unpaid = 0
  BY DEF IsHistory, HFields, NoHist

LEMMA NoHistories ==
  ASSUME NEW n
  PROVE  /\ IsHistory([NoHist EXCEPT !.unpaid = 0, !.coins = n])
         /\ [NoHist EXCEPT !.unpaid = 0, !.coins = n].unpaid = 0
  BY DEF IsHistory, HFields, NoHist

LEMMA PaidThen ==
  ASSUME IsMemory(g'), IsHistory(hist'), hist'.unpaid = 0, credits' \in 0 .. MaxCredits, start' # "hold"
  PROVE  PaidInv'
  BY DEF PaidInv, HoldPaid

LEMMA StillPaid ==
  ASSUME PaidInv, IsMemory(g'), IsHistory(hist'), hist'.unpaid = 0, credits' \in 0 .. MaxCredits,
         credits' = credits \/ credits' = AddCredit, g'.ball_up = g.ball_up,
         start' = start, immune' = immune, end' # "buyin" \/ end' = end
  PROVE  PaidInv'
<1>1. credits > 0 => credits' > 0
  <2>1. credits \in Nat /\ MaxCredits \in Nat BY Constants DEF PaidInv
  <2> QED BY <2>1 DEF AddCredit
<1> QED BY <1>1 DEF PaidInv, HoldPaid

LEMMA PressPaid == ASSUME "hold" \notin Untimely, PaidInv, Press PROVE PaidInv'
<1>0. /\ IsMemory(g) /\ IsHistory(hist) /\ credits \in 0 .. MaxCredits /\ hist.unpaid = 0
      /\ RemoveCredit \in 0 .. MaxCredits /\ (credits > 0 => Unpaid = 0)
  BY Money DEF PaidInv
<1>1. ASSUME NEW x, IsMemory(x), StartGame(x), credits > 0 PROVE PaidInv'
  <2>1. /\ g' = NewGame(x) /\ credits' = RemoveCredit /\ start' = "hooks"
        /\ hist' = [NoHist EXCEPT !.unpaid = 0, !.coins = hist.coins]
    BY <1>0, <1>1 DEF StartGame
  <2>2. IsHistory(hist') /\ hist'.unpaid = 0 BY <2>1, NoHistories
  <2>3. IsMemory(g') BY <1>1, <2>1, Games
  <2> QED BY <1>0, <2>1, <2>2, <2>3, PaidThen
<1>2. CASE PressStart
  BY <1>0, <1>1, <1>2 DEF PressStart, MayStart
<1>3. CASE HoldDone
  BY <1>0, <1>1, <1>3, Games DEF HoldDone, PaidInv, HoldPaid
<1>4. ASSUME hist' = [hist EXCEPT !.unpaid = hist.unpaid + Unpaid], credits > 0
      PROVE  IsHistory(hist') /\ hist'.unpaid = 0
  <2>1. hist.unpaid + Unpaid = 0 BY <1>0, <1>4
  <2> QED BY <1>0, <1>4, <2>1, HistoriesZero
<1>5. CASE PressAdd
  <2>1. /\ g' = [g EXCEPT !.num_players = g.num_players + 1] /\ g.ball_up = 1 /\ credits > 0
        /\ hist' = [hist EXCEPT !.unpaid = hist.unpaid + Unpaid] /\ credits' = RemoveCredit
        /\ start' = start
    BY <1>5 DEF PressAdd, MayStart
  <2>2. IsMemory(g') BY <1>0, <2>1 DEF IsMemory, Fields
  <2>3. start # "hold" BY <2>1 DEF PaidInv, HoldPaid
  <2> QED BY <1>0, <1>4, <2>1, <2>2, <2>3, PaidThen
<1>6. CASE PressHold
  BY <1>6 DEF PressHold, MayStart, PaidInv, HoldPaid
<1>7. CASE HoldReleased
  BY <1>0, <1>7, PaidThen DEF HoldReleased
<1>8. CASE BuyinPress
  <2>1. /\ g' = [g EXCEPT !.passed = FALSE, !.offer = 0] /\ credits > 0 /\ end = "buyin"
        /\ hist' = [hist EXCEPT !.unpaid = hist.unpaid + Unpaid] /\ credits' = RemoveCredit
        /\ start' = start
    BY <1>8 DEF BuyinPress, OfferShown
  <2>2. IsMemory(g') BY <1>0, <2>1 DEF IsMemory, Fields
  <2>3. start # "hold" BY <2>1 DEF PaidInv, HoldPaid
  <2> QED BY <1>0, <1>4, <2>1, <2>2, <2>3, PaidThen
<1>9. CASE BuyinAbort
  <2>1. g' = [g EXCEPT !.offer = 0] /\ UNCHANGED <<start, immune, end, credits, hist>>
    BY <1>9 DEF BuyinAbort
  <2>2. IsMemory(g') /\ g'.ball_up = g.ball_up BY <1>0, <2>1 DEF IsMemory, Fields
  <2> QED BY <1>0, <2>1, <2>2, StillPaid
<1> QED BY <1>2, <1>3, <1>5, <1>6, <1>7, <1>8, <1>9 DEF Press

LEMMA PlayPaid == ASSUME PaidInv, Play PROVE PaidInv'
<1>0. /\ IsMemory(g) /\ IsHistory(hist) /\ credits \in 0 .. MaxCredits /\ hist.unpaid = 0
  BY DEF PaidInv
<1>1. CASE SetValidPlayfield \/ DeviceAddLive \/ DeviceRemoveLive \/ EndBall
  <2>1. /\ UNCHANGED <<start, immune, credits, hist>> /\ end' \in {end, "bonus"}
        /\ g' \in {[g EXCEPT !.valid = TRUE], [g EXCEPT !.live = g.live + 1],
                   [g EXCEPT !.live = g.live - 1], [g EXCEPT !.live = 0, !.in_bonus = TRUE]}
    BY <1>1 DEF SetValidPlayfield, DeviceAddLive, DeviceRemoveLive, EndBall
  <2>2. IsMemory(g') /\ g'.ball_up = g.ball_up BY <1>0, <2>1 DEF IsMemory, Fields
  <2> QED BY <1>0, <2>1, <2>2, StillPaid
<1>2. CASE IncrementExtraBalls
  <2>1. UNCHANGED <<start, immune, end, credits>>
    BY <1>2 DEF IncrementExtraBalls
  <2>2. IsMemory(g') /\ g'.ball_up = g.ball_up
    BY <1>0, <1>2 DEF IncrementExtraBalls, IsMemory, Fields
  <2>3. hist' = [hist EXCEPT !.awarded = [hist.awarded EXCEPT ![g.player_up] = hist.awarded[g.player_up] + 1]]
    BY <1>0, <1>2 DEF IncrementExtraBalls, IsHistory, HFields
  <2>4. IsHistory(hist') /\ hist'.unpaid = 0 BY <1>0, <2>3, Histories
  <2> QED BY <1>0, <2>1, <2>2, <2>4, StillPaid
<1>3. CASE SwTilt
  <2>1. /\ UNCHANGED <<immune, end, credits, hist>> /\ start' \in {start, "none"}
        /\ g' \in {[g EXCEPT !.warnings = TiltWarnings, !.in_tilt = TRUE, !.valid = TRUE],
                   [g EXCEPT !.warnings = IF @ < TiltWarnings THEN @ + 1 ELSE @]}
    BY <1>3 DEF SwTilt, DurationExpire
  <2>2. IsMemory(g') /\ g'.ball_up = g.ball_up BY <1>0, <2>1 DEF IsMemory, Fields
  <2>3. CASE start' = start
    BY <1>0, <2>1, <2>2, <2>3, StillPaid
  <2>4. CASE start' = "none"
    BY <1>0, <2>1, <2>2, <2>4, PaidThen
  <2> QED BY <2>1, <2>3, <2>4
<1> QED BY <1>1, <1>2, <1>3 DEF Play

(* The end of a turn, and of the game.                                     *)
LEMMA TurnPaid ==
  ASSUME IsHistory(hist), hist.unpaid = 0, NEW x, IsMemory(x), NEW ends, NextTurn(x, ends)
  PROVE  IsMemory(g') /\ IsHistory(hist') /\ hist'.unpaid = 0
<1>1. PICK b : \/ hist' = [hist EXCEPT !.served = b, !.ends = ends]
               \/ hist' = [hist EXCEPT !.ends = ends]
  BY DEF NextTurn
<1>2. IsHistory(hist') /\ hist'.unpaid = 0
  <2>1. CASE hist' = [hist EXCEPT !.served = b, !.ends = ends]
    BY <2>1, HistoriesTwo
  <2>2. CASE hist' = [hist EXCEPT !.ends = ends]
    BY <2>2, Histories
  <2> QED BY <1>1, <2>1, <2>2
<1> QED BY <1>2, NextTurns

LEMMA EndPaid == ASSUME PaidInv, EndTask PROVE PaidInv'
<1>0. /\ IsMemory(g) /\ IsHistory(hist) /\ credits \in 0 .. MaxCredits /\ hist.unpaid = 0
  BY DEF PaidInv
<1>1. IsHistory([hist EXCEPT !.served = TRUE]) /\ [hist EXCEPT !.served = TRUE].unpaid = 0
  BY <1>0, Histories
<1>2. CASE BonusDone \/ TiltSettled
  <2>1. PICK x : IsMemory(x) /\ TurnOver(x)
    <3>1. CASE BonusDone
      BY <1>0, <3>1, Games DEF BonusDone
    <3>2. CASE TiltSettled
      <4>1. IsMemory([g EXCEPT !.in_tilt = FALSE]) BY <1>0 DEF IsMemory, Fields
      <4> QED BY <3>2, <4>1, Games DEF TiltSettled
    <3> QED BY <1>2, <3>1, <3>2
  <2>2. start' # "hold" /\ credits' = credits
    BY <1>2 DEF BonusDone, TiltSettled, DurationExpire, PaidInv, HoldPaid
  <2>3. IsMemory(g') BY <2>1, TurnOvers
  <2>4. IsHistory(hist') /\ hist'.unpaid = 0
    <3> DEFINE y == [x EXCEPT !.bip = 0]
    <3>1. hist' = hist \/ NextTurn(y, hist.ends) \/ NextTurn(y, EndPlayer(y))
      BY <2>1, TurnOverCases
    <3>2. IsMemory(y) BY <2>1 DEF IsMemory, Fields
    <3> HIDE DEF y
    <3> QED BY <1>0, <3>1, <3>2, TurnPaid
  <2> QED BY <1>0, <2>2, <2>3, <2>4, PaidThen
<1>3. CASE BuyinDone
  <2>1. start' = start /\ credits' = credits /\ start # "hold"
    BY <1>3 DEF BuyinDone, PaidInv, HoldPaid
  <2>2. NextTurn(g, EndPlayer(g)) \/ (NextBall(g) /\ (hist' = hist \/ Served))
    BY <1>3, Zenon DEF BuyinDone
  <2>3. IsMemory(g') BY <1>0, <2>2, NextTurns, NextBalls
  <2>4. IsHistory(hist') /\ hist'.unpaid = 0
    BY <1>0, <1>1, <2>2, TurnPaid DEF Served
  <2> QED BY <1>0, <2>1, <2>3, <2>4, PaidThen
<1>4. CASE ShootAgain \/ EndServe
  <2>1. /\ UNCHANGED <<start, immune, credits>> /\ (hist' = hist \/ Served)
        /\ g' = StartBall(g) \/ g' = ServeBall(g)
        /\ end' # "buyin"
    BY <1>4 DEF ShootAgain, EndServe, NextBall, SleepIn
  <2>2. IsMemory(g') /\ g'.ball_up = g.ball_up
    <3>1. IsMemory(g') BY <1>0, <2>1, Balls
    <3>2. g'.ball_up = g.ball_up
      BY <1>0, <2>1 DEF IsMemory, Fields, StartBall, StartPlayer, StartBallReset, ServeBall
    <3> QED BY <3>1, <3>2
  <2>3. IsHistory(hist') /\ hist'.unpaid = 0
    BY <1>0, <1>1, <2>1 DEF Served
  <2> QED BY <1>0, <2>1, <2>2, <2>3, StillPaid
<1>5. CASE BuyinTick \/ EndDone
  <2>1. /\ UNCHANGED <<start, immune, credits, hist>> /\ g' \in {g, [g EXCEPT !.offer = g.offer - 1]}
        /\ end' = end \/ end' # "buyin"
    BY <1>5 DEF BuyinTick, EndDone
  <2>2. IsMemory(g') /\ g'.ball_up = g.ball_up BY <1>0, <2>1 DEF IsMemory, Fields
  <2> QED BY <1>0, <2>1, <2>2, StillPaid
<1> QED BY <1>2, <1>3, <1>4, <1>5 DEF EndTask

LEMMA StartPaid == ASSUME PaidInv, StartTask PROVE PaidInv'
<1>0. /\ IsMemory(g) /\ IsHistory(hist) /\ credits \in 0 .. MaxCredits /\ hist.unpaid = 0
  BY DEF PaidInv
<1>1. IsMemory(g')
  <2>1. CASE StartHooks
    BY <1>0, <2>1 DEF StartHooks, IsMemory, Fields
  <2>2. CASE StartReset \/ StartServe
    <3>1. g' = StartBall(PlayerStartGame(g)) \/ g' = ServeBall(g)
      BY <2>2 DEF StartReset, StartServe
    <3> QED BY <1>0, <3>1, Balls, Areas
  <2> QED BY <2>1, <2>2 DEF StartTask
<1>2. credits' = credits /\ start' # "hold" /\ (hist' = hist \/ Served)
  BY DEF StartTask, StartHooks, StartReset, StartServe, SleepIn
<1>3. IsHistory(hist') /\ hist'.unpaid = 0
  <2>1. IsHistory([hist EXCEPT !.served = TRUE]) /\ [hist EXCEPT !.served = TRUE].unpaid = 0
    BY <1>0, Histories
  <2> QED BY <1>0, <1>2, <2>1 DEF Served
<1> QED BY <1>0, <1>1, <1>2, <1>3, PaidThen

LEMMA OverPaid ==
  ASSUME PaidInv, OverTask \/ SwSlamTilt \/ WarmReboot \/ InsertCoin
  PROVE  PaidInv'
<1>0. /\ IsMemory(g) /\ IsHistory(hist) /\ credits \in 0 .. MaxCredits /\ hist.unpaid = 0
      /\ RemoveCredit \in 0 .. MaxCredits /\ AddCredit \in 0 .. MaxCredits
  BY Money DEF PaidInv
<1>1. CASE OverStop \/ SwSlamTilt
  <2>1. /\ g' = StopGame(g) /\ hist' = hist /\ credits' \in 0 .. MaxCredits /\ start' # "hold"
    BY <1>0, <1>1 DEF OverStop, SwSlamTilt, DurationExpire, PaidInv, HoldPaid
  <2> QED BY <1>0, <2>1, Games, PaidThen
<1>2. CASE OverDone
  <2>1. /\ g' = [g EXCEPT !.live = 0] /\ hist' = NoHist /\ UNCHANGED <<start, immune, end>>
        /\ credits' = credits \/ credits' = AddCredit
    BY <1>2 DEF OverDone
  <2>2. IsMemory(g') /\ g'.ball_up = g.ball_up BY <1>0, <2>1 DEF IsMemory, Fields
  <2>3. credits' \in 0 .. MaxCredits BY <1>0, <2>1
  <2> QED BY <1>0, <2>1, <2>2, <2>3, HistoriesZero, StillPaid
<1>3. CASE WarmReboot
  <2>1. /\ g' = [Idle EXCEPT !.num_players = g.num_players] /\ hist' = NoHist /\ credits' = credits
        /\ start' = "none"
    BY <1>3 DEF WarmReboot
  <2> QED BY <1>0, <2>1, Idles, HistoriesZero, PaidThen
<1>4. CASE InsertCoin
  <2>1. /\ g' \in {g, [g EXCEPT !.offer = BuyinTimeout]} /\ UNCHANGED <<start, immune, end>>
        /\ credits' = AddCredit /\ hist' = [hist EXCEPT !.coins = hist.coins + 1]
    BY <1>4 DEF InsertCoin
  <2>2. IsMemory(g') /\ g'.ball_up = g.ball_up BY <1>0, <2>1 DEF IsMemory, Fields
  <2>3. IsHistory(hist') /\ hist'.unpaid = 0 BY <1>0, <2>1, Histories
  <2> QED BY <1>0, <2>1, <2>2, <2>3, StillPaid
<1> QED BY <1>1, <1>2, <1>3, <1>4 DEF OverTask

LEMMA PaidStep == "hold" \notin Untimely /\ PaidInv /\ [Next]_vars => PaidInv'
<1> SUFFICES ASSUME "hold" \notin Untimely, PaidInv, [Next]_vars PROVE PaidInv'
  OBVIOUS
<1>1. CASE Next
  BY <1>1, PressPaid, StartPaid, PlayPaid, EndPaid, OverPaid DEF Next
<1>2. CASE UNCHANGED vars
  BY <1>2 DEF vars, PaidInv, HoldPaid
<1> QED BY <1>1, <1>2

(* Every player and every ball bought has been paid for with a credit that *)
(* was there, for any number of players, balls and credits, and with every *)
(* untimely drain, tilt and slam tilt: the credit that the start button    *)
(* saw is not gone when the button has been held for two seconds.  If it   *)
(* may be held while end_ball sleeps too, a ball that is bought takes it.  *)
THEOREM CreditsPaid == "hold" \notin Untimely /\ Spec => []PlayersPaid
<1> SUFFICES ASSUME "hold" \notin Untimely PROVE Spec => []PlayersPaid
  OBVIOUS
<1>1. Init => PaidInv
  <2>1. IsHistory(NoHist) /\ NoHist.unpaid = 0 BY DEF IsHistory, HFields, NoHist
  <2>2. 0 \in 0 .. MaxCredits BY Constants
  <2> QED BY <2>1, <2>2, Idles DEF Init, PaidInv, HoldPaid
<1>2. PaidInv /\ [Next]_vars => PaidInv'
  BY PaidStep
<1>3. PaidInv => PlayersPaid
  BY DEF PaidInv, PlayersPaid
<1> QED BY <1>1, <1>2, <1>3, PTL DEF Spec

-----------------------------------------------------------------------------
(* The modes, with their types.                                            *)
Mode == [timer : 0 .. ByteSize - 1, task : {"none", "main", "grace"}, open : BOOLEAN,
         count : 0 .. ByteSize - 1, mb : [Mbs -> {"inactive", "active", "grace"}],
         mbtask : [Mbs -> {"none", "running", "grace"}]]

AllOff(x)  == \A b \in Mbs : x.mb[b] = "inactive"
NoTasks(x) == \A b \in Mbs : x.mbtask[b] = "none"

LEMMA ModeNumbers ==
  /\ ByteSize \in Nat /\ ByteSize >= 1 /\ IsFiniteSet(Mbs)
  /\ InitTimer \in 0 .. ByteSize - 1 /\ TimeAdded \in Nat /\ 0 \in 0 .. ByteSize - 1
  /\ Cardinality(Mbs) \in Nat /\ Cardinality(Mbs) < ByteSize
<1>1. Cardinality(Mbs) \in Nat
  BY ModesAssumption, FS_CardinalityType
<1> QED BY <1>1, ModesAssumption

(* A byte, and a sum that wraps.                                           *)
LEMMA Wraps == ASSUME NEW n \in Int PROVE n % ByteSize \in 0 .. ByteSize - 1
<1>1. ByteSize \in Nat /\ ByteSize >= 1
  BY ModeNumbers
<1> QED BY <1>1

LEMMA Bytes ==
  ASSUME NEW n \in 0 .. ByteSize - 1
  PROVE  /\ Less(n) \in 0 .. ByteSize - 1 /\ More(n) \in 0 .. ByteSize - 1
         /\ n > 0 => Less(n) = n - 1
         /\ n + 1 < ByteSize => More(n) = n + 1
<1>1. ByteSize \in Nat /\ ByteSize >= 1
  BY ModeNumbers
<1>2. More(n) \in 0 .. ByteSize - 1
  BY <1>1, Wraps DEF More
<1>3. Less(n) \in 0 .. ByteSize - 1 /\ (n > 0 => Less(n) = n - 1)
  BY <1>1 DEF Less
<1>4. n + 1 < ByteSize => More(n) = n + 1
  BY <1>1 DEF More
<1> QED BY <1>2, <1>3, <1>4

LEMMA ModeFields ==
  ASSUME NEW x \in Mode
  PROVE  /\ x.timer \in 0 .. ByteSize - 1 /\ x.count \in 0 .. ByteSize - 1 /\ x.open \in BOOLEAN
         /\ x.task \in {"none", "main", "grace"}
         /\ x.mb \in [Mbs -> {"inactive", "active", "grace"}]
         /\ x.mbtask \in [Mbs -> {"none", "running", "grace"}]
  BY DEF Mode

(* How many modes run.                                                     *)
LEMMA RunningFacts ==
  ASSUME NEW x
  PROVE  /\ IsFiniteSet(Running(x)) /\ Cardinality(Running(x)) \in Nat
         /\ Cardinality(Running(x)) <= Cardinality(Mbs)
         /\ AllOff(x) => Cardinality(Running(x)) = 0
<1>1. Running(x) \in SUBSET Mbs
  BY DEF Running
<1>2. IsFiniteSet(Running(x)) /\ Cardinality(Running(x)) <= Cardinality(Mbs)
  BY <1>1, ModeNumbers, FS_Subset
<1>3. AllOff(x) => Running(x) = {}
  BY DEF AllOff, Running
<1> QED BY <1>2, <1>3, FS_CardinalityType, FS_EmptySet

LEMMA KillFacts ==
  ASSUME NEW x \in Mode
  PROVE  LET y == KillModes(x)
         IN  /\ y \in Mode /\ NoTasks(y) /\ y.mb = x.mb /\ y.count = x.count /\ y.open = x.open
             /\ y.mbtask = [b \in Mbs |-> "none"]
  BY DEF KillModes, Mode, NoTasks

LEMMA ExitFacts ==
  ASSUME NEW x \in Mode
  PROVE  LET y == ExitTimed(x)
         IN  /\ y \in Mode /\ y.mb = x.mb /\ y.count = x.count /\ y.open = FALSE
             /\ y.mbtask = x.mbtask
  BY ModeNumbers DEF ExitTimed, Mode

LEMMA MbStartFacts ==
  ASSUME NEW x \in Mode
  PROVE  LET y == MbStartBall(x)
         IN  /\ y \in Mode /\ AllOff(y) /\ y.mbtask = x.mbtask /\ y.count = 0 /\ y.open = x.open
<1>1. [b \in Mbs |-> "inactive"] \in [Mbs -> {"inactive", "active", "grace"}]
  OBVIOUS
<1> QED BY <1>1, ModeNumbers DEF MbStartBall, Mode, AllOff

LEMMA MbEndFacts ==
  ASSUME NEW x \in Mode, NEW after \in Nat
  PROVE  LET y == MbEndBall(TimedModeEnd(x), after)
         IN  y \in Mode /\ AllOff(y) /\ NoTasks(y) /\ y.open = FALSE
<1> DEFINE z == TimedModeEnd(x)
           n == (ByteSize - after) % ByteSize
<1>1. z \in Mode /\ z.open = FALSE
  BY ExitFacts DEF TimedModeEnd
<1>2. n \in 0 .. ByteSize - 1
  <2>1. ByteSize - after \in Int BY ModeNumbers
  <2> QED BY <2>1, Wraps
<1>3. [b \in Mbs |-> "inactive"] \in [Mbs -> {"inactive", "active", "grace"}]
      /\ [b \in Mbs |-> "none"] \in [Mbs -> {"none", "running", "grace"}]
  OBVIOUS
<1> HIDE DEF z
<1> DEFINE y == MbEndBall(z, after)
<1>4. y = [z EXCEPT !.mb = [b \in Mbs |-> "inactive"], !.mbtask = [b \in Mbs |-> "none"], !.count = n]
  BY DEF MbEndBall
<1> HIDE DEF n, y
<1>5. /\ y \in Mode /\ y.open = FALSE /\ y.mb = [b \in Mbs |-> "inactive"]
      /\ y.mbtask = [b \in Mbs |-> "none"]
  BY <1>1, <1>2, <1>3, <1>4 DEF Mode
<1> QED BY <1>5 DEF AllOff, NoTasks, y, z

LEMMA SingleFacts ==
  ASSUME NEW x \in Mode
  PROVE  LET y == MbModeSingleBall(x)
         IN  /\ y \in Mode /\ y.count = x.count /\ y.open = x.open
             /\ y.mb     = [b \in Mbs |-> IF x.mbtask[b] = "running" THEN "grace" ELSE x.mb[b]]
             /\ y.mbtask = [b \in Mbs |-> IF x.mbtask[b] = "running" THEN "grace" ELSE x.mbtask[b]]
<1> DEFINE mb == [b \in Mbs |-> IF x.mbtask[b] = "running" THEN "grace" ELSE x.mb[b]]
           ts == [b \in Mbs |-> IF x.mbtask[b] = "running" THEN "grace" ELSE x.mbtask[b]]
<1>1. mb \in [Mbs -> {"inactive", "active", "grace"}] /\ ts \in [Mbs -> {"none", "running", "grace"}]
  BY ModeFields
<1>2. MbModeSingleBall(x) = [x EXCEPT !.mb = mb, !.mbtask = ts]
  BY DEF MbModeSingleBall
<1> HIDE DEF mb, ts
<1>3. LET y == MbModeSingleBall(x)
      IN  y \in Mode /\ y.count = x.count /\ y.open = x.open /\ y.mb = mb /\ y.mbtask = ts
  BY <1>1, <1>2 DEF Mode
<1> QED BY <1>3 DEF mb, ts

LEMMA UpdateFacts ==
  ASSUME NEW x \in Mode, NEW b \in Mbs, NEW s \in {"inactive", "active", "grace"},
         NEW t \in {"none", "running", "grace"}
  PROVE  LET y == MbModeUpdate(x, b, s, t)
         IN  /\ y \in Mode /\ y.open = x.open
             /\ y.mb = [x.mb EXCEPT ![b] = s] /\ y.mbtask = [x.mbtask EXCEPT ![b] = t]
             /\ x.mb[b] = s => y.count = x.count
             /\ x.mb[b] # s /\ s = "inactive" => y.count = Less(x.count)
             /\ x.mb[b] # s /\ s = "active" => y.count = More(x.count)
<1> DEFINE mb == [x.mb EXCEPT ![b] = s]
           ts == [x.mbtask EXCEPT ![b] = t]
           n == IF x.mb[b] = s THEN x.count
                ELSE CASE s = "inactive" -> Less(x.count)
                       [] s = "active"   -> More(x.count)
                       [] s = "grace"    -> x.count
<1>1. /\ mb \in [Mbs -> {"inactive", "active", "grace"}]
      /\ ts \in [Mbs -> {"none", "running", "grace"}]
  BY ModeFields
<1>2. MbModeUpdate(x, b, s, t) = [x EXCEPT !.mb = mb, !.mbtask = ts, !.count = n]
  BY DEF MbModeUpdate, Mode
<1>3. /\ n \in 0 .. ByteSize - 1
      /\ x.mb[b] = s => n = x.count
      /\ x.mb[b] # s /\ s = "inactive" => n = Less(x.count)
      /\ x.mb[b] # s /\ s = "active" => n = More(x.count)
  BY ModeFields, Bytes
<1> HIDE DEF mb, ts, n
<1>4. LET y == MbModeUpdate(x, b, s, t)
      IN  y \in Mode /\ y.open = x.open /\ y.mb = mb /\ y.mbtask = ts /\ y.count = n
  BY <1>1, <1>2, <1>3 DEF Mode
<1> QED BY <1>3, <1>4 DEF mb, ts

-----------------------------------------------------------------------------
(* Between the turns no mode runs, and while a ball is in play every mode  *)
(* that runs is counted and has its task, but for those that a tilt or a   *)
(* restart has killed.                                                     *)
TaskOf(s) == CASE s = "inactive" -> "none" [] s = "active" -> "running" [] s = "grace" -> "grace"
Match(x)  == \A b \in Mbs : x.mbtask[b] = TaskOf(x.mb[b])

Loose(x, s) == ~ x.in_game \/ x.in_tilt \/ s \in Opening

ClosedInv == /\ end \in Ending => AllOff(m) /\ NoTasks(m) /\ ~ m.open
             /\ start \in Opening => NoTasks(m)
MatchInv  == Match(m) \/ (NoTasks(m) /\ end \notin Ending /\ Loose(g, start))
CountInv  == m.count = Cardinality(Running(m)) \/ g.live = 0

ModeInv == m \in Mode /\ ClosedInv /\ MatchInv /\ CountInv

(* What a step of the game does not do while the modes go on.              *)
Keeps == /\ g'.live = 0 \/ g.live # 0
         /\ end' \in Ending => end \in Ending
         /\ start' \in Opening => start \in Opening \/ ~ g.in_game
         /\ end \in Ending \/ (Loose(g, start) => Loose(g', start'))

(* What a step of the game does to the modes.                              *)
Stays  == m' = m /\ Keeps
Lonely == m' = MbModeSingleBall(m) /\ Keeps
Closes == /\ \E after \in Nat : m' = MbEndBall(TimedModeEnd(m), after)
          /\ g'.live = 0 /\ start' \notin Opening
Killed == /\ m' = KillModes(m) /\ (g'.live = 0 \/ g.live # 0)
          /\ end' \in Ending => end \in Ending
          /\ end \in Ending \/ Loose(g', start')
Opens  == /\ m' \in {MbStartBall(m), MbStartBall(KillModes(m))}
          /\ start \in Opening \/ end \in Ending
          /\ start' \notin Opening /\ end' \notin Ending
Clears == Reboots /\ start' = "none" /\ end' = "none"

LEMMA OffMatches ==
  ASSUME NEW x, AllOff(x), NoTasks(x)
  PROVE  Match(x)
  BY DEF AllOff, NoTasks, Match, TaskOf

LEMMA CountOff ==
  ASSUME NEW x, AllOff(x), x.count = 0
  PROVE  x.count = Cardinality(Running(x))
  BY RunningFacts

(* Modes that are on keep their number, whatever their tasks.              *)
LEMMA StaysSame == ASSUME ModeInv, NoModeOutsidePlay, Stays PROVE ModeInv'
<1>1. NoTasks(m) \/ g.in_game
  BY DEF NoModeOutsidePlay, NoTasks
<1>2. m' = m /\ Keeps
  BY DEF Stays
<1>3. ClosedInv'
  BY <1>1, <1>2 DEF ModeInv, ClosedInv, Keeps
<1>4. MatchInv'
  BY <1>2 DEF ModeInv, ClosedInv, MatchInv, Keeps
<1>5. CountInv'
  BY <1>2 DEF ModeInv, CountInv, Keeps
<1> QED BY <1>2, <1>3, <1>4, <1>5 DEF ModeInv

LEMMA SingleSame ==
  ASSUME NEW x \in Mode
  PROVE  LET y == MbModeSingleBall(x)
         IN  /\ NoTasks(x) => y.mb = x.mb /\ y.mbtask = x.mbtask
             /\ Match(x) => Match(y) /\ Running(y) = Running(x)
<1> DEFINE y == MbModeSingleBall(x)
<1>1. /\ y.mb     = [b \in Mbs |-> IF x.mbtask[b] = "running" THEN "grace" ELSE x.mb[b]]
      /\ y.mbtask = [b \in Mbs |-> IF x.mbtask[b] = "running" THEN "grace" ELSE x.mbtask[b]]
      /\ x.mb \in [Mbs -> {"inactive", "active", "grace"}]
      /\ x.mbtask \in [Mbs -> {"none", "running", "grace"}]
  BY SingleFacts, ModeFields
<1> HIDE DEF y
<1>2. NoTasks(x) => y.mb = x.mb /\ y.mbtask = x.mbtask
  BY <1>1 DEF NoTasks
<1>3. Match(x) => Match(y)
  BY <1>1 DEF Match, TaskOf
<1>4. Match(x) => Running(y) = Running(x)
  BY <1>1 DEF Match, TaskOf, Running
<1> QED BY <1>2, <1>3, <1>4 DEF y

LEMMA LonelySame == ASSUME ModeInv, NoModeOutsidePlay, Lonely PROVE ModeInv'
<1>1. NoTasks(m) \/ g.in_game
  BY DEF NoModeOutsidePlay, NoTasks
<1>2. m' = MbModeSingleBall(m) /\ Keeps /\ m \in Mode
  BY DEF Lonely, ModeInv
<1>3. m' \in Mode /\ m'.count = m.count /\ m'.open = m.open
  BY <1>2, SingleFacts
<1>4. /\ NoTasks(m) => m'.mb = m.mb /\ m'.mbtask = m.mbtask
      /\ Match(m) => Match(m') /\ Running(m') = Running(m)
  BY <1>2, SingleSame
<1>5. NoTasks(m) => /\ NoTasks(m') /\ (AllOff(m) => AllOff(m')) /\ Running(m') = Running(m)
  BY <1>4 DEF NoTasks, AllOff, Running
<1>6. ClosedInv'
  BY <1>1, <1>2, <1>3, <1>5 DEF ModeInv, ClosedInv, Keeps
<1>7. MatchInv'
  BY <1>2, <1>4, <1>5 DEF ModeInv, ClosedInv, MatchInv, Keeps
<1>8. CountInv'
  BY <1>2, <1>3, <1>4, <1>5 DEF ModeInv, MatchInv, CountInv, Keeps
<1> QED BY <1>3, <1>6, <1>7, <1>8 DEF ModeInv

LEMMA ClosesSame == ASSUME ModeInv, Closes PROVE ModeInv'
<1>1. PICK after \in Nat : m' = MbEndBall(TimedModeEnd(m), after)
  BY DEF Closes
<1>2. m' \in Mode /\ AllOff(m') /\ NoTasks(m') /\ m'.open = FALSE
  BY <1>1, MbEndFacts DEF ModeInv
<1>3. Match(m')
  BY <1>2, OffMatches
<1> QED BY <1>2, <1>3 DEF ModeInv, ClosedInv, MatchInv, CountInv, Closes

LEMMA KilledSame == ASSUME ModeInv, Killed PROVE ModeInv'
<1>1. m' \in Mode /\ NoTasks(m') /\ m'.mb = m.mb /\ m'.count = m.count /\ m'.open = m.open
  BY KillFacts DEF ModeInv, Killed
<1>2. (AllOff(m) => AllOff(m')) /\ Running(m') = Running(m)
  BY <1>1 DEF AllOff, Running
<1>3. ClosedInv'
  BY <1>1, <1>2 DEF ModeInv, ClosedInv, Killed
<1>4. MatchInv'
  <2>1. CASE end \in Ending
    BY <1>1, <1>2, <2>1, OffMatches DEF ModeInv, ClosedInv, MatchInv
  <2>2. CASE end \notin Ending
    BY <1>1, <2>2 DEF MatchInv, Killed
  <2> QED BY <2>1, <2>2
<1>5. CountInv'
  BY <1>1, <1>2 DEF ModeInv, CountInv, Killed
<1> QED BY <1>1, <1>3, <1>4, <1>5 DEF ModeInv

LEMMA OpensSame == ASSUME ModeInv, Opens PROVE ModeInv'
<1>1. NoTasks(m) /\ m \in Mode
  BY DEF ModeInv, ClosedInv, Opens
<1>2. PICK x \in Mode : m' = MbStartBall(x) /\ NoTasks(x)
  BY <1>1, KillFacts DEF Opens
<1>3. m' \in Mode /\ AllOff(m') /\ m'.mbtask = x.mbtask /\ m'.count = 0
  BY <1>2, MbStartFacts
<1>4. NoTasks(m')
  BY <1>2, <1>3 DEF NoTasks
<1> QED BY <1>3, <1>4, OffMatches, CountOff DEF ModeInv, ClosedInv, MatchInv, CountInv, Opens

LEMMA RebootFacts ==
  ASSUME m \in Mode, Reboots
  PROVE  m' \in Mode /\ AllOff(m') /\ NoTasks(m') /\ m'.count = 0 /\ m'.open = FALSE
<1>1. /\ [b \in Mbs |-> "inactive"] \in [Mbs -> {"inactive", "active", "grace"}]
      /\ [b \in Mbs |-> "none"] \in [Mbs -> {"none", "running", "grace"}]
  OBVIOUS
<1>2. /\ m' \in Mode /\ m'.mb = [b \in Mbs |-> "inactive"] /\ m'.mbtask = [b \in Mbs |-> "none"]
      /\ m'.count = 0 /\ m'.open = FALSE
  BY <1>1, ModeNumbers DEF Reboots, Mode
<1> QED BY <1>2 DEF AllOff, NoTasks

LEMMA ClearsSame == ASSUME ModeInv, Clears PROVE ModeInv'
<1>1. m' \in Mode /\ AllOff(m') /\ NoTasks(m') /\ m'.count = 0
  BY RebootFacts DEF ModeInv, Clears
<1> QED BY <1>1, OffMatches, CountOff DEF ModeInv, ClosedInv, MatchInv, CountInv, Clears, Ending,
     Opening

(* The timed mode has no part in the multiball modes.                      *)
LEMMA TimedFacts ==
  ASSUME NEW x \in Mode, NEW n \in 0 .. ByteSize - 1, NEW t \in {"none", "main", "grace"},
         NEW o \in BOOLEAN
  PROVE  LET y == [x EXCEPT !.timer = n, !.task = t, !.open = o]
         IN  y \in Mode /\ y.mb = x.mb /\ y.mbtask = x.mbtask /\ y.count = x.count /\ y.open = o
  BY DEF Mode

LEMMA TimedSame ==
  ASSUME ModeInv, UNCHANGED vars, m' \in Mode, m'.mb = m.mb, m'.mbtask = m.mbtask, m'.count = m.count,
         m'.open = FALSE \/ m'.open = m.open \/ end \notin Ending
  PROVE  ModeInv'
<1>1. g' = g /\ start' = start /\ end' = end
  BY DEF vars
<1>2. /\ AllOff(m') <=> AllOff(m)
      /\ NoTasks(m') <=> NoTasks(m)
      /\ Match(m') <=> Match(m)
      /\ Running(m') = Running(m)
  BY DEF AllOff, NoTasks, Match, Running
<1> QED BY <1>1, <1>2 DEF ModeInv, ClosedInv, MatchInv, CountInv

LEMMA TimedSteps ==
  ASSUME GameInv, ModeInv,
         TimedModeBegin \/ TimedModeMonitor \/ TimedModeGraceOver \/ TimedModeAdd
  PROVE  ModeInv'
<1>0. m \in Mode /\ m.timer \in 0 .. ByteSize - 1 /\ m.task \in {"none", "main", "grace"}
      /\ m.open \in BOOLEAN
  BY ModeFields DEF ModeInv
<1>1. UNCHANGED vars
  BY DEF TimedModeBegin, TimedModeMonitor, TimedModeGraceOver, TimedModeAdd
<1>2. CASE TimedModeBegin
  <2>1. m' = [m EXCEPT !.timer = InitTimer, !.task = "main", !.open = TRUE] /\ g.live > 0
    BY <1>2 DEF TimedModeBegin, LiveBall
  <2>2. end \notin Ending
    BY <2>1, ControlFacts DEF GameInv, EndSleeps
  <2>3. m' \in Mode /\ m'.mb = m.mb /\ m'.mbtask = m.mbtask /\ m'.count = m.count
    BY ZenonT(60), <1>0, <2>1, ModeNumbers, TimedFacts
  <2> QED BY <1>1, <2>2, <2>3, TimedSame
<1>3. CASE TimedModeMonitor \/ TimedModeAdd
  <2>1. PICK n \in 0 .. ByteSize - 1, t \in {"none", "main", "grace"} :
          m' = [m EXCEPT !.timer = n, !.task = t]
    <3>1. CASE TimedModeMonitor
      <4>1. Less(m.timer) \in 0 .. ByteSize - 1
        BY <1>0, Bytes
      <4>2. m' = [m EXCEPT !.timer = Less(m.timer),
                           !.task = IF Less(m.timer) = 0 THEN "grace" ELSE "main"]
        BY <1>0, <3>1 DEF TimedModeMonitor, Mode
      <4> QED BY <4>1, <4>2
    <3>2. CASE TimedModeAdd
      <4>1. (m.timer + TimeAdded) % ByteSize \in 0 .. ByteSize - 1
        <5>1. m.timer + TimeAdded \in Int BY <1>0, ModeNumbers
        <5> QED BY <5>1, Wraps
      <4>2. m' = [m EXCEPT !.timer = (m.timer + TimeAdded) % ByteSize,
                           !.task = IF m.timer = 0 THEN "main" ELSE m.task]
        BY <1>0, <3>2 DEF TimedModeAdd, Mode
      <4> QED BY <1>0, <4>1, <4>2
    <3> QED BY <1>3, <3>1, <3>2
  <2>2. m' \in Mode /\ m'.mb = m.mb /\ m'.mbtask = m.mbtask /\ m'.count = m.count /\ m'.open = m.open
    BY <1>0, <2>1 DEF Mode
  <2> QED BY <1>1, <2>2, TimedSame
<1>4. CASE TimedModeGraceOver
  <2>1. m' = ExitTimed(m)
    BY <1>4 DEF TimedModeGraceOver
  <2> QED BY <1>0, <1>1, <2>1, ExitFacts, TimedSame
<1> QED BY <1>2, <1>3, <1>4

(* A mode that starts is one more, and one that ends is one less: the      *)
(* count never wraps.                                                      *)
LEMMA OneMore ==
  ASSUME NEW x \in Mode, NEW b \in Mbs, x.mb[b] = "inactive", Match(x),
         x.count = Cardinality(Running(x))
  PROVE  LET y == MbModeUpdate(x, b, "active", "running")
         IN  y \in Mode /\ Match(y) /\ y.count = Cardinality(Running(y))
<1> DEFINE y == MbModeUpdate(x, b, "active", "running")
<1>1. /\ y \in Mode /\ y.mb = [x.mb EXCEPT ![b] = "active"]
      /\ y.mbtask = [x.mbtask EXCEPT ![b] = "running"] /\ y.count = More(x.count)
  BY UpdateFacts
<1>2. /\ x.mb \in [Mbs -> {"inactive", "active", "grace"}]
      /\ x.mbtask \in [Mbs -> {"none", "running", "grace"}]
      /\ x.count \in 0 .. ByteSize - 1
  BY ModeFields
<1> HIDE DEF y
<1>3. Match(y)
  BY <1>1, <1>2 DEF Match, TaskOf
<1>4. Running(y) = Running(x) \cup {b} /\ b \notin Running(x)
  BY <1>1, <1>2 DEF Running
<1>5. Cardinality(Running(y)) = Cardinality(Running(x)) + 1
  BY <1>4, RunningFacts, FS_AddElement
<1>6. Cardinality(Running(y)) <= Cardinality(Mbs) /\ Cardinality(Running(x)) \in Nat
  BY RunningFacts
<1>7. x.count + 1 < ByteSize
  BY <1>5, <1>6, ModeNumbers
<1>8. y.count = x.count + 1
  BY <1>1, <1>2, <1>7, Bytes
<1> QED BY <1>1, <1>3, <1>5, <1>8 DEF y

LEMMA OneLess ==
  ASSUME NEW x \in Mode, NEW b \in Mbs, x.mbtask[b] = "grace", Match(x)
  PROVE  LET y == MbModeUpdate(x, b, "inactive", "none")
         IN  /\ y \in Mode /\ Match(y) /\ y.open = x.open
             /\ x.count = Cardinality(Running(x)) => y.count = Cardinality(Running(y))
<1> DEFINE y == MbModeUpdate(x, b, "inactive", "none")
<1>0. /\ x.mb \in [Mbs -> {"inactive", "active", "grace"}]
      /\ x.mbtask \in [Mbs -> {"none", "running", "grace"}]
      /\ x.count \in 0 .. ByteSize - 1
  BY ModeFields
<1>1. x.mb[b] = "grace"
  BY <1>0 DEF Match, TaskOf
<1>2. /\ y \in Mode /\ y.mb = [x.mb EXCEPT ![b] = "inactive"] /\ y.open = x.open
      /\ y.mbtask = [x.mbtask EXCEPT ![b] = "none"] /\ y.count = Less(x.count)
  BY <1>1, UpdateFacts
<1> HIDE DEF y
<1>3. Match(y)
  BY <1>0, <1>2 DEF Match, TaskOf
<1>4. Running(y) = Running(x) \ {b} /\ b \in Running(x)
  BY <1>0, <1>1, <1>2 DEF Running
<1>5. Cardinality(Running(y)) = Cardinality(Running(x)) - 1
  BY <1>4, RunningFacts, FS_RemoveElement
<1>6. Cardinality(Running(y)) \in Nat /\ Cardinality(Running(x)) \in Nat
  BY RunningFacts
<1>7. Cardinality(Running(x)) > 0
  BY <1>5, <1>6
<1>8. x.count = Cardinality(Running(x)) => y.count = Cardinality(Running(y))
  BY <1>0, <1>2, <1>5, <1>7, Bytes
<1> QED BY <1>2, <1>3, <1>8 DEF y

LEMMA MbSteps ==
  ASSUME Timely, GameInv, ModeInv, NEW b \in Mbs, MbModeStart(b) \/ MbModeGraceOver(b)
  PROVE  ModeInv'
<1>0. m \in Mode /\ g' = g /\ start' = start /\ end' = end
  BY DEF ModeInv, MbModeStart, MbModeGraceOver, vars
<1>1. CASE MbModeStart(b)
  <2>1. /\ m.mb[b] = "inactive" /\ m' = MbModeUpdate(m, b, "active", "running")
        /\ g.live > 0 /\ g.in_game /\ ~ g.in_tilt /\ start \notin Opening
    BY <1>1 DEF MbModeStart, LiveBall, BallActs, Timely, Opening
  <2>2. end \notin Ending
    BY <2>1, ControlFacts DEF GameInv, EndSleeps
  <2>3. Match(m) /\ m.count = Cardinality(Running(m))
    BY <2>1 DEF ModeInv, MatchInv, CountInv, Loose
  <2>4. m' \in Mode /\ Match(m') /\ m'.count = Cardinality(Running(m'))
    BY <1>0, <2>1, <2>3, OneMore
  <2> QED BY <1>0, <2>1, <2>2, <2>4 DEF ModeInv, ClosedInv, MatchInv, CountInv
<1>2. CASE MbModeGraceOver(b)
  <2>1. m.mbtask[b] = "grace" /\ m' = MbModeUpdate(m, b, "inactive", "none")
    BY <1>2 DEF MbModeGraceOver
  <2>2. ~ NoTasks(m)
    BY <2>1 DEF NoTasks
  <2>3. Match(m) /\ end \notin Ending /\ start \notin Opening
    BY <2>2 DEF ModeInv, ClosedInv, MatchInv
  <2>4. /\ m' \in Mode /\ Match(m')
        /\ m.count = Cardinality(Running(m)) => m'.count = Cardinality(Running(m'))
    BY <1>0, <2>1, <2>3, OneLess
  <2> QED BY <1>0, <2>3, <2>4 DEF ModeInv, ClosedInv, MatchInv, CountInv
<1> QED BY <1>1, <1>2

-----------------------------------------------------------------------------
(* What each step of the game does to the modes.                           *)
LEMMA GameFieldsOf ==
  ASSUME GameInv, GameInv'
  PROVE  /\ g \in Memory /\ g' \in Memory /\ Tasks(start, end, over) /\ Tasks(start', end', over')
         /\ end \in Ending => g.live = 0 /\ start \in {"none", "hold"} /\ g.in_game
         /\ end' \in Ending => g'.live = 0 /\ start' \in {"none", "hold"} /\ g'.in_game
<1>1. /\ GameControl => Control(g, start, immune, end, over)
      /\ GameControl' => Control(g', start', immune', end', over')
  BY DEF GameControl
<1> QED BY <1>1 DEF GameInv, Control, EndSleeps

LEMMA QuietModes ==
  ASSUME Timely, GameInv, GameInv', Quiet,
         \/ PressStart \/ PressAdd \/ PressHold \/ HoldReleased \/ BuyinPress \/ BuyinAbort
         \/ SetValidPlayfield \/ DeviceAddLive \/ IncrementExtraBalls
         \/ BuyinTick \/ EndDone \/ OverDone \/ InsertCoin
  PROVE  Stays
<1>0. g \in Memory /\ m' = m
  BY GameFieldsOf DEF Quiet
<1>1. CASE PressStart
  <2>1. g' = NewGame(g) /\ start' = "hooks" /\ end' = end /\ ~ g.in_game /\ g.live = 0
    BY <1>1 DEF PressStart, StartGame
  <2>2. g'.live = g.live BY <1>0, <2>1 DEF NewGame, Memory
  <2> QED BY <1>0, <2>1, <2>2 DEF Stays, Keeps, Loose, Opening
<1>2. CASE PressHold \/ HoldReleased
  <2>1. g' = g /\ end' = end /\ start \in {"none", "hold"} /\ start' \in {"none", "hold"}
    BY <1>2 DEF PressHold, HoldReleased
  <2>2. g.live \in Nat BY <1>0, MemoryNumbers
  <2> QED BY <1>0, <2>1, <2>2 DEF Stays, Keeps, Loose, Opening
<1>3. CASE PressAdd \/ BuyinPress \/ BuyinAbort \/ SetValidPlayfield \/ IncrementExtraBalls
           \/ BuyinTick \/ InsertCoin
  <2>1. start' = start /\ end' = end
    BY <1>3 DEF PressAdd, BuyinPress, BuyinAbort, SetValidPlayfield, IncrementExtraBalls, BuyinTick,
       InsertCoin
  <2>2. g'.in_game = g.in_game /\ g'.in_tilt = g.in_tilt /\ g'.live = g.live
    BY <1>0, <1>3 DEF PressAdd, BuyinPress, BuyinAbort, SetValidPlayfield, IncrementExtraBalls,
       BuyinTick, InsertCoin, Memory
  <2> QED BY <1>0, <2>1, <2>2 DEF Stays, Keeps, Loose
<1>4. CASE DeviceAddLive
  <2>1. start' = start /\ end' = end /\ g.live # 0 /\ g' = [g EXCEPT !.live = g.live + 1]
    BY <1>4 DEF DeviceAddLive
  <2>2. g'.in_game = g.in_game /\ g'.in_tilt = g.in_tilt
    BY <1>0, <2>1 DEF Memory
  <2> QED BY <1>0, <2>1, <2>2 DEF Stays, Keeps, Loose
<1>5. CASE EndDone
  <2>1. start' = start /\ end' = "none" /\ g' = g
    BY <1>5 DEF EndDone
  <2> QED BY <1>0, <2>1 DEF Stays, Keeps, Loose, Ending
<1>6. CASE OverDone
  <2>1. start' = start /\ end' = end /\ g' = [g EXCEPT !.live = 0]
    BY <1>6 DEF OverDone
  <2>2. g'.in_game = g.in_game /\ g'.in_tilt = g.in_tilt /\ g'.live = 0
    BY <1>0, <2>1 DEF Memory
  <2> QED BY <1>0, <2>1, <2>2 DEF Stays, Keeps, Loose
<1> QED BY <1>1, <1>2, <1>3, <1>4, <1>5, <1>6

LEMMA StartModes ==
  ASSUME GameInv, GameInv', StartTask, StartsGame
  PROVE  Stays \/ Opens
<1>0. g \in Memory /\ m' = StartBallEvent(m, start')
  BY GameFieldsOf DEF StartsGame
<1>1. CASE StartHooks
  <2>1. g' = [g EXCEPT !.extra = 0, !.bip = 0] /\ start = "hooks" /\ start' = "reset" /\ end' = end
    BY <1>1 DEF StartHooks
  <2>2. m' = m /\ g'.live = g.live
    BY <1>0, <2>1 DEF StartBallEvent, Memory
  <2> QED BY <2>1, <2>2 DEF Stays, Keeps, Loose, Opening
<1>2. CASE StartReset
  <2> DEFINE x == PlayerStartGame(g)
  <2>1. start = "reset" /\ start' = SleepIn(g) /\ end' = end /\ g' = StartBall(x)
    BY <1>2 DEF StartReset
  <2>2. StartPlayerDue(g) /\ StartPlayerDue(x) /\ x \in Memory /\ Rest(x) = Rest(g)
    BY <2>1, OpeningFacts DEF GameInv
  <2> HIDE DEF x
  <2>3. start' = "yield" /\ g'.live = x.live /\ x.live = g.live
    BY <2>1, <2>2, StartBallFacts DEF SleepIn, Rest
  <2>4. m' = m
    BY <1>0, <2>3 DEF StartBallEvent
  <2> QED BY <2>1, <2>3, <2>4 DEF Stays, Keeps, Loose, Opening
<1>3. CASE StartServe
  <2>1. start = "yield" /\ start' = "none" /\ end' = end
    BY <1>3 DEF StartServe
  <2>2. end \notin Ending
    BY <2>1, GameFieldsOf
  <2>3. m' = MbStartBall(m)
    BY <1>0, <2>1 DEF StartBallEvent
  <2> QED BY <2>1, <2>2, <2>3 DEF Opens, Opening
<1> QED BY <1>1, <1>2, <1>3 DEF StartTask

LEMMA PlayModes ==
  ASSUME Timely, GameInv, GameInv',
         \/ DeviceRemoveLive /\ LosesBall
         \/ EndBall /\ EndsBall
         \/ SwTilt /\ Tilts
  PROVE  Stays \/ Lonely \/ Closes \/ Killed
<1>0. g \in Memory
  BY GameFieldsOf
<1>1. CASE DeviceRemoveLive /\ LosesBall
  <2>1. start' = start /\ end' = end /\ g.live # 0 /\ g' = [g EXCEPT !.live = g.live - 1]
    BY <1>1 DEF DeviceRemoveLive
  <2>2. g'.in_game = g.in_game /\ g'.in_tilt = g.in_tilt
    BY <1>0, <2>1 DEF Memory
  <2>3. Keeps
    BY <2>1, <2>2 DEF Keeps, Loose
  <2> QED BY <1>1, <2>3, Zenon DEF LosesBall, Stays, Lonely
<1>2. CASE EndBall /\ EndsBall
  <2>1. g' = [g EXCEPT !.live = 0, !.in_bonus = TRUE] /\ start' = start /\ start \notin Opening
    BY <1>2 DEF EndBall, BallActs, Timely, Opening
  <2>2. g'.live = 0
    BY <1>0, <2>1 DEF Memory
  <2>3. \E after \in Nat : m' = MbEndBall(TimedModeEnd(m), after)
    BY <1>2, RunningFacts DEF EndsBall
  <2> QED BY <2>1, <2>2, <2>3 DEF Closes
<1>3. CASE SwTilt /\ Tilts
  <2>1. /\ end' = end
        /\ \/ g' = [g EXCEPT !.warnings = TiltWarnings, !.in_tilt = TRUE, !.valid = TRUE]
           \/ /\ g' = [g EXCEPT !.warnings = IF @ < TiltWarnings THEN @ + 1 ELSE @]
              /\ start' = start
    BY <1>3 DEF SwTilt
  <2>2. g'.live = g.live /\ g.live \in Nat /\ g'.in_game = g.in_game
    BY <1>0, <2>1, MemoryNumbers DEF Memory
  <2>3. CASE g'.in_tilt
    BY <1>3, <2>1, <2>2, <2>3 DEF Tilts, Killed, Loose
  <2>4. CASE ~ g'.in_tilt
    <3>1. g' = [g EXCEPT !.warnings = IF @ < TiltWarnings THEN @ + 1 ELSE @] /\ start' = start
      BY <1>0, <2>1, <2>4 DEF Memory
    <3>2. g'.in_tilt = g.in_tilt
      BY <1>0, <3>1 DEF Memory
    <3> QED BY <1>3, <2>1, <2>2, <2>4, <3>1, <3>2 DEF Tilts, Stays, Keeps, Loose
  <2> QED BY <2>3, <2>4
<1> QED BY <1>1, <1>2, <1>3

(* From the end of a ball to the next one end_ball is asleep, or serves.   *)
LEMMA EndModes ==
  ASSUME GameInv, GameInv',
         \/ (BonusDone \/ TiltSettled) /\ AfterBonus
         \/ (ShootAgain \/ EndServe \/ BuyinDone) /\ StartsBall
  PROVE  Stays \/ Killed \/ Opens
<1>1. end \in Ending
  BY DEF BonusDone, TiltSettled, ShootAgain, EndServe, BuyinDone, Ending
<1>2. g.live = 0 /\ start \in {"none", "hold"}
  BY <1>1, GameFieldsOf
<1>3. start' = start \/ start' = "none"
  BY DEF BonusDone, TiltSettled, ShootAgain, EndServe, BuyinDone, DurationExpire
<1>4. m' \in {StartBallEvent(KillModes(m), end'), StartBallEvent(m, end')}
  BY DEF AfterBonus, StartsBall
<1>5. CASE end' = "none"
  <2>1. m' \in {MbStartBall(KillModes(m)), MbStartBall(m)}
    BY <1>4, <1>5 DEF StartBallEvent
  <2> QED BY <1>1, <1>2, <1>3, <1>5, <2>1 DEF Opens, Opening, Ending
<1>6. CASE end' # "none"
  <2>1. m' \in {KillModes(m), m}
    BY <1>4, <1>6 DEF StartBallEvent
  <2>2. g'.live = 0
    <3>1. end' \in Ending \/ end' = "ending"
      BY <1>6, GameFieldsOf DEF Tasks, Ending
    <3>2. end' = "ending" => over' = "stop"
      BY DEF BonusDone, TiltSettled, ShootAgain, EndServe, BuyinDone, TurnOver, NextTurn, NextBall,
             SleepIn
    <3>3. over' = "stop" => g'.live = 0
      <4>1. GameControl' => Control(g', start', immune', end', over')
        BY DEF GameControl
      <4> QED BY <4>1 DEF GameInv, Control, OverSleeps
    <3> QED BY <3>1, <3>2, <3>3, GameFieldsOf
  <2> QED BY <1>1, <1>2, <1>3, <2>1, <2>2 DEF Stays, Keeps, Killed, Opening
<1> QED BY <1>5, <1>6

LEMMA StopModes ==
  ASSUME Timely, GameInv, GameInv',
         \/ (HoldDone \/ OverStop \/ SwSlamTilt) /\ Stops
         \/ WarmReboot /\ Reboots
  PROVE  Killed \/ Clears
<1>0. g \in Memory /\ g.live \in Nat
  BY GameFieldsOf, MemoryNumbers
<1>1. CASE HoldDone /\ Stops
  <2>1. g' = NewGame(StopGame(g)) /\ start' = "hooks" /\ end' = end /\ m' = KillModes(m)
    BY <1>1 DEF HoldDone, StartGame, Stops
  <2>2. StopGame(g) \in Memory /\ StopGame(g).live = g.live
    BY <1>0, StopFacts
  <2>3. g'.live = g.live
    BY <2>1, <2>2 DEF NewGame, Memory
  <2> QED BY <1>0, <2>1, <2>3 DEF Killed, Loose, Opening
<1>2. CASE (OverStop \/ SwSlamTilt) /\ Stops
  <2>1. g' = StopGame(g) /\ end' = end /\ m' = KillModes(m)
    BY <1>2 DEF OverStop, SwSlamTilt, Stops
  <2> QED BY <1>0, <2>1, StopFacts DEF Killed, Loose
<1>3. CASE WarmReboot /\ Reboots
  BY <1>3 DEF WarmReboot, Clears
<1> QED BY <1>1, <1>2, <1>3

(* The game does with its modes what it does without them.                 *)
LEMMA GamePlays == ModesNext => [Next]_vars
<1>1. GameStep => Next
  BY Zenon DEF GameStep, Next, Press, Play, EndTask, OverTask
<1>2. ModeStep => UNCHANGED vars
  BY Zenon DEF ModeStep, TimedModeBegin, TimedModeMonitor, TimedModeGraceOver, TimedModeAdd, MbModeStart,
         MbModeGraceOver
<1> QED BY <1>1, <1>2 DEF ModesNext

LEMMA GameModes ==
  ASSUME Timely, GameInv, GameInv', GameStep
  PROVE  Stays \/ Lonely \/ Closes \/ Killed \/ Opens \/ Clears
<1>1. Quiet /\ (PressStart \/ PressAdd \/ PressHold \/ HoldReleased \/ BuyinPress \/ BuyinAbort) => Stays
  BY QuietModes, Zenon
<1>2. Quiet /\ (SetValidPlayfield \/ DeviceAddLive \/ IncrementExtraBalls) => Stays
  BY QuietModes, Zenon
<1>3. Quiet /\ (BuyinTick \/ EndDone \/ OverDone \/ InsertCoin) => Stays
  BY QuietModes, Zenon
<1>4. StartTask /\ StartsGame => Stays \/ Opens
  BY StartModes, Zenon
<1>5. DeviceRemoveLive /\ LosesBall => Stays \/ Lonely \/ Closes \/ Killed
  BY PlayModes, Zenon
<1>6. EndBall /\ EndsBall => Stays \/ Lonely \/ Closes \/ Killed
  BY PlayModes, Zenon
<1>7. SwTilt /\ Tilts => Stays \/ Lonely \/ Closes \/ Killed
  BY PlayModes, Zenon
<1>8. (BonusDone \/ TiltSettled) /\ AfterBonus => Stays \/ Killed \/ Opens
  BY EndModes, Zenon
<1>9. (ShootAgain \/ EndServe \/ BuyinDone) /\ StartsBall => Stays \/ Killed \/ Opens
  BY EndModes, Zenon
<1>10. (HoldDone \/ OverStop \/ SwSlamTilt) /\ Stops => Killed \/ Clears
  BY StopModes, Zenon
<1>11. WarmReboot /\ Reboots => Killed \/ Clears
  BY StopModes, Zenon
<1> QED BY <1>1, <1>2, <1>3, <1>4, <1>5, <1>6, <1>7, <1>8, <1>9, <1>10, <1>11, Zenon DEF GameStep

(* Whatever the game does, the modes keep their types.                     *)
LEMMA ModeTypes == ASSUME m \in Mode, GameStep PROVE m' \in Mode
<1>1. /\ KillModes(m) \in Mode /\ MbStartBall(m) \in Mode /\ MbStartBall(KillModes(m)) \in Mode
      /\ MbModeSingleBall(m) \in Mode
  BY KillFacts, MbStartFacts, SingleFacts
<1>2. CASE Quiet \/ Tilts \/ Stops \/ LosesBall
  BY <1>1, <1>2 DEF Quiet, Tilts, Stops, LosesBall
<1>3. CASE StartsGame \/ AfterBonus \/ StartsBall
  BY <1>1, <1>3 DEF StartsGame, AfterBonus, StartsBall, StartBallEvent
<1>4. CASE EndsBall
  <2>1. PICK after \in Nat : m' = MbEndBall(TimedModeEnd(m), after)
    BY <1>4, RunningFacts DEF EndsBall
  <2> QED BY <2>1, MbEndFacts
<1>5. CASE Reboots
  BY <1>5, RebootFacts
<1> QED BY <1>2, <1>3, <1>4, <1>5, Zenon DEF GameStep

(* While the game is at a halt the modes do nothing.                       *)
LEMMA HaltModes == ASSUME HaltInv, ModesInv PROVE ~ ModeStep
<1>1. ~ g.in_game \/ g.in_tilt
  BY DEF HaltInv, Stuck, Slammed
<1>2. ~ LiveBall /\ m.task = "none" /\ \A b \in Mbs : m.mbtask[b] = "none"
  BY <1>1, Zenon DEF LiveBall, ModesInv, NoModeOutsidePlay
<1> QED BY <1>2 DEF ModeStep, TimedModeBegin, TimedModeMonitor, TimedModeGraceOver, TimedModeAdd,
          MbModeStart, MbModeGraceOver

(* The inductive invariant of the game with its modes.                     *)
PlayInv == GameInv /\ ServedInv /\ ModesInv /\ ModeInv
AllInv  == PlayInv \/ (HaltInv /\ ModesInv /\ m \in Mode)

LEMMA AllInit == ModesInit => AllInv
<1> SUFFICES ASSUME ModesInit PROVE PlayInv
  BY DEF AllInv
<1>1. GameInv /\ ServedInv
  BY GameInit DEF ModesInit, Init, Idle, ServedInv
<1>2. m \in Mode /\ AllOff(m) /\ NoTasks(m) /\ ~ m.open /\ m.count = 0
  <2>1. /\ [b \in Mbs |-> "inactive"] \in [Mbs -> {"inactive", "active", "grace"}]
        /\ [b \in Mbs |-> "none"] \in [Mbs -> {"none", "running", "grace"}]
    OBVIOUS
  <2> QED BY <2>1, ModeNumbers DEF ModesInit, Mode, AllOff, NoTasks
<1>3. ModeInv
  BY <1>2, OffMatches, CountOff DEF ModeInv, ClosedInv, MatchInv, CountInv
<1> QED BY <1>1, <1>3, InitInv DEF PlayInv

LEMMA PlayStep == ASSUME Timely, ~ Halts, PlayInv, [ModesNext]_mvars PROVE PlayInv'
<1>1. [Next]_vars
  BY GamePlays DEF mvars
<1>2. GameInv' /\ ServedInv'
  BY <1>1, GameStepInv, StepKinds, ServedStep DEF PlayInv
<1>3. ModesInv'
  BY NextInv DEF PlayInv
<1>4. ModeInv'
  <2>0. GameInv /\ ModeInv /\ NoModeOutsidePlay
    BY DEF PlayInv, ModesInv
  <2>1. CASE GameStep
    BY <1>2, <2>0, <2>1, GameModes, StaysSame, LonelySame, ClosesSame, KilledSame, OpensSame, ClearsSame
  <2>2. CASE ModeStep
    BY <2>0, <2>2, TimedSteps, MbSteps, Zenon DEF ModeStep
  <2>3. CASE UNCHANGED mvars
    BY <2>0, <2>3 DEF mvars, vars, ModeInv, ClosedInv, MatchInv, CountInv
  <2> QED BY <2>1, <2>2, <2>3 DEF ModesNext
<1> QED BY <1>2, <1>3, <1>4 DEF PlayInv

(* A game is started while the one that was slam tilted waits for its      *)
(* reboot: that one has come to its end.                                   *)
LEMMA HaltPlay ==
  ASSUME Timely, HaltInv, ModesInv, m \in Mode, PressStart
  PROVE  PlayInv /\ ~ Halts
<1>1. /\ GameInv /\ ~ Halts /\ ~ g.in_game /\ g.live = 0 /\ start = "none"
      /\ end \notin Ending
  BY HaltIdle
<1>2. NoTasks(m)
  BY <1>1, Zenon DEF ModesInv, NoModeOutsidePlay, NoTasks
<1>3. ClosedInv /\ MatchInv /\ CountInv
  BY <1>1, <1>2 DEF ClosedInv, MatchInv, CountInv, Loose, Opening
<1> QED BY <1>1, <1>2, <1>3 DEF PlayInv, ServedInv, ModeInv

(* A step that begins the halt, or is taken in it, or is the reboot.       *)
LEMMA HaltAllStep ==
  ASSUME [ModesNext]_mvars, ModesInv, m \in Mode,
         (GameInv /\ Halts) \/ (HaltInv /\ ~ PressStart)
  PROVE  AllInv' /\ ~ TurnPasses
<1>1. [Next]_vars
  BY GamePlays DEF mvars
<1>2. ModesInv'
  BY NextInv
<1>3. CASE GameInv /\ Halts
  <2>1. g' # g
    <3>1. g \in Memory
      BY <1>3, ControlFacts DEF GameInv
    <3>2. CASE TiltHalts
      BY <3>1, <3>2 DEF TiltHalts, SwTilt, Memory
    <3>3. CASE SlamHalts
      BY <3>1, <3>3, StopFacts DEF SlamHalts, SwSlamTilt
    <3> QED BY <1>3, <3>2, <3>3 DEF Halts
  <2>2. GameStep
    BY <2>1, Zenon DEF ModesNext, mvars, vars, ModeStep, TimedModeBegin, TimedModeMonitor,
       TimedModeGraceOver, TimedModeAdd, MbModeStart, MbModeGraceOver
  <2> QED BY <1>2, <1>3, <2>2, ModeTypes, HaltStart DEF AllInv, NoTurn
<1>4. CASE HaltInv /\ ~ PressStart /\ ~ WarmReboot
  <2>1. HaltInv' /\ NoTurn
    BY <1>1, <1>4, HaltStep
  <2>2. m' \in Mode
    BY <1>4, HaltModes, ModeTypes DEF ModesNext, mvars
  <2> QED BY <1>2, <2>1, <2>2 DEF AllInv, NoTurn
<1>5. CASE HaltInv /\ WarmReboot
  <2>1. GameInv' /\ ~ g'.in_game /\ start' = "none" /\ end' = "none"
    BY <1>5, HaltReboot
  <2>2. ServedInv' /\ ~ TurnPasses
    BY <2>1 DEF ServedInv, TurnPasses
  <2>3. slam' # slam
    BY <1>5 DEF WarmReboot
  <2>4. GameStep
    BY <1>5, <2>3, HaltModes DEF ModesNext, mvars, vars
  <2>5. Reboots
    <3>1. ~ (PressStart \/ PressAdd \/ PressHold \/ HoldReleased \/ BuyinPress \/ BuyinAbort)
      BY <2>3 DEF PressStart, PressAdd, PressHold, HoldReleased, BuyinPress, BuyinAbort
    <3>2. ~ StartTask /\ ~ HoldDone
      BY <2>3 DEF StartTask, StartHooks, StartReset, StartServe, HoldDone
    <3>3. ~ (SetValidPlayfield \/ DeviceAddLive \/ IncrementExtraBalls \/ DeviceRemoveLive \/ EndBall)
      BY <2>3 DEF SetValidPlayfield, DeviceAddLive, IncrementExtraBalls, DeviceRemoveLive, EndBall
    <3>4. ~ (SwTilt \/ OverDone \/ OverStop)
      BY <2>3 DEF SwTilt, OverDone, OverStop
    <3>5. ~ SwSlamTilt
      BY <1>5 DEF SwSlamTilt, WarmReboot
    <3>6. ~ (BonusDone \/ TiltSettled \/ ShootAgain \/ EndServe \/ BuyinDone)
      BY <2>3 DEF BonusDone, TiltSettled, ShootAgain, EndServe, BuyinDone
    <3>7. ~ (BuyinTick \/ EndDone \/ InsertCoin)
      BY <2>3 DEF BuyinTick, EndDone, InsertCoin
    <3> QED BY <2>4, <3>1, <3>2, <3>3, <3>4, <3>5, <3>6, <3>7, Zenon DEF GameStep
  <2>6. ModeInv'
    <3>1. m' \in Mode /\ AllOff(m') /\ NoTasks(m') /\ m'.count = 0 /\ m'.open = FALSE
      BY <2>5, RebootFacts
    <3> QED BY <2>1, <3>1, OffMatches, CountOff DEF ModeInv, ClosedInv, MatchInv, CountInv, Ending, Opening
  <2> QED BY <1>2, <2>1, <2>2, <2>6 DEF AllInv, PlayInv
<1> QED BY <1>3, <1>4, <1>5

LEMMA AllStep == Timely /\ AllInv /\ [ModesNext]_mvars => AllInv'
  BY PlayStep, HaltPlay, HaltAllStep DEF AllInv, PlayInv, ModeInv

(* The variables of the game and of its modes keep their types: the bytes  *)
(* of the timer and of the count as well, which may wrap.                  *)
THEOREM ModesTypeCorrect == Timely /\ ModesSpec => []ModesTypeOK
<1> SUFFICES ASSUME Timely PROVE ModesSpec => []ModesTypeOK
  OBVIOUS
<1>1. AllInv /\ SlamType => ModesTypeOK
  <2>1. (GameInv \/ HaltInv) /\ SlamType => TypeOK
    BY GameTypes
  <2>2. ModeInv => m \in Mode
    BY DEF ModeInv
  <2> QED BY <2>1, <2>2 DEF AllInv, PlayInv, Mode, ModesTypeOK
<1>2. AllInv /\ [ModesNext]_mvars => AllInv'
  BY AllStep
<1>3. SlamType /\ [ModesNext]_mvars => SlamType'
  BY GamePlays, SlamTypes DEF mvars
<1>4. ModesInit => SlamType
  BY DEF ModesInit, Init, SlamType
<1> QED BY <1>1, <1>2, <1>3, <1>4, AllInit, PTL DEF ModesSpec

(* With a ball in play the count of the multiball modes is how many run,   *)
(* for any number of modes: whatever the order of the handlers when the    *)
(* last ball ended, however often modes start, lose a ball, run out of     *)
(* their grace or are killed by a tilt or a restart.                       *)
THEOREM CountIsRight == Timely /\ ModesSpec => []CountMatches
<1> SUFFICES ASSUME Timely PROVE ModesSpec => []CountMatches
  OBVIOUS
<1>1. AllInv => CountMatches
  <2> SUFFICES ASSUME AllInv, g.in_game, g.live > 0 PROVE m.count = Cardinality(Running(m))
    BY DEF CountMatches
  <2> QED BY DEF AllInv, PlayInv, ModeInv, CountInv, HaltInv, Stuck, Slammed
<1>2. AllInv /\ [ModesNext]_mvars => AllInv'
  BY AllStep
<1> QED BY <1>1, <1>2, AllInit, PTL DEF ModesSpec

(* A multiball mode that is on in play has the task that will end it: a    *)
(* kill of tasks by a tilt, the end of a ball or a restart leaves no mode  *)
(* on in the ball after.                                                   *)
THEOREM ModesHaveTasks == Timely /\ ModesSpec => []ModeHasTask
<1> SUFFICES ASSUME Timely PROVE ModesSpec => []ModeHasTask
  OBVIOUS
<1>1. AllInv => ModeHasTask
  <2> SUFFICES ASSUME AllInv, g.in_game, ~ g.in_tilt, start \in {"none", "hold"} PROVE Match(m)
    BY DEF ModeHasTask, Match, TaskOf
  <2> QED BY DEF AllInv, PlayInv, ModeInv, MatchInv, Loose, Opening, HaltInv, Stuck, Slammed
<1>2. AllInv /\ [ModesNext]_mvars => AllInv'
  BY AllStep
<1> QED BY <1>1, <1>2, AllInit, PTL DEF ModesSpec

(* A timed mode has been exited when the turn passes, also if a tilt has   *)
(* killed its task before, or a slam tilt has come in between; an end_ball *)
(* left over from the game before passes turns without that (Timely).      *)
THEOREM ExitedBefore == Timely /\ ModesSpec => ExitBeforeNextTurn
<1> SUFFICES ASSUME Timely PROVE ModesSpec => ExitBeforeNextTurn
  OBVIOUS
<1>1. AllInv /\ [ModesNext]_mvars => [TurnPasses => ~ m.open]_mvars
  <2> SUFFICES ASSUME AllInv, [ModesNext]_mvars, TurnPasses PROVE ~ m.open
    OBVIOUS
  <2>1. [Next]_vars
    BY GamePlays DEF mvars
  <2>2. PlayInv /\ ~ Halts
    BY HaltPlay, HaltAllStep DEF AllInv, PlayInv, ModeInv
  <2>3. Turn = TurnOf(g) /\ Turn' = TurnOf(g')
    BY DEF Turn, TurnOf
  <2>4. Passes
    BY <2>1, <2>2, <2>3, StepKinds
       DEF PlayInv, TurnPasses, Begins, Leaves, Continues, Resets, Rebuys, Awards, SameTurn
  <2>5. end \in Ending
    BY <2>4 DEF Passes, PassesWith, Ending
  <2> QED BY <2>2, <2>5 DEF PlayInv, ModeInv, ClosedInv
<1>2. AllInv /\ [ModesNext]_mvars => AllInv'
  BY AllStep
<1> QED BY <1>1, <1>2, AllInit, PTL DEF ModesSpec, ExitBeforeNextTurn
=============================================================================
