-------------------------------- MODULE Game --------------------------------
(***************************************************************************)
(* A game of several players (kernel/game.c) with extra balls              *)
(* (common/eb.c), buy-in (common/buyin.c), tilt (common/tilt.c), credits   *)
(* (common/coin.c) and the save areas of the players (kernel/player.c).    *)
(*                                                                         *)
(* Three tasks run the game, and everything happens between their sleeps:  *)
(* the handler of the start button, the device task that has found the     *)
(* last ball drained and runs end_ball, and the end game task.  What a     *)
(* task does from one sleep to the next is one action.                     *)
(*                                                                         *)
(* Timed games, test mode and free play are not modelled.                  *)
(***************************************************************************)
EXTENDS Integers

CONSTANTS
  MaxPlayers,    \* max_players
  BallsPerGame,  \* balls_per_game
  MaxEbs,        \* max_ebs
  MaxEbsPerBip,  \* max_ebs_per_bip
  TiltWarnings,  \* tilt_warnings of the configuration
  BuyIn,         \* buy_extra_ball
  BuyinTimeout,  \* BUYIN_TIMEOUT
  MaxCredits,    \* max_credits
  MaxCoins,      \* bound: coins put in during a game
  MaxLive,       \* bound: balls in play at once
  Untimely       \* bound: what may also happen while tasks of the game sleep,
                 \* of "hold", "ball", "tilt", "slam" and "start"

ASSUME GameAssumption ==
  /\ {MaxPlayers, BallsPerGame, TiltWarnings} \subseteq Nat \ {0}
  /\ {MaxEbs, MaxEbsPerBip, BuyinTimeout, MaxCredits, MaxCoins, MaxLive} \subseteq Nat
  /\ BuyIn \in BOOLEAN
  /\ Untimely \subseteq {"hold", "ball", "tilt", "slam", "start"}

VARIABLES
  g,        \* what game.c, eb.c, buyin.c and tilt.c keep in memory
  start,    \* where the task of the start button sleeps
  immune,   \* its duration has been removed, by stop_game
  end,      \* where the task that runs end_ball sleeps
  over,     \* where end_game_task sleeps
  slam,     \* the slam tilt sleeps, until it reboots
  credits,  \* coin_state.credits
  hist      \* for the properties: what happened in this game

vars == <<g, start, immune, end, over, slam, credits, hist>>

Players == 1 .. MaxPlayers

(* The local area of a player: whose data it holds since start_player,     *)
(* nobody's when zeroed, with extra_balls_earned.                          *)
Zeroed   == [of |-> 0, earned |-> 0]
Idle     == [in_game |-> FALSE, in_bonus |-> FALSE, in_tilt |-> FALSE, valid |-> FALSE,
             num_players |-> 1, player_up |-> 0, ball_up |-> 0, live |-> 0,
             warnings |-> 0, offer |-> 0, passed |-> TRUE, extra |-> 0, bip |-> 0,
             local |-> Zeroed, saved |-> [p \in Players |-> Zeroed]]
NoHist   == [served |-> FALSE, unpaid |-> 0, coins |-> 0,
             awarded |-> [p \in Players |-> 0], ends |-> [p \in Players |-> 0]]

-----------------------------------------------------------------------------
(* The calls, as what they make of the memory x.  Variants of the code,    *)
(* wrong ones, are named ...Bug: none is used below.                       *)

PlayerSave(x)    == [x EXCEPT !.saved[x.player_up] = x.local]
PlayerRestoreBug(x) == x
PlayerRestore(x) == [x EXCEPT !.local = x.saved[x.player_up]]
PlayerStartGame(x) == [x EXCEPT !.local = Zeroed, !.saved = [p \in Players |-> Zeroed]]

(* start_ball up to the task_yield after start_player, if that is due, and *)
(* from there: the start_ball event and the new ball, which counts as live *)
(* from when its kick is requested.                                        *)
StartPlayerDue(x) == x.ball_up = 1 /\ x.bip = 0
StartPlayer(x)    == [x EXCEPT !.local = [of |-> x.player_up, earned |-> 0]]
StartBallReset(x) == [x EXCEPT !.in_tilt = FALSE, !.valid = FALSE]
ServeBall(x)      == [x EXCEPT !.warnings = 0, !.valid = FALSE,
                               !.live = IF @ < MaxLive THEN @ + 1 ELSE @]

StartBall(x) == IF StartPlayerDue(x) THEN StartPlayer(StartBallReset(x))
                                     ELSE ServeBall(StartBallReset(x))
SleepIn(x)   == IF StartPlayerDue(x) THEN "yield" ELSE "none"

StopGame(x) == [x EXCEPT !.in_game = FALSE, !.in_bonus = FALSE, !.in_tilt = FALSE,
                         !.valid = FALSE, !.player_up = 0, !.ball_up = 0]

(* start_game until it sleeps: the first player is added.                  *)
NewGame(x) == [x EXCEPT !.in_game = TRUE, !.in_bonus = FALSE, !.in_tilt = FALSE,
                        !.num_players = 1, !.player_up = 1, !.ball_up = 1]

(* remove_credit: for a player or a ball that costs one.                   *)
RemoveCredit == IF credits > 0 THEN credits - 1 ELSE 0
Unpaid       == IF credits > 0 THEN 0 ELSE 1

StartGame(x) ==
  /\ g' = NewGame(x)
  /\ credits' = RemoveCredit
  /\ over' = "none"                                  \* task_kill_gid (GID_END_GAME)
  /\ start' = "hooks"
  /\ hist' = [NoHist EXCEPT !.unpaid = Unpaid, !.coins = hist.coins]

(* task_duration_expire, for any of BALL, GAME or LIVE: all have the same  *)
(* lowest bit, which tasks have by default.                                *)
DurationExpire == start' = IF immune THEN start ELSE "none"

-----------------------------------------------------------------------------
(* The start button.                                                       *)

OfferShown  == end = "buyin" /\ g.offer > 0
MayStartBug == ~ g.in_tilt
MayStart    == credits > 0 /\ ~ g.in_tilt

(* Also between a slam tilt and its reboot.  A start_game or an end_ball   *)
(* of the game before may then be asleep still, and goes on in the new     *)
(* game: there is no second start task here, and an end_ball is met only   *)
(* if that is among the untimely events.                                   *)
PressStart ==
  /\ MayStart /\ ~ g.in_game
  /\ g.live = 0                                      \* device_check_start_ok
  /\ start = "none"
  /\ "start" \in Untimely \/ end \in {"none", "ending"}
  /\ StartGame(g)
  /\ immune' = FALSE
  /\ UNCHANGED <<end, slam>>

(* Also while the buy-in is offered, when a coin hides its effect.         *)
PressAdd ==
  /\ MayStart /\ g.in_game
  /\ g.num_players < MaxPlayers /\ g.ball_up = 1
  /\ g' = [g EXCEPT !.num_players = @ + 1]
  /\ credits' = RemoveCredit
  /\ hist' = [hist EXCEPT !.unpaid = @ + Unpaid]
  /\ UNCHANGED <<start, immune, end, over, slam>>

PressHold ==
  /\ MayStart /\ g.in_game
  /\ g.num_players < MaxPlayers /\ g.ball_up # 1
  /\ start = "none"
  /\ "hold" \in Untimely \/ end = "none"
  /\ start' = "hold" /\ immune' = FALSE
  /\ UNCHANGED <<g, end, over, slam, credits, hist>>

HoldReleased ==
  /\ start = "hold"
  /\ start' = "none"
  /\ UNCHANGED <<g, immune, end, over, slam, credits, hist>>

(* After two seconds the handler stops the game and starts another.  The   *)
(* task of end_ball, which belongs to a device, is not killed.             *)
HoldDone ==
  /\ start = "hold"
  /\ "hold" \in Untimely \/ end = "none"
  /\ StartGame(StopGame(g))
  /\ immune' = TRUE
  /\ UNCHANGED <<end, slam>>

(* The start_game event.                                                   *)
StartHooks ==
  /\ start = "hooks"
  /\ g' = [g EXCEPT !.extra = 0, !.bip = 0]
  /\ start' = "reset"
  /\ UNCHANGED <<immune, end, over, slam, credits, hist>>

Served == hist' = [hist EXCEPT !.served = TRUE]

StartReset ==
  /\ start = "reset"
  /\ g' = StartBall(PlayerStartGame(g))
  /\ start' = SleepIn(g)
  /\ IF StartPlayerDue(g) THEN UNCHANGED hist ELSE Served
  /\ UNCHANGED <<immune, end, over, slam, credits>>

StartServe ==
  /\ start = "yield"
  /\ g' = ServeBall(g)
  /\ start' = "none"
  /\ Served
  /\ UNCHANGED <<immune, end, over, slam, credits>>

StartTask == StartHooks \/ StartReset \/ StartServe

-----------------------------------------------------------------------------
(* Balls in play.  While start_game sleeps, its first ball is not there    *)
(* yet, and an old one left in play by a restart only does something if    *)
(* that is among the untimely events.                                      *)
BallActs == start \in {"none", "hold"} \/ "ball" \in Untimely

SetValidPlayfield ==
  /\ BallActs
  /\ g.in_game /\ ~ g.valid /\ g.live > 0
  /\ g' = [g EXCEPT !.valid = TRUE]
  /\ UNCHANGED <<start, immune, end, over, slam, credits, hist>>

DeviceAddLive ==
  /\ g.in_game /\ g.valid /\ ~ g.in_bonus /\ g.live \in 1 .. MaxLive - 1
  /\ g' = [g EXCEPT !.live = @ + 1]
  /\ UNCHANGED <<start, immune, end, over, slam, credits, hist>>

(* device_remove_live, where this is not the end of the ball.              *)
DeviceRemoveLive ==
  /\ g.live > 0
  /\ g.live > 1 \/ ~ g.in_game \/ g.in_bonus
  /\ g' = [g EXCEPT !.live = @ - 1]
  /\ UNCHANGED <<start, immune, end, over, slam, credits, hist>>

(* end_ball.  A ball that has touched nothing is served again at once,     *)
(* which changes nothing here.                                             *)
EndBall ==
  /\ BallActs
  /\ g.live = 1 /\ g.in_game /\ ~ g.in_bonus
  /\ g.valid \/ g.in_tilt
  /\ end = "none"
  /\ g' = [g EXCEPT !.live = 0, !.in_bonus = TRUE]
  /\ end' = "bonus"
  /\ UNCHANGED <<start, immune, over, slam, credits, hist>>

(* increment_extra_balls, in play or during the bonus.                     *)
CanAwardExtraBallBug == g.bip < MaxEbsPerBip
CanAwardExtraBall    == g.local.earned < MaxEbs /\ g.bip < MaxEbsPerBip

IncrementExtraBalls ==
  /\ BallActs
  /\ g.in_game /\ ~ g.in_tilt /\ ((g.valid /\ g.live > 0) \/ end = "bonus")
  /\ CanAwardExtraBall
  /\ g' = [g EXCEPT !.extra = @ + 1, !.bip = @ + 1, !.local.earned = @ + 1]
  /\ hist' = [hist EXCEPT !.awarded[g.player_up] = @ + 1]
  /\ UNCHANGED <<start, immune, end, over, slam, credits>>

(* The tilt switch is serviced in a game only (SW_IN_GAME).  After the     *)
(* tilt, until a ball is served, it warns and counts on: to that, how far  *)
(* makes no difference (below 256).                                        *)
SwTilt ==
  /\ g.in_game /\ ~ g.in_tilt
  /\ "tilt" \in Untimely \/ (start \in {"none", "hold"} /\ over = "none")
  /\ IF g.warnings + 1 = TiltWarnings
       THEN /\ g' = [g EXCEPT !.warnings = TiltWarnings, !.in_tilt = TRUE, !.valid = TRUE]
            /\ DurationExpire
            /\ over' = "none"
       ELSE /\ g' = [g EXCEPT !.warnings = IF @ < TiltWarnings THEN @ + 1 ELSE @]
            /\ UNCHANGED <<start, over>>
  /\ UNCHANGED <<immune, end, slam, credits, hist>>

Play == SetValidPlayfield \/ DeviceAddLive \/ DeviceRemoveLive \/ EndBall
        \/ IncrementExtraBalls \/ SwTilt

-----------------------------------------------------------------------------
(* end_ball from the end of the bonus on.                                  *)

NextBall(x) ==
  /\ g' = StartBall(x)
  /\ end' = SleepIn(x)
  /\ UNCHANGED over

(* The next player, or the first one and the next ball, or nothing left.   *)
PlayersLeftBug(x) == x.player_up <= x.num_players
PlayersLeft(x)    == x.player_up < x.num_players

Rotated(x) ==
  LET up == IF x.player_up < x.num_players THEN x.player_up + 1 ELSE 1
  IN  IF x.num_players = 1 THEN x
      ELSE PlayerRestore([PlayerSave(x) EXCEPT !.player_up = up])

NextTurn(x, ends) ==
  LET y == Rotated(x)
      z == IF PlayersLeft(x) THEN y ELSE [y EXCEPT !.ball_up = @ + 1]
  IN  IF z.ball_up <= BallsPerGame
        THEN /\ NextBall(z)
             /\ hist' = [hist EXCEPT !.served = ~ StartPlayerDue(z), !.ends = ends]
        ELSE /\ g' = z /\ end' = "ending" /\ over' = "stop"
             /\ hist' = [hist EXCEPT !.ends = ends]

EndPlayer(x) == [hist.ends EXCEPT ![x.player_up] = @ + 1]

LastBallBug(x) == x.ball_up = BallsPerGame /\ x.player_up = x.num_players
LastBall(x)    == x.ball_up = BallsPerGame

(* decrement_extra_balls, and the branches after it.                       *)
TurnOver(x) ==
  LET y == [x EXCEPT !.bip = 0]
  IN  \/ /\ x.extra > 0
         /\ g' = [x EXCEPT !.extra = @ - 1]
         /\ end' = "again"
         /\ UNCHANGED <<over, hist>>
      \/ /\ x.extra = 0 /\ ~ LastBall(x)
         /\ NextTurn(y, hist.ends)
      \/ /\ x.extra = 0 /\ LastBall(x) /\ ~ BuyIn
         /\ NextTurn(y, EndPlayer(y))
      \/ /\ x.extra = 0 /\ LastBall(x) /\ BuyIn
         /\ g' = [y EXCEPT !.passed = TRUE, !.offer = BuyinTimeout]
         /\ end' = "buyin"
         /\ UNCHANGED <<over, hist>>

LeaveBonusBug(x) == x
LeaveBonus(x)    == [x EXCEPT !.in_bonus = FALSE]

BonusDone ==
  /\ end = "bonus" /\ ~ g.in_tilt
  /\ TurnOver(LeaveBonus(g))
  /\ DurationExpire
  /\ UNCHANGED <<immune, slam, credits>>

(* bonus_complete waits for the tilt bob to settle.                        *)
TiltSettled ==
  /\ end = "bonus" /\ g.in_tilt
  /\ TurnOver(LeaveBonus([g EXCEPT !.in_tilt = FALSE]))
  /\ DurationExpire
  /\ UNCHANGED <<immune, slam, credits>>

ShootAgain ==
  /\ end = "again"
  /\ NextBall(g)
  /\ IF StartPlayerDue(g) THEN UNCHANGED hist ELSE Served
  /\ UNCHANGED <<start, immune, slam, credits>>

EndServe ==
  /\ end = "yield"
  /\ g' = ServeBall(g)
  /\ end' = "none"
  /\ Served
  /\ UNCHANGED <<start, immune, over, slam, credits>>

(* The buy-in offer.                                                       *)
BuyinTick ==
  /\ OfferShown
  /\ g' = [g EXCEPT !.offer = @ - 1]
  /\ UNCHANGED <<start, immune, end, over, slam, credits, hist>>

BuyinAbort ==
  /\ OfferShown
  /\ g' = [g EXCEPT !.offer = 0]
  /\ UNCHANGED <<start, immune, end, over, slam, credits, hist>>

BuyinPress ==
  /\ OfferShown /\ credits > 0
  /\ g' = [g EXCEPT !.passed = FALSE, !.offer = 0]
  /\ credits' = RemoveCredit
  /\ hist' = [hist EXCEPT !.unpaid = @ + Unpaid]
  /\ UNCHANGED <<start, immune, end, over, slam>>

BuyinDone ==
  /\ end = "buyin" /\ g.offer = 0
  /\ IF g.passed
       THEN NextTurn(g, EndPlayer(g))
       ELSE NextBall(g) /\ IF StartPlayerDue(g) THEN UNCHANGED hist ELSE Served
  /\ UNCHANGED <<start, immune, slam, credits>>

EndDone ==
  /\ end = "ending"
  /\ end' = "none"
  /\ UNCHANGED <<g, start, immune, over, slam, credits, hist>>

EndTask == BonusDone \/ TiltSettled \/ ShootAgain \/ EndServe \/ BuyinTick \/ BuyinDone \/ EndDone

-----------------------------------------------------------------------------
(* end_game_task: the effects of the end of the game, which may match a    *)
(* credit and which a new game interrupts, and the attract mode.           *)
AddCredit == IF credits < MaxCredits THEN credits + 1 ELSE credits

OverStop ==
  /\ over = "stop"
  /\ g' = StopGame(g)
  /\ over' = "effects"
  /\ DurationExpire
  /\ UNCHANGED <<immune, end, slam, credits, hist>>

OverDone ==
  /\ over = "effects"
  /\ g' = [g EXCEPT !.live = 0]
  /\ over' = "none"
  /\ credits' \in {credits, AddCredit}
  /\ hist' = NoHist
  /\ UNCHANGED <<start, immune, end, slam>>

(* The slam tilt stops the game, may take a credit, and reboots.           *)
SwSlamTilt ==
  /\ g.in_game
  /\ "slam" \in Untimely \/ (start = "none" /\ end = "none" /\ over = "none")
  /\ g' = StopGame(g)
  /\ over' = "none" /\ slam' = TRUE
  /\ DurationExpire
  /\ credits' \in {credits, RemoveCredit}
  /\ UNCHANGED <<immune, end, hist>>

WarmReboot ==
  /\ slam /\ slam' = FALSE
  /\ g' = [Idle EXCEPT !.num_players = g.num_players]
  /\ start' = "none" /\ end' = "none" /\ over' = "none"
  /\ hist' = NoHist
  /\ UNCHANGED <<immune, credits>>

OverTask == OverStop \/ OverDone

(* A coin, and buyin_coin_insert.                                          *)
InsertCoin ==
  /\ credits < MaxCredits /\ hist.coins < MaxCoins
  /\ credits' = AddCredit
  /\ g' = IF OfferShown THEN [g EXCEPT !.offer = BuyinTimeout] ELSE g
  /\ hist' = [hist EXCEPT !.coins = @ + 1]
  /\ UNCHANGED <<start, immune, end, over, slam>>

-----------------------------------------------------------------------------
Init ==
  /\ g = Idle
  /\ start = "none" /\ immune = FALSE /\ end = "none" /\ over = "none" /\ slam = FALSE
  /\ credits = 0
  /\ hist = NoHist

Press == PressStart \/ PressAdd \/ PressHold \/ HoldReleased \/ HoldDone \/ BuyinPress \/ BuyinAbort

Next == Press \/ StartTask \/ Play \/ EndTask \/ OverTask \/ SwSlamTilt \/ WarmReboot \/ InsertCoin

Spec == Init /\ [][Next]_vars

(* Tasks that sleep wake up, a served ball reaches the playfield, balls    *)
(* drain, and in the end the last one does: a player does not juggle       *)
(* several balls for ever.                                                 *)
Fairness ==
  /\ WF_vars(StartTask) /\ WF_vars(EndTask) /\ WF_vars(OverTask)
  /\ WF_vars(WarmReboot)
  /\ WF_vars(HoldReleased \/ HoldDone)
  /\ WF_vars(SetValidPlayfield) /\ WF_vars(DeviceRemoveLive) /\ SF_vars(EndBall)

FairSpec == Spec /\ Fairness

-----------------------------------------------------------------------------
(* The variables keep their types.                                         *)
Area == [of : 0 .. MaxPlayers, earned : Nat]
TypeOK ==
  /\ g \in [in_game : BOOLEAN, in_bonus : BOOLEAN, in_tilt : BOOLEAN, valid : BOOLEAN,
            num_players : Players, player_up : 0 .. MaxPlayers, ball_up : 0 .. BallsPerGame + 1,
            live : 0 .. MaxLive, warnings : 0 .. TiltWarnings, offer : 0 .. BuyinTimeout,
            passed : BOOLEAN, extra : 0 .. MaxEbsPerBip, bip : 0 .. MaxEbsPerBip,
            local : Area, saved : [Players -> Area]]
  /\ start \in {"none", "hold", "hooks", "reset", "yield"}
  /\ immune \in BOOLEAN
  /\ end \in {"none", "bonus", "again", "buyin", "yield", "ending"}
  /\ over \in {"none", "stop", "effects"}
  /\ slam \in BOOLEAN
  /\ credits \in 0 .. MaxCredits

(* With a ball in play, the local variables are those of the player who is *)
(* up: start_player was thrown for that player in this game, and what the  *)
(* players after and before saved and restored is theirs.                  *)
LocalsArePlayers == g.in_game /\ g.live > 0 /\ start = "none" => g.local.of = g.player_up

(* No player gets more extra balls in a game than max_ebs, whoever played  *)
(* in between.                                                             *)
EbLimit == \A p \in Players : hist.awarded[p] <= MaxEbs

(* Every player and every ball bought has cost a credit: the credit that   *)
(* was looked at when the button was pressed is still there when it is     *)
(* taken.                                                                  *)
PlayersPaid == hist.unpaid = 0

(* A turn passes to the next player, or ball_up to the next ball, only in  *)
(* the order of play, and after a ball of that turn has been served and    *)
(* no ball is in play.  An end_ball that goes on in the game after its own *)
(* ("hold", "start" of Untimely) does not keep to this.                    *)
Turn == <<g.ball_up, g.player_up>>
NextInOrder ==
  IF g.player_up < g.num_players THEN <<g.ball_up, g.player_up + 1>> ELSE <<g.ball_up + 1, 1>>

TurnPasses == g'.in_game /\ Turn' # Turn /\ ~ (start # "hooks" /\ start' = "hooks")

TurnsPlayed ==
  [][TurnPasses => Turn' = NextInOrder /\ hist.served /\ g.live = 0]_vars

(* A game that is played to its end throws end_player once for each of its *)
(* players.                                                                *)
EveryPlayerEnds ==
  [][over = "stop" /\ over' = "effects" => \A p \in 1 .. g.num_players : hist.ends[p] = 1]_vars

(* A game ends, as coins do.                                               *)
GameEnds == g.in_game ~> ~ g.in_game
=============================================================================
