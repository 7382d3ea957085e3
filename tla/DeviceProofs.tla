---------------------------- MODULE DeviceProofs ----------------------------
(***************************************************************************)
(* Ball devices, for every number of devices and balls, every size and     *)
(* patience of a device, and every bound on what else happens: types, the  *)
(* solenoid driver, pending kicks, balls not forgotten, and at the end the *)
(* count of the balls in play.                                             *)
(***************************************************************************)
EXTENDS Device, FiniteSetTheorems, TLAPS

Counts == [Devices -> 0 .. NumBalls]

-----------------------------------------------------------------------------
(* The sum of the balls of all devices.                                    *)
LEMMA BallsFinite ==
  ASSUME NEW count PROVE IsFiniteSet(Balls(count)) /\ Total(count) \in Nat
<1>1. IsFiniteSet(1 .. NumBalls)
  BY FS_Interval, DeviceAssumption
<1>2. IsFiniteSet(Devices \X (1 .. NumBalls))
  BY <1>1, FS_Product, DeviceAssumption
<1>3. IsFiniteSet(Balls(count))
  BY <1>2, FS_Subset DEF Balls
<1> QED BY <1>3, FS_CardinalityType DEF Total

LEMMA OneDevice ==
  ASSUME NEW d \in Devices, NEW n \in 0 .. NumBalls
  PROVE  IsFiniteSet({d} \X (1 .. n)) /\ Cardinality({d} \X (1 .. n)) = n
<1>1. IsFiniteSet({d}) /\ Cardinality({d}) = 1
  BY FS_Singleton
<1>2. IsFiniteSet(1 .. n) /\ Cardinality(1 .. n) = n
  <2>1. n \in Int /\ 1 \in Int /\ n >= 0
    BY DeviceAssumption
  <2>2. Cardinality(1 .. n) = IF 1 > n THEN 0 ELSE n - 1 + 1
    BY <2>1, FS_Interval
  <2> QED BY <2>1, <2>2, FS_Interval
<1>3. /\ IsFiniteSet({d} \X (1 .. n))
      /\ Cardinality({d} \X (1 .. n)) = Cardinality({d}) * Cardinality(1 .. n)
  BY <1>1, <1>2, FS_Product
<1> QED BY <1>1, <1>2, <1>3

(* The balls of the other devices.                                         *)
Others(count, d) == {b \in Balls(count) : b[1] # d}

LEMMA SplitDevice ==
  ASSUME NEW count \in Counts, NEW d \in Devices
  PROVE  /\ IsFiniteSet(Others(count, d))
         /\ Cardinality(Others(count, d)) \in Nat
         /\ Total(count) = Cardinality(Others(count, d)) + count[d]
<1> DEFINE O == Others(count, d)
           M == {d} \X (1 .. count[d])
<1>1. count[d] \in 0 .. NumBalls
  BY DEF Counts
<1>2. IsFiniteSet(O) /\ Cardinality(O) \in Nat
  BY BallsFinite, FS_Subset, FS_CardinalityType DEF Others
<1>3. IsFiniteSet(M) /\ Cardinality(M) = count[d]
  BY <1>1, OneDevice
<1>4. Balls(count) = O \cup M
  <2>1. ASSUME NEW b \in Balls(count) PROVE b \in O \cup M
    BY DEF Balls, Others
  <2>2. O \subseteq Balls(count)
    BY DEF Others
  <2>3. ASSUME NEW b \in M PROVE b \in Balls(count)
    BY <1>1, DeviceAssumption DEF Balls
  <2> QED BY <2>1, <2>2, <2>3
<1>5. O \cap M = {}
  BY DEF Others
<1>6. Cardinality(O \cup M) = Cardinality(O) + Cardinality(M) - Cardinality({})
  <2> HIDE DEF O, M
  <2> QED BY <1>2, <1>3, <1>5, FS_Union
<1>7. Cardinality({}) = 0
  BY FS_EmptySet
<1> QED BY <1>1, <1>2, <1>3, <1>4, <1>6, <1>7 DEF Total

(* One device's count changes the sum by its own change.                   *)
LEMMA TotalExcept ==
  ASSUME NEW count \in Counts, NEW d \in Devices, NEW n \in 0 .. NumBalls
  PROVE  Total([count EXCEPT ![d] = n]) = Total(count) - count[d] + n
<1> DEFINE other == [count EXCEPT ![d] = n]
<1>1. other \in Counts /\ other[d] = n /\ count[d] \in Nat
  BY DEF Counts
<1>2. Others(other, d) = Others(count, d)
  <2>1. \A e \in Devices : e # d => other[e] = count[e]
    BY DEF Counts
  <2> HIDE DEF other
  <2> QED BY <2>1 DEF Others, Balls
<1> HIDE DEF other
<1>3. Total(count) = Cardinality(Others(count, d)) + count[d]
  BY SplitDevice
<1>4. Total(other) = Cardinality(Others(count, d)) + n /\ Cardinality(Others(count, d)) \in Nat
  BY <1>1, <1>2, SplitDevice
<1> QED BY <1>1, <1>3, <1>4 DEF other

LEMMA TotalBound ==
  ASSUME NEW count \in Counts, NEW d \in Devices
  PROVE  count[d] \in Nat /\ count[d] <= Total(count)
<1>1. count[d] \in Nat
  BY DEF Counts
<1> QED BY <1>1, SplitDevice

LEMMA TotalZero == Total([d \in Devices |-> 0]) = 0
<1>1. Balls([d \in Devices |-> 0]) = {}
  BY DeviceAssumption DEF Balls
<1> QED BY <1>1, FS_EmptySet DEF Total
-----------------------------------------------------------------------------
(* The inductive invariant of the types.                                   *)
Record == [actual : 0 .. NumBalls, max_count : 0 .. Byte - 1, kicks_needed : 0 .. Byte - 1,
           kick_errors : 0 .. Byte - 1, state : {"idle", "releasing"}]
Phases == {"none", "settle", "enter", "success", "kicked", "retry", "decide", "attempt", "pulse"}

Physical == /\ ball \in Counts /\ lane \in Counts /\ moved \subseteq Devices
            /\ Total(ball) + Total(lane) <= NumBalls

(* Of one device, its record x, phase p and events t: a device that has    *)
(* given up needs no kick, and no more successes are thrown than kicks     *)
(* were needed.                                                            *)
Fine(d, x, p, t) ==
  /\ x \in Record /\ p \in Phases /\ t \in 0 .. NumBalls
  /\ x.kick_errors <= MaxErrors[d]
  /\ x.kick_errors = MaxErrors[d] => x.kicks_needed = 0
  /\ p \in {"success", "kicked"} => t <= x.kicks_needed

TableOf(x, p, t) ==
  /\ x \in [Devices -> Record] /\ p \in [Devices -> Phases] /\ t \in Counts
  /\ \A d \in Devices : Fine(d, x[d], p[d], t[d])

Table == TableOf(dev, at, todo)

Solenoid == /\ req_lock \in {Held(d) : d \in Devices} \cup {Free, Done}
            /\ sol_pulse_timer \in {0, 1} /\ sol_pulsing \in Devices \cup {Nobody}
            /\ sol_pulse_timer = 1 => sol_pulsing \in Devices

Globals == /\ cpu \in Devices \cup {Nobody}
           /\ missing_balls \in 0 .. Byte - 1 /\ live_balls \in 0 .. Byte - 1
           /\ game \in {"attract", "starting", "play", "bonus", "over"}
           /\ device_game_start_errors \in 0 .. Starts
           /\ probe \in {"none", "scan", "wait"} /\ kicks \in 0 .. MaxProbes

Flags == {valid_playfield, kickout_locks, clean} \subseteq BOOLEAN

DeviceInv == Physical /\ Table /\ Solenoid /\ Globals /\ Flags

LEMMA DeviceTypes == DeviceInv => TypeOK
  BY DEF DeviceInv, Physical, Table, TableOf, Solenoid, Globals, Flags, TypeOK, Counts, Record, Phases

LEMMA Numbers ==
  /\ NumBalls \in 1 .. 15 /\ Byte = 256 /\ Trough \in Devices /\ Nobody \notin Devices
  /\ \A d \in Devices : /\ Size[d] \in 1 .. Byte - 1 /\ InitMax[d] \in 0 .. Byte - 1
                        /\ InitMax[d] <= Size[d]
                        /\ MaxErrors[d] \in 1 .. Byte - 1
  BY DeviceAssumption DEF Byte

-----------------------------------------------------------------------------
(* The balls: what enters a device comes from the playfield or from its    *)
(* own lane, so devices and lanes never hold more than there are.          *)
LEMMA PhysicalStep == ASSUME DeviceInv, Next PROVE Physical'
<1> DEFINE b == Total(ball)
           l == Total(lane)
<1>1. b \in Nat /\ l \in Nat /\ b + l <= NumBalls /\ NumBalls \in Nat
  BY BallsFinite, Numbers DEF DeviceInv, Physical
<1>2. ball \in Counts /\ lane \in Counts /\ moved \subseteq Devices
  BY DEF DeviceInv, Physical
<1>3. \A d \in Devices : /\ ball[d] \in 0 .. NumBalls /\ lane[d] \in 0 .. NumBalls
                         /\ ball[d] <= b /\ lane[d] <= l
  BY <1>2, TotalBound DEF Counts
<1>4. ASSUME NEW d \in Devices, NEW n \in 0 .. NumBalls
      PROVE  /\ [ball EXCEPT ![d] = n] \in Counts /\ [lane EXCEPT ![d] = n] \in Counts
             /\ Total([ball EXCEPT ![d] = n]) = b - ball[d] + n
             /\ Total([lane EXCEPT ![d] = n]) = l - lane[d] + n
  BY <1>2, TotalExcept DEF Counts
<1> HIDE DEF b, l
<1>5. ASSUME NEW d \in Devices, BallEnters(d) PROVE Physical'
  <2>1. b + l < NumBalls
    BY <1>1, <1>5, Numbers DEF BallEnters, OnPlayfield, Loose, b, l
  <2>2. ball[d] + 1 \in 0 .. NumBalls
    BY <1>1, <1>3, <2>1
  <2>3. /\ ball' = [ball EXCEPT ![d] = ball[d] + 1] /\ lane' = lane
        /\ moved' \subseteq Devices
    BY <1>2, <1>5 DEF BallEnters
  <2>4. ball' \in Counts /\ Total(ball') = b - ball[d] + (ball[d] + 1)
    BY <1>4, <2>2, <2>3
  <2>5. lane' \in Counts /\ Total(lane') = l
    BY <1>2, <2>3 DEF l
  <2> QED BY <1>1, <1>3, <2>1, <2>3, <2>4, <2>5 DEF Physical
<1>6. ASSUME NEW d \in Devices, BallFallsBack(d) PROVE Physical'
  <2>1. lane[d] > 0 /\ lane[d] - 1 \in 0 .. NumBalls
    BY <1>1, <1>3, <1>6 DEF BallFallsBack
  <2>2. ball[d] + 1 \in 0 .. NumBalls
    BY <1>1, <1>3, <2>1
  <2>3. /\ ball' = [ball EXCEPT ![d] = ball[d] + 1] /\ lane' = [lane EXCEPT ![d] = lane[d] - 1]
        /\ moved' \subseteq Devices
    BY <1>2, <1>6 DEF BallFallsBack
  <2>4. /\ ball' \in Counts /\ Total(ball') = b - ball[d] + (ball[d] + 1)
        /\ lane' \in Counts /\ Total(lane') = l - lane[d] + (lane[d] - 1)
    BY <1>4, <2>1, <2>2, <2>3
  <2> QED BY <1>1, <1>3, <2>3, <2>4 DEF Physical
<1>7. ASSUME NEW d \in Devices, BallGone(d) PROVE Physical'
  <2>1. ball' = ball /\ lane' = [lane EXCEPT ![d] = 0] /\ moved' = moved /\ 0 \in 0 .. NumBalls
    BY <1>1, <1>7 DEF BallGone
  <2>2. lane' \in Counts /\ Total(lane') = l - lane[d] + 0
    BY <1>4, <2>1
  <2>3. ball' \in Counts /\ Total(ball') = b /\ moved' \subseteq Devices
    BY <1>2, <2>1 DEF b
  <2> QED BY <1>1, <1>3, <2>2, <2>3 DEF Physical
<1>8. ASSUME NEW d \in Devices, BallEscapes(d) PROVE Physical'
  <2>1. /\ ball[d] - 1 \in 0 .. NumBalls /\ moved' \subseteq Devices
        /\ ball' = [ball EXCEPT ![d] = ball[d] - 1] /\ lane' = lane
    BY <1>1, <1>2, <1>3, <1>8 DEF BallEscapes
  <2>2. ball' \in Counts /\ Total(ball') = b - ball[d] + (ball[d] - 1)
    BY <1>4, <2>1
  <2>3. lane' \in Counts /\ Total(lane') = l
    BY <1>2, <2>1 DEF l
  <2> QED BY <1>1, <1>3, <2>1, <2>2, <2>3 DEF Physical
<1>9. CASE PulseKicks
  <2> DEFINE s == sol_pulsing
  <2>1. s \in Devices /\ ball[s] > 0
    BY <1>9 DEF PulseKicks, PulseEnds, DeviceInv, Solenoid
  <2>2. /\ ball[s] - 1 \in 0 .. NumBalls /\ moved' \subseteq Devices
        /\ ball' = [ball EXCEPT ![s] = ball[s] - 1] /\ lane' = [lane EXCEPT ![s] = lane[s] + 1]
    BY <1>1, <1>2, <1>3, <1>9, <2>1 DEF PulseKicks
  <2>3. lane[s] + 1 \in 0 .. NumBalls
    BY <1>1, <1>3, <2>1
  <2>4. /\ ball' \in Counts /\ Total(ball') = b - ball[s] + (ball[s] - 1)
        /\ lane' \in Counts /\ Total(lane') = l - lane[s] + (lane[s] + 1)
    BY <1>4, <2>1, <2>2, <2>3
  <2> QED BY <1>1, <1>3, <2>1, <2>2, <2>4 DEF Physical
<1>10. ASSUME NEW d \in Devices, DeviceSwHandler(d) PROVE Physical'
  BY <1>1, <1>2, <1>10 DEF DeviceSwHandler, Physical, b, l
<1>11. CASE UNCHANGED physical
  BY <1>1, <1>2, <1>11 DEF physical, Physical, b, l
<1>12. CASE SetValidPlayfield \/ KickoutLock \/ Game \/ Probe \/ PulseFails \/ TroughEnter \/ Requests
  <2>1. CASE SetValidPlayfield \/ KickoutLock \/ PulseFails \/ Requests
    BY <1>11, <2>1 DEF SetValidPlayfield, KickoutLock, PulseFails, Requests, SetBallCount,
                       DeviceUnlockBall, DeviceRequestEmpty
  <2>2. CASE Game \/ Probe
    BY <1>11, <2>2 DEF Game, Probe, StartGame, StartRefused, StartIgnored, StartBall, StopGame,
                       AmodeStart, DeviceProbe, ProbeGivesUp, ProbeExit
  <2>3. CASE TroughEnter
    BY <1>11, <2>3 DEF TroughEnter, RemoveMissing, RemoveNothing, BallSaved, DrainMultiball,
                       ServeAgain, EndBall, BallDrain, Throw
  <2> QED BY <1>12, <2>1, <2>2, <2>3
<1>13. ASSUME NEW d \in Devices, Update(d) PROVE Physical'
  BY <1>11, <1>13 DEF Update, CountSame, SurpriseRelease, CountRose, KickFailed, KickGivenUp,
       KickWorked, Recount, EnterUnheard, DeviceLockBall, KickSuccess, KickCounted, Throw,
       EntersDone, HandlerSleeps, HandlerWakes, Finish, Delay, KickAttempt, Decide,
       SolAllocWaits, SolAlloc, SolFree
<1> QED BY <1>5, <1>6, <1>7, <1>8, <1>9, <1>10, <1>12, <1>13 DEF Next, Playfield, Pulse
(* The solenoid driver's variables.                                        *)
LEMMA SolenoidStep == ASSUME DeviceInv, Next PROVE Solenoid'
<1>0. Solenoid
  BY DEF DeviceInv
<1>1. CASE UNCHANGED solenoid
  BY <1>0, <1>1 DEF solenoid, Solenoid
<1>2. ASSUME NEW d \in Devices, SolAlloc(d) PROVE Solenoid'
  BY <1>2 DEF SolAlloc, Solenoid
<1>3. ASSUME NEW d \in Devices, SolFree(d) PROVE Solenoid'
  BY <1>0, <1>3 DEF SolFree, Solenoid
<1>4. CASE Pulse
  BY <1>0, <1>4 DEF Pulse, PulseKicks, PulseFails, PulseEnds, Solenoid
<1>5. CASE Playfield \/ Game \/ Probe
  BY <1>1, <1>5 DEF Playfield, Game, Probe, BallEnters, BallEscapes, BallFallsBack, BallGone,
       SetValidPlayfield, KickoutLock, StartGame, StartRefused, StartIgnored, StartBall, StopGame,
       AmodeStart, DeviceProbe, ProbeGivesUp, ProbeExit
<1>6. CASE TroughEnter \/ Requests
  BY <1>1, <1>6 DEF TroughEnter, RemoveMissing, RemoveNothing, BallSaved, DrainMultiball,
       ServeAgain, EndBall, BallDrain, Throw, Requests, SetBallCount, DeviceUnlockBall,
       DeviceRequestEmpty
<1>7. ASSUME NEW d \in Devices, DeviceSwHandler(d) \/ (Update(d) /\ ~ SolAlloc(d) /\ ~ SolFree(d))
      PROVE  Solenoid'
  BY <1>1, <1>7 DEF DeviceSwHandler, Update, CountSame, SurpriseRelease, CountRose, KickFailed,
       KickGivenUp, KickWorked, Recount, EnterUnheard, DeviceLockBall, KickSuccess, KickCounted,
       Throw, EntersDone, HandlerSleeps, HandlerWakes, Finish, Delay, KickAttempt, Decide,
       SolAllocWaits
<1> QED BY <1>2, <1>3, <1>4, <1>5, <1>6, <1>7 DEF Next

(* The counters of device.c and the state of the game.                     *)
LEMMA MissingType == ASSUME NEW t PROVE Missing(t) \in 0 .. Byte - 1
<1> DEFINE n == NumBalls - Total([d \in Devices |-> t[d].actual])
<1>1. n \in Int
  BY BallsFinite, Numbers
<1> HIDE DEF n
<1>2. n % 256 \in 0 .. 255
  BY <1>1
<1> QED BY <1>2, Numbers DEF Missing, n

LEMMA Fields ==
  ASSUME NEW x \in Record
  PROVE  /\ x.actual \in 0 .. NumBalls /\ x.max_count \in 0 .. 255 /\ x.kicks_needed \in 0 .. 255
         /\ x.kick_errors \in 0 .. 255 /\ x.state \in {"idle", "releasing"}
         /\ x.actual \in 0 .. 15
         /\ x = [actual |-> x.actual, max_count |-> x.max_count, kicks_needed |-> x.kicks_needed,
                 kick_errors |-> x.kick_errors, state |-> x.state]
<1>1. /\ x.actual \in 0 .. NumBalls /\ x.max_count \in 0 .. 255 /\ x.kicks_needed \in 0 .. 255
      /\ x.kick_errors \in 0 .. 255 /\ x.state \in {"idle", "releasing"}
  BY Numbers DEF Record
<1>2. x.actual \in 0 .. 15
  BY <1>1, Numbers
<1> QED BY <1>1, <1>2 DEF Record

LEMMA Wraps == \A n \in Int : n % Byte \in 0 .. Byte - 1
  BY Numbers

LEMMA FlagsStep == ASSUME DeviceInv, Next PROVE Flags'
<1>0. valid_playfield \in BOOLEAN /\ kickout_locks \in BOOLEAN /\ clean \in BOOLEAN
  BY DEF DeviceInv, Flags
<1>a. AutoServe \in BOOLEAN
  BY DeviceAssumption
<1>q. SUFFICES valid_playfield' \in BOOLEAN /\ kickout_locks' \in BOOLEAN /\ clean' \in BOOLEAN
  BY DEF Flags
<1> DEFINE G == valid_playfield' \in BOOLEAN /\ kickout_locks' \in BOOLEAN /\ clean' \in BOOLEAN
<1>1. CASE Playfield
  <2>1. ASSUME NEW d \in Devices, BallEnters(d) \/ BallEscapes(d) \/ BallFallsBack(d) \/ BallGone(d)
        PROVE  G
    BY <1>0, <2>1, Zenon DEF BallEnters, BallEscapes, BallFallsBack, BallGone, play
  <2>2. CASE SetValidPlayfield
    BY <1>0, <2>2, Zenon DEF SetValidPlayfield
  <2>3. CASE KickoutLock
    BY <1>0, <2>3, Zenon DEF KickoutLock
  <2> QED BY <1>1, <2>1, <2>2, <2>3, Zenon DEF Playfield
<1>2. CASE Pulse \/ Probe \/ \E d \in Devices : DeviceSwHandler(d)
  BY <1>0, <1>2, Zenon DEF Pulse, PulseKicks, PulseFails, Probe, DeviceProbe, ProbeGivesUp, ProbeExit,
       DeviceSwHandler, play
<1>3. CASE StartGame \/ StartRefused \/ StartIgnored \/ StopGame \/ AmodeStart
  BY <1>0, <1>3, Zenon DEF StartGame, StartRefused, StartIgnored, StopGame, AmodeStart
<1>4. CASE StartBall
  BY <1>0, <1>4, Zenon DEF StartBall
<1>5. CASE RemoveMissing \/ RemoveNothing \/ BallSaved
  BY <1>0, <1>5, <1>a, Zenon DEF RemoveMissing, RemoveNothing, BallSaved, BallDrain, Throw
<1>6. CASE DrainMultiball \/ ServeAgain \/ EndBall
  BY <1>0, <1>6, Zenon DEF DrainMultiball, ServeAgain, EndBall, BallDrain, Throw
<1>7. CASE Requests
  BY <1>0, <1>7, <1>a, Zenon DEF Requests, SetBallCount, DeviceUnlockBall, DeviceRequestEmpty, play
<1>8. ASSUME NEW d \in Devices, Update(d) PROVE G
  <2>1. CASE CountSame(d) \/ SurpriseRelease(d) \/ CountRose(d)
    BY <1>0, <2>1, Zenon DEF CountSame, SurpriseRelease, CountRose, Recount
  <2>2. CASE KickFailed(d) \/ KickGivenUp(d) \/ KickWorked(d)
    BY <1>0, <2>2, Zenon DEF KickFailed, KickGivenUp, KickWorked, Recount
  <2>3. CASE EnterUnheard(d) \/ KickSuccess(d) \/ KickCounted(d)
    BY <1>0, <2>3, Zenon DEF EnterUnheard, KickSuccess, KickCounted, Throw
  <2>4. CASE DeviceLockBall(d)
    <3>1. /\ UNCHANGED <<kickout_locks, clean>>
          /\ valid_playfield' = FALSE \/ valid_playfield' = valid_playfield
      BY <2>4, Zenon DEF DeviceLockBall, Throw
    <3> QED BY <1>0, <3>1, Zenon
  <2>5. CASE EntersDone(d) \/ HandlerSleeps(d) \/ HandlerWakes(d) \/ SolAllocWaits(d)
             \/ SolAlloc(d) \/ SolFree(d)
    BY <1>0, <2>5, Zenon DEF EntersDone, HandlerSleeps, HandlerWakes, SolAllocWaits, SolAlloc, SolFree, play
  <2>6. CASE Finish(d) \/ Delay(d) \/ KickAttempt(d)
    BY <1>0, <2>6, Zenon DEF Finish, Delay, KickAttempt, Decide, play
  <2> QED BY <1>8, <2>1, <2>2, <2>3, <2>4, <2>5, <2>6, Zenon DEF Update
<1> QED BY <1>1, <1>2, <1>3, <1>4, <1>5, <1>6, <1>7, <1>8, Zenon DEF Next, Game, TroughEnter

LEMMA GlobalsStep == ASSUME DeviceInv, Next PROVE Globals'
<1>0. Globals /\ Byte = 256
  BY Numbers DEF DeviceInv
<1>1. CASE Playfield \/ (\E d \in Devices : DeviceSwHandler(d))
  <2>1. UNCHANGED <<cpu, missing_balls, live_balls, game, device_game_start_errors, probing>>
    BY <1>1, Zenon DEF Playfield, DeviceSwHandler, BallEnters, BallEscapes, BallFallsBack, BallGone,
       SetValidPlayfield, KickoutLock, table, tasks, play
  <2> QED BY <1>0, <2>1 DEF Globals, probing
<1>2. CASE Pulse
  BY <1>0, <1>2 DEF Pulse, PulseKicks, PulseFails, Globals, table, tasks, play, probing
<1>3. CASE Game
  <2>1. CASE StartGame \/ StartRefused \/ StartIgnored
    <3>1. device_game_start_errors \in Nat /\ Starts \in Nat /\ MaxProbes \in Nat
      BY <1>0, DeviceAssumption DEF Globals
    <3>2. /\ UNCHANGED <<cpu, missing_balls, live_balls>>
          /\ game' \in {game, "starting"}
      BY <2>1 DEF StartGame, StartRefused, StartIgnored, table, tasks
    <3>3. (probe' \in {probe, "scan"}) /\ (kicks' \in {kicks, 0})
      BY <2>1 DEF StartGame, StartRefused, StartIgnored, probing
    <3>4. device_game_start_errors' \in 0 .. Starts
      BY <1>0, <2>1, <3>1 DEF StartGame, StartRefused, StartIgnored, Globals
    <3> QED BY <1>0, <3>1, <3>2, <3>3, <3>4 DEF Globals
  <2>2. CASE StartBall
    <3>1. /\ UNCHANGED <<cpu, missing_balls, device_game_start_errors, probing>>
          /\ game' = "play" /\ live_balls' = 0
      BY <2>2, Zenon DEF StartBall
    <3> QED BY <1>0, <3>1 DEF Globals, probing
  <2>3. CASE StopGame \/ AmodeStart
    <3>1. MaxProbes \in Nat /\ Starts \in Nat
      BY DeviceAssumption
    <3> QED BY <1>0, <2>3, <3>1 DEF StopGame, AmodeStart, Globals, table, tasks, probing
  <2> QED BY <1>3, <2>1, <2>2, <2>3 DEF Game
<1>4. CASE Probe
  <2>0. MaxProbes \in Nat /\ kicks \in 0 .. MaxProbes
    BY <1>0, DeviceAssumption DEF Globals
  <2>1. CASE DeviceProbe
    <3>1. kicks' \in {kicks, kicks + 1} /\ kicks < MaxProbes /\ probe' \in {probe, "wait"}
      BY <2>1 DEF DeviceProbe
    <3>2. live_balls' \in {live_balls, (live_balls + 1) % Byte}
      BY <2>1 DEF DeviceProbe
    <3>3. (live_balls + 1) % Byte \in 0 .. Byte - 1
      BY <1>0 DEF Globals
    <3>4. UNCHANGED <<missing_balls, cpu, game, device_game_start_errors>>
      BY <2>1 DEF DeviceProbe, play
    <3> QED BY <1>0, <2>0, <3>1, <3>2, <3>3, <3>4 DEF Globals
  <2>2. CASE ProbeGivesUp
    BY <1>0, <2>2 DEF ProbeGivesUp, Globals, table, tasks, play
  <2>3. CASE ProbeExit
    BY <1>0, <2>0, <2>3, MissingType DEF ProbeExit, Globals, tasks, play
  <2> QED BY <1>4, <2>1, <2>2, <2>3 DEF Probe
<1>5. CASE TroughEnter
  <2>0. missing_balls \in 0 .. 255 /\ live_balls \in 0 .. 255
    BY <1>0 DEF Globals
  <2>1. missing_balls' \in 0 .. 255 /\ live_balls' \in 0 .. 255
    BY <2>0, <1>5 DEF TroughEnter, RemoveMissing, RemoveNothing, BallSaved, DrainMultiball,
       ServeAgain, EndBall, BallDrain
  <2>2. /\ cpu' \in {cpu, Nobody} /\ game' \in {game, "bonus"}
        /\ UNCHANGED <<device_game_start_errors, probing>>
    BY <1>5 DEF TroughEnter, RemoveMissing, RemoveNothing, BallSaved, DrainMultiball,
       ServeAgain, EndBall, BallDrain, Throw, Thrown
  <2> QED BY <1>0, <2>1, <2>2 DEF Globals, probing
<1>6. CASE Requests
  <2>1. ASSUME NEW n \in 1 .. NumBalls, SetBallCount(n) PROVE Globals'
    <3>1. UNCHANGED <<missing_balls, live_balls, cpu, game, device_game_start_errors, probing>>
      BY <2>1, Zenon DEF SetBallCount
    <3> QED BY <1>0, <3>1 DEF Globals, probing
  <2>2. ASSUME NEW d \in Devices, DeviceUnlockBall(d) \/ DeviceRequestEmpty(d) PROVE Globals'
    <3>1. dev[d].actual \in Int /\ dev[d].kicks_needed \in Int
      <4>1. dev[d] \in Record
        BY DEF DeviceInv, Table, TableOf
      <4> QED BY <4>1, Fields
    <3>2. KickableCount(dev[d]) \in 0 .. Byte - 1
      BY SMTT(40), <3>1, Numbers, Wraps DEF KickableCount
    <3>3. live_balls' \in 0 .. Byte - 1
      <4> DEFINE k == KickableCount(dev[d])
      <4>1. live_balls' \in {(live_balls + 1) % Byte, (live_balls + 0) % Byte, (live_balls + k) % Byte}
        BY <2>2 DEF DeviceUnlockBall, DeviceRequestEmpty
      <4>2. live_balls \in Int /\ k \in Int
        BY <1>0, <3>2, Numbers DEF Globals
      <4> HIDE DEF k
      <4> QED BY <4>1, <4>2, Wraps
    <3>4. UNCHANGED <<missing_balls, cpu, game, device_game_start_errors, probing>>
      <4>1. UNCHANGED <<missing_balls, cpu, play, probing>>
        BY <2>2, Zenon DEF DeviceUnlockBall, DeviceRequestEmpty
      <4> QED BY <4>1 DEF play
    <3> QED BY <1>0, <3>3, <3>4 DEF Globals, probing
  <2> QED BY <1>6, <2>1, <2>2 DEF Requests
<1>7. ASSUME NEW d \in Devices, Update(d) PROVE Globals'
  <2>1. CASE CountSame(d) \/ CountRose(d) \/ KickFailed(d) \/ KickGivenUp(d) \/ KickWorked(d)
    <3>1. missing_balls' \in 0 .. Byte - 1
      BY <2>1, MissingType DEF CountSame, CountRose, KickFailed, KickGivenUp, KickWorked
    <3>2. /\ cpu' \in {d, cpu}
          /\ UNCHANGED <<live_balls, game, device_game_start_errors, probing>>
      BY <2>1 DEF CountSame, CountRose, KickFailed, KickGivenUp, KickWorked, Recount
    <3> QED BY <1>0, <3>1, <3>2 DEF Globals, probing
  <2>2. CASE SurpriseRelease(d)
    <3>1. Missing(dev') \in 0 .. Byte - 1
      BY MissingType
    <3>2. missing_balls' \in 0 .. Byte - 1 /\ live_balls' \in 0 .. Byte - 1
      BY <1>0, <2>2, <3>1 DEF SurpriseRelease, Globals
    <3>3. cpu' = d /\ UNCHANGED <<game, device_game_start_errors, probing>>
      BY <2>2, Zenon DEF SurpriseRelease, Recount
    <3> QED BY <1>0, <3>2, <3>3 DEF Globals, probing
  <2>3. CASE EnterUnheard(d) \/ KickSuccess(d) \/ KickCounted(d)
    <3>0. missing_balls \in 0 .. Byte - 1 /\ live_balls \in 0 .. Byte - 1
      BY <1>0 DEF Globals
    <3>1. CASE EnterUnheard(d) \/ KickCounted(d)
      <4>1. UNCHANGED <<missing_balls, live_balls, cpu, game, device_game_start_errors, probing>>
        BY <3>1, Zenon DEF EnterUnheard, KickCounted, Throw, Thrown, table
      <4> QED BY <1>0, <4>1 DEF Globals, probing
    <3>2. CASE KickSuccess(d)
      <4>1. missing_balls' \in 0 .. Byte - 1 /\ live_balls' \in 0 .. Byte - 1
        BY <1>0, <3>0, <3>2 DEF KickSuccess
      <4>2. UNCHANGED <<cpu, game, device_game_start_errors, probing>>
        BY <3>2, Zenon DEF KickSuccess, Throw
      <4> QED BY <1>0, <4>1, <4>2 DEF Globals, probing
    <3> QED BY <2>3, <3>1, <3>2
  <2>4. CASE DeviceLockBall(d)
    <3>1. live_balls' \in 0 .. Byte - 1
      BY <1>0, <2>4 DEF DeviceLockBall, Globals
    <3>2. UNCHANGED <<missing_balls, game, device_game_start_errors, probing>>
      BY <2>4 DEF DeviceLockBall, Throw
    <3>3. UNCHANGED cpu
      BY <2>4 DEF DeviceLockBall, Thrown
    <3> QED BY <1>0, <3>1, <3>2, <3>3 DEF Globals, probing
  <2>5. CASE EntersDone(d) \/ HandlerSleeps(d) \/ HandlerWakes(d) \/ SolAllocWaits(d)
             \/ SolAlloc(d) \/ SolFree(d)
    BY <1>0, <2>5 DEF EntersDone, HandlerSleeps, HandlerWakes, SolAllocWaits, SolAlloc, SolFree,
         Globals, table, play, probing
  <2>6. CASE Finish(d) \/ Delay(d) \/ KickAttempt(d)
    <3>1. missing_balls' \in 0 .. Byte - 1 /\ cpu' \in {d, Nobody}
      BY <2>6, MissingType DEF Finish, Delay, KickAttempt, Decide
    <3>2. UNCHANGED <<live_balls, game, device_game_start_errors, probing>>
      BY <2>6, Zenon DEF Finish, Delay, KickAttempt, Decide, play
    <3> QED BY <1>0, <3>1, <3>2 DEF Globals, probing
  <2> QED BY <1>7, <2>1, <2>2, <2>3, <2>4, <2>5, <2>6 DEF Update
<1> QED BY <1>1, <1>2, <1>3, <1>4, <1>5, <1>6, <1>7 DEF Next

-----------------------------------------------------------------------------
(* The device table and the update tasks.                                  *)
LEMMA MinOfTwo ==
  ASSUME NEW a \in Int, NEW b \in Int
  PROVE  Min({a, b}) = IF a <= b THEN a ELSE b
<1> DEFINE m == IF a <= b THEN a ELSE b
<1>1. m \in {a, b} /\ \A y \in {a, b} : m <= y
  OBVIOUS
<1>2. \A z \in {a, b} : (\A y \in {a, b} : z <= y) => z = m
  OBVIOUS
<1> HIDE DEF m
<1>3. (CHOOSE z \in {a, b} : \A y \in {a, b} : z <= y) = m
  BY <1>1, <1>2
<1> QED BY <1>3 DEF Min, m

(* A request changes nothing, or starts the count of errors again.         *)
LEMMA RequestFacts ==
  ASSUME NEW x \in Record, NEW n \in Nat
  PROVE  /\ RequestedTimes(x, n) \in Record
         /\ RequestedTimes(x, n) = x \/ RequestedTimes(x, n).kick_errors = 0
<1>1. x.actual \in Int /\ x.kicks_needed \in Int
  BY Fields
<1>2. KickableCount(x) \in Int
  BY <1>1, Wraps, Numbers DEF KickableCount
<1> DEFINE v == Min({n, KickableCount(x)})
           k == (x.kicks_needed + v) % Byte
<1>3. v \in Int
  BY <1>2, MinOfTwo
<1>4. k \in 0 .. Byte - 1
  BY <1>1, <1>3, Wraps
<1>5. RequestedTimes(x, n) = IF v = 0 THEN x ELSE [x EXCEPT !.kicks_needed = k, !.kick_errors = 0]
  BY DEF RequestedTimes
<1> HIDE DEF v, k
<1>6. 0 \in 0 .. Byte - 1
  BY Numbers
<1> QED BY <1>4, <1>5, <1>6 DEF Record

(* A step of one update task changes what the table says of its device.    *)
Only(f, g, d) == g = [f EXCEPT ![d] = g[d]]

LEMMA OneChanges ==
  ASSUME NEW x, NEW p, NEW t, TableOf(x, p, t), NEW d \in Devices, NEW y, NEW q, NEW u,
         Only(x, y, d), Only(p, q, d), Only(t, u, d), Fine(d, y[d], q[d], u[d])
  PROVE  TableOf(y, q, u)
<1>1. y[d] \in Record /\ q[d] \in Phases /\ u[d] \in 0 .. NumBalls
  BY DEF Fine
<1>2. y \in [Devices -> Record] /\ q \in [Devices -> Phases] /\ u \in [Devices -> 0 .. NumBalls]
  BY <1>1 DEF Only, TableOf, Counts
<1>3. ASSUME NEW e \in Devices PROVE Fine(e, y[e], q[e], u[e])
  <2>1. CASE e = d
    BY <2>1
  <2>2. CASE e # d
    <3>1. y[e] = x[e] /\ q[e] = p[e] /\ u[e] = t[e]
      BY <2>2 DEF Only, TableOf, Counts
    <3> QED BY <3>1 DEF TableOf
  <2> QED BY <2>1, <2>2
<1> QED BY <1>2, <1>3 DEF TableOf, Counts

LEMMA Unchanging == ASSUME NEW f, NEW S, NEW d \in Devices, f \in [Devices -> S] PROVE Only(f, f, d)
  BY DEF Only

LEMMA RecountKeepsTable ==
  ASSUME DeviceInv, NEW d \in Devices,
         CountSame(d) \/ SurpriseRelease(d) \/ CountRose(d) \/ KickFailed(d)
         \/ KickGivenUp(d) \/ KickWorked(d)
  PROVE  Table'
<1> DEFINE x == dev[d]
<1>0. /\ dev \in [Devices -> Record] /\ at \in [Devices -> Phases] /\ todo \in Counts
      /\ Fine(d, x, at[d], todo[d]) /\ TableOf(dev, at, todo)
      /\ ball[d] \in 0 .. NumBalls
  BY DEF DeviceInv, Table, TableOf, Physical, Counts
<1>1. /\ x \in Record /\ x.actual \in 0 .. NumBalls /\ x.kicks_needed \in 0 .. 255
      /\ x.kick_errors \in 0 .. 255 /\ x.kick_errors <= MaxErrors[d] /\ todo[d] \in 0 .. NumBalls
      /\ x.kick_errors = MaxErrors[d] => x.kicks_needed = 0
      /\ MaxErrors[d] \in 1 .. 255 /\ NumBalls \in 1 .. 15
  BY <1>0, Fields, Numbers DEF Fine
<1>2. SUFFICES /\ Only(dev, dev', d) /\ Only(at, at', d) /\ Only(todo, todo', d)
               /\ Fine(d, dev'[d], at'[d], todo'[d])
  BY <1>0, OneChanges DEF Table
<1>3. Only(dev, dev', d) /\ Only(at, at', d) /\ Only(todo, todo', d)
  <2>1. Only(dev, dev', d)
    BY <1>0 DEF CountSame, SurpriseRelease, CountRose, KickFailed, KickGivenUp, KickWorked,
                Recounted, Only
  <2>2. Only(at, at', d) /\ Only(todo, todo', d)
    BY <1>0 DEF CountSame, SurpriseRelease, CountRose, KickFailed, KickGivenUp, KickWorked,
                Goto, Only, Counts
  <2> QED BY <2>1, <2>2
<1>4. CASE CountSame(d) \/ SurpriseRelease(d) \/ CountRose(d) \/ KickWorked(d)
  <2>1. dev'[d] = [x EXCEPT !.actual = ball[d]]
    BY <1>0, <1>4 DEF CountSame, SurpriseRelease, CountRose, KickWorked, Recounted
  <2>2. dev'[d] \in Record /\ dev'[d].kicks_needed = x.kicks_needed /\ dev'[d].kick_errors = x.kick_errors
    BY <1>0, <1>1, <2>1 DEF Record
  <2>3. at'[d] \in Phases /\ todo'[d] \in 0 .. NumBalls
        /\ (at'[d] \in {"success", "kicked"} => todo'[d] <= x.kicks_needed)
    <3>1. CASE CountSame(d) \/ SurpriseRelease(d)
      BY <1>0, <1>1, <3>1 DEF CountSame, SurpriseRelease, Goto, Phases
    <3>2. CASE CountRose(d)
      <4>1. at'[d] = "enter" /\ todo'[d] = ball[d] - x.actual /\ ball[d] > x.actual
        BY <1>0, <3>2 DEF CountRose, Before, Counts
      <4> QED BY <1>0, <1>1, <4>1 DEF Phases
    <3>3. CASE KickWorked(d)
      <4>1. /\ at'[d] = "success" /\ todo'[d] = Min({x.actual - ball[d], x.kicks_needed})
            /\ ball[d] < x.actual
        BY <1>0, <3>3 DEF KickWorked, Before, Counts
      <4>2. x.actual - ball[d] \in Int /\ x.kicks_needed \in Int
        BY <1>0, <1>1
      <4>3. Min({x.actual - ball[d], x.kicks_needed})
              = IF x.actual - ball[d] <= x.kicks_needed THEN x.actual - ball[d] ELSE x.kicks_needed
        BY <4>2, MinOfTwo
      <4> QED BY <1>0, <1>1, <4>1, <4>3 DEF Phases
    <3> QED BY <1>4, <3>1, <3>2, <3>3
  <2> QED BY <1>1, <1>3, <2>2, <2>3 DEF Fine
<1>5. CASE KickFailed(d)
  <2>1. /\ dev'[d] = [x EXCEPT !.actual = ball[d], !.kick_errors = x.kick_errors + 1]
        /\ x.kicks_needed > 0 /\ x.kick_errors + 1 # MaxErrors[d]
    BY <1>0, <1>5 DEF KickFailed, Recounted, Releasing, Record
  <2>2. at'[d] = "retry" /\ todo'[d] = todo[d]
    BY <1>0, <1>5 DEF KickFailed, Goto
  <2>3. x.kick_errors + 1 < MaxErrors[d] /\ x.kick_errors + 1 \in 0 .. Byte - 1
    <3>1. x.kick_errors # MaxErrors[d]
      BY <1>1, <2>1
    <3> DEFINE e == x.kick_errors
               m == MaxErrors[d]
    <3>2. e \in 0 .. 255 /\ m \in 1 .. 255 /\ e <= m /\ e # m /\ e + 1 # m
      BY <1>1, <2>1, <3>1
    <3> HIDE DEF e, m
    <3>3. e + 1 < m /\ e + 1 \in 0 .. 255
      BY <3>2
    <3> QED BY <3>3, Numbers DEF e, m
  <2>4. dev'[d] \in Record /\ dev'[d].kick_errors = x.kick_errors + 1
    BY ZenonT(60), <1>0, <1>1, <2>1, <2>3 DEF Record
  <2> QED BY <1>1, <1>3, <2>2, <2>3, <2>4 DEF Fine, Phases
<1>6. CASE KickGivenUp(d)
  <2>1. /\ dev'[d] = [x EXCEPT !.actual = ball[d], !.kick_errors = x.kick_errors + 1,
                               !.kicks_needed = 0, !.state = "idle"]
        /\ x.kick_errors + 1 = MaxErrors[d]
    BY <1>0, <1>6 DEF KickGivenUp, Recounted, Record
  <2>2. at'[d] = "decide" /\ todo'[d] = todo[d]
    BY <1>0, <1>6 DEF KickGivenUp, Goto
  <2>3. x.kick_errors + 1 \in 0 .. Byte - 1 /\ 0 \in 0 .. Byte - 1
    BY <1>1, <2>1, Numbers
  <2>4. dev'[d] \in Record /\ dev'[d].kick_errors = MaxErrors[d] /\ dev'[d].kicks_needed = 0
    <3> DEFINE y == [x EXCEPT !.actual = ball[d], !.kick_errors = x.kick_errors + 1]
    <3>1. y \in Record /\ y.kick_errors = MaxErrors[d]
      BY <1>0, <1>1, <2>1, <2>3 DEF Record
    <3>2. dev'[d] = [y EXCEPT !.kicks_needed = 0, !.state = "idle"]
      BY <2>1
    <3> HIDE DEF y
    <3> QED BY <2>3, <3>1, <3>2 DEF Record
  <2> QED BY <1>1, <1>3, <2>2, <2>4 DEF Fine, Phases
<1> QED BY <1>4, <1>5, <1>6

(* What every proof below starts from, for one device.                     *)
LEMMA TableFacts ==
  ASSUME DeviceInv, NEW d \in Devices
  PROVE  /\ dev \in [Devices -> Record] /\ at \in [Devices -> Phases]
         /\ todo \in [Devices -> 0 .. NumBalls]
         /\ TableOf(dev, at, todo) /\ Fine(d, dev[d], at[d], todo[d])
         /\ Only(dev, dev, d) /\ Only(at, at, d) /\ Only(todo, todo, d)
         /\ dev[d] \in Record /\ at[d] \in Phases /\ todo[d] \in 0 .. NumBalls
         /\ ball[d] \in 0 .. NumBalls /\ NumBalls \in 1 .. 15
         /\ dev[d].kicks_needed \in 0 .. 255 /\ dev[d].kick_errors \in 0 .. 255
         /\ MaxErrors[d] \in 1 .. 255 /\ 0 \in 0 .. NumBalls
<1>1. /\ dev \in [Devices -> Record] /\ at \in [Devices -> Phases]
      /\ todo \in [Devices -> 0 .. NumBalls] /\ TableOf(dev, at, todo)
      /\ ball[d] \in 0 .. NumBalls
  BY DEF DeviceInv, Table, TableOf, Physical, Counts
<1>2. Fine(d, dev[d], at[d], todo[d])
  BY <1>1 DEF TableOf
<1>3. dev[d] \in Record /\ at[d] \in Phases /\ todo[d] \in 0 .. NumBalls
  BY <1>1
<1>4. Only(dev, dev, d) /\ Only(at, at, d) /\ Only(todo, todo, d)
  BY <1>1 DEF Only
<1>5. dev[d].kicks_needed \in 0 .. 255 /\ dev[d].kick_errors \in 0 .. 255
  BY <1>3, Fields
<1> QED BY <1>1, <1>2, <1>3, <1>4, <1>5, Numbers

LEMMA EventsKeepTable ==
  ASSUME DeviceInv, NEW d \in Devices,
         EnterUnheard(d) \/ EntersDone(d) \/ KickSuccess(d) \/ KickCounted(d)
         \/ HandlerSleeps(d) \/ HandlerWakes(d)
  PROVE  Table'
<1> DEFINE x == dev[d]
<1>0. TableOf(dev, at, todo) /\ Fine(d, x, at[d], todo[d])
  BY TableFacts
<1>1. SUFFICES /\ Only(dev, dev', d) /\ Only(at, at', d) /\ Only(todo, todo', d)
               /\ Fine(d, dev'[d], at'[d], todo'[d])
  BY <1>0, OneChanges DEF Table
<1>2. CASE EnterUnheard(d)
  <2>1. /\ dev' = dev /\ at' = at /\ todo' = [todo EXCEPT ![d] = todo[d] - 1]
        /\ todo[d] > 0 /\ at[d] = "enter"
    BY <1>2 DEF EnterUnheard, Throw, Thrown, table
  <2>2. todo'[d] = todo[d] - 1 /\ Only(todo, todo', d)
    BY ZenonT(60), <2>1, TableFacts DEF Only
  <2> QED BY <1>0, <2>1, <2>2, TableFacts DEF Fine
<1>3. CASE EntersDone(d)
  <2>1. dev' = dev /\ at' = [at EXCEPT ![d] = "decide"] /\ todo' = todo
    BY <1>3 DEF EntersDone, Goto, table
  <2>2. at'[d] = "decide" /\ Only(at, at', d)
    BY ZenonT(60), <2>1, TableFacts DEF Only
  <2> QED BY <1>0, <2>1, <2>2, TableFacts DEF Fine, Phases
<1>4. CASE KickSuccess(d)
  <2>1. dev' = dev /\ at' = [at EXCEPT ![d] = "kicked"] /\ todo' = todo /\ at[d] = "success"
    BY <1>4 DEF KickSuccess, Throw, Goto
  <2>2. at'[d] = "kicked" /\ Only(at, at', d)
    BY ZenonT(60), <2>1, TableFacts DEF Only
  <2> QED BY <1>0, <2>1, <2>2, TableFacts DEF Fine, Phases
<1>5. CASE KickCounted(d)
  <2> DEFINE k == (x.kicks_needed - 1) % Byte
             s == IF todo[d] = 1 THEN "idle" ELSE x.state
  <2>1. /\ dev' = [dev EXCEPT ![d] = [x EXCEPT !.kicks_needed = k, !.state = s]]
        /\ at[d] = "kicked" /\ todo[d] > 0
    BY <1>5, TableFacts DEF KickCounted, Throw, Record
  <2>2. k = x.kicks_needed - 1 /\ k \in 0 .. 255 /\ todo[d] - 1 <= k /\ todo[d] - 1 \in 0 .. NumBalls
    <3>1. todo[d] <= x.kicks_needed
      BY <1>0, <2>1 DEF Fine
    <3>2. todo[d] \in Nat /\ todo[d] > 0 /\ x.kicks_needed \in 0 .. 255 /\ NumBalls \in Nat
      BY <2>1, TableFacts
    <3>3. x.kicks_needed - 1 \in 0 .. 255
      BY <3>1, <3>2
    <3> HIDE DEF x
    <3>4. k = x.kicks_needed - 1
      BY <3>3, Numbers
    <3> HIDE DEF k
    <3> QED BY <3>1, <3>2, <3>3, <3>4, TableFacts
  <2>3. s \in {"idle", "releasing"}
    BY TableFacts, Fields
  <2> HIDE DEF k, s
  <2>4. Only(dev, dev', d) /\ dev'[d] = [x EXCEPT !.kicks_needed = k, !.state = s]
    BY <2>1, TableFacts DEF Only
  <2>5. dev'[d] \in Record /\ dev'[d].kicks_needed = k /\ dev'[d].kick_errors = x.kick_errors
    <3> DEFINE y == [x EXCEPT !.kicks_needed = k]
    <3>1. y \in Record /\ y.kicks_needed = k /\ y.kick_errors = x.kick_errors
      <4>1. x \in Record /\ k \in 0 .. Byte - 1
        BY <2>2, TableFacts, Numbers
      <4> QED BY <4>1 DEF Record
    <3>2. dev'[d] = [y EXCEPT !.state = s]
      BY <2>4
    <3> HIDE DEF x, y
    <3> QED BY <2>3, <3>1, <3>2 DEF Record
  <2>6. /\ Only(at, at', d) /\ Only(todo, todo', d) /\ todo'[d] = todo[d] - 1
        /\ at'[d] \in {"decide", "success"}
    BY ZenonT(60), <1>5, TableFacts DEF KickCounted, Only
  <2>7. x.kicks_needed = 0 => FALSE
    BY <2>2, TableFacts
  <2> QED BY <1>0, <2>2, <2>4, <2>5, <2>6, <2>7, TableFacts DEF Fine, Phases
<1>6. CASE HandlerSleeps(d) \/ HandlerWakes(d)
  <2>1. dev' = dev /\ at' = at /\ todo' = todo
    BY <1>6 DEF HandlerSleeps, HandlerWakes, table
  <2> QED BY <1>0, <2>1, TableFacts
<1> QED BY <1>2, <1>3, <1>4, <1>5, <1>6

LEMMA DecideKeepsTable ==
  ASSUME DeviceInv, NEW d \in Devices,
         Finish(d) \/ Delay(d) \/ KickAttempt(d) \/ SolAllocWaits(d) \/ SolAlloc(d) \/ SolFree(d)
         \/ DeviceSwHandler(d)
  PROVE  Table'
<1> DEFINE x == dev[d]
<1>0. TableOf(dev, at, todo) /\ Fine(d, x, at[d], todo[d])
  BY TableFacts
<1>1. SUFFICES /\ Only(dev, dev', d) /\ Only(at, at', d) /\ Only(todo, todo', d)
               /\ Fine(d, dev'[d], at'[d], todo'[d])
  BY <1>0, OneChanges DEF Table
<1>2. CASE Finish(d)
  <2>1. /\ dev' = [dev EXCEPT ![d] = [x EXCEPT !.kicks_needed = 0, !.actual = ball[d]]]
        /\ todo' = todo
    BY <1>2, TableFacts DEF Finish, Goto, Record
  <2>2. at'[d] \in {"none", "settle"} /\ Only(at, at', d)
    BY ZenonT(60), <1>2, TableFacts DEF Finish, Goto, Only
  <2>3. Only(dev, dev', d) /\ dev'[d] = [x EXCEPT !.kicks_needed = 0, !.actual = ball[d]]
    BY <2>1, TableFacts DEF Only
  <2>4. dev'[d] \in Record /\ dev'[d].kicks_needed = 0 /\ dev'[d].kick_errors = x.kick_errors
    <3> DEFINE y == [x EXCEPT !.kicks_needed = 0]
    <3>1. y \in Record /\ y.kicks_needed = 0 /\ y.kick_errors = x.kick_errors
      <4>1. x \in Record /\ 0 \in 0 .. Byte - 1
        BY TableFacts, Numbers
      <4> QED BY <4>1 DEF Record
    <3>2. dev'[d] = [y EXCEPT !.actual = ball[d]] /\ ball[d] \in 0 .. NumBalls
      BY <2>3, TableFacts
    <3> HIDE DEF y
    <3> QED BY <3>1, <3>2 DEF Record
  <2> QED BY <1>0, <2>1, <2>2, <2>3, <2>4, TableFacts DEF Fine, Phases
<1>3. CASE Delay(d) \/ KickAttempt(d)
  <2> DEFINE y == Decided(x)
  <2>1. /\ y \in Record /\ y.kick_errors <= MaxErrors[d]
        /\ y.kick_errors = MaxErrors[d] => y.kicks_needed = 0
    <3>1. CASE Overfull(x)
      <4>1. y = [x EXCEPT !.kicks_needed = 1, !.kick_errors = 0]
        BY <3>1 DEF Decided
      <4>2. y \in Record /\ y.kick_errors = 0
        <5> DEFINE z == [x EXCEPT !.kicks_needed = 1]
        <5>1. z \in Record
          <6>1. x \in Record /\ 1 \in 0 .. Byte - 1
            BY TableFacts, Numbers
          <6> QED BY <6>1 DEF Record
        <5>2. y = [z EXCEPT !.kick_errors = 0] /\ 0 \in 0 .. Byte - 1
          BY <4>1, Numbers
        <5> HIDE DEF y, z
        <5> QED BY <5>1, <5>2 DEF Record
      <4>3. MaxErrors[d] \in 1 .. 255
        BY TableFacts
      <4> HIDE DEF y
      <4> QED BY <4>2, <4>3
    <3>2. CASE ~ Overfull(x)
      <4>1. y = x
        BY <3>2 DEF Decided
      <4> QED BY <1>0, <4>1 DEF Fine
    <3> QED BY <3>1, <3>2
  <2>2. dev' = [dev EXCEPT ![d] = y] \/ dev' = [dev EXCEPT ![d] = [y EXCEPT !.state = "releasing"]]
    BY <1>3 DEF Delay, KickAttempt
  <2>3. at'[d] \in {"settle", "attempt"} /\ Only(at, at', d) /\ todo' = todo
    BY <1>3, TableFacts DEF Delay, KickAttempt, Goto, Only
  <2> HIDE DEF y
  <2>4. Only(dev, dev', d) /\ (dev'[d] = y \/ dev'[d] = [y EXCEPT !.state = "releasing"])
    BY <2>2, TableFacts DEF Only
  <2>5. /\ dev'[d] \in Record /\ dev'[d].kicks_needed = y.kicks_needed
        /\ dev'[d].kick_errors = y.kick_errors
    BY <2>1, <2>4 DEF Record
  <2> QED BY <2>1, <2>3, <2>4, <2>5, TableFacts DEF Fine, Phases
<1>4. CASE SolAllocWaits(d)
  <2>1. dev' = dev /\ at' = at /\ todo' = todo
    BY <1>4 DEF SolAllocWaits, table
  <2> QED BY <1>0, <2>1, TableFacts
<1>5. CASE SolAlloc(d) \/ SolFree(d) \/ DeviceSwHandler(d)
  <2>1. dev' = dev /\ todo' = todo
    BY <1>5 DEF SolAlloc, SolFree, DeviceSwHandler, Goto, table
  <2>2. Only(at, at', d) /\ at'[d] \in {at[d], "pulse", "settle"}
    BY <1>5, TableFacts DEF SolAlloc, SolFree, DeviceSwHandler, Goto, Only
  <2> QED BY <1>0, <2>1, <2>2, TableFacts DEF Fine, Phases
<1> QED BY <1>2, <1>3, <1>4, <1>5

(* A request, on a record whose device has not given up or has forgotten   *)
(* that it had.                                                            *)
LEMMA RequestFine ==
  ASSUME NEW d \in Devices, NEW x, NEW n \in Nat, NEW p, NEW q \in Phases, NEW t, NEW u \in 0 .. NumBalls,
         Fine(d, x, p, t), q \notin {"success", "kicked"}
  PROVE  Fine(d, RequestedTimes(x, n), q, u)
<1> DEFINE y == RequestedTimes(x, n)
<1>1. y \in Record /\ (y = x \/ y.kick_errors = 0)
  BY RequestFacts DEF Fine
<1>2. MaxErrors[d] \in 1 .. 255
  BY Numbers
<1> HIDE DEF y
<1>3. y.kick_errors <= MaxErrors[d] /\ (y.kick_errors = MaxErrors[d] => y.kicks_needed = 0)
  BY <1>1, <1>2 DEF Fine
<1>4. Fine(d, y, q, u)
  BY <1>1, <1>3 DEF Fine
<1> QED BY <1>4 DEF y

LEMMA TroughKeepsTable == ASSUME DeviceInv, TroughEnter \/ StartBall PROVE Table'
<1> DEFINE x == dev[Trough]
           t == todo[Trough]
<1>0. /\ Trough \in Devices /\ TableOf(dev, at, todo) /\ Fine(Trough, x, at[Trough], t)
      /\ at[Trough] \in Phases /\ t \in 0 .. NumBalls /\ 0 \in 0 .. NumBalls
  BY Numbers, TableFacts
<1>1. SUFFICES /\ Only(dev, dev', Trough) /\ Only(at, at', Trough) /\ Only(todo, todo', Trough)
               /\ Fine(Trough, dev'[Trough], at'[Trough], todo'[Trough])
  BY <1>0, OneChanges DEF Table
<1>2. Only(dev, dev', Trough) /\ dev'[Trough] \in {x, RequestedTimes(x, 1)}
  <2>1. dev' \in {dev, [dev EXCEPT ![Trough] = RequestedTimes(x, 1)]}
    BY DEF TroughEnter, RemoveMissing, RemoveNothing, BallSaved, DrainMultiball, ServeAgain,
           EndBall, StartBall, Requested
  <2> QED BY <1>0, <2>1, TableFacts DEF Only
<1>3. /\ Only(at, at', Trough) /\ Only(todo, todo', Trough)
      /\ at'[Trough] \in Phases /\ at'[Trough] \notin {"success", "kicked"}
      /\ todo'[Trough] \in 0 .. NumBalls
  <2>1. CASE EndBall \/ StartBall
    <3>1. \E p \in {"none", "settle"} : /\ at' = [at EXCEPT ![Trough] = p]
                                        /\ todo' = [todo EXCEPT ![Trough] = 0]
      BY <2>1 DEF EndBall, StartBall, Restart
    <3>2. PICK p \in {"none", "settle"} : /\ at' = [at EXCEPT ![Trough] = p]
                                          /\ todo' = [todo EXCEPT ![Trough] = 0]
      BY <3>1
    <3>3. at'[Trough] = p /\ todo'[Trough] = 0
      BY <1>0, <3>2, TableFacts
    <3>4. Only(at, at', Trough) /\ Only(todo, todo', Trough)
      BY <3>2, <3>3 DEF Only
    <3> QED BY <1>0, <3>3, <3>4 DEF Phases
  <2>2. CASE TroughEnter /\ ~ EndBall
    <3>1. at' = at /\ todo' = [todo EXCEPT ![Trough] = t - 1] /\ at[Trough] = "enter" /\ t > 0
      BY <2>2 DEF TroughEnter, RemoveMissing, RemoveNothing, BallSaved, DrainMultiball,
           ServeAgain, BallDrain, Throw, Thrown
    <3>2. todo'[Trough] = t - 1 /\ Only(todo, todo', Trough)
      BY ZenonT(60), <1>0, <3>1, TableFacts DEF Only
    <3>3. t - 1 \in 0 .. NumBalls
      BY <1>0, <3>1, Numbers
    <3> QED BY <1>0, <3>1, <3>2, <3>3, TableFacts DEF Phases
  <2> QED BY <2>1, <2>2
<1>4. CASE dev'[Trough] = x
  BY <1>0, <1>2, <1>3, <1>4 DEF Fine
<1>5. CASE dev'[Trough] = RequestedTimes(x, 1)
  <2>1. Fine(Trough, RequestedTimes(x, 1), at'[Trough], todo'[Trough])
    <3> HIDE DEF x, t
    <3> QED BY <1>0, <1>3, RequestFine
  <2> QED BY <1>2, <1>3, <1>5, <2>1
<1> QED BY <1>2, <1>3, <1>4, <1>5

LEMMA RequestsKeepTable == ASSUME DeviceInv, Requests PROVE Table'
<1>1. ASSUME NEW d \in Devices, NEW y \in Record, y.kick_errors <= MaxErrors[d],
             y.kick_errors = MaxErrors[d] => y.kicks_needed = 0,
             dev' = [dev EXCEPT ![d] = y], Restart(d)
      PROVE  Table'
  <2>1. /\ Only(dev, dev', d) /\ dev'[d] = y /\ Only(at, at', d) /\ at'[d] = "settle"
        /\ Only(todo, todo', d) /\ todo'[d] = 0
    BY ZenonT(60), <1>1, TableFacts DEF Only, Restart
  <2>2. Fine(d, y, "settle", 0)
    BY <1>1, TableFacts DEF Fine, Phases
  <2> QED BY <2>1, <2>2, TableFacts, OneChanges DEF Table
<1>2. ASSUME NEW n \in 1 .. NumBalls, SetBallCount(n) PROVE Table'
  <2> DEFINE a == Min({n - live_balls, dev[Trough].actual})
             y == RequestedTimes(dev[Trough], a)
  <2>1. dev' = [dev EXCEPT ![Trough] = y] /\ Restart(Trough) /\ a > 0
    BY <1>2 DEF SetBallCount
  <2>2. n - live_balls \in Int /\ dev[Trough].actual \in Int /\ dev[Trough] \in Record
    BY SMTT(40), Numbers, TableFacts, Fields DEF DeviceInv, Globals
  <2>3. a \in Nat
    BY <2>1, <2>2, MinOfTwo
  <2> HIDE DEF a
  <2>4. y \in Record /\ (y = dev[Trough] \/ y.kick_errors = 0)
    BY <2>2, <2>3, RequestFacts
  <2>5. Fine(Trough, dev[Trough], at[Trough], todo[Trough]) /\ MaxErrors[Trough] \in 1 .. 255
    BY Numbers, TableFacts
  <2> HIDE DEF y
  <2>6. y.kick_errors <= MaxErrors[Trough] /\ (y.kick_errors = MaxErrors[Trough] => y.kicks_needed = 0)
    BY <2>4, <2>5 DEF Fine
  <2> QED BY <1>1, <2>1, <2>4, <2>6, Numbers
<1>3. ASSUME NEW d \in Devices, DeviceUnlockBall(d) PROVE Table'
  <2> DEFINE x == [dev[d] EXCEPT !.max_count = dev[d].max_count - 1]
             y == RequestedTimes(x, 1)
  <2>1. dev' = [dev EXCEPT ![d] = y] /\ Restart(d) /\ dev[d].max_count > 0
    BY <1>3 DEF DeviceUnlockBall, Requested
  <2>2. /\ x \in Record /\ x.kick_errors = dev[d].kick_errors
        /\ x.kicks_needed = dev[d].kicks_needed
    <3>1. dev[d] \in Record /\ dev[d].max_count - 1 \in 0 .. Byte - 1
      BY <2>1, TableFacts, Fields, Numbers
    <3> QED BY <3>1 DEF Record
  <2>3. Fine(d, dev[d], at[d], todo[d]) /\ MaxErrors[d] \in 1 .. 255
    BY TableFacts
  <2> HIDE DEF x
  <2>4. y \in Record /\ (y = x \/ y.kick_errors = 0)
    BY <2>2, RequestFacts
  <2> HIDE DEF y
  <2>5. y.kick_errors <= MaxErrors[d] /\ (y.kick_errors = MaxErrors[d] => y.kicks_needed = 0)
    BY <2>2, <2>3, <2>4 DEF Fine
  <2> QED BY <1>1, <2>1, <2>4, <2>5
<1>4. ASSUME NEW d \in Devices, DeviceRequestEmpty(d) PROVE Table'
  <2> DEFINE k == (dev[d].kicks_needed + KickableCount(dev[d])) % Byte
             y == [dev[d] EXCEPT !.kicks_needed = k, !.kick_errors = 0, !.max_count = InitMax[d]]
  <2>1. dev' = [dev EXCEPT ![d] = y] /\ Restart(d)
    BY <1>4 DEF DeviceRequestEmpty, Emptied
  <2>2. dev[d] \in Record /\ MaxErrors[d] \in 1 .. 255 /\ InitMax[d] \in 0 .. Byte - 1 /\ 0 \in 0 .. Byte - 1
    BY TableFacts, Numbers
  <2>3. k \in 0 .. Byte - 1
    <3>1. dev[d].kicks_needed \in Int /\ dev[d].actual \in Int
      BY SMTT(40), <2>2, Fields
    <3>2. KickableCount(dev[d]) \in Int
      BY <3>1, Wraps, Numbers DEF KickableCount
    <3> QED BY <3>1, <3>2, Wraps
  <2> HIDE DEF k
  <2>4. y \in Record /\ y.kick_errors = 0
    <3> DEFINE z == [dev[d] EXCEPT !.kicks_needed = k]
    <3>1. z \in Record
      BY <2>2, <2>3 DEF Record
    <3> HIDE DEF z
    <3>2. [z EXCEPT !.kick_errors = 0] \in Record /\ [z EXCEPT !.kick_errors = 0].kick_errors = 0
      BY <2>2, <3>1 DEF Record
    <3> DEFINE w == [z EXCEPT !.kick_errors = 0]
    <3>3. w \in Record /\ w.kick_errors = 0
      BY <3>2
    <3>4. y = [w EXCEPT !.max_count = InitMax[d]]
      BY DEF z
    <3> HIDE DEF w, y
    <3> QED BY <2>2, <3>3, <3>4 DEF Record
  <2> HIDE DEF y
  <2>5. y.kick_errors <= MaxErrors[d] /\ y.kick_errors # MaxErrors[d]
    BY <2>2, <2>4
  <2> QED BY <1>1, <2>1, <2>4, <2>5
<1> QED BY <1>2, <1>3, <1>4 DEF Requests

LEMMA LockEffect ==
  ASSUME DeviceInv, NEW d \in Devices, DeviceLockBall(d)
  PROVE  LET y == [dev[d] EXCEPT !.max_count = dev[d].max_count + 1]
             mid == [dev EXCEPT ![d] = y]
             left == [todo EXCEPT ![d] = todo[d] - 1]
             r == RequestedTimes(dev[Trough], 1)
         IN  /\ at[d] = "enter" /\ todo[d] > 0 /\ d # Trough /\ dev[d].max_count < Size[d]
             /\ \/ at' = at /\ todo' = left /\ dev' = mid
                \/ /\ at' = [at EXCEPT ![Trough] = "settle"]
                   /\ todo' = [left EXCEPT ![Trough] = 0]
                   /\ dev' = [mid EXCEPT ![Trough] = r]
<1> DEFINE y == [dev[d] EXCEPT !.max_count = dev[d].max_count + 1]
           mid == [dev EXCEPT ![d] = y]
           left == [todo EXCEPT ![d] = todo[d] - 1]
           r == RequestedTimes(dev[Trough], 1)
<1>1. /\ at[d] = "enter" /\ todo[d] > 0 /\ d # Trough /\ dev[d].max_count < Size[d]
      /\ \/ at' = at /\ todo' = left /\ dev' = mid
         \/ /\ at' = [at EXCEPT ![Trough] = "settle"]
            /\ todo' = [left EXCEPT ![Trough] = 0]
            /\ dev' = [mid EXCEPT ![Trough] = r]
  <2>1. CASE dev[Trough].actual > 0
    <3>1. /\ at[d] = "enter" /\ todo[d] > 0 /\ d # Trough /\ dev[d].max_count < Size[d]
          /\ at' = [at EXCEPT ![Trough] = "settle"]
          /\ todo' = [todo EXCEPT ![d] = @ - 1, ![Trough] = 0]
          /\ dev' = [dev EXCEPT ![d].max_count = @ + 1, ![Trough] = Requested(@)]
      BY <2>1 DEF DeviceLockBall, Throw
    <3>2. mid[Trough] = dev[Trough] /\ mid = [dev EXCEPT ![d].max_count = @ + 1]
      BY <3>1, TableFacts, Numbers
    <3>3. todo' = [left EXCEPT ![Trough] = 0] /\ dev' = [mid EXCEPT ![Trough] = r]
      BY <3>1, <3>2, TableFacts, Numbers DEF Requested
    <3> QED BY <3>1, <3>3
  <2>2. CASE ~ (dev[Trough].actual > 0)
    BY <2>2, TableFacts DEF DeviceLockBall, Throw
  <2> QED BY <2>1, <2>2
<1> QED BY <1>1

LEMMA LockKeepsTable == ASSUME DeviceInv, NEW d \in Devices, DeviceLockBall(d) PROVE Table'
<1> DEFINE y == [dev[d] EXCEPT !.max_count = dev[d].max_count + 1]
           mid == [dev EXCEPT ![d] = y]
           left == [todo EXCEPT ![d] = todo[d] - 1]
           r == RequestedTimes(dev[Trough], 1)
<1>1. /\ at[d] = "enter" /\ todo[d] > 0 /\ d # Trough /\ dev[d].max_count < Size[d]
      /\ \/ at' = at /\ todo' = left /\ dev' = mid
         \/ /\ at' = [at EXCEPT ![Trough] = "settle"]
            /\ todo' = [left EXCEPT ![Trough] = 0]
            /\ dev' = [mid EXCEPT ![Trough] = r]
  BY LockEffect
<1>2. /\ TableOf(dev, at, todo) /\ Fine(d, dev[d], at[d], todo[d]) /\ Trough \in Devices
      /\ Fine(Trough, dev[Trough], at[Trough], todo[Trough])
  BY TableFacts, Numbers
<1>3. Fine(d, y, at[d], todo[d] - 1)
  <2>1. dev[d] \in Record /\ dev[d].max_count + 1 \in 0 .. Byte - 1
    <3>1. dev[d] \in Record /\ Size[d] \in 1 .. 255
      BY TableFacts, Numbers
    <3>2. dev[d].max_count \in 0 .. 255
      BY <3>1, Fields
    <3> QED BY SMTT(40), <1>1, <3>1, <3>2, Numbers
  <2>2. y \in Record /\ y.kick_errors = dev[d].kick_errors /\ y.kicks_needed = dev[d].kicks_needed
    BY <2>1 DEF Record
  <2>3. todo[d] - 1 \in 0 .. NumBalls
    BY <1>1, TableFacts
  <2> HIDE DEF y
  <2> QED BY <1>1, <1>2, <2>2, <2>3 DEF Fine
<1>4. TableOf(mid, at, left)
  <2>1. Only(dev, mid, d) /\ mid[d] = y /\ Only(at, at, d) /\ Only(todo, left, d) /\ left[d] = todo[d] - 1
    BY ZenonT(60), TableFacts DEF Only
  <2> HIDE DEF mid, left, y
  <2> QED BY <1>2, <1>3, <2>1, OneChanges
<1>5. CASE at' = at /\ todo' = left /\ dev' = mid
  BY <1>4, <1>5 DEF Table
<1>6. CASE at' # at \/ todo' # left \/ dev' # mid
  <2>1. /\ at' = [at EXCEPT ![Trough] = "settle"]
        /\ todo' = [left EXCEPT ![Trough] = 0] /\ dev' = [mid EXCEPT ![Trough] = r]
    BY <1>1, <1>6
  <2>2. Fine(Trough, r, "settle", 0)
    <3>1. "settle" \in Phases /\ "settle" \notin {"success", "kicked"} /\ 0 \in 0 .. NumBalls
      BY TableFacts, Numbers DEF Phases
    <3> QED BY <1>2, <3>1, RequestFine
  <2> HIDE DEF mid, left, r, y
  <2>3. /\ Only(mid, dev', Trough) /\ dev'[Trough] = r
        /\ Only(at, at', Trough) /\ at'[Trough] = "settle"
        /\ Only(left, todo', Trough) /\ todo'[Trough] = 0
    BY <1>2, <1>4, <2>1 DEF Only, TableOf, Counts
  <2> QED BY <1>2, <1>4, <2>2, <2>3, OneChanges DEF Table
<1> QED BY <1>5, <1>6

LEMMA ProbeKeepsTable == ASSUME DeviceInv, DeviceProbe PROVE Table'
<1>1. /\ dev' = [d \in Devices |-> IF d \in Probed THEN Cleared(d) ELSE dev[d]]
      /\ at' = [d \in Devices |-> IF d \notin Probed THEN at[d]
                                  ELSE IF d \in Extra THEN "settle" ELSE "none"]
      /\ todo' = [d \in Devices |-> IF d \in Probed THEN 0 ELSE todo[d]]
  BY DEF DeviceProbe
<1>2. ASSUME NEW d \in Devices PROVE Fine(d, dev'[d], at'[d], todo'[d])
  <2>1. CASE d \notin Probed
    BY <1>1, <2>1, TableFacts
  <2>2. CASE d \in Probed
    <3>1. dev'[d] = Cleared(d) /\ at'[d] \in {"none", "settle"} /\ todo'[d] = 0
      BY <1>1, <2>2
    <3>2. Cleared(d) \in Record /\ Cleared(d).kick_errors = 0
      <4> DEFINE k == IF d \in Extra THEN 1 ELSE 0
                 w == [dev[d] EXCEPT !.actual = ball[d], !.max_count = InitMax[d]]
      <4>1. k \in 0 .. Byte - 1 /\ InitMax[d] \in 0 .. Byte - 1 /\ 0 \in 0 .. Byte - 1
        BY Numbers
      <4>2. dev[d] \in Record /\ ball[d] \in 0 .. NumBalls
        BY TableFacts
      <4>3. w \in Record
        BY <4>1, <4>2 DEF Record
      <4>4. Cleared(d) = [w EXCEPT !.kicks_needed = k, !.kick_errors = 0]
        BY DEF Cleared
      <4> HIDE DEF k, w
      <4> QED BY <4>1, <4>3, <4>4 DEF Record
    <3>3. MaxErrors[d] \in 1 .. 255 /\ 0 \in 0 .. NumBalls
      BY TableFacts
    <3> QED BY <3>1, <3>2, <3>3 DEF Fine, Phases
  <2> QED BY <2>1, <2>2
<1>3. \A d \in Devices : dev'[d] \in Record /\ at'[d] \in Phases /\ todo'[d] \in 0 .. NumBalls
  BY <1>2 DEF Fine
<1> QED BY <1>1, <1>2, <1>3 DEF Table, TableOf, Counts

LEMMA TableStep == ASSUME DeviceInv, Next PROVE Table'
<1>0. Table
  BY DEF DeviceInv
<1>1. CASE UNCHANGED <<dev, at, todo>>
  BY <1>0, <1>1 DEF Table
<1>2. CASE Playfield \/ Pulse
  BY <1>1, <1>2 DEF Playfield, Pulse, PulseKicks, PulseFails, BallEnters, BallEscapes,
       BallFallsBack, BallGone, SetValidPlayfield, KickoutLock, table, tasks
<1>3. CASE StartGame \/ StartRefused \/ StartIgnored \/ StopGame \/ AmodeStart
           \/ ProbeGivesUp \/ ProbeExit
  BY <1>1, <1>3 DEF StartGame, StartRefused, StartIgnored, StopGame, AmodeStart, ProbeGivesUp,
       ProbeExit, table, tasks
<1>4. ASSUME NEW d \in Devices, Update(d) \/ DeviceSwHandler(d) PROVE Table'
  BY <1>4, RecountKeepsTable, EventsKeepTable, DecideKeepsTable, LockKeepsTable DEF Update
<1> QED BY <1>2, <1>3, <1>4, TroughKeepsTable, RequestsKeepTable, ProbeKeepsTable
        DEF Next, Game, Probe

-----------------------------------------------------------------------------
LEMMA DeviceStart == Init => DeviceInv
<1> SUFFICES ASSUME Init PROVE DeviceInv
  OBVIOUS
<1>0. NumBalls \in Nat /\ 0 \in 0 .. NumBalls /\ 0 \in 0 .. Byte - 1
  BY Numbers
<1>1. Physical
  <2>1. ball \in Counts /\ lane \in Counts /\ moved = {} /\ Total(lane) = 0
    BY <1>0, TotalZero DEF Init, Counts
  <2>2. Total(ball) \in Nat /\ Total(ball) <= NumBalls
    BY <1>0, BallsFinite DEF Init, Loose
  <2> QED BY <1>0, <2>1, <2>2 DEF Physical
<1>2. Table
  <2> DEFINE x(d) == [actual |-> 0, max_count |-> InitMax[d], kicks_needed |-> 0,
                      kick_errors |-> 0, state |-> "idle"]
  <2>1. ASSUME NEW d \in Devices PROVE Fine(d, x(d), "none", 0)
    <3>1. x(d) \in Record
      BY <1>0, Numbers DEF Record
    <3>2. MaxErrors[d] \in 1 .. 255
      BY Numbers
    <3> QED BY <1>0, <3>1, <3>2 DEF Fine, Phases
  <2>2. dev = [d \in Devices |-> x(d)] /\ at = [d \in Devices |-> "none"] /\ todo = [d \in Devices |-> 0]
    BY DEF Init
  <2>3. \A d \in Devices : x(d) \in Record
    BY <2>1 DEF Fine
  <2> HIDE DEF x
  <2> QED BY <1>0, <2>1, <2>2, <2>3 DEF Table, TableOf, Counts, Phases
<1>3. Solenoid /\ Globals
  <2>1. MaxProbes \in Nat /\ Starts \in Nat
    BY DeviceAssumption
  <2> QED BY <1>0, <2>1 DEF Init, Solenoid, Globals
<1>4. Flags
  BY DEF Init, Flags
<1> QED BY <1>1, <1>2, <1>3, <1>4 DEF DeviceInv

LEMMA DeviceStep == DeviceInv /\ [Next]_vars => DeviceInv'
<1> SUFFICES ASSUME DeviceInv, [Next]_vars PROVE DeviceInv'
  OBVIOUS
<1>1. CASE Next
  BY <1>1, PhysicalStep, TableStep, SolenoidStep, GlobalsStep, FlagsStep DEF DeviceInv
<1>2. CASE UNCHANGED vars
  <2>1. UNCHANGED <<ball, lane, moved, dev, missing_balls, live_balls, at, todo, cpu, game,
                    valid_playfield, kickout_locks, device_game_start_errors, clean, probe, kicks,
                    req_lock, sol_pulse_timer, sol_pulsing>>
    BY <1>2, Zenon DEF vars, physical, table, tasks, play, probing, solenoid
  <2>2. Physical' /\ Solenoid' /\ Globals'
    BY <2>1 DEF DeviceInv, Physical, Solenoid, Globals
  <2>3. Table'
    BY <2>1 DEF DeviceInv, Table
  <2>4. Flags'
    BY <2>1, Zenon DEF DeviceInv, Flags
  <2> QED BY <2>2, <2>3, <2>4 DEF DeviceInv
<1> QED BY <1>1, <1>2

LEMMA DeviceInvariance == Spec => []DeviceInv
  BY DeviceStart, DeviceStep, PTL DEF Spec

(* Every variable of the ball tracking has its type, whatever the devices  *)
(* are: a device never counts more balls than there are, the errors of a   *)
(* kick stop at the device's limit, and no count leaves its byte.          *)
THEOREM TypeCorrect == Spec => []TypeOK
  BY DeviceInvariance, DeviceTypes, PTL

-----------------------------------------------------------------------------
(* The update tasks as users of the solenoid driver.  A task waits for its *)
(* pulse only while the lock is taken, and only one task does.             *)
Waiting(d) == at[d] = "pulse"
OneWaits == /\ \A d \in Devices : Waiting(d) => req_lock # Free
            /\ \A d, e \in Devices : Waiting(d) /\ Waiting(e) => d = e

(* Steps that leave the driver alone: no task starts to wait for a pulse,  *)
(* but one that does may be killed.                                        *)
Apart == UNCHANGED solenoid /\ \A d \in Devices : Waiting(d)' => Waiting(d)

LEMMA ApartFrom ==
  ASSUME DeviceInv, Next
  PROVE  Apart \/ Pulse \/ \E d \in Devices : SolAlloc(d) \/ SolFree(d)
<1>0. at \in [Devices -> Phases] /\ Trough \in Devices
  BY TableFacts, Numbers
<1>1. CASE Playfield
  BY <1>1 DEF Playfield, BallEnters, BallEscapes, BallFallsBack, BallGone, SetValidPlayfield,
              KickoutLock, tasks, Apart, Waiting
<1>2. CASE Game \/ Probe
  BY <1>0, <1>2 DEF Game, StartGame, StartRefused, StartIgnored, StartBall, StopGame, AmodeStart,
       Probe, DeviceProbe, ProbeGivesUp, ProbeExit, Restart, tasks, Apart, Waiting
<1>3. CASE TroughEnter
  BY <1>0, <1>3 DEF TroughEnter, RemoveMissing, RemoveNothing, BallSaved, DrainMultiball,
       ServeAgain, EndBall, BallDrain, Throw, Thrown, Apart, Waiting
<1>4. CASE Requests
  BY <1>0, <1>4 DEF Requests, SetBallCount, DeviceUnlockBall, DeviceRequestEmpty, Restart,
       Apart, Waiting
<1>5. ASSUME NEW d \in Devices, DeviceSwHandler(d) PROVE Apart
  BY <1>0, <1>5 DEF DeviceSwHandler, Apart, Waiting
<1>6. ASSUME NEW d \in Devices, Update(d), ~ SolAlloc(d), ~ SolFree(d) PROVE Apart
  <2>1. CASE CountSame(d) \/ SurpriseRelease(d) \/ CountRose(d) \/ KickFailed(d)
             \/ KickGivenUp(d) \/ KickWorked(d)
    BY <1>0, <2>1 DEF CountSame, SurpriseRelease, CountRose, KickFailed, KickGivenUp, KickWorked,
         Recount, Goto, Apart, Waiting
  <2>2. CASE EnterUnheard(d) \/ DeviceLockBall(d) \/ EntersDone(d) \/ KickSuccess(d)
             \/ KickCounted(d)
    <3>1. UNCHANGED solenoid
      BY <2>2, Zenon DEF EnterUnheard, DeviceLockBall, EntersDone, KickSuccess, KickCounted, Throw
    <3>2. \A e \in Devices : at'[e] = "pulse" => at[e] = "pulse"
      BY <1>0, <2>2 DEF EnterUnheard, DeviceLockBall, EntersDone, KickSuccess, KickCounted,
           Thrown, Goto
    <3> QED BY <3>1, <3>2 DEF Apart, Waiting
  <2>3. CASE HandlerSleeps(d) \/ HandlerWakes(d) \/ SolAllocWaits(d)
    BY <2>3 DEF HandlerSleeps, HandlerWakes, SolAllocWaits, Apart, Waiting
  <2>4. CASE Finish(d) \/ Delay(d) \/ KickAttempt(d)
    BY <1>0, <2>4 DEF Finish, Delay, KickAttempt, Decide, Goto, Apart, Waiting
  <2> QED BY <1>6, <2>1, <2>2, <2>3, <2>4 DEF Update
<1> QED BY <1>1, <1>2, <1>3, <1>4, <1>5, <1>6 DEF Next

LEMMA LockHeld == \A d \in Devices : Held(d) # Free /\ Done # Free
  BY DeviceAssumption DEF Held, Free, Done

LEMMA OneWaitsStep == DeviceInv /\ OneWaits /\ [Next]_vars => OneWaits'
<1> SUFFICES ASSUME DeviceInv, OneWaits, [Next]_vars PROVE OneWaits'
  OBVIOUS
<1>0. at \in [Devices -> Phases]
  BY TableFacts, Numbers
<1>1. CASE Apart
  BY <1>1 DEF Apart, OneWaits, Waiting, solenoid
<1>2. CASE Pulse
  <2>1. at' = at /\ (req_lock # Free => req_lock' # Free)
    BY <1>2, LockHeld, Numbers DEF Pulse, PulseKicks, PulseFails, PulseEnds, tasks
  <2> QED BY <2>1 DEF OneWaits, Waiting
<1>3. ASSUME NEW d \in Devices, SolAlloc(d) PROVE OneWaits'
  <2>1. /\ req_lock' # Free /\ \A e \in Devices : ~ Waiting(e)
        /\ at' = [at EXCEPT ![d] = "pulse"]
    BY <1>3, LockHeld DEF SolAlloc, Busy, Goto, OneWaits
  <2> QED BY <1>0, <2>1 DEF OneWaits, Waiting
<1>4. ASSUME NEW d \in Devices, SolFree(d) PROVE OneWaits'
  <2>1. at[d] = "pulse" /\ at' = [at EXCEPT ![d] = "settle"]
    BY <1>4 DEF SolFree, Goto
  <2> QED BY <1>0, <2>1 DEF OneWaits, Waiting
<1>5. CASE UNCHANGED vars
  BY <1>5 DEF vars, tasks, solenoid, OneWaits, Waiting
<1> QED BY <1>1, <1>2, <1>3, <1>4, <1>5, ApartFrom

LEMMA DriverInit == Init => Sol!Init
<1> SUFFICES ASSUME Init PROVE Sol!Init
  OBVIOUS
<1>1. [d \in Devices |-> UserAt(at[d])] = [d \in Devices |-> "none"]
  BY DEF Init, UserAt
<1>2. 0 .. 1 - 1 = {0}
  OBVIOUS
<1> QED BY <1>1, <1>2 DEF Init, Sol!Init, Sol!Free, Free, Sol!Slots

LEMMA DriverStep == DeviceInv /\ OneWaits /\ [Next]_vars => [Sol!Next]_(Sol!vars)
<1> SUFFICES ASSUME DeviceInv, OneWaits, [Next]_vars PROVE [Sol!Next]_(Sol!vars)
  OBVIOUS
<1> DEFINE u == [d \in Devices |-> UserAt(at[d])]
           v == [d \in Devices |-> UserAt(at'[d])]
<1>0. at \in [Devices -> Phases] /\ v = u'
  BY TableFacts, Numbers
<1>1. CASE Apart
  <2>1. UNCHANGED <<req_lock, sol_pulse_timer, sol_pulsing>>
    BY <1>1 DEF Apart, solenoid
  <2>2. CASE v = u
    BY <1>0, <2>1, <2>2 DEF Sol!vars, Sol!pulse, Sol!ring
  <2>3. CASE v # u
    <3>1. PICK d \in Devices : at[d] = "pulse" /\ at'[d] # "pulse"
      BY <1>1, <2>3 DEF Apart, Waiting, UserAt
    <3>2. \A e \in Devices : e # d => at[e] # "pulse" /\ at'[e] # "pulse"
      BY <1>1, <3>1 DEF Apart, OneWaits, Waiting
    <3>3. v = [u EXCEPT ![d] = "none"] /\ u[d] # "none"
      BY <3>1, <3>2 DEF UserAt
    <3>4. Sol!KillUser(d)
      BY <1>0, <2>1, <3>3 DEF Sol!KillUser, Sol!pulse, Sol!ring
    <3> QED BY <3>4 DEF Sol!Next, Sol!Sync
  <2> QED BY <2>2, <2>3
<1>2. CASE Pulse
  <2>1. /\ sol_pulse_timer = 1 /\ sol_pulse_timer' = 0 /\ at' = at /\ UNCHANGED sol_pulsing
        /\ req_lock' = IF req_lock = Free THEN Free ELSE Done
    BY <1>2 DEF Pulse, PulseKicks, PulseFails, PulseEnds, tasks
  <2>2. Sol!SolReqRtt
    <3>1. UNCHANGED <<sol_pulsing, u, Sol!ring>>
      BY <2>1 DEF Sol!ring
    <3>2. /\ sol_pulse_timer # 0 /\ sol_pulse_timer' = sol_pulse_timer - 1
          /\ req_lock' = IF sol_pulse_timer = 1 /\ req_lock # Sol!Free THEN Sol!Done ELSE req_lock
      <4>1. sol_pulse_timer # 0 /\ sol_pulse_timer' = sol_pulse_timer - 1
        BY <2>1
      <4>2. CASE req_lock = 0
        BY <2>1, <4>1, <4>2 DEF Sol!Free, Free
      <4>3. CASE req_lock # 0
        BY <2>1, <4>1, <4>3 DEF Sol!Free, Sol!Done, Free, Done
      <4> QED BY <4>2, <4>3
    <3> QED BY <3>1, <3>2 DEF Sol!SolReqRtt
  <2> QED BY <2>2 DEF Sol!Next
<1>3. ASSUME NEW d \in Devices, SolAlloc(d) PROVE Sol!Next
  <2>1. /\ at[d] = "attempt" /\ at' = [at EXCEPT ![d] = "pulse"] /\ ~ Busy
        /\ req_lock' = Held(d) /\ sol_pulsing' = d /\ sol_pulse_timer' = 1
    BY <1>3 DEF SolAlloc, Goto
  <2>2. u[d] = "none" /\ v = [u EXCEPT ![d] = "free"]
    BY <1>0, <2>1 DEF UserAt
  <2>3. Sol!SolAlloc(d)
    BY <1>0, <2>1, <2>2 DEF Sol!SolAlloc, Sol!Start, Sol!Busy, Busy, Sol!Free, Free, Sol!Held, Held,
         Sol!ring
  <2> QED BY <2>3 DEF Sol!Next, Sol!Sync
<1>4. ASSUME NEW d \in Devices, SolFree(d) PROVE Sol!Next
  <2>1. /\ at[d] = "pulse" /\ at' = [at EXCEPT ![d] = "settle"] /\ req_lock = Done
        /\ req_lock' = Free /\ UNCHANGED <<sol_pulse_timer, sol_pulsing>>
    BY <1>4 DEF SolFree, Goto
  <2>2. u[d] = "free" /\ v = [u EXCEPT ![d] = "none"]
    BY <1>0, <2>1 DEF UserAt
  <2>3. Sol!SolFree(d)
    BY <1>0, <2>1, <2>2 DEF Sol!SolFree, Sol!Free, Free, Sol!Done, Done, Sol!pulse, Sol!ring
  <2> QED BY <2>3 DEF Sol!Next, Sol!Sync
<1>5. CASE UNCHANGED vars
  BY <1>5 DEF vars, tasks, solenoid, Sol!vars, Sol!pulse, Sol!ring
<1> QED BY <1>1, <1>2, <1>3, <1>4, <1>5, ApartFrom

(* The update tasks of all devices, those killed in the middle of a kick   *)
(* included, use the driver as its module says: the lock is taken only     *)
(* from an idle driver and given back only by the task that took it, after *)
(* its pulse.                                                              *)
THEOREM UsesTheDriver == Spec => SolenoidSpec
<1>1. Init => OneWaits
  BY DEF Init, OneWaits, Waiting
<1>2. DeviceInv /\ OneWaits /\ [Next]_vars => OneWaits'
  BY OneWaitsStep
<1>3. Init => Sol!Init
  BY DriverInit
<1>4. DeviceInv /\ OneWaits /\ [Next]_vars => [Sol!Next]_(Sol!vars)
  BY DriverStep
<1> QED BY <1>1, <1>2, <1>3, <1>4, DeviceInvariance, PTL DEF Spec, SolenoidSpec, Sol!Spec

-----------------------------------------------------------------------------
(* Pending kicks.  The difference of device_kickable_count is taken of two *)
(* bytes; that it never wraps depends on every other count of device.c.    *)
(* Of one device with b balls, record x, update task at p with t events    *)
(* left, when c has the CPU and the coil of s is being pulsed:             *)
(*   - a task in the middle of its events has the CPU and a true count;    *)
(*   - a device whose coil is pulsed, or about to be, is releasing, and    *)
(*     its task is where no recount comes before the pulse has ended;      *)
(*   - an idle device loses no ball, unless it is leaky;                   *)
(*   - its pending kicks are covered by its count and by the successes     *)
(*     that its task has still to throw, or are about to be forgotten.     *)
Running == {"enter", "success", "kicked", "decide"}
InFlight == IF sol_pulse_timer = 1 THEN sol_pulsing ELSE Nobody

ToCome(p, t) == IF p \in {"success", "kicked"} THEN t ELSE 0

KickOK(d, b, x, p, t, c, s) ==
  /\ b <= Size[d] /\ x.actual <= Size[d]
  /\ p \in Running => c = d /\ x.actual = b
  /\ s = d => x.state = "releasing" /\ p \in {"none", "settle", "pulse"}
  /\ p = "attempt" => x.state = "releasing"
  /\ d \notin Leaky /\ x.state = "idle" => x.actual <= b
  /\ x.kicks_needed <= x.actual + ToCome(p, t) \/ (p = "decide" /\ x.actual = 0)

KicksInv == \A d \in Devices : KickOK(d, ball[d], dev[d], at[d], todo[d], cpu, InFlight)

(* No handler sleeps, and a device that may lose a ball without a kick     *)
(* holds only one.                                                         *)
Plain == Sleepy = {} /\ \A d \in Leaky : Size[d] = 1

LEMMA CoveredThen == DeviceInv /\ KicksInv => KicksCovered
<1> SUFFICES ASSUME DeviceInv, KicksInv, Quiet, NEW d \in Devices
             PROVE  dev[d].kicks_needed <= dev[d].actual
  BY DEF KicksCovered
<1>1. at[d] \notin Running
  BY Numbers DEF KicksInv, KickOK, Quiet
<1>2. dev[d].actual \in Nat
  BY TableFacts, Fields
<1> QED BY <1>1, <1>2 DEF KicksInv, KickOK, Running, ToCome

(* A step that concerns one device.                                        *)
LEMMA KicksFrame ==
  ASSUME DeviceInv, KicksInv, NEW d \in Devices, cpu \in {d, Nobody},
         Only(ball, ball', d), Only(dev, dev', d), Only(at, at', d), Only(todo, todo', d),
         InFlight' \in {InFlight, Nobody, d},
         KickOK(d, ball'[d], dev'[d], at'[d], todo'[d], cpu', InFlight')
  PROVE  KicksInv'
<1> SUFFICES ASSUME NEW e \in Devices
             PROVE  KickOK(e, ball'[e], dev'[e], at'[e], todo'[e], cpu', InFlight')
  BY DEF KicksInv
<1>1. CASE e = d
  BY <1>1
<1>2. CASE e # d
  <2>1. ball'[e] = ball[e] /\ dev'[e] = dev[e] /\ at'[e] = at[e] /\ todo'[e] = todo[e]
    BY <1>2, TableFacts DEF Only, DeviceInv, Physical, Counts
  <2>2. cpu # e /\ Nobody # e
    BY <1>2, Numbers
  <2>3. KickOK(e, ball[e], dev[e], at[e], todo[e], cpu, InFlight)
    BY DEF KicksInv
  <2> HIDE DEF InFlight
  <2>4. InFlight' = e => InFlight = e
    BY <1>2, <2>2
  <2> QED BY <2>1, <2>2, <2>3, <2>4 DEF KickOK
<1> QED BY <1>1, <1>2

LEMMA KicksFacts ==
  ASSUME DeviceInv, KicksInv, NEW d \in Devices
  PROVE  /\ KickOK(d, ball[d], dev[d], at[d], todo[d], cpu, InFlight)
         /\ dev \in [Devices -> Record] /\ dev[d] \in Record /\ at \in [Devices -> Phases]
         /\ todo \in [Devices -> 0 .. NumBalls] /\ ball \in [Devices -> 0 .. NumBalls]
         /\ ball[d] \in Nat /\ dev[d].actual \in Nat /\ dev[d].kicks_needed \in Nat /\ todo[d] \in Nat
         /\ dev[d].max_count \in Nat /\ Size[d] \in Nat /\ dev[d].state \in {"idle", "releasing"}
         /\ dev[d].kicks_needed < 256 /\ dev[d].actual < 256
         /\ Only(ball, ball, d) /\ Only(dev, dev, d) /\ Only(at, at, d) /\ Only(todo, todo, d)
<1>1. /\ dev \in [Devices -> Record] /\ dev[d] \in Record /\ at \in [Devices -> Phases]
      /\ todo \in [Devices -> 0 .. NumBalls] /\ ball \in [Devices -> 0 .. NumBalls]
      /\ NumBalls \in 1 .. 15
  BY TableFacts DEF DeviceInv, Physical, Counts
<1>2. /\ dev[d].actual \in 0 .. 15 /\ dev[d].kicks_needed \in 0 .. 255
      /\ dev[d].max_count \in 0 .. 255 /\ dev[d].state \in {"idle", "releasing"}
  BY <1>1, Fields
<1>3. ball[d] \in 0 .. NumBalls /\ todo[d] \in 0 .. NumBalls /\ Size[d] \in 1 .. 255
  BY <1>1, Numbers
<1>4. Only(ball, ball, d) /\ Only(dev, dev, d) /\ Only(at, at, d) /\ Only(todo, todo, d)
  BY <1>1 DEF Only
<1>5. KickOK(d, ball[d], dev[d], at[d], todo[d], cpu, InFlight)
  BY DEF KicksInv
<1> QED BY <1>1, <1>2, <1>3, <1>4, <1>5

LEMMA RecountKicks ==
  ASSUME DeviceInv, KicksInv, Plain, NEW d \in Devices,
         CountSame(d) \/ SurpriseRelease(d) \/ CountRose(d) \/ KickFailed(d)
         \/ KickGivenUp(d) \/ KickWorked(d)
  PROVE  KicksInv'
<1> DEFINE x == dev[d]
           b == ball[d]
           y == dev'[d]
<1>1. /\ cpu = Nobody /\ at[d] = "settle" /\ ball' = ball /\ InFlight' = InFlight /\ InFlight # d
  BY DeviceAssumption DEF CountSame, SurpriseRelease, CountRose, KickFailed, KickGivenUp, KickWorked,
     Recount, Quiet, physical, solenoid, InFlight, DeviceInv, Solenoid
<1>2. /\ Only(dev, dev', d) /\ Only(at, at', d) /\ Only(todo, todo', d)
  <2>1. Only(dev, dev', d)
    BY KicksFacts DEF CountSame, SurpriseRelease, CountRose, KickFailed, KickGivenUp, KickWorked,
       Recounted, Only
  <2>2. Only(at, at', d) /\ Only(todo, todo', d)
    BY KicksFacts DEF CountSame, SurpriseRelease, CountRose, KickFailed, KickGivenUp, KickWorked,
       Goto, Only
  <2> QED BY <2>1, <2>2
<1>3. SUFFICES KickOK(d, b, y, at'[d], todo'[d], cpu', InFlight)
  <2>1. Only(ball, ball', d) /\ InFlight' \in {InFlight, Nobody, d}
    BY <1>1, KicksFacts
  <2> HIDE DEF InFlight
  <2> QED BY <1>1, <1>2, <1>3, <2>1, KicksFrame
<1>4. /\ b \in Nat /\ x.actual \in Nat /\ x.kicks_needed \in Nat
      /\ b <= Size[d] /\ x.actual <= Size[d] /\ Size[d] \in Nat
      /\ d \notin Leaky /\ x.state = "idle" => x.actual <= b
      /\ x.kicks_needed <= x.actual /\ x.state \in {"idle", "releasing"}
  BY <1>1, KicksFacts DEF KickOK, ToCome
<1>5. CASE CountSame(d) \/ SurpriseRelease(d) \/ CountRose(d) \/ KickWorked(d)
  <2>1. y = [x EXCEPT !.actual = b]
    BY <1>5, KicksFacts DEF CountSame, SurpriseRelease, CountRose, KickWorked, Recounted
  <2>2. y.actual = b /\ y.kicks_needed = x.kicks_needed /\ y.state = x.state /\ cpu' = d
    BY <1>5, <2>1, KicksFacts DEF CountSame, SurpriseRelease, CountRose, KickWorked, Record
  <2> HIDE DEF y, b
  <2>3. CASE CountSame(d)
    <3>1. at'[d] = "decide" /\ (b = x.actual \/ x.kicks_needed = 0)
      BY <1>4, <2>3, KicksFacts DEF CountSame, Idle, Releasing, Before, Goto, b
    <3> QED BY <1>1, <1>4, <2>2, <3>1 DEF KickOK, ToCome
  <2>4. CASE SurpriseRelease(d)
    <3>1. at'[d] = "decide" /\ x.state = "idle" /\ b < x.actual
      BY <2>4, KicksFacts DEF SurpriseRelease, Idle, Before, Goto, b
    <3>2. d \in Leaky
      BY <1>4, <3>1
    <3>3. b = 0
      BY <1>4, <3>1, <3>2 DEF Plain
    <3> QED BY <1>1, <1>4, <2>2, <3>1, <3>3 DEF KickOK, ToCome
  <2>5. CASE CountRose(d)
    <3>1. at'[d] = "enter" /\ x.actual < b
      BY <2>5, KicksFacts DEF CountRose, Before, b
    <3> QED BY <1>1, <1>4, <2>2, <3>1 DEF KickOK, ToCome
  <2>6. CASE KickWorked(d)
    <3>1. /\ at'[d] = "success" /\ todo'[d] = Min({x.actual - b, x.kicks_needed})
          /\ b < x.actual /\ x.state = "releasing"
      BY <2>6, KicksFacts DEF KickWorked, Releasing, Before, b
    <3>2. x.actual - b \in Int /\ x.kicks_needed \in Int
      BY <1>4
    <3>3. todo'[d] = IF x.actual - b <= x.kicks_needed THEN x.actual - b ELSE x.kicks_needed
      BY <3>1, <3>2, MinOfTwo
    <3> QED BY <1>1, <1>4, <2>2, <3>1, <3>3 DEF KickOK, ToCome
  <2> QED BY <1>5, <2>3, <2>4, <2>5, <2>6
<1>6. CASE KickFailed(d)
  <2>1. /\ y = [x EXCEPT !.actual = b, !.kick_errors = x.kick_errors + 1]
        /\ b >= x.actual /\ x.state = "releasing" /\ at'[d] = "retry"
    BY <1>6, KicksFacts DEF KickFailed, Recounted, Releasing, Before, Goto, Record
  <2>2. y.actual = b /\ y.kicks_needed = x.kicks_needed /\ y.state = "releasing"
    BY <2>1, KicksFacts DEF Record
  <2> QED BY <1>1, <1>4, <2>1, <2>2 DEF KickOK, ToCome, Running
<1>7. CASE KickGivenUp(d)
  <2>1. /\ y = [x EXCEPT !.actual = b, !.kick_errors = x.kick_errors + 1,
                         !.kicks_needed = 0, !.state = "idle"]
        /\ at'[d] = "decide" /\ cpu' = d
    BY <1>7, KicksFacts DEF KickGivenUp, Recounted, Goto, Record
  <2>2. y.actual = b /\ y.kicks_needed = 0 /\ y.state = "idle"
    BY <2>1, KicksFacts DEF Record
  <2> QED BY <1>1, <1>4, <2>1, <2>2 DEF KickOK, ToCome
<1> QED BY <1>5, <1>6, <1>7

LEMMA EventKicks ==
  ASSUME DeviceInv, KicksInv, Plain, NEW d \in Devices,
         EnterUnheard(d) \/ EntersDone(d) \/ KickSuccess(d) \/ KickCounted(d)
         \/ HandlerSleeps(d) \/ HandlerWakes(d)
  PROVE  KicksInv'
<1> DEFINE x == dev[d]
           b == ball[d]
           y == dev'[d]
<1>0. KickOK(d, b, x, at[d], todo[d], cpu, InFlight)
  BY KicksFacts
<1>1. ~ HandlerSleeps(d) /\ ~ HandlerWakes(d)
  BY <1>0, Numbers DEF HandlerSleeps, HandlerWakes, Quiet, Plain, KickOK, Running
<1>2. /\ cpu = d /\ cpu' = d /\ ball' = ball /\ InFlight' = InFlight /\ InFlight # d
  <2>1. /\ cpu = d /\ cpu' = cpu /\ UNCHANGED <<physical, solenoid>> /\ at[d] \in {"enter", "success", "kicked"}
    BY <1>1, Zenon DEF EnterUnheard, EntersDone, KickSuccess, KickCounted, Throw, Thrown
  <2>2. InFlight # d
    BY <1>0, <2>1 DEF KickOK
  <2> QED BY <2>1, <2>2 DEF physical, solenoid, InFlight
<1>3. /\ Only(dev, dev', d) /\ Only(at, at', d) /\ Only(todo, todo', d)
  <2>1. Only(dev, dev', d)
    BY <1>1, KicksFacts DEF EnterUnheard, EntersDone, KickSuccess, KickCounted, table, Only
  <2>2. Only(at, at', d) /\ Only(todo, todo', d)
    BY <1>1, KicksFacts DEF EnterUnheard, EntersDone, KickSuccess, KickCounted, Thrown, Goto, Only
  <2> QED BY <2>1, <2>2
<1>4. SUFFICES KickOK(d, b, y, at'[d], todo'[d], d, InFlight)
  <2>1. Only(ball, ball', d) /\ InFlight' \in {InFlight, Nobody, d}
    BY <1>2, KicksFacts
  <2> HIDE DEF InFlight
  <2> QED BY <1>2, <1>3, <1>4, <2>1, KicksFrame
<1>5. /\ b \in Nat /\ x.actual \in Nat /\ x.kicks_needed \in Nat /\ todo[d] \in Nat
      /\ b <= Size[d] /\ x.actual <= Size[d] /\ Size[d] \in Nat
      /\ d \notin Leaky /\ x.state = "idle" => x.actual <= b
      /\ x.actual = b
      /\ at[d] # "decide" => x.kicks_needed <= x.actual + ToCome(at[d], todo[d])
      /\ x.state \in {"idle", "releasing"}
  <2>1. at[d] \in Running
    BY <1>1 DEF EnterUnheard, EntersDone, KickSuccess, KickCounted, Throw, Running
  <2> QED BY <1>0, <2>1, KicksFacts DEF KickOK
<1>6. CASE EnterUnheard(d)
  <2>1. y = x /\ at'[d] = "enter" /\ at[d] = "enter"
    BY <1>6 DEF EnterUnheard, Throw, Thrown, table
  <2> QED BY <1>2, <1>5, <2>1 DEF KickOK, ToCome
<1>7. CASE EntersDone(d)
  <2>1. y = x /\ at'[d] = "decide" /\ at[d] = "enter"
    BY <1>7, KicksFacts DEF EntersDone, Goto, table
  <2> QED BY <1>2, <1>5, <2>1 DEF KickOK, ToCome
<1>8. CASE KickSuccess(d)
  <2>1. y = x /\ at'[d] = "kicked" /\ at[d] = "success" /\ todo'[d] = todo[d]
    BY <1>8, KicksFacts DEF KickSuccess, Throw, Goto
  <2> QED BY <1>2, <1>5, <2>1 DEF KickOK, ToCome
<1>9. CASE KickCounted(d)
  <2>1. /\ y = [x EXCEPT !.kicks_needed = (x.kicks_needed - 1) % Byte,
                         !.state = IF todo[d] = 1 THEN "idle" ELSE x.state]
        /\ todo'[d] = todo[d] - 1 /\ at[d] = "kicked" /\ todo[d] > 0
        /\ at'[d] = IF todo[d] = 1 THEN "decide" ELSE "success"
    BY <1>9, KicksFacts DEF KickCounted, Throw, Record
  <2>2. /\ y.actual = x.actual /\ y.kicks_needed = (x.kicks_needed - 1) % Byte
        /\ y.state = IF todo[d] = 1 THEN "idle" ELSE x.state
    BY <2>1, KicksFacts DEF Record
  <2>3. todo[d] <= x.kicks_needed /\ x.kicks_needed < 256
    BY <2>1, TableFacts, KicksFacts DEF Fine
  <2>4. y.kicks_needed = x.kicks_needed - 1
    <3>1. x.kicks_needed - 1 \in 0 .. 255
      BY <1>5, <2>1, <2>3
    <3> DEFINE k == x.kicks_needed - 1
    <3>2. k % 256 = k
      <4> HIDE DEF k
      <4> QED BY <3>1 DEF k
    <3> QED BY <2>2, <3>2, Numbers
  <2> QED BY <1>2, <1>5, <2>1, <2>2, <2>4 DEF KickOK, ToCome
<1> QED BY <1>1, <1>6, <1>7, <1>8, <1>9

LEMMA DecideKicks ==
  ASSUME DeviceInv, KicksInv, NEW d \in Devices,
         Finish(d) \/ Delay(d) \/ KickAttempt(d) \/ SolAllocWaits(d) \/ SolAlloc(d) \/ SolFree(d)
         \/ DeviceSwHandler(d)
  PROVE  KicksInv'
<1> DEFINE x == dev[d]
           b == ball[d]
           y == dev'[d]
<1>0. KickOK(d, b, x, at[d], todo[d], cpu, InFlight)
  BY KicksFacts
<1>1. cpu \in {d, Nobody} /\ ball' = ball
  BY DEF Finish, Delay, KickAttempt, Decide, SolAllocWaits, SolAlloc, SolFree, DeviceSwHandler,
         Quiet, physical
<1>2. Only(ball, ball', d) /\ Only(dev, dev', d) /\ Only(at, at', d) /\ Only(todo, todo', d)
  <2>1. Only(dev, dev', d) /\ Only(ball, ball', d)
    BY <1>1, KicksFacts DEF Finish, Delay, KickAttempt, SolAllocWaits, SolAlloc, SolFree,
       DeviceSwHandler, table, Only
  <2>2. Only(at, at', d) /\ Only(todo, todo', d)
    BY KicksFacts DEF Finish, Delay, KickAttempt, SolAllocWaits, SolAlloc, SolFree,
       DeviceSwHandler, Goto, Only
  <2> QED BY <2>1, <2>2
<1>3. InFlight' \in {InFlight, Nobody, d}
  BY DEF Finish, Delay, KickAttempt, Decide, SolAllocWaits, SolAlloc, SolFree, DeviceSwHandler,
         solenoid, InFlight
<1>4. SUFFICES KickOK(d, b, y, at'[d], todo'[d], cpu', InFlight')
  <2>1. ball'[d] = b
    BY <1>1
  <2> HIDE DEF InFlight
  <2> QED BY <1>1, <1>2, <1>3, <1>4, <2>1, KicksFrame
<1>5. /\ b \in Nat /\ x.actual \in Nat /\ x.kicks_needed \in Nat /\ x.max_count \in Nat
      /\ b <= Size[d] /\ x.actual <= Size[d] /\ Size[d] \in Nat
      /\ d \notin Leaky /\ x.state = "idle" => x.actual <= b
      /\ x.state \in {"idle", "releasing"}
  BY <1>0, KicksFacts DEF KickOK
<1>6. CASE Finish(d) \/ Delay(d) \/ KickAttempt(d)
  <2>1. /\ InFlight' = InFlight /\ InFlight # d
        /\ x.kicks_needed <= x.actual \/ x.actual = 0
    <3>1. at[d] \in {"decide", "retry"} /\ UNCHANGED solenoid
      BY <1>6, Zenon DEF Finish, Delay, KickAttempt, Decide
    <3>2. InFlight # d
      BY <1>0, <3>1 DEF KickOK
    <3> QED BY <1>0, <1>5, <3>1, <3>2 DEF KickOK, ToCome, InFlight, solenoid
  <2>2. CASE Finish(d)
    <3>1. /\ y = [x EXCEPT !.kicks_needed = 0, !.actual = b]
          /\ at'[d] \in {"none", "settle"}
      BY <2>2, KicksFacts DEF Finish, Goto, Record
    <3>2. y.actual = b /\ y.kicks_needed = 0 /\ y.state = x.state
      BY <3>1, KicksFacts DEF Record
    <3> QED BY <1>5, <2>1, <3>1, <3>2 DEF KickOK, ToCome, Running
  <2>3. CASE Delay(d) \/ KickAttempt(d)
    <3> DEFINE z == Decided(x)
    <3>1. /\ z \in Record /\ z.actual = x.actual /\ z.actual > 0 /\ z.state = x.state
          /\ z.kicks_needed \in Nat /\ z.kicks_needed <= z.actual
      <4>1. MustKick(z)
        BY <2>3 DEF Delay, KickAttempt
      <4>2. CASE Overfull(x)
        <5>1. z = [x EXCEPT !.kicks_needed = 1, !.kick_errors = 0]
          BY <4>2 DEF Decided
        <5>2. 0 \in 0 .. Byte - 1 /\ 1 \in 0 .. Byte - 1
          BY Numbers
        <5>3. z \in Record /\ z.actual = x.actual /\ z.state = x.state /\ z.kicks_needed = 1
          <6> DEFINE w == [x EXCEPT !.kicks_needed = 1]
          <6>1. w \in Record /\ w.actual = x.actual /\ w.state = x.state /\ w.kicks_needed = 1
            BY <5>2, KicksFacts DEF Record
          <6>2. z = [w EXCEPT !.kick_errors = 0]
            BY <5>1
          <6> HIDE DEF w, z, x
          <6> QED BY <5>2, <6>1, <6>2 DEF Record
        <5> HIDE DEF z
        <5> QED BY <1>5, <4>1, <5>3 DEF MustKick
      <4>3. CASE ~ Overfull(x)
        <5>1. z = x
          BY <4>3 DEF Decided
        <5> QED BY <1>5, <2>1, <4>1, <5>1, KicksFacts DEF MustKick
      <4> QED BY <4>2, <4>3
    <3>2. \/ y = z /\ at'[d] = "settle"
          \/ y = [z EXCEPT !.state = "releasing"] /\ at'[d] = "attempt"
      BY <2>3, KicksFacts DEF Delay, KickAttempt, Goto
    <3> HIDE DEF z
    <3>3. /\ y.actual = z.actual /\ y.kicks_needed = z.kicks_needed
          /\ y.state = z.state \/ y.state = "releasing"
          /\ at'[d] = "attempt" => y.state = "releasing"
      BY <3>1, <3>2 DEF Record
    <3> QED BY <1>5, <2>1, <3>1, <3>2, <3>3 DEF KickOK, ToCome, Running
  <2> QED BY <1>6, <2>2, <2>3
<1>7. CASE SolAllocWaits(d)
  <2>1. y = x /\ at'[d] = "attempt" /\ at[d] = "attempt" /\ InFlight' = InFlight
    BY <1>7 DEF SolAllocWaits, table, solenoid, InFlight
  <2> QED BY <1>0, <2>1 DEF KickOK, Running, ToCome
<1>8. CASE SolAlloc(d)
  <2>1. y = x /\ at'[d] = "pulse" /\ at[d] = "attempt" /\ InFlight' = d
    BY <1>8, KicksFacts DEF SolAlloc, Goto, table, InFlight
  <2> QED BY <1>0, <2>1 DEF KickOK, Running, ToCome
<1>9. CASE SolFree(d)
  <2>1. y = x /\ at'[d] = "settle" /\ at[d] = "pulse" /\ InFlight' = InFlight
    BY <1>9, KicksFacts DEF SolFree, Goto, table, InFlight
  <2> QED BY <1>0, <2>1 DEF KickOK, Running, ToCome
<1>10. CASE DeviceSwHandler(d)
  <2>1. /\ y = x /\ at'[d] \in {at[d], "settle"} /\ (at[d] # "none" => at'[d] = at[d])
        /\ todo' = todo /\ cpu' = cpu /\ InFlight' = InFlight
    BY <1>10, KicksFacts DEF DeviceSwHandler, table, solenoid, InFlight
  <2> QED BY <1>0, <2>1 DEF KickOK, Running, ToCome
<1> QED BY <1>6, <1>7, <1>8, <1>9, <1>10

LEMMA BallKicks ==
  ASSUME DeviceInv, KicksInv, Playfield \/ Pulse
  PROVE  KicksInv'
<1>1. ASSUME NEW d \in Devices, Only(ball, ball', d), ball'[d] \in Nat, ball'[d] <= Size[d],
             UNCHANGED <<dev, at, todo, cpu>>, cpu = Nobody,
             ball[d] <= ball'[d] \/ d \in Leaky \/ dev[d].state = "releasing",
             InFlight' \in {InFlight, Nobody}
      PROVE  KicksInv'
  <2>1. KickOK(d, ball[d], dev[d], at[d], todo[d], cpu, InFlight) /\ at[d] \notin Running
    BY <1>1, KicksFacts, Numbers DEF KickOK
  <2>2. InFlight' = d => InFlight = d
    BY <1>1, Numbers
  <2>3. KickOK(d, ball'[d], dev[d], at[d], todo[d], cpu, InFlight')
    <3> HIDE DEF InFlight
    <3>1. d \notin Leaky /\ dev[d].state = "idle" => dev[d].actual <= ball'[d]
      BY <1>1, <2>1, KicksFacts DEF KickOK
    <3> QED BY <1>1, <2>1, <2>2, <3>1 DEF KickOK
  <2>4. Only(dev, dev', d) /\ Only(at, at', d) /\ Only(todo, todo', d)
    BY <1>1, KicksFacts
  <2>5. cpu \in {d, Nobody} /\ InFlight' \in {InFlight, Nobody, d}
    BY <1>1
  <2>6. KickOK(d, ball'[d], dev'[d], at'[d], todo'[d], cpu', InFlight')
    BY <1>1, <2>3
  <2> QED BY <1>1, <2>4, <2>5, <2>6, KicksFrame
<1>2. ASSUME NEW d \in Devices, BallEnters(d) \/ BallEscapes(d) \/ BallFallsBack(d) \/ BallGone(d)
      PROVE  KicksInv'
  <2>1. /\ UNCHANGED <<dev, at, todo, cpu>> /\ cpu = Nobody /\ InFlight' = InFlight
    BY <1>2 DEF BallEnters, BallEscapes, BallFallsBack, BallGone, table, tasks, solenoid, Quiet, InFlight
  <2>2. ball[d] \in Nat /\ ball[d] <= Size[d] /\ Size[d] \in Nat /\ ball \in [Devices -> 0 .. NumBalls]
    BY KicksFacts DEF KickOK
  <2>3. CASE BallEnters(d) \/ BallFallsBack(d)
    <3>1. ball' = [ball EXCEPT ![d] = ball[d] + 1] /\ ball[d] < Size[d]
      BY <2>3 DEF BallEnters, BallFallsBack
    <3>2. Only(ball, ball', d) /\ ball'[d] = ball[d] + 1
      BY <2>2, <3>1 DEF Only
    <3>3. ball'[d] \in Nat /\ ball'[d] <= Size[d] /\ ball[d] <= ball'[d]
      BY <2>2, <3>1, <3>2
    <3> QED BY <1>1, <2>1, <3>2, <3>3
  <2>4. CASE BallEscapes(d)
    <3>1. ball' = [ball EXCEPT ![d] = ball[d] - 1] /\ ball[d] > 0 /\ d \in Leaky
      BY <2>4 DEF BallEscapes
    <3>2. Only(ball, ball', d) /\ ball'[d] = ball[d] - 1
      BY <2>2, <3>1 DEF Only
    <3>3. ball'[d] \in Nat /\ ball'[d] <= Size[d]
      BY <2>2, <3>1, <3>2
    <3> QED BY <1>1, <2>1, <3>1, <3>2, <3>3
  <2>5. CASE BallGone(d)
    <3>1. ball' = ball /\ Only(ball, ball, d)
      BY <2>5, KicksFacts DEF BallGone
    <3> QED BY <1>1, <2>1, <2>2, <3>1
  <2> QED BY <1>2, <2>3, <2>4, <2>5
<1>3. CASE SetValidPlayfield \/ KickoutLock
  <2>1. UNCHANGED <<ball, dev, at, todo, cpu>> /\ InFlight' = InFlight
    BY <1>3 DEF SetValidPlayfield, KickoutLock, physical, table, tasks, solenoid, InFlight
  <2> QED BY <2>1 DEF KicksInv
<1>4. CASE Pulse
  <2> DEFINE s == sol_pulsing
  <2>1. /\ UNCHANGED <<dev, at, todo, cpu>> /\ cpu = Nobody /\ sol_pulse_timer = 1
        /\ sol_pulse_timer' = 0
    BY <1>4 DEF Pulse, PulseKicks, PulseFails, PulseEnds, table, tasks, Quiet
  <2>2. s \in Devices /\ InFlight = s /\ InFlight' = Nobody
    BY <2>1 DEF DeviceInv, Solenoid, InFlight
  <2>3. /\ ball[s] \in Nat /\ ball[s] <= Size[s] /\ Size[s] \in Nat /\ ball \in [Devices -> 0 .. NumBalls]
        /\ dev[s].state = "releasing"
    BY <2>2, KicksFacts DEF KickOK
  <2>4. CASE PulseKicks
    <3>1. ball' = [ball EXCEPT ![s] = ball[s] - 1] /\ ball[s] > 0
      BY <2>4 DEF PulseKicks
    <3>2. Only(ball, ball', s) /\ ball'[s] = ball[s] - 1
      BY <2>2, <2>3, <3>1 DEF Only
    <3>3. ball'[s] \in Nat /\ ball'[s] <= Size[s]
      BY <2>3, <3>1, <3>2
    <3> HIDE DEF s
    <3> QED BY <1>1, <2>1, <2>2, <2>3, <3>2, <3>3
  <2>5. CASE PulseFails
    <3>1. ball' = ball /\ Only(ball, ball, s)
      BY <2>2, <2>5, KicksFacts DEF PulseFails, physical
    <3> HIDE DEF s
    <3> QED BY <1>1, <2>1, <2>2, <2>3, <3>1
  <2> QED BY <1>4, <2>4, <2>5 DEF Pulse
<1> QED BY <1>2, <1>3, <1>4 DEF Playfield

(* A request is limited by the kickable count, and stays covered by it.    *)
LEMMA RequestCovered ==
  ASSUME NEW x \in Record, NEW n \in Nat, x.kicks_needed <= x.actual
  PROVE  /\ RequestedTimes(x, n).kicks_needed <= x.actual
         /\ RequestedTimes(x, n).actual = x.actual /\ RequestedTimes(x, n).state = x.state
         /\ RequestedTimes(x, n).max_count = x.max_count
<1>1. x.actual \in 0 .. 15 /\ x.kicks_needed \in 0 .. 255
  BY Fields
<1> DEFINE a == x.actual
           k == x.kicks_needed
           v == Min({n, KickableCount(x)})
           m == (k + v) % Byte
<1>2. KickableCount(x) = a - k
  <2> HIDE DEF a, k
  <2>1. a - k \in 0 .. 255
    BY SMTT(40), <1>1 DEF a, k
  <2>2. (a - k) % 256 = a - k
    <3> DEFINE j == a - k
    <3> HIDE DEF j
    <3>1. j \in 0 .. 255 => j % 256 = j
      OBVIOUS
    <3> QED BY <2>1, <3>1 DEF j
  <2> QED BY <2>2, Numbers DEF KickableCount, a, k
<1>3. v \in 0 .. a - k
  <2>1. a - k \in Int
    BY SMTT(40), <1>1
  <2>2. v = IF n <= a - k THEN n ELSE a - k
    BY <1>2, <2>1, MinOfTwo
  <2> HIDE DEF v
  <2> QED BY SMTT(40), <1>1, <2>1, <2>2
<1>4. RequestedTimes(x, n) = IF v = 0 THEN x ELSE [x EXCEPT !.kicks_needed = m, !.kick_errors = 0]
  BY DEF RequestedTimes
<1>5. m = k + v /\ k + v <= a
  <2> HIDE DEF v, a, k, m
  <2>0. a \in 0 .. 15 /\ k \in 0 .. 255 /\ k <= a
    BY <1>1 DEF a, k
  <2>1. k + v \in 0 .. 255 /\ k + v <= a
    BY <1>3, <2>0
  <2>2. (k + v) % 256 = k + v
    <3> DEFINE j == k + v
    <3> HIDE DEF j
    <3>1. j \in 0 .. 255 => j % 256 = j
      OBVIOUS
    <3> QED BY <2>1, <3>1 DEF j
  <2> QED BY <2>1, <2>2, Numbers DEF m
<1> HIDE DEF v, m
<1> QED BY <1>1, <1>3, <1>4, <1>5 DEF Record

(* The update task of a device is stopped, or made again, with a covered   *)
(* record.                                                                 *)
LEMMA FreshKicks ==
  ASSUME DeviceInv, KicksInv, NEW d \in Devices, cpu \in {d, Nobody},
         cpu' \in {cpu, Nobody}, ball' = ball, InFlight' = InFlight,
         Only(dev, dev', d), Only(at, at', d), Only(todo, todo', d),
         at'[d] \in {"none", "settle"},
         dev'[d].actual = dev[d].actual, dev'[d].state = dev[d].state,
         dev'[d].kicks_needed <= dev[d].actual
  PROVE  KicksInv'
<1>1. KickOK(d, ball[d], dev[d], at[d], todo[d], cpu, InFlight)
  BY KicksFacts
<1>2. KickOK(d, ball[d], dev'[d], at'[d], todo'[d], cpu', InFlight)
  BY <1>1, KicksFacts DEF KickOK, ToCome, Running
<1>3. Only(ball, ball', d) /\ InFlight' \in {InFlight, Nobody, d}
  BY KicksFacts
<1>4. KickOK(d, ball'[d], dev'[d], at'[d], todo'[d], cpu', InFlight')
  BY <1>2
<1> QED BY <1>3, <1>4, KicksFrame

LEMMA TroughKicks ==
  ASSUME DeviceInv, KicksInv, TroughEnter \/ StartBall
  PROVE  KicksInv'
<1> DEFINE x == dev[Trough]
<1>0. /\ Trough \in Devices /\ x \in Record
      /\ KickOK(Trough, ball[Trough], x, at[Trough], todo[Trough], cpu, InFlight)
  BY KicksFacts, Numbers
<1>1. /\ cpu \in {Trough, Nobody} /\ cpu' \in {cpu, Nobody} /\ ball' = ball
      /\ InFlight' = InFlight
  BY DEF TroughEnter, RemoveMissing, RemoveNothing, BallSaved, DrainMultiball, ServeAgain,
         EndBall, BallDrain, Throw, Thrown, StartBall, Quiet, physical, solenoid, InFlight
<1>2. Only(dev, dev', Trough) /\ dev'[Trough] \in {x, RequestedTimes(x, 1)}
  <2>1. dev' \in {dev, [dev EXCEPT ![Trough] = RequestedTimes(x, 1)]}
    BY DEF TroughEnter, RemoveMissing, RemoveNothing, BallSaved, DrainMultiball, ServeAgain,
           EndBall, StartBall, Requested
  <2> QED BY <1>0, <2>1, KicksFacts DEF Only
<1>3. x.kicks_needed <= x.actual
  <2>1. at[Trough] = "enter" \/ at[Trough] \notin Running
    BY <1>0, Numbers DEF TroughEnter, RemoveMissing, RemoveNothing, BallSaved, DrainMultiball,
       ServeAgain, EndBall, BallDrain, Throw, StartBall, Quiet, KickOK
  <2> QED BY <1>0, <2>1, KicksFacts DEF KickOK, Running, ToCome
<1>4. /\ dev'[Trough].actual = x.actual /\ dev'[Trough].state = x.state
      /\ dev'[Trough].kicks_needed <= x.actual
  BY <1>0, <1>2, <1>3, RequestCovered
<1>5. CASE EndBall \/ StartBall
  <2>1. \E p \in {"none", "settle"} : /\ at' = [at EXCEPT ![Trough] = p]
                                      /\ todo' = [todo EXCEPT ![Trough] = 0]
    BY <1>5 DEF EndBall, StartBall, Restart
  <2>2. PICK p \in {"none", "settle"} : /\ at' = [at EXCEPT ![Trough] = p]
                                        /\ todo' = [todo EXCEPT ![Trough] = 0]
    BY <2>1
  <2>3. at'[Trough] = p /\ todo'[Trough] = 0
    BY <1>0, <2>2, KicksFacts
  <2>4. Only(at, at', Trough) /\ Only(todo, todo', Trough)
    BY <2>2, <2>3 DEF Only
  <2> QED BY <1>0, <1>1, <1>2, <1>4, <2>3, <2>4, FreshKicks
<1>6. CASE TroughEnter /\ ~ EndBall
  <2>1. /\ at' = at /\ todo' = [todo EXCEPT ![Trough] = todo[Trough] - 1] /\ at[Trough] = "enter"
        /\ cpu' = cpu
    BY <1>6 DEF TroughEnter, RemoveMissing, RemoveNothing, BallSaved, DrainMultiball,
         ServeAgain, BallDrain, Throw, Thrown
  <2>2. Only(todo, todo', Trough) /\ Only(at, at', Trough) /\ Only(ball, ball', Trough)
    BY ZenonT(60), <1>0, <1>1, <2>1, KicksFacts DEF Only
  <2>3. KickOK(Trough, ball[Trough], dev'[Trough], at[Trough], todo'[Trough], cpu, InFlight)
    BY <1>0, <1>4, <2>1, KicksFacts DEF KickOK, ToCome
  <2>4. KickOK(Trough, ball'[Trough], dev'[Trough], at'[Trough], todo'[Trough], cpu', InFlight')
    BY <1>1, <2>1, <2>3
  <2>5. InFlight' \in {InFlight, Nobody, Trough}
    BY <1>1
  <2> HIDE DEF InFlight
  <2> QED BY <1>0, <1>1, <1>2, <2>2, <2>4, <2>5, KicksFrame
<1> QED BY <1>5, <1>6

LEMMA RequestKicks ==
  ASSUME DeviceInv, KicksInv, Requests
  PROVE  KicksInv'
<1>1. ASSUME NEW d \in Devices, NEW y, dev' = [dev EXCEPT ![d] = y], Restart(d), cpu = Nobody,
             UNCHANGED <<ball, cpu>>, InFlight' = InFlight, y.actual = dev[d].actual,
             y.state = dev[d].state, y.kicks_needed <= dev[d].actual
      PROVE  KicksInv'
  <2>1. /\ Only(dev, dev', d) /\ dev'[d] = y /\ Only(at, at', d) /\ at'[d] = "settle"
        /\ Only(todo, todo', d)
    BY ZenonT(60), <1>1, KicksFacts DEF Only, Restart
  <2> HIDE DEF InFlight
  <2> QED BY <1>1, <2>1, FreshKicks
<1>2. ASSUME NEW d \in Devices, cpu = Nobody PROVE dev[d].kicks_needed <= dev[d].actual
  BY <1>2, CoveredThen DEF KicksCovered, Quiet
<1>3. ASSUME NEW n \in 1 .. NumBalls, SetBallCount(n) PROVE KicksInv'
  <2> DEFINE a == Min({n - live_balls, dev[Trough].actual})
             y == RequestedTimes(dev[Trough], a)
  <2>1. dev' = [dev EXCEPT ![Trough] = y] /\ Restart(Trough) /\ a > 0
    BY <1>3 DEF SetBallCount
  <2>2. n - live_balls \in Int /\ dev[Trough].actual \in Int /\ dev[Trough] \in Record /\ Trough \in Devices
    BY SMTT(40), Numbers, KicksFacts, Fields DEF DeviceInv, Globals
  <2>3. a \in Nat
    BY <2>1, <2>2, MinOfTwo
  <2>4. UNCHANGED <<ball, cpu>> /\ InFlight' = InFlight /\ cpu = Nobody
    BY <1>3 DEF SetBallCount, physical, solenoid, InFlight, Quiet
  <2> HIDE DEF a
  <2>5. y.actual = dev[Trough].actual /\ y.state = dev[Trough].state /\ y.kicks_needed <= dev[Trough].actual
    BY <1>2, <2>2, <2>3, <2>4, RequestCovered
  <2> HIDE DEF y
  <2> QED BY <1>1, <2>1, <2>2, <2>4, <2>5
<1>4. ASSUME NEW d \in Devices, DeviceUnlockBall(d) PROVE KicksInv'
  <2> DEFINE x == [dev[d] EXCEPT !.max_count = dev[d].max_count - 1]
             y == RequestedTimes(x, 1)
  <2>1. dev' = [dev EXCEPT ![d] = y] /\ Restart(d) /\ dev[d].max_count > 0
    BY <1>4 DEF DeviceUnlockBall, Requested
  <2>2. /\ x \in Record /\ x.actual = dev[d].actual /\ x.state = dev[d].state
        /\ x.kicks_needed = dev[d].kicks_needed
    <3>1. dev[d] \in Record /\ dev[d].max_count - 1 \in 0 .. Byte - 1
      BY <2>1, TableFacts, Fields, Numbers
    <3> QED BY <3>1 DEF Record
  <2>3. UNCHANGED <<ball, cpu>> /\ InFlight' = InFlight /\ cpu = Nobody
    BY <1>4 DEF DeviceUnlockBall, physical, solenoid, InFlight, Quiet
  <2> HIDE DEF x
  <2>4. y.actual = x.actual /\ y.state = x.state /\ y.kicks_needed <= x.actual
    BY <1>2, <2>2, <2>3, RequestCovered
  <2> HIDE DEF y
  <2> QED BY <1>1, <2>1, <2>2, <2>3, <2>4
<1>5. ASSUME NEW d \in Devices, DeviceRequestEmpty(d) PROVE KicksInv'
  <2> DEFINE x == dev[d]
             k == (x.kicks_needed + KickableCount(x)) % Byte
             y == [x EXCEPT !.kicks_needed = k, !.kick_errors = 0, !.max_count = InitMax[d]]
  <2>1. dev' = [dev EXCEPT ![d] = y] /\ Restart(d)
    BY <1>5 DEF DeviceRequestEmpty, Emptied
  <2>2. UNCHANGED <<ball, cpu>> /\ InFlight' = InFlight /\ cpu = Nobody
    BY <1>5 DEF DeviceRequestEmpty, physical, solenoid, InFlight, Quiet
  <2>3. k = x.actual
    <3>1. x.kicks_needed <= x.actual /\ x.kicks_needed \in 0 .. 255 /\ x.actual \in 0 .. 15
      BY <1>2, <2>2, KicksFacts, Fields
    <3> DEFINE a == x.actual
               n == x.kicks_needed
    <3> HIDE DEF a, n
    <3>2. n <= a /\ n \in 0 .. 255 /\ a \in 0 .. 15
      BY <3>1 DEF a, n
    <3>3. (a - n) % 256 = a - n
      BY <3>2
    <3>4. n + (a - n) = a /\ a % 256 = a
      BY <3>2
    <3> QED BY <3>3, <3>4, Numbers DEF KickableCount, a, n
  <2> HIDE DEF k
  <2>4. y.actual = x.actual /\ y.state = x.state /\ y.kicks_needed = k
    BY KicksFacts DEF Record
  <2>5. y.kicks_needed <= x.actual
    BY <2>3, <2>4, KicksFacts
  <2> HIDE DEF y
  <2> QED BY <1>1, <2>1, <2>2, <2>4, <2>5
<1> QED BY <1>3, <1>4, <1>5 DEF Requests

LEMMA LockKicks ==
  ASSUME DeviceInv, KicksInv, NEW d \in Devices, DeviceLockBall(d)
  PROVE  KicksInv'
<1> DEFINE y == [dev[d] EXCEPT !.max_count = dev[d].max_count + 1]
           mid == [dev EXCEPT ![d] = y]
           left == [todo EXCEPT ![d] = todo[d] - 1]
           r == RequestedTimes(dev[Trough], 1)
<1>1. /\ at[d] = "enter" /\ todo[d] > 0 /\ d # Trough /\ dev[d].max_count < Size[d]
      /\ \/ at' = at /\ todo' = left /\ dev' = mid
         \/ /\ at' = [at EXCEPT ![Trough] = "settle"]
            /\ todo' = [left EXCEPT ![Trough] = 0]
            /\ dev' = [mid EXCEPT ![Trough] = r]
  BY LockEffect
<1>2. cpu = d /\ cpu' = d /\ ball' = ball /\ InFlight' = InFlight
  <2>1. cpu = d /\ UNCHANGED <<physical, solenoid, cpu>>
    BY Zenon DEF DeviceLockBall, Throw
  <2> QED BY <2>1 DEF physical, solenoid, InFlight
<1>3. KickOK(d, ball[d], y, at[d], todo[d] - 1, d, InFlight)
  <2>1. y.actual = dev[d].actual /\ y.state = dev[d].state /\ y.kicks_needed = dev[d].kicks_needed
    BY KicksFacts DEF Record
  <2>2. KickOK(d, ball[d], dev[d], at[d], todo[d], d, InFlight)
    BY <1>2, KicksFacts
  <2> QED BY <1>1, <2>1, <2>2 DEF KickOK, ToCome
<1>4. KickOK(Trough, ball[Trough], r, "settle", 0, d, InFlight)
  <2>1. /\ Trough \in Devices /\ dev[Trough] \in Record /\ at[Trough] \notin Running
        /\ KickOK(Trough, ball[Trough], dev[Trough], at[Trough], todo[Trough], d, InFlight)
    BY <1>1, <1>2, KicksFacts, Numbers DEF KickOK
  <2>2. dev[Trough].kicks_needed <= dev[Trough].actual
    BY <2>1, KicksFacts DEF KickOK, Running, ToCome
  <2>3. /\ r.actual = dev[Trough].actual /\ r.state = dev[Trough].state
        /\ r.kicks_needed <= dev[Trough].actual
    BY <2>1, <2>2, RequestCovered
  <2> HIDE DEF r
  <2> QED BY <2>1, <2>3, KicksFacts DEF KickOK, Running, ToCome
<1>5. ASSUME NEW e \in Devices
      PROVE  KickOK(e, ball'[e], dev'[e], at'[e], todo'[e], cpu', InFlight')
  <2>1. Trough \in Devices
    BY Numbers
  <2>2. CASE at' = at /\ todo' = left /\ dev' = mid
    <3>1. CASE e = d
      BY <1>2, <1>3, <2>2, <3>1, KicksFacts
    <3>2. CASE e # d
      BY <1>2, <2>2, <3>2, KicksFacts
    <3> QED BY <3>1, <3>2
  <2>3. CASE /\ at' = [at EXCEPT ![Trough] = "settle"]
             /\ todo' = [left EXCEPT ![Trough] = 0]
             /\ dev' = [mid EXCEPT ![Trough] = r]
    <3>1. CASE e = d
      <4>1. dev'[e] = y /\ at'[e] = at[d] /\ todo'[e] = todo[d] - 1
        BY <1>1, <2>1, <2>3, <3>1, KicksFacts
      <4> QED BY <1>2, <1>3, <3>1, <4>1
    <3>2. CASE e = Trough
      <4>1. dev'[e] = r /\ at'[e] = "settle" /\ todo'[e] = 0
        BY <2>1, <2>3, <3>2, KicksFacts
      <4> QED BY <1>2, <1>4, <3>2, <4>1
    <3>3. CASE e # d /\ e # Trough
      <4>1. dev'[e] = dev[e] /\ at'[e] = at[e] /\ todo'[e] = todo[e]
        BY <2>1, <2>3, <3>3, KicksFacts
      <4> QED BY <1>2, <4>1, KicksFacts
    <3> QED BY <3>1, <3>2, <3>3
  <2> QED BY <1>1, <2>2, <2>3
<1> QED BY <1>5 DEF KicksInv

LEMMA ProbeKicks ==
  ASSUME DeviceInv, KicksInv, DeviceProbe
  PROVE  KicksInv'
<1>1. /\ dev' = [d \in Devices |-> IF d \in Probed THEN Cleared(d) ELSE dev[d]]
      /\ at' = [d \in Devices |-> IF d \notin Probed THEN at[d]
                                  ELSE IF d \in Extra THEN "settle" ELSE "none"]
      /\ todo' = [d \in Devices |-> IF d \in Probed THEN 0 ELSE todo[d]]
      /\ ball' = ball /\ cpu' = cpu /\ InFlight' = InFlight
  BY DEF DeviceProbe, physical, solenoid, InFlight
<1>2. ASSUME NEW d \in Devices
      PROVE  KickOK(d, ball'[d], dev'[d], at'[d], todo'[d], cpu', InFlight')
  <2>1. KickOK(d, ball[d], dev[d], at[d], todo[d], cpu, InFlight)
    BY KicksFacts
  <2>2. CASE d \notin Probed
    BY <1>1, <2>1, <2>2
  <2>3. CASE d \in Probed
    <3>1. dev'[d] = Cleared(d) /\ at'[d] \in {"none", "settle"} /\ todo'[d] = 0
      BY <1>1, <2>3
    <3> DEFINE k == IF d \in Extra THEN 1 ELSE 0
    <3>2. Cleared(d).actual = ball[d] /\ Cleared(d).state = dev[d].state /\ Cleared(d).kicks_needed = k
      BY KicksFacts DEF Cleared, Record
    <3>3. k <= ball[d]
      <4>1. d \in Extra => ball[d] > InitMax[d] /\ InitMax[d] \in 0 .. 255
        BY Numbers DEF Extra
      <4> QED BY <4>1, KicksFacts
    <3> HIDE DEF k
    <3>4. ball'[d] = ball[d] /\ cpu' = cpu /\ InFlight' = InFlight
      BY <1>1
    <3> QED BY <2>1, <3>1, <3>2, <3>3, <3>4, KicksFacts DEF KickOK, Running, ToCome
  <2> QED BY <2>2, <2>3
<1> QED BY <1>2 DEF KicksInv

LEMMA KicksStep == DeviceInv /\ Plain /\ KicksInv /\ [Next]_vars => KicksInv'
<1> SUFFICES ASSUME DeviceInv, Plain, KicksInv, [Next]_vars PROVE KicksInv'
  OBVIOUS
<1>1. CASE StartGame \/ StartRefused \/ StartIgnored \/ StopGame \/ AmodeStart
           \/ ProbeGivesUp \/ ProbeExit \/ UNCHANGED vars
  <2>1. UNCHANGED <<physical, dev, tasks, solenoid>>
    BY <1>1, Zenon DEF StartGame, StartRefused, StartIgnored, StopGame, AmodeStart, ProbeGivesUp,
       ProbeExit, table, vars
  <2> QED BY <2>1 DEF physical, tasks, solenoid, KicksInv, InFlight
<1>2. ASSUME NEW d \in Devices, Update(d) \/ DeviceSwHandler(d) PROVE KicksInv'
  BY <1>2, RecountKicks, EventKicks, DecideKicks, LockKicks DEF Update
<1> QED BY <1>1, <1>2, BallKicks, TroughKicks, RequestKicks, ProbeKicks DEF Next, Game, Probe

(* No more kicks are pending than a device has balls, whenever another     *)
(* task could ask for one: neither requests from game code, nor locks, nor *)
(* drains, nor failed kicks make the byte of kickable balls wrap, if no    *)
(* handler sleeps and only devices for one ball are leaky.                 *)
THEOREM NoKickUncovered == Plain /\ Spec => []KicksCovered
<1>1. Init => KicksInv
  <2> SUFFICES ASSUME Init, NEW d \in Devices
               PROVE  KickOK(d, ball[d], dev[d], at[d], todo[d], cpu, InFlight)
    BY DEF KicksInv
  <2>1. /\ ball[d] \in 0 .. NumBalls /\ ball[d] <= Size[d] /\ Size[d] \in 1 .. 255
        /\ dev[d].actual = 0 /\ dev[d].kicks_needed = 0 /\ at[d] = "none" /\ InFlight = Nobody
    BY Numbers DEF Init, InFlight
  <2> QED BY <2>1, Numbers DEF KickOK, Running, ToCome
<1>2. DeviceInv /\ Plain /\ KicksInv /\ [Next]_vars => KicksInv'
  BY KicksStep
<1>3. DeviceInv /\ KicksInv => KicksCovered
  BY CoveredThen
<1>4. Plain => Plain'
  BY DEF Plain
<1> QED BY <1>1, <1>2, <1>3, <1>4, DeviceInvariance, PTL DEF Spec

-----------------------------------------------------------------------------
(* Balls that a device holds without being known to hold them.  Once the   *)
(* probe is over, a device knows its balls and may keep them, or a task is *)
(* there, or will be, to see to it.  The trough, where a task may be taken *)
(* over for the end of the ball, knows them as long as it has the CPU.     *)
Known(d) == \/ ball[d] = dev[d].actual /\ ball[d] <= dev[d].max_count
            \/ d \in moved \/ at[d] # "none"

AllKnown == probe # "scan" => \A d \in Devices : Known(d)

TroughKnows == /\ at[Trough] = "enter" => cpu = Trough /\ dev[Trough].actual = ball[Trough]
               /\ dev[Trough].max_count = InitMax[Trough]
               /\ ball[Trough] <= Size[Trough]

(* The trough may keep what it holds, and its handlers do not sleep.       *)
RoomyTrough == InitMax[Trough] = Size[Trough] /\ Trough \notin Sleepy

LEMMA RequestKeeps ==
  ASSUME NEW x \in Record, NEW n
  PROVE  /\ RequestedTimes(x, n).actual = x.actual
         /\ RequestedTimes(x, n).max_count = x.max_count
  BY DEF RequestedTimes, Record

(* What a step of the update task of d leaves alone.                       *)
LEMMA UpdateEffect ==
  ASSUME DeviceInv, NEW d \in Devices, Update(d) \/ DeviceSwHandler(d), ~ DeviceLockBall(d)
  PROVE  /\ Only(dev, dev', d) /\ Only(at, at', d) /\ dev'[d].max_count = dev[d].max_count
         /\ ball' = ball /\ moved \ {d} \subseteq moved' /\ probe' = probe
         /\ cpu \in {d, Nobody}
         /\ at'[d] = "none" => Finish(d)
         /\ at'[d] = "enter" => \/ cpu' = d /\ (CountRose(d) \/ EnterUnheard(d) \/ HandlerWakes(d))
                                \/ d \in Sleepy
                                \/ DeviceSwHandler(d) /\ at[d] = "enter" /\ cpu' = cpu /\ dev' = dev
<1>0. /\ dev \in [Devices -> Record] /\ at \in [Devices -> Phases] /\ dev[d] \in Record
      /\ Only(dev, dev, d) /\ Only(at, at, d)
  BY TableFacts
<1>1. CASE CountSame(d) \/ SurpriseRelease(d) \/ CountRose(d) \/ KickWorked(d)
  <2>1. dev' = [dev EXCEPT ![d] = [dev[d] EXCEPT !.actual = ball[d]]]
    BY <1>0, <1>1 DEF CountSame, SurpriseRelease, CountRose, KickWorked, Recounted
  <2>2. Only(dev, dev', d) /\ dev'[d].max_count = dev[d].max_count
    BY <1>0, <2>1 DEF Only, Record
  <2>3. /\ ball' = ball /\ moved' = moved /\ probe' = probe /\ cpu \in {d, Nobody}
    BY <1>1 DEF CountSame, SurpriseRelease, CountRose, KickWorked, Recount, physical, probing, Quiet
  <2>4. /\ Only(at, at', d) /\ at'[d] # "none"
        /\ at'[d] = "enter" => CountRose(d) /\ cpu' = d
    BY <1>0, <1>1 DEF CountSame, SurpriseRelease, CountRose, KickWorked, Goto, Only
  <2> QED BY <2>2, <2>3, <2>4
<1>2. CASE KickFailed(d) \/ KickGivenUp(d)
  <2>1. Only(dev, dev', d) /\ dev'[d].max_count = dev[d].max_count
    BY <1>0, <1>2 DEF KickFailed, KickGivenUp, Recounted, Only, Record
  <2>2. /\ ball' = ball /\ moved' = moved /\ probe' = probe /\ cpu \in {d, Nobody}
    BY <1>2 DEF KickFailed, KickGivenUp, Recount, physical, probing, Quiet
  <2>3. Only(at, at', d) /\ at'[d] \in {"retry", "decide"}
    BY <1>0, <1>2 DEF KickFailed, KickGivenUp, Goto, Only
  <2> QED BY <2>1, <2>2, <2>3
<1>3. CASE EnterUnheard(d) \/ EntersDone(d) \/ KickSuccess(d) \/ HandlerSleeps(d) \/ HandlerWakes(d)
  <2>1. dev' = dev /\ ball' = ball /\ moved' = moved /\ probe' = probe /\ cpu \in {d, Nobody}
    BY <1>3 DEF EnterUnheard, EntersDone, KickSuccess, HandlerSleeps, HandlerWakes, Throw, table,
         physical, probing, Quiet
  <2>2. Only(at, at', d) /\ at'[d] # "none"
    BY <1>0, <1>3 DEF EnterUnheard, EntersDone, KickSuccess, HandlerSleeps, HandlerWakes, Throw,
         Thrown, Goto, Only
  <2>3. at'[d] = "enter" => \/ cpu' = d /\ (EnterUnheard(d) \/ HandlerWakes(d))
                            \/ d \in Sleepy
    BY <1>0, <1>3 DEF EnterUnheard, EntersDone, KickSuccess, HandlerSleeps, HandlerWakes, Throw,
         Thrown, Goto
  <2> QED BY <1>0, <2>1, <2>2, <2>3
<1>4. CASE KickCounted(d)
  <2>1. Only(dev, dev', d) /\ dev'[d].max_count = dev[d].max_count
    BY <1>0, <1>4 DEF KickCounted, Only, Record
  <2>2. ball' = ball /\ moved' = moved /\ probe' = probe /\ cpu \in {d, Nobody}
    BY <1>4 DEF KickCounted, Throw, physical, probing
  <2>3. Only(at, at', d) /\ at'[d] \in {"decide", "success"}
    BY <1>0, <1>4 DEF KickCounted, Only
  <2> QED BY <2>1, <2>2, <2>3
<1>5. CASE Finish(d) \/ Delay(d) \/ KickAttempt(d)
  <2>1. Decided(dev[d]) \in Record /\ Decided(dev[d]).max_count = dev[d].max_count
    <3>1. 0 \in 0 .. Byte - 1 /\ 1 \in 0 .. Byte - 1
      BY Numbers
    <3> DEFINE w == [dev[d] EXCEPT !.kicks_needed = 1]
    <3>2. w \in Record /\ w.max_count = dev[d].max_count
      BY <1>0, <3>1 DEF Record
    <3>3. Decided(dev[d]) \in {dev[d], [w EXCEPT !.kick_errors = 0]}
      BY DEF Decided
    <3> HIDE DEF w
    <3>4. [w EXCEPT !.kick_errors = 0] \in Record /\ [w EXCEPT !.kick_errors = 0].max_count = w.max_count
      BY <3>1, <3>2 DEF Record
    <3> QED BY <1>0, <3>2, <3>3, <3>4
  <2>2. CASE Finish(d)
    <3>1. Only(dev, dev', d) /\ dev'[d].max_count = dev[d].max_count
      BY <1>0, <2>2 DEF Finish, Only, Record
    <3>2. Only(at, at', d) /\ at'[d] \in {"none", "settle"}
      BY <1>0, <2>2 DEF Finish, Goto, Only
    <3>3. ball' = ball /\ moved' = moved /\ probe' = probe /\ cpu \in {d, Nobody}
      BY <2>2 DEF Finish, Decide, physical, probing, Quiet
    <3> QED BY <2>2, <3>1, <3>2, <3>3
  <2>3. CASE Delay(d) \/ KickAttempt(d)
    <3> DEFINE z == Decided(dev[d])
    <3>1. dev' \in {[dev EXCEPT ![d] = z], [dev EXCEPT ![d] = [z EXCEPT !.state = "releasing"]]}
      BY <2>3 DEF Delay, KickAttempt
    <3>2. Only(at, at', d) /\ at'[d] \in {"settle", "attempt"}
      BY <1>0, <2>3 DEF Delay, KickAttempt, Goto, Only
    <3>3. ball' = ball /\ moved' = moved /\ probe' = probe /\ cpu \in {d, Nobody}
      BY <2>3 DEF Delay, KickAttempt, Decide, physical, probing, Quiet
    <3>0. z \in Record
      BY <2>1
    <3> HIDE DEF z
    <3>4. Only(dev, dev', d) /\ dev'[d] \in {z, [z EXCEPT !.state = "releasing"]}
      BY <1>0, <3>1 DEF Only
    <3>5. dev'[d].max_count = z.max_count
      BY <3>0, <3>4 DEF Record
    <3> QED BY <2>1, <3>2, <3>3, <3>4, <3>5 DEF z
  <2> QED BY <1>5, <2>2, <2>3
<1>6. CASE SolAllocWaits(d) \/ SolAlloc(d) \/ SolFree(d)
  <2>1. dev' = dev /\ ball' = ball /\ moved' = moved /\ probe' = probe /\ cpu \in {d, Nobody}
    BY <1>6 DEF SolAllocWaits, SolAlloc, SolFree, table, physical, probing, Quiet
  <2>2. Only(at, at', d) /\ at'[d] \in {"attempt", "pulse", "settle"}
    BY <1>0, <1>6 DEF SolAllocWaits, SolAlloc, SolFree, Goto, Only
  <2> QED BY <1>0, <2>1, <2>2
<1>7. CASE DeviceSwHandler(d)
  <2>1. /\ dev' = dev /\ ball' = ball /\ moved' = moved \ {d} /\ probe' = probe /\ cpu = Nobody
        /\ cpu' = cpu
    BY <1>7 DEF DeviceSwHandler, table, probing, Quiet
  <2>2. /\ Only(at, at', d) /\ at'[d] # "none" /\ (at'[d] = "enter" => at[d] = "enter")
    BY <1>0, <1>7 DEF DeviceSwHandler, Only
  <2> QED BY <1>0, <1>7, <2>1, <2>2
<1> QED BY <1>1, <1>2, <1>3, <1>4, <1>5, <1>6, <1>7 DEF Update

LEMMA KnownFrame ==
  ASSUME DeviceInv, AllKnown, NEW d \in Devices,
         Only(ball, ball', d), Only(dev, dev', d), Only(at, at', d),
         moved \ {d} \subseteq moved', probe' \in {probe, "scan"},
         AllKnown => probe' = "scan" \/ Known(d)'
  PROVE  AllKnown'
<1> SUFFICES ASSUME probe' # "scan", NEW e \in Devices PROVE Known(e)'
  BY DEF AllKnown
<1>1. CASE e = d
  BY <1>1
<1>2. CASE e # d
  <2>1. ball'[e] = ball[e] /\ dev'[e] = dev[e] /\ at'[e] = at[e]
    BY <1>2, TableFacts DEF Only, DeviceInv, Physical, Counts
  <2>2. Known(e)
    BY DEF AllKnown
  <2> QED BY <1>2, <2>1, <2>2 DEF Known
<1> QED BY <1>1, <1>2

(* Only the trough's own task and its requests touch the trough.           *)
LEMMA TroughStep ==
  ASSUME DeviceInv, RoomyTrough, TroughKnows, Next
  PROVE  TroughKnows'
<1> DEFINE T == Trough
<1>0. /\ T \in Devices /\ Nobody \notin Devices /\ T # Nobody /\ dev \in [Devices -> Record]
      /\ at \in [Devices -> Phases] /\ ball \in [Devices -> 0 .. NumBalls] /\ dev[T] \in Record
      /\ ball[T] \in Nat /\ Size[T] \in Nat
  <2>1. T \in Devices /\ Nobody \notin Devices /\ Size[T] \in Nat /\ NumBalls \in Nat
    BY Numbers
  <2>2. ball \in [Devices -> 0 .. NumBalls]
    BY DEF DeviceInv, Physical, Counts
  <2>3. dev \in [Devices -> Record] /\ at \in [Devices -> Phases]
    BY DEF DeviceInv, Table, TableOf
  <2>4. ball[T] \in 0 .. NumBalls
    BY <2>1, <2>2
  <2> QED BY <2>1, <2>2, <2>3, <2>4
<1>1. CASE UNCHANGED <<ball, dev, at>> /\ (at[T] = "enter" => cpu' = T)
  BY <1>1 DEF TroughKnows
<1>2. CASE Playfield \/ Pulse
  <2>1. cpu = Nobody /\ UNCHANGED <<dev, at, cpu>>
    BY <1>2 DEF Playfield, Pulse, PulseKicks, PulseFails, PulseEnds, BallEnters, BallEscapes,
         BallFallsBack, BallGone, SetValidPlayfield, KickoutLock, Quiet, table, tasks
  <2>2. ball' = ball \/ \E d \in Devices : \/ ball' = [ball EXCEPT ![d] = ball[d] + 1] /\ ball[d] < Size[d]
                                           \/ ball' = [ball EXCEPT ![d] = ball[d] - 1]
    <3>1. CASE Playfield
      BY <3>1 DEF Playfield, BallEnters, BallEscapes, BallFallsBack, BallGone, SetValidPlayfield,
         KickoutLock, physical
    <3>2. CASE Pulse
      <4>1. sol_pulsing \in Devices
        BY <3>2 DEF Pulse, PulseKicks, PulseFails, PulseEnds, DeviceInv, Solenoid
      <4> QED BY <3>2, <4>1 DEF Pulse, PulseKicks, PulseFails, physical
    <3> QED BY <1>2, <3>1, <3>2
  <2>3. ball'[T] <= Size[T]
    BY <1>0, <2>2 DEF TroughKnows
  <2> QED BY <1>0, <2>1, <2>3 DEF TroughKnows
<1>3. CASE StartGame \/ StartRefused \/ StartIgnored \/ StopGame \/ AmodeStart
           \/ ProbeGivesUp \/ ProbeExit
  BY <1>1, <1>3 DEF StartGame, StartRefused, StartIgnored, StopGame, AmodeStart, ProbeGivesUp,
       ProbeExit, physical, table, tasks, TroughKnows
<1>4. CASE StartBall \/ Requests
  <2>1. /\ ball' = ball /\ \A n : /\ RequestedTimes(dev[T], n).actual = dev[T].actual
                                  /\ RequestedTimes(dev[T], n).max_count = dev[T].max_count
    BY <1>0, <1>4, RequestKeeps DEF StartBall, Requests, SetBallCount, DeviceUnlockBall,
       DeviceRequestEmpty, physical
  <2>2. CASE StartBall \/ \E n \in 1 .. NumBalls : SetBallCount(n)
    <3>1. at'[T] = "settle" /\ \E n : dev' = [dev EXCEPT ![T] = RequestedTimes(dev[T], n)]
      BY <1>0, <2>2 DEF StartBall, SetBallCount, Restart, Requested
    <3> QED BY <1>0, <2>1, <3>1 DEF TroughKnows
  <2>3. ASSUME NEW d \in Devices, DeviceUnlockBall(d) \/ DeviceRequestEmpty(d) PROVE TroughKnows'
    <3>1. cpu = Nobody /\ d # T /\ at'[T] = at[T] /\ dev'[T] = dev[T]
      BY <1>0, <2>3 DEF DeviceUnlockBall, DeviceRequestEmpty, Restart, Quiet
    <3> QED BY <1>0, <2>1, <3>1 DEF TroughKnows
  <2> QED BY <1>4, <2>2, <2>3 DEF Requests
<1>5. CASE DeviceProbe
  <2>1. /\ cpu = Nobody /\ ball' = ball
        /\ dev'[T] = IF T \in Probed THEN Cleared(T) ELSE dev[T]
        /\ at'[T] \in {at[T], "settle", "none"}
    BY <1>0, <1>5 DEF DeviceProbe, Quiet, physical
  <2>2. Cleared(T).max_count = InitMax[T]
    BY <1>0 DEF Cleared, Record
  <2> QED BY <1>0, <2>1, <2>2 DEF TroughKnows
<1>6. CASE TroughEnter
  <2>1. /\ cpu = T /\ ball' = ball
        /\ \/ at' = at /\ cpu' = cpu
           \/ at' = [at EXCEPT ![T] = "none"]
        /\ dev' \in {dev, [dev EXCEPT ![T] = RequestedTimes(dev[T], 1)]}
    BY <1>6 DEF TroughEnter, RemoveMissing, RemoveNothing, BallSaved, DrainMultiball, ServeAgain,
       EndBall, BallDrain, Throw, Thrown, Requested, physical
  <2>2. dev'[T].actual = dev[T].actual /\ dev'[T].max_count = dev[T].max_count
    BY <1>0, <2>1, RequestKeeps
  <2> QED BY <1>0, <2>1, <2>2 DEF TroughKnows
<1>7. ASSUME NEW d \in Devices, DeviceLockBall(d) PROVE TroughKnows'
  <2>1. /\ d # T /\ cpu = d /\ ball' = ball
        /\ at'[T] \in {at[T], "settle"} /\ dev'[T] \in {dev[T], RequestedTimes(dev[T], 1)}
    <3>1. d # T /\ cpu = d /\ ball' = ball
      BY <1>7 DEF DeviceLockBall, Throw, physical
    <3>2. at'[T] \in {at[T], "settle"} /\ dev'[T] \in {dev[T], RequestedTimes(dev[T], 1)}
      BY <1>0, <1>7, <3>1, LockEffect
    <3> QED BY <3>1, <3>2
  <2>2. dev'[T].actual = dev[T].actual /\ dev'[T].max_count = dev[T].max_count
    BY <1>0, <2>1, RequestKeeps
  <2> QED BY <1>0, <2>1, <2>2 DEF TroughKnows
<1>8. ASSUME NEW d \in Devices, Update(d) \/ DeviceSwHandler(d), ~ DeviceLockBall(d)
      PROVE  TroughKnows'
  <2>1. /\ Only(dev, dev', d) /\ Only(at, at', d) /\ dev'[d].max_count = dev[d].max_count
        /\ ball' = ball /\ cpu \in {d, Nobody}
        /\ at'[d] = "enter" => \/ cpu' = d /\ (CountRose(d) \/ EnterUnheard(d) \/ HandlerWakes(d))
                               \/ d \in Sleepy
                               \/ DeviceSwHandler(d) /\ at[d] = "enter" /\ cpu' = cpu /\ dev' = dev
    BY <1>8, UpdateEffect
  <2>2. CASE d # T
    <3>1. at'[T] = at[T] /\ dev'[T] = dev[T]
      BY <1>0, <2>1, <2>2 DEF Only
    <3> QED BY <1>0, <2>1, <2>2, <3>1 DEF TroughKnows
  <2>3. CASE d = T /\ at'[T] # "enter"
    BY <2>1, <2>3 DEF TroughKnows
  <2>4. CASE d = T /\ at'[T] = "enter"
    <3>1. CASE DeviceSwHandler(T) /\ at[T] = "enter" /\ cpu' = cpu /\ dev' = dev
      BY <2>1, <3>1 DEF TroughKnows
    <3>2. CASE CountRose(T) /\ cpu' = T
      <4>1. dev'[T].actual = ball[T]
        BY <1>0, <3>2 DEF CountRose, Recounted, Record
      <4> QED BY <2>1, <2>4, <3>2, <4>1 DEF TroughKnows
    <3>3. CASE EnterUnheard(T) /\ cpu' = T
      <4>1. dev' = dev /\ at[T] = "enter"
        BY <3>3 DEF EnterUnheard, Throw, table
      <4> QED BY <2>1, <2>4, <3>3, <4>1 DEF TroughKnows
    <3>4. CASE HandlerWakes(T) /\ cpu' = T
      <4>1. cpu = Nobody /\ dev' = dev /\ at' = at
        BY <3>4 DEF HandlerWakes, Quiet, table
      <4> QED BY <1>0, <2>4, <4>1 DEF TroughKnows
    <3> QED BY <2>1, <2>4, <3>1, <3>2, <3>3, <3>4 DEF RoomyTrough
  <2> QED BY <2>2, <2>3, <2>4
<1> QED BY <1>2, <1>3, <1>4, <1>5, <1>6, <1>7, <1>8 DEF Next, Game, Probe, Update

LEMMA BallMoves ==
  ASSUME DeviceInv, AllKnown, Playfield \/ Pulse
  PROVE  AllKnown'
<1>0. ball \in [Devices -> 0 .. NumBalls] /\ dev \in [Devices -> Record] /\ at \in [Devices -> Phases]
  BY DEF DeviceInv, Physical, Counts, Table, TableOf
<1>1. dev' = dev /\ at' = at /\ probe' = probe
  BY DEF Playfield, Pulse, PulseKicks, PulseFails, BallEnters, BallEscapes, BallFallsBack, BallGone,
     SetValidPlayfield, KickoutLock, table, tasks, probing
<1>2. ASSUME NEW d \in Devices, BallEnters(d) \/ BallEscapes(d) \/ BallFallsBack(d)
      PROVE  AllKnown'
  <2>1. Only(ball, ball', d)
    BY <1>0, <1>2 DEF BallEnters, BallEscapes, BallFallsBack, Only
  <2>2. moved' = moved \cup {d}
    BY <1>2 DEF BallEnters, BallEscapes, BallFallsBack
  <2> QED BY <1>0, <1>1, <2>1, <2>2, Unchanging, KnownFrame DEF Known
<1>3. CASE PulseKicks
  <2>1. sol_pulsing \in Devices
    BY <1>3 DEF PulseKicks, PulseEnds, DeviceInv, Solenoid
  <2>2. Only(ball, ball', sol_pulsing) /\ moved' = moved \cup {sol_pulsing}
    BY <1>0, <1>3, <2>1 DEF PulseKicks, Only
  <2> QED BY <1>0, <1>1, <2>1, <2>2, Unchanging, KnownFrame DEF Known
<1>4. CASE UNCHANGED <<ball, moved>>
  BY <1>1, <1>4 DEF AllKnown, Known
<1>5. ASSUME NEW d \in Devices, BallGone(d) PROVE UNCHANGED <<ball, moved>>
  BY <1>5 DEF BallGone
<1>6. SetValidPlayfield \/ KickoutLock \/ PulseFails => UNCHANGED <<ball, moved>>
  BY DEF SetValidPlayfield, KickoutLock, PulseFails, physical
<1> QED BY <1>2, <1>3, <1>4, <1>5, <1>6 DEF Playfield, Pulse

(* The update task ends only when the count is right and not excessive.    *)
LEMMA UpdateKnows ==
  ASSUME DeviceInv, AllKnown, NEW d \in Devices, Update(d) \/ DeviceSwHandler(d),
         ~ DeviceLockBall(d)
  PROVE  AllKnown'
<1>0. ball \in [Devices -> 0 .. NumBalls] /\ dev[d] \in Record /\ dev \in [Devices -> Record]
  BY TableFacts DEF DeviceInv, Physical, Counts
<1>1. /\ Only(dev, dev', d) /\ Only(at, at', d) /\ dev'[d].max_count = dev[d].max_count
      /\ ball' = ball /\ moved \ {d} \subseteq moved' /\ probe' = probe
      /\ at'[d] = "none" => Finish(d)
  BY UpdateEffect
<1>2. CASE at'[d] # "none"
  BY <1>0, <1>1, <1>2, Unchanging, KnownFrame DEF Known
<1>3. CASE Finish(d) /\ at'[d] = "none"
  <2>1. ball[d] = dev[d].actual /\ dev'[d].actual = ball[d]
    <3>1. at' = [at EXCEPT ![d] = IF ball[d] = dev[d].actual THEN "none" ELSE "settle"]
      BY <1>3 DEF Finish, Goto
    <3>2. at'[d] = IF ball[d] = dev[d].actual THEN "none" ELSE "settle"
      BY <3>1, TableFacts
    <3>3. dev'[d] = [dev[d] EXCEPT !.kicks_needed = 0, !.actual = ball[d]]
      BY <1>0, <1>3 DEF Finish
    <3>4. dev'[d].actual = ball[d]
      BY <1>0, <3>3 DEF Record
    <3> QED BY <1>3, <3>2, <3>4
  <2>2. ball[d] <= dev[d].max_count
    <3> DEFINE a == dev[d].actual
               m == dev[d].max_count
               k == dev[d].kicks_needed
    <3>1. a \in Nat /\ m \in Nat /\ k \in Nat
      BY <1>0, Numbers DEF Record
    <3>2. ~ MustKick(Decided(dev[d]))
      BY <1>3 DEF Finish
    <3>3. CASE Overfull(dev[d])
      <4>1. /\ Decided(dev[d]) = [dev[d] EXCEPT !.kicks_needed = 1, !.kick_errors = 0]
            /\ a > m
        BY <3>3 DEF Decided, Overfull
      <4>2. Decided(dev[d]).kicks_needed = 1 /\ Decided(dev[d]).actual = a
        BY <1>0, <4>1 DEF Record
      <4> QED BY <3>1, <3>2, <4>1, <4>2 DEF MustKick
    <3>4. CASE ~ Overfull(dev[d])
      <4>1. ~ (k > 0 /\ a > 0) /\ ~ (k = 0 /\ a > m)
        BY <3>2, <3>4 DEF MustKick, Overfull, Decided
      <4> HIDE DEF a, m, k
      <4>2. a <= m
        BY <3>1, <4>1
      <4> QED BY <2>1, <4>2 DEF a, m
    <3> QED BY <3>3, <3>4
  <2>3. Known(d)'
    BY <1>1, <2>1, <2>2 DEF Known
  <2> QED BY <1>0, <1>1, <2>3, Unchanging, KnownFrame
<1> QED BY <1>1, <1>2, <1>3

LEMMA LockKnows ==
  ASSUME DeviceInv, AllKnown, NEW d \in Devices, DeviceLockBall(d)
  PROVE  AllKnown'
<1> DEFINE y == [dev[d] EXCEPT !.max_count = dev[d].max_count + 1]
           mid == [dev EXCEPT ![d] = y]
           r == RequestedTimes(dev[Trough], 1)
<1>0. /\ dev \in [Devices -> Record] /\ at \in [Devices -> Phases] /\ Trough \in Devices
  BY TableFacts, Numbers
<1>1. ball' = ball /\ moved' = moved /\ probe' = probe
  BY DEF DeviceLockBall, Throw, physical, probing
<1>2. /\ at[d] = "enter" /\ d # Trough
      /\ \/ at' = at /\ dev' = mid
         \/ at' = [at EXCEPT ![Trough] = "settle"] /\ dev' = [mid EXCEPT ![Trough] = r]
  BY LockEffect
<1>3. \A e \in Devices \ {d, Trough} : at'[e] = at[e] /\ dev'[e] = dev[e]
  BY <1>0, <1>2
<1>4. at'[d] = "enter"
  BY <1>0, <1>2
<1>5. at'[Trough] = "settle" \/ (at'[Trough] = at[Trough] /\ dev'[Trough] = dev[Trough])
  BY <1>0, <1>2
<1>6. ASSUME NEW e \in Devices, Known(e) PROVE Known(e)'
  BY <1>1, <1>3, <1>4, <1>5, <1>6 DEF Known
<1> QED BY <1>1, <1>6 DEF AllKnown

(* The other steps: the end of a ball, requests, the probe.                *)
LEMMA RestKnows ==
  ASSUME DeviceInv, RoomyTrough, TroughKnows, AllKnown, ~ ProbeGivesUp,
         TroughEnter \/ Game \/ Probe \/ Requests \/ UNCHANGED vars
  PROVE  AllKnown'
<1> DEFINE T == Trough
<1>0. /\ dev \in [Devices -> Record] /\ at \in [Devices -> Phases] /\ T \in Devices
      /\ InitMax[T] \in Nat /\ dev[T] \in Record
  <2>1. T \in Devices /\ InitMax[T] \in Nat
    BY Numbers
  <2>2. dev \in [Devices -> Record] /\ at \in [Devices -> Phases]
    BY DEF DeviceInv, Table, TableOf
  <2> QED BY <2>1, <2>2
<1>1. CASE UNCHANGED <<ball, dev, at, moved>> /\ (probe' # "scan" => probe # "scan")
  BY <1>1 DEF AllKnown, Known
<1>2. CASE StartGame \/ StartRefused \/ StartIgnored \/ StopGame \/ AmodeStart \/ ProbeExit
           \/ UNCHANGED vars
  BY <1>1, <1>2 DEF StartGame, StartRefused, StartIgnored, StopGame, AmodeStart, ProbeExit,
       physical, table, tasks, probing, vars
<1>3. CASE TroughEnter /\ ~ EndBall
  <2>1. /\ at[T] = "enter" /\ at' = at /\ UNCHANGED <<ball, moved, probe>>
        /\ dev' \in {dev, [dev EXCEPT ![T] = RequestedTimes(dev[T], 1)]}
    BY <1>3 DEF TroughEnter, RemoveMissing, RemoveNothing, BallSaved, DrainMultiball, ServeAgain,
       BallDrain, Throw, Thrown, Requested, physical, probing
  <2>2. ASSUME NEW d \in Devices, Known(d) PROVE Known(d)'
    <3>1. CASE d = T
      BY <2>1, <3>1 DEF Known
    <3>2. CASE d # T
      <4>1. dev'[d] = dev[d]
        BY <1>0, <2>1, <3>2
      <4> QED BY <2>1, <2>2, <4>1 DEF Known
    <3> QED BY <3>1, <3>2
  <2> QED BY <2>1, <2>2 DEF AllKnown
<1>4. CASE EndBall
  <2>1. /\ at[T] = "enter" /\ at' = [at EXCEPT ![T] = "none"] /\ UNCHANGED <<dev, ball, moved, probe>>
    BY <1>4 DEF EndBall, BallDrain, Throw, physical, probing
  <2>2. ball[T] = dev[T].actual /\ ball[T] <= dev[T].max_count
    BY <2>1 DEF TroughKnows, RoomyTrough
  <2>3. ASSUME NEW d \in Devices, Known(d) PROVE Known(d)'
    <3>1. CASE d = T
      BY <2>1, <2>2, <3>1 DEF Known
    <3>2. CASE d # T
      <4>1. at'[d] = at[d]
        BY <1>0, <2>1, <3>2
      <4> QED BY <2>1, <2>3, <4>1 DEF Known
    <3> QED BY <3>1, <3>2
  <2> QED BY <2>1, <2>3 DEF AllKnown
<1>5. ASSUME NEW d \in Devices, NEW y, dev' = [dev EXCEPT ![d] = y], Restart(d),
             UNCHANGED <<ball, moved, probe>>
      PROVE  AllKnown'
  <2>1. at'[d] = "settle"
    BY <1>0, <1>5 DEF Restart
  <2>2. ASSUME NEW e \in Devices, Known(e) PROVE Known(e)'
    <3>1. CASE e = d
      BY <2>1, <3>1 DEF Known
    <3>2. CASE e # d
      <4>1. at'[e] = at[e] /\ dev'[e] = dev[e]
        BY <1>0, <1>5, <3>2 DEF Restart
      <4> QED BY <1>5, <2>2, <4>1 DEF Known
    <3> QED BY <3>1, <3>2
  <2> QED BY <1>5, <2>2 DEF AllKnown
<1>6. CASE StartBall \/ Requests
  <2>1. UNCHANGED <<ball, moved, probe>>
    BY <1>6 DEF StartBall, Requests, SetBallCount, DeviceUnlockBall, DeviceRequestEmpty, physical,
         probing
  <2>2. CASE StartBall
    BY <1>0, <1>5, <2>1, <2>2 DEF StartBall
  <2>3. ASSUME NEW n \in 1 .. NumBalls, SetBallCount(n) PROVE AllKnown'
    BY <1>0, <1>5, <2>1, <2>3 DEF SetBallCount
  <2>4. ASSUME NEW d \in Devices, DeviceUnlockBall(d) \/ DeviceRequestEmpty(d) PROVE AllKnown'
    BY <1>0, <1>5, <2>1, <2>4 DEF DeviceUnlockBall, DeviceRequestEmpty
  <2> QED BY <1>6, <2>2, <2>3, <2>4 DEF Requests
<1>7. CASE DeviceProbe
  <2> SUFFICES ASSUME probe' # "scan", NEW d \in Devices PROVE Known(d)'
    BY DEF AllKnown
  <2>1. Extra = {} /\ Probed = Devices
    BY <1>7 DEF DeviceProbe, Probed
  <2>2. dev'[d] = Cleared(d) /\ ball' = ball
    BY <1>7, <2>1 DEF DeviceProbe, physical
  <2>3. Cleared(d).actual = ball[d] /\ Cleared(d).max_count = InitMax[d]
    BY TableFacts DEF Cleared, Record
  <2>4. ball[d] <= InitMax[d]
    <3>1. ball[d] \in 0 .. NumBalls /\ NumBalls \in Nat /\ InitMax[d] \in 0 .. 255
      BY TableFacts, Numbers DEF DeviceInv, Physical, Counts
    <3>2. ~ (ball[d] > InitMax[d])
      BY <2>1 DEF Extra
    <3> QED BY <3>1, <3>2
  <2> QED BY <2>2, <2>3, <2>4 DEF Known
<1> QED BY <1>2, <1>3, <1>4, <1>6, <1>7 DEF Game, Probe

(* As long as the probe at power up or after a game does not give up, with *)
(* a device still overfull, no ball is forgotten: whatever a device holds  *)
(* without knowing it, or beyond what it should hold, has a task that will *)
(* see to it, through every kick, drain, lock, request and end of a ball.  *)
THEOREM BallsRemembered == RoomyTrough /\ Spec /\ [][~ ProbeGivesUp]_vars => []NoBallForgotten
<1> DEFINE Inv == TroughKnows /\ AllKnown
<1>1. Init => Inv
  <2> SUFFICES ASSUME Init PROVE Inv
    OBVIOUS
  <2>1. AllKnown
    BY DEF Init, AllKnown
  <2>2. TroughKnows
    BY Numbers DEF Init, TroughKnows
  <2> QED BY <2>1, <2>2
<1>2. DeviceInv /\ RoomyTrough /\ Inv /\ [Next]_vars /\ [~ ProbeGivesUp]_vars => Inv'
  <2> SUFFICES ASSUME DeviceInv, RoomyTrough, Inv, [Next]_vars, [~ ProbeGivesUp]_vars
               PROVE  Inv'
    OBVIOUS
  <2>1. CASE UNCHANGED vars
    <3>1. AllKnown'
      BY <2>1 DEF AllKnown, Known, vars, physical, table, tasks, probing
    <3>2. TroughKnows'
      BY <2>1 DEF TroughKnows, vars, physical, table, tasks
    <3> QED BY <3>1, <3>2
  <2>2. CASE Next /\ ~ ProbeGivesUp
    <3>1. TroughKnows'
      BY <2>2, TroughStep
    <3>2. ASSUME NEW d \in Devices, Update(d) \/ DeviceSwHandler(d) PROVE AllKnown'
      BY <3>2, UpdateKnows, LockKnows
    <3>3. AllKnown'
      BY <2>2, <3>2, BallMoves, RestKnows DEF Next
    <3> QED BY <3>1, <3>3
  <2> QED BY <2>1, <2>2
<1>3. Inv => NoBallForgotten
  BY DEF AllKnown, Known, NoBallForgotten
<1>4. RoomyTrough => RoomyTrough'
  BY DEF RoomyTrough
<1> QED BY <1>1, <1>2, <1>3, <1>4, DeviceInvariance, PTL DEF Spec

-----------------------------------------------------------------------------
(* The balls in play are counted right.  What the program knows of every   *)
(* device lags behind the balls by what the update task has still to see:  *)
(*   - a count exceeds the balls in the device by no more than those that  *)
(*     were kicked, which are still in the lane, where they may fall back; *)
(*   - a coil is pulsed only by a task that waits, or was killed, and sees *)
(*     the end of the pulse before it counts;                              *)
(*   - of a device other than the trough, the balls to keep, the kicks     *)
(*     pending and the events of balls that came in are covered by the     *)
(*     count, so that a kick never takes a ball that was locked.           *)
Entering(p, t) == IF p = "enter" THEN t ELSE 0

Gone(p, x) == IF p \in {"settle", "pulse"} /\ x.state = "releasing" THEN x.kicks_needed ELSE 0

LockOK(d, b, x, p, t, s) ==
  /\ x.max_count <= Size[d]
  /\ p = "attempt" => x.kicks_needed > 0
  /\ x.max_count + x.kicks_needed + Entering(p, t) <= x.actual + ToCome(p, t)
  /\ x.actual <= b + Gone(p, x)
  /\ s = d => x.actual <= b /\ (b > 0 => x.actual < b + x.kicks_needed)

Tracked(d, b, l, x, p, t, s) ==
  /\ x.actual <= b + l
  /\ s = d => x.state = "releasing" /\ p \in {"none", "settle", "pulse"}
  /\ p = "attempt" => x.state = "releasing"
  /\ p = "none" => x.kicks_needed = 0
  /\ d # Trough => LockOK(d, b, x, p, t, s)

TrackInv ==
  /\ \A d \in Devices : Tracked(d, ball[d], lane[d], dev[d], at[d], todo[d], InFlight)
  /\ InGame => probe = "none"

(* The trough may keep all it holds and its handlers do not sleep; the     *)
(* other devices keep only what is locked, and lose no ball without a      *)
(* kick; no game code adds balls.                                          *)
OneBallGame == /\ RoomyTrough /\ \A d \in Devices \ {Trough} : InitMax[d] = 0
               /\ Leaky = {} \/ Surprises = 0
               /\ Multiball = 0

LEMMA TrackFacts ==
  ASSUME DeviceInv, TrackInv, NEW d \in Devices
  PROVE  /\ Tracked(d, ball[d], lane[d], dev[d], at[d], todo[d], InFlight)
         /\ lane \in [Devices -> 0 .. NumBalls] /\ ball \in [Devices -> 0 .. NumBalls]
         /\ ball[d] \in Nat /\ lane[d] \in Nat /\ dev[d].actual \in Nat
         /\ dev[d].kicks_needed \in Nat /\ dev[d].max_count \in Nat
         /\ dev[d].actual < 16 /\ dev[d].kicks_needed < 256 /\ dev[d].max_count < 256
         /\ dev[d].state \in {"idle", "releasing"} /\ todo[d] \in Nat /\ at[d] \in Phases
         /\ Size[d] \in Nat /\ Size[d] > 0 /\ d # Nobody
         /\ at[d] \in {"success", "kicked"} => todo[d] <= dev[d].kicks_needed
<1>1. /\ ball[d] \in 0 .. NumBalls /\ todo[d] \in 0 .. NumBalls /\ dev[d] \in Record
      /\ at[d] \in Phases /\ NumBalls \in 1 .. 15
      /\ at[d] \in {"success", "kicked"} => todo[d] <= dev[d].kicks_needed
  BY TableFacts DEF Fine
<1>2. lane \in [Devices -> 0 .. NumBalls] /\ ball \in [Devices -> 0 .. NumBalls]
  BY DEF DeviceInv, Physical, Counts
<1>3. lane[d] \in 0 .. NumBalls
  BY <1>2
<1>4. Tracked(d, ball[d], lane[d], dev[d], at[d], todo[d], InFlight)
  BY DEF TrackInv
<1>5. /\ dev[d].actual \in 0 .. 15 /\ dev[d].kicks_needed \in 0 .. 255
      /\ dev[d].max_count \in 0 .. 255 /\ dev[d].state \in {"idle", "releasing"}
  BY <1>1, Fields
<1>6. Size[d] \in 1 .. 255 /\ Nobody # d
  BY Numbers
<1>7. ball[d] \in Nat /\ lane[d] \in Nat /\ todo[d] \in Nat
  BY <1>1, <1>3
<1>8. /\ dev[d].actual \in Nat /\ dev[d].kicks_needed \in Nat /\ dev[d].max_count \in Nat
      /\ dev[d].actual < 16 /\ dev[d].kicks_needed < 256 /\ dev[d].max_count < 256
  BY SMTT(40), <1>5
<1>9. Size[d] \in Nat /\ Size[d] > 0
  BY <1>6
<1> QED BY <1>1, <1>2, <1>4, <1>5, <1>6, <1>7, <1>8, <1>9

(* A step that concerns one device.                                        *)
LEMMA TrackFrame ==
  ASSUME DeviceInv, TrackInv, NEW d \in Devices,
         Only(ball, ball', d), Only(lane, lane', d),
         Only(dev, dev', d), Only(at, at', d), Only(todo, todo', d),
         InFlight' \in {InFlight, Nobody, d}, UNCHANGED <<game, probe>>,
         Tracked(d, ball'[d], lane'[d], dev'[d], at'[d], todo'[d], InFlight')
  PROVE  TrackInv'
<1>0. (InGame => probe = "none")'
  BY DEF TrackInv, InGame
<1> SUFFICES ASSUME NEW e \in Devices
             PROVE  Tracked(e, ball'[e], lane'[e], dev'[e], at'[e], todo'[e], InFlight')
  BY <1>0 DEF TrackInv
<1>1. CASE e = d
  BY <1>1
<1>2. CASE e # d
  <2>1. ball'[e] = ball[e] /\ lane'[e] = lane[e]
    BY <1>2 DEF Only, DeviceInv, Physical, Counts
  <2>2. dev'[e] = dev[e] /\ at'[e] = at[e] /\ todo'[e] = todo[e]
    BY <1>2, TableFacts DEF Only
  <2>3. Tracked(e, ball[e], lane[e], dev[e], at[e], todo[e], InFlight) /\ Nobody # e
    BY TrackFacts
  <2> HIDE DEF InFlight
  <2>4. InFlight' = e => InFlight = e
    BY <1>2, <2>3
  <2> QED BY <2>1, <2>2, <2>3, <2>4 DEF Tracked, LockOK
<1> QED BY <1>1, <1>2

(* What the steps of an update task do to its own device: the recounts.    *)
LEMMA RecountEffect ==
  ASSUME DeviceInv, NEW d \in Devices,
         CountSame(d) \/ SurpriseRelease(d) \/ CountRose(d) \/ KickFailed(d)
         \/ KickGivenUp(d) \/ KickWorked(d)
  PROVE  LET x == dev[d]
             y == dev'[d]
             b == ball[d]
         IN  /\ cpu = Nobody /\ at[d] = "settle" /\ UNCHANGED <<physical, game, clean, probe>>
             /\ InFlight' = InFlight /\ InFlight # d
             /\ Only(dev, dev', d) /\ Only(at, at', d) /\ Only(todo, todo', d)
             /\ y.actual = b /\ y.max_count = x.max_count
             /\ \/ /\ \/ x.state = "idle" /\ b = x.actual
                      \/ x.state # "idle" /\ x.kicks_needed = 0
                   /\ y.kicks_needed = x.kicks_needed /\ y.state = x.state
                   /\ y.kick_errors = x.kick_errors /\ live_balls' = live_balls
                   /\ at'[d] = "decide" /\ cpu' = d
                \/ /\ x.state = "idle" /\ b < x.actual
                   /\ at'[d] = "decide"
                   /\ y.kicks_needed = x.kicks_needed
                \/ /\ x.state = "idle" /\ b > x.actual
                   /\ y.kicks_needed = x.kicks_needed /\ y.state = x.state
                   /\ y.kick_errors = x.kick_errors /\ live_balls' = live_balls
                   /\ missing_balls' = Missing(dev')
                   /\ at'[d] = "enter" /\ todo'[d] = b - x.actual /\ cpu' = d
                \/ /\ x.state = "releasing" /\ x.kicks_needed > 0 /\ b >= x.actual
                   /\ y.kicks_needed = x.kicks_needed /\ y.state = x.state
                   /\ live_balls' = live_balls
                   /\ at'[d] = "retry" /\ cpu' = cpu
                \/ /\ x.state = "releasing" /\ x.kicks_needed > 0 /\ b >= x.actual
                   /\ y.kicks_needed = 0 /\ y.state = "idle" /\ y.kick_errors = MaxErrors[d]
                   /\ live_balls' = live_balls
                   /\ at'[d] = "decide" /\ cpu' = d
                \/ /\ x.state = "releasing" /\ x.kicks_needed > 0 /\ b < x.actual
                   /\ y.kicks_needed = x.kicks_needed /\ y.state = x.state
                   /\ y.kick_errors = x.kick_errors /\ live_balls' = live_balls
                   /\ missing_balls' = Missing(dev')
                   /\ todo'[d] = Min({x.actual - b, x.kicks_needed})
                   /\ at'[d] = "success" /\ cpu' = d
<1> DEFINE x == dev[d]
           y == dev'[d]
           b == ball[d]
<1>1. /\ cpu = Nobody /\ at[d] = "settle" /\ UNCHANGED <<physical, game, clean, probe>>
      /\ InFlight' = InFlight /\ InFlight # d
  BY DeviceAssumption DEF CountSame, SurpriseRelease, CountRose, KickFailed, KickGivenUp, KickWorked,
     Recount, Quiet, solenoid, InFlight, DeviceInv, Solenoid, probing
<1>2. Only(dev, dev', d) /\ Only(at, at', d) /\ Only(todo, todo', d)
  <2>1. Only(dev, dev', d)
    BY TableFacts DEF CountSame, SurpriseRelease, CountRose, KickFailed, KickGivenUp, KickWorked,
       Recounted, Only
  <2>2. Only(at, at', d) /\ Only(todo, todo', d)
    BY TableFacts DEF CountSame, SurpriseRelease, CountRose, KickFailed, KickGivenUp, KickWorked,
       Goto, Only
  <2> QED BY <2>1, <2>2
<1>3. dev \in [Devices -> Record] /\ at \in [Devices -> Phases] /\ todo \in [Devices -> 0 .. NumBalls]
      /\ x \in Record
  BY TableFacts
<1>4. CASE CountSame(d) \/ SurpriseRelease(d) \/ CountRose(d) \/ KickWorked(d)
  <2>1. y = [x EXCEPT !.actual = b]
    BY <1>3, <1>4 DEF CountSame, SurpriseRelease, CountRose, KickWorked, Recounted
  <2>2. /\ y.actual = b /\ y.max_count = x.max_count /\ y.kicks_needed = x.kicks_needed
        /\ y.state = x.state /\ y.kick_errors = x.kick_errors
    BY <1>3, <2>1 DEF Record
  <2> HIDE DEF y, b
  <2>3. CASE CountSame(d)
    <3>0. x.state \in {"idle", "releasing"} /\ x.kicks_needed \in 0 .. 255
      BY <1>3, Fields
    <3>1. /\ \/ x.state = "idle" /\ b = x.actual
             \/ x.state # "idle" /\ x.kicks_needed = 0
          /\ live_balls' = live_balls /\ cpu' = d
      BY <3>0, <2>3 DEF CountSame, Idle, Releasing, Before, b
    <3>2. at'[d] = "decide"
      BY <1>3, <2>3 DEF CountSame, Goto
    <3> QED BY <1>1, <1>2, <2>2, <3>1, <3>2 DEF y, b
  <2>4. CASE SurpriseRelease(d)
    <3>1. at'[d] = "decide" /\ x.state = "idle" /\ b < x.actual
      BY <1>3, <2>4 DEF SurpriseRelease, Idle, Before, Goto, b
    <3> QED BY <1>1, <1>2, <2>2, <3>1 DEF y, b
  <2>5. CASE CountRose(d)
    <3>1. /\ x.state = "idle" /\ b > x.actual /\ live_balls' = live_balls /\ cpu' = d
          /\ missing_balls' = Missing(dev')
      BY <2>5 DEF CountRose, Idle, Before, b
    <3>2. at'[d] = "enter" /\ todo'[d] = b - x.actual
      BY <1>3, <2>5 DEF CountRose, Before, b
    <3> QED BY <1>1, <1>2, <2>2, <3>1, <3>2 DEF y, b
  <2>6. CASE KickWorked(d)
    <3>1. /\ x.state = "releasing" /\ x.kicks_needed > 0 /\ b < x.actual
          /\ live_balls' = live_balls /\ cpu' = d /\ missing_balls' = Missing(dev')
      BY <2>6 DEF KickWorked, Releasing, Before, b
    <3>2. at'[d] = "success" /\ todo'[d] = Min({x.actual - b, x.kicks_needed})
      BY <1>3, <2>6 DEF KickWorked, Before, b
    <3> QED BY <1>1, <1>2, <2>2, <3>1, <3>2 DEF y, b
  <2> QED BY <1>4, <2>3, <2>4, <2>5, <2>6
<1>5. CASE KickFailed(d)
  <2>1. y = [x EXCEPT !.actual = b, !.kick_errors = x.kick_errors + 1]
    BY <1>3, <1>5 DEF KickFailed, Recounted, Record
  <2>2. y.actual = b /\ y.max_count = x.max_count /\ y.kicks_needed = x.kicks_needed /\ y.state = x.state
    BY <1>3, <2>1 DEF Record
  <2> HIDE DEF y, b
  <2>3. /\ x.state = "releasing" /\ x.kicks_needed > 0 /\ b >= x.actual
        /\ live_balls' = live_balls /\ cpu' = cpu
    BY <1>5 DEF KickFailed, Releasing, Before, b
  <2>4. at'[d] = "retry"
    BY <1>3, <1>5 DEF KickFailed, Goto
  <2> QED BY <1>1, <1>2, <2>2, <2>3, <2>4 DEF y, b
<1>6. CASE KickGivenUp(d)
  <2>1. /\ y = [x EXCEPT !.actual = b, !.kick_errors = x.kick_errors + 1,
                         !.kicks_needed = 0, !.state = "idle"]
        /\ x.kick_errors + 1 = MaxErrors[d]
    BY <1>3, <1>6 DEF KickGivenUp, Recounted, Record
  <2>2. /\ y.actual = b /\ y.max_count = x.max_count /\ y.kicks_needed = 0 /\ y.state = "idle"
        /\ y.kick_errors = MaxErrors[d]
    BY <1>3, <2>1 DEF Record
  <2> HIDE DEF y, b
  <2>3. /\ x.state = "releasing" /\ x.kicks_needed > 0 /\ b >= x.actual
        /\ live_balls' = live_balls /\ cpu' = d
    BY <1>6 DEF KickGivenUp, Releasing, Before, b
  <2>4. at'[d] = "decide"
    BY <1>3, <1>6 DEF KickGivenUp, Goto
  <2> QED BY <1>1, <1>2, <2>2, <2>3, <2>4 DEF y, b
<1> QED BY <1>4, <1>5, <1>6


(* ... the events ...                                                      *)
LEMMA EventEffect ==
  ASSUME DeviceInv, NEW d \in Devices,
         EnterUnheard(d) \/ EntersDone(d) \/ KickSuccess(d) \/ KickCounted(d)
         \/ HandlerSleeps(d) \/ HandlerWakes(d)
  PROVE  LET x == dev[d]
             y == dev'[d]
         IN  /\ UNCHANGED <<physical, game, clean, probe>> /\ InFlight' = InFlight
             /\ Only(dev, dev', d) /\ Only(at, at', d) /\ Only(todo, todo', d)
             /\ \/ /\ cpu = d /\ cpu' = d /\ at[d] = "enter" /\ at'[d] = "enter"
                   /\ ~ InGame \/ d # Trough
                   /\ todo[d] > 0 /\ todo'[d] = todo[d] - 1
                   /\ dev' = dev /\ live_balls' = live_balls
                \/ /\ cpu = d /\ cpu' = d /\ at[d] = "enter" /\ at'[d] = "decide"
                   /\ todo[d] = 0 /\ todo' = todo
                   /\ dev' = dev /\ live_balls' = live_balls
                \/ /\ cpu = d /\ cpu' = d /\ at[d] = "success" /\ at'[d] = "kicked"
                   /\ todo[d] > 0 /\ todo' = todo /\ dev' = dev
                   /\ live_balls' = IF d = Trough /\ InGame /\ missing_balls > 0
                                      THEN (live_balls + 1) % Byte ELSE live_balls
                \/ /\ cpu = d /\ cpu' = d /\ at[d] = "kicked"
                   /\ todo[d] > 0 /\ todo'[d] = todo[d] - 1
                   /\ at'[d] = IF todo[d] = 1 THEN "decide" ELSE "success"
                   /\ y.actual = x.actual /\ y.max_count = x.max_count
                   /\ y.kicks_needed = x.kicks_needed - 1
                   /\ y.state = IF todo[d] = 1 THEN "idle" ELSE x.state
                   /\ live_balls' = live_balls
                \/ /\ at[d] \in {"enter", "kicked"} /\ cpu \in {d, Nobody}
                   /\ cpu = d => d \in Sleepy
                   /\ UNCHANGED <<dev, at, todo, live_balls>>
<1> DEFINE x == dev[d]
           y == dev'[d]
<1>0. dev \in [Devices -> Record] /\ at \in [Devices -> Phases] /\ todo \in [Devices -> 0 .. NumBalls]
      /\ x \in Record /\ Fine(d, x, at[d], todo[d])
      /\ Only(dev, dev, d) /\ Only(at, at, d) /\ Only(todo, todo, d)
  BY TableFacts
<1>1. UNCHANGED <<physical, clean, probe>> /\ InFlight' = InFlight
  BY DEF EnterUnheard, EntersDone, KickSuccess, KickCounted, HandlerSleeps, HandlerWakes, Throw,
     physical, play, probing, solenoid, InFlight
<1>2. game' = game
  BY DEF EnterUnheard, EntersDone, KickSuccess, KickCounted, HandlerSleeps, HandlerWakes, play
<1>3. CASE EnterUnheard(d)
  <2>1. /\ cpu = d /\ cpu' = d /\ at[d] = "enter" /\ at' = at
        /\ ~ InGame \/ d # Trough
        /\ todo[d] > 0 /\ todo' = [todo EXCEPT ![d] = todo[d] - 1]
        /\ dev' = dev /\ live_balls' = live_balls
    BY <1>3 DEF EnterUnheard, Throw, Thrown, table
  <2>2. Only(todo, todo', d) /\ todo'[d] = todo[d] - 1
    BY <1>0, <2>1 DEF Only
  <2> QED BY <1>0, <1>1, <1>2, <2>1, <2>2
<1>4. CASE EntersDone(d)
  <2>1. /\ cpu = d /\ cpu' = d /\ at[d] = "enter" /\ at' = [at EXCEPT ![d] = "decide"]
        /\ todo[d] = 0 /\ todo' = todo
        /\ dev' = dev /\ live_balls' = live_balls
    BY <1>4 DEF EntersDone, Goto, table
  <2>2. Only(at, at', d) /\ at'[d] = "decide"
    BY <1>0, <2>1 DEF Only
  <2> QED BY <1>0, <1>1, <1>2, <2>1, <2>2
<1>5. CASE KickSuccess(d)
  <2>1. /\ cpu = d /\ cpu' = d /\ at[d] = "success" /\ at' = [at EXCEPT ![d] = "kicked"]
        /\ todo[d] > 0 /\ todo' = todo /\ dev' = dev
        /\ live_balls' = (live_balls + (IF d = Trough /\ InGame /\ missing_balls > 0
                                          THEN 1 ELSE 0)) % Byte
    BY <1>5 DEF KickSuccess, Throw, Goto
  <2>2. Only(at, at', d) /\ at'[d] = "kicked"
    BY <1>0, <2>1 DEF Only
  <2>3. live_balls' = IF d = Trough /\ InGame /\ missing_balls > 0
                        THEN (live_balls + 1) % Byte ELSE live_balls
    <3>1. live_balls \in 0 .. 255 /\ Byte = 256
      BY Numbers DEF DeviceInv, Globals
    <3> QED BY <2>1, <3>1
  <2> QED BY <1>0, <1>1, <1>2, <2>1, <2>2, <2>3
<1>6. CASE KickCounted(d)
  <2>1. /\ cpu = d /\ cpu' = d /\ at[d] = "kicked" /\ todo[d] > 0 /\ live_balls' = live_balls
        /\ todo' = [todo EXCEPT ![d] = todo[d] - 1]
        /\ at' = [at EXCEPT ![d] = IF todo[d] = 1 THEN "decide" ELSE "success"]
        /\ dev' = [dev EXCEPT ![d] = [x EXCEPT !.kicks_needed = (x.kicks_needed - 1) % Byte,
                                               !.state = IF todo[d] = 1 THEN "idle" ELSE x.state]]
    BY <1>0, <1>6 DEF KickCounted, Throw, Record
  <2>2. /\ Only(at, at', d) /\ Only(todo, todo', d) /\ Only(dev, dev', d)
        /\ todo'[d] = todo[d] - 1 /\ at'[d] = IF todo[d] = 1 THEN "decide" ELSE "success"
        /\ y = [x EXCEPT !.kicks_needed = (x.kicks_needed - 1) % Byte,
                         !.state = IF todo[d] = 1 THEN "idle" ELSE x.state]
    BY <1>0, <2>1 DEF Only
  <2>3. /\ y.actual = x.actual /\ y.max_count = x.max_count
        /\ y.kicks_needed = (x.kicks_needed - 1) % Byte
        /\ y.state = IF todo[d] = 1 THEN "idle" ELSE x.state
    BY <1>0, <2>2 DEF Record
  <2>4. (x.kicks_needed - 1) % Byte = x.kicks_needed - 1
    <3>1. todo[d] \in Nat /\ todo[d] <= x.kicks_needed /\ x.kicks_needed \in 0 .. 255 /\ Byte = 256
      BY SMTT(40), <1>0, <2>1, TableFacts, Numbers DEF Fine
    <3> QED BY <2>1, <3>1
  <2> QED BY <1>1, <1>2, <2>1, <2>2, <2>3, <2>4
<1>7. CASE HandlerSleeps(d) \/ HandlerWakes(d)
  <2>1. /\ at[d] \in {"enter", "kicked"} /\ cpu \in {d, Nobody} /\ (cpu = d => d \in Sleepy)
        /\ UNCHANGED <<dev, at, todo, live_balls>>
    BY <1>7, Numbers DEF HandlerSleeps, HandlerWakes, Quiet, table
  <2> QED BY <1>0, <1>1, <1>2, <2>1
<1> QED BY <1>3, <1>4, <1>5, <1>6, <1>7

(* ... the end, the kick and the switch task.                              *)
LEMMA DecideEffect ==
  ASSUME DeviceInv, NEW d \in Devices,
         Finish(d) \/ Delay(d) \/ KickAttempt(d) \/ SolAllocWaits(d) \/ SolAlloc(d) \/ SolFree(d)
         \/ DeviceSwHandler(d)
  PROVE  LET x == dev[d]
             y == dev'[d]
             b == ball[d]
             k == IF x.kicks_needed = 0 /\ x.actual > x.max_count THEN 1 ELSE x.kicks_needed
         IN  /\ UNCHANGED <<ball, lane, game, clean, probe, live_balls, todo>>
             /\ Only(dev, dev', d) /\ Only(at, at', d)
             /\ \/ /\ \/ at[d] = "decide" /\ cpu = d
                      \/ at[d] = "retry" /\ cpu = Nobody
                   /\ InFlight' = InFlight /\ moved' = moved
                   /\ y.max_count = x.max_count
                   /\ \/ /\ ~ (k > 0 /\ x.actual > 0)
                         /\ y.kicks_needed = 0 /\ y.actual = b /\ y.state = x.state
                         /\ y.kick_errors = x.kick_errors
                         /\ at'[d] = IF b = x.actual THEN "none" ELSE "settle"
                      \/ /\ k > 0 /\ x.actual > 0
                         /\ y.kicks_needed = k /\ y.actual = x.actual
                         /\ \/ at'[d] = "settle" /\ y.state = x.state
                            \/ at'[d] = "attempt" /\ y.state = "releasing"
                \/ /\ at[d] = "attempt" /\ dev' = dev /\ cpu \in {d, Nobody} /\ moved' = moved
                   /\ \/ at'[d] = "attempt" /\ InFlight' = InFlight
                      \/ at'[d] = "pulse" /\ InFlight' = d
                \/ /\ cpu = Nobody /\ dev' = dev /\ InFlight' = InFlight
                   /\ \/ at[d] = "pulse" /\ at'[d] = "settle"
                      \/ at'[d] = IF at[d] = "none" THEN "settle" ELSE at[d]
<1> DEFINE x == dev[d]
           y == dev'[d]
           b == ball[d]
           k == IF x.kicks_needed = 0 /\ x.actual > x.max_count THEN 1 ELSE x.kicks_needed
<1>0. dev \in [Devices -> Record] /\ at \in [Devices -> Phases]
      /\ x \in Record /\ Only(dev, dev, d) /\ Only(at, at, d)
  BY TableFacts
<1>1. UNCHANGED <<ball, lane, game, clean, probe, live_balls, todo>>
  <2>1. CASE Finish(d) \/ Delay(d) \/ KickAttempt(d)
    BY <2>1 DEF Finish, Delay, KickAttempt, Decide, Goto, physical, play, probing
  <2>2. CASE SolAllocWaits(d) \/ SolAlloc(d) \/ SolFree(d) \/ DeviceSwHandler(d)
    BY <2>2 DEF SolAllocWaits, SolAlloc, SolFree, DeviceSwHandler, Goto, physical, table, play, probing
  <2> QED BY <2>1, <2>2
<1>2. CASE Finish(d) \/ Delay(d) \/ KickAttempt(d)
  <2>1. /\ \/ at[d] = "decide" /\ cpu = d
           \/ at[d] = "retry" /\ cpu = Nobody
        /\ InFlight' = InFlight /\ moved' = moved
    BY <1>2 DEF Finish, Delay, KickAttempt, Decide, Quiet, solenoid, InFlight, physical
  <2> DEFINE z == Decided(x)
  <2>2. /\ z \in Record /\ z.kicks_needed = k /\ z.actual = x.actual /\ z.max_count = x.max_count
        /\ z.state = x.state
    <3>1. CASE Overfull(x)
      <4>1. z = [x EXCEPT !.kicks_needed = 1, !.kick_errors = 0] /\ k = 1
        BY <3>1 DEF Decided, Overfull
      <4>2. 0 \in 0 .. Byte - 1 /\ 1 \in 0 .. Byte - 1
        BY Numbers
      <4> QED BY <1>0, <4>1, <4>2 DEF Record
    <3>2. CASE ~ Overfull(x)
      BY <1>0, <3>2 DEF Decided, Overfull
    <3> QED BY <3>1, <3>2
  <2>3. CASE Finish(d)
    <3>1. ~ (k > 0 /\ x.actual > 0)
      BY <2>2, <2>3 DEF Finish, MustKick
    <3>2. /\ dev' = [dev EXCEPT ![d] = [x EXCEPT !.kicks_needed = 0, !.actual = b]]
          /\ at' = [at EXCEPT ![d] = IF b = x.actual THEN "none" ELSE "settle"]
      BY <1>0, <2>3 DEF Finish, Goto
    <3>3. /\ Only(dev, dev', d) /\ Only(at, at', d)
          /\ at'[d] = IF b = x.actual THEN "none" ELSE "settle"
          /\ y = [x EXCEPT !.kicks_needed = 0, !.actual = b]
      BY <1>0, <3>2 DEF Only
    <3>4. /\ y.kicks_needed = 0 /\ y.actual = b /\ y.state = x.state /\ y.max_count = x.max_count
          /\ y.kick_errors = x.kick_errors
      BY <1>0, <3>3 DEF Record
    <3> QED BY <1>1, <2>1, <3>1, <3>3, <3>4
  <2>4. CASE Delay(d) \/ KickAttempt(d)
    <3>1. k > 0 /\ x.actual > 0
      BY <2>2, <2>4 DEF Delay, KickAttempt, MustKick
    <3>2. \/ dev' = [dev EXCEPT ![d] = z] /\ at' = [at EXCEPT ![d] = "settle"]
          \/ /\ dev' = [dev EXCEPT ![d] = [z EXCEPT !.state = "releasing"]]
             /\ at' = [at EXCEPT ![d] = "attempt"]
      BY <2>4 DEF Delay, KickAttempt, Goto
    <3> HIDE DEF z
    <3>3. /\ Only(dev, dev', d) /\ Only(at, at', d)
          /\ \/ y = z /\ at'[d] = "settle"
             \/ y = [z EXCEPT !.state = "releasing"] /\ at'[d] = "attempt"
      BY <1>0, <3>2 DEF Only
    <3>4. /\ y.kicks_needed = k /\ y.actual = x.actual /\ y.max_count = x.max_count
          /\ \/ at'[d] = "settle" /\ y.state = x.state
             \/ at'[d] = "attempt" /\ y.state = "releasing"
      BY <2>2, <3>3 DEF Record
    <3> QED BY <1>1, <2>1, <3>1, <3>3, <3>4
  <2> QED BY <1>2, <2>3, <2>4
<1>3. CASE SolAllocWaits(d)
  <2>1. at[d] = "attempt" /\ dev' = dev /\ cpu = d /\ at' = at /\ InFlight' = InFlight /\ moved' = moved
    BY <1>3 DEF SolAllocWaits, table, solenoid, InFlight, physical
  <2> QED BY <1>0, <1>1, <2>1
<1>4. CASE SolAlloc(d)
  <2>1. /\ at[d] = "attempt" /\ dev' = dev /\ cpu \in {d, Nobody} /\ InFlight' = d /\ moved' = moved
        /\ at' = [at EXCEPT ![d] = "pulse"]
    BY <1>4 DEF SolAlloc, table, InFlight, Goto, physical
  <2>2. Only(at, at', d) /\ at'[d] = "pulse"
    BY <1>0, <2>1 DEF Only
  <2> QED BY <1>0, <1>1, <2>1, <2>2
<1>5. CASE SolFree(d)
  <2>1. /\ at[d] = "pulse" /\ dev' = dev /\ cpu = Nobody /\ InFlight' = InFlight
        /\ at' = [at EXCEPT ![d] = "settle"]
    BY <1>5 DEF SolFree, table, InFlight, Goto, Quiet
  <2>2. Only(at, at', d) /\ at'[d] = "settle"
    BY <1>0, <2>1 DEF Only
  <2> QED BY <1>0, <1>1, <2>1, <2>2
<1>6. CASE DeviceSwHandler(d)
  <2>1. /\ dev' = dev /\ cpu = Nobody /\ InFlight' = InFlight
        /\ at' = IF at[d] = "none" THEN [at EXCEPT ![d] = "settle"] ELSE at
    BY <1>6 DEF DeviceSwHandler, table, InFlight, Quiet, solenoid
  <2>2. Only(at, at', d) /\ at'[d] = IF at[d] = "none" THEN "settle" ELSE at[d]
    BY <1>0, <2>1 DEF Only
  <2> QED BY <1>0, <1>1, <2>1, <2>2
<1> QED BY <1>2, <1>3, <1>4, <1>5, <1>6


LEMMA TrackUpdate ==
  ASSUME DeviceInv, TrackInv, OneBallGame, NEW d \in Devices, Update(d) \/ DeviceSwHandler(d),
         ~ DeviceLockBall(d)
  PROVE  TrackInv'
<1> DEFINE x == dev[d]
           y == dev'[d]
           b == ball[d]
           l == lane[d]
           p == at[d]
           q == at'[d]
           t == todo[d]
           u == todo'[d]
<1>0. /\ Tracked(d, b, l, x, p, t, InFlight)
      /\ b \in Nat /\ l \in Nat /\ x.actual \in Nat /\ x.kicks_needed \in Nat
      /\ x.max_count \in Nat /\ x.state \in {"idle", "releasing"} /\ t \in Nat
      /\ d # Nobody /\ Size[d] \in Nat /\ (p \in {"success", "kicked"} => t <= x.kicks_needed)
  BY TrackFacts
<1>1. ASSUME UNCHANGED <<ball, lane, game, probe>>, Only(dev, dev', d), Only(at, at', d),
             Only(todo, todo', d), InFlight' \in {InFlight, Nobody, d},
             Tracked(d, b, l, y, q, u, InFlight')
      PROVE  TrackInv'
  <2>1. ball'[d] = b /\ lane'[d] = l /\ UNCHANGED <<game, probe>> /\ Only(ball, ball', d)
        /\ Only(lane, lane', d)
    BY <1>1, TrackFacts, Unchanging
  <2> QED BY <1>1, <2>1, TrackFrame
<1> HIDE DEF x, y, b, l, p, q, t, u
<1>2. CASE CountSame(d) \/ SurpriseRelease(d) \/ CountRose(d) \/ KickFailed(d) \/ KickGivenUp(d)
           \/ KickWorked(d)
  <2> DEFINE n == Min({x.actual - b, x.kicks_needed})
  <2>1. /\ p = "settle" /\ UNCHANGED <<ball, lane, game, probe>>
        /\ InFlight' = InFlight /\ InFlight # d
        /\ Only(dev, dev', d) /\ Only(at, at', d) /\ Only(todo, todo', d)
        /\ y.actual = b /\ y.max_count = x.max_count
        /\ \/ /\ q \in {"decide", "retry"} /\ y.kicks_needed = x.kicks_needed
              /\ \/ x.state = "idle" /\ b = x.actual
                 \/ x.state = "idle" /\ b < x.actual
                 \/ x.kicks_needed = 0
                 \/ b >= x.actual
           \/ x.state = "idle" /\ q = "enter" /\ u = b - x.actual /\ b > x.actual /\ y.kicks_needed = x.kicks_needed
           \/ q = "decide" /\ y.kicks_needed = 0 /\ b >= x.actual
           \/ /\ q = "success" /\ u = n /\ b < x.actual /\ y.kicks_needed = x.kicks_needed
              /\ x.state = "releasing"
    BY <1>0, <1>2, RecountEffect DEF x, y, b, p, q, u, physical
  <2>2. (x.actual - b <= x.kicks_needed => n = x.actual - b) /\ n <= x.kicks_needed
    <3>1. x.actual - b \in Int /\ x.kicks_needed \in Int
      BY <1>0
    <3>2. n = IF x.actual - b <= x.kicks_needed THEN x.actual - b ELSE x.kicks_needed
      BY <3>1, MinOfTwo
    <3> HIDE DEF n
    <3>3. CASE x.actual - b <= x.kicks_needed
      BY <1>0, <3>2, <3>3
    <3>4. CASE ~ (x.actual - b <= x.kicks_needed)
      <4>1. n = x.kicks_needed
        BY <3>2, <3>4
      <4> QED BY <1>0, <3>4, <4>1
    <3> QED BY <3>3, <3>4
  <2> HIDE DEF n
  <2>3. Tracked(d, b, l, y, q, u, InFlight')
    <3>1. d # Trough => LockOK(d, b, y, q, u, InFlight')
      <4> SUFFICES ASSUME d # Trough PROVE LockOK(d, b, y, q, u, InFlight')
        OBVIOUS
      <4>1. /\ x.max_count <= Size[d] /\ x.max_count + x.kicks_needed <= x.actual
            /\ x.actual <= b + (IF x.state = "releasing" THEN x.kicks_needed ELSE 0)
        BY <1>0, <2>1 DEF Tracked, LockOK, Entering, ToCome, Gone
      <4>2. y.max_count + y.kicks_needed + Entering(q, u) <= b + ToCome(q, u)
        BY <1>0, <2>1, <2>2, <4>1 DEF Entering, ToCome
      <4> QED BY <1>0, <2>1, <4>1, <4>2 DEF LockOK, Gone
    <3> QED BY <1>0, <2>1, <3>1 DEF Tracked
  <2> QED BY <1>1, <2>1, <2>3
<1>3. CASE EnterUnheard(d) \/ EntersDone(d) \/ KickSuccess(d) \/ KickCounted(d)
           \/ HandlerSleeps(d) \/ HandlerWakes(d)
  <2>1. /\ UNCHANGED <<ball, lane, game, probe>> /\ InFlight' = InFlight
        /\ Only(dev, dev', d) /\ Only(at, at', d) /\ Only(todo, todo', d)
        /\ y.actual = x.actual /\ y.max_count = x.max_count
        /\ \/ /\ p = "enter" /\ q = "enter" /\ u <= t /\ y.kicks_needed = x.kicks_needed
           \/ /\ p = "enter" /\ q = "decide" /\ t = 0 /\ y.kicks_needed = x.kicks_needed
           \/ p = "success" /\ q = "kicked" /\ u = t /\ y.kicks_needed = x.kicks_needed
           \/ /\ p = "kicked" /\ u = t - 1 /\ y.kicks_needed = x.kicks_needed - 1
              /\ q = IF t = 1 THEN "decide" ELSE "success"
           \/ p \in {"enter", "kicked"} /\ y = x /\ q = p /\ u = t
    BY <1>0, <1>3, EventEffect DEF x, y, p, q, t, u, physical
  <2>2. u \in Nat
    BY <1>0, <2>1, <1>3, EventEffect DEF t, u
  <2>3. Tracked(d, b, l, y, q, u, InFlight')
    <3>1. d # Trough => LockOK(d, b, y, q, u, InFlight')
      <4> SUFFICES ASSUME d # Trough PROVE LockOK(d, b, y, q, u, InFlight')
        OBVIOUS
      <4>1. /\ x.max_count <= Size[d] /\ x.actual <= b /\ InFlight # d
            /\ x.max_count + x.kicks_needed + Entering(p, t) <= x.actual + ToCome(p, t)
        BY <1>0, <2>1 DEF Tracked, LockOK, Gone
      <4>2. y.max_count + y.kicks_needed + Entering(q, u) <= y.actual + ToCome(q, u)
        BY <1>0, <2>1, <2>2, <4>1 DEF Entering, ToCome
      <4> QED BY <1>0, <2>1, <4>1, <4>2 DEF LockOK, Gone
    <3> QED BY <1>0, <2>1, <3>1 DEF Tracked
  <2> QED BY <1>1, <2>1, <2>3
<1>4. CASE Finish(d) \/ Delay(d) \/ KickAttempt(d) \/ SolAllocWaits(d) \/ SolAlloc(d) \/ SolFree(d)
           \/ DeviceSwHandler(d)
  <2> DEFINE k == IF x.kicks_needed = 0 /\ x.actual > x.max_count THEN 1 ELSE x.kicks_needed
  <2>1. /\ UNCHANGED <<ball, lane, game, probe>> /\ u = t
        /\ Only(dev, dev', d) /\ Only(at, at', d) /\ Only(todo, todo', d)
        /\ \/ /\ p \in {"decide", "retry"} /\ InFlight' = InFlight /\ y.max_count = x.max_count
              /\ \/ /\ y.kicks_needed = 0 /\ y.actual = b /\ q \in {"none", "settle"}
                 \/ /\ k > 0 /\ y.kicks_needed = k /\ y.actual = x.actual
                    /\ \/ q = "settle" /\ y.state = x.state
                       \/ q = "attempt" /\ y.state = "releasing"
           \/ /\ p = "attempt" /\ y = x
              /\ \/ q = "attempt" /\ InFlight' = InFlight
                 \/ q = "pulse" /\ InFlight' = d
           \/ /\ y = x /\ InFlight' = InFlight
              /\ \/ p = "pulse" /\ q = "settle"
                 \/ q = IF p = "none" THEN "settle" ELSE p
    BY <1>0, <1>4, DecideEffect, TableFacts, Unchanging DEF x, y, b, p, q, t, u
  <2>2. Tracked(d, b, l, y, q, u, InFlight')
    <3>1. ASSUME p \in {"decide", "retry"}, InFlight' = InFlight, y.max_count = x.max_count,
                 \/ /\ y.kicks_needed = 0 /\ y.actual = b /\ q \in {"none", "settle"}
                 \/ /\ k > 0 /\ y.kicks_needed = k /\ y.actual = x.actual
                    /\ \/ q = "settle" /\ y.state = x.state
                       \/ q = "attempt" /\ y.state = "releasing"
          PROVE  Tracked(d, b, l, y, q, u, InFlight')
      <4>1. x.actual <= b + l /\ InFlight # d
        BY <1>0, <3>1 DEF Tracked
      <4>2. d # Trough => LockOK(d, b, x, p, t, InFlight)
        BY <1>0 DEF Tracked
      <4>3. Entering(p, t) = 0 /\ ToCome(p, t) = 0 /\ Gone(p, x) = 0
            /\ Entering(q, u) = 0 /\ ToCome(q, u) = 0 /\ q # "enter"
        BY <3>1 DEF Entering, ToCome, Gone
      <4>4. ASSUME d # Trough
            PROVE  /\ x.max_count <= Size[d] /\ x.actual <= b
                   /\ x.max_count + x.kicks_needed <= x.actual
        <5>1. /\ x.max_count <= Size[d] /\ x.actual <= b + 0
              /\ x.max_count + x.kicks_needed + 0 <= x.actual + 0
          BY <4>2, <4>3, <4>4, Zenon DEF LockOK
        <5> HIDE DEF k
        <5> QED BY <1>0, <5>1
      <4>5. k \in Nat /\ (x.max_count + x.kicks_needed <= x.actual => x.max_count + k <= x.actual)
        BY <1>0
      <4> HIDE DEF k
      <4>6. /\ y.actual <= b + l /\ (q = "none" => y.kicks_needed = 0)
            /\ (q = "attempt" => y.state = "releasing" /\ y.kicks_needed > 0)
            /\ y.kicks_needed \in Nat
        BY <1>0, <3>1, <4>1, <4>5
      <4>7. ASSUME d # Trough PROVE LockOK(d, b, y, q, u, InFlight')
        <5>1. /\ y.max_count <= Size[d] /\ y.actual <= b
              /\ y.max_count + y.kicks_needed <= y.actual
          <6>1. /\ x.max_count <= Size[d] /\ x.actual <= b
                /\ x.max_count + x.kicks_needed <= x.actual
            BY <4>4, <4>7
          <6>2. CASE y.kicks_needed = 0 /\ y.actual = b
            BY <1>0, <3>1, <6>1, <6>2
          <6>3. CASE y.kicks_needed = k /\ y.actual = x.actual
            BY <1>0, <3>1, <4>5, <6>1, <6>3
          <6> QED BY <3>1, <6>2, <6>3
        <5>2. Gone(q, y) \in Nat /\ y.actual \in Nat
          BY <1>0, <3>1, <4>6 DEF Gone
        <5> QED BY <1>0, <3>1, <4>1, <4>3, <4>6, <5>1, <5>2 DEF LockOK
      <4> QED BY <3>1, <4>1, <4>6, <4>7 DEF Tracked
    <3>2. ASSUME p = "attempt", y = x, u = t,
                 \/ q = "attempt" /\ InFlight' = InFlight
                 \/ q = "pulse" /\ InFlight' = d
          PROVE  Tracked(d, b, l, y, q, u, InFlight')
      <4> HIDE DEF k
      <4>1. x.state = "releasing" /\ x.actual <= b + l
        BY <1>0, <3>2 DEF Tracked
      <4>2. ASSUME d # Trough PROVE LockOK(d, b, x, q, t, InFlight')
        <5>1. LockOK(d, b, x, "attempt", t, InFlight)
          BY <1>0, <3>2, <4>2 DEF Tracked
        <5>2. /\ x.max_count <= Size[d] /\ x.kicks_needed > 0
              /\ x.max_count + x.kicks_needed <= x.actual /\ x.actual <= b
          BY <1>0, <5>1 DEF LockOK, Gone, Entering, ToCome
        <5>3. q \in {"attempt", "pulse"} /\ Entering(q, t) = 0 /\ ToCome(q, t) = 0
          BY <3>2 DEF Entering, ToCome
        <5>4. Gone(q, x) \in Nat
          BY <1>0 DEF Gone
        <5> QED BY <1>0, <5>2, <5>3, <5>4 DEF LockOK
      <4>3. q # "none" /\ (InFlight' = d => q = "pulse")
        BY <1>0, <3>2 DEF Tracked
      <4> QED BY <3>2, <4>1, <4>2, <4>3 DEF Tracked
    <3>3. ASSUME y = x, u = t, InFlight' = InFlight,
                 \/ p = "pulse" /\ q = "settle"
                 \/ q = IF p = "none" THEN "settle" ELSE p
          PROVE  Tracked(d, b, l, y, q, u, InFlight')
      BY <1>0, <3>3 DEF Tracked, LockOK, Gone, Entering, ToCome
    <3> HIDE DEF k
    <3> QED BY <2>1, <3>1, <3>2, <3>3
  <2> HIDE DEF k
  <2>3. InFlight' \in {InFlight, Nobody, d}
    BY <2>1
  <2> QED BY <1>1, <2>1, <2>2, <2>3
<1> QED BY <1>2, <1>3, <1>4 DEF Update


LEMMA TrackBalls ==
  ASSUME DeviceInv, TrackInv, OneBallGame, Playfield \/ Pulse
  PROVE  TrackInv'
<1>0. ball \in [Devices -> 0 .. NumBalls] /\ lane \in [Devices -> 0 .. NumBalls]
  BY DEF DeviceInv, Physical, Counts
<1>1. UNCHANGED <<dev, at, todo, game, probe>>
  BY DEF Playfield, Pulse, PulseKicks, PulseFails, BallEnters, BallEscapes, BallFallsBack, BallGone,
     SetValidPlayfield, KickoutLock, table, tasks, probing, play
<1>2. ASSUME NEW d \in Devices, Only(ball, ball', d), Only(lane, lane', d),
             InFlight' \in {InFlight, Nobody},
             Tracked(d, ball'[d], lane'[d], dev[d], at[d], todo[d], InFlight')
      PROVE  TrackInv'
  <2>1. Only(dev, dev', d) /\ Only(at, at', d) /\ Only(todo, todo', d)
    BY <1>1, TableFacts
  <2>2. InFlight' \in {InFlight, Nobody, d} /\ UNCHANGED <<game, probe>>
        /\ Tracked(d, ball'[d], lane'[d], dev'[d], at'[d], todo'[d], InFlight')
    BY <1>1, <1>2
  <2> QED BY <1>2, <2>1, <2>2, TrackFrame
<1>3. ASSUME NEW d \in Devices, BallEnters(d) \/ BallFallsBack(d) \/ BallGone(d)
      PROVE  TrackInv'
  <2>1. /\ Tracked(d, ball[d], lane[d], dev[d], at[d], todo[d], InFlight)
        /\ ball[d] \in Nat /\ lane[d] \in Nat /\ dev[d].actual \in Nat
        /\ dev[d].kicks_needed \in Nat /\ dev[d].max_count \in Nat
    BY TrackFacts
  <2>2. /\ Only(ball, ball', d) /\ Only(lane, lane', d) /\ InFlight' = InFlight
        /\ \/ ball'[d] = ball[d] + 1 /\ lane'[d] = lane[d]
           \/ ball'[d] = ball[d] + 1 /\ lane'[d] = lane[d] - 1
           \/ ball'[d] = ball[d] /\ lane'[d] = 0 /\ dev[d].actual = ball[d]
    BY <1>0, <1>3 DEF BallEnters, BallFallsBack, BallGone, Only, InFlight, solenoid
  <2>3. Gone(at[d], dev[d]) \in Nat /\ Entering(at[d], todo[d]) = Entering(at[d], todo[d])
    BY <2>1 DEF Gone
  <2> DEFINE x == dev[d]
             b == ball[d]
             c == ball'[d]
             l == lane[d]
             m == lane'[d]
  <2> HIDE DEF x, b, c, l, m
  <2>4. x.actual <= c + m
    BY <2>1, <2>2 DEF Tracked, x, b, c, l, m
  <2>5. d # Trough => LockOK(d, c, x, at[d], todo[d], InFlight)
    <3> SUFFICES ASSUME d # Trough PROVE LockOK(d, c, x, at[d], todo[d], InFlight)
      OBVIOUS
    <3>1. LockOK(d, b, x, at[d], todo[d], InFlight) /\ c \in Nat /\ b \in Nat /\ (c = b \/ c = b + 1)
      BY <2>1, <2>2 DEF Tracked, x, b, c
    <3>2. x.actual \in Nat /\ x.kicks_needed \in Nat /\ Gone(at[d], x) \in Nat
      BY <2>1, <2>3 DEF x
    <3>3. x.actual <= c + Gone(at[d], x)
      BY <3>1, <3>2 DEF LockOK
    <3>4. InFlight = d => /\ x.actual <= c
                          /\ c > 0 => x.actual < c + x.kicks_needed
      <4> SUFFICES ASSUME InFlight = d
                   PROVE  x.actual <= c /\ (c > 0 => x.actual < c + x.kicks_needed)
        OBVIOUS
      <4>1. x.actual <= b /\ (b > 0 => x.actual < b + x.kicks_needed)
        BY <3>1 DEF LockOK
      <4> QED BY <3>1, <3>2, <4>1
    <3> QED BY <3>1, <3>3, <3>4 DEF LockOK
  <2> QED BY <1>2, <2>1, <2>2, <2>4, <2>5 DEF Tracked, x, b, c, l, m
<1>4. ASSUME NEW d \in Devices, BallEscapes(d) PROVE FALSE
  <2>1. d \in Leaky /\ live_balls < Surprises /\ live_balls \in 0 .. Byte - 1 /\ Byte = 256
    BY <1>4, Numbers DEF BallEscapes, DeviceInv, Globals
  <2> QED BY <2>1 DEF OneBallGame
<1>5. CASE PulseKicks \/ PulseFails
  <2> DEFINE s == sol_pulsing
  <2>1. /\ s \in Devices /\ InFlight = s /\ InFlight' = Nobody
        /\ Tracked(s, ball[s], lane[s], dev[s], at[s], todo[s], s)
        /\ ball[s] \in Nat /\ lane[s] \in Nat /\ dev[s].actual \in Nat
        /\ dev[s].kicks_needed \in Nat /\ dev[s].max_count \in Nat /\ Nobody # s
    <3>1. s \in Devices /\ InFlight = s /\ InFlight' = Nobody
      BY <1>5 DEF PulseKicks, PulseFails, PulseEnds, DeviceInv, Solenoid, InFlight
    <3> HIDE DEF s
    <3> QED BY <3>1, TrackFacts
  <2> HIDE DEF s
  <2>2. CASE PulseFails
    <3>1. ball' = ball /\ lane' = lane
      BY <2>2 DEF PulseFails, physical
    <3>2. Tracked(s, ball[s], lane[s], dev[s], at[s], todo[s], Nobody)
      BY <2>1 DEF Tracked, LockOK
    <3>3. Only(ball, ball', s) /\ Only(lane, lane', s) /\ ball'[s] = ball[s] /\ lane'[s] = lane[s]
      BY <1>0, <2>1, <3>1, Unchanging
    <3> QED BY <1>2, <2>1, <3>2, <3>3
  <2>3. CASE PulseKicks
    <3>1. /\ Only(ball, ball', s) /\ Only(lane, lane', s) /\ ball[s] > 0
          /\ ball'[s] = ball[s] - 1 /\ lane'[s] = lane[s] + 1
      BY <1>0, <2>1, <2>3 DEF PulseKicks, Only, s
    <3> DEFINE x == dev[s]
               b == ball[s]
               c == ball'[s]
               p == at[s]
    <3>2. /\ x.actual \in Nat /\ x.kicks_needed \in Nat /\ b \in Nat /\ b > 0 /\ c = b - 1
          /\ x.state = "releasing" /\ p \in {"none", "settle", "pulse"}
          /\ p = "none" => x.kicks_needed = 0
      BY <2>1, <3>1 DEF Tracked
    <3>3. ASSUME s # Trough PROVE LockOK(s, c, x, p, todo[s], Nobody)
      <4>1. LockOK(s, b, x, p, todo[s], s)
        BY <2>1, <3>3 DEF Tracked
      <4> HIDE DEF x, b, c, p
      <4>2. x.actual <= b /\ x.actual < b + x.kicks_needed
        BY <3>2, <4>1 DEF LockOK
      <4>3. x.actual <= c + Gone(p, x)
        BY <3>2, <4>2 DEF Gone
      <4> QED BY <2>1, <4>1, <4>3 DEF LockOK
    <3>4. x.actual <= c + lane'[s]
      BY <2>1, <3>1 DEF Tracked
    <3>5. Tracked(s, c, lane'[s], x, p, todo[s], Nobody)
      BY <2>1, <3>2, <3>3, <3>4 DEF Tracked
    <3> QED BY <1>2, <2>1, <3>1, <3>5
  <2> QED BY <1>5, <2>2, <2>3
<1>6. CASE SetValidPlayfield \/ KickoutLock
  <2>1. ball' = ball /\ lane' = lane /\ InFlight' = InFlight
    BY <1>6 DEF SetValidPlayfield, KickoutLock, physical, solenoid, InFlight
  <2> QED BY <1>1, <2>1 DEF TrackInv, InGame
<1> QED BY <1>3, <1>4, <1>5, <1>6 DEF Playfield, Pulse


(* A request changes of a record its kicks and errors only.                *)
LEMMA RequestFields ==
  ASSUME NEW x \in Record, NEW n
  PROVE  /\ RequestedTimes(x, n).actual = x.actual
         /\ RequestedTimes(x, n).max_count = x.max_count
         /\ RequestedTimes(x, n).state = x.state
  BY DEF RequestedTimes, Record

LEMMA NoRequests == ASSUME DeviceInv, OneBallGame PROVE ~ Requests
<1>1. live_balls \in 0 .. Byte - 1 /\ Multiball = 0 /\ Byte = 256
  BY Numbers DEF DeviceInv, Globals, OneBallGame
<1>2. ~ (live_balls < Multiball)
  BY <1>1
<1> QED BY <1>2 DEF Requests, SetBallCount, DeviceUnlockBall, DeviceRequestEmpty

LEMMA TrackRest ==
  ASSUME DeviceInv, TrackInv, OneBallGame, Game \/ Probe \/ TroughEnter
  PROVE  TrackInv'
<1> DEFINE T == Trough
           x == dev[T]
<1>0. /\ T \in Devices /\ dev \in [Devices -> Record] /\ at \in [Devices -> Phases]
      /\ todo \in [Devices -> 0 .. NumBalls] /\ x \in Record
      /\ ball \in [Devices -> 0 .. NumBalls] /\ lane \in [Devices -> 0 .. NumBalls]
  <2>1. T \in Devices
    BY Numbers
  <2>2. /\ dev \in [Devices -> Record] /\ at \in [Devices -> Phases]
        /\ todo \in [Devices -> 0 .. NumBalls]
        /\ ball \in [Devices -> 0 .. NumBalls] /\ lane \in [Devices -> 0 .. NumBalls]
    BY DEF DeviceInv, Table, TableOf, Physical, Counts
  <2> QED BY <2>1, <2>2
<1>1. UNCHANGED <<ball, lane>> /\ InFlight' = InFlight
  <2>1. CASE Game
    BY <2>1 DEF Game, StartGame, StartRefused, StartIgnored, StartBall, StopGame, AmodeStart,
       physical, solenoid, InFlight
  <2>2. CASE Probe
    BY <2>2 DEF Probe, DeviceProbe, ProbeGivesUp, ProbeExit, physical, solenoid, InFlight
  <2>3. CASE TroughEnter
    BY <2>3 DEF TroughEnter, RemoveMissing, RemoveNothing, BallSaved, DrainMultiball, ServeAgain,
       EndBall, BallDrain, Throw, physical, solenoid, InFlight
  <2> QED BY <2>1, <2>2, <2>3
<1>2. ASSUME UNCHANGED <<dev, at, todo>>, (InGame => probe = "none")' PROVE TrackInv'
  BY <1>1, <1>2 DEF TrackInv
<1>3. CASE StartGame \/ StartRefused \/ StartIgnored \/ StopGame \/ AmodeStart \/ ProbeGivesUp
           \/ ProbeExit
  <2>1. UNCHANGED <<dev, at, todo>>
    BY <1>3 DEF StartGame, StartRefused, StartIgnored, StopGame, AmodeStart, ProbeGivesUp,
       ProbeExit, table, tasks
  <2>2. (InGame => probe = "none")'
    BY <1>3 DEF StartGame, StartRefused, StartIgnored, StopGame, AmodeStart, ProbeGivesUp,
       ProbeExit, AtStartButton, play, probing, InGame, TrackInv
  <2> QED BY <1>2, <2>1, <2>2
<1>4. ASSUME (InGame => probe = "none")', NEW y \in Record,
             y.actual = x.actual, y.state = x.state,
             dev' = [dev EXCEPT ![T] = y],
             \A e \in Devices \ {T} : at'[e] = at[e] /\ todo'[e] = todo[e],
             \/ at'[T] = at[T] /\ at[T] = "enter"
             \/ at'[T] = "none" /\ y.kicks_needed = 0 /\ at[T] = "enter"
             \/ at'[T] = "settle"
      PROVE  TrackInv'
  <2> SUFFICES ASSUME NEW e \in Devices
               PROVE  Tracked(e, ball[e], lane[e], dev'[e], at'[e], todo'[e], InFlight)
    BY <1>1, <1>4 DEF TrackInv
  <2>1. Tracked(e, ball[e], lane[e], dev[e], at[e], todo[e], InFlight)
    BY DEF TrackInv
  <2>2. CASE e = T
    <3>1. dev'[T] = y
      BY <1>0, <1>4
    <3> QED BY <1>4, <2>1, <2>2, <3>1 DEF Tracked
  <2>3. CASE e # T
    <3>1. dev'[e] = dev[e] /\ at'[e] = at[e] /\ todo'[e] = todo[e]
      BY <1>0, <1>4, <2>3
    <3> QED BY <2>1, <3>1
  <2> QED BY <2>2, <2>3
<1>5. CASE StartBall
  <2> DEFINE y == RequestedTimes(x, 1)
  <2>1. y \in Record /\ y.actual = x.actual /\ y.state = x.state
    BY <1>0, RequestFields, RequestFacts
  <2>2. /\ dev' = [dev EXCEPT ![T] = y]
        /\ \A e \in Devices \ {T} : at'[e] = at[e] /\ todo'[e] = todo[e]
        /\ at'[T] = "settle" /\ probe' = probe /\ InGame
    BY <1>0, <1>5 DEF StartBall, Restart, Requested, probing, InGame
  <2>3. (InGame => probe = "none")'
    BY <2>2 DEF TrackInv
  <2> HIDE DEF y
  <2> QED BY <1>4, <2>1, <2>2, <2>3
<1>6. CASE TroughEnter
  <2>1. CASE EndBall
    <3>1. x.kicks_needed = 0
      <4>1. BallsLeft = 0 /\ live_balls > 0
        BY <2>1 DEF EndBall, BallDrain
      <4>2. live_balls \in 0 .. Byte - 1 /\ x.kicks_needed \in 0 .. 255 /\ Byte = 256
        BY <1>0, Fields, Numbers DEF DeviceInv, Globals
      <4>3. live_balls \in Nat /\ x.kicks_needed \in Nat
        BY <4>2
      <4>4. live_balls - 1 + x.kicks_needed = 0
        BY <4>1 DEF BallsLeft
      <4> QED BY <4>1, <4>3, <4>4
    <3>2. /\ dev' = [dev EXCEPT ![T] = x] /\ at'[T] = "none" /\ at[T] = "enter"
          /\ \A e \in Devices \ {T} : at'[e] = at[e] /\ todo'[e] = todo[e]
          /\ probe' = probe /\ InGame
      BY <1>0, <2>1 DEF EndBall, BallDrain, Throw, probing, InGame, InPlay
    <3>3. (InGame => probe = "none")'
      BY <3>2 DEF TrackInv
    <3> HIDE DEF x
    <3> QED BY <1>0, <1>4, <3>1, <3>2, <3>3
  <2>2. CASE RemoveMissing \/ RemoveNothing \/ BallSaved \/ DrainMultiball \/ ServeAgain
    <3> DEFINE r == RequestedTimes(x, 1)
    <3>1. r \in Record /\ r.actual = x.actual /\ r.state = x.state
      BY <1>0, RequestFields, RequestFacts
    <3> HIDE DEF r
    <3>2. /\ \/ dev' = dev
             \/ dev' = [dev EXCEPT ![T] = r]
          /\ at[T] = "enter" /\ at' = at /\ todo' = [todo EXCEPT ![T] = @ - 1]
          /\ probe' = probe /\ game' = game
      BY <2>2 DEF RemoveMissing, RemoveNothing, BallSaved, DrainMultiball, ServeAgain, BallDrain,
         Throw, Thrown, probing, Requested, r
    <3>3. /\ \A e \in Devices \ {T} : at'[e] = at[e] /\ todo'[e] = todo[e]
          /\ at'[T] = at[T] /\ at[T] = "enter"
      BY <1>0, <3>2
    <3>4. (InGame => probe = "none")'
      BY <3>2 DEF TrackInv, InGame
    <3>5. dev' = [dev EXCEPT ![T] = x] \/ dev' = [dev EXCEPT ![T] = r]
      BY <1>0, <3>2
    <3> HIDE DEF x
    <3> QED BY <1>0, <1>4, <3>1, <3>3, <3>4, <3>5
  <2> QED BY <1>6, <2>1, <2>2 DEF TroughEnter
<1>7. CASE DeviceProbe
  <2>1. probe = "scan" /\ game' = game
    BY <1>7 DEF DeviceProbe, play
  <2>2. (InGame => probe = "none")'
    BY <2>1 DEF TrackInv, InGame
  <2> SUFFICES ASSUME NEW d \in Devices
               PROVE  Tracked(d, ball[d], lane[d], dev'[d], at'[d], todo'[d], InFlight)
    BY <1>1, <2>2 DEF TrackInv
  <2>3. /\ Tracked(d, ball[d], lane[d], dev[d], at[d], todo[d], InFlight)
        /\ ball[d] \in Nat /\ lane[d] \in Nat /\ Size[d] \in Nat
    BY TrackFacts
  <2>4. CASE d \notin Probed
    <3>1. dev'[d] = dev[d] /\ at'[d] = at[d] /\ todo'[d] = todo[d]
      BY <1>7, <2>4 DEF DeviceProbe
    <3> QED BY <2>3, <3>1
  <2>5. CASE d \in Probed
    <3> DEFINE y == dev'[d]
               b == ball[d]
               k == IF d \in Extra THEN 1 ELSE 0
               q == IF d \in Extra THEN "settle" ELSE "none"
    <3>1. y = Cleared(d) /\ at'[d] = q /\ todo'[d] = 0
      BY <1>7, <2>5 DEF DeviceProbe
    <3>2. /\ y.actual = b /\ y.max_count = InitMax[d] /\ y.kicks_needed = k
          /\ y.state = dev[d].state
      BY <1>0, <3>1, TableFacts DEF Cleared, Record
    <3>3. k \in Nat /\ (d \in Extra => b > InitMax[d]) /\ (d \notin Extra => ~ (b > InitMax[d]))
          /\ (d \in Extra => k = 1)
      BY DEF Extra
    <3>4. (InFlight = d => y.state = "releasing") /\ (q = "none" => k = 0) /\ q \in {"none", "settle"}
      BY <2>3, <3>2 DEF Tracked
    <3> HIDE DEF y, b, k, q
    <3>5. ASSUME d # Trough PROVE LockOK(d, b, y, q, 0, InFlight)
      <4>1. InitMax[d] = 0
        BY <3>5 DEF OneBallGame
      <4>2. Entering(q, 0) = 0 /\ ToCome(q, 0) = 0 /\ Gone(q, y) \in Nat
        BY <3>2, <3>3, <3>4 DEF Entering, ToCome, Gone
      <4>3. b \in Nat /\ (b > 0 => k = 1) /\ (b = 0 => k = 0)
        <5>1. b \in Nat
          BY <2>3 DEF b
        <5>2. b > 0 => d \in Extra
          BY <3>3, <4>1
        <5>3. b = 0 => d \notin Extra
          BY <3>3, <4>1, <5>1
        <5> QED BY <3>3, <5>1, <5>2, <5>3 DEF k
      <4>4. 0 + k + 0 <= b + 0 /\ b <= b /\ (b > 0 => b < b + k) /\ 0 <= Size[d]
        BY <2>3, <3>3, <4>3
      <4>5. b <= b + Gone(q, y)
        BY <4>2, <4>3
      <4>6. q # "attempt"
        BY <3>4
      <4> QED BY <3>2, <4>1, <4>2, <4>4, <4>5, <4>6 DEF LockOK
    <3>6. b <= b + lane[d]
      BY <2>3 DEF b
    <3>7. Tracked(d, b, lane[d], y, q, 0, InFlight)
      BY <3>2, <3>4, <3>5, <3>6 DEF Tracked
    <3> QED BY <3>1, <3>7 DEF y, b, q
  <2> QED BY <2>4, <2>5
<1> QED BY <1>3, <1>5, <1>6, <1>7 DEF Game, Probe


(* A lock keeps one more ball of the device, and serves one of the trough. *)
LEMMA LockFields ==
  ASSUME DeviceInv, NEW d \in Devices, DeviceLockBall(d)
  PROVE  /\ cpu = d /\ InPlay /\ d # Trough /\ at[d] = "enter" /\ at'[d] = "enter"
         /\ todo[d] > 0 /\ todo'[d] = todo[d] - 1 /\ dev[d].max_count < Size[d]
         /\ UNCHANGED <<ball, lane, moved, probe, game, clean>> /\ InFlight' = InFlight
         /\ dev'[d].actual = dev[d].actual /\ dev'[d].kicks_needed = dev[d].kicks_needed
         /\ dev'[d].state = dev[d].state /\ dev'[d].max_count = dev[d].max_count + 1
         /\ \A e \in Devices \ {d, Trough} :
              dev'[e] = dev[e] /\ at'[e] = at[e] /\ todo'[e] = todo[e]
         /\ dev[Trough].actual > 0 => /\ at'[Trough] = "settle"
                                      /\ dev'[Trough] = RequestedTimes(dev[Trough], 1)
         /\ ~ (dev[Trough].actual > 0) => /\ at'[Trough] = at[Trough]
                                          /\ dev'[Trough] = dev[Trough]
                                          /\ todo'[Trough] = todo[Trough]
<1>0. /\ dev \in [Devices -> Record] /\ at \in [Devices -> Phases] /\ Trough \in Devices
      /\ todo \in [Devices -> 0 .. NumBalls] /\ dev[d] \in Record
  BY TableFacts, Numbers
<1>1. /\ cpu = d /\ InPlay /\ d # Trough /\ at[d] = "enter" /\ todo[d] > 0
      /\ dev[d].max_count < Size[d]
      /\ UNCHANGED <<ball, lane, moved, probe, game, clean>> /\ InFlight' = InFlight
  BY DEF DeviceLockBall, Throw, physical, probing, solenoid, InFlight
<1> DEFINE y == [dev[d] EXCEPT !.max_count = dev[d].max_count + 1]
           r == RequestedTimes(dev[Trough], 1)
<1>2. /\ y.actual = dev[d].actual /\ y.kicks_needed = dev[d].kicks_needed
      /\ y.state = dev[d].state /\ y.max_count = dev[d].max_count + 1
  BY <1>0 DEF Record
<1>3. CASE dev[Trough].actual > 0
  <2>1. /\ at' = [at EXCEPT ![Trough] = "settle"]
        /\ todo' = [todo EXCEPT ![d] = @ - 1, ![Trough] = 0]
        /\ dev' = [dev EXCEPT ![d].max_count = @ + 1, ![Trough] = Requested(@)]
    BY <1>3 DEF DeviceLockBall
  <2>2. /\ dev'[d] = y /\ dev'[Trough] = r /\ at'[Trough] = "settle" /\ at'[d] = at[d]
        /\ todo'[d] = todo[d] - 1
        /\ \A e \in Devices \ {d, Trough} :
             dev'[e] = dev[e] /\ at'[e] = at[e] /\ todo'[e] = todo[e]
    BY <1>0, <1>1, <2>1 DEF Requested
  <2> HIDE DEF y, r
  <2> QED BY <1>1, <1>2, <1>3, <2>2 DEF r
<1>4. CASE ~ (dev[Trough].actual > 0)
  <2>1. /\ at' = at /\ todo' = [todo EXCEPT ![d] = @ - 1]
        /\ dev' = [dev EXCEPT ![d].max_count = @ + 1]
    BY <1>4 DEF DeviceLockBall
  <2>2. /\ dev'[d] = y /\ dev'[Trough] = dev[Trough] /\ at'[Trough] = at[Trough] /\ at'[d] = at[d]
        /\ todo'[d] = todo[d] - 1 /\ todo'[Trough] = todo[Trough]
        /\ \A e \in Devices \ {d, Trough} :
             dev'[e] = dev[e] /\ at'[e] = at[e] /\ todo'[e] = todo[e]
    BY <1>0, <1>1, <2>1
  <2> HIDE DEF y, r
  <2> QED BY <1>1, <1>2, <1>4, <2>2
<1> QED BY <1>3, <1>4

LEMMA TrackLock ==
  ASSUME DeviceInv, TrackInv, OneBallGame, NEW d \in Devices, DeviceLockBall(d)
  PROVE  TrackInv'
<1> DEFINE T == Trough
<1>1. /\ d # T /\ at[d] = "enter" /\ at'[d] = "enter"
      /\ todo[d] > 0 /\ todo'[d] = todo[d] - 1 /\ dev[d].max_count < Size[d]
      /\ UNCHANGED <<ball, lane, probe, game>> /\ InFlight' = InFlight
      /\ dev'[d].actual = dev[d].actual /\ dev'[d].kicks_needed = dev[d].kicks_needed
      /\ dev'[d].state = dev[d].state /\ dev'[d].max_count = dev[d].max_count + 1
      /\ \A e \in Devices \ {d, T} : dev'[e] = dev[e] /\ at'[e] = at[e] /\ todo'[e] = todo[e]
      /\ \/ at'[T] = "settle" /\ dev'[T] = RequestedTimes(dev[T], 1)
         \/ at'[T] = at[T] /\ dev'[T] = dev[T] /\ todo'[T] = todo[T]
  BY LockFields
<1>2. (InGame => probe = "none")'
  BY <1>1 DEF TrackInv, InGame
<1> SUFFICES ASSUME NEW e \in Devices
             PROVE  Tracked(e, ball[e], lane[e], dev'[e], at'[e], todo'[e], InFlight)
  BY <1>1, <1>2 DEF TrackInv
<1>3. Tracked(e, ball[e], lane[e], dev[e], at[e], todo[e], InFlight)
  BY DEF TrackInv
<1>4. CASE e \notin {d, T}
  BY <1>1, <1>3, <1>4
<1>5. CASE e = T
  <2>1. dev[T] \in Record
    BY TableFacts, Numbers
  <2>2. RequestedTimes(dev[T], 1).actual = dev[T].actual
        /\ RequestedTimes(dev[T], 1).state = dev[T].state
    BY <2>1, RequestFields
  <2> QED BY <1>1, <1>3, <1>5, <2>2 DEF Tracked
<1>6. CASE e = d
  <2> DEFINE x == dev[d]
             y == dev'[d]
             b == ball[d]
             t == todo[d]
             u == todo'[d]
  <2>1. /\ x.actual \in Nat /\ x.kicks_needed \in Nat /\ x.max_count \in Nat /\ Size[d] \in Nat
        /\ t \in Nat /\ b \in Nat
    BY TrackFacts
  <2>2. LockOK(d, b, x, "enter", t, InFlight) /\ Tracked(d, b, lane[d], x, "enter", t, InFlight)
    BY <1>1, <1>3, <1>6 DEF Tracked
  <2> HIDE DEF x, y, b, t, u
  <2>3. /\ y.actual = x.actual /\ y.kicks_needed = x.kicks_needed /\ y.state = x.state
        /\ y.max_count = x.max_count + 1 /\ u = t - 1 /\ x.max_count < Size[d] /\ t > 0
    BY <1>1 DEF x, y, t, u
  <2>4. LockOK(d, b, y, "enter", u, InFlight)
    <3>1. y.max_count <= Size[d]
      BY <2>1, <2>3
    <3>2. y.max_count + y.kicks_needed + u <= y.actual + 0
      BY <2>1, <2>2, <2>3 DEF LockOK, Entering, ToCome
    <3> QED BY <2>2, <2>3, <3>1, <3>2 DEF LockOK, Entering, ToCome, Gone
  <2>5. Tracked(d, b, lane[d], y, "enter", u, InFlight)
    BY <2>2, <2>3, <2>4 DEF Tracked
  <2> QED BY <1>1, <1>6, <2>5 DEF y, b, u
<1> QED BY <1>4, <1>5, <1>6

LEMMA TrackStep == DeviceInv /\ TrackInv /\ OneBallGame /\ [Next]_vars => TrackInv'
<1> SUFFICES ASSUME DeviceInv, TrackInv, OneBallGame, [Next]_vars PROVE TrackInv'
  OBVIOUS
<1>1. CASE UNCHANGED vars
  BY <1>1 DEF vars, physical, table, tasks, play, probing, solenoid, TrackInv, InFlight, InGame
<1>2. ASSUME NEW d \in Devices, Update(d) \/ DeviceSwHandler(d) PROVE TrackInv'
  BY <1>2, TrackUpdate, TrackLock
<1> QED BY <1>1, <1>2, TrackBalls, TrackRest, NoRequests DEF Next

-----------------------------------------------------------------------------
(* The balls that roll: all but those in the trough and those locked.      *)
Kept    == [d \in Devices |-> IF d = Trough THEN ball[d] ELSE dev[d].max_count]
Rolling == NumBalls - Total(Kept)

(* A count that is nowhere smaller has a greater sum, by any difference.   *)
LEMMA TotalGap ==
  ASSUME NEW f \in Counts, NEW g \in Counts, \A e \in Devices : f[e] <= g[e], NEW d \in Devices
  PROVE  Total(f) + (g[d] - f[d]) <= Total(g)
<1>1. /\ Total(f) = Cardinality(Others(f, d)) + f[d] /\ Cardinality(Others(f, d)) \in Nat
      /\ Total(g) = Cardinality(Others(g, d)) + g[d] /\ Cardinality(Others(g, d)) \in Nat
      /\ IsFiniteSet(Others(g, d))
  BY SplitDevice
<1>2. Others(f, d) \subseteq Others(g, d)
  <2> SUFFICES ASSUME NEW b \in Devices \X (1 .. NumBalls), b[2] <= f[b[1]] PROVE b[2] <= g[b[1]]
    BY DEF Others, Balls
  <2>1. b[2] \in Int /\ b[1] \in Devices
    OBVIOUS
  <2>2. f[b[1]] \in Int /\ g[b[1]] \in Int /\ f[b[1]] <= g[b[1]]
    BY <2>1 DEF Counts
  <2> QED BY <2>1, <2>2
<1>3. Cardinality(Others(f, d)) <= Cardinality(Others(g, d))
  BY <1>1, <1>2, FS_Subset
<1>4. f[d] \in Nat /\ g[d] \in Nat
  BY DEF Counts
<1> QED BY <1>1, <1>3, <1>4

LEMMA TotalTwo ==
  ASSUME NEW f \in Counts, NEW d \in Devices, NEW e \in Devices, d # e
  PROVE  f[d] + f[e] <= Total(f)
<1> DEFINE g == [f EXCEPT ![d] = 0]
<1>1. 0 \in 0 .. NumBalls
  BY Numbers
<1>2. g \in Counts /\ g[e] = f[e]
  BY <1>1 DEF Counts
<1>3. Total(g) = Total(f) - f[d] + 0
  BY <1>1, TotalExcept
<1> HIDE DEF g
<1>4. g[e] <= Total(g) /\ f[e] \in Nat /\ f[d] \in Nat
  BY <1>2, TotalBound
<1>5. Total(f) \in Nat
  BY BallsFinite
<1> QED BY <1>2, <1>3, <1>4, <1>5

(* What is kept is there, and known to be.                                 *)
LEMMA KeptFacts ==
  ASSUME DeviceInv, TrackInv
  PROVE  /\ Kept \in Counts /\ Kept[Trough] = ball[Trough]
         /\ \A d \in Devices : Kept[d] <= ball[d]
         /\ \A d \in Devices \ {Trough} : Kept[d] = dev[d].max_count /\ Kept[d] <= dev[d].actual
<1>1. ASSUME NEW d \in Devices, d # Trough
      PROVE  dev[d].max_count \in 0 .. NumBalls /\ dev[d].max_count <= ball[d]
             /\ dev[d].max_count <= dev[d].actual
  <2> DEFINE x == dev[d]
             p == at[d]
             t == todo[d]
             b == ball[d]
  <2>1. /\ LockOK(d, b, x, p, t, InFlight)
        /\ x.actual \in Nat /\ x.kicks_needed \in Nat /\ x.max_count \in Nat /\ b \in Nat /\ t \in Nat
        /\ p \in {"success", "kicked"} => t <= x.kicks_needed
    BY <1>1, TrackFacts DEF Tracked
  <2>2. b \in 0 .. NumBalls /\ NumBalls \in Nat
    BY TableFacts
  <2> HIDE DEF x, p, t, b
  <2>3. x.max_count + x.kicks_needed + Entering(p, t) <= x.actual + ToCome(p, t)
        /\ x.actual <= b + Gone(p, x)
    BY <2>1 DEF LockOK
  <2>4. x.max_count <= b /\ x.max_count <= x.actual
    <3>1. CASE p \in {"success", "kicked"}
      BY <2>1, <2>3, <3>1 DEF Entering, ToCome, Gone
    <3>2. CASE p \notin {"success", "kicked"}
      BY <2>1, <2>3, <3>2 DEF Entering, ToCome, Gone
    <3> QED BY <3>1, <3>2
  <2>5. x.max_count \in 0 .. NumBalls
    BY <2>1, <2>2, <2>4
  <2> QED BY <2>4, <2>5 DEF x, b
<1>2. \A d \in Devices : ball[d] \in 0 .. NumBalls /\ ball[d] <= ball[d]
  BY TableFacts
<1>3. Trough \in Devices
  BY Numbers
<1> QED BY <1>1, <1>2, <1>3 DEF Kept, Counts

(* The balls on the playfield and in lanes roll, and so do those in a      *)
(* device beyond what it keeps.                                            *)
LEMMA RollingFacts ==
  ASSUME DeviceInv, TrackInv
  PROVE  /\ Rolling \in Nat /\ Loose \in Nat /\ Loose >= Total(lane) /\ Total(lane) \in Nat
         /\ \A d \in Devices : /\ Loose + (ball[d] - Kept[d]) <= Rolling
                               /\ lane[d] \in Nat /\ lane[d] <= Total(lane)
                               /\ ball[d] \in Nat /\ Kept[d] \in Nat /\ Kept[d] <= ball[d]
<1>1. Kept \in Counts /\ \A d \in Devices : Kept[d] <= ball[d]
  BY KeptFacts
<1>2. /\ ball \in Counts /\ lane \in Counts /\ Total(ball) + Total(lane) <= NumBalls
      /\ NumBalls \in Nat
  BY Numbers DEF DeviceInv, Physical
<1>3. Total(ball) \in Nat /\ Total(lane) \in Nat /\ Total(Kept) \in Nat
  BY BallsFinite
<1>4. \A d \in Devices : lane[d] \in Nat /\ ball[d] \in Nat /\ Kept[d] \in Nat
                         /\ lane[d] <= Total(lane)
  BY <1>1, <1>2, TotalBound DEF Counts
<1>5. \A d \in Devices : Total(Kept) + (ball[d] - Kept[d]) <= Total(ball)
  BY <1>1, <1>2, TotalGap
<1> DEFINE n == Total(ball)
           m == Total(lane)
           c == Total(Kept)
<1>6. Loose = NumBalls - n /\ Rolling = NumBalls - c
  BY DEF Loose, Rolling
<1> HIDE DEF n, m, c
<1>7. n \in Nat /\ m \in Nat /\ c \in Nat /\ n + m <= NumBalls
  BY <1>2, <1>3 DEF n, m, c
<1>8. \A d \in Devices : /\ c + (ball[d] - Kept[d]) <= n /\ Kept[d] <= ball[d]
                         /\ ball[d] \in Nat /\ Kept[d] \in Nat
  BY <1>1, <1>4, <1>5 DEF n, c
<1>9. c <= n
  <2>1. Trough \in Devices
    BY Numbers
  <2> QED BY <1>7, <1>8, <2>1
<1>10. Rolling \in Nat /\ Loose \in Nat /\ Loose >= m
  BY <1>2, <1>6, <1>7, <1>9
<1>11. \A d \in Devices : Loose + (ball[d] - Kept[d]) <= Rolling
  BY <1>2, <1>6, <1>7, <1>8
<1> QED BY <1>1, <1>3, <1>4, <1>10, <1>11 DEF m

LEMMA NoneRolls ==
  ASSUME DeviceInv, TrackInv, Rolling = 0
  PROVE  /\ Loose = 0
         /\ \A d \in Devices : ball[d] = Kept[d] /\ lane[d] = 0
         /\ \A d \in Devices \ {Trough} : dev[d].actual = Kept[d]
<1>1. /\ Loose \in Nat /\ Loose >= Total(lane) /\ Total(lane) \in Nat
      /\ \A d \in Devices : /\ Loose + (ball[d] - Kept[d]) <= Rolling
                            /\ lane[d] \in Nat /\ lane[d] <= Total(lane)
                            /\ ball[d] \in Nat /\ Kept[d] \in Nat /\ Kept[d] <= ball[d]
  BY RollingFacts
<1> DEFINE m == Total(lane)
<1> HIDE DEF m
<1>2. Trough \in Devices
  BY Numbers
<1>3. Loose = 0 /\ m = 0
  BY <1>1, <1>2 DEF m
<1>4. \A d \in Devices : ball[d] = Kept[d] /\ lane[d] = 0
  BY <1>1, <1>3 DEF m
<1>5. ASSUME NEW d \in Devices \ {Trough} PROVE dev[d].actual = Kept[d]
  <2>1. Kept[d] <= dev[d].actual
    BY KeptFacts
  <2>2. dev[d].actual <= ball[d] + lane[d] /\ dev[d].actual \in Nat
    BY TrackFacts DEF Tracked
  <2>3. ball[d] = Kept[d] /\ lane[d] = 0 /\ Kept[d] \in Nat
    BY <1>1, <1>4
  <2> QED BY <2>1, <2>2, <2>3
<1> QED BY <1>3, <1>4, <1>5

(* The one ball that rolls is in the trough's lane.                        *)
LEMMA OneInLane ==
  ASSUME DeviceInv, TrackInv, Rolling = 1, lane[Trough] > 0
  PROVE  /\ Loose = 1 /\ Total(lane) = 1
         /\ \A d \in Devices : ball[d] = Kept[d]
         /\ \A d \in Devices \ {Trough} : dev[d].actual = Kept[d]
<1>0. Trough \in Devices
  BY Numbers
<1>1. /\ Loose \in Nat /\ Loose >= Total(lane) /\ Total(lane) \in Nat
      /\ \A d \in Devices : /\ Loose + (ball[d] - Kept[d]) <= Rolling
                            /\ lane[d] \in Nat /\ lane[d] <= Total(lane)
                            /\ ball[d] \in Nat /\ Kept[d] \in Nat /\ Kept[d] <= ball[d]
  BY RollingFacts
<1> DEFINE m == Total(lane)
           T == Trough
<1> HIDE DEF m
<1>2. Loose = 1 /\ m = 1 /\ lane[T] = 1
  BY <1>0, <1>1 DEF m
<1>3. \A d \in Devices : ball[d] = Kept[d]
  BY <1>1, <1>2
<1>4. ASSUME NEW d \in Devices \ {T} PROVE dev[d].actual = Kept[d]
  <2>1. lane[T] + lane[d] <= m
    <3>1. lane \in Counts /\ T # d /\ T \in Devices
      BY <1>0 DEF DeviceInv, Physical
    <3> QED BY <3>1, TotalTwo DEF m
  <2>2. lane[d] = 0
    BY <1>0, <1>1, <1>2, <2>1
  <2>3. Kept[d] <= dev[d].actual
    BY KeptFacts
  <2>4. dev[d].actual <= ball[d] + lane[d] /\ dev[d].actual \in Nat
    BY TrackFacts DEF Tracked
  <2>5. ball[d] = Kept[d] /\ Kept[d] \in Nat
    BY <1>1, <1>3
  <2> QED BY <2>2, <2>3, <2>4, <2>5
<1> QED BY <1>2, <1>3, <1>4 DEF m

(* When all counts are right, the balls that roll are missing.             *)
LEMMA MissingRoll ==
  ASSUME DeviceInv, TrackInv, NEW t, t[Trough].actual = ball[Trough],
         \A d \in Devices \ {Trough} : t[d].actual = Kept[d]
  PROVE  Missing(t) = Rolling
<1>1. Kept \in Counts /\ Kept[Trough] = ball[Trough]
  BY KeptFacts
<1>2. [d \in Devices |-> t[d].actual] = Kept
  <2>1. \A d \in Devices : t[d].actual = Kept[d]
    BY <1>1
  <2> QED BY <1>1, <2>1 DEF Counts
<1>3. Rolling \in Nat /\ Rolling <= NumBalls /\ NumBalls \in 1 .. 15 /\ Byte = 256
  <2>1. Total(Kept) \in Nat
    BY BallsFinite
  <2>2. Rolling \in Nat
    BY RollingFacts
  <2> QED BY <2>1, <2>2, Numbers DEF Rolling
<1>4. Rolling % Byte = Rolling /\ ~ (Rolling > 240)
  BY <1>3
<1> QED BY <1>2, <1>4 DEF Missing, Rolling

-----------------------------------------------------------------------------
(* The one ball of a clean ball in play, as the program sees it: of the    *)
(* trough, its record x, phase p, events t and balls b; f balls roll, n    *)
(* are counted in play and m missing; c has the CPU and s is pulsed.       *)
Serving(x, p, t, b, f, n, s) ==
  /\ n = 0 /\ x.kicks_needed = 1 /\ x.actual > 0
  /\ p \in {"settle", "retry", "decide", "attempt", "pulse", "enter"}
  /\ p = "enter" => t = 0
  /\ \/ x.actual = b /\ f = 0
     \/ /\ x.actual = b + 1 /\ f = 1 /\ p \in {"settle", "pulse"}
        /\ x.state = "releasing" /\ s # Trough

Served(x, p, t, b, f, n, c, s, m) ==
  /\ p \in {"success", "kicked"} /\ c = Trough /\ t = 1 /\ s # Trough
  /\ x.kicks_needed = 1 /\ x.actual = b /\ f = 1
  /\ n = IF p = "success" THEN 0 ELSE 1
  /\ p = "success" => m > 0

Out(x, p, b, f, n, c, s) ==
  /\ n = 1 /\ x.kicks_needed = 0 /\ x.state = "idle" /\ s # Trough
  /\ p \in {"none", "settle", "decide"}
  /\ p = "decide" => c = Trough /\ x.actual = b
  /\ \/ x.actual = b /\ f = 1
     \/ x.actual + 1 = b /\ f = 0

Drained(x, p, t, b, f, n, c, s, m) ==
  /\ p = "enter" /\ c = Trough /\ t = 1 /\ s # Trough
  /\ x.kicks_needed = 0 /\ x.state = "idle" /\ x.actual = b /\ b > 0
  /\ f = 0 /\ n = 1 /\ m <= 1

Over(x, p, b, f, n, s) ==
  /\ n = 0 /\ x.kicks_needed = 0 /\ x.actual = b /\ f = 0
  /\ p \in {"none", "settle", "decide"} /\ s # Trough
  /\ x.kick_errors = MaxErrors[Trough] \/ x.actual = 0

TheBall(x, p, t, b, f, n, c, s, m) ==
  \/ Serving(x, p, t, b, f, n, s)
  \/ Served(x, p, t, b, f, n, c, s, m)
  \/ Out(x, p, b, f, n, c, s)
  \/ Drained(x, p, t, b, f, n, c, s, m)
  \/ Over(x, p, b, f, n, s)

OneBall ==
  InCleanPlay => TheBall(dev[Trough], at[Trough], todo[Trough], ball[Trough], Rolling,
                         live_balls, cpu, InFlight, missing_balls)

PlayKnown == InCleanPlay => \A d \in Devices : Known(d)

LEMMA BallFacts ==
  ASSUME DeviceInv, TrackInv, TroughKnows, RoomyTrough
  PROVE  LET x == dev[Trough]
         IN  /\ Trough \in Devices /\ Trough # Nobody
             /\ x \in Record /\ x.actual \in Nat /\ x.kicks_needed \in Nat /\ x.max_count \in Nat
             /\ x.max_count = Size[Trough] /\ ball[Trough] <= Size[Trough] /\ Size[Trough] \in Nat
             /\ ball[Trough] \in Nat /\ lane[Trough] \in Nat /\ todo[Trough] \in Nat
             /\ x.state \in {"idle", "releasing"} /\ x.actual < 16
             /\ x.actual <= ball[Trough] + lane[Trough]
             /\ InFlight = Trough => x.state = "releasing" /\ at[Trough] \in {"none", "settle", "pulse"}
             /\ Rolling \in Nat /\ live_balls \in Nat /\ live_balls < 256 /\ missing_balls \in Nat
<1>1. Trough \in Devices
  BY Numbers
<1>2. live_balls \in 0 .. 255 /\ missing_balls \in 0 .. 255
  BY Numbers DEF DeviceInv, Globals
<1>3. live_balls \in Nat /\ live_balls < 256 /\ missing_balls \in Nat
  BY <1>2
<1>4. Rolling \in Nat
  BY RollingFacts
<1>5. dev[Trough] \in Record
  BY <1>1, TableFacts
<1>6. dev[Trough].max_count = Size[Trough] /\ ball[Trough] <= Size[Trough]
  BY DEF TroughKnows, RoomyTrough
<1> QED BY <1>1, <1>3, <1>4, <1>5, <1>6, TrackFacts DEF Tracked

LEMMA SameRolling ==
  ASSUME ball'[Trough] = ball[Trough],
         \A d \in Devices \ {Trough} : dev'[d].max_count = dev[d].max_count
  PROVE  Rolling' = Rolling
<1>1. Kept' = Kept
  BY DEF Kept
<1> QED BY <1>1 DEF Rolling, Total, Balls

(* What leaves the trough, its CPU and the counts alone.                   *)
LEMMA OneBallFrame ==
  ASSUME OneBall, InCleanPlay' => InCleanPlay,
         dev'[Trough] = dev[Trough], at'[Trough] = at[Trough], todo'[Trough] = todo[Trough],
         ball'[Trough] = ball[Trough], Rolling' = Rolling, live_balls' = live_balls,
         cpu # Trough \/ UNCHANGED <<cpu, missing_balls>>,
         InFlight' = Trough => InFlight = Trough
  PROVE  OneBall'
<1> SUFFICES ASSUME InCleanPlay'
             PROVE  TheBall(dev[Trough], at[Trough], todo[Trough], ball[Trough], Rolling,
                            live_balls, cpu', InFlight', missing_balls')
  BY DEF OneBall
<1> DEFINE x == dev[Trough]
           p == at[Trough]
           t == todo[Trough]
           b == ball[Trough]
<1>1. TheBall(x, p, t, b, Rolling, live_balls, cpu, InFlight, missing_balls)
  BY DEF OneBall
<1> HIDE DEF x, p, t, b
<1>2. CASE Serving(x, p, t, b, Rolling, live_balls, InFlight)
  BY <1>2 DEF Serving, TheBall, x, p, t, b
<1>3. CASE Served(x, p, t, b, Rolling, live_balls, cpu, InFlight, missing_balls)
  BY <1>3 DEF Served, TheBall, x, p, t, b
<1>4. CASE Out(x, p, b, Rolling, live_balls, cpu, InFlight)
  BY <1>4 DEF Out, TheBall, x, p, t, b
<1>5. CASE Drained(x, p, t, b, Rolling, live_balls, cpu, InFlight, missing_balls)
  BY <1>5 DEF Drained, TheBall, x, p, t, b
<1>6. CASE Over(x, p, b, Rolling, live_balls, InFlight)
  BY <1>6 DEF Over, TheBall, x, p, t, b
<1> QED BY <1>1, <1>2, <1>3, <1>4, <1>5, <1>6 DEF TheBall

(* The balls themselves: one that enters the trough, or falls back into    *)
(* it, is the one that rolled; one that is kicked from it rolls.           *)
LEMMA RollingMoves ==
  ASSUME DeviceInv, TrackInv, UNCHANGED dev,
         ball'[Trough] \in Nat
  PROVE  Rolling' = Rolling - (ball'[Trough] - ball[Trough])
         \/ ball'[Trough] \notin 0 .. NumBalls
<1> SUFFICES ASSUME ball'[Trough] \in 0 .. NumBalls
             PROVE  Rolling' = Rolling - (ball'[Trough] - ball[Trough])
  OBVIOUS
<1> DEFINE T == Trough
           n == ball'[T]
<1>1. Kept \in Counts /\ Kept[T] = ball[T] /\ T \in Devices
  BY KeptFacts, Numbers
<1>2. Kept' = [Kept EXCEPT ![T] = n]
  <2>1. \A d \in Devices : Kept'[d] = IF d = T THEN n ELSE dev[d].max_count
    BY DEF Kept
  <2>2. \A d \in Devices : Kept[d] = IF d = T THEN ball[d] ELSE dev[d].max_count
    BY DEF Kept
  <2>3. Kept' = [d \in Devices |-> Kept'[d]] /\ Kept = [d \in Devices |-> Kept[d]]
    BY DEF Kept
  <2> QED BY <2>1, <2>2, <2>3
<1>3. Total([Kept EXCEPT ![T] = n]) = Total(Kept) - ball[T] + n
  BY <1>1, TotalExcept
<1>4. Total(Kept)' = Total(Kept')
  BY DEF Total, Balls
<1>5. Total(Kept) \in Nat /\ ball[T] \in Nat /\ n \in Nat /\ NumBalls \in Nat
  BY BallsFinite, TrackFacts, <1>1, Numbers
<1>6. Rolling' = NumBalls - (Total(Kept) - ball[T] + n)
  BY <1>2, <1>3, <1>4 DEF Rolling
<1> QED BY <1>5, <1>6 DEF Rolling

LEMMA BallRolls ==
  ASSUME DeviceInv, DeviceInv', TrackInv, TroughKnows, OneBallGame, OneBall, Playfield \/ Pulse
  PROVE  OneBall'
<1> DEFINE T == Trough
           x == dev[T]
           p == at[T]
           t == todo[T]
           b == ball[T]
           c == ball'[T]
           f == Rolling
           g == Rolling'
           n == live_balls
           m == missing_balls
           s == InFlight
<1>1. UNCHANGED <<dev, at, todo, live_balls, game, clean, cpu, missing_balls>> /\ cpu = Nobody
  BY DEF Playfield, Pulse, PulseKicks, PulseFails, BallEnters, BallEscapes, BallFallsBack, BallGone,
     SetValidPlayfield, KickoutLock, table, tasks, probing, play, Quiet, PulseEnds
<1>2. ball \in [Devices -> 0 .. NumBalls] /\ ball' \in [Devices -> 0 .. NumBalls]
      /\ lane \in [Devices -> 0 .. NumBalls]
  BY DEF DeviceInv, Physical, Counts
<1>3. /\ T \in Devices /\ T # Nobody /\ x \in Record /\ x.actual \in Nat /\ b \in Nat
      /\ f \in Nat /\ x.actual <= b + lane[T] /\ lane[T] \in Nat
      /\ s = T => x.state = "releasing" /\ p \in {"none", "settle", "pulse"}
  BY BallFacts DEF OneBallGame
<1>4. c \in 0 .. NumBalls /\ c \in Nat
  BY <1>2, <1>3
<1>5. ASSUME c = b, InFlight' = T => InFlight = T PROVE OneBall'
  <2>1. Rolling' = Rolling
    BY <1>1, <1>5, SameRolling
  <2>2. InCleanPlay' => InCleanPlay
    BY <1>1 DEF InCleanPlay
  <2> QED BY <1>1, <1>5, <2>1, <2>2, OneBallFrame
<1>6. ASSUME NEW d \in Devices, BallEscapes(d) PROVE FALSE
  <2>1. d \in Leaky /\ live_balls < Surprises /\ live_balls \in 0 .. Byte - 1 /\ Byte = 256
    BY <1>6, Numbers DEF BallEscapes, DeviceInv, Globals
  <2> QED BY <2>1 DEF OneBallGame
<1>7. g = f - (c - b)
  BY <1>1, <1>4, RollingMoves
<1>8. OneBall' = (InCleanPlay => TheBall(x, p, t, c, g, n, cpu, InFlight', m))
  BY <1>1 DEF OneBall, InCleanPlay
<1>9. InCleanPlay => TheBall(x, p, t, b, f, n, cpu, s, m)
  BY DEF OneBall
<1>10. /\ Loose \in Nat /\ Total(lane) \in Nat /\ lane[T] <= Total(lane)
       /\ Total(lane) <= Loose /\ Loose <= f
  <2>1. /\ Loose \in Nat /\ Total(lane) \in Nat /\ lane[T] <= Total(lane)
        /\ Total(lane) <= Loose /\ Loose + (b - Kept[T]) <= f /\ Kept[T] = b
    BY <1>3, RollingFacts, KeptFacts
  <2> QED BY <1>3, <2>1
<1> HIDE DEF T, x, p, t, b, c, f, g, n, m, s
<1>11. ASSUME NEW d \in Devices, BallEnters(d) \/ BallFallsBack(d) PROVE OneBall'
  <2>0. InFlight' = s
    BY <1>11 DEF BallEnters, BallFallsBack, InFlight, solenoid, s
  <2>1. CASE d # T
    <3>1. c = b
      BY <1>2, <1>3, <1>11, <2>1 DEF BallEnters, BallFallsBack, b, c, T
    <3> QED BY <1>5, <2>0, <3>1 DEF s, T
  <2>2. CASE d = T
    <3>1. c = b + 1
      BY <1>2, <1>3, <1>11, <2>2 DEF BallEnters, BallFallsBack, b, c, T
    <3>2. g = f - 1
      BY <1>3, <1>7, <3>1
    <3> SUFFICES ASSUME InCleanPlay PROVE TheBall(x, p, t, c, g, n, cpu, s, m)
      BY <1>8, <2>0
    <3>3. cpu # T
      BY <1>1, <1>3
    <3>4. f > 0
      <4>1. CASE BallEnters(d)
        <5>1. Loose - Total(lane) > 0
          BY <4>1 DEF BallEnters, OnPlayfield
        <5> QED BY <1>3, <1>10, <5>1
      <4>2. CASE BallFallsBack(d)
        <5>1. lane[T] > 0
          BY <2>2, <4>2 DEF BallFallsBack
        <5> QED BY <1>3, <1>10, <4>2, <5>1
      <4> QED BY <1>11, <4>1, <4>2
    <3>5. CASE Serving(x, p, t, b, f, n, s)
      <4>1. x.actual = b + 1 /\ f = 1 /\ p \in {"settle", "pulse"}
        BY <1>3, <3>4, <3>5 DEF Serving
      <4>2. x.actual = c /\ g = 0
        BY <3>1, <3>2, <4>1
      <4> QED BY <3>5, <4>1, <4>2 DEF TheBall, Serving
    <3>6. CASE Out(x, p, b, f, n, cpu, s)
      <4>1. x.actual = b /\ f = 1 /\ p # "decide"
        BY <3>3, <3>4, <3>6 DEF Out, T
      <4>2. x.actual + 1 = c /\ g = 0
        BY <3>1, <3>2, <4>1
      <4> QED BY <3>6, <4>1, <4>2 DEF TheBall, Out
    <3>7. ~ Served(x, p, t, b, f, n, cpu, s, m) /\ ~ Drained(x, p, t, b, f, n, cpu, s, m)
      BY <3>3 DEF Served, Drained, T
    <3>8. ~ Over(x, p, b, f, n, s)
      BY <3>4 DEF Over
    <3> QED BY <1>9, <3>5, <3>6, <3>7, <3>8 DEF TheBall
  <2> QED BY <2>1, <2>2
<1>12. CASE PulseKicks
  <2>1. /\ sol_pulsing \in Devices /\ s = sol_pulsing /\ InFlight' = Nobody /\ ball[s] > 0
        /\ ball' = [ball EXCEPT ![s] = @ - 1]
    BY <1>12 DEF PulseKicks, PulseEnds, DeviceInv, Solenoid, InFlight, s
  <2>2. CASE s # T
    <3>1. c = b
      BY <1>2, <1>3, <2>1, <2>2 DEF b, c
    <3> QED BY <1>3, <1>5, <2>1, <3>1
  <2>3. CASE s = T
    <3>1. c = b - 1 /\ b > 0
      BY <1>2, <1>3, <2>1, <2>3 DEF b, c
    <3>2. g = f + 1
      BY <1>3, <1>7, <3>1
    <3> SUFFICES ASSUME InCleanPlay PROVE TheBall(x, p, t, c, g, n, cpu, Nobody, m)
      BY <1>8, <2>1
    <3>3. Serving(x, p, t, b, f, n, s)
      BY <1>9, <2>3 DEF TheBall, Served, Out, Drained, Over, T
    <3>4. x.actual = b /\ f = 0 /\ p \in {"settle", "pulse"} /\ x.state = "releasing"
      BY <1>3, <2>3, <3>3 DEF Serving, T
    <3>5. x.actual = c + 1 /\ g = 1
      BY <1>3, <3>1, <3>2, <3>4
    <3>6. Nobody # Trough
      BY <1>3 DEF T
    <3> QED BY <3>3, <3>4, <3>5, <3>6 DEF TheBall, Serving
  <2> QED BY <2>2, <2>3
<1>13. CASE PulseFails \/ SetValidPlayfield \/ KickoutLock \/ \E d \in Devices : BallGone(d)
  <2>1. ball' = ball
    BY <1>13 DEF PulseFails, SetValidPlayfield, KickoutLock, BallGone, physical
  <2>2. InFlight' = Nobody \/ InFlight' = InFlight
    BY <1>13 DEF PulseFails, PulseEnds, SetValidPlayfield, KickoutLock, BallGone, solenoid, InFlight
  <2>3. c = b
    BY <2>1 DEF b, c
  <2> QED BY <1>3, <1>5, <2>2, <2>3
<1> QED BY <1>6, <1>11, <1>12, <1>13 DEF Playfield, Pulse

(* The steps of the trough's own task: the recounts, ...                   *)
LEMMA TroughRecounts ==
  ASSUME DeviceInv, TrackInv, TroughKnows, OneBallGame, OneBall,
         LET d == Trough
         IN  CountSame(d) \/ SurpriseRelease(d) \/ CountRose(d) \/ KickFailed(d)
             \/ KickGivenUp(d) \/ KickWorked(d)
  PROVE  OneBall'
<1> DEFINE T == Trough
           x == dev[T]
           y == dev'[T]
           p == at[T]
           q == at'[T]
           t == todo[T]
           u == todo'[T]
           b == ball[T]
           f == Rolling
           n == live_balls
           m == missing_balls
           s == InFlight
<1>1. /\ T \in Devices /\ T # Nobody /\ x \in Record /\ x.actual \in Nat /\ b \in Nat
      /\ f \in Nat /\ x.actual <= b + lane[T] /\ lane[T] \in Nat
      /\ x.kicks_needed \in Nat /\ x.state \in {"idle", "releasing"}
  BY BallFacts DEF OneBallGame
<1>2. /\ cpu = Nobody /\ p = "settle" /\ UNCHANGED <<ball, lane, game, clean>> /\ InFlight' = s /\ s # T
      /\ Only(dev, dev', T) /\ y.actual = b /\ y.max_count = x.max_count
      /\ \/ /\ \/ x.state = "idle" /\ b = x.actual
               \/ x.state # "idle" /\ x.kicks_needed = 0
            /\ y.kicks_needed = x.kicks_needed /\ y.state = x.state
            /\ y.kick_errors = x.kick_errors /\ live_balls' = n
            /\ q = "decide" /\ cpu' = T
         \/ x.state = "idle" /\ b < x.actual
         \/ /\ x.state = "idle" /\ b > x.actual
            /\ y.kicks_needed = x.kicks_needed /\ y.state = x.state
            /\ live_balls' = n
            /\ missing_balls' = Missing(dev')
            /\ q = "enter" /\ u = b - x.actual /\ cpu' = T
         \/ /\ x.state = "releasing" /\ x.kicks_needed > 0 /\ b >= x.actual
            /\ y.kicks_needed = x.kicks_needed /\ y.state = x.state
            /\ live_balls' = n /\ q = "retry"
         \/ /\ x.state = "releasing" /\ x.kicks_needed > 0 /\ b >= x.actual
            /\ y.kicks_needed = 0 /\ y.state = "idle" /\ y.kick_errors = MaxErrors[T]
            /\ live_balls' = n /\ q = "decide"
         \/ /\ x.state = "releasing" /\ x.kicks_needed > 0 /\ b < x.actual
            /\ y.kicks_needed = x.kicks_needed
            /\ live_balls' = n
            /\ missing_balls' = Missing(dev')
            /\ u = Min({x.actual - b, x.kicks_needed})
            /\ q = "success" /\ cpu' = T
  BY <1>1, RecountEffect DEF physical
<1>3. Rolling' = f
  <2>1. \A d \in Devices \ {T} : dev'[d].max_count = dev[d].max_count
    BY <1>1, <1>2, TableFacts DEF Only
  <2> QED BY <1>2, <2>1, SameRolling
<1>4. \A d \in Devices \ {T} : dev'[d].actual = dev[d].actual
  BY <1>1, <1>2, TableFacts DEF Only
<1> SUFFICES ASSUME InCleanPlay
             PROVE  TheBall(y, q, u, b, f, live_balls', cpu', s, missing_balls')
  BY <1>2, <1>3 DEF OneBall, InCleanPlay
<1>5. TheBall(x, p, t, b, f, n, cpu, s, m)
  BY DEF OneBall
<1> HIDE DEF T, x, y, p, q, t, u, b, f, n, m, s
<1>6. \/ Serving(x, p, t, b, f, n, s)
      \/ Out(x, p, b, f, n, cpu, s)
      \/ Over(x, p, b, f, n, s)
  BY <1>2, <1>5 DEF TheBall, Served, Drained
<1>7. CASE Serving(x, p, t, b, f, n, s)
  <2>1. n = 0 /\ x.kicks_needed = 1 /\ x.actual > 0
    BY <1>7 DEF Serving
  <2>2. CASE x.actual = b /\ f = 0
    <3>1. /\ y.actual = b /\ live_balls' = 0 /\ q \in {"decide", "retry"}
          /\ \/ y.kicks_needed = 1
             \/ y.kicks_needed = 0 /\ q = "decide" /\ y.kick_errors = MaxErrors[T]
      BY <1>1, <1>2, <2>1, <2>2
    <3>2. b > 0
      BY <2>1, <2>2
    <3> QED BY <1>2, <2>2, <3>1, <3>2 DEF TheBall, Serving, Over, T
  <2>3. CASE x.actual = b + 1 /\ f = 1 /\ x.state = "releasing"
    <3>1. /\ y.actual = b /\ live_balls' = 0 /\ q = "success" /\ cpu' = T /\ y.kicks_needed = 1
          /\ u = Min({x.actual - b, x.kicks_needed}) /\ missing_balls' = Missing(dev')
      BY <1>1, <1>2, <2>1, <2>3
    <3>2. u = 1
      <4>1. x.actual - b = 1
        BY <1>1, <2>3
      <4> QED BY <2>1, <3>1, <4>1, MinOfTwo
    <3>3. Missing(dev') = 1
      <4>1. lane[T] > 0
        BY <1>1, <2>3
      <4>2. \A d \in Devices \ {T} : dev[d].actual = Kept[d]
        BY <2>3, <4>1, OneInLane DEF f, T
      <4>3. /\ dev'[T].actual = ball[T]
            /\ \A d \in Devices \ {T} : dev'[d].actual = Kept[d]
        BY <1>4, <3>1, <4>2 DEF y, b
      <4> QED BY <2>3, <4>3, MissingRoll DEF f, T
    <3> QED BY <1>2, <2>1, <2>3, <3>1, <3>2, <3>3 DEF TheBall, Served, T
  <2> QED BY <1>7, <2>2, <2>3 DEF Serving
<1>8. CASE Out(x, p, b, f, n, cpu, s)
  <2>1. n = 1 /\ x.kicks_needed = 0 /\ x.state = "idle"
    BY <1>8 DEF Out
  <2>2. CASE x.actual = b /\ f = 1
    <3>1. /\ y.actual = b /\ live_balls' = 1 /\ q = "decide" /\ cpu' = T /\ y.kicks_needed = 0
          /\ y.state = "idle"
      BY <1>1, <1>2, <2>1, <2>2
    <3> QED BY <1>2, <2>2, <3>1 DEF TheBall, Out, T
  <2>3. CASE x.actual + 1 = b /\ f = 0
    <3>1. /\ y.actual = b /\ live_balls' = 1 /\ q = "enter" /\ cpu' = T /\ y.kicks_needed = 0
          /\ y.state = "idle" /\ u = b - x.actual /\ missing_balls' = Missing(dev')
      BY <1>1, <1>2, <2>1, <2>3
    <3>2. u = 1 /\ b > 0
      BY <1>1, <2>3, <3>1
    <3>3. Missing(dev') = 0
      <4>1. \A d \in Devices \ {T} : dev[d].actual = Kept[d]
        BY <2>3, NoneRolls DEF f, T
      <4>2. /\ dev'[T].actual = ball[T]
            /\ \A d \in Devices \ {T} : dev'[d].actual = Kept[d]
        BY <1>4, <3>1, <4>1 DEF y, b
      <4> QED BY <2>3, <4>2, MissingRoll DEF f, T
    <3> QED BY <1>2, <2>3, <3>1, <3>2, <3>3 DEF TheBall, Drained, T
  <2> QED BY <1>8, <2>2, <2>3 DEF Out
<1>9. CASE Over(x, p, b, f, n, s)
  <2>1. n = 0 /\ x.kicks_needed = 0 /\ x.actual = b /\ f = 0
    BY <1>9 DEF Over
  <2>2. /\ y.actual = b /\ live_balls' = 0 /\ q = "decide" /\ y.kicks_needed = 0
        /\ y.kick_errors = x.kick_errors
    BY <1>1, <1>2, <2>1
  <2> QED BY <1>2, <1>9, <2>1, <2>2 DEF TheBall, Over, T
<1> QED BY <1>6, <1>7, <1>8, <1>9

(* ... the events, the kicks and the switch task ...                       *)
LEMMA TroughEvents ==
  ASSUME DeviceInv, TrackInv, TroughKnows, OneBallGame, OneBall,
         LET d == Trough
         IN  EnterUnheard(d) \/ EntersDone(d) \/ KickSuccess(d) \/ KickCounted(d)
             \/ HandlerSleeps(d) \/ HandlerWakes(d)
  PROVE  OneBall'
<1> DEFINE T == Trough
           x == dev[T]
           y == dev'[T]
           p == at[T]
           q == at'[T]
           t == todo[T]
           u == todo'[T]
           b == ball[T]
           f == Rolling
           n == live_balls
           m == missing_balls
           s == InFlight
<1>1. /\ T \in Devices /\ T # Nobody /\ x \in Record /\ x.actual \in Nat /\ b \in Nat
      /\ x.kicks_needed \in Nat /\ x.state \in {"idle", "releasing"} /\ t \in Nat
      /\ n \in Nat /\ T \notin Sleepy
  BY BallFacts DEF OneBallGame, RoomyTrough
<1>2. /\ UNCHANGED <<ball, game, clean>> /\ InFlight' = s /\ Only(dev, dev', T)
      /\ \/ /\ cpu = T /\ p = "enter" /\ ~ InGame
         \/ /\ cpu = T /\ cpu' = T /\ p = "enter" /\ q = "decide" /\ t = 0
            /\ dev' = dev /\ live_balls' = n
         \/ /\ cpu = T /\ cpu' = T /\ p = "success" /\ q = "kicked" /\ todo' = todo /\ dev' = dev
            /\ live_balls' = IF InGame /\ m > 0 THEN (n + 1) % Byte ELSE n
         \/ /\ cpu = T /\ cpu' = T /\ p = "kicked"
            /\ q = IF t = 1 THEN "decide" ELSE "success"
            /\ y.actual = x.actual /\ y.max_count = x.max_count
            /\ y.kicks_needed = x.kicks_needed - 1
            /\ y.state = IF t = 1 THEN "idle" ELSE x.state
            /\ live_balls' = n
         \/ /\ p \in {"enter", "kicked"} /\ cpu \in {T, Nobody} /\ (cpu = T => T \in Sleepy)
            /\ UNCHANGED <<dev, at, todo, live_balls>>
  BY <1>1, EventEffect DEF physical
<1>3. Rolling' = f
  <2>1. \A d \in Devices \ {T} : dev'[d].max_count = dev[d].max_count
    BY <1>1, <1>2, TableFacts DEF Only
  <2> QED BY <1>2, <2>1, SameRolling
<1> SUFFICES ASSUME InCleanPlay
             PROVE  TheBall(y, q, u, b, f, live_balls', cpu', s, missing_balls')
  BY <1>2, <1>3 DEF OneBall, InCleanPlay
<1>4. TheBall(x, p, t, b, f, n, cpu, s, m) /\ InGame
  BY DEF OneBall, InCleanPlay, InGame
<1>5. dev' = dev => y = x
  OBVIOUS
<1>6. (todo' = todo => u = t) /\ (at' = at => q = p)
  OBVIOUS
<1>7. Byte = 256
  BY Numbers
<1> HIDE DEF T, x, y, p, q, t, u, b, f, n, m, s
<1>8. CASE Serving(x, p, t, b, f, n, s)
  <2>1. p = "enter" /\ t = 0 /\ x.actual = b /\ f = 0 /\ n = 0
    BY <1>2, <1>8 DEF Serving
  <2>2. /\ dev' = dev /\ live_balls' = n
        /\ \/ q = "decide"
           \/ at' = at /\ todo' = todo
    BY <1>2, <1>4, <2>1 DEF n
  <2>3. /\ y = x /\ live_balls' = 0
        /\ \/ q = "decide"
           \/ q = "enter" /\ u = 0
    BY <1>5, <1>6, <2>1, <2>2
  <2> QED BY <1>8, <2>1, <2>3 DEF TheBall, Serving
<1>9. CASE Served(x, p, t, b, f, n, cpu, s, m)
  <2>1. p \in {"success", "kicked"} /\ cpu = T /\ t = 1 /\ s # T /\ x.kicks_needed = 1
        /\ x.actual = b /\ f = 1
    BY <1>9 DEF Served, T
  <2>2. CASE p = "success"
    <3>1. n = 0 /\ m > 0
      BY <1>9, <2>2 DEF Served
    <3>2. cpu' = T /\ q = "kicked" /\ u = t /\ y = x /\ live_balls' = (0 + 1) % Byte
      BY <1>2, <1>4, <1>5, <1>6, <2>2, <3>1
    <3>3. live_balls' = 1
      BY <1>7, <3>2
    <3> QED BY <2>1, <3>2, <3>3 DEF TheBall, Served, T
  <2>3. CASE p = "kicked"
    <3>1. n = 1
      BY <1>9, <2>3 DEF Served
    <3>2. cpu' = T /\ q = "decide" /\ y.actual = b /\ y.kicks_needed = 0 /\ y.state = "idle"
          /\ live_balls' = 1
      BY <1>1, <1>2, <2>1, <2>3, <3>1
    <3> QED BY <2>1, <3>2 DEF TheBall, Out, T
  <2> QED BY <2>1, <2>2, <2>3
<1>10. ~ Out(x, p, b, f, n, cpu, s) /\ ~ Over(x, p, b, f, n, s)
  BY <1>2 DEF Out, Over
<1>11. CASE Drained(x, p, t, b, f, n, cpu, s, m)
  BY <1>1, <1>2, <1>4, <1>11 DEF Drained, T
<1> QED BY <1>4, <1>8, <1>9, <1>10, <1>11 DEF TheBall

LEMMA TroughDecides ==
  ASSUME DeviceInv, TrackInv, TroughKnows, OneBallGame, OneBall,
         LET d == Trough
         IN  Finish(d) \/ Delay(d) \/ KickAttempt(d) \/ SolAllocWaits(d) \/ SolAlloc(d)
             \/ SolFree(d) \/ DeviceSwHandler(d)
  PROVE  OneBall'
<1> DEFINE T == Trough
           x == dev[T]
           y == dev'[T]
           p == at[T]
           q == at'[T]
           t == todo[T]
           b == ball[T]
           f == Rolling
           n == live_balls
           m == missing_balls
           s == InFlight
           k == IF x.kicks_needed = 0 /\ x.actual > x.max_count THEN 1 ELSE x.kicks_needed
<1>1. /\ T \in Devices /\ T # Nobody /\ x \in Record /\ x.actual \in Nat /\ b \in Nat
      /\ x.kicks_needed \in Nat /\ x.state \in {"idle", "releasing"} /\ t \in Nat
      /\ n \in Nat /\ x.max_count = Size[T] /\ b <= Size[T] /\ Size[T] \in Nat
  BY BallFacts DEF OneBallGame
<1>2. /\ UNCHANGED <<ball, lane, game, clean, live_balls, todo>>
      /\ Only(dev, dev', T)
      /\ \/ /\ \/ p = "decide" /\ cpu = T
               \/ p = "retry" /\ cpu = Nobody
            /\ InFlight' = s
            /\ y.max_count = x.max_count
            /\ \/ /\ ~ (k > 0 /\ x.actual > 0)
                  /\ y.kicks_needed = 0 /\ y.actual = b /\ y.state = x.state
                  /\ y.kick_errors = x.kick_errors
                  /\ q = IF b = x.actual THEN "none" ELSE "settle"
               \/ /\ k > 0 /\ x.actual > 0
                  /\ y.kicks_needed = k /\ y.actual = x.actual
                  /\ \/ q = "settle" /\ y.state = x.state
                     \/ q = "attempt" /\ y.state = "releasing"
         \/ /\ p = "attempt" /\ dev' = dev /\ cpu \in {T, Nobody}
            /\ \/ q = "attempt" /\ InFlight' = s
               \/ q = "pulse" /\ InFlight' = T
         \/ /\ cpu = Nobody /\ dev' = dev /\ InFlight' = s
            /\ \/ p = "pulse" /\ q = "settle"
               \/ q = IF p = "none" THEN "settle" ELSE p
  BY <1>1, DecideEffect
<1>3. Rolling' = f
  <2>1. \A d \in Devices \ {T} : dev'[d].max_count = dev[d].max_count
    BY <1>1, <1>2, TableFacts DEF Only
  <2> QED BY <1>2, <2>1, SameRolling
<1> SUFFICES ASSUME InCleanPlay
             PROVE  TheBall(y, q, t, b, f, n, cpu', InFlight', missing_balls')
  BY <1>2, <1>3 DEF OneBall, InCleanPlay
<1>4. TheBall(x, p, t, b, f, n, cpu, s, m)
  BY DEF OneBall
<1>5. dev' = dev => y = x
  OBVIOUS
<1>6. (x.kicks_needed > 0 \/ ~ (x.actual > x.max_count)) => k = x.kicks_needed
  BY <1>1
<1> HIDE DEF T, x, y, p, q, t, b, f, n, m, s, k
<1>7. CASE Serving(x, p, t, b, f, n, s)
  <2>1. k = 1 /\ x.actual > 0 /\ x.kicks_needed = 1
    BY <1>6, <1>7 DEF Serving
  <2>2. CASE x.actual = b /\ f = 0
    <3>1. /\ y.kicks_needed = 1 /\ y.actual = x.actual
          /\ q \in {"settle", "attempt", "pulse", "enter", "retry", "decide"}
          /\ q = "enter" => p = "enter"
      BY <1>2, <1>5, <1>7, <2>1, <2>2 DEF Serving
    <3> QED BY <1>7, <2>1, <2>2, <3>1 DEF TheBall, Serving
  <2>3. CASE x.actual = b + 1 /\ f = 1 /\ p \in {"settle", "pulse"} /\ x.state = "releasing" /\ s # T
    <3>1. y = x /\ q \in {"settle", "pulse"} /\ InFlight' = s
      BY <1>2, <1>5, <2>3
    <3> QED BY <1>7, <2>3, <3>1 DEF TheBall, Serving, T
  <2> QED BY <1>7, <2>2, <2>3 DEF Serving, T
<1>8. ~ Served(x, p, t, b, f, n, cpu, s, m) /\ ~ Drained(x, p, t, b, f, n, cpu, s, m)
  BY <1>1, <1>2 DEF Served, Drained, T
<1>9. CASE Out(x, p, b, f, n, cpu, s)
  <2>1. CASE p = "decide"
    <3>1. x.actual = b /\ f = 1 /\ x.kicks_needed = 0 /\ x.state = "idle"
      BY <1>1, <1>9, <2>1 DEF Out
    <3>2. k = 0
      BY <1>1, <1>6, <3>1
    <3>3. (y.kicks_needed = 0 /\ y.actual = b /\ y.state = "idle" /\ q = "none" /\ InFlight' = s)
          \/ (dev' = dev /\ q = "decide" /\ cpu = Nobody)
      BY <1>2, <2>1, <3>1, <3>2
    <3>4. cpu = T
      BY <1>9, <2>1 DEF Out, T
    <3> QED BY <1>1, <1>9, <3>1, <3>3, <3>4 DEF TheBall, Out
  <2>2. CASE p \in {"none", "settle"}
    <3>1. y = x /\ q = "settle" /\ InFlight' = s
      BY <1>2, <1>5, <2>2
    <3> QED BY <1>9, <3>1 DEF TheBall, Out
  <2> QED BY <1>9, <2>1, <2>2 DEF Out
<1>10. CASE Over(x, p, b, f, n, s)
  <2>1. CASE p = "decide"
    <3>1. x.actual = b /\ f = 0 /\ x.kicks_needed = 0
      BY <1>10, <2>1 DEF Over
    <3>2. k = 0
      BY <1>1, <1>6, <3>1
    <3>3. \/ /\ y.kicks_needed = 0 /\ y.actual = b /\ y.kick_errors = x.kick_errors
             /\ q = "none" /\ InFlight' = s
          \/ dev' = dev /\ q = "decide" /\ InFlight' = s
      BY <1>2, <2>1, <3>1, <3>2
    <3> QED BY <1>5, <1>10, <2>1, <3>1, <3>3 DEF TheBall, Over
  <2>2. CASE p \in {"none", "settle"}
    <3>1. y = x /\ q = "settle" /\ InFlight' = s
      BY <1>2, <1>5, <2>2
    <3> QED BY <1>10, <3>1 DEF TheBall, Over
  <2> QED BY <1>10, <2>1, <2>2 DEF Over
<1> QED BY <1>4, <1>7, <1>8, <1>9, <1>10 DEF TheBall

(* ... and the ball that comes in, which is counted off, and the next one  *)
(* served or the ball ended with every ball where it is kept.              *)
LEMMA ServedBy ==
  ASSUME NEW x \in Record
  PROVE  LET y == RequestedTimes(x, 1)
         IN  /\ y.actual = x.actual
             /\ x.kicks_needed = 0 /\ x.actual > 0 => y.kicks_needed = 1
             /\ x.kicks_needed = 0 /\ x.actual = 0 => y = x
<1> DEFINE a == x.actual
           k == x.kicks_needed
<1>1. a \in Nat /\ a < 16 /\ k \in Nat /\ Byte = 256 /\ 1 \in 0 .. Byte - 1 /\ 0 \in 0 .. Byte - 1
  BY SMTT(40), Fields, Numbers
<1>2. RequestedTimes(x, 1).actual = a
  BY RequestFields
<1>3. CASE k = 0
  <2>1. KickableCount(x) = a
    <3>1. (a - k) % Byte = a
      BY <1>1, <1>3
    <3> QED BY <3>1 DEF KickableCount
  <2> DEFINE v == Min({1, a})
  <2>2. v = IF 1 <= a THEN 1 ELSE a
    BY <1>1, MinOfTwo
  <2>3. RequestedTimes(x, 1) = IF v = 0 THEN x
                               ELSE [x EXCEPT !.kicks_needed = (k + v) % Byte, !.kick_errors = 0]
    BY <2>1 DEF RequestedTimes
  <2> HIDE DEF v
  <2>4. CASE a > 0
    <3>1. v = 1 /\ (k + v) % Byte = 1
      <4>1. v = 1
        BY <1>1, <2>2, <2>4
      <4> QED BY <1>1, <1>3, <4>1
    <3>2. RequestedTimes(x, 1) = [x EXCEPT !.kicks_needed = 1, !.kick_errors = 0]
      <4> DEFINE w == (k + v) % Byte
      <4>1. v # 0
        BY <3>1
      <4>2. RequestedTimes(x, 1) = [x EXCEPT !.kicks_needed = w, !.kick_errors = 0]
        BY <2>3, <4>1
      <4>3. w = 1
        BY <3>1
      <4> HIDE DEF w
      <4> QED BY <4>2, <4>3
    <3>3. RequestedTimes(x, 1).kicks_needed = 1
      BY <1>1, <3>2 DEF Record
    <3> QED BY <1>1, <1>2, <2>4, <3>3
  <2>5. CASE a = 0
    BY <1>1, <1>2, <2>2, <2>3, <2>5
  <2> QED BY <1>1, <2>4, <2>5
<1>4. CASE k # 0
  BY <1>2, <1>4
<1> QED BY <1>3, <1>4

LEMMA TroughEnters ==
  ASSUME DeviceInv, TrackInv, TroughKnows, OneBallGame, OneBall, TroughEnter
  PROVE  OneBall' /\ (InCleanPlay /\ EndBall => Rolling = 0)
<1> DEFINE T == Trough
           x == dev[T]
           t == todo[T]
           b == ball[T]
           f == Rolling
           n == live_balls
           m == missing_balls
           s == InFlight
<1>1. /\ T \in Devices /\ T # Nobody /\ x \in Record /\ t \in Nat /\ n \in Nat /\ m \in Nat
      /\ dev \in [Devices -> Record] /\ todo \in [Devices -> 0 .. NumBalls]
  BY BallFacts, TableFacts DEF OneBallGame
<1>2. /\ at[T] = "enter" /\ cpu = T /\ t > 0 /\ UNCHANGED <<ball, clean>> /\ InFlight' = s
  BY DEF TroughEnter, RemoveMissing, RemoveNothing, BallSaved, DrainMultiball, ServeAgain,
     EndBall, BallDrain, Throw, physical, solenoid, InFlight
<1>3. CASE ~ InCleanPlay
  <2>1. game' = game \/ game' = "bonus"
    BY DEF TroughEnter, RemoveMissing, RemoveNothing, BallSaved, DrainMultiball, ServeAgain, EndBall
  <2>2. ~ InCleanPlay'
    BY <1>2, <1>3, <2>1 DEF InCleanPlay
  <2> QED BY <1>3, <2>2 DEF OneBall
<1>4. CASE InCleanPlay
  <2>1. TheBall(x, "enter", t, b, f, n, T, s, m) /\ InPlay
    BY <1>2, <1>4 DEF OneBall, InCleanPlay, InPlay
  <2>2. Drained(x, "enter", t, b, f, n, T, s, m)
    <3> HIDE DEF x, t, b, f, n, m, s
    <3>1. ~ Serving(x, "enter", t, b, f, n, s)
      BY <1>1, <1>2 DEF Serving
    <3> QED BY <2>1, <3>1 DEF TheBall, Served, Out, Over
  <2> HIDE DEF x, b, f, s
  <2>3. t = 1 /\ x.kicks_needed = 0 /\ x.actual = b /\ b > 0 /\ f = 0 /\ n = 1 /\ m <= 1 /\ s # T
    BY <2>2 DEF Drained
  <2>4. ~ RemoveMissing
    BY <1>1, <2>3 DEF RemoveMissing
  <2>5. ~ RemoveNothing
    BY <2>1, <2>3 DEF RemoveNothing
  <2>6. ~ DrainMultiball
    BY <2>3 DEF DrainMultiball, BallsLeft, x
  <2>7. CASE EndBall
    <3>1. game' = "bonus"
      BY <2>7 DEF EndBall
    <3> QED BY <2>3, <3>1 DEF OneBall, InCleanPlay, f
  <2>8. CASE BallSaved \/ ServeAgain
    <3> DEFINE r == RequestedTimes(x, 1)
    <3>1. r.actual = b /\ r.kicks_needed = 1
      BY <1>1, <2>3, ServedBy
    <3> HIDE DEF r
    <3>2. /\ dev' = [dev EXCEPT ![T] = r] /\ todo' = [todo EXCEPT ![T] = t - 1]
          /\ at' = at /\ live_balls' = n - 1
      BY <2>8 DEF BallSaved, ServeAgain, BallDrain, Thrown, Requested, r, x
    <3>3. dev'[T] = r /\ todo'[T] = 0 /\ at'[T] = "enter" /\ live_balls' = 0
      BY <1>1, <1>2, <2>3, <3>2
    <3>4. Rolling' = f
      <4>1. \A d \in Devices \ {T} : dev'[d].max_count = dev[d].max_count
        BY <1>1, <3>2
      <4>2. ball'[T] = ball[T]
        BY <1>2
      <4> QED BY <4>1, <4>2, SameRolling DEF f
    <3>5. Serving(r, "enter", 0, b, f, 0, s)
      BY <2>3, <3>1 DEF Serving
    <3>6. TheBall(r, "enter", 0, b, f, 0, cpu', s, missing_balls')
      BY <3>5 DEF TheBall
    <3>7. ~ EndBall
      <4>1. n - 1 = 0
        BY <2>3
      <4>2. at' = at /\ EndBall => at'[T] = "none"
        BY <1>1, TableFacts DEF EndBall
      <4> QED BY <1>2, <3>2, <4>2
    <3> QED BY <1>2, <3>3, <3>4, <3>6, <3>7 DEF OneBall, b
  <2> QED BY <2>4, <2>5, <2>6, <2>7, <2>8 DEF TroughEnter
<1> QED BY <1>3, <1>4

(* The tasks of the other devices.                                         *)
LEMMA OthersTurn ==
  ASSUME DeviceInv, TrackInv, OneBallGame, OneBall, NEW d \in Devices, d # Trough,
         Update(d) \/ DeviceSwHandler(d), ~ DeviceLockBall(d)
  PROVE  OneBall'
<1> DEFINE T == Trough
<1>1. /\ Only(dev, dev', d) /\ Only(at, at', d) /\ Only(todo, todo', d)
      /\ UNCHANGED <<ball, game, clean, live_balls>> /\ InFlight' \in {InFlight, d}
      /\ dev'[d].max_count = dev[d].max_count /\ cpu \in {d, Nobody}
  <2>1. dev'[d].max_count = dev[d].max_count /\ cpu \in {d, Nobody}
    BY UpdateEffect
  <2>2. CASE CountSame(d) \/ SurpriseRelease(d) \/ CountRose(d) \/ KickFailed(d)
             \/ KickGivenUp(d) \/ KickWorked(d)
    <3>1. ~ (dev[d].state = "idle" /\ ball[d] < dev[d].actual /\ at[d] = "settle")
      <4>1. /\ Tracked(d, ball[d], lane[d], dev[d], at[d], todo[d], InFlight)
            /\ dev[d].actual \in Nat /\ ball[d] \in Nat
        BY TrackFacts
      <4> QED BY <4>1 DEF Tracked, LockOK, Gone
    <3> QED BY <2>1, <2>2, <3>1, RecountEffect DEF physical
  <2>3. CASE EnterUnheard(d) \/ EntersDone(d) \/ KickSuccess(d) \/ KickCounted(d)
             \/ HandlerSleeps(d) \/ HandlerWakes(d)
    BY <2>1, <2>3, EventEffect DEF physical
  <2>4. CASE Finish(d) \/ Delay(d) \/ KickAttempt(d) \/ SolAllocWaits(d) \/ SolAlloc(d)
             \/ SolFree(d) \/ DeviceSwHandler(d)
    <3>1. Only(todo, todo', d)
      BY <2>4, DecideEffect, TableFacts
    <3> QED BY <2>1, <2>4, <3>1, DecideEffect
  <2> QED BY <2>2, <2>3, <2>4 DEF Update
<1>2. T \in Devices /\ T # Nobody
  BY Numbers
<1>3. \A e \in Devices \ {d} : dev'[e] = dev[e] /\ at'[e] = at[e] /\ todo'[e] = todo[e]
  BY <1>1, TableFacts DEF Only
<1>4. Rolling' = Rolling
  <2>1. \A e \in Devices \ {T} : dev'[e].max_count = dev[e].max_count
    BY <1>1, <1>3
  <2> QED BY <1>1, <2>1, SameRolling
<1>5. /\ dev'[T] = dev[T] /\ at'[T] = at[T] /\ todo'[T] = todo[T] /\ ball'[T] = ball[T]
      /\ cpu # T /\ (InFlight' = T => InFlight = T) /\ (InCleanPlay' => InCleanPlay)
  BY <1>1, <1>2, <1>3 DEF InCleanPlay
<1> QED BY <1>1, <1>4, <1>5, OneBallFrame
(* A ball locked stays where it is, and the next one is served.            *)
LEMMA LockServes ==
  ASSUME DeviceInv, TrackInv, TroughKnows, OneBallGame, OneBall, NEW d \in Devices,
         DeviceLockBall(d)
  PROVE  OneBall'
<1> DEFINE T == Trough
           x == dev[T]
           b == ball[T]
           f == Rolling
           n == live_balls
           a == dev[d].actual
           k == dev[d].kicks_needed
           m == dev[d].max_count
<1>1. SUFFICES ASSUME InCleanPlay PROVE OneBall'
  BY LockFields DEF OneBall, InCleanPlay
<1>2. /\ T \in Devices /\ T # Nobody /\ d # T /\ cpu = d /\ x \in Record
      /\ x.actual \in Nat /\ x.kicks_needed \in Nat /\ b \in Nat /\ lane[T] \in Nat
      /\ x.actual <= b + lane[T] /\ f \in Nat /\ Loose \in Nat /\ lane[T] <= Loose
  BY BallFacts, LockFields, RollingFacts DEF OneBallGame
<1>3. /\ a \in Nat /\ k \in Nat /\ m \in Nat /\ ball[d] \in Nat /\ a < 16
      /\ m + k + 1 <= a /\ a <= ball[d]
  <2>1. /\ Tracked(d, ball[d], lane[d], dev[d], at[d], todo[d], InFlight)
        /\ a \in Nat /\ k \in Nat /\ m \in Nat /\ ball[d] \in Nat /\ a < 16 /\ todo[d] \in Nat
    BY TrackFacts
  <2>2. at[d] = "enter" /\ todo[d] > 0
    BY LockFields
  <2>3. m + k + todo[d] <= a + 0 /\ a <= ball[d] + 0
    BY <1>2, <2>1, <2>2 DEF Tracked, LockOK, Entering, ToCome, Gone
  <2> QED BY <2>1, <2>2, <2>3
<1>4. Kept[d] = m /\ Loose + (ball[d] - m) <= f
  BY <1>2, KeptFacts, RollingFacts
<1>5. Out(x, at[T], b, f, n, cpu, InFlight) /\ x.actual = b /\ f = 1
  <2> DEFINE p == at[T]
             t == todo[T]
             s == InFlight
             l == Loose
  <2>1. TheBall(x, p, t, b, f, n, cpu, s, missing_balls)
    BY <1>1 DEF OneBall
  <2> HIDE DEF x, b, f, n, a, k, m, s, p, t, l
  <2>2. f >= l + 1
    BY <1>2, <1>3, <1>4 DEF l
  <2>3. ~ Serving(x, p, t, b, f, n, s)
    <3>1. x.actual = b + 1 => l >= 1
      BY <1>2 DEF l
    <3> QED BY <1>2, <2>2, <3>1 DEF Serving, l
  <2>4. ~ Served(x, p, t, b, f, n, cpu, s, missing_balls)
    BY <1>2 DEF Served
  <2>5. ~ Drained(x, p, t, b, f, n, cpu, s, missing_balls)
    BY <1>2 DEF Drained
  <2>6. ~ Over(x, p, b, f, n, s)
    BY <1>2, <2>2 DEF Over, l
  <2>7. Out(x, p, b, f, n, cpu, s)
    BY <2>1, <2>3, <2>4, <2>5, <2>6 DEF TheBall
  <2>8. x.actual = b /\ f = 1
    BY <1>2, <2>2, <2>7 DEF Out, l
  <2> QED BY <2>7, <2>8 DEF p, s
<1>6. /\ n = 1 /\ x.kicks_needed = 0 /\ at[T] \in {"none", "settle"} /\ InFlight # T
  <2> HIDE DEF x, b, f, n
  <2> QED BY <1>2, <1>5 DEF Out
<1>7. live_balls' = 0
  <2>1. KickableCount(dev[d]) > 0
    <3>1. a - k \in Nat /\ a - k > 0 /\ a - k < 256 /\ Byte = 256
      BY <1>3, Numbers
    <3>2. (a - k) % Byte = a - k
      <4> HIDE DEF a, k
      <4> QED BY <3>1, <1>3
    <3> QED BY <3>1, <3>2 DEF KickableCount
  <2>2. live_balls' = (n - 1) % Byte
    BY <2>1 DEF DeviceLockBall
  <2> QED BY <1>6, <2>2 DEF Byte
<1>8. Rolling' = 0
  <2>1. ball[d] \in 0 .. NumBalls /\ NumBalls \in 1 .. 15
    BY TableFacts
  <2>2. m + 1 \in 0 .. NumBalls
    BY <1>3, <2>1
  <2>3. Kept' = [Kept EXCEPT ![d] = m + 1]
    <3>1. \A e \in Devices \ {d, T} : dev'[e] = dev[e]
      BY LockFields
    <3>2. dev'[d].max_count = m + 1 /\ ball' = ball
      BY LockFields
    <3>3. Kept' = [e \in Devices |-> IF e = T THEN ball'[e] ELSE dev'[e].max_count]
      BY DEF Kept
    <3>4. Kept = [e \in Devices |-> IF e = T THEN ball[e] ELSE dev[e].max_count]
      BY DEF Kept
    <3> HIDE DEF m
    <3> QED BY <1>2, <3>1, <3>2, <3>3, <3>4
  <2>4. Kept \in Counts /\ Total(Kept) \in Nat
    BY KeptFacts, BallsFinite
  <2>5. Total(Kept') = Total(Kept) - m + (m + 1)
    BY <1>4, <2>2, <2>3, <2>4, TotalExcept
  <2>6. Rolling' = NumBalls - Total(Kept')
    BY DEF Rolling, Total, Balls
  <2>7. f = NumBalls - Total(Kept)
    BY DEF Rolling
  <2> HIDE DEF f, m
  <2> QED BY <1>3, <1>5, <2>1, <2>4, <2>5, <2>6, <2>7
<1>9. ball'[T] = b /\ InFlight' = InFlight
  BY LockFields
<1>10. CASE x.actual > 0
  <2>1. at'[T] = "settle" /\ dev'[T] = RequestedTimes(x, 1)
    BY <1>10, LockFields
  <2>2. dev'[T].actual = b /\ dev'[T].kicks_needed = 1
    BY <1>2, <1>5, <1>6, <1>10, <2>1, ServedBy
  <2>3. Serving(dev'[T], "settle", todo'[T], b, 0, 0, InFlight')
    BY <1>5, <1>10, <2>2 DEF Serving
  <2> QED BY <1>7, <1>8, <1>9, <2>1, <2>3 DEF OneBall, TheBall
<1>11. CASE ~ (x.actual > 0)
  <2>1. at'[T] = at[T] /\ dev'[T] = x
    BY <1>11, LockFields
  <2>2. Over(dev'[T], at'[T], b, 0, 0, InFlight')
    BY <1>2, <1>5, <1>6, <1>9, <1>11, <2>1 DEF Over
  <2> QED BY <1>7, <1>8, <1>9, <2>2 DEF OneBall, TheBall
<1> QED BY <1>10, <1>11

(* With all devices at rest, a ball is kept or it is out.                  *)
LEMMA RestKept ==
  ASSUME DeviceInv, TrackInv,
         \A d \in Devices : at[d] = "none" /\ ball[d] = dev[d].actual /\ ball[d] <= dev[d].max_count
  PROVE  Kept = ball /\ Rolling = Loose
<1>1. ASSUME NEW d \in Devices, d # Trough PROVE dev[d].max_count = ball[d]
  <2>1. /\ dev[d].max_count \in Nat /\ dev[d].actual \in Nat /\ dev[d].kicks_needed = 0
        /\ LockOK(d, ball[d], dev[d], "none", todo[d], InFlight)
    BY <1>1, TrackFacts DEF Tracked
  <2>2. dev[d].max_count + 0 + 0 <= dev[d].actual + 0
    BY <2>1 DEF LockOK, Entering, ToCome
  <2> QED BY <2>1, <2>2
<1>2. ball \in [Devices -> 0 .. NumBalls]
  BY Numbers, TrackFacts
<1>3. Kept = ball
  BY <1>1, <1>2 DEF Kept
<1> QED BY <1>3 DEF Rolling, Loose

(* A ball started with every ball where it belongs: one is served, if the  *)
(* trough holds any.                                                       *)
LEMMA StartServes ==
  ASSUME DeviceInv, TrackInv, TroughKnows, OneBallGame, StartBall
  PROVE  OneBall' /\ PlayKnown'
<1> DEFINE T == Trough
           x == dev[T]
           b == ball[T]
<1>1. SUFFICES ASSUME InCleanPlay' PROVE OneBall' /\ PlayKnown'
  BY DEF OneBall, PlayKnown
<1>2. /\ dev' = [dev EXCEPT ![T] = RequestedTimes(x, 1)] /\ live_balls' = 0
      /\ at' = [at EXCEPT ![T] = "settle"] /\ todo' = [todo EXCEPT ![T] = 0]
      /\ UNCHANGED <<ball, moved, sol_pulse_timer>>
      /\ clean' = (Loose = 0 /\ sol_pulse_timer = 0 /\ \A d \in Devices : AtRest(d))
  BY DEF StartBall, Restart, Requested, physical, solenoid
<1>3. Loose = 0 /\ sol_pulse_timer = 0 /\ \A d \in Devices : AtRest(d)
  BY <1>1, <1>2 DEF InCleanPlay
<1>4. /\ T \in Devices /\ T # Nobody /\ dev \in [Devices -> Record] /\ x \in Record
      /\ at \in [Devices -> Phases] /\ todo \in [Devices -> 0 .. NumBalls] /\ b \in Nat
      /\ x.actual \in Nat
  BY BallFacts, TableFacts DEF OneBallGame
<1>5. \A d \in Devices : ball[d] = dev[d].actual /\ dev[d].kicks_needed = 0
  BY <1>3, TrackFacts DEF AtRest, Tracked
<1>6. Rolling' = 0
  <2>3. Rolling = 0
    BY <1>3, RestKept DEF AtRest
  <2>4. \A d \in Devices \ {T} : dev'[d].max_count = dev[d].max_count
    BY <1>2, <1>4
  <2> QED BY <1>2, <2>3, <2>4, SameRolling
<1>7. /\ dev'[T] = RequestedTimes(x, 1) /\ at'[T] = "settle" /\ todo'[T] = 0
      /\ ball'[T] = b /\ InFlight' = Nobody
  BY <1>2, <1>3, <1>4 DEF InFlight
<1>8. OneBall'
  <2>1. dev'[T].actual = b
    BY <1>4, <1>5, <1>7, ServedBy
  <2>2. CASE b > 0
    <3>1. dev'[T].kicks_needed = 1
      BY <1>4, <1>5, <1>7, <2>2, ServedBy
    <3>2. Serving(dev'[T], "settle", 0, b, 0, 0, Nobody)
      BY <2>1, <2>2, <3>1 DEF Serving
    <3> QED BY <1>2, <1>6, <1>7, <3>2 DEF OneBall, TheBall
  <2>3. CASE b = 0
    <3>1. dev'[T] = x
      BY <1>4, <1>5, <1>7, <2>3, ServedBy
    <3>2. Over(dev'[T], "settle", b, 0, 0, Nobody)
      BY <1>4, <1>5, <2>1, <2>3, <3>1 DEF Over
    <3> QED BY <1>2, <1>6, <1>7, <3>2 DEF OneBall, TheBall
  <2> QED BY <1>4, <2>2, <2>3
<1>9. PlayKnown'
  <2>1. ASSUME NEW d \in Devices PROVE Known(d)'
    <3>1. CASE d = T
      BY <1>7, <3>1 DEF Known
    <3>2. CASE d # T
      BY <1>2, <1>3, <1>4, <3>2 DEF Known, AtRest
    <3> QED BY <3>1, <3>2
  <2> QED BY <2>1 DEF PlayKnown
<1> QED BY <1>8, <1>9

LEMMA UpdateKeepsGame ==
  ASSUME DeviceInv, NEW d \in Devices, Update(d) \/ DeviceSwHandler(d)
  PROVE  clean' = clean /\ game' = game
<1>1. CASE DeviceLockBall(d)
  BY <1>1, LockFields
<1>2. CASE CountSame(d) \/ SurpriseRelease(d) \/ CountRose(d) \/ KickFailed(d)
           \/ KickGivenUp(d) \/ KickWorked(d)
  BY <1>2, RecountEffect
<1>3. CASE EnterUnheard(d) \/ EntersDone(d) \/ KickSuccess(d) \/ KickCounted(d)
           \/ HandlerSleeps(d) \/ HandlerWakes(d)
  BY <1>3, EventEffect
<1>4. CASE Finish(d) \/ Delay(d) \/ KickAttempt(d) \/ SolAllocWaits(d) \/ SolAlloc(d)
           \/ SolFree(d) \/ DeviceSwHandler(d)
  BY <1>4, DecideEffect
<1> QED BY <1>1, <1>2, <1>3, <1>4 DEF Update

(* Only the start of a ball begins clean play.                             *)
LEMMA CleanPlayBegins ==
  ASSUME DeviceInv, Next, ~ StartBall, InCleanPlay'
  PROVE  InCleanPlay /\ game' = game
<1>1. clean' = clean /\ (game' = game \/ game' # "play")
  <2>1. CASE Playfield \/ Pulse
    BY <2>1 DEF Playfield, Pulse, BallEnters, BallEscapes, BallFallsBack, BallGone,
       SetValidPlayfield, KickoutLock, PulseKicks, PulseFails, play
  <2>2. CASE TroughEnter
    BY <2>2 DEF TroughEnter, RemoveMissing, RemoveNothing, BallSaved, DrainMultiball, ServeAgain,
       EndBall, BallDrain, Throw
  <2>3. CASE Game \/ Probe
    BY <2>3 DEF Game, StartGame, StartRefused, StartIgnored, StopGame, AmodeStart, Probe,
       DeviceProbe, ProbeGivesUp, ProbeExit, play
  <2>4. CASE Requests
    BY <2>4 DEF Requests, SetBallCount, DeviceUnlockBall, DeviceRequestEmpty, play
  <2>5. ASSUME NEW d \in Devices, Update(d) \/ DeviceSwHandler(d) PROVE clean' = clean /\ game' = game
    BY <2>5, UpdateKeepsGame
  <2> QED BY <2>1, <2>2, <2>3, <2>4, <2>5 DEF Next
<1> QED BY <1>1 DEF InCleanPlay

LEMMA RestServes ==
  ASSUME DeviceInv, TrackInv, OneBallGame, OneBall, Game \/ Probe, ~ StartBall
  PROVE  OneBall'
<1>1. SUFFICES ASSUME InCleanPlay' PROVE FALSE
  BY DEF OneBall
<1>2. InCleanPlay /\ game' = game
  BY <1>1, CleanPlayBegins DEF Next
<1>3. InGame /\ probe = "none"
  BY <1>2 DEF InCleanPlay, InGame, TrackInv
<1> QED
  BY <1>2, <1>3 DEF Game, StartGame, StartRefused, StartIgnored, AtStartButton, StopGame,
     AmodeStart, Probe, DeviceProbe, ProbeGivesUp, ProbeExit, InCleanPlay

LEMMA OneBallStep ==
  ASSUME DeviceInv, DeviceInv', TrackInv, TroughKnows, OneBallGame, OneBall, [Next]_vars
  PROVE  OneBall'
<1>1. CASE UNCHANGED vars
  <2>1. UNCHANGED <<dev, at, todo, ball, live_balls, cpu, missing_balls, game, clean>>
        /\ InFlight' = InFlight
    BY <1>1 DEF vars, physical, table, tasks, play, solenoid, InFlight
  <2>2. Rolling' = Rolling
    BY <2>1, SameRolling
  <2> QED BY <2>1, <2>2, OneBallFrame DEF InCleanPlay
<1>2. CASE Playfield \/ Pulse
  BY <1>2, BallRolls
<1>3. CASE Game \/ Probe
  BY <1>3, StartServes, RestServes
<1>4. CASE TroughEnter
  BY <1>4, TroughEnters
<1>5. CASE Requests
  BY <1>5, NoRequests
<1>6. ASSUME NEW d \in Devices, Update(d) \/ DeviceSwHandler(d) PROVE OneBall'
  <2>1. CASE DeviceLockBall(d)
    BY <2>1, LockServes
  <2>2. CASE d # Trough /\ ~ DeviceLockBall(d)
    BY <1>6, <2>2, OthersTurn
  <2>3. CASE d = Trough /\ ~ DeviceLockBall(d)
    <3>1. CASE CountSame(d) \/ SurpriseRelease(d) \/ CountRose(d) \/ KickFailed(d)
               \/ KickGivenUp(d) \/ KickWorked(d)
      BY <2>3, <3>1, TroughRecounts
    <3>2. CASE EnterUnheard(d) \/ EntersDone(d) \/ KickSuccess(d) \/ KickCounted(d)
               \/ HandlerSleeps(d) \/ HandlerWakes(d)
      BY <2>3, <3>2, TroughEvents
    <3>3. CASE Finish(d) \/ Delay(d) \/ KickAttempt(d) \/ SolAllocWaits(d) \/ SolAlloc(d)
               \/ SolFree(d) \/ DeviceSwHandler(d)
      BY <2>3, <3>3, TroughDecides
    <3> QED BY <1>6, <2>3, <3>1, <3>2, <3>3 DEF Update
  <2> QED BY <2>1, <2>2, <2>3
<1> QED BY <1>1, <1>2, <1>3, <1>4, <1>5, <1>6 DEF Next

LEMMA PlayKnownStep ==
  ASSUME DeviceInv, TrackInv, TrackInv', TroughKnows, OneBallGame, PlayKnown, [Next]_vars
  PROVE  PlayKnown'
<1>1. SUFFICES ASSUME InCleanPlay' PROVE \A d \in Devices : Known(d)'
  BY DEF PlayKnown
<1>2. probe' # "scan"
  BY <1>1 DEF InCleanPlay, InGame, TrackInv
<1>3. CASE StartBall
  BY <1>1, <1>3, StartServes DEF PlayKnown
<1>4. CASE ~ StartBall
  <2>1. InCleanPlay
    BY <1>1, <1>4, CleanPlayBegins DEF InCleanPlay, vars, play
  <2>2. AllKnown /\ probe = "none"
    BY <2>1 DEF PlayKnown, AllKnown, TrackInv, InGame, InCleanPlay
  <2>3. ~ ProbeGivesUp
    BY <2>2 DEF ProbeGivesUp
  <2>4. ASSUME NEW d \in Devices, Update(d) \/ DeviceSwHandler(d) PROVE AllKnown'
    BY <2>2, <2>4, UpdateKnows, LockKnows
  <2>5. AllKnown'
    BY <2>2, <2>3, <2>4, BallMoves, RestKnows DEF Next, OneBallGame
  <2> QED BY <1>2, <2>5 DEF AllKnown
<1> QED BY <1>3, <1>4

(* Only the trough's task ends a ball.                                     *)
LEMMA BonusBegins ==
  ASSUME DeviceInv, Next, game = "play", game' = "bonus"
  PROVE  EndBall
<1>1. CASE Playfield \/ Pulse
  BY <1>1 DEF Playfield, Pulse, BallEnters, BallEscapes, BallFallsBack, BallGone,
     SetValidPlayfield, KickoutLock, PulseKicks, PulseFails, play
<1>2. CASE TroughEnter
  BY <1>2 DEF TroughEnter, RemoveMissing, RemoveNothing, BallSaved, DrainMultiball, ServeAgain
<1>3. CASE Game \/ Probe
  BY <1>3 DEF Game, StartGame, StartRefused, StartIgnored, StartBall, StopGame, AmodeStart, Probe,
     DeviceProbe, ProbeGivesUp, ProbeExit, play
<1>4. CASE Requests
  BY <1>4 DEF Requests, SetBallCount, DeviceUnlockBall, DeviceRequestEmpty, play
<1>5. CASE \E d \in Devices : Update(d) \/ DeviceSwHandler(d)
  BY <1>5, UpdateKeepsGame
<1> QED BY <1>1, <1>2, <1>3, <1>4, <1>5 DEF Next

OneBallInv == TrackInv /\ TroughKnows /\ OneBall /\ PlayKnown

LEMMA OneBallInvStart == Init /\ OneBallGame => OneBallInv
<1> SUFFICES ASSUME Init, OneBallGame PROVE OneBallInv
  OBVIOUS
<1>1. ~ InGame /\ ~ InCleanPlay /\ InFlight = Nobody
  BY DEF Init, InGame, InCleanPlay, InFlight
<1>2. ASSUME NEW d \in Devices
      PROVE  Tracked(d, ball[d], lane[d], dev[d], at[d], todo[d], InFlight)
  <2> DEFINE x == dev[d]
  <2>1. /\ x.actual = 0 /\ x.kicks_needed = 0 /\ x.max_count = InitMax[d] /\ x.state = "idle"
        /\ at[d] = "none" /\ lane[d] = 0 /\ ball[d] \in Nat /\ InFlight # d
    BY <1>1, Numbers DEF Init
  <2>2. d # Trough => InitMax[d] = 0
    BY DEF OneBallGame
  <2>3. Size[d] \in Nat
    BY Numbers
  <2>4. d # Trough => LockOK(d, ball[d], x, "none", todo[d], InFlight)
    <3> HIDE DEF x
    <3> QED BY <2>1, <2>2, <2>3 DEF LockOK, Entering, ToCome, Gone
  <2> HIDE DEF x
  <2>5. x.actual <= ball[d] + lane[d]
    BY <2>1
  <2> QED BY <2>1, <2>4, <2>5 DEF Tracked, x
<1>3. TrackInv
  BY <1>1, <1>2 DEF TrackInv
<1>4. TroughKnows
  BY Numbers DEF Init, TroughKnows
<1> QED BY <1>1, <1>3, <1>4 DEF OneBallInv, OneBall, PlayKnown

LEMMA OneBallInvStep ==
  ASSUME DeviceInv, DeviceInv', OneBallGame, OneBallInv, [Next]_vars
  PROVE  OneBallInv'
<1>1. TrackInv'
  BY TrackStep DEF OneBallInv
<1>2. TroughKnows'
  <2>1. CASE Next
    BY <2>1, TroughStep DEF OneBallInv, OneBallGame
  <2>2. CASE UNCHANGED vars
    BY <2>2 DEF OneBallInv, TroughKnows, vars, physical, table, tasks
  <2> QED BY <2>1, <2>2
<1>3. OneBall'
  BY OneBallStep DEF OneBallInv
<1>4. PlayKnown'
  BY <1>1, PlayKnownStep DEF OneBallInv
<1> QED BY <1>1, <1>2, <1>3, <1>4 DEF OneBallInv

LEMMA OneBallInvariance == OneBallGame /\ Spec => []OneBallInv
<1>1. DeviceInv /\ DeviceInv' /\ OneBallGame /\ OneBallInv /\ [Next]_vars => OneBallInv'
  BY OneBallInvStep
<1>2. OneBallGame => OneBallGame'
  BY DEF OneBallGame, RoomyTrough
<1> QED BY <1>1, <1>2, OneBallInvStart, DeviceInvariance, PTL DEF Spec

LEMMA AtRestBall ==
  ASSUME DeviceInv, OneBallGame, OneBallInv, InCleanPlay, AllAtRest
  PROVE  /\ Kept = ball /\ Rolling = Loose
         /\ \/ live_balls = 1 /\ Loose = 1
            \/ /\ live_balls = 0 /\ Loose = 0 /\ dev[Trough].actual = ball[Trough]
               /\ dev[Trough].kick_errors = MaxErrors[Trough] \/ dev[Trough].actual = 0
<1> DEFINE x == dev[Trough]
           b == ball[Trough]
           f == Rolling
<1>1. \A d \in Devices : at[d] = "none" /\ ball[d] = dev[d].actual /\ ball[d] <= dev[d].max_count
  BY DEF OneBallInv, PlayKnown, AllAtRest, Known
<1>2. Kept = ball /\ Rolling = Loose
  BY <1>1, RestKept DEF OneBallInv
<1>3. Trough \in Devices /\ x.actual \in Nat /\ b \in Nat /\ f \in Nat /\ x.actual = b
  BY <1>1, BallFacts DEF OneBallInv, OneBallGame
<1>4. TheBall(x, "none", todo[Trough], b, f, live_balls, cpu, InFlight, missing_balls)
  BY <1>1, <1>3 DEF OneBallInv, OneBall
<1>5. \/ Out(x, "none", b, f, live_balls, cpu, InFlight)
      \/ Over(x, "none", b, f, live_balls, InFlight)
  <2> HIDE DEF x, b, f
  <2> QED BY <1>4 DEF TheBall, Serving, Served, Drained
<1>6. \/ live_balls = 1 /\ f = 1
      \/ /\ live_balls = 0 /\ f = 0
         /\ x.kick_errors = MaxErrors[Trough] \/ x.actual = 0
  <2> HIDE DEF x, b, f
  <2> QED BY <1>3, <1>5 DEF Out, Over
<1> QED BY <1>2, <1>3, <1>6

(* In a game without balls added by game code, live_balls counts the balls *)
(* that are out of the devices whenever nothing is going on: each kick,    *)
(* drain, lock, save and failed kick is counted exactly once.              *)
THEOREM BallsCounted == OneBallGame /\ Spec => []BallsAccounted
<1>1. DeviceInv /\ OneBallGame /\ OneBallInv => BallsAccounted
  BY AtRestBall DEF BallsAccounted
<1>2. OneBallGame => OneBallGame'
  BY DEF OneBallGame, RoomyTrough
<1> QED BY <1>1, <1>2, OneBallInvariance, DeviceInvariance, PTL

(* end_ball is reached with no ball out of the devices, none on its way    *)
(* out of one, and none in a device that is to kick it.                    *)
THEOREM BallEndsDrained == OneBallGame /\ Spec => BallEndsWhenDrained
<1>1. DeviceInv /\ OneBallGame /\ OneBallInv /\ [Next]_vars
      => [InCleanPlay /\ game' = "bonus" => AllDrained]_vars
  <2> SUFFICES ASSUME DeviceInv, OneBallGame, OneBallInv, Next, InCleanPlay, game' = "bonus"
               PROVE  AllDrained
    OBVIOUS
  <2>1. EndBall
    BY BonusBegins DEF InCleanPlay
  <2>2. Rolling = 0
    BY <2>1, TroughEnters DEF OneBallInv, TroughEnter
  <2>3. Loose = 0 /\ \A d \in Devices : ball[d] = Kept[d]
    BY <2>2, NoneRolls DEF OneBallInv
  <2>4. \A d \in Devices \ {Trough} : Kept[d] = dev[d].max_count /\ ball[d] \in Nat
    BY KeptFacts, TrackFacts DEF OneBallInv
  <2> QED BY <2>3, <2>4 DEF AllDrained
<1>2. OneBallGame => OneBallGame'
  BY DEF OneBallGame, RoomyTrough
<1> QED BY <1>1, <1>2, OneBallInvariance, DeviceInvariance, PTL DEF Spec, BallEndsWhenDrained

(* Game code leaves a ball that is not locked.                             *)
SpareBall == Total([d \in Devices |-> IF d = Trough THEN 0 ELSE dev[d].max_count]) < NumBalls

(* A game at rest has a ball in play, unless the trough gave up kicking    *)
(* it: after a lock, a save, a failed kick or an early drain device.c and  *)
(* trough.c serve the next one.                                            *)
THEOREM NextBallServed == OneBallGame /\ Spec /\ []SpareBall => []GameGoesOn
<1>1. DeviceInv /\ OneBallGame /\ OneBallInv /\ SpareBall => GameGoesOn
  <2> SUFFICES ASSUME DeviceInv, OneBallGame, OneBallInv, SpareBall, InCleanPlay, AllAtRest,
                      Loose = 0, dev[Trough].kick_errors # MaxErrors[Trough]
               PROVE  FALSE
    BY AtRestBall DEF GameGoesOn
  <2>1. Kept = ball /\ Rolling = 0 /\ ball[Trough] = 0
    BY AtRestBall
  <2>2. Kept = [d \in Devices |-> IF d = Trough THEN 0 ELSE dev[d].max_count]
    BY <2>1 DEF Kept
  <2>3. Total(Kept) \in Nat /\ NumBalls - Total(Kept) = 0
    BY <2>1, BallsFinite DEF Rolling
  <2> QED BY <2>2, <2>3, Numbers DEF SpareBall
<1>2. OneBallGame => OneBallGame'
  BY DEF OneBallGame, RoomyTrough
<1> QED BY <1>1, <1>2, OneBallInvariance, DeviceInvariance, PTL
=============================================================================
