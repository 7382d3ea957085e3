-------------------------------- MODULE Deff --------------------------------
(***************************************************************************)
(* Display effects (kernel/deff.c): at any time one effect owns the        *)
(* display, in the task of group GID_DEFF.  An effect that is refused, and *)
(* may wait, sits in deff_queue until it gets the display or times out;    *)
(* when nothing else is shown deff_update picks a background effect.       *)
(*                                                                         *)
(* The fields of the driver are one record, so that the calls the code     *)
(* nests (deff_stop, deff_queue_service, deff_update) compose as functions *)
(* from record to record.  Calls come from tasks that are not GID_DEFF.    *)
(* Only deff_exit sleeps, in its queue_service: such tasks are counted in  *)
(* exiting, those that sleep inside deff_update's deff_stop apart.         *)
(*                                                                         *)
(* An entry's timeout is kept relative to the 16-bit clock, modulo         *)
(* 2 * Half.  Not modelled: deff_nice, which nothing calls, and what is    *)
(* drawn.                                                                  *)
(***************************************************************************)
EXTENDS Integers, FiniteSetsExt

CONSTANTS
  Effects,       \* the rows of deff_table
  NONE,          \* DEFF_NULL
  Prio,          \* their priorities, above PRI_NULL = 0
  Flags,         \* their D_ flags
  Background,    \* effects that display_update handlers propose
  Conditions,    \* which of them are proposed together, never none of them
  Endings,       \* deff_ending of the timed and multiball modes
  QueueLen,      \* MAX_QUEUED_DEFFS
  StartTimeout,  \* TIME_7S, for effects queued by deff_start
  EndTimeout,    \* TIME_10S, for the ending effects of modes
  Half,          \* 0x8000, half the range of the clock
  ScrubEvery,    \* the most time between two idle_every_ten_seconds
  BonusPolls,    \* polls of bonus_entered before it clears the display
  MaxExiting     \* bound: tasks asleep in deff_exit

AllFlags   == {"queued", "timeout", "abortable", "pause", "restartable", "endball"}
Foreground == Effects \ Background
Wrap       == 2 * Half

ASSUME EffectAssumption ==
  /\ NONE \notin Effects
  /\ Prio \in [Effects -> Nat \ {0}]
  /\ Flags \in [Effects -> SUBSET AllFlags]
  /\ Background \subseteq Effects
  /\ Conditions \subseteq (SUBSET Background) \ {{}}
  /\ Endings \subseteq Effects \ Background

ASSUME TimeAssumption ==
  /\ {StartTimeout, EndTimeout} \subseteq Nat
  /\ {Half, QueueLen, ScrubEvery, BonusPolls} \subseteq Nat \ {0}
  /\ StartTimeout < Half /\ EndTimeout < Half /\ ScrubEvery <= Half

ASSUME BoundAssumption == MaxExiting \in Nat

VARIABLES
  deff,      \* the display effect driver, see Driver
  exiting,   \* tasks of GID_DEFF_EXITING asleep, at which depth how many
  wanted,    \* background effects whose conditions are true
  bonus,     \* "no", "entered" (in the wait of bonus_entered) or "on"
  polls,     \* that wait's timeout
  sinceScrub \* time since the last idle_every_ten_seconds

vars == <<deff, exiting, wanted, bonus, polls, sinceScrub>>

Slots  == 1 .. QueueLen
Depths == {"outer", "nested"}
Entry == [id : Effects \cup {NONE}, due : 0 .. Wrap - 1]
Empty == [id |-> NONE, due |-> 0]

(* running, background and prio are deff_running, deff_background and      *)
(* deff_prio, tasks the tasks of GID_DEFF by the effect they draw, pause   *)
(* the kickout lock KLOCK_DEFF.                                            *)
Driver == [running : Effects \cup {NONE}, background : Background \cup {NONE},
           prio : {0} \cup {Prio[e] : e \in Effects}, queue : [Slots -> Entry],
           tasks : SUBSET Effects, pause : BOOLEAN]

InBonus == bonus # "no"
Has(e, flag) == flag \in Flags[e]

-----------------------------------------------------------------------------
(* The queue.  Variants of the code, wrong ones, are named ...Bug: none is  *)
(* used below.                                                             *)

NoQueue      == [i \in Slots |-> Empty]
Queued(q)    == {i \in Slots : q[i].id # NONE}
Expired(q)   == {i \in Queued(q) : q[i].due >= Half}          \* time_reached_p
Drop(q, I)   == [i \in Slots |-> IF i \in I THEN Empty ELSE q[i]]
IdsIn(q)     == {q[i].id : i \in Queued(q)}
Delete(q, e) == Drop(q, {i \in Queued(q) : q[i].id = e})

(* deff_queue_add: once per effect, dropped when the queue is full.        *)
AddBug(q, e, timeout) ==
  LET free == Slots \ Queued(q)
  IN  IF free = {} THEN q
      ELSE [q EXCEPT ![Min(free)] = [id |-> e, due |-> timeout]]

Add(q, e, timeout) ==
  LET free == Slots \ Queued(q)
  IN  IF e \in IdsIn(q) \/ free = {} THEN q
      ELSE [q EXCEPT ![Min(free)] = [id |-> e, due |-> timeout]]

(* deff_queue_find_priority frees the expired entries it meets, and finds  *)
(* the first one of the highest priority.                                  *)
ScrubbedBug(q) == q
Scrubbed(q)    == Drop(q, Expired(q))
Best(q)        == {i \in Queued(q) : \A j \in Queued(q) :
                     \/ Prio[q[j].id] < Prio[q[i].id]
                     \/ Prio[q[j].id] = Prio[q[i].id] /\ i <= j}

-----------------------------------------------------------------------------
(* deff_stop_task and the kill before it; deff_start_task.                 *)

KilledBug(s)    == [s EXCEPT !.pause = FALSE]
Killed(s)       == [s EXCEPT !.tasks = {}, !.pause = FALSE]
ShowBug(s, e)   == [Killed(s) EXCEPT !.running = e, !.tasks = @ \cup {e},
                                     !.pause = s.pause \/ Has(e, "pause")]
Show(s, e)      == [Killed(s) EXCEPT !.running = e, !.tasks = @ \cup {e},
                                     !.pause = Has(e, "pause")]

(* deff_update's call of display_update: deff_start_bg keeps the proposal  *)
(* of the highest priority.  Prio stands for its PRIO, which a caller      *)
(* always gives in the same way for the same effect.  In test mode nothing *)
(* is proposed: the case that wanted is empty.                             *)
Proposed    == {e \in wanted : \A f \in wanted : Prio[f] <= Prio[e]}
Recompute(s) ==
  IF Proposed = {} THEN [s EXCEPT !.background = NONE, !.prio = 0]
  ELSE LET b == CHOOSE e \in Proposed : TRUE
       IN  [s EXCEPT !.background = b, !.prio = Prio[b]]

ShowBackground(s) == IF s.background = NONE THEN s ELSE Show(s, s.background)

(* deff_update: nothing while a foreground effect runs, or in the bonus.   *)
LeftAloneBug(s) == s.running # s.background \/ InBonus
LeftAlone(s) == \/ s.running # NONE /\ s.running # s.background
                \/ InBonus

(* The first half of deff_queue_service: an entry that beats deff_prio is  *)
(* started; deff_prio itself is left as it is.                             *)
Serviced(s) == LET q == Scrubbed(s.queue)
               IN  {[Show(s, q[i].id) EXCEPT !.queue = Drop(q, {i})] :
                      i \in {j \in Best(q) : s.prio < Prio[q[j].id]}}
Scrub(s)    == [s EXCEPT !.queue = Scrubbed(s.queue)]

(* deff_update with nothing on the display.                                *)
UpdateBlank(s) == IF LeftAlone(s) THEN s ELSE ShowBackground(Recompute(s))

(* deff_queue_service with nothing on the display, by a task that does not *)
(* sleep in it.                                                            *)
ServiceBlank(s) ==
  IF Serviced(s) # {} THEN CHOOSE t \in Serviced(s) : TRUE
  ELSE UpdateBlank(Scrub(s))

Blank(s) == [Killed(s) EXCEPT !.running = NONE]

(* deff_update replaces the background effect by another one.              *)
Replaces(s) == ~ LeftAlone(s) /\ s.running \notin {NONE, Recompute(s).background}

Update(s) ==
  IF LeftAlone(s) THEN s
  ELSE LET t == Recompute(s)
       IN  IF t.background = s.running THEN t
           ELSE IF s.running = NONE THEN ShowBackground(t)
           ELSE ShowBackground(ServiceBlank(Blank(t)))

(* deff_queue_service and deff_stop.                                       *)
Service(s) ==
  IF Serviced(s) # {} THEN CHOOSE t \in Serviced(s) : TRUE
  ELSE Update(Scrub(s))

Stopped(s, e) == IF e = s.running THEN ServiceBlank(Blank(s))
                 ELSE [s EXCEPT !.queue = Delete(@, e)]

-----------------------------------------------------------------------------
(* deff_start.                                                             *)

Started(s, e) ==
  IF e = s.running THEN (IF Has(e, "restartable") THEN Show(s, e) ELSE s)
  ELSE IF e \in IdsIn(s.queue) THEN s
  ELSE IF s.prio < Prio[e] THEN [Show(s, e) EXCEPT !.prio = Prio[e]]
  ELSE IF Has(e, "queued") \/ Has(e, "timeout")
       THEN [s EXCEPT !.queue = Add(@, e, StartTimeout)]
       ELSE s

Restarted(s, e) == IF e = s.running THEN Show(s, e) ELSE Started(s, e)

Call(s) == deff' = s /\ UNCHANGED <<exiting, wanted, bonus, polls, sinceScrub>>

DeffStart(e)   == Call(Started(deff, e))
DeffRestart(e) == Call(Restarted(deff, e))
DeffStop(e)    == Call(Stopped(deff, e))

(* A timed or multiball mode queues its ending effect.                     *)
QueueEnding(e) ==
  /\ e \in Endings
  /\ Call([deff EXCEPT !.queue = Add(@, e, EndTimeout)])

(* The running effect calls deff_exit.  When no queued effect can start it *)
(* sleeps before the background is updated.                                *)
DeffExit ==
  /\ deff.running \in Foreground
  /\ LET s == [deff EXCEPT !.running = NONE, !.prio = 0, !.tasks = @ \ {deff.running}]
     IN  \/ deff' \in Serviced(s) /\ UNCHANGED exiting
         \/ /\ Serviced(s) = {}
            /\ exiting["outer"] + exiting["nested"] < MaxExiting
            /\ deff' = Scrub(s)
            /\ exiting' = [exiting EXCEPT !["outer"] = @ + 1]
  /\ UNCHANGED <<wanted, bonus, polls, sinceScrub>>

(* A task wakes up in deff_queue_service and goes on with deff_update: by  *)
(* now another effect may run.  If that is a background effect to replace, *)
(* the task sleeps once more, in the service of that deff_stop.  A nested  *)
(* call returns to a deff_update that shows the background.                *)
Wakes(depth) ==
  /\ exiting[depth] > 0
  /\ LET t     == Blank(Recompute(deff))
         slept == [exiting EXCEPT ![depth] = @ - 1]
         return(s) == IF depth = "nested" THEN ShowBackground(s) ELSE s
     IN  \/ /\ Replaces(deff) /\ Serviced(t) = {}
            /\ deff' = Scrub(t)
            /\ exiting' = [slept EXCEPT !["nested"] = @ + 1]
         \/ /\ ~ (Replaces(deff) /\ Serviced(t) = {})
            /\ deff' = return(Update(deff))
            /\ exiting' = slept
  /\ UNCHANGED <<wanted, bonus, polls, sinceScrub>>

EffectUpdate == Call(Update(deff))                   \* effect_update_task

(* Both flipper buttons are pressed.                                       *)
FlipperAbort ==
  LET s == IF deff.running # NONE /\ Has(deff.running, "abortable")
           THEN Stopped(deff, deff.running) ELSE deff
      abortable == {i \in Queued(s.queue) : Has(s.queue[i].id, "abortable")}
  IN  Call(Service([s EXCEPT !.queue = Drop(@, abortable)]))

Tilt == Call([deff EXCEPT !.queue = NoQueue])

(* deff_stop_all: amode_stop, stop_game.                                   *)
AllStopped(s) == [Killed(s) EXCEPT !.running = NONE, !.background = NONE,
                                   !.prio = 0, !.queue = NoQueue]
DeffStopAll   == Call(AllStopped(deff))

(* The end of the ball: the queue keeps what may run then, and the bonus   *)
(* waits until no foreground effect is left, or its patience ends.         *)
EndBall ==
  /\ bonus = "no"
  /\ deff' = [deff EXCEPT !.queue =
                Drop(@, {i \in Queued(@) : ~ Has(@[i].id, "endball")})]
  /\ bonus' = "entered"
  /\ polls' = BonusPolls
  /\ UNCHANGED <<exiting, wanted, sinceScrub>>

BonusEntered ==
  /\ bonus = "entered"
  /\ \/ polls = 0 /\ deff' = AllStopped(deff) /\ bonus' = "on" /\ UNCHANGED polls
     \/ /\ polls > 0 /\ deff.running = deff.background
        /\ bonus' = "on" /\ polls' = 0 /\ UNCHANGED deff
     \/ /\ polls > 0 /\ deff.running # deff.background
        /\ polls' = polls - 1 /\ UNCHANGED <<deff, bonus>>
  /\ UNCHANGED <<exiting, wanted, sinceScrub>>

BonusDone ==
  /\ bonus = "on"
  /\ bonus' = "no"
  /\ UNCHANGED <<deff, exiting, wanted, polls, sinceScrub>>

(* What display_update handlers propose depends on the game; something is  *)
(* always proposed, the scores or the attract mode.                        *)
ConditionsChange ==
  /\ wanted' \in Conditions
  /\ UNCHANGED <<deff, exiting, bonus, polls, sinceScrub>>

(* idle_every_ten_seconds, and time.  The idle loop may be late, but not   *)
(* by more than ScrubEvery allows.                                         *)
IdleEveryTenSeconds ==
  /\ deff' = Scrub(deff)
  /\ sinceScrub' = 0
  /\ UNCHANGED <<exiting, wanted, bonus, polls>>

Aged(q) == [i \in Slots |-> IF q[i].id = NONE THEN Empty
                            ELSE [q[i] EXCEPT !.due = (@ - 1) % Wrap]]
Tick ==
  /\ sinceScrub < ScrubEvery
  /\ deff' = [deff EXCEPT !.queue = Aged(@)]
  /\ sinceScrub' = sinceScrub + 1
  /\ UNCHANGED <<exiting, wanted, bonus, polls>>

-----------------------------------------------------------------------------
Init ==
  /\ deff = [running |-> NONE, background |-> NONE, prio |-> 0,
             queue |-> NoQueue, tasks |-> {}, pause |-> FALSE]
  /\ exiting = [depth \in Depths |-> 0]
  /\ wanted \in Conditions
  /\ bonus = "no" /\ polls = 0 /\ sinceScrub = 0

Next ==
  \/ \E e \in Foreground : \/ DeffStart(e) \/ DeffRestart(e) \/ DeffStop(e)
                           \/ QueueEnding(e)
  \/ DeffExit \/ EffectUpdate \/ FlipperAbort \/ Tilt \/ DeffStopAll
  \/ \E depth \in Depths : Wakes(depth)
  \/ EndBall \/ BonusEntered \/ BonusDone
  \/ ConditionsChange \/ IdleEveryTenSeconds \/ Tick

Spec == Init /\ [][Next]_vars
FairSpec == /\ Spec
            /\ SF_vars(EffectUpdate)
            /\ WF_vars(BonusEntered \/ BonusDone)

-----------------------------------------------------------------------------
(* The fields and the counters keep their types.                           *)
TypeOK ==
  /\ deff \in Driver
  /\ exiting \in [Depths -> 0 .. MaxExiting]
  /\ wanted \in Conditions
  /\ bonus \in {"no", "entered", "on"}
  /\ polls \in 0 .. BonusPolls
  /\ sinceScrub \in 0 .. ScrubEvery

(* deff_running is what draws: whichever way an effect got the display, by *)
(* deff_start, from the queue or as the background, and however it lost    *)
(* it, there is one task of GID_DEFF, its own, and none when nothing runs. *)
OneEffectOnDisplay == deff.tasks = {deff.running} \ {NONE}

(* While something is on the display, kickouts are locked exactly if it is *)
(* a D_PAUSE effect: no path to another effect leaves balls held.          *)
PauseWhileShown ==
  deff.running # NONE => (deff.pause <=> Has(deff.running, "pause"))

(* deff_queue_add ensures that no effect is queued twice, whoever asks.    *)
QueuedOnce ==
  \A i, j \in Queued(deff.queue) :
    deff.queue[i].id = deff.queue[j].id => i = j

(* An entry that timed out stays so until it is freed: the queue is        *)
(* scanned before the 16-bit clock makes the entry look young again.       *)
ExpiredStaysExpired ==
  [][\A i \in Expired(deff.queue) :
       i \in Expired(deff'.queue) \/ deff'.queue[i] = Empty]_vars

(* "It ensures that something is always running": after every exit, stop   *)
(* or bonus the display is given to an effect again.                       *)
DisplayComesBack == deff.running = NONE ~> deff.running # NONE
=============================================================================
