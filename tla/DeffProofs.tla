----------------------------- MODULE DeffProofs -----------------------------
(***************************************************************************)
(* Invariants of the display effect driver, for every table of effects,    *)
(* queue length and clock.                                                 *)
(*                                                                         *)
(* The calls of the driver nest, so the proofs follow the functions from   *)
(* record to record: each of them takes a good driver to a good one.       *)
(***************************************************************************)
EXTENDS Deff, WellFoundedInduction, TLAPS

(* What the invariants say of a driver s, and of its queue.                *)
OneTask(s)  == s.tasks = {s.running} \ {NONE}
PauseFits(s) == s.running # NONE => (s.pause <=> Has(s.running, "pause"))
Distinct(q) == \A i, j \in Queued(q) : q[i].id = q[j].id => i = j

Good(s) == s \in Driver /\ OneTask(s) /\ PauseFits(s) /\ Distinct(s.queue)

(* A task that sleeps again, one level deeper, is still the same task: the  *)
(* bound holds of both levels together.                                    *)
Asleep == {f \in [Depths -> 0 .. MaxExiting] : f["outer"] + f["nested"] <= MaxExiting}

DeffInv ==
  /\ Good(deff)
  /\ exiting \in Asleep
  /\ wanted \in Conditions
  /\ bonus \in {"no", "entered", "on"}
  /\ polls \in 0 .. BonusPolls
  /\ sinceScrub \in 0 .. ScrubEvery

Queues == [Slots -> Entry]

(* The effects that are shown have a priority.                             *)
LEMMA Tables ==
  /\ NONE \notin Effects /\ Background \subseteq Effects
  /\ \A e \in Effects : Prio[e] \in {0} \cup {Prio[f] : f \in Effects}
  /\ wanted \in Conditions => wanted \subseteq Background
  /\ Wrap \in Nat /\ Wrap > 0 /\ 0 \in 0 .. Wrap - 1
  BY EffectAssumption, TimeAssumption DEF Wrap

-----------------------------------------------------------------------------
(* The queue.                                                              *)
LEMMA EmptyQueue == NoQueue \in Queues /\ Distinct(NoQueue)
  BY Tables DEF NoQueue, Queues, Empty, Entry, Distinct, Queued

LEMMA DropQueue ==
  ASSUME NEW q \in Queues, Distinct(q), NEW I
  PROVE  Drop(q, I) \in Queues /\ Distinct(Drop(q, I))
<1>1. Empty \in Entry
  BY Tables DEF Empty, Entry
<1>2. Drop(q, I) \in Queues
  BY <1>1 DEF Drop, Queues
<1>3. \A i \in Queued(Drop(q, I)) : i \in Queued(q) /\ Drop(q, I)[i] = q[i]
  BY DEF Drop, Queued, Empty
<1> QED BY <1>2, <1>3 DEF Distinct

(* deff_queue_add looks for the effect before it takes a slot.             *)
LEMMA AddQueue ==
  ASSUME NEW q \in Queues, Distinct(q), NEW e \in Effects, NEW t \in 0 .. Wrap - 1
  PROVE  Add(q, e, t) \in Queues /\ Distinct(Add(q, e, t))
<1> DEFINE m  == Min(Slots \ Queued(q))
           q2 == [q EXCEPT ![m] = [id |-> e, due |-> t]]
<1>1. CASE e \in IdsIn(q) \/ Slots \ Queued(q) = {}
  BY <1>1 DEF Add
<1>2. CASE e \notin IdsIn(q) /\ Slots \ Queued(q) # {}
  <2>1. Add(q, e, t) = q2
    BY <1>2 DEF Add
  <2>2. [id |-> e, due |-> t] \in Entry
    BY DEF Entry
  <2>3. q2 \in Queues
    BY <2>2 DEF Queues
  <2>4. \A i \in Slots : q2[i] = IF i = m THEN [id |-> e, due |-> t] ELSE q[i]
    BY DEF Queues
  <2>5. \A i \in Queued(q) : q[i].id # e
    BY <1>2 DEF IdsIn
  <2> HIDE DEF m, q2
  <2>6. Distinct(q2)
    BY <2>4, <2>5 DEF Distinct, Queued
  <2> QED BY <2>1, <2>3, <2>6
<1> QED BY <1>1, <1>2

LEMMA AgedQueue ==
  ASSUME NEW q \in Queues, Distinct(q)
  PROVE  Aged(q) \in Queues /\ Distinct(Aged(q))
<1>1. \A i \in Slots : q[i].id # NONE => (q[i].due - 1) % Wrap \in 0 .. Wrap - 1
  BY Tables DEF Queues, Entry
<1>2. \A i \in Slots : Aged(q)[i] = IF q[i].id = NONE THEN Empty
                                    ELSE [q[i] EXCEPT !.due = (q[i].due - 1) % Wrap]
  BY DEF Aged
<1>3. Empty \in Entry
  BY Tables DEF Empty, Entry
<1>4. ASSUME NEW i \in Slots PROVE Aged(q)[i] \in Entry /\ Aged(q)[i].id = q[i].id
  <2>1. q[i] \in Entry
    BY DEF Queues
  <2>2. CASE q[i].id = NONE
    <3>1. Aged(q)[i] = Empty
      BY <1>2, <2>2
    <3> QED BY <1>3, <2>2, <3>1 DEF Empty
  <2>3. CASE q[i].id # NONE
    <3>1. Aged(q)[i] = [q[i] EXCEPT !.due = (q[i].due - 1) % Wrap]
      BY <1>2, <2>3
    <3>2. (q[i].due - 1) % Wrap \in 0 .. Wrap - 1
      BY <1>1, <2>3
    <3> QED BY <2>1, <3>1, <3>2 DEF Entry
  <2> QED BY <2>2, <2>3
<1>5. Aged(q) \in Queues
  BY <1>4 DEF Aged, Queues
<1> QED BY <1>4, <1>5 DEF Distinct, Queued

-----------------------------------------------------------------------------
(* The driver's functions.                                                 *)
LEMMA QueueOf == ASSUME NEW s, Good(s) PROVE s.queue \in Queues /\ Distinct(s.queue)
  BY DEF Good, Driver, Queues

LEMMA NewQueue ==
  ASSUME NEW s, Good(s), NEW q \in Queues, Distinct(q)
  PROVE  Good([s EXCEPT !.queue = q])
  BY DEF Good, Driver, Queues, OneTask, PauseFits

LEMMA GoodDrop == ASSUME NEW s, Good(s), NEW I PROVE Good([s EXCEPT !.queue = Drop(s.queue, I)])
  BY QueueOf, DropQueue, NewQueue

LEMMA GoodScrub == ASSUME NEW s, Good(s) PROVE Good(Scrub(s))
  BY GoodDrop DEF Scrub, Scrubbed

(* An effect is shown in the place of whatever was.                        *)
LEMMA GoodShow ==
  ASSUME NEW s, s \in Driver, Distinct(s.queue), NEW e \in Effects
  PROVE  Good(Show(s, e)) /\ Show(s, e).queue = s.queue
<1>1. Show(s, e) = [s EXCEPT !.running = e, !.tasks = {e}, !.pause = Has(e, "pause")]
  BY DEF Show, Killed, Driver
<1>2. e # NONE /\ {e} = {e} \ {NONE} /\ Has(e, "pause") \in BOOLEAN
  BY Tables DEF Has
<1> DEFINE p == Has(e, "pause")
           t == [s EXCEPT !.running = e, !.tasks = {e}, !.pause = p]
<1> HIDE DEF p
<1>3. t \in Driver /\ t.running = e /\ t.tasks = {e} /\ t.pause = p /\ t.queue = s.queue
  BY <1>2 DEF Driver, p
<1>4. Good(t)
  BY <1>2, <1>3 DEF Good, OneTask, PauseFits, p
<1> QED BY <1>1, <1>3, <1>4 DEF p

LEMMA GoodBlank == ASSUME NEW s, Good(s) PROVE Good(Blank(s)) /\ Blank(s).running = NONE
<1>1. Blank(s) = [s EXCEPT !.running = NONE, !.tasks = {}, !.pause = FALSE]
  BY DEF Blank, Killed, Good, Driver
<1> QED BY <1>1 DEF Good, Driver, OneTask, PauseFits

LEMMA GoodPrio ==
  ASSUME NEW s, Good(s), NEW b \in Background \cup {NONE},
         NEW p \in {0} \cup {Prio[e] : e \in Effects}
  PROVE  Good([s EXCEPT !.background = b, !.prio = p])
  BY DEF Good, Driver, OneTask, PauseFits

LEMMA GoodRecompute ==
  ASSUME NEW s, Good(s), wanted \in Conditions
  PROVE  Good(Recompute(s)) /\ Recompute(s).running = s.running
<1>0. Proposed \subseteq Background /\ Background \subseteq Effects
  BY Tables DEF Proposed
<1>1. CASE Proposed = {}
  <2>1. Recompute(s) = [s EXCEPT !.background = NONE, !.prio = 0]
    BY <1>1 DEF Recompute
  <2>2. [s EXCEPT !.background = NONE, !.prio = 0].running = s.running
    BY DEF Good, Driver
  <2>3. Good([s EXCEPT !.background = NONE, !.prio = 0])
    BY GoodPrio
  <2> QED BY <2>1, <2>2, <2>3, Zenon
<1>2. CASE Proposed # {}
  <2> DEFINE b == CHOOSE e \in Proposed : TRUE
  <2>1. b \in Background /\ b \in Effects
    BY <1>0, <1>2
  <2>2. Recompute(s) = [s EXCEPT !.background = b, !.prio = Prio[b]]
    BY <1>2 DEF Recompute
  <2> HIDE DEF b
  <2>3. [s EXCEPT !.background = b, !.prio = Prio[b]].running = s.running
    BY DEF Good, Driver
  <2>4. Prio[b] \in {0} \cup {Prio[e] : e \in Effects}
    BY <2>1, Tables
  <2>5. Good([s EXCEPT !.background = b, !.prio = Prio[b]])
    BY <2>1, <2>4, GoodPrio
  <2> QED BY <2>2, <2>3, <2>5, Zenon
<1> QED BY <1>1, <1>2

LEMMA GoodShowBackground == ASSUME NEW s, Good(s) PROVE Good(ShowBackground(s))
  BY GoodShow, Tables DEF ShowBackground, Good, Driver

LEMMA GoodServiced == ASSUME NEW s, Good(s), NEW t \in Serviced(s) PROVE Good(t)
<1> DEFINE q == Scrubbed(s.queue)
<1>1. q \in Queues /\ Distinct(q)
  BY QueueOf, DropQueue DEF Scrubbed
<1>2. PICK i \in Best(q) : t = [Show(s, q[i].id) EXCEPT !.queue = Drop(q, {i})]
  BY DEF Serviced
<1>3. q[i].id \in Effects
  BY <1>1 DEF Best, Queued, Queues, Entry
<1>4. Good(Show(s, q[i].id))
  BY <1>3, GoodShow DEF Good
<1>5. Drop(q, {i}) \in Queues /\ Distinct(Drop(q, {i}))
  BY <1>1, DropQueue
<1> HIDE DEF q
<1> QED BY <1>2, <1>4, <1>5, NewQueue

LEMMA GoodUpdateBlank ==
  ASSUME NEW s, Good(s), wanted \in Conditions PROVE Good(UpdateBlank(s))
  BY GoodRecompute, GoodShowBackground DEF UpdateBlank

LEMMA GoodServiceBlank ==
  ASSUME NEW s, Good(s), wanted \in Conditions PROVE Good(ServiceBlank(s))
<1>1. CASE Serviced(s) # {}
  BY <1>1, GoodServiced DEF ServiceBlank
<1>2. CASE Serviced(s) = {}
  BY <1>2, GoodScrub, GoodUpdateBlank DEF ServiceBlank
<1> QED BY <1>1, <1>2

LEMMA GoodUpdate == ASSUME NEW s, Good(s), wanted \in Conditions PROVE Good(Update(s))
<1>1. Good(Recompute(s))
  BY GoodRecompute
<1>2. Good(ShowBackground(Recompute(s)))
  BY <1>1, GoodShowBackground
<1>3. Good(ShowBackground(ServiceBlank(Blank(Recompute(s)))))
  BY <1>1, GoodBlank, GoodServiceBlank, GoodShowBackground
<1> QED BY <1>1, <1>2, <1>3 DEF Update

LEMMA GoodService == ASSUME NEW s, Good(s), wanted \in Conditions PROVE Good(Service(s))
<1>1. CASE Serviced(s) # {}
  BY <1>1, GoodServiced DEF Service
<1>2. CASE Serviced(s) = {}
  BY <1>2, GoodScrub, GoodUpdate DEF Service
<1> QED BY <1>1, <1>2

LEMMA GoodStopped ==
  ASSUME NEW s, Good(s), NEW e, wanted \in Conditions PROVE Good(Stopped(s, e))
<1>1. Good(ServiceBlank(Blank(s)))
  BY GoodBlank, GoodServiceBlank
<1>2. Good([s EXCEPT !.queue = Delete(s.queue, e)])
  BY GoodDrop DEF Delete
<1> QED BY <1>1, <1>2 DEF Stopped

LEMMA GoodAdd ==
  ASSUME NEW s, Good(s), NEW e \in Effects, NEW t \in {StartTimeout, EndTimeout}
  PROVE  Good([s EXCEPT !.queue = Add(s.queue, e, t)])
<1>1. t \in 0 .. Wrap - 1
  BY TimeAssumption DEF Wrap
<1> QED BY <1>1, QueueOf, AddQueue, NewQueue

LEMMA GoodStarted == ASSUME NEW s, Good(s), NEW e \in Effects PROVE Good(Started(s, e))
<1>1. Good(Show(s, e))
  BY GoodShow DEF Good
<1>2. Good([Show(s, e) EXCEPT !.prio = Prio[e]])
  BY <1>1, Tables DEF Good, Driver, OneTask, PauseFits
<1>3. Good([s EXCEPT !.queue = Add(s.queue, e, StartTimeout)])
  BY GoodAdd
<1> QED BY <1>1, <1>2, <1>3 DEF Started

LEMMA GoodRestarted == ASSUME NEW s, Good(s), NEW e \in Effects PROVE Good(Restarted(s, e))
  BY GoodShow, GoodStarted DEF Restarted, Good

LEMMA GoodAllStopped == ASSUME NEW s, Good(s) PROVE Good(AllStopped(s))
<1>1. AllStopped(s) = [s EXCEPT !.running = NONE, !.background = NONE, !.prio = 0,
                                !.queue = NoQueue, !.tasks = {}, !.pause = FALSE]
  BY DEF AllStopped, Killed, Good, Driver
<1> QED BY <1>1, EmptyQueue DEF Good, Driver, Queues, OneTask, PauseFits

-----------------------------------------------------------------------------
(* The steps.                                                              *)
LEMMA InitInv == Init => DeffInv
<1> SUFFICES ASSUME Init PROVE DeffInv
  OBVIOUS
<1>1. deff \in Driver
  BY EmptyQueue DEF Init, Driver, Queues
<1>2. OneTask(deff) /\ PauseFits(deff) /\ Distinct(deff.queue)
  BY EmptyQueue DEF Init, OneTask, PauseFits
<1>3. exiting \in Asleep
  BY BoundAssumption DEF Init, Asleep, Depths
<1>4. polls \in 0 .. BonusPolls /\ sinceScrub \in 0 .. ScrubEvery
  BY TimeAssumption DEF Init
<1> QED BY <1>1, <1>2, <1>3, <1>4 DEF DeffInv, Good, Init

(* The calls that start, stop and update effects.                          *)
LEMMA CallInv ==
  ASSUME DeffInv, NEW s, Good(s), Call(s)
  PROVE  DeffInv'
  BY DEF Call, DeffInv

LEMMA CallsInv ==
  ASSUME DeffInv,
         \/ \E e \in Foreground : \/ DeffStart(e) \/ DeffRestart(e) \/ DeffStop(e)
                                  \/ QueueEnding(e)
         \/ EffectUpdate \/ FlipperAbort \/ Tilt \/ DeffStopAll
  PROVE  DeffInv'
<1>0. Good(deff) /\ wanted \in Conditions
  BY DEF DeffInv
<1>1. ASSUME NEW e \in Foreground, DeffStart(e) \/ DeffRestart(e) \/ DeffStop(e)
      PROVE  DeffInv'
  <2>1. e \in Effects
    BY DEF Foreground
  <2>2. Good(Started(deff, e)) /\ Good(Restarted(deff, e)) /\ Good(Stopped(deff, e))
    BY <1>0, <2>1, GoodStarted, GoodRestarted, GoodStopped
  <2> QED BY <1>1, <2>2, CallInv DEF DeffStart, DeffRestart, DeffStop
<1>2. ASSUME NEW e \in Foreground, QueueEnding(e) PROVE DeffInv'
  <2>1. Good([deff EXCEPT !.queue = Add(deff.queue, e, EndTimeout)])
    BY <1>0, GoodAdd DEF Foreground
  <2> QED BY <1>2, <2>1, CallInv DEF QueueEnding
<1>3. ASSUME EffectUpdate PROVE DeffInv'
  BY <1>0, <1>3, GoodUpdate, CallInv DEF EffectUpdate
<1>4. ASSUME FlipperAbort PROVE DeffInv'
  <2> DEFINE s == IF deff.running # NONE /\ Has(deff.running, "abortable")
                  THEN Stopped(deff, deff.running) ELSE deff
             A == {i \in Queued(s.queue) : Has(s.queue[i].id, "abortable")}
  <2>1. Good(s)
    BY <1>0, GoodStopped
  <2> HIDE DEF s
  <2>2. Good(Service([s EXCEPT !.queue = Drop(s.queue, A)]))
    BY <1>0, <2>1, GoodDrop, GoodService
  <2> QED BY <1>4, <2>2, CallInv DEF FlipperAbort, s
<1>5. ASSUME Tilt PROVE DeffInv'
  BY <1>0, <1>5, EmptyQueue, NewQueue, CallInv DEF Tilt
<1>6. ASSUME DeffStopAll PROVE DeffInv'
  BY <1>0, <1>6, GoodAllStopped, CallInv DEF DeffStopAll
<1> QED BY <1>1, <1>2, <1>3, <1>4, <1>5, <1>6

(* The count of sleeping tasks.                                            *)
LEMMA OneMore ==
  ASSUME NEW f \in Asleep, f["outer"] + f["nested"] < MaxExiting, NEW d \in Depths
  PROVE  [f EXCEPT ![d] = f[d] + 1] \in Asleep
  BY BoundAssumption DEF Asleep, Depths

LEMMA OneLess ==
  ASSUME NEW f \in Asleep, NEW d \in Depths, f[d] > 0
  PROVE  LET g == [f EXCEPT ![d] = f[d] - 1]
         IN  g \in Asleep /\ g["outer"] + g["nested"] < MaxExiting
  BY BoundAssumption DEF Asleep, Depths

(* deff_exit: the effect gives up the display, at once to a queued effect  *)
(* or after a sleep to the background.                                     *)
LEMMA ExitInv == ASSUME DeffInv, DeffExit PROVE DeffInv'
<1> DEFINE s == [deff EXCEPT !.running = NONE, !.prio = 0, !.tasks = @ \ {deff.running}]
<1>1. Good(s)
  BY DEF DeffInv, Good, Driver, OneTask, PauseFits
<1>2. CASE deff' \in Serviced(s) /\ UNCHANGED <<exiting, wanted, bonus, polls, sinceScrub>>
  <2>1. Good(deff')
    BY <1>1, <1>2, GoodServiced
  <2> QED BY <1>2, <2>1 DEF DeffInv
<1>3. CASE /\ exiting["outer"] + exiting["nested"] < MaxExiting
           /\ deff' = Scrub(s)
           /\ exiting' = [exiting EXCEPT !["outer"] = @ + 1]
           /\ UNCHANGED <<wanted, bonus, polls, sinceScrub>>
  <2>1. Good(deff')
    BY <1>1, <1>3, GoodScrub
  <2>2. exiting' \in Asleep
    BY <1>3, OneMore DEF DeffInv, Depths
  <2> QED BY <1>3, <2>1, <2>2 DEF DeffInv
<1> QED BY <1>2, <1>3 DEF DeffExit

(* The rest of deff_exit's queue service, after the sleep.                 *)
LEMMA WakesInv == ASSUME DeffInv, NEW d \in Depths, Wakes(d) PROVE DeffInv'
<1> DEFINE t     == Blank(Recompute(deff))
           slept == [exiting EXCEPT ![d] = exiting[d] - 1]
<1>0. Good(deff) /\ wanted \in Conditions /\ exiting \in Asleep
  BY DEF DeffInv
<1>1. Good(t)
  BY <1>0, GoodRecompute, GoodBlank
<1>2. Good(Update(deff)) /\ Good(ShowBackground(Update(deff)))
  BY <1>0, GoodUpdate, GoodShowBackground
<1>3. exiting[d] > 0
  BY DEF Wakes
<1>4. slept \in Asleep /\ slept["outer"] + slept["nested"] < MaxExiting
  BY <1>0, <1>3, OneLess
<1>5. Good(deff')
  <2>1. deff' \in {Scrub(t), Update(deff), ShowBackground(Update(deff))}
    BY DEF Wakes
  <2> HIDE DEF t
  <2> QED BY <1>1, <1>2, <2>1, GoodScrub
<1>6. exiting' \in Asleep
  <2>1. exiting' \in {slept, [slept EXCEPT !["nested"] = slept["nested"] + 1]}
    BY DEF Wakes
  <2>2. [slept EXCEPT !["nested"] = slept["nested"] + 1] \in Asleep
    BY <1>4, OneMore DEF Depths
  <2> QED BY <1>4, <2>1, <2>2
<1> QED BY <1>5, <1>6 DEF Wakes, DeffInv

(* The end of the ball and the bonus.                                      *)
LEMMA BonusInv ==
  ASSUME DeffInv, EndBall \/ BonusEntered \/ BonusDone PROVE DeffInv'
<1>0. Good(deff) /\ polls \in 0 .. BonusPolls
  BY DEF DeffInv
<1>1. CASE EndBall
  <2>1. Good(deff')
    BY <1>0, <1>1, GoodDrop DEF EndBall
  <2>2. polls' \in 0 .. BonusPolls
    BY <1>1, TimeAssumption DEF EndBall
  <2> QED BY <1>1, <2>1, <2>2 DEF EndBall, DeffInv
<1>2. CASE BonusEntered
  <2>1. Good(deff')
    BY <1>0, <1>2, GoodAllStopped DEF BonusEntered
  <2>2. polls' \in 0 .. BonusPolls
    BY <1>0, <1>2, TimeAssumption DEF BonusEntered
  <2> QED BY <1>2, <2>1, <2>2 DEF BonusEntered, DeffInv
<1>3. CASE BonusDone
  BY <1>3 DEF BonusDone, DeffInv
<1> QED BY <1>1, <1>2, <1>3

(* The game and time go on.                                                *)
LEMMA TimeInv ==
  ASSUME DeffInv, ConditionsChange \/ IdleEveryTenSeconds \/ Tick PROVE DeffInv'
<1>0. Good(deff) /\ sinceScrub \in 0 .. ScrubEvery
  BY DEF DeffInv
<1>1. CASE ConditionsChange
  BY <1>1 DEF ConditionsChange, DeffInv
<1>2. CASE IdleEveryTenSeconds
  BY <1>0, <1>2, GoodScrub, TimeAssumption DEF IdleEveryTenSeconds, DeffInv
<1>3. CASE Tick
  <2>1. Good(deff')
    BY <1>0, <1>3, QueueOf, AgedQueue, NewQueue DEF Tick
  <2>2. sinceScrub' \in 0 .. ScrubEvery
    BY <1>0, <1>3, TimeAssumption DEF Tick
  <2> QED BY <1>3, <2>1, <2>2 DEF Tick, DeffInv
<1> QED BY <1>1, <1>2, <1>3

LEMMA NextInv == DeffInv /\ [Next]_vars => DeffInv'
<1> SUFFICES ASSUME DeffInv, [Next]_vars PROVE DeffInv'
  OBVIOUS
<1>1. CASE UNCHANGED vars
  BY <1>1 DEF vars, DeffInv
<1>2. CASE Next
  BY <1>2, CallsInv, ExitInv, WakesInv, BonusInv, TimeInv DEF Next
<1> QED BY <1>1, <1>2

LEMMA Invariance == Spec => []DeffInv
  BY InitInv, NextInv, PTL DEF Spec

-----------------------------------------------------------------------------
(* The driver's fields keep their types for every table of effects.        *)
THEOREM TypeCorrect == Spec => []TypeOK
<1>1. DeffInv => TypeOK
  BY DEF DeffInv, Good, TypeOK, Asleep
<1> QED BY <1>1, Invariance, PTL

(* One task draws, and it is that of deff_running, whichever of the nested *)
(* calls of deff_stop, deff_queue_service and deff_update gave the display *)
(* to the effect.                                                          *)
THEOREM OneDraws == Spec => []OneEffectOnDisplay
<1>1. DeffInv => OneEffectOnDisplay
  BY DEF DeffInv, Good, OneTask, OneEffectOnDisplay
<1> QED BY <1>1, Invariance, PTL

(* The kickout lock follows the effect on the display.                     *)
THEOREM KickoutsFollow == Spec => []PauseWhileShown
<1>1. DeffInv => PauseWhileShown
  BY DEF DeffInv, Good, PauseFits, PauseWhileShown
<1> QED BY <1>1, Invariance, PTL

(* No effect waits twice in deff_queue, of any length.                     *)
THEOREM WaitsOnce == Spec => []QueuedOnce
<1>1. DeffInv => QueuedOnce
  BY DEF DeffInv, Good, Distinct, QueuedOnce
<1> QED BY <1>1, Invariance, PTL

-----------------------------------------------------------------------------
(* Timeouts.  Between two scans of the queue an entry is young, or overdue *)
(* by no more than the time since the last scan.                           *)
Shrinks(s, t) == \A i \in Slots : t.queue[i] \in {s.queue[i], Empty}

Fresh(q, n) == \A i \in Queued(q) : q[i].due < Half \/ q[i].due >= Wrap - n

TimeoutsInv == DeffInv /\ Fresh(deff.queue, sinceScrub)

LEMMA ShrinksOn ==
  ASSUME NEW s, NEW t, NEW u, Shrinks(s, t), Shrinks(t, u) PROVE Shrinks(s, u)
  BY DEF Shrinks

LEMMA ShrinkDrop ==
  ASSUME NEW s, Good(s), NEW I PROVE Shrinks(s, [s EXCEPT !.queue = Drop(s.queue, I)])
  BY DEF Shrinks, Drop, Good, Driver

LEMMA ShrinkScrub == ASSUME NEW s, Good(s) PROVE Shrinks(s, Scrub(s))
  BY ShrinkDrop DEF Scrub, Scrubbed

LEMMA ShrinkShow == ASSUME NEW s, Good(s), NEW e \in Effects PROVE Shrinks(s, Show(s, e))
  BY GoodShow DEF Good, Shrinks

LEMMA ShrinkBlank == ASSUME NEW s, Good(s) PROVE Shrinks(s, Blank(s))
  BY DEF Blank, Killed, Good, Driver, Shrinks

LEMMA ShrinkRecompute == ASSUME NEW s, Good(s) PROVE Shrinks(s, Recompute(s))
  BY DEF Recompute, Good, Driver, Shrinks

LEMMA ShrinkShowBackground == ASSUME NEW s, Good(s) PROVE Shrinks(s, ShowBackground(s))
<1>1. s.background \in Effects \cup {NONE}
  BY Tables DEF Good, Driver
<1> QED BY <1>1, ShrinkShow DEF ShowBackground, Shrinks

LEMMA ShrinkServiced == ASSUME NEW s, Good(s), NEW t \in Serviced(s) PROVE Shrinks(s, t)
<1> DEFINE q == Scrubbed(s.queue)
<1>1. q \in Queues
  BY QueueOf, DropQueue DEF Scrubbed
<1>2. PICK i \in Best(q) : t = [Show(s, q[i].id) EXCEPT !.queue = Drop(q, {i})]
  BY DEF Serviced
<1>3. q[i].id \in Effects
  BY <1>1 DEF Best, Queued, Queues, Entry
<1>4. Good(Show(s, q[i].id))
  BY <1>3, GoodShow DEF Good
<1>5. t.queue = Drop(q, {i})
  BY <1>2, <1>4 DEF Good, Driver
<1>6. \A j \in Slots : q[j] \in {s.queue[j], Empty} /\ Drop(q, {i})[j] \in {q[j], Empty}
  BY DEF Scrubbed, Drop
<1> QED BY <1>5, <1>6 DEF Shrinks

LEMMA ShrinkUpdateBlank ==
  ASSUME NEW s, Good(s), wanted \in Conditions PROVE Shrinks(s, UpdateBlank(s))
<1>1. Shrinks(s, s)
  BY DEF Shrinks
<1>2. Shrinks(s, ShowBackground(Recompute(s)))
  BY GoodRecompute, ShrinkRecompute, ShrinkShowBackground, ShrinksOn
<1> QED BY <1>1, <1>2 DEF UpdateBlank

LEMMA ShrinkServiceBlank ==
  ASSUME NEW s, Good(s), wanted \in Conditions PROVE Shrinks(s, ServiceBlank(s))
<1>1. CASE Serviced(s) # {}
  BY <1>1, ShrinkServiced DEF ServiceBlank
<1>2. CASE Serviced(s) = {}
  BY <1>2, GoodScrub, ShrinkScrub, ShrinkUpdateBlank, ShrinksOn DEF ServiceBlank
<1> QED BY <1>1, <1>2

LEMMA ShrinkUpdate == ASSUME NEW s, Good(s), wanted \in Conditions PROVE Shrinks(s, Update(s))
<1> DEFINE t == Recompute(s)
<1>1. Good(t) /\ Shrinks(s, t)
  BY GoodRecompute, ShrinkRecompute
<1> HIDE DEF t
<1>2. Shrinks(s, s) /\ Shrinks(s, ShowBackground(t))
  BY <1>1, ShrinkShowBackground, ShrinksOn DEF Shrinks
<1>3. Good(Blank(t)) /\ Shrinks(s, Blank(t))
  BY <1>1, GoodBlank, ShrinkBlank, ShrinksOn
<1>4. Good(ServiceBlank(Blank(t))) /\ Shrinks(s, ServiceBlank(Blank(t)))
  BY <1>3, GoodServiceBlank, ShrinkServiceBlank, ShrinksOn
<1>5. Shrinks(s, ShowBackground(ServiceBlank(Blank(t))))
  BY <1>4, ShrinkShowBackground, ShrinksOn
<1> QED BY <1>1, <1>2, <1>5 DEF Update, t

LEMMA ShrinkService == ASSUME NEW s, Good(s), wanted \in Conditions PROVE Shrinks(s, Service(s))
<1>1. CASE Serviced(s) # {}
  BY <1>1, ShrinkServiced DEF Service
<1>2. CASE Serviced(s) = {}
  BY <1>2, GoodScrub, ShrinkScrub, ShrinkUpdate, ShrinksOn DEF Service
<1> QED BY <1>1, <1>2

LEMMA ShrinkStopped ==
  ASSUME NEW s, Good(s), NEW e, wanted \in Conditions PROVE Shrinks(s, Stopped(s, e))
<1>1. Shrinks(s, ServiceBlank(Blank(s)))
  BY GoodBlank, ShrinkBlank, ShrinkServiceBlank, ShrinksOn
<1>2. Shrinks(s, [s EXCEPT !.queue = Delete(s.queue, e)])
  BY ShrinkDrop DEF Delete
<1> QED BY <1>1, <1>2 DEF Stopped

(* A nonempty set of naturals has a least element, the one Min chooses.    *)
LEMMA NatWellFounded == IsWellFoundedOn({p \in Nat \X Nat : p[1] < p[2]}, Nat)
  BY NatLessThanWellFounded DEF OpToRel

LEMMA LeastElement ==
  ASSUME NEW F, F \subseteq Nat, F # {} PROVE \E x \in F : \A y \in F : x <= y
<1> DEFINE R == {p \in Nat \X Nat : p[1] < p[2]}
<1>1. IsWellFoundedOn(R, Nat)
  BY NatWellFounded
<1> HIDE DEF R
<1>2. PICK x \in F : \A y \in F : ~ <<y, x>> \in R
  BY <1>1, WFMin
<1>3. \A y \in F : x \in Nat /\ y \in Nat /\ ~ y < x
  BY <1>2 DEF R
<1> QED BY <1>3

(* The calls that queue an effect: its entry is young and takes a slot     *)
(* that was free.                                                          *)
Grows(s, t) == \A i \in Slots : \/ t.queue[i] = s.queue[i]
                                \/ s.queue[i].id = NONE /\ t.queue[i].due < Half

LEMMA GrowAdd ==
  ASSUME NEW s, Good(s), NEW e \in Effects, NEW n \in {StartTimeout, EndTimeout}
  PROVE  Grows(s, [s EXCEPT !.queue = Add(s.queue, e, n)])
<1> DEFINE q == s.queue
           m == Min(Slots \ Queued(q))
           t == [s EXCEPT !.queue = Add(s.queue, e, n)]
<1>1. q \in Queues /\ t.queue = Add(q, e, n)
  BY QueueOf DEF Good, Driver
<1>2. n < Half
  BY TimeAssumption
<1>3. Add(q, e, n) = q \/ (Slots \ Queued(q) # {} /\ Add(q, e, n) = [q EXCEPT ![m] = [id |-> e, due |-> n]])
  BY DEF Add
<1>4. Slots \ Queued(q) # {} => m \in Slots \ Queued(q)
  <2>1. Slots \subseteq Nat
    BY TimeAssumption DEF Slots
  <2> DEFINE F == Slots \ Queued(q)
  <2>2. F \subseteq Nat
    BY <2>1
  <2> HIDE DEF F
  <2>3. F # {} => \E x \in F : \A y \in F : x <= y
    BY <2>2, LeastElement
  <2> QED BY <2>3 DEF Min, F
<1> HIDE DEF m, t
<1>5. ASSUME NEW i \in Slots
      PROVE  t.queue[i] = q[i] \/ (q[i].id = NONE /\ t.queue[i].due < Half)
  BY <1>1, <1>2, <1>3, <1>4 DEF Queues, Queued
<1> QED BY <1>5 DEF Grows, t
(* What the calls do to the queue: an entry stays, goes, or is new.        *)
Keeps(s, t) == \A i \in Slots : \/ t.queue[i] \in {s.queue[i], Empty}
                                \/ s.queue[i].id = NONE /\ t.queue[i].due < Half

LEMMA ShrinksKeeps == ASSUME NEW s, NEW t, Shrinks(s, t) PROVE Keeps(s, t)
  BY DEF Shrinks, Keeps

LEMMA GrowsKeeps == ASSUME NEW s, NEW t, Grows(s, t) PROVE Keeps(s, t)
  BY DEF Grows, Keeps

LEMMA StartedKeeps ==
  ASSUME NEW s, Good(s), NEW e \in Effects
  PROVE  Keeps(s, Started(s, e)) /\ Keeps(s, Restarted(s, e))
<1>1. Keeps(s, s)
  BY DEF Keeps
<1>2. Good(Show(s, e)) /\ Keeps(s, Show(s, e))
  BY GoodShow, ShrinkShow, ShrinksKeeps DEF Good
<1>3. Keeps(s, [Show(s, e) EXCEPT !.prio = Prio[e]])
  BY <1>2 DEF Keeps, Good, Driver
<1>4. Keeps(s, [s EXCEPT !.queue = Add(s.queue, e, StartTimeout)])
  BY GrowAdd, GrowsKeeps
<1> QED BY <1>1, <1>2, <1>3, <1>4 DEF Started, Restarted

LEMMA EmptiedKeeps ==
  ASSUME NEW s, Good(s)
  PROVE  Keeps(s, AllStopped(s)) /\ Keeps(s, [s EXCEPT !.queue = NoQueue])
  BY DEF AllStopped, Killed, Good, Driver, NoQueue, Keeps

LEMMA CallsKeep ==
  ASSUME DeffInv,
         \/ \E e \in Foreground : \/ DeffStart(e) \/ DeffRestart(e) \/ DeffStop(e)
                                  \/ QueueEnding(e)
         \/ EffectUpdate \/ FlipperAbort \/ Tilt \/ DeffStopAll
  PROVE  Keeps(deff, deff') /\ sinceScrub' = sinceScrub
<1>0. Good(deff) /\ wanted \in Conditions
  BY DEF DeffInv
<1>1. ASSUME NEW s, Call(s), Keeps(deff, s) PROVE Keeps(deff, deff') /\ sinceScrub' = sinceScrub
  BY <1>1 DEF Call
<1>2. ASSUME NEW e \in Foreground,
             DeffStart(e) \/ DeffRestart(e) \/ DeffStop(e) \/ QueueEnding(e)
      PROVE  Keeps(deff, deff') /\ sinceScrub' = sinceScrub
  <2>1. e \in Effects
    BY DEF Foreground
  <2>2. Keeps(deff, Started(deff, e)) /\ Keeps(deff, Restarted(deff, e))
    BY <1>0, <2>1, StartedKeeps
  <2>3. Keeps(deff, Stopped(deff, e))
    BY <1>0, ShrinkStopped, ShrinksKeeps
  <2>4. Keeps(deff, [deff EXCEPT !.queue = Add(deff.queue, e, EndTimeout)])
    BY <1>0, <2>1, GrowAdd, GrowsKeeps
  <2> QED BY <1>1, <1>2, <2>2, <2>3, <2>4 DEF DeffStart, DeffRestart, DeffStop, QueueEnding
<1>3. ASSUME EffectUpdate PROVE Keeps(deff, deff') /\ sinceScrub' = sinceScrub
  BY <1>0, <1>1, <1>3, ShrinkUpdate, ShrinksKeeps DEF EffectUpdate
<1>4. ASSUME FlipperAbort PROVE Keeps(deff, deff') /\ sinceScrub' = sinceScrub
  <2> DEFINE s == IF deff.running # NONE /\ Has(deff.running, "abortable")
                  THEN Stopped(deff, deff.running) ELSE deff
             A == {i \in Queued(s.queue) : Has(s.queue[i].id, "abortable")}
             t == [s EXCEPT !.queue = Drop(s.queue, A)]
  <2>1. Good(s) /\ Shrinks(deff, s)
    <3>1. Shrinks(deff, deff)
      BY DEF Shrinks
    <3> QED BY <1>0, <3>1, GoodStopped, ShrinkStopped
  <2> HIDE DEF s
  <2>2. Good(t) /\ Shrinks(s, t)
    BY <2>1, GoodDrop, ShrinkDrop
  <2> HIDE DEF A
  <2>3. Shrinks(t, Service(t))
    BY <1>0, <2>2, ShrinkService
  <2>4. Shrinks(deff, Service(t))
    <3> HIDE DEF t
    <3> QED BY <2>1, <2>2, <2>3, ShrinksOn
  <2>5. Call(Service(t))
    BY <1>4 DEF FlipperAbort, s, A
  <2> HIDE DEF t
  <2> QED BY <1>1, <2>4, <2>5, ShrinksKeeps
<1>5. ASSUME Tilt \/ DeffStopAll PROVE Keeps(deff, deff') /\ sinceScrub' = sinceScrub
  BY <1>0, <1>1, <1>5, EmptiedKeeps DEF Tilt, DeffStopAll
<1> QED BY <1>2, <1>3, <1>4, <1>5

LEMMA ExitKeeps ==
  ASSUME DeffInv, DeffExit PROVE Keeps(deff, deff') /\ sinceScrub' = sinceScrub
<1> DEFINE s == [deff EXCEPT !.running = NONE, !.prio = 0, !.tasks = @ \ {deff.running}]
<1>1. Good(s)
  BY DEF DeffInv, Good, Driver, OneTask, PauseFits
<1>2. Shrinks(deff, s)
  BY DEF DeffInv, Good, Driver, Shrinks
<1>3. deff' \in Serviced(s) \/ deff' = Scrub(s)
  BY DEF DeffExit
<1> HIDE DEF s
<1>4. Shrinks(s, deff')
  BY <1>1, <1>3, ShrinkServiced, ShrinkScrub
<1>5. Shrinks(deff, deff')
  BY <1>2, <1>4, ShrinksOn
<1> QED BY <1>5, ShrinksKeeps DEF DeffExit

LEMMA WakesKeeps ==
  ASSUME DeffInv, NEW d \in Depths, Wakes(d)
  PROVE  Keeps(deff, deff') /\ sinceScrub' = sinceScrub
<1> DEFINE r == Recompute(deff)
           t == Blank(r)
           u == Update(deff)
<1>0. Good(deff) /\ wanted \in Conditions
  BY DEF DeffInv
<1>1. deff' \in {Scrub(t), u, ShowBackground(u)}
  BY DEF Wakes
<1>2. Good(r) /\ Shrinks(deff, r)
  BY <1>0, GoodRecompute, ShrinkRecompute
<1>3. Good(u) /\ Shrinks(deff, u)
  BY <1>0, GoodUpdate, ShrinkUpdate
<1> HIDE DEF r, u
<1>4. Good(t) /\ Shrinks(r, t)
  BY <1>2, GoodBlank, ShrinkBlank
<1> HIDE DEF t
<1>5. Shrinks(t, Scrub(t)) /\ Shrinks(u, ShowBackground(u))
  BY <1>3, <1>4, ShrinkScrub, ShrinkShowBackground
<1>6. Shrinks(deff, Scrub(t)) /\ Shrinks(deff, ShowBackground(u))
  BY <1>2, <1>3, <1>4, <1>5, ShrinksOn
<1>7. Keeps(deff, deff')
  BY <1>1, <1>3, <1>6, ShrinksKeeps
<1> QED BY <1>7 DEF Wakes

LEMMA BonusKeeps ==
  ASSUME DeffInv, EndBall \/ BonusEntered \/ BonusDone
  PROVE  Keeps(deff, deff') /\ sinceScrub' = sinceScrub
<1>0. Good(deff) /\ Keeps(deff, deff)
  BY DEF DeffInv, Keeps
<1>1. CASE EndBall
  BY <1>0, <1>1, ShrinkDrop, ShrinksKeeps DEF EndBall
<1>2. CASE BonusEntered
  BY <1>0, <1>2, EmptiedKeeps DEF BonusEntered
<1>3. CASE BonusDone
  BY <1>0, <1>3 DEF BonusDone
<1> QED BY <1>1, <1>2, <1>3

-----------------------------------------------------------------------------
(* What the steps do to the timeouts.                                      *)
LEMMA KeptFresh ==
  ASSUME NEW s, NEW t, Keeps(s, t), s.queue \in Queues, t.queue \in Queues, NEW n,
         Fresh(s.queue, n)
  PROVE  /\ Fresh(t.queue, n)
         /\ \A i \in Expired(s.queue) : i \in Expired(t.queue) \/ t.queue[i] = Empty
  BY DEF Keeps, Fresh, Expired, Queued, Empty

LEMMA AgedFresh ==
  ASSUME NEW q \in Queues, NEW n \in 0 .. ScrubEvery, n < ScrubEvery, Fresh(q, n)
  PROVE  /\ Fresh(Aged(q), n + 1)
         /\ \A i \in Expired(q) : i \in Expired(Aged(q))
<1>1. ASSUME NEW x \in 0 .. Wrap - 1
      PROVE  (x - 1) % Wrap = IF x = 0 THEN Wrap - 1 ELSE x - 1
  BY SMTT(40), TimeAssumption DEF Wrap
<1>2. ASSUME NEW i \in Queued(q)
      PROVE  /\ Aged(q)[i].id = q[i].id
             /\ Aged(q)[i].due = (q[i].due - 1) % Wrap
             /\ q[i].due \in 0 .. Wrap - 1
  BY DEF Aged, Queued, Queues, Entry
<1>3. ASSUME NEW i \in Slots, i \notin Queued(q) PROVE i \notin Queued(Aged(q))
  BY <1>3 DEF Aged, Queued, Empty
<1>4. Queued(Aged(q)) = Queued(q)
  BY <1>2, <1>3 DEF Queued
<1>5. ASSUME NEW i \in Queued(q)
      PROVE  /\ Aged(q)[i].due < Half \/ Aged(q)[i].due >= Wrap - (n + 1)
             /\ q[i].due >= Half => Aged(q)[i].due >= Half
  <2> DEFINE x == q[i].due
             y == Aged(q)[i].due
  <2>1. x \in 0 .. Wrap - 1 /\ y = IF x = 0 THEN Wrap - 1 ELSE x - 1
    BY <1>1, <1>2
  <2>2. x < Half \/ x >= Wrap - n
    BY DEF Fresh
  <2> HIDE DEF x, y
  <2>3. (y < Half \/ y >= Wrap - (n + 1)) /\ (x >= Half => y >= Half)
    BY <2>1, <2>2, TimeAssumption DEF Wrap
  <2> QED BY <2>3 DEF x, y
<1> QED BY <1>4, <1>5 DEF Fresh, Expired

TimedOutStays(q, r) == \A i \in Expired(q) : i \in Expired(r) \/ r[i] = Empty

LEMMA TimeoutsStep ==
  ASSUME TimeoutsInv, Next
  PROVE  TimeoutsInv' /\ TimedOutStays(deff.queue, deff'.queue)
<1>0. DeffInv /\ DeffInv'
  BY NextInv DEF TimeoutsInv
<1>q. deff.queue \in Queues /\ deff'.queue \in Queues
  BY <1>0, QueueOf DEF DeffInv
<1>1. ASSUME Keeps(deff, deff'), sinceScrub' = sinceScrub
      PROVE  Fresh(deff'.queue, sinceScrub') /\ TimedOutStays(deff.queue, deff'.queue)
  BY <1>q, <1>1, KeptFresh DEF TimeoutsInv, TimedOutStays
<1>2. CASE IdleEveryTenSeconds
  <2>1. Good(deff) /\ sinceScrub' = 0 /\ deff' = Scrub(deff)
    BY <1>0, <1>2 DEF IdleEveryTenSeconds, DeffInv
  <2>2. deff'.queue = Scrubbed(deff.queue)
    BY <2>1 DEF Scrub, Good, Driver
  <2>3. Fresh(deff'.queue, sinceScrub')
    <3>1. ASSUME NEW i \in Queued(deff'.queue) PROVE deff'.queue[i].due < Half
      <4>1. i \in Queued(deff.queue) /\ i \notin Expired(deff.queue) /\ deff'.queue[i] = deff.queue[i]
        BY <2>2 DEF Scrubbed, Drop, Queued, Empty
      <4>2. deff.queue[i].due \in Nat /\ Half \in Nat
        BY <1>q, <4>1, TimeAssumption DEF Queues, Queued, Entry, Wrap
      <4> QED BY <4>1, <4>2 DEF Expired
    <3> QED BY <3>1 DEF Fresh
  <2>4. TimedOutStays(deff.queue, deff'.queue)
    BY <2>2 DEF Scrubbed, Drop, TimedOutStays, Expired, Queued
  <2> QED BY <1>0, <2>3, <2>4 DEF TimeoutsInv
<1>3. CASE Tick
  <2>1. /\ sinceScrub \in 0 .. ScrubEvery /\ sinceScrub < ScrubEvery
        /\ sinceScrub' = sinceScrub + 1 /\ deff'.queue = Aged(deff.queue)
    BY <1>0, <1>3 DEF Tick, DeffInv, Good, Driver
  <2>2. Fresh(deff'.queue, sinceScrub')
    BY <1>q, <2>1, AgedFresh DEF TimeoutsInv
  <2>3. TimedOutStays(deff.queue, deff'.queue)
    BY <1>q, <2>1, AgedFresh DEF TimeoutsInv, TimedOutStays
  <2> QED BY <1>0, <2>2, <2>3 DEF TimeoutsInv
<1>4. CASE ConditionsChange
  <2>1. Keeps(deff, deff') /\ sinceScrub' = sinceScrub
    BY <1>4 DEF ConditionsChange, Keeps
  <2> QED BY <1>0, <1>1, <2>1 DEF TimeoutsInv
<1>5. CASE ~ (IdleEveryTenSeconds \/ Tick \/ ConditionsChange)
  <2>1. Keeps(deff, deff') /\ sinceScrub' = sinceScrub
    BY <1>0, <1>5, CallsKeep, ExitKeeps, WakesKeeps, BonusKeeps DEF Next
  <2> QED BY <1>0, <1>1, <2>1 DEF TimeoutsInv
<1> QED BY <1>2, <1>3, <1>4, <1>5

LEMMA TimeoutsInvariance == Spec => []TimeoutsInv
<1>1. Init => TimeoutsInv
  BY InitInv DEF Init, TimeoutsInv, Fresh, Queued, NoQueue, Empty
<1>2. TimeoutsInv /\ [Next]_vars => TimeoutsInv'
  <2>1. CASE UNCHANGED vars
    BY <2>1 DEF vars, TimeoutsInv, DeffInv
  <2> QED BY <2>1, TimeoutsStep
<1> QED BY <1>1, <1>2, PTL DEF Spec

(* An entry of deff_queue that timed out stays so until it is freed: no    *)
(* way through the driver lets the 16-bit clock revive it, whenever the    *)
(* idle scan comes at least every ScrubEvery <= Half.                      *)
THEOREM TimedOutForGood == Spec => ExpiredStaysExpired
<1>1. TimeoutsInv /\ [Next]_vars =>
        [\A i \in Expired(deff.queue) :
           i \in Expired(deff'.queue) \/ deff'.queue[i] = Empty]_vars
  BY TimeoutsStep DEF TimedOutStays
<1> QED BY <1>1, TimeoutsInvariance, PTL DEF Spec, ExpiredStaysExpired
=============================================================================
