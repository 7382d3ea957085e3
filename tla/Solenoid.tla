------------------------------ MODULE Solenoid ------------------------------
(***************************************************************************)
(* The shared solenoid driver, kernel/sol.c: one coil is pulsed at a time. *)
(* A task that calls sol_request waits for the driver, holds req_lock for  *)
(* the time of its pulse, and gives it back; sol_request_async starts a    *)
(* pulse at once or leaves it in a ring for idle_every_100ms.  The pulse   *)
(* is timed, and its end reported in req_lock, by an interrupt.            *)
(***************************************************************************)
EXTENDS Naturals, Sequences

CONSTANTS
  Sols,        \* the coils behind the shared driver
  NoSol,       \* sol_pulsing before the first pulse, and an unused ring slot
  PulseTicks,  \* the length of a pulse, in calls of sol_req_rtt
  QueueLen,    \* SOL_REQ_QUEUE_LEN
  Kills        \* whether a task may be killed inside sol_request

ASSUME SolenoidAssumption ==
  /\ Sols \subseteq 0 .. 126 /\ NoSol \notin Sols
  /\ PulseTicks \in Nat \ {0}
  /\ QueueLen \in Nat \ {0}
  /\ Kills \in BOOLEAN

VARIABLES
  req_lock,         \* Free, Done, or Held by the task that pulses a coil
  sol_pulse_timer,
  sol_pulsing,
  user,             \* for each coil, where the task that requests it is
  elems, head, tail \* sol_req_queue

pulse == <<sol_pulse_timer, sol_pulsing>>
ring  == <<elems, head, tail>>
vars  == <<req_lock, pulse, user, ring>>

Free    == 0
Done    == 128                        \* 0x80
Held(s) == 128 + s + 1                \* (sol + 1) | 0x80

(* Variants of the code, wrong ones, are named ...Bug: none is used below.  *)

Slots == 0 .. QueueLen - 1
After(i) == (i + 1) % QueueLen

(* The pulses in the ring, the oldest first.                               *)
Pending == [i \in 1 .. (tail - head) % QueueLen |-> elems[(head + i - 1) % QueueLen]]

Init ==
  /\ req_lock = Free /\ sol_pulse_timer = 0 /\ sol_pulsing = NoSol
  /\ user = [s \in Sols |-> "none"]
  /\ elems = [i \in Slots |-> NoSol] /\ head = 0 /\ tail = 0

-----------------------------------------------------------------------------
(* sol_req_start, with the driver idle.                                    *)
Start(s) ==
  /\ sol_pulsing' = s
  /\ sol_pulse_timer' = PulseTicks

BusyBug == sol_pulse_timer # 0
Busy == req_lock # Free \/ sol_pulse_timer # 0

(* sol_request finds the driver busy and sleeps in sol_alloc.              *)
SolAllocWaits(s) ==
  /\ user[s] = "none"
  /\ Busy
  /\ user' = [user EXCEPT ![s] = "alloc"]
  /\ UNCHANGED <<req_lock, pulse, ring>>

(* sol_alloc takes the lock, at once or after a sleep, and the pulse is    *)
(* started before the next sleep, the one of sol_free.                     *)
SolAlloc(s) ==
  /\ user[s] \in {"none", "alloc"}
  /\ ~Busy
  /\ req_lock' = Held(s)
  /\ Start(s)
  /\ user' = [user EXCEPT ![s] = "free"]
  /\ UNCHANGED ring

SolFreeBug(s) ==
  /\ user[s] = "free"
  /\ req_lock = Free
  /\ user' = [user EXCEPT ![s] = "none"]
  /\ UNCHANGED <<req_lock, pulse, ring>>

SolFree(s) ==
  /\ user[s] = "free"
  /\ req_lock = Done
  /\ req_lock' = Free
  /\ user' = [user EXCEPT ![s] = "none"]
  /\ UNCHANGED <<pulse, ring>>

(* The task dies in one of the two sleeps (task_kill_gid, the end of the   *)
(* ball): nothing is released.                                             *)
KillUser(s) ==
  /\ Kills
  /\ user[s] # "none"
  /\ user' = [user EXCEPT ![s] = "none"]
  /\ UNCHANGED <<req_lock, pulse, ring>>

SolRequestAsync(s) ==
  /\ sol_pulse_timer = 0
  /\ Start(s)
  /\ UNCHANGED <<req_lock, user, ring>>

QueueInsertBug(s) ==
  /\ sol_pulse_timer # 0
  /\ elems' = [elems EXCEPT ![After(tail)] = s]
  /\ tail' = After(tail)
  /\ UNCHANGED <<req_lock, pulse, user, head>>

(* queue_insert does not look whether the ring is full.                    *)
QueueInsert(s) ==
  /\ sol_pulse_timer # 0
  /\ elems' = [elems EXCEPT ![tail] = s]
  /\ tail' = After(tail)
  /\ UNCHANGED <<req_lock, pulse, user, head>>

(* idle_every_100ms.                                                       *)
QueueRemove ==
  /\ sol_pulse_timer = 0 /\ head # tail
  /\ Start(elems[head])
  /\ head' = After(head)
  /\ elems' = [elems EXCEPT ![head] = NoSol]
  /\ UNCHANGED <<req_lock, user, tail>>

(* sol_req_rtt: the last tick of any pulse marks a held lock.              *)
SolReqRtt ==
  /\ sol_pulse_timer # 0
  /\ sol_pulse_timer' = sol_pulse_timer - 1
  /\ req_lock' = IF sol_pulse_timer = 1 /\ req_lock # Free THEN Done ELSE req_lock
  /\ UNCHANGED <<sol_pulsing, user, ring>>

-----------------------------------------------------------------------------
Sync == \E s \in Sols : SolAllocWaits(s) \/ SolAlloc(s) \/ SolFree(s) \/ KillUser(s)

Async == (\E s \in Sols : SolRequestAsync(s) \/ QueueInsert(s)) \/ QueueRemove

Next == Sync \/ Async \/ SolReqRtt

Spec == Init /\ [][Next]_vars

(* The interrupt never stops, and a task that lives wakes from its sleep.  *)
Fairness == WF_vars(SolReqRtt) /\ \A s \in Sols : WF_vars(SolFree(s))

FairSpec == Spec /\ Fairness

-----------------------------------------------------------------------------
TypeOK ==
  /\ req_lock \in {Held(s) : s \in Sols} \cup {Free, Done}
  /\ sol_pulse_timer \in 0 .. PulseTicks
  /\ sol_pulsing \in Sols \cup {NoSol}
  /\ user \in [Sols -> {"none", "alloc", "free"}]
  /\ elems \in [Slots -> Sols \cup {NoSol}]
  /\ head \in Slots /\ tail \in Slots

(* A synchronous request has the driver to itself: no second task is past  *)
(* sol_alloc, and what it waits for in sol_free is the end of the pulse it *)
(* started, never that of a pulse somebody else slipped in.                *)
SyncExclusive ==
  \A s \in Sols : user[s] = "free" =>
    /\ \A t \in Sols \ {s} : user[t] # "free"
    /\ req_lock \in {Held(s), Done}
    /\ req_lock = Held(s) => sol_pulse_timer # 0 /\ sol_pulsing = s

(* Deferred pulses are neither reordered nor repeated: a step adds one at  *)
(* the end, or takes the oldest and starts it.  The one exception is an    *)
(* insertion in a full ring, which loses all of them.                      *)
Deferred ==
  \/ Pending' = Pending
  \/ \E s \in Sols : Pending' = Append(Pending, s)
  \/ Pending # <<>> /\ Pending' = Tail(Pending) /\ sol_pulsing' = Head(Pending)
  \/ Len(Pending) = QueueLen - 1 /\ Pending' = <<>>

DeferredInOrder == [][Deferred]_vars

(* A task that has started its pulse is not kept in sol_free for ever,     *)
(* whatever other tasks start, defer or leave behind when they are killed. *)
PulseWaitEnds == \A s \in Sols : user[s] = "free" ~> user[s] = "none"
=============================================================================
