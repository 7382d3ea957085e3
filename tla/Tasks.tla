------------------------------- MODULE Tasks -------------------------------
(***************************************************************************)
(* The task layer of FreeWPC on the 6809: cpu/m6809/task.c (the table of   *)
(* blocks, the round-robin dispatcher, group and duration kills, the       *)
(* moving tail) and kernel/task.c (create-once and recreate).              *)
(*                                                                         *)
(* Tasks are not preempted by tasks: between two sleeps a task owns the    *)
(* CPU, so one call of the task API is one action.  The clock interrupt    *)
(* advances sys_time at any moment (Tick), between two iterations of the   *)
(* dispatcher loop as well.                                                *)
(*                                                                         *)
(* The 16-bit clock is kept relative: the field due is wakeup - sys_time    *)
(* modulo 2 * Half, and time_reached_p tests its top bit, due >= Half.     *)
(***************************************************************************)
EXTENDS Integers, FiniteSets

CONSTANTS
  ChunkSize,      \* TASK_CHUNK_SIZE, by how much the tail moves
  NumChunks,      \* the table has NUM_TASKS = NumChunks * ChunkSize blocks
  FreeChunkSize,  \* TASK_FREE_CHUNK_SIZE, free blocks needed to rewind it
  Gids,           \* group ids a caller may use
  FirstGid,       \* GID_FIRST_TASK
  Lifetimes,      \* durations a caller may give a task, sets of Flags
  Expiries,       \* sets of Flags that expire, or are taken from a task
  Half,           \* 0x8000, half the range of the clock
  MaxSleep,       \* bound: the longest sleep a caller asks for, in ticks
  MaxPass,        \* bound: clock ticks during one pass over the table
  MallocEnabled   \* CONFIG_MALLOC: malloc() takes blocks of the same table

Flags    == {"live", "ball", "game", "test"}
NumTasks == NumChunks * ChunkSize
Blocks   == 0 .. NumTasks - 1
NoTask   == -1                        \* task_current = 0
Wrap     == 2 * Half
Tails    == {n * ChunkSize : n \in 1 .. NumChunks}

ASSUME TableAssumption ==
  /\ ChunkSize \in Nat /\ ChunkSize >= 2
  /\ NumChunks \in Nat \ {0}
  /\ FreeChunkSize \in Nat /\ FreeChunkSize >= ChunkSize
  /\ FirstGid \in Gids
  /\ Lifetimes \subseteq SUBSET Flags
  /\ Expiries \subseteq SUBSET Flags
  /\ MallocEnabled \in BOOLEAN

ASSUME ClockAssumption ==
  /\ MaxSleep \in Nat /\ MaxPass \in Nat \ {0} /\ Half \in Nat
  /\ MaxSleep < Half
  /\ 2 * MaxPass < Half

Infinite == {}                        \* TASK_DURATION_INF
Ball     == {"live", "ball"}          \* TASK_DURATION_BALL

(* A block: the fields of one that is not a task are never read, and have  *)
(* the same value in all of them.                                          *)
Block   == [state : {"free", "ready", "blocked", "malloc"}, gid : Gids,
            duration : SUBSET Flags, due : 0 .. Wrap - 1]
Free    == [state |-> "free", gid |-> FirstGid, duration |-> Infinite, due |-> 0]
Malloc  == [Free EXCEPT !.state = "malloc"]
NewTask(g, d) == [state |-> "ready", gid |-> g, duration |-> d, due |-> 0]

VARIABLES
  block,         \* task_buffer
  task_tail,     \* blocks at or beyond it are not scanned
  task_current,  \* the running task, NoTask in the dispatcher
  tp,            \* the dispatcher's scan position
  pc,            \* what the CPU is doing
  elapsed        \* ticks since last_dispatch_time

vars == <<block, task_tail, task_current, tp, pc, elapsed>>

Used(b)    == block[b].state # "free"
IsTask(b)  == block[b].state \in {"ready", "blocked"}
Scanned    == {b \in Blocks : b < task_tail}
Reached(b) == block[b].due >= Half                 \* time_reached_p

-----------------------------------------------------------------------------
(* Variants of the code, wrong ones, are named ...Bug: none is used below.  *)
(* block_allocate: the first free block below the tail, else the block at  *)
(* the tail, which the code takes without looking at its state.  The table *)
(* t is the one left by the kills that precede the allocation.             *)

FreeIn(t) == {b \in Scanned : t[b].state = "free"}

Allocate(t, new) ==
  \/ \E b \in FreeIn(t) :
       /\ \A c \in FreeIn(t) : b <= c
       /\ block' = [t EXCEPT ![b] = new]
       /\ UNCHANGED task_tail
  \/ /\ FreeIn(t) = {}
     /\ task_tail < NumTasks
     /\ block' = [t EXCEPT ![task_tail] = new]
     /\ task_tail' = task_tail + ChunkSize

(* A full table is fatal (ERR_NO_FREE_TASKS, ERR_MALLOC).                  *)
AllocateOrDie(t, new) ==
  \/ Allocate(t, new) /\ UNCHANGED pc
  \/ /\ FreeIn(t) = {} /\ task_tail = NumTasks
     /\ block' = t
     /\ pc' = "fatal"
     /\ UNCHANGED task_tail

(* task_create_gid, and task_set_duration right after it.                  *)
CreateIn(t, g, d) == AllocateOrDie(t, NewTask(g, d))

Without(K) == [b \in Blocks |-> IF b \in K THEN Free ELSE block[b]]

(* task_find_gid sees every task below the tail, the running one included; *)
(* task_kill_gid spares the running one.                                   *)
Group(g)       == {b \in Scanned : IsTask(b) /\ block[b].gid = g}
KilledByGidBug(g) == Group(g)
KilledByGid(g) == Group(g) \ {task_current}

-----------------------------------------------------------------------------
(* The API, called by the running task or by a periodic function.          *)

InCode == pc \in {"run", "periodic"}

TaskCreateGid(g, d) ==
  /\ InCode
  /\ CreateIn(block, g, d)
  /\ UNCHANGED <<task_current, tp, elapsed>>

TaskCreateGid1(g, d) ==
  /\ InCode
  /\ Group(g) = {}
  /\ CreateIn(block, g, d)
  /\ UNCHANGED <<task_current, tp, elapsed>>

TaskRecreateGid(g, d) ==
  /\ InCode
  /\ CreateIn(Without(KilledByGid(g)), g, d)
  /\ UNCHANGED <<task_current, tp, elapsed>>

TaskKillGid(g) ==
  /\ InCode
  /\ block' = Without(KilledByGid(g))
  /\ UNCHANGED <<task_tail, task_current, tp, pc, elapsed>>

(* task_duration_expire walks the table upwards; killing the running task  *)
(* is fatal, and the blocks below it are already gone by then.             *)
Expiring(cond) == {b \in Scanned : IsTask(b) /\ block[b].duration \cap cond # {}}

TaskDurationExpire(cond) ==
  /\ InCode
  /\ IF task_current \in Expiring(cond)
       THEN /\ block' = Without({b \in Expiring(cond) : b < task_current})
            /\ pc' = "fatal"
       ELSE /\ block' = Without(Expiring(cond))
            /\ UNCHANGED pc
  /\ UNCHANGED <<task_tail, task_current, tp, elapsed>>

TaskSetGid(g) ==
  /\ pc = "run"
  /\ block' = [block EXCEPT ![task_current].gid = g]
  /\ UNCHANGED <<task_tail, task_current, tp, pc, elapsed>>

TaskRemoveDuration(cond) ==
  /\ pc = "run"
  /\ block' = [block EXCEPT ![task_current].duration = @ \ cond]
  /\ UNCHANGED <<task_tail, task_current, tp, pc, elapsed>>

EnterDispatcherBug ==
  /\ tp' = 0
  /\ task_current' = NoTask
  /\ pc' = "scan"

(* Both end in task_dispatcher, which scans from the next block on.        *)
EnterDispatcher ==
  /\ tp' = task_current + 1
  /\ task_current' = NoTask
  /\ pc' = "scan"

TaskSleep(ticks) ==
  /\ pc = "run"
  /\ block' = [block EXCEPT ![task_current].state = "blocked",
                            ![task_current].due = ticks]
  /\ EnterDispatcher
  /\ UNCHANGED <<task_tail, elapsed>>

TaskExit ==
  /\ pc = "run"
  /\ block' = [block EXCEPT ![task_current] = Free]
  /\ EnterDispatcher
  /\ UNCHANGED <<task_tail, elapsed>>

(* The task_chunk handler of amode_start and end_ball counts the free      *)
(* blocks going down from the tail, never looking at the first ChunkSize+1 *)
(* blocks, and takes chunks off the tail while FreeChunkSize are left.     *)
FreeRun(n) ==
  LET low == task_tail - 1 - n
  IN  /\ \A b \in Scanned : b > low => ~Used(b)
      /\ low = ChunkSize \/ (low > ChunkSize /\ Used(low))

TaskChunkBug ==
  /\ pc = "run"
  /\ task_tail > ChunkSize
  /\ \E n \in FreeChunkSize .. NumTasks : FreeRun(n)
  /\ task_tail' = ChunkSize
  /\ UNCHANGED <<block, task_current, tp, pc, elapsed>>

TaskChunk ==
  /\ pc = "run"
  /\ task_tail > ChunkSize
  /\ \E n \in 0 .. NumTasks, k \in 0 .. NumChunks :
       /\ FreeRun(n)
       /\ n - k * ChunkSize < FreeChunkSize
       /\ k > 0 => n - (k - 1) * ChunkSize >= FreeChunkSize
       /\ task_tail' = task_tail - k * ChunkSize
  /\ UNCHANGED <<block, task_current, tp, pc, elapsed>>

(* malloc() shares the table when CONFIG_MALLOC is set: it takes a block   *)
(* for a chunk of its own (chunk_allocate).  free() leaves the block there *)
(* until malloc_collect_task finds the whole chunk free.                   *)
MallocBlock ==
  /\ MallocEnabled
  /\ pc = "run"
  /\ AllocateOrDie(block, Malloc)
  /\ UNCHANGED <<task_current, tp, elapsed>>

FreeMalloc(b) ==
  /\ MallocEnabled
  /\ pc = "run"
  /\ block[b].state = "malloc"
  /\ block' = [block EXCEPT ![b] = Free]
  /\ UNCHANGED <<task_tail, task_current, tp, pc, elapsed>>

-----------------------------------------------------------------------------
(* task_dispatcher, one action per branch of an iteration of its loop.     *)

AsleepBug(b) == block[b].state = "blocked" /\ block[b].due # 0
Asleep(b) == block[b].state = "blocked" /\ ~Reached(b)

(* The scan skips a free block and a task whose time has not been reached. *)
DispatchSkip ==
  /\ pc = "scan"
  /\ tp # task_tail
  /\ ~Used(tp) \/ Asleep(tp)
  /\ tp' = tp + 1
  /\ UNCHANGED <<block, task_tail, task_current, pc, elapsed>>

(* Any other block with BLOCK_USED set is restored: a malloc block, too.   *)
DispatchRestore ==
  /\ pc = "scan"
  /\ tp # task_tail
  /\ Used(tp) /\ ~Asleep(tp)
  /\ task_current' = tp
  /\ IF IsTask(tp)
       THEN /\ block' = [block EXCEPT ![tp].state = "ready", ![tp].due = 0]
            /\ pc' = "run"
       ELSE /\ pc' = "weeds"
            /\ UNCHANGED block
  /\ UNCHANGED <<task_tail, tp, elapsed>>

DispatchEnd ==
  /\ pc = "scan"
  /\ tp = task_tail
  /\ pc' = "periodic"
  /\ UNCHANGED <<block, task_tail, task_current, tp, elapsed>>

(* do_periodic returns, and the dispatcher idles until the clock moves.    *)
PeriodicDone ==
  /\ pc = "periodic"
  /\ pc' = "idle"
  /\ UNCHANGED <<block, task_tail, task_current, tp, elapsed>>

DispatchRewind ==
  /\ pc = "idle"
  /\ elapsed > 0
  /\ elapsed' = 0
  /\ tp' = 0
  /\ pc' = "scan"
  /\ UNCHANGED <<block, task_tail, task_current>>

(* advance_time_rtt: the clock moves for every waiting task.               *)
Aged(x) == IF x.state = "blocked" THEN [x EXCEPT !.due = (@ - 1) % Wrap] ELSE x

Tick ==
  /\ pc # "fatal"
  /\ elapsed < MaxPass
  /\ elapsed' = elapsed + 1
  /\ block' = [b \in Blocks |-> Aged(block[b])]
  /\ UNCHANGED <<task_tail, task_current, tp, pc>>

(* fatal() ends in warm_reboot; a task in the weeds is caught by the       *)
(* lockup check, which calls fatal().                                      *)
Lockup ==
  /\ pc = "weeds"
  /\ pc' = "fatal"
  /\ UNCHANGED <<block, task_tail, task_current, tp, elapsed>>

(* task_init makes a task of the booting thread.                           *)
BootBlocks == [b \in Blocks |-> IF b = 0 THEN NewTask(FirstGid, Ball) ELSE Free]

Init ==
  /\ block = BootBlocks
  /\ task_tail = ChunkSize
  /\ task_current = 0 /\ tp = 0 /\ pc = "run" /\ elapsed = 0

Reboot ==
  /\ pc = "fatal"
  /\ block' = BootBlocks
  /\ task_tail' = ChunkSize
  /\ task_current' = 0 /\ tp' = 0 /\ pc' = "run" /\ elapsed' = 0

-----------------------------------------------------------------------------
Api ==
  \/ \E g \in Gids, d \in Lifetimes :
       TaskCreateGid(g, d) \/ TaskCreateGid1(g, d) \/ TaskRecreateGid(g, d)
  \/ \E g \in Gids : TaskKillGid(g) \/ TaskSetGid(g)
  \/ \E c \in Expiries : TaskDurationExpire(c) \/ TaskRemoveDuration(c)
  \/ TaskChunk
  \/ MallocBlock
  \/ \E b \in Blocks : FreeMalloc(b)

Suspend == TaskExit \/ \E n \in 0 .. MaxSleep : TaskSleep(n)

Dispatcher == DispatchSkip \/ DispatchRestore \/ DispatchEnd \/ PeriodicDone \/ DispatchRewind

Next == Api \/ Suspend \/ Dispatcher \/ Tick \/ Lockup \/ Reboot

Spec == Init /\ [][Next]_vars

(* A task gives up the CPU (a task that does not is a lockup), the         *)
(* dispatcher is the only other code, and the clock interrupt never stops. *)
Fairness == WF_vars(Suspend) /\ WF_vars(Dispatcher) /\ WF_vars(Tick)
            /\ WF_vars(Lockup) /\ WF_vars(Reboot)

FairSpec == Spec /\ Fairness

-----------------------------------------------------------------------------
TypeOK ==
  /\ block \in [Blocks -> Block]
  /\ task_tail \in Tails
  /\ task_current \in Blocks \cup {NoTask}
  /\ tp \in 0 .. NumTasks
  /\ pc \in {"run", "scan", "periodic", "idle", "weeds", "fatal"}
  /\ elapsed \in 0 .. MaxPass

(* No block at or beyond the tail is in use: block_allocate takes the      *)
(* block at the tail unseen ("it must be free"), and a task left beyond a  *)
(* rewound tail would never be scanned, found or killed again.             *)
TailCoversAllocated == \A b \in Blocks : b >= task_tail => ~Used(b)

(* The dispatcher compares tp with the tail for equality only: a scan      *)
(* position beyond a tail that was rewound by the task that just ran would *)
(* run off the table.  The running task is always a block of the scanned   *)
(* part, in use and not asleep: no kill, expiry or rewind takes it away.   *)
ScanInsideTable ==
  /\ pc = "scan" => tp <= task_tail
  /\ pc = "run" => task_current \in Scanned /\ block[task_current].state = "ready"

(* A sleeping task whose wakeup time has been reached stays so until it is *)
(* dispatched or killed: the 16-bit clock never wraps past it.             *)
WakeupKept ==
  \A b \in Blocks :
    block[b].state = "blocked" /\ Reached(b) /\ block'[b].state = "blocked" => Reached(b)'

WakeupNotLost == [][WakeupKept]_vars

(* Round robin starves nobody: a task is run, killed, or the system is     *)
(* restarted.                                                              *)
NoStarvation ==
  \A b \in Blocks : IsTask(b) ~> (task_current = b \/ ~IsTask(b) \/ pc = "fatal")
=============================================================================
