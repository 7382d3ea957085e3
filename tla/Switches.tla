------------------------------ MODULE Switches ------------------------------
(***************************************************************************)
(* Switch input: the 2ms interrupt scan of the matrix                      *)
(* (platform/wpc/wpc-switch.c) and the debouncing of its results by        *)
(* switch_periodic (kernel/switches.c), which the interrupt preempts       *)
(* everywhere but in the rtt_disable sections.                             *)
(*                                                                         *)
(* A bit matrix is the set of the switches whose bit is on.  Switches are  *)
(* numbers, so that "the next bit" is the least one left.                  *)
(***************************************************************************)
EXTENDS Integers, Sequences, FiniteSets

CONSTANTS
  Columns,      \* the sets of switches of columns 0, 1, ...
  Rows,         \* the sets of switches of columns 0-7 that share a row
  ShortColumns, \* the sets of switches of the columns checked for a short
  Opto,         \* mach_opto_mask: switches that are active when open
  Edge,         \* mach_edge_switches: handled on both transitions
  Debounce,     \* the debounce time of each switch, in ticks
  MaxQueued,    \* MAX_QUEUED_SWITCHES
  TimerHalf,    \* 128: a timer is signed, TimerHalf is half its range
  ShortSeconds, \* 3, the seconds a short disables the scan
  Second,       \* ticks between two idle_every_second events
  MaxPass       \* bound: ticks between two calls of switch_periodic

Switches == UNION {Columns[c] : c \in DOMAIN Columns}
Cabinet  == Columns[1]                \* column 0, the coin door switches
ByteMod  == 2 * TimerHalf

ASSUME MatrixAssumption ==
  /\ Switches \subseteq Nat /\ IsFiniteSet(Switches)
  /\ \A c, d \in DOMAIN Columns : c # d => Columns[c] \cap Columns[d] = {}
  /\ Opto \subseteq Switches /\ Edge \subseteq Switches
  /\ Debounce \in [Switches -> 0 .. TimerHalf - 1]

ASSUME BoundAssumption ==
  /\ MaxQueued \in Nat \ {0} /\ TimerHalf \in Nat \ {0} /\ ShortSeconds \in Nat \ {0}
  /\ Second \in Nat \ {0} /\ MaxPass \in Nat \ {0}

VARIABLES
  sw_raw, sw_edge, sw_stable, sw_unstable,  \* written by the interrupt
  sw_logical,      \* the debounced levels
  sw_queued,       \* the switches in the queue
  switch_queue,    \* the pending switches, each with its timer
  handlers,        \* switches with a GID_SW_HANDLER task still to run
  sw_short_timer,  \* seconds left to ignore a shorted matrix
  boot,            \* "boot", "scan" from sys_init_complete on, "up" in the end
  since,           \* get_elapsed_time (switch_last_service_time), a byte
  clock,           \* ticks since the last idle_every_second
  pc,              \* where switch_periodic is, "out" outside it
  entry,           \* the queue entry, or the column, it has come to
  rows,            \* the byte of the matrix it has read
  elapsed,         \* elapsed_time
  differed         \* history: readings in a row that differ from sw_logical,
                   \* counted to 2, since the level last changed

inputs == <<sw_raw, sw_edge, sw_stable, sw_unstable, differed>>
local  == <<pc, entry, rows, elapsed>>
time   == <<sw_short_timer, boot, since, clock>>
vars   == <<inputs, sw_logical, sw_queued, switch_queue, handlers, time, local>>

SymDiff(S, T) == (S \ T) \cup (T \ S)
Active(level) == SymDiff(level, Opto)              \* switch_poll_logical
Ids(q)        == {q[i].id : i \in DOMAIN q}

-----------------------------------------------------------------------------
(* Variants of the code, wrong ones, are named ...Bug: none is used below.  *)

(* switch_rowpoll for every column, in one interrupt.                      *)
Poll(level) ==
  LET differs == SymDiff(level, sw_logical)
      stable  == sw_stable \cup (differs \cap sw_edge)
  IN  /\ sw_raw' = level
      /\ sw_edge' = differs
      /\ sw_stable' = stable
      /\ sw_unstable' = sw_unstable \cup (stable \ differs)
      /\ differed' = [s \in Switches |->
                        IF s \notin differs THEN 0 ELSE IF differed[s] = 0 THEN 1 ELSE 2]
      /\ UNCHANGED <<sw_logical, sw_queued, switch_queue, handlers, time, local>>

-----------------------------------------------------------------------------
(* switch_transitioned: the critical section, and the handler task.        *)
TransitionedBug(s) ==
  /\ sw_logical' = SymDiff(sw_logical, {s})
  /\ sw_stable' = sw_stable \ {s}
  /\ sw_unstable' = sw_unstable \ {s}
  /\ differed' = [differed EXCEPT ![s] = 0]
  /\ handlers' = IF s \in Active(sw_logical') \cup Edge THEN handlers \cup {s} ELSE handlers
  /\ UNCHANGED <<sw_raw, sw_edge>>

Transitioned(s) ==
  /\ sw_logical' = SymDiff(sw_logical, {s})
  /\ sw_stable' = sw_stable \ {s}
  /\ sw_unstable' = sw_unstable \ {s}
  /\ sw_edge' = sw_edge \ {s}
  /\ differed' = [differed EXCEPT ![s] = 0]
  /\ handlers' = IF s \in Active(sw_logical') \cup Edge THEN handlers \cup {s} ELSE handlers
  /\ UNCHANGED sw_raw

(* The task runs, and what the event means is the rest of the system's.    *)
RunHandler(s) ==
  /\ s \in handlers
  /\ pc = "out"
  /\ handlers' = handlers \ {s}
  /\ UNCHANGED <<inputs, sw_logical, sw_queued, switch_queue, time, local>>

(* Before sys_init_complete, column 0 is copied: a load, then a store.     *)
EarlyLoad ==
  /\ pc = "out" /\ sw_short_timer = 0 /\ boot = "boot"
  /\ rows' = sw_raw \cap Cabinet
  /\ pc' = "early"
  /\ UNCHANGED <<inputs, sw_logical, sw_queued, switch_queue, handlers, time, entry, elapsed>>

EarlyStore ==
  /\ pc = "early"
  /\ sw_logical' = (sw_logical \ Cabinet) \cup rows
  /\ differed' = [s \in Switches |->
                    IF s \in SymDiff(sw_logical, sw_logical') THEN 0 ELSE differed[s]]
  /\ pc' = "out" /\ rows' = {}
  /\ UNCHANGED <<sw_raw, sw_edge, sw_stable, sw_unstable, sw_queued, switch_queue,
                 handlers, time, entry, elapsed>>

(* switch_short_detect.                                                    *)
Shorted(level) == \/ \E R \in Rows : R \subseteq level
                  \/ \E C \in ShortColumns : C \subseteq Active(level)

PeriodicBegin ==
  /\ pc = "out" /\ sw_short_timer = 0 /\ boot # "boot"
  /\ sw_short_timer' = IF Shorted(sw_raw) THEN ShortSeconds ELSE 0
  /\ elapsed' = since
  /\ pc' = "service" /\ entry' = 1
  /\ UNCHANGED <<inputs, sw_logical, sw_queued, switch_queue, handlers, boot, since, clock, rows>>

-----------------------------------------------------------------------------
(* switch_service_queue.  A timer is a signed byte.                        *)
Signed(x) == ((x + TimerHalf) % ByteMod) - TimerHalf
TimeLeft  == Signed(switch_queue[entry].timer - elapsed)

InQueue   == pc = "service" /\ entry <= Len(switch_queue)
ThisId    == switch_queue[entry].id

ServiceWait ==
  /\ InQueue
  /\ TimeLeft > 0
  /\ switch_queue' = [switch_queue EXCEPT ![entry].timer = TimeLeft]
  /\ entry' = entry + 1
  /\ UNCHANGED <<inputs, sw_logical, sw_queued, handlers, time, pc, rows, elapsed>>

(* The test of sw_unstable is outside the critical section.                *)
ServiceExpire ==
  /\ InQueue
  /\ TimeLeft <= 0
  /\ pc' = IF ThisId \in sw_unstable THEN "reject" ELSE "latch"
  /\ UNCHANGED <<inputs, sw_logical, sw_queued, switch_queue, handlers, time, entry, rows, elapsed>>

(* switch_queue_remove moves the last entry into the slot.                 *)
QueueRemove ==
  LET last == Len(switch_queue)
  IN  /\ sw_queued' = sw_queued \ {ThisId}
      /\ switch_queue' = SubSeq([switch_queue EXCEPT ![entry] = switch_queue[last]], 1, last - 1)

ServiceRejectBug ==
  /\ pc = "reject"
  /\ sw_stable' = sw_stable \ {ThisId}
  /\ QueueRemove
  /\ pc' = "service"
  /\ UNCHANGED <<sw_raw, sw_edge, sw_unstable, differed, sw_logical, handlers, time,
                 entry, rows, elapsed>>

ServiceReject ==
  /\ pc = "reject"
  /\ sw_stable' = sw_stable \ {ThisId}
  /\ sw_unstable' = sw_unstable \ {ThisId}
  /\ QueueRemove
  /\ pc' = "service"
  /\ UNCHANGED <<sw_raw, sw_edge, differed, sw_logical, handlers, time, entry, rows, elapsed>>

ServiceLatch ==
  /\ pc = "latch"
  /\ Transitioned(ThisId)
  /\ QueueRemove
  /\ pc' = "service"
  /\ UNCHANGED <<time, entry, rows, elapsed>>

ServiceEnd ==
  /\ pc = "service" /\ entry > Len(switch_queue)
  /\ since' = 0
  /\ pc' = "scan" /\ entry' = 1 /\ elapsed' = 0
  /\ UNCHANGED <<inputs, sw_logical, sw_queued, switch_queue, handlers,
                 sw_short_timer, boot, clock, rows>>

-----------------------------------------------------------------------------
(* The loop over the columns: a snapshot of sw_stable, then its bits.      *)
ScanColumn ==
  /\ pc = "scan" /\ entry <= Len(Columns)
  /\ rows' = sw_stable \cap Columns[entry]
  /\ pc' = "bits"
  /\ UNCHANGED <<inputs, sw_logical, sw_queued, switch_queue, handlers, time, entry, elapsed>>

NextBit(s) ==
  /\ pc = "bits"
  /\ s \in rows /\ \A r \in rows : s <= r
  /\ rows' = rows \ {s}
  /\ UNCHANGED <<time, pc, entry, elapsed>>

ScanQueued(s) ==
  /\ NextBit(s)
  /\ s \in sw_queued
  /\ UNCHANGED <<inputs, sw_logical, sw_queued, switch_queue, handlers>>

ScanEnqueueBug(s) ==
  /\ NextBit(s)
  /\ s \notin sw_queued /\ Debounce[s] # 0
  /\ switch_queue' = IF Len(switch_queue) < MaxQueued
                       THEN Append(switch_queue, [id |-> s, timer |-> Debounce[s]])
                       ELSE switch_queue
  /\ sw_queued' = sw_queued \cup {s}
  /\ UNCHANGED <<inputs, sw_logical, handlers>>

(* switch_queue_add drops a switch that finds the queue full; its stable   *)
(* bit brings it back at the next scan.                                    *)
ScanEnqueue(s) ==
  /\ NextBit(s)
  /\ s \notin sw_queued /\ Debounce[s] # 0
  /\ IF Len(switch_queue) < MaxQueued
       THEN /\ switch_queue' = Append(switch_queue, [id |-> s, timer |-> Debounce[s]])
            /\ sw_queued' = sw_queued \cup {s}
       ELSE UNCHANGED <<switch_queue, sw_queued>>
  /\ UNCHANGED <<inputs, sw_logical, handlers>>

ScanLatch(s) ==
  /\ NextBit(s)
  /\ s \notin sw_queued /\ Debounce[s] = 0
  /\ Transitioned(s)
  /\ UNCHANGED <<sw_queued, switch_queue>>

ScanNext ==
  /\ pc = "bits" /\ rows = {}
  /\ pc' = "scan" /\ entry' = entry + 1
  /\ UNCHANGED <<inputs, sw_logical, sw_queued, switch_queue, handlers, time, rows, elapsed>>

PeriodicEnd ==
  /\ pc = "scan" /\ entry > Len(Columns)
  /\ pc' = "out" /\ entry' = 0
  /\ UNCHANGED <<inputs, sw_logical, sw_queued, switch_queue, handlers, time, rows, elapsed>>

-----------------------------------------------------------------------------
(* system_reset starts the scan, sleeps, and throws init_complete.         *)
StartScan ==
  /\ pc = "out" /\ boot = "boot"
  /\ boot' = "scan"
  /\ UNCHANGED <<inputs, sw_logical, sw_queued, switch_queue, handlers,
                 sw_short_timer, since, clock, local>>

InitComplete ==
  /\ pc = "out" /\ boot = "scan"
  /\ boot' = "up"
  /\ since' = 0
  /\ UNCHANGED <<inputs, sw_logical, sw_queued, switch_queue, handlers,
                 sw_short_timer, clock, local>>

(* The clock: the lockup check bounds the time between two passes.         *)
Tick ==
  /\ clock < Second
  /\ boot = "boot" \/ sw_short_timer > 0 \/ since < MaxPass
  /\ since' = (since + 1) % ByteMod
  /\ clock' = clock + 1
  /\ UNCHANGED <<inputs, sw_logical, sw_queued, switch_queue, handlers, sw_short_timer, boot, local>>

EverySecond ==
  /\ pc = "out" /\ clock = Second
  /\ clock' = 0
  /\ sw_short_timer' = IF sw_short_timer > 0 THEN sw_short_timer - 1 ELSE 0
  /\ UNCHANGED <<inputs, sw_logical, sw_queued, switch_queue, handlers, boot, since, local>>

(* switch_init.                                                            *)
Init ==
  /\ sw_raw = Opto /\ sw_logical = Opto
  /\ sw_edge = {} /\ sw_stable = {} /\ sw_unstable = {}
  /\ sw_queued = {} /\ switch_queue = <<>> /\ handlers = {}
  /\ sw_short_timer = 0 /\ boot = "boot" /\ since = 0 /\ clock = 0
  /\ pc = "out" /\ entry = 0 /\ rows = {} /\ elapsed = 0
  /\ differed = [s \in Switches |-> 0]

Irq == \E level \in SUBSET Switches : Poll(level)

Scan == ScanColumn \/ ScanNext \/ \E s \in Switches : ScanQueued(s) \/ ScanEnqueue(s) \/ ScanLatch(s)

Service == ServiceWait \/ ServiceExpire \/ ServiceReject \/ ServiceLatch \/ ServiceEnd

Periodic == EarlyLoad \/ EarlyStore \/ PeriodicBegin \/ Service \/ Scan \/ PeriodicEnd

Boot == StartScan \/ InitComplete

Next == Irq \/ Periodic \/ Boot \/ Tick \/ EverySecond \/ \E s \in Switches : RunHandler(s)

Spec == Init /\ [][Next]_vars

(* The interrupt, which reads the level again when it has not changed, and *)
(* the clock never stop, and not every tick falls in the service loop,     *)
(* which forgets it.  do_periodic runs on every pass of the dispatcher:    *)
(* switch_periodic first, to its end, then the events of the clock.        *)
(* system_reset gets its turn between two passes.                          *)
Fairness == /\ WF_vars(Poll(sw_raw)) /\ WF_vars(Periodic)
            /\ SF_vars(pc = "out" /\ Tick) /\ SF_vars(EverySecond) /\ SF_vars(Boot)

FairSpec == Spec /\ Fairness

-----------------------------------------------------------------------------
TypeOK ==
  /\ sw_raw \subseteq Switches /\ sw_edge \subseteq Switches
  /\ sw_stable \subseteq Switches /\ sw_unstable \subseteq Switches
  /\ sw_logical \subseteq Switches /\ sw_queued \subseteq Switches
  /\ switch_queue \in Seq([id : Switches, timer : 1 - TimerHalf .. TimerHalf - 1])
  /\ handlers \subseteq Switches
  /\ sw_short_timer \in 0 .. ShortSeconds
  /\ boot \in {"boot", "scan", "up"}
  /\ since \in 0 .. ByteMod - 1 /\ elapsed \in 0 .. ByteMod - 1
  /\ clock \in 0 .. Second
  /\ pc \in {"out", "early", "service", "reject", "latch", "scan", "bits"}
  /\ entry \in Nat
  /\ rows \subseteq Switches
  /\ differed \in [Switches -> 0 .. 2]

(* A switch is in the queue once, and sw_queued says which ones are: two   *)
(* entries would toggle its level twice for one transition.                *)
QueueConsistent ==
  /\ sw_queued = Ids(switch_queue)
  /\ Len(switch_queue) <= MaxQueued
  /\ \A i, j \in DOMAIN switch_queue : i # j => switch_queue[i].id # switch_queue[j].id

(* What switch_periodic works on stays latched by the interrupt: a queued  *)
(* or unstable switch, or one still to come in the snapshot of a column,   *)
(* has its stable bit.  An unstable bit without it would reject the next   *)
(* good transition.                                                        *)
PendingIsStable ==
  /\ sw_queued \subseteq sw_stable
  /\ sw_unstable \subseteq sw_stable
  /\ pc = "bits" => rows \subseteq sw_stable

(* A stable switch of the matrix that is not unstable was read, in at      *)
(* least the last two polls, at a level other than its logical one ("two   *)
(* consecutive readings, 2ms apart, returned the same value, which         *)
(* differed from the last stable reading").  The coin door's switches,     *)
(* which are copied during the boot, are the exception.                    *)
MatrixReadTwice ==
  \A s \in Switches \ Cabinet : s \in sw_stable \ sw_unstable => differed[s] = 2

(* Inputs that stop changing are what the program sees in the end, with a  *)
(* full queue, stale bits from the boot or after a short.                  *)
Settles ==
  \A level \in SUBSET Switches :
    <>[](sw_raw = level /\ ~Shorted(level)) => <>[](sw_logical = level)
=============================================================================
