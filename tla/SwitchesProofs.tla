--------------------------- MODULE SwitchesProofs ---------------------------
(***************************************************************************)
(* The debouncing of switches, for every matrix, debounce time, length of  *)
(* the queue and range of its timers, with the interrupt between any two   *)
(* steps of switch_periodic.                                               *)
(*                                                                         *)
(* Two facts make the properties inductive.  Only switch_periodic takes a  *)
(* stable bit away, and it takes the queue entry and the unstable bit away *)
(* with it; and a switch of the matrix whose edge bit is on has been read  *)
(* at least once, at its new level, since its level last changed.          *)
(***************************************************************************)
EXTENDS Switches, SequenceTheorems, TLAPS

Entries == [id : Switches, timer : 1 - TimerHalf .. TimerHalf - 1]

(* Where in the queue switch_service_queue is.                             *)
EntryInQueue ==
  /\ pc \in {"service", "reject", "latch"} => entry >= 1
  /\ pc \in {"reject", "latch"} => entry <= Len(switch_queue)

EarlyInCabinet == pc = "early" => rows \subseteq Cabinet

EdgeReadOnce == \A s \in Switches \ Cabinet : s \in sw_edge => differed[s] # 0

SwInv ==
  /\ TypeOK
  /\ QueueConsistent
  /\ PendingIsStable
  /\ MatrixReadTwice
  /\ EntryInQueue
  /\ EarlyInCabinet
  /\ EdgeReadOnce

-----------------------------------------------------------------------------
(* Operators.                                                              *)
LEMMA ByteRange ==
  /\ ByteMod \in Nat /\ ByteMod >= 2
  /\ \A n \in Int : n % ByteMod \in 0 .. ByteMod - 1
<1>1. ByteMod \in Nat /\ ByteMod >= 2
  BY BoundAssumption DEF ByteMod
<1>2. \A n \in Int : n % ByteMod \in 0 .. ByteMod - 1
  BY <1>1
<1> QED BY <1>1, <1>2

LEMMA SignedRange == \A n \in Int : Signed(n) \in - TimerHalf .. TimerHalf - 1
<1> SUFFICES ASSUME NEW n \in Int PROVE Signed(n) \in - TimerHalf .. TimerHalf - 1
  OBVIOUS
<1>1. (n + TimerHalf) % ByteMod \in 0 .. ByteMod - 1 /\ TimerHalf \in Nat
  BY ByteRange, BoundAssumption
<1> QED BY <1>1 DEF Signed, ByteMod

LEMMA SymDiffIn ==
  \A S, T : S \subseteq Switches /\ T \subseteq Switches => SymDiff(S, T) \subseteq Switches
  BY DEF SymDiff

(* What switch_queue_remove leaves: the other switches, each once.         *)
Distinct(q)   == \A i, j \in DOMAIN q : i # j => q[i].id # q[j].id
Removed(q, e) == SubSeq([q EXCEPT ![e] = q[Len(q)]], 1, Len(q) - 1)

LEMMA RemoveProperties ==
  ASSUME NEW q \in Seq(Entries), NEW e \in 1 .. Len(q), Distinct(q)
  PROVE  /\ Removed(q, e) \in Seq(Entries) /\ Len(Removed(q, e)) = Len(q) - 1
         /\ Ids(Removed(q, e)) = Ids(q) \ {q[e].id}
         /\ Distinct(Removed(q, e))
<1> SUFFICES ASSUME NEW r, r = Removed(q, e)
             PROVE  /\ r \in Seq(Entries) /\ Len(r) = Len(q) - 1
                    /\ Ids(r) = Ids(q) \ {q[e].id}
                    /\ Distinct(r)
  OBVIOUS
<1> DEFINE n == Len(q)
           p == [q EXCEPT ![e] = q[n]]
<1>1. n \in Nat /\ n >= 1 /\ DOMAIN q = 1 .. n /\ \A i \in 1 .. n : q[i] \in Entries
  BY LenProperties, ElementOfSeq
<1>2. \A i \in 1 .. n : p[i] = IF i = e THEN q[n] ELSE q[i]
  BY <1>1
<1>3. \A i \in 1 .. n - 1 : p[i] \in Entries
  BY <1>1, <1>2
<1>4. /\ r \in Seq(Entries)
      /\ Len(r) = IF 1 <= n - 1 THEN n - 1 - 1 + 1 ELSE 0
      /\ \A i \in 1 .. n - 1 - 1 + 1 : r[i] = p[1 + i - 1]
  <2>1. r = SubSeq(p, 1, n - 1) /\ n - 1 \in Int
    BY <1>1 DEF Removed
  <2> HIDE DEF p
  <2> QED BY <1>3, <2>1, SubSeqProperties
<1> HIDE DEF p
<1> HIDE DEF n
<1>14. Len(r) = n - 1
  BY <1>1, <1>4
<1>5. Len(r) = n - 1 /\ DOMAIN r = 1 .. n - 1
  BY <1>4, <1>14, LenProperties
<1>15. \A i \in 1 .. n - 1 : r[i] = p[i]
  BY <1>1, <1>4
<1>6. \A i \in 1 .. n - 1 : r[i] = IF i = e THEN q[n] ELSE q[i]
  BY <1>1, <1>2, <1>15
<1> DEFINE from(i) == IF i = e THEN n ELSE i
<1>11. \A i \in DOMAIN r : from(i) \in 1 .. n /\ from(i) # e /\ r[i] = q[from(i)]
  BY <1>1, <1>5, <1>6
<1>12. \A i, j \in DOMAIN r : i # j => from(i) # from(j)
  BY <1>1, <1>5
<1> HIDE DEF from
<1>13. e \in DOMAIN q
  BY <1>1 DEF n
<1>7. Distinct(r)
  BY <1>1, <1>11, <1>12 DEF Distinct
<1>8. \A i \in DOMAIN r : r[i].id \in Ids(q) /\ r[i].id # q[e].id
  BY <1>1, <1>11, <1>13 DEF Ids, Distinct
<1>9. \A x \in Ids(q) \ {q[e].id} : \E i \in DOMAIN r : r[i].id = x
  <2> SUFFICES ASSUME NEW x \in Ids(q), x # q[e].id PROVE \E i \in DOMAIN r : r[i].id = x
    OBVIOUS
  <2>3. PICK k \in DOMAIN q : q[k].id = x
    BY DEF Ids
  <2>1. CASE k = n
    <3>1. e # n
      BY <2>1, <2>3
    <3>2. e \in 1 .. n - 1
      BY <1>1, <1>13, <3>1
    <3>3. r[e] = q[k]
      BY <1>6, <2>1, <3>2
    <3> QED BY <1>5, <2>3, <3>2, <3>3
  <2>2. CASE k # n
    <3>1. k \in 1 .. n - 1 /\ k # e
      BY <1>1, <2>2, <2>3
    <3>2. r[k] = q[k]
      BY <1>6, <3>1
    <3> QED BY <1>5, <2>3, <3>1, <3>2
  <2> QED BY <2>1, <2>2
<1>10. Ids(r) = Ids(q) \ {q[e].id}
  <2>1. \A x \in Ids(r) : x \in Ids(q) \ {q[e].id}
    BY <1>8 DEF Ids
  <2>2. \A x \in Ids(q) \ {q[e].id} : x \in Ids(r)
    BY <1>9 DEF Ids
  <2> QED BY <2>1, <2>2
<1> QED BY <1>4, <1>5, <1>7, <1>10 DEF n

(* What switch_queue_add leaves.                                           *)
LEMMA AddProperties ==
  ASSUME NEW q \in Seq(Entries), NEW x \in Entries, x.id \notin Ids(q), Distinct(q)
  PROVE  /\ Append(q, x) \in Seq(Entries) /\ Len(Append(q, x)) = Len(q) + 1
         /\ Ids(Append(q, x)) = Ids(q) \cup {x.id}
         /\ Distinct(Append(q, x))
<1> DEFINE r == Append(q, x)
<1>1. /\ Len(q) \in Nat /\ DOMAIN q = 1 .. Len(q)
      /\ r \in Seq(Entries) /\ Len(r) = Len(q) + 1 /\ DOMAIN r = 1 .. Len(q) + 1
      /\ \A i \in 1 .. Len(q) : r[i] = q[i]
      /\ r[Len(q) + 1] = x
  BY AppendProperties, LenProperties
<1> HIDE DEF r
<1>2. \A i \in 1 .. Len(q) : r[i].id \in Ids(q) /\ r[i].id # x.id
  BY <1>1 DEF Ids
<1>3. \A i \in DOMAIN r : i \in 1 .. Len(q) \/ i = Len(q) + 1
  BY <1>1
<1>4. Distinct(r)
  BY <1>1, <1>2, <1>3 DEF Distinct
<1>5. Ids(r) = Ids(q) \cup {x.id}
  <2>1. \A i \in DOMAIN r : r[i].id \in Ids(q) \cup {x.id}
    BY <1>1, <1>2, <1>3
  <2>2. \A i \in DOMAIN q : i \in DOMAIN r /\ r[i].id = q[i].id
    BY <1>1
  <2>3. Len(q) + 1 \in DOMAIN r /\ r[Len(q) + 1].id = x.id
    BY <1>1
  <2> QED BY <2>1, <2>2, <2>3 DEF Ids
<1> QED BY <1>1, <1>4, <1>5 DEF r

LEMMA InitInv == Init => SwInv
<1> SUFFICES ASSUME Init PROVE SwInv
  OBVIOUS
<1>1. switch_queue \in Seq(Entries) /\ Len(switch_queue) = 0 /\ DOMAIN switch_queue = {}
  BY EmptySeq DEF Init
<1>2. TypeOK
  BY <1>1, MatrixAssumption, BoundAssumption, ByteRange DEF Init, TypeOK, Entries
<1>3. QueueConsistent
  BY <1>1, BoundAssumption DEF Init, QueueConsistent, Ids
<1>4. PendingIsStable /\ MatrixReadTwice /\ EntryInQueue /\ EarlyInCabinet /\ EdgeReadOnce
  BY DEF Init, PendingIsStable, MatrixReadTwice, EntryInQueue, EarlyInCabinet, EdgeReadOnce
<1> QED BY <1>2, <1>3, <1>4 DEF SwInv

-----------------------------------------------------------------------------
(* The interrupt: a bit becomes stable when its edge bit was on already,   *)
(* that is at the second reading at least.                                 *)
LEMMA PollInv == ASSUME SwInv, NEW level \in SUBSET Switches, Poll(level) PROVE SwInv'
<1> DEFINE differs == SymDiff(level, sw_logical)
           stable  == sw_stable \cup (differs \cap sw_edge)
           count   == [s \in Switches |-> IF s \notin differs THEN 0
                                          ELSE IF differed[s] = 0 THEN 1 ELSE 2]
<1>1. /\ sw_raw' = level /\ sw_edge' = differs /\ sw_stable' = stable
      /\ sw_unstable' = sw_unstable \cup (stable \ differs) /\ differed' = count
      /\ UNCHANGED <<sw_logical, sw_queued, switch_queue, handlers, time, local>>
  BY DEF Poll
<1>2. differs \subseteq Switches
  BY SymDiffIn DEF SwInv, TypeOK
<1> HIDE DEF differs
<1>3. differed' \in [Switches -> 0 .. 2]
  BY <1>1
<1>4. TypeOK'
  BY <1>1, <1>2, <1>3 DEF SwInv, TypeOK, time, local
<1>5. QueueConsistent' /\ EntryInQueue' /\ EarlyInCabinet'
  BY <1>1 DEF SwInv, QueueConsistent, Ids, EntryInQueue, EarlyInCabinet, local
<1>6. PendingIsStable'
  BY <1>1 DEF SwInv, PendingIsStable, local
<1>7. MatrixReadTwice'
  <2> SUFFICES ASSUME NEW s \in Switches \ Cabinet, s \in sw_stable', s \notin sw_unstable'
               PROVE  differed'[s] = 2
    BY DEF MatrixReadTwice
  <2>1. s \in differs /\ s \notin sw_unstable
    BY <1>1
  <2>2. s \in sw_stable \/ s \in sw_edge
    BY <1>1
  <2>3. differed[s] # 0
    BY <2>1, <2>2 DEF SwInv, MatrixReadTwice, EdgeReadOnce
  <2> QED BY <1>1, <2>1, <2>3
<1>8. EdgeReadOnce'
  BY <1>1 DEF EdgeReadOnce
<1> QED BY <1>4, <1>5, <1>6, <1>7, <1>8 DEF SwInv

(* Steps that touch neither the bits of the switches nor the queue.        *)
LEMMA FrameInv ==
  ASSUME SwInv, TypeOK', UNCHANGED <<inputs, sw_logical, sw_queued, switch_queue>>,
         pc' = "bits" => rows' \subseteq sw_stable, EntryInQueue', EarlyInCabinet'
  PROVE  SwInv'
<1>1. QueueConsistent'
  BY DEF SwInv, QueueConsistent, Ids
<1>2. PendingIsStable' /\ MatrixReadTwice' /\ EdgeReadOnce'
  BY DEF SwInv, PendingIsStable, MatrixReadTwice, EdgeReadOnce, inputs
<1> QED BY <1>1, <1>2 DEF SwInv

LEMMA TimeInv ==
  ASSUME SwInv, Tick \/ EverySecond \/ Boot \/ (\E s \in Switches : RunHandler(s))
  PROVE  SwInv'
<1>1. /\ UNCHANGED <<inputs, sw_logical, sw_queued, switch_queue, local>>
      /\ handlers' \subseteq handlers
      /\ boot' \in {"boot", "scan", "up"}
  BY DEF Tick, EverySecond, Boot, StartScan, InitComplete, RunHandler, SwInv, TypeOK, time
<1>2. since' \in 0 .. ByteMod - 1
  <2>1. since \in 0 .. ByteMod - 1 /\ 0 \in 0 .. ByteMod - 1 /\ (since + 1) % ByteMod \in 0 .. ByteMod - 1
    <3>1. since \in 0 .. ByteMod - 1 /\ ByteMod \in Nat /\ ByteMod >= 2
      BY ByteRange DEF SwInv, TypeOK
    <3>2. since + 1 \in Int /\ 0 \in 0 .. ByteMod - 1
      BY <3>1
    <3> QED BY <3>1, <3>2, ByteRange
  <2> QED BY <2>1 DEF Tick, EverySecond, Boot, StartScan, InitComplete, RunHandler, time
<1>3. clock' \in 0 .. Second /\ sw_short_timer' \in 0 .. ShortSeconds
  BY BoundAssumption DEF Tick, EverySecond, Boot, StartScan, InitComplete, RunHandler, time, SwInv, TypeOK
<1>4. TypeOK'
  BY <1>1, <1>2, <1>3 DEF SwInv, TypeOK, inputs, local
<1>5. EntryInQueue' /\ EarlyInCabinet' /\ (pc' = "bits" => rows' \subseteq sw_stable)
  BY <1>1 DEF SwInv, EntryInQueue, EarlyInCabinet, PendingIsStable, local
<1> QED BY <1>1, <1>4, <1>5, FrameInv

-----------------------------------------------------------------------------
(* switch_transitioned clears the bits of a switch whose level changes.    *)
LEMMA TransitionedProperties ==
  ASSUME SwInv, NEW s \in Switches, Transitioned(s)
  PROVE  /\ sw_raw' \subseteq Switches /\ sw_edge' \subseteq Switches
         /\ sw_stable' \subseteq Switches /\ sw_unstable' \subseteq Switches
         /\ sw_logical' \subseteq Switches /\ handlers' \subseteq Switches
         /\ differed' \in [Switches -> 0 .. 2]
         /\ sw_stable' = sw_stable \ {s} /\ sw_unstable' = sw_unstable \ {s}
         /\ MatrixReadTwice' /\ EdgeReadOnce'
<1>1. /\ sw_stable' = sw_stable \ {s} /\ sw_unstable' = sw_unstable \ {s}
      /\ sw_edge' = sw_edge \ {s} /\ differed' = [differed EXCEPT ![s] = 0]
      /\ sw_raw' = sw_raw /\ sw_logical' = SymDiff(sw_logical, {s})
      /\ handlers' \subseteq handlers \cup {s}
  BY DEF Transitioned
<1>2. sw_logical' \subseteq Switches
  BY <1>1, SymDiffIn DEF SwInv, TypeOK
<1>3. differed' \in [Switches -> 0 .. 2]
  BY <1>1 DEF SwInv, TypeOK
<1>4. \A t \in Switches : t # s => differed'[t] = differed[t]
  BY <1>1 DEF SwInv, TypeOK
<1>5. MatrixReadTwice' /\ EdgeReadOnce'
  BY <1>1, <1>4 DEF SwInv, MatrixReadTwice, EdgeReadOnce
<1> QED BY <1>1, <1>2, <1>3, <1>5 DEF SwInv, TypeOK

(* The queue without the entry that is serviced.                           *)
LEMMA QueueRemoveProperties ==
  ASSUME SwInv, pc \in {"reject", "latch"}, QueueRemove
  PROVE  /\ ThisId \in sw_queued /\ ThisId \in Switches
         /\ sw_queued' = sw_queued \ {ThisId} /\ sw_queued' \subseteq Switches
         /\ switch_queue' \in Seq(Entries)
         /\ QueueConsistent'
<1>1. /\ switch_queue \in Seq(Entries) /\ entry \in 1 .. Len(switch_queue)
      /\ Len(switch_queue) \in Nat /\ DOMAIN switch_queue = 1 .. Len(switch_queue)
  BY LenProperties DEF SwInv, TypeOK, EntryInQueue, Entries
<1>2. switch_queue[entry] \in Entries
  BY <1>1, ElementOfSeq
<1>3. ThisId \in Ids(switch_queue) /\ ThisId \in Switches
  BY <1>1, <1>2 DEF ThisId, Ids, Entries
<1>4. /\ switch_queue' \in Seq(Entries) /\ Len(switch_queue') = Len(switch_queue) - 1
      /\ Ids(switch_queue') = Ids(switch_queue) \ {ThisId}
      /\ Distinct(switch_queue')
  <2>1. switch_queue' = Removed(switch_queue, entry)
    BY DEF QueueRemove, Removed
  <2>2. Distinct(switch_queue)
    BY DEF SwInv, QueueConsistent, Distinct
  <2> QED BY <1>1, <2>1, <2>2, RemoveProperties DEF ThisId
<1>5. sw_queued' = sw_queued \ {ThisId} /\ sw_queued = Ids(switch_queue)
  BY DEF QueueRemove, SwInv, QueueConsistent
<1>6. Len(switch_queue') <= MaxQueued
  BY <1>1, <1>4, BoundAssumption DEF SwInv, QueueConsistent
<1>7. QueueConsistent'
  BY <1>4, <1>5, <1>6 DEF QueueConsistent, Distinct
<1> QED BY <1>3, <1>4, <1>5, <1>7 DEF SwInv, TypeOK

-----------------------------------------------------------------------------
(* Column 0 is copied during the boot.                                     *)
LEMMA EarlyInv == ASSUME SwInv, EarlyLoad \/ EarlyStore PROVE SwInv'
<1>1. CASE EarlyLoad
  <2>1. TypeOK'
    BY <1>1 DEF EarlyLoad, SwInv, TypeOK, inputs, time
  <2>2. EntryInQueue' /\ EarlyInCabinet' /\ (pc' = "bits" => rows' \subseteq sw_stable)
    BY <1>1 DEF EarlyLoad, EntryInQueue, EarlyInCabinet
  <2> QED BY <1>1, <2>1, <2>2, FrameInv DEF EarlyLoad
<1>2. CASE EarlyStore
  <2>1. /\ pc' = "out" /\ rows' = {} /\ rows \subseteq Cabinet
        /\ UNCHANGED <<sw_raw, sw_edge, sw_stable, sw_unstable, sw_queued, switch_queue,
                       handlers, time, entry, elapsed>>
        /\ sw_logical' = (sw_logical \ Cabinet) \cup rows
    BY <1>2 DEF EarlyStore, SwInv, EarlyInCabinet
  <2>2. differed' = [s \in Switches |->
                       IF s \in SymDiff(sw_logical, sw_logical') THEN 0 ELSE differed[s]]
    BY <1>2 DEF EarlyStore
  <2>3. differed' \in [Switches -> 0 .. 2]
    BY <2>2 DEF SwInv, TypeOK
  <2>4. \A s \in Switches \ Cabinet : differed'[s] = differed[s]
    BY <2>1, <2>2 DEF SymDiff
  <2>5. TypeOK'
    BY <2>1, <2>3 DEF SwInv, TypeOK, time
  <2>6. QueueConsistent' /\ PendingIsStable' /\ EntryInQueue' /\ EarlyInCabinet'
    BY <2>1 DEF SwInv, QueueConsistent, Ids, PendingIsStable, EntryInQueue, EarlyInCabinet
  <2>7. MatrixReadTwice' /\ EdgeReadOnce'
    BY <2>1, <2>4 DEF SwInv, MatrixReadTwice, EdgeReadOnce
  <2> QED BY <2>5, <2>6, <2>7 DEF SwInv
<1> QED BY <1>1, <1>2

(* Steps of switch_periodic that only move it along.                       *)
LEMMA MoveInv ==
  ASSUME SwInv, PeriodicBegin \/ ServiceExpire \/ ServiceEnd \/ ScanColumn
                \/ ScanNext \/ PeriodicEnd
  PROVE  SwInv'
<1>1. Len(switch_queue) \in Nat
  BY LenProperties DEF SwInv, TypeOK
<1>2. /\ UNCHANGED <<inputs, sw_logical, sw_queued, switch_queue, handlers, boot, clock>>
      /\ sw_short_timer' \in {sw_short_timer, 0, ShortSeconds}
      /\ elapsed' \in {elapsed, since, 0} /\ since' \in {since, 0}
      /\ entry' \in {entry, entry + 1, 0, 1}
      /\ pc' \in {"out", "service", "reject", "latch", "scan", "bits"}
      /\ rows' = rows \/ rows' \subseteq sw_stable
  BY DEF PeriodicBegin, ServiceExpire, ServiceEnd, ScanColumn, ScanNext, PeriodicEnd, time, InQueue
<1>3. sw_short_timer' \in 0 .. ShortSeconds
  BY <1>2, BoundAssumption DEF SwInv, TypeOK
<1>4. since' \in 0 .. ByteMod - 1 /\ elapsed' \in 0 .. ByteMod - 1
  <2>1. 0 \in 0 .. ByteMod - 1
    BY ByteRange
  <2>2. since \in 0 .. ByteMod - 1 /\ elapsed \in 0 .. ByteMod - 1
    BY DEF SwInv, TypeOK
  <2> QED BY <1>2, <2>1, <2>2
<1>5. rows' \subseteq Switches /\ entry' \in Nat
  BY <1>2 DEF SwInv, TypeOK
<1>6. TypeOK'
  BY <1>2, <1>3, <1>4, <1>5 DEF SwInv, TypeOK, inputs
<1>7. EarlyInCabinet'
  BY <1>2 DEF EarlyInCabinet
<1>8. EntryInQueue'
  BY <1>1 DEF SwInv, TypeOK, EntryInQueue, PeriodicBegin, ServiceExpire, ServiceEnd,
              ScanColumn, ScanNext, PeriodicEnd, InQueue
<1>9. pc' = "bits" => rows' \subseteq sw_stable
  BY DEF PeriodicBegin, ServiceExpire, ServiceEnd, ScanColumn, ScanNext, PeriodicEnd
<1> QED BY <1>2, <1>6, <1>7, <1>8, <1>9, FrameInv

(* The entry that waits gets the rest of its time.                         *)
LEMMA WaitInv == ASSUME SwInv, ServiceWait PROVE SwInv'
<1>1. /\ pc = "service" /\ entry \in 1 .. Len(switch_queue) /\ TimeLeft > 0
      /\ switch_queue' = [switch_queue EXCEPT ![entry].timer = TimeLeft]
      /\ entry' = entry + 1
      /\ UNCHANGED <<inputs, sw_logical, sw_queued, handlers, time, pc, rows, elapsed>>
  BY LenProperties DEF ServiceWait, InQueue, SwInv, TypeOK, EntryInQueue
<1>2. switch_queue \in Seq(Entries) /\ DOMAIN switch_queue = 1 .. Len(switch_queue)
      /\ Len(switch_queue) \in Nat
  BY LenProperties DEF SwInv, TypeOK, Entries
<1>3. switch_queue[entry] \in Entries
  BY <1>1, <1>2, ElementOfSeq
<1>4. TimeLeft \in 1 - TimerHalf .. TimerHalf - 1
  <2>1. switch_queue[entry].timer - elapsed \in Int
    BY <1>3, ByteRange DEF Entries, SwInv, TypeOK
  <2>2. TimeLeft \in - TimerHalf .. TimerHalf - 1 /\ TimerHalf \in Nat \ {0}
    BY <2>1, SignedRange, BoundAssumption DEF TimeLeft
  <2> QED BY <1>1, <2>2
<1> DEFINE e == [switch_queue[entry] EXCEPT !.timer = TimeLeft]
<1>5. e \in Entries /\ e.id = switch_queue[entry].id
  BY <1>3, <1>4 DEF Entries
<1>6. switch_queue' = [switch_queue EXCEPT ![entry] = e]
  BY <1>1
<1> HIDE DEF e
<1>7. /\ switch_queue' \in Seq(Entries) /\ Len(switch_queue') = Len(switch_queue)
      /\ \A i \in 1 .. Len(switch_queue) :
            switch_queue'[i] = IF i = entry THEN e ELSE switch_queue[i]
  BY <1>1, <1>2, <1>5, <1>6, ExceptSeq
<1>8. /\ DOMAIN switch_queue' = DOMAIN switch_queue
      /\ \A i \in DOMAIN switch_queue : switch_queue'[i].id = switch_queue[i].id
  BY <1>2, <1>5, <1>6, <1>7
<1>9. Ids(switch_queue') = Ids(switch_queue)
  BY <1>8 DEF Ids
<1>10. QueueConsistent'
  BY <1>1, <1>7, <1>8, <1>9 DEF SwInv, QueueConsistent
<1>11. TypeOK'
  BY <1>1, <1>7 DEF SwInv, TypeOK, Entries, inputs, time
<1>12. PendingIsStable' /\ MatrixReadTwice' /\ EdgeReadOnce' /\ EntryInQueue' /\ EarlyInCabinet'
  BY <1>1 DEF SwInv, TypeOK, PendingIsStable, MatrixReadTwice, EdgeReadOnce, EntryInQueue,
              EarlyInCabinet, inputs
<1> QED BY <1>10, <1>11, <1>12 DEF SwInv

-----------------------------------------------------------------------------
(* A serviced entry is taken out: its transition is dropped or is made.    *)
LEMMA RejectInv == ASSUME SwInv, ServiceReject PROVE SwInv'
<1>1. /\ pc = "reject" /\ pc' = "service" /\ QueueRemove
      /\ sw_stable' = sw_stable \ {ThisId} /\ sw_unstable' = sw_unstable \ {ThisId}
      /\ UNCHANGED <<sw_raw, sw_edge, differed, sw_logical, handlers, time, entry, rows, elapsed>>
  BY DEF ServiceReject
<1>2. /\ sw_queued' = sw_queued \ {ThisId} /\ sw_queued' \subseteq Switches
      /\ switch_queue' \in Seq(Entries) /\ QueueConsistent'
  BY <1>1, QueueRemoveProperties
<1>3. TypeOK'
  BY <1>1, <1>2 DEF SwInv, TypeOK, Entries, time
<1>4. PendingIsStable' /\ MatrixReadTwice' /\ EdgeReadOnce' /\ EntryInQueue' /\ EarlyInCabinet'
  BY <1>1, <1>2 DEF SwInv, PendingIsStable, MatrixReadTwice, EdgeReadOnce, EntryInQueue,
                    EarlyInCabinet
<1> QED BY <1>2, <1>3, <1>4 DEF SwInv

LEMMA LatchInv == ASSUME SwInv, ServiceLatch PROVE SwInv'
<1>1. /\ pc = "latch" /\ pc' = "service" /\ QueueRemove /\ Transitioned(ThisId)
      /\ UNCHANGED <<time, entry, rows, elapsed>>
  BY DEF ServiceLatch
<1>2. /\ sw_queued' = sw_queued \ {ThisId} /\ sw_queued' \subseteq Switches
      /\ switch_queue' \in Seq(Entries) /\ QueueConsistent' /\ ThisId \in Switches
  BY <1>1, QueueRemoveProperties
<1> HIDE DEF ThisId
<1>3. /\ sw_raw' \subseteq Switches /\ sw_edge' \subseteq Switches
      /\ sw_stable' \subseteq Switches /\ sw_unstable' \subseteq Switches
      /\ sw_logical' \subseteq Switches /\ handlers' \subseteq Switches
      /\ differed' \in [Switches -> 0 .. 2]
      /\ sw_stable' = sw_stable \ {ThisId} /\ sw_unstable' = sw_unstable \ {ThisId}
      /\ MatrixReadTwice' /\ EdgeReadOnce'
  BY <1>1, <1>2, TransitionedProperties
<1>4. TypeOK'
  BY <1>1, <1>2, <1>3 DEF SwInv, TypeOK, Entries, time
<1>5. PendingIsStable' /\ EntryInQueue' /\ EarlyInCabinet'
  BY <1>1, <1>2, <1>3 DEF SwInv, PendingIsStable, EntryInQueue, EarlyInCabinet
<1> QED BY <1>2, <1>3, <1>4, <1>5 DEF SwInv

-----------------------------------------------------------------------------
(* The bits of a column's snapshot.                                        *)
LEMMA BitInv ==
  ASSUME SwInv, NEW s \in Switches, ScanQueued(s) \/ ScanEnqueue(s) \/ ScanLatch(s)
  PROVE  SwInv'
<1>1. /\ pc = "bits" /\ pc' = "bits" /\ s \in rows /\ rows' = rows \ {s}
      /\ UNCHANGED <<time, entry, elapsed>>
      /\ rows \subseteq sw_stable /\ rows \subseteq Switches
  BY DEF ScanQueued, ScanEnqueue, ScanLatch, NextBit, SwInv, PendingIsStable, TypeOK
<1>2. EntryInQueue' /\ EarlyInCabinet'
  BY <1>1 DEF EntryInQueue, EarlyInCabinet
<1>3. CASE ScanQueued(s) \/ (ScanEnqueue(s) /\ Len(switch_queue) >= MaxQueued)
  <2>1. UNCHANGED <<inputs, sw_logical, sw_queued, switch_queue, handlers>>
    <3>1. CASE ScanQueued(s)
      BY <3>1 DEF ScanQueued
    <3>2. CASE ScanEnqueue(s) /\ Len(switch_queue) >= MaxQueued
      <4>1. Len(switch_queue) \in Nat /\ MaxQueued \in Nat
        BY LenProperties, BoundAssumption DEF SwInv, TypeOK
      <4>2. ~(Len(switch_queue) < MaxQueued)
        BY <3>2, <4>1
      <4> QED BY <3>2, <4>2 DEF ScanEnqueue
    <3> QED BY <1>3, <3>1, <3>2
  <2>2. TypeOK'
    BY <1>1, <2>1 DEF SwInv, TypeOK, inputs, time
  <2> QED BY <1>1, <1>2, <2>1, <2>2, FrameInv
<1>4. CASE ScanEnqueue(s) /\ Len(switch_queue) < MaxQueued
  <2> DEFINE x == [id |-> s, timer |-> Debounce[s]]
  <2>1. /\ switch_queue' = Append(switch_queue, x) /\ sw_queued' = sw_queued \cup {s}
        /\ s \notin sw_queued /\ UNCHANGED <<inputs, sw_logical, handlers>>
    BY <1>4 DEF ScanEnqueue
  <2>2. x \in Entries /\ x.id = s
    <3>1. Debounce[s] \in 0 .. TimerHalf - 1 /\ TimerHalf \in Nat
      BY MatrixAssumption, BoundAssumption
    <3>2. Debounce[s] \in 1 - TimerHalf .. TimerHalf - 1
      BY <3>1
    <3> QED BY <3>2 DEF Entries
  <2> HIDE DEF x
  <2>3. /\ switch_queue \in Seq(Entries) /\ Distinct(switch_queue)
        /\ Ids(switch_queue) = sw_queued /\ x.id \notin Ids(switch_queue)
    BY <2>1, <2>2 DEF SwInv, TypeOK, Entries, QueueConsistent, Distinct
  <2>4. /\ switch_queue' \in Seq(Entries) /\ Len(switch_queue') = Len(switch_queue) + 1
        /\ Ids(switch_queue') = Ids(switch_queue) \cup {s} /\ Distinct(switch_queue')
    BY <2>1, <2>2, <2>3, AddProperties
  <2>5. Len(switch_queue') <= MaxQueued
    <3>1. Len(switch_queue) \in Nat /\ MaxQueued \in Nat
      BY <2>3, LenProperties, BoundAssumption
    <3> QED BY <1>4, <2>4, <3>1
  <2>6. QueueConsistent'
    BY <2>1, <2>3, <2>4, <2>5 DEF QueueConsistent, Distinct
  <2>7. TypeOK'
    BY <1>1, <2>1, <2>4 DEF SwInv, TypeOK, Entries, inputs, time
  <2>8. PendingIsStable' /\ MatrixReadTwice' /\ EdgeReadOnce'
    BY <1>1, <2>1 DEF SwInv, PendingIsStable, MatrixReadTwice, EdgeReadOnce, inputs
  <2> QED BY <1>2, <2>6, <2>7, <2>8 DEF SwInv
<1>5. CASE ScanLatch(s)
  <2>1. Transitioned(s) /\ s \notin sw_queued /\ UNCHANGED <<sw_queued, switch_queue>>
    BY <1>5 DEF ScanLatch
  <2>2. /\ sw_raw' \subseteq Switches /\ sw_edge' \subseteq Switches
        /\ sw_stable' \subseteq Switches /\ sw_unstable' \subseteq Switches
        /\ sw_logical' \subseteq Switches /\ handlers' \subseteq Switches
        /\ differed' \in [Switches -> 0 .. 2]
        /\ sw_stable' = sw_stable \ {s} /\ sw_unstable' = sw_unstable \ {s}
        /\ MatrixReadTwice' /\ EdgeReadOnce'
    BY <2>1, TransitionedProperties
  <2>3. TypeOK'
    BY <1>1, <2>1, <2>2 DEF SwInv, TypeOK, time
  <2>4. QueueConsistent'
    BY <2>1 DEF SwInv, QueueConsistent, Ids
  <2>5. PendingIsStable'
    BY <1>1, <2>1, <2>2 DEF SwInv, PendingIsStable
  <2> QED BY <1>2, <2>2, <2>3, <2>4, <2>5 DEF SwInv
<1>6. ScanEnqueue(s) => Len(switch_queue) >= MaxQueued \/ Len(switch_queue) < MaxQueued
  BY LenProperties, BoundAssumption DEF SwInv, TypeOK
<1> QED BY <1>3, <1>4, <1>5, <1>6

-----------------------------------------------------------------------------
LEMMA NextInv == SwInv /\ [Next]_vars => SwInv'
<1> SUFFICES ASSUME SwInv, [Next]_vars PROVE SwInv'
  OBVIOUS
<1>1. CASE Irq
  BY <1>1, PollInv DEF Irq
<1>2. CASE Periodic
  BY <1>2, EarlyInv, MoveInv, WaitInv, RejectInv, LatchInv, BitInv DEF Periodic, Service, Scan
<1>3. CASE Boot \/ Tick \/ EverySecond \/ \E s \in Switches : RunHandler(s)
  BY <1>3, TimeInv
<1>4. CASE UNCHANGED vars
  BY <1>4 DEF vars, inputs, local, time, SwInv, TypeOK, QueueConsistent, Ids, PendingIsStable,
              MatrixReadTwice, EntryInQueue, EarlyInCabinet, EdgeReadOnce
<1> QED BY <1>1, <1>2, <1>3, <1>4 DEF Next

(* The inductive invariant holds in every state.                           *)
THEOREM SwitchesInvariant == Spec => []SwInv
BY InitInv, NextInv, PTL DEF Spec

(* The variables keep their types; a timer stays a signed byte, which      *)
(* switch_service_queue (switches.c) subtracts the elapsed time from.      *)
THEOREM TypeCorrect == Spec => []TypeOK
<1>1. SwInv => TypeOK BY DEF SwInv
<1> QED BY <1>1, SwitchesInvariant, PTL

(* switch_queue_add and switch_queue_remove (switches.c) keep one entry    *)
(* per queued switch, whatever the order in which the timers expire.       *)
THEOREM QueueStaysConsistent == Spec => []QueueConsistent
<1>1. SwInv => QueueConsistent BY DEF SwInv
<1> QED BY <1>1, SwitchesInvariant, PTL

(* No interrupt and no other switch takes the stable bit of a switch that  *)
(* switch_periodic is still working on.                                    *)
THEOREM PendingStaysStable == Spec => []PendingIsStable
<1>1. SwInv => PendingIsStable BY DEF SwInv
<1> QED BY <1>1, SwitchesInvariant, PTL

(* The two readings wpc-switch.c promises: no transition of a switch of    *)
(* the matrix is stable after one.                                         *)
THEOREM ReadTwice == Spec => []MatrixReadTwice
<1>1. SwInv => MatrixReadTwice BY DEF SwInv
<1> QED BY <1>1, SwitchesInvariant, PTL
=============================================================================
