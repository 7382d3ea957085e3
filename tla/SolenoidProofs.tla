--------------------------- MODULE SolenoidProofs ---------------------------
(***************************************************************************)
(* The shared solenoid driver, for every set of coils, length of a pulse   *)
(* and size of the ring, with tasks that may be killed while they wait.    *)
(*                                                                         *)
(* SyncExclusive is inductive once the variables have their types: what    *)
(* makes it so is that the interrupt reports the end of any pulse in a     *)
(* held lock, and that no pulse can be started while another one runs.     *)
(***************************************************************************)
EXTENDS Solenoid, SequenceTheorems, TLAPS

SolInv == TypeOK /\ SyncExclusive

(* The values of req_lock differ.                                          *)
LEMMA LockValues ==
  /\ Free # Done
  /\ \A s \in Sols : Held(s) # Free /\ Held(s) # Done
  /\ \A s, t \in Sols : Held(s) = Held(t) => s = t
  BY SolenoidAssumption DEF Free, Done, Held

LEMMA NextSlot == \A i \in Slots : After(i) \in Slots
  BY SolenoidAssumption DEF After, Slots

LEMMA InitInv == Init => SolInv
<1> SUFFICES ASSUME Init PROVE SolInv
  OBVIOUS
<1>1. TypeOK
  BY SolenoidAssumption DEF Init, TypeOK, Slots
<1>2. SyncExclusive
  BY DEF Init, SyncExclusive
<1> QED BY <1>1, <1>2 DEF SolInv

-----------------------------------------------------------------------------
(* Starting a pulse when none runs, by whoever it is.                      *)
LEMMA StartInv ==
  ASSUME SolInv, NEW s \in Sols \cup {NoSol}, Start(s), sol_pulse_timer = 0,
         UNCHANGED <<req_lock, user>>
  PROVE  /\ SyncExclusive'
         /\ sol_pulse_timer' \in 0 .. PulseTicks /\ sol_pulsing' \in Sols \cup {NoSol}
<1>1. SyncExclusive'
  BY DEF SolInv, SyncExclusive, Start
<1>2. sol_pulse_timer' \in 0 .. PulseTicks /\ sol_pulsing' \in Sols \cup {NoSol}
  BY SolenoidAssumption DEF Start
<1> QED BY <1>1, <1>2

(* sol_request: waiting for the lock, taking it, waiting for the end of    *)
(* the pulse, and being killed in either wait.                             *)
LEMMA SyncInv == ASSUME SolInv, Sync PROVE SolInv'
<1> USE DEF SolInv
<1>1. ASSUME NEW s \in Sols, SolAllocWaits(s) PROVE SolInv'
  <2>1. TypeOK'
    BY <1>1 DEF SolAllocWaits, TypeOK, pulse, ring
  <2>2. SyncExclusive'
    BY <1>1 DEF SolAllocWaits, SyncExclusive, TypeOK, pulse, ring
  <2> QED BY <2>1, <2>2
<1>2. ASSUME NEW s \in Sols, SolAlloc(s) PROVE SolInv'
  <2>1. req_lock = Free /\ req_lock' = Held(s) /\ UNCHANGED ring
    BY <1>2 DEF SolAlloc, Busy
  <2>2. sol_pulsing' = s /\ sol_pulse_timer' = PulseTicks /\ PulseTicks # 0
    BY <1>2, SolenoidAssumption DEF SolAlloc, Start
  <2>3. \A t \in Sols : user[t] # "free" /\ user'[t] = IF t = s THEN "free" ELSE user[t]
    BY <1>2, <2>1, LockValues DEF SolAlloc, SyncExclusive, TypeOK
  <2>4. SyncExclusive'
    BY <2>1, <2>2, <2>3 DEF SyncExclusive
  <2>5. TypeOK'
    BY <1>2, <2>1, <2>2, SolenoidAssumption DEF SolAlloc, TypeOK, ring
  <2> QED BY <2>4, <2>5
<1>3. ASSUME NEW s \in Sols, SolFree(s) PROVE SolInv'
  <2>1. TypeOK'
    BY <1>3 DEF SolFree, TypeOK, pulse, ring
  <2>2. \A t \in Sols : user'[t] # "free"
    BY <1>3 DEF SolFree, SyncExclusive, TypeOK
  <2> QED BY <2>1, <2>2 DEF SyncExclusive
<1>4. ASSUME NEW s \in Sols, KillUser(s) PROVE SolInv'
  <2>1. TypeOK'
    BY <1>4 DEF KillUser, TypeOK, pulse, ring
  <2>2. SyncExclusive'
    BY <1>4 DEF KillUser, SyncExclusive, TypeOK, pulse, ring
  <2> QED BY <2>1, <2>2
<1> QED BY <1>1, <1>2, <1>3, <1>4 DEF Sync

(* sol_request_async and the ring.                                         *)
LEMMA AsyncInv == ASSUME SolInv, Async PROVE SolInv'
<1> USE DEF SolInv
<1>1. ASSUME NEW s \in Sols, SolRequestAsync(s) PROVE SolInv'
  <2>1. Start(s) /\ sol_pulse_timer = 0 /\ UNCHANGED <<req_lock, user>>
    BY <1>1 DEF SolRequestAsync
  <2> QED BY <1>1, <2>1, StartInv DEF SolRequestAsync, TypeOK, ring
<1>2. ASSUME NEW s \in Sols, QueueInsert(s) PROVE SolInv'
  <2>1. TypeOK'
    BY <1>2, NextSlot DEF QueueInsert, TypeOK, pulse
  <2>2. SyncExclusive'
    BY <1>2 DEF QueueInsert, SyncExclusive, pulse
  <2> QED BY <2>1, <2>2
<1>3. ASSUME QueueRemove PROVE SolInv'
  <2>1. elems[head] \in Sols \cup {NoSol}
    BY DEF TypeOK
  <2>2. Start(elems[head]) /\ sol_pulse_timer = 0 /\ UNCHANGED <<req_lock, user, tail>>
    BY <1>3 DEF QueueRemove
  <2>3. head' \in Slots /\ elems' \in [Slots -> Sols \cup {NoSol}]
    BY <1>3, NextSlot DEF QueueRemove, TypeOK
  <2> QED BY <2>1, <2>2, <2>3, StartInv DEF TypeOK
<1> QED BY <1>1, <1>2, <1>3 DEF Async

(* The tick of the interrupt.                                              *)
LEMMA TickInv == ASSUME SolInv, SolReqRtt PROVE SolInv'
<1> USE DEF SolInv
<1>1. /\ sol_pulse_timer # 0 /\ sol_pulse_timer' = sol_pulse_timer - 1
      /\ req_lock' = IF sol_pulse_timer = 1 /\ req_lock # Free THEN Done ELSE req_lock
      /\ UNCHANGED <<sol_pulsing, user, ring>>
  BY DEF SolReqRtt
<1>2. sol_pulse_timer \in Nat /\ sol_pulse_timer' \in 0 .. PulseTicks
  BY <1>1, SolenoidAssumption DEF TypeOK
<1>3. TypeOK'
  BY <1>1, <1>2 DEF TypeOK, ring
<1>4. SyncExclusive'
  <2> SUFFICES ASSUME NEW s \in Sols, user'[s] = "free"
               PROVE  /\ \A t \in Sols \ {s} : user'[t] # "free"
                      /\ req_lock' \in {Held(s), Done}
                      /\ req_lock' = Held(s) => sol_pulse_timer' # 0 /\ sol_pulsing' = s
    BY DEF SyncExclusive
  <2>1. /\ \A t \in Sols \ {s} : user[t] # "free"
        /\ req_lock \in {Held(s), Done}
        /\ req_lock = Held(s) => sol_pulsing = s
    BY <1>1 DEF SyncExclusive
  <2>2. req_lock' = Held(s) => req_lock = Held(s) /\ sol_pulse_timer # 1
    BY <1>1, <2>1, LockValues
  <2>3. req_lock' \in {Held(s), Done}
    BY <1>1, <2>1
  <2> QED BY <1>1, <1>2, <2>1, <2>2, <2>3
<1> QED BY <1>3, <1>4

LEMMA NextInv == SolInv /\ [Next]_vars => SolInv'
<1> SUFFICES ASSUME SolInv, [Next]_vars PROVE SolInv'
  OBVIOUS
<1>1. CASE UNCHANGED vars
  BY <1>1 DEF SolInv, TypeOK, SyncExclusive, vars, pulse, ring
<1> QED BY <1>1, SyncInv, AsyncInv, TickInv DEF Next

-----------------------------------------------------------------------------
(* The variables of the driver keep their types.                           *)
THEOREM TypeCorrect == Spec => []TypeOK
<1>1. SolInv => TypeOK
  BY DEF SolInv
<1> QED BY <1>1, InitInv, NextInv, PTL DEF Spec

(* A task inside sol_request has the driver to itself, and the end of the  *)
(* pulse it waits for in sol_free is that of its own.                      *)
THEOREM OnePulseAtATime == Spec => []SyncExclusive
<1>1. SolInv => SyncExclusive
  BY DEF SolInv
<1> QED BY <1>1, InitInv, NextInv, PTL DEF Spec

-----------------------------------------------------------------------------
(* The ring as a sequence.  Its slots are numbered modulo its length.      *)
Waiting(h, t) == (t - h) % QueueLen

LEMMA Modulo ==
  /\ \A i \in 0 .. QueueLen - 1 : i % QueueLen = i
  /\ \A i \in QueueLen .. 2 * QueueLen - 1 : i % QueueLen = i - QueueLen
  /\ \A i \in 1 - QueueLen .. -1 : i % QueueLen = i + QueueLen
  BY SolenoidAssumption

LEMMA SlotNumbers ==
  ASSUME NEW h \in Slots
  PROVE  /\ \A t \in Slots : Waiting(h, t) = IF t >= h THEN t - h ELSE t - h + QueueLen
         /\ \A i \in 1 .. QueueLen :
              (h + i - 1) % QueueLen = IF h + i - 1 < QueueLen THEN h + i - 1 ELSE h + i - 1 - QueueLen
<1>1. h \in Nat /\ h < QueueLen /\ QueueLen \in Nat \ {0}
  BY SolenoidAssumption DEF Slots
<1>2. ASSUME NEW t \in Slots
      PROVE  Waiting(h, t) = IF t >= h THEN t - h ELSE t - h + QueueLen
  <2>1. t \in Nat /\ t < QueueLen
    BY <1>1 DEF Slots
  <2>2. t - h \in (0 .. QueueLen - 1) \cup (1 - QueueLen .. -1)
    BY <1>1, <2>1
  <2> QED BY <1>1, <2>1, <2>2, Modulo DEF Waiting
<1>3. ASSUME NEW i \in 1 .. QueueLen
      PROVE  (h + i - 1) % QueueLen = IF h + i - 1 < QueueLen THEN h + i - 1 ELSE h + i - 1 - QueueLen
  <2>1. h + i - 1 \in (0 .. QueueLen - 1) \cup (QueueLen .. 2 * QueueLen - 1)
    BY <1>1
  <2> QED BY <1>1, <2>1, Modulo
<1> QED BY <1>2, <1>3

(* The slot at the tail comes after those in use, and the one at the head  *)
(* before them.                                                            *)
LEMMA SlotBehind ==
  ASSUME NEW h \in Slots, NEW t \in Slots, NEW n, n = Waiting(h, t)
  PROVE  /\ n \in Slots
         /\ After(t) \in Slots /\ Waiting(h, After(t)) = IF n = QueueLen - 1 THEN 0 ELSE n + 1
         /\ \A i \in 1 .. n : (h + i - 1) % QueueLen \in Slots \ {t}
         /\ n # QueueLen - 1 => (h + (n + 1) - 1) % QueueLen = t
<1>1. h \in Nat /\ h < QueueLen /\ t \in Nat /\ t < QueueLen /\ QueueLen \in Nat \ {0}
  BY SolenoidAssumption DEF Slots
<1>2. n = IF t >= h THEN t - h ELSE t - h + QueueLen
  BY SlotNumbers
<1>3. After(t) = IF t = QueueLen - 1 THEN 0 ELSE t + 1
  BY <1>1, Modulo DEF After
<1>4. n \in Slots /\ After(t) \in Slots
  BY <1>1, <1>2, <1>3 DEF Slots
<1>5. Waiting(h, After(t)) = IF After(t) >= h THEN After(t) - h ELSE After(t) - h + QueueLen
  BY <1>4, SlotNumbers
<1>6. \A i \in 1 .. QueueLen :
        (h + i - 1) % QueueLen = IF h + i - 1 < QueueLen THEN h + i - 1 ELSE h + i - 1 - QueueLen
  BY SlotNumbers
<1>7. Waiting(h, After(t)) = IF n = QueueLen - 1 THEN 0 ELSE n + 1
  BY <1>1, <1>2, <1>3, <1>5
<1>8. ASSUME NEW i \in 1 .. n PROVE (h + i - 1) % QueueLen \in Slots \ {t}
  <2>1. i \in 1 .. QueueLen
    BY <1>1, <1>2
  <2> QED BY <1>1, <1>2, <1>6, <2>1 DEF Slots
<1>9. ASSUME n # QueueLen - 1 PROVE (h + (n + 1) - 1) % QueueLen = t
  <2>1. n + 1 \in 1 .. QueueLen
    BY <1>1, <1>2, <1>9
  <2>2. (h + (n + 1) - 1) % QueueLen
          = IF h + (n + 1) - 1 < QueueLen THEN h + (n + 1) - 1 ELSE h + (n + 1) - 1 - QueueLen
    BY <1>6, <2>1
  <2> QED BY <1>1, <1>2, <2>2
<1> QED BY <1>4, <1>7, <1>8, <1>9

LEMMA SlotAhead ==
  ASSUME NEW h \in Slots, NEW t \in Slots, h # t, NEW n, n = Waiting(h, t)
  PROVE  /\ n \in Nat \ {0} /\ n < QueueLen /\ h % QueueLen = h
         /\ After(h) \in Slots /\ Waiting(After(h), t) = n - 1
         /\ \A i \in 1 .. n - 1 : /\ (After(h) + i - 1) % QueueLen = (h + (i + 1) - 1) % QueueLen
                                  /\ (After(h) + i - 1) % QueueLen \in Slots \ {h}
<1>1. h \in Nat /\ h < QueueLen /\ t \in Nat /\ t < QueueLen /\ QueueLen \in Nat \ {0}
  BY SolenoidAssumption DEF Slots
<1>2. n = IF t >= h THEN t - h ELSE t - h + QueueLen
  BY SlotNumbers
<1>3. After(h) = IF h = QueueLen - 1 THEN 0 ELSE h + 1
  BY <1>1, Modulo DEF After
<1>4. After(h) \in Slots
  BY <1>1, <1>3 DEF Slots
<1>5. Waiting(After(h), t) = IF t >= After(h) THEN t - After(h) ELSE t - After(h) + QueueLen
  BY <1>4, SlotNumbers
<1>6. ASSUME NEW i \in 1 .. n - 1
      PROVE  /\ (After(h) + i - 1) % QueueLen = (h + (i + 1) - 1) % QueueLen
             /\ (After(h) + i - 1) % QueueLen \in Slots \ {h}
  <2>1. i \in Nat /\ i \in 1 .. QueueLen /\ i + 1 \in 1 .. QueueLen
    BY <1>1, <1>2
  <2>2. (After(h) + i - 1) % QueueLen = IF After(h) + i - 1 < QueueLen
                                          THEN After(h) + i - 1 ELSE After(h) + i - 1 - QueueLen
    BY <1>4, <2>1, SlotNumbers
  <2>3. (h + (i + 1) - 1) % QueueLen = IF h + (i + 1) - 1 < QueueLen
                                         THEN h + (i + 1) - 1 ELSE h + (i + 1) - 1 - QueueLen
    BY <2>1, SlotNumbers
  <2>4. (After(h) + i - 1) % QueueLen = (h + (i + 1) - 1) % QueueLen
    BY <1>1, <1>3, <2>1, <2>2, <2>3
  <2>5. (After(h) + i - 1) % QueueLen \in Slots \ {h}
    BY <1>1, <1>2, <1>3, <2>1, <2>2 DEF Slots
  <2> QED BY <2>4, <2>5
<1>7. n \in Nat \ {0} /\ n < QueueLen /\ h % QueueLen = h /\ Waiting(After(h), t) = n - 1
  BY <1>1, <1>2, <1>3, <1>5, Modulo
<1> QED BY <1>4, <1>6, <1>7

Stored(e, h, t) == [i \in 1 .. Waiting(h, t) |-> e[(h + i - 1) % QueueLen]]

LEMMA StoredSeq ==
  ASSUME NEW e \in [Slots -> Sols \cup {NoSol}], NEW h \in Slots, NEW t \in Slots
  PROVE  /\ Waiting(h, t) \in Slots
         /\ Stored(e, h, t) \in Seq(Sols \cup {NoSol}) /\ Len(Stored(e, h, t)) = Waiting(h, t)
         /\ \A i \in 1 .. Waiting(h, t) : Stored(e, h, t)[i] = e[(h + i - 1) % QueueLen]
<1>1. h \in Nat /\ t \in Nat /\ QueueLen \in Nat \ {0} /\ Waiting(h, t) \in Slots
  BY SolenoidAssumption, Modulo DEF Slots, Waiting
<1>2. \A i \in 1 .. Waiting(h, t) : (h + i - 1) % QueueLen \in Slots
  BY <1>1 DEF Slots
<1>3. \A i \in 1 .. Waiting(h, t) : e[(h + i - 1) % QueueLen] \in Sols \cup {NoSol}
  BY <1>2
<1>4. Waiting(h, t) \in Nat
  BY <1>1 DEF Slots
<1>5. Stored(e, h, t) \in Seq(Sols \cup {NoSol})
  BY <1>3, <1>4, IsASeq DEF Stored
<1> QED BY <1>1, <1>4, <1>5 DEF Stored

LEMMA PendingStored ==
  ASSUME TypeOK, TypeOK'
  PROVE  /\ head \in Slots /\ tail \in Slots /\ elems \in [Slots -> Sols \cup {NoSol}]
         /\ head' \in Slots /\ tail' \in Slots /\ elems' \in [Slots -> Sols \cup {NoSol}]
         /\ Pending = Stored(elems, head, tail) /\ Pending' = Stored(elems', head', tail')
  BY DEF TypeOK, Pending, Stored, Waiting, Slots

(* A step that leaves the ring alone.                                      *)
LEMMA RingKept == ASSUME UNCHANGED ring PROVE Pending' = Pending
  BY DEF ring, Pending
(* queue_insert puts the pulse behind all others, or wraps the ring.       *)
LEMMA InsertOrder ==
  ASSUME TypeOK, TypeOK', NEW s \in Sols, QueueInsert(s)
  PROVE  Deferred
<1> DEFINE n  == Waiting(head, tail)
           n1 == Waiting(head', tail')
<1>1. /\ head \in Slots /\ tail \in Slots
      /\ head' = head /\ tail' = After(tail) /\ elems' = [elems EXCEPT ![tail] = s]
  BY DEF QueueInsert, TypeOK
<1>2. /\ n \in Nat /\ n1 = IF n = QueueLen - 1 THEN 0 ELSE n + 1
      /\ \A i \in 1 .. n : (head + i - 1) % QueueLen \in Slots \ {tail}
      /\ n # QueueLen - 1 => (head + (n + 1) - 1) % QueueLen = tail
  <2>1. n \in Slots
    BY <1>1, SlotBehind
  <2>2. n \in Nat
    BY <2>1, SolenoidAssumption DEF Slots
  <2> QED BY <1>1, <2>2, SlotBehind
<1>3. /\ Pending \in Seq(Sols \cup {NoSol}) /\ Len(Pending) = n
      /\ Pending' \in Seq(Sols \cup {NoSol}) /\ Len(Pending') = n1
      /\ \A i \in 1 .. n : Pending[i] = elems[(head + i - 1) % QueueLen]
      /\ \A i \in 1 .. n1 : Pending'[i] = elems'[(head' + i - 1) % QueueLen]
  BY PendingStored, StoredSeq
<1> HIDE DEF n, n1
<1>4. CASE n = QueueLen - 1
  <2>1. Pending' = <<>>
    BY <1>2, <1>3, <1>4, EmptySeq
  <2> QED BY <1>3, <1>4, <2>1 DEF Deferred
<1>5. CASE n # QueueLen - 1
  <2>1. \A i \in 1 .. n : Pending'[i] = Pending[i]
    BY <1>1, <1>2, <1>3, <1>5 DEF TypeOK
  <2>2. Pending'[n + 1] = s
    <3>1. Pending'[n + 1] = elems'[(head' + (n + 1) - 1) % QueueLen]
      BY <1>2, <1>3, <1>5
    <3> QED BY <1>1, <1>2, <1>5, <3>1 DEF TypeOK
  <2>3. /\ Append(Pending, s) \in Seq(Sols \cup {NoSol}) /\ Len(Append(Pending, s)) = n1
        /\ \A i \in 1 .. n : Append(Pending, s)[i] = Pending[i]
        /\ Append(Pending, s)[n + 1] = s
    BY <1>2, <1>3, <1>5, AppendProperties
  <2>4. Len(Pending') = Len(Append(Pending, s))
        /\ \A i \in 1 .. Len(Pending') : Pending'[i] = Append(Pending, s)[i]
    BY <1>2, <1>3, <1>5, <2>1, <2>2, <2>3
  <2>5. Pending' = Append(Pending, s)
    BY <1>3, <2>3, <2>4, SeqEqual
  <2> QED BY <2>5 DEF Deferred
<1> QED BY <1>4, <1>5

(* idle_every_100ms starts the pulse that has waited longest.              *)
LEMMA RemoveOrder ==
  ASSUME TypeOK, TypeOK', QueueRemove
  PROVE  Deferred
<1> DEFINE n  == Waiting(head, tail)
           n1 == Waiting(head', tail')
<1>1. /\ head \in Slots /\ tail \in Slots /\ head # tail
      /\ tail' = tail /\ head' = After(head)
      /\ elems' = [elems EXCEPT ![head] = NoSol] /\ sol_pulsing' = elems[head]
  BY DEF QueueRemove, Start, TypeOK
<1>2. /\ n \in Nat \ {0} /\ head % QueueLen = head /\ n1 = n - 1
      /\ \A i \in 1 .. n - 1 : /\ (head' + i - 1) % QueueLen = (head + (i + 1) - 1) % QueueLen
                               /\ (head' + i - 1) % QueueLen \in Slots \ {head}
  BY <1>1, SlotAhead
<1>3. /\ Pending \in Seq(Sols \cup {NoSol}) /\ Len(Pending) = n
      /\ Pending' \in Seq(Sols \cup {NoSol}) /\ Len(Pending') = n1
      /\ \A i \in 1 .. n : Pending[i] = elems[(head + i - 1) % QueueLen]
      /\ \A i \in 1 .. n1 : Pending'[i] = elems'[(head' + i - 1) % QueueLen]
  BY PendingStored, StoredSeq
<1> HIDE DEF n, n1
<1>4. Pending # <<>>
  BY <1>2, <1>3, EmptySeq
<1>5. Head(Pending) = sol_pulsing'
  <2>1. head + 1 - 1 = head
    BY <1>1, SolenoidAssumption DEF Slots
  <2>2. Pending[1] = elems[(head + 1 - 1) % QueueLen]
    BY <1>2, <1>3
  <2> QED BY <1>1, <1>2, <1>3, <1>4, <2>1, <2>2
<1>6. ASSUME NEW i \in 1 .. n1 PROVE Pending'[i] = Pending[i + 1]
  <2>1. i \in 1 .. n - 1 /\ i + 1 \in 1 .. n
    BY <1>2
  <2>2. Pending'[i] = elems[(head' + i - 1) % QueueLen]
    BY <1>1, <1>2, <1>3, <2>1 DEF TypeOK
  <2> QED BY <1>2, <1>3, <2>1, <2>2
<1>7. /\ Tail(Pending) \in Seq(Sols \cup {NoSol}) /\ Len(Tail(Pending)) = n1
      /\ \A i \in 1 .. n1 : Tail(Pending)[i] = Pending[i + 1]
  BY <1>2, <1>3, <1>4, HeadTailProperties
<1>8. Pending' = Tail(Pending)
  <2>1. Len(Pending') = Len(Tail(Pending)) /\ \A i \in 1 .. Len(Pending') : Pending'[i] = Tail(Pending)[i]
    BY <1>3, <1>6, <1>7
  <2> QED BY <1>3, <1>7, <2>1, SeqEqual
<1> QED BY <1>4, <1>5, <1>8 DEF Deferred

(* Deferred pulses are started in the order of their requests, each once,  *)
(* however requests, ticks and kills come in between; what a full ring     *)
(* does is the one exception.                                              *)
THEOREM DeferredStayInOrder == Spec => DeferredInOrder
<1>1. ASSUME SolInv, SolInv', [Next]_vars PROVE [Deferred]_vars
  <2>1. CASE UNCHANGED vars
    BY <2>1
  <2>2. CASE Sync \/ SolReqRtt \/ \E s \in Sols : SolRequestAsync(s)
    BY <2>2, RingKept DEF Deferred, Sync, SolAllocWaits, SolAlloc, SolFree, KillUser,
                          SolReqRtt, SolRequestAsync, ring
  <2>3. CASE QueueRemove \/ \E s \in Sols : QueueInsert(s)
    BY <1>1, <2>3, InsertOrder, RemoveOrder DEF SolInv
  <2> QED BY <1>1, <2>1, <2>2, <2>3 DEF Next, Async
<1>2. SolInv /\ SolInv' /\ [Next]_vars => [Deferred]_vars
  BY <1>1
<1> QED BY <1>2, InitInv, NextInv, PTL DEF Spec, DeferredInOrder
=============================================================================
