---------------------------- MODULE TasksProofs ----------------------------
(* Safety of the task layer, for every table size, group and duration set. *)
EXTENDS Tasks, TLAPS

(* How late the clock can find a sleeping task: the scan has still to come *)
(* to the blocks from tp on, and looked at every other block in this pass. *)
Pending(b)  == pc \in {"scan", "run", "weeds"} /\ b >= tp
Lateness(b) == elapsed + (IF Pending(b) THEN MaxPass ELSE 0)
Overdue(b)  == block[b].state = "blocked" /\ Reached(b)

OverdueBounded ==
  pc # "fatal" => \A b \in Blocks : Overdue(b) => Wrap - block[b].due <= Lateness(b)

(* The inductive invariant: outside a task the dispatcher owns the CPU.    *)
IInv ==
  /\ TypeOK
  /\ TailCoversAllocated
  /\ ScanInsideTable
  /\ pc \in {"scan", "periodic", "idle"} => task_current = NoTask
  /\ pc = "run" => tp = task_current
  /\ OverdueBounded

(* The table's size is a natural number, and NoTask is not a block.        *)
LEMMA TableSize ==
  /\ NumTasks \in Nat /\ NumTasks >= ChunkSize
  /\ ChunkSize \in Nat /\ ChunkSize >= 2
  /\ 0 \in Blocks
  /\ Blocks \subseteq Nat
  /\ NoTask \notin Blocks
  <1>1. NumChunks \in Nat /\ NumChunks >= 1 /\ ChunkSize \in Nat /\ ChunkSize >= 2
    BY TableAssumption
  <1>2. NumChunks * ChunkSize >= ChunkSize /\ NumChunks * ChunkSize \in Nat
    BY <1>1
  <1>3. QED
    BY <1>1, <1>2 DEF NumTasks, Blocks, NoTask

(* A tail is a whole number of chunks: it lies in the table, and one that  *)
(* is not at the end can be extended by a chunk.                           *)
LEMMA TailGrows ==
  ASSUME task_tail \in Tails
  PROVE  /\ task_tail \in Nat /\ task_tail >= ChunkSize /\ task_tail <= NumTasks
         /\ task_tail < NumTasks =>
              /\ task_tail \in Blocks
              /\ task_tail + ChunkSize \in Tails
  <1>1. PICK n \in 1 .. NumChunks : task_tail = n * ChunkSize
    BY DEF Tails
  <1>2. NumChunks \in Nat /\ ChunkSize \in Nat /\ ChunkSize >= 2
    BY TableAssumption
  <1>3. n * ChunkSize \in Nat /\ n * ChunkSize >= ChunkSize /\ n * ChunkSize <= NumChunks * ChunkSize
    BY <1>2
  <1>4. ASSUME n * ChunkSize < NumChunks * ChunkSize
        PROVE  n + 1 \in 1 .. NumChunks /\ n * ChunkSize + ChunkSize = (n + 1) * ChunkSize
    BY <1>2, <1>4
  <1>5. QED
    BY <1>1, <1>2, <1>3, <1>4 DEF NumTasks, Blocks, Tails

(* A tail from which k chunks are taken is a tail, when it stays positive. *)
LEMMA TailRewinds ==
  ASSUME task_tail \in Tails, NEW k \in Nat, task_tail - k * ChunkSize > 0
  PROVE  task_tail - k * ChunkSize \in Tails /\ task_tail - k * ChunkSize <= task_tail
  <1>1. PICK n \in 1 .. NumChunks : task_tail = n * ChunkSize
    BY DEF Tails
  <1>2. NumChunks \in Nat /\ ChunkSize \in Nat /\ ChunkSize >= 2
    BY TableAssumption
  <1>3. n \in Int /\ k \in Int /\ n * ChunkSize - k * ChunkSize = (n - k) * ChunkSize
    BY <1>2
  <1>4. n - k >= 1
    BY <1>1, <1>2, <1>3
  <1>5. k * ChunkSize >= 0 /\ k * ChunkSize \in Int /\ n * ChunkSize \in Int
    BY <1>2
  <1>6. n - k \in 1 .. NumChunks
    BY <1>2, <1>4
  <1>7. QED
    BY <1>1, <1>3, <1>5, <1>6 DEF Tails

(* The records the API writes are blocks.                                  *)
LEMMA BlockRecords ==
  /\ Free \in Block /\ Malloc \in Block
  /\ Free.state = "free" /\ Malloc.state = "malloc"
  /\ \A g \in Gids, d \in SUBSET Flags :
       NewTask(g, d) \in Block /\ NewTask(g, d).state = "ready"
  BY TableAssumption, ClockAssumption DEF Free, Malloc, NewTask, Block, Infinite, Wrap

(* What an allocation in the table t leaves: the new block was free, and   *)
(* the tail covers it and everything in use.                               *)
LEMMA Allocation ==
  ASSUME NEW t \in [Blocks -> Block], NEW new \in Block,
         task_tail \in Tails,
         \A b \in Blocks : b >= task_tail => t[b].state = "free",
         Allocate(t, new)
  PROVE  \E b \in Blocks :
           /\ t[b].state = "free"
           /\ block' = [t EXCEPT ![b] = new]
           /\ task_tail' \in Tails
           /\ task_tail <= task_tail' /\ b < task_tail'
  <1>1. CASE \E b \in FreeIn(t) : /\ \A c \in FreeIn(t) : b <= c
                                  /\ block' = [t EXCEPT ![b] = new]
                                  /\ UNCHANGED task_tail
    <2>1. PICK b \in FreeIn(t) : block' = [t EXCEPT ![b] = new] /\ task_tail' = task_tail
      BY <1>1
    <2>2. b \in Blocks /\ b < task_tail /\ t[b].state = "free" /\ task_tail <= task_tail
      BY TailGrows DEF FreeIn, Scanned
    <2>3. QED
      BY <2>1, <2>2
  <1>2. CASE /\ FreeIn(t) = {} /\ task_tail < NumTasks
             /\ block' = [t EXCEPT ![task_tail] = new]
             /\ task_tail' = task_tail + ChunkSize
    <2>1. task_tail \in Blocks /\ task_tail' \in Tails
      BY <1>2, TailGrows
    <2>2. task_tail <= task_tail' /\ task_tail < task_tail' /\ task_tail >= task_tail
      BY <1>2, TableSize, TailGrows
    <2>3. QED
      BY <1>2, <2>1, <2>2
  <1>3. QED
    BY <1>1, <1>2 DEF Allocate

(* A call of the API that is not fatal preserves the invariant when it     *)
(* wakes or blocks no task, leaves nothing in use beyond the tail, and     *)
(* leaves the running task in place.                                       *)
LEMMA CallKeepsInvariant ==
  ASSUME IInv, InCode,
         block' \in [Blocks -> Block],
         task_tail' \in Tails,
         \A b \in Blocks : b >= task_tail' => block'[b].state = "free",
         \A b \in Blocks : block'[b].state = "blocked" =>
            block[b].state = "blocked" /\ block'[b].due = block[b].due,
         pc = "run" => /\ task_current < task_tail'
                       /\ block'[task_current].state = "ready",
         UNCHANGED <<task_current, tp, pc, elapsed>>
  PROVE  IInv'
  <1>1. TypeOK'
    BY DEF IInv, TypeOK
  <1>2. TailCoversAllocated'
    BY DEF TailCoversAllocated, Used
  <1>3. ScanInsideTable'
    BY DEF IInv, ScanInsideTable, InCode, Scanned
  <1>4. /\ (pc \in {"scan", "periodic", "idle"} => task_current = NoTask)'
        /\ (pc = "run" => tp = task_current)'
    BY DEF IInv
  <1>5. OverdueBounded'
    BY DEF IInv, OverdueBounded, Overdue, Reached, Lateness, Pending
  <1>6. QED
    BY <1>1, <1>2, <1>3, <1>4, <1>5 DEF IInv

(* A fatal call preserves the invariant when it only frees blocks.         *)
LEMMA FatalKeepsInvariant ==
  ASSUME IInv,
         block' \in [Blocks -> Block],
         \A b \in Blocks : block[b].state = "free" => block'[b].state = "free",
         pc' = "fatal",
         UNCHANGED <<task_tail, task_current, tp, elapsed>>
  PROVE  IInv'
  <1>1. TypeOK'
    BY DEF IInv, TypeOK
  <1>2. TailCoversAllocated'
    BY DEF IInv, TailCoversAllocated, Used
  <1>3. QED
    BY <1>1, <1>2 DEF IInv, ScanInsideTable, OverdueBounded

(* A table in which some blocks were freed, the running task not among     *)
(* them, is as good a table to allocate from as the present one.           *)
FreedTable(t) ==
  /\ t \in [Blocks -> Block]
  /\ \A b \in Blocks : t[b] = block[b] \/ t[b].state = "free"
  /\ pc = "run" => t[task_current] = block[task_current]

(* Allocating in a freed table preserves the invariant, fatal or not.      *)
LEMMA AllocationKeepsInvariant ==
  ASSUME IInv, InCode, NEW t, FreedTable(t), NEW new \in Block, new.state # "blocked",
         AllocateOrDie(t, new), UNCHANGED <<task_current, tp, elapsed>>
  PROVE  IInv'
  <1> USE DEF FreedTable
  <1>0. /\ block \in [Blocks -> Block] /\ task_tail \in Tails
        /\ pc = "run" => /\ task_current \in Blocks /\ task_current < task_tail
                         /\ block[task_current].state = "ready"
    BY DEF IInv, TypeOK, ScanInsideTable, Scanned
  <1>1. \A b \in Blocks : b >= task_tail => t[b].state = "free"
    BY DEF IInv, TailCoversAllocated, Used
  <1>2. CASE Allocate(t, new) /\ UNCHANGED pc
    <2>1. PICK b \in Blocks : /\ t[b].state = "free"
                              /\ block' = [t EXCEPT ![b] = new]
                              /\ task_tail' \in Tails
                              /\ task_tail <= task_tail' /\ b < task_tail'
      BY <1>0, <1>1, <1>2, Allocation
    <2>2. task_tail \in Nat /\ task_tail' \in Nat
      BY <1>0, <2>1, TableSize DEF Tails
    <2>3. \A c \in Blocks : c >= task_tail' => block'[c].state = "free"
      <3> SUFFICES ASSUME NEW c \in Blocks, c >= task_tail' PROVE block'[c].state = "free"
        OBVIOUS
      <3>1. c # b /\ c >= task_tail
        BY <2>1, <2>2, TableSize
      <3>2. QED
        BY <1>1, <2>1, <3>1
    <2>4. pc = "run" => task_current < task_tail' /\ block'[task_current].state = "ready"
      <3> SUFFICES ASSUME pc = "run"
                   PROVE  task_current < task_tail' /\ block'[task_current].state = "ready"
        OBVIOUS
      <3>1. task_current # b /\ task_current \in Nat
        BY <1>0, <2>1, TableSize
      <3>2. task_current < task_tail'
        BY <1>0, <2>1, <2>2, <3>1
      <3>3. QED
        BY <1>0, <2>1, <3>1, <3>2
    <2>5. block' \in [Blocks -> Block]
      BY <2>1
    <2>6. \A c \in Blocks : block'[c].state = "blocked" =>
             block[c].state = "blocked" /\ block'[c].due = block[c].due
      BY <2>1
    <2>7. QED
      BY <1>2, <2>1, <2>3, <2>4, <2>5, <2>6, CallKeepsInvariant
  <1>3. CASE block' = t /\ pc' = "fatal" /\ UNCHANGED task_tail
    BY <1>3, FatalKeepsInvariant
  <1>4. QED
    BY <1>2, <1>3 DEF AllocateOrDie

(* The kills of a group free tasks and never the running one.              *)
LEMMA WithoutIsFreed ==
  ASSUME IInv, NEW K \in SUBSET Blocks, pc = "run" => task_current \notin K
  PROVE  FreedTable(Without(K))
  <1>1. block \in [Blocks -> Block] /\ (pc = "run" => task_current \in Blocks)
    BY DEF IInv, TypeOK, ScanInsideTable, Scanned
  <1>2. QED
    BY <1>1, BlockRecords DEF FreedTable, Without

(* A call that only replaces the table by a freed one keeps the invariant. *)
LEMMA FreeingKeepsInvariant ==
  ASSUME IInv, InCode, FreedTable(block'),
         UNCHANGED <<task_tail, task_current, tp, pc, elapsed>>
  PROVE  IInv'
  <1>1. /\ task_tail' \in Tails
        /\ pc = "run" => task_current < task_tail' /\ block'[task_current].state = "ready"
    BY DEF IInv, TypeOK, ScanInsideTable, FreedTable, Scanned
  <1>2. /\ block' \in [Blocks -> Block]
        /\ \A b \in Blocks : block'[b] = block[b] \/ block'[b].state = "free"
    BY DEF FreedTable
  <1>3. \A b \in Blocks : b >= task_tail' => block'[b].state = "free"
    BY <1>2 DEF IInv, TailCoversAllocated, Used
  <1>4. QED
    BY <1>1, <1>2, <1>3, CallKeepsInvariant

(* A call that changes one field of the running task keeps the invariant.  *)
LEMMA OwnFieldKeepsInvariant ==
  ASSUME IInv, pc = "run", NEW r \in Block, r.state = "ready",
         block' = [block EXCEPT ![task_current] = r],
         UNCHANGED <<task_tail, task_current, tp, pc, elapsed>>
  PROVE  IInv'
  <1>1. /\ block \in [Blocks -> Block] /\ task_tail \in Tails
        /\ task_current \in Blocks /\ task_current < task_tail
    BY DEF IInv, TypeOK, ScanInsideTable, Scanned
  <1>2. task_current \in Nat /\ task_tail \in Nat
    BY <1>1, TableSize, TailGrows
  <1>3. \A b \in Blocks : b >= task_tail' => block'[b].state = "free"
    BY <1>1, <1>2, TableSize DEF IInv, TailCoversAllocated, Used
  <1>4. QED
    BY <1>1, <1>3, CallKeepsInvariant DEF InCode

(* Rewinding the tail leaves every block in use below it: the chunks taken *)
(* are part of the run of free blocks at the end of the table.             *)
LEMMA ChunkKeepsInvariant == IInv /\ TaskChunk => IInv'
  <1> SUFFICES ASSUME IInv, TaskChunk PROVE IInv'
    OBVIOUS
  <1>1. /\ block \in [Blocks -> Block] /\ task_tail \in Tails /\ pc = "run"
        /\ task_current \in Blocks /\ task_current < task_tail
        /\ block[task_current].state = "ready"
    BY DEF IInv, TypeOK, ScanInsideTable, Scanned, TaskChunk
  <1>2. PICK n \in 0 .. NumTasks, k \in 0 .. NumChunks :
           /\ FreeRun(n)
           /\ k > 0 => n - (k - 1) * ChunkSize >= FreeChunkSize
           /\ task_tail' = task_tail - k * ChunkSize
    BY DEF TaskChunk
  <1>3. /\ n \in Nat /\ k \in Nat /\ task_current \in Nat /\ task_tail \in Nat
        /\ FreeChunkSize \in Nat /\ FreeChunkSize >= ChunkSize
    BY <1>1, TableSize, TailGrows, TableAssumption DEF NumTasks
  <1>4. UNCHANGED <<block, task_current, tp, pc, elapsed>>
    BY DEF TaskChunk
  <1>5. CASE k = 0
    <2>1. task_tail' = task_tail
      BY <1>2, <1>3, <1>5, TableSize
    <2>2. FreedTable(block')
      BY <1>1, <1>4 DEF FreedTable
    <2>3. QED
      BY <1>1, <1>4, <2>1, <2>2, FreeingKeepsInvariant DEF InCode
  <1>6. CASE k > 0
    <2> DEFINE low == task_tail - 1 - n
    <2>1. /\ k * ChunkSize \in Nat
          /\ (k - 1) * ChunkSize = k * ChunkSize - ChunkSize
      BY <1>3, <1>6, TableSize
    <2>2. n - k * ChunkSize >= 0
      BY <1>2, <1>3, <1>6, <2>1, TableSize
    <2>3. low >= ChunkSize /\ \A b \in Scanned : b > low => ~Used(b)
      BY <1>2, <1>3, TableSize DEF FreeRun
    <2>4. task_tail' > low /\ task_tail' > 0
      BY <1>2, <1>3, <2>1, <2>2, <2>3, TableSize
    <2>5. task_tail' \in Tails
      BY <1>1, <1>2, <1>3, <2>4, TailRewinds
    <2>6. task_tail' \in Int /\ low \in Int
      BY <1>2, <1>3, <2>1
    <2>7. \A b \in Blocks : b >= task_tail' => block[b].state = "free"
      <3> HIDE DEF low
      <3> SUFFICES ASSUME NEW b \in Blocks, b >= task_tail' PROVE ~Used(b)
        BY DEF Used
      <3>1. CASE b >= task_tail
        BY <3>1 DEF IInv, TailCoversAllocated
      <3>2. CASE b < task_tail
        <4>1. b \in Int /\ b > low
          BY <2>4, <2>6, TableSize
        <4>2. QED
          BY <2>3, <3>2, <4>1 DEF Scanned
      <3>3. QED
        BY <1>3, <3>1, <3>2, TableSize
    <2>8. task_current < task_tail'
      BY <1>1, <1>3, <2>6, <2>7
    <2>9. QED
      BY <1>1, <1>4, <2>5, <2>7, <2>8, CallKeepsInvariant DEF InCode
  <1>7. QED
    BY <1>3, <1>5, <1>6

(* Every call of the task API keeps the invariant.                         *)
LEMMA ApiKeepsInvariant == IInv /\ Api => IInv'
  <1> SUFFICES ASSUME IInv, Api PROVE IInv'
    OBVIOUS
  <1>0. /\ block \in [Blocks -> Block]
        /\ pc = "run" => task_current \in Blocks /\ block[task_current].state = "ready"
        /\ pc = "periodic" => task_current = NoTask
    BY DEF IInv, TypeOK, ScanInsideTable, Scanned
  <1>1. \A g \in Gids, d \in Lifetimes : NewTask(g, d) \in Block /\ NewTask(g, d).state # "blocked"
    BY BlockRecords, TableAssumption
  <1>2. FreedTable(block)
    BY <1>0 DEF FreedTable
  <1>3. \A g \in Gids : FreedTable(Without(KilledByGid(g)))
    BY WithoutIsFreed DEF KilledByGid, Group, Scanned
  <1>4. ASSUME NEW g \in Gids, NEW d \in Lifetimes,
               TaskCreateGid(g, d) \/ TaskCreateGid1(g, d) \/ TaskRecreateGid(g, d)
        PROVE  IInv'
    <2>1. CASE TaskCreateGid(g, d) \/ TaskCreateGid1(g, d)
      BY <1>1, <1>2, <2>1, AllocationKeepsInvariant DEF TaskCreateGid, TaskCreateGid1, CreateIn
    <2>2. CASE TaskRecreateGid(g, d)
      BY <1>1, <1>3, <2>2, AllocationKeepsInvariant DEF TaskRecreateGid, CreateIn
    <2>3. QED
      BY <1>4, <2>1, <2>2
  <1>5. ASSUME NEW g \in Gids, TaskKillGid(g)
        PROVE  IInv'
    BY <1>3, <1>5, FreeingKeepsInvariant DEF TaskKillGid
  <1>6. ASSUME NEW g \in Gids, TaskSetGid(g)
        PROVE  IInv'
    <2> DEFINE r == [block[task_current] EXCEPT !.gid = g]
    <2>1. r \in Block /\ r.state = "ready"
      BY <1>0, <1>6 DEF TaskSetGid, Block
    <2>2. block' = [block EXCEPT ![task_current] = r]
      BY <1>6 DEF TaskSetGid
    <2>3. QED
      BY <1>6, <2>1, <2>2, OwnFieldKeepsInvariant DEF TaskSetGid
  <1>7. ASSUME NEW d \in Expiries, TaskRemoveDuration(d)
        PROVE  IInv'
    <2> DEFINE r == [block[task_current] EXCEPT !.duration = @ \ d]
    <2>1. r \in Block /\ r.state = "ready"
      BY <1>0, <1>7 DEF TaskRemoveDuration, Block
    <2>2. block' = [block EXCEPT ![task_current] = r]
      BY <1>7 DEF TaskRemoveDuration
    <2>3. QED
      BY <1>7, <2>1, <2>2, OwnFieldKeepsInvariant DEF TaskRemoveDuration
  <1>8. ASSUME NEW d \in Expiries, TaskDurationExpire(d)
        PROVE  IInv'
    <2>1. CASE task_current \in Expiring(d)
      <3>1. /\ block' = Without({b \in Expiring(d) : b < task_current}) /\ pc' = "fatal"
            /\ UNCHANGED <<task_tail, task_current, tp, elapsed>>
        BY <1>8, <2>1 DEF TaskDurationExpire
      <3>2. block' \in [Blocks -> Block] /\ \A b \in Blocks : block[b].state = "free" => block'[b].state = "free"
        BY <1>0, <3>1, BlockRecords DEF Without
      <3>3. QED
        BY <3>1, <3>2, FatalKeepsInvariant
    <2>2. CASE task_current \notin Expiring(d)
      <3>1. /\ block' = Without(Expiring(d))
            /\ UNCHANGED <<task_tail, task_current, tp, pc, elapsed>>
        BY <1>8, <2>2 DEF TaskDurationExpire
      <3>2. FreedTable(block')
        BY <2>2, <3>1, WithoutIsFreed DEF Expiring, Scanned
      <3>3. QED
        BY <1>8, <3>1, <3>2, FreeingKeepsInvariant DEF TaskDurationExpire
    <2>3. QED
      BY <2>1, <2>2
  <1>9. CASE MallocBlock
    BY <1>2, <1>9, BlockRecords, AllocationKeepsInvariant DEF MallocBlock, InCode
  <1>10. ASSUME NEW b \in Blocks, FreeMalloc(b)
         PROVE  IInv'
    <2>1. FreedTable(block')
      BY <1>0, <1>10, BlockRecords DEF FreeMalloc, FreedTable
    <2>2. QED
      BY <1>10, <2>1, FreeingKeepsInvariant DEF FreeMalloc, InCode
  <1>11. QED
    BY <1>4, <1>5, <1>6, <1>7, <1>8, <1>9, <1>10, ChunkKeepsInvariant DEF Api

(* A sleep or an exit hands the rest of the scan to the dispatcher: the    *)
(* blocks after the task that stopped are still to come.                   *)
LEMMA SuspendKeepsInvariant == IInv /\ Suspend => IInv'
  <1> SUFFICES ASSUME IInv, Suspend PROVE IInv'
    OBVIOUS
  <1>1. PICK r \in Block :
           /\ pc = "run"
           /\ block' = [block EXCEPT ![task_current] = r]
           /\ r.state # "blocked" \/ r.due < Half
           /\ EnterDispatcher
           /\ UNCHANGED <<task_tail, elapsed>>
    <2>1. CASE TaskExit
      BY <2>1, BlockRecords DEF TaskExit
    <2>2. ASSUME NEW n \in 0 .. MaxSleep, TaskSleep(n)
          PROVE  \E r \in Block :
                    /\ pc = "run"
                    /\ block' = [block EXCEPT ![task_current] = r]
                    /\ r.state # "blocked" \/ r.due < Half
                    /\ EnterDispatcher
                    /\ UNCHANGED <<task_tail, elapsed>>
      <3> DEFINE s == [block[task_current] EXCEPT !.state = "blocked", !.due = n]
      <3>1. block[task_current] \in Block /\ block \in [Blocks -> Block]
        BY <2>2 DEF IInv, TypeOK, ScanInsideTable, Scanned, TaskSleep
      <3>2. n \in 0 .. Wrap - 1 /\ n < Half
        BY ClockAssumption DEF Wrap
      <3>3. s \in Block /\ s.due = n
        BY <3>1, <3>2 DEF Block
      <3>4. block' = [block EXCEPT ![task_current] = s]
        BY <2>2 DEF TaskSleep
      <3>5. QED
        BY <2>2, <3>2, <3>3, <3>4 DEF TaskSleep
    <2>3. QED
      BY <2>1, <2>2 DEF Suspend
  <1>2. /\ block \in [Blocks -> Block] /\ task_tail \in Tails
        /\ task_current \in Blocks /\ task_current < task_tail /\ tp = task_current
        /\ elapsed \in 0 .. MaxPass
    BY <1>1 DEF IInv, TypeOK, ScanInsideTable, Scanned
  <1>3. /\ task_current \in Nat /\ task_tail \in Nat /\ task_tail <= NumTasks
        /\ NumTasks \in Nat
    BY <1>2, TableSize, TailGrows
  <1>4. tp' = task_current + 1 /\ task_current' = NoTask /\ pc' = "scan"
    BY <1>1 DEF EnterDispatcher
  <1>5. tp' \in 0 .. NumTasks /\ tp' <= task_tail'
    BY <1>1, <1>2, <1>3, <1>4
  <1>6. TypeOK'
    BY <1>1, <1>2, <1>4, <1>5 DEF IInv, TypeOK
  <1>7. TailCoversAllocated'
    BY <1>1, <1>2, <1>3, TableSize DEF IInv, TailCoversAllocated, Used
  <1>8. ScanInsideTable'
    BY <1>4, <1>5 DEF ScanInsideTable
  <1>9. OverdueBounded'
    <2> SUFFICES ASSUME NEW b \in Blocks, Overdue(b)'
                 PROVE  Wrap - block'[b].due <= Lateness(b)'
      BY DEF OverdueBounded
    <2>1. b # task_current
      BY <1>1, <1>2, ClockAssumption DEF Overdue, Reached, Block
    <2>2. block'[b] = block[b]
      BY <1>1, <2>1
    <2>3. Overdue(b)
      BY <2>2 DEF Overdue, Reached
    <2>4. Pending(b) => Pending(b)'
      BY <1>1, <1>2, <1>3, <1>4, <2>1, TableSize DEF Pending
    <2>5. Lateness(b) <= Lateness(b)'
      BY <1>1, <1>2, <2>4, ClockAssumption DEF Lateness
    <2>6. Wrap - block[b].due <= Lateness(b)
      BY <1>1, <2>3 DEF IInv, OverdueBounded
    <2>7. Wrap - block[b].due \in Int /\ Lateness(b) \in Int /\ Lateness(b)' \in Int
      BY <1>1, <1>2, ClockAssumption DEF Block, Lateness, Wrap
    <2>8. QED
      BY <2>2, <2>5, <2>6, <2>7
  <1>10. QED
    BY <1>4, <1>6, <1>7, <1>8, <1>9 DEF IInv

(* A block still to be scanned keeps its allowance.                        *)
LEMMA AllowanceKept ==
  ASSUME IInv, elapsed' = elapsed, NEW b, Pending(b) => Pending(b)'
  PROVE  Lateness(b) <= Lateness(b)' /\ Lateness(b) \in Nat /\ Lateness(b)' \in Nat
  <1>1. MaxPass \in Nat /\ elapsed \in Nat
    BY ClockAssumption DEF IInv, TypeOK
  <1>2. CASE Pending(b)
    <2>1. Lateness(b) = elapsed + MaxPass /\ Lateness(b)' = elapsed' + MaxPass
      BY <1>2 DEF Lateness
    <2>2. QED
      BY <1>1, <2>1
  <1>3. CASE ~Pending(b)
    <2>1. Lateness(b) = elapsed + 0 /\ Lateness(b)' \in {elapsed' + MaxPass, elapsed' + 0}
      BY <1>3 DEF Lateness
    <2>2. QED
      BY <1>1, <2>1
  <1>4. QED
    BY <1>2, <1>3

(* A step that makes no other task overdue and shortens no allowance keeps *)
(* the bound on lateness.                                                  *)
LEMMA LatenessKept ==
  ASSUME IInv, pc # "fatal", elapsed' = elapsed,
         \A b \in Blocks : Overdue(b)' =>
            Overdue(b) /\ block'[b].due = block[b].due /\ (Pending(b) => Pending(b)')
  PROVE  OverdueBounded'
  <1> SUFFICES ASSUME NEW b \in Blocks, Overdue(b)'
               PROVE  Wrap - block'[b].due <= Lateness(b)'
    BY DEF OverdueBounded
  <1>1. Overdue(b) /\ block'[b].due = block[b].due /\ (Pending(b) => Pending(b)')
    OBVIOUS
  <1>2. Wrap - block[b].due <= Lateness(b)
    BY <1>1 DEF IInv, OverdueBounded
  <1>3. Wrap - block[b].due \in Int
    BY ClockAssumption DEF IInv, TypeOK, Block, Wrap
  <1>4. Lateness(b) <= Lateness(b)' /\ Lateness(b) \in Nat /\ Lateness(b)' \in Nat
    BY <1>1, AllowanceKept
  <1>5. QED
    BY <1>1, <1>2, <1>3, <1>4

(* A step of the dispatcher that does not change the tail keeps the scan   *)
(* inside the table and looks at every block it passes.                    *)
LEMMA DispatcherKeepsInvariant == IInv /\ Dispatcher => IInv'
  <1> SUFFICES ASSUME IInv, Dispatcher PROVE IInv'
    OBVIOUS
  <1>0. /\ block \in [Blocks -> Block] /\ task_tail \in Tails
        /\ tp \in 0 .. NumTasks /\ elapsed \in 0 .. MaxPass
        /\ pc = "scan" => tp <= task_tail
        /\ MaxPass \in Nat /\ Half \in Nat
    BY ClockAssumption DEF IInv, TypeOK, ScanInsideTable
  <1>1. /\ task_tail \in Nat /\ task_tail <= NumTasks /\ NumTasks \in Nat /\ tp \in Nat
    BY <1>0, TableSize, TailGrows
  <1>3. CASE DispatchSkip
    <2>1. pc = "scan" /\ tp < task_tail /\ tp' = tp + 1 /\ ~Overdue(tp)
      BY <1>0, <1>1, <1>3 DEF DispatchSkip, Overdue, Used, Asleep
    <2>2. UNCHANGED <<block, task_tail, task_current, pc, elapsed>>
      BY <1>3 DEF DispatchSkip
    <2>3. TypeOK' /\ TailCoversAllocated' /\ ScanInsideTable'
      BY <1>1, <2>1, <2>2 DEF IInv, TypeOK, TailCoversAllocated, ScanInsideTable, Used
    <2>4. ASSUME NEW b \in Blocks, Overdue(b)'
          PROVE  Overdue(b) /\ (Pending(b) => Pending(b)')
      <3>1. Overdue(b) /\ b # tp
        BY <2>1, <2>2, <2>4 DEF Overdue, Reached
      <3>2. b \in Nat
        BY TableSize
      <3>3. b >= tp => b >= tp'
        BY <1>1, <2>1, <3>1, <3>2
      <3>4. QED
        BY <2>1, <2>2, <3>1, <3>3 DEF Pending
    <2>5. OverdueBounded'
      BY <1>0, <2>1, <2>2, <2>4, LatenessKept
    <2>6. QED
      BY <2>1, <2>2, <2>3, <2>5 DEF IInv
  <1>4. CASE DispatchRestore
    <2>1. /\ pc = "scan" /\ tp < task_tail /\ tp \in Blocks /\ task_current' = tp
          /\ UNCHANGED <<task_tail, tp, elapsed>>
      BY <1>0, <1>1, <1>4, TableSize DEF DispatchRestore, Blocks
    <2>2. /\ block' \in [Blocks -> Block]
          /\ \A b \in Blocks : block'[b].state = "free" <=> block[b].state = "free"
          /\ \A b \in Blocks : block'[b].state = "blocked" => block'[b] = block[b]
          /\ pc' \in {"run", "weeds"} /\ (pc' = "run" => block'[tp].state = "ready")
      <3>1. CASE IsTask(tp)
        <4> DEFINE r == [block[tp] EXCEPT !.state = "ready", !.due = 0]
        <4>1. r \in Block /\ r.state = "ready"
          <5>1. block[tp] \in Block /\ 0 \in 0 .. Wrap - 1
            BY <1>0, <2>1, ClockAssumption DEF Wrap
          <5>2. QED
            BY <5>1 DEF Block
        <4>2. block' = [block EXCEPT ![tp] = r] /\ pc' = "run"
          BY <1>4, <3>1 DEF DispatchRestore
        <4> HIDE DEF r
        <4>3. QED
          BY <1>0, <2>1, <3>1, <4>1, <4>2 DEF IsTask
      <3>2. CASE ~IsTask(tp)
        BY <1>0, <1>4, <3>2 DEF DispatchRestore
      <3>3. QED
        BY <3>1, <3>2
    <2>3. TypeOK' /\ TailCoversAllocated' /\ ScanInsideTable'
      BY <2>1, <2>2 DEF IInv, TypeOK, TailCoversAllocated, ScanInsideTable, Used, Scanned
    <2>4. OverdueBounded'
      <3>1. \A b \in Blocks : Overdue(b)' => Overdue(b) /\ block'[b] = block[b] /\ (Pending(b) => Pending(b)')
        BY <2>1, <2>2 DEF Overdue, Reached, Pending
      <3>2. QED
        BY <1>0, <2>1, <3>1, LatenessKept
    <2>5. QED
      BY <2>1, <2>2, <2>3, <2>4 DEF IInv
  <1>5. CASE DispatchEnd
    <2>1. /\ pc = "scan" /\ tp = task_tail /\ pc' = "periodic"
          /\ UNCHANGED <<block, task_tail, task_current, tp, elapsed>>
      BY <1>5 DEF DispatchEnd
    <2>2. TypeOK' /\ TailCoversAllocated' /\ ScanInsideTable'
      BY <2>1 DEF IInv, TypeOK, TailCoversAllocated, ScanInsideTable, Used
    <2>3. \A b \in Blocks : Overdue(b) => ~Pending(b)
      BY <2>1 DEF IInv, TailCoversAllocated, Overdue, Pending, Used
    <2>4. OverdueBounded'
      <3>1. \A b \in Blocks : Overdue(b)' => Overdue(b)
        BY <2>1 DEF Overdue, Reached
      <3>2. QED
        BY <1>0, <2>1, <2>3, <3>1, LatenessKept
    <2>5. QED
      BY <2>1, <2>2, <2>4 DEF IInv
  <1>6. CASE PeriodicDone
    <2>1. /\ pc = "periodic" /\ pc' = "idle"
          /\ UNCHANGED <<block, task_tail, task_current, tp, elapsed>>
      BY <1>6 DEF PeriodicDone
    <2>2. TypeOK' /\ TailCoversAllocated' /\ ScanInsideTable'
      BY <2>1 DEF IInv, TypeOK, TailCoversAllocated, ScanInsideTable, Used
    <2>3. OverdueBounded'
      <3>1. \A b \in Blocks : Overdue(b)' => Overdue(b) /\ ~Pending(b)
        BY <2>1 DEF Overdue, Reached, Pending
      <3>2. QED
        BY <1>0, <2>1, <3>1, LatenessKept
    <2>4. QED
      BY <2>1, <2>2, <2>3 DEF IInv
  <1>7. CASE DispatchRewind
    <2>1. /\ pc = "idle" /\ pc' = "scan" /\ tp' = 0 /\ elapsed' = 0
          /\ UNCHANGED <<block, task_tail, task_current>>
      BY <1>7 DEF DispatchRewind
    <2>2. TypeOK' /\ TailCoversAllocated' /\ ScanInsideTable'
      BY <1>0, <1>1, <2>1 DEF IInv, TypeOK, TailCoversAllocated, ScanInsideTable, Used
    <2>3. ASSUME NEW b \in Blocks, Overdue(b)'
          PROVE  Wrap - block'[b].due <= Lateness(b)'
      <3>1. ~Pending(b) /\ Pending(b)'
        <4>1. b \in Nat
          BY TableSize
        <4>2. QED
          BY <2>1, <4>1 DEF Pending
      <3>2. Overdue(b)
        BY <2>1, <2>3 DEF Overdue, Reached
      <3>3. Wrap - block[b].due <= elapsed + 0
        BY <2>1, <3>1, <3>2 DEF IInv, OverdueBounded, Lateness
      <3>4. Wrap - block[b].due \in Int
        BY <1>0 DEF Block, Wrap
      <3>5. Wrap - block'[b].due <= 0 + MaxPass
        BY <1>0, <2>1, <3>3, <3>4
      <3>6. QED
        BY <2>1, <3>1, <3>5 DEF Lateness
    <2>4. QED
      BY <2>1, <2>2, <2>3 DEF IInv, OverdueBounded
  <1>8. QED
    BY <1>3, <1>4, <1>5, <1>6, <1>7 DEF Dispatcher

(* One tick of the 16-bit clock: a wakeup time ahead comes closer, one     *)
(* that is now becomes overdue, and the lateness bound keeps the clock     *)
(* from wrapping past it.                                                  *)
LEMMA TickAges ==
  ASSUME IInv, Tick, NEW b \in Blocks
  PROVE  /\ Aged(block[b]) \in Block
         /\ Aged(block[b]).state = block[b].state
         /\ Overdue(b) => block[b].due > Half /\ Aged(block[b]).due = block[b].due - 1
         /\ block[b].state = "blocked" /\ ~Overdue(b) =>
               Aged(block[b]).due < Half \/ Aged(block[b]).due = Wrap - 1
  <1> DEFINE due == block[b].due
  <1>1. /\ block[b] \in Block /\ due \in Nat /\ due < Wrap /\ Wrap = 2 * Half
        /\ Half \in Nat /\ Half > 0 /\ MaxPass \in Nat /\ 2 * MaxPass < Half
        /\ elapsed \in Nat /\ elapsed < MaxPass /\ pc # "fatal"
    BY ClockAssumption DEF IInv, TypeOK, Block, Wrap, Tick
  <1>2. (due - 1) % Wrap = IF due = 0 THEN Wrap - 1 ELSE due - 1
    BY <1>1
  <1>3. (due - 1) % Wrap \in 0 .. Wrap - 1
    BY <1>1, <1>2
  <1>4. CASE block[b].state = "blocked"
    <2>1. Aged(block[b]) = [block[b] EXCEPT !.due = (due - 1) % Wrap]
      BY <1>4 DEF Aged
    <2>2. Aged(block[b]) \in Block /\ Aged(block[b]).state = block[b].state
          /\ Aged(block[b]).due = (due - 1) % Wrap
      BY <1>1, <1>3, <2>1 DEF Block
    <2>3. ASSUME Overdue(b) PROVE due > Half
      <3>1. Wrap - due <= Lateness(b)
        BY <1>1, <2>3 DEF IInv, OverdueBounded
      <3>2. Lateness(b) <= elapsed + MaxPass
        BY <1>1 DEF Lateness
      <3>3. Lateness(b) \in Int
        BY <1>1 DEF Lateness
      <3>4. QED
        BY <1>1, <3>1, <3>2, <3>3
    <2>4. QED
      BY <1>1, <1>2, <1>4, <2>2, <2>3 DEF Overdue, Reached
  <1>5. CASE block[b].state # "blocked"
    BY <1>1, <1>5 DEF Aged, Overdue
  <1>6. QED
    BY <1>4, <1>5

(* The clock interrupt keeps the invariant.                                *)
LEMMA TickKeepsInvariant == IInv /\ Tick => IInv'
  <1> SUFFICES ASSUME IInv, Tick PROVE IInv'
    OBVIOUS
  <1>1. /\ block \in [Blocks -> Block] /\ elapsed \in Nat /\ elapsed' = elapsed + 1
        /\ elapsed' \in 0 .. MaxPass /\ pc # "fatal" /\ MaxPass \in Nat /\ Half \in Nat
        /\ Wrap = 2 * Half
        /\ UNCHANGED <<task_tail, task_current, tp, pc>>
    BY ClockAssumption DEF IInv, TypeOK, Tick, Wrap
  <1>2. \A b \in Blocks : block'[b] = Aged(block[b])
    BY DEF Tick
  <1>3. block' \in [Blocks -> Block] /\ \A b \in Blocks : block'[b].state = block[b].state
    <2>1. \A b \in Blocks : Aged(block[b]) \in Block
      BY TickAges
    <2>2. \A b \in Blocks : Aged(block[b]).state = block[b].state
      BY TickAges
    <2>3. QED
      BY <2>1, <2>2 DEF Tick
  <1>4. TypeOK' /\ TailCoversAllocated'
    BY <1>1, <1>3 DEF IInv, TypeOK, TailCoversAllocated, Used
  <1>5. ScanInsideTable'
    BY <1>1, <1>3 DEF IInv, ScanInsideTable, Scanned
  <1>6. ASSUME NEW b \in Blocks, Overdue(b)'
        PROVE  Wrap - block'[b].due <= Lateness(b)'
    <2>1. block[b].state = "blocked" /\ block'[b].due >= Half
      BY <1>2, <1>3, <1>6 DEF Overdue, Reached
    <2>2. Lateness(b)' = Lateness(b) + 1 /\ Lateness(b) \in Nat
      <3>1. Pending(b)' = Pending(b)
        BY <1>1 DEF Pending
      <3>2. CASE Pending(b)
        BY <1>1, <3>1, <3>2 DEF Lateness
      <3>3. CASE ~Pending(b)
        <4>1. Lateness(b)' = elapsed' + 0 /\ Lateness(b) = elapsed + 0
          BY <3>1, <3>3 DEF Lateness
        <4>2. QED
          BY <1>1, <4>1
      <3>4. QED
        BY <3>2, <3>3
    <2>3. block[b].due \in Nat
      BY <1>1 DEF Block
    <2>4. CASE Overdue(b)
      <3>1. block'[b].due = block[b].due - 1
        BY <1>2, <2>4, TickAges
      <3>2. Wrap - block[b].due <= Lateness(b)
        BY <1>1, <2>4 DEF IInv, OverdueBounded
      <3>3. QED
        BY <1>1, <2>2, <2>3, <3>1, <3>2
    <2>5. CASE ~Overdue(b)
      <3>1. block'[b].due < Half \/ block'[b].due = Wrap - 1
        BY <1>2, <2>1, <2>5, TickAges
      <3>2. block'[b].due = Wrap - 1
        BY <1>1, <1>3, <2>1, <3>1 DEF Block
      <3>3. QED
        BY <1>1, <2>2, <3>2
    <2>6. QED
      BY <2>4, <2>5
  <1>7. QED
    BY <1>1, <1>4, <1>5, <1>6 DEF IInv, OverdueBounded

(* The boot thread is a task of a table that has no other.                 *)
LEMMA BootTable ==
  /\ BootBlocks \in [Blocks -> Block]
  /\ BootBlocks[0].state = "ready" /\ \A b \in Blocks \ {0} : BootBlocks[b] = Free
  /\ ChunkSize \in Tails
  <1>1. /\ FirstGid \in Gids /\ Ball \in SUBSET Flags
        /\ NumChunks \in Nat /\ NumChunks >= 1 /\ ChunkSize \in Nat
    BY TableAssumption DEF Ball, Flags
  <1>2. 1 \in 1 .. NumChunks /\ ChunkSize = 1 * ChunkSize
    BY <1>1
  <1>3. NewTask(FirstGid, Ball) \in Block /\ NewTask(FirstGid, Ball).state = "ready"
    BY <1>1, BlockRecords
  <1>4. QED
    BY <1>2, <1>3, BlockRecords, TableSize DEF BootBlocks, Tails

(* task_init leaves the boot thread alone in a table the scan fits.         *)
LEMMA InitInvariant == Init => IInv
  <1> SUFFICES ASSUME Init PROVE IInv
    OBVIOUS
  <1>1. /\ block = BootBlocks /\ task_tail = ChunkSize /\ task_current = 0
        /\ tp = 0 /\ pc = "run" /\ elapsed = 0
    BY DEF Init
  <1>2. TypeOK
    BY <1>1, BootTable, TableSize, ClockAssumption DEF TypeOK
  <1>3. TailCoversAllocated
    <2> SUFFICES ASSUME NEW b \in Blocks, b >= task_tail PROVE block[b].state = "free"
      BY DEF TailCoversAllocated, Used
    <2>1. b # 0
      BY <1>1, TableSize
    <2>2. QED
      BY <1>1, <2>1, BootTable, BlockRecords
  <1>4. ScanInsideTable
    BY <1>1, BootTable, TableSize DEF ScanInsideTable, Scanned
  <1>5. OverdueBounded
    BY <1>1, BootTable, BlockRecords DEF OverdueBounded, Overdue
  <1>6. QED
    BY <1>1, <1>2, <1>3, <1>4, <1>5 DEF IInv

(* A fatal error starts the table over, and with it the invariant.         *)
LEMMA RebootKeepsInvariant == Reboot => IInv'
  <1> SUFFICES ASSUME Reboot PROVE IInv'
    OBVIOUS
  <1>1. /\ block' = BootBlocks /\ task_tail' = ChunkSize /\ task_current' = 0
        /\ tp' = 0 /\ pc' = "run" /\ elapsed' = 0
    BY DEF Reboot
  <1>2. TypeOK'
    BY <1>1, BootTable, TableSize, ClockAssumption DEF TypeOK
  <1>3. TailCoversAllocated'
    <2> SUFFICES ASSUME NEW b \in Blocks, b >= task_tail' PROVE block'[b].state = "free"
      BY DEF TailCoversAllocated, Used
    <2>1. b # 0
      BY <1>1, TableSize
    <2>2. QED
      BY <1>1, <2>1, BootTable, BlockRecords
  <1>4. ScanInsideTable'
    BY <1>1, BootTable, TableSize DEF ScanInsideTable, Scanned
  <1>5. OverdueBounded'
    BY <1>1, BootTable, BlockRecords DEF OverdueBounded, Overdue
  <1>6. QED
    BY <1>1, <1>2, <1>3, <1>4, <1>5 DEF IInv

(* No step of the tasks, the dispatcher or the clock breaks the invariant.  *)
LEMMA Inductive == IInv /\ [Next]_vars => IInv'
  <1> SUFFICES ASSUME IInv, [Next]_vars PROVE IInv'
    OBVIOUS
  <1>1. CASE Api
    BY <1>1, ApiKeepsInvariant
  <1>2. CASE Suspend
    BY <1>2, SuspendKeepsInvariant
  <1>3. CASE Dispatcher
    BY <1>3, DispatcherKeepsInvariant
  <1>4. CASE Tick
    BY <1>4, TickKeepsInvariant
  <1>5. CASE Lockup
    <2>1. block \in [Blocks -> Block]
      BY DEF IInv, TypeOK
    <2>2. QED
      BY <1>5, <2>1, FatalKeepsInvariant DEF Lockup
  <1>6. CASE Reboot
    BY <1>6, RebootKeepsInvariant
  <1>7. CASE UNCHANGED vars
    BY <1>7 DEF vars, IInv, TypeOK, TailCoversAllocated, ScanInsideTable, Scanned, Used,
                OverdueBounded, Overdue, Reached, Lateness, Pending
  <1>8. QED
    BY <1>1, <1>2, <1>3, <1>4, <1>5, <1>6, <1>7 DEF Next

(* No call moves the wakeup time of a task that is asleep.                 *)
SleepersKept ==
  \A b \in Blocks :
    block[b].state = "blocked" /\ block'[b].state = "blocked" => block'[b].due = block[b].due

(* Filling a free block writes to no sleeping task's wakeup time.          *)
LEMMA AllocationKeepsSleepers ==
  ASSUME IInv, NEW t, FreedTable(t), NEW new \in Block, new.state # "blocked",
         AllocateOrDie(t, new)
  PROVE  SleepersKept
  <1>1. /\ t \in [Blocks -> Block]
        /\ \A b \in Blocks : t[b] = block[b] \/ t[b].state = "free"
    BY DEF FreedTable
  <1>2. \E x : block' = [t EXCEPT ![x] = new] \/ block' = t
    BY DEF AllocateOrDie, Allocate
  <1>3. QED
    BY <1>1, <1>2 DEF SleepersKept

(* A call by the running task moves nobody's wakeup time.                  *)
LEMMA ApiKeepsSleepers == IInv /\ Api => SleepersKept
  <1> SUFFICES ASSUME IInv, Api PROVE SleepersKept
    OBVIOUS
  <1>0. block \in [Blocks -> Block]
    BY DEF IInv, TypeOK
  <1>1. \A g \in Gids, d \in Lifetimes : NewTask(g, d) \in Block /\ NewTask(g, d).state # "blocked"
    BY BlockRecords, TableAssumption
  <1>2. FreedTable(block)
    BY <1>0 DEF FreedTable
  <1>3. \A g \in Gids : FreedTable(Without(KilledByGid(g)))
    BY WithoutIsFreed DEF KilledByGid, Group, Scanned
  <1>4. ASSUME NEW g \in Gids, NEW d \in Lifetimes,
               TaskCreateGid(g, d) \/ TaskCreateGid1(g, d) \/ TaskRecreateGid(g, d)
        PROVE  SleepersKept
    <2>1. CASE TaskCreateGid(g, d) \/ TaskCreateGid1(g, d)
      BY <1>1, <1>2, <2>1, AllocationKeepsSleepers DEF TaskCreateGid, TaskCreateGid1, CreateIn
    <2>2. CASE TaskRecreateGid(g, d)
      BY <1>1, <1>3, <2>2, AllocationKeepsSleepers DEF TaskRecreateGid, CreateIn
    <2>3. QED
      BY <1>4, <2>1, <2>2
  <1>5. ASSUME NEW K, block' = Without(K)
        PROVE  SleepersKept
    BY <1>5, BlockRecords DEF SleepersKept, Without
  <1>6. ASSUME NEW g \in Gids, TaskKillGid(g) \/ TaskSetGid(g)
        PROVE  SleepersKept
    <2>1. CASE TaskKillGid(g)
      BY <1>5, <2>1 DEF TaskKillGid
    <2>2. CASE TaskSetGid(g)
      <3>1. \A b \in Blocks : block[b] \in Block
        BY <1>0
      <3>2. \A b \in Blocks : block'[b] = block[b] \/ block'[b] = [block[b] EXCEPT !.gid = g]
        BY <1>0, <2>2 DEF TaskSetGid
      <3>3. QED
        BY <3>1, <3>2 DEF SleepersKept, Block
    <2>3. QED
      BY <1>6, <2>1, <2>2
  <1>7. ASSUME NEW d \in Expiries, TaskDurationExpire(d) \/ TaskRemoveDuration(d)
        PROVE  SleepersKept
    <2>1. CASE TaskDurationExpire(d)
      BY <1>5, <2>1 DEF TaskDurationExpire
    <2>2. CASE TaskRemoveDuration(d)
      <3>1. \A b \in Blocks : block[b] \in Block
        BY <1>0
      <3>2. \A b \in Blocks : \/ block'[b] = block[b]
                              \/ block'[b] = [block[b] EXCEPT !.duration = @ \ d]
        BY <1>0, <2>2 DEF TaskRemoveDuration
      <3>3. QED
        BY <3>1, <3>2 DEF SleepersKept, Block
    <2>3. QED
      BY <1>7, <2>1, <2>2
  <1>8. CASE TaskChunk
    BY <1>8 DEF TaskChunk, SleepersKept
  <1>9. CASE MallocBlock
    BY <1>2, <1>9, BlockRecords, AllocationKeepsSleepers DEF MallocBlock
  <1>10. ASSUME NEW b \in Blocks, FreeMalloc(b)
         PROVE  SleepersKept
    BY <1>0, <1>10, BlockRecords DEF FreeMalloc, SleepersKept
  <1>11. QED
    BY <1>4, <1>6, <1>7, <1>8, <1>9, <1>10 DEF Api

(* A step leaves an overdue task overdue, unless it runs or frees it.      *)
LEMMA StepKeepsWakeups == IInv /\ Next => WakeupKept
  <1> SUFFICES ASSUME IInv, Next PROVE WakeupKept
    OBVIOUS
  <1>0. block \in [Blocks -> Block]
    BY DEF IInv, TypeOK
  <1>1. SleepersKept => WakeupKept
    BY DEF SleepersKept, WakeupKept, Reached
  <1>2. CASE Api
    BY <1>1, <1>2, ApiKeepsSleepers
  <1>3. CASE Suspend
    <2>1. pc = "run" /\ block[task_current].state = "ready" /\ task_current \in Blocks
      BY <1>3 DEF Suspend, TaskExit, TaskSleep, IInv, ScanInsideTable, Scanned
    <2>2. \A b \in Blocks : b # task_current => block'[b] = block[b]
      BY <1>0, <1>3 DEF Suspend, TaskExit, TaskSleep
    <2>3. QED
      BY <1>1, <2>1, <2>2 DEF SleepersKept
  <1>4. CASE Dispatcher
    <2>1. \A b \in Blocks : block'[b] = block[b] \/ block'[b].state = "ready"
      <3>1. CASE DispatchRestore
        <4>1. \A b \in Blocks : block[b] \in Block
          BY <1>0
        <4>2. \A b \in Blocks : \/ block'[b] = block[b]
                                \/ block'[b] = [block[b] EXCEPT !.state = "ready", !.due = 0]
          BY <1>0, <3>1 DEF DispatchRestore
        <4>3. QED
          BY <4>1, <4>2 DEF Block
      <3>2. CASE UNCHANGED block
        BY <3>2
      <3>3. QED
        BY <1>4, <3>1, <3>2 DEF Dispatcher, DispatchSkip, DispatchEnd, PeriodicDone, DispatchRewind
    <2>2. QED
      BY <1>1, <2>1 DEF SleepersKept
  <1>5. CASE Tick
    <2> SUFFICES ASSUME NEW b \in Blocks, Overdue(b) PROVE block'[b].due >= Half
      BY DEF WakeupKept, Overdue, Reached
    <2>1. block[b].due > Half /\ block'[b].due = block[b].due - 1
      BY <1>5, TickAges DEF Tick
    <2>2. block[b].due \in Int /\ Half \in Int
      BY <1>0, ClockAssumption DEF Block
    <2>3. QED
      BY <2>1, <2>2
  <1>6. CASE Lockup
    BY <1>1, <1>6 DEF Lockup, SleepersKept
  <1>7. CASE Reboot
    <2>1. \A b \in Blocks : block'[b].state # "blocked"
      BY <1>7, BootTable, BlockRecords DEF Reboot
    <2>2. QED
      BY <1>1, <2>1 DEF SleepersKept
  <1>8. QED
    BY <1>2, <1>3, <1>4, <1>5, <1>6, <1>7 DEF Next

-----------------------------------------------------------------------------
(* The inductive invariant holds in every state of the task system.        *)
THEOREM Safety == Spec => []IInv
  BY InitInvariant, Inductive, PTL DEF Spec

(* Every field of the table keeps its range: a tail that is a whole number *)
(* of chunks, a scan position and a running task inside the table.         *)
THEOREM TypeCorrect == Spec => []TypeOK
  <1>1. IInv => TypeOK
    BY DEF IInv
  <1>2. QED
    BY <1>1, Safety, PTL

(* block_allocate may take the block at the tail without looking at it.    *)
THEOREM TailIsSafe == Spec => []TailCoversAllocated
  <1>1. IInv => TailCoversAllocated
    BY DEF IInv
  <1>2. QED
    BY <1>1, Safety, PTL

(* The equality test of task_dispatcher finds the tail on every pass, and  *)
(* no kill, expiry or rewind takes the running task's block away.          *)
THEOREM ScanIsSafe == Spec => []ScanInsideTable
  <1>1. IInv => ScanInsideTable
    BY DEF IInv
  <1>2. QED
    BY <1>1, Safety, PTL

(* A sleeping task whose time has come stays due until it is run or killed:*)
(* in every pass the scan gets to it before the 16-bit clock wraps.        *)
THEOREM WakeupIsKept == Spec => WakeupNotLost
  <1>1. IInv /\ [Next]_vars => [WakeupKept]_vars
    BY StepKeepsWakeups
  <1>2. QED
    BY <1>1, Safety, PTL DEF Spec, WakeupNotLost
=============================================================================
