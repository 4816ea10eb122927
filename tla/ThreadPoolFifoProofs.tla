------------------------ MODULE ThreadPoolFifoProofs ------------------------
(***************************************************************************)
(* The thread pool implements TaskFifo, for every number of clients,       *)
(* workers, tasks and slots.  A push, a taken task, an uncounted task and  *)
(* a new pool are the steps of TaskFifo; every other step leaves the       *)
(* abstract queue, the running tasks and the limit as they were.           *)
(***************************************************************************)
EXTENDS ThreadPoolFifo, ThreadPoolProofs, SequenceTheorems

(* The slot of the ring that lies k places after readPtr. *)
SlotAfter(k) == IF readPtr + k < TPOOL_MAX_TASKS THEN readPtr + k
                ELSE readPtr + k - TPOOL_MAX_TASKS

(* The wrap of the pointers is the remainder of the abstraction. *)
LEMMA SlotIsRemainder ==
  ASSUME TypeOK, NEW k \in 0 .. TPOOL_MAX_TASKS - 1
  PROVE  (readPtr + k) % TPOOL_MAX_TASKS = SlotAfter(k) /\ SlotAfter(k) \in Slots
<1>1. readPtr \in Nat /\ readPtr < TPOOL_MAX_TASKS /\ TPOOL_MAX_TASKS \in Nat \ {0}
  BY SizeAssumption DEF TypeOK, Slots
<1>2. CASE readPtr + k < TPOOL_MAX_TASKS
  BY <1>1, <1>2 DEF SlotAfter, Slots
<1>3. CASE ~(readPtr + k < TPOOL_MAX_TASKS)
  BY <1>1, <1>3 DEF SlotAfter, Slots
<1> QED
  BY <1>2, <1>3

(* The abstract queue has a task for each one that waits, in ring order. *)
RingOrder ==
  /\ RingContents \in Seq(Tasks) /\ Len(RingContents) = task_waiting
  /\ \A k \in 1 .. task_waiting :
       RingContents[k] = queue[SlotAfter(k - 1)] /\ SlotAfter(k - 1) \in Slots

LEMMA Contents == PoolInv => RingOrder
<1> SUFFICES ASSUME PoolInv PROVE RingOrder
  OBVIOUS
<1> USE SizeAssumption DEF PoolInv
<1>1. task_waiting \in Nat /\ task_waiting <= TPOOL_MAX_TASKS
  BY DEF TypeOK
<1>2. ASSUME NEW k \in 1 .. task_waiting
      PROVE  /\ RingContents[k] = queue[SlotAfter(k - 1)]
             /\ SlotAfter(k - 1) \in Slots /\ queue[SlotAfter(k - 1)] \in Tasks
  <2>1. k - 1 \in 0 .. TPOOL_MAX_TASKS - 1 /\ readPtr + k - 1 = readPtr + (k - 1)
    BY <1>1 DEF TypeOK, Slots
  <2>2. (readPtr + k - 1) % TPOOL_MAX_TASKS = SlotAfter(k - 1) /\ SlotAfter(k - 1) \in Slots
    BY <2>1, SlotIsRemainder
  <2>3. InWindow(SlotAfter(k - 1))
    BY <1>1, <2>1 DEF InWindow, SlotAfter, TypeOK, Slots
  <2> QED
    BY <2>2, <2>3 DEF RingContents, RingWindow, TypeOK
<1>3. RingContents \in [1 .. task_waiting -> Tasks]
  BY <1>2 DEF RingContents
<1> QED
  BY <1>1, <1>2, <1>3 DEF RingOrder

(* A step that leaves the ring alone leaves the abstract queue alone. *)
LEMMA SameContents ==
  ASSUME UNCHANGED ringVars
  PROVE  UNCHANGED RingContents
BY DEF ringVars, RingContents

(* There are at most as many running tasks as workers that execute. *)
LEMMA ExecutingCount ==
  /\ IsFiniteSet(Executing) /\ Cardinality(Executing) \in Nat
  /\ Cardinality(Executing) <= Cardinality(Counted)
<1> DEFINE f == [w \in Counted |-> wtask[w]]
<1>1. f \in Surjection(Counted, Executing)
  BY DEF Surjection, Executing
<1> QED
  BY <1>1, CountedFinite, FS_Surjection, FS_CardinalityType

(* TaskFifo counts with the same operator. *)
LEMMA SameCardinality == Fifo!Cardinality(Executing) = Cardinality(Executing)
BY DEF Fifo!Cardinality, Cardinality

(* thread_pool_new opens the abstract pool. *)
LEMMA NewOpens ==
  ASSUME PoolInv, PoolInv', WorkInv, NEW c \in Clients, NEW n \in 1 .. TPOOL_MAX_THREADS,
         thread_pool_new(c, n)
  PROVE  Fifo!Open
<1>1. RingContents = <<>> /\ RingContents' = <<>>
  BY DEF thread_pool_new, WorkInv, Drained, RingContents
<1>2. Executing = {} /\ Executing' = {}
  BY DEF thread_pool_new, workVars, PoolInv, ThreadsStarted, Executing, Counted
<1>3. max_thread_count' \in 1 .. TPOOL_MAX_THREADS
  BY DEF thread_pool_new
<1> QED
  BY <1>1, <1>2, <1>3 DEF Fifo!Open

(* A worker that takes a task starts the oldest one, and is not one too    *)
(* many.                                                                   *)
LEMMA TakeStarts ==
  ASSUME PoolInv, PoolInv', NEW w \in Workers, WorkerTake(w)
  PROVE  Fifo!Start
<1> USE SizeAssumption
<1>0. RingOrder /\ RingOrder'
  BY Contents, PTL
<1>1. /\ task_waiting \in Nat \ {0} /\ task_waiting' = task_waiting - 1
      /\ task_waiting <= TPOOL_MAX_TASKS /\ readPtr \in Slots
      /\ queue[readPtr] \in Tasks
  BY RingHead DEF WorkerTake, Dequeue, PoolInv, TypeOK
<1>2. RingContents # <<>> /\ Head(RingContents) = queue[readPtr]
  <2>1. RingContents[1] = queue[readPtr]
    BY <1>0, <1>1 DEF RingOrder, SlotAfter, Slots
  <2> QED
    BY <1>0, <1>1, <2>1 DEF RingOrder
<1>3. RingContents' = Tail(RingContents)
  <2>1. /\ Tail(RingContents) \in Seq(Tasks)
        /\ Len(Tail(RingContents)) = task_waiting - 1
        /\ \A k \in 1 .. task_waiting - 1 : Tail(RingContents)[k] = RingContents[k + 1]
    BY <1>0, <1>1, <1>2, HeadTailProperties DEF RingOrder
  <2>2. RingContents' \in Seq(Tasks) /\ Len(RingContents') = task_waiting - 1
    BY <1>0, <1>1 DEF RingOrder
  <2>3. ASSUME NEW k \in 1 .. task_waiting - 1
        PROVE  RingContents'[k] = Tail(RingContents)[k]
    <3>1. RingContents'[k] = queue'[SlotAfter(k - 1)']
      BY <1>0, <1>1 DEF RingOrder
    <3>2. RingContents[k + 1] = queue[SlotAfter(k + 1 - 1)]
      BY <1>0, <1>1 DEF RingOrder
    <3>3. SlotAfter(k - 1)' = SlotAfter(k + 1 - 1)
      BY <1>1 DEF SlotAfter, WorkerTake, Dequeue, NextSlot, Slots
    <3>4. SlotAfter(k + 1 - 1) # readPtr
      BY <1>1 DEF SlotAfter, Slots
    <3>5. queue'[SlotAfter(k + 1 - 1)] = queue[SlotAfter(k + 1 - 1)]
      BY <3>4, <1>0, <1>1 DEF WorkerTake, Dequeue, PoolInv, TypeOK, RingOrder
    <3> QED
      BY <2>1, <3>1, <3>2, <3>3, <3>5
  <2> QED
    BY <2>1, <2>2, <2>3, SeqEqual
<1>4. Executing' = Executing \cup {queue[readPtr]}
  <2>1. wpc' = [wpc EXCEPT ![w] = "got"] /\ wtask' = [wtask EXCEPT ![w] = queue[readPtr]]
    BY <1>1, NameAssumption DEF WorkerTake, WorkerGoto
  <2>2. Counted' = Counted \cup {w} /\ w \notin Counted
    BY <2>1 DEF Counted, WorkerTake, AtPoolLock, PoolInv, TypeOK
  <2> QED
    BY <2>1, <2>2 DEF Executing, PoolInv, TypeOK, Counted
<1>5. Cardinality(Executing) < max_thread_count
  <2> DEFINE S == 1 .. created_threads_count
  <2>1. Counted \subseteq S \ {w}
    BY DEF Counted, PoolInv, TypeOK, ThreadsStarted, Workers, WorkerTake, AtPoolLock
  <2>2. /\ created_threads_count \in Nat /\ max_thread_count \in Nat
        /\ created_threads_count <= max_thread_count /\ w \in S
    BY DEF PoolInv, TypeOK, ThreadsStarted, Workers, WorkerTake, AtPoolLock
  <2>3. IsFiniteSet(S) /\ Cardinality(S) = created_threads_count
    BY <2>2, FS_Interval
  <2> HIDE DEF S
  <2>4. IsFiniteSet(S \ {w}) /\ Cardinality(S \ {w}) = created_threads_count - 1
    <3>1. /\ IsFiniteSet(S \ {w})
          /\ Cardinality(S \ {w}) = IF w \in S THEN Cardinality(S) - 1 ELSE Cardinality(S)
      BY <2>3, FS_RemoveElement, Zenon
    <3> QED
      BY <2>2, <2>3, <3>1, Zenon
  <2>5. Cardinality(Counted) <= Cardinality(S \ {w})
    BY <2>1, <2>4, FS_Subset, Zenon
  <2> QED
    BY <2>2, <2>4, <2>5, ExecutingCount, CountedFinite
<1>6. UNCHANGED max_thread_count
  BY DEF WorkerTake
<1> QED
  BY <1>2, <1>3, <1>4, <1>5, <1>6, SameCardinality DEF Fifo!Start

(* A worker that uncounts its task ends it. *)
LEMMA UncountFinishes ==
  ASSUME PoolInv, TaskInv, NEW w \in Workers, WorkerUncount(w)
  PROVE  wtask[w] \in Tasks /\ Fifo!Finish(wtask[w])
<1>1. w \in Counted /\ wtask[w] \in Tasks
  BY DEF WorkerUncount, Counted, TaskInv, WorkerTasks, Busy, PoolInv, TypeOK
<1>2. Counted' = Counted \ {w} /\ wtask' = wtask
  BY DEF WorkerUncount, WorkerGoto, Counted, PoolInv, TypeOK
<1>3. \A v \in Counted : wtask[v] = wtask[w] => v = w
  BY <1>1, NameAssumption DEF TaskInv, SinglePlace, Counted
<1>4. Executing' = Executing \ {wtask[w]} /\ wtask[w] \in Executing
  BY <1>1, <1>2, <1>3 DEF Executing
<1>5. UNCHANGED <<RingContents, max_thread_count>>
  BY SameContents DEF WorkerUncount
<1> QED
  BY <1>1, <1>4, <1>5 DEF Fifo!Finish

(* What a push does to the workers does not touch those that execute. *)
LEMMA PushKeepsExecuting ==
  ASSUME PoolInv, NEW c \in Clients, PushEnqueue(c)
  PROVE  UNCHANGED Executing
<1>1. UNCHANGED wtask
  BY DEF PushEnqueue
<1>2. \A w \in Workers : wpc'[w] = wpc[w] \/ (wpc'[w] = "lock" /\ wpc[w] \in {"none", "wait"})
  <2>1. CASE SignalWorker
    BY <2>1 DEF SignalWorker, PoolInv, TypeOK
  <2>2. CASE StartWorker
    BY <2>2 DEF StartWorker, PoolInv, TypeOK, ThreadsStarted
  <2>3. CASE UNCHANGED wpc
    BY <2>3
  <2> QED
    BY <2>1, <2>2, <2>3 DEF PushEnqueue
<1>3. Counted' = Counted
  BY <1>2 DEF Counted
<1> QED
  BY <1>1, <1>3 DEF Executing

(* A push that finds room appends a task that is nowhere in the pool. *)
LEMMA PushAppends ==
  ASSUME PoolInv, PoolInv', TaskInv, NEW c \in Clients, PushEnqueue(c)
  PROVE  ctask[c] \in Tasks /\ Fifo!Push(ctask[c])
<1> USE SizeAssumption
<1> DEFINE t == ctask[c]
<1>0. RingOrder /\ RingOrder'
  BY Contents, PTL
<1>1. /\ t \in Tasks /\ task_waiting + task_executing < TPOOL_MAX_TASKS
      /\ state[t] \in {"CREATED", "JOINED"}
  BY DEF PushEnqueue, PoolInv, PushGuard, TaskInv, CallTasks
<1>2. /\ task_waiting \in Nat /\ task_waiting < TPOOL_MAX_TASKS /\ readPtr \in Slots
      /\ task_executing = Cardinality(Counted) /\ task_waiting' = task_waiting + 1
      /\ UNCHANGED <<readPtr, max_thread_count>>
      /\ queue' = [queue EXCEPT ![writePtr] = t] /\ queue \in [Slots -> Tasks \cup {NULL}]
      /\ writePtr = SlotAfter(task_waiting) /\ writePtr \in Slots
  BY <1>1, CountedFinite DEF PushEnqueue, Enqueue, PoolInv, TypeOK, CountersExact, RingWindow,
     SlotAfter, Slots
<1>3. t \notin Executing
  BY <1>1 DEF Executing, Counted, TaskInv, WorkerTasks, Busy
<1>4. \A k \in DOMAIN RingContents : RingContents[k] # t
  <2>1. DOMAIN RingContents = 1 .. task_waiting
    BY DEF RingContents
  <2>2. \A j \in Slots : queue[j] # t
    BY <1>1, NameAssumption DEF TaskInv, QueueTasks
  <2> QED
    BY <1>0, <2>1, <2>2 DEF RingOrder
<1>5. Len(RingContents) + Cardinality(Executing) < TPOOL_MAX_TASKS
  BY <1>0, <1>1, <1>2, ExecutingCount, CountedFinite DEF RingOrder
<1>6. RingContents' = Append(RingContents, t)
  <2>1. /\ Append(RingContents, t) \in Seq(Tasks)
        /\ Len(Append(RingContents, t)) = task_waiting + 1
        /\ \A k \in 1 .. task_waiting : Append(RingContents, t)[k] = RingContents[k]
        /\ Append(RingContents, t)[task_waiting + 1] = t
    BY <1>0, <1>1, AppendProperties DEF RingOrder
  <2>2. RingContents' \in Seq(Tasks) /\ Len(RingContents') = task_waiting + 1
    BY <1>0, <1>2 DEF RingOrder
  <2>3. ASSUME NEW k \in 1 .. task_waiting + 1
        PROVE  RingContents'[k] = Append(RingContents, t)[k]
    <3>1. RingContents'[k] = queue'[SlotAfter(k - 1)] /\ SlotAfter(k - 1) \in Slots
      <4>1. SlotAfter(k - 1)' = SlotAfter(k - 1)
        BY <1>2 DEF SlotAfter
      <4> QED
        BY <1>0, <1>2, <4>1 DEF RingOrder
    <3>2. CASE k = task_waiting + 1
      <4>1. SlotAfter(k - 1) = writePtr
        BY <1>2, <3>2
      <4> QED
        BY <1>2, <2>1, <3>1, <3>2, <4>1
    <3>3. CASE k \in 1 .. task_waiting
      <4>1. SlotAfter(k - 1) # writePtr
        BY <1>2, <3>3 DEF SlotAfter, Slots
      <4>2. queue'[SlotAfter(k - 1)] = queue[SlotAfter(k - 1)]
        BY <1>2, <3>1, <4>1
      <4>3. RingContents[k] = queue[SlotAfter(k - 1)]
        BY <1>0, <3>3 DEF RingOrder
      <4> QED
        BY <2>1, <3>1, <3>3, <4>2, <4>3
    <3>4. k = task_waiting + 1 \/ k \in 1 .. task_waiting
      <4>1. task_waiting \in Nat
        BY <1>2
      <4> QED
        BY <4>1
    <3> QED
      BY <3>2, <3>3, <3>4
  <2> QED
    BY <2>1, <2>2, <2>3, SeqEqual
<1>7. UNCHANGED Executing
  BY PushKeepsExecuting
<1> QED
  BY <1>1, <1>2, <1>3, <1>4, <1>5, <1>6, <1>7, SameCardinality DEF Fifo!Push

(* Every other step of a worker is none of the abstract pool, *)
LEMMA WorkerStutters ==
  ASSUME PoolInv, NEW w \in Workers, thread_worker(w), ~WorkerTake(w), ~WorkerUncount(w)
  PROVE  UNCHANGED Fifo!fifoVars
<1> USE DEF WorkerGoto, poolVars
<1>1. UNCHANGED <<ringVars, max_thread_count>>
  BY DEF thread_worker, WorkerProgress, WorkerSleep, WorkerExit, WorkerSpuriousWakeup,
     WorkerMarkExecuting, WorkerRunFunction, WorkerMarkDone, WorkerFreeDetached
<1>2. UNCHANGED Executing
  <2>1. Counted' = Counted
    BY DEF thread_worker, WorkerProgress, WorkerSleep, WorkerExit, WorkerSpuriousWakeup,
       WorkerMarkExecuting, WorkerRunFunction, WorkerMarkDone, WorkerFreeDetached, AtPoolLock,
       Counted, PoolInv, TypeOK
  <2>2. \A v \in Counted : wtask'[v] = wtask[v]
    BY DEF thread_worker, WorkerProgress, WorkerSleep, WorkerExit, WorkerSpuriousWakeup,
       WorkerMarkExecuting, WorkerRunFunction, WorkerMarkDone, WorkerFreeDetached, AtPoolLock,
       Counted, PoolInv, TypeOK
  <2> QED
    BY <2>1, <2>2 DEF Executing
<1> QED
  BY <1>1, <1>2, SameContents DEF Fifo!fifoVars

(* and so is every other step of a call. *)
LEMMA CallStutters ==
  ASSUME PoolInv, NEW c \in Clients,
         \/ NewCall(c) /\ \A n \in 1 .. TPOOL_MAX_THREADS : ~thread_pool_new(c, n)
         \/ CallStep(c) /\ ~PushEnqueue(c)
  PROVE  UNCHANGED Fifo!fifoVars
<1> USE DEF poolVars, workVars
<1>1. CASE PoolDeleteLock(c)
  <2>1. Counted' = Counted /\ wtask' = wtask
    BY <1>1 DEF PoolDeleteLock, Counted, PoolInv, TypeOK
  <2> QED
    BY <1>1, <2>1, SameContents DEF PoolDeleteLock, Executing, Fifo!fifoVars
<1>2. CASE PoolDeleteJoin(c)
  <2>1. Counted = {} /\ Counted' = {}
    <3>1. \A w \in Workers : wpc[w] \in {"none", "exit"}
      BY <1>2, SizeAssumption DEF PoolDeleteJoin, PoolInv, ThreadsStarted, TypeOK, Workers
    <3>2. \A w \in Workers : wpc'[w] = "none"
      BY <1>2 DEF PoolDeleteJoin
    <3> QED
      BY <3>1, <3>2 DEF Counted
  <2> QED
    BY <1>2, <2>1, SameContents DEF PoolDeleteJoin, Executing, Fifo!fifoVars
<1>3. CASE UNCHANGED <<ringVars, max_thread_count, wpc, wtask>>
  BY <1>3, SameContents DEF Executing, Counted, Fifo!fifoVars
<1> QED
  BY <1>1, <1>2, <1>3 DEF NewCall, thread_task_new, Call, CallPoolDelete, CallStep, CallProgress,
     PushLock, JoinEnter, JoinRecheck, thread_task_delete, thread_task_detach, TimedJoinRead,
     TimedJoinEnter, TimedJoinRecheck, TimedJoinExpire, JoinSpuriousWakeup

(* The pool refines TaskFifo: however its mutexes, pointers and threads    *)
(* interleave, tasks start in push order, each once per push, at most      *)
(* max_thread_count at a time, and at most TPOOL_MAX_TASKS are accepted.   *)
THEOREM PoolImplementsFifo == Spec => ImplementsFifo
<1>1. Init => Fifo!FifoInit
  BY DEF Init, Fifo!FifoInit, RingContents, Executing, Counted
<1>2. PoolInv /\ PoolInv' /\ TaskInv /\ WorkInv /\ [Next]_vars
        => [Fifo!FifoNext]_Fifo!fifoVars
  <2> SUFFICES ASSUME PoolInv, PoolInv', TaskInv, WorkInv, [Next]_vars
               PROVE  [Fifo!FifoNext]_Fifo!fifoVars
    OBVIOUS
  <2>1. CASE UNCHANGED vars
    BY <2>1, SameContents DEF vars, poolVars, workVars, Executing, Counted, Fifo!fifoVars
  <2>2. ASSUME NEW w \in Workers, thread_worker(w)
        PROVE  [Fifo!FifoNext]_Fifo!fifoVars
    BY <2>2, TakeStarts, UncountFinishes, WorkerStutters DEF Fifo!FifoNext
  <2>3. ASSUME NEW c \in Clients, NewCall(c) \/ CallStep(c)
        PROVE  [Fifo!FifoNext]_Fifo!fifoVars
    BY <2>3, NewOpens, PushAppends, CallStutters DEF Fifo!FifoNext
  <2> QED
    BY <2>1, <2>2, <2>3 DEF Next
<1> QED
  BY <1>1, <1>2, PoolInvariant, TaskInvariant, WorkInvariant, PTL
     DEF Spec, ImplementsFifo, Fifo!FifoSpec
=============================================================================
