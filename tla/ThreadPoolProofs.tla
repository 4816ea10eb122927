-------------------------- MODULE ThreadPoolProofs --------------------------
(***************************************************************************)
(* Proofs about the thread pool.  Part one is about the pool's own state:  *)
(* its type, the ring, the counters.                                       *)
(*                                                                         *)
(* RingWindow is not inductive: a push writes a slot long after it has     *)
(* looked at the counters, so the proof needs what holds in between        *)
(* (PushGuard), that the count it relies on is exact (CountersExact), that *)
(* a pool that is gone has no thread (ThreadsStarted) and that nobody is   *)
(* inside a pool call when the pool is deleted (DeleteExclusive).          *)
(***************************************************************************)
EXTENDS ThreadPool, FiniteSetTheorems, TLAPS

(* A thread between the two locks of thread_pool_push_task owns the pool   *)
(* mutex, and the room it saw is still there.                              *)
PushGuard ==
  \A c \in Clients : cpc[c] = "enqueue" =>
    /\ poolMutex = c /\ ctask[c] \in Tasks
    /\ task_waiting + task_executing < TPOOL_MAX_TASKS

PushHasTask == \A c \in Clients : cpc[c] = "push" => ctask[c] \in Tasks

(* The threads are those of the first created_threads_count slots. *)
ThreadsStarted ==
  /\ created_threads_count <= max_thread_count
  /\ \A w \in Workers : wpc[w] # "none" => poolLive /\ w <= created_threads_count

UsesPool == {"push", "enqueue", "pool_delete", "pool_join"}

(* thread_pool_delete runs alone among the calls that use the pool. *)
DeleteExclusive ==
  /\ \A c, d \in Clients :
       cpc[c] \in {"pool_delete", "pool_join"} /\ cpc[d] \in UsesPool => c = d
  /\ ~poolLive => \A c \in Clients : cpc[c] \notin UsesPool

(* The inductive invariant. *)
PoolInv == TypeOK /\ RingWindow /\ CountersExact /\ PushGuard /\ PushHasTask
           /\ ThreadsStarted /\ DeleteExclusive

(* The invariant holds before any call. *)
LEMMA InitPool == Init => PoolInv
<1> SUFFICES ASSUME Init PROVE PoolInv
  OBVIOUS
<1> USE SizeAssumption, NameAssumption
<1>1. TypeOK
  <2>1. /\ poolLive \in BOOLEAN /\ shutdown \in BOOLEAN
        /\ poolMutex \in Clients \cup {NULL}
    BY DEF Init
  <2>2. /\ 0 \in 0 .. TPOOL_MAX_THREADS /\ 0 \in 0 .. TPOOL_MAX_TASKS
        /\ 0 \in Int /\ 0 \in Slots
    BY DEF Slots
  <2>3. /\ queue \in [Slots -> Tasks \cup {NULL}]
        /\ wpc \in [Workers -> WorkerSteps]
        /\ wtask \in [Workers -> Tasks \cup {NULL}]
    BY DEF Init, WorkerSteps
  <2>4. /\ mem \in [Tasks -> {"free", "live", "husk"}]
        /\ state \in [Tasks -> TaskStates]
        /\ detachMode \in [Tasks -> BOOLEAN] /\ fresh \in [Tasks -> BOOLEAN]
        /\ handle \in [Tasks -> BOOLEAN]
        /\ taskMutex \in [Tasks -> Clients \cup {NULL}]
    BY DEF Init, TaskStates
  <2>5. /\ cpc \in [Clients -> ClientSteps]
        /\ ctask \in [Clients -> Tasks \cup {NULL}]
    BY DEF Init, ClientSteps
  <2> QED
    BY <2>1, <2>2, <2>3, <2>4, <2>5 DEF Init, TypeOK
<1>2. RingWindow
  BY DEF Init, RingWindow, InWindow, Slots
<1>3. Counted = {}
  BY DEF Init, Counted
<1>4. CountersExact
  BY <1>3, FS_EmptySet DEF Init, CountersExact
<1>5. PushGuard /\ PushHasTask /\ ThreadsStarted /\ DeleteExclusive
  BY DEF Init, PushGuard, PushHasTask, ThreadsStarted, DeleteExclusive, UsesPool
<1> QED
  BY <1>1, <1>2, <1>4, <1>5 DEF PoolInv

(* The workers that execute a task are finitely many. *)
LEMMA CountedFinite == IsFiniteSet(Workers) /\ IsFiniteSet(Counted) /\ Cardinality(Counted) \in Nat
<1>1. IsFiniteSet(Workers)
  BY SizeAssumption, FS_Interval DEF Workers
<1>2. Counted \subseteq Workers
  BY DEF Counted
<1> QED
  BY <1>1, <1>2, FS_Subset, FS_CardinalityType

(* No step of thread_worker leaves the types, given that it takes no NULL  *)
(* task.                                                                   *)
LEMMA TypeWorker ==
  ASSUME TypeOK, NEW w \in Workers, thread_worker(w),
         task_waiting # 0 => queue[readPtr] # NULL
  PROVE  TypeOK'
<1> USE SizeAssumption, NameAssumption
<1> USE DEF TypeOK, Slots, Workers, WorkerSteps, TaskStates, ClientSteps,
            poolVars, ringVars, taskVars, callVars, workVars, WorkerGoto, AtPoolLock
<1>1. CASE WorkerSleep(w)
  BY <1>1 DEF WorkerSleep
<1>2. CASE WorkerSpuriousWakeup(w)
  BY <1>2 DEF WorkerSpuriousWakeup
<1>3. CASE WorkerExit(w)
  BY <1>3 DEF WorkerExit
<1>4. CASE WorkerTake(w)
  BY <1>4 DEF WorkerTake, Dequeue, NextSlot
<1>5. CASE WorkerMarkExecuting(w)
  BY <1>5 DEF WorkerMarkExecuting
<1>6. CASE WorkerRunFunction(w)
  BY <1>6 DEF WorkerRunFunction
<1>7. CASE WorkerUncount(w)
  BY <1>7 DEF WorkerUncount
<1>8. CASE WorkerMarkDone(w)
  <2>1. cpc' \in [Clients -> ClientSteps]
    BY <1>8 DEF WorkerMarkDone, WakeJoiners, Asleep, Woken
  <2>2. wpc' \in [Workers -> WorkerSteps] /\ wtask' \in [Workers -> Tasks \cup {NULL}]
    BY SMTT(30), <1>8 DEF WorkerMarkDone
  <2>3. state' \in [Tasks -> TaskStates]
    BY <1>8 DEF WorkerMarkDone
  <2> QED
    BY <1>8, <2>1, <2>2, <2>3 DEF WorkerMarkDone
<1>9. CASE WorkerFreeDetached(w)
  BY <1>9 DEF WorkerFreeDetached
<1> QED
  BY <1>1, <1>2, <1>3, <1>4, <1>5, <1>6, <1>7, <1>8, <1>9 DEF thread_worker, WorkerProgress

(* Setting a flag of one task keeps a function of flags one. *)
LEMMA FlagSet ==
  ASSUME NEW f \in [Tasks -> BOOLEAN], NEW t, NEW b \in BOOLEAN
  PROVE  [f EXCEPT ![t] = b] \in [Tasks -> BOOLEAN]
OBVIOUS

(* A call that goes to another of its steps keeps its types. *)
LEMMA GotoTypes ==
  ASSUME NEW c \in Clients, cpc \in [Clients -> ClientSteps], NEW step \in ClientSteps,
         Goto(c, step)
  PROVE  cpc' \in [Clients -> ClientSteps]
BY DEF Goto

(* A call that returns, or stores a state and goes on, keeps its types. *)
LEMMA CallTypes ==
  ASSUME NEW c \in Clients, cpc \in [Clients -> ClientSteps],
         ctask \in [Clients -> Tasks \cup {NULL}], state \in [Tasks -> TaskStates],
         \/ Return(c) /\ UNCHANGED state
         \/ SetState(ctask[c], "JOINED") /\ Goto(c, "read")
  PROVE  /\ cpc' \in [Clients -> ClientSteps]
         /\ ctask' \in [Clients -> Tasks \cup {NULL}] /\ state' \in [Tasks -> TaskStates]
BY DEF Return, Goto, SetState, ClientSteps, TaskStates

(* No step of an API call leaves the types, given that a push has room. *)
LEMMA TypeClient ==
  ASSUME TypeOK, NEW c \in Clients, NewCall(c) \/ CallStep(c),
         cpc[c] = "enqueue" => ctask[c] \in Tasks /\ task_waiting < TPOOL_MAX_TASKS
  PROVE  TypeOK'
<1> USE SizeAssumption, NameAssumption
<1> USE DEF TypeOK, Slots, Workers, WorkerSteps, TaskStates, ClientSteps,
            poolVars, ringVars, taskVars, callVars, workVars, Goto, Return,
            SetState, AtTaskLock, Finished
<1>1. ASSUME NEW n \in 1 .. TPOOL_MAX_THREADS, thread_pool_new(c, n) PROVE TypeOK'
  <2>1. queue' \in [Slots -> Tasks \cup {NULL}] /\ 0 \in Slots
    BY <1>1 DEF thread_pool_new
  <2>2. n \in 0 .. TPOOL_MAX_THREADS /\ 0 \in 0 .. TPOOL_MAX_THREADS
    BY <1>1
  <2>3. poolLive' \in BOOLEAN /\ shutdown' \in BOOLEAN
    BY <1>1 DEF thread_pool_new
  <2> QED
    BY <1>1, <2>1, <2>2, <2>3 DEF thread_pool_new
<1>2. ASSUME NEW t \in Tasks, thread_task_new(c, t) PROVE TypeOK'
  BY <1>2 DEF thread_task_new
<1>3. ASSUME NEW op \in Calls, NEW t \in Tasks, Call(c, op, t) PROVE TypeOK'
  BY <1>3 DEF Call
<1>4. CASE CallPoolDelete(c)
  BY <1>4 DEF CallPoolDelete
<1>5. CASE PushLock(c)
  BY <1>5 DEF PushLock
<1>6. CASE PushEnqueue(c)
  BY <1>6 DEF PushEnqueue, Enqueue, NextSlot, SignalWorker, StartWorker, HasIdleWorker
<1>7. CASE PoolDeleteLock(c)
  <2>1. CASE task_executing > 0 \/ task_waiting > 0
    BY <1>7, <2>1 DEF PoolDeleteLock
  <2>2. CASE ~(task_executing > 0 \/ task_waiting > 0)
    <3>1. wpc' \in [Workers -> WorkerSteps] /\ shutdown' \in BOOLEAN
      BY <1>7, <2>2 DEF PoolDeleteLock
    <3>2. Goto(c, "pool_join") /\ cpc \in [Clients -> ClientSteps]
          /\ "pool_join" \in ClientSteps
      BY <1>7, <2>2 DEF PoolDeleteLock
    <3>4. cpc' \in [Clients -> ClientSteps] /\ UNCHANGED ctask
      BY <3>2, GotoTypes
    <3>3. UNCHANGED <<poolLive, max_thread_count, created_threads_count, ringVars,
                      task_executing, poolMutex, wtask, taskVars>>
      BY <1>7, <2>2 DEF PoolDeleteLock
    <3> QED
      BY <3>1, <3>3, <3>4
  <2> QED
    BY <2>1, <2>2
<1>8. CASE PoolDeleteJoin(c)
  BY <1>8 DEF PoolDeleteJoin
<1>9. CASE JoinEnter(c)
  BY SMTT(30), <1>9 DEF JoinEnter
<1>10. CASE JoinRecheck(c)
  <2>1. cpc' \in [Clients -> ClientSteps] /\ ctask' \in [Clients -> Tasks \cup {NULL}]
    BY SMTT(30), <1>10 DEF JoinRecheck
  <2>2. state' \in [Tasks -> TaskStates]
    BY SMTT(30), <1>10 DEF JoinRecheck
  <2>3. taskMutex' \in [Tasks -> Clients \cup {NULL}]
    BY <1>10 DEF JoinRecheck
  <2>4. UNCHANGED <<poolVars, workVars, mem, detachMode, fresh, handle>>
    BY <1>10 DEF JoinRecheck
  <2> QED
    BY <2>1, <2>2, <2>3, <2>4
<1>11. CASE TimedJoinEnter(c)
  <2>1. cpc' \in [Clients -> ClientSteps] /\ ctask' \in [Clients -> Tasks \cup {NULL}]
    BY SMTT(30), <1>11 DEF TimedJoinEnter
  <2>2. state' \in [Tasks -> TaskStates]
    BY SMTT(30), <1>11 DEF TimedJoinEnter
  <2>3. taskMutex' \in [Tasks -> Clients \cup {NULL}]
    BY <1>11 DEF TimedJoinEnter
  <2>4. UNCHANGED <<poolVars, workVars, mem, detachMode, fresh, handle>>
    BY <1>11 DEF TimedJoinEnter
  <2> QED
    BY <2>1, <2>2, <2>3, <2>4
<1>12. CASE TimedJoinRecheck(c)
  BY <1>12 DEF TimedJoinRecheck
<1>13. CASE TimedJoinRead(c)
  BY <1>13 DEF TimedJoinRead
<1>14. CASE TimedJoinExpire(c)
  <2>1. /\ cpc \in [Clients -> ClientSteps] /\ state \in [Tasks -> TaskStates]
        /\ ctask \in [Clients -> Tasks \cup {NULL}]
        /\ \/ Return(c) /\ UNCHANGED state
           \/ SetState(ctask[c], "JOINED") /\ Goto(c, "read")
    BY <1>14 DEF TimedJoinExpire
  <2>2. /\ cpc' \in [Clients -> ClientSteps] /\ state' \in [Tasks -> TaskStates]
        /\ ctask' \in [Clients -> Tasks \cup {NULL}]
    BY <2>1, CallTypes
  <2>3. UNCHANGED <<poolVars, workVars, mem, detachMode, taskMutex, fresh, handle>>
    BY <1>14 DEF TimedJoinExpire
  <2> QED
    BY <2>2, <2>3
<1>15. CASE JoinSpuriousWakeup(c)
  BY <1>15 DEF JoinSpuriousWakeup, Woken
<1>16. CASE thread_task_delete(c)
  <2>1. CASE Deletable(ctask[c])
    <3>1. mem' \in [Tasks -> {"free", "live", "husk"}]
      BY <1>16, <2>1 DEF thread_task_delete
    <3>2. handle' = [handle EXCEPT ![ctask[c]] = FALSE] /\ handle \in [Tasks -> BOOLEAN]
      BY <1>16, <2>1 DEF thread_task_delete
    <3>3. handle' \in [Tasks -> BOOLEAN]
      BY <3>2, FlagSet
    <3> QED
      BY <1>16, <2>1, <3>1, <3>3 DEF thread_task_delete
  <2>2. CASE ~Deletable(ctask[c])
    BY <1>16, <2>2 DEF thread_task_delete
  <2> QED
    BY <2>1, <2>2
<1>17. CASE thread_task_detach(c)
  <2>1. cpc' \in [Clients -> ClientSteps] /\ ctask' \in [Clients -> Tasks \cup {NULL}]
    BY <1>17 DEF thread_task_detach
  <2>2. mem' \in [Tasks -> {"free", "live", "husk"}]
    BY <1>17 DEF thread_task_detach
  <2>3. /\ handle' = handle \/ handle' = [handle EXCEPT ![ctask[c]] = FALSE]
        /\ detachMode' = detachMode \/ detachMode' = [detachMode EXCEPT ![ctask[c]] = TRUE]
        /\ handle \in [Tasks -> BOOLEAN] /\ detachMode \in [Tasks -> BOOLEAN]
    BY <1>17 DEF thread_task_detach
  <2>4. handle' \in [Tasks -> BOOLEAN] /\ detachMode' \in [Tasks -> BOOLEAN]
    BY SMTT(30), <2>3, FlagSet
  <2>5. UNCHANGED <<poolVars, workVars, state, taskMutex, fresh>>
    BY <1>17 DEF thread_task_detach
  <2> QED
    BY <2>1, <2>2, <2>4, <2>5
<1> QED
  BY <1>1, <1>2, <1>3, <1>4, <1>5, <1>6, <1>7, <1>8, <1>9, <1>10, <1>11, <1>12,
     <1>13, <1>14, <1>15, <1>16, <1>17 DEF NewCall, CallStep, CallProgress

(* Taking the task at readPtr keeps the ring and its counter in agreement. *)
LEMMA RingTake ==
  ASSUME TypeOK, RingWindow, Dequeue, UNCHANGED writePtr, task_waiting # 0
  PROVE  RingWindow'
BY SizeAssumption, NameAssumption DEF TypeOK, RingWindow, InWindow, Dequeue, NextSlot, Slots

(* While tasks wait, the slot at readPtr holds one. *)
LEMMA RingHead ==
  ASSUME TypeOK, RingWindow, task_waiting # 0
  PROVE  queue[readPtr] \in Tasks
BY SizeAssumption, NameAssumption DEF TypeOK, RingWindow, InWindow, Slots

(* Storing a task at writePtr keeps the ring and its counter in agreement. *)
LEMMA RingPut ==
  ASSUME TypeOK, RingWindow, NEW t \in Tasks, Enqueue(t), task_waiting < TPOOL_MAX_TASKS
  PROVE  RingWindow'
BY SizeAssumption, NameAssumption DEF TypeOK, RingWindow, InWindow, Enqueue, NextSlot, Slots

(* One more worker executes. *)
LEMMA CountIn ==
  ASSUME NEW w \in Workers, w \notin Counted, Counted' = Counted \cup {w}
  PROVE  Cardinality(Counted') = Cardinality(Counted) + 1
BY CountedFinite, FS_AddElement

(* One worker less executes. *)
LEMMA CountOut ==
  ASSUME NEW w \in Counted, Counted' = Counted \ {w}
  PROVE  Cardinality(Counted') = Cardinality(Counted) - 1
BY CountedFinite, FS_RemoveElement

(* thread_worker keeps ring and counters exact. *)
LEMMA WorkerCounters ==
  ASSUME PoolInv, NEW w \in Workers, thread_worker(w)
  PROVE  RingWindow' /\ CountersExact'
<1> USE DEF WorkerGoto, AtPoolLock
<1> SUFFICES RingWindow' /\ task_executing' = Cardinality(Counted')
             /\ task_waiting' + task_executing' <= TPOOL_MAX_TASKS
  BY DEF CountersExact
<1>0. /\ wpc \in [Workers -> WorkerSteps] /\ TypeOK /\ RingWindow
      /\ task_executing = Cardinality(Counted) /\ Cardinality(Counted) \in Nat
      /\ task_waiting + task_executing <= TPOOL_MAX_TASKS
      /\ task_waiting \in Nat /\ TPOOL_MAX_TASKS \in Nat
  BY CountedFinite, SizeAssumption DEF PoolInv, TypeOK, CountersExact
<1>1. CASE WorkerTake(w)
  <2>1. queue[readPtr] # NULL
    BY <1>0, <1>1, RingHead, NameAssumption DEF WorkerTake
  <2>2. RingWindow'
    BY <1>0, <1>1, RingTake DEF WorkerTake
  <2>3. w \notin Counted /\ Counted' = Counted \cup {w}
    BY <1>0, <1>1, <2>1 DEF WorkerTake, Counted
  <2>4. task_executing' = task_executing + 1 /\ task_waiting' = task_waiting - 1
    BY <1>1, <2>1 DEF WorkerTake, Dequeue
  <2> QED
    BY <1>0, <2>2, <2>3, <2>4, CountIn
<1>2. CASE WorkerUncount(w)
  <2>1. w \in Counted /\ Counted' = Counted \ {w}
    BY <1>0, <1>2 DEF WorkerUncount, Counted
  <2>2. task_executing' = task_executing - 1 /\ UNCHANGED ringVars
    BY <1>2 DEF WorkerUncount
  <2>3. RingWindow'
    BY <1>0, <2>2 DEF RingWindow, InWindow, ringVars
  <2> QED
    BY <1>0, <2>1, <2>2, <2>3, CountOut DEF ringVars
<1>3. CASE ~WorkerTake(w) /\ ~WorkerUncount(w)
  <2>1. Counted' = Counted
    BY <1>0, <1>3 DEF Counted, thread_worker, WorkerProgress, WorkerSleep, WorkerExit,
       WorkerSpuriousWakeup, WorkerMarkExecuting, WorkerRunFunction, WorkerMarkDone, WorkerFreeDetached
  <2>2. UNCHANGED <<ringVars, task_executing>>
    BY <1>3 DEF poolVars, thread_worker, WorkerProgress, WorkerSleep, WorkerExit,
       WorkerSpuriousWakeup, WorkerMarkExecuting, WorkerRunFunction, WorkerMarkDone, WorkerFreeDetached
  <2> QED
    BY <1>0, <2>1, <2>2 DEF RingWindow, InWindow, ringVars
<1> QED
  BY <1>1, <1>2, <1>3

(* The API calls keep ring and counters exact. *)
LEMMA ClientCounters ==
  ASSUME PoolInv, NEW c \in Clients, NewCall(c) \/ CallStep(c)
  PROVE  RingWindow' /\ CountersExact'
<1> SUFFICES RingWindow' /\ task_executing' = Cardinality(Counted')
             /\ task_waiting' + task_executing' <= TPOOL_MAX_TASKS
  BY DEF CountersExact
<1>0. /\ wpc \in [Workers -> WorkerSteps] /\ TypeOK /\ RingWindow
      /\ task_executing = Cardinality(Counted) /\ Cardinality(Counted) \in Nat
      /\ task_waiting + task_executing <= TPOOL_MAX_TASKS
      /\ task_waiting \in Nat /\ TPOOL_MAX_TASKS \in Nat
  BY CountedFinite, SizeAssumption DEF PoolInv, TypeOK, CountersExact
<1>1. ASSUME UNCHANGED <<ringVars, task_executing>>, Counted' = Counted
      PROVE  RingWindow' /\ task_executing' = Cardinality(Counted')
             /\ task_waiting' + task_executing' <= TPOOL_MAX_TASKS
  BY <1>0, <1>1 DEF RingWindow, InWindow, ringVars
<1>2. ASSUME NEW n \in 1 .. TPOOL_MAX_THREADS, thread_pool_new(c, n)
      PROVE  RingWindow' /\ task_executing' = Cardinality(Counted')
             /\ task_waiting' + task_executing' <= TPOOL_MAX_TASKS
  <2>1. Counted' = {}
    BY <1>2 DEF thread_pool_new, workVars, Counted, PoolInv, ThreadsStarted
  <2>2. RingWindow'
    BY <1>2, SizeAssumption DEF thread_pool_new, RingWindow, InWindow, Slots
  <2>3. task_executing' = 0 /\ task_waiting' = 0
    BY <1>2 DEF thread_pool_new
  <2> QED
    BY <1>0, <2>1, <2>2, <2>3, FS_EmptySet
<1>3. CASE PushEnqueue(c)
  <2>1. ctask[c] \in Tasks /\ task_waiting + task_executing < TPOOL_MAX_TASKS
    BY <1>3 DEF PoolInv, PushGuard, PushEnqueue
  <2>2. Enqueue(ctask[c]) /\ UNCHANGED task_executing
    BY <1>3 DEF PushEnqueue
  <2>3. RingWindow'
    BY <1>0, <2>1, <2>2, RingPut
  <2>4. Counted' = Counted
    <3>1. CASE SignalWorker
      BY <1>0, <3>1 DEF SignalWorker, Counted
    <3>2. CASE StartWorker
      BY <1>0, <3>2 DEF StartWorker, Counted, PoolInv, ThreadsStarted, TypeOK
    <3>3. CASE UNCHANGED wpc
      BY <3>3 DEF Counted
    <3> QED
      BY <1>3, <3>1, <3>2, <3>3 DEF PushEnqueue
  <2>5. task_waiting' = task_waiting + 1
    BY <2>2 DEF Enqueue
  <2> QED
    BY <1>0, <2>1, <2>2, <2>3, <2>4, <2>5
<1>4. CASE PoolDeleteLock(c)
  <2>1. Counted' = Counted
    BY <1>0, <1>4 DEF PoolDeleteLock, Counted
  <2> QED
    BY <1>1, <1>4, <2>1 DEF PoolDeleteLock
<1>5. CASE PoolDeleteJoin(c)
  <2>1. Counted = {} /\ Counted' = {}
    BY <1>0, <1>5 DEF PoolDeleteJoin, Counted, PoolInv, ThreadsStarted, TypeOK, Workers
  <2> QED
    BY <1>1, <1>5, <2>1 DEF PoolDeleteJoin
<1>6. ASSUME NEW t \in Tasks, thread_task_new(c, t)
      PROVE  UNCHANGED <<ringVars, task_executing>> /\ Counted' = Counted
  BY <1>6 DEF thread_task_new, poolVars, workVars, Counted
<1>7. ASSUME NEW op \in Calls, NEW t \in Tasks, Call(c, op, t)
      PROVE  UNCHANGED <<ringVars, task_executing>> /\ Counted' = Counted
  BY <1>7 DEF Call, poolVars, workVars, Counted
<1>8. CASE PushLock(c)
  <2>1. UNCHANGED <<ringVars, task_executing>> /\ Counted' = Counted
    BY <1>8 DEF PushLock, workVars, Counted
  <2> QED
    BY <1>1, <2>1
<1>9. CASE \/ CallPoolDelete(c) \/ JoinEnter(c) \/ JoinRecheck(c) \/ TimedJoinEnter(c)
           \/ TimedJoinRecheck(c) \/ TimedJoinRead(c) \/ TimedJoinExpire(c)
           \/ JoinSpuriousWakeup(c) \/ thread_task_delete(c) \/ thread_task_detach(c)
  <2>1. UNCHANGED <<poolVars, workVars>>
    BY <1>9 DEF CallPoolDelete, JoinEnter, JoinRecheck, TimedJoinEnter, TimedJoinRecheck,
       TimedJoinRead, TimedJoinExpire, JoinSpuriousWakeup, thread_task_delete, thread_task_detach
  <2>2. UNCHANGED <<ringVars, task_executing>> /\ Counted' = Counted
    BY <2>1 DEF poolVars, workVars, Counted
  <2> QED
    BY <1>1, <2>2
<1> QED
  BY <1>1, <1>2, <1>3, <1>4, <1>5, <1>6, <1>7, <1>8, <1>9 DEF NewCall, CallStep, CallProgress

(* thread_worker keeps what the calls in progress rely on. *)
LEMMA WorkerGuards ==
  ASSUME PoolInv, NEW w \in Workers, thread_worker(w)
  PROVE  PushGuard' /\ PushHasTask' /\ ThreadsStarted' /\ DeleteExclusive'
<1> USE DEF PoolInv, TypeOK
<1>1. \A c \in Clients : cpc'[c] \in UsesPool \/ cpc[c] \in UsesPool => cpc'[c] = cpc[c]
  BY DEF UsesPool, thread_worker, WorkerProgress, WorkerSleep, WorkerExit, WorkerTake, WorkerUncount,
       WorkerSpuriousWakeup, WorkerMarkExecuting, WorkerRunFunction, WorkerMarkDone, WorkerFreeDetached,
       WakeJoiners, Asleep, Woken, callVars
<1>2. UNCHANGED <<ctask, poolLive, poolMutex, max_thread_count, created_threads_count>>
  BY DEF thread_worker, WorkerProgress, WorkerSleep, WorkerExit, WorkerTake, WorkerUncount,
       WorkerSpuriousWakeup, WorkerMarkExecuting, WorkerRunFunction, WorkerMarkDone, WorkerFreeDetached,
       callVars, poolVars
<1>3. \A v \in Workers : wpc'[v] # "none" => wpc[v] # "none"
  BY DEF WorkerGoto, AtPoolLock, thread_worker, WorkerProgress, WorkerSleep, WorkerExit, WorkerTake, WorkerUncount,
       WorkerSpuriousWakeup, WorkerMarkExecuting, WorkerRunFunction, WorkerMarkDone, WorkerFreeDetached
<1>4. poolMutex # NULL => UNCHANGED <<task_waiting, task_executing>>
  BY DEF AtPoolLock, thread_worker, WorkerProgress, WorkerSleep, WorkerExit, WorkerTake, WorkerUncount,
       WorkerSpuriousWakeup, WorkerMarkExecuting, WorkerRunFunction, WorkerMarkDone, WorkerFreeDetached,
       poolVars, ringVars
<1>5. PushGuard' /\ PushHasTask'
  BY <1>1, <1>2, <1>4, NameAssumption DEF PushGuard, PushHasTask, UsesPool
<1>6. ThreadsStarted'
  BY <1>2, <1>3 DEF ThreadsStarted
<1>7. DeleteExclusive'
  BY <1>1, <1>2 DEF DeleteExclusive, UsesPool
<1> QED
  BY <1>5, <1>6, <1>7

(* The API calls keep what the other calls in progress rely on. *)
LEMMA ClientGuards ==
  ASSUME PoolInv, NEW c \in Clients, NewCall(c) \/ CallStep(c)
  PROVE  PushGuard' /\ PushHasTask' /\ ThreadsStarted' /\ DeleteExclusive'
<1> DEFINE Guards == PushGuard /\ PushHasTask /\ ThreadsStarted /\ DeleteExclusive
<1> SUFFICES Guards'
  OBVIOUS
<1> USE NameAssumption, SizeAssumption
<1>0. /\ Guards /\ cpc \in [Clients -> ClientSteps]
      /\ ctask \in [Clients -> Tasks \cup {NULL}] /\ wpc \in [Workers -> WorkerSteps]
      /\ created_threads_count \in Nat /\ max_thread_count \in 0 .. TPOOL_MAX_THREADS
  BY DEF PoolInv, TypeOK
<1> USE DEF PushGuard, PushHasTask, ThreadsStarted, DeleteExclusive, UsesPool, Goto, Return
<1>1. ASSUME NEW n \in 1 .. TPOOL_MAX_THREADS, thread_pool_new(c, n) PROVE Guards'
  BY <1>0, <1>1 DEF thread_pool_new, callVars, workVars
<1>2. ASSUME NEW t \in Tasks, thread_task_new(c, t) PROVE Guards'
  BY <1>0, <1>2 DEF thread_task_new, callVars, workVars, poolVars, ringVars
<1>3. ASSUME NEW op \in Calls, NEW t \in Tasks, Call(c, op, t) PROVE Guards'
  BY <1>0, <1>3 DEF Call, MayCall, workVars, poolVars, ringVars
<1>4. CASE CallPoolDelete(c)
  BY <1>0, <1>4 DEF CallPoolDelete, workVars, poolVars, ringVars
<1>5. CASE PushLock(c)
  BY <1>0, <1>5 DEF PushLock, workVars, ringVars, PoolInv, TypeOK
<1>6. CASE PushEnqueue(c)
  <2>1. (PushGuard /\ PushHasTask /\ DeleteExclusive)'
    BY <1>0, <1>6 DEF PushEnqueue
  <2>2. ThreadsStarted'
    <3>1. CASE StartWorker /\ ~HasIdleWorker
      BY <1>0, <1>6, <3>1 DEF PushEnqueue, StartWorker, HasIdleWorker, Workers, PoolInv, TypeOK
    <3>2. CASE UNCHANGED created_threads_count
      BY <1>0, <1>6, <3>2 DEF PushEnqueue, SignalWorker, StartWorker
    <3> QED
      BY <1>6, <3>1, <3>2 DEF PushEnqueue
  <2> QED
    BY <2>1, <2>2
<1>7. CASE PoolDeleteLock(c)
  BY <1>0, <1>7 DEF PoolDeleteLock, ringVars
<1>8. CASE PoolDeleteJoin(c)
  BY <1>0, <1>8 DEF PoolDeleteJoin, ringVars
<1>9. CASE \/ JoinEnter(c) \/ JoinRecheck(c) \/ TimedJoinEnter(c)
           \/ TimedJoinRecheck(c) \/ TimedJoinRead(c) \/ TimedJoinExpire(c)
           \/ JoinSpuriousWakeup(c) \/ thread_task_delete(c) \/ thread_task_detach(c)
  <2>1. UNCHANGED <<poolVars, workVars>>
    BY <1>9 DEF JoinEnter, JoinRecheck, TimedJoinEnter, TimedJoinRecheck,
       TimedJoinRead, TimedJoinExpire, JoinSpuriousWakeup, thread_task_delete, thread_task_detach
  <2>2. /\ cpc'[c] \notin UsesPool
        /\ \A d \in Clients : d # c => cpc'[d] = cpc[d] /\ ctask'[d] = ctask[d]
    BY <1>0, <1>9 DEF JoinEnter, JoinRecheck, TimedJoinEnter, TimedJoinRecheck, Woken,
       TimedJoinRead, TimedJoinExpire, JoinSpuriousWakeup, thread_task_delete, thread_task_detach
  <2> QED
    BY <1>0, <2>1, <2>2 DEF poolVars, ringVars, workVars
<1> QED
  BY <1>1, <1>2, <1>3, <1>4, <1>5, <1>6, <1>7, <1>8, <1>9 DEF NewCall, CallStep, CallProgress

(* Every step preserves the invariant. *)
LEMMA PoolStep == PoolInv /\ [Next]_vars => PoolInv'
<1> SUFFICES ASSUME PoolInv, [Next]_vars PROVE PoolInv'
  OBVIOUS
<1>1. ASSUME NEW w \in Workers, thread_worker(w) PROVE PoolInv'
  <2>1. TypeOK'
    BY <1>1, TypeWorker, RingHead, NameAssumption DEF PoolInv
  <2> QED
    BY <1>1, <2>1, WorkerCounters, WorkerGuards DEF PoolInv
<1>2. ASSUME NEW c \in Clients, NewCall(c) \/ CallStep(c) PROVE PoolInv'
  <2>1. cpc[c] = "enqueue" => ctask[c] \in Tasks /\ task_waiting < TPOOL_MAX_TASKS
    BY CountedFinite, SizeAssumption DEF PoolInv, PushGuard, CountersExact, TypeOK
  <2>2. TypeOK'
    BY <1>2, <2>1, TypeClient DEF PoolInv
  <2> QED
    BY <1>2, <2>2, ClientCounters, ClientGuards DEF PoolInv
<1>3. CASE UNCHANGED vars
  <2>1. Counted' = Counted
    BY <1>3 DEF vars, workVars, Counted
  <2> QED
    BY <1>3, <2>1 DEF vars, poolVars, ringVars, workVars, taskVars, callVars, PoolInv, TypeOK,
       RingWindow, InWindow, CountersExact, PushGuard, PushHasTask, ThreadsStarted, DeleteExclusive
<1> QED
  BY <1>1, <1>2, <1>3 DEF Next

(* The invariant holds in every reachable state of the pool, for any       *)
(* number of clients, tasks, workers and slots.                            *)
THEOREM PoolInvariant == Spec => []PoolInv
BY InitPool, PoolStep, PTL DEF Spec

(* Every field of the pool and of the tasks stays within its type, for     *)
(* every value of the constants: in particular readPtr and writePtr never  *)
(* leave the array queue and task_waiting never exceeds TPOOL_MAX_TASKS.   *)
THEOREM TypeCorrect == Spec => []TypeOK
<1>1. PoolInv => TypeOK
  BY DEF PoolInv
<1> QED
  BY <1>1, PoolInvariant, PTL

(* The ring and task_waiting always agree: thread_worker never takes a     *)
(* NULL task and thread_pool_push_task never overwrites a waiting one.     *)
THEOREM RingNeverBreaks == Spec => []RingWindow
<1>1. PoolInv => RingWindow
  BY DEF PoolInv
<1> QED
  BY <1>1, PoolInvariant, PTL

(* task_executing always is the number of workers that execute a task, and *)
(* the pool never holds more than TPOOL_MAX_TASKS tasks.                   *)
THEOREM CountersNeverDrift == Spec => []CountersExact
<1>1. PoolInv => CountersExact
  BY DEF PoolInv
<1> QED
  BY <1>1, PoolInvariant, PTL

-----------------------------------------------------------------------------
(* Part two: the task objects.  A task has one owner at a time: the        *)
(* application (its handle), the queue, or one worker; its state says      *)
(* which.  The inductive invariant TaskInv spells out that correspondence, *)
(* and what a call in progress may rely on under the application's         *)
(* contract (ThreadPool!MayCall).                                          *)

Busy == {"got", "run", "ran", "done", "free"}

(* A task in the ring is live and marked queued. *)
QueueTasks ==
  \A i \in Slots : queue[i] # NULL =>
    mem[queue[i]] = "live" /\ state[queue[i]] = "QUEUED"

(* The state of a task follows the step of the worker that has it. *)
WorkerTasks ==
  \A w \in Workers :
    /\ wtask[w] # NULL <=> wpc[w] \in Busy
    /\ wpc[w] \in Busy => mem[wtask[w]] = "live"
    /\ wpc[w] = "got" => state[wtask[w]] = "QUEUED"
    /\ wpc[w] \in {"run", "ran", "done"} => state[wtask[w]] = "EXECUTING"
    /\ wpc[w] \in {"ran", "done"} => fresh[wtask[w]]
    /\ wpc[w] = "free" => state[wtask[w]] = "DONE" /\ ~handle[wtask[w]]

(* A call in progress works on a task the application still holds, and a   *)
(* call that needs it for itself has it alone.                             *)
CallTasks ==
  \A c \in Clients :
    /\ ctask[c] # NULL <=> cpc[c] \notin {"idle", "pool_delete", "pool_join"}
    /\ ctask[c] # NULL => handle[ctask[c]]
    /\ cpc[c] \in {"push", "enqueue"} => state[ctask[c]] \in {"CREATED", "JOINED"}
    /\ \A d \in Clients : ctask[c] = ctask[d] /\ ctask[c] # NULL /\ cpc[c] \in Exclusive => c = d

(* A task the application holds is live and not detached. *)
HeldTasks == \A t \in Tasks : handle[t] => mem[t] = "live" /\ ~detachMode[t]

(* The inductive invariant. *)
TaskInv == QueueTasks /\ SinglePlace /\ WorkerTasks /\ CallTasks /\ HeldTasks
           /\ ResultFresh /\ NoMissedBroadcast

(* The invariant holds before any call. *)
LEMMA InitTask == Init => TaskInv
BY NameAssumption DEF Init, TaskInv, QueueTasks, SinglePlace, WorkerTasks, CallTasks,
   HeldTasks, ResultFresh, NoMissedBroadcast, Finished, Busy, Exclusive

(* Every step of thread_worker preserves it. *)
LEMMA TaskWorker ==
  ASSUME PoolInv, TaskInv, NEW w \in Workers, thread_worker(w)
  PROVE  TaskInv'
<1> USE NameAssumption
<1> USE DEF TypeOK, QueueTasks, SinglePlace, WorkerTasks, CallTasks,
   HeldTasks, ResultFresh, NoMissedBroadcast, Finished, Busy, Exclusive, WorkerGoto, AtPoolLock
<1>0. TypeOK /\ QueueTasks /\ SinglePlace /\ WorkerTasks /\ CallTasks /\ HeldTasks
           /\ ResultFresh /\ NoMissedBroadcast
  BY DEF PoolInv, TaskInv
<1> USE DEF poolVars, ringVars, taskVars, callVars
<1>1. CASE WorkerSleep(w) \/ WorkerExit(w) \/ WorkerSpuriousWakeup(w)
  <2>1. WorkerTasks' /\ SinglePlace'
    BY <1>0, <1>1 DEF WorkerSleep, WorkerExit, WorkerSpuriousWakeup
  <2> QED
    BY <1>0, <1>1, <2>1 DEF TaskInv, WorkerSleep, WorkerExit, WorkerSpuriousWakeup
<1>2. CASE WorkerTake(w)
  <2>1. queue[readPtr] \in Tasks /\ readPtr \in Slots
    BY <1>0, <1>2, RingHead DEF WorkerTake, PoolInv
  <2>2. WorkerTasks'
    BY <1>0, <1>2, <2>1 DEF WorkerTake, Dequeue
  <2>3. QueueTasks' /\ SinglePlace'
    BY <1>0, <1>2, <2>1 DEF WorkerTake, Dequeue
  <2> QED
    BY <1>0, <1>2, <2>2, <2>3 DEF TaskInv, WorkerTake
<1>3. CASE WorkerMarkExecuting(w)
  <2>1. WorkerTasks' /\ QueueTasks' /\ SinglePlace'
    BY <1>0, <1>3 DEF WorkerMarkExecuting
  <2>2. CallTasks' /\ HeldTasks' /\ ResultFresh' /\ NoMissedBroadcast'
    BY <1>0, <1>3 DEF WorkerMarkExecuting
  <2> QED
    BY <2>1, <2>2 DEF TaskInv
<1>4. CASE WorkerRunFunction(w)
  <2>1. WorkerTasks' /\ QueueTasks' /\ SinglePlace'
    BY <1>0, <1>4 DEF WorkerRunFunction
  <2>2. CallTasks' /\ HeldTasks' /\ ResultFresh' /\ NoMissedBroadcast'
    BY <1>0, <1>4 DEF WorkerRunFunction
  <2> QED
    BY <2>1, <2>2 DEF TaskInv
<1>5. CASE WorkerUncount(w)
  <2>1. WorkerTasks' /\ SinglePlace'
    BY <1>0, <1>5 DEF WorkerUncount
  <2> QED
    BY <1>0, <1>5, <2>1 DEF TaskInv, WorkerUncount
<1>6. CASE WorkerMarkDone(w)
  <2>1. WorkerTasks' /\ QueueTasks' /\ SinglePlace'
    BY <1>0, <1>6 DEF WorkerMarkDone
  <2>2. CallTasks'
    BY <1>0, <1>6 DEF WorkerMarkDone, WakeJoiners, Asleep, Woken
  <2>3. HeldTasks' /\ ResultFresh'
    BY <1>0, <1>6 DEF WorkerMarkDone
  <2>4. NoMissedBroadcast'
    BY <1>0, <1>6 DEF WorkerMarkDone, WakeJoiners, Asleep, Woken
  <2> QED
    BY <2>1, <2>2, <2>3, <2>4 DEF TaskInv
<1>7. CASE WorkerFreeDetached(w)
  <2>1. WorkerTasks' /\ QueueTasks' /\ SinglePlace'
    BY <1>0, <1>7 DEF WorkerFreeDetached
  <2>2. CallTasks' /\ HeldTasks' /\ ResultFresh' /\ NoMissedBroadcast'
    BY <1>0, <1>7 DEF WorkerFreeDetached
  <2> QED
    BY <2>1, <2>2 DEF TaskInv
<1> QED
  BY <1>1, <1>2, <1>3, <1>4, <1>5, <1>6, <1>7 DEF thread_worker, WorkerProgress

(* Every step of an API call preserves it. *)
LEMMA TaskClient ==
  ASSUME PoolInv, TaskInv, NEW c \in Clients, NewCall(c) \/ CallStep(c)
  PROVE  TaskInv'
<1> USE NameAssumption
<1> USE DEF TypeOK, QueueTasks, SinglePlace, WorkerTasks, CallTasks,
   HeldTasks, ResultFresh, NoMissedBroadcast, Finished, Busy, Exclusive,
   Goto, Return, SetState, AtTaskLock
<1>0. TypeOK /\ QueueTasks /\ SinglePlace /\ WorkerTasks /\ CallTasks /\ HeldTasks
           /\ ResultFresh /\ NoMissedBroadcast
  BY DEF PoolInv, TaskInv
<1> USE DEF poolVars, ringVars, taskVars, callVars, workVars
<1>1. ASSUME NEW n \in 1 .. TPOOL_MAX_THREADS, thread_pool_new(c, n) PROVE TaskInv'
  <2>1. WorkerTasks' /\ QueueTasks' /\ SinglePlace'
    BY <1>0, <1>1 DEF thread_pool_new
  <2>2. CallTasks'
    BY <1>0, <1>1 DEF thread_pool_new
  <2>3. HeldTasks' /\ ResultFresh' /\ NoMissedBroadcast'
    BY <1>0, <1>1 DEF thread_pool_new
  <2> QED
    BY <2>1, <2>2, <2>3 DEF TaskInv
<1>2. ASSUME NEW t \in Tasks, thread_task_new(c, t) PROVE TaskInv'
  <2>1. WorkerTasks' /\ QueueTasks' /\ SinglePlace'
    BY <1>0, <1>2 DEF thread_task_new
  <2>2. CallTasks'
    BY <1>0, <1>2 DEF thread_task_new
  <2>3. HeldTasks' /\ ResultFresh' /\ NoMissedBroadcast'
    BY <1>0, <1>2 DEF thread_task_new
  <2> QED
    BY <2>1, <2>2, <2>3 DEF TaskInv
<1>3. ASSUME NEW op \in Calls, NEW t \in Tasks, Call(c, op, t) PROVE TaskInv'
  <2>1. WorkerTasks' /\ QueueTasks' /\ SinglePlace'
    BY <1>0, <1>3 DEF Call, MayCall
  <2>2. CallTasks'
    BY <1>0, <1>3 DEF Call, MayCall
  <2>3. HeldTasks' /\ ResultFresh' /\ NoMissedBroadcast'
    BY <1>0, <1>3 DEF Call, MayCall
  <2> QED
    BY <2>1, <2>2, <2>3 DEF TaskInv
<1>4. CASE CallPoolDelete(c)
  <2>1. WorkerTasks' /\ QueueTasks' /\ SinglePlace'
    BY <1>0, <1>4 DEF CallPoolDelete
  <2>2. CallTasks'
    BY <1>0, <1>4 DEF CallPoolDelete
  <2>3. HeldTasks' /\ ResultFresh' /\ NoMissedBroadcast'
    BY <1>0, <1>4 DEF CallPoolDelete
  <2> QED
    BY <2>1, <2>2, <2>3 DEF TaskInv
<1>5. CASE PushLock(c)
  <2>1. WorkerTasks' /\ QueueTasks' /\ SinglePlace'
    BY <1>0, <1>5 DEF PushLock
  <2>2. CallTasks'
    BY <1>0, <1>5 DEF PushLock
  <2>3. HeldTasks' /\ ResultFresh' /\ NoMissedBroadcast'
    BY <1>0, <1>5 DEF PushLock
  <2> QED
    BY <2>1, <2>2, <2>3 DEF TaskInv
<1>6. CASE PushEnqueue(c)
  <2>0. \A w \in Workers : \/ wpc'[w] = wpc[w]
                           \/ wpc'[w] = "lock" /\ wpc[w] \in {"none", "wait"}
    <3>1. CASE SignalWorker
      BY <1>0, <3>1 DEF SignalWorker
    <3>2. CASE StartWorker
      BY <1>0, <3>2 DEF StartWorker, PoolInv, ThreadsStarted
    <3>3. CASE UNCHANGED wpc
      BY <3>3
    <3> QED
      BY <1>6, <3>1, <3>2, <3>3 DEF PushEnqueue
  <2>1. WorkerTasks' /\ QueueTasks' /\ SinglePlace'
    BY <1>0, <1>6, <2>0 DEF PushEnqueue, Enqueue
  <2>2. CallTasks'
    BY <1>0, <1>6 DEF PushEnqueue, Enqueue, SignalWorker, StartWorker
  <2>3. HeldTasks' /\ ResultFresh' /\ NoMissedBroadcast'
    BY <1>0, <1>6 DEF PushEnqueue, Enqueue, SignalWorker, StartWorker
  <2> QED
    BY <2>1, <2>2, <2>3 DEF TaskInv
<1>7. CASE PoolDeleteLock(c)
  <2>1. WorkerTasks' /\ QueueTasks' /\ SinglePlace'
    BY <1>0, <1>7 DEF PoolDeleteLock
  <2>2. CallTasks'
    BY <1>0, <1>7 DEF PoolDeleteLock
  <2>3. HeldTasks' /\ ResultFresh' /\ NoMissedBroadcast'
    BY <1>0, <1>7 DEF PoolDeleteLock
  <2> QED
    BY <2>1, <2>2, <2>3 DEF TaskInv
<1>8. CASE PoolDeleteJoin(c)
  <2>1. WorkerTasks' /\ QueueTasks' /\ SinglePlace'
    BY <1>0, <1>8 DEF PoolDeleteJoin, PoolInv, ThreadsStarted, Workers
  <2>2. CallTasks'
    BY <1>0, <1>8 DEF PoolDeleteJoin, PoolInv, ThreadsStarted, Workers
  <2>3. HeldTasks' /\ ResultFresh' /\ NoMissedBroadcast'
    BY <1>0, <1>8 DEF PoolDeleteJoin, PoolInv, ThreadsStarted, Workers
  <2> QED
    BY <2>1, <2>2, <2>3 DEF TaskInv
<1>9. CASE JoinEnter(c)
  <2>1. WorkerTasks' /\ QueueTasks' /\ SinglePlace'
    BY <1>0, <1>9 DEF JoinEnter
  <2>2. CallTasks'
    BY <1>0, <1>9 DEF JoinEnter
  <2>3. HeldTasks' /\ ResultFresh' /\ NoMissedBroadcast'
    BY <1>0, <1>9 DEF JoinEnter
  <2> QED
    BY <2>1, <2>2, <2>3 DEF TaskInv
<1>10. CASE JoinRecheck(c)
  <2>1. WorkerTasks' /\ QueueTasks' /\ SinglePlace'
    BY <1>0, <1>10 DEF JoinRecheck
  <2>2. CallTasks'
    BY <1>0, <1>10 DEF JoinRecheck
  <2>3. HeldTasks' /\ ResultFresh' /\ NoMissedBroadcast'
    BY <1>0, <1>10 DEF JoinRecheck
  <2> QED
    BY <2>1, <2>2, <2>3 DEF TaskInv
<1>11. CASE TimedJoinEnter(c)
  <2>1. WorkerTasks' /\ QueueTasks' /\ SinglePlace'
    BY <1>0, <1>11 DEF TimedJoinEnter
  <2>2. CallTasks'
    BY <1>0, <1>11 DEF TimedJoinEnter
  <2>3. HeldTasks' /\ ResultFresh' /\ NoMissedBroadcast'
    BY <1>0, <1>11 DEF TimedJoinEnter
  <2> QED
    BY <2>1, <2>2, <2>3 DEF TaskInv
<1>12. CASE TimedJoinRecheck(c)
  <2>1. WorkerTasks' /\ QueueTasks' /\ SinglePlace'
    BY <1>0, <1>12 DEF TimedJoinRecheck
  <2>2. CallTasks'
    BY <1>0, <1>12 DEF TimedJoinRecheck
  <2>3. HeldTasks' /\ ResultFresh' /\ NoMissedBroadcast'
    BY <1>0, <1>12 DEF TimedJoinRecheck
  <2> QED
    BY <2>1, <2>2, <2>3 DEF TaskInv
<1>13. CASE TimedJoinRead(c)
  <2>1. WorkerTasks' /\ QueueTasks' /\ SinglePlace'
    BY <1>0, <1>13 DEF TimedJoinRead
  <2>2. CallTasks'
    BY <1>0, <1>13 DEF TimedJoinRead
  <2>3. HeldTasks' /\ ResultFresh' /\ NoMissedBroadcast'
    BY <1>0, <1>13 DEF TimedJoinRead
  <2> QED
    BY <2>1, <2>2, <2>3 DEF TaskInv
<1>14. CASE TimedJoinExpire(c)
  <2>1. WorkerTasks' /\ QueueTasks' /\ SinglePlace'
    BY <1>0, <1>14 DEF TimedJoinExpire
  <2>2. CallTasks'
    BY <1>0, <1>14 DEF TimedJoinExpire
  <2>3. HeldTasks' /\ ResultFresh' /\ NoMissedBroadcast'
    BY <1>0, <1>14 DEF TimedJoinExpire
  <2> QED
    BY <2>1, <2>2, <2>3 DEF TaskInv
<1>15. CASE JoinSpuriousWakeup(c)
  <2>1. WorkerTasks' /\ QueueTasks' /\ SinglePlace'
    BY <1>0, <1>15 DEF JoinSpuriousWakeup, Woken
  <2>2. CallTasks'
    BY <1>0, <1>15 DEF JoinSpuriousWakeup, Woken
  <2>3. HeldTasks' /\ ResultFresh' /\ NoMissedBroadcast'
    BY <1>0, <1>15 DEF JoinSpuriousWakeup, Woken
  <2> QED
    BY <2>1, <2>2, <2>3 DEF TaskInv
<1>16. CASE thread_task_delete(c)
  <2>1. WorkerTasks' /\ QueueTasks' /\ SinglePlace'
    BY <1>0, <1>16 DEF thread_task_delete, Deletable
  <2>2. CallTasks'
    BY <1>0, <1>16 DEF thread_task_delete, Deletable
  <2>3. HeldTasks' /\ ResultFresh' /\ NoMissedBroadcast'
    BY <1>0, <1>16 DEF thread_task_delete, Deletable
  <2> QED
    BY <2>1, <2>2, <2>3 DEF TaskInv
<1>17. CASE thread_task_detach(c)
  <2>1. WorkerTasks' /\ QueueTasks' /\ SinglePlace'
    BY <1>0, <1>17 DEF thread_task_detach
  <2>2. CallTasks'
    BY <1>0, <1>17 DEF thread_task_detach
  <2>3. HeldTasks' /\ ResultFresh' /\ NoMissedBroadcast'
    BY <1>0, <1>17 DEF thread_task_detach
  <2> QED
    BY <2>1, <2>2, <2>3 DEF TaskInv
<1> QED
  BY <1>1, <1>2, <1>3, <1>4, <1>5, <1>6, <1>7, <1>8, <1>9, <1>10, <1>11, <1>12,
     <1>13, <1>14, <1>15, <1>16, <1>17 DEF NewCall, CallStep, CallProgress

(* Every step preserves the invariant. *)
LEMMA TaskStep == PoolInv /\ TaskInv /\ [Next]_vars => TaskInv'
<1> SUFFICES ASSUME PoolInv, TaskInv, [Next]_vars PROVE TaskInv'
  OBVIOUS
<1>1. CASE UNCHANGED vars
  BY <1>1 DEF vars, poolVars, ringVars, workVars, taskVars, callVars, TaskInv,
     QueueTasks, SinglePlace, WorkerTasks, CallTasks, HeldTasks, ResultFresh,
     NoMissedBroadcast, Finished
<1> QED
  BY <1>1, TaskWorker, TaskClient DEF Next

(* The correspondence of tasks, owners and states holds in every reachable *)
(* state.                                                                  *)
THEOREM TaskInvariant == Spec => []TaskInv
BY InitTask, TaskStep, PoolInvariant, PTL DEF Spec

(* Whatever the interleaving of workers and calls, nothing refers to a     *)
(* task whose memory was freed or whose mutex was destroyed.               *)
THEOREM NoTaskDangles == Spec => []NoDanglingTask
<1>1. PoolInv /\ TaskInv => NoDanglingTask
  BY NameAssumption DEF PoolInv, TypeOK, TaskInv, QueueTasks, WorkerTasks, CallTasks,
     HeldTasks, NoDanglingTask
<1> QED
  BY <1>1, PoolInvariant, TaskInvariant, PTL

(* When all tasks are finished the pool counts none, so a                  *)
(* thread_pool_delete that follows the last join is not refused.           *)
THEOREM DeleteFollowsJoins == Spec => []IdleWhenFinished
<1>1. PoolInv /\ TaskInv => IdleWhenFinished
  <2> SUFFICES ASSUME PoolInv, TaskInv,
                      \A t \in Tasks : state[t] \notin {"QUEUED", "EXECUTING"}
               PROVE  task_waiting = 0 /\ task_executing = 0
    BY DEF IdleWhenFinished
  <2>1. task_waiting = 0
    <3>1. task_waiting # 0 => queue[readPtr] \in Tasks /\ readPtr \in Slots
      BY RingHead DEF PoolInv, TypeOK
    <3> QED
      BY <3>1, NameAssumption DEF TaskInv, QueueTasks
  <2>2. Counted = {}
    BY NameAssumption DEF Counted, TaskInv, WorkerTasks, Busy, PoolInv, TypeOK
  <2> QED
    BY <2>1, <2>2, FS_EmptySet DEF PoolInv, CountersExact
<1> QED
  BY <1>1, PoolInvariant, TaskInvariant, PTL

(* A pushed task is in one slot of the ring or with one worker, so each    *)
(* push leads to one run.                                                  *)
THEOREM OneRunPerPush == Spec => []SinglePlace
<1>1. TaskInv => SinglePlace
  BY DEF TaskInv
<1> QED
  BY <1>1, TaskInvariant, PTL

(* A join that finds a task finished returns the result of the task's      *)
(* latest push, although a joined task may be pushed again.                *)
THEOREM ResultAlwaysFresh == Spec => []ResultFresh
<1>1. TaskInv => ResultFresh
  BY DEF TaskInv
<1> QED
  BY <1>1, TaskInvariant, PTL

(* No thread sleeps in a join on a task that is already finished. *)
THEOREM NoJoinMissesBroadcast == Spec => []NoMissedBroadcast
<1>1. TaskInv => NoMissedBroadcast
  BY DEF TaskInv
<1> QED
  BY <1>1, TaskInvariant, PTL

-----------------------------------------------------------------------------
(***************************************************************************)
(* The work of the pool: no task is lost between the queue and a worker,   *)
(* no waiting task is left to sleeping workers, and nothing is pending     *)
(* once the pool is deleted.                                               *)
(*                                                                         *)
(* PoolGoneQuiet is about a pool that no longer exists, so the invariant   *)
(* has to follow each pending task to its place (Located) and the emptied  *)
(* ring through the joins of thread_pool_delete (Drained).  WorkConserving *)
(* survives the exit of the workers because a pool that shuts down has     *)
(* none asleep (ShutdownAwake), and a pthread_create that fails because    *)
(* all started workers are executing then (AllBusy).                       *)
(***************************************************************************)

(* A task that is queued is in the ring or just taken, and a task that is  *)
(* executing has its worker.                                               *)
Located ==
  \A t \in Tasks :
    /\ state[t] = "QUEUED" =>
         \/ \E i \in Slots : queue[i] = t
         \/ \E w \in Workers : wtask[w] = t /\ wpc[w] = "got"
    /\ state[t] = "EXECUTING" =>
         \E w \in Workers : wtask[w] = t /\ wpc[w] \in {"run", "ran", "done"}

(* thread_pool_delete joins the workers of an empty pool, and it stays so. *)
Drained == (~poolLive \/ \E c \in Clients : cpc[c] = "pool_join") => task_waiting = 0

(* thread_pool_delete wakes all workers, and none goes to sleep after it. *)
ShutdownAwake == shutdown => \A w \in Workers : wpc[w] # "wait"

(* The inductive invariant. *)
WorkInv == Located /\ Drained /\ ShutdownAwake /\ WorkConserving

(* The invariant holds before any call. *)
LEMMA InitWork == Init => WorkInv
BY DEF Init, WorkInv, Located, Drained, ShutdownAwake, WorkConserving

(* Every step of thread_worker keeps track of the tasks, *)
LEMMA LocatedWorker ==
  ASSUME PoolInv, TaskInv, Located, NEW w \in Workers, thread_worker(w)
  PROVE  Located'
<1> USE DEF PoolInv, TaskInv, TypeOK, Located, WorkerGoto, AtPoolLock
<1> USE DEF poolVars, ringVars, taskVars, callVars
<1>1. CASE WorkerSleep(w) \/ WorkerExit(w) \/ WorkerSpuriousWakeup(w)
  BY <1>1 DEF WorkerSleep, WorkerExit, WorkerSpuriousWakeup
<1>2. CASE WorkerTake(w)
  BY <1>2, RingHead DEF WorkerTake, Dequeue
<1>3. CASE WorkerMarkExecuting(w)
  BY <1>3 DEF WorkerMarkExecuting, WorkerTasks, QueueTasks, SinglePlace, Busy
<1>4. CASE WorkerRunFunction(w)
  BY <1>4 DEF WorkerRunFunction
<1>5. CASE WorkerUncount(w)
  BY <1>5 DEF WorkerUncount
<1>6. CASE WorkerMarkDone(w)
  BY <1>6 DEF WorkerMarkDone, WorkerTasks, SinglePlace
<1>7. CASE WorkerFreeDetached(w)
  BY <1>7 DEF WorkerFreeDetached
<1> QED
  BY <1>1, <1>2, <1>3, <1>4, <1>5, <1>6, <1>7 DEF thread_worker, WorkerProgress

(* and so does every step of a call. *)
LEMMA LocatedClient ==
  ASSUME PoolInv, TaskInv, Located, Drained, NEW c \in Clients, NewCall(c) \/ CallStep(c)
  PROVE  Located'
<1> USE NameAssumption DEF PoolInv, TaskInv, TypeOK, Goto, Return, SetState, AtTaskLock
<1> USE DEF poolVars, ringVars, taskVars, callVars, workVars
<1>1. ASSUME NEW n \in 1 .. TPOOL_MAX_THREADS, thread_pool_new(c, n) PROVE Located'
  <2>1. \A i \in Slots : queue[i] = NULL
    BY <1>1, SizeAssumption DEF thread_pool_new, Drained, RingWindow, InWindow, Slots
  <2>2. \A t \in Tasks, i \in Slots : queue[i] # t
    BY <2>1
  <2>3. UNCHANGED <<state, wpc, wtask>>
    BY <1>1 DEF thread_pool_new
  <2> QED
    BY <2>2, <2>3 DEF Located
<1>2. ASSUME NEW t \in Tasks, thread_task_new(c, t) PROVE Located'
  BY <1>2 DEF thread_task_new, Located
<1>3. CASE (\E op \in Calls, t \in Tasks : Call(c, op, t)) \/ CallPoolDelete(c) \/ PushLock(c)
           \/ TimedJoinRead(c) \/ JoinSpuriousWakeup(c)
  BY <1>3 DEF Call, CallPoolDelete, PushLock, TimedJoinRead, JoinSpuriousWakeup, Located
<1>4. CASE PushEnqueue(c)
  <2>0. ctask[c] \in Tasks /\ task_waiting < TPOOL_MAX_TASKS
    BY <1>4, SizeAssumption, CountedFinite DEF PushEnqueue, PushGuard, CountersExact
  <2>1. queue[writePtr] = NULL
    BY <2>0, SizeAssumption DEF RingWindow, InWindow, Slots
  <2>2. \A w \in Workers : wpc[w] \in Busy => wpc'[w] = wpc[w]
    <3>1. CASE SignalWorker
      BY <3>1 DEF SignalWorker, Busy
    <3>2. CASE StartWorker
      BY <3>2 DEF StartWorker, ThreadsStarted, Busy
    <3>3. CASE UNCHANGED wpc
      BY <3>3
    <3> QED
      BY <1>4, <3>1, <3>2, <3>3 DEF PushEnqueue
  <2>3. UNCHANGED wtask /\ Enqueue(ctask[c])
    BY <1>4 DEF PushEnqueue
  <2> QED
    BY <2>0, <2>1, <2>2, <2>3 DEF Enqueue, Located, Busy
<1>5. CASE PoolDeleteLock(c)
  BY <1>5 DEF PoolDeleteLock, Located
<1>6. CASE PoolDeleteJoin(c)
  <2>1. \A w \in Workers : wpc[w] \in {"none", "exit"}
    BY <1>6, SizeAssumption DEF PoolDeleteJoin, ThreadsStarted, Workers
  <2>2. \A w \in Workers : wpc[w] \notin {"got", "run", "ran", "done"}
    BY <2>1
  <2> QED
    BY <1>6, <2>2 DEF PoolDeleteJoin, Located
<1>7. CASE JoinEnter(c) \/ JoinRecheck(c)
  BY <1>7 DEF JoinEnter, JoinRecheck, Located
<1>8. CASE TimedJoinEnter(c)
  BY <1>8 DEF TimedJoinEnter, Located
<1>9. CASE TimedJoinRecheck(c) \/ TimedJoinExpire(c)
  BY <1>9 DEF TimedJoinRecheck, TimedJoinExpire, Located
<1>10. CASE thread_task_delete(c) \/ thread_task_detach(c)
  BY <1>10 DEF thread_task_delete, thread_task_detach, Located
<1> QED
  BY <1>1, <1>2, <1>3, <1>4, <1>5, <1>6, <1>7, <1>8, <1>9, <1>10
     DEF NewCall, CallStep, CallProgress

(* While thread_pool_delete joins, nobody pushes. *)
LEMMA DrainedStep ==
  ASSUME PoolInv, Drained, Next
  PROVE  Drained'
<1> USE DEF PoolInv, TypeOK, Goto, Return, SetState, AtTaskLock, DeleteExclusive, UsesPool
<1> USE DEF poolVars, ringVars, taskVars, callVars, workVars
<1>1. ASSUME NEW w \in Workers, thread_worker(w) PROVE Drained'
  <2>1. CASE WorkerTake(w)
    <3>1. poolLive /\ \A c \in Clients : cpc[c] # "pool_join"
      BY <2>1 DEF WorkerTake, AtPoolLock, Drained
    <3> QED
      BY <2>1, <3>1 DEF WorkerTake, Drained
  <2>2. CASE WorkerMarkDone(w)
    BY <2>2 DEF WorkerMarkDone, WakeJoiners, Asleep, Woken, Drained
  <2>3. CASE ~WorkerTake(w) /\ ~WorkerMarkDone(w)
    BY <1>1, <2>3 DEF thread_worker, WorkerProgress, WorkerSleep, WorkerExit, WorkerSpuriousWakeup,
       WorkerMarkExecuting, WorkerRunFunction, WorkerUncount, WorkerFreeDetached, Drained
  <2> QED
    BY <2>1, <2>2, <2>3
<1>2. ASSUME NEW c \in Clients, NewCall(c) PROVE Drained'
  BY <1>2, NameAssumption DEF NewCall, thread_pool_new, thread_task_new, Call, CallPoolDelete, Drained
<1>3. ASSUME NEW c \in Clients, CallStep(c) PROVE Drained'
  <2>1. CASE PushEnqueue(c)
    <3>1. poolLive /\ \A d \in Clients : cpc[d] # "pool_join"
      BY <2>1 DEF PushEnqueue
    <3> QED
      BY <2>1, <3>1 DEF PushEnqueue, Drained
  <2>2. CASE PoolDeleteLock(c)
    BY <2>2, CountedFinite DEF PoolDeleteLock, Drained
  <2>3. CASE PoolDeleteJoin(c)
    BY <2>3 DEF PoolDeleteJoin, Drained
  <2>4. CASE PushLock(c)
    BY <2>4 DEF PushLock, Drained
  <2>5. CASE JoinEnter(c) \/ JoinRecheck(c) \/ thread_task_delete(c) \/ thread_task_detach(c)
             \/ TimedJoinRead(c)
    BY <2>5 DEF JoinEnter, JoinRecheck, thread_task_delete, thread_task_detach, TimedJoinRead,
       Drained
  <2>6. CASE TimedJoinEnter(c) \/ TimedJoinRecheck(c) \/ TimedJoinExpire(c)
             \/ JoinSpuriousWakeup(c)
    BY <2>6 DEF TimedJoinEnter, TimedJoinRecheck, TimedJoinExpire, JoinSpuriousWakeup, Woken,
       Drained
  <2> QED
    BY <1>3, <2>1, <2>2, <2>3, <2>4, <2>5, <2>6 DEF CallStep, CallProgress
<1> QED
  BY <1>1, <1>2, <1>3 DEF Next

(* No worker goes to sleep in a pool that shuts down. *)
LEMMA ShutdownStep ==
  ASSUME PoolInv, ShutdownAwake, Next
  PROVE  ShutdownAwake'
<1> USE DEF PoolInv, TypeOK, ShutdownAwake, WorkerGoto, AtPoolLock
<1> USE DEF poolVars, ringVars, taskVars, callVars, workVars
<1>1. ASSUME NEW w \in Workers, thread_worker(w) PROVE ShutdownAwake'
  <2>1. CASE WorkerSleep(w)
    BY <2>1 DEF WorkerSleep
  <2>2. CASE WorkerTake(w) \/ WorkerExit(w) \/ WorkerSpuriousWakeup(w)
    BY <2>2 DEF WorkerTake, WorkerExit, WorkerSpuriousWakeup
  <2>3. CASE WorkerMarkExecuting(w) \/ WorkerRunFunction(w) \/ WorkerUncount(w)
             \/ WorkerFreeDetached(w)
    BY <2>3 DEF WorkerMarkExecuting, WorkerRunFunction, WorkerUncount, WorkerFreeDetached
  <2>4. CASE WorkerMarkDone(w)
    BY <2>4 DEF WorkerMarkDone
  <2> QED
    BY <1>1, <2>1, <2>2, <2>3, <2>4 DEF thread_worker, WorkerProgress
<1>2. ASSUME NEW c \in Clients, NewCall(c) PROVE ShutdownAwake'
  BY <1>2 DEF NewCall, thread_pool_new, thread_task_new, Call, CallPoolDelete
<1>3. ASSUME NEW c \in Clients, CallStep(c) PROVE ShutdownAwake'
  <2>1. CASE PushEnqueue(c)
    BY <2>1 DEF PushEnqueue, SignalWorker, StartWorker
  <2>2. CASE PoolDeleteLock(c)
    BY <2>2 DEF PoolDeleteLock
  <2>3. CASE PoolDeleteJoin(c)
    BY <2>3 DEF PoolDeleteJoin
  <2>4. CASE UNCHANGED <<shutdown, wpc>>
    BY <2>4
  <2> QED
    BY <1>3, <2>1, <2>2, <2>3, <2>4 DEF CallStep, CallProgress, PushLock, JoinEnter, JoinRecheck,
       thread_task_delete, thread_task_detach, TimedJoinRead, TimedJoinEnter, TimedJoinRecheck,
       TimedJoinExpire, JoinSpuriousWakeup
<1> QED
  BY <1>1, <1>2, <1>3 DEF Next

AtLock == {w \in Workers : wpc[w] = "lock"}

(* The workers about to look at the queue are finitely many, one more or   *)
(* one less than before when one worker arrives or leaves.                 *)
LEMMA AtLockCount ==
  ASSUME TypeOK
  PROVE  /\ Cardinality(AtLock) \in Nat
         /\ \A w \in Workers : wpc[w] # "lock" /\ AtLock' = AtLock \cup {w}
              => Cardinality(AtLock') = Cardinality(AtLock) + 1
         /\ \A w \in Workers : wpc[w] = "lock" /\ AtLock' = AtLock \ {w}
              => Cardinality(AtLock') = Cardinality(AtLock) - 1
<1>1. IsFiniteSet(AtLock)
  <2>1. AtLock \subseteq Workers
    BY DEF AtLock
  <2> QED
    BY <2>1, CountedFinite, FS_Subset
<1>2. \A w \in Workers : w \in AtLock <=> wpc[w] = "lock"
  BY DEF AtLock
<1>3. \A w : Cardinality(AtLock \cup {w}) =
              IF w \in AtLock THEN Cardinality(AtLock) ELSE Cardinality(AtLock) + 1
  BY <1>1, FS_AddElement
<1>4. \A w : Cardinality(AtLock \ {w}) =
              IF w \in AtLock THEN Cardinality(AtLock) - 1 ELSE Cardinality(AtLock)
  BY <1>1, FS_RemoveElement
<1> QED
  BY <1>1, <1>2, <1>3, <1>4, FS_CardinalityType

(* When a push finds no idle worker, every worker of the pool executes a   *)
(* task, so none is asleep.                                                *)
LEMMA AllBusy ==
  ASSUME PoolInv, ~HasIdleWorker
  PROVE  \A w \in Workers : wpc[w] # "wait"
<1> USE SizeAssumption DEF PoolInv, TypeOK
<1>1. Counted \subseteq 1 .. created_threads_count
  BY DEF Counted, ThreadsStarted, Workers
<1>2. IsFiniteSet(1 .. created_threads_count)
      /\ Cardinality(1 .. created_threads_count) = created_threads_count
  BY FS_Interval
<1>3. Cardinality(Counted) >= Cardinality(1 .. created_threads_count)
  BY <1>2, CountedFinite DEF HasIdleWorker, CountersExact
<1>4. Cardinality(Counted) <= Cardinality(1 .. created_threads_count)
      /\ (Cardinality(Counted) = Cardinality(1 .. created_threads_count)
             => Counted = 1 .. created_threads_count)
  BY <1>1, <1>2, FS_Subset
<1>5. Counted = 1 .. created_threads_count
  BY <1>2, <1>3, <1>4, CountedFinite
<1> QED
  BY <1>5 DEF Counted, ThreadsStarted, Workers

(* No step leaves a waiting task to a pool in which workers sleep. *)
LEMMA WorkStep ==
  ASSUME PoolInv, TaskInv, ShutdownAwake, WorkConserving, Next
  PROVE  WorkConserving'
<1> USE DEF PoolInv, TypeOK, WorkerGoto, AtPoolLock
<1> USE DEF poolVars, ringVars, taskVars, callVars, workVars
<1>0. (\E w \in Workers : wpc[w] = "wait") => task_waiting <= Cardinality(AtLock)
  BY DEF WorkConserving, AtLock
<1>1. SUFFICES ASSUME NEW v \in Workers, wpc'[v] = "wait"
               PROVE  task_waiting' <= Cardinality(AtLock')
  BY DEF WorkConserving, AtLock
<1>2. ASSUME NEW w \in Workers, thread_worker(w) PROVE task_waiting' <= Cardinality(AtLock')
  <2>1. CASE WorkerSleep(w)
    <3>1. AtLock' = AtLock \ {w}
      BY <2>1 DEF WorkerSleep, AtLock
    <3>2. IsFiniteSet(AtLock')
      <4>1. AtLock' \subseteq Workers
        BY DEF AtLock
      <4> QED
        BY <4>1, CountedFinite, FS_Subset
    <3> QED
      BY <2>1, <3>2, FS_CardinalityType DEF WorkerSleep
  <2>2. CASE WorkerExit(w)
    BY <1>1, <2>2 DEF WorkerExit, ShutdownAwake
  <2>3. CASE WorkerTake(w)
    <3>1. queue[readPtr] # NULL
      BY <2>3, RingHead, NameAssumption DEF WorkerTake
    <3>2. AtLock' = AtLock \ {w} /\ wpc[v] = "wait" /\ task_waiting' = task_waiting - 1
      BY <1>1, <2>3, <3>1 DEF WorkerTake, Dequeue, AtLock
    <3>3. Cardinality(AtLock') = Cardinality(AtLock) - 1
      BY <2>3, <3>2, AtLockCount DEF WorkerTake
    <3> QED
      BY <1>0, <3>2, <3>3, AtLockCount
  <2>4. CASE WorkerSpuriousWakeup(w) \/ WorkerFreeDetached(w)
    <3>1. AtLock' = AtLock \cup {w} /\ wpc[w] # "lock" /\ UNCHANGED task_waiting
      BY <2>4 DEF WorkerSpuriousWakeup, WorkerFreeDetached, AtLock
    <3>2. \E u \in Workers : wpc[u] = "wait"
      BY <1>1, <2>4 DEF WorkerSpuriousWakeup, WorkerFreeDetached
    <3>3. Cardinality(AtLock') = Cardinality(AtLock) + 1
      BY <3>1, AtLockCount
    <3> QED
      BY <1>0, <3>1, <3>2, <3>3, AtLockCount
  <2>5. CASE WorkerMarkExecuting(w) \/ WorkerRunFunction(w) \/ WorkerUncount(w)
    <3>1. AtLock' = AtLock /\ UNCHANGED task_waiting /\ wpc[v] = "wait"
      BY <1>1, <2>5 DEF WorkerMarkExecuting, WorkerRunFunction, WorkerUncount, AtLock
    <3> QED
      BY <1>0, <3>1
  <2>6. CASE WorkerMarkDone(w)
    <3>1. UNCHANGED task_waiting /\ wpc[v] = "wait" /\ wpc[w] # "lock"
      BY <1>1, <2>6 DEF WorkerMarkDone
    <3>2. AtLock' = AtLock \/ AtLock' = AtLock \cup {w}
      BY <2>6 DEF WorkerMarkDone, AtLock
    <3> QED
      BY <1>0, <3>1, <3>2, AtLockCount
  <2> QED
    BY <1>2, <2>1, <2>2, <2>3, <2>4, <2>5, <2>6 DEF thread_worker, WorkerProgress
<1>3. ASSUME NEW c \in Clients, NewCall(c) PROVE task_waiting' <= Cardinality(AtLock')
  <2>1. UNCHANGED wpc
    BY <1>3 DEF NewCall, thread_pool_new, thread_task_new, Call, CallPoolDelete
  <2>2. task_waiting' = task_waiting \/ task_waiting' = 0
    BY <1>3 DEF NewCall, thread_pool_new, thread_task_new, Call, CallPoolDelete
  <2>3. AtLock' = AtLock /\ wpc[v] = "wait"
    BY <1>1, <2>1 DEF AtLock
  <2> QED
    BY <1>0, <2>2, <2>3, AtLockCount
<1>4. ASSUME NEW c \in Clients, PushEnqueue(c) PROVE task_waiting' <= Cardinality(AtLock')
  <2>0. task_waiting' = task_waiting + 1
    BY <1>4 DEF PushEnqueue, Enqueue
  <2>1. CASE SignalWorker
    <3>1. PICK w \in Workers : wpc[w] = "wait" /\ wpc' = [wpc EXCEPT ![w] = "lock"]
      BY <1>1, <2>1 DEF SignalWorker
    <3>2. AtLock' = AtLock \cup {w} /\ wpc[w] # "lock"
      BY <3>1 DEF AtLock
    <3>3. Cardinality(AtLock') = Cardinality(AtLock) + 1
      BY <3>2, AtLockCount
    <3> QED
      BY <1>0, <2>0, <3>1, <3>3, AtLockCount
  <2>2. CASE ~HasIdleWorker
    <3>1. wpc[v] # "wait"
      BY <2>2, AllBusy
    <3>2. CASE StartWorker
      BY <1>1, <3>1, <3>2 DEF StartWorker
    <3>3. CASE UNCHANGED wpc
      BY <1>1, <3>1, <3>3
    <3> QED
      BY <1>4, <2>2, <3>2, <3>3 DEF PushEnqueue
  <2> QED
    BY <1>4, <2>1, <2>2 DEF PushEnqueue
<1>5. ASSUME NEW c \in Clients, PoolDeleteLock(c) \/ PoolDeleteJoin(c)
      PROVE  task_waiting' <= Cardinality(AtLock')
  <2>1. UNCHANGED <<wpc, task_waiting>>
    BY <1>1, <1>5 DEF PoolDeleteLock, PoolDeleteJoin
  <2>2. AtLock' = AtLock /\ wpc[v] = "wait"
    BY <1>1, <2>1 DEF AtLock
  <2> QED
    BY <1>0, <2>1, <2>2
<1>6. ASSUME NEW c \in Clients, CallStep(c), ~PushEnqueue(c), ~PoolDeleteLock(c),
             ~PoolDeleteJoin(c)
      PROVE  task_waiting' <= Cardinality(AtLock')
  <2>1. UNCHANGED <<wpc, task_waiting>>
    BY <1>6 DEF CallStep, CallProgress, PushLock, JoinEnter, JoinRecheck,
       thread_task_delete, thread_task_detach, TimedJoinRead, TimedJoinEnter, TimedJoinRecheck,
       TimedJoinExpire, JoinSpuriousWakeup
  <2>2. AtLock' = AtLock /\ wpc[v] = "wait"
    BY <1>1, <2>1 DEF AtLock
  <2> QED
    BY <1>0, <2>1, <2>2
<1> QED
  BY <1>2, <1>3, <1>4, <1>5, <1>6 DEF Next

(* Every step preserves the invariant. *)
LEMMA WorkInvStep == PoolInv /\ TaskInv /\ WorkInv /\ [Next]_vars => WorkInv'
<1> SUFFICES ASSUME PoolInv, TaskInv, WorkInv, [Next]_vars PROVE WorkInv'
  OBVIOUS
<1>1. CASE UNCHANGED vars
  BY <1>1 DEF vars, poolVars, ringVars, workVars, taskVars, callVars, WorkInv, Located, Drained,
     ShutdownAwake, WorkConserving
<1>2. CASE Next
  <2>1. Located'
    BY <1>2, LocatedWorker, LocatedClient DEF Next, WorkInv
  <2> QED
    BY <1>2, <2>1, DrainedStep, ShutdownStep, WorkStep DEF WorkInv
<1> QED
  BY <1>1, <1>2

(* Tasks, ring and sleepers stay accounted for in every reachable state. *)
THEOREM WorkInvariant == Spec => []WorkInv
BY InitWork, WorkInvStep, PoolInvariant, TaskInvariant, PTL DEF Spec

(* No wakeup is lost: the signal of thread_pool_push_task, given after the *)
(* counters were read, never leaves a waiting task with no awake worker    *)
(* while another sleeps, also when pthread_create fails.                   *)
THEOREM NoLostWakeup == Spec => []WorkConserving
<1>1. WorkInv => WorkConserving
  BY DEF WorkInv
<1> QED
  BY <1>1, WorkInvariant, PTL

(* thread_pool_delete frees the pool only when no task is queued, running  *)
(* or still to be marked done by a worker that has already uncounted it.   *)
THEOREM DeleteLeavesNothing == Spec => []PoolGoneQuiet
<1>1. PoolInv /\ TaskInv /\ WorkInv => PoolGoneQuiet
  <2> SUFFICES ASSUME PoolInv, TaskInv, WorkInv, ~poolLive
               PROVE  /\ \A t \in Tasks : state[t] \notin {"QUEUED", "EXECUTING"}
                      /\ \A w \in Workers : wtask[w] = NULL
    BY DEF PoolGoneQuiet
  <2>1. \A w \in Workers : wpc[w] = "none" /\ wtask[w] = NULL
    BY DEF PoolInv, ThreadsStarted, TaskInv, WorkerTasks, Busy
  <2>2. \A i \in Slots : queue[i] = NULL
    BY SizeAssumption DEF PoolInv, TypeOK, RingWindow, InWindow, WorkInv, Drained, Slots
  <2>3. \A t \in Tasks : state[t] \notin {"QUEUED", "EXECUTING"}
    BY <2>1, <2>2, NameAssumption DEF WorkInv, Located
  <2> QED
    BY <2>1, <2>3
<1> QED
  BY <1>1, PoolInvariant, TaskInvariant, WorkInvariant, PTL
=============================================================================
