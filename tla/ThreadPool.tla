----------------------------- MODULE ThreadPool -----------------------------
(***************************************************************************)
(* The thread pool of Assignment_4/thread_pool.c: the pool and its worker  *)
(* threads, the task objects, and the application threads that call the    *)
(* API.                                                                    *)
(*                                                                         *)
(* Granularity.  A critical section that only touches what its mutex       *)
(* guards is one step.  A mutex therefore has an owner between two steps   *)
(* only where the code really keeps it: thread_pool_push_task holds the    *)
(* pool mutex while it waits for the task mutex (and for ever when         *)
(* pthread_create fails), and thread_task_timed_join holds the task mutex  *)
(* while pthread_cond_timedwait rejects its deadline.  What the code does  *)
(* outside a mutex (running the function, freeing a detached task, the     *)
(* late read of the result) is a step of its own.                          *)
(***************************************************************************)
EXTENDS Integers, FiniteSets

CONSTANTS
  Clients,             \* application threads
  Tasks,               \* addresses calloc may give to a struct thread_task
  Calls,               \* the task calls the application makes
  TPOOL_MAX_THREADS,
  TPOOL_MAX_TASKS,
  SEC,                 \* clock ticks per second
  Clock,               \* sub-second ticks gettimeofday may show
  Timeouts,            \* timeouts of thread_task_timed_join, in ticks
  INFINITE,            \* the timeout "infinity or DBL_MAX"
  CreateFails,         \* whether pthread_create may fail
  NULL

ASSUME SizeAssumption ==
  /\ TPOOL_MAX_THREADS \in Nat \ {0}
  /\ TPOOL_MAX_TASKS \in Nat \ {0}

ASSUME TimeAssumption ==
  /\ SEC \in Nat \ {0}
  /\ Clock \subseteq 0 .. SEC - 1
  /\ Timeouts \subseteq Nat \cup {INFINITE}

ASSUME NameAssumption ==
  /\ NULL \notin Tasks \cup Clients
  /\ Calls \subseteq {"push", "join", "timed_join", "delete", "detach"}
  /\ CreateFails \in BOOLEAN

Workers == 1 .. TPOOL_MAX_THREADS    \* the slots of pool->threads
Slots   == 0 .. TPOOL_MAX_TASKS - 1  \* the slots of pool->queue

VARIABLES
  poolLive,               \* the struct thread_pool is allocated
  max_thread_count, created_threads_count,
  task_waiting, task_executing,
  queue, readPtr, writePtr,
  shutdown,
  poolMutex,              \* client that owns pool->mutex across steps, or NULL
  wpc, wtask,             \* step and task of each worker thread
  mem,                    \* "free", "live", or "husk": mutex and condition
                          \* destroyed but the memory still allocated
  state, detachMode,
  taskMutex,              \* client that owns task->mutex across steps, or NULL
  fresh,                  \* task->result was stored since the last push
  handle,                 \* the application may still pass the task to calls
  cpc, ctask              \* step and task of each application thread

ringVars == <<task_waiting, queue, readPtr, writePtr>>
poolVars == <<poolLive, max_thread_count, created_threads_count, ringVars,
              task_executing, shutdown, poolMutex>>
workVars == <<wpc, wtask>>
taskVars == <<mem, state, detachMode, taskMutex, fresh, handle>>
callVars == <<cpc, ctask>>
vars     == <<poolVars, workVars, taskVars, callVars>>

WorkerSteps == {"none", "lock", "wait", "got", "run", "ran", "done", "free",
                "exit"}
TaskStates  == {"CREATED", "QUEUED", "EXECUTING", "DONE", "JOINED"}
ClientSteps == {"idle", "push", "enqueue", "join", "join_wait", "join_woken",
                "timed_join", "timed_wait", "timed_woken", "spin", "read",
                "delete", "detach", "pool_delete", "pool_join"}

TypeOK ==
  /\ poolLive \in BOOLEAN /\ shutdown \in BOOLEAN
  /\ max_thread_count \in 0 .. TPOOL_MAX_THREADS
  /\ created_threads_count \in 0 .. TPOOL_MAX_THREADS
  /\ task_waiting \in 0 .. TPOOL_MAX_TASKS /\ task_executing \in Int
  /\ queue \in [Slots -> Tasks \cup {NULL}]
  /\ readPtr \in Slots /\ writePtr \in Slots
  /\ poolMutex \in Clients \cup {NULL}
  /\ wpc \in [Workers -> WorkerSteps]
  /\ wtask \in [Workers -> Tasks \cup {NULL}]
  /\ mem \in [Tasks -> {"free", "live", "husk"}]
  /\ state \in [Tasks -> TaskStates]
  /\ detachMode \in [Tasks -> BOOLEAN] /\ fresh \in [Tasks -> BOOLEAN]
  /\ handle \in [Tasks -> BOOLEAN]
  /\ taskMutex \in [Tasks -> Clients \cup {NULL}]
  /\ cpc \in [Clients -> ClientSteps]
  /\ ctask \in [Clients -> Tasks \cup {NULL}]

Init ==
  /\ poolLive = FALSE /\ shutdown = FALSE
  /\ max_thread_count = 0 /\ created_threads_count = 0
  /\ task_waiting = 0 /\ task_executing = 0
  /\ queue = [i \in Slots |-> NULL] /\ readPtr = 0 /\ writePtr = 0
  /\ poolMutex = NULL
  /\ wpc = [w \in Workers |-> "none"] /\ wtask = [w \in Workers |-> NULL]
  /\ mem = [t \in Tasks |-> "free"] /\ state = [t \in Tasks |-> "CREATED"]
  /\ detachMode = [t \in Tasks |-> FALSE] /\ fresh = [t \in Tasks |-> FALSE]
  /\ handle = [t \in Tasks |-> FALSE]
  /\ taskMutex = [t \in Tasks |-> NULL]
  /\ cpc = [c \in Clients |-> "idle"] /\ ctask = [c \in Clients |-> NULL]

-----------------------------------------------------------------------------
(* thread_worker *)

(* Mutant: no wrap at the end of the array. *)
NextSlotNoWrap(i) == i + 1

NextSlot(i) == IF i + 1 = TPOOL_MAX_TASKS THEN 0 ELSE i + 1

WorkerGoto(w, step, t) ==
  /\ wpc' = [wpc EXCEPT ![w] = step]
  /\ wtask' = [wtask EXCEPT ![w] = t]

AtPoolLock(w) == wpc[w] = "lock" /\ poolMutex = NULL

WorkerSleep(w) ==
  /\ AtPoolLock(w) /\ task_waiting = 0 /\ ~shutdown
  /\ WorkerGoto(w, "wait", NULL)
  /\ UNCHANGED <<poolVars, taskVars, callVars>>

(* pthread_cond_wait may return without a signal. *)
WorkerSpuriousWakeup(w) ==
  /\ wpc[w] = "wait"
  /\ WorkerGoto(w, "lock", NULL)
  /\ UNCHANGED <<poolVars, taskVars, callVars>>

WorkerExit(w) ==
  /\ AtPoolLock(w) /\ shutdown
  /\ WorkerGoto(w, "exit", NULL)
  /\ UNCHANGED <<poolVars, taskVars, callVars>>

(* Mutant: the taken task stays in the ring. *)
DequeueKeepsSlot ==
  /\ readPtr' = NextSlot(readPtr) /\ task_waiting' = task_waiting - 1
  /\ UNCHANGED queue

Dequeue ==
  /\ queue' = [queue EXCEPT ![readPtr] = NULL]
  /\ readPtr' = NextSlot(readPtr) /\ task_waiting' = task_waiting - 1

(* A NULL slot is counted as executing and uncounted again at once.  That  *)
(* branch is dead: see RingWindow.                                         *)
WorkerTake(w) ==
  LET t == queue[readPtr] IN
  /\ AtPoolLock(w) /\ task_waiting # 0 /\ ~shutdown
  /\ Dequeue
  /\ task_executing' = IF t = NULL THEN task_executing ELSE task_executing + 1
  /\ WorkerGoto(w, IF t = NULL THEN "lock" ELSE "got", t)
  /\ UNCHANGED <<poolLive, max_thread_count, created_threads_count, writePtr,
                 shutdown, poolMutex, taskVars, callVars>>

WorkerMarkExecuting(w) ==
  /\ wpc[w] = "got" /\ taskMutex[wtask[w]] = NULL
  /\ state' = [state EXCEPT ![wtask[w]] = "EXECUTING"]
  /\ WorkerGoto(w, "run", wtask[w])
  /\ UNCHANGED <<poolVars, mem, detachMode, taskMutex, fresh, handle, callVars>>

(* Mutant: the task is marked done before the pool stops counting it. *)
WorkerRunFunctionMarksDone(w) ==
  /\ wpc[w] = "run"
  /\ fresh' = [fresh EXCEPT ![wtask[w]] = TRUE]
  /\ state' = [state EXCEPT ![wtask[w]] = "DONE"]
  /\ WorkerGoto(w, "ran", wtask[w])
  /\ UNCHANGED <<poolVars, mem, detachMode, taskMutex, handle, callVars>>

WorkerRunFunction(w) ==
  /\ wpc[w] = "run"
  /\ fresh' = [fresh EXCEPT ![wtask[w]] = TRUE]
  /\ WorkerGoto(w, "ran", wtask[w])
  /\ UNCHANGED <<poolVars, mem, state, detachMode, taskMutex, handle, callVars>>

(* Mutant: task_executing is not decremented. *)
WorkerUncountForgets(w) ==
  /\ wpc[w] = "ran" /\ poolMutex = NULL
  /\ WorkerGoto(w, "done", wtask[w])
  /\ UNCHANGED <<poolVars, taskVars, callVars>>

WorkerUncount(w) ==
  /\ wpc[w] = "ran" /\ poolMutex = NULL
  /\ task_executing' = task_executing - 1
  /\ WorkerGoto(w, "done", wtask[w])
  /\ UNCHANGED <<poolLive, max_thread_count, created_threads_count, ringVars,
                 shutdown, poolMutex, taskVars, callVars>>

Woken(step) == IF step = "join_wait" THEN "join_woken" ELSE "timed_woken"

Asleep(t) == {c \in Clients : ctask[c] = t /\ cpc[c] \in {"join_wait", "timed_wait"}}

(* Mutant: pthread_cond_signal wakes one sleeper only. *)
WakeOneJoiner(t) ==
  \/ Asleep(t) = {} /\ UNCHANGED cpc
  \/ \E c \in Asleep(t) : cpc' = [cpc EXCEPT ![c] = Woken(cpc[c])]

(* pthread_cond_broadcast(&task->cond) *)
WakeJoiners(t) ==
  cpc' = [c \in Clients |-> IF c \in Asleep(t) THEN Woken(cpc[c]) ELSE cpc[c]]

(* Mutant: detachMode is ignored. *)
WorkerMarkDoneKeeps(w) ==
  /\ wpc[w] = "done" /\ taskMutex[wtask[w]] = NULL
  /\ state' = [state EXCEPT ![wtask[w]] = "DONE"]
  /\ WakeJoiners(wtask[w])
  /\ WorkerGoto(w, "lock", NULL)
  /\ UNCHANGED <<poolVars, mem, detachMode, taskMutex, fresh, handle, ctask>>

WorkerMarkDone(w) ==
  LET t == wtask[w] IN
  /\ wpc[w] = "done" /\ taskMutex[t] = NULL
  /\ state' = [state EXCEPT ![t] = "DONE"]
  /\ WakeJoiners(t)
  /\ IF detachMode[t] THEN WorkerGoto(w, "free", t)
                      ELSE WorkerGoto(w, "lock", NULL)
  /\ UNCHANGED <<poolVars, mem, detachMode, taskMutex, fresh, handle, ctask>>

WorkerFreeDetached(w) ==
  /\ wpc[w] = "free"
  /\ mem' = [mem EXCEPT ![wtask[w]] = "free"]
  /\ WorkerGoto(w, "lock", NULL)
  /\ UNCHANGED <<poolVars, state, detachMode, taskMutex, fresh, handle,
                 callVars>>

-----------------------------------------------------------------------------
(* Calls.  The application is trusted with what the C code cannot check:   *)
(* it passes live objects, it does not use a task in two calls of which    *)
(* one pushes, deletes or detaches it, it pushes a task that is new or     *)
(* joined, and it does not push into a pool that it is deleting.           *)

Goto(c, step) == cpc' = [cpc EXCEPT ![c] = step] /\ UNCHANGED ctask

Return(c) == /\ cpc' = [cpc EXCEPT ![c] = "idle"]
             /\ ctask' = [ctask EXCEPT ![c] = NULL]

Exclusive == {"push", "enqueue", "delete", "detach"}

MayCall(op, t) ==
  /\ op \in Calls /\ handle[t]
  /\ \A d \in Clients : ctask[d] = t =>
       cpc[d] \notin Exclusive /\ op \notin Exclusive
  /\ op = "push" =>
       /\ poolLive /\ state[t] \in {"CREATED", "JOINED"}
       /\ \A d \in Clients : cpc[d] \notin {"pool_delete", "pool_join"}

Call(c, op, t) ==
  /\ cpc[c] = "idle" /\ MayCall(op, t)
  /\ cpc' = [cpc EXCEPT ![c] = op] /\ ctask' = [ctask EXCEPT ![c] = t]
  /\ UNCHANGED <<poolVars, workVars, taskVars>>

CallPoolDelete(c) ==
  /\ cpc[c] = "idle" /\ poolLive
  /\ \A d \in Clients :
       cpc[d] \notin {"push", "enqueue", "pool_delete", "pool_join"}
  /\ Goto(c, "pool_delete")
  /\ UNCHANGED <<poolVars, workVars, taskVars>>

-----------------------------------------------------------------------------
(* The pool API *)

thread_pool_new(c, n) ==
  /\ cpc[c] = "idle" /\ ~poolLive
  /\ n > 0 /\ n <= TPOOL_MAX_THREADS
  /\ poolLive' = TRUE /\ shutdown' = FALSE
  /\ max_thread_count' = n /\ created_threads_count' = 0
  /\ task_waiting' = 0 /\ task_executing' = 0
  /\ queue' = [i \in Slots |-> NULL] /\ readPtr' = 0 /\ writePtr' = 0
  /\ poolMutex' = NULL
  /\ UNCHANGED <<workVars, taskVars, callVars>>

PushLock(c) ==
  /\ cpc[c] = "push" /\ poolMutex = NULL
  /\ IF task_waiting + task_executing >= TPOOL_MAX_TASKS
     THEN Return(c) /\ UNCHANGED poolMutex   \* TPOOL_ERR_TOO_MANY_TASKS
     ELSE Goto(c, "enqueue") /\ poolMutex' = c
  /\ UNCHANGED <<poolLive, max_thread_count, created_threads_count, ringVars,
                 task_executing, shutdown, workVars, taskVars>>

(* Mutant: nobody is woken. *)
SignalNobody == UNCHANGED wpc

(* pthread_cond_signal(&pool->cond): wake one sleeping worker, if any. *)
SignalWorker ==
  \/ \E w \in Workers : /\ wpc[w] = "wait"
                        /\ wpc' = [wpc EXCEPT ![w] = "lock"]
  \/ /\ \A w \in Workers : wpc[w] # "wait"
     /\ UNCHANGED wpc

StartWorker ==
  /\ created_threads_count' = created_threads_count + 1
  /\ wpc' = [wpc EXCEPT ![created_threads_count + 1] = "lock"]

(* Mutants: one worker too many, or never a first one. *)
HasIdleWorkerOverLimit == \/ task_executing < created_threads_count
                          \/ created_threads_count > max_thread_count

HasIdleWorkerAlways == \/ task_executing <= created_threads_count
                       \/ created_threads_count >= max_thread_count

HasIdleWorker == \/ task_executing < created_threads_count
                 \/ created_threads_count >= max_thread_count

(* Mutant: writePtr stays where it was. *)
EnqueueInPlace(t) ==
  /\ queue' = [queue EXCEPT ![writePtr] = t]
  /\ task_waiting' = task_waiting + 1
  /\ state' = [state EXCEPT ![t] = "QUEUED"]
  /\ fresh' = [fresh EXCEPT ![t] = FALSE]
  /\ UNCHANGED <<readPtr, writePtr, mem, detachMode, taskMutex, handle>>

Enqueue(t) ==
  /\ queue' = [queue EXCEPT ![writePtr] = t]
  /\ writePtr' = NextSlot(writePtr)
  /\ task_waiting' = task_waiting + 1
  /\ state' = [state EXCEPT ![t] = "QUEUED"]
  /\ fresh' = [fresh EXCEPT ![t] = FALSE]
  /\ UNCHANGED <<readPtr, mem, detachMode, taskMutex, handle>>

PushEnqueue(c) ==
  LET t == ctask[c] IN
  /\ cpc[c] = "enqueue" /\ taskMutex[t] = NULL
  /\ Enqueue(t)
  /\ \/ /\ HasIdleWorker
        /\ SignalWorker
        /\ poolMutex' = NULL /\ UNCHANGED created_threads_count
     \/ /\ ~HasIdleWorker
        /\ StartWorker
        /\ poolMutex' = NULL
     \/ /\ ~HasIdleWorker /\ CreateFails   \* returns with the mutex locked
        /\ UNCHANGED <<wpc, poolMutex, created_threads_count>>
  /\ Return(c)
  /\ UNCHANGED <<poolLive, max_thread_count, task_executing, shutdown, wtask>>

PoolDeleteLock(c) ==
  /\ cpc[c] = "pool_delete" /\ poolMutex = NULL
  /\ IF task_executing > 0 \/ task_waiting > 0
     THEN Return(c) /\ UNCHANGED <<shutdown, wpc>>   \* TPOOL_ERR_HAS_TASKS
     ELSE /\ shutdown' = TRUE
          /\ wpc' = [w \in Workers |-> IF wpc[w] = "wait" THEN "lock" ELSE wpc[w]]
          /\ Goto(c, "pool_join")
  /\ UNCHANGED <<poolLive, max_thread_count, created_threads_count, ringVars,
                 task_executing, poolMutex, wtask, taskVars>>

(* Mutant: the workers are not joined. *)
PoolDeleteNoJoin(c) ==
  /\ cpc[c] = "pool_join"
  /\ poolLive' = FALSE
  /\ wpc' = [w \in Workers |-> "none"]
  /\ Return(c)
  /\ UNCHANGED <<max_thread_count, created_threads_count, ringVars,
                 task_executing, shutdown, poolMutex, wtask, taskVars>>

PoolDeleteJoin(c) ==
  /\ cpc[c] = "pool_join"
  /\ \A w \in 1 .. created_threads_count : wpc[w] = "exit"
  /\ poolLive' = FALSE
  /\ wpc' = [w \in Workers |-> "none"]
  /\ Return(c)
  /\ UNCHANGED <<max_thread_count, created_threads_count, ringVars,
                 task_executing, shutdown, poolMutex, wtask, taskVars>>

-----------------------------------------------------------------------------
(* The task API *)

Finished(t) == state[t] \in {"DONE", "JOINED"}

SetState(t, s) == /\ state' = [state EXCEPT ![t] = s]
                  /\ UNCHANGED <<mem, detachMode, taskMutex, fresh, handle>>

AtTaskLock(c, step) == cpc[c] = step /\ taskMutex[ctask[c]] = NULL

thread_task_new(c, t) ==
  /\ cpc[c] = "idle" /\ mem[t] = "free"
  /\ mem' = [mem EXCEPT ![t] = "live"]
  /\ state' = [state EXCEPT ![t] = "CREATED"]
  /\ detachMode' = [detachMode EXCEPT ![t] = FALSE]
  /\ fresh' = [fresh EXCEPT ![t] = FALSE]
  /\ handle' = [handle EXCEPT ![t] = TRUE]
  /\ UNCHANGED <<poolVars, workVars, taskMutex, callVars>>

JoinEnter(c) ==
  LET t == ctask[c] IN
  /\ AtTaskLock(c, "join")
  /\ \/ state[t] = "CREATED" /\ Return(c) /\ UNCHANGED taskVars
     \/ Finished(t) /\ SetState(t, "JOINED") /\ Return(c)
     \/ /\ state[t] # "CREATED" /\ ~Finished(t)
        /\ Goto(c, "join_wait") /\ UNCHANGED taskVars
  /\ UNCHANGED <<poolVars, workVars>>

JoinRecheck(c) ==
  LET t == ctask[c] IN
  /\ AtTaskLock(c, "join_woken")
  /\ IF Finished(t) THEN SetState(t, "JOINED") /\ Return(c)
                    ELSE Goto(c, "join_wait") /\ UNCHANGED taskVars
  /\ UNCHANGED <<poolVars, workVars>>

(* deadline.tv_nsec of thread_task_timed_join, in ticks: the comparison    *)
(* with a full second is ">".  The conversion of an infinite timeout is    *)
(* undefined; gcc on x86-64 yields the most negative value.                *)
DeadlineTicks(now, timeout) ==
  IF timeout = INFINITE THEN -1
  ELSE LET ticks == now + ((timeout + 1) % SEC)
       IN  IF ticks > SEC THEN ticks - SEC ELSE ticks

(* pthread_cond_timedwait answers EINVAL, with the mutex kept, to any      *)
(* other deadline.                                                         *)
ValidDeadline(now, timeout) == DeadlineTicks(now, timeout) \in 0 .. SEC - 1

TimedJoinEnter(c) ==
  LET t == ctask[c] IN
  /\ AtTaskLock(c, "timed_join")
  /\ \/ state[t] = "CREATED" /\ Return(c) /\ UNCHANGED taskVars
     \/ Finished(t) /\ SetState(t, "JOINED") /\ Return(c)
     \/ /\ state[t] # "CREATED" /\ ~Finished(t)
        /\ \E timeout \in Timeouts, now \in Clock :
             \/ timeout = 0 /\ Return(c) /\ UNCHANGED taskVars
             \/ /\ timeout # 0 /\ ValidDeadline(now, timeout)
                /\ Goto(c, "timed_wait") /\ UNCHANGED taskVars
             \/ /\ timeout # 0 /\ ~ValidDeadline(now, timeout)
                /\ Goto(c, "spin")
                /\ taskMutex' = [taskMutex EXCEPT ![t] = c]
                /\ UNCHANGED <<mem, state, detachMode, fresh, handle>>
  /\ UNCHANGED <<poolVars, workVars>>

TimedJoinRecheck(c) ==
  LET t == ctask[c] IN
  /\ AtTaskLock(c, "timed_woken")
  /\ IF Finished(t) THEN SetState(t, "JOINED") /\ Goto(c, "read")
                    ELSE Goto(c, "timed_wait") /\ UNCHANGED taskVars
  /\ UNCHANGED <<poolVars, workVars>>

(* Mutant: the state is not looked at after ETIMEDOUT. *)
TimedJoinExpireBlind(c) ==
  /\ AtTaskLock(c, "timed_wait") \/ AtTaskLock(c, "timed_woken")
  /\ SetState(ctask[c], "JOINED") /\ Goto(c, "read")
  /\ UNCHANGED <<poolVars, workVars>>

(* ETIMEDOUT, for a thread that sleeps or was just woken. *)
TimedJoinExpire(c) ==
  LET t == ctask[c] IN
  /\ AtTaskLock(c, "timed_wait") \/ AtTaskLock(c, "timed_woken")
  /\ IF Finished(t) THEN SetState(t, "JOINED") /\ Goto(c, "read")
                    ELSE Return(c) /\ UNCHANGED taskVars   \* TPOOL_ERR_TIMEOUT
  /\ UNCHANGED <<poolVars, workVars>>

TimedJoinRead(c) ==
  /\ cpc[c] = "read"
  /\ Return(c)
  /\ UNCHANGED <<poolVars, workVars, taskVars>>

JoinSpuriousWakeup(c) ==
  /\ cpc[c] \in {"join_wait", "timed_wait"}
  /\ Goto(c, Woken(cpc[c]))
  /\ UNCHANGED <<poolVars, workVars, taskVars>>

(* Mutant: only a task that executes is kept. *)
DeletableUnlessRunning(t) == state[t] # "EXECUTING"

Deletable(t) == \/ state[t] \in {"CREATED", "JOINED"}
                \/ detachMode[t] /\ state[t] = "DONE"

thread_task_delete(c) ==
  LET t == ctask[c] IN
  /\ AtTaskLock(c, "delete")
  /\ IF Deletable(t)
     THEN /\ mem' = [mem EXCEPT ![t] = "free"]
          /\ handle' = [handle EXCEPT ![t] = FALSE]
          /\ UNCHANGED <<state, detachMode, taskMutex, fresh>>
     ELSE UNCHANGED taskVars   \* TPOOL_ERR_TASK_IN_POOL
  /\ Return(c)
  /\ UNCHANGED <<poolVars, workVars>>

(* A finished task loses its mutex and condition variable but is not freed. *)
thread_task_detach(c) ==
  LET t == ctask[c] IN
  /\ AtTaskLock(c, "detach")
  /\ \/ state[t] = "CREATED" /\ UNCHANGED taskVars   \* TPOOL_ERR_TASK_NOT_PUSHED
     \/ /\ state[t] = "DONE"
        /\ mem' = [mem EXCEPT ![t] = "husk"]
        /\ handle' = [handle EXCEPT ![t] = FALSE]
        /\ UNCHANGED <<state, detachMode, taskMutex, fresh>>
     \/ /\ state[t] \notin {"CREATED", "DONE"}
        /\ detachMode' = [detachMode EXCEPT ![t] = TRUE]
        /\ handle' = [handle EXCEPT ![t] = FALSE]
        /\ UNCHANGED <<mem, state, taskMutex, fresh>>
  /\ Return(c)
  /\ UNCHANGED <<poolVars, workVars>>

-----------------------------------------------------------------------------
WorkerProgress(w) ==
  \/ WorkerSleep(w) \/ WorkerExit(w) \/ WorkerTake(w)
  \/ WorkerMarkExecuting(w) \/ WorkerRunFunction(w)
  \/ WorkerUncount(w) \/ WorkerMarkDone(w) \/ WorkerFreeDetached(w)

thread_worker(w) == WorkerProgress(w) \/ WorkerSpuriousWakeup(w)

NewCall(c) ==
  \/ \E n \in 1 .. TPOOL_MAX_THREADS : thread_pool_new(c, n)
  \/ \E t \in Tasks : thread_task_new(c, t)
  \/ \E op \in Calls, t \in Tasks : Call(c, op, t)
  \/ CallPoolDelete(c)

CallProgress(c) ==
  \/ PushLock(c) \/ PushEnqueue(c)
  \/ PoolDeleteLock(c) \/ PoolDeleteJoin(c)
  \/ JoinEnter(c) \/ JoinRecheck(c)
  \/ TimedJoinEnter(c) \/ TimedJoinRecheck(c) \/ TimedJoinRead(c)
  \/ thread_task_delete(c) \/ thread_task_detach(c)

CallStep(c) == \/ CallProgress(c) \/ TimedJoinExpire(c)
               \/ JoinSpuriousWakeup(c)

Next == \/ \E w \in Workers : thread_worker(w)
        \/ \E c \in Clients : NewCall(c) \/ CallStep(c)

Spec == Init /\ [][Next]_vars

(* What the operating system and the application owe the pool.  A thread   *)
(* that can run does run, and one that waits for a mutex gets it although  *)
(* other threads keep taking it: strong fairness of each thread's own next *)
(* step.  A task function returns (WorkerRunFunction is such a step) and a *)
(* deadline passes (fairness of TimedJoinExpire).  Nothing is assumed of   *)
(* spurious wakeups, and the application need not make any call.           *)
Fairness ==
  /\ \A w \in Workers : SF_vars(WorkerProgress(w))
  /\ \A c \in Clients : SF_vars(CallProgress(c)) /\ SF_vars(TimedJoinExpire(c))

FairSpec == Spec /\ Fairness

-----------------------------------------------------------------------------
(* Safety properties *)

(* Slot i holds a task that waits: it lies in the task_waiting slots from  *)
(* readPtr on, round the end of the array.                                 *)
InWindow(i) ==
  IF readPtr + task_waiting <= TPOOL_MAX_TASKS
  THEN readPtr <= i /\ i < readPtr + task_waiting
  ELSE readPtr <= i \/ i < readPtr + task_waiting - TPOOL_MAX_TASKS

(* The ring and its counter agree: exactly the slots between readPtr and   *)
(* writePtr hold tasks.  So thread_worker never takes a NULL task (its     *)
(* unlocked task_executing-- is dead code) and thread_pool_push_task never *)
(* overwrites a task that waits.                                           *)
RingWindow ==
  /\ writePtr = IF readPtr + task_waiting >= TPOOL_MAX_TASKS
                THEN readPtr + task_waiting - TPOOL_MAX_TASKS
                ELSE readPtr + task_waiting
  /\ \A i \in Slots : queue[i] # NULL <=> InWindow(i)

Counted == {w \in Workers : wpc[w] \in {"got", "run", "ran"}}

(* task_executing is the number of workers between taking a task and       *)
(* uncounting it, and the pool never has more than TPOOL_MAX_TASKS tasks,  *)
(* although the counters are checked and changed in different sections.    *)
CountersExact ==
  /\ task_executing = Cardinality(Counted)
  /\ task_waiting + task_executing <= TPOOL_MAX_TASKS

(* Memory safety of tasks: whatever the queue, a worker or a running call  *)
(* refers to is allocated with its mutex intact.                           *)
NoDanglingTask ==
  /\ \A i \in Slots : queue[i] # NULL => mem[queue[i]] = "live"
  /\ \A w \in Workers : wtask[w] # NULL => mem[wtask[w]] = "live"
  /\ \A c \in Clients : ctask[c] # NULL => mem[ctask[c]] = "live"

(* A pushed task is in one place only: one slot or one worker.             *)
SinglePlace ==
  /\ \A i, j \in Slots : queue[i] = queue[j] /\ queue[i] # NULL => i = j
  /\ \A v, w \in Workers : wtask[v] = wtask[w] /\ wtask[v] # NULL => v = w
  /\ \A i \in Slots, w \in Workers : queue[i] # NULL => queue[i] # wtask[w]

(* A join that finds a task finished returns the result of the latest      *)
(* push, never that of an earlier run of a reused task.                    *)
ResultFresh == \A t \in Tasks : Finished(t) /\ mem[t] = "live" => fresh[t]

(* No thread sleeps in a join on a task that has already finished: the     *)
(* broadcast of thread_worker reaches every sleeper.                       *)
NoMissedBroadcast ==
  \A c \in Clients : cpc[c] \in {"join_wait", "timed_wait"} => ~Finished(ctask[c])

(* No lost wakeup in the pool: while a worker sleeps, every waiting task   *)
(* has an awake worker of its own about to look at the queue.              *)
WorkConserving ==
  (\E w \in Workers : wpc[w] = "wait") =>
    task_waiting <= Cardinality({w \in Workers : wpc[w] = "lock"})

(* When every task is finished the pool counts no task, so the             *)
(* thread_pool_delete that follows the last join cannot answer             *)
(* TPOOL_ERR_HAS_TASKS: the worker uncounts a task before it marks it done. *)
IdleWhenFinished ==
  (\A t \in Tasks : state[t] \notin {"QUEUED", "EXECUTING"})
    => task_waiting = 0 /\ task_executing = 0

(* Once the pool is freed no task is left half way: thread_pool_delete     *)
(* lets a worker that has uncounted its task still mark it done.           *)
PoolGoneQuiet ==
  ~poolLive => /\ \A t \in Tasks : state[t] \notin {"QUEUED", "EXECUTING"}
               /\ \A w \in Workers : wtask[w] = NULL

-----------------------------------------------------------------------------
(* Liveness properties *)

(* Every pushed task is executed to the end. *)
PushedFinishes ==
  \A t \in Tasks : state[t] = "QUEUED" ~> state[t] = "DONE"

(* Every call returns: no join sleeps for ever, no push or delete blocks.  *)
CallsReturn == \A c \in Clients : cpc[c] # "idle" ~> cpc[c] = "idle"

(* A timed join returns, whether or not its task ends. *)
TimedJoinReturns ==
  \A c \in Clients : cpc[c] = "timed_join" ~> cpc[c] = "idle"

(* A task detached before it finished is freed by its worker. *)
DetachedPendingFreed ==
  \A t \in Tasks : detachMode[t] /\ state[t] \in {"QUEUED", "EXECUTING"}
                     ~> mem[t] = "free"
=============================================================================
