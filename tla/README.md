# TLA+ models of the system programming assignments

The repository holds four independent C programs and a small helper library.
This directory models all of them: the thread pool (Assignment 4), the in-memory
file system (Assignment 3), the shell (Assignment 2), the coroutines and the
external merge sort of the sorter (Assignment 1), and the leak counter
`heap_help`. The modules are checked with TLC on small instances; the safety
of the thread pool, the file system, the coroutines, the executor of the shell and
the leak counter is also proved with TLAPS for every size.

## 1. Inventory

| part | state it keeps | operations | hard behaviour | correct if |
|---|---|---|---|---|
| thread pool, `Assignment_4/thread_pool.c` | ring of task pointers with `readPtr`, `writePtr`, `task_waiting`; `task_executing`; created threads; mutex, condition variable; `shutdown` | `thread_pool_new`, `_push_task`, `_delete`, the thread function `thread_worker` | real threads; four critical sections per task; threads started on demand; signal instead of broadcast | ring and counters never drift, no wakeup is lost, tasks run in order and once per push |
| task objects, same file | `state`, `result`, `detachMode`, mutex, condition variable | `thread_task_new`, `_join`, `_timed_join`, `_delete`, `_detach` | several joiners, timeouts, a task freed by its worker, reuse after a join | no use after free, no missed broadcast, a join returns the result of the latest push |
| file system, `Assignment_3/userfs.c` | linked list of files, each a chain of blocks with `total_size`, `refs`, `marked_for_deletion`; a table of descriptors with block pointer and offset | `ufs_open`, `_write`, `_read`, `_close`, `_delete`, `_resize`, `ufs_shutdown` | sequential, but descriptors alias one file; sizes on block boundaries; failing `calloc` | a descriptor sees a flat sequence of bytes |
| coroutines, `Assignment_1/src/libcoro.c` | list of coroutines, the running one, `is_sched_waiting` | `coro_new`, `coro_yield`, `coro_sched_wait`, `coro_delete`, `coro_body` | `siglongjmp` between stacks that may be finished or freed | control only goes to live coroutines, none starves |
| coroutine pool, `Assignment_1/src/main.c` | list of files with `status` and `sorted_output` | `coroutine_func_f`, `main` | coroutines switch in the middle of a sort, over one unprotected list | every file is sorted once, `main` sees all |
| sorting, `Assignment_1/src/libsort.c` | temporary files; tables per `trace_id` | `sort_file`, `split`, `merge_files`, `quick_sort` | recursion with index arithmetic | output is the sorted input, where the counting allows it |
| shell parser, `Assignment_2/src/parser` | lines read so far, tokens, array of commands | `parser` | quotes, escapes and continued lines over several `getline`s; arrays that grow | the commands are the ones that were meant |
| shell executor, `Assignment_2/src/executor` | array of processes with pipes, the current command | `execute`, `syncPointProc` | processes joined by bounded pipes, `waitpid`, a `kill` that nobody waits for, stdio copied by `fork` | a line ends, prints what it means, forgets no process |
| leak counter, `utils/heap_help` | allocation count, spin lock, one-time initialisation | wrappers of `malloc`, `free`, ... | first use by several threads, a counter without a lock, wrappers called by the library itself | the count is exact, no false alarm |

The four programs share no state and do not call one another. Inside
Assignment 1, `main` creates coroutines, these call `sort_file`, and `sort_file`
calls back `coro_yield`. Inside Assignment 2, `main` hands the array of `parser` to
`execute`, which forks processes that talk through pipes. `heap_help` is linked
into the tests of Assignment 3 in place of the allocator. Inside Assignment 4, application threads and workers
share the pool under `pool->mutex` and each task under `task->mutex`.

`PROJECT.json` lists all parts with their status, and under `hazards` what is
hard to test in this code, line by line.

## 2. Modules

| module | content |
|---|---|
| `ThreadPool` | `thread_pool.c`, workers and application threads interleaved |
| `TaskFifo` | what the pool promises: a bounded first-in first-out queue of tasks served by a bounded number of workers |
| `ThreadPoolFifo` | the refinement mapping from `ThreadPool` to `TaskFifo` |
| `ThreadPoolProofs` | theorems on the ring, the counters and the types, then on tasks (memory, results, joins), wakeups and the end of the pool |
| `ThreadPoolFifoProofs` | the pool implements `TaskFifo` |
| `UserFS` | `userfs.c` |
| `FlatFS` | what the file system promises: named files that are sequences of bytes, descriptors that are offsets |
| `UserFSFlat` | the refinement mapping from `UserFS` to `FlatFS` |
| `UserFSProofs` | theorems on the reference counts, names and descriptor table, and on the block chains |
| `UserFSFlatProofs` | the file system implements `FlatFS` |
| `Coroutines` | `libcoro.c` and the pool of `main.c` |
| `NumberFiles` | how both parts of Assignment 1 read files of numbers |
| `MainMerge` | `Coroutines` with the files they leave and the merge of `main.c` |
| `SorterProofs` | theorems on switching, on the sharing out of files and on the merge |
| `MergeSort` | `libsort.c` as functions on the numbers of a file |
| `Sorter` | Assignment 1 as a whole: `MainMerge` and `MergeSort` |
| `ShellParser` | `parser.c` as a function from lines to commands |
| `Executor` | `executor.c`, the shell and its processes interleaved |
| `ExecutorProofs` | theorems on what a line leaves behind |
| `Shell` | Assignment 2 as a whole: `ShellParser`, `Executor`, the loop of `main.c`, and what a line means |
| `HeapHelp` | `heap_help.c`, threads interleaved at its atomic operations |
| `HeapHelpProofs` | theorems on the counter and the initialisation |
| `ListLemmas` | facts on sequences and on division that several proofs cite |
| `MCThreadPool`, `MCUserFS`, `MCSorter`, `MCShell`, `MCHeapHelp` | instances for TLC: sets of model values, symmetry |

Operators commented as *Mutant* are faulty variants of the definition that
follows them. No specification uses them; each belongs to a property in
`PROJECT.json` that fails when the variant takes the place of the original.

### ThreadPool

A worker `w` is the slot of `pool->threads` it was stored in; `wpc[w]` is where in
`thread_worker` it stands and `wtask[w]` its local `task`. An application thread
`c` is in at most one call, at `cpc[c]`, on task `ctask[c]`. A step of a thread
reaches to its next lock, unlock or wait, so that whatever can happen between two
critical sections does happen in some behaviour:

| code | action |
|---|---|
| `thread_worker` 47-50 | `WorkerSleep`, `WorkerSpuriousWakeup` |
| 52-55 | `WorkerExit` |
| 57-71 | `WorkerTake` |
| 73-75, 76, 79-81, 83-89, 90-94 | `WorkerMarkExecuting`, `WorkerRunFunction`, `WorkerUncount`, `WorkerMarkDone`, `WorkerFreeDetached` |
| `thread_pool_push_task` 172-176, 178-197 | `PushLock` (keeps the pool mutex), `PushEnqueue` (which needs the task mutex, then signals or starts a thread) |
| `thread_pool_delete` 144-153, 155-164 | `PoolDeleteLock`, `PoolDeleteJoin` |
| `thread_task_join` | `JoinEnter`, `JoinRecheck` |
| `thread_task_timed_join` | `TimedJoinEnter`, `TimedJoinRecheck`, `TimedJoinExpire`, `TimedJoinRead` |
| `thread_task_delete`, `_detach`, `_new`, `thread_pool_new` | actions of the same name |

The state of a task is `mem` ("free", "live", or "husk": destroyed but not freed),
`state`, `detachMode`, and `fresh`, a ghost that says whether the result stored is
that of the latest push. `handle` says whether the application still has the
pointer: it gives it up when it deletes or detaches the task.

`Call` and `MayCall` stand for the application, which is not in the repository:
it calls anything at any time, except that it does not use a task it has given
up, does not push, delete or detach a task while another of its calls uses it,
pushes a task only when it is new or joined, and deletes the pool only when no
call on the pool is under way. These are the rules `thread_pool.h` states or the
signatures imply.

The deadline of a timed join keeps its arithmetic: a second has `SEC` ticks, the
call comes at a tick of `Clock`, and `DeadlineTicks` computes what `tv_nsec`
becomes, carry included. A deadline outside `0 .. SEC - 1` makes
`pthread_cond_timedwait` answer `EINVAL`; the loop then spins with the task locked.

### UserFS

A file is `[name, refs, marked_for_deletion, total_size, mem, last_block]`. The
bytes of its block chain lie end to end in `mem`, a block pointer is a block
number from 1, and 0 is a pointer that is NULL or dangling. The loops that go
block by block are given by what they add up to; where a loop can stop in the
middle (`calloc` fails in the n-th round) the model chooses the round. `crashed`
records that a call would dereference block 0 and ends the run. `ret`, `buf` and
`ufs_error_code` are what the caller sees.

`BoundaryReads` says whether the application may read up to an end of file that is
a multiple of the block size. After such a read the code departs from the flat
file (section 3), so that what else it does is checked without them, and the
tables, which the fault does not touch, with them.

### Coroutines

`coro_list` is the linked list, `coro_this_ptr` the running coroutine or `SCHED`.
Coroutines are switched only in `coro_yield`, so a step lies between two YIELD
points. `sort_file` is seen from outside: `StartSort`, any number of
`YieldPoint`s that switch, `EndSort`. `phase` is where `main` is, or how it ended.

### NumberFiles, MainMerge, MergeSort and Sorter

The temporary files of a sort belong to one call of `sort_file`, so its result is a
function of the input, whatever the coroutines do meanwhile. A file is its numbers
and whether a separator follows the last one, for `count_numbers_in_file` counts
separators. `Scanned` is what an `int` holds after `fscanf` has met the end of the
file: the number before, or what was there (`Junk`). `split` keeps the code's index
arithmetic. `StoreOutput` is `EndSort` with a file stored, which `StoreSorted` makes the
result of `sort_file`; `MergeStep` is one round of the loop that writes `output.txt`.
What is not recursive is in `MainMerge`, so that it can be proved about. The functions
were compared with the compiled `libsort.c` on 150 random files.

### ShellParser, Executor and Shell

`parser(lines)` gives an outcome ("ok", "exit" at the end of the input, "crash" for
undefined behaviour that ends the process), the commands and the lines not yet
read. `WordEnd` is the inner loop of `parser.c`, `Tokens` the outer one, `Commands`
the second half. The functions were compared with the compiled `parser.c` on 600
random inputs.

| code | action of `Executor` |
|---|---|
| `execute` 170-173, 204 | `EndOfLine` |
| 174-177 | `executeBuiltin` |
| 178-183 with `executeRegular` | `executeRegular` (pipe, fork and close are one step: nobody else can see the pipe) |
| 184-185 | `SkipOperator` |
| 186-193 | `AndOr`, then the sync point, then `AfterSync` |
| 194-200 | `RedirectNowhere`; `Redirect` (truncates), the sync point, `AfterSync` |
| `syncPointProc` 104, 109, 112-118, 120-130 | `SyncNothing`, `WaitLast`, `KillEarlier` (one round), `Drain`; `DrainNowhere` when `fopen` gave nothing |

A program is what the shell can tell of it: it writes units of its own, copies some
or all of its input, copies a file, or writes a file of its own, and ends with a status
(`Behaviour`). Its reads, writes and exit interleave with the shell; a write waits while
the pipe has `PIPE_CAPACITY` units.

`KillEarlier` only sends the signal: the process is `signalled` and runs on until
`ProcQuit`, which may be after the line has ended, or never if the program handles
SIGQUIT (`quits` is FALSE; even then the signal may find it before it has set up its
handler). A process inherits the read ends the shell has open (`holds`); when neither
the shell nor a running process has the read end of its pipe, its next write ends it
(`ProcSigpipe`). Programs that ignore both signals, or that neither read, write nor end,
are not modelled.

`out` is what the shell has printed and `stdout` the end of it that stdio still holds;
which part stdio writes out, and when, is any (`PrintOut`). A child that finds no program
starts with a copy of `stdout`, adds its own messages and writes all of it to its pipe
(`ChildBuffer`); `execv` drops the copy.

`Shell!Meaning` is the reference: programs run one after the other on whole
sequences, without pipes, signals or processes, and `&&` and `||` go by the status
of the last pipeline that ran. Its field `ok` is false for the lines on which the
shell is known to differ: a pipeline that should run after one that was skipped
(the shell ends the line at the first skip, `tests.txt` lines 106-110 expect
otherwise), a status the shell does not see (a redirected pipeline, a program that
is not found, `cd`), a file read and truncated by one pipeline, a redirection
without a target, a program that is not found after anything was printed or behind a
pipe (`e && x` may print `e`'s output twice), and a program that writes a file and is
not the last of its pipeline, unless those behind it read to the end of their input:
`python test.py | exit 0` of `checker.py` (57-63) must leave its file, and SIGQUIT may
come first. All of these are in the run `shell`, for its other properties;
`PrintsMeaning` says nothing of them.

`MCShell!Typed` writes a word down as a user would. Backslashes escape outside quotes
and in double quotes. In single quotes nothing is escaped, and words with a backslash
are not typed that way: `tests.txt` (18-19) expects `'\"'` to keep its backslash, while
the copy loop (`parser.c:231`) drops it in any quotes.

### HeapHelp

A thread makes one call at a time; `pc[t]` is its next atomic operation. `block`
says where each block of memory is between the library, the wrapper and the
program. The program frees each block once and uses no block it has passed on.
`drift` is the ghost that adds up what puts the counter off: `realloc(ptr, 0)`, and
`strdup` or `getline` over a library that calls `malloc` through the wrapper
(`NESTED`; glibc does, so that such a block is counted twice).

## 3. Runs

| run | instance | result |
|---|---|---|
| `pool_safety` | 2 application threads, 3 tasks, at most 2 workers, 2 queue slots; `pthread_create` may fail; timeouts zero, half a second, a second, infinite | ten invariants (their types included) and `ImplementsFifo` hold |
| `pool_live` | 2 threads, 2 tasks, 1 worker, 2 slots, valid deadlines | every pushed task finishes, every call returns, detached tasks are freed |
| `fs_blocks` | 2 descriptors on one file of up to two full blocks of two bytes | block chain, cursors and refinement of `FlatFS` |
| `fs_unlink` | 2 addresses for files of one name; descriptors for both, only reading or only writing | deletion while open refines `FlatFS` |
| `fs_table` | 3 descriptors, `calloc` may fail anywhere, boundary reads | counters, name space and table stay exact |
| `sorter` | 3 coroutines, 4 files, one of which may be missing; the first has any content of up to 3 numbers over 0..2, many of 4 and 5, with and without a trailing separator; 2 numbers fit into memory | jumps only to live coroutines, each file sorted once, nobody starves, all ends if the sorts do; `output.txt` is always sorted, has as many numbers as were counted, and is complete for files of up to four numbers without a trailing separator |
| `shell` | 1863 scripts of one to three lines: pairs of 8 programs joined by a pipe, "and" or "or", triples, pipelines of four, redirections (also to what cannot be opened), `cd`, comments, programs that handle SIGQUIT, that are missing or that write files, and every word of up to three characters that needs quoting, typed in up to four ways; pipes of 2 units, command array of 5 + 2 | the parser returns what was meant, every line ends, the supported ones print and write what they mean, a process that outlives its line was sent SIGQUIT and ends, the shell ends early only for a target that cannot be opened |
| `heap_count` | 3 threads, 2 blocks, `NESTED` | exact counter, no false double free, no call through NULL, calls return |

**Why these bounds.** Two queue slots and three tasks make the ring wrap and fill
up; two workers and two application threads give every pair of critical sections
a chance to interleave, and a third task keeps one waiting while both workers are
busy. Two-byte blocks give sizes on, before and after a boundary, two full blocks
the case of a block in the middle, two descriptors the aliasing. Three descriptors
make the table of capacity 1 grow twice (1, 2, 4) and leave holes in it; the application
passes any of its slots. Three
coroutines have a first, a middle and a last on the list. With two numbers in memory, files
of three and four numbers are split once and files of five split a left half again. Two
units of output fill a pipe, so a writer before a slow reader blocks, and `yes` never
ends by itself; a line of seven commands needs the extended array. Word length three
has an escaped character between two others. Three threads let two initialise while a
third finds the pointers set. Two workers are in `pool_safety` only: with two workers
and two application threads the temporal check of `pool_live` takes too long, so that
no task is left beside a sleeping worker is there the invariant `WorkConserving`.

Deadlock checking is off only where the system may really stop: the runs with
failing `pthread_create` or invalid deadlines (the calls hang), the file system
after `ufs_shutdown`, the sorter once it is done, a process that an assertion of
`heap_help` has ended, and the shell of `shell_long_output`, which hangs. The run
`shell` checks for deadlock.

**Runs that end in a counterexample.** Each states what a header, a test or an
assertion says and the code does not do (`findings` in `PROJECT.json`):

- `pool_timed`: a deadline on a full second is passed on as 10^9 nanoseconds, and
  the infinite timeout the header recommends as a negative number of them; either
  makes the join spin for ever with the task locked.
- `fs_boundary_read`: after reading to an end of file on a block boundary, a write
  through the same descriptor goes to the wrong block.
- `shell_long_output`: the shell waits for the last command before it reads what the
  command writes; the 100 KiB `echo` of `checker.py` hangs it.
- `heap_first_touch`: two threads that allocate first at the same time both
  initialise, and the second fails `assert(!old)`.

Further differences, seen with the same models and described under `hazards` in
`PROJECT.json`: a task detached after it finished is never freed
(`thread_pool.c:320`), a push that cannot create a thread returns with the pool
mutex locked (191), `ufs_write` does not notice that no block could be allocated
(`userfs.c:190`), `split` loses a number when it splits a left half again
(`libsort.c:228`), the list operators of the shell (`executor.c:188`), a command killed
before it has written its file (113), output that a child without a program repeats (93),
a redirection target that cannot be opened (140), and a continuation inside quotes
(`parser.c:158`).

Smaller ones: with a pool of no coroutines the assertion of `main` fails
(`Assignment_1/src/main.c:84`), a missing file ends in a NULL `FILE` (114), and so
does a command line without files (133); a backslash in single quotes is dropped
(`parser.c:231`, against `tests.txt:18-19`); `exit` is no command of the shell, which
`checker.py` expects; the killed commands of a pipeline stay as
zombies (`executor.c:117`); a quoted word that starts with `|`, `&` or `>` is taken
for an operator (`parser.c:247`); the timed join reads the result of its task
unlocked (`thread_pool.c:264`), which is safe only under the rule that no other call
of the application deletes a task in use.

**Fairness.** `ThreadPool!Fairness` is strong fairness of each thread's next step:
the operating system schedules every thread, and a mutex that is released again
and again is at some time obtained. Task functions are assumed to return
(`WorkerRunFunction`), clocks to advance (`TimedJoinExpire`). Nothing is assumed
of spurious wakeups or of the application: it may stop calling. `Sorter!SorterSpec`
says only that the one thread of the process runs; that sorts end is a hypothesis
inside `Terminates`, and `EveryCoroRuns` does without it. In `Shell` the
shell and each process are weakly fair, which is what the kernel's scheduler gives
them, and SIGQUIT ends a process that leaves it alone; nothing makes the user type, and
nothing makes a program that handles SIGQUIT end by it: `StragglersEnd` has to come from
the pipes. In `HeapHelp` each thread is weakly fair inside a
call; strong fairness is not needed for the spin lock, as each thread takes it at
most once. The file system is sequential and has no liveness property.

The type invariant of the pool is checked and proved. Those of `UserFS`, `Coroutines`,
`Executor` and `HeapHelp` are proved (section 4); their runs check the properties that
say more.

## 4. Proofs

The theorems hold for every value of the constants that the named assumptions of
the modules allow (`SizeAssumption`, `TimeAssumption`, `NameAssumption`,
`FSAssumption`, `FlatAssumption`, `CoroAssumption`, `ExecAssumption`, `HeapAssumption`): any number
of tasks, threads, workers, slots, files, descriptors, coroutines and processes.
The assumptions give constants their types, tell NULL from what it is not, and ask
for at least one worker, queue slot and byte per block; TLC evaluates them on every
run. Each component has an inductive invariant, one lemma per action (or group of
actions) that says the invariant survives it, and the theorems that follow.

### The thread pool

| theorem | states | module |
|---|---|---|
| `TypeCorrect`, `RingNeverBreaks`, `CountersNeverDrift` | `TypeOK`, `RingWindow`, `CountersExact` | `ThreadPoolProofs` |
| `NoTaskDangles`, `OneRunPerPush`, `ResultAlwaysFresh` | `NoDanglingTask`, `SinglePlace`, `ResultFresh` | `ThreadPoolProofs` |
| `DeleteFollowsJoins`, `NoJoinMissesBroadcast` | `IdleWhenFinished`, `NoMissedBroadcast` | `ThreadPoolProofs` |
| `NoLostWakeup`, `DeleteLeavesNothing` | `WorkConserving`, `PoolGoneQuiet` | `ThreadPoolProofs` |
| `PoolImplementsFifo` | `ImplementsFifo` | `ThreadPoolFifoProofs` |

They hold under the rules for the application of section 2, also when
`pthread_create` fails and for every kind of deadline.

`PoolInv` is the conjunction of `TypeOK`, `RingWindow`, `CountersExact` and four
facts about what goes on between two critical sections: `PushGuard`, `PushHasTask`,
`ThreadsStarted` and `DeleteExclusive`. `RingWindow` alone is not inductive: that
`WorkerTake` finds a task in the slot at `readPtr` needs `task_waiting > 0` from the
guard and the window; that `PushEnqueue` writes into an empty slot needs to know that
the capacity test of `PushLock`, made in an earlier step, still holds, hence that the
pool mutex has been held since. The arithmetic of the ring is in `RingTake`,
`RingHead` and `RingPut`, the counting of workers in `CountIn` and `CountOut`.

`TaskInv` adds which `state`, `mem`, `handle` and `fresh` go with each place a task can
be in (a slot, a worker at each of its steps, a call). A task is then in one place
only, a worker's task cannot be deleted under it, and a sleeper's task is not finished.

`WorkInv` adds the converse, that a task marked queued or executing is somewhere
(`Located`), and two facts about the end of the pool: `thread_pool_delete` joins the
workers of an empty pool (`Drained`), none of which sleeps (`ShutdownAwake`).
`WorkConserving` compares `task_waiting` with the number of awake workers; the cases
that matter are a worker that goes to sleep (it has seen an empty ring), one that
takes a task (both numbers go down), and a push, which wakes a sleeper if there is
one, so that both go up.

The refinement has `RingOrder`: the tasks read off the ring from `readPtr` on are the
abstract queue, element by element. A push appends to it, `WorkerTake` removes its
head, `WorkerUncount` ends a task, `thread_pool_new` sets the limit, and every other
step leaves all of it alone. The wrap of the pointers appears as `SlotAfter`.

### The file system

| theorem | states | hypotheses |
|---|---|---|
| `RefCountsExact`, `NamesUnique`, `DescriptorsCounted` | `RefsExact`, `OneFilePerName`, `FdTable` | none |
| `ChainsFitSizes`, `CursorsStayOnBlock`, `NoCallCrashes` | `BlocksCover`, `CursorOnBlock`, `NoCrash` | `~AllocFails`, `~BoundaryReads` |
| `FlatRefinement` | `ImplementsFlatFS` | `~AllocFails`, `~BoundaryReads` |

The first part holds also when `calloc` fails at any of its calls. `FSInv` joins the three
properties with types, with `Distinct` (no file is on the list twice), with `Chains`
(a chain has whole blocks) and `Cursors` (a block pointer is NULL or points into the
chain of its own file). `ufs_open` needs `FdTable` to find a free slot at all: the
search is defined by a minimum over the free slots, and that there is one follows
from the count.

The second part, `BlockInv`, is false without its two hypotheses, and that is a fact
about the code: `ufs_write` does not notice a failed allocation (`userfs.c:190`) and a
read that ends on a block boundary leaves the block pointer one block behind (the run
`fs_boundary_read`). Under them a file has one block more than it has full ones, and
every descriptor stands on block `total_offset / BLOCK_SIZE + 1`. The arithmetic is that
of division: a write moves the offset by `Len(b)` and the block by
`(offset % BLOCK_SIZE + Len(b)) / BLOCK_SIZE`. Truncation
(`ufs_reduce_file`) is the hard step: the number of blocks it frees, the new last
block, and where it puts the descriptors past the new end must agree.

The third part is the refinement. Names map to what `ufs_find_file` finds, a file to the
first `total_size` bytes of its chain, a descriptor to its file, offset and rights. Each
call of `UserFS` is then the call of `FlatFS` with the same result and the same bytes;
there is one lemma per call (`FlatWrite`, `FlatRead`, `FlatClose`, `FlatOpen`, ...), and
lemmas on what each does to the bytes (`WriteContent`, `ExtendContent`, `ReduceContent`,
`ReadContent`). `FlatInv` is `BlockInv` with three more facts that the mapping needs: an
address that is not on the list is empty (`Unlisted`: a file made anew starts empty, and
one that is freed vanishes from the flat view), a file on the list has a name of the
application (`Named`), and the table does not outgrow `MaxSlots` (`Bounded`). The cases
that matter: a read is cut to the bytes that `total_size` allows, never to those of the last
block; growth shows zeros because the tail of the last block is cleared; truncation moves
exactly the descriptors that stand behind the new end; deletion takes a name away
without touching descriptors, so the last close, and only that one, frees the right
file. `FlatAssumption` says that NULL is not a descriptor. The two hypotheses are those
of `BlockInv`, and `fs_boundary_read` shows that the refinement fails without the second.

### Sorter, executor and leak counter

| theorem | states | specification |
|---|---|---|
| `ControlStaysLive`, `CoroBodyReturns`, `FilesSharedOut` | `RunsLiveCoro`, `NoCriticalError`, `OneSorterPerFile` | `Coroutines!Spec` |
| `EveryFileSorted` | `AllFilesFinished`, if `PoolSize # 0` | `Coroutines!Spec` |
| `MainRunsCoroutines` | `Coroutines!Spec` | `SorterProofs!MergeSpec` |
| `MergeKeepsOrder`, `MergeLosesNothing` | `OutputSorted`, `EachNumberOnce` | `SorterProofs!MergeSpec` |
| `NoneForgotten`, `LeaksBounded` | `NobodyForgotten`, `OnlyLastLeaks` | `ExecutorProofs!ExecSpec` |
| `CountNeverDrifts`, `FreeNeverExits`, `PointersAlwaysReady` | `CountExact`, `NoFalseDoubleFree`, `PointersReady` | `HeapHelp!Spec` |

`CoroInv`: no coroutine is on the list twice, `is_sched_waiting` is true exactly while a
coroutine runs, and a file that a coroutine has passed is not waiting. The last fact
gives `EveryFileSorted`: the coroutines that have ended have passed every file. It needs
one coroutine; without any the assertion of `main` does fail.

`MergeSpec` is the whole of Assignment 1 except for what `sort_file` computes: it may
return any file of C ints in order, of any length. That `sort_file` does return such
files is the first half of `OutputSorted`, which in `MergeSpec` holds by hypothesis and
in the run `sorter` is checked of `MergeSort`. The second half, that `output.txt` is in
order, needs `Smallest`: no number written so far is larger than the next one of any
file that is not used up. A round keeps it because it takes a smallest one
(`NextChosen`; that there is one rests on C ints having a least value) and because the
next number of the same file is not smaller (`LaterNotSmaller`, also past the end, where
`fscanf` leaves the last number in place). `EachNumberOnce` says that `output.txt` and the
sorted files correspond one to one; its invariant `Merging` gives every position of the
output the file and the place it was read from. This is the merge's half of
`OutputComplete`; the other half, what `sort_file` keeps of its input, is recursive.

`ExecInv`: a process that runs is in `hndlrs` unless it was sent SIGQUIT, a pipe that is
open unless its process was waited for, and `hndlrs` has no process twice; `KillEarlier`
then takes away all but the one that was waited for. `NoneForgotten` is about the signal
and the pipe only: that the process then ends is `StragglersEnd`, which TLC checks. `ExecSpec` runs any sequence of command arrays over any words
(`Lines`: all that `execute` relies on is that a program has a name), so it allows
more lines than `parser` returns.

`HeapInv`: for each step of a call the state its block is in (`CallBlocks`), and that no
two calls have the same block (`OwnBlock`). `CountExact` then shows that `alloc_count_sub`
finds at least the block it counts out.

`Sorter` and `Shell`, which the runs use, put these specifications together with the
recursive functions of `MergeSort` and `ShellParser`. Each step of `Sorter` is a step of
`MergeNext` as far as `sort_file` returns files in order; each step of `Shell` is one of
`ExecNext` or leaves its variables alone. So the theorems carry over; this last
remark is by inspection, as TLAPS cannot be used in a module that reaches a recursive
operator.

### Only model-checked

- Liveness (`PushedFinishes`, `CallsReturn`, `DetachedPendingFreed`, `Terminates`,
  `EveryCoroRuns`, `LineEnds`, `StragglersEnd`): TLAPS does not reason about fairness and `ENABLED`.
- What `MergeSort` and `ShellParser` compute, which is recursion over data: that the
  files `sort_file` returns are in order (in `OutputSorted`), `OutputComplete`,
  `PrintsMeaning`, `RoundTrip` and `NoCrash` of `Shell`.

## 5. Not modelled

- The clock (`libutil.c`), the time tables of `libsort.c` (limited to 10000 sorts) and
  what they print; `merge_sorted_files` and `parser_free`, which nobody calls or which do
  nothing; the commented-out second half of `parser.c`.
- Inputs on which `parser.c` reads memory it never wrote or never ends: a line that
  starts with an operator (134), a last line without newline (138), a continuation
  followed by an empty line (157), tokens that fill an allocator chunk (225). A
  continuation inside quotes and an empty pair of quotes as a whole command end the
  shell in the model as in the code, but are not in the run.
- In the shell: failing `pipe`, `fork` and `calloc`, which the code does not test, and an
  `execv` that fails after `access`, which would go on as a missing program without its
  message. The child's messages fit into stdio's buffer, and the buffer into a pipe. The
  shell reads its lines from a pipe or a terminal, so that the `exit` of a child does not
  move its position in them.
- A timed join with a NULL place for the result: `thread_pool.c:231` writes through it
  unchecked when the task has finished already. Callers pass one.
- Whether `dlsym` and `atexit` allocate (`heap_help.c:96`).
- The values tasks compute, times and statistics, names of coroutines, output.
- Failing `malloc` in the constructors of tasks, pools and coroutines: these return
  before any state has changed, or (coroutines) do not check at all.
- A write whose size overflows `size_t` with the offset; no such buffer exists.
- `thread_task_is_finished` and `thread_task_is_running`, which are declared and
  not defined; test programs, checkers, generators and build files.

## 6. State of the plan

Every component that the inventory names and that has behaviour of its own is
modelled. Every safety invariant and both refinements that the runs check are proved,
except for what rests on the recursive functions of `MergeSort` and `ShellParser`, and
liveness, which TLC alone checks. What is left to do depends on the code: should the
read at a block boundary (`userfs.c:250`) or the unchecked allocation (`userfs.c:190`) be
repaired, `ufs_read` and `WriteThrough` change, and the hypotheses `~BoundaryReads` and
`~AllocFails` of the second and third part of the file system's proofs should go.
