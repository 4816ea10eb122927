----------------------------- MODULE Coroutines -----------------------------
(***************************************************************************)
(* Assignment_1: the coroutines of libcoro.c, and the pool of coroutines   *)
(* of main.c that share out the files to sort.                             *)
(*                                                                         *)
(* Coroutines switch only where they call coro_yield, so what they do      *)
(* between two such points is one step.  sort_file is seen from outside:   *)
(* it passes YIELD points, at any of which it may switch (it does if the   *)
(* coroutine has run for longer than the target latency), and then ends;   *)
(* what it computes is in MergeSort, and Sorter puts the two together.     *)
(***************************************************************************)
EXTENDS Integers, Sequences, FiniteSets, SequencesExt

CONSTANTS
  PoolSize,   \* coroutine_pool_size
  FileCount,  \* files on the command line
  Missing,    \* files that fopen may fail to open
  SCHED

ASSUME CoroAssumption ==
  /\ PoolSize \in Nat /\ FileCount \in Nat
  /\ Missing \subseteq 1 .. FileCount
  /\ SCHED \notin 1 .. PoolSize

Coros    == 1 .. PoolSize    \* in the order of their creation
FileList == 1 .. FileCount   \* the list from g_sorted_files_head on

VARIABLES
  coro_list,         \* the linked list of coroutines
  coro_this_ptr,     \* the coroutine that works, or SCHED
  is_sched_waiting,
  is_finished, freed,
  cur,               \* where in the file list each coroutine looks
  sorting,           \* it is inside sort_file
  status,            \* sorting_status of each file
  has_output,        \* sorted_output is not NULL
  phase              \* main: "create", "wait", "check", "merge", or an end:
                     \* "exit" (Critical error), "abort" (assert), "segv"

coroVars == <<coro_list, coro_this_ptr, is_sched_waiting, is_finished, freed>>
workVars == <<cur, sorting, status, has_output>>
sortVars == <<coroVars, workVars, phase>>

TypeOK ==
  /\ coro_list \in Seq(Coros)
  /\ coro_this_ptr \in Coros \cup {SCHED} /\ is_sched_waiting \in BOOLEAN
  /\ is_finished \in [Coros -> BOOLEAN] /\ freed \in [Coros -> BOOLEAN]
  /\ cur \in [Coros -> 1 .. FileCount + 1]
  /\ sorting \in [Coros -> BOOLEAN]
  /\ status \in [FileList -> {"WAITING", "IN_PROGRESS", "FINISHED"}]
  /\ has_output \in [FileList -> BOOLEAN]
  /\ phase \in {"create", "wait", "check", "merge", "exit", "abort", "segv"}

(* main after coro_sched_init *)
Init ==
  /\ coro_list = <<>> /\ coro_this_ptr = SCHED /\ is_sched_waiting = FALSE
  /\ is_finished = [c \in Coros |-> FALSE] /\ freed = [c \in Coros |-> FALSE]
  /\ cur = [c \in Coros |-> 1] /\ sorting = [c \in Coros |-> FALSE]
  /\ status = [f \in FileList |-> "WAITING"]
  /\ has_output = [f \in FileList |-> FALSE]
  /\ phase = "create"

-----------------------------------------------------------------------------
(* libcoro.c *)

Created == Cardinality({c \in Coros : c \in ToSet(coro_list) \/ freed[c]})

(* Signals and the alternate stack only serve to give the coroutine a      *)
(* stack of its own; it is not started, just put first on the list.        *)
coro_new ==
  /\ phase = "create" /\ Created < PoolSize
  /\ coro_list' = <<Created + 1>> \o coro_list
  /\ UNCHANGED <<coro_this_ptr, is_sched_waiting, is_finished, freed, workVars,
                 phase>>

(* Mutant: any switch between coroutines clears is_sched_waiting. *)
YieldForgetsSched(to) ==
  /\ coro_this_ptr' = to
  /\ is_sched_waiting' = (coro_this_ptr = SCHED)
  /\ UNCHANGED <<coro_list, freed>>

(* siglongjmp into a coroutine, or into coro_sched_wait, which then notes  *)
(* that it no longer waits.                                                *)
coro_yield_to(to) ==
  /\ coro_this_ptr' = to
  /\ is_sched_waiting' = (to # SCHED)
  /\ UNCHANGED <<coro_list, freed>>

PlaceOf(c) == CHOOSE k \in DOMAIN coro_list : coro_list[k] = c

(* Mutant: every coro_yield returns to the scheduler. *)
FollowerSched(c) == SCHED

(* Where coro_yield of c switches to. *)
Follower(c) ==
  IF PlaceOf(c) = Len(coro_list) THEN SCHED ELSE coro_list[PlaceOf(c) + 1]

FinishedOnes == {i \in DOMAIN coro_list : is_finished[coro_list[i]]}

(* Mutant: the finished coroutine stays on the list. *)
UnlinkNothing(c) == UNCHANGED coro_list

Unlink(c) == coro_list' = RemoveAt(coro_list, PlaceOf(c))

(* coro_sched_wait returns a finished coroutine, and main deletes it.      *)
SchedReap ==
  /\ phase = "wait" /\ coro_this_ptr = SCHED /\ FinishedOnes # {}
  /\ LET c == coro_list[CHOOSE i \in FinishedOnes : \A j \in FinishedOnes : i <= j]
     IN  /\ Unlink(c)
         /\ freed' = [freed EXCEPT ![c] = TRUE]
  /\ UNCHANGED <<coro_this_ptr, is_sched_waiting, is_finished, workVars, phase>>

SchedRun ==
  /\ phase = "wait" /\ coro_this_ptr = SCHED
  /\ FinishedOnes = {} /\ coro_list # <<>>
  /\ coro_yield_to(Head(coro_list))
  /\ UNCHANGED <<is_finished, workVars, phase>>

(* Mutant: the coroutine returns to the scheduler without is_finished. *)
FinishUnmarked(c) == UNCHANGED <<is_finished, phase>> /\ coro_yield_to(SCHED)

(* The end of coro_body: back to the scheduler, if it waits. *)
FinishCoro(c) ==
  /\ is_finished' = [is_finished EXCEPT ![c] = TRUE]
  /\ IF is_sched_waiting
     THEN coro_yield_to(SCHED) /\ UNCHANGED phase
     ELSE /\ phase' = "exit"
          /\ UNCHANGED <<coro_list, coro_this_ptr, is_sched_waiting, freed>>

-----------------------------------------------------------------------------
(* coroutine_func_f of main.c *)

Runs(c) == phase = "wait" /\ coro_this_ptr = c

Skip(c) ==
  /\ Runs(c) /\ ~sorting[c] /\ cur[c] <= FileCount
  /\ status[cur[c]] # "WAITING"
  /\ cur' = [cur EXCEPT ![c] = @ + 1]
  /\ UNCHANGED <<coroVars, sorting, status, has_output, phase>>

(* Mutant: the file is not claimed. *)
ClaimedAs == "WAITING"

Claimed == "IN_PROGRESS"

(* The coroutine claims a file and enters sort_file, which returns NULL at *)
(* once when it cannot open the file.                                      *)
StartSort(c) ==
  /\ Runs(c) /\ ~sorting[c] /\ cur[c] <= FileCount
  /\ status[cur[c]] = "WAITING"
  /\ \E opened \in BOOLEAN :
       /\ opened \/ cur[c] \in Missing
       /\ status' = [status EXCEPT ![cur[c]] = IF opened THEN Claimed ELSE "FINISHED"]
       /\ sorting' = [sorting EXCEPT ![c] = opened]
  /\ UNCHANGED <<coroVars, cur, has_output, phase>>

(* A YIELD point of sort_file when the target latency has passed.          *)
YieldPoint(c) ==
  /\ Runs(c) /\ sorting[c]
  /\ coro_yield_to(Follower(c))
  /\ UNCHANGED <<is_finished, workVars, phase>>

EndSort(c) ==
  /\ Runs(c) /\ sorting[c]
  /\ status' = [status EXCEPT ![cur[c]] = "FINISHED"]
  /\ has_output' = [has_output EXCEPT ![cur[c]] = TRUE]
  /\ sorting' = [sorting EXCEPT ![c] = FALSE]
  /\ UNCHANGED <<coroVars, cur, phase>>

(* Mutant: the last file of the list is not looked at. *)
EndBeforeLast(c) ==
  /\ Runs(c) /\ ~sorting[c] /\ cur[c] = FileCount
  /\ FinishCoro(c)
  /\ UNCHANGED workVars

EndOfList(c) ==
  /\ Runs(c) /\ ~sorting[c] /\ cur[c] = FileCount + 1
  /\ FinishCoro(c)
  /\ UNCHANGED workVars

-----------------------------------------------------------------------------
(* main *)

StartWaiting ==
  /\ phase = "create" /\ Created = PoolSize
  /\ phase' = "wait"
  /\ UNCHANGED <<coroVars, workVars>>

(* coro_sched_wait returned NULL. *)
AllReaped ==
  /\ phase = "wait" /\ coro_this_ptr = SCHED /\ coro_list = <<>>
  /\ phase' = "check"
  /\ UNCHANGED <<coroVars, workVars>>

(* The loop over the file list stops at the first file that is not         *)
(* finished (assert) or has no output (rewind of NULL).                    *)
CheckFiles ==
  LET bad == {f \in FileList : status[f] # "FINISHED" \/ ~has_output[f]}
      unfinishedFirst == \E f \in bad : status[f] # "FINISHED" /\ \A g \in bad : f <= g
  IN
  /\ phase = "check"
  /\ phase' = IF bad = {} THEN "merge" ELSE IF unfinishedFirst THEN "abort" ELSE "segv"
  /\ UNCHANGED <<coroVars, workVars>>

(* The merge of main crashes when there is nothing to merge. *)
MergeCrash ==
  /\ phase = "merge" /\ phase' = "segv"
  /\ UNCHANGED <<coroVars, workVars>>

(* All that does not touch the data of the files. *)
CoroStep ==
  \/ coro_new \/ StartWaiting \/ SchedReap \/ SchedRun \/ AllReaped
  \/ \E c \in Coros : Skip(c) \/ StartSort(c) \/ YieldPoint(c) \/ EndOfList(c)

Next == CoroStep \/ CheckFiles \/ MergeCrash \/ \E c \in Coros : EndSort(c)

Spec == Init /\ [][Next]_sortVars

-----------------------------------------------------------------------------
(* Control is only ever passed to a coroutine that is not finished and     *)
(* whose stack is not freed: a coroutine that runs is on the list, with    *)
(* nothing on it that coro_yield or coro_sched_wait must not jump into, and*)
(* coro_sched_wait finds at most the one that has just ended.              *)
RunsLiveCoro ==
  /\ coro_this_ptr # SCHED => coro_this_ptr \in ToSet(coro_list) /\ FinishedOnes = {}
  /\ \A i, j \in FinishedOnes : i = j
  /\ \A i \in DOMAIN coro_list : ~freed[coro_list[i]]

(* A coroutine that ends always has a place to return to: the "Critical    *)
(* error" of coro_body does not happen.                                    *)
NoCriticalError == phase # "exit"

(* Two coroutines never sort the same file, although they interleave over  *)
(* the unprotected list, and a claimed file has a coroutine that sorts it. *)
OneSorterPerFile ==
  \A f \in FileList :
    LET sorters == {c \in Coros : sorting[c] /\ cur[c] = f}
    IN  Cardinality(sorters) = IF status[f] = "IN_PROGRESS" THEN 1 ELSE 0

(* The assertion of main: once all coroutines have ended, every file is    *)
(* sorted.                                                                 *)
AllFilesFinished == phase # "abort"

(* No coroutine is starved, however long the others sort: each one that    *)
(* has not finished gets control again, although the scheduler starts over *)
(* at the head of its list whenever a coroutine ends.                      *)
EveryCoroRuns ==
  \A c \in Coros :
    (phase = "wait" /\ c \in ToSet(coro_list) /\ ~is_finished[c]) ~> coro_this_ptr = c
=============================================================================
