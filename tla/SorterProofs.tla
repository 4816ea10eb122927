---------------------------- MODULE SorterProofs ----------------------------
(***************************************************************************)
(* Proofs about Assignment_1, for any number of coroutines, any number of  *)
(* files and files of any length: part one is about the coroutines, part   *)
(* two about the merge of main.                                            *)
(*                                                                         *)
(* That control is passed only to a live coroutine depends on the list     *)
(* having no coroutine twice (Linked) and on the scheduler waiting exactly *)
(* while a coroutine runs (SchedWaits).  That main finds every file        *)
(* finished depends on what each coroutine has behind it: a file it has    *)
(* passed is claimed (Passed), a claimed file has one sorter (Claims), and *)
(* a coroutine ends at the end of the file list with nothing in hand       *)
(* (Ends).                                                                 *)
(***************************************************************************)
EXTENDS MainMerge, ListLemmas, FiniteSetTheorems, SequenceTheorems, TLAPS

(* No coroutine is on the list twice. *)
Linked == \A i, j \in DOMAIN coro_list : coro_list[i] = coro_list[j] => i = j

(* While main creates coroutines the list has the first ones, and none has *)
(* run.                                                                    *)
Creating ==
  phase = "create" =>
    /\ coro_this_ptr = SCHED /\ Len(coro_list) <= PoolSize
    /\ \A c \in Coros : ~freed[c] /\ ~is_finished[c]
    /\ \A c \in Coros : c \in ToSet(coro_list) <=> c <= Len(coro_list)

(* Afterwards a coroutine leaves the list only to be freed, and main goes  *)
(* on when the list is empty.                                              *)
NoneLost ==
  /\ phase # "create" => \A c \in Coros : c \in ToSet(coro_list) \/ freed[c]
  /\ phase \notin {"create", "wait"} => coro_list = <<>> /\ coro_this_ptr = SCHED

SchedWaits == is_sched_waiting <=> coro_this_ptr # SCHED

(* A coroutine ends at the end of the file list, and is freed afterwards. *)
Ends ==
  \A c \in Coros : /\ freed[c] => is_finished[c]
                   /\ is_finished[c] => cur[c] = FileCount + 1 /\ ~sorting[c]

(* A claimed file has one sorter, and only a claimed file has one. *)
Claims ==
  /\ \A c \in Coros : sorting[c] => cur[c] \in FileList /\ status[cur[c]] = "IN_PROGRESS"
  /\ \A c, d \in Coros : sorting[c] /\ sorting[d] /\ cur[c] = cur[d] => c = d
  /\ \A f \in FileList : status[f] = "IN_PROGRESS" =>
       \E c \in Coros : sorting[c] /\ cur[c] = f

(* Every file that a coroutine has passed was claimed. *)
Passed == \A c \in Coros, f \in FileList : f < cur[c] => status[f] # "WAITING"

(* The inductive invariant. *)
CoroInv == TypeOK /\ Linked /\ RunsLiveCoro /\ Creating /\ NoneLost /\ SchedWaits /\ Ends
           /\ Claims /\ Passed /\ NoCriticalError

(* The invariant holds when coro_sched_init returns. *)
LEMMA InitCoro == Init => CoroInv
<1> SUFFICES ASSUME Init PROVE CoroInv
  OBVIOUS
<1> USE CoroAssumption
<1>1. TypeOK
  <2>1. /\ is_finished \in [Coros -> BOOLEAN] /\ freed \in [Coros -> BOOLEAN]
        /\ sorting \in [Coros -> BOOLEAN] /\ has_output \in [FileList -> BOOLEAN]
        /\ is_sched_waiting \in BOOLEAN
    BY DEF Init
  <2>2. cur \in [Coros -> 1 .. FileCount + 1]
    BY DEF Init
  <2> QED
    BY <2>1, <2>2 DEF Init, TypeOK
<1>2. Linked /\ SchedWaits /\ Ends /\ Claims /\ Passed /\ NoCriticalError
  BY DEF Init, Linked, SchedWaits, Ends, Claims, Passed, NoCriticalError, FileList, Coros
<1>3. RunsLiveCoro
  BY DEF Init, RunsLiveCoro, FinishedOnes
<1>4. Creating /\ NoneLost
  BY DEF Init, Creating, NoneLost, ToSet, Coros
<1> QED
  BY <1>1, <1>2, <1>3, <1>4 DEF CoroInv

(* While main creates coroutines it has created those on the list. *)
LEMMA CreatedCount ==
  ASSUME CoroInv, phase = "create"
  PROVE  Created = Len(coro_list) /\ Len(coro_list) \in 0 .. PoolSize
<1> USE CoroAssumption
<1>1. Len(coro_list) \in 0 .. PoolSize
  BY DEF CoroInv, TypeOK, Creating
<1>2. {c \in Coros : c \in ToSet(coro_list) \/ freed[c]} = 1 .. Len(coro_list)
  BY <1>1 DEF CoroInv, Creating, Coros
<1>3. \A m \in Nat : Cardinality(1 .. m) = m
  BY FS_Interval
<1>4. Len(coro_list) \in Nat
  BY <1>1
<1>5. Cardinality(1 .. Len(coro_list)) = Len(coro_list)
  BY <1>3, <1>4, Zenon
<1>6. Created = Len(coro_list)
  BY <1>2, <1>5, Zenon DEF Created
<1> QED
  BY <1>1, <1>6

(* coro_new puts a new coroutine in front. *)
LEMMA StepNew == CoroInv /\ coro_new => CoroInv'
<1> SUFFICES ASSUME CoroInv, coro_new PROVE CoroInv'
  OBVIOUS
<1> USE CoroAssumption
<1> DEFINE n == Len(coro_list) + 1
<1>1. /\ Created = Len(coro_list) /\ n \in Coros /\ coro_list' = <<n>> \o coro_list
      /\ Len(coro_list) \in Nat /\ coro_list \in Seq(Coros)
      /\ UNCHANGED <<coro_this_ptr, is_sched_waiting, is_finished, freed, workVars, phase>>
      /\ phase = "create"
  <2>1. Created = Len(coro_list) /\ Len(coro_list) \in 0 .. PoolSize
    BY CreatedCount DEF coro_new
  <2>2. n \in Coros
    BY <2>1 DEF coro_new, Coros
  <2> QED
    BY <2>1, <2>2 DEF coro_new, CoroInv, TypeOK
<1>2. /\ coro_list' \in Seq(Coros) /\ Len(coro_list') = n
      /\ \A k \in 1 .. n : coro_list'[k] = IF k = 1 THEN n ELSE coro_list[k - 1]
  <2>1. <<n>> \in Seq(Coros) /\ Len(<<n>>) = 1 /\ <<n>>[1] = n
    BY <1>1
  <2> HIDE DEF n
  <2>2. /\ coro_list' \in Seq(Coros) /\ Len(coro_list') = 1 + Len(coro_list)
        /\ \A k \in 1 .. 1 + Len(coro_list) : coro_list'[k] =
             IF k <= 1 THEN <<n>>[k] ELSE coro_list[k - 1]
    BY <1>1, <2>1, ConcatProperties
  <2> QED
    BY <1>1, <2>1, <2>2 DEF n
<1>3. ToSet(coro_list)' = ToSet(coro_list) \cup {n}
  <2> HIDE DEF n
  <2>1. DOMAIN coro_list' = 1 .. n /\ DOMAIN coro_list = 1 .. n - 1 /\ n \in Nat \ {0}
    BY <1>1, <1>2 DEF n
  <2>2. \A k \in 1 .. n - 1 : k + 1 \in 1 .. n /\ coro_list'[k + 1] = coro_list[k]
    BY <1>2, <2>1
  <2>3. coro_list'[1] = n /\ 1 \in 1 .. n
    BY <1>2, <2>1
  <2>4. \A k \in 1 .. n : k # 1 => k - 1 \in 1 .. n - 1 /\ coro_list'[k] = coro_list[k - 1]
    BY <1>2, <2>1
  <2>5. ToSet(coro_list)' \subseteq ToSet(coro_list) \cup {n}
    BY <2>1, <2>3, <2>4 DEF ToSet
  <2>6. ToSet(coro_list) \cup {n} \subseteq ToSet(coro_list)'
    BY <2>1, <2>2, <2>3 DEF ToSet
  <2> QED
    BY <2>5, <2>6
<1>4. n \notin ToSet(coro_list)
  BY <1>1 DEF CoroInv, Creating
<1>5. TypeOK' /\ SchedWaits' /\ Ends' /\ Claims' /\ Passed' /\ NoCriticalError'
  BY <1>1, <1>2 DEF CoroInv, TypeOK, SchedWaits, Ends, Claims, Passed, NoCriticalError, workVars
<1>6. Linked'
  BY <1>1, <1>2, <1>4 DEF CoroInv, Linked, ToSet
<1>7. Creating' /\ NoneLost'
  <2>1. \A c \in Coros : c \in ToSet(coro_list) <=> c <= Len(coro_list)
    BY <1>1 DEF CoroInv, Creating
  <2>2. \A c \in Coros : c \in ToSet(coro_list)' <=> c <= Len(coro_list)'
    BY <1>1, <1>2, <1>3, <2>1 DEF Coros
  <2>3. Len(coro_list)' <= PoolSize
    BY <1>1, <1>2 DEF Coros
  <2> QED
    BY <1>1, <2>2, <2>3 DEF CoroInv, Creating, NoneLost
<1>8. RunsLiveCoro'
  <2>1. \A i \in DOMAIN coro_list' : coro_list'[i] \in Coros
    BY <1>2
  <2>2. FinishedOnes' = {}
    BY <1>1, <2>1 DEF CoroInv, Creating, FinishedOnes
  <2> QED
    BY <1>1, <2>1, <2>2 DEF CoroInv, Creating, RunsLiveCoro
<1> QED
  BY <1>5, <1>6, <1>7, <1>8 DEF CoroInv

(* A coroutine on the list has a place there. *)
LEMMA Place ==
  ASSUME TypeOK, NEW c \in ToSet(coro_list)
  PROVE  /\ PlaceOf(c) \in 1 .. Len(coro_list) /\ coro_list[PlaceOf(c)] = c
         /\ DOMAIN coro_list = 1 .. Len(coro_list) /\ Len(coro_list) \in Nat
<1>1. DOMAIN coro_list = 1 .. Len(coro_list) /\ Len(coro_list) \in Nat
  BY DEF TypeOK
<1>2. \E k \in DOMAIN coro_list : coro_list[k] = c
  BY DEF ToSet
<1>3. PlaceOf(c) \in DOMAIN coro_list /\ coro_list[PlaceOf(c)] = c
  BY <1>2 DEF PlaceOf
<1> QED
  BY <1>1, <1>3

(* The scheduler takes the finished coroutine off the list and frees it. *)
LEMMA StepReap == CoroInv /\ SchedReap => CoroInv'
<1> SUFFICES ASSUME CoroInv, SchedReap PROVE CoroInv'
  OBVIOUS
<1>0. TypeOK /\ Linked /\ RunsLiveCoro /\ Creating /\ NoneLost /\ SchedWaits /\ Ends
           /\ Claims /\ Passed /\ NoCriticalError
  BY DEF CoroInv
<1>1. PICK m \in FinishedOnes : coro_list[CHOOSE i \in FinishedOnes :
                                              \A j \in FinishedOnes : i <= j] = coro_list[m]
  <2>1. PICK m \in FinishedOnes : TRUE
    BY DEF SchedReap
  <2>2. \A j \in FinishedOnes : j = m
    BY <1>0, <2>1 DEF RunsLiveCoro
  <2>3. m \in Int
    BY <1>0 DEF FinishedOnes, TypeOK
  <2>4. \E i \in FinishedOnes : \A j \in FinishedOnes : i <= j
    BY <2>2, <2>3
  <2>5. (CHOOSE i \in FinishedOnes : \A j \in FinishedOnes : i <= j) \in FinishedOnes
    BY <2>4
  <2> QED
    BY <2>5
<1> DEFINE c == coro_list[m]
<1>2. /\ m \in DOMAIN coro_list /\ is_finished[c] /\ c \in Coros
      /\ \A j \in DOMAIN coro_list : is_finished[coro_list[j]] => j = m
  BY <1>0, <1>1 DEF FinishedOnes, RunsLiveCoro, TypeOK
<1>3. PlaceOf(c) = m
  BY <1>0, <1>2 DEF PlaceOf, Linked
<1>4. coro_list' = RemoveAt(coro_list, m) /\ freed' = [freed EXCEPT ![c] = TRUE]
  BY <1>1, <1>3 DEF SchedReap, Unlink
<1>5. /\ phase = "wait" /\ coro_this_ptr = SCHED
      /\ UNCHANGED <<coro_this_ptr, is_sched_waiting, is_finished, workVars, phase>>
  BY DEF SchedReap
<1>6. m \in 1 .. Len(coro_list) /\ Len(coro_list) \in Nat /\ DOMAIN coro_list = 1 .. Len(coro_list)
      /\ coro_list \in Seq(Coros)
  BY <1>0, <1>2 DEF TypeOK
<1>7. /\ coro_list' \in Seq(Coros) /\ DOMAIN coro_list' = 1 .. Len(coro_list) - 1
      /\ \A k \in 1 .. Len(coro_list) - 1 :
           coro_list'[k] = IF k < m THEN coro_list[k] ELSE coro_list[k + 1]
  BY <1>4, <1>6, RemoveAtProperties
<1>8. \A k \in DOMAIN coro_list' : coro_list'[k] # c /\ coro_list'[k] \in ToSet(coro_list)
  <2> DEFINE from(k) == IF k < m THEN k ELSE k + 1
  <2>1. \A k \in DOMAIN coro_list' : /\ from(k) \in DOMAIN coro_list /\ from(k) # m
                                      /\ coro_list'[k] = coro_list[from(k)]
    BY <1>6, <1>7
  <2> HIDE DEF from
  <2> QED
    BY <1>0, <1>2, <2>1, Zenon DEF Linked, ToSet
<1>9. \A d \in ToSet(coro_list) : d # c => d \in ToSet(coro_list)'
  <2> SUFFICES ASSUME NEW j \in 1 .. Len(coro_list), j # m
               PROVE  coro_list[j] \in ToSet(coro_list)'
    BY <1>6 DEF ToSet
  <2>1. CASE j < m
    BY <1>6, <1>7, <2>1 DEF ToSet
  <2>2. CASE j > m
    <3>1. j - 1 \in DOMAIN coro_list' /\ coro_list'[j - 1] = coro_list[j]
      BY <1>6, <1>7, <2>2
    <3> QED
      BY <3>1 DEF ToSet
  <2> QED
    BY <1>6, <2>1, <2>2
<1>10. TypeOK'
  BY <1>0, <1>4, <1>5, <1>7 DEF TypeOK, workVars
<1>11. Linked'
  <2> DEFINE from(k) == IF k < m THEN k ELSE k + 1
  <2>1. \A k \in DOMAIN coro_list' : from(k) \in DOMAIN coro_list /\ coro_list'[k] = coro_list[from(k)]
    BY <1>6, <1>7
  <2>2. \A k, l \in DOMAIN coro_list' : from(k) = from(l) => k = l
    BY <1>6, <1>7
  <2> HIDE DEF from
  <2> QED
    BY <1>0, <2>1, <2>2 DEF Linked
<1>12. FinishedOnes' = {}
  BY <1>2, <1>5, <1>8 DEF FinishedOnes, ToSet
<1>13. RunsLiveCoro'
  <2>1. \A k \in DOMAIN coro_list' : ~freed'[coro_list'[k]]
    BY <1>0, <1>4, <1>8, <1>6, <1>7 DEF RunsLiveCoro, TypeOK, ToSet
  <2> QED
    BY <1>5, <1>12, <2>1 DEF RunsLiveCoro
<1>14. NoneLost'
  BY <1>0, <1>2, <1>4, <1>5, <1>9 DEF NoneLost, TypeOK
<1>15. Creating' /\ SchedWaits' /\ NoCriticalError' /\ Claims' /\ Passed'
  <2>1. Creating' /\ SchedWaits' /\ NoCriticalError'
    BY <1>0, <1>5 DEF Creating, SchedWaits, NoCriticalError
  <2>2. Claims' /\ Passed'
    BY <1>0, <1>5 DEF Claims, Passed, workVars
  <2> QED
    BY <2>1, <2>2
<1>16. Ends'
  BY <1>0, <1>2, <1>4, <1>5 DEF Ends, TypeOK, workVars
<1> QED
  BY <1>10, <1>11, <1>13, <1>14, <1>15, <1>16 DEF CoroInv

(* The scheduler passes control to the head of the list. *)
LEMMA StepRun == CoroInv /\ SchedRun => CoroInv'
<1> SUFFICES ASSUME CoroInv, SchedRun PROVE CoroInv'
  OBVIOUS
<1> USE CoroAssumption
<1>1. /\ phase = "wait" /\ FinishedOnes = {} /\ coro_list # <<>>
      /\ coro_this_ptr' = coro_list[1] /\ is_sched_waiting' = (coro_this_ptr' # SCHED)
      /\ UNCHANGED <<coro_list, freed, is_finished, workVars, phase>>
  BY DEF SchedRun, coro_yield_to
<1>2. coro_list[1] \in ToSet(coro_list) /\ coro_list[1] \in Coros
  BY <1>1 DEF CoroInv, TypeOK, ToSet
<1>3. TypeOK'
  BY <1>1, <1>2 DEF CoroInv, TypeOK, workVars
<1>4. RunsLiveCoro'
  BY <1>1, <1>2 DEF CoroInv, RunsLiveCoro, FinishedOnes, ToSet
<1>5. Linked' /\ Creating' /\ NoneLost' /\ SchedWaits' /\ NoCriticalError'
  BY <1>1 DEF CoroInv, Linked, Creating, NoneLost, SchedWaits, NoCriticalError, ToSet
<1>6. Ends' /\ Claims' /\ Passed'
  BY <1>1 DEF CoroInv, Ends, Claims, Passed, workVars
<1> QED
  BY <1>3, <1>4, <1>5, <1>6 DEF CoroInv

(* A coroutine that yields passes control to its follower, or back. *)
LEMMA StepYield ==
  ASSUME CoroInv, NEW c \in Coros, YieldPoint(c)
  PROVE  CoroInv'
<1> USE CoroAssumption
<1>1. /\ phase = "wait" /\ coro_this_ptr = c
      /\ coro_this_ptr' = Follower(c) /\ is_sched_waiting' = (coro_this_ptr' # SCHED)
      /\ UNCHANGED <<coro_list, freed, is_finished, workVars, phase>>
  BY DEF YieldPoint, Runs, coro_yield_to
<1>2. c \in ToSet(coro_list) /\ c # SCHED /\ FinishedOnes = {}
  BY <1>1 DEF CoroInv, RunsLiveCoro, Coros
<1>3. Follower(c) = SCHED \/ Follower(c) \in ToSet(coro_list)
  BY <1>2, Place DEF Follower, CoroInv, ToSet
<1>4. ToSet(coro_list) \subseteq Coros
  BY DEF CoroInv, TypeOK, ToSet
<1>5. TypeOK'
  BY <1>1, <1>3, <1>4 DEF CoroInv, TypeOK, workVars
<1>6. RunsLiveCoro'
  BY <1>1, <1>2, <1>3 DEF CoroInv, RunsLiveCoro, FinishedOnes, ToSet
<1>7. Linked' /\ Creating' /\ NoneLost' /\ SchedWaits' /\ NoCriticalError'
  BY <1>1 DEF CoroInv, Linked, Creating, NoneLost, SchedWaits, NoCriticalError, ToSet
<1>8. Ends' /\ Claims' /\ Passed'
  BY <1>1 DEF CoroInv, Ends, Claims, Passed, workVars
<1> QED
  BY <1>5, <1>6, <1>7, <1>8 DEF CoroInv

(* coro_body ends with the scheduler waiting: control goes back to it, and *)
(* it will find this one coroutine finished.                               *)
LEMMA StepEnd ==
  ASSUME CoroInv, NEW c \in Coros, EndOfList(c)
  PROVE  CoroInv'
<1> USE CoroAssumption
<1>0. TypeOK /\ Linked /\ RunsLiveCoro /\ Creating /\ NoneLost /\ SchedWaits /\ Ends
           /\ Claims /\ Passed /\ NoCriticalError
  BY DEF CoroInv
<1>1. coro_this_ptr = c /\ c # SCHED /\ is_sched_waiting
  BY <1>0 DEF EndOfList, Runs, SchedWaits, Coros
<1>2. /\ phase = "wait" /\ ~sorting[c] /\ cur[c] = FileCount + 1
      /\ is_finished' = [is_finished EXCEPT ![c] = TRUE]
      /\ coro_this_ptr' = SCHED /\ is_sched_waiting' = FALSE
      /\ UNCHANGED <<coro_list, freed, workVars, phase>>
  BY <1>1 DEF EndOfList, Runs, FinishCoro, coro_yield_to
<1>3. TypeOK'
  BY <1>0, <1>2 DEF TypeOK, workVars
<1>4. \A i \in FinishedOnes' : coro_list[i] = c /\ i \in DOMAIN coro_list
  BY <1>0, <1>1, <1>2 DEF RunsLiveCoro, FinishedOnes, TypeOK
<1>5. RunsLiveCoro'
  <2>1. \A i, j \in FinishedOnes' : i = j
    BY <1>0, <1>4 DEF Linked
  <2>2. \A i \in DOMAIN coro_list' : ~freed'[coro_list'[i]]
    BY <1>0, <1>2 DEF RunsLiveCoro
  <2> QED
    BY <1>2, <2>1, <2>2 DEF RunsLiveCoro
<1>6. Linked' /\ Creating' /\ NoneLost' /\ SchedWaits' /\ NoCriticalError'
  BY <1>0, <1>2 DEF Linked, Creating, NoneLost, SchedWaits, NoCriticalError, ToSet
<1>7. Ends' /\ Claims' /\ Passed'
  BY <1>0, <1>2 DEF Ends, Claims, Passed, TypeOK, workVars
<1> QED
  BY <1>3, <1>5, <1>6, <1>7 DEF CoroInv

(* What a coroutine does with the files leaves the coroutines alone. *)
LEMMA CorosKept ==
  ASSUME CoroInv, UNCHANGED <<coroVars, phase>>
  PROVE  Linked' /\ RunsLiveCoro' /\ Creating' /\ NoneLost' /\ SchedWaits' /\ NoCriticalError'
<1>1. Linked' /\ Creating' /\ NoneLost' /\ SchedWaits' /\ NoCriticalError'
  BY DEF CoroInv, coroVars, Linked, Creating, NoneLost, SchedWaits, NoCriticalError, ToSet
<1>2. RunsLiveCoro'
  BY DEF CoroInv, coroVars, RunsLiveCoro, FinishedOnes, ToSet
<1> QED
  BY <1>1, <1>2

(* The coroutine that runs has not finished. *)
LEMMA RunnerLives ==
  ASSUME CoroInv, NEW c \in Coros, Runs(c)
  PROVE  ~is_finished[c]
BY CoroAssumption DEF CoroInv, RunsLiveCoro, Runs, FinishedOnes, ToSet, Coros

(* A coroutine goes past a file that is claimed, *)
LEMMA StepSkip ==
  ASSUME CoroInv, NEW c \in Coros, Skip(c)
  PROVE  CoroInv'
<1> USE CoroAssumption
<1>1. ~is_finished[c]
  BY RunnerLives DEF Skip
<1>2. /\ cur[c] \in FileList /\ status[cur[c]] # "WAITING" /\ ~sorting[c]
      /\ cur' = [cur EXCEPT ![c] = cur[c] + 1]
      /\ UNCHANGED <<coroVars, sorting, status, has_output, phase>>
  BY DEF Skip, CoroInv, TypeOK, FileList
<1>3. TypeOK'
  BY <1>2 DEF CoroInv, TypeOK, coroVars, FileList
<1>4. Ends' /\ Claims'
  BY <1>1, <1>2 DEF CoroInv, TypeOK, Ends, Claims, coroVars
<1>5. Passed'
  BY <1>2 DEF CoroInv, TypeOK, Passed, FileList
<1> QED
  BY <1>2, <1>3, <1>4, <1>5, CorosKept DEF CoroInv

(* claims one that waits, *)
LEMMA StepStart ==
  ASSUME CoroInv, NEW c \in Coros, StartSort(c)
  PROVE  CoroInv'
<1> USE CoroAssumption
<1>1. ~is_finished[c]
  BY RunnerLives DEF StartSort
<1>2. /\ cur[c] \in FileList /\ status[cur[c]] = "WAITING" /\ ~sorting[c]
      /\ UNCHANGED <<coroVars, cur, has_output, phase>>
  BY DEF StartSort, CoroInv, TypeOK, FileList
<1>3. PICK opened \in BOOLEAN :
        /\ status' = [status EXCEPT ![cur[c]] = IF opened THEN "IN_PROGRESS" ELSE "FINISHED"]
        /\ sorting' = [sorting EXCEPT ![c] = opened]
  BY DEF StartSort, Claimed
<1>4. TypeOK'
  <2>1. sorting' \in [Coros -> BOOLEAN]
    BY <1>3 DEF CoroInv, TypeOK
  <2>2. status' \in [FileList -> {"WAITING", "IN_PROGRESS", "FINISHED"}]
    BY <1>3 DEF CoroInv, TypeOK
  <2> QED
    BY <1>2, <2>1, <2>2 DEF CoroInv, TypeOK, coroVars
<1>5. Ends'
  BY <1>1, <1>2, <1>3 DEF CoroInv, TypeOK, Ends, coroVars
<1>6. Claims'
  BY <1>2, <1>3 DEF CoroInv, TypeOK, Claims
<1>7. Passed'
  BY <1>2, <1>3 DEF CoroInv, TypeOK, Passed
<1> QED
  BY <1>2, <1>4, <1>5, <1>6, <1>7, CorosKept DEF CoroInv

(* and marks the one it has sorted. *)
LEMMA StepEndSort ==
  ASSUME CoroInv, NEW c \in Coros, EndSort(c)
  PROVE  CoroInv'
<1>1. ~is_finished[c]
  BY RunnerLives DEF EndSort
<1>2. /\ sorting[c] /\ cur[c] \in FileList /\ status[cur[c]] = "IN_PROGRESS"
      /\ status' = [status EXCEPT ![cur[c]] = "FINISHED"]
      /\ has_output' = [has_output EXCEPT ![cur[c]] = TRUE]
      /\ sorting' = [sorting EXCEPT ![c] = FALSE]
      /\ UNCHANGED <<coroVars, cur, phase>>
  BY DEF EndSort, CoroInv, Claims
<1>3. TypeOK'
  BY <1>2 DEF CoroInv, TypeOK, coroVars
<1>4. Ends'
  BY <1>1, <1>2 DEF CoroInv, TypeOK, Ends, coroVars
<1>5. Claims'
  BY <1>2 DEF CoroInv, TypeOK, Claims
<1>6. Passed'
  BY <1>2 DEF CoroInv, TypeOK, Passed
<1> QED
  BY <1>2, <1>3, <1>4, <1>5, <1>6, CorosKept DEF CoroInv

(* main goes from one of its loops to the next. *)
LEMMA StepMain ==
  ASSUME CoroInv, StartWaiting \/ AllReaped \/ CheckFiles \/ MergeCrash
  PROVE  CoroInv'
<1> USE CoroAssumption
<1>1. UNCHANGED <<coroVars, workVars>> /\ phase' # "exit"
      /\ phase' \in {"wait", "check", "merge", "abort", "segv"}
  BY DEF StartWaiting, AllReaped, CheckFiles, MergeCrash
<1>2. TypeOK' /\ Linked' /\ SchedWaits' /\ NoCriticalError'
  BY <1>1 DEF CoroInv, TypeOK, Linked, SchedWaits, NoCriticalError, coroVars, workVars
<1>3. RunsLiveCoro'
  BY <1>1 DEF CoroInv, RunsLiveCoro, FinishedOnes, ToSet, coroVars
<1>4. Ends' /\ Claims' /\ Passed'
  BY <1>1 DEF CoroInv, Ends, Claims, Passed, coroVars, workVars
<1>5. Creating'
  BY <1>1 DEF Creating
<1>6. NoneLost'
  <2>1. CASE StartWaiting
    <3>1. Len(coro_list) = PoolSize /\ phase = "create" /\ phase' = "wait"
      BY <2>1, CreatedCount DEF StartWaiting
    <3>2. \A c \in Coros : c \in ToSet(coro_list)
      BY <3>1 DEF CoroInv, Creating, Coros
    <3> QED
      BY <1>1, <3>1, <3>2 DEF NoneLost, coroVars, ToSet
  <2>2. CASE AllReaped
    BY <1>1, <2>2 DEF AllReaped, CoroInv, NoneLost, coroVars, ToSet
  <2>3. CASE CheckFiles \/ MergeCrash
    <3>1. phase \in {"check", "merge"}
      BY <2>3 DEF CheckFiles, MergeCrash
    <3> QED
      BY <1>1, <3>1 DEF CoroInv, NoneLost, coroVars, ToSet
  <2> QED
    BY <2>1, <2>2, <2>3
<1> QED
  BY <1>2, <1>3, <1>4, <1>5, <1>6 DEF CoroInv

(* Every step preserves the invariant. *)
LEMMA CoroInvStep == CoroInv /\ [Next]_sortVars => CoroInv'
<1> SUFFICES ASSUME CoroInv, [Next]_sortVars PROVE CoroInv'
  OBVIOUS
<1>1. CASE UNCHANGED sortVars
  <2>1. TypeOK' /\ Ends' /\ Claims' /\ Passed'
    BY <1>1 DEF CoroInv, TypeOK, Ends, Claims, Passed, sortVars, coroVars, workVars
  <2> QED
    BY <1>1, <2>1, CorosKept DEF CoroInv, sortVars
<1>2. CASE Next
  BY <1>2, StepNew, StepReap, StepRun, StepYield, StepEnd, StepSkip, StepStart, StepEndSort,
     StepMain DEF Next, CoroStep
<1> QED
  BY <1>1, <1>2

(* The invariant holds in every state of every behaviour. *)
THEOREM CoroInvariant == Spec => []CoroInv
BY InitCoro, CoroInvStep, PTL DEF Spec

(* coro_yield and coro_sched_wait only ever jump into a coroutine that is  *)
(* on the list, not finished and not freed.                                *)
THEOREM ControlStaysLive == Spec => []RunsLiveCoro
<1>1. CoroInv => RunsLiveCoro
  BY DEF CoroInv
<1> QED
  BY <1>1, CoroInvariant, PTL

(* The "Critical error" of coro_body, an end with no scheduler to return   *)
(* to, is never reached.                                                   *)
THEOREM CoroBodyReturns == Spec => []NoCriticalError
<1>1. CoroInv => NoCriticalError
  BY DEF CoroInv
<1> QED
  BY <1>1, CoroInvariant, PTL

(* A file is claimed exactly while one coroutine sorts it, although the    *)
(* list of files is shared without a lock.                                 *)
THEOREM FilesSharedOut == Spec => []OneSorterPerFile
<1>1. CoroInv => OneSorterPerFile
  <2> SUFFICES ASSUME CoroInv, NEW f \in FileList
               PROVE  Cardinality({c \in Coros : sorting[c] /\ cur[c] = f}) =
                        IF status[f] = "IN_PROGRESS" THEN 1 ELSE 0
    BY DEF OneSorterPerFile
  <2>1. CASE status[f] = "IN_PROGRESS"
    <3>1. PICK c \in Coros : sorting[c] /\ cur[c] = f
      BY <2>1 DEF CoroInv, Claims
    <3>2. {d \in Coros : sorting[d] /\ cur[d] = f} = {c}
      BY <3>1 DEF CoroInv, Claims
    <3> QED
      BY <2>1, <3>2, FS_Singleton
  <2>2. CASE status[f] # "IN_PROGRESS"
    <3>1. {d \in Coros : sorting[d] /\ cur[d] = f} = {}
      BY <2>2 DEF CoroInv, Claims
    <3> QED
      BY <2>2, <3>1, FS_EmptySet
  <2> QED
    BY <2>1, <2>2
<1> QED
  BY <1>1, CoroInvariant, PTL

(* With at least one coroutine, the assertion of main holds: when all have *)
(* ended, every file is finished.  (With a pool of size 0 nobody sorts.)   *)
THEOREM EveryFileSorted ==
  ASSUME PoolSize # 0
  PROVE  Spec => []AllFilesFinished
<1>1. CoroInv /\ phase = "check" => \A f \in FileList : status[f] = "FINISHED"
  <2> SUFFICES ASSUME CoroInv, phase = "check", NEW f \in FileList
               PROVE  status[f] = "FINISHED"
    OBVIOUS
  <2>1. \A c \in Coros : freed[c]
    BY DEF CoroInv, NoneLost, ToSet
  <2>2. \A c \in Coros : cur[c] = FileCount + 1 /\ ~sorting[c]
    BY <2>1 DEF CoroInv, Ends
  <2>3. 1 \in Coros
    BY CoroAssumption DEF Coros
  <2>4. status[f] # "WAITING"
    BY <2>2, <2>3, CoroAssumption DEF CoroInv, Passed, FileList
  <2>5. status[f] # "IN_PROGRESS"
    BY <2>2 DEF CoroInv, Claims
  <2> QED
    BY <2>4, <2>5 DEF CoroInv, TypeOK
<1>2. Init => AllFilesFinished
  BY DEF Init, AllFilesFinished
<1>3. CoroInv /\ AllFilesFinished /\ [Next]_sortVars => AllFilesFinished'
  <2> SUFFICES ASSUME CoroInv, AllFilesFinished, [Next]_sortVars, phase' = "abort" PROVE FALSE
    BY DEF AllFilesFinished
  <2>1. CheckFiles
    BY DEF AllFilesFinished, Next, CoroStep, sortVars, coro_new, StartWaiting, SchedReap, SchedRun,
       AllReaped, Skip, StartSort, YieldPoint, EndOfList, FinishCoro, MergeCrash, EndSort
  <2> QED
    BY <1>1, <2>1 DEF CheckFiles
<1> QED
  BY <1>2, <1>3, CoroInvariant, PTL DEF Spec

-----------------------------------------------------------------------------
(***************************************************************************)
(* Part two: the merge of main.  What sort_file computes is recursive and  *)
(* stays with TLC (the first half of OutputSorted); here it may return any *)
(* file of ints in order.                                                  *)
(***************************************************************************)
INT_MIN == -2147483648
INT_MAX == 2147483647
Ints    == INT_MIN .. INT_MAX

SortedFiles == {file \in [nums : Seq(Ints), trail : {FALSE}] : InOrder(file.nums)}

MergeNext ==
  \/ (CoroStep \/ CheckFiles) /\ UNCHANGED <<sorted, mergeVars>>
  \/ \E c \in Coros, file \in SortedFiles : StoreOutput(c, file)
  \/ MergeStep

MergeSpec == Init /\ MergeInit /\ [][MergeNext]_mainVars

-----------------------------------------------------------------------------
FilesOK ==
  /\ sorted \in [FileList -> SortedFiles] /\ taken \in [FileList -> Nat]
  /\ output \in Seq(Ints) /\ merged \in BOOLEAN

(* Nothing is read before all coroutines have ended. *)
NotYet ==
  phase \in {"create", "wait", "check"} =>
    output = <<>> /\ ~merged /\ \A f \in FileList : taken[f] = 0

(* No file is read beyond its numbers, and the merge ends when all are read. *)
InBounds ==
  /\ \A f \in FileList : taken[f] <= count_numbers_in_file(sorted[f])
  /\ merged => Unmerged = {}

(* What was written is at most what comes. *)
Smallest == \A f \in Unmerged : \A i \in DOMAIN output : output[i] <= cur_value(f)

(* from and at say which number of which file each number of the output    *)
(* is; size[f] numbers of each file are in the output, each one once.      *)
Merge(from, at, size) ==
  /\ \A i, j \in DOMAIN output : from[i] = from[j] /\ at[i] = at[j] => i = j
  /\ \A i \in DOMAIN output : /\ at[i] \in 1 .. size[from[i]]
                              /\ output[i] = Scanned(sorted[from[i]].nums, at[i], 0)
  /\ \A f \in FileList : \A n \in 1 .. size[f] :
       \E i \in DOMAIN output : from[i] = f /\ at[i] = n

Merging ==
  \E from \in [DOMAIN output -> FileList], at \in [DOMAIN output -> Nat] :
    Merge(from, at, taken)

(* The inductive invariant of the merge. *)
MergeInv == FilesOK /\ NotYet /\ InBounds /\ Smallest /\ Merging /\ InOrder(output)

(* Each number that count_numbers_in_file finds in the sorted files is in  *)
(* output.txt once, and output.txt has no other.                           *)
EachNumberOnce ==
  merged =>
    \E from \in [DOMAIN output -> FileList], at \in [DOMAIN output -> Nat] :
      Merge(from, at, [f \in FileList |-> count_numbers_in_file(sorted[f])])

-----------------------------------------------------------------------------
LEMMA IntsBounded ==
  /\ Ints \subseteq Int /\ 0 \in Ints /\ INT_MIN \in Int
  /\ \A n \in Ints : INT_MIN <= n
<1>1. INT_MIN \in Int /\ INT_MIN <= 0
  BY SMT DEF INT_MIN
<1>2. INT_MAX \in Int /\ 0 <= INT_MAX
  BY SMT DEF INT_MAX
<1> QED
  BY <1>1, <1>2, SMT DEF Ints

(* A set of ints has a least one, also when there are negative ones. *)
LEMMA LeastInt ==
  ASSUME NEW T \in SUBSET Ints, T # {}
  PROVE  \E x \in T : \A y \in T : x <= y
<1> DEFINE S == {t - INT_MIN : t \in T}
<1>1. ASSUME NEW t \in T PROVE t - INT_MIN \in Nat
  BY IntsBounded
<1>2. S \in SUBSET Nat /\ S # {}
  BY <1>1
<1>3. Min(S) \in S /\ \A y \in S : Min(S) <= y
  <2> HIDE DEF S
  <2> QED
    BY <1>2, MinProperties
<1>4. PICK x \in T : Min(S) = x - INT_MIN
  BY <1>3
<1>5. ASSUME NEW y \in T PROVE x <= y
  <2>1. y - INT_MIN \in S
    OBVIOUS
  <2>2. x - INT_MIN <= y - INT_MIN
    BY <1>3, <1>4, <2>1
  <2> QED
    BY <2>2, IntsBounded
<1> QED
  BY <1>5

(* In a file that is in order a later number is not smaller. *)
LEMMA LaterNotSmaller ==
  ASSUME NEW nums \in Seq(Ints), InOrder(nums), NEW k \in Nat \ {0}
  PROVE  /\ Scanned(nums, k, 0) \in Ints
         /\ Scanned(nums, k, 0) <= Scanned(nums, k + 1, 0)
<1>1. CASE nums = <<>>
  BY <1>1, IntsBounded DEF Scanned
<1>2. CASE nums # <<>>
  <2>1. Len(nums) \in Nat \ {0} /\ \A i \in 1 .. Len(nums) : nums[i] \in Ints
    BY <1>2
  <2>2. \A i \in Int : i > Len(nums) => Scanned(nums, i, 0) = nums[Len(nums)]
    BY <1>2, <2>1 DEF Scanned, Last
  <2>3. \A i \in 1 .. Len(nums) : Scanned(nums, i, 0) = nums[i]
    BY DEF Scanned
  <2>4. CASE k < Len(nums)
    BY <2>1, <2>3, <2>4, IntsBounded DEF InOrder
  <2>5. CASE k >= Len(nums)
    <3>1. Scanned(nums, k, 0) = nums[Len(nums)] /\ Scanned(nums, k + 1, 0) = nums[Len(nums)]
      BY <2>1, <2>2, <2>3, <2>5
    <3>2. nums[Len(nums)] \in Ints
      BY <2>1
    <3>3. \A v \in Ints : v <= v
      BY IntsBounded
    <3> QED
      BY <3>1, <3>2, <3>3, Zenon
  <2> QED
    BY <2>1, <2>4, <2>5
<1> QED
  BY <1>1, <1>2

LEMMA FileSize ==
  \A file \in SortedFiles : /\ file.nums \in Seq(Ints) /\ InOrder(file.nums)
                             /\ count_numbers_in_file(file) \in Nat \ {0}
<1> SUFFICES ASSUME NEW file \in SortedFiles
             PROVE  /\ file.nums \in Seq(Ints) /\ InOrder(file.nums)
                    /\ count_numbers_in_file(file) \in Nat \ {0}
  OBVIOUS
<1>1. file.nums \in Seq(Ints) /\ InOrder(file.nums) /\ ~file.trail
  BY Zenon DEF SortedFiles
<1>2. Len(file.nums) \in Nat /\ (file.nums # <<>> => Len(file.nums) # 0)
  BY <1>1
<1> QED
  BY <1>1, <1>2 DEF count_numbers_in_file

(* What a round of the merge chooses *)
LEMMA NextChosen ==
  ASSUME FilesOK, Unmerged # {}
  PROVE  /\ NextFile \in Unmerged
         /\ \A g \in Unmerged : cur_value(NextFile) <= cur_value(g)
<1> DEFINE V == {cur_value(f) : f \in Unmerged}
           T == {f \in Unmerged : \A g \in Unmerged : cur_value(f) <= cur_value(g)}
<1>1. ASSUME NEW f \in Unmerged PROVE cur_value(f) \in Ints
  <2>1. f \in FileList /\ sorted[f] \in SortedFiles /\ taken[f] \in Nat
    BY <1>1 DEF FilesOK, Unmerged
  <2>2. sorted[f].nums \in Seq(Ints) /\ InOrder(sorted[f].nums)
    BY <2>1 DEF SortedFiles
  <2>3. taken[f] + 1 \in Nat \ {0}
    BY <2>1
  <2> QED
    BY <2>2, <2>3, LaterNotSmaller DEF cur_value
<1>2. V \in SUBSET Ints /\ V # {}
  BY <1>1
<1>3. PICK x \in V : \A y \in V : x <= y
  <2> HIDE DEF V
  <2> QED
    BY <1>2, LeastInt
<1>4. T # {}
  BY <1>3
<1>5. T \in SUBSET Nat
  BY CoroAssumption DEF Unmerged, FileList
<1>6. Min(T) \in T
  <2> HIDE DEF T
  <2> QED
    BY <1>4, <1>5, MinProperties
<1> QED
  BY <1>6 DEF NextFile

-----------------------------------------------------------------------------
LEMMA InitMerge == Init /\ MergeInit => MergeInv
<1> SUFFICES ASSUME Init, MergeInit PROVE MergeInv
  OBVIOUS
<1>1. FilesOK
  <2>1. [nums |-> <<>>, trail |-> FALSE] \in SortedFiles
    BY DEF SortedFiles, InOrder
  <2>2. output \in Seq(Ints) /\ taken \in [FileList -> Nat]
    BY DEF MergeInit
  <2>4. merged \in BOOLEAN
    BY Zenon DEF MergeInit
  <2>3. sorted \in [FileList -> SortedFiles]
    BY <2>1, Zenon DEF MergeInit
  <2> QED
    BY <2>2, <2>3, <2>4 DEF FilesOK
<1>2. output = <<>> /\ DOMAIN output = {} /\ \A f \in FileList : taken[f] = 0
  BY DEF MergeInit
<1>3. NotYet
  BY <1>2 DEF NotYet, MergeInit
<1>4. InBounds
  <2>1. ASSUME NEW f \in FileList PROVE count_numbers_in_file(sorted[f]) = 1
    BY DEF MergeInit, count_numbers_in_file
  <2> QED
    BY <1>2, <2>1 DEF InBounds, MergeInit
<1>5. Smallest /\ InOrder(output)
  BY <1>2 DEF Smallest, InOrder
<1>6. Merging
  <2> DEFINE none == [i \in DOMAIN output |-> 0]
             from == [i \in DOMAIN output |-> CHOOSE f \in FileList : TRUE]
  <2>1. none \in [DOMAIN output -> Nat] /\ from \in [DOMAIN output -> FileList]
    BY <1>2
  <2>2. \A f \in FileList : 1 .. taken[f] = {}
    BY <1>2
  <2>3. Merge(from, none, taken)
    BY <1>2, <2>2 DEF Merge
  <2> QED
    BY <2>1, <2>3 DEF Merging
<1> QED
  BY <1>1, <1>3, <1>4, <1>5, <1>6 DEF MergeInv

(* Steps that leave the files alone and do not go back to an earlier phase *)
LEMMA FilesAlone ==
  ASSUME MergeInv, UNCHANGED <<sorted, mergeVars>>,
         phase' \in {"create", "wait", "check"} => phase \in {"create", "wait", "check"}
  PROVE  MergeInv'
<1>1. sorted' = sorted /\ taken' = taken /\ output' = output /\ merged' = merged
  BY DEF mergeVars
<1>2. (FilesOK /\ InOrder(output))'
  BY <1>1 DEF MergeInv, FilesOK
<1>3. Unmerged' = Unmerged /\ \A f : cur_value(f)' = cur_value(f)
  BY <1>1 DEF Unmerged, file_lens, cur_value
<1>4. (InBounds /\ Smallest)'
  BY <1>1, <1>3 DEF MergeInv, InBounds, Smallest
<1>5. Merging'
  <2>1. Merging
    BY DEF MergeInv
  <2> QED
    BY <1>1, <2>1 DEF Merging, Merge
<1>6. NotYet'
  BY <1>1 DEF MergeInv, NotYet
<1> QED
  BY <1>2, <1>4, <1>5, <1>6 DEF MergeInv

LEMMA PhaseForward ==
  CoroStep \/ CheckFiles \/ MergeCrash \/ UNCHANGED sortVars =>
    (phase' \in {"create", "wait", "check"} => phase \in {"create", "wait", "check"})
BY DEF CoroStep, CheckFiles, MergeCrash, coro_new, StartWaiting, SchedReap, SchedRun, AllReaped,
   Skip, StartSort, YieldPoint, EndOfList, FinishCoro, sortVars

LEMMA StepStore ==
  ASSUME MergeInv, NEW c \in Coros, NEW file \in SortedFiles, StoreOutput(c, file)
  PROVE  MergeInv'
<1>1. /\ sorted' = [sorted EXCEPT ![cur[c]] = file]
      /\ taken' = taken /\ output' = output /\ merged' = merged
      /\ phase = "wait" /\ phase' = phase
  BY DEF StoreOutput, mergeVars, EndSort, Runs
<1>2. output = <<>> /\ DOMAIN output = {} /\ ~merged /\ \A f \in FileList : taken[f] = 0
  BY <1>1 DEF MergeInv, NotYet
<1>3. FilesOK'
  BY <1>1 DEF MergeInv, FilesOK
<1>4. NotYet'
  BY <1>1, <1>2 DEF NotYet
<1>5. InBounds'
  <2>1. ASSUME NEW f \in FileList PROVE count_numbers_in_file(sorted'[f]) >= 0
    <3>1. sorted'[f] \in SortedFiles
      BY <1>3 DEF FilesOK
    <3> QED
      BY <3>1, FileSize
  <2> QED
    BY <1>1, <1>2, <2>1 DEF InBounds
<1>6. (Smallest /\ InOrder(output))'
  BY <1>1, <1>2 DEF Smallest, InOrder
<1>7. Merging'
  BY <1>1, <1>2 DEF MergeInv, Merging, Merge
<1> QED
  BY <1>3, <1>4, <1>5, <1>6, <1>7 DEF MergeInv

(* A round of the merge, which writes the number v of the file n *)
LEMMA StepMerge ==
  ASSUME MergeInv, phase = "merge", NEW n \in Unmerged, NEW v, NEW L,
         L = Len(output), v = cur_value(n), \A g \in Unmerged : v <= cur_value(g),
         output' = Append(output, v),
         taken' = [taken EXCEPT ![n] = @ + 1],
         merged' = (Unmerged = {n} /\ file_lens(n) = 1),
         UNCHANGED sortVars, UNCHANGED sorted
  PROVE  MergeInv'
<1> DEFINE size(f) == count_numbers_in_file(sorted[f])
<1>1. n \in Unmerged /\ \A g \in Unmerged : v <= cur_value(g)
  OBVIOUS
<1>2. /\ n \in FileList /\ taken \in [FileList -> Nat] /\ output \in Seq(Ints)
      /\ sorted \in [FileList -> SortedFiles]
  BY <1>1 DEF MergeInv, FilesOK, Unmerged
<1>3. \A f \in FileList : /\ sorted[f].nums \in Seq(Ints) /\ InOrder(sorted[f].nums)
                           /\ size(f) \in Nat /\ taken[f] \in Nat /\ taken[f] <= size(f)
  <2>1. ASSUME NEW f \in FileList PROVE sorted[f] \in SortedFiles /\ taken[f] \in Nat
    BY <1>2
  <2> QED
    BY <2>1, FileSize DEF MergeInv, InBounds
<1>4. taken[n] + 1 \in Nat \ {0} /\ taken[n] < size(n)
  BY <1>1, <1>2, <1>3 DEF Unmerged, file_lens
<1>5. v \in Ints /\ v <= Scanned(sorted[n].nums, taken[n] + 2, 0)
  <2>1. taken[n] + 2 = (taken[n] + 1) + 1
    BY <1>2, <1>3
  <2> QED
    BY <1>2, <1>3, <1>4, <2>1, LaterNotSmaller DEF cur_value
<1>6. L \in Nat /\ Len(output') = L + 1 /\ DOMAIN output = 1 .. L /\ DOMAIN output' = 1 .. L + 1
      /\ output' \in Seq(Ints) /\ output'[L + 1] = v
      /\ \A i \in 1 .. L : output'[i] = output[i] /\ output[i] \in Ints
  BY <1>2, <1>5
<1>7. /\ taken'[n] = taken[n] + 1 /\ taken' \in [FileList -> Nat]
      /\ \A f \in FileList : f # n => taken'[f] = taken[f]
  BY <1>2, <1>3
<1>8. sorted' = sorted /\ phase' = phase
  BY DEF sortVars
<1>9. /\ cur_value(n)' = Scanned(sorted[n].nums, taken[n] + 2, 0)
      /\ \A f \in FileList : f # n => cur_value(f)' = cur_value(f)
  <2>1. (taken[n] + 1) + 1 = taken[n] + 2
    BY <1>2, <1>3
  <2> QED
    BY <1>7, <1>8, <2>1 DEF cur_value
<1>10. Unmerged' \subseteq Unmerged
  <2>1. ASSUME NEW f \in FileList, file_lens(f)' # 0 PROVE file_lens(f) # 0
    <3>1. CASE f = n
      BY <3>1, <1>1 DEF Unmerged
    <3>2. CASE f # n
      BY <2>1, <3>2, <1>7, <1>8 DEF file_lens
    <3> QED
      BY <3>1, <3>2
  <2> QED
    BY <2>1 DEF Unmerged
<1>11. FilesOK'
  <2>1. merged' \in BOOLEAN
    BY Zenon
  <2> QED
    BY <1>2, <1>6, <1>7, <1>8, <2>1 DEF FilesOK
<1>12. NotYet'
  BY <1>8 DEF NotYet
<1>13. InBounds'
  <2>1. ASSUME NEW f \in FileList PROVE taken'[f] <= size(f)
    BY <1>3, <1>4, <1>7
  <2>2. ASSUME merged' PROVE Unmerged' = {}
    <3>1. Unmerged = {n} /\ file_lens(n) = 1
      BY <2>2
    <3>2. file_lens(n)' = 0
      BY <1>2, <1>3, <1>7, <1>8, <3>1 DEF file_lens
    <3> QED
      BY <1>10, <3>1, <3>2 DEF Unmerged
  <2> QED
    BY <1>8, <2>1, <2>2 DEF InBounds
<1>14. Smallest'
  <2> SUFFICES ASSUME NEW f \in Unmerged', NEW i \in 1 .. L + 1
               PROVE  output'[i] <= cur_value(f)'
    BY <1>6 DEF Smallest
  <2>1. f \in Unmerged /\ f \in FileList
    BY <1>10 DEF Unmerged
  <2>2. v <= cur_value(f)'
    BY <1>1, <1>5, <1>9, <2>1
  <2>3. CASE i = L + 1
    BY <1>6, <2>2, <2>3
  <2>4. CASE i \in 1 .. L
    <3>1. output'[i] <= v
      BY <1>1, <1>6, <2>4 DEF MergeInv, Smallest
    <3>2. /\ output'[i] \in Int /\ v \in Int /\ cur_value(f)' \in Int
      <4>1. taken'[f] + 1 \in Nat \ {0}
        BY <1>7, <2>1
      <4>2. cur_value(f)' \in Ints
        BY <1>3, <1>8, <2>1, <4>1, LaterNotSmaller DEF cur_value
      <4> QED
        BY <1>5, <1>6, <2>4, <4>2, IntsBounded
    <3> QED
      BY <2>2, <3>1, <3>2
  <2> QED
    BY <1>6, <2>3, <2>4
<1>15. InOrder(output)'
  <2> SUFFICES ASSUME NEW i \in 1 .. L PROVE output'[i] <= output'[i + 1]
    BY <1>6 DEF InOrder
  <2>1. CASE i = L
    BY <1>1, <1>6, <2>1 DEF MergeInv, Smallest
  <2>2. CASE i # L
    <3>1. i \in 1 .. L - 1 /\ i + 1 \in 1 .. L
      BY <1>6, <2>2
    <3> QED
      BY <1>6, <3>1 DEF MergeInv, InOrder
  <2> QED
    BY <2>1, <2>2
<1>16. Merging'
  <2>1. PICK from \in [1 .. L -> FileList], at \in [1 .. L -> Nat] : Merge(from, at, taken)
    BY <1>6 DEF MergeInv, Merging
  <2>2. PICK from2, at2 :
           /\ from2 = [i \in 1 .. L + 1 |-> IF i = L + 1 THEN n ELSE from[i]]
           /\ at2 = [i \in 1 .. L + 1 |-> IF i = L + 1 THEN taken[n] + 1 ELSE at[i]]
    OBVIOUS
  <2>3. from2 \in [1 .. L + 1 -> FileList] /\ at2 \in [1 .. L + 1 -> Nat]
    BY <1>2, <1>4, <1>6, <2>1, <2>2
  <2>4. from2[L + 1] = n /\ at2[L + 1] = taken[n] + 1
    BY <1>6, <2>2
  <2>5. \A i \in 1 .. L : /\ from2[i] = from[i] /\ at2[i] = at[i]
                           /\ from[i] \in FileList /\ at[i] \in 1 .. taken[from[i]]
                           /\ output'[i] = Scanned(sorted[from[i]].nums, at[i], 0)
    <3> SUFFICES ASSUME NEW i \in 1 .. L
                 PROVE  /\ from2[i] = from[i] /\ at2[i] = at[i]
                        /\ from[i] \in FileList /\ at[i] \in 1 .. taken[from[i]]
                        /\ output'[i] = Scanned(sorted[from[i]].nums, at[i], 0)
      OBVIOUS
    <3>1. i \in 1 .. L + 1 /\ i # L + 1 /\ i \in DOMAIN output /\ output'[i] = output[i]
      BY <1>6
    <3>2. from2[i] = from[i] /\ at2[i] = at[i] /\ from[i] \in FileList
      BY <2>1, <2>2, <3>1
    <3>3. at[i] \in 1 .. taken[from[i]] /\ output[i] = Scanned(sorted[from[i]].nums, at[i], 0)
      BY <2>1, <3>1, Zenon DEF Merge
    <3> QED
      BY <3>1, <3>2, <3>3
  <2>6. 1 .. L + 1 = (1 .. L) \cup {L + 1}
    BY <1>6
  <2>7. ASSUME NEW i \in 1 .. L + 1, NEW j \in 1 .. L + 1, from2[i] = from2[j], at2[i] = at2[j]
        PROVE  i = j
    <3>1. CASE i \in 1 .. L /\ j \in 1 .. L
      <4>1. from[i] = from[j] /\ at[i] = at[j] /\ i \in DOMAIN output /\ j \in DOMAIN output
        BY <1>6, <2>5, <2>7, <3>1
      <4> QED
        BY <2>1, <4>1, Zenon DEF Merge
    <3>2. \A k \in 1 .. L : ~(from2[k] = n /\ at2[k] = taken[n] + 1)
      BY <1>2, <1>3, <2>5
    <3> QED
      BY <2>4, <2>6, <2>7, <3>1, <3>2
  <2>8. ASSUME NEW i \in 1 .. L + 1
        PROVE  /\ at2[i] \in 1 .. taken'[from2[i]]
               /\ output'[i] = Scanned(sorted'[from2[i]].nums, at2[i], 0)
    <3>1. CASE i = L + 1
      BY <1>4, <1>6, <1>7, <1>8, <2>4, <3>1 DEF cur_value
    <3>2. CASE i \in 1 .. L
      <4>1. at[i] \in 1 .. taken'[from[i]]
        BY <1>3, <1>7, <2>5, <3>2
      <4> QED
        BY <1>8, <2>5, <3>2, <4>1
    <3> QED
      BY <2>6, <3>1, <3>2
  <2>9. ASSUME NEW f \in FileList, NEW m \in 1 .. taken'[f]
        PROVE  \E i \in 1 .. L + 1 : from2[i] = f /\ at2[i] = m
    <3>1. CASE f = n /\ m = taken[n] + 1
      BY <2>4, <2>6, <3>1
    <3>2. CASE ~(f = n /\ m = taken[n] + 1)
      <4>1. m \in 1 .. taken[f]
        BY <1>3, <1>7, <3>2
      <4>2. PICK i \in 1 .. L : from[i] = f /\ at[i] = m
        BY <1>6, <2>1, <4>1 DEF Merge
      <4> QED
        BY <2>5, <2>6, <4>2
    <3> QED
      BY <3>1, <3>2
  <2>10. Merge(from2, at2, taken)'
    BY <1>6, <2>7, <2>8, <2>9 DEF Merge
  <2> QED
    BY <1>6, <2>3, <2>10 DEF Merging
<1> QED
  BY <1>11, <1>12, <1>13, <1>14, <1>15, <1>16 DEF MergeInv

LEMMA MergeInvStep == MergeInv /\ [MergeNext]_mainVars => MergeInv'
<1> SUFFICES ASSUME MergeInv, [MergeNext]_mainVars PROVE MergeInv'
  OBVIOUS
<1>1. CASE (CoroStep \/ CheckFiles) /\ UNCHANGED <<sorted, mergeVars>>
  BY <1>1, FilesAlone, PhaseForward
<1>2. CASE \E c \in Coros, file \in SortedFiles : StoreOutput(c, file)
  BY <1>2, StepStore
<1>3. CASE MergeStep
  <2>1. CASE Unmerged = {}
    <3>1. MergeCrash /\ UNCHANGED <<sorted, mergeVars>>
      BY <1>3, <2>1 DEF MergeStep
    <3> QED
      BY <3>1, FilesAlone, PhaseForward
  <2>2. CASE Unmerged # {}
    <3>1. PICK n, v, L : n = NextFile /\ v = cur_value(n) /\ L = Len(output)
      OBVIOUS
    <3>2. n \in Unmerged /\ \A g \in Unmerged : v <= cur_value(g)
      BY <2>2, <3>1, NextChosen DEF MergeInv
    <3>3. /\ phase = "merge" /\ output' = Append(output, v)
          /\ taken' = [taken EXCEPT ![n] = @ + 1]
          /\ merged' = (Unmerged = {n} /\ file_lens(n) = 1)
          /\ UNCHANGED sortVars /\ UNCHANGED sorted
      BY <1>3, <2>2, <3>1, Zenon DEF MergeStep
    <3> QED
      BY <3>1, <3>2, <3>3, StepMerge
  <2> QED
    BY <2>1, <2>2
<1>4. CASE UNCHANGED mainVars
  <2>1. UNCHANGED sortVars /\ UNCHANGED <<sorted, mergeVars>>
    BY <1>4 DEF mainVars
  <2> QED
    BY <2>1, FilesAlone, PhaseForward
<1> QED
  BY <1>1, <1>2, <1>3, <1>4 DEF MergeNext

(* The invariant of the merge. *)
THEOREM MergeInvariant == MergeSpec => []MergeInv
<1>1. Init /\ MergeInit => MergeInv
  BY InitMerge
<1>2. MergeInv /\ [MergeNext]_mainVars => MergeInv'
  BY MergeInvStep
<1> QED
  BY <1>1, <1>2, PTL DEF MergeSpec

(* Whatever files in order the sorts leave, the merge of main writes the   *)
(* numbers of all of them in order.                                        *)
THEOREM MergeKeepsOrder == MergeSpec => []OutputSorted
<1>1. MergeInv => OutputSorted
  <2> SUFFICES ASSUME MergeInv, NEW f \in FileList PROVE InOrder(sorted[f].nums)
    BY DEF OutputSorted, MergeInv
  <2>1. sorted[f] \in SortedFiles
    BY DEF MergeInv, FilesOK
  <2> QED
    BY <2>1, FileSize
<1> QED
  BY <1>1, MergeInvariant, PTL

(* When the merge ends, output.txt has each number of the sorted files     *)
(* once and no other, however their lengths differ.                        *)
THEOREM MergeLosesNothing == MergeSpec => []EachNumberOnce
<1>1. MergeInv => EachNumberOnce
  <2> SUFFICES ASSUME MergeInv, merged PROVE EachNumberOnce
    BY DEF EachNumberOnce
  <2> DEFINE size == [f \in FileList |-> count_numbers_in_file(sorted[f])]
  <2>1. ASSUME NEW f \in FileList PROVE taken[f] = size[f]
    <3>1. taken[f] \in Nat /\ sorted[f] \in SortedFiles /\ Unmerged = {}
      BY DEF MergeInv, FilesOK, InBounds
    <3>2. count_numbers_in_file(sorted[f]) \in Nat
      BY <3>1, FileSize
    <3> QED
      BY <3>1, <3>2 DEF Unmerged, file_lens
  <2>2. taken = size
    BY <2>1 DEF MergeInv, FilesOK
  <2> QED
    BY <2>2 DEF MergeInv, Merging, EachNumberOnce
<1> QED
  BY <1>1, MergeInvariant, PTL

(* Whatever the merge does in between, the coroutines behave as in part    *)
(* one, so that its theorems hold of the whole program.                    *)
THEOREM MainRunsCoroutines == MergeSpec => Spec
<1>1. [MergeNext]_mainVars => [Next]_sortVars
  <2> SUFFICES ASSUME [MergeNext]_mainVars PROVE [Next]_sortVars
    OBVIOUS
  <2>1. CASE CoroStep \/ CheckFiles
    BY <2>1 DEF Next
  <2>2. CASE \E c \in Coros, file \in SortedFiles : StoreOutput(c, file)
    BY <2>2 DEF StoreOutput, Next
  <2>3. CASE MergeStep
    BY <2>3 DEF MergeStep, Next
  <2>4. CASE UNCHANGED mainVars
    BY <2>4 DEF mainVars
  <2> QED
    BY <2>1, <2>2, <2>3, <2>4 DEF MergeNext
<1> QED
  BY <1>1, PTL DEF MergeSpec, Spec
=============================================================================
