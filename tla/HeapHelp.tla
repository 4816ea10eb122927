------------------------------ MODULE HeapHelp ------------------------------
(***************************************************************************)
(* utils/heap_help/heap_help.c: the wrappers around the allocator that     *)
(* count the blocks in use, set up by whichever thread allocates first.    *)
(*                                                                         *)
(* A step is one atomic operation of a thread, or one call of the library  *)
(* behind the wrappers.  malloc, calloc and realloc(NULL) differ only in   *)
(* what the library does with the block; strdup, and getline with no       *)
(* buffer, make the library call malloc, which is the wrapper again when   *)
(* the library leaves its own calls open to replacement (as glibc does).   *)
(***************************************************************************)
EXTENDS Integers, FiniteSets

CONSTANTS
  Threads,
  Blocks,       \* what the library can allocate
  NULL,
  NESTED,       \* the library calls malloc through the wrapper
  MaxDrift      \* bound: calls that leave the counter off are made below it

ASSUME HeapAssumption ==
  /\ IsFiniteSet(Threads) /\ IsFiniteSet(Blocks) /\ NULL \notin Blocks
  /\ MaxDrift \in Nat /\ NESTED \in BOOLEAN

VARIABLES
  alloc_count, global_lock, is_done,
  drift,        \* how much the counter is ahead of the blocks: realloc(ptr, 0) has
                \* freed one, or a malloc inside strdup or getline has counted it
  ready,        \* heaph_init has found the library's functions
  block,        \* "free"; "new" (allocated, not counted); "held" by the program;
                \* "passed" to free; "dying" (no longer counted)
  pc, op, ptr,  \* of each thread: its next step, the call it is in, the block
  old,          \* it found is_done set when it had initialised
  outcome       \* "run", "abort" (an assertion), "exit" (Double-free detected)

heapVars == <<alloc_count, drift, block, ptr>>
initVars == <<global_lock, is_done, ready, old>>
allVars  == <<heapVars, initVars, pc, op, outcome>>

Steps == {"idle", "touch", "lock", "init", "done", "unlock", "call", "count", "recount",
          "free"}

(* Type invariant; the counter stays between 0 and what there is to count. *)
TypeOK ==
  /\ drift \in 0 .. MaxDrift + Cardinality(Threads)
  /\ alloc_count \in 0 .. Cardinality(Blocks) + drift
  /\ global_lock \in BOOLEAN /\ is_done \in BOOLEAN
  /\ ready \in BOOLEAN /\ old \in [Threads -> BOOLEAN]
  /\ block \in [Blocks -> {"free", "new", "held", "passed", "dying"}]
  /\ pc \in [Threads -> Steps]
  /\ op \in [Threads -> {"alloc", "dup", "realloc", "free"}]
  /\ ptr \in [Threads -> Blocks \cup {NULL}]
  /\ outcome \in {"run", "abort", "exit"}

Init ==
  /\ alloc_count = 0 /\ drift = 0 /\ global_lock = FALSE /\ is_done = FALSE /\ ready = FALSE
  /\ block = [b \in Blocks |-> "free"]
  /\ pc = [t \in Threads |-> "idle"] /\ op = [t \in Threads |-> "alloc"]
  /\ ptr = [t \in Threads |-> NULL] /\ old = [t \in Threads |-> FALSE]
  /\ outcome = "run"

At(t, step) == outcome = "run" /\ pc[t] = step
Goto(t, step) == pc' = [pc EXCEPT ![t] = step]

-----------------------------------------------------------------------------
(* A call of the program.  It passes only blocks it holds, and hands a     *)
(* block to one call at a time.                                            *)
CallAlloc(t, f) ==
  /\ At(t, "idle") /\ (f = "dup" => drift < MaxDrift) /\ Goto(t, "touch")
  /\ op' = [op EXCEPT ![t] = f] /\ ptr' = [ptr EXCEPT ![t] = NULL]
  /\ UNCHANGED <<alloc_count, drift, block, initVars, outcome>>

InUse(b) == \E t \in Threads : pc[t] # "idle" /\ ptr[t] = b

CallWith(t, f, b) ==
  /\ At(t, "idle") /\ block[b] = "held" /\ ~InUse(b) /\ Goto(t, "touch")
  /\ op' = [op EXCEPT ![t] = f] /\ ptr' = [ptr EXCEPT ![t] = b]
  /\ block' = IF f = "free" THEN [block EXCEPT ![b] = "passed"] ELSE block
  /\ UNCHANGED <<alloc_count, drift, initVars, outcome>>

-----------------------------------------------------------------------------
(* heaph_touch *)

Touch(t) ==
  /\ At(t, "touch")
  /\ Goto(t, IF is_done THEN "call" ELSE "lock")
  /\ UNCHANGED <<heapVars, initVars, op, outcome>>

(* heaph_lock: it spins while the lock is set. *)
Lock(t) ==
  /\ At(t, "lock") /\ ~global_lock
  /\ global_lock' = TRUE /\ Goto(t, "init")
  /\ UNCHANGED <<heapVars, is_done, ready, old, op, outcome>>

(* Mutant: is_done is set before the functions are found. *)
InitLate(t) ==
  /\ At(t, "init") /\ is_done' = TRUE /\ old' = [old EXCEPT ![t] = is_done]
  /\ Goto(t, "done")
  /\ UNCHANGED <<heapVars, global_lock, ready, op, outcome>>

(* heaph_init *)
HeaphInit(t) ==
  /\ At(t, "init") /\ ready' = TRUE /\ Goto(t, "done")
  /\ UNCHANGED <<heapVars, global_lock, is_done, old, op, outcome>>

SetDone(t) ==
  /\ At(t, "done")
  /\ is_done' = TRUE /\ old' = [old EXCEPT ![t] = is_done] /\ Goto(t, "unlock")
  /\ UNCHANGED <<heapVars, global_lock, ready, op, outcome>>

(* Mutant: the lock is kept. *)
UnlockNot(t) ==
  /\ At(t, "unlock") /\ Goto(t, "call")
  /\ UNCHANGED <<heapVars, initVars, op, outcome>>

(* heaph_unlock, and the assertion that nobody else has initialised. *)
Unlock(t) ==
  /\ At(t, "unlock") /\ global_lock' = FALSE
  /\ IF global_lock /\ ~old[t] THEN Goto(t, "call") /\ UNCHANGED outcome
                               ELSE outcome' = "abort" /\ UNCHANGED pc
  /\ UNCHANGED <<heapVars, is_done, ready, old, op>>

-----------------------------------------------------------------------------
(* The wrappers *)

(* The library has no memory, or allocates b. *)
Allocate(t) ==
  /\ At(t, "call") /\ op[t] \in {"alloc", "dup"}
  /\ \/ Goto(t, "idle") /\ UNCHANGED <<block, ptr>>
     \/ \E b \in Blocks :
          /\ block[b] = "free" /\ block' = [block EXCEPT ![b] = "new"]
          /\ ptr' = [ptr EXCEPT ![t] = b] /\ Goto(t, "count")
  /\ UNCHANGED <<alloc_count, drift, initVars, op, outcome>>

(* Mutant: the count is read and written in two steps, and one is lost. *)
CountRacy(t) ==
  /\ At(t, "count") /\ Goto(t, "idle")
  /\ block' = [block EXCEPT ![ptr[t]] = "held"]
  /\ alloc_count' = IF \E u \in Threads \ {t} : pc[u] = "count" THEN alloc_count
                    ELSE alloc_count + 1
  /\ UNCHANGED <<drift, ptr, initVars, op, outcome>>

(* alloc_count_inc, and the call returns the block; a malloc inside strdup *)
(* or getline returns it to a wrapper that counts once more.               *)
CountBlock(t) ==
  /\ At(t, "count") /\ Goto(t, IF op[t] = "dup" /\ NESTED THEN "recount" ELSE "idle")
  /\ block' = [block EXCEPT ![ptr[t]] = "held"]
  /\ alloc_count' = alloc_count + 1
  /\ UNCHANGED <<drift, ptr, initVars, op, outcome>>

Recount(t) ==
  /\ At(t, "recount") /\ Goto(t, "idle")
  /\ alloc_count' = alloc_count + 1 /\ drift' = drift + 1
  /\ UNCHANGED <<block, ptr, initVars, op, outcome>>

(* realloc of a block leaves the count alone, whatever the library does:   *)
(* it keeps the block or moves it, has no memory, or frees it for size 0.  *)
Reallocate(t) ==
  /\ At(t, "call") /\ op[t] = "realloc" /\ Goto(t, "idle")
  /\ \/ UNCHANGED <<block, drift>>
     \/ /\ drift < MaxDrift /\ drift' = drift + 1
        /\ block' = [block EXCEPT ![ptr[t]] = "free"]
  /\ UNCHANGED <<alloc_count, ptr, initVars, op, outcome>>

(* Mutant: free does not count the block out. *)
UncountNot(t) ==
  /\ At(t, "call") /\ op[t] = "free"
  /\ block' = [block EXCEPT ![ptr[t]] = "dying"]
  /\ Goto(t, "free")
  /\ UNCHANGED <<alloc_count, drift, ptr, initVars, op, outcome>>

(* alloc_count_sub *)
Uncount(t) ==
  /\ At(t, "call") /\ op[t] = "free"
  /\ alloc_count' = alloc_count - 1
  /\ block' = [block EXCEPT ![ptr[t]] = "dying"]
  /\ IF alloc_count' >= 0 THEN Goto(t, "free") /\ UNCHANGED outcome
                          ELSE outcome' = "exit" /\ UNCHANGED pc
  /\ UNCHANGED <<drift, ptr, initVars, op>>

Free(t) ==
  /\ At(t, "free") /\ Goto(t, "idle")
  /\ block' = [block EXCEPT ![ptr[t]] = "free"]
  /\ UNCHANGED <<alloc_count, drift, ptr, initVars, op, outcome>>

Proceed(t) ==
  \/ Touch(t) \/ Lock(t) \/ HeaphInit(t) \/ SetDone(t) \/ Unlock(t)
  \/ Allocate(t) \/ CountBlock(t) \/ Recount(t) \/ Reallocate(t) \/ Uncount(t) \/ Free(t)

Next == \E t \in Threads : \/ (\E f \in {"alloc", "dup"} : CallAlloc(t, f)) \/ Proceed(t)
                           \/ \E b \in Blocks, f \in {"realloc", "free"} : CallWith(t, f, b)

(* A thread in a call is scheduled.  Weak fairness is enough for the spin  *)
(* lock: is_done is set by its first holder, so each thread takes it once. *)
Spec == Init /\ [][Next]_allVars /\ \A t \in Threads : WF_allVars(Proceed(t))

-----------------------------------------------------------------------------
(* The count is exact at every moment, not only at exit: it is the number  *)
(* of blocks that the program holds or has passed to a free that has not   *)
(* counted them out, and the drift.  So the leaks that heaph_atexit        *)
(* reports are real, but for realloc(ptr, 0) and for strdup and getline    *)
(* over a library whose malloc is the wrapper.                             *)
CountExact ==
  alloc_count = drift + Cardinality({b \in Blocks : block[b] \in {"held", "passed"}})

(* A program that frees each block once is never told "Double-free         *)
(* detected", whatever other threads allocate and free meanwhile.          *)
NoFalseDoubleFree == outcome # "exit"

(* No wrapper calls through a function pointer that is still NULL, and the *)
(* pointers are set by one thread at a time.                               *)
PointersReady ==
  /\ \A t \in Threads : pc[t] \in {"call", "count", "recount", "free"} => ready
  /\ \A t, u \in Threads : pc[t] \in {"init", "done", "unlock"}
                           /\ pc[u] \in {"init", "done", "unlock"} => t = u

(* Every call returns, unless the process ends. *)
CallsReturn == \A t \in Threads : pc[t] # "idle" ~> (pc[t] = "idle" \/ outcome # "run")

(* The assertions of heaph_touch and heaph_unlock hold. *)
NoAssertFails == outcome # "abort"
=============================================================================
