--------------------------- MODULE HeapHelpProofs ---------------------------
(***************************************************************************)
(* Proofs about the leak counter.                                          *)
(*                                                                         *)
(* The count is exact, and "Double-free detected" is never printed to a    *)
(* program that frees each block once, for any number of threads and of    *)
(* blocks.  Neither is inductive: whether alloc_count_sub may go below     *)
(* zero depends on what has become of the block since the call was made.   *)
(* So the invariant says what state the block of each call is in           *)
(* (CallBlocks) and that no two calls have the same one (OwnBlock).  The   *)
(* initialisation needs the lock (InitGuard), the bound of the counter the *)
(* calls of strdup and getline that may still count twice (DriftBound).    *)
(***************************************************************************)
EXTENDS HeapHelp, FiniteSetTheorems, TLAPS

Inside == {"init", "done", "unlock"}

(* A thread that initialises holds the lock, alone, and the functions are  *)
(* found before is_done or the caller says so.                             *)
InitGuard ==
  /\ \A t \in Threads : outcome = "run" /\ pc[t] \in Inside => global_lock
  /\ \A t, u \in Threads : pc[t] \in Inside /\ pc[u] \in Inside => t = u
  /\ is_done => ready
  /\ \A t \in Threads :
       pc[t] \in {"done", "unlock", "call", "count", "recount", "free"} => ready

BeforeCall == {"touch", "lock", "init", "done", "unlock", "call"}

(* What has become of the block of a call at each of its steps. *)
CallBlocks ==
  \A t \in Threads :
    /\ op[t] \in {"alloc", "dup"} /\ pc[t] \in BeforeCall => ptr[t] = NULL
    /\ op[t] = "realloc" /\ pc[t] \in BeforeCall => ptr[t] # NULL /\ block[ptr[t]] = "held"
    /\ op[t] = "free" /\ pc[t] \in BeforeCall => ptr[t] # NULL /\ block[ptr[t]] = "passed"
    /\ pc[t] = "count" => ptr[t] # NULL /\ block[ptr[t]] = "new"
    /\ pc[t] = "recount" => op[t] = "dup" /\ ptr[t] # NULL /\ block[ptr[t]] = "held"
    /\ pc[t] = "free" => ptr[t] # NULL /\ block[ptr[t]] = "dying"

(* No two calls have the same block. *)
OwnBlock ==
  \A t, u \in Threads :
    pc[t] # "idle" /\ pc[u] # "idle" /\ ptr[t] = ptr[u] /\ ptr[t] # NULL => t = u

Doubling == {t \in Threads : pc[t] # "idle" /\ op[t] = "dup"}

(* The drift stays in its bound, whatever the calls in progress add. *)
DriftBound == drift + Cardinality(Doubling) <= MaxDrift + Cardinality(Threads)

(* The types without the bounds of the counters. *)
Types ==
  /\ drift \in Nat /\ alloc_count \in Int
  /\ global_lock \in BOOLEAN /\ is_done \in BOOLEAN
  /\ ready \in BOOLEAN /\ old \in [Threads -> BOOLEAN]
  /\ block \in [Blocks -> {"free", "new", "held", "passed", "dying"}]
  /\ pc \in [Threads -> Steps]
  /\ op \in [Threads -> {"alloc", "dup", "realloc", "free"}]
  /\ ptr \in [Threads -> Blocks \cup {NULL}]
  /\ outcome \in {"run", "abort", "exit"}

(* The inductive invariant. *)
HeapInv == Types /\ InitGuard /\ CallBlocks /\ OwnBlock /\ DriftBound /\ CountExact
           /\ NoFalseDoubleFree

Counted == {b \in Blocks : block[b] \in {"held", "passed"}}

(* Cardinalities are taken of finite sets only. *)
LEMMA Finite ==
  /\ IsFiniteSet(Counted) /\ Cardinality(Counted) \in Nat
  /\ Cardinality(Counted) <= Cardinality(Blocks) /\ Cardinality(Blocks) \in Nat
  /\ IsFiniteSet(Doubling) /\ Cardinality(Doubling) \in Nat
  /\ Cardinality(Doubling) <= Cardinality(Threads) /\ Cardinality(Threads) \in Nat
<1>1. Counted \subseteq Blocks /\ Doubling \subseteq Threads
  BY DEF Counted, Doubling
<1>2. /\ IsFiniteSet(Counted) /\ Cardinality(Counted) <= Cardinality(Blocks)
      /\ IsFiniteSet(Doubling) /\ Cardinality(Doubling) <= Cardinality(Threads)
  BY <1>1, HeapAssumption, FS_Subset
<1> QED
  BY <1>2, HeapAssumption, FS_CardinalityType

(* Nothing is allocated or set up before the first call. *)
LEMMA InitHeap == Init => HeapInv
<1> SUFFICES ASSUME Init PROVE HeapInv
  OBVIOUS
<1>1. Types
  <2>1. old \in [Threads -> BOOLEAN] /\ ready \in BOOLEAN /\ is_done \in BOOLEAN
        /\ global_lock \in BOOLEAN
    BY DEF Init
  <2> QED
    BY <2>1 DEF Init, Types, Steps
<1>2. InitGuard /\ CallBlocks /\ OwnBlock /\ NoFalseDoubleFree
  BY DEF Init, InitGuard, CallBlocks, OwnBlock, NoFalseDoubleFree, Inside, BeforeCall
<1>3. Doubling = {} /\ Counted = {}
  BY DEF Init, Doubling, Counted
<1>4. DriftBound
  BY <1>3, FS_EmptySet, Finite, HeapAssumption DEF Init, DriftBound
<1>5. CountExact
  BY <1>3, FS_EmptySet DEF Init, CountExact, Counted
<1> QED
  BY <1>1, <1>2, <1>4, <1>5 DEF HeapInv

(* A call that ends, or goes on, adds nothing to the calls that may double. *)
LEMMA DoublingShrinks ==
  ASSUME Types, NEW t \in Threads, UNCHANGED <<op, drift>>, DriftBound,
         pc[t] # "idle", NEW step, Goto(t, step) \/ UNCHANGED pc
  PROVE  DriftBound'
<1>1. Doubling' \subseteq Doubling
  BY DEF Doubling, Types, Goto
<1>2. Cardinality(Doubling') <= Cardinality(Doubling) /\ Cardinality(Doubling') \in Nat
  BY <1>1, Finite, FS_Subset, FS_CardinalityType
<1> QED
  BY <1>2, Finite, HeapAssumption DEF DriftBound, Types

(* A call of an allocating function preserves the invariant. *)
LEMMA StepCallAlloc ==
  ASSUME HeapInv, NEW t \in Threads, NEW f \in {"alloc", "dup"}, CallAlloc(t, f)
  PROVE  HeapInv'
<1> USE DEF HeapInv, CallAlloc, At, Goto, initVars
<1>1. Types'
  BY DEF Types, Steps
<1>2. InitGuard'
  BY DEF InitGuard, Types, Inside
<1>3. CallBlocks' /\ OwnBlock'
  BY DEF CallBlocks, OwnBlock, Types, BeforeCall
<1>4. CountExact' /\ NoFalseDoubleFree'
  BY DEF CountExact, NoFalseDoubleFree
<1>5. DriftBound'
  <2>1. CASE f = "dup"
    <3>1. Cardinality(Doubling') <= Cardinality(Threads) /\ Cardinality(Doubling') \in Nat
      <4>1. Doubling' \subseteq Threads
        BY DEF Doubling
      <4> QED
        BY <4>1, HeapAssumption, FS_Subset, FS_CardinalityType
    <3> QED
      BY <2>1, <3>1, HeapAssumption, Finite DEF DriftBound, Types
  <2>2. CASE f # "dup"
    <3>1. Doubling' = Doubling
      BY <2>2 DEF Doubling, Types
    <3> QED
      BY <3>1 DEF DriftBound
  <2> QED
    BY <2>1, <2>2
<1> QED
  BY <1>1, <1>2, <1>3, <1>4, <1>5

(* So does a call of realloc or free with a block that no other call has. *)
LEMMA StepCallWith ==
  ASSUME HeapInv, NEW t \in Threads, NEW b \in Blocks, NEW f \in {"realloc", "free"},
         CallWith(t, f, b)
  PROVE  HeapInv'
<1> USE HeapAssumption
<1> USE DEF HeapInv, CallWith, At, Goto, initVars
<1>1. Types'
  BY DEF Types, Steps
<1>2. InitGuard'
  BY DEF InitGuard, Types, Inside
<1>3. CallBlocks'
  BY DEF CallBlocks, InUse, Types, BeforeCall, Steps
<1>4. OwnBlock'
  BY DEF OwnBlock, InUse, Types
<1>5. Doubling' = Doubling
  BY DEF Doubling, Types
<1>6. Counted' = Counted
  BY DEF Counted, Types
<1>7. CountExact' /\ NoFalseDoubleFree' /\ DriftBound'
  BY <1>5, <1>6 DEF CountExact, NoFalseDoubleFree, DriftBound, Counted
<1> QED
  BY <1>1, <1>2, <1>3, <1>4, <1>7

(* So does each step of heaph_touch and of the lock it takes. *)
LEMMA StepTouch ==
  ASSUME HeapInv, NEW t \in Threads,
         Touch(t) \/ Lock(t) \/ HeaphInit(t) \/ SetDone(t) \/ Unlock(t)
  PROVE  HeapInv'
<1> USE DEF HeapInv, At, Goto, heapVars, initVars
<1>1. UNCHANGED <<heapVars, op>> /\ NoFalseDoubleFree'
  BY DEF Touch, Lock, HeaphInit, SetDone, Unlock, NoFalseDoubleFree
<1>2. PICK step \in BeforeCall : Goto(t, step) \/ (UNCHANGED pc /\ pc[t] \in BeforeCall)
  BY DEF Touch, Lock, HeaphInit, SetDone, Unlock, BeforeCall
<1>3. pc[t] \in BeforeCall
  BY DEF Touch, Lock, HeaphInit, SetDone, Unlock, BeforeCall
<1>4. Types'
  <2>1. old' \in [Threads -> BOOLEAN]
    BY DEF Types, Touch, Lock, HeaphInit, SetDone, Unlock
  <2>2. pc' \in [Threads -> Steps]
    BY <1>2 DEF Types, BeforeCall, Steps
  <2>3. global_lock' \in BOOLEAN /\ is_done' \in BOOLEAN /\ ready' \in BOOLEAN
    BY DEF Types, Touch, Lock, HeaphInit, SetDone, Unlock
  <2>4. outcome' \in {"run", "abort", "exit"}
    BY DEF Types, Touch, Lock, HeaphInit, SetDone, Unlock
  <2> QED
    BY <1>1, <2>1, <2>2, <2>3, <2>4 DEF Types
<1>5. CallBlocks' /\ OwnBlock'
  BY <1>1, <1>2, <1>3 DEF CallBlocks, OwnBlock, BeforeCall, Types
<1>6. DriftBound'
  BY <1>1, <1>2, <1>3, DoublingShrinks DEF BeforeCall
<1>7. CountExact'
  BY <1>1 DEF CountExact
<1>8. InitGuard'
  <2>1. CASE Touch(t)
    BY <2>1 DEF Touch, InitGuard, Types, Inside
  <2>2. CASE Lock(t)
    BY <2>2 DEF Lock, InitGuard, Types, Inside
  <2>3. CASE HeaphInit(t)
    BY <2>3 DEF HeaphInit, InitGuard, Types, Inside
  <2>4. CASE SetDone(t)
    BY <2>4 DEF SetDone, InitGuard, Types, Inside
  <2>5. CASE Unlock(t)
    BY <2>5 DEF Unlock, InitGuard, Types, Inside
  <2> QED
    BY <2>1, <2>2, <2>3, <2>4, <2>5
<1> QED
  BY <1>1, <1>4, <1>5, <1>6, <1>7, <1>8

(* A block that is no longer counted takes one away, *)
LEMMA CountedLess ==
  ASSUME Types, NEW b \in Blocks, NEW to \in {"free", "new", "dying"}, b \in Counted,
         block' = [block EXCEPT ![b] = to]
  PROVE  Cardinality(Counted') = Cardinality(Counted) - 1
<1>1. Counted' = Counted \ {b}
  BY DEF Counted, Types
<1> QED
  BY <1>1, Finite, FS_RemoveElement

(* one that is now counted adds one, *)
LEMMA CountedMore ==
  ASSUME Types, NEW b \in Blocks, NEW to \in {"held", "passed"}, b \notin Counted,
         block' = [block EXCEPT ![b] = to]
  PROVE  Cardinality(Counted') = Cardinality(Counted) + 1
<1>1. Counted' = Counted \cup {b}
  BY DEF Counted, Types
<1> QED
  BY <1>1, Finite, FS_AddElement

(* and one that is counted neither before nor after makes no difference. *)
LEMMA CountedSame ==
  ASSUME Types, NEW b \in Blocks, NEW to \in {"free", "new", "dying"}, b \notin Counted,
         block' = [block EXCEPT ![b] = to]
  PROVE  Counted' = Counted
BY DEF Counted, Types

(* The library has no memory or gives a block that no call has. *)
LEMMA StepAllocate ==
  ASSUME HeapInv, NEW t \in Threads, Allocate(t)
  PROVE  HeapInv'
<1> USE HeapAssumption
<1> USE DEF HeapInv, Allocate, At, Goto, initVars
<1>1. InitGuard' /\ NoFalseDoubleFree'
  BY DEF InitGuard, Types, Inside, NoFalseDoubleFree
<1>2. DriftBound'
  BY DoublingShrinks
<1>3. CASE Goto(t, "idle") /\ UNCHANGED <<block, ptr>>
  <2>1. Types'
    BY <1>3 DEF Types, Steps
  <2>2. CallBlocks' /\ OwnBlock'
    BY <1>3 DEF CallBlocks, OwnBlock, BeforeCall, Types
  <2>3. CountExact'
    BY <1>3 DEF CountExact
  <2> QED
    BY <1>1, <1>2, <2>1, <2>2, <2>3
<1>4. ASSUME NEW b \in Blocks, block[b] = "free", block' = [block EXCEPT ![b] = "new"],
             ptr' = [ptr EXCEPT ![t] = b], Goto(t, "count")
      PROVE  HeapInv'
  <2>1. Types'
    BY <1>4 DEF Types, Steps
  <2>2. \A u \in Threads : pc[u] # "idle" => ptr[u] # b
    BY <1>4 DEF CallBlocks, BeforeCall, Types, Steps
  <2>3. OwnBlock'
    BY <1>4, <2>2 DEF OwnBlock, Types
  <2>4. CallBlocks'
    BY <1>4, <2>2 DEF CallBlocks, BeforeCall, Types
  <2>5. CountExact'
    <3>1. b \notin Counted
      BY <1>4 DEF Counted
    <3>2. Counted' = Counted
      BY <1>4, <3>1, CountedSame
    <3> QED
      BY <3>2 DEF CountExact, Counted
  <2> QED
    BY <1>1, <1>2, <2>1, <2>3, <2>4, <2>5
<1> QED
  BY <1>3, <1>4

(* The counter is incremented when the block becomes the program's. *)
LEMMA StepCount ==
  ASSUME HeapInv, NEW t \in Threads, CountBlock(t)
  PROVE  HeapInv'
<1> USE HeapAssumption
<1> USE DEF HeapInv, CountBlock, At, Goto, initVars
<1>0. ptr[t] \in Blocks /\ block[ptr[t]] = "new"
  BY DEF CallBlocks, Types
<1>1. InitGuard' /\ NoFalseDoubleFree'
  BY DEF InitGuard, Types, Inside, NoFalseDoubleFree
<1>2. DriftBound'
  BY DoublingShrinks
<1>3. Types'
  BY <1>0 DEF Types, Steps
<1>4. OwnBlock'
  BY DEF OwnBlock, Types
<1>5. CallBlocks'
  BY <1>0 DEF CallBlocks, OwnBlock, BeforeCall, Types, Steps
<1>6. CountExact'
  <2>1. ptr[t] \notin Counted
    BY <1>0 DEF Counted
  <2>2. Cardinality(Counted') = Cardinality(Counted) + 1
    BY <1>0, <2>1, CountedMore
  <2> QED
    BY <2>2, Finite DEF CountExact, Counted, Types
<1> QED
  BY <1>1, <1>2, <1>3, <1>4, <1>5, <1>6

(* The second count of strdup and getline is drift. *)
LEMMA StepRecount ==
  ASSUME HeapInv, NEW t \in Threads, Recount(t)
  PROVE  HeapInv'
<1> USE HeapAssumption
<1> USE DEF HeapInv, Recount, At, Goto, initVars
<1>1. InitGuard' /\ NoFalseDoubleFree'
  BY DEF InitGuard, Types, Inside, NoFalseDoubleFree
<1>2. Types'
  BY DEF Types, Steps
<1>3. OwnBlock' /\ CallBlocks'
  BY DEF OwnBlock, CallBlocks, BeforeCall, Types, Steps
<1>4. CountExact'
  <2>1. Counted' = Counted
    BY DEF Counted
  <2> QED
    BY <2>1, Finite DEF CountExact, Counted, Types
<1>5. DriftBound'
  <2>1. Doubling' = Doubling \ {t} /\ t \in Doubling
    BY DEF Doubling, CallBlocks, Types
  <2>2. Cardinality(Doubling') = Cardinality(Doubling) - 1
    BY <2>1, Finite, FS_RemoveElement
  <2> QED
    BY <2>2, Finite DEF DriftBound, Types
<1> QED
  BY <1>1, <1>2, <1>3, <1>4, <1>5

(* realloc keeps the block, or frees it and leaves the count one ahead. *)
LEMMA StepReallocate ==
  ASSUME HeapInv, NEW t \in Threads, Reallocate(t)
  PROVE  HeapInv'
<1> USE HeapAssumption
<1> USE DEF HeapInv, Reallocate, At, Goto, initVars
<1>0. ptr[t] \in Blocks /\ block[ptr[t]] = "held"
  BY DEF CallBlocks, BeforeCall, Types
<1>1. InitGuard' /\ NoFalseDoubleFree'
  BY DEF InitGuard, Types, Inside, NoFalseDoubleFree
<1>2. Types'
  BY <1>0 DEF Types, Steps
<1>3. OwnBlock'
  BY DEF OwnBlock, Types
<1>4. CallBlocks'
  BY <1>0 DEF CallBlocks, OwnBlock, BeforeCall, Types, Steps
<1>5. CASE UNCHANGED <<block, drift>>
  <2>1. CountExact'
    BY <1>5 DEF CountExact
  <2>2. DriftBound'
    BY <1>5, DoublingShrinks
  <2> QED
    BY <1>1, <1>2, <1>3, <1>4, <2>1, <2>2
<1>6. CASE drift < MaxDrift /\ drift' = drift + 1 /\ block' = [block EXCEPT ![ptr[t]] = "free"]
  <2>0. ptr[t] \in Counted
    BY <1>0 DEF Counted
  <2>1. Cardinality(Counted') = Cardinality(Counted) - 1
    BY <1>0, <1>6, <2>0, CountedLess
  <2>2. CountExact'
    BY <1>6, <2>1, Finite DEF CountExact, Counted, Types
  <2>3. Cardinality(Doubling') <= Cardinality(Threads) /\ Cardinality(Doubling') \in Nat
    <3>1. Doubling' \subseteq Threads
      BY DEF Doubling
    <3> QED
      BY <3>1, FS_Subset, FS_CardinalityType
  <2>4. DriftBound'
    BY <1>6, <2>3, Finite DEF DriftBound, Types
  <2> QED
    BY <1>1, <1>2, <1>3, <1>4, <2>2, <2>4
<1> QED
  BY <1>5, <1>6

(* free counts out a block that is counted: the counter stays at or above  *)
(* zero.                                                                   *)
LEMMA StepUncount ==
  ASSUME HeapInv, NEW t \in Threads, Uncount(t)
  PROVE  HeapInv'
<1> USE HeapAssumption
<1> USE DEF HeapInv, Uncount, At, Goto, initVars
<1>0. ptr[t] \in Blocks /\ block[ptr[t]] = "passed"
  BY DEF CallBlocks, BeforeCall, Types
<1>1. Cardinality(Counted') = Cardinality(Counted) - 1 /\ Cardinality(Counted) >= 1
  <2>1. ptr[t] \in Counted
    BY <1>0 DEF Counted
  <2>2. Cardinality(Counted') = Cardinality(Counted) - 1
    BY <1>0, <2>1, CountedLess
  <2>3. Cardinality(Counted) # 0
    BY <2>1, Finite, FS_EmptySet
  <2> QED
    BY <2>2, <2>3, Finite
<1>2. alloc_count' >= 0
  BY <1>1, Finite DEF CountExact, Counted, Types
<1>3. InitGuard' /\ NoFalseDoubleFree'
  BY <1>2 DEF InitGuard, Types, Inside, NoFalseDoubleFree
<1>4. Types'
  <2>1. pc' = [pc EXCEPT ![t] = "free"] /\ outcome' = outcome
    BY <1>2
  <2>2. alloc_count' \in Int
    BY DEF Types
  <2>3. block' \in [Blocks -> {"free", "new", "held", "passed", "dying"}]
    BY DEF Types
  <2> QED
    BY <2>1, <2>2, <2>3 DEF Types, Steps
<1>5. OwnBlock'
  BY <1>2 DEF OwnBlock, Types
<1>6. CallBlocks'
  BY <1>0, <1>2 DEF CallBlocks, OwnBlock, BeforeCall, Types, Steps
<1>7. CountExact'
  BY <1>1, Finite DEF CountExact, Counted, Types
<1>8. DriftBound'
  BY DoublingShrinks
<1> QED
  BY <1>3, <1>4, <1>5, <1>6, <1>7, <1>8

(* The library takes the block back after the wrapper has counted it out. *)
LEMMA StepFree ==
  ASSUME HeapInv, NEW t \in Threads, Free(t)
  PROVE  HeapInv'
<1> USE HeapAssumption
<1> USE DEF HeapInv, Free, At, Goto, initVars
<1>0. ptr[t] \in Blocks /\ block[ptr[t]] = "dying"
  BY DEF CallBlocks, BeforeCall, Types
<1>1. InitGuard' /\ NoFalseDoubleFree'
  BY DEF InitGuard, Types, Inside, NoFalseDoubleFree
<1>2. Types'
  BY <1>0 DEF Types, Steps
<1>3. OwnBlock'
  BY DEF OwnBlock, Types
<1>4. CallBlocks'
  BY <1>0 DEF CallBlocks, OwnBlock, BeforeCall, Types, Steps
<1>5. CountExact'
  <2>1. ptr[t] \notin Counted
    BY <1>0 DEF Counted
  <2>2. Counted' = Counted
    BY <1>0, <2>1, CountedSame
  <2> QED
    BY <2>2 DEF CountExact, Counted
<1>6. DriftBound'
  BY DoublingShrinks
<1> QED
  BY <1>1, <1>2, <1>3, <1>4, <1>5, <1>6

(* The invariant holds in every state of every behaviour, for any number   *)
(* of threads and blocks.                                                  *)
THEOREM HeapInvariant == Spec => []HeapInv
<1>1. HeapInv /\ [Next]_allVars => HeapInv'
  <2> SUFFICES ASSUME HeapInv, [Next]_allVars PROVE HeapInv'
    OBVIOUS
  <2>1. CASE Next
    BY <2>1, StepCallAlloc, StepCallWith, StepTouch, StepAllocate, StepCount, StepRecount,
       StepReallocate, StepUncount, StepFree DEF Next, Proceed
  <2>2. CASE UNCHANGED allVars
    <3>1. Types' /\ InitGuard' /\ CallBlocks' /\ OwnBlock'
      BY <2>2 DEF HeapInv, Types, InitGuard, CallBlocks, OwnBlock, allVars, heapVars, initVars
    <3>2. DriftBound' /\ CountExact' /\ NoFalseDoubleFree'
      BY <2>2 DEF HeapInv, DriftBound, Doubling, CountExact, NoFalseDoubleFree, allVars,
         heapVars, initVars
    <3> QED
      BY <3>1, <3>2 DEF HeapInv
  <2> QED
    BY <2>1, <2>2
<1> QED
  BY InitHeap, <1>1, PTL DEF Spec

(* alloc_count is, at every moment, the number of blocks the program holds *)
(* or has passed to a free that has not counted them out, and the drift:   *)
(* what heaph_atexit reports is never off for another reason.              *)
THEOREM CountNeverDrifts == Spec => []CountExact
<1>1. HeapInv => CountExact
  BY DEF HeapInv
<1> QED
  BY <1>1, HeapInvariant, PTL

(* However many threads allocate and free, a program that frees each block *)
(* once never meets the exit of alloc_count_sub.                           *)
THEOREM FreeNeverExits == Spec => []NoFalseDoubleFree
<1>1. HeapInv => NoFalseDoubleFree
  BY DEF HeapInv
<1> QED
  BY <1>1, HeapInvariant, PTL

(* Every wrapper finds the library's functions set, although heaph_touch   *)
(* reads is_done without the lock, and one thread at a time sets them.     *)
THEOREM PointersAlwaysReady == Spec => []PointersReady
<1>1. HeapInv => PointersReady
  BY DEF HeapInv, InitGuard, PointersReady, Inside
<1> QED
  BY <1>1, HeapInvariant, PTL

(* The counter never leaves what there is to count, nor the drift its      *)
(* bound.                                                                  *)
THEOREM HeapTypeCorrect == Spec => []TypeOK
<1>1. HeapInv => TypeOK
  <2> SUFFICES ASSUME HeapInv PROVE TypeOK
    OBVIOUS
  <2>1. drift \in 0 .. MaxDrift + Cardinality(Threads)
    BY Finite, HeapAssumption DEF HeapInv, DriftBound, Types
  <2>2. alloc_count \in 0 .. Cardinality(Blocks) + drift
    BY Finite DEF HeapInv, CountExact, Counted, Types
  <2> QED
    BY <2>1, <2>2 DEF HeapInv, Types, TypeOK
<1> QED
  BY <1>1, HeapInvariant, PTL
=============================================================================
