------------------------------ MODULE TaskFifo ------------------------------
(***************************************************************************)
(* What a thread pool promises, without mutexes, rings or threads: tasks   *)
(* start in the order they were pushed, each push leads to one run, at     *)
(* most limit tasks run at once, and no more than Capacity are accepted.   *)
(***************************************************************************)
EXTENDS Naturals, Sequences, FiniteSets

CONSTANTS Tasks, Capacity, Threads

VARIABLES fifo,     \* accepted tasks that have not started, oldest first
          running,  \* tasks that have started and not ended
          limit     \* how many tasks may run at once

fifoVars == <<fifo, running, limit>>

FifoInit == fifo = <<>> /\ running = {} /\ limit = 0

Open == /\ fifo = <<>> /\ running = {}
        /\ limit' \in 1 .. Threads
        /\ UNCHANGED <<fifo, running>>

Push(t) == /\ t \notin running /\ \A i \in DOMAIN fifo : fifo[i] # t
           /\ Len(fifo) + Cardinality(running) < Capacity
           /\ fifo' = Append(fifo, t)
           /\ UNCHANGED <<running, limit>>

Start == /\ fifo # <<>> /\ Cardinality(running) < limit
         /\ running' = running \cup {Head(fifo)}
         /\ fifo' = Tail(fifo)
         /\ UNCHANGED limit

Finish(t) == /\ t \in running
             /\ running' = running \ {t}
             /\ UNCHANGED <<fifo, limit>>

FifoNext == Open \/ Start \/ \E t \in Tasks : Push(t) \/ Finish(t)

FifoSpec == FifoInit /\ [][FifoNext]_fifoVars
=============================================================================
