--------------------------- MODULE ThreadPoolFifo ---------------------------
(***************************************************************************)
(* The thread pool implements TaskFifo.  The ring of pointers, read from   *)
(* readPtr on, is the abstract queue; the tasks that workers have taken    *)
(* and not yet uncounted are the running ones.                             *)
(***************************************************************************)
EXTENDS ThreadPool, Sequences

RingContents ==
  [i \in 1 .. task_waiting |-> queue[(readPtr + i - 1) % TPOOL_MAX_TASKS]]

Executing == {wtask[w] : w \in Counted}

Fifo == INSTANCE TaskFifo WITH
          Capacity <- TPOOL_MAX_TASKS, Threads <- TPOOL_MAX_THREADS,
          fifo <- RingContents, running <- Executing,
          limit <- max_thread_count

(* Under every interleaving of pushes, workers and deletes, the pool runs  *)
(* each accepted task once, in push order, at most max_thread_count at a   *)
(* time, and accepts at most TPOOL_MAX_TASKS.                              *)
ImplementsFifo == Fifo!FifoSpec
=============================================================================
