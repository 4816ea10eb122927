---------------------------- MODULE MCThreadPool ----------------------------
(* Small instances of ThreadPool for TLC. *)
EXTENDS ThreadPoolFifo, TLC

CONSTANTS c1, c2, t1, t2, t3

TwoClients == {c1, c2}
OneClient  == {c1}
TwoTasks   == {t1, t2}
ThreeTasks == {t1, t2, t3}

AllCalls == {"push", "join", "timed_join", "delete", "detach"}

(* Clients and task addresses are interchangeable in safety runs. *)
Interchangeable == Permutations(TwoClients) \cup Permutations(ThreeTasks)
=============================================================================
