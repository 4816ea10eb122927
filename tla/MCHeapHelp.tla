----------------------------- MODULE MCHeapHelp -----------------------------
(* Small instances of HeapHelp for TLC. *)
EXTENDS HeapHelp
=============================================================================
