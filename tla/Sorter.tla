------------------------------- MODULE Sorter -------------------------------
(***************************************************************************)
(* Assignment_1 as a whole: the coroutines share out the files and sort    *)
(* them, and main merges what they leave into output.txt.                  *)
(***************************************************************************)
EXTENDS MainMerge, MergeSort

CONSTANTS
  Inputs,    \* what the files on the command line may contain
  Junk       \* values of an uninitialised int

VARIABLE input   \* the files

sorterVars == <<mainVars, input>>

SorterInit == Init /\ MergeInit /\ input \in Inputs

StoreSorted(c) ==
  \E junk \in Junk : StoreOutput(c, sort_file(input[cur[c]], junk))

SorterNext ==
  /\ \/ (CoroStep \/ CheckFiles) /\ UNCHANGED <<sorted, mergeVars>>
     \/ \E c \in Coros : StoreSorted(c)
     \/ MergeStep
  /\ UNCHANGED input

(* The process runs: one thread, nothing to wait for. *)
SorterSpec == SorterInit /\ [][SorterNext]_sorterVars /\ WF_sorterVars(SorterNext)

-----------------------------------------------------------------------------
Occurrences(s, v) == Cardinality({i \in DOMAIN s : s[i] = v})

(* The files that are sorted faithfully: numbers separated as generator.py *)
(* does, and few enough that no left half is split again.                  *)
Faithful(file) == /\ file.nums # <<>> /\ ~file.trail
                  /\ Len(file.nums) <= 2 * MAX_NUMBERS_LOADED

(* main merges as many numbers as count_numbers_in_file finds in all the   *)
(* inputs and reads no file beyond that; and if all inputs are faithful,   *)
(* output.txt has exactly their numbers.                                   *)
OutputComplete ==
  merged =>
    LET whole == FlattenSeq([f \in FileList |-> input[f].nums])
        counted(f) == count_numbers_in_file(input[f])
    IN  /\ Len(output) = MapThenSumSet(counted, FileList)
        /\ (\A f \in FileList : Faithful(input[f])) =>
             \A v \in Range(whole) \cup Range(output) :
               Occurrences(whole, v) = Occurrences(output, v)

(* If every sort_file ends, the coroutines do, and main ends: with         *)
(* output.txt complete, or at the NULL output of a missing file.           *)
Terminates ==
  (\A c \in Coros : sorting[c] ~> ~sorting[c]) => <>(merged \/ phase = "segv")
=============================================================================
