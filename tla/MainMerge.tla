----------------------------- MODULE MainMerge -----------------------------
(***************************************************************************)
(* main.c around the coroutines: the files that sort_file returns are kept *)
(* until all coroutines have ended, and then merged into output.txt.       *)
(***************************************************************************)
EXTENDS Coroutines, NumberFiles, FiniteSetsExt

VARIABLES
  sorted,    \* sorted_output of each file that has_output
  taken,     \* how often the merge of main has read from each file
  output,    \* output.txt
  merged

mergeVars == <<taken, output, merged>>
mainVars  == <<sortVars, sorted, mergeVars>>

MergeInit ==
  /\ sorted = [f \in FileList |-> [nums |-> <<>>, trail |-> FALSE]]
  /\ taken = [f \in FileList |-> 0] /\ output = <<>> /\ merged = FALSE

(* sort_file returns a file, with its YIELD points behind it. *)
StoreOutput(c, file) ==
  /\ EndSort(c)
  /\ sorted' = [sorted EXCEPT ![cur[c]] = file]
  /\ UNCHANGED mergeVars

-----------------------------------------------------------------------------
(* The merge *)

file_lens(f) == count_numbers_in_file(sorted[f]) - taken[f]
cur_value(f) == Scanned(sorted[f].nums, taken[f] + 1, 0)

Unmerged == {f \in FileList : file_lens(f) # 0}

(* Mutant: the first file with numbers left is read to its end. *)
NextInFirst == Min(Unmerged)

(* The first file whose current number is the smallest. *)
NextFile ==
  Min({f \in Unmerged : \A g \in Unmerged : cur_value(f) <= cur_value(g)})

(* One round of the do-while loop.  It is entered once also when there is  *)
(* nothing to merge: files[file_cnt + 1] is then out of bounds.            *)
MergeStep ==
  /\ phase = "merge" /\ ~merged
  /\ IF Unmerged = {} THEN MergeCrash /\ UNCHANGED mergeVars
     ELSE /\ output' = Append(output, cur_value(NextFile))
          /\ taken' = [taken EXCEPT ![NextFile] = @ + 1]
          /\ merged' = (Unmerged = {NextFile} /\ file_lens(NextFile) = 1)
          /\ UNCHANGED sortVars
  /\ UNCHANGED sorted

-----------------------------------------------------------------------------
(* What checker.py asks of output.txt: the numbers do not decrease, nor do *)
(* those of any file that sort_file left for the merge.  It holds for      *)
(* every input, also where numbers are lost or made up.                    *)
OutputSorted == (\A f \in FileList : InOrder(sorted[f].nums)) /\ InOrder(output)
=============================================================================
