---------------------------- MODULE NumberFiles ----------------------------
(***************************************************************************)
(* How libsort.c and main.c read files of numbers.                         *)
(*                                                                         *)
(* A file is [nums, trail]: its numbers, with one separator between two of *)
(* them, and whether a separator (the newline of an editor) follows the    *)
(* last one.  Every file the program itself writes has no trailing one.    *)
(***************************************************************************)
EXTENDS Integers, Sequences, SequencesExt

(* Separators and the end of the file are counted, not numbers: an empty   *)
(* file has one, and so has a trailing separator.                          *)
count_numbers_in_file(file) ==
  (IF file.nums = <<>> THEN 1 ELSE Len(file.nums)) + (IF file.trail THEN 1 ELSE 0)

(* What a variable holds after k calls of fscanf: a call that finds no     *)
(* number leaves what was there, junk before the first one.                *)
Scanned(nums, k, junk) == CASE k <= Len(nums) -> nums[k]
                            [] k > Len(nums) /\ nums # <<>> -> Last(nums)
                            [] OTHER -> junk

InOrder(nums) == \A i \in 1 .. Len(nums) - 1 : nums[i] <= nums[i + 1]
=============================================================================
