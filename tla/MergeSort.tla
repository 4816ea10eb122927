----------------------------- MODULE MergeSort -----------------------------
(***************************************************************************)
(* The external merge sort of libsort.c, as functions from the numbers of  *)
(* an input file to the numbers of the file that sort_file returns.  The   *)
(* files it works on are private to one call, so what the YIELD points     *)
(* interrupt does not show in the result.                                  *)
(***************************************************************************)
EXTENDS NumberFiles, FiniteSetsExt

CONSTANT MAX_NUMBERS_LOADED

ASSUME LoadAssumption == MAX_NUMBERS_LOADED \in Nat \ {0, 1}

(* The first len numbers of what is left of a file; tmp is uninitialised   *)
(* if there is none.                                                       *)
transfer_numbers(nums, len, junk) == [k \in 1 .. len |-> Scanned(nums, k, junk)]

Exchange(a, i, j) == [a EXCEPT ![i] = a[j], ![j] = a[i]]

(* The loop of quick_sort around the pivot a[first]: the array it leaves   *)
(* and its last j.                                                         *)
RECURSIVE Partition(_, _, _, _, _)
Partition(a, first, i, j, last) ==
  IF i >= j THEN <<a, j>>
  ELSE LET i2 == Min({k \in i .. last : a[k] > a[first] \/ k = last})
           j2 == Max({k \in first .. j : a[k] <= a[first]})
       IN  Partition(IF i2 < j2 THEN Exchange(a, i2, j2) ELSE a, first, i2, j2, last)

(* Positions count from 1: the code's test j != 0 is j # 1 here. *)
RECURSIVE quick_sort(_, _, _)
quick_sort(a, first, last) ==
  IF first >= last THEN a
  ELSE LET p == Partition(a, first, first, last, last)
           j == p[2]
           b == Exchange(p[1], first, j)
           c == IF j # 1 THEN quick_sort(b, first, j - 1) ELSE b
       IN  quick_sort(c, j + 1, last)

(* numbers is calloc'ed: a number that is missing is read as 0. *)
quick_sort_prepare(nums, len) ==
  quick_sort([k \in 1 .. len |-> IF k <= Len(nums) THEN nums[k] ELSE 0], 1, len)

(* Mutant: a number of the right half is printed when the two are equal    *)
(* and when the left one is smaller.                                       *)
LeftLate(l, left_num, left_len, r, right_num, right_len) ==
  l < left_len /\ (r = right_len \/ left_num > right_num)

(* Which file the loop of merge_files prints from. *)
TakeLeft(l, left_num, left_len, r, right_num, right_len) ==
  l < left_len /\ (r = right_len \/ left_num <= right_num)

(* The loop of merge_files after l numbers of the left and r of the right  *)
(* file.  The lengths are the callers', not the files': a file that is too *)
(* short repeats its last number.                                          *)
RECURSIVE MergeFrom(_, _, _, _, _, _)
MergeFrom(left, right, l, left_len, r, right_len) ==
  LET left_num  == Scanned(left, l + 1, 0)
      right_num == Scanned(right, r + 1, 0)
  IN  IF l = left_len /\ r = right_len THEN <<>>
      ELSE IF TakeLeft(l, left_num, left_len, r, right_num, right_len)
      THEN <<left_num>> \o MergeFrom(left, right, l + 1, left_len, r, right_len)
      ELSE <<right_num>> \o MergeFrom(left, right, l, left_len, r + 1, right_len)

merge_files(left, right, left_len, right_len) ==
  MergeFrom(left, right, 0, left_len, 0, right_len)

(* Mutant: the middle is rounded up. *)
split_range_up(start, end) == start + (end - start + 1) \div 2

split_range(start, end) == start + (end - start) \div 2

(* end is exclusive, but the left half is split with mid, its last         *)
(* position: when it is split again, one number fewer is sorted than it    *)
(* has, while merge_files still counts left_len.                           *)
RECURSIVE split(_, _, _, _)
split(nums, start, end, junk) ==
  LET mid       == split_range(start, end - 1)
      left_len  == mid - start + 1
      right_len == end - 1 - mid
      left      == transfer_numbers(nums, left_len, junk)
      right     == transfer_numbers(SubSeq(nums, left_len + 1, Len(nums)), right_len, junk)
      left_output  == IF left_len > MAX_NUMBERS_LOADED THEN split(left, start, mid, junk)
                      ELSE quick_sort_prepare(left, left_len)
      right_output == IF right_len > MAX_NUMBERS_LOADED THEN split(right, mid + 1, end, junk)
                      ELSE quick_sort_prepare(right, right_len)
  IN  IF end = start THEN transfer_numbers(nums, 1, junk)
      ELSE merge_files(left_output, right_output, left_len, right_len)

sort_file(file, junk) ==
  LET n == count_numbers_in_file(file) IN
  [nums |-> IF n > MAX_NUMBERS_LOADED THEN split(file.nums, 0, n, junk)
            ELSE quick_sort_prepare(file.nums, n), trail |-> FALSE]
=============================================================================
