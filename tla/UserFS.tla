------------------------------- MODULE UserFS -------------------------------
(***************************************************************************)
(* The in-memory file system of Assignment_3/userfs.c.  It is sequential:  *)
(* every call of the public interface is one step.                         *)
(*                                                                         *)
(* A file is a chain of blocks of BLOCK_SIZE bytes.  The model keeps the   *)
(* bytes of the chain end to end in mem and a block pointer as the number  *)
(* of its block, counted from 1; 0 is a pointer that is NULL or dangling.  *)
(* The loops that go block by block are given by what they add up to.      *)
(***************************************************************************)
EXTENDS Integers, Sequences, SequencesExt, FiniteSets, FiniteSetsExt

CONSTANTS
  Names,          \* file names the application uses
  Files,          \* addresses calloc may give to a struct file
  Buffers,        \* what the application writes
  ReadSizes, NewSizes,
  OpenFlags,      \* combinations of open flags, each a set
  MaxFds,         \* bound: descriptors open at once
  BLOCK_SIZE, MAX_FILE_SIZE,
  AllocFails,     \* whether calloc may fail
  BoundaryReads,  \* whether the application reads up to the end of a file
                  \* whose size is a multiple of BLOCK_SIZE
  NULL

(* struct filedesc *)
FileDesc == [file : Files, total_offset : Int, cur_block : Int,
             read_allowed : BOOLEAN, write_allowed : BOOLEAN]

ASSUME FSAssumption ==
  /\ BLOCK_SIZE \in Nat \ {0} /\ MAX_FILE_SIZE \in Nat
  /\ AllocFails \in BOOLEAN /\ BoundaryReads \in BOOLEAN
  /\ MaxFds \in Nat
  /\ Buffers \subseteq Seq(Nat) /\ ReadSizes \subseteq Nat /\ NewSizes \subseteq Nat
  /\ NULL \notin Files \cup Names
  /\ NULL \notin FileDesc

VARIABLES
  file,              \* struct file at each address
  file_list,         \* the linked list from file_list to file_list_last
  file_descriptors,  \* the table, file_descriptor_capacity slots long
  file_descriptor_count, file_descriptors_rr_ptr,
  ufs_error_code,
  ret, buf,          \* what the last call returned, and what it read
  crashed,           \* a NULL or dangling block was dereferenced
  down               \* ufs_shutdown was called

fileVars   == <<file, file_list>>
fdVars     == <<file_descriptors, file_descriptor_count, file_descriptors_rr_ptr>>
resultVars == <<ufs_error_code, ret, buf>>
fsVars     == <<fileVars, fdVars, resultVars, crashed, down>>

NoFile == [name |-> NULL, refs |-> 0, marked_for_deletion |-> FALSE,
           total_size |-> 0, mem |-> <<>>, last_block |-> 0]

Init ==
  /\ file = [x \in Files |-> NoFile] /\ file_list = <<>>
  /\ file_descriptors = <<>> /\ file_descriptor_count = 0
  /\ file_descriptors_rr_ptr = 0
  /\ ufs_error_code = "NO_ERR" /\ ret = 0 /\ buf = <<>>
  /\ crashed = FALSE /\ down = FALSE

-----------------------------------------------------------------------------
(* Results of calls *)

Running == ~crashed /\ ~down

Fail(code) == ret' = -1 /\ ufs_error_code' = code /\ buf' = <<>>

Succeed(r, bytes) == ret' = r /\ buf' = bytes /\ UNCHANGED ufs_error_code

Refuse(code) == Fail(code) /\ UNCHANGED <<fileVars, fdVars, crashed, down>>

Crash == crashed' = TRUE /\ UNCHANGED <<fileVars, fdVars, resultVars, down>>

-----------------------------------------------------------------------------
(* Blocks *)

Zeros(n) == [i \in 1 .. n |-> 0]

(* Memory m with the bytes b copied to position p. *)
Patch(m, p, b) == [i \in 1 .. Len(m) |-> IF i - p \in 1 .. Len(b) THEN b[i - p] ELSE m[i]]

Blocks(f) == Len(f.mem) \div BLOCK_SIZE

WithBlocks(m, n) == m \o Zeros(n * BLOCK_SIZE)

-----------------------------------------------------------------------------
(* The file list *)

(* Mutant: a deleted file is still found. *)
FindAnyFile(n) ==
  LET hits == {i \in DOMAIN file_list : file[file_list[i]].name = n}
  IN  IF hits = {} THEN NULL ELSE file_list[Min(hits)]

ufs_find_file(n) ==
  LET hits == {i \in DOMAIN file_list :
                 /\ file[file_list[i]].name = n
                 /\ ~file[file_list[i]].marked_for_deletion}
  IN  IF hits = {} THEN NULL ELSE file_list[Min(hits)]

ufs_create_file(n) == [NoFile EXCEPT !.name = n, !.mem = Zeros(BLOCK_SIZE),
                                     !.last_block = 1]

-----------------------------------------------------------------------------
(* The descriptor table.  Slot i of the model is index i - 1 of the array. *)

Slots == DOMAIN file_descriptors
Used  == {i \in Slots : file_descriptors[i] # NULL}

FdsOf(x) == {i \in Used : file_descriptors[i].file = x}

ufs_extend_fd_list_if_needed ==
  LET n == Len(file_descriptors)
  IN  IF file_descriptor_count < n THEN file_descriptors
      ELSE [i \in 1 .. n + Max({1, n}) |-> IF i <= n THEN file_descriptors[i] ELSE NULL]

(* The first free index of the table from file_descriptors_rr_ptr on. *)
FreeIndex(table) ==
  LET at(k) == (file_descriptors_rr_ptr + k) % Len(table)
  IN  at(Min({k \in 0 .. Len(table) - 1 : table[at(k) + 1] = NULL}))

(* files is the value of the variable file once the file x is created. *)
ufs_create_fd(x, files, flags) ==
  \/ /\ AllocFails
     /\ file' = files /\ UNCHANGED fdVars
     /\ Fail("NO_MEM")
  \/ LET table == ufs_extend_fd_list_if_needed
         idx   == FreeIndex(table)
         plain == flags \cap {"READ_ONLY", "WRITE_ONLY", "READ_WRITE"} = {}
         fd    == [file |-> x, total_offset |-> 0,
                   cur_block |-> IF Blocks(files[x]) = 0 THEN 0 ELSE 1,
                   read_allowed |-> plain \/ "READ_ONLY" \in flags \/ "READ_WRITE" \in flags,
                   write_allowed |-> plain \/ "WRITE_ONLY" \in flags \/ "READ_WRITE" \in flags]
     IN  /\ file' = [files EXCEPT ![x].refs = @ + 1]
         /\ file_descriptors' = [table EXCEPT ![idx + 1] = fd]
         /\ file_descriptors_rr_ptr' = idx
         /\ file_descriptor_count' = file_descriptor_count + 1
         /\ ret' = idx + 1 /\ ufs_error_code' = "NO_ERR" /\ buf' = <<>>

(* The list after ufs_real_delete_file of x, which becomes NoFile. *)
ListWithout(x) ==
  RemoveAt(file_list, CHOOSE i \in DOMAIN file_list : file_list[i] = x)

(* Mutant: a deleted file outlives its last descriptor. *)
NeverDropped(x) == FALSE

Dropped(x) == file[x].marked_for_deletion /\ file[x].refs = 1

(* Mutant: file_descriptor_count is not decremented. *)
CountKept == file_descriptor_count

CountLeft == file_descriptor_count - 1

(* A file that was deleted goes with its last descriptor. *)
ufs_delete_fd(i) ==
  LET x == file_descriptors[i].file IN
  /\ IF Dropped(x)
     THEN file' = [file EXCEPT ![x] = NoFile] /\ file_list' = ListWithout(x)
     ELSE file' = [file EXCEPT ![x].refs = @ - 1] /\ UNCHANGED file_list
  /\ file_descriptors' = [file_descriptors EXCEPT ![i] = NULL]
  /\ file_descriptor_count' = CountLeft
  /\ UNCHANGED file_descriptors_rr_ptr

-----------------------------------------------------------------------------
(* The public interface *)

ufs_open(n, flags) ==
  LET found == ufs_find_file(n) IN
  /\ Running /\ file_descriptor_count < MaxFds
  /\ \/ found = NULL /\ "CREATE" \notin flags /\ Refuse("NO_FILE")
     \/ found = NULL /\ "CREATE" \in flags /\ AllocFails /\ Refuse("NO_MEM")
     \/ /\ found = NULL /\ "CREATE" \in flags
        /\ \E x \in Files :
             /\ \A i \in DOMAIN file_list : file_list[i] # x
             /\ ufs_create_fd(x, [file EXCEPT ![x] = ufs_create_file(n)], flags)
             /\ file_list' = Append(file_list, x)
        /\ UNCHANGED <<crashed, down>>
     \/ /\ found # NULL
        /\ ufs_create_fd(found, file, flags)
        /\ UNCHANGED <<file_list, crashed, down>>

(* Position of a descriptor in its block, and how many blocks it passes    *)
(* when it moves on by n bytes.                                            *)
InBlock(fd)   == fd.total_offset % BLOCK_SIZE
Passed(fd, n) == (InBlock(fd) + n) \div BLOCK_SIZE

(* The byte of mem a descriptor stands on. *)
Position(fd) == (fd.cur_block - 1) * BLOCK_SIZE + InBlock(fd)

(* Write b through slot i.  The loop passes the end of the chain m times;  *)
(* calloc fails once after j blocks, unless j = m.                         *)
WriteBytes(i, b, m, j) ==
  LET fd   == file_descriptors[i]
      f    == file[fd.file]
      next == fd.cur_block + Passed(fd, Len(b))
      end  == fd.total_offset + Len(b)
  IN  /\ file' = [file EXCEPT ![fd.file] = [f EXCEPT
           !.mem = Patch(WithBlocks(f.mem, j), Position(fd), b),
           !.last_block = IF m = 0 THEN f.last_block ELSE IF j < m THEN 0 ELSE next,
           !.total_size = Max({f.total_size, end})]]
      /\ file_descriptors' = [file_descriptors EXCEPT ![i] = [fd EXCEPT
           !.cur_block = IF j < m THEN 0 ELSE next, !.total_offset = end]]
      /\ ret' = Len(b) /\ buf' = <<>>
      /\ ufs_error_code' = IF j < m THEN "NO_MEM" ELSE ufs_error_code
      /\ UNCHANGED <<file_list, file_descriptor_count, file_descriptors_rr_ptr,
                     crashed, down>>

(* A failed allocation is not noticed.  It is fatal at once when there are *)
(* bytes left for the block that was not allocated.                        *)
WriteThrough(i, b) ==
  LET fd     == file_descriptors[i]
      needed == Max({0, fd.cur_block + Passed(fd, Len(b)) - Blocks(file[fd.file])})
  IN  \/ fd.cur_block = 0 /\ b # <<>> /\ Crash
      \/ /\ fd.cur_block # 0 \/ b = <<>>
         /\ \E got \in 0 .. needed :
              /\ got = needed \/ AllocFails
              /\ IF \/ got + 1 < needed
                    \/ got < needed /\ (InBlock(fd) + Len(b)) % BLOCK_SIZE # 0
                 THEN Crash
                 ELSE WriteBytes(i, b, needed, got)

Fits(fd, n) == fd.total_offset + n <= MAX_FILE_SIZE

ufs_write(i, b) ==
  /\ Running
  /\ \/ i \notin Used /\ Refuse("NO_FILE")
     \/ i \in Used /\ ~file_descriptors[i].write_allowed /\ Refuse("NO_PERMISSION")
     \/ /\ i \in Used /\ file_descriptors[i].write_allowed
        /\ IF Fits(file_descriptors[i], Len(b)) THEN WriteThrough(i, b)
                                               ELSE Refuse("NO_MEM")

(* Read up to size bytes through slot i.  The descriptor moves to the next *)
(* block when it has read one to its end, but not at the end of the file   *)
(* and not when there is no next block.                                    *)
ReadBytes(i, size) ==
  LET fd    == file_descriptors[i]
      f     == file[fd.file]
      n     == Min({size, f.total_size - fd.total_offset,
                    Len(f.mem) - Position(fd)})
      next  == fd.cur_block + Passed(fd, n)
      stays == /\ n > 0 /\ (InBlock(fd) + n) % BLOCK_SIZE = 0
               /\ fd.total_offset + n >= f.total_size \/ next > Blocks(f)
  IN  /\ Succeed(n, SubSeq(f.mem, Position(fd) + 1, Position(fd) + n))
      /\ file_descriptors' = [file_descriptors EXCEPT ![i] = [fd EXCEPT
           !.cur_block = IF stays THEN next - 1 ELSE next,
           !.total_offset = fd.total_offset + n]]
      /\ UNCHANGED <<fileVars, file_descriptor_count, file_descriptors_rr_ptr,
                     crashed, down>>

(* The read stops at the end of a file whose last block is full. *)
StopsAtBoundary(i, size) ==
  LET fd == file_descriptors[i]
      f  == file[fd.file]
  IN  /\ f.total_size % BLOCK_SIZE = 0
      /\ fd.total_offset + size >= f.total_size

ufs_read(i, size) ==
  /\ Running
  /\ \/ i \notin Used /\ Refuse("NO_FILE")
     \/ i \in Used /\ ~file_descriptors[i].read_allowed /\ Refuse("NO_PERMISSION")
     \/ /\ i \in Used /\ file_descriptors[i].read_allowed
        /\ LET fd == file_descriptors[i] IN
           \/ /\ fd.total_offset >= file[fd.file].total_size
              /\ Succeed(0, <<>>)   \* end of file
              /\ UNCHANGED <<fileVars, fdVars, crashed, down>>
           \/ /\ fd.total_offset < file[fd.file].total_size
              /\ BoundaryReads \/ ~StopsAtBoundary(i, size)
              /\ IF fd.cur_block = 0 /\ size > 0 THEN Crash
                                                 ELSE ReadBytes(i, size)

ufs_close(i) ==
  /\ Running
  /\ \/ i \notin Used /\ Refuse("NO_FILE")
     \/ /\ i \in Used
        /\ ufs_delete_fd(i) /\ Succeed(0, <<>>)
        /\ UNCHANGED <<crashed, down>>

(* Mutant: the file is freed although descriptors refer to it. *)
FreedAtOnce(x) == TRUE

FreedByDelete(x) == file[x].refs = 0

ufs_delete(n) ==
  LET x == ufs_find_file(n) IN
  /\ Running
  /\ \/ x = NULL /\ Refuse("NO_FILE")
     \/ /\ x # NULL /\ FreedByDelete(x)
        /\ file' = [file EXCEPT ![x] = NoFile]
        /\ file_list' = ListWithout(x)
        /\ Succeed(0, <<>>) /\ UNCHANGED <<fdVars, crashed, down>>
     \/ /\ x # NULL /\ ~FreedByDelete(x)
        /\ file' = [file EXCEPT ![x].marked_for_deletion = TRUE]
        /\ Succeed(0, <<>>) /\ UNCHANGED <<file_list, fdVars, crashed, down>>

(* Mutant: the tail of the last block is not cleared. *)
TailKept(m, p, n) == m

(* memset of n bytes from position p on. *)
Cleared(m, p, n) == Patch(m, p, Zeros(n))

(* When the last block is full and calloc fails after j of m new blocks,   *)
(* the file keeps the size it has reached.                                 *)
ufs_extend_file(x, new_size) ==
  LET f == file[x]
      o == f.total_size % BLOCK_SIZE
      m == (o + new_size - f.total_size) \div BLOCK_SIZE
      reached(j) == IF j = m THEN new_size
                    ELSE f.total_size - o + (j + 1) * BLOCK_SIZE
  IN  \/ f.last_block = 0 /\ Crash
      \/ /\ f.last_block # 0
         /\ \E j \in 0 .. m :
              /\ j = m \/ AllocFails
              /\ file' = [file EXCEPT ![x] = [f EXCEPT
                   !.mem = Cleared(WithBlocks(f.mem, j), (f.last_block - 1) * BLOCK_SIZE + o,
                                   reached(j) - f.total_size),
                   !.last_block = f.last_block + j,
                   !.total_size = reached(j)]]
              /\ IF j = m THEN Succeed(0, <<>>) ELSE Fail("NO_MEM")
         /\ UNCHANGED <<file_list, fdVars, crashed, down>>

(* Mutants: a descriptor past the new end keeps its block, or loses it. *)
MovedInPlace(fd, size, last, left) ==
  IF fd.total_offset > size THEN [fd EXCEPT !.total_offset = size] ELSE fd

MovedNowhere(fd, size, last, left) ==
  IF fd.total_offset > size
  THEN [fd EXCEPT !.total_offset = size, !.cur_block = 0] ELSE fd

(* A descriptor past the new end moves to it (ufs_move_overflowing_fds);   *)
(* one that stands on a freed block is left dangling.                      *)
Moved(fd, size, last, left) ==
  IF fd.total_offset > size
  THEN [fd EXCEPT !.total_offset = size, !.cur_block = last]
  ELSE [fd EXCEPT !.cur_block = IF @ > left THEN 0 ELSE @]

(* Mutant: the blocks that lie wholly in the cut, not the ones it ends. *)
WholeBlocksFreed(from, to) == (from - to) \div BLOCK_SIZE

BlocksFreed(from, to) == from \div BLOCK_SIZE - to \div BLOCK_SIZE

ufs_reduce_file(x, new_size) ==
  LET f     == file[x]
      freed == BlocksFreed(f.total_size, new_size)
  IN  \/ freed > f.last_block /\ Crash
      \/ /\ freed <= f.last_block
         /\ LET left == IF freed = 0 THEN Blocks(f) ELSE f.last_block - freed
            IN
            /\ file' = [file EXCEPT ![x] = [f EXCEPT
                 !.mem = SubSeq(f.mem, 1, left * BLOCK_SIZE),
                 !.last_block = f.last_block - freed, !.total_size = new_size]]
            /\ file_descriptors' = [i \in Slots |->
                 IF i \notin FdsOf(x) THEN file_descriptors[i]
                 ELSE Moved(file_descriptors[i], new_size, f.last_block - freed, left)]
         /\ Succeed(0, <<>>)
         /\ UNCHANGED <<file_list, file_descriptor_count,
                        file_descriptors_rr_ptr, crashed, down>>

ufs_resize(i, new_size) ==
  /\ Running
  /\ \/ i \notin Used /\ Refuse("NO_FILE")
     \/ i \in Used /\ new_size > MAX_FILE_SIZE /\ Refuse("NO_MEM")
     \/ /\ i \in Used /\ new_size <= MAX_FILE_SIZE
        /\ LET x == file_descriptors[i].file IN
           \/ /\ new_size = file[x].total_size
              /\ Succeed(0, <<>>) /\ UNCHANGED <<fileVars, fdVars, crashed, down>>
           \/ new_size > file[x].total_size /\ ufs_extend_file(x, new_size)
           \/ new_size < file[x].total_size /\ ufs_reduce_file(x, new_size)

(* The loop over the table closes what is open.  The table is then freed   *)
(* but not reset, so this is the last call.                                *)
ufs_shutdown ==
  \/ Running /\ down' = TRUE /\ UNCHANGED <<fileVars, fdVars, resultVars, crashed>>
  \/ /\ down /\ Used # {}
     /\ ufs_delete_fd(Min(Used))
     /\ UNCHANGED <<resultVars, crashed, down>>

(* The table doubles when it is full, with fewer than MaxFds slots used.   *)
MaxSlots == Max({1, 2 * (MaxFds - 1)})

Handles == 0 .. MaxSlots   \* descriptor numbers the application passes

Next ==
  \/ \E n \in Names, flags \in OpenFlags : ufs_open(n, flags)
  \/ \E i \in Handles, b \in Buffers : ufs_write(i, b)
  \/ \E i \in Handles, size \in ReadSizes : ufs_read(i, size)
  \/ \E i \in Handles : ufs_close(i)
  \/ \E n \in Names : ufs_delete(n)
  \/ \E i \in Handles, size \in NewSizes : ufs_resize(i, size)
  \/ ufs_shutdown

Spec == Init /\ [][Next]_fsVars

-----------------------------------------------------------------------------
TypeOK ==
  /\ \A x \in Files :
       /\ file[x].refs \in Nat /\ file[x].total_size \in 0 .. MAX_FILE_SIZE
       /\ file[x].last_block \in 0 .. Blocks(file[x])
       /\ Len(file[x].mem) = Blocks(file[x]) * BLOCK_SIZE
  /\ \A i \in DOMAIN file_list : file_list[i] \in Files
  /\ \A i \in Used : /\ file_descriptors[i].file \in Files
                     /\ file_descriptors[i].total_offset \in 0 .. MAX_FILE_SIZE
  /\ file_descriptor_count \in 0 .. MaxFds
  /\ file_descriptors_rr_ptr \in 0 .. Max({0, Len(file_descriptors) - 1})
  /\ ufs_error_code \in {"NO_ERR", "NO_FILE", "NO_MEM", "NO_PERMISSION"}
  /\ crashed \in BOOLEAN /\ down \in BOOLEAN

(* A file on the list is referenced by as many descriptors as refs says    *)
(* (the assertion of ufs_move_overflowing_fds), and no descriptor refers   *)
(* to a file that was freed.                                               *)
RefsExact ==
  \A x \in Files : file[x].refs = Cardinality(FdsOf(x))
                   /\ (FdsOf(x) # {} => \E i \in DOMAIN file_list : file_list[i] = x)

(* A name denotes one file: beside it there may be any number of deleted   *)
(* files of that name, each kept alive by a descriptor and gone after the  *)
(* last ufs_close.                                                         *)
OneFilePerName ==
  \A i, j \in DOMAIN file_list :
    LET f == file[file_list[i]]
        g == file[file_list[j]]
    IN  /\ f.marked_for_deletion => f.refs > 0
        /\ f.name = g.name /\ ~f.marked_for_deletion /\ ~g.marked_for_deletion => i = j

(* The counter of the descriptor table is exact, so that the search of     *)
(* ufs_create_fd for a free slot always ends.                              *)
FdTable == file_descriptor_count = Cardinality(Used)

(* A file has one block more than it has full ones, and last_block is the  *)
(* last: appending and truncating rely on it.                              *)
BlocksCover ==
  \A i \in DOMAIN file_list :
    LET f == file[file_list[i]]
    IN  Blocks(f) = f.total_size \div BLOCK_SIZE + 1 /\ f.last_block = Blocks(f)

(* A descriptor is not past the end of its file and its block is the one   *)
(* its offset lies in, whatever other descriptors did to the file.         *)
CursorOnBlock ==
  \A i \in Used :
    LET fd == file_descriptors[i]
    IN  /\ fd.total_offset <= file[fd.file].total_size
        /\ fd.cur_block = fd.total_offset \div BLOCK_SIZE + 1

(* No call dereferences a NULL or freed block. *)
NoCrash == ~crashed
=============================================================================
