---------------------------- MODULE UserFSProofs ----------------------------
(***************************************************************************)
(* Proofs about the file system, for any files, descriptors, buffers and   *)
(* sizes.  The first part holds also when calloc fails: the types, the     *)
(* reference counts, the descriptor table and the names.  The second part  *)
(* is about the chains of blocks.                                          *)
(***************************************************************************)
EXTENDS UserFS, ListLemmas, FiniteSetTheorems, SequenceTheorems, TLAPS

-----------------------------------------------------------------------------
(* The inductive invariant, part one *)

FileRec == [name : Names \cup {NULL}, refs : Nat, marked_for_deletion : BOOLEAN,
            total_size : 0 .. MAX_FILE_SIZE, mem : Seq(Nat), last_block : Nat]

Types ==
  /\ file \in [Files -> FileRec] /\ file_list \in Seq(Files)
  /\ file_descriptors \in Seq(FileDesc \cup {NULL})
  /\ file_descriptor_count \in 0 .. MaxFds
  /\ file_descriptors_rr_ptr \in Nat
  /\ Len(file_descriptors) = 0 => file_descriptors_rr_ptr = 0
  /\ Len(file_descriptors) # 0 => file_descriptors_rr_ptr < Len(file_descriptors)
  /\ ufs_error_code \in {"NO_ERR", "NO_FILE", "NO_MEM", "NO_PERMISSION"}
  /\ crashed \in BOOLEAN /\ down \in BOOLEAN

(* The linked list has no file twice. *)
Distinct == \A i, j \in DOMAIN file_list : file_list[i] = file_list[j] => i = j

Table == Distinct /\ RefsExact /\ OneFilePerName /\ FdTable

(* A chain consists of whole blocks, last_block is one of them or NULL. *)
Chains ==
  \A x \in Files : /\ Len(file[x].mem) = Blocks(file[x]) * BLOCK_SIZE
                   /\ file[x].last_block <= Blocks(file[x])

(* A descriptor stands on a block of its file, or on none. *)
Cursors ==
  \A i \in Used : /\ file_descriptors[i].total_offset \in 0 .. MAX_FILE_SIZE
                  /\ file_descriptors[i].cur_block \in
                       0 .. Blocks(file[file_descriptors[i].file])

FSInv == Types /\ Table /\ Chains /\ Cursors

-----------------------------------------------------------------------------
(* Facts about the table and the list *)

LEMMA TableFinite ==
  ASSUME Types
  PROVE  /\ Len(file_descriptors) \in Nat /\ Slots = 1 .. Len(file_descriptors)
         /\ Used \subseteq 1 .. Len(file_descriptors) /\ IsFiniteSet(Used)
         /\ \A i \in Used : file_descriptors[i] \in FileDesc
         /\ \A x : IsFiniteSet(FdsOf(x)) /\ FdsOf(x) \subseteq Used
                   /\ Cardinality(FdsOf(x)) \in Nat
<1>1. /\ Len(file_descriptors) \in Nat /\ Slots = 1 .. Len(file_descriptors)
      /\ Used \subseteq 1 .. Len(file_descriptors)
      /\ \A i \in Used : file_descriptors[i] \in FileDesc
  BY DEF Types, Slots, Used
<1>2. IsFiniteSet(1 .. Len(file_descriptors))
  BY <1>1, FS_Interval
<1>3. IsFiniteSet(Used)
  BY <1>1, <1>2, FS_Subset
<1>4. ASSUME NEW x PROVE IsFiniteSet(FdsOf(x)) /\ FdsOf(x) \subseteq Used
  <2>1. FdsOf(x) \subseteq Used
    BY DEF FdsOf
  <2> QED
    BY <1>3, <2>1, FS_Subset
<1> QED
  BY <1>1, <1>3, <1>4, FS_CardinalityType

(* ufs_find_file returns a file of that name that is not deleted, if there *)
(* is one.                                                                 *)
LEMMA FindFile ==
  ASSUME Types, NEW n
  PROVE  /\ ufs_find_file(n) = NULL =>
              \A i \in DOMAIN file_list :
                file[file_list[i]].name = n => file[file_list[i]].marked_for_deletion
         /\ ufs_find_file(n) # NULL =>
              \E i \in DOMAIN file_list :
                /\ file_list[i] = ufs_find_file(n) /\ file_list[i] \in Files
                /\ file[file_list[i]].name = n
                /\ ~file[file_list[i]].marked_for_deletion
<1> DEFINE hits == {i \in DOMAIN file_list : /\ file[file_list[i]].name = n
                                             /\ ~file[file_list[i]].marked_for_deletion}
<1>1. file_list \in Seq(Files) /\ DOMAIN file_list \subseteq Nat
  BY DEF Types
<1>2. \A i \in DOMAIN file_list : file_list[i] \in Files /\ file_list[i] # NULL
  BY <1>1, FSAssumption
<1>3. ufs_find_file(n) = IF hits = {} THEN NULL ELSE file_list[Min(hits)]
  BY DEF ufs_find_file
<1>4. hits # {} => Min(hits) \in hits
  BY <1>1, MinProperties
<1> QED
  BY <1>2, <1>3, <1>4

(* The search of ufs_create_fd ends at a free slot of the table. *)
LEMMA FreeSlot ==
  ASSUME Types, FdTable, NEW table, table = ufs_extend_fd_list_if_needed
  PROVE  /\ table \in Seq(FileDesc \cup {NULL})
         /\ Len(table) \in Nat \ {0} /\ Len(file_descriptors) <= Len(table)
         /\ \A i \in 1 .. Len(table) :
              table[i] = IF i <= Len(file_descriptors) THEN file_descriptors[i] ELSE NULL
         /\ FreeIndex(table) \in 0 .. Len(table) - 1
         /\ table[FreeIndex(table) + 1] = NULL
<1> DEFINE n == Len(file_descriptors)
           N == Len(table)
           rr == file_descriptors_rr_ptr
           at(k) == (rr + k) % N
           free == {k \in 0 .. N - 1 : table[at(k) + 1] = NULL}
<1>1. /\ n \in Nat /\ Used \subseteq 1 .. n /\ IsFiniteSet(Used)
      /\ file_descriptors \in Seq(FileDesc \cup {NULL})
      /\ Max({1, n}) \in Nat \ {0} /\ file_descriptor_count = Cardinality(Used)
      /\ rr \in Nat /\ (n # 0 => rr < n) /\ (n = 0 => rr = 0)
  <2>1. n \in Nat
    BY TableFinite
  <2>2. Max({1, n}) \in Nat \ {0}
    BY <2>1, MaxOfTwo
  <2> QED
    BY <2>1, <2>2, TableFinite DEF FdTable, Types
<1>2. /\ table \in Seq(FileDesc \cup {NULL}) /\ N \in Nat \ {0} /\ n <= N /\ rr < N
      /\ \A i \in 1 .. N : table[i] = IF i <= n THEN file_descriptors[i] ELSE NULL
      /\ \E t \in 0 .. N - 1 : table[t + 1] = NULL
  <2>1. CASE file_descriptor_count < n
    <3>1. table = file_descriptors
      BY <2>1 DEF ufs_extend_fd_list_if_needed
    <3>2. PICK i \in 1 .. n : i \notin Used
      <4>1. Cardinality(1 .. n) = n
        <5>1. \A m \in Nat : Cardinality(1 .. m) = m
          BY FS_Interval
        <5> QED
          BY <1>1, <5>1
      <4>2. Used # 1 .. n
        BY <1>1, <2>1, <4>1
      <4> QED
        BY <1>1, <4>2
    <3>3. file_descriptors[i] = NULL
      BY <1>1, <3>2, TableFinite DEF Used
    <3>4. i - 1 \in 0 .. N - 1 /\ table[(i - 1) + 1] = NULL
      BY <1>1, <3>1, <3>2, <3>3
    <3>5. n # 0
      BY <3>2
    <3>6. \E t \in 0 .. N - 1 : table[t + 1] = NULL
      BY <3>4
    <3>7. \A k \in 1 .. n : k <= n
      BY <1>1
    <3> QED
      BY <1>1, <3>1, <3>5, <3>6, <3>7
  <2>2. CASE ~(file_descriptor_count < n)
    <3> DEFINE M == n + Max({1, n})
    <3>1. table = [i \in 1 .. M |-> IF i <= n THEN file_descriptors[i] ELSE NULL]
      BY <2>2 DEF ufs_extend_fd_list_if_needed
    <3>2. M \in Nat \ {0} /\ n < M /\ n + 1 \in 1 .. M
      BY <1>1
    <3> HIDE DEF M
    <3>3. table \in Seq(FileDesc \cup {NULL}) /\ Len(table) = M
      BY <1>1, <3>1, <3>2
    <3>4. table[n + 1] = NULL
      BY <1>1, <3>1, <3>2
    <3> QED
      BY <1>1, <3>1, <3>2, <3>3, <3>4
  <2> QED
    BY <2>1, <2>2
<1> HIDE DEF n, N, rr
<1>3. free # {}
  <2>1. PICK t \in 0 .. N - 1 : table[t + 1] = NULL
    BY <1>2
  <2> DEFINE k == IF t >= rr THEN t - rr ELSE t - rr + N
  <2>2. k \in 0 .. N - 1 /\ (rr + k = t \/ rr + k = t + N)
    BY <1>1, <1>2
  <2>3. t % N = t /\ (t + N) % N = t
    BY <1>2
  <2> HIDE DEF k
  <2>4. at(k) = t
    BY <2>2, <2>3
  <2> QED
    BY <2>1, <2>2, <2>4
<1>4. Min(free) \in free
  <2>1. free \in SUBSET Nat
    BY <1>2
  <2> QED
    BY <1>3, <2>1, MinProperties, Zenon
<1>5. FreeIndex(table) = at(Min(free))
  BY DEF FreeIndex, N, rr
<1>6. \A k \in 0 .. N - 1 : at(k) \in 0 .. N - 1
  BY <1>1, <1>2
<1> HIDE DEF free, at
<1>7. Min(free) \in 0 .. N - 1 /\ table[at(Min(free)) + 1] = NULL
  BY <1>4 DEF free
<1> QED
  BY <1>2, <1>5, <1>6, <1>7 DEF n, N

-----------------------------------------------------------------------------
(* Part one, step by step *)

(* OneFilePerName of any files and any list *)
OnePerName(files, list) ==
  \A i, j \in DOMAIN list :
    LET f == files[list[i]]
        g == files[list[j]]
    IN  /\ f.marked_for_deletion => f.refs > 0
        /\ f.name = g.name /\ ~f.marked_for_deletion /\ ~g.marked_for_deletion => i = j

(* The invariant holds before the first call. *)
LEMMA InitFS == Init => FSInv
<1> SUFFICES ASSUME Init PROVE FSInv
  OBVIOUS
<1> USE FSAssumption
<1>1. Types
  <2>1. file \in [Files -> FileRec]
    BY DEF Init, FileRec, NoFile
  <2>2. <<>> \in Seq(Files) /\ <<>> \in Seq(FileDesc \cup {NULL}) /\ Len(<<>>) = 0
    OBVIOUS
  <2>3. crashed \in BOOLEAN /\ down \in BOOLEAN
    BY Zenon DEF Init
  <2>4. 0 \in 0 .. MaxFds
    OBVIOUS
  <2> QED
    BY <2>1, <2>2, <2>3, <2>4 DEF Init, Types
<1>2. Used = {} /\ \A x : FdsOf(x) = {}
  BY DEF Init, Used, Slots, FdsOf
<1>3. Table
  <2>1. RefsExact /\ FdTable
    BY <1>2, FS_EmptySet DEF Init, RefsExact, FdTable, NoFile
  <2> QED
    BY <2>1 DEF Init, Table, Distinct, OneFilePerName
<1>4. Chains
  <2>1. 0 \div BLOCK_SIZE = 0
    OBVIOUS
  <2> QED
    BY <2>1 DEF Init, Chains, NoFile, Blocks
<1>5. Cursors
  BY <1>2 DEF Cursors
<1> QED
  BY <1>1, <1>3, <1>4, <1>5 DEF FSInv

(* What depends on the results of a call only. *)
LEMMA ResultFrame ==
  ASSUME FSInv, UNCHANGED <<fileVars, fdVars>>,
         ufs_error_code' \in {"NO_ERR", "NO_FILE", "NO_MEM", "NO_PERMISSION"},
         crashed' \in BOOLEAN, down' \in BOOLEAN
  PROVE  FSInv'
<1>1. UNCHANGED <<file, file_list, file_descriptors, file_descriptor_count,
                  file_descriptors_rr_ptr>>
  BY DEF fileVars, fdVars
<1>2. Used' = Used /\ \A x : FdsOf(x)' = FdsOf(x)
  BY <1>1 DEF Used, Slots, FdsOf
<1>3. Types'
  BY <1>1 DEF FSInv, Types
<1>4. RefsExact'
  BY <1>1, <1>2 DEF FSInv, Table, RefsExact
<1>5. Distinct' /\ OneFilePerName' /\ FdTable'
  BY <1>1, <1>2 DEF FSInv, Table, Distinct, OneFilePerName, FdTable
<1>6. Chains' /\ Cursors'
  BY <1>1, <1>2 DEF FSInv, Chains, Cursors, Blocks
<1> QED
  BY <1>3, <1>4, <1>5, <1>6 DEF FSInv, Table

(* A step that opens, closes and deletes nothing leaves the counts and the *)
(* names right.                                                            *)
LEMMA TableFrame ==
  ASSUME Table, UNCHANGED <<file_list, file_descriptor_count>>,
         DOMAIN file_descriptors' = DOMAIN file_descriptors,
         \A x \in Files : /\ file'[x].refs = file[x].refs /\ file'[x].name = file[x].name
                          /\ file'[x].marked_for_deletion = file[x].marked_for_deletion,
         \A i \in DOMAIN file_list : file_list[i] \in Files,
         \A i \in Slots :
           /\ file_descriptors'[i] = NULL <=> file_descriptors[i] = NULL
           /\ file_descriptors[i] # NULL => file_descriptors'[i].file = file_descriptors[i].file
  PROVE  Table' /\ Used' = Used /\ \A x : FdsOf(x)' = FdsOf(x)
<1>1. Used' = Used
  BY DEF Used, Slots
<1>2. ASSUME NEW x PROVE FdsOf(x)' = FdsOf(x)
  BY <1>1 DEF FdsOf, Used
<1>3. RefsExact'
  BY <1>2 DEF Table, RefsExact
<1>4. Distinct' /\ FdTable'
  BY <1>1 DEF Table, Distinct, FdTable
<1>5. OneFilePerName'
  BY DEF Table, OneFilePerName
<1> QED
  BY <1>1, <1>2, <1>3, <1>4, <1>5 DEF Table

(* The blocks of a chain of k blocks *)
LEMMA WholeBlocks ==
  ASSUME NEW k \in Int, NEW f, Len(f.mem) = k * BLOCK_SIZE
  PROVE  Blocks(f) = k
<1>1. k * BLOCK_SIZE = k * BLOCK_SIZE + 0 /\ 0 \in 0 .. BLOCK_SIZE - 1
  BY FSAssumption
<1> QED
  BY <1>1, DivMod, FSAssumption DEF Blocks

LEMMA BlockNumbers ==
  ASSUME FSInv, NEW x \in Files
  PROVE  /\ file[x] \in FileRec /\ file[x].mem \in Seq(Nat) /\ Len(file[x].mem) \in Nat
         /\ Blocks(file[x]) \in Nat /\ file[x].last_block \in 0 .. Blocks(file[x])
         /\ Len(file[x].mem) = Blocks(file[x]) * BLOCK_SIZE
         /\ file[x].total_size \in 0 .. MAX_FILE_SIZE
<1>1. file[x] \in FileRec
  BY DEF FSInv, Types
<1>2. /\ file[x].mem \in Seq(Nat) /\ Len(file[x].mem) \in Nat
      /\ file[x].total_size \in 0 .. MAX_FILE_SIZE /\ file[x].last_block \in Nat
  BY <1>1 DEF FileRec
<1>3. Blocks(file[x]) \in Nat
  <2>1. BLOCK_SIZE \in Nat \ {0}
    BY FSAssumption
  <2> QED
    BY <1>2, <2>1, DivNat, Zenon DEF Blocks
<1> QED
  BY <1>1, <1>2, <1>3 DEF FSInv, Chains

(* Assignments to the fields of a struct file *)
LEMMA FieldRefs ==
  ASSUME NEW f \in FileRec, NEW n \in Nat
  PROVE  LET g == [f EXCEPT !.refs = n] IN
         /\ g \in FileRec /\ g.refs = n /\ g.name = f.name
         /\ g.marked_for_deletion = f.marked_for_deletion /\ g.total_size = f.total_size
         /\ g.mem = f.mem /\ g.last_block = f.last_block
BY DEF FileRec

LEMMA FieldMarked ==
  ASSUME NEW f \in FileRec
  PROVE  LET g == [f EXCEPT !.marked_for_deletion = TRUE] IN
         /\ g \in FileRec /\ g.refs = f.refs /\ g.name = f.name
         /\ g.marked_for_deletion /\ g.total_size = f.total_size
         /\ g.mem = f.mem /\ g.last_block = f.last_block
BY DEF FileRec

LEMMA NoFileType ==
  /\ NoFile \in FileRec /\ NoFile.refs = 0 /\ NoFile.last_block = 0
  /\ Len(NoFile.mem) = 0 /\ ~NoFile.marked_for_deletion
<1>1. 0 \in 0 .. MAX_FILE_SIZE /\ <<>> \in Seq(Nat) /\ Len(<<>>) = 0
  BY FSAssumption
<1> QED
  BY <1>1 DEF NoFile, FileRec

(* What ufs_create_file returns: an empty file with one block. *)
LEMMA NewFile ==
  ASSUME NEW n \in Names
  PROVE  LET new == ufs_create_file(n) IN
         /\ new \in FileRec /\ new.refs = 0 /\ new.name = n /\ ~new.marked_for_deletion
         /\ new.total_size = 0 /\ new.last_block = 1
         /\ Len(new.mem) = 1 * BLOCK_SIZE /\ Blocks(new) = 1
<1> DEFINE new == ufs_create_file(n)
<1>1. /\ Zeros(BLOCK_SIZE) \in Seq(Nat) /\ Len(Zeros(BLOCK_SIZE)) = BLOCK_SIZE
      /\ 1 * BLOCK_SIZE = BLOCK_SIZE
  BY FSAssumption DEF Zeros
<1>2. new = [NoFile EXCEPT !.name = n, !.mem = Zeros(BLOCK_SIZE), !.last_block = 1]
  BY DEF ufs_create_file
<1> HIDE DEF new
<1>3. NoFile \in FileRec
  BY NoFileType
<1>4. /\ new \in FileRec /\ new.refs = NoFile.refs /\ new.name = n
      /\ new.marked_for_deletion = NoFile.marked_for_deletion
      /\ new.total_size = NoFile.total_size
      /\ new.mem = Zeros(BLOCK_SIZE) /\ new.last_block = 1
  BY <1>1, <1>2, <1>3 DEF FileRec
<1>5. NoFile.total_size = 0
  BY DEF NoFile
<1>6. Blocks(new) = 1
  BY <1>1, <1>4, WholeBlocks
<1> QED
  BY <1>1, <1>4, <1>5, <1>6, NoFileType DEF new

(* ufs_create_fd, with the list and the files as ufs_open leaves them: a   *)
(* descriptor takes a free slot, or calloc fails and a new file stays      *)
(* without one.                                                            *)
LEMMA CreateFd ==
  ASSUME FSInv, NEW x \in Files, NEW files \in [Files -> FileRec], NEW flags,
         ufs_create_fd(x, files, flags), file_descriptor_count < MaxFds,
         UNCHANGED <<crashed, down>>,
         \A y \in Files : y # x => files[y] = file[y],
         files[x].refs = Cardinality(FdsOf(x)),
         Len(files[x].mem) = Blocks(files[x]) * BLOCK_SIZE,
         files[x].last_block <= Blocks(files[x]), Blocks(files[x]) \in Nat,
         FdsOf(x) = {} \/ Blocks(files[x]) = Blocks(file[x]),
         file_list' \in Seq(Files), Distinct',
         \E i \in DOMAIN file_list' : file_list'[i] = x,
         \A i \in DOMAIN file_list : \E j \in DOMAIN file_list' : file_list'[j] = file_list[i],
         OnePerName(files, file_list')
  PROVE  FSInv'
<1> USE FSAssumption
<1>0. ASSUME NEW i \in Used
      PROVE  /\ file_descriptors[i].file \in Files
             /\ Blocks(files[file_descriptors[i].file]) =
                  Blocks(file[file_descriptors[i].file])
  <2>1. file_descriptors[i] \in FileDesc
    BY TableFinite DEF FSInv
  <2> QED
    BY <2>1 DEF FdsOf, FileDesc
<1>1. CASE file' = files /\ UNCHANGED fdVars /\ Fail("NO_MEM")
  <2>1. /\ UNCHANGED <<file_descriptors, file_descriptor_count, file_descriptors_rr_ptr>>
        /\ Used' = Used /\ \A y : FdsOf(y)' = FdsOf(y)
    BY <1>1 DEF fdVars, Used, Slots, FdsOf
  <2>2. Types'
    BY <1>1, <2>1 DEF FSInv, Types, Fail
  <2>3. RefsExact'
    <3>1. ASSUME NEW y \in Files
          PROVE  /\ file'[y].refs = Cardinality(FdsOf(y)')
                 /\ FdsOf(y)' # {} => \E i \in DOMAIN file_list' : file_list'[i] = y
      <4>1. /\ file[y].refs = Cardinality(FdsOf(y))
            /\ FdsOf(y) # {} => \E i \in DOMAIN file_list : file_list[i] = y
        BY DEF FSInv, Table, RefsExact
      <4> QED
        BY <1>1, <2>1, <4>1
    <3> QED
      BY <3>1 DEF RefsExact
  <2>4. OneFilePerName' /\ FdTable'
    BY <1>1, <2>1 DEF FSInv, Table, OneFilePerName, OnePerName, FdTable
  <2>5. Chains'
    BY <1>1 DEF FSInv, Chains, Blocks
  <2>6. Cursors'
    BY <1>0, <1>1, <2>1 DEF FSInv, Cursors
  <2> QED
    BY <2>2, <2>3, <2>4, <2>5, <2>6 DEF FSInv, Table
<1>2. CASE ~(file' = files /\ UNCHANGED fdVars /\ Fail("NO_MEM"))
  <2> DEFINE table == ufs_extend_fd_list_if_needed
             idx == FreeIndex(table)
             plain == flags \cap {"READ_ONLY", "WRITE_ONLY", "READ_WRITE"} = {}
             r == plain \/ "READ_ONLY" \in flags \/ "READ_WRITE" \in flags
             w == plain \/ "WRITE_ONLY" \in flags \/ "READ_WRITE" \in flags
             cb == IF Blocks(files[x]) = 0 THEN 0 ELSE 1
             fd == [file |-> x, total_offset |-> 0, cur_block |-> cb,
                    read_allowed |-> r, write_allowed |-> w]
  <2>1. /\ file' = [files EXCEPT ![x].refs = @ + 1]
        /\ file_descriptors' = [table EXCEPT ![idx + 1] = fd]
        /\ file_descriptors_rr_ptr' = idx
        /\ file_descriptor_count' = file_descriptor_count + 1
        /\ ufs_error_code' = "NO_ERR"
    BY <1>2 DEF ufs_create_fd
  <2>2. r \in BOOLEAN /\ w \in BOOLEAN
    BY Zenon
  <2> HIDE DEF r, w
  <2>3. cb \in 0 .. Blocks(files[x])
    OBVIOUS
  <2> HIDE DEF cb
  <2>4. fd \in FileDesc /\ fd # NULL /\ fd.file = x /\ fd.total_offset = 0 /\ fd.cur_block = cb
    BY <2>2, <2>3 DEF FileDesc
  <2> HIDE DEF fd
  <2>5. Types /\ FdTable
    BY DEF FSInv, Table
  <2>6. /\ table \in Seq(FileDesc \cup {NULL})
        /\ Len(table) \in Nat \ {0} /\ Len(file_descriptors) <= Len(table)
        /\ \A i \in 1 .. Len(table) :
             table[i] = IF i <= Len(file_descriptors) THEN file_descriptors[i] ELSE NULL
        /\ idx \in 0 .. Len(table) - 1 /\ table[idx + 1] = NULL
    BY <2>5, FreeSlot
  <2> HIDE DEF table, idx
  <2>7. /\ Len(file_descriptors) \in Nat /\ Slots = 1 .. Len(file_descriptors)
        /\ Used \subseteq 1 .. Len(file_descriptors) /\ IsFiniteSet(Used)
    BY <2>5, TableFinite
  <2>8. /\ file_descriptors' \in Seq(FileDesc \cup {NULL})
        /\ Len(file_descriptors') = Len(table) /\ idx + 1 \in 1 .. Len(table)
        /\ file_descriptors'[idx + 1] = fd
        /\ \A i \in 1 .. Len(table) : i # idx + 1 => file_descriptors'[i] = table[i]
    BY <2>1, <2>4, <2>6
  <2>9. /\ Used' = Used \cup {idx + 1} /\ idx + 1 \notin Used
        /\ \A i \in Used : file_descriptors'[i] = file_descriptors[i]
    <3>1. Slots' = 1 .. Len(table)
      BY <2>8 DEF Slots
    <3>2. idx + 1 \notin Used
      BY <2>6, <2>7 DEF Used
    <3>3. \A i \in 1 .. Len(table) :
            i \in Used' <=> i \in Used \/ i = idx + 1
      <4>1. \A i \in 1 .. Len(table) : i \in Used' <=> file_descriptors'[i] # NULL
        BY <3>1, Zenon DEF Used
      <4>2. \A i \in 1 .. Len(table) : i \in Used <=> table[i] # NULL
        BY <2>6, <2>7 DEF Used
      <4> QED
        BY <2>4, <2>8, <4>1, <4>2, Zenon
    <3>4. \A i \in Used : i \in 1 .. Len(table) /\ file_descriptors'[i] = file_descriptors[i]
      <4>1. \A i \in 1 .. Len(file_descriptors) :
              i \in 1 .. Len(table) /\ table[i] = file_descriptors[i]
        BY <2>6, <2>7
      <4> QED
        BY <2>7, <2>8, <3>2, <4>1
    <3>5. Used' \subseteq 1 .. Len(table)
      BY <3>1 DEF Used
    <3> QED
      BY <2>8, <3>2, <3>3, <3>4, <3>5
  <2>10. /\ FdsOf(x)' = FdsOf(x) \cup {idx + 1} /\ idx + 1 \notin FdsOf(x)
         /\ \A y : y # x => FdsOf(y)' = FdsOf(y)
    BY <2>4, <2>8, <2>9 DEF FdsOf
  <2>11. /\ file' \in [Files -> FileRec]
         /\ file'[x] = [files[x] EXCEPT !.refs = @ + 1]
         /\ \A y \in Files : y # x => file'[y] = file[y]
    <3>1. files[x] \in FileRec
      OBVIOUS
    <3>2. files[x].refs + 1 \in Nat
      <4>1. files[x].refs \in Nat
        BY <3>1 DEF FileRec
      <4> QED
        BY ONLY <4>1
    <3>4. [files[x] EXCEPT !.refs = @ + 1] \in FileRec
      BY <3>1, <3>2, FieldRefs
    <3>3. file' = [files EXCEPT ![x] = [files[x] EXCEPT !.refs = @ + 1]]
      BY <2>1
    <3> QED
      BY <3>3, <3>4
  <2>12. /\ file'[x].refs = files[x].refs + 1 /\ file'[x].mem = files[x].mem
         /\ file'[x].last_block = files[x].last_block /\ file'[x].name = files[x].name
         /\ file'[x].marked_for_deletion = files[x].marked_for_deletion
    BY <2>11 DEF FileRec
  <2>13. Types'
    <3>1. file_descriptor_count' \in 0 .. MaxFds
      BY <2>1, <2>5 DEF Types
    <3>2. /\ file_descriptors_rr_ptr' \in Nat
          /\ file_descriptors_rr_ptr' < Len(file_descriptors')
          /\ Len(file_descriptors') # 0
      BY <2>1, <2>6, <2>8
    <3> QED
      BY <2>1, <2>5, <2>8, <2>11, <3>1, <3>2 DEF Types
  <2>14. FdTable'
    BY <2>1, <2>5, <2>7, <2>9, FS_AddElement DEF FdTable
  <2>15. RefsExact'
    <3>1. Cardinality(FdsOf(x) \cup {idx + 1}) = Cardinality(FdsOf(x)) + 1
      <4>1. IsFiniteSet(FdsOf(x))
        BY <2>5, TableFinite
      <4> QED
        BY <2>10, <4>1, FS_AddElement
    <3>2. file'[x].refs = Cardinality(FdsOf(x)')
      BY <2>10, <2>12, <3>1
    <3>3. ASSUME NEW y \in Files, y # x
          PROVE  /\ file'[y].refs = Cardinality(FdsOf(y)')
                 /\ FdsOf(y)' # {} => \E i \in DOMAIN file_list' : file_list'[i] = y
      <4>1. file'[y] = file[y] /\ FdsOf(y)' = FdsOf(y)
        BY <2>10, <2>11, <3>3
      <4>2. /\ file[y].refs = Cardinality(FdsOf(y))
            /\ FdsOf(y) # {} => \E i \in DOMAIN file_list : file_list[i] = y
        BY DEF FSInv, Table, RefsExact
      <4> QED
        BY <4>1, <4>2
    <3> QED
      BY <3>2, <3>3 DEF RefsExact
  <2>16. OneFilePerName'
    <3>1. \A y \in Files : /\ file'[y].name = files[y].name
                           /\ file'[y].marked_for_deletion = files[y].marked_for_deletion
                           /\ files[y].refs > 0 => file'[y].refs > 0
                           /\ files[y].refs \in Nat
      <4>1. \A y \in Files : files[y].refs \in Nat
        BY DEF FileRec
      <4>2. \A y \in Files : y # x => file'[y] = files[y]
        BY <2>11
      <4>3. files[x].refs > 0 => file'[x].refs > 0
        BY <2>12, <4>1
      <4> QED
        BY <2>12, <4>1, <4>2, <4>3, Zenon
    <3>2. \A i \in DOMAIN file_list' : file_list'[i] \in Files
      OBVIOUS
    <3> QED
      BY <3>1, <3>2 DEF OneFilePerName, OnePerName
  <2>17. Chains'
    BY <2>11, <2>12 DEF FSInv, Chains, Blocks
  <2>18. Cursors'
    <3>1. \A y \in Files : Blocks(file'[y]) = Blocks(files[y])
      BY <2>11, <2>12 DEF Blocks
    <3>2. 0 \in 0 .. MAX_FILE_SIZE
      OBVIOUS
    <3>3. \A i \in Used : /\ file_descriptors[i].file \in Files
                          /\ file_descriptors[i].total_offset \in 0 .. MAX_FILE_SIZE
                          /\ file_descriptors[i].cur_block \in
                               0 .. Blocks(files[file_descriptors[i].file])
      BY <1>0 DEF FSInv, Cursors
    <3>4. ASSUME NEW i \in Used
          PROVE  /\ file_descriptors'[i].total_offset \in 0 .. MAX_FILE_SIZE
                 /\ file_descriptors'[i].cur_block \in
                      0 .. Blocks(file'[file_descriptors'[i].file])
      BY <2>9, <3>1, <3>3, Zenon
    <3>5. /\ file_descriptors'[idx + 1].total_offset \in 0 .. MAX_FILE_SIZE
          /\ file_descriptors'[idx + 1].cur_block \in
               0 .. Blocks(file'[file_descriptors'[idx + 1].file])
      BY <2>3, <2>4, <2>8, <3>1, <3>2, Zenon
    <3> QED
      BY <2>9, <3>4, <3>5 DEF Cursors
  <2> QED
    BY <2>13, <2>14, <2>15, <2>16, <2>17, <2>18 DEF FSInv, Table
<1> QED
  BY <1>1, <1>2

(* ufs_open creates a file only when the name is free, and at an address   *)
(* that no file on the list has.                                           *)
LEMMA StepOpen ==
  ASSUME FSInv, NEW n \in Names, NEW flags, ufs_open(n, flags)
  PROVE  FSInv'
<1> USE FSAssumption
<1> DEFINE found == ufs_find_file(n)
<1>1. /\ Types /\ Distinct /\ RefsExact /\ OneFilePerName
      /\ file \in [Files -> FileRec] /\ file_list \in Seq(Files)
      /\ crashed \in BOOLEAN /\ down \in BOOLEAN
  BY DEF FSInv, Table, Types
<1>2. CASE Refuse("NO_FILE") \/ Refuse("NO_MEM")
  <2>1. /\ UNCHANGED <<fileVars, fdVars, crashed, down>>
        /\ ufs_error_code' \in {"NO_ERR", "NO_FILE", "NO_MEM", "NO_PERMISSION"}
    BY <1>2 DEF Refuse, Fail
  <2> QED
    BY <1>1, <2>1, ResultFrame
<1>3. ASSUME found = NULL, NEW x \in Files, \A i \in DOMAIN file_list : file_list[i] # x,
             ufs_create_fd(x, [file EXCEPT ![x] = ufs_create_file(n)], flags),
             file_list' = Append(file_list, x), UNCHANGED <<crashed, down>>,
             file_descriptor_count < MaxFds
      PROVE  FSInv'
  <2> DEFINE new == ufs_create_file(n)
             files == [file EXCEPT ![x] = new]
  <2>1. /\ new \in FileRec /\ new.refs = 0 /\ new.name = n /\ ~new.marked_for_deletion
        /\ new.last_block = 1 /\ Len(new.mem) = 1 * BLOCK_SIZE
    BY NewFile
  <2>2. Blocks(new) = 1
    BY NewFile
  <2> HIDE DEF new
  <2>3. /\ files \in [Files -> FileRec] /\ files[x] = new
        /\ \A y \in Files : y # x => files[y] = file[y]
    BY <1>1, <2>1
  <2> HIDE DEF files
  <2>4. ufs_create_fd(x, files, flags)
    BY <1>3 DEF files, new
  <2>5. FdsOf(x) = {} /\ Cardinality(FdsOf(x)) = 0
    BY <1>1, <1>3, FS_EmptySet DEF RefsExact
  <2>6. /\ file_list' \in Seq(Files) /\ Len(file_list') = Len(file_list) + 1
        /\ \A i \in 1 .. Len(file_list) : file_list'[i] = file_list[i]
        /\ file_list'[Len(file_list) + 1] = x /\ Len(file_list) \in Nat
    BY <1>1, <1>3, AppendProperties
  <2>7. /\ DOMAIN file_list = 1 .. Len(file_list)
        /\ DOMAIN file_list' = 1 .. Len(file_list) + 1
    BY <1>1, <2>6
  <2>8. Distinct'
    BY <1>1, <1>3, <2>6, <2>7 DEF Distinct
  <2>9. /\ \E i \in DOMAIN file_list' : file_list'[i] = x
        /\ \A i \in DOMAIN file_list : \E j \in DOMAIN file_list' : file_list'[j] = file_list[i]
    BY <2>6, <2>7
  <2>10. OnePerName(files, file_list')
    <3> SUFFICES ASSUME NEW i \in DOMAIN file_list', NEW j \in DOMAIN file_list'
                 PROVE  LET f == files[file_list'[i]]
                            g == files[file_list'[j]]
                        IN  /\ f.marked_for_deletion => f.refs > 0
                            /\ f.name = g.name /\ ~f.marked_for_deletion
                                 /\ ~g.marked_for_deletion => i = j
      BY DEF OnePerName
    <3>1. \A k \in DOMAIN file_list : /\ file_list'[k] = file_list[k]
                                      /\ files[file_list[k]] = file[file_list[k]]
                                      /\ file[file_list[k]].name = n =>
                                           file[file_list[k]].marked_for_deletion
      <4>1. \A k \in DOMAIN file_list :
              file[file_list[k]].name = n => file[file_list[k]].marked_for_deletion
        BY <1>1, <1>3, FindFile
      <4>2. \A k \in DOMAIN file_list : file_list[k] \in Files
        BY <1>1
      <4> QED
        BY <1>3, <2>3, <2>6, <2>7, <4>1, <4>2
    <3>2. \A k \in DOMAIN file_list' : k \in DOMAIN file_list \/ file_list'[k] = x
      BY <2>6, <2>7
    <3>3. CASE i \in DOMAIN file_list /\ j \in DOMAIN file_list
      BY <1>1, <3>1, <3>3 DEF OneFilePerName
    <3>4. CASE i \in DOMAIN file_list /\ j \notin DOMAIN file_list
      BY <1>1, <2>1, <2>3, <3>1, <3>2, <3>4 DEF OneFilePerName
    <3>5. CASE i \notin DOMAIN file_list /\ j \in DOMAIN file_list
      BY <1>1, <2>1, <2>3, <3>1, <3>2, <3>5 DEF OneFilePerName
    <3>6. CASE i \notin DOMAIN file_list /\ j \notin DOMAIN file_list
      <4>1. i = j
        BY <2>6, <2>7, <3>6
      <4> QED
        BY <2>1, <2>3, <3>2, <3>6, <4>1
    <3> QED
      BY <3>3, <3>4, <3>5, <3>6
  <2>11. /\ files[x].refs = Cardinality(FdsOf(x))
         /\ Len(files[x].mem) = Blocks(files[x]) * BLOCK_SIZE
         /\ files[x].last_block <= Blocks(files[x]) /\ Blocks(files[x]) \in Nat
    BY <2>1, <2>2, <2>3, <2>5
  <2> QED
    BY <1>3, <2>3, <2>4, <2>5, <2>6, <2>8, <2>9, <2>10, <2>11, CreateFd
<1>4. ASSUME found # NULL, ufs_create_fd(found, file, flags),
             UNCHANGED <<file_list, crashed, down>>, file_descriptor_count < MaxFds
      PROVE  FSInv'
  <2>1. PICK i \in DOMAIN file_list : file_list[i] = found /\ found \in Files
    BY <1>1, <1>4, FindFile
  <2> HIDE DEF found
  <2>2. /\ Len(file[found].mem) = Blocks(file[found]) * BLOCK_SIZE
        /\ file[found].last_block <= Blocks(file[found]) /\ Blocks(file[found]) \in Nat
    BY <2>1, BlockNumbers
  <2>3. file[found].refs = Cardinality(FdsOf(found))
    BY <1>1, <2>1 DEF RefsExact
  <2>4. file_list' \in Seq(Files) /\ Distinct'
    BY <1>1, <1>4 DEF Distinct
  <2>5. OnePerName(file, file_list')
    BY <1>1, <1>4 DEF OneFilePerName, OnePerName
  <2> QED
    BY <1>1, <1>4, <2>1, <2>2, <2>3, <2>4, <2>5, CreateFd
<1> QED
  BY <1>2, <1>3, <1>4 DEF ufs_open

(* The list without a file that was on it *)
LEMMA RealDelete ==
  ASSUME Types, Distinct, NEW x \in Files, \E i \in DOMAIN file_list : file_list[i] = x
  PROVE  /\ ListWithout(x) \in Seq(Files)
         /\ \A j, k \in DOMAIN ListWithout(x) :
              ListWithout(x)[j] = ListWithout(x)[k] => j = k
         /\ \A k \in DOMAIN ListWithout(x) :
              ListWithout(x)[k] # x /\ \E i \in DOMAIN file_list : file_list[i] = ListWithout(x)[k]
         /\ \A i \in DOMAIN file_list :
              file_list[i] # x => \E k \in DOMAIN ListWithout(x) : ListWithout(x)[k] = file_list[i]
<1> DEFINE p == CHOOSE i \in DOMAIN file_list : file_list[i] = x
           L == ListWithout(x)
           N == Len(file_list)
           from(k) == IF k < p THEN k ELSE k + 1
<1>1. p \in DOMAIN file_list /\ file_list[p] = x
  OBVIOUS
<1>2. file_list \in Seq(Files) /\ N \in Nat /\ DOMAIN file_list = 1 .. N
  BY DEF Types
<1>3. L = RemoveAt(file_list, p)
  BY DEF ListWithout
<1> HIDE DEF p, L
<1>4. /\ L \in Seq(Files) /\ Len(L) = N - 1
      /\ \A k \in 1 .. N - 1 : L[k] = IF k < p THEN file_list[k] ELSE file_list[k + 1]
  BY <1>1, <1>2, <1>3, RemoveAtProperties
<1> HIDE DEF N
<1>5. DOMAIN L = 1 .. N - 1
  BY <1>4
<1>6. p \in 1 .. N
  BY <1>1, <1>2
<1>7. \A k \in 1 .. N - 1 : from(k) \in 1 .. N /\ from(k) # p /\ L[k] = file_list[from(k)]
  BY <1>2, <1>4, <1>6
<1>8. \A j, k \in 1 .. N - 1 : from(j) = from(k) => j = k
  BY <1>2, <1>6
<1>9. \A i \in 1 .. N : i # p => \E k \in 1 .. N - 1 : from(k) = i
  <2> SUFFICES ASSUME NEW i \in 1 .. N, i # p PROVE \E k \in 1 .. N - 1 : from(k) = i
    OBVIOUS
  <2>1. CASE i < p
    BY <1>2, <1>6, <2>1
  <2>2. CASE i > p
    <3>1. i - 1 \in 1 .. N - 1 /\ from(i - 1) = i
      BY <1>2, <1>6, <2>2
    <3> QED
      BY <3>1
  <2> QED
    BY <1>2, <1>6, <2>1, <2>2
<1> HIDE DEF from
<1>10. \A i, j \in 1 .. N : file_list[i] = file_list[j] => i = j
  BY <1>2 DEF Distinct
<1>11. \A j, k \in DOMAIN L : L[j] = L[k] => j = k
  BY <1>5, <1>7, <1>8, <1>10
<1>12. \A k \in DOMAIN L : L[k] # x /\ \E i \in DOMAIN file_list : file_list[i] = L[k]
  BY <1>1, <1>2, <1>5, <1>6, <1>7, <1>10
<1>13. \A i \in DOMAIN file_list : file_list[i] # x => \E k \in DOMAIN L : L[k] = file_list[i]
  BY <1>1, <1>2, <1>5, <1>7, <1>9
<1> QED
  BY <1>4, <1>11, <1>12, <1>13 DEF L

(* ufs_real_delete_file of a file that no descriptor refers to any more *)
LEMMA FileGone ==
  ASSUME FSInv, NEW x \in Files, \E i \in DOMAIN file_list : file_list[i] = x,
         file' = [file EXCEPT ![x] = NoFile], file_list' = ListWithout(x),
         FdsOf(x)' = {}, \A y : y # x => FdsOf(y)' = FdsOf(y),
         \A j \in Used' : j \in Used /\ file_descriptors'[j] = file_descriptors[j]
  PROVE  /\ file' \in [Files -> FileRec] /\ file_list' \in Seq(Files) /\ Distinct'
         /\ RefsExact' /\ OneFilePerName' /\ Chains' /\ Cursors'
<1>1. /\ Types /\ Distinct /\ RefsExact /\ OneFilePerName /\ Chains /\ Cursors
      /\ file \in [Files -> FileRec] /\ file_list \in Seq(Files)
      /\ \A j \in Used : file_descriptors[j].file \in Files
  <2>1. \A j \in Used : file_descriptors[j] \in FileDesc
    BY TableFinite DEF FSInv
  <2> QED
    BY <2>1 DEF FSInv, Table, Types, FileDesc
<1>2. NoFile \in FileRec /\ NoFile.refs = 0 /\ NoFile.last_block = 0 /\ Len(NoFile.mem) = 0
  BY NoFileType
<1>3. /\ file' \in [Files -> FileRec] /\ file'[x] = NoFile
      /\ \A y \in Files : y # x => file'[y] = file[y]
  BY <1>1, <1>2
<1>4. /\ file_list' \in Seq(Files) /\ Distinct'
      /\ \A k \in DOMAIN file_list' : file_list'[k] # x
      /\ \A k \in DOMAIN file_list' : \E j \in DOMAIN file_list : file_list[j] = file_list'[k]
      /\ \A j \in DOMAIN file_list : file_list[j] # x =>
           \E k \in DOMAIN file_list' : file_list'[k] = file_list[j]
  BY <1>1, RealDelete DEF Distinct
<1>5. RefsExact'
  <2>1. file'[x].refs = Cardinality(FdsOf(x)')
    BY <1>2, <1>3, FS_EmptySet
  <2>2. ASSUME NEW y \in Files, y # x
        PROVE  /\ file'[y].refs = Cardinality(FdsOf(y)')
               /\ FdsOf(y)' # {} => \E k \in DOMAIN file_list' : file_list'[k] = y
    <3>1. file'[y] = file[y] /\ FdsOf(y)' = FdsOf(y)
      BY <1>3, <2>2
    <3>2. /\ file[y].refs = Cardinality(FdsOf(y))
          /\ FdsOf(y) # {} => \E k \in DOMAIN file_list : file_list[k] = y
      BY <1>1 DEF RefsExact
    <3> QED
      BY <1>4, <2>2, <3>1, <3>2
  <2> QED
    BY <2>1, <2>2 DEF RefsExact
<1>6. OneFilePerName'
  <2> SUFFICES ASSUME NEW j \in DOMAIN file_list', NEW k \in DOMAIN file_list'
               PROVE  LET f == file'[file_list'[j]]
                          g == file'[file_list'[k]]
                      IN  /\ f.marked_for_deletion => f.refs > 0
                          /\ f.name = g.name /\ ~f.marked_for_deletion
                               /\ ~g.marked_for_deletion => j = k
    BY DEF OneFilePerName
  <2>1. PICK a \in DOMAIN file_list : file_list[a] = file_list'[j] /\ file_list[a] # x
    BY <1>4
  <2>2. PICK b \in DOMAIN file_list : file_list[b] = file_list'[k] /\ file_list[b] # x
    BY <1>4
  <2>3. file_list[a] \in Files /\ file_list[b] \in Files
    BY <1>1
  <2>4. file'[file_list[a]] = file[file_list[a]] /\ file'[file_list[b]] = file[file_list[b]]
    BY ONLY <1>3, <2>1, <2>2, <2>3, Zenon
  <2>5. /\ file'[file_list'[j]] = file[file_list[a]]
        /\ file'[file_list'[k]] = file[file_list[b]]
    BY ONLY <2>1, <2>2, <2>4, Zenon
  <2>6. a = b => j = k
    <3>1. \A s, t \in DOMAIN file_list' : file_list'[s] = file_list'[t] => s = t
      BY <1>4, Zenon DEF Distinct
    <3> QED
      BY ONLY <2>1, <2>2, <3>1, j \in DOMAIN file_list', k \in DOMAIN file_list', Zenon
  <2> QED
    BY <1>1, <2>5, <2>6 DEF OneFilePerName
<1>7. Chains'
  <2>1. Blocks(NoFile) = 0 /\ 0 = 0 * BLOCK_SIZE
    <3>1. 0 = 0 * BLOCK_SIZE /\ 0 \in Int
      BY FSAssumption
    <3> QED
      BY ONLY <1>2, <3>1, WholeBlocks
  <2>2. ASSUME NEW y \in Files
        PROVE  /\ Len(file'[y].mem) = Blocks(file'[y]) * BLOCK_SIZE
               /\ file'[y].last_block <= Blocks(file'[y])
    <3>1. CASE y = x
      <4>1. file'[y] = NoFile
        BY <1>3, <3>1
      <4> QED
        BY ONLY <1>2, <2>1, <4>1
    <3>2. CASE y # x
      <4>1. file'[y] = file[y]
        BY <1>3, <3>2
      <4> QED
        BY ONLY <1>1, <4>1, y \in Files DEF Chains
    <3> QED
      BY <3>1, <3>2
  <2> QED
    BY ONLY <2>2 DEF Chains, Blocks
<1>8. Cursors'
  <2>1. \A j \in Used' : file_descriptors[j].file # x
    BY DEF FdsOf
  <2> QED
    BY <1>1, <1>3, <2>1 DEF Cursors
<1> QED
  BY <1>3, <1>4, <1>5, <1>6, <1>7, <1>8

(* ufs_delete_fd: the counts go down by one, and a deleted file goes with  *)
(* its last descriptor.                                                    *)
LEMMA DeleteFd ==
  ASSUME FSInv, NEW i \in Used, ufs_delete_fd(i),
         ufs_error_code' \in {"NO_ERR", "NO_FILE", "NO_MEM", "NO_PERMISSION"},
         crashed' \in BOOLEAN, down' \in BOOLEAN
  PROVE  FSInv'
<1> USE FSAssumption
<1>1. /\ Types /\ Distinct /\ RefsExact /\ OneFilePerName /\ FdTable /\ Chains /\ Cursors
      /\ file \in [Files -> FileRec] /\ file_list \in Seq(Files)
      /\ file_descriptors \in Seq(FileDesc \cup {NULL})
  BY DEF FSInv, Table, Types
<1>2. PICK x \in Files : /\ x = file_descriptors[i].file
                         /\ i \in DOMAIN file_descriptors /\ i \in FdsOf(x)
                         /\ \A j \in Used : file_descriptors[j].file \in Files
  <2>1. \A j \in Used : file_descriptors[j] \in FileDesc
    BY <1>1, TableFinite
  <2> QED
    BY <2>1 DEF FileDesc, Used, Slots, FdsOf
<1>3. /\ file_descriptors' = [file_descriptors EXCEPT ![i] = NULL]
      /\ file_descriptor_count' = file_descriptor_count - 1
      /\ UNCHANGED file_descriptors_rr_ptr
  BY DEF ufs_delete_fd, CountLeft
<1>4. /\ file_descriptors' \in Seq(FileDesc \cup {NULL})
      /\ Len(file_descriptors') = Len(file_descriptors)
      /\ DOMAIN file_descriptors' = DOMAIN file_descriptors
      /\ \A j \in DOMAIN file_descriptors : j # i => file_descriptors'[j] = file_descriptors[j]
  BY <1>1, <1>2, <1>3
<1>5. Used' = Used \ {i}
  BY <1>2, <1>3, <1>4 DEF Used, Slots
<1>6. FdsOf(x)' = FdsOf(x) \ {i} /\ \A y : y # x => FdsOf(y)' = FdsOf(y)
  BY <1>2, <1>4, <1>5 DEF FdsOf, Used, Slots
<1>7. /\ Cardinality(Used \ {i}) = Cardinality(Used) - 1
      /\ Cardinality(FdsOf(x) \ {i}) = Cardinality(FdsOf(x)) - 1
      /\ IsFiniteSet(FdsOf(x) \ {i}) /\ Cardinality(Used \ {i}) \in Nat
      /\ Cardinality(FdsOf(x) \ {i}) \in Nat
  <2>1. IsFiniteSet(Used) /\ IsFiniteSet(FdsOf(x))
    BY <1>1, TableFinite
  <2> QED
    BY <1>2, <2>1, FS_RemoveElement, FS_CardinalityType
<1>8. FdTable' /\ file_descriptor_count' \in 0 .. MaxFds
  BY <1>1, <1>3, <1>5, <1>7 DEF FdTable, Types
<1>9. file[x].refs = Cardinality(FdsOf(x)) /\ \E k \in DOMAIN file_list : file_list[k] = x
  BY <1>1, <1>2 DEF RefsExact
<1>10. CASE Dropped(x)
  <2>1. file' = [file EXCEPT ![x] = NoFile] /\ file_list' = ListWithout(x)
    BY <1>2, <1>10 DEF ufs_delete_fd
  <2>2. FdsOf(x)' = {}
    BY <1>6, <1>7, <1>9, <1>10, FS_EmptySet DEF Dropped
  <2>3. \A j \in Used' : j \in Used /\ file_descriptors'[j] = file_descriptors[j]
    BY <1>4, <1>5 DEF Used, Slots
  <2>4. /\ file' \in [Files -> FileRec] /\ file_list' \in Seq(Files) /\ Distinct'
        /\ RefsExact' /\ OneFilePerName' /\ Chains' /\ Cursors'
    BY <1>6, <1>9, <2>1, <2>2, <2>3, FileGone
  <2>5. Types'
    BY <1>1, <1>3, <1>4, <1>8, <2>4 DEF Types
  <2> QED
    BY <1>8, <2>4, <2>5 DEF FSInv, Table
<1>11. CASE ~Dropped(x)
  <2> DEFINE g == [file[x] EXCEPT !.refs = @ - 1]
  <2>1. file' = [file EXCEPT ![x] = g] /\ UNCHANGED file_list
    BY <1>2, <1>11 DEF ufs_delete_fd
  <2>2. /\ g \in FileRec /\ g.refs = file[x].refs - 1 /\ g.name = file[x].name
        /\ g.marked_for_deletion = file[x].marked_for_deletion
        /\ g.mem = file[x].mem /\ g.last_block = file[x].last_block
    <3>1. file[x] \in FileRec /\ file[x].refs - 1 \in Nat
      BY <1>1, <1>2, <1>7, <1>9
    <3> QED
      BY <3>1, FieldRefs
  <2> HIDE DEF g
  <2>3. /\ file' \in [Files -> FileRec] /\ file'[x] = g
        /\ \A y \in Files : y # x => file'[y] = file[y]
    BY <1>1, <1>2, <2>1, <2>2
  <2>4. Types'
    BY <1>1, <1>3, <1>4, <1>8, <2>1, <2>3 DEF Types
  <2>5. RefsExact'
    <3>1. file'[x].refs = Cardinality(FdsOf(x)')
      BY <1>6, <1>7, <1>9, <2>2, <2>3
    <3> QED
      BY <1>1, <1>6, <1>9, <2>1, <2>3, <3>1 DEF RefsExact
  <2>6. OneFilePerName' /\ Distinct'
    <3>1. file[x].marked_for_deletion => g.refs > 0
      <4>1. g.refs \in Nat /\ (g.refs = 0 => file[x].refs = 1)
        BY <1>7, <1>9, <2>2
      <4>2. file[x].marked_for_deletion => file[x].refs # 1
        BY <1>11 DEF Dropped
      <4> QED
        BY <4>1, <4>2
    <3>2. \A y \in Files : /\ file'[y].name = file[y].name
                           /\ file'[y].marked_for_deletion = file[y].marked_for_deletion
      BY <2>2, <2>3
    <3>3. \A k \in DOMAIN file_list : file_list[k] \in Files
      BY <1>1
    <3> QED
      BY <1>1, <2>1, <2>3, <3>1, <3>2, <3>3 DEF OneFilePerName, Distinct
  <2>7. Chains' /\ \A y \in Files : Blocks(file'[y]) = Blocks(file[y])
    BY <1>1, <2>2, <2>3 DEF Chains, Blocks
  <2>8. Cursors'
    <3>1. \A j \in Used' : j \in Used /\ file_descriptors'[j] = file_descriptors[j]
      BY <1>4, <1>5 DEF Used, Slots
    <3> QED
      BY <1>1, <1>2, <2>7, <3>1 DEF Cursors
  <2> QED
    BY <1>8, <2>4, <2>5, <2>6, <2>7, <2>8 DEF FSInv, Table
<1> QED
  BY <1>10, <1>11

(* ufs_close, and the loop of ufs_shutdown. *)
LEMMA StepClose ==
  ASSUME FSInv, (\E i \in Handles : ufs_close(i)) \/ ufs_shutdown
  PROVE  FSInv'
<1>1. /\ ufs_error_code \in {"NO_ERR", "NO_FILE", "NO_MEM", "NO_PERMISSION"}
      /\ crashed \in BOOLEAN /\ down \in BOOLEAN
  BY DEF FSInv, Types
<1>2. CASE \E i \in Handles : ufs_close(i)
  <2>1. PICK i \in Handles : ufs_close(i)
    BY <1>2
  <2>2. CASE i \in Used
    <3>1. ufs_delete_fd(i) /\ UNCHANGED <<ufs_error_code, crashed, down>>
      BY <2>1, <2>2 DEF ufs_close, Succeed
    <3> QED
      BY <1>1, <2>2, <3>1, DeleteFd
  <2>3. CASE i \notin Used
    <3>1. UNCHANGED <<fileVars, fdVars, crashed, down>> /\ ufs_error_code' = "NO_FILE"
      BY <2>1, <2>3 DEF ufs_close, Refuse, Fail
    <3> QED
      BY <1>1, <3>1, ResultFrame
  <2> QED
    BY <2>2, <2>3
<1>3. CASE ufs_shutdown /\ ~down
  <2>1. UNCHANGED <<fileVars, fdVars, ufs_error_code, crashed>> /\ down' = TRUE
    BY <1>3 DEF ufs_shutdown, resultVars
  <2> QED
    BY <1>1, <2>1, ResultFrame
<1>4. CASE ufs_shutdown /\ down
  <2>1. /\ Used # {} /\ ufs_delete_fd(Min(Used))
        /\ UNCHANGED <<ufs_error_code, crashed, down>>
    BY <1>4 DEF ufs_shutdown, resultVars, Running
  <2>2. Min(Used) \in Used
    <3>1. Used \subseteq Nat
      <4>1. Used \subseteq 1 .. Len(file_descriptors) /\ Len(file_descriptors) \in Nat
        BY TableFinite DEF FSInv
      <4> QED
        BY <4>1
    <3> QED
      BY <2>1, <3>1, MinProperties
  <2> QED
    BY <1>1, <2>1, <2>2, DeleteFd
<1> QED
  BY <1>2, <1>3, <1>4

(* ufs_delete frees a file without descriptors and marks any other. *)
LEMMA StepDelete == ASSUME FSInv, NEW n \in Names, ufs_delete(n) PROVE FSInv'
<1>1. /\ ufs_error_code \in {"NO_ERR", "NO_FILE", "NO_MEM", "NO_PERMISSION"}
      /\ crashed \in BOOLEAN /\ down \in BOOLEAN
      /\ Types /\ Distinct /\ RefsExact /\ OneFilePerName /\ FdTable /\ Chains /\ Cursors
      /\ file \in [Files -> FileRec] /\ file_list \in Seq(Files)
  BY DEF FSInv, Types, Table
<1>2. CASE ufs_find_file(n) = NULL
  <2>1. UNCHANGED <<fileVars, fdVars, crashed, down>> /\ ufs_error_code' = "NO_FILE"
    BY <1>2 DEF ufs_delete, Refuse, Fail
  <2> QED
    BY <1>1, <2>1, ResultFrame
<1>3. CASE ufs_find_file(n) # NULL
  <2>1. PICK x \in Files : /\ x = ufs_find_file(n)
                           /\ \E i \in DOMAIN file_list : file_list[i] = x
    BY <1>1, <1>3, FindFile
  <2>2. /\ UNCHANGED <<fdVars, ufs_error_code, crashed, down>>
        /\ file[x].refs = Cardinality(FdsOf(x))
    BY <1>1, <1>3, <2>1 DEF ufs_delete, Succeed, RefsExact
  <2>3. /\ UNCHANGED <<file_descriptors, file_descriptor_count, file_descriptors_rr_ptr>>
        /\ Used' = Used /\ \A y : FdsOf(y)' = FdsOf(y)
    BY <2>2 DEF fdVars, Used, Slots, FdsOf
  <2>4. CASE file[x].refs = 0
    <3>1. file' = [file EXCEPT ![x] = NoFile] /\ file_list' = ListWithout(x)
      BY <1>3, <2>1, <2>4 DEF ufs_delete, FreedByDelete
    <3>2. FdsOf(x)' = {}
      <4>1. IsFiniteSet(FdsOf(x))
        BY <1>1, TableFinite
      <4> QED
        BY <2>2, <2>3, <2>4, <4>1, FS_EmptySet
    <3>3. /\ file' \in [Files -> FileRec] /\ file_list' \in Seq(Files) /\ Distinct'
          /\ RefsExact' /\ OneFilePerName' /\ Chains' /\ Cursors'
      BY <2>1, <2>3, <3>1, <3>2, FileGone
    <3>4. Types' /\ FdTable'
      BY <1>1, <2>2, <2>3, <3>3 DEF Types, FdTable
    <3> QED
      BY <3>3, <3>4 DEF FSInv, Table
  <2>5. CASE file[x].refs # 0
    <3> DEFINE g == [file[x] EXCEPT !.marked_for_deletion = TRUE]
    <3>1. file' = [file EXCEPT ![x] = g] /\ UNCHANGED file_list
      BY <1>3, <2>1, <2>5 DEF ufs_delete, FreedByDelete
    <3>2. /\ g \in FileRec /\ g.refs = file[x].refs /\ g.name = file[x].name
          /\ g.marked_for_deletion /\ g.mem = file[x].mem /\ g.last_block = file[x].last_block
      <4>1. file[x] \in FileRec
        BY <1>1
      <4> QED
        BY <4>1, FieldMarked
    <3> HIDE DEF g
    <3>3. /\ file' \in [Files -> FileRec] /\ file'[x] = g
          /\ \A y \in Files : y # x => file'[y] = file[y]
      BY <1>1, <3>1, <3>2
    <3>4. Types' /\ FdTable' /\ Distinct'
      BY <1>1, <2>2, <2>3, <3>1, <3>3 DEF Types, FdTable, Distinct
    <3>5. RefsExact'
      <4>1. \A y \in Files : file'[y].refs = file[y].refs
        BY <3>2, <3>3
      <4> QED
        BY <1>1, <2>3, <3>1, <4>1 DEF RefsExact
    <3>6. OneFilePerName'
      <4>1. file[x].refs > 0
        <5>1. file[x].refs \in Nat
          BY <1>1 DEF FileRec
        <5> QED
          BY <2>5, <5>1
      <4>2. \A k \in DOMAIN file_list : file_list[k] \in Files
        BY <1>1
      <4> QED
        BY <1>1, <3>1, <3>2, <3>3, <4>1, <4>2 DEF OneFilePerName
    <3>7. Chains' /\ \A y \in Files : Blocks(file'[y]) = Blocks(file[y])
      BY <1>1, <3>2, <3>3 DEF Chains, Blocks
    <3>8. Cursors'
      <4>1. \A j \in Used : file_descriptors[j].file \in Files
        <5>1. \A j \in Used : file_descriptors[j] \in FileDesc
          BY <1>1, TableFinite
        <5> QED
          BY <5>1 DEF FileDesc
      <4> QED
        BY <1>1, <2>3, <3>7, <4>1 DEF Cursors
    <3> QED
      BY <3>4, <3>5, <3>6, <3>7, <3>8 DEF FSInv, Table
  <2> QED
    BY <2>4, <2>5
<1> QED
  BY <1>2, <1>3

(* A call that changes the chain of one file, which has k blocks then, and *)
(* the cursors of its descriptors.                                         *)
LEMMA ChainFrame ==
  ASSUME FSInv, NEW x \in Files, NEW g \in FileRec, NEW k \in Nat,
         file' = [file EXCEPT ![x] = g],
         g.refs = file[x].refs, g.name = file[x].name,
         g.marked_for_deletion = file[x].marked_for_deletion,
         Len(g.mem) = k * BLOCK_SIZE, g.last_block <= k,
         UNCHANGED <<file_list, file_descriptor_count, file_descriptors_rr_ptr>>,
         file_descriptors' \in Seq(FileDesc \cup {NULL}),
         Len(file_descriptors') = Len(file_descriptors),
         \A i \in Slots : i \notin FdsOf(x) => file_descriptors'[i] = file_descriptors[i],
         \A i \in FdsOf(x) : /\ file_descriptors'[i] \in FileDesc
                             /\ file_descriptors'[i].file = x
                             /\ file_descriptors'[i].total_offset \in 0 .. MAX_FILE_SIZE
                             /\ file_descriptors'[i].cur_block \in 0 .. k,
         ufs_error_code' \in {"NO_ERR", "NO_FILE", "NO_MEM", "NO_PERMISSION"},
         crashed' \in BOOLEAN, down' \in BOOLEAN
  PROVE  FSInv'
<1>1. /\ Types /\ Table /\ Chains /\ Cursors /\ file \in [Files -> FileRec]
      /\ file_list \in Seq(Files) /\ file_descriptors \in Seq(FileDesc \cup {NULL})
      /\ \A j \in Used : file_descriptors[j] \in FileDesc /\ file_descriptors[j].file \in Files
  <2>1. \A j \in Used : file_descriptors[j] \in FileDesc
    BY TableFinite DEF FSInv
  <2> QED
    BY <2>1 DEF FSInv, Types, FileDesc
<1>2. /\ file' \in [Files -> FileRec] /\ file'[x] = g
      /\ \A y \in Files : y # x => file'[y] = file[y]
  BY <1>1
<1>3. DOMAIN file_descriptors' = DOMAIN file_descriptors
  BY <1>1
<1>4. Types'
  BY <1>1, <1>2 DEF Types
<1>5. Blocks(g) = k
  BY WholeBlocks
<1>6. \A i \in Slots :
        /\ file_descriptors'[i] = NULL <=> file_descriptors[i] = NULL
        /\ file_descriptors[i] # NULL => file_descriptors'[i].file = file_descriptors[i].file
  <2> SUFFICES ASSUME NEW i \in Slots
               PROVE  /\ file_descriptors'[i] = NULL <=> file_descriptors[i] = NULL
                      /\ file_descriptors[i] # NULL =>
                           file_descriptors'[i].file = file_descriptors[i].file
    OBVIOUS
  <2>1. CASE i \in FdsOf(x)
    BY <2>1, FSAssumption DEF FdsOf, Used
  <2>2. CASE i \notin FdsOf(x)
    BY <2>2
  <2> QED
    BY <2>1, <2>2
<1>7. Table' /\ Used' = Used
  <2>1. \A y \in Files : /\ file'[y].refs = file[y].refs /\ file'[y].name = file[y].name
                         /\ file'[y].marked_for_deletion = file[y].marked_for_deletion
    BY <1>2
  <2>2. \A i \in DOMAIN file_list : file_list[i] \in Files
    BY <1>1
  <2> QED
    BY <1>1, <1>3, <1>6, <2>1, <2>2, TableFrame
<1>8. Chains'
  <2>1. ASSUME NEW y \in Files
        PROVE  /\ Len(file'[y].mem) = Blocks(file'[y]) * BLOCK_SIZE
               /\ file'[y].last_block <= Blocks(file'[y])
    <3>1. CASE y = x
      BY <1>2, <1>5, <3>1
    <3>2. CASE y # x
      <4>1. file'[y] = file[y]
        BY <1>2, <3>2
      <4> QED
        BY ONLY <1>1, <4>1, y \in Files DEF Chains
    <3> QED
      BY <3>1, <3>2
  <2> QED
    BY ONLY <2>1 DEF Chains, Blocks
<1>9. Cursors'
  <2>1. ASSUME NEW i \in Used
        PROVE  /\ file_descriptors'[i].total_offset \in 0 .. MAX_FILE_SIZE
               /\ file_descriptors'[i].cur_block \in 0 .. Blocks(file'[file_descriptors'[i].file])
    <3>1. CASE i \in FdsOf(x)
      BY <1>2, <1>5, <3>1
    <3>2. CASE i \notin FdsOf(x)
      <4>1. file_descriptors'[i] = file_descriptors[i] /\ file_descriptors[i].file # x
        BY <3>2 DEF FdsOf, Used
      <4>2. file'[file_descriptors[i].file] = file[file_descriptors[i].file]
        BY <1>1, <1>2, <4>1
      <4> QED
        BY <1>1, <4>1, <4>2 DEF Cursors
    <3> QED
      BY <3>1, <3>2
  <2> QED
    BY <1>7, <2>1 DEF Cursors, Blocks
<1> QED
  BY <1>4, <1>7, <1>8, <1>9 DEF FSInv

(* A descriptor that is open, and the file it refers to *)
LEMMA OpenFd ==
  ASSUME FSInv, NEW i \in Used
  PROVE  /\ i \in DOMAIN file_descriptors /\ file_descriptors[i] \in FileDesc
         /\ file_descriptors[i].file \in Files /\ i \in FdsOf(file_descriptors[i].file)
         /\ file_descriptors[i].total_offset \in 0 .. MAX_FILE_SIZE
         /\ file_descriptors[i].cur_block \in 0 .. Blocks(file[file_descriptors[i].file])
         /\ InBlock(file_descriptors[i]) \in 0 .. BLOCK_SIZE - 1
<1>1. file_descriptors[i] \in FileDesc /\ i \in DOMAIN file_descriptors
  BY TableFinite DEF FSInv, Used, Slots
<1>2. file_descriptors[i].file \in Files /\ i \in FdsOf(file_descriptors[i].file)
  BY <1>1 DEF FileDesc, FdsOf
<1>3. /\ file_descriptors[i].total_offset \in 0 .. MAX_FILE_SIZE
      /\ file_descriptors[i].cur_block \in 0 .. Blocks(file[file_descriptors[i].file])
  BY DEF FSInv, Cursors
<1>4. InBlock(file_descriptors[i]) \in 0 .. BLOCK_SIZE - 1
  BY <1>3, FSAssumption DEF InBlock
<1> QED
  BY <1>1, <1>2, <1>3, <1>4

(* A call that changes the chain of a file and moves one descriptor of it. *)
LEMMA MoveFrame ==
  ASSUME FSInv, NEW i \in Used, NEW x \in Files, x = file_descriptors[i].file,
         NEW g \in FileRec, NEW k \in Nat, NEW d \in FileDesc,
         file' = [file EXCEPT ![x] = g],
         g.refs = file[x].refs, g.name = file[x].name,
         g.marked_for_deletion = file[x].marked_for_deletion,
         Len(g.mem) = k * BLOCK_SIZE, g.last_block <= k, Blocks(file[x]) <= k,
         UNCHANGED <<file_list, file_descriptor_count, file_descriptors_rr_ptr>>,
         file_descriptors' = [file_descriptors EXCEPT ![i] = d],
         d.file = x, d.total_offset \in 0 .. MAX_FILE_SIZE, d.cur_block \in 0 .. k,
         ufs_error_code' \in {"NO_ERR", "NO_FILE", "NO_MEM", "NO_PERMISSION"},
         crashed' \in BOOLEAN, down' \in BOOLEAN
  PROVE  FSInv'
<1>1. file_descriptors \in Seq(FileDesc \cup {NULL}) /\ i \in DOMAIN file_descriptors
  BY OpenFd DEF FSInv, Types
<1>2. /\ file_descriptors' \in Seq(FileDesc \cup {NULL})
      /\ Len(file_descriptors') = Len(file_descriptors) /\ file_descriptors'[i] = d
      /\ \A j \in Slots : j # i => file_descriptors'[j] = file_descriptors[j]
  BY <1>1 DEF Slots
<1>3. i \in FdsOf(x) /\ Blocks(file[x]) \in Nat
  BY OpenFd, BlockNumbers
<1>4. \A j \in Slots : j \notin FdsOf(x) => file_descriptors'[j] = file_descriptors[j]
  BY <1>2, <1>3
<1>5. ASSUME NEW j \in FdsOf(x)
      PROVE  /\ file_descriptors'[j] \in FileDesc /\ file_descriptors'[j].file = x
             /\ file_descriptors'[j].total_offset \in 0 .. MAX_FILE_SIZE
             /\ file_descriptors'[j].cur_block \in 0 .. k
  <2>1. CASE j = i
    BY <1>2, <2>1
  <2>2. CASE j # i
    <3>1. j \in Used /\ j \in Slots /\ file_descriptors[j].file = x
      BY DEF FdsOf, Used
    <3>2. /\ file_descriptors[j] \in FileDesc
          /\ file_descriptors[j].total_offset \in 0 .. MAX_FILE_SIZE
          /\ file_descriptors[j].cur_block \in 0 .. Blocks(file[x])
      BY <3>1, OpenFd
    <3> QED
      BY <1>2, <1>3, <2>2, <3>1, <3>2
  <2> QED
    BY <2>1, <2>2
<1> QED
  BY <1>2, <1>4, <1>5, ChainFrame

(* Copying into a chain and appending blocks to it *)
LEMMA PatchType ==
  ASSUME NEW m \in Seq(Nat), NEW p \in Int, NEW b \in Seq(Nat)
  PROVE  Patch(m, p, b) \in Seq(Nat) /\ Len(Patch(m, p, b)) = Len(m)
<1>1. \A i \in 1 .. Len(m) : (IF i - p \in 1 .. Len(b) THEN b[i - p] ELSE m[i]) \in Nat
  OBVIOUS
<1> QED
  BY <1>1 DEF Patch

LEMMA ZerosType ==
  ASSUME NEW n \in Nat
  PROVE  Zeros(n) \in Seq(Nat) /\ Len(Zeros(n)) = n
BY DEF Zeros

LEMMA WithBlocksType ==
  ASSUME NEW m \in Seq(Nat), NEW n \in Nat
  PROVE  WithBlocks(m, n) \in Seq(Nat) /\ Len(WithBlocks(m, n)) = Len(m) + n * BLOCK_SIZE
<1>1. n * BLOCK_SIZE \in Nat
  BY FSAssumption
<1>2. Zeros(n * BLOCK_SIZE) \in Seq(Nat) /\ Len(Zeros(n * BLOCK_SIZE)) = n * BLOCK_SIZE
  BY <1>1, ZerosType
<1> HIDE DEF Zeros
<1> QED
  BY <1>2, ConcatProperties DEF WithBlocks

(* What every call that refuses, crashes or changes nothing comes down to *)
LEMMA QuietCall ==
  ASSUME FSInv,
         \/ \E code \in {"NO_FILE", "NO_MEM", "NO_PERMISSION"} : Refuse(code)
         \/ Crash
         \/ Succeed(0, <<>>) /\ UNCHANGED <<fileVars, fdVars, crashed, down>>
  PROVE  FSInv'
<1>1. /\ ufs_error_code \in {"NO_ERR", "NO_FILE", "NO_MEM", "NO_PERMISSION"}
      /\ crashed \in BOOLEAN /\ down \in BOOLEAN
  BY DEF FSInv, Types
<1>2. UNCHANGED <<fileVars, fdVars, down>> /\ crashed' \in BOOLEAN
  BY <1>1 DEF Refuse, Crash
<1>3. ufs_error_code' \in {"NO_ERR", "NO_FILE", "NO_MEM", "NO_PERMISSION"}
  BY <1>1 DEF Refuse, Fail, Crash, Succeed, resultVars
<1> QED
  BY <1>1, <1>2, <1>3, ResultFrame

LEMMA Sizes ==
  /\ BLOCK_SIZE \in Nat \ {0} /\ MAX_FILE_SIZE \in Nat
  /\ Buffers \subseteq Seq(Nat) /\ ReadSizes \subseteq Nat /\ NewSizes \subseteq Nat
BY FSAssumption

(* Byte r of block c lies before the end of the chain. *)
LEMMA BeforeEnd ==
  ASSUME NEW B \in Nat, NEW c \in 0 .. B, NEW r \in 0 .. BLOCK_SIZE - 1
  PROVE  /\ (c - 1) * BLOCK_SIZE + r \in Int
         /\ (c - 1) * BLOCK_SIZE + r < B * BLOCK_SIZE
<1>1. BLOCK_SIZE \in Nat \ {0}
  BY Sizes
<1>2. c * BLOCK_SIZE = (c - 1) * BLOCK_SIZE + BLOCK_SIZE
  BY <1>1
<1>3. c * BLOCK_SIZE <= B * BLOCK_SIZE
  BY <1>1, MulMonotonic
<1> QED
  BY <1>1, <1>2, <1>3

(* n bytes read from byte r of block c, which is NULL only if n is 0. *)
LEMMA ReadMoves ==
  ASSUME NEW B \in Nat, NEW c \in 0 .. B, NEW r \in 0 .. BLOCK_SIZE - 1, NEW n \in Nat,
         n > 0 => c > 0, n <= B * BLOCK_SIZE - ((c - 1) * BLOCK_SIZE + r)
  PROVE  /\ c + (r + n) \div BLOCK_SIZE \in Nat /\ c <= c + (r + n) \div BLOCK_SIZE
         /\ \/ c + (r + n) \div BLOCK_SIZE <= B
            \/ /\ c + (r + n) \div BLOCK_SIZE = B + 1
               /\ (r + n) % BLOCK_SIZE = 0 /\ n > 0
<1>1. BLOCK_SIZE \in Nat \ {0}
  BY Sizes
<1>2. CASE c = 0
  <2>1. n = 0 /\ r + n = r /\ r \div BLOCK_SIZE = 0
    BY <1>1, <1>2
  <2> QED
    BY <1>2, <2>1
<1>3. CASE c # 0
  <2> DEFINE q == (r + n) \div BLOCK_SIZE
             u == (r + n) % BLOCK_SIZE
  <2>1. r + n \in Nat /\ r + n \in Int /\ B - c + 1 \in Int
    BY <1>1
  <2>2. r + n <= (B - c + 1) * BLOCK_SIZE
    <3>1. (B - c + 1) * BLOCK_SIZE = B * BLOCK_SIZE - (c - 1) * BLOCK_SIZE
      BY <1>1
    <3> QED
      BY <1>1, <3>1
  <2>3. q \in Nat
    BY <1>1, <2>1, DivNat, Zenon
  <2>4. q <= B - c + 1 /\ (q = B - c + 1 => u = 0)
    BY <1>1, <2>1, <2>2, DivBound, Zenon
  <2>5. n = 0 => q = 0
    BY <1>1
  <2> HIDE DEF q, u
  <2>6. c + q \in Nat /\ c <= c + q /\ (c + q <= B \/ (c + q = B + 1 /\ u = 0 /\ n > 0))
    BY <1>3, <2>3, <2>4, <2>5
  <2> QED
    BY <2>6 DEF q, u
<1> QED
  BY <1>2, <1>3

(* ufs_read leaves the descriptor on a block of the chain. *)
LEMMA StepRead ==
  ASSUME FSInv, NEW i \in Handles, NEW size \in ReadSizes, ufs_read(i, size)
  PROVE  FSInv'
<1>1. CASE \/ \E code \in {"NO_FILE", "NO_MEM", "NO_PERMISSION"} : Refuse(code)
           \/ Crash
           \/ Succeed(0, <<>>) /\ UNCHANGED <<fileVars, fdVars, crashed, down>>
  BY <1>1, QuietCall
<1>2. CASE /\ i \in Used /\ file_descriptors[i].total_offset <
                               file[file_descriptors[i].file].total_size
           /\ ~(file_descriptors[i].cur_block = 0 /\ size > 0) /\ ReadBytes(i, size)
  <2> DEFINE fd == file_descriptors[i]
             f == file[fd.file]
             B == Blocks(f)
             r == InBlock(fd)
             n == Min({size, f.total_size - fd.total_offset, Len(f.mem) - Position(fd)})
             next == fd.cur_block + Passed(fd, n)
             stays == /\ n > 0 /\ (InBlock(fd) + n) % BLOCK_SIZE = 0
                      /\ fd.total_offset + n >= f.total_size \/ next > Blocks(f)
             c == IF stays THEN next - 1 ELSE next
             o == fd.total_offset + n
             d == [fd EXCEPT !.cur_block = c, !.total_offset = o]
  <2>1. /\ file_descriptors' = [file_descriptors EXCEPT ![i] = d]
        /\ UNCHANGED <<fileVars, file_descriptor_count, file_descriptors_rr_ptr,
                       ufs_error_code, crashed, down>>
    BY <1>2 DEF ReadBytes, Succeed
  <2>2. /\ fd \in FileDesc /\ fd.file \in Files
        /\ fd.total_offset \in 0 .. MAX_FILE_SIZE /\ fd.cur_block \in 0 .. B
        /\ r \in 0 .. BLOCK_SIZE - 1
    BY <1>2, OpenFd
  <2>3. /\ f \in FileRec /\ B \in Nat /\ f.last_block \in 0 .. B
        /\ Len(f.mem) = B * BLOCK_SIZE /\ Len(f.mem) \in Nat
        /\ f.total_size \in 0 .. MAX_FILE_SIZE
    BY <2>2, BlockNumbers
  <2>4. fd.total_offset < f.total_size /\ (fd.cur_block # 0 \/ size = 0)
    <3>1. size \in Nat
      BY Sizes
    <3> QED
      BY <1>2, <3>1
  <2>5. n = Min({size, f.total_size - fd.total_offset,
                 B * BLOCK_SIZE - ((fd.cur_block - 1) * BLOCK_SIZE + r)})
    BY <2>3 DEF Position
  <2>6. /\ next = fd.cur_block + (r + n) \div BLOCK_SIZE
        /\ stays => n > 0
        /\ n > 0 /\ (r + n) % BLOCK_SIZE = 0 /\ next > B => stays
    BY DEF Passed
  <2>7. file' = [file EXCEPT ![fd.file] = f] /\ UNCHANGED file_list
    BY <2>1 DEF fileVars, FSInv, Types
  <2>8. B = Blocks(f)
    OBVIOUS
  <2> HIDE DEF r, B, n, next, stays, fd, f
  <2>9. /\ n \in Nat /\ fd.total_offset + n <= f.total_size /\ (n > 0 => fd.cur_block > 0)
        /\ next \in Nat /\ fd.cur_block <= next
        /\ next <= B \/ (next = B + 1 /\ (r + n) % BLOCK_SIZE = 0 /\ n > 0)
    <3>1. /\ size \in Nat /\ f.total_size \in Nat /\ fd.total_offset \in Nat
          /\ BLOCK_SIZE \in Nat \ {0}
      BY <2>2, <2>3, Sizes
    <3>2. /\ f.total_size - fd.total_offset \in Int /\ size \in Int
          /\ B * BLOCK_SIZE - ((fd.cur_block - 1) * BLOCK_SIZE + r) \in Int
      <4>1. B \in Int /\ fd.cur_block \in Int /\ r \in Int
        BY <2>2, <2>3
      <4> QED
        BY ONLY <3>1, <4>1
    <3>3. /\ n \in {size, f.total_size - fd.total_offset,
                    B * BLOCK_SIZE - ((fd.cur_block - 1) * BLOCK_SIZE + r)}
          /\ n <= size /\ n <= f.total_size - fd.total_offset
          /\ n <= B * BLOCK_SIZE - ((fd.cur_block - 1) * BLOCK_SIZE + r)
      BY ONLY <2>5, <3>2, MinOfThree, Zenon
    <3>4. n \in Nat /\ fd.total_offset + n <= f.total_size /\ (n > 0 => fd.cur_block > 0)
      <4>1. (fd.cur_block - 1) * BLOCK_SIZE + r < B * BLOCK_SIZE
        BY <2>2, <2>3, BeforeEnd
      <4>2. B * BLOCK_SIZE - ((fd.cur_block - 1) * BLOCK_SIZE + r) > 0
        BY <2>2, <2>3, <3>1, <4>1
      <4> QED
        BY <2>2, <2>4, <3>1, <3>2, <3>3, <4>2
    <3>5. /\ fd.cur_block + (r + n) \div BLOCK_SIZE \in Nat
          /\ fd.cur_block <= fd.cur_block + (r + n) \div BLOCK_SIZE
          /\ \/ fd.cur_block + (r + n) \div BLOCK_SIZE <= B
             \/ /\ fd.cur_block + (r + n) \div BLOCK_SIZE = B + 1
                /\ (r + n) % BLOCK_SIZE = 0 /\ n > 0
      BY ONLY <2>2, <2>3, <3>3, <3>4, ReadMoves, Zenon
    <3> QED
      BY <2>6, <3>4, <3>5
  <2>10. c \in 0 .. B /\ o \in 0 .. MAX_FILE_SIZE
    <3>1. stays => next > 0
      BY <2>2, <2>3, <2>6, <2>9
    <3>2. c \in 0 .. B
      BY <2>3, <2>6, <2>9, <3>1
    <3>3. MAX_FILE_SIZE \in Nat
      BY Sizes
    <3>4. o \in 0 .. MAX_FILE_SIZE
      BY <2>2, <2>3, <2>9, <3>3
    <3> QED
      BY <3>2, <3>4
  <2> HIDE DEF c, o
  <2>11. /\ d \in FileDesc /\ d.file = fd.file /\ d.cur_block = c /\ d.total_offset = o
    <3>1. c \in Int /\ o \in Int
      BY <2>10
    <3> QED
      BY <2>2, <3>1 DEF d, FileDesc
  <2> HIDE DEF d
  <2>12. /\ ufs_error_code' \in {"NO_ERR", "NO_FILE", "NO_MEM", "NO_PERMISSION"}
         /\ crashed' \in BOOLEAN /\ down' \in BOOLEAN
    BY <2>1 DEF FSInv, Types
  <2>13. f.last_block <= B /\ Blocks(f) <= B
    BY <2>3, <2>8
  <2> QED
    BY <1>2, <2>1, <2>2, <2>3, <2>7, <2>10, <2>11, <2>12, <2>13, MoveFrame DEF f, fd
<1> QED
  BY <1>1, <1>2 DEF ufs_read

(* A chain with j blocks appended and bytes copied into it *)
LEMMA LongerChain ==
  ASSUME FSInv, NEW x \in Files, NEW j \in Nat, NEW p \in Int, NEW b \in Seq(Nat)
  PROVE  /\ Patch(WithBlocks(file[x].mem, j), p, b) \in Seq(Nat)
         /\ Len(Patch(WithBlocks(file[x].mem, j), p, b)) = (Blocks(file[x]) + j) * BLOCK_SIZE
<1> DEFINE m == file[x].mem
           B == Blocks(file[x])
           w == WithBlocks(m, j)
<1>1. m \in Seq(Nat) /\ Len(m) = B * BLOCK_SIZE /\ B \in Nat
  BY BlockNumbers
<1> HIDE DEF m, B
<1>2. w \in Seq(Nat) /\ Len(w) = Len(m) + j * BLOCK_SIZE
  BY <1>1, WithBlocksType, Zenon
<1> HIDE DEF w
<1>3. Patch(w, p, b) \in Seq(Nat) /\ Len(Patch(w, p, b)) = Len(w)
  BY <1>2, PatchType, Zenon
<1>4. (B + j) * BLOCK_SIZE = B * BLOCK_SIZE + j * BLOCK_SIZE
  BY <1>1, Sizes
<1> QED
  BY <1>1, <1>2, <1>3, <1>4 DEF m, B, w

(* ufs_write adds the blocks it needs and leaves the descriptor on one, or *)
(* on none when calloc failed.                                             *)
LEMMA WriteStep ==
  ASSUME FSInv, NEW i \in Used, NEW b \in Seq(Nat), NEW m \in Nat, NEW j \in 0 .. m,
         Fits(file_descriptors[i], Len(b)),
         m = Max({0, file_descriptors[i].cur_block + Passed(file_descriptors[i], Len(b))
                       - Blocks(file[file_descriptors[i].file])}),
         WriteBytes(i, b, m, j)
  PROVE  FSInv'
<1> DEFINE fd == file_descriptors[i]
           f == file[fd.file]
           B == Blocks(f)
           next == fd.cur_block + Passed(fd, Len(b))
           end == fd.total_offset + Len(b)
           M == Patch(WithBlocks(f.mem, j), Position(fd), b)
           l == IF m = 0 THEN f.last_block ELSE IF j < m THEN 0 ELSE next
           t == Max({f.total_size, end})
           g == [f EXCEPT !.mem = M, !.last_block = l, !.total_size = t]
           c == IF j < m THEN 0 ELSE next
           d == [fd EXCEPT !.cur_block = c, !.total_offset = end]
<1>1. /\ file' = [file EXCEPT ![fd.file] = g]
      /\ file_descriptors' = [file_descriptors EXCEPT ![i] = d]
      /\ ufs_error_code' = IF j < m THEN "NO_MEM" ELSE ufs_error_code
      /\ UNCHANGED <<file_list, file_descriptor_count, file_descriptors_rr_ptr, crashed, down>>
  BY DEF WriteBytes
<1>2. /\ fd \in FileDesc /\ fd.file \in Files
      /\ fd.total_offset \in 0 .. MAX_FILE_SIZE /\ fd.cur_block \in 0 .. B
      /\ InBlock(fd) \in 0 .. BLOCK_SIZE - 1
  BY OpenFd
<1>3. /\ f \in FileRec /\ B \in Nat /\ f.last_block \in 0 .. B /\ f.mem \in Seq(Nat)
      /\ Len(f.mem) = B * BLOCK_SIZE /\ Len(f.mem) \in Nat
      /\ f.total_size \in 0 .. MAX_FILE_SIZE
  BY <1>2, BlockNumbers
<1>4. BLOCK_SIZE \in Nat \ {0} /\ MAX_FILE_SIZE \in Nat /\ Len(b) \in Nat
  BY Sizes
<1>5. end \in 0 .. MAX_FILE_SIZE
  BY <1>2, <1>4 DEF Fits
<1>6. Passed(fd, Len(b)) \in Nat /\ Position(fd) \in Int
  <2>1. InBlock(fd) + Len(b) \in Nat
    BY <1>2, <1>4
  <2>2. Passed(fd, Len(b)) \in Nat
    BY <1>4, <2>1, DivNat DEF Passed
  <2>3. Position(fd) \in Int
    <3>1. fd.cur_block \in Int /\ InBlock(fd) \in Int /\ BLOCK_SIZE \in Int
      BY <1>2, <1>3, <1>4
    <3> HIDE DEF fd
    <3> QED
      BY ONLY <3>1 DEF Position
  <2> QED
    BY <2>2, <2>3
<1>7. m = Max({0, next - B})
  <2>1. fd.cur_block + (Passed(fd, Len(b)) - B) = next - B
    BY <1>2, <1>3, <1>6
  <2> QED
    BY <2>1, Zenon
<1>8. B = Blocks(f) /\ f = file[fd.file] /\ fd = file_descriptors[i]
  OBVIOUS
<1> HIDE DEF fd, f, B
<1>9. next \in Nat /\ (next <= B \/ next = B + m) /\ next <= B + m
  <2>1. next \in Nat
    BY <1>2, <1>3, <1>6
  <2>2. m = IF 0 >= next - B THEN 0 ELSE next - B
    <3>1. next - B \in Int /\ 0 \in Int
      BY <1>3, <2>1
    <3> QED
      BY ONLY <1>7, <3>1, MaxOfTwo, Zenon
  <2> QED
    BY <1>3, <2>1, <2>2
<1>10. M \in Seq(Nat) /\ Len(M) = (B + j) * BLOCK_SIZE
  <2>1. j \in Nat
    OBVIOUS
  <2> QED
    BY <1>2, <1>6, <2>1, LongerChain DEF f, B
<1>11. t \in 0 .. MAX_FILE_SIZE
  <2>1. t = IF f.total_size >= end THEN f.total_size ELSE end
    <3>1. f.total_size \in Int /\ end \in Int
      BY <1>3, <1>5
    <3> QED
      BY <3>1, MaxOfTwo, Zenon
  <2> QED
    BY <1>3, <1>5, <2>1
<1>12. l \in Nat /\ l <= B + j /\ c \in 0 .. B + j
  BY <1>3, <1>9
<1> HIDE DEF M, l, t, c, end, next
<1>13. /\ g \in FileRec /\ g.refs = f.refs /\ g.name = f.name
       /\ g.marked_for_deletion = f.marked_for_deletion
       /\ g.total_size = t /\ g.mem = M /\ g.last_block = l
  BY <1>3, <1>10, <1>11, <1>12 DEF FileRec
<1>14. d \in FileDesc /\ d.file = fd.file /\ d.cur_block = c /\ d.total_offset = end
  <2>1. c \in Int /\ end \in Int
    BY <1>5, <1>12
  <2> QED
    BY <1>2, <2>1 DEF FileDesc
<1> HIDE DEF g, d
<1>15. /\ ufs_error_code' \in {"NO_ERR", "NO_FILE", "NO_MEM", "NO_PERMISSION"}
       /\ crashed' \in BOOLEAN /\ down' \in BOOLEAN
  BY <1>1 DEF FSInv, Types
<1>16. B + j \in Nat /\ B <= B + j
  BY <1>3
<1>17. Len(g.mem) = (B + j) * BLOCK_SIZE /\ g.last_block <= B + j
  BY <1>10, <1>12, <1>13
<1> QED
  BY <1>1, <1>2, <1>5, <1>8, <1>12, <1>13, <1>14, <1>15, <1>16, <1>17, MoveFrame

LEMMA StepWrite ==
  ASSUME FSInv, NEW i \in Handles, NEW b \in Buffers, ufs_write(i, b)
  PROVE  FSInv'
<1>1. CASE \/ \E code \in {"NO_FILE", "NO_MEM", "NO_PERMISSION"} : Refuse(code)
           \/ Crash
  BY <1>1, QuietCall
<1>2. CASE ~(\/ \E code \in {"NO_FILE", "NO_MEM", "NO_PERMISSION"} : Refuse(code)
             \/ Crash)
  <2> DEFINE fd == file_descriptors[i]
             needed == Max({0, fd.cur_block + Passed(fd, Len(b)) - Blocks(file[fd.file])})
  <2>1. i \in Used /\ Fits(fd, Len(b)) /\ WriteThrough(i, b)
    BY <1>2 DEF ufs_write
  <2>2. PICK got \in 0 .. needed : WriteBytes(i, b, needed, got)
    BY <1>2, <2>1 DEF WriteThrough
  <2>3. b \in Seq(Nat) /\ Len(b) \in Nat
    BY Sizes
  <2>4. needed \in Nat
    <3>1. /\ fd.cur_block \in 0 .. Blocks(file[fd.file]) /\ fd.file \in Files
          /\ InBlock(fd) \in 0 .. BLOCK_SIZE - 1
      BY <2>1, OpenFd
    <3>2. Blocks(file[fd.file]) \in Nat
      BY <3>1, BlockNumbers
    <3>3. Passed(fd, Len(b)) \in Nat
      <4>1. InBlock(fd) + Len(b) \in Nat /\ BLOCK_SIZE \in Nat \ {0}
        BY <2>3, <3>1, Sizes
      <4> QED
        BY <4>1, DivNat DEF Passed
    <3>4. 0 \in Int /\ fd.cur_block + Passed(fd, Len(b)) - Blocks(file[fd.file]) \in Int
      BY <3>1, <3>2, <3>3
    <3>5. needed = IF 0 >= fd.cur_block + Passed(fd, Len(b)) - Blocks(file[fd.file]) THEN 0
                   ELSE fd.cur_block + Passed(fd, Len(b)) - Blocks(file[fd.file])
      BY <3>4, MaxOfTwo, Zenon
    <3> HIDE DEF needed
    <3> QED
      BY <3>4, <3>5
  <2> QED
    BY <2>1, <2>2, <2>3, <2>4, WriteStep
<1> QED
  BY <1>1, <1>2

(* How far ufs_extend_file gets with j of m new blocks *)
LEMMA Reached ==
  ASSUME NEW s \in Nat \ {0}, NEW t \in Nat, NEW z \in Nat, t < z,
         NEW m, m = ((t % s) + (z - t)) \div s, NEW j \in 0 .. m, j # m
  PROVE  /\ (t - (t % s)) + (j + 1) * s \in Nat
         /\ t < (t - (t % s)) + (j + 1) * s /\ (t - (t % s)) + (j + 1) * s <= z
<1>1. t % s \in 0 .. s - 1 /\ (t % s) + (z - t) \in Nat
  OBVIOUS
<1>2. PICK r \in 0 .. s - 1, u \in Nat : r = t % s /\ u = r + (z - t)
  BY <1>1
<1>3. m \in Nat /\ m * s <= u
  <2>1. m = u \div s
    BY <1>2
  <2>2. u = (u \div s) * s + (u % s) /\ u % s \in 0 .. s - 1
    BY DivModSplit
  <2>3. u \div s \in Nat
    BY DivNat
  <2> QED
    BY <2>1, <2>2, <2>3
<1>4. j \in Nat /\ j + 1 <= m
  BY <1>3
<1>5. (j + 1) * s <= m * s /\ (j + 1) * s = j * s + s /\ 0 * s <= j * s /\ 0 * s = 0
  BY <1>3, <1>4, MulMonotonic
<1>6. j * s \in Int /\ m * s \in Int
  BY <1>3, <1>4
<1> QED
  BY <1>2, <1>3, <1>5, <1>6

LEMMA StepExtend ==
  ASSUME FSInv, NEW x \in Files, NEW z \in Nat, file[x].total_size < z, z <= MAX_FILE_SIZE,
         ufs_extend_file(x, z)
  PROVE  FSInv'
<1> DEFINE f == file[x]
           B == Blocks(f)
           o == f.total_size % BLOCK_SIZE
           m == (o + (z - f.total_size)) \div BLOCK_SIZE
           reached(j) == IF j = m THEN z ELSE (f.total_size - o) + (j + 1) * BLOCK_SIZE
           M(j) == Cleared(WithBlocks(f.mem, j), (f.last_block - 1) * BLOCK_SIZE + o,
                           reached(j) - f.total_size)
           g(j) == [f EXCEPT !.mem = M(j), !.last_block = f.last_block + j,
                             !.total_size = reached(j)]
<1>1. CASE Crash
  BY <1>1, QuietCall
<1>2. CASE ~Crash
  <2>1. PICK j \in 0 .. m : /\ file' = [file EXCEPT ![x] = g(j)]
                            /\ Succeed(0, <<>>) \/ Fail("NO_MEM")
                            /\ UNCHANGED <<file_list, fdVars, crashed, down>>
    BY <1>2 DEF ufs_extend_file
  <2>2. /\ f \in FileRec /\ B \in Nat /\ f.last_block \in 0 .. B /\ f.mem \in Seq(Nat)
        /\ Len(f.mem) = B * BLOCK_SIZE /\ Len(f.mem) \in Nat
        /\ f.total_size \in 0 .. MAX_FILE_SIZE
    BY BlockNumbers
  <2>3. BLOCK_SIZE \in Nat \ {0} /\ MAX_FILE_SIZE \in Nat
    BY Sizes
  <2>4. o \in 0 .. BLOCK_SIZE - 1 /\ o \in Int /\ f.total_size \in Nat
    <3>1. f.total_size \in Nat
      BY <2>2, <2>3
    <3> HIDE DEF f
    <3> QED
      BY <2>3, <3>1
  <2>5. j \in Nat
    OBVIOUS
  <2>6. reached(j) \in 0 .. MAX_FILE_SIZE /\ reached(j) - f.total_size \in Nat
    <3>1. CASE j = m
      BY <2>2, <2>3, <3>1
    <3>2. CASE j # m
      <4>1. /\ reached(j) = (f.total_size - o) + (j + 1) * BLOCK_SIZE
            /\ m = ((f.total_size % BLOCK_SIZE) + (z - f.total_size)) \div BLOCK_SIZE
            /\ o = f.total_size % BLOCK_SIZE
        BY <3>2
      <4>2. f.total_size < z
        OBVIOUS
      <4> HIDE DEF m, reached, o, f
      <4>3. /\ reached(j) \in Nat /\ f.total_size < reached(j) /\ reached(j) <= z
        BY <2>3, <2>4, <3>2, <4>1, <4>2, Reached, Zenon
      <4> QED
        BY <2>2, <2>3, <4>3
    <3> QED
      BY <3>1, <3>2
  <2>7. M(j) \in Seq(Nat) /\ Len(M(j)) = (B + j) * BLOCK_SIZE
    <3> DEFINE p == (f.last_block - 1) * BLOCK_SIZE + o
               n == reached(j) - f.total_size
    <3>1. Zeros(n) \in Seq(Nat)
      BY <2>6, ZerosType, Zenon
    <3>2. p \in Int
      <4>1. f.last_block - 1 \in Int
        BY <2>2
      <4> HIDE DEF f, o
      <4> QED
        BY <2>3, <2>4, <4>1
    <3>3. M(j) = Patch(WithBlocks(f.mem, j), p, Zeros(n))
      BY DEF Cleared
    <3> HIDE DEF p, n, M
    <3> QED
      BY <2>5, <3>1, <3>2, <3>3, LongerChain
  <2>8. f.last_block + j \in Nat /\ f.last_block + j <= B + j /\ B + j \in Nat /\ B <= B + j
    BY <2>2, <2>5
  <2> HIDE DEF M, reached, B
  <2>9. /\ g(j) \in FileRec /\ g(j).refs = f.refs /\ g(j).name = f.name
        /\ g(j).marked_for_deletion = f.marked_for_deletion
        /\ g(j).mem = M(j) /\ g(j).last_block = f.last_block + j
    BY <2>2, <2>6, <2>7, <2>8 DEF FileRec
  <2> HIDE DEF g
  <2>10. /\ UNCHANGED <<file_descriptors, file_descriptor_count, file_descriptors_rr_ptr>>
         /\ ufs_error_code' \in {"NO_ERR", "NO_FILE", "NO_MEM", "NO_PERMISSION"}
         /\ crashed' \in BOOLEAN /\ down' \in BOOLEAN
         /\ file_descriptors' \in Seq(FileDesc \cup {NULL})
    BY <2>1 DEF fdVars, FSInv, Types, Succeed, Fail
  <2>11. ASSUME NEW i \in FdsOf(x)
         PROVE  /\ file_descriptors'[i] \in FileDesc /\ file_descriptors'[i].file = x
                /\ file_descriptors'[i].total_offset \in 0 .. MAX_FILE_SIZE
                /\ file_descriptors'[i].cur_block \in 0 .. B + j
    <3>1. i \in Used /\ file_descriptors[i].file = x
      BY DEF FdsOf
    <3>2. /\ file_descriptors[i] \in FileDesc
          /\ file_descriptors[i].total_offset \in 0 .. MAX_FILE_SIZE
          /\ file_descriptors[i].cur_block \in 0 .. B
      BY <3>1, OpenFd DEF B
    <3> QED
      BY <2>2, <2>8, <2>10, <3>1, <3>2
  <2>12. Len(g(j).mem) = (B + j) * BLOCK_SIZE /\ g(j).last_block <= B + j
    BY <2>7, <2>8, <2>9
  <2> QED
    BY <2>1, <2>8, <2>9, <2>10, <2>11, <2>12, ChainFrame
<1> QED
  BY <1>1, <1>2

LEMMA StepReduce ==
  ASSUME FSInv, NEW x \in Files, NEW z \in Nat, z < file[x].total_size,
         ufs_reduce_file(x, z)
  PROVE  FSInv'
<1> DEFINE f == file[x]
           B == Blocks(f)
           freed == BlocksFreed(f.total_size, z)
           left == IF freed = 0 THEN Blocks(f) ELSE f.last_block - freed
           M == SubSeq(f.mem, 1, left * BLOCK_SIZE)
           l == f.last_block - freed
           g == [f EXCEPT !.mem = M, !.last_block = l, !.total_size = z]
<1>1. CASE Crash
  BY <1>1, QuietCall
<1>2. CASE ~Crash
  <2>1. /\ freed <= f.last_block /\ file' = [file EXCEPT ![x] = g]
        /\ file_descriptors' = [i \in Slots |->
             IF i \notin FdsOf(x) THEN file_descriptors[i]
             ELSE Moved(file_descriptors[i], z, l, left)]
        /\ UNCHANGED <<file_list, file_descriptor_count, file_descriptors_rr_ptr,
                       ufs_error_code, crashed, down>>
    BY <1>2 DEF ufs_reduce_file, Succeed
  <2>2. /\ f \in FileRec /\ B \in Nat /\ f.last_block \in 0 .. B /\ f.mem \in Seq(Nat)
        /\ Len(f.mem) = B * BLOCK_SIZE /\ Len(f.mem) \in Nat
        /\ f.total_size \in 0 .. MAX_FILE_SIZE
    BY BlockNumbers
  <2>3. BLOCK_SIZE \in Nat \ {0} /\ MAX_FILE_SIZE \in Nat
    BY Sizes
  <2>4. freed \in Nat
    <3>1. f.total_size \in Nat /\ z <= f.total_size
      BY <2>2
    <3>2. f.total_size \div BLOCK_SIZE \in Nat /\ z \div BLOCK_SIZE \in Nat
      BY <2>3, <3>1, DivNat, Zenon
    <3>3. z \div BLOCK_SIZE <= f.total_size \div BLOCK_SIZE
      BY <2>3, <3>1, DivMonotonic
    <3> QED
      BY <3>2, <3>3 DEF BlocksFreed
  <2>5. B = Blocks(f)
    OBVIOUS
  <2> HIDE DEF freed, B
  <2>6. left \in 0 .. B /\ l \in 0 .. left
    BY <2>1, <2>2, <2>4, <2>5
  <2>7. M \in Seq(Nat) /\ Len(M) = left * BLOCK_SIZE
    <3>1. left * BLOCK_SIZE \in Nat /\ left * BLOCK_SIZE <= Len(f.mem)
      BY <2>2, <2>3, <2>6, MulMonotonic
    <3> HIDE DEF left, f
    <3>2. \A k \in 1 .. left * BLOCK_SIZE : f.mem[k] \in Nat
      BY <2>2, <3>1
    <3> QED
      BY <2>2, <3>1, <3>2, SubSeqProperties
  <2>8. z \in 0 .. MAX_FILE_SIZE /\ l \in Nat /\ left \in Nat
    BY <2>2, <2>3, <2>6
  <2> HIDE DEF M, l, left
  <2>9. /\ g \in FileRec /\ g.refs = f.refs /\ g.name = f.name
        /\ g.marked_for_deletion = f.marked_for_deletion
        /\ g.mem = M /\ g.last_block = l
    BY <2>2, <2>6, <2>7, <2>8 DEF FileRec
  <2> HIDE DEF g
  <2>10. ASSUME NEW i \in FdsOf(x)
         PROVE  /\ file_descriptors'[i] \in FileDesc /\ file_descriptors'[i].file = x
                /\ file_descriptors'[i].total_offset \in 0 .. MAX_FILE_SIZE
                /\ file_descriptors'[i].cur_block \in 0 .. left
    <3> DEFINE fd == file_descriptors[i]
    <3>1. i \in Used /\ fd.file = x /\ i \in Slots
      BY DEF FdsOf, Used
    <3>2. /\ fd \in FileDesc /\ fd.total_offset \in 0 .. MAX_FILE_SIZE
          /\ fd.cur_block \in 0 .. B
      BY <2>5, <3>1, OpenFd
    <3>3. file_descriptors'[i] = Moved(fd, z, l, left)
      BY <2>1, <3>1
    <3> HIDE DEF fd
    <3>4. CASE fd.total_offset > z
      <4>1. Moved(fd, z, l, left) = [fd EXCEPT !.total_offset = z, !.cur_block = l]
        BY <3>4 DEF Moved
      <4>2. z \in Int /\ l \in Int
        BY <2>8
      <4> DEFINE d == [fd EXCEPT !.total_offset = z, !.cur_block = l]
      <4>3. d \in FileDesc /\ d.file = fd.file /\ d.total_offset = z /\ d.cur_block = l
        BY <3>2, <4>2 DEF FileDesc
      <4> HIDE DEF d
      <4> QED
        BY <2>6, <2>8, <3>1, <3>3, <4>1, <4>3 DEF d
    <3>5. CASE ~(fd.total_offset > z)
      <4> DEFINE c == IF fd.cur_block > left THEN 0 ELSE fd.cur_block
      <4>1. Moved(fd, z, l, left) = [fd EXCEPT !.cur_block = c]
        BY <3>5 DEF Moved
      <4>2. c \in 0 .. left
        BY <2>2, <2>6, <3>2
      <4> HIDE DEF c
      <4> QED
        BY <3>1, <3>2, <3>3, <4>1, <4>2 DEF FileDesc
    <3> QED
      BY <3>4, <3>5
  <2>11. /\ file_descriptors \in Seq(FileDesc \cup {NULL})
         /\ Slots = 1 .. Len(file_descriptors) /\ Len(file_descriptors) \in Nat
         /\ ufs_error_code' \in {"NO_ERR", "NO_FILE", "NO_MEM", "NO_PERMISSION"}
         /\ crashed' \in BOOLEAN /\ down' \in BOOLEAN
    BY <2>1 DEF FSInv, Types, Slots
  <2>12. /\ \A i \in Slots : i \notin FdsOf(x) => file_descriptors'[i] = file_descriptors[i]
         /\ DOMAIN file_descriptors' = 1 .. Len(file_descriptors)
    BY <2>1, <2>11
  <2>13. \A i \in 1 .. Len(file_descriptors) : file_descriptors'[i] \in FileDesc \cup {NULL}
    BY <2>10, <2>11, <2>12
  <2>14. /\ file_descriptors' \in Seq(FileDesc \cup {NULL})
         /\ Len(file_descriptors') = Len(file_descriptors)
    <3>1. file_descriptors' = [i \in 1 .. Len(file_descriptors) |-> file_descriptors'[i]]
      BY <2>1, <2>11
    <3> QED
      BY <2>11, <2>12, <2>13, <3>1
  <2>15. left \in Nat /\ Len(g.mem) = left * BLOCK_SIZE /\ g.last_block <= left
    BY <2>2, <2>6, <2>7, <2>9
  <2>16. /\ file' = [file EXCEPT ![x] = g]
         /\ UNCHANGED <<file_list, file_descriptor_count, file_descriptors_rr_ptr>>
    BY <2>1
  <2>17. /\ g.refs = file[x].refs /\ g.name = file[x].name
         /\ g.marked_for_deletion = file[x].marked_for_deletion
    BY <2>9
  <2> QED
    BY <2>9, <2>10, <2>11, <2>12, <2>14, <2>15, <2>16, <2>17, ChainFrame, Zenon
<1> QED
  BY <1>1, <1>2

LEMMA StepResize ==
  ASSUME FSInv, NEW i \in Handles, NEW z \in NewSizes, ufs_resize(i, z)
  PROVE  FSInv'
<1>1. CASE \/ \E code \in {"NO_FILE", "NO_MEM", "NO_PERMISSION"} : Refuse(code)
           \/ Succeed(0, <<>>) /\ UNCHANGED <<fileVars, fdVars, crashed, down>>
  BY <1>1, QuietCall
<1>2. CASE ~(\/ \E code \in {"NO_FILE", "NO_MEM", "NO_PERMISSION"} : Refuse(code)
             \/ Succeed(0, <<>>) /\ UNCHANGED <<fileVars, fdVars, crashed, down>>)
  <2> DEFINE x == file_descriptors[i].file
  <2>1. /\ i \in Used /\ z <= MAX_FILE_SIZE
        /\ \/ z > file[x].total_size /\ ufs_extend_file(x, z)
           \/ z < file[x].total_size /\ ufs_reduce_file(x, z)
    BY <1>2 DEF ufs_resize
  <2>2. x \in Files /\ z \in Nat
    BY <2>1, OpenFd, Sizes
  <2>3. file[x].total_size \in Nat
    BY <2>2, BlockNumbers
  <2>4. CASE z > file[x].total_size /\ ufs_extend_file(x, z)
    <3>1. file[x].total_size < z
      BY <2>2, <2>3, <2>4
    <3> QED
      BY <2>1, <2>2, <2>4, <3>1, StepExtend
  <2>5. CASE z < file[x].total_size /\ ufs_reduce_file(x, z)
    BY <2>2, <2>5, StepReduce
  <2> QED
    BY <2>1, <2>4, <2>5
<1> QED
  BY <1>1, <1>2

(* The invariant of every behaviour of the file system *)
THEOREM FSInvariant == Spec => []FSInv
<1>1. FSInv /\ [Next]_fsVars => FSInv'
  <2> SUFFICES ASSUME FSInv, [Next]_fsVars PROVE FSInv'
    OBVIOUS
  <2>1. CASE \E n \in Names, flags \in OpenFlags : ufs_open(n, flags)
    BY <2>1, StepOpen
  <2>2. CASE \E i \in Handles, b \in Buffers : ufs_write(i, b)
    BY <2>2, StepWrite
  <2>3. CASE \E i \in Handles, size \in ReadSizes : ufs_read(i, size)
    BY <2>3, StepRead
  <2>4. CASE (\E i \in Handles : ufs_close(i)) \/ ufs_shutdown
    BY <2>4, StepClose
  <2>5. CASE \E n \in Names : ufs_delete(n)
    BY <2>5, StepDelete
  <2>6. CASE \E i \in Handles, size \in NewSizes : ufs_resize(i, size)
    BY <2>6, StepResize
  <2>7. CASE UNCHANGED fsVars
    <3>1. UNCHANGED <<fileVars, fdVars, ufs_error_code, crashed, down>>
      BY <2>7 DEF fsVars, resultVars
    <3>2. /\ ufs_error_code \in {"NO_ERR", "NO_FILE", "NO_MEM", "NO_PERMISSION"}
          /\ crashed \in BOOLEAN /\ down \in BOOLEAN
      BY DEF FSInv, Types
    <3> QED
      BY <3>1, <3>2, ResultFrame
  <2> QED
    BY <2>1, <2>2, <2>3, <2>4, <2>5, <2>6, <2>7 DEF Next
<1> QED
  BY <1>1, InitFS, PTL DEF Spec

(* The reference counts are exact and no descriptor refers to a freed      *)
(* file, also when calloc fails in the middle of ufs_open.                 *)
THEOREM RefCountsExact == Spec => []RefsExact
<1>1. FSInv => RefsExact
  BY DEF FSInv, Table
<1> QED
  BY <1>1, FSInvariant, PTL

(* A name never denotes two files, and a deleted file is on the list only  *)
(* as long as a descriptor keeps it there.                                 *)
THEOREM NamesUnique == Spec => []OneFilePerName
<1>1. FSInv => OneFilePerName
  BY DEF FSInv, Table
<1> QED
  BY <1>1, FSInvariant, PTL

(* file_descriptor_count is exact: ufs_create_fd always finds a slot.      *)
THEOREM DescriptorsCounted == Spec => []FdTable
<1>1. FSInv => FdTable
  BY DEF FSInv, Table
<1> QED
  BY <1>1, FSInvariant, PTL

(* The types, the bounds of the sizes, offsets and counters, and that      *)
(* chains consist of whole blocks: every call keeps them, also one that    *)
(* ends in a crash.                                                        *)
THEOREM FSTypeCorrect == Spec => []TypeOK
<1>1. FSInv => TypeOK
  <2> SUFFICES ASSUME FSInv PROVE TypeOK
    OBVIOUS
  <2>1. \A x \in Files :
          /\ file[x].refs \in Nat /\ file[x].total_size \in 0 .. MAX_FILE_SIZE
          /\ file[x].last_block \in 0 .. Blocks(file[x])
          /\ Len(file[x].mem) = Blocks(file[x]) * BLOCK_SIZE
    BY BlockNumbers DEF FileRec
  <2>2. \A i \in Used : /\ file_descriptors[i].file \in Files
                        /\ file_descriptors[i].total_offset \in 0 .. MAX_FILE_SIZE
    BY OpenFd
  <2>3. file_descriptors_rr_ptr \in 0 .. Max({0, Len(file_descriptors) - 1})
    <3>1. /\ Len(file_descriptors) \in Nat /\ file_descriptors_rr_ptr \in Nat
          /\ Len(file_descriptors) = 0 => file_descriptors_rr_ptr = 0
          /\ Len(file_descriptors) # 0 => file_descriptors_rr_ptr < Len(file_descriptors)
      BY TableFinite DEF FSInv, Types
    <3>2. 0 \in Int /\ Len(file_descriptors) - 1 \in Int
      BY <3>1
    <3>3. Max({0, Len(file_descriptors) - 1}) =
            IF 0 >= Len(file_descriptors) - 1 THEN 0 ELSE Len(file_descriptors) - 1
      BY <3>2, MaxOfTwo, Zenon
    <3> QED
      BY <3>1, <3>3
  <2> QED
    BY <2>1, <2>2, <2>3 DEF TypeOK, FSInv, Types
<1> QED
  BY <1>1, FSInvariant, PTL

-----------------------------------------------------------------------------
(* Part two: the chains of blocks, as long as calloc does not fail and     *)
(* nobody reads up to the end of a file whose last block is full.          *)

(* BlocksCover of one file, CursorOnBlock of one descriptor *)
Covered(f) == Blocks(f) = f.total_size \div BLOCK_SIZE + 1 /\ f.last_block = Blocks(f)

OnBlock(fd, f) == /\ fd.total_offset <= f.total_size
                  /\ fd.cur_block = fd.total_offset \div BLOCK_SIZE + 1

BlockInv == FSInv /\ BlocksCover /\ CursorOnBlock /\ NoCrash

(* A call that concerns the file x and its descriptors *)
LEMMA CoverFrame ==
  ASSUME BlockInv, FSInv', UNCHANGED crashed, NEW x \in Files,
         \A k \in DOMAIN file_list' :
           file_list'[k] # x => \E j \in DOMAIN file_list : file_list[j] = file_list'[k],
         \A y \in Files : y # x => file'[y] = file[y],
         (\E k \in DOMAIN file_list' : file_list'[k] = x) => Covered(file'[x]),
         \A i \in Used' : file_descriptors'[i].file # x =>
           i \in Used /\ file_descriptors'[i] = file_descriptors[i],
         \A i \in Used' : file_descriptors'[i].file = x => OnBlock(file_descriptors'[i], file'[x])
  PROVE  BlockInv'
<1>1. ASSUME NEW k \in DOMAIN file_list' PROVE Covered(file'[file_list'[k]])
  <2>1. CASE file_list'[k] = x
    BY <2>1
  <2>2. CASE file_list'[k] # x
    <3>1. PICK j \in DOMAIN file_list : file_list[j] = file_list'[k]
      BY <2>2
    <3>2. file_list[j] \in Files
      BY DEF BlockInv, FSInv, Types
    <3>3. file'[file_list'[k]] = file[file_list[j]]
      BY <2>2, <3>1, <3>2
    <3>4. Covered(file[file_list[j]])
      BY DEF BlockInv, BlocksCover, Covered
    <3> QED
      BY <3>3, <3>4
  <2> QED
    BY <2>1, <2>2
<1>2. BlocksCover'
  BY <1>1 DEF BlocksCover, Covered, Blocks
<1>3. ASSUME NEW i \in Used'
      PROVE  OnBlock(file_descriptors'[i], file'[file_descriptors'[i].file])
  <2>1. CASE file_descriptors'[i].file = x
    BY <2>1
  <2>2. CASE file_descriptors'[i].file # x
    <3>1. i \in Used /\ file_descriptors'[i] = file_descriptors[i]
      BY <2>2
    <3>2. file_descriptors[i].file \in Files
      BY <3>1, OpenFd DEF BlockInv
    <3>3. OnBlock(file_descriptors[i], file[file_descriptors[i].file])
      BY <3>1 DEF BlockInv, CursorOnBlock, OnBlock
    <3> QED
      BY <2>2, <3>1, <3>2, <3>3
  <2> QED
    BY <2>1, <2>2
<1>4. CursorOnBlock'
  BY <1>3 DEF CursorOnBlock, OnBlock
<1> QED
  BY <1>2, <1>4 DEF BlockInv, NoCrash

(* A call that changes nothing but its results *)
LEMMA QuietCover ==
  ASSUME BlockInv, FSInv', UNCHANGED <<fileVars, fdVars, crashed>>
  PROVE  BlockInv'
<1>1. UNCHANGED <<file, file_list, file_descriptors, crashed>> /\ Used' = Used
  BY DEF fileVars, fdVars, Used, Slots
<1> QED
  BY <1>1 DEF BlockInv, BlocksCover, CursorOnBlock, NoCrash, Blocks

(* A descriptor and its file, between two calls *)
LEMMA OpenCover ==
  ASSUME BlockInv, NEW i \in Used
  PROVE  /\ file_descriptors[i].file \in Files
         /\ OnBlock(file_descriptors[i], file[file_descriptors[i].file])
         /\ Covered(file[file_descriptors[i].file])
<1>1. file_descriptors[i].file \in Files /\ i \in FdsOf(file_descriptors[i].file)
  BY OpenFd DEF BlockInv
<1>2. PICK k \in DOMAIN file_list : file_list[k] = file_descriptors[i].file
  BY <1>1 DEF BlockInv, FSInv, Table, RefsExact
<1>3. Covered(file[file_list[k]])
  BY DEF BlockInv, BlocksCover, Covered
<1>4. OnBlock(file_descriptors[i], file[file_descriptors[i].file])
  BY DEF BlockInv, CursorOnBlock, OnBlock
<1> QED
  BY <1>1, <1>2, <1>3, <1>4

LEMMA CoverDeleteFd ==
  ASSUME BlockInv, FSInv', UNCHANGED crashed, NEW i \in Used, ufs_delete_fd(i)
  PROVE  BlockInv'
<1>1. PICK x \in Files : x = file_descriptors[i].file /\ i \in DOMAIN file_descriptors
  BY OpenFd DEF BlockInv
<1>2. /\ FSInv /\ Types /\ Distinct /\ file \in [Files -> FileRec] /\ file_list \in Seq(Files)
      /\ file_descriptors \in Seq(FileDesc \cup {NULL})
  BY DEF BlockInv, FSInv, Types, Table
<1>3. file_descriptors' = [file_descriptors EXCEPT ![i] = NULL]
  BY DEF ufs_delete_fd
<1>4. \A j \in Used' : j \in Used /\ file_descriptors'[j] = file_descriptors[j]
  BY <1>1, <1>2, <1>3 DEF Used, Slots
<1>5. \E k \in DOMAIN file_list : file_list[k] = x
  <2>1. i \in FdsOf(x)
    BY <1>1 DEF FdsOf
  <2> QED
    BY <1>2, <2>1 DEF FSInv, Table, RefsExact
<1>6. CASE Dropped(x)
  <2>1. file' = [file EXCEPT ![x] = NoFile] /\ file_list' = ListWithout(x)
    BY <1>1, <1>6 DEF ufs_delete_fd
  <2>2. /\ \A k \in DOMAIN file_list' : file_list'[k] # x
        /\ \A k \in DOMAIN file_list' : \E j \in DOMAIN file_list : file_list[j] = file_list'[k]
    BY <1>2, <1>5, <2>1, RealDelete
  <2>3. \A y \in Files : y # x => file'[y] = file[y]
    BY <1>2, <2>1
  <2>4. FdsOf(x)' = {}
    <3>1. /\ FdsOf(x)' # {} => \E k \in DOMAIN file_list' : file_list'[k] = x
      BY DEF FSInv, Table, RefsExact
    <3> QED
      BY <2>2, <3>1
  <2>5. \A j \in Used' : file_descriptors'[j].file # x
    BY <2>4 DEF FdsOf
  <2> QED
    BY <1>4, <2>2, <2>3, <2>5, CoverFrame
<1>7. CASE ~Dropped(x)
  <2> DEFINE g == [file[x] EXCEPT !.refs = @ - 1]
  <2>1. file' = [file EXCEPT ![x] = g] /\ UNCHANGED file_list
    BY <1>1, <1>7 DEF ufs_delete_fd
  <2>2. /\ g.mem = file[x].mem /\ g.last_block = file[x].last_block
        /\ g.total_size = file[x].total_size
    BY <1>2 DEF FileRec
  <2> HIDE DEF g
  <2>3. file'[x] = g /\ \A y \in Files : y # x => file'[y] = file[y]
    BY <1>2, <2>1
  <2>4. Covered(file[x]) /\ \A j \in Used : file_descriptors[j].file = x =>
                              OnBlock(file_descriptors[j], file[x])
    BY <1>1, OpenCover
  <2>5. Covered(file'[x])
    BY <2>2, <2>3, <2>4 DEF Covered, Blocks
  <2>6. \A j \in Used' : file_descriptors'[j].file = x => OnBlock(file_descriptors'[j], file'[x])
    BY <1>4, <2>2, <2>3, <2>4 DEF OnBlock
  <2>7. \A k \in DOMAIN file_list' :
           file_list'[k] # x => \E j \in DOMAIN file_list : file_list[j] = file_list'[k]
    BY <2>1
  <2> QED
    BY <1>4, <2>3, <2>5, <2>6, <2>7, CoverFrame
<1> QED
  BY <1>6, <1>7

LEMMA CoverClose ==
  ASSUME BlockInv, FSInv', (\E i \in Handles : ufs_close(i)) \/ ufs_shutdown
  PROVE  BlockInv'
<1>1. CASE \E i \in Handles : ufs_close(i)
  <2>1. PICK i \in Handles : ufs_close(i)
    BY <1>1
  <2>2. CASE i \in Used
    <3>1. ufs_delete_fd(i) /\ UNCHANGED crashed
      BY <2>1, <2>2 DEF ufs_close
    <3> QED
      BY <2>2, <3>1, CoverDeleteFd
  <2>3. CASE i \notin Used
    <3>1. UNCHANGED <<fileVars, fdVars, crashed>>
      BY <2>1, <2>3 DEF ufs_close, Refuse
    <3> QED
      BY <3>1, QuietCover
  <2> QED
    BY <2>2, <2>3
<1>2. CASE ufs_shutdown /\ ~down
  <2>1. UNCHANGED <<fileVars, fdVars, crashed>>
    BY <1>2 DEF ufs_shutdown
  <2> QED
    BY <2>1, QuietCover
<1>3. CASE ufs_shutdown /\ down
  <2>1. Used # {} /\ ufs_delete_fd(Min(Used)) /\ UNCHANGED crashed
    BY <1>3 DEF ufs_shutdown, Running
  <2>2. Min(Used) \in Used
    <3>1. Used \subseteq Nat
      <4>1. Used \subseteq 1 .. Len(file_descriptors) /\ Len(file_descriptors) \in Nat
        BY TableFinite DEF BlockInv, FSInv
      <4> QED
        BY <4>1
    <3> QED
      BY <2>1, <3>1, MinProperties
  <2> QED
    BY <2>1, <2>2, CoverDeleteFd
<1> QED
  BY <1>1, <1>2, <1>3

LEMMA CoverDelete ==
  ASSUME BlockInv, FSInv', NEW n \in Names, ufs_delete(n)
  PROVE  BlockInv'
<1>1. /\ FSInv /\ Types /\ Distinct /\ file \in [Files -> FileRec] /\ file_list \in Seq(Files)
  BY DEF BlockInv, FSInv, Types, Table
<1>2. CASE ufs_find_file(n) = NULL
  <2>1. UNCHANGED <<fileVars, fdVars, crashed>>
    BY <1>2 DEF ufs_delete, Refuse
  <2> QED
    BY <2>1, QuietCover
<1>3. CASE ufs_find_file(n) # NULL
  <2>1. PICK x \in Files : /\ x = ufs_find_file(n)
                           /\ \E i \in DOMAIN file_list : file_list[i] = x
    BY <1>1, <1>3, FindFile
  <2>2. UNCHANGED <<file_descriptors, crashed>> /\ Used' = Used
    BY <1>3, <2>1 DEF ufs_delete, fdVars, Used, Slots
  <2>3. CASE file[x].refs = 0
    <3>1. file' = [file EXCEPT ![x] = NoFile] /\ file_list' = ListWithout(x)
      BY <1>3, <2>1, <2>3 DEF ufs_delete, FreedByDelete
    <3>2. /\ \A k \in DOMAIN file_list' : file_list'[k] # x
          /\ \A k \in DOMAIN file_list' : \E j \in DOMAIN file_list : file_list[j] = file_list'[k]
      BY <1>1, <2>1, <3>1, RealDelete
    <3>3. \A y \in Files : y # x => file'[y] = file[y]
      BY <1>1, <3>1
    <3>4. FdsOf(x)' = {}
      <4>1. FdsOf(x)' # {} => \E k \in DOMAIN file_list' : file_list'[k] = x
        BY DEF FSInv, Table, RefsExact
      <4> QED
        BY <3>2, <4>1
    <3>5. \A j \in Used' : file_descriptors'[j].file # x
      BY <3>4 DEF FdsOf
    <3> QED
      BY <2>2, <3>2, <3>3, <3>5, CoverFrame
  <2>4. CASE file[x].refs # 0
    <3> DEFINE g == [file[x] EXCEPT !.marked_for_deletion = TRUE]
    <3>1. file' = [file EXCEPT ![x] = g] /\ UNCHANGED file_list
      BY <1>3, <2>1, <2>4 DEF ufs_delete, FreedByDelete
    <3>2. /\ g.mem = file[x].mem /\ g.last_block = file[x].last_block
          /\ g.total_size = file[x].total_size
      BY <1>1 DEF FileRec
    <3> HIDE DEF g
    <3>3. file'[x] = g /\ \A y \in Files : y # x => file'[y] = file[y]
      BY <1>1, <3>1
    <3>4. Covered(file[x])
      BY <2>1 DEF BlockInv, BlocksCover, Covered
    <3>5. Covered(file'[x])
      BY <3>2, <3>3, <3>4 DEF Covered, Blocks
    <3>6. \A j \in Used' : file_descriptors'[j].file = x => OnBlock(file_descriptors'[j], file'[x])
      <4>1. \A j \in Used : file_descriptors[j].file = x => OnBlock(file_descriptors[j], file[x])
        BY OpenCover
      <4> QED
        BY <2>2, <3>2, <3>3, <4>1 DEF OnBlock
    <3>7. \A k \in DOMAIN file_list' :
            file_list'[k] # x => \E j \in DOMAIN file_list : file_list[j] = file_list'[k]
      BY <3>1
    <3> QED
      BY <2>2, <3>3, <3>5, <3>6, <3>7, CoverFrame
  <2> QED
    BY <2>3, <2>4
<1> QED
  BY <1>2, <1>3

(* ufs_create_fd puts the descriptor at the start of the first block. *)
LEMMA CoverCreateFd ==
  ASSUME ~AllocFails, BlockInv, FSInv', UNCHANGED crashed,
         NEW x \in Files, NEW files \in [Files -> FileRec], NEW flags,
         ufs_create_fd(x, files, flags),
         \A y \in Files : y # x => files[y] = file[y], Covered(files[x]),
         \A j \in Used : file_descriptors[j].file = x => OnBlock(file_descriptors[j], files[x]),
         \A k \in DOMAIN file_list' :
           file_list'[k] # x => \E j \in DOMAIN file_list : file_list[j] = file_list'[k]
  PROVE  BlockInv'
<1> DEFINE table == ufs_extend_fd_list_if_needed
           idx == FreeIndex(table)
           g == [files[x] EXCEPT !.refs = @ + 1]
<1>1. PICK d : /\ d.file = x /\ d.total_offset = 0
               /\ d.cur_block = IF Blocks(files[x]) = 0 THEN 0 ELSE 1
               /\ file' = [files EXCEPT ![x] = g]
               /\ file_descriptors' = [table EXCEPT ![idx + 1] = d]
  BY DEF ufs_create_fd
<1>2. files[x] \in FileRec /\ files[x].total_size \in Nat /\ BLOCK_SIZE \in Nat \ {0}
  <2>1. files[x] \in FileRec
    OBVIOUS
  <2> QED
    BY <2>1, Sizes DEF FileRec
<1>3. /\ g.mem = files[x].mem /\ g.last_block = files[x].last_block
      /\ g.total_size = files[x].total_size
  BY <1>2 DEF FileRec
<1> HIDE DEF g
<1>4. file'[x] = g /\ \A y \in Files : y # x => file'[y] = file[y]
  BY <1>1
<1>5. Covered(file'[x])
  BY <1>3, <1>4 DEF Covered, Blocks
<1>6. OnBlock(d, file'[x])
  <2>1. files[x].total_size \div BLOCK_SIZE \in Nat /\ 0 \div BLOCK_SIZE = 0
    BY <1>2, DivNat
  <2>2. Blocks(files[x]) = files[x].total_size \div BLOCK_SIZE + 1
    BY DEF Covered
  <2>3. d.cur_block = 0 \div BLOCK_SIZE + 1
    BY <1>1, <2>1, <2>2
  <2> QED
    BY <1>1, <1>2, <1>3, <1>4, <2>3 DEF OnBlock
<1>7. /\ table \in Seq(FileDesc \cup {NULL}) /\ Len(table) \in Nat
      /\ \A i \in 1 .. Len(table) :
           table[i] = IF i <= Len(file_descriptors) THEN file_descriptors[i] ELSE NULL
  BY FreeSlot DEF BlockInv, FSInv, Table
<1> HIDE DEF table, idx
<1>8. Len(file_descriptors) \in Nat /\ Slots = 1 .. Len(file_descriptors)
  BY TableFinite DEF BlockInv, FSInv
<1>9. ASSUME NEW i \in Used'
      PROVE  file_descriptors'[i] = d \/ (i \in Used /\ file_descriptors'[i] = file_descriptors[i])
  <2>1. i \in DOMAIN file_descriptors' /\ file_descriptors'[i] # NULL
    BY DEF Used, Slots
  <2>2. DOMAIN file_descriptors' = 1 .. Len(table)
    BY <1>1, <1>7
  <2>3. CASE i = idx + 1
    BY <1>1, <1>7, <2>1, <2>2, <2>3
  <2>4. CASE i # idx + 1
    <3>1. file_descriptors'[i] = table[i]
      BY <1>1, <1>7, <2>1, <2>2, <2>4
    <3>2. i \in 1 .. Len(file_descriptors) /\ table[i] = file_descriptors[i]
      BY <1>7, <1>8, <2>1, <2>2, <3>1
    <3> QED
      BY <1>8, <2>1, <3>1, <3>2 DEF Used
  <2> QED
    BY <2>3, <2>4
<1>10. \A i \in Used' : file_descriptors'[i].file # x =>
         i \in Used /\ file_descriptors'[i] = file_descriptors[i]
  BY <1>1, <1>9
<1>11. \A i \in Used' : file_descriptors'[i].file = x => OnBlock(file_descriptors'[i], file'[x])
  <2>1. \A j \in Used : file_descriptors[j].file = x => OnBlock(file_descriptors[j], file'[x])
    BY <1>3, <1>4 DEF OnBlock
  <2> QED
    BY <1>6, <1>9, <2>1
<1> QED
  BY <1>4, <1>5, <1>10, <1>11, CoverFrame

LEMMA CoverOpen ==
  ASSUME ~AllocFails, BlockInv, FSInv', NEW n \in Names, NEW flags, ufs_open(n, flags)
  PROVE  BlockInv'
<1> DEFINE found == ufs_find_file(n)
<1>1. /\ FSInv /\ Types /\ file \in [Files -> FileRec] /\ file_list \in Seq(Files)
  BY DEF BlockInv, FSInv, Types
<1>2. CASE Refuse("NO_FILE") \/ Refuse("NO_MEM")
  <2>1. UNCHANGED <<fileVars, fdVars, crashed>>
    BY <1>2 DEF Refuse
  <2> QED
    BY <2>1, QuietCover
<1>3. ASSUME NEW x \in Files, \A i \in DOMAIN file_list : file_list[i] # x,
             ufs_create_fd(x, [file EXCEPT ![x] = ufs_create_file(n)], flags),
             file_list' = Append(file_list, x), UNCHANGED <<crashed, down>>
      PROVE  BlockInv'
  <2> DEFINE new == ufs_create_file(n)
             files == [file EXCEPT ![x] = new]
  <2>1. new \in FileRec /\ Covered(new)
    <3>1. 0 \div BLOCK_SIZE = 0
      BY Sizes
    <3> QED
      BY <3>1, NewFile DEF Covered
  <2> HIDE DEF new
  <2>2. /\ files \in [Files -> FileRec] /\ files[x] = new
        /\ \A y \in Files : y # x => files[y] = file[y]
    BY <1>1, <2>1
  <2>3. \A j \in Used : file_descriptors[j].file # x
    <3>1. FdsOf(x) = {}
      BY <1>1, <1>3 DEF FSInv, Table, RefsExact
    <3> QED
      BY <3>1 DEF FdsOf
  <2>4. \A k \in DOMAIN file_list' :
          file_list'[k] # x => \E j \in DOMAIN file_list : file_list[j] = file_list'[k]
    <3>1. /\ file_list' \in Seq(Files) /\ Len(file_list') = Len(file_list) + 1
          /\ \A i \in 1 .. Len(file_list) : file_list'[i] = file_list[i]
          /\ file_list'[Len(file_list) + 1] = x /\ Len(file_list) \in Nat
      BY <1>1, <1>3, AppendProperties
    <3> QED
      BY <1>1, <3>1
  <2> HIDE DEF files
  <2>5. ufs_create_fd(x, files, flags)
    BY <1>3 DEF files, new
  <2> QED
    BY <1>3, <2>1, <2>2, <2>3, <2>4, <2>5, CoverCreateFd
<1>4. CASE found # NULL /\ ufs_create_fd(found, file, flags)
           /\ UNCHANGED <<file_list, crashed, down>>
  <2>1. PICK i \in DOMAIN file_list : file_list[i] = found /\ found \in Files
    BY <1>1, <1>4, FindFile
  <2>2. Covered(file[found])
    BY <2>1 DEF BlockInv, BlocksCover, Covered
  <2>3. \A j \in Used : file_descriptors[j].file = found =>
          OnBlock(file_descriptors[j], file[found])
    BY OpenCover
  <2>4. \A k \in DOMAIN file_list' :
          file_list'[k] # found => \E j \in DOMAIN file_list : file_list[j] = file_list'[k]
    BY <1>4
  <2> HIDE DEF found
  <2> QED
    BY <1>1, <1>4, <2>1, <2>2, <2>3, <2>4, CoverCreateFd
<1> QED
  BY <1>2, <1>3, <1>4 DEF ufs_open

(* Moving on by n bytes from offset o, counted in blocks *)
LEMMA MoveOn ==
  ASSUME NEW o \in Nat, NEW n \in Nat
  PROVE  /\ (o \div BLOCK_SIZE + 1) + ((o % BLOCK_SIZE) + n) \div BLOCK_SIZE =
              (o + n) \div BLOCK_SIZE + 1
         /\ ((o % BLOCK_SIZE) + n) % BLOCK_SIZE = (o + n) % BLOCK_SIZE
<1>1. BLOCK_SIZE \in Nat \ {0}
  BY Sizes
<1>2. PICK q \in Int, r \in 0 .. BLOCK_SIZE - 1 :
        /\ q = o \div BLOCK_SIZE /\ r = o % BLOCK_SIZE /\ o = q * BLOCK_SIZE + r
  BY <1>1, DivModSplit
<1>3. o + n = (r + n) + q * BLOCK_SIZE /\ r + n \in Int
  BY <1>1, <1>2
<1>4. /\ ((r + n) + q * BLOCK_SIZE) \div BLOCK_SIZE = (r + n) \div BLOCK_SIZE + q
      /\ ((r + n) + q * BLOCK_SIZE) % BLOCK_SIZE = (r + n) % BLOCK_SIZE
  BY <1>1, <1>3, DivAdd, Zenon
<1>5. (r + n) \div BLOCK_SIZE \in Int
  BY <1>1, <1>3
<1> QED
  BY <1>2, <1>3, <1>4, <1>5

(* The block a descriptor stands on, and its byte *)
LEMMA CursorNumbers ==
  ASSUME BlockInv, NEW i \in Used
  PROVE  LET fd == file_descriptors[i]
             f == file[fd.file] IN
         /\ fd \in FileDesc /\ fd.file \in Files /\ f \in FileRec
         /\ fd.total_offset \in Nat /\ f.total_size \in Nat /\ fd.total_offset <= f.total_size
         /\ fd.cur_block = fd.total_offset \div BLOCK_SIZE + 1 /\ fd.cur_block # 0
         /\ InBlock(fd) = fd.total_offset % BLOCK_SIZE
         /\ Blocks(f) = f.total_size \div BLOCK_SIZE + 1 /\ f.last_block = Blocks(f)
         /\ Blocks(f) \in Nat /\ f.mem \in Seq(Nat)
<1> DEFINE fd == file_descriptors[i]
           f == file[fd.file]
<1>1. /\ fd \in FileDesc /\ fd.file \in Files /\ fd.total_offset \in 0 .. MAX_FILE_SIZE
  BY OpenFd DEF BlockInv
<1>2. /\ f \in FileRec /\ f.total_size \in 0 .. MAX_FILE_SIZE /\ Blocks(f) \in Nat
      /\ f.mem \in Seq(Nat)
  BY <1>1, BlockNumbers DEF BlockInv
<1>3. OnBlock(fd, f) /\ Covered(f)
  BY OpenCover
<1> HIDE DEF fd, f
<1>4. fd.total_offset \in Nat /\ f.total_size \in Nat /\ BLOCK_SIZE \in Nat \ {0}
  BY <1>1, <1>2, Sizes
<1>5. fd.total_offset \div BLOCK_SIZE \in Nat
  BY <1>4, DivNat
<1>6. fd.cur_block # 0
  BY <1>3, <1>5 DEF OnBlock
<1>7. /\ fd \in FileDesc /\ fd.file \in Files /\ f \in FileRec
      /\ fd.total_offset \in Nat /\ f.total_size \in Nat /\ fd.total_offset <= f.total_size
      /\ fd.cur_block = fd.total_offset \div BLOCK_SIZE + 1 /\ fd.cur_block # 0
      /\ InBlock(fd) = fd.total_offset % BLOCK_SIZE
      /\ Blocks(f) = f.total_size \div BLOCK_SIZE + 1 /\ f.last_block = Blocks(f)
      /\ Blocks(f) \in Nat /\ f.mem \in Seq(Nat)
  BY <1>1, <1>2, <1>3, <1>4, <1>6 DEF OnBlock, Covered, InBlock
<1> QED
  BY <1>7 DEF f, fd

LEMMA CoverRead ==
  ASSUME ~BoundaryReads, BlockInv, FSInv', NEW i \in Handles, NEW size \in ReadSizes,
         ufs_read(i, size)
  PROVE  BlockInv'
<1>1. CASE \/ \E code \in {"NO_FILE", "NO_MEM", "NO_PERMISSION"} : Refuse(code)
           \/ Succeed(0, <<>>) /\ UNCHANGED <<fileVars, fdVars, crashed, down>>
  <2>1. UNCHANGED <<fileVars, fdVars, crashed>>
    BY <1>1 DEF Refuse
  <2> QED
    BY <2>1, QuietCover
<1>2. CASE ~(\/ \E code \in {"NO_FILE", "NO_MEM", "NO_PERMISSION"} : Refuse(code)
             \/ Succeed(0, <<>>) /\ UNCHANGED <<fileVars, fdVars, crashed, down>>)
  <2> DEFINE fd == file_descriptors[i]
             f == file[fd.file]
             B == Blocks(f)
             o == fd.total_offset
             t == f.total_size
             n == Min({size, f.total_size - fd.total_offset, Len(f.mem) - Position(fd)})
             next == fd.cur_block + Passed(fd, n)
             stays == /\ n > 0 /\ (InBlock(fd) + n) % BLOCK_SIZE = 0
                      /\ fd.total_offset + n >= f.total_size \/ next > Blocks(f)
             c == IF stays THEN next - 1 ELSE next
             d == [fd EXCEPT !.cur_block = c, !.total_offset = fd.total_offset + n]
  <2>1. /\ i \in Used /\ o < t /\ ~StopsAtBoundary(i, size)
        /\ IF fd.cur_block = 0 /\ size > 0 THEN Crash ELSE ReadBytes(i, size)
    BY <1>2 DEF ufs_read
  <2>2. /\ fd \in FileDesc /\ fd.file \in Files /\ f \in FileRec
        /\ o \in Nat /\ t \in Nat
        /\ fd.cur_block = o \div BLOCK_SIZE + 1 /\ fd.cur_block # 0
        /\ InBlock(fd) = o % BLOCK_SIZE
        /\ B = t \div BLOCK_SIZE + 1 /\ Covered(f)
    BY <2>1, CursorNumbers, OpenCover
  <2>3. /\ file_descriptors' = [file_descriptors EXCEPT ![i] = d]
        /\ UNCHANGED <<file, file_list, crashed>>
    BY <2>1, <2>2 DEF ReadBytes, fileVars
  <2>4. ~(t % BLOCK_SIZE = 0 /\ o + size >= t)
    BY <2>1 DEF StopsAtBoundary
  <2>5. BLOCK_SIZE \in Nat \ {0} /\ size \in Nat
    BY Sizes
  <2>6. n \in Nat /\ n <= size /\ o + n <= t
    <3> DEFINE p == Len(f.mem) - Position(fd)
    <3>1. p \in Int /\ p > 0
      <4>1. /\ InBlock(fd) \in 0 .. BLOCK_SIZE - 1 /\ fd.cur_block \in 0 .. B
            /\ B \in Nat /\ Len(f.mem) = B * BLOCK_SIZE
        BY <2>1, <2>2, OpenFd, BlockNumbers DEF BlockInv
      <4>2. Position(fd) = (fd.cur_block - 1) * BLOCK_SIZE + InBlock(fd)
        BY DEF Position
      <4> HIDE DEF B, fd, f
      <4>3. Position(fd) \in Int /\ Position(fd) < B * BLOCK_SIZE
        BY <4>1, <4>2, BeforeEnd, Zenon
      <4> QED
        BY <2>5, <4>1, <4>3
    <3>2. n = Min({size, t - o, p})
      OBVIOUS
    <3> HIDE DEF n, p, t, o
    <3>3. size \in Int /\ t - o \in Int /\ t - o > 0
      BY <2>1, <2>2, <2>5
    <3>4. n \in {size, t - o, p} /\ n <= size /\ n <= t - o /\ n <= p
      BY <3>1, <3>2, <3>3, MinOfThree, Zenon
    <3> QED
      BY <2>2, <2>5, <3>1, <3>3, <3>4
  <2>7. stays => n > 0 /\ ((o % BLOCK_SIZE) + n) % BLOCK_SIZE = 0
                 /\ (o + n >= t \/ next > B)
    BY <2>2
  <2>8. Passed(fd, n) = ((o % BLOCK_SIZE) + n) \div BLOCK_SIZE
    BY <2>2 DEF Passed
  <2> HIDE DEF fd, f, B, o, t, n, stays
  <2>9. /\ next = (o + n) \div BLOCK_SIZE + 1
        /\ ((o % BLOCK_SIZE) + n) % BLOCK_SIZE = (o + n) % BLOCK_SIZE
    BY <2>2, <2>6, <2>8, MoveOn
  <2>10. ~stays
    <3>1. (o + n) \div BLOCK_SIZE <= t \div BLOCK_SIZE
      BY <2>2, <2>5, <2>6, DivMonotonic
    <3>2. /\ (o + n) \div BLOCK_SIZE \in Nat /\ t \div BLOCK_SIZE \in Nat
      BY <2>2, <2>5, <2>6, DivNat
    <3>3. ~(next > B)
      BY <2>2, <2>9, <3>1, <3>2
    <3>4. o + n >= t => o + n = t /\ o + size >= t
      BY <2>2, <2>5, <2>6
    <3> QED
      BY <2>4, <2>7, <2>9, <3>3, <3>4
  <2>11. /\ d.file = fd.file /\ d.cur_block = (o + n) \div BLOCK_SIZE + 1
         /\ d.total_offset = o + n
    BY <2>2, <2>9, <2>10 DEF FileDesc, o
  <2>12. OnBlock(d, f)
    BY <2>6, <2>11 DEF OnBlock, t
  <2> HIDE DEF d
  <2>13. file_descriptors \in Seq(FileDesc \cup {NULL}) /\ i \in DOMAIN file_descriptors
    BY <2>1 DEF BlockInv, FSInv, Types, Used, Slots
  <2>14. \A j \in Used' : file_descriptors'[j] = d \/ (j \in Used /\ file_descriptors'[j] = file_descriptors[j])
    BY <2>3, <2>13 DEF Used, Slots
  <2>15. PICK x \in Files : x = fd.file
    BY <2>2
  <2>16. /\ file'[x] = f /\ Covered(file'[x])
         /\ \A j \in Used : file_descriptors[j].file = x => OnBlock(file_descriptors[j], file'[x])
    BY <2>2, <2>3, <2>15, OpenCover DEF f
  <2>17. \A j \in Used' : file_descriptors'[j].file = x => OnBlock(file_descriptors'[j], file'[x])
    BY <2>12, <2>14, <2>16
  <2>18. \A j \in Used' : file_descriptors'[j].file # x =>
           j \in Used /\ file_descriptors'[j] = file_descriptors[j]
    BY <2>11, <2>14, <2>15
  <2> QED
    BY <2>3, <2>16, <2>17, <2>18, CoverFrame
<1> QED
  BY <1>1, <1>2

(* The blocks a write of k bytes at offset o needs in a file of t bytes *)
LEMMA WriteNeeds ==
  ASSUME NEW t \in Nat, NEW o \in Nat, NEW k \in Nat
  PROVE  LET m == Max({0, ((o + k) \div BLOCK_SIZE + 1) - (t \div BLOCK_SIZE + 1)}) IN
         /\ m \in Nat /\ o + k <= Max({t, o + k}) /\ t <= Max({t, o + k})
         /\ (t \div BLOCK_SIZE + 1) + m = Max({t, o + k}) \div BLOCK_SIZE + 1
         /\ m # 0 => (o + k) \div BLOCK_SIZE + 1 = Max({t, o + k}) \div BLOCK_SIZE + 1
<1> DEFINE e == o + k
           a == e \div BLOCK_SIZE
           b == t \div BLOCK_SIZE
           m == Max({0, (a + 1) - (b + 1)})
<1>1. BLOCK_SIZE \in Nat \ {0} /\ e \in Nat
  BY Sizes
<1>2. a \in Nat /\ b \in Nat /\ (e <= t => a <= b) /\ (t <= e => b <= a)
  BY <1>1, DivNat, DivMonotonic
<1>4. Max({t, e}) = IF t >= e THEN t ELSE e
  <2>1. t \in Int /\ e \in Int
    BY <1>1
  <2> QED
    BY <2>1, MaxOfTwo, Zenon
<1>5. /\ Max({t, e}) = t => Max({t, e}) \div BLOCK_SIZE = b
      /\ Max({t, e}) = e => Max({t, e}) \div BLOCK_SIZE = a
  BY Zenon
<1> HIDE DEF a, b, e, m
<1>6. m = IF 0 >= (a + 1) - (b + 1) THEN 0 ELSE (a + 1) - (b + 1)
  <2>1. 0 \in Int /\ (a + 1) - (b + 1) \in Int
    BY <1>2
  <2> QED
    BY <2>1, MaxOfTwo, Zenon DEF m
<1>7. /\ m \in Nat /\ e <= Max({t, e}) /\ t <= Max({t, e})
      /\ (b + 1) + m = Max({t, e}) \div BLOCK_SIZE + 1
      /\ m # 0 => a + 1 = Max({t, e}) \div BLOCK_SIZE + 1
  <2>1. CASE t >= e
    BY <1>1, <1>2, <1>4, <1>5, <1>6, <2>1
  <2>2. CASE ~(t >= e)
    BY <1>1, <1>2, <1>4, <1>5, <1>6, <2>2
  <2> QED
    BY <2>1, <2>2
<1> QED
  BY <1>7 DEF a, b, e, m

LEMMA CoverWrite ==
  ASSUME ~AllocFails, BlockInv, FSInv', NEW i \in Handles, NEW b \in Buffers, ufs_write(i, b)
  PROVE  BlockInv'
<1>1. CASE \E code \in {"NO_FILE", "NO_MEM", "NO_PERMISSION"} : Refuse(code)
  <2>1. UNCHANGED <<fileVars, fdVars, crashed>>
    BY <1>1 DEF Refuse
  <2> QED
    BY <2>1, QuietCover
<1>2. CASE ~(\E code \in {"NO_FILE", "NO_MEM", "NO_PERMISSION"} : Refuse(code))
  <2> DEFINE fd == file_descriptors[i]
             f == file[fd.file]
             B == Blocks(f)
             o == fd.total_offset
             t == f.total_size
             k == Len(b)
             next == fd.cur_block + Passed(fd, k)
             m == Max({0, fd.cur_block + Passed(fd, k) - Blocks(f)})
             M == Patch(WithBlocks(f.mem, m), Position(fd), b)
             l == IF m = 0 THEN f.last_block ELSE IF m < m THEN 0 ELSE next
             T == Max({f.total_size, fd.total_offset + k})
             g == [f EXCEPT !.mem = M, !.last_block = l, !.total_size = T]
             c == IF m < m THEN 0 ELSE next
             d == [fd EXCEPT !.cur_block = c, !.total_offset = fd.total_offset + k]
  <2>1. i \in Used /\ WriteThrough(i, b)
    BY <1>2 DEF ufs_write
  <2>2. /\ fd \in FileDesc /\ fd.file \in Files /\ f \in FileRec
        /\ o \in Nat /\ t \in Nat /\ o <= t
        /\ fd.cur_block = o \div BLOCK_SIZE + 1 /\ fd.cur_block # 0
        /\ InBlock(fd) = o % BLOCK_SIZE /\ B \in Nat /\ f.mem \in Seq(Nat)
        /\ B = t \div BLOCK_SIZE + 1 /\ f.last_block = B
    BY <2>1, CursorNumbers
  <2>3. BLOCK_SIZE \in Nat \ {0} /\ b \in Seq(Nat) /\ k \in Nat
    BY Sizes
  <2>4. Passed(fd, k) = ((o % BLOCK_SIZE) + k) \div BLOCK_SIZE
    BY <2>2 DEF Passed
  <2>5. next = (o + k) \div BLOCK_SIZE + 1 /\ next \in Nat /\ Passed(fd, k) \in Int
    <3> HIDE DEF o, fd, k
    <3>1. next = (o + k) \div BLOCK_SIZE + 1
      BY <2>2, <2>3, <2>4, MoveOn
    <3>2. (o + k) \div BLOCK_SIZE \in Nat /\ ((o % BLOCK_SIZE) + k) \div BLOCK_SIZE \in Int
      <4>1. o + k \in Nat /\ (o % BLOCK_SIZE) + k \in Int
        <5>1. o \in Nat /\ k \in Nat /\ BLOCK_SIZE \in Nat \ {0}
          BY <2>2, <2>3
        <5> QED
          BY ONLY <5>1
      <4>2. (o + k) \div BLOCK_SIZE \in Nat
        BY <2>3, <4>1, DivNat, Zenon
      <4> QED
        BY <2>3, <4>1, <4>2
    <3> QED
      BY <2>4, <3>1, <3>2
  <2>6. m = Max({0, ((o + k) \div BLOCK_SIZE + 1) - (t \div BLOCK_SIZE + 1)})
    <3>1. fd.cur_block + (Passed(fd, k) - B) = next - B
      <4>1. fd.cur_block \in Int
        BY <2>2, <2>3
      <4> QED
        BY <2>2, <2>5, <4>1
    <3>2. m = Max({0, next - B})
      BY <3>1, Zenon
    <3> QED
      BY <2>2, <2>5, <3>2, Zenon
  <2>7. T = Max({t, o + k})
    OBVIOUS
  <2>9. /\ m \in Nat /\ o + k <= T /\ t <= T
        /\ (t \div BLOCK_SIZE + 1) + m = T \div BLOCK_SIZE + 1
        /\ m # 0 => next = T \div BLOCK_SIZE + 1
    <3> DEFINE e == Max({0, ((o + k) \div BLOCK_SIZE + 1) - (t \div BLOCK_SIZE + 1)})
    <3> HIDE DEF o, t, k, m, T, next
    <3>1. /\ e \in Nat /\ o + k <= Max({t, o + k}) /\ t <= Max({t, o + k})
          /\ (t \div BLOCK_SIZE + 1) + e = Max({t, o + k}) \div BLOCK_SIZE + 1
          /\ e # 0 => (o + k) \div BLOCK_SIZE + 1 = Max({t, o + k}) \div BLOCK_SIZE + 1
      BY <2>2, <2>3, WriteNeeds
    <3>2. e = m
      BY <2>6
    <3> HIDE DEF e
    <3> QED
      BY ONLY <2>5, <2>7, <3>1, <3>2
  <2>10. /\ file' = [file EXCEPT ![fd.file] = g]
         /\ file_descriptors' = [file_descriptors EXCEPT ![i] = d]
         /\ UNCHANGED <<file_list, crashed>>
    <3>1. \E got \in 0 .. m : /\ got = m
                              /\ IF \/ got + 1 < m
                                    \/ got < m /\ (InBlock(fd) + k) % BLOCK_SIZE # 0
                                 THEN Crash ELSE WriteBytes(i, b, m, got)
      BY <2>1, <2>2 DEF WriteThrough
    <3>2. ~(m + 1 < m) /\ ~(m < m)
      <4> HIDE DEF m
      <4> QED
        BY <2>9
    <3>3. WriteBytes(i, b, m, m)
      BY <3>1, <3>2, Zenon
    <3> QED
      BY <3>3 DEF WriteBytes
  <2>11. Len(M) = (B + m) * BLOCK_SIZE /\ M \in Seq(Nat)
    <3>1. Position(fd) \in Int
      <4>1. fd.cur_block \in Int /\ InBlock(fd) \in Int
        BY <2>2, <2>3
      <4> QED
        BY <2>3, <4>1 DEF Position
    <3>2. FSInv /\ m \in Nat /\ fd.file \in Files /\ b \in Seq(Nat)
      BY <2>2, <2>3, <2>9 DEF BlockInv
    <3> DEFINE x == fd.file
               p == Position(fd)
    <3> HIDE DEF m, x, p
    <3>3. /\ Patch(WithBlocks(file[x].mem, m), p, b) \in Seq(Nat)
          /\ Len(Patch(WithBlocks(file[x].mem, m), p, b)) = (Blocks(file[x]) + m) * BLOCK_SIZE
      <4>1. x \in Files /\ p \in Int
        BY <3>1, <3>2 DEF x, p
      <4> QED
        BY ONLY <3>2, <4>1, LongerChain
    <3> QED
      BY <3>3, Zenon DEF x, p
  <2>12. l = B + m /\ c = next /\ B + m \in Nat
    <3> HIDE DEF m, B, next
    <3> QED
      BY <2>2, <2>9
  <2> HIDE DEF M, m, l, T, c, next
  <2>13. g.mem = M /\ g.last_block = l /\ g.total_size = T
    BY <2>2 DEF FileRec
  <2>14. d.file = fd.file /\ d.cur_block = c /\ d.total_offset = o + k
    BY <2>2 DEF FileDesc
  <2> HIDE DEF g, d, B
  <2>15. Blocks(g) = B + m
    BY <2>11, <2>12, <2>13, WholeBlocks
  <2>16. Covered(g)
    BY <2>2, <2>9, <2>12, <2>13, <2>15 DEF Covered
  <2>17. OnBlock(d, g)
    BY <2>5, <2>9, <2>12, <2>13, <2>14 DEF OnBlock
  <2>18. PICK x \in Files : x = fd.file
    BY <2>2
  <2>19. /\ file \in [Files -> FileRec] /\ file_descriptors \in Seq(FileDesc \cup {NULL})
         /\ i \in DOMAIN file_descriptors
    BY <2>1 DEF BlockInv, FSInv, Types, Used, Slots
  <2>20. file'[x] = g /\ \A y \in Files : y # x => file'[y] = file[y]
    BY <2>10, <2>18, <2>19
  <2>21. \A j \in Used' : file_descriptors'[j] = d \/ (j \in Used /\ file_descriptors'[j] = file_descriptors[j])
    BY <2>10, <2>19 DEF Used, Slots
  <2>22. ASSUME NEW j \in Used, file_descriptors[j].file = x
         PROVE  OnBlock(file_descriptors[j], g)
    <3>1. OnBlock(file_descriptors[j], file[x]) /\ file_descriptors[j].total_offset \in Nat
      BY <2>22, OpenCover, CursorNumbers
    <3>2. file[x].total_size = t /\ T \in Int
      <4>1. T \in {t, o + k} /\ o + k \in Int
        <5>1. t \in Int /\ o + k \in Int
          BY <2>2, <2>3
        <5> QED
          BY <2>7, <5>1, MaxOfTwo, Zenon
      <4> QED
        BY <2>2, <2>18, <4>1
    <3> HIDE DEF t
    <3> QED
      BY <2>2, <2>9, <2>13, <3>1, <3>2 DEF OnBlock
  <2>23. \A j \in Used' : file_descriptors'[j].file = x => OnBlock(file_descriptors'[j], file'[x])
    BY <2>17, <2>20, <2>21, <2>22
  <2>24. \A j \in Used' : file_descriptors'[j].file # x =>
           j \in Used /\ file_descriptors'[j] = file_descriptors[j]
    BY <2>14, <2>18, <2>21
  <2> QED
    BY <2>10, <2>16, <2>20, <2>23, <2>24, CoverFrame
<1> QED
  BY <1>1, <1>2

(* The blocks ufs_extend_file adds *)
LEMMA ExtendNeeds ==
  ASSUME NEW t \in Nat, NEW z \in Nat, t < z
  PROVE  /\ ((t % BLOCK_SIZE) + (z - t)) \div BLOCK_SIZE \in Nat
         /\ ((t % BLOCK_SIZE) + (z - t)) \div BLOCK_SIZE = z \div BLOCK_SIZE - t \div BLOCK_SIZE
<1>1. BLOCK_SIZE \in Nat \ {0}
  BY Sizes
<1>2. PICK q \in Int, r \in 0 .. BLOCK_SIZE - 1 :
        q = t \div BLOCK_SIZE /\ r = t % BLOCK_SIZE /\ t = q * BLOCK_SIZE + r
  BY <1>1, DivModSplit
<1>3. z = (r + (z - t)) + q * BLOCK_SIZE /\ r + (z - t) \in Int /\ r + (z - t) \in Nat
  BY <1>1, <1>2
<1>4. ((r + (z - t)) + q * BLOCK_SIZE) \div BLOCK_SIZE = (r + (z - t)) \div BLOCK_SIZE + q
  BY <1>1, <1>3, DivAdd, Zenon
<1>5. (r + (z - t)) \div BLOCK_SIZE \in Nat
  BY <1>1, <1>3, DivNat, Zenon
<1> QED
  BY <1>2, <1>3, <1>4, <1>5

LEMMA CoverExtend ==
  ASSUME ~AllocFails, BlockInv, FSInv', NEW x \in Files, NEW z \in Nat,
         file[x].total_size < z, Covered(file[x]), ufs_extend_file(x, z)
  PROVE  BlockInv'
<1> DEFINE f == file[x]
           B == Blocks(f)
           t == f.total_size
           o == f.total_size % BLOCK_SIZE
           m == (o + (z - f.total_size)) \div BLOCK_SIZE
           M == Cleared(WithBlocks(f.mem, m), (f.last_block - 1) * BLOCK_SIZE + o,
                        z - f.total_size)
           g == [f EXCEPT !.mem = M, !.last_block = f.last_block + m, !.total_size = z]
<1>1. /\ f \in FileRec /\ B \in Nat /\ t \in Nat /\ BLOCK_SIZE \in Nat \ {0}
      /\ B = t \div BLOCK_SIZE + 1 /\ f.last_block = B /\ t \div BLOCK_SIZE \in Nat
  <2>1. f \in FileRec /\ B \in Nat /\ t \in 0 .. MAX_FILE_SIZE
    BY BlockNumbers DEF BlockInv
  <2>2. t \in Nat /\ BLOCK_SIZE \in Nat \ {0}
    BY <2>1, Sizes
  <2>3. t \div BLOCK_SIZE \in Nat
    BY <2>2, DivNat
  <2> QED
    BY <2>1, <2>2, <2>3 DEF Covered
<1>2. /\ file' = [file EXCEPT ![x] = g]
      /\ UNCHANGED <<file_list, fdVars, crashed>>
  <2>1. f.last_block # 0
    BY <1>1
  <2> QED
    BY <2>1 DEF ufs_extend_file
<1>3. m \in Nat /\ m = z \div BLOCK_SIZE - t \div BLOCK_SIZE
  <2>1. t < z /\ m = ((t % BLOCK_SIZE) + (z - t)) \div BLOCK_SIZE
    OBVIOUS
  <2> HIDE DEF m, t
  <2>2. /\ ((t % BLOCK_SIZE) + (z - t)) \div BLOCK_SIZE \in Nat
        /\ ((t % BLOCK_SIZE) + (z - t)) \div BLOCK_SIZE = z \div BLOCK_SIZE - t \div BLOCK_SIZE
    BY <1>1, <2>1, ExtendNeeds, Zenon
  <2> QED
    BY <2>1, <2>2
<1>4. Len(M) = (B + m) * BLOCK_SIZE
  <2> DEFINE p == (f.last_block - 1) * BLOCK_SIZE + o
             n == z - f.total_size
  <2>1. Zeros(n) \in Seq(Nat)
    <3>1. n \in Nat
      BY <1>1
    <3> QED
      BY <3>1, ZerosType, Zenon
  <2>2. p \in Int
    BY <1>1
  <2>3. M = Patch(WithBlocks(f.mem, m), p, Zeros(n))
    BY DEF Cleared
  <2> HIDE DEF p, n, M, m
  <2> QED
    BY <1>3, <2>1, <2>2, <2>3, LongerChain DEF BlockInv
<1> HIDE DEF M, m
<1>5. g.mem = M /\ g.last_block = B + m /\ g.total_size = z
  BY <1>1 DEF FileRec
<1>6. z \div BLOCK_SIZE \in Nat
  BY <1>1, DivNat
<1> HIDE DEF g, B
<1>7. Blocks(g) = B + m /\ B + m = z \div BLOCK_SIZE + 1
  <2>1. B + m \in Int
    BY <1>1, <1>3
  <2>2. Blocks(g) = B + m
    BY <1>4, <1>5, <2>1, WholeBlocks
  <2> QED
    BY <1>1, <1>3, <1>6, <2>2
<1>8. Covered(g)
  BY <1>5, <1>7 DEF Covered
<1>9. UNCHANGED file_descriptors /\ Used' = Used
  BY <1>2 DEF fdVars, Used, Slots
<1>10. file'[x] = g /\ \A y \in Files : y # x => file'[y] = file[y]
  BY <1>2 DEF BlockInv, FSInv, Types
<1>11. ASSUME NEW j \in Used, file_descriptors[j].file = x
       PROVE  OnBlock(file_descriptors[j], g)
  <2>1. OnBlock(file_descriptors[j], file[x]) /\ file_descriptors[j].total_offset \in Nat
    BY <1>11, OpenCover, CursorNumbers
  <2> QED
    BY <1>1, <1>5, <2>1 DEF OnBlock
<1>12. \A j \in Used' : file_descriptors'[j].file = x => OnBlock(file_descriptors'[j], file'[x])
  BY <1>9, <1>10, <1>11
<1> QED
  BY <1>2, <1>8, <1>9, <1>10, <1>12, CoverFrame

LEMMA CoverReduce ==
  ASSUME BlockInv, FSInv', NEW x \in Files, NEW z \in Nat,
         z < file[x].total_size, Covered(file[x]), ufs_reduce_file(x, z)
  PROVE  BlockInv'
<1> DEFINE f == file[x]
           B == Blocks(f)
           t == f.total_size
           freed == BlocksFreed(f.total_size, z)
           left == IF freed = 0 THEN Blocks(f) ELSE f.last_block - freed
           l == f.last_block - freed
           M == SubSeq(f.mem, 1, left * BLOCK_SIZE)
           g == [f EXCEPT !.mem = M, !.last_block = l, !.total_size = z]
<1>1. /\ f \in FileRec /\ B \in Nat /\ t \in Nat /\ BLOCK_SIZE \in Nat \ {0}
      /\ B = t \div BLOCK_SIZE + 1 /\ f.last_block = B /\ f.mem \in Seq(Nat)
      /\ t \div BLOCK_SIZE \in Nat /\ z \div BLOCK_SIZE \in Nat
      /\ z \div BLOCK_SIZE <= t \div BLOCK_SIZE /\ Len(f.mem) = B * BLOCK_SIZE
  <2>1. /\ f \in FileRec /\ B \in Nat /\ t \in 0 .. MAX_FILE_SIZE /\ f.mem \in Seq(Nat)
        /\ Len(f.mem) = B * BLOCK_SIZE
    BY BlockNumbers DEF BlockInv
  <2>2. t \in Nat /\ BLOCK_SIZE \in Nat \ {0} /\ z <= t
    BY <2>1, Sizes
  <2>3. t \div BLOCK_SIZE \in Nat /\ z \div BLOCK_SIZE \in Nat
    BY <2>2, DivNat
  <2>4. z \div BLOCK_SIZE <= t \div BLOCK_SIZE
    BY <2>2, DivMonotonic
  <2> QED
    BY <2>1, <2>2, <2>3, <2>4 DEF Covered
<1>2. /\ freed = t \div BLOCK_SIZE - z \div BLOCK_SIZE /\ freed \in Nat
      /\ freed <= f.last_block /\ ~(freed > f.last_block)
  <2>1. freed = t \div BLOCK_SIZE - z \div BLOCK_SIZE
    BY DEF BlocksFreed
  <2> HIDE DEF freed, t, B
  <2>2. f.last_block = t \div BLOCK_SIZE + 1
    BY <1>1
  <2> QED
    BY <1>1, <2>1, <2>2
<1>3. /\ file' = [file EXCEPT ![x] = g]
      /\ file_descriptors' = [i \in Slots |->
           IF i \notin FdsOf(x) THEN file_descriptors[i]
           ELSE Moved(file_descriptors[i], z, l, left)]
      /\ UNCHANGED <<file_list, crashed>>
  BY <1>2 DEF ufs_reduce_file
<1> HIDE DEF freed
<1>4. left = z \div BLOCK_SIZE + 1 /\ l = left /\ left \in Nat /\ left <= B
  <2>1. PICK q \in Nat, p \in Nat : q = t \div BLOCK_SIZE /\ p = z \div BLOCK_SIZE
    BY <1>1
  <2>2. /\ freed = q - p /\ f.last_block = q + 1 /\ B = q + 1 /\ p <= q
    BY <1>1, <1>2, <2>1
  <2>3. left = IF freed = 0 THEN B ELSE f.last_block - freed
    OBVIOUS
  <2>4. left = p + 1 /\ l = p + 1
    BY ONLY <2>2, <2>3, q \in Nat, p \in Nat DEF l
  <2> QED
    BY ONLY <2>1, <2>2, <2>4, q \in Nat, p \in Nat
<1> HIDE DEF left, l
<1>5. Len(M) = left * BLOCK_SIZE
  <2> HIDE DEF f, B, t
  <2>1. left * BLOCK_SIZE \in Nat /\ left * BLOCK_SIZE <= Len(f.mem)
    <3>1. left * BLOCK_SIZE <= B * BLOCK_SIZE
      BY <1>1, <1>4, MulMonotonic
    <3> QED
      BY <1>1, <1>4, <3>1
  <2>2. \A k \in 1 .. left * BLOCK_SIZE : f.mem[k] \in Nat
    BY <1>1, <2>1
  <2> QED
    BY <1>1, <2>1, <2>2, SubSeqProperties
<1> HIDE DEF M
<1>6. g.mem = M /\ g.last_block = l /\ g.total_size = z
  BY <1>1 DEF FileRec
<1> HIDE DEF g
<1>7. Covered(g)
  <2>1. Blocks(g) = left
    BY <1>4, <1>5, <1>6, WholeBlocks
  <2> QED
    BY <1>4, <1>6, <2>1 DEF Covered
<1>8. file'[x] = g /\ \A y \in Files : y # x => file'[y] = file[y]
  BY <1>3 DEF BlockInv, FSInv, Types
<1>9. ASSUME NEW j \in FdsOf(x)
      PROVE  /\ file_descriptors'[j].file = x /\ OnBlock(file_descriptors'[j], g)
  <2> DEFINE fd == file_descriptors[j]
             o == fd.total_offset
  <2>1. j \in Used /\ fd.file = x /\ j \in Slots
    BY DEF FdsOf, Used
  <2>2. /\ fd \in FileDesc /\ o \in Nat /\ fd.cur_block = o \div BLOCK_SIZE + 1
    BY <2>1, CursorNumbers
  <2>3. file_descriptors'[j] = Moved(fd, z, l, left)
    BY <1>3, <2>1
  <2> HIDE DEF fd
  <2>4. CASE o > z
    <3> DEFINE d == [fd EXCEPT !.total_offset = z, !.cur_block = l]
    <3>1. Moved(fd, z, l, left) = d
      BY <2>4 DEF Moved
    <3>2. d.file = fd.file /\ d.total_offset = z /\ d.cur_block = l
      BY <2>2 DEF FileDesc
    <3> HIDE DEF d
    <3> QED
      BY <1>4, <1>6, <2>1, <2>3, <3>1, <3>2 DEF OnBlock
  <2>5. CASE ~(o > z)
    <3>1. o \div BLOCK_SIZE <= z \div BLOCK_SIZE /\ o \div BLOCK_SIZE \in Nat /\ o <= z
      <4>1. o <= z
        BY <2>2, <2>5
      <4> HIDE DEF o
      <4>2. o \div BLOCK_SIZE <= z \div BLOCK_SIZE
        <5>1. o \in Int /\ z \in Int
          BY <2>2
        <5> QED
          BY <1>1, <4>1, <5>1, DivMonotonic, Zenon
      <4> QED
        BY <1>1, <2>2, <4>1, <4>2, DivNat
    <3>2. ~(fd.cur_block > left)
      BY <1>1, <1>4, <2>2, <3>1
    <3>3. Moved(fd, z, l, left) = [fd EXCEPT !.cur_block = fd.cur_block]
      BY <2>5, <3>2 DEF Moved
    <3>4. Moved(fd, z, l, left) = fd
      BY <2>2, <3>3 DEF FileDesc
    <3> QED
      BY <1>6, <2>1, <2>2, <2>3, <3>1, <3>4 DEF OnBlock
  <2> QED
    BY <2>4, <2>5
<1>10. DOMAIN file_descriptors' = Slots
  BY <1>3
<1>11. ASSUME NEW j \in Used', j \notin FdsOf(x)
       PROVE  j \in Used /\ file_descriptors'[j] = file_descriptors[j]
  <2>1. j \in Slots /\ file_descriptors'[j] # NULL
    BY <1>10 DEF Used, Slots
  <2>2. file_descriptors'[j] = file_descriptors[j]
    BY <1>3, <1>11, <2>1
  <2> QED
    BY <2>1, <2>2 DEF Used
<1>12. \A j \in Used' : file_descriptors'[j].file = x => OnBlock(file_descriptors'[j], file'[x])
  <2> SUFFICES ASSUME NEW j \in Used', file_descriptors'[j].file = x
               PROVE  OnBlock(file_descriptors'[j], file'[x])
    OBVIOUS
  <2>1. j \in FdsOf(x)
    BY <1>11 DEF FdsOf
  <2> QED
    BY <1>8, <1>9, <2>1
<1>13. \A j \in Used' : file_descriptors'[j].file # x =>
         j \in Used /\ file_descriptors'[j] = file_descriptors[j]
  BY <1>9, <1>11
<1> QED
  BY <1>3, <1>7, <1>8, <1>12, <1>13, CoverFrame

LEMMA CoverResize ==
  ASSUME ~AllocFails, BlockInv, FSInv', NEW i \in Handles, NEW z \in NewSizes, ufs_resize(i, z)
  PROVE  BlockInv'
<1>1. CASE \/ \E code \in {"NO_FILE", "NO_MEM", "NO_PERMISSION"} : Refuse(code)
           \/ Succeed(0, <<>>) /\ UNCHANGED <<fileVars, fdVars, crashed, down>>
  <2>1. UNCHANGED <<fileVars, fdVars, crashed>>
    BY <1>1 DEF Refuse
  <2> QED
    BY <2>1, QuietCover
<1>2. CASE ~(\/ \E code \in {"NO_FILE", "NO_MEM", "NO_PERMISSION"} : Refuse(code)
             \/ Succeed(0, <<>>) /\ UNCHANGED <<fileVars, fdVars, crashed, down>>)
  <2> DEFINE x == file_descriptors[i].file
  <2>1. /\ i \in Used
        /\ \/ z > file[x].total_size /\ ufs_extend_file(x, z)
           \/ z < file[x].total_size /\ ufs_reduce_file(x, z)
    BY <1>2 DEF ufs_resize
  <2>2. x \in Files /\ z \in Nat /\ Covered(file[x])
    BY <2>1, OpenCover, Sizes
  <2>3. file[x].total_size \in Nat
    BY <2>1, CursorNumbers
  <2>4. CASE z > file[x].total_size /\ ufs_extend_file(x, z)
    <3>1. file[x].total_size < z
      BY <2>2, <2>3, <2>4
    <3> QED
      BY <2>2, <2>4, <3>1, CoverExtend
  <2>5. CASE z < file[x].total_size /\ ufs_reduce_file(x, z)
    BY <2>2, <2>5, CoverReduce
  <2> QED
    BY <2>1, <2>4, <2>5
<1> QED
  BY <1>1, <1>2

(* As long as calloc does not fail and no read stops at the end of a file  *)
(* whose last block is full, chains, cursors and calls are sound.          *)
THEOREM BlockInvariant ==
  ASSUME ~AllocFails, ~BoundaryReads
  PROVE  Spec => []BlockInv
<1>1. Init => BlockInv
  <2> SUFFICES ASSUME Init PROVE BlockInv
    OBVIOUS
  <2>1. Used = {} /\ DOMAIN file_list = {} /\ ~crashed
    BY DEF Init, Used, Slots
  <2> QED
    BY <2>1, InitFS DEF BlockInv, BlocksCover, CursorOnBlock, NoCrash
<1>2. FSInv' /\ BlockInv /\ [Next]_fsVars => BlockInv'
  <2> SUFFICES ASSUME FSInv', BlockInv, [Next]_fsVars PROVE BlockInv'
    OBVIOUS
  <2>1. CASE \E n \in Names, flags \in OpenFlags : ufs_open(n, flags)
    BY <2>1, CoverOpen
  <2>2. CASE \E i \in Handles, b \in Buffers : ufs_write(i, b)
    BY <2>2, CoverWrite
  <2>3. CASE \E i \in Handles, size \in ReadSizes : ufs_read(i, size)
    BY <2>3, CoverRead
  <2>4. CASE (\E i \in Handles : ufs_close(i)) \/ ufs_shutdown
    BY <2>4, CoverClose
  <2>5. CASE \E n \in Names : ufs_delete(n)
    BY <2>5, CoverDelete
  <2>6. CASE \E i \in Handles, size \in NewSizes : ufs_resize(i, size)
    BY <2>6, CoverResize
  <2>7. CASE UNCHANGED fsVars
    BY <2>7, QuietCover DEF fsVars
  <2> QED
    BY <2>1, <2>2, <2>3, <2>4, <2>5, <2>6, <2>7 DEF Next
<1> QED
  BY <1>1, <1>2, FSInvariant, PTL DEF Spec

(* A file has exactly the blocks its size calls for, and last_block is the *)
(* last of them.                                                           *)
THEOREM ChainsFitSizes ==
  ASSUME ~AllocFails, ~BoundaryReads
  PROVE  Spec => []BlocksCover
<1>1. BlockInv => BlocksCover
  BY DEF BlockInv
<1> QED
  BY <1>1, BlockInvariant, PTL

(* Every descriptor stands on the block its offset lies in, whatever other *)
(* descriptors wrote, truncated or extended in the meantime.               *)
THEOREM CursorsStayOnBlock ==
  ASSUME ~AllocFails, ~BoundaryReads
  PROVE  Spec => []CursorOnBlock
<1>1. BlockInv => CursorOnBlock
  BY DEF BlockInv
<1> QED
  BY <1>1, BlockInvariant, PTL

(* No call of the file system dereferences a NULL or freed block. *)
THEOREM NoCallCrashes ==
  ASSUME ~AllocFails, ~BoundaryReads
  PROVE  Spec => []NoCrash
<1>1. BlockInv => NoCrash
  BY DEF BlockInv
<1> QED
  BY <1>1, BlockInvariant, PTL
=============================================================================
