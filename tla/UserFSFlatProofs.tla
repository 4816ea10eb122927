-------------------------- MODULE UserFSFlatProofs --------------------------
(***************************************************************************)
(* The file system implements FlatFS, as long as calloc does not fail and  *)
(* no read ends on a block boundary: every call is the call of FlatFS, for *)
(* any block size and any number of files and descriptors.                 *)
(*                                                                         *)
(* On top of BlockInv the mapping needs to know that an address that is    *)
(* not on the list holds nothing (Unlisted), that a file on the list has a *)
(* name of the application (Named), and how far the table grows (Bounded). *)
(***************************************************************************)
EXTENDS UserFSFlat, UserFSProofs

Listed(x) == \E i \in DOMAIN file_list : file_list[i] = x

Unlisted == \A x \in Files : ~Listed(x) => file[x].mem = <<>> /\ file[x].total_size = 0

Named == \A x \in Files : Listed(x) => file[x].name \in Names

Bounded == Len(file_descriptors) <= MaxSlots

ListInv == Unlisted /\ Named /\ Bounded

FlatInv == BlockInv /\ ListInv

-----------------------------------------------------------------------------
(* The mapping *)

(* The name n denotes the file x. *)
Denotes(n, x) == Listed(x) /\ file[x].name = n /\ ~file[x].marked_for_deletion

(* ufs_find_file finds the file that the name denotes, and there is one at *)
(* most.                                                                   *)
LEMMA FoundFile ==
  ASSUME FSInv, NEW n \in Names
  PROVE  /\ ufs_find_file(n) \in Files \cup {NULL}
         /\ \A x \in Files : ufs_find_file(n) = x <=> Denotes(n, x)
<1> DEFINE s == ufs_find_file(n)
<1>0. Types /\ OneFilePerName /\ NULL \notin Files
  BY FSAssumption DEF FSInv, Table
<1>1. s = NULL => \A i \in DOMAIN file_list :
                    file[file_list[i]].name = n => file[file_list[i]].marked_for_deletion
  BY <1>0, FindFile, Zenon
<1>2. s # NULL => \E i \in DOMAIN file_list :
                    /\ file_list[i] = s /\ file_list[i] \in Files
                    /\ file[file_list[i]].name = n
                    /\ ~file[file_list[i]].marked_for_deletion
  BY <1>0, FindFile, Zenon
<1> HIDE DEF s
<1>3. s \in Files \cup {NULL}
  BY <1>2
<1>4. ASSUME NEW x \in Files, s = x PROVE Denotes(n, x)
  BY <1>0, <1>2, <1>4, Zenon DEF Denotes, Listed
<1>5. ASSUME NEW x \in Files, Denotes(n, x) PROVE s = x
  <2>1. PICK j \in DOMAIN file_list : file_list[j] = x
    BY <1>5 DEF Denotes, Listed
  <2>2. s # NULL
    BY <1>1, <1>5, <2>1, Zenon DEF Denotes
  <2>3. PICK i \in DOMAIN file_list : /\ file_list[i] = s /\ file[file_list[i]].name = n
                                      /\ ~file[file_list[i]].marked_for_deletion
    BY <1>2, <2>2
  <2>4. i = j
    BY <1>0, <1>5, <2>1, <2>3, Zenon DEF OneFilePerName, Denotes
  <2> QED
    BY <2>1, <2>3, <2>4
<1> QED
  BY <1>3, <1>4, <1>5, Zenon DEF s

(* What the mapping makes of the names, of the files and of the table *)
DirMap ==
  \A n \in Names : /\ Dir[n] \in Files \cup {NULL}
                    /\ \A x \in Files : Dir[n] = x <=> Denotes(n, x)

ContentMap ==
  \A x \in Files : /\ file[x].total_size \in Nat /\ file[x].mem \in Seq(Nat)
                    /\ file[x].total_size <= Len(file[x].mem)
                    /\ Content[x] \in Seq(Nat) /\ Len(Content[x]) = file[x].total_size
                    /\ \A k \in 1 .. file[x].total_size : Content[x][k] = file[x].mem[k]

DescMap ==
  /\ Used \subseteq Descriptors
  /\ \A d \in Used : /\ Desc[d] = FlatDesc(file_descriptors[d]) /\ Desc[d] # NULL
                      /\ file_descriptors[d].file \in Files
  /\ \A d \in Descriptors : Desc[d] # NULL => d \in Used
  /\ \A x \in Files : Flat!OpenOn(x) = FdsOf(x)

LEMMA DirMapped == FlatInv => DirMap
<1> SUFFICES ASSUME FlatInv, NEW n \in Names
             PROVE  /\ Dir[n] \in Files \cup {NULL}
                    /\ \A x \in Files : Dir[n] = x <=> Denotes(n, x)
  BY Zenon DEF DirMap
<1>1. FSInv /\ Dir[n] = ufs_find_file(n)
  BY DEF FlatInv, BlockInv, Dir
<1> QED
  BY <1>1, FoundFile, Zenon

LEMMA ContentMapped == FlatInv => ContentMap
<1> SUFFICES ASSUME FlatInv, NEW x \in Files
             PROVE  /\ file[x].total_size \in Nat /\ file[x].mem \in Seq(Nat)
                    /\ file[x].total_size <= Len(file[x].mem)
                    /\ Content[x] \in Seq(Nat) /\ Len(Content[x]) = file[x].total_size
                    /\ \A k \in 1 .. file[x].total_size : Content[x][k] = file[x].mem[k]
  BY Zenon DEF ContentMap
<1> DEFINE t == file[x].total_size
           m == file[x].mem
<1>1. FSInv /\ BlocksCover /\ Unlisted
  BY DEF FlatInv, BlockInv, ListInv
<1>2. /\ m \in Seq(Nat) /\ Len(m) \in Nat /\ Blocks(file[x]) \in Nat
      /\ Len(m) = Blocks(file[x]) * BLOCK_SIZE /\ t \in 0 .. MAX_FILE_SIZE
  BY <1>1, BlockNumbers, Zenon
<1>3. t \in Nat /\ t \in Int /\ BLOCK_SIZE \in Nat \ {0}
  BY <1>2, Sizes
<1>4. t <= Len(m)
  <2>1. CASE Listed(x)
    <3>1. Blocks(file[x]) = t \div BLOCK_SIZE + 1
      BY <2>1, <1>1, Zenon DEF Listed, BlocksCover
    <3>2. t = (t \div BLOCK_SIZE) * BLOCK_SIZE + (t % BLOCK_SIZE)
          /\ t % BLOCK_SIZE \in 0 .. BLOCK_SIZE - 1 /\ t \div BLOCK_SIZE \in Int
      BY <1>3, DivModSplit, Zenon
    <3> DEFINE q == t \div BLOCK_SIZE
               r == t % BLOCK_SIZE
    <3> HIDE DEF q, r
    <3>3. Len(m) = (q + 1) * BLOCK_SIZE /\ t = q * BLOCK_SIZE + r /\ r \in 0 .. BLOCK_SIZE - 1 /\ q \in Int
      BY <3>1, <3>2, <1>2 DEF q, r
    <3>4. (q + 1) * BLOCK_SIZE = q * BLOCK_SIZE + BLOCK_SIZE
      BY <3>3, <1>3
    <3> HIDE DEF t, m
    <3> QED
      BY <3>3, <3>4, <1>3, <1>2
  <2>2. CASE ~Listed(x)
    BY <2>2, <1>1, <1>2 DEF Unlisted
  <2> QED
    BY <2>1, <2>2
<1>5. Content[x] = SubSeq(m, 1, t)
  BY DEF Content
<1> HIDE DEF t, m
<1>6. /\ SubSeq(m, 1, t) \in Seq(Nat) /\ Len(SubSeq(m, 1, t)) = t
      /\ \A k \in 1 .. t : SubSeq(m, 1, t)[k] = m[k]
  BY <1>2, <1>3, <1>4
<1> QED
  BY <1>2, <1>3, <1>4, <1>5, <1>6, Zenon DEF t, m

LEMMA DescMapped == FlatInv => DescMap
<1> SUFFICES ASSUME FlatInv PROVE DescMap
  OBVIOUS
<1>1. Types /\ Len(file_descriptors) <= MaxSlots
  BY DEF FlatInv, BlockInv, FSInv, ListInv, Bounded
<1>2. Used \subseteq 1 .. Len(file_descriptors) /\ Len(file_descriptors) \in Nat
      /\ \A i \in Used : file_descriptors[i] \in FileDesc
  BY <1>1, TableFinite
<1>3. MaxSlots \in Int
  BY FSAssumption, MaxOfTwo DEF MaxSlots
<1>4. Used \subseteq Descriptors
  BY <1>1, <1>2, <1>3 DEF Descriptors
<1>5. ASSUME NEW d \in Used
      PROVE  /\ Desc[d] = FlatDesc(file_descriptors[d]) /\ Desc[d] # NULL
             /\ file_descriptors[d].file \in Files
  <2>1. file_descriptors[d] \in FileDesc
    BY <1>2, <1>5
  <2>2. FlatDesc(file_descriptors[d]) \in [file : Files, pos : Int, r : BOOLEAN, w : BOOLEAN]
        /\ file_descriptors[d].file \in Files
    BY <2>1 DEF FlatDesc, FileDesc
  <2>3. Desc[d] = FlatDesc(file_descriptors[d])
    BY <1>4, <1>5 DEF Desc
  <2> QED
    BY <2>2, <2>3, FlatAssumption
<1>6. ASSUME NEW d \in Descriptors, Desc[d] # NULL PROVE d \in Used
  BY <1>6 DEF Desc
<1>7. ASSUME NEW x \in Files PROVE Flat!OpenOn(x) = FdsOf(x)
  <2>1. \A d \in Used : Desc[d].file = file_descriptors[d].file
    <3>1. ASSUME NEW fd PROVE FlatDesc(fd).file = fd.file
      BY DEF FlatDesc
    <3> QED
      BY <3>1, <1>5, Zenon
  <2> QED
    BY <2>1, <1>4, <1>5, <1>6 DEF Flat!OpenOn, FdsOf
<1> QED
  BY <1>4, <1>5, <1>6, <1>7 DEF DescMap

(* Names denote the same or other files after a step. *)
LEMMA DirAfter ==
  ASSUME FlatInv', NEW D \in [Names -> Files \cup {NULL}],
         \A n \in Names, x \in Files : D[n] = x <=> Denotes(n, x)'
  PROVE  Dir' = D
<1>1. DirMap'
  BY DirMapped, PTL
<1>2. ASSUME NEW n \in Names PROVE Dir'[n] = D[n]
  BY <1>1, Zenon DEF DirMap
<1>3. Dir' = [n \in Names |-> Dir'[n]]
  BY DEF Dir
<1> QED
  BY <1>2, <1>3

-----------------------------------------------------------------------------
(* Bytes: what the loops over blocks do, on the first bytes of the chain *)

LEMMA FirstBytes ==
  ASSUME NEW m \in Seq(Nat), NEW n \in Nat, n <= Len(m)
  PROVE  /\ SubSeq(m, 1, n) = [i \in 1 .. n |-> m[i]] /\ Len(SubSeq(m, 1, n)) = n
         /\ \A i \in 1 .. n : SubSeq(m, 1, n)[i] = m[i]
<1>1. /\ Len(SubSeq(m, 1, n)) = n /\ SubSeq(m, 1, n) \in Seq(Nat)
      /\ \A i \in 1 .. n : SubSeq(m, 1, n)[i] = m[i]
  OBVIOUS
<1>2. SubSeq(m, 1, n) = [i \in 1 .. n |-> SubSeq(m, 1, n)[i]]
  BY <1>1
<1> QED
  BY <1>1, <1>2

(* New blocks are put after the bytes there are. *)
LEMMA BlocksAppended ==
  ASSUME NEW m \in Seq(Nat), NEW j \in Nat
  PROVE  \A i \in 1 .. Len(m) : WithBlocks(m, j)[i] = m[i]
<1>1. j * BLOCK_SIZE \in Nat
  BY Sizes
<1>2. Zeros(j * BLOCK_SIZE) \in Seq(Nat)
  BY <1>1, ZerosType, Zenon
<1> QED
  BY <1>2 DEF WithBlocks

LEMMA WriteContent ==
  ASSUME NEW m \in Seq(Nat), NEW b \in Seq(Nat), NEW t \in Nat, NEW o \in Nat, NEW j \in Nat,
         NEW T, T = IF o + Len(b) > t THEN o + Len(b) ELSE t,
         o <= t, t <= Len(m), T <= Len(Patch(WithBlocks(m, j), o, b))
  PROVE  SubSeq(Patch(WithBlocks(m, j), o, b), 1, T) = Flat!Overlay(SubSeq(m, 1, t), o, b)
<1> DEFINE w == WithBlocks(m, j)
           p == Patch(w, o, b)
           c == SubSeq(m, 1, t)
<1>0. Len(b) \in Nat /\ Len(m) \in Nat
  OBVIOUS
<1>1. w \in Seq(Nat) /\ Len(b) \in Nat /\ Len(m) \in Nat
  BY <1>0, WithBlocksType, Zenon
<1>2. \A i \in 1 .. Len(m) : w[i] = m[i]
  BY BlocksAppended
<1> HIDE DEF w
<1>3. p \in Seq(Nat) /\ Len(p) = Len(w) /\ Len(w) \in Nat /\ T \in Nat
  BY <1>1, PatchType
<1>4. \A i \in 1 .. Len(w) : p[i] = IF i - o \in 1 .. Len(b) THEN b[i - o] ELSE w[i]
  BY <1>3 DEF Patch
<1>5. T <= Len(p)
  BY DEF w
<1> HIDE DEF p
<1>6. SubSeq(p, 1, T) = [i \in 1 .. T |-> p[i]]
  BY <1>3, <1>5, FirstBytes, Zenon
<1>7. Len(c) = t /\ \A i \in 1 .. t : c[i] = m[i]
  BY FirstBytes, Zenon
<1> HIDE DEF c
<1>8. ASSUME NEW i \in 1 .. T
      PROVE  p[i] = IF i > o /\ i <= o + Len(b) THEN b[i - o] ELSE c[i]
  <2>1. p[i] = IF i - o \in 1 .. Len(b) THEN b[i - o] ELSE w[i]
    <3>1. i \in 1 .. Len(w)
      BY <1>3, <1>5
    <3> QED
      BY <3>1, <1>4, Zenon
  <2>2. CASE i > o /\ i <= o + Len(b)
    <3>1. i - o \in 1 .. Len(b)
      BY ONLY <2>2, <1>0, <1>3, i \in 1 .. T, o \in Nat
    <3> QED
      BY <2>1, <2>2, <3>1, Zenon
  <2>3. CASE ~(i > o /\ i <= o + Len(b))
    <3>1. i \in 1 .. t /\ i \in 1 .. Len(m) /\ ~(i - o \in 1 .. Len(b))
      BY <2>3, <1>1, <1>3
    <3> QED
      BY <2>1, <2>3, <3>1, <1>2, <1>7
  <2> QED
    BY <2>2, <2>3
<1>9. Flat!Overlay(c, o, b) =
        [i \in 1 .. T |-> IF i > o /\ i <= o + Len(b) THEN b[i - o] ELSE c[i]]
  BY <1>7 DEF Flat!Overlay
<1>10. SubSeq(p, 1, T) = Flat!Overlay(c, o, b)
  <2> DEFINE u(i) == IF i > o /\ i <= o + Len(b) THEN b[i - o] ELSE c[i]
  <2>1. \A i \in 1 .. T : p[i] = u(i)
    BY <1>8, Zenon
  <2>2. Flat!Overlay(c, o, b) = [i \in 1 .. T |-> u(i)]
    BY <1>9, Zenon
  <2> HIDE DEF u
  <2> QED
    BY <1>6, <2>1, <2>2
<1> QED
  BY <1>10, Zenon DEF p, w, c

LEMMA ExtendContent ==
  ASSUME NEW m \in Seq(Nat), NEW t \in Nat, NEW z \in Nat, NEW j \in Nat,
         t < z, t <= Len(m), z <= Len(Cleared(WithBlocks(m, j), t, z - t))
  PROVE  SubSeq(Cleared(WithBlocks(m, j), t, z - t), 1, z) = Flat!Resized(SubSeq(m, 1, t), z)
<1> DEFINE w == WithBlocks(m, j)
           b == Zeros(z - t)
           p == Patch(w, t, b)
           c == SubSeq(m, 1, t)
<1>1. w \in Seq(Nat) /\ Len(m) \in Nat /\ z - t \in Nat
  BY WithBlocksType
<1>2. \A i \in 1 .. Len(m) : w[i] = m[i]
  BY BlocksAppended
<1>3. b \in Seq(Nat) /\ Len(b) = z - t /\ \A i \in 1 .. z - t : b[i] = 0
  BY <1>1, ZerosType DEF Zeros
<1> HIDE DEF w, b
<1>4. p \in Seq(Nat) /\ Len(p) = Len(w) /\ Len(w) \in Nat
  BY <1>1, <1>3, PatchType
<1>5. \A i \in 1 .. Len(w) : p[i] = IF i - t \in 1 .. Len(b) THEN b[i - t] ELSE w[i]
  BY <1>4 DEF Patch
<1>6. z <= Len(p)
  BY DEF w, b, Cleared
<1> HIDE DEF p
<1>7. SubSeq(p, 1, z) = [i \in 1 .. z |-> p[i]]
  BY <1>4, <1>6, FirstBytes, Zenon
<1>8. Len(c) = t /\ \A i \in 1 .. t : c[i] = m[i]
  BY FirstBytes, Zenon
<1> HIDE DEF c
<1>9. ASSUME NEW i \in 1 .. z PROVE p[i] = IF i <= t THEN c[i] ELSE 0
  <2>1. p[i] = IF i - t \in 1 .. Len(b) THEN b[i - t] ELSE w[i]
    BY <1>4, <1>5, <1>6
  <2>2. CASE i <= t
    <3>1. i \in 1 .. t /\ i \in 1 .. Len(m) /\ ~(i - t \in 1 .. Len(b))
      BY <2>2, <1>1, <1>3
    <3> QED
      BY <2>1, <2>2, <3>1, <1>2, <1>8
  <2>3. CASE ~(i <= t)
    <3>1. i - t \in 1 .. z - t
      BY <2>3, <1>1
    <3> QED
      BY <2>1, <2>3, <3>1, <1>3
  <2> QED
    BY <2>2, <2>3
<1>10. Flat!Resized(c, z) = [i \in 1 .. z |-> IF i <= t THEN c[i] ELSE 0]
  BY <1>8 DEF Flat!Resized
<1>11. SubSeq(p, 1, z) = Flat!Resized(c, z)
  BY <1>7, <1>9, <1>10, Zenon
<1> QED
  BY <1>11, Zenon DEF p, w, c, b, Cleared

LEMMA ReduceContent ==
  ASSUME NEW m \in Seq(Nat), NEW t \in Nat, NEW z \in Nat, NEW l \in Nat,
         z <= t, t <= Len(m), z <= Len(SubSeq(m, 1, l)), l <= Len(m)
  PROVE  SubSeq(SubSeq(m, 1, l), 1, z) = Flat!Resized(SubSeq(m, 1, t), z)
<1> DEFINE p == SubSeq(m, 1, l)
           c == SubSeq(m, 1, t)
<1>1. p \in Seq(Nat)
  OBVIOUS
<1>2. Len(c) = t /\ (\A i \in 1 .. t : c[i] = m[i])
      /\ Len(p) = l /\ \A i \in 1 .. l : p[i] = m[i]
  BY FirstBytes, Zenon
<1> HIDE DEF p, c
<1>3. SubSeq(p, 1, z) = [i \in 1 .. z |-> p[i]]
  <2>1. z <= Len(p)
    BY DEF p
  <2> QED
    BY <2>1, <1>1, FirstBytes, Zenon
<1>4. ASSUME NEW i \in 1 .. z PROVE p[i] = IF i <= Len(c) THEN c[i] ELSE 0
  <2>1. z <= l
    BY <1>2 DEF p
  <2>2. i \in 1 .. t /\ i \in 1 .. l /\ i <= Len(c)
    BY <2>1, <1>2
  <2> QED
    BY <2>2, <1>2
<1> QED
  BY <1>3, <1>4 DEF p, c, Flat!Resized

LEMMA ReadContent ==
  ASSUME NEW m \in Seq(Nat), NEW t \in Nat, NEW o \in Nat, NEW n \in Nat,
         o + n <= t, t <= Len(m)
  PROVE  SubSeq(SubSeq(m, 1, t), o + 1, o + n) = SubSeq(m, o + 1, o + n)
<1> DEFINE c == SubSeq(m, 1, t)
           r == SubSeq(m, o + 1, o + n)
           s == SubSeq(c, o + 1, o + n)
<1>1. c \in Seq(Nat) /\ Len(c) = t /\ \A i \in 1 .. t : c[i] = m[i]
  BY FirstBytes
<1> HIDE DEF c
<1>2. /\ r \in Seq(Nat) /\ Len(r) = n
      /\ \A i \in 1 .. n : r[i] = m[o + i]
  <2>1. Len(m) \in Nat /\ o + n <= Len(m)
    OBVIOUS
  <2> QED
    BY <2>1
<1>3. /\ s \in Seq(Nat) /\ Len(s) = n
      /\ \A i \in 1 .. n : s[i] = c[o + i]
  BY <1>1
<1> HIDE DEF r, s
<1>4. \A i \in 1 .. n : o + i \in 1 .. t
  OBVIOUS
<1>5. \A i \in 1 .. n : r[i] = s[i]
  BY <1>1, <1>2, <1>3, <1>4, Zenon
<1>6. r = [i \in 1 .. n |-> r[i]] /\ s = [i \in 1 .. n |-> s[i]]
  BY <1>2, <1>3
<1>7. r = s
  BY <1>5, <1>6
<1> QED
  BY <1>7 DEF r, s, c

-----------------------------------------------------------------------------
(* Frames *)

(* A step that concerns the file x *)
LEMMA ListFrame ==
  ASSUME ListInv, NEW x \in Files, Bounded',
         \A y \in Files : y # x => file'[y] = file[y] /\ (Listed(y)' <=> Listed(y)),
         Listed(x)' => file'[x].name \in Names,
         ~Listed(x)' => file'[x].mem = <<>> /\ file'[x].total_size = 0
  PROVE  ListInv'
<1>1. Unlisted /\ Named
  BY DEF ListInv
<1>2. ASSUME NEW y \in Files, ~Listed(y)' PROVE file'[y].mem = <<>> /\ file'[y].total_size = 0
  BY <1>1, <1>2, Zenon DEF Unlisted
<1>3. ASSUME NEW y \in Files, Listed(y)' PROVE file'[y].name \in Names
  BY <1>1, <1>3, Zenon DEF Named
<1> QED
  BY <1>2, <1>3, Zenon DEF ListInv, Unlisted, Named

(* A step that changes the record of one file and leaves the list alone *)
LEMMA OneFile ==
  ASSUME FlatInv, BlockInv', NEW x \in Files, NEW g, Listed(x),
         file' = [file EXCEPT ![x] = g], g.name = file[x].name, UNCHANGED file_list,
         Bounded'
  PROVE  /\ FlatInv'
         /\ Content' = [Content EXCEPT ![x] = SubSeq(g.mem, 1, g.total_size)]
         /\ g.marked_for_deletion = file[x].marked_for_deletion => Dir' = Dir
<1>0. file \in [Files -> FileRec] /\ ListInv
  BY DEF FlatInv, BlockInv, FSInv, Types
<1>1. file'[x] = g /\ \A y \in Files : y # x => file'[y] = file[y]
  BY <1>0
<1>2. \A y : Listed(y)' <=> Listed(y)
  BY DEF Listed
<1>3. file[x].name \in Names
  BY <1>0, Zenon DEF ListInv, Named
<1>4. ListInv'
  BY <1>0, <1>1, <1>2, <1>3, ListFrame, Zenon
<1>5. FlatInv'
  BY <1>4 DEF FlatInv
<1>6. Content' = [Content EXCEPT ![x] = SubSeq(g.mem, 1, g.total_size)]
  <2>1. ASSUME NEW y \in Files
        PROVE  Content'[y] = IF y = x THEN SubSeq(g.mem, 1, g.total_size) ELSE Content[y]
    <3>1. Content[y] = SubSeq(file[y].mem, 1, file[y].total_size)
          /\ Content'[y] = SubSeq(file'[y].mem, 1, file'[y].total_size)
      BY DEF Content
    <3> QED
      BY <3>1, <1>1, Zenon
  <2>2. Content' = [y \in Files |-> Content'[y]] /\ Content = [y \in Files |-> Content[y]]
    <3> DEFINE c(y) == SubSeq(file[y].mem, 1, file[y].total_size)
               e(y) == SubSeq(file'[y].mem, 1, file'[y].total_size)
    <3>1. Content = [y \in Files |-> c(y)] /\ Content' = [y \in Files |-> e(y)]
      BY Zenon DEF Content
    <3> HIDE DEF c, e
    <3> QED
      BY <3>1
  <2> QED
    BY <2>1, <2>2
<1>7. ASSUME g.marked_for_deletion = file[x].marked_for_deletion PROVE Dir' = Dir
  <2>1. DirMap
    BY DirMapped, Zenon
  <2>2. Dir \in [Names -> Files \cup {NULL}]
    BY <2>1 DEF DirMap, Dir
  <2>3. \A n \in Names, y \in Files : Denotes(n, y)' <=> Denotes(n, y)
    BY <1>1, <1>2, <1>7, Zenon DEF Denotes
  <2>4. \A n \in Names, y \in Files : Dir[n] = y <=> Denotes(n, y)'
    BY <2>1, <2>3, Zenon DEF DirMap
  <2> QED
    BY <1>5, <2>2, <2>4, DirAfter, Zenon
<1> QED
  BY <1>5, <1>6, <1>7

(* A step that changes neither files nor descriptors *)
LEMMA Quiet ==
  ASSUME FlatInv, BlockInv', UNCHANGED <<fileVars, fdVars>>
  PROVE  FlatInv' /\ UNCHANGED <<Dir, Content, Desc>>
<1>1. UNCHANGED <<file, file_list, file_descriptors>>
  BY DEF fileVars, fdVars
<1>2. ListInv'
  BY <1>1 DEF FlatInv, ListInv, Unlisted, Named, Bounded, Listed
<1>3. UNCHANGED <<Dir, Content>>
  BY <1>1 DEF Dir, Content, ufs_find_file
<1>4. UNCHANGED Desc
  BY <1>1 DEF Desc, Used, Slots
<1> QED
  BY <1>2, <1>3, <1>4 DEF FlatInv

LEMMA Denied ==
  ASSUME FlatInv, BlockInv', NEW code, Refuse(code)
  PROVE  FlatInv' /\ Flat!Deny /\ UNCHANGED down
<1>1. UNCHANGED <<fileVars, fdVars>> /\ UNCHANGED down /\ ret' = -1 /\ buf' = <<>>
  BY DEF Refuse, Fail
<1>2. FlatInv' /\ UNCHANGED <<Dir, Content, Desc>>
  BY <1>1, Quiet, Zenon
<1> QED
  BY <1>1, <1>2 DEF Flat!Deny, Flat!Answer

(* The handles of the application are the descriptors, and 0, which is no  *)
(* descriptor.                                                             *)
LEMMA HandleMap ==
  ASSUME FlatInv, NEW i \in Handles
  PROVE  i \in Descriptors \cup {0} /\ (Flat!IsOpen(i) <=> i \in Used)
<1>1. DescMap
  BY DescMapped, Zenon
<1>2. MaxSlots \in Int
  BY FSAssumption, MaxOfTwo DEF MaxSlots
<1> QED
  BY <1>1, <1>2 DEF Handles, Descriptors, DescMap, Flat!IsOpen

(* An open descriptor, in the code and in FlatFS *)
LEMMA OpenMap ==
  ASSUME FlatInv, NEW i \in Used
  PROVE  LET fd == file_descriptors[i] IN
         /\ i \in Descriptors /\ fd \in FileDesc /\ fd.file \in Files /\ Listed(fd.file)
         /\ Desc[i] = [file |-> fd.file, pos |-> fd.total_offset,
                       r |-> fd.read_allowed, w |-> fd.write_allowed]
         /\ Desc[i].file = fd.file /\ Desc[i].pos = fd.total_offset
         /\ Desc[i].r = fd.read_allowed /\ Desc[i].w = fd.write_allowed
         /\ Position(fd) = fd.total_offset
<1> DEFINE fd == file_descriptors[i]
           o == fd.total_offset
<1>1. DescMap /\ BlockInv /\ FSInv /\ RefsExact
  BY DescMapped, Zenon DEF FlatInv, BlockInv, FSInv, Table
<1>2. fd \in FileDesc /\ fd.file \in Files /\ i \in FdsOf(fd.file)
  BY <1>1, OpenFd, Zenon
<1>3. /\ o \in Nat /\ fd.cur_block = o \div BLOCK_SIZE + 1 /\ InBlock(fd) = o % BLOCK_SIZE
  BY <1>1, CursorNumbers, Zenon
<1>4. i \in Descriptors /\ Desc[i] = FlatDesc(fd)
  BY <1>1, Zenon DEF DescMap
<1>5. Listed(fd.file)
  BY <1>1, <1>2, Zenon DEF RefsExact, Listed
<1>6. Position(fd) = o
  <2>1. Position(fd) = ((o \div BLOCK_SIZE + 1) - 1) * BLOCK_SIZE + (o % BLOCK_SIZE)
    BY <1>3, Zenon DEF Position
  <2> HIDE DEF fd, o
  <2>2. o \in Int /\ BLOCK_SIZE \in Nat \ {0}
    BY <1>3, Sizes
  <2>3. o = (o \div BLOCK_SIZE) * BLOCK_SIZE + (o % BLOCK_SIZE) /\ o \div BLOCK_SIZE \in Int
    BY <2>2, DivModSplit, Zenon
  <2>4. (o \div BLOCK_SIZE + 1) - 1 = o \div BLOCK_SIZE
    BY <2>3
  <2> QED
    BY <2>1, <2>3, <2>4
<1>7. Desc[i] = [file |-> fd.file, pos |-> o, r |-> fd.read_allowed, w |-> fd.write_allowed]
  BY <1>4, Zenon DEF FlatDesc
<1> HIDE DEF fd, o
<1>8. /\ Desc[i].file = fd.file /\ Desc[i].pos = o
      /\ Desc[i].r = fd.read_allowed /\ Desc[i].w = fd.write_allowed
  BY <1>7
<1> QED
  BY <1>2, <1>4, <1>5, <1>6, <1>7, <1>8 DEF fd, o

(* One descriptor moves. *)
LEMMA MovedDesc ==
  ASSUME FlatInv, NEW i \in Used, NEW d,
         file_descriptors' = [file_descriptors EXCEPT ![i] = d],
         d \in FileDesc, d.file = file_descriptors[i].file,
         d.read_allowed = file_descriptors[i].read_allowed,
         d.write_allowed = file_descriptors[i].write_allowed
  PROVE  /\ Bounded'
         /\ Desc' = [Desc EXCEPT ![i] = [Desc[i] EXCEPT !.pos = d.total_offset]]
<1> DEFINE fd == file_descriptors[i]
<1>1. /\ file_descriptors \in Seq(FileDesc \cup {NULL}) /\ NULL \notin FileDesc
      /\ i \in DOMAIN file_descriptors /\ Bounded
  BY FSAssumption DEF FlatInv, BlockInv, FSInv, Types, Used, Slots, ListInv
<1>2. /\ DOMAIN file_descriptors' = DOMAIN file_descriptors
      /\ Len(file_descriptors') = Len(file_descriptors)
      /\ file_descriptors'[i] = d
      /\ \A j \in DOMAIN file_descriptors : j # i => file_descriptors'[j] = file_descriptors[j]
  BY <1>1
<1>3. Bounded'
  BY <1>1, <1>2 DEF Bounded
<1>4. Used' = Used
  BY <1>1, <1>2 DEF Used, Slots
<1>5. /\ i \in Descriptors
      /\ Desc[i] = [file |-> fd.file, pos |-> fd.total_offset,
                    r |-> fd.read_allowed, w |-> fd.write_allowed]
  BY OpenMap, Zenon
<1>6. FlatDesc(d) = [Desc[i] EXCEPT !.pos = d.total_offset]
  <2> HIDE DEF fd
  <2>1. d.file = fd.file /\ d.read_allowed = fd.read_allowed /\ d.write_allowed = fd.write_allowed
    BY DEF fd
  <2> QED
    BY <2>1, <1>5 DEF FlatDesc
<1>7. ASSUME NEW e \in Descriptors
      PROVE  Desc'[e] = IF e = i THEN FlatDesc(d) ELSE Desc[e]
  BY <1>2, <1>4, <1>5 DEF Desc, Used, Slots
<1>8. Desc' = [e \in Descriptors |-> Desc'[e]] /\ Desc = [e \in Descriptors |-> Desc[e]]
  BY DEF Desc
<1> QED
  BY <1>3, <1>5, <1>6, <1>7, <1>8

-----------------------------------------------------------------------------
(* The calls *)

LEMMA FlatWrite ==
  ASSUME ~AllocFails, FlatInv, BlockInv', NEW i \in Handles, NEW b \in Buffers, ufs_write(i, b)
  PROVE  FlatInv' /\ Flat!Write(i, b) /\ UNCHANGED down
<1> DEFINE fd == file_descriptors[i]
<1>1. i \in Descriptors \cup {0} /\ (Flat!IsOpen(i) <=> i \in Used)
  BY HandleMap, Zenon
<1>2. CASE i \notin Used
  <2>1. Refuse("NO_FILE")
    BY <1>2 DEF ufs_write
  <2> QED
    BY <1>1, <1>2, <2>1, Denied, Zenon DEF Flat!Write
<1>3. CASE i \in Used
  <2>1. /\ i \in Descriptors /\ fd \in FileDesc /\ fd.file \in Files /\ Listed(fd.file)
        /\ Desc[i].file = fd.file /\ Desc[i].pos = fd.total_offset
        /\ Desc[i].w = fd.write_allowed /\ Position(fd) = fd.total_offset
    BY <1>3, OpenMap, Zenon
  <2>2. CASE ~(fd.write_allowed /\ Fits(fd, Len(b)))
    <3>1. PICK code : Refuse(code)
      BY <1>3, <2>2 DEF ufs_write
    <3>2. ~(Desc[i].w /\ Desc[i].pos + Len(b) <= MAX_FILE_SIZE)
      BY <2>1, <2>2, Zenon DEF Fits
    <3> QED
      BY <3>1, <3>2, Denied, Zenon DEF Flat!Write
  <2>3. CASE fd.write_allowed /\ Fits(fd, Len(b))
    <3> DEFINE x == fd.file
               f == file[fd.file]
               o == fd.total_offset
               t == f.total_size
               next == fd.cur_block + Passed(fd, Len(b))
               m == Max({0, fd.cur_block + Passed(fd, Len(b)) - Blocks(f)})
               M == Patch(WithBlocks(f.mem, m), Position(fd), b)
               l == IF m = 0 THEN f.last_block ELSE IF m < m THEN 0 ELSE next
               T == Max({f.total_size, fd.total_offset + Len(b)})
               g == [f EXCEPT !.mem = M, !.last_block = l, !.total_size = T]
               c == IF m < m THEN 0 ELSE next
               d == [fd EXCEPT !.cur_block = c, !.total_offset = fd.total_offset + Len(b)]
    <3>1. BlockInv /\ FSInv /\ ~crashed' /\ b \in Seq(Nat) /\ Len(b) \in Nat
      BY Sizes DEF FlatInv, BlockInv, NoCrash
    <3>2. /\ f \in FileRec /\ f.mem \in Seq(Nat) /\ o \in Nat /\ t \in Nat /\ o <= t
          /\ fd.cur_block # 0 /\ fd.cur_block = o \div BLOCK_SIZE + 1
          /\ InBlock(fd) = o % BLOCK_SIZE /\ Blocks(f) \in Nat
      BY <1>3, <3>1, CursorNumbers, Zenon
    <3>3. m \in Nat
      <4> DEFINE u == fd.cur_block + Passed(fd, Len(b)) - Blocks(f)
      <4>1. u \in Int
        <5>1. Passed(fd, Len(b)) = ((o % BLOCK_SIZE) + Len(b)) \div BLOCK_SIZE
          BY <3>2 DEF Passed
        <5> HIDE DEF f, o
        <5> QED
          BY <5>1, <3>1, <3>2, Sizes
      <4> HIDE DEF u
      <4>2. Max({0, u}) = IF 0 >= u THEN 0 ELSE u
        BY <4>1, MaxOfTwo
      <4>3. Max({0, u}) \in Nat
        BY <4>1, <4>2
      <4> QED
        BY <4>3 DEF u
    <3>4. WriteBytes(i, b, m, m)
      <4>1. WriteThrough(i, b)
        BY <1>3, <2>3 DEF ufs_write
      <4>2. ~Crash
        BY <3>1 DEF Crash
      <4>3. \E got \in 0 .. m : got = m /\ WriteBytes(i, b, m, got)
        BY <3>2, <4>1, <4>2 DEF WriteThrough
      <4> QED
        BY <4>3
    <3>5. /\ file' = [file EXCEPT ![fd.file] = g]
          /\ file_descriptors' = [file_descriptors EXCEPT ![i] = d]
          /\ ret' = Len(b) /\ buf' = <<>> /\ UNCHANGED <<file_list, down>>
      BY <3>4 DEF WriteBytes
    <3>6. /\ g.name = f.name /\ g.marked_for_deletion = f.marked_for_deletion
          /\ g.mem = M /\ g.total_size = T
      <4> HIDE DEF f, M, l, T
      <4> QED
        BY <3>2 DEF FileRec
    <3>7. /\ d.file = fd.file /\ d.read_allowed = fd.read_allowed /\ d \in FileDesc
          /\ d.write_allowed = fd.write_allowed /\ d.total_offset = o + Len(b)
      <4>1. c \in Int /\ o + Len(b) \in Int
        <5>1. Passed(fd, Len(b)) = ((o % BLOCK_SIZE) + Len(b)) \div BLOCK_SIZE
          BY <3>2 DEF Passed
        <5>2. c = next
          BY <3>3
        <5> HIDE DEF f, o
        <5> QED
          BY <5>1, <5>2, <3>1, <3>2, Sizes
      <4> HIDE DEF c
      <4> QED
        BY <4>1, <2>1 DEF FileDesc
    <3> HIDE DEF g, d
    <3>8. /\ Bounded' /\ Desc' = [Desc EXCEPT ![i] = [Desc[i] EXCEPT !.pos = o + Len(b)]]
      <4>1. /\ Bounded'
            /\ Desc' = [Desc EXCEPT ![i] = [Desc[i] EXCEPT !.pos = d.total_offset]]
        BY <1>3, <3>5, <3>7, MovedDesc, Zenon
      <4> QED
        BY <4>1, <3>7, Zenon
    <3>9. FlatInv' /\ Dir' = Dir /\ Content' = [Content EXCEPT ![x] = SubSeq(M, 1, T)]
      <4>1. /\ FlatInv' /\ Dir' = Dir
            /\ Content' = [Content EXCEPT ![x] = SubSeq(g.mem, 1, g.total_size)]
        <5>1. UNCHANGED file_list
          BY <3>5
        <5> QED
          BY <2>1, <3>5, <3>6, <3>8, <5>1, OneFile, Zenon
      <4> QED
        BY <4>1, <3>6, Zenon
    <3>10. SubSeq(M, 1, T) = Flat!Overlay(Content[x], o, b)
      <4>1. ContentMap /\ ContentMap'
        BY <3>9, ContentMapped, PTL
      <4>2. t <= Len(f.mem) /\ Content[x] = SubSeq(f.mem, 1, t)
        BY <2>1, <4>1, Zenon DEF ContentMap, Content
      <4>3. file'[x] = g
        BY <2>1, <3>5, <3>1 DEF FSInv, Types
      <4>4. T <= Len(M)
        BY <2>1, <4>1, <4>3, <3>6, Zenon DEF ContentMap
      <4>5. M = Patch(WithBlocks(f.mem, m), o, b)
        BY <2>1, Zenon
      <4>6. T = IF o + Len(b) > t THEN o + Len(b) ELSE t
        <5> HIDE DEF o, t
        <5>1. t \in Int /\ o + Len(b) \in Int
          BY <3>1, <3>2
        <5>2. Max({t, o + Len(b)}) = IF t >= o + Len(b) THEN t ELSE o + Len(b)
          BY <5>1, MaxOfTwo, Zenon
        <5>3. Max({t, o + Len(b)}) = IF o + Len(b) > t THEN o + Len(b) ELSE t
          BY <5>1, <5>2
        <5> QED
          BY <5>3 DEF o, t
      <4>7. T <= Len(Patch(WithBlocks(f.mem, m), o, b))
        BY <4>4, <4>5, Zenon
      <4> HIDE DEF m, M, T, f, o, t
      <4>8. SubSeq(Patch(WithBlocks(f.mem, m), o, b), 1, T) =
              Flat!Overlay(SubSeq(f.mem, 1, t), o, b)
        <5>1. /\ f.mem \in Seq(Nat) /\ b \in Seq(Nat) /\ t \in Nat /\ o \in Nat /\ m \in Nat
              /\ o <= t /\ t <= Len(f.mem)
          BY <3>1, <3>2, <3>3, <4>2
        <5> QED
          BY ONLY <5>1, <4>6, <4>7, WriteContent
      <4> QED
        BY <4>2, <4>5, <4>8, Zenon
    <3>11. Flat!IsOpen(i) /\ Desc[i].w /\ Desc[i].pos + Len(b) <= MAX_FILE_SIZE
      BY <1>1, <1>3, <2>1, <2>3 DEF Fits
    <3>12. Content' = [Content EXCEPT ![Desc[i].file] =
                         Flat!Overlay(Content[Desc[i].file], Desc[i].pos, b)]
      BY <2>1, <3>9, <3>10, Zenon
    <3>13. Desc' = [Desc EXCEPT ![i] = [Desc[i] EXCEPT !.pos = Desc[i].pos + Len(b)]]
      BY <2>1, <3>8, Zenon
    <3> QED
      BY <3>5, <3>9, <3>11, <3>12, <3>13 DEF Flat!Write, Flat!Answer
  <2> QED
    BY <2>2, <2>3
<1> QED
  BY <1>2, <1>3

(* How much of a chain of L bytes with t bytes of content is read from o on *)
LEMMA ReadLength ==
  ASSUME NEW size \in Nat, NEW t \in Nat, NEW o \in Nat, NEW L \in Nat, o <= t, t <= L
  PROVE  /\ Min({size, t - o, L - o}) = Flat!Shorter(size, t - o)
         /\ Flat!Shorter(size, t - o) \in Nat /\ o + Flat!Shorter(size, t - o) <= t
<1> DEFINE n == Min({size, t - o, L - o})
<1>1. size \in Int /\ t - o \in Int /\ L - o \in Int
  OBVIOUS
<1>2. n \in {size, t - o, L - o} /\ n <= size /\ n <= t - o /\ n <= L - o
  BY <1>1, MinOfThree, Zenon
<1> HIDE DEF n
<1>3. n = Flat!Shorter(size, t - o)
  BY <1>1, <1>2 DEF Flat!Shorter
<1>4. Flat!Shorter(size, t - o) \in Nat /\ o + Flat!Shorter(size, t - o) <= t
  BY DEF Flat!Shorter
<1> QED
  BY <1>3, <1>4 DEF n

LEMMA FlatRead ==
  ASSUME FlatInv, BlockInv', NEW i \in Handles, NEW size \in ReadSizes, ufs_read(i, size)
  PROVE  FlatInv' /\ Flat!Read(i, size) /\ UNCHANGED down
<1> DEFINE fd == file_descriptors[i]
<1>1. i \in Descriptors \cup {0} /\ (Flat!IsOpen(i) <=> i \in Used)
  BY HandleMap, Zenon
<1>2. CASE i \notin Used
  <2>1. Refuse("NO_FILE")
    BY <1>2 DEF ufs_read
  <2> QED
    BY <1>1, <1>2, <2>1, Denied, Zenon DEF Flat!Read
<1>3. CASE i \in Used
  <2>1. /\ i \in Descriptors /\ fd \in FileDesc /\ fd.file \in Files /\ Listed(fd.file)
        /\ Desc[i] = [file |-> fd.file, pos |-> fd.total_offset,
                      r |-> fd.read_allowed, w |-> fd.write_allowed]
        /\ Desc[i].file = fd.file /\ Desc[i].pos = fd.total_offset
        /\ Desc[i].r = fd.read_allowed /\ Position(fd) = fd.total_offset
    BY <1>3, OpenMap, Zenon
  <2>2. CASE ~fd.read_allowed
    <3>1. Refuse("NO_PERMISSION")
      BY <1>3, <2>2 DEF ufs_read
    <3> QED
      BY <2>1, <2>2, <3>1, Denied, Zenon DEF Flat!Read
  <2>3. CASE fd.read_allowed
    <3> DEFINE x == fd.file
               f == file[fd.file]
               o == fd.total_offset
               t == f.total_size
               n == Flat!Shorter(size, t - o)
               D == [Desc EXCEPT ![i] = [Desc[i] EXCEPT !.pos = o + n]]
    <3>1. BlockInv /\ FSInv /\ ~crashed' /\ size \in Nat
      BY Sizes DEF FlatInv, BlockInv, NoCrash
    <3>2. /\ f.mem \in Seq(Nat) /\ o \in Nat /\ t \in Nat /\ o <= t /\ fd.cur_block # 0
          /\ fd.cur_block = o \div BLOCK_SIZE + 1 /\ InBlock(fd) = o % BLOCK_SIZE
      BY <1>3, <3>1, CursorNumbers, Zenon
    <3>3. t <= Len(f.mem) /\ Content[x] = SubSeq(f.mem, 1, t) /\ Len(Content[x]) = t
      BY <2>1, ContentMapped, Zenon DEF ContentMap, Content
    <3>4. /\ Min({size, t - o, Len(f.mem) - o}) = n /\ n \in Nat /\ o + n <= t
      <4> HIDE DEF f, o, t
      <4> DEFINE L == Len(f.mem)
      <4>1. L \in Nat /\ t <= L
        BY <3>2, <3>3
      <4>2. size \in Nat /\ t \in Nat /\ o \in Nat /\ o <= t
        BY <3>1, <3>2
      <4> HIDE DEF L
      <4>3. /\ Min({size, t - o, L - o}) = Flat!Shorter(size, t - o)
            /\ Flat!Shorter(size, t - o) \in Nat /\ o + Flat!Shorter(size, t - o) <= t
        BY ONLY <4>1, <4>2, ReadLength
      <4> QED
        BY <4>3, Zenon DEF L
    <3>5. SubSeq(Content[x], o + 1, o + n) = SubSeq(f.mem, o + 1, o + n)
      <4> HIDE DEF f, o, t, n
      <4>1. SubSeq(SubSeq(f.mem, 1, t), o + 1, o + n) = SubSeq(f.mem, o + 1, o + n)
        BY ONLY <3>2, <3>3, <3>4, ReadContent
      <4> QED
        BY <3>3, <4>1, Zenon
    <3>6. SUFFICES /\ FlatInv' /\ UNCHANGED <<Dir, Content, down>> /\ ret' = n
                   /\ buf' = SubSeq(f.mem, o + 1, o + n) /\ Desc' = D
      <4>1. Flat!IsOpen(i) /\ Desc[i].r
        BY <1>1, <1>3, <2>1, <2>3, Zenon
      <4>2. /\ n = Flat!Shorter(size, Len(Content[Desc[i].file]) - Desc[i].pos)
            /\ SubSeq(f.mem, o + 1, o + n) =
                 SubSeq(Content[Desc[i].file], Desc[i].pos + 1, Desc[i].pos + n)
            /\ D = [Desc EXCEPT ![i] = [Desc[i] EXCEPT !.pos = Desc[i].pos + n]]
        BY <2>1, <3>3, <3>5, Zenon
      <4> HIDE DEF n, f, o, t, D
      <4> QED
        BY <4>1, <4>2, <3>6 DEF Flat!Read
    <3>7. CASE o >= t
      <4>1. Succeed(0, <<>>) /\ UNCHANGED <<fileVars, fdVars, crashed, down>>
        <5> HIDE DEF o, t
        <5>1. ~(o < t)
          BY <3>2, <3>7
        <5> QED
          BY <1>3, <2>3, <3>7, <5>1 DEF ufs_read, o, t, f
      <4>2. FlatInv' /\ UNCHANGED <<Dir, Content, Desc>> /\ UNCHANGED down
            /\ ret' = 0 /\ buf' = <<>>
        BY <4>1, Quiet DEF Succeed
      <4>3. n = 0 /\ o + n = o
        <5> HIDE DEF f, o, t
        <5> QED
          BY <3>1, <3>2, <3>7 DEF Flat!Shorter
      <4>4. SubSeq(f.mem, o + 1, o + n) = <<>>
        <5> HIDE DEF f, o, n
        <5>1. SubSeq(f.mem, o + 1, o) = <<>>
          BY <3>2
        <5> QED
          BY <4>3, <5>1
      <4>5. D = Desc
        <5>1. [Desc[i] EXCEPT !.pos = o] = Desc[i]
          <6> HIDE DEF fd, o
          <6>1. Desc[i] = [file |-> fd.file, pos |-> o, r |-> fd.read_allowed, w |-> fd.write_allowed]
            BY <2>1, Zenon DEF o
          <6> QED
            BY <6>1
        <5>2. D = [Desc EXCEPT ![i] = Desc[i]]
          BY <4>3, <5>1, Zenon
        <5>3. Desc = [e \in Descriptors |-> Desc[e]]
          BY DEF Desc
        <5> HIDE DEF D
        <5> QED
          BY <5>2, <5>3
      <4> QED
        BY <4>2, <4>3, <4>4, <4>5
    <3>8. CASE o < t
      <4> DEFINE next == fd.cur_block + Passed(fd, n)
                 stays == /\ n > 0 /\ (InBlock(fd) + n) % BLOCK_SIZE = 0
                          /\ fd.total_offset + n >= f.total_size \/ next > Blocks(f)
                 c == IF stays THEN next - 1 ELSE next
                 d == [fd EXCEPT !.cur_block = c, !.total_offset = fd.total_offset + n]
      <4>1. ReadBytes(i, size)
        <5> HIDE DEF o, t
        <5>1. ~(o >= t)
          BY <3>2, <3>8
        <5>2. ~Crash
          BY <3>1 DEF Crash
        <5> QED
          BY <1>3, <2>3, <3>2, <5>1, <5>2 DEF ufs_read, o, t, f
      <4>2. Min({size, f.total_size - fd.total_offset, Len(f.mem) - Position(fd)}) = n
        BY <2>1, <3>4, Zenon
      <4>3. /\ ret' = n /\ buf' = SubSeq(f.mem, o + 1, o + n)
            /\ file_descriptors' = [file_descriptors EXCEPT ![i] = d]
            /\ UNCHANGED <<fileVars, down>>
        <5> HIDE DEF n
        <5> QED
          BY <2>1, <4>1, <4>2 DEF ReadBytes, Succeed
      <4>4. /\ d.file = fd.file /\ d.read_allowed = fd.read_allowed /\ d \in FileDesc
            /\ d.write_allowed = fd.write_allowed /\ d.total_offset = o + n
        <5>1. c \in Int /\ o + n \in Int
          <6>1. Passed(fd, n) = ((o % BLOCK_SIZE) + n) \div BLOCK_SIZE
            BY <3>2 DEF Passed
          <6> HIDE DEF f, o, n, stays
          <6> QED
            BY <6>1, <3>2, <3>4, Sizes
        <5> HIDE DEF c, n
        <5> QED
          BY <5>1, <2>1 DEF FileDesc
      <4> HIDE DEF d, n
      <4>5. Bounded' /\ Desc' = [Desc EXCEPT ![i] = [Desc[i] EXCEPT !.pos = d.total_offset]]
        BY <1>3, <4>3, <4>4, MovedDesc, Zenon
      <4>6. UNCHANGED file /\ UNCHANGED file_list
        BY <4>3 DEF fileVars
      <4>7. UNCHANGED <<Dir, Content>> /\ ListInv'
        BY <4>5, <4>6 DEF Dir, Content, ufs_find_file, FlatInv, ListInv, Unlisted, Named, Listed
      <4> QED
        BY <4>3, <4>4, <4>5, <4>7, Zenon DEF FlatInv
    <3> QED
      BY <3>2, <3>7, <3>8
  <2> QED
    BY <2>2, <2>3
<1> QED
  BY <1>2, <1>3

-----------------------------------------------------------------------------
(* Files without a name *)

LEMMA LinkedMap ==
  ASSUME FlatInv, NEW y \in Files
  PROVE  Flat!Linked(y) <=> Listed(y) /\ ~file[y].marked_for_deletion
<1>1. DirMap /\ Named
  BY DirMapped, Zenon DEF FlatInv, ListInv
<1>2. ASSUME Flat!Linked(y) PROVE Listed(y) /\ ~file[y].marked_for_deletion
  BY <1>1, <1>2, Zenon DEF Flat!Linked, DirMap, Denotes
<1>3. ASSUME Listed(y), ~file[y].marked_for_deletion PROVE Flat!Linked(y)
  <2>1. file[y].name \in Names
    BY <1>1, <1>3, Zenon DEF Named
  <2>2. Dir[file[y].name] = y
    BY <1>1, <1>3, <2>1, Zenon DEF DirMap, Denotes
  <2> QED
    BY <2>1, <2>2, Zenon DEF Flat!Linked
<1> QED
  BY <1>2, <1>3

LEMMA UnlistedEmpty ==
  ASSUME FlatInv, NEW y \in Files, ~Listed(y)
  PROVE  Content[y] = <<>>
<1>1. file[y].mem = <<>> /\ file[y].total_size = 0
  BY Zenon DEF FlatInv, ListInv, Unlisted
<1>2. Content[y] = SubSeq(<<>>, 1, 0)
  BY <1>1, Zenon DEF Content
<1> QED
  BY <1>2

(* The list keeps a file only for its name or for a descriptor. *)
LEMMA Unreachable ==
  ASSUME FlatInv, NEW y \in Files, ~Flat!Linked(y), FdsOf(y) = {}
  PROVE  Content[y] = <<>>
<1>1. CASE ~Listed(y)
  BY <1>1, UnlistedEmpty, Zenon
<1>2. CASE Listed(y)
  <2>1. file[y].marked_for_deletion
    BY <1>2, LinkedMap, Zenon
  <2>2. file[y].refs > 0
    BY <1>2, <2>1, Zenon DEF FlatInv, BlockInv, FSInv, Table, OneFilePerName, Listed
  <2>3. file[y].refs = Cardinality(FdsOf(y))
    BY Zenon DEF FlatInv, BlockInv, FSInv, Table, RefsExact
  <2>4. Cardinality(FdsOf(y)) = 0
    BY FS_EmptySet
  <2> QED
    BY <2>2, <2>3, <2>4
<1> QED
  BY <1>1, <1>2

LEMMA ContentFunction ==
  /\ Content = [y \in Files |-> Content[y]] /\ Content' = [y \in Files |-> Content'[y]]
  /\ \A y \in Files : /\ Content[y] = SubSeq(file[y].mem, 1, file[y].total_size)
                      /\ Content'[y] = SubSeq(file'[y].mem, 1, file'[y].total_size)
<1> DEFINE c(y) == SubSeq(file[y].mem, 1, file[y].total_size)
           e(y) == SubSeq(file'[y].mem, 1, file'[y].total_size)
<1>1. Content = [y \in Files |-> c(y)] /\ Content' = [y \in Files |-> e(y)]
  BY Zenon DEF Content
<1> HIDE DEF c, e
<1>2. Content = [y \in Files |-> Content[y]] /\ Content' = [y \in Files |-> Content'[y]]
  BY <1>1
<1>3. \A y \in Files : Content[y] = c(y) /\ Content'[y] = e(y)
  BY <1>1
<1> QED
  BY <1>2, <1>3, Zenon DEF c, e

(* A file is taken off the list. *)
LEMMA FileFreed ==
  ASSUME FlatInv, BlockInv', NEW x \in Files, Listed(x), Bounded',
         file' = [file EXCEPT ![x] = NoFile], file_list' = ListWithout(x)
  PROVE  /\ FlatInv' /\ ~Listed(x)' /\ Content'[x] = <<>>
         /\ \A y \in Files : y # x => /\ file'[y] = file[y] /\ (Listed(y)' <=> Listed(y))
                                      /\ Content'[y] = Content[y]
<1>1. Types /\ Distinct /\ ListInv /\ file \in [Files -> FileRec]
  BY DEF FlatInv, BlockInv, FSInv, Table, Types
<1>2. /\ \A k \in DOMAIN file_list' :
           file_list'[k] # x /\ \E i \in DOMAIN file_list : file_list[i] = file_list'[k]
      /\ \A i \in DOMAIN file_list :
           file_list[i] # x => \E k \in DOMAIN file_list' : file_list'[k] = file_list[i]
  <2>1. \E i \in DOMAIN file_list : file_list[i] = x
    BY DEF Listed
  <2>2. /\ \A k \in DOMAIN ListWithout(x) :
             /\ ListWithout(x)[k] # x
             /\ \E i \in DOMAIN file_list : file_list[i] = ListWithout(x)[k]
        /\ \A i \in DOMAIN file_list :
             file_list[i] # x => \E k \in DOMAIN ListWithout(x) : ListWithout(x)[k] = file_list[i]
    BY <1>1, <2>1, RealDelete, Zenon
  <2> QED
    BY <2>2, Zenon
<1>3. ~Listed(x)' /\ \A y \in Files : y # x => (Listed(y)' <=> Listed(y))
  <2>1. ~Listed(x)'
    BY <1>2, Zenon DEF Listed
  <2>2. ASSUME NEW y \in Files, y # x PROVE Listed(y)' <=> Listed(y)
    <3>1. Listed(y)' => Listed(y)
      BY <1>2 DEF Listed
    <3>2. Listed(y) => Listed(y)'
      BY <1>2, <2>2 DEF Listed
    <3> QED
      BY <3>1, <3>2
  <2> QED
    BY <2>1, <2>2
<1>4. file'[x] = NoFile /\ \A y \in Files : y # x => file'[y] = file[y]
  BY <1>1
<1>5. NoFile.mem = <<>> /\ NoFile.total_size = 0
  BY DEF NoFile
<1>6. ListInv'
  BY <1>1, <1>3, <1>4, <1>5, ListFrame, Zenon
<1>7. FlatInv'
  BY <1>6 DEF FlatInv
<1>8. Content'[x] = <<>>
  <2>1. Content'[x] = SubSeq(<<>>, 1, 0)
    BY <1>4, <1>5, ContentFunction, Zenon
  <2> QED
    BY <2>1
<1>9. \A y \in Files : y # x => Content'[y] = Content[y]
  <2>1. ASSUME NEW y \in Files, y # x PROVE Content'[y] = Content[y]
    <3>1. file'[y] = file[y]
      BY <1>4, <2>1, Zenon
    <3>2. /\ Content[y] = SubSeq(file[y].mem, 1, file[y].total_size)
          /\ Content'[y] = SubSeq(file'[y].mem, 1, file'[y].total_size)
      BY ContentFunction, Zenon
    <3> QED
      BY <3>1, <3>2, Zenon
  <2> QED
    BY <2>1, Zenon
<1> QED
  BY <1>3, <1>4, <1>7, <1>8, <1>9, Zenon

(* ufs_delete_fd *)
LEMMA FlatDrop ==
  ASSUME FlatInv, BlockInv', NEW i \in Used, ufs_delete_fd(i)
  PROVE  FlatInv' /\ Flat!Drop(i)
<1>0. /\ file_descriptors \in Seq(FileDesc \cup {NULL}) /\ i \in DOMAIN file_descriptors
      /\ Bounded /\ Types /\ file \in [Files -> FileRec] /\ FSInv
  BY DEF FlatInv, BlockInv, FSInv, Types, Used, Slots, ListInv
<1>a. /\ i \in Descriptors /\ file_descriptors[i].file \in Files
      /\ Listed(file_descriptors[i].file)
  BY OpenMap, Zenon
<1>b. PICK x \in Files : x = file_descriptors[i].file
  BY <1>a
<1>1. i \in Descriptors /\ Listed(x)
  BY <1>a, <1>b, Zenon
<1>2. file_descriptors' = [file_descriptors EXCEPT ![i] = NULL]
  BY DEF ufs_delete_fd
<1>3. Bounded'
  BY <1>0, <1>2 DEF Bounded
<1>4. Desc' = [Desc EXCEPT ![i] = NULL]
  <2>1. ASSUME NEW e \in Descriptors PROVE Desc'[e] = IF e = i THEN NULL ELSE Desc[e]
    BY <1>0, <1>2 DEF Desc, Used, Slots
  <2>2. Desc' = [e \in Descriptors |-> Desc'[e]] /\ Desc = [e \in Descriptors |-> Desc[e]]
    BY DEF Desc
  <2> QED
    BY <2>1, <2>2
<1>5. i \in FdsOf(x) /\ \A y \in Files : y # x => i \notin FdsOf(y)
  BY <1>b DEF FdsOf
<1>6. Dropped(x) <=> ~Flat!Linked(x) /\ FdsOf(x) \subseteq {i}
  <2>1. Flat!Linked(x) <=> ~file[x].marked_for_deletion
    BY <1>1, LinkedMap, Zenon
  <2>2. file[x].refs = Cardinality(FdsOf(x))
    BY <1>1, Zenon DEF FlatInv, BlockInv, FSInv, Table, RefsExact
  <2>3. IsFiniteSet(FdsOf(x))
    BY <1>0, TableFinite, Zenon
  <2>4. file[x].refs = 1 <=> FdsOf(x) \subseteq {i}
    <3>1. Cardinality(FdsOf(x)) = 1 <=> \E e : FdsOf(x) = {e}
      BY <2>3, FS_Singleton, Zenon
    <3> QED
      BY <2>2, <3>1, <1>5
  <2> QED
    BY <2>1, <2>4, Zenon DEF Dropped
<1>7. \A y \in Files : y # x /\ ~Flat!Linked(y) /\ FdsOf(y) \subseteq {i} => Content[y] = <<>>
  <2>1. ASSUME NEW y \in Files, y # x, ~Flat!Linked(y), FdsOf(y) \subseteq {i}
        PROVE  Content[y] = <<>>
    <3>1. FdsOf(y) = {}
      BY <2>1, <1>5
    <3> QED
      BY <2>1, <3>1, Unreachable, Zenon
  <2> QED
    BY <2>1, Zenon
<1>8. DescMap
  BY DescMapped, Zenon
<1>9. SUFFICES /\ FlatInv' /\ Dir' = Dir
               /\ Content'[x] = IF Dropped(x) THEN <<>> ELSE Content[x]
               /\ \A y \in Files : y # x => Content'[y] = Content[y]
  <2>1. ASSUME NEW y \in Files
        PROVE  Content'[y] = IF ~Flat!Linked(y) /\ Flat!OpenOn(y) \subseteq {i}
                             THEN <<>> ELSE Content[y]
    <3>1. Flat!OpenOn(y) = FdsOf(y)
      BY <1>8, Zenon DEF DescMap
    <3> QED
      BY <1>6, <1>7, <1>9, <3>1, Zenon
  <2>2. Content' = [y \in Files |-> Content'[y]]
    BY ContentFunction, Zenon
  <2>3. Content' = [y \in Files |-> IF ~Flat!Linked(y) /\ Flat!OpenOn(y) \subseteq {i}
                                    THEN <<>> ELSE Content[y]]
    BY <2>1, <2>2
  <2> QED
    BY <1>4, <1>9, <2>3 DEF Flat!Drop
<1>10. CASE Dropped(x)
  <2>1. file' = [file EXCEPT ![x] = NoFile] /\ file_list' = ListWithout(x)
    BY <1>b, <1>10 DEF ufs_delete_fd
  <2>2. /\ FlatInv' /\ ~Listed(x)' /\ Content'[x] = <<>>
        /\ \A y \in Files : y # x => /\ file'[y] = file[y] /\ (Listed(y)' <=> Listed(y))
                                     /\ Content'[y] = Content[y]
    BY <1>1, <1>3, <2>1, FileFreed, Zenon
  <2>3. DirMap /\ Dir \in [Names -> Files \cup {NULL}]
    <3>1. DirMap
      BY DirMapped, Zenon
    <3> QED
      BY <3>1 DEF DirMap, Dir
  <2>4. file[x].marked_for_deletion
    BY <1>10 DEF Dropped
  <2>5. \A n \in Names, y \in Files : Denotes(n, y)' <=> Denotes(n, y)
    <3>1. ASSUME NEW n \in Names, NEW y \in Files PROVE Denotes(n, y)' <=> Denotes(n, y)
      <4>1. CASE y = x
        BY <4>1, <2>2, <2>4, Zenon DEF Denotes
      <4>2. CASE y # x
        <5>1. file'[y] = file[y] /\ (Listed(y)' <=> Listed(y))
          BY <4>2, <2>2, Zenon
        <5> QED
          BY <5>1, Zenon DEF Denotes
      <4> QED
        BY <4>1, <4>2
    <3> QED
      BY <3>1
  <2>6. \A n \in Names, y \in Files : Dir[n] = y <=> Denotes(n, y)'
    BY <2>3, <2>5, Zenon DEF DirMap
  <2>7. Dir' = Dir
    BY <2>2, <2>3, <2>6, DirAfter, Zenon
  <2> QED
    BY <1>10, <2>2, <2>7, Zenon
<1>11. CASE ~Dropped(x)
  <2> DEFINE g == [file[x] EXCEPT !.refs = @ - 1]
  <2>1. file' = [file EXCEPT ![x] = g] /\ UNCHANGED file_list
    BY <1>b, <1>11 DEF ufs_delete_fd
  <2>2. /\ g.name = file[x].name /\ g.marked_for_deletion = file[x].marked_for_deletion
        /\ g.mem = file[x].mem /\ g.total_size = file[x].total_size
    <3>1. file[x] \in FileRec
      BY <1>0, <1>1
    <3> QED
      BY <3>1 DEF FileRec
  <2> HIDE DEF g
  <2>3. /\ FlatInv' /\ Dir' = Dir
        /\ Content' = [Content EXCEPT ![x] = SubSeq(g.mem, 1, g.total_size)]
    BY <1>1, <1>3, <2>1, <2>2, OneFile, Zenon
  <2>4. SubSeq(g.mem, 1, g.total_size) = Content[x] /\ Content = [y \in Files |-> Content[y]]
    BY <1>1, <2>2, ContentFunction, Zenon
  <2>5. \A y \in Files : Content'[y] = Content[y]
    <3> DEFINE v == SubSeq(g.mem, 1, g.total_size)
    <3>1. Content' = [Content EXCEPT ![x] = v] /\ v = Content[x]
      BY <2>3, <2>4
    <3> HIDE DEF v
    <3> QED
      BY <2>4, <3>1
  <2> QED
    BY <1>1, <1>11, <2>3, <2>5, Zenon
<1> QED
  BY <1>10, <1>11

LEMMA FlatClose ==
  ASSUME FlatInv, BlockInv', NEW i \in Handles, ufs_close(i)
  PROVE  FlatInv' /\ Flat!Close(i) /\ UNCHANGED down
<1>1. Flat!IsOpen(i) <=> i \in Used
  BY HandleMap, Zenon
<1>2. CASE i \notin Used
  <2>1. Refuse("NO_FILE")
    BY <1>2 DEF ufs_close
  <2> QED
    BY <1>1, <1>2, <2>1, Denied, Zenon DEF Flat!Close
<1>3. CASE i \in Used
  <2>1. ufs_delete_fd(i) /\ ret' = 0 /\ buf' = <<>> /\ UNCHANGED down
    BY <1>3 DEF ufs_close, Succeed
  <2>2. FlatInv' /\ Flat!Drop(i)
    BY <1>3, <2>1, FlatDrop, Zenon
  <2> QED
    BY <1>1, <1>3, <2>1, <2>2 DEF Flat!Close, Flat!Answer
<1> QED
  BY <1>2, <1>3

LEMMA FlatShutdown ==
  ASSUME FlatInv, BlockInv', ufs_shutdown
  PROVE  FlatInv' /\ ((~down /\ Flat!Shutdown) \/ (down /\ Flat!CloseLeft))
<1>1. CASE Running /\ down' = TRUE /\ UNCHANGED <<fileVars, fdVars, resultVars, crashed>>
  <2>1. FlatInv' /\ UNCHANGED <<Dir, Content, Desc>>
    BY <1>1, Quiet
  <2>2. UNCHANGED ret /\ UNCHANGED buf
    BY <1>1 DEF resultVars
  <2>3. ~down /\ down' = TRUE
    BY <1>1, Zenon DEF Running
  <2>4. Flat!Shutdown
    BY <2>1, <2>2, <2>3, Zenon DEF Flat!Shutdown
  <2> QED
    BY <2>1, <2>3, <2>4, Zenon
<1>2. CASE down /\ Used # {} /\ ufs_delete_fd(Min(Used)) /\ UNCHANGED <<resultVars, crashed, down>>
  <2>1. Used \subseteq 1 .. Len(file_descriptors) /\ Len(file_descriptors) \in Nat
    BY TableFinite DEF FlatInv, BlockInv, FSInv
  <2>2. Used \in SUBSET Nat
    BY <2>1
  <2>3. PICK i \in Used : i = Min(Used)
    BY <1>2, <2>2, MinProperties, Zenon
  <2>4. FlatInv' /\ Flat!Drop(i)
    BY <1>2, <2>3, FlatDrop, Zenon
  <2>5. i \in Descriptors /\ Flat!IsOpen(i)
    <3>1. DescMap
      BY DescMapped, Zenon
    <3> QED
      BY <3>1, <2>3, Zenon DEF DescMap, Flat!IsOpen
  <2> QED
    BY <1>2, <2>4, <2>5 DEF Flat!CloseLeft, resultVars
<1> QED
  BY <1>1, <1>2 DEF ufs_shutdown

(* The name n loses its file x. *)
LEMMA NameGone ==
  ASSUME FlatInv, FlatInv', NEW n \in Names, NEW x \in Files, Dir[n] = x,
         \A m \in Names : ~Denotes(m, x)',
         \A m \in Names, y \in Files : y # x => (Denotes(m, y)' <=> Denotes(m, y))
  PROVE  Dir' = [Dir EXCEPT ![n] = NULL]
<1> DEFINE D == [Dir EXCEPT ![n] = NULL]
<1>1. DirMap
  BY DirMapped, Zenon
<1>2. Dir \in [Names -> Files \cup {NULL}]
  BY <1>1 DEF DirMap, Dir
<1>3. D \in [Names -> Files \cup {NULL}] /\ D[n] = NULL /\ \A m \in Names : m # n => D[m] = Dir[m]
  BY <1>2
<1> HIDE DEF D
<1>4. Denotes(n, x) /\ NULL \notin Files
  BY <1>1, FSAssumption, Zenon DEF DirMap
<1>5. ASSUME NEW m \in Names, NEW y \in Files PROVE D[m] = y <=> Denotes(m, y)'
  <2>1. Dir[m] = y <=> Denotes(m, y)
    BY <1>1, Zenon DEF DirMap
  <2>2. CASE m = n
    <3>1. D[m] # y
      BY <1>3, <1>4, <2>2
    <3>2. y # x => ~Denotes(m, y)
      BY <2>1, <2>2
    <3>3. CASE y = x
      BY <3>1, <3>3 
    <3>4. CASE y # x
      BY <3>1, <3>2, <3>4
    <3> QED
      BY <3>3, <3>4
  <2>3. CASE m # n
    <3>1. ~Denotes(m, x)
      BY <1>4, <2>3, Zenon DEF Denotes
    <3>2. CASE y = x
      <4>1. D[m] = Dir[m] /\ Dir[m] # x
        BY <1>1, <1>3, <2>3, <3>1, Zenon DEF DirMap
      <4> QED
        BY <3>2, <4>1
    <3>3. CASE y # x
      BY <1>3, <2>1, <2>3, <3>3
    <3> QED
      BY <3>2, <3>3
  <2> QED
    BY <2>2, <2>3
<1>6. Dir' = D
  BY <1>3, <1>5, DirAfter, Zenon
<1> QED
  BY <1>6 DEF D

LEMMA FlatDelete ==
  ASSUME FlatInv, BlockInv', NEW n \in Names, ufs_delete(n)
  PROVE  FlatInv' /\ Flat!Delete(n) /\ UNCHANGED down
<1>1. DirMap /\ DescMap /\ Dir[n] = ufs_find_file(n)
  BY DirMapped, DescMapped DEF Dir
<1>2. Dir[n] \in Files \cup {NULL} /\ NULL \notin Files
  BY <1>1, FSAssumption, Zenon DEF DirMap
<1>3. CASE Dir[n] = NULL
  <2>1. Refuse("NO_FILE")
    BY <1>1, <1>3 DEF ufs_delete
  <2> QED
    BY <1>3, <2>1, Denied, Zenon DEF Flat!Delete
<1>4. CASE Dir[n] # NULL
  <2>1. PICK x \in Files : x = Dir[n]
    BY <1>2, <1>4
  <2>2. Denotes(n, x) /\ Listed(x) /\ file[x].name = n /\ ~file[x].marked_for_deletion
    BY <1>1, <2>1, Zenon DEF DirMap, Denotes
  <2>3. Types /\ Bounded /\ file \in [Files -> FileRec] /\ file[x].refs = Cardinality(FdsOf(x))
    BY DEF FlatInv, BlockInv, FSInv, Table, RefsExact, ListInv, Types
  <2>4. IsFiniteSet(FdsOf(x)) /\ Flat!OpenOn(x) = FdsOf(x)
    BY <1>1, <2>3, TableFinite, Zenon DEF DescMap
  <2>5. Content = [y \in Files |-> Content[y]] /\ Content' = [y \in Files |-> Content'[y]]
    BY ContentFunction, Zenon
  <2>6. SUFFICES /\ FlatInv' /\ UNCHANGED <<Desc, down>> /\ ret' = 0 /\ buf' = <<>>
                 /\ Dir' = [Dir EXCEPT ![n] = NULL]
                 /\ Content'[x] = IF FdsOf(x) = {} THEN <<>> ELSE Content[x]
                 /\ \A y \in Files : y # x => Content'[y] = Content[y]
    <3>1. Content' = [Content EXCEPT ![x] = IF FdsOf(x) = {} THEN <<>> ELSE Content[x]]
      BY <2>5, <2>6
    <3>2. Content' = [Content EXCEPT ![Dir[n]] =
                        IF Flat!OpenOn(Dir[n]) = {} THEN <<>> ELSE Content[Dir[n]]]
      BY <3>1, <2>1, <2>4, Zenon
    <3> QED
      BY <1>4, <2>6, <3>2 DEF Flat!Delete, Flat!Answer
  <2>7. CASE FreedByDelete(x)
    <3>1. /\ file' = [file EXCEPT ![x] = NoFile] /\ file_list' = ListWithout(x)
          /\ ret' = 0 /\ buf' = <<>> /\ UNCHANGED down /\ UNCHANGED fdVars
      BY <1>1, <1>2, <2>1, <2>7 DEF ufs_delete, Succeed
    <3>2. UNCHANGED file_descriptors
      BY <3>1 DEF fdVars
    <3>3. Bounded' /\ Desc' = Desc
      BY <2>3, <3>2 DEF Bounded, Desc, Used, Slots
    <3>4. /\ FlatInv' /\ ~Listed(x)' /\ Content'[x] = <<>>
          /\ \A y \in Files : y # x => /\ file'[y] = file[y] /\ (Listed(y)' <=> Listed(y))
                                       /\ Content'[y] = Content[y]
      BY <2>2, <3>1, <3>3, FileFreed, Zenon
    <3>5. FdsOf(x) = {}
      BY <2>3, <2>4, <2>7, FS_EmptySet DEF FreedByDelete
    <3>6. \A m \in Names : ~Denotes(m, x)'
      BY <3>4, Zenon DEF Denotes
    <3>7. \A m \in Names, y \in Files : y # x => (Denotes(m, y)' <=> Denotes(m, y))
      <4>1. ASSUME NEW m \in Names, NEW y \in Files, y # x
            PROVE  Denotes(m, y)' <=> Denotes(m, y)
        <5>1. file'[y] = file[y] /\ (Listed(y)' <=> Listed(y))
          BY <4>1, <3>4, Zenon
        <5> QED
          BY <5>1, Zenon DEF Denotes
      <4> QED
        BY <4>1
    <3>8. Dir' = [Dir EXCEPT ![n] = NULL]
      BY <2>1, <3>4, <3>6, <3>7, NameGone, Zenon
    <3> QED
      BY <3>1, <3>3, <3>4, <3>5, <3>8
  <2>8. CASE ~FreedByDelete(x)
    <3> DEFINE g == [file[x] EXCEPT !.marked_for_deletion = TRUE]
    <3>1. /\ file' = [file EXCEPT ![x] = g] /\ UNCHANGED file_list
          /\ ret' = 0 /\ buf' = <<>> /\ UNCHANGED down /\ UNCHANGED fdVars
      BY <1>1, <1>2, <2>1, <2>8 DEF ufs_delete, Succeed
    <3>2. UNCHANGED file_descriptors
      BY <3>1 DEF fdVars
    <3>3. Bounded' /\ Desc' = Desc
      BY <2>3, <3>2 DEF Bounded, Desc, Used, Slots
    <3>4. /\ g.name = file[x].name /\ g.marked_for_deletion
          /\ g.mem = file[x].mem /\ g.total_size = file[x].total_size
      BY <2>3, FieldMarked
    <3> HIDE DEF g
    <3>5. FlatInv' /\ Content' = [Content EXCEPT ![x] = SubSeq(g.mem, 1, g.total_size)]
      BY <2>2, <3>1, <3>3, <3>4, OneFile, Zenon
    <3>6. SubSeq(g.mem, 1, g.total_size) = Content[x]
      BY <3>4, ContentFunction, Zenon
    <3>7. \A y \in Files : Content'[y] = Content[y]
      <4> DEFINE v == SubSeq(g.mem, 1, g.total_size)
      <4>1. Content' = [Content EXCEPT ![x] = v] /\ v = Content[x]
        BY <3>5, <3>6
      <4> HIDE DEF v
      <4> QED
        BY <2>5, <4>1
    <3>8. FdsOf(x) # {}
      BY <2>3, <2>8, FS_EmptySet DEF FreedByDelete
    <3>9. file'[x] = g /\ \A y \in Files : y # x => file'[y] = file[y]
      BY <2>3, <3>1
    <3>10. \A m \in Names : ~Denotes(m, x)'
      BY <3>4, <3>9, Zenon DEF Denotes
    <3>11. \A m \in Names, y \in Files : y # x => (Denotes(m, y)' <=> Denotes(m, y))
      <4>1. ASSUME NEW m \in Names, NEW y \in Files, y # x
            PROVE  Denotes(m, y)' <=> Denotes(m, y)
        <5>1. file'[y] = file[y] /\ (Listed(y)' <=> Listed(y))
          BY <4>1, <3>1, <3>9 DEF Listed
        <5> QED
          BY <5>1, Zenon DEF Denotes
      <4> QED
        BY <4>1
    <3>12. Dir' = [Dir EXCEPT ![n] = NULL]
      BY <2>1, <3>5, <3>10, <3>11, NameGone, Zenon
    <3> QED
      BY <3>1, <3>3, <3>5, <3>7, <3>8, <3>12
  <2> QED
    BY <2>7, <2>8
<1> QED
  BY <1>3, <1>4

(* Descriptors of x after x was resized to z bytes, as FlatFS has them *)
Clipped(x, z) ==
  [e \in Descriptors |-> IF e \in Flat!OpenOn(x)
                         THEN [Desc[e] EXCEPT !.pos = Flat!Shorter(@, z)] ELSE Desc[e]]

(* None is past the end of the file: only a shorter file moves one. *)
LEMMA NoneClipped ==
  ASSUME FlatInv, NEW x \in Files, NEW z \in Nat, file[x].total_size <= z
  PROVE  Clipped(x, z) = Desc
<1>1. DescMap /\ BlockInv
  BY DescMapped, Zenon DEF FlatInv
<1>2. ASSUME NEW e \in Descriptors
      PROVE  Desc[e] = IF e \in Flat!OpenOn(x)
                       THEN [Desc[e] EXCEPT !.pos = Flat!Shorter(Desc[e].pos, z)] ELSE Desc[e]
  <2>1. CASE e \in Flat!OpenOn(x)
    <3> DEFINE fd == file_descriptors[e]
               o == fd.total_offset
    <3>1. e \in Used /\ fd.file = x
      BY <1>1, <2>1 DEF DescMap, FdsOf
    <3>2. /\ Desc[e] = [file |-> fd.file, pos |-> o,
                        r |-> fd.read_allowed, w |-> fd.write_allowed]
          /\ Desc[e].pos = o
      BY <3>1, OpenMap, Zenon
    <3>3. o \in Nat /\ file[x].total_size \in Nat /\ o <= file[x].total_size
      BY <1>1, <3>1, CursorNumbers
    <3> HIDE DEF fd, o
    <3>4. Flat!Shorter(o, z) = o
      BY <3>3 DEF Flat!Shorter
    <3>5. [Desc[e] EXCEPT !.pos = o] = Desc[e]
      BY <3>2
    <3> QED
      BY <2>1, <3>2, <3>4, <3>5, Zenon
  <2> QED
    BY <2>1
<1>3. Desc = [e \in Descriptors |-> Desc[e]]
  BY DEF Desc
<1>4. [e \in Descriptors |-> Desc[e]] = Clipped(x, z)
  BY <1>2, Zenon DEF Clipped
<1> QED
  BY <1>3, <1>4

LEMMA FlatExtend ==
  ASSUME ~AllocFails, FlatInv, BlockInv', NEW x \in Files, Listed(x), NEW z \in Nat,
         file[x].total_size < z, Covered(file[x]), ufs_extend_file(x, z)
  PROVE  /\ FlatInv' /\ Dir' = Dir /\ Desc' = Desc /\ UNCHANGED down /\ ret' = 0 /\ buf' = <<>>
         /\ Content' = [Content EXCEPT ![x] = Flat!Resized(Content[x], z)]
<1> DEFINE f == file[x]
           t == f.total_size
           o == f.total_size % BLOCK_SIZE
           m == (o + (z - f.total_size)) \div BLOCK_SIZE
           M == Cleared(WithBlocks(f.mem, m), (f.last_block - 1) * BLOCK_SIZE + o,
                        z - f.total_size)
           g == [f EXCEPT !.mem = M, !.last_block = f.last_block + m, !.total_size = z]
<1>1. ContentMap /\ Bounded /\ file \in [Files -> FileRec]
  BY ContentMapped, Zenon DEF FlatInv, ListInv, BlockInv, FSInv, Types
<1>2. /\ f \in FileRec /\ f.mem \in Seq(Nat) /\ t \in Nat /\ t <= Len(f.mem)
      /\ Content[x] = SubSeq(f.mem, 1, t)
  BY <1>1, ContentFunction DEF ContentMap
<1>3. BLOCK_SIZE \in Nat \ {0} /\ t \in Int
  BY <1>2, Sizes
<1>4. f.last_block = t \div BLOCK_SIZE + 1
  BY DEF Covered
<1>5. /\ t = (t \div BLOCK_SIZE) * BLOCK_SIZE + o /\ t \div BLOCK_SIZE \in Nat
      /\ (f.last_block - 1) * BLOCK_SIZE + o = t /\ f.last_block # 0
  <2> HIDE DEF f, t
  <2>1. t = (t \div BLOCK_SIZE) * BLOCK_SIZE + (t % BLOCK_SIZE)
    BY <1>3, DivModSplit, Zenon
  <2>2. t \div BLOCK_SIZE \in Nat
    BY <1>2, <1>3, DivNat, Zenon
  <2>3. f.last_block - 1 = t \div BLOCK_SIZE /\ f.last_block # 0
    BY <1>4, <2>2
  <2> QED
    BY <2>1, <2>2, <2>3, Zenon DEF t
<1>6. /\ file' = [file EXCEPT ![x] = g] /\ ret' = 0 /\ buf' = <<>>
      /\ UNCHANGED file_list /\ UNCHANGED fdVars /\ UNCHANGED down
  BY <1>5 DEF ufs_extend_file, Succeed
<1>7. m \in Nat
  <2>1. t < z /\ m = ((t % BLOCK_SIZE) + (z - t)) \div BLOCK_SIZE
    OBVIOUS
  <2> HIDE DEF m, t
  <2>2. ((t % BLOCK_SIZE) + (z - t)) \div BLOCK_SIZE \in Nat
    BY <1>2, <2>1, ExtendNeeds, Zenon
  <2> QED
    BY <2>1, <2>2
<1>8. M = Cleared(WithBlocks(f.mem, m), t, z - t)
  BY <1>5, Zenon
<1> HIDE DEF M, m
<1>9. /\ g.mem = M /\ g.total_size = z /\ g.name = f.name
      /\ g.marked_for_deletion = f.marked_for_deletion
  BY <1>2 DEF FileRec
<1> HIDE DEF g
<1>10. UNCHANGED file_descriptors
  BY <1>6 DEF fdVars
<1>11. Bounded' /\ Desc' = Desc
  BY <1>1, <1>10 DEF Bounded, Desc, Used, Slots
<1>12. /\ FlatInv' /\ Dir' = Dir
       /\ Content' = [Content EXCEPT ![x] = SubSeq(g.mem, 1, g.total_size)]
  BY <1>6, <1>9, <1>11, OneFile, Zenon
<1>13. SubSeq(M, 1, z) = Flat!Resized(Content[x], z)
  <2>1. ContentMap'
    BY <1>12, ContentMapped, PTL
  <2>2. file'[x] = g
    BY <1>1, <1>6
  <2>3. z <= Len(M)
    BY <2>1, <2>2, <1>9, Zenon DEF ContentMap
  <2>4. z <= Len(Cleared(WithBlocks(f.mem, m), t, z - t))
    BY <2>3, <1>8, Zenon
  <2>5. t < z
    OBVIOUS
  <2> HIDE DEF f, t
  <2>6. SubSeq(Cleared(WithBlocks(f.mem, m), t, z - t), 1, z) =
          Flat!Resized(SubSeq(f.mem, 1, t), z)
    BY ONLY <1>2, <1>7, <2>4, <2>5, z \in Nat, ExtendContent
  <2> QED
    BY <1>2, <1>8, <2>6, Zenon
<1> QED
  BY <1>6, <1>9, <1>11, <1>12, <1>13, Zenon

(* ufs_move_overflowing_fds *)
LEMMA MovedFlat ==
  ASSUME NEW fd \in FileDesc, NEW z \in Nat, NEW last \in Int, NEW left \in Int
  PROVE  /\ FlatDesc(Moved(fd, z, last, left)) =
              [file |-> fd.file, pos |-> Flat!Shorter(fd.total_offset, z),
               r |-> fd.read_allowed, w |-> fd.write_allowed]
         /\ Moved(fd, z, last, left) \in FileDesc
<1> DEFINE d == Moved(fd, z, last, left)
<1>1. fd.total_offset \in Int /\ fd.cur_block \in Int
  BY DEF FileDesc
<1>2. CASE fd.total_offset > z
  <2>1. d = [fd EXCEPT !.total_offset = z, !.cur_block = last]
    BY <1>2 DEF Moved
  <2>2. /\ d \in FileDesc /\ d.file = fd.file /\ d.total_offset = z
        /\ d.read_allowed = fd.read_allowed /\ d.write_allowed = fd.write_allowed
    <3> HIDE DEF d
    <3>1. z \in Int
      OBVIOUS
    <3> QED
      BY <2>1, <3>1 DEF FileDesc
  <2>3. Flat!Shorter(fd.total_offset, z) = z
    BY <1>1, <1>2 DEF Flat!Shorter
  <2> QED
    BY <2>2, <2>3, Zenon DEF FlatDesc
<1>3. CASE ~(fd.total_offset > z)
  <2> DEFINE c == IF fd.cur_block > left THEN 0 ELSE fd.cur_block
  <2>1. d = [fd EXCEPT !.cur_block = c] /\ c \in Int
    BY <1>1, <1>3 DEF Moved
  <2> HIDE DEF c
  <2>2. /\ d \in FileDesc /\ d.file = fd.file /\ d.total_offset = fd.total_offset
        /\ d.read_allowed = fd.read_allowed /\ d.write_allowed = fd.write_allowed
    <3> HIDE DEF d
    <3> QED
      BY <2>1 DEF FileDesc
  <2>3. Flat!Shorter(fd.total_offset, z) = fd.total_offset
    BY <1>1, <1>3 DEF Flat!Shorter
  <2> QED
    BY <2>2, <2>3, Zenon DEF FlatDesc
<1> QED
  BY <1>2, <1>3

LEMMA FlatReduce ==
  ASSUME FlatInv, BlockInv', NEW x \in Files, Listed(x), NEW z \in Nat,
         z < file[x].total_size, Covered(file[x]), ufs_reduce_file(x, z)
  PROVE  /\ FlatInv' /\ Dir' = Dir /\ Desc' = Clipped(x, z) /\ UNCHANGED down
         /\ ret' = 0 /\ buf' = <<>>
         /\ Content' = [Content EXCEPT ![x] = Flat!Resized(Content[x], z)]
<1> DEFINE f == file[x]
           t == f.total_size
           freed == BlocksFreed(f.total_size, z)
           left == IF freed = 0 THEN Blocks(f) ELSE f.last_block - freed
           last == f.last_block - freed
           L == left * BLOCK_SIZE
           M == SubSeq(f.mem, 1, L)
           g == [f EXCEPT !.mem = M, !.last_block = last, !.total_size = z]
<1>1. ContentMap /\ DescMap /\ Bounded /\ file \in [Files -> FileRec] /\ FSInv
      /\ file_descriptors \in Seq(FileDesc \cup {NULL}) /\ NULL \notin FileDesc
  BY ContentMapped, DescMapped, FSAssumption DEF FlatInv, ListInv, BlockInv, FSInv, Types
<1>2. /\ f \in FileRec /\ f.mem \in Seq(Nat) /\ t \in Nat /\ t <= Len(f.mem)
      /\ Content[x] = SubSeq(f.mem, 1, t)
  BY <1>1, ContentFunction DEF ContentMap
<1>3. /\ BLOCK_SIZE \in Nat \ {0} /\ Blocks(f) = t \div BLOCK_SIZE + 1 /\ f.last_block = Blocks(f)
      /\ Len(f.mem) = Blocks(f) * BLOCK_SIZE
  BY <1>1, BlockNumbers, Sizes DEF Covered
<1>4. /\ freed \in Nat /\ ~(freed > f.last_block) /\ last \in Nat /\ left \in Nat
      /\ L \in Nat /\ L <= Len(f.mem)
  <2>1. freed = t \div BLOCK_SIZE - z \div BLOCK_SIZE /\ z <= t
    BY <1>2 DEF BlocksFreed
  <2>2. left = IF freed = 0 THEN f.last_block ELSE f.last_block - freed
    BY <1>3
  <2> HIDE DEF f, t, freed, left
  <2>3. PICK q \in Nat, p \in Nat : q = t \div BLOCK_SIZE /\ p = z \div BLOCK_SIZE
    BY <1>2, <1>3, DivNat, Zenon
  <2>4. p <= q
    <3>1. z \in Int /\ t \in Int
      BY <1>2
    <3> QED
      BY <1>3, <2>1, <2>3, <3>1, DivMonotonic, Zenon
  <2>5. freed = q - p /\ f.last_block = q + 1
    BY <1>3, <2>1, <2>3
  <2>6. /\ freed \in Nat /\ ~(freed > f.last_block) /\ last \in Nat
        /\ left \in Nat /\ left <= q + 1
    BY ONLY <2>2, <2>4, <2>5, q \in Nat, p \in Nat DEF last
  <2>7. L \in Nat /\ L <= (q + 1) * BLOCK_SIZE
    BY <1>3, <2>6, MulMonotonic
  <2>8. (q + 1) * BLOCK_SIZE = Len(f.mem)
    BY <1>3, <2>5
  <2> QED
    BY <2>6, <2>7, <2>8
<1>5. /\ file' = [file EXCEPT ![x] = g] /\ ret' = 0 /\ buf' = <<>>
      /\ file_descriptors' = [i \in Slots |->
           IF i \notin FdsOf(x) THEN file_descriptors[i]
           ELSE Moved(file_descriptors[i], z, last, left)]
      /\ UNCHANGED file_list /\ UNCHANGED down
  BY <1>4 DEF ufs_reduce_file, Succeed
<1> HIDE DEF left, last, L, freed
<1>6. /\ g.mem = M /\ g.total_size = z /\ g.name = f.name
      /\ g.marked_for_deletion = f.marked_for_deletion
  <2> HIDE DEF M
  <2> QED
    BY <1>2 DEF FileRec
<1> HIDE DEF g
<1>7. /\ DOMAIN file_descriptors' = DOMAIN file_descriptors
      /\ Len(file_descriptors') = Len(file_descriptors)
      /\ \A i \in Slots : i \notin FdsOf(x) => file_descriptors'[i] = file_descriptors[i]
      /\ \A i \in FdsOf(x) : i \in Slots /\
           file_descriptors'[i] = Moved(file_descriptors[i], z, last, left)
  <2> DEFINE n == Len(file_descriptors)
             v(i) == IF i \notin FdsOf(x) THEN file_descriptors[i]
                     ELSE Moved(file_descriptors[i], z, last, left)
  <2>1. Slots = 1 .. n /\ n \in Nat /\ DOMAIN file_descriptors = Slots
    BY <1>1 DEF Slots
  <2>2. file_descriptors' = [i \in Slots |-> v(i)]
    BY <1>5, Zenon
  <2>3. \A i \in FdsOf(x) : i \in Slots
    BY DEF FdsOf, Used
  <2>4. ASSUME NEW i \in Slots PROVE file_descriptors'[i] = v(i)
    <3> HIDE DEF v
    <3> QED
      BY <2>2
  <2>5. DOMAIN file_descriptors' = Slots /\ Len(file_descriptors') = n
    <3> HIDE DEF v, n
    <3> QED
      BY <2>1, <2>2
  <2> QED
    BY <2>1, <2>3, <2>4, <2>5, Zenon
<1>8. Bounded'
  BY <1>1, <1>7 DEF Bounded
<1>9. ASSUME NEW i \in FdsOf(x)
      PROVE  /\ i \in Used /\ i \in Used' /\ i \in Descriptors /\ Desc[i].pos \in Int
             /\ FlatDesc(file_descriptors'[i]) =
                  [Desc[i] EXCEPT !.pos = Flat!Shorter(Desc[i].pos, z)]
  <2> DEFINE fd == file_descriptors[i]
  <2>1. i \in Used
    BY DEF FdsOf
  <2>2. /\ i \in Descriptors /\ fd \in FileDesc
        /\ Desc[i] = [file |-> fd.file, pos |-> fd.total_offset,
                      r |-> fd.read_allowed, w |-> fd.write_allowed]
        /\ Desc[i].pos = fd.total_offset
    BY <2>1, OpenMap, Zenon
  <2>3. last \in Int /\ left \in Int
    BY <1>4
  <2>4. /\ FlatDesc(Moved(fd, z, last, left)) =
             [file |-> fd.file, pos |-> Flat!Shorter(fd.total_offset, z),
              r |-> fd.read_allowed, w |-> fd.write_allowed]
        /\ Moved(fd, z, last, left) \in FileDesc
    BY <2>2, <2>3, MovedFlat, Zenon
  <2>5. file_descriptors'[i] = Moved(fd, z, last, left) /\ i \in DOMAIN file_descriptors'
    BY <1>7 DEF Slots
  <2>6. i \in Used'
    BY <1>1, <2>4, <2>5 DEF Used, Slots
  <2>7. fd.total_offset \in Int
    BY <2>2 DEF FileDesc
  <2> HIDE DEF fd
  <2>8. [Desc[i] EXCEPT !.pos = Flat!Shorter(fd.total_offset, z)] =
          [file |-> fd.file, pos |-> Flat!Shorter(fd.total_offset, z),
           r |-> fd.read_allowed, w |-> fd.write_allowed]
    BY <2>2
  <2> QED
    BY <2>1, <2>2, <2>4, <2>5, <2>6, <2>7, <2>8, Zenon
<1>10. ASSUME NEW e \in Descriptors
       PROVE  Desc'[e] = IF e \in Flat!OpenOn(x)
                         THEN [Desc[e] EXCEPT !.pos = Flat!Shorter(Desc[e].pos, z)] ELSE Desc[e]
  <2>1. Flat!OpenOn(x) = FdsOf(x)
    BY <1>1, Zenon DEF DescMap
  <2>2. CASE e \in FdsOf(x)
    <3>1. Desc'[e] = FlatDesc(file_descriptors'[e])
      BY <2>2, <1>9 DEF Desc
    <3> QED
      BY <2>1, <2>2, <3>1, <1>9, Zenon
  <2>3. CASE e \notin FdsOf(x)
    <3>1. e \in Used' <=> e \in Used
      BY <1>7, <2>3 DEF Used, Slots
    <3>2. e \in Used => file_descriptors'[e] = file_descriptors[e]
      BY <1>7, <2>3 DEF Used
    <3>3. Desc'[e] = Desc[e]
      BY <3>1, <3>2 DEF Desc
    <3> QED
      BY <2>1, <2>3, <3>3, Zenon
  <2> QED
    BY <2>2, <2>3
<1>11. Desc' = Clipped(x, z)
  <2>1. Desc' = [e \in Descriptors |-> Desc'[e]]
    BY DEF Desc
  <2>2. [e \in Descriptors |-> Desc'[e]] = Clipped(x, z)
    BY <1>10, Zenon DEF Clipped
  <2> QED
    BY <2>1, <2>2
<1>12. /\ FlatInv' /\ Dir' = Dir
       /\ Content' = [Content EXCEPT ![x] = SubSeq(g.mem, 1, g.total_size)]
  BY <1>5, <1>6, <1>8, OneFile, Zenon
<1>13. SubSeq(M, 1, z) = Flat!Resized(Content[x], z)
  <2>1. ContentMap'
    BY <1>12, ContentMapped, PTL
  <2>2. file'[x] = g
    BY <1>1, <1>5
  <2>3. z <= Len(SubSeq(f.mem, 1, L)) /\ z <= t
    <3>1. z <= Len(M)
      BY <2>1, <2>2, <1>6, Zenon DEF ContentMap
    <3>2. z < t
      OBVIOUS
    <3> HIDE DEF t
    <3>3. z <= t
      BY <1>2, <3>2
    <3> QED
      BY <3>1, <3>3, Zenon
  <2> HIDE DEF f, t
  <2>4. SubSeq(SubSeq(f.mem, 1, L), 1, z) = Flat!Resized(SubSeq(f.mem, 1, t), z)
    <3>1. /\ f.mem \in Seq(Nat) /\ t \in Nat /\ L \in Nat /\ z <= t /\ t <= Len(f.mem)
          /\ L <= Len(f.mem)
      BY <1>2, <1>4, <2>3, Zenon
    <3> QED
      BY ONLY <3>1, <2>3, z \in Nat, ReduceContent, Zenon
  <2> QED
    BY <1>2, <2>4, Zenon
<1> QED
  BY <1>5, <1>6, <1>11, <1>12, <1>13, Zenon

LEMMA SameSize ==
  ASSUME FlatInv, NEW x \in Files
  PROVE  [Content EXCEPT ![x] = Flat!Resized(Content[x], file[x].total_size)] = Content
<1> DEFINE c == Content[x]
           t == file[x].total_size
<1>1. c \in Seq(Nat) /\ Len(c) = t /\ t \in Nat
  BY ContentMapped, Zenon DEF ContentMap
<1>2. Content = [y \in Files |-> Content[y]]
  BY ContentFunction, Zenon
<1>3. Flat!Resized(c, t) = c
  <2> HIDE DEF c, t
  <2>1. c = [i \in 1 .. t |-> c[i]]
    BY <1>1
  <2>2. Flat!Resized(c, t) = [i \in 1 .. t |-> IF i <= t THEN c[i] ELSE 0]
    BY <1>1 DEF Flat!Resized
  <2>3. \A i \in 1 .. t : i <= t
    BY <1>1
  <2> QED
    BY <2>1, <2>2, <2>3
<1>4. [Content EXCEPT ![x] = Content[x]] = Content
  BY <1>2
<1> QED
  BY <1>3, <1>4, Zenon

LEMMA FlatResize ==
  ASSUME ~AllocFails, FlatInv, BlockInv', NEW i \in Handles, NEW z \in NewSizes, ufs_resize(i, z)
  PROVE  FlatInv' /\ Flat!Resize(i, z) /\ UNCHANGED down
<1>1. (Flat!IsOpen(i) <=> i \in Used) /\ z \in Nat
  BY HandleMap, Sizes
<1>2. CASE ~(i \in Used /\ z <= MAX_FILE_SIZE)
  <2>1. PICK code : Refuse(code)
    BY <1>1, <1>2, Sizes DEF ufs_resize
  <2> QED
    BY <1>1, <1>2, <2>1, Denied, Zenon DEF Flat!Resize
<1>3. CASE i \in Used /\ z <= MAX_FILE_SIZE
  <2>1. /\ file_descriptors[i].file \in Files /\ Listed(file_descriptors[i].file)
        /\ Desc[i].file = file_descriptors[i].file
    BY <1>3, OpenMap, Zenon
  <2>2. PICK x \in Files : x = file_descriptors[i].file
    BY <2>1
  <2>3. Listed(x) /\ Desc[i].file = x
    BY <2>1, <2>2
  <2>4. Covered(file[x]) /\ file[x].total_size \in Nat
    BY <1>3, <2>2, OpenCover, CursorNumbers DEF FlatInv
  <2>5. SUFFICES /\ FlatInv' /\ Dir' = Dir /\ Desc' = Clipped(x, z) /\ UNCHANGED down
                 /\ ret' = 0 /\ buf' = <<>>
                 /\ Content' = [Content EXCEPT ![x] = Flat!Resized(Content[x], z)]
    <3>1. Flat!IsOpen(i) /\ z <= MAX_FILE_SIZE
      BY <1>1, <1>3, Zenon
    <3>2. /\ Content' = [Content EXCEPT ![Desc[i].file] = Flat!Resized(Content[Desc[i].file], z)]
          /\ Desc' = Clipped(Desc[i].file, z)
      BY <2>3, <2>5, Zenon
    <3> QED
      BY <2>5, <3>1, <3>2 DEF Flat!Resize, Flat!Answer, Clipped
  <2>a. /\ z = file[x].total_size => Succeed(0, <<>>) /\ UNCHANGED <<fileVars, fdVars, crashed, down>>
        /\ z > file[x].total_size => ufs_extend_file(x, z)
        /\ z < file[x].total_size => ufs_reduce_file(x, z)
    <3>1. ~(z > MAX_FILE_SIZE)
      BY <1>1, <1>3, Sizes
    <3>2. \/ z = file[x].total_size /\ Succeed(0, <<>>) /\ UNCHANGED <<fileVars, fdVars, crashed, down>>
          \/ z > file[x].total_size /\ ufs_extend_file(x, z)
          \/ z < file[x].total_size /\ ufs_reduce_file(x, z)
      BY <1>3, <2>2, <3>1, Zenon DEF ufs_resize
    <3> QED
      BY <1>1, <2>4, <3>2
  <2>6. CASE z = file[x].total_size
    <3>1. Succeed(0, <<>>) /\ UNCHANGED <<fileVars, fdVars, crashed, down>>
      BY <2>a, <2>6, Zenon
    <3>2. FlatInv' /\ UNCHANGED <<Dir, Content, Desc>>
      BY <3>1, Quiet
    <3>3. [Content EXCEPT ![x] = Flat!Resized(Content[x], z)] = Content
      BY <2>6, SameSize, Zenon
    <3>4. Clipped(x, z) = Desc
      BY <1>1, <2>4, <2>6, NoneClipped
    <3> QED
      BY <3>1, <3>2, <3>3, <3>4 DEF Succeed
  <2>7. CASE z > file[x].total_size
    <3>1. file[x].total_size < z /\ file[x].total_size <= z /\ z # file[x].total_size
          /\ ~(z < file[x].total_size)
      BY <1>1, <2>4, <2>7
    <3>2. ufs_extend_file(x, z)
      BY <2>a, <2>7, Zenon
    <3>3. /\ FlatInv' /\ Dir' = Dir /\ Desc' = Desc /\ UNCHANGED down /\ ret' = 0 /\ buf' = <<>>
          /\ Content' = [Content EXCEPT ![x] = Flat!Resized(Content[x], z)]
      BY <1>1, <2>3, <2>4, <3>1, <3>2, FlatExtend, Zenon
    <3>4. Clipped(x, z) = Desc
      BY <1>1, <3>1, NoneClipped, Zenon
    <3> QED
      BY <3>3, <3>4, Zenon
  <2>8. CASE z < file[x].total_size
    <3>1. ufs_reduce_file(x, z)
      BY <2>a, <2>8, Zenon
    <3> QED
      BY <1>1, <2>3, <2>4, <2>8, <3>1, FlatReduce, Zenon
  <2> QED
    BY <1>1, <2>4, <2>6, <2>7, <2>8
<1> QED
  BY <1>2, <1>3

(* The table doubles only when it is full, which it is with fewer than     *)
(* MaxFds slots.                                                           *)
LEMMA TableBounded ==
  ASSUME FlatInv, file_descriptor_count < MaxFds
  PROVE  Len(ufs_extend_fd_list_if_needed) <= MaxSlots
<1> DEFINE n == Len(file_descriptors)
           c == file_descriptor_count
<1>1. n \in Nat /\ n <= MaxSlots /\ c \in Nat /\ MaxFds \in Nat
  BY FSAssumption DEF FlatInv, ListInv, Bounded, BlockInv, FSInv, Types
<1>2. CASE c < n
  BY <1>1, <1>2 DEF ufs_extend_fd_list_if_needed
<1>3. CASE ~(c < n)
  <2> DEFINE N == n + Max({1, n})
             v(i) == IF i <= n THEN file_descriptors[i] ELSE NULL
  <2>1. ufs_extend_fd_list_if_needed = [i \in 1 .. N |-> v(i)]
    BY <1>3 DEF ufs_extend_fd_list_if_needed
  <2> HIDE DEF v, n
  <2>2. 1 \in Int /\ n \in Int /\ 2 * (MaxFds - 1) \in Int
    BY <1>1
  <2>3. Max({1, n}) = IF 1 >= n THEN 1 ELSE n
    BY <2>2, MaxOfTwo, Zenon
  <2>4. MaxSlots = IF 1 >= 2 * (MaxFds - 1) THEN 1 ELSE 2 * (MaxFds - 1)
    BY <2>2, MaxOfTwo, Zenon DEF MaxSlots
  <2>5. n <= c /\ n <= MaxFds - 1
    BY <1>1, <1>3
  <2>6. N \in Nat /\ N <= MaxSlots
    BY <1>1, <2>3, <2>4, <2>5
  <2>7. Len(ufs_extend_fd_list_if_needed) = N
    <3> HIDE DEF N
    <3> QED
      BY <2>1, <2>6
  <2> QED
    BY <2>6, <2>7
<1> QED
  BY <1>2, <1>3

(* A new descriptor stands at the start of its file. *)
LEMMA FlatCreateFd ==
  ASSUME ~AllocFails, FlatInv, NEW x \in Files, NEW files, NEW flags,
         ufs_create_fd(x, files, flags), file_descriptor_count < MaxFds
  PROVE  /\ Bounded' /\ buf' = <<>>
         /\ file' = [files EXCEPT ![x] = [files[x] EXCEPT !.refs = @ + 1]]
         /\ \E d \in Descriptors, r, w \in BOOLEAN :
              /\ Desc[d] = NULL /\ ret' = d
              /\ Desc' = [Desc EXCEPT ![d] = [file |-> x, pos |-> 0, r |-> r, w |-> w]]
<1> DEFINE table == ufs_extend_fd_list_if_needed
           idx == FreeIndex(table)
           n == Len(file_descriptors)
<1>1. PICK r \in BOOLEAN, w \in BOOLEAN, c \in {0, 1} :
        LET fd == [file |-> x, total_offset |-> 0, cur_block |-> c,
                   read_allowed |-> r, write_allowed |-> w] IN
        /\ file' = [files EXCEPT ![x] = [files[x] EXCEPT !.refs = @ + 1]]
        /\ file_descriptors' = [table EXCEPT ![idx + 1] = fd]
        /\ ret' = idx + 1 /\ buf' = <<>>
        /\ c \in {0, 1}
  <2> DEFINE plain == flags \cap {"READ_ONLY", "WRITE_ONLY", "READ_WRITE"} = {}
             r == plain \/ "READ_ONLY" \in flags \/ "READ_WRITE" \in flags
             w == plain \/ "WRITE_ONLY" \in flags \/ "READ_WRITE" \in flags
             c == IF Blocks(files[x]) = 0 THEN 0 ELSE 1
             fd == [file |-> x, total_offset |-> 0, cur_block |-> c,
                    read_allowed |-> r, write_allowed |-> w]
  <2>1. /\ file' = [files EXCEPT ![x] = [files[x] EXCEPT !.refs = @ + 1]]
        /\ file_descriptors' = [table EXCEPT ![idx + 1] = fd]
        /\ ret' = idx + 1 /\ buf' = <<>>
    BY Zenon DEF ufs_create_fd
  <2>2. r \in BOOLEAN /\ w \in BOOLEAN /\ c \in {0, 1}
    BY Zenon
  <2> HIDE DEF r, w, c
  <2> QED
    BY <2>1, <2>2
<1> DEFINE fd == [file |-> x, total_offset |-> 0, cur_block |-> c,
                  read_allowed |-> r, write_allowed |-> w]
<1>2. /\ table \in Seq(FileDesc \cup {NULL}) /\ Len(table) \in Nat \ {0} /\ n <= Len(table)
      /\ \A i \in 1 .. Len(table) : table[i] = IF i <= n THEN file_descriptors[i] ELSE NULL
      /\ idx \in 0 .. Len(table) - 1 /\ table[idx + 1] = NULL
  BY FreeSlot, Zenon DEF FlatInv, BlockInv, FSInv, Table
<1>3. Len(table) <= MaxSlots /\ MaxSlots \in Int
  BY TableBounded, FSAssumption, MaxOfTwo DEF MaxSlots
<1>4. Types /\ n \in Nat /\ Slots = 1 .. n /\ DescMap
  BY TableFinite, DescMapped DEF FlatInv, BlockInv, FSInv
<1>5. PICK d \in 1 .. Len(table) : d = idx + 1
  BY <1>2
<1>6. file_descriptors' = [table EXCEPT ![d] = fd] /\ ret' = d /\ table[d] = NULL
  BY <1>1, <1>2, <1>5, Zenon
<1> HIDE DEF table, idx
<1>7. d \in Descriptors /\ Desc[d] = NULL
  <2>1. d \in Descriptors
    BY <1>2, <1>3 DEF Descriptors
  <2>2. d \notin Used
    BY <1>2, <1>4, <1>5, <1>6 DEF Used
  <2> QED
    BY <2>1, <2>2 DEF Desc
<1>8. /\ DOMAIN file_descriptors' = 1 .. Len(table) /\ Len(file_descriptors') = Len(table)
      /\ file_descriptors'[d] = fd
      /\ \A e \in 1 .. Len(table) : e # d => file_descriptors'[e] = table[e]
  <2> HIDE DEF fd
  <2> QED
    BY <1>2, <1>6
<1>9. Bounded'
  <2>1. MaxSlots' = MaxSlots
    BY DEF MaxSlots
  <2> QED
    BY <1>3, <1>8 DEF Bounded
<1>10. fd # NULL
  <2>1. fd \in FileDesc
    BY <1>1 DEF FileDesc
  <2> QED
    BY <2>1, FSAssumption
<1>11. FlatDesc(fd) = [file |-> x, pos |-> 0, r |-> r, w |-> w]
  BY DEF FlatDesc
<1> HIDE DEF fd
<1>12. ASSUME NEW e \in Descriptors
       PROVE  Desc'[e] = IF e = d THEN FlatDesc(fd) ELSE Desc[e]
  <2>1. CASE e = d
    <3>1. e \in Used' /\ file_descriptors'[e] = fd
      BY <1>8, <1>10, <2>1 DEF Used, Slots
    <3> QED
      BY <2>1, <3>1 DEF Desc
  <2>2. CASE e # d
    <3>1. e \in Used' <=> e \in Used
      BY <1>2, <1>4, <1>8, <2>2 DEF Used, Slots
    <3>2. e \in Used => file_descriptors'[e] = file_descriptors[e]
      BY <1>2, <1>4, <1>8, <2>2 DEF Used
    <3> QED
      BY <2>2, <3>1, <3>2 DEF Desc
  <2> QED
    BY <2>1, <2>2
<1>13. Desc' = [e \in Descriptors |-> Desc'[e]] /\ Desc = [e \in Descriptors |-> Desc[e]]
  BY DEF Desc
<1>14. Desc' = [Desc EXCEPT ![d] = FlatDesc(fd)]
  BY <1>7, <1>12, <1>13
<1> QED
  BY <1>1, <1>6, <1>7, <1>9, <1>11, <1>14

(* The name n, which denoted nothing, gets the file x. *)
LEMMA NameGiven ==
  ASSUME FlatInv, FlatInv', NEW n \in Names, NEW x \in Files, Dir[n] = NULL, ~Listed(x),
         \A m \in Names : Denotes(m, x)' <=> m = n,
         \A m \in Names, y \in Files : y # x => (Denotes(m, y)' <=> Denotes(m, y))
  PROVE  Dir' = [Dir EXCEPT ![n] = x]
<1> DEFINE D == [Dir EXCEPT ![n] = x]
<1>1. DirMap
  BY DirMapped, Zenon
<1>2. Dir \in [Names -> Files \cup {NULL}] /\ NULL \notin Files
  BY <1>1, FSAssumption DEF DirMap, Dir
<1>3. D \in [Names -> Files \cup {NULL}] /\ D[n] = x /\ \A m \in Names : m # n => D[m] = Dir[m]
  BY <1>2
<1> HIDE DEF D
<1>4. ASSUME NEW m \in Names, NEW y \in Files PROVE D[m] = y <=> Denotes(m, y)'
  <2>1. (Dir[m] = y <=> Denotes(m, y)) /\ Dir[m] # x
    <3>1. Denotes(m, x) => Listed(x)
      BY Zenon DEF Denotes
    <3> QED
      BY <1>1, <3>1, Zenon DEF DirMap
  <2>2. CASE y = x
    <3>1. D[m] = x <=> m = n
      BY <1>3, <2>1
    <3>2. Denotes(m, x)' <=> m = n
      BY Zenon
    <3> QED
      BY <2>2, <3>1, <3>2
  <2>3. CASE y # x
    <3>1. D[m] = y <=> Dir[m] = y
      BY <1>2, <1>3, <2>3
    <3>2. Denotes(m, y)' <=> Denotes(m, y)
      BY <2>3, Zenon
    <3> QED
      BY <2>1, <3>1, <3>2
  <2> QED
    BY <2>2, <2>3
<1>5. Dir' = D
  BY <1>3, <1>4, DirAfter, Zenon
<1> QED
  BY <1>5 DEF D

LEMMA FlatOpenExisting ==
  ASSUME ~AllocFails, FlatInv, BlockInv', NEW n \in Names, NEW flags, NEW x \in Files,
         Dir[n] = x, ufs_create_fd(x, file, flags), file_descriptor_count < MaxFds,
         UNCHANGED file_list
  PROVE  FlatInv' /\ Flat!Open(n)
<1> DEFINE g == [file[x] EXCEPT !.refs = @ + 1]
<1>1. DirMap /\ file \in [Files -> FileRec] /\ NULL \notin Files
  BY DirMapped, FSAssumption DEF FlatInv, BlockInv, FSInv, Types
<1>2. Listed(x)
  BY <1>1, Zenon DEF DirMap, Denotes
<1>3. Bounded' /\ buf' = <<>> /\ file' = [file EXCEPT ![x] = g]
  BY FlatCreateFd, Zenon
<1>4. PICK d \in Descriptors, r \in BOOLEAN, w \in BOOLEAN :
        /\ Desc[d] = NULL /\ ret' = d
        /\ Desc' = [Desc EXCEPT ![d] = [file |-> x, pos |-> 0, r |-> r, w |-> w]]
  BY FlatCreateFd, Zenon
<1>5. /\ g.name = file[x].name /\ g.marked_for_deletion = file[x].marked_for_deletion
      /\ g.mem = file[x].mem /\ g.total_size = file[x].total_size
  <2>1. file[x] \in FileRec
    BY <1>1
  <2> QED
    BY <2>1 DEF FileRec
<1> HIDE DEF g
<1>6. /\ FlatInv' /\ Dir' = Dir
      /\ Content' = [Content EXCEPT ![x] = SubSeq(g.mem, 1, g.total_size)]
  BY <1>2, <1>3, <1>5, OneFile, Zenon
<1>7. Content' = Content
  <2> DEFINE v == SubSeq(g.mem, 1, g.total_size)
  <2>1. v = Content[x] /\ Content = [y \in Files |-> Content[y]]
    BY <1>5, ContentFunction, Zenon
  <2>2. Content' = [Content EXCEPT ![x] = v]
    BY <1>6
  <2> HIDE DEF v
  <2> QED
    BY <2>1, <2>2
<1>8. Dir' = [Dir EXCEPT ![n] = x]
  <2>1. Dir = [m \in Names |-> Dir[m]]
    BY DEF Dir
  <2> QED
    BY <1>6, <2>1
<1>9. Dir[n] # NULL
  BY <1>1
<1> QED
  BY <1>3, <1>4, <1>6, <1>7, <1>8, <1>9 DEF Flat!Open, Flat!Answer

LEMMA FlatOpenNew ==
  ASSUME ~AllocFails, FlatInv, BlockInv', NEW n \in Names, NEW flags, NEW x \in Files,
         Dir[n] = NULL, ~Listed(x),
         ufs_create_fd(x, [file EXCEPT ![x] = ufs_create_file(n)], flags),
         file_descriptor_count < MaxFds, file_list' = Append(file_list, x)
  PROVE  FlatInv' /\ Flat!Open(n)
<1> DEFINE new == ufs_create_file(n)
           files == [file EXCEPT ![x] = new]
           g == [new EXCEPT !.refs = @ + 1]
<1>1. /\ file \in [Files -> FileRec] /\ ListInv /\ DescMap /\ RefsExact
      /\ file_list \in Seq(Files)
  BY DescMapped DEF FlatInv, BlockInv, FSInv, Types, Table
<1>2. new \in FileRec /\ new.name = n /\ ~new.marked_for_deletion /\ new.total_size = 0
      /\ new.mem \in Seq(Nat)
  <2>1. new \in FileRec /\ new.name = n /\ ~new.marked_for_deletion /\ new.total_size = 0
    BY NewFile, Zenon
  <2> HIDE DEF new
  <2> QED
    BY <2>1 DEF FileRec
<1>3. /\ Bounded' /\ buf' = <<>>
      /\ file' = [files EXCEPT ![x] = [files[x] EXCEPT !.refs = @ + 1]]
      /\ \E d \in Descriptors, r, w \in BOOLEAN :
           /\ Desc[d] = NULL /\ ret' = d
           /\ Desc' = [Desc EXCEPT ![d] = [file |-> x, pos |-> 0, r |-> r, w |-> w]]
  <2> HIDE DEF files
  <2>1. ufs_create_fd(x, files, flags)
    BY DEF files
  <2> QED
    BY <2>1, FlatCreateFd, Zenon
<1>4. PICK d \in Descriptors, r \in BOOLEAN, w \in BOOLEAN :
        /\ Desc[d] = NULL /\ ret' = d
        /\ Desc' = [Desc EXCEPT ![d] = [file |-> x, pos |-> 0, r |-> r, w |-> w]]
  BY <1>3, Zenon
<1> HIDE DEF new
<1>5. file'[x] = g /\ \A y \in Files : y # x => file'[y] = file[y]
  BY <1>1, <1>3
<1>6. /\ g.name = n /\ ~g.marked_for_deletion /\ g.total_size = 0 /\ g.mem \in Seq(Nat)
  BY <1>2 DEF FileRec
<1> HIDE DEF g
<1>7. Listed(x)'
  <2>1. Len(file_list') \in DOMAIN file_list' /\ file_list'[Len(file_list')] = x
    BY <1>1
  <2> QED
    BY <2>1 DEF Listed
<1>8. ASSUME NEW y \in Files, y # x PROVE Listed(y)' <=> Listed(y)
  <2>1. /\ DOMAIN file_list = 1 .. Len(file_list) /\ Len(file_list) \in Nat
        /\ DOMAIN file_list' = 1 .. Len(file_list) + 1
        /\ file_list'[Len(file_list) + 1] = x
        /\ \A i \in 1 .. Len(file_list) : file_list'[i] = file_list[i]
    BY <1>1
  <2>2. ASSUME Listed(y)' PROVE Listed(y)
    <3>1. PICK i \in DOMAIN file_list' : file_list'[i] = y
      BY <2>2 DEF Listed
    <3>2. i \in 1 .. Len(file_list)
      BY <1>8, <2>1, <3>1
    <3> QED
      BY <2>1, <3>1, <3>2 DEF Listed
  <2>3. ASSUME Listed(y) PROVE Listed(y)'
    <3>1. PICK i \in DOMAIN file_list : file_list[i] = y
      BY <2>3 DEF Listed
    <3>2. i \in DOMAIN file_list' /\ file_list'[i] = y
      BY <2>1, <3>1
    <3> QED
      BY <3>2 DEF Listed
  <2> QED
    BY <2>2, <2>3
<1>9. FlatInv'
  <2>1. ListInv'
    BY <1>1, <1>3, <1>5, <1>6, <1>7, <1>8, ListFrame, Zenon
  <2> QED
    BY <2>1 DEF FlatInv
<1>10. Dir' = [Dir EXCEPT ![n] = x]
  <2>1. \A m \in Names : Denotes(m, x)' <=> m = n
    BY <1>5, <1>6, <1>7, Zenon DEF Denotes
  <2>2. ASSUME NEW m \in Names, NEW y \in Files, y # x
        PROVE  Denotes(m, y)' <=> Denotes(m, y)
    <3>1. file'[y] = file[y] /\ (Listed(y)' <=> Listed(y))
      BY <2>2, <1>5, <1>8, Zenon
    <3> QED
      BY <3>1, Zenon DEF Denotes
  <2> QED
    BY <1>9, <2>1, <2>2, NameGiven
<1>11. Content' = Content
  <2>1. /\ Content = [y \in Files |-> Content[y]] /\ Content' = [y \in Files |-> Content'[y]]
    BY ContentFunction, Zenon
  <2>2. ASSUME NEW y \in Files PROVE Content'[y] = Content[y]
    <3>1. CASE y = x
      <4>1. Content[x] = <<>>
        BY UnlistedEmpty, Zenon
      <4>2. Content'[x] = SubSeq(g.mem, 1, 0)
        BY <1>5, <1>6, ContentFunction, Zenon
      <4>3. SubSeq(g.mem, 1, 0) = <<>>
        BY <1>6
      <4> QED
        BY <3>1, <4>1, <4>2, <4>3, Zenon
    <3>2. CASE y # x
      <4>1. file'[y] = file[y]
        BY <3>2, <1>5, Zenon
      <4>2. /\ Content[y] = SubSeq(file[y].mem, 1, file[y].total_size)
            /\ Content'[y] = SubSeq(file'[y].mem, 1, file'[y].total_size)
        BY ContentFunction, Zenon
      <4> QED
        BY <4>1, <4>2, Zenon
    <3> QED
      BY <3>1, <3>2
  <2> QED
    BY <2>1, <2>2
<1>12. ~Flat!Linked(x) /\ Flat!OpenOn(x) = {}
  <2>1. ~Flat!Linked(x)
    BY LinkedMap, Zenon
  <2>2. Flat!OpenOn(x) = FdsOf(x)
    BY <1>1, Zenon DEF DescMap
  <2>3. FdsOf(x) = {}
    BY <1>1, Zenon DEF RefsExact, Listed
  <2> QED
    BY <2>1, <2>2, <2>3
<1> QED
  BY <1>3, <1>4, <1>9, <1>10, <1>11, <1>12 DEF Flat!Open, Flat!Answer

LEMMA FlatOpen ==
  ASSUME ~AllocFails, FlatInv, BlockInv', NEW n \in Names, NEW flags, ufs_open(n, flags)
  PROVE  FlatInv' /\ (Flat!Open(n) \/ Flat!OpenMissing(n)) /\ UNCHANGED down
<1>1. Dir[n] = ufs_find_file(n) /\ Dir[n] \in Files \cup {NULL}
  <2>1. Dir[n] = ufs_find_file(n)
    BY DEF Dir
  <2> QED
    BY <2>1, DirMapped, Zenon DEF DirMap
<1>2. CASE Dir[n] = NULL /\ "CREATE" \notin flags
  <2>1. Refuse("NO_FILE")
    BY <1>1, <1>2 DEF ufs_open
  <2> QED
    BY <1>2, <2>1, Denied, Zenon DEF Flat!OpenMissing
<1>3. CASE Dir[n] = NULL /\ "CREATE" \in flags
  <2>1. PICK x \in Files :
          /\ \A i \in DOMAIN file_list : file_list[i] # x
          /\ ufs_create_fd(x, [file EXCEPT ![x] = ufs_create_file(n)], flags)
          /\ file_list' = Append(file_list, x)
    BY <1>1, <1>3, Zenon DEF ufs_open
  <2>2. file_descriptor_count < MaxFds /\ UNCHANGED down
    BY <1>1, <1>3 DEF ufs_open
  <2>3. ~Listed(x)
    BY <2>1, Zenon DEF Listed
  <2> QED
    BY <1>3, <2>1, <2>2, <2>3, FlatOpenNew, Zenon
<1>4. CASE Dir[n] # NULL
  <2>1. PICK x \in Files : x = Dir[n]
    BY <1>1, <1>4
  <2>2. /\ file_descriptor_count < MaxFds /\ UNCHANGED down /\ UNCHANGED file_list
        /\ ufs_create_fd(ufs_find_file(n), file, flags)
    BY <1>1, <1>4 DEF ufs_open
  <2>3. ufs_create_fd(x, file, flags)
    BY <1>1, <2>1, <2>2, Zenon
  <2> QED
    BY <2>1, <2>2, <2>3, FlatOpenExisting, Zenon
<1> QED
  BY <1>2, <1>3, <1>4

-----------------------------------------------------------------------------
(* The refinement *)

LEMMA FlatStep ==
  ASSUME ~AllocFails, FlatInv, BlockInv', [Next]_fsVars
  PROVE  FlatInv' /\ [Flat!FlatNext]_(Flat!flatVars)
<1>1. CASE UNCHANGED fsVars
  <2>1. UNCHANGED <<fileVars, fdVars>> /\ UNCHANGED <<ret, buf, down>>
    BY <1>1 DEF fsVars, resultVars
  <2>2. FlatInv' /\ UNCHANGED <<Dir, Content, Desc>>
    BY <2>1, Quiet, Zenon
  <2> QED
    BY <2>1, <2>2 DEF Flat!flatVars
<1>2. CASE ufs_shutdown
  BY <1>2, FlatShutdown DEF Flat!FlatNext
<1>3. SUFFICES ASSUME ~ufs_shutdown, Next PROVE FlatInv' /\ ~down /\ Flat!Call /\ UNCHANGED down
  BY <1>1, <1>2, <1>3 DEF Flat!FlatNext
<1>4. CASE \E n \in Names, flags \in OpenFlags : ufs_open(n, flags)
  <2>1. PICK n \in Names, flags \in OpenFlags : ufs_open(n, flags)
    BY <1>4
  <2>2. ~down
    BY <2>1 DEF ufs_open, Running
  <2>3. FlatInv' /\ (Flat!Open(n) \/ Flat!OpenMissing(n)) /\ UNCHANGED down
    BY <2>1, FlatOpen, Zenon
  <2> QED
    BY <2>2, <2>3 DEF Flat!Call
<1>5. CASE \E i \in Handles, b \in Buffers : ufs_write(i, b)
  <2>1. PICK i \in Handles, b \in Buffers : ufs_write(i, b)
    BY <1>5
  <2>2. ~down /\ i \in Descriptors \cup {0}
    BY <2>1, HandleMap DEF ufs_write, Running
  <2>3. FlatInv' /\ Flat!Write(i, b) /\ UNCHANGED down
    BY <2>1, FlatWrite, Zenon
  <2> QED
    BY <2>2, <2>3, Zenon DEF Flat!Call
<1>6. CASE \E i \in Handles, size \in ReadSizes : ufs_read(i, size)
  <2>1. PICK i \in Handles, size \in ReadSizes : ufs_read(i, size)
    BY <1>6
  <2>2. ~down /\ i \in Descriptors \cup {0}
    BY <2>1, HandleMap DEF ufs_read, Running
  <2>3. FlatInv' /\ Flat!Read(i, size) /\ UNCHANGED down
    BY <2>1, FlatRead, Zenon
  <2> QED
    BY <2>2, <2>3, Zenon DEF Flat!Call
<1>7. CASE \E i \in Handles : ufs_close(i)
  <2>1. PICK i \in Handles : ufs_close(i)
    BY <1>7
  <2>2. ~down /\ i \in Descriptors \cup {0}
    BY <2>1, HandleMap DEF ufs_close, Running
  <2>3. FlatInv' /\ Flat!Close(i) /\ UNCHANGED down
    BY <2>1, FlatClose, Zenon
  <2> QED
    BY <2>2, <2>3, Zenon DEF Flat!Call
<1>8. CASE \E n \in Names : ufs_delete(n)
  <2>1. PICK n \in Names : ufs_delete(n)
    BY <1>8
  <2>2. ~down
    BY <2>1 DEF ufs_delete, Running
  <2>3. FlatInv' /\ Flat!Delete(n) /\ UNCHANGED down
    BY <2>1, FlatDelete, Zenon
  <2> QED
    BY <2>2, <2>3 DEF Flat!Call
<1>9. CASE \E i \in Handles, z \in NewSizes : ufs_resize(i, z)
  <2>1. PICK i \in Handles, z \in NewSizes : ufs_resize(i, z)
    BY <1>9
  <2>2. ~down /\ i \in Descriptors \cup {0}
    BY <2>1, HandleMap DEF ufs_resize, Running
  <2>3. FlatInv' /\ Flat!Resize(i, z) /\ UNCHANGED down
    BY <2>1, FlatResize, Zenon
  <2> QED
    BY <2>2, <2>3, Zenon DEF Flat!Call
<1> QED
  BY <1>3, <1>4, <1>5, <1>6, <1>7, <1>8, <1>9 DEF Next

LEMMA FlatInitial == Init => FlatInv /\ Flat!FlatInit
<1> SUFFICES ASSUME Init PROVE FlatInv /\ Flat!FlatInit
  OBVIOUS
<1>1. /\ file = [x \in Files |-> NoFile] /\ file_list = <<>> /\ file_descriptors = <<>>
      /\ ret = 0 /\ buf = <<>> /\ down = FALSE /\ crashed = FALSE
  BY DEF Init
<1>2. Used = {} /\ DOMAIN file_list = {} /\ ~crashed
  BY <1>1 DEF Used, Slots
<1>3. BlockInv
  BY <1>2, InitFS DEF BlockInv, BlocksCover, CursorOnBlock, NoCrash
<1>4. ListInv
  <2>1. \A x : ~Listed(x)
    BY <1>2 DEF Listed
  <2>2. \A x \in Files : file[x].mem = <<>> /\ file[x].total_size = 0
    BY <1>1 DEF NoFile
  <2>3. Len(file_descriptors) = 0 /\ 0 <= MaxSlots
    BY <1>1, FSAssumption, MaxOfTwo DEF MaxSlots
  <2> QED
    BY <2>1, <2>2, <2>3 DEF ListInv, Unlisted, Named, Bounded
<1>5. FlatInv
  BY <1>3, <1>4 DEF FlatInv
<1>6. Dir = [n \in Names |-> NULL]
  BY <1>2 DEF Dir, ufs_find_file
<1>7. Content = [x \in Files |-> <<>>]
  <2>1. \A x \in Files : Content[x] = <<>>
    BY <1>2, <1>5, UnlistedEmpty DEF Listed
  <2> QED
    BY <2>1, ContentFunction
<1>8. Desc = [d \in Descriptors |-> NULL]
  BY <1>2 DEF Desc
<1> QED
  BY <1>1, <1>5, <1>6, <1>7, <1>8 DEF Flat!FlatInit

(* The file system implements FlatFS: through every call, whatever other   *)
(* descriptors, deletes, re-creations and resizes came in between, a       *)
(* descriptor reads and writes the bytes of a flat file.                   *)
THEOREM FlatRefinement ==
  ASSUME ~AllocFails, ~BoundaryReads
  PROVE  Spec => ImplementsFlatFS
<1>1. Init => FlatInv /\ Flat!FlatInit
  BY FlatInitial
<1>2. BlockInv' /\ FlatInv /\ [Next]_fsVars => FlatInv' /\ [Flat!FlatNext]_(Flat!flatVars)
  BY FlatStep, Zenon
<1>3. Spec => []BlockInv
  BY BlockInvariant, Zenon
<1> QED
  BY <1>1, <1>2, <1>3, PTL DEF Spec, ImplementsFlatFS, Flat!FlatSpec
=============================================================================
