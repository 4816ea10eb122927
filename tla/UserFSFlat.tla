----------------------------- MODULE UserFSFlat -----------------------------
(***************************************************************************)
(* The file system of userfs.c implements FlatFS: the content of a file is *)
(* the first total_size bytes of its chain of blocks.                      *)
(***************************************************************************)
EXTENDS UserFS

Descriptors == 1 .. MaxSlots

(* A name denotes what ufs_find_file finds. *)
Dir == [n \in Names |-> ufs_find_file(n)]

Content == [x \in Files |-> SubSeq(file[x].mem, 1, file[x].total_size)]

(* A descriptor without its block. *)
FlatDesc(fd) == [file |-> fd.file, pos |-> fd.total_offset,
                 r |-> fd.read_allowed, w |-> fd.write_allowed]

Desc == [d \in Descriptors |->
           IF d \in Used THEN FlatDesc(file_descriptors[d]) ELSE NULL]

ASSUME FlatAssumption ==
  NULL \notin [file : Files, pos : Int, r : BOOLEAN, w : BOOLEAN]

Flat == INSTANCE FlatFS WITH
          Capacity <- MAX_FILE_SIZE,
          dir <- Dir, content <- Content, desc <- Desc,
          result <- ret, bytes <- buf, off <- down

(* Every call behaves as on a flat file: reads return what was written     *)
(* last at the descriptor's position, whatever other descriptors, deletes, *)
(* re-creations and resizes happened in between.                           *)
ImplementsFlatFS == Flat!FlatSpec
=============================================================================
