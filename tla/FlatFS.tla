------------------------------- MODULE FlatFS -------------------------------
(***************************************************************************)
(* What a file system in memory promises: a file is a sequence of bytes, a *)
(* descriptor is a position in it.  There are no blocks, no reference      *)
(* counts and no table.                                                    *)
(***************************************************************************)
EXTENDS Integers, Sequences, FiniteSets

CONSTANTS Names, Files, Descriptors, Buffers, ReadSizes, NewSizes, Capacity,
          NULL

VARIABLES dir,      \* the file a name denotes, or NULL
          content,  \* the bytes of each file; empty once nothing refers to it
          desc,     \* position and rights of each open descriptor, or NULL
          result,   \* what the last call returned
          bytes,    \* what the last call read
          off       \* shut down

flatVars == <<dir, content, desc, result, bytes, off>>

FlatInit == /\ dir = [n \in Names |-> NULL]
            /\ content = [x \in Files |-> <<>>]
            /\ desc = [d \in Descriptors |-> NULL]
            /\ result = 0 /\ bytes = <<>> /\ off = FALSE

Linked(x)  == \E n \in Names : dir[n] = x
OpenOn(x)  == {d \in Descriptors : desc[d] # NULL /\ desc[d].file = x}
IsOpen(d)  == d \in Descriptors /\ desc[d] # NULL
Shorter(m, n) == IF m < n THEN m ELSE n

Answer(r) == result' = r /\ bytes' = <<>>
Deny      == Answer(-1) /\ UNCHANGED <<dir, content, desc>>

Open(n) ==
  \E x \in Files, d \in Descriptors, r, w \in BOOLEAN :
    /\ IF dir[n] = NULL THEN ~Linked(x) /\ OpenOn(x) = {} ELSE x = dir[n]
    /\ desc[d] = NULL
    /\ dir' = [dir EXCEPT ![n] = x]
    /\ desc' = [desc EXCEPT ![d] = [file |-> x, pos |-> 0, r |-> r, w |-> w]]
    /\ Answer(d) /\ UNCHANGED content

OpenMissing(n) == dir[n] = NULL /\ Deny

(* Bytes c with b laid over them from position p on. *)
Overlay(c, p, b) ==
  [i \in 1 .. (IF p + Len(b) > Len(c) THEN p + Len(b) ELSE Len(c)) |->
     IF i > p /\ i <= p + Len(b) THEN b[i - p] ELSE c[i]]

Write(d, b) ==
  IF IsOpen(d) /\ desc[d].w /\ desc[d].pos + Len(b) <= Capacity
  THEN /\ content' = [content EXCEPT ![desc[d].file] = Overlay(@, desc[d].pos, b)]
       /\ desc' = [desc EXCEPT ![d].pos = @ + Len(b)]
       /\ Answer(Len(b)) /\ UNCHANGED dir
  ELSE Deny

Read(d, size) ==
  IF IsOpen(d) /\ desc[d].r
  THEN LET c == content[desc[d].file]
           n == Shorter(size, Len(c) - desc[d].pos)
       IN  /\ bytes' = SubSeq(c, desc[d].pos + 1, desc[d].pos + n)
           /\ result' = n
           /\ desc' = [desc EXCEPT ![d].pos = @ + n]
           /\ UNCHANGED <<dir, content>>
  ELSE Deny

(* A file without a name ends with its last descriptor. *)
Drop(d) ==
  /\ desc' = [desc EXCEPT ![d] = NULL]
  /\ content' = [x \in Files |-> IF ~Linked(x) /\ OpenOn(x) \subseteq {d}
                                 THEN <<>> ELSE content[x]]
  /\ UNCHANGED dir

Close(d) == IF IsOpen(d) THEN Drop(d) /\ Answer(0) ELSE Deny

(* There is no call after Shutdown, which closes what is open. *)
Shutdown == off' = TRUE /\ UNCHANGED <<dir, content, desc, result, bytes>>

CloseLeft ==
  \E d \in Descriptors : IsOpen(d) /\ Drop(d) /\ UNCHANGED <<result, bytes, off>>

Delete(n) ==
  IF dir[n] = NULL THEN Deny
  ELSE /\ dir' = [dir EXCEPT ![n] = NULL]
       /\ content' = [content EXCEPT ![dir[n]] = IF OpenOn(dir[n]) = {} THEN <<>> ELSE @]
       /\ Answer(0) /\ UNCHANGED desc

Resized(c, size) ==
  [i \in 1 .. size |-> IF i <= Len(c) THEN c[i] ELSE 0]

Resize(d, size) ==
  IF IsOpen(d) /\ size <= Capacity
  THEN LET x == desc[d].file
       IN  /\ content' = [content EXCEPT ![x] = Resized(@, size)]
           /\ desc' = [e \in Descriptors |-> IF e \in OpenOn(x)
                         THEN [desc[e] EXCEPT !.pos = Shorter(@, size)]
                         ELSE desc[e]]
           /\ Answer(0) /\ UNCHANGED dir
  ELSE Deny

Call ==
  \/ \E n \in Names : Open(n) \/ OpenMissing(n) \/ Delete(n)
  \/ \E d \in Descriptors \cup {0} :
       \/ \E b \in Buffers : Write(d, b)
       \/ \E size \in ReadSizes : Read(d, size)
       \/ \E size \in NewSizes : Resize(d, size)
       \/ Close(d)

FlatNext ==
  \/ ~off /\ Call /\ UNCHANGED off
  \/ ~off /\ Shutdown
  \/ off /\ CloseLeft

FlatSpec == FlatInit /\ [][FlatNext]_flatVars
=============================================================================
