------------------------------ MODULE MCUserFS ------------------------------
(* Small instances of UserFS for TLC. *)
EXTENDS UserFSFlat, TLC

CONSTANTS f1, f2

OneFile == {f1}
TwoFiles == {f1, f2}

ThreeBuffers == {<<>>, <<1>>, <<1, 2, 1>>}
ByteBuffers == {<<1>>, <<2>>}
OneByte == {<<1>>}
TwoBytes == {<<1, 2>>}

SomeFlags == {{"CREATE"}, {"READ_ONLY"}, {"CREATE", "WRITE_ONLY"}}
PlainFlags == {{"CREATE"}}

Addresses == Permutations(TwoFiles)
=============================================================================
