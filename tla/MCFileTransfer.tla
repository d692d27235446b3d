--------------------------- MODULE MCFileTransfer ---------------------------
(* Small instances of FileTransfer.                                         *)
EXTENDS FileTransfer, TLC

\* Contents.
TwoChunks  == [f \in Files |-> 2]
OneChunk   == [f \in Files |-> 1]
EmptyFile  == [f \in Files |-> 0]

\* Names: all transfers carry the same name.
SameName   == [f \in Files |-> "photo"]

\* Transfers of equal contents and name are interchangeable.
Interchangeable == Permutations(Files)
=============================================================================
