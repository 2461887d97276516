-------------------------- MODULE MCTransferManager --------------------------
(* A small instance of TransferManager for TLC. *)
EXTENDS TransferManager, TLC

CONSTANTS
    s1, s2, \* sessions
    c1, c2, \* callers
    f1      \* a file

TwoSessions == {s1, s2}
OneFile     == {f1}
SameFile    == [s \in Sessions |-> f1]

\* two chunks, of two bytes and of one
ThreeBytes == [g \in Files |-> 3]

\* s1 uploads the file and s2 downloads it, when it likes
UploadAndDownload == (s1 :> {"Upload"}) @@ (s2 :> {"Download"})

FourCalls == [call |-> 4, failure |-> 1]

Interchangeable == Permutations(Callers)
=============================================================================
