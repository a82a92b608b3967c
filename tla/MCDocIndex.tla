----------------------------- MODULE MCDocIndex -----------------------------
(* Instances of DocIndex: the document has two chunks, or the first alone, or *)
(* is gone; id 0 is a transcript chunk's.                                     *)
EXTENDS DocIndex, TLC

CONSTANTS j1, j2

TwoJobs == {j1, j2}
Interchangeable == Permutations(TwoJobs)

MCChunks == [b \in 0..2 |-> CASE b = 0 -> {} [] b = 1 -> {1, 2} [] b = 2 -> {1}]
=============================================================================
