--------------------------- MODULE MCReadersWriters ---------------------------
(* Instances of ReadersWriters for TLC.                                    *)
EXTENDS ReadersWriters, TLC

Children == Permutations(Writers) \cup Permutations(Readers)
=============================================================================
