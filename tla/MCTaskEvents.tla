---------------------------- MODULE MCTaskEvents ----------------------------
(* Instances of TaskEvents for TLC.                                        *)
EXTENDS TaskEvents, TLC

CONSTANTS t1, s1, s2, s3, h1, h2, res

Symmetry == Permutations(Stream) \cup Permutations(Publisher)
=============================================================================
