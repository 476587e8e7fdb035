--------------------------- MODULE MCTaskPipeline ---------------------------
(* Instances of TaskPipeline for TLC: one resource per task.               *)
EXTENDS TaskPipeline, TLC

CONSTANTS t1, h1, h2, p1, p2

MCResourceOf == [t \in Task |-> t]

Symmetry == Permutations(Handler) \cup Permutations(Proc)
=============================================================================
