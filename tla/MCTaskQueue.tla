----------------------------- MODULE MCTaskQueue -----------------------------
(* Small instances of TaskQueue and its refinement for TLC. *)
EXTENDS TaskQueueRefinement, TLC

CONSTANTS w1, w2, t1, t2, p1, p2, k1, noWorker, noTask, noKey

\* Workers, tasks and producers are interchangeable: no definition orders them.
Symmetry == Permutations(Workers) \union Permutations(Tasks) \union Permutations(Producers)
=============================================================================
