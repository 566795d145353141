----------------------------- MODULE MCExecutor -----------------------------
(* Model values for Executor, with symmetry for the safety run. *)
EXTENDS Executor, TLC

CONSTANTS t1, t2, w1, w2, x1, x2, c1

MCTasks == {t1, t2}
MCWorkers == {w1, w2}
MCThreads == {x1, x2}

Symmetry == Permutations(MCTasks) \cup Permutations(MCWorkers)
              \cup Permutations(MCThreads)
=============================================================================
