------------------------------ MODULE MCServer ------------------------------
(***************************************************************************)
(* Small servers of one job with two tasks and one worker with two slots;  *)
(* the cfg says how many attempts, threads and restarts there are.         *)
(***************************************************************************)
EXTENDS ClusterServer, TLC

CONSTANTS j1, t1, t2, w1,
  Attempts      \* max_attempts of the job

MCJobs        == {j1}
MCTasks       == {t1, t2}
MCWorkers     == {w1}
MCJobOf       == t1 :> j1 @@ t2 :> j1
MCPriority    == j1 :> 0
MCMaxAttempts == j1 :> Attempts
MCSlots       == w1 :> 2
MCMatches     == MCWorkers \X MCTasks

\* The tasks are alike and so are the threads.
Symmetry == Permutations(MCTasks) \cup Permutations(Handlers)
=============================================================================
