---------------------------- MODULE MCTaskQueue ----------------------------
(***************************************************************************)
(* A small database: a job of two tasks and two workers, of one and of two *)
(* slots; the second task only matches the smaller worker.                 *)
(***************************************************************************)
EXTENDS TaskQueue, TLC

CONSTANTS j1, t1, t2, w1, w2

MCJobs        == {j1}
MCTasks       == {t1, t2}
MCWorkers     == {w1, w2}
MCJobOf       == t1 :> j1 @@ t2 :> j1
MCPriority    == j1 :> 0
MCMaxAttempts == j1 :> 2
MCSlots       == w1 :> 1 @@ w2 :> 2
MCMatches     == {<<w1, t1>>, <<w1, t2>>, <<w2, t1>>}
=============================================================================
