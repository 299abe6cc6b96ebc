------------------------------ MODULE MCAgent ------------------------------
(***************************************************************************)
(* One task with two attempts; an agent with two slots and the agent that  *)
(* is started in its state directory after it, with one.                   *)
(***************************************************************************)
EXTENDS WorkerAgent, TLC

CONSTANTS j1, t1, w1, w2

MCJobs        == {j1}
MCTasks       == {t1}
MCWorkers     == {w1, w2}
MCJobOf       == t1 :> j1
MCPriority    == j1 :> 0
MCMaxAttempts == j1 :> 2
MCSlots       == w1 :> 2 @@ w2 :> 1
MCMatches     == MCWorkers \X MCTasks
MCDir         == w1 :> "state" @@ w2 :> "state"
=============================================================================
