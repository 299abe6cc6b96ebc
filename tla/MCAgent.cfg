SPECIFICATION FairAgentSpec
CONSTANTS
  j1 = j1
  t1 = t1
  w1 = w1
  w2 = w2
  NoWorker = NoWorker
  Jobs <- MCJobs
  Tasks <- MCTasks
  Workers <- MCWorkers
  JobOf <- MCJobOf
  Priority <- MCPriority
  MaxAttempts <- MCMaxAttempts
  Slots <- MCSlots
  Matches <- MCMatches
  Dir <- MCDir
  KeepWorkspace = {}
  Evidence = {t1}
  MaxLosses = 1
  MaxEnded = 1
INVARIANTS
  AgentTypeOK
  SuccessWasProduced
  HeldTaskIsAttended
  ChildrenWithinSlots
PROPERTIES
  OnlyMeantCancels
  CancelTakesEffect
