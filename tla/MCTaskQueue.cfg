SPECIFICATION QueueSpec
CONSTANTS
  j1 = j1
  t1 = t1
  t2 = t2
  w1 = w1
  w2 = w2
  NoWorker = NoWorker
  Jobs <- MCJobs
  Tasks <- MCTasks
  Workers <- MCWorkers
  JobOf <- MCJobOf
  Priority <- MCPriority
  MaxAttempts <- MCMaxAttempts
  Slots <- MCSlots
  Matches <- MCMatches
INVARIANTS
  QueueTypeOK
  InFlightIsRecoverable
  QueuedIsFree
  AttemptsBounded
  NoOverbooking
  SlotsCacheExact
  QueuedJobIsUntouched
PROPERTIES
  LifecycleKept
