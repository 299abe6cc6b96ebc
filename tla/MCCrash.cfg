SPECIFICATION FairServerSpec
CONSTANTS
  j1 = j1
  t1 = t1
  t2 = t2
  w1 = w1
  NoWorker = NoWorker
  NoJob = NoJob
  NoTask = NoTask
  NoMetric = NoMetric
  Reaper = Reaper
  Jobs <- MCJobs
  Tasks <- MCTasks
  Workers <- MCWorkers
  Handlers = {h1}
  JobOf <- MCJobOf
  Priority <- MCPriority
  MaxAttempts <- MCMaxAttempts
  Slots <- MCSlots
  Matches <- MCMatches
  Metrics = {}
  Exports = {}
  Attempts = 1
  MaxBusy = 3
  MaxCrashes = 1
PROPERTY SettledJobClosesAfterRestart
