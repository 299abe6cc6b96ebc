SPECIFICATION FairStreamSpec
CONSTANTS
  j1 = j1
  feed = feed
  dashboard = dashboard
  NoJob = NoJob
  Jobs = {j1}
  Emitters = {e1, e2}
  JobStreams = {feed}
  GlobalStreams = {dashboard}
  JobFollowed <- MCJobFollowed
  QueueMax = 1
  ReplayMax = 1
  RecentMax = 1
  MaxEvents = 3
  MaxOpen = 1
CHECK_DEADLOCK FALSE
INVARIANTS
  StreamTypeOK
  LossIsExplained
  ReplayStartsAtTheBeginning
PROPERTIES
  FeedKept
  LiveEventArrives
