SPECIFICATION PathSpec
CONSTANTS
  a = a
  b = b
  None = None
  Conflict = Conflict
  Absent = Absent
  NoRows = NoRows
  Blank = Blank
  Runtime = "nirs4all"
  Admits <- MCAdmits
  IdentityKeys <- Keys
  Calls <- MCCalls
  WorkersSeen <- MCWorkersSeen
  Results <- MCResults
  AllowPython = TRUE
CHECK_DEADLOCK FALSE
INVARIANTS
  PathTypeOK
  RunIsWhatWasAsked
  EvidenceIsAligned
  TraceIsHonest
