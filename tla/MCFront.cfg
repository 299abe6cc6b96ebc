SPECIFICATION FrontSpec
CONSTANTS
  t1 = t1
  w1 = w1
  w2 = w2
  model = model
  dataset = dataset
  Principals <- MCPrincipals
  LegacyToken = "l"
  NoToken = "none"
  Requests <- MCRequests
  Tasks = {t1}
  Workers = {w1, w2}
  NoWorker = NoWorker
  PrincipalOf <- MCPrincipalOf
  NoName = "nobody"
  Contents = {model, dataset}
  SizeOf <- MCSizeOf
  MaxArtifact = 2
  NoKey = "no key"
  MaxRequests = 3
  MaxMoves = 3
  MaxCrashes = 1
CHECK_DEADLOCK FALSE
INVARIANTS
  FrontTypeOK
  KeyNamesOneJob
  ArtifactIsWhole
  RefusedLeavesNothing
  LinkIsFromAHolder
