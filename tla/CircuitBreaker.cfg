SPECIFICATION FairSpec
CONSTANTS
  Models = {m1}
  Requests = {r1, r2}
  ModelThreshold = 2
  UpstreamThreshold = 2
  OpenModelThreshold = 1
  AndLogic = TRUE
  Caches = {"memory", "redis"}
  MaxFaults = 3
INVARIANTS TypeOK NoOrphanProbe OneProbe
PROPERTIES Recovers
