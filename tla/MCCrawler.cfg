SPECIFICATION Spec
CONSTANTS
  n1 = n1
  u1 = u1
  u2 = u2
  u3 = u3
  Nodes = {n1}
  URLs = {u1, u2, u3}
  Home <- MCHome
  Domain <- MCDomain
  Links <- MCLinks
  Seeds <- MCSeeds
  Limit <- MCLimit
  Settings = {"isolate", "index-queue", "index-directly"}
  FaultSettings = {"index-queue"}
  LossSettings = {"index-directly"}
  CutSettings = {"index-directly"}
  CrashSettings = {"isolate"}
  MaxQueueLen = 1
  NearFull = 1
  DomainLimit = 1
  MaxSlots = 3
  MaxStarts = 1
  MaxCrashes = 1
  NotCached = NotCached
  Absent = Absent
  Idle = Idle
  Pending = Pending
INVARIANTS
  CrawlerTypeOK
  ActiveCountsPages
  DomainsCountQueue
  CrawledOnce
  NoUrlForgotten
PROPERTIES
  QueuedIsTaken
CHECK_DEADLOCK FALSE
