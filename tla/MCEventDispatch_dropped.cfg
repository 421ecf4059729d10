SPECIFICATION Spec
CONSTANTS
  w1 = w1  w2 = w2  w3 = w3
  Event = {1, 2}
  Version = {1, 2}
  Subscribed <- AllSubscribed
  Worker = {w1, w2}
  VersionOf <- OnePerVersion
  NoWorker = NoWorker  NoEvent = 0
  Outcomes = {"succeeded", "skipped"}
  Batch = 1
  MaxAttempts = 1
  Rolling = TRUE
  Stalls = FALSE
  MaxRedrives = 0
  MaxCrashes = 0
INVARIANT BumpDropsNothing

