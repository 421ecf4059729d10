SPECIFICATION FairSpec
CONSTANTS
  w1 = w1  w2 = w2  w3 = w3
  Event = {1, 2, 3}
  Version = {1, 2}
  Subscribed <- DropsFirst
  Worker = {w1, w2}
  VersionOf <- OnePerVersion
  NoWorker = NoWorker  NoEvent = 0
  Outcomes = {"succeeded"}
  Batch = 1
  MaxAttempts = 2
  Rolling = FALSE
  Stalls = FALSE
  MaxRedrives = 0
  MaxCrashes = 1
INVARIANTS BumpDropsNothing OldVersionsIdle BumpNeverCollides
PROPERTIES EventuallySettled ImplementsDelivery
