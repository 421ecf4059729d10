SPECIFICATION Spec
CONSTANTS
  w1 = w1  w2 = w2  w3 = w3
  Event = {1, 2, 3}
  Version = {1, 2, 3}
  Subscribed <- Widening
  Worker = {w1, w2, w3}
  VersionOf <- OnePerVersion
  NoWorker = NoWorker  NoEvent = 0
  Outcomes = {"succeeded", "skipped"}
  Batch = 3
  MaxAttempts = 1
  Rolling = TRUE
  Stalls = FALSE
  MaxRedrives = 0
  MaxCrashes = 0
INVARIANT BumpNeverCollides

