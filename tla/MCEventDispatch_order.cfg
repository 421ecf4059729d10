SPECIFICATION Spec
CONSTANTS
  w1 = w1  w2 = w2  w3 = w3
  Event = {1, 2, 3}
  Version = {1}
  Subscribed <- AllSubscribed
  Worker = {w1, w2}
  VersionOf <- OneVersion
  NoWorker = NoWorker  NoEvent = 0
  Outcomes = {"succeeded", "skipped"}
  Batch = 2
  MaxAttempts = 2
  Rolling = FALSE
  Stalls = TRUE
  MaxRedrives = 1
  MaxCrashes = 0
INVARIANTS TypeOK SettledInOrder AttemptsBounded ClaimShape
PROPERTIES SettledIsFinal ImplementsDelivery
