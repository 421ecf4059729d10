SPECIFICATION Spec
CONSTANTS
  w1 = w1  w2 = w2
  MaxTurn = 2
  Crisis <- LastTurn
  Worker = {w1, w2}
  Retries = 1
  MaxFaults = 1
INVARIANTS TypeOK OneVerdict ToldUnpaid OneTurnAtATime
PROPERTIES EventuallySettled
CHECK_DEADLOCK FALSE
