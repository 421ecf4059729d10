SPECIFICATION Spec
CONSTANTS
  a = a  b = b  p1 = p1  p2 = p2
  Job = {a, b}
  Dags <- HardOrSoft
  Gated = {b}
  MayStall = {b}
  Pass = {p1, p2}
  NoPass = NoPass
  MaxRun = 1
  Nights = 2
  MaxFaults = 1
SYMMETRY PassSymmetry
INVARIANTS TypeOK OneJobPerNode UpstreamsFirst ClosedIsSettled ChainNeverCut
PROPERTIES SettledNodesFinal
CHECK_DEADLOCK FALSE
