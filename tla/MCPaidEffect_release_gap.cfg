SPECIFICATION Spec
CONSTANTS
  a = a  b = b  c = c  z = z  g = g  h = h  r1 = r1  r2 = r2  u = u  x0 = x0  x1 = x1
  d1 = d1  d2 = d2  d3 = d3  w1 = w1  w2 = w2  ok = ok  wait = wait
  Effect = {a, b, c}
  Entity = {g}
  Revision = {r1, r2}
  Unit = {u}
  EntityOf <- AdmissionEntityOf
  RevOf <- AdmissionRevOf
  UnitOf <- AdmissionUnitOf
  FeatureRep = {}
  Delivery = {d1, d3}
  BackendOf <- BossOnly
  Receipt = {ok, wait}
  Waiting = {wait}
  NoEffect = NoEffect  NoDelivery = NoDelivery  NoReceipt = NoReceipt
  Switchable = TRUE
  Reauthorizable = TRUE
  ReceiptGates = FALSE
  Worker = {w1, w2}
  PinsRevision = TRUE
  ContractOf <- ContractOfUnit
  MaxGeneration = 0
  MaxContract = 0
  MaxCalls = 2
SYMMETRY WorkerSymmetry
INVARIANTS EligibleGroupReleasable
