SPECIFICATION Spec
CONSTANTS
  a = a  b = b  c = c  z = z  g = g  h = h  r1 = r1  r2 = r2  u = u  x0 = x0  x1 = x1
  d1 = d1  d2 = d2  d3 = d3  w1 = w1  w2 = w2  ok = ok  wait = wait
  Effect = {a, c}
  Entity = {g}
  Revision = {r1, r2}
  Unit = {u}
  EntityOf <- AdmissionEntityOf
  RevOf <- AdmissionRevOf
  UnitOf <- AdmissionUnitOf
  FeatureRep = {}
  Delivery = {d1, d2, d3}
  BackendOf <- BossAndDbos
  Receipt = {ok}
  Waiting = {}
  NoEffect = NoEffect  NoDelivery = NoDelivery  NoReceipt = NoReceipt
  Switchable = TRUE
  Reauthorizable = FALSE
  ReceiptGates = FALSE
  Worker = {w1, w2}
  PinsRevision = FALSE
  ContractOf <- ContractOfUnit
  MaxGeneration = 2
  MaxContract = 0
  MaxCalls = 2
SYMMETRY WorkerSymmetry
INVARIANTS OwnerStaysAdmitted AtMostOnePayment
CHECK_DEADLOCK FALSE
