SPECIFICATION FairSpec
CONSTANTS
  a = a  b = b  c = c  z = z  g = g  h = h  r1 = r1  r2 = r2  u = u  x0 = x0  x1 = x1
  d1 = d1  d2 = d2  d3 = d3  w1 = w1  w2 = w2  ok = ok  wait = wait
  Effect = {a, b, c}
  Entity = {g}
  Revision = {r1, r2}
  Unit = {x0, x1}
  EntityOf <- AdmissionEntityOf
  RevOf <- RepRevOf
  UnitOf <- RepUnitOf
  FeatureRep = {a, b, c}
  Delivery = {d1, d3}
  BackendOf <- BossOnly
  Receipt = {ok}
  Waiting = {}
  NoEffect = NoEffect  NoDelivery = NoDelivery  NoReceipt = NoReceipt
  Switchable = FALSE
  Reauthorizable = FALSE
  ReceiptGates = FALSE
  Worker = {w1, w2}
  PinsRevision = FALSE
  ContractOf <- ContractOfUnit
  MaxGeneration = 0
  MaxContract = 0
  MaxCalls = 2
INVARIANTS OneDebtPerEntity 
PROPERTIES SendsSettle
CHECK_DEADLOCK FALSE
