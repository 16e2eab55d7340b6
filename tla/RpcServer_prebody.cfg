\* One connection, served on after errors; the pre-body interceptor may reject.
CONSTANTS
  r1 = r1
  r2 = r2
  svcA = svcA
  m1 = m1
  m2 = m2
  NoMethod = NoMethod
  Workers = {w1}
  Registrars = {r1, r2}
  Unnamed = {r2}
  RegName <- MCRegName
  RegMethods <- MCRegMethods
  ServiceMethods <- MCServiceMethods
  HandlerCalls = {1}
  Rejecting = {w1}
  KeepServing = {w1}
  Framed = {w1}
  StraySeqs = {0}
  MaxRequests = 2
SPECIFICATION Spec
INVARIANTS PairedReads
