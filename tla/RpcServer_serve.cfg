\* Two connections.  w1 is served like the tests do: the loop goes on after
\* errors, and its codec is framed (gob).  w2's loop stops at the first error;
\* its codec is not framed (msgpack), and the interceptor may reject requests.
CONSTANTS
  r1 = r1
  r2 = r2
  svcA = svcA
  m1 = m1
  m2 = m2
  NoMethod = NoMethod
  Workers = {w1, w2}
  Registrars = {r1, r2}
  Unnamed = {}
  RegName <- MCRegName
  RegMethods <- MCRegMethods
  ServiceMethods <- MCServiceMethods
  HandlerCalls = {0, 1}
  Rejecting = {w2}
  KeepServing = {w1}
  Framed = {w1}
  StraySeqs = {0}
  MaxRequests = 2
SPECIFICATION Spec
INVARIANTS NoSharing EchoesRequest AnsweredOnce PoolsBounded CallsCounted RecoversAfterError ServerInv
PROPERTIES RegistrationStable
