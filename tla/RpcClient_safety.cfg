\* Three calls, two sharing a Done channel of capacity 1 whose users keep the
\* rule of Go; sequence numbers wrap on the wire after two calls; the peer may
\* repeat one answer; one closer.
CONSTANTS
  a = a
  b = b
  c = c
  d = d
  shared = shared
  other = other
  unbuffered = unbuffered
  NoCall = NoCall
  Calls = {a, b, c}
  Chans = {shared, other}
  ChanOf <- MCChanOf
  Cap <- MCCap
  Careful = {shared}
  Closers = {k1}
  WireMod = 2
  MaxDups = 1
SYMMETRY MCSymmetry
SPECIFICATION Spec
INVARIANTS AtMostOnce NoneForgotten OwnReplyBeforeWrap NoCompletionDropped LateNeverSent ClientInv
PROPERTIES OutcomeStable
