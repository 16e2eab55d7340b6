\* Two calls overcommit a Done channel of capacity 1 and a third is made on an
\* unbuffered one, where Go panics; one closer; the wire carries the whole Seq;
\* the peer need neither answer nor read.
CONSTANTS
  a = a
  b = b
  c = c
  d = d
  shared = shared
  other = other
  unbuffered = unbuffered
  NoCall = NoCall
  Calls = {a, b, d}
  Chans = {shared, unbuffered}
  ChanOf <- MCChanOf
  Cap <- MCCap
  Careful = {}
  Closers = {k1}
  WireMod = 8
  MaxDups = 0
SPECIFICATION FairSpec
PROPERTIES ImplementsCalls ClosedCompletes EndedCompletes
