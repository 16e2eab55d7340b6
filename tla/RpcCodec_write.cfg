\* Three concurrent writers on each kind of codec, buffered or not; up to two of
\* the bodies cannot be encoded.
CONSTANTS
  Msgs = {m1, m2, m3}
  NoMsg = NoMsg
  Kinds = {"msgpack", "spec", "gobClient", "gobServer"}
  Unencodable = {m1, m2}
SPECIFICATION FairSpec
INVARIANTS SentAsUnit DamageOnlyAfterReject GobServerStops CodecInv
PROPERTIES WrittenArrives
