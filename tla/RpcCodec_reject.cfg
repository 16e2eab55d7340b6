\* Codecs that go on after a body the encoder rejects.
CONSTANTS
  Msgs = {m1, m2, m3}
  NoMsg = NoMsg
  Kinds = {"msgpack", "spec", "gobClient"}
  Unencodable = {m1}
SPECIFICATION Spec
INVARIANTS PairsIntact
