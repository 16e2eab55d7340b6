\* Four long names and a short one; the decoder lags by up to five symbols.
CONSTANTS
  Strings = {a, b, c, d, x}
  Short = {x}
  NoString = empty
  SymMod = 3
  MaxStream = 5
SPECIFICATION Spec
INVARIANTS FaithfulBeforeWrap SymbolInv
