\* A reader that decodes every []byte into the buffer it has.
CONSTANTS
  Defs <- MCDefs
  Handles <- MCHandles
  Conversations <- TwoBuffers
  Destinations <- OneBuffer
  ExtTypes <- MCExtTypes
  Tags = {0, 1}
  MaxExts = 0
SPECIFICATION Spec
CHECK_DEADLOCK FALSE
INVARIANTS BytesReplaced
