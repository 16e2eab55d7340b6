\* Two messages, the second decoded also into what the first one left; two
\* extension types, whose registrations may collide or be taken back.
CONSTANTS
  Defs <- MCDefs
  Handles <- MCHandles
  Conversations <- MCConversations
  Destinations <- MCDestinations
  ExtTypes <- MCExtTypes
  Tags = {0, 1}
  MaxExts = 3
SPECIFICATION Spec
CONSTRAINT ExtsUsed
CHECK_DEADLOCK FALSE
INVARIANTS KeepsPlace DecodeUpdates ExtsTyped RelayStable
