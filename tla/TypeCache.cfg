\* Three goroutines that meet values of two types, again and again.
CONSTANTS
  None = None
  Goroutines = {g1, g2, g3}
  Types = {"outer", "wide"}
  Fields <- MCFields
  Sorted <- MCSorted
  Defs <- MCDefs
SPECIFICATION FairSpec
INVARIANTS NoMapRace OneCompleteInfo FieldsFound
PROPERTIES CallsReturn
