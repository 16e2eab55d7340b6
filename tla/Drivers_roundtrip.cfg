\* Boundary values of every form of integer, length, extension and time.
CONSTANTS
  Leads = {0, 1, 2, 15, 16, 17, 31, 32, 127, 128, 223, 224, 254, 255}
  Tails = {0, 1, 127, 128, 255}
  Lengths = {0, 1, 2, 3, 4, 7, 8, 9, 11, 12, 13, 15, 16, 17, 31, 32, 33, 127, 128, 255, 256, 257, 65535, 65536, 16777216}
  Offsets = {0, 59, 60, 3600, 20700, 43200, 50400}
SPECIFICATION Spec
INVARIANTS IntRoundTrip NarrowingChecked PrunedRoundTrip LengthRoundTrip ExtRoundTrip NakedConsumesAll
