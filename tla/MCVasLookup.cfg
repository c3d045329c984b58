SPECIFICATION VasSpec
CONSTANTS
  NoMapping = NoMapping
  Mappings = {m1, m2, m3}
  TopPage = 5
  Lengths = {1, 2}
INVARIANT LookupFindsMapped
SYMMETRY Symmetry
CHECK_DEADLOCK FALSE
