CONSTANTS
  MinLength = 1
  MaxLength = 5
  MaxStrlen = 7
  IntMax = 15
  SizeMax = 63
SPECIFICATION Spec
INVARIANTS
  WritesInBounds
  HoldsMessage
