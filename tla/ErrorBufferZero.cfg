CONSTANTS
  MinLength = 0
  MaxLength = 5
  MaxStrlen = 7
  IntMax = 15
  SizeMax = 63
SPECIFICATION Spec
INVARIANT WritesInBounds
