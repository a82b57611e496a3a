CONSTANTS
  Keys = {k1, k2}
  Values = {v1}
  Garbage = Garbage
SPECIFICATION Spec
INVARIANT DeliversContents
