CONSTANTS
  Keys = {k1, k2, k3}
  Values = {v1, v2}
  Garbage = Garbage
SPECIFICATION Spec
INVARIANTS
  TypeOK
  InjectedIsInMap
  FirstErrorReturned
  IteratorsBalanced
  DeliversInOrder
PROPERTY ForeachEnds
