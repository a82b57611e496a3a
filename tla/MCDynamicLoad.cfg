CONSTANTS
  Threads = {th1, th2}
  Handles = {h1, h2}
  Libs = {l1, l2}
  Trusted = {l1}
  Uninitialised = {h2}
  MaxLost = 1
  None = None
  Garbage = Garbage
SYMMETRY ThreadSymmetry
SPECIFICATION Spec
INVARIANTS
  TypeOK
  ReferencesOwned
  FactoryIsLoaded
  FailedLoadClearsHandle
  MessageIsOfThisLoad
