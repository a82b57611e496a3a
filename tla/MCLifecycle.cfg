CONSTANTS
  Threads = {th1, th2}
  Tracers = {a, b}
  Handles = {h1, h2}
  Libs = {l}
  Noop = Noop
  None = None
  Garbage = Garbage
SYMMETRY Symmetry
SPECIFICATION LifeSpec
INVARIANTS
  LifeTypeOK
  UsedCodeIsLoaded
PROPERTY
  LoadsAreOneStep
