CONSTANTS
  Threads = {th1, th2}
  Tracers = {a, b}
  Noop = Noop
  None = None
SPECIFICATION Spec
INVARIANTS
  TypeOK
  OnlyInstalledDestroyed
