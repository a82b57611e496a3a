CONSTANTS
  Threads = {th1, th2}
  Tracers = {a, b}
  Noop = Noop
  None = None
SPECIFICATION FairLockedSpec
INVARIANTS
  LockedTypeOK
  NoUseAfterDestroy
  ReplacedDestroyedOnce
PROPERTIES
  ImplementsSlot
  CallTakesEffect
