CONSTANTS
  Threads = {th1, th2, th3}
  Tracers = {a, b}
  MayFail = {}
  Noop = Noop
  None = None
  NullSpan = NullSpan
SPECIFICATION FairClientSpec
INVARIANTS
  ClientTypeOK
  NoUseAfterDestroy
  PassedReadsInstalled
  SpansOfLiveTracers
  TraceUnbroken
PROPERTIES
  InstalledForGood
  RoutineTakesEffect
  ImplementsOnce
