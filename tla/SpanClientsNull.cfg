CONSTANTS
  Threads = {th1}
  Tracers = {a}
  MayFail = {a}
  Noop = Noop
  None = None
  NullSpan = NullSpan
SPECIFICATION ClientSpec
INVARIANT NoCallOnNull
