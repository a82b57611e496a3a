CONSTANTS
  Threads = {th1, th2}
  Copies = {c}
  Overriders = {d}
  Noop = Noop
  None = None
SPECIFICATION Spec
INVARIANTS
  TypeOK
  SpanKnowsItsTracer
  LiveSpanHasTracer
PROPERTY ImplementsSpans
