CONSTANTS
  Threads = {t1}
  Flusher = Flusher
  a1 = a1
  a2 = a2
  a3 = a3
  b1 = b1
  Spans <- MCSpans
  TraceOf <- MCTraceOf
  Segments = {a3, b1}
  SizeOf <- MCSizeOf
  Poison = {b1}
  MaxBeforeFlush = 2
  MaxBeforeDrop = 2
  MaxBytesBeforeFlush = 4
  MaxEnvelopeSize = 1
  None = None
  MaxForks = 1
  CaptureMayFail = TRUE
  StartMayFail = TRUE
SPECIFICATION FairSpec
CHECK_DEADLOCK FALSE
INVARIANT SpansConserved
INVARIANT SizesFit
INVARIANT FullBucketWakes
PROPERTY SpansDrain
