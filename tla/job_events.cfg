\* One log stream and one metric stream, two lines besides the
\* last one, one point, buffers of two, one failed append or restart.
CONSTANTS
  l1 = l1
  m1 = m1
  LogReaders = {l1}
  MetricReaders = {m1}
  MaxBuffer = 2
  Limit = 5
  MaxLines <- Lines
  MaxFaults = 1
SPECIFICATION FairSpec
INVARIANTS TypeOK StreamsAreRuns StreamsAreComplete ReplayTellsTheEnd
PROPERTIES StreamsEnd
CHECK_DEADLOCK FALSE
