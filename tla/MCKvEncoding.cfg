SPECIFICATION BoundedSpec
CONSTANTS
  Base = 128
  Rows <- MCRows
  MaxRows = 3
  Counters <- MCCounters
INVARIANTS KeysDistinct KeysOrdered RangeReadsOneEarly CounterRoundTrip
