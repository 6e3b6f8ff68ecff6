\* The server is idle when every request has been answered or lost.
CHECK_DEADLOCK FALSE
SPECIFICATION FairSpec
CONSTANTS
  Reqs = {r1, r2}
  FaultKinds = {"create", "read", "unknown", "fatal", "oom"}
  MaxFaults = 1
  MaxId = 2
  MaxQueries = 2
  Parsed <- MCParsed
  Worlds = {1, 2}
INVARIANTS TypeOK ContextLifetime AnswerAsLongAsAsked LostUpdateNeedsConflict AppliedAtMostOnce ChangedRowsReported
PROPERTIES EveryTfbRequestAnswered
