\* Two runs with one process, and what the client says of an answer.
SPECIFICATION Spec
CONSTANTS
  Peer = {"a"}
  Line <- MCLateLine
  HighWater = 3
  nullptr = nullptr
  Faults = {}
  MaxRuns = 2
  MaxStarts = 1
INVARIANTS OwnAnswer
CHECK_DEADLOCK FALSE
