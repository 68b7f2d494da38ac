\* Two runs, two processes, queues that fill at once. The runs and the processes may be used up.
SPECIFICATION Spec
CONSTANTS
  Peer = {"a", "b"}
  Line <- MCLine
  HighWater = 1
  nullptr = nullptr
  Faults = {"loss", "interrupt"}
  MaxRuns = 2
  MaxStarts = 2
INVARIANTS SuccessIsOwn CommandsInOrder ExecutedAsTyped NothingOutlives
PROPERTIES ClientEnds
CHECK_DEADLOCK FALSE
