\* Three messages of up to three parts through a queue of four.
SPECIFICATION Spec
CONSTANTS
  Buffers <- MCBuffers
  HighWater = 4
  MaxSent = 3
INVARIANTS FullPartsArrive PassedIsAnEnd CountsAgree
PROPERTIES EveryMessageIsRead
