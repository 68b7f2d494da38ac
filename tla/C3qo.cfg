\* The control hook and two blocks of users; queues of two messages, in and out.
SPECIFICATION Spec
CONSTANTS
  UserId = {1, 2}
  HighWater = 2
  MaxWaiting = 2
INVARIANTS PolledAreLive AllGivenBack
PROPERTIES ImplementsContract ProcessEnds
