\* Three valid keys, reading and writing.
SPECIFICATION Spec
CONSTANTS
  Block = {b1}
  Fd <- MCFd
  Socket = {s1}
  Interest = {{"in"}, {"out"}}
  nullptr = nullptr
INVARIANTS Parallel EveryReadyCalledOnce OneSignalIsSafe
PROPERTIES PollReturns
