\* Callbacks that register and remove entries.
SPECIFICATION Spec
CONSTANTS
  Block = {b1}
  Fd <- MCFd
  Socket = {s1}
  Interest = {{"in"}}
  nullptr = nullptr
INVARIANTS IteratorsStayValid
