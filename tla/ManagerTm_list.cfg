\* Three timers, a clock of four dates that can be set back once.
SPECIFICATION Spec
CONSTANTS
  Block = {b1}
  Tid = {t1, t2, t3}
  Delay <- MCDelay
  NSEC_MAX = 2
  MaxSec = 1
  MaxSteps = 1
  nullptr = nullptr
INVARIANTS TypeOK SortedOnce
PROPERTIES ImplementsService CheckReturns TimersComeDue
