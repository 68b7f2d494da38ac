\* One message at most in each socket, signals at any time.
SPECIFICATION SpecWithOperator
CONSTANTS
  frontend = frontend
  backend = backend
  Sock = {s1, s2}
  Addr = {a1, a2}
  nullptr = nullptr
  unset = unset
  MaxPending = 1
INVARIANTS AllGivenBack OneSignalKeepsContexts
PROPERTIES SignalsEndIt
