\* Two hooks that contend for an address and reuse the addresses of sockets.
SPECIFICATION SpecWithPeers
CONSTANTS
  Hook = {h1, h2}
  Sock = {s1, s2}
  Addr = {a1}
  nullptr = nullptr
  unset = unset
  MaxPending = 1
INVARIANTS SocketsHaveOwners ContextsAreReturned PolledAreOpen
PROPERTIES ImplementsHookService StopReturns
