\* Every interleaving of calls on two identifiers, two addresses, two types.
SPECIFICATION Spec
CONSTANTS
  Id = {i1, i2}
  Type = {hello, hook_zmq}
  Ptr = {p1, p2}
  nullptr = nullptr
INVARIANTS MapOwnsHeap CallbacksAlternate
PROPERTIES DestroyedQuiescent ImplementsRegistry ClearTerminates
