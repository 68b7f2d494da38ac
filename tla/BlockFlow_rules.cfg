\* Two blocks, three addresses, and callers that follow the rules.
SPECIFICATION FlowSpec
CONSTANTS
  hello = hello  hook_zmq = hook_zmq  trans_pb = trans_pb
  Id = {i1, i2}
  Type = {hello, hook_zmq, trans_pb}
  Ptr = {p1, p2, p3}
  nullptr = nullptr
  Forwarding = {hello}
  Receiving = {hook_zmq}
  Commanding = {trans_pb}
  CallerRules = {"spare the sinks", "close no ring"}
INVARIANTS SinksAreBound NoRing NoFreedBlockRead
PROPERTIES FlowFollowsBindings FlowEnds
