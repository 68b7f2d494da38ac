------------------------------ MODULE BlockFlow ------------------------------
(***************************************************************************)
(* Data flows between the blocks of a manager: block::process_data_        *)
(* (engine/src/block.cpp), which follows the sinks set by block_bind, and  *)
(* the commands that trans_pb::data_ executes in the middle of a flow      *)
(* (block/trans_pb/src/trans_pb.cpp).                                      *)
(*                                                                         *)
(* A flow follows raw pointers, one hop at a time. Nothing in the manager  *)
(* protects it from the deletion of a block that others are bound to, nor  *)
(* from a ring of blocks that all forward. CallerRules is what the callers *)
(* of block_del and block_bind undertake for it.                           *)
(***************************************************************************)
EXTENDS ManagerBk

CONSTANTS
  Forwarding,   \* types whose data_ returns true (hello)
  Commanding,   \* types whose data_ executes commands and replies (trans_pb)
  Receiving,    \* types whose on_fd_ starts flows (hook_zmq)
  CallerRules   \* the rules the callers follow, among Rules

Rules == {"spare the sinks", "close no ring"}

ASSUME RulesAssumption == CallerRules \subseteq Rules

VARIABLES
  flow,   \* the loop of process_data_: what it does next, where, with what
  bound   \* history: identifier the block at an address was last bound to

flowVars == <<bk_factory_, bk_map_, heap, phase, cursor, reply, flow, bound>>

\* "command" and "other" come from the outside, "reply" from trans_pb.
Data == {"command", "other", "reply"}

\* "hop" reads the sink of current, "deliver" calls its data_, "execute" is
\* inside the data_ of a block with a command, "fault" has read freed memory:
\* what follows is not ours to say, and no step does.
Flow == [pc : {"idle", "hop", "deliver", "execute", "fault"},
         current : Ptr \cup {nullptr}, data : Data]

NoFlow == [pc |-> "idle", current |-> nullptr, data |-> "other"]

Live(p) == p \in DOMAIN heap

-----------------------------------------------------------------------------
\* The data_ of the block at r hands what it is given to its sink.
Forwards(r) == Live(r) /\ heap[r].type_ \in Forwarding /\ heap[r].sink_ # nullptr

\* Addresses from which no flow that only hops ever leaves.
Closed(S) == \A r \in S : Forwards(r) => heap[r].sink_ \in S

\* Blocks reached from p through blocks that forward, p included.
Downstream(p) ==
  {q \in Ptr : \A S \in SUBSET Ptr : p \in S /\ Closed(S) => q \in S}

MayDelete(id) ==
  "spare the sinks" \in CallerRules =>
    (id \in DOMAIN bk_map_ => \A p \in DOMAIN heap : heap[p].sink_ # bk_map_[id])

MayBind(src, dst) ==
  "close no ring" \in CallerRules =>
    ({src, dst} \subseteq DOMAIN bk_map_ =>
       bk_map_[src] \notin Downstream(bk_map_[dst]))

\* A command, and what it does to the history of bindings.
Add(id, type) ==
  /\ block_add(id, type)
  /\ bound' = [p \in Ptr |-> IF p \in DOMAIN heap' \ DOMAIN heap THEN nullptr ELSE bound[p]]

StartOrStop(id) ==
  /\ block_start(id) \/ block_stop(id)
  /\ UNCHANGED bound

Del(id) ==
  /\ MayDelete(id)
  /\ block_del(id)
  /\ UNCHANGED bound

Bind(src, dst) ==
  /\ MayBind(src, dst)
  /\ block_bind(src, dst)
  /\ bound' = IF {src, dst} \subseteq DOMAIN bk_map_
              THEN [bound EXCEPT ![bk_map_[src]] = dst] ELSE bound

Command ==
  \/ \E id \in Id, type \in Type : Add(id, type)
  \/ \E id \in Id : StartOrStop(id) \/ Del(id)
  \/ \E src, dst \in Id : Bind(src, dst)

-----------------------------------------------------------------------------
\* main registers every factory before any other call.
FlowInit ==
  /\ bk_factory_ = Type /\ NoBlocks
  /\ flow = NoFlow
  /\ bound = [p \in Ptr |-> nullptr]

\* The owner of the manager calls it between two flows.
Call ==
  /\ flow.pc = "idle"
  /\ Command
  /\ UNCHANGED flow

\* A started hook has read a message. That it is started when its socket is
\* polled is all that on_fd_ relies on.
on_fd_(id, data) ==
  /\ flow.pc = "idle"
  /\ id \in DOMAIN bk_map_
  /\ heap[bk_map_[id]].is_started_ /\ heap[bk_map_[id]].type_ \in Receiving
  /\ flow' = [pc |-> "hop", current |-> bk_map_[id], data |-> data]
  /\ UNCHANGED <<vars, bound>>

Goto(pc) == flow' = [flow EXCEPT !.pc = pc]

\* Mutant: a missing sink is followed too.
Hop_Unchecked ==
  /\ flow.pc = "hop"
  /\ \/ ~Live(flow.current) /\ Goto("fault")
     \/ /\ Live(flow.current)
        /\ flow' = [flow EXCEPT !.pc = "deliver", !.current = heap[flow.current].sink_]
  /\ UNCHANGED <<vars, bound>>

\* Reads current->sink_. A block with no sink ends the flow.
Hop ==
  /\ flow.pc = "hop"
  /\ \/ ~Live(flow.current) /\ Goto("fault")
     \/ /\ Live(flow.current)
        /\ LET sink == heap[flow.current].sink_
           IN flow' = IF sink = nullptr THEN NoFlow
                      ELSE [flow EXCEPT !.pc = "deliver", !.current = sink]
  /\ UNCHANGED <<vars, bound>>

\* Mutant: the data_ of a hook returns true once it has sent the data.
Deliver_Onwards ==
  /\ flow.pc = "deliver"
  /\ \/ ~Live(flow.current) /\ Goto("fault")
     \/ /\ Live(flow.current)
        /\ \/ heap[flow.current].type_ \notin Commanding /\ Goto("hop")
           \/ /\ heap[flow.current].type_ \in Commanding
              /\ IF flow.data = "command" THEN Goto("execute") ELSE flow' = NoFlow
  /\ UNCHANGED <<vars, bound>>

\* Calls current->data_, started or not. A hook sends the data out, a
\* transcoder given anything but a command drops it: both end the flow.
Deliver ==
  /\ flow.pc = "deliver"
  /\ \/ ~Live(flow.current) /\ Goto("fault")
     \/ /\ Live(flow.current)
        /\ \/ heap[flow.current].type_ \in Forwarding /\ Goto("hop")
           \/ /\ heap[flow.current].type_ \in Commanding /\ flow.data = "command"
              /\ Goto("execute")
           \/ /\ heap[flow.current].type_ \notin Forwarding
              /\ heap[flow.current].type_ \in Commanding => flow.data # "command"
              /\ flow' = NoFlow
  /\ UNCHANGED <<vars, bound>>

\* trans_pb::data_ executes the command, if it names one of the manager's,
\* and starts the flow of its reply. The loops around it are left with
\* nothing to do but return, so the new flow takes the place of the old one.
Execute ==
  /\ flow.pc = "execute"
  /\ Command \/ UNCHANGED <<vars, bound>>
  /\ flow' = [flow EXCEPT !.pc = "hop", !.data = "reply"]

Running == Hop \/ Deliver \/ Execute

FlowNext ==
  \/ Call
  \/ \E id \in Id, data \in Data \ {"reply"} : on_fd_(id, data)
  \/ Running

\* The thread goes on with the flow it has begun; messages need not come.
FlowSpec == FlowInit /\ [][FlowNext]_flowVars /\ WF_flowVars(Running)

-----------------------------------------------------------------------------
\* The variables keep their shape, those of the manager included.
FlowTypeOK ==
  /\ TypeOK
  /\ flow \in Flow
  /\ bound \in [Ptr -> Id \cup {nullptr}]

\* A sink is a live block, and the one that block_bind named.
SinksAreBound ==
  \A p \in DOMAIN heap :
    heap[p].sink_ # nullptr =>
      Live(heap[p].sink_) /\ heap[heap[p].sink_].id_ = bound[p]

\* No ring of blocks that all forward, on which a flow would turn for ever,
\* whatever was bound, deleted and built again at the same address.
NoRing ==
  \A p \in DOMAIN heap : Forwards(p) => p \notin Downstream(heap[p].sink_)

\* No flow reads a block that was deleted: not the sink of a block, not the
\* block that starts a reply after executing a command on itself.
NoFreedBlockRead == flow.pc # "fault"

\* Each hop leads to the block that block_bind named for the block it leaves,
\* never to another that was given the same address.
FlowFollowsBindings ==
  [][flow.pc = "hop" /\ flow'.pc = "deliver" =>
       /\ Live(flow'.current)
       /\ heap[flow'.current].id_ = bound[flow.current]]_flowVars

\* A flow, with the command and the reply it carries, comes to its end and
\* gives the thread back to the main loop.
FlowEnds == (flow.pc # "idle") ~> (flow.pc = "idle")
=============================================================================
