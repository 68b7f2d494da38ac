------------------------------ MODULE HookWire ------------------------------
(***************************************************************************)
(* Multi-part messages from one hook_zmq to another: send_, which writes a *)
(* buffer part by part, recv_, which reads one back, and on_fd_, which     *)
(* passes it on (block/hook_zmq/src/hook_zmq.cpp, utils/buffer).           *)
(*                                                                         *)
(* libzmq is external: it refuses a message at its first part or not at    *)
(* all, and hands the parts over together, in order, when the last one is  *)
(* written. Only the lengths of the parts matter here.                     *)
(***************************************************************************)
EXTENDS Integers, Sequences, FiniteSets, SequencesExt

CONSTANTS
  Buffers,     \* buffers given to data_: non-empty sequences of part lengths
  HighWater,   \* parts that the queue of the sockets can hold (in messages: ZMQ_SNDHWM)
  MaxSent      \* bound: messages accepted by libzmq

ASSUME BuffersAssumption ==
  /\ Buffers \subseteq Seq(Nat) \ {<<>>}
  /\ HighWater \in Nat /\ MaxSent \in Nat

\* A part is [msg, idx, len, more]: it knows its message and its place in it,
\* which nobody can read.
VARIABLES
  source,     \* the loop of send_: buffer and index of the part, or idle
  open,       \* parts of the message being written, not yet handed over
  wire,       \* parts handed over and not yet read
  target,     \* the loop of recv_: what buf holds, or idle
  tx_pkt_,    \* messages sent, as the sending hook counts them
  rx_pkt_,    \* messages received, as the receiving hook counts them
  accepted,   \* history: the buffers sent, in order
  passed      \* history: the buffers given to process_data_, in order

vars == <<source, open, wire, target, tx_pkt_, rx_pkt_, accepted, passed>>

Idle == [pc |-> "idle", buf |-> <<>>, idx |-> 0]

Contents(n) == [i \in DOMAIN accepted[n] |->
                  [msg |-> n, idx |-> i, len |-> accepted[n][i], more |-> i < Len(accepted[n])]]

-----------------------------------------------------------------------------
Init ==
  /\ source = Idle /\ open = <<>> /\ wire = <<>> /\ target = [pc |-> "idle", buf |-> <<>>]
  /\ tx_pkt_ = 0 /\ rx_pkt_ = 0
  /\ accepted = <<>> /\ passed = <<>>

data_(buf) ==
  /\ source.pc = "idle"
  /\ Len(accepted) < MaxSent
  /\ source' = [pc |-> "send", buf |-> buf, idx |-> 1]
  /\ UNCHANGED <<open, wire, target, tx_pkt_, rx_pkt_, accepted, passed>>

\* zmq_msg_send refuses the first part: no room. send_ gives up.
SendRefused ==
  /\ source.pc = "send" /\ source.idx = 1
  /\ Len(wire) + Len(source.buf) > HighWater
  /\ source' = Idle
  /\ UNCHANGED <<open, wire, target, tx_pkt_, rx_pkt_, accepted, passed>>

\* Mutant: ZMQ_SNDMORE is forgotten.
SendPart_NoMore ==
  /\ source.pc = "send"
  /\ source.idx = 1 => Len(wire) + Len(source.buf) <= HighWater
  /\ LET last == source.idx = Len(source.buf)
         part == [msg |-> Len(accepted) + 1, idx |-> source.idx,
                  len |-> source.buf[source.idx], more |-> FALSE]
     IN  /\ wire' = Append(wire, part)
         /\ source' = IF last THEN Idle ELSE [source EXCEPT !.idx = @ + 1]
         /\ accepted' = IF last THEN Append(accepted, source.buf) ELSE accepted
         /\ tx_pkt_' = IF last THEN tx_pkt_ + 1 ELSE tx_pkt_
  /\ UNCHANGED <<open, target, rx_pkt_, passed>>

\* Mutant: every part is counted.
SendPart_Counted ==
  /\ source.pc = "send"
  /\ source.idx = 1 => Len(wire) + Len(source.buf) <= HighWater
  /\ LET last == source.idx = Len(source.buf)
         part == [msg |-> Len(accepted) + 1, idx |-> source.idx,
                  len |-> source.buf[source.idx], more |-> ~last]
     IN  /\ wire' = IF last THEN wire \o Append(open, part) ELSE wire
         /\ open' = IF last THEN <<>> ELSE Append(open, part)
         /\ source' = IF last THEN Idle ELSE [source EXCEPT !.idx = @ + 1]
         /\ accepted' = IF last THEN Append(accepted, source.buf) ELSE accepted
         /\ tx_pkt_' = tx_pkt_ + 1
  /\ UNCHANGED <<target, rx_pkt_, passed>>

\* ZMQ_SNDMORE on every part but the last, after which the message goes and
\* data_ counts it.
SendPart ==
  /\ source.pc = "send"
  /\ source.idx = 1 => Len(wire) + Len(source.buf) <= HighWater
  /\ LET last == source.idx = Len(source.buf)
         part == [msg |-> Len(accepted) + 1, idx |-> source.idx,
                  len |-> source.buf[source.idx], more |-> ~last]
     IN  \/ /\ ~last
            /\ open' = Append(open, part)
            /\ source' = [source EXCEPT !.idx = @ + 1]
            /\ UNCHANGED <<wire, accepted, tx_pkt_>>
         \/ /\ last
            /\ wire' = wire \o Append(open, part)
            /\ open' = <<>>
            /\ source' = Idle
            /\ accepted' = Append(accepted, source.buf)
            /\ tx_pkt_' = tx_pkt_ + 1
  /\ UNCHANGED <<target, rx_pkt_, passed>>

-----------------------------------------------------------------------------
\* The socket is readable.
on_fd_ ==
  /\ target.pc = "idle"
  /\ wire # <<>>
  /\ target' = [pc |-> "recv", buf |-> <<>>]
  /\ UNCHANGED <<source, open, wire, tx_pkt_, rx_pkt_, accepted, passed>>

\* Mutant: an empty part is left where it is.
RecvFails_Peek ==
  /\ target.pc = "recv"
  /\ wire = <<>> \/ Head(wire).len = 0
  /\ target' = [pc |-> "idle", buf |-> <<>>]
  /\ UNCHANGED <<source, open, wire, tx_pkt_, rx_pkt_, accepted, passed>>

\* An empty part is taken for a failure, and has been read: what was read of
\* the message is cleared, what follows it stays.
RecvFails ==
  /\ target.pc = "recv"
  /\ \/ wire = <<>> /\ UNCHANGED wire
     \/ wire # <<>> /\ Head(wire).len = 0 /\ wire' = Tail(wire)
  /\ target' = [pc |-> "idle", buf |-> <<>>]
  /\ UNCHANGED <<source, open, tx_pkt_, rx_pkt_, accepted, passed>>

\* Mutant: zmq_msg_more is not asked.
RecvPart_NoMore ==
  /\ target.pc = "recv"
  /\ wire # <<>> /\ Head(wire).len > 0
  /\ wire' = Tail(wire)
  /\ passed' = Append(passed, Append(target.buf, Head(wire)))
  /\ rx_pkt_' = rx_pkt_ + 1
  /\ target' = [pc |-> "idle", buf |-> <<>>]
  /\ UNCHANGED <<source, open, tx_pkt_, accepted>>

RecvPart ==
  /\ target.pc = "recv"
  /\ wire # <<>> /\ Head(wire).len > 0
  /\ wire' = Tail(wire)
  /\ \/ /\ Head(wire).more
        /\ target' = [target EXCEPT !.buf = Append(@, Head(wire))]
        /\ UNCHANGED <<rx_pkt_, passed>>
     \/ /\ ~Head(wire).more
        /\ passed' = Append(passed, Append(target.buf, Head(wire)))
        /\ rx_pkt_' = rx_pkt_ + 1
        /\ target' = [pc |-> "idle", buf |-> <<>>]
  /\ UNCHANGED <<source, open, tx_pkt_, accepted>>

-----------------------------------------------------------------------------
\* Nothing more to send, nothing left to read.
Done ==
  /\ source.pc = "idle" /\ Len(accepted) = MaxSent
  /\ target.pc = "idle" /\ wire = <<>>
  /\ UNCHANGED vars

Next ==
  \/ \E buf \in Buffers : data_(buf)
  \/ SendRefused \/ SendPart
  \/ on_fd_ \/ RecvFails \/ RecvPart
  \/ Done

\* fd_poll calls on_fd_ as long as the socket is readable, and loops go on.
Spec == Init /\ [][Next]_vars /\ WF_vars(SendPart) /\ WF_vars(on_fd_ \/ RecvFails \/ RecvPart)

-----------------------------------------------------------------------------
\* What is passed on is what was sent: whole messages, in order, none
\* skipped and none twice ("Receive a ZMQ multi-parts message").
PassedIsSent ==
  /\ Len(passed) <= Len(accepted)
  /\ \A n \in DOMAIN passed : passed[n] = Contents(n)

\* So it is as long as no empty part was sent, refusals notwithstanding.
FullPartsArrive ==
  (\A n \in DOMAIN accepted : 0 \notin ToSet(accepted[n])) => PassedIsSent

\* Whatever the parts, a buffer passed on is the end of one message, later
\* than those passed before: reading is in step again with the next message,
\* and two are never mixed.
PassedIsAnEnd ==
  /\ \A n \in DOMAIN passed :
       passed[n] # <<>> /\ IsSuffix(passed[n], Contents(passed[n][1].msg))
  /\ \A m, n \in DOMAIN passed : m < n => passed[m][1].msg < passed[n][1].msg

\* Once everything is read, the hooks' counters differ by the messages whose
\* last part was empty, no more.
CountsAgree ==
  (wire = <<>> /\ target.pc = "idle") =>
    tx_pkt_ - rx_pkt_ = Cardinality({n \in DOMAIN accepted : Last(accepted[n]) = 0})

\* A message that was not refused is read to its last part.
EveryMessageIsRead ==
  \A n \in 1..MaxSent : (Len(accepted) >= n) ~> (\A i \in DOMAIN wire : wire[i].msg > n)
=============================================================================
