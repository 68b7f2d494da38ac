-------------------------------- MODULE C3qo --------------------------------
(***************************************************************************)
(* The c3qo application (app/src/c3qo.cpp): main sets up a control hook -1 *)
(* and a transcoder -2 bound to each other, then polls until TERM or a     *)
(* signal, and the destructor of the manager takes everything down.        *)
(*                                                                         *)
(* This is where the parts meet. The registry is taken at its word         *)
(* (BlockRegistry, which ManagerBk implements), the walk of fd_poll keeps  *)
(* from ManagerFd what a callback can do to it, in whatever order entries  *)
(* were registered, and a hook is what HookZmq says of its polling entry.  *)
(* Commands run inside the walk, so starting or stopping a hook changes    *)
(* the set being walked.                                                   *)
(*                                                                         *)
(* Users leave -1 and -2 alone, send TERM to -2 only and follow the rules  *)
(* of BlockFlow: what flows between their own blocks then ends and is not  *)
(* followed here, except that commands may be executed by transcoders of   *)
(* theirs. The peers of their hooks take what they are sent. None of these *)
(* blocks uses timers. A signal before main has set its handlers up kills  *)
(* the process, and is left out.                                           *)
(***************************************************************************)
EXTENDS Integers, Sequences

CONSTANTS
  UserId,      \* identifiers of the blocks that commands create
  HighWater,   \* answers that the queue of the control hook holds (ZMQ_SNDHWM)
  MaxWaiting   \* bound: messages that wait for the control hook

ASSUME UserAssumption ==
  UserId \subseteq Nat /\ HighWater \in Nat \ {0} /\ MaxWaiting \in Nat

VARIABLES
  pc,                   \* where main is
  status,               \* stage of each block, as in BlockRegistry
  hooks,                \* blocks of type hook_zmq
  polled,               \* blocks registered in the polling set
  walk,                 \* signalled entries that fd_poll has yet to call
  is_term_,             \* set by a TERM command
  end_signal_received,  \* set by the signal handler
  inbox,                \* messages that wait in the control hook
  outbox                \* answers it has not sent yet

registry == <<status, hooks, polled>>
stops == <<is_term_, end_signal_received>>
vars == <<pc, registry, walk, stops, inbox, outbox>>

Control == -1
Transcoder == -2
Id == {Control, Transcoder} \cup UserId

Request == [type : {"other", "term", "junk"}, run : {0}]
Message == [from : {"c3qo"}, status : {"dummy", "OK", "KO"}, run : {0}]

PeerState ==
  IF pc = "undefined" THEN "undefined"
  ELSE IF status[Control] # "started" THEN "down"
  ELSE IF is_term_ THEN "leaving"
  ELSE IF Control \in polled THEN "up" ELSE "deaf"

Contract == INSTANCE CommandPeer
              WITH Peer <- {"c3qo"},
                   state <- [p \in {"c3qo"} |-> PeerState],
                   signalled <- {p \in {"c3qo"} : end_signal_received},
                   inbox <- [p \in {"c3qo"} |-> inbox],
                   outbox <- [p \in {"c3qo"} |-> outbox]

-----------------------------------------------------------------------------
Init ==
  /\ pc = "off"
  /\ status = [id \in Id |-> "absent"] /\ hooks = {} /\ polled = {}
  /\ walk = {}
  /\ is_term_ = FALSE /\ end_signal_received = FALSE
  /\ inbox = <<>> /\ outbox = <<>>

\* main up to its loop. The start_ of the hook may fail, and main goes on:
\* it polls nothing, and no command can reach it.
Start ==
  /\ pc = "off"
  /\ pc' = "loop"
  /\ status' = [id \in Id |-> IF id \in UserId THEN "absent" ELSE "started"]
  /\ hooks' = {Control}
  /\ \/ polled' = {Control} /\ outbox' = <<Contract!Dummy("c3qo")>>
     \/ polled' = {} /\ outbox' = <<>>
  /\ UNCHANGED <<walk, stops, inbox>>

\* Mutant: the loop looks at one flag only.
Test_Term ==
  /\ pc = "loop"
  /\ pc' = IF is_term_ THEN "clear" ELSE "poll"
  /\ UNCHANGED <<registry, walk, stops, inbox, outbox>>

\* The test of the main loop. What the flags become after it is seen by the
\* next one.
Test ==
  /\ pc = "loop"
  /\ pc' = IF end_signal_received \/ is_term_ THEN "clear" ELSE "poll"
  /\ UNCHANGED <<registry, walk, stops, inbox, outbox>>

\* zmq_poll signals the control hook exactly when a message waits for it, and
\* others as it happens.
fd_poll ==
  /\ pc = "poll"
  /\ walk' \in SUBSET polled
  /\ Control \in walk' <=> Control \in polled /\ inbox # <<>>
  /\ pc' = IF walk' = {} THEN "timers" ELSE "walk"
  /\ UNCHANGED <<registry, stops, inbox, outbox>>

\* A signal interrupts zmq_poll.
fd_poll_fails ==
  /\ pc = "poll" /\ end_signal_received
  /\ pc' = "timers"
  /\ UNCHANGED <<registry, walk, stops, inbox, outbox>>

\* After a callback: the break when it was the last one signalled, else
\* the iterators are stepped, which is undefined once the set has changed.
Advance(id) ==
  /\ walk' = walk \ {id}
  /\ pc' = IF walk' = {} THEN "timers" ELSE IF polled' # polled THEN "undefined" ELSE "walk"

-----------------------------------------------------------------------------
\* What a command does to the blocks of users, and whether it is "OK".
Stage(id, stage) == status' = [status EXCEPT ![id] = stage]

Add(id, ok) ==
  /\ status[id] = "absent"
  /\ ok = "OK"
  /\ Stage(id, "stopped")
  /\ hooks' \in {hooks, hooks \cup {id}}
  /\ UNCHANGED polled

\* start_ of a hook registers its socket, unless it fails before.
StartBlock(id, ok) ==
  /\ status[id] # "absent"
  /\ ok = "OK"
  /\ Stage(id, "started")
  /\ \/ UNCHANGED polled
     \/ status[id] = "stopped" /\ id \in hooks /\ polled' = polled \cup {id}
  /\ UNCHANGED hooks

\* Mutant: stop_ of a hook leaves its entry.
StopBlock_Polled(id, ok) ==
  /\ status[id] # "absent"
  /\ ok = "OK"
  /\ Stage(id, "stopped")
  /\ UNCHANGED <<hooks, polled>>

StopBlock(id, ok) ==
  /\ status[id] # "absent"
  /\ ok = "OK"
  /\ Stage(id, "stopped")
  /\ polled' = polled \ {id}
  /\ UNCHANGED hooks

Del(id, ok) ==
  /\ status[id] = "stopped"
  /\ ok = "OK"
  /\ Stage(id, "absent")
  /\ hooks' = hooks \ {id}
  /\ UNCHANGED polled

\* Binding, configuration of a hook, and every refusal.
Rest(ok) == ok \in {"OK", "KO"} /\ UNCHANGED registry

Execute(ok) ==
  \/ \E id \in UserId : Add(id, ok) \/ StartBlock(id, ok) \/ StopBlock(id, ok) \/ Del(id, ok)
  \/ Rest(ok)

\* A hook of a user is called back. It may lead to a transcoder of the user,
\* which executes a command.
CallUser(id) ==
  /\ pc = "walk" /\ id \in walk \ {Control}
  /\ \E ok \in {"OK", "KO"} : Execute(ok)
  /\ UNCHANGED <<stops, inbox, outbox>>
  /\ Advance(id)

\* send_ of the control hook does not wait: a full queue refuses the message,
\* data_ returns false, and trans_pb does not look.
Sent(message) == IF Len(outbox) < HighWater THEN Append(outbox, message) ELSE outbox

\* Mutant: TERM does not send a reply.
CallControl_NoReply ==
  /\ pc = "walk" /\ Control \in walk
  /\ LET request == Head(inbox)
     IN  \/ /\ request.type = "junk"
            /\ UNCHANGED <<registry, is_term_, outbox>>
         \/ /\ request.type = "term"
            /\ is_term_' = TRUE
            /\ UNCHANGED <<registry, outbox>>
         \/ /\ request.type = "other"
            /\ \E ok \in {"OK", "KO"} :
                 Execute(ok) /\ outbox' = Sent(Contract!Answer("c3qo", request, ok))
            /\ UNCHANGED is_term_
  /\ inbox' = Tail(inbox)
  /\ UNCHANGED end_signal_received
  /\ Advance(Control)

\* on_fd_ of the control hook reads one message; the transcoder executes it
\* if it is a command and replies through the hook, which may refuse.
CallControl ==
  /\ pc = "walk" /\ Control \in walk
  /\ LET request == Head(inbox)
         Reply(ok) == outbox' = Sent(Contract!Answer("c3qo", request, ok))
     IN  \/ /\ request.type = "junk"
            /\ UNCHANGED <<registry, is_term_, outbox>>
         \/ /\ request.type = "term"
            /\ is_term_' = TRUE /\ Reply("OK")
            /\ UNCHANGED registry
         \/ /\ request.type = "other"
            /\ \E ok \in {"OK", "KO"} : Execute(ok) /\ Reply(ok)
            /\ UNCHANGED is_term_
  /\ inbox' = Tail(inbox)
  /\ UNCHANGED end_signal_received
  /\ Advance(Control)

\* timer_check_exp finds no timer.
timer_check_exp ==
  /\ pc = "timers"
  /\ pc' = "loop"
  /\ UNCHANGED <<registry, walk, stops, inbox, outbox>>

-----------------------------------------------------------------------------
\* Mutant: block_clear leaves the polling entries to the kernel.
ClearBlock_Polled(id) ==
  /\ pc = "clear" /\ status[id] # "absent"
  /\ IF id = Control
     THEN /\ Stage(id, "stopped")
          /\ inbox' = <<>>
          /\ pc' = "linger"
          /\ UNCHANGED hooks
     ELSE /\ Stage(id, "absent")
          /\ hooks' = hooks \ {id}
          /\ UNCHANGED <<inbox, pc>>
  /\ UNCHANGED <<polled, walk, stops, outbox>>

\* ~manager: block_clear takes the blocks down in any order. Closing the
\* control hook loses what it has not read, then waits until what it has
\* answered is taken.
ClearBlock(id) ==
  /\ pc = "clear" /\ status[id] # "absent"
  /\ polled' = polled \ {id}
  /\ IF id = Control
     THEN /\ Stage(id, "stopped")
          /\ inbox' = <<>>
          /\ pc' = "linger"
          /\ UNCHANGED hooks
     ELSE /\ Stage(id, "absent")
          /\ hooks' = hooks \ {id}
          /\ UNCHANGED <<inbox, pc>>
  /\ UNCHANGED <<walk, stops, outbox>>

\* zmq_ctx_term has returned, and the hook is deleted.
DeleteControl ==
  /\ pc' = "clear"
  /\ Stage(Control, "absent")
  /\ hooks' = hooks \ {Control}
  /\ UNCHANGED <<polled, walk, is_term_, inbox>>

\* Mutant: the answers that wait are dropped (ZMQ_LINGER at zero).
Terminate_NoLinger ==
  /\ pc = "linger"
  /\ DeleteControl
  /\ outbox' = <<>>
  /\ UNCHANGED end_signal_received

Terminate ==
  /\ pc = "linger" /\ outbox = <<>>
  /\ DeleteControl
  /\ UNCHANGED <<end_signal_received, outbox>>

\* main returns.
End ==
  /\ pc = "clear" /\ \A id \in Id : status[id] = "absent"
  /\ pc' = "ended"
  /\ UNCHANGED <<registry, walk, stops, inbox, outbox>>

\* The handler sets a flag. A signal also interrupts zmq_ctx_term, and what
\* waited is lost with the process.
Signal ==
  /\ pc \notin {"off", "ended", "undefined"}
  /\ end_signal_received' = TRUE
  /\ \/ pc # "linger" /\ UNCHANGED <<pc, registry, walk, is_term_, inbox, outbox>>
     \/ pc = "linger" /\ outbox' = <<>> /\ DeleteControl

\* The proxy sends messages to the process once it knows it, and takes answers.
Receive(request) ==
  /\ PeerState \in {"up", "leaving"}
  /\ Len(inbox) < MaxWaiting
  /\ inbox' = Append(inbox, request)
  /\ UNCHANGED <<pc, registry, walk, stops, outbox>>

Take ==
  /\ outbox # <<>> /\ pc # "undefined"
  /\ outbox' = Tail(outbox)
  /\ UNCHANGED <<pc, registry, walk, stops, inbox>>

\* The process is no more, or nothing more can be said of it.
Over == pc \in {"ended", "undefined"} /\ UNCHANGED vars

-----------------------------------------------------------------------------
Main ==
  \/ Test \/ fd_poll \/ fd_poll_fails \/ CallControl \/ timer_check_exp \/ Terminate \/ End
  \/ \E id \in Id : CallUser(id) \/ ClearBlock(id)

Next == Start \/ Main \/ Signal \/ Take \/ Over \/ \E request \in Request : Receive(request)

\* main goes on once it runs, and the proxy takes what it is sent.
Spec == Init /\ [][Next]_vars /\ WF_vars(Main) /\ WF_vars(Take)

-----------------------------------------------------------------------------
\* The variables keep their shape.
TypeOK ==
  /\ pc \in {"off", "loop", "poll", "walk", "timers", "clear", "linger", "ended", "undefined"}
  /\ status \in [Id -> {"absent", "stopped", "started"}]
  /\ hooks \subseteq Id
  /\ polled \subseteq Id /\ walk \subseteq Id
  /\ is_term_ \in BOOLEAN /\ end_signal_received \in BOOLEAN
  /\ inbox \in Seq(Request) /\ outbox \in Seq(Message)
  /\ Len(inbox) <= MaxWaiting /\ Len(outbox) <= HighWater

\* Whatever commands ran in the middle of a walk, each callback that the
\* polling set holds is that of a started hook. So is each one that the walk
\* has still to call as long as it is defined: a command that changes the set
\* with others left to call makes it undefined, which ManagerFd is about.
PolledAreLive ==
  pc # "undefined" =>
    /\ \A id \in polled : id \in hooks /\ status[id] = "started"
    /\ pc = "walk" => walk # {} /\ walk \subseteq polled

\* When main returns, the blocks, entries and answers of the process are all
\* gone, queued answers by being taken unless a signal came.
AllGivenBack ==
  pc = "ended" =>
    /\ \A id \in Id : status[id] = "absent"
    /\ polled = {} /\ hooks = {} /\ outbox = <<>>

\* main with its blocks is what clients may rely on: commands are answered in
\* order and once at most, none goes without an answer unless its queue was
\* full, none is executed after TERM, and the process leaves for no other
\* reason than TERM or a signal. A process whose walk became undefined is
\* excepted, by the contract itself: it is "undefined" for its clients, from
\* a command on that is not TERM, and nothing is promised of it any more.
ImplementsContract ==
  Contract!PeerInit /\ [][Contract!PeerNext(Request)]_(Contract!peerVars)

\* A signal and a TERM command end the process, whatever else happens, if
\* the walk stays defined: both are seen by the loop, and the destructor ends.
ProcessEnds ==
  (end_signal_received \/ is_term_) ~> (pc \in {"ended", "undefined"})
=============================================================================
