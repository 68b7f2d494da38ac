----------------------------- MODULE CommandPeer -----------------------------
(***************************************************************************)
(* What c3qo processes promise to whoever sends them commands through the  *)
(* proxy: a command taken is answered in order and once at most, and only  *)
(* a full queue refuses an answer, TERM's like another; a process leaves   *)
(* only when TERM or a signal told it to, takes nothing after TERM, and    *)
(* loses what it has queued only to a signal. None of it holds any more of *)
(* a process whose walk of the polling set became undefined: that state is *)
(* part of the contract, and ends it. There are no blocks, sockets or      *)
(* polling here: C3qo implements it, and Ncli is the client of it.         *)
(***************************************************************************)
EXTENDS Naturals, Sequences

CONSTANTS
  Peer,      \* identities of the processes
  HighWater  \* messages that a queue takes for sure (ZMQ_SNDHWM)

ASSUME HighWaterAssumption == HighWater \in Nat \ {0}

VARIABLES
  state,      \* "down", "up", "deaf" (started without its hook), "leaving", "undefined"
  signalled,  \* processes that a signal reached
  inbox,      \* messages that wait for each process
  outbox      \* messages that each process sent towards the clients

peerVars == <<state, signalled, inbox, outbox>>

IsCommand(request) == request.type # "junk"

\* What registers an identity with the proxy. No command is answered by it.
Dummy(p) == [from |-> p, status |-> "dummy", run |-> 0]

\* run is history: no process knows from which run of a client a command came.
Answer(p, request, status) == [from |-> p, status |-> status, run |-> request.run]

PeerInit ==
  /\ state = [p \in Peer |-> "down"]
  /\ signalled = {}
  /\ inbox = [p \in Peer |-> <<>>]
  /\ outbox = [p \in Peer |-> <<>>]

Start(p) ==
  /\ state[p] = "down"
  /\ signalled' = signalled \ {p}
  /\ \/ /\ state' = [state EXCEPT ![p] = "up"]
        /\ outbox' = [outbox EXCEPT ![p] = Append(@, Dummy(p))]
     \/ state' = [state EXCEPT ![p] = "deaf"] /\ UNCHANGED outbox
  /\ UNCHANGED inbox

\* The reply of trans_pb goes through send_ of the hook, which does not wait:
\* a full queue refuses it, and trans_pb does not look.
Replied(p, message) ==
  \/ outbox' = [outbox EXCEPT ![p] = Append(@, message)]
  \/ Len(outbox[p]) >= HighWater /\ UNCHANGED outbox

\* A command other than TERM may change the polling set under the walk that
\* called it.
Serve(p, status) ==
  /\ state[p] = "up" /\ inbox[p] # <<>>
  /\ LET request == Head(inbox[p])
     IN  /\ IsCommand(request)
         /\ request.type = "term" => status = "OK"
         /\ Replied(p, Answer(p, request, status))
         /\ \E next \in IF request.type = "term" THEN {"leaving"} ELSE {"up", "undefined"} :
              state' = [state EXCEPT ![p] = next]
  /\ inbox' = [inbox EXCEPT ![p] = Tail(@)]
  /\ UNCHANGED signalled

\* So may one that came to a hook of the user's. A deaf process has none.
Break(p) ==
  /\ state[p] \in {"up", "leaving"}
  /\ state' = [state EXCEPT ![p] = "undefined"]
  /\ UNCHANGED <<signalled, inbox, outbox>>

\* What is not a command is dropped without an answer.
Discard(p) ==
  /\ state[p] = "up" /\ inbox[p] # <<>> /\ ~IsCommand(Head(inbox[p]))
  /\ inbox' = [inbox EXCEPT ![p] = Tail(@)]
  /\ UNCHANGED <<state, signalled, outbox>>

Running(p) == state[p] \in {"up", "deaf", "leaving"}

Signal(p) ==
  /\ Running(p)
  /\ signalled' = signalled \cup {p}
  /\ UNCHANGED <<state, inbox, outbox>>

\* The messages that wait for it are lost, the answers it has queued are not.
Close(p) ==
  /\ Running(p) /\ (state[p] = "leaving" \/ p \in signalled)
  /\ state' = [state EXCEPT ![p] = "down"]
  /\ inbox' = [inbox EXCEPT ![p] = <<>>]
  /\ UNCHANGED <<signalled, outbox>>

\* A signal that finds a process waiting for its answers to be taken.
LoseAnswers(p) ==
  /\ state[p] = "down"
  /\ signalled' = signalled \cup {p}
  /\ outbox' = [outbox EXCEPT ![p] = <<>>]
  /\ UNCHANGED <<state, inbox>>

\* What others do: messages come to a process that is there, and are taken.
Receive(p, request) ==
  /\ state[p] \in {"up", "leaving"}
  /\ inbox' = [inbox EXCEPT ![p] = Append(@, request)]
  /\ UNCHANGED <<state, signalled, outbox>>

Take(p) ==
  /\ outbox[p] # <<>>
  /\ outbox' = [outbox EXCEPT ![p] = Tail(@)]
  /\ UNCHANGED <<state, signalled, inbox>>

\* The steps of one process.
Life(p) ==
  \/ Start(p) \/ Discard(p) \/ Break(p) \/ Signal(p) \/ Close(p) \/ LoseAnswers(p)
  \/ \E status \in {"OK", "KO"} : Serve(p, status)

PeerNext(requests) ==
  \E p \in Peer : Life(p) \/ Take(p) \/ \E request \in requests : Receive(p, request)
=============================================================================
