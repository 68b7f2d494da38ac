-------------------------------- MODULE Proxy --------------------------------
(***************************************************************************)
(* The proxy process (app/src/proxy.cpp): two hook_zmq blocks that main    *)
(* starts and stops itself, and zmq_proxy between their sockets. The       *)
(* handler of SIGINT and SIGTERM does nothing: a signal ends what it       *)
(* interrupts, and only that. HookZmq has the hooks; Ncli has what becomes *)
(* of the messages that the proxy carries.                                 *)
(*                                                                         *)
(* zmq_proxy is external: it waits in zmq_poll for either socket, passes   *)
(* one message to the other, and returns when the wait is interrupted, or  *)
(* at once when it is given a null socket.                                 *)
(***************************************************************************)
EXTENDS Integers

CONSTANTS
  frontend, backend,  \* the two hooks
  Sock, Addr, nullptr, unset, MaxPending   \* see HookZmq

Hook == {frontend, backend}

VARIABLES
  pc,        \* where main is
  signals,   \* history: signals handled: none, one, more
  is_started_, conf, zmq_ctx_, zmq_sock_, sockets, polled, closing, lingering  \* see HookZmq

hookVars == <<is_started_, conf, zmq_ctx_, zmq_sock_, sockets, polled, closing, lingering>>
vars == <<pc, signals, hookVars>>

\* is_started_ is not a member that start_ sets; here it tells that main has
\* called start_ and not yet stop_.
Hooks == INSTANCE HookZmq

ASSUME ProxyAssumption ==
  /\ frontend # backend
  /\ \E a, b \in Addr : a # b
  /\ nullptr \notin Sock \cup Hook \cup Addr
  /\ unset \notin Sock \cup {nullptr}
  /\ MaxPending \in Nat \ {0}

\* The two addresses of main.
FrontAddr == CHOOSE a \in Addr : TRUE
BackAddr == CHOOSE a \in Addr : a # FrontAddr

-----------------------------------------------------------------------------
Init == pc = "set frontend" /\ signals = 0 /\ Hooks!Init

At(here, there) == pc = here /\ pc' = there /\ UNCHANGED signals

\* main before zmq_proxy: start_ tells nobody whether it worked.
SetFrontend ==
  /\ At("set frontend", "start frontend")
  /\ Hooks!Configure(frontend, [client_ |-> FALSE, type_ |-> "ROUTER", addr_ |-> FrontAddr])

StartFrontend == At("start frontend", "set backend") /\ Hooks!start_(frontend)

SetBackend ==
  /\ At("set backend", "start backend")
  /\ Hooks!Configure(backend, [client_ |-> FALSE, type_ |-> "PAIR", addr_ |-> BackAddr])

StartBackend == At("start backend", "zmq_proxy") /\ Hooks!start_(backend)

-----------------------------------------------------------------------------
BothSockets == nullptr \notin {zmq_sock_[frontend], zmq_sock_[backend]}

\* zmq_proxy begins to wait, or returns -1 with EFAULT.
Enter == BothSockets /\ At("zmq_proxy", "poll") /\ UNCHANGED hookVars

Refuse == ~BothSockets /\ At("zmq_proxy", "stop backend") /\ UNCHANGED hookVars

\* A peer of h has sent something.
Wake(h) ==
  /\ At("poll", IF h = frontend THEN "to backend" ELSE "to frontend")
  /\ sockets[zmq_sock_[h]].connected
  /\ UNCHANGED hookVars

\* Mutant: one message, and no loop.
Relay_Once ==
  \/ At("to backend", "stop backend") /\ Hooks!data_(backend)
  \/ At("to frontend", "stop backend") /\ Hooks!data_(frontend)

\* The message is queued if the other socket has a peer and room for it. If not,
\* the ROUTER drops it, and the PAIR leaves it where it waits, to be passed later;
\* either way no socket holds more than before.
Relay ==
  \/ At("to backend", "poll") /\ Hooks!data_(backend)
  \/ At("to frontend", "poll") /\ Hooks!data_(frontend)

\* Mutant: the frontend is not stopped.
StopBackend_Only == At("stop backend", "leave") /\ Hooks!stop_(backend)

StopBackend == At("stop backend", "stop frontend") /\ Hooks!stop_(backend)

StopFrontend == At("stop frontend", "leave") /\ Hooks!stop_(frontend)

Leave == Hooks!Free /\ At("leave", "returned") /\ UNCHANGED hookVars

\* zmq_ctx_term, in stop_.
Terminate == Hooks!Terminate /\ UNCHANGED <<pc, signals>>

-----------------------------------------------------------------------------
Counted == signals' = IF signals = 2 THEN 2 ELSE signals + 1

\* Mutant: zmq_proxy goes on after a signal.
SignalWait_Again == pc = "poll" /\ Counted /\ UNCHANGED <<pc, hookVars>>

\* The signal interrupts zmq_poll: zmq_proxy returns.
SignalWait == pc = "poll" /\ pc' = "stop backend" /\ Counted /\ UNCHANGED hookVars

\* It interrupts zmq_ctx_term: stop_ goes on, and the context is lost.
SignalClosing == Hooks!Interrupt /\ Counted /\ UNCHANGED pc

\* Anywhere else it changes nothing.
SignalUnseen ==
  /\ pc \notin {"poll", "returned"} /\ Hooks!Free
  /\ Counted
  /\ UNCHANGED <<pc, hookVars>>

\* Peers come and take messages.
Peers == Hooks!Peers /\ UNCHANGED <<pc, signals>>

-----------------------------------------------------------------------------
Main ==
  \/ SetFrontend \/ StartFrontend \/ SetBackend \/ StartBackend
  \/ Enter \/ Refuse \/ Relay
  \/ StopBackend \/ StopFrontend \/ Leave \/ Terminate

Returned == pc = "returned" /\ UNCHANGED vars

Next ==
  \/ Main \/ (\E h \in Hook : Wake(h))
  \/ SignalWait \/ SignalClosing \/ SignalUnseen
  \/ Peers \/ Returned

\* main goes on where it does not wait. Nobody is obliged to send anything.
Spec == Init /\ [][Next]_vars /\ WF_vars(Main)

\* With an administrator who signals until the process is gone. A signal
\* sent again and again comes during a wait in the end.
SpecWithOperator == Spec /\ SF_vars(SignalWait) /\ SF_vars(SignalClosing)

-----------------------------------------------------------------------------
\* When main returns, its sockets are closed and no context is open, whichever
\* call of start_ failed and whatever signals came (proxy.cpp:57-58).
AllGivenBack ==
  pc = "returned" =>
    /\ DOMAIN sockets = {} /\ polled = {}
    /\ \A h \in Hook : zmq_ctx_[h] \in {"terminated", "lost"}

\* One signal ends zmq_proxy and costs no context: only another one, while main
\* stops the hooks, can, and with the context what it still has to send. Of
\* messages that are relayed, or dropped, it says nothing.
OneSignalKeepsContexts ==
  (signals <= 1 /\ BothSockets) => \A h \in Hook : zmq_ctx_[h] # "lost"

\* Signals end the process at last, even when messages were relayed for ever
\* and no peer takes what is queued (under SpecWithOperator).
SignalsEndIt == (pc = "poll") ~> (pc = "returned")
=============================================================================
