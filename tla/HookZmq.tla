------------------------------- MODULE HookZmq -------------------------------
(***************************************************************************)
(* The life of hook_zmq blocks (block/hook_zmq/src/hook_zmq.cpp): what     *)
(* start_ acquires step by step and may fail to, what stop_ gives back, and*)
(* what data_ does with a socket whatever the state of its hook. The hooks *)
(* of one manager share its thread and its polling set.                    *)
(*                                                                         *)
(* libzmq is external: a context has the sockets made from it, a socket is *)
(* an address that a later socket may be given, a message for a connected  *)
(* peer waits in the socket until the peer takes it, and zmq_ctx_term      *)
(* waits for those messages (ZMQ_LINGER is left at its default).           *)
(***************************************************************************)
EXTENDS Integers, FiniteSets

CONSTANTS
  Hook,        \* the hook_zmq blocks
  Sock,        \* addresses where libzmq can put a socket
  Addr,        \* transport addresses
  nullptr,     \* the null pointer
  unset,       \* what an uninitialised member holds: an arbitrary bad pointer
  MaxPending   \* bound: messages waiting in one socket (ZMQ_SNDHWM)

ASSUME HookAssumption ==
  /\ Addr # {} /\ nullptr \notin Sock \cup Hook \cup Addr
  /\ unset \notin Sock \cup {nullptr}
  /\ MaxPending \in Nat \ {0}

VARIABLES
  is_started_,  \* state of each block, as the manager keeps it
  conf,         \* client_, type_ and addr_ of each hook
  zmq_ctx_,     \* state of the context each hook points to
  zmq_sock_,    \* the socket each hook points to
  sockets,      \* the open sockets: owner, address bound to, messages waiting
  polled,       \* entries of the manager's polling set: socket and block
  closing,      \* the hook whose zmq_ctx_term is in progress, or nullptr
  lingering     \* messages it waits for

vars == <<is_started_, conf, zmq_ctx_, zmq_sock_, sockets, polled, closing, lingering>>

Conf == [client_ : BOOLEAN, type_ : {"DEALER", "PAIR", "ROUTER", "invalid"}, addr_ : Addr]

Socket == [owner : Hook, bound : Addr \cup {nullptr}, connected : BOOLEAN, waiting : 0..MaxPending]

\* The constructor's configuration: a PAIR server on one fixed address.
DefaultConf == [client_ |-> FALSE, type_ |-> "PAIR", addr_ |-> CHOOSE a \in Addr : TRUE]

-----------------------------------------------------------------------------
Init ==
  /\ is_started_ = [h \in Hook |-> FALSE]
  /\ conf = [h \in Hook |-> DefaultConf]
  /\ zmq_ctx_ = [h \in Hook |-> "unset"]
  /\ zmq_sock_ = [h \in Hook |-> unset]
  /\ sockets = [s \in {} |-> nullptr]
  /\ polled = {}
  /\ closing = nullptr
  /\ lingering = 0

\* The thread is not held by zmq_ctx_term.
Free == closing = nullptr

\* trans_pb configures a hook whenever it is told to, started or not.
Configure(h, c) ==
  /\ Free
  /\ conf' = [conf EXCEPT ![h] = c]
  /\ UNCHANGED <<is_started_, zmq_ctx_, zmq_sock_, sockets, polled, closing, lingering>>

\* zmq_socket(zmq_ctx_, type_), at any address that is free.
Open(h, s) ==
  [x \in DOMAIN sockets \cup {s} |->
     IF x = s THEN [owner |-> h, bound |-> nullptr, connected |-> FALSE, waiting |-> 0]
     ELSE sockets[x]]

\* zmq_bind fails on an address another socket is bound to.
InUse(a) == \E s \in DOMAIN sockets : sockets[s].bound = a

\* A message is queued for a connected peer, refused when the queue is full
\* or when no peer ever came to a server.
Accepts(socket) == socket.connected /\ socket.waiting < MaxPending

Queued(socket) ==
  IF Accepts(socket) THEN [socket EXCEPT !.waiting = @ + 1] ELSE socket

\* block_start has set is_started_; start_ returns early at the first call
\* that fails and tells nobody.
Begin(h) ==
  /\ Free
  /\ ~is_started_[h]
  /\ is_started_' = [is_started_ EXCEPT ![h] = TRUE]
  /\ zmq_ctx_' = [zmq_ctx_ EXCEPT ![h] = "open"]

\* zmq_socket returns nullptr: a bad type, or no more sockets.
StartWithoutSocket(h) ==
  /\ Begin(h)
  /\ zmq_sock_' = [zmq_sock_ EXCEPT ![h] = nullptr]
  /\ UNCHANGED <<conf, sockets, polled, closing, lingering>>

\* Mutant: a start_ that fails halfway takes is_started_ back.
StartWithoutAddress_Undone(h) ==
  /\ Free
  /\ ~is_started_[h]
  /\ conf[h].type_ # "invalid"
  /\ zmq_ctx_' = [zmq_ctx_ EXCEPT ![h] = "open"]
  /\ \E s \in Sock \ DOMAIN sockets :
       /\ zmq_sock_' = [zmq_sock_ EXCEPT ![h] = s]
       /\ sockets' = Open(h, s)
  /\ UNCHANGED <<is_started_, conf, polled, closing, lingering>>

\* The identity is refused, or the address is.
StartWithoutAddress(h) ==
  /\ Begin(h)
  /\ conf[h].type_ # "invalid"
  /\ \E s \in Sock \ DOMAIN sockets :
       /\ zmq_sock_' = [zmq_sock_ EXCEPT ![h] = s]
       /\ sockets' = Open(h, s)
  /\ UNCHANGED <<conf, polled, closing, lingering>>

\* fd_add: an entry that is known keeps the block of its first registration.
Registered(s, h) ==
  IF \E e \in polled : e.socket = s THEN polled ELSE polled \cup {[socket |-> s, bk |-> h]}

\* Everything works: the socket is polled, and a DEALER sends its first message.
StartFully(h) ==
  /\ Begin(h)
  /\ conf[h].type_ # "invalid"
  /\ conf[h].client_ \/ ~InUse(conf[h].addr_)
  /\ \E s \in Sock \ DOMAIN sockets :
       LET attached == [Open(h, s)[s] EXCEPT
                          !.bound = IF conf[h].client_ THEN nullptr ELSE conf[h].addr_,
                          !.connected = conf[h].client_]
       IN  /\ zmq_sock_' = [zmq_sock_ EXCEPT ![h] = s]
           /\ sockets' = [Open(h, s) EXCEPT
                            ![s] = IF conf[h].type_ = "DEALER" THEN Queued(attached) ELSE attached]
           /\ polled' = Registered(s, h)
  /\ UNCHANGED <<conf, closing, lingering>>

start_(h) == StartWithoutSocket(h) \/ StartWithoutAddress(h) \/ StartFully(h)

-----------------------------------------------------------------------------
\* Mutant: the socket is left open.
stop__Open(h) ==
  /\ Free
  /\ is_started_[h]
  /\ is_started_' = [is_started_ EXCEPT ![h] = FALSE]
  /\ polled' = {e \in polled : e.socket # zmq_sock_[h]}
  /\ closing' = h
  /\ UNCHANGED <<conf, zmq_ctx_, zmq_sock_, sockets, lingering>>

\* Mutant: the entry of the polling set is left.
stop__Polled(h) ==
  /\ Free
  /\ is_started_[h]
  /\ is_started_' = [is_started_ EXCEPT ![h] = FALSE]
  /\ sockets' = [s \in DOMAIN sockets \ {zmq_sock_[h]} |-> sockets[s]]
  /\ lingering' = IF zmq_sock_[h] \in DOMAIN sockets THEN sockets[zmq_sock_[h]].waiting ELSE 0
  /\ closing' = h
  /\ UNCHANGED <<conf, zmq_ctx_, zmq_sock_, polled>>

\* fd_remove, zmq_close, and zmq_ctx_term begins. zmq_sock_ keeps its value.
stop_(h) ==
  /\ Free
  /\ is_started_[h]
  /\ is_started_' = [is_started_ EXCEPT ![h] = FALSE]
  /\ polled' = {e \in polled : e.socket # zmq_sock_[h]}
  /\ sockets' = [s \in DOMAIN sockets \ {zmq_sock_[h]} |-> sockets[s]]
  /\ lingering' = IF zmq_sock_[h] \in DOMAIN sockets THEN sockets[zmq_sock_[h]].waiting ELSE 0
  /\ closing' = h
  /\ UNCHANGED <<conf, zmq_ctx_, zmq_sock_>>

\* zmq_ctx_term returns once no socket of the context is open and no message waits.
Terminate ==
  /\ ~Free
  /\ lingering = 0
  /\ \A s \in DOMAIN sockets : sockets[s].owner # closing
  /\ zmq_ctx_' = [zmq_ctx_ EXCEPT ![closing] = "terminated"]
  /\ closing' = nullptr
  /\ UNCHANGED <<is_started_, conf, zmq_sock_, sockets, polled, lingering>>

\* Or a signal interrupts it (EINTR), and stop_ does not look at what it
\* returned: the context is lost, with its thread and its messages.
Interrupt ==
  /\ ~Free
  /\ zmq_ctx_' = [zmq_ctx_ EXCEPT ![closing] = "lost"]
  /\ closing' = nullptr
  /\ lingering' = 0
  /\ UNCHANGED <<is_started_, conf, zmq_sock_, sockets, polled>>

-----------------------------------------------------------------------------
\* A flow reaches the hook: send_ uses the socket it points to, whatever the
\* state of the block. That socket can be another hook's. When it is none
\* that is open, libzmq refuses at best; what it does at worst is not followed.
data_(h) ==
  /\ Free
  /\ sockets' = [s \in DOMAIN sockets |->
                   IF s = zmq_sock_[h] THEN Queued(sockets[s]) ELSE sockets[s]]
  /\ UNCHANGED <<is_started_, conf, zmq_ctx_, zmq_sock_, polled, closing, lingering>>

\* A peer comes to a bound socket.
Accept(s) ==
  /\ s \in DOMAIN sockets /\ sockets[s].bound # nullptr /\ ~sockets[s].connected
  /\ sockets' = [sockets EXCEPT ![s].connected = TRUE]
  /\ UNCHANGED <<is_started_, conf, zmq_ctx_, zmq_sock_, polled, closing, lingering>>

\* A peer takes a message of an open socket, or of the one being closed.
Take(s) ==
  /\ s \in DOMAIN sockets /\ sockets[s].waiting > 0
  /\ sockets' = [sockets EXCEPT ![s].waiting = @ - 1]
  /\ UNCHANGED <<is_started_, conf, zmq_ctx_, zmq_sock_, polled, closing, lingering>>

TakeLingering ==
  /\ lingering > 0
  /\ lingering' = lingering - 1
  /\ UNCHANGED <<is_started_, conf, zmq_ctx_, zmq_sock_, sockets, polled, closing>>

-----------------------------------------------------------------------------
Hooks == \E h \in Hook : start_(h) \/ stop_(h) \/ data_(h) \/ \E c \in Conf : Configure(h, c)

Peers == TakeLingering \/ \E s \in Sock : Accept(s) \/ Take(s)

Next == Hooks \/ Terminate \/ Interrupt \/ Peers

\* zmq_ctx_term returns when it can. No peer is obliged to be there.
Spec == Init /\ [][Next]_vars /\ WF_vars(Terminate)

\* With peers that are there and take what they are sent.
SpecWithPeers == Spec /\ WF_vars(TakeLingering)

-----------------------------------------------------------------------------
\* The variables keep their shape.
TypeOK ==
  /\ is_started_ \in [Hook -> BOOLEAN]
  /\ conf \in [Hook -> Conf]
  /\ zmq_ctx_ \in [Hook -> {"unset", "open", "terminated", "lost"}]
  /\ zmq_sock_ \in [Hook -> Sock \cup {nullptr, unset}]
  /\ DOMAIN sockets \subseteq Sock /\ sockets \in [DOMAIN sockets -> Socket]
  /\ polled \subseteq [socket : Sock, bk : Hook]
  /\ closing \in Hook \cup {nullptr}
  /\ lingering \in 0..MaxPending

\* Every open socket has one hook that will close it, however its start_
\* ended: the one that is started and points to it.
SocketsHaveOwners ==
  \A s \in DOMAIN sockets :
    /\ is_started_[sockets[s].owner]
    /\ \A h \in Hook : is_started_[h] /\ zmq_sock_[h] = s <=> h = sockets[s].owner

\* A context is open exactly while its block is started or stop_ is at it:
\* a start_ that failed halfway is undone like another.
ContextsAreReturned ==
  \A h \in Hook : (zmq_ctx_[h] = "open") <=> (is_started_[h] \/ closing = h)

\* What zmq_poll is given is open, and its callback is the hook that owns it.
PolledAreOpen ==
  \A e \in polled : e.socket \in DOMAIN sockets /\ sockets[e.socket].owner = e.bk

\* Where the life of a hook is.
StageOf(h) ==
  IF closing = h THEN "closing" ELSE IF is_started_[h] THEN "started" ELSE "idle"

Service == INSTANCE HookService WITH
             stage <- [h \in Hook |-> StageOf(h)], polled <- {e.bk : e \in polled}

\* Hooks are what their manager takes them for: only its calls move them, each
\* the one it names, although hooks share a polling set, addresses of sockets
\* are used again, and a stray send goes to whatever socket is there.
ImplementsHookService == Service!Spec

\* stop_ gives the thread back to the main loop (under SpecWithPeers: if
\* the peers take what was sent to them).
StopReturns == ~Free ~> Free
=============================================================================
