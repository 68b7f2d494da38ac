---------------------------- MODULE HookZmqProofs ----------------------------
(***************************************************************************)
(* Proofs about HookZmq, for any number of hooks, sockets and addresses.   *)
(* The strengthening is Inv: besides the four invariants that the runs     *)
(* check, a started hook points to no closed socket, and the thread is held*)
(* for a hook that is stopped. What ties them together is that a start_,   *)
(* however it ends, gives its hook an address that no open socket has, and *)
(* that stop_ takes away exactly the socket and the entry that its own     *)
(* start_ had given.                                                       *)
(***************************************************************************)
EXTENDS HookZmq, TLAPS

\* Only a hook that is stopped is being closed.
ClosingIsStopped == closing # nullptr => ~is_started_[closing]

\* A started hook points to a socket that is open, or to none: never to the
\* address of one that was closed.
StartedPointsToOpen ==
  \A h \in Hook : is_started_[h] => zmq_sock_[h] \in DOMAIN sockets \cup {nullptr}

Inv ==
  /\ TypeOK
  /\ SocketsHaveOwners
  /\ ContextsAreReturned
  /\ PolledAreOpen
  /\ ClosingIsStopped
  /\ StartedPointsToOpen

-----------------------------------------------------------------------------
LEMMA InitInv == Init => Inv
<1> SUFFICES ASSUME Init PROVE Inv
  OBVIOUS
<1>1. DefaultConf \in Conf
  BY HookAssumption DEF DefaultConf, Conf
<1>2. TypeOK
  BY <1>1, HookAssumption DEF Init, TypeOK, Socket
<1>3. /\ SocketsHaveOwners /\ ContextsAreReturned /\ PolledAreOpen
      /\ ClosingIsStopped /\ StartedPointsToOpen
  BY HookAssumption DEF Init, SocketsHaveOwners, ContextsAreReturned, PolledAreOpen,
                        ClosingIsStopped, StartedPointsToOpen
<1> QED BY <1>2, <1>3 DEF Inv

\* Whatever becomes of a queue, the socket stays whose it is.
LEMMA QueuedKeeps ==
  ASSUME NEW socket \in Socket
  PROVE  /\ Queued(socket) \in Socket
         /\ Queued(socket).owner = socket.owner
  BY HookAssumption DEF Queued, Accepts, Socket

\* A new socket, once it is bound or connected.
LEMMA AttachedIsSocket ==
  ASSUME NEW h \in Hook, NEW b \in Addr \cup {nullptr}, NEW c \in BOOLEAN, NEW socket,
         socket = [owner |-> h, bound |-> nullptr, connected |-> FALSE, waiting |-> 0]
  PROVE  LET attached == [socket EXCEPT !.bound = b, !.connected = c]
         IN  attached \in Socket /\ attached.owner = h
<1>1. socket \in Socket /\ socket.owner = h
  BY HookAssumption DEF Socket
<1>2. [socket EXCEPT !.bound = b] \in Socket /\ [socket EXCEPT !.bound = b].owner = h
  BY <1>1 DEF Socket
<1> QED BY <1>1, <1>2 DEF Socket

\* A step that only changes what is in the sockets keeps the invariant.
LEMMA TrafficInv ==
  ASSUME Inv, UNCHANGED <<is_started_, conf, zmq_ctx_, zmq_sock_, polled, closing>>,
         lingering' \in 0..MaxPending,
         DOMAIN sockets' = DOMAIN sockets,
         sockets' \in [DOMAIN sockets -> Socket],
         \A s \in DOMAIN sockets : sockets'[s].owner = sockets[s].owner
  PROVE  Inv'
<1>1. TypeOK'
  BY DEF Inv, TypeOK
<1>2. /\ SocketsHaveOwners' /\ ContextsAreReturned' /\ PolledAreOpen'
      /\ ClosingIsStopped' /\ StartedPointsToOpen'
  BY DEF Inv, SocketsHaveOwners, ContextsAreReturned, PolledAreOpen,
         ClosingIsStopped, StartedPointsToOpen
<1> QED BY <1>1, <1>2 DEF Inv

\* start_ takes an address that no open socket has, or none. The old pointer
\* of the hook is then of no use to anyone.
LEMMA StartInv ==
  ASSUME Inv, NEW h \in Hook, start_(h)
  PROVE  Inv'
<1>1. TypeOK /\ Free /\ ~is_started_[h]
  BY DEF Inv, start_, StartWithoutSocket, StartWithoutAddress, StartFully, Begin
<1>2. /\ is_started_' = [is_started_ EXCEPT ![h] = TRUE]
      /\ zmq_ctx_' = [zmq_ctx_ EXCEPT ![h] = "open"]
      /\ UNCHANGED <<conf, closing, lingering>>
  BY DEF start_, StartWithoutSocket, StartWithoutAddress, StartFully, Begin
<1>3. ContextsAreReturned' /\ ClosingIsStopped'
  <2>1. closing = nullptr
    BY <1>1 DEF Free
  <2> QED BY <1>1, <1>2, <2>1, HookAssumption
          DEF Inv, TypeOK, ContextsAreReturned, ClosingIsStopped
<1>4. \A s \in DOMAIN sockets : sockets[s].owner # h
  BY <1>1 DEF Inv, SocketsHaveOwners
<1>5. CASE StartWithoutSocket(h)
  <2>1. zmq_sock_' = [zmq_sock_ EXCEPT ![h] = nullptr] /\ UNCHANGED <<sockets, polled>>
    BY <1>5 DEF StartWithoutSocket
  <2>2. TypeOK'
    BY <1>1, <1>2, <2>1 DEF TypeOK
  <2>3. SocketsHaveOwners'
    <3>1. DOMAIN sockets \subseteq Sock
      BY <1>1 DEF TypeOK
    <3> QED BY <1>1, <1>2, <1>4, <2>1, <3>1, HookAssumption DEF Inv, TypeOK, SocketsHaveOwners
  <2>4. PolledAreOpen'
    BY <2>1 DEF Inv, PolledAreOpen
  <2>5. StartedPointsToOpen'
    BY <1>1, <1>2, <2>1 DEF Inv, TypeOK, StartedPointsToOpen
  <2> QED BY <1>3, <2>2, <2>3, <2>4, <2>5 DEF Inv
<1>6. ASSUME NEW s \in Sock \ DOMAIN sockets, NEW socket \in Socket, socket.owner = h,
             zmq_sock_' = [zmq_sock_ EXCEPT ![h] = s],
             sockets' = [x \in DOMAIN sockets \cup {s} |-> IF x = s THEN socket ELSE sockets[x]],
             polled' \in {polled, polled \cup {[socket |-> s, bk |-> h]}}
      PROVE  Inv'
  <2>1. TypeOK'
    BY <1>1, <1>2, <1>6 DEF TypeOK
  <2>2. SocketsHaveOwners'
    <3> SUFFICES ASSUME NEW x \in DOMAIN sockets'
                 PROVE  /\ is_started_'[sockets'[x].owner]
                        /\ \A g \in Hook : is_started_'[g] /\ zmq_sock_'[g] = x
                                             <=> g = sockets'[x].owner
      BY DEF SocketsHaveOwners
    <3>1. CASE x = s
      <4>1. ASSUME NEW g \in Hook, g # h, is_started_[g] PROVE zmq_sock_[g] # s
        BY <1>6, <4>1, HookAssumption DEF Inv, StartedPointsToOpen
      <4> QED BY <1>1, <1>2, <1>6, <3>1, <4>1 DEF TypeOK
    <3>2. CASE x # s
      <4>1. x \in DOMAIN sockets /\ sockets'[x] = sockets[x] /\ sockets[x].owner # h
        BY <1>4, <1>6, <3>2
      <4> QED BY <1>1, <1>2, <1>6, <3>2, <4>1 DEF Inv, TypeOK, SocketsHaveOwners
    <3> QED BY <3>1, <3>2
  <2>3. PolledAreOpen'
    BY <1>6 DEF Inv, PolledAreOpen
  <2>4. StartedPointsToOpen'
    BY <1>1, <1>2, <1>6 DEF Inv, TypeOK, StartedPointsToOpen
  <2> QED BY <1>3, <2>1, <2>2, <2>3, <2>4 DEF Inv
<1>7. CASE StartWithoutAddress(h)
  <2>1. PICK s \in Sock \ DOMAIN sockets :
          zmq_sock_' = [zmq_sock_ EXCEPT ![h] = s] /\ sockets' = Open(h, s)
    BY <1>7 DEF StartWithoutAddress
  <2> DEFINE socket == [owner |-> h, bound |-> nullptr, connected |-> FALSE, waiting |-> 0]
  <2>2. socket \in Socket /\ socket.owner = h
    BY HookAssumption DEF Socket
  <2>3. sockets' = [x \in DOMAIN sockets \cup {s} |-> IF x = s THEN socket ELSE sockets[x]]
    BY <2>1 DEF Open
  <2>4. polled' = polled
    BY <1>7 DEF StartWithoutAddress
  <2> HIDE DEF socket
  <2> QED BY <1>6, <2>1, <2>2, <2>3, <2>4
<1>8. CASE StartFully(h)
  <2> DEFINE attached(s) ==
        [Open(h, s)[s] EXCEPT !.bound = IF conf[h].client_ THEN nullptr ELSE conf[h].addr_,
                              !.connected = conf[h].client_]
             socket(s) == IF conf[h].type_ = "DEALER" THEN Queued(attached(s)) ELSE attached(s)
  <2>1. PICK s \in Sock \ DOMAIN sockets :
          /\ zmq_sock_' = [zmq_sock_ EXCEPT ![h] = s]
          /\ sockets' = [Open(h, s) EXCEPT ![s] = socket(s)]
          /\ polled' = Registered(s, h)
    BY <1>8 DEF StartFully
  <2>2. conf[h] \in Conf
    BY <1>1 DEF TypeOK
  <2>3. Open(h, s)[s] = [owner |-> h, bound |-> nullptr, connected |-> FALSE, waiting |-> 0]
    BY DEF Open
  <2>4. attached(s) \in Socket /\ attached(s).owner = h
    <3> DEFINE bound == IF conf[h].client_ THEN nullptr ELSE conf[h].addr_
    <3>1. conf[h].client_ \in BOOLEAN /\ bound \in Addr \cup {nullptr}
      BY <2>2 DEF Conf
    <3> HIDE DEF bound
    <3>2. LET a == [Open(h, s)[s] EXCEPT !.bound = bound, !.connected = conf[h].client_]
          IN  a \in Socket /\ a.owner = h
      BY <2>3, <3>1, AttachedIsSocket
    <3> QED BY <3>2 DEF bound
  <2> HIDE DEF attached
  <2>5. socket(s) \in Socket /\ socket(s).owner = h
    BY <2>4, QueuedKeeps
  <2> HIDE DEF socket
  <2>6. sockets' = [x \in DOMAIN sockets \cup {s} |-> IF x = s THEN socket(s) ELSE sockets[x]]
    BY <2>1 DEF Open
  <2>7. polled' \in {polled, polled \cup {[socket |-> s, bk |-> h]}}
    BY <2>1 DEF Registered
  <2> QED BY <1>6, <2>1, <2>5, <2>6, <2>7
<1> QED BY <1>5, <1>7, <1>8 DEF start_

\* stop_ takes away the socket of its hook and the entry of that socket, and
\* no other's: two started hooks never point to the same socket.
LEMMA StopInv ==
  ASSUME Inv, NEW h \in Hook, stop_(h)
  PROVE  Inv'
<1> DEFINE sock == zmq_sock_[h]
<1>1. /\ TypeOK /\ closing = nullptr /\ is_started_[h]
      /\ is_started_' = [is_started_ EXCEPT ![h] = FALSE]
      /\ polled' = {e \in polled : e.socket # sock}
      /\ sockets' = [s \in DOMAIN sockets \ {sock} |-> sockets[s]]
      /\ lingering' = IF sock \in DOMAIN sockets THEN sockets[sock].waiting ELSE 0
      /\ closing' = h
      /\ UNCHANGED <<conf, zmq_ctx_, zmq_sock_>>
  BY DEF Inv, stop_, Free
<1>2. sock \in DOMAIN sockets => sockets[sock].owner = h
  BY <1>1 DEF Inv, SocketsHaveOwners
<1>3. TypeOK'
  <2>1. lingering' \in 0..MaxPending
    BY <1>1, HookAssumption DEF TypeOK, Socket
  <2> QED BY <1>1, <2>1 DEF TypeOK
<1>4. SocketsHaveOwners'
  <2> SUFFICES ASSUME NEW s \in DOMAIN sockets'
               PROVE  /\ is_started_'[sockets'[s].owner]
                      /\ \A g \in Hook : is_started_'[g] /\ zmq_sock_'[g] = s
                                           <=> g = sockets'[s].owner
    BY DEF SocketsHaveOwners
  <2>1. s \in DOMAIN sockets /\ s # sock /\ sockets'[s] = sockets[s]
    BY <1>1
  <2>2. sockets[s].owner # h /\ sockets[s].owner \in Hook
    BY <1>1, <2>1 DEF Inv, TypeOK, SocketsHaveOwners, Socket
  <2> QED BY <1>1, <2>1, <2>2 DEF Inv, TypeOK, SocketsHaveOwners
<1>5. ContextsAreReturned' /\ ClosingIsStopped'
  BY <1>1, HookAssumption DEF Inv, TypeOK, ContextsAreReturned, ClosingIsStopped
<1>6. PolledAreOpen'
  BY <1>1 DEF Inv, PolledAreOpen
<1>7. StartedPointsToOpen'
  <2> SUFFICES ASSUME NEW g \in Hook, is_started_'[g]
               PROVE  zmq_sock_'[g] \in DOMAIN sockets' \cup {nullptr}
    BY DEF StartedPointsToOpen
  <2>1. g # h /\ is_started_[g] /\ zmq_sock_[g] \in DOMAIN sockets \cup {nullptr}
    BY <1>1 DEF Inv, TypeOK, StartedPointsToOpen
  <2>2. zmq_sock_[g] \in DOMAIN sockets => zmq_sock_[g] # sock
    BY <1>2, <2>1 DEF Inv, SocketsHaveOwners
  <2> QED BY <1>1, <2>1, <2>2
<1> QED BY <1>3, <1>4, <1>5, <1>6, <1>7 DEF Inv

\* zmq_ctx_term is over, one way or the other.
LEMMA ClosedInv ==
  ASSUME Inv, Terminate \/ Interrupt
  PROVE  Inv'
<1>1. /\ closing \in Hook /\ closing' = nullptr
      /\ lingering' \in {0, lingering}
      /\ UNCHANGED <<is_started_, conf, zmq_sock_, sockets, polled>>
      /\ \E end \in {"terminated", "lost"} : zmq_ctx_' = [zmq_ctx_ EXCEPT ![closing] = end]
  BY DEF Inv, TypeOK, Terminate, Interrupt, Free
<1>2. TypeOK'
  BY <1>1, HookAssumption DEF Inv, TypeOK
<1>3. ContextsAreReturned' /\ ClosingIsStopped'
  BY <1>1, HookAssumption DEF Inv, TypeOK, ContextsAreReturned, ClosingIsStopped
<1>4. SocketsHaveOwners' /\ PolledAreOpen' /\ StartedPointsToOpen'
  BY <1>1 DEF Inv, SocketsHaveOwners, PolledAreOpen, StartedPointsToOpen
<1> QED BY <1>2, <1>3, <1>4 DEF Inv

LEMMA NextInv == Inv /\ [Next]_vars => Inv'
<1> SUFFICES ASSUME Inv, [Next]_vars PROVE Inv'
  OBVIOUS
<1>1. /\ DOMAIN sockets \subseteq Sock /\ sockets \in [DOMAIN sockets -> Socket]
      /\ lingering \in 0..MaxPending
  BY DEF Inv, TypeOK
<1>2. ASSUME NEW h \in Hook, NEW c \in Conf, Configure(h, c)
      PROVE  Inv'
  <2>1. TypeOK'
    BY <1>2 DEF Configure, Inv, TypeOK
  <2>2. /\ SocketsHaveOwners' /\ ContextsAreReturned' /\ PolledAreOpen'
        /\ ClosingIsStopped' /\ StartedPointsToOpen'
    BY <1>2 DEF Configure, Inv, SocketsHaveOwners, ContextsAreReturned, PolledAreOpen,
                ClosingIsStopped, StartedPointsToOpen
  <2> QED BY <2>1, <2>2 DEF Inv
<1>3. ASSUME NEW h \in Hook, data_(h)
      PROVE  Inv'
  <2>1. /\ sockets' = [s \in DOMAIN sockets |->
                         IF s = zmq_sock_[h] THEN Queued(sockets[s]) ELSE sockets[s]]
        /\ UNCHANGED <<is_started_, conf, zmq_ctx_, zmq_sock_, polled, closing, lingering>>
    BY <1>3 DEF data_
  <2>2. \A s \in DOMAIN sockets : /\ sockets'[s] \in Socket
                                  /\ sockets'[s].owner = sockets[s].owner
    BY <1>1, <2>1, QueuedKeeps
  <2> QED BY <1>1, <2>1, <2>2, TrafficInv
<1>4. ASSUME NEW s \in Sock, Accept(s)
      PROVE  Inv'
  <2>1. /\ sockets' = [sockets EXCEPT ![s].connected = TRUE] /\ s \in DOMAIN sockets
        /\ UNCHANGED <<is_started_, conf, zmq_ctx_, zmq_sock_, polled, closing, lingering>>
    BY <1>4 DEF Accept
  <2>2. \A x \in DOMAIN sockets : /\ sockets'[x] \in Socket
                                  /\ sockets'[x].owner = sockets[x].owner
    BY <1>1, <2>1 DEF Socket
  <2> QED BY <1>1, <2>1, <2>2, TrafficInv
<1>5. ASSUME NEW s \in Sock, Take(s)
      PROVE  Inv'
  <2>1. /\ sockets' = [sockets EXCEPT ![s].waiting = @ - 1]
        /\ s \in DOMAIN sockets /\ sockets[s].waiting > 0
        /\ UNCHANGED <<is_started_, conf, zmq_ctx_, zmq_sock_, polled, closing, lingering>>
    BY <1>5 DEF Take
  <2>2. \A x \in DOMAIN sockets : /\ sockets'[x] \in Socket
                                  /\ sockets'[x].owner = sockets[x].owner
    BY <1>1, <2>1, HookAssumption DEF Socket
  <2> QED BY <1>1, <2>1, <2>2, TrafficInv
<1>6. CASE TakeLingering
  BY <1>1, <1>6, TrafficInv, HookAssumption DEF TakeLingering
<1>7. CASE UNCHANGED vars
  BY <1>1, <1>7, TrafficInv DEF vars
<1> QED BY <1>2, <1>3, <1>4, <1>5, <1>6, <1>7, StartInv, StopInv, ClosedInv
        DEF Next, Hooks, Peers

LEMMA InvHolds == Spec => []Inv
<1> QED BY InitInv, NextInv, PTL DEF Spec

-----------------------------------------------------------------------------
\* The variables keep their shape: only open sockets are ever polled, and no
\* socket holds more than the queue.
THEOREM TypeCorrect == Spec => []TypeOK
<1>1. Inv => TypeOK
  BY DEF Inv
<1> QED BY <1>1, InvHolds, PTL

\* Whichever call of start_ failed, an open socket has one started hook that
\* will close it.
THEOREM EverySocketIsOwned == Spec => []SocketsHaveOwners
<1>1. Inv => SocketsHaveOwners
  BY DEF Inv
<1> QED BY <1>1, InvHolds, PTL

\* stop_ undoes a start_ that failed halfway like another: the contexts that
\* are open are those of started hooks and of the one being closed.
THEOREM EveryContextIsReturned == Spec => []ContextsAreReturned
<1>1. Inv => ContextsAreReturned
  BY DEF Inv
<1> QED BY <1>1, InvHolds, PTL

\* zmq_poll is never given a closed socket, nor fd_poll a callback that is
\* not the owner's, although libzmq reuses the addresses of sockets.
THEOREM OnlyOpenIsPolled == Spec => []PolledAreOpen
<1>1. Inv => PolledAreOpen
  BY DEF Inv
<1> QED BY <1>1, InvHolds, PTL

-----------------------------------------------------------------------------
\* The refinement mapping reads the stage of each hook, and the owners of the
\* polled entries.
StageMap == [h \in Hook |-> StageOf(h)]
Owners == {e.bk : e \in polled}

LEMMA MappedFree ==
  ASSUME Inv, Free
  PROVE  /\ Service!Free
         /\ \A h \in Hook : StageMap[h] = IF is_started_[h] THEN "started" ELSE "idle"
  BY HookAssumption DEF Free, Service!Free, StageMap, StageOf

\* start_ moves its hook, and adds no entry but its own: one that is polled at
\* the same address would be an open socket.
LEMMA StartRefines ==
  ASSUME Inv, NEW h \in Hook, start_(h)
  PROVE  Service!Start(h)
<1>1. /\ Free /\ ~is_started_[h] /\ closing' = closing
      /\ is_started_' = [is_started_ EXCEPT ![h] = TRUE]
      /\ is_started_ \in [Hook -> BOOLEAN]
  BY DEF Inv, TypeOK, start_, StartWithoutSocket, StartWithoutAddress, StartFully, Begin
<1>2. Service!Free /\ StageMap[h] = "idle"
  BY <1>1, MappedFree
<1>3. StageMap' = [StageMap EXCEPT ![h] = "started"]
  BY <1>1, HookAssumption DEF StageMap, StageOf, Free
<1>4. Owners' \in {Owners, Owners \cup {h}}
  <2>1. polled' = polled \/ \E s \in Sock : polled' = polled \cup {[socket |-> s, bk |-> h]}
    BY DEF start_, StartWithoutSocket, StartWithoutAddress, StartFully, Registered
  <2>2. CASE polled' = polled
    BY <2>2 DEF Owners
  <2>3. CASE \E s \in Sock : polled' = polled \cup {[socket |-> s, bk |-> h]}
    BY <2>3 DEF Owners
  <2> QED BY <2>1, <2>2, <2>3
<1> QED BY <1>2, <1>3, <1>4 DEF Service!Start, StageMap, Owners

\* The entries of the socket that stop_ closes are those of its hook.
LEMMA StopRefines ==
  ASSUME Inv, NEW h \in Hook, stop_(h)
  PROVE  Service!Stop(h)
<1>1. /\ Free /\ is_started_[h] /\ closing' = h
      /\ is_started_' = [is_started_ EXCEPT ![h] = FALSE]
      /\ polled' = {e \in polled : e.socket # zmq_sock_[h]}
      /\ is_started_ \in [Hook -> BOOLEAN]
  BY DEF Inv, TypeOK, stop_
<1>2. Service!Free /\ StageMap[h] = "started"
  BY <1>1, MappedFree
<1>3. StageMap' = [StageMap EXCEPT ![h] = "closing"]
  BY <1>1, HookAssumption DEF StageMap, StageOf, Free
<1>4. \A e \in polled : e.socket = zmq_sock_[h] <=> e.bk = h
  BY <1>1 DEF Inv, PolledAreOpen, SocketsHaveOwners
<1>5. Owners' = Owners \ {h}
  BY <1>1, <1>4 DEF Owners
<1> QED BY <1>2, <1>3, <1>5 DEF Service!Stop, StageMap, Owners

LEMMA CloseRefines ==
  ASSUME Inv, Terminate \/ Interrupt
  PROVE  \E h \in Hook : Service!Close(h)
<1>1. closing \in Hook /\ closing' = nullptr /\ UNCHANGED <<is_started_, polled>>
  BY DEF Inv, TypeOK, Terminate, Interrupt, Free
<1>2. ~is_started_[closing]
  BY <1>1, HookAssumption DEF Inv, ClosingIsStopped
<1>3. StageMap[closing] = "closing" /\ StageMap' = [StageMap EXCEPT ![closing] = "idle"]
  BY <1>1, <1>2, HookAssumption DEF StageMap, StageOf
<1>4. Owners' = Owners
  BY <1>1 DEF Owners
<1> QED BY <1>1, <1>3, <1>4 DEF Service!Close, StageMap, Owners

LEMMA StepRefines == Inv /\ [Next]_vars => [Service!Next]_(Service!vars)
<1> SUFFICES ASSUME Inv, [Next]_vars PROVE Service!Next \/ UNCHANGED Service!vars
  OBVIOUS
<1>1. CASE UNCHANGED <<is_started_, closing, polled>>
  BY <1>1 DEF Service!vars, StageOf
<1>2. CASE Peers \/ UNCHANGED vars \/ \E h \in Hook : data_(h) \/ \E c \in Conf : Configure(h, c)
  BY <1>1, <1>2 DEF Peers, Accept, Take, TakeLingering, vars, data_, Configure
<1> QED BY <1>2, StartRefines, StopRefines, CloseRefines DEF Next, Hooks, Service!Next

\* Hooks implement what their manager takes them for, for any number of hooks,
\* sockets and addresses.
THEOREM HookServiceRefined == Spec => ImplementsHookService
<1>1. Init => Service!Init
  BY HookAssumption DEF Init, Service!Init, StageOf
<1> QED BY <1>1, StepRefines, InvHolds, PTL DEF Spec, ImplementsHookService, Service!Spec
=============================================================================
