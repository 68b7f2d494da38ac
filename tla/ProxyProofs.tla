----------------------------- MODULE ProxyProofs -----------------------------
(***************************************************************************)
(* Proofs about Proxy, for any sockets, addresses and bound. Its two hooks *)
(* are hooks of HookZmq, so the invariant of HookZmqProofs holds of them:  *)
(* Stages adds where main is when each of them is started, and Losses what *)
(* a signal can have cost so far.                                          *)
(***************************************************************************)
EXTENDS Proxy, TLAPS

HP == INSTANCE HookZmqProofs

Starting == {"set frontend", "start frontend", "set backend", "start backend"}
Running == {"zmq_proxy", "poll", "to backend", "to frontend"}
Stopping == {"stop backend", "stop frontend", "leave", "returned"}

\* Where main is tells which hooks are started, and which have ever been.
Stages ==
  /\ pc \in Starting \cup Running \cup Stopping
  /\ is_started_[frontend] <=> pc \notin {"set frontend", "start frontend", "leave", "returned"}
  /\ is_started_[backend] <=> pc \in Running \cup {"stop backend"}
  /\ zmq_ctx_[frontend] = "unset" <=> pc \in {"set frontend", "start frontend"}
  /\ zmq_ctx_[backend] = "unset" <=> pc \in Starting
  /\ closing # nullptr => pc \in {"stop frontend", "leave"}

\* Once there are two sockets only a signal makes main stop the hooks, and
\* only a later one can interrupt it there.
Losses ==
  /\ signals \in 0..2
  /\ pc \in Stopping /\ BothSockets => signals >= 1
  /\ \A h \in Hook : zmq_ctx_[h] = "lost" => pc \in Stopping /\ (BothSockets => signals = 2)

IInv == HP!Inv /\ Stages /\ Losses

-----------------------------------------------------------------------------
LEMMA HookConstants == HP!HookAssumption
BY ProxyAssumption DEF HP!HookAssumption

LEMMA HooksInit == Hooks!Init => HP!Init
BY DEF Hooks!Init, HP!Init, Hooks!DefaultConf, HP!DefaultConf

LEMMA HooksStart == \A h \in Hook : Hooks!start_(h) => HP!start_(h)
BY DEF Hooks!start_, HP!start_, Hooks!StartWithoutSocket, HP!StartWithoutSocket,
       Hooks!StartWithoutAddress, HP!StartWithoutAddress, Hooks!StartFully, HP!StartFully,
       Hooks!Begin, HP!Begin, Hooks!Free, HP!Free, Hooks!Open, HP!Open,
       Hooks!InUse, HP!InUse, Hooks!Queued, HP!Queued, Hooks!Accepts, HP!Accepts,
       Hooks!Registered, HP!Registered

LEMMA HooksStop == \A h \in Hook : Hooks!stop_(h) => HP!stop_(h)
BY DEF Hooks!stop_, HP!stop_, Hooks!Free, HP!Free

LEMMA HooksData == \A h \in Hook : Hooks!data_(h) => HP!data_(h)
BY DEF Hooks!data_, HP!data_, Hooks!Free, HP!Free, Hooks!Queued, HP!Queued,
       Hooks!Accepts, HP!Accepts

LEMMA HooksConfigure == \A h \in Hook : \A c : Hooks!Configure(h, c) => HP!Configure(h, c)
BY DEF Hooks!Configure, HP!Configure, Hooks!Free, HP!Free

LEMMA HooksClose == /\ Hooks!Terminate => HP!Terminate
                    /\ Hooks!Interrupt => HP!Interrupt
BY DEF Hooks!Terminate, HP!Terminate, Hooks!Interrupt, HP!Interrupt, Hooks!Free, HP!Free

LEMMA HooksPeers == Hooks!Peers => HP!Peers
BY DEF Hooks!Peers, HP!Peers, Hooks!TakeLingering, HP!TakeLingering,
       Hooks!Accept, HP!Accept, Hooks!Take, HP!Take

\* What main does with its hooks is what HookZmq lets a manager do with hooks.
LEMMA StepIsHookStep == [Next]_vars => [HP!Next]_HP!vars
<1> SUFFICES ASSUME [Next]_vars PROVE HP!Next \/ UNCHANGED HP!vars
  OBVIOUS
<1>1. CASE UNCHANGED hookVars
  BY <1>1 DEF hookVars, HP!vars
<1>2. ASSUME NEW h \in Hook, Hooks!start_(h) \/ Hooks!stop_(h) \/ Hooks!data_(h)
      PROVE  HP!Next
  BY <1>2, HooksStart, HooksStop, HooksData DEF HP!Next, HP!Hooks
<1>3. frontend \in Hook /\ backend \in Hook
  BY DEF Hook
<1>4. CASE SetFrontend \/ SetBackend
  <2>1. FrontAddr \in Addr /\ BackAddr \in Addr
    BY ProxyAssumption DEF FrontAddr, BackAddr
  <2>2. PICK h \in Hook : \E c \in HP!Conf : Hooks!Configure(h, c)
    BY <1>3, <1>4, <2>1 DEF SetFrontend, SetBackend, HP!Conf
  <2> QED BY <2>2, HooksConfigure DEF HP!Next, HP!Hooks
<1>5. CASE StartFrontend \/ StartBackend \/ Relay \/ StopBackend \/ StopFrontend
  BY <1>2, <1>3, <1>5 DEF StartFrontend, StartBackend, Relay, StopBackend, StopFrontend
<1>6. CASE Terminate \/ SignalClosing \/ Peers
  BY <1>6, HooksClose, HooksPeers DEF Terminate, SignalClosing, Peers, HP!Next
<1>7. CASE Enter \/ Refuse \/ Leave \/ SignalWait \/ SignalUnseen \/ \E h \in Hook : Wake(h)
  BY <1>1, <1>7 DEF Enter, Refuse, Leave, SignalWait, SignalUnseen, Wake
<1>8. CASE UNCHANGED vars
  BY <1>1, <1>8 DEF vars
<1> QED BY <1>4, <1>5, <1>6, <1>7, <1>8 DEF Next, Main, Returned

-----------------------------------------------------------------------------
LEMMA Zero == 0 \in 0..2
OBVIOUS

LEMMA InitInv == Init => IInv
<1> SUFFICES ASSUME Init PROVE IInv
  OBVIOUS
<1>1. HP!Inv
  BY HookConstants, HooksInit, HP!InitInv DEF Init, HP!InitInv
<1>2. /\ pc = "set frontend" /\ closing = nullptr
      /\ \A h \in Hook : ~is_started_[h] /\ zmq_ctx_[h] = "unset"
  BY DEF Init, Hooks!Init
<1>3. Stages
  BY <1>2 DEF Stages, Starting, Running, Stopping, Hook
<1>4. Losses
  <2>1. pc \notin Stopping
    BY <1>2 DEF Stopping
  <2>2. \A h \in Hook : zmq_ctx_[h] # "lost"
    BY <1>2
  <2>3. signals \in 0..2
    <3>1. signals = 0 /\ 0 \in 0..2
      BY Zero DEF Init
    <3> QED BY <3>1
  <2> QED BY <2>1, <2>2, <2>3 DEF Losses
<1> QED BY <1>1, <1>3, <1>4 DEF IInv

\* What is needed here of the shape of the hooks.
LEMMA HookShapes ==
  ASSUME HP!Inv
  PROVE  /\ is_started_ \in [Hook -> BOOLEAN]
         /\ zmq_ctx_ \in [Hook -> {"unset", "open", "terminated", "lost"}]
         /\ zmq_sock_ \in [Hook -> Sock \cup {nullptr, unset}]
         /\ closing \in Hook \cup {nullptr}
BY DEF HP!Inv, HP!TypeOK

\* The handler has run once more, or not.
LEMMA CountedRises ==
  ASSUME signals \in 0..2, signals' = signals \/ Counted
  PROVE  /\ signals' \in 0..2
         /\ signals >= 1 => signals' >= 1
         /\ signals = 2 => signals' = 2
         /\ Counted => signals' >= 1 /\ (signals >= 1 => signals' = 2)
BY DEF Counted

\* main goes on without a hook, and does not stop for nothing.
GoesOn ==
  \/ pc' = pc
  \/ pc = "set frontend" /\ pc' = "start frontend"
  \/ pc = "set backend" /\ pc' = "start backend"
  \/ pc \in Running /\ pc' \in Running
  \/ pc \in Running /\ pc' = "stop backend" /\ (~BothSockets \/ Counted)
  \/ pc = "leave" /\ pc' = "returned" /\ closing = nullptr

\* What the hooks keep when main does not call them.
Same == UNCHANGED <<is_started_, zmq_ctx_, zmq_sock_, closing>>

\* A step of main that leaves the members of the hooks alone.
LEMMA QuietStep ==
  ASSUME IInv, GoesOn, Same, signals' = signals \/ Counted
  PROVE  Stages' /\ Losses'
<1> USE DEF Same
<1>1. BothSockets' <=> BothSockets
  BY DEF BothSockets
<1>2. /\ signals' \in 0..2
      /\ signals >= 1 => signals' >= 1
      /\ signals = 2 => signals' = 2
      /\ Counted => signals' >= 1
  <2>1. signals \in 0..2
    BY DEF IInv, Losses
  <2> QED BY <2>1, CountedRises
<1>3. Stages'
  BY DEF IInv, Stages, Starting, Running, Stopping, GoesOn
<1>4. ASSUME pc' \in Stopping, BothSockets'
      PROVE  signals' >= 1
  <2>1. pc \in Stopping \/ Counted
    BY <1>1, <1>4 DEF GoesOn, Running, Stopping
  <2>2. pc \in Stopping => signals >= 1
    BY <1>1, <1>4 DEF IInv, Losses
  <2> QED BY <1>2, <2>1, <2>2
<1>5. ASSUME NEW h \in Hook, zmq_ctx_'[h] = "lost"
      PROVE  pc' \in Stopping /\ (BothSockets' => signals' = 2)
  <2>1. pc \in Stopping /\ (BothSockets => signals = 2)
    BY <1>5 DEF IInv, Losses
  <2>2. pc' \in Stopping
    BY <2>1 DEF GoesOn, Stopping, Running
  <2> QED BY <1>1, <1>2, <2>1, <2>2
<1> QED BY <1>2, <1>3, <1>4, <1>5 DEF Losses

\* start_ is called before there is anything to lose.
LEMMA StartStep ==
  ASSUME IInv, StartFrontend \/ StartBackend
  PROVE  Stages' /\ Losses'
<1>1. PICK h \in Hook :
        /\ \/ h = frontend /\ pc = "start frontend" /\ pc' = "set backend"
           \/ h = backend /\ pc = "start backend" /\ pc' = "zmq_proxy"
        /\ signals' = signals
        /\ Hooks!start_(h)
  BY DEF StartFrontend, StartBackend, At, Hook
<1>2. /\ is_started_' = [is_started_ EXCEPT ![h] = TRUE]
      /\ zmq_ctx_' = [zmq_ctx_ EXCEPT ![h] = "open"]
      /\ closing' = closing /\ closing = nullptr
  BY <1>1 DEF Hooks!start_, Hooks!StartWithoutSocket, Hooks!StartWithoutAddress,
              Hooks!StartFully, Hooks!Begin, Hooks!Free
<1>3. Stages'
  BY <1>1, <1>2, HookShapes, ProxyAssumption
     DEF IInv, Stages, Starting, Running, Stopping, Hook
<1>4. \A g \in Hook : zmq_ctx_'[g] # "lost"
  BY <1>1, <1>2, HookShapes DEF IInv, Losses, Stopping
<1> QED BY <1>1, <1>3, <1>4 DEF IInv, Losses, Stopping

\* stop_ keeps the pointers; only its zmq_ctx_term can lose a context.
LEMMA StopStep ==
  ASSUME IInv, StopBackend \/ StopFrontend
  PROVE  Stages' /\ Losses'
<1>1. PICK h \in Hook :
        /\ \/ h = backend /\ pc = "stop backend" /\ pc' = "stop frontend"
           \/ h = frontend /\ pc = "stop frontend" /\ pc' = "leave"
        /\ signals' = signals
        /\ Hooks!stop_(h)
  BY DEF StopBackend, StopFrontend, At, Hook
<1>2. /\ is_started_' = [is_started_ EXCEPT ![h] = FALSE]
      /\ closing' = h
      /\ UNCHANGED <<zmq_ctx_, zmq_sock_>>
  BY <1>1 DEF Hooks!stop_
<1>3. Stages'
  BY <1>1, <1>2, HookShapes, ProxyAssumption
     DEF IInv, Stages, Starting, Running, Stopping, Hook
<1>4. Losses'
  BY <1>1, <1>2 DEF IInv, Losses, BothSockets, Stopping
<1> QED BY <1>3, <1>4

\* zmq_ctx_term ends: by itself, or by a signal that is not the first.
LEMMA CloseStep ==
  ASSUME IInv, Terminate \/ SignalClosing
  PROVE  Stages' /\ Losses'
<1>1. /\ closing \in Hook /\ closing # nullptr /\ closing' = nullptr
      /\ UNCHANGED <<pc, is_started_, zmq_sock_>>
  BY HookShapes DEF IInv, Terminate, SignalClosing, Hooks!Terminate, Hooks!Interrupt, Hooks!Free
<1>2. pc \in {"stop frontend", "leave"}
  BY <1>1 DEF IInv, Stages
<1>3. \/ signals' = signals /\ zmq_ctx_' = [zmq_ctx_ EXCEPT ![closing] = "terminated"]
      \/ Counted /\ zmq_ctx_' = [zmq_ctx_ EXCEPT ![closing] = "lost"]
  BY DEF Terminate, SignalClosing, Hooks!Terminate, Hooks!Interrupt
<1>4. \A h \in Hook : zmq_ctx_'[h] = "unset" <=> zmq_ctx_[h] = "unset" /\ h # closing
  BY <1>1, <1>3, HookShapes DEF IInv
<1>5. zmq_ctx_[frontend] # "unset" /\ zmq_ctx_[backend] # "unset"
  BY <1>2 DEF IInv, Stages, Starting
<1>6. Stages'
  BY <1>1, <1>2, <1>4, <1>5 DEF IInv, Stages, Starting, Running, Stopping, Hook
<1>7. Losses'
  <2>1. BothSockets' <=> BothSockets
    BY <1>1 DEF BothSockets
  <2>2. CASE signals' = signals /\ zmq_ctx_' = [zmq_ctx_ EXCEPT ![closing] = "terminated"]
    BY <1>1, <1>2, <2>1, <2>2, HookShapes DEF IInv, Losses
  <2>3. CASE Counted
    <3>1. signals \in 0..2 /\ (BothSockets => signals >= 1)
      BY <1>2 DEF IInv, Losses, Stopping
    <3>2. signals' \in 0..2 /\ (BothSockets => signals' = 2)
      BY <2>3, <3>1, CountedRises
    <3>3. BothSockets' => signals' >= 1
      BY <2>1, <3>2
    <3>4. pc' \in Stopping
      BY <1>1, <1>2 DEF Stopping
    <3> QED BY <2>1, <3>2, <3>3, <3>4 DEF Losses
  <2> QED BY <1>3, <2>2, <2>3
<1> QED BY <1>6, <1>7

LEMMA NextInv == IInv /\ [Next]_vars => IInv'
<1> SUFFICES ASSUME IInv, [Next]_vars PROVE IInv'
  OBVIOUS
<1>1. HP!Inv'
  BY HookConstants, StepIsHookStep, HP!NextInv DEF HP!NextInv, IInv
<1> SUFFICES Stages' /\ Losses'
  BY <1>1 DEF IInv
<1>2. UNCHANGED hookVars => Same
  BY DEF hookVars, Same
<1>3. CASE SetFrontend \/ SetBackend
  <2>1. GoesOn /\ signals' = signals
    BY <1>3 DEF SetFrontend, SetBackend, At, GoesOn
  <2>2. Same
    BY <1>3 DEF SetFrontend, SetBackend, Hooks!Configure, Same
  <2> QED BY <2>1, <2>2, QuietStep
<1>4. CASE Enter \/ Refuse \/ Leave \/ \E h \in Hook : Wake(h)
  <2>1. GoesOn /\ signals' = signals
    BY <1>4 DEF Enter, Refuse, Leave, Wake, At, GoesOn, Running, Hooks!Free
  <2>2. Same
    BY <1>2, <1>4 DEF Enter, Refuse, Leave, Wake
  <2> QED BY <2>1, <2>2, QuietStep
<1>5. CASE Relay
  <2>1. GoesOn /\ signals' = signals
    BY <1>5 DEF Relay, At, GoesOn, Running
  <2>2. Same
    BY <1>5 DEF Relay, Hooks!data_, Same
  <2> QED BY <2>1, <2>2, QuietStep
<1>6. CASE SignalWait \/ SignalUnseen
  <2>1. GoesOn /\ Counted
    BY <1>6 DEF SignalWait, SignalUnseen, GoesOn, Running
  <2>2. Same
    BY <1>2, <1>6 DEF SignalWait, SignalUnseen
  <2> QED BY <2>1, <2>2, QuietStep
<1>7. CASE Peers
  <2>1. GoesOn /\ signals' = signals
    BY <1>7 DEF Peers, GoesOn
  <2>2. Same
    BY <1>7 DEF Peers, Hooks!Peers, Hooks!TakeLingering, Hooks!Accept, Hooks!Take, Same
  <2> QED BY <2>1, <2>2, QuietStep
<1>8. CASE UNCHANGED vars
  <2>1. GoesOn /\ signals' = signals
    BY <1>8 DEF vars, GoesOn
  <2> QED BY <1>2, <1>8, <2>1, QuietStep DEF vars
<1> QED
  BY <1>3, <1>4, <1>5, <1>6, <1>7, <1>8, StartStep, StopStep, CloseStep
  DEF Next, Main, Returned

LEMMA InvHolds == Spec => []IInv
<1> QED BY InitInv, NextInv, PTL DEF Spec

-----------------------------------------------------------------------------
\* main, with its signals, uses its hooks as HookZmq lets them be used: what
\* is proved of hooks holds of these two (proxy.cpp:33-58).
THEOREM ImplementsHooks == Spec => HP!Init /\ [][HP!Next]_HP!vars
<1>1. Init => HP!Init
  BY HooksInit DEF Init
<1> QED BY <1>1, StepIsHookStep, PTL DEF Spec

\* When main returns, every socket is closed and every context is given back
\* or lost to a signal, whichever call of start_ failed.
THEOREM ReturnsGivenBack == Spec => []AllGivenBack
<1>1. IInv => AllGivenBack
  <2> SUFFICES ASSUME IInv, pc = "returned"
               PROVE  /\ DOMAIN sockets = {} /\ polled = {}
                      /\ \A h \in Hook : zmq_ctx_[h] \in {"terminated", "lost"}
    BY DEF AllGivenBack
  <2>1. \A h \in Hook : ~is_started_[h] /\ zmq_ctx_[h] # "unset" /\ closing # h
    BY ProxyAssumption DEF IInv, Stages, Hook, Starting, Running
  <2>2. DOMAIN sockets = {}
    <3>1. \A s \in DOMAIN sockets : sockets[s].owner \in Hook
      BY DEF IInv, HP!Inv, HP!TypeOK, HP!Socket
    <3> QED BY <2>1, <3>1 DEF IInv, HP!Inv, HP!SocketsHaveOwners
  <2>3. polled = {}
    BY <2>2 DEF IInv, HP!Inv, HP!PolledAreOpen
  <2>4. \A h \in Hook : zmq_ctx_[h] \in {"terminated", "lost"}
    BY <2>1, HookShapes DEF IInv, HP!Inv, HP!ContextsAreReturned
  <2> QED BY <2>2, <2>3, <2>4
<1> QED BY <1>1, InvHolds, PTL

\* However the two sockets came to be, it takes a second signal, during
\* stop_, to lose a context.
THEOREM FirstSignalIsSafe == Spec => []OneSignalKeepsContexts
<1>1. IInv => OneSignalKeepsContexts
  BY DEF IInv, Losses, OneSignalKeepsContexts
<1> QED BY <1>1, InvHolds, PTL
=============================================================================
