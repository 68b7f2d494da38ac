----------------------------- MODULE NcliProofs -----------------------------
(***************************************************************************)
(* Proofs about Ncli, for any processes, command lines, runs and faults.   *)
(*                                                                         *)
(* The argument is one of order. Nothing overtakes on the way of a command *)
(* to a process, nor on the way of its answer back, so the numbers of the  *)
(* runs grow along each of them: what a process executed comes before what *)
(* waits for it, which comes before what the proxy has yet to route. Hence *)
(* no command is executed twice, and a run has one answer at most. A run   *)
(* that succeeded has used its own up; so, if no earlier run gave up on the*)
(* process, the only answer that a run can take is to its own command.     *)
(***************************************************************************)
EXTENDS Ncli, TLAPS

-----------------------------------------------------------------------------
\* What is in a queue, and queues that are ordered by a relation.
Elems(s) == {s[i] : i \in DOMAIN s}

SortedBy(s, R) == \A i, j \in DOMAIN s : i < j => <<s[i], s[j]>> \in R

LEMMA EmptyQueue ==
  ASSUME NEW S, NEW R
  PROVE  <<>> \in Seq(S) /\ Elems(<<>>) = {} /\ SortedBy(<<>>, R)
BY DEF Elems, SortedBy

LEMMA ElemsAreTyped ==
  ASSUME NEW S, NEW s \in Seq(S)
  PROVE  Elems(s) \subseteq S
BY DEF Elems

\* What comes last is after all the others.
LEMMA AppendQueue ==
  ASSUME NEW S, NEW s \in Seq(S), NEW e \in S
  PROVE  /\ Append(s, e) \in Seq(S)
         /\ Elems(Append(s, e)) = Elems(s) \cup {e}
         /\ \A R : SortedBy(s, R) /\ (\A a \in Elems(s) : <<a, e>> \in R)
                  => SortedBy(Append(s, e), R)
<1>1. /\ Append(s, e) \in Seq(S) /\ Len(Append(s, e)) = Len(s) + 1
      /\ \A i \in 1..Len(s) : Append(s, e)[i] = s[i]
      /\ Append(s, e)[Len(s) + 1] = e
      /\ DOMAIN s = 1..Len(s) /\ DOMAIN Append(s, e) = 1..Len(s) + 1 /\ Len(s) \in Nat
  OBVIOUS
<1>2. Elems(Append(s, e)) = Elems(s) \cup {e}
  BY <1>1 DEF Elems
<1>3. ASSUME NEW R, SortedBy(s, R), \A a \in Elems(s) : <<a, e>> \in R
      PROVE  SortedBy(Append(s, e), R)
  BY <1>1, <1>3 DEF Elems, SortedBy
<1> QED BY <1>1, <1>2, <1>3

\* What comes first is before all the others.
LEMMA TailQueue ==
  ASSUME NEW S, NEW s \in Seq(S), s # <<>>
  PROVE  /\ Tail(s) \in Seq(S)
         /\ Head(s) \in Elems(s) /\ Elems(Tail(s)) \subseteq Elems(s)
         /\ \A R : SortedBy(s, R) =>
              SortedBy(Tail(s), R) /\ \A a \in Elems(Tail(s)) : <<Head(s), a>> \in R
<1>1. /\ Tail(s) \in Seq(S) /\ Len(Tail(s)) = Len(s) - 1 /\ Len(s) \in Nat \ {0}
      /\ \A i \in 1..Len(s) - 1 : Tail(s)[i] = s[i + 1]
      /\ Head(s) = s[1]
      /\ DOMAIN s = 1..Len(s) /\ DOMAIN Tail(s) = 1..Len(s) - 1
  OBVIOUS
<1>2. Head(s) \in Elems(s) /\ Elems(Tail(s)) \subseteq Elems(s)
  BY <1>1 DEF Elems
<1>3. ASSUME NEW R, SortedBy(s, R)
      PROVE  SortedBy(Tail(s), R) /\ \A a \in Elems(Tail(s)) : <<Head(s), a>> \in R
  <2>1. ASSUME NEW i \in DOMAIN Tail(s), NEW j \in DOMAIN Tail(s), i < j
        PROVE  <<Tail(s)[i], Tail(s)[j]>> \in R
    <3>1. i + 1 \in DOMAIN s /\ j + 1 \in DOMAIN s /\ i + 1 < j + 1
      BY <1>1, <2>1
    <3>2. Tail(s)[i] = s[i + 1] /\ Tail(s)[j] = s[j + 1]
      BY <1>1, <2>1
    <3> QED BY <1>3, <3>1, <3>2 DEF SortedBy
  <2>2. ASSUME NEW i \in DOMAIN Tail(s) PROVE <<Head(s), Tail(s)[i]>> \in R
    <3>1. 1 \in DOMAIN s /\ i + 1 \in DOMAIN s /\ 1 < i + 1 /\ Tail(s)[i] = s[i + 1]
      BY <1>1
    <3> QED BY <1>1, <1>3, <3>1 DEF SortedBy
  <2> QED BY <2>1, <2>2 DEF SortedBy, Elems
<1> QED BY <1>1, <1>2, <1>3

LEMMA FrontQueue ==
  ASSUME NEW S, NEW s \in Seq(S), s # <<>>
  PROVE  LET front == SubSeq(s, 1, Len(s) - 1)
         IN  /\ front \in Seq(S)
             /\ Elems(front) \subseteq Elems(s)
             /\ \A R : SortedBy(s, R) => SortedBy(front, R)
<1> DEFINE front == SubSeq(s, 1, Len(s) - 1)
<1>1. /\ front \in Seq(S) /\ Len(s) \in Nat \ {0}
      /\ DOMAIN s = 1..Len(s) /\ DOMAIN front = 1..Len(s) - 1
      /\ \A i \in 1..Len(s) - 1 : front[i] = s[i]
  OBVIOUS
<1> HIDE DEF front
<1>2. Elems(front) \subseteq Elems(s)
  BY <1>1 DEF Elems
<1>3. \A R : SortedBy(s, R) => SortedBy(front, R)
  BY <1>1 DEF SortedBy
<1> QED BY <1>1, <1>2, <1>3 DEF front

-----------------------------------------------------------------------------
\* What the variables hold, messages included.
Commands == UNION {options_parse(line) : line \in Line}

CommandRequest == [type : {cmd.type : cmd \in Commands}, peer : Peer, run : Nat, cmd : Commands]

Message ==
  {m \in [from : Peer, status : {"dummy", "OK", "KO"}, run : Nat] : m.status = "dummy" => m.run = 0}

Execution == [request : CommandRequest, by : Peer, status : {"OK", "KO"}]

Typed ==
  /\ pc \in {"idle", "start", "poll", "check", "stop", "linger", "delete", "destroy"}
  /\ blocks \in [1..2 -> {"absent", "stopped", "started"}]
  /\ factories \subseteq Types
  /\ timer \in {"none", "armed", "due"}
  /\ flags \in [received_answer_ : BOOLEAN, timeout_expired_ : BOOLEAN]
  /\ inbox \in [Peer -> Seq(CommandRequest)] /\ outbox \in [Peer -> Seq(Message)]
  /\ requests \in Seq(CommandRequest) /\ incoming \in Seq(Message)
  /\ issued \in Seq(Line) /\ returned \in Seq({0, 1, 130}) /\ executed \in Seq(Execution)
  /\ Len(returned) = IF pc = "idle" THEN Run ELSE Run - 1
  /\ pc # "idle" => options_parse(Current) # {}

\* What main has set up at each point of it.
Stages ==
  /\ timer # "none" => pc \in {"poll", "check", "stop", "linger"}
  /\ incoming # <<>> => pc \in {"poll", "check", "stop"}
  /\ factories = IF pc \in {"idle", "destroy"} THEN {} ELSE Types
  /\ pc \in {"idle", "destroy"} => blocks = NoBlocks
  /\ pc \in {"start", "delete"} => blocks = [b \in 1..2 |-> "stopped"]
  /\ pc \in {"poll", "check", "stop"} => blocks = [b \in 1..2 |-> "started"]
  /\ pc = "linger" => blocks = [b \in 1..2 |-> IF b = 1 THEN "stopped" ELSE "started"]

\* The last run whose command has left.
Sent == IF pc = "start" THEN Run - 1 ELSE Run

\* A command is one that its run was asked to send.
Asked(r) ==
  /\ r.run \in 1..Sent
  /\ r.peer = issued[r.run]["i"]
  /\ r.cmd \in options_parse(issued[r.run])

Provenance ==
  /\ \A r \in Elems(requests) : Asked(r)
  /\ \A p \in Peer : \A r \in Elems(inbox[p]) : Asked(r) /\ r.peer = p
  /\ \A e \in Elems(executed) : Asked(e.request) /\ e.by = e.request.peer

Earlier == {x \in CommandRequest \X CommandRequest : x[1].run < x[2].run}

Rising == {x \in Execution \X Execution : x[1].by = x[2].by => x[1].request.run < x[2].request.run}

\* Commands do not overtake each other, from the proxy to their execution.
Order ==
  /\ SortedBy(requests, Earlier)
  /\ \A p \in Peer : SortedBy(inbox[p], Earlier)
  /\ SortedBy(executed, Rising)
  /\ \A p \in Peer : \A r \in Elems(inbox[p]), q \in Elems(requests) : r.run < q.run
  /\ \A e \in Elems(executed), q \in Elems(requests) : e.request.run < q.run
  /\ \A e \in Elems(executed) : \A r \in Elems(inbox[e.by]) : e.request.run < r.run

\* An answer is to a command that its process executed with that status.
Told(m) ==
  m.status # "dummy" =>
    \E e \in Elems(executed) : e.request.run = m.run /\ e.by = m.from /\ e.status = m.status

Before(m, n) ==
  m.status # "dummy" /\ n.status # "dummy" /\ m.from = n.from => m.run < n.run

AnswersRise == {x \in Message \X Message : Before(x[1], x[2])}

\* Nor do answers overtake each other on the way back.
Answered ==
  /\ \A p \in Peer : \A m \in Elems(outbox[p]) : m.from = p /\ Told(m)
  /\ \A m \in Elems(incoming) : Told(m)
  /\ \A p \in Peer : SortedBy(outbox[p], AnswersRise)
  /\ SortedBy(incoming, AnswersRise)
  /\ \A p \in Peer : \A m \in Elems(incoming), n \in Elems(outbox[p]) : Before(m, n)

\* Runs that took an answer, and runs with nobody's late answer to fear.
Accepted(q) ==
  \/ q \in DOMAIN returned /\ returned[q] = 0
  \/ q = Run /\ pc \notin {"idle", "start"} /\ flags.received_answer_

Clean(q) == \A k \in 1..q - 1 : GaveUp(k) => issued[k]["i"] # issued[q]["i"]

\* The command of the run was executed as expected.
Achieved(q) ==
  \E e \in Elems(executed) :
    /\ e.request.run = q
    /\ e.by = issued[q]["i"]
    /\ Matches(e.status, issued[q]["r"])

\* Its answer is not under way any more.
UsedUp(q) ==
  /\ \A m \in Elems(incoming) : m.status # "dummy" => m.run # q
  /\ \A p \in Peer : \A m \in Elems(outbox[p]) : m.status # "dummy" => m.run # q

Success == \A q \in 1..Run : Accepted(q) /\ Clean(q) => Achieved(q) /\ UsedUp(q)

-----------------------------------------------------------------------------
LEMMA RunIsKnown ==
  ASSUME Typed
  PROVE  /\ Run \in Nat
         /\ pc # "idle" => Run >= 1 /\ Current \in Line /\ Current["i"] \in Peer
<1>1. Run \in Nat
  BY DEF Typed, Run
<1>2. ASSUME pc # "idle" PROVE Run >= 1 /\ Current \in Line /\ Current["i"] \in Peer
  <2>1. Len(returned) = Run - 1 /\ Len(returned) \in Nat
    BY <1>2 DEF Typed
  <2>2. Run >= 1
    BY <1>1, <2>1
  <2>3. Current \in Line
    BY <1>1, <2>2 DEF Typed, Run, Current
  <2>4. options_parse(Current) # {}
    BY <1>2 DEF Typed
  <2> QED BY <2>2, <2>3, <2>4, LineAssumption
<1> QED BY <1>1, <1>2

LEMMA MessagesAreTyped ==
  ASSUME Typed, NEW p \in Peer
  PROVE  /\ Dummy(p) \in Message
         /\ \A request \in CommandRequest : \A status \in {"OK", "KO"} :
              /\ Answer(p, request, status) \in Message
              /\ [request |-> request, by |-> p, status |-> status] \in Execution
         /\ pc # "idle" => \A cmd \in options_parse(Current) :
              Request(Run, Current, cmd) \in CommandRequest
<1>1. Dummy(p) \in Message
  BY DEF Dummy, Message
<1>2. ASSUME NEW request \in CommandRequest, NEW status \in {"OK", "KO"}
      PROVE  /\ Answer(p, request, status) \in Message
             /\ [request |-> request, by |-> p, status |-> status] \in Execution
  BY DEF Answer, Message, CommandRequest, Execution
<1>3. ASSUME pc # "idle", NEW cmd \in options_parse(Current)
      PROVE  Request(Run, Current, cmd) \in CommandRequest
  <2>1. Run \in Nat /\ Current \in Line /\ Current["i"] \in Peer
    BY <1>3, RunIsKnown
  <2>2. cmd \in Commands
    BY <1>3, <2>1 DEF Commands
  <2> QED BY <2>1, <2>2 DEF Request, CommandRequest
<1> QED BY <1>1, <1>2, <1>3

\* An answer is queued or refused, and nobody else's queue is touched.
LEMMA RepliedQueues ==
  ASSUME Typed, NEW p \in Peer, NEW m \in Message, Replied(p, m)
  PROVE  /\ outbox' \in [Peer -> Seq(Message)]
         /\ \A q \in Peer : outbox'[q] = outbox[q] \/ (q = p /\ outbox'[q] = Append(outbox[p], m))
<1>1. outbox \in [Peer -> Seq(Message)] /\ Append(outbox[p], m) \in Seq(Message)
  BY DEF Typed
<1>2. CASE outbox' = [outbox EXCEPT ![p] = Append(@, m)]
  BY <1>1, <1>2
<1>3. CASE outbox' = outbox
  BY <1>1, <1>3
<1> QED BY <1>2, <1>3 DEF Replied

\* What start_ sends.
LEMMA RequestIsTyped ==
  ASSUME Typed, start_
  PROVE  \E r \in CommandRequest :
           /\ requests' = Append(requests, r)
           /\ \E cmd \in options_parse(Current) : r = Request(Run, Current, cmd)
<1>1. PICK cmd \in options_parse(Current) : requests' = Append(requests, Request(Run, Current, cmd))
  BY DEF start_
<1>2. PICK p : p \in Peer
  BY RunIsKnown DEF start_
<1>3. Request(Run, Current, cmd) \in CommandRequest
  BY <1>2, MessagesAreTyped DEF start_
<1> QED BY <1>1, <1>3

LEMMA TypedInit == Init => Typed
<1> SUFFICES ASSUME Init PROVE Typed
  OBVIOUS
<1>1. /\ inbox \in [Peer -> Seq(CommandRequest)] /\ outbox \in [Peer -> Seq(Message)]
  BY EmptyQueue DEF Init, PeerInit
<1>2. /\ requests \in Seq(CommandRequest) /\ incoming \in Seq(Message)
      /\ issued \in Seq(Line) /\ returned \in Seq({0, 1, 130}) /\ executed \in Seq(Execution)
  BY EmptyQueue DEF Init
<1>3. Len(returned) = Run /\ pc = "idle"
  BY DEF Init, Run
<1>4. flags \in [received_answer_ : BOOLEAN, timeout_expired_ : BOOLEAN]
  BY DEF Init, NoFlags
<1>5. blocks \in [1..2 -> {"absent", "stopped", "started"}]
  BY DEF Init, NoBlocks
<1> QED BY <1>1, <1>2, <1>3, <1>4, <1>5 DEF Typed, Init

LEMMA TypedNext == Typed /\ [Next]_vars => Typed'
<1> SUFFICES ASSUME Typed, [Next]_vars PROVE Typed'
  OBVIOUS
<1> USE DEF vars, client, peerVars
<1>0. Run \in Nat
  BY RunIsKnown
<1>1. ASSUME NEW line \in Line, Launch(line) PROVE Typed'
  <2>1. /\ issued' \in Seq(Line) /\ Run' = Run + 1 /\ issued'[Run'] = line
    BY <1>1 DEF Typed, Launch, Run
  <2>2. Len(returned) = Run
    BY <1>1 DEF Typed, Launch
  <2>3. CASE options_parse(line) = {}
    <3>1. returned' \in Seq({0, 1, 130}) /\ Len(returned') = Len(returned) + 1
      <4>1. returned' = Append(returned, 1)
        BY <1>1, <2>3 DEF Launch
      <4>2. returned \in Seq({0, 1, 130})
        BY DEF Typed
      <4> QED BY <4>1, <4>2
    <3> QED BY <1>0, <1>1, <2>1, <2>2, <2>3, <3>1 DEF Typed, Launch
  <2>4. CASE options_parse(line) # {}
    <3>1. options_parse(issued'[Run']) # {} /\ Len(returned') = Run' - 1
      BY <1>0, <1>1, <2>1, <2>2, <2>4 DEF Launch
    <3>2. blocks' \in [1..2 -> {"absent", "stopped", "started"}] /\ factories' \subseteq Types
      BY <1>1, <2>4 DEF Launch
    <3> QED BY <1>1, <2>1, <2>4, <3>1, <3>2 DEF Typed, Launch, Current
  <2> QED BY <2>3, <2>4
<1>2. CASE start_
  <2>1. PICK r \in CommandRequest : requests' = Append(requests, r)
    BY <1>2, RequestIsTyped
  <2>3. requests' \in Seq(CommandRequest)
    BY <2>1 DEF Typed
  <2>4. blocks' \in [1..2 -> {"absent", "stopped", "started"}] /\ flags' = NoFlags
    BY <1>2 DEF start_
  <2>5. flags' \in [received_answer_ : BOOLEAN, timeout_expired_ : BOOLEAN]
    BY <2>4 DEF NoFlags
  <2> QED BY <1>2, <2>3, <2>4, <2>5 DEF Typed, start_, Run, Current
<1>3. CASE fd_poll
  <2>1. incoming' \in Seq(Message)
    <3>1. incoming \in Seq(Message)
      BY DEF Typed
    <3> QED BY <1>3, <3>1 DEF fd_poll
  <2>2. flags' \in [received_answer_ : BOOLEAN, timeout_expired_ : BOOLEAN]
    <3> DEFINE taken == flags.received_answer_ \/ Expected(Head(incoming), Current)
    <3>1. taken \in BOOLEAN
      OBVIOUS
    <3>2. flags' \in {flags, [flags EXCEPT !.received_answer_ = taken]}
      BY <1>3 DEF fd_poll
    <3> HIDE DEF taken
    <3> QED BY <3>1, <3>2 DEF Typed
  <2> QED BY <1>3, <2>1, <2>2 DEF Typed, fd_poll, Run, Current
<1>4. CASE timer_check_exp
  <2>1. flags' \in [received_answer_ : BOOLEAN, timeout_expired_ : BOOLEAN]
    BY <1>4 DEF timer_check_exp, Typed
  <2> QED BY <1>4, <2>1 DEF Typed, timer_check_exp, Run, Current
<1>5. CASE StopHook
  <2>1. incoming' \in Seq(Message) /\ blocks' \in [1..2 -> {"absent", "stopped", "started"}]
    BY <1>5, EmptyQueue DEF StopHook, Typed
  <2> QED BY <1>5, <2>1 DEF Typed, StopHook, Run, Current
<1>6. CASE StopClient
  <2>1. blocks' \in [1..2 -> {"absent", "stopped", "started"}]
    BY <1>6 DEF StopClient, Typed
  <2> QED BY <1>6, <2>1 DEF Typed, StopClient, Run, Current
<1>7. CASE Delete
  <2>1. \A b \in 1..2 : Deleted(b, factories) \in {"absent", "stopped", "started"}
    BY DEF Deleted, Typed
  <2>2. blocks' \in [1..2 -> {"absent", "stopped", "started"}]
    BY <1>7, <2>1 DEF Delete
  <2> QED BY <1>7, <2>2 DEF Typed, Delete, Run, Current
<1>8. CASE Destroy
  <2>1. returned' \in Seq({0, 1, 130}) /\ Len(returned') = Len(returned) + 1
    BY <1>8 DEF Destroy, Typed
  <2>2. Len(returned') = Run' /\ Run' = Run
    BY <1>0, <1>8, <2>1 DEF Typed, Destroy, Run
  <2> QED BY <1>8, <2>1, <2>2 DEF Typed, Destroy
<1>9. CASE Interrupted
  <2>1. returned' \in Seq({0, 1, 130}) /\ Len(returned') = Len(returned) + 1
    BY <1>9 DEF Interrupted, Typed
  <2>2. Len(returned') = Run' /\ Run' = Run
    BY <1>0, <1>9, <2>1 DEF Typed, Interrupted, Run
  <2>3. requests' \in Seq(CommandRequest)
    <3>1. requests \in Seq(CommandRequest)
      BY DEF Typed
    <3>2. CASE requests' = requests
      BY <3>1, <3>2
    <3>3. CASE Lingering /\ requests' = SubSeq(requests, 1, Len(requests) - 1)
      <4>1. requests # <<>>
        BY <3>3 DEF Lingering
      <4> QED BY <3>1, <3>3, <4>1, FrontQueue
    <3> QED BY <1>9, <3>2, <3>3 DEF Interrupted
  <2>4. incoming' \in Seq(Message) /\ blocks' \in [1..2 -> {"absent", "stopped", "started"}]
    BY <1>9, EmptyQueue DEF Interrupted, NoBlocks
  <2> QED BY <1>9, <2>1, <2>2, <2>3, <2>4 DEF Typed, Interrupted
<1>10. CASE Tick
  BY <1>10 DEF Typed, Tick, Run, Current
<1>11. CASE Route
  <2>1. Head(requests) \in CommandRequest /\ requests' \in Seq(CommandRequest)
    BY <1>11 DEF Typed, Route
  <2>2. inbox' \in [Peer -> Seq(CommandRequest)] /\ outbox' = outbox
    <3>1. CASE Receive(Head(requests).peer, Head(requests))
      <4>1. /\ inbox' = [inbox EXCEPT ![Head(requests).peer] = Append(@, Head(requests))]
            /\ outbox' = outbox
        BY <3>1 DEF Receive
      <4>2. inbox \in [Peer -> Seq(CommandRequest)] /\ Head(requests).peer \in Peer
        BY <2>1 DEF Typed, CommandRequest
      <4>3. Append(inbox[Head(requests).peer], Head(requests)) \in Seq(CommandRequest)
        BY <2>1, <4>2
      <4> QED BY <4>1, <4>2, <4>3
    <3>2. CASE UNCHANGED peerVars
      BY <3>2 DEF Typed
    <3> QED BY <1>11, <3>1, <3>2 DEF Route
  <2> QED BY <1>11, <2>1, <2>2 DEF Typed, Route, Run, Current
<1>12. ASSUME NEW p \in Peer, Deliver(p) PROVE Typed'
  <2>1. outbox[p] \in Seq(Message) /\ outbox[p] # <<>>
    BY <1>12 DEF Typed, Deliver, Take
  <2>2. Head(outbox[p]) \in Message /\ Tail(outbox[p]) \in Seq(Message)
    BY <2>1
  <2>3. outbox' \in [Peer -> Seq(Message)] /\ inbox' = inbox
    BY <1>12, <2>2 DEF Typed, Deliver, Take
  <2>4. incoming' \in Seq(Message)
    <3>1. incoming \in Seq(Message)
      BY DEF Typed
    <3>2. Append(incoming, Head(outbox[p])) \in Seq(Message)
      BY <2>2, <3>1
    <3> QED BY <1>12, <3>1, <3>2 DEF Deliver
  <2> QED BY <1>12, <2>3, <2>4 DEF Typed, Deliver, Run, Current
<1>13. ASSUME NEW p \in Peer, Process(p) PROVE Typed'
  <2> USE <1>13
  <2>1. /\ UNCHANGED <<client, requests, issued, returned>>
        /\ inbox' \in [Peer -> Seq(CommandRequest)] /\ outbox' \in [Peer -> Seq(Message)]
        /\ executed' \in Seq(Execution)
    <3>1. CASE Start(p) /\ starts < MaxStarts /\ starts' = starts + 1 /\ UNCHANGED <<client, requests, issued, returned, executed>>
      <4>1. Append(outbox[p], Dummy(p)) \in Seq(Message)
        BY MessagesAreTyped DEF Typed
      <4> QED BY <3>1, <4>1 DEF Typed, Start
    <3>2. CASE (Signal(p) \/ Close(p) \/ LoseAnswers(p)) /\ UNCHANGED <<client, requests, starts, issued, returned, executed>>
      <4>1. inbox' \in [Peer -> Seq(CommandRequest)] /\ outbox' \in [Peer -> Seq(Message)]
        <5>1. <<>> \in Seq(CommandRequest) /\ <<>> \in Seq(Message)
          BY EmptyQueue
        <5>2. inbox \in [Peer -> Seq(CommandRequest)] /\ outbox \in [Peer -> Seq(Message)]
          BY DEF Typed
        <5> QED BY <3>2, <5>1, <5>2 DEF Signal, Close, LoseAnswers
      <4> QED BY <3>2, <4>1 DEF Typed
    <3>3. ASSUME NEW status \in {"OK", "KO"}, Execute(p, status)
          PROVE  <2>1!1 /\ <2>1!2 /\ <2>1!3
      <4>1. Head(inbox[p]) \in CommandRequest /\ Tail(inbox[p]) \in Seq(CommandRequest)
        BY <3>3 DEF Typed, Execute, Serve
      <4>2. outbox' \in [Peer -> Seq(Message)]
        <5>1. Answer(p, Head(inbox[p]), status) \in Message
          BY <4>1, MessagesAreTyped
        <5> QED BY <3>3, <5>1, RepliedQueues DEF Execute, Serve
      <4>3. executed' \in Seq(Execution)
        <5>1. [request |-> Head(inbox[p]), by |-> p, status |-> status] \in Execution
          BY <4>1, MessagesAreTyped
        <5> QED BY <3>3, <5>1 DEF Typed, Execute
      <4> QED BY <3>3, <4>1, <4>2, <4>3 DEF Typed, Execute, Serve
    <3> QED BY <3>1, <3>2, <3>3 DEF Process
  <2> QED BY <2>1 DEF Typed, Run, Current
<1>14. CASE UNCHANGED vars
  BY <1>14 DEF Typed, Run, Current
<1> QED
  BY <1>1, <1>2, <1>3, <1>4, <1>5, <1>6, <1>7, <1>8, <1>9, <1>10, <1>11, <1>12, <1>13, <1>14
  DEF Next, Main

-----------------------------------------------------------------------------
LEMMA StagesInit == Init => Stages
BY DEF Init, Stages

LEMMA StagesNext == Typed /\ Stages /\ [Next]_vars => Stages'
<1> SUFFICES ASSUME Typed, Stages, [Next]_vars PROVE Stages'
  OBVIOUS
<1> USE DEF vars, client, peerVars
<1>1. ASSUME NEW line \in Line, Launch(line) PROVE Stages'
  BY <1>1 DEF Launch, Stages
<1>2. CASE start_
  BY <1>2 DEF start_, Stages
<1>3. CASE fd_poll
  BY <1>3 DEF fd_poll, Stages
<1>4. CASE timer_check_exp
  <2>1. pc' \in {"poll", "stop"} /\ UNCHANGED <<blocks, factories, incoming>>
    BY <1>4 DEF timer_check_exp
  <2> QED BY <1>4, <2>1 DEF timer_check_exp, Stages
<1>5. CASE StopHook
  <2>1. blocks' = [b \in 1..2 |-> IF b = 1 THEN "stopped" ELSE "started"]
    BY <1>5 DEF StopHook, Stages
  <2> QED BY <1>5, <2>1 DEF StopHook, Stages
<1>6. CASE StopClient
  <2>1. blocks = [b \in 1..2 |-> IF b = 1 THEN "stopped" ELSE "started"]
        /\ blocks' = [blocks EXCEPT ![2] = "stopped"]
    BY <1>6 DEF StopClient, Stages
  <2>2. blocks' = [b \in 1..2 |-> "stopped"]
    <3>1. blocks' = [b \in 1..2 |-> IF b = 2 THEN "stopped" ELSE blocks[b]]
      BY <2>1
    <3>2. \A b \in 1..2 : b # 2 => blocks[b] = "stopped"
      BY <2>1
    <3> QED BY <3>1, <3>2
  <2> QED BY <1>6, <2>2 DEF StopClient, Stages
<1>7. CASE Delete
  <2>1. blocks = [b \in 1..2 |-> "stopped"] /\ factories = Types /\ timer = "none" /\ incoming = <<>>
    BY <1>7 DEF Delete, Stages
  <2>2. \A b \in 1..2 : Deleted(b, factories) = "absent"
    BY <2>1 DEF Deleted, Types
  <2>3. blocks' = NoBlocks
    BY <1>7, <2>2 DEF Delete, NoBlocks
  <2> QED BY <1>7, <2>1, <2>3 DEF Delete, Stages
<1>8. CASE Destroy
  BY <1>8 DEF Destroy, Stages
<1>9. CASE Interrupted
  BY <1>9 DEF Interrupted, Stages
<1>10. CASE Tick
  BY <1>10 DEF Tick, Stages
<1>11. CASE Route
  BY <1>11 DEF Route, Stages
<1>12. ASSUME NEW p \in Peer, Deliver(p) PROVE Stages'
  <2>1. pc \in {"poll", "check", "stop"}
    BY <1>12 DEF Deliver, Stages, NoBlocks, Typed
  <2> QED BY <1>12, <2>1 DEF Deliver, Stages
<1>13. ASSUME NEW p \in Peer, Process(p) PROVE Stages'
  BY <1>13 DEF Process, Execute, Stages
<1>14. CASE UNCHANGED vars
  BY <1>14 DEF Stages
<1> QED
  BY <1>1, <1>2, <1>3, <1>4, <1>5, <1>6, <1>7, <1>8, <1>9, <1>10, <1>11, <1>12, <1>13, <1>14
  DEF Next, Main

-----------------------------------------------------------------------------
\* The steps that commands take.
LEMMA CommandSteps ==
  ASSUME [Next]_vars
  PROVE  \/ start_ \/ Interrupted \/ Route
         \/ \E p \in Peer : Close(p) /\ UNCHANGED <<requests, executed>>
         \/ \E p \in Peer, status \in {"OK", "KO"} : Execute(p, status)
         \/ UNCHANGED <<requests, inbox, executed>>
<1> USE DEF vars, client, peerVars
<1>1. ASSUME NEW line \in Line, Launch(line) PROVE UNCHANGED <<requests, inbox, executed>>
  BY <1>1 DEF Launch
<1>2. ASSUME fd_poll \/ timer_check_exp \/ StopHook \/ StopClient \/ Delete \/ Destroy \/ Tick
      PROVE  UNCHANGED <<requests, inbox, executed>>
  BY <1>2 DEF fd_poll, timer_check_exp, StopHook, StopClient, Delete, Destroy, Tick
<1>3. ASSUME NEW p \in Peer, Deliver(p) PROVE UNCHANGED <<requests, inbox, executed>>
  BY <1>3 DEF Deliver, Take
<1>4. ASSUME NEW p \in Peer, Process(p)
      PROVE  \/ Close(p) /\ UNCHANGED <<requests, executed>>
             \/ \E status \in {"OK", "KO"} : Execute(p, status)
             \/ UNCHANGED <<requests, inbox, executed>>
  BY <1>4 DEF Process, Start, Signal, LoseAnswers
<1> QED BY <1>1, <1>2, <1>3, <1>4 DEF Next, Main

\* The runs so far keep their lines, and those that sent a command stay so.
LEMMA HistoryGrows ==
  ASSUME Typed, [Next]_vars
  PROVE  /\ Sent \in 0..Run /\ Sent' \in 0..Run' /\ Run \in Nat /\ Run' \in Nat
         /\ Sent <= Sent' /\ Run <= Run'
         /\ \A k \in 1..Run : issued'[k] = issued[k]
<1> USE DEF vars, client, peerVars
<1>1. Run \in Nat /\ Run' \in Nat
  BY RunIsKnown, TypedNext DEF Typed, Run
<1>2. pc = "start" => Run >= 1
  BY RunIsKnown
<1>3. ASSUME NEW line \in Line, Launch(line) PROVE Sent' >= Sent /\ Run' = Run + 1 /\ pc = "idle" /\ \A k \in 1..Run : issued'[k] = issued[k]
  <2>1. issued' = Append(issued, line) /\ issued \in Seq(Line) /\ pc = "idle"
    BY <1>3 DEF Launch, Typed
  <2>2. Run' = Run + 1 /\ \A k \in 1..Run : issued'[k] = issued[k]
    BY <2>1 DEF Run
  <2>3. Sent = Run /\ (Sent' = Run' \/ Sent' = Run' - 1)
    BY <2>1 DEF Sent
  <2>4. Sent' >= Sent
    BY <1>1, <2>2, <2>3
  <2> QED BY <2>1, <2>2, <2>4
<1>4. ASSUME ~\E line \in Line : Launch(line) PROVE issued' = issued /\ (pc' = "start" => pc = "start")
  BY <1>4 DEF Next, Main, start_, fd_poll, timer_check_exp, StopHook, StopClient, Delete, Destroy,
              Interrupted, Tick, Route, Deliver, Process, Execute
<1>5. Run' >= 1 \/ pc' # "start"
  <2>1. CASE \E line \in Line : Launch(line)
    BY <1>1, <1>3, <2>1
  <2>2. CASE ~\E line \in Line : Launch(line)
    BY <1>2, <1>4, <2>2 DEF Run
  <2> QED BY <2>1, <2>2
<1>6. Sent \in 0..Run /\ Sent' \in 0..Run'
  <2>1. Sent = IF pc = "start" THEN Run - 1 ELSE Run
    BY DEF Sent
  <2>2. Sent' = IF pc' = "start" THEN Run' - 1 ELSE Run'
    BY DEF Sent
  <2>3. Sent \in 0..Run
    <3>1. CASE pc = "start"
      BY <1>1, <1>2, <2>1, <3>1
    <3>2. CASE pc # "start"
      BY <1>1, <2>1, <3>2
    <3> QED BY <3>1, <3>2
  <2>4. Sent' \in 0..Run'
    <3>1. CASE pc' = "start"
      <4>1. Run' >= 1 /\ Sent' = Run' - 1
        BY <1>5, <2>2, <3>1
      <4>2. \A n \in Nat : n >= 1 => n - 1 \in 0..n
        OBVIOUS
      <4> QED BY <1>1, <4>1, <4>2
    <3>2. CASE pc' # "start"
      BY <1>1, <2>2, <3>2
    <3> QED BY <3>1, <3>2
  <2> QED BY <2>3, <2>4
<1>7. CASE \E line \in Line : Launch(line)
  BY <1>1, <1>3, <1>6, <1>7
<1>8. CASE ~\E line \in Line : Launch(line)
  <2>1. Run' = Run
    BY <1>4, <1>8 DEF Run
  <2> QED BY <1>1, <1>4, <1>6, <1>8, <2>1 DEF Sent
<1> QED BY <1>7, <1>8

LEMMA AskedStays ==
  ASSUME Typed, [Next]_vars, NEW r, Asked(r)
  PROVE  Asked(r)'
<1>1. /\ Sent \in 0..Run /\ Sent' \in 0..Run' /\ Run \in Nat /\ Sent <= Sent'
      /\ \A k \in 1..Run : issued'[k] = issued[k]
  BY HistoryGrows
<1>2. r.run \in 1..Run /\ r.run \in 1..Sent'
  BY <1>1 DEF Asked
<1> QED BY <1>1, <1>2 DEF Asked

LEMMA ProvenanceNext == Typed /\ Provenance /\ [Next]_vars => Provenance'
<1> SUFFICES ASSUME Typed, Provenance, [Next]_vars PROVE Provenance'
  OBVIOUS
<1> USE DEF vars, client, peerVars
<1>1. \A r : Asked(r) => Asked(r)'
  BY AskedStays
<1>2. SUFFICES /\ \A r \in Elems(requests') : r \in Elems(requests) \/ Asked(r)'
               /\ \A p \in Peer : \A r \in Elems(inbox'[p]) :
                    r \in Elems(inbox[p]) \/ (r \in Elems(requests) /\ r.peer = p)
               /\ \A e \in Elems(executed') :
                    e \in Elems(executed) \/ (e.by \in Peer /\ e.request \in Elems(inbox[e.by]))
  BY <1>1 DEF Provenance
<1>3. CASE start_
  <2>1. PICK r : /\ requests' = Append(requests, r) /\ r \in CommandRequest
                 /\ \E cmd \in options_parse(Current) : r = Request(Run, Current, cmd)
    BY <1>3, RequestIsTyped
  <2>2. Elems(requests') = Elems(requests) \cup {r}
    <3>1. requests \in Seq(CommandRequest)
      BY DEF Typed
    <3> QED BY <2>1, <3>1, AppendQueue
  <2>3. Asked(r)'
    <3>1. Run \in Nat /\ Run >= 1 /\ Sent' = Run /\ issued' = issued /\ issued'[Run] = Current
      BY <1>3, RunIsKnown DEF start_, Sent, Run, Current
    <3> QED BY <2>1, <3>1 DEF Asked, Request
  <2> QED BY <1>3, <2>2, <2>3 DEF start_
<1>4. CASE Interrupted
  <2>1. Elems(requests') \subseteq Elems(requests)
    <3>1. requests \in Seq(CommandRequest)
      BY DEF Typed
    <3>2. CASE requests' = requests
      BY <3>2
    <3>3. CASE Lingering /\ requests' = SubSeq(requests, 1, Len(requests) - 1)
      BY <3>1, <3>3, FrontQueue DEF Lingering
    <3> QED BY <1>4, <3>2, <3>3 DEF Interrupted
  <2> QED BY <1>4, <2>1 DEF Interrupted
<1>5. CASE Route
  <2>1. requests \in Seq(CommandRequest) /\ requests # <<>> /\ requests' = Tail(requests) /\ executed' = executed
    BY <1>5 DEF Route, Typed
  <2>2. Head(requests) \in Elems(requests) /\ Elems(requests') \subseteq Elems(requests) /\ Head(requests) \in CommandRequest
    BY <2>1, TailQueue
  <2>3. CASE Receive(Head(requests).peer, Head(requests))
    <3>1. inbox' = [inbox EXCEPT ![Head(requests).peer] = Append(@, Head(requests))]
      BY <2>3 DEF Receive
    <3>2. \A p \in Peer : inbox[p] \in Seq(CommandRequest) /\ inbox'[p] = IF p = Head(requests).peer THEN Append(inbox[p], Head(requests)) ELSE inbox[p]
      BY <3>1 DEF Typed
    <3>3. \A p \in Peer : Elems(Append(inbox[p], Head(requests))) = Elems(inbox[p]) \cup {Head(requests)}
      BY <2>2, <3>2, AppendQueue
    <3> QED BY <2>1, <2>2, <3>2, <3>3
  <2>4. CASE inbox' = inbox
    BY <2>1, <2>2, <2>4
  <2> QED BY <1>5, <2>3, <2>4 DEF Route
<1>6. ASSUME NEW p \in Peer, Close(p) /\ UNCHANGED <<requests, executed>> PROVE <1>2!1
  <2>1. \A q \in Peer : inbox'[q] = IF q = p THEN <<>> ELSE inbox[q]
    BY <1>6 DEF Close, Typed
  <2>2. Elems(<<>>) = {}
    BY EmptyQueue
  <2> QED BY <1>6, <2>1, <2>2
<1>7. ASSUME NEW p \in Peer, NEW status \in {"OK", "KO"}, Execute(p, status) PROVE <1>2!1
  <2>1. inbox[p] \in Seq(CommandRequest) /\ inbox[p] # <<>> /\ requests' = requests
    BY <1>7 DEF Execute, Serve, Typed
  <2>2. \A q \in Peer : inbox'[q] = IF q = p THEN Tail(inbox[p]) ELSE inbox[q]
    BY <1>7 DEF Execute, Serve, Typed
  <2>3. Elems(Tail(inbox[p])) \subseteq Elems(inbox[p]) /\ Head(inbox[p]) \in Elems(inbox[p])
        /\ Head(inbox[p]) \in CommandRequest
    BY <2>1, TailQueue
  <2>4. [request |-> Head(inbox[p]), by |-> p, status |-> status] \in Execution
    BY <2>3, MessagesAreTyped
  <2>5. Elems(executed') = Elems(executed) \cup {[request |-> Head(inbox[p]), by |-> p, status |-> status]}
    <3>1. executed \in Seq(Execution)
      BY DEF Typed
    <3> QED BY <1>7, <2>4, <3>1, AppendQueue DEF Execute
  <2> QED BY <2>1, <2>2, <2>3, <2>5
<1>8. CASE UNCHANGED <<requests, inbox, executed>>
  BY <1>8
<1> QED BY <1>3, <1>4, <1>5, <1>6, <1>7, <1>8, CommandSteps

-----------------------------------------------------------------------------
LEMMA EarlierIsLess ==
  /\ \A a, b \in CommandRequest : <<a, b>> \in Earlier <=> a.run < b.run
  /\ \A a, b \in Execution :
       <<a, b>> \in Rising <=> (a.by = b.by => a.request.run < b.request.run)
  /\ \A m, n \in Message : <<m, n>> \in AnswersRise <=> Before(m, n)
<1>1. \A a, b \in CommandRequest : <<a, b>> \in Earlier <=> a.run < b.run
  BY DEF Earlier
<1>2. \A a, b \in Execution :
        <<a, b>> \in Rising <=> (a.by = b.by => a.request.run < b.request.run)
  BY DEF Rising
<1>3. \A m, n \in Message : <<m, n>> \in AnswersRise <=> Before(m, n)
  BY DEF AnswersRise
<1> QED BY <1>1, <1>2, <1>3

\* What is in the queues has its type.
LEMMA ElemsTyped ==
  ASSUME Typed
  PROVE  /\ Elems(requests) \subseteq CommandRequest /\ requests \in Seq(CommandRequest)
         /\ \A p \in Peer : Elems(inbox[p]) \subseteq CommandRequest /\ inbox[p] \in Seq(CommandRequest)
         /\ Elems(executed) \subseteq Execution /\ executed \in Seq(Execution)
         /\ Elems(incoming) \subseteq Message /\ incoming \in Seq(Message)
         /\ \A p \in Peer : Elems(outbox[p]) \subseteq Message /\ outbox[p] \in Seq(Message)
<1>1. requests \in Seq(CommandRequest) /\ executed \in Seq(Execution) /\ incoming \in Seq(Message)
  BY DEF Typed
<1>2. \A p \in Peer : inbox[p] \in Seq(CommandRequest) /\ outbox[p] \in Seq(Message)
  BY DEF Typed
<1> QED BY <1>1, <1>2, ElemsAreTyped

\* A process executes the first of the commands that wait for it.
LEMMA ExecutionOf ==
  ASSUME Typed, NEW p \in Peer, NEW status \in {"OK", "KO"}, Execute(p, status)
  PROVE  \E h \in CommandRequest, e \in Execution :
           /\ h = Head(inbox[p]) /\ h \in Elems(inbox[p])
           /\ e = [request |-> h, by |-> p, status |-> status]
           /\ executed' = Append(executed, e) /\ Elems(executed') = Elems(executed) \cup {e}
           /\ inbox[p] # <<>>
           /\ \A q \in Peer : inbox'[q] = IF q = p THEN Tail(inbox[p]) ELSE inbox[q]
           /\ \A q \in Peer : outbox'[q] = outbox[q] \/
                 (q = p /\ outbox'[q] = Append(outbox[p], Answer(p, h, status)))
           /\ Answer(p, h, status) \in Message
           /\ UNCHANGED <<client, requests, issued, returned>>
<1>1. inbox[p] \in Seq(CommandRequest) /\ inbox[p] # <<>>
  BY DEF Execute, Serve, Typed
<1>2. Head(inbox[p]) \in CommandRequest /\ Head(inbox[p]) \in Elems(inbox[p])
  BY <1>1, TailQueue
<1>3. /\ [request |-> Head(inbox[p]), by |-> p, status |-> status] \in Execution
      /\ Answer(p, Head(inbox[p]), status) \in Message
  BY <1>2, MessagesAreTyped
<1>4. executed' = Append(executed, [request |-> Head(inbox[p]), by |-> p, status |-> status])
  BY DEF Execute
<1>5. Elems(executed') = Elems(executed) \cup {[request |-> Head(inbox[p]), by |-> p, status |-> status]}
  BY <1>3, <1>4, ElemsTyped, AppendQueue
<1>6. \A q \in Peer : inbox'[q] = IF q = p THEN Tail(inbox[p]) ELSE inbox[q]
  BY DEF Execute, Serve, Typed
<1>7. \A q \in Peer : outbox'[q] = outbox[q] \/
      (q = p /\ outbox'[q] = Append(outbox[p], Answer(p, Head(inbox[p]), status)))
  <2>1. Replied(p, Answer(p, Head(inbox[p]), status))
    BY DEF Execute, Serve
  <2> QED BY <1>3, <2>1, RepliedQueues
<1>8. UNCHANGED <<client, requests, issued, returned>>
  BY DEF Execute
<1> QED BY <1>1, <1>2, <1>3, <1>4, <1>5, <1>6, <1>7, <1>8

LEMMA OrderNext == Typed /\ Provenance /\ Order /\ [Next]_vars => Order'
<1> SUFFICES ASSUME Typed, Provenance, Order, [Next]_vars PROVE Order'
  OBVIOUS
<1> USE DEF vars, client, peerVars
<1>1. CASE start_
  <2>1. PICK r \in CommandRequest : /\ requests' = Append(requests, r)
                                    /\ \E cmd \in options_parse(Current) : r = Request(Run, Current, cmd)
    BY <1>1, RequestIsTyped
  <2>2. r.run = Run /\ Run \in Nat /\ Sent = Run - 1
    BY <1>1, <2>1, RunIsKnown DEF Request, start_, Sent
  <2>3. \A q : Asked(q) => q.run < r.run
    BY <2>2 DEF Asked
  <2>4. Elems(requests') = Elems(requests) \cup {r}
    BY <2>1, ElemsTyped, AppendQueue
  <2>5. SortedBy(requests', Earlier)
    <3>1. \A a \in Elems(requests) : <<a, r>> \in Earlier
      BY <2>3, ElemsTyped, EarlierIsLess DEF Provenance
    <3> QED BY <2>1, <3>1, ElemsTyped, AppendQueue DEF Order
  <2> QED BY <1>1, <2>3, <2>4, <2>5 DEF Order, Provenance, start_
<1>2. CASE Interrupted
  <2>1. Elems(requests') \subseteq Elems(requests) /\ SortedBy(requests', Earlier)
    <3>1. CASE requests' = requests
      BY <3>1 DEF Order
    <3>2. CASE Lingering /\ requests' = SubSeq(requests, 1, Len(requests) - 1)
      BY <3>2, ElemsTyped, FrontQueue DEF Lingering, Order
    <3> QED BY <1>2, <3>1, <3>2 DEF Interrupted
  <2> QED BY <1>2, <2>1 DEF Interrupted, Order
<1>3. CASE Route
  <2>1. requests # <<>> /\ requests' = Tail(requests) /\ executed' = executed
    BY <1>3 DEF Route
  <2>2. PICK h \in CommandRequest : h = Head(requests) /\ h \in Elems(requests)
    BY <2>1, ElemsTyped, TailQueue
  <2>3. Elems(requests') \subseteq Elems(requests) /\ SortedBy(requests', Earlier)
        /\ \A q \in Elems(requests') : <<h, q>> \in Earlier
    BY <2>1, <2>2, ElemsTyped, TailQueue DEF Order
  <2>4. \A q \in Elems(requests') : h.run < q.run
    BY <2>3, ElemsTyped, EarlierIsLess
  <2>5. CASE Receive(h.peer, h)
    <3>1. \A p \in Peer : inbox'[p] = IF p = h.peer THEN Append(inbox[p], h) ELSE inbox[p]
      BY <2>5 DEF Receive, Typed
    <3>2. \A p \in Peer : Elems(Append(inbox[p], h)) = Elems(inbox[p]) \cup {h}
      BY ElemsTyped, AppendQueue
    <3>3. ASSUME NEW p \in Peer PROVE SortedBy(inbox'[p], Earlier)
      <4>1. \A a \in Elems(inbox[p]) : <<a, h>> \in Earlier
        BY <2>2, ElemsTyped, EarlierIsLess DEF Order
      <4>2. SortedBy(Append(inbox[p], h), Earlier)
        BY <4>1, ElemsTyped, AppendQueue DEF Order
      <4> QED BY <3>1, <4>2 DEF Order
    <3>4. \A p \in Peer : \A r \in Elems(inbox'[p]) : r \in Elems(inbox[p]) \/ r = h
      BY <3>1, <3>2
    <3>5. \A e \in Elems(executed) : e.by \in Peer
      BY ElemsTyped DEF Execution
    <3>6. \A e \in Elems(executed) : \A r \in Elems(inbox'[e.by]) : e.request.run < r.run
      BY <2>2, <3>4, <3>5 DEF Order
    <3>7. \A p \in Peer : \A r \in Elems(inbox'[p]), q \in Elems(requests') : r.run < q.run
      BY <2>3, <2>4, <3>4 DEF Order
    <3> QED BY <2>1, <2>3, <3>3, <3>6, <3>7 DEF Order
  <2>6. CASE inbox' = inbox
    BY <2>1, <2>3, <2>6 DEF Order
  <2> QED BY <1>3, <2>2, <2>5, <2>6 DEF Route
<1>4. ASSUME NEW p \in Peer, Close(p), UNCHANGED <<requests, executed>> PROVE Order'
  <2>1. \A q \in Peer : inbox'[q] = IF q = p THEN <<>> ELSE inbox[q]
    BY <1>4 DEF Close, Typed
  <2>2. Elems(<<>>) = {} /\ SortedBy(<<>>, Earlier)
    BY EmptyQueue
  <2>3. \A q \in Peer : Elems(inbox'[q]) \subseteq Elems(inbox[q]) /\ SortedBy(inbox'[q], Earlier)
    BY <2>1, <2>2 DEF Order
  <2>4. \A e \in Elems(executed) : e.by \in Peer
    BY ElemsTyped DEF Execution
  <2> QED BY <1>4, <2>3, <2>4 DEF Order
<1>5. ASSUME NEW p \in Peer, NEW status \in {"OK", "KO"}, Execute(p, status) PROVE Order'
  <2>1. PICK h \in CommandRequest, e \in Execution :
           /\ h = Head(inbox[p]) /\ h \in Elems(inbox[p])
           /\ e = [request |-> h, by |-> p, status |-> status]
           /\ executed' = Append(executed, e) /\ Elems(executed') = Elems(executed) \cup {e}
           /\ inbox[p] # <<>>
           /\ \A q \in Peer : inbox'[q] = IF q = p THEN Tail(inbox[p]) ELSE inbox[q]
           /\ requests' = requests
    BY <1>5, ExecutionOf
  <2>2. Elems(Tail(inbox[p])) \subseteq Elems(inbox[p]) /\ SortedBy(Tail(inbox[p]), Earlier)
        /\ \A r \in Elems(Tail(inbox[p])) : <<h, r>> \in Earlier
    BY <2>1, ElemsTyped, TailQueue DEF Order
  <2>3. \A r \in Elems(Tail(inbox[p])) : h.run < r.run
    BY <2>2, ElemsTyped, EarlierIsLess
  <2>4. \A q \in Peer : Elems(inbox'[q]) \subseteq Elems(inbox[q]) /\ SortedBy(inbox'[q], Earlier)
    BY <2>1, <2>2 DEF Order
  <2>5. \A a \in Elems(executed) : a.by \in Peer
    BY ElemsTyped DEF Execution
  <2>6. e.by = p /\ e.request = h
    BY <2>1
  <2>7. SortedBy(executed', Rising)
    <3>1. \A a \in Elems(executed) : <<a, e>> \in Rising
      BY <2>1, <2>6, ElemsTyped, EarlierIsLess DEF Order
    <3> QED BY <2>1, <3>1, ElemsTyped, AppendQueue DEF Order
  <2>8. \A a \in Elems(executed') : \A r \in Elems(inbox'[a.by]) : a.request.run < r.run
    BY <2>1, <2>3, <2>4, <2>5, <2>6 DEF Order
  <2>9. \A a \in Elems(executed'), q \in Elems(requests') : a.request.run < q.run
    BY <2>1, <2>6 DEF Order
  <2> QED BY <2>1, <2>4, <2>7, <2>8, <2>9 DEF Order
<1>6. CASE UNCHANGED <<requests, inbox, executed>>
  BY <1>6 DEF Order
<1> QED BY <1>1, <1>2, <1>3, <1>4, <1>5, <1>6, CommandSteps

-----------------------------------------------------------------------------
\* The steps that answers take.
LEMMA AnswerSteps ==
  ASSUME [Next]_vars
  PROVE  \/ /\ incoming' \in {incoming, <<>>} \/ (incoming # <<>> /\ incoming' = Tail(incoming))
            /\ UNCHANGED <<outbox, executed>>
         \/ \E p \in Peer : Deliver(p)
         \/ \E p \in Peer : (Start(p) \/ LoseAnswers(p)) /\ UNCHANGED <<incoming, executed>>
         \/ \E p \in Peer, status \in {"OK", "KO"} : Execute(p, status)
<1> USE DEF vars, client, peerVars
<1>1. ASSUME NEW line \in Line, Launch(line) PROVE UNCHANGED <<incoming, outbox, executed>>
  BY <1>1 DEF Launch
<1>2. ASSUME start_ \/ timer_check_exp \/ StopClient \/ Delete \/ Destroy \/ Tick
      PROVE  UNCHANGED <<incoming, outbox, executed>>
  BY <1>2 DEF start_, timer_check_exp, StopClient, Delete, Destroy, Tick
<1>3. ASSUME Route PROVE UNCHANGED <<incoming, outbox, executed>>
  BY <1>3 DEF Route, Receive
<1>4. ASSUME fd_poll \/ StopHook \/ Interrupted
      PROVE  /\ incoming' \in {incoming, <<>>} \/ (incoming # <<>> /\ incoming' = Tail(incoming))
             /\ UNCHANGED <<outbox, executed>>
  BY <1>4 DEF fd_poll, StopHook, Interrupted
<1>5. ASSUME NEW p \in Peer, Process(p)
      PROVE  \/ (Start(p) \/ LoseAnswers(p)) /\ UNCHANGED <<incoming, executed>>
             \/ \E status \in {"OK", "KO"} : Execute(p, status)
             \/ UNCHANGED <<incoming, outbox, executed>>
  BY <1>5 DEF Process, Signal, Close
<1> QED BY <1>1, <1>2, <1>3, <1>4, <1>5 DEF Next, Main

\* What was executed stays so.
LEMMA ExecutedGrows ==
  ASSUME Typed, [Next]_vars
  PROVE  Elems(executed) \subseteq Elems(executed')
<1>1. CASE \E p \in Peer, status \in {"OK", "KO"} : Execute(p, status)
  BY <1>1, ExecutionOf
<1>2. CASE executed' = executed
  BY <1>2
<1> QED BY <1>1, <1>2, AnswerSteps DEF Deliver

LEMMA ToldStays ==
  ASSUME Typed, [Next]_vars, NEW m, Told(m)
  PROVE  Told(m)'
BY ExecutedGrows DEF Told

\* A message moves from a process to the client, or is lost.
LEMMA DeliveryOf ==
  ASSUME Typed, NEW p \in Peer, Deliver(p)
  PROVE  \E m \in Message :
           /\ m = Head(outbox[p]) /\ m \in Elems(outbox[p])
           /\ \/ incoming' = Append(incoming, m) /\ Elems(incoming') = Elems(incoming) \cup {m}
              \/ incoming' = incoming
           /\ outbox[p] # <<>>
           /\ \A q \in Peer : outbox'[q] = IF q = p THEN Tail(outbox[p]) ELSE outbox[q]
           /\ Elems(Tail(outbox[p])) \subseteq Elems(outbox[p])
           /\ UNCHANGED executed
<1>1. outbox[p] # <<>> /\ outbox[p] \in Seq(Message)
  BY DEF Deliver, Take, Typed
<1>2. /\ Head(outbox[p]) \in Message /\ Head(outbox[p]) \in Elems(outbox[p])
      /\ Elems(Tail(outbox[p])) \subseteq Elems(outbox[p])
  BY <1>1, TailQueue
<1>3. \A q \in Peer : outbox'[q] = IF q = p THEN Tail(outbox[p]) ELSE outbox[q]
  BY DEF Deliver, Take, Typed
<1>4. Elems(Append(incoming, Head(outbox[p]))) = Elems(incoming) \cup {Head(outbox[p])}
  BY <1>2, ElemsTyped, AppendQueue
<1> QED BY <1>1, <1>2, <1>3, <1>4 DEF Deliver

LEMMA AnsweredNext == Typed /\ Provenance /\ Order /\ Answered /\ [Next]_vars => Answered'
<1> SUFFICES ASSUME Typed, Provenance, Order, Answered, [Next]_vars PROVE Answered'
  OBVIOUS
<1>0. \A m : Told(m) => Told(m)'
  BY ToldStays
<1>1. CASE /\ incoming' \in {incoming, <<>>} \/ (incoming # <<>> /\ incoming' = Tail(incoming))
           /\ UNCHANGED <<outbox, executed>>
  <2>1. Elems(incoming') \subseteq Elems(incoming) /\ SortedBy(incoming', AnswersRise)
    <3>1. CASE incoming' = incoming
      BY <3>1 DEF Answered
    <3>2. CASE incoming' = <<>>
      BY <3>2, EmptyQueue
    <3>3. CASE incoming # <<>> /\ incoming' = Tail(incoming)
      BY <3>3, ElemsTyped, TailQueue DEF Answered
    <3> QED BY <1>1, <3>1, <3>2, <3>3
  <2> QED BY <1>0, <1>1, <2>1 DEF Answered
<1>2. ASSUME NEW p \in Peer, Deliver(p) PROVE Answered'
  <2>1. PICK m \in Message :
           /\ m = Head(outbox[p]) /\ m \in Elems(outbox[p])
           /\ \/ incoming' = Append(incoming, m) /\ Elems(incoming') = Elems(incoming) \cup {m}
              \/ incoming' = incoming
           /\ outbox[p] # <<>>
           /\ \A q \in Peer : outbox'[q] = IF q = p THEN Tail(outbox[p]) ELSE outbox[q]
           /\ Elems(Tail(outbox[p])) \subseteq Elems(outbox[p])
           /\ UNCHANGED executed
    BY <1>2, DeliveryOf
  <2>2. SortedBy(Tail(outbox[p]), AnswersRise) /\ \A n \in Elems(Tail(outbox[p])) : <<m, n>> \in AnswersRise
    BY <2>1, ElemsTyped, TailQueue DEF Answered
  <2>3. \A n \in Elems(Tail(outbox[p])) : Before(m, n)
    BY <2>1, <2>2, ElemsTyped, EarlierIsLess
  <2>4. \A q \in Peer : Elems(outbox'[q]) \subseteq Elems(outbox[q]) /\ SortedBy(outbox'[q], AnswersRise)
    BY <2>1, <2>2 DEF Answered
  <2>5. \A n \in Elems(incoming') : n \in Elems(incoming) \/ n = m
    BY <2>1
  <2>6. SortedBy(incoming', AnswersRise)
    <3>1. \A n \in Elems(incoming) : <<n, m>> \in AnswersRise
      BY <2>1, ElemsTyped, EarlierIsLess DEF Answered
    <3>2. SortedBy(Append(incoming, m), AnswersRise)
      BY <3>1, ElemsTyped, AppendQueue DEF Answered
    <3> QED BY <2>1, <3>2 DEF Answered
  <2>7. ASSUME NEW q \in Peer, NEW n \in Elems(incoming'), NEW o \in Elems(outbox'[q])
        PROVE  Before(n, o)
    <3>1. CASE n \in Elems(incoming)
      BY <2>4, <3>1 DEF Answered
    <3>2. CASE n = m /\ q = p
      BY <2>1, <2>3, <3>2
    <3>3. CASE n = m /\ q # p
      <4>1. m.from = p /\ o.from = q
        BY <2>1, <2>4 DEF Answered
      <4> QED BY <3>3, <4>1 DEF Before
    <3> QED BY <2>5, <3>1, <3>2, <3>3
  <2>8. Told(m)
    BY <2>1 DEF Answered
  <2>9. \A n \in Elems(incoming') : Told(n)'
    BY <1>0, <2>5, <2>8 DEF Answered
  <2>10. \A q \in Peer : \A o \in Elems(outbox'[q]) : o.from = q /\ Told(o)'
    BY <1>0, <2>4 DEF Answered
  <2> QED BY <2>4, <2>6, <2>7, <2>9, <2>10 DEF Answered
<1>3. ASSUME NEW p \in Peer, Start(p) \/ LoseAnswers(p), UNCHANGED <<incoming, executed>> PROVE Answered'
  <2>1. Dummy(p) \in Message /\ Dummy(p).from = p /\ Dummy(p).status = "dummy"
    BY MessagesAreTyped DEF Dummy
  <2>2. \A q \in Peer : \/ outbox'[q] = outbox[q]
                        \/ outbox'[q] = <<>>
                        \/ q = p /\ outbox'[q] = Append(outbox[q], Dummy(p))
    <3>1. outbox \in [Peer -> Seq(Message)]
      BY DEF Typed
    <3>2. CASE Start(p)
      <4>1. outbox' = outbox \/ outbox' = [outbox EXCEPT ![p] = Append(@, Dummy(p))]
        BY <3>2 DEF Start
      <4>2. \A q \in Peer : outbox'[q] = outbox[q] \/ (q = p /\ outbox'[q] = Append(outbox[q], Dummy(p)))
        BY <3>1, <4>1
      <4> QED BY <4>2
    <3>3. CASE LoseAnswers(p)
      <4>1. outbox' = [outbox EXCEPT ![p] = <<>>]
        BY <3>3 DEF LoseAnswers
      <4>2. \A q \in Peer : q # p => outbox'[q] = outbox[q]
        BY <3>1, <4>1
      <4>3. outbox'[p] = <<>>
        BY <3>1, <4>1
      <4> QED BY <4>2, <4>3
    <3> QED BY <1>3, <3>2, <3>3
  <2>3. \A q \in Peer : Elems(Append(outbox[q], Dummy(p))) = Elems(outbox[q]) \cup {Dummy(p)}
    BY <2>1, ElemsTyped, AppendQueue
  <2>4. Elems(<<>>) = {} /\ SortedBy(<<>>, AnswersRise)
    BY EmptyQueue
  <2>5. \A q \in Peer : \A o \in Elems(outbox'[q]) : o \in Elems(outbox[q]) \/ (q = p /\ o = Dummy(p))
    <3>1. ASSUME NEW q \in Peer, NEW o \in Elems(outbox'[q])
          PROVE  o \in Elems(outbox[q]) \/ (q = p /\ o = Dummy(p))
      <4>1. CASE outbox'[q] = outbox[q]
        BY <3>1, <4>1
      <4>2. CASE outbox'[q] = <<>>
        BY <2>4, <3>1, <4>2
      <4>3. CASE q = p /\ outbox'[q] = Append(outbox[q], Dummy(p))
        BY <2>3, <3>1, <4>3
      <4> QED BY <2>2, <4>1, <4>2, <4>3
    <3> QED BY <3>1
  <2>6. \A n : Before(n, Dummy(p))
    BY <2>1 DEF Before
  <2>7. SortedBy(Append(outbox[p], Dummy(p)), AnswersRise)
    <3>1. \A n \in Elems(outbox[p]) : <<n, Dummy(p)>> \in AnswersRise
      BY <2>1, <2>6, ElemsTyped, EarlierIsLess
    <3> QED BY <2>1, <3>1, ElemsTyped, AppendQueue DEF Answered
  <2>8. \A q \in Peer : SortedBy(outbox'[q], AnswersRise)
    BY <2>2, <2>4, <2>7 DEF Answered
  <2>9. Told(Dummy(p))'
    BY <2>1 DEF Told, Dummy
  <2>10. \A q \in Peer : \A o \in Elems(outbox'[q]) : o.from = q /\ Told(o)'
    BY <1>0, <2>1, <2>5, <2>9 DEF Answered
  <2>11. \A n \in Elems(incoming') : Told(n)'
    BY <1>0, <1>3 DEF Answered
  <2>12. \A q \in Peer : \A n \in Elems(incoming'), o \in Elems(outbox'[q]) : Before(n, o)
    BY <1>3, <2>5, <2>6 DEF Answered
  <2> QED BY <1>3, <2>8, <2>10, <2>11, <2>12 DEF Answered
<1>4. ASSUME NEW p \in Peer, NEW status \in {"OK", "KO"}, Execute(p, status) PROVE Answered'
  <2>1. PICK h \in CommandRequest, e \in Execution :
           /\ h = Head(inbox[p]) /\ h \in Elems(inbox[p])
           /\ e = [request |-> h, by |-> p, status |-> status]
           /\ Elems(executed') = Elems(executed) \cup {e}
           /\ \A q \in Peer : outbox'[q] = outbox[q] \/
                                (q = p /\ outbox'[q] = Append(outbox[p], Answer(p, h, status)))
           /\ Answer(p, h, status) \in Message
           /\ incoming' = incoming
    BY <1>4, ExecutionOf DEF client
  <2>2. PICK a \in Message : a = Answer(p, h, status)
    BY <2>1
  <2>3. a.from = p /\ a.status = status /\ a.run = h.run /\ e.request = h /\ e.by = p /\ e.status = status
    BY <2>1, <2>2 DEF Answer
  <2>4. ASSUME NEW n, Told(n) PROVE Before(n, a)
    <3>1. ASSUME n.status # "dummy", n.from = p PROVE n.run < a.run
      <4>1. PICK x \in Elems(executed) : x.request.run = n.run /\ x.by = p
        BY <2>4, <3>1 DEF Told
      <4> QED BY <2>1, <2>3, <4>1 DEF Order
    <3> QED BY <2>3, <3>1 DEF Before
  <2>5. \A q \in Peer : \A o \in Elems(outbox'[q]) : o \in Elems(outbox[q]) \/ (q = p /\ o = a)
    <3>1. Elems(Append(outbox[p], a)) = Elems(outbox[p]) \cup {a}
      BY ElemsTyped, AppendQueue
    <3> QED BY <2>1, <2>2, <3>1
  <2>6. SortedBy(Append(outbox[p], a), AnswersRise)
    <3>1. \A n \in Elems(outbox[p]) : <<n, a>> \in AnswersRise
      BY <2>4, ElemsTyped, EarlierIsLess DEF Answered
    <3> QED BY <3>1, ElemsTyped, AppendQueue DEF Answered
  <2>7. \A q \in Peer : SortedBy(outbox'[q], AnswersRise)
    BY <2>1, <2>2, <2>6 DEF Answered
  <2>8. Told(a)'
    BY <2>1, <2>3 DEF Told
  <2>9. \A q \in Peer : \A o \in Elems(outbox'[q]) : o.from = q /\ Told(o)'
    BY <1>0, <2>3, <2>5, <2>8 DEF Answered
  <2>10. \A n \in Elems(incoming') : Told(n)'
    BY <1>0, <2>1 DEF Answered
  <2>11. \A q \in Peer : \A n \in Elems(incoming'), o \in Elems(outbox'[q]) : Before(n, o)
    BY <2>1, <2>4, <2>5 DEF Answered
  <2> QED BY <2>1, <2>7, <2>9, <2>10, <2>11 DEF Answered
<1> QED BY <1>1, <1>2, <1>3, <1>4, AnswerSteps

-----------------------------------------------------------------------------
\* Only an answer makes a run succeed.
LEMMA AcceptedSteps ==
  ASSUME Typed, [Next]_vars, NEW q \in 1..Run', Accepted(q)'
  PROVE  \/ q \in 1..Run /\ Accepted(q)
         \/ /\ fd_poll /\ q = Run
            /\ incoming # <<>> /\ Expected(Head(incoming), Current)
<1> USE DEF vars, client, peerVars
<1>0. Run \in Nat /\ Run' \in Nat /\ Run <= Run'
  BY HistoryGrows
<1>1. returned \in Seq({0, 1, 130}) /\ Len(returned) \in Nat /\ DOMAIN returned = 1..Len(returned)
  BY DEF Typed
<1>a. \A v \in {0, 1, 130} :
        /\ DOMAIN Append(returned, v) = 1..Len(returned) + 1
        /\ Append(returned, v)[Len(returned) + 1] = v
        /\ \A k \in 1..Len(returned) : Append(returned, v)[k] = returned[k]
  BY <1>1
<1>2. CASE UNCHANGED <<issued, returned, flags>> /\ (pc' \notin {"idle", "start"} => pc \notin {"idle", "start"})
  <2>1. Run' = Run
    BY <1>2 DEF Run
  <2> QED BY <1>2, <2>1 DEF Accepted
<1>3. ASSUME NEW line \in Line, Launch(line) PROVE q \in 1..Run /\ Accepted(q)
  <2>1. pc = "idle" /\ Len(returned) = Run /\ Run' = Run + 1
    BY <1>3 DEF Launch, Typed, Run
  <2>2. CASE options_parse(line) # {}
    <3>1. returned' = returned /\ pc' = "start"
      BY <1>3, <2>2 DEF Launch
    <3> QED BY <1>0, <1>1, <2>1, <3>1 DEF Accepted
  <2>3. CASE options_parse(line) = {}
    <3>1. returned' = Append(returned, 1) /\ pc' = "idle"
      BY <1>3, <2>1, <2>3 DEF Launch
    <3>2. q \in DOMAIN returned' /\ returned'[q] = 0
      BY <3>1 DEF Accepted
    <3>3. q \in 1..Len(returned) + 1 /\ q # Len(returned) + 1
      BY <1>a, <3>1, <3>2
    <3>4. q \in 1..Len(returned)
      BY <1>1, <3>3
    <3>5. returned[q] = 0
      BY <1>a, <3>1, <3>2, <3>4
    <3> QED BY <1>1, <2>1, <3>4, <3>5 DEF Accepted
  <2> QED BY <2>2, <2>3
<1>4. CASE start_
  <2>1. returned' = returned /\ Run' = Run /\ flags'.received_answer_ = FALSE
    BY <1>4 DEF start_, Run, NoFlags
  <2> QED BY <2>1 DEF Accepted
<1>5. CASE fd_poll
  <2>1. returned' = returned /\ Run' = Run /\ pc = "poll"
    BY <1>5 DEF fd_poll, Run
  <2>2. CASE q \in DOMAIN returned /\ returned[q] = 0
    BY <2>1, <2>2 DEF Accepted
  <2>3. CASE q = Run /\ flags'.received_answer_
    <3>1. CASE flags' = flags
      BY <2>1, <2>3, <3>1 DEF Accepted
    <3>2. CASE incoming # <<>> /\ flags' = [flags EXCEPT !.received_answer_ = @ \/ Expected(Head(incoming), Current)]
      <4>1. flags'.received_answer_ = (flags.received_answer_ \/ Expected(Head(incoming), Current))
        BY <3>2 DEF Typed
      <4>2. CASE flags.received_answer_
        BY <2>1, <2>3, <4>2 DEF Accepted
      <4>3. CASE Expected(Head(incoming), Current)
        BY <1>5, <2>3, <3>2, <4>3
      <4> QED BY <2>3, <4>1, <4>2, <4>3
    <3> QED BY <1>5, <3>1, <3>2 DEF fd_poll
  <2> QED BY <2>1, <2>2, <2>3 DEF Accepted
<1>6. CASE timer_check_exp
  <2>1. flags' = [flags EXCEPT !.timeout_expired_ = @ \/ timer = "due"]
    BY <1>6 DEF timer_check_exp
  <2>2. flags'.received_answer_ = flags.received_answer_
    BY <2>1 DEF Typed
  <2>3. returned' = returned /\ Run' = Run /\ pc = "check"
    BY <1>6 DEF timer_check_exp, Run
  <2> QED BY <2>2, <2>3 DEF Accepted
<1>7. CASE StopHook \/ StopClient \/ Delete
  BY <1>2, <1>7 DEF StopHook, StopClient, Delete
<1>8. CASE Destroy \/ Interrupted
  <2>1. /\ returned' = Append(returned, 130) \/ (returned' = Append(returned, IF flags.received_answer_ THEN 0 ELSE 1) /\ pc = "destroy")
        /\ Run' = Run /\ pc # "idle" /\ pc' = "idle"
    BY <1>8 DEF Destroy, Interrupted, Run
  <2>2. Len(returned) = Run - 1
    BY <2>1 DEF Typed
  <2>3. q \in 1..Len(returned) + 1 /\ returned'[q] = 0
    BY <1>1, <2>1 DEF Accepted
  <2>4. CASE q \in 1..Len(returned)
    <3>1. returned[q] = 0
      BY <1>1, <2>1, <2>3, <2>4
    <3> QED BY <1>0, <1>1, <2>1, <2>4, <3>1 DEF Accepted
  <2>5. CASE q = Len(returned) + 1
    <3>1. pc = "destroy" /\ flags.received_answer_
      <4>1. \A v : Append(returned, v)[Len(returned) + 1] = v
        BY <1>1
      <4> QED BY <2>1, <2>3, <2>5, <4>1
    <3> QED BY <1>0, <2>1, <2>2, <2>5, <3>1 DEF Accepted
  <2> QED BY <1>1, <2>3, <2>4, <2>5
<1>9. CASE Tick \/ Route
  BY <1>2, <1>9 DEF Tick, Route
<1>10. ASSUME NEW p \in Peer, Deliver(p) \/ Process(p)
       PROVE UNCHANGED <<issued, returned, flags, pc>>
  BY <1>10 DEF Deliver, Process, Execute
<1>11. CASE UNCHANGED vars
  BY <1>2, <1>11
<1> QED BY <1>2, <1>3, <1>4, <1>5, <1>6, <1>7, <1>8, <1>9, <1>10, <1>11 DEF Next, Main

\* What happened to earlier runs does not change any more.
LEMMA CleanStays ==
  ASSUME Typed, [Next]_vars, NEW q \in 1..Run, Clean(q)'
  PROVE  Clean(q)
<1>1. Run \in Nat /\ \A k \in 1..Run : issued'[k] = issued[k]
  BY HistoryGrows
<1>2. returned \in Seq({0, 1, 130}) /\ Len(returned) >= Run - 1
  BY <1>1 DEF Typed
<1>3. \/ returned' = returned
      \/ \E v \in {0, 1, 130} : returned' = Append(returned, v)
  BY DEF Next, Main, vars, Launch, start_, fd_poll, timer_check_exp, StopHook, StopClient, Delete,
         Destroy, Interrupted, Tick, Route, Deliver, Process, Execute
<1>4. \A k \in 1..Run - 1 : returned'[k] = returned[k]
  BY <1>1, <1>2, <1>3
<1>5. \A k \in 1..q - 1 : k \in 1..Run - 1 /\ k \in 1..Run
  BY <1>1
<1>6. ASSUME NEW k \in 1..q - 1, GaveUp(k) PROVE issued[k]["i"] # issued[q]["i"]
  <2>1. GaveUp(k)'
    BY <1>1, <1>4, <1>5, <1>6 DEF GaveUp
  <2>2. issued'[k]["i"] # issued'[q]["i"]
    BY <2>1 DEF Clean
  <2> QED BY <1>1, <1>5, <2>2
<1> QED BY <1>6 DEF Clean

\* A command is executed once, so its answer, once used up, does not come again.
LEMMA AchievedStays ==
  ASSUME Typed, Provenance, Order, [Next]_vars, NEW q \in 1..Run, Achieved(q), UsedUp(q)
  PROVE  Achieved(q)' /\ UsedUp(q)'
<1>1. Achieved(q)'
  BY ExecutedGrows, HistoryGrows DEF Achieved
<1>2. CASE /\ incoming' \in {incoming, <<>>} \/ (incoming # <<>> /\ incoming' = Tail(incoming))
           /\ UNCHANGED <<outbox, executed>>
  <2>1. Elems(incoming') \subseteq Elems(incoming)
    BY <1>2, EmptyQueue, ElemsTyped, TailQueue
  <2> QED BY <1>1, <1>2, <2>1 DEF UsedUp
<1>3. ASSUME NEW p \in Peer, Deliver(p) PROVE UsedUp(q)'
  <2>1. PICK m \in Message :
           /\ m \in Elems(outbox[p])
           /\ \/ incoming' = Append(incoming, m) /\ Elems(incoming') = Elems(incoming) \cup {m}
              \/ incoming' = incoming
           /\ \A o \in Peer : outbox'[o] = IF o = p THEN Tail(outbox[p]) ELSE outbox[o]
           /\ Elems(Tail(outbox[p])) \subseteq Elems(outbox[p])
    BY <1>3, DeliveryOf
  <2>2. \A o \in Peer : Elems(outbox'[o]) \subseteq Elems(outbox[o])
    BY <2>1
  <2>3. Elems(incoming') \subseteq Elems(incoming) \cup {m}
    BY <2>1
  <2> QED BY <2>1, <2>2, <2>3 DEF UsedUp
<1>4. ASSUME NEW p \in Peer, Start(p) \/ LoseAnswers(p), UNCHANGED <<incoming, executed>> PROVE UsedUp(q)'
  <2>1. Dummy(p) \in Message /\ Dummy(p).status = "dummy"
    BY MessagesAreTyped DEF Dummy
  <2>2. Elems(<<>>) = {} /\ Elems(Append(outbox[p], Dummy(p))) = Elems(outbox[p]) \cup {Dummy(p)}
    BY <2>1, EmptyQueue, ElemsTyped, AppendQueue
  <2>3. ASSUME NEW o \in Peer, NEW m \in Elems(outbox'[o]) PROVE m \in Elems(outbox[o]) \/ m = Dummy(p)
    <3>1. outbox \in [Peer -> Seq(Message)]
      BY DEF Typed
    <3>2. CASE Start(p)
      <4>1. outbox' = outbox \/ outbox' = [outbox EXCEPT ![p] = Append(@, Dummy(p))]
        BY <3>2 DEF Start
      <4>2. outbox'[o] = outbox[o] \/ (o = p /\ outbox'[o] = Append(outbox[o], Dummy(p)))
        BY <3>1, <4>1
      <4>3. CASE outbox'[o] = outbox[o]
        BY <2>3, <4>3
      <4>4. CASE o = p /\ outbox'[o] = Append(outbox[o], Dummy(p))
        <5>1. m \in Elems(Append(outbox[p], Dummy(p)))
          BY <2>3, <4>4
        <5> QED BY <2>2, <4>4, <5>1
      <4> QED BY <4>2, <4>3, <4>4
    <3>3. CASE LoseAnswers(p)
      <4>1. outbox' = [outbox EXCEPT ![p] = <<>>]
        BY <3>3 DEF LoseAnswers
      <4>2. CASE o = p
        <5>1. outbox'[o] = <<>>
          BY <3>1, <4>1, <4>2
        <5> QED BY <2>2, <2>3, <5>1
      <4>3. CASE o # p
        BY <2>3, <3>1, <4>1, <4>3
      <4> QED BY <4>2, <4>3
    <3> QED BY <1>4, <3>2, <3>3
  <2> QED BY <1>4, <2>1, <2>3 DEF UsedUp
<1>5. ASSUME NEW p \in Peer, NEW status \in {"OK", "KO"}, Execute(p, status) PROVE UsedUp(q)'
  <2>1. PICK h \in CommandRequest :
           /\ h \in Elems(inbox[p])
           /\ \A o \in Peer : outbox'[o] = outbox[o] \/
                                (o = p /\ outbox'[o] = Append(outbox[p], Answer(p, h, status)))
           /\ Answer(p, h, status) \in Message
           /\ incoming' = incoming
    BY <1>5, ExecutionOf DEF client
  <2>2. PICK e \in Elems(executed) : e.request.run = q /\ e.by = issued[q]["i"]
    BY DEF Achieved
  <2>3. h.run # q
    <3>1. SUFFICES ASSUME h.run = q PROVE FALSE
      OBVIOUS
    <3>2. e.by = p
      BY <2>1, <2>2, <3>1 DEF Provenance, Asked
    <3>3. e.request.run < h.run
      BY <2>1, <2>2, <3>2 DEF Order
    <3>4. h.run \in Nat
      BY DEF CommandRequest
    <3> QED BY <2>2, <3>1, <3>3, <3>4
  <2>4. Elems(Append(outbox[p], Answer(p, h, status))) = Elems(outbox[p]) \cup {Answer(p, h, status)}
    BY <2>1, ElemsTyped, AppendQueue
  <2>5. Answer(p, h, status).run # q
    BY <2>3 DEF Answer
  <2>6. ASSUME NEW o \in Peer, NEW m \in Elems(outbox'[o])
        PROVE  m \in Elems(outbox[o]) \/ m = Answer(p, h, status)
    <3>1. CASE outbox'[o] = outbox[o]
      BY <3>1
    <3>2. CASE o = p /\ outbox'[o] = Append(outbox[p], Answer(p, h, status))
      <4>1. Elems(outbox'[o]) = Elems(outbox[p]) \cup {Answer(p, h, status)}
        BY <2>4, <3>2
      <4> QED BY <3>2, <4>1
    <3> QED BY <2>1, <3>1, <3>2
  <2> QED BY <2>1, <2>5, <2>6 DEF UsedUp
<1> QED BY <1>1, <1>2, <1>3, <1>4, <1>5, AnswerSteps

\* The answer that a run takes is to its own command, unless an earlier run
\* gave up on the process.
LEMMA OwnIsTaken ==
  ASSUME Typed, Provenance, Answered, Success, fd_poll, Clean(Run),
         incoming # <<>>, Expected(Head(incoming), Current)
  PROVE  Achieved(Run)' /\ UsedUp(Run)'
<1>1. PICK m \in Message : m = Head(incoming) /\ m \in Elems(incoming)
  BY ElemsTyped, TailQueue
<1>2. Run \in Nat /\ Run >= 1 /\ Len(returned) = Run - 1 /\ returned \in Seq({0, 1, 130}) /\ pc = "poll"
  BY RunIsKnown DEF fd_poll, Typed
<1>3. m.status # "dummy" /\ m.from = Current["i"] /\ Matches(m.status, Current["r"])
  BY <1>1 DEF Expected
<1>4. PICK e \in Elems(executed) : e.request.run = m.run /\ e.by = m.from /\ e.status = m.status
  BY <1>1, <1>3 DEF Answered, Told
<1>5. m.run \in 1..Run /\ m.from = issued[m.run]["i"] /\ options_parse(issued[m.run]) # {}
  <2>1. Asked(e.request) /\ e.by = e.request.peer
    BY <1>4 DEF Provenance
  <2>2. Sent = Run
    BY <1>2 DEF Sent
  <2> QED BY <1>4, <2>1, <2>2 DEF Asked
<1>6. m.run = Run
  <2>1. SUFFICES ASSUME m.run \in 1..Run - 1 PROVE FALSE
    BY <1>2, <1>5
  <2>2. returned[m.run] = 0
    BY <1>3, <1>5, <2>1 DEF Clean, GaveUp, Current
  <2>3. Accepted(m.run)
    <3>1. m.run \in DOMAIN returned
      BY <1>2, <2>1
    <3> QED BY <2>2, <3>1 DEF Accepted
  <2>4. Clean(m.run)
    <3>1. ASSUME NEW k \in 1..m.run - 1, GaveUp(k) PROVE issued[k]["i"] # issued[m.run]["i"]
      <4>1. k \in 1..Run - 1
        BY <1>2, <2>1
      <4>2. issued[k]["i"] # issued[Run]["i"]
        BY <3>1, <4>1 DEF Clean
      <4> QED BY <1>3, <1>5, <4>2 DEF Current
    <3> QED BY <3>1 DEF Clean
  <2>5. UsedUp(m.run)
    BY <1>5, <2>3, <2>4 DEF Success
  <2> QED BY <1>1, <1>3, <2>5 DEF UsedUp
<1>7. UNCHANGED <<issued, executed, outbox>> /\ Run' = Run
  BY DEF fd_poll, peerVars, Run
<1>8. Achieved(Run)'
  BY <1>3, <1>4, <1>6, <1>7 DEF Achieved, Current
<1>9. incoming' = Tail(incoming)
  BY DEF fd_poll
<1>10. \A n : Told(n) /\ n.status # "dummy" /\ n.run = Run => n.from = m.from
  <2>1. ASSUME NEW n, Told(n), n.status # "dummy", n.run = Run PROVE n.from = m.from
    <3>1. PICK x \in Elems(executed) : x.request.run = n.run /\ x.by = n.from
      BY <2>1 DEF Told
    <3>2. n.from = issued[Run]["i"]
      BY <2>1, <3>1 DEF Provenance, Asked
    <3> QED BY <1>3, <3>2 DEF Current
  <2> QED BY <2>1
<1>11. \A n : Told(n) /\ n.status # "dummy" /\ Before(m, n) => n.run # Run
  BY <1>2, <1>3, <1>6, <1>10 DEF Before
<1>12. \A n \in Elems(Tail(incoming)) : n \in Elems(incoming) /\ Before(m, n)
  <2>1. \A n \in Elems(Tail(incoming)) : n \in Elems(incoming) /\ <<m, n>> \in AnswersRise
    BY <1>1, ElemsTyped, TailQueue DEF Answered
  <2> QED BY <2>1, ElemsTyped, EarlierIsLess
<1>13. \A p \in Peer : \A n \in Elems(outbox[p]) : Told(n) /\ Before(m, n)
  BY <1>1 DEF Answered
<1>14. UsedUp(Run)'
  BY <1>7, <1>9, <1>11, <1>12, <1>13 DEF UsedUp, Answered
<1> QED BY <1>8, <1>14

LEMMA SuccessNext == Typed /\ Provenance /\ Order /\ Answered /\ Success /\ [Next]_vars => Success'
<1> SUFFICES ASSUME Typed, Provenance, Order, Answered, Success, [Next]_vars,
                    NEW q \in 1..Run', Accepted(q)', Clean(q)'
             PROVE  Achieved(q)' /\ UsedUp(q)'
  BY DEF Success
<1>1. CASE q \in 1..Run /\ Accepted(q)
  BY <1>1, CleanStays, AchievedStays DEF Success
<1>2. CASE fd_poll /\ q = Run /\ incoming # <<>> /\ Expected(Head(incoming), Current)
  <2>1. Run' = Run /\ q \in 1..Run
    BY <1>2 DEF fd_poll, Run
  <2>2. Clean(q)
    BY <2>1, CleanStays
  <2>3. Achieved(Run)' /\ UsedUp(Run)'
    BY <1>2, <2>2, OwnIsTaken
  <2> QED BY <1>2, <2>1, <2>3 DEF Achieved, UsedUp
<1> QED BY <1>1, <1>2, AcceptedSteps

-----------------------------------------------------------------------------
\* A parsed command says what its line says.
LEMMA LastValue ==
  ASSUME NEW args, DOMAIN args \subseteq Nat, NEW default, NEW i \in DOMAIN args,
         \A j \in DOMAIN args : args[j][1] = args[i][1] => j <= i
  PROVE  Value(args, args[i][1], default) = args[i][2]
<1> DEFINE at == {j \in DOMAIN args : args[j][1] = args[i][1]}
<1>1. i \in at /\ \A j \in at : j <= i
  OBVIOUS
<1>2. \A k \in at : (\A j \in at : j <= k) => k = i
  BY <1>1
<1>3. (CHOOSE k \in at : \A j \in at : j <= k) = i
  BY <1>1, <1>2
<1> QED BY <1>1, <1>3 DEF Value

LEMMA ParsedAsTyped ==
  ASSUME NEW line \in Line, NEW cmd \in options_parse(line)
  PROVE  AsTyped(cmd, line)
<1> DEFINE args == line["o"]
<1>1. DOMAIN args \subseteq Nat /\ DOMAIN line = {"i", "t", "o", "r"}
  BY LineAssumption DEF options_parse
<1>2. \A i \in DOMAIN args : \A default :
        (\A j \in DOMAIN args : args[j][1] = args[i][1] => j <= i)
          => Value(args, args[i][1], default) = args[i][2]
  BY <1>1, LastValue
<1> HIDE DEF args
<1>3. CASE line["t"] = "add" /\ cmd \in parse_add(args)
  BY <1>2, <1>3 DEF parse_add, Parsed, AsTyped, Member, args
<1>4. CASE line["t"] = "start" /\ cmd \in parse_start(args)
  BY <1>2, <1>4 DEF parse_start, Parsed, AsTyped, Member, args
<1>5. CASE line["t"] = "stop" /\ cmd \in parse_stop(args)
  BY <1>2, <1>5 DEF parse_stop, Parsed, AsTyped, Member, args
<1>6. CASE line["t"] = "del" /\ cmd \in parse_del(args)
  BY <1>2, <1>6 DEF parse_del, Parsed, AsTyped, Member, args
<1>7. CASE line["t"] = "bind" /\ cmd \in parse_bind(args)
  BY <1>2, <1>7 DEF parse_bind, Parsed, AsTyped, Member, args
<1>8. CASE line["t"] = "hook_zmq" /\ cmd \in parse_hook_zmq(args)
  <2>1. /\ \A i \in DOMAIN args : args[i][1] \in {"i", "c", "t", "n", "a"}
        /\ cmd = [type |-> "hook_zmq", id |-> Value(args, "i", 0),
                  client |-> Value(args, "c", FALSE), socket |-> Value(args, "t", 0),
                  name |-> Value(args, "n", nullptr), addr |-> Value(args, "a", nullptr)]
    BY <1>8 DEF parse_hook_zmq, Parsed
  <2>2. Member["hook_zmq"] = [i |-> "id", c |-> "client", t |-> "socket", n |-> "name", a |-> "addr"]
    BY DEF Member
  <2>3. ASSUME NEW i \in DOMAIN args, \A j \in DOMAIN args : args[j][1] = args[i][1] => j <= i
        PROVE  cmd[Member["hook_zmq"][args[i][1]]] = args[i][2]
    <3>1. \A default : Value(args, args[i][1], default) = args[i][2]
      BY <1>2, <2>3
    <3>2. CASE args[i][1] = "i"
      BY <2>1, <2>2, <3>1, <3>2
    <3>3. CASE args[i][1] = "c"
      <4>1. Member["hook_zmq"][args[i][1]] = "client"
        BY <2>2, <3>3
      <4>2. cmd["client"] = Value(args, "c", FALSE)
        BY <2>1
      <4>3. Value(args, "c", FALSE) = args[i][2]
        BY <3>1, <3>3, Zenon
      <4> QED BY <4>1, <4>2, <4>3
    <3>4. CASE args[i][1] = "t"
      BY <2>1, <2>2, <3>1, <3>4
    <3>5. CASE args[i][1] = "n"
      BY <2>1, <2>2, <3>1, <3>5
    <3>6. CASE args[i][1] = "a"
      BY <2>1, <2>2, <3>1, <3>6
    <3> QED BY <2>1, <3>2, <3>3, <3>4, <3>5, <3>6
  <2>4. cmd.type = "hook_zmq"
    BY <2>1
  <2> QED BY <1>8, <2>3, <2>4 DEF AsTyped, args
<1>9. CASE line["t"] = "term" /\ cmd \in parse_term
  BY <1>9 DEF parse_term, AsTyped
<1> QED BY <1>1, <1>3, <1>4, <1>5, <1>6, <1>7, <1>8, <1>9 DEF options_parse, args

-----------------------------------------------------------------------------
Inv == Typed /\ Stages /\ Provenance /\ Order /\ Answered /\ Success

LEMMA InvInit == Init => Inv
<1> SUFFICES ASSUME Init PROVE Inv
  OBVIOUS
<1>1. Typed /\ Stages
  BY TypedInit, StagesInit
<1>2. /\ requests = <<>> /\ incoming = <<>> /\ executed = <<>>
      /\ \A p \in Peer : inbox[p] = <<>> /\ outbox[p] = <<>>
  BY DEF Init, PeerInit
<1>3. Elems(<<>>) = {} /\ \A R : SortedBy(<<>>, R)
  BY EmptyQueue
<1>4. Provenance
  BY <1>2, <1>3 DEF Provenance
<1>5. Order
  BY <1>2, <1>3 DEF Order
<1>6. Answered
  BY <1>2, <1>3 DEF Answered
<1>7. Run = 0
  BY DEF Init, Run
<1>8. Success
  BY <1>7 DEF Success
<1> QED BY <1>1, <1>4, <1>5, <1>6, <1>8 DEF Inv

LEMMA InvNext == Inv /\ [Next]_vars => Inv'
BY TypedNext, StagesNext, ProvenanceNext, OrderNext, AnsweredNext, SuccessNext DEF Inv

LEMMA Invariance == Spec => []Inv
BY InvInit, InvNext, PTL DEF Spec

\* The variables of the client keep their shape.
THEOREM TypeCorrect == Spec => []TypeOK
<1>1. Inv => TypeOK
  <2> SUFFICES ASSUME Inv PROVE TypeOK
    OBVIOUS
  <2>1. Run \in Nat /\ Sent \in Nat /\ Sent <= Run
    <3>1. Run \in Nat /\ (pc # "idle" => Run >= 1)
      BY RunIsKnown DEF Inv
    <3>2. CASE pc = "start"
      BY <3>1, <3>2 DEF Sent
    <3>3. CASE pc # "start"
      BY <3>1, <3>3 DEF Sent
    <3> QED BY <3>2, <3>3
  <2>2. \A i \in DOMAIN requests : requests[i].run \in 1..Run
    <3>1. \A i \in DOMAIN requests : requests[i].run \in 1..Sent
      BY DEF Inv, Provenance, Asked, Elems
    <3> QED BY <2>1, <3>1
  <2>3. ASSUME NEW i \in DOMAIN incoming
        PROVE  incoming[i].from \in Peer /\ incoming[i].run \in 0..Run
    <3>1. PICK m \in Message : m = incoming[i] /\ Told(m)
      <4>1. incoming[i] \in Elems(incoming)
        BY DEF Elems
      <4> QED BY <4>1, ElemsTyped DEF Inv, Answered
    <3>2. CASE m.status = "dummy"
      BY <2>1, <3>1, <3>2 DEF Message
    <3>3. CASE m.status # "dummy"
      <4>1. PICK e \in Elems(executed) : e.request.run = m.run
        BY <3>1, <3>3 DEF Told
      <4>2. m.run \in 1..Sent
        BY <4>1 DEF Inv, Provenance, Asked
      <4> QED BY <2>1, <3>1, <4>2 DEF Message
    <3> QED BY <3>2, <3>3
  <2> QED BY <2>2, <2>3 DEF Inv, Typed, TypeOK
<1> QED BY <1>1, Invariance, PTL

\* A run that returns 0 has had its own command executed as expected, if no
\* earlier run gave up on the process: no other answer is taken for its own.
THEOREM SuccessIsTheirs == Spec => []SuccessIsOwn
<1>1. Inv => SuccessIsOwn
  <2> SUFFICES ASSUME Inv, NEW q \in DOMAIN returned, returned[q] = 0,
                      \A k \in 1..q - 1 : GaveUp(k) => issued[k]["i"] # issued[q]["i"]
               PROVE  Done(q)
    BY DEF SuccessIsOwn
  <2>1. q \in 1..Run
    <3>1. returned \in Seq({0, 1, 130}) /\ Len(returned) \in {Run, Run - 1} /\ Run \in Nat
      BY RunIsKnown DEF Inv, Typed
    <3> QED BY <3>1
  <2>2. Achieved(q)
    BY <2>1 DEF Inv, Success, Accepted, Clean
  <2> QED BY <2>2 DEF Achieved, Done, Elems
<1> QED BY <1>1, Invariance, PTL

\* A process executes commands in the order of the runs, and none twice.
THEOREM ExecutedInOrder == Spec => []CommandsInOrder
<1>1. Inv => CommandsInOrder
  <2> SUFFICES ASSUME Inv, NEW i \in DOMAIN executed, NEW j \in DOMAIN executed,
                      i < j, executed[i].by = executed[j].by
               PROVE  executed[i].request.run < executed[j].request.run
    BY DEF CommandsInOrder
  <2>1. <<executed[i], executed[j]>> \in Rising
    BY DEF Inv, Order, SortedBy
  <2>2. executed[i] \in Execution /\ executed[j] \in Execution
    BY ElemsTyped DEF Inv, Elems
  <2> QED BY <2>1, <2>2, EarlierIsLess
<1> QED BY <1>1, Invariance, PTL

\* What a process executes is what the user of that run typed.
THEOREM TypedIsExecuted == Spec => []ExecutedAsTyped
<1>1. Inv => ExecutedAsTyped
  <2> SUFFICES ASSUME Inv, NEW i \in DOMAIN executed
               PROVE  AsTyped(executed[i].request.cmd, issued[executed[i].request.run])
    BY DEF ExecutedAsTyped
  <2>1. Asked(executed[i].request)
    BY DEF Inv, Provenance, Elems
  <2>2. issued[executed[i].request.run] \in Line
    <3>1. Run \in Nat /\ Sent \in {Run, Run - 1} /\ issued \in Seq(Line)
      BY RunIsKnown DEF Inv, Sent, Typed
    <3> QED BY <2>1, <3>1 DEF Asked, Run
  <2> QED BY <2>1, <2>2, ParsedAsTyped DEF Asked
<1> QED BY <1>1, Invariance, PTL

\* A run leaves no timer, no answer and no block behind.
THEOREM NothingIsLeft == Spec => []NothingOutlives
<1>1. Inv => NothingOutlives
  BY DEF Inv, Typed, Stages, NothingOutlives, NoBlocks
<1> QED BY <1>1, Invariance, PTL
=============================================================================
