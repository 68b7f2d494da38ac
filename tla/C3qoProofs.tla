----------------------------- MODULE C3qoProofs -----------------------------
(***************************************************************************)
(* Proofs about C3qo, for any number of user blocks and queues of any      *)
(* length. The strengthening is Inv: no command touches the control hook,  *)
(* so where main is tells its stage; messages wait only for a hook that    *)
(* reads; nothing is polled when the control hook is not, because no       *)
(* command could come; the walk has the control hook still to call only if *)
(* a message waits and nothing was told to end; and main is past its loop  *)
(* only if something was. With it each step of main is one step of         *)
(* CommandPeer, which says what a full queue and an undefined walk do to   *)
(* its clients, or none.                                                   *)
(***************************************************************************)
EXTENDS C3qo, FiniteSets, FiniteSetTheorems, TLAPS

Looping == pc \in {"loop", "poll", "walk", "timers", "undefined"}

\* Where main is, and what has become of the control hook.
ControlByStage ==
  /\ pc = "off" => /\ status = [id \in Id |-> "absent"] /\ hooks = {} /\ polled = {}
                   /\ outbox = <<>> /\ ~is_term_ /\ ~end_signal_received
  /\ Looping => status[Control] = "started" /\ Control \in hooks
  /\ pc = "clear" => \/ status[Control] = "started" /\ Control \in hooks
                     \/ status[Control] = "absent"
  /\ pc = "linger" => status[Control] = "stopped"
  /\ pc = "ended" => \A id \in Id : status[id] = "absent"

\* A block that is gone is no hook, and a control hook that is closed has
\* nothing left to read, or to send once it is gone.
GoneIsEmpty ==
  /\ \A id \in hooks : status[id] # "absent"
  /\ status[Control] # "started" => inbox = <<>> /\ Control \notin polled
  /\ status[Control] = "absent" => outbox = <<>>

\* A process whose control hook did not start has no commands, so it starts
\* no hook of a user.
DeafIsAlone == status[Control] = "started" /\ Control \notin polled => polled = {}

\* What ends the process, and what it does not do after TERM.
TermIsLast ==
  /\ pc \in {"clear", "linger", "ended"} => is_term_ \/ end_signal_received
  /\ pc = "poll" => ~is_term_
  /\ pc = "walk" /\ Control \in walk => ~is_term_ /\ inbox # <<>>

Inv ==
  /\ TypeOK
  /\ PolledAreLive
  /\ ControlByStage
  /\ GoneIsEmpty
  /\ DeafIsAlone
  /\ TermIsLast

-----------------------------------------------------------------------------
\* The identifiers of users are not those of main.
LEMMA UserIsNotControl ==
  /\ Control \in Id /\ Control \notin UserId
  /\ \A id \in UserId : id \in Id /\ id # Control
BY UserAssumption DEF Id, Control, Transcoder

LEMMA MessagesAreTyped ==
  ASSUME NEW request \in Request, NEW ok \in {"OK", "KO"}
  PROVE  Contract!Answer("c3qo", request, ok) \in Message /\ Contract!Dummy("c3qo") \in Message
BY DEF Contract!Answer, Contract!Dummy, Message, Request

\* What a command may leave behind: the control hook as it was, and nothing
\* polled but started hooks.
Kept ==
  /\ status' \in [Id -> {"absent", "stopped", "started"}]
  /\ hooks' \subseteq Id /\ polled' \subseteq Id
  /\ status'[Control] = "started" /\ Control \in hooks'
  /\ Control \in polled' <=> Control \in polled
  /\ \A id \in polled' : id \in hooks' /\ status'[id] = "started"
  /\ \A id \in hooks' : status'[id] # "absent"

LEMMA ExecuteKeeps ==
  ASSUME Inv, pc = "walk", NEW ok \in {"OK", "KO"}, Execute(ok)
  PROVE  Kept
<1>1. /\ status \in [Id -> {"absent", "stopped", "started"}]
      /\ hooks \subseteq Id /\ polled \subseteq Id
      /\ status[Control] = "started" /\ Control \in hooks
      /\ \A id \in polled : id \in hooks /\ status[id] = "started"
      /\ \A id \in hooks : status[id] # "absent"
  BY DEF Inv, TypeOK, PolledAreLive, ControlByStage, GoneIsEmpty, Looping
<1>2. ASSUME NEW id \in UserId, Add(id, ok) PROVE Kept
  BY <1>1, <1>2, UserIsNotControl DEF Add, Stage, Kept
<1>3. ASSUME NEW id \in UserId, StartBlock(id, ok) PROVE Kept
  BY <1>1, <1>3, UserIsNotControl DEF StartBlock, Stage, Kept
<1>4. ASSUME NEW id \in UserId, StopBlock(id, ok) PROVE Kept
  BY <1>1, <1>4, UserIsNotControl DEF StopBlock, Stage, Kept
<1>5. ASSUME NEW id \in UserId, Del(id, ok) PROVE Kept
  BY <1>1, <1>5, UserIsNotControl DEF Del, Stage, Kept
<1>6. CASE Rest(ok)
  BY <1>1, <1>6 DEF Rest, registry, Kept
<1> QED BY <1>2, <1>3, <1>4, <1>5, <1>6 DEF Execute

LEMMA InitInv == Init => Inv
<1> SUFFICES ASSUME Init PROVE Inv
  OBVIOUS
<1>1. TypeOK
  <2>1. inbox \in Seq(Request) /\ outbox \in Seq(Message) /\ Len(inbox) = 0 /\ Len(outbox) = 0
    BY DEF Init
  <2>2. Len(inbox) <= MaxWaiting /\ Len(outbox) <= HighWater
    BY <2>1, UserAssumption
  <2>3. /\ pc = "off" /\ status \in [Id -> {"absent", "stopped", "started"}]
        /\ hooks = {} /\ polled = {} /\ walk = {}
        /\ is_term_ \in BOOLEAN /\ end_signal_received \in BOOLEAN
    BY DEF Init
  <2> QED BY <2>1, <2>2, <2>3 DEF TypeOK
<1>2. PolledAreLive /\ ControlByStage /\ GoneIsEmpty /\ DeafIsAlone /\ TermIsLast
  BY UserIsNotControl
     DEF Init, PolledAreLive, ControlByStage, GoneIsEmpty, DeafIsAlone, TermIsLast, Looping
<1> QED BY <1>1, <1>2 DEF Inv

\* A callback of the walk: of a user's hook, or of the control hook.
LEMMA CallInv ==
  ASSUME Inv, NEW id \in Id, pc = "walk", id \in walk, Advance(id), Kept,
         is_term_' \in BOOLEAN, UNCHANGED end_signal_received,
         inbox' \in Seq(Request), outbox' \in Seq(Message),
         Len(inbox') <= MaxWaiting, Len(outbox') <= HighWater,
         id # Control => UNCHANGED <<is_term_, inbox>>
  PROVE  Inv'
<1>1. TypeOK'
  BY DEF Inv, TypeOK, Advance, Kept
<1>2. PolledAreLive'
  BY DEF Inv, PolledAreLive, Advance, Kept
<1>3. ControlByStage' /\ GoneIsEmpty'
  BY DEF Advance, Kept, ControlByStage, GoneIsEmpty, Looping
<1>4. DeafIsAlone'
  BY DEF Inv, PolledAreLive, ControlByStage, Looping, DeafIsAlone, Kept
<1>5. TermIsLast'
  BY DEF Inv, TermIsLast, Advance
<1> QED BY <1>1, <1>2, <1>3, <1>4, <1>5 DEF Inv

\* A reply finds room or is refused.
LEMMA SentFits ==
  ASSUME TypeOK, NEW message \in Message
  PROVE  /\ Sent(message) \in Seq(Message) /\ Len(Sent(message)) <= HighWater
         /\ \/ Sent(message) = Append(outbox, message)
            \/ Sent(message) = outbox /\ Len(outbox) >= HighWater
<1>1. outbox \in Seq(Message) /\ Len(outbox) \in Nat /\ Len(outbox) <= HighWater /\ HighWater \in Nat
  BY UserAssumption DEF TypeOK
<1>2. CASE Len(outbox) < HighWater
  <2>1. Append(outbox, message) \in Seq(Message) /\ Len(Append(outbox, message)) = Len(outbox) + 1
    BY <1>1
  <2> QED BY <1>1, <1>2, <2>1 DEF Sent
<1>3. CASE ~(Len(outbox) < HighWater)
  BY <1>1, <1>3 DEF Sent
<1> QED BY <1>2, <1>3

LEMMA ControlInv ==
  ASSUME Inv, CallControl
  PROVE  Inv' /\ Kept
<1>1. /\ TypeOK /\ pc = "walk" /\ Control \in walk /\ inbox # <<>>
      /\ inbox' = Tail(inbox) /\ Advance(Control) /\ UNCHANGED end_signal_received
  BY DEF Inv, CallControl, TermIsLast
<1>2. Head(inbox) \in Request /\ inbox' \in Seq(Request) /\ Len(inbox') = Len(inbox) - 1
  BY <1>1 DEF TypeOK
<1>3. ASSUME UNCHANGED registry PROVE Kept
  <2>1. Execute("OK")
    BY <1>3 DEF Execute, Rest
  <2>2. pc = "walk" /\ "OK" \in {"OK", "KO"}
    BY <1>1
  <2> QED BY <2>1, <2>2, ExecuteKeeps
<1>4. Kept
  <2>1. CASE Head(inbox).type = "other"
    BY <1>1, <2>1, ExecuteKeeps DEF CallControl
  <2> QED BY <1>3, <2>1 DEF CallControl
<1>5. is_term_' \in BOOLEAN
  BY <1>1 DEF CallControl, TypeOK
<1>6. outbox' \in Seq(Message) /\ Len(outbox') <= HighWater
  <2>1. CASE outbox' = outbox
    BY <1>1, <2>1 DEF TypeOK
  <2>2. ASSUME NEW message \in Message, outbox' = Sent(message)
        PROVE  outbox' \in Seq(Message) /\ Len(outbox') <= HighWater
    BY <1>1, <2>2, SentFits
  <2>3. outbox' = outbox \/ \E message \in Message : outbox' = Sent(message)
    BY <1>2, MessagesAreTyped DEF CallControl
  <2> QED BY <2>1, <2>2, <2>3
<1>7. Len(inbox') <= MaxWaiting
  <2>1. Len(inbox) \in Nat /\ Len(inbox) <= MaxWaiting /\ MaxWaiting \in Nat
    BY <1>1, UserAssumption DEF TypeOK
  <2> QED BY <1>2, <2>1
<1> QED BY <1>1, <1>2, <1>4, <1>5, <1>6, <1>7, CallInv, UserIsNotControl

LEMMA UserInv ==
  ASSUME Inv, NEW id \in Id, CallUser(id)
  PROVE  Inv' /\ Kept
<1>1. Kept
  BY ExecuteKeeps DEF CallUser
<1>2. /\ pc = "walk" /\ id \in walk /\ id # Control /\ Advance(id)
      /\ UNCHANGED <<is_term_, end_signal_received, inbox, outbox>>
  BY DEF CallUser, stops
<1> QED BY <1>1, <1>2, CallInv DEF Inv, TypeOK

LEMMA StartInv ==
  ASSUME Inv, Start
  PROVE  Inv'
<1>1. /\ outbox' \in Seq(Message) /\ Len(outbox') <= 1
  <2>1. Contract!Dummy("c3qo") \in Message
    BY DEF Contract!Dummy, Message
  <2>2. <<Contract!Dummy("c3qo")>> \in Seq(Message) /\ Len(<<Contract!Dummy("c3qo")>>) = 1
    BY <2>1
  <2>3. <<>> \in Seq(Message) /\ Len(<<>>) = 0
    OBVIOUS
  <2>4. outbox' = <<Contract!Dummy("c3qo")>> \/ outbox' = <<>>
    BY DEF Start
  <2>5. CASE outbox' = <<Contract!Dummy("c3qo")>>
    BY <2>2, <2>5
  <2>6. CASE outbox' = <<>>
    BY <2>3, <2>6
  <2> QED BY <2>4, <2>5, <2>6
<1>2. inbox = <<>>
  BY UserIsNotControl DEF Inv, Start, ControlByStage, GoneIsEmpty
<1>3. TypeOK'
  <2>1. Len(outbox') <= HighWater
    <3>1. HighWater \in Nat /\ HighWater >= 1 /\ Len(outbox') \in Nat
      BY <1>1, UserAssumption
    <3> QED BY <1>1, <3>1
  <2> QED BY <1>1, <1>2, <2>1, UserIsNotControl DEF Start, stops, Inv, TypeOK
<1>4. PolledAreLive' /\ ControlByStage' /\ GoneIsEmpty' /\ DeafIsAlone' /\ TermIsLast'
  BY <1>2, UserIsNotControl
     DEF Start, PolledAreLive, ControlByStage, GoneIsEmpty, DeafIsAlone, TermIsLast, Looping
<1> QED BY <1>3, <1>4 DEF Inv

\* The steps of main that leave the blocks alone.
LEMMA LoopInv ==
  ASSUME Inv, Test \/ fd_poll \/ fd_poll_fails \/ timer_check_exp \/ End
  PROVE  Inv'
<1>1. UNCHANGED <<status, hooks, polled, is_term_, end_signal_received, inbox, outbox>>
  BY DEF Test, fd_poll, fd_poll_fails, timer_check_exp, End, registry, stops
<1>2. CASE Test
  BY <1>1, <1>2 DEF Test, Inv, TypeOK, PolledAreLive, ControlByStage, GoneIsEmpty, DeafIsAlone,
                    TermIsLast, Looping
<1>3. CASE fd_poll
  BY <1>1, <1>3 DEF fd_poll, Inv, TypeOK, PolledAreLive, ControlByStage, GoneIsEmpty, DeafIsAlone,
                    TermIsLast, Looping
<1>4. CASE fd_poll_fails \/ timer_check_exp
  BY <1>1, <1>4 DEF fd_poll_fails, timer_check_exp, Inv, TypeOK, PolledAreLive, ControlByStage,
                    GoneIsEmpty, DeafIsAlone, TermIsLast, Looping
<1>5. CASE End
  BY <1>1, <1>5 DEF End, Inv, TypeOK, PolledAreLive, ControlByStage, GoneIsEmpty, DeafIsAlone,
                    TermIsLast, Looping
<1> QED BY <1>2, <1>3, <1>4, <1>5

LEMMA ClearInv ==
  ASSUME Inv, NEW id \in Id, ClearBlock(id)
  PROVE  Inv'
<1>1. inbox' \in Seq(Request) /\ Len(inbox') <= Len(inbox)
  <2>1. inbox \in Seq(Request) /\ Len(inbox) \in Nat
    BY DEF Inv, TypeOK
  <2>2. <<>> \in Seq(Request) /\ Len(<<>>) = 0
    OBVIOUS
  <2>3. inbox' = inbox \/ inbox' = <<>>
    BY DEF ClearBlock
  <2>4. CASE inbox' = inbox
    BY <2>1, <2>4
  <2>5. CASE inbox' = <<>>
    BY <2>1, <2>2, <2>5
  <2> QED BY <2>3, <2>4, <2>5
<1>2. TypeOK'
  BY <1>1, UserIsNotControl, UserAssumption DEF ClearBlock, Stage, stops, Inv, TypeOK
<1>3. PolledAreLive' /\ ControlByStage' /\ GoneIsEmpty' /\ DeafIsAlone' /\ TermIsLast'
  <2>1. CASE id = Control
    BY <2>1, UserIsNotControl
       DEF ClearBlock, Stage, stops, Inv, TypeOK, PolledAreLive, ControlByStage, GoneIsEmpty,
           DeafIsAlone, TermIsLast, Looping
  <2>2. CASE id # Control
    BY <2>2, UserIsNotControl
       DEF ClearBlock, Stage, stops, Inv, TypeOK, PolledAreLive, ControlByStage, GoneIsEmpty,
           DeafIsAlone, TermIsLast, Looping
  <2> QED BY <2>1, <2>2
<1> QED BY <1>2, <1>3 DEF Inv

\* The control hook goes, with no answer waiting.
LEMMA DeleteControlInv ==
  ASSUME Inv, pc = "linger", DeleteControl, outbox' = <<>>,
         end_signal_received' \in BOOLEAN,
         end_signal_received => end_signal_received'
  PROVE  Inv'
<1>1. TypeOK'
  BY UserIsNotControl, UserAssumption DEF DeleteControl, Stage, Inv, TypeOK
<1>2. PolledAreLive' /\ ControlByStage' /\ GoneIsEmpty' /\ DeafIsAlone' /\ TermIsLast'
  BY UserIsNotControl
     DEF DeleteControl, Stage, Inv, TypeOK, PolledAreLive, ControlByStage, GoneIsEmpty,
         DeafIsAlone, TermIsLast, Looping
<1> QED BY <1>1, <1>2 DEF Inv

\* The world: signals, messages that come and answers that are taken.
LEMMA WorldInv ==
  ASSUME Inv, UNCHANGED <<pc, status, hooks, polled, walk, is_term_>>,
         end_signal_received' \in BOOLEAN, end_signal_received => end_signal_received',
         pc = "off" => UNCHANGED end_signal_received,
         inbox' \in Seq(Request), outbox' \in Seq(Message),
         Len(inbox') <= MaxWaiting, Len(outbox') <= HighWater,
         inbox' = <<>> => inbox = <<>>,
         status[Control] # "started" => inbox' = inbox,
         status[Control] = "absent" => outbox' = outbox
  PROVE  Inv'
<1>1. TypeOK'
  BY DEF Inv, TypeOK
<1>2. PolledAreLive' /\ ControlByStage' /\ GoneIsEmpty' /\ DeafIsAlone' /\ TermIsLast'
  BY UserIsNotControl
     DEF Inv, PolledAreLive, ControlByStage, GoneIsEmpty, DeafIsAlone, TermIsLast, Looping
<1> QED BY <1>1, <1>2 DEF Inv

LEMMA NextInv == Inv /\ [Next]_vars => Inv'
<1> SUFFICES ASSUME Inv, [Next]_vars PROVE Inv'
  OBVIOUS
<1>0. /\ inbox \in Seq(Request) /\ outbox \in Seq(Message)
      /\ Len(inbox) <= MaxWaiting /\ Len(outbox) <= HighWater
  BY DEF Inv, TypeOK
<1>1. CASE Terminate
  <2>1. pc = "linger" /\ DeleteControl /\ outbox' = <<>> /\ end_signal_received' = end_signal_received
    BY <1>1 DEF Terminate
  <2> QED BY <2>1, DeleteControlInv DEF Inv, TypeOK
<1>2. CASE Signal
  <2>1. end_signal_received' = TRUE /\ pc # "off"
    BY <1>2 DEF Signal
  <2>2. CASE pc = "linger" /\ outbox' = <<>> /\ DeleteControl
    BY <2>1, <2>2, DeleteControlInv
  <2>3. CASE UNCHANGED <<pc, registry, walk, is_term_, inbox, outbox>>
    BY <1>0, <2>1, <2>3, WorldInv DEF registry
  <2> QED BY <1>2, <2>2, <2>3 DEF Signal
<1>3. CASE Take
  <2>1. /\ outbox # <<>> /\ outbox' = Tail(outbox)
        /\ UNCHANGED <<pc, status, hooks, polled, walk, is_term_, end_signal_received, inbox>>
    BY <1>3 DEF Take, registry, stops
  <2>2. outbox' \in Seq(Message) /\ Len(outbox') = Len(outbox) - 1
    BY <1>0, <2>1
  <2>3. status[Control] # "absent" /\ Len(outbox') <= HighWater
    BY <1>0, <2>1, <2>2, UserAssumption DEF Inv, GoneIsEmpty
  <2> QED BY <1>0, <2>1, <2>2, <2>3, WorldInv DEF Inv, TypeOK
<1>4. ASSUME NEW request \in Request, Receive(request) PROVE Inv'
  <2>1. /\ status[Control] = "started" /\ Len(inbox) < MaxWaiting
        /\ inbox' = Append(inbox, request)
        /\ UNCHANGED <<pc, status, hooks, polled, walk, is_term_, end_signal_received, outbox>>
    BY <1>4 DEF Receive, PeerState, registry, stops
  <2>2. inbox' \in Seq(Request) /\ Len(inbox') = Len(inbox) + 1 /\ inbox' # <<>>
    BY <1>0, <2>1
  <2>3. Len(inbox') <= MaxWaiting
    BY <1>0, <2>1, <2>2, UserAssumption
  <2> QED BY <1>0, <2>1, <2>2, <2>3, WorldInv DEF Inv, TypeOK
<1>5. CASE Over \/ UNCHANGED vars
  BY <1>0, <1>5, WorldInv DEF Over, vars, registry, stops, Inv, TypeOK
<1> QED BY <1>1, <1>2, <1>3, <1>4, <1>5, StartInv, LoopInv, ControlInv, UserInv, ClearInv
        DEF Next, Main

LEMMA InvHolds == Spec => []Inv
<1> QED BY InitInv, NextInv, PTL DEF Spec

-----------------------------------------------------------------------------
\* The variables keep their shape, and no queue gets longer than it may.
THEOREM TypeCorrect == Spec => []TypeOK
<1>1. Inv => TypeOK
  BY DEF Inv
<1> QED BY <1>1, InvHolds, PTL

\* Commands that start, stop and delete hooks in the middle of a walk leave
\* no callback of a block that is stopped or gone (manager_fd.cpp, trans_pb.cpp),
\* nor, while the walk is defined, one that is no longer polled.
THEOREM OnlyLiveIsPolled == Spec => []PolledAreLive
<1>1. Inv => PolledAreLive
  BY DEF Inv
<1> QED BY <1>1, InvHolds, PTL

\* main returns with every block, entry and answer gone.
THEOREM EndGivesBack == Spec => []AllGivenBack
<1>1. Inv => AllGivenBack
  <2> SUFFICES ASSUME Inv, pc = "ended"
               PROVE  /\ \A id \in Id : status[id] = "absent"
                      /\ polled = {} /\ hooks = {} /\ outbox = <<>>
    BY DEF AllGivenBack
  <2>1. \A id \in Id : status[id] = "absent"
    BY DEF Inv, ControlByStage
  <2>2. hooks = {}
    BY <2>1 DEF Inv, GoneIsEmpty, TypeOK
  <2> QED BY <2>1, <2>2, UserIsNotControl DEF Inv, PolledAreLive, GoneIsEmpty
<1> QED BY <1>1, InvHolds, PTL

-----------------------------------------------------------------------------
\* The one process of the contract.
Here == "c3qo"

\* A step that leaves alone what the contract sees.
LEMMA Unseen ==
  ASSUME PeerState' = PeerState, UNCHANGED <<end_signal_received, inbox, outbox>>
  PROVE  UNCHANGED Contract!peerVars
BY DEF Contract!peerVars

\* A callback finds the process up, or leaving after TERM; as long as the walk
\* is defined a command leaves it there, unless the command was TERM.
LEMMA KeptPeer ==
  ASSUME Inv, pc = "walk", NEW id \in walk, Advance(id), Kept
  PROVE  /\ PeerState = IF is_term_ THEN "leaving" ELSE "up"
         /\ PeerState' = IF pc' = "undefined" THEN "undefined"
                         ELSE IF is_term_' THEN "leaving" ELSE "up"
         /\ polled' = polled => pc' # "undefined"
<1>1. Control \in polled /\ status[Control] = "started"
  BY DEF Inv, PolledAreLive, DeafIsAlone, ControlByStage, Looping
<1>2. Control \in polled' /\ status'[Control] = "started"
  BY <1>1 DEF Kept
<1> QED BY <1>1, <1>2 DEF PeerState, Advance

LEMMA ControlServes ==
  ASSUME Inv, CallControl
  PROVE  Contract!PeerNext(Request)
<1>1. /\ pc = "walk" /\ Kept /\ is_term_ = FALSE /\ inbox # <<>> /\ inbox \in Seq(Request)
      /\ Control \in walk /\ inbox' = Tail(inbox) /\ UNCHANGED end_signal_received
      /\ Advance(Control) /\ TypeOK
  BY ControlInv DEF CallControl, Inv, TermIsLast, TypeOK
<1>2. PeerState = "up" /\ Head(inbox) \in Request
  BY <1>1, KeptPeer
<1>3. PeerState' = IF pc' = "undefined" THEN "undefined" ELSE IF is_term_' THEN "leaving" ELSE "up"
  BY <1>1, KeptPeer
<1>4. polled' = polled => pc' # "undefined"
  BY <1>1, KeptPeer
<1>5. CASE Head(inbox).type = "junk"
  <2>1. PeerState' = PeerState /\ outbox' = outbox
    BY <1>1, <1>2, <1>3, <1>4, <1>5 DEF CallControl, registry
  <2>2. Contract!Discard(Here)
    BY <1>1, <1>2, <1>5, <2>1 DEF Contract!Discard, Contract!IsCommand, Here
  <2> QED BY <2>2 DEF Contract!PeerNext, Contract!Life, Here
<1>6. ASSUME NEW ok \in {"OK", "KO"}, Head(inbox).type # "junk",
             Head(inbox).type = "term" => ok = "OK",
             PeerState' \in IF Head(inbox).type = "term" THEN {"leaving"} ELSE {"up", "undefined"},
             outbox' = Sent(Contract!Answer("c3qo", Head(inbox), ok))
      PROVE  Contract!PeerNext(Request)
  <2>1. Contract!Answer("c3qo", Head(inbox), ok) \in Message
    BY <1>2, MessagesAreTyped
  <2>2. \/ outbox' = Append(outbox, Contract!Answer("c3qo", Head(inbox), ok))
        \/ outbox' = outbox /\ Len(outbox) >= HighWater
    BY <1>1, <1>6, <2>1, SentFits
  <2>3. Contract!Replied(Here, Contract!Answer(Here, Head(inbox), ok))
    BY <2>2 DEF Contract!Replied, Here
  <2>4. Contract!Serve(Here, ok)
    BY <1>1, <1>2, <1>6, <2>3 DEF Contract!Serve, Contract!IsCommand, Here
  <2> QED BY <2>4 DEF Contract!PeerNext, Contract!Life, Here
<1>7. CASE Head(inbox).type = "term"
  <2>1. /\ PeerState' = "leaving"
        /\ outbox' = Sent(Contract!Answer("c3qo", Head(inbox), "OK"))
    BY <1>3, <1>4, <1>7 DEF CallControl, registry
  <2> QED BY <1>6, <1>7, <2>1
<1>8. CASE Head(inbox).type = "other"
  <2>1. PICK ok \in {"OK", "KO"} : outbox' = Sent(Contract!Answer("c3qo", Head(inbox), ok))
    BY <1>8 DEF CallControl
  <2>2. PeerState' \in {"up", "undefined"}
    BY <1>1, <1>3, <1>8 DEF CallControl
  <2> QED BY <1>6, <1>8, <2>1, <2>2
<1> QED BY <1>2, <1>5, <1>7, <1>8 DEF Request

\* A command that came to a hook of a user is not seen, unless it made the
\* walk undefined.
LEMMA UserIsUnseen ==
  ASSUME Inv, NEW id \in Id, CallUser(id)
  PROVE  Contract!PeerNext(Request) \/ UNCHANGED Contract!peerVars
<1>1. /\ pc = "walk" /\ id \in walk /\ Advance(id) /\ Kept
      /\ UNCHANGED <<is_term_, end_signal_received, inbox, outbox>>
  BY UserInv DEF CallUser, stops
<1>2. CASE pc' = "undefined"
  <2>1. PeerState \in {"up", "leaving"} /\ PeerState' = "undefined"
    BY <1>1, <1>2, KeptPeer
  <2>2. Contract!Break(Here)
    BY <1>1, <2>1 DEF Contract!Break, Here
  <2> QED BY <2>2 DEF Contract!PeerNext, Contract!Life, Here
<1>3. CASE pc' # "undefined"
  <2>1. PeerState' = PeerState
    BY <1>1, <1>3, KeptPeer
  <2> QED BY <1>1, <2>1, Unseen
<1> QED BY <1>2, <1>3

\* Taking down the control hook is leaving; other blocks are not seen.
LEMMA ClearCloses ==
  ASSUME Inv, NEW id \in Id, ClearBlock(id)
  PROVE  Contract!PeerNext(Request) \/ UNCHANGED Contract!peerVars
<1>1. /\ pc = "clear" /\ status[id] # "absent" /\ polled' = polled \ {id}
      /\ UNCHANGED <<is_term_, end_signal_received, outbox>>
      /\ status \in [Id -> {"absent", "stopped", "started"}]
  BY DEF ClearBlock, stops, Inv, TypeOK
<1>2. CASE id = Control
  <2>1. status[Control] = "started" /\ status'[Control] = "stopped" /\ inbox' = <<>>
    BY <1>1, <1>2, UserIsNotControl DEF Inv, ControlByStage, ClearBlock, Stage
  <2>2. PeerState \in {"up", "deaf", "leaving"} /\ PeerState' = "down"
    BY <1>1, <1>2, <2>1 DEF PeerState, ClearBlock
  <2>3. PeerState = "leaving" \/ end_signal_received
    BY <1>1, <2>1 DEF Inv, TermIsLast, PeerState
  <2>4. Contract!Close(Here)
    BY <1>1, <2>1, <2>2, <2>3 DEF Contract!Close, Contract!Running, Here
  <2> QED BY <2>4 DEF Contract!PeerNext, Contract!Life, Here
<1>3. CASE id # Control
  <2>1. status'[Control] = status[Control] /\ inbox' = inbox /\ pc' = pc
    BY <1>1, <1>3, UserIsNotControl DEF ClearBlock, Stage
  <2>2. PeerState' = PeerState
    BY <1>1, <1>3, <2>1 DEF PeerState
  <2> QED BY <1>1, <2>1, <2>2, Unseen
<1> QED BY <1>2, <1>3

\* A signal is one, and loses the answers of a control hook that is closed.
LEMMA SignalSignals ==
  ASSUME Inv, Signal
  PROVE  Contract!PeerNext(Request)
<1>1. end_signal_received' = TRUE /\ PeerState' = PeerState /\ inbox' = inbox
      /\ (PeerState # "down" => outbox' = outbox)
      /\ (PeerState = "down" => outbox' = <<>>)
  <2>1. CASE pc = "linger" /\ outbox' = <<>> /\ DeleteControl
    BY <2>1, UserIsNotControl
       DEF Signal, DeleteControl, Stage, Inv, TypeOK, ControlByStage, PeerState
  <2>2. CASE pc # "linger" /\ UNCHANGED <<pc, registry, walk, is_term_, inbox, outbox>>
    <3>1. PeerState = "down" => outbox = <<>>
      BY <2>2 DEF Signal, Inv, TypeOK, ControlByStage, GoneIsEmpty, Looping, PeerState
    <3> QED BY <2>2, <3>1 DEF Signal, registry, PeerState
  <2> QED BY <2>1, <2>2 DEF Signal
<1>2. CASE PeerState # "down"
  <2>1. PeerState \in {"up", "deaf", "leaving"}
    BY <1>2 DEF Signal, PeerState
  <2>2. Contract!Signal(Here)
    BY <1>1, <2>1 DEF Contract!Signal, Contract!Running, Here
  <2> QED BY <2>2 DEF Contract!PeerNext, Contract!Life, Here
<1>3. CASE PeerState = "down"
  <2>1. Contract!LoseAnswers(Here)
    BY <1>1, <1>3 DEF Contract!LoseAnswers, Here
  <2> QED BY <2>1 DEF Contract!PeerNext, Contract!Life, Here
<1> QED BY <1>2, <1>3

LEMMA StartStarts ==
  ASSUME Inv, Start
  PROVE  Contract!PeerNext(Request)
<1>1. /\ status[Control] = "absent" /\ ~is_term_ /\ ~end_signal_received /\ outbox = <<>>
      /\ UNCHANGED <<is_term_, end_signal_received, inbox>>
      /\ status'[Control] = "started" /\ pc = "off" /\ pc' = "loop"
      /\ \/ polled' = {Control} /\ outbox' = <<Contract!Dummy("c3qo")>>
         \/ polled' = {} /\ outbox' = <<>>
  BY UserIsNotControl DEF Inv, Start, stops, ControlByStage
<1>2. PeerState = "down" /\ PeerState' = IF Control \in polled' THEN "up" ELSE "deaf"
  BY <1>1 DEF PeerState
<1>3. Contract!Start(Here)
  <2>1. CASE polled' = {Control} /\ outbox' = <<Contract!Dummy("c3qo")>>
    <3>1. Append(outbox, Contract!Dummy("c3qo")) = outbox'
      BY <1>1, <2>1
    <3>2. PeerState' = "up"
      BY <1>2, <2>1
    <3> QED BY <1>1, <1>2, <3>1, <3>2 DEF Contract!Start, Here
  <2>2. CASE polled' = {} /\ outbox' = <<>>
    <3>1. PeerState' = "deaf" /\ outbox' = outbox
      BY <1>1, <1>2, <2>2
    <3> QED BY <1>1, <1>2, <3>1 DEF Contract!Start, Here
  <2> QED BY <1>1, <2>1, <2>2
<1> QED BY <1>3 DEF Contract!PeerNext, Contract!Life, Here

\* main with its blocks implements what clients rely on: whatever commands
\* come in whatever order, each is answered once at most and in order, and only
\* a full queue or an undefined walk leaves one without an answer.
THEOREM ContractKept == Spec => ImplementsContract
<1>1. Init => Contract!PeerInit
  BY UserIsNotControl DEF Init, Contract!PeerInit, PeerState
<1>2. Inv /\ [Next]_vars => [Contract!PeerNext(Request)]_(Contract!peerVars)
  <2> SUFFICES ASSUME Inv, [Next]_vars
               PROVE  Contract!PeerNext(Request) \/ UNCHANGED Contract!peerVars
    OBVIOUS
  <2>1. CASE Test \/ fd_poll \/ fd_poll_fails \/ timer_check_exp \/ End \/ Over \/ UNCHANGED vars
    <3>1. /\ UNCHANGED <<status, polled, is_term_, end_signal_received, inbox, outbox>>
          /\ pc = "undefined" <=> pc' = "undefined"
      BY <2>1 DEF Test, fd_poll, fd_poll_fails, timer_check_exp, End, Over, vars, registry, stops
    <3> QED BY <3>1, Unseen DEF PeerState
  <2>2. CASE Terminate
    <3>1. PeerState' = PeerState
      BY <2>2, UserIsNotControl
         DEF Terminate, DeleteControl, Stage, Inv, TypeOK, ControlByStage, PeerState
    <3> QED BY <2>2, <3>1, Unseen DEF Terminate, DeleteControl
  <2>3. CASE Take
    <3>1. PeerState' = PeerState
      BY <2>3 DEF Take, registry, stops, PeerState
    <3>2. Contract!Take(Here)
      BY <2>3, <3>1 DEF Take, stops, Contract!Take, Here
    <3> QED BY <3>2 DEF Contract!PeerNext, Here
  <2>4. ASSUME NEW request \in Request, Receive(request)
        PROVE  Contract!PeerNext(Request)
    <3>1. PeerState' = PeerState
      BY <2>4 DEF Receive, registry, stops, PeerState
    <3>2. Contract!Receive(Here, request)
      BY <2>4, <3>1 DEF Receive, stops, Contract!Receive, Here
    <3> QED BY <3>2 DEF Contract!PeerNext, Here
  <2> QED BY <2>1, <2>2, <2>3, <2>4, StartStarts, ControlServes, UserIsUnseen,
          SignalSignals, ClearCloses
          DEF Next, Main
<1> QED BY <1>1, <1>2, InvHolds, PTL DEF Spec, ImplementsContract

-----------------------------------------------------------------------------
\* What a hook of the process is for its manager. The control hook alone may
\* wait for somebody when it is closed.
StageOf(id) ==
  IF id = Control /\ pc = "linger" THEN "closing"
  ELSE IF id \in hooks /\ status[id] = "started" THEN "started" ELSE "idle"

Hooks == INSTANCE HookService
           WITH Hook <- Id, stage <- [id \in Id |-> StageOf(id)]

\* main, the commands and the destructor of the manager ask of hooks only
\* what HookZmq gives: none is started while one is being closed or before it
\* was stopped, and polling entries come and go with the hooks that own them.
UsesHooksWell == Hooks!Spec

Stages == [id \in Id |-> StageOf(id)]

LEMMA OneMoves ==
  ASSUME NEW h \in Id, \A id \in Id : id # h => StageOf(id)' = StageOf(id)
  PROVE  Stages' = [Stages EXCEPT ![h] = StageOf(h)']
  BY DEF Stages

\* A step that leaves blocks and hooks alone, and the closing of the control
\* hook too, is none of the service.
LEMMA NoneMoves ==
  ASSUME UNCHANGED <<status, hooks, polled>>, pc = "linger" <=> pc' = "linger"
  PROVE  UNCHANGED Hooks!vars
  BY DEF Hooks!vars, StageOf

LEMMA FreeOfClosing ==
  ASSUME pc # "linger"
  PROVE  Hooks!Free
  BY DEF Hooks!Free, StageOf

\* A command starts a hook that is idle, stops one that is started, or leaves
\* all hooks where they are.
LEMMA ExecuteUsesHooks ==
  ASSUME Inv, pc = "walk", pc' # "linger", NEW ok \in {"OK", "KO"}, Execute(ok)
  PROVE  Hooks!Next \/ UNCHANGED Hooks!vars
<1>1. /\ status \in [Id -> {"absent", "stopped", "started"}] /\ Hooks!Free
      /\ \A id \in polled : id \in hooks /\ status[id] = "started"
      /\ \A id \in hooks : status[id] # "absent"
  BY FreeOfClosing DEF Inv, TypeOK, PolledAreLive, GoneIsEmpty
<1>2. ASSUME NEW id \in UserId, Add(id, ok) PROVE UNCHANGED Hooks!vars
  <2>1. \A other \in Id : StageOf(other)' = StageOf(other)
    BY <1>1, <1>2, UserIsNotControl DEF Add, Stage, StageOf
  <2> QED BY <1>2, <2>1 DEF Add, Hooks!vars
<1>3. ASSUME NEW id \in UserId, StartBlock(id, ok)
      PROVE  Hooks!Next \/ UNCHANGED Hooks!vars
  <2>1. /\ status[id] # "absent" /\ status' = [status EXCEPT ![id] = "started"]
        /\ hooks' = hooks /\ id \in Id
        /\ \/ polled' = polled
           \/ status[id] = "stopped" /\ id \in hooks /\ polled' = polled \cup {id}
    BY <1>3, UserIsNotControl DEF StartBlock, Stage
  <2>2. \A other \in Id : other # id => StageOf(other)' = StageOf(other)
    BY <1>1, <2>1 DEF StageOf
  <2>3. CASE id \in hooks /\ status[id] = "stopped"
    <3>1. StageOf(id) = "idle" /\ StageOf(id)' = "started"
      BY <1>1, <2>1, <2>3 DEF StageOf
    <3>2. Hooks!Start(id)
      BY <1>1, <2>1, <2>2, <3>1, OneMoves DEF Hooks!Start, Stages
    <3> QED BY <2>1, <3>2 DEF Hooks!Next
  <2>4. CASE ~(id \in hooks /\ status[id] = "stopped")
    <3>1. StageOf(id)' = StageOf(id)
      BY <1>1, <2>1, <2>4 DEF StageOf
    <3> QED BY <2>1, <2>2, <2>4, <3>1 DEF Hooks!vars
  <2> QED BY <2>3, <2>4
<1>4. ASSUME NEW id \in UserId, StopBlock(id, ok)
      PROVE  Hooks!Next \/ UNCHANGED Hooks!vars
  <2>1. /\ status' = [status EXCEPT ![id] = "stopped"] /\ hooks' = hooks
        /\ polled' = polled \ {id} /\ id \in Id /\ id # Control
    BY <1>4, UserIsNotControl DEF StopBlock, Stage
  <2>2. \A other \in Id : other # id => StageOf(other)' = StageOf(other)
    BY <1>1, <2>1 DEF StageOf
  <2>3. StageOf(id)' = "idle"
    BY <1>1, <2>1 DEF StageOf
  <2>4. CASE id \in hooks /\ status[id] = "started"
    <3>1. StageOf(id) = "started"
      BY <2>1, <2>4 DEF StageOf
    <3>2. Hooks!Stop(id)
      BY <1>1, <2>1, <2>2, <2>3, <3>1, OneMoves DEF Hooks!Stop, Stages
    <3> QED BY <2>1, <3>2 DEF Hooks!Next
  <2>5. CASE ~(id \in hooks /\ status[id] = "started")
    <3>1. StageOf(id) = "idle" /\ polled' = polled
      BY <1>1, <2>1, <2>5 DEF StageOf
    <3> QED BY <2>2, <2>3, <3>1 DEF Hooks!vars
  <2> QED BY <2>4, <2>5
<1>5. ASSUME NEW id \in UserId, Del(id, ok) PROVE UNCHANGED Hooks!vars
  <2>1. \A other \in Id : StageOf(other)' = StageOf(other)
    BY <1>1, <1>5, UserIsNotControl DEF Del, Stage, StageOf
  <2> QED BY <1>5, <2>1 DEF Del, Hooks!vars
<1>6. CASE Rest(ok)
  BY <1>6, NoneMoves DEF Rest, registry
<1> QED BY <1>2, <1>3, <1>4, <1>5, <1>6 DEF Execute

\* The destructor of the manager stops what is started, the control hook
\* among them, and waits for that one.
LEMMA ClearUsesHooks ==
  ASSUME Inv, NEW id \in Id, ClearBlock(id)
  PROVE  Hooks!Next \/ UNCHANGED Hooks!vars
<1>1. /\ pc = "clear" /\ polled' = polled \ {id} /\ status[id] # "absent" /\ Hooks!Free
      /\ status \in [Id -> {"absent", "stopped", "started"}]
      /\ \A other \in polled : other \in hooks /\ status[other] = "started"
  BY FreeOfClosing DEF ClearBlock, Inv, TypeOK, PolledAreLive
<1>2. CASE id = Control
  <2>1. /\ status[id] = "started" /\ id \in hooks /\ pc' = "linger"
        /\ status' = [status EXCEPT ![id] = "stopped"] /\ hooks' = hooks
    BY <1>1, <1>2 DEF ClearBlock, Stage, Inv, ControlByStage
  <2>2. StageOf(id) = "started" /\ StageOf(id)' = "closing"
    BY <1>1, <1>2, <2>1 DEF StageOf
  <2>3. \A other \in Id : other # id => StageOf(other)' = StageOf(other)
    BY <1>1, <1>2, <2>1 DEF StageOf
  <2>4. Hooks!Stop(id)
    BY <1>1, <2>2, <2>3, OneMoves DEF Hooks!Stop, Stages
  <2> QED BY <2>4 DEF Hooks!Next
<1>3. CASE id # Control
  <2>1. /\ pc' = pc /\ status' = [status EXCEPT ![id] = "absent"] /\ hooks' = hooks \ {id}
    BY <1>3 DEF ClearBlock, Stage
  <2>2. \A other \in Id : other # id => StageOf(other)' = StageOf(other)
    BY <1>1, <2>1 DEF StageOf
  <2>3. StageOf(id)' = "idle"
    BY <1>1, <1>3, <2>1 DEF StageOf
  <2>4. CASE id \in hooks /\ status[id] = "started"
    <3>1. StageOf(id) = "started"
      BY <1>1, <2>4 DEF StageOf
    <3>2. Hooks!Stop(id)
      BY <1>1, <2>2, <2>3, <3>1, OneMoves DEF Hooks!Stop, Stages
    <3> QED BY <3>2 DEF Hooks!Next
  <2>5. CASE ~(id \in hooks /\ status[id] = "started")
    <3>1. StageOf(id) = "idle" /\ polled' = polled
      BY <1>1, <2>5 DEF StageOf
    <3> QED BY <2>2, <2>3, <3>1 DEF Hooks!vars
  <2> QED BY <2>4, <2>5
<1> QED BY <1>2, <1>3

LEMMA DeleteUsesHooks ==
  ASSUME Inv, pc = "linger", DeleteControl
  PROVE  Hooks!Next
<1>1. /\ pc' = "clear" /\ status' = [status EXCEPT ![Control] = "absent"]
      /\ hooks' = hooks \ {Control} /\ polled' = polled
      /\ status \in [Id -> {"absent", "stopped", "started"}]
  BY DEF DeleteControl, Stage, Inv, TypeOK
<1>2. StageOf(Control) = "closing" /\ StageOf(Control)' = "idle"
  BY <1>1 DEF StageOf
<1>3. \A other \in Id : other # Control => StageOf(other)' = StageOf(other)
  BY <1>1 DEF StageOf
<1>4. Hooks!Close(Control)
  BY <1>1, <1>2, <1>3, OneMoves, UserIsNotControl DEF Hooks!Close, Stages
<1> QED BY <1>4, UserIsNotControl DEF Hooks!Next

LEMMA StartUsesHooks ==
  ASSUME Inv, Start
  PROVE  Hooks!Next
<1>1. /\ pc = "off" /\ pc' = "loop" /\ hooks = {} /\ polled = {} /\ Control \in Id
      /\ hooks' = {Control} /\ status'[Control] = "started"
      /\ polled' \in {{}, {Control}} /\ Hooks!Free
  BY FreeOfClosing, UserIsNotControl DEF Start, Inv, ControlByStage
<1>2. StageOf(Control) = "idle" /\ StageOf(Control)' = "started"
  BY <1>1 DEF StageOf
<1>3. \A other \in Id : other # Control => StageOf(other)' = StageOf(other)
  BY <1>1 DEF StageOf
<1>4. Hooks!Start(Control)
  BY <1>1, <1>2, <1>3, OneMoves DEF Hooks!Start, Stages
<1> QED BY <1>1, <1>4 DEF Hooks!Next

\* Each step of main is one call to one hook that HookService allows, or none:
\* this is what lets HookZmq stand for the hooks of C3qo.
THEOREM HooksUsedWell == Spec => UsesHooksWell
<1>1. Init => Hooks!Init
  BY DEF Init, Hooks!Init, StageOf
<1>2. Inv /\ [Next]_vars => [Hooks!Next]_(Hooks!vars)
  <2> SUFFICES ASSUME Inv, [Next]_vars PROVE Hooks!Next \/ UNCHANGED Hooks!vars
    OBVIOUS
  <2>1. CASE Test \/ fd_poll \/ fd_poll_fails \/ timer_check_exp \/ End \/ Take \/ Over
             \/ UNCHANGED vars \/ \E request \in Request : Receive(request)
    <3>1. UNCHANGED <<status, hooks, polled>> /\ (pc = "linger" <=> pc' = "linger")
      BY <2>1 DEF Test, fd_poll, fd_poll_fails, timer_check_exp, End, Take, Over, Receive,
                  vars, registry
    <3> QED BY <3>1, NoneMoves
  <2>2. ASSUME pc = "walk", NEW id \in Id, Advance(id),
               UNCHANGED registry \/ \E ok \in {"OK", "KO"} : Execute(ok)
        PROVE  Hooks!Next \/ UNCHANGED Hooks!vars
    <3>1. pc' # "linger"
      BY <2>2 DEF Advance
    <3>2. CASE UNCHANGED registry
      BY <2>2, <3>1, <3>2, NoneMoves DEF registry
    <3> QED BY <2>2, <3>1, <3>2, ExecuteUsesHooks
  <2>3. ASSUME NEW id \in Id, CallUser(id) PROVE Hooks!Next \/ UNCHANGED Hooks!vars
    BY <2>2, <2>3 DEF CallUser
  <2>4. CASE CallControl
    <3>1. UNCHANGED registry \/ \E ok \in {"OK", "KO"} : Execute(ok)
      BY <2>4 DEF CallControl
    <3> QED BY <2>2, <2>4, <3>1, UserIsNotControl DEF CallControl
  <2>5. CASE Terminate
    BY <2>5, DeleteUsesHooks DEF Terminate
  <2>6. CASE Signal
    <3>1. CASE pc = "linger" /\ DeleteControl
      BY <3>1, DeleteUsesHooks
    <3>2. CASE UNCHANGED <<pc, registry, walk, is_term_, inbox, outbox>>
      BY <3>2, NoneMoves DEF registry
    <3> QED BY <2>6, <3>1, <3>2 DEF Signal
  <2> QED BY <2>1, <2>3, <2>4, <2>5, <2>6, StartUsesHooks, ClearUsesHooks DEF Next, Main
<1> QED BY <1>1, <1>2, InvHolds, PTL DEF Spec, UsesHooksWell, Hooks!Spec

-----------------------------------------------------------------------------
Told == end_signal_received \/ is_term_

Present == {id \in Id : status[id] # "absent"}

\* Bounds how many steps of main are left once it was told to end: those of
\* the turn of the loop it is in, then two for each block to take down.
ToEnd ==
  CASE pc = "poll"   -> 3 * Cardinality(Id) + 4
    [] pc = "walk"   -> 2 * Cardinality(Id) + 3 + Cardinality(walk)
    [] pc = "timers" -> 2 * Cardinality(Id) + 3
    [] pc = "loop"   -> 2 * Cardinality(Id) + 2
    [] pc = "clear"  -> 2 * Cardinality(Present) + 1
    [] pc = "linger" -> 2 * Cardinality(Present)
    [] OTHER         -> 0

\* Once told, always told, and from then on each step of main goes down, while
\* nothing that others do goes up: no message or command holds main.
EndGoesDown ==
  Told =>
    /\ Told'
    /\ ToEnd \in Nat /\ ToEnd' \in Nat
    /\ Main => ToEnd' < ToEnd
    /\ ToEnd' <= ToEnd

LEMMA CountIs ==
  ASSUME IsFiniteSet(UserId), NEW S \in SUBSET Id
  PROVE  /\ Cardinality(S) \in Nat /\ Cardinality(Id) \in Nat
         /\ Cardinality(S) <= Cardinality(Id)
         /\ \A id \in S : Cardinality(S \ {id}) = Cardinality(S) - 1 /\ Cardinality(S) > 0
<1>1. IsFiniteSet(Id)
  <2>1. IsFiniteSet({Control, Transcoder})
    BY FS_EmptySet, FS_AddElement, IsFiniteSet({Control}) DEF Control, Transcoder
  <2> QED BY <2>1, FS_Union DEF Id
<1>2. IsFiniteSet(S) /\ Cardinality(S) <= Cardinality(Id)
  BY <1>1, FS_Subset
<1>3. Cardinality(S) \in Nat /\ Cardinality(Id) \in Nat
  BY <1>1, <1>2, FS_CardinalityType
<1>4. ASSUME NEW id \in S
      PROVE  Cardinality(S \ {id}) = Cardinality(S) - 1 /\ Cardinality(S) > 0
  <2>1. Cardinality(S \ {id}) = Cardinality(S) - 1
    BY <1>2, FS_RemoveElement
  <2>2. Cardinality(S) # 0
    BY <1>2, FS_EmptySet
  <2> QED BY <1>3, <2>1, <2>2
<1> QED BY <1>2, <1>3, <1>4

LEMMA ToEndIs ==
  ASSUME Inv, IsFiniteSet(UserId)
  PROVE  /\ ToEnd \in Nat /\ Cardinality(Id) \in Nat
         /\ Cardinality(walk) \in Nat /\ Cardinality(walk) <= Cardinality(Id)
         /\ Cardinality(Present) \in Nat /\ Cardinality(Present) <= Cardinality(Id)
<1>1. walk \in SUBSET Id /\ Present \in SUBSET Id
  BY DEF Inv, TypeOK, Present
<1>2. /\ Cardinality(Id) \in Nat
      /\ Cardinality(walk) \in Nat /\ Cardinality(walk) <= Cardinality(Id)
      /\ Cardinality(Present) \in Nat /\ Cardinality(Present) <= Cardinality(Id)
  BY <1>1, CountIs
<1> QED BY <1>2 DEF ToEnd

\* A callback leaves one entry less to call.
LEMMA CallGoesDown ==
  ASSUME Inv, Inv', IsFiniteSet(UserId), NEW id \in walk, pc = "walk", Advance(id)
  PROVE  ToEnd' < ToEnd
<1>1. Cardinality(walk') = Cardinality(walk) - 1 /\ Cardinality(walk) \in Nat
      /\ Cardinality(walk) > 0 /\ Cardinality(Id) \in Nat
  <2>1. walk \in SUBSET Id /\ walk' = walk \ {id}
    BY DEF Inv, TypeOK, Advance
  <2> QED BY <2>1, CountIs
<1>2. ToEnd = 2 * Cardinality(Id) + 3 + Cardinality(walk)
  BY DEF ToEnd
<1>3. CASE pc' = "timers"
  BY <1>1, <1>2, <1>3 DEF ToEnd
<1>4. CASE pc' = "undefined"
  BY <1>1, <1>2, <1>4 DEF ToEnd
<1>5. CASE pc' = "walk"
  BY <1>1, <1>2, <1>5 DEF ToEnd
<1> QED BY <1>3, <1>4, <1>5 DEF Advance

\* Waiting for the answers to be taken comes before the control hook goes.
LEMMA DeleteGoesDown ==
  ASSUME Inv, IsFiniteSet(UserId), pc = "linger", DeleteControl
  PROVE  ToEnd' < ToEnd
<1>1. /\ pc' = "clear" /\ status' = [status EXCEPT ![Control] = "absent"]
      /\ status \in [Id -> {"absent", "stopped", "started"}] /\ Control \in Id
      /\ status[Control] = "stopped"
  BY UserIsNotControl DEF DeleteControl, Stage, Inv, TypeOK, ControlByStage
<1>2. Control \in Present /\ Present' = Present \ {Control} /\ Present \in SUBSET Id
  BY <1>1 DEF Present
<1>3. Cardinality(Present') = Cardinality(Present) - 1 /\ Cardinality(Present) \in Nat
  BY <1>2, CountIs
<1>4. ToEnd = 2 * Cardinality(Present) /\ ToEnd' = 2 * Cardinality(Present') + 1
  BY <1>1 DEF ToEnd
<1> QED BY <1>3, <1>4

LEMMA ClearGoesDown ==
  ASSUME Inv, IsFiniteSet(UserId), NEW id \in Id, ClearBlock(id)
  PROVE  ToEnd' < ToEnd
<1>1. /\ pc = "clear" /\ id \in Present /\ Present \in SUBSET Id
      /\ status \in [Id -> {"absent", "stopped", "started"}]
  BY DEF ClearBlock, Present, Inv, TypeOK
<1>2. Cardinality(Present) \in Nat /\ ToEnd = 2 * Cardinality(Present) + 1
      /\ Cardinality(Present \ {id}) = Cardinality(Present) - 1
  BY <1>1, CountIs DEF ToEnd
<1>3. CASE id = Control
  <2>1. pc' = "linger" /\ Present' = Present
    BY <1>1, <1>3 DEF ClearBlock, Stage, Present
  <2>2. ToEnd' = 2 * Cardinality(Present)
    BY <2>1 DEF ToEnd
  <2> QED BY <1>2, <2>2
<1>4. CASE id # Control
  <2>1. pc' = "clear" /\ Present' = Present \ {id}
    BY <1>1, <1>4 DEF ClearBlock, Stage, Present
  <2>2. ToEnd' = 2 * Cardinality(Present \ {id}) + 1
    BY <2>1 DEF ToEnd
  <2> QED BY <1>2, <2>2
<1> QED BY <1>3, <1>4

\* The other steps of main, when it was told to end.
LEMMA TurnGoesDown ==
  ASSUME Inv, IsFiniteSet(UserId), Told, Inv',
         Test \/ fd_poll \/ fd_poll_fails \/ timer_check_exp \/ End
  PROVE  ToEnd' < ToEnd
<1> DEFINE n == Cardinality(Id)
<1>1. n \in Nat /\ Cardinality(Present) \in Nat /\ Cardinality(Present) <= n
  BY ToEndIs
<1>2. CASE Test
  <2>1. pc = "loop" /\ pc' = "clear" /\ Present' = Present
    BY <1>2 DEF Test, Told, registry, Present
  <2>2. ToEnd = 2 * n + 2 /\ ToEnd' = 2 * Cardinality(Present) + 1
    BY <2>1 DEF ToEnd
  <2> QED BY <1>1, <2>2
<1>3. CASE fd_poll
  <2>1. pc = "poll" /\ pc' \in {"timers", "walk"} /\ walk' \in SUBSET Id
    BY <1>3 DEF fd_poll, Inv, TypeOK
  <2>2. ToEnd = 3 * n + 4
    BY <2>1 DEF ToEnd
  <2>3. Cardinality(walk') \in Nat /\ Cardinality(walk') <= n
    BY <2>1, CountIs
  <2>4. CASE pc' = "timers"
    <3>1. ToEnd' = 2 * n + 3
      BY <2>4 DEF ToEnd
    <3> QED BY <1>1, <2>2, <3>1
  <2>5. CASE pc' = "walk"
    <3>1. ToEnd' = 2 * n + 3 + Cardinality(walk')
      BY <2>5 DEF ToEnd
    <3> QED BY <1>1, <2>2, <2>3, <3>1
  <2> QED BY <2>1, <2>4, <2>5
<1>4. CASE fd_poll_fails
  <2>1. ToEnd = 3 * n + 4 /\ ToEnd' = 2 * n + 3
    BY <1>4 DEF fd_poll_fails, ToEnd
  <2> QED BY <1>1, <2>1
<1>5. CASE timer_check_exp
  <2>1. ToEnd = 2 * n + 3 /\ ToEnd' = 2 * n + 2
    BY <1>5 DEF timer_check_exp, ToEnd
  <2> QED BY <1>1, <2>1
<1>6. CASE End
  <2>1. ToEnd = 2 * Cardinality(Present) + 1 /\ ToEnd' = 0
    BY <1>6 DEF End, ToEnd
  <2> QED BY <1>1, <2>1
<1> QED BY <1>2, <1>3, <1>4, <1>5, <1>6

\* Once a signal or TERM has come, main ends within a number of its own steps
\* that is known: messages, commands in the middle of a walk and signals do
\* not put it off. It is why ProcessEnds holds.
THEOREM EndDescends ==
  IsFiniteSet(UserId) => (Spec => [][EndGoesDown]_vars)
<1> SUFFICES ASSUME IsFiniteSet(UserId) PROVE Spec => [][EndGoesDown]_vars
  OBVIOUS
<1>1. ASSUME Inv, Inv', [Next]_vars PROVE [EndGoesDown]_vars
  <2> SUFFICES ASSUME Next, Told
               PROVE  /\ Told' /\ ToEnd \in Nat /\ ToEnd' \in Nat
                      /\ Main => ToEnd' < ToEnd
                      /\ ToEnd' <= ToEnd
    BY <1>1 DEF EndGoesDown
  <2>1. ToEnd \in Nat
    BY <1>1, ToEndIs
  <2>2. ToEnd' \in Nat
    <3>1. (ToEnd \in Nat)'
      BY <1>1, ToEndIs, PTL
    <3> QED BY <3>1
  <2>3. ASSUME Main PROVE ToEnd' < ToEnd
    <3>1. ASSUME NEW id \in Id, CallUser(id) PROVE ToEnd' < ToEnd
      BY <1>1, <3>1, CallGoesDown DEF CallUser
    <3>2. CASE CallControl
      BY <1>1, <3>2, CallGoesDown DEF CallControl
    <3>3. CASE Terminate
      BY <1>1, <3>3, DeleteGoesDown DEF Terminate
    <3> QED BY <1>1, <2>3, <3>1, <3>2, <3>3, ClearGoesDown, TurnGoesDown DEF Main
  <2>4. ASSUME ~Main PROVE ToEnd' <= ToEnd
    <3>1. CASE Signal /\ pc = "linger" /\ DeleteControl
      BY <1>1, <2>1, <2>2, <3>1, DeleteGoesDown
    <3>2. CASE UNCHANGED <<pc, status, walk>>
      <4>1. ToEnd' = ToEnd
        BY <3>2 DEF ToEnd, Present
      <4> QED BY <2>1, <4>1
    <3>3. CASE Start
      BY <1>1, <3>3 DEF Start, Inv, ControlByStage, Told
    <3> QED BY <1>1, <2>4, <3>1, <3>2, <3>3
            DEF Next, Signal, Take, Over, Receive, vars, registry
  <2>5. Told'
    <3>1. end_signal_received => end_signal_received'
      BY <1>1 DEF Next, Main, Start, Test, fd_poll, fd_poll_fails, CallControl, timer_check_exp,
                  Terminate, End, CallUser, ClearBlock, Signal, Take, Over, Receive, stops, vars
    <3>2. is_term_ => is_term_'
      BY <1>1 DEF Next, Main, Start, Test, fd_poll, fd_poll_fails, CallControl, timer_check_exp,
                  Terminate, DeleteControl, End, CallUser, ClearBlock, Signal, Take, Over, Receive,
                  stops, vars, Inv, TermIsLast
    <3> QED BY <3>1, <3>2 DEF Told
  <2> QED BY <2>1, <2>2, <2>3, <2>4, <2>5
<1> QED BY <1>1, InvHolds, PTL DEF Spec
=============================================================================
