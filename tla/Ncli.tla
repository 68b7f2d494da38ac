-------------------------------- MODULE Ncli --------------------------------
(***************************************************************************)
(* The command line client (app/src/ncli.cpp) run again and again, and the *)
(* proxy (app/src/proxy.cpp) between it and the c3qo processes. A run sends*)
(* one command, then waits for an answer or for its one-second timer,      *)
(* whichever its loop sees first, and undoes what it set up.               *)
(*                                                                         *)
(* The proxy is zmq_proxy: a ROUTER to the processes and a PAIR to one     *)
(* client at a time. What a process answers while no client is there waits *)
(* for the next one, and nothing in an answer tells which command it is to.*)
(* The numbers of the runs are history: the program does not have them.    *)
(***************************************************************************)
EXTENDS CommandPeer, Integers

CONSTANTS
  Line,       \* command lines: option letters of ncli -> their values
  nullptr,    \* the null pointer
  Faults,     \* what the world may do: "loss" of messages, "interrupt" of a run
  MaxRuns,    \* bound: runs of ncli
  MaxStarts   \* bound: starts of c3qo processes

ASSUME BoundAssumption == MaxRuns \in Nat /\ MaxStarts \in Nat
ASSUME FaultsAssumption == Faults \subseteq {"loss", "interrupt"}

VARIABLES
  pc,         \* where main is, "idle" when no ncli runs
  blocks,     \* stage of its blocks: 1 is the hook, 2 the client
  factories,  \* types that have a factory
  timer,      \* the timer of the client
  flags,      \* received_answer_ and timeout_expired_
  requests,   \* commands on their way to the proxy
  incoming,   \* answers that wait in the hook
  starts,     \* number of starts of c3qo processes
  issued,     \* history: the command line of each run
  returned,   \* history: what each run returned to the shell
  executed    \* history: the commands executed, in order

client == <<pc, blocks, factories, timer, flags, incoming>>
vars == <<client, peerVars, requests, starts, issued, returned, executed>>

Types == {"hook_zmq", "ncli"}

NoBlocks == [b \in 1..2 |-> "absent"]

NoFlags == [received_answer_ |-> FALSE, timeout_expired_ |-> FALSE]

\* The number of the current run, and its command line.
Run == Len(issued)
Current == issued[Run]

-----------------------------------------------------------------------------
\* Options as getopt gives them: <<letter, value>>, in order. The last value
\* of a letter counts; without one, the member keeps what the constructor gave.
Value(args, letter, default) ==
  LET at == {i \in DOMAIN args : args[i][1] = letter}
  IN  IF at = {} THEN default ELSE args[CHOOSE i \in at : \A j \in at : j <= i][2]

\* A command, in the set of the results of parsing, or no result.
Parsed(args, letters, command) ==
  {c \in {command} : \A i \in DOMAIN args : args[i][1] \in letters}

parse_add(args) == Parsed(args, {"i", "t"},
  [type |-> "add", id |-> Value(args, "i", 0), name |-> Value(args, "t", nullptr)])

parse_start(args) == Parsed(args, {"i"}, [type |-> "start", id |-> Value(args, "i", 0)])

parse_stop(args) == Parsed(args, {"i"}, [type |-> "stop", id |-> Value(args, "i", 0)])

parse_del(args) == Parsed(args, {"i"}, [type |-> "del", id |-> Value(args, "i", 0)])

parse_bind(args) == Parsed(args, {"i", "p", "d"},
  [type |-> "bind", id |-> Value(args, "i", 0),
   port |-> Value(args, "p", 0), dest |-> Value(args, "d", 0)])

\* -c has no value: it is there or not.
parse_hook_zmq(args) == Parsed(args, {"i", "c", "t", "n", "a"},
  [type |-> "hook_zmq", id |-> Value(args, "i", 0), client |-> Value(args, "c", FALSE),
   socket |-> Value(args, "t", 0), name |-> Value(args, "n", nullptr),
   addr |-> Value(args, "a", nullptr)])

\* Its arguments are not looked at.
parse_term == {[type |-> "term"]}

\* The four options must be there and no other: peer, type, arguments and
\* expected return. Otherwise main does not survive its ASSERT.
options_parse(line) ==
  IF DOMAIN line # {"i", "t", "o", "r"} THEN {}
  ELSE CASE line["t"] = "add"      -> parse_add(line["o"])
         [] line["t"] = "start"    -> parse_start(line["o"])
         [] line["t"] = "stop"     -> parse_stop(line["o"])
         [] line["t"] = "del"      -> parse_del(line["o"])
         [] line["t"] = "bind"     -> parse_bind(line["o"])
         [] line["t"] = "hook_zmq" -> parse_hook_zmq(line["o"])
         [] line["t"] = "term"     -> parse_term
         [] OTHER                  -> {}

\* Lines that main accepts name a process that may exist, and their options
\* come one after the other.
ASSUME LineAssumption ==
  \A line \in Line :
    options_parse(line) # {} => line["i"] \in Peer /\ DOMAIN line["o"] \subseteq Nat

Request(run, line, cmd) == [type |-> cmd.type, peer |-> line["i"], run |-> run, cmd |-> cmd]

\* memcmp over the length of what came: a status that the expected one begins with.
Matches(status, expected) ==
  <<status, expected>> \in {<<"OK", "OK">>, <<"OK", "OKAY">>, <<"KO", "KO">>}

\* Mutant: the status is not compared.
Expected_AnyStatus(message, line) == message.status # "dummy" /\ message.from = line["i"]

\* What data_ keeps: three parts (the first message of a process has two),
\* the peer, and the status.
Expected(message, line) ==
  /\ message.status # "dummy"
  /\ message.from = line["i"]
  /\ Matches(message.status, line["r"])

-----------------------------------------------------------------------------
Init ==
  /\ PeerInit
  /\ pc = "idle" /\ blocks = NoBlocks /\ factories = {} /\ timer = "none"
  /\ flags = NoFlags /\ incoming = <<>>
  /\ requests = <<>> /\ starts = 0
  /\ issued = <<>> /\ returned = <<>> /\ executed = <<>>

\* main up to options_parse, which exits the process when it fails.
Launch(line) ==
  /\ pc = "idle" /\ Run < MaxRuns
  /\ issued' = Append(issued, line)
  /\ IF options_parse(line) = {}
     THEN returned' = Append(returned, 1) /\ UNCHANGED <<pc, blocks, factories>>
     ELSE /\ pc' = "start"
          /\ factories' = Types
          /\ blocks' = [b \in 1..2 |-> "stopped"]
          /\ UNCHANGED returned
  /\ UNCHANGED <<peerVars, timer, flags, incoming, requests, starts, executed>>

\* Mutant: the command is packed before its arguments are parsed.
start__Unset ==
  /\ pc = "start"
  /\ blocks' = [b \in 1..2 |-> "started"]
  /\ \E cmd \in options_parse([Current EXCEPT !["o"] = <<>>]) :
       requests' = Append(requests, Request(Run, Current, cmd))
  /\ timer' = "armed"
  /\ flags' = NoFlags
  /\ pc' = "poll"
  /\ UNCHANGED <<peerVars, factories, incoming, starts, issued, returned, executed>>

\* The hook connects; the client sends its command through it and arms its timer.
start_ ==
  /\ pc = "start"
  /\ blocks' = [b \in 1..2 |-> "started"]
  /\ \E cmd \in options_parse(Current) :
       requests' = Append(requests, Request(Run, Current, cmd))
  /\ timer' = "armed"
  /\ flags' = NoFlags
  /\ pc' = "poll"
  /\ UNCHANGED <<peerVars, factories, incoming, starts, issued, returned, executed>>

\* One message at most is read, and given to data_ of the client.
fd_poll ==
  /\ pc = "poll"
  /\ \/ incoming = <<>> /\ UNCHANGED <<flags, incoming>>
     \/ /\ incoming # <<>>
        /\ incoming' = Tail(incoming)
        /\ flags' = [flags EXCEPT !.received_answer_ = @ \/ Expected(Head(incoming), Current)]
  /\ pc' = "check"
  /\ UNCHANGED <<peerVars, blocks, factories, timer, requests, starts, issued, returned, executed>>

\* Mutant: a timer that expires sends the command again, once.
timer_check_exp_Again ==
  /\ pc = "check"
  /\ timer' = IF timer = "due" THEN "none" ELSE timer
  /\ flags' = [flags EXCEPT !.timeout_expired_ = @ \/ timer = "due"]
  /\ requests' = IF timer = "due"
                 THEN Append(requests, Request(Run, Current,
                               CHOOSE cmd \in options_parse(Current) : TRUE))
                 ELSE requests
  /\ pc' = IF flags'.received_answer_ \/ flags'.timeout_expired_ THEN "stop" ELSE "poll"
  /\ UNCHANGED <<peerVars, blocks, factories, incoming, starts, issued, returned, executed>>

\* A timer that expires leaves the list and calls on_timer_; then the loop
\* looks at both flags.
timer_check_exp ==
  /\ pc = "check"
  /\ timer' = IF timer = "due" THEN "none" ELSE timer
  /\ flags' = [flags EXCEPT !.timeout_expired_ = @ \/ timer = "due"]
  /\ pc' = IF flags'.received_answer_ \/ flags'.timeout_expired_ THEN "stop" ELSE "poll"
  /\ UNCHANGED <<peerVars, blocks, factories, incoming, requests, starts, issued, returned, executed>>

\* block_stop(1): what was not read is lost, and zmq_ctx_term waits until the
\* proxy has taken the command.
StopHook ==
  /\ pc = "stop"
  /\ blocks' = [blocks EXCEPT ![1] = "stopped"]
  /\ incoming' = <<>>
  /\ pc' = "linger"
  /\ UNCHANGED <<peerVars, factories, timer, flags, requests, starts, issued, returned, executed>>

\* The command of this run has not left.
Lingering == requests # <<>> /\ requests[Len(requests)].run = Run

\* Mutant: stop_ of the client leaves the timer.
StopClient_Armed ==
  /\ pc = "linger" /\ ~Lingering
  /\ blocks' = [blocks EXCEPT ![2] = "stopped"]
  /\ pc' = "delete"
  /\ UNCHANGED <<peerVars, factories, timer, flags, incoming, requests, starts, issued, returned, executed>>

\* block_stop(2), which deletes the timer.
StopClient ==
  /\ pc = "linger" /\ ~Lingering
  /\ blocks' = [blocks EXCEPT ![2] = "stopped"]
  /\ timer' = "none"
  /\ pc' = "delete"
  /\ UNCHANGED <<peerVars, factories, flags, incoming, requests, starts, issued, returned, executed>>

\* block_del refuses a block that is started or has no factory.
Deleted(b, types) ==
  IF blocks[b] = "stopped" /\ (IF b = 1 THEN "hook_zmq" ELSE "ncli") \in types
  THEN "absent" ELSE blocks[b]

\* Mutant: the factories go first.
Delete_Late ==
  /\ pc = "delete"
  /\ factories' = {}
  /\ blocks' = [b \in 1..2 |-> Deleted(b, {})]
  /\ pc' = "destroy"
  /\ UNCHANGED <<peerVars, timer, flags, incoming, requests, starts, issued, returned, executed>>

\* block_del of both blocks, and their factories go.
Delete ==
  /\ pc = "delete"
  /\ blocks' = [b \in 1..2 |-> Deleted(b, factories)]
  /\ factories' = {}
  /\ pc' = "destroy"
  /\ UNCHANGED <<peerVars, timer, flags, incoming, requests, starts, issued, returned, executed>>

\* ~manager, whose block_clear goes on while a block is left; main returns.
Destroy ==
  /\ pc = "destroy" /\ blocks = NoBlocks
  /\ timer' = "none"
  /\ returned' = Append(returned, IF flags.received_answer_ THEN 0 ELSE 1)
  /\ pc' = "idle"
  /\ UNCHANGED <<peerVars, blocks, factories, flags, incoming, requests, starts, issued, executed>>

\* ncli has no signal handler: the user interrupts it anywhere. Its command
\* may have left.
Interrupted ==
  /\ "interrupt" \in Faults /\ pc # "idle"
  /\ pc' = "idle" /\ blocks' = NoBlocks /\ factories' = {} /\ timer' = "none"
  /\ incoming' = <<>>
  /\ \/ UNCHANGED requests
     \/ Lingering /\ requests' = SubSeq(requests, 1, Len(requests) - 1)
  /\ returned' = Append(returned, 130)
  /\ UNCHANGED <<peerVars, flags, starts, issued, executed>>

\* A second goes by.
Tick ==
  /\ timer = "armed"
  /\ timer' = "due"
  /\ UNCHANGED <<peerVars, pc, blocks, factories, flags, incoming, requests, starts, issued, returned, executed>>

-----------------------------------------------------------------------------
\* The ROUTER drops what is for a process that is not there or whose queue is
\* full; a connection that ends takes what is on it away.
Route ==
  /\ requests # <<>>
  /\ requests' = Tail(requests)
  /\ LET request == Head(requests)
     IN  \/ Receive(request.peer, request)
         \/ /\ \/ state[request.peer] \notin {"up", "leaving"}
               \/ Len(inbox[request.peer]) >= HighWater
               \/ "loss" \in Faults
            /\ UNCHANGED peerVars
  /\ UNCHANGED <<client, starts, issued, returned, executed>>

\* The PAIR gives what waits to the client that is connected, or loses it
\* with the connection of the previous one.
Deliver(p) ==
  /\ blocks[1] = "started"
  /\ Take(p)
  /\ \/ incoming' = Append(incoming, Head(outbox[p]))
     \/ "loss" \in Faults /\ UNCHANGED incoming
  /\ UNCHANGED <<pc, blocks, factories, timer, flags, requests, starts, issued, returned, executed>>

\* A process executes a command: its status is for C3qo and BlockFlow to say.
\* It may fail to answer.
Execute(p, status) ==
  /\ Serve(p, status)
  /\ executed' = Append(executed, [request |-> Head(inbox[p]), by |-> p, status |-> status])
  /\ UNCHANGED <<client, requests, starts, issued, returned>>

\* One that becomes undefined is silent here, which is why Break is no step of
\* its own: what else such a process could do is not followed.
Process(p) ==
  \/ /\ Start(p) /\ starts < MaxStarts /\ starts' = starts + 1
     /\ UNCHANGED <<client, requests, issued, returned, executed>>
  \/ /\ Signal(p) \/ Close(p) \/ LoseAnswers(p)
     /\ UNCHANGED <<client, requests, starts, issued, returned, executed>>
  \/ \E status \in {"OK", "KO"} : Execute(p, status)

-----------------------------------------------------------------------------
Main == start_ \/ fd_poll \/ timer_check_exp \/ StopHook \/ StopClient \/ Delete \/ Destroy

Next ==
  \/ \E line \in Line : Launch(line)
  \/ Main \/ Interrupted \/ Tick
  \/ Route
  \/ \E p \in Peer : Deliver(p) \/ Process(p)

\* A run goes on, time passes, and the proxy takes what it is given. Nobody
\* is obliged to answer, or to run.
Spec == Init /\ [][Next]_vars /\ WF_vars(Main) /\ WF_vars(Tick) /\ WF_vars(Route)

-----------------------------------------------------------------------------
\* The variables keep their shape.
TypeOK ==
  /\ pc \in {"idle", "start", "poll", "check", "stop", "linger", "delete", "destroy"}
  /\ blocks \in [1..2 -> {"absent", "stopped", "started"}]
  /\ factories \subseteq Types
  /\ timer \in {"none", "armed", "due"}
  /\ flags \in [received_answer_ : BOOLEAN, timeout_expired_ : BOOLEAN]
  /\ issued \in Seq(Line)
  /\ returned \in Seq({0, 1, 130})
  /\ \A i \in DOMAIN requests : requests[i].run \in 1..Run
  /\ \A i \in DOMAIN incoming : incoming[i].from \in Peer /\ incoming[i].run \in 0..Run

\* The process that a run names has executed the command of that run, with
\* the status the user expected.
Done(run) ==
  \E i \in DOMAIN executed :
    /\ executed[i].request.run = run
    /\ executed[i].by = issued[run]["i"]
    /\ Matches(executed[i].status, issued[run]["r"])

\* A run that may have left an answer behind: its command went out, and the
\* user was told of a failure, or interrupted it.
GaveUp(run) == returned[run] # 0 /\ options_parse(issued[run]) # {}

\* The shell is told 0 only of a command that was executed with the expected
\* status, as long as no earlier run gave up on the same process: an answer
\* to another command, from another process or with another status is not
\* taken for it, and what an interrupted connection lost is never reported done.
SuccessIsOwn ==
  \A run \in DOMAIN returned :
    returned[run] = 0 /\ (\A q \in 1..run - 1 : GaveUp(q) => issued[q]["i"] # issued[run]["i"])
      => Done(run)

\* A process executes commands in the order of the runs and none twice,
\* those of runs that gave up included: a client does not repeat its command.
CommandsInOrder ==
  \A i, j \in DOMAIN executed :
    i < j /\ executed[i].by = executed[j].by
      => executed[i].request.run < executed[j].request.run

\* The member of a command that each option letter sets.
Member ==
  [add |-> [i |-> "id", t |-> "name"], start |-> [i |-> "id"], stop |-> [i |-> "id"],
   del |-> [i |-> "id"], bind |-> [i |-> "id", p |-> "port", d |-> "dest"],
   hook_zmq |-> [i |-> "id", c |-> "client", t |-> "socket", n |-> "name", a |-> "addr"]]

\* A command says what the line says: its type and, for each option, the
\* last value given, in the member that the option names.
AsTyped(cmd, line) ==
  LET args == line["o"]
  IN  /\ cmd.type = line["t"]
      /\ cmd.type # "term" =>
           \A i \in DOMAIN args :
             (\A j \in DOMAIN args : args[j][1] = args[i][1] => j <= i)
               => cmd[Member[cmd.type][args[i][1]]] = args[i][2]

\* What a process executes is what the user of that run typed.
ExecutedAsTyped ==
  \A i \in DOMAIN executed :
    LET request == executed[i].request IN AsTyped(request.cmd, issued[request.run])

\* The timer is there only for a client that is started, answers wait only in
\* a hook that is, and a run leaves nothing behind: whatever ended the wait, no
\* callback can reach a block that is gone.
NothingOutlives ==
  /\ timer # "none" => blocks[2] = "started"
  /\ incoming # <<>> => blocks[1] = "started"
  /\ pc = "idle" => blocks = NoBlocks /\ factories = {}

\* A run ends, whatever the processes do: the timer sees to the wait, and the
\* order of the calls of main to the rest.
ClientEnds == (pc # "idle") ~> (pc = "idle")

\* "Received expected answer": the answer is to the command of this run.
OwnAnswer == \A run \in DOMAIN returned : returned[run] = 0 => Done(run)
=============================================================================
