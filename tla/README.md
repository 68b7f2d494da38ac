# A TLA+ model of c3qo

c3qo is a small framework in C++: a *manager* owns *blocks*, moves data from
block to block, polls file descriptors and ZeroMQ sockets, and fires timers, all
in one thread. Blocks are added, bound, started, stopped and deleted while it
runs, by protobuf commands that come through one of its own blocks. This
directory holds TLA+ modules of its parts, the TLC configurations that check
them, and proofs that TLAPS checks.

## Inventory

| Component | State | Operations | Interacts through |
|---|---|---|---|
| block registry, `engine/src/manager_bk.cpp`, `manager.cpp` | `bk_map_`, `bk_factory_`, the objects | `block_add/start/stop/del/bind/clear`, factory registration, `~manager` | calls `start_`, `stop_`, `bind_` of blocks, the factories |
| data flows, `engine/src/block.cpp` | `sink_` of each block, the loop of `process_data_` | `process_data_`, `process_ctrl_` | follows raw pointers set by `block_bind`, calls `data_` |
| file descriptors, `engine/src/manager_fd.cpp` | parallel vectors `fd_`, `callback_` | `fd_add`, `fd_remove`, `fd_poll` | calls `on_fd_`, which may call back |
| timers, `engine/src/manager_tm.cpp` | sorted list `tm_list_` | `timer_add/del/clear/check_exp` | calls `on_timer_`, which may call back; the wall clock |
| `hook_zmq` | context, socket, configuration, counters | `start_`, `stop_`, `data_`, `on_fd_`, `send_`, `recv_` | libzmq, the polling set, data flows |
| `trans_pb` | none | `data_`: decode, execute, reply | calls the registry in the middle of a flow |
| `hello` | a packet count | `data_` forwards | data flows |
| `app/src/c3qo.cpp` | a signal flag, `is_term_` | main loop: `fd_poll`, `timer_check_exp` | hook -1 and transcoder -2, bound to each other |
| `app/src/ncli.cpp` | its command, two flags, a timer | parse a command, send it, wait for an answer or a second | its own manager and hook; the proxy |
| `app/src/proxy.cpp` | two hooks | relay between their sockets until a signal | `zmq_proxy`; clients and processes |
| buffer, logger | a list of parts; a file | `push_back`, `clear`; output | |

What is hard here is not threads, there is one, but what one call may do in the
middle of another: a command executed inside a data flow, inside a callback,
inside the walk of the polling set; raw pointers that outlive what they point
to; acquisitions that fail halfway; and loops whose end depends on the callers.
`PROJECT.json` lists these hazards, each at its line.

What makes each part correct: the registry never loses a live block, never
keeps a freed one, and moves a block through its life one stage at a time; a
flow only meets live blocks, those that were bound, and ends; a walk of the
polling set calls each ready entry once, and the two vectors never slip; a
timer fires once, when due, in order, and is not forgotten; a hook gives back
all it acquired; a multi-part message arrives whole; a c3qo process
answers a command once at most, leaves none without an answer unless its queue
refuses it, and ends when told to; a client says 0 only of a command that was
executed.

## Plan

All of the plan's modules are written:

1. `BlockRegistry`, `ManagerBk`: the registry.
2. `BlockFlow`: flows, and commands inside them. `BlockFlowProofs`: of both.
3. `ManagerFd`, `ManagerFdProofs`: the polling set.
4. `TimerService`, `ManagerTm`, `ManagerTmProofs`: timers.
5. `HookService`, `HookZmq`, `HookZmqProofs`: the life of hooks.
6. `HookWire`, `HookWireProofs`: their messages.
7. `CommandPeer`, `C3qo`, `C3qoProofs`: the application, composed.
8. `Ncli`, `NcliProofs`: the client against the processes. `Proxy`, `ProxyProofs`: its middle.

What is left is under "Not modelled".

## Modules and the code

**`ManagerBk`** has `bk_factory_`, `bk_map_` and a `heap` of objects by address,
so that an identifier, a pointer and an object are three things and an address
can be used again. A call is one action, because the thread runs it to its
end; `block_clear` is a loop of calls (`ClearStop`, `ClearDel`, `ClearEnd`), and
its iterator may give any registered block. `reply` keeps the last call and the
boolean it returned. `running` counts calls of `start_` less calls of `stop_`.
`BlockRegistry` is the abstract specification: a stage per identifier, no
objects. It says what the code does, and quotes the two comments of
`manager_bk.cpp` that say something else. `Registry` in `ManagerBk` is the refinement mapping. A constructor may
answer `nullptr`, which `block_add` foresees, although those of the repository
never do.

**`BlockFlow`** extends it with the loop of `process_data_`: `Hop` reads a sink,
`Deliver` calls `data_`, `Execute` is `trans_pb::data_` with a command, any of
the registry's, followed by the flow of the reply. After a command the loops
around it have only to return, so the reply's flow replaces the outer one. A
read of a freed block leads to `fault`. `CallerRules` says what the callers of
`block_del` and `block_bind` undertake: "spare the sinks" (do not delete the
sink of a live block) and "close no ring" (do not bind a block to one it is
`Downstream` of). `Downstream` is the least set of addresses that hops do not
leave, which says what a flow can reach without recursion. `NoRing` is what the
second rule is to bring about, over deletions and address reuse. No code
enforces either rule; run `flows` assumes both, `flows_free` neither. Messages that
start a flow come to any started hook.

**`ManagerFd`** has both vectors and the walk of `fd_poll`, one entry at a time.
Callers add and remove entries between polls and inside callbacks, as often as
they like. `zmq_poll` may report what was asked and, for plain descriptors,
errors. `moved` tells that the iterators of the walk were invalidated; going on
with them leads to `undefined`, after which nothing is claimed. `revents` belong
to the walk, because nothing reads them outside of it.

**`ManagerTm`** has the list and a wall clock that goes on, and may be set back.
`Expiration` is the conversion of a delay with the truncating division of C++.
`Removed` and `Sorted` say what `remove` and the stable `sort` of `std::list`
leave, as the sequence that keeps, or permutes, what was there.
`TimerService` is the abstract specification, `Service` the mapping.

**`HookZmq`** has the hooks that share a manager, with `start_` in three
outcomes (no socket, no address, all), `stop_` up to `zmq_ctx_term`, which holds
the thread while messages wait, and `data_` in any state, on whatever socket the
hook still points to. `HookService` is the abstract specification, of what a
manager takes a hook for: a stage (idle, started, closing) and whether it is
polled, no sockets or contexts. `Service` is the mapping. **`HookWire`** has the loops of `send_` and `recv_` between
two hooks, part by part, and the counters. In both, libzmq is external and
modelled by what its manual promises.

**`CommandPeer`** is what c3qo processes promise to whoever commands them through
the proxy: a command taken is answered in order and once at most, and only a full
queue refuses an answer (`Replied`); nothing is taken after TERM; a process leaves
only when told to; and answers it has queued are lost only to a signal. The
promise ends when the walk of the polling set becomes undefined, by a command
that the process executed (`Serve`) or that came to a hook of the user's (`Break`):
"undefined" is a state of the contract, not an exception to it. It is the seam
between the next two modules, which rely on it from both sides.

**`C3qo`** is `main` of `app/src/c3qo.cpp` from its first block to the end of
`~manager`, composed from the parts: the registry at its word (`status`, as in
`BlockRegistry`), the walk of `fd_poll` with what a callback can do to it, the
polling entries of hooks, the commands and their reply (`CallControl`), which a
full queue of the control hook refuses without anybody noticing (`Sent`), the flag
of TERM and that of the signal handler. Commands run inside the walk, so
that starting or stopping a hook changes the set being walked. `Contract` is the
mapping to `CommandPeer`. The users are assumed to leave blocks -1 and -2 alone,
to send TERM only to -2, to follow the rules of `BlockFlow` among their own
blocks, and to have peers that take what they are sent; no block of theirs uses
timers, as none of the three types does.

**`Ncli`** is the client run again and again: the options (`options_parse`, one
operator per command), the exchange (`start_`, `fd_poll`, `timer_check_exp`), and
the teardown in the order of `main` (`StopHook`, `StopClient`, `Delete`,
`Destroy`). The processes are those of `CommandPeer`, and a queue that is full
refuses answers on one side and commands on the other; a process that became
undefined says nothing more here. The proxy in the middle is
two queues, one of which outlives the clients: what a process answers late waits
for the next run. `Faults` lets connections lose messages and the user interrupt
a run anywhere. The numbers of runs that messages carry are history; no action
reads them except to say whose message it is that still has to leave.

**`Proxy`** is `main` of `app/src/proxy.cpp`, with an instance of `HookZmq` for its
two hooks, `zmq_proxy` between their sockets, and a signal at every point. The
handler does nothing, so a signal counts only where it interrupts something:
`SignalWait` and `SignalClosing`; `SignalUnseen` is everywhere else. A message that
`Relay` finds no peer or no room for is dropped by the ROUTER, and waits where it
is before a PAIR; what becomes of those it carries is in `Ncli`.

The `MC...` modules give values that a configuration cannot write. `MCNcli` also
assumes, and TLC evaluates, `ParsingIsFaithful`: for every command type and up
to three options in any order, repeated ones included, parsing gives the command
that was typed, and a member without an option keeps its default.

Operators named with an underscore and a word after a definition's name
(`Started_Again`, `stop__Open`, ...) are mutants: the definition with a plausible
bug. Each checked property is violated by one of them, which shows that it
depends on the code. No specification uses them.

## Runs

| Run | Shows | Bounds |
|---|---|---|
| `blocks` | registry, objects and callbacks agree; refinement of `BlockRegistry`; `block_clear` ends while the factories it needs are there | 2 identifiers, types, addresses: address reuse, collisions, every refusal |
| `flows` | flows and commands meet live and bound blocks only, no ring of blocks comes to be, and flows end | 2 identifiers, 3 addresses, 3 types: a deleted block's address free or used again, self-bindings, the hook and transcoder cycle |
| `flows_free` | without the callers' rules a flow reads a freed block | the same |
| `walks` | vectors parallel; each completed walk calls every ready entry once; one signalled entry is safe; `fd_poll` returns | three valid keys, both events: up to 3 entries in any order |
| `walks_iterators` | a callback that changes the set while two entries are signalled leaves invalid iterators | the same, reading only |
| `timers` | refinement of `TimerService`; checks return; no timer forgotten | 3 timers, a clock of 4 dates, a second of 2 ns, set back once; three delays: none, one that carries, one longer than a second |
| `hooks` | sockets and contexts are given back whatever fails; only open sockets are polled; refinement of `HookService`; `stop_` returns if peers are there | 2 hooks, 2 socket addresses (reuse), 1 transport address (contention), 1 waiting message |
| `proxy` | `main` gives everything back whichever `start_` fails; one signal costs no context; signals end it | its 2 hooks and 2 addresses, 1 waiting message, signals counted as none, one, more |
| `parts` | messages arrive whole and in order while no part is empty; with empty parts reading falls back in step; what the counters say | 3 messages of up to 3 parts, a queue of 4 parts: refusals, an empty part first, in the middle and last |
| `c3qo` | only started hooks are polled while the walk is defined; everything is given back; refinement of `CommandPeer`, with refused answers and undefined walks; TERM and signals end the process | 2 blocks of users, 2 commands that wait, a queue of 2 answers: both are full at times |
| `ncli` | 0 is returned only for a command executed as typed; order; nothing left behind; a run ends | 2 processes that start twice in all, 2 runs, 4 command lines, queues of 1, lost messages, interruptions |
| `ncli_late` | without any fault, a run takes the answer to an earlier command for its own | 1 process, 2 runs, 2 commands, queues of 3 that never fill |

The bounds are enough for the cases that matter because each property relates
at most two blocks, entries, timers, runs or messages, and each instance has
both, and mostly one place more, or reuses a place. The safety properties are
moreover all proved for any number of them (below), so the bounds matter for
liveness only. `MaxSec` stops the modelled clock, `MaxSteps` bounds its being set back,
`MaxPending` the queue of a socket, `MaxSent` the messages, `HighWater` the parts
under way and the answers queued, as a high-water mark does, `MaxWaiting` the
commands that wait for a process, `MaxRuns` and
`MaxStarts` the runs of the client and the starts of processes. Deadlock is not
looked for in the runs of `Ncli`, where runs and starts may be used up.

The type invariants of `ManagerBk`, `ManagerFd`, `HookZmq`, `Ncli` and `C3qo` are
in no run, since they are theorems (`TypeCorrect`).

Three runs find what the code does not do; `PROJECT.json` quotes what it says:

* `flows_free`: `block_del` leaves the sinks that point to the block it frees.
* `walks_iterators`: `fd_poll` uses iterators that callbacks invalidate, as soon
  as two entries are signalled and one of their callbacks starts or stops a hook.
* `ncli_late`: nothing in an answer says which command it is to.

`PolledAreLive` says nothing once the walk is undefined: that a command can make it
so is what `walks_iterators` finds, and `OneSignalIsSafe` when it cannot.

Two comments say of the registry what the code does not do, and
`ImplementsRegistry` holds of the code: "Add or replace a block"
(manager_bk.cpp:7), where `block_add` refuses an identifier that has a block
(17-21, and tu_manager_bk.cpp:59 expects it to); "Stop and delete a block"
(manager_bk.cpp:109), where `block_del` refuses a block that is started (123-127).

Behaviour that the models have and no run singles out: an answer refused by a full
queue, since `send_` does not wait and `trans_pb` does not look (trans_pb.cpp:111),
leaves a command executed and its client to its timer; a `stop_` of a DEALER that
never had a peer does not return, since its first message waits for ever
(`StopReturns` needs `SpecWithPeers`); a signal that the proxy handles outside a
wait is lost (`SignalsEndIt` needs signals to come again); a negative delay gives
a date whose nanoseconds are negative, which no caller asks for (`TypeOK` of
`ManagerTm` excepts it); a hook that was stopped still sends on the address of
its socket, another hook's if libzmq gave it away.

## Fairness

The program has one thread that runs a loop. A loop that was entered goes on:
weak fairness on the steps of `block_clear`, of a flow, of a walk, of a check, of
`send_` and of `recv_`, and on `Main` of each application, the disjunction of the steps of its
thread, of which there is always one at most to take, or a choice that the code
leaves open. A callback is assumed to return. Nobody is obliged to call the
manager, to send a command, to answer or to signal. For timers, `timer_check_exp`
is called again and again, as the main loop of `c3qo.cpp` does, and time passes;
likewise `Tick` in `Ncli`. `zmq_ctx_term` returns when it can.

What is not the code's to decide is assumed apart, and named: peers take the
messages they were sent in `SpecWithPeers` of `HookZmq`; the proxy takes what it
is given in `C3qo` (`Take`) and `Ncli` (`Route`), for it does nothing else; an
administrator signals until the proxy is gone in `SpecWithOperator`, whose
fairness is strong because the wait that a signal must hit comes and goes.

## Proofs

Each of these holds for every value of the constants, under the assumptions
that the modules name (`nullptr` is no identifier, the bounds are numbers, and
the like, which TLC evaluates in each run).

* `BlockFlowProofs`, of the registry alone: the invariant `Inv` is type correctness, `MapOwnsHeap` and
  `CallbacksAlternate`. `MapOwnsHeap` makes it inductive: it says that registry
  and heap are inverse to each other, so a call on one identifier touches one
  object. Three lemmas (replace, destroy, leave) carry the actions. From it:
  `TypeCorrect`, `RegistryOwnsBlocks`, `StartStopAlternate`,
  `DestroyedAreQuiescent`, and `RegistryRefined`, the refinement of
  `BlockRegistry`, by lemmas on what the mapping sees of each step. `ClearingDescends`: each step
  of `block_clear` is on a block that is there, and leaves one less if the factory
  is there.
* `BlockFlowProofs`, of flows, whatever callers do: each step of a flow is one
  of the registry or none, so `FlowsKeepRegistry` and `FlowsRefineRegistry`. For
  callers that close no ring, `RingsStayOpen`: a binding is the one step that adds
  a way, and what becomes downstream by it was downstream of its ends before.
  For callers that spare the sinks: `FlowInv` adds that sinks
  are live and bound (`SinksStayBound`), and that a block about to process data
  is pinned, that is, still some block's sink. The pin is needed because the
  command runs between the hop that reached the block and the reply that reads
  its sink. From it `SparedSinksAreSafe` and `FlowsFollowBindings`. Under both
  rules, `FlowsDescend`: a hop between forwarding blocks leads to a smaller
  `Downstream`, one that has lost the block it left.
* `ManagerFdProofs`, for any number of entries and any calls from callbacks:
  `TypeCorrect`, `VectorsStayParallel`, `ReadyCalledOnce`, `SingleSignalSafe` and
  `WalkDescends`. `Inv` is type correctness, `Parallel` and `WalkInRange`
  (the index exists in both vectors until somebody changes them): none of the
  three is inductive alone, since erasing needs the vectors parallel and calling
  back needs the index in range. `WalkInv` keeps the books of a walk: what was
  called is what was ready before the index, and the count is its size. A finite
  set with as many elements as one it is part of equals it, which is why the
  break on the count loses nobody. Once a callback has changed the vectors the
  books can no longer refer to them: they are about the keys the walk started
  from, a function that exists and that `fd_` agrees with only until then.
* `ManagerTmProofs`: `TypeCorrect`, `ListStaysSorted` and `ServiceImplemented`.
  Removing keeps an order, and the stable sort of timers with one identifier
  each makes a list that names each once, so `SortedOnce` is inductive with the
  types. It makes the list a function from identifiers to dates, whose earliest
  is at the head: looking at the head alone is then what the timer service asks.
* `HookZmqProofs`: `TypeCorrect`, `EverySocketIsOwned`, `EveryContextIsReturned`
  and `OnlyOpenIsPolled`. The strengthening: a started hook points to no closed
  socket, and the thread is held for a hook that is stopped. From it
  `HookServiceRefined`, the refinement of `HookService`: that the entries of a
  socket are those of one hook makes `fd_remove`, which looks for the socket,
  remove what its hook had.
* `HookWireProofs`: `WholeMessagesArrive`, `ReadingIsBackInStep` and
  `CountersAgree`. The parts on the wire are linked, each to the next of its
  message or to the first of the next message, and what `recv_` has read comes just
  before the head of the wire, so a part without ZMQ_RCVMORE ends what was read.
  For the counters, what has been taken off the wire is split at the first
  message that still has parts there. `ReadingDescends`: a step of `recv_` or of
  the polling of the hook lowers a rank that only a message handed over raises.
* `C3qoProofs`: `TypeCorrect`, `OnlyLiveIsPolled`, `EndGivesBack`, and
  `ContractKept`, the refinement of `CommandPeer`. No command touches the control
  hook, so where `main` is tells its stage (`ControlByStage`); messages wait only
  for a hook that reads (`GoneIsEmpty`); the walk has the control hook still to
  call only if nothing was told to end (`TermIsLast`); and a process whose control
  hook did not start polls nothing at all (`DeafIsAlone`), so that only one that can
  be commanded becomes undefined. Each step of `main` is then one step of the
  contract or none, for queues of any length, and likewise one of `HookService` (`HooksUsedWell`): the application asks of hooks
  what `HookZmq` gives. For finitely many blocks, `EndDescends`: from a signal or
  TERM on, each step of `main` lowers a rank that nothing raises.
* `NcliProofs`, whatever the faults: `TypeCorrect`, `SuccessIsTheirs`,
  `ExecutedInOrder`, `TypedIsExecuted` and `NothingIsLeft`. Nothing overtakes on
  the way of a command or of an answer, so run numbers grow along each queue and
  from one queue to the next. Hence no command is executed twice and a run has
  one answer at most, which a run that succeeded has used up.
* `ProxyProofs`: `ImplementsHooks`, each step of `main` is one that `HookZmq`
  allows or none, under its assumptions, so its invariant comes for free. To it
  `IInv` adds where `main` is (`Stages`: which hook is started, closed or not yet)
  and how contexts can be lost (`Losses`: by a signal more than the one that made
  `zmq_proxy` return). From it `ReturnsGivenBack` and `FirstSignalIsSafe`.

Only model-checked, because it needs fairness or ENABLED, beyond TLAPS here: all
the liveness (`ClearTerminates`, `FlowEnds`, `PollReturns`, `CheckReturns`,
`TimersComeDue`, `StopReturns`, `EveryMessageIsRead`, `ClientEnds`, `ProcessEnds`,
`SignalsEndIt`). The provable half of five of them is proved, that is, that
something goes down at each step which fairness makes happen: `ClearingDescends`,
`FlowsDescend`, `WalkDescends`, `ReadingDescends`, `EndDescends`. The others rest on
time, peers or users, and have no such rank. `ParsingIsFaithful` is model-checked
only as well, on lists of up to three options; what the proofs need of parsing
(`AsTyped`) they prove for lists of any length.

## Not modelled

* `process_ctrl_` and `ctrl_`: no block of the repository calls them.
* The memory of `buffer` (it is the sequence of its parts), the packet count of
  `hello`, which nothing reads, the logger, and the option of `c3qo` that sets its
  identity.
* Protobuf: the generated code is a library of its own. A command that does not
  decode is one that is answered KO (`Rest` in `C3qo`; trans_pb.cpp:23-28, 135-136);
  "junk" is a message of the wrong topic or number of parts, which is not answered.
* A signal that comes to c3qo before its handlers are set (c3qo.cpp:71-91): it
  kills the process, as it does any other.
* Memory layout: a HOOK_ZMQ command casts whatever block has the identifier to
  `hook_zmq`. The models say what it does to a hook.
* The lifetime of C++ locals: the factories of `main` go before the manager whose
  destructor would call them. The models let `block_clear` find them.
* Commands to -1 and -2, which nothing forbids: they cut the process off.
* The threads of libzmq, and the build.
