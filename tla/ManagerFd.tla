------------------------------ MODULE ManagerFd ------------------------------
(***************************************************************************)
(* The file descriptors side of struct manager (engine/src/manager_fd.cpp):*)
(* two vectors that must stay parallel, the polling set fd_ given to       *)
(* zmq_poll and the callbacks callback_, and the loop of fd_poll that walks*)
(* both and calls blocks back. A callback runs in the middle of the walk   *)
(* and may call fd_add and fd_remove (in c3qo, a start or a stop command of*)
(* a hook does), which invalidates the iterators of the walk.              *)
(*                                                                         *)
(* The revents of an entry have a meaning only from zmq_poll to the end of *)
(* the walk, so they are part of the walk and not of fd_.                  *)
(***************************************************************************)
EXTENDS Integers, Sequences, FiniteSets, SequencesExt

CONSTANTS
  Block,     \* blocks that can be called back
  Fd,        \* file descriptors, the negative ones standing for none
  Socket,    \* ZMQ sockets
  Interest,  \* what callers ask for: sets among {"in", "out"}
  nullptr    \* the null pointer

ASSUME FdAssumption == Fd \subseteq Int /\ nullptr \notin Block \cup Socket
ASSUME InterestAssumption == Interest \subseteq SUBSET {"in", "out"}

VARIABLES
  fd_,        \* polling set: what is polled, and for what
  callback_,  \* the struct file_desc given by the first fd_add of each entry
  walk,       \* the call of fd_poll: loop counters, readiness, iterators
  ready,      \* history: keys found ready by the last zmq_poll
  called      \* history: keys whose callback this walk has called, in order

vars == <<fd_, callback_, walk, ready, called>>

\* What fd_find looks for.
Key == Fd \X (Socket \cup {nullptr})

KeyOf(entry) == <<entry.fd, entry.socket>>

PollItem == [fd : Fd, socket : Socket \cup {nullptr}, events : Interest]
FileDesc == [fd : Fd, socket : Socket \cup {nullptr}, bk : Block]

\* moved: an entry came or went since the walk took its iterators.
Walk == [pc : {"idle", "scan", "callback", "undefined"}, i : Nat, ret : Int,
         count : Nat, revents : Seq(SUBSET {"in", "out", "err"}), moved : BOOLEAN]

NoWalk(ret) ==
  [pc |-> "idle", i |-> 0, ret |-> ret, count |-> 0, revents |-> <<>>, moved |-> FALSE]

\* The code searches first and tests the index for -1 afterwards.
Found(key) == \E i \in DOMAIN fd_ : KeyOf(fd_[i]) = key
fd_find(key) == CHOOSE i \in DOMAIN fd_ : KeyOf(fd_[i]) = key

Valid(bk, key) == bk # nullptr /\ (key[1] >= 0 \/ key[2] # nullptr)

-----------------------------------------------------------------------------
Init ==
  /\ fd_ = <<>>
  /\ callback_ = <<>>
  /\ walk = NoWalk(0)
  /\ ready = {}
  /\ called = <<>>

\* Code of a caller runs between two polls, and inside a callback.
CallerRuns == walk.pc \in {"idle", "callback"}

Moved == walk' = [walk EXCEPT !.moved = walk.pc = "callback"]

\* A nullptr block, and neither descriptor nor socket, are refused. A known
\* entry gets new events, and keeps its place and its callback.
fd_add(bk, key, events) ==
  /\ CallerRuns
  /\ \/ ~Valid(bk, key) /\ UNCHANGED <<fd_, callback_, walk>>
     \/ /\ Valid(bk, key) /\ Found(key)
        /\ fd_' = [fd_ EXCEPT ![fd_find(key)].events = events]
        /\ UNCHANGED <<callback_, walk>>
     \/ /\ Valid(bk, key) /\ ~Found(key)
        /\ callback_' = Append(callback_, [fd |-> key[1], socket |-> key[2], bk |-> bk])
        /\ fd_' = Append(fd_, [fd |-> key[1], socket |-> key[2], events |-> events])
        /\ Moved
  /\ UNCHANGED <<ready, called>>

\* Mutant: the callbacks are taken for a queue.
fd_remove_First(key) ==
  /\ CallerRuns
  /\ \/ ~Found(key) /\ UNCHANGED vars
     \/ /\ Found(key)
        /\ callback_' = Tail(callback_)
        /\ fd_' = RemoveAt(fd_, fd_find(key))
        /\ Moved
        /\ UNCHANGED <<ready, called>>

fd_remove(key) ==
  /\ CallerRuns
  /\ \/ ~Found(key) /\ UNCHANGED vars
     \/ /\ Found(key)
        /\ callback_' = RemoveAt(callback_, fd_find(key))
        /\ fd_' = RemoveAt(fd_, fd_find(key))
        /\ Moved
        /\ UNCHANGED <<ready, called>>

-----------------------------------------------------------------------------
\* What zmq_poll can report of an entry: errors of plain descriptors come unasked.
Reports(item) ==
  SUBSET (item.events \cup IF item.socket = nullptr THEN {"err"} ELSE {})

IsReady(revents) == revents \cap {"in", "out"} # {}

\* Entries zmq_poll counts, which include those with only an error.
Signalled(revents) == {i \in DOMAIN revents : revents[i] # {}}

\* zmq_poll fails, or its 10 ms go by with nothing to report.
fd_poll_nothing ==
  /\ walk.pc = "idle"
  /\ walk' \in {NoWalk(-1), NoWalk(0)}
  /\ ready' = {}
  /\ called' = <<>>
  /\ UNCHANGED <<fd_, callback_>>

fd_poll ==
  /\ walk.pc = "idle"
  /\ \E revents \in [DOMAIN fd_ -> SUBSET {"in", "out", "err"}] :
       /\ \A i \in DOMAIN fd_ : revents[i] \in Reports(fd_[i])
       /\ Signalled(revents) # {}
       /\ walk' = [pc |-> "scan", i |-> 1, ret |-> Cardinality(Signalled(revents)),
                   count |-> 0, revents |-> revents, moved |-> FALSE]
       /\ ready' = {KeyOf(fd_[i]) : i \in {j \in DOMAIN fd_ : IsReady(revents[j])}}
  /\ called' = <<>>
  /\ UNCHANGED <<fd_, callback_>>

\* Mutant: no break on count.
Advance_NoBreak(count) ==
  walk' = IF walk.moved THEN [walk EXCEPT !.pc = "undefined"]
          ELSE IF walk.i = Len(walk.revents) THEN NoWalk(walk.ret)
          ELSE [walk EXCEPT !.pc = "scan", !.i = @ + 1, !.count = count]

\* Mutant: the iterators are not stepped.
Advance_Stuck(count) ==
  walk' = IF count = walk.ret THEN NoWalk(walk.ret)
          ELSE IF walk.moved THEN [walk EXCEPT !.pc = "undefined"]
          ELSE [walk EXCEPT !.pc = "scan", !.count = count]

\* The end of an iteration, with count callbacks called: break when they
\* are as many as zmq_poll said, else step both iterators and compare one
\* with the end taken at the start.
Advance(count) ==
  walk' = IF count = walk.ret THEN NoWalk(walk.ret)
          ELSE IF walk.moved THEN [walk EXCEPT !.pc = "undefined"]
          ELSE IF walk.i = Len(walk.revents) THEN NoWalk(walk.ret)
          ELSE [walk EXCEPT !.pc = "scan", !.i = @ + 1, !.count = count]

\* Mutant: entries that are not ready count.
ScanSkip_Counted ==
  /\ walk.pc = "scan"
  /\ ~IsReady(walk.revents[walk.i])
  /\ Advance(walk.count + 1)
  /\ UNCHANGED <<fd_, callback_, ready, called>>

ScanSkip ==
  /\ walk.pc = "scan"
  /\ ~IsReady(walk.revents[walk.i])
  /\ Advance(walk.count)
  /\ UNCHANGED <<fd_, callback_, ready, called>>

\* it_cb->bk->on_fd_(*it_cb)
ScanCall ==
  /\ walk.pc = "scan"
  /\ IsReady(walk.revents[walk.i])
  /\ walk' = [walk EXCEPT !.pc = "callback"]
  /\ called' = Append(called, KeyOf(callback_[walk.i]))
  /\ UNCHANGED <<fd_, callback_, ready>>

Return ==
  /\ walk.pc = "callback"
  /\ Advance(walk.count + 1)
  /\ UNCHANGED <<fd_, callback_, ready, called>>

\* What follows the use of an invalid iterator is not ours to say.
Undefined == walk.pc = "undefined" /\ UNCHANGED vars

-----------------------------------------------------------------------------
Callers ==
  \E key \in Key :
    \/ \E bk \in Block \cup {nullptr}, events \in Interest : fd_add(bk, key, events)
    \/ fd_remove(key)

Loop == ScanSkip \/ ScanCall \/ Return

Next == Callers \/ fd_poll_nothing \/ fd_poll \/ Loop \/ Undefined

\* The thread walks on, and a callback returns; nobody has to call fd_poll.
Spec == Init /\ [][Next]_vars /\ WF_vars(Loop)

-----------------------------------------------------------------------------
\* The variables keep their shape.
TypeOK ==
  /\ fd_ \in Seq(PollItem)
  /\ callback_ \in Seq(FileDesc)
  /\ walk \in Walk
  /\ ready \subseteq Key
  /\ called \in Seq(Key)

\* The two vectors stay parallel and no entry is registered twice, so one
\* index finds the events and the callback of a key, and fd_remove leaves
\* nothing of it behind.
Parallel ==
  /\ Len(fd_) = Len(callback_)
  /\ \A i \in DOMAIN fd_ : KeyOf(fd_[i]) = KeyOf(callback_[i])
  /\ \A i, j \in DOMAIN fd_ : KeyOf(fd_[i]) = KeyOf(fd_[j]) => i = j

\* A walk that ends has called every entry that was ready, once each and no
\* other: the break on count loses nobody, whatever the callbacks did.
EveryReadyCalledOnce ==
  walk.pc = "idle" => Len(called) = Cardinality(ready) /\ ToSet(called) = ready

\* A walk during which one entry was signalled never uses an iterator again
\* after its callback: callbacks that register and remove entries are safe
\* as long as entries are signalled one at a time.
OneSignalIsSafe == walk.pc = "undefined" => walk.ret > 1

\* A call of fd_poll returns if the callbacks do.
PollReturns == (walk.pc # "idle") ~> (walk.pc \in {"idle", "undefined"})

\* A callback may register and remove entries ("register a fd, look for
\* event on the fd, execute callback").
IteratorsStayValid == walk.pc # "undefined"
=============================================================================
