---------------------------- MODULE BlockRegistry ----------------------------
(***************************************************************************)
(* What the block manager promises to the callers of                       *)
(* manager::block_add/start/stop/del/bind: an identifier is absent, or     *)
(* names one block that is stopped or started; each call moves only the    *)
(* identifier it names, one stage of the life cycle at a time; and the     *)
(* boolean it returns tells whether the call found what it needed.         *)
(* There are no objects, pointers or factories here.                       *)
(***************************************************************************)
CONSTANTS Id, None

VARIABLES
  status,   \* status[id]: stage of the life of the block named id
  reply     \* the last call and the boolean it returned

vars == <<status, reply>>

Stages == {"absent", "stopped", "started"}

Present(id) == status[id] # "absent"

Returns(op, id, ok) == reply' = [op |-> op, id |-> id, ok |-> ok]

Init ==
  /\ status = [id \in Id |-> "absent"]
  /\ reply = [op |-> "none", id |-> None, ok |-> TRUE]

Refuse(op, id) == Returns(op, id, FALSE) /\ UNCHANGED status

\* A new block is stopped. The call may be refused for want of a factory, and
\* is when the identifier has a block: the code refuses there (manager_bk.cpp:17-21),
\* as its test expects (tu_manager_bk.cpp:59), although the comment above it says
\* "Add or replace a block" (manager_bk.cpp:7).
Add(id) ==
  \/ ~Present(id) /\ status' = [status EXCEPT ![id] = "stopped"] /\ Returns("add", id, TRUE)
  \/ Refuse("add", id)

\* Starting is idempotent, and fails exactly on an unknown block.
Start(id) ==
  \/ Present(id) /\ status' = [status EXCEPT ![id] = "started"] /\ Returns("start", id, TRUE)
  \/ ~Present(id) /\ Refuse("start", id)

Stop(id) ==
  \/ Present(id) /\ status' = [status EXCEPT ![id] = "stopped"] /\ Returns("stop", id, TRUE)
  \/ ~Present(id) /\ Refuse("stop", id)

\* Only a stopped block can go. The call may be refused for want of a factory,
\* and is when the block is started: the code refuses there (manager_bk.cpp:123-127),
\* although the comment above it says "Stop and delete a block" (manager_bk.cpp:109).
Del(id) ==
  \/ status[id] = "stopped" /\ status' = [status EXCEPT ![id] = "absent"] /\ Returns("del", id, TRUE)
  \/ Refuse("del", id)

\* Binding needs both ends, and moves nobody.
Bind(src, dst) ==
  /\ Returns("bind", src, Present(src) /\ Present(dst))
  /\ UNCHANGED status

\* Clearing the manager takes a block down one stage and answers nobody.
TakeDown(id) ==
  /\ \/ status[id] = "started" /\ status' = [status EXCEPT ![id] = "stopped"]
     \/ status[id] = "stopped" /\ status' = [status EXCEPT ![id] = "absent"]
  /\ UNCHANGED reply

Next ==
  \/ \E id \in Id : Add(id) \/ Start(id) \/ Stop(id) \/ Del(id) \/ TakeDown(id)
  \/ \E src, dst \in Id : Bind(src, dst)

Spec == Init /\ [][Next]_vars
=============================================================================
