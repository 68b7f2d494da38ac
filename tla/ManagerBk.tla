------------------------------ MODULE ManagerBk ------------------------------
(***************************************************************************)
(* The blocks side of struct manager (engine/src/manager_bk.cpp): the      *)
(* registry bk_map_ of live blocks, the factories that build and destroy   *)
(* them, the calls that move a block through its life, and the destructor. *)
(*                                                                         *)
(* A block is an object at an address: two identifiers, or an identifier   *)
(* and a dangling pointer, can be told apart, and the address of a deleted *)
(* block can be given to a later one. The program has one thread, so a     *)
(* call is one step; block_clear is a loop of calls and is not.            *)
(***************************************************************************)
EXTENDS Integers

CONSTANTS
  Id,        \* block identifiers
  Type,      \* block types
  Ptr,       \* addresses where the allocator can put a block
  nullptr    \* the null pointer, also used for "no identifier"

ASSUME NullAssumption == nullptr \notin Ptr /\ nullptr \notin Id

VARIABLES
  bk_factory_,  \* types that have a factory
  bk_map_,      \* identifier -> address of the block, on the registered ones
  heap,         \* address -> block, on the allocated ones
  phase,        \* what the thread is in: "ready" between calls, or a loop
  cursor,       \* identifier under the iterator of block_clear, or nullptr
  reply         \* the last call and the boolean it returned

vars == <<bk_factory_, bk_map_, heap, phase, cursor, reply>>

\* running counts the calls of start_ not yet matched by a call of stop_.
Block == [id_ : Id, type_ : Type, is_started_ : BOOLEAN,
          sink_ : Ptr \cup {nullptr}, running : Int]

Ops == {"none", "add", "start", "stop", "del", "bind"}

Reply == [op : Ops, id : Id \cup {nullptr}, ok : BOOLEAN]

Phases == {"ready", "clear", "destroy", "gone"}

-----------------------------------------------------------------------------
block_get(id) == IF id \in DOMAIN bk_map_ THEN bk_map_[id] ELSE nullptr

Returns(op, id, ok) == reply' = [op |-> op, id |-> id, ok |-> ok]

Refuse(op, id) == Returns(op, id, FALSE) /\ UNCHANGED <<bk_map_, heap>>

\* The block after the constructor of its type and the assignments of block_add.
NewBlock(id, type) ==
  [id_ |-> id, type_ |-> type, is_started_ |-> FALSE, sink_ |-> nullptr, running |-> 0]

\* Mutant: block_start does not verify the state.
Started_Again(bk) == [bk EXCEPT !.is_started_ = TRUE, !.running = @ + 1]

\* A block after block_start, and after block_stop: the callback is called
\* only when the state changes.
Started(bk) == IF bk.is_started_ THEN bk
               ELSE [bk EXCEPT !.is_started_ = TRUE, !.running = @ + 1]

Stopped(bk) == IF bk.is_started_ THEN [bk EXCEPT !.is_started_ = FALSE, !.running = @ - 1]
               ELSE bk

HasFactory(bk) == bk.type_ \in bk_factory_

\* Mutant: block_del takes started blocks too.
Deletable_Started(id) == id \in DOMAIN bk_map_ /\ HasFactory(heap[bk_map_[id]])

Deletable(id) ==
  /\ id \in DOMAIN bk_map_
  /\ ~heap[bk_map_[id]].is_started_
  /\ HasFactory(heap[bk_map_[id]])

\* The factory destroys the object, then the identifier leaves the map.
Destroy(id) ==
  /\ heap' = [p \in DOMAIN heap \ {bk_map_[id]} |-> heap[p]]
  /\ bk_map_' = [i \in DOMAIN bk_map_ \ {id} |-> bk_map_[i]]

-----------------------------------------------------------------------------
NoBlocks ==
  /\ bk_map_ = [id \in {} |-> nullptr]
  /\ heap = [p \in {} |-> nullptr]
  /\ phase = "ready"
  /\ cursor = nullptr
  /\ reply = [op |-> "none", id |-> nullptr, ok |-> TRUE]

Init == bk_factory_ = {} /\ NoBlocks

block_factory_register(type) ==
  /\ phase = "ready"
  /\ bk_factory_' = bk_factory_ \cup {type}
  /\ UNCHANGED <<bk_map_, heap, phase, cursor, reply>>

block_factory_unregister(type) ==
  /\ phase = "ready"
  /\ bk_factory_' = bk_factory_ \ {type}
  /\ UNCHANGED <<bk_map_, heap, phase, cursor, reply>>

block_factory_clear ==
  /\ phase = "ready"
  /\ bk_factory_' = {}
  /\ UNCHANGED <<bk_map_, heap, phase, cursor, reply>>

\* Mutant: a block is added over another.
block_add_Replacing(id, type) ==
  /\ phase = "ready"
  /\ \/ type \notin bk_factory_ /\ Refuse("add", id)
     \/ /\ type \in bk_factory_
        /\ \E p \in Ptr \ DOMAIN heap :
             /\ heap' = [q \in DOMAIN heap \cup {p} |->
                           IF q = p THEN NewBlock(id, type) ELSE heap[q]]
             /\ bk_map_' = [i \in DOMAIN bk_map_ \cup {id} |->
                              IF i = id THEN p ELSE bk_map_[i]]
             /\ Returns("add", id, TRUE)
  /\ UNCHANGED <<bk_factory_, phase, cursor>>

\* An identifier in use and a type without a factory are refused; then the
\* constructor answers with a fresh address, or with nullptr.
block_add(id, type) ==
  /\ phase = "ready"
  /\ \/ (block_get(id) # nullptr \/ type \notin bk_factory_) /\ Refuse("add", id)
     \/ /\ block_get(id) = nullptr /\ type \in bk_factory_
        /\ \/ Refuse("add", id)
           \/ \E p \in Ptr \ DOMAIN heap :
                /\ heap' = [q \in DOMAIN heap \cup {p} |->
                              IF q = p THEN NewBlock(id, type) ELSE heap[q]]
                /\ bk_map_' = [i \in DOMAIN bk_map_ \cup {id} |->
                                 IF i = id THEN p ELSE bk_map_[i]]
                /\ Returns("add", id, TRUE)
  /\ UNCHANGED <<bk_factory_, phase, cursor>>

\* Mutant: starting a started block is an error.
block_start_Once(id) ==
  /\ phase = "ready"
  /\ \/ block_get(id) = nullptr /\ Refuse("start", id)
     \/ /\ block_get(id) # nullptr
        /\ heap' = [heap EXCEPT ![block_get(id)] = Started(@)]
        /\ Returns("start", id, ~heap[block_get(id)].is_started_)
        /\ UNCHANGED bk_map_
  /\ UNCHANGED <<bk_factory_, phase, cursor>>

block_start(id) ==
  /\ phase = "ready"
  /\ \/ block_get(id) = nullptr /\ Refuse("start", id)
     \/ /\ block_get(id) # nullptr
        /\ heap' = [heap EXCEPT ![block_get(id)] = Started(@)]
        /\ Returns("start", id, TRUE)
        /\ UNCHANGED bk_map_
  /\ UNCHANGED <<bk_factory_, phase, cursor>>

block_stop(id) ==
  /\ phase = "ready"
  /\ \/ block_get(id) = nullptr /\ Refuse("stop", id)
     \/ /\ block_get(id) # nullptr
        /\ heap' = [heap EXCEPT ![block_get(id)] = Stopped(@)]
        /\ Returns("stop", id, TRUE)
        /\ UNCHANGED bk_map_
  /\ UNCHANGED <<bk_factory_, phase, cursor>>

block_del(id) ==
  /\ phase = "ready"
  /\ \/ ~Deletable(id) /\ Refuse("del", id)
     \/ Deletable(id) /\ Destroy(id) /\ Returns("del", id, TRUE)
  /\ UNCHANGED <<bk_factory_, phase, cursor>>

\* Mutant: source and destination are swapped.
block_bind_Swapped(src, dst) ==
  /\ phase = "ready"
  /\ \/ {src, dst} \ DOMAIN bk_map_ # {} /\ Refuse("bind", src)
     \/ /\ {src, dst} \subseteq DOMAIN bk_map_
        /\ heap' = [heap EXCEPT ![bk_map_[dst]].sink_ = bk_map_[src]]
        /\ Returns("bind", src, TRUE)
        /\ UNCHANGED bk_map_
  /\ UNCHANGED <<bk_factory_, phase, cursor>>

\* Nothing tells the sink that it is one, and nothing checks that the two differ.
block_bind(src, dst) ==
  /\ phase = "ready"
  /\ \/ {src, dst} \ DOMAIN bk_map_ # {} /\ Refuse("bind", src)
     \/ /\ {src, dst} \subseteq DOMAIN bk_map_
        /\ heap' = [heap EXCEPT ![bk_map_[src]].sink_ = bk_map_[dst]]
        /\ Returns("bind", src, TRUE)
        /\ UNCHANGED bk_map_
  /\ UNCHANGED <<bk_factory_, phase, cursor>>

-----------------------------------------------------------------------------
\* block_clear called by itself, and by ~manager. From here to ClearEnd the
\* thread is in the loop: no other call can run.
block_clear ==
  /\ phase = "ready"
  /\ phase' \in {"clear", "destroy"}
  /\ UNCHANGED <<bk_factory_, bk_map_, heap, cursor, reply>>

Clearing == phase \in {"clear", "destroy"}

\* Mutant: block_clear deletes without stopping.
ClearStop_NotStopping ==
  /\ Clearing /\ cursor = nullptr
  /\ cursor' \in DOMAIN bk_map_
  /\ UNCHANGED <<bk_factory_, bk_map_, heap, phase, reply>>

\* bk_map_ is unordered: cbegin() may be any registered block.
ClearStop ==
  /\ Clearing /\ cursor = nullptr
  /\ \E id \in DOMAIN bk_map_ :
       /\ heap' = [heap EXCEPT ![bk_map_[id]] = Stopped(@)]
       /\ cursor' = id
  /\ UNCHANGED <<bk_factory_, bk_map_, phase, reply>>

\* The loop ignores what block_del returns.
ClearDel ==
  /\ Clearing /\ cursor # nullptr
  /\ IF Deletable(cursor) THEN Destroy(cursor) ELSE UNCHANGED <<bk_map_, heap>>
  /\ cursor' = nullptr
  /\ UNCHANGED <<bk_factory_, phase, reply>>

ClearEnd ==
  /\ Clearing /\ cursor = nullptr
  /\ DOMAIN bk_map_ = {}
  /\ \/ phase = "clear" /\ phase' = "ready" /\ UNCHANGED bk_factory_
     \/ phase = "destroy" /\ phase' = "gone" /\ bk_factory_' = {}
  /\ UNCHANGED <<bk_map_, heap, cursor, reply>>

\* After its destructor the manager is no more.
Gone == phase = "gone" /\ UNCHANGED vars

-----------------------------------------------------------------------------
Factories ==
  \/ \E type \in Type : block_factory_register(type) \/ block_factory_unregister(type)
  \/ block_factory_clear

Commands ==
  \/ \E id \in Id, type \in Type : block_add(id, type)
  \/ \E id \in Id : block_start(id) \/ block_stop(id) \/ block_del(id)
  \/ \E src, dst \in Id : block_bind(src, dst)

ClearLoop == ClearStop \/ ClearDel \/ ClearEnd

Next == Factories \/ Commands \/ block_clear \/ ClearLoop \/ Gone

\* A thread inside block_clear keeps running; nobody is obliged to call anything.
Spec == Init /\ [][Next]_vars /\ WF_vars(ClearLoop)

-----------------------------------------------------------------------------
\* Every variable keeps the shape its declaration gives it.
TypeOK ==
  /\ bk_factory_ \subseteq Type
  /\ DOMAIN bk_map_ \subseteq Id
  /\ bk_map_ \in [DOMAIN bk_map_ -> Ptr]
  /\ DOMAIN heap \subseteq Ptr
  /\ heap \in [DOMAIN heap -> Block]
  /\ phase \in Phases
  /\ cursor \in Id \cup {nullptr}
  /\ reply \in Reply

\* The registry and the allocator agree: each identifier leads to a live
\* block that bears it, and no live block is lost to its manager. This is
\* what lets block_del and ~manager free everything exactly once.
MapOwnsHeap ==
  /\ \A id \in DOMAIN bk_map_ : bk_map_[id] \in DOMAIN heap /\ heap[bk_map_[id]].id_ = id
  /\ \A p \in DOMAIN heap :
       heap[p].id_ \in DOMAIN bk_map_ /\ bk_map_[heap[p].id_] = p

\* start_ and stop_ are called in turn, however often block_start and
\* block_stop are ("will actually only be started once"), so is_started_
\* tells whether the block holds what its start_ acquires.
CallbacksAlternate ==
  \A p \in DOMAIN heap : heap[p].running = IF heap[p].is_started_ THEN 1 ELSE 0

\* A block is destroyed only after its stop_ has undone its start_, by
\* block_del and by the loop of block_clear alike.
DestroyedQuiescent ==
  [][\A p \in DOMAIN heap \ DOMAIN heap' : heap[p].running = 0]_vars

\* The identifiers' life cycle, read off the objects.
StatusOf(id) ==
  IF id \notin DOMAIN bk_map_ THEN "absent"
  ELSE IF heap[bk_map_[id]].is_started_ THEN "started" ELSE "stopped"

Status == [id \in Id |-> StatusOf(id)]

Registry == INSTANCE BlockRegistry WITH None <- nullptr, status <- Status

\* The block manager implements the registry it promises to its callers:
\* each call moves the identifier it names and no other, one stage at a
\* time, and answers truly. The promise is the code's: two of its comments
\* promise more, and are quoted where BlockRegistry differs from them.

ImplementsRegistry == Registry!Spec

\* block_clear ends, and leaves no block, provided every block it has to
\* delete still has its factory.
ClearTerminates ==
  (Clearing /\ \A p \in DOMAIN heap : HasFactory(heap[p]))
    ~> (~Clearing /\ DOMAIN heap = {})
=============================================================================
