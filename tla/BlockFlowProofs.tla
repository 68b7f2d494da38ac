--------------------------- MODULE BlockFlowProofs ---------------------------
(***************************************************************************)
(* Proofs about ManagerBk and BlockFlow, for any set of identifiers, types *)
(* and addresses.                                                          *)
(*                                                                         *)
(* Of the manager. The strengthening is Inv: the shape of the variables,   *)
(* the agreement of the registry with the allocator, and the alternation of*)
(* the callbacks. The agreement is what makes the refinement mapping well  *)
(* behaved: a call on one identifier touches the object of no other.       *)
(*                                                                         *)
(* Of the flows, for callers that never delete the sink of a live block.   *)
(* FlowInv adds that every sink is the live block it was bound to, and that*)
(* a block about to process data is pinned: some live block still has it   *)
(* for sink, so the one command that may run before its reply cannot delete*)
(* it. For callers that close no ring, with or without the other rule,     *)
(* NoRing is inductive over Inv, and a hop out of a block that forwards    *)
(* leaves behind a block that the flow can only return to through a reply. *)
(***************************************************************************)
EXTENDS BlockFlow, TLAPS

Inv == TypeOK /\ MapOwnsHeap /\ CallbacksAlternate

-----------------------------------------------------------------------------
\* block_start and block_stop keep what identifies a block and its sink, and
\* move its state and its callback count together.
LEMMA StartedBlock ==
  ASSUME NEW bk \in Block, bk.running = IF bk.is_started_ THEN 1 ELSE 0
  PROVE  /\ Started(bk) \in Block
         /\ Started(bk).id_ = bk.id_ /\ Started(bk).is_started_ = TRUE
         /\ Started(bk).running = 1
<1>1. CASE bk.is_started_ = TRUE
  BY <1>1 DEF Started, Block
<1>2. CASE bk.is_started_ # TRUE
  <2>1. bk.running = 0
    BY <1>2 DEF Block
  <2> DEFINE b1 == [bk EXCEPT !.is_started_ = TRUE]
  <2>2. b1 \in Block /\ b1.id_ = bk.id_ /\ b1.is_started_ = TRUE /\ b1.running = 0
    BY <2>1 DEF Block
  <2>3. Started(bk) = [b1 EXCEPT !.running = b1.running + 1]
    BY <1>2 DEF Started, Block
  <2> HIDE DEF b1
  <2>4. Started(bk) = [b1 EXCEPT !.running = 1]
    BY <2>2, <2>3
  <2> QED BY <2>2, <2>4 DEF Block
<1> QED BY <1>1, <1>2

LEMMA StoppedBlock ==
  ASSUME NEW bk \in Block, bk.running = IF bk.is_started_ THEN 1 ELSE 0
  PROVE  /\ Stopped(bk) \in Block
         /\ Stopped(bk).id_ = bk.id_ /\ Stopped(bk).is_started_ = FALSE
         /\ Stopped(bk).running = 0
<1>1. CASE bk.is_started_ = FALSE
  BY <1>1 DEF Stopped, Block
<1>2. CASE bk.is_started_ # FALSE
  <2>1. bk.running = 1
    BY <1>2 DEF Block
  <2> DEFINE b1 == [bk EXCEPT !.is_started_ = FALSE]
  <2>2. b1 \in Block /\ b1.id_ = bk.id_ /\ b1.is_started_ = FALSE /\ b1.running = 1
    BY <2>1 DEF Block
  <2>3. Stopped(bk) = [b1 EXCEPT !.running = b1.running - 1]
    BY <1>2 DEF Stopped, Block
  <2> HIDE DEF b1
  <2>4. Stopped(bk) = [b1 EXCEPT !.running = 0]
    BY <2>2, <2>3
  <2> QED BY <2>2, <2>4 DEF Block
<1> QED BY <1>1, <1>2

\* What block_get finds is a live block that bears the identifier.
LEMMA FoundBlock ==
  ASSUME Inv, NEW id \in Id
  PROVE  /\ block_get(id) = nullptr <=> id \notin DOMAIN bk_map_
         /\ id \in DOMAIN bk_map_ =>
              /\ block_get(id) = bk_map_[id]
              /\ bk_map_[id] \in DOMAIN heap
              /\ heap[bk_map_[id]] \in Block
              /\ heap[bk_map_[id]].id_ = id
  BY NullAssumption DEF Inv, TypeOK, MapOwnsHeap, block_get

\* Replacing one live block by one with the same identifier and a count that
\* fits its state keeps the invariant of the objects.
LEMMA UpdateKeepsInv ==
  ASSUME Inv, NEW p \in DOMAIN heap, NEW bk \in Block,
         bk.id_ = heap[p].id_,
         bk.running = IF bk.is_started_ THEN 1 ELSE 0,
         heap' = [heap EXCEPT ![p] = bk],
         UNCHANGED <<bk_factory_, bk_map_>>,
         phase' \in Phases,
         cursor' \in Id \cup {nullptr},
         reply' \in Reply
  PROVE  Inv'
<1>1. TypeOK'
  BY DEF Inv, TypeOK
<1>2. MapOwnsHeap'
  BY DEF Inv, TypeOK, MapOwnsHeap
<1>3. CallbacksAlternate'
  BY DEF Inv, TypeOK, CallbacksAlternate
<1> QED BY <1>1, <1>2, <1>3 DEF Inv

\* Destroying a registered block leaves no trace of it, and nothing else moves.
LEMMA DestroyKeepsInv ==
  ASSUME Inv, NEW id \in DOMAIN bk_map_, Destroy(id),
         UNCHANGED bk_factory_,
         phase' \in Phases,
         cursor' \in Id \cup {nullptr},
         reply' \in Reply
  PROVE  Inv'
<1>1. TypeOK'
  BY DEF Inv, TypeOK, Destroy
<1>2. MapOwnsHeap'
  BY DEF Inv, TypeOK, MapOwnsHeap, Destroy
<1>3. CallbacksAlternate'
  BY DEF Inv, TypeOK, CallbacksAlternate, Destroy
<1> QED BY <1>1, <1>2, <1>3 DEF Inv

\* When the objects, the registry and the reply keep their place, so does Inv.
LEMMA FrameKeepsInv ==
  ASSUME Inv, UNCHANGED <<bk_map_, heap>>,
         bk_factory_' \subseteq Type,
         phase' \in Phases,
         cursor' \in Id \cup {nullptr},
         reply' \in Reply
  PROVE  Inv'
  BY DEF Inv, TypeOK, MapOwnsHeap, CallbacksAlternate

LEMMA ReplyTyped ==
  ASSUME NEW op \in Ops, NEW id \in Id, NEW ok \in BOOLEAN, Returns(op, id, ok)
  PROVE  reply' \in Reply
  BY DEF Returns, Reply

-----------------------------------------------------------------------------
LEMMA InitInv == bk_factory_ \subseteq Type /\ NoBlocks => Inv
  BY DEF NoBlocks, Inv, TypeOK, MapOwnsHeap, CallbacksAlternate, Phases, Ops, Reply

LEMMA AddInv ==
  ASSUME Inv, NEW id \in Id, NEW type \in Type, block_add(id, type)
  PROVE  Inv'
<1> USE DEF block_add
<1>1. reply' \in Reply
  <2>1. "add" \in Ops
    BY DEF Ops
  <2>2. Returns("add", id, FALSE) \/ Returns("add", id, TRUE)
    BY DEF Refuse
  <2> QED BY <2>1, <2>2, ReplyTyped
<1>2. /\ bk_factory_' \subseteq Type /\ phase' \in Phases
      /\ cursor' \in Id \cup {nullptr}
  BY DEF Inv, TypeOK
<1>3. CASE Refuse("add", id)
  BY <1>1, <1>2, <1>3, FrameKeepsInv DEF Refuse
<1>4. CASE ~Refuse("add", id)
  <2>1. PICK p \in Ptr \ DOMAIN heap :
          /\ heap' = [q \in DOMAIN heap \cup {p} |->
                        IF q = p THEN NewBlock(id, type) ELSE heap[q]]
          /\ bk_map_' = [i \in DOMAIN bk_map_ \cup {id} |->
                           IF i = id THEN p ELSE bk_map_[i]]
    BY <1>4
  <2>2. id \notin DOMAIN bk_map_
    BY <1>4, FoundBlock
  <2>3. /\ NewBlock(id, type) \in Block /\ NewBlock(id, type).id_ = id
        /\ NewBlock(id, type).running = IF NewBlock(id, type).is_started_ THEN 1 ELSE 0
    BY DEF NewBlock, Block
  <2>4. TypeOK'
    BY <1>1, <1>2, <2>1, <2>3 DEF Inv, TypeOK
  <2>5. MapOwnsHeap'
    BY <2>1, <2>2, <2>3 DEF Inv, TypeOK, MapOwnsHeap
  <2>6. CallbacksAlternate'
    BY <2>1, <2>3 DEF Inv, TypeOK, CallbacksAlternate
  <2> QED BY <2>4, <2>5, <2>6 DEF Inv
<1> QED BY <1>3, <1>4

LEMMA StartInv ==
  ASSUME Inv, NEW id \in Id, block_start(id)
  PROVE  Inv'
<1>0. reply' \in Reply
  <2>1. "start" \in Ops
    BY DEF Ops
  <2>2. Returns("start", id, FALSE) \/ Returns("start", id, TRUE)
    BY DEF block_start, Refuse
  <2> QED BY <2>1, <2>2, ReplyTyped
<1>1. /\ bk_factory_' = bk_factory_ /\ bk_factory_' \subseteq Type
      /\ phase' \in Phases /\ cursor' \in Id \cup {nullptr}
      /\ bk_map_' = bk_map_
  BY DEF block_start, Refuse, Inv, TypeOK
<1>2. CASE block_get(id) = nullptr
  BY <1>0, <1>1, <1>2, FrameKeepsInv DEF block_start, Refuse
<1>3. CASE block_get(id) # nullptr
  <2> DEFINE p == bk_map_[id]
  <2>1. p \in DOMAIN heap /\ heap[p] \in Block /\ block_get(id) = p
    BY <1>3, FoundBlock
  <2>2. heap[p].running = IF heap[p].is_started_ THEN 1 ELSE 0
    BY <2>1 DEF Inv, CallbacksAlternate
  <2>3. heap' = [heap EXCEPT ![p] = Started(heap[p])]
    BY <1>3, <2>1 DEF block_start
  <2> QED BY <1>0, <1>1, <2>1, <2>2, <2>3, StartedBlock, UpdateKeepsInv
<1> QED BY <1>2, <1>3

LEMMA StopInv ==
  ASSUME Inv, NEW id \in Id, block_stop(id)
  PROVE  Inv'
<1>0. reply' \in Reply
  <2>1. "stop" \in Ops
    BY DEF Ops
  <2>2. Returns("stop", id, FALSE) \/ Returns("stop", id, TRUE)
    BY DEF block_stop, Refuse
  <2> QED BY <2>1, <2>2, ReplyTyped
<1>1. /\ bk_factory_' = bk_factory_ /\ bk_factory_' \subseteq Type
      /\ phase' \in Phases /\ cursor' \in Id \cup {nullptr}
      /\ bk_map_' = bk_map_
  BY DEF block_stop, Refuse, Inv, TypeOK
<1>2. CASE block_get(id) = nullptr
  BY <1>0, <1>1, <1>2, FrameKeepsInv DEF block_stop, Refuse
<1>3. CASE block_get(id) # nullptr
  <2> DEFINE p == bk_map_[id]
  <2>1. p \in DOMAIN heap /\ heap[p] \in Block /\ block_get(id) = p
    BY <1>3, FoundBlock
  <2>2. heap[p].running = IF heap[p].is_started_ THEN 1 ELSE 0
    BY <2>1 DEF Inv, CallbacksAlternate
  <2>3. heap' = [heap EXCEPT ![p] = Stopped(heap[p])]
    BY <1>3, <2>1 DEF block_stop
  <2> QED BY <1>0, <1>1, <2>1, <2>2, <2>3, StoppedBlock, UpdateKeepsInv
<1> QED BY <1>2, <1>3

LEMMA DelInv ==
  ASSUME Inv, NEW id \in Id, block_del(id)
  PROVE  Inv'
<1>0. reply' \in Reply
  <2>1. "del" \in Ops
    BY DEF Ops
  <2>2. Returns("del", id, FALSE) \/ Returns("del", id, TRUE)
    BY DEF block_del, Refuse
  <2> QED BY <2>1, <2>2, ReplyTyped
<1>1. /\ bk_factory_' = bk_factory_ /\ bk_factory_' \subseteq Type
      /\ phase' \in Phases /\ cursor' \in Id \cup {nullptr}
  BY DEF block_del, Refuse, Inv, TypeOK
<1>2. CASE ~Deletable(id)
  BY <1>0, <1>1, <1>2, FrameKeepsInv DEF block_del, Refuse
<1>3. CASE Deletable(id)
  BY <1>0, <1>1, <1>3, DestroyKeepsInv DEF block_del, Deletable
<1> QED BY <1>2, <1>3

LEMMA BindInv ==
  ASSUME Inv, NEW src \in Id, NEW dst \in Id, block_bind(src, dst)
  PROVE  Inv'
<1>0. reply' \in Reply
  <2>1. "bind" \in Ops
    BY DEF Ops
  <2>2. Returns("bind", src, FALSE) \/ Returns("bind", src, TRUE)
    BY DEF block_bind, Refuse
  <2> QED BY <2>1, <2>2, ReplyTyped
<1>1. /\ bk_factory_' = bk_factory_ /\ bk_factory_' \subseteq Type
      /\ phase' \in Phases /\ cursor' \in Id \cup {nullptr}
      /\ bk_map_' = bk_map_
  BY DEF block_bind, Refuse, Inv, TypeOK
<1>2. CASE {src, dst} \ DOMAIN bk_map_ # {}
  BY <1>0, <1>1, <1>2, FrameKeepsInv DEF block_bind, Refuse
<1>3. CASE {src, dst} \subseteq DOMAIN bk_map_
  <2> DEFINE p == bk_map_[src]
             bk == [heap[p] EXCEPT !.sink_ = bk_map_[dst]]
  <2>1. p \in DOMAIN heap /\ heap[p] \in Block /\ bk_map_[dst] \in Ptr
    BY <1>3, FoundBlock DEF Inv, TypeOK
  <2>2. bk \in Block /\ bk.id_ = heap[p].id_ /\ bk.is_started_ = heap[p].is_started_
        /\ bk.running = heap[p].running
    BY <2>1 DEF Block
  <2>3. heap' = [heap EXCEPT ![p] = bk]
    BY <1>3 DEF block_bind
  <2>4. bk.running = IF bk.is_started_ THEN 1 ELSE 0
    BY <2>1, <2>2 DEF Inv, CallbacksAlternate
  <2> QED BY <1>0, <1>1, <2>1, <2>2, <2>3, <2>4, UpdateKeepsInv
<1> QED BY <1>2, <1>3

\* The factories are no part of what Inv relates.
LEMMA FactoriesInv ==
  ASSUME Inv, Factories
  PROVE  Inv'
<1>1. /\ bk_factory_' \subseteq Type /\ UNCHANGED <<bk_map_, heap>>
      /\ phase' \in Phases /\ cursor' \in Id \cup {nullptr} /\ reply' \in Reply
  BY DEF Factories, block_factory_register, block_factory_unregister,
         block_factory_clear, Inv, TypeOK
<1> QED BY <1>1, FrameKeepsInv

LEMMA ClearStopInv ==
  ASSUME Inv, ClearStop
  PROVE  Inv'
<1>1. PICK id \in DOMAIN bk_map_ :
        heap' = [heap EXCEPT ![bk_map_[id]] = Stopped(heap[bk_map_[id]])] /\ cursor' = id
  BY DEF ClearStop
<1> DEFINE p == bk_map_[id]
<1>2. id \in Id /\ p \in DOMAIN heap /\ heap[p] \in Block
  BY <1>1 DEF Inv, TypeOK, MapOwnsHeap
<1>3. heap[p].running = IF heap[p].is_started_ THEN 1 ELSE 0
  BY <1>2 DEF Inv, CallbacksAlternate
<1>4. /\ UNCHANGED <<bk_factory_, bk_map_>> /\ phase' \in Phases
      /\ cursor' \in Id \cup {nullptr} /\ reply' \in Reply
  BY <1>1, <1>2 DEF ClearStop, Inv, TypeOK
<1> QED BY <1>1, <1>2, <1>3, <1>4, StoppedBlock, UpdateKeepsInv

LEMMA ClearDelInv ==
  ASSUME Inv, ClearDel
  PROVE  Inv'
<1>1. /\ UNCHANGED bk_factory_ /\ bk_factory_' \subseteq Type /\ phase' \in Phases
      /\ cursor' \in Id \cup {nullptr} /\ reply' \in Reply
  BY DEF ClearDel, Inv, TypeOK
<1>2. CASE Deletable(cursor)
  BY <1>1, <1>2, DestroyKeepsInv DEF ClearDel, Deletable
<1>3. CASE ~Deletable(cursor)
  BY <1>1, <1>3, FrameKeepsInv DEF ClearDel
<1> QED BY <1>2, <1>3

LEMMA ClearEndsInv ==
  ASSUME Inv, block_clear \/ ClearEnd
  PROVE  Inv'
<1>1. /\ bk_factory_' \subseteq Type /\ UNCHANGED <<bk_map_, heap>>
      /\ phase' \in Phases /\ cursor' \in Id \cup {nullptr} /\ reply' \in Reply
  BY DEF block_clear, ClearEnd, Phases, Inv, TypeOK
<1> QED BY <1>1, FrameKeepsInv

\* The invariant is inductive.
LEMMA NextInv == Inv /\ [Next]_vars => Inv'
<1> SUFFICES ASSUME Inv, [Next]_vars PROVE Inv'
  OBVIOUS
<1>1. CASE Factories
  BY <1>1, FactoriesInv
<1>2. CASE Commands
  BY <1>2, AddInv, StartInv, StopInv, DelInv, BindInv DEF Commands
<1>3. CASE block_clear
  BY <1>3, ClearEndsInv
<1>4. CASE ClearLoop
  BY <1>4, ClearStopInv, ClearDelInv, ClearEndsInv DEF ClearLoop
<1>5. CASE UNCHANGED vars
  <2>1. /\ UNCHANGED <<bk_map_, heap>> /\ bk_factory_' \subseteq Type /\ phase' \in Phases
        /\ cursor' \in Id \cup {nullptr} /\ reply' \in Reply
    BY <1>5 DEF vars, Inv, TypeOK
  <2> QED BY <2>1, FrameKeepsInv
<1>6. CASE Gone
  BY <1>5, <1>6 DEF Gone
<1> QED BY <1>1, <1>2, <1>3, <1>4, <1>5, <1>6 DEF Next

\* Every reachable state satisfies the invariant.
THEOREM Invariance == Spec => []Inv
<1>1. Init => Inv
  BY InitInv DEF Init
<1> QED BY <1>1, NextInv, PTL DEF Spec

\* Every variable keeps its shape.
THEOREM TypeCorrect == Spec => []TypeOK
<1>1. Inv => TypeOK
  BY DEF Inv
<1> QED BY <1>1, Invariance, PTL

\* No live block is lost to its manager and no identifier leads to a freed
\* one, whatever calls are made (manager_bk.cpp).
THEOREM RegistryOwnsBlocks == Spec => []MapOwnsHeap
<1>1. Inv => MapOwnsHeap
  BY DEF Inv
<1> QED BY <1>1, Invariance, PTL

\* start_ and stop_ are called in turn.
THEOREM StartStopAlternate == Spec => []CallbacksAlternate
<1>1. Inv => CallbacksAlternate
  BY DEF Inv
<1> QED BY <1>1, Invariance, PTL

-----------------------------------------------------------------------------
\* Only block_del and the loop of block_clear shrink the heap, each of one
\* block that is not started.
LEMMA OnlyDestroyFrees ==
  ASSUME Inv, [Next]_vars, NEW p \in DOMAIN heap, p \notin DOMAIN heap'
  PROVE  \E id \in DOMAIN bk_map_ : Deletable(id) /\ bk_map_[id] = p
<1>1. CASE Factories
  BY <1>1 DEF Factories, block_factory_register, block_factory_unregister,
              block_factory_clear
<1>2. CASE Commands
  <2>1. CASE \E id \in Id, type \in Type : block_add(id, type)
    BY <2>1 DEF block_add, Refuse
  <2>2. CASE \E id \in Id : block_start(id) \/ block_stop(id)
    BY <2>2 DEF block_start, block_stop, Refuse
  <2>3. CASE \E id \in Id : block_del(id)
    BY <2>3 DEF block_del, Refuse, Destroy, Deletable
  <2>4. CASE \E src, dst \in Id : block_bind(src, dst)
    BY <2>4 DEF block_bind, Refuse
  <2> QED BY <1>2, <2>1, <2>2, <2>3, <2>4 DEF Commands
<1>3. CASE block_clear \/ ClearStop \/ ClearEnd \/ Gone \/ UNCHANGED vars
  BY <1>3 DEF block_clear, ClearStop, ClearEnd, Gone, vars
<1>4. CASE ClearDel
  BY <1>4 DEF ClearDel, Destroy, Deletable
<1> QED BY <1>1, <1>2, <1>3, <1>4 DEF Next, ClearLoop

\* A block is destroyed only after its stop_ has undone its start_.
THEOREM DestroyedAreQuiescent == Spec => DestroyedQuiescent
<1>1. Inv /\ [Next]_vars => [\A p \in DOMAIN heap \ DOMAIN heap' : heap[p].running = 0]_vars
  <2> SUFFICES ASSUME Inv, [Next]_vars, NEW p \in DOMAIN heap, p \notin DOMAIN heap'
               PROVE  heap[p].running = 0
    OBVIOUS
  <2>1. ~heap[p].is_started_
    BY OnlyDestroyFrees DEF Deletable
  <2> QED BY <2>1 DEF Inv, CallbacksAlternate
<1> QED BY <1>1, Invariance, PTL DEF Spec, DestroyedQuiescent

-----------------------------------------------------------------------------
\* Between its two calls, block_clear stands on a block that is registered and
\* stopped: no other call can come in between.
CursorIsStopped ==
  cursor # nullptr =>
    /\ Clearing /\ cursor \in DOMAIN bk_map_
    /\ ~heap[bk_map_[cursor]].is_started_

LEMMA CursorInv == Inv /\ CursorIsStopped /\ [Next]_vars => CursorIsStopped'
<1> SUFFICES ASSUME Inv, CursorIsStopped, [Next]_vars, cursor' # nullptr
             PROVE  /\ Clearing' /\ cursor' \in DOMAIN bk_map_'
                    /\ ~heap'[bk_map_'[cursor']].is_started_
  BY DEF CursorIsStopped
<1>1. CASE Factories \/ Commands \/ block_clear
  BY <1>1 DEF Factories, block_factory_register, block_factory_unregister, block_factory_clear,
              Commands, block_add, block_start, block_stop, block_del, block_bind, block_clear,
              CursorIsStopped, Clearing
<1>2. CASE ClearStop
  <2>1. PICK id \in DOMAIN bk_map_ :
          heap' = [heap EXCEPT ![bk_map_[id]] = Stopped(heap[bk_map_[id]])] /\ cursor' = id
    BY <1>2 DEF ClearStop
  <2>2. /\ bk_map_[id] \in DOMAIN heap /\ heap[bk_map_[id]] \in Block
        /\ heap[bk_map_[id]].running = IF heap[bk_map_[id]].is_started_ THEN 1 ELSE 0
    BY DEF Inv, TypeOK, MapOwnsHeap, CallbacksAlternate
  <2>3. Stopped(heap[bk_map_[id]]).is_started_ = FALSE
    BY <2>2, StoppedBlock
  <2> QED BY <1>2, <2>1, <2>2, <2>3 DEF ClearStop, Clearing
<1>3. CASE ClearDel \/ ClearEnd
  BY <1>3 DEF ClearDel, ClearEnd
<1>4. CASE Gone \/ UNCHANGED vars
  BY <1>4 DEF Gone, vars, CursorIsStopped, Clearing
<1> QED BY <1>1, <1>2, <1>3, <1>4 DEF Next, ClearLoop

\* Why block_clear ends: each turn of its loop takes away the block it stands
\* on, and the want of a factory is the one reason for it not to. (That the
\* loop then comes to an end is ClearTerminates.)
ClearDescends ==
  [][cursor # nullptr =>
       /\ cursor \in DOMAIN bk_map_
       /\ DOMAIN bk_map_' = IF HasFactory(heap[bk_map_[cursor]])
                            THEN DOMAIN bk_map_ \ {cursor} ELSE DOMAIN bk_map_]_vars

\* block_clear is never on an identifier that is not there, and each turn
\* leaves one block less, unless its factory was unregistered (manager_bk.cpp:193).
THEOREM ClearingDescends == Spec => ClearDescends
<1>1. Init => CursorIsStopped
  BY DEF Init, NoBlocks, CursorIsStopped
<1>2. Inv /\ CursorIsStopped /\ [Next]_vars =>
        [cursor # nullptr =>
           /\ cursor \in DOMAIN bk_map_
           /\ DOMAIN bk_map_' = IF HasFactory(heap[bk_map_[cursor]])
                                THEN DOMAIN bk_map_ \ {cursor} ELSE DOMAIN bk_map_]_vars
  <2> SUFFICES ASSUME CursorIsStopped, Next, vars' # vars, cursor # nullptr
               PROVE  /\ cursor \in DOMAIN bk_map_
                      /\ DOMAIN bk_map_' = IF HasFactory(heap[bk_map_[cursor]])
                                           THEN DOMAIN bk_map_ \ {cursor} ELSE DOMAIN bk_map_
    OBVIOUS
  <2>1. /\ phase \in {"clear", "destroy"} /\ cursor \in DOMAIN bk_map_
        /\ ~heap[bk_map_[cursor]].is_started_
    BY DEF CursorIsStopped, Clearing
  <2>2. ClearDel
    <3>1. ~Factories /\ ~Commands /\ ~block_clear
      BY <2>1 DEF Factories, block_factory_register, block_factory_unregister,
                  block_factory_clear, Commands, block_add, block_start, block_stop,
                  block_del, block_bind, block_clear
    <3>2. ~ClearStop /\ ~ClearEnd /\ ~Gone
      BY DEF ClearStop, ClearEnd, Gone
    <3> QED BY <3>1, <3>2 DEF Next, ClearLoop
  <2> QED BY <2>1, <2>2 DEF ClearDel, Deletable, Destroy
<1> QED BY <1>1, <1>2, CursorInv, Invariance, PTL DEF Spec, ClearDescends

-----------------------------------------------------------------------------
\* The refinement mapping reads one object per identifier. Three lemmas say
\* what it sees of a step on the objects; MapOwnsHeap is what confines each
\* step to the identifier of the object it touches.
LEMMA StatusSame ==
  ASSUME UNCHANGED <<bk_map_, heap>>
  PROVE  Status' = Status
  BY DEF Status, StatusOf

LEMMA StatusMoved ==
  ASSUME Inv, NEW id \in DOMAIN bk_map_, NEW bk \in Block,
         heap' = [heap EXCEPT ![bk_map_[id]] = bk], UNCHANGED bk_map_
  PROVE  Status' = [Status EXCEPT ![id] = IF bk.is_started_ THEN "started" ELSE "stopped"]
<1>1. id \in Id /\ bk_map_[id] \in DOMAIN heap
  BY DEF Inv, TypeOK, MapOwnsHeap
<1>2. \A i \in DOMAIN bk_map_ \ {id} : bk_map_[i] # bk_map_[id]
  BY DEF Inv, MapOwnsHeap
<1>3. ASSUME NEW i \in Id
      PROVE  StatusOf(i)' = IF i = id THEN IF bk.is_started_ THEN "started" ELSE "stopped"
                                      ELSE StatusOf(i)
  BY <1>1, <1>2 DEF StatusOf, Inv, TypeOK, MapOwnsHeap
<1> QED BY <1>1, <1>3 DEF Status

LEMMA StatusGone ==
  ASSUME Inv, NEW id \in DOMAIN bk_map_, Destroy(id)
  PROVE  Status' = [Status EXCEPT ![id] = "absent"]
<1>1. id \in Id
  BY DEF Inv, TypeOK
<1>2. \A i \in DOMAIN bk_map_ \ {id} : bk_map_[i] # bk_map_[id]
  BY DEF Inv, MapOwnsHeap
<1>3. ASSUME NEW i \in Id
      PROVE  StatusOf(i)' = IF i = id THEN "absent" ELSE StatusOf(i)
  BY <1>1, <1>2 DEF StatusOf, Destroy, Inv, TypeOK, MapOwnsHeap
<1> QED BY <1>1, <1>3 DEF Status

LEMMA StatusBorn ==
  ASSUME Inv, NEW id \in Id \ DOMAIN bk_map_, NEW type \in Type,
         NEW p \in Ptr \ DOMAIN heap,
         heap' = [q \in DOMAIN heap \cup {p} |-> IF q = p THEN NewBlock(id, type) ELSE heap[q]],
         bk_map_' = [i \in DOMAIN bk_map_ \cup {id} |-> IF i = id THEN p ELSE bk_map_[i]]
  PROVE  Status' = [Status EXCEPT ![id] = "stopped"]
<1>1. ASSUME NEW i \in Id
      PROVE  StatusOf(i)' = IF i = id THEN "stopped" ELSE StatusOf(i)
  BY DEF StatusOf, NewBlock, Inv, TypeOK, MapOwnsHeap
<1> QED BY <1>1 DEF Status

\* What the abstract registry knows of an identifier.
LEMMA StatusKnown ==
  ASSUME Inv, NEW id \in Id
  PROVE  /\ Status[id] = "absent" <=> id \notin DOMAIN bk_map_
         /\ Registry!Present(id) <=> id \in DOMAIN bk_map_
         /\ id \in DOMAIN bk_map_ =>
              Status[id] = IF heap[bk_map_[id]].is_started_ THEN "started" ELSE "stopped"
  BY DEF Status, StatusOf, Registry!Present, Inv, TypeOK, MapOwnsHeap

LEMMA RefusedIsAbstract ==
  ASSUME NEW op, NEW id, Refuse(op, id)
  PROVE  Registry!Refuse(op, id)
  BY StatusSame DEF Refuse, Returns, Registry!Refuse, Registry!Returns

LEMMA AddRefines ==
  ASSUME Inv, NEW id \in Id, NEW type \in Type, block_add(id, type)
  PROVE  Registry!Add(id)
<1>1. CASE Refuse("add", id)
  BY <1>1, RefusedIsAbstract DEF Registry!Add
<1>2. CASE ~Refuse("add", id)
  <2>1. id \notin DOMAIN bk_map_
    BY <1>2, FoundBlock DEF block_add
  <2>2. Status' = [Status EXCEPT ![id] = "stopped"]
    BY <1>2, <2>1, StatusBorn DEF block_add
  <2>3. ~Registry!Present(id)
    BY <2>1, StatusKnown
  <2> QED BY <1>2, <2>2, <2>3 DEF block_add, Returns, Registry!Add, Registry!Returns
<1> QED BY <1>1, <1>2

LEMMA StartRefines ==
  ASSUME Inv, NEW id \in Id, block_start(id)
  PROVE  Registry!Start(id)
<1>1. CASE id \notin DOMAIN bk_map_
  BY <1>1, FoundBlock, StatusKnown, RefusedIsAbstract DEF block_start, Registry!Start
<1>2. CASE id \in DOMAIN bk_map_
  <2> DEFINE p == bk_map_[id]
  <2>1. block_get(id) = p /\ block_get(id) # nullptr /\ p \in DOMAIN heap /\ heap[p] \in Block
    BY <1>2, FoundBlock
  <2>2. /\ heap' = [heap EXCEPT ![p] = Started(heap[p])]
        /\ Returns("start", id, TRUE) /\ UNCHANGED bk_map_
    BY <2>1 DEF block_start
  <2>3. Started(heap[p]) \in Block /\ Started(heap[p]).is_started_ = TRUE
    BY <2>1, StartedBlock DEF Inv, CallbacksAlternate
  <2>4. Status' = [Status EXCEPT ![id] = "started"]
    BY <1>2, <2>2, <2>3, StatusMoved
  <2>5. Registry!Present(id)
    BY <1>2, StatusKnown
  <2> QED BY <2>2, <2>4, <2>5 DEF Returns, Registry!Start, Registry!Returns
<1> QED BY <1>1, <1>2

LEMMA StopRefines ==
  ASSUME Inv, NEW id \in Id, block_stop(id)
  PROVE  Registry!Stop(id)
<1>1. CASE id \notin DOMAIN bk_map_
  BY <1>1, FoundBlock, StatusKnown, RefusedIsAbstract DEF block_stop, Registry!Stop
<1>2. CASE id \in DOMAIN bk_map_
  <2> DEFINE p == bk_map_[id]
  <2>1. block_get(id) = p /\ block_get(id) # nullptr /\ p \in DOMAIN heap /\ heap[p] \in Block
    BY <1>2, FoundBlock
  <2>2. /\ heap' = [heap EXCEPT ![p] = Stopped(heap[p])]
        /\ Returns("stop", id, TRUE) /\ UNCHANGED bk_map_
    BY <2>1 DEF block_stop
  <2>3. Stopped(heap[p]) \in Block /\ Stopped(heap[p]).is_started_ = FALSE
    BY <2>1, StoppedBlock DEF Inv, CallbacksAlternate
  <2>4. Status' = [Status EXCEPT ![id] = "stopped"]
    BY <1>2, <2>2, <2>3, StatusMoved
  <2>5. Registry!Present(id)
    BY <1>2, StatusKnown
  <2> QED BY <2>2, <2>4, <2>5 DEF Returns, Registry!Stop, Registry!Returns
<1> QED BY <1>1, <1>2

LEMMA DelRefines ==
  ASSUME Inv, NEW id \in Id, block_del(id)
  PROVE  Registry!Del(id)
<1>1. CASE ~Deletable(id)
  BY <1>1, RefusedIsAbstract DEF block_del, Registry!Del
<1>2. CASE Deletable(id)
  <2>1. Status' = [Status EXCEPT ![id] = "absent"]
    BY <1>2, StatusGone DEF block_del, Deletable
  <2>2. Status[id] = "stopped"
    BY <1>2, StatusKnown DEF Deletable
  <2> QED BY <1>2, <2>1, <2>2 DEF block_del, Returns, Registry!Del, Registry!Returns
<1> QED BY <1>1, <1>2

LEMMA BindRefines ==
  ASSUME Inv, NEW src \in Id, NEW dst \in Id, block_bind(src, dst)
  PROVE  Registry!Bind(src, dst)
<1>1. CASE {src, dst} \ DOMAIN bk_map_ # {}
  <2>1. ~(Registry!Present(src) /\ Registry!Present(dst))
    BY <1>1, StatusKnown
  <2>2. Refuse("bind", src)
    BY <1>1 DEF block_bind
  <2> QED BY <2>1, <2>2, StatusSame DEF Refuse, Returns, Registry!Bind, Registry!Returns
<1>2. CASE {src, dst} \subseteq DOMAIN bk_map_
  <2> DEFINE p == bk_map_[src]
             bk == [heap[p] EXCEPT !.sink_ = bk_map_[dst]]
  <2>1. p \in DOMAIN heap /\ heap[p] \in Block /\ bk_map_[dst] \in Ptr
    BY <1>2, FoundBlock DEF Inv, TypeOK
  <2>2. bk \in Block /\ bk.is_started_ = heap[p].is_started_
    BY <2>1 DEF Block
  <2>3. heap' = [heap EXCEPT ![p] = bk] /\ UNCHANGED bk_map_ /\ Returns("bind", src, TRUE)
    BY <1>2 DEF block_bind
  <2> HIDE DEF bk
  <2>4. Status' = [Status EXCEPT ![src] = IF bk.is_started_ THEN "started" ELSE "stopped"]
    BY <1>2, <2>2, <2>3, StatusMoved
  <2>5. Status[src] = IF bk.is_started_ THEN "started" ELSE "stopped"
    BY <1>2, <2>2, StatusKnown
  <2>6. Status' = Status
    BY <2>4, <2>5 DEF Status
  <2>7. Registry!Present(src) /\ Registry!Present(dst)
    BY <1>2, StatusKnown
  <2> QED BY <2>3, <2>6, <2>7 DEF Returns, Registry!Bind, Registry!Returns
<1> QED BY <1>1, <1>2

\* block_clear takes a block down a stage, or finds nothing to do.
LEMMA ClearRefines ==
  ASSUME Inv, ClearLoop
  PROVE  (\E id \in Id : Registry!TakeDown(id)) \/ UNCHANGED Registry!vars
<1>1. CASE ClearStop
  <2>1. PICK id \in DOMAIN bk_map_ :
          heap' = [heap EXCEPT ![bk_map_[id]] = Stopped(heap[bk_map_[id]])]
    BY <1>1 DEF ClearStop
  <2> DEFINE p == bk_map_[id]
  <2>2. id \in Id /\ p \in DOMAIN heap /\ heap[p] \in Block
    BY DEF Inv, TypeOK, MapOwnsHeap
  <2>3. Stopped(heap[p]) \in Block /\ Stopped(heap[p]).is_started_ = FALSE
    BY <2>2, StoppedBlock DEF Inv, CallbacksAlternate
  <2>4. Status' = [Status EXCEPT ![id] = "stopped"] /\ UNCHANGED reply
    BY <1>1, <2>1, <2>3, StatusMoved DEF ClearStop
  <2>5. Status[id] = "started" \/ Status[id] = "stopped"
    BY <2>2, StatusKnown
  <2>6. CASE Status[id] = "started"
    BY <2>2, <2>4, <2>6 DEF Registry!TakeDown
  <2>7. CASE Status[id] = "stopped"
    BY <2>2, <2>4, <2>7 DEF Registry!vars, Status
  <2> QED BY <2>5, <2>6, <2>7
<1>2. CASE ClearDel /\ Deletable(cursor)
  <2>1. cursor \in Id /\ Status' = [Status EXCEPT ![cursor] = "absent"] /\ UNCHANGED reply
    BY <1>2, StatusGone DEF ClearDel, Deletable, Inv, TypeOK
  <2>2. Status[cursor] = "stopped"
    BY <1>2, <2>1, StatusKnown DEF Deletable
  <2> QED BY <2>1, <2>2 DEF Registry!TakeDown
<1>3. CASE (ClearDel /\ ~Deletable(cursor)) \/ ClearEnd
  BY <1>3, StatusSame DEF ClearDel, ClearEnd, Registry!vars
<1> QED BY <1>1, <1>2, <1>3 DEF ClearLoop

\* Every call is the abstract call it claims to be, and block_clear only takes
\* blocks down.
LEMMA StepRefines == Inv /\ [Next]_vars => [Registry!Next]_(Registry!vars)
<1> SUFFICES ASSUME Inv, [Next]_vars
             PROVE  Registry!Next \/ UNCHANGED Registry!vars
  OBVIOUS
<1>1. CASE Factories \/ block_clear \/ Gone \/ UNCHANGED vars
  BY <1>1, StatusSame DEF Factories, block_factory_register, block_factory_unregister,
       block_factory_clear, block_clear, Gone, vars, Registry!vars
<1>2. CASE Commands
  BY <1>2, AddRefines, StartRefines, StopRefines, DelRefines, BindRefines
     DEF Commands, Registry!Next
<1>3. CASE ClearLoop
  BY <1>3, ClearRefines DEF Registry!Next
<1> QED BY <1>1, <1>2, <1>3 DEF Next

LEMMA NoBlocksRefines == NoBlocks => Registry!Init
  BY DEF NoBlocks, Registry!Init, Status, StatusOf

\* The block manager implements the abstract registry, for any identifiers,
\* types and addresses.
THEOREM RegistryRefined == Spec => ImplementsRegistry
<1>1. Init => Registry!Init
  BY NoBlocksRefines DEF Init
<1> QED BY <1>1, StepRefines, Invariance, PTL DEF Spec, ImplementsRegistry, Registry!Spec

-----------------------------------------------------------------------------
\* Some live block has the one at p for sink.
Pinned(p) == \E q \in DOMAIN heap : heap[q].sink_ = p

FlowIsPinned ==
  /\ flow.pc # "fault"
  /\ flow.pc # "idle" => flow.current \in DOMAIN heap
  /\ flow.pc \in {"deliver", "execute"} => Pinned(flow.current)

FlowInv == Inv /\ FlowTypeOK /\ SinksAreBound /\ FlowIsPinned

\* What a command preserves, and what it spares.
Kept ==
  /\ Inv'
  /\ bound' \in [Ptr -> Id \cup {nullptr}]
  /\ SinksAreBound'
  /\ \A p \in DOMAIN heap : Pinned(p) => p \in DOMAIN heap'

LEMMA SameKept ==
  ASSUME Inv, SinksAreBound, bound \in [Ptr -> Id \cup {nullptr}],
         Inv', UNCHANGED <<heap, bound>>
  PROVE  Kept
  BY DEF Kept, SinksAreBound, Live

\* A refused command leaves the blocks alone.
LEMMA AddKept ==
  ASSUME Inv, SinksAreBound, bound \in [Ptr -> Id \cup {nullptr}],
         NEW id \in Id, NEW type \in Type, Add(id, type)
  PROVE  Kept
<1>1. Inv'
  BY AddInv DEF Add
<1>2. CASE UNCHANGED heap
  <2>1. bound' = bound
    BY <1>2 DEF Add
  <2> QED BY <1>1, <1>2, <2>1, SameKept
<1>3. CASE heap' # heap
  <2>1. PICK a \in Ptr \ DOMAIN heap :
          heap' = [q \in DOMAIN heap \cup {a} |-> IF q = a THEN NewBlock(id, type) ELSE heap[q]]
    BY <1>3 DEF Add, block_add, Refuse
  <2>2. bound' = [p \in Ptr |-> IF p = a THEN nullptr ELSE bound[p]]
    BY <2>1 DEF Add
  <2>3. bound' \in [Ptr -> Id \cup {nullptr}]
    BY <2>2
  <2>4. heap'[a].sink_ = nullptr
    BY <2>1 DEF NewBlock
  <2>5. DOMAIN heap \subseteq Ptr
    BY DEF Inv, TypeOK
  <2>6. SinksAreBound'
    BY <2>1, <2>2, <2>4, <2>5 DEF SinksAreBound, Live
  <2> QED BY <1>1, <2>1, <2>3, <2>6 DEF Kept
<1> QED BY <1>2, <1>3

\* Starting and stopping a block leave its sink and its identifier.
LEMMA StartOrStopKept ==
  ASSUME Inv, SinksAreBound, bound \in [Ptr -> Id \cup {nullptr}],
         NEW id \in Id, StartOrStop(id)
  PROVE  Kept
<1>1. Inv'
  BY StartInv, StopInv DEF StartOrStop
<1>2. DOMAIN heap' = DOMAIN heap
  BY DEF StartOrStop, block_start, block_stop, Refuse
<1>3. ASSUME NEW p \in DOMAIN heap
      PROVE  heap'[p].sink_ = heap[p].sink_ /\ heap'[p].id_ = heap[p].id_
  <2>1. heap[p] \in Block
    BY DEF Inv, TypeOK
  <2>2. heap'[p] = heap[p] \/ heap'[p] = Started(heap[p]) \/ heap'[p] = Stopped(heap[p])
    BY DEF StartOrStop, block_start, block_stop, Refuse
  <2>3. /\ Started(heap[p]).sink_ = heap[p].sink_ /\ Started(heap[p]).id_ = heap[p].id_
        /\ Stopped(heap[p]).sink_ = heap[p].sink_ /\ Stopped(heap[p]).id_ = heap[p].id_
    BY <2>1 DEF Started, Stopped, Block
  <2> QED BY <2>2, <2>3
<1>4. bound' = bound
  BY DEF StartOrStop
<1>5. SinksAreBound'
  BY <1>2, <1>3, <1>4 DEF SinksAreBound, Live
<1> QED BY <1>1, <1>2, <1>4, <1>5 DEF Kept

\* The rule of the callers is what is needed here, and only here.
LEMMA DelKept ==
  ASSUME Inv, SinksAreBound, bound \in [Ptr -> Id \cup {nullptr}],
         "spare the sinks" \in CallerRules, NEW id \in Id, Del(id)
  PROVE  Kept
<1>1. Inv' /\ bound' = bound
  BY DelInv DEF Del
<1>2. CASE Refuse("del", id)
  BY <1>1, <1>2, SameKept DEF Refuse
<1>3. CASE Deletable(id) /\ Destroy(id)
  <2>1. \A p \in DOMAIN heap : heap[p].sink_ # bk_map_[id]
    BY <1>3 DEF Del, MayDelete, Deletable
  <2>2. DOMAIN heap' = DOMAIN heap \ {bk_map_[id]} /\ \A p \in DOMAIN heap' : heap'[p] = heap[p]
    BY <1>3 DEF Destroy
  <2>3. ASSUME NEW p \in DOMAIN heap', heap'[p].sink_ # nullptr
        PROVE  heap'[p].sink_ \in DOMAIN heap' /\ heap'[heap'[p].sink_].id_ = bound'[p]
    <3> DEFINE sink == heap[p].sink_
    <3>1. p \in DOMAIN heap /\ heap'[p] = heap[p] /\ sink # nullptr
      BY <2>2, <2>3
    <3>2. sink \in DOMAIN heap' /\ heap[sink].id_ = bound[p]
      BY <2>1, <2>2, <3>1 DEF SinksAreBound, Live
    <3> QED BY <1>1, <2>2, <3>1, <3>2
  <2>4. SinksAreBound'
    BY <2>3 DEF SinksAreBound, Live
  <2> QED BY <1>1, <2>1, <2>2, <2>4 DEF Kept, Pinned
<1> QED BY <1>2, <1>3 DEF Del, block_del

LEMMA BindKept ==
  ASSUME Inv, SinksAreBound, bound \in [Ptr -> Id \cup {nullptr}],
         NEW src \in Id, NEW dst \in Id, Bind(src, dst)
  PROVE  Kept
<1>1. Inv'
  BY BindInv DEF Bind
<1>2. CASE ~({src, dst} \subseteq DOMAIN bk_map_)
  BY <1>1, <1>2, SameKept DEF Bind, block_bind, Refuse
<1>3. CASE {src, dst} \subseteq DOMAIN bk_map_
  <2> DEFINE a == bk_map_[src]
             b == bk_map_[dst]
  <2>1. /\ a \in DOMAIN heap /\ b \in DOMAIN heap /\ heap[b].id_ = dst
        /\ DOMAIN heap \subseteq Ptr /\ \A p \in DOMAIN heap : heap[p] \in Block
    BY <1>3 DEF Inv, TypeOK, MapOwnsHeap
  <2>2. heap' = [heap EXCEPT ![a].sink_ = b] /\ bound' = [bound EXCEPT ![a] = dst]
    BY <1>3 DEF Bind, block_bind
  <2>3. /\ DOMAIN heap' = DOMAIN heap
        /\ \A p \in DOMAIN heap : heap'[p].id_ = heap[p].id_
        /\ \A p \in DOMAIN heap : heap'[p].sink_ = IF p = a THEN b ELSE heap[p].sink_
    BY <2>1, <2>2 DEF Block
  <2>4. bound' \in [Ptr -> Id \cup {nullptr}]
    BY <2>2
  <2>5. bound'[a] = dst /\ \A p \in DOMAIN heap \ {a} : bound'[p] = bound[p]
    BY <2>1, <2>2
  <2> HIDE DEF a, b
  <2>6. SinksAreBound'
    BY <2>1, <2>3, <2>5 DEF SinksAreBound, Live
  <2> QED BY <1>1, <2>3, <2>4, <2>6 DEF Kept
<1> QED BY <1>2, <1>3

LEMMA CommandKept ==
  ASSUME Inv, SinksAreBound, bound \in [Ptr -> Id \cup {nullptr}],
         "spare the sinks" \in CallerRules, Command
  PROVE  Kept
  BY AddKept, StartOrStopKept, DelKept, BindKept DEF Command

-----------------------------------------------------------------------------
LEMMA FlowInitInv == FlowInit => FlowInv
<1> SUFFICES ASSUME FlowInit PROVE FlowInv
  OBVIOUS
<1>1. Inv
  BY InitInv DEF FlowInit
<1> QED BY <1>1 DEF FlowInit, NoBlocks, FlowInv, FlowTypeOK, Inv, SinksAreBound,
           FlowIsPinned, NoFlow, Flow, Data

LEMMA FlowNextInv ==
  ASSUME "spare the sinks" \in CallerRules, FlowInv, [FlowNext]_flowVars
  PROVE  FlowInv'
<1> USE DEF FlowInv
<1>0. flow \in Flow /\ bound \in [Ptr -> Id \cup {nullptr}]
  BY DEF FlowTypeOK
<1>1. CASE Call
  <2>1. Kept /\ flow' = flow /\ flow.pc = "idle"
    BY <1>0, <1>1, CommandKept DEF Call
  <2> QED BY <1>0, <2>1 DEF Kept, FlowTypeOK, FlowIsPinned, Inv
<1>2. CASE UNCHANGED vars /\ bound' = bound /\ flow' \in Flow /\ FlowIsPinned'
  BY <1>0, <1>2 DEF vars, FlowTypeOK, Inv, TypeOK, MapOwnsHeap, CallbacksAlternate,
     SinksAreBound, Live
<1>3. CASE \E id \in Id, data \in Data \ {"reply"} : on_fd_(id, data)
  <2>1. PICK id \in Id, data \in Data : on_fd_(id, data)
    BY <1>3
  <2>2. id \in DOMAIN bk_map_ /\ bk_map_[id] \in DOMAIN heap /\ bk_map_[id] \in Ptr
    BY <2>1 DEF on_fd_, Inv, TypeOK, MapOwnsHeap
  <2>3. flow' \in Flow /\ FlowIsPinned'
    BY <2>1, <2>2 DEF on_fd_, Flow, FlowIsPinned, vars
  <2> QED BY <1>2, <2>1, <2>3 DEF on_fd_
<1>4. CASE Hop
  <2>1. flow.current \in DOMAIN heap
    BY <1>4 DEF Hop, FlowIsPinned
  <2> DEFINE sink == heap[flow.current].sink_
  <2>2. CASE sink = nullptr
    <3>1. flow' = NoFlow
      BY <1>4, <2>1, <2>2 DEF Hop, Live
    <3>2. flow' \in Flow /\ FlowIsPinned'
      BY <3>1 DEF NoFlow, Flow, Data, FlowIsPinned
    <3> QED BY <1>2, <1>4, <3>2 DEF Hop
  <2>3. CASE sink # nullptr
    <3>1. flow' = [flow EXCEPT !.pc = "deliver", !.current = sink]
      BY <1>4, <2>1, <2>3 DEF Hop, Live
    <3>2. sink \in DOMAIN heap /\ sink \in Ptr
      BY <2>1, <2>3 DEF SinksAreBound, Live, Inv, TypeOK
    <3>3. flow' \in Flow /\ flow'.pc = "deliver" /\ flow'.current = sink
      BY <1>0, <3>1, <3>2 DEF Flow
    <3>4. heap' = heap
      BY <1>4 DEF Hop, vars
    <3>5. FlowIsPinned'
      BY <2>1, <3>2, <3>3, <3>4 DEF FlowIsPinned, Pinned
    <3> QED BY <1>2, <1>4, <3>3, <3>5 DEF Hop
  <2> QED BY <2>2, <2>3
<1>5. CASE Deliver
  <2>1. flow.current \in DOMAIN heap /\ Pinned(flow.current) /\ heap' = heap
    BY <1>5 DEF Deliver, FlowIsPinned, vars
  <2>2. flow' = NoFlow \/ Goto("hop") \/ Goto("execute")
    BY <1>5, <2>1 DEF Deliver, Live
  <2>3. CASE flow' = NoFlow
    <3>1. flow' \in Flow /\ FlowIsPinned'
      BY <2>3 DEF NoFlow, Flow, Data, FlowIsPinned
    <3> QED BY <1>2, <1>5, <3>1 DEF Deliver
  <2>4. CASE Goto("hop") \/ Goto("execute")
    <3>1. flow' \in Flow /\ flow'.current = flow.current /\ flow'.pc \in {"hop", "execute"}
      BY <1>0, <2>4 DEF Goto, Flow
    <3>2. FlowIsPinned'
      BY <2>1, <3>1 DEF FlowIsPinned, Pinned
    <3> QED BY <1>2, <1>5, <3>1, <3>2 DEF Deliver
  <2> QED BY <2>2, <2>3, <2>4
<1>6. CASE Execute
  <2>1. flow.current \in DOMAIN heap /\ Pinned(flow.current)
    BY <1>6 DEF Execute, FlowIsPinned
  <2>2. flow' \in Flow /\ flow'.pc = "hop" /\ flow'.current = flow.current
    BY <1>0, <1>6 DEF Execute, Flow, Data
  <2>3. CASE Command
    <3>1. Kept
      BY <1>0, <2>3, CommandKept
    <3>2. FlowIsPinned'
      BY <2>1, <2>2, <3>1 DEF Kept, FlowIsPinned
    <3> QED BY <2>2, <3>1, <3>2 DEF Kept, FlowTypeOK, Inv
  <2>4. CASE UNCHANGED <<vars, bound>>
    <3>1. FlowIsPinned'
      BY <2>1, <2>2, <2>4 DEF FlowIsPinned, vars
    <3> QED BY <1>2, <2>2, <2>4, <3>1
  <2> QED BY <1>6, <2>3, <2>4 DEF Execute
<1>7. CASE UNCHANGED flowVars
  <2>1. UNCHANGED <<vars, bound, flow>>
    BY <1>7 DEF flowVars, vars
  <2>2. FlowIsPinned'
    BY <2>1 DEF FlowIsPinned, Pinned, vars
  <2> QED BY <1>0, <1>2, <2>1, <2>2
<1> QED BY <1>1, <1>3, <1>4, <1>5, <1>6, <1>7 DEF FlowNext, Running

\* For callers that spare the sinks, no flow ever reads a deleted block.
THEOREM SparedSinksAreSafe ==
  "spare the sinks" \in CallerRules => (FlowSpec => []NoFreedBlockRead)
<1>1. FlowInv => NoFreedBlockRead
  BY DEF FlowInv, FlowIsPinned, NoFreedBlockRead
<1>2. ASSUME "spare the sinks" \in CallerRules PROVE FlowInv /\ [FlowNext]_flowVars => FlowInv'
  BY <1>2, FlowNextInv
<1> SUFFICES ASSUME "spare the sinks" \in CallerRules PROVE FlowSpec => []NoFreedBlockRead
  OBVIOUS
<1>3. FlowInv /\ [FlowNext]_flowVars => FlowInv'
  BY <1>2
<1> QED BY <1>1, <1>3, FlowInitInv, PTL DEF FlowSpec

\* Nor does a sink ever outlive the block that it was bound to: none dangles,
\* none leads to a later block at the same address.
THEOREM SinksStayBound ==
  "spare the sinks" \in CallerRules => (FlowSpec => []SinksAreBound)
<1> SUFFICES ASSUME "spare the sinks" \in CallerRules PROVE FlowSpec => []SinksAreBound
  OBVIOUS
<1>1. FlowInv => SinksAreBound
  BY DEF FlowInv
<1>2. FlowInv /\ [FlowNext]_flowVars => FlowInv'
  BY FlowNextInv
<1> QED BY <1>1, <1>2, FlowInitInv, PTL DEF FlowSpec

\* And every hop leads to the block that block_bind named.
THEOREM FlowsFollowBindings ==
  "spare the sinks" \in CallerRules => (FlowSpec => FlowFollowsBindings)
<1> SUFFICES ASSUME "spare the sinks" \in CallerRules PROVE FlowSpec => FlowFollowsBindings
  OBVIOUS
<1>1. FlowInv /\ [FlowNext]_flowVars => FlowInv'
  BY FlowNextInv
<1>2. FlowInv /\ [FlowNext]_flowVars =>
        [flow.pc = "hop" /\ flow'.pc = "deliver" =>
           /\ Live(flow'.current)
           /\ heap[flow'.current].id_ = bound[flow.current]]_flowVars
  <2> SUFFICES ASSUME FlowInv, FlowNext, flow.pc = "hop", flow'.pc = "deliver"
               PROVE  /\ Live(flow'.current)
                      /\ heap[flow'.current].id_ = bound[flow.current]
    OBVIOUS
  <2>1. Hop
    BY DEF FlowNext, Running, Call, on_fd_, Deliver, Execute
  <2>2. flow.current \in DOMAIN heap /\ flow \in Flow
    BY DEF FlowInv, FlowIsPinned, FlowTypeOK
  <2>3. flow' # NoFlow
    <3>1. NoFlow.pc # "deliver"
      BY DEF NoFlow
    <3> QED BY <3>1
  <2> DEFINE sink == heap[flow.current].sink_
  <2>4. sink # nullptr /\ flow' = [flow EXCEPT !.pc = "deliver", !.current = sink]
    <3>1. CASE sink = nullptr
      <4>1. flow' = NoFlow
        BY <2>1, <2>2, <3>1 DEF Hop, Live
      <4> QED BY <2>3, <4>1
    <3>2. CASE sink # nullptr
      BY <2>1, <2>2, <3>2 DEF Hop, Live
    <3> QED BY <3>1, <3>2
  <2>5. flow'.current = sink
    BY <2>2, <2>4 DEF Flow
  <2> QED BY <2>2, <2>4, <2>5 DEF FlowInv, SinksAreBound
<1> QED BY <1>1, <1>2, FlowInitInv, PTL DEF FlowSpec, FlowFollowsBindings

-----------------------------------------------------------------------------
\* A step of a flow, with the command it may execute, is a step of the manager
\* or none: what the manager promises does not depend on who calls it when.
LEMMA FlowStepIsStep == [FlowNext]_flowVars => [Next]_vars
<1> SUFFICES ASSUME [FlowNext]_flowVars PROVE [Next]_vars
  OBVIOUS
<1>1. Command => Next
  BY DEF Command, Add, StartOrStop, Del, Bind, Next, Commands
<1>2. CASE Call
  BY <1>1, <1>2 DEF Call
<1>3. CASE Execute
  BY <1>1, <1>3 DEF Execute
<1>4. CASE Hop \/ Deliver \/ \E id \in Id, data \in Data \ {"reply"} : on_fd_(id, data)
  BY <1>4 DEF Hop, Deliver, on_fd_
<1>5. CASE UNCHANGED flowVars
  BY <1>5 DEF flowVars, vars
<1> QED BY <1>2, <1>3, <1>4, <1>5 DEF FlowNext, Running

\* Whatever rules the callers follow, commands in the middle of flows keep the
\* registry and the allocator in agreement, and the callbacks in turn.
THEOREM FlowsKeepRegistry == FlowSpec => []Inv
<1>1. FlowInit => Inv
  BY InitInv DEF FlowInit
<1>2. Inv /\ [FlowNext]_flowVars => Inv'
  BY FlowStepIsStep, NextInv
<1> QED BY <1>1, <1>2, PTL DEF FlowSpec

\* And the manager is still the registry it promises to be: a flow that reads
\* freed memory is the harm of its reader alone, up to the point of the read.
THEOREM FlowsRefineRegistry == FlowSpec => ImplementsRegistry
<1>1. FlowInit => Registry!Init
  BY NoBlocksRefines DEF FlowInit
<1>2. Inv /\ [FlowNext]_flowVars => [Registry!Next]_(Registry!vars)
  BY FlowStepIsStep, StepRefines
<1> QED BY <1>1, <1>2, FlowsKeepRegistry, PTL DEF FlowSpec, ImplementsRegistry, Registry!Spec

-----------------------------------------------------------------------------
\* Downstream(p) is the smallest closed set that has p.
LEMMA DownstreamIsClosed ==
  ASSUME Inv, NEW p \in Ptr
  PROVE  /\ Downstream(p) \in SUBSET Ptr /\ p \in Downstream(p)
         /\ Closed(Downstream(p))
<1>1. Downstream(p) \in SUBSET Ptr /\ p \in Downstream(p)
  BY DEF Downstream
<1>2. ASSUME NEW r \in Downstream(p), Forwards(r)
      PROVE  heap[r].sink_ \in Downstream(p)
  <2>1. heap[r].sink_ \in Ptr
    <3>1. heap[r] \in Block
      BY <1>2 DEF Forwards, Live, Inv, TypeOK
    <3> QED BY <1>2, <3>1 DEF Forwards, Block
  <2>2. ASSUME NEW S \in SUBSET Ptr, p \in S, Closed(S) PROVE heap[r].sink_ \in S
    BY <1>2, <2>2 DEF Downstream, Closed
  <2> QED BY <2>1, <2>2 DEF Downstream
<1> QED BY <1>1, <1>2 DEF Closed

LEMMA DownstreamIsLeast ==
  ASSUME NEW S \in SUBSET Ptr, NEW p \in S, Closed(S)
  PROVE  Downstream(p) \subseteq S
  BY DEF Downstream

\* p is not downstream of q when some closed set has q and not p.
LEMMA NotDownstream ==
  ASSUME NEW p \in Ptr, NEW q
  PROVE  p \notin Downstream(q) <=> \E S \in SUBSET Ptr : q \in S /\ Closed(S) /\ p \notin S
  BY DEF Downstream

\* A step that binds nothing opens no way: what is closed stays closed.
LEMMA NoNewWay ==
  ASSUME Inv, Inv', NoRing,
         \A p \in Ptr : Forwards(p)' => Forwards(p) /\ heap'[p].sink_ = heap[p].sink_
  PROVE  NoRing'
<1> SUFFICES ASSUME NEW p \in DOMAIN heap', Forwards(p)'
             PROVE  p \notin Downstream(heap[p].sink_)'
  BY DEF NoRing
<1>1. p \in Ptr /\ heap'[p].sink_ = heap[p].sink_ /\ Forwards(p)
  BY DEF Inv, TypeOK
<1>2. p \notin Downstream(heap[p].sink_)
  BY <1>1 DEF NoRing, Forwards, Live
<1>3. PICK S \in SUBSET Ptr : heap[p].sink_ \in S /\ Closed(S) /\ p \notin S
  BY <1>1, <1>2, NotDownstream
<1>4. Closed(S)'
  BY <1>3 DEF Closed
<1> QED BY <1>1, <1>3, <1>4 DEF Downstream

\* The one call that opens a way. D is what a flow can reach from the new
\* sink: the block that is bound is not in it, so D is still closed when the
\* way into it is open. A closed set that shows p off the ring before the
\* call shows it after, cut to D when p is in D, joined to D when it is not.
LEMMA BindNoRing ==
  ASSUME Inv, NoRing, NEW src \in DOMAIN bk_map_, NEW dst \in DOMAIN bk_map_,
         bk_map_[src] \notin Downstream(bk_map_[dst]),
         heap' = [heap EXCEPT ![bk_map_[src]].sink_ = bk_map_[dst]]
  PROVE  NoRing'
<1> DEFINE a == bk_map_[src]
           b == bk_map_[dst]
           D == Downstream(b)
<1>1. a \in DOMAIN heap /\ b \in DOMAIN heap /\ DOMAIN heap \subseteq Ptr
      /\ \A p \in DOMAIN heap : heap[p] \in Block
  BY DEF Inv, TypeOK, MapOwnsHeap
<1>2. /\ DOMAIN heap' = DOMAIN heap
      /\ \A p \in DOMAIN heap : heap'[p].type_ = heap[p].type_
      /\ \A p \in DOMAIN heap : heap'[p].sink_ = IF p = a THEN b ELSE heap[p].sink_
  BY <1>1 DEF Block
<1>3. D \in SUBSET Ptr /\ b \in D /\ a \notin D /\ Closed(D)
  BY <1>1, DownstreamIsClosed
<1> HIDE DEF a, b, D
<1>4. \A p \in Ptr \ {a} : Forwards(p)' => Forwards(p) /\ heap'[p].sink_ = heap[p].sink_
  BY <1>2 DEF Forwards, Live
<1>5. ASSUME NEW S \in SUBSET Ptr, Closed(S), a \notin S \/ b \in S
      PROVE  Closed(S)'
  <2> SUFFICES ASSUME NEW r \in S, Forwards(r)' PROVE heap'[r].sink_ \in S
    BY DEF Closed
  <2>1. CASE r = a
    BY <1>1, <1>2, <1>5, <2>1
  <2>2. CASE r # a
    BY <1>4, <1>5, <2>2 DEF Closed
  <2> QED BY <2>1, <2>2
<1> SUFFICES ASSUME NEW p \in DOMAIN heap', Forwards(p)'
             PROVE  \E S \in SUBSET Ptr : heap'[p].sink_ \in S /\ Closed(S)' /\ p \notin S
  BY <1>1, <1>2 DEF NoRing, Downstream
<1>6. p \in DOMAIN heap /\ p \in Ptr
  BY <1>1, <1>2
<1>7. CASE p = a
  BY <1>2, <1>3, <1>5, <1>6, <1>7
<1>8. CASE p # a
  <2>1. Forwards(p) /\ heap'[p].sink_ = heap[p].sink_
    BY <1>4, <1>6, <1>8
  <2>2. PICK S \in SUBSET Ptr : heap[p].sink_ \in S /\ Closed(S) /\ p \notin S
    BY <1>6, <2>1, NotDownstream DEF NoRing
  <2>3. CASE p \in D
    <3>0. PICK T \in SUBSET Ptr : T = S \cap D
      BY <1>3
    <3>1. heap[p].sink_ \in T
      BY <3>0, <1>3, <2>1, <2>2, <2>3 DEF Closed
    <3>2. Closed(T)
      BY <3>0, <1>3, <2>2 DEF Closed
    <3>3. T \in SUBSET Ptr /\ a \notin T /\ p \notin T
      BY <3>0, <1>3, <2>2
    <3>4. Closed(T)'
      BY <1>5, <3>2, <3>3
    <3> QED BY <2>1, <3>1, <3>3, <3>4
  <2>4. CASE p \notin D
    <3>0. PICK T \in SUBSET Ptr : T = S \cup D
      BY <1>3
    <3>1. Closed(T)
      BY <3>0, <1>3, <2>2 DEF Closed
    <3>2. T \in SUBSET Ptr /\ b \in T /\ p \notin T /\ heap[p].sink_ \in T
      BY <3>0, <1>3, <2>2, <2>4
    <3>3. Closed(T)'
      BY <1>5, <3>1, <3>2
    <3> QED BY <2>1, <3>2, <3>3
  <2> QED BY <2>3, <2>4
<1> QED BY <1>7, <1>8

\* A new block has no sink, and a deleted one leads nowhere, whoever still
\* points to its address.
LEMMA CommandNoRing ==
  ASSUME "close no ring" \in CallerRules, Inv, Inv', NoRing, Command
  PROVE  NoRing'
<1> DEFINE Narrows ==
      \A p \in Ptr : Forwards(p)' => Forwards(p) /\ heap'[p].sink_ = heap[p].sink_
<1>0. /\ \A p \in DOMAIN heap : heap[p] \in Block
      /\ UNCHANGED heap => Narrows
  BY DEF Inv, TypeOK, Forwards, Live
<1>1. ASSUME NEW id \in Id, NEW type \in Type, Add(id, type), heap' # heap
      PROVE  Narrows
  <2>1. PICK a \in Ptr \ DOMAIN heap :
          heap' = [q \in DOMAIN heap \cup {a} |-> IF q = a THEN NewBlock(id, type) ELSE heap[q]]
    BY <1>1 DEF Add, block_add, Refuse
  <2>2. heap'[a].sink_ = nullptr
    BY <2>1 DEF NewBlock
  <2> QED BY <2>1, <2>2 DEF Forwards, Live
<1>2. ASSUME NEW id \in Id, StartOrStop(id)
      PROVE  Narrows
  <2>1. DOMAIN heap' = DOMAIN heap
    BY <1>2 DEF StartOrStop, block_start, block_stop, Refuse
  <2>2. ASSUME NEW p \in DOMAIN heap
        PROVE  heap'[p].sink_ = heap[p].sink_ /\ heap'[p].type_ = heap[p].type_
    <3>1. heap'[p] = heap[p] \/ heap'[p] = Started(heap[p]) \/ heap'[p] = Stopped(heap[p])
      BY <1>2 DEF StartOrStop, block_start, block_stop, Refuse
    <3>2. /\ Started(heap[p]).sink_ = heap[p].sink_ /\ Started(heap[p]).type_ = heap[p].type_
          /\ Stopped(heap[p]).sink_ = heap[p].sink_ /\ Stopped(heap[p]).type_ = heap[p].type_
      BY <1>0 DEF Started, Stopped, Block
    <3> QED BY <3>1, <3>2
  <2> QED BY <2>1, <2>2 DEF Forwards, Live
<1>3. ASSUME NEW id \in Id, Del(id), heap' # heap
      PROVE  Narrows
  <2>1. /\ DOMAIN heap' = DOMAIN heap \ {bk_map_[id]}
        /\ \A p \in DOMAIN heap' : heap'[p] = heap[p]
    BY <1>3 DEF Del, block_del, Refuse, Destroy
  <2> QED BY <2>1 DEF Forwards, Live
<1>4. ASSUME NEW src \in Id, NEW dst \in Id, Bind(src, dst), heap' # heap
      PROVE  NoRing'
  <2>1. {src, dst} \subseteq DOMAIN bk_map_
        /\ heap' = [heap EXCEPT ![bk_map_[src]].sink_ = bk_map_[dst]]
    BY <1>4 DEF Bind, block_bind, Refuse
  <2>2. bk_map_[src] \notin Downstream(bk_map_[dst])
    BY <1>4, <2>1 DEF Bind, MayBind
  <2> QED BY <2>1, <2>2, BindNoRing
<1>5. Narrows => NoRing'
  BY NoNewWay
<1> HIDE DEF Narrows
<1> QED BY <1>0, <1>1, <1>2, <1>3, <1>4, <1>5 DEF Command

LEMMA FlowNextNoRing ==
  ASSUME "close no ring" \in CallerRules, Inv, NoRing, [FlowNext]_flowVars
  PROVE  NoRing'
<1>1. Inv'
  BY FlowStepIsStep, NextInv
<1>2. Command \/ UNCHANGED heap
  BY DEF FlowNext, Running, Call, Execute, Hop, Deliver, on_fd_, flowVars, vars
<1>3. CASE Command
  BY <1>1, <1>3, CommandNoRing
<1>4. CASE UNCHANGED heap
  BY <1>1, <1>4, NoNewWay DEF Forwards, Live
<1> QED BY <1>2, <1>3, <1>4

\* For callers that refuse to bind a block to one it is downstream of, there
\* is never a ring: not through blocks that were deleted while others were
\* bound to them and built again, of another type, at the same address.
THEOREM RingsStayOpen ==
  "close no ring" \in CallerRules => (FlowSpec => []NoRing)
<1> SUFFICES ASSUME "close no ring" \in CallerRules PROVE FlowSpec => []NoRing
  OBVIOUS
<1>1. FlowInit => NoRing
  BY DEF FlowInit, NoBlocks, NoRing
<1>2. Inv /\ NoRing /\ [FlowNext]_flowVars => NoRing'
  BY FlowNextNoRing
<1> QED BY <1>1, <1>2, FlowsKeepRegistry, PTL DEF FlowSpec

\* Why flows end: a hop out of a block that forwards takes the flow to a
\* block from which there is strictly less to reach, and the block it left is
\* part of the difference. (That it comes to an end, by induction on the
\* number of blocks, is FlowEnds.)
FlowDescends ==
  [][flow.pc = "hop" /\ flow'.pc = "deliver" /\ heap[flow.current].type_ \in Forwarding =>
       /\ Downstream(flow'.current) \subseteq Downstream(flow.current)
       /\ flow.current \in Downstream(flow.current) \ Downstream(flow'.current)]_flowVars

\* With both rules a hop from one forwarding block to the next leaves a block
\* behind for good: process_data_ does not turn round (block.cpp:49).
THEOREM FlowsDescend ==
  CallerRules = Rules => (FlowSpec => FlowDescends)
<1> SUFFICES ASSUME CallerRules = Rules PROVE FlowSpec => FlowDescends
  OBVIOUS
<1>0. "spare the sinks" \in CallerRules /\ "close no ring" \in CallerRules
  BY DEF Rules
<1>1. FlowInv /\ [FlowNext]_flowVars => FlowInv'
  BY <1>0, FlowNextInv
<1>2. FlowInv /\ NoRing /\ [FlowNext]_flowVars =>
        [flow.pc = "hop" /\ flow'.pc = "deliver" /\ heap[flow.current].type_ \in Forwarding =>
           /\ Downstream(flow'.current) \subseteq Downstream(flow.current)
           /\ flow.current \in Downstream(flow.current) \ Downstream(flow'.current)]_flowVars
  <2> SUFFICES ASSUME FlowInv, NoRing, FlowNext, flow.pc = "hop", flow'.pc = "deliver",
                      heap[flow.current].type_ \in Forwarding
               PROVE  /\ Downstream(flow'.current) \subseteq Downstream(flow.current)
                      /\ flow.current \in Downstream(flow.current) \ Downstream(flow'.current)
    OBVIOUS
  <2>1. Hop
    BY DEF FlowNext, Running, Call, on_fd_, Deliver, Execute
  <2> DEFINE p == flow.current
             sink == heap[p].sink_
  <2>2. p \in DOMAIN heap /\ p \in Ptr /\ flow \in Flow
    BY DEF FlowInv, FlowIsPinned, FlowTypeOK, Inv, TypeOK
  <2>3. flow' # NoFlow
    <3>1. NoFlow.pc # "deliver"
      BY DEF NoFlow
    <3> QED BY <3>1
  <2>4. sink # nullptr /\ flow' = [flow EXCEPT !.pc = "deliver", !.current = sink]
    <3>1. CASE sink = nullptr
      <4>1. flow' = NoFlow
        BY <2>1, <2>2, <3>1 DEF Hop, Live
      <4> QED BY <2>3, <4>1
    <3>2. CASE sink # nullptr
      BY <2>1, <2>2, <3>2 DEF Hop, Live
    <3> QED BY <3>1, <3>2
  <2>5. flow'.current = sink
    BY <2>2, <2>4 DEF Flow
  <2>6. Forwards(p)
    BY <2>2, <2>4 DEF Forwards, Live
  <2>7. p \notin Downstream(sink)
    BY <2>2, <2>6 DEF NoRing
  <2>8. /\ Downstream(p) \in SUBSET Ptr /\ p \in Downstream(p) /\ Closed(Downstream(p))
    BY <2>2, DownstreamIsClosed DEF FlowInv
  <2>9. sink \in Downstream(p)
    BY <2>6, <2>8 DEF Closed
  <2>10. Downstream(sink) \subseteq Downstream(p)
    BY <2>8, <2>9, DownstreamIsLeast
  <2> QED BY <2>5, <2>7, <2>8, <2>10
<1>3. FlowSpec => []NoRing
  BY <1>0, RingsStayOpen
<1> QED BY <1>1, <1>2, <1>3, FlowInitInv, PTL DEF FlowSpec, FlowDescends
=============================================================================
