--------------------------- MODULE ManagerFdProofs ---------------------------
(***************************************************************************)
(* Proofs about ManagerFd, for any blocks, descriptors, sockets, and number*)
(* of entries. Inv says that the walk only indexes what exists, which the  *)
(* parallel vectors give it. WalkInv counts the callbacks against the      *)
(* indexes that zmq_poll reported: the ones heard are a subset of the ready*)
(* ones, themselves a subset of the signalled ones, so that as many heard  *)
(* as signalled means that all are heard. Because a callback may move every*)
(* entry, the counts are about the indexes and keys the walk started from, *)
(* and fd_ enters only until it is moved.                                  *)
(***************************************************************************)
EXTENDS ManagerFd, TLAPS, FiniteSetTheorems, SequenceTheorems

\* Removing an element of a sequence shifts those after it by one.
LEMMA RemoveAtFacts ==
  ASSUME NEW S, NEW s \in Seq(S), NEW k \in 1..Len(s)
  PROVE  /\ RemoveAt(s, k) \in Seq(S)
         /\ Len(RemoveAt(s, k)) = Len(s) - 1
         /\ \A i \in 1..(Len(s) - 1) :
              RemoveAt(s, k)[i] = IF i < k THEN s[i] ELSE s[i + 1]
<1> DEFINE a == SubSeq(s, 1, k - 1)
           b == SubSeq(s, k + 1, Len(s))
<1>1. a \in Seq(S) /\ Len(a) = k - 1 /\ \A i \in 1..(k - 1) : a[i] = s[i]
  OBVIOUS
<1>2. b \in Seq(S) /\ Len(b) = Len(s) - k /\ \A i \in 1..(Len(s) - k) : b[i] = s[k + i]
  OBVIOUS
<1>3. RemoveAt(s, k) = a \o b
  BY DEF RemoveAt
<1> HIDE DEF a, b
<1>4. Len(s) \in Nat /\ k \in Int /\ 1 <= k /\ k <= Len(s)
  OBVIOUS
<1>5. /\ a \o b \in Seq(S)
      /\ Len(a \o b) = Len(a) + Len(b)
      /\ \A i \in 1 .. Len(a) + Len(b) :
           (a \o b)[i] = IF i <= Len(a) THEN a[i] ELSE b[i - Len(a)]
  BY <1>1, <1>2, ConcatProperties
<1>6. Len(a \o b) = Len(s) - 1
  BY <1>1, <1>2, <1>4, <1>5
<1>7. ASSUME NEW i \in 1..(Len(s) - 1)
      PROVE  (a \o b)[i] = IF i < k THEN s[i] ELSE s[i + 1]
  <2>1. CASE i < k
    BY <1>1, <1>2, <1>4, <1>5, <2>1
  <2>2. CASE i >= k
    <3>1. (a \o b)[i] = b[i - (k - 1)]
      BY <1>1, <1>2, <1>4, <1>5, <2>2
    <3>2. i - (k - 1) \in 1..(Len(s) - k) /\ k + (i - (k - 1)) = i + 1
      BY <1>4, <2>2
    <3> QED BY <1>2, <1>4, <2>2, <3>1, <3>2
  <2>3. i < k \/ i >= k
    BY <1>4
  <2> QED BY <2>1, <2>2, <2>3
<1> QED BY <1>3, <1>5, <1>6, <1>7


\* A set has as many elements as its image under a function that is
\* one-to-one on it.
LEMMA ImageCardinality ==
  ASSUME NEW R, IsFiniteSet(R), NEW K,
         \A i, j \in R : K[i] = K[j] => i = j
  PROVE  Cardinality({K[j] : j \in R}) = Cardinality(R)
<1> DEFINE T == {K[j] : j \in R}
           f == [j \in R |-> K[j]]
<1>1. f \in Surjection(R, T)
  BY DEF Surjection
<1>2. f \in Injection(R, T)
  BY DEF Injection, IsInjective
<1> QED BY <1>1, <1>2, FS_Surjection

-----------------------------------------------------------------------------
\* The walk stays within the vectors as long as nobody changed them.
WalkInRange ==
  walk.pc \in {"scan", "callback"} =>
    /\ walk.i \in 1..Len(walk.revents)
    /\ walk.pc = "scan" => ~walk.moved
    /\ ~walk.moved => Len(fd_) = Len(walk.revents)

\* The three are inductive together: fd_remove erases from both vectors at
\* the index found in one, and the walk calls back by index.
Inv == TypeOK /\ Parallel /\ WalkInRange

\* An entry that is found is at one index.
LEMMA FoundIndex ==
  ASSUME NEW key, Found(key)
  PROVE  fd_find(key) \in DOMAIN fd_ /\ KeyOf(fd_[fd_find(key)]) = key
  BY DEF Found, fd_find

LEMMA NoWalkTyped ==
  ASSUME NEW ret \in Int
  PROVE  NoWalk(ret) \in Walk
<1>1. <<>> \in Seq(SUBSET {"in", "out", "err"})
  OBVIOUS
<1> QED BY <1>1 DEF NoWalk, Walk

LEMMA AdvanceTyped ==
  ASSUME walk \in Walk, NEW count \in Nat, Advance(count)
  PROVE  walk' \in Walk
<1>1. walk.ret \in Int /\ walk.i + 1 \in Nat
  BY DEF Walk
<1>2. NoWalk(walk.ret) \in Walk
  BY <1>1, NoWalkTyped
<1>3. [walk EXCEPT !.pc = "undefined"] \in Walk
  BY DEF Walk
<1>4. [walk EXCEPT !.pc = "scan", !.i = @ + 1, !.count = count] \in Walk
  BY <1>1 DEF Walk
<1> QED BY <1>2, <1>3, <1>4 DEF Advance

\* A caller that changes the vectors during a walk marks it as moved.
LEMMA MovedKeepsRange ==
  ASSUME TypeOK, WalkInRange, CallerRuns, Moved
  PROVE  WalkInRange'
  BY DEF TypeOK, Walk, WalkInRange, CallerRuns, Moved

LEMMA AddKeepsInv ==
  ASSUME Inv, NEW key \in Key, NEW bk \in Block \cup {nullptr},
         NEW events \in Interest, fd_add(bk, key, events)
  PROVE  Inv'
<1> USE DEF Inv
<1>1. CASE UNCHANGED <<fd_, callback_, walk>>
  BY <1>1 DEF fd_add, TypeOK, Parallel, WalkInRange
<1>2. CASE /\ Found(key)
           /\ fd_' = [fd_ EXCEPT ![fd_find(key)].events = events]
           /\ UNCHANGED <<callback_, walk>>
  <2> DEFINE k == fd_find(key)
             item == [fd_[k] EXCEPT !.events = events]
  <2>1. k \in 1..Len(fd_) /\ fd_ \in Seq(PollItem)
    BY <1>2, FoundIndex DEF TypeOK
  <2>2. fd_[k] \in PollItem
    BY <2>1
  <2>3. item \in PollItem /\ KeyOf(item) = KeyOf(fd_[k])
    BY <2>2 DEF PollItem, KeyOf
  <2>4. fd_' = [fd_ EXCEPT ![k] = item]
    BY <1>2
  <2> HIDE DEF k, item
  <2>5. fd_' \in Seq(PollItem) /\ Len(fd_') = Len(fd_)
        /\ \A i \in 1..Len(fd_) : fd_'[i] = IF i = k THEN item ELSE fd_[i]
    BY <2>1, <2>3, <2>4
  <2>6. TypeOK'
    BY <1>2, <2>5 DEF fd_add, TypeOK
  <2>7. \A i \in DOMAIN fd_' : KeyOf(fd_'[i]) = KeyOf(fd_[i])
    BY <2>1, <2>3, <2>5
  <2>8. DOMAIN fd_' = DOMAIN fd_
    BY <2>1, <2>5
  <2>9. Parallel'
    BY <1>2, <2>5, <2>7, <2>8 DEF Parallel
  <2>10. WalkInRange'
    BY <1>2, <2>5 DEF WalkInRange
  <2> QED BY <2>6, <2>9, <2>10
<1>3. CASE /\ Valid(bk, key) /\ ~Found(key)
           /\ callback_' = Append(callback_, [fd |-> key[1], socket |-> key[2], bk |-> bk])
           /\ fd_' = Append(fd_, [fd |-> key[1], socket |-> key[2], events |-> events])
           /\ Moved
  <2> DEFINE item == [fd |-> key[1], socket |-> key[2], events |-> events]
             desc == [fd |-> key[1], socket |-> key[2], bk |-> bk]
  <2>1. key[1] \in Fd /\ key[2] \in Socket \cup {nullptr} /\ key = <<key[1], key[2]>>
    BY DEF Key
  <2>2. item \in PollItem /\ desc \in FileDesc
    BY <1>3, <2>1 DEF PollItem, FileDesc, Valid
  <2>3. KeyOf(item) = key /\ KeyOf(desc) = key
    BY <2>1 DEF KeyOf
  <2>4. walk' \in Walk
    BY <1>3 DEF Moved, Walk, TypeOK
  <2>5. fd_' = Append(fd_, item) /\ callback_' = Append(callback_, desc)
    BY <1>3
  <2> HIDE DEF item, desc
  <2>6. fd_ \in Seq(PollItem) /\ callback_ \in Seq(FileDesc) /\ Len(fd_) = Len(callback_)
    BY DEF TypeOK, Parallel
  <2>7. /\ fd_' \in Seq(PollItem) /\ Len(fd_') = Len(fd_) + 1
        /\ \A i \in 1..Len(fd_) : fd_'[i] = fd_[i]
        /\ fd_'[Len(fd_) + 1] = item
    BY <2>2, <2>5, <2>6, AppendProperties
  <2>8. /\ callback_' \in Seq(FileDesc) /\ Len(callback_') = Len(fd_) + 1
        /\ \A i \in 1..Len(fd_) : callback_'[i] = callback_[i]
        /\ callback_'[Len(fd_) + 1] = desc
    BY <2>2, <2>5, <2>6, AppendProperties
  <2>9. TypeOK'
    BY <2>4, <2>7, <2>8 DEF fd_add, TypeOK
  <2>10. \A i \in 1..Len(fd_) : KeyOf(fd_[i]) # key
    BY <1>3, <2>6 DEF Found
  <2>11. Parallel'
    BY <2>3, <2>6, <2>7, <2>8, <2>10 DEF Parallel
  <2>12. WalkInRange'
    BY <1>3, MovedKeepsRange DEF fd_add
  <2> QED BY <2>9, <2>11, <2>12
<1> QED BY <1>1, <1>2, <1>3 DEF fd_add

LEMMA RemoveKeepsInv ==
  ASSUME Inv, NEW key \in Key, fd_remove(key)
  PROVE  Inv'
<1> USE DEF Inv
<1>1. CASE ~Found(key)
  BY <1>1 DEF fd_remove, vars, TypeOK, Parallel, WalkInRange
<1>2. CASE Found(key)
  <2> DEFINE k == fd_find(key)
             n == Len(fd_) - 1
  <2>1. fd_ \in Seq(PollItem) /\ callback_ \in Seq(FileDesc) /\ Len(fd_) = Len(callback_)
    BY DEF TypeOK, Parallel
  <2>2. k \in 1..Len(fd_) /\ k \in 1..Len(callback_)
    BY <1>2, <2>1, FoundIndex
  <2>3. fd_' = RemoveAt(fd_, k) /\ callback_' = RemoveAt(callback_, k)
    BY <1>2 DEF fd_remove
  <2> HIDE DEF k
  <2>4. /\ fd_' \in Seq(PollItem) /\ Len(fd_') = n
        /\ \A i \in 1..n : fd_'[i] = IF i < k THEN fd_[i] ELSE fd_[i + 1]
    BY <2>1, <2>2, <2>3, RemoveAtFacts
  <2>5. /\ callback_' \in Seq(FileDesc) /\ Len(callback_') = n
        /\ \A i \in 1..n : callback_'[i] = IF i < k THEN callback_[i] ELSE callback_[i + 1]
    BY <2>1, <2>2, <2>3, RemoveAtFacts
  <2>6. walk' \in Walk
    BY <1>2 DEF fd_remove, Moved, Walk, TypeOK
  <2>7. TypeOK'
    BY <1>2, <2>4, <2>5, <2>6 DEF fd_remove, TypeOK
  <2>8. Parallel'
    <3> DEFINE Old(i) == IF i < k THEN i ELSE i + 1
    <3>1. \A i \in 1..n : /\ Old(i) \in 1..Len(fd_)
                          /\ fd_'[i] = fd_[Old(i)]
                          /\ callback_'[i] = callback_[Old(i)]
      BY <2>1, <2>2, <2>4, <2>5
    <3>2. \A i, j \in 1..n : Old(i) = Old(j) => i = j
      BY <2>1, <2>2
    <3>3. DOMAIN fd_ = 1..Len(fd_) /\ DOMAIN fd_' = 1..n
      BY <2>1, <2>4
    <3> HIDE DEF Old, n
    <3> QED BY <2>4, <2>5, <3>1, <3>2, <3>3 DEF Parallel
  <2>9. WalkInRange'
    BY <1>2, MovedKeepsRange DEF fd_remove
  <2> QED BY <2>7, <2>8, <2>9
<1> QED BY <1>1, <1>2

LEMMA PollTyped ==
  ASSUME Inv, fd_poll
  PROVE  TypeOK' /\ WalkInRange'
<1>1. PICK revents \in [DOMAIN fd_ -> SUBSET {"in", "out", "err"}] :
        /\ Signalled(revents) # {}
        /\ walk' = [pc |-> "scan", i |-> 1, ret |-> Cardinality(Signalled(revents)),
                    count |-> 0, revents |-> revents, moved |-> FALSE]
        /\ ready' = {KeyOf(fd_[i]) : i \in {j \in DOMAIN fd_ : IsReady(revents[j])}}
  BY DEF fd_poll
<1>2. fd_ \in Seq(PollItem) /\ DOMAIN fd_ = 1..Len(fd_) /\ Len(fd_) \in Nat
  BY DEF Inv, TypeOK
<1>3. revents \in Seq(SUBSET {"in", "out", "err"})
  BY <1>2, IsASeq
<1>4. IsFiniteSet(Signalled(revents))
  <2>1. Signalled(revents) \in SUBSET (1..Len(fd_))
    BY <1>2 DEF Signalled
  <2>2. IsFiniteSet(1..Len(fd_))
    BY <1>2, FS_Interval
  <2> QED BY <2>1, <2>2, FS_Subset
<1>5. Cardinality(Signalled(revents)) \in Int
  BY <1>4, FS_CardinalityType
<1>6. walk' \in Walk
  BY <1>1, <1>3, <1>5 DEF Walk
<1>7. \A i \in DOMAIN fd_ : KeyOf(fd_[i]) \in Key
  <2>1. \A item \in PollItem : KeyOf(item) \in Key
    BY DEF PollItem, KeyOf, Key
  <2>2. \A i \in DOMAIN fd_ : fd_[i] \in PollItem
    BY <1>2
  <2> QED BY <2>1, <2>2
<1>8. ready' \subseteq Key
  BY <1>1, <1>7
<1>9. TypeOK'
  BY <1>6, <1>8 DEF Inv, TypeOK, fd_poll
<1>10. 1 <= Len(fd_)
  <2>1. PICK i \in DOMAIN revents : TRUE
    BY <1>1 DEF Signalled
  <2> QED BY <1>2, <2>1
<1>11. Len(revents) = Len(fd_)
  BY <1>2, <1>3
<1>12. WalkInRange'
  BY <1>1, <1>2, <1>10, <1>11 DEF WalkInRange, fd_poll
<1> QED BY <1>9, <1>12

LEMMA AdvanceInRange ==
  ASSUME Inv, walk.pc \in {"scan", "callback"}, NEW count \in Nat, Advance(count),
         UNCHANGED fd_
  PROVE  WalkInRange'
<1>1. walk.i \in 1..Len(walk.revents) /\ walk \in Walk /\ Len(walk.revents) \in Nat
  BY DEF Inv, WalkInRange, TypeOK, Walk
<1>2. CASE walk'.pc \in {"idle", "undefined"}
  BY <1>2 DEF WalkInRange
<1>3. CASE /\ walk' = [walk EXCEPT !.pc = "scan", !.i = @ + 1, !.count = count]
           /\ ~walk.moved /\ walk.i # Len(walk.revents)
  <2>1. /\ walk'.i = walk.i + 1 /\ walk'.revents = walk.revents
        /\ walk'.pc = "scan" /\ ~walk'.moved
    BY <1>1, <1>3 DEF Walk
  <2>2. walk'.i \in 1..Len(walk'.revents)
    BY <1>1, <1>3, <2>1
  <2>3. Len(fd_') = Len(walk'.revents)
    BY <1>3, <2>1 DEF Inv, WalkInRange
  <2> QED BY <2>1, <2>2, <2>3 DEF WalkInRange
<1> QED BY <1>1, <1>2, <1>3 DEF Advance, NoWalk, Walk

\* fd_poll itself leaves both vectors alone.
LEMMA PollingKeepsInv ==
  ASSUME Inv, fd_poll_nothing \/ fd_poll \/ Loop \/ Undefined \/ UNCHANGED vars
  PROVE  Inv'
<1>1. UNCHANGED <<fd_, callback_>>
  BY DEF fd_poll_nothing, fd_poll, Loop, ScanSkip, ScanCall, Return, Undefined, vars
<1>2. Parallel'
  BY <1>1 DEF Inv, Parallel
<1>3. TypeOK' /\ WalkInRange'
  <2>1. CASE fd_poll_nothing
    <3>1. walk' \in Walk
      BY <2>1, NoWalkTyped DEF fd_poll_nothing
    <3>2. WalkInRange'
      BY <2>1 DEF fd_poll_nothing, NoWalk, WalkInRange
    <3> QED BY <1>1, <2>1, <3>1, <3>2 DEF fd_poll_nothing, Inv, TypeOK
  <2>2. CASE fd_poll
    BY <2>2, PollTyped
  <2>3. CASE ScanSkip
    <3>1. walk.count \in Nat /\ walk \in Walk
      BY DEF Inv, TypeOK, Walk
    <3>2. walk' \in Walk /\ WalkInRange'
      BY <2>3, <3>1, AdvanceTyped, AdvanceInRange DEF ScanSkip
    <3> QED BY <2>3, <3>2 DEF ScanSkip, Inv, TypeOK
  <2>4. CASE ScanCall
    <3>1. walk' \in Walk /\ WalkInRange'
      BY <2>4 DEF ScanCall, Inv, TypeOK, Walk, WalkInRange
    <3>2. walk.i \in DOMAIN callback_
      BY <2>4 DEF ScanCall, Inv, TypeOK, Parallel, WalkInRange
    <3>3. callback_[walk.i] \in FileDesc
      BY <3>2 DEF Inv, TypeOK
    <3>4. KeyOf(callback_[walk.i]) \in Key
      BY <3>3 DEF FileDesc, KeyOf, Key
    <3>5. called' \in Seq(Key)
      BY <2>4, <3>4, AppendProperties DEF ScanCall, Inv, TypeOK
    <3> QED BY <2>4, <3>1, <3>5 DEF ScanCall, Inv, TypeOK
  <2>5. CASE Return
    <3>1. walk.count + 1 \in Nat /\ walk \in Walk
      BY DEF Inv, TypeOK, Walk
    <3>2. walk' \in Walk /\ WalkInRange'
      BY <2>5, <3>1, AdvanceTyped, AdvanceInRange DEF Return
    <3> QED BY <2>5, <3>2 DEF Return, Inv, TypeOK
  <2>6. CASE Undefined \/ UNCHANGED vars
    BY <2>6 DEF Undefined, vars, Inv, TypeOK, WalkInRange
  <2> QED BY <2>1, <2>2, <2>3, <2>4, <2>5, <2>6 DEF Loop
<1> QED BY <1>2, <1>3 DEF Inv

LEMMA InvHolds == Spec => []Inv
<1>1. Init => Inv
  <2> SUFFICES ASSUME Init PROVE Inv
    OBVIOUS
  <2>1. walk \in Walk
    BY NoWalkTyped DEF Init
  <2> QED BY <2>1 DEF Init, Inv, TypeOK, Parallel, WalkInRange, NoWalk
<1>2. Inv /\ [Next]_vars => Inv'
  BY AddKeepsInv, RemoveKeepsInv, PollingKeepsInv DEF Next, Callers
<1> QED BY <1>1, <1>2, PTL DEF Spec

\* The variables keep their shape, whatever blocks register and remove, and
\* whenever they do.
THEOREM TypeCorrect == Spec => []TypeOK
<1>1. Inv => TypeOK
  BY DEF Inv
<1> QED BY <1>1, InvHolds, PTL

\* fd_add and fd_remove keep the polling set and the callbacks parallel, so
\* fd_poll hands an event to the block that asked for it.
THEOREM VectorsStayParallel == Spec => []Parallel
<1>1. Inv => Parallel
  BY DEF Inv
<1> QED BY <1>1, InvHolds, PTL

-----------------------------------------------------------------------------
\* The bookkeeping of a walk, in terms of the indexes it started from: those
\* ready, those it has passed, and those whose callback it has called.
ReadyIn == {j \in DOMAIN walk.revents : IsReady(walk.revents[j])}
Before(i) == {j \in ReadyIn : j < i}
Heard == IF walk.pc = "callback" THEN Before(walk.i + 1) ELSE Before(walk.i)

\* K gives each index its key when zmq_poll returned. It is still what fd_
\* says until a callback moves entries, and the history is told with it.
Names(K, heard) ==
  /\ \A j, l \in DOMAIN walk.revents : K[j] = K[l] => j = l
  /\ ready = {K[j] : j \in ReadyIn}
  /\ ToSet(called) = {K[j] : j \in heard}
  /\ ~walk.moved => \A j \in DOMAIN walk.revents : K[j] = KeyOf(fd_[j])

Accounting ==
  walk.pc \in {"scan", "callback"} =>
    /\ walk.ret = Cardinality(Signalled(walk.revents))
    /\ walk.count = Cardinality(Before(walk.i))
    /\ walk.pc = "callback" => walk.i \in ReadyIn
    /\ Len(called) = Cardinality(Heard)
    /\ \E K \in [DOMAIN walk.revents -> Key] : Names(K, Heard)

WalkInv == Accounting /\ EveryReadyCalledOnce /\ OneSignalIsSafe

\* The sets of indexes are finite, and nested.
LEMMA IndexSets ==
  ASSUME TypeOK, NEW i
  PROVE  /\ Before(i) \subseteq ReadyIn
         /\ ReadyIn \subseteq Signalled(walk.revents)
         /\ ReadyIn \subseteq DOMAIN walk.revents
         /\ IsFiniteSet(Signalled(walk.revents))
         /\ IsFiniteSet(ReadyIn)
         /\ IsFiniteSet(Before(i))
<1>1. Before(i) \subseteq ReadyIn /\ ReadyIn \subseteq DOMAIN walk.revents
  BY DEF Before, ReadyIn
<1>2. ReadyIn \subseteq Signalled(walk.revents)
  BY DEF ReadyIn, Signalled, IsReady
<1>3. IsFiniteSet(DOMAIN walk.revents)
  BY FS_Interval DEF TypeOK, Walk
<1>4. IsFiniteSet(Signalled(walk.revents))
  <2>1. Signalled(walk.revents) \in SUBSET DOMAIN walk.revents
    BY DEF Signalled
  <2> QED BY <1>3, <2>1, FS_Subset
<1>5. IsFiniteSet(ReadyIn)
  BY <1>2, <1>4, FS_Subset
<1>6. IsFiniteSet(Before(i))
  BY <1>1, <1>5, FS_Subset
<1> QED BY <1>1, <1>2, <1>4, <1>5, <1>6

\* One more ready index makes one more callback.
LEMMA BeforeNext ==
  ASSUME TypeOK, walk.i \in DOMAIN walk.revents
  PROVE  /\ walk.i \in ReadyIn =>
              /\ Before(walk.i + 1) = Before(walk.i) \cup {walk.i}
              /\ Cardinality(Before(walk.i + 1)) = Cardinality(Before(walk.i)) + 1
         /\ walk.i \notin ReadyIn => Before(walk.i + 1) = Before(walk.i)
<1>1. DOMAIN walk.revents \subseteq Int /\ walk.i \in Int
  BY DEF TypeOK, Walk
<1>2. walk.i \in ReadyIn => Before(walk.i + 1) = Before(walk.i) \cup {walk.i}
  BY <1>1 DEF Before, ReadyIn
<1>3. walk.i \notin ReadyIn => Before(walk.i + 1) = Before(walk.i)
  BY <1>1 DEF Before, ReadyIn
<1>4. IsFiniteSet(Before(walk.i)) /\ walk.i \notin Before(walk.i)
  <2>1. IsFiniteSet(Before(walk.i))
    BY IndexSets
  <2>2. walk.i \notin Before(walk.i)
    BY <1>1 DEF Before
  <2> QED BY <2>1, <2>2
<1>5. Cardinality(Before(walk.i) \cup {walk.i}) = Cardinality(Before(walk.i)) + 1
  BY <1>4, FS_AddElement
<1> QED BY <1>2, <1>3, <1>5

\* A walk that has heard every ready index owes nobody a callback.
LEMMA AllHeard ==
  ASSUME TypeOK, NEW K, Names(K, ReadyIn), Len(called) = Cardinality(ReadyIn)
  PROVE  Len(called) = Cardinality(ready) /\ ToSet(called) = ready
<1>1. IsFiniteSet(ReadyIn) /\ ReadyIn \subseteq DOMAIN walk.revents
  BY IndexSets
<1>2. \A j, l \in ReadyIn : K[j] = K[l] => j = l
  BY <1>1 DEF Names
<1>3. Cardinality({K[j] : j \in ReadyIn}) = Cardinality(ReadyIn)
  BY <1>1, <1>2, ImageCardinality
<1> QED BY <1>3 DEF Names

\* The end of an iteration keeps the books: breaking on count loses nobody,
\* for the indexes heard are then all those signalled, and the iterators are
\* used after a change only if more than one index was signalled.
LEMMA AdvanceKeepsBooks ==
  ASSUME Inv, walk.pc \in {"scan", "callback"},
         walk.ret = Cardinality(Signalled(walk.revents)),
         walk.pc = "callback" => walk.i \in ReadyIn,
         Len(called) = Cardinality(Before(walk.i + 1)),
         NEW K \in [DOMAIN walk.revents -> Key], Names(K, Before(walk.i + 1)),
         Advance(Cardinality(Before(walk.i + 1))),
         UNCHANGED <<fd_, ready, called>>
  PROVE  WalkInv'
<1> DEFINE heard == Before(walk.i + 1)
           count == Cardinality(heard)
<1>1. /\ TypeOK /\ walk \in Walk /\ Len(walk.revents) \in Nat
      /\ DOMAIN walk.revents = 1..Len(walk.revents)
      /\ walk.i \in DOMAIN walk.revents /\ walk.i \in Nat
      /\ walk.pc = "scan" => ~walk.moved
  BY DEF Inv, TypeOK, Walk, WalkInRange
<1>2. /\ heard \subseteq ReadyIn /\ ReadyIn \subseteq Signalled(walk.revents)
      /\ IsFiniteSet(Signalled(walk.revents)) /\ IsFiniteSet(ReadyIn)
      /\ IsFiniteSet(heard)
  BY <1>1, IndexSets
<1>3. count \in Nat
  BY <1>2, FS_CardinalityType
<1>4. CASE walk' = NoWalk(walk.ret) /\ (count = walk.ret \/ walk.i = Len(walk.revents))
  <2>1. heard = ReadyIn
    <3>1. CASE count = walk.ret
      <4>1. heard = Signalled(walk.revents)
        BY <1>2, <3>1, FS_Subset
      <4> QED BY <1>2, <4>1
    <3>2. CASE walk.i = Len(walk.revents)
      BY <1>1, <3>2 DEF Before, ReadyIn
    <3> QED BY <1>4, <3>1, <3>2
  <2>2. Len(called) = Cardinality(ready) /\ ToSet(called) = ready
    BY <1>1, <2>1, AllHeard
  <2>3. walk'.pc = "idle"
    BY <1>4 DEF NoWalk
  <2> QED BY <2>2, <2>3 DEF WalkInv, Accounting, EveryReadyCalledOnce, OneSignalIsSafe
<1>5. CASE walk.moved /\ count # walk.ret /\ walk' = [walk EXCEPT !.pc = "undefined"]
  <2>1. heard # {}
    BY <1>1, <1>5, BeforeNext
  <2>2. count # 0
    BY <1>2, <2>1, FS_EmptySet
  <2>3. count <= walk.ret /\ walk.ret \in Nat
    <3>1. heard \in SUBSET Signalled(walk.revents)
      BY <1>2
    <3> QED BY <1>2, <3>1, FS_Subset, FS_CardinalityType
  <2>4. walk.ret > 1
    BY <1>3, <1>5, <2>2, <2>3
  <2>5. walk'.pc = "undefined" /\ walk'.ret = walk.ret
    BY <1>1, <1>5 DEF Walk
  <2> QED BY <2>4, <2>5 DEF WalkInv, Accounting, EveryReadyCalledOnce, OneSignalIsSafe
<1>6. CASE /\ walk' = [walk EXCEPT !.pc = "scan", !.i = @ + 1, !.count = count]
           /\ ~walk.moved
  <2>1. /\ walk'.pc = "scan" /\ walk'.i = walk.i + 1 /\ walk'.count = count
        /\ walk'.ret = walk.ret /\ walk'.revents = walk.revents /\ ~walk'.moved
    BY <1>1, <1>6 DEF Walk
  <2>2. ReadyIn' = ReadyIn
    BY <2>1 DEF ReadyIn
  <2>3. Before(walk.i)' = heard
    BY <2>1, <2>2 DEF Before
  <2>4. Heard' = heard
    BY <2>1, <2>3 DEF Heard
  <2>5. Names(K, Heard)'
    BY <1>6, <2>1, <2>2, <2>4 DEF Names
  <2>6. \E L \in [DOMAIN walk'.revents -> Key] : Names(L, Heard)'
    BY <2>1, <2>5
  <2>7. Len(called') = Cardinality(Heard') /\ walk'.count = Cardinality(Before(walk.i)')
    BY <2>1, <2>3, <2>4
  <2>8. Accounting'
    BY <2>1, <2>6, <2>7 DEF Accounting
  <2> QED BY <2>1, <2>8 DEF WalkInv, EveryReadyCalledOnce, OneSignalIsSafe
<1> QED BY <1>4, <1>5, <1>6 DEF Advance

LEMMA SkipKeepsBooks ==
  ASSUME Inv, WalkInv, ScanSkip
  PROVE  WalkInv'
<1>1. /\ TypeOK /\ walk.i \in DOMAIN walk.revents /\ walk.i \notin ReadyIn
      /\ walk.pc = "scan"
  BY DEF Inv, TypeOK, Walk, WalkInRange, ScanSkip, ReadyIn
<1>2. Before(walk.i + 1) = Before(walk.i) /\ Heard = Before(walk.i)
  BY <1>1, BeforeNext DEF Heard
<1>3. /\ walk.ret = Cardinality(Signalled(walk.revents))
      /\ walk.count = Cardinality(Before(walk.i + 1))
      /\ Len(called) = Cardinality(Before(walk.i + 1))
  BY <1>1, <1>2 DEF WalkInv, Accounting
<1>4. PICK K \in [DOMAIN walk.revents -> Key] : Names(K, Before(walk.i + 1))
  BY <1>1, <1>2 DEF WalkInv, Accounting
<1> QED BY <1>1, <1>3, <1>4, AdvanceKeepsBooks DEF ScanSkip

LEMMA ReturnKeepsBooks ==
  ASSUME Inv, WalkInv, Return
  PROVE  WalkInv'
<1>1. TypeOK /\ walk.i \in DOMAIN walk.revents /\ walk.pc = "callback"
  BY DEF Inv, TypeOK, Walk, WalkInRange, Return
<1>2. walk.i \in ReadyIn /\ Heard = Before(walk.i + 1)
  BY <1>1 DEF Heard, WalkInv, Accounting
<1>3. Cardinality(Before(walk.i + 1)) = walk.count + 1
  BY <1>1, <1>2, BeforeNext DEF WalkInv, Accounting
<1>4. /\ walk.ret = Cardinality(Signalled(walk.revents))
      /\ Len(called) = Cardinality(Before(walk.i + 1))
  BY <1>1, <1>2 DEF WalkInv, Accounting
<1>5. PICK K \in [DOMAIN walk.revents -> Key] : Names(K, Before(walk.i + 1))
  BY <1>1, <1>2 DEF WalkInv, Accounting
<1>6. Advance(Cardinality(Before(walk.i + 1))) /\ UNCHANGED <<fd_, ready, called>>
  BY <1>3 DEF Return
<1> QED BY <1>1, <1>2, <1>4, <1>5, <1>6, AdvanceKeepsBooks

\* The callback that is called is that of the key the index had.
LEMMA CallKeepsBooks ==
  ASSUME Inv, WalkInv, ScanCall
  PROVE  WalkInv'
<1> DEFINE key == KeyOf(callback_[walk.i])
<1>1. /\ TypeOK /\ walk \in Walk /\ walk.i \in DOMAIN walk.revents /\ walk.i \in ReadyIn
      /\ walk.pc = "scan" /\ ~walk.moved /\ called \in Seq(Key)
  BY DEF Inv, TypeOK, Walk, WalkInRange, ScanCall, ReadyIn
<1>2. PICK K \in [DOMAIN walk.revents -> Key] : Names(K, Heard)
  BY <1>1 DEF WalkInv, Accounting
<1>3. key = K[walk.i] /\ key \in Key
  <2>1. DOMAIN fd_ = DOMAIN walk.revents
    BY <1>1 DEF Inv, TypeOK, Walk, WalkInRange
  <2>2. key = KeyOf(fd_[walk.i])
    BY <1>1, <2>1 DEF Inv, Parallel
  <2> QED BY <1>1, <1>2, <2>2 DEF Names
<1>4. /\ walk'.pc = "callback" /\ walk'.i = walk.i /\ walk'.revents = walk.revents
      /\ walk'.ret = walk.ret /\ walk'.count = walk.count /\ ~walk'.moved
      /\ called' = Append(called, key) /\ UNCHANGED <<fd_, ready>>
  BY <1>1 DEF ScanCall, Walk
<1>5. Heard = Before(walk.i)
  BY <1>1 DEF Heard
<1>6. /\ Before(walk.i + 1) = Before(walk.i) \cup {walk.i}
      /\ Cardinality(Before(walk.i + 1)) = Cardinality(Before(walk.i)) + 1
  BY <1>1, BeforeNext
<1>7. ReadyIn' = ReadyIn
  BY <1>4 DEF ReadyIn
<1>8. Heard' = Before(walk.i + 1) /\ Before(walk.i)' = Before(walk.i)
  BY <1>4, <1>7 DEF Heard, Before
<1>9. Len(called') = Len(called) + 1 /\ ToSet(called') = ToSet(called) \cup {key}
  <2> HIDE DEF key
  <2>1. /\ called' \in Seq(Key) /\ Len(called') = Len(called) + 1
        /\ \A j \in 1..Len(called) : called'[j] = called[j]
        /\ called'[Len(called) + 1] = key
    BY <1>1, <1>3, <1>4, AppendProperties
  <2>2. DOMAIN called' = DOMAIN called \cup {Len(called) + 1}
    BY <1>1, <2>1
  <2>3. DOMAIN called = 1..Len(called)
    BY <1>1
  <2> QED BY <2>1, <2>2, <2>3 DEF ToSet
<1>10. ToSet(called') = {K[j] : j \in Heard'}
  BY <1>2, <1>3, <1>5, <1>6, <1>8, <1>9 DEF Names
<1>11. Names(K, Heard)'
  BY <1>1, <1>2, <1>4, <1>7, <1>10 DEF Names
<1>12. Len(called') = Cardinality(Heard')
  BY <1>1, <1>5, <1>6, <1>8, <1>9 DEF WalkInv, Accounting
<1>13. Accounting'
  <2>1. \E L \in [DOMAIN walk'.revents -> Key] : Names(L, Heard)'
    BY <1>4, <1>11
  <2> QED BY <1>1, <1>4, <1>7, <1>8, <1>12, <2>1 DEF WalkInv, Accounting
<1> QED BY <1>4, <1>13 DEF WalkInv, EveryReadyCalledOnce, OneSignalIsSafe

\* zmq_poll starts the books: index i has the key of fd_[i], and no two
\* indexes have the same.
LEMMA PollKeepsBooks ==
  ASSUME Inv, fd_poll
  PROVE  WalkInv'
<1>1. PICK revents \in [DOMAIN fd_ -> SUBSET {"in", "out", "err"}] :
        /\ Signalled(revents) # {}
        /\ walk' = [pc |-> "scan", i |-> 1, ret |-> Cardinality(Signalled(revents)),
                    count |-> 0, revents |-> revents, moved |-> FALSE]
        /\ ready' = {KeyOf(fd_[i]) : i \in {j \in DOMAIN fd_ : IsReady(revents[j])}}
  BY DEF fd_poll
<1>2. called' = <<>> /\ fd_' = fd_ /\ DOMAIN fd_ \subseteq Nat \ {0}
  BY DEF fd_poll, Inv, TypeOK
<1>3. /\ walk'.pc = "scan" /\ walk'.i = 1 /\ walk'.count = 0 /\ walk'.revents = revents
      /\ walk'.ret = Cardinality(Signalled(revents)) /\ ~walk'.moved
      /\ DOMAIN revents = DOMAIN fd_
  BY <1>1
<1>4. ReadyIn' = {j \in DOMAIN fd_ : IsReady(revents[j])}
  BY <1>3 DEF ReadyIn
<1>5. Before(walk.i)' = {}
  BY <1>2, <1>3, <1>4 DEF Before
<1>6. Heard' = {}
  BY <1>3, <1>5 DEF Heard
<1>7. Cardinality({}) = 0 /\ Len(called') = 0 /\ ToSet(called') = {}
  BY <1>2, FS_EmptySet DEF ToSet
<1> DEFINE K == [j \in DOMAIN fd_ |-> KeyOf(fd_[j])]
<1>8. K \in [DOMAIN walk'.revents -> Key]
  <2>1. \A item \in PollItem : KeyOf(item) \in Key
    BY DEF PollItem, KeyOf, Key
  <2>2. \A j \in DOMAIN fd_ : fd_[j] \in PollItem
    BY DEF Inv, TypeOK
  <2> QED BY <1>3, <2>1, <2>2
<1>9. /\ \A j, l \in DOMAIN fd_ : K[j] = K[l] => j = l
      /\ \A j \in DOMAIN fd_ : K[j] = KeyOf(fd_'[j])
  BY <1>2 DEF Inv, Parallel
<1>10. ready' = {K[j] : j \in ReadyIn'}
  BY <1>1, <1>4
<1> HIDE DEF K
<1>11. \E L \in [DOMAIN walk'.revents -> Key] : Names(L, Heard)'
  BY <1>3, <1>6, <1>7, <1>8, <1>9, <1>10 DEF Names
<1>12. Accounting'
  BY <1>3, <1>5, <1>6, <1>7, <1>11 DEF Accounting
<1> QED BY <1>3, <1>12 DEF WalkInv, EveryReadyCalledOnce, OneSignalIsSafe

\* The books depend on fd_ through the keys only, and no more once moved.
LEMMA SameBooks ==
  ASSUME WalkInv, UNCHANGED <<ready, called>>,
         walk'.pc = walk.pc, walk'.i = walk.i, walk'.ret = walk.ret,
         walk'.count = walk.count, walk'.revents = walk.revents,
         walk.pc \in {"scan", "callback"} =>
           \/ walk'.moved
           \/ /\ ~walk.moved
              /\ \A j \in DOMAIN walk.revents : KeyOf(fd_'[j]) = KeyOf(fd_[j])
  PROVE  WalkInv'
<1>1. ReadyIn' = ReadyIn
  BY DEF ReadyIn
<1>2. Before(walk.i)' = Before(walk.i) /\ Before(walk.i + 1)' = Before(walk.i + 1)
  BY <1>1 DEF Before
<1>3. Heard' = Heard
  BY <1>2 DEF Heard
<1>4. CASE walk.pc \in {"scan", "callback"}
  <2>1. PICK K \in [DOMAIN walk.revents -> Key] : Names(K, Heard)
    BY <1>4 DEF WalkInv, Accounting
  <2>2. Names(K, Heard)'
    BY <1>1, <1>3, <1>4, <2>1 DEF Names
  <2>3. \E L \in [DOMAIN walk'.revents -> Key] : Names(L, Heard)'
    BY <2>2
  <2>4. Accounting'
    BY <1>1, <1>2, <1>3, <1>4, <2>3 DEF WalkInv, Accounting
  <2> QED BY <1>4, <2>4 DEF WalkInv, EveryReadyCalledOnce, OneSignalIsSafe
<1>5. CASE walk.pc \notin {"scan", "callback"}
  BY <1>5 DEF WalkInv, Accounting, EveryReadyCalledOnce, OneSignalIsSafe
<1> QED BY <1>4, <1>5

\* What callers do between two polls leaves the last walk alone, and what
\* they do in a callback leaves its books alone.
LEMMA CallersKeepBooks ==
  ASSUME Inv, WalkInv, Callers
  PROVE  WalkInv'
<1>1. PICK key \in Key :
        \/ \E bk \in Block \cup {nullptr}, events \in Interest : fd_add(bk, key, events)
        \/ fd_remove(key)
  BY DEF Callers
<1>2. UNCHANGED <<ready, called>> /\ CallerRuns
  BY <1>1 DEF fd_add, fd_remove, vars
<1>3. \/ UNCHANGED <<walk, fd_>>
      \/ Moved
      \/ /\ walk' = walk
         /\ Found(key)
         /\ \E events \in Interest : fd_' = [fd_ EXCEPT ![fd_find(key)].events = events]
  BY <1>1 DEF fd_add, fd_remove, vars
<1>4. walk \in Walk /\ fd_ \in Seq(PollItem)
  BY DEF Inv, TypeOK
<1>5. CASE UNCHANGED <<walk, fd_>>
  <2>1. walk.pc \in {"scan", "callback"} => walk'.moved \/ ~walk.moved
    BY <1>5
  <2> QED BY <1>2, <1>5, <2>1, SameBooks
<1>6. CASE Moved
  <2>1. /\ walk'.pc = walk.pc /\ walk'.i = walk.i /\ walk'.ret = walk.ret
        /\ walk'.count = walk.count /\ walk'.revents = walk.revents
        /\ walk.pc \in {"scan", "callback"} => walk'.moved
    BY <1>2, <1>4, <1>6 DEF Moved, Walk, CallerRuns
  <2> QED BY <1>2, <2>1, SameBooks
<1>7. ASSUME walk' = walk, Found(key), NEW events \in Interest,
             fd_' = [fd_ EXCEPT ![fd_find(key)].events = events]
      PROVE  WalkInv'
  <2>1. \A j \in DOMAIN fd_ : KeyOf(fd_'[j]) = KeyOf(fd_[j])
    <3>1. \A j \in DOMAIN fd_ : fd_'[j].fd = fd_[j].fd /\ fd_'[j].socket = fd_[j].socket
      BY <1>4, <1>7, FoundIndex DEF PollItem
    <3> QED BY <3>1 DEF KeyOf
  <2>2. walk.pc \in {"scan", "callback"} /\ ~walk.moved => DOMAIN fd_ = DOMAIN walk.revents
    BY <1>4 DEF Inv, WalkInRange, Walk
  <2>3. walk.moved = TRUE \/ walk.moved = FALSE
    BY <1>4 DEF Walk
  <2> QED BY <1>2, <1>7, <2>1, <2>2, <2>3, SameBooks
<1> QED BY <1>3, <1>5, <1>6, <1>7

LEMMA WalkInvHolds == Spec => []WalkInv
<1>1. Init => WalkInv
  <2> SUFFICES ASSUME Init PROVE WalkInv
    OBVIOUS
  <2>1. walk.pc = "idle" /\ ready = {} /\ Len(called) = 0 /\ ToSet(called) = {}
    BY DEF Init, NoWalk, ToSet
  <2> QED BY <2>1, FS_EmptySet
          DEF WalkInv, Accounting, EveryReadyCalledOnce, OneSignalIsSafe
<1>2. Inv /\ WalkInv /\ [Next]_vars => WalkInv'
  <2> SUFFICES ASSUME Inv, WalkInv, [Next]_vars PROVE WalkInv'
    OBVIOUS
  <2>1. CASE fd_poll_nothing
    <3>1. walk'.pc = "idle" /\ ready' = {} /\ Len(called') = 0 /\ ToSet(called') = {}
      BY <2>1 DEF fd_poll_nothing, NoWalk, ToSet
    <3> QED BY <3>1, FS_EmptySet
            DEF WalkInv, Accounting, EveryReadyCalledOnce, OneSignalIsSafe
  <2>2. CASE Undefined \/ UNCHANGED vars
    <3>1. UNCHANGED <<walk, fd_, ready, called>>
      BY <2>2 DEF Undefined, vars
    <3>2. walk.moved = TRUE \/ walk.moved = FALSE
      BY DEF Inv, TypeOK, Walk
    <3> QED BY <3>1, <3>2, SameBooks
  <2> QED BY <2>1, <2>2, PollKeepsBooks, SkipKeepsBooks, CallKeepsBooks,
             ReturnKeepsBooks, CallersKeepBooks DEF Next, Loop
<1> QED BY <1>1, <1>2, InvHolds, PTL DEF Spec

\* When a walk ends, the callback of every entry that was ready has been
\* called once and no other: neither the break on count nor what callbacks
\* did to the vectors makes fd_poll skip or repeat anyone.
THEOREM ReadyCalledOnce == Spec => []EveryReadyCalledOnce
<1>1. WalkInv => EveryReadyCalledOnce
  BY DEF WalkInv
<1> QED BY <1>1, WalkInvHolds, PTL

\* A walk started by a single signalled entry never uses an iterator after
\* the callback has changed the vectors.
THEOREM SingleSignalSafe == Spec => []OneSignalIsSafe
<1>1. WalkInv => OneSignalIsSafe
  BY DEF WalkInv
<1> QED BY <1>1, WalkInvHolds, PTL

-----------------------------------------------------------------------------
\* Bounds how many steps of the loop are left before fd_poll returns: two for
\* each entry zmq_poll was given and the walk is still to visit.
Left ==
  IF walk.pc = "scan" THEN 2 * (Len(walk.revents) - walk.i) + 2
  ELSE IF walk.pc = "callback" THEN 2 * (Len(walk.revents) - walk.i) + 1
  ELSE 0

\* Each step of the loop goes down, and what callers do to the vectors in a
\* callback does not go up, however many entries they add.
WalkGoesDown ==
  /\ Left \in Nat
  /\ Loop => Left' < Left
  /\ Callers => Left' = Left

LEMMA LeftInNat ==
  ASSUME Inv
  PROVE  /\ Left \in Nat
         /\ walk \in Walk /\ Len(walk.revents) \in Nat /\ walk.i \in Nat
         /\ walk.pc \in {"scan", "callback"} => walk.i <= Len(walk.revents)
<1>1. walk \in Walk /\ Len(walk.revents) \in Nat /\ walk.i \in Nat
  BY DEF Inv, TypeOK, Walk
<1>2. walk.pc \in {"scan", "callback"} => walk.i <= Len(walk.revents)
  BY <1>1 DEF Inv, WalkInRange
<1> QED BY <1>1, <1>2 DEF Left

\* An iteration ends below the callback it may have called.
LEMMA AdvanceGoesDown ==
  ASSUME Inv, walk.pc \in {"scan", "callback"}, NEW count, Advance(count)
  PROVE  Left' < 2 * (Len(walk.revents) - walk.i) + 1
<1>1. /\ walk \in Walk /\ Len(walk.revents) \in Nat /\ walk.i \in Nat
      /\ walk.i <= Len(walk.revents)
  BY LeftInNat
<1>2. CASE walk'.pc \in {"idle", "undefined"}
  BY <1>1, <1>2 DEF Left
<1>3. CASE /\ walk.i # Len(walk.revents)
           /\ walk' = [walk EXCEPT !.pc = "scan", !.i = @ + 1, !.count = count]
  <2>1. walk'.pc = "scan" /\ walk'.i = walk.i + 1 /\ walk'.revents = walk.revents
    BY <1>1, <1>3 DEF Walk
  <2>2. Left' = 2 * (Len(walk.revents) - (walk.i + 1)) + 2
    BY <2>1 DEF Left
  <2> QED BY <1>1, <2>2
<1>4. CASE walk' = NoWalk(walk.ret) \/ walk' = [walk EXCEPT !.pc = "undefined"]
  <2>1. walk'.pc \in {"idle", "undefined"}
    BY <1>1, <1>4 DEF NoWalk, Walk
  <2> QED BY <1>2, <2>1
<1> QED BY <1>3, <1>4 DEF Advance

\* fd_poll takes at most two steps per entry that zmq_poll was given, even
\* when each of its callbacks adds descriptors: a rank in Nat that Loop
\* lowers and callers cannot raise. It is why PollReturns holds: once callbacks
\* return, so does fd_poll.
THEOREM WalkDescends == Spec => [][WalkGoesDown]_vars
<1>1. ASSUME Inv, [Next]_vars PROVE [WalkGoesDown]_vars
  <2>1. /\ Left \in Nat /\ walk \in Walk /\ Len(walk.revents) \in Nat /\ walk.i \in Nat
        /\ walk.pc \in {"scan", "callback"} => walk.i <= Len(walk.revents)
    BY <1>1, LeftInNat
  <2>2. ASSUME ScanSkip PROVE Left' < Left
    <3>1. walk.pc = "scan" /\ Advance(walk.count)
      BY <2>2 DEF ScanSkip
    <3>2. Left' < 2 * (Len(walk.revents) - walk.i) + 1
      BY <1>1, <3>1, AdvanceGoesDown
    <3>3. Left = 2 * (Len(walk.revents) - walk.i) + 2
      BY <3>1 DEF Left
    <3>4. Left' \in Int
      BY <2>1, <2>2, <3>1 DEF Left, Advance, NoWalk, Walk
    <3> QED BY <2>1, <3>2, <3>3, <3>4
  <2>3. ASSUME ScanCall PROVE Left' < Left
    <3>1. /\ walk.pc = "scan" /\ walk'.pc = "callback"
          /\ walk'.i = walk.i /\ walk'.revents = walk.revents
      BY <2>1, <2>3 DEF ScanCall, Walk
    <3>2. /\ Left = 2 * (Len(walk.revents) - walk.i) + 2
          /\ Left' = 2 * (Len(walk.revents) - walk.i) + 1
      BY <3>1 DEF Left
    <3> QED BY <2>1, <3>2
  <2>4. ASSUME Return PROVE Left' < Left
    <3>1. walk.pc = "callback" /\ Advance(walk.count + 1)
      BY <2>4 DEF Return
    <3>2. Left' < 2 * (Len(walk.revents) - walk.i) + 1
      BY <1>1, <3>1, AdvanceGoesDown
    <3>3. Left = 2 * (Len(walk.revents) - walk.i) + 1
      BY <3>1 DEF Left
    <3> QED BY <3>2, <3>3
  <2>5. ASSUME Callers PROVE Left' = Left
    <3>1. UNCHANGED walk \/ Moved
      BY <2>5 DEF Callers, fd_add, fd_remove, vars
    <3>2. walk'.pc = walk.pc /\ walk'.i = walk.i /\ walk'.revents = walk.revents
      BY <2>1, <3>1 DEF Moved, Walk
    <3> QED BY <3>2 DEF Left
  <2> QED BY <2>1, <2>2, <2>3, <2>4, <2>5 DEF WalkGoesDown, Loop
<1> QED BY <1>1, InvHolds, PTL DEF Spec
=============================================================================
