--------------------------- MODULE ManagerTmProofs ---------------------------
(***************************************************************************)
(* Proofs about ManagerTm, for any blocks, identifiers and delays, and any *)
(* length of a second. SortedOnce is inductive with the types: removing    *)
(* keeps an order, and sorting makes one of timers that have one identifier*)
(* each. It is what makes the list a function from identifiers to dates,   *)
(* and its head the earliest of them; so a check, which looks at the head  *)
(* only, does what the timer service promises.                             *)
(***************************************************************************)
EXTENDS ManagerTm, TLAPS

-----------------------------------------------------------------------------
\* Dates are in a total order.
LEMMA BeforeOrders ==
  /\ \A a \in Timespec : ~Before(a, a)
  /\ \A a, b, c \in Timespec : ~Before(a, b) /\ ~Before(b, c) => ~Before(a, c)
BY DEF Timespec, Before

\* What a division leaves.
LEMMA Truncated ==
  ASSUME NEW a \in Int, NEW b \in Nat \ {0}
  PROVE  a - b * (a \div b) \in 0..b - 1
<1>1. a \div b \in Int /\ b * (a \div b) \in Int
  OBVIOUS
<1>2. a - b * (a \div b) >= 0
  OBVIOUS
<1>3. a - b * (a \div b) < b
  OBVIOUS
<1> QED BY <1>1, <1>2, <1>3

\* Wrapped nanoseconds are in range, when the delay does not go back.
LEMMA ExpirationIsTyped ==
  ASSUME NEW time \in Clock, NEW delay \in Delay
  PROVE  /\ Expiration(time, delay) \in Timespec
         /\ delay.tv_nsec >= 0 => Expiration(time, delay).tv_nsec \in 0..NSEC_MAX - 1
<1> DEFINE nsec == time.tv_nsec + delay.tv_nsec
<1>1. /\ NSEC_MAX \in Nat \ {0}
      /\ time.tv_sec \in Int /\ delay.tv_sec \in Int /\ nsec \in Int
      /\ delay.tv_nsec >= 0 => nsec >= 0
  BY NsecAssumption, DelayAssumption DEF Clock
<1> HIDE DEF nsec
<1>2. Quotient(nsec, NSEC_MAX) \in Int
  BY <1>1 DEF Quotient
<1>3. Remainder(nsec, NSEC_MAX) \in Int
  BY <1>1, <1>2 DEF Remainder
<1>4. ASSUME nsec >= 0 PROVE Remainder(nsec, NSEC_MAX) \in 0..NSEC_MAX - 1
  <2>1. Remainder(nsec, NSEC_MAX) = nsec - NSEC_MAX * (nsec \div NSEC_MAX)
    BY <1>4 DEF Remainder, Quotient
  <2> QED BY <1>1, <2>1, Truncated
<1> QED BY <1>1, <1>2, <1>3, <1>4 DEF Expiration, Timespec, nsec

-----------------------------------------------------------------------------
Elems(list) == {list[i] : i \in DOMAIN list}

\* No timer is in the list twice.
Once(list) == \A i, j \in DOMAIN list : i < j => list[i].tid # list[j].tid

InOrder(list) == \A i, j \in DOMAIN list : i < j => ~Before(list[j].time, list[i].time)

LEMMA SortedOnceIs == SortedOnce <=> InOrder(tm_list_) /\ Once(tm_list_)
BY DEF SortedOnce, InOrder, Once

\* Removing leaves the others, as they were.
LEMMA RemovedIs ==
  ASSUME NEW list \in Seq(Timer), NEW tid, NEW rest \in Removed(list, tid)
  PROVE  /\ rest \in Seq(Timer)
         /\ Elems(rest) = {t \in Elems(list) : t.tid # tid}
         /\ InOrder(list) => InOrder(rest)
         /\ Once(list) => Once(rest)
<1> DEFINE kept == {i \in DOMAIN list : list[i].tid # tid}
<1>1. PICK p \in UNION {[1..n -> kept] : n \in 0..Len(list)} :
        /\ \A k \in kept : \E i \in DOMAIN p : p[i] = k
        /\ \A i, j \in DOMAIN p : i < j => p[i] < p[j]
        /\ rest = [i \in DOMAIN p |-> list[p[i]]]
  BY DEF Removed
<1>0. PICK n \in 0..Len(list) : p \in [1..n -> kept]
  OBVIOUS
<1>2. Len(list) \in Nat /\ DOMAIN list = 1..Len(list) /\ n \in Nat
  OBVIOUS
<1>3. rest = [i \in 1..n |-> list[p[i]]] /\ DOMAIN p = 1..n /\ \A i \in 1..n : p[i] \in kept
  BY <1>0, <1>1
<1>4. \A i \in 1..n : p[i] \in DOMAIN list /\ rest[i] = list[p[i]] /\ rest[i] \in Timer /\ rest[i].tid # tid
  BY <1>2, <1>3
<1>5. rest \in Seq(Timer) /\ DOMAIN rest = 1..n
  BY <1>2, <1>3, <1>4
<1>6. Elems(rest) = {t \in Elems(list) : t.tid # tid}
  BY <1>1, <1>3, <1>4, <1>5 DEF Elems
<1>7. InOrder(list) => InOrder(rest)
  BY <1>1, <1>3, <1>4, <1>5 DEF InOrder
<1>8. Once(list) => Once(rest)
  BY <1>1, <1>3, <1>4, <1>5 DEF Once
<1> QED BY <1>5, <1>6, <1>7, <1>8

\* Sorting puts the same timers in order.
LEMMA SortedIs ==
  ASSUME NEW list \in Seq(Timer), Once(list), NEW s \in Sorted(list)
  PROVE  s \in Seq(Timer) /\ Elems(s) = Elems(list) /\ InOrder(s) /\ Once(s)
<1>1. PICK p \in [DOMAIN list -> DOMAIN list] :
        /\ \A k \in DOMAIN list : \E i \in DOMAIN list : p[i] = k
        /\ \A i, j \in DOMAIN list : i < j =>
             /\ ~Before(list[p[j]].time, list[p[i]].time)
             /\ Before(list[p[i]].time, list[p[j]].time) \/ p[i] < p[j]
        /\ s = [i \in DOMAIN list |-> list[p[i]]]
  BY DEF Sorted
<1>2. Len(list) \in Nat /\ DOMAIN list = 1..Len(list)
  OBVIOUS
<1>3. \A i \in DOMAIN list : p[i] \in DOMAIN list /\ s[i] = list[p[i]] /\ s[i] \in Timer
  BY <1>1, <1>2
<1>4. s \in Seq(Timer) /\ DOMAIN s = DOMAIN list
  <2>1. s \in [1..Len(list) -> Timer]
    BY <1>1, <1>2, <1>3
  <2> QED BY <1>1, <1>2, <2>1
<1>5. Elems(s) = Elems(list)
  BY <1>1, <1>3, <1>4 DEF Elems
<1>6. InOrder(s)
  BY <1>1, <1>3, <1>4 DEF InOrder
<1>7. Once(s)
  <2> SUFFICES ASSUME NEW i \in DOMAIN list, NEW j \in DOMAIN list, i < j
               PROVE  s[i].tid # s[j].tid
    BY <1>4 DEF Once
  <2>1. p[i] # p[j]
    <3>1. list[p[i]].time \in Timespec
      BY <1>3 DEF Timer
    <3>2. ~Before(list[p[i]].time, list[p[i]].time)
      BY <3>1, BeforeOrders
    <3>3. Before(list[p[i]].time, list[p[j]].time) \/ p[i] < p[j]
      BY <1>1
    <3>4. p[i] \in Nat /\ p[j] \in Nat
      BY <1>2, <1>3
    <3> QED BY <3>2, <3>3, <3>4
  <2>2. p[i] < p[j] \/ p[j] < p[i]
    BY <1>2, <1>3, <2>1
  <2> QED BY <1>3, <2>2 DEF Once
<1> QED BY <1>4, <1>5, <1>6, <1>7

\* A timer that is put in front of those of other identifiers.
LEMMA AddedIs ==
  ASSUME NEW rest \in Seq(Timer), Once(rest), NEW tmr \in Timer,
         \A t \in Elems(rest) : t.tid # tmr.tid
  PROVE  /\ <<tmr>> \o rest \in Seq(Timer)
         /\ Elems(<<tmr>> \o rest) = {tmr} \cup Elems(rest)
         /\ Once(<<tmr>> \o rest)
<1> DEFINE list == <<tmr>> \o rest
<1>1. <<tmr>> \in Seq(Timer) /\ Len(<<tmr>>) = 1 /\ <<tmr>>[1] = tmr
  OBVIOUS
<1>2. /\ list \in Seq(Timer) /\ DOMAIN list = 1..Len(rest) + 1 /\ Len(rest) \in Nat
      /\ DOMAIN rest = 1..Len(rest)
      /\ list[1] = tmr
      /\ \A i \in 1..Len(rest) : list[i + 1] = rest[i]
  BY <1>1
<1> HIDE DEF list
<1>3. \A i \in DOMAIN list : i = 1 \/ (i - 1 \in DOMAIN rest /\ list[i] = rest[i - 1])
  <2>1. \A i \in DOMAIN list : i = 1 \/ i - 1 \in 1..Len(rest)
    BY <1>2
  <2>2. \A k \in 1..Len(rest) : list[k + 1] = rest[k]
    BY <1>2
  <2>3. ASSUME NEW i \in DOMAIN list, i # 1 PROVE i - 1 \in DOMAIN rest /\ list[i] = rest[i - 1]
    <3>1. i - 1 \in 1..Len(rest) /\ (i - 1) + 1 = i
      BY <1>2, <2>1, <2>3
    <3> QED BY <1>2, <2>2, <3>1
  <2> QED BY <2>3
<1>4. Elems(list) = {tmr} \cup Elems(rest)
  <2>1. Elems(list) \subseteq {tmr} \cup Elems(rest)
    BY <1>2, <1>3 DEF Elems
  <2>2. tmr \in Elems(list)
    BY <1>2 DEF Elems
  <2>3. ASSUME NEW k \in DOMAIN rest PROVE rest[k] \in Elems(list)
    <3>1. k + 1 \in DOMAIN list /\ list[k + 1] = rest[k]
      BY <1>2
    <3> QED BY <3>1 DEF Elems
  <2> QED BY <2>1, <2>2, <2>3 DEF Elems
<1>5. Once(list)
  <2> SUFFICES ASSUME NEW i \in DOMAIN list, NEW j \in DOMAIN list, i < j
               PROVE  list[i].tid # list[j].tid
    BY DEF Once
  <2>1. j - 1 \in DOMAIN rest /\ list[j] = rest[j - 1] /\ list[j] \in Elems(rest)
    BY <1>2, <1>3 DEF Elems
  <2>2. CASE i = 1
    BY <1>2, <2>1, <2>2
  <2>3. CASE i # 1
    <3>1. i - 1 \in DOMAIN rest /\ list[i] = rest[i - 1] /\ i - 1 < j - 1
      BY <1>2, <1>3, <2>3
    <3> QED BY <2>1, <3>1 DEF Once
  <2> QED BY <2>2, <2>3
<1> QED BY <1>2, <1>4, <1>5 DEF list

\* The list after the head of one has left.
LEMMA TailIs ==
  ASSUME NEW list \in Seq(Timer), list # <<>>, Once(list)
  PROVE  /\ Head(list) \in Elems(list)
         /\ Tail(list) \in Seq(Timer)
         /\ Elems(Tail(list)) = {t \in Elems(list) : t.tid # Head(list).tid}
         /\ InOrder(list) => InOrder(Tail(list))
         /\ Once(Tail(list))
<1> DEFINE rest == Tail(list)
<1>1. /\ rest \in Seq(Timer) /\ Len(list) \in Nat \ {0} /\ DOMAIN list = 1..Len(list)
      /\ DOMAIN rest = 1..Len(list) - 1
      /\ Head(list) = list[1]
      /\ \A i \in 1..Len(list) - 1 : rest[i] = list[i + 1]
  OBVIOUS
<1> HIDE DEF rest
<1>2. \A i \in DOMAIN rest : i + 1 \in DOMAIN list /\ 1 < i + 1 /\ rest[i] = list[i + 1]
  BY <1>1
<1>3. 1 \in DOMAIN list
  BY <1>1
<1>4. \A i \in DOMAIN rest : rest[i] \in Elems(list) /\ rest[i].tid # Head(list).tid
  BY <1>1, <1>2, <1>3 DEF Elems, Once
<1>5. ASSUME NEW k \in DOMAIN list, list[k].tid # Head(list).tid PROVE list[k] \in Elems(rest)
  <2>1. k - 1 \in DOMAIN rest /\ k = (k - 1) + 1
    BY <1>1, <1>5
  <2>2. rest[k - 1] = list[k]
    BY <1>2, <2>1
  <2> QED BY <2>1, <2>2 DEF Elems
<1>6. Elems(rest) = {t \in Elems(list) : t.tid # Head(list).tid}
  BY <1>4, <1>5 DEF Elems
<1>7. \A i, j \in DOMAIN rest : i < j => i + 1 < j + 1
  BY <1>1
<1>8. InOrder(list) => InOrder(rest)
  BY <1>2, <1>7 DEF InOrder
<1>9. Once(rest)
  BY <1>2, <1>7 DEF Once
<1>10. Head(list) \in Elems(list)
  BY <1>1, <1>3 DEF Elems
<1> QED BY <1>1, <1>6, <1>8, <1>9, <1>10 DEF rest

-----------------------------------------------------------------------------
\* TypeOK on a list.
InRange(list) ==
  (\A delay \in Delay : delay.tv_nsec >= 0) =>
    \A t \in Elems(list) : t.time.tv_nsec \in 0..NSEC_MAX - 1

Good(list) == list \in Seq(Timer) /\ InRange(list) /\ InOrder(list) /\ Once(list)

Rest == clock \in Clock /\ steps \in 0..MaxSteps
        /\ check \in [pc : {"idle", "check", "callback"}, time : Clock]

IInv == Good(tm_list_) /\ Rest

LEMMA IInvIs == IInv <=> TypeOK /\ SortedOnce
BY SortedOnceIs DEF IInv, Good, Rest, TypeOK, InRange, Elems

\* What an addition leaves.
LEMMA AddKeeps ==
  ASSUME IInv, NEW bk \in Block, NEW tid \in Tid, NEW delay \in Delay,
         NEW rest \in Removed(tm_list_, tid),
         NEW s \in Sorted(<<[bk |-> bk, time |-> Expiration(clock, delay), tid |-> tid]>> \o rest)
  PROVE  /\ Good(s)
         /\ Elems(s) = {[bk |-> bk, time |-> Expiration(clock, delay), tid |-> tid]}
                         \cup {t \in Elems(tm_list_) : t.tid # tid}
<1> DEFINE tmr == [bk |-> bk, time |-> Expiration(clock, delay), tid |-> tid]
<1>1. tmr \in Timer /\ tmr.tid = tid /\ tmr.time = Expiration(clock, delay)
  BY ExpirationIsTyped DEF Timer, IInv, Rest
<1>2. /\ rest \in Seq(Timer) /\ Once(rest)
      /\ Elems(rest) = {t \in Elems(tm_list_) : t.tid # tid}
  BY RemovedIs DEF IInv, Good
<1>3. s \in Sorted(<<tmr>> \o rest)
  OBVIOUS
<1>4. InRange(tm_list_) /\ clock \in Clock
  BY DEF IInv, Good, Rest
<1> HIDE DEF tmr
<1>5. /\ <<tmr>> \o rest \in Seq(Timer)
      /\ Elems(<<tmr>> \o rest) = {tmr} \cup Elems(rest)
      /\ Once(<<tmr>> \o rest)
  BY <1>1, <1>2, AddedIs
<1>6. s \in Seq(Timer) /\ Elems(s) = {tmr} \cup Elems(rest) /\ InOrder(s) /\ Once(s)
  BY <1>3, <1>5, SortedIs
<1>7. InRange(s)
  BY <1>1, <1>2, <1>4, <1>6, ExpirationIsTyped DEF InRange
<1> QED BY <1>2, <1>6, <1>7 DEF Good, tmr

LEMMA InitIInv == Init => IInv
<1> SUFFICES ASSUME Init PROVE IInv
  OBVIOUS
<1>1. clock \in Clock
  BY NsecAssumption DEF Init, Clock
<1>2. tm_list_ \in Seq(Timer) /\ DOMAIN tm_list_ = {}
  BY DEF Init
<1>3. Good(tm_list_)
  BY <1>2 DEF Good, InRange, InOrder, Once, Elems
<1> QED BY <1>1, <1>3, NsecAssumption DEF Init, IInv, Rest

LEMMA NextIInv == IInv /\ [Next]_vars => IInv'
<1> SUFFICES ASSUME IInv, [Next]_vars PROVE Good(tm_list_') /\ Rest'
  BY DEF IInv, Good, InRange, InOrder, Once, Elems
<1> USE DEF IInv
<1>1. ASSUME NEW bk \in Block \cup {nullptr}, NEW tid \in Tid, NEW delay \in Delay,
             timer_add(bk, tid, delay)
      PROVE  Good(tm_list_') /\ Rest'
  <2>1. CASE bk = nullptr
    BY <1>1, <2>1 DEF timer_add, Rest
  <2>2. CASE bk # nullptr
    BY <1>1, <2>2, AddKeeps DEF timer_add, Rest
  <2> QED BY <2>1, <2>2
<1>2. ASSUME NEW tid \in Tid, timer_del(tid) PROVE Good(tm_list_') /\ Rest'
  <2>1. PICK rest \in Removed(tm_list_, tid) : tm_list_' = rest
    BY <1>2 DEF timer_del
  <2>2. Good(rest)
    BY RemovedIs DEF Good, InRange
  <2> QED BY <1>2, <2>1, <2>2 DEF timer_del, Rest
<1>3. CASE timer_clear
  BY <1>3 DEF timer_clear, Rest, Good, InRange, InOrder, Once, Elems
<1>4. CASE timer_check_exp
  BY <1>4 DEF timer_check_exp, Rest
<1>5. CASE Fire
  <2>1. tm_list_ # <<>> /\ tm_list_' = Tail(tm_list_)
    BY <1>5 DEF Fire, Expired
  <2>2. Good(Tail(tm_list_))
    BY <2>1, TailIs DEF Good, InRange
  <2> QED BY <1>5, <2>1, <2>2 DEF Fire, Rest
<1>6. CASE CallbackReturns
  BY <1>6 DEF CallbackReturns, Rest
<1>7. CASE Break
  BY <1>7 DEF Break, Rest
<1>8. CASE Tick
  BY <1>8, NsecAssumption DEF Tick, Rest, Clock
<1>9. CASE StepBack
  BY <1>9, NsecAssumption DEF StepBack, Rest
<1>10. CASE UNCHANGED vars
  BY <1>10 DEF vars, Rest
<1> QED BY <1>1, <1>2, <1>3, <1>4, <1>5, <1>6, <1>7, <1>8, <1>9, <1>10 DEF Next, Callers, Loop

LEMMA Invariance == Spec => []IInv
BY InitIInv, NextIInv, PTL DEF Spec

\* The variables keep their shape, whatever callers add and delete and
\* wherever the clock is set; and the nanoseconds of every date are in range
\* if no delay goes back in time, which is what timer_add wraps them for.
THEOREM TypeCorrect == Spec => []TypeOK
BY Invariance, IInvIs, PTL

\* The list of timers stays sorted and names a timer once, through additions,
\* replacements and deletions, also those of a callback in the middle of
\* timer_check_exp: its loop may stop at the first timer that is not due.
THEOREM ListStaysSorted == Spec => []SortedOnce
BY Invariance, IInvIs, PTL

-----------------------------------------------------------------------------
\* The timers of a set, by identifier: Armed, without the list.
Entry(t) == [bk |-> t.bk, time |-> t.time]

ByTid(E) == [tid \in {t.tid : t \in E} |-> Entry(CHOOSE t \in E : t.tid = tid)]

Unique(E) == \A t, u \in E : t.tid = u.tid => t = u

LEMMA ByTidIs ==
  ASSUME NEW E, Unique(E)
  PROVE  /\ DOMAIN ByTid(E) = {t.tid : t \in E}
         /\ \A t \in E : ByTid(E)[t.tid] = Entry(t)
<1>1. ASSUME NEW t \in E PROVE (CHOOSE u \in E : u.tid = t.tid) = t
  BY DEF Unique
<1> QED BY <1>1 DEF ByTid

LEMMA OnceIsUnique ==
  ASSUME NEW list \in Seq(Timer), Once(list)
  PROVE  Unique(Elems(list))
<1> SUFFICES ASSUME NEW i \in DOMAIN list, NEW j \in DOMAIN list, list[i].tid = list[j].tid
             PROVE  list[i] = list[j]
  BY DEF Unique, Elems
<1>1. i \in Nat /\ j \in Nat
  OBVIOUS
<1>2. ~(i < j) /\ ~(j < i)
  BY DEF Once
<1>3. i = j
  BY <1>1, <1>2
<1> QED BY <1>3

\* Armed, of any list.
ArmedOf(list) ==
  [tid \in {list[i].tid : i \in DOMAIN list} |->
     LET timer == list[CHOOSE i \in DOMAIN list : list[i].tid = tid]
     IN  [bk |-> timer.bk, time |-> timer.time]]

LEMMA ArmedIs ==
  ASSUME NEW list \in Seq(Timer), Once(list)
  PROVE  ArmedOf(list) = ByTid(Elems(list))
<1>1. Unique(Elems(list))
  BY OnceIsUnique
<1>2. {list[i].tid : i \in DOMAIN list} = {t.tid : t \in Elems(list)}
  BY DEF Elems
<1>3. ASSUME NEW tid \in {t.tid : t \in Elems(list)}
      PROVE  list[CHOOSE i \in DOMAIN list : list[i].tid = tid] = CHOOSE t \in Elems(list) : t.tid = tid
  <2> DEFINE i == CHOOSE i \in DOMAIN list : list[i].tid = tid
             u == CHOOSE t \in Elems(list) : t.tid = tid
  <2>1. i \in DOMAIN list /\ list[i].tid = tid
    BY <1>2, <1>3
  <2>2. u \in Elems(list) /\ u.tid = tid
    BY <1>3
  <2> HIDE DEF i, u
  <2>3. list[i] \in Elems(list)
    BY <2>1 DEF Elems
  <2>4. list[i] = u
    BY <1>1, <2>1, <2>2, <2>3 DEF Unique
  <2> QED BY <2>4 DEF i, u
<1> QED BY <1>2, <1>3 DEF ArmedOf, ByTid, Entry

\* What the operations of the list do to the timers by identifier.
LEMMA ByTidWithout ==
  ASSUME NEW E, Unique(E), NEW tid
  PROVE  ByTid({t \in E : t.tid # tid}) = [k \in DOMAIN ByTid(E) \ {tid} |-> ByTid(E)[k]]
<1> DEFINE F == {t \in E : t.tid # tid}
<1>1. Unique(F) /\ \A t : t \in F <=> t \in E /\ t.tid # tid
  BY DEF Unique
<1> HIDE DEF F
<1>e. DOMAIN ByTid(E) = {t.tid : t \in E} /\ \A t \in E : ByTid(E)[t.tid] = Entry(t)
  BY ByTidIs
<1>f. DOMAIN ByTid(F) = {t.tid : t \in F} /\ \A t \in F : ByTid(F)[t.tid] = Entry(t)
  BY <1>1, ByTidIs
<1>2. DOMAIN ByTid(F) = DOMAIN ByTid(E) \ {tid}
  BY <1>1, <1>e, <1>f
<1>3. ASSUME NEW k \in DOMAIN ByTid(F) PROVE ByTid(F)[k] = ByTid(E)[k]
  <2>1. PICK t \in F : k = t.tid
    BY <1>3, <1>f
  <2> QED BY <1>1, <1>e, <1>f, <2>1
<1>4. ByTid(F) = [k \in DOMAIN ByTid(F) |-> ByTid(F)[k]]
  BY DEF ByTid
<1>5. ByTid(F) = [k \in DOMAIN ByTid(E) \ {tid} |-> ByTid(E)[k]]
  BY <1>2, <1>3, <1>4
<1> QED BY <1>5 DEF F

LEMMA ByTidWith ==
  ASSUME NEW E, Unique(E), NEW tmr
  PROVE  ByTid({tmr} \cup {t \in E : t.tid # tmr.tid}) =
           [k \in DOMAIN ByTid(E) \cup {tmr.tid} |->
              IF k = tmr.tid THEN Entry(tmr) ELSE ByTid(E)[k]]
<1> DEFINE F == {tmr} \cup {t \in E : t.tid # tmr.tid}
<1>1. Unique(F) /\ \A t : t \in F <=> t = tmr \/ (t \in E /\ t.tid # tmr.tid)
  BY DEF Unique
<1> HIDE DEF F
<1>e. DOMAIN ByTid(E) = {t.tid : t \in E} /\ \A t \in E : ByTid(E)[t.tid] = Entry(t)
  BY ByTidIs
<1>f. DOMAIN ByTid(F) = {t.tid : t \in F} /\ \A t \in F : ByTid(F)[t.tid] = Entry(t)
  BY <1>1, ByTidIs
<1>2. DOMAIN ByTid(F) = DOMAIN ByTid(E) \cup {tmr.tid}
  BY <1>1, <1>e, <1>f
<1>3. ByTid(F)[tmr.tid] = Entry(tmr)
  BY <1>1, <1>f
<1>4. ASSUME NEW k \in DOMAIN ByTid(F), k # tmr.tid PROVE ByTid(F)[k] = ByTid(E)[k]
  <2>1. PICK t \in F : k = t.tid
    BY <1>4, <1>f
  <2> QED BY <1>1, <1>4, <1>e, <1>f, <2>1
<1>5. ByTid(F) = [k \in DOMAIN ByTid(F) |-> ByTid(F)[k]]
  BY DEF ByTid
<1>6. ByTid(F) = [k \in DOMAIN ByTid(E) \cup {tmr.tid} |->
                    IF k = tmr.tid THEN Entry(tmr) ELSE ByTid(E)[k]]
  BY <1>2, <1>3, <1>4, <1>5
<1> QED BY <1>6 DEF F

-----------------------------------------------------------------------------
\* In a good list, Armed is the timers by identifier, now and after a step.
LEMMA ArmedNow == IInv => Armed = ByTid(Elems(tm_list_)) /\ Unique(Elems(tm_list_))
<1> SUFFICES ASSUME IInv PROVE Armed = ByTid(Elems(tm_list_)) /\ Unique(Elems(tm_list_))
  OBVIOUS
<1>1. Armed = ArmedOf(tm_list_)
  BY DEF Armed, ArmedOf
<1> QED BY <1>1, ArmedIs, OnceIsUnique DEF IInv, Good

LEMMA ArmedThen == Good(tm_list_') => Armed' = ByTid(Elems(tm_list_'))
<1> SUFFICES ASSUME Good(tm_list_') PROVE Armed' = ByTid(Elems(tm_list_'))
  OBVIOUS
<1>1. Armed' = ArmedOf(tm_list_')
  BY DEF Armed, ArmedOf
<1> QED BY <1>1, ArmedIs DEF Good

\* The head of a good list is the earliest of its timers.
LEMMA HeadIsFirst ==
  ASSUME IInv, tm_list_ # <<>>
  PROVE  \A t \in Elems(tm_list_) : ~Before(t.time, Head(tm_list_).time)
<1> DEFINE list == tm_list_
<1>1. /\ list \in Seq(Timer) /\ InOrder(list)
      /\ Len(list) \in Nat \ {0} /\ DOMAIN list = 1..Len(list) /\ Head(list) = list[1]
  BY DEF IInv, Good
<1> HIDE DEF list
<1>2. Head(list).time \in Timespec
  <2>1. list[1] \in Timer
    BY <1>1
  <2> QED BY <1>1, <2>1 DEF Timer
<1>3. ASSUME NEW i \in DOMAIN list PROVE ~Before(list[i].time, Head(list).time)
  <2>1. CASE i = 1
    BY <1>1, <1>2, <2>1, BeforeOrders
  <2>2. CASE i # 1
    <3>1. 1 \in DOMAIN list /\ 1 < i
      BY <1>1, <2>2
    <3> QED BY <1>1, <3>1 DEF InOrder
  <2> QED BY <2>1, <2>2
<1> QED BY <1>3 DEF Elems, list

LEMMA InitService == Init => Service!Init
<1> SUFFICES ASSUME Init PROVE Service!Init
  OBVIOUS
<1>1. Armed = [tid \in {} |-> <<>>]
  <2>1. tm_list_ = <<>> /\ DOMAIN tm_list_ = {}
    BY DEF Init
  <2> QED BY <2>1 DEF Armed
<1>2. check.pc = "idle" /\ check.time \in Dates
  BY NsecAssumption DEF Init, Dates, Clock
<1> QED BY <1>1, <1>2 DEF Service!Init

LEMMA NextService == IInv /\ [Next]_vars => [Service!Next]_Service!vars
<1> SUFFICES ASSUME IInv, [Next]_vars PROVE [Service!Next]_Service!vars
  OBVIOUS
<1>0. Good(tm_list_')
  BY NextIInv DEF IInv, Good, InRange, InOrder, Once, Elems
<1> DEFINE E == Elems(tm_list_)
<1>a. /\ Armed = ByTid(E) /\ Unique(E)
      /\ DOMAIN Armed = {t.tid : t \in E}
      /\ \A t \in E : Armed[t.tid] = Entry(t)
  BY ArmedNow, ByTidIs
<1>b. Armed' = ByTid(Elems(tm_list_'))
  BY <1>0, ArmedThen
<1>e. \A t \in E : Entry(t).time = t.time
  BY DEF Entry
<1>c. /\ E \subseteq Timer
      /\ check \in [pc : {"idle", "check", "callback"}, time : Clock] /\ clock \in Clock
      /\ Clock \subseteq Timespec /\ Clock \subseteq Dates
  BY DEF IInv, Good, Rest, Elems, Clock, Timespec, Dates
<1>d. tm_list_' = tm_list_ => Armed' = Armed
  BY <1>a, <1>b
<1> HIDE DEF E
<1>1. ASSUME NEW bk \in Block \cup {nullptr}, NEW tid \in Tid, NEW delay \in Delay,
             timer_add(bk, tid, delay)
      PROVE  [Service!Next]_Service!vars
  <2>1. CASE bk = nullptr
    BY <1>1, <1>d, <2>1 DEF timer_add, Service!vars
  <2>2. CASE bk # nullptr
    <3> DEFINE date == Expiration(clock, delay)
               tmr == [bk |-> bk, time |-> date, tid |-> tid]
    <3>1. date \in Dates /\ bk \in Block
      BY <1>c, <2>2 DEF Dates
    <3>2. Elems(tm_list_') = {tmr} \cup {t \in E : t.tid # tid}
      BY <1>1, <2>2, <3>1, AddKeeps DEF timer_add, E
    <3>3. tmr.tid = tid /\ Entry(tmr) = [bk |-> bk, time |-> date]
      BY DEF Entry
    <3> HIDE DEF tmr, date
    <3>4. Armed' = [k \in DOMAIN Armed \cup {tid} |->
                      IF k = tid THEN [bk |-> bk, time |-> date] ELSE Armed[k]]
      BY <1>a, <1>b, <3>2, <3>3, ByTidWith
    <3>5. check' = check /\ check.pc # "check"
      BY <1>1 DEF timer_add, CallerRuns
    <3> QED BY <3>1, <3>4, <3>5 DEF Service!Next, Service!Arm
  <2> QED BY <2>1, <2>2
<1>2. ASSUME NEW tid \in Tid, timer_del(tid) PROVE [Service!Next]_Service!vars
  <2>1. Elems(tm_list_') = {t \in E : t.tid # tid}
    BY <1>2, RemovedIs DEF timer_del, IInv, Good, E
  <2>2. Armed' = [k \in DOMAIN Armed \ {tid} |-> Armed[k]]
    BY <1>a, <1>b, <2>1, ByTidWithout
  <2>3. check' = check /\ check.pc # "check"
    BY <1>2 DEF timer_del, CallerRuns
  <2> QED BY <2>2, <2>3 DEF Service!Next, Service!Disarm, Service!Without
<1>3. CASE timer_clear
  <2>1. tm_list_' = <<>> /\ check' = check /\ check.pc # "check"
    BY <1>3 DEF timer_clear, CallerRuns
  <2>2. Elems(tm_list_') = {}
    BY <2>1 DEF Elems
  <2>3. Armed' = [tid \in {} |-> <<>>]
    BY <1>b, <2>2 DEF ByTid
  <2> QED BY <2>1, <2>3 DEF Service!Next, Service!Clear
<1>4. CASE timer_check_exp
  <2>1. check.pc = "idle" /\ check'.pc = "check" /\ check'.time \in Dates /\ Armed' = Armed
    BY <1>4, <1>c, <1>d DEF timer_check_exp
  <2> QED BY <2>1 DEF Service!Next, Service!Begin
<1>5. CASE Fire
  <2> DEFINE head == Head(tm_list_)
  <2>1. /\ tm_list_ # <<>> /\ tm_list_' = Tail(tm_list_) /\ check.pc = "check"
        /\ Before(head.time, check.time)
    BY <1>5 DEF Fire, Expired
  <2>2. check'.pc = "callback" /\ check'.time = check.time
    BY <1>5, <1>c DEF Fire
  <2>3. head \in E /\ Elems(tm_list_') = {t \in E : t.tid # head.tid}
    BY <2>1, TailIs DEF IInv, Good, E
  <2>4. \A t \in E : ~Before(t.time, head.time)
    BY <2>1, HeadIsFirst DEF E
  <2> HIDE DEF head
  <2>5. head.tid \in Tid /\ head.tid \in DOMAIN Armed /\ Armed[head.tid].time = head.time
    BY <1>a, <1>c, <1>e, <2>3 DEF Timer
  <2>6. \A tid \in DOMAIN Armed : ~Before(Armed[tid].time, Armed[head.tid].time)
    BY <1>a, <1>e, <2>4, <2>5
  <2>7. Armed' = [k \in DOMAIN Armed \ {head.tid} |-> Armed[k]]
    BY <1>a, <1>b, <2>3, ByTidWithout
  <2>8. Service!Fire(head.tid)
    BY <2>1, <2>2, <2>5, <2>6, <2>7 DEF Service!Fire, Service!Due, Service!Without
  <2> QED BY <2>5, <2>8 DEF Service!Next
<1>6. CASE CallbackReturns
  <2>1. check.pc = "callback" /\ check'.pc = "check" /\ check'.time = check.time /\ Armed' = Armed
    BY <1>6, <1>c, <1>d DEF CallbackReturns
  <2> QED BY <2>1 DEF Service!Next, Service!Return
<1>7. CASE Break
  <2>1. check.pc = "check" /\ check'.pc = "idle" /\ check'.time = check.time /\ Armed' = Armed
    BY <1>7, <1>c, <1>d DEF Break
  <2>2. ASSUME NEW t \in E PROVE ~Before(t.time, check.time)
    <3>1. tm_list_ # <<>>
      BY <2>2 DEF E, Elems
    <3>2. ~Before(Head(tm_list_).time, check.time)
      BY <1>7, <3>1 DEF Break, Expired
    <3>3. ~Before(t.time, Head(tm_list_).time)
      BY <2>2, <3>1, HeadIsFirst DEF E
    <3>4. Head(tm_list_) \in E
      BY <3>1, TailIs DEF IInv, Good, E
    <3>5. t.time \in Timespec /\ Head(tm_list_).time \in Timespec /\ check.time \in Timespec
      BY <1>c, <3>4 DEF Timer
    <3> QED BY <3>2, <3>3, <3>5, BeforeOrders
  <2>3. \A tid \in DOMAIN Armed : ~Before(Armed[tid].time, check.time)
    BY <1>a, <1>e, <2>2
  <2> QED BY <2>1, <2>3 DEF Service!Next, Service!End, Service!Due
<1>8. CASE Tick
  BY <1>8, <1>d DEF Tick, Service!vars
<1>9. CASE StepBack
  BY <1>9, <1>d DEF StepBack, Service!vars
<1>10. CASE UNCHANGED vars
  BY <1>10, <1>d DEF vars, Service!vars
<1> QED BY <1>1, <1>2, <1>3, <1>4, <1>5, <1>6, <1>7, <1>8, <1>9, <1>10 DEF Next, Callers, Loop

\* The sorted list of the manager is a timer service: a check fires due timers
\* only, the earliest first, each arming once, and returns when no timer is
\* left that was due when it looked, whatever the callbacks arm or delete
\* and wherever the clock is set meanwhile.
THEOREM ServiceImplemented == Spec => ImplementsService
<1>1. Service!Init /\ [][Service!Next]_Service!vars => Service!Spec
  BY PTL DEF Service!Spec
<1> QED BY <1>1, InitService, NextService, Invariance, PTL DEF Spec, ImplementsService
=============================================================================
