------------------------------ MODULE ManagerTm ------------------------------
(***************************************************************************)
(* The timers side of struct manager (engine/src/manager_tm.cpp): a list of*)
(* timers sorted by expiration date on the wall clock, and the loop that   *)
(* fires the expired ones. The callback of a timer runs in the middle of   *)
(* that loop and may add and delete timers, its own included. Time passes  *)
(* meanwhile, and CLOCK_REALTIME can also be set back.                     *)
(***************************************************************************)
EXTENDS Integers, Sequences

CONSTANTS
  Block,     \* blocks that can be called back
  Tid,       \* timer identifiers
  Delay,     \* delays that callers give, as struct timespec
  NSEC_MAX,  \* nanoseconds in a second
  MaxSec,    \* bound: second at which the modelled clock stops
  MaxSteps,  \* bound: times the clock is set back
  nullptr    \* the null pointer

ASSUME NsecAssumption == NSEC_MAX \in Nat \ {0} /\ MaxSec \in Nat /\ MaxSteps \in Nat
ASSUME DelayAssumption == Delay \subseteq [tv_sec : Int, tv_nsec : Int]

VARIABLES
  tm_list_,  \* the timers, the next one to expire first
  clock,     \* CLOCK_REALTIME
  steps,     \* times the clock was set back
  check      \* the call of timer_check_exp: program counter, time read

vars == <<tm_list_, clock, steps, check>>

Timespec == [tv_sec : Int, tv_nsec : Int]

Clock == [tv_sec : 0..MaxSec, tv_nsec : 0..NSEC_MAX - 1]

Timer == [bk : Block, time : Timespec, tid : Tid]

-----------------------------------------------------------------------------
\* operator< of struct timespec.
Before(a, b) ==
  \/ a.tv_sec < b.tv_sec
  \/ a.tv_sec = b.tv_sec /\ a.tv_nsec < b.tv_nsec

\* Division and remainder of C++, which truncate towards zero.
Quotient(a, b) == IF a >= 0 THEN a \div b ELSE -((-a) \div b)
Remainder(a, b) == a - b * Quotient(a, b)

\* Mutant: the nanoseconds are not wrapped.
Expiration_Unwrapped(time, delay) ==
  [tv_sec |-> time.tv_sec + delay.tv_sec, tv_nsec |-> time.tv_nsec + delay.tv_nsec]

\* The date a delay leads to, from a given time.
Expiration(time, delay) ==
  LET nsec == time.tv_nsec + delay.tv_nsec
  IN  [tv_sec  |-> time.tv_sec + delay.tv_sec + Quotient(nsec, NSEC_MAX),
       tv_nsec |-> Remainder(nsec, NSEC_MAX)]

\* std::forward_list::remove keeps the order of what stays; operator== of
\* struct timer looks at tid alone. The one result, as a set.
Removed(list, tid) ==
  LET kept == {i \in DOMAIN list : list[i].tid # tid}
      InOrder(p) == /\ \A k \in kept : \E i \in DOMAIN p : p[i] = k
                    /\ \A i, j \in DOMAIN p : i < j => p[i] < p[j]
  IN  {[i \in DOMAIN p |-> list[p[i]]] :
         p \in {q \in UNION {[1..n -> kept] : n \in 0..Len(list)} : InOrder(q)}}

\* std::forward_list::sort is stable: list reordered by a permutation that
\* puts no timer before an earlier one and keeps the order of equal ones.
Sorted(list) ==
  LET Stable(p) == /\ \A k \in DOMAIN list : \E i \in DOMAIN list : p[i] = k
                   /\ \A i, j \in DOMAIN list : i < j =>
                        /\ ~Before(list[p[j]].time, list[p[i]].time)
                        /\ Before(list[p[i]].time, list[p[j]].time) \/ p[i] < p[j]
  IN  {[i \in DOMAIN list |-> list[p[i]]] :
         p \in {q \in [DOMAIN list -> DOMAIN list] : Stable(q)}}

-----------------------------------------------------------------------------
Init ==
  /\ tm_list_ = <<>>
  /\ clock = [tv_sec |-> 0, tv_nsec |-> 0]
  /\ steps = 0
  /\ check = [pc |-> "idle", time |-> clock]

\* Code of a caller runs between two checks, and inside a callback.
CallerRuns == check.pc \in {"idle", "callback"}

\* Mutant: the list is not sorted again.
timer_add_Unsorted(bk, tid, delay) ==
  /\ CallerRuns
  /\ LET tmr == [bk |-> bk, time |-> Expiration(clock, delay), tid |-> tid]
     IN  bk # nullptr /\ \E rest \in Removed(tm_list_, tid) : tm_list_' = <<tmr>> \o rest
  /\ UNCHANGED <<clock, steps, check>>

\* Mutant: the timer with the same identifier stays.
timer_add_Twice(bk, tid, delay) ==
  /\ CallerRuns
  /\ LET tmr == [bk |-> bk, time |-> Expiration(clock, delay), tid |-> tid]
     IN  bk # nullptr /\ tm_list_' \in Sorted(<<tmr>> \o tm_list_)
  /\ UNCHANGED <<clock, steps, check>>

\* A timer with the same identifier is replaced, whichever block it was for.
\* A nullptr block is refused.
timer_add(bk, tid, delay) ==
  /\ CallerRuns
  /\ LET tmr == [bk |-> bk, time |-> Expiration(clock, delay), tid |-> tid]
     IN  IF bk = nullptr THEN UNCHANGED tm_list_
         ELSE \E rest \in Removed(tm_list_, tid) : tm_list_' \in Sorted(<<tmr>> \o rest)
  /\ UNCHANGED <<clock, steps, check>>

timer_del(tid) ==
  /\ CallerRuns
  /\ tm_list_' \in Removed(tm_list_, tid)
  /\ UNCHANGED <<clock, steps, check>>

timer_clear ==
  /\ CallerRuns
  /\ tm_list_' = <<>>
  /\ UNCHANGED <<clock, steps, check>>

-----------------------------------------------------------------------------
timer_check_exp ==
  /\ check.pc = "idle"
  /\ check' = [pc |-> "check", time |-> clock]
  /\ UNCHANGED <<tm_list_, clock, steps>>

\* Mutant: the clock is read again for each timer.
Expired_Now == tm_list_ # <<>> /\ Before(Head(tm_list_).time, clock)

Expired == tm_list_ # <<>> /\ Before(Head(tm_list_).time, check.time)

\* Mutant: the timer stays in the list.
Fire_Kept ==
  /\ check.pc = "check"
  /\ Expired
  /\ check' = [check EXCEPT !.pc = "callback"]
  /\ UNCHANGED <<tm_list_, clock, steps>>

\* The timer leaves the list before its callback is called.
Fire ==
  /\ check.pc = "check"
  /\ Expired
  /\ tm_list_' = Tail(tm_list_)
  /\ check' = [check EXCEPT !.pc = "callback"]
  /\ UNCHANGED <<clock, steps>>

CallbackReturns ==
  /\ check.pc = "callback"
  /\ check' = [check EXCEPT !.pc = "check"]
  /\ UNCHANGED <<tm_list_, clock, steps>>

Break ==
  /\ check.pc = "check"
  /\ ~Expired
  /\ check' = [check EXCEPT !.pc = "idle"]
  /\ UNCHANGED <<tm_list_, clock, steps>>

-----------------------------------------------------------------------------
\* The clock goes on by a nanosecond.
Tick ==
  /\ \/ clock.tv_nsec + 1 < NSEC_MAX /\ clock' = [clock EXCEPT !.tv_nsec = @ + 1]
     \/ /\ clock.tv_nsec + 1 = NSEC_MAX /\ clock.tv_sec < MaxSec
        /\ clock' = [tv_sec |-> clock.tv_sec + 1, tv_nsec |-> 0]
  /\ UNCHANGED <<tm_list_, steps, check>>

\* The administrator, or NTP, sets it back.
StepBack ==
  /\ steps < MaxSteps
  /\ steps' = steps + 1
  /\ clock' \in Clock /\ Before(clock', clock)
  /\ UNCHANGED <<tm_list_, check>>

-----------------------------------------------------------------------------
Callers ==
  \/ \E bk \in Block \cup {nullptr}, tid \in Tid, delay \in Delay : timer_add(bk, tid, delay)
  \/ \E tid \in Tid : timer_del(tid)
  \/ timer_clear

Loop == Fire \/ CallbackReturns \/ Break

Next == Callers \/ timer_check_exp \/ Loop \/ Tick \/ StepBack

\* The main loop of c3qo calls timer_check_exp again and again, a callback
\* returns, and time passes.
Spec ==
  /\ Init /\ [][Next]_vars
  /\ WF_vars(timer_check_exp) /\ WF_vars(Loop) /\ WF_vars(Tick)

-----------------------------------------------------------------------------
\* The variables keep their shape, and the nanoseconds of a date are "both in
\* range and positive" if no delay goes back in time.
TypeOK ==
  /\ tm_list_ \in Seq(Timer)
  /\ (\A delay \in Delay : delay.tv_nsec >= 0) =>
       \A i \in DOMAIN tm_list_ : tm_list_[i].time.tv_nsec \in 0..NSEC_MAX - 1
  /\ clock \in Clock
  /\ steps \in 0..MaxSteps
  /\ check \in [pc : {"idle", "check", "callback"}, time : Clock]

\* The list is sorted and names a timer once, after any additions and
\* deletions: what lets the loop of timer_check_exp look at its head only.
SortedOnce ==
  \A i, j \in DOMAIN tm_list_ : i < j =>
    /\ ~Before(tm_list_[j].time, tm_list_[i].time)
    /\ tm_list_[i].tid # tm_list_[j].tid

\* The timers of the list, by identifier.
Armed ==
  [tid \in {tm_list_[i].tid : i \in DOMAIN tm_list_} |->
     LET timer == tm_list_[CHOOSE i \in DOMAIN tm_list_ : tm_list_[i].tid = tid]
     IN  [bk |-> timer.bk, time |-> timer.time]]

\* The dates that the clock, a delay and the wrapping lead to.
Dates == Clock \cup {Expiration(time, delay) : time \in Clock, delay \in Delay}

Service == INSTANCE TimerService
             WITH Date <- Dates, armed <- Armed, looked <- check.time, phase <- check.pc

\* The sorted list implements the timer service: a check fires the due
\* timers, the earliest first, and leaves none of those that were due.
ImplementsService == Service!Spec

\* A check returns, even when every callback arms its timer again with no
\* delay and the clock is set back under it.
CheckReturns == (check.pc # "idle") ~> (check.pc = "idle")

\* No armed timer is forgotten: it fires, is deleted or gets another date,
\* if its date comes before the clock of the model stops.
TimersComeDue ==
  \A tid \in Tid, time \in Clock \ {[tv_sec |-> MaxSec, tv_nsec |-> NSEC_MAX - 1]} :
    LET Waiting == tid \in DOMAIN Armed /\ Armed[tid].time = time
    IN  Waiting ~> ~Waiting
=============================================================================
