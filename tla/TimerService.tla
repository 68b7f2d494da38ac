---------------------------- MODULE TimerService ----------------------------
(***************************************************************************)
(* What the manager promises to the users of its timers: a timer identifier*)
(* is armed for one date at most; a check looks at the clock once, fires   *)
(* due timers, the earliest first, each arming at most once, and is over   *)
(* only when none is left that was due when it looked. There is no list    *)
(* here, and timers due at the same date fire in any order.                *)
(***************************************************************************)
CONSTANTS Tid, Block, Date, Before(_, _)

VARIABLES
  armed,    \* tid -> [bk, time], on the armed timers
  looked,   \* date the current check has read on the clock
  phase     \* "idle", "check" or "callback"

vars == <<armed, looked, phase>>

Init == armed = [tid \in {} |-> <<>>] /\ phase = "idle" /\ looked \in Date

Due(tid) == Before(armed[tid].time, looked)

Without(tid) == [t \in DOMAIN armed \ {tid} |-> armed[t]]

\* Between two checks, and from a callback.
Arm(tid) ==
  /\ phase # "check"
  /\ \E bk \in Block, time \in Date :
       armed' = [t \in DOMAIN armed \cup {tid} |->
                   IF t = tid THEN [bk |-> bk, time |-> time] ELSE armed[t]]
  /\ UNCHANGED <<looked, phase>>

Disarm(tid) ==
  /\ phase # "check"
  /\ armed' = Without(tid)
  /\ UNCHANGED <<looked, phase>>

Clear ==
  /\ phase # "check"
  /\ armed' = [tid \in {} |-> <<>>]
  /\ UNCHANGED <<looked, phase>>

Begin == phase = "idle" /\ phase' = "check" /\ looked' \in Date /\ UNCHANGED armed

Fire(tid) ==
  /\ phase = "check"
  /\ tid \in DOMAIN armed /\ Due(tid)
  /\ \A t \in DOMAIN armed : ~Before(armed[t].time, armed[tid].time)
  /\ armed' = Without(tid)
  /\ phase' = "callback"
  /\ UNCHANGED looked

Return == phase = "callback" /\ phase' = "check" /\ UNCHANGED <<armed, looked>>

End ==
  /\ phase = "check"
  /\ \A t \in DOMAIN armed : ~Due(t)
  /\ phase' = "idle"
  /\ UNCHANGED <<armed, looked>>

Next ==
  \/ \E tid \in Tid : Arm(tid) \/ Disarm(tid) \/ Fire(tid)
  \/ Clear \/ Begin \/ Return \/ End

Spec == Init /\ [][Next]_vars
=============================================================================
