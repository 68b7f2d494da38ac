----------------------------- MODULE HookService -----------------------------
(***************************************************************************)
(* What hook_zmq blocks promise to the manager that starts and stops them: *)
(* a hook that is started is polled, or deaf when its start_ has failed;   *)
(* stopping it ends that, and holds the thread until its context is        *)
(* closed; and a call moves the hook that it is made on, and no other.     *)
(* There are no sockets, addresses, contexts or messages here.             *)
(***************************************************************************)
CONSTANT Hook

VARIABLES
  stage,   \* stage[h]: "idle", "started" or "closing"
  polled   \* hooks that fd_poll may call

vars == <<stage, polled>>

Init == stage = [h \in Hook |-> "idle"] /\ polled = {}

\* One hook at a time is being closed, and no call can be made meanwhile.
Free == \A h \in Hook : stage[h] # "closing"

\* start_ tells nobody how it went.
Start(h) ==
  /\ Free /\ stage[h] = "idle"
  /\ stage' = [stage EXCEPT ![h] = "started"]
  /\ polled' \in {polled, polled \cup {h}}

\* A hook that has nothing left to send is idle at once.
Stop(h) ==
  /\ Free /\ stage[h] = "started"
  /\ \E left \in {"closing", "idle"} : stage' = [stage EXCEPT ![h] = left]
  /\ polled' = polled \ {h}

\* zmq_ctx_term has returned.
Close(h) ==
  /\ stage[h] = "closing"
  /\ stage' = [stage EXCEPT ![h] = "idle"]
  /\ UNCHANGED polled

Next == \E h \in Hook : Start(h) \/ Stop(h) \/ Close(h)

Spec == Init /\ [][Next]_vars
=============================================================================
