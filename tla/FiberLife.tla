------------------------------ MODULE FiberLife ------------------------------
(***************************************************************************)
(* What Source/Scheduler.cxx promises about the life of a fiber, whatever  *)
(* it waits for: one fiber of the thread runs at a time, a fiber that runs *)
(* was ready, a wait ends at most once before its fiber runs again, and a  *)
(* fiber that ended runs only a new coroutine.                             *)
(***************************************************************************)
CONSTANT Fiber

VARIABLE state

States == {"free", "ready", "running", "blocked", "dead"}

In(s) == {f \in Fiber : state[f] = s}

Init == \E f \in Fiber : state = [g \in Fiber |-> IF g = f THEN "ready" ELSE "free"]

(* The running fiber starts a coroutine: on a dead fiber, on a new one     *)
(* only if none is dead.                                                   *)
Call ==
  /\ In("running") # {}
  /\ \E f \in Fiber :
       /\ state[f] = "dead" \/ (In("dead") = {} /\ state[f] = "free")
       /\ state' = [state EXCEPT ![f] = "ready"]

Run(f) ==
  /\ In("running") = {}
  /\ state[f] = "ready"
  /\ state' = [state EXCEPT ![f] = "running"]

(* The running fiber blocks or ends; the thread goes on with a ready       *)
(* fiber, and only without one back to the loop.                           *)
Leave(f, s) ==
  /\ state[f] = "running"
  /\ IF In("ready") = {}
       THEN state' = [state EXCEPT ![f] = s]
       ELSE \E g \in In("ready") : state' = [state EXCEPT ![f] = s, ![g] = "running"]

Yield(f) ==
  /\ state[f] = "running"
  /\ \E g \in In("ready") : state' = [state EXCEPT ![f] = "ready", ![g] = "running"]

Wake ==
  \E F \in (SUBSET In("blocked")) \ {{}} :
    state' = [f \in Fiber |-> IF f \in F THEN "ready" ELSE state[f]]

(* Dead fibers are freed together, while none runs and none is ready.      *)
Reap ==
  /\ In("running") = {} /\ In("ready") = {}
  /\ state' = [f \in Fiber |-> IF state[f] = "dead" THEN "free" ELSE state[f]]

Next ==
  \/ Call
  \/ \E f \in Fiber :
       Run(f) \/ Leave(f, "blocked") \/ Leave(f, "dead") \/ Yield(f)
  \/ Wake
  \/ Reap

Spec == Init /\ [][Next]_state
=============================================================================
