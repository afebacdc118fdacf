------------------------------ MODULE TaskCall ------------------------------
(***************************************************************************)
(* What Async::awaitTasks promises to the fiber that calls it: its tasks   *)
(* are executed, each once, and the call returns when all of them were.    *)
(***************************************************************************)
EXTENDS Naturals

CONSTANTS Client, TaskCounts

VARIABLES
  called,     \* the fibers inside awaitTasks
  left        \* how many of its tasks are still to execute

Init == called = {} /\ left = [f \in Client |-> 0]

Call(f, n) ==
  /\ f \notin called
  /\ called' = called \cup {f}
  /\ left' = [left EXCEPT ![f] = n]

Execute(f) ==
  /\ f \in called /\ left[f] > 0
  /\ left' = [left EXCEPT ![f] = @ - 1]
  /\ UNCHANGED called

Return(f) ==
  /\ f \in called /\ left[f] = 0
  /\ called' = called \ {f}
  /\ UNCHANGED left

Next == \E f \in Client : Execute(f) \/ Return(f) \/ \E n \in TaskCounts : Call(f, n)

Spec == Init /\ [][Next]_<<called, left>>
=============================================================================
