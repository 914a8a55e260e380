---------------------------- MODULE SerialQueue ----------------------------
(***************************************************************************)
(* What SingleThreadedSchedulerClient promises: the callbacks run one at a *)
(* time, in the order in which they were added, each of them once.         *)
(***************************************************************************)
EXTENDS Sequences

CONSTANT Callbacks

VARIABLES pending,   \* the callbacks that have not begun, oldest first
          running    \* the callbacks being executed: none or one

vars == <<pending, running>>

Init == pending = <<>> /\ running = {}

Add(c) == pending' = Append(pending, c) /\ UNCHANGED running

Begin == /\ running = {} /\ pending # <<>>
         /\ running' = {Head(pending)}
         /\ pending' = Tail(pending)

End == running # {} /\ running' = {} /\ UNCHANGED pending

Next == (\E c \in Callbacks : Add(c)) \/ Begin \/ End

Spec == Init /\ [][Next]_vars
=============================================================================
