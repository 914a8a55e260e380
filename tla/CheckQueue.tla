----------------------------- MODULE CheckQueue -----------------------------
(***************************************************************************)
(* CCheckQueue of src/checkqueue.h: a master adds script checks, worker    *)
(* threads and then the master itself run them, and Wait answers whether   *)
(* all of them succeeded.                                                  *)
(*                                                                         *)
(* A step is one critical section of the queue's mutex: from taking the    *)
(* lock, or waking up with it, to giving it up, by waiting, returning or   *)
(* leaving with a batch.  The queue is a stack; which of its checks go     *)
(* into a batch makes no difference to the result, so a batch is any       *)
(* subset of the right size.                                               *)
(***************************************************************************)
EXTENDS Integers, FiniteSets

CONSTANTS Workers,        \* threads in Thread(), -par less one
          Masters,        \* threads that use a CCheckQueueControl
          Checks,
          Valid,          \* the checks that succeed when they are run
          nBatchSize,
          MaxRounds,      \* bound: how often each master uses the queue
          MaxInterrupts,  \* bound: how many threads are interrupted
          None

ASSUME QueueAssumption ==
    /\ Workers \cap Masters = {} /\ None \notin Masters
    /\ IsFiniteSet(Checks) /\ Valid \subseteq Checks
    /\ nBatchSize \in Nat \ {0}
    /\ MaxRounds \in Nat /\ MaxInterrupts \in Nat

Threads == Workers \cup Masters

VARIABLES
    queue, nIdle, nTotal, fAllOk, nTodo,
    control,     \* the owner of ControlMutex
    pc,          \* where a thread is
    batch,       \* its vChecks; not empty until it is accounted for (nNow)
    fOk,         \* its local verdict
    added,       \* the checks given to the queue since ControlMutex was taken
    verdict,     \* what Wait last returned
    rounds, interrupts

queueVars == <<queue, nIdle, nTotal, fAllOk, nTodo>>
roundVars == <<added, verdict, rounds>>
vars == <<queueVars, control, pc, batch, fOk, roundVars, interrupts>>

Init == /\ queue = {} /\ nIdle = 0 /\ nTotal = 0 /\ fAllOk = TRUE /\ nTodo = 0
        /\ control = None
        /\ pc = [t \in Threads |-> IF t \in Workers THEN "first" ELSE "out"]
        /\ batch = [t \in Threads |-> {}]
        /\ fOk = [t \in Threads |-> TRUE]
        /\ added = {} /\ verdict = TRUE
        /\ rounds = [m \in Masters |-> 0] /\ interrupts = 0

-----------------------------------------------------------------------------
(* CCheckQueueControl. *)

Enter(m) ==
    /\ pc[m] = "out" /\ control = None /\ rounds[m] < MaxRounds
    /\ control' = m
    /\ pc' = [pc EXCEPT ![m] = "adding"]
    /\ added' = {}
    /\ rounds' = [rounds EXCEPT ![m] = @ + 1]
    /\ UNCHANGED <<queueVars, batch, fOk, verdict, interrupts>>

Asleep(S) == {t \in S : pc[t] = "waiting"}

\* The sets of threads that notify_one and notify_all on a condition variable may
\* wake, where S are the threads that use it.
NotifyOne(S) == IF Asleep(S) = {} THEN {{}} ELSE {{t} : t \in Asleep(S)}
NotifyAll(S) == {Asleep(S)}

Woken(p, S) == [t \in Threads |-> IF t \in S THEN "woken" ELSE p[t]]

\* Add.
Add(m, S) ==
    /\ pc[m] = "adding" /\ S # {}
    /\ queue' = queue \cup S
    /\ added' = added \cup S
    /\ nTodo' = nTodo + Cardinality(S)
    /\ \E W \in IF Cardinality(S) = 1 THEN NotifyOne(Workers) ELSE NotifyAll(Workers) :
          pc' = Woken(pc, W)
    /\ UNCHANGED <<nIdle, nTotal, fAllOk, control, batch, fOk, verdict, rounds, interrupts>>

\* Wait, called by the owner or by the destructor of its CCheckQueueControl.
Wait(m) ==
    /\ pc[m] = "adding"
    /\ pc' = [pc EXCEPT ![m] = "first"]
    /\ UNCHANGED <<queueVars, control, batch, fOk, roundVars, interrupts>>

Leave(m) ==
    /\ pc[m] = "returned"
    /\ control' = None
    /\ pc' = [pc EXCEPT ![m] = "out"]
    /\ UNCHANGED <<queueVars, batch, fOk, roundVars, interrupts>>

-----------------------------------------------------------------------------
(* Loop. *)

Locks(t) == pc[t] \in {"first", "again", "woken"}

\* The clean-up at the head of the critical section: the last batch is accounted
\* for, a new thread is counted, one that slept is no longer idle.
AllOk_Forgets(t) == fAllOk
AllOk(t) == IF pc[t] = "again" THEN fAllOk /\ fOk[t] ELSE fAllOk
Todo(t)  == nTodo - Cardinality(batch[t])
Total(t) == IF pc[t] = "first" THEN nTotal + 1 ELSE nTotal
Idle(t)  == IF pc[t] = "woken" THEN nIdle - 1 ELSE nIdle

ToNotify_Never(t) == {{}}

\* A worker that has finished the last check notifies the master.
ToNotify(t) == IF pc[t] = "again" /\ Todo(t) = 0 /\ t \in Workers
               THEN NotifyOne(Masters) ELSE {{}}

\* How many checks to take.
BatchSize(t) ==
    LET share == Cardinality(queue) \div (Total(t) + Idle(t) + 1)
        n     == IF share < nBatchSize THEN share ELSE nBatchSize
    IN  IF n > 1 THEN n ELSE 1

\* There is work: take a batch and leave the critical section with it.
Take(t) ==
    /\ Locks(t) /\ queue # {}
    /\ fAllOk' = AllOk(t) /\ nTodo' = Todo(t) /\ nTotal' = Total(t) /\ nIdle' = Idle(t)
    /\ \E S \in SUBSET queue : /\ Cardinality(S) = BatchSize(t)
                               /\ queue' = queue \ S
                               /\ batch' = [batch EXCEPT ![t] = S]
    /\ fOk' = [fOk EXCEPT ![t] = fAllOk']
    /\ \E W \in ToNotify(t) : pc' = [Woken(pc, W) EXCEPT ![t] = "work"]
    /\ UNCHANGED <<control, roundVars, interrupts>>

\* There is none, and the thread may not return yet.
Sleep(t) ==
    /\ Locks(t) /\ queue = {} /\ (t \in Masters => Todo(t) # 0)
    /\ fAllOk' = AllOk(t) /\ nTodo' = Todo(t) /\ nTotal' = Total(t) /\ nIdle' = Idle(t) + 1
    /\ batch' = [batch EXCEPT ![t] = {}]
    /\ \E W \in ToNotify(t) : pc' = [Woken(pc, W) EXCEPT ![t] = "waiting"]
    /\ UNCHANGED <<queue, control, fOk, roundVars, interrupts>>

Return_KeepsVerdict(m) ==
    /\ Locks(m) /\ queue = {} /\ Todo(m) = 0
    /\ verdict' = AllOk(m)
    /\ fAllOk' = AllOk(m) /\ nTodo' = Todo(m) /\ nTotal' = Total(m) - 1 /\ nIdle' = Idle(m)
    /\ batch' = [batch EXCEPT ![m] = {}]
    /\ pc' = [pc EXCEPT ![m] = "returned"]
    /\ UNCHANGED <<queue, control, fOk, added, rounds, interrupts>>

\* Everything is done: the master returns the verdict and resets it.
Return(m) ==
    /\ Locks(m) /\ queue = {} /\ Todo(m) = 0
    /\ verdict' = AllOk(m)
    /\ fAllOk' = TRUE /\ nTodo' = Todo(m) /\ nTotal' = Total(m) - 1 /\ nIdle' = Idle(m)
    /\ batch' = [batch EXCEPT ![m] = {}]
    /\ pc' = [pc EXCEPT ![m] = "returned"]
    /\ UNCHANGED <<queue, control, fOk, added, rounds, interrupts>>

\* The checks are run outside the lock, until one fails.
Work(t) ==
    /\ pc[t] = "work"
    /\ fOk' = [fOk EXCEPT ![t] = @ /\ batch[t] \subseteq Valid]
    /\ pc' = [pc EXCEPT ![t] = "again"]
    /\ UNCHANGED <<queueVars, control, batch, roundVars, interrupts>>

-----------------------------------------------------------------------------
(* The environment. *)

\* A condition variable may wake a thread for no reason.
SpuriousWakeup(t) ==
    /\ pc[t] = "waiting"
    /\ pc' = [pc EXCEPT ![t] = "woken"]
    /\ UNCHANGED <<queueVars, control, batch, fOk, roundVars, interrupts>>

\* At shutdown threads are interrupted where they wait, and leave Loop by an
\* exception without a change of the counters.  A worker is gone; a master comes
\* back to Wait in the destructor of its CCheckQueueControl.
Interrupt(t) ==
    /\ pc[t] \in {"waiting", "woken"} /\ interrupts < MaxInterrupts
    /\ pc' = [pc EXCEPT ![t] = IF t \in Workers THEN "gone" ELSE "first"]
    /\ interrupts' = interrupts + 1
    /\ UNCHANGED <<queueVars, control, batch, fOk, roundVars>>

-----------------------------------------------------------------------------
Step(t) == Take(t) \/ Sleep(t) \/ Work(t)
Control(m) == Enter(m) \/ Wait(m) \/ Return(m) \/ Leave(m)

Next == \/ \E t \in Threads : Step(t) \/ SpuriousWakeup(t) \/ Interrupt(t)
        \/ \E m \in Masters : Control(m) \/ \E S \in SUBSET (Checks \ added) : Add(m, S)

Spec == Init /\ [][Next]_vars

\* Every thread that can go on does.
FairSpec == /\ Spec
            /\ \A t \in Threads : WF_vars(Step(t))
            /\ \A m \in Masters : WF_vars(Return(m))

-----------------------------------------------------------------------------
\* The checks that are not accounted for yet.
Unfinished == queue \cup UNION {batch[t] : t \in Threads}

\* Every variable holds a value of its type.
TypeOK ==
    /\ queue \subseteq Checks /\ added \subseteq Checks
    /\ {nIdle, nTotal, nTodo, interrupts} \subseteq Nat
    /\ {fAllOk, verdict} \subseteq BOOLEAN
    /\ control \in Masters \cup {None}
    /\ pc \in [Threads -> {"out", "adding", "first", "again", "woken", "waiting",
                           "work", "returned", "gone"}]
    /\ batch \in [Threads -> SUBSET Checks] /\ fOk \in [Threads -> BOOLEAN]
    /\ rounds \in [Masters -> 0..MaxRounds]

\* "Wait until execution finishes, and return whether all evaluations were
\* successful": the answer of Wait is about exactly the checks its caller added,
\* whatever the workers skipped after a failure and whoever used the queue before.
VerdictExact == \A m \in Masters : pc[m] = "returned" => (verdict <=> added \subseteq Valid)

\* "guarantees the passed queue is finished before continuing": while nobody owns
\* the queue, no thread has a check left or is running one, and no failure of the
\* last user is remembered.
QueueIdle == control = None => Unfinished = {} /\ nTodo = 0 /\ fAllOk

\* nTodo counts the checks that are queued or in a batch, and no check is in two.
TodoExact ==
    /\ nTodo = Cardinality(Unfinished)
    /\ \A t, u \in Threads : t # u => batch[t] \cap batch[u] = {}
    /\ \A t \in Threads : batch[t] \cap queue = {}

\* No wake-up is lost: every Wait returns, even if threads are interrupted.
WaitReturns == \A m \in Masters : pc[m] = "first" ~> pc[m] = "returned"
=============================================================================
