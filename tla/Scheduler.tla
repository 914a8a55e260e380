----------------------------- MODULE Scheduler -----------------------------
(***************************************************************************)
(* src/scheduler.cpp: CScheduler, whose threads run tasks at given times,  *)
(* and SingleThreadedSchedulerClient, which runs callbacks through it one  *)
(* at a time.                                                              *)
(*                                                                         *)
(* A step is one critical section of newTaskMutex or of                    *)
(* m_cs_callbacks_pending, or one notification, which schedule and stop    *)
(* send after they gave up the mutex.  Time is a counter that Tick moves.  *)
(***************************************************************************)
EXTENDS Integers, Sequences, FiniteSets

CONSTANTS Threads,        \* threads in serviceQueue
          Producers,      \* threads that schedule jobs and add callbacks
          Main,           \* the thread that stops the scheduler
          Jobs,           \* the tasks of others
          Callbacks,      \* numbered in the order in which they are added
          ProcessQueue,   \* the task the client schedules
          Delays,         \* deltaMilliSeconds
          MaxTime,        \* bound: when the clock stops
          Nothing

Actors == Threads \cup Producers \cup {Main}
Tasks  == Jobs \cup {ProcessQueue}

ASSUME SchedulerAssumption ==
    /\ Threads \cap Producers = {} /\ Main \notin Threads \cup Producers
    /\ ProcessQueue \notin Jobs
    /\ Nothing \notin Tasks \cup Callbacks
    /\ Callbacks \subseteq Nat /\ Delays \subseteq Nat \ {0} /\ MaxTime \in Nat

VARIABLES
    now,
    taskQueue,                \* the multimap, in its order: records of at and task
    nThreadsServicingQueue, stopRequested, stopWhenEmpty,
    interrupted,              \* were the threads interrupted?
    m_callbacks_pending, m_are_callbacks_running,
    pc,                       \* where an actor is
    deadline,                 \* timeToWaitFor of a thread
    holds,                    \* the job or the callback an actor runs
    every,                    \* the interval of a job of scheduleEvery, 0 for others
    unused                    \* the jobs and callbacks nobody has handed over yet

queueVars  == <<taskQueue, nThreadsServicingQueue>>
stopVars   == <<stopRequested, stopWhenEmpty, interrupted>>
clientVars == <<m_callbacks_pending, m_are_callbacks_running>>
handed     == <<every, unused>>
vars == <<now, queueVars, stopVars, clientVars, pc, deadline, holds, handed>>

Init == /\ now = 0 /\ taskQueue = <<>> /\ nThreadsServicingQueue = 0
        /\ stopRequested = FALSE /\ stopWhenEmpty = FALSE /\ interrupted = FALSE
        /\ m_callbacks_pending = <<>> /\ m_are_callbacks_running = FALSE
        /\ pc = [a \in Actors |-> IF a \in Threads THEN "new" ELSE "out"]
        /\ deadline = [t \in Threads |-> 0]
        /\ holds = [a \in Actors |-> Nothing]
        /\ every = [j \in Jobs |-> 0]
        /\ unused = Jobs \cup Callbacks

shouldStop == stopRequested \/ (stopWhenEmpty /\ taskQueue = <<>>)

Asleep == {t \in Threads : pc[t] \in {"wait", "timed"}}

\* A thread that is woken before its time goes round the loop it waits in.
Wake(p, W) == [a \in Actors |-> IF a \in W
                                THEN IF p[a] = "wait" THEN "woken" ELSE "early" ELSE p[a]]

\* The sets of threads that notify_one may wake when a calls it.
NotifyOne(a) == IF Asleep \ {a} = {} THEN {{}} ELSE {{t} : t \in Asleep \ {a}}

-----------------------------------------------------------------------------
(* CScheduler::schedule. *)

\* The multimap puts a task behind those of the same time.
Insert(task, t) ==
    \E k \in 0..Len(taskQueue) :
        /\ \A i \in 1..k : taskQueue[i].at <= t
        /\ \A i \in k + 1..Len(taskQueue) : taskQueue[i].at > t
        /\ taskQueue' = SubSeq(taskQueue, 1, k) \o <<[at |-> t, task |-> task]>>
                        \o SubSeq(taskQueue, k + 1, Len(taskQueue))

\* Where an actor goes on after a call of schedule.
Back(a) == CASE a \in Threads -> "again" [] a \in Producers -> "out" [] OTHER -> "recheck"

\* scheduleFromNow, and scheduleEvery if the job is to repeat, by any other thread.
ScheduleJob(p, j, delta, repeat) ==
    /\ pc[p] = "out" /\ j \in unused /\ now + delta <= MaxTime
    /\ Insert(j, now + delta)
    /\ unused' = unused \ {j}
    /\ every' = [every EXCEPT ![j] = IF repeat THEN delta ELSE 0]
    /\ pc' = [pc EXCEPT ![p] = "notify"]
    /\ UNCHANGED <<now, nThreadsServicingQueue, stopVars, clientVars, deadline, holds>>

Notify_Nobody(a) ==
    /\ pc[a] = "notify"
    /\ pc' = [pc EXCEPT ![a] = Back(a)]
    /\ UNCHANGED <<now, queueVars, stopVars, clientVars, deadline, holds, handed>>

\* The notify_one at its end.
Notify(a) ==
    /\ pc[a] = "notify"
    /\ \E W \in NotifyOne(a) : pc' = [Wake(pc, W) EXCEPT ![a] = Back(a)]
    /\ UNCHANGED <<now, queueVars, stopVars, clientVars, deadline, holds, handed>>

-----------------------------------------------------------------------------
(* CScheduler::serviceQueue. *)

\* The thread leaves, and notifies the next one.
Exit(t) == /\ nThreadsServicingQueue' = nThreadsServicingQueue - 1
           /\ \E W \in NotifyOne(t) : pc' = [Wake(pc, W) EXCEPT ![t] = "done"]
           /\ deadline' = [deadline EXCEPT ![t] = 0]
           /\ UNCHANGED taskQueue

\* It waits until the time of the first task.
WaitUntil(t) == /\ pc' = [pc EXCEPT ![t] = "timed"]
                /\ deadline' = [deadline EXCEPT ![t] = taskQueue[1].at]
                /\ UNCHANGED queueVars

\* It gives up the mutex, or waits for a task.
GoTo(t, place) == /\ pc' = [pc EXCEPT ![t] = place]
                  /\ deadline' = [deadline EXCEPT ![t] = 0]
                  /\ UNCHANGED queueVars

others == <<now, stopVars, clientVars, handed>>

StartThread(t) ==
    /\ pc[t] = "new"
    /\ nThreadsServicingQueue' = nThreadsServicingQueue + 1
    /\ pc' = [pc EXCEPT ![t] = "again"]
    /\ UNCHANGED <<taskQueue, deadline, holds, others>>

\* The head of the outer loop; RandAddSeedSleep runs without the mutex.
OuterLoop(t) ==
    /\ pc[t] = "again"
    /\ \/ shouldStop /\ Exit(t)
       \/ ~shouldStop /\ taskQueue = <<>> /\ GoTo(t, "seed")
       \/ ~shouldStop /\ taskQueue # <<>> /\ WaitUntil(t)
    /\ UNCHANGED <<holds, others>>

\* The loop that waits for something to do.
WaitForTask(t) ==
    /\ pc[t] \in {"seed", "woken"}
    /\ \/ shouldStop /\ Exit(t)
       \/ ~shouldStop /\ taskQueue = <<>> /\ GoTo(t, "wait")
       \/ ~shouldStop /\ taskQueue # <<>> /\ WaitUntil(t)
    /\ UNCHANGED <<holds, others>>

\* The loop that waits for the time of the first task, when it was woken.
WaitForTime(t) ==
    /\ pc[t] = "early"
    /\ \/ shouldStop /\ Exit(t)
       \/ ~shouldStop /\ taskQueue = <<>> /\ GoTo(t, "seed")
       \/ ~shouldStop /\ taskQueue # <<>> /\ WaitUntil(t)
    /\ UNCHANGED <<holds, others>>

TimedOut(t) == pc[t] \in {"timed", "early"} /\ deadline[t] <= now

\* The time has come: the first task is taken, if there still is one.
TakeTask(t) ==
    /\ TimedOut(t) /\ ~shouldStop /\ taskQueue # <<>>
    /\ taskQueue' = Tail(taskQueue)
    /\ deadline' = [deadline EXCEPT ![t] = 0]
    /\ LET task == taskQueue[1].task
       IN  \/ /\ task = ProcessQueue
              /\ pc' = [pc EXCEPT ![t] = "process"]
              /\ UNCHANGED holds
           \/ /\ task # ProcessQueue
              /\ pc' = [pc EXCEPT ![t] = "job"]
              /\ holds' = [holds EXCEPT ![t] = task]
    /\ UNCHANGED <<nThreadsServicingQueue, others>>

TimeoutForNothing(t) ==
    /\ TimedOut(t)
    /\ \/ shouldStop /\ Exit(t)
       \/ ~shouldStop /\ taskQueue = <<>> /\ GoTo(t, "seed")
    /\ UNCHANGED <<holds, others>>

\* A job ends; Repeat schedules it anew.
JobEnds(t) ==
    /\ pc[t] = "job"
    /\ \/ /\ every[holds[t]] > 0
          /\ Insert(holds[t], now + every[holds[t]])
          /\ pc' = [pc EXCEPT ![t] = "notify"]
       \/ /\ every[holds[t]] = 0
          /\ pc' = [pc EXCEPT ![t] = "again"]
          /\ UNCHANGED taskQueue
    /\ holds' = [holds EXCEPT ![t] = Nothing]
    /\ UNCHANGED <<nThreadsServicingQueue, deadline, others>>

-----------------------------------------------------------------------------
(* SingleThreadedSchedulerClient. *)

service == <<now, nThreadsServicingQueue, stopVars, deadline>>

\* AddToProcessQueue.
AddToProcessQueue(p, c) ==
    /\ pc[p] = "out" /\ c \in unused /\ \A d \in unused \cap Callbacks : c <= d
    /\ m_callbacks_pending' = Append(m_callbacks_pending, c)
    /\ unused' = unused \ {c}
    /\ pc' = [pc EXCEPT ![p] = "maybe"]
    /\ UNCHANGED <<service, taskQueue, m_are_callbacks_running, holds, every>>

\* MaybeScheduleProcessQueue: the check, and then the call of schedule.
MaybeScheduleProcessQueue(a) ==
    /\ pc[a] = "maybe"
    /\ pc' = [pc EXCEPT ![a] = IF m_are_callbacks_running \/ m_callbacks_pending = <<>>
                               THEN Back(a) ELSE "schedule"]
    /\ UNCHANGED <<service, taskQueue, clientVars, holds, handed>>

ScheduleProcessQueue(a) ==
    /\ pc[a] = "schedule"
    /\ Insert(ProcessQueue, now)
    /\ pc' = [pc EXCEPT ![a] = "notify"]
    /\ UNCHANGED <<service, clientVars, holds, handed>>

\* ProcessQueue finds nothing to do.
SkipCallback(a) ==
    /\ pc[a] = "process"
    /\ m_are_callbacks_running \/ m_callbacks_pending = <<>>
    /\ pc' = [pc EXCEPT ![a] = Back(a)]
    /\ UNCHANGED <<service, taskQueue, clientVars, holds, handed>>

BeginCallback_Anyway(a) ==
    /\ pc[a] = "process"
    /\ m_callbacks_pending # <<>>
    /\ m_are_callbacks_running' = TRUE
    /\ holds' = [holds EXCEPT ![a] = Head(m_callbacks_pending)]
    /\ m_callbacks_pending' = Tail(m_callbacks_pending)
    /\ pc' = [pc EXCEPT ![a] = "callback"]
    /\ UNCHANGED <<service, taskQueue, handed>>

\* ProcessQueue takes the first callback and runs it without a lock.
BeginCallback(a) ==
    /\ pc[a] = "process"
    /\ ~m_are_callbacks_running /\ m_callbacks_pending # <<>>
    /\ m_are_callbacks_running' = TRUE
    /\ holds' = [holds EXCEPT ![a] = Head(m_callbacks_pending)]
    /\ m_callbacks_pending' = Tail(m_callbacks_pending)
    /\ pc' = [pc EXCEPT ![a] = "callback"]
    /\ UNCHANGED <<service, taskQueue, handed>>

\* The callback returns or throws, and ~RAIICallbacksRunning follows.
EndCallback(a) ==
    /\ pc[a] = "callback"
    /\ m_are_callbacks_running' = FALSE
    /\ holds' = [holds EXCEPT ![a] = Nothing]
    /\ pc' = [pc EXCEPT ![a] = "maybe"]
    /\ UNCHANGED <<service, taskQueue, m_callbacks_pending, handed>>

-----------------------------------------------------------------------------
(* The end: stop, or the interruption of Interrupt, and then Shutdown. *)

still == <<now, queueVars, clientVars, deadline, holds, handed>>

\* CScheduler::stop.
Stop(drain) ==
    /\ pc[Main] = "out"
    /\ stopWhenEmpty' = (stopWhenEmpty \/ drain)
    /\ stopRequested' = (stopRequested \/ ~drain)
    /\ pc' = [pc EXCEPT ![Main] = "notifyAll"]
    /\ UNCHANGED <<still, interrupted>>

NotifyAll_Nobody ==
    /\ pc[Main] = "notifyAll"
    /\ pc' = [pc EXCEPT ![Main] = "join"]
    /\ UNCHANGED <<still, stopVars>>

NotifyAll ==
    /\ pc[Main] = "notifyAll"
    /\ pc' = [Wake(pc, Asleep) EXCEPT ![Main] = "join"]
    /\ UNCHANGED <<still, stopVars>>

\* Interrupt, called when the node is asked to shut down.
InterruptAll ==
    /\ pc[Main] = "out"
    /\ interrupted' = TRUE
    /\ pc' = [pc EXCEPT ![Main] = "join"]
    /\ UNCHANGED <<still, stopRequested, stopWhenEmpty>>

\* A thread finds out where it waits or sleeps; it notifies nobody.
Interrupted(t) ==
    /\ interrupted /\ pc[t] \in {"seed", "wait", "timed", "woken", "early"}
    /\ nThreadsServicingQueue' = nThreadsServicingQueue - 1
    /\ pc' = [pc EXCEPT ![t] = "done"]
    /\ deadline' = [deadline EXCEPT ![t] = 0]
    /\ UNCHANGED <<taskQueue, holds, others>>

\* join_all, and EmptyQueue, called by Shutdown.
Join ==
    /\ pc[Main] = "join" /\ \A t \in Threads : pc[t] = "done"
    /\ pc' = [pc EXCEPT ![Main] = "process"]
    /\ UNCHANGED <<still, stopVars>>

Recheck_Never ==
    /\ pc[Main] = "recheck"
    /\ pc' = [pc EXCEPT ![Main] = "flushed"]
    /\ UNCHANGED <<still, stopVars>>

Recheck ==
    /\ pc[Main] = "recheck"
    /\ pc' = [pc EXCEPT ![Main] = IF m_callbacks_pending = <<>> THEN "flushed" ELSE "process"]
    /\ UNCHANGED <<still, stopVars>>

-----------------------------------------------------------------------------
\* A condition variable may wake a thread for no reason.
SpuriousWakeup(t) ==
    /\ t \in Asleep
    /\ pc' = Wake(pc, {t})
    /\ UNCHANGED <<now, queueVars, stopVars, clientVars, deadline, holds, handed>>

Tick == /\ now < MaxTime
        /\ now' = now + 1
        /\ UNCHANGED <<queueVars, stopVars, clientVars, pc, deadline, holds, handed>>

Service(t) == \/ StartThread(t) \/ OuterLoop(t) \/ WaitForTask(t) \/ WaitForTime(t)
              \/ JobEnds(t)
Timeout(t) == TakeTask(t) \/ TimeoutForNothing(t)
Client(a)  == \/ MaybeScheduleProcessQueue(a) \/ ScheduleProcessQueue(a) \/ Notify(a)
              \/ SkipCallback(a) \/ BeginCallback(a) \/ EndCallback(a)
Produce(p) == \/ \E j \in Jobs, delta \in Delays, repeat \in BOOLEAN : ScheduleJob(p, j, delta, repeat)
              \/ \E c \in Callbacks : AddToProcessQueue(p, c)
Finish     == NotifyAll \/ Join \/ Recheck

Next == \/ \E t \in Threads : Service(t) \/ Timeout(t) \/ Interrupted(t) \/ SpuriousWakeup(t)
        \/ \E a \in Actors : Client(a)
        \/ \E p \in Producers : Produce(p)
        \/ \E drain \in BOOLEAN : Stop(drain)
        \/ InterruptAll \/ Finish \/ Tick

Spec == Init /\ [][Next]_vars

\* Time passes, threads go on, tasks and callbacks return.
FairSpec == /\ Spec /\ WF_vars(Tick) /\ WF_vars(Finish \/ Client(Main))
            /\ \A t \in Threads : /\ WF_vars(Service(t) \/ Client(t))
                                  /\ WF_vars(Timeout(t)) /\ WF_vars(Interrupted(t))
            /\ \A p \in Producers : WF_vars(Client(p))

-----------------------------------------------------------------------------
Places == {"new", "again", "seed", "wait", "woken", "timed", "early", "job", "process",
           "callback", "maybe", "schedule", "notify", "done",
           "out", "notifyAll", "join", "recheck", "flushed"}

\* Every variable holds a value of its type, and the queue is in the order of time.
TypeOK ==
    /\ now \in 0..MaxTime
    /\ taskQueue \in Seq([at : Nat, task : Tasks])
    /\ \A i, j \in 1..Len(taskQueue) : i < j => taskQueue[i].at <= taskQueue[j].at
    /\ nThreadsServicingQueue = Cardinality({t \in Threads : pc[t] \notin {"new", "done"}})
    /\ {stopRequested, stopWhenEmpty, interrupted, m_are_callbacks_running} \subseteq BOOLEAN
    /\ m_callbacks_pending \in Seq(Callbacks)
    /\ pc \in [Actors -> Places] /\ deadline \in [Threads -> Nat]
    /\ holds \in [Actors -> Jobs \cup Callbacks \cup {Nothing}]
    /\ unused \subseteq Jobs \cup Callbacks /\ every \in [Jobs -> Delays \cup {0}]

\* "no two jobs will be executed at the same time" and "must ensure all callbacks
\* happen in-order": the client is a serial queue, with any number of threads.
Serial == INSTANCE SerialQueue WITH
              pending <- m_callbacks_pending,
              running <- {holds[a] : a \in {b \in Actors : pc[b] = "callback"}}
ImplementsSerialQueue == Serial!Spec

\* The callbacks that are added before the last look of EmptyQueue all run, whether
\* the threads serve on, stop in the middle or are interrupted.
CallbacksRun ==
    m_callbacks_pending # <<>> /\ pc[Main] # "flushed" ~> m_callbacks_pending = <<>>

Waits(j, d) == \E i \in 1..Len(taskQueue) : taskQueue[i] = [at |-> d, task |-> j]

\* A task whose time comes is run, unless the scheduler is told to stop at once or
\* has stopped.
DueTasksRun ==
    \A j \in Jobs, d \in 1..MaxTime :
        Waits(j, d) ~> \/ ~Waits(j, d) \/ stopRequested \/ interrupted
                       \/ \A t \in Threads : pc[t] = "done"

\* Every call of stop, and the interruption, ends the threads and lets EmptyQueue
\* return; only a drain goes on for as long as there are jobs that repeat.
StopEnds ==
    pc[Main] = "join" ~> pc[Main] = "flushed" \/ (stopWhenEmpty /\ \E j \in Jobs : every[j] > 0)
=============================================================================
