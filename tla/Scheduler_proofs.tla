-------------------------- MODULE Scheduler_proofs --------------------------
(***************************************************************************)
(* Proof that SingleThreadedSchedulerClient is a serial queue for every    *)
(* number of service threads, producers, jobs and callbacks, whatever is   *)
(* woken, interrupted or stopped in between.                               *)
(***************************************************************************)
EXTENDS Scheduler, TLAPS

\* Most steps are first-order and left to Zenon; those that need more name SMT.
USE Zenon

\* The actors inside a callback.
Inside == {a \in Actors : pc[a] = "callback"}

\* The refinement needs to know that the flag m_are_callbacks_running tells
\* exactly when some thread is inside a callback, and that it is never two.
SerialInv ==
    /\ DOMAIN pc = Actors /\ DOMAIN holds = Actors
    /\ m_callbacks_pending \in Seq(Callbacks)
    /\ m_are_callbacks_running \in BOOLEAN
    /\ m_are_callbacks_running <=> Inside # {}
    /\ \A a, b \in Inside : a = b

\* What a step must leave alone to be invisible to the client of the queue.
Invisible ==
    /\ DOMAIN pc' = Actors /\ DOMAIN holds' = Actors
    /\ UNCHANGED clientVars
    /\ \A a \in Actors : pc'[a] = "callback" <=> pc[a] = "callback"
    /\ \A a \in Inside : holds'[a] = holds[a]

\* A step that leaves those alone keeps the invariant and stutters.
LEMMA InvisibleStutters ==
    ASSUME SerialInv, Invisible
    PROVE  SerialInv' /\ UNCHANGED Serial!vars
  <1>1. Inside' = Inside
    BY DEF Invisible, Inside
  <1>2. {holds[a] : a \in Inside}' = {holds[a] : a \in Inside}
    BY <1>1 DEF Invisible
  <1>. QED
    BY <1>1, <1>2 DEF Invisible, SerialInv, clientVars, Serial!vars, Inside

\* Waking threads that sleep moves nobody into or out of a callback.
LEMMA WakeIsInvisible ==
    ASSUME SerialInv, NEW W \in SUBSET Asleep
    PROVE  /\ DOMAIN Wake(pc, W) = Actors
           /\ \A a \in Actors : Wake(pc, W)[a] = "callback" <=> pc[a] = "callback"
  BY DEF Wake, Asleep

\* notify_one wakes only threads that sleep.
LEMMA NotifiedSleep ==
    ASSUME NEW a \in Actors, NEW W \in NotifyOne(a)
    PROVE  W \in SUBSET Asleep
  BY SMT DEF NotifyOne

\* The ways in which a service thread goes on in serviceQueue.
LEMMA ServiceIsInvisible ==
    ASSUME SerialInv, NEW t \in Threads, pc[t] # "callback",
           Exit(t) \/ WaitUntil(t) \/ GoTo(t, "seed") \/ GoTo(t, "wait"),
           UNCHANGED <<holds, others>>
    PROVE  Invisible
  <1>0. t \in Actors
    BY DEF Actors
  <1>1. CASE Exit(t)
    <2>1. PICK W \in NotifyOne(t) : pc' = [Wake(pc, W) EXCEPT ![t] = "done"]
      BY <1>1 DEF Exit
    <2>. QED
      BY <1>0, <2>1, NotifiedSleep, WakeIsInvisible DEF Invisible, SerialInv, others, clientVars, Inside
  <1>2. CASE WaitUntil(t) \/ GoTo(t, "seed") \/ GoTo(t, "wait")
    BY <1>0, <1>2 DEF WaitUntil, GoTo, Invisible, SerialInv, others, clientVars, Inside
  <1>. QED
    BY <1>1, <1>2

\* Everything a service thread does, up to taking a task, and the task itself.
LEMMA ThreadIsInvisible ==
    ASSUME SerialInv, NEW t \in Threads,
           Service(t) \/ Timeout(t) \/ Interrupted(t) \/ SpuriousWakeup(t)
    PROVE  Invisible
  <1>0. t \in Actors
    BY DEF Actors
  <1>. USE DEF SerialInv, Invisible, Inside, others, clientVars
  <1>1. CASE StartThread(t)
    BY <1>0, <1>1 DEF StartThread
  <1>2. CASE OuterLoop(t) \/ WaitForTask(t) \/ WaitForTime(t)
    <2>1. pc[t] # "callback" /\ UNCHANGED <<holds, others>>
      BY <1>2 DEF OuterLoop, WaitForTask, WaitForTime
    <2>2. Exit(t) \/ WaitUntil(t) \/ GoTo(t, "seed") \/ GoTo(t, "wait")
      BY <1>2 DEF OuterLoop, WaitForTask, WaitForTime
    <2>. QED
      BY <2>1, <2>2, ServiceIsInvisible
  <1>3. CASE JobEnds(t)
    BY <1>0, <1>3 DEF JobEnds
  <1>4. CASE TakeTask(t)
    BY <1>0, <1>4 DEF TakeTask, TimedOut
  <1>5. CASE TimeoutForNothing(t)
    <2>1. pc[t] # "callback" /\ UNCHANGED <<holds, others>>
      BY <1>5 DEF TimeoutForNothing, TimedOut
    <2>2. Exit(t) \/ GoTo(t, "seed")
      BY <1>5 DEF TimeoutForNothing
    <2>. QED
      BY <2>1, <2>2, ServiceIsInvisible
  <1>6. CASE Interrupted(t)
    BY <1>0, <1>6 DEF Interrupted
  <1>7. CASE SpuriousWakeup(t)
    <2>1. pc' = Wake(pc, {t}) /\ {t} \in SUBSET Asleep /\ UNCHANGED <<clientVars, holds>>
      BY <1>7 DEF SpuriousWakeup
    <2>. QED
      BY <2>1, WakeIsInvisible
  <1>. QED
    BY <1>1, <1>2, <1>3, <1>4, <1>5, <1>6, <1>7 DEF Service, Timeout

\* The places at which an actor goes on are outside of a callback.
LEMMA BackIsOutside ==
    ASSUME NEW a \in Actors
    PROVE  Back(a) # "callback"
  BY DEF Back

\* What the client does besides adding, beginning and ending a callback.
LEMMA LookingIsInvisible ==
    ASSUME SerialInv, NEW a \in Actors,
           \/ MaybeScheduleProcessQueue(a) \/ ScheduleProcessQueue(a)
           \/ Notify(a) \/ SkipCallback(a)
    PROVE  Invisible
  <1>. USE BackIsOutside DEF SerialInv, Invisible, Inside, clientVars
  <1>1. CASE MaybeScheduleProcessQueue(a)
    BY <1>1 DEF MaybeScheduleProcessQueue
  <1>2. CASE ScheduleProcessQueue(a)
    BY <1>2 DEF ScheduleProcessQueue
  <1>3. CASE Notify(a)
    <2>1. PICK W \in NotifyOne(a) : pc' = [Wake(pc, W) EXCEPT ![a] = Back(a)]
      BY <1>3 DEF Notify
    <2>2. pc[a] # "callback" /\ UNCHANGED <<clientVars, holds>>
      BY <1>3 DEF Notify
    <2>. QED
      BY <2>1, <2>2, NotifiedSleep, WakeIsInvisible
  <1>4. CASE SkipCallback(a)
    BY <1>4 DEF SkipCallback
  <1>. QED
    BY <1>1, <1>2, <1>3, <1>4

\* The main thread, a producer that schedules a job, and the clock.
LEMMA StoppingIsInvisible ==
    ASSUME SerialInv,
           \/ \E p \in Producers, j \in Jobs, delta \in Delays, repeat \in BOOLEAN :
                 ScheduleJob(p, j, delta, repeat)
           \/ \E drain \in BOOLEAN : Stop(drain)
           \/ InterruptAll \/ Finish \/ Tick
    PROVE  Invisible
  <1>0. Main \in Actors /\ Producers \subseteq Actors
    BY DEF Actors
  <1>. USE DEF SerialInv, Invisible, Inside, clientVars, still
  <1>1. ASSUME NEW p \in Producers, NEW j \in Jobs, NEW delta \in Delays, NEW repeat \in BOOLEAN,
               ScheduleJob(p, j, delta, repeat)
        PROVE  Invisible
    BY <1>0, <1>1 DEF ScheduleJob
  <1>2. ASSUME NEW drain \in BOOLEAN, Stop(drain) PROVE Invisible
    BY <1>0, <1>2 DEF Stop
  <1>3. CASE InterruptAll
    BY <1>0, <1>3 DEF InterruptAll
  <1>4. CASE NotifyAll
    <2>1. /\ pc[Main] # "callback" /\ UNCHANGED <<clientVars, holds>>
          /\ pc' = [Wake(pc, Asleep) EXCEPT ![Main] = "join"]
      BY <1>4 DEF NotifyAll
    <2>. QED
      BY <1>0, <2>1, WakeIsInvisible
  <1>5. CASE Join \/ Recheck
    BY <1>0, <1>5 DEF Join, Recheck
  <1>6. CASE Tick
    BY <1>6 DEF Tick
  <1>. QED
    BY <1>1, <1>2, <1>3, <1>4, <1>5, <1>6 DEF Finish

\* AddToProcessQueue puts the callback at the end of the serial queue.
LEMMA AddIsAdd ==
    ASSUME SerialInv, NEW p \in Producers, NEW c \in Callbacks, AddToProcessQueue(p, c)
    PROVE  SerialInv' /\ Serial!Add(c)
  <1>1. /\ p \in Actors /\ pc[p] # "callback" /\ pc' = [pc EXCEPT ![p] = "maybe"]
        /\ m_callbacks_pending' = Append(m_callbacks_pending, c)
        /\ UNCHANGED <<m_are_callbacks_running, holds>>
    BY DEF AddToProcessQueue, Actors
  <1>2. Inside' = Inside /\ DOMAIN pc' = Actors
    BY <1>1 DEF Inside, SerialInv
  <1>3. m_callbacks_pending' \in Seq(Callbacks)
    BY <1>1, SMT DEF SerialInv
  <1>4. SerialInv'
    BY <1>1, <1>2, <1>3 DEF SerialInv
  <1>5. {holds[a] : a \in Inside}' = {holds[a] : a \in Inside}
    BY <1>1, <1>2
  <1>. QED
    BY <1>1, <1>4, <1>5 DEF Serial!Add, Inside

\* ProcessQueue begins the oldest callback, and only when none is running.
LEMMA BeginIsBegin ==
    ASSUME SerialInv, NEW a \in Actors, BeginCallback(a)
    PROVE  SerialInv' /\ Serial!Begin
  <1>1. /\ ~m_are_callbacks_running /\ m_are_callbacks_running' = TRUE
        /\ m_callbacks_pending # <<>> /\ m_callbacks_pending' = Tail(m_callbacks_pending)
        /\ pc' = [pc EXCEPT ![a] = "callback"]
        /\ holds' = [holds EXCEPT ![a] = Head(m_callbacks_pending)]
    BY DEF BeginCallback
  <1>2. Inside = {}
    BY <1>1 DEF SerialInv
  <1>3. Inside' = {a} /\ DOMAIN pc' = Actors /\ DOMAIN holds' = Actors
    BY <1>1, <1>2 DEF Inside, SerialInv
  <1>4. m_callbacks_pending' \in Seq(Callbacks)
    BY <1>1, SMT DEF SerialInv
  <1>5. SerialInv'
    BY <1>1, <1>3, <1>4 DEF SerialInv
  <1>6. holds'[a] = Head(m_callbacks_pending)
    BY <1>1 DEF SerialInv
  <1>7. {holds[b] : b \in Inside}' = {Head(m_callbacks_pending)}
    BY <1>3, <1>6
  <1>8. {holds[b] : b \in Inside} = {}
    BY <1>2
  <1>. QED
    BY <1>1, <1>5, <1>7, <1>8 DEF Serial!Begin, Inside

\* The end of a callback, by return or by exception, is the end of the only one.
LEMMA EndIsEnd ==
    ASSUME SerialInv, NEW a \in Actors, EndCallback(a)
    PROVE  SerialInv' /\ Serial!End
  <1>1. /\ a \in Inside /\ m_are_callbacks_running' = FALSE
        /\ pc' = [pc EXCEPT ![a] = "maybe"] /\ holds' = [holds EXCEPT ![a] = Nothing]
        /\ UNCHANGED m_callbacks_pending
    BY DEF EndCallback, Inside
  <1>2. \A b \in Inside : b = a
    BY <1>1 DEF SerialInv
  <1>3. Inside' = {} /\ DOMAIN pc' = Actors /\ DOMAIN holds' = Actors
    BY <1>1, <1>2 DEF Inside, SerialInv
  <1>4. SerialInv'
    BY <1>1, <1>3 DEF SerialInv
  <1>5. {holds[b] : b \in Inside} # {} /\ {holds[b] : b \in Inside}' = {}
    BY <1>1, <1>3
  <1>. QED
    BY <1>1, <1>4, <1>5 DEF Serial!End, Inside

\* One step of any actor is a step of the serial queue or none.
LEMMA SerialStep == SerialInv /\ [Next]_vars => SerialInv' /\ [Serial!Next]_(Serial!vars)
  <1>. SUFFICES ASSUME SerialInv, [Next]_vars
                PROVE  SerialInv' /\ [Serial!Next]_(Serial!vars)
    OBVIOUS
  <1>1. CASE UNCHANGED vars
    <2>1. Invisible
      BY <1>1 DEF vars, Invisible, SerialInv, clientVars
    <2>. QED
      BY <2>1, InvisibleStutters
  <1>2. ASSUME NEW t \in Threads, Service(t) \/ Timeout(t) \/ Interrupted(t) \/ SpuriousWakeup(t)
        PROVE  SerialInv' /\ [Serial!Next]_(Serial!vars)
    BY <1>2, ThreadIsInvisible, InvisibleStutters
  <1>3. ASSUME NEW a \in Actors, Client(a)
        PROVE  SerialInv' /\ [Serial!Next]_(Serial!vars)
    <2>1. CASE BeginCallback(a)
      BY <2>1, BeginIsBegin DEF Serial!Next
    <2>2. CASE EndCallback(a)
      BY <2>2, EndIsEnd DEF Serial!Next
    <2>3. CASE \/ MaybeScheduleProcessQueue(a) \/ ScheduleProcessQueue(a)
               \/ Notify(a) \/ SkipCallback(a)
      BY <2>3, LookingIsInvisible, InvisibleStutters
    <2>. QED
      BY <1>3, <2>1, <2>2, <2>3 DEF Client
  <1>4. ASSUME NEW p \in Producers, NEW c \in Callbacks, AddToProcessQueue(p, c)
        PROVE  SerialInv' /\ [Serial!Next]_(Serial!vars)
    BY <1>4, AddIsAdd DEF Serial!Next
  <1>5. CASE \/ \E p \in Producers, j \in Jobs, delta \in Delays, repeat \in BOOLEAN :
                   ScheduleJob(p, j, delta, repeat)
             \/ \E drain \in BOOLEAN : Stop(drain)
             \/ InterruptAll \/ Finish \/ Tick
    BY <1>5, StoppingIsInvisible, InvisibleStutters
  <1>. QED
    BY <1>1, <1>2, <1>3, <1>4, <1>5 DEF Next, Produce

\* Nobody is inside a callback at first.
LEMMA SerialInitially == Init => SerialInv /\ Serial!Init
  <1>. SUFFICES ASSUME Init PROVE SerialInv /\ Serial!Init
    OBVIOUS
  <1>1. Inside = {}
    BY DEF Init, Inside
  <1>2. {holds[a] : a \in Inside} = {}
    BY <1>1
  <1>3. DOMAIN pc = Actors /\ DOMAIN holds = Actors /\ m_callbacks_pending = <<>>
    BY DEF Init
  <1>4. <<>> \in Seq(Callbacks)
    BY SMT
  <1>5. SerialInv
    BY <1>1, <1>3, <1>4 DEF Init, SerialInv
  <1>6. Serial!Init
    BY <1>2, <1>3 DEF Serial!Init, Inside
  <1>. QED
    BY <1>5, <1>6

\* "no two jobs will be executed at the same time" and "must ensure all callbacks
\* happen in-order" (SingleThreadedSchedulerClient): with any number of service
\* threads and producers, with spurious wake-ups, interruption and EmptyQueue on the
\* main thread, callbacks run one at a time, oldest first, each of them once.
THEOREM ClientIsSerial == Spec => ImplementsSerialQueue
  BY SerialInitially, SerialStep, PTL DEF Spec, ImplementsSerialQueue, Serial!Spec
=============================================================================
