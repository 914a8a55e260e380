------------------------- MODULE CheckQueue_proofs -------------------------
(***************************************************************************)
(* For any number of threads and checks, any batch size and however often  *)
(* the queue is used: Wait answers for exactly the checks of its caller,   *)
(* and the queue is empty and clean when nobody owns it.                   *)
(***************************************************************************)
EXTENDS CheckQueue, FiniteSetTheorems, TLAPS

\* Most steps are first-order and left to Zenon; those that need more name SMT.
USE Zenon

\* The owner is between Enter and the return of its Wait.
Open == control # None /\ pc[control] # "returned"

Types ==
    /\ queue \subseteq Checks /\ added \subseteq Checks
    /\ batch \in [Threads -> SUBSET Checks]
    /\ DOMAIN pc = Threads
    /\ fOk \in [Threads -> BOOLEAN]
    /\ fAllOk \in BOOLEAN /\ verdict \in BOOLEAN
    /\ control \in Masters \cup {None}

\* A thread holds a batch exactly while it works on it or has yet to account for
\* it, and exactly one master is not outside, the owner.
Places ==
    /\ \A t \in Threads : batch[t] # {} <=> pc[t] \in {"work", "again"}
    /\ \A w \in Workers : pc[w] \notin {"out", "adding", "returned"}
    /\ \A m \in Masters : pc[m] # "out" <=> control = m

\* What the verdicts so far say: a TRUE vouches for the checks accounted for, a
\* FALSE is due to one of the caller's own checks.
Verdicts ==
    /\ Open /\ fAllOk => added \ Unfinished \subseteq Valid
    /\ \A t \in Threads : pc[t] = "again" /\ fOk[t] => batch[t] \subseteq Valid
    /\ ~fAllOk => ~(added \subseteq Valid)
    /\ \A t \in Threads : pc[t] \in {"work", "again"} /\ ~fOk[t] => ~(added \subseteq Valid)

QueueInv ==
    /\ Types /\ Places /\ Verdicts
    /\ TodoExact
    /\ Unfinished \subseteq added
    /\ ~Open => Unfinished = {} /\ fAllOk
    /\ VerdictExact

\* The queue starts empty.
LEMMA EmptyQueue == Init => QueueInv
  <1> SUFFICES ASSUME Init PROVE QueueInv
    OBVIOUS
  <1>1. Unfinished = {}
    BY DEF Init, Unfinished
  <1>2. nTodo = Cardinality(Unfinished)
    BY <1>1, FS_EmptySet DEF Init
  <1> QED
    BY <1>1, <1>2, QueueAssumption
       DEF Init, QueueInv, Types, Places, Verdicts, TodoExact, Open, VerdictExact, Threads

\* What is left when t has accounted for its batch, and what the verdict is then.
LEMMA Accounted ==
    ASSUME QueueInv, NEW t \in Threads, Locks(t)
    PROVE  /\ Todo(t) = Cardinality(Unfinished \ batch[t])
           /\ AllOk(t) \in BOOLEAN
           /\ Open /\ AllOk(t) => added \ (Unfinished \ batch[t]) \subseteq Valid
           /\ ~AllOk(t) => ~(added \subseteq Valid)
           /\ ~Open => AllOk(t) /\ batch[t] = {}
  <1>1. IsFiniteSet(Unfinished) /\ batch[t] \subseteq Unfinished
    <2>1. Unfinished \subseteq Checks
      BY DEF QueueInv, Types
    <2> QED  BY <2>1, FS_Subset, QueueAssumption DEF Unfinished
  <1>2. /\ Cardinality(Unfinished) \in Nat /\ Cardinality(batch[t]) \in Nat
        /\ Cardinality(Unfinished \ batch[t]) = Cardinality(Unfinished) - Cardinality(batch[t])
    <2>1. IsFiniteSet(batch[t]) /\ Unfinished \cap batch[t] = batch[t]
      BY <1>1, FS_Subset
    <2> QED  BY <1>1, <2>1, FS_Difference, FS_CardinalityType
  <1>3. Todo(t) = Cardinality(Unfinished \ batch[t])
    BY <1>2 DEF Todo, QueueInv, TodoExact
  <1>4. CASE pc[t] = "again"
    BY <1>3, <1>4, <1>1 DEF AllOk, QueueInv, Types, Places, Verdicts
  <1>5. CASE pc[t] # "again"
    <2>1. batch[t] = {} /\ AllOk(t) = fAllOk
      BY <1>5 DEF Locks, AllOk, QueueInv, Places
    <2> QED  BY <1>3, <2>1 DEF QueueInv, Types, Verdicts
  <1> QED  BY <1>4, <1>5

\* A notification moves sleeping threads only, and only to where they wake up.
Nudged(u) == pc'[u] = pc[u] \/ (pc[u] = "waiting" /\ pc'[u] = "woken")

\* A step that moves threads without checks between places that count the same.
LEMMA PassiveStep ==
    ASSUME QueueInv,
           UNCHANGED <<queue, batch, fOk, fAllOk, nTodo, added, verdict, control>>,
           DOMAIN pc' = Threads,
           \A t \in Threads :
              \/ pc'[t] = pc[t]
              \/ /\ pc[t] \in {"adding", "waiting", "woken"}
                 /\ pc'[t] \in {"first", "woken", "gone"}
    PROVE  QueueInv'
  <1>1. Unfinished' = Unfinished
    BY DEF Unfinished
  <1>2. Types'
    BY DEF QueueInv, Types
  <1>3. Places'
    BY DEF QueueInv, Places, Threads
  <1>4. Open' <=> Open
    BY QueueAssumption DEF QueueInv, Types, Open, Threads
  <1>5. Verdicts'
    BY <1>1, <1>4 DEF QueueInv, Types, Verdicts
  <1>6. TodoExact' /\ (Unfinished \subseteq added)'
    BY <1>1 DEF QueueInv, TodoExact
  <1>7. VerdictExact'
    BY DEF QueueInv, VerdictExact, Threads
  <1> QED  BY <1>1, <1>2, <1>3, <1>4, <1>5, <1>6, <1>7 DEF QueueInv

\* Take and Sleep: t accounts for its batch and leaves with the checks S of the
\* queue, or goes to sleep with none.
LEMMA LoopStep ==
    ASSUME QueueInv, NEW t \in Threads, Locks(t), NEW S \in SUBSET queue,
           queue' = queue \ S, batch' = [batch EXCEPT ![t] = S],
           fAllOk' = AllOk(t), nTodo' = Todo(t),
           UNCHANGED <<added, verdict, control>>,
           DOMAIN pc' = Threads,
           \A u \in Threads \ {t} : Nudged(u),
           \/ S # {} /\ pc'[t] = "work" /\ fOk' = [fOk EXCEPT ![t] = fAllOk']
           \/ S = {} /\ pc'[t] = "waiting" /\ fOk' = fOk
    PROVE  QueueInv'
  <1> DEFINE rest == Unfinished \ batch[t]
  <1>0. /\ nTodo' = Cardinality(rest) /\ fAllOk' \in BOOLEAN
        /\ Open /\ fAllOk' => added \ rest \subseteq Valid
        /\ ~fAllOk' => ~(added \subseteq Valid)
        /\ ~Open => fAllOk' /\ batch[t] = {}
    BY Accounted
  <1>1. /\ batch'[t] = S /\ \A u \in Threads \ {t} : batch'[u] = batch[u]
        /\ batch' \in [Threads -> SUBSET Checks]
    BY DEF QueueInv, Types
  <1>2. Unfinished' = rest
    BY <1>1, SMT DEF Unfinished, QueueInv, TodoExact
  <1>3. Types'
    BY <1>0, <1>1 DEF QueueInv, Types
  <1>4. Places'
    BY <1>1, SMT DEF QueueInv, Places, Nudged, Locks, Threads
  <1>5. Open' <=> Open
    BY QueueAssumption DEF QueueInv, Types, Open, Threads, Nudged, Locks
  <1>6. Verdicts'
    <2>1. (Open /\ fAllOk => added \ Unfinished \subseteq Valid)'
      BY <1>0, <1>2, <1>5
    <2>2. \A u \in Threads : pc'[u] = "again" /\ fOk'[u] => batch'[u] \subseteq Valid
      BY <1>1, SMT DEF QueueInv, Types, Verdicts, Nudged
    <2>3. \A u \in Threads : pc'[u] \in {"work", "again"} /\ ~fOk'[u] => ~(added \subseteq Valid)
      BY <1>0 DEF QueueInv, Types, Verdicts, Nudged
    <2> QED  BY <1>0, <2>1, <2>2, <2>3 DEF Verdicts
  <1>7. TodoExact'
    <2>1. \A u \in Threads : (batch[u] \cap queue = {})'
      BY <1>1 DEF QueueInv, TodoExact
    <2>2. \A u, v \in Threads : u # v => (batch[u] \cap batch[v] = {})'
      BY <1>1, SMT DEF QueueInv, TodoExact
    <2> QED  BY <1>0, <1>2, <2>1, <2>2 DEF TodoExact
  <1>8. VerdictExact'
    BY DEF QueueInv, VerdictExact, Threads, Nudged
  <1> QED
    BY <1>0, <1>2, <1>3, <1>4, <1>5, <1>6, <1>7, <1>8 DEF QueueInv

\* The threads in Loop.
LEMMA StepKeepsInv ==
    ASSUME QueueInv, NEW t \in Threads, Step(t) \/ SpuriousWakeup(t)
    PROVE  QueueInv'
  <1>1. ASSUME NEW W \in ToNotify(t), NEW x, pc' = [Woken(pc, W) EXCEPT ![t] = x]
        PROVE  DOMAIN pc' = Threads /\ pc'[t] = x /\ \A u \in Threads \ {t} : Nudged(u)
    <2>1. W \subseteq Asleep(Masters)
      BY DEF ToNotify, NotifyOne
    <2> QED  BY <1>1, <2>1 DEF Woken, Nudged, Asleep
  <1>2. CASE Take(t)
    <2>1. PICK S \in SUBSET queue : /\ Cardinality(S) = BatchSize(t)
                                    /\ queue' = queue \ S
                                    /\ batch' = [batch EXCEPT ![t] = S]
      BY <1>2 DEF Take
    <2>2. S # {}
      <3>1. BatchSize(t) # 0
        BY SMT DEF BatchSize
      <3> QED  BY <2>1, <3>1, FS_EmptySet
    <2>3. PICK W \in ToNotify(t) : pc' = [Woken(pc, W) EXCEPT ![t] = "work"]
      BY <1>2 DEF Take
    <2>4. DOMAIN pc' = Threads /\ pc'[t] = "work" /\ \A u \in Threads \ {t} : Nudged(u)
      BY <1>1, <2>3
    <2>5. /\ Locks(t) /\ fAllOk' = AllOk(t) /\ nTodo' = Todo(t)
          /\ fOk' = [fOk EXCEPT ![t] = fAllOk'] /\ UNCHANGED <<added, verdict, control>>
      BY <1>2 DEF Take, roundVars
    <2> QED  BY <2>1, <2>2, <2>4, <2>5, LoopStep
  <1>3. CASE Sleep(t)
    <2>1. PICK W \in ToNotify(t) : pc' = [Woken(pc, W) EXCEPT ![t] = "waiting"]
      BY <1>3 DEF Sleep
    <2>2. DOMAIN pc' = Threads /\ pc'[t] = "waiting" /\ \A u \in Threads \ {t} : Nudged(u)
      BY <1>1, <2>1
    <2>3. /\ Locks(t) /\ fAllOk' = AllOk(t) /\ nTodo' = Todo(t) /\ fOk' = fOk
          /\ queue' = queue \ {} /\ batch' = [batch EXCEPT ![t] = {}]
          /\ UNCHANGED <<added, verdict, control>>
      BY <1>3 DEF Sleep, roundVars
    <2> QED  BY <2>2, <2>3, LoopStep
  <1>4. CASE Work(t)
    <2>1. /\ pc[t] = "work" /\ pc' = [pc EXCEPT ![t] = "again"]
          /\ fOk' = [fOk EXCEPT ![t] = @ /\ batch[t] \subseteq Valid]
          /\ UNCHANGED <<queue, batch, fAllOk, nTodo, added, verdict, control>>
      BY <1>4 DEF Work, queueVars, roundVars
    <2>2. Unfinished' = Unfinished
      BY <2>1 DEF Unfinished
    <2>3. /\ Types' /\ Places' /\ (Open' <=> Open) /\ VerdictExact'
      BY <2>1, QueueAssumption
         DEF QueueInv, Types, Places, Open, VerdictExact, Threads
    <2>4. batch[t] \subseteq added
      BY DEF QueueInv, Unfinished
    <2>5. Verdicts'
      BY <2>1, <2>2, <2>3, <2>4 DEF QueueInv, Types, Verdicts
    <2>6. TodoExact'
      BY <2>1, <2>2 DEF QueueInv, TodoExact
    <2> QED  BY <2>1, <2>2, <2>3, <2>5, <2>6 DEF QueueInv
  <1>5. CASE SpuriousWakeup(t)
    BY <1>5, PassiveStep DEF SpuriousWakeup, queueVars, roundVars, QueueInv, Types
  <1> QED  BY <1>2, <1>3, <1>4, <1>5 DEF Step

\* The master outside Loop, and its return from it.
LEMMA ControlKeepsInv ==
    ASSUME QueueInv, NEW m \in Masters, Control(m)
    PROVE  QueueInv'
  <1>0. m \in Threads /\ m # None
    BY QueueAssumption DEF Threads
  <1>1. CASE Enter(m)
    <2>1. /\ control = None /\ control' = m /\ added' = {} /\ pc[m] = "out"
          /\ pc' = [pc EXCEPT ![m] = "adding"]
          /\ UNCHANGED <<queue, batch, fOk, fAllOk, nTodo, verdict>>
      BY <1>1 DEF Enter, queueVars
    <2>2. Unfinished' = {} /\ Unfinished = {} /\ fAllOk
      BY <2>1 DEF Unfinished, QueueInv, Open
    <2>3. \A t \in Threads : batch[t] = {}
      BY <2>2 DEF Unfinished
    <2>4. Types' /\ Places' /\ VerdictExact' /\ Open'
      BY <1>0, <2>1, QueueAssumption
         DEF QueueInv, Types, Places, VerdictExact, Open, Threads
    <2>5. Verdicts'
      BY <1>0, <2>1, <2>2, <2>3, <2>4 DEF QueueInv, Places, Verdicts
    <2>6. TodoExact'
      BY <2>1, <2>2 DEF QueueInv, TodoExact
    <2> QED  BY <2>1, <2>2, <2>4, <2>5, <2>6 DEF QueueInv
  <1>2. CASE Wait(m)
    BY <1>2, PassiveStep DEF Wait, queueVars, roundVars, QueueInv, Types
  <1>3. CASE Return(m)
    <2>1. /\ Locks(m) /\ queue = {} /\ Todo(m) = 0 /\ verdict' = AllOk(m)
          /\ fAllOk' = TRUE /\ nTodo' = Todo(m) /\ batch' = [batch EXCEPT ![m] = {}]
          /\ pc' = [pc EXCEPT ![m] = "returned"]
          /\ UNCHANGED <<queue, control, fOk, added>>
      BY <1>3 DEF Return
    <2>2. Open /\ control = m /\ ~Open'
      BY <1>0, <2>1, SMT DEF Locks, Open, QueueInv, Types, Places
    <2>3. Unfinished \ batch[m] = {}
      <3>1. IsFiniteSet(Unfinished \ batch[m])
        BY FS_Subset, QueueAssumption DEF QueueInv, Types
      <3> QED  BY <1>0, <2>1, <3>1, Accounted, FS_EmptySet
    <2>4. \A t \in Threads : batch'[t] = {}
      BY <1>0, <2>1, <2>3, SMT DEF Unfinished, QueueInv, Types, TodoExact
    <2>5. Unfinished' = {}
      BY <2>1, <2>4, SMT DEF Unfinished
    <2>6. verdict' \in BOOLEAN /\ (verdict' <=> added \subseteq Valid)
      BY <1>0, <2>1, <2>2, <2>3, Accounted
    <2>7. \A t \in Threads \ {m} : batch[t] = {} /\ pc[t] \notin {"work", "again"}
      BY <1>0, <2>1, <2>4 DEF QueueInv, Types, Places
    <2>8. Types' /\ Places' /\ VerdictExact'
      <3>1. Types'
        BY <1>0, <2>1, <2>6 DEF QueueInv, Types
      <3>2. Places'
        BY <1>0, <2>1, <2>2, <2>4, <2>7, QueueAssumption DEF QueueInv, Types, Places, Threads
      <3>3. \A n \in Masters \ {m} : pc'[n] = "out"
        BY <2>1, <2>2 DEF QueueInv, Types, Places, Threads
      <3>4. VerdictExact'
        BY <2>1, <2>6, <3>3 DEF VerdictExact
      <3> QED  BY <3>1, <3>2, <3>4
    <2>9. Verdicts' /\ TodoExact'
      BY <1>0, <2>1, <2>2, <2>4, <2>5, <2>7, FS_EmptySet
         DEF QueueInv, Types, Verdicts, TodoExact
    <2> QED  BY <2>1, <2>2, <2>5, <2>8, <2>9 DEF QueueInv
  <1>4. CASE Leave(m)
    <2>1. /\ pc[m] = "returned" /\ control' = None /\ pc' = [pc EXCEPT ![m] = "out"]
          /\ UNCHANGED <<queue, batch, fOk, fAllOk, nTodo, added, verdict>>
      BY <1>4 DEF Leave, queueVars, roundVars
    <2>2. control = m /\ ~Open /\ ~Open' /\ Unfinished' = Unfinished
      BY <1>0, <2>1, SMT DEF QueueInv, Places, Open, Unfinished
    <2>3. Types' /\ Places' /\ VerdictExact'
      BY <1>0, <2>1, <2>2, QueueAssumption
         DEF QueueInv, Types, Places, VerdictExact, Threads
    <2>4. Verdicts' /\ TodoExact'
      BY <1>0, <2>1, <2>2 DEF QueueInv, Types, Verdicts, TodoExact
    <2> QED  BY <2>1, <2>2, <2>3, <2>4 DEF QueueInv
  <1> QED  BY <1>1, <1>2, <1>3, <1>4 DEF Control

\* New checks, none of which the caller has added before.
LEMMA AddKeepsInv ==
    ASSUME QueueInv, NEW m \in Masters, NEW S \in SUBSET (Checks \ added), Add(m, S)
    PROVE  QueueInv'
  <1>1. /\ pc[m] = "adding" /\ queue' = queue \cup S /\ added' = added \cup S
        /\ nTodo' = nTodo + Cardinality(S)
        /\ UNCHANGED <<batch, fOk, fAllOk, verdict, control>>
    BY DEF Add
  <1>2. PICK W \in SUBSET Asleep(Workers) : pc' = Woken(pc, W)
    BY DEF Add, NotifyOne, NotifyAll
  <1>3. DOMAIN pc' = Threads /\ \A t \in Threads : Nudged(t)
    BY <1>2 DEF Woken, Nudged, Asleep
  <1>4. Unfinished' = Unfinished \cup S /\ Unfinished \cap S = {}
    BY <1>1, SMT DEF Unfinished, QueueInv
  <1>5. nTodo' = Cardinality(Unfinished')
    <2>1. IsFiniteSet(Unfinished) /\ IsFiniteSet(S)
      BY FS_Subset, QueueAssumption DEF QueueInv, Types
    <2>2. Cardinality(Unfinished \cup S)
             = Cardinality(Unfinished) + Cardinality(S) - Cardinality(Unfinished \cap S)
      BY <2>1, FS_Union
    <2>3. Cardinality(Unfinished \cap S) = 0
      BY <1>4, FS_EmptySet
    <2>4. Cardinality(Unfinished) \in Nat /\ Cardinality(S) \in Nat
      BY <2>1, FS_CardinalityType
    <2> QED  BY <1>1, <1>4, <2>2, <2>3, <2>4, SMT DEF QueueInv, TodoExact
  <1>6. Open /\ Open' /\ control = m
    BY <1>1, <1>3, QueueAssumption, SMT DEF QueueInv, Types, Places, Open, Nudged, Threads
  <1>7. Types' /\ Places'
    BY <1>1, <1>3, SMT DEF QueueInv, Types, Places, Nudged, Threads
  <1>8. Verdicts'
    <2>1. added' \ Unfinished' \subseteq added \ Unfinished
      BY <1>1, <1>4
    <2>2. \A t \in Threads : pc'[t] \in {"work", "again"} => pc'[t] = pc[t]
      BY <1>3 DEF Nudged
    <2> QED  BY <1>1, <1>6, <2>1, <2>2 DEF QueueInv, Verdicts
  <1>9. TodoExact' /\ (Unfinished \subseteq added)'
    <2>1. \A t \in Threads : batch[t] \cap S = {}
      BY <1>4, SMT DEF Unfinished
    <2> QED  BY <1>1, <1>4, <1>5, <2>1 DEF QueueInv, TodoExact
  <1>10. VerdictExact'
    BY <1>1, <1>3, <1>6, QueueAssumption DEF QueueInv, Places, VerdictExact, Nudged, Threads
  <1> QED  BY <1>6, <1>7, <1>8, <1>9, <1>10 DEF QueueInv

\* The invariant is inductive.
LEMMA QueueInvHolds == Spec => []QueueInv
  <1>1. QueueInv /\ [Next]_vars => QueueInv'
    <2> SUFFICES ASSUME QueueInv, [Next]_vars PROVE QueueInv'
      OBVIOUS
    <2>1. ASSUME NEW t \in Threads, Interrupt(t) PROVE QueueInv'
      BY <2>1, PassiveStep DEF Interrupt, queueVars, roundVars, QueueInv, Types
    <2>2. CASE UNCHANGED vars
      BY <2>2, PassiveStep DEF vars, queueVars, roundVars, QueueInv, Types
    <2> QED
      BY <2>1, <2>2, StepKeepsInv, ControlKeepsInv, AddKeepsInv DEF Next
  <1> QED  BY EmptyQueue, <1>1, PTL DEF Spec

\* Wait answers whether all the checks its caller added succeed, and no others:
\* for any number of workers, masters and checks and any batch size.
THEOREM WaitIsExact == Spec => []VerdictExact
  <1>1. QueueInv => VerdictExact
    BY DEF QueueInv
  <1> QED  BY <1>1, QueueInvHolds, PTL

\* When nobody owns the queue, no check is left, none is running, and the last
\* user's failures are forgotten.
THEOREM IdleQueueIsClean == Spec => []QueueIdle
  <1>1. QueueInv => QueueIdle
    BY FS_EmptySet DEF QueueInv, Open, TodoExact, QueueIdle
  <1> QED  BY <1>1, QueueInvHolds, PTL

\* nTodo is the number of checks that are queued or being run, and no check is run
\* by two threads.
THEOREM TodoIsExact == Spec => []TodoExact
  <1>1. QueueInv => TodoExact
    BY DEF QueueInv
  <1> QED  BY <1>1, QueueInvHolds, PTL
=============================================================================
