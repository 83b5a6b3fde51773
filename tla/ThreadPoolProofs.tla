-------------------------- MODULE ThreadPoolProofs --------------------------
(***************************************************************************)
(* Theorems about ThreadPool, for every set of workers and tasks.  The     *)
(* invariants come in layers, each proved with the help of those below:    *)
(* Control (who is where and holds what), the queue, the tasks, the        *)
(* wakeups, and on top of them the refinement of TaskPool.                 *)
(***************************************************************************)
EXTENDS ThreadPool, SequenceTheorems, FiniteSetTheorems, TLAPS

\* A thread is inside a critical section exactly when it holds the mutex.
MutexInv ==
    /\ \A w \in Workers : pc[w] \in {"test", "sleep", "recheck"} <=> m_queue_mutex = w
    /\ client = "push" <=> m_queue_mutex = Main

\* Nothing has happened to a pool that has not been initialised, and from
\* RaiseShutdown on it is down for good.
PhaseInv ==
    /\ client = "new" => /\ \A w \in Workers : pc[w] = "unborn"
                         /\ taken = <<>>
    /\ client \in {"starting", "ready", "lock", "push", "signal"} => ~m_shutdown

\* The argument of the add_task under way is a task.
ArgIsTask == client \in {"lock", "push"} => arg \in Tasks

\* A worker about to block holds the mutex of a queue it found empty.
SleepInv == \A w \in Workers : pc[w] = "sleep" => m_que_tasks = <<>>

\* A worker has a task in hand only between the queue and the end of run().
HandInv ==
    /\ \A w \in Workers : p_task[w] # NoTask => pc[w] \in {"decide", "run"}
    /\ \A w \in Workers : pc[w] = "run" => p_task[w] # NoTask

Control ==
    /\ TypeOK /\ MutexInv /\ PhaseInv /\ ArgIsTask /\ SleepInv /\ HandInv
    /\ PopNeverEmpty

-----------------------------------------------------------------------------
(* The bottom layer *)

\* The initial state has the control invariant.
LEMMA ControlInit == Init => Control
  BY PoolAssumption DEF Init, Control, TypeOK, MutexInv, PhaseInv, ArgIsTask,
     SleepInv, HandInv, PopNeverEmpty

\* Every step of a worker keeps the control invariant.
LEMMA ControlWorker ==
  ASSUME Control, NEW w \in Workers, WorkThreadRun(w) \/ SpuriousWakeup(w)
  PROVE  Control'
<1> USE PoolAssumption DEF Control, TypeOK, MutexInv, PhaseInv, ArgIsTask,
        SleepInv, HandInv, PopNeverEmpty, Goto
<1>1. CASE LockQueue(w)      BY <1>1 DEF LockQueue
<1>2. CASE TestQueue(w)      BY <1>2 DEF TestQueue, MustWait
<1>3. CASE CondWait(w)       BY <1>3 DEF CondWait
<1>4. CASE Relock(w)         BY <1>4 DEF Relock, Reacquire
<1>5. CASE TakeNothing(w)    BY <1>5 DEF TakeNothing
<1>6. CASE TakeTask(w)
  <2>1. m_que_tasks # <<>>
    BY <1>6 DEF TakeTask
  <2>2. /\ Head(m_que_tasks) \in Tasks
        /\ Tail(m_que_tasks) \in Seq(Tasks)
        /\ Append(taken, Head(m_que_tasks)) \in Seq(Tasks)
    BY <2>1, HeadTailProperties, AppendProperties
  <2> QED BY <1>6, <2>2 DEF TakeTask
<1>7. CASE ExitThread(w)     BY <1>7 DEF ExitThread, LeaveLoop
<1>8. CASE KeepTask(w)       BY <1>8 DEF KeepTask
<1>9. CASE RunTask(w)        BY <1>9 DEF RunTask
<1>10. CASE SpuriousWakeup(w) BY <1>10 DEF SpuriousWakeup
<1> QED BY <1>1, <1>2, <1>3, <1>4, <1>5, <1>6, <1>7, <1>8, <1>9, <1>10
        DEF WorkThreadRun, GetTask

\* Every step of the client keeps the control invariant.
LEMMA ControlClient ==
  ASSUME Control,
         \/ InitWorkThreads \/ AddTask \/ RaiseShutdown \/ PoolDestroy
         \/ \E t \in Tasks : CallAddTask(t)
  PROVE  Control'
<1> USE PoolAssumption DEF Control, TypeOK, MutexInv, PhaseInv, ArgIsTask,
        SleepInv, HandInv, PopNeverEmpty, Goto, ClientGoto
<1>1. CASE InitPool             BY <1>1 DEF InitPool
<1>2. ASSUME NEW w \in Workers, StartThread(w)
      PROVE  Control'
  BY <1>2 DEF StartThread
<1>3. CASE FinishInit           BY <1>3 DEF FinishInit
<1>4. ASSUME NEW t \in Tasks, CallAddTask(t)
      PROVE  Control'
  BY <1>4 DEF CallAddTask
<1>5. CASE LockToAdd            BY <1>5 DEF LockToAdd
<1>6. CASE PushTask
  <2>1. arg \in Tasks
    BY <1>6 DEF PushTask, PushThen
  <2>2. /\ Append(m_que_tasks, arg) \in Seq(Tasks)
        /\ Append(added, arg) \in Seq(Tasks)
        /\ Append(m_que_tasks, arg) # <<>>
    BY <2>1, AppendProperties
  <2> QED BY <1>6, <2>2 DEF PushTask, PushThen
<1>7. CASE Signal               BY <1>7 DEF Signal, Waiting
<1>8. CASE RaiseShutdown        BY <1>8 DEF RaiseShutdown
<1>9. CASE Broadcast            BY <1>9 DEF Broadcast
<1>10. ASSUME NEW w \in Workers, Join(w)
       PROVE  Control'
  BY <1>10 DEF Join
<1>11. CASE FinishDestroy       BY <1>11 DEF FinishDestroy
<1> QED BY <1>1, <1>2, <1>3, <1>4, <1>5, <1>6, <1>7, <1>8, <1>9, <1>10, <1>11
        DEF InitWorkThreads, AddTask, PoolDestroy

\* The control invariant is inductive.
LEMMA ControlStep == Control /\ [Next]_vars => Control'
<1> SUFFICES ASSUME Control, [Next]_vars PROVE Control'
  OBVIOUS
<1>1. CASE UNCHANGED vars
  BY <1>1 DEF vars, Control, TypeOK, MutexInv, PhaseInv, ArgIsTask, SleepInv,
     HandInv, PopNeverEmpty
<1>2. CASE Next
  BY <1>2, ControlWorker, ControlClient DEF Next
<1> QED BY <1>1, <1>2

LEMMA ControlAlways == Spec => []Control
  BY ControlInit, ControlStep, PTL DEF Spec

\* The pool's variables keep their types: in particular only tasks are queued,
\* held and run, whatever order the threads of threadpool.cpp run in.
THEOREM TypeCorrect == Spec => []TypeOK
<1>1. Control => TypeOK
  BY DEF Control
<1> QED BY <1>1, ControlAlways, PTL

\* get_task never calls front() on an empty queue, although m_shutdown is read
\* twice and written without the mutex.
THEOREM NeverPopsEmpty == Spec => []PopNeverEmpty
<1>1. Control => PopNeverEmpty
  BY DEF Control
<1> QED BY <1>1, ControlAlways, PTL

-----------------------------------------------------------------------------
(* The queue *)

\* Moving the head of t to the end of s changes nothing of s \o t.
LEMMA MoveHead ==
  ASSUME NEW S, NEW s \in Seq(S), NEW t \in Seq(S), t # <<>>
  PROVE  Append(s, Head(t)) \o Tail(t) = s \o t
<1> DEFINE u == Append(s, Head(t))
<1>1. Head(t) \in S /\ Tail(t) \in Seq(S) /\ Len(Tail(t)) = Len(t) - 1
  BY HeadTailProperties
<1>2. u \in Seq(S) /\ Len(u) = Len(s) + 1
  BY <1>1, AppendProperties
<1>3. Len(s) \in Nat /\ Len(t) \in Nat
  BY LenProperties
<1>4. u \o Tail(t) \in Seq(S) /\ s \o t \in Seq(S)
  BY <1>1, <1>2, ConcatProperties
<1>5. Len(u \o Tail(t)) = Len(s) + Len(t) /\ Len(s \o t) = Len(s) + Len(t)
  BY <1>1, <1>2, <1>3, ConcatProperties
<1>6. ASSUME NEW i \in 1..(Len(s) + Len(t))
      PROVE  (u \o Tail(t))[i] = (s \o t)[i]
  <2>1. CASE i <= Len(s)
    BY <2>1, <1>1, <1>2, <1>3, ConcatProperties, AppendProperties
  <2>2. CASE i = Len(s) + 1
    <3>1. (u \o Tail(t))[i] = u[i]
      BY <2>2, <1>1, <1>2, <1>3, ConcatProperties
    <3>2. u[i] = Head(t)
      BY <2>2, <1>1, <1>3, AppendProperties
    <3>3. (s \o t)[i] = t[1]
      BY <2>2, <1>3, ConcatProperties
    <3> QED BY <3>1, <3>2, <3>3
  <2>3. CASE i > Len(s) + 1
    <3>1. (u \o Tail(t))[i] = Tail(t)[i - (Len(s) + 1)]
      BY <2>3, <1>1, <1>2, <1>3, ConcatProperties
    <3>2. Tail(t)[i - (Len(s) + 1)] = t[i - Len(s)]
      BY <2>3, <1>1, <1>3, HeadTailProperties
    <3>3. (s \o t)[i] = t[i - Len(s)]
      BY <2>3, <1>3, ConcatProperties
    <3> QED BY <3>1, <3>2, <3>3
  <2> QED BY <1>3, <2>1, <2>2, <2>3
<1>7. QED
  BY <1>4, <1>5, <1>6, SeqEqual

LEMMA QueueInit == Init => QueueInOrder
  BY ConcatEmptySeq, EmptySeq DEF Init, QueueInOrder

\* Only three steps change the queue or its history: a pop, a push, and the
\* others leave them alone.
LEMMA QueueStep == Control /\ QueueInOrder /\ [Next]_vars => QueueInOrder'
<1> SUFFICES ASSUME Control, QueueInOrder, [Next]_vars PROVE QueueInOrder'
  OBVIOUS
<1> USE DEF QueueInOrder
<1> m_que_tasks \in Seq(Tasks) /\ added \in Seq(Tasks) /\ taken \in Seq(Tasks)
  BY DEF Control, TypeOK
<1>1. ASSUME NEW w \in Workers, TakeTask(w)
      PROVE  QueueInOrder'
  <2>1. m_que_tasks # <<>>
    BY <1>1 DEF TakeTask, Control, PopNeverEmpty, Goto
  <2>2. /\ added' = added
        /\ taken' = Append(taken, Head(m_que_tasks))
        /\ m_que_tasks' = Tail(m_que_tasks)
    BY <1>1 DEF TakeTask
  <2> QED BY <2>1, <2>2, MoveHead
<1>2. CASE PushTask
  <2>1. arg \in Tasks
    BY <1>2 DEF PushTask, PushThen, ClientGoto, Control, ArgIsTask
  <2>2. /\ added' = Append(added, arg)
        /\ taken' = taken
        /\ m_que_tasks' = Append(m_que_tasks, arg)
    BY <1>2 DEF PushTask, PushThen
  <2>3. added' = (taken \o m_que_tasks) \o <<arg>>
    BY <2>1, <2>2, AppendIsConcat
  <2>4. m_que_tasks' = m_que_tasks \o <<arg>>
    BY <2>1, <2>2, AppendIsConcat
  <2>5. <<arg>> \in Seq(Tasks)
    BY <2>1
  <2> QED BY <2>2, <2>3, <2>4, <2>5, ConcatAssociative
<1>3. CASE UNCHANGED <<added, taken, m_que_tasks>>
  BY <1>3
<1> QED
  BY <1>1, <1>2, <1>3
  DEF Next, vars, WorkThreadRun, GetTask, LockQueue, TestQueue, CondWait, Relock,
      Reacquire, TakeNothing, ExitThread, LeaveLoop, KeepTask, RunTask,
      SpuriousWakeup, InitWorkThreads, InitPool, StartThread, FinishInit,
      CallAddTask, AddTask, LockToAdd, Signal, RaiseShutdown, PoolDestroy,
      Broadcast, Join, FinishDestroy

\* Tasks leave the queue in the order add_task put them there, none lost and
\* none doubled, for any number of workers and tasks.
THEOREM OrderKept == Spec => []QueueInOrder
  BY QueueInit, QueueStep, ControlAlways, PTL DEF Spec

-----------------------------------------------------------------------------
(* The tasks *)

\* The argument of the add_task under way was never added before.
ArgIsNew == client \in {"lock", "push"} => \A i \in 1..Len(added) : added[i] # arg

\* No task was added twice.
AddedOnce == \A i, j \in 1..Len(added) : added[i] = added[j] => i = j

\* What is in a hand or finished was taken.
TakenFirst ==
    /\ \A w \in Workers : p_task[w] # NoTask =>
          \E i \in 1..Len(taken) : taken[i] = p_task[w]
    /\ \A t \in finished : \E i \in 1..Len(taken) : taken[i] = t

TaskInv == ArgIsNew /\ AddedOnce /\ TakenFirst /\ TakenIsServed

LEMMA TaskInit == Init => TaskInv
  BY PoolAssumption DEF Init, TaskInv, ArgIsNew, AddedOnce, TakenFirst, TakenIsServed

\* The front of the queue is a task that was not taken before.
LEMMA HeadIsNew ==
  ASSUME Control, QueueInOrder, AddedOnce, m_que_tasks # <<>>
  PROVE  \A i \in 1..Len(taken) : taken[i] # Head(m_que_tasks)
<1> DEFINE n == Len(taken)
<1>1. m_que_tasks \in Seq(Tasks) /\ taken \in Seq(Tasks) /\ added \in Seq(Tasks)
  BY DEF Control, TypeOK
<1>2. Len(m_que_tasks) \in Nat \ {0} /\ n \in Nat
  BY <1>1, EmptySeq, LenProperties
<1>3. Len(added) = n + Len(m_que_tasks)
  BY <1>1, ConcatProperties DEF QueueInOrder
<1>4. \A i \in 1..n : added[i] = taken[i]
  BY <1>1, <1>2, ConcatProperties DEF QueueInOrder
<1>5. added[n + 1] = Head(m_que_tasks)
  <2>1. added[n + 1] = m_que_tasks[1]
    BY <1>1, <1>2, ConcatProperties DEF QueueInOrder
  <2> QED BY <2>1
<1> QED BY <1>2, <1>3, <1>4, <1>5 DEF AddedOnce

\* A step of a worker keeps every task served.
LEMMA TaskWorker ==
  ASSUME Control, QueueInOrder, TaskInv, NEW w \in Workers,
         WorkThreadRun(w) \/ SpuriousWakeup(w)
  PROVE  TaskInv'
<1> USE DEF Goto
<1>0. /\ taken \in Seq(Tasks) /\ p_task \in [Workers -> Tasks \cup {NoTask}]
      /\ finished \subseteq Tasks /\ NoTask \notin Tasks
      /\ m_que_tasks \in Seq(Tasks)
  BY PoolAssumption DEF Control, TypeOK
<1>1. CASE TakeTask(w)
  <2>1. m_que_tasks # <<>> /\ p_task[w] = NoTask
    BY <1>1 DEF TakeTask, Control, PopNeverEmpty, HandInv
  <2> DEFINE h == Head(m_que_tasks)
  <2>2. h \in Tasks /\ \A i \in 1..Len(taken) : taken[i] # h
    BY <2>1, HeadTailProperties, HeadIsNew DEF TaskInv, Control, TypeOK
  <2>3. /\ taken' \in Seq(Tasks) /\ Len(taken') = Len(taken) + 1
        /\ \A i \in 1..Len(taken) : taken'[i] = taken[i]
        /\ taken'[Len(taken) + 1] = h
        /\ Len(taken) \in Nat
    BY <1>1, <1>0, <2>2, AppendProperties, LenProperties DEF TakeTask
  <2>4. /\ p_task' = [p_task EXCEPT ![w] = h]
        /\ UNCHANGED <<m_shutdown, client, arg, added, finished>>
    BY <1>1 DEF TakeTask
  <2> HIDE DEF h
  <2>5. h \notin finished /\ \A v \in Workers : p_task[v] # h
    BY <2>2, <1>0 DEF TaskInv, TakenFirst
  <2>6. TakenFirst'
    <3>1. \A i \in 1..Len(taken) : i \in 1..Len(taken')
      BY <2>3
    <3>2. Len(taken) + 1 \in 1..Len(taken')
      BY <2>3
    <3> QED BY <1>0, <2>3, <2>4, <3>1, <3>2 DEF TaskInv, TakenFirst
  <2>7. TakenIsServed'
    <3>1. \A i \in 1..Len(taken') : i \in 1..Len(taken) \/ i = Len(taken) + 1
      BY <2>3
    <3>2. /\ p_task'[w] = h
          /\ \A v \in Workers : v # w => p_task'[v] = p_task[v]
      BY <1>0, <2>2, <2>4
    <3>3. ASSUME ~m_shutdown', NEW i \in 1..Len(taken')
          PROVE  taken'[i] \in finished' \/ \E v \in Workers : p_task'[v] = taken'[i]
      <4>1. CASE i = Len(taken) + 1
        BY <4>1, <2>3, <3>2
      <4>2. CASE i \in 1..Len(taken)
        <5>1. taken'[i] = taken[i] /\ taken[i] \in Tasks
          BY <4>2, <2>3, <1>0, ElementOfSeq
        <5>2. taken[i] \in finished \/ \E v \in Workers : p_task[v] = taken[i]
          BY <4>2, <3>3, <2>4 DEF TaskInv, TakenIsServed
        <5>3. ASSUME NEW v \in Workers, p_task[v] = taken[i]
              PROVE  p_task'[v] = taken[i]
          BY <5>1, <5>3, <1>0, <2>1, <3>2
        <5> QED BY <5>1, <5>2, <5>3, <2>4
      <4> QED BY <3>1, <3>3, <4>1, <4>2
    <3>4. \A v, u \in Workers :
             p_task'[v] # NoTask /\ p_task'[v] = p_task'[u] => v = u
      BY <2>5, <3>2 DEF TaskInv, TakenIsServed
    <3>5. \A v \in Workers : p_task'[v] \notin finished'
      BY <2>4, <2>5, <3>2 DEF TaskInv, TakenIsServed
    <3> QED BY <3>3, <3>4, <3>5 DEF TakenIsServed
  <2> QED BY <2>4, <2>6, <2>7 DEF TaskInv, ArgIsNew, AddedOnce
<1>2. CASE RunTask(w)
  <2>1. p_task[w] \in Tasks
    BY <1>0, <1>2 DEF RunTask, Control, HandInv
  <2>2. /\ p_task' = [p_task EXCEPT ![w] = NoTask]
        /\ finished' = finished \cup {p_task[w]}
        /\ UNCHANGED <<m_shutdown, client, arg, added, taken>>
    BY <1>2 DEF RunTask
  <2>3. TakenFirst' /\ TakenIsServed'
    BY <1>0, <2>1, <2>2 DEF TaskInv, TakenFirst, TakenIsServed
  <2> QED BY <2>2, <2>3 DEF TaskInv, ArgIsNew, AddedOnce
<1>3. CASE ExitThread(w)
  <2>1. /\ p_task' = [p_task EXCEPT ![w] = NoTask]
        /\ p_task[w] = NoTask \/ m_shutdown
        /\ UNCHANGED <<m_shutdown, client, arg, added, taken, finished>>
    BY <1>3 DEF ExitThread, LeaveLoop
  <2>2. TakenFirst' /\ TakenIsServed'
    BY <1>0, <2>1 DEF TaskInv, TakenFirst, TakenIsServed
  <2> QED BY <2>1, <2>2 DEF TaskInv, ArgIsNew, AddedOnce
<1>4. CASE UNCHANGED <<m_shutdown, client, arg, added, taken, finished, p_task>>
  BY <1>4 DEF TaskInv, ArgIsNew, AddedOnce, TakenFirst, TakenIsServed
<1> QED
  BY <1>1, <1>2, <1>3, <1>4
  DEF WorkThreadRun, GetTask, LockQueue, TestQueue, CondWait, Relock, Reacquire,
      TakeNothing, KeepTask, SpuriousWakeup

\* So does a step of the client.
LEMMA TaskClient ==
  ASSUME Control, TaskInv,
         \/ InitWorkThreads \/ AddTask \/ RaiseShutdown \/ PoolDestroy
         \/ \E t \in Tasks : CallAddTask(t)
  PROVE  TaskInv'
<1> USE DEF ClientGoto, Goto
<1>1. CASE InitPool
  <2>1. taken = <<>>
    BY <1>1 DEF InitPool, Control, PhaseInv
  <2> QED BY <1>1, <2>1 DEF InitPool, TaskInv, ArgIsNew, AddedOnce, TakenFirst,
             TakenIsServed
<1>2. CASE PushTask
  <2>1. arg \in Tasks /\ \A i \in 1..Len(added) : added[i] # arg
    BY <1>2 DEF PushTask, PushThen, Control, ArgIsTask, TaskInv, ArgIsNew
  <2>2. /\ added' = Append(added, arg) /\ client' = "signal"
        /\ UNCHANGED <<m_shutdown, taken, finished, p_task>>
    BY <1>2 DEF PushTask, PushThen
  <2>3. /\ Len(added') = Len(added) + 1 /\ Len(added) \in Nat
        /\ \A i \in 1..Len(added) : added'[i] = added[i]
        /\ added'[Len(added) + 1] = arg
    BY <2>1, <2>2, AppendProperties, LenProperties DEF Control, TypeOK
  <2>4. AddedOnce'
    BY <2>1, <2>3 DEF AddedOnce, TaskInv
  <2> QED BY <2>2, <2>4 DEF TaskInv, ArgIsNew, TakenFirst, TakenIsServed
<1>3. ASSUME NEW t \in Tasks, CallAddTask(t)
      PROVE  TaskInv'
  BY <1>3 DEF CallAddTask, TaskInv, ArgIsNew, AddedOnce, TakenFirst, TakenIsServed
<1>4. CASE LockToAdd
  BY <1>4 DEF LockToAdd, TaskInv, ArgIsNew, AddedOnce, TakenFirst, TakenIsServed
<1>5. CASE RaiseShutdown
  BY <1>5 DEF RaiseShutdown, TaskInv, ArgIsNew, AddedOnce, TakenFirst, TakenIsServed
<1>6. CASE /\ UNCHANGED <<m_shutdown, added, taken, finished, p_task>>
           /\ client' \notin {"lock", "push"}
  BY <1>6 DEF TaskInv, ArgIsNew, AddedOnce, TakenFirst, TakenIsServed
<1> QED
  BY <1>1, <1>2, <1>3, <1>4, <1>5, <1>6
  DEF InitWorkThreads, StartThread, FinishInit, AddTask, Signal, PoolDestroy,
      Broadcast, Join, FinishDestroy

LEMMA TaskStep == Control /\ QueueInOrder /\ TaskInv /\ [Next]_vars => TaskInv'
<1> SUFFICES ASSUME Control, QueueInOrder, TaskInv, [Next]_vars PROVE TaskInv'
  OBVIOUS
<1>1. CASE UNCHANGED vars
  BY <1>1 DEF vars, TaskInv, ArgIsNew, AddedOnce, TakenFirst, TakenIsServed
<1>2. CASE Next
  BY <1>2, TaskWorker, TaskClient DEF Next
<1> QED BY <1>1, <1>2

LEMMA TaskAlways == Spec => []TaskInv
  BY TaskInit, TaskStep, OrderKept, ControlAlways, PTL DEF Spec

\* While the pool is up, no task taken from the queue is dropped, shared by two
\* workers or run twice.
THEOREM EveryTakenTaskIsServed == Spec => []TakenIsServed
<1>1. TaskInv => TakenIsServed
  BY DEF TaskInv
<1> QED BY <1>1, TaskAlways, PTL

-----------------------------------------------------------------------------
(* The wakeups *)

\* One worker more, or one less, on its way to the queue.
LEMMA HeadingGrows ==
  ASSUME NEW w \in Workers \ Heading, Heading' = Heading \cup {w}
  PROVE  Cardinality(Heading') = Cardinality(Heading) + 1
<1>1. IsFiniteSet(Heading)
  BY PoolAssumption, FS_Subset DEF Heading
<1> QED BY <1>1, FS_AddElement

LEMMA HeadingShrinks ==
  ASSUME NEW w \in Heading, Heading' = Heading \ {w}
  PROVE  Cardinality(Heading') = Cardinality(Heading) - 1
<1>1. IsFiniteSet(Heading)
  BY PoolAssumption, FS_Subset DEF Heading
<1> QED BY <1>1, FS_RemoveElement

LEMMA HeadingCard ==
  Cardinality(Heading) \in Nat
<1>1. IsFiniteSet(Heading)
  BY PoolAssumption, FS_Subset DEF Heading
<1> QED BY <1>1, FS_CardinalityType

LEMMA WakeupInit == Init => NoLostWakeup
  BY DEF Init, NoLostWakeup

\* No step of a worker lets a waiting task without a worker on its way to it.
LEMMA WakeupWorker ==
  ASSUME Control, Control', NoLostWakeup, NEW w \in Workers,
         WorkThreadRun(w) \/ SpuriousWakeup(w)
  PROVE  NoLostWakeup'
<1> USE DEF Goto
<1>0. /\ pc \in [Workers -> {"unborn", "failed", "lock", "test", "sleep", "waiting",
                             "relock", "recheck", "decide", "run", "exited"}]
      /\ m_que_tasks \in Seq(Tasks) /\ Len(m_que_tasks) \in Nat
      /\ Cardinality(Heading) \in Nat
  BY HeadingCard, LenProperties DEF Control, TypeOK
\* Moves within the part of get_task that heads for the queue.
<1>1. CASE LockQueue(w) \/ Relock(w) \/ (TestQueue(w) /\ ~MustWait)
  <2>1. Heading' = Heading /\ Waiting' = Waiting
    BY <1>0, <1>1 DEF LockQueue, Relock, Reacquire, TestQueue, Heading, Waiting
  <2>2. UNCHANGED <<m_shutdown, m_que_tasks, client>>
    BY <1>1 DEF LockQueue, Relock, Reacquire, TestQueue
  <2> QED BY <2>1, <2>2 DEF NoLostWakeup
\* Going to sleep: the queue is empty, so no task waits.
<1>2. CASE (TestQueue(w) /\ MustWait) \/ CondWait(w)
  <2>1. m_que_tasks = <<>> /\ UNCHANGED <<m_que_tasks, client>>
    BY <1>2 DEF TestQueue, MustWait, CondWait, Control, SleepInv
  <2>2. Cardinality(Heading') \in Nat
    <3>1. IsFiniteSet(Heading')
      BY PoolAssumption, FS_Subset DEF Heading
    <3> QED BY <3>1, FS_CardinalityType
  <2> QED BY <2>1, <2>2 DEF NoLostWakeup
\* The pool is down.
<1>3. CASE TakeNothing(w)
  BY <1>3 DEF TakeNothing, NoLostWakeup
\* A worker leaves for good with a task.
<1>4. CASE TakeTask(w)
  <2>1. w \in Heading /\ Heading' = Heading \ {w} /\ Waiting' = Waiting
    BY <1>0, <1>4 DEF TakeTask, Heading, Waiting
  <2>2. Len(m_que_tasks') = Len(m_que_tasks) - 1 /\ UNCHANGED <<m_shutdown, client>>
    BY <1>0, <1>4, HeadTailProperties
    DEF TakeTask, Control, PopNeverEmpty
  <2>3. Cardinality(Heading') = Cardinality(Heading) - 1
    BY <2>1, HeadingShrinks
  <2> QED BY <1>0, <2>1, <2>2, <2>3 DEF NoLostWakeup
\* Moves outside get_task.
<1>5. CASE ExitThread(w) \/ KeepTask(w)
  <2>1. Heading' = Heading /\ Waiting' = Waiting
    BY <1>0, <1>5 DEF ExitThread, LeaveLoop, KeepTask, Heading, Waiting
  <2>2. UNCHANGED <<m_shutdown, m_que_tasks, client>>
    BY <1>5 DEF ExitThread, LeaveLoop, KeepTask
  <2> QED BY <2>1, <2>2 DEF NoLostWakeup
\* A worker more on its way.
<1>6. CASE RunTask(w) \/ SpuriousWakeup(w)
  <2>1. w \notin Heading /\ Heading' = Heading \cup {w} /\ Waiting' \subseteq Waiting
    BY <1>0, <1>6 DEF RunTask, SpuriousWakeup, Heading, Waiting
  <2>2. UNCHANGED <<m_shutdown, m_que_tasks, client>>
    BY <1>6 DEF RunTask, SpuriousWakeup
  <2>3. Cardinality(Heading') = Cardinality(Heading) + 1
    BY <2>1, HeadingGrows
  <2> QED BY <1>0, <2>1, <2>2, <2>3 DEF NoLostWakeup
<1> QED BY <1>1, <1>2, <1>3, <1>4, <1>5, <1>6 DEF WorkThreadRun, GetTask

\* Nor does a step of the client: the task it pushes has its signal to come.
LEMMA WakeupClient ==
  ASSUME Control, NoLostWakeup,
         \/ InitWorkThreads \/ AddTask \/ RaiseShutdown \/ PoolDestroy
         \/ \E t \in Tasks : CallAddTask(t)
  PROVE  NoLostWakeup'
<1> USE DEF ClientGoto, Goto
<1>0. /\ pc \in [Workers -> {"unborn", "failed", "lock", "test", "sleep", "waiting",
                             "relock", "recheck", "decide", "run", "exited"}]
      /\ m_que_tasks \in Seq(Tasks) /\ Len(m_que_tasks) \in Nat
      /\ Cardinality(Heading) \in Nat
  BY HeadingCard, LenProperties DEF Control, TypeOK
\* No worker waits yet.
<1>1. CASE InitPool
  <2>1. Waiting' = {}
    BY <1>1 DEF InitPool, Waiting, Control, PhaseInv
  <2> QED BY <2>1 DEF NoLostWakeup
<1>2. ASSUME NEW w \in Workers, StartThread(w)
      PROVE  NoLostWakeup'
  <2>1. /\ w \notin Heading /\ Waiting' = Waiting
        /\ Heading' = Heading \/ Heading' = Heading \cup {w}
    BY <1>0, <1>2 DEF StartThread, Heading, Waiting
  <2>2. UNCHANGED <<m_shutdown, m_que_tasks, client>>
    BY <1>2 DEF StartThread
  <2>3. Cardinality(Heading') \in {Cardinality(Heading), Cardinality(Heading) + 1}
    BY <2>1, HeadingGrows
  <2> QED BY <1>0, <2>1, <2>2, <2>3 DEF NoLostWakeup
<1>3. CASE PushTask
  <2>1. arg \in Tasks
    BY <1>3 DEF PushTask, PushThen, Control, ArgIsTask
  <2>2. /\ Len(m_que_tasks') = Len(m_que_tasks) + 1
        /\ client = "push" /\ client' = "signal" /\ UNCHANGED <<m_shutdown, pc>>
    BY <1>0, <1>3, <2>1, AppendProperties DEF PushTask, PushThen
  <2>3. Heading' = Heading /\ Waiting' = Waiting
    BY <2>2 DEF Heading, Waiting
  <2> QED BY <1>0, <2>2, <2>3 DEF NoLostWakeup
<1>4. CASE Signal
  <2>1. /\ client = "signal" /\ client' = "ready"
        /\ UNCHANGED <<m_shutdown, m_que_tasks>>
    BY <1>4 DEF Signal
  <2>2. CASE Waiting = {} /\ UNCHANGED pc
    BY <2>2 DEF NoLostWakeup, Waiting
  <2>3. ASSUME NEW w \in Waiting, pc' = [pc EXCEPT ![w] = "relock"]
        PROVE  NoLostWakeup'
    <3>1. w \in Workers \ Heading /\ Heading' = Heading \cup {w}
      BY <1>0, <2>3 DEF Heading, Waiting
    <3>2. Cardinality(Heading') = Cardinality(Heading) + 1
      BY <3>1, HeadingGrows
    <3> QED BY <1>0, <2>1, <2>3, <3>2 DEF NoLostWakeup
  <2> QED BY <1>4, <2>2, <2>3 DEF Signal
<1>5. CASE RaiseShutdown
  BY <1>5 DEF RaiseShutdown, NoLostWakeup
<1>6. CASE Broadcast
  <2>1. Waiting' = {}
    BY <1>0, <1>6 DEF Broadcast, Waiting
  <2> QED BY <2>1 DEF NoLostWakeup
<1>7. CASE /\ client # "signal" /\ client' # "signal"
           /\ UNCHANGED <<m_shutdown, m_que_tasks, pc>>
  BY <1>7 DEF NoLostWakeup, Heading, Waiting
<1> QED
  BY <1>1, <1>2, <1>3, <1>4, <1>5, <1>6, <1>7
  DEF InitWorkThreads, FinishInit, CallAddTask, AddTask, LockToAdd, PoolDestroy,
      Join, FinishDestroy

LEMMA WakeupStep ==
  Control /\ Control' /\ NoLostWakeup /\ [Next]_vars => NoLostWakeup'
<1> SUFFICES ASSUME Control, Control', NoLostWakeup, [Next]_vars PROVE NoLostWakeup'
  OBVIOUS
<1>1. CASE UNCHANGED vars
  BY <1>1 DEF vars, NoLostWakeup, Heading, Waiting
<1>2. CASE Next
  BY <1>2, WakeupWorker, WakeupClient DEF Next
<1> QED BY <1>1, <1>2

\* add_task's signal after the unlock is never lost: no worker of a pool that
\* is up sleeps while a task waits that nobody is on the way to.
THEOREM WakeupsKept == Spec => []NoLostWakeup
  BY WakeupInit, WakeupStep, ControlAlways, PTL DEF Spec

-----------------------------------------------------------------------------
(* The refinement: every step is a step of TaskPool or leaves it alone *)

LEMMA RefinesInit == Init => Promise!Init
  BY DEF Init, Promise!Init

LEMMA RefinesStep ==
  Control /\ QueueInOrder /\ TaskInv /\ [Next]_vars => [Promise!Next]_(Promise!vars)
<1> SUFFICES ASSUME Control, QueueInOrder, TaskInv, [Next]_vars
             PROVE  Promise!Next \/ UNCHANGED Promise!vars
  OBVIOUS
<1> USE DEF Goto, ClientGoto, Promise!vars
<1>0. p_task \in [Workers -> Tasks \cup {NoTask}]
  BY DEF Control, TypeOK
<1>1. ASSUME NEW w \in Workers, TakeTask(w)
      PROVE  Promise!Take(w)
  <2>1. m_que_tasks # <<>> /\ p_task[w] = NoTask
    BY <1>1 DEF TakeTask, Control, PopNeverEmpty, HandInv
  <2> QED BY <1>1, <2>1 DEF TakeTask, Promise!Take
<1>2. ASSUME NEW w \in Workers, RunTask(w)
      PROVE  Promise!Finish(w)
  <2>1. p_task[w] # NoTask /\ p_task[w] \notin finished
    BY <1>2 DEF RunTask, Control, HandInv, TaskInv, TakenIsServed
  <2> QED BY <1>2, <2>1 DEF RunTask, Promise!Finish
<1>3. ASSUME NEW w \in Workers, ExitThread(w)
      PROVE  Promise!Discard(w) \/ UNCHANGED Promise!vars
  <2>1. CASE p_task[w] = NoTask
    BY <1>0, <1>3, <2>1 DEF ExitThread, LeaveLoop
  <2>2. CASE p_task[w] # NoTask
    BY <1>3, <2>2 DEF ExitThread, LeaveLoop, Promise!Discard
  <2> QED BY <2>1, <2>2
<1>4. CASE InitPool
  BY <1>4 DEF InitPool, Promise!Open, Promise!Next
<1>5. CASE RaiseShutdown
  BY <1>5 DEF RaiseShutdown, Promise!Close, Promise!Next
<1>6. CASE PushTask
  <2>1. arg \in Tasks /\ \A i \in 1..Len(added) : added[i] # arg
    BY <1>6 DEF PushTask, PushThen, Control, ArgIsTask, TaskInv, ArgIsNew
  <2>2. Promise!Add(arg)
    BY <1>6, <2>1 DEF PushTask, PushThen, Promise!Add
  <2> QED BY <2>1, <2>2 DEF Promise!Next
<1>7. CASE UNCHANGED <<m_que_tasks, p_task, added, finished, m_shutdown>>
  BY <1>7
<1> QED
  BY <1>1, <1>2, <1>3, <1>4, <1>5, <1>6, <1>7
  DEF Next, vars, WorkThreadRun, GetTask, LockQueue, TestQueue, CondWait, Relock,
      Reacquire, TakeNothing, KeepTask, SpuriousWakeup, InitWorkThreads, StartThread,
      FinishInit, CallAddTask, AddTask, LockToAdd, Signal, PoolDestroy, Broadcast,
      Join, FinishDestroy, Promise!Next

\* threadpool.cpp keeps the promise of TaskPool: seen through its queue and the
\* workers' hands, the pool with its mutex, condition variable, spurious wakeups
\* and unlocked m_shutdown is a queue served by atomic takes.
THEOREM PoolKeepsPromise == Spec => ImplementsTaskPool
  BY RefinesInit, RefinesStep, ControlAlways, OrderKept, TaskAlways, PTL
  DEF Spec, ImplementsTaskPool, Promise!Spec
=============================================================================
