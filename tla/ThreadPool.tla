----------------------------- MODULE ThreadPool -----------------------------
(***************************************************************************)
(* threadpool.cpp: a queue of tasks under one mutex and one condition      *)
(* variable, the worker threads that serve it, and the one thread that     *)
(* initialises the pool, adds tasks and destroys it.  A step is what a     *)
(* thread does between two points at which another thread could notice:    *)
(* an access to m_shutdown outside the mutex is a step of its own.         *)
(***************************************************************************)
EXTENDS Naturals, Sequences, FiniteSets

CONSTANTS Workers,   \* the WorkThread objects of m_vec_workthreads
          Tasks,     \* the WorkTask objects the client creates
          Main,      \* the client's thread
          NoTask,    \* the NULL task
          NoOne      \* the holder of a free mutex

ASSUME PoolAssumption ==
    /\ IsFiniteSet(Workers)
    /\ Main \notin Workers
    /\ NoOne \notin Workers \cup {Main}
    /\ NoTask \notin Tasks

VARIABLES m_shutdown,     \* read and written without the mutex as well
          m_que_tasks,
          m_queue_mutex,  \* the thread that holds it, or NoOne
          pc,             \* where each worker is
          p_task,         \* each worker's local p_task
          client,         \* where the client's thread is
          arg,            \* the argument of the add_task under way
          joined,         \* workers pool_destroy has joined and deleted
          added,          \* history: the tasks pushed, in order
          taken,          \* history: the tasks popped, in order
          finished        \* history: the tasks whose run() returned

vars == <<m_shutdown, m_que_tasks, m_queue_mutex, pc, p_task, client, arg,
          joined, added, taken, finished>>

Init ==
    /\ m_shutdown = TRUE
    /\ m_que_tasks = <<>>
    /\ m_queue_mutex = NoOne
    /\ pc = [w \in Workers |-> "unborn"]
    /\ p_task = [w \in Workers |-> NoTask]
    /\ client = "new"
    /\ arg = NoTask
    /\ joined = {}
    /\ added = <<>>
    /\ taken = <<>>
    /\ finished = {}

\* The threads blocked in pthread_cond_wait on m_queue_ready.
Waiting == {w \in Workers : pc[w] = "waiting"}

\* Worker w moves on; nothing moves in a process that has crashed.
Goto(w, from, to) ==
    /\ client # "crashed"
    /\ pc[w] = from
    /\ pc' = [pc EXCEPT ![w] = to]

-----------------------------------------------------------------------------
(* WorkThread::run and ThreadPoolManager::get_task *)

\* get_task locks the queue.
LockQueue(w) ==
    /\ Goto(w, "lock", "test")
    /\ m_queue_mutex = NoOne
    /\ m_queue_mutex' = w
    /\ UNCHANGED <<m_shutdown, m_que_tasks, p_task, client, arg, joined,
                   added, taken, finished>>

\* The loop condition: an empty queue of a pool that is up sends w to sleep.
MustWait == m_que_tasks = <<>> /\ ~m_shutdown

TestQueue(w) ==
    /\ IF MustWait THEN Goto(w, "test", "sleep") ELSE Goto(w, "test", "recheck")
    /\ UNCHANGED <<m_shutdown, m_que_tasks, m_queue_mutex, p_task, client, arg,
                   joined, added, taken, finished>>

\* pthread_cond_wait: release the mutex and block, in one step.
CondWait(w) ==
    /\ Goto(w, "sleep", "waiting")
    /\ m_queue_mutex' = NoOne
    /\ UNCHANGED <<m_shutdown, m_que_tasks, p_task, client, arg, joined,
                   added, taken, finished>>

\* POSIX lets pthread_cond_wait return without a signal.
SpuriousWakeup(w) ==
    /\ Goto(w, "waiting", "relock")
    /\ UNCHANGED <<m_shutdown, m_que_tasks, m_queue_mutex, p_task, client, arg,
                   joined, added, taken, finished>>

\* A woken thread first takes the mutex again.
Reacquire(w, next) ==
    /\ Goto(w, "relock", next)
    /\ m_queue_mutex = NoOne
    /\ m_queue_mutex' = w
    /\ UNCHANGED <<m_shutdown, m_que_tasks, p_task, client, arg, joined,
                   added, taken, finished>>

\* Mutant: `if` instead of `while` around pthread_cond_wait.
RelockUnderIf(w) == Reacquire(w, "recheck")

\* Then it goes back to the loop condition.
Relock(w) == Reacquire(w, "test")

\* The second look at m_shutdown: the pool is down, get_task returns NULL.
TakeNothing(w) ==
    /\ m_shutdown
    /\ Goto(w, "recheck", "decide")
    /\ m_queue_mutex' = NoOne
    /\ UNCHANGED <<m_shutdown, m_que_tasks, p_task, client, arg, joined,
                   added, taken, finished>>

\* The pool is up: the front of the queue goes to w, unlock.
TakeTask(w) ==
    /\ ~m_shutdown
    /\ Goto(w, "recheck", "decide")
    /\ p_task' = [p_task EXCEPT ![w] = Head(m_que_tasks)]
    /\ m_que_tasks' = Tail(m_que_tasks)
    /\ taken' = Append(taken, Head(m_que_tasks))
    /\ m_queue_mutex' = NoOne
    /\ UNCHANGED <<m_shutdown, client, arg, joined, added, finished>>

\* Back in run(): w leaves its loop with whatever it holds thrown away.
LeaveLoop(w) ==
    /\ Goto(w, "decide", "exited")
    /\ p_task' = [p_task EXCEPT ![w] = NoTask]
    /\ UNCHANGED <<m_shutdown, m_que_tasks, m_queue_mutex, client, arg, joined,
                   added, taken, finished>>

\* Mutant: the exit branch no longer depends on the pool being down.
ExitAnyTime(w) == LeaveLoop(w)

\* A NULL task, or a third look at m_shutdown that finds the pool down, ends
\* the thread; a task in hand is freed without having run.
ExitThread(w) == (p_task[w] = NoTask \/ m_shutdown) /\ LeaveLoop(w)

KeepTask(w) ==
    /\ p_task[w] # NoTask /\ ~m_shutdown
    /\ Goto(w, "decide", "run")
    /\ UNCHANGED <<m_shutdown, m_que_tasks, m_queue_mutex, p_task, client, arg,
                   joined, added, taken, finished>>

\* p_task->run() returns, the task is freed, the loop starts over.
RunTask(w) ==
    /\ Goto(w, "run", "lock")
    /\ finished' = finished \cup {p_task[w]}
    /\ p_task' = [p_task EXCEPT ![w] = NoTask]
    /\ UNCHANGED <<m_shutdown, m_que_tasks, m_queue_mutex, client, arg, joined,
                   added, taken>>

-----------------------------------------------------------------------------
(* ThreadPoolManager::init_workthreads, add_task, pool_destroy: the client *)

\* The client moves on without touching anything but its own control state.
ClientGoto(from, to) == client = from /\ client' = to

InitPool ==
    /\ ClientGoto("new", "starting")
    /\ m_shutdown' = FALSE
    /\ UNCHANGED <<m_que_tasks, m_queue_mutex, pc, p_task, arg, joined,
                   added, taken, finished>>

\* WorkThread::start: a pthread_create that fails leaves the object in
\* m_vec_workthreads without a thread; init_workthreads does not look.
StartThread(w) ==
    /\ client = "starting"
    /\ \E outcome \in {"lock", "failed"} : Goto(w, "unborn", outcome)
    /\ UNCHANGED <<m_shutdown, m_que_tasks, m_queue_mutex, p_task, client, arg,
                   joined, added, taken, finished>>

FinishInit ==
    /\ ClientGoto("starting", "ready")
    /\ \A w \in Workers : pc[w] # "unborn"
    /\ UNCHANGED <<m_shutdown, m_que_tasks, m_queue_mutex, pc, p_task, arg,
                   joined, added, taken, finished>>

\* The client calls add_task with a task it has just created.
CallAddTask(t) ==
    /\ ClientGoto("ready", "lock")
    /\ \A i \in 1..Len(added) : added[i] # t
    /\ arg' = t
    /\ UNCHANGED <<m_shutdown, m_que_tasks, m_queue_mutex, pc, p_task, joined,
                   added, taken, finished>>

LockToAdd ==
    /\ ClientGoto("lock", "push")
    /\ m_queue_mutex = NoOne
    /\ m_queue_mutex' = Main
    /\ UNCHANGED <<m_shutdown, m_que_tasks, pc, p_task, arg, joined,
                   added, taken, finished>>

PushThen(next) ==
    /\ ClientGoto("push", next)
    /\ m_que_tasks' = Append(m_que_tasks, arg)
    /\ added' = Append(added, arg)
    /\ m_queue_mutex' = NoOne
    /\ arg' = NoTask
    /\ UNCHANGED <<m_shutdown, pc, p_task, joined, taken, finished>>

\* Mutant: add_task returns without pthread_cond_signal.
PushUnsignalled == PushThen("ready")

\* Push and unlock; the signal comes after the unlock.
PushTask == PushThen("signal")

\* pthread_cond_signal wakes one waiting thread, if there is one.
Signal ==
    /\ ClientGoto("signal", "ready")
    /\ \/ Waiting = {} /\ UNCHANGED pc
       \/ \E w \in Waiting : pc' = [pc EXCEPT ![w] = "relock"]
    /\ UNCHANGED <<m_shutdown, m_que_tasks, m_queue_mutex, p_task, arg, joined,
                   added, taken, finished>>

\* pool_destroy raises m_shutdown without taking the mutex.
RaiseShutdown ==
    /\ ClientGoto("ready", "broadcast")
    /\ ~m_shutdown
    /\ m_shutdown' = TRUE
    /\ UNCHANGED <<m_que_tasks, m_queue_mutex, pc, p_task, arg, joined,
                   added, taken, finished>>

\* Mutant: pthread_cond_signal where pool_destroy broadcasts.
BroadcastToOne ==
    /\ ClientGoto("broadcast", "join")
    /\ \/ Waiting = {} /\ UNCHANGED pc
       \/ \E w \in Waiting : pc' = [pc EXCEPT ![w] = "relock"]
    /\ UNCHANGED <<m_shutdown, m_que_tasks, m_queue_mutex, p_task, arg, joined,
                   added, taken, finished>>

Broadcast ==
    /\ ClientGoto("broadcast", "join")
    /\ pc' = [w \in Workers |-> IF pc[w] = "waiting" THEN "relock" ELSE pc[w]]
    /\ UNCHANGED <<m_shutdown, m_que_tasks, m_queue_mutex, p_task, arg, joined,
                   added, taken, finished>>

\* pthread_join on a worker, then its object is deleted.  Joining the unset
\* m_pt_id of a thread that was never created is undefined: it fails at once
\* or takes the process down.
Join(w) ==
    /\ client = "join"
    /\ w \notin joined
    /\ \/ pc[w] = "exited" /\ joined' = joined \cup {w} /\ UNCHANGED client
       \/ pc[w] = "failed" /\ joined' = joined \cup {w} /\ UNCHANGED client
       \/ pc[w] = "failed" /\ client' = "crashed" /\ UNCHANGED joined
    /\ UNCHANGED <<m_shutdown, m_que_tasks, m_queue_mutex, pc, p_task, arg,
                   added, taken, finished>>

FinishDestroy ==
    /\ ClientGoto("join", "destroyed")
    /\ joined = Workers
    /\ UNCHANGED <<m_shutdown, m_que_tasks, m_queue_mutex, pc, p_task, arg,
                   joined, added, taken, finished>>

-----------------------------------------------------------------------------
GetTask(w) ==
    \/ LockQueue(w) \/ TestQueue(w) \/ CondWait(w) \/ Relock(w)
    \/ TakeNothing(w) \/ TakeTask(w)

WorkThreadRun(w) == GetTask(w) \/ ExitThread(w) \/ KeepTask(w) \/ RunTask(w)

InitWorkThreads == InitPool \/ (\E w \in Workers : StartThread(w)) \/ FinishInit

AddTask == LockToAdd \/ PushTask \/ Signal

PoolDestroy == Broadcast \/ (\E w \in Workers : Join(w)) \/ FinishDestroy

Next ==
    \/ \E w \in Workers : WorkThreadRun(w) \/ SpuriousWakeup(w)
    \/ InitWorkThreads
    \/ \E t \in Tasks : CallAddTask(t)
    \/ AddTask
    \/ RaiseShutdown
    \/ PoolDestroy

Spec == Init /\ [][Next]_vars

\* Threads are scheduled and run() of a task returns; a call once begun goes
\* on.  Nothing forces the client to add a task or to destroy the pool, and
\* no spurious wakeup need ever come.
Fairness ==
    /\ \A w \in Workers : WF_vars(WorkThreadRun(w))
    /\ WF_vars(InitWorkThreads) /\ WF_vars(AddTask) /\ WF_vars(PoolDestroy)

FairSpec == Spec /\ Fairness

-----------------------------------------------------------------------------
(* Properties *)

\* The shape of the pool's state (threadpool.h:44-53 and run()'s locals).
TypeOK ==
    /\ m_shutdown \in BOOLEAN
    /\ m_que_tasks \in Seq(Tasks)
    /\ m_queue_mutex \in Workers \cup {Main, NoOne}
    /\ pc \in [Workers -> {"unborn", "failed", "lock", "test", "sleep", "waiting",
                           "relock", "recheck", "decide", "run", "exited"}]
    /\ p_task \in [Workers -> Tasks \cup {NoTask}]
    /\ client \in {"new", "starting", "ready", "lock", "push", "signal",
                   "broadcast", "join", "destroyed", "crashed"}
    /\ arg \in Tasks \cup {NoTask}
    /\ joined \subseteq Workers
    /\ added \in Seq(Tasks) /\ taken \in Seq(Tasks)
    /\ finished \subseteq Tasks

\* Tasks are taken in the order they were added and none is lost, doubled or
\* overtaken on its way through the queue: what was added is what was taken
\* followed by what still waits.
QueueInOrder == added = taken \o m_que_tasks

\* get_task decides to pop on one reading of m_shutdown and pops on another;
\* whatever happens in between, it never calls front() on an empty queue.
PopNeverEmpty ==
    \A w \in Workers : pc[w] = "recheck" /\ ~m_shutdown => m_que_tasks # <<>>

\* The threads awake inside get_task that will look at the queue again.
Heading == {w \in Workers : pc[w] \in {"lock", "relock", "test", "recheck"}}

\* No lost wakeup: while a worker sleeps on a pool that is up, every waiting
\* task has a worker awake and on its way to the queue, or the signal for it
\* is about to be sent.
NoLostWakeup ==
    ~m_shutdown /\ Waiting # {} =>
        Len(m_que_tasks) <= Cardinality(Heading) + (IF client = "signal" THEN 1 ELSE 0)

\* While the pool is up, a task taken from the queue has run or is in the hands
\* of exactly one worker, which has it for good until run() returns.
TakenIsServed ==
    /\ ~m_shutdown => \A i \in 1..Len(taken) :
          taken[i] \in finished \/ \E w \in Workers : p_task[w] = taken[i]
    /\ \A v, w \in Workers : p_task[v] # NoTask /\ p_task[v] = p_task[w] => v = w
    /\ \A w \in Workers : p_task[w] \notin finished

\* The pool implements the promise of TaskPool.
Promise == INSTANCE TaskPool WITH
    queue <- m_que_tasks, hand <- p_task, open <- ~m_shutdown
ImplementsTaskPool == Promise!Spec

\* A task added to a pool that stays up is run to the end, as long as at least
\* one thread could be created.
TaskIsRun ==
    \A t \in Tasks :
        (\E i \in 1..Len(added) : added[i] = t)
            ~> (t \in finished \/ m_shutdown \/ \A w \in Workers : pc[w] = "failed")

\* pool_destroy returns, unless some worker had found m_shutdown false and was
\* not yet asleep when it was raised: the broadcast passes that worker by, it
\* sleeps for good and the join waits for it for good.
DestroyReturns ==
    client = "broadcast" /\ (\A w \in Workers : pc[w] # "sleep")
        ~> client \in {"destroyed", "crashed"}
=============================================================================
