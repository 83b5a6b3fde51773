------------------------------ MODULE TaskPool ------------------------------
(***************************************************************************)
(* What the pool of threadpool.cpp promises to its client, without         *)
(* threads, mutex or condition variable: tasks leave the queue in the      *)
(* order they were added, each into the hands of one worker, and a worker  *)
(* gives a task up unfinished only when the pool is closed.                *)
(***************************************************************************)
EXTENDS Naturals, Sequences

CONSTANTS Workers,   \* the threads that serve the queue
          Tasks,     \* the WorkTask objects a client may add
          NoTask     \* the NULL task

VARIABLES queue,     \* tasks added and not yet taken, oldest first
          hand,      \* the task each worker holds
          added,     \* every task ever added, in order
          finished,  \* the tasks whose run() has returned
          open       \* whether the pool accepts and serves tasks

vars == <<queue, hand, added, finished, open>>

Init ==
    /\ queue = <<>>
    /\ hand = [w \in Workers |-> NoTask]
    /\ added = <<>>
    /\ finished = {}
    /\ open = FALSE

\* Initialising the pool, and destroying it.
Open  == open' = TRUE  /\ UNCHANGED <<queue, hand, added, finished>>
Close == open' = FALSE /\ UNCHANGED <<queue, hand, added, finished>>

\* The client hands over a task it has never handed over before.
Add(t) ==
    /\ \A i \in 1..Len(added) : added[i] # t
    /\ queue' = Append(queue, t)
    /\ added' = Append(added, t)
    /\ UNCHANGED <<hand, finished, open>>

\* An empty-handed worker takes the oldest task of an open pool.
Take(w) ==
    /\ open
    /\ hand[w] = NoTask
    /\ queue # <<>>
    /\ hand' = [hand EXCEPT ![w] = Head(queue)]
    /\ queue' = Tail(queue)
    /\ UNCHANGED <<added, finished, open>>

\* The worker has run its task to the end; no task is finished twice.
Finish(w) ==
    /\ hand[w] # NoTask
    /\ hand[w] \notin finished
    /\ finished' = finished \cup {hand[w]}
    /\ hand' = [hand EXCEPT ![w] = NoTask]
    /\ UNCHANGED <<queue, added, open>>

\* A worker of a closed pool throws its task away unrun.
Discard(w) ==
    /\ ~open
    /\ hand[w] # NoTask
    /\ hand' = [hand EXCEPT ![w] = NoTask]
    /\ UNCHANGED <<queue, added, finished, open>>

Next ==
    \/ Open \/ Close
    \/ \E t \in Tasks : Add(t)
    \/ \E w \in Workers : Take(w) \/ Finish(w) \/ Discard(w)

Spec == Init /\ [][Next]_vars
=============================================================================
