------------------------- MODULE JudgeManagerProofs -------------------------
(***************************************************************************)
(* Theorems about JudgeManager, for any number of workers, submissions,    *)
(* problems and connections.  The invariants come in layers: the counts of *)
(* the two semaphores (Counts), who is where and holds what (Control), the *)
(* judges' flags (Flags), and the place of each submission (InOnePlace).   *)
(***************************************************************************)
EXTENDS JudgeManager, FunctionTheorems, FiniteSetTheorems, SequenceTheorems,
        WellFoundedInduction, TLAPS

Task == Submissions \X {"Debug", "Release"}

\* The shape of the thread pool's state, as the manager uses it.
PoolTypes ==
    /\ m_que_tasks \in Seq(Task)
    /\ hand \in [Workers -> Task \cup {NULL}]
    /\ finished \subseteq Task /\ IsFiniteSet(finished)
    /\ open = TRUE

\* A worker with a judge to pick or to work with; one with a task that is not
\* done; one that passed jm_sem_judge and has not posted it again.
Busy    == {w \in Workers : pc[w] \notin {"idle", "return"}}
Holding == {w \in Workers : pc[w] \in Held}
PastSem == {w \in Workers : pc[w] \in {"lock1", "pick", "post1"} \cup Held}

\* jm_sem_judge counts the judges nobody has passed it for.
JudgesConserved == jm_sem_judge + Cardinality(PastSem) = JUDGES_NUM

Counts == PermitsConserved /\ JudgesConserved

\* jm_lock_judge is held exactly by the thread inside a critical section.
MutexInv ==
    /\ \A w \in Workers :
          pc[w] \in {"pick", "find", "connect", "limits", "tests", "giveback", "copy",
                     "outdir", "flag"} <=> jm_lock_judge = w
    /\ main = "locked" <=> jm_lock_judge = Main

\* A worker holds a task from get_task to the end of run(), the loop a
\* submission from the query to add_task.
HandInv ==
    /\ \A w \in Workers : hand[w] = NULL <=> pc[w] = "idle"
    /\ main \in {"srcdir", "locked", "fetch", "debug", "release"} =>
          submit \in Submissions

\* A worker holds a connection only inside fetch_problem_from_db.
ConnInv ==
    \A w \in Workers : db_con[w] # NULL => pc[w] \in {"limits", "tests", "giveback"}

\* What get_problem found absent stays absent while it holds the mutex.
AbsentInv ==
    \A w \in Workers : pc[w] \in {"connect", "limits", "tests"} =>
        jm_prob_lists[Problem(w)] = "absent"

\* A judge in use is in the hands of one worker, and no other is flagged Used.
Flags ==
    /\ \A w \in Holding : p_jdg[w] \in Judges /\ jm_judges_flag[p_jdg[w]] = "Used"
    /\ \A v, w \in Holding : p_jdg[v] = p_jdg[w] => v = w
    /\ \A j \in Judges : jm_judges_flag[j] = "Used" => \E w \in Holding : p_jdg[w] = j

Control == TypeOK /\ PoolTypes /\ MutexInv /\ HandInv /\ ConnInv /\ AbsentInv

PcType == pc \in [Workers -> {"idle", "semjudge", "lock1", "pick", "post1", "post2",
                              "return"} \cup Held]

-----------------------------------------------------------------------------
(* The counts *)

\* Sets of workers are finite, and grow and shrink by one.
LEMMA WorkersCard ==
  ASSUME NEW S \in SUBSET Workers
  PROVE  /\ IsFiniteSet(S)
         /\ Cardinality(S) \in Nat
         /\ Cardinality(S) <= JUDGES_NUM
         /\ JUDGES_NUM \in Nat
BY ManagerAssumption, FS_Subset, FS_CardinalityType DEF JUDGES_NUM

LEMMA OneMore ==
  ASSUME NEW S \in SUBSET Workers, NEW w \in Workers \ S
  PROVE  Cardinality(S \cup {w}) = Cardinality(S) + 1
BY WorkersCard, FS_AddElement

LEMMA OneLess ==
  ASSUME NEW S \in SUBSET Workers, NEW w \in S
  PROVE  Cardinality(S \ {w}) = Cardinality(S) - 1
BY WorkersCard, FS_RemoveElement

\* The steps of loop_routine: a permit becomes a submission in its hands, and
\* that a task in the queue.
LEMMA CountsLoop ==
  ASSUME Control, Counts,
         LoopRoutine \/ QueryEmpty \/ ProcessEnds \/ Gone
           \/ \E s \in Submissions : Submit(s)
  PROVE  /\ Counts'
         /\ jm_sem_judge' \in Nat /\ jm_sem_fetch_submissions' \in Nat
<1> USE DEF loop, pool, tasks, judges, MainGoto
<1>0. /\ jm_sem_judge \in Nat /\ jm_sem_fetch_submissions \in Nat
      /\ m_que_tasks \in Seq(Task) /\ Len(m_que_tasks) \in Nat
      /\ Cardinality(PastSem) \in Nat /\ Cardinality(Busy) \in Nat
      /\ JUDGES_NUM \in Nat
  BY WorkersCard, LenProperties DEF Control, TypeOK, PoolTypes, PastSem, Busy
<1> DEFINE fetching(m) == IF m \in {"wait", "more", "update"} THEN 0 ELSE 1
<1>1. PastSem' = PastSem /\ Busy' = Busy /\ jm_sem_judge' = jm_sem_judge
  BY DEF PastSem, Busy, LoopRoutine, QueryEmpty, ProcessEnds, Gone, Submit, WaitPermit,
     MainConnect, QueryFindsOne, TryLockForSrcDir, UnlockSrcDir, MainRelease, AddDebug,
     AddRelease, AddIf, TryPermit, UpdateResults, QueryFails, WorkDirFails,
     NoSuchProblem, Ends, vars
<1>2. JudgesConserved'
  BY <1>1 DEF Counts, JudgesConserved
<1>3. ASSUME jm_sem_fetch_submissions' \in Nat,
             jm_sem_fetch_submissions' + fetching(main') + Len(m_que_tasks')
               = jm_sem_fetch_submissions + fetching(main) + Len(m_que_tasks)
      PROVE  PermitsConserved'
  BY <1>0, <1>1, <1>3 DEF Counts, PermitsConserved, Busy
<1>4. CASE WaitPermit
  BY <1>0, <1>1, <1>2, <1>3, <1>4 DEF WaitPermit, Counts
<1>5. CASE TryPermit
  BY <1>0, <1>1, <1>2, <1>3, <1>5 DEF TryPermit, Counts
<1>6. CASE AddRelease
  <2>1. submit \in Submissions
    BY <1>6 DEF AddRelease, AddIf, Control, HandInv
  <2>2. Len(m_que_tasks') = Len(m_que_tasks) + 1
    BY <1>0, <1>6, <2>1, AppendProperties DEF AddRelease, AddIf, Pool!Add, Task
  <2> QED BY <1>0, <1>1, <1>2, <1>3, <1>6, <2>2 DEF AddRelease, AddIf, Counts
<1>7. CASE /\ fetching(main') = fetching(main)
           /\ UNCHANGED <<m_que_tasks, jm_sem_fetch_submissions>>
  BY <1>0, <1>1, <1>2, <1>3, <1>7 DEF Counts
<1>8. CASE AddDebug
  BY <1>7, <1>8 DEF AddDebug, AddIf
<1> QED
  BY <1>4, <1>5, <1>6, <1>7, <1>8
  DEF LoopRoutine, QueryEmpty, ProcessEnds, Gone, Submit, MainConnect, QueryFindsOne,
      TryLockForSrcDir, UnlockSrcDir, MainRelease, UpdateResults, QueryFails,
      WorkDirFails, NoSuchProblem, Ends, vars

\* The steps of a worker: a task leaves the queue, a judge is taken, given back,
\* and the loop told.
LEMMA CountsWorker ==
  ASSUME Control, Counts, NEW w \in Workers, JudgeTaskRun(w)
  PROVE  /\ Counts'
         /\ jm_sem_judge' \in Nat /\ jm_sem_fetch_submissions' \in Nat
<1>0. /\ jm_sem_judge \in Nat /\ jm_sem_fetch_submissions \in Nat
      /\ m_que_tasks \in Seq(Task) /\ Len(m_que_tasks) \in Nat
      /\ Cardinality(PastSem) \in Nat /\ Cardinality(Busy) \in Nat
      /\ JUDGES_NUM \in Nat /\ PcType
  BY WorkersCard, LenProperties DEF Control, TypeOK, PoolTypes, PastSem, Busy, PcType
<1> DEFINE n == IF main \in {"wait", "more", "update"} THEN 0 ELSE 1
<1>a. /\ n \in Nat
      /\ jm_sem_fetch_submissions + n + Len(m_que_tasks) + Cardinality(Busy)
           = JUDGES_NUM
      /\ jm_sem_judge + Cardinality(PastSem) = JUDGES_NUM
  BY DEF Counts, PermitsConserved, JudgesConserved, Busy
<1>b. ASSUME main' = main,
             jm_sem_fetch_submissions' + n + Len(m_que_tasks') + Cardinality(Busy')
               = JUDGES_NUM,
             jm_sem_judge' + Cardinality(PastSem') = JUDGES_NUM
      PROVE  Counts'
  BY <1>b DEF Counts, PermitsConserved, JudgesConserved, Busy, JUDGES_NUM
<1> USE DEF loop, pool, tasks, judges, Goto, Held, PcType
<1> HIDE DEF n
<1>1. CASE TakeTask(w)
  <2>1. PastSem' = PastSem /\ Busy' = Busy \cup {w} /\ w \notin Busy
    BY <1>0, <1>1 DEF TakeTask, PastSem, Busy
  <2>2. Cardinality(Busy') = Cardinality(Busy) + 1
    BY <2>1, OneMore DEF Busy
  <2>3. Len(m_que_tasks') = Len(m_que_tasks) - 1
    BY <1>0, <1>1, HeadTailProperties DEF TakeTask, Pool!Take
  <2> QED BY <1>0, <1>a, <1>b, <1>1, <2>1, <2>2, <2>3 DEF TakeTask
<1>2. CASE WaitJudge(w)
  <2>1. PastSem' = PastSem \cup {w} /\ w \notin PastSem /\ Busy' = Busy
    BY <1>0, <1>2 DEF WaitJudge, PastSem, Busy
  <2>2. Cardinality(PastSem') = Cardinality(PastSem) + 1
    BY <2>1, OneMore DEF PastSem
  <2>3. /\ jm_sem_judge > 0 /\ jm_sem_judge' = jm_sem_judge - 1
        /\ UNCHANGED <<main, m_que_tasks, jm_sem_fetch_submissions>>
    BY <1>2 DEF WaitJudge
  <2> QED BY <1>0, <1>a, <1>b, <2>1, <2>2, <2>3
<1>3. CASE PostJudge(w)
  <2>1. PastSem' = PastSem \ {w} /\ w \in PastSem /\ Busy' = Busy
    BY <1>0, <1>3 DEF PostJudge, PastSem, Busy
  <2>2. Cardinality(PastSem') = Cardinality(PastSem) - 1
    BY <2>1, OneLess DEF PastSem
  <2>3. /\ jm_sem_judge' = jm_sem_judge + 1
        /\ UNCHANGED <<main, m_que_tasks, jm_sem_fetch_submissions>>
    BY <1>3 DEF PostJudge
  <2> QED BY <1>0, <1>a, <1>b, <2>1, <2>2, <2>3
<1>4. CASE PostFetch(w)
  <2>1. PastSem' = PastSem /\ Busy' = Busy \ {w} /\ w \in Busy
    BY <1>0, <1>4 DEF PostFetch, PastSem, Busy
  <2>2. Cardinality(Busy') = Cardinality(Busy) - 1
    BY <2>1, OneLess DEF Busy
  <2>3. /\ jm_sem_fetch_submissions' = jm_sem_fetch_submissions + 1
        /\ UNCHANGED <<main, m_que_tasks, jm_sem_judge>>
    BY <1>4 DEF PostFetch
  <2> QED BY <1>0, <1>a, <1>b, <2>1, <2>2, <2>3
<1>5. CASE /\ PastSem' = PastSem /\ Busy' = Busy
           /\ UNCHANGED <<main, m_que_tasks, jm_sem_judge, jm_sem_fetch_submissions>>
  BY <1>0, <1>a, <1>b, <1>5
<1>6. CASE Return(w)
  <2>1. PastSem' = PastSem /\ Busy' = Busy
    BY <1>0, <1>6 DEF Return, PastSem, Busy
  <2> QED BY <1>5, <1>6, <2>1 DEF Return, Pool!Finish
<1>7. CASE \/ LockForJudge(w) \/ PickJudge(w) \/ InitWorkDir(w) \/ GetLangJudge(w)
           \/ NoLangJudge(w) \/ GetProblem(w) \/ TryLockForOutputDir(w)
           \/ UnlockOutputDir(w) \/ JudgeAndClear(w) \/ LockForRelease(w)
           \/ FlagAvailable(w)
  <2>1. PastSem' = PastSem /\ Busy' = Busy
    BY <1>0, <1>7
    DEF PastSem, Busy, LockForJudge, PickJudge, PickThen, InitWorkDir, GetLangJudge,
        NoLangJudge, GetProblem, LockForProblem, FindProblem, Connect, QueryLimits,
        StoreProblem, NoTestCases, GiveBack, CopyProblem, CopyThen, TryLockForOutputDir,
        UnlockOutputDir, JudgeAndClear, LockForRelease, FlagAvailable, Lock, Quiet, Ends
  <2>2. UNCHANGED <<main, m_que_tasks, jm_sem_judge, jm_sem_fetch_submissions>>
    BY <1>7
    DEF LockForJudge, PickJudge, PickThen, InitWorkDir, GetLangJudge,
        NoLangJudge, GetProblem, LockForProblem, FindProblem, Connect, QueryLimits,
        StoreProblem, NoTestCases, GiveBack, CopyProblem, CopyThen, TryLockForOutputDir,
        UnlockOutputDir, JudgeAndClear, LockForRelease, FlagAvailable, Lock, Quiet, Ends
  <2> QED BY <1>5, <2>1, <2>2
<1> QED BY <1>1, <1>2, <1>3, <1>4, <1>6, <1>7 DEF JudgeTaskRun, ReleaseJudge

-----------------------------------------------------------------------------
(* Who is where and holds what *)

\* The problem of a worker with a task in hand.
LEMMA ProblemType ==
  ASSUME PoolTypes, NEW w \in Workers, hand[w] # NULL
  PROVE  /\ hand[w][1] \in Submissions
         /\ Problem(w) \in Problems
BY ManagerAssumption DEF PoolTypes, Task, Problem

\* What FirstAvailable returns: an available judge, NULL when there is none.
LEMMA FirstFinds ==
  ASSUME jm_judges_flag \in [Judges -> {"Available", "Used"}]
  PROVE  /\ FirstAvailable \in Judges \cup {NULL}
         /\ FirstAvailable # NULL => jm_judges_flag[FirstAvailable] = "Available"
         /\ FirstAvailable = NULL => \A j \in Judges : jm_judges_flag[j] = "Used"
<1> DEFINE free == {j \in Judges : jm_judges_flag[j] = "Available"}
           less == {p \in Nat \X Nat : p[1] < p[2]}
<1>1. CASE free = {}
  BY <1>1 DEF FirstAvailable, FirstOf
<1>2. CASE free # {}
  <2>1. free \in SUBSET Nat /\ NULL \notin free
    BY ManagerAssumption, WorkersCard DEF Judges
  <2>2. IsWellFoundedOn(less, Nat)
    BY NatLessThanWellFounded, Zenon DEF OpToRel
  <2>3. PICK j \in free : \A k \in free : <<k, j>> \notin less
    BY <1>2, <2>1, <2>2, WFMin
  <2>4. \A k \in free : ~ (k < j)
    BY <2>1, <2>3
  <2>5. \A k \in free : j <= k
    BY <2>1, <2>4
  <2>6. FirstAvailable \in free
    BY <1>2, <2>5 DEF FirstAvailable, FirstOf
  <2> QED BY <2>1, <2>6
<1> QED BY <1>1, <1>2

\* Three steps change the pool: a task added, taken, done.
LEMMA PoolStep ==
  ASSUME Control, [Next]_vars
  PROVE  PoolTypes'
<1> USE DEF PoolTypes, loop, pool, tasks, judges
<1>0. PoolTypes
  BY DEF Control
<1>1. CASE AddRelease
  <2>1. <<submit, "Release">> \in Task
    BY <1>1 DEF AddRelease, AddIf, MainGoto, Control, HandInv, Task
  <2>2. Append(m_que_tasks, <<submit, "Release">>) \in Seq(Task)
    BY <1>0, <2>1, AppendProperties
  <2> QED BY <1>0, <1>1, <2>2 DEF AddRelease, AddIf, Pool!Add
<1>2. ASSUME NEW w \in Workers, TakeTask(w)
      PROVE  PoolTypes'
  <2>1. Head(m_que_tasks) \in Task /\ Tail(m_que_tasks) \in Seq(Task)
    BY <1>0, <1>2, HeadTailProperties DEF TakeTask, Pool!Take
  <2> QED BY <1>0, <1>2, <2>1 DEF TakeTask, Pool!Take
<1>3. ASSUME NEW w \in Workers, Return(w)
      PROVE  PoolTypes'
  <2>1. hand[w] \in Task
    BY <1>0, <1>3 DEF Return, Pool!Finish
  <2>2. IsFiniteSet(finished \cup {hand[w]})
    BY <1>0, FS_AddElement
  <2> QED BY <1>0, <1>3, <2>1, <2>2 DEF Return, Pool!Finish
<1>4. CASE UNCHANGED pool
  BY <1>0, <1>4
<1>5. CASE AddDebug
  BY <1>4, <1>5 DEF AddDebug, AddIf
<1> QED
  BY <1>1, <1>2, <1>3, <1>4, <1>5
  DEF Next, LoopRoutine, QueryEmpty, ProcessEnds, Gone, Submit, WaitPermit,
      MainConnect, QueryFindsOne, TryLockForSrcDir, UnlockSrcDir, MainRelease,
      TryPermit, UpdateResults, QueryFails, WorkDirFails, NoSuchProblem, Ends, vars,
      JudgeTaskRun, WaitJudge, LockForJudge, PickJudge, PickThen, InitWorkDir,
      GetLangJudge, NoLangJudge, GetProblem, LockForProblem, FindProblem, Connect,
      QueryLimits, StoreProblem, NoTestCases, GiveBack, CopyProblem, CopyThen,
      TryLockForOutputDir, UnlockOutputDir, JudgeAndClear, ReleaseJudge,
      LockForRelease, FlagAvailable, PostJudge, PostFetch, Lock, Quiet

LEMMA CountsStep ==
  ASSUME Control, Counts, [Next]_vars
  PROVE  /\ Counts'
         /\ jm_sem_judge' \in 0..JUDGES_NUM
         /\ jm_sem_fetch_submissions' \in 0..JUDGES_NUM
<1>1. /\ Counts'
      /\ jm_sem_judge' \in Nat /\ jm_sem_fetch_submissions' \in Nat
  <2>1. CASE UNCHANGED vars
    BY <2>1 DEF vars, loop, pool, tasks, judges, Counts, PermitsConserved,
       JudgesConserved, PastSem, Control, TypeOK
  <2> QED BY <2>1, CountsLoop, CountsWorker DEF Next
<1>2. /\ Len(m_que_tasks') \in Nat
      /\ Cardinality(PastSem') \in Nat /\ Cardinality(Busy') \in Nat
      /\ JUDGES_NUM \in Nat /\ JUDGES_NUM' = JUDGES_NUM
  BY PoolStep, WorkersCard, LenProperties DEF PoolTypes, PastSem, Busy, JUDGES_NUM
<1> QED BY <1>1, <1>2 DEF Counts, PermitsConserved, JudgesConserved, Busy

\* The steps of the loop, and those that end the process.
LEMMA ControlLoop ==
  ASSUME Control, Counts,
         LoopRoutine \/ QueryEmpty \/ ProcessEnds \/ Gone
           \/ \E s \in Submissions : Submit(s)
  PROVE  Control'
<1>0. [Next]_vars
  BY DEF Next
<1>1. /\ PoolTypes'
      /\ jm_sem_judge' \in 0..JUDGES_NUM
      /\ jm_sem_fetch_submissions' \in 0..JUDGES_NUM
  BY <1>0, PoolStep, CountsStep
<1> USE <1>1, ManagerAssumption
    DEF Control, TypeOK, MutexInv, HandInv, ConnInv, AbsentInv, Problem, MainGoto,
        loop, pool, tasks, judges, Held, Conns!Acquire, Conns!Release, Conns!Free
<1>2. CASE WaitPermit          BY <1>2 DEF WaitPermit
<1>3. CASE MainConnect         BY <1>3 DEF MainConnect
<1>4. CASE QueryEmpty \/ Gone  BY <1>4 DEF QueryEmpty, Gone, vars
<1>5. ASSUME NEW s \in Submissions, QueryFindsOne(s) \/ Submit(s)
      PROVE  Control'
  BY <1>5 DEF QueryFindsOne, Submit
<1>6. CASE TryLockForSrcDir    BY <1>6 DEF TryLockForSrcDir
<1>7. CASE UnlockSrcDir        BY <1>7 DEF UnlockSrcDir
<1>8. CASE MainRelease         BY <1>8 DEF MainRelease
<1>9. CASE AddDebug            BY <1>9 DEF AddDebug, AddIf
<1>10. CASE AddRelease         BY <1>10 DEF AddRelease, AddIf, Pool!Add
<1>11. CASE TryPermit          BY <1>11 DEF TryPermit
<1>12. CASE UpdateResults      BY <1>12 DEF UpdateResults
<1>13. CASE ProcessEnds
  BY <1>13 DEF ProcessEnds, QueryFails, WorkDirFails, NoSuchProblem, Ends
<1> QED BY <1>2, <1>3, <1>4, <1>5, <1>6, <1>7, <1>8, <1>9, <1>10, <1>11, <1>12, <1>13
        DEF LoopRoutine

\* The steps of a worker up to the verdict.
LEMMA ControlWorker ==
  ASSUME Control, Counts, NEW w \in Workers, JudgeTaskRun(w)
  PROVE  Control'
<1>0. [Next]_vars
  BY DEF Next
<1>1. /\ PoolTypes'
      /\ jm_sem_judge' \in 0..JUDGES_NUM
      /\ jm_sem_fetch_submissions' \in 0..JUDGES_NUM
  BY <1>0, PoolStep, CountsStep
<1>2. \A v \in Workers : hand[v] # NULL => Problem(v) \in Problems
  BY ProblemType DEF Control
<1>3. FirstAvailable \in Judges \cup {NULL}
  BY FirstFinds DEF Control, TypeOK
<1> USE <1>1, <1>2, <1>3, ManagerAssumption
    DEF Control, TypeOK, MutexInv, HandInv, ConnInv, AbsentInv, Problem, Goto,
        loop, pool, tasks, judges, Held, Conns!Acquire, Conns!Release, Conns!Free,
        Quiet, Lock
<1>4. CASE TakeTask(w)
  <2>1. Head(m_que_tasks) \in Task /\ Head(m_que_tasks) # NULL
    BY <1>4, HeadTailProperties DEF TakeTask, Pool!Take, PoolTypes, Task
  <2> QED BY <1>4, <2>1 DEF TakeTask, Pool!Take, PoolTypes
<1>5. CASE WaitJudge(w)      BY <1>5 DEF WaitJudge
<1>6. CASE LockForJudge(w)   BY <1>6 DEF LockForJudge
<1>7. CASE PickJudge(w)      BY <1>7 DEF PickJudge, PickThen
<1>8. CASE InitWorkDir(w)    BY <1>8 DEF InitWorkDir
<1>9. CASE GetLangJudge(w)   BY <1>9 DEF GetLangJudge
<1>10. CASE NoLangJudge(w)   BY <1>10 DEF NoLangJudge, Ends
<1>11. CASE LockForProblem(w) BY <1>11 DEF LockForProblem
<1>12. CASE FindProblem(w)   BY <1>12 DEF FindProblem
<1>13. CASE Connect(w)       BY <1>13 DEF Connect
<1>14. CASE QueryLimits(w)   BY <1>14 DEF QueryLimits
<1>15. CASE StoreProblem(w)  BY <1>15 DEF StoreProblem
<1>16. CASE NoTestCases(w)   BY <1>16 DEF NoTestCases
<1>17. CASE GiveBack(w)      BY <1>17 DEF GiveBack
<1>18. CASE CopyProblem(w)   BY <1>18 DEF CopyProblem, CopyThen
<1>19. CASE TryLockForOutputDir(w) BY <1>19 DEF TryLockForOutputDir
<1>20. CASE UnlockOutputDir(w) BY <1>20 DEF UnlockOutputDir
<1>21. CASE JudgeAndClear(w) BY <1>21 DEF JudgeAndClear
<1>22. CASE LockForRelease(w) BY <1>22 DEF LockForRelease
<1>23. CASE FlagAvailable(w) BY <1>23 DEF FlagAvailable
<1>24. CASE PostJudge(w)     BY <1>24 DEF PostJudge
<1>25. CASE PostFetch(w)     BY <1>25 DEF PostFetch
<1>26. CASE Return(w)        BY <1>26 DEF Return, Pool!Finish, PoolTypes
<1> QED BY <1>4, <1>5, <1>6, <1>7, <1>8, <1>9, <1>10, <1>11, <1>12, <1>13, <1>14,
           <1>15, <1>16, <1>17, <1>18, <1>19, <1>20, <1>21, <1>22, <1>23, <1>24,
           <1>25, <1>26
        DEF JudgeTaskRun, GetProblem, ReleaseJudge

\* In the initial state every judge is free and every permit unused.
LEMMA ManagerInit == Init => Control /\ Counts /\ Flags
<1> SUFFICES ASSUME Init PROVE Control /\ Counts /\ Flags
  OBVIOUS
<1> USE ManagerAssumption DEF Init
<1>1. JUDGES_NUM \in Nat
  BY WorkersCard
<1>2. PoolTypes
  BY EmptySeq, FS_EmptySet DEF PoolTypes
<1>3. TypeOK
  BY <1>1 DEF TypeOK, Conns!Init
<1>4. MutexInv /\ HandInv /\ ConnInv /\ AbsentInv
  BY DEF MutexInv, HandInv, ConnInv, AbsentInv, Conns!Init
<1>5. Counts
  <2>1. PastSem = {} /\ Busy = {}
    BY DEF PastSem, Busy, Held
  <2>2. Cardinality(PastSem) = 0 /\ Cardinality(Busy) = 0 /\ Len(m_que_tasks) = 0
    BY <2>1, FS_EmptySet, EmptySeq
  <2> QED BY <1>1, <2>2 DEF Counts, PermitsConserved, JudgesConserved, Busy
<1>6. Flags
  BY DEF Flags, Holding, Held
<1> QED BY <1>2, <1>3, <1>4, <1>5, <1>6 DEF Control

\* The invariant of the bottom layers is inductive.
LEMMA ControlStep == Control /\ Counts /\ [Next]_vars => Control' /\ Counts'
<1> SUFFICES ASSUME Control, Counts, [Next]_vars PROVE Control' /\ Counts'
  OBVIOUS
<1>1. Counts'
  BY CountsStep
<1>2. Control'
  <2>1. CASE UNCHANGED vars
    BY <2>1 DEF vars, loop, pool, tasks, judges, Control, TypeOK, PoolTypes, MutexInv,
       HandInv, ConnInv, AbsentInv, Problem
  <2> QED BY <2>1, ControlLoop, ControlWorker DEF Next
<1> QED BY <1>1, <1>2

LEMMA ControlAlways == Spec => [](Control /\ Counts)
  BY ManagerInit, ControlStep, PTL DEF Spec

-----------------------------------------------------------------------------
(* The judges *)

\* A worker that passed jm_sem_judge and has no judge finds one that is free:
\* otherwise each judge would be in the hands of another worker, and there are
\* as many judges as workers.
LEMMA JudgeIsLeft ==
  ASSUME Control, Flags, NEW w \in Workers \ Holding
  PROVE  FirstAvailable # NULL
<1> SUFFICES ASSUME FirstAvailable = NULL PROVE FALSE
  OBVIOUS
<1> DEFINE holder(j) == CHOOSE v \in Holding : p_jdg[v] = j
           f == [j \in Judges |-> holder(j)]
<1>1. \A j \in Judges : jm_judges_flag[j] = "Used"
  BY FirstFinds DEF Control, TypeOK
<1>2. \A j \in Judges : holder(j) \in Holding /\ p_jdg[holder(j)] = j
  BY <1>1 DEF Flags
<1>3. f \in Injection(Judges, Workers \ {w})
  <2>1. Holding \subseteq Workers \ {w}
    BY DEF Holding
  <2>2. f \in [Judges -> Workers \ {w}]
    BY <1>2, <2>1
  <2>3. \A i, j \in Judges : f[i] = f[j] => i = j
    BY <1>2
  <2> QED BY <2>2, <2>3, Fun_IsInj
<1>4. /\ IsFiniteSet(Workers \ {w})
      /\ Cardinality(Workers \ {w}) = JUDGES_NUM - 1
  BY ManagerAssumption, FS_RemoveElement DEF JUDGES_NUM
<1>5. Cardinality(Judges) <= JUDGES_NUM - 1
  BY <1>3, <1>4, FS_Injection
<1>6. JUDGES_NUM \in Nat /\ Cardinality(Judges) = JUDGES_NUM
  BY WorkersCard, FS_Interval DEF Judges
<1> QED BY <1>5, <1>6

\* What get_judge and release_judge do to the flags.
LEMMA FlagsStep == Control /\ Flags /\ [Next]_vars => Flags'
<1> SUFFICES ASSUME Control, Flags, [Next]_vars PROVE Flags'
  OBVIOUS
<1>0. /\ PcType
      /\ p_jdg \in [Workers -> Judges \cup {NULL}]
      /\ jm_judges_flag \in [Judges -> {"Available", "Used"}]
      /\ NULL \notin Judges
  BY ManagerAssumption, WorkersCard DEF Control, TypeOK, PcType, Judges
<1> USE DEF loop, pool, tasks, judges, Goto, PcType, Held, JUDGES_NUM
<1>1. ASSUME NEW w \in Workers, PickJudge(w)
      PROVE  Flags'
  <2>1. w \notin Holding /\ Holding' = Holding \cup {w}
    BY <1>0, <1>1 DEF PickJudge, PickThen, Holding
  <2>2. FirstAvailable \in Judges /\ jm_judges_flag[FirstAvailable] = "Available"
    BY <1>0, <2>1, JudgeIsLeft, FirstFinds
  <2> DEFINE j == FirstAvailable
  <2>3. /\ p_jdg' = [p_jdg EXCEPT ![w] = j]
        /\ jm_judges_flag' = [i \in Judges |-> IF i = j THEN "Used" ELSE jm_judges_flag[i]]
    BY <1>1 DEF PickJudge, PickThen
  <2> HIDE DEF j
  <2>4. w \in Holding'
    BY <2>1
  <2>5. /\ p_jdg'[w] = j
        /\ \A v \in Holding : p_jdg'[v] = p_jdg[v] /\ p_jdg[v] # j
    BY <1>0, <2>1, <2>2, <2>3 DEF Holding, Flags, j
  <2> QED BY <1>0, <2>1, <2>2, <2>3, <2>4, <2>5 DEF Flags, j, Judges
<1>2. ASSUME NEW w \in Workers, FlagAvailable(w)
      PROVE  Flags'
  <2>1. w \in Holding /\ Holding' = Holding \ {w}
    BY <1>0, <1>2 DEF FlagAvailable, Holding
  <2>2. /\ p_jdg' = p_jdg
        /\ jm_judges_flag' = [i \in Judges |->
               IF i = p_jdg[w] THEN "Available" ELSE jm_judges_flag[i]]
    BY <1>2 DEF FlagAvailable
  <2> QED BY <1>0, <2>1, <2>2 DEF Flags, Judges
<1>3. ASSUME NEW w \in Workers, Return(w)
      PROVE  Flags'
  <2>1. w \notin Holding /\ Holding' = Holding
    BY <1>0, <1>3 DEF Return, Holding
  <2>2. jm_judges_flag' = jm_judges_flag /\ p_jdg' = [p_jdg EXCEPT ![w] = NULL]
    BY <1>3 DEF Return
  <2> QED BY <1>0, <2>1, <2>2 DEF Flags, Judges, Holding
<1>4. CASE Holding' = Holding /\ UNCHANGED <<p_jdg, jm_judges_flag>>
  BY <1>4 DEF Flags, Judges
<1>5. ASSUME NEW w \in Workers,
             \/ TakeTask(w) \/ WaitJudge(w) \/ LockForJudge(w) \/ InitWorkDir(w)
             \/ GetLangJudge(w) \/ NoLangJudge(w) \/ GetProblem(w)
             \/ TryLockForOutputDir(w) \/ UnlockOutputDir(w) \/ JudgeAndClear(w)
             \/ LockForRelease(w) \/ PostJudge(w) \/ PostFetch(w)
      PROVE  Holding' = Holding /\ UNCHANGED <<p_jdg, jm_judges_flag>>
  BY <1>0, <1>5
  DEF Holding, TakeTask, WaitJudge, LockForJudge, InitWorkDir, GetLangJudge,
      NoLangJudge, GetProblem, LockForProblem, FindProblem, Connect, QueryLimits,
      StoreProblem, NoTestCases, GiveBack, CopyProblem, CopyThen, TryLockForOutputDir,
      UnlockOutputDir, JudgeAndClear, LockForRelease, PostJudge, PostFetch, Lock,
      Quiet, Ends
<1>6. CASE LoopRoutine \/ QueryEmpty \/ ProcessEnds \/ Gone \/ UNCHANGED vars
             \/ \E s \in Submissions : Submit(s)
  <2>1. UNCHANGED <<pc, p_jdg, jm_judges_flag>>
    BY <1>6
    DEF LoopRoutine, QueryEmpty, ProcessEnds, Gone, Submit, WaitPermit, MainConnect,
        QueryFindsOne, TryLockForSrcDir, UnlockSrcDir, MainRelease, AddDebug, AddRelease,
        AddIf, TryPermit, UpdateResults, QueryFails, WorkDirFails, NoSuchProblem, Ends,
        vars
  <2> QED BY <1>4, <2>1 DEF Holding
<1> QED BY <1>1, <1>2, <1>3, <1>4, <1>5, <1>6 DEF Next, JudgeTaskRun, ReleaseJudge

LEMMA FlagsAlways == Spec => []Flags
  BY ManagerInit, FlagsStep, ControlAlways, PTL DEF Spec

\* The manager's variables keep their types: above all both semaphores stay
\* between 0 and the number of judges.
THEOREM ManagerTypeCorrect == Spec => []TypeOK
<1>1. Control => TypeOK
  BY DEF Control
<1> QED BY <1>1, ControlAlways, PTL

\* The permits of jm_sem_fetch_submissions, the submission in the loop, the
\* queue and the workers at work always add up to the number of judges, whatever
\* the threads do in whatever order.
THEOREM PermitsAreConserved == Spec => []PermitsConserved
<1>1. Counts => PermitsConserved
  BY DEF Counts
<1> QED BY <1>1, ControlAlways, PTL

\* A worker with a task gets a judge at once: jm_sem_judge never makes it wait,
\* and get_judge never returns NULL.
THEOREM JudgeIsAtHand == Spec => []JudgeAtHand
<1>1. ASSUME Control, Counts, Flags PROVE JudgeAtHand
  <2> SUFFICES ASSUME NEW w \in Workers
               PROVE  /\ pc[w] = "semjudge" => jm_sem_judge > 0
                      /\ pc[w] = "workdir" => p_jdg[w] # NULL
    BY DEF JudgeAtHand
  <2>1. ASSUME pc[w] = "semjudge" PROVE jm_sem_judge > 0
    <3>1. PastSem \subseteq Workers \ {w}
      BY <2>1 DEF PastSem, Held
    <3>2. Cardinality(PastSem) <= Cardinality(Workers \ {w})
      BY <3>1, WorkersCard, FS_Subset
    <3>3. Cardinality(Workers \ {w}) = JUDGES_NUM - 1
      BY ManagerAssumption, FS_RemoveElement DEF JUDGES_NUM
    <3>4. Cardinality(PastSem) \in Nat /\ JUDGES_NUM \in Nat /\ jm_sem_judge \in Nat
      BY <1>1, WorkersCard DEF PastSem, Control, TypeOK
    <3> QED BY <1>1, <3>2, <3>3, <3>4 DEF Counts, JudgesConserved
  <2>2. ASSUME pc[w] = "workdir" PROVE p_jdg[w] # NULL
    <3>1. p_jdg[w] \in Judges
      BY <1>1, <2>2 DEF Flags, Holding, Held
    <3> QED BY <3>1, ManagerAssumption, WorkersCard DEF Judges
  <2> QED BY <2>1, <2>2
<1> QED BY <1>1, ControlAlways, FlagsAlways, PTL

-----------------------------------------------------------------------------
(* The work directories: PickJudge acquires, FlagAvailable releases *)

LEMMA DirsInit == Init => WorkDirs!Init
  BY DEF Init, Dirs, Held, WorkDirs!Init

LEMMA DirsStep == Control /\ Flags /\ [Next]_vars => [WorkDirs!Next]_Dirs
<1> SUFFICES ASSUME Control, Flags, [Next]_vars
             PROVE  WorkDirs!Next \/ UNCHANGED Dirs
  OBVIOUS
<1>0. /\ PcType
      /\ p_jdg \in [Workers -> Judges \cup {NULL}]
      /\ NULL \notin Judges
  BY ManagerAssumption, WorkersCard DEF Control, TypeOK, PcType, Judges
<1> USE DEF loop, pool, tasks, judges, Goto, PcType, Held
<1>1. ASSUME NEW w \in Workers, PickJudge(w)
      PROVE  WorkDirs!Acquire(w, FirstAvailable) /\ FirstAvailable \in Judges
  <2>1. w \notin Holding
    BY <1>1 DEF PickJudge, PickThen, Holding
  <2>2. FirstAvailable \in Judges /\ jm_judges_flag[FirstAvailable] = "Available"
    BY <2>1, JudgeIsLeft, FirstFinds DEF Control, TypeOK
  <2>3. \A v \in Workers : Dirs[v] # FirstAvailable
    BY <1>0, <2>2 DEF Dirs, Flags, Holding
  <2>4. Dirs[w] = NULL
    BY <2>1 DEF Dirs, Holding
  <2>5. Dirs' = [Dirs EXCEPT ![w] = FirstAvailable]
    BY <1>0, <1>1, <2>2 DEF PickJudge, PickThen, Dirs
  <2> QED BY <2>2, <2>3, <2>4, <2>5 DEF WorkDirs!Acquire, WorkDirs!Free
<1>2. ASSUME NEW w \in Workers, FlagAvailable(w)
      PROVE  WorkDirs!Release(w)
  <2>1. Dirs[w] # NULL
    BY <1>0, <1>2 DEF FlagAvailable, Dirs, Flags, Holding
  <2>2. Dirs' = [Dirs EXCEPT ![w] = NULL]
    BY <1>0, <1>2 DEF FlagAvailable, Dirs
  <2> QED BY <2>1, <2>2 DEF WorkDirs!Release
<1>3. ASSUME NEW w \in Workers,
             \/ TakeTask(w) \/ WaitJudge(w) \/ LockForJudge(w) \/ InitWorkDir(w)
             \/ GetLangJudge(w) \/ NoLangJudge(w) \/ GetProblem(w)
             \/ TryLockForOutputDir(w) \/ UnlockOutputDir(w) \/ JudgeAndClear(w)
             \/ LockForRelease(w) \/ PostJudge(w) \/ PostFetch(w) \/ Return(w)
      PROVE  UNCHANGED Dirs
  BY <1>0, <1>3
  DEF Dirs, TakeTask, WaitJudge, LockForJudge, InitWorkDir, GetLangJudge,
      NoLangJudge, GetProblem, LockForProblem, FindProblem, Connect, QueryLimits,
      StoreProblem, NoTestCases, GiveBack, CopyProblem, CopyThen, TryLockForOutputDir,
      UnlockOutputDir, JudgeAndClear, LockForRelease, PostJudge, PostFetch, Return,
      Lock, Quiet, Ends
<1>4. CASE LoopRoutine \/ QueryEmpty \/ ProcessEnds \/ Gone \/ UNCHANGED vars
             \/ \E s \in Submissions : Submit(s)
  <2>1. UNCHANGED <<pc, p_jdg>>
    BY <1>4
    DEF LoopRoutine, QueryEmpty, ProcessEnds, Gone, Submit, WaitPermit, MainConnect,
        QueryFindsOne, TryLockForSrcDir, UnlockSrcDir, MainRelease, AddDebug, AddRelease,
        AddIf, TryPermit, UpdateResults, QueryFails, WorkDirFails, NoSuchProblem, Ends,
        vars
  <2> QED BY <2>1 DEF Dirs
<1> QED BY <1>1, <1>2, <1>3, <1>4
        DEF Next, JudgeTaskRun, ReleaseJudge, WorkDirs!Next

\* The judges, their flags, jm_lock_judge and jm_sem_judge are a pool of
\* exclusive resources: no two workers ever have one work directory.
THEOREM JudgesAreAPool == Spec => WorkDirsExclusive
  BY DirsInit, DirsStep, ControlAlways, FlagsAlways, PTL
  DEF Spec, WorkDirsExclusive, WorkDirs!Spec

-----------------------------------------------------------------------------
(* The connections and the problems *)

TwoConnections == \E a, b \in Connections : a # b

\* A worker in get_problem never waits for a connection when there are two:
\* jm_lock_judge keeps every other worker from holding one, and the loop holds
\* one at most.  (With DB_MAX_CONNECTIONS = 1 the worker waits for the loop,
\* which polls with its connection in hand.)
THEOREM ConnectionIsAtHand ==
  ASSUME TwoConnections
  PROVE  Spec => []ConnectionAtHand
<1>1. ASSUME Control PROVE ConnectionAtHand
  <2> SUFFICES ASSUME NEW w \in Workers, pc[w] = "connect"
               PROVE  Conns!Free # {}
    BY DEF ConnectionAtHand
  <2>1. \A v \in Workers : db_con[v] = NULL
    BY <1>1 DEF Control, MutexInv, ConnInv
  <2>2. PICK r \in Connections : r # db_con[Main]
    BY DEF TwoConnections
  <2>3. r \in Conns!Free
    BY <2>1, <2>2, ManagerAssumption DEF Conns!Free
  <2> QED BY <2>3
<1> QED BY <1>1, ControlAlways, PTL

\* get_problem loads each problem at most once, and what it stored does not
\* change any more: the mutex is held from the look into jm_prob_lists to the
\* entry made in it.
THEOREM ProblemsLoadedOnce == Spec => ProblemLoadedOnce
<1> DEFINE Kept == \A p \in Problems :
              jm_prob_lists[p] # "absent" => jm_prob_lists'[p] = jm_prob_lists[p]
<1>1. Control /\ [Next]_vars => Kept
  <2> SUFFICES ASSUME Control, [Next]_vars PROVE Kept
    OBVIOUS
  <2> USE DEF loop, pool, tasks, judges
  <2>1. ASSUME NEW w \in Workers, StoreProblem(w) PROVE Kept
    BY <2>1 DEF StoreProblem, Goto, Control, TypeOK, AbsentInv
  <2>2. ASSUME NEW w \in Workers, CopyProblem(w) PROVE Kept
    BY <2>2 DEF CopyProblem, CopyThen, Control, TypeOK
  <2>3. CASE UNCHANGED jm_prob_lists
    BY <2>3
  <2> QED
    BY <2>1, <2>2, <2>3
    DEF Next, LoopRoutine, QueryEmpty, ProcessEnds, Gone, Submit, WaitPermit,
        MainConnect, QueryFindsOne, TryLockForSrcDir, UnlockSrcDir, MainRelease,
        AddDebug, AddRelease, AddIf, TryPermit, UpdateResults, QueryFails,
        WorkDirFails, NoSuchProblem, Ends, vars, JudgeTaskRun, TakeTask, WaitJudge,
        LockForJudge, PickJudge, PickThen, InitWorkDir, GetLangJudge, NoLangJudge,
        GetProblem, LockForProblem, FindProblem, Connect, QueryLimits, NoTestCases,
        GiveBack, TryLockForOutputDir, UnlockOutputDir, JudgeAndClear, ReleaseJudge,
        LockForRelease, FlagAvailable, PostJudge, PostFetch, Return, Lock, Quiet
<1> QED BY <1>1, ControlAlways, PTL DEF Spec, ProblemLoadedOnce

-----------------------------------------------------------------------------
(* The place of each submission *)

\* The places of the queue that a submission has.
Places(q, s) == {i \in 1..Len(q) : q[i][1] = s}

LEMMA PlacesFinite ==
  ASSUME NEW q \in Seq(Task), NEW s
  PROVE  IsFiniteSet(Places(q, s)) /\ Cardinality(Places(q, s)) \in Nat
<1>1. Len(q) \in Nat
  BY LenProperties
<1>2. IsFiniteSet(1..Len(q))
  BY <1>1, FS_Interval
<1>3. Places(q, s) \in SUBSET (1..Len(q))
  BY DEF Places
<1> QED BY <1>2, <1>3, FS_Subset, FS_CardinalityType

\* One place more at the end of the queue.
LEMMA PlacesOfAppend ==
  ASSUME NEW q \in Seq(Task), NEW t \in Task, NEW s
  PROVE  Cardinality(Places(Append(q, t), s))
           = Cardinality(Places(q, s)) + (IF t[1] = s THEN 1 ELSE 0)
<1>1. /\ Len(q) \in Nat /\ Len(Append(q, t)) = Len(q) + 1
      /\ \A i \in 1..Len(q) : Append(q, t)[i] = q[i]
      /\ Append(q, t)[Len(q) + 1] = t
  BY LenProperties, AppendProperties
<1>2. CASE t[1] = s
  <2>1. Places(Append(q, t), s) = Places(q, s) \cup {Len(q) + 1}
    BY <1>1, <1>2 DEF Places
  <2>2. Len(q) + 1 \notin Places(q, s)
    BY <1>1 DEF Places
  <2> QED BY <1>2, <2>1, <2>2, PlacesFinite, FS_AddElement
<1>3. CASE t[1] # s
  <2>1. Places(Append(q, t), s) = Places(q, s)
    BY <1>1, <1>3 DEF Places
  <2> QED BY <1>3, <2>1, PlacesFinite
<1> QED BY <1>2, <1>3

\* One place less at its front; the others move up.
LEMMA PlacesOfTail ==
  ASSUME NEW q \in Seq(Task), q # <<>>, NEW s
  PROVE  Cardinality(Places(q, s))
           = Cardinality(Places(Tail(q), s)) + (IF Head(q)[1] = s THEN 1 ELSE 0)
<1> DEFINE n == Len(q)
           next == [i \in Places(Tail(q), s) |-> i + 1]
<1>1. /\ n \in Nat \ {0} /\ Tail(q) \in Seq(Task) /\ Len(Tail(q)) = n - 1
      /\ Head(q) = q[1]
      /\ \A i \in 1..(n - 1) : Tail(q)[i] = q[i + 1]
  BY EmptySeq, LenProperties, HeadTailProperties
<1>2. next \in Bijection(Places(Tail(q), s), Places(q, s) \ {1})
  <2>1. next \in [Places(Tail(q), s) -> Places(q, s) \ {1}]
    BY <1>1 DEF Places
  <2>2. \A i, j \in Places(Tail(q), s) : next[i] = next[j] => i = j
    BY <1>1 DEF Places
  <2>3. ASSUME NEW k \in Places(q, s) \ {1}
        PROVE  \E i \in Places(Tail(q), s) : next[i] = k
    <3>1. k - 1 \in Places(Tail(q), s)
      BY <1>1 DEF Places
    <3>2. next[k - 1] = k
      BY <1>1, <3>1 DEF Places
    <3> QED BY <3>1, <3>2
  <2> HIDE DEF next
  <2> QED BY <2>1, <2>2, <2>3, Fun_IsBij
<1>3. Cardinality(Places(q, s) \ {1}) = Cardinality(Places(Tail(q), s))
  <2>1. ExistsBijection(Places(Tail(q), s), Places(q, s) \ {1})
    BY <1>2 DEF ExistsBijection
  <2> QED BY <1>1, <2>1, PlacesFinite, FS_Bijection
<1>4. 1 \in Places(q, s) <=> Head(q)[1] = s
  BY <1>1 DEF Places
<1>5. /\ IsFiniteSet(Places(q, s)) /\ Cardinality(Places(q, s)) \in Nat
      /\ Cardinality(Places(Tail(q), s)) \in Nat
  BY <1>1, PlacesFinite
<1>6. Cardinality(Places(q, s) \ {1})
        = IF 1 \in Places(q, s) THEN Cardinality(Places(q, s)) - 1
                                ELSE Cardinality(Places(q, s))
  BY <1>5, FS_RemoveElement
<1> QED BY <1>3, <1>4, <1>5, <1>6

\* The other places of a submission: with the loop, in hands, judged.
WithLoop(s) ==
    IF submit = s /\ main \in {"srcdir", "locked", "fetch", "debug", "release"}
    THEN 1 ELSE 0
Hands(s) == {w \in Workers : hand[w] # NULL /\ hand[w][1] = s}
Done(s)  == {t \in finished : t[1] = s}

\* All four counts are natural numbers.
LEMMA PlacesType ==
  ASSUME PoolTypes, NEW s
  PROVE  /\ WithLoop(s) \in {0, 1}
         /\ Cardinality(Places(m_que_tasks, s)) \in Nat
         /\ IsFiniteSet(Hands(s)) /\ Cardinality(Hands(s)) \in Nat
         /\ IsFiniteSet(Done(s)) /\ Cardinality(Done(s)) \in Nat
<1>1. IsFiniteSet(Done(s))
  BY FS_Subset DEF PoolTypes, Done
<1> QED BY <1>1, PlacesFinite, WorkersCard, FS_CardinalityType
        DEF PoolTypes, WithLoop, Hands

\* A step that leaves the sum of the four counts of a submission alone, or adds
\* one when the submission is fetched.
LEMMA PlaceStep == Control /\ InOnePlace /\ [Next]_vars => InOnePlace'
<1> SUFFICES ASSUME Control, InOnePlace, [Next]_vars, NEW s \in Submissions
             PROVE  Copies(s)' = IF server'[s] = "fetched" THEN 1 ELSE 0
  BY DEF InOnePlace
<1> DEFINE loops == WithLoop(s)
           queued == Cardinality(Places(m_que_tasks, s))
           held == Cardinality(Hands(s))
           done == Cardinality(Done(s))
<1>0. /\ PoolTypes
      /\ loops \in {0, 1} /\ queued \in Nat /\ held \in Nat /\ done \in Nat
  BY PlacesType DEF Control
<1>1. loops + queued + held + done = IF server[s] = "fetched" THEN 1 ELSE 0
  BY DEF InOnePlace, Copies, WithLoop, Places, Hands, Done
<1>2. ASSUME loops' + queued' + held' + done' = IF server'[s] = "fetched" THEN 1 ELSE 0
      PROVE  Copies(s)' = IF server'[s] = "fetched" THEN 1 ELSE 0
  BY <1>2 DEF Copies, WithLoop, Places, Hands, Done
<1> HIDE DEF loops, queued, held, done
<1> USE DEF loop, pool, tasks, judges
\* The query takes a submission from the server.
<1>3. ASSUME NEW t \in Submissions, QueryFindsOne(t)
      PROVE  Copies(s)' = IF server'[s] = "fetched" THEN 1 ELSE 0
  <2>1. /\ server[t] = "waiting" /\ server' = [server EXCEPT ![t] = "fetched"]
        /\ server \in [Submissions -> {"unsent", "waiting", "fetched"}]
        /\ loops = 0 /\ loops' = IF s = t THEN 1 ELSE 0
    BY <1>3 DEF QueryFindsOne, MainGoto, Control, TypeOK, WithLoop, loops
  <2>2. UNCHANGED <<queued, held, done>>
    BY <1>3 DEF QueryFindsOne, queued, held, done, Places, Hands, Done
  <2> QED BY <1>0, <1>1, <1>2, <2>1, <2>2
\* add_task: from the loop into the queue.
<1>4. CASE AddRelease
  <2>1. <<submit, "Release">> \in Task /\ <<submit, "Release">>[1] = submit
    BY <1>4 DEF AddRelease, AddIf, MainGoto, Control, HandInv, Task
  <2>2. queued' = queued + (IF submit = s THEN 1 ELSE 0)
    <3>1. m_que_tasks' = Append(m_que_tasks, <<submit, "Release">>)
      BY <1>4 DEF AddRelease, AddIf, Pool!Add
    <3>2. m_que_tasks \in Seq(Task)
      BY <1>0 DEF PoolTypes
    <3>3. Cardinality(Places(m_que_tasks', s)) = queued + (IF submit = s THEN 1 ELSE 0)
      BY <2>1, <3>1, <3>2, PlacesOfAppend DEF queued
    <3> QED BY <3>3 DEF queued, Places
  <2>3. loops = (IF submit = s THEN 1 ELSE 0) /\ loops' = 0
    BY <1>4 DEF AddRelease, AddIf, MainGoto, WithLoop, loops
  <2>4. UNCHANGED <<held, done, server>>
    BY <1>4 DEF AddRelease, AddIf, Pool!Add, held, done, Hands, Done
  <2> QED BY <1>0, <1>1, <1>2, <2>2, <2>3, <2>4
\* get_task: from the queue into a hand.
<1>5. ASSUME NEW w \in Workers, TakeTask(w)
      PROVE  Copies(s)' = IF server'[s] = "fetched" THEN 1 ELSE 0
  <2> DEFINE h == Head(m_que_tasks)
  <2>1. /\ m_que_tasks \in Seq(Task) /\ m_que_tasks # <<>>
        /\ hand \in [Workers -> Task \cup {NULL}] /\ hand[w] = NULL
        /\ hand' = [hand EXCEPT ![w] = h] /\ m_que_tasks' = Tail(m_que_tasks)
        /\ UNCHANGED <<finished, server, submit, main>>
    BY <1>0, <1>5 DEF TakeTask, Pool!Take, PoolTypes
  <2>2. h \in Task /\ h # NULL
    BY <2>1, HeadTailProperties, ManagerAssumption DEF Task
  <2>3. queued = queued' + (IF h[1] = s THEN 1 ELSE 0)
    <3>1. queued = Cardinality(Places(m_que_tasks', s)) + (IF h[1] = s THEN 1 ELSE 0)
      BY <2>1, PlacesOfTail DEF queued
    <3> QED BY <3>1 DEF queued, Places
  <2> HIDE DEF h
  <2>4. held' = held + (IF h[1] = s THEN 1 ELSE 0)
    <3>1. CASE h[1] = s
      <4>1. Hands(s)' = Hands(s) \cup {w} /\ w \notin Hands(s)
        BY <2>1, <2>2, <3>1 DEF Hands
      <4> QED BY <1>0, <3>1, <4>1, PlacesType, FS_AddElement DEF held
    <3>2. CASE h[1] # s
      <4>1. Hands(s)' = Hands(s)
        BY <2>1, <2>2, <3>2 DEF Hands
      <4> QED BY <1>0, <3>2, <4>1 DEF held
    <3> QED BY <3>1, <3>2
  <2>5. UNCHANGED <<loops, done>>
    BY <2>1 DEF loops, done, WithLoop, Done
  <2>6. queued' \in Nat
    BY PoolStep, PlacesFinite DEF PoolTypes, queued
  <2>7. loops' + queued' + held' + done' = loops + queued + held + done
    BY <1>0, <2>3, <2>4, <2>5, <2>6
  <2> QED BY <1>1, <1>2, <2>1, <2>7
\* run() returns: from a hand to the judged.
<1>6. ASSUME NEW w \in Workers, Return(w)
      PROVE  Copies(s)' = IF server'[s] = "fetched" THEN 1 ELSE 0
  <2> DEFINE h == hand[w]
  <2>1. /\ hand \in [Workers -> Task \cup {NULL}]
        /\ h # NULL /\ h \in Task /\ h \notin finished
        /\ hand' = [hand EXCEPT ![w] = NULL] /\ finished' = finished \cup {h}
        /\ UNCHANGED <<m_que_tasks, server, submit, main>>
    BY <1>0, <1>6 DEF Return, Pool!Finish, PoolTypes
  <2>2. CASE h[1] = s
    <3>1. Hands(s)' = Hands(s) \ {w} /\ w \in Hands(s)
      BY <2>1, <2>2 DEF Hands
    <3>2. held' = held - 1
      BY <1>0, <3>1, PlacesType, FS_RemoveElement DEF held
    <3>3. Done(s)' = Done(s) \cup {h} /\ h \notin Done(s)
      BY <2>1, <2>2 DEF Done
    <3>4. done' = done + 1
      BY <1>0, <3>3, PlacesType, FS_AddElement DEF done
    <3>5. UNCHANGED <<loops, queued>>
      BY <2>1 DEF loops, queued, WithLoop, Places
    <3> QED BY <1>0, <1>1, <1>2, <2>1, <3>2, <3>4, <3>5
  <2>3. CASE h[1] # s
    <3>1. Hands(s)' = Hands(s) /\ Done(s)' = Done(s)
      BY <2>1, <2>3 DEF Hands, Done
    <3>2. UNCHANGED <<loops, queued, held, done>>
      BY <2>1, <3>1 DEF loops, queued, held, done, WithLoop, Places
    <3> QED BY <1>1, <1>2, <2>1, <3>2
  <2> QED BY <2>2, <2>3
\* A submission is sent: it is nowhere yet.
<1>7. ASSUME NEW t \in Submissions, Submit(t)
      PROVE  Copies(s)' = IF server'[s] = "fetched" THEN 1 ELSE 0
  <2>1. server'[s] = "fetched" <=> server[s] = "fetched"
    BY <1>7 DEF Submit, Control, TypeOK
  <2>2. UNCHANGED <<loops, queued, held, done>>
    BY <1>7 DEF Submit, loops, queued, held, done, WithLoop, Places, Hands, Done
  <2> QED BY <1>1, <1>2, <2>1, <2>2
<1>8. ASSUME UNCHANGED <<server, submit, m_que_tasks, hand, finished>>,
             main \in {"srcdir", "locked", "fetch", "debug", "release"} <=>
               main' \in {"srcdir", "locked", "fetch", "debug", "release"}
      PROVE  Copies(s)' = IF server'[s] = "fetched" THEN 1 ELSE 0
  <2>1. UNCHANGED <<loops, queued, held, done>>
    BY <1>8 DEF loops, queued, held, done, WithLoop, Places, Hands, Done
  <2> QED BY <1>1, <1>2, <1>8, <2>1
<1>9. CASE \/ WaitPermit \/ MainConnect \/ TryLockForSrcDir \/ UnlockSrcDir
           \/ MainRelease \/ AddDebug \/ TryPermit \/ UpdateResults \/ QueryEmpty
           \/ ProcessEnds \/ Gone \/ UNCHANGED vars
  BY <1>8, <1>9
  DEF MainGoto, QueryEmpty, ProcessEnds, Gone, WaitPermit, MainConnect,
      TryLockForSrcDir, UnlockSrcDir, MainRelease, AddDebug, AddIf, TryPermit,
      UpdateResults, QueryFails, WorkDirFails, NoSuchProblem, Ends, vars
<1>10. ASSUME NEW w \in Workers,
              \/ WaitJudge(w) \/ LockForJudge(w) \/ PickJudge(w) \/ InitWorkDir(w)
              \/ GetLangJudge(w) \/ NoLangJudge(w) \/ GetProblem(w)
              \/ TryLockForOutputDir(w) \/ UnlockOutputDir(w) \/ JudgeAndClear(w)
              \/ ReleaseJudge(w)
       PROVE  Copies(s)' = IF server'[s] = "fetched" THEN 1 ELSE 0
  BY <1>8, <1>10
  DEF WaitJudge, LockForJudge, PickJudge, PickThen, InitWorkDir, GetLangJudge,
      NoLangJudge, GetProblem, LockForProblem, FindProblem, Connect, QueryLimits,
      StoreProblem, NoTestCases, GiveBack, CopyProblem, CopyThen, TryLockForOutputDir,
      UnlockOutputDir, JudgeAndClear, ReleaseJudge, LockForRelease, FlagAvailable,
      PostJudge, PostFetch, Lock, Quiet, Goto, Ends
<1> QED BY <1>3, <1>4, <1>5, <1>6, <1>7, <1>9, <1>10 DEF Next, LoopRoutine, JudgeTaskRun

\* Nothing is anywhere before the first query.
LEMMA PlaceInit == Init => InOnePlace
<1> SUFFICES ASSUME Init, NEW s \in Submissions
             PROVE  Copies(s) = 0 /\ server[s] # "fetched"
  BY DEF InOnePlace
<1>1. /\ Places(m_que_tasks, s) = {} /\ Hands(s) = {} /\ Done(s) = {}
      /\ WithLoop(s) = 0
  BY DEF Init, Places, Hands, Done, WithLoop
<1>2. Copies(s) = WithLoop(s) + Cardinality(Places(m_que_tasks, s))
                    + Cardinality(Hands(s)) + Cardinality(Done(s))
  BY DEF Copies, WithLoop, Places, Hands, Done
<1> QED BY <1>1, <1>2, FS_EmptySet DEF Init

\* From the moment it is fetched a submission is in one place: with the loop, in
\* the queue, in the hands of one worker, or judged.  It is never lost and never
\* judged twice while the process lives.
THEOREM SubmissionsAreKept == Spec => []InOnePlace
  BY PlaceInit, PlaceStep, ControlAlways, PTL DEF Spec

-----------------------------------------------------------------------------
(* The contract of the pool *)

\* Every task ever added is in the queue, in a hand or finished.
AddedIsSomewhere ==
    /\ added \in Seq(Task)
    /\ \A i \in 1..Len(added) :
          \/ \E k \in 1..Len(m_que_tasks) : m_que_tasks[k] = added[i]
          \/ \E w \in Workers : hand[w] = added[i]
          \/ added[i] \in finished

LEMMA AddedInit == Init => AddedIsSomewhere
  BY EmptySeq DEF Init, AddedIsSomewhere

LEMMA AddedStep == Control /\ AddedIsSomewhere /\ [Next]_vars => AddedIsSomewhere'
<1> SUFFICES ASSUME Control, AddedIsSomewhere, [Next]_vars
             PROVE  AddedIsSomewhere'
  OBVIOUS
<1> USE DEF loop, pool, tasks, judges
<1>0. PoolTypes /\ added \in Seq(Task)
  BY DEF Control, AddedIsSomewhere
<1>1. CASE AddRelease
  <2> DEFINE t == <<submit, "Release">>
  <2>1. t \in Task
    BY <1>1 DEF AddRelease, AddIf, MainGoto, Control, HandInv, Task
  <2>2. /\ m_que_tasks' = Append(m_que_tasks, t) /\ added' = Append(added, t)
        /\ UNCHANGED <<hand, finished>>
    BY <1>1 DEF AddRelease, AddIf, Pool!Add
  <2> HIDE DEF t
  <2>3. /\ Len(added) \in Nat /\ added' \in Seq(Task) /\ Len(added') = Len(added) + 1
        /\ \A i \in 1..Len(added) : added'[i] = added[i]
        /\ added'[Len(added) + 1] = t
    BY <1>0, <2>1, <2>2, AppendProperties, LenProperties
  <2>4. /\ Len(m_que_tasks) \in Nat /\ Len(m_que_tasks') = Len(m_que_tasks) + 1
        /\ \A i \in 1..Len(m_que_tasks) : m_que_tasks'[i] = m_que_tasks[i]
        /\ m_que_tasks'[Len(m_que_tasks) + 1] = t
    BY <1>0, <2>1, <2>2, AppendProperties, LenProperties DEF PoolTypes
  <2>5. ASSUME NEW i \in 1..Len(added')
        PROVE  \/ \E k \in 1..Len(m_que_tasks') : m_que_tasks'[k] = added'[i]
               \/ \E w \in Workers : hand'[w] = added'[i]
               \/ added'[i] \in finished'
    <3>1. CASE i = Len(added) + 1
      BY <2>3, <2>4, <3>1
    <3>2. CASE i \in 1..Len(added)
      <4>1. ASSUME NEW k \in 1..Len(m_que_tasks), m_que_tasks[k] = added[i]
            PROVE  k \in 1..Len(m_que_tasks') /\ m_que_tasks'[k] = added'[i]
        BY <2>3, <2>4, <3>2, <4>1
      <4> QED BY <2>2, <2>3, <3>2, <4>1 DEF AddedIsSomewhere
    <3> QED BY <2>3, <3>1, <3>2
  <2> QED BY <2>3, <2>5 DEF AddedIsSomewhere
<1>2. ASSUME NEW w \in Workers, TakeTask(w)
      PROVE  AddedIsSomewhere'
  <2>1. /\ m_que_tasks \in Seq(Task) /\ m_que_tasks # <<>> /\ hand[w] = NULL
        /\ hand \in [Workers -> Task \cup {NULL}] /\ NULL \notin Task
        /\ hand' = [hand EXCEPT ![w] = Head(m_que_tasks)]
        /\ m_que_tasks' = Tail(m_que_tasks)
        /\ UNCHANGED <<added, finished>>
    BY <1>0, <1>2, ManagerAssumption DEF TakeTask, Pool!Take, PoolTypes, Task
  <2>2. /\ Len(m_que_tasks) \in Nat /\ Len(m_que_tasks') = Len(m_que_tasks) - 1
        /\ Head(m_que_tasks) = m_que_tasks[1]
        /\ \A k \in 1..Len(m_que_tasks') : m_que_tasks'[k] = m_que_tasks[k + 1]
    BY <2>1, LenProperties, HeadTailProperties
  <2>3. ASSUME NEW i \in 1..Len(added)
        PROVE  \/ \E k \in 1..Len(m_que_tasks') : m_que_tasks'[k] = added[i]
               \/ \E v \in Workers : hand'[v] = added[i]
               \/ added[i] \in finished
    <3>1. added[i] # NULL
      BY <1>0, <2>1, ElementOfSeq
    <3>2. ASSUME NEW k \in 1..Len(m_que_tasks), m_que_tasks[k] = added[i]
          PROVE  \/ \E j \in 1..Len(m_que_tasks') : m_que_tasks'[j] = added[i]
                 \/ \E v \in Workers : hand'[v] = added[i]
      <4>1. CASE k = 1
        BY <2>1, <2>2, <3>2, <4>1
      <4>2. CASE k # 1
        <5>1. k - 1 \in 1..Len(m_que_tasks') /\ m_que_tasks'[k - 1] = m_que_tasks[k]
          BY <2>2, <4>2
        <5> QED BY <3>2, <5>1
      <4> QED BY <4>1, <4>2
    <3>3. ASSUME NEW v \in Workers, hand[v] = added[i]
          PROVE  hand'[v] = added[i]
      BY <2>1, <3>1, <3>3
    <3> QED BY <3>2, <3>3 DEF AddedIsSomewhere
  <2> QED BY <1>0, <2>1, <2>3 DEF AddedIsSomewhere
<1>3. ASSUME NEW w \in Workers, Return(w)
      PROVE  AddedIsSomewhere'
  <2>1. /\ hand \in [Workers -> Task \cup {NULL}] /\ NULL \notin Task
        /\ hand' = [hand EXCEPT ![w] = NULL]
        /\ finished' = finished \cup {hand[w]}
        /\ UNCHANGED <<m_que_tasks, added>>
    BY <1>0, <1>3, ManagerAssumption DEF Return, Pool!Finish, PoolTypes, Task
  <2> QED BY <2>1 DEF AddedIsSomewhere
<1>4. CASE UNCHANGED pool
  BY <1>4 DEF AddedIsSomewhere
<1>5. CASE AddDebug
  BY <1>4, <1>5 DEF AddDebug, AddIf
<1> QED
  BY <1>1, <1>2, <1>3, <1>4, <1>5
  DEF Next, LoopRoutine, QueryEmpty, ProcessEnds, Gone, Submit, WaitPermit,
      MainConnect, QueryFindsOne, TryLockForSrcDir, UnlockSrcDir, MainRelease,
      TryPermit, UpdateResults, QueryFails, WorkDirFails, NoSuchProblem, Ends, vars,
      JudgeTaskRun, WaitJudge, LockForJudge, PickJudge, PickThen, InitWorkDir,
      GetLangJudge, NoLangJudge, GetProblem, LockForProblem, FindProblem, Connect,
      QueryLimits, StoreProblem, NoTestCases, GiveBack, CopyProblem, CopyThen,
      TryLockForOutputDir, UnlockOutputDir, JudgeAndClear, ReleaseJudge,
      LockForRelease, FlagAvailable, PostJudge, PostFetch, Lock, Quiet

\* What TaskPool asks of its client: a task is added once, and done once.
ContractKept ==
    /\ main = "release" => \A i \in 1..Len(added) : added[i] # <<submit, "Release">>
    /\ \A w \in Workers : pc[w] = "return" => hand[w] # NULL /\ hand[w] \notin finished
    /\ \A w \in Workers : pc[w] = "idle" => hand[w] = NULL

\* The judge manager keeps its part of the thread pool's contract: loop_routine
\* never adds a task twice and no worker finishes a finished one, so that the
\* conditions TaskPool puts on Add, Take and Finish never stop a thread where
\* the code would go on.
THEOREM PoolContractKept == Spec => []ContractKept
<1>1. ASSUME Control, InOnePlace, AddedIsSomewhere PROVE ContractKept
  <2>0. PoolTypes /\ HandInv
    BY <1>1 DEF Control
  <2>1. ASSUME NEW s \in Submissions
        PROVE  WithLoop(s) + Cardinality(Places(m_que_tasks, s))
                 + Cardinality(Hands(s)) + Cardinality(Done(s)) <= 1
    <3>1. Copies(s) = WithLoop(s) + Cardinality(Places(m_que_tasks, s))
                        + Cardinality(Hands(s)) + Cardinality(Done(s))
      BY DEF Copies, WithLoop, Places, Hands, Done
    <3>2. Copies(s) \in {0, 1}
      BY <1>1 DEF InOnePlace
    <3> QED BY <3>1, <3>2
  <2>2. ASSUME main = "release", NEW i \in 1..Len(added),
               added[i] = <<submit, "Release">>
        PROVE  FALSE
    <3>1. submit \in Submissions /\ WithLoop(submit) = 1
      BY <2>0, <2>2 DEF HandInv, WithLoop
    <3>2. /\ Cardinality(Places(m_que_tasks, submit)) = 0
          /\ Cardinality(Hands(submit)) = 0
          /\ Cardinality(Done(submit)) = 0
      BY <2>0, <2>1, <3>1, PlacesType
    <3>3. /\ Places(m_que_tasks, submit) = {}
          /\ Hands(submit) = {} /\ Done(submit) = {}
      BY <2>0, <3>2, PlacesType, PlacesFinite, FS_EmptySet DEF PoolTypes
    <3>4. added[i][1] = submit /\ added[i] # NULL
      BY <2>2, <3>1, ManagerAssumption
    <3> QED BY <1>1, <3>3, <3>4 DEF AddedIsSomewhere, Places, Hands, Done
  <2>3. ASSUME NEW w \in Workers, pc[w] = "return", hand[w] \in finished
        PROVE  FALSE
    <3> DEFINE s == hand[w][1]
    <3>1. hand[w] # NULL /\ hand[w] \in Task /\ s \in Submissions
      BY <2>0, <2>3 DEF HandInv, PoolTypes, Task
    <3>2. w \in Hands(s) /\ hand[w] \in Done(s)
      BY <2>3, <3>1 DEF Hands, Done
    <3>3. Cardinality(Hands(s)) # 0 /\ Cardinality(Done(s)) # 0
      BY <2>0, <3>2, PlacesType, FS_EmptySet
    <3> HIDE DEF s
    <3> QED BY <2>0, <2>1, <3>1, <3>3, PlacesType
  <2> QED BY <2>0, <2>2, <2>3 DEF ContractKept, HandInv
<1> QED BY <1>1, AddedInit, AddedStep, ControlAlways, SubmissionsAreKept, PTL DEF Spec
=============================================================================
