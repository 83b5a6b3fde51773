---------------------------- MODULE JudgeManager ----------------------------
(***************************************************************************)
(* judge.cpp: one thread fetches submissions and hands them to the thread  *)
(* pool, whose workers each take a judge (a work directory), load the      *)
(* problem and judge.  The pool is TaskPool, which ThreadPool implements,  *)
(* the database connections are a ResourcePool, which DBConnMgr            *)
(* implements; the judges are shown here to be one too.                    *)
(***************************************************************************)
EXTENDS Naturals, Sequences, FiniteSets

CONSTANTS Workers,      \* the threads of the pool, JUDGES_NUM of them
          Main,         \* the thread of loop_routine
          Submissions, Problems, Connections,
          ProblemOf,    \* the problem a submission is for
          LanguageOf,   \* the sbm_lang column of a submission
          NoOne,        \* the holder of a free mutex
          NULL          \* no task, no judge, no connection, no submission

ASSUME ManagerAssumption ==
    /\ IsFiniteSet(Workers) /\ Workers # {} /\ Main \notin Workers
    /\ NoOne \notin Workers \cup {Main}
    /\ NULL \notin Submissions \cup Connections \cup Nat
    /\ NULL \notin Submissions \X {"Debug", "Release"}
    /\ ProblemOf \in [Submissions -> Problems]
    /\ LanguageOf \in [Submissions -> STRING]

VARIABLES
    process,            \* "up", or how it ended
    server,             \* external: what has become of each submission there
    main, submit,       \* loop_routine: where it is, and its submission
    m_que_tasks, hand, added, finished, open,   \* the thread pool (TaskPool)
    pc, p_jdg,          \* JudgeTask::run: where each worker is, and its judge
    db_con,             \* the connection each thread holds (ResourcePool)
    jm_judges_flag, jm_lock_judge, jm_sem_judge, jm_sem_fetch_submissions,
    jm_prob_lists       \* what the map holds of each problem

pool  == <<m_que_tasks, hand, added, finished, open>>
loop  == <<server, main, submit>>
tasks == <<pc, p_jdg>>
judges == <<jm_judges_flag, jm_sem_judge, jm_sem_fetch_submissions>>
vars == <<process, loop, pool, tasks, db_con, judges, jm_lock_judge, jm_prob_lists>>

Pool  == INSTANCE TaskPool WITH
    Tasks <- Submissions \X {"Debug", "Release"}, NoTask <- NULL, queue <- m_que_tasks
Conns == INSTANCE ResourcePool WITH
    Clients <- Workers \cup {Main}, Resources <- Connections, Nothing <- NULL,
    holds <- db_con

JUDGES_NUM == Cardinality(Workers)
Judges == 0..(JUDGES_NUM - 1)

\* init_judges; the server has not been sent anything yet.
Init ==
    /\ process = "up"
    /\ server = [s \in Submissions |-> "unsent"]
    /\ main = "wait" /\ submit = NULL
    /\ m_que_tasks = <<>> /\ hand = [w \in Workers |-> NULL]
    /\ added = <<>> /\ finished = {} /\ open = TRUE
    /\ pc = [w \in Workers |-> "idle"]
    /\ p_jdg = [w \in Workers |-> NULL]
    /\ Conns!Init
    /\ jm_judges_flag = [j \in Judges |-> "Available"]
    /\ jm_lock_judge = NoOne
    /\ jm_sem_judge = JUDGES_NUM
    /\ jm_sem_fetch_submissions = JUDGES_NUM
    /\ jm_prob_lists = [p \in Problems |-> "absent"]

\* One thread moves, in a process that is still there.
MainGoto(from, to) ==
    process = "up" /\ main = from /\ main' = to /\ UNCHANGED process
Goto(w, from, to) ==
    /\ process = "up" /\ pc[w] = from
    /\ pc' = [pc EXCEPT ![w] = to]
    /\ UNCHANGED process

Ends(how) ==
    /\ process = "up"
    /\ process' = how
    /\ UNCHANGED <<loop, pool, tasks, db_con, judges, jm_lock_judge, jm_prob_lists>>

-----------------------------------------------------------------------------
(* loop_routine and fetch_submission_from_db *)

\* Both sem_waits of the loop.
WaitPermit ==
    /\ MainGoto("wait", "connect")
    /\ jm_sem_fetch_submissions > 0
    /\ jm_sem_fetch_submissions' = jm_sem_fetch_submissions - 1
    /\ UNCHANGED <<server, submit, pool, tasks, db_con, jm_judges_flag, jm_sem_judge,
                   jm_lock_judge, jm_prob_lists>>

\* get_available_connection.
MainConnect ==
    /\ MainGoto("connect", "query")
    /\ \E r \in Connections : Conns!Acquire(Main, r)
    /\ UNCHANGED <<server, submit, pool, tasks, judges, jm_lock_judge, jm_prob_lists>>

\* call fetch_submission(): an error ends the process, and so does a statement
\* that yields no result set.
QueryFails == main = "query" /\ \E how \in {"exited", "crashed"} : Ends(how)

\* No row: sleep 300 ms and ask again, with the connection in hand.
QueryEmpty ==
    /\ MainGoto("query", "query")
    /\ \A s \in Submissions : server[s] # "waiting"
    /\ UNCHANGED vars

\* The procedure fetch_submission is the server's and is taken to give one row; of
\* several the loop over them would keep the last.
QueryFindsOne(s) ==
    /\ MainGoto("query", "srcdir")
    /\ server[s] = "waiting"
    /\ server' = [server EXCEPT ![s] = "fetched"]
    /\ submit' = s
    /\ UNCHANGED <<pool, tasks, db_con, judges, jm_lock_judge, jm_prob_lists>>

\* get_src_dir goes on whether or not its trylock succeeds.
TryLockForSrcDir ==
    /\ IF jm_lock_judge = NoOne
       THEN MainGoto("srcdir", "locked") /\ jm_lock_judge' = Main
       ELSE MainGoto("srcdir", "fetch") /\ UNCHANGED jm_lock_judge
    /\ UNCHANGED <<server, submit, pool, tasks, db_con, judges, jm_prob_lists>>

UnlockSrcDir ==
    /\ MainGoto("locked", "fetch")
    /\ jm_lock_judge' = NoOne
    /\ UNCHANGED <<server, submit, pool, tasks, db_con, judges, jm_prob_lists>>

\* fetch_file, its result ignored, then release_connection.
MainRelease ==
    /\ MainGoto("fetch", "debug")
    /\ Conns!Release(Main)
    /\ UNCHANGED <<server, submit, pool, tasks, judges, jm_lock_judge, jm_prob_lists>>

\* One `if` of loop_routine: a task for this mode if it is in sbm_judge_set.
AddIf(set, mode, from, to) ==
    /\ MainGoto(from, to)
    /\ IF mode \in set THEN Pool!Add(<<submit, mode>>) ELSE UNCHANGED pool
    /\ UNCHANGED <<server, submit, tasks, db_con, judges, jm_lock_judge, jm_prob_lists>>

\* Mutant: both modes, as the comment beside the assignment would have it.
AddDebugToo == AddIf({"Debug", "Release"}, "Debug", "debug", "release")

\* sbm_judge_set is NojMode_Release alone.
AddDebug   == AddIf({"Release"}, "Debug", "debug", "release")
AddRelease == AddIf({"Release"}, "Release", "release", "more")

\* sem_trywait: another submission at once, if a judge is free for it.
TryPermit ==
    /\ IF jm_sem_fetch_submissions > 0
       THEN /\ MainGoto("more", "connect")
            /\ jm_sem_fetch_submissions' = jm_sem_fetch_submissions - 1
       ELSE MainGoto("more", "update") /\ UNCHANGED jm_sem_fetch_submissions
    /\ UNCHANGED <<server, submit, pool, tasks, db_con, jm_judges_flag, jm_sem_judge,
                   jm_lock_judge, jm_prob_lists>>

\* update_results_to_server is still to be written.
UpdateResults ==
    /\ MainGoto("update", "wait")
    /\ UNCHANGED <<server, submit, pool, tasks, db_con, judges, jm_lock_judge, jm_prob_lists>>

LoopRoutine ==
    \/ WaitPermit \/ MainConnect \/ (\E s \in Submissions : QueryFindsOne(s))
    \/ TryLockForSrcDir \/ UnlockSrcDir \/ MainRelease
    \/ AddDebug \/ AddRelease \/ TryPermit \/ UpdateResults

-----------------------------------------------------------------------------
(* JudgeTask::run *)

\* get_task, and run() begins.
TakeTask(w) ==
    /\ Goto(w, "idle", "semjudge")
    /\ Pool!Take(w)
    /\ UNCHANGED <<loop, p_jdg, db_con, judges, jm_lock_judge, jm_prob_lists>>

\* get_judge: sem_wait ...
WaitJudge(w) ==
    /\ Goto(w, "semjudge", "lock1")
    /\ jm_sem_judge > 0
    /\ jm_sem_judge' = jm_sem_judge - 1
    /\ UNCHANGED <<loop, pool, p_jdg, db_con, jm_judges_flag,
                   jm_sem_fetch_submissions, jm_lock_judge, jm_prob_lists>>

Lock(w, from, to) ==
    /\ Goto(w, from, to)
    /\ jm_lock_judge = NoOne
    /\ jm_lock_judge' = w
    /\ UNCHANGED <<loop, pool, p_jdg, db_con, judges, jm_prob_lists>>

\* ... lock ...
LockForJudge(w) == Lock(w, "lock1", "pick")

\* ... the first available judge, NULL if there is none, and unlock.
FirstOf(candidates) ==
    LET free == {j \in candidates : jm_judges_flag[j] = "Available"}
    IN  IF free = {} THEN NULL ELSE CHOOSE j \in free : \A k \in free : j <= k

\* Mutant: the scan stops one judge short.
FirstButLast == FirstOf(0..(JUDGES_NUM - 2))

FirstAvailable == FirstOf(Judges)

PickThen(w, flags) ==
    /\ Goto(w, "pick", "workdir")
    /\ p_jdg' = [p_jdg EXCEPT ![w] = FirstAvailable]
    /\ jm_judges_flag' = flags
    /\ jm_lock_judge' = NoOne
    /\ UNCHANGED <<loop, pool, db_con, jm_sem_judge, jm_sem_fetch_submissions,
                   jm_prob_lists>>

\* Mutant: JS_Used is not stored.
PickWithoutFlag(w) == PickThen(w, jm_judges_flag)

PickJudge(w) == PickThen(w, [j \in Judges |->
    IF j = FirstAvailable THEN "Used" ELSE jm_judges_flag[j]])

Quiet(w, from, to) ==
    /\ Goto(w, from, to)
    /\ UNCHANGED <<loop, pool, p_jdg, db_con, judges, jm_lock_judge, jm_prob_lists>>

\* init_work_dir through p_jdg; it exits when the directory cannot be made and
\* dereferences NULL when there is no user called judge.
InitWorkDir(w) == Quiet(w, "workdir", "lang") /\ p_jdg[w] # NULL
WorkDirFails(w) ==
    pc[w] = "workdir" /\ \E how \in {"exited", "crashed"} : Ends(how)

\* pick_lang: Pascal is recognised and left Unkown.
PickLang(lang) == IF lang \in {"C", "CPP", "Java"} THEN lang ELSE "Unkown"

\* judge_sbm calls through what get_lang_judge returns, and there is a
\* LangJudge for C and C++ only.
HasLangJudge(w) == PickLang(LanguageOf[hand[w][1]]) \in {"C", "CPP"}
GetLangJudge(w) == Quiet(w, "lang", "lock2") /\ HasLangJudge(w)
NoLangJudge(w)  == pc[w] = "lang" /\ ~HasLangJudge(w) /\ Ends("crashed")

-----------------------------------------------------------------------------
(* get_problem and fetch_problem_from_db *)

Problem(w) == ProblemOf[hand[w][1]]

LockForProblem(w) == Lock(w, "lock2", "find")

\* Mutant: get_problem unlocks around fetch_problem_from_db, as it once did.
FindAndUnlock(w) ==
    /\ Goto(w, "find", IF jm_prob_lists[Problem(w)] = "absent" THEN "connect" ELSE "copy")
    /\ jm_lock_judge' = NoOne
    /\ UNCHANGED <<loop, pool, p_jdg, db_con, judges, jm_prob_lists>>

FindProblem(w) ==
    Quiet(w, "find", IF jm_prob_lists[Problem(w)] = "absent" THEN "connect" ELSE "copy")

Connect(w) ==
    /\ Goto(w, "connect", "limits")
    /\ \E r \in Connections : Conns!Acquire(w, r)
    /\ UNCHANGED <<loop, pool, p_jdg, judges, jm_lock_judge, jm_prob_lists>>

\* The query for the limits: that it failed is logged, a row that is not there
\* is dereferenced.
QueryLimits(w)   == Quiet(w, "limits", "tests")
NoSuchProblem(w) == pc[w] = "limits" /\ Ends("crashed")

\* Each file of each test case is fetched and the problem stored under trylocks
\* that fail, as get_problem holds the mutex.
StoreProblem(w) ==
    /\ Goto(w, "tests", "giveback")
    /\ jm_prob_lists' = [jm_prob_lists EXCEPT ![Problem(w)] = "loaded"]
    /\ UNCHANGED <<loop, pool, p_jdg, db_con, judges, jm_lock_judge>>

\* The query for the test cases fails: nothing is stored.
NoTestCases(w) == Quiet(w, "tests", "giveback")

GiveBack(w) ==
    /\ Goto(w, "giveback", "copy")
    /\ Conns!Release(w)
    /\ UNCHANGED <<loop, pool, p_jdg, judges, jm_lock_judge, jm_prob_lists>>

\* operator[] puts an empty problem where none was stored.
CopyThen(w, lock) ==
    /\ Goto(w, "copy", "judge")
    /\ jm_prob_lists' = [jm_prob_lists EXCEPT
                           ![Problem(w)] = IF @ = "absent" THEN "empty" ELSE @]
    /\ jm_lock_judge' = lock
    /\ UNCHANGED <<loop, pool, p_jdg, db_con, judges>>

\* Mutant: get_problem returns with the mutex held.
CopyAndReturn(w) == CopyThen(w, jm_lock_judge)

CopyProblem(w) == CopyThen(w, NoOne)

-----------------------------------------------------------------------------
(* The verdict, clear_work_dir, and release_judge *)

\* judge() asks for the output directory when an output is wrong: get_output_dir
\* uses a trylock like get_src_dir.  Once stands for any number of times.
TryLockForOutputDir(w) == Lock(w, "judge", "outdir")
UnlockOutputDir(w) ==
    /\ Goto(w, "outdir", "lock3")
    /\ jm_lock_judge' = NoOne
    /\ UNCHANGED <<loop, pool, p_jdg, db_con, judges, jm_prob_lists>>

JudgeAndClear(w) == Quiet(w, "judge", "lock3")

LockForRelease(w) == Lock(w, "lock3", "flag")

FlagAvailable(w) ==
    /\ Goto(w, "flag", "post1")
    /\ jm_judges_flag' = [j \in Judges |->
           IF j = p_jdg[w] THEN "Available" ELSE jm_judges_flag[j]]
    /\ jm_lock_judge' = NoOne
    /\ UNCHANGED <<loop, pool, p_jdg, db_con, jm_sem_judge,
                   jm_sem_fetch_submissions, jm_prob_lists>>

PostJudge(w) ==
    /\ Goto(w, "post1", "post2")
    /\ jm_sem_judge' = jm_sem_judge + 1
    /\ UNCHANGED <<loop, pool, p_jdg, db_con, jm_judges_flag,
                   jm_sem_fetch_submissions, jm_lock_judge, jm_prob_lists>>

\* Mutant: the loop is not told that a judge is free.
ForgetFetch(w) == Quiet(w, "post2", "return")

PostFetch(w) ==
    /\ Goto(w, "post2", "return")
    /\ jm_sem_fetch_submissions' = jm_sem_fetch_submissions + 1
    /\ UNCHANGED <<loop, pool, p_jdg, db_con, jm_judges_flag, jm_sem_judge,
                   jm_lock_judge, jm_prob_lists>>

\* run() returns.
Return(w) ==
    /\ Goto(w, "return", "idle")
    /\ Pool!Finish(w)
    /\ p_jdg' = [p_jdg EXCEPT ![w] = NULL]
    /\ UNCHANGED <<loop, db_con, judges, jm_lock_judge, jm_prob_lists>>

GetProblem(w) ==
    \/ LockForProblem(w) \/ FindProblem(w) \/ Connect(w) \/ QueryLimits(w)
    \/ StoreProblem(w) \/ NoTestCases(w) \/ GiveBack(w) \/ CopyProblem(w)

ReleaseJudge(w) ==
    LockForRelease(w) \/ FlagAvailable(w) \/ PostJudge(w) \/ PostFetch(w)

JudgeTaskRun(w) ==
    \/ TakeTask(w) \/ WaitJudge(w) \/ LockForJudge(w) \/ PickJudge(w)
    \/ InitWorkDir(w) \/ GetLangJudge(w) \/ NoLangJudge(w) \/ GetProblem(w)
    \/ TryLockForOutputDir(w) \/ UnlockOutputDir(w) \/ JudgeAndClear(w) \/ ReleaseJudge(w) \/ Return(w)

-----------------------------------------------------------------------------
\* External: a user sends a submission to the server.
Submit(s) ==
    /\ process = "up"
    /\ server[s] = "unsent"
    /\ server' = [server EXCEPT ![s] = "waiting"]
    /\ UNCHANGED <<process, main, submit, pool, tasks, db_con, judges, jm_lock_judge,
                   jm_prob_lists>>

\* The ways the process ends; nothing happens after.
ProcessEnds ==
    \/ QueryFails
    \/ \E w \in Workers : WorkDirFails(w) \/ NoSuchProblem(w)
Gone == process # "up" /\ UNCHANGED vars

Next ==
    \/ \E s \in Submissions : Submit(s)
    \/ LoopRoutine \/ QueryEmpty
    \/ \E w \in Workers : JudgeTaskRun(w)
    \/ ProcessEnds \/ Gone

Spec == Init /\ [][Next]_vars

\* Every thread is scheduled, every query, download and judgement ends.
FairSpec == Spec /\ WF_vars(LoopRoutine) /\ \A w \in Workers : WF_vars(JudgeTaskRun(w))

-----------------------------------------------------------------------------
(* Properties *)

Held == {"workdir", "lang", "lock2", "find", "connect", "limits", "tests", "giveback",
         "copy", "judge", "outdir", "lock3", "flag"}

\* The shape of the manager's state (judge.h:77-98).
TypeOK ==
    /\ process \in {"up", "exited", "crashed"}
    /\ server \in [Submissions -> {"unsent", "waiting", "fetched"}]
    /\ main \in {"wait", "connect", "query", "srcdir", "locked", "fetch", "debug",
                 "release", "more", "update"}
    /\ submit \in Submissions \cup {NULL}
    /\ pc \in [Workers -> {"idle", "semjudge", "lock1", "pick", "post1", "post2",
                           "return"} \cup Held]
    /\ p_jdg \in [Workers -> Judges \cup {NULL}]
    /\ db_con \in [Workers \cup {Main} -> Connections \cup {NULL}]
    /\ jm_judges_flag \in [Judges -> {"Available", "Used"}]
    /\ jm_lock_judge \in Workers \cup {Main, NoOne}
    /\ jm_sem_judge \in 0..JUDGES_NUM
    /\ jm_sem_fetch_submissions \in 0..JUDGES_NUM
    /\ jm_prob_lists \in [Problems -> {"absent", "loaded", "empty"}]

\* A worker with a task gets a judge at once: it neither blocks on jm_sem_judge
\* nor finds every judge used and dereferences NULL.
JudgeAtHand ==
    \A w \in Workers :
        /\ pc[w] = "semjudge" => jm_sem_judge > 0
        /\ pc[w] = "workdir" => p_jdg[w] # NULL

\* jm_sem_fetch_submissions counts the judges nobody has work for: no
\* submission is fetched that would have to wait in the queue for a judge.
PermitsConserved ==
    jm_sem_fetch_submissions
        + (IF main \in {"wait", "more", "update"} THEN 0 ELSE 1)
        + Len(m_que_tasks)
        + Cardinality({w \in Workers : pc[w] \notin {"idle", "return"}}) = JUDGES_NUM

\* get_problem asks for a connection with jm_lock_judge held, so that one worker
\* at most asks at a time; given two connections it never waits for the one the
\* loop keeps while it polls.
ConnectionAtHand == \A w \in Workers : pc[w] = "connect" => Conns!Free # {}

\* Where a fetched submission is: with the loop, in the queue, in the hands of
\* a worker, or judged.
Copies(s) ==
    (IF submit = s /\ main \in {"srcdir", "locked", "fetch", "debug", "release"}
     THEN 1 ELSE 0)
    + Cardinality({i \in 1..Len(m_que_tasks) : m_que_tasks[i][1] = s})
    + Cardinality({w \in Workers : hand[w] # NULL /\ hand[w][1] = s})
    + Cardinality({t \in finished : t[1] = s})

\* A submission is in one place from the moment it is fetched: never lost,
\* never judged twice, as long as the process lives.
InOnePlace ==
    \A s \in Submissions : Copies(s) = IF server[s] = "fetched" THEN 1 ELSE 0

\* The judge, and so the work directory, in the hands of each worker.
Dirs == [w \in Workers |-> IF pc[w] \in Held THEN p_jdg[w] ELSE NULL]

\* get_judge and release_judge implement a pool of exclusive resources: no work
\* directory is ever in the hands of two workers.
WorkDirs == INSTANCE ResourcePool WITH
    Clients <- Workers, Resources <- Judges, Nothing <- NULL, holds <- Dirs
WorkDirsExclusive == WorkDirs!Spec

\* A problem is loaded at most once, whoever needs it first, and the entry every
\* later submission is judged by does not change any more.
ProblemLoadedOnce ==
    [][\A p \in Problems :
          jm_prob_lists[p] # "absent" => jm_prob_lists'[p] = jm_prob_lists[p]]_vars

\* Every fetched submission is judged, and every submission that waits on the
\* server is fetched, unless the process ends.
FetchedIsJudged ==
    \A s \in Submissions :
        server[s] = "fetched" ~> (process # "up" \/ <<s, "Release">> \in finished)
WaitingIsFetched ==
    \A s \in Submissions :
        server[s] = "waiting" ~> (process # "up" \/ server[s] = "fetched")
=============================================================================
