# A TLA+ verification project for NOJ

NOJ (the NPU online judge) is a daemon that fetches programs its users submitted
from a MySQL server, compiles each, runs it under `ptrace` on the test cases of
its problem, compares the outputs, and arrives at a verdict. This directory
holds TLA+ modules that model it, the TLC configurations that check them, and
TLAPS proofs of most of the safety properties. Every definition is translated from the code under
`src/`; `PROJECT.json` gives the lines for each.

## The system

| part | code | state | operations | interacts through |
|---|---|---|---|---|
| thread pool | `threadpool.cpp/.h` | queue of tasks, `m_shutdown`, mutex, condition variable, threads | `init_workthreads`, `add_task`, `get_task`, `WorkThread::run`, `pool_destroy` | `add_task` from the main thread; workers call the virtual `WorkTask::run` |
| database connections | `db.cpp/.h` | table of connections and their states, mutex, semaphore | `init`, `get_available_connection`, `release_connection` | called by the main thread and all workers |
| judge manager | `judge.cpp/.h` | judges and their flags, problem cache, one mutex, two semaphores | `loop_routine`, `fetch_submission_from_db`, `JudgeTask::run`, `get_judge`, `release_judge`, `get_problem` | thread pool, connections, file transfer, language judges |
| judging | `lang.cpp`, `Judge` in `judge.cpp` | the work directory, the results of a submission | `LangC::judge`, `check`, `copy_*`, `clear_work_dir` | shell commands; one worker at a time per directory |
| compiling | `lang.cpp`, `scripts/compile_*.sh` | a pipe, a child | `LangCDebug::compile` | `fork`; descriptors shared with everything the process forks |
| launching | `lang.cpp` | limits, the traced child | `LangC::launch` | `ptrace`, `wait4`, signals, `alarm`, `setrlimit` |
| daemon | `daemon.cpp`, `main.cpp` | `LOCKFILE` and a record lock on it | `daemon_run` | other processes that start NOJ |
| shared statics | `lang.cpp`, `judge.cpp` | the table of system-call limits, the name of the output directory, the number of the next output | `init_system_call_limits`, `get_output_dir`, `get_result_count` | all workers, without a lock |
| file transfer | `network.cpp`, `scripts/download_*.sh` | settings, the local files | `fetch_file` | shell scripts over FTP or SFTP; its result is ignored by all callers |
| configuration | `config.cpp`, `/etc/noj.conf` | the text of the file | `load_file`, `get_string`, `get_long`, `get_ulong` | the `init` of all other parts; ends the program over what it cannot read |
| log | `debug.cpp` | two streams and their locks | `init`, `d`, `e`, `destroy` | every thread, and the copies in forked children |
| main and shutdown | `main.cpp` | `g_is_child` | `main`, `terminate_NOJ` | `exit()`, from any thread or child |
| data items, test programs | `dataitem.*`, `test.cpp` | | | records; printing |

There is one *main* thread, which after start-up stays in `loop_routine`, and
`JUDGES_NUM` worker threads. The main thread waits for a permit
(`jm_sem_fetch_submissions`), polls the server with a database connection in
hand until there is a submission, and gives it to the pool as a `JudgeTask`. A
worker takes the task, takes a judge (that is, a work directory), looks the
problem up in the cache or loads it from the database and the file server,
compiles and runs the program in the work directory, and gives the judge back.

Hard to test, and therefore what the properties are about:

* **interleavings of threads**: queue, condition variable and a flag read
  outside the mutex; semaphores passed before a mutex is taken and posted after
  it is released; `jm_lock_judge` held over database queries, with `trylock`s on
  it nested inside; a pipe's write end inherited by other threads' children;
* **tracer, program and kernel**: what stops the child, in which order the
  limits are compared, and a table of system-call limits that is used up;
* **failures**: threads, forks, connections, queries and shell commands that
  fail, most of which the code logs and passes over;
* **liveness**: wakeups, the loop's permits, a compiler that fills its pipe, a
  program that never ends;
* **crashes** of the daemon between its lock, truncation and write; files of the
  last run that a restarted process finds;
* **races** on statics that are built at their first use;
* **shutdown**: `exit()` in one thread or in a forked child, while others go on.

`PROJECT.json` lists the hazards with their lines and the properties that cover
each.

What makes each part correct: the *pool* hands each task to one worker, in order,
and leaves none lying while a worker sleeps; *connections* and *judges* are in
one pair of hands each, and a thread that passed the semaphore finds one; the
*manager* neither loses nor doubles a submission or a permit, and makes
progress; *judging* says Accept only of expected outputs, and nothing else to a right
program on a healthy system; *launching* returns, carries out no forbidden call and
gives the verdict its cause; *compiling* returns the whole diagnostics;
*daemon_run* lets one daemon run; *shared statics* are right except for workers
that raced; *fetching* says Normal of nothing it can know is missing;
*numbers* in the settings are those of their own lines; and *exit()* ends the process, or the child.

## The modules

| module | models | state and its code |
|---|---|---|
| `TaskPool` | what the thread pool promises | queue, who holds what, what was finished |
| `ThreadPool` | `threadpool.cpp` | the fields of `ThreadPoolManager`; `pc` and `p_task` of each worker; `client` and `arg` of the one thread that calls it; histories `added`, `taken`, `finished` |
| `ResourcePool` | what a pool of exclusive resources promises | who holds what |
| `DBConnMgr` | `db.cpp` | the fields of `DBConnMgr`, and `sock`: what came of each `mysql_real_connect` |
| `JudgeManager` | `judge.cpp` | the judges' flags, the problem cache, mutex and semaphores by their names; `main`, `submit`, `pc`, `p_jdg`: control and locals; `server`: the submissions as MySQL has them |
| `LangJudge` | `LangC::judge` and `Judge::copy_*` | the locals of `judge()`; `dir`: whose program, which input and what output the files of the work directory hold |
| `Launch` | `LangC::launch` | its `Result`, the table of system-call limits and what is left of it, the child's phase, what `wait4` reports, CPU time, page faults, alarm |
| `Compile` | `LangCDebug::compile` | pipes, write ends (`writing`, `inherited`), descriptors, children |
| `Daemon` | `daemon.cpp` | the record lock, what `LOCKFILE` says, each process |
| `Statics` | `init_system_call_limits`, `get_output_dir`, `get_result_count` | the shared variables by their names, the blocks they point to (by the worker that allocated them), each worker's registers |
| `FileTransfer` | `network.cpp` and the download scripts, for `fetch_testcase_from_ftp` | the server's version of each of the two files, the local files, whether the paths are one word (`named`), where the script is, `ret` and `stat` |
| `Config` | `config.cpp` | operators without state: what a key is read as from the lines of a file |
| `Lifecycle` | `main.cpp`, `debug.cpp`, and the `init` of every part | the stage of the start-up, log, database and configuration as set up or deleted, the log's locks, threads, children, the thread in `exit()` |

`MC*` modules only give constants and symmetry for TLC; where a `.cfg` alone can
do that, it instantiates the module itself. A module `<M>Proofs` holds the theorems about `M`,
with the inductive invariants and lemmas they rest on: there are seven, for `ThreadPool`,
`DBConnMgr`, `JudgeManager`, `Launch`, `LangJudge`, `Compile` and `Statics`. An eighth,
`ProcessProofs`, holds those about the rest of the process: it extends `Lifecycle` (and so
`Config`), `Daemon` and `FileTransfer`. That is why the latter two name their variables and
specifications differently (`DaemonSpec`, `FetchSpec`).

`JudgeManager` composes: it contains the queue and hands of `TaskPool` and
takes tasks and finishes them by that module's actions (`Pool!Add`, `Pool!Take`,
`Pool!Finish`), and it gets database connections from an instance of
`ResourcePool`. `ThreadPool` is shown to implement `TaskPool`
and `DBConnMgr` to implement `ResourcePool` (both by TLC, and proved), so that the manager is
checked against what the parts promise rather than their details. `Lifecycle`
extends `Config`: the start-up reads its settings by that module's operators. That a work
directory is in one worker's hands (`WorkDirsExclusive`) is in turn what lets
`LangJudge` follow a single worker.

One action is what a thread does between two points at which another could
notice. Threads move by a `pc` (`where` in `Daemon`, `at` in `FileTransfer`); a mutex is the thread that holds it; a semaphore
is a number. Choices that belong to the outside (a query's result, a `fork`, a
`pthread_create`, a signal, a command's exit status) are existential
quantifiers or actions of their own. In particular:

* `ThreadPool`: `pthread_cond_wait` releases the mutex and sleeps in one step
  (`CondWait`), returns with or without a signal, and takes the mutex again.
  Each of the three reads of `m_shutdown` in `get_task` and `run` is at a step of
  its own, and `RaiseShutdown` needs no mutex. Joining a thread that was never
  created is undefined: it fails, or the process crashes. That the client
  destroys the pool follows the destructor; in the program as it is only the
  destructor of the manager, which nobody runs, would call it.
* `JudgeManager`: `get_src_dir` and `get_output_dir` go on whether their
  `trylock` succeeds or not. Those inside `fetch_problem_from_db` fail, as
  `get_problem` holds the mutex. The loop polls with a connection in hand. A
  query that fails ends the process; one without a result set, a problem that is
  not in the table and a language without a judge crash it; a failed query for
  test cases leaves the problem out, and `operator[]` stores an empty one.
* `LangJudge`: a shell command does its work or fails and changes nothing; the
  `mv` of the compile script is one as well. What a program prints depends on the
  program and the input it is given (`Prints`), and the check compares contents, as `diff`
  does: the wrong input may lead to the expected output. `Restart` ends NOJ at any
  point and starts it again, which keeps the directory as it is, as `init_work_dir` does.
* `Launch`: while the child is stopped or dead, nobody else changes what the
  tracer looks at, so one round of the loop, from `wait4` to
  `PTRACE_SYSCALL`, is one step. The child stops at the entry and at the exit
  of each call; the kernel carries the call out in between (`CallReturns`). CPU time
  and page faults grow at any moment the child runs. A trap that is no system call, and
  a call whose number is outside the table, are the stop `stray`: `launch()` indexes the
  table with what it finds, so that the program is refused, goes on, or NOJ crashes.
  The table is any that agrees with `RF_C` but for the entries nobody wrote
  (`Tables`). `PTRACE_KILL` takes effect later (`Dies`), which nobody waits for.
  `get_proc_info` answers 0, or what lay on the stack (`ProcInfoUnread`), or
  brings NOJ down when `popen` fails (`Crash`). The limits are those of a problem
  (`single_time_limit`, `memory_limit`), chosen at the start, and no step changes them.
* `Compile`: `read` returns part of what is there, and end of file when the
  last write end is closed; `Inherit` copies every write end open at a `fork`.
  The three reasons for `SystemError` are told apart in `res`.
* `Daemon`: a record lock goes with the process that holds it, and is not
  inherited over the `fork` in `daemon()`.
* `Statics`: each access to shared memory is a step, and `memcpy` copies the entries
  in any order. A data race is undefined; the outcomes a build can produce are
  those of a debug build, which reads a shared variable again at each use, and
  those of a release build, which may go on with what a register holds. `memset`
  clears 512 bytes, the first 128 entries; the rest is what `malloc` left.
  `get_src_dir` and `get_testcase_dir` are not repeated: the first is called by the
  main thread only, the second with the mutex held.
* `FileTransfer`: a path that is empty or two words gives the script a wrong number of
  arguments, and it exits with 50 (`WrongCount`). `Arguments` is what the code puts on the command line and
  `Usage` what the script wants; `Given` is what the script finds where it looks
  for an argument, so that FTP fails by what the two say and not by decree. The wait
  status is a number, as `system()` returns it, and each mode's switch looks at
  it in its own way. `Transfer`, `BreaksOff` and `NothingComes` are what `sftp` may do;
  the script's check is apart from them. `Restart` stops NOJ anywhere and leaves
  the files.
* `Config`: a file is the sequence of its lines; the expression
  `^\s*KEY\s*=\s*(\S+)\s*$` is a condition on a line and the one behind it, since
  `\s` matches the end of a line.
* `Lifecycle`: a stage of the start-up is one step, as there is only one thread
  then; it reads one setting of each kind in place of all of that kind. Using a part that is
  not set up, or deleted, crashes the process or does not. `exit()` runs the
  handler once; a second thread that calls it finds nothing left to run and
  ends the process. A forked child has the locks as they were and no thread that would release
  them; if `exec` fails it runs the same handler.

## What is checked

Passing runs, with the distinct states TLC finds:

| run | instance | states | shows |
|---|---|---|---|
| `thread_pool` | 3 workers, 2 tasks | 41 861 | `PopNeverEmpty`, `NoLostWakeup`, `TakenIsServed`, `ImplementsTaskPool`; `TaskIsRun`: every task is run while the pool is up and has a thread; `DestroyReturns` |
| `db_connections` | 3 clients; 1 of 2 connections, or 5 configured and 2 in the table | 3 518 | `NeverNull`, `UsedIsHeld`, `ImplementsResourcePool`, `SomeoneIsServed`, no deadlock |
| `judge_manager` | 3 workers, 3 submissions, 2 problems, 2 connections | 557 586 | `JudgeAtHand`, `PermitsConserved`, `ConnectionAtHand`, `InOnePlace`, `WorkDirsExclusive`, `ProblemLoadedOnce`, no deadlock |
| `judge_manager_live` | 2 workers, 3 submissions | 127 588 | `FetchedIsJudged`, `WaitingIsFetched` |
| `launch` | 5 calls, 2 test cases; both limits set, 0, or not set | 709 226 | `NoForbiddenCall`, `CondemnedWithCause`, `LimitsDecideFirst`, `LimitsHaveCause`, `LaunchReturns`, `ProgramEnds` |
| `lang_judge` | 3 submissions, up to 3 test cases, up to 2 failures or restarts | 158 513 | `RunsOwnProgram`, `AcceptIsEarned`, `RightIsAccepted` |
| `compile` | 2 workers, a pipe of 2, output up to 3, 5 descriptors | 71 795 | `DiagnosticsWhole`, `CompileReturns` |
| `daemon` | 4 processes | 873 | `OneDaemonNamed`, `OnlyTheLivingBar` |
| `statics` | 2 workers, 2 launches and 2 outputs each, 4 calls | 1 385 302 | `WrongLimitsNeedARace`, `WrongDirNeedsARace`, `OutputsApart` |
| `file_transfer` | 2 modes, 2 versions of each file | 49 653 | `NormalMeansFetched`, `PairMatches`, no deadlock |
| `lifecycle` | 23 files, main and 2 workers | 55 117 | `NumbersAreOwn`, `SoundUntilExit`, `ChildEnds`, `ExitEnds` |

Each property is stated in words above its definition. Every property of a
passing run is broken by at least one plausible bug of the code, written as an
operator marked "Mutant" before the definition it would replace.

`TypeOK` of each module states the shape of its state, for readers and for proofs; it is
not among the properties of the runs; nor is `QueueInOrder`, which is proved and is the order
`ImplementsTaskPool` promises. `TypeOK` is proved of
the first six of those modules and of `Daemon`; for `Statics`, `Lifecycle` and
`FileTransfer` the types are part of the invariants.

One run is expected to be violated, because the code does something other than
what it depends on says:

* `ftp_usage`: the usage of `download_from_ftp.sh` is
  `remotefile local user host id_file`; `network.cpp:160` gives it host, user,
  password, remote file and local file. TLC shows a fetch in which nothing
  outside fails and after which there is no file. Over FTP no file ever arrives,
  and since `network.cpp:171` looks for 1 in a wait status, where an exit with 1 is
  256, `fetch_file` says `Noj_Normal` each time.

Two more divergences are plain from the text and have no run: `dataitem.h:114`
says that `MemorySize` counts bytes, while `launch()` stores KB in it
(`lang.cpp:253`), and compares the limit in the same unit; and `daemon.h:6`
promises a positive result when another daemon runs, where the process exits
(`daemon.cpp:29`), which is the step to "turned away" in `Daemon`.

Several properties hold with an exception that is part of their statement, since the
code has the problem:

* `DestroyReturns`: a worker that tested `m_shutdown` before it was raised, and
  has not yet gone to sleep, misses the broadcast; `pool_destroy` then never
  returns.
* `CompileReturns`: a compiler that writes more than a pipe holds and its
  worker, which reads only after `waitpid`, wait for each other, and for every
  worker whose write end that compiler inherited.
* `RunsOwnProgram`: one failed command, or one restart in the middle of a judgement, is
  harmless; two of them, such as a failed `rm` and a failed `cp`, have a submission
  judged by the last one's program.
* `AcceptIsEarned`: a single `cp` of an input that fails is enough for an Accept that
  is not deserved: the program runs on the last test case's input, and what it prints
  may be what this one expects. TLC finds such a state with a program that is wrong on the second
  test case. The property says what is left: the expected bytes were
  printed, and by the right program on the right input if nothing failed.
* `RightIsAccepted`: besides failed commands, `is_special_judge` may keep a right program
  from Accept: nobody sets it (`lang.cpp:424`).
* `CondemnedWithCause`: a trap that is no call, or a number outside the table,
  is looked up outside `syscall_limits` (`lang.cpp:343`), and the program
  may be told `IllegalSystemCall`. That a call which is not listed may be allowed, since
  `memset` clears a quarter of the table, is no exception to any property but visible in
  `NoForbiddenCall`, which is relative to the table that was built.
* `LaunchReturns`: without a time limit there is no alarm, and a program that waits is waited
  for; and NOJ may crash instead, over such a number or when `popen` fails
  (`lang.cpp:168`), for which the descriptors lost by `compile()` are a reason.
* `LimitsDecideFirst` and `LimitsHaveCause`: if the shell of `get_proc_info` prints nothing, an
  uninitialised number is compared with the memory limit (`unread`).
* `ProgramEnds`: a program that was killed may outlive `launch()`'s return.
* `WrongLimitsNeedARace`: a worker that takes the address of the table of system calls,
  or copies it, while another one is building it launches a program with limits the table does not have, and may
  condemn it for a legal call; and no claim can be made of calls numbered from
  128 that the table does not list.
* `WrongDirNeedsARace`: a worker that asks for the directory while another one is
  printing its name copies its output elsewhere.
* `OutputsApart`: a worker that stores the count it computed before others went on
  sets it back, and an output may then replace an earlier one of the same submission. Merely
  losing an increment does not do that.
* `NormalMeansFetched`: over SFTP `Noj_Normal` of a file that did not come is
  possible if an older one was there, if the remote path is not one word (the script
  exits with 50), or if the command did not end by an exit
  of the script; over FTP nothing can be claimed.
* `PairMatches`: a transfer that breaks off, a path that is not one word, or a file
  replaced without the other or in between leaves a pair that does not match, and it is cached.
* `NumbersAreOwn`: only the numbers. A text without a value (a password, a host) is
  given the following line, if that is one word.
* `SoundUntilExit`: from the moment a thread calls `exit()` the others use what
  `terminate_NOJ` deletes.

`ConnectionAtHand` and the absence of deadlock rest on two connections or more: the loop
keeps one while it polls. `DB_MAX_CONNECTIONS = 1` would stop every worker that
needs a problem; the shipped configuration has 3. Each call of `compile()` leaves
`fd[0]` open, so that `pipe()` fails after a while; the run `compile` goes on until it does.

### Bounds

Names are in brackets where a constant bounds an otherwise unbounded quantity.

* Thread pool: three workers and two tasks let one worker sleep, one be woken and
  one overtake it.
* Connections: more clients than connections, a table longer than the number in
  use and one shorter than the number configured.
* Judge manager: three workers and submissions, and fewer workers than submissions
  in the run for liveness; `s1` and `s2` share a problem, so
  that two workers ask for it at once; `s3` is in a language nobody judges. Two
  connections are the least the program works with. The mode of a submission is
  Release alone, as in the code.
* `Launch`: a second has two "ms", so that rounding up matters; the time limit is 1
  of them and the memory limit 8 KB, that is two pages, or both are 0, or neither is set; five calls, of
  which two are not listed, one of them beyond what `memset` clears, with `Garbage` -1
  or 9 there and on the stack; [MaxFaults] 3 pages, one more
  than allowed; [MaxTime] 2 "ms" applies to a program without limit;
  [MaxCounted] 2 is one more than the one `execve` allowed; [Tests] 2 launches, so
  that one follows another.
* `LangJudge`: [MaxTests] 3, with fewer as well, two of which expect the same output and the
  third another, so that the wrong input may lead to the right output or not; [MaxFailures] 2
  in commands and restarts together, since one does not exchange programs and two may;
  a submission that is right, one that is wrong on the second test case unless it
  is given the first one's input, and one that does not compile.
* `Compile`: [MaxOutput] is above the pipe's capacity; [MaxDescriptors] runs out
  after a few calls, so that `pipe()` fails.
* `Daemon`: four processes: one that dies, its successor, and two that race.
* `Statics`: two workers, so that one meets the other at each step. Two are not enough for
  everything: in the debug build a third worker can take the table's address from
  one builder and copy it when two builders have gone over it, and has then met nobody
  while it copied. The attempt to prove an earlier `WrongLimitsNeedARace`, which looked at
  the copying alone, brought this to light; the property now counts those met when the address is taken
  as well. TLC checked it for three workers with one launch each (5.7 million states, too
  many for a run to keep), and the theorem covers any number.
  [MaxLaunches] 2, one with the table to be built and one with it built;
  [MaxOutputs] 2, the least that can collide; a listed and an unlisted call on
  each side of number 128.
* `FileTransfer`: [MaxVersion] 2 for each file, so that an old file differs from a new one; restarts
  and fetches are not bounded.
* `Lifecycle`: a proper file of seven lines, the same without one value, with a
  line commented out, with a wrong value, in mode FTP, and none at all; WORD is 8
  in place of 2^32, so that `JUDGES_NUM = -1` asks for more judges than there is
  memory for; two workers, so that one forks while the other holds a lock.

Symmetry is used for workers in `judge_manager` and `statics` and for processes in
`daemon`, which check safety properties only.

### Fairness

With one exception weak fairness, on the actions of one thread or process together: the operating
system runs a thread that can go on. `ThreadPool` assumes it of each worker
(a task's `run()` returns) and of calls the client has begun, but neither that the
client begins one nor that a spurious wakeup comes. `DBConnMgr`: each thread that is
inside the manager, and a thread gives its connection back. `JudgeManager`: each
thread, which includes that queries, downloads and judgements end
(`launch()` and `compile()` have runs of their own for that); nobody has to submit
anything. `Launch`: the tracer, the kernel's part (a pending signal, a call that
cannot block, `exec`, the death of a program that was killed) and the alarm; the program owes nothing. `Compile`: each worker
inside the call, and each child. `Lifecycle`: a thread finishes the line it has
begun, a child goes on to `exec` or `exit`, and, with strong fairness, the
thread in `terminate_NOJ` gets its turn at the log's lock, which others may
take and give back again and again. That is an assumption about the scheduler, not a
promise of `pthread_rwlock_t`: each unlock wakes a waiter, lines are short and
rare, and sooner or later the waiter comes first. A program the child executes
owes nothing.

## What is proved

Every theorem is about the module's `Spec` (`DaemonSpec`, `FetchSpec`) as TLC runs it, for all values of the
constants that satisfy the module's assumption. Each rests on an inductive invariant
(`Init => Inv`, `Inv /\ [Next]_vars => Inv'`, with a lemma for each group of
actions), the last step being temporal logic.

| module | theorem | property |
|---|---|---|
| `ThreadPoolProofs` | `TypeCorrect`, `NeverPopsEmpty`, `OrderKept`, `EveryTakenTaskIsServed`, `WakeupsKept` | `TypeOK`, `PopNeverEmpty`, `QueueInOrder`, `TakenIsServed`, `NoLostWakeup` |
| | `PoolKeepsPromise` | refinement: `ImplementsTaskPool` |
| `DBConnMgrProofs` | `ConnTypeCorrect`, `ConnectionAlwaysFound`, `MarksAreTrue` | `TypeOK`, `NeverNull`, `UsedIsHeld` |
| | `ConnMgrIsAPool` | refinement: `ImplementsResourcePool` |
| `JudgeManagerProofs` | `ManagerTypeCorrect`, `PermitsAreConserved`, `JudgeIsAtHand`, `SubmissionsAreKept` | `TypeOK`, `PermitsConserved`, `JudgeAtHand`, `InOnePlace` |
| | `ConnectionIsAtHand` | `ConnectionAtHand`, if there are two connections |
| | `ProblemsLoadedOnce` | steps: `ProblemLoadedOnce` |
| | `JudgesAreAPool` | refinement: `WorkDirsExclusive` |
| | `PoolContractKept` | `ContractKept`: what `TaskPool` asks of its callers |
| `LaunchProofs` | `LaunchTypeCorrect`, `TheTableIsKept`, `LimitsComeFirst`, `LimitsAreFair` | `TypeOK`, `NoForbiddenCall`, `LimitsDecideFirst`, `LimitsHaveCause` |
| | `CondemnedJustly` | `CondemnedWithCause`, for lists like the one in `lang.cpp` and anything in the rest of the table |
| `LangJudgeProofs` | `JudgingTypeCorrect`, `OneFailureIsHarmless`, `AcceptIsWorthIt`, `RightGetsAccepted` | `TypeOK`, `RunsOwnProgram`, `AcceptIsEarned`, `RightIsAccepted` |
| `CompileProofs` | `CompileTypeCorrect`, `NothingIsLost` | `TypeOK`, `DiagnosticsWhole` |
| | `DescriptorsCoverPipes` | `Descriptors`: those in use are at least the open write ends |
| `ProcessProofs` | `NothingMisusedBeforeExit`, `NumbersComeFromTheirLines` | `SoundUntilExit`, `NumbersAreOwn` of `Lifecycle` |
| | `NormalMeansThere`, `PairsMatch` | `NormalMeansFetched`, `PairMatches` of `FileTransfer` |
| | `DaemonTypeCorrect`, `OneDaemon`, `AtMostOneDaemon` | `TypeOK`, `OneDaemonNamed` of `Daemon`, and that there is one at most |
| | `TheDeadBarNobody` | steps: `OnlyTheLivingBar` |
| `StaticsProofs` | `WrongLimitsMeetABuilder`, `WrongDirMeetsAPrinter` | `WrongLimitsNeedARace`, `WrongDirNeedsARace` |
| | `OneNameNeedsALostUpdate` | `OutputsApart`, if the numbers fit into a name |

### Assumptions

The assumption of each module says what kinds of things its constants are, and that values
standing for "nothing" (`NULL`, `NoOne`, `Absent`, `Blank`, `Unset`) are none of the things
themselves. Beyond that: workers, and the threads that want connections, are
finitely many (`JUDGES_NUM` is a count, and so is the number of threads); an entry of `launch()`'s table, listed or left by `malloc`, is -1 or a
count (any other negative number is -1 to the code), and of the listed ones none is
left to chance; a second has at least two of the units time is counted in; and
`RF_C` lists a call once, as `lang.cpp:103` does. What the kernel is taken to do is in the actions marked
external; `TheTableIsKept` depends on one of these: a call at whose entry `PTRACE_KILL` came is not carried out. For `Lifecycle` the words of each
line of a file are a sequence. `PairsMatch` and `NormalMeansThere` need no
assumption on the constants of `FileTransfer` at all. Three theorems need
more and say so as a hypothesis:

* `ConnectionIsAtHand`: `TwoConnections`. With one the loop keeps it, and the property is false.
* `CondemnedJustly`: `TableOfC`, that no listed count exceeds 0, or 1 for `execve`,
  and `HistoriesSuffice`, that the histories of the model count to two. Each call uses up two of
  the times it is allowed, at its entry and at its exit, so that a list that allowed
  a call twice would have it condemned the second time. The one in `lang.cpp` has no such entry.
* `OneNameNeedsALostUpdate`: `FewOutputs`, that the workers' submissions have fewer
  than 100 000 outputs in all, as many as the five digits in a name can tell apart. The count
  itself is bounded by the number of outputs named, which is the harder part of the proof.

### Thread pool

The argument has four layers, each inductive given those before it:

1. `Control`: types; the mutex is held exactly at the places where a thread
   is inside (`MutexInv`); `m_shutdown` goes with the client's phase
   (`PhaseInv`); an argument is there while `add_task` runs (`ArgIsTask`);
   a worker goes to sleep on an empty queue only, unless the pool has gone down
   meanwhile (`SleepInv`); empty hands where no task can be (`HandInv`);
   and `PopNeverEmpty`. The last is not inductive alone: that nobody takes the last
   task between a worker's test and its pop needs the mutex.
2. `QueueInOrder`: what was added is what was taken and what is queued. The one
   step that matters moves the head of the queue (`MoveHead`).
3. `TaskInv`: no task is added twice (`AddedOnce`, `ArgIsNew`), what a worker
   holds or has finished was taken (`TakenFirst`), and `TakenIsServed`. That a task
   taken next is new to every hand comes from `AddedOnce` and the order of layer 2.
4. `NoLostWakeup`, by counting the workers on their way to the queue: each step adds
   or removes one at most (`HeadingGrows`, `HeadingShrinks`, `HeadingCard`).

The refinement follows from layers 1 to 3: every step of the pool is one of
`TaskPool` or leaves its state as it is.

### Connections and daemon

`NeverNull` is not inductive: that a thread behind the semaphore finds a connection needs the
count of those who passed it (`SemCounts`) and the pairing of marked connections with the
threads that have them (`Marks`). If all were marked, the map from connections to holders
would be an injection into one thread fewer than there are connections
(`SomethingIsLeft`). The refinement is that of the steps `mark` and `giveback`.

For `Daemon` the invariant is that the write lock is held exactly by whoever is the daemon or on the way to it
(`LockInv`), in both directions: one keeps `LOCKFILE` right, the other gives
the check before the `fork` its meaning.

### Start-up, end and file transfer

`SoundUntilExit` needs to know who can be where: before the loop nobody but main does
anything, and nobody is in `terminate_NOJ` before some thread has called `exit()` (`Order`). Then
each stage finds what the earlier ones have set up (`SetUp`), which stays until the
first `exit()`. `NumbersAreOwn` goes through `Own`: each setting read so far is what
`regex_get_value` makes of the file, and a number if it had to be. `ReadFromItsLine` does the rest, for any
file: the first matching line exists (`LeastLine`), and if what is read is a number it has
a word of its own, since the line that would stand in for it does not start as one.

For `FileTransfer` the invariant has two parts besides the types. `Traced`: a file that is there
while it is fetched has come or was there before, a script that exits with 0 has found one, and
what was answered is the verdict on the status. `Matching`: undisturbed, what has
been fetched since the beginning is whole and of the server's version. That the arguments of the SFTP
script are where it looks for them is a lemma (`SftpUsage`); for the FTP script it is
false, and that is the finding of `ftp_usage`.

### Judge manager

1. `Counts`: permits and judges are conserved. The steps of loop and workers move one unit from one
   term of the sum to another (`CountsLoop` and its companions).
2. `Control`: types, the mutex held exactly inside the critical sections, hands empty
   exactly when idle, connections only inside `fetch_problem_from_db`, and a problem
   found absent still absent while it is being loaded.
3. `Flags`: a judge flagged Used is in one worker's hands. With layer 1 a judge is free
   for who passed the semaphore, by an injection as above. `JudgesAreAPool` follows.
4. `InOnePlace`, by counting in how many places a submission is (`Copies`): the server
   hands it out once, and each step moves it or leaves it.

### Launching and judging

`Launch`: `Phases` ties what the tracer knows of the child to what the child does, up to its
being killed. On it rest `Allowance`, in which the calls carried out, the stops spent on the one under way and what
is left of the table never exceed it; `Causes`, what the histories say at each stop; 
`Limits`, that the maximum recorded stays below the limit until the loop is left for it; and `Reasons`,
that who is being told of a limit has used too much.

`LangJudge` has an invariant for each question: `Sources` says which program each file of the
directory comes from after none, one or more failures or restarts; `Earnings` that `flg_ac` is up only while all
that ran printed what was expected; `InPlace` that without trouble the submission's own program and the test case's
own input are where they should be, whatever lay in the directory; and on it `Rights`, that nothing
goes wrong with a right program as long as nothing fails.

`Compile`: what has been written is in the pipe or in the result, and who has ended has written
all (`Conserved`). That the count of descriptors covers the open write ends (`Descriptors`) is an
argument on finite sets, and a theorem of its own.

### Shared statics

`TableInv` says of each table that is shared, or that a worker is about to use, that each entry is right or that
some worker is still to write it (`Built`), and that the table an unraced worker copies is complete and no builder is at it
(`Undisturbed`); that addresses are not reused needs `Pointers`. `NameInv` says the same of
the directory's name. For the numbers, `CountInv` has the count bounded by the outputs given a
number (`Counted`) and, as long as it was not set back, each worker's numbers below
what it will get next (`Rising`).

### Only model-checked

All invariants and step properties of the runs, and the refinements, are proved. What is left:

* Out of the prover's reach: everything about liveness and fairness (`TaskIsRun`,
  `DestroyReturns`, `SomeoneIsServed`, `FetchedIsJudged`, `WaitingIsFetched`,
  `LaunchReturns`, `ProgramEnds`, `CompileReturns`, `ChildEnds`, `ExitEnds`), and the absence of deadlock.

## What is not modelled

* Test programs and build files.
* `destroy_judges`, `~JudgeManager` and `~ThreadPoolManager`, which nothing runs;
  `m_is_terminated`, which nobody sets; the upload scripts, which are
  configured and never called; `test_regex`.
* Languages other than C and C++: there is no judge for them, and what a submission in
  one does is in `JudgeManager`.
* Fetching the source file is the same `fetch_file` as for a test case, to one
  file instead of two; `LangJudge` has its failure as that of the copy that follows.
* A download script that outlives the NOJ that started it.
* The early `return NULL` of `get_output_dir` and its like, with the mutex locked:
  `init_workdir` has set `work_dir` before any worker is there.
* How `diff` tells a presentation error from a wrong answer, what the tables of system calls hold for each number,
  names that are cut at the length of a buffer, and the formatting of names and
  commands: data the properties do not tell apart.
* A child that was killed is never waited for, and stays a zombie; the table of processes is not
  modelled, only that `fork` may fail at any time.
* A traced program that outlives a NOJ which crashed.
* What a count decremented outside `syscall_limits` does to what lies there.
* The results of `chdir`, `chroot`, `setuid` and `freopen` in the child, which nobody looks at.
* A `cp` or `mv` that fails with half of the file copied.
* A `read` that fails: its -1 in a `size_t` would pass for a long read (`lang.cpp:647`), but
  NOJ handles no signal that could interrupt one, and the pipe is its own.
* Several rows from `fetch_submission()`, of which the loop would keep the last (`judge.cpp:308`): the
  procedure is the server's and taken to give one.
* A line of the configuration file that is not `KEY = value`.

## Plan

Done: all parts are modelled and checked, and every invariant, step property and
refinement of a passing run is proved.

Left: where an invariant of a proof says more about the code than the property it was found for (the
layers of `ThreadPool` and `JudgeManager`, `Order` of `Lifecycle`), to state it as a
theorem of its own; and to keep the proofs in step with the code.
