------------------------------ MODULE Lifecycle ------------------------------
(***************************************************************************)
(* A NOJ process from main() to its end (main.cpp): the start-up, which    *)
(* reads the configuration and sets up log, database, file transfer and    *)
(* judges one after the other; the threads, which log (debug.cpp), use the *)
(* database and fork children; and exit(), called by any of them, whose    *)
(* handler deletes what the others are using.  A child that cannot exec    *)
(* calls exit() as well, with a copy of the locks as they were when it was *)
(* forked.                                                                 *)
(***************************************************************************)
EXTENDS Config

CONSTANTS ConfigFiles,  \* configuration files to look at, or Missing
          Workers,      \* a sequence: the threads that may be started
          main, NoOne

ASSUME LifecycleAssumption ==
    /\ WORD \in Nat \ {0}
    \* The words of a line are a sequence.
    /\ \A f \in ConfigFiles \ {Missing} : \A n \in 1..Len(f) :
          f[n].words \in Seq(Range(f[n].words))
    /\ main \notin Range(Workers) /\ NoOne \notin Range(Workers) \cup {main}

VARIABLES
    file,
    setting,   \* the settings read so far
    stage,     \* where main is
    handler,   \* whether terminate_NOJ is registered
    m_buffer,  \* the text of the file: "NULL", "loaded", "freed"
    log,       \* the two streams of Log: "NULL", "open", "closed"
    lock,      \* the lock of each stream: who holds it
    db,        \* DBConnMgr: "none", "up", "deleted"
    threads,   \* those that run
    pc,        \* what a thread is at
    child,     \* the child each worker waits for
    ending,    \* the thread that is in exit()
    process,   \* "running", "ended", "crashed"
    misuse     \* history: something was used before or after its time

start == <<file, setting, stage, handler>>
parts == <<m_buffer, log, db>>
vars  == <<start, parts, lock, threads, pc, child, ending, process, misuse>>

Threads == Range(Workers) \cup {main}
Streams == {"out", "err"}
NoChild == [phase |-> "none", g_is_child |-> FALSE, locked |-> {}]

Init ==
    /\ file \in ConfigFiles
    /\ setting = << >> /\ stage = "root" /\ handler = FALSE
    /\ m_buffer = "NULL" /\ log = "NULL" /\ db = "none"
    /\ lock = [s \in Streams |-> NoOne]
    /\ threads = {main}
    /\ pc = [t \in Threads |-> "busy"]
    /\ child = [t \in Threads |-> NoChild]
    /\ ending = NoOne /\ process = "running" /\ misuse = FALSE

Running(t) == process = "running" /\ t \in threads

-----------------------------------------------------------------------------
(* exit() *)

\* The C library runs the handler once, in the thread that comes first; for
\* one that comes later nothing is left to run, and it ends the process.
Exits(t) ==
    /\ IF handler /\ ending = NoOne
       THEN /\ ending' = t /\ pc' = [pc EXCEPT ![t] = "delete config"]
            /\ UNCHANGED process
       ELSE process' = "ended" /\ UNCHANGED <<ending, pc>>
    /\ UNCHANGED <<start, parts, lock, threads, child, misuse>>

Crashes ==
    /\ process' = "crashed"
    /\ UNCHANGED <<start, parts, lock, threads, pc, child, ending, misuse>>

\* What is not there, or there no more: the process crashes, or does not.
Misuses == misuse' = TRUE /\ process' \in {"running", "crashed"}
UsesIf(ready) == IF ready THEN UNCHANGED <<misuse, process>> ELSE Misuses

-----------------------------------------------------------------------------
(* main(), up to loop_routine *)

At(s) == Running(main) /\ stage = s /\ pc[main] = "busy"
Goes(s) ==
    /\ stage' = s
    /\ UNCHANGED <<file, lock, child, ending, process, misuse>>

CheckRoot ==
    /\ At("root")
    /\ \/ Goes("log") /\ UNCHANGED <<setting, handler, parts, threads, pc>>
       \/ Exits(main)

\* Mutant: a log that cannot be opened does not end the program.
InitLogAnyway ==
    /\ At("log")
    /\ Goes("chdir") /\ log' \in {"open", "NULL"}
    /\ UNCHANGED <<setting, handler, m_buffer, db, threads, pc>>

\* Log::init
InitLog ==
    /\ At("log")
    /\ \/ /\ Goes("chdir") /\ log' = "open"
          /\ UNCHANGED <<setting, handler, m_buffer, db, threads, pc>>
       \/ Exits(main)

ChangeDir ==
    /\ At("chdir")
    /\ \/ Goes("load") /\ UNCHANGED <<setting, handler, parts, threads, pc>>
       \/ Exits(main)

\* load_file, whose result main ignores, and atexit.
LoadFile ==
    /\ At("load")
    /\ Goes("db") /\ handler' = TRUE
    /\ m_buffer' = IF file = Missing THEN "NULL" ELSE "loaded"
    /\ UNCHANGED <<setting, log, db, threads, pc>>

\* A stage reads its settings: without a text regex_get_value crashes, and a
\* missing setting or one of the wrong kind ends the program.
Readable(texts, numbers) ==
    (\A k \in texts : Found(file, k)) /\ (\A k \in numbers : FoundNumber(file, k))
Reads(texts, numbers) ==
    setting' = [k \in DOMAIN setting \cup texts \cup numbers |-> regex_get_value(file, k)]

InitDB ==
    /\ At("db")
    /\ IF m_buffer = "NULL" THEN Crashes
       ELSE IF ~Readable({"DB_PASS"}, {"DB_PORT"}) THEN Exits(main)
       ELSE /\ Goes("net") /\ Reads({"DB_PASS"}, {"DB_PORT"})
            /\ db' = "up"
            /\ UNCHANGED <<handler, m_buffer, log, threads, pc>>

\* NetworkManager::init.  The mode may be any prefix of SFTP or FTP.  SFTP needs
\* the user noj and its identity file.
Mode == IF Found(file, "FTP_MODE") THEN regex_get_value(file, "FTP_MODE").is ELSE "none"
NetKeys == IF Mode = "SFTP" THEN {"FTP_MODE", "SFTP_HOST"} ELSE {"FTP_MODE", "FTP_HOST"}
NetPort == IF Mode = "SFTP" THEN {"SFTP_PORT"} ELSE {"FTP_PORT"}

InitNetwork ==
    /\ At("net")
    /\ \/ /\ Mode \in {"SFTP", "FTP"} /\ Readable(NetKeys, NetPort)
          /\ Goes("judges") /\ Reads(NetKeys, NetPort)
          /\ UNCHANGED <<handler, parts, threads, pc>>
       \/ /\ Mode # "FTP" \/ ~Readable(NetKeys, NetPort)
          /\ Exits(main)

\* init_judges: the directories of init_workdir, the script of each language, and
\* for each judge its directory and its thread.  Judge::init_work_dir looks into
\* the entry of user judge before it tests it; a number of judges no memory is
\* enough for is not noticed either.
JudgesReadable ==
    /\ Readable({"C_RELEASE_COMPILER"}, {"JUDGES_NUM"})
    /\ ParsesAsPath(regex_get_value(file, "C_RELEASE_COMPILER"))

InitJudges ==
    /\ At("judges")
    /\ \/ /\ JudgesReadable /\ get_ulong(file, "JUDGES_NUM") <= Len(Workers)
          /\ Goes("loop") /\ Reads({"C_RELEASE_COMPILER"}, {"JUDGES_NUM"})
          /\ threads' = threads \cup {Workers[n] : n \in 1..get_ulong(file, "JUDGES_NUM")}
          /\ UNCHANGED <<handler, parts, pc>>
       \/ Exits(main)
       \/ JudgesReadable /\ get_ulong(file, "JUDGES_NUM") > 0 /\ Crashes

-----------------------------------------------------------------------------
(* What the threads do then *)

Free(t) == Running(t) /\ stage = "loop" /\ pc[t] = "busy"
Now(t, what) == pc' = [pc EXCEPT ![t] = what]

\* Log::d and Log::e: the lock, the lines and the flush, the unlock.
LockLog(t, s) ==
    /\ Free(t) /\ lock[s] = NoOne
    /\ lock' = [lock EXCEPT ![s] = t] /\ Now(t, "log")
    /\ UNCHANGED <<start, parts, threads, child, ending, process, misuse>>

WriteLog(t) ==
    /\ Running(t) /\ pc[t] = "log"
    /\ UsesIf(log = "open") /\ Now(t, "unlock")
    /\ UNCHANGED <<start, parts, lock, threads, child, ending>>

\* Mutant: the lock is kept.
KeepLog(t) ==
    /\ Running(t) /\ pc[t] = "unlock" /\ Now(t, "busy")
    /\ UNCHANGED <<start, parts, lock, threads, child, ending, process, misuse>>

UnlockLog(t) ==
    /\ Running(t) /\ pc[t] = "unlock" /\ Now(t, "busy")
    /\ lock' = [s \in Streams |-> IF lock[s] = t THEN NoOne ELSE lock[s]]
    /\ UNCHANGED <<start, parts, threads, child, ending, process, misuse>>

\* A connection is taken, used or given back.
UseDB(t) ==
    /\ Free(t)
    /\ UsesIf(db = "up")
    /\ UNCHANGED <<start, parts, lock, threads, pc, child, ending>>

\* A failed query in main, a working directory that cannot be made in a worker.
CallExit(t) == Free(t) /\ Exits(t)

-----------------------------------------------------------------------------
(* Children: launch() and compile() *)

\* The child has the locks as other threads hold them at this moment, and no
\* thread that would release them.
ForkChild(t) ==
    /\ Free(t) /\ t # main
    /\ child' = [child EXCEPT ![t] = [phase |-> "new", g_is_child |-> FALSE,
                                      locked |-> {s \in Streams : lock[s] # NoOne}]]
    /\ Now(t, "wait")
    /\ UNCHANGED <<start, parts, lock, threads, ending, process, misuse>>

ChildStep(t, from, to) ==
    /\ child[t].phase = from
    /\ child' = [child EXCEPT ![t] = to]
    /\ UNCHANGED <<start, parts, lock, threads, pc, ending, process, misuse>>

\* Mutant: the child does not say that it is one.
MarkNothing(t) == ChildStep(t, "new", [child[t] EXCEPT !.phase = "set up"])

MarkChild(t) ==
    ChildStep(t, "new", [child[t] EXCEPT !.phase = "set up", !.g_is_child = TRUE])

ChildExecs(t) == ChildStep(t, "set up", [child[t] EXCEPT !.phase = "program"])
ProgramEnds(t) == ChildStep(t, "program", NoChild)

\* execl fails, and exit(1) runs terminate_NOJ on the child's copies.
ExecFails(t) == ChildStep(t, "set up", [child[t] EXCEPT !.phase = "exit"])
ChildExits(t) ==
    /\ child[t].g_is_child \/ "out" \notin child[t].locked
    /\ ChildStep(t, "exit", NoChild)

ChildIsGone(t) ==
    /\ Running(t) /\ pc[t] = "wait" /\ child[t] = NoChild
    /\ Now(t, "busy")
    /\ UNCHANGED <<start, parts, lock, threads, child, ending, process, misuse>>

-----------------------------------------------------------------------------
(* terminate_NOJ, in the thread that called exit() *)

Terminates(t, from, to) ==
    /\ Running(t) /\ pc[t] = from /\ Now(t, to)
    /\ UNCHANGED <<start, threads, child, ending, misuse>>

DeleteConfig(t) ==
    /\ Terminates(t, "delete config", "delete db")
    /\ m_buffer' = "freed" /\ UNCHANGED <<log, db, lock, process>>

DeleteDB(t) ==
    /\ Terminates(t, "delete db", "say so")
    /\ db' = "deleted" /\ UNCHANGED <<m_buffer, log, lock, process>>

\* Log::d needs the lock for its line.
SaySo(t) ==
    /\ lock["out"] = NoOne
    /\ Terminates(t, "say so", "destroy log")
    /\ UNCHANGED <<parts, lock, process>>

DestroyLog(t) ==
    /\ Terminates(t, "destroy log", "end")
    /\ log' = "closed" /\ UNCHANGED <<m_buffer, db, lock, process>>

End(t) ==
    /\ Terminates(t, "end", "end")
    /\ process' = "ended" /\ UNCHANGED <<parts, lock>>

-----------------------------------------------------------------------------
Start ==
    \/ CheckRoot \/ InitLog \/ ChangeDir \/ LoadFile \/ InitDB \/ InitNetwork
    \/ InitJudges

Logging(t) == (\E s \in Streams : LockLog(t, s)) \/ WriteLog(t) \/ UnlockLog(t)

Terminate(t) == DeleteConfig(t) \/ DeleteDB(t) \/ SaySo(t) \/ DestroyLog(t) \/ End(t)

Child(t) ==
    MarkChild(t) \/ ChildExecs(t) \/ ExecFails(t) \/ ChildExits(t) \/ ProgramEnds(t)

Next ==
    \/ Start
    \/ \E t \in Threads :
          \/ Logging(t) \/ UseDB(t) \/ CallExit(t) \/ Terminate(t)
          \/ ForkChild(t) \/ Child(t) \/ ChildIsGone(t)

Spec == Init /\ [][Next]_vars

\* A thread finishes the line it logs, and the exit() it has called, getting its
\* turn at the lock; a child that was forked goes on.
FairSpec ==
    /\ Spec
    /\ \A t \in Threads :
          /\ WF_vars(WriteLog(t) \/ UnlockLog(t))
          /\ SF_vars(Terminate(t))
          /\ WF_vars(MarkChild(t) \/ ChildExecs(t) \/ ExecFails(t) \/ ChildExits(t))

-----------------------------------------------------------------------------
(* Properties *)

\* The numbers NOJ runs with, its ports and how many judges it starts, are words
\* the file gives these very keys, whichever line is left without its value.
\* regex_get_value takes the next line for a missing value, DB_PASS or FTP_HOST
\* being given "DB_PORT=3306"; what ends the program for a number is that no
\* such line starts as one.
Numbers == {"DB_PORT", "SFTP_PORT", "FTP_PORT", "JUDGES_NUM"}

NumbersAreOwn ==
    \A k \in DOMAIN setting \cap Numbers : \E n \in 1..Len(file) :
        file[n].key = k /\ ~file[n].comment /\ file[n].words = <<setting[k]>>

\* Log and database are used neither before they are set up nor after they are
\* deleted, until some thread calls exit(): from then on the others go on with
\* what terminate_NOJ deletes.
SoundUntilExit == misuse => ending # NoOne

\* A child that cannot exec ends, though other threads may have held the log's
\* locks when it was forked: in the child nobody will release them.
ChildEnds == \A t \in Threads : child[t].phase = "new" ~> child[t].phase \notin {"new", "set up", "exit"}

\* Once a thread calls exit() the process ends, whatever the others hold.
ExitEnds == ending # NoOne ~> process # "running"
=============================================================================
