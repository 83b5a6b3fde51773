---------------------------- MODULE ProcessProofs ----------------------------
(***************************************************************************)
(* Theorems about what a NOJ process does besides judging: its start-up    *)
(* and end (Lifecycle, Config), with whatever file and number of workers;  *)
(* its being the only one (Daemon), for any number of starts, however they *)
(* overlap and whoever is killed in between; its fetching of test cases    *)
(* (FileTransfer), however often the author replaces them.                 *)
(***************************************************************************)
EXTENDS Lifecycle, Daemon, FileTransfer, WellFoundedInduction, TLAPS

-----------------------------------------------------------------------------
(* The start-up and the end: who is where *)

\* The stages of main, and what a thread is at, before exit() and in it.
Stages == {"root", "log", "chdir", "load", "db", "net", "judges", "loop"}
AtWork == {"busy", "log", "unlock", "wait"}
InExit == {"delete config", "delete db", "say so", "destroy log", "end"}

\* Who is where: only main before the loop, and nobody in terminate_NOJ before
\* some thread is in exit().
Order ==
    /\ stage \in Stages /\ pc \in [Threads -> AtWork \cup InExit]
    /\ \A t \in Threads : pc[t] \in {"log", "unlock", "wait"} => stage = "loop"
    /\ ending = NoOne => \A t \in Threads : pc[t] \in AtWork
    /\ stage # "loop" /\ pc[main] = "busy" => ending = NoOne

\* What is set up, as far as main has come and nobody calls exit().
SetUp ==
    ending = NoOne =>
        /\ stage \notin {"root", "log"} => log = "open"
        /\ stage \in {"net", "judges", "loop"} => db = "up"
        /\ m_buffer # "freed"

Sound == misuse \in BOOLEAN /\ (ending = NoOne => misuse = FALSE)

LifeInv == Order /\ SetUp /\ Sound

\* A setting that was read was found, in a file that is there, and as a number
\* if it had to be one.
Own ==
    /\ file \in ConfigFiles /\ m_buffer \in {"NULL", "loaded", "freed"}
    /\ m_buffer = "loaded" => file # Missing
    /\ stage \in {"net", "judges", "loop"} => file # Missing
    /\ \A k \in DOMAIN setting :
          /\ file # Missing /\ Found(file, k) /\ setting[k] = regex_get_value(file, k)
          /\ k \in Numbers => FoundNumber(file, k)

\* Nobody but main, and nobody in exit().
LEMMA LifeInit == Init => LifeInv
  BY DEF Init, LifeInv, Order, SetUp, Sound, Stages, AtWork, InExit, Threads

\* What exit() does to the invariant.
LEMMA ExitsKeeps ==
  ASSUME LifeInv, NEW t \in Threads, pc[t] = "busy", t = main \/ stage = "loop", Exits(t)
  PROVE  LifeInv'
<1>1. t # NoOne
  BY LifecycleAssumption DEF Threads
<1>2. \/ ending = NoOne /\ ending' = t /\ pc' = [pc EXCEPT ![t] = "delete config"]
      \/ UNCHANGED <<ending, pc>>
  BY DEF Exits
<1>3. UNCHANGED <<stage, m_buffer, log, db, misuse>>
  BY DEF Exits, start, parts
<1>4. Threads' = Threads
  BY DEF Threads
<1>5. Order'
  BY <1>1, <1>2, <1>3, <1>4 DEF LifeInv, Order, AtWork, InExit
<1>6. SetUp' /\ Sound'
  BY <1>1, <1>2, <1>3 DEF LifeInv, SetUp, Sound
<1> QED BY <1>5, <1>6 DEF LifeInv

\* A crash touches nothing of it.
LEMMA CrashKeeps == LifeInv /\ Crashes => LifeInv'
  BY DEF Crashes, start, parts, LifeInv, Order, SetUp, Sound, Threads

\* The stages of main: each sets up what the next ones count on.
LEMMA StartKeeps == ASSUME LifeInv, Start PROVE LifeInv'
<1> USE DEF Threads
<1>0. main \in Threads
  OBVIOUS
<1>1. ASSUME NEW s \in Stages \ {"loop"}, NEW r \in Stages, At(s), Goes(r),
             pc' = pc, r # "loop", r \notin {"root", "log"} => log' = "open",
             r \in {"net", "judges"} => db' = "up",
             m_buffer' # "freed"
      PROVE  LifeInv'
  <2>1. stage = s /\ pc[main] = "busy" /\ stage' = r /\ pc' = pc
        /\ UNCHANGED <<ending, misuse>>
    BY <1>1 DEF At, Goes
  <2>2. ending = NoOne
    BY <1>0, <2>1, <1>1 DEF LifeInv, Order
  <2>3. Order'
    BY <1>0, <1>1, <2>1, <2>2 DEF LifeInv, Order, Stages, AtWork, InExit
  <2>4. SetUp' /\ Sound'
    BY <1>1, <2>1, <2>2 DEF LifeInv, SetUp, Sound
  <2> QED BY <2>3, <2>4 DEF LifeInv
<1>2. CASE CheckRoot
  BY <1>0, <1>1, <1>2, ExitsKeeps DEF CheckRoot, At, parts, LifeInv, Order, SetUp, Stages
<1>3. CASE InitLog
  BY <1>0, <1>1, <1>3, ExitsKeeps DEF InitLog, At, LifeInv, Order, SetUp, Stages
<1>4. CASE ChangeDir
  BY <1>0, <1>1, <1>4, ExitsKeeps DEF ChangeDir, At, parts, LifeInv, Order, SetUp, Stages
<1>5. CASE LoadFile
  BY <1>0, <1>1, <1>5, ExitsKeeps DEF LoadFile, At, LifeInv, Order, SetUp, Stages
<1>6. CASE InitDB
  BY <1>0, <1>1, <1>6, ExitsKeeps, CrashKeeps DEF InitDB, At, LifeInv, Order, SetUp,
     Stages
<1>7. CASE InitNetwork
  BY <1>0, <1>1, <1>7, ExitsKeeps DEF InitNetwork, At, parts, LifeInv, Order, SetUp,
     Stages
<1>8. CASE InitJudges
  <2>1. CASE Exits(main) \/ Crashes
    BY <1>0, <1>8, <2>1, ExitsKeeps, CrashKeeps DEF InitJudges, At
  <2>2. CASE Goes("loop") /\ UNCHANGED <<handler, parts, pc>>
    BY <1>0, <1>8, <2>2 DEF InitJudges, At, Goes, parts, LifeInv, Order, SetUp,
       Sound, Stages, AtWork, InExit
  <2> QED BY <1>8, <2>1, <2>2 DEF InitJudges
<1> QED BY <1>2, <1>3, <1>4, <1>5, <1>6, <1>7, <1>8 DEF Start

\* The threads' work: nothing misused while nobody is in exit().
LEMMA WorkKeeps ==
  ASSUME LifeInv, NEW t \in Threads,
         \/ Logging(t) \/ UseDB(t) \/ CallExit(t)
         \/ ForkChild(t) \/ Child(t) \/ ChildIsGone(t)
  PROVE  LifeInv'
<1> USE DEF LifeInv, Order, SetUp, Sound, AtWork, InExit, Stages
<1>1. CASE \E s \in Streams : LockLog(t, s)
  BY <1>1 DEF LockLog, Free, Now, start, parts, Threads
<1>2. CASE WriteLog(t)
  <2>1. ending = NoOne => log = "open"
    BY <1>2 DEF WriteLog
  <2>2. ending = NoOne => misuse' = misuse
    BY <1>2, <2>1 DEF WriteLog, UsesIf
  <2>3. /\ pc[t] = "log" /\ pc' = [pc EXCEPT ![t] = "unlock"] /\ misuse' \in BOOLEAN
        /\ UNCHANGED <<stage, ending, m_buffer, log, db>> /\ Threads' = Threads
    BY <1>2 DEF WriteLog, UsesIf, Misuses, Now, start, parts, Threads
  <2>4. Order'
    BY <2>3
  <2> QED BY <2>2, <2>3, <2>4
<1>3. CASE UnlockLog(t)
  BY <1>3 DEF UnlockLog, Now, start, parts, Threads
<1>4. CASE UseDB(t)
  <2>1. ending = NoOne => misuse' = misuse
    BY <1>4 DEF UseDB, UsesIf, Free
  <2>2. misuse' \in BOOLEAN /\ UNCHANGED <<stage, pc, ending, m_buffer, log, db>>
        /\ Threads' = Threads
    BY <1>4 DEF UseDB, UsesIf, Misuses, start, parts, Threads
  <2> QED BY <2>1, <2>2
<1>5. CASE CallExit(t)
  BY <1>5, ExitsKeeps DEF CallExit, Free
<1>6. CASE ForkChild(t)
  BY <1>6 DEF ForkChild, Free, Now, start, parts, Threads
<1>7. CASE Child(t)
  BY <1>7 DEF Child, MarkChild, ChildExecs, ExecFails, ChildExits, ProgramEnds,
     ChildStep, start, parts, Threads
<1>8. CASE ChildIsGone(t)
  BY <1>8 DEF ChildIsGone, Now, start, parts, Threads
<1> QED BY <1>1, <1>2, <1>3, <1>4, <1>5, <1>6, <1>7, <1>8 DEF Logging

\* What terminate_NOJ deletes, it deletes for a thread that is in exit().
LEMMA TerminateKeeps ==
  ASSUME LifeInv, NEW t \in Threads, Terminate(t)
  PROVE  LifeInv'
<1>1. /\ pc[t] \in InExit /\ \E to \in InExit : pc' = [pc EXCEPT ![t] = to]
      /\ UNCHANGED <<stage, ending, misuse>>
  BY DEF Terminate, DeleteConfig, DeleteDB, SaySo, DestroyLog, End, Terminates, Now,
     start, InExit
<1>2. ending # NoOne
  BY <1>1 DEF LifeInv, Order, AtWork, InExit
<1> QED BY <1>1, <1>2 DEF LifeInv, Order, SetUp, Sound, AtWork, InExit, Threads

\* Every step of the process, together.
LEMMA LifeStep == LifeInv /\ [Next]_vars => LifeInv'
<1> SUFFICES ASSUME LifeInv, [Next]_vars PROVE LifeInv'
  OBVIOUS
<1>1. CASE UNCHANGED vars
  BY <1>1 DEF vars, start, parts, LifeInv, Order, SetUp, Sound, Threads
<1> QED BY <1>1, StartKeeps, WorkKeeps, TerminateKeeps DEF Next

\* Up to the first call of exit(), in whatever thread, log and database are used
\* only once main has set them up and while they are there: what terminate_NOJ
\* deletes under the other threads is the only misuse there is.
THEOREM NothingMisusedBeforeExit == Spec => []SoundUntilExit
<1>1. LifeInv => SoundUntilExit
  BY DEF LifeInv, Sound, SoundUntilExit
<1> QED BY <1>1, LifeInit, LifeStep, PTL DEF Spec

-----------------------------------------------------------------------------
(* The settings *)

\* A set of numbers that is not empty has a least one.
LEMMA LeastLine ==
  ASSUME NEW S, S \subseteq Nat, S # {}
  PROVE  Min(S) \in S
<1> DEFINE less == {p \in Nat \X Nat : p[1] < p[2]}
<1>1. IsWellFoundedOn(less, Nat)
  BY NatLessThanWellFounded, Zenon DEF OpToRel
<1>2. PICK n \in S : \A m \in S : <<m, n>> \notin less
  BY <1>1, WFMin
<1>3. \A m \in S : ~ (m < n)
  BY <1>2
<1>4. \A m \in S : n <= m
  BY <1>3
<1> QED BY <1>4 DEF Min

\* What a key is read as, if that is a number, is the word of a line for it.
LEMMA ReadFromItsLine ==
  ASSUME NEW f \in ConfigFiles \ {Missing}, NEW k, FoundNumber(f, k)
  PROVE  \E n \in 1..Len(f) :
            f[n].key = k /\ ~f[n].comment /\ f[n].words = <<regex_get_value(f, k)>>
<1> DEFINE n == Min(MatchingLines(f, k))
<1>0. Found(f, k)
  BY DEF FoundNumber
<1>1. n \in MatchingLines(f, k)
  BY <1>0, LeastLine DEF Found, MatchingLines
<1>2. n \in 1..Len(f) /\ Matches(f, k, n)
  BY <1>1 DEF MatchingLines
<1>3. f[n].words \in Seq(Range(f[n].words))
  BY <1>2, LifecycleAssumption
\* The line that follows would not be a number.
<1>4. f[n].words # <<>>
  BY DEF FoundNumber, regex_get_value
<1>5. regex_get_value(f, k) = f[n].words[1]
  BY <1>4 DEF regex_get_value
<1>6. Len(f[n].words) = 1
  BY <1>2, <1>4 DEF Matches
<1> HIDE DEF n
<1>7. f[n].words = <<f[n].words[1]>>
  BY <1>3, <1>6
<1> QED BY <1>2, <1>5, <1>7 DEF Matches

\* Nothing is read yet.
LEMMA OwnInit == Init => Own
  BY DEF Init, Own

\* Only the stages of main read settings, from a file that does not change.
LEMMA OwnStep == LifeInv /\ Own /\ [Next]_vars => Own'
<1> SUFFICES ASSUME LifeInv, Own, [Next]_vars PROVE Own'
  OBVIOUS
<1>0. main \in Threads
  BY DEF Threads
<1>1. ASSUME NEW texts, NEW numbers, Readable(texts, numbers), Reads(texts, numbers),
             texts \cap Numbers = {}, file' = file, m_buffer' = m_buffer, file # Missing
      PROVE  Own'
  <2>1. \A k \in texts \cup numbers : Found(file, k)
    BY <1>1 DEF Readable, FoundNumber
  <2>2. \A k \in DOMAIN setting' :
           /\ Found(file, k) /\ setting'[k] = regex_get_value(file, k)
           /\ k \in Numbers => FoundNumber(file, k)
    BY <1>1, <2>1 DEF Readable, Reads, Own
  <2> QED BY <1>1, <2>2 DEF Own
<1>2. CASE UNCHANGED start /\ m_buffer' \in {m_buffer, "freed"}
  BY <1>2 DEF start, Own
<1>3. CASE Start
  <2>1. CASE Exits(main) \/ Crashes
    BY <1>2, <2>1 DEF Exits, Crashes, parts
  <2>2. CASE CheckRoot \/ InitLog \/ ChangeDir
    BY <2>1, <2>2 DEF CheckRoot, InitLog, ChangeDir, Goes, parts, Own
  <2>3. CASE LoadFile
    BY <2>3 DEF LoadFile, Goes, Own
  <2>4. CASE InitDB
    <3>1. m_buffer = "NULL" \/ file # Missing
      BY <1>0, <2>4 DEF InitDB, At, LifeInv, Order, SetUp, Own
    <3> QED BY <1>1, <2>1, <2>4, <3>1 DEF InitDB, Goes, Numbers
  <2>5. CASE InitNetwork
    BY <1>1, <2>1, <2>5 DEF InitNetwork, NetKeys, Numbers, At, Goes, parts, Own
  <2>6. CASE InitJudges
    BY <1>1, <2>1, <2>6 DEF InitJudges, JudgesReadable, Numbers, At, Goes, parts, Own
  <2> QED BY <1>3, <2>2, <2>3, <2>4, <2>5, <2>6 DEF Start
<1>4. CASE UNCHANGED vars
  BY <1>2, <1>4 DEF vars, parts
<1>5. ASSUME NEW t \in Threads,
             \/ Logging(t) \/ UseDB(t) \/ CallExit(t)
             \/ ForkChild(t) \/ Child(t) \/ ChildIsGone(t)
      PROVE  Own'
  BY <1>2, <1>5 DEF Logging, LockLog, WriteLog, UnlockLog, UseDB, CallExit, Exits,
     ForkChild, Child, MarkChild, ChildExecs, ExecFails, ChildExits, ProgramEnds,
     ChildStep, ChildIsGone, parts
<1>6. ASSUME NEW t \in Threads, Terminate(t)
      PROVE  Own'
  BY <1>2, <1>6 DEF Terminate, DeleteConfig, DeleteDB, SaySo, DestroyLog, End, Terminates,
     parts
<1> QED BY <1>3, <1>4, <1>5, <1>6 DEF Next

\* However a NOJ process starts and ends, and whatever its file holds, each number
\* it has read is the word of a line for that key and no other's.
THEOREM NumbersComeFromTheirLines == Spec => []NumbersAreOwn
<1>1. Own => NumbersAreOwn
  BY ReadFromItsLine DEF Own, NumbersAreOwn
<1> QED BY <1>1, LifeInit, LifeStep, OwnInit, OwnStep, PTL DEF Spec

-----------------------------------------------------------------------------
(* The daemon *)

\* A process is on its way to being the daemon, or is the daemon.
Becoming(p) == where[p] \in {"truncate", "write"}
IsDaemon(p) == where[p] = "running" /\ returned[p] = "0"

\* The write lock has an owner exactly while somebody is the daemon or becomes
\* it.  The first half is what tells that the number in LOCKFILE stays right
\* (nobody else truncates it), the second what makes the check of the lock mean
\* something.
LockInv ==
    /\ \A p \in Processes : Becoming(p) \/ IsDaemon(p) => owner = p
    /\ \A p \in Processes : owner = p => Becoming(p) \/ IsDaemon(p)

\* Nothing is returned before daemon_run is done.
ReturnInv ==
    \A p \in Processes : returned[p] # "none" => where[p] \in {"running", "gone"}

DaemonInv == TypeOK /\ LockInv /\ ReturnInv /\ OneDaemonNamed

\* Nobody is anywhere yet.
LEMMA DaemonStarts == DaemonInit => DaemonInv
  BY DaemonAssumption DEF DaemonInit, DaemonInv, TypeOK, LockInv, ReturnInv,
     Becoming, IsDaemon, OneDaemonNamed

\* Every step of a process, its death included, keeps the invariant.
LEMMA DaemonStep == DaemonInv /\ [DaemonNext]_daemon => DaemonInv'
<1> SUFFICES ASSUME DaemonInv, [DaemonNext]_daemon PROVE DaemonInv'
  OBVIOUS
<1> USE DaemonAssumption DEF DaemonInv, TypeOK, LockInv, ReturnInv, Becoming,
    IsDaemon, OneDaemonNamed, Goto
<1>1. ASSUME NEW p \in Processes, Open(p) PROVE DaemonInv'
  BY <1>1 DEF Open
<1>2. ASSUME NEW p \in Processes, OpenFails(p) PROVE DaemonInv'
  BY <1>2 DEF OpenFails
<1>3. ASSUME NEW p \in Processes, CheckDaemonRunning(p) PROVE DaemonInv'
  BY <1>3 DEF CheckDaemonRunning, CheckThat
<1>4. ASSUME NEW p \in Processes, Daemonise(p) PROVE DaemonInv'
  BY <1>4 DEF Daemonise
<1>5. ASSUME NEW p \in Processes, LockFile(p) PROVE DaemonInv'
  BY <1>5 DEF LockFile
<1>6. ASSUME NEW p \in Processes, LockRefused(p) PROVE DaemonInv'
  BY <1>6 DEF LockRefused, Return
<1>7. ASSUME NEW p \in Processes, LockFails(p) PROVE DaemonInv'
  BY <1>7 DEF LockFails
<1>8. ASSUME NEW p \in Processes, Truncate(p) PROVE DaemonInv'
  BY <1>8 DEF Truncate
<1>9. ASSUME NEW p \in Processes, WritePid(p) PROVE DaemonInv'
  BY <1>9 DEF WritePid, Return
<1>10. ASSUME NEW p \in Processes, Die(p) PROVE DaemonInv'
  BY <1>10 DEF Die
<1>11. CASE UNCHANGED daemon
  BY <1>11 DEF daemon
<1> QED BY <1>1, <1>2, <1>3, <1>4, <1>5, <1>6, <1>7, <1>8, <1>9, <1>10, <1>11
        DEF DaemonNext, DaemonRun

\* Hence it always holds.
LEMMA DaemonAlways == DaemonSpec => []DaemonInv
  BY DaemonStarts, DaemonStep, PTL DEF DaemonSpec

\* The shape of the processes and of the file: above all, LOCKFILE is there from
\* the first process that got past open() on.
THEOREM DaemonTypeCorrect == DaemonSpec => []TypeOK
<1>1. DaemonInv => TypeOK
  BY DEF DaemonInv
<1> QED BY <1>1, DaemonAlways, PTL

\* daemon_run (daemon.cpp) tells one living process at most that it is the
\* daemon, and LOCKFILE has its number: the check before the fork and the lock
\* after it leave no gap, however many starts of NOJ overlap.
THEOREM OneDaemon == DaemonSpec => []OneDaemonNamed
<1>1. DaemonInv => OneDaemonNamed
  BY DEF DaemonInv
<1> QED BY <1>1, DaemonAlways, PTL

\* Two living processes that daemon_run returned 0 to are one process.
THEOREM AtMostOneDaemon ==
  DaemonSpec => [](\A p, q \in Processes : IsDaemon(p) /\ IsDaemon(q) => p = q)
<1>1. DaemonInv => \A p, q \in Processes : IsDaemon(p) /\ IsDaemon(q) => p = q
  BY DEF DaemonInv, LockInv
<1> QED BY <1>1, DaemonAlways, PTL

\* check_daemon_running sends a start of NOJ away only while another living
\* process is the daemon or becomes it: what a dead daemon left in LOCKFILE
\* keeps nobody out.
THEOREM TheDeadBarNobody == DaemonSpec => OnlyTheLivingBar
<1> DEFINE Barred ==
      \A p \in Processes :
          where[p] = "check" /\ where'[p] = "turned away" =>
              \E q \in Processes \ {p} :
                  \/ where[q] \in {"truncate", "write"}
                  \/ where[q] = "running" /\ returned[q] = "0"
<1>1. DaemonInv /\ [DaemonNext]_daemon => Barred
  <2> SUFFICES ASSUME DaemonInv, [DaemonNext]_daemon, NEW p \in Processes,
                      where[p] = "check", where'[p] = "turned away"
               PROVE  \E q \in Processes \ {p} : Becoming(q) \/ IsDaemon(q)
    BY DEF Becoming, IsDaemon
  <2>1. owner # Nobody
    BY DEF DaemonInv, TypeOK, DaemonNext, daemon, DaemonRun, Open, OpenFails,
       CheckDaemonRunning, CheckThat, Daemonise, LockFile, LockRefused, LockFails,
       Truncate, WritePid, Die, Goto
  <2>2. PICK q \in Processes : owner = q
    BY <2>1 DEF DaemonInv, TypeOK
  <2>3. Becoming(q) \/ IsDaemon(q)
    BY <2>2 DEF DaemonInv, LockInv
  <2>4. q # p
    BY <2>3 DEF Becoming, IsDaemon
  <2> QED BY <2>3, <2>4
<1> QED BY <1>1, DaemonAlways, PTL DEF DaemonSpec, OnlyTheLivingBar

-----------------------------------------------------------------------------
(* The file transfer *)

\* Where fetch_file can be, and what system() can return.
States == {"idle", "command", "check", "ended", "answered", "done"}
Statuses == {-1, 9} \cup {ExitStatus(n) : n \in {0, 1, 2, 50, 126, 127, 137}}
Verdicts == {"Unset", "Normal", "FileNotDownload", "PermissionError"}

\* The shape of the state.
Types ==
    /\ named \in [Files -> BOOLEAN] /\ id_readable \in BOOLEAN
    /\ version \in [Files -> Nat] /\ began \in [Files -> Nat]
    /\ \A f \in Files : began[f] <= version[f]
    /\ local \in [Files -> [version : Nat, whole : BOOLEAN]]
    /\ at \in States /\ which \in Files
    /\ ret \in Statuses
    /\ stat \in [Files -> Verdicts]
    /\ before \in [Files -> BOOLEAN]
    /\ brought \in [Files -> {"none", "part", "whole"}]
    /\ hitch \in BOOLEAN

\* A file that is there was there before or has come; if the script's own status
\* is 0, there is one, and if it is 50, the path is not one word.
Traced ==
    /\ at = "command" => brought[which] = "none"
    /\ at # "idle" /\ There(which) =>
          brought[which] # "none" \/ before[which] = TRUE
    /\ at \in {"ended", "answered"} /\ ret = ExitStatus(0) => There(which)
    /\ at \in {"ended", "answered"} /\ ret = ExitStatus(50) => named[which] = FALSE
    /\ at = "answered" => stat[which] = VerdictOf(ret)

\* While nothing fails and nothing is replaced, what was fetched is whole and
\* of the version that is on the server.
Fresh(f) == local[f] = [version |-> version[f], whole |-> TRUE]
Matching ==
    /\ m_mode = "SFTP" /\ id_readable = TRUE /\ hitch = FALSE /\ version = began
    /\ named["in"] = TRUE /\ named["out"] = TRUE
    =>
        /\ at # "idle" /\ which = "out" => Fresh("in")
        /\ at \in {"check", "ended", "answered", "done"} => Fresh(which)
        /\ at = "done" => which = "out"

TransferInv == Types /\ Traced /\ Matching

\* Over SFTP the script finds each argument where it looks for it.
LEMMA SftpUsage ==
  ASSUME m_mode = "SFTP"
  PROVE  /\ Given("m_id_file") = "m_id_file" /\ Given("m_host") = "m_host"
         /\ Given("ftp_loc") = "ftp_loc" /\ Given("local_dir") = "local_dir"
<1> DEFINE found(name) == CHOOSE n \in 1..Len(Usage) : Usage[n] = name
<1>1. /\ Arguments = Usage /\ Len(Usage) = 6
      /\ Usage[1] = "ftp_loc" /\ Usage[2] = "local_dir"
      /\ Usage[4] = "m_host" /\ Usage[6] = "m_id_file"
  BY DEF Arguments, Usage
<1>2. ASSUME NEW name, \E n \in 1..Len(Usage) : Usage[n] = name
      PROVE  Given(name) = name
  BY <1>1, <1>2 DEF Given
<1>3. 1 \in 1..6 /\ 2 \in 1..6 /\ 4 \in 1..6 /\ 6 \in 1..6
  OBVIOUS
<1> QED BY <1>1, <1>2, <1>3

\* So it connects, fetches what was meant and looks at the identity file.
LEMMA SftpConnects ==
  ASSUME m_mode = "SFTP"
  PROVE  Connects /\ Meant /\ (CanRead("m_id_file") <=> id_readable)
<1>1. Given("m_id_file") = "m_id_file"
  BY SftpUsage
<1> QED BY <1>1, SftpUsage DEF Connects, Meant, CanRead

\* The status a script exits with, and what fetch_file says of it over SFTP.
LEMMA StatusOf ==
  /\ \A s \in Statuses : WEXITSTATUS(s) \in {0, 1, 2, 50} /\ s % 256 = 0
        => s \in {ExitStatus(0), ExitStatus(1), ExitStatus(2), ExitStatus(50)}
  /\ WEXITSTATUS(ExitStatus(1)) = 1 /\ WEXITSTATUS(ExitStatus(2)) = 2
  BY SMT DEF Statuses, WEXITSTATUS, ExitStatus

-----------------------------------------------------------------------------
\* No verdict yet, and nothing there.
LEMMA TransferInit == FetchInit => TransferInv
<1> SUFFICES ASSUME FetchInit PROVE TransferInv
  OBVIOUS
<1>1. 0 \in Statuses
  BY SMT DEF Statuses, ExitStatus
<1>2. None \in [version : Nat, whole : BOOLEAN]
  BY DEF None
<1>3. Types
  <2>1. local \in [Files -> [version : Nat, whole : BOOLEAN]]
    BY <1>2 DEF FetchInit
  <2>2. /\ stat \in [Files -> Verdicts]
        /\ before \in [Files -> BOOLEAN]
        /\ brought \in [Files -> {"none", "part", "whole"}]
    BY DEF FetchInit, Verdicts
  <2>3. id_readable \in BOOLEAN /\ hitch \in BOOLEAN /\ named \in [Files -> BOOLEAN]
    BY DEF FetchInit
  <2>4. /\ version \in [Files -> Nat] /\ began \in [Files -> Nat]
        /\ \A f \in Files : began[f] <= version[f]
    BY DEF FetchInit
  <2>5. at \in States /\ which \in Files /\ ret \in Statuses
    BY <1>1 DEF FetchInit, States, Files
  <2> QED BY <2>1, <2>2, <2>3, <2>4, <2>5 DEF Types
<1>4. Traced /\ Matching
  BY DEF FetchInit, Traced, Matching
<1> QED BY <1>3, <1>4 DEF TransferInv

\* The steps of fetch_file, of the scripts and of their environment.
LEMMA TransferStep == TransferInv /\ [FetchNext]_fetch => TransferInv'
<1> SUFFICES ASSUME TransferInv, [FetchNext]_fetch PROVE TransferInv'
  OBVIOUS
<1>0. /\ \A n \in {0, 1, 2, 50, 126, 127, 137} : ExitStatus(n) \in Statuses
      /\ -1 \in Statuses /\ 9 \in Statuses /\ 0 \in Statuses
      /\ -1 \notin {ExitStatus(0), ExitStatus(50)}
      /\ 9 \notin {ExitStatus(0), ExitStatus(50)}
      /\ \A n \in {1, 2, 126, 127, 137} : ExitStatus(n) \notin {ExitStatus(0), ExitStatus(50)}
      /\ ExitStatus(50) # ExitStatus(0)
  BY SMT DEF Statuses, ExitStatus
<1>00. None \in [version : Nat, whole : BOOLEAN]
  BY DEF None
<1> USE DEF TransferInv, Types, Traced, Matching, There, Fresh, Files, States,
    Verdicts
<1>1. CASE UNCHANGED fetch
  BY <1>1 DEF fetch, VerdictOf
<1>2. CASE FetchInput
  <2>1. ret' = 0 /\ 0 \in Statuses
    BY <1>0, <1>2 DEF FetchInput, Begin
  <2>2. /\ at' = "command" /\ which' = "in" /\ began' = version /\ hitch' = FALSE
        /\ before' = [before EXCEPT !["in"] = There("in")]
        /\ brought' = [brought EXCEPT !["in"] = "none"]
        /\ stat' = [f \in Files |-> "Unset"]
        /\ UNCHANGED <<m_mode, named, id_readable, version, local>>
    BY <1>2 DEF FetchInput, Begin
  <2>3. before' \in [Files -> BOOLEAN]
    BY <2>2
  <2>4. Types'
    <3>1. /\ brought' \in [Files -> {"none", "part", "whole"}]
          /\ stat' \in [Files -> Verdicts]
      BY <2>2
    <3>2. version' = version /\ began' = version /\ \A f \in Files : version[f] <= version[f]
      BY <2>2
    <3>3. hitch' \in BOOLEAN
      BY <2>2
    <3> QED BY <2>1, <2>2, <2>3, <3>1, <3>2, <3>3
  <2>5. Traced'
    BY <2>2
  <2>6. Matching'
    BY <2>2
  <2> QED BY <2>4, <2>5, <2>6
<1>3. CASE CommandFails
  <2>1. ret' \in Statuses /\ ret' \notin {ExitStatus(0), ExitStatus(50)}
    BY <1>0, <1>3 DEF CommandFails, ScriptEnds
  <2> QED BY <1>3, <2>1 DEF CommandFails, ScriptEnds
<1>4. CASE IdUnreadable
  <2>1. m_mode = "SFTP" => id_readable = FALSE
    BY <1>4, SftpConnects DEF IdUnreadable
  <2>2. ret' \in Statuses /\ ret' \notin {ExitStatus(0), ExitStatus(50)}
    BY <1>0, <1>4 DEF IdUnreadable, ScriptEnds
  <2> QED BY <1>4, <2>1, <2>2 DEF IdUnreadable, ScriptEnds
<1>13. CASE WrongCount
  <2>1. /\ ret' \in Statuses /\ ret' # ExitStatus(0)
        /\ which \in {"in", "out"} /\ named[which] = FALSE
    BY <1>0, <1>13 DEF WrongCount, ScriptEnds
  <2> QED BY <1>13, <2>1 DEF WrongCount, ScriptEnds
<1>5. CASE Transfer \/ BreaksOff \/ NothingComes
  <2>1. PICK what \in {"none", "part", "whole"} :
            /\ Sftp(what) /\ hitch' \in BOOLEAN
            /\ m_mode = "SFTP" /\ hitch' = FALSE => what = "whole" /\ hitch = FALSE
    <3>1. CASE Transfer
      BY <3>1 DEF Transfer
    <3>2. CASE BreaksOff
      BY <3>2 DEF BreaksOff
    <3>3. CASE NothingComes
      BY <3>3, SftpConnects DEF NothingComes
    <3> QED BY <1>5, <3>1, <3>2, <3>3
  <2> DEFINE new == [version |-> version[which], whole |-> what = "whole"]
  <2>2. /\ at = "command" /\ at' = "check"
        /\ brought' = [brought EXCEPT ![which] = what]
        /\ IF what = "none" THEN local' = local
           ELSE local' = [local EXCEPT ![which] = new]
        /\ UNCHANGED <<m_mode, named, id_readable, version, began, which, ret, stat, before>>
    BY <2>1 DEF Sftp
  <2>3. new \in [version : Nat, whole : BOOLEAN]
        /\ (what = "whole" => new = [version |-> version[which], whole |-> TRUE])
    OBVIOUS
  <2> HIDE DEF new
  <2>4. Types'
    BY <2>1, <2>2, <2>3
  <2>5. Traced'
    <3>1. CASE what = "none"
      BY <2>2, <3>1
    <3>2. CASE what # "none"
      BY <2>2, <3>2
    <3> QED BY <3>1, <3>2
  <2>6. Matching'
    BY <2>1, <2>2, <2>3
  <2> QED BY <2>4, <2>5, <2>6
<1>6. CASE CheckFile
  <2>1. /\ ret' \in Statuses /\ (ret' = ExitStatus(0) => There(which))
        /\ ret' # ExitStatus(50)
    BY <1>0, <1>6 DEF CheckFile, ScriptEnds
  <2> QED BY <1>6, <2>1 DEF CheckFile, ScriptEnds
<1>7. CASE Interrupted
  <2>1. ret' \in Statuses /\ ret' \notin {ExitStatus(0), ExitStatus(50)}
    BY <1>0, <1>7 DEF Interrupted, ScriptEnds
  <2> QED BY <1>7, <2>1 DEF Interrupted, ScriptEnds
<1>8. CASE Answer
  <2>1. VerdictOf(ret) \in {"Normal", "FileNotDownload", "PermissionError"}
    BY DEF VerdictOf, Verdicts
  <2>2. VerdictOf(ret)' = VerdictOf(ret)
    BY <1>8 DEF Answer, AnswerWith, VerdictOf
  <2> QED BY <1>8, <2>1, <2>2 DEF Answer, AnswerWith
<1>9. CASE FetchOutput
  <2>1. ret' = 0 /\ 0 \in Statuses
    BY <1>0, <1>9 DEF FetchOutput, Begin
  <2> QED BY <1>9, <2>1 DEF FetchOutput, Begin
<1>10. CASE Cache
  BY <1>10 DEF Cache
<1>11. ASSUME NEW f \in Files, Replace(f)
       PROVE  TransferInv'
  <2>1. VerdictOf(ret)' = VerdictOf(ret)
    BY <1>11 DEF Replace, VerdictOf
  <2>2. /\ version' \in [Files -> Nat] /\ version'[f] = version[f] + 1
        /\ \A g \in Files : version[g] <= version'[g]
    BY <1>11 DEF Replace
  <2>3. \A g \in Files : began'[g] <= version'[g]
    BY <1>11, <2>2 DEF Replace
  <2>4. began[f] # version'[f]
    BY <1>11, <2>2
  <2>5. began' # version'
    BY <1>11, <2>4 DEF Replace
  <2>6. /\ UNCHANGED <<m_mode, named, id_readable, began, local, at, which, ret, stat,
                       before, brought, hitch>>
    BY <1>11 DEF Replace
  <2>7. Types'
    BY <2>2, <2>3, <2>6
  <2>8. Traced'
    BY <2>1, <2>6
  <2>9. Matching'
    BY <2>5
  <2> QED BY <2>7, <2>8, <2>9
<1>12. CASE Restart
  <2>1. ret' = 0 /\ 0 \in Statuses
    BY <1>0, <1>12 DEF Restart
  <2> QED BY <1>12, <2>1 DEF Restart
<1> QED BY <1>1, <1>2, <1>3, <1>4, <1>5, <1>6, <1>7, <1>8, <1>9, <1>10, <1>11, <1>12,
           <1>13
        DEF FetchNext

\* Hence the invariant always holds.
LEMMA TransferAlways == FetchSpec => []TransferInv
  BY TransferInit, TransferStep, PTL DEF FetchSpec

\* What Noj_Normal is good for over SFTP: the file has come or an older one is
\* there, unless its path is not one word, for which the script exits with 50, or
\* the command ended in a way that is not one of the script's own.
THEOREM NormalMeansThere == FetchSpec => []NormalMeansFetched
<1>1. TransferInv => NormalMeansFetched
  <2> SUFFICES ASSUME TransferInv, m_mode = "SFTP", at = "answered",
                      stat[which] = "Normal", named[which], OwnStatus
               PROVE  brought[which] # "none" \/ before[which]
    BY DEF NormalMeansFetched
  <2>1. ret \in {ExitStatus(0), ExitStatus(1), ExitStatus(2), ExitStatus(50)}
    BY StatusOf DEF TransferInv, Types, OwnStatus
  <2>2. VerdictOf(ret) = "Normal"
    BY DEF TransferInv, Traced
  <2>3. ret # ExitStatus(1) /\ ret # ExitStatus(2)
    BY <2>2, StatusOf DEF VerdictOf
  <2>4. ret = ExitStatus(50) => named[which] = FALSE
    BY DEF TransferInv, Traced
  <2>5. ret = ExitStatus(0)
    BY <2>1, <2>3, <2>4
  <2>6. brought[which] # "none" \/ before[which] = TRUE
    BY <2>5 DEF TransferInv, Traced
  <2> QED BY <2>6
<1> QED BY <1>1, TransferAlways, PTL

\* The test case a problem is cached with over SFTP: both files whole and of one
\* version, whatever earlier fetches left behind, unless something outside failed,
\* a path is not one word, or the author is about to replace them or did meanwhile.
THEOREM PairsMatch == FetchSpec => []PairMatches
<1>1. TransferInv => PairMatches
  <2> SUFFICES ASSUME TransferInv, m_mode = "SFTP", id_readable, at = "done", ~hitch,
                      named["in"], named["out"], version = began,
                      version["in"] = version["out"]
               PROVE  local["in"] = local["out"] /\ local["in"].whole
    BY DEF PairMatches
  <2>1. id_readable = TRUE /\ hitch = FALSE /\ named["in"] = TRUE /\ named["out"] = TRUE
    BY DEF TransferInv, Types, Files
  <2>2. which = "out" /\ Fresh("in") /\ Fresh("out")
    BY <2>1 DEF TransferInv, Matching
  <2> QED BY <2>2 DEF Fresh
<1> QED BY <1>1, TransferAlways, PTL
=============================================================================
