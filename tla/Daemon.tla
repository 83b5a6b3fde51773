------------------------------- MODULE Daemon -------------------------------
(***************************************************************************)
(* daemon_run of daemon.cpp, and what main makes of it: NOJ is started     *)
(* several times, by several processes, each of which may be killed at any *)
(* moment.  A record lock on LOCKFILE, which the kernel drops when its     *)
(* owner dies, says who is the daemon; the file itself outlives everybody. *)
(***************************************************************************)
CONSTANTS Processes,   \* the times NOJ is started
          Nobody,      \* the owner of no lock
          Absent,      \* there is no LOCKFILE
          Blank        \* LOCKFILE is empty

ASSUME DaemonAssumption ==
    /\ Nobody \notin Processes /\ Absent \notin Processes /\ Blank \notin Processes
    /\ Absent # Blank

VARIABLES where,     \* where each process is in daemon_run
          returned,  \* what daemon_run returned to main, "none" before
          owner,     \* external: the process that owns the write lock
          lockfile   \* what LOCKFILE says: the number of a process

daemon == <<where, returned, owner, lockfile>>

DaemonInit ==
    /\ where = [p \in Processes |-> "unborn"]
    /\ returned = [p \in Processes |-> "none"]
    /\ owner = Nobody
    /\ lockfile = Absent

Goto(p, from, to) == where[p] = from /\ where' = [where EXCEPT ![p] = to]

\* open with O_CREAT leaves what is there; daemon_run exits if open fails.
Open(p) ==
    /\ Goto(p, "unborn", "check")
    /\ lockfile' = IF lockfile = Absent THEN Blank ELSE lockfile
    /\ UNCHANGED <<returned, owner>>
OpenFails(p) == Goto(p, "unborn", "gone") /\ UNCHANGED <<returned, owner, lockfile>>

CheckThat(p, taken) ==
    /\ Goto(p, "check", IF taken THEN "turned away" ELSE "fork")
    /\ UNCHANGED <<returned, owner, lockfile>>

\* Mutant: a LOCKFILE with a number in it is taken for a running daemon.
CheckNumber(p) == CheckThat(p, lockfile # Blank)

\* check_daemon_running asks with F_GETLK and exits itself if there is a lock.
CheckDaemonRunning(p) == CheckThat(p, owner # Nobody)

\* daemon() forks; the child, which has no lock to lose, goes on.
Daemonise(p) == Goto(p, "fork", "lock") /\ UNCHANGED <<returned, owner, lockfile>>

Return(p, value) == returned' = [returned EXCEPT ![p] = value]

\* lock_file: F_SETLK does not wait.
LockFile(p) ==
    /\ Goto(p, "lock", "truncate")
    /\ owner = Nobody
    /\ owner' = p
    /\ UNCHANGED <<returned, lockfile>>

\* Mutant: lock_file's result is not looked at.
GoOnUnlocked(p) ==
    /\ Goto(p, "lock", "truncate")
    /\ owner # Nobody
    /\ UNCHANGED <<returned, owner, lockfile>>

\* EACCES or EAGAIN: -1, which main does not look at.
LockRefused(p) ==
    /\ Goto(p, "lock", "running")
    /\ owner # Nobody
    /\ Return(p, "-1")
    /\ UNCHANGED <<owner, lockfile>>

\* Any other error ends the process.
LockFails(p) == Goto(p, "lock", "gone") /\ UNCHANGED <<returned, owner, lockfile>>

Truncate(p) ==
    /\ Goto(p, "truncate", "write")
    /\ lockfile' = Blank
    /\ UNCHANGED <<returned, owner>>

WritePid(p) ==
    /\ Goto(p, "write", "running")
    /\ lockfile' = p
    /\ Return(p, "0")
    /\ UNCHANGED owner

\* External: a process is killed, and the kernel takes its lock away.
Die(p) ==
    /\ where[p] \notin {"unborn", "turned away", "gone"}
    /\ where' = [where EXCEPT ![p] = "gone"]
    /\ owner' = IF owner = p THEN Nobody ELSE owner
    /\ UNCHANGED <<returned, lockfile>>

DaemonRun(p) ==
    \/ Open(p) \/ OpenFails(p) \/ CheckDaemonRunning(p) \/ Daemonise(p)
    \/ LockFile(p) \/ LockRefused(p) \/ LockFails(p) \/ Truncate(p) \/ WritePid(p)

DaemonNext == \E p \in Processes : DaemonRun(p) \/ Die(p)

DaemonSpec == DaemonInit /\ [][DaemonNext]_daemon

-----------------------------------------------------------------------------
(* Properties *)

\* The shape of the processes and of the file.
TypeOK ==
    /\ where \in [Processes -> {"unborn", "check", "fork", "lock", "truncate", "write",
                                "running", "turned away", "gone"}]
    /\ returned \in [Processes -> {"none", "0", "-1"}]
    /\ owner \in Processes \cup {Nobody}
    /\ lockfile \in Processes \cup {Absent, Blank}
    /\ lockfile = Absent => \A p \in Processes : where[p] \in {"unborn", "gone"}

\* However many processes pass the check at the same time, and whoever dies in
\* between: daemon_run tells one living process at most that it is the daemon,
\* and LOCKFILE has the number of that one.
OneDaemonNamed ==
    \A p \in Processes :
        where[p] = "running" /\ returned[p] = "0" => owner = p /\ lockfile = p

\* Whoever is sent away was not alone: a daemon that died does not keep the next
\* one from starting, whatever LOCKFILE still says.
OnlyTheLivingBar ==
    [][\A p \in Processes :
          where[p] = "check" /\ where'[p] = "turned away" =>
              \E q \in Processes \ {p} :
                  \/ where[q] \in {"truncate", "write"}
                  \/ where[q] = "running" /\ returned[q] = "0"]_daemon
=============================================================================
