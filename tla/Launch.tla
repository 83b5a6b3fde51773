------------------------------- MODULE Launch -------------------------------
(***************************************************************************)
(* LangC::launch of lang.cpp: a judge's thread runs the submitted program  *)
(* once for each test case, as a child it traces with ptrace, and turns    *)
(* what wait4 reports into a verdict.  The program, and the kernel that    *)
(* limits, stops and kills it, are the second actor.  While the child is   *)
(* stopped or dead nothing can change under the tracer's eyes, so one turn *)
(* of its loop, from wait4 to the next resumption, is one step.            *)
(***************************************************************************)
EXTENDS Integers

CONSTANTS Calls,        \* the system calls with a number inside the table
          RF_C,         \* what is listed: for each call -1 (always), how often,
                        \* or, for a call that is not listed, 0
          Leftover,     \* the calls whose entry nobody clears or fills
          Garbage,      \* what may lie in memory nobody wrote
          Blocking,     \* the calls that may never return
          ResourceLimits, \* for each problem to look at its single_time_limit in
                        \* ms and its memory_limit, the number compared
          Unset,        \* a limit that is not set
          SECOND,       \* ms to a second
          PAGESIZE,     \* getpagesize()
          Tests,        \* how many test cases there are
          MaxTime,      \* bound: CPU time of an unlimited program, in ms
          MaxFaults,    \* bound: page faults of a program
          MaxCounted    \* bound: where the histories stop counting

ASSUME LaunchAssumption ==
    /\ {"execve", "exit_group"} \subseteq Calls
    /\ RF_C \in [Calls -> Nat \cup {-1}]
    /\ Leftover \subseteq {c \in Calls : RF_C[c] = 0}
    /\ Garbage \subseteq Nat \cup {-1} /\ Garbage # {}
    /\ Unset \notin Int
    /\ ResourceLimits \subseteq (Nat \cup {Unset}) \X (Nat \cup {Unset})
    /\ SECOND \in Nat \ {0, 1} /\ PAGESIZE \in Nat \ {0}
    /\ {Tests, MaxTime, MaxFaults, MaxCounted} \subseteq Nat

VARIABLES
    pc,              \* the tracer: "idle", "fork", "wait", "info", "returned";
                     \* "crashed" if NOJ went down over it
    test,            \* the number of test cases launched
    res_type, res_elapsed_time, res_max_memory,
    unread,          \* history: get_proc_info made up its answer
    single_time_limit, memory_limit,   \* those of the problem
    sys_call_init,   \* the table of system calls, once it is built
    syscall_limits,  \* what is left of it
    child,           \* the phase the child is in
    event,           \* why it last stopped or died: what wait4 reports
    cpu, faults,     \* its CPU time in ms and page faults: its rusage
    clock,           \* its alarm: "off", "set", or "rung" and to be delivered
    attempts,        \* history: system calls the program set out to make
    made             \* history: system calls the kernel carried out for it

result == <<res_type, res_elapsed_time, res_max_memory, unread>>
limits == <<single_time_limit, memory_limit, sys_call_init, syscall_limits>>
usage  == <<cpu, faults>>
calls  == <<attempts, made>>
vars   == <<pc, test, result, limits, child, event, usage, clock, calls>>

NoCalls == [c \in Calls |-> 0]
OneMore(n) == IF n < MaxCounted THEN n + 1 ELSE n

\* What the first launch makes of RF_C.  An array of 512 ints is cleared by
\* memset for 512 bytes: of the calls from number 128 on that are not listed the
\* table holds what malloc left there.
Tables == {[c \in Calls |-> IF c \in Leftover THEN rest[c] ELSE RF_C[c]] :
              rest \in [Leftover -> Garbage]}

\* The table is built once in the life of NOJ; how, and what a second worker may
\* meet meanwhile, is in Statics.
Init ==
    /\ pc = "idle" /\ test = 0
    /\ res_type = "Init" /\ res_elapsed_time = 0 /\ res_max_memory = 0
    /\ unread = FALSE
    /\ \E rl \in ResourceLimits : single_time_limit = rl[1] /\ memory_limit = rl[2]
    /\ sys_call_init \in Tables
    /\ syscall_limits = NoCalls
    /\ child = "none" /\ event = [kind |-> "none"]
    /\ cpu = 0 /\ faults = 0
    /\ clock = "off"
    /\ attempts = NoCalls /\ made = NoCalls

-----------------------------------------------------------------------------
(* The limits *)

\* TimeUsage::get_second rounds up.
Seconds(ms) == ms \div SECOND + (IF ms % SECOND > 0 THEN 1 ELSE 0)

\* Mutant: a limit of 0 is passed on as it is, and 0 means no limit.
AsItIs(n) == n

AtLeastOne(n) == IF n < 1 THEN 1 ELSE n

\* A problem comes with no total_time_limit: the single limit decides, and 0
\* stands for a limit that is not set.
get_rl_cpu_second ==
    IF single_time_limit = Unset THEN 0 ELSE AtLeastOne(Seconds(single_time_limit))
get_rl_cpu_millisecond ==
    IF single_time_limit = Unset THEN 0 ELSE AtLeastOne(single_time_limit)

\* RLIMIT_CPU, soft and hard, in ms.
SoftLimit == (Seconds(single_time_limit) + 1) * SECOND
HardLimit == ((Seconds(single_time_limit) * 3) \div 2 + 1) * SECOND

\* launch() counts page faults in KB.
Memory == (faults * PAGESIZE) \div 1024

-----------------------------------------------------------------------------
(* The tracer *)

\* A test case is launched with a new Result and with these limits.
BeginWith(left) ==
    /\ pc \in {"idle", "returned"} /\ test < Tests
    /\ pc' = "fork" /\ test' = test + 1
    /\ res_type' = "Init" /\ res_elapsed_time' = 0 /\ res_max_memory' = 0
    /\ unread' = FALSE
    /\ syscall_limits' = left
    /\ UNCHANGED <<single_time_limit, memory_limit, sys_call_init>>
    /\ child' = "none" /\ event' = [kind |-> "none"]
    /\ cpu' = 0 /\ faults' = 0
    /\ clock' = "off"
    /\ attempts' = NoCalls /\ made' = NoCalls

\* Mutant: the limits are set up by the first launch alone.
BeginWithRest == BeginWith(IF test = 0 THEN sys_call_init ELSE syscall_limits)

\* init_system_call_limits gives every launch the whole table.
Begin == BeginWith(sys_call_init)

Fork ==
    /\ pc = "fork"
    /\ pc' = "wait" /\ child' = "setup"
    /\ UNCHANGED <<test, result, limits, event, usage, clock, calls>>

ForkFails ==
    /\ pc = "fork"
    /\ pc' = "returned" /\ res_type' = "SystemError"
    /\ UNCHANGED <<test, res_elapsed_time, res_max_memory, unread, limits, child,
                   event, usage, clock, calls>>

\* What wait4 and the checks behind it find, in the order they come.
MemoryNow ==
    IF memory_limit # Unset /\ res_max_memory < Memory THEN Memory ELSE res_max_memory
OverMemory == memory_limit # Unset /\ MemoryNow > memory_limit

\* Mutant: a limit that is not set is one of 0.
OverTimeUnguarded == cpu > get_rl_cpu_millisecond

OverTime == get_rl_cpu_millisecond > 0 /\ cpu > get_rl_cpu_millisecond

\* The switch over the signal that stopped or killed the child.
VerdictOf(signal) ==
    CASE signal \in {"SIGCHLD", "SIGALRM", "SIGKILL", "SIGXCPU"} -> "TimeLimitExceed"
      [] signal = "SIGXFSZ" -> "OutputLimitExceed"
      [] signal = "SIGSEGV" -> "SegmentFault"
      [] signal = "SIGBUS"  -> "BusError"
      [] signal = "SIGABRT" -> "Abort"
      [] OTHER -> "RuntimeError"

\* The loop is left with a verdict, and a child that is not dead is sent its
\* death by PTRACE_KILL: it dies when the kernel comes to it, and nobody waits
\* for that.
Leave(verdict) ==
    /\ pc' = "info"
    /\ res_type' = verdict
    /\ res_max_memory' = MemoryNow
    /\ child' = IF child = "dead" THEN "dead" ELSE "dying"
    /\ UNCHANGED <<test, unread, limits, event, usage, clock, calls>>

Waited == pc = "wait" /\ child \in {"stopped", "dead"}
Reported(kind) == Waited /\ event.kind = kind
Timed == res_elapsed_time' = cpu

MemoryExceeded ==
    /\ Waited /\ OverMemory
    /\ Leave("MemoryLimitExceed") /\ UNCHANGED res_elapsed_time

TimeExceeded ==
    /\ Waited /\ ~OverMemory /\ OverTime
    /\ Leave("TimeLimitExceed") /\ Timed

ExitedThen ==
    /\ Reported("exit")
    /\ Leave(IF event.status = 0 THEN "RunPass" ELSE "RuntimeError") /\ Timed

\* Mutant: WIFEXITED is looked at before the limits.
ExitedFirst == ExitedThen

Exited == ~OverMemory /\ ~OverTime /\ ExitedThen

\* Mutant: PTRACE_KILL left out where a signal stopped the child.
Spared ==
    /\ Reported("stop") /\ ~OverMemory /\ ~OverTime
    /\ pc' = "info" /\ res_type' = VerdictOf(event.signal)
    /\ res_max_memory' = MemoryNow /\ Timed
    /\ UNCHANGED <<test, unread, limits, child, event, usage, clock, calls>>

Signalled ==
    /\ Reported("stop") \/ Reported("signal")
    /\ ~OverMemory /\ ~OverTime
    /\ Leave(VerdictOf(event.signal)) /\ Timed

\* A stop at a system call, within the limits.
AtCall == Reported("call") /\ ~OverMemory /\ ~OverTime

Forbidden ==
    /\ AtCall /\ syscall_limits[event.call] = 0
    /\ Leave("IllegalSystemCall") /\ Timed

\* PTRACE_SYSCALL: on into the call, or back to the program.
ResumeWith(left) ==
    /\ AtCall /\ Timed
    /\ res_max_memory' = MemoryNow
    /\ syscall_limits' = left
    /\ child' = IF event.side = "entry" THEN "kernel" ELSE "user"
    /\ UNCHANGED <<pc, test, res_type, unread, single_time_limit, memory_limit,
                   sys_call_init, event, usage, clock, calls>>

\* A stop uses up one of the times the call is allowed, before it and behind it.
OneLess(n) == IF n > 0 THEN n - 1 ELSE n
LimitsLeft == [syscall_limits EXCEPT ![event.call] = OneLess(@)]

\* Mutant: a call that is used up is let through like any other.
ResumeAnyway == ResumeWith(LimitsLeft)

Resume == AtCall /\ syscall_limits[event.call] # 0 /\ ResumeWith(LimitsLeft)

\* Any other stop by SIGTRAP is taken for a system call as well: the number that
\* PTRACE_GETREGS shows is -1, or what the program asked for, and
\* syscall_limits is read, and counted down, outside its 512 entries.  What lies
\* there may refuse the program or let it go on.
AtStray == Reported("stray") /\ ~OverMemory /\ ~OverTime

StrayRefused == AtStray /\ Leave("IllegalSystemCall") /\ Timed

StrayResumed ==
    /\ AtStray /\ Timed
    /\ res_max_memory' = MemoryNow
    /\ child' = "user"
    /\ UNCHANGED <<pc, test, res_type, unread, limits, event, usage, clock, calls>>

\* After the loop the maximum is raised to what get_proc_info says, and the
\* limit is compared once more.
ProcInfoSays(ret) ==
    /\ pc = "info"
    /\ pc' = "returned"
    /\ res_max_memory' = IF res_max_memory < ret THEN ret ELSE res_max_memory
    /\ res_type' = IF memory_limit # Unset /\ res_max_memory' > memory_limit
                   THEN "MemoryLimitExceed" ELSE res_type
    /\ UNCHANGED <<test, res_elapsed_time, limits, child, event, usage, clock, calls>>

\* It tests for a directory where a file is, so that the shell answers 0; if the
\* shell answers nothing, ret is what lay on the stack.
ProcInfo == ProcInfoSays(0) /\ UNCHANGED unread
ProcInfoUnread ==
    /\ \E ret \in Garbage \cap Nat : ProcInfoSays(ret)
    /\ unread' = TRUE

\* A number far outside the table, or a popen that fails, whose NULL goes to
\* fscanf, bring NOJ down.
Crash ==
    /\ AtStray \/ pc = "info"
    /\ pc' = "crashed"
    /\ UNCHANGED <<test, result, limits, child, event, usage, clock, calls>>

-----------------------------------------------------------------------------
(* The child: first launch()'s own code, then the program, and the kernel *)

Quiet == UNCHANGED <<pc, test, result, limits>>

\* The child becomes something wait4 reports.
Becomes(phase, what) ==
    /\ child' = phase /\ event' = what
    /\ Quiet /\ UNCHANGED <<usage, clock, made>>

\* chroot, setuid, the three files, RLIMIT_CPU and the alarm.  No limit set
\* makes it alarm(0): no alarm.
SetUp ==
    /\ child = "setup"
    /\ child' = "exec"
    /\ clock' = IF get_rl_cpu_second > 0 THEN "set" ELSE "off"
    /\ Quiet /\ UNCHANGED <<event, usage, calls>>

\* After PTRACE_TRACEME a successful execl stops the child once it has run; a
\* failed one is followed by exit(1).
Exec ==
    /\ child = "exec" /\ clock # "rung"
    /\ Becomes("stopped", [kind |-> "call", call |-> "execve", side |-> "exec"])
    /\ attempts' = [attempts EXCEPT !["execve"] = OneMore(@)]
ExecFails ==
    /\ child = "exec" /\ clock # "rung"
    /\ Becomes("dead", [kind |-> "exit", status |-> 1]) /\ UNCHANGED attempts

\* The program computes, touches a page, or sets out to make a system call, but
\* not past a pending signal, nor past the hard limit.
Computing == child = "user" /\ clock # "rung"
Unspent == IF single_time_limit = Unset THEN cpu < MaxTime ELSE cpu < HardLimit

\* Time spent in the kernel counts as well.
Compute ==
    /\ child \in {"user", "kernel"} /\ clock # "rung" /\ Unspent
    /\ cpu' = cpu + 1
    /\ Quiet /\ UNCHANGED <<child, event, faults, clock, calls>>

Touch ==
    /\ Computing /\ faults < MaxFaults
    /\ faults' = faults + 1
    /\ Quiet /\ UNCHANGED <<child, event, cpu, clock, calls>>

EnterCall(c) ==
    /\ Computing
    /\ Becomes("stopped", [kind |-> "call", call |-> c, side |-> "entry"])
    /\ attempts' = [attempts EXCEPT ![c] = OneMore(@)]

\* A trap of the program's own making (int3, single-stepping) is one stop outside
\* the table, a call with a number outside it are two, which the kernel answers
\* with ENOSYS in between.
Stray ==
    /\ Computing
    /\ Becomes("stopped", [kind |-> "stray"]) /\ UNCHANGED attempts

\* The kernel carries a call out, some in no time and some when it pleases the
\* world; the program stops again behind it.
CallReturnsIf(mayBlock) ==
    /\ child = "kernel" /\ event.call # "exit_group"
    /\ mayBlock <=> event.call \in Blocking
    /\ made' = [made EXCEPT ![event.call] = OneMore(@)]
    /\ child' = "stopped" /\ event' = [event EXCEPT !.side = "exit"]
    /\ Quiet /\ UNCHANGED <<usage, clock, attempts>>
CallReturns == CallReturnsIf(FALSE)
BlockingCallReturns == CallReturnsIf(TRUE)
ExitGroup ==
    /\ child = "kernel" /\ event.call = "exit_group"
    /\ \E status \in {0, 1} : Becomes("dead", [kind |-> "exit", status |-> status])
    /\ UNCHANGED attempts

\* The alarm rings when five times the CPU limit has gone by on the clock of
\* the wall, however little of it the program was given.
AlarmRings ==
    /\ clock = "set" /\ child \notin {"none", "dying", "dead"}
    /\ clock' = "rung"
    /\ Quiet /\ UNCHANGED <<child, event, usage, calls>>

\* A signal reaches the child: before PTRACE_TRACEME it kills it, later it
\* stops it.
Deliver(signal) ==
    /\ \/ child = "exec" /\ Becomes("dead", [kind |-> "signal", signal |-> signal])
       \/ child \in {"exec", "user", "kernel"}
          /\ Becomes("stopped", [kind |-> "stop", signal |-> signal])
    /\ UNCHANGED attempts
AlarmStops == clock = "rung" /\ Deliver("SIGALRM")
SoftLimitStops == single_time_limit # Unset /\ cpu >= SoftLimit /\ Deliver("SIGXCPU")
Fault ==
    /\ child = "user"
    /\ \E signal \in {"SIGXFSZ", "SIGSEGV", "SIGBUS", "SIGABRT", "SIGFPE"} : Deliver(signal)

\* SIGKILL, at the hard limit or because the kernel is out of memory.
Killed ==
    /\ child \in {"exec", "user", "kernel"}
    /\ Becomes("dead", [kind |-> "signal", signal |-> "SIGKILL"])
    /\ UNCHANGED attempts

\* What PTRACE_KILL began: SIGKILL is what the stopped child finds when it goes
\* on, and a call at whose entry it stood is not carried out.
Dies ==
    /\ child = "dying"
    /\ child' = "dead"
    /\ Quiet /\ UNCHANGED <<event, usage, clock, calls>>

-----------------------------------------------------------------------------
Tracer ==
    \/ Fork \/ ForkFails \/ MemoryExceeded \/ TimeExceeded \/ Exited
    \/ Signalled \/ Forbidden \/ Resume \/ StrayRefused \/ StrayResumed
    \/ ProcInfo \/ ProcInfoUnread \/ Crash

Program ==
    \/ Compute \/ Touch \/ Stray \/ (\E c \in Calls : EnterCall(c))
    \/ BlockingCallReturns \/ Fault \/ Killed

\* What the kernel brings about in time: the child's own set-up, a call that
\* cannot block, a pending signal, the alarm.
Kernel ==
    \/ SetUp \/ Exec \/ ExecFails \/ CallReturns \/ ExitGroup
    \/ AlarmStops \/ SoftLimitStops \/ Dies

Next == Begin \/ Tracer \/ Program \/ Kernel \/ AlarmRings

Spec == Init /\ [][Next]_vars

\* The judge's thread and the kernel go on; the program need not.
FairSpec == Spec /\ WF_vars(Tracer) /\ WF_vars(Kernel) /\ WF_vars(AlarmRings)

-----------------------------------------------------------------------------
(* Properties *)

\* The shape of launch()'s locals and of the child.
TypeOK ==
    /\ pc \in {"idle", "fork", "wait", "info", "returned", "crashed"}
    /\ test \in 0..Tests
    /\ res_type \in {"Init", "SystemError", "RunPass", "RuntimeError",
                     "MemoryLimitExceed", "TimeLimitExceed", "OutputLimitExceed",
                     "SegmentFault", "BusError", "Abort", "IllegalSystemCall"}
    /\ res_elapsed_time \in Nat /\ res_max_memory \in Nat /\ unread \in BOOLEAN
    /\ {single_time_limit, memory_limit} \subseteq Nat \cup {Unset}
    /\ sys_call_init \in Tables /\ syscall_limits \in [Calls -> Nat \cup {-1}]
    /\ child \in {"none", "setup", "exec", "user", "kernel", "stopped", "dying", "dead"}
    /\ event.kind \in {"none", "call", "stray", "exit", "stop", "signal"}
    /\ cpu \in Nat /\ faults \in 0..MaxFaults
    /\ clock \in {"off", "set", "rung"}
    /\ attempts \in [Calls -> 0..MaxCounted] /\ made \in [Calls -> 0..MaxCounted]

\* No system call is carried out for the program more often than the table
\* holds, be that what lang.cpp lists or what malloc left: the check comes
\* between the entry and the call itself.
NoForbiddenCall ==
    \A c \in Calls : sys_call_init[c] >= 0 => made[c] <= sys_call_init[c]

\* A program is condemned for a system call only if it set out to make one
\* beyond what lang.cpp lists for each launch, whatever lies in the rest of the
\* table, or if it trapped or used a number outside the table, which launch()
\* cannot tell from a call.
CondemnedWithCause ==
    res_type = "IllegalSystemCall" =>
        \/ event.kind = "stray"
        \/ RF_C[event.call] >= 0 /\ attempts[event.call] > RF_C[event.call]

Done == pc = "returned" /\ res_type # "SystemError"

\* What the user's limits say, told without launch()'s helpers: a limit of 0 ms
\* counts as 1 ms, and a limit that is not set is none.
TooMuch == memory_limit # Unset /\ Memory > memory_limit
TooLong == single_time_limit # Unset /\ cpu > single_time_limit /\ cpu > 1

\* The limits come before everything else: a program that used too much memory
\* is told so, and one that used too much time, even if it ended well, unless
\* the memory was made up.
LimitsDecideFirst ==
    Done =>
        /\ TooMuch => res_type = "MemoryLimitExceed"
        /\ ~TooMuch /\ ~unread /\ TooLong => res_type = "TimeLimitExceed"

\* And nobody else is told so: a program condemned for its memory used too much,
\* unless that was made up; one condemned for its time used too much, outstayed
\* the alarm, or was killed by the kernel.
LimitsHaveCause ==
    Done =>
        /\ res_type = "MemoryLimitExceed" => memory_limit # Unset /\ (TooMuch \/ unread)
        /\ res_type = "TimeLimitExceed" =>
              \/ TooLong
              \/ single_time_limit # Unset /\ clock = "rung"
              \/ event = [kind |-> "signal", signal |-> "SIGKILL"]

\* However the program behaves, launch() returns, if a time limit is set, or
\* brings NOJ down where Crash says: a program that spins meets RLIMIT_CPU, one
\* that waits meets the alarm.
LaunchReturns ==
    pc = "fork" /\ single_time_limit # Unset ~> pc \in {"returned", "crashed"}

\* Nobody waits for a program that was killed, but it does die: along whichever
\* path the loop was left, none stays behind, stopped for good.
ProgramEnds ==
    pc = "returned" ~> (pc # "returned" \/ child \in {"none", "dead"})
=============================================================================
