---------------------------- MODULE LaunchProofs ----------------------------
(***************************************************************************)
(* Theorems about Launch, for every table of system calls, every program   *)
(* and any limits.  The invariants are about the child's phase as the      *)
(* tracer knows it (Phases), the system calls (Allowance: what is left of  *)
(* the table and what was carried out add up; Causes: what leads up to a   *)
(* stop), and the limits (Limits: what the verdict owes to them; Reasons:  *)
(* what they owe to it).                                                   *)
(***************************************************************************)
EXTENDS Launch, TLAPS

Signals == {"SIGALRM", "SIGXCPU", "SIGKILL", "SIGXFSZ", "SIGSEGV", "SIGBUS", "SIGABRT",
            "SIGFPE"}

Events ==
    [kind : {"none"}]
    \cup [kind : {"call"}, call : Calls, side : {"exec", "entry", "exit"}]
    \cup [kind : {"stray"}]
    \cup [kind : {"exit"}, status : {0, 1}]
    \cup [kind : {"stop", "signal"}, signal : Signals]

\* The child's phase follows the tracer's, and it is in a call it stopped for.
Phases ==
    /\ pc \in {"idle", "fork"} => child = "none"
    /\ pc = "wait" => child \notin {"none", "dying"}
    /\ pc = "info" => child \in {"dying", "dead"}
    /\ pc = "returned" => child \in {"none", "dying", "dead"}
    /\ child \in {"setup", "exec", "user", "kernel"} => pc = "wait"
    /\ pc \in {"fork", "wait"} => res_type = "Init"
    /\ pc \in {"fork", "wait", "info"} => unread = FALSE
    /\ event \in Events
    /\ child \in {"none", "setup"} => event.kind = "none"
    /\ child = "kernel" => event.kind = "call" /\ event.side = "entry"
    /\ child = "stopped" => event.kind \in {"call", "stray", "stop"}
    /\ pc = "wait" /\ child = "dead" => event.kind \in {"exit", "signal"}

\* Until its execl the program has made no call, and the table is whole.
Whole ==
    /\ child \in {"none", "setup", "exec"} => attempts = NoCalls /\ made = NoCalls
    /\ pc = "fork" \/ child \in {"setup", "exec"} => syscall_limits = sys_call_init
    /\ child = "stopped" /\ event.kind = "call" /\ event.side = "exec"
         => syscall_limits = sys_call_init /\ event.call = "execve" /\ made = NoCalls

\* The program is past its execl, which used up one of the calls of execve.
PastExec ==
    \/ child \in {"user", "kernel"}
    \/ child = "stopped" /\ event.kind = "call" /\ event.side \in {"entry", "exit"}
    \/ child = "stopped" /\ event.kind = "stray"

\* The stops that a call is known to have used up.
Spent(c) ==
    made[c] + (IF child = "kernel" /\ event.call = c THEN 1 ELSE 0)
            + (IF c = "execve" /\ PastExec THEN 1 ELSE 0)

\* What is left of the table and what was made of it never exceed it.
Allowance ==
    /\ pc # "idle" => \A c \in Calls : sys_call_init[c] = -1 => syscall_limits[c] = -1
    /\ pc # "idle" => \A c \in Calls :
          sys_call_init[c] >= 0 => syscall_limits[c] >= 0
    /\ child # "none" => \A c \in Calls :
          sys_call_init[c] >= 0 => Spent(c) + syscall_limits[c] <= sys_call_init[c]
    /\ NoForbiddenCall

\* What the histories say at a stop for a call.
Causes ==
    /\ PastExec => attempts["execve"] >= 1
    /\ child \in {"kernel", "stopped"} /\ event.kind = "call" => attempts[event.call] >= 1
    /\ child = "stopped" /\ event.kind = "call" /\ event.side = "entry"
         => (event.call = "execve" => attempts["execve"] >= 2)
    /\ child = "stopped" /\ event.kind = "call" /\ event.side = "exit"
         => made[event.call] >= 1

\* What the verdict owes to the limits, once the loop is left.
Limits ==
    /\ pc \in {"fork", "wait"} /\ memory_limit # Unset => res_max_memory <= memory_limit
    /\ pc = "info" /\ memory_limit # Unset /\ ~TooMuch => res_max_memory <= memory_limit
    /\ pc = "info" \/ Done =>
          /\ TooMuch => res_type = "MemoryLimitExceed"
          /\ ~TooMuch /\ ~unread /\ TooLong => res_type = "TimeLimitExceed"

\* What a program condemned for its time has done, and a signal has in common.
OutOfTime ==
    \/ TooLong
    \/ single_time_limit # Unset /\ clock = "rung"
    \/ event = [kind |-> "signal", signal |-> "SIGKILL"]

Reasons ==
    /\ clock # "off" => single_time_limit # Unset
    /\ event.kind \in {"stop", "signal"}
          /\ event.signal \in {"SIGALRM", "SIGXCPU", "SIGKILL"} => OutOfTime
    /\ pc = "info" \/ Done =>
          /\ res_type = "MemoryLimitExceed" => memory_limit # Unset /\ (TooMuch \/ unread)
          /\ res_type = "TimeLimitExceed" => OutOfTime

\* The ways out of the loop.
LeavesLoop ==
    \/ MemoryExceeded \/ TimeExceeded \/ Exited \/ Signalled \/ Forbidden
    \/ StrayRefused

\* The invariant of the bottom layer.
Control == TypeOK /\ Phases

-----------------------------------------------------------------------------
(* The types and the phases *)

\* The limits of a problem are numbers or not set.
LEMMA LimitsType ==
  ASSUME NEW rl \in ResourceLimits
  PROVE  {rl[1], rl[2]} \subseteq Nat \cup {Unset}
  BY LaunchAssumption

\* No step of tracer or child changes them.
LEMMA LimitsStay == [Next]_vars => UNCHANGED <<single_time_limit, memory_limit>>
<1> SUFFICES ASSUME [Next]_vars PROVE UNCHANGED <<single_time_limit, memory_limit>>
  OBVIOUS
<1> USE DEF limits
<1>1. CASE UNCHANGED vars
  BY <1>1 DEF vars
<1>2. CASE Begin \/ Tracer
  BY <1>2
  DEF Begin, BeginWith, Tracer, Fork, ForkFails, MemoryExceeded, TimeExceeded, Exited,
      ExitedThen, Signalled, Forbidden, Resume, ResumeWith, StrayRefused, StrayResumed,
      ProcInfo, ProcInfoUnread, ProcInfoSays, Crash, Leave
<1>3. CASE Program \/ Kernel \/ AlarmRings
  BY <1>3
  DEF Program, Kernel, Compute, Touch, Stray, EnterCall, CallReturns,
      BlockingCallReturns, CallReturnsIf, Fault, Killed, Deliver, SetUp, Exec,
      ExecFails, ExitGroup, AlarmStops, SoftLimitStops, Dies, AlarmRings, Becomes, Quiet
<1> QED BY <1>1, <1>2, <1>3 DEF Next

\* Every table that may come about holds counts, and what is listed.
LEMMA TablesType ==
  ASSUME NEW t \in Tables
  PROVE  /\ t \in [Calls -> Nat \cup {-1}]
         /\ \A c \in Calls \ Leftover : t[c] = RF_C[c]
<1>1. PICK rest \in [Leftover -> Garbage] :
        t = [c \in Calls |-> IF c \in Leftover THEN rest[c] ELSE RF_C[c]]
  BY DEF Tables
<1> QED BY <1>1, LaunchAssumption

LEMMA ControlInit == Init => Control
<1> SUFFICES ASSUME Init PROVE Control
  OBVIOUS
<1>1. TypeOK
  <2>1. /\ NoCalls \in [Calls -> Nat \cup {-1}]
        /\ NoCalls \in [Calls -> 0..MaxCounted]
    BY LaunchAssumption DEF NoCalls
  <2>2. {Tests, MaxTime, MaxFaults, MaxCounted} \subseteq Nat
    BY LaunchAssumption
  <2>3. test \in 0..Tests /\ faults \in 0..MaxFaults
    BY <2>2 DEF Init
  <2>4. event.kind = "none"
    BY DEF Init
  <2>5. {single_time_limit, memory_limit} \subseteq Nat \cup {Unset}
    BY LimitsType DEF Init
  <2> QED BY <2>1, <2>3, <2>4, <2>5 DEF Init, TypeOK
<1>2. Phases
  BY DEF Init, Phases, Events
<1> QED BY <1>1, <1>2 DEF Control

\* What the tracer reads off the child's usage is a number.
LEMMA MemoryType ==
  ASSUME faults \in Nat
  PROVE  Memory \in Nat
<1>1. faults * PAGESIZE \in Nat
  BY LaunchAssumption
<1> QED BY <1>1 DEF Memory

LEMMA ControlTracer ==
  ASSUME Control, Begin \/ Tracer
  PROVE  Control'
<1>0. MemoryNow \in Nat
  BY MemoryType DEF MemoryNow, Control, TypeOK
<1> USE <1>0, LaunchAssumption
    DEF Control, TypeOK, Phases, result, limits, usage, calls, Leave, Waited, Reported,
        Timed
<1> HIDE DEF MemoryNow
<1>1. CASE Begin
  <2>1. TypeOK'
    <3>1. /\ NoCalls \in [Calls -> 0..MaxCounted]
          /\ sys_call_init \in [Calls -> Nat \cup {-1}]
      BY TablesType DEF NoCalls
    <3>2. event'.kind = "none" /\ test' \in 0..Tests /\ faults' \in 0..MaxFaults
      BY <1>1 DEF Begin, BeginWith
    <3> QED BY <1>1, <3>1, <3>2 DEF Begin, BeginWith
  <2>2. Phases'
    BY <1>1 DEF Begin, BeginWith, Events
  <2> QED BY <2>1, <2>2
<1>2. CASE Fork               BY <1>2 DEF Fork
<1>3. CASE ForkFails          BY <1>3 DEF ForkFails
<1>4. CASE MemoryExceeded     BY <1>4 DEF MemoryExceeded
<1>5. CASE TimeExceeded       BY <1>5 DEF TimeExceeded
<1>6. CASE Exited             BY <1>6 DEF Exited, ExitedThen
<1>7. CASE Signalled          BY <1>7 DEF Signalled, VerdictOf
<1>8. CASE Forbidden          BY <1>8 DEF Forbidden, AtCall
<1>9. CASE Resume
  <2>1. event.kind = "call" /\ event.call \in Calls /\ child = "stopped"
    BY <1>9 DEF Resume, ResumeWith, AtCall, Events
  <2>2. OneLess(syscall_limits[event.call]) \in Nat \cup {-1}
    BY <2>1 DEF OneLess
  <2>3. LimitsLeft \in [Calls -> Nat \cup {-1}]
    BY <2>1, <2>2 DEF LimitsLeft
  <2> QED BY <1>9, <2>1, <2>3 DEF Resume, ResumeWith, AtCall
<1>10. CASE ProcInfo \/ ProcInfoUnread
  <2>1. PICK ret \in Nat : ProcInfoSays(ret)
    BY <1>10 DEF ProcInfo, ProcInfoUnread
  <2>2. res_max_memory' \in Nat /\ unread' \in BOOLEAN
    BY <1>10, <2>1 DEF ProcInfo, ProcInfoUnread, ProcInfoSays
  <2> QED BY <2>1, <2>2 DEF ProcInfoSays
<1>11. CASE StrayRefused \/ StrayResumed
  BY <1>11 DEF StrayRefused, StrayResumed, AtStray
<1>12. CASE Crash             BY <1>12 DEF Crash, AtStray
<1> QED BY <1>1, <1>2, <1>3, <1>4, <1>5, <1>6, <1>7, <1>8, <1>9, <1>10, <1>11, <1>12
        DEF Tracer

LEMMA ControlChild ==
  ASSUME Control, Program \/ Kernel \/ AlarmRings
  PROVE  Control'
<1>0. \A n \in 0..MaxCounted : OneMore(n) \in 0..MaxCounted
  BY LaunchAssumption DEF OneMore
<1> USE <1>0, LaunchAssumption
    DEF Control, TypeOK, Phases, result, limits, usage, calls, Quiet, Becomes
<1>1. CASE Compute            BY <1>1 DEF Compute
<1>2. CASE Touch \/ Stray     BY <1>2 DEF Touch, Stray, Computing, Events
<1>3. ASSUME NEW c \in Calls, EnterCall(c)
      PROVE  Control'
  BY <1>3 DEF EnterCall, Computing, Events
<1>4. CASE CallReturns \/ BlockingCallReturns
  <2>1. /\ event \in [kind : {"call"}, call : Calls, side : {"exec", "entry", "exit"}]
        /\ child = "kernel"
    BY <1>4 DEF CallReturns, BlockingCallReturns, CallReturnsIf, Events
  <2>2. event' \in [kind : {"call"}, call : Calls, side : {"exec", "entry", "exit"}]
    BY <1>4, <2>1 DEF CallReturns, BlockingCallReturns, CallReturnsIf
  <2>3. event' \in Events
    BY <2>2 DEF Events
  <2> QED BY <1>4, <2>1, <2>3 DEF CallReturns, BlockingCallReturns, CallReturnsIf
<1>5. CASE Fault              BY <1>5 DEF Fault, Deliver, Events, Signals
<1>6. CASE Killed             BY <1>6 DEF Killed, Events, Signals
<1>7. CASE SetUp              BY <1>7 DEF SetUp
<1>8. CASE Exec               BY <1>8 DEF Exec, Events
<1>9. CASE ExecFails          BY <1>9 DEF ExecFails, Events
<1>10. CASE ExitGroup         BY <1>10 DEF ExitGroup, Events
<1>11. CASE AlarmStops        BY <1>11 DEF AlarmStops, Deliver, Events, Signals
<1>12. CASE SoftLimitStops    BY <1>12 DEF SoftLimitStops, Deliver, Events, Signals
<1>13. CASE AlarmRings \/ Dies
  <2>1. CASE AlarmRings
    BY <2>1 DEF AlarmRings
  <2>2. CASE Dies
    BY <2>2 DEF Dies
  <2> QED BY <1>13, <2>1, <2>2
<1> QED BY <1>1, <1>2, <1>3, <1>4, <1>5, <1>6, <1>7, <1>8, <1>9, <1>10, <1>11, <1>12,
           <1>13
        DEF Program, Kernel

LEMMA ControlStep == Control /\ [Next]_vars => Control'
<1> SUFFICES ASSUME Control, [Next]_vars PROVE Control'
  OBVIOUS
<1>1. CASE UNCHANGED vars
  <2> USE <1>1 DEF vars, result, limits, usage, calls, Control
  <2>1. UNCHANGED <<pc, test, res_type, res_elapsed_time, res_max_memory, unread,
                   single_time_limit, memory_limit, sys_call_init, syscall_limits, child, event, cpu, faults, clock,
                   attempts, made>>
    OBVIOUS
  <2> HIDE <1>1
  <2>2. TypeOK'
    BY <2>1 DEF TypeOK
  <2>3. Phases'
    BY <2>1 DEF Phases, Events
  <2> QED BY <2>2, <2>3
<1> QED BY <1>1, ControlTracer, ControlChild DEF Next

\* A problem's limits are what arithmetic needs.
LEMMA LimitsNumbers ==
  ASSUME Control
  PROVE  /\ single_time_limit \in Nat \cup {Unset}
         /\ memory_limit \in Nat \cup {Unset}
         /\ Unset \notin Int
  BY LaunchAssumption DEF Control, TypeOK

LEMMA ControlAlways == Spec => []Control
  BY ControlInit, ControlStep, PTL DEF Spec

-----------------------------------------------------------------------------
(* The system calls that are carried out *)

LEMMA AllowanceInit == Init => Whole /\ Allowance
  BY LaunchAssumption, TablesType
  DEF Init, Whole, Allowance, Spent, PastExec, NoForbiddenCall, NoCalls

\* A call at which the program is stopped is one of Calls.
LEMMA StoppedAtCall ==
  ASSUME Control, child \in {"stopped", "kernel"}, event.kind = "call"
  PROVE  event.call \in Calls /\ event.side \in {"exec", "entry", "exit"}
BY DEF Control, Phases, Events

\* The tracer's steps: Resume takes from the table what the call will spend.
LEMMA AllowanceTracer ==
  ASSUME Control, Whole, Allowance, Begin \/ Tracer
  PROVE  Whole' /\ Allowance'
<1>0. /\ sys_call_init \in [Calls -> Nat \cup {-1}] /\ "execve" \in Calls
      /\ syscall_limits \in [Calls -> Nat \cup {-1}]
      /\ made \in [Calls -> Nat]
  BY LaunchAssumption, TablesType DEF Control, TypeOK
<1> USE <1>0 DEF Whole, Allowance, Spent, PastExec, NoForbiddenCall, result, limits,
                 usage, calls, Leave, Waited, Reported
<1>1. CASE Begin
  BY <1>1 DEF Begin, BeginWith, NoCalls
<1>2. CASE Fork
  BY <1>2 DEF Fork, Control, Phases, NoCalls
<1>3. CASE ForkFails
  BY <1>3 DEF ForkFails, Control, Phases
<1>4. CASE \/ MemoryExceeded \/ TimeExceeded \/ Exited \/ Signalled \/ Forbidden
           \/ StrayRefused
  <2>1. /\ pc = "wait" /\ pc' = "info" /\ child \in {"stopped", "dead"}
        /\ child' \in {"dying", "dead"}
        /\ UNCHANGED <<limits, event, calls>>
    BY <1>4 DEF MemoryExceeded, TimeExceeded, Exited, ExitedThen, Signalled, Forbidden,
       AtCall, StrayRefused, AtStray
  <2> QED BY <2>1
<1>5. CASE Resume
  <2> DEFINE c == event.call
  <2>1. /\ c \in Calls /\ child = "stopped" /\ event.kind = "call"
        /\ event.side \in {"exec", "entry", "exit"}
        /\ pc = "wait"
    BY <1>5, StoppedAtCall
    DEF Resume, ResumeWith, AtCall, Control, Phases
  <2>2. /\ syscall_limits[c] # 0
        /\ syscall_limits' = [syscall_limits EXCEPT ![c] = OneLess(@)]
        /\ child' = IF event.side = "entry" THEN "kernel" ELSE "user"
        /\ UNCHANGED <<pc, event, sys_call_init, attempts, made>>
    BY <1>5 DEF Resume, ResumeWith, LimitsLeft
  <2>3. /\ syscall_limits[c] >= 0 => syscall_limits'[c] = syscall_limits[c] - 1
                                     /\ syscall_limits'[c] >= 0
        /\ syscall_limits[c] = -1 => syscall_limits'[c] = -1
        /\ \A d \in Calls : d # c => syscall_limits'[d] = syscall_limits[d]
    BY <2>1, <2>2 DEF OneLess
  <2>4. Whole'
    BY <2>1, <2>2
  <2>5. /\ \A d \in Calls : sys_call_init[d] = -1 => syscall_limits'[d] = -1
        /\ \A d \in Calls : sys_call_init[d] >= 0 => syscall_limits'[d] >= 0
    BY <2>1, <2>3
  <2>6. ASSUME NEW d \in Calls, sys_call_init[d] >= 0
        PROVE  Spent(d)' + syscall_limits'[d] <= sys_call_init[d]
    <3>1. Spent(d) + syscall_limits[d] <= sys_call_init[d]
      BY <2>1, <2>6
    <3>2. CASE d = c
      <4>1. Spent(d)' <= Spent(d) + 1 /\ Spent(d)' \in Nat /\ Spent(d) \in Nat
        <5>1. CASE event.side = "exec"
          BY <2>1, <2>2, <3>2, <5>1
        <5>2. CASE event.side # "exec"
          BY <2>1, <2>2, <3>2, <5>2
        <5> QED BY <5>1, <5>2
      <4>2. syscall_limits[d] >= 0
        BY <2>1, <2>6
      <4> QED BY <2>1, <2>3, <3>1, <3>2, <4>1, <4>2
    <3>3. CASE d # c
      <4>1. Spent(d)' = Spent(d)
        BY <2>1, <2>2, <3>3
      <4> QED BY <2>3, <3>1, <3>3, <4>1
    <3> QED BY <3>2, <3>3
  <2>7. NoForbiddenCall'
    BY <2>2
  <2> HIDE DEF Spent, Whole, NoForbiddenCall
  <2> QED BY <2>2, <2>4, <2>5, <2>6, <2>7
<1>6. CASE ProcInfo \/ ProcInfoUnread \/ Crash
  <2>1. /\ UNCHANGED <<limits, child, event, calls>>
        /\ pc \in {"wait", "info"} /\ pc' \in {"returned", "crashed"}
    BY <1>6 DEF ProcInfo, ProcInfoUnread, ProcInfoSays, Crash, AtStray
  <2>2. PastExec' = PastExec /\ \A c \in Calls : Spent(c)' = Spent(c)
    BY <2>1
  <2>3. Whole'
    BY <2>1
  <2>4. Allowance'
    BY <2>1, <2>2
  <2> QED BY <2>3, <2>4
<1>7. CASE StrayResumed
  BY <1>7 DEF StrayResumed, AtStray, Control, Phases
<1> QED BY <1>1, <1>2, <1>3, <1>4, <1>5, <1>6, <1>7 DEF Tracer

\* The child's steps: a call that is carried out was resumed at its entry.
LEMMA AllowanceChild ==
  ASSUME Control, Whole, Allowance, Program \/ Kernel \/ AlarmRings
  PROVE  Whole' /\ Allowance'
<1>0. /\ sys_call_init \in [Calls -> Nat \cup {-1}] /\ "execve" \in Calls
      /\ syscall_limits \in [Calls -> Nat \cup {-1}]
      /\ made \in [Calls -> Nat]
      /\ MaxCounted \in Nat
      /\ child \in {"none", "setup", "exec", "user", "kernel", "stopped", "dying", "dead"}
  BY LaunchAssumption, TablesType DEF Control, TypeOK
<1> USE <1>0 DEF Whole, Allowance, Spent, PastExec, NoForbiddenCall, result, limits,
                 usage, calls, Quiet, Becomes
<1>1. CASE Compute \/ Touch \/ Stray
  BY <1>1 DEF Compute, Touch, Stray, Computing
<1>2. ASSUME NEW c \in Calls, EnterCall(c)
      PROVE  Whole' /\ Allowance'
  BY <1>2 DEF EnterCall, Computing
<1>3. CASE CallReturns \/ BlockingCallReturns
  <2> DEFINE c == event.call
  <2>1. /\ c \in Calls /\ event.kind = "call" /\ child = "kernel" /\ child' = "stopped"
        /\ event' = [event EXCEPT !.side = "exit"]
        /\ event \in [kind : {"call"}, call : Calls, side : {"exec", "entry", "exit"}]
        /\ made' = [made EXCEPT ![c] = OneMore(@)]
        /\ pc # "idle"
        /\ UNCHANGED <<pc, limits, attempts>>
    BY <1>3, StoppedAtCall
    DEF CallReturns, BlockingCallReturns, CallReturnsIf, Control, Phases, Events
  <2>2. event'.kind = "call" /\ event'.side = "exit" /\ event'.call = c
    BY <2>1
  <2>3. /\ made'[c] \in Nat /\ made'[c] <= made[c] + 1
        /\ \A d \in Calls : d # c => made'[d] = made[d]
    BY <2>1 DEF OneMore
  <2>4. Whole'
    BY <2>1, <2>2
  <2>5. \A d \in Calls : Spent(d)' <= Spent(d)
    BY <2>1, <2>2, <2>3
  <2>6. \A d \in Calls : Spent(d) \in Nat /\ Spent(d)' \in Nat
    BY <2>1, <2>3
  <2>7. \A d \in Calls : sys_call_init[d] >= 0 => Spent(d)' + syscall_limits'[d] <= sys_call_init[d]
    <3> SUFFICES ASSUME NEW d \in Calls, sys_call_init[d] >= 0
                 PROVE  Spent(d)' + syscall_limits'[d] <= sys_call_init[d]
      OBVIOUS
    <3>1. Spent(d) + syscall_limits[d] <= sys_call_init[d]
      BY <2>1
    <3> HIDE DEF Spent
    <3> QED BY <2>1, <2>5, <2>6, <3>1
  <2>8. \A d \in Calls : sys_call_init[d] >= 0 => made'[d] <= sys_call_init[d]
    <3> SUFFICES ASSUME NEW d \in Calls, sys_call_init[d] >= 0
                 PROVE  made'[d] <= sys_call_init[d]
      OBVIOUS
    <3>1. made'[d] <= Spent(d)'
      BY <2>1, <2>3
    <3>2. syscall_limits'[d] >= 0 /\ syscall_limits'[d] \in Int
      BY <2>1
    <3>3. made'[d] \in Nat
      BY <2>3
    <3> HIDE DEF Spent
    <3> QED BY <2>6, <2>7, <3>1, <3>2, <3>3
  <2> HIDE DEF Spent
  <2> QED BY <2>1, <2>4, <2>7, <2>8
<1>4. CASE Fault              BY <1>4 DEF Fault, Deliver
<1>5. CASE Killed             BY <1>5 DEF Killed
<1>6. CASE SetUp              BY <1>6 DEF SetUp
<1>7. CASE Exec               BY <1>7 DEF Exec
<1>8. CASE ExecFails          BY <1>8 DEF ExecFails
<1>9. CASE ExitGroup          BY <1>9 DEF ExitGroup
<1>10. CASE AlarmStops        BY <1>10 DEF AlarmStops, Deliver
<1>11. CASE SoftLimitStops    BY <1>11 DEF SoftLimitStops, Deliver
<1>12. CASE AlarmRings \/ Dies
  BY <1>12 DEF AlarmRings, Dies
<1> QED BY <1>1, <1>2, <1>3, <1>4, <1>5, <1>6, <1>7, <1>8, <1>9, <1>10, <1>11, <1>12
        DEF Program, Kernel

LEMMA AllowanceStep ==
  Control /\ Whole /\ Allowance /\ [Next]_vars => Whole' /\ Allowance'
<1> SUFFICES ASSUME Control, Whole, Allowance, [Next]_vars PROVE Whole' /\ Allowance'
  OBVIOUS
<1>1. CASE UNCHANGED vars
  BY <1>1 DEF vars, result, limits, usage, calls, Whole, Allowance, Spent, PastExec,
     NoForbiddenCall
<1> QED BY <1>1, AllowanceTracer, AllowanceChild DEF Next

LEMMA AllowanceAlways == Spec => [](Whole /\ Allowance)
  BY AllowanceInit, AllowanceStep, ControlAlways, PTL DEF Spec

-----------------------------------------------------------------------------
(* Condemned for a system call *)

\* The table of lang.cpp names the calls that are always allowed and execve,
\* once, for launch()'s own execl; what it does not name is allowed never.
TableOfC == \A c \in Calls : RF_C[c] <= (IF c = "execve" THEN 1 ELSE 0)

\* The histories count far enough to tell one execve from two.
HistoriesSuffice == MaxCounted >= 2

LEMMA CausesInit == Init => Causes /\ CondemnedWithCause
  BY DEF Init, Causes, PastExec, CondemnedWithCause

LEMMA CausesTracer ==
  ASSUME Control, Whole, Causes, Begin \/ Tracer
  PROVE  Causes'
<1>0. "execve" \in Calls /\ attempts \in [Calls -> Nat] /\ made \in [Calls -> Nat]
  BY LaunchAssumption DEF Control, TypeOK
<1> USE <1>0 DEF Causes, PastExec, result, limits, usage, calls, Leave, Waited, Reported
<1>1. CASE Begin              BY <1>1 DEF Begin, BeginWith
<1>2. CASE Fork               BY <1>2 DEF Fork
<1>3. CASE ForkFails          BY <1>3 DEF ForkFails, Control, Phases
<1>4. CASE \/ MemoryExceeded \/ TimeExceeded \/ Exited \/ Signalled \/ Forbidden
           \/ StrayRefused
  BY <1>4
  DEF MemoryExceeded, TimeExceeded, Exited, ExitedThen, Signalled, Forbidden, AtCall,
      StrayRefused, AtStray
<1>5. CASE Resume
  <2>1. child = "stopped" /\ event.kind = "call"
    BY <1>5 DEF Resume, AtCall, Control, Phases
  <2>2. child' \in {"user", "kernel"} /\ UNCHANGED <<event, attempts, made>>
    BY <1>5 DEF Resume, ResumeWith
  <2>3. event.side \in {"exec", "entry", "exit"}
    BY <2>1, StoppedAtCall
  <2> QED BY <2>1, <2>2, <2>3 DEF Whole
<1>6. CASE ProcInfo \/ ProcInfoUnread \/ Crash
  BY <1>6 DEF ProcInfo, ProcInfoUnread, ProcInfoSays, Crash
<1>7. CASE StrayResumed
  BY <1>7 DEF StrayResumed, AtStray, Control, Phases
<1> QED BY <1>1, <1>2, <1>3, <1>4, <1>5, <1>6, <1>7 DEF Tracer

LEMMA CausesChild ==
  ASSUME HistoriesSuffice, Control, Causes, Program \/ Kernel \/ AlarmRings
  PROVE  Causes'
<1>0. /\ "execve" \in Calls
      /\ attempts \in [Calls -> Nat] /\ made \in [Calls -> Nat]
      /\ MaxCounted \in Nat /\ MaxCounted >= 2
  BY LaunchAssumption DEF Control, TypeOK, HistoriesSuffice
<1> USE <1>0 DEF Causes, PastExec, result, limits, usage, calls, Quiet, Becomes
<1>1. CASE Compute \/ Touch \/ Stray
  BY <1>1 DEF Compute, Touch, Stray, Computing
<1>2. ASSUME NEW c \in Calls, EnterCall(c)
      PROVE  Causes'
  <2>1. /\ child = "user" /\ child' = "stopped"
        /\ event' = [kind |-> "call", call |-> c, side |-> "entry"]
        /\ attempts' = [attempts EXCEPT ![c] = OneMore(@)]
    BY <1>2 DEF EnterCall, Computing
  <2>2. attempts["execve"] >= 1
    BY <2>1
  <2>3. attempts'[c] >= 1 /\ attempts'["execve"] >= 1
    BY <2>1, <2>2 DEF OneMore
  <2>4. c = "execve" => attempts'["execve"] >= 2
    BY <2>1, <2>2 DEF OneMore
  <2> QED BY <2>1, <2>3, <2>4
<1>3. CASE CallReturns \/ BlockingCallReturns
  <2>1. /\ event.call \in Calls /\ event.kind = "call" /\ child = "kernel"
        /\ child' = "stopped"
        /\ event \in [kind : {"call"}, call : Calls, side : {"exec", "entry", "exit"}]
        /\ event' = [event EXCEPT !.side = "exit"]
        /\ made' = [made EXCEPT ![event.call] = OneMore(@)]
        /\ UNCHANGED attempts
    BY <1>3, StoppedAtCall
    DEF CallReturns, BlockingCallReturns, CallReturnsIf, Control, Phases, Events
  <2>2. event'.kind = "call" /\ event'.side = "exit" /\ event'.call = event.call
    BY <2>1
  <2>3. made'[event.call] >= 1
    BY <2>1 DEF OneMore
  <2> QED BY <2>1, <2>2, <2>3
<1>4. CASE Fault              BY <1>4 DEF Fault, Deliver
<1>5. CASE Killed             BY <1>5 DEF Killed
<1>6. CASE SetUp              BY <1>6 DEF SetUp
<1>7. CASE Exec               BY <1>7 DEF Exec, OneMore
<1>8. CASE ExecFails          BY <1>8 DEF ExecFails
<1>9. CASE ExitGroup          BY <1>9 DEF ExitGroup
<1>10. CASE AlarmStops        BY <1>10 DEF AlarmStops, Deliver
<1>11. CASE SoftLimitStops    BY <1>11 DEF SoftLimitStops, Deliver
<1>12. CASE AlarmRings \/ Dies
  BY <1>12 DEF AlarmRings, Dies
<1> QED BY <1>1, <1>2, <1>3, <1>4, <1>5, <1>6, <1>7, <1>8, <1>9, <1>10, <1>11, <1>12
        DEF Program, Kernel

\* The one step that condemns: nothing is left of the table for the call.
LEMMA ForbiddenHasCause ==
  ASSUME TableOfC, Control, Whole, Allowance, Causes, Forbidden
  PROVE  CondemnedWithCause'
<1> DEFINE c == event.call
<1>1. /\ pc = "wait" /\ child = "stopped" /\ event.kind = "call"
      /\ c \in Calls /\ event.side \in {"exec", "entry", "exit"}
      /\ syscall_limits[c] = 0
      /\ UNCHANGED <<event, attempts>>
  BY StoppedAtCall
  DEF Forbidden, AtCall, Reported, Waited, Leave, calls, Control, Phases
<1>2. /\ sys_call_init \in [Calls -> Nat \cup {-1}] /\ "execve" \in Calls
      /\ made \in [Calls -> Nat] /\ attempts \in [Calls -> Nat]
  BY LaunchAssumption, TablesType DEF Control, TypeOK
<1>3. attempts[c] >= 1
  BY <1>1 DEF Causes
<1>4. CASE c \in Leftover
  <2>1. RF_C[c] = 0
    BY <1>4, LaunchAssumption
  <2> QED BY <1>1, <1>2, <1>3, <2>1 DEF CondemnedWithCause
<1>5. CASE c \notin Leftover
  <2>0. RF_C[c] = sys_call_init[c]
    BY <1>1, <1>5, TablesType DEF Control, TypeOK
  <2>1. RF_C[c] >= 0
    BY <1>1, <1>2, <2>0 DEF Allowance
  <2>2. RF_C[c] <= 1 /\ (c # "execve" => RF_C[c] = 0)
    BY <1>1, <1>2, <2>0, <2>1 DEF TableOfC
  <2>3. Spent(c) <= RF_C[c]
    BY <1>1, <1>2, <2>0, <2>1 DEF Allowance, Spent
  <2>4. attempts[c] > RF_C[c]
    <3>1. CASE event.side = "exec"
      BY <1>1, <1>2, <1>3, <2>0, <3>1 DEF Whole
    <3>2. CASE event.side = "entry"
      <4>1. c = "execve" => attempts[c] >= 2
        BY <1>1, <3>2 DEF Causes
      <4>2. CASE c = "execve"
        BY <1>2, <2>0, <2>2, <4>1, <4>2
      <4>3. CASE c # "execve"
        BY <1>1, <1>2, <1>3, <2>0, <2>2, <4>3
      <4> QED BY <4>2, <4>3
    <3>3. CASE event.side = "exit"
      <4>1. made[c] >= 1
        BY <1>1, <3>3 DEF Causes
      <4>2. PastExec
        BY <1>1, <3>3 DEF PastExec
      <4>3. Spent(c) > RF_C[c]
        BY <1>1, <1>2, <2>0, <2>1, <2>2, <4>1, <4>2 DEF Spent
      <4> QED BY <1>1, <1>2, <2>0, <2>1, <2>3, <4>3 DEF Spent
    <3> QED BY <1>1, <3>1, <3>2, <3>3
  <2> QED BY <1>1, <2>1, <2>4 DEF CondemnedWithCause
<1> QED BY <1>4, <1>5

\* No signal is taken for a system call.
LEMMA SignalsAreNoCalls == \A signal : VerdictOf(signal) # "IllegalSystemCall"
  BY DEF VerdictOf

\* As long as the child has something to do the tracer waits.
LEMMA ChildAtWork ==
  ASSUME Control, Program \/ Kernel, ~Dies
  PROVE  pc = "wait" /\ Quiet
<1>1. child \in {"setup", "exec", "user", "kernel"} /\ Quiet
  BY DEF Program, Kernel, Compute, Touch, Stray, Computing, EnterCall, CallReturns,
         BlockingCallReturns, CallReturnsIf, Fault, Killed, Deliver, SetUp,
         Exec, ExecFails, ExitGroup, AlarmStops, SoftLimitStops, Becomes
<1> QED BY <1>1 DEF Control, Phases

LEMMA CausesStep ==
  ASSUME TableOfC, HistoriesSuffice
  PROVE  Control /\ Whole /\ Allowance /\ Causes /\ CondemnedWithCause /\ [Next]_vars
           => Causes' /\ CondemnedWithCause'
<1> SUFFICES ASSUME Control, Whole, Allowance, Causes, CondemnedWithCause, [Next]_vars
             PROVE  Causes' /\ CondemnedWithCause'
  OBVIOUS
<1>1. CASE UNCHANGED vars
  BY <1>1 DEF vars, result, limits, usage, calls, Causes, PastExec, CondemnedWithCause
<1>2. CASE Begin \/ Tracer
  <2> Causes'
    BY <1>2, CausesTracer
  <2>1. CASE Forbidden
    BY <2>1, ForbiddenHasCause
  <2>2. CASE ~Forbidden /\ ~StrayRefused
    <3>1. CASE \/ Begin \/ MemoryExceeded \/ TimeExceeded \/ Exited \/ Signalled
      <4>1. res_type' # "IllegalSystemCall"
        BY <3>1, SignalsAreNoCalls
        DEF Begin, BeginWith, MemoryExceeded, TimeExceeded, Exited, ExitedThen, Signalled,
            Leave
      <4> QED BY <4>1 DEF CondemnedWithCause
    <3>2. CASE \/ Fork \/ ForkFails \/ Resume \/ StrayResumed
               \/ ProcInfo \/ ProcInfoUnread \/ Crash
      <4>1. /\ res_type' = "IllegalSystemCall" => res_type = "IllegalSystemCall"
            /\ UNCHANGED <<event, attempts>>
        BY <3>2 
        DEF Fork, ForkFails, Resume, ResumeWith, StrayResumed, ProcInfo, ProcInfoUnread,
            ProcInfoSays, Crash, result, calls
      <4> QED BY <4>1 DEF CondemnedWithCause
    <3> QED BY <1>2, <2>2, <3>1, <3>2 DEF Tracer
  <2>3. CASE StrayRefused
    <3>1. event'.kind = "stray"
      BY <2>3 DEF StrayRefused, AtStray, Reported, Leave
    <3> QED BY <3>1 DEF CondemnedWithCause
  <2> QED BY <2>1, <2>2, <2>3
<1>3. CASE Program \/ Kernel \/ AlarmRings
  <2>1. CASE Dies
    BY <1>3, <2>1, CausesChild
    DEF Dies, Quiet, result, calls, CondemnedWithCause
  <2>2. CASE AlarmRings
    BY <1>3, <2>2, CausesChild
    DEF AlarmRings, Quiet, result, calls, CondemnedWithCause
  <2>3. CASE ~Dies /\ ~AlarmRings
    <3>1. pc = "wait" /\ UNCHANGED result
      BY <1>3, <2>3, ChildAtWork DEF Quiet
    <3>2. res_type' = "Init"
      BY <3>1 DEF result, Control, Phases
    <3> QED BY <1>3, <3>2, CausesChild DEF CondemnedWithCause
  <2> QED BY <2>1, <2>2, <2>3
<1> QED BY <1>1, <1>2, <1>3 DEF Next

-----------------------------------------------------------------------------
(* The limits *)

\* launch()'s own comparison, in ms from 1 on, is the one with the user's limit.
LEMMA OverTimeIsTooLong ==
  ASSUME cpu \in Nat, single_time_limit \in Nat \cup {Unset}
  PROVE  OverTime <=> TooLong
BY LaunchAssumption DEF OverTime, TooLong, get_rl_cpu_millisecond, AtLeastOne

\* Who meets the soft limit, in whole seconds, has used more than the limit in ms.
LEMMA SoftLimitIsTooLong ==
  ASSUME cpu \in Nat, single_time_limit \in Nat, cpu >= SoftLimit
  PROVE  TooLong
<1> DEFINE q == single_time_limit \div SECOND
           r == single_time_limit % SECOND
<1>1. /\ single_time_limit \in Nat /\ single_time_limit # Unset
      /\ SECOND \in Nat /\ SECOND >= 2
  BY LaunchAssumption
<1>2. /\ q \in Nat /\ r \in 0..(SECOND - 1) /\ single_time_limit = SECOND * q + r
  BY <1>1
<1>3. PICK up \in {0, 1} : Seconds(single_time_limit) = q + up
  BY <1>2 DEF Seconds
<1> HIDE DEF q, r
<1>4. SoftLimit = SECOND * q + SECOND * (up + 1)
  BY <1>1, <1>2, <1>3 DEF SoftLimit
<1>5. SECOND * (up + 1) >= SECOND
  BY <1>1, <1>3
<1>6. SECOND * q \in Nat /\ SECOND * (up + 1) \in Nat
  BY <1>1, <1>2, <1>3
<1> QED BY <1>1, <1>2, <1>4, <1>5, <1>6 DEF TooLong

LEMMA LimitsInit == Init => Limits /\ Reasons
<1> SUFFICES ASSUME Init PROVE Limits /\ Reasons
  OBVIOUS
<1>1. pc = "idle" /\ clock = "off" /\ event.kind = "none"
  BY DEF Init
<1> QED BY <1>1 DEF Limits, Reasons, Done

LEMMA LimitsStep == Control /\ Limits /\ [Next]_vars => Limits'
<1> SUFFICES ASSUME Control, Limits, [Next]_vars PROVE Limits'
  OBVIOUS
<1>0. UNCHANGED <<single_time_limit, memory_limit>>
  BY LimitsStay
<1>1. /\ Memory \in Nat /\ res_max_memory \in Nat
      /\ memory_limit \in Nat \cup {Unset} /\ Unset \notin Int
  BY MemoryType, LimitsNumbers DEF Control, TypeOK
<1>2. UNCHANGED faults => UNCHANGED Memory
  BY DEF Memory
<1>3. UNCHANGED cpu => UNCHANGED TooLong
  BY <1>0 DEF TooLong
<1> USE <1>0, <1>1, <1>2, <1>3 DEF Limits, Done, TooMuch, result, usage, calls
<1> HIDE DEF Memory, TooLong
<1>4. CASE UNCHANGED vars
  BY <1>4 DEF vars
<1>5. CASE Begin
  BY <1>5 DEF Begin, BeginWith
<1>6. CASE Fork \/ ForkFails \/ Crash
  BY <1>6 DEF Fork, ForkFails, Crash
<1>7. CASE LeavesLoop
  <2>1. /\ pc = "wait" /\ pc' = "info" /\ res_max_memory' = MemoryNow
        /\ UNCHANGED <<cpu, faults, unread>>
    BY <1>7
    DEF LeavesLoop, MemoryExceeded, TimeExceeded, Exited, ExitedThen, Signalled,
        Forbidden, AtCall, StrayRefused, AtStray, Reported, Waited, Leave
  <2>2. memory_limit # Unset => (MemoryNow > memory_limit <=> Memory > memory_limit)
    BY <2>1 DEF MemoryNow
  <2>3. \/ OverMemory /\ res_type' = "MemoryLimitExceed"
        \/ ~OverMemory /\ OverTime /\ res_type' = "TimeLimitExceed"
        \/ ~OverMemory /\ ~OverTime
    BY <1>7
    DEF LeavesLoop, MemoryExceeded, TimeExceeded, Exited, ExitedThen, Signalled,
        Forbidden, AtCall, StrayRefused, AtStray, Leave
  <2>4. MemoryNow \in Nat
    BY DEF MemoryNow
  <2>5. OverTime <=> TooLong
    BY OverTimeIsTooLong, LimitsNumbers DEF Control, TypeOK
  <2> QED BY <2>1, <2>2, <2>3, <2>4, <2>5 DEF OverMemory
<1>8. CASE Resume \/ StrayResumed
  <2>1. pc = "wait" /\ pc' = "wait" /\ res_max_memory' = MemoryNow /\ ~OverMemory
    BY <1>8
    DEF Resume, ResumeWith, StrayResumed, AtCall, AtStray, Reported, Waited
  <2>2. MemoryNow \in Nat
    BY DEF MemoryNow
  <2> QED BY <2>1, <2>2 DEF OverMemory
<1>9. CASE ProcInfo
  <2>1. /\ pc = "info" /\ pc' = "returned" /\ res_max_memory' = res_max_memory
        /\ res_type' = IF memory_limit # Unset /\ res_max_memory > memory_limit
                       THEN "MemoryLimitExceed" ELSE res_type
        /\ UNCHANGED <<cpu, faults, unread>>
    BY <1>9 DEF ProcInfo, ProcInfoSays
  <2> QED BY <2>1
<1>10. CASE ProcInfoUnread
  <2>1. /\ pc = "info" /\ pc' = "returned" /\ unread' = TRUE
        /\ res_type' \in {"MemoryLimitExceed", res_type}
        /\ UNCHANGED <<cpu, faults>>
    BY <1>10 DEF ProcInfoUnread, ProcInfoSays
  <2> QED BY <2>1
<1>11. CASE Program \/ Kernel \/ AlarmRings
  <2>1. CASE Dies \/ AlarmRings
    BY <2>1 DEF Dies, AlarmRings, Quiet
  <2>2. CASE ~Dies /\ ~AlarmRings
    <3>1. pc = "wait" /\ UNCHANGED <<pc, result>>
      BY <1>11, <2>2, ChildAtWork DEF Quiet
    <3> QED BY <3>1
  <2> QED BY <2>1, <2>2
<1> QED BY <1>4, <1>5, <1>6, <1>7, <1>8, <1>9, <1>10, <1>11
        DEF Next, Tracer, LeavesLoop

\* A reason that was there once stays, while the child's last event does.
LEMMA OutOfTimeStays ==
  ASSUME Control, OutOfTime, cpu' \in Nat, cpu' >= cpu,
         clock = "rung" => clock' = "rung", UNCHANGED <<event, single_time_limit>>
  PROVE  OutOfTime'
<1>1. cpu \in Nat /\ single_time_limit \in Nat \cup {Unset}
  BY LimitsNumbers DEF Control, TypeOK
<1>2. TooLong => TooLong'
  BY <1>1 DEF TooLong
<1> QED BY <1>2 DEF OutOfTime

LEMMA ReasonsTracer ==
  ASSUME Control, Limits, Reasons, Begin \/ Tracer
  PROVE  Reasons'
<1>0. /\ UNCHANGED <<single_time_limit, memory_limit>>
      /\ event \in Events /\ cpu \in Nat
      /\ Memory \in Nat /\ res_max_memory \in Nat
      /\ single_time_limit \in Nat \cup {Unset}
      /\ memory_limit \in Nat \cup {Unset} /\ Unset \notin Int
  <2>1. UNCHANGED <<single_time_limit, memory_limit>>
    BY LimitsStay DEF Next
  <2>2. faults \in Nat
    BY LaunchAssumption DEF Control, TypeOK
  <2> QED BY <2>1, <2>2, MemoryType, LimitsNumbers DEF Control, TypeOK, Phases
<1> USE <1>0 DEF Reasons, Done, result, usage, calls
<1> HIDE DEF Memory
<1>1. CASE Begin
  BY <1>1 DEF Begin, BeginWith
<1>2. ASSUME UNCHANGED <<event, usage, clock>>
      PROVE  UNCHANGED <<OutOfTime, TooMuch, event.kind, event.signal>>
  BY <1>2 DEF OutOfTime, TooLong, TooMuch, Memory
<1>3. CASE Fork \/ ForkFails \/ Crash \/ Resume \/ StrayResumed
  <2>1. /\ UNCHANGED <<event, usage, clock>>
        /\ pc' \in {"wait", "crashed"} \/ (pc' = "returned" /\ res_type' = "SystemError")
    BY <1>3
    DEF Fork, ForkFails, Crash, Resume, ResumeWith, StrayResumed, AtCall, AtStray,
        Reported, Waited
  <2> QED BY <1>2, <2>1
<1>4. CASE LeavesLoop
  <2>1. /\ UNCHANGED <<event, usage, clock>> /\ pc = "wait" /\ pc' = "info"
    BY <1>4
    DEF LeavesLoop, MemoryExceeded, TimeExceeded, Exited, ExitedThen, Signalled,
        Forbidden, AtCall, StrayRefused, AtStray, Reported, Waited, Leave
  <2>2. ASSUME res_type' = "MemoryLimitExceed"
        PROVE  memory_limit # Unset /\ TooMuch
    <3>1. OverMemory
      BY <1>4, <2>2
      DEF LeavesLoop, MemoryExceeded, TimeExceeded, Exited, ExitedThen, Signalled,
          Forbidden, AtCall, StrayRefused, AtStray, Leave, VerdictOf
    <3> QED BY <2>1, <3>1 DEF OverMemory, MemoryNow, Limits, TooMuch
  <2>3. ASSUME res_type' = "TimeLimitExceed"
        PROVE  OutOfTime
    <3>1. CASE OverTime
      BY <3>1, OverTimeIsTooLong DEF OutOfTime
    <3>2. CASE ~OverTime
      <4>1. Signalled /\ VerdictOf(event.signal) = "TimeLimitExceed"
        BY <1>4, <2>3, <3>2
        DEF LeavesLoop, MemoryExceeded, TimeExceeded, Exited, ExitedThen, Signalled,
            Forbidden, AtCall, StrayRefused, AtStray, Leave
      <4>2. event.kind \in {"stop", "signal"} /\ event.signal \in Signals
        BY <4>1 DEF Signalled, Reported, Events
      <4>3. event.signal \in {"SIGALRM", "SIGXCPU", "SIGKILL"}
        BY <4>1, <4>2 DEF VerdictOf, Signals
      <4> QED BY <4>2, <4>3
    <3> QED BY <3>1, <3>2
  <2> QED BY <1>2, <2>1, <2>2, <2>3
<1>5. CASE ProcInfo
  <2>1. /\ pc = "info" /\ pc' = "returned" /\ UNCHANGED <<event, usage, clock, unread>>
        /\ res_type' = IF memory_limit # Unset /\ res_max_memory > memory_limit
                       THEN "MemoryLimitExceed" ELSE res_type
    BY <1>5 DEF ProcInfo, ProcInfoSays
  <2>2. memory_limit # Unset /\ res_max_memory > memory_limit => TooMuch
    BY <2>1 DEF Limits
  <2> QED BY <1>2, <2>1, <2>2
<1>6. CASE ProcInfoUnread
  <2>1. /\ pc = "info" /\ pc' = "returned" /\ UNCHANGED <<event, usage, clock>>
        /\ unread' = TRUE
        /\ \/ memory_limit # Unset /\ res_type' = "MemoryLimitExceed"
           \/ res_type' = res_type
    BY <1>6 DEF ProcInfoUnread, ProcInfoSays
  <2> QED BY <1>2, <2>1
<1> QED BY <1>1, <1>3, <1>4, <1>5, <1>6 DEF Tracer, LeavesLoop

LEMMA ReasonsChild ==
  ASSUME Control, Reasons, Program \/ Kernel \/ AlarmRings
  PROVE  Reasons'
<1>0. /\ event \in Events /\ cpu \in Nat
      /\ clock \in {"off", "set", "rung"}
      /\ single_time_limit \in Nat \cup {Unset}
      /\ UNCHANGED <<single_time_limit, memory_limit>>
  BY LimitsNumbers, LimitsStay DEF Control, TypeOK, Phases, Next
<1> USE <1>0 DEF Reasons, result, usage, calls, Quiet, Becomes
<1>1. CASE Dies \/ AlarmRings
  <2>1. /\ UNCHANGED <<pc, result, event, usage>>
        /\ clock = "rung" => clock' = "rung"
        /\ clock' # "off" => clock # "off"
    BY <1>1 DEF Dies, AlarmRings
  <2>2. UNCHANGED TooMuch
    BY <2>1 DEF TooMuch, Memory
  <2> QED BY <2>1, <2>2, OutOfTimeStays DEF Done
<1>2. CASE ~Dies /\ ~AlarmRings
  <2>1. pc = "wait" /\ pc' = "wait"
    BY <1>2, ChildAtWork
  <2>2. clock' # "off" => single_time_limit # Unset
    BY <1>2
    DEF Program, Kernel, Compute, Touch, Stray, EnterCall, CallReturns,
        BlockingCallReturns, CallReturnsIf, Fault, Killed, Deliver, SetUp,
        Exec, ExecFails, ExitGroup, AlarmStops, SoftLimitStops, get_rl_cpu_second
  <2>3. ASSUME event'.kind \in {"stop", "signal"},
               event'.signal \in {"SIGALRM", "SIGXCPU", "SIGKILL"}
        PROVE  OutOfTime'
    <3>1. CASE Compute \/ Touch
      <4>1. cpu' \in Nat /\ cpu' >= cpu /\ UNCHANGED <<event, clock>>
        BY <3>1 DEF Compute, Touch, Computing
      <4> QED BY <2>3, <4>1, OutOfTimeStays
    <3>0. CASE SetUp
      BY <2>3, <3>0 DEF SetUp, Control, Phases
    <3>2. CASE Killed
      BY <3>2 DEF Killed, OutOfTime
    <3>3. CASE AlarmStops
      BY <3>3 DEF AlarmStops, Deliver, OutOfTime
    <3>4. CASE SoftLimitStops
      <4>1. TooLong
        BY <3>4, SoftLimitIsTooLong DEF SoftLimitStops
      <4>2. UNCHANGED cpu
        BY <3>4 DEF SoftLimitStops, Deliver
      <4> QED BY <4>1, <4>2 DEF OutOfTime, TooLong
    <3>5. CASE Fault
      BY <2>3, <3>5 DEF Fault, Deliver
    <3>6. CASE \/ Stray \/ (\E c \in Calls : EnterCall(c)) \/ CallReturns
               \/ BlockingCallReturns \/ Exec \/ ExecFails \/ ExitGroup
      <4>1. event'.kind \in {"call", "stray", "exit"}
        BY <3>6
        DEF Stray, EnterCall, CallReturns, BlockingCallReturns, CallReturnsIf, Exec,
            ExecFails, ExitGroup, Control, Phases, Events
      <4> QED BY <2>3, <4>1
    <3> QED BY <1>2, <3>0, <3>1, <3>2, <3>3, <3>4, <3>5, <3>6 DEF Program, Kernel
  <2> QED BY <2>1, <2>2, <2>3 DEF Done
<1> QED BY <1>1, <1>2

LEMMA LimitsAlways == Spec => [](Limits /\ Reasons)
<1>1. Control /\ Limits /\ Reasons /\ [Next]_vars => Reasons'
  <2> SUFFICES ASSUME Control, Limits, Reasons, [Next]_vars PROVE Reasons'
    OBVIOUS
  <2>1. CASE UNCHANGED vars
    BY <2>1
    DEF vars, result, limits, usage, Reasons, Done, OutOfTime, TooLong, TooMuch, Memory
  <2> QED BY <2>1, ReasonsTracer, ReasonsChild DEF Next
<1> QED BY <1>1, LimitsInit, LimitsStep, ControlAlways, PTL DEF Spec

-----------------------------------------------------------------------------
(* The theorems *)

\* Type correctness of launch()'s locals and of the child, whatever the program
\* does and whenever the kernel interrupts it.
THEOREM LaunchTypeCorrect == Spec => []TypeOK
  BY ControlAlways, PTL DEF Control

\* The check of the table at each stop keeps the kernel from carrying out a call
\* more often than the table allows, for any table and any sequence of calls, and
\* of stops that are none.
THEOREM TheTableIsKept == Spec => []NoForbiddenCall
  BY AllowanceAlways, PTL DEF Allowance

\* With the counts that lang.cpp lists, and whatever malloc left where nothing is
\* listed, the verdict IllegalSystemCall has a cause: every call takes two of the
\* times it is allowed, at its entry and at its exit, but none is listed with a
\* number of times except execve, with the one that launch() makes itself.  The
\* cause may be a trap or a number outside the table, as the property says.
THEOREM CondemnedJustly ==
  ASSUME TableOfC, HistoriesSuffice
  PROVE  Spec => []CondemnedWithCause
  BY CausesInit, CausesStep, ControlAlways, AllowanceAlways, PTL DEF Spec

\* Memory is compared before time, and both before the exit status and the
\* signal, at every turn of the loop and once more behind it: no verdict of a
\* finished launch hides a limit that was exceeded, be the limit positive, 0 or
\* not set.
THEOREM LimitsComeFirst == Spec => []LimitsDecideFirst
<1>1. Limits => LimitsDecideFirst
  BY DEF Limits, LimitsDecideFirst
<1> QED BY <1>1, LimitsAlways, PTL

\* No program is condemned for a limit it kept, nor for one that is not set:
\* neither by launch()'s comparisons nor by the signals that RLIMIT_CPU and the
\* alarm send, in seconds rounded up.
THEOREM LimitsAreFair == Spec => []LimitsHaveCause
<1>1. Reasons => LimitsHaveCause
  BY DEF Reasons, LimitsHaveCause, OutOfTime
<1> QED BY <1>1, LimitsAlways, PTL
=============================================================================
