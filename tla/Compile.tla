------------------------------- MODULE Compile ------------------------------
(***************************************************************************)
(* LangCDebug::compile of lang.cpp, run by several workers of one process: *)
(* a compiler's stderr comes back through a pipe, which the worker reads   *)
(* only after it has waited for the compiler.  Descriptors are inherited   *)
(* by whatever child any worker forks in the meantime: another compiler,   *)
(* a program being judged, a shell command.                                *)
(***************************************************************************)
EXTENDS Naturals, FiniteSets

CONSTANTS Workers,
          PIPE_CAPACITY,    \* what a pipe holds, in chunks of output
          MaxOutput,        \* bound: the most a compiler writes, in chunks
          MaxDescriptors    \* what the process may still open

ASSUME CompileAssumption ==
    /\ IsFiniteSet(Workers)
    /\ {PIPE_CAPACITY, MaxOutput, MaxDescriptors} \subseteq Nat

VARIABLES
    pc,           \* where each worker is
    res,          \* the outcome of each worker's last compile(); the first
                  \* three are NojRes_SystemError
    res_content,  \* how much of the compiler's output it holds
    writing,      \* the workers whose fd[1] is open in this process
    pipe,         \* what is in each worker's pipe
    child,        \* each worker's child
    output,       \* how much each compiler has to say
    written,      \* and how much it has said
    inherited,    \* for each pipe, the children with its write end open
    descriptors   \* how many descriptors are open in this process

io   == <<writing, pipe, inherited, descriptors>>
proc == <<child, output, written>>
vars == <<pc, res, res_content, io, proc>>

Init ==
    /\ pc = [w \in Workers |-> "idle"]
    /\ res = [w \in Workers |-> "Init"]
    /\ res_content = [w \in Workers |-> 0]
    /\ writing = {}
    /\ pipe = [w \in Workers |-> 0]
    /\ child = [w \in Workers |-> "none"]
    /\ output = [w \in Workers |-> 0] /\ written = [w \in Workers |-> 0]
    /\ inherited = [w \in Workers |-> {}]
    /\ descriptors = 0

Goto(w, from, to) == pc[w] = from /\ pc' = [pc EXCEPT ![w] = to]

Return(w, from, type) ==
    /\ Goto(w, from, "returned")
    /\ res' = [res EXCEPT ![w] = type]

-----------------------------------------------------------------------------
(* The worker *)

\* A new Result; the script's path is looked up and may not be configured.
Begin(w) ==
    /\ Goto(w, "idle", "pipe")
    /\ res' = [res EXCEPT ![w] = "Init"]
    /\ res_content' = [res_content EXCEPT ![w] = 0]
    /\ UNCHANGED <<io, proc>>
NoScript(w) == Return(w, "pipe", "NoScript") /\ UNCHANGED <<res_content, io, proc>>

OpenPipe(w) ==
    /\ Goto(w, "pipe", "fork")
    /\ descriptors + 2 <= MaxDescriptors
    /\ descriptors' = descriptors + 2
    /\ writing' = writing \cup {w}
    /\ pipe' = [pipe EXCEPT ![w] = 0]
    /\ inherited' = [inherited EXCEPT ![w] = {}]
    /\ UNCHANGED <<res, res_content, proc>>
NoPipe(w) ==
    /\ descriptors + 2 > MaxDescriptors
    /\ Return(w, "pipe", "NoPipe") /\ UNCHANGED <<res_content, io, proc>>

\* fork: the child of w inherits every descriptor that is open here.
Inherit(w) == [v \in Workers |->
    IF v \in writing THEN inherited[v] \cup {w} ELSE inherited[v]]

Fork(w) ==
    /\ Goto(w, "fork", "close")
    /\ child' = [child EXCEPT ![w] = "compiling"]
    /\ \E n \in 0..MaxOutput : output' = [output EXCEPT ![w] = n]
    /\ written' = [written EXCEPT ![w] = 0]
    /\ inherited' = Inherit(w)
    /\ UNCHANGED <<res, res_content, writing, pipe, descriptors>>

\* A fork that fails leaves both ends of the pipe open.
NoFork(w) ==
    /\ Return(w, "fork", "NoFork")
    /\ UNCHANGED <<res_content, io, proc>>

\* Mutant: fd[1] stays open in the worker.
KeepWriteEnd(w) == Goto(w, "close", "wait") /\ UNCHANGED <<res, res_content, io, proc>>

CloseWriteEnd(w) ==
    /\ Goto(w, "close", "wait")
    /\ writing' = writing \ {w}
    /\ descriptors' = descriptors - 1
    /\ UNCHANGED <<res, res_content, pipe, inherited, proc>>

\* waitpid; what a compiler that succeeded has written is not read.
WaitPassed(w) ==
    /\ child[w] = "passed"
    /\ Return(w, "wait", "CompilePass")
    /\ child' = [child EXCEPT ![w] = "none"]
    /\ UNCHANGED <<res_content, io, output, written>>
WaitFailed(w) ==
    /\ child[w] = "failed"
    /\ Goto(w, "wait", "read")
    /\ child' = [child EXCEPT ![w] = "none"]
    /\ UNCHANGED <<res, res_content, io, output, written>>

\* Each read takes part of what is there, up to the length of buf ...  A read
\* that fails would pass for a long one, its -1 being kept in a size_t; NOJ
\* handles no signal that could interrupt it, and the pipe is its own.
ReadThen(w, next) ==
    /\ Goto(w, "read", next)
    /\ \E n \in 1..pipe[w] :
          /\ pipe' = [pipe EXCEPT ![w] = @ - n]
          /\ res_content' = [res_content EXCEPT ![w] = @ + n]
    /\ UNCHANGED <<writing, inherited, descriptors, proc>>

\* Mutant: one read instead of a loop.
ReadOnce(w) ==
    /\ ReadThen(w, "returned")
    /\ res' = [res EXCEPT ![w] = "CompileError"]

Read(w) == ReadThen(w, "read") /\ UNCHANGED res

\* ... until the pipe is empty and its last write end closed.  fd[0] stays open.
EndOfFile(w) ==
    /\ pipe[w] = 0 /\ w \notin writing /\ inherited[w] = {}
    /\ Return(w, "read", "CompileError")
    /\ UNCHANGED <<res_content, io, proc>>

\* The worker goes on and comes back with another submission ...
Again(w) == Goto(w, "returned", "idle") /\ UNCHANGED <<res, res_content, io, proc>>

\* ... or forks some other child, waits for it, and forgets it.
ForkOther(w) ==
    /\ Goto(w, "idle", "other")
    /\ child' = [child EXCEPT ![w] = "running"]
    /\ inherited' = Inherit(w)
    /\ UNCHANGED <<res, res_content, writing, pipe, descriptors, output, written>>
WaitOther(w) ==
    /\ child[w] = "passed"
    /\ Goto(w, "other", "idle")
    /\ child' = [child EXCEPT ![w] = "none"]
    /\ UNCHANGED <<res, res_content, io, output, written>>

-----------------------------------------------------------------------------
(* The children *)

\* The kernel makes a compiler wait while its pipe is full.
Write(w) ==
    /\ child[w] = "compiling" /\ written[w] < output[w]
    /\ pipe[w] < PIPE_CAPACITY
    /\ pipe' = [pipe EXCEPT ![w] = @ + 1]
    /\ written' = [written EXCEPT ![w] = @ + 1]
    /\ UNCHANGED <<pc, res, res_content, writing, inherited, descriptors, child, output>>

\* A child ends, by itself or at one of its limits; its descriptors are closed.
Ends(w, how) ==
    /\ child' = [child EXCEPT ![w] = how]
    /\ inherited' = [v \in Workers |-> inherited[v] \ {w}]
    /\ UNCHANGED <<pc, res, res_content, writing, pipe, descriptors, output, written>>

CompilerEnds(w) ==
    /\ child[w] = "compiling" /\ written[w] = output[w]
    /\ \E how \in {"passed", "failed"} : Ends(w, how)
OtherEnds(w) == child[w] = "running" /\ Ends(w, "passed")

-----------------------------------------------------------------------------
CompileCall(w) ==
    \/ NoScript(w) \/ OpenPipe(w) \/ NoPipe(w) \/ Fork(w) \/ NoFork(w)
    \/ CloseWriteEnd(w) \/ WaitPassed(w) \/ WaitFailed(w) \/ Read(w) \/ EndOfFile(w)

Child(w) == Write(w) \/ CompilerEnds(w) \/ OtherEnds(w)

Next ==
    \E w \in Workers :
        \/ Begin(w) \/ CompileCall(w) \/ Again(w) \/ ForkOther(w) \/ WaitOther(w)
        \/ Child(w)

Spec == Init /\ [][Next]_vars

\* Threads and processes that can go on do; nobody has to begin anything.
FairSpec ==
    Spec /\ \A w \in Workers : WF_vars(CompileCall(w)) /\ WF_vars(Child(w))

-----------------------------------------------------------------------------
(* Properties *)

\* The shape of compile()'s locals, of the pipes and of the children.
TypeOK ==
    /\ pc \in [Workers -> {"idle", "pipe", "fork", "close", "wait", "read",
                           "returned", "other"}]
    /\ res \in [Workers -> {"Init", "NoScript", "NoPipe", "NoFork", "CompilePass",
                            "CompileError"}]
    /\ res_content \in [Workers -> 0..MaxOutput]
    /\ writing \subseteq Workers
    /\ pipe \in [Workers -> 0..PIPE_CAPACITY]
    /\ child \in [Workers -> {"none", "compiling", "running", "passed", "failed"}]
    /\ output \in [Workers -> 0..MaxOutput] /\ written \in [Workers -> 0..MaxOutput]
    /\ inherited \in [Workers -> SUBSET Workers]
    /\ descriptors \in 0..MaxDescriptors

\* With CompileError comes all the compiler had to say, whoever else forked
\* while the pipe was open.
DiagnosticsWhole ==
    \A w \in Workers :
        pc[w] = "returned" /\ res[w] = "CompileError" => res_content[w] = output[w]

\* compile() returns, if no compiler anywhere writes more than a pipe holds; one
\* that does waits for its worker, which waits for it, and keeps open whatever
\* write ends of other workers' pipes it has inherited.
CompileReturns ==
    \A w \in Workers :
        pc[w] = "fork" ~> (pc[w] = "returned" \/ \E v \in Workers : output[v] > PIPE_CAPACITY)
=============================================================================
