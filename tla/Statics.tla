------------------------------- MODULE Statics -------------------------------
(***************************************************************************)
(* What the workers share without a lock: the table of system-call limits, *)
(* which the first launch builds (lang.cpp); the name of the directory for *)
(* outputs, which the first wrong answer builds, and the number of the     *)
(* next output (judge.cpp).  Each read and write of shared memory is a     *)
(* step.  A race is undefined: in the debug build every use of a shared    *)
(* variable reads it anew, in the release build a function may go on with  *)
(* the value it has in a register.                                         *)
(***************************************************************************)
EXTENDS Integers, Sequences

CONSTANTS Workers,
          Calls,        \* some system calls
          LowCalls,     \* those numbered below 128
          RF_C,         \* the table: a sequence of records [call, limit]
          NULL,
          Junk,         \* what malloc leaves in a block
          MaxLaunches,  \* bound: launches of a worker
          MaxOutputs    \* bound: outputs of a worker's submission

ASSUME StaticsAssumption ==
    /\ LowCalls \subseteq Calls
    /\ RF_C \in Seq([call : Calls, limit : Int])
    /\ \A m, n \in 1..Len(RF_C) : RF_C[m].call = RF_C[n].call => m = n
    /\ NULL \notin Workers /\ Junk \notin Int
    /\ MaxLaunches \in Nat /\ MaxOutputs \in Nat

VARIABLES
    debug,          \* which build this is
    pc,
    register,       \* a worker's own copy of the pointer it is using
    sys_call_init,  \* the table: NULL, or the worker that allocated it
    heap,           \* the table each worker allocated
    i,              \* where in RF_C the loop is
    syscall_limits, \* rl.syscall_limits of the launch
    todo,           \* the entries memcpy has yet to copy
    launches,
    output_dir,     \* the string: NULL, or the worker that allocated it
    written,        \* the workers whose string has been printed into
    dir,            \* what get_output_dir returned
    count,          \* static count of get_result_count
    sum,            \* what a worker is about to store there
    outputs,        \* the names of a submission's outputs
    raced,          \* history: workers that met another one building
    setBack         \* history: count has been set back

table == <<sys_call_init, heap, i, syscall_limits, todo, launches>>
names == <<output_dir, written, dir, count, sum, outputs, setBack>>
vars  == <<debug, pc, register, raced, table, names>>

Init ==
    /\ debug \in BOOLEAN
    /\ pc = [w \in Workers |-> "idle"]
    /\ register = [w \in Workers |-> NULL]
    /\ sys_call_init = NULL
    /\ heap = [w \in Workers |-> [c \in Calls |-> Junk]]
    /\ i = [w \in Workers |-> 1]
    /\ syscall_limits = [w \in Workers |-> [c \in Calls |-> 0]]
    /\ todo = [w \in Workers |-> {}]
    /\ launches = [w \in Workers |-> 0]
    /\ output_dir = NULL /\ written = {}
    /\ dir = [w \in Workers |-> NULL]
    /\ count = 0 /\ sum = [w \in Workers |-> 0]
    /\ outputs = [w \in Workers |-> <<>>]
    /\ raced = {} /\ setBack = FALSE

Goto(w, label) == pc' = [pc EXCEPT ![w] = label]
Keeps(w, pointer) == register' = [register EXCEPT ![w] = pointer]

\* The pointer a worker goes by, where shared holds the variable.
Pointer(w, shared) == IF debug THEN shared ELSE register[w]

\* Another worker is at one of the labels.
Meets(w, labels) == \E v \in Workers \ {w} : pc[v] \in labels
NoteRace(w, labels) == raced' = IF Meets(w, labels) THEN raced \cup {w} ELSE raced

-----------------------------------------------------------------------------
(* init_system_call_limits *)

\* The limits of this launch are cleared, and the pointer is looked at.
TestTable(w) ==
    /\ pc[w] = "idle" /\ launches[w] < MaxLaunches
    /\ syscall_limits' = [syscall_limits EXCEPT ![w] = [c \in Calls |-> 0]]
    /\ launches' = [launches EXCEPT ![w] = @ + 1]
    /\ Keeps(w, sys_call_init)
    /\ Goto(w, IF sys_call_init = NULL THEN "malloc" ELSE "memcpy")
    /\ raced' = raced \ {w}
    /\ UNCHANGED <<debug, sys_call_init, heap, i, todo, names>>

\* The block is everybody's table before there is anything in it.
AllocateTable(w) ==
    /\ pc[w] = "malloc"
    /\ sys_call_init' = w /\ Keeps(w, w)
    /\ i' = [i EXCEPT ![w] = 1]
    /\ Goto(w, "memset")
    /\ UNCHANGED <<debug, raced, heap, syscall_limits, todo, launches, names>>

\* Mutant: the block is not cleared at all.
ClearNothing(w) ==
    /\ pc[w] = "memset"
    /\ Goto(w, "fill")
    /\ UNCHANGED <<debug, raced, register, table, names>>

\* 512 bytes of 512 numbers: the first 128.
ClearTable(w) ==
    /\ pc[w] = "memset"
    /\ heap' = [heap EXCEPT ![Pointer(w, sys_call_init)] =
                   [c \in Calls |-> IF c \in LowCalls THEN 0 ELSE @[c]]]
    /\ Goto(w, "fill")
    /\ UNCHANGED <<debug, raced, register, sys_call_init, i, syscall_limits, todo,
                   launches, names>>

FillTable(w) ==
    /\ pc[w] = "fill" /\ i[w] <= Len(RF_C)
    /\ heap' = [heap EXCEPT ![Pointer(w, sys_call_init)][RF_C[i[w]].call] = RF_C[i[w]].limit]
    /\ i' = [i EXCEPT ![w] = @ + 1]
    /\ Goto(w, IF i[w] = Len(RF_C) THEN "memcpy" ELSE "fill")
    /\ UNCHANGED <<debug, raced, register, sys_call_init, syscall_limits, todo,
                   launches, names>>

\* memcpy is given the pointer, and copies the entries in some order.
StartCopy(w) ==
    /\ pc[w] = "memcpy"
    /\ Keeps(w, Pointer(w, sys_call_init))
    /\ todo' = [todo EXCEPT ![w] = Calls]
    /\ NoteRace(w, {"memset", "fill"})
    /\ Goto(w, "copy")
    /\ UNCHANGED <<debug, sys_call_init, heap, i, syscall_limits, launches, names>>

CopyEntry(w) ==
    /\ pc[w] = "copy"
    /\ \E c \in todo[w] :
          /\ syscall_limits' = [syscall_limits EXCEPT ![w][c] = heap[register[w]][c]]
          /\ todo' = [todo EXCEPT ![w] = @ \ {c}]
    /\ NoteRace(w, {"memset", "fill"})
    /\ Goto(w, IF todo'[w] = {} THEN "launched" ELSE "copy")
    /\ UNCHANGED <<debug, register, sys_call_init, heap, i, launches, names>>

\* The launch is over; its verdict asks for no copy of the output.
NextTest(w) ==
    /\ pc[w] = "launched"
    /\ Goto(w, "idle")
    /\ UNCHANGED <<debug, raced, register, table, names>>

-----------------------------------------------------------------------------
(* A wrong answer: get_output_dir and get_result_count name the copy of the *)
(* output.  C++ leaves open which is called first; they share nothing.      *)

\* The outcome of the trylock decides nothing but the unlock; the mutex, and
\* those who wait for it, are in JudgeManager.  work_dir was set at start-up.
TestDir(w) ==
    /\ pc[w] = "launched" /\ Len(outputs[w]) < MaxOutputs
    /\ Keeps(w, output_dir)
    /\ Goto(w, IF output_dir = NULL THEN "allocate" ELSE "return")
    /\ raced' = raced \ {w}
    /\ UNCHANGED <<debug, table, names>>

AllocateDir(w) ==
    /\ pc[w] = "allocate"
    /\ output_dir' = w /\ Keeps(w, w)
    /\ Goto(w, "print")
    /\ UNCHANGED <<debug, raced, table, written, dir, count, sum, outputs, setBack>>

\* Mutant: the string is allocated and never printed into.
PrintNothing(w) ==
    /\ pc[w] = "print"
    /\ Keeps(w, NULL) /\ Goto(w, "return")
    /\ UNCHANGED <<debug, raced, table, names>>

\* snprintf, after which output_dir has to be read again.
PrintDir(w) ==
    /\ pc[w] = "print"
    /\ written' = written \cup {Pointer(w, output_dir)}
    /\ Keeps(w, NULL)
    /\ Goto(w, "return")
    /\ UNCHANGED <<debug, raced, table, output_dir, dir, count, sum, outputs, setBack>>

ReturnDir(w) ==
    /\ pc[w] = "return"
    /\ \E d \in IF debug THEN {output_dir} ELSE {output_dir, register[w]} \ {NULL} :
          dir' = [dir EXCEPT ![w] = d]
    /\ NoteRace(w, {"print"})
    /\ Goto(w, "add")
    /\ UNCHANGED <<debug, register, table, output_dir, written, count, sum, outputs, setBack>>

AddOneTo(w, n) ==
    /\ pc[w] = "add"
    /\ sum' = [sum EXCEPT ![w] = n % 1000000]
    /\ Goto(w, "store")
    /\ UNCHANGED <<debug, raced, register, table, output_dir, written, dir, count,
                   outputs, setBack>>

\* Mutant: the number is read and stored, but not increased.
AddNothing(w) == AddOneTo(w, count)

AddOne(w) == AddOneTo(w, count + 1)

StoreCount(w) ==
    /\ pc[w] = "store"
    /\ count' = sum[w]
    /\ setBack' = (setBack \/ sum[w] < count)
    /\ Goto(w, "name")
    /\ UNCHANGED <<debug, raced, register, table, output_dir, written, dir, sum, outputs>>

\* The name is put together; the submission's number in it tells it from the
\* names of other submissions.
NameOutput(w) ==
    /\ pc[w] = "name"
    /\ outputs' = [outputs EXCEPT ![w] = Append(@,
                      [number |-> (IF debug THEN count ELSE sum[w]) % 100000,
                       inDir  |-> dir[w] \in written])]
    /\ Goto(w, "named")
    /\ UNCHANGED <<debug, raced, register, table, output_dir, written, dir, count, sum, setBack>>

OutputCopied(w) ==
    /\ pc[w] = "named"
    /\ Goto(w, "idle")
    /\ UNCHANGED <<debug, raced, register, table, names>>

Next ==
    \E w \in Workers :
        \/ TestTable(w) \/ AllocateTable(w) \/ ClearTable(w) \/ FillTable(w)
        \/ StartCopy(w) \/ CopyEntry(w) \/ NextTest(w)
        \/ TestDir(w) \/ AllocateDir(w) \/ PrintDir(w) \/ ReturnDir(w)
        \/ AddOne(w) \/ StoreCount(w) \/ NameOutput(w) \/ OutputCopied(w)

Spec == Init /\ [][Next]_vars

-----------------------------------------------------------------------------
(* Properties *)

Listed == {RF_C[n].call : n \in 1..Len(RF_C)}
LimitOf(c) ==
    IF c \in Listed THEN RF_C[CHOOSE n \in 1..Len(RF_C) : RF_C[n].call = c].limit ELSE 0

\* A program is launched with other limits than the table's only if the worker
\* took the table's address, or copied it, while another one was building a
\* table; calls numbered from 128 that the table does not list have whatever
\* malloc left, always.  Two workers that build at once must not undo each
\* other's work for good.
WrongLimitsNeedARace ==
    \A w \in Workers :
        pc[w] = "launched" /\ w \notin raced =>
            \A c \in Listed \cup LowCalls : syscall_limits[w][c] = LimitOf(c)

\* An output is copied to a place that is not the directory for outputs only if
\* the worker asked for its name while another one was printing it.
WrongDirNeedsARace ==
    \A w \in Workers :
        pc[w] = "named" /\ w \notin raced => outputs[w][Len(outputs[w])].inDir

\* Two outputs of one submission get one name, and the later overwrites the
\* earlier, only if some worker set the count back, storing a number from before
\* others went on counting; two that merely store the same number do no harm.
OutputsApart ==
    setBack \/ \A w \in Workers : \A m, n \in 1..Len(outputs[w]) :
                   m # n => outputs[w][m].number # outputs[w][n].number
=============================================================================
