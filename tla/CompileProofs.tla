---------------------------- MODULE CompileProofs ----------------------------
(***************************************************************************)
(* Theorems about Compile, for any number of workers, any capacity of a    *)
(* pipe and compilers that write any amount: nothing a compiler writes is  *)
(* lost on its way to the result.  Also, the count of descriptors never    *)
(* drops below the write ends that are open (DescriptorsCoverPipes).       *)
(***************************************************************************)
EXTENDS Compile, FiniteSetTheorems, TLAPS

\* Where a worker is tells what its child may be.
Phases ==
    \A w \in Workers :
        /\ child[w] = "compiling" => pc[w] \in {"close", "wait"}
        /\ child[w] = "running" => pc[w] = "other"
        /\ pc[w] \in {"close", "wait"} => child[w] \in {"compiling", "passed", "failed"}
        /\ pc[w] \in {"pipe", "fork"} => res[w] = "Init" /\ res_content[w] = 0
        /\ pc[w] \in {"fork", "close"} => w \in writing
        /\ pc[w] \in {"close", "wait", "read"} => res[w] = "Init"

\* What a compiler has written is in the pipe or in the result; one that has
\* ended has written all it had to say.
Conserved ==
    \A w \in Workers :
        /\ pc[w] = "fork" => pipe[w] = 0
        /\ pc[w] \in {"close", "wait", "read"} =>
              /\ res_content[w] + pipe[w] = written[w]
              /\ written[w] <= output[w]
        /\ pc[w] \in {"close", "wait"} /\ child[w] # "compiling" => written[w] = output[w]
        /\ pc[w] = "read" => written[w] = output[w]

\* TypeOK without the count of descriptors, which has its own argument.
Types ==
    /\ pc \in [Workers -> {"idle", "pipe", "fork", "close", "wait", "read",
                           "returned", "other"}]
    /\ res \in [Workers -> {"Init", "NoScript", "NoPipe", "NoFork", "CompilePass",
                            "CompileError"}]
    /\ res_content \in [Workers -> 0..MaxOutput]
    /\ writing \subseteq Workers
    /\ pipe \in [Workers -> 0..PIPE_CAPACITY]
    /\ child \in [Workers -> {"none", "compiling", "running", "passed", "failed"}]
    /\ output \in [Workers -> 0..MaxOutput] /\ written \in [Workers -> 0..MaxOutput]
    /\ inherited \in [Workers -> SUBSET Workers]

\* Each write end that is open is one of the descriptors.
Descriptors ==
    descriptors \in 0..MaxDescriptors /\ Cardinality(writing) <= descriptors

CompileInv == Types /\ Phases /\ Conserved /\ DiagnosticsWhole

-----------------------------------------------------------------------------
LEMMA InvInit == Init => CompileInv
  BY CompileAssumption DEF Init, CompileInv, Types, Phases, Conserved, DiagnosticsWhole

\* The worker's steps up to the fork, and those that have to do with no pipe.
LEMMA InvBegins ==
  ASSUME CompileInv, NEW w \in Workers,
         \/ Begin(w) \/ NoScript(w) \/ OpenPipe(w) \/ NoPipe(w) \/ NoFork(w)
         \/ CloseWriteEnd(w) \/ Again(w) \/ ForkOther(w) \/ WaitOther(w)
  PROVE  CompileInv'
<1> USE CompileAssumption
    DEF CompileInv, Types, Phases, Conserved, DiagnosticsWhole, Goto, Return, io, proc
<1>1. CASE Begin(w)           BY <1>1 DEF Begin
<1>2. CASE NoScript(w)        BY <1>2 DEF NoScript
<1>3. CASE OpenPipe(w)        BY <1>3 DEF OpenPipe
<1>4. CASE NoPipe(w)          BY <1>4 DEF NoPipe
<1>5. CASE NoFork(w)          BY <1>5 DEF NoFork
<1>6. CASE CloseWriteEnd(w)   BY <1>6 DEF CloseWriteEnd
<1>7. CASE Again(w)           BY <1>7 DEF Again
<1>8. CASE ForkOther(w)       BY <1>8 DEF ForkOther, Inherit
<1>9. CASE WaitOther(w)       BY <1>9 DEF WaitOther
<1> QED BY <1>1, <1>2, <1>3, <1>4, <1>5, <1>6, <1>7, <1>8, <1>9

\* The fork, the wait and the reading.
LEMMA InvReads ==
  ASSUME CompileInv, NEW w \in Workers,
         Fork(w) \/ WaitPassed(w) \/ WaitFailed(w) \/ Read(w) \/ EndOfFile(w)
  PROVE  CompileInv'
<1> USE CompileAssumption
    DEF CompileInv, Types, Phases, Conserved, DiagnosticsWhole, Goto, Return, io, proc
<1>1. CASE Fork(w)            BY <1>1 DEF Fork, Inherit
<1>2. CASE WaitPassed(w)      BY <1>2 DEF WaitPassed
<1>3. CASE WaitFailed(w)      BY <1>3 DEF WaitFailed
<1>4. CASE Read(w)            BY <1>4 DEF Read, ReadThen
<1>5. CASE EndOfFile(w)       BY <1>5 DEF EndOfFile
<1> QED BY <1>1, <1>2, <1>3, <1>4, <1>5

\* The child's steps.
LEMMA InvChild ==
  ASSUME CompileInv, NEW w \in Workers, Child(w)
  PROVE  CompileInv'
<1> USE CompileAssumption
    DEF CompileInv, Types, Phases, Conserved, DiagnosticsWhole
<1>1. CASE Write(w)           BY <1>1 DEF Write
<1>2. CASE CompilerEnds(w)    BY <1>2 DEF CompilerEnds, Ends
<1>3. CASE OtherEnds(w)       BY <1>3 DEF OtherEnds, Ends
<1> QED BY <1>1, <1>2, <1>3 DEF Child

LEMMA InvAlways == Spec => []CompileInv
<1>1. CompileInv /\ [Next]_vars => CompileInv'
  <2> SUFFICES ASSUME CompileInv, [Next]_vars PROVE CompileInv'
    OBVIOUS
  <2>1. CASE UNCHANGED vars
    BY <2>1
    DEF vars, io, proc, CompileInv, Types, Phases, Conserved, DiagnosticsWhole
  <2> QED BY <2>1, InvBegins, InvReads, InvChild DEF Next, CompileCall
<1> QED BY <1>1, InvInit, PTL DEF Spec

-----------------------------------------------------------------------------
(* The descriptors *)

LEMMA DescriptorsInit == Init => Descriptors
  BY CompileAssumption, FS_EmptySet DEF Init, Descriptors

LEMMA DescriptorsStep == CompileInv /\ Descriptors /\ [Next]_vars => Descriptors'
<1> SUFFICES ASSUME CompileInv, Descriptors, [Next]_vars PROVE Descriptors'
  OBVIOUS
<1>0. IsFiniteSet(writing) /\ Cardinality(writing) \in Nat
  BY CompileAssumption, FS_Subset, FS_CardinalityType DEF CompileInv, Types
<1>1. ASSUME NEW w \in Workers, OpenPipe(w)
      PROVE  Descriptors'
  <2>1. Cardinality(writing \cup {w}) \in {Cardinality(writing), Cardinality(writing) + 1}
    BY <1>0, FS_AddElement
  <2>2. IsFiniteSet(writing \cup {w}) /\ Cardinality(writing \cup {w}) \in Nat
    BY <1>0, FS_AddElement, FS_CardinalityType
  <2> QED BY <1>0, <1>1, <2>1, <2>2, CompileAssumption DEF OpenPipe, Descriptors
<1>2. ASSUME NEW w \in Workers, CloseWriteEnd(w)
      PROVE  Descriptors'
  <2>1. w \in writing
    BY <1>2 DEF CloseWriteEnd, Goto, CompileInv, Phases
  <2>2. Cardinality(writing \ {w}) = Cardinality(writing) - 1
    BY <1>0, <2>1, FS_RemoveElement
  <2>3. Cardinality(writing \ {w}) \in Nat
    BY <1>0, FS_RemoveElement, FS_CardinalityType
  <2> QED BY <1>0, <1>2, <2>2, <2>3, CompileAssumption DEF CloseWriteEnd, Descriptors
<1>3. CASE UNCHANGED <<writing, descriptors>>
  BY <1>3 DEF Descriptors
<1> QED
  BY <1>1, <1>2, <1>3
  DEF Next, vars, io, CompileCall, Child, Begin, NoScript, NoPipe, Fork, NoFork,
      WaitPassed, WaitFailed, Read, ReadThen, EndOfFile, Again, ForkOther, WaitOther,
      Write, CompilerEnds, OtherEnds, Ends, Return

-----------------------------------------------------------------------------
(* The theorems *)

\* Type correctness of compile() in all workers, whatever the limits.
THEOREM CompileTypeCorrect == Spec => []TypeOK
<1>1. CompileInv /\ Descriptors => TypeOK
  BY DEF CompileInv, Types, Descriptors, TypeOK
<1> QED BY <1>1, InvAlways, DescriptorsInit, DescriptorsStep, PTL DEF Spec

\* The descriptors in use never number fewer than the write ends that are open,
\* in whatever order the workers open and close theirs: pipe() has taken one for
\* each, and none is given back twice.
THEOREM DescriptorsCoverPipes == Spec => []Descriptors
<1> QED BY InvAlways, DescriptorsInit, DescriptorsStep, PTL DEF Spec

\* The loop around read(), behind the wait for the compiler, takes up all that
\* the compiler wrote to stderr, in whatever pieces it comes and whichever of
\* the other workers' children held the pipe open.
THEOREM NothingIsLost == Spec => []DiagnosticsWhole
  BY InvAlways, PTL DEF CompileInv
=============================================================================
