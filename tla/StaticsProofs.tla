---------------------------- MODULE StaticsProofs ----------------------------
(***************************************************************************)
(* Theorems about Statics, for any number of workers and both builds.  The *)
(* table and the directory's name are invariants of their own, TableInv    *)
(* and NameInv; for the numbers there is CountInv, which holds as long as  *)
(* the count has not been set back.                                        *)
(***************************************************************************)
EXTENDS Statics, FiniteSetTheorems, TLAPS

Labels == {"idle", "malloc", "memset", "fill", "memcpy", "copy", "launched",
           "allocate", "print", "return", "add", "store", "name", "named"}

Entry == Int \cup {Junk}

TableTypes ==
    /\ debug \in BOOLEAN
    /\ pc \in [Workers -> Labels]
    /\ register \in [Workers -> Workers \cup {NULL}]
    /\ sys_call_init \in Workers \cup {NULL}
    /\ heap \in [Workers -> [Calls -> Entry]]
    /\ i \in [Workers -> Nat \ {0}]
    /\ syscall_limits \in [Workers -> [Calls -> Entry]]
    /\ todo \in [Workers -> SUBSET Calls]
    /\ raced \subseteq Workers

\* The workers that build a table, and those whose register is a table's address.
Builders == {v \in Workers : pc[v] \in {"memset", "fill"}}
Users == {u \in Workers : pc[u] \in {"memset", "fill", "memcpy", "copy"}}

\* The table a worker builds, or is about to copy.
Target(w) == Pointer(w, sys_call_init)

\* The calls whose limit does not depend on what malloc leaves.
Certain == Listed \cup LowCalls

\* The worker has yet to write the limit of the call.
Pending(v, c) ==
    \/ pc[v] = "memset"
    \/ pc[v] = "fill" /\ \E n \in 1..Len(RF_C) : n >= i[v] /\ RF_C[n].call = c

\* No address is that of a table to be allocated.
Pointers ==
    /\ \A u \in Users : register[u] \in Workers /\ sys_call_init \in Workers
    /\ \A v \in Builders : register[v] = v
    /\ \A v \in Workers : pc[v] = "memset" => i[v] = 1
    /\ \A v \in Workers : pc[v] = "malloc" =>
          sys_call_init # v /\ \A u \in Users : register[u] # v

\* A table that is shared, or that a worker is about to use, is complete or will
\* be: whatever is missing, some worker is yet to write.
InUse(X) == X = sys_call_init \/ \E u \in Users : Target(u) = X
Built ==
    \A X \in Workers : InUse(X) => \A c \in Certain :
        \/ heap[X][c] = LimitOf(c)
        \/ \E v \in Builders : Target(v) = X /\ Pending(v, c)

\* The table that a worker copies, having met nobody, is complete and stays so.
Undisturbed ==
    \A u \in Workers : pc[u] = "copy" /\ u \notin raced =>
        /\ \A c \in Certain : heap[register[u]][c] = LimitOf(c)
        /\ \A v \in Builders : Target(v) # register[u]

Copied ==
    \A u \in Workers :
        /\ pc[u] = "launched" => todo[u] = {}
        /\ pc[u] \in {"copy", "launched"} /\ u \notin raced => \A c \in Certain :
              c \in todo[u] \/ syscall_limits[u][c] = LimitOf(c)

TableInv == TableTypes /\ Pointers /\ Built /\ Undisturbed /\ Copied

Output == [number : Nat, inDir : BOOLEAN]

NameTypes ==
    /\ output_dir \in Workers \cup {NULL} /\ written \subseteq Workers
    /\ dir \in [Workers -> Workers \cup {NULL}]
    /\ count \in Nat /\ sum \in [Workers -> Nat]
    /\ outputs \in [Workers -> Seq(Output)]

\* The block holds the directory's name, or its worker is at printing it.
Promised(X) == X \in written \/ pc[X] = "print"

\* A string that is shared, or that a register holds for good, is promised, and
\* one that a worker took, having met nobody, is printed.
Strings ==
    /\ \A v \in Workers : pc[v] = "print" => register[v] = v
    /\ \A v \in Workers : pc[v] \in {"print", "return"} => output_dir # NULL
    /\ output_dir # NULL => Promised(output_dir)
    /\ debug = FALSE => \A v \in Workers :
          pc[v] = "return" /\ register[v] # NULL => Promised(register[v])
    /\ \A v \in Workers :
          pc[v] \in {"add", "store", "name"} /\ v \notin raced => dir[v] \in written

NameInv == NameTypes /\ Strings /\ WrongDirNeedsARace

\* All the numbers given out fit into the five digits of a name.
FiveDigits == 100000
SixDigitsOf(n) == n % 1000000
FiveDigitsOf(n) == n % 100000
FewOutputs == IsFiniteSet(Workers) /\ Cardinality(Workers) * MaxOutputs < FiveDigits

\* The outputs that were named, or whose number has been added.
Given(w) == Len(outputs[w]) + (IF pc[w] \in {"store", "name"} THEN 1 ELSE 0)
Numbered == {o \in Workers \X (1..MaxOutputs) : o[2] <= Given(o[1])}

\* There is room for the outputs to come.
Room ==
    \A w \in Workers :
        /\ Len(outputs[w]) <= MaxOutputs
        /\ pc[w] \in {"allocate", "print", "return", "add", "store", "name"}
              => Len(outputs[w]) < MaxOutputs

\* No number is larger than the count of outputs that were given one.
Counted ==
    /\ count <= Cardinality(Numbered)
    /\ \A w \in Workers : pc[w] = "store" => sum[w] <= Cardinality(Numbered)

\* A worker's next number is larger than all that it gave out before.
Below(w, n) == \A m \in 1..Len(outputs[w]) : outputs[w][m].number < n
Apart(w) ==
    \A m, n \in 1..Len(outputs[w]) :
        m # n => outputs[w][m].number # outputs[w][n].number
Rising ==
    setBack = FALSE => \A w \in Workers :
        /\ Below(w, count + 1) /\ Apart(w)
        /\ pc[w] = "store" => Below(w, sum[w])
        /\ pc[w] = "name" => Below(w, sum[w]) /\ sum[w] <= count

CountInv == setBack \in BOOLEAN /\ Room /\ Counted /\ Rising

-----------------------------------------------------------------------------
(* The table of system-call limits *)

\* The table lists a call once, so that its limit is the one it is listed with.
LEMMA LimitsListed ==
  /\ \A n \in 1..Len(RF_C) : /\ RF_C[n].call \in Calls /\ RF_C[n].limit \in Int
                             /\ LimitOf(RF_C[n].call) = RF_C[n].limit
  /\ \A c \in Certain : c \in Calls /\ (c \notin Listed => LimitOf(c) = 0)
<1>1. ASSUME NEW n \in 1..Len(RF_C)
      PROVE  /\ RF_C[n].call \in Calls /\ RF_C[n].limit \in Int
             /\ LimitOf(RF_C[n].call) = RF_C[n].limit
  <2> DEFINE k == CHOOSE m \in 1..Len(RF_C) : RF_C[m].call = RF_C[n].call
  <2>1. RF_C[n] \in [call : Calls, limit : Int]
    <3> DEFINE entries == [call : Calls, limit : Int]
    <3>1. RF_C \in Seq(entries)
      BY StaticsAssumption
    <3> HIDE DEF entries
    <3>2. RF_C[n] \in entries
      BY <3>1
    <3> QED BY <3>2 DEF entries
  <2>2. k \in 1..Len(RF_C) /\ RF_C[k].call = RF_C[n].call
    OBVIOUS
  <2>3. k = n
    BY <2>2, StaticsAssumption
  <2>4. RF_C[n].call \in Listed
    BY DEF Listed
  <2> QED BY <2>1, <2>3, <2>4 DEF LimitOf
<1>2. ASSUME NEW c \in Certain
      PROVE  c \in Calls /\ (c \notin Listed => LimitOf(c) = 0)
  BY <1>1, StaticsAssumption DEF Certain, Listed, LimitOf
<1> QED BY <1>1, <1>2

LEMMA TableInit == Init => TableInv
  BY StaticsAssumption
  DEF Init, TableInv, TableTypes, Labels, Entry, Pointers, Built, Undisturbed, Copied,
      Builders, Users, InUse

LEMMA TestTableKeeps ==
  ASSUME TableInv, NEW w \in Workers, TestTable(w)
  PROVE  TableInv'
<1> USE DEF TableInv
<1>1. /\ pc[w] = "idle" /\ register' = [register EXCEPT ![w] = sys_call_init]
      /\ syscall_limits' = [syscall_limits EXCEPT ![w] = [c \in Calls |-> 0]]
      /\ pc' = [pc EXCEPT ![w] = IF sys_call_init = NULL THEN "malloc" ELSE "memcpy"]
      /\ raced' = raced \ {w}
      /\ UNCHANGED <<debug, sys_call_init, heap, i, todo>>
  BY DEF TestTable, Goto, Keeps
<1>2. TableTypes'
  BY <1>1 DEF TableTypes, Labels, Entry
<1>3. /\ Builders' = Builders /\ w \notin Builders
      /\ Users' = IF sys_call_init = NULL THEN Users ELSE Users \cup {w}
  BY <1>1 DEF TableTypes, Builders, Users
<1>4. \A v \in Builders : UNCHANGED Target(v) /\ \A c : UNCHANGED Pending(v, c)
  BY <1>1, <1>3 DEF TableTypes, Target, Pointer, Pending, Builders
<1>5. Pointers'
  BY <1>1, <1>3, StaticsAssumption DEF TableTypes, Pointers, Users
<1>6. Built'
  <2>1. ASSUME NEW X \in Workers, InUse(X)'
        PROVE  InUse(X)
    BY <1>1, <1>3, <2>1 DEF TableTypes, InUse, Target, Pointer, Users
  <2> QED BY <1>1, <1>3, <1>4, <2>1 DEF Built
<1>7. Undisturbed'
  BY <1>1, <1>3, <1>4 DEF TableTypes, Undisturbed
<1>8. Copied'
  BY <1>1 DEF TableTypes, Copied
<1> QED BY <1>2, <1>5, <1>6, <1>7, <1>8

LEMMA AllocateTableKeeps ==
  ASSUME TableInv, NEW w \in Workers, AllocateTable(w)
  PROVE  TableInv'
<1> USE DEF TableInv
<1>1. /\ pc[w] = "malloc" /\ pc' = [pc EXCEPT ![w] = "memset"]
      /\ sys_call_init' = w /\ register' = [register EXCEPT ![w] = w]
      /\ i' = [i EXCEPT ![w] = 1]
      /\ UNCHANGED <<debug, raced, heap, syscall_limits, todo>>
  BY DEF AllocateTable, Goto, Keeps
<1>2. TableTypes'
  BY <1>1 DEF TableTypes, Labels
<1>3. /\ Builders' = Builders \cup {w} /\ w \notin Builders
      /\ Users' = Users \cup {w} /\ w \notin Users
  BY <1>1 DEF TableTypes, Builders, Users
<1>4. Pointers'
  BY <1>1, <1>3 DEF TableTypes, Pointers, Builders, Users
<1>5. /\ Target(w)' = w
      /\ \A c : Pending(w, c)'
      /\ \A v \in Builders : \A c : UNCHANGED Pending(v, c)
      /\ \A u \in Users : Target(u)' = IF debug THEN w ELSE Target(u)
  BY <1>1, <1>3 DEF TableTypes, Target, Pointer, Pending, Builders, Users
<1>6. Built'
  <2> SUFFICES ASSUME NEW X \in Workers, InUse(X)', NEW c \in Certain, X # w
               PROVE  \/ heap'[X][c] = LimitOf(c)
                      \/ \E v \in Builders' : Target(v)' = X /\ Pending(v, c)'
    BY <1>3, <1>5 DEF Built
  <2>1. debug = FALSE /\ \E u \in Users : Target(u) = X
    BY <1>1, <1>3, <1>5 DEF InUse, TableTypes
  <2>2. \/ heap[X][c] = LimitOf(c)
        \/ \E v \in Builders : Target(v) = X /\ Pending(v, c)
    BY <2>1 DEF Built, InUse
  <2>3. Builders \subseteq Users
    BY DEF Builders, Users
  <2> QED BY <1>1, <1>3, <1>5, <2>1, <2>2, <2>3
<1>7. Undisturbed'
  <2> SUFFICES ASSUME NEW u \in Workers, pc[u] = "copy", u \notin raced, u # w
               PROVE  /\ \A c \in Certain : heap'[register'[u]][c] = LimitOf(c)
                      /\ \A v \in Builders' : Target(v)' # register'[u]
    BY <1>1 DEF Undisturbed, TableTypes
  <2>1. register'[u] = register[u] /\ register[u] # w
    BY <1>1 DEF TableTypes, Pointers, Users
  <2>2. Builders \subseteq Users
    BY DEF Builders, Users
  <2> QED BY <1>1, <1>3, <1>5, <2>1, <2>2 DEF Undisturbed
<1>8. Copied'
  BY <1>1 DEF TableTypes, Copied
<1> QED BY <1>2, <1>4, <1>6, <1>7, <1>8

LEMMA ClearTableKeeps ==
  ASSUME TableInv, NEW w \in Workers, ClearTable(w)
  PROVE  TableInv'
<1> USE DEF TableInv
<1> DEFINE T == Target(w)
<1>1. /\ pc[w] = "memset" /\ pc' = [pc EXCEPT ![w] = "fill"]
      /\ heap' = [heap EXCEPT ![T] = [c \in Calls |-> IF c \in LowCalls THEN 0 ELSE @[c]]]
      /\ i[w] = 1
      /\ UNCHANGED <<debug, raced, register, sys_call_init, i, syscall_limits, todo>>
  BY DEF ClearTable, Goto, Target, Pointers
<1>2. T \in Workers /\ w \in Builders
  BY <1>1 DEF TableTypes, Pointers, Target, Pointer, Users, Builders
<1>3. TableTypes'
  BY <1>1, <1>2 DEF TableTypes, Labels, Entry
<1>4. Builders' = Builders /\ Users' = Users
  BY <1>1 DEF TableTypes, Builders, Users
<1>5. /\ \A v \in Workers : Target(v)' = Target(v)
      /\ \A v \in Workers \ {w} : \A c : UNCHANGED Pending(v, c)
      /\ \A c \in Listed : Pending(w, c)'
  BY <1>1 DEF TableTypes, Target, Pointer, Pending, Listed
<1>6. Pointers'
  BY <1>1, <1>4 DEF TableTypes, Pointers
<1>7. Built'
  <2> SUFFICES ASSUME NEW X \in Workers, InUse(X)', NEW c \in Certain
               PROVE  \/ heap'[X][c] = LimitOf(c)
                      \/ \E v \in Builders : Target(v) = X /\ Pending(v, c)'
    BY <1>4, <1>5 DEF Built, Builders
  <2>1. CASE X = T /\ c \in Listed
    BY <1>2, <1>5, <2>1
  <2>2. CASE X = T /\ c \notin Listed
    <3>1. c \in Calls /\ c \in LowCalls /\ LimitOf(c) = 0
      BY <2>2, LimitsListed DEF Certain
    <3> QED BY <1>1, <1>2, <2>2, <3>1 DEF TableTypes
  <2>3. CASE X # T
    <3>1. InUse(X)
      BY <1>1, <1>4, <1>5 DEF InUse, Users
    <3>2. \/ heap[X][c] = LimitOf(c)
          \/ \E v \in Builders : Target(v) = X /\ Pending(v, c)
      BY <3>1 DEF Built
    <3> QED BY <1>1, <1>2, <1>5, <2>3, <3>2 DEF TableTypes, Builders
  <2> QED BY <2>1, <2>2, <2>3
<1>8. Undisturbed'
  BY <1>1, <1>2, <1>4, <1>5 DEF TableTypes, Undisturbed, Builders
<1>9. Copied'
  BY <1>1 DEF TableTypes, Copied
<1> QED BY <1>3, <1>6, <1>7, <1>8, <1>9

LEMMA FillTableKeeps ==
  ASSUME TableInv, NEW w \in Workers, FillTable(w)
  PROVE  TableInv'
<1> USE DEF TableInv
<1> DEFINE T == Target(w)
           n == i[w]
<1>1. /\ pc[w] = "fill" /\ n <= Len(RF_C)
      /\ pc' = [pc EXCEPT ![w] = IF n = Len(RF_C) THEN "memcpy" ELSE "fill"]
      /\ heap' = [heap EXCEPT ![T][RF_C[n].call] = RF_C[n].limit]
      /\ i' = [i EXCEPT ![w] = n + 1]
      /\ UNCHANGED <<debug, raced, register, sys_call_init, syscall_limits, todo>>
  BY DEF FillTable, Goto, Target
<1>2. T \in Workers /\ w \in Builders /\ n \in 1..Len(RF_C)
  BY <1>1, StaticsAssumption
  DEF TableTypes, Pointers, Target, Pointer, Users, Builders
<1> DEFINE call == RF_C[n].call
<1>3. call \in Calls /\ RF_C[n].limit = LimitOf(call) /\ RF_C[n].limit \in Int
  BY <1>2, LimitsListed
<1>4. TableTypes'
  BY <1>1, <1>2, <1>3 DEF TableTypes, Labels, Entry
<1>5. Builders' \subseteq Builders /\ Users' = Users /\ Builders \subseteq Builders' \cup {w}
  BY <1>1 DEF TableTypes, Builders, Users
<1>6. /\ \A v \in Workers : Target(v)' = Target(v)
      /\ \A v \in Workers \ {w} : \A c : UNCHANGED Pending(v, c)
  BY <1>1 DEF TableTypes, Target, Pointer, Pending
\* What the worker has yet to write it has yet to write after this entry.
<1>7. ASSUME NEW c \in Certain, c # call, Pending(w, c)
      PROVE  Pending(w, c)' /\ w \in Builders'
  <2>1. PICK m \in 1..Len(RF_C) : m >= n /\ RF_C[m].call = c
    BY <1>1, <1>7 DEF Pending
  <2>2. m # n
    BY <1>7, <2>1
  <2>3. m >= n + 1 /\ n # Len(RF_C)
    BY <1>2, <2>1, <2>2, StaticsAssumption
  <2> QED BY <1>1, <2>1, <2>3 DEF Pending, Builders, TableTypes
<1>8. Pointers'
  BY <1>1, <1>5 DEF TableTypes, Pointers, Builders
<1>9. \A X \in Workers : \A c \in Calls :
          heap'[X][c] = IF X = T /\ c = call THEN LimitOf(call) ELSE heap[X][c]
  BY <1>1, <1>2, <1>3 DEF TableTypes
<1> HIDE DEF T, call
<1>10. Built'
  <2> SUFFICES ASSUME NEW X \in Workers, InUse(X)', NEW c \in Certain
               PROVE  \/ heap'[X][c] = LimitOf(c)
                      \/ \E v \in Builders' : Target(v)' = X /\ Pending(v, c)'
    BY DEF Built
  <2>0. c \in Calls
    BY LimitsListed
  <2>1. InUse(X)
    BY <1>1, <1>5, <1>6 DEF InUse, Users
  <2>2. CASE heap[X][c] = LimitOf(c)
    BY <1>9, <2>0, <2>2
  <2>3. CASE heap[X][c] # LimitOf(c)
    <3>1. PICK v \in Builders : Target(v) = X /\ Pending(v, c)
      BY <2>1, <2>3 DEF Built
    <3>2. CASE v # w
      BY <1>5, <1>6, <3>1, <3>2 DEF Builders
    <3>3. CASE v = w /\ c # call
      BY <1>6, <1>7, <3>1, <3>3
    <3>4. CASE v = w /\ c = call
      BY <1>9, <2>0, <3>1, <3>4 DEF T
    <3> QED BY <3>2, <3>3, <3>4
  <2> QED BY <2>2, <2>3
<1>11. Undisturbed'
  <2> SUFFICES ASSUME NEW u \in Workers, pc'[u] = "copy", u \notin raced'
               PROVE  /\ \A c \in Certain : heap'[register'[u]][c] = LimitOf(c)
                      /\ \A v \in Builders' : Target(v)' # register'[u]
    BY DEF Undisturbed
  <2>1. pc[u] = "copy" /\ u \notin raced /\ UNCHANGED register
    BY <1>1 DEF TableTypes
  <2>2. register[u] \in Workers /\ register[u] # T
    BY <1>2, <2>1 DEF Undisturbed, Pointers, Users, T
  <2> QED BY <1>5, <1>6, <1>9, <2>1, <2>2, LimitsListed DEF Undisturbed, Builders
<1>12. Copied'
  BY <1>1 DEF TableTypes, Copied
<1> QED BY <1>4, <1>8, <1>10, <1>11, <1>12

LEMMA StartCopyKeeps ==
  ASSUME TableInv, NEW w \in Workers, StartCopy(w)
  PROVE  TableInv'
<1> USE DEF TableInv
<1>1. /\ pc[w] = "memcpy" /\ pc' = [pc EXCEPT ![w] = "copy"]
      /\ register' = [register EXCEPT ![w] = Target(w)]
      /\ todo' = [todo EXCEPT ![w] = Calls]
      /\ NoteRace(w, {"memset", "fill"})
      /\ UNCHANGED <<debug, sys_call_init, heap, i, syscall_limits>>
  BY DEF StartCopy, Goto, Keeps, Target
<1>2. Target(w) \in Workers /\ w \in Users /\ InUse(Target(w))
  BY <1>1 DEF TableTypes, Pointers, Target, Pointer, Users, InUse
<1>3. TableTypes'
  BY <1>1, <1>2 DEF TableTypes, Labels, NoteRace
<1>4. Builders' = Builders /\ Users' = Users /\ w \notin Builders
  BY <1>1 DEF TableTypes, Builders, Users
<1>5. /\ \A v \in Builders : \A c : UNCHANGED <<Target(v), Pending(v, c)>>
      /\ \A v \in Workers : Target(v)' = Target(v)
  BY <1>1, <1>4 DEF TableTypes, Target, Pointer, Pending, Builders
<1>6. Pointers'
  <2>1. ASSUME NEW v \in Workers, pc[v] = "malloc"
        PROVE  Target(w) # v
    BY <1>1, <1>2, <2>1 DEF Pointers, Target, Pointer, TableTypes
  <2> QED BY <1>1, <1>2, <1>4, <2>1 DEF TableTypes, Pointers, Builders, Users
<1>7. Built'
  BY <1>1, <1>4, <1>5 DEF Built, InUse, Builders, Users
<1>8. w \notin raced' => Builders = {}
  BY <1>1, <1>4 DEF NoteRace, Meets, Builders
<1>9. Undisturbed'
  <2>1. w \notin raced' => \A c \in Certain : heap[Target(w)][c] = LimitOf(c)
    BY <1>2, <1>8 DEF Built
  <2>2. \A u \in Workers : u \notin raced' => u \notin raced
    BY <1>1 DEF NoteRace
  <2> QED BY <1>1, <1>2, <1>4, <1>5, <1>8, <2>1, <2>2 DEF TableTypes, Undisturbed, Builders
<1>10. Copied'
  <2>1. \A u \in Workers : u \notin raced' => u \notin raced
    BY <1>1 DEF NoteRace
  <2> QED BY <1>1, <2>1, LimitsListed DEF TableTypes, Copied
<1> QED BY <1>3, <1>6, <1>7, <1>9, <1>10

LEMMA CopyEntryKeeps ==
  ASSUME TableInv, NEW w \in Workers, CopyEntry(w)
  PROVE  TableInv'
<1> USE DEF TableInv
<1>1. PICK c \in todo[w] :
          /\ syscall_limits' = [syscall_limits EXCEPT ![w][c] = heap[register[w]][c]]
          /\ todo' = [todo EXCEPT ![w] = @ \ {c}]
  BY DEF CopyEntry
<1>2. /\ pc[w] = "copy"
      /\ pc' = [pc EXCEPT ![w] = IF todo'[w] = {} THEN "launched" ELSE "copy"]
      /\ raced \subseteq raced'
      /\ UNCHANGED <<debug, register, sys_call_init, heap, i>>
  BY DEF CopyEntry, Goto, NoteRace
<1>3. register[w] \in Workers /\ c \in Calls
  BY <1>2, <1>1 DEF TableTypes, Pointers, Users
<1>4. raced' \subseteq Workers
  BY DEF CopyEntry, NoteRace, TableTypes
<1>5. TableTypes'
  <2>1. heap[register[w]][c] \in Entry
    BY <1>3 DEF TableTypes
  <2> QED BY <1>1, <1>2, <1>3, <1>4, <2>1 DEF TableTypes, Labels
<1>6. Builders' = Builders /\ Users' \subseteq Users
  BY <1>2 DEF TableTypes, Builders, Users
<1>7. \A v \in Workers : Target(v)' = Target(v) /\ \A d : UNCHANGED Pending(v, d)
  BY <1>2 DEF TableTypes, Target, Pointer, Pending
<1>8. Pointers'
  BY <1>2, <1>6 DEF TableTypes, Pointers, Builders
<1>9. Built'
  BY <1>2, <1>6, <1>7 DEF Built, InUse, Builders, Users
<1>10. Undisturbed'
  BY <1>2, <1>6, <1>7 DEF TableTypes, Undisturbed, Builders
<1>11. Copied'
  <2> SUFFICES ASSUME NEW u \in Workers, pc'[u] \in {"copy", "launched"}, u \notin raced',
                      NEW d \in Certain, d \notin todo'[u]
               PROVE  syscall_limits'[u][d] = LimitOf(d)
    BY <1>1, <1>2 DEF TableTypes, Copied
  <2>0. u \notin raced /\ d \in Calls /\ pc[u] \in {"copy", "launched"}
    BY <1>2, LimitsListed DEF TableTypes
  <2>1. CASE u # w
    BY <1>1, <1>2, <2>0, <2>1 DEF TableTypes, Copied
  <2>2. CASE u = w /\ d = c
    BY <1>1, <1>2, <1>3, <2>0, <2>2 DEF TableTypes, Undisturbed
  <2>3. CASE u = w /\ d # c
    BY <1>1, <1>2, <1>3, <2>0, <2>3 DEF TableTypes, Copied
  <2> QED BY <2>1, <2>2, <2>3
<1> QED BY <1>5, <1>8, <1>9, <1>10, <1>11

\* What a worker does with the name of its output leaves the table alone.
LEMMA ElsewhereKeeps ==
  ASSUME TableInv, NameTypes, NEW w \in Workers,
         \/ NextTest(w) \/ TestDir(w) \/ AllocateDir(w) \/ PrintDir(w) \/ ReturnDir(w)
         \/ AddOne(w) \/ StoreCount(w) \/ NameOutput(w) \/ OutputCopied(w)
  PROVE  TableInv'
<1> USE DEF TableInv
<1> DEFINE away == Labels \ {"malloc", "memset", "fill", "memcpy", "copy"}
<1>1. /\ pc[w] \in away
      /\ \E l \in away \ {"launched"} : pc' = [pc EXCEPT ![w] = l]
      /\ \E r \in Workers \cup {NULL} : register' = [register EXCEPT ![w] = r]
      /\ raced' \in {raced, raced \cup {w}, raced \ {w}}
      /\ UNCHANGED <<debug, table>>
  <2> USE DEF Goto, Keeps, TableTypes, NameTypes, Labels, table
  <2>1. CASE NextTest(w) \/ TestDir(w) \/ AllocateDir(w) \/ PrintDir(w)
    BY <2>1 DEF NextTest, TestDir, AllocateDir, PrintDir
  <2>2. CASE ReturnDir(w)
    BY <2>2 DEF ReturnDir, NoteRace
  <2>3. CASE AddOne(w) \/ StoreCount(w) \/ NameOutput(w) \/ OutputCopied(w)
    BY <2>3, SMT DEF AddOne, AddOneTo, StoreCount, NameOutput, OutputCopied
  <2> QED BY <2>1, <2>2, <2>3
<1>2. TableTypes'
  BY <1>1 DEF TableTypes, table
<1>3. /\ Builders' = Builders /\ Users' = Users /\ w \notin Users /\ w \notin Builders
      /\ \A v \in Workers : pc[v] = "malloc" <=> pc'[v] = "malloc"
  BY <1>1 DEF TableTypes, Builders, Users
<1>4. \A u \in Users : UNCHANGED <<Target(u), register[u]>> /\ \A c : UNCHANGED Pending(u, c)
  BY <1>1, <1>3 DEF TableTypes, Target, Pointer, Pending, Users, table
<1>5. Builders \subseteq Users
  BY DEF Builders, Users
<1>6. Pointers'
  BY <1>1, <1>3, <1>4, <1>5 DEF TableTypes, Pointers, Users, table
<1>7. Built'
  BY <1>1, <1>3, <1>4, <1>5 DEF Built, InUse, table
<1>8. \A u \in Workers : u # w /\ u \notin raced' => u \notin raced
  BY <1>1
<1>9. Undisturbed'
  <2>1. \A u \in Workers : pc'[u] = "copy" => u # w /\ pc[u] = "copy" /\ u \in Users
    BY <1>1 DEF TableTypes, Users
  <2> QED BY <1>1, <1>3, <1>4, <1>5, <1>8, <2>1 DEF Undisturbed, table
<1>10. Copied'
  <2>1. \A u \in Workers : pc'[u] \in {"copy", "launched"} => u # w /\ pc'[u] = pc[u]
    BY <1>1 DEF TableTypes
  <2> QED BY <1>1, <1>8, <2>1 DEF Copied, table
<1> QED BY <1>2, <1>6, <1>7, <1>9, <1>10

LEMMA TableStep == TableInv /\ NameTypes /\ [Next]_vars => TableInv'
<1> SUFFICES ASSUME TableInv, NameTypes, [Next]_vars PROVE TableInv'
  OBVIOUS
<1>1. CASE UNCHANGED vars
  BY <1>1
  DEF vars, table, TableInv, TableTypes, Pointers, Built, Undisturbed, Copied, Builders,
      Users, InUse, Target, Pointer, Pending
<1> QED BY <1>1, TestTableKeeps, AllocateTableKeeps, ClearTableKeeps, FillTableKeeps,
           StartCopyKeeps, CopyEntryKeeps, ElsewhereKeeps
        DEF Next

-----------------------------------------------------------------------------
(* The directory for outputs *)

LEMMA NameInit == Init => NameInv
  BY DEF Init, NameInv, NameTypes, Strings, WrongDirNeedsARace

\* What a worker does with the table leaves the name alone.
LEMMA TableKeepsName ==
  ASSUME TableInv, NameInv, NEW w \in Workers,
         \/ TestTable(w) \/ AllocateTable(w) \/ ClearTable(w) \/ FillTable(w)
         \/ StartCopy(w) \/ CopyEntry(w) \/ NextTest(w)
  PROVE  NameInv'
<1> USE DEF TableInv, NameInv
<1> DEFINE away == {"idle", "malloc", "memset", "fill", "memcpy", "copy", "launched"}
<1>1. /\ pc[w] \in away
      /\ \E l \in away : pc' = [pc EXCEPT ![w] = l]
      /\ \A v \in Workers \ {w} : register'[v] = register[v] /\ (v \in raced => v \in raced')
      /\ UNCHANGED <<debug, names>>
  <2> USE DEF Goto, Keeps, TableTypes, names
  <2>1. CASE TestTable(w) \/ AllocateTable(w) \/ ClearTable(w) \/ FillTable(w) \/ NextTest(w)
    BY <2>1 DEF TestTable, AllocateTable, ClearTable, FillTable, NextTest
  <2>2. CASE StartCopy(w) \/ CopyEntry(w)
    BY <2>2 DEF StartCopy, CopyEntry, NoteRace
  <2> QED BY <2>1, <2>2
<1>2. \A v \in Workers : Promised(v) => Promised(v)'
  BY <1>1 DEF Promised, TableTypes, names
<1>3. NameTypes'
  BY <1>1 DEF NameTypes, names
<1>4. \A v \in Workers : pc'[v] \notin away => v # w /\ pc'[v] = pc[v]
  BY <1>1 DEF TableTypes
<1>5. Strings'
  BY <1>1, <1>2, <1>4 DEF Strings, NameTypes, TableTypes, names
<1>6. WrongDirNeedsARace'
  BY <1>1, <1>4 DEF WrongDirNeedsARace, names
<1> QED BY <1>3, <1>5, <1>6

\* Whoever has just named an output named it last.
LEMMA OtherOutputsKept ==
  ASSUME TableInv, NameInv, NEW w \in Workers, NEW l \in Labels \ {"named"},
         pc' = [pc EXCEPT ![w] = l], UNCHANGED outputs,
         raced' \in {raced, raced \cup {w}, raced \ {w}}
  PROVE  WrongDirNeedsARace'
BY DEF TableInv, TableTypes, NameInv, WrongDirNeedsARace

LEMMA NameKeeps ==
  ASSUME TableInv, NameInv, NEW w \in Workers,
         \/ TestDir(w) \/ AllocateDir(w) \/ PrintDir(w) \/ ReturnDir(w)
         \/ AddOne(w) \/ StoreCount(w) \/ NameOutput(w) \/ OutputCopied(w)
  PROVE  NameInv'
<1>0. /\ pc \in [Workers -> Labels] /\ register \in [Workers -> Workers \cup {NULL}]
      /\ debug \in BOOLEAN /\ NULL \notin Workers
      /\ NameTypes /\ Strings /\ WrongDirNeedsARace
  BY StaticsAssumption DEF TableInv, TableTypes, NameInv
<1> USE <1>0 DEF NameInv
<1>1. CASE TestDir(w)
  <2>1. /\ pc[w] = "launched"
        /\ pc' = [pc EXCEPT ![w] = IF output_dir = NULL THEN "allocate" ELSE "return"]
        /\ register' = [register EXCEPT ![w] = output_dir]
        /\ raced' = raced \ {w} /\ UNCHANGED <<debug, names>>
    BY <1>1 DEF TestDir, Goto, Keeps
  <2>2. NameTypes'
    BY <2>1 DEF NameTypes, names
  <2>3. Strings'
    BY <2>1 DEF NameTypes, Strings, Promised, names
  <2>4. WrongDirNeedsARace'
    BY <2>1, OtherOutputsKept DEF names, Labels
  <2> QED BY <2>2, <2>3, <2>4
<1>2. CASE AllocateDir(w)
  <2>1. /\ pc[w] = "allocate" /\ pc' = [pc EXCEPT ![w] = "print"]
        /\ register' = [register EXCEPT ![w] = w] /\ output_dir' = w
        /\ UNCHANGED <<debug, raced, written, dir, count, sum, outputs>>
    BY <1>2 DEF AllocateDir, Goto, Keeps
  <2>2. NameTypes'
    BY <2>1 DEF NameTypes
  <2>3. Strings'
    BY <2>1 DEF NameTypes, Strings, Promised
  <2>4. WrongDirNeedsARace'
    BY <2>1, OtherOutputsKept DEF Labels
  <2> QED BY <2>2, <2>3, <2>4
<1>3. CASE PrintDir(w)
  <2> DEFINE p == Pointer(w, output_dir)
  <2>1. /\ pc[w] = "print" /\ pc' = [pc EXCEPT ![w] = "return"]
        /\ register' = [register EXCEPT ![w] = NULL] /\ written' = written \cup {p}
        /\ UNCHANGED <<debug, raced, output_dir, dir, count, sum, outputs>>
    BY <1>3 DEF PrintDir, Goto, Keeps
  <2>2. p \in Workers /\ p = IF debug THEN output_dir ELSE w
    BY <2>1 DEF Pointer, NameTypes, Strings
  <2>3. NameTypes'
    BY <2>1, <2>2 DEF NameTypes
  <2>4. Strings'
    BY <2>1, <2>2 DEF NameTypes, Strings, Promised
  <2>5. WrongDirNeedsARace'
    BY <2>1, OtherOutputsKept DEF Labels
  <2> QED BY <2>3, <2>4, <2>5
<1>4. CASE ReturnDir(w)
  <2>1. PICK d : /\ d \in IF debug THEN {output_dir} ELSE {output_dir, register[w]} \ {NULL}
                 /\ dir' = [dir EXCEPT ![w] = d]
    BY <1>4 DEF ReturnDir
  <2>2. /\ pc[w] = "return" /\ pc' = [pc EXCEPT ![w] = "add"]
        /\ NoteRace(w, {"print"})
        /\ UNCHANGED <<debug, register, output_dir, written, count, sum, outputs>>
    BY <1>4 DEF ReturnDir, Goto
  <2>3. d \in Workers /\ Promised(d)
    BY <2>1, <2>2 DEF NameTypes, Strings
  <2>4. d \notin written => w \in raced'
    BY <2>2, <2>3 DEF NoteRace, Meets, Promised
  <2>5. raced' \in {raced, raced \cup {w}}
    BY <2>2 DEF NoteRace
  <2>6. NameTypes'
    BY <2>1, <2>2, <2>3 DEF NameTypes
  <2>7. Strings'
    BY <2>1, <2>2, <2>3, <2>4, <2>5 DEF NameTypes, Strings, Promised
  <2>8. WrongDirNeedsARace'
    BY <2>2, <2>5, OtherOutputsKept DEF Labels
  <2> QED BY <2>6, <2>7, <2>8
<1>5. CASE AddOne(w) \/ StoreCount(w)
  <2>1. (count + 1) % 1000000 \in Nat
    BY SMT DEF NameTypes
  <2>2. /\ pc[w] \in {"add", "store"}
        /\ \E l \in {"store", "name"} : pc' = [pc EXCEPT ![w] = l]
        /\ UNCHANGED <<debug, raced, register, output_dir, written, dir, outputs>>
    BY <1>5, SMT DEF AddOne, AddOneTo, StoreCount, Goto
  <2>3. NameTypes'
    BY <1>5, <2>1, <2>2, SMT DEF AddOne, AddOneTo, StoreCount, NameTypes
  <2>4. Strings'
    BY <2>2 DEF NameTypes, Strings, Promised
  <2>5. WrongDirNeedsARace'
    BY <2>2, OtherOutputsKept DEF Labels
  <2> QED BY <2>3, <2>4, <2>5
<1>6. CASE NameOutput(w)
  <2>1. PICK output \in Output :
            /\ output.inDir = (dir[w] \in written)
            /\ outputs' = [outputs EXCEPT ![w] = Append(@, output)]
    <3> DEFINE number == (IF debug THEN count ELSE sum[w]) % 100000
               output == [number |-> number, inDir |-> dir[w] \in written]
    <3>1. number \in Nat
      BY SMT DEF NameTypes
    <3>2. outputs' = [outputs EXCEPT ![w] = Append(@, output)]
      BY <1>6, SMT DEF NameOutput
    <3> HIDE DEF number
    <3>3. output \in Output /\ output.inDir = (dir[w] \in written)
      BY <3>1 DEF Output
    <3> QED BY <3>2, <3>3
  <2>2. /\ pc[w] = "name" /\ pc' = [pc EXCEPT ![w] = "named"]
        /\ UNCHANGED <<debug, raced, register, output_dir, written, dir, count, sum>>
    BY <1>6, SMT DEF NameOutput, Goto
  <2>3. NameTypes'
    BY <2>1, <2>2 DEF NameTypes
  <2>4. Strings'
    BY <2>2 DEF NameTypes, Strings, Promised
  <2>5. WrongDirNeedsARace'
    <3> SUFFICES ASSUME NEW v \in Workers, pc'[v] = "named", v \notin raced'
                 PROVE  outputs'[v][Len(outputs'[v])].inDir
      BY DEF WrongDirNeedsARace
    <3>1. CASE v # w
      BY <2>1, <2>2, <3>1 DEF NameTypes, WrongDirNeedsARace
    <3>2. CASE v = w
      <4>1. outputs'[w][Len(outputs'[w])] = output
        BY <2>1 DEF NameTypes
      <4>2. dir[w] \in written
        BY <2>2, <3>2 DEF Strings
      <4> QED BY <2>1, <3>2, <4>1, <4>2
    <3> QED BY <3>1, <3>2
  <2> QED BY <2>3, <2>4, <2>5
<1>7. CASE OutputCopied(w)
  <2>1. /\ pc[w] = "named" /\ pc' = [pc EXCEPT ![w] = "idle"]
        /\ UNCHANGED <<debug, raced, register, names>>
    BY <1>7 DEF OutputCopied, Goto
  <2>2. NameTypes'
    BY <2>1 DEF NameTypes, names
  <2>3. Strings'
    BY <2>1 DEF NameTypes, Strings, Promised, names
  <2>4. WrongDirNeedsARace'
    BY <2>1, OtherOutputsKept DEF Labels, names
  <2> QED BY <2>2, <2>3, <2>4
<1> QED BY <1>1, <1>2, <1>3, <1>4, <1>5, <1>6, <1>7

LEMMA NameStep == TableInv /\ NameInv /\ [Next]_vars => NameInv'
<1> SUFFICES ASSUME TableInv, NameInv, [Next]_vars PROVE NameInv'
  OBVIOUS
<1>1. CASE UNCHANGED vars
  BY <1>1 DEF vars, names, NameInv, NameTypes, Strings, Promised, WrongDirNeedsARace
<1> QED BY <1>1, TableKeepsName, NameKeeps DEF Next

LEMMA SharedAlways == Spec => [](TableInv /\ NameInv)
<1>1. TableInv /\ NameInv /\ [Next]_vars => TableInv' /\ NameInv'
  BY TableStep, NameStep DEF NameInv
<1> QED BY <1>1, TableInit, NameInit, PTL DEF Spec

-----------------------------------------------------------------------------
(* The numbers *)

\* A set of outputs is finite, and its size has at most five digits.
LEMMA FewNumbers ==
  ASSUME FewOutputs, NEW S, S \subseteq Workers \X (1..MaxOutputs)
  PROVE  IsFiniteSet(S) /\ Cardinality(S) \in Nat /\ Cardinality(S) < FiveDigits
<1> DEFINE most == 1..MaxOutputs
<1>1. IsFiniteSet(most) /\ Cardinality(most) = MaxOutputs /\ MaxOutputs \in Nat
  BY FS_Interval, StaticsAssumption
<1>2. IsFiniteSet(Workers) /\ Cardinality(Workers) \in Nat
  BY FS_CardinalityType DEF FewOutputs
<1> HIDE DEF most
<1>3. /\ IsFiniteSet(Workers \X most)
      /\ Cardinality(Workers \X most) = Cardinality(Workers) * Cardinality(most)
  BY <1>1, <1>2, FS_Product
<1>4. S \subseteq Workers \X most
  BY DEF most
<1>5. /\ IsFiniteSet(S) /\ Cardinality(S) <= Cardinality(Workers \X most)
      /\ Cardinality(S) \in Nat
  BY <1>3, <1>4, FS_Subset, FS_CardinalityType
<1> QED BY <1>1, <1>2, <1>3, <1>5, SMT DEF FewOutputs, FiveDigits

LEMMA NumberedIsSmall ==
  ASSUME FewOutputs
  PROVE  /\ IsFiniteSet(Numbered) /\ Cardinality(Numbered) \in Nat
         /\ Cardinality(Numbered) < FiveDigits
<1>1. Numbered \subseteq Workers \X (1..MaxOutputs)
  BY DEF Numbered
<1> QED BY <1>1, FewNumbers

\* Up to there, neither the count nor a name's number is cut off.
LEMMA SmallNumbers ==
  ASSUME NEW n \in Nat, n < FiveDigits
  PROVE  SixDigitsOf(n + 1) = n + 1 /\ FiveDigitsOf(n) = n
BY SMT DEF FiveDigits, SixDigitsOf, FiveDigitsOf

LEMMA CountInit == ASSUME FewOutputs, Init PROVE CountInv
<1>1. /\ \A w \in Workers : outputs[w] = <<>> /\ pc[w] = "idle"
      /\ count = 0 /\ setBack = FALSE /\ MaxOutputs \in Nat
  BY StaticsAssumption DEF Init
<1>2. \A w \in Workers : Len(outputs[w]) = 0 /\ 1..Len(outputs[w]) = {}
  BY <1>1, Len(<<>>) = 0, 1..0 = {}
<1>3. Room
  BY <1>1, <1>2, 0 <= MaxOutputs DEF Room
<1>4. Counted
  BY <1>1, NumberedIsSmall DEF Counted
<1>5. Rising
  BY <1>1, <1>2 DEF Rising, Below, Apart
<1> QED BY <1>1, <1>3, <1>4, <1>5 DEF CountInv

\* The steps that give out no number.
LEMMA OthersKeepCount ==
  ASSUME FewOutputs, TableInv, NameInv, CountInv, NEW w \in Workers,
         \/ TestTable(w) \/ AllocateTable(w) \/ ClearTable(w) \/ FillTable(w)
         \/ StartCopy(w) \/ CopyEntry(w) \/ NextTest(w)
         \/ TestDir(w) \/ AllocateDir(w) \/ PrintDir(w) \/ ReturnDir(w) \/ OutputCopied(w)
  PROVE  CountInv'
<1> DEFINE later == {"allocate", "print", "return", "add"}
<1>1. /\ pc[w] \notin {"store", "name"}
      /\ \E l \in Labels \ {"store", "name"} :
            /\ pc' = [pc EXCEPT ![w] = l]
            /\ l \in later => pc[w] \in later \/ Len(outputs[w]) < MaxOutputs
      /\ UNCHANGED <<outputs, count, sum, setBack>>
  <2>1. CASE TestTable(w) \/ AllocateTable(w) \/ ClearTable(w) \/ FillTable(w)
    BY <2>1 DEF TestTable, AllocateTable, ClearTable, FillTable, Goto, Labels, names
  <2>2. CASE StartCopy(w) \/ CopyEntry(w) \/ NextTest(w) \/ OutputCopied(w)
    BY <2>2 DEF StartCopy, CopyEntry, NextTest, OutputCopied, Goto, Labels, names
  <2>3. CASE TestDir(w) \/ AllocateDir(w) \/ PrintDir(w) \/ ReturnDir(w)
    BY <2>3 DEF TestDir, AllocateDir, PrintDir, ReturnDir, Goto, Labels, names
  <2> QED BY <2>1, <2>2, <2>3
<1>2. pc \in [Workers -> Labels]
  BY DEF TableInv, TableTypes
<1>3. \A v \in Workers : \A l \in {"store", "name"} : pc'[v] = l <=> pc[v] = l
  BY <1>1, <1>2
<1>4. Numbered' = Numbered
  BY <1>1, <1>3 DEF Numbered, Given
<1>5. Room'
  BY <1>1, <1>2 DEF CountInv, Room
<1>6. Counted'
  BY <1>1, <1>3, <1>4 DEF CountInv, Counted
<1>7. Rising'
  BY <1>1, <1>3 DEF CountInv, Rising, Below, Apart
<1> QED BY <1>1, <1>5, <1>6, <1>7 DEF CountInv

LEMMA AddOneKeeps ==
  ASSUME FewOutputs, TableInv, NameInv, CountInv, NEW w \in Workers, AddOne(w)
  PROVE  CountInv'
<1> DEFINE o == <<w, Len(outputs[w]) + 1>>
<1>0. /\ pc \in [Workers -> Labels] /\ count \in Nat /\ sum \in [Workers -> Nat]
      /\ outputs \in [Workers -> Seq(Output)] /\ MaxOutputs \in Nat
  BY StaticsAssumption DEF TableInv, TableTypes, NameInv, NameTypes
<1>1. /\ pc[w] = "add" /\ pc' = [pc EXCEPT ![w] = "store"]
      /\ UNCHANGED <<outputs, count, setBack>>
  BY SMT DEF AddOne, AddOneTo, Goto
<1>2. Cardinality(Numbered) \in Nat /\ count <= Cardinality(Numbered)
  BY NumberedIsSmall DEF CountInv, Counted
<1>3. sum' = [sum EXCEPT ![w] = count + 1]
  <2>1. count < FiveDigits
    <3>1. FiveDigits \in Nat
      BY SMT DEF FiveDigits
    <3> QED BY <1>0, <1>2, <3>1, NumberedIsSmall
  <2>2. SixDigitsOf(count + 1) = count + 1
    BY <1>0, <2>1, SmallNumbers
  <2>3. sum' = [sum EXCEPT ![w] = SixDigitsOf(count + 1)]
    BY SMT DEF AddOne, AddOneTo, SixDigitsOf
  <2> QED BY <2>2, <2>3, Zenon
<1>4. Numbered' = Numbered \cup {o} /\ o \notin Numbered
  <2>1. Len(outputs[w]) \in Nat /\ Len(outputs[w]) < MaxOutputs
    BY <1>0, <1>1 DEF CountInv, Room
  <2>2. o \in Workers \X (1..MaxOutputs) /\ o[1] = w /\ o[2] = Len(outputs[w]) + 1
    BY <1>0, <2>1
  <2>3. /\ Given(w) = Len(outputs[w]) /\ Given(w)' = Len(outputs[w]) + 1
        /\ \A v \in Workers \ {w} : Given(v)' = Given(v)
    BY <1>0, <1>1, <2>1 DEF Given
  <2>4. \A p \in Workers \X (1..MaxOutputs) :
            p = o <=> p[1] = w /\ p[2] = Len(outputs[w]) + 1
    OBVIOUS
  <2> HIDE DEF o
  <2>5. o \notin Numbered
    BY <2>1, <2>2, <2>3 DEF Numbered
  <2>6. ASSUME NEW p \in Workers \X (1..MaxOutputs)
        PROVE  p[2] <= Given(p[1])' <=> p[2] <= Given(p[1]) \/ p = o
    <3>1. p[1] \in Workers /\ p[2] \in Nat
      BY <1>0
    <3>2. CASE p[1] = w
      BY <2>1, <2>3, <2>4, <3>1, <3>2
    <3>3. CASE p[1] # w
      BY <2>2, <2>3, <3>1, <3>3
    <3> QED BY <3>2, <3>3
  <2>7. Numbered' = {p \in Workers \X (1..MaxOutputs) : p[2] <= Given(p[1])'}
    BY DEF Numbered
  <2> QED BY <2>2, <2>5, <2>6, <2>7 DEF Numbered
<1>5. Cardinality(Numbered') = Cardinality(Numbered) + 1
  BY <1>4, NumberedIsSmall, FS_AddElement
<1>6. Room'
  BY <1>0, <1>1 DEF CountInv, Room
<1>7. Counted'
  BY <1>0, <1>1, <1>2, <1>3, <1>5 DEF CountInv, Counted
<1>8. Rising'
  BY <1>0, <1>1, <1>3 DEF CountInv, Rising, Below, Apart
<1> QED BY <1>1, <1>6, <1>7, <1>8 DEF CountInv

LEMMA StoreCountKeeps ==
  ASSUME FewOutputs, TableInv, NameInv, CountInv, NEW w \in Workers, StoreCount(w)
  PROVE  CountInv'
<1>0. /\ pc \in [Workers -> Labels] /\ count \in Nat /\ sum \in [Workers -> Nat]
      /\ outputs \in [Workers -> Seq(Output)] /\ setBack \in BOOLEAN
  BY DEF TableInv, TableTypes, NameInv, NameTypes, CountInv
<1>1. /\ pc[w] = "store" /\ pc' = [pc EXCEPT ![w] = "name"]
      /\ count' = sum[w] /\ UNCHANGED <<outputs, sum>>
      /\ setBack' = (setBack \/ sum[w] < count)
  BY DEF StoreCount, Goto
<1>2. setBack' \in BOOLEAN /\ (setBack' = FALSE => setBack = FALSE /\ count <= sum[w])
  <2>1. sum[w] \in Nat
    BY <1>0
  <2>2. setBack = TRUE \/ setBack = FALSE
    BY <1>0, Zenon
  <2>3. CASE sum[w] < count
    BY <1>1, <2>3, Zenon
  <2>4. CASE ~(sum[w] < count)
    <3>1. setBack' = setBack
      BY <1>0, <1>1, <2>2, <2>4, Zenon
    <3>2. count <= sum[w]
      BY <1>0, <2>1, <2>4
    <3> QED BY <1>0, <3>1, <3>2
  <2> QED BY <2>3, <2>4
<1>3. Numbered' = Numbered
  BY <1>0, <1>1 DEF Numbered, Given
<1>4. Room'
  BY <1>0, <1>1 DEF CountInv, Room
<1>5. Counted'
  BY <1>0, <1>1, <1>3 DEF CountInv, Counted
<1>6. Rising'
  <2> SUFFICES ASSUME setBack' = FALSE PROVE Rising'
    BY DEF Rising
  <2>1. \A v \in Workers : \A m \in 1..Len(outputs[v]) : outputs[v][m].number \in Nat
    <3>1. \A v \in Workers : \A m \in 1..Len(outputs[v]) : outputs[v][m] \in Output
      BY <1>0
    <3> QED BY <3>1 DEF Output
  <2>2. sum[w] \in Nat /\ count <= sum[w] /\ setBack = FALSE
    BY <1>0, <1>2
  <2>3. \A v \in Workers : Below(v, count + 1) => Below(v, sum[w] + 1)
    BY <1>0, <2>1, <2>2 DEF Below
  <2>4. \A v \in Workers :
            /\ Below(v, sum[w] + 1) /\ Apart(v)
            /\ pc[v] = "store" => Below(v, sum[v])
            /\ pc[v] = "name" => Below(v, sum[v]) /\ sum[v] <= sum[w]
    BY <1>0, <2>2, <2>3 DEF CountInv, Rising
  <2>5. \A v \in Workers :
            /\ pc'[v] = "store" => pc[v] = "store"
            /\ pc'[v] = "name" => pc[v] = "name" \/ v = w
    BY <1>0, <1>1
  <2>6. \A v \in Workers :
            /\ Below(v, sum[w] + 1) => (Below(v, count + 1))'
            /\ Apart(v) => (Apart(v))'
            /\ Below(v, sum[v]) => (Below(v, sum[v]))'
            /\ sum[v] <= sum[w] => sum'[v] <= count'
    BY <1>1 DEF Below, Apart
  <2>7. sum[w] <= sum[w] /\ Below(w, sum[w])
    BY <1>1, <2>2 DEF CountInv, Rising
  <2> QED BY <2>4, <2>5, <2>6, <2>7 DEF Rising
<1> QED BY <1>2, <1>4, <1>5, <1>6 DEF CountInv

LEMMA NameOutputKeeps ==
  ASSUME FewOutputs, TableInv, NameInv, CountInv, NEW w \in Workers, NameOutput(w)
  PROVE  CountInv'
<1> DEFINE number == IF debug THEN count ELSE sum[w]
           named == outputs[w]
<1>0. /\ pc \in [Workers -> Labels] /\ count \in Nat /\ sum \in [Workers -> Nat]
      /\ outputs \in [Workers -> Seq(Output)] /\ MaxOutputs \in Nat /\ debug \in BOOLEAN
  BY StaticsAssumption DEF TableInv, TableTypes, NameInv, NameTypes
<1>1. /\ pc[w] = "name" /\ pc' = [pc EXCEPT ![w] = "named"]
      /\ UNCHANGED <<count, sum, setBack>>
  BY SMT DEF NameOutput, Goto
<1>2. number \in Nat /\ (setBack = FALSE => Below(w, number) /\ number <= count)
  <2>1. setBack = FALSE => Below(w, sum[w]) /\ sum[w] <= count
    BY <1>1 DEF CountInv, Rising
  <2>2. Below(w, sum[w]) /\ sum[w] <= count => Below(w, count)
    <3>1. \A m \in 1..Len(outputs[w]) : outputs[w][m] \in Output
      BY <1>0
    <3>2. \A m \in 1..Len(outputs[w]) : outputs[w][m].number \in Nat
      BY <3>1 DEF Output
    <3> QED BY <1>0, <3>2 DEF Below
  <2> QED BY <1>0, <2>1, <2>2
<1>3. PICK output : /\ output.number = FiveDigitsOf(number)
                    /\ outputs' = [outputs EXCEPT ![w] = Append(@, output)]
  <2> DEFINE cut == FiveDigitsOf(number)
             output == [number |-> cut, inDir |-> dir[w] \in written]
  <2>1. outputs' = [outputs EXCEPT ![w] = Append(@, output)]
    BY SMT DEF NameOutput, FiveDigitsOf
  <2> HIDE DEF cut
  <2>2. output.number = cut
    OBVIOUS
  <2> HIDE DEF output
  <2> QED BY <2>1, <2>2 DEF cut
<1>4. setBack = FALSE => output.number = number
  <2>1. count < FiveDigits
    <3>1. FiveDigits \in Nat
      BY SMT DEF FiveDigits
    <3>2. Cardinality(Numbered) \in Nat /\ count <= Cardinality(Numbered)
      BY NumberedIsSmall DEF CountInv, Counted
    <3> QED BY <1>0, <3>1, <3>2, NumberedIsSmall
  <2>2. SUFFICES ASSUME setBack = FALSE PROVE output.number = number
    OBVIOUS
  <2>3. FiveDigits \in Nat
    BY SMT DEF FiveDigits
  <2>4. number < FiveDigits
    BY <1>0, <1>2, <2>1, <2>2, <2>3
  <2> HIDE DEF number
  <2>5. FiveDigitsOf(number) = number
    BY <1>2, <2>4, SmallNumbers
  <2> QED BY <1>3, <2>5, Zenon
<1> HIDE DEF number
<1>5. /\ Len(named) \in Nat /\ Len(named) < MaxOutputs
      /\ Len(outputs'[w]) = Len(named) + 1
      /\ \A m \in 1..Len(named) : outputs'[w][m] = named[m]
      /\ outputs'[w][Len(named) + 1] = output
      /\ \A v \in Workers \ {w} : outputs'[v] = outputs[v]
  BY <1>0, <1>1, <1>3 DEF CountInv, Room
<1>6. Numbered' = Numbered
  <2>1. \A v \in Workers : Given(v)' = Given(v)
    <3>1. Given(w)' = Len(named) + 1 /\ Given(w) = Len(named) + 1
      BY <1>0, <1>1, <1>5 DEF Given
    <3>2. \A v \in Workers \ {w} : Given(v)' = Given(v)
      BY <1>0, <1>1, <1>5 DEF Given
    <3> QED BY <3>1, <3>2
  <2> QED BY <2>1 DEF Numbered
<1>7. Room'
  BY <1>0, <1>1, <1>5 DEF CountInv, Room
<1>8. Counted'
  BY <1>0, <1>1, <1>6 DEF CountInv, Counted
<1>9. Rising'
  <2> SUFFICES ASSUME setBack' = FALSE, NEW v \in Workers
               PROVE  /\ Below(v, count + 1)' /\ Apart(v)'
                      /\ pc'[v] = "store" => Below(v, sum[v])'
                      /\ pc'[v] = "name" => Below(v, sum[v])' /\ sum'[v] <= count'
    BY DEF Rising
  <2>1. setBack = FALSE
    BY <1>1
  <2>2. CASE v # w
    <3>1. /\ pc'[v] = pc[v] /\ outputs'[v] = outputs[v]
          /\ Below(v, count + 1) /\ Apart(v)
          /\ pc[v] = "store" => Below(v, sum[v])
          /\ pc[v] = "name" => Below(v, sum[v]) /\ sum[v] <= count
      BY <1>0, <1>1, <1>5, <2>1, <2>2 DEF CountInv, Rising
    <3> QED BY <1>1, <3>1 DEF Below, Apart
  <2>3. CASE v = w
    <3>1. pc'[v] = "named"
      BY <1>0, <1>1, <2>3
    <3>2. output.number = number /\ number <= count
      BY <1>2, <1>4, <2>1
    <3>3. \A m \in 1..Len(named) : named[m].number < number /\ named[m].number < count + 1
      BY <1>2, <2>1 DEF Below, CountInv, Rising
    <3>5. \A m \in 1..Len(outputs'[w]) : m = Len(named) + 1 \/ m \in 1..Len(named)
      BY <1>5
    <3>4. Below(v, count + 1)'
      <4>1. number < count + 1
        BY <1>0, <1>2, <3>2
      <4>2. ASSUME NEW m \in 1..Len(outputs'[w]) PROVE outputs'[w][m].number < count + 1
        BY <1>5, <3>2, <3>3, <3>5, <4>1
      <4> QED BY <1>1, <2>3, <4>2 DEF Below
    <3>6. Apart(w)
      BY <2>1 DEF CountInv, Rising
    <3>7. \A m \in 1..Len(named) : named[m].number # number
      BY <1>2, <3>3
    <3>8. Apart(v)'
      <4>1. ASSUME NEW m \in 1..Len(outputs'[w]), NEW n \in 1..Len(outputs'[w]), m # n
            PROVE  outputs'[w][m].number # outputs'[w][n].number
        <5>1. CASE m \in 1..Len(named) /\ n \in 1..Len(named)
          BY <1>5, <3>6, <4>1, <5>1 DEF Apart
        <5>2. CASE m = Len(named) + 1 \/ n = Len(named) + 1
          BY <1>5, <3>2, <3>5, <3>7, <4>1, <5>2
        <5> QED BY <3>5, <5>1, <5>2
      <4> QED BY <2>3, <4>1 DEF Apart
    <3> QED BY <3>1, <3>4, <3>8
  <2> QED BY <2>2, <2>3
<1> QED BY <1>1, <1>7, <1>8, <1>9 DEF CountInv

LEMMA CountStep ==
  FewOutputs => (TableInv /\ NameInv /\ CountInv /\ [Next]_vars => CountInv')
<1> SUFFICES ASSUME FewOutputs, TableInv, NameInv, CountInv, [Next]_vars PROVE CountInv'
  OBVIOUS
<1>1. CASE UNCHANGED vars
  BY <1>1 DEF vars, names, CountInv, Room, Counted, Numbered, Given, Rising, Below, Apart
<1>2. CASE Next
  BY <1>2, OthersKeepCount, AddOneKeeps, StoreCountKeeps, NameOutputKeeps DEF Next
<1> QED BY <1>1, <1>2

-----------------------------------------------------------------------------
(* The theorems *)

\* The limits of init_system_call_limits: in every interleaving of any number of
\* workers, a program that is launched with other limits than the table's was
\* launched by a worker that met another one building.
THEOREM WrongLimitsMeetABuilder == Spec => []WrongLimitsNeedARace
<1>1. TableInv => WrongLimitsNeedARace
  BY DEF TableInv, Copied, Certain, WrongLimitsNeedARace
<1> QED BY <1>1, SharedAlways, PTL

\* The name of the directory for outputs: only a worker that met another one at
\* the snprintf in get_output_dir names a wrong place.
THEOREM WrongDirMeetsAPrinter == Spec => []WrongDirNeedsARace
<1>1. NameInv => WrongDirNeedsARace
  BY DEF NameInv
<1> QED BY <1>1, SharedAlways, PTL

\* The numbers of get_result_count, as long as they fit into a name: two outputs
\* of one submission get one name only after a lost update set the count back.
THEOREM OneNameNeedsALostUpdate == ASSUME FewOutputs PROVE Spec => []OutputsApart
<1>1. Init => CountInv
  BY CountInit
<1>2. TableInv /\ NameInv /\ CountInv /\ [Next]_vars => CountInv'
  BY CountStep
<1>3. CountInv => OutputsApart
  BY DEF CountInv, Rising, Apart, OutputsApart
<1> QED BY <1>1, <1>2, <1>3, SharedAlways, PTL DEF Spec
=============================================================================
