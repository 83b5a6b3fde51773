-------------------------- MODULE DBConnMgrProofs ---------------------------
(***************************************************************************)
(* Theorems about DBConnMgr, for every number of connections and every     *)
(* finite set of threads.  Mutual exclusion and the marks of the table     *)
(* (Marks) keep a connection in one hand; that a search never fails also   *)
(* needs the count of those who passed the semaphore (SemCounts): were     *)
(* all usable connections in hands, the searching thread would be one too  *)
(* many.                                                                   *)
(***************************************************************************)
EXTENDS DBConnMgr, FunctionTheorems, FiniteSetTheorems, WellFoundedInduction, TLAPS

\* Those between sem_wait and sem_post, and those with a connection in hand.
Past == {c \in Clients : pc[c] \in {"lock", "search", "connect", "mark", "unlock",
                                    "got", "giveback", "unlock2", "post"}}
Holding == {c \in Clients : pc[c] \in {"unlock", "got", "giveback"}}

\* A thread is inside a critical section exactly when it holds the mutex.
MutexInv ==
    \A c \in Clients :
        pc[c] \in {"search", "connect", "mark", "unlock", "giveback", "unlock2"}
            <=> m_lock = c

\* A connection in hand is marked, one about to be marked is not marked yet.
Marks ==
    /\ \A c \in Holding : con[c] \in Usable /\ m_Conn_bits[con[c]] = "Used"
    /\ \A c, d \in Holding : con[c] = con[d] => c = d
    /\ \A i \in Connections : m_Conn_bits[i] = "Used" => \E c \in Holding : con[c] = i
    /\ \A c \in Clients : pc[c] \in {"connect", "mark"} =>
          con[c] \in Usable /\ m_Conn_bits[con[c]] # "Used"

\* The semaphore counts the connections nobody has passed it for.
SemCounts == m_sem + Cardinality(Past) = MAX_AVAILABLE_CONNECTIONS

ConnInv == TypeOK /\ MutexInv /\ Marks /\ SemCounts

-----------------------------------------------------------------------------
(* Counting *)

\* One thread more, or one less, past the semaphore.
LEMMA PastCard == IsFiniteSet(Past) /\ Cardinality(Past) \in Nat
<1>1. IsFiniteSet(Past)
  BY ConnAssumption, FS_Subset DEF Past
<1> QED BY <1>1, FS_CardinalityType

LEMMA PastGrows ==
  ASSUME NEW c \in Clients \ Past, Past' = Past \cup {c}
  PROVE  Cardinality(Past') = Cardinality(Past) + 1
BY PastCard, FS_AddElement

LEMMA PastShrinks ==
  ASSUME NEW c \in Past, Past' = Past \ {c}
  PROVE  Cardinality(Past') = Cardinality(Past) - 1
BY PastCard, FS_RemoveElement

\* A thread past the semaphore that holds nothing finds a connection that is
\* not marked: otherwise each of them would be in the hand of another thread
\* past the semaphore, more than the semaphore let through.
LEMMA SomethingIsLeft ==
  ASSUME ConnInv, NEW c \in Past \ Holding
  PROVE  \E i \in Usable : m_Conn_bits[i] # "Used"
<1> SUFFICES ASSUME \A i \in Usable : m_Conn_bits[i] = "Used" PROVE FALSE
  OBVIOUS
<1> DEFINE n == MAX_AVAILABLE_CONNECTIONS
           holder(i) == CHOOSE d \in Holding : con[d] = i
           f == [i \in Usable |-> holder(i)]
<1>1. n \in Nat /\ Usable = 0..(n - 1)
  BY ConnAssumption DEF ConnInv, TypeOK, Usable, Connections
<1>2. \A i \in Usable : holder(i) \in Holding /\ con[holder(i)] = i
  BY DEF ConnInv, Marks, Usable
<1>3. f \in Injection(Usable, Past \ {c})
  <2>1. Holding \subseteq Past \ {c}
    BY DEF Holding, Past
  <2>2. f \in [Usable -> Past \ {c}]
    BY <1>2, <2>1
  <2>3. \A i, j \in Usable : f[i] = f[j] => i = j
    BY <1>2
  <2> QED BY <2>2, <2>3, Fun_IsInj
<1>4. /\ IsFiniteSet(Past \ {c})
      /\ Cardinality(Past \ {c}) = Cardinality(Past) - 1
  BY PastCard, FS_RemoveElement
<1>5. Cardinality(Usable) <= Cardinality(Past) - 1
  BY <1>3, <1>4, FS_Injection
<1>6. Cardinality(Usable) = n
  BY <1>1, FS_Interval
<1>7. m_sem \in Nat /\ m_sem + Cardinality(Past) = n
  BY <1>1 DEF ConnInv, TypeOK, SemCounts
<1> QED BY <1>1, <1>5, <1>6, <1>7, PastCard

\* What First returns is a usable connection in the given state, or NULL when
\* there is none.
LEMMA FirstFinds ==
  ASSUME NEW state, TypeOK
  PROVE  /\ First(state) # NULL => First(state) \in Usable
                                   /\ m_Conn_bits[First(state)] = state
         /\ First(state) = NULL => \A i \in Usable : m_Conn_bits[i] # state
<1> DEFINE found == {i \in Usable : m_Conn_bits[i] = state}
<1>1. CASE found = {}
  BY <1>1 DEF First
<1>2. CASE found # {}
  <2>1. found \in SUBSET Nat /\ NULL \notin found
    BY ConnAssumption DEF Usable, Connections
  <2>2. \E i \in found : \A j \in found : i <= j
    <3> DEFINE less == {p \in Nat \X Nat : p[1] < p[2]}
    <3>1. IsWellFoundedOn(less, Nat)
      BY NatLessThanWellFounded, Zenon DEF OpToRel
    <3>2. PICK i \in found : \A j \in found : <<j, i>> \notin less
      BY <1>2, <2>1, <3>1, WFMin
    <3>3. \A j \in found : ~ (j < i)
      BY <2>1, <3>2
    <3> QED BY <2>1, <3>3
  <2>3. First(state) \in found
    BY <1>2, <2>2 DEF First
  <2> QED BY <2>1, <2>3
<1> QED BY <1>1, <1>2

-----------------------------------------------------------------------------
(* The invariant *)

\* In the initial state nobody is past the semaphore.
LEMMA ConnInit == Init => ConnInv
<1> SUFFICES ASSUME Init PROVE ConnInv
  OBVIOUS
<1> USE ConnAssumption DEF Init
<1>1. MAX_AVAILABLE_CONNECTIONS \in 1..MAX_CONNECTIONS
  BY DEF Capped
<1>2. TypeOK
  BY <1>1 DEF TypeOK
<1>3. MutexInv /\ Marks
  BY DEF MutexInv, Marks, Holding
<1>4. SemCounts
  <2>1. Past = {}
    BY DEF Past
  <2> QED BY <1>1, <2>1, FS_EmptySet DEF SemCounts
<1> QED BY <1>2, <1>3, <1>4 DEF ConnInv

\* Every step keeps the count: sem_wait lets one thread in, sem_post one out.
LEMMA CountStep ==
  ASSUME ConnInv, NEW c \in Clients,
         Ask(c) \/ GetAvailableConnection(c) \/ ReleaseConnection(c)
  PROVE  /\ SemCounts'
         /\ m_sem' \in 0..MAX_AVAILABLE_CONNECTIONS'
<1> USE DEF Goto
<1>0. /\ m_sem \in Nat /\ MAX_AVAILABLE_CONNECTIONS \in Nat
      /\ m_sem + Cardinality(Past) = MAX_AVAILABLE_CONNECTIONS
      /\ pc \in [Clients -> {"idle", "wait", "lock", "search", "mark", "unlock",
                             "connect", "got", "giveback", "unlock2", "post"}]
      /\ Cardinality(Past) \in Nat
  BY ConnAssumption, PastCard DEF ConnInv, TypeOK, SemCounts
<1>1. CASE WaitSem(c)
  <2>1. c \in Clients \ Past /\ Past' = Past \cup {c}
    BY <1>0, <1>1 DEF WaitSem, Past
  <2>2. Cardinality(Past') = Cardinality(Past) + 1
    BY <2>1, PastGrows
  <2> QED BY <1>0, <1>1, <2>2 DEF WaitSem, SemCounts
<1>2. CASE PostSem(c)
  <2>1. c \in Past /\ Past' = Past \ {c}
    BY <1>0, <1>2 DEF PostSem, Return, Past
  <2>2. Cardinality(Past') = Cardinality(Past) - 1
    BY <2>1, PastShrinks
  <2>3. m_sem' + Cardinality(Past') = MAX_AVAILABLE_CONNECTIONS'
    BY <1>0, <1>2, <2>2 DEF PostSem, Return
  <2>4. Cardinality(Past') \in Nat
    <3>1. IsFiniteSet(Past')
      BY <2>1, PastCard, FS_RemoveElement
    <3> QED BY <3>1, FS_CardinalityType
  <2> QED BY <1>0, <1>2, <2>3, <2>4 DEF PostSem, Return, SemCounts
<1>3. CASE \E from, to \in {"idle", "wait", "lock", "search", "mark", "unlock",
                            "connect", "got", "giveback", "unlock2", "post"} :
             /\ Goto(c, from, to)
             /\ from \in {"idle", "wait"} <=> to \in {"idle", "wait"}
             /\ UNCHANGED m_sem
  <2>1. Past' = Past
    BY <1>0, <1>3 DEF Past
  <2> QED BY <1>0, <1>3, <2>1 DEF SemCounts
<1> QED BY <1>1, <1>2, <1>3
        DEF GetAvailableConnection, ReleaseConnection, Ask, LockToGet, Lock, Search,
            Connect, Mark, UnlockGot, LockToRelease, MarkAvailable, UnlockReleased

\* Every step of a thread keeps the types, the mutex and the marks: it is here
\* that two threads could be given one connection.
LEMMA MarksStep ==
  ASSUME ConnInv, NEW c \in Clients,
         Ask(c) \/ GetAvailableConnection(c) \/ ReleaseConnection(c)
  PROVE  TypeOK' /\ MutexInv' /\ Marks'
<1>0. m_sem' \in 0..MAX_AVAILABLE_CONNECTIONS'
  BY CountStep
<1> USE <1>0, ConnAssumption
    DEF ConnInv, TypeOK, MutexInv, Marks, Holding, Goto, Connections, Usable
<1>1. CASE Ask(c)            BY <1>1 DEF Ask
<1>2. CASE WaitSem(c)        BY <1>2 DEF WaitSem
<1>3. CASE LockToGet(c)      BY <1>3 DEF LockToGet, Lock
<1>4. CASE Search(c)
  <2> DEFINE i == IF First("Available") # NULL THEN First("Available")
                                               ELSE First("Init")
  <2>1. c \in Past \ Holding
    BY <1>4 DEF Search, Past
  <2>2. i \in Usable /\ m_Conn_bits[i] # "Used"
    BY <2>1, SomethingIsLeft, FirstFinds
  <2>3. First("Available") # NULL \/ First("Init") # NULL
    BY <2>2
  <2>4. /\ con' = [con EXCEPT ![c] = i]
        /\ pc[c] = "search"
        /\ pc' = [pc EXCEPT ![c] = "mark"] \/ pc' = [pc EXCEPT ![c] = "connect"]
        /\ UNCHANGED <<MAX_AVAILABLE_CONNECTIONS, m_Conn_bits, sock, m_lock, m_sem>>
    <3>1. con' = [con EXCEPT ![c] = i]
      BY <1>4 DEF Search
    <3> HIDE DEF i
    <3> QED BY <1>4, <2>3, <3>1 DEF Search
  <2> HIDE DEF i
  <2> QED BY <2>2, <2>4
<1>5. CASE Connect(c)        BY <1>5 DEF Connect
<1>6. CASE Mark(c)           BY <1>6 DEF Mark
<1>7. CASE UnlockGot(c)      BY <1>7 DEF UnlockGot
<1>8. CASE LockToRelease(c)  BY <1>8 DEF LockToRelease, Lock
<1>9. CASE MarkAvailable(c)  BY <1>9 DEF MarkAvailable
<1>10. CASE UnlockReleased(c) BY <1>10 DEF UnlockReleased
<1>11. CASE PostSem(c)       BY <1>11 DEF PostSem, Return
<1> QED BY <1>1, <1>2, <1>3, <1>4, <1>5, <1>6, <1>7, <1>8, <1>9, <1>10, <1>11
        DEF GetAvailableConnection, ReleaseConnection

LEMMA ConnStep == ConnInv /\ [Next]_vars => ConnInv'
<1> SUFFICES ASSUME ConnInv, [Next]_vars PROVE ConnInv'
  OBVIOUS
<1>1. CASE UNCHANGED vars
  BY <1>1 DEF vars, ConnInv, TypeOK, MutexInv, Marks, Holding, Usable, SemCounts, Past
<1>2. ASSUME NEW c \in Clients,
             Ask(c) \/ GetAvailableConnection(c) \/ ReleaseConnection(c)
      PROVE  ConnInv'
  BY <1>2, CountStep, MarksStep DEF ConnInv
<1> QED BY <1>1, <1>2 DEF Next

LEMMA ConnAlways == Spec => []ConnInv
  BY ConnInit, ConnStep, PTL DEF Spec

\* The manager's variables keep their types; above all the semaphore never
\* passes the number of connections init() gave it.
THEOREM ConnTypeCorrect == Spec => []TypeOK
<1>1. ConnInv => TypeOK
  BY DEF ConnInv
<1> QED BY <1>1, ConnAlways, PTL

\* get_available_connection (db.cpp) never returns NULL, for any number of
\* connections and threads.
THEOREM ConnectionAlwaysFound == Spec => []NeverNull
<1>1. ConnInv => NeverNull
  BY ConnAssumption DEF ConnInv, NeverNull, Marks, Holding, Usable, Connections
<1> QED BY <1>1, ConnAlways, PTL

\* A connection of the table is marked Used exactly when it is in the hands of
\* one thread: release_connection never leaves a mark behind, and no two
\* threads are given the same connection.
THEOREM MarksAreTrue == Spec => []UsedIsHeld
<1>1. ASSUME ConnInv PROVE UsedIsHeld
  <2> SUFFICES ASSUME NEW i \in Connections
               PROVE  Cardinality({c \in Holding : con[c] = i})
                        = IF m_Conn_bits[i] = "Used" THEN 1 ELSE 0
    <3>1. \A i \in Connections :
            {c \in Clients : con[c] = i /\ pc[c] \in {"unlock", "got", "giveback"}}
              = {c \in Holding : con[c] = i}
      BY DEF Holding
    <3> QED BY <3>1 DEF UsedIsHeld
  <2>1. CASE m_Conn_bits[i] = "Used"
    <3>1. PICK c \in Holding : {d \in Holding : con[d] = i} = {c}
      BY <1>1, <2>1 DEF ConnInv, Marks
    <3> QED BY <2>1, <3>1, FS_Singleton
  <2>2. CASE m_Conn_bits[i] # "Used"
    <3>1. {d \in Holding : con[d] = i} = {}
      BY <1>1, <2>2 DEF ConnInv, Marks
    <3> QED BY <2>2, <3>1, FS_EmptySet
  <2> QED BY <2>1, <2>2
<1> QED BY <1>1, ConnAlways, PTL

-----------------------------------------------------------------------------
(* The refinement: Mark acquires, MarkAvailable releases, nothing else shows *)

LEMMA ExclusiveInit == Init => Exclusive!Init
  BY DEF Init, Held, Exclusive!Init

LEMMA ExclusiveStep == ConnInv /\ [Next]_vars => [Exclusive!Next]_Held
<1> SUFFICES ASSUME ConnInv, [Next]_vars
             PROVE  Exclusive!Next \/ UNCHANGED Held
  OBVIOUS
<1> USE DEF Goto
<1>0. /\ pc \in [Clients -> {"idle", "wait", "lock", "search", "mark", "unlock",
                             "connect", "got", "giveback", "unlock2", "post"}]
      /\ con \in [Clients -> Connections \cup {NULL}]
      /\ NULL \notin Connections
  BY ConnAssumption DEF ConnInv, TypeOK, Connections
<1>1. ASSUME NEW c \in Clients, Mark(c)
      PROVE  Exclusive!Acquire(c, con[c]) /\ con[c] \in Connections
  <2>1. con[c] \in Connections /\ m_Conn_bits[con[c]] # "Used"
    BY <1>1 DEF Mark, ConnInv, Marks, Usable
  <2>2. \A d \in Clients : Held[d] # con[c]
    BY <1>0, <2>1 DEF Held, ConnInv, Marks, Holding
  <2>3. Held[c] = NULL
    BY <1>1 DEF Mark, Held
  <2>4. Held' = [Held EXCEPT ![c] = con[c]]
    BY <1>0, <1>1 DEF Mark, Held
  <2> QED BY <2>1, <2>2, <2>3, <2>4 DEF Exclusive!Acquire, Exclusive!Free
<1>2. ASSUME NEW c \in Clients, MarkAvailable(c)
      PROVE  Exclusive!Release(c)
  <2>1. Held[c] # NULL
    BY <1>0, <1>2 DEF MarkAvailable, Held, ConnInv, Marks, Holding, Usable
  <2>2. Held' = [Held EXCEPT ![c] = NULL]
    BY <1>0, <1>2 DEF MarkAvailable, Held
  <2> QED BY <2>1, <2>2 DEF Exclusive!Release
<1>3. ASSUME NEW c \in Clients,
             \/ Ask(c) \/ WaitSem(c) \/ LockToGet(c) \/ Connect(c) \/ UnlockGot(c)
             \/ LockToRelease(c) \/ UnlockReleased(c) \/ PostSem(c)
      PROVE  UNCHANGED Held
  BY <1>0, <1>3 DEF Held, Ask, WaitSem, LockToGet, Lock, Connect, UnlockGot,
     LockToRelease, UnlockReleased, PostSem, Return
<1>4. ASSUME NEW c \in Clients, Search(c)
      PROVE  UNCHANGED Held
  <2>1. c \in Past \ Holding
    BY <1>4 DEF Search, Past, Holding
  <2>2. First("Available") # NULL \/ First("Init") # NULL
    BY <2>1, SomethingIsLeft, FirstFinds DEF ConnInv, TypeOK, Usable
  <2> QED BY <1>0, <1>4, <2>2 DEF Search, Held
<1>5. CASE UNCHANGED vars
  BY <1>5 DEF vars, Held
<1> QED BY <1>1, <1>2, <1>3, <1>4, <1>5
        DEF Next, GetAvailableConnection, ReleaseConnection, Exclusive!Next

\* The table of connections, its mutex and its semaphore are a pool of
\* exclusive resources: every step of db.cpp gives a free connection to a
\* thread that has none, takes one back, or shows nothing.
THEOREM ConnMgrIsAPool == Spec => ImplementsResourcePool
  BY ExclusiveInit, ExclusiveStep, ConnAlways, PTL
  DEF Spec, ImplementsResourcePool, Exclusive!Spec
=============================================================================
