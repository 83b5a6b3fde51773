----------------------------- MODULE DBConnMgr ------------------------------
(***************************************************************************)
(* db.cpp: at most MAX_CONNECTIONS MySQL connections, opened when first    *)
(* needed, handed out one client at a time.  m_sem counts the connections  *)
(* nobody holds, m_lock guards the table of their states.  A step is what  *)
(* a thread does between two points at which another thread could notice.  *)
(***************************************************************************)
EXTENDS Naturals, FiniteSets

CONSTANTS Clients,             \* the threads that use the database
          MAX_CONNECTIONS,     \* the length of m_Connections and m_Conn_bits
          DB_MAX_CONNECTIONS,  \* the values this key may have in the configuration
          NoOne,               \* the holder of a free mutex
          NULL                 \* no connection

ASSUME ConnAssumption ==
    /\ IsFiniteSet(Clients)
    /\ MAX_CONNECTIONS \in Nat \ {0}
    /\ DB_MAX_CONNECTIONS \subseteq Nat \ {0}
    /\ NoOne \notin Clients
    /\ NULL \notin Nat

VARIABLES MAX_AVAILABLE_CONNECTIONS,  \* set by init() and never again
          m_Conn_bits,  \* what the manager knows of each connection
          sock,         \* what mysql_real_connect made of each connection
          m_lock,       \* the client that holds it, or NoOne
          m_sem,
          pc,           \* where each client is
          con           \* each client's connection, an index of m_Conn_bits

vars == <<MAX_AVAILABLE_CONNECTIONS, m_Conn_bits, sock, m_lock, m_sem, pc, con>>

Connections == 0..(MAX_CONNECTIONS - 1)
Usable == {i \in Connections : i < MAX_AVAILABLE_CONNECTIONS}

\* init() caps the configured number by the length of the table.
Capped(n) == IF n > MAX_CONNECTIONS THEN MAX_CONNECTIONS ELSE n

Init ==
    /\ \E n \in DB_MAX_CONNECTIONS : MAX_AVAILABLE_CONNECTIONS = Capped(n)
    /\ m_Conn_bits = [i \in Connections |-> "Init"]
    /\ sock = [i \in Connections |-> "none"]
    /\ m_lock = NoOne
    /\ m_sem = MAX_AVAILABLE_CONNECTIONS
    /\ pc = [c \in Clients |-> "idle"]
    /\ con = [c \in Clients |-> NULL]

Goto(c, from, to) ==
    /\ pc[c] = from
    /\ pc' = [pc EXCEPT ![c] = to]
    /\ UNCHANGED MAX_AVAILABLE_CONNECTIONS

-----------------------------------------------------------------------------
(* get_available_connection *)

Ask(c) ==
    /\ Goto(c, "idle", "wait")
    /\ UNCHANGED <<m_Conn_bits, sock, m_lock, m_sem, con>>

WaitSem(c) ==
    /\ Goto(c, "wait", "lock")
    /\ m_sem > 0
    /\ m_sem' = m_sem - 1
    /\ UNCHANGED <<m_Conn_bits, sock, m_lock, con>>

Lock(c, from, to) ==
    /\ Goto(c, from, to)
    /\ m_lock = NoOne
    /\ m_lock' = c
    /\ UNCHANGED <<m_Conn_bits, sock, m_sem, con>>

\* Mutant: pthread_mutex_lock left out.
EnterUnlocked(c) ==
    /\ Goto(c, "lock", "search")
    /\ UNCHANGED <<m_Conn_bits, sock, m_lock, m_sem, con>>

LockToGet(c) == Lock(c, "lock", "search")

\* The first connection in a given state, NULL if there is none.
First(state) ==
    LET found == {i \in Usable : m_Conn_bits[i] = state}
    IN  IF found = {} THEN NULL ELSE CHOOSE i \in found : \A j \in found : i <= j

\* An open connection is preferred to one still to be opened; if there is
\* neither, con stays NULL and NULL is returned.
Search(c) ==
    LET open == First("Available")
        new  == First("Init")
    IN  /\ con' = [con EXCEPT ![c] = IF open # NULL THEN open ELSE new]
        /\ Goto(c, "search", IF open # NULL THEN "mark"
                             ELSE IF new # NULL THEN "connect" ELSE "unlock")
        /\ UNCHANGED <<m_Conn_bits, sock, m_lock, m_sem>>

\* connect_db: that it failed is logged, and the connection handed out all the
\* same.
Connect(c) ==
    /\ Goto(c, "connect", "mark")
    /\ \E outcome \in {"open", "failed"} : sock' = [sock EXCEPT ![con[c]] = outcome]
    /\ UNCHANGED <<m_Conn_bits, m_lock, m_sem, con>>

Mark(c) ==
    /\ Goto(c, "mark", "unlock")
    /\ m_Conn_bits' = [m_Conn_bits EXCEPT ![con[c]] = "Used"]
    /\ UNCHANGED <<sock, m_lock, m_sem, con>>

UnlockGot(c) ==
    /\ Goto(c, "unlock", "got")
    /\ m_lock' = NoOne
    /\ UNCHANGED <<m_Conn_bits, sock, m_sem, con>>

-----------------------------------------------------------------------------
(* release_connection *)

LockToRelease(c) == Lock(c, "got", "giveback")

\* Mutant: the connection is not marked.
KeepMark(c) ==
    /\ Goto(c, "giveback", "unlock2")
    /\ UNCHANGED <<m_Conn_bits, sock, m_lock, m_sem, con>>

MarkAvailable(c) ==
    /\ Goto(c, "giveback", "unlock2")
    /\ m_Conn_bits' = [i \in Connections |->
                         IF i \in Usable /\ m_Conn_bits[i] = "Used" /\ i = con[c]
                         THEN "Available" ELSE m_Conn_bits[i]]
    /\ UNCHANGED <<sock, m_lock, m_sem, con>>

UnlockReleased(c) ==
    /\ Goto(c, "unlock2", "post")
    /\ m_lock' = NoOne
    /\ UNCHANGED <<m_Conn_bits, sock, m_sem, con>>

Return(c, posts) ==
    /\ Goto(c, "post", "idle")
    /\ m_sem' = m_sem + posts
    /\ con' = [con EXCEPT ![c] = NULL]
    /\ UNCHANGED <<m_Conn_bits, sock, m_lock>>

\* Mutant: release_connection without sem_post.
ReturnWithoutPost(c) == Return(c, 0)

PostSem(c) == Return(c, 1)

-----------------------------------------------------------------------------
GetAvailableConnection(c) ==
    WaitSem(c) \/ LockToGet(c) \/ Search(c) \/ Connect(c) \/ Mark(c) \/ UnlockGot(c)

ReleaseConnection(c) ==
    LockToRelease(c) \/ MarkAvailable(c) \/ UnlockReleased(c) \/ PostSem(c)

Next == \E c \in Clients : Ask(c) \/ GetAvailableConnection(c) \/ ReleaseConnection(c)

Spec == Init /\ [][Next]_vars

\* A thread inside the manager goes on, and one that got a connection is done
\* with it some day; nobody has to ask.
FairSpec ==
    Spec /\ \A c \in Clients : WF_vars(GetAvailableConnection(c) \/ ReleaseConnection(c))

-----------------------------------------------------------------------------
(* Properties *)

\* The shape of the manager's state (db.h:26-32).
TypeOK ==
    /\ MAX_AVAILABLE_CONNECTIONS \in 1..MAX_CONNECTIONS
    /\ m_Conn_bits \in [Connections -> {"Init", "Available", "Used"}]
    /\ sock \in [Connections -> {"none", "open", "failed"}]
    /\ m_lock \in Clients \cup {NoOne}
    /\ m_sem \in 0..MAX_AVAILABLE_CONNECTIONS
    /\ pc \in [Clients -> {"idle", "wait", "lock", "search", "mark", "unlock",
                           "connect", "got", "giveback", "unlock2", "post"}]
    /\ con \in [Clients -> Connections \cup {NULL}]

\* get_available_connection never returns NULL: whoever passed the semaphore
\* finds a connection, because it is marked Available before the semaphore is
\* posted.
NeverNull == \A c \in Clients : pc[c] = "got" => con[c] # NULL

\* The clients a connection is in the hands of, and no other connection of the
\* table is marked Used: a connection is neither leaked nor shared.
UsedIsHeld ==
    \A i \in Connections :
        LET hands == {c \in Clients : con[c] = i /\ pc[c] \in {"unlock", "got", "giveback"}}
        IN  Cardinality(hands) = IF m_Conn_bits[i] = "Used" THEN 1 ELSE 0

\* The connections in the hands of clients, as ResourcePool sees them.
Held == [c \in Clients |->
            IF pc[c] \in {"unlock", "got", "giveback"} THEN con[c] ELSE NULL]

\* The manager implements a pool of exclusive resources.
Exclusive == INSTANCE ResourcePool WITH
    Resources <- Connections, Nothing <- NULL, holds <- Held
ImplementsResourcePool == Exclusive!Spec

\* While a client waits, somebody is served again and again.
SomeoneIsServed ==
    (\E c \in Clients : pc[c] = "wait") ~> (\E c \in Clients : pc[c] = "got")
=============================================================================
