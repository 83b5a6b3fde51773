---------------------------- MODULE ResourcePool ----------------------------
(***************************************************************************)
(* What a pool guarded by a counting semaphore promises to its clients,    *)
(* be it the connections of db.cpp or the judges of judge.cpp: a client    *)
(* that is served holds a resource nobody else holds.                      *)
(***************************************************************************)
CONSTANTS Clients,    \* the threads that ask for a resource
          Resources,  \* what they ask for
          Nothing     \* held by a client that holds no resource

VARIABLE holds        \* the resource each client holds

Free == {r \in Resources : \A c \in Clients : holds[c] # r}

Init == holds = [c \in Clients |-> Nothing]

Acquire(c, r) ==
    /\ holds[c] = Nothing
    /\ r \in Free
    /\ holds' = [holds EXCEPT ![c] = r]

Release(c) ==
    /\ holds[c] # Nothing
    /\ holds' = [holds EXCEPT ![c] = Nothing]

Next == \E c \in Clients : Release(c) \/ \E r \in Resources : Acquire(c, r)

Spec == Init /\ [][Next]_holds
=============================================================================
