CONSTANTS
    Workers = {w1, w2, w3}
    Tasks = {t1, t2}
    Main = main
    NoTask = NoTask
    NoOne = NoOne
SPECIFICATION FairSpec
INVARIANTS PopNeverEmpty NoLostWakeup TakenIsServed
PROPERTIES ImplementsTaskPool TaskIsRun DestroyReturns
\* A destroyed pool is still, and so is one that waits to join a lost worker.
CHECK_DEADLOCK FALSE
