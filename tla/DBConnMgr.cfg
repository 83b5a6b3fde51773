CONSTANTS
    Clients = {c1, c2, c3}
    MAX_CONNECTIONS = 2
    DB_MAX_CONNECTIONS = {1, 5}
    NoOne = NoOne
    NULL = NULL
SPECIFICATION FairSpec
INVARIANTS NeverNull UsedIsHeld
PROPERTIES ImplementsResourcePool SomeoneIsServed
