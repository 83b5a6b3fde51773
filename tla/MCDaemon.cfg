CONSTANTS
    Processes = {p1, p2, p3, p4}
    Nobody = Nobody
    Absent = Absent
    Blank = Blank
SPECIFICATION DaemonSpec
SYMMETRY Symmetry
INVARIANTS OneDaemonNamed
PROPERTIES OnlyTheLivingBar
\* Once every process has come and gone nothing more happens.
CHECK_DEADLOCK FALSE
