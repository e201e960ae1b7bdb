\* One cell of one filing, two proposals and one request by hand, two
\* overlapping transactions.
SPECIFICATION Spec
CONSTANTS
    Users = {u1, u2}
    Filings = {f1}
    Keys = {k1}
    MaxOverrides = 2
    MaxRaised = 1
    Sessions = {p1, p2}
    None = None
SYMMETRY Symmetry
\* The proposals run out, and nobody has to act: the system may stop.
CHECK_DEADLOCK FALSE
INVARIANTS
    TypeOK
    ShownIsFourEyes
    PendingCanBeDecided
PROPERTIES
    ImplementsFourEyes
