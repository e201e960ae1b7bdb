\* One slot, three filings for it, two reviews, three freezes, two overlapping
\* transactions.
SPECIFICATION Spec
CONSTANTS
    Users = {u1, u2}
    Slots = {s1}
    Filings = {f1, f2, f3}
    Requests = {r1, r2}
    Snapshots = {n1, n2, n3}
    Sessions = {p1, p2}
    None = None
SYMMETRY Symmetry
\* The identifiers run out, and nobody has to act: the system may stop.
CHECK_DEADLOCK FALSE
INVARIANTS
    TypeOK
    OneLivePerSlot
    InReviewHasOpenRequest
    FourEyes
    SupersededHasSuccessor
PROPERTIES
    ImplementsRegister
