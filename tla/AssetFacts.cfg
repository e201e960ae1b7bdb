\* One edit, two requests, two people at the same time beside a sync; one of them may
\* raise requests by hand.
SPECIFICATION Spec
CONSTANTS
    u1 = u1
    u2 = u2
    p1 = p1
    p2 = p2
    Countries = {c1, c2}
    Users = {u1, u2}
    Raisers = {u2}
    Sessions = {p1, p2}
    UserOf <- MCUserOf
    MaxEdits = 1
    MaxRequests = 2
    None = None
\* The edits run out, and nobody has to answer: only the sync goes on.
CHECK_DEADLOCK FALSE
INVARIANTS
    TypeOK
    OneUnresolved
    AwaitingCanBeDecided
    TakenByTwo
PROPERTIES
    EventuallyReconciled
