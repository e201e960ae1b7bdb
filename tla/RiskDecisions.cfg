SPECIFICATION Spec
CONSTANTS
    d1 = d1
    e1 = e1
    Users = {u1, u2}
    Makers = {u1, u2}
    Checkers = {u1}
    Sessions = {p1, p2}
    Refs = {d1}
    MaxCards = 1
    MaxRequests = 2
    None = None
    Rules = {"off", "all"}
    Exposures = {e1}
    Subject <- MCSubject
    Large = {}
    Scores = {0, 1}
    Margin = 1
    Playbooks <- MCPlaybooks
    MaxWatches = 1
\* Decisions and cards run out, and nobody has to answer.
CHECK_DEADLOCK FALSE
INVARIANTS
    TypeOK
    ProposedCanBeDecided
    DoneByTwo
PROPERTIES
    WorseIsEscalated
    ImplementsFourEyes
