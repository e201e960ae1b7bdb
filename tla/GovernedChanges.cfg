\* One site, two changes, two overlapping transactions.
SPECIFICATION Spec
CONSTANTS
    Users = {u1, u2}
    Sites = {s1}
    Changes = {c1, c2}
    Sessions = {p1, p2}
    None = None
SYMMETRY Symmetry
\* The changes run out, and nobody has to act: the system may stop.
CHECK_DEADLOCK FALSE
INVARIANTS
    TypeOK
    RequestedIsAppliedByTwo
    YearEndSiteIsKept
    ApprovedIsApplied
    AppliedIsAudited
