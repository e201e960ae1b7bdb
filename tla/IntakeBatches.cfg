\* Two files sent, one request raised by hand, three sessions at the same time.
SPECIFICATION Spec
CONSTANTS
    amount = amount
    detail = detail
    v1 = v1
    v2 = v2
    book = book
    partial = partial
    faulty = faulty
    Files <- MCFiles
    Fields <- MCFields
    Amount = amount
    Values = {v1, v2}
    Gives <- MCGives
    Faulty = {faulty}
    Warned = {partial}
    Users = {u1, u2}
    Sessions = {s1, s2, s3}
    MaxBatches = 2
    MaxRaised = 1
    None = None
\* Once every file is sent nobody has to decide or resume.
CHECK_DEADLOCK FALSE
SYMMETRY PeopleAreAlike
INVARIANTS
    TypeOK
    FailedNeedsSecond
    RequestAndBatchAgree
    LandedOnce
