\* Three files sent without a warning, two sessions at the same time.
SPECIFICATION Spec
CONSTANTS
    amount = amount
    detail = detail
    v1 = v1
    v2 = v2
    book = book
    partial = partial
    faulty = faulty
    Files <- MCFiles
    Fields <- MCFields
    Amount = amount
    Values = {v1, v2}
    Gives <- MCGives
    Faulty = {faulty}
    Warned = {}
    Users = {u1, u2}
    Sessions = {s1, s2}
    MaxBatches = 3
    MaxRaised = 0
    None = None
\* Once every file is sent nobody has to decide or resume.
CHECK_DEADLOCK FALSE
PROPERTIES
    OnlyGivenValuesChange
