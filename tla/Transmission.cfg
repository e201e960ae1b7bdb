\* One transmission, one worker, one request (or its child) at a time; two
\* deliveries and one retry stand for the three of the code, and one fault for each
\* kind: an unanswered publication, a death after the work, a message delivered again.
SPECIFICATION Spec
CONSTANTS
    Transmissions = {t1}
    Workers = {w1}
    Requests = {q1}
    MAX_DELIVERIES = 2
    MaxRetries = 1
    MaxPosts = 3
    MaxFaults = 1
    None = None
\* Everything sent, receipted and superseded, nobody has to act.
CHECK_DEADLOCK FALSE
INVARIANTS
    TypeOK
    FilingFollows
    NoNeedlessResend
PROPERTIES
    JobsEnd
