\* Four mails, one of them to a dead address, two drainers that claim two rows
\* at a time, two faults.
SPECIFICATION OutboxSpec
CONSTANTS
    MaxMails = 4
    Dead = {1}
    Limit = 2
    Drainers = {d1, d2}
    MaxMailFaults = 2
INVARIANTS
    OutboxTypeOK
    NoDoubleSend
PROPERTIES
    EventuallySent
