SPECIFICATION FairSpec
CONSTANTS
    Job = {j1, j2}
    Attempts = 2
    Stalls = 1
    Command <- Commands
INVARIANTS
    OneMailADay
    SentWasQueued
PROPERTIES
    WorkersLeaveSettledAlone
    JobsEnd
CHECK_DEADLOCK FALSE
