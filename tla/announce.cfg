SPECIFICATION FairSpec
CONSTANTS
    Row = {r1, r2}
    Stop = {}
    RentEffect = {}
    InvoiceEffect = {}
    Operator = {o1}
    Announcer = {a1, a2}
    Recipient = {u1, u2}
    Pause = {k1, k2}
    Faults = 1
    Command <- Deciding
INVARIANTS
    AnnouncedOnce
PROPERTIES
    PauseIsAnnounced
CHECK_DEADLOCK FALSE
