SPECIFICATION Spec
CONSTANTS
    Row = {r1, r2}
    Stop = {s1}
    RentEffect = {rent}
    InvoiceEffect = {invoice}
    Operator = {o1, o2}
    Announcer = {}
    Recipient = {}
    Pause = {k1, k2}
    Faults = 1
    Command <- Commands
SYMMETRY Symmetry
INVARIANTS
    NoClaimUnderReview
    NoClaimBeforeData
PROPERTIES
    PeriodIsKept
CHECK_DEADLOCK FALSE
