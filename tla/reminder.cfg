SPECIFICATION FairSpec
CONSTANTS
    Jobs = 2
    Sends = 2
    Cron = {c1}
    Periods = 2
    Mishaps = 1
    Dies = FALSE
INVARIANTS
    OutcomeOnItsSend
    ReadyWasDelivered
    StuckHasCause
PROPERTIES
    StuckIsAlerted
CHECK_DEADLOCK FALSE
