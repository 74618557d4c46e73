SPECIFICATION Spec
CONSTANTS
    Notice <- One
    Payment <- One
    Total <- FourEach
    Amount <- TwoEach
    Fee = 0
    Tol = 1
    MaxInterest = 0
    Cash = {}
    Rebate = {}
    Opening = {}
    Unbooked = {}
    Uncertain = {}
    Command <- CancelRace
INVARIANTS
    CancelledTookNoMoney
CHECK_DEADLOCK FALSE
