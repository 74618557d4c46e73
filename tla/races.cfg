SPECIFICATION Spec
CONSTANTS
    Notice <- Two
    Payment <- Two
    Total <- FourEach
    Amount <- SevenTwo
    Fee = 2
    Tol = 1
    MaxInterest = 0
    Cash <- TwoOnly
    Rebate = {}
    Opening <- One
    Unbooked = {}
    Uncertain = {}
    Command <- RaceCommands
INVARIANTS
    DebtExactUnlessRaced
    MirrorExactUnlessRaced
    HistoryStaysHistory
