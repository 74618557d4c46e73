SPECIFICATION Spec
CONSTANTS
    Notice <- One
    Payment <- Two
    Total <- FourEach
    Amount <- SixTwo
    Fee = 2
    Tol = 1
    MaxInterest = 1
    Cash <- TwoOnly
    Rebate <- TwoOnly
    Opening = {}
    Unbooked = {}
    Uncertain = {}
    Command <- ClaimCommands
INVARIANTS
    LadderOnlyOnOpenDebt
    LedgerMatchesSubledger
    DoubtfulNetsToZero
