SPECIFICATION Spec
CONSTANTS
    Notice <- Two
    Payment <- Two
    Total <- FourEach
    Amount <- SevenTwo
    Fee = 0
    Tol = 1
    MaxInterest = 0
    Cash <- TwoOnly
    Rebate = {}
    Opening = {}
    Unbooked = {}
    Uncertain = {}
    Command <- MatchCommands
INVARIANTS
    BankRowSpentOnce
    NoOverpayment
PROPERTIES
    SettledOpensOnlyByUnmatch
    ImplementsPaymentBook
