SPECIFICATION Spec
CONSTANTS
    Month <- Months
    Year <- Years
    YearOf <- TwoMonths
    LastMonth <- SecondMonth
    notice = notice
    payment = payment
    cancel = cancel
    correction = correction
    accrual = accrual
    back = back
    Key = {notice, payment, cancel, correction, accrual, back}
    ResultKey = {notice}
    LateKey = {payment}
    EventMonth <- EventMonths
    Original <- Reversals
    FollowUp <- TakenBack
    Proc = {p1, p2}
    ReopenWindow = 1
    MaxEvents <- Events
SYMMETRY Symmetry
INVARIANTS
    GapFree
    BookedOnce
    AccrualTakenBack
    OnlyStragglers
    ReopenedOnce
CHECK_DEADLOCK FALSE
