SPECIFICATION FairSpec
CONSTANTS
    a1 = a1  a2 = a2  d1 = d1  d2 = d2  q1 = q1  q2 = q2  w1 = w1  w2 = w2
    Assignment = {a1, a2}
    Delegation = {d1, d2}
    Older = {d1}
    Covers <- FirstCovered
    Cap = 3
    Earlier = 0
    Request = {q1}
    Worker = {w1, w2}
    Decision <- YesNo
    Dto <- OffOn
    Changes = 1
    Faults = 1
INVARIANTS OneEffect
PROPERTIES WorkIsClaimed RightNotGone ClaimSettled
CHECK_DEADLOCK FALSE
