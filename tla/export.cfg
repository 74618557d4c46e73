SPECIFICATION Spec
CONSTANTS
    Proc = {p1, p2}
    DryRunner = {p2}
    MaxLegs = 2
    MaxEdits = 1
INVARIANTS
    NeverTwice
    ConfirmedIsThere
    BooksAgree
    ReversedNotSent
PROPERTIES
    PostIsClaimed
CHECK_DEADLOCK FALSE
