SPECIFICATION Spec
CONSTANTS
    Proc = {p1, p2, p3, p4}
    Row = {r1, r2, r3}
SYMMETRY Symmetry

    
    
PROPERTIES
    SettledStays
CHECK_DEADLOCK FALSE
