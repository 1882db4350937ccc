SPECIFICATION Spec
CONSTANTS
    Plains = {p1}
    Logins = {l1, l2}
    Aborts = {a1}
    Leaves = {o1}
    None = None
INVARIANTS TypeOK AtMostOnce NobodyForgotten
SYMMETRY Symmetry
CHECK_DEADLOCK FALSE
