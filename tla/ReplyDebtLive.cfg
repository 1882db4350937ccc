SPECIFICATION Spec
CONSTANTS
    Plains = {p1}
    Logins = {l1}
    Aborts = {a1}
    Leaves = {o1}
    None = None
PROPERTIES OneAnswerEach
CHECK_DEADLOCK FALSE
