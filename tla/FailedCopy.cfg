CONSTANTS
    a1 = a1
    a2 = a2
    d = d
    e = e
    Data = {d, e}
    Modes <- SharedOrMixed
    Workers = {w1}
    Pool = {p1, p2}
    TD = TD
    None = None
    TRANSFER_CHANCES = 2
    SUBMISSION_CHANCES = 2
    SCHEDULING_CHANCES = 2
SPECIFICATION Spec
INVARIANT
    SubmittedWithInputs
CHECK_DEADLOCK FALSE
