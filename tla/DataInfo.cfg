CONSTANTS
    Params = {p1, p2}
    Main = main
    Apps = {a1, a2}
    MaxVersion = 4
    MaxPending = 2
    Rules <- AllRules
SYMMETRY Symmetry
SPECIFICATION Spec
INVARIANTS
    TypeOK
    CountsExact
    UsedVersionsLive
    DeletedVersionsDropped
    HandlersComplete
CHECK_DEADLOCK FALSE
