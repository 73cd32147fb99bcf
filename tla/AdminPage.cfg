SPECIFICATION Spec
CONSTANTS
    Problems = {p1, p2}
    Texts = {x, y}
    Slots = {1, 2}
    MaxClicks = 4
    None = None
INVARIANTS
    TypeOK
    SavesGoToTheirProblem
    OneSaveAtATime
    TableSettles
PROPERTY SaveEnds
CHECK_DEADLOCK FALSE
