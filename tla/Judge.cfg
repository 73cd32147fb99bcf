\* Two g++ that flood may hold the read end of each other's messages: both stop.
CHECK_DEADLOCK FALSE
SPECIFICATION Spec
CONSTANTS
    s1 = s1
    s2 = s2
    Subs = {s1, s2}
    Tests <- TwoAndOne
    Limit = 1
    Builds = {"accepts", "floods"}
    Programs = {"reader", "wrong", "parent"}
INVARIANTS
    TypeOK
    AcceptedIsEarned
    NothingLeftBehind
PROPERTIES
    EveryVerdict
    RightIsAcceptedOrExcused
