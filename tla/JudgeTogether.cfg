SPECIFICATION TimelySpec
CONSTANTS
    s1 = s1
    s2 = s2
    Subs = {s1, s2}
    Tests <- OneEach
    Limit = 2
    Builds = {"accepts"}
    Programs = {"reader"}
INVARIANT RightIsAccepted
