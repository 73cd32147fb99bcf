SPECIFICATION Spec
CONSTANTS
    Clients = {w1, w2}
    Rows = {r1, r2}
    Blank = blank
    Suites = {s1, s2}
    N = 2
    NoSuite = NoSuite
    Absent = Absent
    MaxIds = 1
    MaxWrites = 2
    MayFail = FALSE
SYMMETRY Symmetry
PROPERTY NotFoundMeansAbsent
