SPECIFICATION Spec
CONSTANTS
    Clients = {w1, w2}
    Rows = {r1, r2, blank}
    Blank = blank
    Suites = {s1, s2}
    N = 2
    NoSuite = NoSuite
    Absent = Absent
    MaxIds = 1
    MaxWrites = 3
    MayFail = TRUE
SYMMETRY Symmetry
INVARIANTS
    TypeOK
    StoredAsWritten
    ReadsOneSuite
PROPERTY DeletedForGood
