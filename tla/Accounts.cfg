SPECIFICATION Spec
CONSTANTS
    Workers = {w1, w2}
    Names = {admin, ann}
    Admin = admin
    NoUser = NoUser
    NoSession = NoSession
    Duration = 1
    Zone = 0
    MaxUsers = 3
    MaxTokens = 1
    MaxHours = 2
    MayFail = TRUE
SYMMETRY Symmetry
INVARIANTS
    AccountsConsistent
    ActsAreAuthorised
PROPERTY SessionsEndForAReason
