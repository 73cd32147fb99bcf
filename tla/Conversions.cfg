SPECIFICATION Spec
CONSTANTS
    NewLine = "n"
    CarriageReturn = "r"
    Space = "s"
    IntSize = 4
    KeyMax = 4
    StreamLen = 12
    Blowfish <- Toy
    Chars <- AllChars
    Calls <- AllCalls
INVARIANTS
    AcceptedIffSame
    SubmitJudgesWhatWasAsked
    VerifiesSameKey
    RegisteredCanLogIn
    CookieComesBack
CHECK_DEADLOCK FALSE
