---------------------------- MODULE Conversions -----------------------------
(***************************************************************************)
(* One call of a function of Verdict or Credentials, with an input chosen  *)
(* at the start, whose result the properties compare with what it should   *)
(* be.                                                                     *)
(***************************************************************************)
EXTENDS Verdict, Credentials

CONSTANTS
    Chars,  \* the characters of a text, a program's output or a cookie
    Calls   \* the calls: a function, and its arguments

Byte == 0..255

\* What handleSubmit() may find in a body.
IsBody(body) ==
    /\ body.parses \in BOOLEAN /\ body.object \in BOOLEAN
    /\ \/ body.id \in {Absent, Field(TRUE, "other", <<>>)}
       \/ /\ body.id = Field(TRUE, "integer", body.id.value)
          /\ body.id.value \in [1..1 -> Int]
    /\ \/ body.code \in {Absent, Field(TRUE, "other", <<>>)}
       \/ /\ body.code = Field(TRUE, "string", body.code.value)
          /\ body.code.value \in Seq(Chars)

\* A password that is hashed, and the bytes that Blowfish gives for it.
IsHashed(password, salt, cost) ==
    /\ password \in Seq(Byte) /\ salt \in [1..16 -> Byte] /\ cost \in Nat
    /\ Core(password, salt, Clamp(cost)) \in [1..24 -> Byte]

\* A cookie the browser sends along, which is not the one of the session, and the
\* value of the one that is.
IsOther(cookie) == cookie \in Seq(Chars \ {Semicolon}) /\ ~IsSession(cookie)
IsValue(id)     == id \in Seq(Chars \ {Semicolon, Gap})

\* The Cookie header, and the cookie of a session in it, or another one.
Header(before, session, after) ==
    (IF before = <<>> THEN <<>> ELSE before \o <<Semicolon, Gap>>) \o session
        \o (IF after = <<>> THEN <<>> ELSE <<Semicolon, Gap>> \o after)

SessionCookie(id) == IF id = <<>> THEN <<"b", Equals>> ELSE Pair(CookieName, id)

ASSUME CharsAssumption == Blank \subseteq Chars

ASSUME CallsAssumption ==
    \A c \in Calls :
        \/ /\ c.f = "judge" /\ c.ending \in Endings
           /\ c.output \in Seq(Chars) /\ c.expected \in Seq(Chars)
        \/ c.f = "submit" /\ IsBody(c.body) /\ c.valid \in BOOLEAN
        \/ /\ c.f = "verify" /\ IsHashed(c.password, c.salt, c.cost)
           /\ IsHashed(c.other, c.salt, c.cost)
        \/ c.f = "register" /\ c.name \in Nat /\ IsHashed(c.password, c.salt, c.cost)
        \/ c.f = "cookie" /\ IsOther(c.before) /\ IsOther(c.after) /\ IsValue(c.session)

\* What bcrypt is trusted with: two passwords that are compared give the same bytes
\* only when the bytes xored into P and S are the same.
ASSUME NoCollision ==
    \A c \in Calls :
        LET of(w) == SubSeq(Core(w, c.salt, Clamp(c.cost)), 1, 23)
        IN  c.f = "verify" /\ of(c.password) = of(c.other) =>
                KeyStream(c.password) = KeyStream(c.other)

VARIABLES
    call,   \* the call
    result  \* what it returned, in a sequence of one, or nothing yet

vars == <<call, result>>

Init == call \in Calls /\ result = <<>>

\* The value the call returns, in a sequence of one.
Return(value) == result = <<>> /\ result' = <<value>> /\ UNCHANGED call

Judge  == call.f = "judge" /\ Return(TestStatus(call.ending, call.output, call.expected))
Submit == call.f = "submit" /\ Return(HandleSubmit(call.body, call.valid))
Verify ==
    /\ call.f = "verify"
    /\ Return(BcryptVerify(call.other, BcryptHash(call.password, call.cost, call.salt)))
Register ==
    /\ call.f = "register"
    /\ Return(IF RegisterAccepts(call.name, call.password, call.confirm)
              THEN <<BcryptHash(call.password, call.cost, call.salt)>> ELSE <<>>)
Cookie ==
    /\ call.f = "cookie"
    /\ Return(ExtractSessionId(Header(call.before, SessionCookie(call.session), call.after)))

Next == Judge \/ Submit \/ Verify \/ Register \/ Cookie

Spec == Init /\ [][Next]_vars

Returned(f) == call.f = f /\ result # <<>>
Value == result[1]
-----------------------------------------------------------------------------
\* The visible part of a text: up to its last character that is no blank.
Visible(s) == SubSeq(s, 1, Max({0} \cup {i \in DOMAIN s : s[i] \notin Blank}))

\* A program that ends normally is right exactly when its output and the expected
\* one differ in nothing but blanks at the end, whatever line break either lacks;
\* one that does not is never right or wrong.
AcceptedIffSame ==
    Returned("judge") =>
        IF call.ending = [how |-> "exit", code |-> "zero"]
        THEN Value = IF Visible(call.output) = Visible(call.expected) THEN "AC" ELSE "WA"
        ELSE Value \in {"RE", "TLE"}

\* A submission is refused exactly when it is no object with an integer for the
\* problem and a text with something in it for the code, and the problem judged is
\* the one asked for as long as its id fits an int.
SubmitJudgesWhatWasAsked ==
    Returned("submit") =>
        LET b == call.body
            acceptable == /\ b.parses /\ b.object /\ b.id.type = "integer"
                          /\ b.code.type = "string" /\ b.code.value # <<>>
        IN /\ acceptable <=> Value.status # 400
           /\ acceptable /\ b.id.value[1] \in -IntSize..(IntSize - 1) =>
                 Value.judged = b.id.value[1]

First(s) == SubSeq(s, 1, MinOf(Len(s), KeyMax))
Zeros(s) == \A i \in DOMAIN s : s[i] = 0

\* A password verifies against a hash exactly when the first KeyMax bytes of it and
\* of the hashed one are powers of one word (they commute), or are all zero: for
\* every cost, clamped or not, and every salt.  There is no end mark in the key.
VerifiesSameKey ==
    Returned("verify") =>
        LET p == First(call.password)
            q == First(call.other)
        IN Value = IF p = <<>> \/ q = <<>> THEN Zeros(p) /\ Zeros(q) ELSE p \o q = q \o p

\* Whatever the registration accepts can log in: the login lets name and password
\* through, the hash has the form the verification wants, fits its column and
\* verifies; and a confirmation that differs is refused.
RegisteredCanLogIn ==
    Returned("register") /\ Value # <<>> =>
        /\ LoginChecks(call.name, call.password)
        /\ Len(Value[1]) = 60
        /\ BcryptVerify(call.password, Value[1])
        /\ call.confirm.type = "string" => call.confirm.value = call.password

\* The session comes back from the browser among other cookies in any order, also
\* some whose names or values contain the name or "=", and none comes without it.
CookieComesBack == Returned("cookie") => Value = call.session
=============================================================================
