---------------------------- MODULE Credentials -----------------------------
(***************************************************************************)
(* What proves who a user is, as functions: the password hash that the     *)
(* program implements itself (src/utils/bcrypt.cpp), the checks of         *)
(* handleRegister() and handleLogin(), and the cookie that carries the     *)
(* session (src/handler/auth_handler.cc).                                  *)
(*                                                                         *)
(* A byte is a number, a text a sequence of bytes or of characters.  The   *)
(* rounds of Blowfish are a parameter: a function of the key stream, the   *)
(* salt and the cost, and of nothing else.                                 *)
(***************************************************************************)
EXTENDS Integers, Sequences, FiniteSetsExt

CONSTANTS
    KeyMax,         \* 72: the bytes of a password that count
    StreamLen,      \* 4 * (18 + 1024): the bytes xored into P and S
    Blowfish(_, _, _)  \* the 24 bytes eksBlowfishSetup and 64 encryptions give

ASSUME KeyAssumption == KeyMax \in Nat \ {0} /\ StreamLen \in Nat /\ StreamLen >= 2 * KeyMax

MinOf(a, b) == IF a < b THEN a ELSE b
-----------------------------------------------------------------------------
(* The key: expandKey() and xorPassword().                                 *)

\* Mutant: a password longer than KeyMax is used whole.
StreamOfAll(password) ==
    [k \in 1..StreamLen |->
        IF password = <<>> THEN 0 ELSE password[((k - 1) % Len(password)) + 1]]

\* The bytes xored into P and S: the password again and again; an empty one is not
\* xored, which is what zeros do.
KeyStream(password) ==
    [k \in 1..StreamLen |->
        IF password = <<>> THEN 0
        ELSE password[((k - 1) % MinOf(Len(password), KeyMax)) + 1]]

\* bcryptCore()
Core(password, salt, cost) == Blowfish(KeyStream(password), salt, cost)
-----------------------------------------------------------------------------
(* The base64 of the file.  A character is its code.                       *)

\* kAlphabet and decodeBase64Char(), which gives -1 for other characters.
Alphabet(n) ==
    CASE n < 2 -> 46 + n              \* . /
      [] n \in 2..27 -> 65 + (n - 2)  \* A .. Z
      [] n \in 28..53 -> 97 + (n - 28)
      [] OTHER -> 48 + (n - 54)       \* 0 .. 9

DecodeChar(c) ==
    IF \E n \in 0..63 : Alphabet(n) = c THEN CHOOSE n \in 0..63 : Alphabet(n) = c ELSE -1

\* bitBuf is an int of which only the lowest bits are ever read: modulo 2^14.  Or-ing
\* -1 into it sets them all.
Shift(buf, n, low) == IF low = -1 THEN 16383 ELSE (buf * n + low) % 16384

\* encodeBase64() before its first round, and what a round does: the buffer, its
\* unread bits, and byteIdx, which stays at the end of src.
NothingRead == [buf |-> 0, bits |-> 0, next |-> 0]

EncodeRound(src, s) ==
    IF s.bits >= 6 THEN [s EXCEPT !.bits = s.bits - 6]
    ELSE IF s.next < Len(src)
    THEN [buf |-> Shift(s.buf, 256, src[s.next + 1]), bits |-> s.bits + 2, next |-> s.next + 1]
    ELSE [buf |-> Shift(s.buf, 256, 0), bits |-> s.bits + 2, next |-> s.next]

\* The loop, and the character that each round appends.
Encoding(src, rounds) ==
    LET after[c \in 0..rounds] == IF c = 0 THEN NothingRead ELSE EncodeRound(src, after[c - 1])
    IN  after

Encoded(src, rounds) ==
    [c \in 1..rounds |->
        LET s == Encoding(src, rounds)[c] IN Alphabet((s.buf \div 2^s.bits) % 64)]

\* Mutant: the last, incomplete character is left out.
EncodeWhole(src) == Encoded(src, (Len(src) * 8) \div 6)

EncodeBase64(src) == Encoded(src, (Len(src) * 8 + 5) \div 6)

\* decodeBase64(): a round takes a character and writes a byte when it has 8 bits.
NothingWritten == [buf |-> 0, bits |-> 0, dst |-> <<>>]

DecodeRound(s, char) ==
    LET buf == Shift(s.buf, 64, DecodeChar(char))
    IN  IF s.bits < 2 THEN [s EXCEPT !.buf = buf, !.bits = s.bits + 6]
        ELSE [buf |-> buf, bits |-> s.bits - 2,
              dst |-> Append(s.dst, (buf \div 2^(s.bits - 2)) % 256)]

Decoding(src) ==
    LET after[i \in 0..Len(src)] ==
            IF i = 0 THEN NothingWritten ELSE DecodeRound(after[i - 1], src[i])
    IN  after

DecodeBase64(src) == Decoding(src)[Len(src)].dst
-----------------------------------------------------------------------------
(* bcryptHash() and bcryptVerify(); salt: what RAND_bytes() gave.          *)

Dollar == 36
Digits == 48..57

\* "$2b$", the cost with two digits, "$", 22 characters of salt and 31 of hash.
Prefix(cost) == <<Dollar, 50, 98, Dollar, 48 + (cost \div 10), 48 + (cost % 10), Dollar>>

Clamp(cost) == IF cost < 4 THEN 4 ELSE IF cost > 31 THEN 31 ELSE cost

BcryptHash(password, cost, salt) ==
    Prefix(Clamp(cost)) \o EncodeBase64(salt)
        \o EncodeBase64(SubSeq(Core(password, salt, Clamp(cost)), 1, 23))

WellFormed(hash) ==
    /\ Len(hash) = 60
    /\ hash[1] = Dollar /\ hash[2] = 50 /\ hash[4] = Dollar /\ hash[7] = Dollar
    /\ hash[5] \in Digits /\ hash[6] \in Digits

BcryptVerify(password, hash) ==
    /\ WellFormed(hash)
    /\ LET salt == DecodeBase64(SubSeq(hash, 8, 29))
           cost == (hash[5] - 48) * 10 + (hash[6] - 48)
       IN SubSeq(hash, 30, 60) = EncodeBase64(SubSeq(Core(password, salt, cost), 1, 23))
-----------------------------------------------------------------------------
(* The checks of handleRegister() and handleLogin() on a user name and a   *)
(* password that are strings, by their lengths, and the confirmation,      *)
(* which counts when it is a string.                                       *)

RegisterAccepts(name, password, confirm) ==
    /\ name >= 3 /\ name <= 64
    /\ Len(password) >= 6
    /\ confirm.type = "string" => confirm.value = password

LoginChecks(name, password) == name > 0 /\ password # <<>>
-----------------------------------------------------------------------------
(* The cookie.                                                             *)

\* The characters that mean something in the header.
Gap       == " "
Semicolon == ";"
Equals    == "="

\* generateSessionId(): two hexadecimal digits for each random byte.
HexDigit(n) ==
    <<"0", "1", "2", "3", "4", "5", "6", "7", "8", "9", "a", "b", "c", "d", "e", "f">>[n + 1]

Hex(bytes) ==
    [i \in 1..2 * Len(bytes) |->
        HexDigit(IF i % 2 = 1 THEN bytes[(i + 1) \div 2] \div 16 ELSE bytes[i \div 2] % 16)]

\* kSessionCookieName; setSessionCookie(), as the browser sends it back.
CookieName == <<"session_id">>
Pair(name, value) == name \o <<Equals>> \o value

\* The position of the first c in s, or 0.
Find(s, c) == LET at == {i \in DOMAIN s : s[i] = c} IN IF at = {} THEN 0 ELSE Min(at)

\* The loops that erase the blanks before and after a key or a value.
TrimSpaces(s) ==
    LET seen == {i \in DOMAIN s : s[i] # Gap}
    IN  IF seen = {} THEN <<>> ELSE SubSeq(s, Min(seen), Max(seen))

\* Mutant: the blank that browsers put after ";" stays.
KeyUntrimmed(token) == SubSeq(token, 1, Find(token, Equals) - 1)

KeyOf(token)   == TrimSpaces(SubSeq(token, 1, Find(token, Equals) - 1))
ValueOf(token) == TrimSpaces(SubSeq(token, Find(token, Equals) + 1, Len(token)))

\* extractSessionId(): getline() cuts the header at each ";", and the first token
\* that has the name before its "=" ends the loop.
Starts(raw) == {i \in 1..Len(raw) : i = 1 \/ raw[i - 1] = Semicolon}

Token(raw, i) ==
    SubSeq(raw, i, Min({j \in i..Len(raw) : raw[j] = Semicolon} \cup {Len(raw) + 1}) - 1)

IsSession(token) == Find(token, Equals) # 0 /\ KeyOf(token) = CookieName

ExtractSessionId(raw) ==
    LET found == {i \in Starts(raw) : IsSession(Token(raw, i))}
    IN  IF found = {} THEN <<>> ELSE ValueOf(Token(raw, Min(found)))
=============================================================================
