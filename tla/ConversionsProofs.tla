------------------------- MODULE ConversionsProofs --------------------------
(* What the conversions promise, for every text, body, password, salt, cost  *)
(* and cookie.                                                               *)
EXTENDS Conversions, DataTheorems

\* The maximum and the minimum of the community modules are what bounds a set from inside.
LEMMA MaxIs ==
    ASSUME NEW S \in SUBSET Int, NEW m \in S, \A x \in S : x <= m
    PROVE  Max(S) = m
<1>1. \A x \in S : (\A y \in S : x >= y) <=> x = m
  OBVIOUS
<1> QED BY <1>1 DEF Max

\* The same for the minimum.
LEMMA MinIs ==
    ASSUME NEW S \in SUBSET Int, NEW m \in S, \A x \in S : m <= x
    PROVE  Min(S) = m
<1>1. \A x \in S : (\A y \in S : x <= y) <=> x = m
  OBVIOUS
<1> QED BY <1>1 DEF Min

\* A call has what its function takes, and returns once.
LEMMA CallOf == Spec => [](call \in Calls)
<1>1. Init => call \in Calls
  BY DEF Init
<1>2. call \in Calls /\ [Next]_vars => (call \in Calls)'
  BY DEF Next, Judge, Submit, Verify, Register, Cookie, Return, vars
<1> QED BY <1>1, <1>2, PTL DEF Spec
-----------------------------------------------------------------------------
(* The comparison of outputs.                                               *)

\* trimTrailing() after n characters.
LEMMA KeptRound ==
    ASSUME NEW s \in Seq(Chars)
    PROVE  /\ Kept(s)[0] = 0
           /\ \A n \in 1..Len(s) : Kept(s)[n] = IF s[n] \in Blank THEN Kept(s)[n - 1] ELSE n
<1> DEFINE f == Kept(s)
           step == [n \in 1..Len(s) |-> [k \in Nat |-> IF s[n] \in Blank THEN k ELSE n]]
<1>1. step \in [1..Len(s) -> [Nat -> Nat]] /\ Len(s) \in Nat /\ 0 \in Nat
  OBVIOUS
<1>2. PICK g : IsLoop(g, Nat, 0, Len(s), step)
  <2> HIDE DEF step
  <2> QED BY <1>1, Loop
<1>3. /\ g[0] = 0
      /\ \A n \in 1..Len(s) : g[n] = IF s[n] \in Blank THEN g[n - 1] ELSE n
  <2> SUFFICES ASSUME NEW n \in 1..Len(s)
               PROVE  g[n] = IF s[n] \in Blank THEN g[n - 1] ELSE n
    BY <1>2 DEF IsLoop
  <2>1. n - 1 \in 0..Len(s)
    OBVIOUS
  <2>2. g[n - 1] \in Nat /\ g[n] = step[n][g[n - 1]]
    BY <1>2, <2>1 DEF IsLoop
  <2> QED BY <2>2
<1>4. g = [n \in 0..Len(s) |->
             IF n = 0 THEN 0 ELSE IF s[n] \in Blank THEN g[n - 1] ELSE n]
  <2>1. \A n \in 0..Len(s) :
          g[n] = IF n = 0 THEN 0 ELSE IF s[n] \in Blank THEN g[n - 1] ELSE n
    BY <1>3
  <2> QED BY <1>2, <2>1 DEF IsLoop
<1>5. f = CHOOSE h : h = [n \in 0..Len(s) |->
                            IF n = 0 THEN 0 ELSE IF s[n] \in Blank THEN h[n - 1] ELSE n]
  BY DEF Kept
<1> HIDE DEF f
<1>6. f = [n \in 0..Len(s) |->
             IF n = 0 THEN 0 ELSE IF s[n] \in Blank THEN f[n - 1] ELSE n]
  BY <1>4, <1>5
<1>7. f[0] = 0 /\ \A n \in 1..Len(s) : f[n] = IF s[n] \in Blank THEN f[n - 1] ELSE n
  BY <1>6
<1> QED BY <1>7 DEF f

\* What is left of the first n characters ends at the last one that is no blank.
LEMMA KeptIs ==
    ASSUME NEW s \in Seq(Chars), NEW n \in 0..Len(s)
    PROVE  /\ Kept(s)[n] \in 0..n
           /\ Kept(s)[n] # 0 => s[Kept(s)[n]] \notin Blank
           /\ \A j \in 1..n : s[j] \notin Blank => j <= Kept(s)[n]
<1> DEFINE k == Kept(s)
           Good(m) == /\ k[m] \in 0..m
                      /\ k[m] # 0 => s[k[m]] \notin Blank
                      /\ \A j \in 1..m : s[j] \notin Blank => j <= k[m]
           S == {m \in Nat : m <= Len(s) => Good(m)}
<1> HIDE DEF k
<1>1. k[0] = 0 /\ \A m \in 1..Len(s) : k[m] = IF s[m] \in Blank THEN k[m - 1] ELSE m
  BY KeptRound DEF k
<1>2. 0 \in S
  BY <1>1
<1>3. ASSUME NEW m \in Nat, m \in S
      PROVE  m + 1 \in S
  <2> SUFFICES ASSUME m + 1 <= Len(s) PROVE Good(m + 1)
    OBVIOUS
  <2>1. Good(m) /\ m + 1 \in 1..Len(s) /\ (m + 1) - 1 = m
    BY <1>3
  <2>2. k[m + 1] = IF s[m + 1] \in Blank THEN k[m] ELSE m + 1
    BY <1>1, <2>1
  <2> QED BY <2>1, <2>2
<1> HIDE DEF S
<1>4. n \in S
  BY <1>2, <1>3, EveryNumber
<1>5. Good(n)
  BY <1>4 DEF S
<1> QED BY <1>5 DEF k

\* The loop pops what the reader does not see.
LEMMA TrimIsVisible ==
    ASSUME NEW s \in Seq(Chars)
    PROVE  TrimTrailing(s) = Visible(s)
<1> DEFINE m == Kept(s)[Len(s)]
           seen == {0} \cup {i \in DOMAIN s : s[i] \notin Blank}
<1>1. /\ m \in 0..Len(s)
      /\ m # 0 => s[m] \notin Blank
      /\ \A j \in 1..Len(s) : s[j] \notin Blank => j <= m
  BY KeptIs
<1>2. DOMAIN s = 1..Len(s) /\ Len(s) \in Nat
  OBVIOUS
<1> HIDE DEF m
<1>3. seen \in SUBSET Int /\ m \in seen /\ \A x \in seen : x <= m
  BY <1>1, <1>2
<1> HIDE DEF seen
<1>4. Max(seen) = m
  BY <1>3, MaxIs
<1> QED BY <1>4 DEF TrimTrailing, Visible, seen, m

\* The line break that readAll() adds to the last line is not seen.
LEMMA ActualIsVisible ==
    ASSUME NEW s \in Seq(Chars)
    PROVE  Actual(s) \in Seq(Chars) /\ Visible(Actual(s)) = Visible(s)
<1> NewLine \in Chars
  BY CharsAssumption DEF Blank
<1>1. CASE Actual(s) = s
  BY <1>1
<1>2. CASE Actual(s) = Append(s, NewLine)
  <2> DEFINE t == Append(s, NewLine)
             seen(u) == {0} \cup {i \in DOMAIN u : u[i] \notin Blank}
  <2>1. /\ t \in Seq(Chars) /\ Len(t) = Len(s) + 1 /\ Len(s) \in Nat
        /\ DOMAIN s = 1..Len(s) /\ DOMAIN t = 1..(Len(s) + 1)
        /\ t[Len(s) + 1] = NewLine /\ \A i \in 1..Len(s) : t[i] = s[i]
    BY AppendProperties
  <2>2. NewLine \in Blank
    BY DEF Blank
  <2> HIDE DEF t
  <2>3. seen(t) = seen(s)
    BY <2>1, <2>2
  <2>4. \E m \in seen(s) : Max(seen(s)) = m
    <3>1. Kept(s)[Len(s)] \in seen(s) /\ \A x \in seen(s) : x <= Kept(s)[Len(s)]
      BY <2>1, KeptIs
    <3>2. seen(s) \in SUBSET Int
      BY <2>1
    <3> HIDE DEF seen
    <3> QED BY <3>1, <3>2, MaxIs
  <2>5. Max(seen(s)) \in 0..Len(s)
    BY <2>1, <2>4
  <2> DEFINE m == Max(seen(s))
  <2>6. Visible(t) = SubSeq(t, 1, m) /\ Visible(s) = SubSeq(s, 1, m)
    BY <2>3 DEF Visible
  <2> HIDE DEF m
  <2>7. m \in 0..Len(s)
    BY <2>5 DEF m
  <2>8. SubSeq(t, 1, m) = SubSeq(s, 1, m)
    <3>1. /\ SubSeq(t, 1, m) = [i \in 1..m |-> t[i]]
          /\ SubSeq(s, 1, m) = [i \in 1..m |-> s[i]]
      BY <2>1, <2>7, SubSeqProperties
    <3>2. \A i \in 1..m : t[i] = s[i]
      BY <2>1, <2>7
    <3> QED BY <3>1, <3>2
  <2> QED BY <1>2, <2>1, <2>6, <2>8 DEF t
<1> QED BY <1>1, <1>2 DEF Actual

\* A program that ends normally is right exactly when its output and the expected
\* one differ in nothing but blanks at the end: for every two texts, with or without
\* a line break at the end.
THEOREM JudgesByWhatIsSeen == Spec => []AcceptedIffSame
<1>1. Init => AcceptedIffSame
  BY DEF Init, AcceptedIffSame, Returned
<1>2. ASSUME call \in Calls, AcceptedIffSame, [Next]_vars
      PROVE  AcceptedIffSame'
  <2>1. CASE Judge
    <3>1. /\ call.f = "judge" /\ call' = call
          /\ result' = <<TestStatus(call.ending, call.output, call.expected)>>
      BY <2>1 DEF Judge, Return
    <3>2. call.ending \in Endings /\ call.output \in Seq(Chars) /\ call.expected \in Seq(Chars)
      BY <1>2, <3>1, CallsAssumption
    <3>3. TrimTrailing(Actual(call.output)) = Visible(call.output)
      BY <3>2, ActualIsVisible, TrimIsVisible
    <3>4. TrimTrailing(call.expected) = Visible(call.expected)
      BY <3>2, TrimIsVisible
    <3> DEFINE v == TestStatus(call.ending, call.output, call.expected)
    <3>5. IF call.ending = [how |-> "exit", code |-> "zero"]
          THEN v = IF Visible(call.output) = Visible(call.expected) THEN "AC" ELSE "WA"
          ELSE v \in {"RE", "TLE"}
      BY <3>2, <3>3, <3>4 DEF TestStatus, Endings
    <3> HIDE DEF v
    <3>6. result'[1] = v
      BY <3>1 DEF v
    <3> QED BY <3>1, <3>5, <3>6 DEF AcceptedIffSame, Returned, Value, Visible
  <2>2. CASE Submit \/ Verify \/ Register \/ Cookie
    BY <2>2 DEF Submit, Verify, Register, Cookie, Return, AcceptedIffSame, Returned
  <2>3. CASE UNCHANGED vars
    BY <1>2, <2>3 DEF vars, AcceptedIffSame, Returned, Value, Visible
  <2> QED BY <1>2, <2>1, <2>2, <2>3 DEF Next
<1> QED BY <1>1, <1>2, CallOf, PTL DEF Spec
-----------------------------------------------------------------------------
(* The checks of a submission.                                              *)

\* An id that fits an int is left as it is, whatever the width of an int.
LEMMA ToIntKeeps ==
    ASSUME NEW n \in -IntSize..(IntSize - 1)
    PROVE  ToInt(n) = n
<1> DEFINE a == n + IntSize
           d == 2 * IntSize
<1>1. IntSize \in Nat \ {0} /\ n \in Int /\ -IntSize <= n /\ n < IntSize
  BY IntAssumption
<1>2. a \in Nat /\ d \in Nat /\ a < d /\ a - IntSize = n
  BY <1>1
<1>3. ToInt(n) = (a % d) - IntSize
  BY DEF ToInt
<1> HIDE DEF a, d
<1>4. a % d = a
  BY <1>2
<1> QED BY <1>2, <1>3, <1>4

\* The answer to a body, valid texts or not.
LEMMA Answers ==
    ASSUME NEW b, IsBody(b), NEW valid \in BOOLEAN
    PROVE  LET answer == HandleSubmit(b, valid)
               acceptable == /\ b.parses /\ b.object /\ b.id.type = "integer"
                             /\ b.code.type = "string" /\ b.code.value # <<>>
           IN  /\ acceptable <=> answer.status # 400
               /\ acceptable /\ b.id.value[1] \in -IntSize..(IntSize - 1) =>
                     answer.judged = b.id.value[1]
<1>1. b.parses \in BOOLEAN /\ b.object \in BOOLEAN
  BY DEF IsBody
<1>2. Absent.present = FALSE /\ Absent.type = "none"
  BY DEF Absent, Field
<1>3. \A type, value : /\ Field(TRUE, type, value).present = TRUE
                       /\ Field(TRUE, type, value).type = type
  BY DEF Field
<1>4. b.id.present \in BOOLEAN /\ (b.id.type = "integer" => b.id.present)
  <2>1. CASE b.id = Absent
    BY <1>2, <2>1
  <2>2. CASE b.id = Field(TRUE, "other", <<>>)
    BY <1>3, <2>2
  <2>3. ASSUME NEW value, b.id = Field(TRUE, "integer", value)
        PROVE  b.id.present \in BOOLEAN /\ (b.id.type = "integer" => b.id.present)
    BY <1>3, <2>3
  <2>4. \/ b.id \in {Absent, Field(TRUE, "other", <<>>)}
        \/ b.id = Field(TRUE, "integer", b.id.value)
    BY Zenon DEF IsBody
  <2> QED BY <2>1, <2>2, <2>3, <2>4
<1>5. b.code.present \in BOOLEAN /\ (b.code.type = "string" => b.code.present)
  <2>1. CASE b.code = Absent
    BY <1>2, <2>1
  <2>2. CASE b.code = Field(TRUE, "other", <<>>)
    BY <1>3, <2>2
  <2>3. ASSUME NEW value, b.code = Field(TRUE, "string", value)
        PROVE  b.code.present \in BOOLEAN /\ (b.code.type = "string" => b.code.present)
    BY <1>3, <2>3
  <2>4. \/ b.code \in {Absent, Field(TRUE, "other", <<>>)}
        \/ b.code = Field(TRUE, "string", b.code.value)
    BY Zenon DEF IsBody
  <2> QED BY <2>1, <2>2, <2>3, <2>4
<1> DEFINE acceptable == /\ b.parses /\ b.object /\ b.id.type = "integer"
                         /\ b.code.type = "string" /\ b.code.value # <<>>
<1>6. acceptable <=> Refusal(b) = "none"
  BY <1>1, <1>4, <1>5 DEF Refusal, RefusalOfFields
<1>7. CASE Refusal(b) # "none"
  <2>1. HandleSubmit(b, valid).status = 400
    BY <1>7 DEF HandleSubmit, BadRequest
  <2> QED BY <1>6, <1>7, <2>1
<1>8. CASE Refusal(b) = "none"
  <2>1. /\ HandleSubmit(b, valid).status \in {200, 500}
        /\ HandleSubmit(b, valid).judged = ToInt(b.id.value[1])
    BY <1>8 DEF HandleSubmit
  <2> QED BY <1>6, <1>8, <2>1, ToIntKeeps
<1> QED BY <1>7, <1>8

\* A submission is refused exactly when it is not an object with an integer for the
\* problem and some text for the code, and the problem that is judged is the one asked
\* for when its id fits an int: for every body and every width of an int.
THEOREM JudgesWhatWasAsked == Spec => []SubmitJudgesWhatWasAsked
<1>1. Init => SubmitJudgesWhatWasAsked
  BY DEF Init, SubmitJudgesWhatWasAsked, Returned
<1>2. ASSUME call \in Calls, SubmitJudgesWhatWasAsked, [Next]_vars
      PROVE  SubmitJudgesWhatWasAsked'
  <2>1. CASE Submit
    <3>1. /\ call.f = "submit" /\ call' = call
          /\ result' = <<HandleSubmit(call.body, call.valid)>>
      BY <2>1 DEF Submit, Return
    <3>2. IsBody(call.body) /\ call.valid \in BOOLEAN
      BY <1>2, <3>1, CallsAssumption
    <3>3. Value' = HandleSubmit(call.body, call.valid)
      BY <3>1 DEF Value
    <3> QED BY <3>1, <3>2, <3>3, Answers DEF SubmitJudgesWhatWasAsked, Returned
  <2>2. CASE Judge \/ Verify \/ Register \/ Cookie
    BY <2>2 DEF Judge, Verify, Register, Cookie, Return, SubmitJudgesWhatWasAsked, Returned
  <2>3. CASE UNCHANGED vars
    BY <1>2, <2>3 DEF vars, SubmitJudgesWhatWasAsked, Returned, Value
  <2> QED BY <1>2, <2>1, <2>2, <2>3 DEF Next
<1> QED BY <1>1, <1>2, CallOf, PTL DEF Spec
-----------------------------------------------------------------------------
(* Base64: what is decoded is what was encoded. *)

\* What the buffers are shifted by.
LEMMA Powers2 == 2^0 = 1 /\ 2^2 = 4 /\ 2^4 = 16 /\ 2^6 = 64
OBVIOUS

\* x is what 14 bits hold of a.
LowBits(x, a) == x \in Nat /\ \E q \in Int : x = a - 16384 * q

\* The encoder reads a byte and the decoder takes a sextet: the buffers before and after.
Rounds(buf, into, b, x, y, k) ==
    /\ buf \in Nat /\ into \in Nat /\ b \in Nat /\ b <= 255 /\ x \in Nat /\ y \in Nat
    /\ LowBits(x, buf * 256 + b) /\ LowBits(y, into * 64 + ((x \div k) % 64))

\* The multiple of 2^14 that is lost.
LEMMA LowBitsIs ==
    ASSUME NEW x, NEW a, LowBits(x, a)
    PROVE  \E q \in Int : x = a - 16384 * q
BY DEF LowBits

\* The buffer keeps its 14 low bits.
LEMMA Shifted64 ==
    ASSUME NEW buf \in Nat, NEW low \in Nat
    PROVE  LowBits(Shift(buf, 64, low), buf * 64 + low)
<1> DEFINE a == buf * 64 + low
           q == a \div 16384
           r == a % 16384
<1>1. a \in Int /\ Shift(buf, 64, low) = r
  BY DEF Shift
<1> HIDE DEF a
<1>2. a = 16384 * q + r
  BY <1>1
<1>3. q \in Int
  BY <1>1
<1>4. r \in Nat
  BY <1>1
<1> HIDE DEF q, r
<1>5. r = a - 16384 * q
  BY <1>1, <1>2, <1>3, <1>4
<1>6. LowBits(r, a)
  BY <1>3, <1>4, <1>5 DEF LowBits
<1> QED BY <1>1, <1>6 DEF a

\* And when a whole byte is put in.
LEMMA Shifted256 ==
    ASSUME NEW buf \in Nat, NEW low \in Nat
    PROVE  LowBits(Shift(buf, 256, low), buf * 256 + low)
<1> DEFINE a == buf * 256 + low
           q == a \div 16384
           r == a % 16384
<1>1. a \in Int /\ Shift(buf, 256, low) = r
  BY DEF Shift
<1> HIDE DEF a
<1>2. a = 16384 * q + r
  BY <1>1
<1>3. q \in Int
  BY <1>1
<1>4. r \in Nat
  BY <1>1
<1> HIDE DEF q, r
<1>5. r = a - 16384 * q
  BY <1>1, <1>2, <1>3, <1>4
<1>6. LowBits(r, a)
  BY <1>3, <1>4, <1>5 DEF LowBits
<1> QED BY <1>1, <1>6 DEF a

\* The buffer after a sextet is put in.
Keeps64(buf, low) ==
    LowBits(Shift(buf, 64, low), buf * 64 + low) /\ Shift(buf, 64, low) \in Nat

\* A sextet put in keeps the low bits of the buffer.
LEMMA KeepsBits ==
    ASSUME NEW buf \in Nat, NEW low \in Nat
    PROVE  Keeps64(buf, low)
<1> DEFINE x == Shift(buf, 64, low)
<1>1. LowBits(x, buf * 64 + low)
  BY Shifted64
<1> HIDE DEF x
<1>2. x \in Nat
  BY <1>1 DEF LowBits
<1> QED BY <1>1, <1>2 DEF x, Keeps64

\* A buffer is a number.
LEMMA ShiftIsNat == \A b, c \in Nat : Shift(b, 64, c) \in Nat /\ Shift(b, 256, c) \in Nat
BY Shifted64, Shifted256 DEF LowBits

\* The alphabet has each character once.
LEMMA AlphabetIs ==
    ASSUME NEW n \in 0..63
    PROVE  DecodeChar(Alphabet(n)) = n
<1>1. \A m \in 0..63 : Alphabet(m) = Alphabet(n) => m = n
  BY DEF Alphabet
<1> QED BY <1>1 DEF DecodeChar

\* The second sextet of three bytes: four bits of a byte, two of the one before.
SecondBefore(buf, into, b, x, y) == Rounds(buf, into, b, x, y, 16)
SecondAfter(buf, into, b, x, y) ==
    /\ (y \div 16) % 256 = 4 * (into % 64) + (buf % 4)
    /\ b = 16 * (y % 16) + (x % 16)

LEMMA Second ==
    ASSUME NEW buf, NEW into, NEW b, NEW x, NEW y, SecondBefore(buf, into, b, x, y)
    PROVE  SecondAfter(buf, into, b, x, y)
<1> DEFINE v == (x \div 16) % 64
<1>1. /\ buf \in Nat /\ into \in Nat /\ b \in Nat /\ b <= 255 /\ x \in Nat /\ y \in Nat
       /\ LowBits(x, buf * 256 + b) /\ LowBits(y, into * 64 + v)
  BY DEF Rounds, SecondBefore
<1>2. PICK q \in Int : x = buf * 256 + b - 16384 * q
  BY <1>1, LowBitsIs
<1>3. PICK r \in Int : y = into * 64 + v - 16384 * r
  BY <1>1, LowBitsIs
<1> DEFINE h == buf \div 4
           u == buf % 4
           g == into \div 64
           w == into % 64
           c == b \div 16
           d == b % 16
<1>4. /\ buf = 4 * h + u /\ h \in Int /\ u \in 0..3
      /\ into = 64 * g + w /\ g \in Int /\ w \in 0..63
      /\ b = 16 * c + d /\ c \in Int /\ d \in 0..15
  <2>1. buf = 4 * h + u /\ h \in Int /\ u \in 0..3
    BY <1>1, Split4
  <2>2. into = 64 * g + w /\ g \in Int /\ w \in 0..63
    BY <1>1, Split64
  <2>3. b = 16 * c + d /\ c \in Int /\ d \in 0..15
    BY <1>1, Split16
  <2> QED BY <2>1, <2>2, <2>3
<1> HIDE DEF h, u, g, w, c, d
<1>5. c \in 0..15
  BY <1>4, <1>1
<1> DEFINE i == h - 16 * q
           j == 16 * u + c
           k == 64 * i + j
<1>6. i \in Int /\ j \in 0..63 /\ k \in Int /\ x = 16 * k + d
  BY <1>4, <1>5, <1>1, <1>2
<1>7. v = j /\ x % 16 = d
  <2> HIDE DEF i, j, k
  <2>1. x \div 16 = k /\ x % 16 = d
    BY <1>4, <1>6, <1>1
  <2>2. k % 64 = j
    BY <1>6 DEF k
  <2> QED BY <2>1, <2>2
<1> DEFINE m == g - 4 * r
           n == 4 * w + u
           l == 256 * m + n
<1>8. m \in Int /\ n \in 0..255 /\ l \in Int /\ y = 16 * l + c
  BY <1>4, <1>7, <1>1, <1>3
<1>9. (y \div 16) % 256 = n /\ y % 16 = c
  <2> HIDE DEF m, n, l
  <2>1. y \div 16 = l /\ y % 16 = c
    BY <1>5, <1>8, <1>1
  <2>2. l % 256 = n
    BY <1>8 DEF l
  <2> QED BY <2>1, <2>2
<1> QED BY <1>4, <1>7, <1>9 DEF u, w, SecondAfter

\* The third sextet: two bits of a byte, four of the one before.
ThirdBefore(buf, into, b, x, y) == Rounds(buf, into, b, x, y, 64)
ThirdAfter(buf, into, b, x, y) ==
    /\ (y \div 4) % 256 = 16 * (into % 16) + (buf % 16)
    /\ b = 64 * (y % 4) + (x % 64)

LEMMA Third ==
    ASSUME NEW buf, NEW into, NEW b, NEW x, NEW y, ThirdBefore(buf, into, b, x, y)
    PROVE  ThirdAfter(buf, into, b, x, y)
<1> DEFINE v == (x \div 64) % 64
<1>1. /\ buf \in Nat /\ into \in Nat /\ b \in Nat /\ b <= 255 /\ x \in Nat /\ y \in Nat
       /\ LowBits(x, buf * 256 + b) /\ LowBits(y, into * 64 + v)
  BY DEF Rounds, ThirdBefore
<1>2. PICK q \in Int : x = buf * 256 + b - 16384 * q
  BY <1>1, LowBitsIs
<1>3. PICK r \in Int : y = into * 64 + v - 16384 * r
  BY <1>1, LowBitsIs
<1> DEFINE h == buf \div 16
           u == buf % 16
           g == into \div 16
           w == into % 16
           c == b \div 64
           d == b % 64
<1>4. /\ buf = 16 * h + u /\ h \in Int /\ u \in 0..15
      /\ into = 16 * g + w /\ g \in Int /\ w \in 0..15
      /\ b = 64 * c + d /\ c \in Int /\ d \in 0..63
  <2>1. buf = 16 * h + u /\ h \in Int /\ u \in 0..15
    BY <1>1, Split16
  <2>2. into = 16 * g + w /\ g \in Int /\ w \in 0..15
    BY <1>1, Split16
  <2>3. b = 64 * c + d /\ c \in Int /\ d \in 0..63
    BY <1>1, Split64
  <2> QED BY <2>1, <2>2, <2>3
<1> HIDE DEF h, u, g, w, c, d
<1>5. c \in 0..3
  BY <1>4, <1>1
<1> DEFINE i == h - 4 * q
           j == 4 * u + c
           k == 64 * i + j
<1>6. i \in Int /\ j \in 0..63 /\ k \in Int /\ x = 64 * k + d
  BY <1>4, <1>5, <1>1, <1>2
<1>7. v = j /\ x % 64 = d
  <2> HIDE DEF i, j, k
  <2>1. x \div 64 = k /\ x % 64 = d
    BY <1>4, <1>6, <1>1
  <2>2. k % 64 = j
    BY <1>6 DEF k
  <2> QED BY <2>1, <2>2
<1> DEFINE m == g - 16 * r
           n == 16 * w + u
           l == 256 * m + n
<1>8. m \in Int /\ n \in 0..255 /\ l \in Int /\ y = 4 * l + c
  BY <1>4, <1>7, <1>1, <1>3
<1>9. (y \div 4) % 256 = n /\ y % 4 = c
  <2> HIDE DEF m, n, l
  <2>1. y \div 4 = l /\ y % 4 = c
    BY <1>5, <1>8, <1>1
  <2>2. l % 256 = n
    BY <1>8 DEF l
  <2> QED BY <2>1, <2>2
<1> QED BY <1>4, <1>7, <1>9 DEF u, w, ThirdAfter

\* A byte of which the encoder gives the first six bits: the decoder has those, the encoder
\* the two that are left.
LEMMA FirstByte ==
    ASSUME NEW buf, NEW into, NEW b, NEW x, NEW y,
           Rounds(buf, into, b, x, y, 4)
    PROVE  b = 4 * (y % 64) + (x % 4)
<1> DEFINE v == (x \div 4) % 64
<1>1. /\ buf \in Nat /\ into \in Nat /\ b \in Nat /\ b <= 255 /\ x \in Nat /\ y \in Nat
       /\ LowBits(x, buf * 256 + b) /\ LowBits(y, into * 64 + v)
  BY Zenon DEF Rounds
<1>2. PICK q \in Int : x = buf * 256 + b - 16384 * q
  BY <1>1, LowBitsIs
<1>3. PICK r \in Int : y = into * 64 + v - 16384 * r
  BY <1>1, LowBitsIs
<1> DEFINE c == b \div 4
           d == b % 4
<1>4. b = 4 * c + d /\ c \in Int /\ d \in 0..3
  BY <1>1, Split4
<1> HIDE DEF c, d
<1>5. c \in 0..63
  BY <1>4, <1>1
<1> DEFINE i == buf - 64 * q
           k == 64 * i + c
<1>6. i \in Int /\ k \in Int /\ x = 4 * k + d
  BY <1>4, <1>5, <1>1, <1>2
<1>7. v = c /\ x % 4 = d
  <2> HIDE DEF i, k
  <2>1. x \div 4 = k /\ x % 4 = d
    BY <1>4, <1>6, <1>1
  <2>2. k % 64 = c
    BY <1>5, <1>6 DEF k
  <2> QED BY <2>1, <2>2
<1> DEFINE l == into - 256 * r
<1>8. l \in Int /\ y = 64 * l + c
  BY <1>4, <1>7, <1>1, <1>3
<1>9. y % 64 = c
  <2> HIDE DEF l
  <2> QED BY <1>5, <1>8
<1> QED BY <1>4, <1>7, <1>9

FourthBefore(buf, into, y) ==
    /\ buf \in Nat /\ into \in Nat /\ y \in Nat
    /\ LowBits(y, into * 64 + ((buf \div 1) % 64))
FourthAfter(buf, into, y) == (y \div 1) % 256 = 64 * (into % 4) + (buf % 64)

\* The sextet that ends a byte completes it in the decoder.
LEMMA Fourth ==
    ASSUME NEW buf, NEW into, NEW y, FourthBefore(buf, into, y)
    PROVE  FourthAfter(buf, into, y)
<1> DEFINE v == (buf \div 1) % 64
<1>1. /\ buf \in Nat /\ into \in Nat /\ y \in Nat
       /\ LowBits(y, into * 64 + v)
  BY DEF FourthBefore
<1>2. PICK r \in Int : y = into * 64 + v - 16384 * r
  BY <1>1, LowBitsIs
<1> DEFINE u == buf % 64
           g == into \div 4
           w == into % 4
<1>3. u \in 0..63
  BY <1>1, Split64
<1>4. into = 4 * g + w /\ g \in Int /\ w \in 0..3
  BY <1>1, Split4
<1>5. v = u
  BY <1>1
<1> HIDE DEF v, u, g, w
<1> DEFINE m == g - 64 * r
           n == 64 * w + u
<1>6. m \in Int /\ n \in 0..255 /\ y = 256 * m + n
  BY <1>3, <1>4, <1>5, <1>1, <1>2
<1>7. y \div 1 = y
  BY <1>1
<1>8. y % 256 = n
  <2> HIDE DEF m, n
  <2> QED BY <1>6
<1> QED BY <1>7, <1>8 DEF u, w, FourthAfter

\* How many bits of a buffer are still to be used.
Widths == {0, 2, 4, 6}

\* A byte is a number below 256.
LEMMA ByteIs ==
    ASSUME NEW x \in Byte
    PROVE  x \in Nat /\ x <= 255
BY DEF Byte

\* The states of the two loops.
EncodeStates(src) == [buf : Nat, bits : Widths, next : 0..Len(src)]
DecodeStates      == [buf : Nat, bits : Widths, dst : Seq(Byte)]

\* The character that the encoder appends in state s.
Sextet(s) == (s.buf \div 2^s.bits) % 64
Char(s)   == Alphabet(Sextet(s))

\* A buffer shifted to the right is a number.
LEMMA RightShift ==
    ASSUME NEW buf \in Nat, NEW d \in Widths
    PROVE  buf \div 2^d \in Int
<1>1. CASE d = 0
  <2>1. buf \div 1 \in Int
    OBVIOUS
  <2> QED BY <1>1, <2>1, Powers2
<1>2. CASE d = 2
  <2>1. buf \div 4 \in Int
    OBVIOUS
  <2> QED BY <1>2, <2>1, Powers2
<1>3. CASE d = 4
  <2>1. buf \div 16 \in Int
    OBVIOUS
  <2> QED BY <1>3, <2>1, Powers2
<1>4. CASE d = 6
  <2>1. buf \div 64 \in Int
    OBVIOUS
  <2> QED BY <1>4, <2>1, Powers2
<1> QED BY <1>1, <1>2, <1>3, <1>4 DEF Widths

\* The decoder takes a character of the alphabet back to its sextet.
LEMMA CharIs ==
    ASSUME NEW s, s.buf \in Nat, s.bits \in Widths
    PROVE  Sextet(s) \in 0..63 /\ Char(s) \in Byte /\ DecodeChar(Char(s)) = Sextet(s)
<1> DEFINE q == s.buf \div 2^s.bits
<1>1. q \in Int
  BY RightShift
<1> HIDE DEF q
<1>2. q % 64 \in 0..63
  BY <1>1, Split64
<1>3. Sextet(s) \in 0..63
  BY <1>2 DEF q, Sextet
<1>4. Char(s) \in Byte
  BY <1>3 DEF Alphabet, Char, Byte
<1> QED BY <1>3, <1>4, AlphabetIs DEF Char

\* A round of the encoder.
LEMMA EncodeRoundIs ==
    ASSUME NEW src \in Seq(Byte), NEW s \in EncodeStates(src)
    PROVE  EncodeRound(src, s) \in EncodeStates(src)
<1>1. s.buf \in Nat /\ s.bits \in Widths /\ s.next \in 0..Len(src) /\ Len(src) \in Nat
  BY DEF EncodeStates
<1>2. CASE s.bits >= 6
  <2>1. EncodeRound(src, s) = [s EXCEPT !.bits = s.bits - 6] /\ s.bits - 6 = 0
    BY <1>1, <1>2 DEF EncodeRound, Widths
  <2> QED BY <2>1 DEF EncodeStates, Widths
<1>3. CASE ~(s.bits >= 6) /\ s.next < Len(src)
  <2>1. s.next + 1 \in 1..Len(src) /\ s.next + 1 \in 0..Len(src) /\ s.bits + 2 \in Widths
    BY <1>1, <1>3 DEF Widths
  <2>4. src[s.next + 1] \in Nat
    <3>1. src[s.next + 1] \in Byte
      BY <2>1
    <3> QED BY <3>1, ByteIs
  <2>2. Shift(s.buf, 256, src[s.next + 1]) \in Nat
    BY <1>1, <2>4, ShiftIsNat
  <2>3. EncodeRound(src, s) = [buf |-> Shift(s.buf, 256, src[s.next + 1]),
                               bits |-> s.bits + 2, next |-> s.next + 1]
    BY <1>3 DEF EncodeRound
  <2> QED BY <2>1, <2>2, <2>3 DEF EncodeStates
<1>4. CASE ~(s.bits >= 6) /\ ~(s.next < Len(src))
  <2>1. Shift(s.buf, 256, 0) \in Nat
    BY <1>1, ShiftIsNat
  <2>3. s.bits + 2 \in Widths
    BY <1>1, <1>4 DEF Widths
  <2>2. EncodeRound(src, s) = [buf |-> Shift(s.buf, 256, 0), bits |-> s.bits + 2,
                               next |-> s.next]
    BY <1>4 DEF EncodeRound
  <2> QED BY <1>1, <2>1, <2>2, <2>3 DEF EncodeStates
<1> QED BY <1>2, <1>3, <1>4

\* What a round of the decoder does with a character of the alphabet.
LEMMA DecodeRoundIs ==
    ASSUME NEW t \in DecodeStates, NEW char, NEW v \in 0..63, DecodeChar(char) = v
    PROVE  /\ DecodeRound(t, char) \in DecodeStates
           /\ LowBits(DecodeRound(t, char).buf, t.buf * 64 + v)
           /\ IF t.bits = 0
              THEN DecodeRound(t, char).bits = 6 /\ DecodeRound(t, char).dst = t.dst
              ELSE /\ DecodeRound(t, char).bits = t.bits - 2
                   /\ DecodeRound(t, char).dst =
                        Append(t.dst, (DecodeRound(t, char).buf \div 2^(t.bits - 2)) % 256)
<1> DEFINE buf == Shift(t.buf, 64, v)
           new == DecodeRound(t, char)
<1>1. t.buf \in Nat /\ t.bits \in Widths /\ t.dst \in Seq(Byte)
  BY DEF DecodeStates
<1>2. LowBits(buf, t.buf * 64 + v) /\ buf \in Nat
  <2>1. v \in Nat
    OBVIOUS
  <2> DEFINE old == t.buf
  <2>2. old \in Nat
    BY <1>1
  <2> HIDE DEF old
  <2>3. Keeps64(old, v)
    BY <2>1, <2>2, KeepsBits
  <2> QED BY <2>3 DEF old, Keeps64
<1>3. CASE t.bits = 0
  <2>1. new = [t EXCEPT !.buf = buf, !.bits = 6]
    BY <1>3 DEF DecodeRound
  <2> HIDE DEF new, buf
  <2>2. new \in DecodeStates /\ new.buf = buf /\ new.bits = 6 /\ new.dst = t.dst
    BY <1>1, <1>2, <2>1 DEF DecodeStates, Widths
  <2>3. /\ new \in DecodeStates /\ LowBits(new.buf, t.buf * 64 + v)
        /\ new.bits = 6 /\ new.dst = t.dst
    BY <1>2, <2>2
  <2> QED BY <1>3, <2>3 DEF new
<1>4. CASE t.bits # 0
  <2> DEFINE byte == (buf \div 2^(t.bits - 2)) % 256
  <2>1. new = [buf |-> buf, bits |-> t.bits - 2, dst |-> Append(t.dst, byte)]
    BY <1>1, <1>4 DEF DecodeRound, Widths
  <2> HIDE DEF new, buf
  <2>2. t.bits - 2 \in Widths /\ t.bits - 2 \in {0, 2, 4}
    BY <1>1, <1>4 DEF Widths
  <2>3. byte \in Byte
    <3> DEFINE q == buf \div 2^(t.bits - 2)
    <3>1. q \in Int
      BY <1>2, <2>2, RightShift
    <3> HIDE DEF q
    <3>2. q % 256 \in 0..255
      BY <3>1
    <3> QED BY <3>2 DEF q, Byte
  <2> HIDE DEF byte
  <2>4. Append(t.dst, byte) \in Seq(Byte)
    BY <1>1, <2>3
  <2>5. /\ new \in DecodeStates /\ new.buf = buf /\ new.bits = t.bits - 2
        /\ new.dst = Append(t.dst, byte)
    BY <1>2, <2>1, <2>2, <2>4 DEF DecodeStates
  <2>6. new.dst = Append(t.dst, (new.buf \div 2^(t.bits - 2)) % 256)
    BY <2>5 DEF byte
  <2>7. LowBits(new.buf, t.buf * 64 + v)
    BY <1>2, <2>5
  <2> QED BY <1>4, <2>5, <2>6, <2>7 DEF new
<1> QED BY <1>3, <1>4

\* The encoder's loop and the decoder's, round by round.
LEMMA EncodingIs ==
    ASSUME NEW src \in Seq(Byte), NEW N \in Nat
    PROVE  /\ Encoding(src, N)[0] = NothingRead
           /\ \A c \in 0..N : Encoding(src, N)[c] \in EncodeStates(src)
           /\ \A c \in 1..N : Encoding(src, N)[c] = EncodeRound(src, Encoding(src, N)[c - 1])
<1> DEFINE f == Encoding(src, N)
           step == [c \in 1..N |-> [s \in EncodeStates(src) |-> EncodeRound(src, s)]]
<1>1. NothingRead \in EncodeStates(src)
  BY DEF NothingRead, EncodeStates, Widths
<1>2. step \in [1..N -> [EncodeStates(src) -> EncodeStates(src)]]
  BY EncodeRoundIs
<1>3. PICK g : IsLoop(g, EncodeStates(src), NothingRead, N, step)
  <2> HIDE DEF step
  <2> QED BY <1>1, <1>2, Loop
<1>4. g \in [0..N -> EncodeStates(src)] /\ g[0] = NothingRead
  BY <1>3 DEF IsLoop
<1>5. \A c \in 1..N : g[c] = EncodeRound(src, g[c - 1])
  <2> SUFFICES ASSUME NEW c \in 1..N PROVE g[c] = EncodeRound(src, g[c - 1])
    OBVIOUS
  <2>1. c - 1 \in 0..N /\ g[c] = step[c][g[c - 1]]
    BY <1>3 DEF IsLoop
  <2>2. g[c - 1] \in EncodeStates(src)
    BY <1>4, <2>1
  <2> QED BY <2>1, <2>2
<1>6. g = [c \in 0..N |-> IF c = 0 THEN NothingRead ELSE EncodeRound(src, g[c - 1])]
  <2>1. \A c \in 0..N : g[c] = IF c = 0 THEN NothingRead ELSE EncodeRound(src, g[c - 1])
    BY <1>4, <1>5
  <2> QED BY <1>4, <2>1
<1>7. f = CHOOSE h : h = [c \in 0..N |->
                            IF c = 0 THEN NothingRead ELSE EncodeRound(src, h[c - 1])]
  BY DEF Encoding
<1> HIDE DEF f
<1>8. f = [c \in 0..N |-> IF c = 0 THEN NothingRead ELSE EncodeRound(src, f[c - 1])]
  BY <1>6, <1>7
<1>9. f[0] = NothingRead /\ \A c \in 1..N : f[c] = EncodeRound(src, f[c - 1])
  BY <1>8
<1> DEFINE S == {n \in Nat : n <= N => f[n] \in EncodeStates(src)}
<1>10. 0 \in S
  BY <1>1, <1>9
<1>11. ASSUME NEW n \in Nat, n \in S
       PROVE  n + 1 \in S
  <2> SUFFICES ASSUME n + 1 <= N PROVE f[n + 1] \in EncodeStates(src)
    OBVIOUS
  <2>1. f[n] \in EncodeStates(src) /\ n + 1 \in 1..N /\ (n + 1) - 1 = n
    BY <1>11
  <2>2. f[n + 1] = EncodeRound(src, f[n])
    BY <1>9, <2>1
  <2> QED BY <2>1, <2>2, EncodeRoundIs
<1> HIDE DEF S
<1>12. Nat \subseteq S
  BY <1>10, <1>11, EveryNumber
<1>13. \A c \in 0..N : f[c] \in EncodeStates(src)
  BY <1>12 DEF S
<1> QED BY <1>9, <1>13 DEF f

\* The states of the decoder, round by round.
LEMMA DecodingIs ==
    ASSUME NEW text \in Seq(Byte), \A i \in 1..Len(text) : DecodeChar(text[i]) \in 0..63
    PROVE  /\ Decoding(text)[0] = NothingWritten
           /\ \A i \in 0..Len(text) : Decoding(text)[i] \in DecodeStates
           /\ \A i \in 1..Len(text) :
                 Decoding(text)[i] = DecodeRound(Decoding(text)[i - 1], text[i])
<1> DEFINE N == Len(text)
           f == Decoding(text)
           step == [i \in 1..N |-> [t \in DecodeStates |-> DecodeRound(t, text[i])]]
<1>1. NothingWritten \in DecodeStates /\ N \in Nat
  BY DEF NothingWritten, DecodeStates, Widths
<1>2. step \in [1..N -> [DecodeStates -> DecodeStates]]
  BY DecodeRoundIs
<1>3. PICK g : IsLoop(g, DecodeStates, NothingWritten, N, step)
  <2> HIDE DEF step, N
  <2> QED BY <1>1, <1>2, Loop
<1>4. g \in [0..N -> DecodeStates] /\ g[0] = NothingWritten
  BY <1>3 DEF IsLoop
<1>5. \A i \in 1..N : g[i] = DecodeRound(g[i - 1], text[i])
  <2> SUFFICES ASSUME NEW i \in 1..N PROVE g[i] = DecodeRound(g[i - 1], text[i])
    OBVIOUS
  <2>1. i - 1 \in 0..N /\ g[i] = step[i][g[i - 1]]
    BY <1>3 DEF IsLoop
  <2>2. g[i - 1] \in DecodeStates
    BY <1>4, <2>1
  <2> QED BY <2>1, <2>2
<1>6. g = [i \in 0..N |-> IF i = 0 THEN NothingWritten ELSE DecodeRound(g[i - 1], text[i])]
  <2>1. \A i \in 0..N :
          g[i] = IF i = 0 THEN NothingWritten ELSE DecodeRound(g[i - 1], text[i])
    BY <1>4, <1>5
  <2> QED BY <1>4, <2>1
<1>7. f = CHOOSE h : h = [i \in 0..N |->
                            IF i = 0 THEN NothingWritten ELSE DecodeRound(h[i - 1], text[i])]
  BY DEF Decoding
<1> HIDE DEF f
<1>8. f = [i \in 0..N |-> IF i = 0 THEN NothingWritten ELSE DecodeRound(f[i - 1], text[i])]
  BY <1>6, <1>7
<1>9. f[0] = NothingWritten /\ \A i \in 1..N : f[i] = DecodeRound(f[i - 1], text[i])
  BY <1>1, <1>8
<1> DEFINE S == {n \in Nat : n <= N => f[n] \in DecodeStates}
<1>10. 0 \in S
  BY <1>1, <1>9
<1>11. ASSUME NEW n \in Nat, n \in S
       PROVE  n + 1 \in S
  <2> SUFFICES ASSUME n + 1 <= N PROVE f[n + 1] \in DecodeStates
    OBVIOUS
  <2>1. f[n] \in DecodeStates /\ n + 1 \in 1..N /\ (n + 1) - 1 = n
    BY <1>1, <1>11
  <2>2. f[n + 1] = DecodeRound(f[n], text[n + 1])
    BY <1>9, <2>1
  <2> QED BY <2>1, <2>2, DecodeRoundIs
<1> HIDE DEF S
<1>12. Nat \subseteq S
  BY <1>10, <1>11, EveryNumber
<1>13. \A i \in 0..N : f[i] \in DecodeStates
  BY <1>12 DEF S
<1> QED BY <1>9, <1>13 DEF f

\* The bytes of src, and the zeros after them that the encoder reads at the end.
ByteAt(src, i) == IF i <= Len(src) THEN src[i] ELSE 0

\* What the decoder has written are the first bytes of src.
Written(src, t) == \A j \in 1..Len(t.dst) : t.dst[j] = ByteAt(src, j)

\* After c characters, at the end of a byte.
Even(src, c, s, t) ==
    /\ s.bits = 0 /\ t.bits = 0
    /\ s.next = MinOf(Len(t.dst), Len(src)) /\ 8 * Len(t.dst) = 6 * c

\* Inside a byte: the encoder has e bits of it left, up to p, the decoder d, up to m.
Odd(src, c, s, t, e, p, d, m) ==
    /\ s.bits = e /\ t.bits = d
    /\ s.next = MinOf(Len(t.dst) + 1, Len(src)) /\ 8 * (Len(t.dst) + 1) = 6 * c + e
    /\ ByteAt(src, Len(t.dst) + 1) = p * (t.buf % m) + (s.buf % p)

\* Where the encoder and the decoder meet: between two bytes or inside one.
Meet(src, c, s, t) ==
    /\ Written(src, t)
    /\ \/ Even(src, c, s, t)
       \/ Odd(src, c, s, t, 2, 4, 6, 64)
       \/ Odd(src, c, s, t, 4, 16, 4, 16)
       \/ Odd(src, c, s, t, 6, 64, 2, 4)

\* What the encoder reads is a byte.
LEMMA ByteAtIs ==
    ASSUME NEW src \in Seq(Byte), NEW i \in Nat \ {0}
    PROVE  ByteAt(src, i) \in Byte
<1>1. CASE i <= Len(src)
  <2>1. src[i] \in Byte
    BY <1>1
  <2> QED BY <1>1, <2>1 DEF ByteAt
<1>2. CASE ~(i <= Len(src))
  <2>1. 0 \in Byte
    BY DEF Byte
  <2> QED BY <1>2, <2>1 DEF ByteAt
<1> QED BY <1>1, <1>2

\* From the round s to new, the encoder takes the byte after the first v, or a zero.
Reads(src, s, v, new) ==
    /\ new.next = MinOf(v + 1, Len(src)) /\ new.bits = s.bits + 2
    /\ LowBits(new.buf, s.buf * 256 + ByteAt(src, v + 1))

\* A round of the encoder that reads a byte, and one that does not.
LEMMA EncoderReads ==
    ASSUME NEW src \in Seq(Byte), NEW s \in EncodeStates(src), s.bits # 6,
           NEW v \in Nat, s.next = MinOf(v, Len(src))
    PROVE  Reads(src, s, v, EncodeRound(src, s))
<1>1. /\ s.buf \in Nat /\ s.bits \in Nat /\ ~(s.bits >= 6) /\ Len(src) \in Nat
      /\ s.next \in 0..Len(src)
  BY DEF EncodeStates, Widths
<1>2. ByteAt(src, v + 1) \in Nat
  <2>1. v + 1 \in Nat \ {0}
    OBVIOUS
  <2>2. ByteAt(src, v + 1) \in Nat
    BY <2>1, ByteAtIs, ByteIs, Zenon
  <2> QED BY <2>2
<1>3. LowBits(Shift(s.buf, 256, ByteAt(src, v + 1)), s.buf * 256 + ByteAt(src, v + 1))
  BY <1>1, <1>2, Shifted256, Zenon
<1>4. CASE s.next < Len(src)
  <2>1. s.next = v /\ v + 1 <= Len(src)
    BY <1>1, <1>4 DEF MinOf
  <2>2. ByteAt(src, v + 1) = src[s.next + 1] /\ MinOf(v + 1, Len(src)) = s.next + 1
    BY <1>1, <2>1 DEF ByteAt, MinOf
  <2>3. EncodeRound(src, s) = [buf |-> Shift(s.buf, 256, src[s.next + 1]),
                               bits |-> s.bits + 2, next |-> s.next + 1]
    BY <1>1, <1>4 DEF EncodeRound
  <2> QED BY <1>3, <2>2, <2>3 DEF Reads
<1>5. CASE ~(s.next < Len(src))
  <2>1. ~(v + 1 <= Len(src)) /\ s.next = Len(src)
    BY <1>1, <1>5 DEF MinOf
  <2>2. ByteAt(src, v + 1) = 0 /\ MinOf(v + 1, Len(src)) = s.next
    BY <1>1, <2>1 DEF ByteAt, MinOf
  <2>3. EncodeRound(src, s) = [buf |-> Shift(s.buf, 256, 0), bits |-> s.bits + 2,
                               next |-> s.next]
    BY <1>1, <1>5 DEF EncodeRound
  <2> QED BY <1>3, <2>2, <2>3 DEF Reads
<1> QED BY <1>4, <1>5

\* The decoder that appends the next byte still has the first bytes of src.
LEMMA AppendsByte ==
    ASSUME NEW src, NEW t, NEW u, t.dst \in Seq(Byte), Written(src, t),
           ByteAt(src, Len(t.dst) + 1) \in Byte,
           u.dst = Append(t.dst, ByteAt(src, Len(t.dst) + 1))
    PROVE  Written(src, u) /\ Len(u.dst) = Len(t.dst) + 1
<1> DEFINE d == t.dst
           n == Len(d)
           b == ByteAt(src, n + 1)
           e == Append(d, b)
<1>1. n \in Nat /\ Len(e) = n + 1 /\ e[n + 1] = b /\ \A j \in 1..n : e[j] = d[j]
  BY AppendProperties
<1>2. \A j \in 1..n : d[j] = ByteAt(src, j)
  BY DEF Written
<1> HIDE DEF n, e
<1>3. \A j \in 1..(n + 1) : j \in 1..n \/ j = n + 1
  BY <1>1
<1>4. \A j \in 1..(n + 1) : e[j] = ByteAt(src, j)
  BY <1>1, <1>2, <1>3
<1> QED BY <1>1, <1>4 DEF Written, n, e

\* A source is a sequence of bytes.
IsSource(src) == src \in Seq(Byte)

\* A round takes the two from one meeting to the next.
LEMMA MeetAgain ==
    ASSUME NEW src, IsSource(src), NEW c \in Nat,
           NEW s \in EncodeStates(src), NEW t \in DecodeStates, Meet(src, c, s, t)
    PROVE  Meet(src, c + 1, EncodeRound(src, s), DecodeRound(t, Char(EncodeRound(src, s))))
<1> DEFINE s2 == EncodeRound(src, s)
           v  == Sextet(s2)
           t2 == DecodeRound(t, Char(s2))
           n  == Len(t.dst)
<1>1. s.buf \in Nat /\ t.buf \in Nat
  BY DEF EncodeStates, DecodeStates
<1>2. n \in Nat
  BY DEF DecodeStates
<1>3. s2.buf \in Nat /\ t2.buf \in Nat /\ s2.bits \in Widths
  <2>1. s2 \in EncodeStates(src)
    BY EncodeRoundIs DEF IsSource
  <2>2. s2.buf \in Nat /\ s2.bits \in Widths
    BY <2>1 DEF EncodeStates
  <2>3. Sextet(s2) \in 0..63 /\ DecodeChar(Char(s2)) = Sextet(s2)
    BY <2>2, CharIs, Zenon
  <2>4. t2 \in DecodeStates
    BY <2>3, DecodeRoundIs, Zenon
  <2> QED BY <2>2, <2>4 DEF DecodeStates
<1>4. LowBits(t2.buf, t.buf * 64 + v)
  <2>1. Sextet(s2) \in 0..63 /\ DecodeChar(Char(s2)) = Sextet(s2)
    BY <1>3, CharIs, Zenon
  <2> QED BY <2>1, DecodeRoundIs, Zenon
<1>5. IF t.bits = 0 THEN t2.bits = 6 /\ t2.dst = t.dst
      ELSE t2.bits = t.bits - 2 /\ t2.dst = Append(t.dst, (t2.buf \div 2^(t.bits - 2)) % 256)
  <2>1. Sextet(s2) \in 0..63 /\ DecodeChar(Char(s2)) = Sextet(s2)
    BY <1>3, CharIs, Zenon
  <2> QED BY <2>1, DecodeRoundIs, Zenon
<1>6. t.dst \in Seq(Byte) /\ \A i \in Nat \ {0} : ByteAt(src, i) \in Byte
  <2>1. t.dst \in Seq(Byte)
    BY DEF DecodeStates
  <2> QED BY <2>1, ByteAtIs, Zenon DEF IsSource
<1>7. Written(src, t)
  BY Zenon DEF Meet
<1>8. \A w \in Nat : s.bits # 6 /\ s.next = MinOf(w, Len(src)) => Reads(src, s, w, s2)
  BY EncoderReads, Zenon DEF IsSource
<1>9. \A i \in Nat \ {0} : ByteAt(src, i) \in Nat /\ ByteAt(src, i) <= 255
  BY <1>6, ByteIs, Zenon
<1> HIDE DEF s2, v, t2, n
<1>10. CASE Even(src, c, s, t)
  <2>1. s.bits = 0 /\ t.bits = 0 /\ s.next = MinOf(n, Len(src)) /\ 8 * n = 6 * c
    BY <1>10, Zenon DEF Even, n
  <2>2. s2.next = MinOf(n + 1, Len(src)) /\ s2.bits = s.bits + 2
        /\ LowBits(s2.buf, s.buf * 256 + ByteAt(src, n + 1))
    <3>1. s.bits # 6
      BY <2>1
    <3> QED BY <1>2, <1>8, <2>1, <3>1, Zenon DEF Reads
  <2>3. s2.bits = 2 /\ t2.bits = 6 /\ t2.dst = t.dst
    BY <1>5, <2>1, <2>2
  <2>4. LowBits(t2.buf, t.buf * 64 + ((s2.buf \div 4) % 64))
    BY <1>4, <2>3, Powers2 DEF v, Sextet
  <2>5. ByteAt(src, n + 1) \in Nat /\ ByteAt(src, n + 1) <= 255
    <3>1. n + 1 \in Nat \ {0}
      BY <1>2
    <3> QED BY <1>9, <3>1, Zenon
  <2>6. ByteAt(src, n + 1) = 4 * (t2.buf % 64) + (s2.buf % 4)
    <3>1. Rounds(s.buf, t.buf, ByteAt(src, n + 1), s2.buf, t2.buf, 4)
      BY <1>1, <1>3, <2>2, <2>4, <2>5, Zenon DEF Rounds
    <3> QED BY <3>1, FirstByte, Zenon
  <2>7. 8 * (n + 1) = 6 * (c + 1) + 2
    BY <1>2, <2>1
  <2>8. Odd(src, c + 1, s2, t2, 2, 4, 6, 64)
    BY <2>2, <2>3, <2>6, <2>7, Zenon DEF Odd, n
  <2>9. Written(src, t2)
    BY <1>7, <2>3, Zenon DEF Written
  <2> QED BY <2>8, <2>9, Zenon DEF Meet, s2, t2
<1>11. CASE Odd(src, c, s, t, 2, 4, 6, 64)
  <2>1. /\ s.bits = 2 /\ t.bits = 6 /\ s.next = MinOf(n + 1, Len(src)) /\ 8 * (n + 1) = 6 * c + 2
        /\ ByteAt(src, n + 1) = 4 * (t.buf % 64) + (s.buf % 4)
    BY <1>11, Zenon DEF Odd, n
  <2>2. s2.next = MinOf((n + 1) + 1, Len(src)) /\ s2.bits = s.bits + 2
        /\ LowBits(s2.buf, s.buf * 256 + ByteAt(src, (n + 1) + 1))
    <3>1. s.bits # 6 /\ n + 1 \in Nat
      BY <1>2, <2>1
    <3>2. Reads(src, s, n + 1, s2)
      BY <1>8, <2>1, <3>1
    <3> QED BY <3>2, Zenon DEF Reads
  <2>3. s2.bits = 4 /\ t2.bits = 4 /\ t2.dst = Append(t.dst, (t2.buf \div 16) % 256)
    BY <1>5, <2>1, <2>2, Powers2
  <2>4. LowBits(t2.buf, t.buf * 64 + ((s2.buf \div 16) % 64))
    BY <1>4, <2>3, Powers2 DEF v, Sextet
  <2>5. ByteAt(src, (n + 1) + 1) \in Nat /\ ByteAt(src, (n + 1) + 1) <= 255
    <3>1. (n + 1) + 1 \in Nat \ {0}
      BY <1>2
    <3> QED BY <1>9, <3>1, Zenon
  <2>6. /\ (t2.buf \div 16) % 256 = 4 * (t.buf % 64) + (s.buf % 4)
        /\ ByteAt(src, (n + 1) + 1) = 16 * (t2.buf % 16) + (s2.buf % 16)
    <3>1. SecondBefore(s.buf, t.buf, ByteAt(src, (n + 1) + 1), s2.buf, t2.buf)
      BY <1>1, <1>3, <2>2, <2>4, <2>5 DEF Rounds, SecondBefore
    <3>2. SecondAfter(s.buf, t.buf, ByteAt(src, (n + 1) + 1), s2.buf, t2.buf)
      BY <3>1, Second, Zenon
    <3> QED BY <3>2 DEF SecondAfter
  <2>7. Written(src, t2) /\ Len(t2.dst) = n + 1
    <3>1. n + 1 \in Nat \ {0}
      BY <1>2
    <3>2. ByteAt(src, n + 1) \in Byte
      BY <1>6, <3>1, Zenon
    <3>3. t2.dst = Append(t.dst, ByteAt(src, n + 1))
      BY <2>1, <2>3, <2>6, Zenon
    <3> QED BY <1>6, <1>7, <3>2, <3>3, AppendsByte, Zenon DEF n
  <2>8. 8 * ((n + 1) + 1) = 6 * (c + 1) + 4
    BY <1>2, <2>1
  <2>9. Odd(src, c + 1, s2, t2, 4, 16, 4, 16)
    BY <2>2, <2>3, <2>6, <2>7, <2>8, Zenon DEF Odd, n
  <2> QED BY <2>7, <2>9, Zenon DEF Meet, s2, t2
<1>12. CASE Odd(src, c, s, t, 4, 16, 4, 16)
  <2>1. /\ s.bits = 4 /\ t.bits = 4 /\ s.next = MinOf(n + 1, Len(src)) /\ 8 * (n + 1) = 6 * c + 4
        /\ ByteAt(src, n + 1) = 16 * (t.buf % 16) + (s.buf % 16)
    BY <1>12, Zenon DEF Odd, n
  <2>2. s2.next = MinOf((n + 1) + 1, Len(src)) /\ s2.bits = s.bits + 2
        /\ LowBits(s2.buf, s.buf * 256 + ByteAt(src, (n + 1) + 1))
    <3>1. s.bits # 6 /\ n + 1 \in Nat
      BY <1>2, <2>1
    <3>2. Reads(src, s, n + 1, s2)
      BY <1>8, <2>1, <3>1
    <3> QED BY <3>2, Zenon DEF Reads
  <2>3. s2.bits = 6 /\ t2.bits = 2 /\ t2.dst = Append(t.dst, (t2.buf \div 4) % 256)
    BY <1>5, <2>1, <2>2, Powers2
  <2>4. LowBits(t2.buf, t.buf * 64 + ((s2.buf \div 64) % 64))
    BY <1>4, <2>3, Powers2 DEF v, Sextet
  <2>5. ByteAt(src, (n + 1) + 1) \in Nat /\ ByteAt(src, (n + 1) + 1) <= 255
    <3>1. (n + 1) + 1 \in Nat \ {0}
      BY <1>2
    <3> QED BY <1>9, <3>1, Zenon
  <2>6. /\ (t2.buf \div 4) % 256 = 16 * (t.buf % 16) + (s.buf % 16)
        /\ ByteAt(src, (n + 1) + 1) = 64 * (t2.buf % 4) + (s2.buf % 64)
    <3>1. ThirdBefore(s.buf, t.buf, ByteAt(src, (n + 1) + 1), s2.buf, t2.buf)
      BY <1>1, <1>3, <2>2, <2>4, <2>5 DEF Rounds, ThirdBefore
    <3>2. ThirdAfter(s.buf, t.buf, ByteAt(src, (n + 1) + 1), s2.buf, t2.buf)
      BY <3>1, Third, Zenon
    <3> QED BY <3>2 DEF ThirdAfter
  <2>7. Written(src, t2) /\ Len(t2.dst) = n + 1
    <3>1. n + 1 \in Nat \ {0}
      BY <1>2
    <3>2. ByteAt(src, n + 1) \in Byte
      BY <1>6, <3>1, Zenon
    <3>3. t2.dst = Append(t.dst, ByteAt(src, n + 1))
      BY <2>1, <2>3, <2>6, Zenon
    <3> QED BY <1>6, <1>7, <3>2, <3>3, AppendsByte, Zenon DEF n
  <2>8. 8 * ((n + 1) + 1) = 6 * (c + 1) + 6
    BY <1>2, <2>1
  <2>9. Odd(src, c + 1, s2, t2, 6, 64, 2, 4)
    BY <2>2, <2>3, <2>6, <2>7, <2>8, Zenon DEF Odd, n
  <2> QED BY <2>7, <2>9, Zenon DEF Meet, s2, t2
<1>13. CASE Odd(src, c, s, t, 6, 64, 2, 4)
  <2>1. /\ s.bits = 6 /\ t.bits = 2 /\ s.next = MinOf(n + 1, Len(src)) /\ 8 * (n + 1) = 6 * c + 6
        /\ ByteAt(src, n + 1) = 64 * (t.buf % 4) + (s.buf % 64)
    BY <1>13, Zenon DEF Odd, n
  <2>2. s2 = [s EXCEPT !.bits = s.bits - 6]
    BY <2>1 DEF s2, EncodeRound
  <2>3. s2.next = s.next /\ s2.bits = 0 /\ s2.buf = s.buf
    BY <2>1, <2>2 DEF EncodeStates
  <2>4. t2.bits = 0 /\ t2.dst = Append(t.dst, (t2.buf \div 1) % 256)
    BY <1>5, <2>1, Powers2
  <2>5. v = (s.buf \div 1) % 64
    BY <2>3, Powers2 DEF v, Sextet
  <2>6. (t2.buf \div 1) % 256 = 64 * (t.buf % 4) + (s.buf % 64)
    <3>1. FourthBefore(s.buf, t.buf, t2.buf)
      BY <1>1, <1>3, <1>4, <2>5 DEF FourthBefore
    <3>2. FourthAfter(s.buf, t.buf, t2.buf)
      BY <3>1, Fourth, Zenon
    <3> QED BY <3>2 DEF FourthAfter
  <2>7. Written(src, t2) /\ Len(t2.dst) = n + 1
    <3>1. n + 1 \in Nat \ {0}
      BY <1>2
    <3>2. ByteAt(src, n + 1) \in Byte
      BY <1>6, <3>1, Zenon
    <3>3. t2.dst = Append(t.dst, ByteAt(src, n + 1))
      BY <2>1, <2>4, <2>6, Zenon
    <3> QED BY <1>6, <1>7, <3>2, <3>3, AppendsByte, Zenon DEF n
  <2>8. 8 * (n + 1) = 6 * (c + 1)
    BY <1>2, <2>1
  <2>9. Even(src, c + 1, s2, t2)
    BY <2>1, <2>3, <2>4, <2>7, <2>8, Zenon DEF Even
  <2> QED BY <2>7, <2>9, Zenon DEF Meet, s2, t2
<1> QED BY <1>10, <1>11, <1>12, <1>13, Zenon DEF Meet

\* How many characters the encoder makes of n bytes.
Chars64(n) == (n * 8 + 5) \div 6

\* The text that the encoder has made: characters of the alphabet.
LEMMA EncodedIs ==
    ASSUME NEW src \in Seq(Byte), NEW N \in Nat
    PROVE  /\ Encoded(src, N) \in Seq(Byte) /\ Len(Encoded(src, N)) = N
           /\ \A c \in 1..N : /\ Encoded(src, N)[c] = Char(Encoding(src, N)[c])
                              /\ DecodeChar(Encoded(src, N)[c]) \in 0..63
<1> DEFINE E == Encoding(src, N)
           text == Encoded(src, N)
<1>1. text = [c \in 1..N |-> Char(E[c])]
  BY DEF Encoded, Char, Sextet
<1>2. ASSUME NEW c \in 1..N
      PROVE  Char(E[c]) \in Byte /\ DecodeChar(Char(E[c])) \in 0..63
  <2>1. E[c] \in EncodeStates(src)
    BY EncodingIs
  <2>2. E[c].buf \in Nat /\ E[c].bits \in Widths
    BY <2>1 DEF EncodeStates
  <2> QED BY <2>2, CharIs, Zenon
<1> HIDE DEF text, E
<1>3. text \in [1..N -> Byte]
  BY <1>1, <1>2
<1>4. text \in Seq(Byte) /\ Len(text) = N
  BY <1>3, ElementOfSeq, IsASeq
<1>5. \A c \in 1..N : text[c] = Char(E[c]) /\ DecodeChar(text[c]) \in 0..63
  BY <1>1, <1>2
<1> QED BY <1>4, <1>5 DEF text, E

\* The two meet before the first character.
LEMMA MeetAtFirst ==
    ASSUME NEW src \in Seq(Byte)
    PROVE  Meet(src, 0, NothingRead, NothingWritten)
<1>1. Len(src) \in Nat /\ MinOf(0, Len(src)) = 0
  BY DEF MinOf
<1>2. Even(src, 0, NothingRead, NothingWritten)
  BY <1>1 DEF Even, NothingRead, NothingWritten
<1>3. Written(src, NothingWritten)
  BY DEF Written, NothingWritten
<1> QED BY <1>2, <1>3 DEF Meet

\* When the encoder is at its end, the decoder has all.
LEMMA MeetAtLast ==
    ASSUME NEW src \in Seq(Byte), NEW s \in EncodeStates(src), NEW t \in DecodeStates,
           Meet(src, Chars64(Len(src)), s, t)
    PROVE  t.dst = src
<1> DEFINE n == Len(src)
           m == Len(t.dst)
           N == Chars64(n)
<1>1. n \in Nat /\ m \in Nat /\ t.dst \in Seq(Byte)
  BY DEF DecodeStates
<1>2. N \in Nat /\ 8 * n <= 6 * N /\ 6 * N <= 8 * n + 5
  <2> HIDE DEF n
  <2>1. (n * 8 + 5) \div 6 \in Nat
    BY <1>1
  <2>2. n * 8 + 5 = 6 * ((n * 8 + 5) \div 6) + ((n * 8 + 5) % 6) /\ (n * 8 + 5) % 6 \in 0..5
    BY <1>1
  <2> QED BY <1>1, <2>1, <2>2 DEF Chars64
<1>3. \/ 8 * m = 6 * N
      \/ \E e \in {2, 4, 6} : 8 * (m + 1) = 6 * N + e
  BY DEF Meet, Even, Odd
<1>4. \A j \in 1..m : t.dst[j] = ByteAt(src, j)
  BY DEF Meet, Written
<1> HIDE DEF n, m, N
<1>5. m = n
  BY <1>1, <1>2, <1>3
<1>6. \A j \in 1..n : t.dst[j] = src[j]
  BY <1>1, <1>4, <1>5 DEF ByteAt, n
<1> QED BY <1>1, <1>5, <1>6, SeqEqual DEF n, m

\* What is decoded is what was encoded, for every sequence of bytes.
LEMMA RoundTrip ==
    ASSUME NEW src \in Seq(Byte)
    PROVE  /\ EncodeBase64(src) \in Seq(Byte)
           /\ Len(EncodeBase64(src)) = Chars64(Len(src))
           /\ DecodeBase64(EncodeBase64(src)) = src
<1> DEFINE N == Chars64(Len(src))
           E == Encoding(src, N)
           text == Encoded(src, N)
           D == Decoding(text)
<1>1. N \in Nat /\ EncodeBase64(src) = text
  <2>1. (Len(src) * 8 + 5) \div 6 \in Nat
    <3> DEFINE n == Len(src)
    <3>1. n \in Nat
      OBVIOUS
    <3> HIDE DEF n
    <3>2. (n * 8 + 5) \div 6 \in Nat
      BY <3>1
    <3> QED BY <3>2 DEF n
  <2> QED BY <2>1 DEF EncodeBase64, Chars64
<1> HIDE DEF N
<1>2. /\ text \in Seq(Byte) /\ Len(text) = N
      /\ \A c \in 1..N : text[c] = Char(E[c]) /\ DecodeChar(text[c]) \in 0..63
  BY <1>1, EncodedIs
<1>3. /\ E[0] = NothingRead
      /\ \A c \in 0..N : E[c] \in EncodeStates(src)
      /\ \A c \in 1..N : E[c] = EncodeRound(src, E[c - 1])
  BY <1>1, EncodingIs
<1> HIDE DEF E, text
<1>4. /\ D[0] = NothingWritten
      /\ \A c \in 0..N : D[c] \in DecodeStates
      /\ \A c \in 1..N : D[c] = DecodeRound(D[c - 1], text[c])
  BY <1>2, DecodingIs
<1> HIDE DEF D
<1> DEFINE S == {c \in Nat : c <= N => Meet(src, c, E[c], D[c])}
<1>5. 0 \in S
  BY <1>3, <1>4, MeetAtFirst
<1>6. ASSUME NEW c \in Nat, c \in S
      PROVE  c + 1 \in S
  <2> SUFFICES ASSUME c + 1 <= N PROVE Meet(src, c + 1, E[c + 1], D[c + 1])
    OBVIOUS
  <2>1. c \in 0..N /\ c + 1 \in 1..N /\ (c + 1) - 1 = c /\ Meet(src, c, E[c], D[c])
    BY <1>1, <1>6
  <2>2. E[c] \in EncodeStates(src) /\ D[c] \in DecodeStates /\ IsSource(src)
    BY <1>3, <1>4, <2>1 DEF IsSource
  <2>3. E[c + 1] = EncodeRound(src, E[c])
    BY <1>3, <2>1
  <2>4. D[c + 1] = DecodeRound(D[c], Char(E[c + 1]))
    BY <1>2, <1>4, <2>1
  <2> HIDE DEF S
  <2>5. Meet(src, c + 1, EncodeRound(src, E[c]), DecodeRound(D[c], Char(EncodeRound(src, E[c]))))
    BY <2>1, <2>2, MeetAgain, Zenon
  <2> QED BY <2>3, <2>4, <2>5
<1> HIDE DEF S
<1>7. N \in S
  BY <1>1, <1>5, <1>6, EveryNumber
<1>8. Meet(src, N, E[N], D[N]) /\ E[N] \in EncodeStates(src) /\ D[N] \in DecodeStates
  BY <1>1, <1>3, <1>4, <1>7 DEF S
<1>9. D[N].dst = src
  BY <1>8, MeetAtLast DEF N
<1>10. DecodeBase64(text) = D[N].dst
  BY <1>2 DEF DecodeBase64, D
<1> QED BY <1>1, <1>2, <1>9, <1>10 DEF N
-----------------------------------------------------------------------------
(* The hash: it has the salt and the cost that a verification takes from it. *)

\* A cost that is clamped is in the range, and stays as it is when it is clamped again.
LEMMA ClampIs ==
    ASSUME NEW cost \in Nat
    PROVE  Clamp(cost) \in 4..31 /\ Clamp(Clamp(cost)) = Clamp(cost)
BY DEF Clamp

\* The seven bytes in front of the salt: version and cost.
LEMMA PrefixIs ==
    ASSUME NEW cost \in 4..31
    PROVE  LET head == Prefix(cost)
           IN  /\ head \in Seq(Byte) /\ Len(head) = 7
               /\ head[1] = Dollar /\ head[2] = 50 /\ head[4] = Dollar /\ head[7] = Dollar
               /\ head[5] \in Digits /\ head[6] \in Digits
               /\ (head[5] - 48) * 10 + (head[6] - 48) = cost
<1> DEFINE q == cost \div 10
           r == cost % 10
<1>1. cost = 10 * q + r /\ q \in Int /\ r \in 0..9
  OBVIOUS
<1>2. q \in 0..9
  BY <1>1
<1>3. Prefix(cost) = <<Dollar, 50, 98, Dollar, 48 + q, 48 + r, Dollar>>
  BY DEF Prefix
<1> HIDE DEF q, r
<1>4. 48 + q \in Digits /\ 48 + r \in Digits /\ (48 + q - 48) * 10 + (48 + r - 48) = cost
  BY <1>1, <1>2 DEF Digits
<1> DEFINE x == 48 + q
           y == 48 + r
<1>5. x \in Byte /\ y \in Byte /\ Dollar \in Byte /\ 50 \in Byte /\ 98 \in Byte
  BY <1>1, <1>2 DEF Byte, Dollar
<1> HIDE DEF x, y
<1>6. <<Dollar, 50, 98, Dollar, x, y, Dollar>> \in Seq(Byte)
  BY <1>5
<1> DEFINE head == <<Dollar, 50, 98, Dollar, x, y, Dollar>>
<1>7. /\ Len(head) = 7 /\ head[1] = Dollar /\ head[2] = 50 /\ head[4] = Dollar
      /\ head[7] = Dollar /\ head[5] = x /\ head[6] = y
  OBVIOUS
<1>8. x \in Digits /\ y \in Digits /\ (x - 48) * 10 + (y - 48) = cost
  BY <1>1, <1>2, <1>4 DEF x, y
<1>9. Prefix(cost) = head
  BY <1>3 DEF x, y
<1> HIDE DEF head
<1> QED BY <1>6, <1>7, <1>8, <1>9 DEF head

\* What a hash is made of: every cost, salt and password.
LEMMA HashIs ==
    ASSUME NEW p, NEW cost, NEW salt, IsHashed(p, salt, cost)
    PROVE  LET hash == BcryptHash(p, cost, salt)
           IN  /\ Len(hash) = 60 /\ WellFormed(hash)
               /\ DecodeBase64(SubSeq(hash, 8, 29)) = salt
               /\ (hash[5] - 48) * 10 + (hash[6] - 48) = Clamp(cost)
               /\ SubSeq(hash, 30, 60) = EncodeBase64(SubSeq(Core(p, salt, Clamp(cost)), 1, 23))
<1> DEFINE head == Prefix(Clamp(cost))
           left == EncodeBase64(salt)
           core == Core(p, salt, Clamp(cost))
           part == SubSeq(core, 1, 23)
           right == EncodeBase64(part)
           hash == (head \o left) \o right
<1>1. Clamp(cost) \in 4..31
  BY ClampIs DEF IsHashed
<1>2. salt \in Seq(Byte) /\ Len(salt) = 16 /\ core \in Seq(Byte) /\ Len(core) = 24
  <2>1. 16 \in Nat /\ 24 \in Nat
    OBVIOUS
  <2>2. salt \in [1..16 -> Byte] /\ core \in [1..24 -> Byte]
    BY DEF IsHashed
  <2> HIDE DEF core
  <2>3. \A n \in Nat : \A f : f \in [1..n -> Byte] => f \in Seq(Byte) /\ Len(f) = n
    BY TextIs
  <2> QED BY <2>1, <2>2, <2>3
<1> HIDE DEF core
<1>3. part \in Seq(Byte) /\ Len(part) = 23
  <2>1. 23 \in Nat /\ 23 <= Len(core)
    BY <1>2
  <2> QED BY <1>2, <2>1, FrontIs
<1> HIDE DEF part
<1>4. left \in Seq(Byte) /\ Len(left) = 22 /\ DecodeBase64(left) = salt
  <2>1. /\ left \in Seq(Byte) /\ Len(left) = Chars64(Len(salt))
        /\ DecodeBase64(left) = salt
    BY <1>2, RoundTrip
  <2>2. Chars64(16) = 22
    BY DEF Chars64
  <2> QED BY <1>2, <2>1, <2>2
<1>5. right \in Seq(Byte) /\ Len(right) = 31
  <2>1. right \in Seq(Byte) /\ Len(right) = Chars64(Len(part))
    BY <1>3, RoundTrip
  <2>2. Chars64(23) = 31
    BY DEF Chars64
  <2> QED BY <1>3, <2>1, <2>2
<1>6. /\ head \in Seq(Byte) /\ Len(head) = 7
      /\ head[1] = Dollar /\ head[2] = 50 /\ head[4] = Dollar /\ head[7] = Dollar
      /\ head[5] \in Digits /\ head[6] \in Digits
      /\ (head[5] - 48) * 10 + (head[6] - 48) = Clamp(cost)
  BY <1>1, PrefixIs
<1>7. hash = BcryptHash(p, cost, salt)
  BY DEF BcryptHash, core, part
<1> HIDE DEF head, left, right
<1> DEFINE front == head \o left
<1>8. /\ front \in Seq(Byte) /\ Len(front) = 29
      /\ \A i \in 1..7 : front[i] = head[i]
      /\ \A i \in 1..22 : front[7 + i] = left[i]
  <2>1. front \in Seq(Byte) /\ IsJoined(front, head, left)
    BY <1>4, <1>6, PartsOf
  <2>2. Len(head) = 7 /\ Len(left) = 22 /\ Len(head) + Len(left) = 29
    BY <1>4, <1>6
  <2> HIDE DEF front
  <2> QED BY <2>1, <2>2 DEF IsJoined
<1> HIDE DEF front
<1>9. /\ hash \in Seq(Byte) /\ Len(hash) = 60
      /\ \A i \in 1..29 : hash[i] = front[i]
      /\ \A i \in 1..31 : hash[29 + i] = right[i]
  <2>1. hash \in Seq(Byte) /\ IsJoined(hash, front, right)
    BY <1>5, <1>8, PartsOf DEF front
  <2>2. Len(front) = 29 /\ Len(right) = 31 /\ Len(front) + Len(right) = 60
    BY <1>5, <1>8
  <2> HIDE DEF hash
  <2> QED BY <2>1, <2>2 DEF IsJoined
<1> HIDE DEF hash
<1>10. \A i \in 1..7 : hash[i] = head[i]
  <2> TAKE i \in 1..7
  <2>1. i \in 1..29
    OBVIOUS
  <2> QED BY <1>8, <1>9, <2>1
<1>11. /\ hash[1] = head[1] /\ hash[2] = head[2] /\ hash[4] = head[4]
       /\ hash[5] = head[5] /\ hash[6] = head[6] /\ hash[7] = head[7]
  BY <1>10
<1>12. WellFormed(hash)
  BY <1>6, <1>9, <1>11 DEF WellFormed
<1>13. \A i \in 1..22 : hash[7 + i] = left[i]
  <2> TAKE i \in 1..22
  <2>1. 7 + i \in 1..29
    OBVIOUS
  <2>2. hash[7 + i] = front[7 + i]
    BY <1>9, <2>1
  <2>3. front[7 + i] = left[i]
    BY <1>8
  <2> QED BY <2>2, <2>3
<1>14. SubSeq(hash, 8, 29) = left
  <2>1. SubSeq(hash, 7 + 1, 7 + Len(left)) = left
    BY <1>4, <1>9, <1>13, PartIs
  <2> QED BY <1>4, <2>1
<1>15. SubSeq(hash, 30, 60) = right
  <2>1. SubSeq(hash, 29 + 1, 29 + Len(right)) = right
    BY <1>5, <1>9, PartIs
  <2> QED BY <1>5, <2>1
<1>16. (hash[5] - 48) * 10 + (hash[6] - 48) = Clamp(cost)
  BY <1>6, <1>11
<1> QED BY <1>4, <1>7, <1>9, <1>12, <1>14, <1>15, <1>16 DEF right, part, core

\* A verification compares the two results of Blowfish, under the salt and the cost of
\* the hash.
LEMMA VerificationIs ==
    ASSUME NEW p, NEW q, NEW cost, NEW salt, IsHashed(p, salt, cost), IsHashed(q, salt, cost)
    PROVE  BcryptVerify(q, BcryptHash(p, cost, salt)) <=>
               SubSeq(Core(p, salt, Clamp(cost)), 1, 23) = SubSeq(Core(q, salt, Clamp(cost)), 1, 23)
<1> DEFINE hash == BcryptHash(p, cost, salt)
           of(w) == SubSeq(Core(w, salt, Clamp(cost)), 1, 23)
<1>1. ASSUME NEW w, IsHashed(w, salt, cost)
      PROVE  of(w) \in Seq(Byte)
  <2> DEFINE core == Core(w, salt, Clamp(cost))
  <2>1. core \in [1..24 -> Byte]
    BY <1>1 DEF IsHashed
  <2> HIDE DEF core
  <2>2. core \in Seq(Byte) /\ Len(core) = 24
    <3>1. 24 \in Nat
      OBVIOUS
    <3>2. \A n \in Nat : \A f : f \in [1..n -> Byte] => f \in Seq(Byte) /\ Len(f) = n
      BY TextIs
    <3> QED BY <2>1, <3>1, <3>2
  <2>3. 23 \in Nat /\ 23 <= Len(core)
    BY <2>2
  <2>4. SubSeq(core, 1, 23) \in Seq(Byte)
    BY <2>2, <2>3, FrontIs
  <2> QED BY <2>4 DEF core
<1>2. of(p) \in Seq(Byte) /\ of(q) \in Seq(Byte)
  BY <1>1
<1>3. /\ WellFormed(hash) /\ DecodeBase64(SubSeq(hash, 8, 29)) = salt
      /\ (hash[5] - 48) * 10 + (hash[6] - 48) = Clamp(cost)
      /\ SubSeq(hash, 30, 60) = EncodeBase64(of(p))
  BY HashIs
<1> HIDE DEF hash
<1>4. BcryptVerify(q, hash) <=> EncodeBase64(of(p)) = EncodeBase64(of(q))
  BY <1>3 DEF BcryptVerify
<1> HIDE DEF of
<1>5. EncodeBase64(of(p)) = EncodeBase64(of(q)) => of(p) = of(q)
  <2>1. DecodeBase64(EncodeBase64(of(p))) = of(p) /\ DecodeBase64(EncodeBase64(of(q))) = of(q)
    BY <1>2, RoundTrip
  <2> QED BY <2>1
<1> QED BY <1>4, <1>5 DEF hash, of

\* Whatever the registration accepts can log in: for every name, password, confirmation,
\* cost and salt, and whatever Blowfish gives.
THEOREM RegisteredLogsIn == Spec => []RegisteredCanLogIn
<1>1. Init => RegisteredCanLogIn
  BY DEF Init, RegisteredCanLogIn, Returned
<1>2. ASSUME call \in Calls, RegisteredCanLogIn, [Next]_vars
      PROVE  RegisteredCanLogIn'
  <2>1. CASE Register
    <3> DEFINE hash == BcryptHash(call.password, call.cost, call.salt)
    <3>1. /\ call.f = "register" /\ call' = call
          /\ result' = << IF RegisterAccepts(call.name, call.password, call.confirm)
                          THEN <<hash>> ELSE <<>> >>
      BY <2>1 DEF Register, Return
    <3>2. call.name \in Nat /\ IsHashed(call.password, call.salt, call.cost)
      BY <1>2, <3>1, CallsAssumption
    <3>3. Len(hash) = 60 /\ BcryptVerify(call.password, hash)
      BY <3>2, HashIs, VerificationIs
    <3> HIDE DEF hash
    <3>4. CASE RegisterAccepts(call.name, call.password, call.confirm)
      <4>1. Value' = <<hash>> /\ Value'[1] = hash
        BY <3>1, <3>4 DEF Value
      <4>2. LoginChecks(call.name, call.password)
        <5>1. call.password \in Seq(Byte) /\ Len(call.password) >= 6 /\ call.name >= 3
          BY <3>2, <3>4 DEF IsHashed, RegisterAccepts
        <5>2. call.password # <<>>
          BY <5>1
        <5> QED BY <3>2, <5>1, <5>2 DEF LoginChecks
      <4>3. call.confirm.type = "string" => call.confirm.value = call.password
        BY <3>4 DEF RegisterAccepts
      <4>4. /\ call'.name = call.name /\ call'.password = call.password
            /\ call'.confirm = call.confirm
        BY <3>1
      <4> QED BY <3>3, <4>1, <4>2, <4>3, <4>4 DEF RegisteredCanLogIn, LoginChecks
    <3>5. CASE ~RegisterAccepts(call.name, call.password, call.confirm)
      <4>1. Value' = <<>>
        BY <3>1, <3>5 DEF Value
      <4> QED BY <4>1 DEF RegisteredCanLogIn
    <3> QED BY <3>4, <3>5
  <2>2. CASE Judge \/ Submit \/ Verify \/ Cookie
    BY <2>2 DEF Judge, Submit, Verify, Cookie, Return, RegisteredCanLogIn, Returned
  <2>3. CASE UNCHANGED vars
    BY <1>2, <2>3 DEF vars, RegisteredCanLogIn, Returned, Value
  <2> QED BY <1>2, <2>1, <2>2, <2>3 DEF Next
<1> QED BY <1>1, <1>2, CallOf, PTL DEF Spec
-----------------------------------------------------------------------------
(* The key of Blowfish: the password again and again. *)

\* x is the word w again and again.
Repeats(x, w) ==
    \A k \in 1..StreamLen : x[k] = IF k <= Len(w) THEN w[k] ELSE x[k - Len(w)]

\* The first bytes of a password.
LEMMA FirstIs ==
    ASSUME NEW p \in Seq(Byte)
    PROVE  /\ First(p) \in Seq(Byte) /\ Len(First(p)) = MinOf(Len(p), KeyMax)
           /\ \A i \in 1..Len(First(p)) : First(p)[i] = p[i]
           /\ Len(First(p)) \in 0..KeyMax
           /\ First(p) = <<>> <=> p = <<>>
<1> DEFINE n == MinOf(Len(p), KeyMax)
<1>1. n \in Nat /\ n <= Len(p) /\ n <= KeyMax /\ (n = 0 <=> Len(p) = 0) /\ KeyMax \in Nat
  BY KeyAssumption DEF MinOf
<1>2. First(p) = SubSeq(p, 1, n)
  BY DEF First
<1> HIDE DEF n
<1>3. /\ SubSeq(p, 1, n) \in Seq(Byte) /\ Len(SubSeq(p, 1, n)) = n
      /\ \A i \in 1..n : SubSeq(p, 1, n)[i] = p[i]
  BY <1>1, SubSeqProperties
<1>4. First(p) = <<>> <=> p = <<>>
  BY <1>1, <1>2, <1>3, EmptySeq
<1> QED BY <1>1, <1>2, <1>3, <1>4 DEF n

\* The key stream repeats the first bytes.
LEMMA StreamRepeats ==
    ASSUME NEW p \in Seq(Byte), p # <<>>
    PROVE  Repeats(KeyStream(p), First(p))
<1> DEFINE a == MinOf(Len(p), KeyMax)
           x == KeyStream(p)
           w == First(p)
<1>1. /\ Len(w) = a /\ a \in Nat \ {0} /\ StreamLen \in Nat
      /\ \A i \in 1..a : w[i] = p[i]
  <2>1. Len(p) \in Nat \ {0}
    BY EmptySeq
  <2> QED BY <2>1, FirstIs, KeyAssumption DEF MinOf
<1>2. \A k \in 1..StreamLen : x[k] = p[((k - 1) % a) + 1]
  BY DEF KeyStream
<1> HIDE DEF a, x, w
<1>3. ASSUME NEW k \in 1..StreamLen, k <= a
      PROVE  x[k] = w[k]
  <2>1. k - 1 \in Nat /\ k - 1 < a
    BY <1>1, <1>3
  <2>2. (k - 1) % a = k - 1
    BY <1>1, <2>1, InRound
  <2>3. ((k - 1) % a) + 1 = k /\ k \in 1..a
    BY <1>3, <2>1, <2>2
  <2> QED BY <1>1, <1>2, <2>3
<1>4. ASSUME NEW k \in 1..StreamLen, ~(k <= a)
      PROVE  x[k] = x[k - a]
  <2>1. k - 1 \in Nat /\ a <= k - 1 /\ k - a \in 1..StreamLen /\ (k - a) - 1 = (k - 1) - a
    BY <1>1, <1>4
  <2>2. (k - 1) % a = ((k - 1) - a) % a
    BY <1>1, <2>1, OneRoundLess
  <2> QED BY <1>2, <2>1, <2>2
<1> QED BY <1>1, <1>3, <1>4 DEF Repeats, x, w

\* Two streams are the same before k.
AgreeBefore(k, x, y) == \A j \in 1..(k - 1) : x[j] = y[j]

\* As long as two streams agree, the first goes through its word and then the other's.
LEMMA AgreeingStreams ==
    ASSUME NEW p \in Seq(Byte), NEW q \in Seq(Byte), NEW w, IsJoined(w, p, q),
           p # <<>>, NEW x, NEW y, Repeats(x, p), Repeats(y, q),
           NEW k \in 1..StreamLen, k <= Len(p) + Len(q), AgreeBefore(k, x, y)
    PROVE  x[k] = w[k]
<1> DEFINE a == Len(p)
           b == Len(q)
<1>1. a \in Nat \ {0} /\ b \in Nat /\ StreamLen \in Nat
  BY EmptySeq, KeyAssumption
<1>2. /\ \A i \in 1..a : w[i] = p[i]
      /\ \A i \in 1..b : w[a + i] = q[i]
  BY DEF IsJoined
<1>3. /\ \A i \in 1..StreamLen : x[i] = IF i <= a THEN p[i] ELSE x[i - a]
      /\ \A i \in 1..StreamLen : y[i] = IF i <= b THEN q[i] ELSE y[i - b]
  BY DEF Repeats
<1>4. k <= a + b
  OBVIOUS
<1> HIDE DEF a, b
<1>5. CASE k <= a
  BY <1>1, <1>2, <1>3, <1>5
<1>6. CASE ~(k <= a)
  <2>1. /\ k - a \in 1..b /\ k - a \in 1..(k - 1) /\ k - a \in 1..StreamLen
        /\ k - a <= b /\ a + (k - a) = k
    BY <1>1, <1>4, <1>6
  <2>2. x[k] = x[k - a] /\ x[k - a] = y[k - a]
    BY <1>3, <1>6, <2>1 DEF AgreeBefore
  <2>3. y[k - a] = q[k - a] /\ w[a + (k - a)] = q[k - a]
    BY <1>2, <1>3, <2>1
  <2> QED BY <2>1, <2>2, <2>3
<1> QED BY <1>5, <1>6

\* The two orders of joining two words give the same text.
Commute(p, q) == p \o q = q \o p

\* Words that commute give the same stream.
LEMMA SameStream ==
    ASSUME NEW p \in Seq(Byte), NEW q \in Seq(Byte), p # <<>>, q # <<>>, Commute(p, q),
           NEW x, NEW y, Repeats(x, p), Repeats(y, q)
    PROVE  \A k \in 1..StreamLen : x[k] = y[k]
<1> DEFINE w == p \o q
           a == Len(p)
           b == Len(q)
           S == {n \in Nat : \A k \in 1..StreamLen : k <= n => x[k] = y[k]}
<1>1. IsJoined(w, p, q) /\ IsJoined(w, q, p)
  BY PartsOf DEF Commute
<1>2. a \in Nat \ {0} /\ b \in Nat \ {0} /\ StreamLen \in Nat
  BY EmptySeq, KeyAssumption
<1>3. /\ \A i \in 1..StreamLen : x[i] = IF i <= a THEN p[i] ELSE x[i - a]
      /\ \A i \in 1..StreamLen : y[i] = IF i <= b THEN q[i] ELSE y[i - b]
  BY DEF Repeats
<1> HIDE DEF w
<1>4. ASSUME NEW k \in 1..StreamLen, \A j \in 1..(k - 1) : x[j] = y[j]
      PROVE  x[k] = y[k]
  <2>1. CASE k <= a + b
    <3>1. k <= b + a
      BY <1>2, <2>1
    <3>2. AgreeBefore(k, x, y) /\ AgreeBefore(k, y, x)
      BY <1>4 DEF AgreeBefore
    <3>3. x[k] = w[k]
      BY <1>1, <2>1, <3>2, AgreeingStreams
    <3>4. y[k] = w[k]
      BY <1>1, <3>1, <3>2, AgreeingStreams
    <3> QED BY <3>3, <3>4
  <2>2. CASE ~(k <= a + b)
    <3> HIDE DEF a, b
    <3>1. /\ k - a \in 1..StreamLen /\ k - b \in 1..StreamLen
          /\ k - a \in 1..(k - 1) /\ k - b \in 1..(k - 1) /\ (k - a) - b \in 1..(k - 1)
          /\ ~(k <= a) /\ ~(k <= b) /\ ~(k - a <= b) /\ ~(k - b <= a)
          /\ (k - b) - a = (k - a) - b
      BY <1>2, <2>2
    <3>2. x[k] = x[k - a] /\ x[k - a] = y[k - a] /\ y[k - a] = y[(k - a) - b]
      BY <1>3, <1>4, <3>1
    <3>3. y[k] = y[k - b] /\ y[k - b] = x[k - b] /\ x[k - b] = x[(k - a) - b]
      BY <1>3, <1>4, <3>1
    <3>4. x[(k - a) - b] = y[(k - a) - b]
      BY <1>4, <3>1
    <3> QED BY <3>2, <3>3, <3>4
  <2> QED BY <2>1, <2>2
<1>5. 0 \in S
  BY <1>2
<1>6. ASSUME NEW n \in Nat, n \in S
      PROVE  n + 1 \in S
  <2> SUFFICES ASSUME NEW k \in 1..StreamLen, k <= n + 1 PROVE x[k] = y[k]
    OBVIOUS
  <2>1. \A j \in 1..(k - 1) : j \in 1..StreamLen /\ j <= n
    BY <1>2
  <2> QED BY <1>4, <1>6, <2>1
<1> HIDE DEF S
<1>7. StreamLen \in S
  BY <1>2, <1>5, <1>6, EveryNumber
<1> QED BY <1>2, <1>7 DEF S

\* A stream of two words is long enough to show that they commute.
LEMMA CommutingWords ==
    ASSUME NEW p \in Seq(Byte), NEW q \in Seq(Byte), p # <<>>, q # <<>>,
           Len(p) \in 0..KeyMax, Len(q) \in 0..KeyMax,
           NEW x, Repeats(x, p), Repeats(x, q)
    PROVE  p \o q = q \o p
<1> DEFINE a == Len(p)
           b == Len(q)
           w == p \o q
           v == q \o p
<1>1. /\ a \in Nat /\ b \in Nat /\ w \in Seq(Byte) /\ v \in Seq(Byte)
      /\ Len(w) = a + b /\ Len(v) = a + b /\ IsJoined(w, p, q) /\ IsJoined(v, q, p)
  <2>1. /\ w \in Seq(Byte) /\ v \in Seq(Byte) /\ IsJoined(w, p, q) /\ IsJoined(v, q, p)
    BY PartsOf
  <2> QED BY <2>1 DEF IsJoined
<1>2. a + b <= StreamLen /\ StreamLen \in Nat
  BY KeyAssumption
<1> HIDE DEF w, v
<1>3. ASSUME NEW i \in 1..(a + b)
      PROVE  w[i] = v[i]
  <2>1. i \in 1..StreamLen /\ i <= a + b /\ i <= b + a
    BY <1>1, <1>2
  <2> AgreeBefore(i, x, x)
    BY DEF AgreeBefore
  <2>2. x[i] = w[i]
    BY <1>1, <2>1, AgreeingStreams
  <2>3. x[i] = v[i]
    BY <1>1, <2>1, AgreeingStreams
  <2> QED BY <2>2, <2>3
<1>4. w = v
  BY <1>1, <1>3, SeqEqual
<1> QED BY <1>4 DEF w, v

\* The stream is zero exactly for a key that is.
LEMMA ZeroStream ==
    ASSUME NEW p \in Seq(Byte)
    PROVE  (\A k \in 1..StreamLen : KeyStream(p)[k] = 0) <=> Zeros(First(p))
<1> DEFINE a == MinOf(Len(p), KeyMax)
           x == KeyStream(p)
           w == First(p)
<1>1. /\ Len(w) = a /\ a \in Nat /\ StreamLen \in Nat /\ a <= StreamLen
      /\ \A i \in 1..a : w[i] = p[i]
      /\ DOMAIN w = 1..a
  <2>1. KeyMax <= StreamLen /\ StreamLen \in Nat
    BY KeyAssumption
  <2>2. w \in Seq(Byte) /\ Len(w) = a /\ Len(w) \in 0..KeyMax /\ \A i \in 1..Len(w) : w[i] = p[i]
    BY FirstIs
  <2> HIDE DEF w, a
  <2> QED BY <2>1, <2>2, KeyAssumption
<1>2. CASE p = <<>>
  <2>1. w = <<>>
    BY <1>2, FirstIs
  <2> QED BY <1>2, <2>1 DEF KeyStream, Zeros
<1>3. CASE p # <<>>
  <2>1. a # 0
    <3>1. Len(p) \in Nat \ {0}
      BY <1>3, EmptySeq
    <3> QED BY <3>1, KeyAssumption DEF MinOf
  <2>2. \A k \in 1..StreamLen : x[k] = p[((k - 1) % a) + 1]
    BY <1>3 DEF KeyStream
  <2>3. Zeros(w) <=> \A i \in 1..a : p[i] = 0
    BY <1>1 DEF Zeros
  <2> HIDE DEF a, x, w
  <2>4. ASSUME NEW i \in 1..a
        PROVE  i \in 1..StreamLen /\ x[i] = p[i]
    <3>1. i - 1 \in Nat /\ i - 1 < a /\ i \in 1..StreamLen
      BY <1>1
    <3>2. (i - 1) % a = i - 1
      BY <1>1, <2>1, <3>1, InRound
    <3> QED BY <2>2, <3>1, <3>2
  <2>5. ASSUME NEW k \in 1..StreamLen
        PROVE  ((k - 1) % a) + 1 \in 1..a
    <3>1. k - 1 \in Nat
      BY <1>1
    <3>2. (k - 1) % a \in 0..(a - 1)
      BY <1>1, <2>1, <3>1, InRound
    <3> QED BY <1>1, <3>2
  <2>6. (\A k \in 1..StreamLen : x[k] = 0) => \A i \in 1..a : p[i] = 0
    BY <2>4
  <2>7. (\A i \in 1..a : p[i] = 0) => \A k \in 1..StreamLen : x[k] = 0
    BY <2>2, <2>5
  <2> QED BY <2>3, <2>6, <2>7 DEF x, w
<1> QED BY <1>2, <1>3

\* When two passwords are the same key.
LEMMA SameKey ==
    ASSUME NEW password \in Seq(Byte), NEW other \in Seq(Byte)
    PROVE  LET p == First(password)
               q == First(other)
           IN  KeyStream(password) = KeyStream(other) <=>
                   IF p = <<>> \/ q = <<>> THEN Zeros(p) /\ Zeros(q) ELSE p \o q = q \o p
<1> DEFINE p == First(password)
           q == First(other)
           x == KeyStream(password)
           y == KeyStream(other)
           same == \A k \in 1..StreamLen : x[k] = y[k]
<1>1. x = y <=> same
  BY DEF KeyStream
<1>2. /\ p \in Seq(Byte) /\ q \in Seq(Byte) /\ Len(p) \in 0..KeyMax /\ Len(q) \in 0..KeyMax
      /\ p = <<>> <=> password = <<>>
      /\ q = <<>> <=> other = <<>>
  BY FirstIs
<1>3. /\ (\A k \in 1..StreamLen : x[k] = 0) <=> Zeros(p)
      /\ (\A k \in 1..StreamLen : y[k] = 0) <=> Zeros(q)
  BY ZeroStream
<1>4. /\ password = <<>> => \A k \in 1..StreamLen : x[k] = 0
      /\ other = <<>> => \A k \in 1..StreamLen : y[k] = 0
  BY DEF KeyStream
<1>5. CASE p = <<>> \/ q = <<>>
  <2> HIDE DEF p, q, x, y
  <2>1. Zeros(p) /\ Zeros(q) => same
    BY <1>3
  <2>2. same => Zeros(p) /\ Zeros(q)
    <3>1. CASE p = <<>>
      <4>1. \A k \in 1..StreamLen : x[k] = 0
        BY <1>2, <1>4, <3>1
      <4>2. same => \A k \in 1..StreamLen : y[k] = 0
        BY <4>1
      <4> QED BY <1>3, <4>1, <4>2
    <3>2. CASE q = <<>>
      <4>1. \A k \in 1..StreamLen : y[k] = 0
        BY <1>2, <1>4, <3>2
      <4>2. same => \A k \in 1..StreamLen : x[k] = 0
        BY <4>1
      <4> QED BY <1>3, <4>1, <4>2
    <3> QED BY <1>5, <3>1, <3>2
  <2>3. x = y <=> Zeros(p) /\ Zeros(q)
    BY <1>1, <2>1, <2>2
  <2> QED BY <1>5, <2>3 DEF p, q, x, y
<1>6. CASE p # <<>> /\ q # <<>>
  <2>1. Repeats(x, p) /\ Repeats(y, q)
    BY <1>2, <1>6, StreamRepeats
  <2> HIDE DEF p, q, x, y, same
  <2>2. p \o q = q \o p => same
    <3>1. p \in Seq(Byte) /\ q \in Seq(Byte) /\ p # <<>> /\ q # <<>>
      BY <1>2, <1>6
    <3>2. Commute(p, q) => \A k \in 1..StreamLen : x[k] = y[k]
      BY <2>1, <3>1, SameStream
    <3> QED BY <3>2 DEF same, Commute
  <2>3. x = y => p \o q = q \o p
    BY <1>2, <1>6, <2>1, CommutingWords
  <2>4. x = y <=> p \o q = q \o p
    BY <1>1, <2>2, <2>3
  <2> QED BY <1>6, <2>4 DEF p, q, x, y
<1> QED BY <1>5, <1>6

\* A password verifies exactly against the hash of one that is the same key: for every
\* two passwords, every cost and every salt, when Blowfish has no collision among them.
THEOREM VerifiesTheKey == Spec => []VerifiesSameKey
<1>1. Init => VerifiesSameKey
  BY DEF Init, VerifiesSameKey, Returned
<1>2. ASSUME call \in Calls, VerifiesSameKey, [Next]_vars
      PROVE  VerifiesSameKey'
  <2>1. CASE Verify
    <3> DEFINE verified == BcryptVerify(call.other, BcryptHash(call.password, call.cost, call.salt))
               p == First(call.password)
               q == First(call.other)
               of(w) == SubSeq(Core(w, call.salt, Clamp(call.cost)), 1, 23)
    <3>1. call.f = "verify" /\ call' = call /\ result' = <<verified>>
      BY <2>1 DEF Verify, Return
    <3>2. /\ IsHashed(call.password, call.salt, call.cost)
          /\ IsHashed(call.other, call.salt, call.cost)
      BY <1>2, <3>1, CallsAssumption
    <3>3. verified <=> of(call.password) = of(call.other)
      BY <3>2, VerificationIs
    <3>4. of(call.password) = of(call.other) => KeyStream(call.password) = KeyStream(call.other)
      BY <1>2, <3>1, NoCollision
    <3>5. KeyStream(call.password) = KeyStream(call.other) => of(call.password) = of(call.other)
      BY DEF Core
    <3>6. call.password \in Seq(Byte) /\ call.other \in Seq(Byte)
      BY <3>2 DEF IsHashed
    <3>7. verified <=> IF p = <<>> \/ q = <<>> THEN Zeros(p) /\ Zeros(q) ELSE p \o q = q \o p
      <4> HIDE DEF verified, of
      <4>1. verified <=> KeyStream(call.password) = KeyStream(call.other)
        BY <3>3, <3>4, <3>5
      <4> QED BY <3>6, <4>1, SameKey
    <3>8. verified \in BOOLEAN
      BY DEF BcryptVerify
    <3> HIDE DEF verified
    <3>9. Value' = verified
      BY <3>1 DEF Value
    <3>10. p' = p /\ q' = q
      BY <3>1
    <3> HIDE DEF p, q
    <3>11. verified = IF p = <<>> \/ q = <<>> THEN Zeros(p) /\ Zeros(q) ELSE p \o q = q \o p
      BY <3>7, <3>8 DEF Zeros
    <3> QED BY <3>9, <3>10, <3>11 DEF VerifiesSameKey, Zeros, p, q
  <2>2. CASE Judge \/ Submit \/ Register \/ Cookie
    BY <2>2 DEF Judge, Submit, Register, Cookie, Return, VerifiesSameKey, Returned
  <2>3. CASE UNCHANGED vars
    BY <1>2, <2>3 DEF vars, VerifiesSameKey, Returned, Value, First, Zeros
  <2> QED BY <1>2, <2>1, <2>2, <2>3 DEF Next
<1> QED BY <1>1, <1>2, CallOf, PTL DEF Spec
-----------------------------------------------------------------------------
(* The cookie: parts of a header. *)

\* A set of numbers that is not empty has its minimum.
LEMMA MinExists ==
    ASSUME NEW S \in SUBSET Nat, S # {}
    PROVE  Min(S) \in S /\ \A x \in S : Min(S) <= x
<1>1. PICK m \in S : \A x \in S : m <= x
  BY Least
<1>2. Min(S) = m
  BY <1>1, MinIs
<1> QED BY <1>1, <1>2

\* A set of numbers that is bounded has its maximum.
LEMMA MaxExists ==
    ASSUME NEW S \in SUBSET Nat, S # {}, NEW n \in Nat, \A x \in S : x <= n
    PROVE  Max(S) \in S /\ \A x \in S : x <= Max(S)
<1> DEFINE T == {m \in Nat : \A x \in S : x <= m}
<1>1. PICK m \in T : \A k \in T : m <= k
  <2>1. n \in T
    OBVIOUS
  <2> QED BY <2>1, Least
<1>2. m \in S
  <2> SUFFICES ASSUME m \notin S PROVE FALSE
    OBVIOUS
  <2>1. \A x \in S : x \in Nat /\ x <= m - 1
    BY <1>1
  <2>2. m - 1 \in T
    <3>1. m \in Nat /\ \A x \in S : x <= m - 1
      BY <1>1, <2>1
    <3>2. PICK x \in S : TRUE
      OBVIOUS
    <3>3. m - 1 \in Nat
      BY <2>1, <3>1, <3>2
    <3> QED BY <3>1, <3>3
  <2>3. ~(m <= m - 1)
    BY <1>1
  <2> QED BY <1>1, <2>2, <2>3
<1>3. Max(S) = m
  BY <1>1, <1>2, MaxIs
<1> QED BY <1>1, <1>2, <1>3

\* The least of the numbers moved by d.
LEMMA MinMoved ==
    ASSUME NEW S \in SUBSET Nat, S # {}, NEW d \in Nat, NEW T, T = {x + d : x \in S}
    PROVE  Min(T) = Min(S) + d
<1>1. Min(S) \in S /\ \A x \in S : Min(S) <= x
  BY MinExists
<1> DEFINE m == Min(S)
<1> HIDE DEF m
<1>2. m \in S /\ \A x \in S : m <= x
  BY <1>1 DEF m
<1>3. T \in SUBSET Int /\ m + d \in T /\ \A x \in T : m + d <= x
  BY <1>2
<1>4. Min(T) = m + d
  BY <1>3, MinIs
<1> QED BY <1>4 DEF m

\* What is between the blanks.
LEMMA TrimIs ==
    ASSUME NEW S, NEW s \in Seq(S), NEW lo \in 1..Len(s), NEW hi \in 1..Len(s),
           s[lo] # Gap, s[hi] # Gap,
           \A i \in 1..Len(s) : s[i] # Gap => lo <= i /\ i <= hi
    PROVE  TrimSpaces(s) = SubSeq(s, lo, hi)
<1> DEFINE seen == {i \in DOMAIN s : s[i] # Gap}
<1>1. /\ seen \in SUBSET Int /\ lo \in seen /\ hi \in seen
      /\ \A i \in seen : lo <= i /\ i <= hi
  <2>1. DOMAIN s = 1..Len(s) /\ Len(s) \in Nat
    BY LenProperties
  <2> QED BY <2>1
<1>2. TrimSpaces(s) = IF seen = {} THEN <<>> ELSE SubSeq(s, Min(seen), Max(seen))
  BY DEF TrimSpaces
<1> HIDE DEF seen
<1>3. Min(seen) = lo /\ Max(seen) = hi /\ seen # {}
  BY <1>1, MinIs, MaxIs
<1> QED BY <1>2, <1>3

\* A text without blanks is left as it is.
LEMMA NothingToTrim ==
    ASSUME NEW S, NEW s \in Seq(S), \A i \in 1..Len(s) : s[i] # Gap
    PROVE  TrimSpaces(s) = s
<1>1. CASE s = <<>>
  BY <1>1 DEF TrimSpaces
<1>2. CASE s # <<>>
  <2>1. Len(s) \in Nat \ {0}
    BY <1>2, EmptySeq
  <2>2. TrimSpaces(s) = SubSeq(s, 1, Len(s))
    <3>1. 1 \in 1..Len(s) /\ Len(s) \in 1..Len(s) /\ \A i \in 1..Len(s) : 1 <= i /\ i <= Len(s)
      BY <2>1
    <3>2. s[1] # Gap /\ s[Len(s)] # Gap
      BY <3>1
    <3> QED BY <3>1, <3>2, TrimIs
  <2> QED BY <2>2, SubSeqFull
<1> QED BY <1>1, <1>2

\* A blank in front is trimmed away.
LEMMA TrimBlank ==
    ASSUME NEW S, NEW t \in Seq(S), NEW u \in Seq(S), From(t, 1, u), t[1] = Gap
    PROVE  TrimSpaces(t) = TrimSpaces(u)
<1> DEFINE seen == {i \in 1..Len(u) : u[i] # Gap}
<1>1. /\ Len(u) \in Nat /\ Len(t) = 1 + Len(u)
      /\ \A i \in 1..Len(u) : t[1 + i] = u[i]
  <2>1. Len(u) \in Nat
    BY LenProperties
  <2>2. Len(t) = 1 + Len(u)
    BY DEF From
  <2>3. \A i \in 1..Len(u) : t[1 + i] = u[i]
    BY DEF From
  <2> QED BY <2>1, <2>2, <2>3
<1>2. ASSUME NEW i \in 1..Len(t), t[i] # Gap
      PROVE  i - 1 \in seen
  <2>1. i # 1
    BY <1>2
  <2>2. i - 1 \in 1..Len(u) /\ 1 + (i - 1) = i
    BY <1>1, <2>1
  <2> QED BY <1>1, <1>2, <2>2
<1>3. CASE seen = {}
  <2>1. \A i \in 1..Len(t) : t[i] = Gap
    BY <1>2, <1>3
  <2>2. DOMAIN t = 1..Len(t) /\ DOMAIN u = 1..Len(u)
    BY LenProperties
  <2>3. {i \in DOMAIN t : t[i] # Gap} = {} /\ {i \in DOMAIN u : u[i] # Gap} = {}
    BY <1>3, <2>1, <2>2
  <2> QED BY <2>3 DEF TrimSpaces
<1>4. CASE seen # {}
  <2> DEFINE lo == Min(seen)
             hi == Max(seen)
  <2>1. seen \in SUBSET Nat /\ \A x \in seen : x <= Len(u)
    BY <1>1
  <2>2. lo \in seen /\ hi \in seen /\ \A i \in seen : lo <= i /\ i <= hi
    <3> HIDE DEF seen
    <3> QED BY <1>1, <1>4, <2>1, MinExists, MaxExists
  <2> HIDE DEF lo, hi
  <2>3. /\ lo \in 1..Len(u) /\ hi \in 1..Len(u) /\ u[lo] # Gap /\ u[hi] # Gap
        /\ \A i \in 1..Len(u) : u[i] # Gap => lo <= i /\ i <= hi
    BY <2>2
  <2>4. TrimSpaces(u) = SubSeq(u, lo, hi)
    BY <2>3, TrimIs
  <2>5. /\ 1 + lo \in 1..Len(t) /\ 1 + hi \in 1..Len(t) /\ t[1 + lo] # Gap /\ t[1 + hi] # Gap
    <3>1. t[1 + lo] = u[lo] /\ t[1 + hi] = u[hi]
      BY <1>1, <2>3
    <3>2. 1 + lo \in 1..Len(t) /\ 1 + hi \in 1..Len(t)
      BY <1>1, <2>3
    <3> QED BY <2>3, <3>1, <3>2
  <2>6. \A i \in 1..Len(t) : t[i] # Gap => 1 + lo <= i /\ i <= 1 + hi
    <3> SUFFICES ASSUME NEW i \in 1..Len(t), t[i] # Gap PROVE 1 + lo <= i /\ i <= 1 + hi
      OBVIOUS
    <3>1. i - 1 \in seen
      BY <1>2
    <3>2. lo <= i - 1 /\ i - 1 <= hi
      BY <2>2, <3>1
    <3>3. lo \in Nat /\ hi \in Nat /\ i \in Nat
      BY <1>1, <2>3
    <3> QED BY <3>2, <3>3
  <2>7. TrimSpaces(t) = SubSeq(t, 1 + lo, 1 + hi)
    BY <2>5, <2>6, TrimIs
  <2>8. SubSeq(t, 1 + lo, 1 + hi) = SubSeq(u, lo, hi)
    <3>1. hi <= Len(u) /\ hi \in Nat /\ lo \in Nat \ {0} /\ 1 \in Nat
      BY <1>1, <2>3
    <3> QED BY <3>1, SamePart
  <2> QED BY <2>4, <2>7, <2>8
<1> QED BY <1>3, <1>4

\* The first c in a text.
LEMMA FindIs ==
    ASSUME NEW S, NEW s \in Seq(S), NEW c
    PROVE  /\ Find(s, c) \in 0..Len(s)
           /\ Find(s, c) # 0 => s[Find(s, c)] = c /\ \A i \in 1..Len(s) : s[i] = c => Find(s, c) <= i
           /\ Find(s, c) = 0 => \A i \in 1..Len(s) : s[i] # c
<1> DEFINE at == {i \in 1..Len(s) : s[i] = c}
<1>1. Find(s, c) = IF at = {} THEN 0 ELSE Min(at)
  BY LenProperties DEF Find
<1>2. Len(s) \in Nat /\ at \in SUBSET Nat
  OBVIOUS
<1>3. CASE at = {}
  BY <1>1, <1>2, <1>3
<1>4. CASE at # {}
  <2>1. Min(at) \in at /\ \A x \in at : Min(at) <= x
    <3> HIDE DEF at
    <3> QED BY <1>2, <1>4, MinExists
  <2> DEFINE m == Min(at)
  <2>2. Find(s, c) = m /\ m \in at /\ \A x \in at : m <= x
    BY <1>1, <1>4, <2>1
  <2> HIDE DEF m
  <2> QED BY <1>2, <2>2
<1> QED BY <1>3, <1>4

\* The first position of a character.
LEMMA FindUnique ==
    ASSUME NEW S, NEW s \in Seq(S), NEW c, NEW m \in 1..Len(s), s[m] = c,
           \A i \in 1..Len(s) : s[i] = c => m <= i
    PROVE  Find(s, c) = m
<1>1. /\ Find(s, c) \in 0..Len(s)
      /\ Find(s, c) # 0 => s[Find(s, c)] = c /\ \A i \in 1..Len(s) : s[i] = c => Find(s, c) <= i
      /\ Find(s, c) = 0 => \A i \in 1..Len(s) : s[i] # c
  BY FindIs
<1> DEFINE f == Find(s, c)
<1> HIDE DEF f
<1>2. f = m
  BY <1>1 DEF f
<1> QED BY <1>2 DEF f

\* A blank in front of a token changes neither its name nor its value.
LEMMA BlankInFront ==
    ASSUME NEW S, NEW u \in Seq(S), Gap \in S, Gap # Equals, NEW t, t = <<Gap>> \o u
    PROVE  /\ IsSession(t) <=> IsSession(u)
           /\ IsSession(u) => ValueOf(t) = ValueOf(u)
<1>1. t \in Seq(S) /\ From(t, 1, u) /\ t[1] = Gap
  <2> DEFINE g == <<Gap>>
  <2>1. g \in Seq(S) /\ Len(g) = 1 /\ g[1] = Gap
    OBVIOUS
  <2> HIDE DEF g
  <2>2. g \o u \in Seq(S) /\ IsJoined(g \o u, g, u)
    BY <2>1, PartsOf
  <2> QED BY <2>1, <2>2 DEF IsJoined, From, g
<1> DEFINE f == Find(u, Equals)
           n == Len(u)
<1>2. n \in Nat /\ Len(t) = 1 + n /\ \A i \in 1..n : t[1 + i] = u[i]
  BY <1>1, LenProperties DEF From
<1>3. /\ f \in 0..n
      /\ f # 0 => u[f] = Equals /\ \A i \in 1..n : u[i] = Equals => f <= i
      /\ f = 0 => \A i \in 1..n : u[i] # Equals
  BY FindIs
<1> HIDE DEF f, n
<1>4. ASSUME NEW i \in 1..Len(t), t[i] = Equals
      PROVE  i - 1 \in 1..n /\ u[i - 1] = Equals
  <2>1. i # 1
    BY <1>1, <1>4
  <2>2. i - 1 \in 1..n /\ 1 + (i - 1) = i
    BY <1>2, <2>1
  <2> QED BY <1>2, <1>4, <2>2
<1>5. CASE f = 0
  <2>1. \A i \in 1..Len(t) : t[i] # Equals
    BY <1>3, <1>4, <1>5
  <2>2. /\ Find(t, Equals) \in 0..Len(t)
        /\ Find(t, Equals) # 0 => t[Find(t, Equals)] = Equals
    BY <1>1, FindIs
  <2>3. Find(t, Equals) = 0
    <3> DEFINE m == Find(t, Equals)
    <3> HIDE DEF m
    <3>1. m \in 0..Len(t) /\ (m # 0 => t[m] = Equals)
      BY <2>2 DEF m
    <3>2. m = 0
      BY <1>2, <2>1, <3>1
    <3> QED BY <3>2 DEF m
  <2> QED BY <1>5, <2>3 DEF IsSession, f
<1>6. CASE f # 0
  <2>1. f \in 1..n /\ u[f] = Equals /\ \A i \in 1..n : u[i] = Equals => f <= i
    BY <1>2, <1>3, <1>6
  <2>2. 1 + f \in 1..Len(t) /\ t[1 + f] = Equals
    BY <1>2, <2>1
  <2>3. \A i \in 1..Len(t) : t[i] = Equals => 1 + f <= i
    <3> SUFFICES ASSUME NEW i \in 1..Len(t), t[i] = Equals PROVE 1 + f <= i
      OBVIOUS
    <3>1. f <= i - 1
      BY <1>4, <2>1
    <3> QED BY <1>2, <2>1, <3>1
  <2>4. Find(t, Equals) = 1 + f
    BY <1>1, <2>2, <2>3, FindUnique
  <2> DEFINE key == SubSeq(u, 1, f - 1)
             padded == SubSeq(t, 1, f)
  <2>5. key \in Seq(S) /\ Len(key) = f - 1 /\ \A i \in 1..(f - 1) : key[i] = u[i]
    <3>1. f - 1 \in Nat /\ f - 1 <= Len(u)
      BY <1>2, <2>1 DEF n
    <3>2. \A i \in 1..(f - 1) : i \in 1..Len(u)
      BY <3>1
    <3>3. \A i \in 1..(f - 1) : u[i] \in S
      BY <3>2, ElementOfSeq
    <3> QED BY <3>1, <3>3, SubSeqProperties
  <2>6. padded \in Seq(S) /\ Len(padded) = f /\ \A i \in 1..f : padded[i] = t[i]
    <3>1. f \in Nat /\ f <= Len(t)
      BY <1>2, <2>1
    <3>2. \A i \in 1..f : i \in 1..Len(t)
      BY <3>1
    <3>3. \A i \in 1..f : t[i] \in S
      BY <1>1, <3>2, ElementOfSeq
    <3> QED BY <3>1, <3>3, SubSeqProperties
  <2> HIDE DEF key, padded
  <2>7. From(padded, 1, key) /\ padded[1] = Gap
    <3>1. Len(padded) = 1 + Len(key)
      BY <2>1, <2>5, <2>6
    <3>2. ASSUME NEW i \in 1..Len(key)
          PROVE  padded[1 + i] = key[i]
      <4>1. i \in 1..(f - 1)
        BY <2>5
      <4>2. 1 + i \in 1..f /\ i \in 1..n
        BY <1>2, <2>1, <4>1
      <4> QED BY <1>2, <2>5, <2>6, <4>1, <4>2
    <3>3. 1 \in 1..f
      BY <2>1
    <3> QED BY <1>1, <2>6, <3>1, <3>2, <3>3 DEF From
  <2>8. TrimSpaces(padded) = TrimSpaces(key)
    BY <2>5, <2>6, <2>7, TrimBlank
  <2>9. SubSeq(t, 1 + (f + 1), 1 + n) = SubSeq(u, f + 1, n)
    <3> DEFINE lo == f + 1
    <3>1. lo \in Nat \ {0} /\ n \in Nat /\ n <= Len(u) /\ 1 \in Nat
      BY <1>2, <2>1 DEF n
    <3> HIDE DEF lo
    <3>2. SubSeq(t, 1 + lo, 1 + n) = SubSeq(u, lo, n)
      BY <1>1, <3>1, SamePart
    <3> QED BY <3>2 DEF lo
  <2>10. (1 + f) - 1 = f /\ (1 + f) + 1 = 1 + (f + 1)
    BY <2>1
  <2>11. KeyOf(t) = TrimSpaces(padded) /\ KeyOf(u) = TrimSpaces(key)
    BY <2>4, <2>10 DEF KeyOf, padded, key, f
  <2>12. ValueOf(t) = ValueOf(u)
    <3>1. ValueOf(t) = TrimSpaces(SubSeq(t, (1 + f) + 1, Len(t)))
      BY <2>4 DEF ValueOf
    <3>2. ValueOf(u) = TrimSpaces(SubSeq(u, f + 1, n))
      BY DEF ValueOf, f, n
    <3> QED BY <1>2, <2>9, <2>10, <3>1, <3>2
  <2>13. 1 + f # 0
    BY <2>1
  <2> QED BY <1>6, <2>4, <2>8, <2>11, <2>12, <2>13 DEF IsSession, f
<1> QED BY <1>5, <1>6

\* Two texts of one character make one of two.
LEMMA TwoIs ==
    ASSUME NEW S, NEW a \in S, NEW b \in S
    PROVE  <<a>> \o <<b>> = <<a, b>>
<1> DEFINE f == <<a>>
           e == <<b>>
           g == <<a, b>>
           h == f \o e
<1>1. /\ f \in Seq(S) /\ Len(f) = 1 /\ f[1] = a
      /\ e \in Seq(S) /\ Len(e) = 1 /\ e[1] = b
      /\ g \in Seq(S) /\ Len(g) = 2 /\ g[1] = a /\ g[2] = b
  OBVIOUS
<1> HIDE DEF f, e, g
<1>2. h \in Seq(S) /\ IsJoined(h, f, e)
  BY <1>1, PartsOf
<1> HIDE DEF h
<1>3. Len(h) = 2 /\ h[1] = a /\ h[1 + 1] = b
  <2>1. 1 \in 1..1
    OBVIOUS
  <2> QED BY <1>1, <1>2, <2>1 DEF IsJoined
<1>4. \A i \in 1..2 : h[i] = g[i]
  <2>1. \A i \in 1..2 : i = 1 \/ i = 2
    OBVIOUS
  <2>2. h[2] = b
    BY <1>3
  <2> QED BY <1>1, <1>3, <2>1, <2>2
<1>5. h = g
  BY <1>1, <1>2, <1>3, <1>4, SeqEqual
<1> QED BY <1>5 DEF h, f, e, g

\* A cookie of one character, "=" and a value without blanks has this name and value.
LEMMA PairIs ==
    ASSUME NEW S, NEW name \in S, NEW id \in Seq(S), \A i \in 1..Len(id) : id[i] # Gap,
           Equals \in S, name # Equals, name # Gap
    PROVE  LET token == Pair(<<name>>, id)
           IN  /\ token \in Seq(S) /\ IsJoined(token, <<name, Equals>>, id)
               /\ Find(token, Equals) # 0 /\ KeyOf(token) = <<name>> /\ ValueOf(token) = id
<1> DEFINE g == <<name, Equals>>
           t == g \o id
           n == Len(id)
<1>1. g \in Seq(S) /\ Len(g) = 2 /\ g[1] = name /\ g[2] = Equals
  OBVIOUS
<1>2. Pair(<<name>>, id) = t
  <2>1. <<name>> \o <<Equals>> = g
    BY TwoIs
  <2> QED BY <2>1 DEF Pair
<1> HIDE DEF g
<1>3. t \in Seq(S) /\ IsJoined(t, g, id)
  BY <1>1, PartsOf
<1> HIDE DEF t
<1>4. From(t, 2, id) /\ n \in Nat /\ Len(t) = 2 + n /\ t[1] = name /\ t[2] = Equals
  <2>1. Len(t) = 2 + n /\ n \in Nat /\ \A i \in 1..n : t[2 + i] = id[i]
    BY <1>1, <1>3, LenProperties DEF IsJoined
  <2>2. \A i \in 1..2 : t[i] = g[i]
    BY <1>1, <1>3 DEF IsJoined
  <2>3. 1 \in 1..2 /\ 2 \in 1..2
    OBVIOUS
  <2> QED BY <1>1, <2>1, <2>2, <2>3 DEF From
<1>5. Find(t, Equals) = 2
  <2>1. 2 \in 1..Len(t)
    BY <1>4
  <2>2. \A i \in 1..Len(t) : t[i] = Equals => 2 <= i
    <3> SUFFICES ASSUME NEW i \in 1..Len(t), t[i] = Equals PROVE 2 <= i
      OBVIOUS
    <3>1. i # 1
      BY <1>4
    <3>2. i \in Nat /\ i >= 1
      BY <1>4
    <3> QED BY <3>1, <3>2
  <2> QED BY <1>3, <1>4, <2>1, <2>2, FindUnique
<1>6. KeyOf(t) = <<name>>
  <2> DEFINE key == SubSeq(t, 1, 1)
             k == <<name>>
  <2>1. t[1] \in S
    BY <1>4
  <2>2. key \in Seq(S) /\ Len(key) = 1 /\ key[1] = t[1]
    <3>1. \A i \in 1..1 : t[i] \in S
      BY <2>1
    <3>2. /\ key \in Seq(S) /\ Len(key) = IF 1 <= 1 THEN 1 - 1 + 1 ELSE 0
          /\ \A i \in 1..(1 - 1 + 1) : key[i] = t[1 + i - 1]
      BY <3>1, SubSeqProperties
    <3> QED BY <3>2
  <2> HIDE DEF key
  <2>3. key = k
    <3>1. k \in Seq(S) /\ Len(k) = 1 /\ k[1] = name
      OBVIOUS
    <3> HIDE DEF k
    <3>2. \A i \in 1..1 : key[i] = k[i]
      BY <1>4, <2>2, <3>1
    <3> QED BY <2>2, <3>1, <3>2, SeqEqual
  <2>4. \A i \in 1..Len(key) : key[i] # Gap
    BY <1>4, <2>2
  <2>5. TrimSpaces(key) = key
    BY <2>2, <2>4, NothingToTrim
  <2>6. KeyOf(t) = TrimSpaces(key)
    BY <1>5 DEF KeyOf, key
  <2> QED BY <2>3, <2>5, <2>6
<1>7. ValueOf(t) = id
  <2>1. SubSeq(t, 2 + 1, 2 + Len(id)) = id
    <3> DEFINE k == 2
    <3>1. k \in Nat /\ k + Len(id) <= Len(t) /\ \A i \in 1..Len(id) : t[k + i] = id[i]
      BY <1>4 DEF From
    <3> HIDE DEF k
    <3>2. SubSeq(t, k + 1, k + Len(id)) = id
      BY <1>3, <3>1, PartIs
    <3> QED BY <3>2 DEF k
  <2>3. TrimSpaces(id) = id
    BY NothingToTrim
  <2>4. ValueOf(t) = TrimSpaces(SubSeq(t, 2 + 1, Len(t)))
    BY <1>5 DEF ValueOf
  <2> QED BY <1>4, <2>1, <2>3, <2>4
<1>8. t \in Seq(S) /\ IsJoined(t, g, id) /\ Find(t, Equals) # 0
  BY <1>3, <1>5
<1> QED BY <1>2, <1>6, <1>7, <1>8 DEF g

\* A text that is not cut.
NoCut(u) == \A i \in 1..Len(u) : u[i] # Semicolon

\* Where the token that begins at i ends.
Ends(raw, i) == {j \in i..Len(raw) : raw[j] = Semicolon} \cup {Len(raw) + 1}

\* Where the tokens of the session begin.
Found(raw) == {i \in Starts(raw) : IsSession(Token(raw, i))}

\* A token goes to the next semicolon or to the end.
LEMMA TokenEnds ==
    ASSUME NEW raw, NEW i
    PROVE  Token(raw, i) = SubSeq(raw, i, Min(Ends(raw, i)) - 1)
BY DEF Token, Ends

\* The first session token gives the value.
LEMMA FoundIs ==
    ASSUME NEW raw
    PROVE  ExtractSessionId(raw) =
               IF Found(raw) = {} THEN <<>> ELSE ValueOf(Token(raw, Min(Found(raw))))
BY DEF ExtractSessionId, Found

\* A token begins at the front and after each semicolon.
LEMMA StartsAre ==
    ASSUME NEW raw, NEW i
    PROVE  i \in Starts(raw) <=> i \in 1..Len(raw) /\ (i = 1 \/ raw[i - 1] = Semicolon)
BY DEF Starts

\* Of a header without a semicolon.
LEMMA LastToken ==
    ASSUME NEW S, NEW u \in Seq(S), NoCut(u)
    PROVE  ExtractSessionId(u) = IF IsSession(u) THEN ValueOf(u) ELSE <<>>
<1> DEFINE n == Len(u)
<1>1. n \in Nat /\ \A i \in 1..n : u[i] # Semicolon
  BY LenProperties DEF NoCut
<1>2. CASE n = 0
  <2>1. \A i : i \notin Starts(u)
    <3>1. \A i : i \notin 1..Len(u)
      BY <1>2
    <3> QED BY <3>1, StartsAre
  <2>2. Found(u) = {}
    BY <2>1 DEF Found
  <2>3. ~IsSession(u)
    <3>1. Find(u, Equals) = 0
      <4>1. Find(u, Equals) \in 0..Len(u)
        BY FindIs
      <4> QED BY <1>2, <4>1
    <3> QED BY <3>1 DEF IsSession
  <2> QED BY <2>2, <2>3, FoundIs
<1>3. CASE n # 0
  <2>1. \A i : i \in Starts(u) <=> i = 1
    <3>1. 1 \in 1..Len(u)
      BY <1>1, <1>3
    <3>2. ASSUME NEW i \in 1..n, i # 1
          PROVE  u[i - 1] # Semicolon
      <4>1. i - 1 \in 1..n
        BY <1>1, <3>2
      <4> QED BY <1>1, <4>1
    <3> QED BY <3>1, <3>2, StartsAre
  <2>2. Token(u, 1) = u
    <3>1. Ends(u, 1) = {n + 1}
      BY <1>1 DEF Ends
    <3>2. Min({n + 1}) = n + 1
      <4>1. {n + 1} \in SUBSET Int /\ n + 1 \in {n + 1} /\ \A x \in {n + 1} : n + 1 <= x
        BY <1>1
      <4> QED BY <4>1, MinIs
    <3>3. Token(u, 1) = SubSeq(u, 1, n)
      <4>1. Token(u, 1) = SubSeq(u, 1, (n + 1) - 1)
        BY <3>1, <3>2, TokenEnds
      <4>2. (n + 1) - 1 = n
        BY <1>1
      <4> QED BY <4>1, <4>2
    <3> QED BY <3>3, SubSeqFull
  <2>3. CASE IsSession(u)
    <3>1. Found(u) = {1}
      BY <2>1, <2>2, <2>3 DEF Found
    <3>2. Min({1}) = 1
      BY MinIs
    <3> QED BY <2>2, <2>3, <3>1, <3>2, FoundIs
  <2>4. CASE ~IsSession(u)
    <3>1. Found(u) = {}
      BY <2>1, <2>2, <2>4 DEF Found
    <3> QED BY <2>4, <3>1, FoundIs
  <2> QED BY <2>3, <2>4
<1> QED BY <1>2, <1>3

\* A header from its first semicolon on.
Cuts(raw, u, rest) ==
    /\ Len(raw) = Len(u) + 1 + Len(rest)
    /\ \A i \in 1..Len(u) : raw[i] = u[i]
    /\ raw[Len(u) + 1] = Semicolon
    /\ \A i \in 1..Len(rest) : raw[(Len(u) + 1) + i] = rest[i]

\* A header is cut at the semicolon between u and the rest.
LEMMA CutIs ==
    ASSUME NEW S, NEW u \in Seq(S), NEW rest \in Seq(S), Semicolon \in S
    PROVE  /\ (u \o <<Semicolon>>) \o rest \in Seq(S)
           /\ Cuts((u \o <<Semicolon>>) \o rest, u, rest)
<1> DEFINE g == <<Semicolon>>
           h == u \o g
           raw == h \o rest
<1>1. g \in Seq(S) /\ Len(g) = 1 /\ g[1] = Semicolon
  OBVIOUS
<1> HIDE DEF g
<1>2. h \in Seq(S) /\ IsJoined(h, u, g)
  BY <1>1, PartsOf
<1> HIDE DEF h
<1>3. raw \in Seq(S) /\ IsJoined(raw, h, rest)
  BY <1>2, PartsOf
<1> HIDE DEF raw
<1> DEFINE n == Len(u)
           m == Len(rest)
<1>4. n \in Nat /\ m \in Nat
  BY LenProperties
<1>5. /\ Len(h) = n + 1 /\ \A i \in 1..n : h[i] = u[i]
      /\ \A i \in 1..1 : h[n + i] = g[i]
  BY <1>1, <1>2 DEF IsJoined
<1>6. /\ Len(raw) = Len(h) + m /\ \A i \in 1..Len(h) : raw[i] = h[i]
      /\ \A i \in 1..m : raw[Len(h) + i] = rest[i]
  BY <1>3 DEF IsJoined
<1> HIDE DEF n, m
<1>7. h[n + 1] = Semicolon
  BY <1>1, <1>5
<1>8. /\ Len(raw) = n + 1 + m /\ \A i \in 1..n : raw[i] = u[i]
      /\ raw[n + 1] = Semicolon /\ \A i \in 1..m : raw[(n + 1) + i] = rest[i]
  <2>1. Len(raw) = n + 1 + m
    BY <1>4, <1>5, <1>6
  <2>2. ASSUME NEW i \in 1..n
        PROVE  raw[i] = u[i]
    <3>1. i \in 1..Len(h)
      BY <1>4, <1>5
    <3> QED BY <1>5, <1>6, <3>1
  <2>3. raw[n + 1] = Semicolon
    <3>1. n + 1 \in 1..Len(h)
      BY <1>4, <1>5
    <3> QED BY <1>6, <1>7, <3>1
  <2>4. \A i \in 1..m : raw[(n + 1) + i] = rest[i]
    BY <1>5, <1>6
  <2> QED BY <2>1, <2>2, <2>3, <2>4
<1> QED BY <1>3, <1>8 DEF Cuts, g, h, raw, n, m

\* The tokens after the first one are those of the rest.
LEMMA TokensOfRest ==
    ASSUME NEW S, NEW raw \in Seq(S), NEW u \in Seq(S), NEW rest \in Seq(S),
           Cuts(raw, u, rest), NEW i \in 1..Len(rest)
    PROVE  /\ Token(raw, (Len(u) + 1) + i) = Token(rest, i)
           /\ (Len(u) + 1) + i \in Starts(raw) <=> i \in Starts(rest)
<1> DEFINE d == Len(u) + 1
           m == Len(rest)
           A == Ends(rest, i)
           B == Ends(raw, d + i)
           e == Min(A)
<1>1. /\ d \in Nat \ {0} /\ m \in Nat /\ Len(raw) = d + m /\ raw[d] = Semicolon
      /\ \A k \in 1..m : raw[d + k] = rest[k]
  BY LenProperties DEF Cuts
<1>2. From(raw, d, rest)
  BY <1>1 DEF From
<1> HIDE DEF d
<1>3. A \in SUBSET Nat /\ A # {} /\ \A x \in A : i <= x /\ x <= m + 1
  BY <1>1 DEF Ends
<1>4. B = {x + d : x \in A}
  <2>1. ASSUME NEW x \in A
        PROVE  x + d \in B
    <3>1. CASE x = m + 1
      <4>1. x + d = Len(raw) + 1
        BY <1>1, <3>1
      <4> QED BY <4>1 DEF Ends
    <3>2. CASE x \in i..m /\ rest[x] = Semicolon
      <4>1. x \in 1..m /\ d + x = x + d /\ x + d \in (d + i)..Len(raw)
        BY <1>1, <3>2
      <4>2. raw[x + d] = Semicolon
        BY <1>1, <3>2, <4>1
      <4> QED BY <4>1, <4>2 DEF Ends
    <3> QED BY <3>1, <3>2 DEF Ends
  <2>2. ASSUME NEW y \in B
        PROVE  y - d \in A /\ (y - d) + d = y
    <3>1. CASE y = Len(raw) + 1
      <4>1. y - d = m + 1 /\ (y - d) + d = y
        BY <1>1, <3>1
      <4> QED BY <4>1 DEF Ends
    <3>2. CASE y \in (d + i)..Len(raw) /\ raw[y] = Semicolon
      <4>1. y - d \in i..m /\ (y - d) + d = y /\ d + (y - d) = y /\ y - d \in 1..m
        BY <1>1, <3>2
      <4>2. rest[y - d] = Semicolon
        BY <1>1, <3>2, <4>1
      <4> QED BY <4>1, <4>2 DEF Ends
    <3> QED BY <3>1, <3>2 DEF Ends
  <2> HIDE DEF A, B
  <2> QED BY <2>1, <2>2
<1> HIDE DEF A, B
<1>5. e \in A
  BY <1>3, MinExists
<1>6. Min(B) = e + d
  BY <1>1, <1>3, <1>4, MinMoved
<1> HIDE DEF e
<1>7. e \in Nat /\ i <= e /\ e <= m + 1
  BY <1>3, <1>5
<1>8. SubSeq(raw, d + i, d + (e - 1)) = SubSeq(rest, i, e - 1)
  <2> DEFINE hi == e - 1
  <2>1. hi \in Nat /\ hi <= Len(rest) /\ i \in Nat \ {0} /\ d \in Nat
    BY <1>1, <1>7
  <2> HIDE DEF hi
  <2>2. SubSeq(raw, d + i, d + hi) = SubSeq(rest, i, hi)
    BY <1>2, <2>1, SamePart
  <2> QED BY <2>2 DEF hi
<1>9. Token(raw, d + i) = Token(rest, i)
  <2>1. (e + d) - 1 = d + (e - 1)
    BY <1>1, <1>7
  <2>2. Token(raw, d + i) = SubSeq(raw, d + i, (e + d) - 1)
    BY <1>6, TokenEnds DEF B
  <2>3. Token(rest, i) = SubSeq(rest, i, e - 1)
    BY TokenEnds DEF A, e
  <2> QED BY <1>8, <2>1, <2>2, <2>3
<1>10. d + i \in Starts(raw) <=> i \in Starts(rest)
  <2>1. d + i \in 1..Len(raw) /\ d + i # 1
    BY <1>1
  <2>2. d + i \in Starts(raw) <=> raw[(d + i) - 1] = Semicolon
    BY <2>1, StartsAre
  <2>3. CASE i = 1
    <3>1. (d + i) - 1 = d
      BY <1>1, <2>3
    <3> QED BY <1>1, <2>2, <2>3, <3>1, StartsAre
  <2>4. CASE i # 1
    <3>1. i - 1 \in 1..m /\ (d + i) - 1 = d + (i - 1)
      <4>1. i \in Nat /\ 1 <= i /\ i <= m
        BY <1>1
      <4>2. d \in Nat /\ m \in Nat
        BY <1>1
      <4> HIDE DEF m, d
      <4>3. i - 1 \in 1..m
        BY <2>4, <4>1, <4>2
      <4>4. (d + i) - 1 = d + (i - 1)
        BY <4>1, <4>2
      <4> QED BY <4>3, <4>4
    <3>2. raw[(d + i) - 1] = rest[i - 1]
      BY <1>1, <3>1
    <3> QED BY <2>2, <2>4, <3>2, StartsAre
  <2> QED BY <2>3, <2>4
<1> QED BY <1>9, <1>10 DEF d

\* Of a header with a semicolon: the first token, or what the rest gives.
LEMMA FirstToken ==
    ASSUME NEW S, NEW raw \in Seq(S), NEW u \in Seq(S), NEW rest \in Seq(S),
           Cuts(raw, u, rest), NoCut(u)
    PROVE  ExtractSessionId(raw) = IF IsSession(u) THEN ValueOf(u) ELSE ExtractSessionId(rest)
<1> DEFINE n == Len(u)
           m == Len(rest)
           d == n + 1
<1>1. /\ n \in Nat /\ m \in Nat /\ Len(raw) = n + 1 + m /\ raw[n + 1] = Semicolon
      /\ \A k \in 1..n : raw[k] = u[k] /\ u[k] # Semicolon
  BY LenProperties DEF Cuts, NoCut
<1>2. \A i \in 1..m :
         /\ Token(raw, d + i) = Token(rest, i)
         /\ d + i \in Starts(raw) <=> i \in Starts(rest)
  BY TokensOfRest
<1>0. d = n + 1 /\ d \in Nat
  BY <1>1
<1> HIDE DEF n, m, d
<1>3. 1 \in Starts(raw)
  <2>1. 1 \in 1..Len(raw)
    BY <1>1
  <2> QED BY <2>1, StartsAre
<1>4. Token(raw, 1) = u
  <2>1. /\ Ends(raw, 1) \in SUBSET Int /\ n + 1 \in Ends(raw, 1)
        /\ \A x \in Ends(raw, 1) : n + 1 <= x
    BY <1>1 DEF Ends
  <2>2. Min(Ends(raw, 1)) = n + 1
    BY <2>1, MinIs
  <2>3. Token(raw, 1) = SubSeq(raw, 1, n)
    <3>1. (n + 1) - 1 = n
      BY <1>1
    <3> QED BY <2>2, <3>1, TokenEnds
  <2>4. SubSeq(raw, 0 + 1, 0 + Len(u)) = u
    <3>1. 0 \in Nat /\ 0 + Len(u) <= Len(raw)
      BY <1>1 DEF n
    <3>2. \A k \in 1..Len(u) : raw[0 + k] = u[k]
      BY <1>1 DEF n
    <3> QED BY <3>1, <3>2, PartIs
  <2>5. 0 + 1 = 1 /\ 0 + n = n
    BY <1>1
  <2> QED BY <2>3, <2>4, <2>5 DEF n
<1>5. CASE IsSession(u)
  <2>1. 1 \in Found(raw) /\ \A x \in Found(raw) : 1 <= x
    BY <1>3, <1>4, <1>5, StartsAre DEF Found
  <2>2. Found(raw) \in SUBSET Int
    BY StartsAre DEF Found
  <2>3. Min(Found(raw)) = 1
    BY <2>1, <2>2, MinIs
  <2> QED BY <1>4, <1>5, <2>1, <2>3, FoundIs
<1>6. CASE ~IsSession(u)
  <2>1. Found(rest) \in SUBSET Nat /\ \A x \in Found(rest) : x \in 1..m
    BY StartsAre DEF Found, m
  <2>2. ASSUME NEW i \in Found(raw)
        PROVE  i - d \in 1..m /\ d + (i - d) = i
    <3>1. i \in 1..Len(raw) /\ (i = 1 \/ raw[i - 1] = Semicolon) /\ i # 1
      BY <1>4, <1>6, StartsAre DEF Found
    <3>2. ~(i - 1 \in 1..n)
      BY <1>1, <3>1
    <3> QED BY <1>1, <1>0, <3>1, <3>2
  <2>3. \A i \in 1..m : d + i \in Found(raw) <=> i \in Found(rest)
    <3> TAKE i \in 1..m
    <3> DEFINE j == d + i
    <3>1. Token(raw, j) = Token(rest, i) /\ (j \in Starts(raw) <=> i \in Starts(rest))
      BY <1>2
    <3> HIDE DEF j
    <3>2. j \in Found(raw) <=> i \in Found(rest)
      BY <3>1 DEF Found
    <3> QED BY <3>2 DEF j
  <2>4. Found(raw) = {x + d : x \in Found(rest)}
    <3>1. ASSUME NEW i \in Found(raw)
          PROVE  i - d \in Found(rest) /\ (i - d) + d = i
      BY <1>1, <1>0, <2>2, <2>3
    <3>2. ASSUME NEW x \in Found(rest)
          PROVE  x + d \in Found(raw)
      <4>1. x \in 1..m /\ x + d = d + x
        BY <1>1, <1>0, <2>1
      <4> QED BY <2>3, <4>1
    <3> QED BY <3>1, <3>2
  <2>5. CASE Found(rest) = {}
    <3>1. Found(raw) = {}
      BY <2>4, <2>5
    <3> QED BY <1>6, <2>5, <3>1, FoundIs
  <2>6. CASE Found(rest) # {}
    <3>1. Min(Found(rest)) \in Found(rest)
      BY <2>1, <2>6, MinExists
    <3>3. Min(Found(raw)) = Min(Found(rest)) + d
      BY <1>0, <2>1, <2>4, <2>6, MinMoved
    <3> DEFINE x == Min(Found(rest))
    <3> HIDE DEF x
    <3>4. x \in 1..m /\ x + d = d + x /\ x + d \in Found(raw)
      BY <1>0, <2>1, <2>4, <3>1 DEF x
    <3>5. Token(raw, x + d) = Token(rest, x)
      <4>1. Token(raw, d + x) = Token(rest, x)
        BY <1>2, <3>4
      <4> QED BY <3>4, <4>1
    <3>6. Found(raw) # {} /\ Min(Found(raw)) = x + d
      BY <3>3, <3>4 DEF x
    <3>7. ExtractSessionId(raw) = ValueOf(Token(rest, x))
      BY <3>5, <3>6, FoundIs
    <3>8. ExtractSessionId(rest) = ValueOf(Token(rest, x))
      BY <2>6, FoundIs DEF x
    <3> QED BY <1>6, <3>7, <3>8
  <2> QED BY <2>5, <2>6
<1> QED BY <1>5, <1>6

\* The characters of a header.
Letters == Chars \cup {"session_id", "b", Gap, Semicolon, Equals}

\* The separators are characters of their own, and the names are not among them.
LEMMA LettersDiffer ==
    /\ Gap # Equals /\ Gap # Semicolon /\ Equals # Semicolon
    /\ \A name \in {"session_id", "b"} : name # Equals /\ name # Gap /\ name # Semicolon
    /\ "b" # "session_id"
BY Zenon DEF Gap, Semicolon, Equals

\* What follows a token that may be the one of the session.
Others(after) == IF after = <<>> THEN <<>> ELSE <<Semicolon, Gap>> \o after

\* A part of a header between two semicolons.
IsPart(u) == u \in Seq(Letters) /\ NoCut(u)

\* A part with a blank in front of it is a part, with the same name and value.
LEMMA BlankPart ==
    ASSUME NEW u, IsPart(u)
    PROVE  /\ IsPart(<<Gap>> \o u)
           /\ IsSession(<<Gap>> \o u) <=> IsSession(u)
           /\ IsSession(u) => ValueOf(<<Gap>> \o u) = ValueOf(u)
<1> DEFINE g == <<Gap>>
           t == g \o u
           S == Letters
<1>1. u \in Seq(S) /\ Gap \in S
  BY DEF IsPart, Letters
<1>2. (IsSession(t) <=> IsSession(u)) /\ (IsSession(u) => ValueOf(t) = ValueOf(u))
  BY <1>1, BlankInFront, LettersDiffer
<1>3. g \in Seq(S) /\ Len(g) = 1 /\ g[1] = Gap
  BY <1>1
<1> HIDE DEF g, S
<1>4. t \in Seq(S) /\ IsJoined(t, g, u)
  BY <1>1, <1>3, PartsOf
<1> HIDE DEF t
<1>5. /\ Len(u) \in Nat /\ Len(t) = 1 + Len(u) /\ t[1] = Gap
      /\ \A i \in 1..Len(u) : t[1 + i] = u[i] /\ u[i] # Semicolon
  <2>1. 1 \in 1..1
    OBVIOUS
  <2> QED BY <1>1, <1>3, <1>4, <2>1, LenProperties DEF IsJoined, IsPart, NoCut
<1>6. ASSUME NEW i \in 1..Len(t)
      PROVE  t[i] # Semicolon
  <2>1. CASE i = 1
    BY <1>5, <2>1, LettersDiffer
  <2>2. CASE i # 1
    <3>1. i - 1 \in 1..Len(u) /\ 1 + (i - 1) = i
      BY <1>5, <2>2
    <3> QED BY <1>5, <3>1
  <2> QED BY <2>1, <2>2
<1>7. IsPart(t)
  BY <1>4, <1>6 DEF IsPart, NoCut, S
<1> QED BY <1>2, <1>7 DEF t, g

\* A token and other cookies after it give what the token gives.
LEMMA TokenThenOthers ==
    ASSUME NEW x, IsPart(x), NEW after, IsPart(after), ~IsSession(after)
    PROVE  /\ Others(after) \in Seq(Letters)
           /\ ExtractSessionId(x \o Others(after)) = IF IsSession(x) THEN ValueOf(x) ELSE <<>>
<1> DEFINE S == Letters
           g == <<Gap>>
           e == <<Semicolon>>
           rest == g \o after
           raw == (x \o e) \o rest
<1>1. x \in Seq(S) /\ after \in Seq(S) /\ NoCut(x) /\ NoCut(after)
  BY DEF IsPart
<1>2. Gap \in S /\ Semicolon \in S
  BY DEF Letters
<1>3. g \in Seq(S) /\ e \in Seq(S)
  BY <1>2
<1>0. e \o g = <<Semicolon, Gap>>
  BY <1>2, TwoIs
<1> HIDE DEF S
<1>4. CASE after = <<>>
  <2>1. Others(after) = <<>> /\ x \o <<>> = x /\ <<>> \in Seq(S)
    BY <1>1, <1>4, ConcatEmptySeq, EmptySeq DEF Others
  <2> QED BY <1>1, <2>1, LastToken DEF S
<1>5. CASE after # <<>>
  <2>1. IsPart(rest) /\ ~IsSession(rest)
    BY BlankPart
  <2>2. raw \in Seq(S) /\ Cuts(raw, x, rest)
    <3>1. rest \in Seq(S)
      BY <2>1 DEF IsPart, S
    <3> QED BY <1>1, <1>2, <3>1, CutIs
  <2> HIDE DEF rest, g, e
  <2>3. Others(after) = (e \o g) \o after
    BY <1>0, <1>5 DEF Others
  <2>4. (e \o g) \o after = e \o rest
    BY <1>1, <1>3, Regroup DEF rest
  <2>5. rest \in Seq(S) /\ NoCut(rest)
    BY <2>1 DEF IsPart, S
  <2>6. x \o (e \o rest) = raw
    <3>1. x \in Seq(S) /\ e \in Seq(S) /\ rest \in Seq(S)
      BY <1>1, <1>3, <2>5
    <3> QED BY <3>1, Regroup
  <2>7. e \o rest \in Seq(S)
    BY <1>3, <2>5, ConcatProperties
  <2> HIDE DEF raw
  <2>8. ExtractSessionId(raw) = IF IsSession(x) THEN ValueOf(x) ELSE ExtractSessionId(rest)
    BY <1>1, <2>2, <2>5, FirstToken
  <2>9. ExtractSessionId(rest) = <<>>
    BY <2>1, <2>5, LastToken
  <2>10. x \o Others(after) = raw
    BY <2>3, <2>4, <2>6
  <2> QED BY <2>3, <2>4, <2>7, <2>8, <2>9, <2>10 DEF S
<1> QED BY <1>4, <1>5

\* Other cookies around a token give what the token gives.
LEMMA OthersAround ==
    ASSUME NEW before, NEW x, NEW after, IsPart(before), IsPart(x), IsPart(after),
           ~IsSession(before), ~IsSession(after)
    PROVE  ExtractSessionId(Header(before, x, after)) = IF IsSession(x) THEN ValueOf(x) ELSE <<>>
<1> DEFINE S == Letters
           g == <<Gap>>
           e == <<Semicolon>>
           o == Others(after)
           y == g \o x
           rest == y \o o
           raw == (before \o e) \o rest
<1>1. before \in Seq(S) /\ x \in Seq(S) /\ o \in Seq(S) /\ NoCut(before)
  BY TokenThenOthers DEF IsPart
<1>2. Gap \in S /\ Semicolon \in S
  BY DEF Letters
<1>3. g \in Seq(S) /\ e \in Seq(S)
  BY <1>2
<1>0. e \o g = <<Semicolon, Gap>>
  BY <1>2, TwoIs
<1> HIDE DEF S
<1>4. CASE before = <<>>
  <2>1. Header(before, x, after) = (<<>> \o x) \o o /\ <<>> \o x = x
    BY <1>1, <1>4, ConcatEmptySeq DEF Header, Others
  <2> QED BY <2>1, TokenThenOthers
<1>5. CASE before # <<>>
  <2>1. IsPart(y) /\ (IsSession(y) <=> IsSession(x)) /\ (IsSession(x) => ValueOf(y) = ValueOf(x))
    BY BlankPart
  <2>2. Header(before, x, after) = ((before \o (e \o g)) \o x) \o o
    BY <1>0, <1>5 DEF Header, Others
  <2>3. y \in Seq(S)
    BY <2>1 DEF IsPart, S
  <2>4. ExtractSessionId(rest) = IF IsSession(y) THEN ValueOf(y) ELSE <<>>
    BY <2>1, TokenThenOthers
  <2> HIDE DEF o, g, e
  <2>5. rest \in Seq(S)
    BY <1>1, <2>3, ConcatProperties
  <2>6. raw \in Seq(S) /\ Cuts(raw, before, rest)
    BY <1>1, <1>2, <2>5, CutIs DEF e
  <2>7. ((before \o (e \o g)) \o x) \o o = raw
    <3>1. before \o e \in Seq(S)
      BY <1>1, <1>3, ConcatProperties
    <3>2. before \o (e \o g) = (before \o e) \o g
      <4>1. before \in Seq(S) /\ e \in Seq(S) /\ g \in Seq(S)
        BY <1>1, <1>3
      <4> QED BY <4>1, Regroup
    <3>3. ((before \o e) \o g) \o x = (before \o e) \o y
      <4> DEFINE p == before \o e
      <4>1. p \in Seq(S) /\ g \in Seq(S) /\ x \in Seq(S)
        BY <1>1, <1>3, <3>1
      <4> HIDE DEF p
      <4>2. p \o (g \o x) = (p \o g) \o x
        BY <4>1, Regroup
      <4> QED BY <4>2 DEF p
    <3> HIDE DEF y
    <3>4. ((before \o e) \o y) \o o = (before \o e) \o rest
      BY <1>1, <2>3, <3>1, Regroup
    <3> QED BY <3>2, <3>3, <3>4
  <2> HIDE DEF y, rest, raw
  <2>8. ExtractSessionId(raw) = ExtractSessionId(rest)
    BY <1>1, <2>5, <2>6, FirstToken
  <2> QED BY <2>1, <2>2, <2>4, <2>7, <2>8
<1> QED BY <1>4, <1>5

\* The cookie that the browser sends for the session, or another one when there is none.
LEMMA SessionCookieIs ==
    ASSUME NEW id, IsValue(id)
    PROVE  LET x == SessionCookie(id)
           IN  IsPart(x) /\ (IF IsSession(x) THEN ValueOf(x) ELSE <<>>) = id
<1> DEFINE S == Letters
           x == SessionCookie(id)
           name == IF id = <<>> THEN "b" ELSE "session_id"
           g == <<name, Equals>>
           k == <<name>>
<1>1. id \in Seq(Chars) /\ \A i \in 1..Len(id) : id[i] # Gap /\ id[i] # Semicolon
  <2>1. id \in Seq(Chars \ {Semicolon, Gap})
    BY DEF IsValue
  <2>2. \A i \in 1..Len(id) : id[i] \in Chars \ {Semicolon, Gap}
    BY <2>1, ElementOfSeq
  <2>3. id \in Seq(Chars)
    BY <2>1
  <2> QED BY <2>2, <2>3
<1>2. id \in Seq(S)
  BY <1>1 DEF Letters
<1>3. name \in S /\ Equals \in S /\ name # Equals /\ name # Gap /\ name # Semicolon
  BY LettersDiffer DEF Letters
<1>4. x = Pair(k, id)
  <2>1. CASE id = <<>>
    <3>1. Pair(<<"b">>, <<>>) = <<"b", Equals>>
      <4>1. "b" \in S /\ <<"b">> \o <<Equals>> = <<"b", Equals>>
        BY <1>3, TwoIs DEF Letters
      <4>2. <<"b", Equals>> \in Seq(S)
        BY <1>3, <4>1
      <4> QED BY <4>1, <4>2, ConcatEmptySeq DEF Pair
    <3> QED BY <2>1, <3>1 DEF SessionCookie
  <2>2. CASE id # <<>>
    BY <2>2 DEF SessionCookie, CookieName
  <2> QED BY <2>1, <2>2
<1>5. /\ x \in Seq(S) /\ IsJoined(x, g, id)
      /\ Find(x, Equals) # 0 /\ KeyOf(x) = k /\ ValueOf(x) = id
  <2> HIDE DEF x, name, S
  <2> QED BY <1>1, <1>2, <1>3, <1>4, PairIs
<1>6. IsPart(x)
  <2>1. Len(g) = 2 /\ g[1] = name /\ g[2] = Equals /\ Len(id) \in Nat
    BY <1>1, LenProperties
  <2> HIDE DEF x, g, name
  <2>2. ASSUME NEW i \in 1..Len(x)
        PROVE  x[i] # Semicolon
    <3>1. Len(x) = 2 + Len(id)
      BY <1>5, <2>1 DEF IsJoined
    <3>2. CASE i \in 1..2
      <4>1. x[i] = g[i]
        BY <1>5, <2>1, <3>2 DEF IsJoined
      <4>2. i = 1 \/ i = 2
        BY <3>2
      <4> QED BY <1>3, <2>1, <4>1, <4>2, LettersDiffer
    <3>3. CASE ~(i \in 1..2)
      <4>1. i - 2 \in 1..Len(id) /\ 2 + (i - 2) = i
        BY <2>1, <3>1, <3>3
      <4>2. x[2 + (i - 2)] = id[i - 2]
        BY <1>5, <2>1, <4>1 DEF IsJoined
      <4> QED BY <1>1, <4>1, <4>2
    <3> QED BY <3>2, <3>3
  <2> QED BY <1>5, <2>2 DEF IsPart, NoCut, S
<1>7. IsSession(x) <=> id # <<>>
  <2>1. <<"session_id">>[1] = "session_id" /\ <<"b">>[1] = "b"
    OBVIOUS
  <2>2. <<"session_id">> # <<"b">>
    BY <2>1, LettersDiffer
  <2> QED BY <1>5, <2>2 DEF IsSession, CookieName
<1>8. (IF IsSession(x) THEN ValueOf(x) ELSE <<>>) = id
  BY <1>5, <1>7
<1> QED BY <1>6, <1>8

\* The session comes back from the browser, and none comes without it: for every other
\* cookies before and after it and every value.
THEOREM CookieReturns == Spec => []CookieComesBack
<1>1. Init => CookieComesBack
  BY DEF Init, CookieComesBack, Returned
<1>2. ASSUME call \in Calls, CookieComesBack, [Next]_vars
      PROVE  CookieComesBack'
  <2>1. CASE Cookie
    <3> DEFINE x == SessionCookie(call.session)
    <3>1. /\ call.f = "cookie" /\ call' = call
          /\ result' = <<ExtractSessionId(Header(call.before, x, call.after))>>
      BY <2>1 DEF Cookie, Return
    <3>2. IsOther(call.before) /\ IsOther(call.after) /\ IsValue(call.session)
      BY <1>2, <3>1, CallsAssumption
    <3>3. ASSUME NEW u, IsOther(u)
          PROVE  IsPart(u) /\ ~IsSession(u)
      <4>1. u \in Seq(Chars \ {Semicolon}) /\ ~IsSession(u)
        BY <3>3 DEF IsOther
      <4>2. \A i \in 1..Len(u) : u[i] \in Chars \ {Semicolon}
        BY <4>1, ElementOfSeq
      <4>3. u \in Seq(Letters)
        BY <4>1 DEF Letters
      <4> QED BY <4>1, <4>2, <4>3 DEF IsPart, NoCut
    <3>4. IsPart(x) /\ (IF IsSession(x) THEN ValueOf(x) ELSE <<>>) = call.session
      BY <3>2, SessionCookieIs
    <3>5. ExtractSessionId(Header(call.before, x, call.after)) = call.session
      <4>1. /\ IsPart(call.before) /\ IsPart(call.after)
            /\ ~IsSession(call.before) /\ ~IsSession(call.after)
        BY <3>2, <3>3
      <4> HIDE DEF x
      <4> QED BY <3>4, <4>1, OthersAround
    <3>6. Value' = call.session
      BY <3>1, <3>5 DEF Value
    <3> QED BY <3>1, <3>6 DEF CookieComesBack
  <2>2. CASE Judge \/ Submit \/ Verify \/ Register
    BY <2>2 DEF Judge, Submit, Verify, Register, Return, CookieComesBack, Returned
  <2>3. CASE UNCHANGED vars
    BY <1>2, <2>3 DEF vars, CookieComesBack, Returned, Value
  <2> QED BY <1>2, <2>1, <2>2, <2>3 DEF Next
<1> QED BY <1>1, <1>2, CallOf, PTL DEF Spec
=============================================================================
