---------------------------- MODULE DataTheorems ----------------------------
(* Facts about data that the proofs of several components rest on: induction *)
(* on sets of numbers, loops as functions of the number of rounds, what the  *)
(* operations of a std::queue without duplicates do to its elements,         *)
(* division with remainder, and the parts and the concatenation of texts.    *)
EXTENDS SequenceTheorems, FiniteSetTheorems, WellFoundedInduction, TLAPS

\* A set of natural numbers has a least element.
LEMMA Least ==
    ASSUME NEW S \in SUBSET Nat, S # {}
    PROVE  \E i \in S : \A j \in S : i <= j
<1>1. PICK i \in S : \A j \in S : ~(<<j, i>> \in OpToRel(<, Nat))
  BY NatLessThanWellFounded, WFMin
<1>2. \A j \in S : ~(j < i)
  BY <1>1 DEF OpToRel
<1>3. ASSUME NEW j \in S
      PROVE  i <= j
  <2>1. i \in Nat /\ j \in Nat /\ ~(j < i)
    BY <1>2
  <2> QED BY <2>1
<1> QED BY <1>3

\* A set with 0 that has with each number the next has every number: the induction
\* that every loop below rests on.
LEMMA EveryNumber ==
    ASSUME NEW S, 0 \in S, \A n \in Nat : n \in S => n + 1 \in S
    PROVE  Nat \subseteq S
<1> DEFINE T == Nat \ S
<1> SUFFICES ASSUME T # {} PROVE FALSE
  OBVIOUS
<1>1. PICK n \in T : \A m \in T : n <= m
  BY Least
<1>2. n # 0 /\ n - 1 \in Nat /\ ~(n <= n - 1) /\ (n - 1) + 1 = n
  BY <1>1
<1>3. n - 1 \in S
  BY <1>1, <1>2
<1> QED BY <1>1, <1>2, <1>3

\* The states of a loop, from before its first round to after round N, when round n
\* takes the state s to step[n][s].
IsLoop(f, State, first, N, step) ==
    /\ f \in [0..N -> State]
    /\ f[0] = first
    /\ \A n \in 1..N : f[n] = step[n][f[n - 1]]

\* Every loop has its states.
LEMMA Loop ==
    ASSUME NEW State, NEW first, NEW N, NEW step,
           first \in State, N \in Nat, step \in [1..N -> [State -> State]]
    PROVE  \E f : IsLoop(f, State, first, N, step)
<1> DEFINE Runs(n) == {f \in [0..n -> State] :
                         f[0] = first /\ \A i \in 1..n : f[i] = step[i][f[i - 1]]}
           S == {n \in Nat : n <= N => Runs(n) # {}}
<1>1. 0 \in S
  <2> DEFINE f == [i \in 0..0 |-> first]
  <2>1. f \in Runs(0)
    OBVIOUS
  <2> QED BY <2>1
<1>2. ASSUME NEW n \in Nat, n \in S, n + 1 <= N
      PROVE  Runs(n + 1) # {}
  <2>1. PICK f \in Runs(n) : TRUE
    BY <1>2
  <2>2. f[n] \in State /\ n + 1 \in 1..N
    BY <1>2, <2>1
  <2> DEFINE g == [i \in 0..(n + 1) |-> IF i <= n THEN f[i] ELSE step[n + 1][f[n]]]
  <2>3. step[n + 1][f[n]] \in State
    BY <2>2
  <2>4. \A i \in 0..n : g[i] = f[i] /\ f[i] \in State
    BY <2>1
  <2>5. g[n + 1] = step[n + 1][f[n]]
    OBVIOUS
  <2>6. g \in [0..(n + 1) -> State]
    BY <2>3, <2>4
  <2>7. g[0] = first
    BY <2>1, <2>4
  <2>8. ASSUME NEW i \in 1..(n + 1)
        PROVE  g[i] = step[i][g[i - 1]]
    <3>1. CASE i = n + 1
      <4>1. n \in 0..n /\ i - 1 = n
        BY <3>1
      <4> QED BY <2>4, <2>5, <3>1, <4>1
    <3>2. CASE i # n + 1
      <4>1. i \in 1..n /\ i \in 0..n /\ i - 1 \in 0..n
        BY <3>2
      <4>2. f[i] = step[i][f[i - 1]]
        BY <2>1, <4>1
      <4> QED BY <2>4, <4>1, <4>2
    <3> QED BY <3>1, <3>2
  <2> HIDE DEF g
  <2>9. g \in Runs(n + 1)
    BY <2>6, <2>7, <2>8
  <2> QED BY <2>9
<1>3. ASSUME NEW n \in Nat, n \in S
      PROVE  n + 1 \in S
  <2>1. n + 1 <= N => Runs(n + 1) # {}
    BY <1>2, <1>3
  <2> HIDE DEF Runs
  <2> QED BY <2>1
<1> HIDE DEF S
<1>4. N \in S
  BY <1>1, <1>3, EveryNumber
<1>5. PICK f : f \in Runs(N)
  BY <1>4 DEF S
<1>6. IsLoop(f, State, first, N, step)
  BY <1>5 DEF IsLoop
<1> QED BY <1>6
-----------------------------------------------------------------------------
(* Queues.                                                                 *)

\* Popping the front of a duplicate-free queue removes that element only, and
\* leaves a duplicate-free queue (acquire() pops pool_).
LEMMA PopFront ==
    ASSUME NEW S, NEW s \in Seq(S), s # <<>>, IsInjective(s)
    PROVE  /\ Head(s) \in Range(s)
           /\ Tail(s) \in Seq(S)
           /\ Range(Tail(s)) = Range(s) \ {Head(s)}
           /\ IsInjective(Tail(s))
<1> DEFINE t == Tail(s)
<1>1. /\ t \in Seq(S)
      /\ Len(t) = Len(s) - 1
      /\ Len(s) \in Nat \ {0}
      /\ DOMAIN s = 1..Len(s) /\ DOMAIN t = 1..Len(t)
      /\ \A i \in 1..Len(t) : t[i] = s[i + 1]
      /\ Head(s) = s[1]
  BY HeadTailProperties, EmptySeq, LenProperties
<1>2. \A a, b \in 1..Len(s) : s[a] = s[b] => a = b
  BY <1>1 DEF IsInjective
<1>3. Head(s) \in Range(s)
  BY <1>1 DEF Range
<1>4. IsInjective(t)
  <2> SUFFICES ASSUME NEW a \in 1..Len(t), NEW b \in 1..Len(t), t[a] = t[b]
               PROVE  a = b
    BY <1>1 DEF IsInjective
  <2>1. a + 1 \in 1..Len(s) /\ b + 1 \in 1..Len(s) /\ s[a + 1] = s[b + 1]
    BY <1>1
  <2> QED BY <2>1, <1>2
<1>5. Range(t) \subseteq Range(s) \ {Head(s)}
  <2> SUFFICES ASSUME NEW a \in 1..Len(t)
               PROVE  t[a] \in Range(s) /\ t[a] # Head(s)
    BY <1>1 DEF Range
  <2>1. a + 1 \in 1..Len(s) /\ 1 \in 1..Len(s) /\ a + 1 # 1 /\ t[a] = s[a + 1]
    BY <1>1
  <2> QED BY <2>1, <1>1, <1>2 DEF Range
<1>6. Range(s) \ {Head(s)} \subseteq Range(t)
  <2> SUFFICES ASSUME NEW a \in 1..Len(s), s[a] # s[1]
               PROVE  s[a] \in Range(t)
    BY <1>1 DEF Range
  <2>1. a - 1 \in 1..Len(t) /\ (a - 1) + 1 = a
    BY <1>1
  <2>2. t[a - 1] = s[a]
    BY <2>1, <1>1
  <2> QED BY <2>1, <2>2, <1>1 DEF Range
<1> QED BY <1>1, <1>3, <1>4, <1>5, <1>6

\* Pushing an element that is not in the queue keeps it free of duplicates
\* (release() pushes onto pool_).
LEMMA PushBack ==
    ASSUME NEW S, NEW s \in Seq(S), NEW e \in S
    PROVE  /\ Append(s, e) \in Seq(S)
           /\ Len(Append(s, e)) = Len(s) + 1
           /\ Range(Append(s, e)) = Range(s) \cup {e}
           /\ IsInjective(s) /\ e \notin Range(s) => IsInjective(Append(s, e))
<1> DEFINE t == Append(s, e)
<1>1. /\ t \in Seq(S)
      /\ Len(s) \in Nat /\ Len(t) = Len(s) + 1
      /\ DOMAIN s = 1..Len(s) /\ DOMAIN t = 1..Len(s) + 1
      /\ \A i \in 1..Len(s) : t[i] = s[i]
      /\ t[Len(s) + 1] = e
  BY AppendProperties, LenProperties
<1>2. \A i \in 1..Len(s) + 1 : i \in 1..Len(s) \/ i = Len(s) + 1
  BY <1>1
<1>3. Range(t) = Range(s) \cup {e}
  <2>1. Range(t) \subseteq Range(s) \cup {e}
    BY <1>1, <1>2 DEF Range
  <2>2. \A i \in 1..Len(s) : i \in 1..Len(s) + 1
    BY <1>1
  <2>3. Len(s) + 1 \in 1..Len(s) + 1
    BY <1>1
  <2>4. Range(s) \cup {e} \subseteq Range(t)
    BY <1>1, <2>2, <2>3 DEF Range
  <2> QED BY <2>1, <2>4
<1>4. ASSUME IsInjective(s), e \notin Range(s)
      PROVE  IsInjective(t)
  <2> SUFFICES ASSUME NEW a \in 1..Len(s) + 1, NEW b \in 1..Len(s) + 1, t[a] = t[b]
               PROVE  a = b
    BY <1>1 DEF IsInjective
  <2>1. \A i \in 1..Len(s) : s[i] # e
    BY <1>1, <1>4 DEF Range
  <2>2. CASE a \in 1..Len(s) /\ b \in 1..Len(s)
    BY <2>2, <1>1, <1>4 DEF IsInjective
  <2>3. CASE a = Len(s) + 1 \/ b = Len(s) + 1
    BY <2>1, <2>3, <1>1, <1>2
  <2> QED BY <2>2, <2>3, <1>2
<1> QED BY <1>1, <1>3, <1>4

\* Joining two duplicate-free queues without a common element (init() adds a
\* batch of new connections to what the queue keeps).
LEMMA JoinQueues ==
    ASSUME NEW S, NEW s \in Seq(S), NEW u \in Seq(S),
           IsInjective(s), IsInjective(u), Range(s) \cap Range(u) = {}
    PROVE  /\ s \o u \in Seq(S)
           /\ Range(s \o u) = Range(s) \cup Range(u)
           /\ IsInjective(s \o u)
<1>1. /\ s \o u \in Seq(S)
      /\ Len(s) \in Nat /\ Len(u) \in Nat
      /\ DOMAIN s = 1..Len(s) /\ DOMAIN u = 1..Len(u)
      /\ DOMAIN (s \o u) = 1..Len(s) + Len(u)
      /\ \A i \in 1..Len(s) + Len(u) :
            (s \o u)[i] = IF i <= Len(s) THEN s[i] ELSE u[i - Len(s)]
  BY ConcatProperties, LenProperties
<1>2. Range(s \o u) = Range(s) \cup Range(u)
  BY RangeConcatenation
<1>3. IsInjective(s \o u)
  <2> SUFFICES ASSUME NEW a \in 1..Len(s) + Len(u), NEW b \in 1..Len(s) + Len(u),
                      (s \o u)[a] = (s \o u)[b]
               PROVE  a = b
    BY <1>1 DEF IsInjective
  <2>1. \A i \in 1..Len(s) + Len(u) :
            \/ i <= Len(s) /\ i \in 1..Len(s) /\ (s \o u)[i] = s[i]
            \/ i > Len(s) /\ i - Len(s) \in 1..Len(u) /\ (s \o u)[i] = u[i - Len(s)]
    BY <1>1
  <2>2. \A i \in 1..Len(s), j \in 1..Len(u) : s[i] # u[j]
    <3> SUFFICES ASSUME NEW i \in 1..Len(s), NEW j \in 1..Len(u)
                 PROVE  s[i] # u[j]
      OBVIOUS
    <3>1. s[i] \in Range(s) /\ u[j] \in Range(u)
      BY <1>1 DEF Range
    <3> QED BY <3>1
  <2>3. CASE a <= Len(s) /\ b <= Len(s)
    <3>1. a \in 1..Len(s) /\ b \in 1..Len(s) /\ s[a] = s[b]
      BY <2>1, <2>3, <1>1
    <3> QED BY <3>1, <1>1 DEF IsInjective
  <2>4. CASE a > Len(s) /\ b > Len(s)
    <3>1. /\ a - Len(s) \in 1..Len(u) /\ b - Len(s) \in 1..Len(u)
          /\ u[a - Len(s)] = u[b - Len(s)]
      BY <2>1, <2>4, <1>1
    <3>2. a - Len(s) = b - Len(s)
      BY <3>1, <1>1 DEF IsInjective
    <3> QED BY <3>2, <1>1
  <2>5. CASE (a <= Len(s) /\ b > Len(s)) \/ (a > Len(s) /\ b <= Len(s))
    BY <2>1, <2>2, <2>5, <1>1
  <2> QED BY <2>3, <2>4, <2>5, <1>1
<1> QED BY <1>1, <1>2, <1>3
-----------------------------------------------------------------------------
(* Quotients and remainders. *)

\* Quotient and remainder of a division by 4.
LEMMA Split4 ==
    ASSUME NEW a \in Int
    PROVE  a = 4 * (a \div 4) + (a % 4) /\ a \div 4 \in Int /\ a % 4 \in 0..3
OBVIOUS

\* Quotient and remainder of a division by 16.
LEMMA Split16 ==
    ASSUME NEW a \in Int
    PROVE  a = 16 * (a \div 16) + (a % 16) /\ a \div 16 \in Int /\ a % 16 \in 0..15
OBVIOUS

\* Quotient and remainder of a division by 64.
LEMMA Split64 ==
    ASSUME NEW a \in Int
    PROVE  a = 64 * (a \div 64) + (a % 64) /\ a \div 64 \in Int /\ a % 64 \in 0..63
OBVIOUS

\* The larger quotient belongs to the larger number.
LEMMA LargerQuotient ==
    ASSUME NEW a \in Nat \ {0}, NEW q \in Int, NEW p \in Int,
           NEW r \in 0..(a - 1), NEW s \in 0..(a - 1),
           a * q + r = a * p + s
    PROVE  ~(q < p)
<1> SUFFICES ASSUME q < p PROVE FALSE
  OBVIOUS
<1>1. PICK d \in Nat : p = q + 1 + d
  BY p - q - 1 \in Nat /\ p = q + 1 + (p - q - 1)
<1>2. a * p = a * q + a + a * d
  BY <1>1
<1>3. a * d \in Nat /\ a * q \in Int /\ a * p \in Int
  OBVIOUS
<1> DEFINE x == a * d
           y == a * q
           z == a * p
<1>4. y + r = z + s /\ z = y + a + x /\ x \in Nat /\ y \in Int
  BY <1>2, <1>3
<1> HIDE DEF x, y, z
<1> QED BY <1>4

\* Division with remainder.
LEMMA Euclid ==
    ASSUME NEW a \in Nat \ {0}, NEW i \in Nat
    PROVE  i = a * (i \div a) + (i % a) /\ i \div a \in Nat /\ i % a \in 0..(a - 1)
OBVIOUS

\* The remainder does not change when the divisor is taken off.
LEMMA OneRoundLess ==
    ASSUME NEW a \in Nat \ {0}, NEW i \in Nat, a <= i
    PROVE  i % a = (i - a) % a
<1> DEFINE q == i \div a
           r == i % a
           p == (i - a) \div a
           s == (i - a) % a
<1>1. i = a * q + r /\ q \in Nat /\ r \in 0..(a - 1)
  BY Euclid
<1>2. i - a = a * p + s /\ p \in Nat /\ s \in 0..(a - 1)
  <2>1. i - a \in Nat
    OBVIOUS
  <2> QED BY <2>1, Euclid
<1> HIDE DEF q, r, p, s
<1>3. a * q + r = a * (p + 1) + s
  <2>1. a * (p + 1) = a * p + a
    BY <1>2
  <2> DEFINE x == a * q
             y == a * p
             z == a * (p + 1)
  <2>2. x \in Int /\ y \in Int /\ z \in Int
    BY <1>1, <1>2
  <2>3. i = x + r /\ i - a = y + s /\ z = y + a
    BY <1>1, <1>2, <2>1
  <2> HIDE DEF x, y, z
  <2>4. x + r = z + s
    BY <1>1, <1>2, <2>2, <2>3
  <2> QED BY <2>4 DEF x, z
<1>4. ~(q < p + 1) /\ ~(p + 1 < q)
  <2>1. p + 1 \in Int
    BY <1>2
  <2> QED BY <1>1, <1>2, <1>3, <2>1, LargerQuotient
<1>5. q = p + 1
  BY <1>1, <1>2, <1>4
<1>6. r = s
  <2> DEFINE x == a * q
  <2>1. x \in Int /\ x + r = x + s
    BY <1>1, <1>3, <1>5
  <2> HIDE DEF x
  <2> QED BY <1>1, <1>2, <2>1
<1> QED BY <1>6 DEF r, s

\* Numbers below the divisor are their own remainder.
LEMMA InRound ==
    ASSUME NEW a \in Nat \ {0}, NEW i \in Nat
    PROVE  i % a \in 0..(a - 1) /\ (i < a => i % a = i)
OBVIOUS

-----------------------------------------------------------------------------
(* Texts, their parts and their concatenation. *)

\* A function on the first numbers is a text.
LEMMA TextIs ==
    ASSUME NEW S, NEW n \in Nat, NEW f \in [1..n -> S]
    PROVE  f \in Seq(S) /\ Len(f) = n
BY ElementOfSeq, IsASeq

\* What is at the beginning of a text.
LEMMA FrontIs ==
    ASSUME NEW S, NEW w \in Seq(S), NEW n \in Nat, n <= Len(w)
    PROVE  SubSeq(w, 1, n) \in Seq(S) /\ Len(SubSeq(w, 1, n)) = n
BY SubSeqProperties

\* w has the characters of s and then those of t.
IsJoined(w, s, t) ==
    /\ Len(w) = Len(s) + Len(t)
    /\ \A i \in 1..Len(s) : w[i] = s[i]
    /\ \A i \in 1..Len(t) : w[Len(s) + i] = t[i]

\* A concatenation has the characters of its two parts.
LEMMA PartsOf ==
    ASSUME NEW S, NEW s \in Seq(S), NEW t \in Seq(S)
    PROVE  s \o t \in Seq(S) /\ IsJoined(s \o t, s, t)
<1>1. /\ s \o t \in Seq(S) /\ Len(s \o t) = Len(s) + Len(t)
      /\ Len(s) \in Nat /\ Len(t) \in Nat
      /\ \A i \in 1..Len(s) + Len(t) :
            (s \o t)[i] = IF i <= Len(s) THEN s[i] ELSE t[i - Len(s)]
  BY ConcatProperties, LenProperties
<1> DEFINE w == s \o t
           a == Len(s)
           b == Len(t)
<1> HIDE DEF w, a, b
<1>2. /\ a \in Nat /\ b \in Nat
      /\ \A i \in 1..a + b : w[i] = IF i <= a THEN s[i] ELSE t[i - a]
  BY <1>1 DEF w, a, b
<1>3. \A i \in 1..a : w[i] = s[i]
  BY <1>2
<1>4. \A i \in 1..b : w[a + i] = t[i]
  <2> TAKE i \in 1..b
  <2>1. a + i \in 1..a + b /\ ~(a + i <= a) /\ (a + i) - a = i
    BY <1>2
  <2> QED BY <1>2, <2>1
<1> QED BY <1>1, <1>3, <1>4 DEF IsJoined, w, a, b

\* A part of a text that has the characters of another text is that text.
LEMMA PartIs ==
    ASSUME NEW S, NEW w \in Seq(S), NEW t \in Seq(S), NEW k \in Nat,
           k + Len(t) <= Len(w), \A i \in 1..Len(t) : w[k + i] = t[i]
    PROVE  SubSeq(w, k + 1, k + Len(t)) = t
<1> DEFINE n == Len(t)
           u == SubSeq(w, k + 1, k + n)
<1>1. n \in Nat /\ Len(w) \in Nat /\ k + n <= Len(w)
  OBVIOUS
<1>2. \A i \in k + 1..k + n : w[i] \in S
  BY <1>1
<1>3. /\ u \in Seq(S) /\ Len(u) = (k + n) - (k + 1) + 1
      /\ \A i \in 1..(k + n) - (k + 1) + 1 : u[i] = w[(k + 1) + i - 1]
  <2>1. /\ k + 1 \in 1..Len(w) + 1 /\ k + n \in k..Len(w)
    BY <1>1
  <2> QED BY <1>1, <2>1, SubSeqProperties
<1> HIDE DEF u, n
<1>4. (k + n) - (k + 1) + 1 = n /\ \A i \in 1..n : (k + 1) + i - 1 = k + i
  BY <1>1
<1>5. Len(u) = n /\ \A i \in 1..n : u[i] = t[i]
  BY <1>3, <1>4 DEF n
<1> QED BY <1>3, <1>5, SeqEqual DEF n, u

\* From position d on, t has the characters of u.
From(t, d, u) == Len(t) = d + Len(u) /\ \A i \in 1..Len(u) : t[d + i] = u[i]

\* A part of u is a part of t.
LEMMA SamePart ==
    ASSUME NEW S, NEW t \in Seq(S), NEW u \in Seq(S), NEW d \in Nat, From(t, d, u),
           NEW lo \in Nat \ {0}, NEW hi \in Nat, hi <= Len(u)
    PROVE  SubSeq(t, d + lo, d + hi) = SubSeq(u, lo, hi)
<1>1. \A i \in lo..hi : i \in 1..Len(u)
  OBVIOUS
<1>2. \A i \in (d + lo)..(d + hi) : i \in 1..Len(t)
  BY DEF From
<1> DEFINE a == SubSeq(t, d + lo, d + hi)
           b == SubSeq(u, lo, hi)
           n == IF lo <= hi THEN hi - lo + 1 ELSE 0
<1>3. b \in Seq(S) /\ Len(b) = n /\ \A i \in 1..n : b[i] = u[lo + i - 1]
  <2>1. \A i \in lo..hi : u[i] \in S
    BY <1>1
  <2> QED BY <2>1, SubSeqProperties
<1>4. a \in Seq(S) /\ Len(a) = n /\ \A i \in 1..n : a[i] = t[(d + lo) + i - 1]
  <2>1. \A i \in (d + lo)..(d + hi) : t[i] \in S
    BY <1>2
  <2>2. d + lo \in Int /\ d + hi \in Int /\ (d + lo <= d + hi <=> lo <= hi)
        /\ (d + hi) - (d + lo) + 1 = hi - lo + 1
    OBVIOUS
  <2>3. /\ a \in Seq(S) /\ Len(a) = IF d + lo <= d + hi THEN (d + hi) - (d + lo) + 1 ELSE 0
        /\ \A i \in 1..((d + hi) - (d + lo) + 1) : a[i] = t[(d + lo) + i - 1]
    BY <2>1, <2>2, SubSeqProperties
  <2> QED BY <2>2, <2>3
<1> HIDE DEF a, b
<1>5. \A i \in 1..n : a[i] = b[i]
  <2> TAKE i \in 1..n
  <2>1. lo + i - 1 \in 1..Len(u) /\ d + (lo + i - 1) = (d + lo) + i - 1
    BY <1>1
  <2>2. t[d + (lo + i - 1)] = u[lo + i - 1]
    BY <2>1 DEF From
  <2> QED BY <1>3, <1>4, <2>1, <2>2
<1>6. a = b
  BY <1>3, <1>4, <1>5, SeqEqual
<1> QED BY <1>6 DEF a, b

\* Texts can be joined in either order.
LEMMA Regroup ==
    ASSUME NEW S, NEW s \in Seq(S), NEW t \in Seq(S), NEW u \in Seq(S)
    PROVE  s \o (t \o u) = (s \o t) \o u
BY ConcatAssociative
=============================================================================
