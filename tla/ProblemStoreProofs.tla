-------------------------- MODULE ProblemStoreProofs --------------------------
(* What ProblemStore promises, for every number of workers, problems, writes *)
(* and test cases in a suite, whether or not statements fail.                *)
EXTENDS ProblemStore, FunctionTheorems, FiniteSetTheorems, TLAPS

\* What TypeOK says of the tables and the tool ...
DataOK ==
    /\ problems \in [Ids -> Rows \cup {Absent}]
    /\ cases \in [Ids -> Seq(Case)]
    /\ nextId \in 1..(MaxIds + 1)
    /\ tool \in {"idle", "insert", "stuck"}
    /\ writes \in 0..MaxWrites
    /\ written \in [Ids -> [suite : Suites \cup {NoSuite}, missing : SUBSET (1..N)]]
    /\ disturbed \subseteq Ids

\* ... and of the workers.
Gots == [id : Ids \cup {0}, cases : Seq(Case)]
ClientsOK ==
    /\ at \in [Clients -> {"idle", "row", "clear", "insert", "select"}]
    /\ pos \in [Clients -> 1..N] /\ DOMAIN req = Clients
    /\ reply \in [Clients -> {"none", "ok", "notFound", "failed"}]
    /\ got \in [Clients -> Gots]

\* What a request is at its next statement.
RequestOK(c) ==
    /\ at[c] = "row" => req[c] \in Requests
    /\ at[c] \in {"clear", "insert"} =>
          req[c].op \in {"create", "update"} /\ req[c].suite \in Suites
    /\ at[c] = "select" => req[c].op = "read"
    /\ at[c] \notin {"idle", "row"} => req[c].id \in 1..(nextId - 1)

\* There is an id for every create that has begun.
Creating == {d \in Clients : at[d] = "row" /\ req[d].op = "create"}
RoomOK == nextId + Cardinality(Creating) <= MaxIds + 1

\* An id that was not given has no row, and without its row a problem has no test
\* cases: the cascade and the foreign key see to it.
RowsOK ==
    \A p \in Ids :
        /\ p >= nextId => problems[p] = Absent
        /\ problems[p] = Absent => cases[p] = <<>>

\* c is between two statements that write test cases of p.
Writes(c, p) == at[c] \in {"clear", "insert"} /\ req[c].id = p

OneSuite(rows) ==
    \A i, j \in DOMAIN rows : i < j => rows[i][1] = rows[j][1] /\ rows[i][2] < rows[j][2]

\* rows are the test cases of a suite at the places that are not missing.
Holds(rows, suite, missing, places) ==
    /\ Range(rows) = IF suite = NoSuite THEN {} ELSE {<<suite, i>> : i \in places \ missing}
    /\ InOrder(rows)

\* The test cases of a problem whose writers did not overlap: those of one suite, in
\* order; and those up to where the last writer has come, or all that it wrote.
CasesOK(p) ==
    /\ OneSuite(cases[p])
    /\ \A c, d \in Clients : Writes(c, p) /\ Writes(d, p) => c = d
    /\ problems[p] # Absent =>
          /\ (\A c \in Clients : ~Writes(c, p)) =>
                Holds(cases[p], written[p].suite, written[p].missing, 1..N)
          /\ \A c \in Clients : Writes(c, p) =>
                /\ written[p].suite = req[c].suite
                /\ at[c] = "clear" => written[p].missing = {}
                /\ at[c] = "insert" =>
                      /\ written[p].missing \subseteq 1..(pos[c] - 1)
                      /\ Holds(cases[p], written[p].suite, written[p].missing, 1..(pos[c] - 1))

GotOK(c) == got[c].id \in Ids \ disturbed => OneSuite(got[c].cases)

Typed == DataOK /\ ClientsOK /\ RoomOK /\ \A c \in Clients : RequestOK(c)

Inv ==
    /\ Typed
    /\ RowsOK
    /\ \A p \in Ids \ disturbed : CasesOK(p)
    /\ \A c \in Clients : GotOK(c)

LEMMA TypeFromParts == Typed => TypeOK
BY DEF Typed, TypeOK, DataOK, ClientsOK, RequestOK, Gots
-----------------------------------------------------------------------------
(* ORDER BY.                                                                *)

Below(rows, i) == {j \in DOMAIN rows : Before(rows, j, i)}

LEMMA CaseParts ==
    ASSUME NEW rows \in Seq(Case)
    PROVE  /\ Len(rows) \in Nat /\ DOMAIN rows = 1..Len(rows)
           /\ \A i \in DOMAIN rows : rows[i] \in Case /\ rows[i][1] \in Suites /\ rows[i][2] \in 1..N
BY SuiteAssumption DEF Case

LEMMA Initial ==
    ASSUME NEW n \in Nat
    PROVE  IsFiniteSet(1..n) /\ Cardinality(1..n) = n
<1>1. 1 \in Int /\ n \in Int
  OBVIOUS
<1>2. IsFiniteSet(1..n) /\ Cardinality(1..n) = IF 1 > n THEN 0 ELSE n - 1 + 1
  BY <1>1, FS_Interval
<1> QED BY <1>2

LEMMA BelowFinite ==
    ASSUME NEW rows \in Seq(Case), NEW i \in DOMAIN rows
    PROVE  /\ IsFiniteSet(Below(rows, i)) /\ Cardinality(Below(rows, i)) \in Nat
           /\ Rank(rows, i) = Cardinality(Below(rows, i)) + 1
           /\ Rank(rows, i) \in DOMAIN rows
<1>1. Len(rows) \in Nat /\ DOMAIN rows = 1..Len(rows) /\ i \in 1..Len(rows)
      /\ rows[i][2] \in 1..N
  BY CaseParts
<1>2. IsFiniteSet(DOMAIN rows) /\ Cardinality(DOMAIN rows) = Len(rows)
  <2>1. IsFiniteSet(1..Len(rows)) /\ Cardinality(1..Len(rows)) = Len(rows)
    BY <1>1, Initial
  <2> QED BY <1>1, <2>1
<1>3. Below(rows, i) \in SUBSET DOMAIN rows /\ i \notin Below(rows, i)
  <2>1. ~Before(rows, i, i)
    BY <1>1, SuiteAssumption DEF Before
  <2> QED BY <2>1 DEF Below
<1>4. IsFiniteSet(Below(rows, i)) /\ Cardinality(Below(rows, i)) <= Len(rows)
      /\ Cardinality(Below(rows, i)) # Len(rows)
  BY <1>2, <1>3, FS_Subset
<1>5. Cardinality(Below(rows, i)) \in Nat
  BY <1>4, FS_CardinalityType
<1>6. Rank(rows, i) = Cardinality(Below(rows, i)) + 1
  BY DEF Rank, Below
<1> QED BY <1>1, <1>4, <1>5, <1>6

\* Two rows have two places.
LEMMA RankInjective ==
    ASSUME NEW rows \in Seq(Case), NEW i \in DOMAIN rows, NEW j \in DOMAIN rows, Before(rows, i, j)
    PROVE  Rank(rows, i) # Rank(rows, j)
<1>1. DOMAIN rows \subseteq Nat /\ \A k \in DOMAIN rows : rows[k][2] \in Nat
  BY CaseParts, SuiteAssumption
<1>2. Below(rows, i) \subseteq Below(rows, j)
  BY <1>1 DEF Below, Before
<1>3. i \in Below(rows, j) /\ i \notin Below(rows, i)
  BY <1>1 DEF Below, Before
<1>4. Cardinality(Below(rows, i)) # Cardinality(Below(rows, j))
  BY <1>2, <1>3, BelowFinite, FS_Subset
<1>5. /\ Cardinality(Below(rows, i)) \in Nat /\ Rank(rows, i) = Cardinality(Below(rows, i)) + 1
      /\ Cardinality(Below(rows, j)) \in Nat /\ Rank(rows, j) = Cardinality(Below(rows, j)) + 1
  BY BelowFinite
<1> QED BY <1>4, <1>5

\* Every place has a row.
LEMMA RankSurjective ==
    ASSUME NEW rows \in Seq(Case), NEW k \in DOMAIN rows
    PROVE  \E i \in DOMAIN rows : Rank(rows, i) = k
<1> DEFINE D == DOMAIN rows
           f == [i \in D |-> Rank(rows, i)]
<1>1. f \in [D -> D]
  BY BelowFinite
<1>2. \A i, j \in D : f[i] = f[j] => i = j
  <2> SUFFICES ASSUME NEW i \in D, NEW j \in D, i # j PROVE f[i] # f[j]
    OBVIOUS
  <2>1. DOMAIN rows \subseteq Nat /\ rows[i][2] \in Nat /\ rows[j][2] \in Nat /\ i \in Nat /\ j \in Nat
    BY CaseParts, SuiteAssumption
  <2>2. Before(rows, i, j) \/ Before(rows, j, i)
    BY <2>1 DEF Before
  <2> QED BY <2>2, RankInjective
<1>3. f \in Injection(D, D)
  BY <1>1, <1>2 DEF Injection, IsInjective
<1>4. IsFiniteSet(D)
  BY CaseParts, FS_Interval
<1>5. f \in Surjection(D, D)
  BY <1>3, <1>4, FS_Injection
<1> QED BY <1>5 DEF Surjection

LEMMA ByPositionType ==
    ASSUME NEW rows \in Seq(Case)
    PROVE  ByPosition(rows) \in Seq(Case)
<1>1. Len(rows) \in Nat /\ DOMAIN rows = 1..Len(rows) /\ \A i \in DOMAIN rows : rows[i] \in Case
  BY CaseParts
<1>2. ASSUME NEW k \in DOMAIN rows
      PROVE  rows[CHOOSE i \in DOMAIN rows : Rank(rows, i) = k] \in Case
  BY <1>1, RankSurjective
<1> QED BY <1>1, <1>2 DEF ByPosition

\* Rows that are in order stay as they are.
LEMMA ByPositionInOrder ==
    ASSUME NEW rows \in Seq(Case), InOrder(rows)
    PROVE  ByPosition(rows) = rows
<1>1. /\ Len(rows) \in Nat /\ DOMAIN rows = 1..Len(rows)
      /\ \A i \in DOMAIN rows : rows[i][2] \in Nat
  BY CaseParts, SuiteAssumption
<1>2. ASSUME NEW i \in DOMAIN rows
      PROVE  Rank(rows, i) = i
  <2>1. Below(rows, i) = 1..(i - 1)
    <3>1. \A j \in DOMAIN rows : Before(rows, j, i) <=> j < i
      BY <1>1 DEF Before, InOrder
    <3> QED BY <1>1, <3>1 DEF Below
  <2>2. Cardinality(1..(i - 1)) = i - 1
    BY <1>1, FS_Interval
  <2> QED BY <1>1, <2>1, <2>2, BelowFinite
<1>3. \A k \in DOMAIN rows : (CHOOSE i \in DOMAIN rows : Rank(rows, i) = k) = k
  BY <1>2
<1>4. rows = [k \in DOMAIN rows |-> rows[k]]
  OBVIOUS
<1> QED BY <1>3, <1>4, Zenon DEF ByPosition
-----------------------------------------------------------------------------
(* A suite, case by case.                                                   *)

LEMMA NoCases ==
    ASSUME NEW suite, NEW places, NEW missing, suite = NoSuite \/ places \subseteq missing
    PROVE  /\ <<>> \in Seq(Case) /\ OneSuite(<<>>)
           /\ Holds(<<>>, suite, missing, places)
BY DEF OneSuite, Holds, InOrder, Range

LEMMA AppendCase ==
    ASSUME NEW rows \in Seq(Case), NEW suite \in Suites, NEW n \in 1..N,
           NEW missing \in SUBSET (1..(n - 1)), Holds(rows, suite, missing, 1..(n - 1))
    PROVE  LET more == Append(rows, <<suite, n>>)
           IN  more \in Seq(Case) /\ OneSuite(more) /\ Holds(more, suite, missing, 1..n)
<1> DEFINE more == Append(rows, <<suite, n>>)
           len == Len(rows)
<1>1. /\ len \in Nat /\ DOMAIN rows = 1..len /\ n \in Nat
      /\ \A i \in DOMAIN rows : rows[i] \in Case /\ rows[i][2] \in Nat
  BY CaseParts, SuiteAssumption
<1>2. <<suite, n>> \in Case /\ suite # NoSuite
  BY SuiteAssumption DEF Case
<1>3. /\ more \in Seq(Case) /\ DOMAIN more = 1..(len + 1) /\ more[len + 1] = <<suite, n>>
      /\ \A i \in 1..len : more[i] = rows[i]
  BY <1>1, <1>2
<1>4. Range(rows) = {<<suite, i>> : i \in (1..(n - 1)) \ missing}
  BY <1>2 DEF Holds
<1>5. \A i \in 1..len : rows[i][1] = suite /\ rows[i][2] < n
  BY <1>1, <1>4 DEF Range
<1>6. OneSuite(more) /\ InOrder(more)
  <2> SUFFICES ASSUME NEW i \in DOMAIN more, NEW j \in DOMAIN more, i < j
               PROVE  more[i][1] = more[j][1] /\ more[i][2] < more[j][2]
    BY DEF OneSuite, InOrder
  <2>1. i \in 1..len /\ more[i] = rows[i]
    BY <1>1, <1>3
  <2>2. CASE j = len + 1
    BY <1>3, <1>5, <2>1, <2>2
  <2>3. CASE j # len + 1
    <3>1. j \in 1..len /\ more[j] = rows[j] /\ i \in 1..len
      BY <1>1, <1>3, <2>1, <2>3
    <3> QED BY <1>1, <1>5, <2>1, <3>1 DEF Holds, InOrder
  <2> QED BY <2>2, <2>3
<1>7. Range(more) = {<<suite, i>> : i \in (1..n) \ missing}
  <2>1. Range(more) = Range(rows) \cup {<<suite, n>>}
    <3>1. \A x : x \in Range(more) <=> \E i \in 1..(len + 1) : x = more[i]
      BY <1>3 DEF Range
    <3>2. \A x : x \in Range(rows) <=> \E i \in 1..len : x = rows[i]
      BY <1>1 DEF Range
    <3>3. \A i : i \in 1..(len + 1) <=> i \in 1..len \/ i = len + 1
      BY <1>1
    <3> QED BY <1>3, <3>1, <3>2, <3>3
  <2>2. (1..n) \ missing = ((1..(n - 1)) \ missing) \cup {n}
    BY <1>1
  <2> QED BY <1>4, <2>1, <2>2
<1> QED BY <1>2, <1>3, <1>6, <1>7 DEF Holds

LEMMA SkipCase ==
    ASSUME NEW rows, NEW suite, NEW n \in 1..N,
           NEW missing \in SUBSET (1..(n - 1)), Holds(rows, suite, missing, 1..(n - 1))
    PROVE  /\ missing \cup {n} \in SUBSET (1..n)
           /\ Holds(rows, suite, missing \cup {n}, 1..n)
<1>1. (1..n) \ (missing \cup {n}) = (1..(n - 1)) \ missing
  BY SuiteAssumption
<1>2. missing \cup {n} \in SUBSET (1..n)
  BY SuiteAssumption
<1> QED BY <1>1, <1>2 DEF Holds
-----------------------------------------------------------------------------
(* Types, and what a step leaves alone.                                     *)

\* A step of c touches no other worker.
Others(c) ==
    \A d \in Clients \ {c} :
        at'[d] = at[d] /\ pos'[d] = pos[d] /\ req'[d] = req[d] /\ got'[d] = got[d]

LEMMA AnswerTyped ==
    ASSUME ClientsOK, NEW c \in Clients, NEW status \in {"ok", "notFound", "failed"},
           Answer(c, status), got' = got \/ \E g \in Gots : got' = [got EXCEPT ![c] = g]
    PROVE  ClientsOK' /\ Others(c) /\ at'[c] = "idle"
<1>1. got' \in [Clients -> Gots] /\ \A d \in Clients \ {c} : got'[d] = got[d]
  BY DEF ClientsOK
<1>2. 1 \in 1..N
  BY SuiteAssumption
<1> QED BY <1>1, <1>2 DEF ClientsOK, Answer, Others

LEMMA CreatingFinite == IsFiniteSet(Creating) /\ Cardinality(Creating) \in Nat
<1>1. Creating \in SUBSET Clients
  BY DEF Creating
<1> QED BY <1>1, BoundAssumption, FS_Subset, FS_CardinalityType

\* No create begins and no id is given.
LEMMA RoomFrame ==
    ASSUME Typed, Creating' \subseteq Creating, nextId' = nextId
    PROVE  RoomOK'
<1>1. Cardinality(Creating') \in Nat /\ Cardinality(Creating') <= Cardinality(Creating)
  BY CreatingFinite, FS_Subset, FS_CardinalityType
<1> QED BY <1>1, CreatingFinite, BoundAssumption DEF RoomOK, Typed, DataOK

\* The requests of the other workers.
LEMMA OtherRequests ==
    ASSUME Typed, NEW c \in Clients, Others(c), nextId' \in {nextId, nextId + 1}, RequestOK(c)'
    PROVE  \A d \in Clients : RequestOK(d)'
<1> SUFFICES ASSUME NEW d \in Clients, d # c PROVE RequestOK(d)'
  OBVIOUS
<1>1. at'[d] = at[d] /\ req'[d] = req[d]
  BY DEF Others
<1>2. nextId \in Int
  BY BoundAssumption DEF Typed, DataOK
<1>3. 1..(nextId - 1) \subseteq 1..(nextId' - 1)
  <2>1. nextId' = nextId \/ nextId' = nextId + 1
    OBVIOUS
  <2>2. \A i \in 1..(nextId - 1) : i \in 1..nextId
    BY <1>2
  <2>3. nextId' = nextId + 1 => 1..(nextId' - 1) = 1..nextId
    BY <1>2
  <2> QED BY <2>1, <2>2, <2>3
<1> QED BY <1>1, <1>3 DEF Typed, RequestOK

\* A worker that is done.
LEMMA IdleTyped ==
    ASSUME Typed, NEW c \in Clients, Others(c), at'[c] = "idle", ClientsOK', DataOK',
           nextId' = nextId
    PROVE  Typed'
<1>1. RequestOK(c)'
  BY DEF RequestOK
<1>2. Creating' \subseteq Creating
  BY DEF Creating, Others
<1> QED BY <1>1, <1>2, RoomFrame, OtherRequests DEF Typed

\* A worker that goes on to another statement on an old problem.
LEMMA GoesOnTyped ==
    ASSUME Typed, NEW c \in Clients, Others(c), at'[c] \in {"clear", "insert", "select"},
           ClientsOK', DataOK', nextId' = nextId, RequestOK(c)'
    PROVE  Typed'
<1>1. Creating' \subseteq Creating
  BY DEF Creating, Others
<1> QED BY <1>1, RoomFrame, OtherRequests DEF Typed

LEMMA RefuseTyped ==
    ASSUME Typed, NEW c \in Clients, Refuse(c)
    PROVE  Typed' /\ Others(c) /\ at'[c] = "idle"
<1>1. PICK status \in {"failed", "notFound"} : Answer(c, status)
  BY DEF Refuse
<1>2. ClientsOK' /\ Others(c) /\ at'[c] = "idle"
  BY <1>1, AnswerTyped DEF Refuse, Typed
<1>3. DataOK' /\ nextId' = nextId
  BY DEF Refuse, Typed, DataOK
<1> QED BY <1>2, <1>3, IdleTyped

LEMMA BeginTyped ==
    ASSUME Typed, NEW c \in Clients, NEW r \in Requests, Begin(c, r)
    PROVE  Typed' /\ Others(c) /\ at[c] = "idle" /\ at'[c] = "row"
<1>1. ClientsOK' /\ Others(c) /\ at'[c] = "row" /\ req'[c] = r
  BY DEF Typed, ClientsOK, Begin, Others
<1>2. writes' \in 0..MaxWrites
  BY BoundAssumption DEF Typed, DataOK, Begin
<1>3. DataOK'
  BY <1>2 DEF Typed, DataOK, Begin
<1>4. RequestOK(c)'
  BY <1>1 DEF RequestOK
<1>5. \A d \in Clients : RequestOK(d)'
  BY <1>1, <1>4, OtherRequests DEF Begin
<1>6. RoomOK'
  <2>1. CASE r.op = "create"
    <3>1. Creating' = Creating \cup {c} /\ c \notin Creating
      BY <1>1, <2>1 DEF Creating, Others, Begin
    <3>2. Cardinality(Creating') = Cardinality(Creating) + 1
      BY <3>1, CreatingFinite, FS_AddElement
    <3>3. nextId + Cardinality(Creating) \in Ids /\ nextId' = nextId
      BY <2>1 DEF Begin, IdsLeft, Creating
    <3> QED BY <3>2, <3>3, CreatingFinite, BoundAssumption DEF RoomOK, Ids, Typed, DataOK
  <2>2. CASE r.op # "create"
    <3>1. Creating' \subseteq Creating
      BY <1>1, <2>2 DEF Creating, Others
    <3> QED BY <3>1, RoomFrame DEF Begin
  <2> QED BY <2>1, <2>2
<1> QED BY <1>1, <1>3, <1>5, <1>6 DEF Typed, Begin

LEMMA InsertRowTyped ==
    ASSUME Typed, NEW c \in Clients, InsertRow(c)
    PROVE  /\ Typed' /\ Others(c) /\ nextId \in Ids /\ req[c].suite \in Suites \cup {NoSuite}
           /\ req[c].suite = NoSuite => at'[c] = "idle"
           /\ req[c].suite # NoSuite =>
                 /\ at'[c] = "insert" /\ pos'[c] = 1
                 /\ req'[c].id = nextId /\ req'[c].suite = req[c].suite
<1>1. /\ req[c] \in [op : {"create"}, id : {0}, row : Rows, suite : Suites \cup {NoSuite}]
      /\ req[c].row \in Rows /\ req[c].suite \in Suites \cup {NoSuite}
  BY DEF Typed, RequestOK, InsertRow, Requests
<1>2. c \in Creating
  BY DEF Creating, InsertRow
<1>3. nextId \in Ids /\ nextId' = nextId + 1
  <2>1. Cardinality(Creating) \in Nat /\ Cardinality(Creating) # 0
    BY <1>2, CreatingFinite, FS_EmptySet
  <2> QED BY <2>1, BoundAssumption DEF Typed, RoomOK, DataOK, Ids, InsertRow
<1>4. DataOK'
  <2>1. written' \in [Ids -> [suite : Suites \cup {NoSuite}, missing : SUBSET (1..N)]]
    BY <1>1, <1>3 DEF Typed, DataOK, InsertRow
  <2>2. nextId' \in 1..(MaxIds + 1)
    BY <1>3, BoundAssumption DEF Ids
  <2>3. problems' \in [Ids -> Rows \cup {Absent}]
    BY <1>1, <1>3 DEF Typed, DataOK, InsertRow
  <2> QED BY <2>1, <2>2, <2>3 DEF Typed, DataOK, InsertRow
<1>5. /\ ClientsOK' /\ Others(c)
      /\ req[c].suite = NoSuite => at'[c] = "idle"
      /\ req[c].suite # NoSuite =>
            /\ at'[c] = "insert" /\ pos'[c] = 1
            /\ req'[c].id = nextId /\ req'[c].suite = req[c].suite /\ req'[c].op = "create"
  <2>1. CASE req[c].suite = NoSuite
    <3>1. Answer(c, "ok") /\ got' = got
      BY <2>1 DEF InsertRow
    <3> QED BY <2>1, <3>1, AnswerTyped DEF Typed
  <2>2. CASE req[c].suite # NoSuite
    <3>1. ToLoop(c) /\ req' = [req EXCEPT ![c].id = nextId] /\ UNCHANGED <<reply, got>>
      BY <2>2 DEF InsertRow
    <3>2. 1 \in 1..N
      BY SuiteAssumption
    <3>3. DOMAIN req' = Clients /\ \A d \in Clients \ {c} : req'[d] = req[d]
      BY <3>1 DEF Typed, ClientsOK
    <3>4. req'[c] = [req[c] EXCEPT !.id = nextId]
      BY <3>1 DEF Typed, ClientsOK
    <3>5. req'[c].id = nextId /\ req'[c].suite = req[c].suite /\ req'[c].op = "create"
      BY <1>1, <3>4
    <3> QED BY <2>2, <3>1, <3>2, <3>3, <3>5 DEF Typed, ClientsOK, ToLoop, Others
  <2> QED BY <2>1, <2>2
<1>6. RequestOK(c)'
  <2>1. nextId \in 1..(nextId' - 1)
    BY <1>3, BoundAssumption DEF Ids
  <2> QED BY <1>1, <1>5, <2>1 DEF RequestOK
<1>7. RoomOK'
  <2>1. at'[c] # "row"
    BY <1>5
  <2>2. Creating' = Creating \ {c}
    BY <1>5, <2>1 DEF Creating, Others
  <2>3. Cardinality(Creating') = Cardinality(Creating) - 1
    BY <1>2, <2>2, CreatingFinite, FS_RemoveElement
  <2> QED BY <1>3, <2>3, CreatingFinite, BoundAssumption DEF Typed, RoomOK, Ids
<1> QED BY <1>1, <1>3, <1>4, <1>5, <1>6, <1>7, OtherRequests DEF Typed

\* A row that is there has an id that was given.
LEMMA GivenId ==
    ASSUME Typed, RowsOK, NEW p \in Ids, problems[p] # Absent
    PROVE  p \in 1..(nextId - 1)
BY BoundAssumption DEF Typed, DataOK, RowsOK, Ids

LEMMA UpdateRowTyped ==
    ASSUME Typed, RowsOK, NEW c \in Clients, UpdateRow(c)
    PROVE  /\ Typed' /\ Others(c) /\ req[c].id \in Ids /\ problems[req[c].id] # Absent
           /\ req[c].row # Absent
           /\ \/ at'[c] = "idle" /\ written' = written /\ disturbed' = disturbed
              \/ /\ at'[c] = "clear" /\ req' = req /\ req[c].suite \in Suites
                 /\ written' = [written EXCEPT ![req[c].id] =
                                  [suite |-> req[c].suite, missing |-> {}]]
                 /\ disturbed' = IF Writing(req[c].id) = {} THEN disturbed
                                 ELSE disturbed \cup {req[c].id}
<1> DEFINE p == req[c].id
<1>1. /\ req[c].row \in Rows /\ p \in Ids /\ req[c].suite \in Suites \cup {NoSuite}
      /\ req[c].op = "update" /\ at[c] = "row"
  BY DEF Typed, RequestOK, UpdateRow, Requests
<1>2. problems[p] # Absent /\ p \in 1..(nextId - 1)
  BY <1>1, GivenId DEF UpdateRow
<1>3. problems' \in [Ids -> Rows \cup {Absent}]
  BY <1>1 DEF Typed, DataOK, UpdateRow
<1>4. CASE req[c].suite = NoSuite
  <2>1. Answer(c, "ok") /\ written' = written /\ disturbed' = disturbed /\ got' = got
    BY <1>4, SuiteAssumption DEF UpdateRow
  <2>2. ClientsOK' /\ Others(c) /\ at'[c] = "idle"
    BY <2>1, AnswerTyped DEF Typed
  <2>3. DataOK' /\ nextId' = nextId
    BY <1>3, <2>1 DEF Typed, DataOK, UpdateRow
  <2> QED BY <1>1, <1>2, <2>1, <2>2, <2>3, IdleTyped, RowsAssumption
<1>5. CASE req[c].suite # NoSuite
  <2>1. /\ at' = [at EXCEPT ![c] = "clear"]
        /\ written' = [written EXCEPT ![p] = [suite |-> req[c].suite, missing |-> {}]]
        /\ disturbed' = IF Writing(p) = {} THEN disturbed ELSE disturbed \cup {p}
        /\ pos' = pos /\ req' = req /\ reply' = reply /\ got' = got
    BY <1>5 DEF UpdateRow
  <2>2. ClientsOK' /\ Others(c) /\ at'[c] = "clear"
    BY <2>1 DEF Typed, ClientsOK, Others
  <2>3. written' \in [Ids -> [suite : Suites \cup {NoSuite}, missing : SUBSET (1..N)]]
    BY <1>1, <2>1 DEF Typed, DataOK
  <2>4. DataOK' /\ nextId' = nextId
    BY <1>1, <1>3, <2>1, <2>3 DEF Typed, DataOK, UpdateRow
  <2>5. RequestOK(c)'
    BY <1>1, <1>2, <1>5, <2>1, <2>2, <2>4 DEF RequestOK
  <2>6. Typed'
    BY <2>2, <2>4, <2>5, GoesOnTyped
  <2> QED BY <1>1, <1>2, <1>5, <2>1, <2>2, <2>6, RowsAssumption
<1> QED BY <1>4, <1>5

LEMMA DeleteRowTyped ==
    ASSUME Typed, NEW c \in Clients, DeleteRow(c)
    PROVE  Typed' /\ Others(c) /\ at'[c] = "idle"
<1>1. PICK status \in {"ok", "notFound"} : Answer(c, status)
  BY DEF DeleteRow
<1>2. ClientsOK' /\ Others(c) /\ at'[c] = "idle"
  BY <1>1, AnswerTyped DEF DeleteRow, Typed
<1>3. <<>> \in Seq(Case)
  OBVIOUS
<1>4. DataOK' /\ nextId' = nextId
  BY <1>3 DEF DeleteRow, Typed, DataOK
<1> QED BY <1>2, <1>4, IdleTyped

LEMMA ClearTyped ==
    ASSUME Typed, NEW c \in Clients, ClearCases(c) \/ ClearFails(c)
    PROVE  /\ Typed' /\ Others(c) /\ req[c].id \in Ids /\ req[c].suite \in Suites
           /\ at[c] = "clear" /\ at'[c] = "insert" /\ pos'[c] = 1 /\ req' = req
<1>1. /\ at[c] = "clear" /\ ToLoop(c) /\ req' = req /\ reply' = reply /\ got' = got
      /\ nextId' = nextId
  BY DEF ClearCases, ClearFails
<1>2. 1 \in 1..N
  BY SuiteAssumption
<1>3. ClientsOK' /\ Others(c) /\ at'[c] = "insert" /\ pos'[c] = 1
  BY <1>1, <1>2 DEF Typed, ClientsOK, ToLoop, Others
<1>4. req[c].id \in 1..(nextId - 1) /\ req[c].id \in Ids /\ req[c].suite \in Suites
  BY <1>1, BoundAssumption DEF Typed, RequestOK, DataOK, Ids
<1>5. <<>> \in Seq(Case)
  OBVIOUS
<1>6. DataOK'
  BY <1>4, <1>5 DEF ClearCases, ClearFails, Typed, DataOK
<1>7. RequestOK(c)'
  BY <1>1, <1>3 DEF Typed, RequestOK
<1> QED BY <1>1, <1>3, <1>4, <1>6, <1>7, GoesOnTyped

\* The case at place n is over: c goes on to the next place, or it was the last.
LEMMA AfterTyped ==
    ASSUME Typed, NEW c \in Clients, at[c] = "insert", After(c, pos[c]), got' = got,
           nextId' = nextId, DataOK'
    PROVE  /\ Typed' /\ Others(c)
           /\ \/ pos[c] = N /\ at'[c] = "idle"
              \/ /\ at'[c] = "insert" /\ pos'[c] = pos[c] + 1 /\ req' = req
<1>1. CASE pos[c] = N
  <2>1. ClientsOK' /\ Others(c) /\ at'[c] = "idle"
    BY <1>1, AnswerTyped DEF After, Typed
  <2> QED BY <1>1, <2>1, IdleTyped
<1>2. CASE pos[c] # N
  <2>1. /\ pos' = [pos EXCEPT ![c] = pos[c] + 1]
        /\ at' = at /\ req' = req /\ reply' = reply
    BY <1>2 DEF After
  <2>2. pos[c] + 1 \in 1..N
    BY <1>2, SuiteAssumption DEF Typed, ClientsOK
  <2>3. ClientsOK' /\ Others(c) /\ at'[c] = "insert" /\ pos'[c] = pos[c] + 1
    BY <2>1, <2>2 DEF Typed, ClientsOK, Others
  <2>4. RequestOK(c)'
    BY <2>1 DEF Typed, RequestOK
  <2> QED BY <2>1, <2>3, <2>4, GoesOnTyped
<1> QED BY <1>1, <1>2

LEMMA InsertCaseTyped ==
    ASSUME Typed, NEW c \in Clients, InsertCase(c) \/ InsertCaseFails(c)
    PROVE  /\ Typed' /\ Others(c) /\ req[c].id \in Ids /\ req[c].suite \in Suites
           /\ at[c] = "insert" /\ pos[c] \in 1..N
           /\ \/ pos[c] = N /\ at'[c] = "idle"
              \/ /\ at'[c] = "insert" /\ pos'[c] = pos[c] + 1 /\ req' = req
<1>1. /\ at[c] = "insert" /\ After(c, pos[c]) /\ got' = got /\ nextId' = nextId
  BY DEF InsertCase, InsertCaseFails
<1>2. /\ req[c].id \in Ids /\ req[c].suite \in Suites /\ pos[c] \in 1..N
  <2>1. req[c].id \in 1..(nextId - 1) /\ req[c].suite \in Suites /\ pos[c] \in 1..N
    BY <1>1 DEF Typed, RequestOK, ClientsOK
  <2>2. nextId \in 1..(MaxIds + 1)
    BY DEF Typed, DataOK
  <2> QED BY <2>1, <2>2, BoundAssumption DEF Ids
<1>3. DataOK'
  <2>1. CASE InsertCase(c)
    <3>1. <<req[c].suite, pos[c]>> \in Case
      BY <1>2 DEF Case
    <3>2. cases[req[c].id] \in Seq(Case)
      BY <1>2 DEF Typed, DataOK
    <3>3. Append(cases[req[c].id], <<req[c].suite, pos[c]>>) \in Seq(Case)
      BY <3>1, <3>2
    <3> QED BY <1>2, <2>1, <3>3 DEF InsertCase, Typed, DataOK
  <2>2. CASE InsertCaseFails(c)
    <3>1. written[req[c].id] \in [suite : Suites \cup {NoSuite}, missing : SUBSET (1..N)]
      BY <1>2 DEF Typed, DataOK
    <3>2. written[req[c].id].missing \cup {pos[c]} \in SUBSET (1..N)
      BY <1>2, <3>1
    <3>3. written' \in [Ids -> [suite : Suites \cup {NoSuite}, missing : SUBSET (1..N)]]
      BY <1>2, <2>2, <3>1, <3>2 DEF InsertCaseFails, Typed, DataOK
    <3> QED BY <2>2, <3>3 DEF InsertCaseFails, Typed, DataOK
  <2> QED BY <2>1, <2>2
<1> QED BY <1>1, <1>2, <1>3, AfterTyped

LEMMA SelectRowTyped ==
    ASSUME Typed, RowsOK, NEW c \in Clients, SelectRow(c)
    PROVE  Typed' /\ Others(c) /\ at'[c] = "select"
<1>1. req[c].id \in Ids /\ req[c].id \in 1..(nextId - 1)
  BY GivenId DEF Typed, RequestOK, SelectRow, Requests
<1>2. ClientsOK' /\ Others(c) /\ at'[c] = "select"
  BY DEF Typed, ClientsOK, SelectRow, Others
<1>3. DataOK' /\ nextId' = nextId
  BY DEF Typed, DataOK, SelectRow
<1>4. RequestOK(c)'
  BY <1>1, <1>2 DEF RequestOK, SelectRow
<1> QED BY <1>2, <1>3, <1>4, GoesOnTyped

LEMMA SelectCasesTyped ==
    ASSUME Typed, NEW c \in Clients, SelectCases(c) \/ SelectCasesFails(c)
    PROVE  /\ Typed' /\ Others(c) /\ at'[c] = "idle" /\ req[c].id \in Ids
           /\ got'[c].id = req[c].id
           /\ got'[c].cases \in {ByPosition(cases[req[c].id]), <<>>}
<1>1. req[c].id \in Ids
  BY BoundAssumption DEF Typed, RequestOK, DataOK, SelectCases, SelectCasesFails, Ids
<1>2. ByPosition(cases[req[c].id]) \in Seq(Case) /\ <<>> \in Seq(Case)
  BY <1>1, ByPositionType DEF Typed, DataOK
<1>3. PICK rows \in {ByPosition(cases[req[c].id]), <<>>} :
        got' = [got EXCEPT ![c] = [id |-> req[c].id, cases |-> rows]]
  BY DEF SelectCases, SelectCasesFails
<1>4. [id |-> req[c].id, cases |-> rows] \in Gots
  BY <1>1, <1>2 DEF Gots
<1>5. Answer(c, "ok")
  BY DEF SelectCases, SelectCasesFails
<1>6. ClientsOK' /\ Others(c) /\ at'[c] = "idle"
  BY <1>3, <1>4, <1>5, AnswerTyped DEF Typed
<1>7. DataOK' /\ nextId' = nextId
  BY DEF SelectCases, SelectCasesFails, Typed, DataOK
<1>8. got'[c] = [id |-> req[c].id, cases |-> rows]
  BY <1>3 DEF Typed, ClientsOK
<1> QED BY <1>1, <1>3, <1>6, <1>7, <1>8, IdleTyped

LEMMA ToolTyped ==
    ASSUME Typed, Tool
    PROVE  Typed' /\ UNCHANGED <<at, pos, req, got>>
<1>1. UNCHANGED <<at, pos, req, reply, got>>
  BY DEF Tool, CleanProblems, InsertStandard, InsertStandardFails
<1>2. ClientsOK' /\ Creating' = Creating
  BY <1>1 DEF Typed, ClientsOK, Creating
<1>3. CASE CleanProblems \/ InsertStandardFails
  <2>1. <<>> \in Seq(Case) /\ nextId' = nextId
    BY <1>3 DEF CleanProblems, InsertStandardFails
  <2>2. DataOK'
    BY <1>3, <2>1 DEF Typed, DataOK, CleanProblems, InsertStandardFails
  <2>3. \A c \in Clients : RequestOK(c)'
    BY <1>1, <2>1 DEF Typed, RequestOK
  <2> QED BY <1>1, <1>2, <2>1, <2>2, <2>3, RoomFrame DEF Typed
<1>4. CASE InsertStandard
  <2>1. nextId + Cardinality(Creating) \in Ids /\ nextId' = nextId + 1
    BY <1>4 DEF InsertStandard, IdsLeft, Creating
  <2>2. nextId \in Ids /\ nextId' \in 1..(MaxIds + 1) /\ RoomOK'
    BY <1>2, <2>1, CreatingFinite, BoundAssumption DEF Typed, DataOK, Ids, RoomOK
  <2>3. [suite |-> NoSuite, missing |-> {}] \in [suite : Suites \cup {NoSuite}, missing : SUBSET (1..N)]
    OBVIOUS
  <2>4. DataOK'
    BY <1>4, <2>2, <2>3 DEF Typed, DataOK, InsertStandard
  <2>5. 1..(nextId - 1) \subseteq 1..(nextId' - 1)
    BY <2>1, <2>2, BoundAssumption DEF Ids
  <2>6. \A c \in Clients : RequestOK(c)'
    BY <1>1, <2>5 DEF Typed, RequestOK
  <2> QED BY <1>1, <1>2, <2>2, <2>4, <2>6 DEF Typed
<1> QED BY <1>3, <1>4 DEF Tool
-----------------------------------------------------------------------------
(* The problems a step does not touch.                                      *)

LEMMA CasesFrame ==
    ASSUME NEW p \in Ids, CasesOK(p), cases'[p] = cases[p], written'[p] = written[p],
           problems'[p] # Absent => problems[p] # Absent,
           \A d \in Clients : Writes(d, p) \/ Writes(d, p)' =>
               at'[d] = at[d] /\ pos'[d] = pos[d] /\ req'[d] = req[d]
    PROVE  CasesOK(p)'
<1>1. \A d \in Clients : Writes(d, p)' <=> Writes(d, p)
  BY DEF Writes
<1>2. OneSuite(cases[p])' /\ \A d, e \in Clients : Writes(d, p)' /\ Writes(e, p)' => d = e
  BY <1>1 DEF CasesOK, OneSuite
<1>3. ASSUME problems'[p] # Absent, \A d \in Clients : ~Writes(d, p)'
      PROVE  Holds(cases[p], written[p].suite, written[p].missing, 1..N)'
  BY <1>1, <1>3 DEF CasesOK, Holds, InOrder, Range
<1>4. ASSUME problems'[p] # Absent, NEW d \in Clients, Writes(d, p)'
      PROVE  /\ written'[p].suite = req'[d].suite
             /\ at'[d] = "clear" => written'[p].missing = {}
             /\ at'[d] = "insert" =>
                   /\ written'[p].missing \subseteq 1..(pos'[d] - 1)
                   /\ Holds(cases[p], written[p].suite, written[p].missing, 1..(pos[d] - 1))'
  BY <1>1, <1>4 DEF CasesOK, Holds, InOrder, Range
<1> QED BY <1>2, <1>3, <1>4 DEF CasesOK

\* A problem that c does not write, in a step of c.
LEMMA CasesOfOthers ==
    ASSUME NEW c \in Clients, Others(c), NEW p \in Ids, CasesOK(p), cases'[p] = cases[p],
           written'[p] = written[p], problems'[p] # Absent => problems[p] # Absent,
           ~Writes(c, p), ~Writes(c, p)'
    PROVE  CasesOK(p)'
BY CasesFrame DEF Others

\* A problem without a row.
LEMMA CasesOfNone ==
    ASSUME NEW p \in Ids, problems'[p] = Absent, cases'[p] = <<>>,
           \A c, d \in Clients : Writes(c, p)' /\ Writes(d, p)' => c = d
    PROVE  CasesOK(p)'
BY DEF CasesOK, OneSuite

LEMMA GotFrame ==
    ASSUME NEW c \in Clients, GotOK(c), got'[c] = got[c], disturbed \subseteq disturbed'
    PROVE  GotOK(c)'
BY DEF GotOK, OneSuite

Rest == RowsOK /\ (\A p \in Ids \ disturbed : CasesOK(p)) /\ (\A c \in Clients : GotOK(c))

\* A step of c between requests, or of a read.
LEMMA QuietStep ==
    ASSUME Inv, NEW c \in Clients, Others(c), got'[c] = got[c],
           at[c] \in {"idle", "row", "select"}, at'[c] \in {"idle", "row", "select"},
           UNCHANGED <<problems, cases, nextId, written, disturbed>>
    PROVE  Rest'
<1>1. RowsOK'
  BY DEF Inv, RowsOK
<1>2. \A p \in Ids \ disturbed' : CasesOK(p)'
  BY CasesOfOthers DEF Inv, Writes
<1>3. \A d \in Clients : GotOK(d)'
  BY GotFrame DEF Inv, Others
<1> QED BY <1>1, <1>2, <1>3 DEF Rest

LEMMA SelectCasesStep ==
    ASSUME Inv, NEW c \in Clients, SelectCases(c) \/ SelectCasesFails(c)
    PROVE  Rest'
<1>1. /\ Others(c) /\ at'[c] = "idle" /\ req[c].id \in Ids
      /\ got'[c].id = req[c].id
      /\ got'[c].cases \in {ByPosition(cases[req[c].id]), <<>>}
  BY SelectCasesTyped DEF Inv
<1>2. at[c] = "select" /\ UNCHANGED <<problems, cases, nextId, written, disturbed>>
  BY DEF SelectCases, SelectCasesFails
<1>3. RowsOK'
  BY <1>2 DEF Inv, RowsOK
<1>4. \A p \in Ids \ disturbed' : CasesOK(p)'
  BY <1>1, <1>2, CasesOfOthers DEF Inv, Writes
<1>5. ASSUME NEW d \in Clients
      PROVE  GotOK(d)'
  <2>1. CASE d # c
    BY <1>1, <1>2, <2>1, GotFrame DEF Inv, Others
  <2>2. CASE d = c /\ req[c].id \notin disturbed
    <3>1. OneSuite(cases[req[c].id]) /\ cases[req[c].id] \in Seq(Case)
      BY <1>1, <2>2 DEF Inv, CasesOK, Typed, DataOK
    <3>2. ByPosition(cases[req[c].id]) = cases[req[c].id]
      BY <3>1, ByPositionInOrder DEF OneSuite, InOrder
    <3>3. OneSuite(<<>>)
      BY DEF OneSuite
    <3>4. OneSuite(got'[c].cases)
      BY <1>1, <3>1, <3>2, <3>3
    <3> QED BY <2>2, <3>4 DEF GotOK, OneSuite
  <2>3. CASE d = c /\ req[c].id \in disturbed
    BY <1>1, <1>2, <2>3 DEF GotOK
  <2> QED BY <2>1, <2>2, <2>3
<1> QED BY <1>3, <1>4, <1>5 DEF Rest

LEMMA InsertRowStep ==
    ASSUME Inv, NEW c \in Clients, InsertRow(c)
    PROVE  Rest'
<1>1. /\ Typed' /\ Others(c) /\ nextId \in Ids /\ req[c].suite \in Suites \cup {NoSuite}
      /\ req[c].suite = NoSuite => at'[c] = "idle"
      /\ req[c].suite # NoSuite =>
            /\ at'[c] = "insert" /\ pos'[c] = 1
            /\ req'[c].id = nextId /\ req'[c].suite = req[c].suite
  BY InsertRowTyped DEF Inv
<1>2. /\ at[c] = "row" /\ nextId' = nextId + 1 /\ cases' = cases /\ disturbed' = disturbed
      /\ got' = got /\ problems' = [problems EXCEPT ![nextId] = req[c].row]
      /\ written' = [written EXCEPT ![nextId] = [suite |-> req[c].suite, missing |-> {}]]
  BY DEF InsertRow
<1>3. /\ cases[nextId] = <<>> /\ nextId \in Int /\ Ids \subseteq Int
      /\ problems' \in [Ids -> Rows \cup {Absent}]
      /\ written'[nextId] = [suite |-> req[c].suite, missing |-> {}]
      /\ \A p \in Ids \ {nextId} : problems'[p] = problems[p] /\ written'[p] = written[p]
  BY <1>1, <1>2, BoundAssumption DEF Inv, RowsOK, Typed, DataOK, Ids
<1>4. RowsOK'
  BY <1>2, <1>3 DEF Inv, RowsOK
<1>5. \A d \in Clients : ~Writes(d, nextId)
  BY <1>3 DEF Inv, Typed, RequestOK, Writes
<1>6. ASSUME NEW p \in Ids \ disturbed', p # nextId
      PROVE  CasesOK(p)'
  <2>1. ~Writes(c, p) /\ ~Writes(c, p)'
    BY <1>1, <1>2, <1>6 DEF Writes
  <2> QED BY <1>1, <1>2, <1>3, <1>6, <2>1, CasesOfOthers DEF Inv
<1>7. ASSUME NEW p \in Ids, p = nextId
      PROVE  CasesOK(p)'
  <2>1. \A d \in Clients : at'[d] \in {"clear", "insert"} /\ req'[d].id = p => d = c
    BY <1>1, <1>5, <1>7 DEF Others, Writes
  <2>2. /\ cases'[p] = <<>> /\ written'[p].suite = req[c].suite /\ written'[p].missing = {}
    BY <1>2, <1>3, <1>7
  <2>3. OneSuite(<<>>) /\ \A places : req[c].suite = NoSuite \/ places = {} =>
                             Holds(<<>>, req[c].suite, {}, places)
    BY NoCases
  <2>4. CASE req[c].suite = NoSuite
    <3>1. \A d \in Clients : ~(at'[d] \in {"clear", "insert"} /\ req'[d].id = p)
      BY <1>1, <2>1, <2>4
    <3>2. Holds(<<>>, req[c].suite, {}, 1..N)
      BY <2>3, <2>4
    <3> QED BY <2>2, <2>3, <3>1, <3>2 DEF CasesOK, Writes
  <2>5. CASE req[c].suite # NoSuite
    <3>1. 1..(pos'[c] - 1) = {}
      BY <1>1, <2>5
    <3>2. Holds(<<>>, req[c].suite, {}, 1..(pos'[c] - 1))
      BY <2>3, <3>1
    <3>3. at'[c] = "insert" /\ req'[c].id = p /\ req'[c].suite = req[c].suite
      BY <1>1, <1>7, <2>5
    <3> QED BY <2>1, <2>2, <2>3, <3>2, <3>3 DEF CasesOK, Writes
  <2> QED BY <2>4, <2>5
<1>8. \A d \in Clients : GotOK(d)'
  BY <1>2, GotFrame DEF Inv
<1> QED BY <1>4, <1>6, <1>7, <1>8 DEF Rest

LEMMA WritingIsWrites ==
    ASSUME Typed, NEW p
    PROVE  Writing(p) = {d \in Clients : Writes(d, p)}
BY DEF Typed, RequestOK, Writing, Writes

LEMMA UpdateRowStep ==
    ASSUME Inv, NEW c \in Clients, UpdateRow(c)
    PROVE  Rest'
<1> DEFINE q == req[c].id
<1>1. /\ Typed' /\ Others(c) /\ q \in Ids /\ problems[q] # Absent /\ req[c].row # Absent
      /\ \/ at'[c] = "idle" /\ written' = written /\ disturbed' = disturbed
         \/ /\ at'[c] = "clear" /\ req' = req /\ req[c].suite \in Suites
            /\ written' = [written EXCEPT ![q] = [suite |-> req[c].suite, missing |-> {}]]
            /\ disturbed' = IF Writing(q) = {} THEN disturbed ELSE disturbed \cup {q}
  BY UpdateRowTyped DEF Inv
<1>2. /\ at[c] = "row" /\ nextId' = nextId /\ cases' = cases /\ got' = got
      /\ problems' = [problems EXCEPT ![q] = req[c].row] /\ disturbed \subseteq disturbed'
  BY <1>1 DEF UpdateRow
<1>3. /\ problems' \in [Ids -> Rows \cup {Absent}]
      /\ \A p \in Ids : problems'[p] = Absent <=> problems[p] = Absent
      /\ \A p \in Ids \ {q} : written'[p] = written[p]
  BY <1>1, <1>2 DEF Inv, Typed, DataOK
<1>4. RowsOK'
  BY <1>2, <1>3 DEF Inv, RowsOK
<1>5. ASSUME NEW p \in Ids \ disturbed', p # q \/ at'[c] = "idle"
      PROVE  CasesOK(p)'
  <2>1. ~Writes(c, p) /\ ~Writes(c, p)'
    BY <1>1, <1>2, <1>5 DEF Writes
  <2>2. written'[p] = written[p]
    BY <1>1, <1>3, <1>5
  <2> QED BY <1>1, <1>2, <1>3, <2>1, <2>2, CasesOfOthers DEF Inv
<1>6. ASSUME NEW p \in Ids \ disturbed', p = q, at'[c] # "idle"
      PROVE  CasesOK(p)'
  <2>1. /\ at'[c] = "clear" /\ req' = req /\ Writing(p) = {}
        /\ written'[p] = [suite |-> req[c].suite, missing |-> {}]
    BY <1>1, <1>6 DEF Inv, Typed, DataOK
  <2>2. \A d \in Clients : ~Writes(d, p)
    BY <2>1, WritingIsWrites DEF Inv
  <2>3. \A d \in Clients : at'[d] \in {"clear", "insert"} /\ req'[d].id = p <=> d = c
    BY <1>1, <1>6, <2>1, <2>2 DEF Others, Writes
  <2>4. OneSuite(cases'[p])
    BY <1>2, <1>6 DEF Inv, CasesOK
  <2>5. written'[p].suite = req'[c].suite /\ written'[p].missing = {}
    BY <2>1
  <2> QED BY <2>1, <2>3, <2>4, <2>5 DEF CasesOK, Writes
<1>7. \A d \in Clients : GotOK(d)'
  BY <1>2, GotFrame DEF Inv
<1> QED BY <1>4, <1>5, <1>6, <1>7 DEF Rest

LEMMA DeleteRowStep ==
    ASSUME Inv, NEW c \in Clients, DeleteRow(c)
    PROVE  Rest'
<1> DEFINE q == req[c].id
<1>1. Others(c) /\ at'[c] = "idle"
  BY DeleteRowTyped DEF Inv
<1>2. /\ at[c] = "row" /\ nextId' = nextId /\ got' = got
      /\ written' = written /\ disturbed' = disturbed
      /\ problems' = [problems EXCEPT ![q] = Absent] /\ cases' = [cases EXCEPT ![q] = <<>>]
  BY DEF DeleteRow
<1>3. \A p \in Ids : \/ p # q /\ problems'[p] = problems[p] /\ cases'[p] = cases[p]
                     \/ p = q /\ problems'[p] = Absent /\ cases'[p] = <<>>
  BY <1>2 DEF Inv, Typed, DataOK
<1>4. RowsOK'
  BY <1>2, <1>3 DEF Inv, RowsOK
<1>5. \A p \in Ids : ~Writes(c, p) /\ ~Writes(c, p)'
  BY <1>1, <1>2 DEF Writes
<1>6. ASSUME NEW p \in Ids \ disturbed'
      PROVE  CasesOK(p)'
  <2>1. CASE p # q
    BY <1>1, <1>2, <1>3, <1>5, <2>1, CasesOfOthers DEF Inv
  <2>2. CASE p = q
    <3>1. \A d, e \in Clients : Writes(d, p)' /\ Writes(e, p)' => d = e
      BY <1>1, <1>2, <1>5 DEF Inv, CasesOK, Writes, Others
    <3> QED BY <1>3, <2>2, <3>1, CasesOfNone
  <2> QED BY <2>1, <2>2
<1>7. \A d \in Clients : GotOK(d)'
  BY <1>2, GotFrame DEF Inv
<1> QED BY <1>4, <1>6, <1>7 DEF Rest

LEMMA ClearStep ==
    ASSUME Inv, NEW c \in Clients, ClearCases(c) \/ ClearFails(c)
    PROVE  Rest'
<1> DEFINE q == req[c].id
<1>1. /\ Others(c) /\ q \in Ids /\ req[c].suite \in Suites
      /\ at[c] = "clear" /\ at'[c] = "insert" /\ pos'[c] = 1 /\ req' = req
  BY ClearTyped DEF Inv
<1>2. /\ nextId' = nextId /\ got' = got /\ problems' = problems /\ written' = written
      /\ \/ cases' = [cases EXCEPT ![q] = <<>>] /\ disturbed' = disturbed
         \/ cases' = cases /\ disturbed' = disturbed \cup {q}
  BY DEF ClearCases, ClearFails
<1>3. /\ \A p \in Ids \ {q} : cases'[p] = cases[p]
      /\ cases'[q] = <<>> \/ (cases' = cases /\ q \in disturbed')
      /\ disturbed \subseteq disturbed'
  BY <1>1, <1>2 DEF Inv, Typed, DataOK
<1>4. RowsOK'
  BY <1>2, <1>3 DEF Inv, RowsOK
<1>5. ASSUME NEW p \in Ids \ disturbed', p # q
      PROVE  CasesOK(p)'
  <2>1. ~Writes(c, p) /\ ~Writes(c, p)'
    BY <1>1, <1>5 DEF Writes
  <2> QED BY <1>1, <1>2, <1>3, <1>5, <2>1, CasesOfOthers DEF Inv
<1>6. ASSUME NEW p \in Ids \ disturbed', p = q
      PROVE  CasesOK(p)'
  <2>1. cases'[p] = <<>> /\ CasesOK(p) /\ Writes(c, p)
    BY <1>1, <1>3, <1>6 DEF Inv, Writes
  <2>2. \A d \in Clients : at'[d] \in {"clear", "insert"} /\ req'[d].id = p <=> d = c
    BY <1>1, <1>6, <2>1 DEF CasesOK, Writes, Others
  <2>3. problems'[p] # Absent => written'[p].suite = req'[c].suite /\ written'[p].missing = {}
    BY <1>1, <1>2, <2>1 DEF CasesOK
  <2>4. 1..(pos'[c] - 1) = {}
    BY <1>1
  <2>5. OneSuite(<<>>) /\ Holds(<<>>, written'[p].suite, {}, {})
    BY NoCases
  <2> QED BY <1>1, <2>1, <2>2, <2>3, <2>4, <2>5 DEF CasesOK, Writes
<1>7. \A d \in Clients : GotOK(d)'
  BY <1>2, <1>3, GotFrame DEF Inv
<1> QED BY <1>4, <1>5, <1>6, <1>7 DEF Rest

LEMMA InsertCaseStep ==
    ASSUME Inv, NEW c \in Clients, InsertCase(c) \/ InsertCaseFails(c)
    PROVE  Rest'
<1> DEFINE q == req[c].id
           n == pos[c]
<1>1. /\ Others(c) /\ q \in Ids /\ req[c].suite \in Suites /\ at[c] = "insert" /\ n \in 1..N
      /\ \/ n = N /\ at'[c] = "idle"
         \/ at'[c] = "insert" /\ pos'[c] = n + 1 /\ req' = req
  BY InsertCaseTyped DEF Inv
<1>2. /\ nextId' = nextId /\ got' = got /\ problems' = problems /\ disturbed' = disturbed
      /\ \/ /\ cases' = [cases EXCEPT ![q] = Append(cases[q], <<req[c].suite, n>>)]
            /\ written' = written /\ problems[q] # Absent
         \/ /\ cases' = cases
            /\ written' = [written EXCEPT ![q].missing = written[q].missing \cup {n}]
  BY DEF InsertCase, InsertCaseFails
<1>3. /\ \A p \in Ids \ {q} : cases'[p] = cases[p] /\ written'[p] = written[p]
      /\ \/ /\ cases'[q] = Append(cases[q], <<req[c].suite, n>>)
            /\ written'[q] = written[q] /\ problems[q] # Absent
         \/ /\ cases'[q] = cases[q] /\ written'[q].suite = written[q].suite
            /\ written'[q].missing = written[q].missing \cup {n}
      /\ cases[q] \in Seq(Case)
  <2>1. /\ cases \in [Ids -> Seq(Case)]
        /\ written \in [Ids -> [suite : Suites \cup {NoSuite}, missing : SUBSET (1..N)]]
    BY DEF Inv, Typed, DataOK
  <2>2. CASE cases' = [cases EXCEPT ![q] = Append(cases[q], <<req[c].suite, n>>)]
             /\ written' = written /\ problems[q] # Absent
    BY <1>1, <2>1, <2>2
  <2>3. CASE /\ cases' = cases
             /\ written' = [written EXCEPT ![q].missing = written[q].missing \cup {n}]
    BY <1>1, <2>1, <2>3
  <2> QED BY <1>2, <2>2, <2>3
<1>4. RowsOK'
  BY <1>1, <1>2, <1>3 DEF Inv, RowsOK
<1>5. ASSUME NEW p \in Ids \ disturbed', p # q
      PROVE  CasesOK(p)'
  <2>1. ~Writes(c, p) /\ ~Writes(c, p)'
    BY <1>1, <1>5 DEF Writes
  <2> QED BY <1>1, <1>2, <1>3, <1>5, <2>1, CasesOfOthers DEF Inv
<1>6. ASSUME NEW p \in Ids \ disturbed', p = q
      PROVE  CasesOK(p)'
  <2>1. CasesOK(p) /\ Writes(c, p)
    BY <1>1, <1>2, <1>6 DEF Inv, Writes
  <2>2. \A d \in Clients : at'[d] \in {"clear", "insert"} /\ req'[d].id = p => d = c
    BY <1>1, <2>1 DEF CasesOK, Writes, Others
  <2>3. OneSuite(cases'[p]) /\
        (problems'[p] # Absent =>
           /\ written'[p].suite = req[c].suite
           /\ written'[p].missing \subseteq 1..n
           /\ Holds(cases'[p], written'[p].suite, written'[p].missing, 1..n))
    <3>1. CASE problems[p] = Absent
      <4>1. cases'[p] = cases[p]
        BY <1>3, <1>6, <3>1
      <4> QED BY <1>2, <2>1, <3>1, <4>1 DEF CasesOK
    <3>2. CASE problems[p] # Absent
      <4>1. /\ written[p].suite = req[c].suite
            /\ written[p].missing \in SUBSET (1..(n - 1))
            /\ Holds(cases[p], written[p].suite, written[p].missing, 1..(n - 1))
        BY <1>1, <2>1, <3>2 DEF CasesOK
      <4>2. CASE cases'[p] = Append(cases[p], <<req[c].suite, n>>) /\ written'[p] = written[p]
        <5>1. written[p].missing \subseteq 1..n
          BY <1>1, <4>1, SuiteAssumption
        <5>2. Holds(cases[p], req[c].suite, written[p].missing, 1..(n - 1))
          BY <4>1
        <5>3. cases[p] \in Seq(Case)
          BY <1>3, <1>6
        <5> HIDE DEF n
        <5>4. LET more == Append(cases[p], <<req[c].suite, n>>)
              IN  OneSuite(more) /\ Holds(more, req[c].suite, written[p].missing, 1..n)
          BY <1>1, <4>1, <5>2, <5>3, AppendCase
        <5> QED BY <4>1, <4>2, <5>1, <5>4
      <4>3. CASE /\ cases'[p] = cases[p] /\ written'[p].suite = written[p].suite
                 /\ written'[p].missing = written[p].missing \cup {n}
        <5>1. /\ written'[p].missing \subseteq 1..n
              /\ Holds(cases[p], written[p].suite, written'[p].missing, 1..n)
          BY <1>1, <4>1, <4>3, SkipCase
        <5> QED BY <2>1, <4>1, <4>3, <5>1 DEF CasesOK
      <4> QED BY <1>3, <1>6, <4>2, <4>3
    <3> QED BY <3>1, <3>2
  <2>4. CASE n = N /\ at'[c] = "idle"
    <3>1. \A d \in Clients : ~(at'[d] \in {"clear", "insert"} /\ req'[d].id = p)
      BY <2>2, <2>4
    <3> QED BY <2>3, <2>4, <3>1 DEF CasesOK, Writes
  <2>5. CASE at'[c] = "insert" /\ pos'[c] = n + 1 /\ req' = req
    <3>1. pos'[c] - 1 = n /\ at'[c] \in {"clear", "insert"} /\ req'[c].id = p
      BY <1>1, <1>6, <2>5, SuiteAssumption
    <3> QED BY <2>2, <2>3, <2>5, <3>1 DEF CasesOK, Writes
  <2> QED BY <1>1, <2>4, <2>5
<1>7. \A d \in Clients : GotOK(d)'
  BY <1>2, GotFrame DEF Inv
<1> QED BY <1>4, <1>5, <1>6, <1>7 DEF Rest

LEMMA ToolStep ==
    ASSUME Inv, Tool
    PROVE  Rest'
<1>1. UNCHANGED <<at, pos, req, got>>
  BY ToolTyped DEF Inv
<1>2. disturbed' = disturbed /\ \A d \in Clients : GotOK(d)'
  BY <1>1, GotFrame DEF Inv, Tool, CleanProblems, InsertStandard, InsertStandardFails
<1>3. \A p \in Ids : \A d \in Clients : Writes(d, p)' <=> Writes(d, p)
  BY <1>1 DEF Writes
<1>4. CASE problems' = [p \in Ids |-> Absent] /\ cases' = [p \in Ids |-> <<>>]
           /\ nextId' = nextId /\ written' = written
  <2>1. \A p \in Ids : problems'[p] = Absent /\ cases'[p] = <<>>
    BY <1>4
  <2>2. RowsOK'
    BY <2>1 DEF RowsOK
  <2>3. ASSUME NEW p \in Ids \ disturbed'
        PROVE  CasesOK(p)'
    <3>1. \A d, e \in Clients : Writes(d, p)' /\ Writes(e, p)' => d = e
      BY <1>2, <1>3 DEF Inv, CasesOK
    <3> QED BY <2>1, <3>1, CasesOfNone
  <2> QED BY <1>2, <2>2, <2>3 DEF Rest
<1>5. CASE UNCHANGED <<problems, cases, nextId, written>>
  <2>1. RowsOK'
    BY <1>5 DEF Inv, RowsOK
  <2>2. \A p \in Ids \ disturbed' : CasesOK(p)'
    BY <1>1, <1>2, <1>5, CasesFrame DEF Inv
  <2> QED BY <1>2, <2>1, <2>2 DEF Rest
<1>6. CASE InsertStandard
  <2>1. /\ nextId + Cardinality(Creating) \in Ids /\ nextId' = nextId + 1 /\ cases' = cases
        /\ \E row \in Rows : problems' = [problems EXCEPT ![nextId] = row]
        /\ written' = [written EXCEPT ![nextId] = [suite |-> NoSuite, missing |-> {}]]
    BY <1>6 DEF InsertStandard, IdsLeft, Creating
  <2>2. nextId \in Ids /\ Ids \subseteq Int /\ nextId \in Int
    BY <2>1, CreatingFinite, BoundAssumption DEF Inv, Typed, DataOK, Ids
  <2>3. /\ cases[nextId] = <<>>
        /\ written'[nextId] = [suite |-> NoSuite, missing |-> {}]
        /\ \A p \in Ids \ {nextId} : problems'[p] = problems[p] /\ written'[p] = written[p]
    BY <2>1, <2>2 DEF Inv, RowsOK, Typed, DataOK
  <2>4. RowsOK'
    BY <2>1, <2>2, <2>3 DEF Inv, RowsOK
  <2>5. ASSUME NEW p \in Ids \ disturbed', p # nextId
        PROVE  CasesOK(p)'
    BY <1>1, <1>2, <2>1, <2>3, <2>5, CasesFrame DEF Inv
  <2>6. ASSUME NEW p \in Ids, p = nextId
        PROVE  CasesOK(p)'
    <3>1. \A d \in Clients : ~(at'[d] \in {"clear", "insert"} /\ req'[d].id = p)
      BY <1>1, <2>2, <2>6 DEF Inv, Typed, RequestOK
    <3>2. cases'[p] = <<>> /\ written'[p].suite = NoSuite /\ written'[p].missing = {}
      BY <2>1, <2>3, <2>6
    <3>3. OneSuite(<<>>) /\ Holds(<<>>, NoSuite, {}, 1..N)
      BY NoCases
    <3> QED BY <3>1, <3>2, <3>3 DEF CasesOK, Writes
  <2> QED BY <1>2, <2>4, <2>5, <2>6 DEF Rest
<1> QED BY <1>4, <1>5, <1>6 DEF Tool, CleanProblems, InsertStandardFails
-----------------------------------------------------------------------------
LEMMA InvInit == Init => Inv
<1> SUFFICES ASSUME Init PROVE Inv
  OBVIOUS
<1>1. 1 \in 1..N /\ 0 \in Ids \cup {0} /\ <<>> \in Seq(Case) /\ 1 \in 1..(MaxIds + 1)
      /\ 0 \in 0..MaxWrites
  BY SuiteAssumption, BoundAssumption
<1>2. DataOK
  <2>1. [suite |-> NoSuite, missing |-> {}] \in [suite : Suites \cup {NoSuite}, missing : SUBSET (1..N)]
    OBVIOUS
  <2> QED BY <1>1, <2>1 DEF Init, DataOK
<1>3. ClientsOK
  <2>1. [id |-> 0, cases |-> <<>>] \in Gots
    BY <1>1 DEF Gots
  <2> QED BY <1>1, <2>1 DEF Init, ClientsOK
<1>4. (\A c \in Clients : RequestOK(c)) /\ RoomOK
  <2>1. Creating = {}
    BY DEF Init, Creating
  <2>2. Cardinality(Creating) = 0
    BY <2>1, FS_EmptySet
  <2> QED BY <2>2, BoundAssumption DEF Init, RequestOK, RoomOK
<1>5. RowsOK
  BY DEF Init, RowsOK
<1>6. ASSUME NEW p \in Ids
      PROVE  CasesOK(p)
  <2>1. cases[p] = <<>> /\ problems[p] = Absent /\ \A c \in Clients : ~Writes(c, p)
    BY DEF Init, Writes
  <2> QED BY <2>1 DEF CasesOK, OneSuite
<1>7. \A c \in Clients : GotOK(c)
  BY DEF Init, GotOK, Ids
<1> QED BY <1>2, <1>3, <1>4, <1>5, <1>6, <1>7 DEF Inv, Typed

LEMMA InvNext == Inv /\ [Next]_vars => Inv'
<1> SUFFICES ASSUME Inv, [Next]_vars PROVE Typed' /\ Rest'
  BY DEF Inv, Rest
<1>1. Typed /\ RowsOK
  BY DEF Inv
<1>2. ASSUME NEW c \in Clients, NEW r \in Requests, Begin(c, r)
      PROVE  Typed' /\ Rest'
  BY <1>1, <1>2, BeginTyped, QuietStep DEF Begin
<1>3. ASSUME NEW c \in Clients, RefuseBlank(c) \/ RowFails(c) \/ UpdateNoRow(c) \/ SelectNoRow(c)
      PROVE  Typed' /\ Rest'
  <2>1. Refuse(c) /\ at[c] = "row"
    BY <1>3 DEF RefuseBlank, RowFails, UpdateNoRow, SelectNoRow
  <2> QED BY <1>1, <2>1, RefuseTyped, QuietStep DEF Refuse
<1>4. ASSUME NEW c \in Clients, SelectRow(c)
      PROVE  Typed' /\ Rest'
  BY <1>1, <1>4, SelectRowTyped, QuietStep DEF SelectRow
<1>5. ASSUME NEW c \in Clients, SelectCases(c) \/ SelectCasesFails(c)
      PROVE  Typed' /\ Rest'
  BY <1>1, <1>5, SelectCasesTyped, SelectCasesStep
<1>6. ASSUME NEW c \in Clients, InsertRow(c)
      PROVE  Typed' /\ Rest'
  BY <1>1, <1>6, InsertRowTyped, InsertRowStep
<1>7. ASSUME NEW c \in Clients, UpdateRow(c)
      PROVE  Typed' /\ Rest'
  BY <1>1, <1>7, UpdateRowTyped, UpdateRowStep
<1>8. ASSUME NEW c \in Clients, DeleteRow(c)
      PROVE  Typed' /\ Rest'
  BY <1>1, <1>8, DeleteRowTyped, DeleteRowStep
<1>9. ASSUME NEW c \in Clients, ClearCases(c) \/ ClearFails(c)
      PROVE  Typed' /\ Rest'
  BY <1>1, <1>9, ClearTyped, ClearStep
<1>10. ASSUME NEW c \in Clients, InsertCase(c) \/ InsertCaseFails(c)
       PROVE  Typed' /\ Rest'
  BY <1>1, <1>10, InsertCaseTyped, InsertCaseStep
<1>11. CASE Tool
  BY <1>1, <1>11, ToolTyped, ToolStep
<1>12. CASE UNCHANGED vars
  <2>1. Typed'
    BY <1>1, <1>12 DEF vars, Typed, DataOK, ClientsOK, RequestOK, RoomOK, Creating
  <2>2. RowsOK' /\ \A c \in Clients : GotOK(c)'
    BY <1>12, GotFrame DEF vars, Inv, RowsOK
  <2>3. \A p \in Ids \ disturbed' : CasesOK(p)'
    BY <1>12, CasesFrame DEF vars, Inv
  <2> QED BY <2>1, <2>2, <2>3 DEF Rest
<1> QED BY <1>2, <1>3, <1>4, <1>5, <1>6, <1>7, <1>8, <1>9, <1>10, <1>11, <1>12
        DEF Next, Step

LEMMA Invariant == Spec => []Inv
BY InvInit, InvNext, PTL DEF Spec
-----------------------------------------------------------------------------
(* Theorems.                                                                *)

\* Every variable has its type, and no more ids are given than there are: what a
\* reader gets are test cases, also from a problem written by two at a time.
THEOREM TypeCorrect == Spec => []TypeOK
<1>1. Inv => TypeOK
  BY TypeFromParts DEF Inv
<1> QED BY <1>1, Invariant, PTL

\* A problem whose writers did not overlap holds, once they are done, what the last
\* of them asked for but for what could not be inserted, in order, whatever readers,
\* deletions, other problems' writers and the tool do between the statements.
THEOREM WritersAreServed == Spec => []StoredAsWritten
<1>1. ASSUME Inv
      PROVE  StoredAsWritten
  <2> SUFFICES ASSUME NEW p \in Ids \ disturbed, problems[p] # Absent, Writing(p) = {}
               PROVE  /\ Range(cases[p]) = CasesOf(written[p].suite, written[p].missing)
                      /\ InOrder(cases[p])
    BY DEF StoredAsWritten
  <2>1. \A c \in Clients : ~Writes(c, p)
    BY <1>1, WritingIsWrites DEF Inv
  <2> QED BY <1>1, <2>1 DEF Inv, CasesOK, Holds, CasesOf
<1> QED BY <1>1, Invariant, PTL

\* What a reader gets of such a problem are test cases of one suite, in order and
\* each at most once, also in the middle of an update.
THEOREM ReadersSeeOneSuite == Spec => []ReadsOneSuite
<1>1. Inv => ReadsOneSuite
  BY DEF Inv, GotOK, OneSuite, ReadsOneSuite
<1> QED BY <1>1, Invariant, PTL

\* No statement of a request that was still running brings back a deleted problem
\* or leaves test cases of it.
THEOREM DeletionsLast == Spec => DeletedForGood
<1>1. ASSUME Inv, [Next]_vars, NEW p \in Ids, p < nextId, problems[p] = Absent
      PROVE  problems'[p] = Absent /\ cases'[p] = <<>>
  <2>1. problems'[p] = Absent
    <3>1. problems \in [Ids -> Rows \cup {Absent}] /\ p # nextId
      BY <1>1, BoundAssumption DEF Inv, Typed, DataOK, Ids
    <3>2. ASSUME NEW c \in Clients, Step(c)
          PROVE  problems'[p] = Absent
      BY <1>1, <3>1, <3>2
         DEF Step, Begin, Refuse, RefuseBlank, RowFails, InsertRow, UpdateRow, UpdateNoRow,
             DeleteRow, ClearCases, ClearFails, InsertCase, InsertCaseFails, SelectRow,
             SelectNoRow, SelectCases, SelectCasesFails
    <3>3. CASE Tool
      BY <1>1, <3>1, <3>3 DEF Tool, CleanProblems, InsertStandard, InsertStandardFails
    <3> QED BY <1>1, <3>2, <3>3 DEF Next, vars
  <2>2. Inv'
    BY <1>1, InvNext
  <2> QED BY <2>1, <2>2 DEF Inv, RowsOK
<1>2. Inv /\ [Next]_vars =>
        [\A p \in Ids : p < nextId /\ problems[p] = Absent =>
            problems'[p] = Absent /\ cases'[p] = <<>>]_vars
  BY <1>1
<1> QED BY <1>2, Invariant, PTL DEF Spec, DeletedForGood
=============================================================================
