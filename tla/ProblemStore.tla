---------------------------- MODULE ProblemStore -----------------------------
(***************************************************************************)
(* Problems and their test cases (src/model/problem.cc, test_case.cc, with *)
(* the service and the handlers above them) as concurrent requests see     *)
(* them.  A problem is one row of `problems' and n rows of `test_cases'.   *)
(* No mapper opens a transaction: a request is a sequence of SQL           *)
(* statements, each atomic, and the statements of other requests come in   *)
(* between.  A statement, or the connection for it, may fail, and the      *)
(* mappers carry on after most failures.                                   *)
(*                                                                         *)
(* The row is abstracted to one value, and the test cases a request        *)
(* carries to a suite of N numbered cases, in the order of their position. *)
(***************************************************************************)
EXTENDS Naturals, Sequences, FiniteSets, SequencesExt

CONSTANTS
    Clients,    \* worker threads, each serving one request at a time
    Rows,       \* what the columns of a problem may hold
    Blank,      \* a row with an empty title or an empty content
    Suites,     \* the lists of test cases a request may carry
    N,          \* the length of a suite
    NoSuite,    \* an empty or missing test_cases array
    Absent,     \* no row has this id
    MaxIds,     \* bound: the number of problems created
    MaxWrites,  \* bound: the number of creates and updates
    MayFail     \* may statements fail?

ASSUME RowsAssumption  == Absent \notin Rows
ASSUME SuiteAssumption == NoSuite \notin Suites /\ N \in Nat \ {0}
ASSUME BoundAssumption ==
    MaxIds \in Nat /\ MaxWrites \in Nat /\ MayFail \in BOOLEAN /\ IsFiniteSet(Clients)

VARIABLES
    problems,   \* problems[p]: the row with id p
    cases,      \* cases[p]: its rows in test_cases, by their id
    nextId,     \* the next AUTO_INCREMENT id of problems
    at,         \* at[c]: the next statement of c's request
    pos,        \* pos[c]: the test case c inserts
    req,        \* req[c]: the request c serves
    reply,      \* reply[c]: its outcome
    got,        \* got[c]: the test cases c read last, and for which problem
    tool,       \* the next statement of db_reset on problems
    writes,     \* the number of creates and updates so far
    written,    \* history: what the last writer of p's test cases asked for
    disturbed   \* history: problems whose writers overlapped, or whose old
                \* test cases could not be deleted

vars == <<problems, cases, nextId, at, pos, req, reply, got, tool, writes, written, disturbed>>

Ids == 1..MaxIds
Case == Suites \X (1..N)

\* ORDER BY position, id.  The row at place k has k - 1 before it.
Before(rows, i, j) ==
    \/ rows[i][2] < rows[j][2]
    \/ rows[i][2] = rows[j][2] /\ i < j

Rank(rows, i) == Cardinality({j \in DOMAIN rows : Before(rows, j, i)}) + 1

ByPosition(rows) ==
    [k \in DOMAIN rows |-> rows[CHOOSE i \in DOMAIN rows : Rank(rows, i) = k]]

NoRequest == [op |-> "none"]

Requests ==
    [op : {"create"}, id : {0}, row : Rows, suite : Suites \cup {NoSuite}]
        \cup [op : {"update"}, id : Ids, row : Rows, suite : Suites \cup {NoSuite}]
        \cup [op : {"delete", "read"}, id : Ids]

\* The requests that are between two statements that write test cases of p.
Writing(p) ==
    {c \in Clients : at[c] \in {"clear", "insert"} /\ req[c].id = p
                        /\ req[c].op \in {"create", "update"}}
-----------------------------------------------------------------------------
TypeOK ==
    /\ problems \in [Ids -> Rows \cup {Absent}]
    /\ cases \in [Ids -> Seq(Case)]
    /\ nextId \in 1..(MaxIds + 1)
    /\ at \in [Clients -> {"idle", "row", "clear", "insert", "select"}]
    /\ pos \in [Clients -> 1..N] /\ DOMAIN req = Clients
    /\ \A c \in Clients : at[c] \notin {"idle", "row"} => req[c].id \in 1..(nextId - 1)
    /\ tool \in {"idle", "insert", "stuck"}
    /\ writes \in 0..MaxWrites
    /\ reply \in [Clients -> {"none", "ok", "notFound", "failed"}]
    /\ got \in [Clients -> [id : Ids \cup {0}, cases : Seq(Case)]]
    /\ written \in [Ids -> [suite : Suites \cup {NoSuite}, missing : SUBSET (1..N)]]
    /\ disturbed \subseteq Ids

Init ==
    /\ problems = [p \in Ids |-> Absent]
    /\ cases = [p \in Ids |-> <<>>]
    /\ nextId = 1
    /\ at = [c \in Clients |-> "idle"]
    /\ pos = [c \in Clients |-> 1]
    /\ req = [c \in Clients |-> NoRequest]
    /\ reply = [c \in Clients |-> "none"]
    /\ got = [c \in Clients |-> [id |-> 0, cases |-> <<>>]]
    /\ tool = "idle"
    /\ writes = 0
    /\ written = [p \in Ids |-> [suite |-> NoSuite, missing |-> {}]]
    /\ disturbed = {}
-----------------------------------------------------------------------------
(* The request and its first statement.                                    *)

\* Another row fits beside those that are about to be created.
IdsLeft == nextId + Cardinality({d \in Clients : at[d] = "row" /\ req[d].op = "create"}) \in Ids

\* A handler has read a request (and, for the writes, requireAdmin let it pass).
Begin(c, r) ==
    /\ at[c] = "idle"
    /\ r.op \in {"create", "update"} => writes < MaxWrites
    /\ r.op = "create" => IdsLeft
    /\ at' = [at EXCEPT ![c] = "row"]
    /\ req' = [req EXCEPT ![c] = r]
    /\ reply' = [reply EXCEPT ![c] = "none"]
    /\ writes' = IF r.op \in {"create", "update"} THEN writes + 1 ELSE writes
    /\ UNCHANGED <<problems, cases, nextId, pos, got, tool, written, disturbed>>

\* The handler answers, and what it knew is gone.
Answer(c, status) ==
    /\ at' = [at EXCEPT ![c] = "idle"]
    /\ reply' = [reply EXCEPT ![c] = status]
    /\ req' = [req EXCEPT ![c] = NoRequest]
    /\ pos' = [pos EXCEPT ![c] = 1]

\* The answer to a request whose first statement could not be executed: a failed
\* create is a 500, and any other request is told that the problem is not there.
Refuse(c) ==
    /\ Answer(c, IF req[c].op = "create" THEN "failed" ELSE "notFound")
    /\ UNCHANGED <<problems, cases, nextId, got, tool, writes, written, disturbed>>

\* A title or content that is empty is refused by the service, like a failed
\* statement.
RefuseBlank(c) ==
    /\ at[c] = "row"
    /\ req[c].op \in {"create", "update"}
    /\ req[c].row = Blank
    /\ Refuse(c)

RowFails(c) ==
    /\ MayFail
    /\ at[c] = "row"
    /\ Refuse(c)

\* The loop over the test cases of the request begins.
ToLoop(c) ==
    /\ at' = [at EXCEPT ![c] = "insert"]
    /\ pos' = [pos EXCEPT ![c] = 1]

\* ProblemMapper::insert() up to its loop.
InsertRow(c) ==
    /\ at[c] = "row"
    /\ req[c].op = "create"
    /\ req[c].row # Blank
    /\ nextId' = nextId + 1
    /\ problems' = [problems EXCEPT ![nextId] = req[c].row]
    /\ written' = [written EXCEPT ![nextId] = [suite |-> req[c].suite, missing |-> {}]]
    /\ \/ req[c].suite = NoSuite /\ Answer(c, "ok")
       \/ /\ req[c].suite # NoSuite
          /\ ToLoop(c)
          /\ req' = [req EXCEPT ![c].id = nextId]
          /\ UNCHANGED reply
    /\ UNCHANGED <<cases, got, tool, writes, disturbed>>

\* The UPDATE of ProblemMapper::update().  The server counts a row as affected
\* only when a column changes.
UpdateRow(c) ==
    LET p == req[c].id
    IN /\ at[c] = "row"
       /\ req[c].op = "update"
       /\ req[c].row # Blank
       /\ problems[p] \notin {Absent, req[c].row}
       /\ problems' = [problems EXCEPT ![p] = req[c].row]
       /\ \/ /\ req[c].suite = NoSuite
             /\ Answer(c, "ok")
             /\ UNCHANGED <<written, disturbed>>
          \/ /\ req[c].suite # NoSuite
             /\ at' = [at EXCEPT ![c] = "clear"]
             /\ written' = [written EXCEPT ![p] = [suite |-> req[c].suite, missing |-> {}]]
             /\ disturbed' = IF Writing(p) = {} THEN disturbed ELSE disturbed \cup {p}
             /\ UNCHANGED <<pos, req, reply>>
       /\ UNCHANGED <<cases, nextId, got, tool, writes>>

UpdateNoRow(c) ==
    /\ at[c] = "row"
    /\ req[c].op = "update"
    /\ problems[req[c].id] \in {Absent, req[c].row}
    /\ Refuse(c)

\* Mutant: the test cases of a deleted problem stay.
DeleteRowOnly(c) ==
    LET p == req[c].id
    IN /\ at[c] = "row"
       /\ req[c].op = "delete"
       /\ problems' = [problems EXCEPT ![p] = Absent]
       /\ Answer(c, IF problems[p] = Absent THEN "notFound" ELSE "ok")
       /\ UNCHANGED <<cases, nextId, got, tool, writes, written, disturbed>>

\* ON DELETE CASCADE takes the test cases along.
DeleteRow(c) ==
    LET p == req[c].id
    IN /\ at[c] = "row"
       /\ req[c].op = "delete"
       /\ problems' = [problems EXCEPT ![p] = Absent]
       /\ cases' = [cases EXCEPT ![p] = <<>>]
       /\ Answer(c, IF problems[p] = Absent THEN "notFound" ELSE "ok")
       /\ UNCHANGED <<nextId, got, tool, writes, written, disturbed>>
-----------------------------------------------------------------------------
(* The statements on test_cases.                                           *)

\* Mutant: the loop runs once too often.
AfterOneMore(c, i) ==
    IF i > N THEN Answer(c, "ok")
    ELSE pos' = [pos EXCEPT ![c] = i + 1] /\ UNCHANGED <<at, req, reply>>

\* TestCaseMapper::insert() for the i-th case is over: the next one, or the answer.
After(c, i) ==
    IF i = N THEN Answer(c, "ok")
    ELSE pos' = [pos EXCEPT ![c] = i + 1] /\ UNCHANGED <<at, req, reply>>

\* Mutant: an update does not delete the old test cases.
KeepOld(c) ==
    /\ at[c] = "clear"
    /\ ToLoop(c)
    /\ UNCHANGED <<problems, cases, nextId, req, reply, got, tool, writes, written, disturbed>>

ClearCases(c) ==
    /\ at[c] = "clear"
    /\ cases' = [cases EXCEPT ![req[c].id] = <<>>]
    /\ ToLoop(c)
    /\ UNCHANGED <<problems, nextId, req, reply, got, tool, writes, written, disturbed>>

\* The result of the DELETE is not looked at.
ClearFails(c) ==
    /\ MayFail
    /\ at[c] = "clear"
    /\ ToLoop(c)
    /\ disturbed' = disturbed \cup {req[c].id}
    /\ UNCHANGED <<problems, cases, nextId, req, reply, got, tool, writes, written>>

\* The foreign key lets a test case in only while its problem is there.
InsertCase(c) ==
    LET p == req[c].id
    IN /\ at[c] = "insert"
       /\ problems[p] # Absent
       /\ cases' = [cases EXCEPT ![p] = Append(@, <<req[c].suite, pos[c]>>)]
       /\ After(c, pos[c])
       /\ UNCHANGED <<problems, nextId, got, tool, writes, written, disturbed>>

\* Mutant: the loop ends at the first test case that cannot be inserted.
StopAtFailure(c) ==
    /\ at[c] = "insert"
    /\ MayFail \/ problems[req[c].id] = Absent
    /\ written' = [written EXCEPT ![req[c].id].missing = @ \cup {pos[c]}]
    /\ Answer(c, "ok")
    /\ UNCHANGED <<problems, cases, nextId, got, tool, writes, disturbed>>

\* A test case that cannot be inserted is skipped, and the request succeeds.
InsertCaseFails(c) ==
    /\ at[c] = "insert"
    /\ MayFail \/ problems[req[c].id] = Absent
    /\ written' = [written EXCEPT ![req[c].id].missing = @ \cup {pos[c]}]
    /\ After(c, pos[c])
    /\ UNCHANGED <<problems, cases, nextId, got, tool, writes, disturbed>>
-----------------------------------------------------------------------------
(* ProblemMapper::findById(), for the problem page and for execute().      *)

SelectRow(c) ==
    /\ at[c] = "row"
    /\ req[c].op = "read"
    /\ problems[req[c].id] # Absent
    /\ at' = [at EXCEPT ![c] = "select"]
    /\ UNCHANGED <<problems, cases, nextId, pos, req, reply, got, tool, writes, written, disturbed>>

SelectNoRow(c) ==
    /\ at[c] = "row"
    /\ req[c].op = "read"
    /\ problems[req[c].id] = Absent
    /\ Refuse(c)

SelectCases(c) ==
    /\ at[c] = "select"
    /\ got' = [got EXCEPT ![c] = [id |-> req[c].id, cases |-> ByPosition(cases[req[c].id])]]
    /\ Answer(c, "ok")
    /\ UNCHANGED <<problems, cases, nextId, tool, writes, written, disturbed>>

\* The problem is returned without test cases.
SelectCasesFails(c) ==
    /\ MayFail
    /\ at[c] = "select"
    /\ got' = [got EXCEPT ![c] = [id |-> req[c].id, cases |-> <<>>]]
    /\ Answer(c, "ok")
    /\ UNCHANGED <<problems, cases, nextId, tool, writes, written, disturbed>>
-----------------------------------------------------------------------------
(* db_reset on problems, another process with a pool of one connection.    *)

\* cleanProblems(); a statement that fails is a warning.
CleanProblems ==
    /\ tool = "idle" /\ tool' = "insert"
    /\ \/ /\ problems' = [p \in Ids |-> Absent]
          /\ cases' = [p \in Ids |-> <<>>]
       \/ MayFail /\ UNCHANGED <<problems, cases>>
    /\ UNCHANGED <<nextId, at, pos, req, reply, got, writes, written, disturbed>>

\* insertStandardProblems(): its row goes in, and then ProblemMapper::insert() keeps
\* the only connection while TestCaseMapper::insert() waits for one, for ever.
InsertStandard ==
    /\ tool = "insert" /\ tool' = "stuck"
    /\ IdsLeft
    /\ nextId' = nextId + 1
    /\ \E row \in Rows \ {Blank} : problems' = [problems EXCEPT ![nextId] = row]
    /\ written' = [written EXCEPT ![nextId] = [suite |-> NoSuite, missing |-> {}]]
    /\ UNCHANGED <<cases, at, pos, req, reply, got, writes, disturbed>>

\* The row, or the admin before it, could not be inserted: the tool ends.
InsertStandardFails ==
    /\ MayFail
    /\ tool = "insert" /\ tool' = "idle"
    /\ UNCHANGED <<problems, cases, nextId, at, pos, req, reply, got, writes, written, disturbed>>
-----------------------------------------------------------------------------
Step(c) ==
    \/ \E r \in Requests : Begin(c, r)
    \/ RefuseBlank(c) \/ RowFails(c)
    \/ InsertRow(c) \/ UpdateRow(c) \/ UpdateNoRow(c) \/ DeleteRow(c)
    \/ ClearCases(c) \/ ClearFails(c) \/ InsertCase(c) \/ InsertCaseFails(c)
    \/ SelectRow(c) \/ SelectNoRow(c) \/ SelectCases(c) \/ SelectCasesFails(c)

Tool == CleanProblems \/ InsertStandard \/ InsertStandardFails

Next == (\E c \in Clients : Step(c)) \/ Tool

Spec == Init /\ [][Next]_vars
-----------------------------------------------------------------------------
(* Properties.                                                             *)

\* The rows are in the order of their position.
InOrder(rows) == \A i, j \in DOMAIN rows : i < j => rows[i][2] < rows[j][2]

\* The rows a suite asks for, but for those that could not be inserted.
CasesOf(suite, missing) ==
    IF suite = NoSuite THEN {} ELSE {<<suite, i>> : i \in (1..N) \ missing}

\* What is stored is what the last writer asked for: when nobody is writing the
\* test cases of a problem, and its writers did not overlap, they are those of the
\* last create or update that carried any, in order, without those whose INSERT
\* failed, whatever the problem held before.
StoredAsWritten ==
    \A p \in Ids \ disturbed :
        problems[p] # Absent /\ Writing(p) = {} =>
            /\ Range(cases[p]) = CasesOf(written[p].suite, written[p].missing)
            /\ InOrder(cases[p])

\* A problem is read while an update replaces its test cases: the reader may get
\* a part of a suite, but never cases of two suites, a case twice, or cases out
\* of order.
ReadsOneSuite ==
    \A c \in Clients : got[c].id \in Ids \ disturbed =>
        \A i, j \in DOMAIN got[c].cases : i < j =>
            /\ got[c].cases[i][1] = got[c].cases[j][1]
            /\ got[c].cases[i][2] < got[c].cases[j][2]

\* A deleted problem stays deleted, and no request that was still writing its test
\* cases leaves any behind.
DeletedForGood ==
    [][\A p \in Ids : p < nextId /\ problems[p] = Absent =>
        problems'[p] = Absent /\ cases'[p] = <<>>]_vars

\* "Problem not found" (404) is the answer only when the problem is not there.
NotFoundMeansAbsent ==
    [][\A c \in Clients : at[c] = "row" /\ at'[c] = "idle" /\ reply'[c] = "notFound" =>
        problems[req[c].id] = Absent]_vars
=============================================================================
