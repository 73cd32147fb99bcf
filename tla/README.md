# A verification of the C++ online judge

The program is a small online judge: an HTTP server (vendored cpp-httplib) with a web client, a MySQL database behind a
connection pool, and an executor that compiles a submission with g++ and runs it on the test cases of a problem. This
directory holds TLA+ models of it, TLC configurations that check them, and theorems that TLAPS proves.

    tlc -workers 2 -config Judge.cfg MCJudge             (any row of the table of runs)
    tlapm JudgeProofs.tla                                (DataTheorems and every module named *Proofs)

## 1. The system

| component | state it keeps | operations | talks to | what makes it correct |
|---|---|---|---|---|
| server lifecycle (`main.cc`, `server/`) with the part of `httplib.h` it runs on | queue of accepted connections, worker threads, cleanup thread, `running` | start, accept, serve, stop | everything | no connection is forgotten or closed twice; nobody uses what is gone; the end is reached |
| connection pool (`src/db`) | queue of idle MYSQL handles, `initialized_`, mutex, condition variable | `init`, `shutdown`, `acquire`, `release` | MySQL; every mapper | a handle has one user; none leaks or is used when closed; no lost wakeup; shutdown frees waiters |
| mappers (`src/model`) | none; each call holds a `ScopedConnection` | insert, update, find, delete on four tables | pool, MySQL | they give back what they took, on every path; threads do not wait for each other in a circle |
| problem store (`model/problem.cc`, `test_case.cc`, service, handlers) | tables `problems`, `test_cases` | create, update, delete, get, list | pool; executor reads it | what is stored is what was written; readers see one suite of test cases; deleted is deleted |
| executor (`service/executor_service.cc`) | per call: temporary directory, a child, pipes | `compile`, `runTestCase`, `execute` | problem store; kernel (fork, pipe, waitpid) | AC is earned; a right program is accepted; each call returns; nothing is left behind |
| sessions (`service/session_service.cc`, `auth_service.cc`) | table `sessions`, cleanup thread | create, validate, destroy, cleanupExpired | user and session mappers, two clocks | valid until expiry or logout; never for a deleted user |
| handlers (`src/handler`) | none | register, login, logout, submit, admin CRUD | services | names are unique; admin operations only for admins; a body means what its sender meant |
| bcrypt (`src/utils/bcrypt.cpp`) | none | hash, verify | OpenSSL | a password verifies against its own hash |
| config, logger (`src/utils`) | loaded settings; level and file | load; init, log, shutdown | - | sequential, or one mutex around each method |
| tools (`tools/`) | none | add_admin, db_reset, backup | pool and mappers, one thread, beside the server | end with the documented content |
| web client (`public/js`) | edit mode, form, table | pages over `fetch` | HTTP API | what is shown and saved is the problem the user chose |

Requests run on the worker threads of httplib (at least 8), all in one process: they share the pool (4 connections as
shipped), the table of file descriptors and the database. The cleanup thread is one more user of the pool. A request
reaches the database only through mappers; each mapper call takes a connection and the problem mapper calls the test
case mapper while it holds one. `execute()` calls `fork()` in this multi-threaded process. The tools run in a process of
their own on the same tables, and the admin page is one more concurrent program: every `await` lets the admin click on.

What is hard to test here: callers of the pool with outages, shutdown and late releases; circular waiting through nested
mapper calls; end of file on pipes that a child of another request still holds open; the time limit racing the exit of
a child; failure of one of several statements without a transaction; readers between two statements; notifications
given after the mutex is unlocked; answers of the API in another order than the questions. PROJECT.json lists these
hazards with their lines and properties.

## 2. The modules

| module | models | its state in the code |
|---|---|---|
| `ConnectionLease` | the promise of the pool: connections are leased to one thread at a time | abstract |
| `ConnectionCount` | the pool by its numbers, idle and lent: what users rely on that do not care which connection they get | abstract |
| `ConnectionPool` | `src/db/connection_pool.{h,cc}` | `pool` is `pool_`, `initialized` is `initialized_`; `held` are the pointers callers have; `at` says who is blocked on `cv_`; `open` is between `mysql_real_connect` and `mysql_close` |
| `MapperPool` | the mappers as callers of `ConnectionPool`, which it extends | `scopes` are the live `ScopedConnection` objects of a thread; `left` is what remains of the loop over test cases |
| `Judge` | `src/service/executor_service.cc` | `pc` is the place in `execute`, `compile`, `runTestCase`; `srv` and `fds` are the tables of descriptors of the server and of the children, `orphans` those of the processes that programs leave; `results`, `verdict` as in the code; `excused` is a history variable |
| `Verdict` | the end of `runTestCase()` and `handleSubmit()` as functions | none |
| `ProblemStore` | `model/problem.cc`, `test_case.cc`, the service and the handlers over them, db_reset on problems | `problems` and `cases` are the tables; `at`, `pos` the next statement of a request; `written` and `disturbed` are history variables |
| `Accounts` | `session_service.cc`, `model/user.cc`, `session.cc`, `auth_handler.cc`, db_reset and add_admin on users | `users` and `sessions` are the tables; `at`, `who`, `until` the next statement of a request and what it found; `tool` the next statement of a tool; `issued`, `misread` are history variables |
| `Conversions` | one call of a function of `Verdict` or `Credentials` on any input, and the reference definitions its result is compared with | `call` and `result` |
| `Credentials` | `bcrypt.cpp`, the checks of registration and login, session ids and the cookie, as functions | none |
| `HttpServer` | `main.cc`, `server.cc`, the cleanup thread of `auth_service.cc`, and of `httplib.h` the accept loop, the worker pool and the keep-alive loop | `jobs` is `jobs_`, `stopping` is `shutdown_`, `thread` the place of each worker in `ThreadPool::worker`, `conn` the sockets; `db`, `idle` are the connection pool as its users see it |
| `AdminPage` | `public/js/admin.js` over `api.js`, and the API it calls | `editing` is `editingProblemId`, `disabled` is `btnCreate.disabled`, `calls` the promises not settled; `from`, `disturbed` are history variables |
| `MC*` | constants and symmetry for TLC | - |
| `DataTheorems` | lemmas on sets of numbers (least element, induction), loops as functions of the number of rounds, queues, division with remainder, parts and concatenation of texts | - |
| `PoolProofs` | theorems and proofs about `ConnectionPool` and `MapperPool` | - |
| `HttpServerProofs`, `JudgeProofs`, `ProblemStoreProofs`, `AccountsProofs`, `AdminPageProofs`, `ConversionsProofs` | theorems and proofs about the module they are named after | - |

`MapperPool` composes the pool with its callers. `HttpServer` uses the pool through the few facts a user sees (a
connection, a null one, a wait, a pool in which everybody waits), which `ConnectionPool` models in detail;
`ConnectionCount` is between the two, and both implement it: how many connections are idle and lent changes in the
server only as it does in the pool. `ProblemStore`, `Accounts` and `Judge` take the database, the connection for a
statement and the kernel as they are seen through their calls: each may fail at any call. Operators whose comment
begins with "Mutant" are plausible bugs; no specification uses them.

### ConnectionPool
Every method holds the mutex for its whole body, so each is one action. `acquire()` is the exception, because
`cv_.wait` gives the mutex up: `Acquire` either passes or blocks, a notification or a spurious wakeup makes the caller
"woken", and `Resume` is the woken caller that evaluates the predicate again. Barging is therefore in the model. The
server may go down and come back (`DbDown`, `DbUp`), or forget one session (`DropSession`), between any two steps;
`mysql_ping` finds that out in `ReplaceDeadFront`. `InitPool` may get any number of connections up to `pool_size`.
A handle that was closed may be opened again under the same name, as an address may.

### MapperPool
`Begin` is the constructor of the outer `ScopedConnection`, `OpenInner` the one of `TestCaseMapper`, `CloseInner` and
`Return` the destructors. A call that fails early is a call with no inner ones, or one whose connection was null.

### Judge and Verdict
A submission runs through the system calls of `compile()` and `runTestCase()` one at a time, since it is the order in
which pipes are opened, inherited and closed that matters. `Fork` copies what the server has open at that moment. A
pipe reports end of file when `Gone`. What a child does is one of a few behaviours: the right output without reading
its input, the right output after reading the input to its end, wrong output, a crash, burning CPU until `RLIMIT_CPU`,
neither ending nor burning CPU; or the right output from a program that has forked, and leaves a process with all its
descriptors (`orphans`) until it ends, which may be never (`OrphanLetsGo`). A compiler may write more than
its pipe takes (`floods`). `TimeOut` may find a child that has just exited. Every failing `pipe`, `fork` and
file operation is an action. A tick of the clock advances all workers that poll. What `StatusOf` abstracts, the
comparison of the outputs, is `Verdict!TestStatus`, character by character as far as blanks go.

### ProblemStore
A request is a sequence of atomic SQL statements, and nothing makes the sequence atomic. With `MayFail`, each statement
may fail, and the actions `RowFails`, `ClearFails`, `InsertCaseFails` and `SelectCasesFails` do what the mappers do
then: answer "not found", ignore it, skip the case, return the problem without test cases. `UpdateRow` changes the row
only when a column changes; otherwise MySQL reports no affected row and `UpdateNoRow` is taken. db_reset cleans the
problems and then inserts its standard problem, where it stops for ever: `ProblemMapper::insert()` keeps the only
connection of its pool while the insert of the first test case waits for one.

### Accounts and Credentials
Register, login, logout and an admin request are sequences of statements, as in `ProblemStore`; a SELECT that fails
looks like one that found nothing (`NameFree`, `NoSessionFound`, `NoOwnerFound`). `Valid` and `Cleanup` compare with the
clock of the database, `Stamp` writes the one of the server; `Zone` is the difference. db_reset and add_admin run in
another process (`tool`), so users and sessions disappear between any two statements of a request. The unique key and
the foreign keys of `init.sql` are guards of the inserts and part of the deletes. `Act` is the admin handler that goes on
after `requireAdmin()` without checking again. An `INSERT` fails when the bound on ids is reached. The checks before the
first statement, the hash and the cookie are functions of `Credentials`; the rounds of Blowfish are its parameter.

### HttpServer
`main` is the place in `main()`, `listen_internal()` and `ThreadPool::shutdown()`. `enqueue()` is two steps, `Enqueue`
under the mutex and `NotifyJob` after it. A dynamic thread whose wait times out is `timedOut` until it has the mutex: in
between no notification reaches it, and a job may have come. A worker takes a connection (`TakeJob`), reads requests in
the keep-alive loop, asks the database in some of them and closes the socket. A mapper call takes a connection
(`Acquire`) and may ask for a second one while it has the first (`OpenInner`, `AcquireInner`), once for each test case;
mapper calls that follow one another hold nothing in between and are one. A submission is then judged without a
connection; `Judged` is the return of `execute()`, which need not come. `Stuck` is the pool in which nobody can give a
connection back: it has drained, or each connection is with a worker that waits for a second one. `Signal` sets the flag
that nobody reads.

### AdminPage
A click sends a call into a free slot; `Serve` is the server's work and `Break` a connection that breaks before or after
it; the remaining actions are the continuations after the `await`s, taken in any order of the answers. The browser
submits nothing while the button is disabled. A problem is its row: its text (title, difficulty, description and
solution together) and its template. A row of the table is an id and the text it had when the list was read. An update
that changes no column is answered 404 (`Changes`), and a list the database did not give is an empty one (`ListFails`).

## 3. The runs

| run | instance (distinct states) | what it shows |
|---|---|---|
| `pool` | 3 threads, 4 handles, size 2, 2 × init (234 000) | handles are in one place (`Exclusive`), the open ones are exactly those idle or held (`Accounted`), at most `pool_size` per `init()` (`Capacity`), each idle connection has a woken caller while somebody is blocked (`NoLostWakeup`), `shutdown()` frees the blocked (`ShutdownFreesWaiters`), and the pool implements `ConnectionLease` and `ConnectionCount` |
| `mappers_progress` | 3 threads, 4 connections (24 000) | a thread holds what its live scopes hold (`NothingKept`), threads never wait in a circle (`NoCircularWait`), and an exhausted pool gets a connection back (`ExhaustedPoolRefills`) |
| `mappers_shipped` | 4 threads, 4 connections | violation of `NoCircularWait`: the shipped size lets four readers of a problem block for ever |
| `judge` | 2 submissions, with 2 test cases and with 1, compilers that flood, programs that fork (396 000) | `AcceptedIsEarned`, `NothingLeftBehind`; a right program is turned down only when it is excused (`RightIsAcceptedOrExcused`); under fairness, each call of `execute()` returns unless it is `Blocked` for ever at one of three named reads and waits (`EveryVerdict`) |
| `judge_together` | 2 submissions, 1 test case | violation of `RightIsAccepted`: two readers hold each other's input pipe open |
| `store_concurrent` | 2 workers, 3 writes, suites of 2, failing statements, db_reset (3 536 000) | `StoredAsWritten`, `ReadsOneSuite`, `DeletedForGood` |
| `store_unchanged` | 2 workers, 2 writes, nothing fails | violation of `NotFoundMeansAbsent`: an update that changes only the test cases gets 404 |
| `accounts` | 2 workers, 2 names, 3 user ids, 1 session id, 2 hours, tools, failing statements (1 515 000) | `AccountsConsistent`, `ActsAreAuthorised`, `SessionsEndForAReason` |
| `server` | 1 base and 1 dynamic thread, 2 connections of 2 requests, 2 database connections (81 000) | `NoJobForgotten`, `EachConnectionOnce`, `ResourcesOutliveThreads`, `CountsConnections` (it implements `ConnectionCount`); under fairness, `AcceptedIsClosed` and `ListenEndExits` unless a thread is held up for ever (`SomebodyHeldUp`) |
| `server_signal` | 2 connections of 2 requests, 1 database connection | violation of `SignalStops` |
| `conversions` | every input of `AllCalls` (53 000) | `AcceptedIffSame`, `SubmitJudgesWhatWasAsked`, `VerifiesSameKey`, `RegisteredCanLogIn`, `CookieComesBack` |
| `admin_page` | 2 problems, 2 texts, 4 clicks that start calls, 2 calls in flight (855 000) | `SavesGoToTheirProblem`, `OneSaveAtATime`, `TableSettles`, and under fairness `SaveEnds` |

The runs `pool`, `judge`, `store_concurrent`, `server` and `admin_page` also check the type invariant of their
module; the ones of `MapperPool` and `Accounts` are proved only. Every property of a passing run has a
mutant of the code that breaks it under the same configuration.

**Bounds.** `MaxInits`, `MaxInner`, `MaxIds`, `MaxWrites`, `MaxUsers`, `MaxTokens`, `MaxHours`, `MaxClicks`, `Slots`
and `Limit` are the only ones. Two waiters are needed for a notification to reach the wrong one and a third caller to
barge in; two handles in the queue for a waiter to be woken twice; a second `init()` for late releases. One connection
more than threads is the threshold of circular waiting, one less or equal is the violation. Two submissions are needed
for descriptors to cross, and two test cases for a pipe of the first to reach the second; one tick of `Limit`
suffices, because only "before" and "at the limit" differ. `judge` takes a compiler that floods, which also stands for
one that rejects, and the programs that the pipes and the clock tell apart: one that waits for the end of its input
(and never ends when another child keeps it open), one that ends by itself with a wrong answer, one that leaves a
process behind; the theorems take them all. Two database connections and two workers are the fewest in which nested
calls block each other. Suites of two cases and three writes give two overlapping writers after a creation. Three user
ids let two registrations of one name race each other, or one race the return of the admin; a session id and a
lifetime of one hour reach expiry and cleanup. One base and one dynamic thread are the fewest where a notification can
reach a thread that has timed out; the second connection starts the dynamic one, which serves it or gives up.
Four clicks are two edits and a save with a deletion or a reload between them, and two calls in flight are enough for
answers in the other order. In `conversions`, texts have up to three characters and a key four bytes, so that
passwords are shorter, equal and longer than the key and repeat in it. All type invariants and safety properties of
the passing runs are proved for every value of the constants (section 5), so that the bounds matter for liveness only.

`pool` runs `DisciplinedSpec`, in which `init()` is called on a pool that is not initialised, as the program does;
`init()` on an initialised pool is in `Spec`, of which all theorems but `NoWakeupLost` speak.

**Deadlock** is checked but in three runs: in `conversions` there is one call, in `admin_page` the clicks are bounded,
and in `judge` two compilers may stop each other, as in the code.
The ends of `HttpServer` (`Rest`) and `Judge` (`Done`) are steps of their own, so a stop elsewhere would be reported.

**Fairness.** `DisciplinedSpec`: a woken thread gets the mutex again, since no method keeps it for ever. `MapperSpec`:
a worker inside a mapper call is scheduled (weakly, with no order among threads). `Judge!Spec`: workers are scheduled,
a child that can end does, and time passes; nothing is assumed of `pipe` or `fork` failing, nor that a process which a
program left ever ends. `HttpServer!FairSpec`: `main()`, each worker and the cleanup thread are scheduled weakly. A
worker that waits for a connection, the first or the second, gets one that is free again and again (strong fairness of
`Acquire` and `AcquireInner`): a `notify_one` wakes somebody each time, and what could overtake one waiter for ever is
an endless stream of others, which the server with its finitely many workers and keep-alive requests does not have. A
mapper call ends (strong fairness of `Query` and `Submission`), because a problem has finitely many test cases. That
`execute()` returns (`Judged`) is not assumed. Nothing is assumed of clients but that a silent one runs into the
keep-alive timeout, nor of `accept4` failing. `AdminPage`: a call is answered or its connection breaks, and the page
gets the event; nothing is assumed of the admin. `ProblemStore` and `Accounts` have none. `TimelySpec` is not fairness
but a restriction: the clock ticks only when every other step is exhausted, so a "TLE" in it is not a matter of load.

## 4. What disagrees with the documents

1. *Nested connections* (`mappers_shipped`): SPEC.md promises 1-20 users and DEPLOY.md ships `pool_size: 4`; a pool has
   to be larger than the number of worker threads, or the inner call has to use the outer connection. `db_reset` has
   one connection and needs two: it stops for ever at its standard problem.
2. *Inherited pipes* (`judge_together`): without `O_CLOEXEC`, a child of one submission keeps the pipes of another open.
3. *Unchanged rows* (`store_unchanged`): affected rows are not found rows.
4. *Signals* (`server_signal`): DEPLOY.md says SIGINT and SIGTERM end the service gracefully; nothing reads the flag.

Also seen, without a run of their own, mostly because no document says otherwise:

- *Pool.* Each `acquire()` during an outage loses a connection for good, and a drained pool blocks every caller; once no
  more connections are left than there are threads, the waits of 1. are back, whatever `pool_size` was. A
  server whose workers wait for each other's connections (1.), for a drained pool or for `execute()` closes their
  sockets never, and neither does it exit when `accept4` fails: `main()` joins the workers, and the
  `ConnectionPool::shutdown()` that would wake them comes after the join. The liveness properties of `HttpServer` name
  these cases (`HeldUp`). `init()` on an initialised pool does not notify.
- *Executor.* Two compilers whose messages fill their pipes can block for ever, each pipe's read end being open in the
  other's child, and a third submission with them; `EveryVerdict` names this wait and the read that a process left by
  a program holds up as the only ones (`Blocked`); DEPLOY.md gives 5 seconds, but once the program has exited its
  output is read to the end without looking at the clock. A program that writes more than 64 KB blocks, since nobody
  reads before it ends, and gets TLE. When the second `pipe()` of a test case fails the first stays open
  (`NothingLeftBehind` allows exactly that).
- *Store.* Two overlapping updates of a problem leave the test cases of both (`StoredAsWritten` excepts them).
  An update deletes the test cases before it inserts the new ones, outside of a transaction: a submission in between
  gets CE, "No test cases for this problem".
- *Accounts.* `validate()` takes a user that could not be read for a deleted one, and deletes the session
  (`SessionsEndForAReason` allows it to such a request only). A logout is confirmed although its DELETE failed.
  `expires_at` is UTC and is compared with `NOW()`. db_reset can end well without having renewed the admin
  (`skipped`).
- *Conversions.* A `problem_id` beyond an int wraps around. A password and its repetitions verify against one hash. The
  result of `RAND_bytes` is not looked at. Output that is not UTF-8 turns a verdict into a 500.
- *Server.* When `accept4` fails or the port cannot be bound, `main()` ends with success, and the `Restart=on-failure`
  of DEPLOY.md does not apply. `enqueue()` counts a woken thread as idle. DEPLOY.md names a log level "WARN", the code
  "WARNING".
- *Admin page.* Editing and saving a problem empties its template (admin.js reads `code_template`, the server sends
  `template`), and the message that a save succeeded is hidden at once. Two lists in flight may come in the other order.

## 5. What is proved

For all values of the constants, under the assumptions named in the modules: sets of threads, workers and handles are
finite, "none" values are outside the sets they extend, sizes and bounds are natural numbers, slots are numbers (the
page's first list takes the least one). For the conversions: an int has some width (`IntAssumption`); the key material
is at least twice as long as the longest key, as 4168 bytes and 72 are (`KeyAssumption`); the blanks are characters
(`CharsAssumption`); each call has arguments its function takes (`CallsAssumption`): texts of any length over any
characters, 16 bytes of salt, any cost, cookies without ";" of which only one is the session's. TLC evaluates every
assumption on the instance of the run.

One assumption is about a function that is not modelled. `NoCollision` says that two passwords that are compared have
equal results in Blowfish, salt and cost being equal, only when the bytes xored into its tables are equal. That is what
the program trusts bcrypt with; it concerns the finitely many passwords in `Calls`, since no function to 23 bytes is
injective on all. Only one direction of `VerifiesTheKey` rests on it: that a password which verifies is the same key.

| module | theorem | states |
|---|---|---|
| `PoolProofs` | `TypeCorrect`, `ExclusiveOwnership`, `NothingLeaked`, `CapacityRespected` | `Spec => []TypeOK`, `[]Exclusive`, `[]Accounted`, `[]Capacity` |
| | `NoWakeupLost` | `DisciplinedSpec => []NoLostWakeup` |
| | `PoolImplementsLease`, `PoolKeepsCount` | `Spec => ImplementsLease`, `Spec => ImplementsCount` |
| | `MapperTypes`, `MapperTypesFaulty` | `MapperSpec => []MapperTypeOK`, and with failing databases |
| | `ScopesGiveBack` | `FaultyMapperSpec => []NothingKept` |
| | `LargePoolNeverStuck` | with more connections than threads, `MapperSpec => []NoCircularWait` |
| `HttpServerProofs` | `TypeCorrect`, `EveryConnectionOnce`, `ResourcesLast`, `NoNotificationLost` | `[]TypeOK`, `[]EachConnectionOnce`, `[]ResourcesOutliveThreads`, `[]NoJobForgotten` |
| | `ServerCounts` | `Spec => CountsConnections` |
| `JudgeProofs` | `TypeCorrect`, `AcceptedWasEarned`, `LeavesNothing`, `RightIsHeard` | `[]TypeOK`, `[]AcceptedIsEarned`, `[]NothingLeftBehind`, `RightIsAcceptedOrExcused` |
| `ProblemStoreProofs` | `TypeCorrect`, `WritersAreServed`, `ReadersSeeOneSuite`, `DeletionsLast` | `[]TypeOK`, `[]StoredAsWritten`, `[]ReadsOneSuite`, `DeletedForGood` |
| `AccountsProofs` | `TypeCorrect`, `ConsistentAccounts`, `AuthorisedActs`, `ReasonedEnds` | `[]TypeOK`, `[]AccountsConsistent`, `[]ActsAreAuthorised`, `SessionsEndForAReason` |
| `AdminPageProofs` | `TypeCorrect`, `SavesAreAddressed`, `OneClickOneSave`, `TableIsCurrent` | `[]TypeOK`, `[]SavesGoToTheirProblem`, `[]OneSaveAtATime`, `[]TableSettles` |
| `ConversionsProofs` | `JudgesByWhatIsSeen`, `JudgesWhatWasAsked` | `[]AcceptedIffSame`, `[]SubmitJudgesWhatWasAsked` |
| | `RegisteredLogsIn`, `VerifiesTheKey` | `[]RegisteredCanLogIn`, `[]VerifiesSameKey` |
| | `CookieReturns` | `[]CookieComesBack` |

*Pool.* `Exclusive` is not inductive alone: that a replacement is a fresh handle needs `Accounted` (the handles in use
are the open ones), and `Accounted` needs `Exclusive` (closing the front must not close a held handle). The inductive
invariant is their conjunction with `TypeOK`; `Capacity` follows from a count of `open` over the same steps.
`NoLostWakeup` is inductive with it: a release adds one idle connection and, if anybody waits, one woken caller; a
woken caller leaves "woken" only with a connection or when none is idle. The refinement maps the queue to the set of
its elements.

*Count.* `ConnectionCount` has two implementations. In the pool `lent` is the number of handles callers hold: the one
`acquire()` adds is held by nobody else (by `Exclusive` if it was idle, by `Accounted` if it is new), so that the number
grows by exactly one, and the one `release()` takes is held by no other thread. In the server `lent` is the number of
workers with a first connection, plus those with a second one, plus the cleanup thread if it has one; each step of a
worker or of the cleanup thread puts one thread into one of these sets or takes it out.
That `init()` of the server finds an empty queue needs `Unopened`: before `main()` is past it no thread runs, so that
nothing can have come back. The count says nothing of which thread waits: the waits themselves are in `ConnectionPool`.

*Circular waiting.* The invariant of `MapperPool` relates each thread's held handles to its scopes, and the total of
handles, idle and held, to `PoolSize`. If every idle connection is gone and every holder were blocked, each thread
would hold at most one handle (the outer one), so at most `Cardinality(Threads) < PoolSize` of them would be held: a
contradiction.

*Server.* `EachConnectionOnce` is inductive with `TypeOK`. That the resources outlive the threads needs `Lifecycle`:
what `main()` has joined has ended, and no thread ends with a job in the queue; a base thread neither times out nor
goes away earlier, so joining the base threads is what says that the queue is empty. `NoJobForgotten` is a count:
`Enqueue` adds a job and makes the notification due, `NotifyOne` gives the job an alert worker unless nobody waits,
and an alert worker stops being one only by taking a job, when there is none, or at the end.

*Judge.* `EndOK` says why the server has a pipe end open (its worker is between the calls that open and close it, or
the end is the leak named above), which gives `NothingLeftBehind` at the end of `execute()`. `HeldOK` says that
whoever has the write end of the input of the test case s is at excuses s; since `Fork` copies only what `srv` holds,
it follows that the input of a right program that is not excused comes to its end. A process that a program left has
what the program had (`Dies`), and `Held` counts it with the children. `WorkerOK` relates the place of a worker to its
test case, its child and its clock: the results of a worker inside test case n are n - 1. That `Overall` says "AC"
only of n passes rests on a lemma about the least failure.

*Store.* The state between two statements is in `CasesOK`: while c inserts the case at `pos`, the table holds the cases
of c's suite before `pos` but for the missing ones, in order, and c is the only writer unless the problem is `disturbed`.
`ORDER BY position, id` is a permutation by rank; a lemma shows that it returns what is in order already as it is.
`RowsOK` (no row, no test cases; no row for ids not yet given) is what makes deletions last.

*Accounts.* A request's knowledge ages between its statements. `RequestOK` says what survives: ids are not given twice
and the clock does not go back, so a session found valid was valid when the request began, belongs to the user it was
issued to, and the user keeps role and name until it is deleted, and then does not come back. `TablesOK` has the
uniqueness of names and the owners of sessions, with the admin after each tool that ended well. The proofs hold for
every `Zone` and `Duration`.

*Admin page.* `CallOK` (a save in flight carries the id its fields were read from) needs `FormOK` (the problem edited
is the one the form was filled with), since the id and the fields are read in one step before the `await`. `ButtonOK`
relates the button to the saves in flight. `TableOK` is what makes `TableSettles` inductive: while nothing was
disturbed one list at most is on its way, and what the table lacks or shows under an old title has been changed by a
call whose answer the page has still to hear (it will then ask for the list), or is asked for by a list the server has
not read yet, or is in the answer that is coming back.

*Conversions.* Each call is one step, so the invariants rest on what the functions compute, for inputs of any length. The
loops of the code are recursive functions of the number of rounds, and the two facts `Loop` (such a function exists, is
unique and keeps the type of its state) and `EveryNumber` (induction on a set of numbers) give what they compute.

- *Output.* The comparison drops the blanks at the end of both texts; `Visible` says where the last other character is.
- *Registration.* `RoundTrip` says that `DecodeBase64(EncodeBase64(src)) = src` for every sequence of bytes. The encoder
  and the decoder run side by side: after c characters they `Meet`, either between two bytes or inside one, of which the
  decoder then has the upper bits in its buffer and the encoder the lower ones (`Odd`, with two, four or six of them). A
  round of both goes from one of these four places to the next, an argument about quotients of the 14 bits that are ever
  read (`LowBits`); the encoder stops exactly when the decoder has the last byte. A hash has then its salt and its cost
  where the verification looks for them, the cost clamped once and for all.
- *Key.* The bytes xored into the tables are the key again and again, to a length that is at least that of both keys
  together. Two such streams agree when the keys commute (`SameStream`), since both are then the stream of their
  concatenation; and streams that agree have keys that commute (`CommutingWords`), since both concatenations are then
  beginnings of the one stream.
- *Cookie.* A header is cut at its first ";" (`Cuts`): either the first token is the session's, or the header gives what
  the rest gives (`FirstToken`). A blank in front of a token changes neither its name nor its value (`BlankInFront`), so
  that a part of the header counts as the session's exactly when the cookie itself does.

**Only model-checked:** liveness (`ShutdownFreesWaiters`, `ExhaustedPoolRefills`, `EveryVerdict`, `AcceptedIsClosed`,
`ListenEndExits`, `SaveEnds`), which is beyond the prover, as is `ENABLED` in `TimelySpec`. The seven violations are
traces that TLC finds. Every invariant and every action property of a passing run is a theorem.

## 6. Not modelled, and why

- *Most of `httplib.h`*, which is 20 000 of the 24 000 lines of code in the repository: the HTTP client, TLS, websockets,
  multipart bodies, compression and the parsing of requests. The program does not use the first five, and parsing is a
  function of one buffer; what is modelled is the part whose threads and shutdown the program depends on. Of the
  program's own C++ about three fifths of the lines are translated.
- *The rounds of Blowfish*: a fixed permutation network, tables and all; the unit tests check it on vectors.
- *The logger and the configuration*: one mutex around each method and no caller that reads a result; read once
  at start by one thread. `HttpServer` has the steps at which they are opened, fail and are closed.
- *The other pages*: the list, login and registration make one call each. The problem page disables its button and hides
  the panel with the other one while a submission is in flight, so that there is one at a time but after an answer that
  was cut off (a listed hazard). The Markdown renderer and the editor are presentation.
- *`TestCaseMapper::deleteByProblemId()`*, which only the tests call, and listing the problems, one SELECT under one
  connection.
- *Failures that end the process or do nothing*: a `std::thread` that cannot be started throws through `main()`; a
  directory that `rmdir()` cannot remove stays. `waitpid()` of a running program does not fail, since only the worker
  that forked it waits for it: its branch for that is not taken.
- *The backup script*: shell commands the server does not see.
- *The static buffer of `std::gmtime`*: its outcomes differ by less than the clock of `Accounts` tells apart.
- *Column types and lengths* of `init.sql`; an INSERT they refuse is a statement that fails.

What could follow: sessions against an abstract specification in which a session is valid from login to its end; and a
`HttpServer` whose workers wait in `ConnectionPool` itself: with `ConnectionCount` the two agree on every step of the
numbers, but that a worker which is blocked is woken is in the one and fairness in the other.
