----------------------------- MODULE HttpServer -----------------------------
(***************************************************************************)
(* The life of the server process: main() (src/main.cc), startServer()     *)
(* (src/server/server.cc), the background cleanup of AuthService, and the  *)
(* part of src/utils/httplib.h they run on: the accept loop, the pool of   *)
(* worker threads and the keep-alive loop of a connection.                 *)
(*                                                                         *)
(* The worker pool has one mutex and one condition variable.  Its queue is *)
(* jobs; a worker that finds it empty waits; enqueue() pushes under the    *)
(* mutex, may start a dynamic thread, and notifies after unlocking, in a   *)
(* step of its own.  A dynamic thread gives up after an idle timeout, and  *)
(* between the timeout and the mutex a notification no longer reaches it.  *)
(*                                                                         *)
(* The connection pool of the database is the one ConnectionPool models in *)
(* detail; here it is what a user sees of it: a number of idle connections *)
(* and whether the pool is initialised.  A worker holds up to two: reading *)
(* a problem, and writing its test cases, asks for a second one while the  *)
(* first is held (problem.cc), as MapperPool models in detail.             *)
(***************************************************************************)
EXTENDS Naturals, Sequences, FiniteSets

CONSTANTS
    Base,          \* threads_: the base threads of the worker pool
    Dynamic,       \* the dynamic threads there may be at a time
    Clients,       \* the connections clients open
    KeepAliveMax,  \* keep_alive_max_count_: requests per connection
    PoolSize,      \* pool_size of the database
    None           \* no connection

ASSUME ThreadsAssumption   == IsFiniteSet(Base \cup Dynamic) /\ Base \cap Dynamic = {} /\ Base # {}
ASSUME ClientsAssumption   == None \notin Clients
ASSUME KeepAliveAssumption == KeepAliveMax \in Nat \ {0} /\ PoolSize \in Nat

VARIABLES
    main,       \* where main() is
    signalled,  \* has signalHandler() run (running = 0)?
    jobs,       \* jobs_: the accepted connections no worker has taken
    stopping,   \* shutdown_ of the worker pool
    thread,     \* where each worker thread is
    serving,    \* the connection a busy worker serves
    at,         \* where in serving it the worker is
    count,      \* how many requests the connection may still send
    conn,       \* each connection: not opened, open, closed
    cleaner,    \* where the cleanup thread is
    cleaning,   \* cleanupRunning_
    db,         \* ConnectionPool: "closed" before init() and after shutdown()
    idle        \* the idle connections of ConnectionPool

workVars  == <<thread, serving, at, count>>
cleanVars == <<cleaner, cleaning>>
dbVars    == <<db, idle>>
vars == <<main, signalled, jobs, stopping, workVars, conn, cleanVars, dbVars>>

Workers == Base \cup Dynamic
Waiting == {w \in Workers : thread[w] = "waiting"}
\* Threads that will look at the queue before they wait or give up.
Alert   == {w \in Workers : thread[w] \in {"looking", "woken", "timedOut"}}
\* idle_thread_count_ counts a thread until it has taken a job.
Counted == {w \in Workers : thread[w] \in {"waiting", "woken", "timedOut"}}

\* The workers that hold a connection, and those that hold a second one.
Outer == {w \in Workers : at[w] \in {"query", "inner", "nested"}}
Inner == {w \in Workers : at[w] = "nested"}

\* The connections that threads hold.
Lent == Cardinality(Outer) + Cardinality(Inner) + (IF cleaner = "query" THEN 1 ELSE 0)
-----------------------------------------------------------------------------
Init ==
    /\ main = "load" /\ signalled = FALSE
    /\ jobs = <<>> /\ stopping = FALSE
    /\ thread = [w \in Workers |-> "none"]
    /\ serving = [w \in Workers |-> None]
    /\ at = [w \in Workers |-> "none"]
    /\ count = [w \in Workers |-> 0]
    /\ conn = [c \in Clients |-> "none"]
    /\ cleaner = "none" /\ cleaning = FALSE
    /\ db = "closed" /\ idle = 0
-----------------------------------------------------------------------------
(* main() and startServer().                                               *)

MainGoes(from, to) == main = from /\ main' = to

LoadFails ==
    /\ MainGoes("load", "failed")
    /\ UNCHANGED <<signalled, jobs, stopping, workVars, conn, cleanVars, dbVars>>

\* Config::load and Logger::init, which goes on without a file that does not open.
Load ==
    /\ MainGoes("load", "openPool")
    /\ UNCHANGED <<signalled, jobs, stopping, workVars, conn, cleanVars, dbVars>>

\* ConnectionPool::init gets as many connections as the database gives it, and
\* main() goes on also without any.
OpenPool ==
    /\ MainGoes("openPool", "startCleanup")
    /\ idle' \in 0..PoolSize
    /\ db' = IF idle' > 0 THEN "open" ELSE "closed"
    /\ UNCHANGED <<signalled, jobs, stopping, workVars, conn, cleanVars>>

\* startBackgroundCleanup()
StartCleanup ==
    /\ MainGoes("startCleanup", "bind")
    /\ cleaning' = TRUE /\ cleaner' = "sleep"
    /\ UNCHANGED <<signalled, jobs, stopping, workVars, conn, dbVars>>

\* listen() returns at once when the port cannot be bound ...
BindFails ==
    /\ MainGoes("bind", "stopCleanup")
    /\ UNCHANGED <<signalled, jobs, stopping, workVars, conn, cleanVars, dbVars>>

\* ... and else makes the worker pool with its base threads.
Bind ==
    /\ MainGoes("bind", "accept")
    /\ thread' = [w \in Workers |-> IF w \in Base THEN "looking" ELSE "none"]
    /\ UNCHANGED <<signalled, jobs, stopping, serving, at, count, conn, cleanVars, dbVars>>

\* Mutant: the new thread takes the place of any other.
SpawnAlways ==
    \E d \in Dynamic :
        thread' = [w \in Workers |-> IF w = d THEN "looking" ELSE thread[w]]

\* enqueue() starts a dynamic thread when no thread is idle and fewer than the
\* maximum live; it first joins those that have finished.  (A thread that the
\* system refuses ends the process: std::thread throws through the accept loop and
\* main().  That end is not modelled.)
SpawnIfNeeded ==
    IF Counted # {} \/ \A d \in Dynamic : thread[d] \notin {"none", "finished"}
    THEN UNCHANGED thread
    ELSE \E d \in Dynamic :
           /\ thread[d] \in {"none", "finished"}
           /\ thread' = [w \in Workers |->
                           IF w = d THEN "looking"
                           ELSE IF thread[w] = "finished" THEN "none" ELSE thread[w]]

Enqueue(c) ==
    /\ MainGoes("accept", "notify")
    /\ conn[c] = "none"
    /\ conn' = [conn EXCEPT ![c] = "open"]
    /\ jobs' = Append(jobs, c)
    /\ SpawnIfNeeded
    /\ UNCHANGED <<signalled, stopping, serving, at, count, cleanVars, dbVars>>

\* Nobody waits; as a mutant: the notification is forgotten.
NotifyNobody == UNCHANGED thread

\* cond_.notify_one() after the mutex has been unlocked.
NotifyOne ==
    IF Waiting = {} THEN NotifyNobody
    ELSE \E w \in Waiting : thread' = [thread EXCEPT ![w] = "woken"]

NotifyJob ==
    /\ MainGoes("notify", "accept")
    /\ NotifyOne
    /\ UNCHANGED <<signalled, jobs, stopping, serving, at, count, conn, cleanVars, dbVars>>

\* accept4() fails for a reason other than EMFILE, EINTR and EAGAIN: the only
\* way out of the accept loop, for nothing calls Server::stop().
AcceptFails ==
    /\ MainGoes("accept", "setShutdown")
    /\ UNCHANGED <<signalled, jobs, stopping, workVars, conn, cleanVars, dbVars>>

SetShutdown ==
    /\ MainGoes("setShutdown", "notifyAll")
    /\ stopping' = TRUE
    /\ UNCHANGED <<signalled, jobs, workVars, conn, cleanVars, dbVars>>

WakeAll == thread' = [w \in Workers |-> IF w \in Waiting THEN "woken" ELSE thread[w]]

NotifyAll ==
    /\ MainGoes("notifyAll", "join")
    /\ WakeAll
    /\ UNCHANGED <<signalled, jobs, stopping, serving, at, count, conn, cleanVars, dbVars>>

\* Mutant: the dynamic threads are forgotten.
BaseOnly == Base

\* shutdown() joins the base threads and the dynamic ones, finished or not.
Joined == Workers

JoinWorkers ==
    /\ MainGoes("join", "stopCleanup")
    /\ \A w \in Joined : thread[w] \in {"none", "ended", "finished"}
    /\ UNCHANGED <<signalled, jobs, stopping, workVars, conn, cleanVars, dbVars>>

\* stopBackgroundCleanup()
StopCleanup ==
    /\ MainGoes("stopCleanup", "joinCleanup")
    /\ cleaning' = FALSE
    /\ UNCHANGED <<signalled, jobs, stopping, workVars, conn, cleaner, dbVars>>

JoinCleanup ==
    /\ MainGoes("joinCleanup", "closePool")
    /\ cleaner = "ended"
    /\ UNCHANGED <<signalled, jobs, stopping, workVars, conn, cleanVars, dbVars>>

\* ConnectionPool::shutdown
ClosePool ==
    /\ MainGoes("closePool", "closeLogger")
    /\ db' = "closed" /\ idle' = 0
    /\ UNCHANGED <<signalled, jobs, stopping, workVars, conn, cleanVars>>

\* Logger::shutdown
CloseLogger ==
    /\ MainGoes("closeLogger", "exited")
    /\ UNCHANGED <<signalled, jobs, stopping, workVars, conn, cleanVars, dbVars>>

\* SIGINT or SIGTERM once main() has registered the handler.  Nothing reads the
\* flag, and accept4() is restarted or fails with EINTR, which is ignored.
Signal ==
    /\ main \notin {"load", "failed", "openPool", "exited"} /\ ~signalled
    /\ signalled' = TRUE
    /\ UNCHANGED <<main, jobs, stopping, workVars, conn, cleanVars, dbVars>>
-----------------------------------------------------------------------------
(* The database connections, as acquire() and release() show them.         *)

\* acquire() gives a connection, or null when the pool is not initialised or
\* the connection was dead and could not be replaced: the pool has then lost it.
Acquired ==
    /\ db = "open" /\ idle > 0
    /\ idle' = idle - 1 /\ UNCHANGED db

NullConnection ==
    \/ db = "closed" /\ UNCHANGED dbVars
    \/ Acquired

\* Mutant: the connection stays with a thread that has gone on.
NeverReleased == UNCHANGED dbVars

Released == idle' = idle + 1 /\ UNCHANGED db

\* Nobody can give a connection back, and whoever asks for one blocks: every
\* connection was lost, or is held by a worker that waits for a second one.
Stuck ==
    /\ db = "open" /\ idle = 0
    /\ \A w \in Workers : at[w] \notin {"query", "nested"}
    /\ cleaner # "query"
-----------------------------------------------------------------------------
(* The worker threads.                                                     *)

\* What a worker does with the mutex and a queue that is not empty.
TakeJob(w) ==
    /\ w \in Alert /\ jobs # <<>>
    /\ jobs' = Tail(jobs)
    /\ thread' = [thread EXCEPT ![w] = "busy"]
    /\ serving' = [serving EXCEPT ![w] = Head(jobs)]
    /\ at' = [at EXCEPT ![w] = "keepAlive"]
    /\ count' = [count EXCEPT ![w] = KeepAliveMax]
    /\ UNCHANGED <<main, signalled, stopping, conn, cleanVars, dbVars>>

\* Mutant: the queue is not looked at.
MayEndEarly == stopping

\* With an empty queue it ends when the pool shuts down, ...
MayEnd == stopping /\ jobs = <<>>

EndThread(w) ==
    /\ w \in Alert /\ MayEnd
    /\ thread' = [thread EXCEPT ![w] = "ended"]
    /\ UNCHANGED <<main, signalled, jobs, stopping, serving, at, count, conn, cleanVars, dbVars>>

\* ... and else waits, or gives up when its idle timeout has passed.
Wait(w) ==
    /\ w \in Alert /\ jobs = <<>> /\ ~stopping
    /\ thread' = [thread EXCEPT ![w] = IF thread[w] = "timedOut" THEN "finished" ELSE "waiting"]
    /\ UNCHANGED <<main, signalled, jobs, stopping, serving, at, count, conn, cleanVars, dbVars>>

\* wait_for() times out in a dynamic thread; no notification reaches it any more.
IdleTimeout(w) ==
    /\ w \in Dynamic /\ thread[w] = "waiting"
    /\ thread' = [thread EXCEPT ![w] = "timedOut"]
    /\ UNCHANGED <<main, signalled, jobs, stopping, serving, at, count, conn, cleanVars, dbVars>>

SpuriousWakeup(w) ==
    /\ thread[w] = "waiting"
    /\ thread' = [thread EXCEPT ![w] = "woken"]
    /\ UNCHANGED <<main, signalled, jobs, stopping, serving, at, count, conn, cleanVars, dbVars>>

(* process_and_close_socket(): the keep-alive loop of one connection.      *)

Step(w, from, to) == at[w] = from /\ at' = [at EXCEPT ![w] = to]

\* A request arrives whose handler asks the database ...
DatabaseRequest(w) ==
    /\ Step(w, "keepAlive", "acquire")
    /\ UNCHANGED <<main, signalled, jobs, stopping, thread, serving, count, conn, cleanVars, dbVars>>

\* ... or one that is answered without it: a file, a request refused for what it says.
PlainRequest(w) ==
    /\ Step(w, "keepAlive", "answer")
    /\ UNCHANGED <<main, signalled, jobs, stopping, thread, serving, count, conn, cleanVars, dbVars>>

Acquire(w) ==
    /\ Step(w, "acquire", "query") /\ Acquired
    /\ UNCHANGED <<main, signalled, jobs, stopping, thread, serving, count, conn, cleanVars>>

AcquireFails(w) ==
    /\ Step(w, "acquire", "answer") /\ NullConnection
    /\ UNCHANGED <<main, signalled, jobs, stopping, thread, serving, count, conn, cleanVars>>

\* ProblemMapper::findById(), insert() and update() call TestCaseMapper, which asks
\* for a connection of its own ...
OpenInner(w) ==
    /\ Step(w, "query", "inner")
    /\ UNCHANGED <<main, signalled, jobs, stopping, thread, serving, count, conn, cleanVars, dbVars>>

AcquireInner(w) ==
    /\ Step(w, "inner", "nested") /\ Acquired
    /\ UNCHANGED <<main, signalled, jobs, stopping, thread, serving, count, conn, cleanVars>>

InnerFails(w) ==
    /\ Step(w, "inner", "query") /\ NullConnection
    /\ UNCHANGED <<main, signalled, jobs, stopping, thread, serving, count, conn, cleanVars>>

\* ... and gives it back; the next test case asks again.
CloseInner(w) ==
    /\ Step(w, "nested", "query") /\ Released
    /\ UNCHANGED <<main, signalled, jobs, stopping, thread, serving, count, conn, cleanVars>>

\* The mapper gives its connection back, also when the handler throws.  Calls of
\* mappers that follow one another hold nothing in between and stand here for one.
Query(w) ==
    /\ Step(w, "query", "answer") /\ Released
    /\ UNCHANGED <<main, signalled, jobs, stopping, thread, serving, count, conn, cleanVars>>

\* execute() has read the problem and judges the submission without a connection.
Submission(w) ==
    /\ Step(w, "query", "judge") /\ Released
    /\ UNCHANGED <<main, signalled, jobs, stopping, thread, serving, count, conn, cleanVars>>

\* execute() returns, if it does: Judge models its waits, of which some have no limit.
Judged(w) ==
    /\ Step(w, "judge", "answer")
    /\ UNCHANGED <<main, signalled, jobs, stopping, thread, serving, count, conn, cleanVars, dbVars>>

\* Mutant: the socket stays open.
LeaveOpen(w) == UNCHANGED conn

\* close_socket()
CloseSocket(w) == conn' = [conn EXCEPT ![serving[w]] = "closed"]

\* The socket is closed and the worker goes back to the queue.
CloseConnection(w) ==
    /\ CloseSocket(w)
    /\ thread' = [thread EXCEPT ![w] = "looking"]
    /\ serving' = [serving EXCEPT ![w] = None]
    /\ at' = [at EXCEPT ![w] = "none"]
    /\ count' = [count EXCEPT ![w] = 0]
    /\ UNCHANGED <<main, signalled, jobs, stopping, cleanVars, dbVars>>

\* No request within the keep-alive timeout, or the client is gone.
Silence(w) == at[w] = "keepAlive" /\ CloseConnection(w)

\* The answer cannot be written, the request asked to close, or it was the last.
AnswerLast(w) == at[w] = "answer" /\ CloseConnection(w)

Answer(w) ==
    /\ Step(w, "answer", "keepAlive")
    /\ count[w] > 1
    /\ count' = [count EXCEPT ![w] = @ - 1]
    /\ UNCHANGED <<main, signalled, jobs, stopping, thread, serving, conn, cleanVars, dbVars>>
-----------------------------------------------------------------------------
(* The cleanup thread.                                                     *)

CleanerGoes(from, to) ==
    /\ cleaner = from /\ cleaner' = to
    /\ UNCHANGED <<main, signalled, jobs, stopping, workVars, conn, cleaning>>

\* The interval has passed and the flag, read once more, is still set.
CleanupDue == cleaning /\ CleanerGoes("sleep", "acquire") /\ UNCHANGED dbVars

CleanupEnds == ~cleaning /\ CleanerGoes("sleep", "ended") /\ UNCHANGED dbVars

CleanupAcquires == CleanerGoes("acquire", "query") /\ Acquired

CleanupGetsNull == CleanerGoes("acquire", "sleep") /\ NullConnection

CleanupQueries == CleanerGoes("query", "sleep") /\ Released
-----------------------------------------------------------------------------
WorkerStep(w) ==
    \/ TakeJob(w) \/ EndThread(w) \/ Wait(w)
    \/ DatabaseRequest(w) \/ PlainRequest(w) \/ Silence(w)
    \/ Acquire(w) \/ AcquireFails(w) \/ OpenInner(w) \/ AcquireInner(w) \/ InnerFails(w)
    \/ CloseInner(w) \/ Query(w) \/ Submission(w) \/ Answer(w) \/ AnswerLast(w)

CleanerStep == CleanupDue \/ CleanupEnds \/ CleanupAcquires \/ CleanupGetsNull \/ CleanupQueries

\* The steps of main() that wait for nobody outside the process.
MainStep ==
    \/ Load \/ LoadFails \/ OpenPool \/ StartCleanup \/ Bind \/ BindFails
    \/ NotifyJob \/ SetShutdown \/ NotifyAll \/ JoinWorkers
    \/ StopCleanup \/ JoinCleanup \/ ClosePool \/ CloseLogger

\* Nothing is left to do, or everybody waits for a connection nobody gives back.
Rest == (main \in {"failed", "exited"} \/ Stuck) /\ UNCHANGED vars

Next ==
    \/ MainStep \/ AcceptFails \/ Signal
    \/ \E c \in Clients : Enqueue(c)
    \/ \E w \in Workers : WorkerStep(w) \/ Judged(w) \/ IdleTimeout(w) \/ SpuriousWakeup(w)
    \/ CleanerStep
    \/ Rest

Spec == Init /\ [][Next]_vars

\* Every thread that can run does so, and a problem has finitely many test cases.
\* A caller that finds a connection idle again and again gets one of them: acquire()
\* serves nobody first.  That execute() returns is not assumed.
Fairness ==
    /\ WF_vars(MainStep)
    /\ \A w \in Workers :
        /\ WF_vars(WorkerStep(w))
        /\ SF_vars(Acquire(w) \/ AcquireFails(w))
        /\ SF_vars(AcquireInner(w) \/ InnerFails(w))
        /\ SF_vars(Query(w) \/ Submission(w))
    /\ WF_vars(CleanerStep)

FairSpec == Spec /\ Fairness
-----------------------------------------------------------------------------
(* Properties.                                                             *)

Ats == {"none", "keepAlive", "acquire", "query", "inner", "nested", "judge", "answer"}

\* Every variable has its type, and a worker serves a connection exactly while it
\* is busy.
TypeOK ==
    /\ main \in {"load", "failed", "openPool", "startCleanup", "bind", "accept", "notify",
                 "setShutdown", "notifyAll", "join", "stopCleanup", "joinCleanup",
                 "closePool", "closeLogger", "exited"}
    /\ signalled \in BOOLEAN
    /\ stopping \in BOOLEAN /\ cleaning \in BOOLEAN
    /\ jobs \in Seq(Clients)
    /\ thread \in [Workers -> {"none", "looking", "waiting", "woken", "timedOut",
                               "busy", "finished", "ended"}]
    /\ serving \in [Workers -> Clients \cup {None}]
    /\ at \in [Workers -> Ats] /\ count \in [Workers -> 0..KeepAliveMax]
    /\ conn \in [Clients -> {"none", "open", "closed"}]
    /\ cleaner \in {"none", "sleep", "acquire", "query", "ended"}
    /\ db \in {"closed", "open"} /\ idle \in Nat
    /\ \A w \in Workers :
          /\ (thread[w] = "busy") <=> (serving[w] # None)
          /\ (thread[w] = "busy") <=> (at[w] # "none")

\* A notification given after the mutex is unlocked, to threads that wake up on
\* their own, time out or are overtaken, does not leave a job behind: while a
\* worker waits, every queued job has an alert worker of its own or its
\* notification is still to come.
NoJobForgotten ==
    Waiting # {} => Len(jobs) <= Cardinality(Alert) + (IF main = "notify" THEN 1 ELSE 0)

\* The accepted sockets are queued or served, each once, and none is closed
\* before its turn or twice.
EachConnectionOnce ==
    /\ \A c \in Clients : (conn[c] = "open") <=>
          \/ \E i \in DOMAIN jobs : jobs[i] = c
          \/ \E w \in Workers : serving[w] = c
    /\ \A i, j \in DOMAIN jobs : jobs[i] = jobs[j] => i = j
    /\ \A w \in Workers : \A i \in DOMAIN jobs : serving[w] # jobs[i]
    /\ \A v, w \in Workers : serving[v] = serving[w] /\ serving[v] # None => v = w

\* The database and the log outlive their users: from ConnectionPool::shutdown()
\* on no worker, no cleanup thread and no accepted connection is left, and no
\* connection of the database is lent out.
ResourcesOutliveThreads ==
    main \in {"closePool", "closeLogger", "exited"} =>
        /\ \A w \in Workers : thread[w] \in {"none", "ended", "finished"} /\ at[w] = "none"
        /\ cleaner = "ended" /\ ~cleaning
        /\ jobs = <<>> /\ \A c \in Clients : conn[c] # "open"

\* A worker that waits for a connection nobody can give back, or for execute().
HeldUp(w) == (at[w] \in {"acquire", "inner"} /\ Stuck) \/ at[w] = "judge"

\* A thread of the server is held up for ever.  MapperPool says when the pool does
\* not get stuck, and Judge when execute() returns.
SomebodyHeldUp ==
    \/ \E w \in Workers : <>[]HeldUp(w)
    \/ <>[](cleaner = "acquire" /\ Stuck)

\* Every accepted connection is served and closed in the end, also one that was
\* still queued when the worker pool shut down, unless a thread is held up for ever.
AcceptedIsClosed ==
    (\A c \in Clients : conn[c] = "open" ~> conn[c] = "closed") \/ SomebodyHeldUp

\* Once the accept loop has ended, the process ends, unless a thread that is joined is
\* held up for ever: the pool, whose shutdown() would free it, is closed only after
\* the joins.
ListenEndExits == (main = "setShutdown" ~> main = "exited") \/ SomebodyHeldUp

\* The threads of the server use the pool as ConnectionCount says: what a worker or
\* the cleanup thread acquired it gives back once and before it goes on, on every
\* path; the pool is opened and closed around all of them.
Count == INSTANCE ConnectionCount WITH ready <- (db = "open"), idle <- idle, lent <- Lent

CountsConnections == Count!Spec

\* DEPLOY.md: the service exits gracefully on SIGINT and SIGTERM; here, unless a
\* thread is held up for ever.
SignalStops == (signalled ~> main = "exited") \/ SomebodyHeldUp
=============================================================================
