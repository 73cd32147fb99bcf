-------------------------- MODULE HttpServerProofs --------------------------
(* What HttpServer promises, for every number of threads, connections of     *)
(* clients and of the database, and requests per connection.                 *)
EXTENDS HttpServer, DataTheorems

\* main() before it listens, and after it has joined the worker threads or has
\* never made them.
Early == {"load", "failed", "openPool", "startCleanup", "bind"}
Over  == {"stopCleanup", "joinCleanup", "closePool", "closeLogger", "exited"}

\* How far the threads are when main() is somewhere.  A base thread neither times
\* out nor goes away before the queue is empty and the pool shuts down: joining it
\* is what says that no job is left.
Lifecycle ==
    /\ stopping => main \in {"notifyAll", "join"} \cup Over
    /\ \A b \in Base : /\ thread[b] \notin {"timedOut", "finished"}
                       /\ thread[b] = "none" => main \in Early \cup Over
    /\ main \in Early \cup Over =>
          jobs = <<>> /\ \A w \in Workers : thread[w] \in {"none", "ended", "finished"}
    /\ \A w \in Workers : thread[w] = "ended" => stopping /\ jobs = <<>>
    /\ main \in {"joinCleanup", "closePool", "closeLogger", "exited"} => ~cleaning
    /\ main \in {"closePool", "closeLogger", "exited"} => cleaner = "ended"
-----------------------------------------------------------------------------
(* Types.                                                                  *)

Threads == {"none", "looking", "waiting", "woken", "timedOut", "busy", "finished", "ended"}
Mains == {"load", "failed", "openPool", "startCleanup", "bind", "accept", "notify",
          "setShutdown", "notifyAll", "join", "stopCleanup", "joinCleanup",
          "closePool", "closeLogger", "exited"}

\* What TypeOK says of the worker threads.
WorkersOK ==
    /\ thread \in [Workers -> Threads]
    /\ serving \in [Workers -> Clients \cup {None}]
    /\ at \in [Workers -> Ats] /\ count \in [Workers -> 0..KeepAliveMax]
    /\ \A w \in Workers :
          /\ (thread[w] = "busy") <=> (serving[w] # None)
          /\ (thread[w] = "busy") <=> (at[w] # "none")

\* ... and of the rest.
ProcessOK ==
    /\ main \in Mains
    /\ signalled \in BOOLEAN
    /\ stopping \in BOOLEAN /\ cleaning \in BOOLEAN
    /\ jobs \in Seq(Clients)
    /\ conn \in [Clients -> {"none", "open", "closed"}]
    /\ cleaner \in {"none", "sleep", "acquire", "query", "ended"}
    /\ db \in {"closed", "open"} /\ idle \in Nat

LEMMA TypeParts == TypeOK <=> WorkersOK /\ ProcessOK
  BY DEF TypeOK, WorkersOK, ProcessOK, Threads, Mains

LEMMA TypeInit == Init => TypeOK
<1> SUFFICES ASSUME Init PROVE WorkersOK /\ ProcessOK
  BY TypeParts
<1>1. WorkersOK
  BY KeepAliveAssumption DEF Init, WorkersOK, Threads, Ats
<1>2. ProcessOK
  BY EmptySeq DEF Init, ProcessOK, Mains
<1> QED BY <1>1, <1>2

\* The steps of a request that take a connection, use it and give it back.
UsePool(w) ==
    \/ Acquire(w) \/ AcquireFails(w) \/ OpenInner(w) \/ AcquireInner(w) \/ InnerFails(w)
    \/ CloseInner(w) \/ Query(w) \/ Submission(w)

\* How they change the place of the worker and the pool, and that they change no more.
LEMMA UsePoolGoes ==
    ASSUME NEW w, UsePool(w)
    PROVE  /\ UNCHANGED <<main, signalled, jobs, stopping, thread, serving, count, conn,
                         cleaner, cleaning>>
           /\ \/ at[w] = "acquire" /\ at' = [at EXCEPT ![w] = "query"] /\ Acquired
              \/ at[w] = "inner" /\ at' = [at EXCEPT ![w] = "nested"] /\ Acquired
              \/ at[w] = "acquire" /\ at' = [at EXCEPT ![w] = "answer"] /\ NullConnection
              \/ at[w] = "inner" /\ at' = [at EXCEPT ![w] = "query"] /\ NullConnection
              \/ at[w] = "query" /\ at' = [at EXCEPT ![w] = "inner"] /\ UNCHANGED dbVars
              \/ at[w] = "nested" /\ at' = [at EXCEPT ![w] = "query"] /\ Released
              \/ at[w] = "query" /\ at' = [at EXCEPT ![w] = "answer"] /\ Released
              \/ at[w] = "query" /\ at' = [at EXCEPT ![w] = "judge"] /\ Released
BY DEF UsePool, Acquire, AcquireFails, OpenInner, AcquireInner, InnerFails, CloseInner, Query,
       Submission, Step, cleanVars

\* The steps of a worker keep the type of every thread.
LEMMA WorkerKeepsWorkers ==
    ASSUME TypeOK, NEW w \in Workers,
           WorkerStep(w) \/ Judged(w) \/ IdleTimeout(w) \/ SpuriousWakeup(w)
    PROVE  WorkersOK'
<1> USE TypeParts DEF WorkersOK, Threads, Ats
<1>1. CASE TakeJob(w)
  <2>1. Head(jobs) \in Clients /\ Head(jobs) # None
    BY <1>1, ClientsAssumption DEF TakeJob, ProcessOK
  <2> QED BY <1>1, <2>1, KeepAliveAssumption DEF TakeJob, Alert
<1>2. CASE EndThread(w) \/ Wait(w) \/ IdleTimeout(w) \/ SpuriousWakeup(w)
  BY <1>2 DEF EndThread, Wait, IdleTimeout, SpuriousWakeup, Alert
<1>3. CASE DatabaseRequest(w) \/ PlainRequest(w) \/ UsePool(w) \/ Judged(w)
  BY <1>3, UsePoolGoes DEF DatabaseRequest, PlainRequest, Judged, Step
<1>4. CASE Answer(w)
  BY <1>4, KeepAliveAssumption DEF Answer, Step
<1>5. CASE Silence(w) \/ AnswerLast(w)
  BY <1>5, KeepAliveAssumption DEF Silence, AnswerLast, CloseConnection
<1> QED BY <1>1, <1>2, <1>3, <1>4, <1>5 DEF WorkerStep, UsePool

LEMMA WorkerKeepsProcess ==
    ASSUME TypeOK, NEW w \in Workers,
           WorkerStep(w) \/ Judged(w) \/ IdleTimeout(w) \/ SpuriousWakeup(w)
    PROVE  ProcessOK'
<1> USE TypeParts DEF ProcessOK, workVars, cleanVars, dbVars
<1>1. CASE TakeJob(w)
  BY <1>1 DEF TakeJob
<1>2. CASE EndThread(w) \/ Wait(w) \/ IdleTimeout(w) \/ SpuriousWakeup(w)
  BY <1>2 DEF EndThread, Wait, IdleTimeout, SpuriousWakeup
<1>3. CASE DatabaseRequest(w) \/ PlainRequest(w) \/ Answer(w) \/ Judged(w)
  BY <1>3 DEF DatabaseRequest, PlainRequest, Answer, Judged
<1>4. CASE UsePool(w)
  BY <1>4, UsePoolGoes DEF Acquired, NullConnection, Released
<1>5. CASE Silence(w) \/ AnswerLast(w)
  BY <1>5 DEF Silence, AnswerLast, CloseConnection, CloseSocket
<1> QED BY <1>1, <1>2, <1>3, <1>4, <1>5 DEF WorkerStep, UsePool

\* A step of main() touches the threads when it makes them, starts one for a
\* connection and wakes them; before it makes them none is busy.
LEMMA MainKeepsWorkers ==
    ASSUME TypeOK, Lifecycle, MainStep \/ AcceptFails \/ (\E c \in Clients : Enqueue(c))
    PROVE  WorkersOK'
<1> USE TypeParts DEF WorkersOK, Threads
<1>1. CASE Bind
  BY <1>1 DEF Bind, MainGoes, Lifecycle, Early
<1>2. ASSUME NEW c \in Clients, Enqueue(c)
      PROVE  WorkersOK'
  <2>1. serving' = serving /\ at' = at /\ count' = count /\ SpawnIfNeeded
    BY <1>2 DEF Enqueue
  <2>2. CASE thread' = thread
    BY <2>1, <2>2
  <2>3. CASE thread' # thread
    <3>1. PICK d \in Dynamic :
             /\ thread[d] \in {"none", "finished"}
             /\ thread' = [w \in Workers |->
                             IF w = d THEN "looking"
                             ELSE IF thread[w] = "finished" THEN "none" ELSE thread[w]]
      BY <2>1, <2>3 DEF SpawnIfNeeded
    <3>2. thread' \in [Workers -> Threads]
      BY <3>1
    <3>3. \A w \in Workers : thread'[w] = "busy" <=> thread[w] = "busy"
      BY <3>1
    <3> QED BY <2>1, <3>2, <3>3
  <2> QED BY <2>2, <2>3
<1>3. CASE NotifyJob \/ NotifyAll
  BY <1>3 DEF NotifyJob, NotifyAll, NotifyOne, NotifyNobody, WakeAll, Waiting
<1>4. CASE LoadFails \/ Load \/ OpenPool \/ StartCleanup \/ BindFails \/ AcceptFails
           \/ SetShutdown \/ JoinWorkers \/ StopCleanup \/ JoinCleanup \/ ClosePool \/ CloseLogger
  BY <1>4 DEF LoadFails, Load, OpenPool, StartCleanup, BindFails, AcceptFails, SetShutdown,
              JoinWorkers, StopCleanup, JoinCleanup, ClosePool, CloseLogger, workVars
<1> QED BY <1>1, <1>2, <1>3, <1>4 DEF MainStep

LEMMA MainKeepsProcess ==
    ASSUME TypeOK, MainStep \/ AcceptFails \/ (\E c \in Clients : Enqueue(c))
    PROVE  ProcessOK'
<1> USE TypeParts DEF ProcessOK, Mains, MainGoes, workVars, cleanVars, dbVars
<1>1. CASE OpenPool
  BY <1>1, KeepAliveAssumption DEF OpenPool
<1>2. ASSUME NEW c \in Clients, Enqueue(c)
      PROVE  ProcessOK'
  BY <1>2 DEF Enqueue
<1>3. CASE Bind \/ NotifyJob \/ NotifyAll
  BY <1>3 DEF Bind, NotifyJob, NotifyAll
<1>4. CASE LoadFails \/ Load \/ BindFails \/ AcceptFails \/ SetShutdown \/ JoinWorkers
           \/ JoinCleanup \/ CloseLogger
  BY <1>4 DEF LoadFails, Load, BindFails, AcceptFails, SetShutdown, JoinWorkers, JoinCleanup,
              CloseLogger
<1>5. CASE StartCleanup \/ StopCleanup
  BY <1>5 DEF StartCleanup, StopCleanup
<1>6. CASE ClosePool
  BY <1>6 DEF ClosePool
<1> QED BY <1>1, <1>2, <1>3, <1>4, <1>5, <1>6 DEF MainStep

LEMMA TypeStep ==
    ASSUME TypeOK, Lifecycle, [Next]_vars
    PROVE  TypeOK'
<1>1. ASSUME NEW w \in Workers, WorkerStep(w) \/ Judged(w) \/ IdleTimeout(w) \/ SpuriousWakeup(w)
      PROVE  TypeOK'
  BY <1>1, WorkerKeepsWorkers, WorkerKeepsProcess, TypeParts, PTL
<1>2. CASE MainStep \/ AcceptFails \/ (\E c \in Clients : Enqueue(c))
  BY <1>2, MainKeepsWorkers, MainKeepsProcess, TypeParts, PTL
<1>3. CASE CleanerStep
  BY <1>3 DEF CleanerStep, CleanupDue, CleanupEnds, CleanupAcquires, CleanupGetsNull,
              CleanupQueries, CleanerGoes, Acquired, NullConnection, Released, workVars, dbVars,
              TypeOK
<1>4. CASE Signal
  BY <1>4 DEF Signal, TypeOK, workVars, cleanVars, dbVars
<1>5. CASE UNCHANGED vars
  BY <1>5 DEF TypeOK, vars, workVars, cleanVars, dbVars
<1> QED BY <1>1, <1>2, <1>3, <1>4, <1>5 DEF Next, Rest
-----------------------------------------------------------------------------
(* The order of main() and the threads.                                    *)

LEMMA LifecycleInit == Init => Lifecycle
  BY DEF Init, Lifecycle, Early, Over, Workers

LEMMA WorkerKeepsLifecycle ==
    ASSUME TypeOK, Lifecycle, NEW w \in Workers,
           WorkerStep(w) \/ Judged(w) \/ IdleTimeout(w) \/ SpuriousWakeup(w)
    PROVE  Lifecycle'
<1> USE DEF Lifecycle, Early, Over, Workers, Alert, cleanVars
<1>1. thread \in [Workers -> Threads] /\ (at[w] # "none" => thread[w] = "busy")
  BY TypeParts DEF WorkersOK
<1>2. CASE TakeJob(w)
  BY <1>1, <1>2 DEF TakeJob
<1>3. CASE EndThread(w)
  BY <1>1, <1>3 DEF EndThread, MayEnd
<1>4. CASE Wait(w)
  BY <1>1, <1>4 DEF Wait
<1>5. CASE IdleTimeout(w)
  BY <1>1, <1>5, ThreadsAssumption DEF IdleTimeout
<1>6. CASE SpuriousWakeup(w)
  BY <1>1, <1>6 DEF SpuriousWakeup
<1>7. CASE DatabaseRequest(w) \/ PlainRequest(w) \/ UsePool(w) \/ Judged(w) \/ Answer(w)
  BY <1>7, UsePoolGoes DEF DatabaseRequest, PlainRequest, Judged, Answer
<1>8. CASE Silence(w) \/ AnswerLast(w)
  BY <1>1, <1>8 DEF Silence, AnswerLast, CloseConnection
<1> QED BY <1>2, <1>3, <1>4, <1>5, <1>6, <1>7, <1>8 DEF WorkerStep, UsePool

\* The thread of Base is what makes joining wait for the queue to be empty.
LEMMA JoinKeepsLifecycle ==
    ASSUME TypeOK, Lifecycle, JoinWorkers
    PROVE  Lifecycle'
<1>1. PICK b \in Base : TRUE
  BY ThreadsAssumption
<1>2. thread[b] = "ended"
  BY <1>1 DEF JoinWorkers, MainGoes, Joined, Lifecycle, Early, Over, Workers
<1>3. stopping /\ jobs = <<>>
  BY <1>1, <1>2 DEF Lifecycle, Workers
<1> QED BY <1>3 DEF JoinWorkers, MainGoes, Joined, Lifecycle, Early, Over, workVars, cleanVars

LEMMA MainKeepsLifecycle ==
    ASSUME TypeOK, Lifecycle, MainStep \/ AcceptFails \/ (\E c \in Clients : Enqueue(c))
    PROVE  Lifecycle'
<1> USE DEF Lifecycle, Early, Over, MainGoes, workVars, cleanVars
<1>1. thread \in [Workers -> Threads]
  BY TypeParts DEF WorkersOK
<1>2. CASE Bind
  BY <1>1, <1>2 DEF Bind, Workers
<1>3. ASSUME NEW c \in Clients, Enqueue(c)
      PROVE  Lifecycle'
  BY <1>1, <1>3, ThreadsAssumption DEF Enqueue, SpawnIfNeeded, Workers
<1>4. CASE NotifyJob \/ NotifyAll
  BY <1>1, <1>4 DEF NotifyJob, NotifyAll, NotifyOne, NotifyNobody, WakeAll, Waiting, Workers
<1>5. CASE LoadFails \/ Load \/ OpenPool \/ StartCleanup \/ BindFails
  BY <1>5 DEF LoadFails, Load, OpenPool, StartCleanup, BindFails
<1>6. CASE AcceptFails \/ SetShutdown
  BY <1>6 DEF AcceptFails, SetShutdown
<1>7. CASE StopCleanup \/ JoinCleanup \/ ClosePool \/ CloseLogger
  BY <1>7 DEF StopCleanup, JoinCleanup, ClosePool, CloseLogger
<1> QED BY <1>2, <1>3, <1>4, <1>5, <1>6, <1>7, JoinKeepsLifecycle DEF MainStep

LEMMA LifecycleStep ==
    ASSUME TypeOK, Lifecycle, [Next]_vars
    PROVE  Lifecycle'
<1>1. ASSUME NEW w \in Workers, WorkerStep(w) \/ Judged(w) \/ IdleTimeout(w) \/ SpuriousWakeup(w)
      PROVE  Lifecycle'
  BY <1>1, WorkerKeepsLifecycle
<1>2. CASE MainStep \/ AcceptFails \/ (\E c \in Clients : Enqueue(c))
  BY <1>2, MainKeepsLifecycle
<1>3. CASE CleanerStep
  BY <1>3 DEF CleanerStep, CleanupDue, CleanupEnds, CleanupAcquires, CleanupGetsNull,
              CleanupQueries, CleanerGoes, workVars, Lifecycle
<1>4. CASE Signal \/ UNCHANGED vars
  BY <1>4 DEF Signal, Lifecycle, vars, workVars, cleanVars
<1> QED BY <1>1, <1>2, <1>3, <1>4 DEF Next, Rest

LEMMA TypeCorrectOrdered == Spec => [](TypeOK /\ Lifecycle)
<1>1. Init => TypeOK /\ Lifecycle
  BY TypeInit, LifecycleInit
<1>2. TypeOK /\ Lifecycle /\ [Next]_vars => (TypeOK /\ Lifecycle)'
  BY TypeStep, LifecycleStep
<1> QED BY <1>1, <1>2, PTL DEF Spec

\* Every reachable state of the server is well typed, and a worker serves a
\* connection exactly while it is busy.
THEOREM TypeCorrect == Spec => []TypeOK
  BY TypeCorrectOrdered, PTL
-----------------------------------------------------------------------------
(* The steps that move connections.                                        *)

\* What the other steps leave alone.
Quiet ==
    /\ UNCHANGED <<jobs, thread, serving, conn>>
    /\ main = "notify" => main' = "notify"

\* Silence and AnswerLast.
Hangup(w) == at[w] # "none" /\ CloseConnection(w)

LEMMA OnlyThese ==
    ASSUME [Next]_vars
    PROVE  \/ Quiet
           \/ Bind \/ NotifyJob \/ NotifyAll
           \/ \E c \in Clients : Enqueue(c)
           \/ \E w \in Workers : TakeJob(w) \/ EndThread(w) \/ Wait(w) \/ IdleTimeout(w)
                                 \/ SpuriousWakeup(w) \/ Hangup(w)
<1> USE DEF Quiet, workVars, cleanVars, dbVars
<1>1. ASSUME NEW w \in Workers, WorkerStep(w) \/ Judged(w)
      PROVE  Quiet \/ TakeJob(w) \/ EndThread(w) \/ Wait(w)
                   \/ Hangup(w)
  <2>1. CASE Silence(w) \/ AnswerLast(w)
    BY <2>1 DEF Silence, AnswerLast, Hangup
  <2>2. CASE DatabaseRequest(w) \/ PlainRequest(w) \/ UsePool(w) \/ Judged(w) \/ Answer(w)
    BY <2>2, UsePoolGoes DEF DatabaseRequest, PlainRequest, Judged, Answer
  <2> QED BY <1>1, <2>1, <2>2 DEF WorkerStep, UsePool
<1>2. ASSUME MainStep \/ AcceptFails
      PROVE  Quiet \/ Bind \/ NotifyJob \/ NotifyAll
  BY <1>2 DEF MainStep, AcceptFails, LoadFails, Load, OpenPool, StartCleanup, BindFails,
              SetShutdown, JoinWorkers, StopCleanup, JoinCleanup, ClosePool, CloseLogger, MainGoes
<1>3. CASE CleanerStep
  BY <1>3 DEF CleanerStep, CleanupDue, CleanupEnds, CleanupAcquires, CleanupGetsNull,
              CleanupQueries, CleanerGoes
<1>4. CASE Signal \/ UNCHANGED vars
  BY <1>4 DEF Signal, vars
<1> QED BY <1>1, <1>2, <1>3, <1>4 DEF Next, Rest
-----------------------------------------------------------------------------
(* Each accepted connection is in one place.                               *)

\* EachConnectionOnce in terms of sets.
Owned ==
    /\ \A c \in Clients : (conn[c] = "open") <=> c \in Range(jobs) \/ \E w \in Workers : serving[w] = c
    /\ IsInjective(jobs)
    /\ \A w \in Workers : serving[w] \notin Range(jobs)
    /\ \A v, w \in Workers : serving[v] = serving[w] /\ serving[v] # None => v = w

LEMMA OwnedIsOnce == EachConnectionOnce <=> Owned
<1>1. \A c : (\E i \in DOMAIN jobs : jobs[i] = c) <=> c \in Range(jobs)
  BY DEF Range
<1>2. (\A i, j \in DOMAIN jobs : jobs[i] = jobs[j] => i = j) <=> IsInjective(jobs)
  BY DEF IsInjective
<1>3. (\A w \in Workers : \A i \in DOMAIN jobs : serving[w] # jobs[i])
        <=> \A w \in Workers : serving[w] \notin Range(jobs)
  BY <1>1
<1> QED BY <1>1, <1>2, <1>3 DEF EachConnectionOnce, Owned

LEMMA OwnedInit == Init => Owned
<1> SUFFICES ASSUME Init PROVE Owned
  OBVIOUS
<1>1. Range(jobs) = {} /\ IsInjective(jobs)
  BY DEF Init, Range, IsInjective
<1>2. \A w \in Workers : serving[w] = None
  BY DEF Init
<1> QED BY <1>1, <1>2, ClientsAssumption DEF Init, Owned

LEMMA OwnedStep ==
    ASSUME TypeOK, Owned, [Next]_vars
    PROVE  Owned'
<1>1. jobs \in Seq(Clients) /\ serving \in [Workers -> Clients \cup {None}]
      /\ conn \in [Clients -> {"none", "open", "closed"}]
  BY DEF TypeOK
<1>2. CASE UNCHANGED <<jobs, serving, conn>>
  BY <1>2 DEF Owned
<1>3. ASSUME NEW c \in Clients, Enqueue(c)
      PROVE  Owned'
  <2>1. c \notin Range(jobs) /\ \A w \in Workers : serving[w] # c
    BY <1>3 DEF Enqueue, Owned
  <2>2. Range(jobs') = Range(jobs) \cup {c} /\ IsInjective(jobs')
    BY <1>1, <1>3, <2>1, PushBack DEF Enqueue, Owned
  <2> QED BY <1>1, <1>3, <2>1, <2>2 DEF Enqueue, Owned
<1>4. ASSUME NEW w \in Workers, TakeJob(w)
      PROVE  Owned'
  <2> DEFINE c == Head(jobs)
  <2>1. c \in Range(jobs) /\ Range(jobs') = Range(jobs) \ {c} /\ IsInjective(jobs')
    BY <1>1, <1>4, PopFront DEF TakeJob, Owned
  <2>2. c \in Clients
    BY <1>1, <1>4 DEF TakeJob
  <2>3. serving[w] = None
    BY <1>4 DEF TypeOK, TakeJob, Alert
  <2>4. /\ serving'[w] = c /\ conn' = conn
        /\ \A v \in Workers \ {w} : serving'[v] = serving[v]
    BY <1>1, <1>4 DEF TakeJob
  <2>5. \A v \in Workers : serving[v] # c
    BY <2>1 DEF Owned
  <2>6. \A d \in Clients : (conn'[d] = "open")
           <=> d \in Range(jobs') \/ \E v \in Workers : serving'[v] = d
    BY <2>1, <2>2, <2>3, <2>4, ClientsAssumption DEF Owned
  <2>7. \A v \in Workers : serving'[v] \notin Range(jobs')
    BY <2>1, <2>4 DEF Owned
  <2>8. \A u, v \in Workers : serving'[u] = serving'[v] /\ serving'[u] # None => u = v
    BY <2>4, <2>5 DEF Owned
  <2> QED BY <2>1, <2>6, <2>7, <2>8 DEF Owned
<1>5. ASSUME NEW w \in Workers, Hangup(w)
      PROVE  Owned'
  <2>1. serving[w] \in Clients
    BY <1>1, <1>5 DEF TypeOK, Hangup
  <2>2. /\ conn' = [conn EXCEPT ![serving[w]] = "closed"] /\ jobs' = jobs
        /\ serving' = [serving EXCEPT ![w] = None]
    BY <1>5 DEF Hangup, CloseConnection, CloseSocket
  <2>3. serving[w] \notin Range(jobs) /\ \A v \in Workers \ {w} : serving[v] # serving[w]
    BY <2>1, ClientsAssumption DEF Owned
  <2>4. None \notin Range(jobs)
    BY <1>1, ClientsAssumption DEF Range
  <2> QED BY <1>1, <2>1, <2>2, <2>3, <2>4, ClientsAssumption DEF Owned
<1>6. ASSUME NEW w \in Workers,
             EndThread(w) \/ Wait(w) \/ IdleTimeout(w) \/ SpuriousWakeup(w)
      PROVE  Owned'
  BY <1>2, <1>6 DEF EndThread, Wait, IdleTimeout, SpuriousWakeup
<1>7. CASE Quiet \/ Bind \/ NotifyJob \/ NotifyAll
  BY <1>2, <1>7 DEF Quiet, Bind, NotifyJob, NotifyAll
<1> QED BY <1>3, <1>4, <1>5, <1>6, <1>7, OnlyThese

\* Every accepted socket is queued or served, by one worker, and is closed once, for
\* every number of base and dynamic threads, whichever time out, finish and start.
THEOREM EveryConnectionOnce == Spec => []EachConnectionOnce
<1>1. Init => Owned
  BY OwnedInit
<1>2. TypeOK /\ Lifecycle /\ Owned /\ [Next]_vars => Owned'
  BY OwnedStep
<1>3. Owned => EachConnectionOnce
  BY OwnedIsOnce
<1> QED BY <1>1, <1>2, <1>3, TypeCorrectOrdered, PTL DEF Spec

\* The database and the log are closed when no worker, no cleanup thread and no
\* accepted connection is left: what main() closes nobody uses any more.
THEOREM ResourcesLast == Spec => []ResourcesOutliveThreads
<1>1. ASSUME TypeOK, Lifecycle, Owned
      PROVE  ResourcesOutliveThreads
  <2> SUFFICES ASSUME main \in {"closePool", "closeLogger", "exited"}
               PROVE  /\ \A w \in Workers : thread[w] \in {"none", "ended", "finished"} /\ at[w] = "none"
                      /\ cleaner = "ended" /\ ~cleaning
                      /\ jobs = <<>> /\ \A c \in Clients : conn[c] # "open"
    BY DEF ResourcesOutliveThreads
  <2>1. jobs = <<>> /\ \A w \in Workers : thread[w] \in {"none", "ended", "finished"}
    BY <1>1 DEF Lifecycle, Over
  <2>2. cleaner = "ended" /\ ~cleaning
    BY <1>1 DEF Lifecycle
  <2>3. \A w \in Workers : at[w] = "none" /\ serving[w] = None
    BY <1>1, <2>1 DEF TypeOK
  <2>4. Range(jobs) = {}
    BY <2>1 DEF Range
  <2> QED BY <1>1, <2>1, <2>2, <2>3, <2>4, ClientsAssumption DEF Owned
<1>2. Init => Owned
  BY OwnedInit
<1>3. TypeOK /\ Lifecycle /\ Owned /\ [Next]_vars => Owned'
  BY OwnedStep
<1> QED BY <1>1, <1>2, <1>3, TypeCorrectOrdered, PTL DEF Spec
-----------------------------------------------------------------------------
(* No job is left behind by the notification that was given for it.        *)

\* The threads that look at the queue are finitely many, and one more or one less
\* of them changes their number by one.
LEMMA AlertCount ==
    /\ Cardinality(Alert) \in Nat
    /\ \A w \in Workers : w \notin Alert /\ Alert' = Alert \cup {w}
                            => Cardinality(Alert') = Cardinality(Alert) + 1
    /\ \A w \in Workers : w \in Alert /\ Alert' = Alert \ {w}
                            => Cardinality(Alert') = Cardinality(Alert) - 1
    /\ Alert \subseteq Alert' /\ IsFiniteSet(Alert')
                            => Cardinality(Alert) <= Cardinality(Alert')
<1>1. IsFiniteSet(Alert)
  BY ThreadsAssumption, FS_Subset DEF Alert, Workers
<1> QED BY <1>1, FS_CardinalityType, FS_AddElement, FS_RemoveElement, FS_Subset

LEMMA ForgottenStep ==
    ASSUME TypeOK, TypeOK', NoJobForgotten, [Next]_vars
    PROVE  NoJobForgotten'
<1> DEFINE coming == IF main = "notify" THEN 1 ELSE 0
<1>1. /\ jobs \in Seq(Clients) /\ jobs' \in Seq(Clients)
      /\ thread \in [Workers -> Threads] /\ thread' \in [Workers -> Threads]
  BY DEF TypeOK, Threads
<1>2. /\ IsFiniteSet(Alert) /\ IsFiniteSet(Alert')
      /\ Cardinality(Alert) \in Nat /\ Cardinality(Alert') \in Nat
  <2>1. Alert \subseteq Workers /\ Alert' \subseteq Workers
    BY DEF Alert
  <2> QED BY <2>1, ThreadsAssumption, FS_Subset, FS_CardinalityType DEF Workers
<1>3. Len(jobs) \in Nat /\ Len(jobs') \in Nat
  BY <1>1, LenProperties
<1>4. SUFFICES ASSUME Waiting' # {}
               PROVE  Len(jobs') <= Cardinality(Alert') + coming'
  BY DEF NoJobForgotten
<1>5. CASE Quiet
  <2>1. Waiting' = Waiting /\ Alert' = Alert
    BY <1>5 DEF Quiet, Waiting, Alert
  <2> QED BY <1>2, <1>3, <1>4, <1>5, <2>1 DEF Quiet, NoJobForgotten
<1>6. ASSUME NEW c \in Clients, Enqueue(c)
      PROVE  Len(jobs') <= Cardinality(Alert') + coming'
  <2>1. Len(jobs') = Len(jobs) + 1 /\ coming = 0 /\ coming' = 1
    BY <1>1, <1>6, PushBack DEF Enqueue, MainGoes
  <2>2. Waiting' \subseteq Waiting /\ Alert \subseteq Alert'
    BY <1>1, <1>6 DEF Enqueue, SpawnIfNeeded, Waiting, Alert
  <2> QED BY <1>2, <1>3, <1>4, <2>1, <2>2, AlertCount DEF NoJobForgotten
<1>7. CASE NotifyJob
  <2>1. coming = 1 /\ coming' = 0 /\ jobs' = jobs
    BY <1>7 DEF NotifyJob, MainGoes
  <2>2. Waiting # {}
    BY <1>4, <1>7 DEF NotifyJob, NotifyOne, NotifyNobody, Waiting
  <2>3. PICK w \in Waiting : thread' = [thread EXCEPT ![w] = "woken"]
    BY <1>7, <2>2 DEF NotifyJob, NotifyOne
  <2>4. w \in Workers /\ w \notin Alert /\ Alert' = Alert \cup {w}
    BY <1>1, <2>3 DEF Waiting, Alert
  <2>5. Cardinality(Alert') = Cardinality(Alert) + 1
    BY <2>4, AlertCount
  <2> QED BY <1>2, <1>3, <2>1, <2>2, <2>5 DEF NoJobForgotten
<1>8. CASE Bind \/ NotifyAll
  BY <1>1, <1>4, <1>8 DEF Bind, NotifyAll, WakeAll, Waiting
<1>9. ASSUME NEW w \in Workers, TakeJob(w)
      PROVE  Len(jobs') <= Cardinality(Alert') + coming'
  <2>1. Len(jobs') = Len(jobs) - 1 /\ coming' = coming
    BY <1>1, <1>9, HeadTailProperties DEF TakeJob
  <2>2. Waiting' = Waiting /\ w \in Alert /\ Alert' = Alert \ {w}
    BY <1>1, <1>9 DEF TakeJob, Waiting, Alert
  <2>3. Cardinality(Alert') = Cardinality(Alert) - 1
    BY <2>2, AlertCount
  <2> QED BY <1>2, <1>3, <1>4, <2>1, <2>2, <2>3 DEF NoJobForgotten
<1>10. ASSUME NEW w \in Workers, EndThread(w) \/ Wait(w)
       PROVE  Len(jobs') <= Cardinality(Alert') + coming'
  <2>1. jobs' = <<>>
    BY <1>10 DEF EndThread, Wait, MayEnd
  <2>2. Len(jobs') = 0
    BY <2>1
  <2> QED BY <1>2, <2>2
<1>11. ASSUME NEW w \in Workers, IdleTimeout(w) \/ SpuriousWakeup(w) \/ Hangup(w)
       PROVE  Len(jobs') <= Cardinality(Alert') + coming'
  <2>1. jobs' = jobs /\ coming' = coming
    BY <1>11 DEF IdleTimeout, SpuriousWakeup, Hangup, CloseConnection
  <2>2. Waiting' \subseteq Waiting /\ w \notin Alert /\ Alert' = Alert \cup {w}
    BY <1>1, <1>11 DEF TypeOK, IdleTimeout, SpuriousWakeup, Hangup, CloseConnection, Waiting, Alert
  <2>3. Cardinality(Alert') = Cardinality(Alert) + 1
    BY <2>2, AlertCount
  <2> QED BY <1>2, <1>3, <1>4, <2>1, <2>2, <2>3 DEF NoJobForgotten
<1> QED BY <1>5, <1>6, <1>7, <1>8, <1>9, <1>10, <1>11, OnlyThese

\* While a worker waits, every queued job has a thread of its own that will look at
\* the queue, or its notification is still to come: notifying after the mutex is
\* unlocked is sound for every number of threads, although an idle timeout makes
\* a thread deaf to the notification.
THEOREM NoNotificationLost == Spec => []NoJobForgotten
<1>1. Init => NoJobForgotten
  BY DEF Init, NoJobForgotten, Waiting
<1>2. TypeOK /\ TypeOK' /\ NoJobForgotten /\ [Next]_vars => NoJobForgotten'
  BY ForgottenStep
<1> QED BY <1>1, <1>2, TypeCorrectOrdered, PTL DEF Spec
-----------------------------------------------------------------------------
(* The server uses the pool as ConnectionCount says.                       *)

\* main() opens the pool once, before any thread can ask it.
Unopened ==
    /\ main \in {"load", "openPool"} => db = "closed" /\ idle = 0
    /\ main \in {"load", "openPool", "startCleanup"} => cleaner = "none"

LEMMA UnopenedStep ==
    ASSUME TypeOK, Lifecycle, Unopened, [Next]_vars
    PROVE  Unopened'
<1>1. CASE MainStep
  BY <1>1
  DEF Unopened, MainStep, Load, LoadFails, OpenPool, StartCleanup, Bind, BindFails, NotifyJob,
      SetShutdown, NotifyAll, JoinWorkers, StopCleanup, JoinCleanup, ClosePool, CloseLogger,
      MainGoes, cleanVars, dbVars
<1>2. CASE AcceptFails \/ Signal \/ (\E c \in Clients : Enqueue(c)) \/ UNCHANGED vars
  BY <1>2 DEF Unopened, AcceptFails, Signal, Enqueue, MainGoes, vars, cleanVars, dbVars
<1>3. ASSUME NEW w \in Workers, WorkerStep(w) \/ Judged(w) \/ IdleTimeout(w) \/ SpuriousWakeup(w)
      PROVE  Unopened'
  <2>1. main' = main /\ cleaner' = cleaner
    BY <1>3, UsePoolGoes
    DEF WorkerStep, UsePool, IdleTimeout, SpuriousWakeup, TakeJob, EndThread, Wait,
        DatabaseRequest, PlainRequest, Judged, Silence, Answer, AnswerLast, CloseConnection,
        cleanVars
  <2>2. at[w] # "none" \/ UNCHANGED dbVars
    BY <1>3, UsePoolGoes
    DEF WorkerStep, UsePool, IdleTimeout, SpuriousWakeup, TakeJob, EndThread, Wait,
        DatabaseRequest, PlainRequest, Judged, Silence, Answer, AnswerLast, CloseConnection
  <2>3. main \in {"load", "openPool"} => at[w] = "none"
    BY DEF Lifecycle, Early, TypeOK
  <2>4. main \in {"load", "openPool"} => UNCHANGED dbVars
    BY <2>2, <2>3
  <2> QED BY <2>1, <2>4 DEF Unopened, dbVars
<1>4. CASE CleanerStep
  <2>1. main' = main /\ cleaner # "none"
    BY <1>4 DEF CleanerStep, CleanupDue, CleanupEnds, CleanupAcquires, CleanupGetsNull,
                CleanupQueries, CleanerGoes
  <2> QED BY <2>1 DEF Unopened
<1> QED BY <1>1, <1>2, <1>3, <1>4 DEF Next, Rest

\* How many connections a worker holds at a place.
Holds(place) == IF place = "nested" THEN 2 ELSE IF place \in {"query", "inner"} THEN 1 ELSE 0

\* A set of threads that one of them enters or leaves.
LEMMA OneThread ==
    ASSUME NEW S, NEW T, S \subseteq Workers, NEW w \in Workers, S \ {w} = T \ {w}
    PROVE  /\ Cardinality(S) \in Nat /\ Cardinality(T) \in Nat
           /\ w \in S /\ w \notin T => Cardinality(T) = Cardinality(S) - 1
           /\ w \notin S /\ w \in T => Cardinality(T) = Cardinality(S) + 1
           /\ (w \in S <=> w \in T) => Cardinality(T) = Cardinality(S)
<1>1. IsFiniteSet(S) /\ IsFiniteSet(T)
  <2>1. S \subseteq Workers /\ T \subseteq Workers
    OBVIOUS
  <2> QED BY <2>1, ThreadsAssumption, FS_Subset DEF Workers
<1>2. Cardinality(S) \in Nat /\ Cardinality(T) \in Nat
  BY <1>1, FS_CardinalityType
<1>3. ASSUME w \in S, w \notin T
      PROVE  Cardinality(T) = Cardinality(S) - 1
  <2>1. T = S \ {w}
    BY <1>3
  <2> QED BY <1>1, <1>3, <2>1, FS_RemoveElement
<1>4. ASSUME w \notin S, w \in T
      PROVE  Cardinality(T) = Cardinality(S) + 1
  <2>1. T = S \cup {w}
    BY <1>4
  <2> QED BY <1>1, <1>4, <2>1, FS_AddElement
<1>5. ASSUME w \in S <=> w \in T
      PROVE  S = T
  BY <1>5
<1> QED BY <1>2, <1>3, <1>4, <1>5

\* A worker that goes from one place to another in its loop changes Lent by what it
\* holds at the two places.
LEMMA LentByWorker ==
    ASSUME TypeOK, NEW w \in Workers, NEW to \in Ats, at' = [at EXCEPT ![w] = to],
           cleaner' = cleaner
    PROVE  /\ Lent \in Nat /\ Lent >= Holds(at[w])
           /\ Lent' = Lent + Holds(to) - Holds(at[w])
<1> DEFINE more == IF cleaner = "query" THEN 1 ELSE 0
           o == Cardinality(Outer)
           n == Cardinality(Inner)
<1>1. at \in [Workers -> Ats] /\ at'[w] = to /\ \A v \in Workers \ {w} : at'[v] = at[v]
  BY DEF TypeOK
<1>2. Lent = o + n + more /\ Lent' = o' + n' + more /\ more \in Nat
  BY DEF Lent
<1>3. /\ o \in Nat /\ o' \in Nat
      /\ w \in Outer /\ w \notin Outer' => o' = o - 1
      /\ w \notin Outer /\ w \in Outer' => o' = o + 1
      /\ (w \in Outer <=> w \in Outer') => o' = o
  <2>1. Outer \subseteq Workers /\ Outer \ {w} = Outer' \ {w}
    BY <1>1 DEF Outer
  <2> QED BY <2>1, OneThread
<1>4. /\ n \in Nat /\ n' \in Nat
      /\ w \in Inner /\ w \notin Inner' => n' = n - 1
      /\ w \notin Inner /\ w \in Inner' => n' = n + 1
      /\ (w \in Inner <=> w \in Inner') => n' = n
  <2>1. Inner \subseteq Workers /\ Inner \ {w} = Inner' \ {w}
    BY <1>1 DEF Inner
  <2> QED BY <2>1, OneThread
<1>5. (w \in Outer => o > 0) /\ (w \in Inner => n > 0)
  <2>1. ASSUME NEW S, S \subseteq Workers, w \in S
        PROVE  Cardinality(S) > 0
    <3>1. (S \ {w}) \subseteq Workers /\ S \ {w} = (S \ {w}) \ {w}
      BY <2>1
    <3>2. Cardinality(S \ {w}) = Cardinality(S) - 1 /\ Cardinality(S \ {w}) \in Nat
          /\ Cardinality(S) \in Nat
      BY <2>1, <3>1, OneThread
    <3> QED BY <3>2
  <2> QED BY <2>1 DEF Outer, Inner
<1>6. /\ w \in Outer <=> at[w] \in {"query", "inner", "nested"}
      /\ w \in Outer' <=> to \in {"query", "inner", "nested"}
      /\ w \in Inner <=> at[w] = "nested"
      /\ w \in Inner' <=> to = "nested"
  BY <1>1 DEF Outer, Inner
<1> HIDE DEF more, o, n
<1>7. Lent \in Nat /\ Lent >= Holds(at[w])
  BY <1>2, <1>3, <1>4, <1>5, <1>6 DEF Holds
<1>8. /\ o' = o + (IF to \in {"query", "inner", "nested"} THEN 1 ELSE 0)
              - (IF at[w] \in {"query", "inner", "nested"} THEN 1 ELSE 0)
      /\ n' = n + (IF to = "nested" THEN 1 ELSE 0) - (IF at[w] = "nested" THEN 1 ELSE 0)
  BY <1>3, <1>4, <1>6
<1> QED BY <1>2, <1>3, <1>4, <1>7, <1>8 DEF Holds

\* The same for the cleanup thread.
LEMMA LentByCleaner ==
    ASSUME TypeOK, at' = at
    PROVE  /\ Lent \in Nat
           /\ cleaner # "query" /\ cleaner' = "query" => Lent' = Lent + 1
           /\ cleaner = "query" /\ cleaner' # "query" => Lent' = Lent - 1 /\ Lent > 0
           /\ cleaner # "query" /\ cleaner' # "query" => Lent' = Lent
           /\ cleaner' = cleaner => Lent' = Lent
<1> DEFINE n == Cardinality(Outer) + Cardinality(Inner)
<1>1. Lent = n + (IF cleaner = "query" THEN 1 ELSE 0)
  BY DEF Lent
<1>2. Lent' = n + (IF cleaner' = "query" THEN 1 ELSE 0)
  BY DEF Lent, Outer, Inner
<1>3. n \in Nat
  BY ThreadsAssumption, FS_Subset, FS_CardinalityType DEF Outer, Inner, Workers
<1> HIDE DEF n
<1> QED BY <1>1, <1>2, <1>3

\* Each step of the server is one of the count, or none.
LEMMA UseStep ==
    ASSUME TypeOK, Lifecycle, Unopened, [Next]_vars
    PROVE  [Count!Next]_Count!vars
<1>1. ASSUME Acquired, Lent' = Lent + 1
      PROVE  Count!Next
  BY <1>1 DEF Acquired, Count!Next, Count!Lend, Count!TakeIdle
<1>2. ASSUME NullConnection, Lent' = Lent
      PROVE  [Count!Next]_Count!vars
  BY <1>2 DEF NullConnection, Acquired, Count!Next, Count!Lose, Count!TakeIdle, Count!vars, dbVars
<1>3. ASSUME Released, Lent' = Lent - 1, Lent > 0
      PROVE  Count!Next
  BY <1>3 DEF Released, Count!Next, Count!GiveBack
<1>4. ASSUME UNCHANGED dbVars, Lent' = Lent
      PROVE  UNCHANGED Count!vars
  BY <1>4 DEF Count!vars, dbVars
<1>5. ASSUME NEW w \in Workers, WorkerStep(w) \/ Judged(w) \/ IdleTimeout(w) \/ SpuriousWakeup(w)
      PROVE  [Count!Next]_Count!vars
  <2>1. cleaner' = cleaner
    BY <1>5, UsePoolGoes
    DEF WorkerStep, UsePool, IdleTimeout, SpuriousWakeup, TakeJob, EndThread, Wait,
        DatabaseRequest, PlainRequest, Judged, Silence, Answer, AnswerLast, CloseConnection,
        cleanVars
  <2>2. ASSUME NEW to \in Ats, at' = [at EXCEPT ![w] = to]
        PROVE  /\ Lent \in Nat /\ Lent >= Holds(at[w])
               /\ Lent' = Lent + Holds(to) - Holds(at[w])
    BY <2>1, <2>2, LentByWorker
  <2>3. CASE UsePool(w)
    <3>1. CASE \/ at[w] = "acquire" /\ at' = [at EXCEPT ![w] = "query"] /\ Acquired
               \/ at[w] = "inner" /\ at' = [at EXCEPT ![w] = "nested"] /\ Acquired
      BY <1>1, <2>2, <3>1 DEF Ats, Holds
    <3>2. CASE \/ at[w] = "acquire" /\ at' = [at EXCEPT ![w] = "answer"] /\ NullConnection
               \/ at[w] = "inner" /\ at' = [at EXCEPT ![w] = "query"] /\ NullConnection
      BY <1>2, <2>2, <3>2 DEF Ats, Holds
    <3>3. CASE at[w] = "query" /\ at' = [at EXCEPT ![w] = "inner"] /\ UNCHANGED dbVars
      BY <1>4, <2>2, <3>3 DEF Ats, Holds
    <3>4. CASE \/ at[w] = "nested" /\ at' = [at EXCEPT ![w] = "query"] /\ Released
               \/ at[w] = "query" /\ at' = [at EXCEPT ![w] = "answer"] /\ Released
               \/ at[w] = "query" /\ at' = [at EXCEPT ![w] = "judge"] /\ Released
      BY <1>3, <2>2, <3>4 DEF Ats, Holds
    <3> QED BY <2>3, <3>1, <3>2, <3>3, <3>4, UsePoolGoes
  <2>5. CASE DatabaseRequest(w) \/ PlainRequest(w) \/ Judged(w) \/ Answer(w)
    <3>1. UNCHANGED dbVars
      BY <2>5 DEF DatabaseRequest, PlainRequest, Judged, Answer, dbVars
    <3>2. PICK to \in {"acquire", "answer", "keepAlive"} : at' = [at EXCEPT ![w] = to]
      BY <2>5 DEF DatabaseRequest, PlainRequest, Judged, Answer, Step
    <3>3. Holds(at[w]) = 0 /\ Holds(to) = 0 /\ to \in Ats
      BY <2>5, <3>2 DEF DatabaseRequest, PlainRequest, Judged, Answer, Step, Holds, Ats
    <3>4. Lent \in Nat /\ Lent' = Lent + Holds(to) - Holds(at[w])
      BY <2>2, <3>2, <3>3
    <3>5. Lent' = Lent
      BY <3>3, <3>4
    <3> QED BY <1>4, <3>1, <3>5
  <2>6. CASE Silence(w) \/ AnswerLast(w)
    <3>1. UNCHANGED dbVars /\ at' = [at EXCEPT ![w] = "none"] /\ at[w] \in {"keepAlive", "answer"}
      BY <2>6 DEF Silence, AnswerLast, CloseConnection
    <3> QED BY <1>4, <2>2, <3>1 DEF Ats, Holds
  <2>7. CASE TakeJob(w)
    <3>1. at[w] = "none"
      BY <2>7 DEF TakeJob, Alert, TypeOK
    <3>2. at' = [at EXCEPT ![w] = "keepAlive"] /\ UNCHANGED dbVars
      BY <2>7 DEF TakeJob
    <3>3. Lent' = Lent
      BY <2>2, <3>1, <3>2 DEF Ats, Holds
    <3> QED BY <1>4, <3>2, <3>3
  <2>8. CASE EndThread(w) \/ Wait(w) \/ IdleTimeout(w) \/ SpuriousWakeup(w)
    BY <1>4, <2>1, <2>8, LentByCleaner DEF EndThread, Wait, IdleTimeout, SpuriousWakeup
  <2> QED BY <1>5, <2>3, <2>5, <2>6, <2>7, <2>8 DEF WorkerStep, UsePool
<1>6. CASE CleanerStep
  <2>1. at' = at
    BY <1>6 DEF CleanerStep, CleanupDue, CleanupEnds, CleanupAcquires, CleanupGetsNull,
                CleanupQueries, CleanerGoes, workVars
  <2>2. CASE CleanupAcquires
    BY <1>1, <2>1, <2>2, LentByCleaner DEF CleanupAcquires, CleanerGoes
  <2>3. CASE CleanupGetsNull
    BY <1>2, <2>1, <2>3, LentByCleaner DEF CleanupGetsNull, CleanerGoes
  <2>4. CASE CleanupQueries
    BY <1>3, <2>1, <2>4, LentByCleaner DEF CleanupQueries, CleanerGoes
  <2>5. CASE CleanupDue \/ CleanupEnds
    BY <1>4, <2>1, <2>5, LentByCleaner DEF CleanupDue, CleanupEnds, CleanerGoes
  <2> QED BY <1>6, <2>2, <2>3, <2>4, <2>5 DEF CleanerStep
<1>7. CASE OpenPool
  <2>1. Lent' = Lent
    BY <1>7, LentByCleaner DEF OpenPool, workVars, cleanVars
  <2>2. idle' \in 0..PoolSize /\ db = "closed" /\ idle = 0
    BY <1>7 DEF OpenPool, MainGoes, Unopened
  <2>3. (db' = "open") <=> idle' > 0
    BY <1>7 DEF OpenPool
  <2>4. Count!Open
    <3>1. PICK n \in 0..PoolSize : idle' = n
      BY <2>2
    <3>2. n \in Int
      BY <3>1
    <3>3. idle + n = n
      BY <2>2, <3>2
    <3>4. idle' = IF db = "open" THEN n ELSE idle + n
      BY <3>1, <3>3
    <3> QED BY <2>1, <2>3, <3>4 DEF Count!Open
  <2> QED BY <2>4 DEF Count!Next
<1>8. CASE ClosePool
  <2>1. Lent' = Lent
    BY <1>8, LentByCleaner DEF ClosePool, workVars, cleanVars
  <2>2. Count!Close
    BY <1>8, <2>1 DEF ClosePool, Count!Close
  <2> QED BY <2>2 DEF Count!Next
<1>9. ASSUME UNCHANGED dbVars, at' = at,
             cleaner' = cleaner \/ (cleaner # "query" /\ cleaner' # "query")
      PROVE  [Count!Next]_Count!vars
  BY <1>4, <1>9, LentByCleaner
<1>10. CASE (\E c \in Clients : Enqueue(c)) \/ AcceptFails \/ Signal \/ UNCHANGED vars
  BY <1>9, <1>10 DEF Enqueue, AcceptFails, Signal, vars, workVars, cleanVars
<1>11. CASE StartCleanup
  <2>1. cleaner # "query" /\ cleaner' # "query"
    BY <1>11 DEF StartCleanup, MainGoes, Unopened
  <2> QED BY <1>9, <1>11, <2>1 DEF StartCleanup, workVars
<1>12. CASE Load \/ LoadFails \/ Bind \/ BindFails \/ NotifyJob \/ SetShutdown \/ NotifyAll
            \/ JoinWorkers \/ StopCleanup \/ JoinCleanup \/ CloseLogger
  BY <1>9, <1>12
  DEF Load, LoadFails, Bind, BindFails, NotifyJob, SetShutdown, NotifyAll, JoinWorkers,
      StopCleanup, JoinCleanup, CloseLogger, workVars, cleanVars
<1> QED BY <1>5, <1>6, <1>7, <1>8, <1>10, <1>11, <1>12 DEF Next, Rest, MainStep

\* Workers and the cleanup thread give back what they acquired, once and before they go
\* on, and main() opens and closes the pool around them: what the server takes the pool
\* for is what ConnectionPool is.
THEOREM ServerCounts == Spec => CountsConnections
<1>1. Init => Count!Init /\ Unopened
  <2> SUFFICES ASSUME Init PROVE Count!Init /\ Unopened
    OBVIOUS
  <2>1. Outer = {} /\ Inner = {} /\ cleaner = "none" /\ db = "closed" /\ idle = 0
    BY DEF Init, Outer, Inner
  <2>2. Lent = 0
    BY <2>1, FS_EmptySet DEF Lent
  <2> QED BY <2>1, <2>2 DEF Count!Init, Unopened
<1>2. TypeOK /\ Lifecycle /\ Unopened /\ [Next]_vars => Unopened'
  BY UnopenedStep
<1>3. TypeOK /\ Lifecycle /\ Unopened /\ [Next]_vars => [Count!Next]_Count!vars
  BY UseStep
<1> QED
  BY <1>1, <1>2, <1>3, TypeCorrectOrdered, PTL DEF Spec, CountsConnections, Count!Spec
=============================================================================
