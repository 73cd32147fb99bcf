--------------------------- MODULE ConnectionPool ---------------------------
(***************************************************************************)
(* The MySQL connection pool of the judge (src/db/connection_pool.{h,cc}): *)
(* a FIFO of idle MYSQL handles behind one mutex and one condition         *)
(* variable.  Every method runs its whole body under the mutex, so a       *)
(* method is one action, except acquire(): cv_.wait may give the mutex up, *)
(* and a waiter that was woken takes it again in a later step (Resume).    *)
(* In between another caller may take the connection it was woken for.     *)
(*                                                                         *)
(* The database is external: it may go down and come back (up), and it may *)
(* forget the session behind a handle the program still holds (live).      *)
(***************************************************************************)
EXTENDS Integers, Sequences, FiniteSets, Functions

CONSTANTS
    Threads,   \* the threads that call acquire() and release()
    Conns,     \* the MYSQL handles that can be open at the same time
    PoolSize,  \* pool_size_: the connections init() asks for
    MaxInits,  \* bound: the number of calls of init()
    NULL       \* a null MYSQL pointer

ASSUME ThreadsAssumption == IsFiniteSet(Threads)
ASSUME ConnsAssumption   == IsFiniteSet(Conns) /\ NULL \notin Conns
ASSUME SizeAssumption    == PoolSize \in Nat /\ MaxInits \in Nat

VARIABLES
    pool,         \* pool_: the idle handles, oldest first
    initialized,  \* initialized_
    held,         \* held[t]: the handles acquire() gave to t, not yet released
    at,           \* at[t]: outside acquire(), blocked on cv_, or woken in it
    open,         \* the handles between mysql_real_connect and mysql_close
    live,         \* the open handles whose session the server still knows
    up,           \* does the server accept connections?
    inits         \* the number of calls of init() so far

vars == <<pool, initialized, held, at, open, live, up, inits>>

Idle    == Range(pool)
Held    == UNION {held[t] : t \in Threads}
Waiting == {t \in Threads : at[t] = "waiting"}
Woken   == {t \in Threads : at[t] = "woken"}
-----------------------------------------------------------------------------
(* The condition variable.                                                 *)

\* The predicate of cv_.wait: acquire() may go on.
CanProceed == ~initialized \/ pool # <<>>

\* notify_one without a waiter, and a mutant of the others that forgets to notify.
NotifyNobody == UNCHANGED at

NotifyOne ==
    IF Waiting = {} THEN NotifyNobody
    ELSE \E w \in Waiting : at' = [at EXCEPT ![w] = "woken"]

NotifyAll == at' = [t \in Threads |-> IF t \in Waiting THEN "woken" ELSE at[t]]
-----------------------------------------------------------------------------
(* createConnection(): a handle that is not open, or NULL, when the server *)
(* is down and also when it refuses one more session while it is up.       *)

CreateConnection(inUse) == {NULL} \cup (IF up THEN Conns \ inUse ELSE {})

\* Mutant: the loop of init() pushes what createConnection() returns unseen.
UncheckedBatches(inUse) ==
    IF up THEN {s \in [1..PoolSize -> Conns \ inUse] : IsInjective(s)}
    ELSE {[i \in 1..PoolSize |-> NULL]}

\* Mutant: the loop of init() runs once too often.
LongBatches(inUse) ==
    {s \in UNION {[1..n -> Conns \ inUse] : n \in 0..(IF up THEN PoolSize + 1 ELSE 0)} :
        IsInjective(s)}

\* The batches of connections the loop of init() may end with: the server may
\* refuse, or go down, between two attempts.
Batches(inUse) ==
    {s \in UNION {[1..n -> Conns \ inUse] : n \in 0..(IF up THEN PoolSize ELSE 0)} :
        IsInjective(s)}
-----------------------------------------------------------------------------
TypeOK ==
    /\ pool \in Seq(Conns)
    /\ initialized \in BOOLEAN
    /\ held \in [Threads -> SUBSET Conns]
    /\ at \in [Threads -> {"out", "waiting", "woken"}]
    /\ open \subseteq Conns
    /\ live \subseteq open
    /\ up \in BOOLEAN
    /\ inits \in 0..MaxInits

Init ==
    /\ pool = <<>>
    /\ initialized = FALSE
    /\ held = [t \in Threads |-> {}]
    /\ at = [t \in Threads |-> "out"]
    /\ open = {}
    /\ live = {}
    /\ up = TRUE
    /\ inits = 0
-----------------------------------------------------------------------------
(* acquire(), after cv_.wait has let the caller through.                   *)

ReturnNull(t) ==
    /\ ~initialized
    /\ UNCHANGED <<pool, held, open, live>>

\* Mutant: the front is handed out but not popped.
LeaveFront(t) ==
    /\ initialized
    /\ Head(pool) \in live
    /\ held' = [held EXCEPT ![t] = @ \cup {Head(pool)}]
    /\ UNCHANGED <<pool, open, live>>

\* mysql_ping finds the front connection alive.
ReturnFront(t) ==
    /\ initialized
    /\ Head(pool) \in live
    /\ pool' = Tail(pool)
    /\ held' = [held EXCEPT ![t] = @ \cup {Head(pool)}]
    /\ UNCHANGED <<open, live>>

\* Mutant: the dead handle is replaced without mysql_close.
LeakDeadFront(t) ==
    /\ initialized
    /\ Head(pool) \notin live
    /\ pool' = Tail(pool)
    /\ \E c \in CreateConnection(open) :
        LET new == {c} \ {NULL}
        IN /\ held' = [held EXCEPT ![t] = @ \cup new]
           /\ open' = open \cup new
           /\ live' = live \cup new

\* mysql_ping fails: the front is closed and replaced; when no replacement can
\* be made, acquire() returns a null pointer and the pool has one handle less.
ReplaceDeadFront(t) ==
    /\ initialized
    /\ Head(pool) \notin live
    /\ pool' = Tail(pool)
    /\ LET rest == open \ {Head(pool)}
       IN \E c \in CreateConnection(rest) :
            LET new == {c} \ {NULL}
            IN /\ held' = [held EXCEPT ![t] = @ \cup new]
               /\ open' = rest \cup new
               /\ live' = live \cup new

Enter(t) ==
    /\ \/ /\ CanProceed
          /\ at' = [at EXCEPT ![t] = "out"]
          /\ ReturnNull(t) \/ ReturnFront(t) \/ ReplaceDeadFront(t)
       \/ /\ ~CanProceed
          /\ at' = [at EXCEPT ![t] = "waiting"]
          /\ UNCHANGED <<pool, held, open, live>>
    /\ UNCHANGED <<initialized, up, inits>>

Acquire(t) == at[t] = "out" /\ Enter(t)

\* A woken waiter has the mutex again and re-evaluates the predicate.
Resume(t) == at[t] = "woken" /\ Enter(t)

SpuriousWakeup(t) ==
    /\ at[t] = "waiting"
    /\ at' = [at EXCEPT ![t] = "woken"]
    /\ UNCHANGED <<pool, initialized, held, open, live, up, inits>>
-----------------------------------------------------------------------------
\* Mutant: a connection that comes back to a closed pool is dropped.
ReleaseIfOpen(t, c) ==
    /\ at[t] = "out"
    /\ c \in held[t]
    /\ held' = [held EXCEPT ![t] = @ \ {c}]
    /\ pool' = IF initialized THEN Append(pool, c) ELSE pool
    /\ NotifyOne
    /\ UNCHANGED <<initialized, open, live, up, inits>>

\* release() of a null pointer does nothing and is not a step.
Release(t, c) ==
    /\ at[t] = "out"
    /\ c \in held[t]
    /\ held' = [held EXCEPT ![t] = @ \ {c}]
    /\ pool' = Append(pool, c)
    /\ NotifyOne
    /\ UNCHANGED <<initialized, open, live, up, inits>>

\* init(): an initialised pool first closes its idle handles, without the
\* notify_all of shutdown(); one that is not keeps what late calls of
\* release() have left in it.
InitPool ==
    /\ inits < MaxInits
    /\ inits' = inits + 1
    /\ LET kept  == IF initialized THEN <<>> ELSE pool
           inUse == IF initialized THEN open \ Idle ELSE open
       IN \E new \in Batches(inUse) :
            /\ pool' = kept \o new
            /\ initialized' = (pool' # <<>>)
            /\ open' = inUse \cup Range(new)
            /\ live' = (live \cap inUse) \cup Range(new)
    /\ UNCHANGED <<held, at, up>>

Shutdown ==
    /\ pool' = <<>>
    /\ initialized' = FALSE
    /\ open' = open \ Idle
    /\ live' = live \ Idle
    /\ NotifyAll
    /\ UNCHANGED <<held, up, inits>>
-----------------------------------------------------------------------------
(* The database.                                                           *)

DbDown ==
    /\ up
    /\ up' = FALSE
    /\ live' = {}
    /\ UNCHANGED <<pool, initialized, held, at, open, inits>>

DbUp ==
    /\ ~up
    /\ up' = TRUE
    /\ UNCHANGED <<pool, initialized, held, at, open, live, inits>>

\* The server ends one session (wait_timeout, KILL, a broken TCP connection).
DropSession(c) ==
    /\ c \in live
    /\ live' = live \ {c}
    /\ UNCHANGED <<pool, initialized, held, at, open, up, inits>>
-----------------------------------------------------------------------------
CallerStep ==
    \E t \in Threads :
        \/ Acquire(t)
        \/ Resume(t)
        \/ SpuriousWakeup(t)
        \/ \E c \in held[t] : Release(t, c)

DbStep == DbDown \/ DbUp \/ \E c \in live : DropSession(c)

Next == CallerStep \/ InitPool \/ Shutdown \/ DbStep

Spec == Init /\ [][Next]_vars

\* The program's own callers (main, the tools) call init() on a pool that is
\* not initialised.
FirstInit == ~initialized /\ InitPool

DisciplinedNext == CallerStep \/ FirstInit \/ Shutdown \/ DbStep

\* A woken thread gets the mutex eventually: no method keeps it for ever.
DisciplinedSpec ==
    /\ Init
    /\ [][DisciplinedNext]_vars
    /\ \A t \in Threads : WF_vars(Resume(t))
-----------------------------------------------------------------------------
(* Properties.                                                             *)

\* A handle is in one place only: once in the queue, or with one thread.  Two
\* threads never run queries on one MYSQL handle (which is not thread-safe).
Exclusive ==
    /\ IsInjective(pool)
    /\ Idle \cap Held = {}
    /\ \A s, t \in Threads : s # t => held[s] \cap held[t] = {}

\* Nothing leaks and nothing is used after mysql_close: across outages,
\* replacements, shutdown and late releases, the open handles are the ones that
\* are idle in the queue and the ones callers hold.
Accounted == open = Idle \cup Held

\* The pool keeps the promise of ConnectionLease to its callers.
Lease == INSTANCE ConnectionLease WITH idle <- Idle, leased <- held

ImplementsLease == Lease!Spec

\* The pool keeps count: acquire() takes one idle connection and hands it or a new
\* one to its caller, or loses it; release() adds the one it is given to the idle
\* ones; nothing else changes how many are lent.
Count == INSTANCE ConnectionCount
            WITH ready <- initialized, idle <- Len(pool), lent <- Cardinality(Held)

ImplementsCount == Count!Spec

\* Each call of init() accounts for at most pool_size connections to the
\* server, whatever acquire() replaces later.
Capacity == Cardinality(open) <= inits * PoolSize

\* No lost wakeup: while a thread is blocked, each idle connection has a thread
\* that was woken and will look for it, and the pool is not shut down.
NoLostWakeup ==
    Waiting # {} => initialized /\ Len(pool) <= Cardinality(Woken)

\* shutdown() lets every blocked acquire() return.
ShutdownFreesWaiters ==
    \A t \in Threads :
        (~initialized /\ at[t] # "out") ~> (initialized \/ at[t] = "out")

=============================================================================
