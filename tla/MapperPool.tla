----------------------------- MODULE MapperPool -----------------------------
(***************************************************************************)
(* The mappers (src/model/*.cc) as users of the connection pool.  Each     *)
(* mapper call opens a ScopedConnection and keeps it to its end.  The      *)
(* problem mapper opens a second one inside the first: findById() calls    *)
(* TestCaseMapper::findByProblemId() once, insert() and update() call      *)
(* TestCaseMapper::insert() once per test case.  So a thread can hold one  *)
(* connection while it blocks for another, which is what makes the size of *)
(* the pool matter.                                                        *)
(*                                                                         *)
(* A thread is a worker of the HTTP server (or the main thread of a tool). *)
(* It runs one mapper call after another, for ever.                        *)
(***************************************************************************)
EXTENDS ConnectionPool

CONSTANT MaxInner   \* bound: the inner mapper calls of one mapper call

ASSUME MaxInnerAssumption == MaxInner \in Nat
ASSUME InitedAssumption   == MaxInits # 0      \* main() calls init() once

VARIABLES
    busy,    \* busy[t]: t is inside a mapper call
    scopes,  \* scopes[t]: t's live ScopedConnections, outermost first
    left     \* left[t]: the inner calls t's mapper call has still to make

mvars == <<busy, scopes, left>>
allVars == <<vars, mvars>>

MapperTypeOK ==
    /\ busy \in [Threads -> BOOLEAN]
    /\ scopes \in [Threads -> UNION {[1..n -> Conns \cup {NULL}] : n \in 0..2}]
    /\ left \in [Threads -> 0..MaxInner]

\* What init() leaves in main.cc when every connection could be made.
MapperInit ==
    /\ up = TRUE
    /\ \E s \in Batches({}) :
        /\ Len(s) = PoolSize
        /\ pool = s
        /\ open = Range(s)
        /\ live = Range(s)
    /\ initialized = (PoolSize > 0)
    /\ held = [t \in Threads |-> {}]
    /\ at = [t \in Threads |-> "out"]
    /\ inits = 1
    /\ busy = [t \in Threads |-> FALSE]
    /\ scopes = [t \in Threads |-> <<>>]
    /\ left = [t \in Threads |-> 0]
-----------------------------------------------------------------------------
\* The pointer that the acquire() of this step returns to t.
Got(t) ==
    IF held'[t] = held[t] THEN NULL
    ELSE CHOOSE c \in Conns : c \in held'[t] \ held[t]

\* The constructor of ScopedConnection ends when acquire() returns.
Constructed(t) ==
    scopes' = IF at'[t] = "out"
              THEN [scopes EXCEPT ![t] = Append(@, Got(t))]
              ELSE scopes

\* Mutant: a destructor that does not give its connection back.
ForgetConnection(t, c) == UNCHANGED vars

\* The destructor gives back what it holds, which may be nothing.
Destroy(t, c) ==
    IF c = NULL THEN UNCHANGED vars ELSE Release(t, c)

\* A mapper call with n inner calls; 0 also stands for the mappers that make
\* none and for the calls that return before the first (the query fails, the
\* row is not there).
Begin(t, n) ==
    /\ ~busy[t]
    /\ Acquire(t)
    /\ Constructed(t)
    /\ busy' = [busy EXCEPT ![t] = TRUE]
    /\ left' = [left EXCEPT ![t] = n]

\* The next inner mapper call, while the connection of the outer one is held.
OpenInner(t) ==
    /\ at[t] = "out"
    /\ Len(scopes[t]) = 1
    /\ scopes[t][1] # NULL
    /\ left[t] > 0
    /\ Acquire(t)
    /\ Constructed(t)
    /\ left' = [left EXCEPT ![t] = @ - 1]
    /\ UNCHANGED busy

Wake(t) ==
    /\ Resume(t)
    /\ Constructed(t)
    /\ UNCHANGED <<busy, left>>

CloseInner(t) ==
    /\ Len(scopes[t]) = 2
    /\ Destroy(t, scopes[t][2])
    /\ scopes' = [scopes EXCEPT ![t] = <<@[1]>>]
    /\ UNCHANGED <<busy, left>>

\* The mapper returns: after its last inner call, or because it got no
\* connection ("No database connection for ...").
Return(t) ==
    /\ at[t] = "out"
    /\ Len(scopes[t]) = 1
    /\ left[t] = 0 \/ scopes[t][1] = NULL
    /\ Destroy(t, scopes[t][1])
    /\ scopes' = [scopes EXCEPT ![t] = <<>>]
    /\ busy' = [busy EXCEPT ![t] = FALSE]
    /\ left' = [left EXCEPT ![t] = 0]

InsideCall(t) == OpenInner(t) \/ Wake(t) \/ CloseInner(t) \/ Return(t)

MapperNext ==
    \E t \in Threads :
        \/ \E n \in 0..MaxInner : Begin(t, n)
        \/ InsideCall(t)
        \/ SpuriousWakeup(t) /\ UNCHANGED mvars

\* A worker that is inside a mapper call is scheduled.  Nothing is assumed of
\* the order in which threads get the mutex: a newcomer may overtake a thread
\* that was woken.
MapperSpec ==
    /\ MapperInit
    /\ [][MapperNext]_allVars
    /\ \A t \in Threads : WF_allVars(InsideCall(t))

\* The same callers, over a database that fails.
FaultyMapperSpec ==
    /\ MapperInit
    /\ [][MapperNext \/ (DbStep /\ UNCHANGED mvars)]_allVars
-----------------------------------------------------------------------------
(* Properties.                                                             *)

\* RAII: between two mapper calls a thread holds no connection, and inside one
\* exactly the connections of its live ScopedConnections, on every path of the
\* calls and whatever acquire() returned.
NothingKept ==
    \A t \in Threads :
        /\ held[t] = Range(scopes[t]) \ {NULL}
        /\ ~busy[t] => scopes[t] = <<>>

\* The threads do not wait for each other: when every idle connection is gone,
\* some thread that holds one can go on and give it back.
NoCircularWait ==
    (pool = <<>> /\ Waiting # {} /\ Woken = {}) =>
        \E t \in Threads : held[t] # {} /\ at[t] = "out"

\* While a thread is blocked, the exhausted pool gets a connection back.
ExhaustedPoolRefills == (Waiting # {}) ~> (pool # <<>>)
=============================================================================
