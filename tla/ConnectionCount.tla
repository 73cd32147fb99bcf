-------------------------- MODULE ConnectionCount ---------------------------
(***************************************************************************)
(* The connection pool by its numbers, which is what a component that asks *)
(* it for connections, and does not care which, has to know: how many are  *)
(* idle and how many are lent.  ConnectionPool implements it by its queue  *)
(* and the handles its callers hold, HttpServer by the places of its       *)
(* threads: what the server assumes of the pool is what the pool does.     *)
(***************************************************************************)
EXTENDS Integers

CONSTANT PoolSize  \* the connections one call of init() asks for

VARIABLES
    ready,  \* is the pool initialised?
    idle,   \* the number of connections nobody uses
    lent    \* the number of connections that callers have

vars == <<ready, idle, lent>>

Init == ~ready /\ idle = 0 /\ lent = 0

\* init() adds what it gets to what was given back late, or replaces what is idle.
Open ==
    \E n \in 0..PoolSize :
        /\ idle' = IF ready THEN n ELSE idle + n
        /\ ready' = (idle' > 0)
        /\ UNCHANGED lent

\* A connection leaves the idle ones only when the pool is initialised ...
TakeIdle == ready /\ idle > 0 /\ idle' = idle - 1 /\ UNCHANGED ready

\* ... and goes to a caller, or is lost because it is dead and cannot be replaced.
Lend == TakeIdle /\ lent' = lent + 1
Lose == TakeIdle /\ UNCHANGED lent

\* Only what was lent is given back, once, to a pool that may have been shut down.
GiveBack == lent > 0 /\ lent' = lent - 1 /\ idle' = idle + 1 /\ UNCHANGED ready

\* shutdown() closes what is idle, and nothing else.
Close == ~ready' /\ idle' = 0 /\ UNCHANGED lent

Next == Open \/ Lend \/ Lose \/ GiveBack \/ Close

Spec == Init /\ [][Next]_vars
=============================================================================
