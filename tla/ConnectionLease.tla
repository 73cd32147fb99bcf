-------------------------- MODULE ConnectionLease ---------------------------
(***************************************************************************)
(* What the connection pool promises its callers, without the queue, the   *)
(* mutex, the condition variable or the database: connections are leased.  *)
(* A connection is idle or leased to one thread; it changes hands only     *)
(* through the idle set; the owner of the pool may close and open idle     *)
(* connections but never touches a leased one.                             *)
(***************************************************************************)
CONSTANTS Threads, Conns

VARIABLES
    idle,    \* the connections nobody uses
    leased   \* leased[t]: the connections t may run queries on

vars == <<idle, leased>>

Leased == UNION {leased[t] : t \in Threads}

Init ==
    /\ idle = {}
    /\ leased = [t \in Threads |-> {}]

\* t is given an idle connection.
Lease(t, c) ==
    /\ c \in idle
    /\ idle' = idle \ {c}
    /\ leased' = [leased EXCEPT ![t] = @ \cup {c}]

\* The idle connection d turns out to be dead: t is given a new one in its
\* place, which may reuse the handle.
LeaseNew(t, d, c) ==
    /\ d \in idle
    /\ c \in Conns
    /\ c \notin (idle \ {d}) \cup Leased
    /\ idle' = idle \ {d}
    /\ leased' = [leased EXCEPT ![t] = @ \cup {c}]

\* t gives back a connection it was leased.
Return(t, c) ==
    /\ c \in leased[t]
    /\ idle' = idle \cup {c}
    /\ leased' = [leased EXCEPT ![t] = @ \ {c}]

\* The pool closes idle connections and opens others.
Restock(S) ==
    /\ S \cap Leased = {}
    /\ idle' = S
    /\ UNCHANGED leased

Next ==
    \/ \E t \in Threads, c \in idle : Lease(t, c)
    \/ \E t \in Threads, d \in idle, c \in Conns : LeaseNew(t, d, c)
    \/ \E t \in Threads : \E c \in leased[t] : Return(t, c)
    \/ \E S \in SUBSET Conns : Restock(S)

Spec == Init /\ [][Next]_vars
=============================================================================
