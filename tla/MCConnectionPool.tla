-------------------------- MODULE MCConnectionPool --------------------------
(* ConnectionPool on a small instance.                                      *)
EXTENDS ConnectionPool, TLC

\* Threads and handles are interchangeable ; only for runs without temporal properties.
Symmetry == Permutations(Threads) \cup Permutations(Conns)
=============================================================================
