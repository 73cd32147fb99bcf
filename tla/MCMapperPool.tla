---------------------------- MODULE MCMapperPool ----------------------------
(* MapperPool on a small instance.                                          *)
EXTENDS MapperPool, TLC

\* Threads and handles are interchangeable; only for runs without liveness.
Symmetry == Permutations(Threads) \cup Permutations(Conns)
=============================================================================
