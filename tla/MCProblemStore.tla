--------------------------- MODULE MCProblemStore ----------------------------
(* ProblemStore on a small instance.                                        *)
EXTENDS ProblemStore

\* Worker threads and suites are interchangeable; no run checks liveness.
Symmetry == Permutations(Clients) \cup Permutations(Suites)
=============================================================================
