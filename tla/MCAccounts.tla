----------------------------- MODULE MCAccounts ------------------------------
(* Accounts on a small instance.                                            *)
EXTENDS Accounts, TLC

\* Worker threads are interchangeable; no run checks liveness.
Symmetry == Permutations(Workers)
=============================================================================
