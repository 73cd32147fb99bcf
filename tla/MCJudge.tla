------------------------------ MODULE MCJudge -------------------------------
(* Judge on a small instance.                                               *)
EXTENDS Judge, TLC

CONSTANTS s1, s2

\* Two submissions for problems with two test cases and with one; and two for
\* a problem with one.
TwoAndOne == s1 :> 2 @@ s2 :> 1
OneEach   == s1 :> 1 @@ s2 :> 1
=============================================================================
