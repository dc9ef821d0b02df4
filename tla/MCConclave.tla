----------------------------- MODULE MCConclave -----------------------------
(* Instances of Conclave for TLC.                                           *)
EXTENDS Conclave

CONSTANTS p, p2, q, k1, k2

\* p2 is p with another repeat_penalty: they share a key.  The greedy answer
\* to p ends in 7 after an intermediate 8, that to p2 in 8; q has no number.
KeyOf == [r \in Request |-> IF r = q THEN k2 ELSE k1]
AnswerOf == [r \in Request |-> IF r = p THEN 7 ELSE IF r = p2 THEN 8 ELSE NoNumber]
OnTheWay == [r \in Request |-> IF r = p THEN {8} ELSE {NoNumber}]
=============================================================================
