---------------------------- MODULE MCProcessLife ----------------------------
(* Instances of ProcessLife for TLC.                                        *)
EXTENDS ProcessLife

CONSTANTS q1, q2, c1, c2

TwoRequests == {q1, q2}
TwoConsumers == {c1, c2}
=============================================================================
