--------------------------- MODULE MCRequestTracker ---------------------------
(* Instances of RequestTracker for TLC: who sends how many requests.        *)
EXTENDS RequestTracker

CONSTANTS a1, a2, a3, b1, ipA, ipB

ThreeAndOne == {a1, a2, a3, b1}
Addresses == {ipA, ipB}
Sender == [r \in Requests |-> IF r = b1 THEN ipB ELSE ipA]
=============================================================================
