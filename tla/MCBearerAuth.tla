----------------------------- MODULE MCBearerAuth -----------------------------
(* Instances of BearerAuth for TLC.                                         *)
EXTENDS BearerAuth, TLC

CONSTANTS r1, r2, t1, t2

TwoReplicas == {r1, r2}
TwoTokens == {t1, t2}
EveryStore == {1, 2}

BearerSymmetry == Permutations(TwoReplicas) \cup Permutations(TwoTokens)
=============================================================================
