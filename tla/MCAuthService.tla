---------------------------- MODULE MCAuthService ----------------------------
(* Instances of AuthService for TLC: who calls what, and the symmetries.    *)
EXTENDS AuthService, TLC

CONSTANTS r1, r2, u1, u2, t1, t2, c1, c2, w1, w2

OneReplica == {r1}
TwoReplicas == {r1, r2}
OneUser == {u1}
TwoUsers == {u1, u2}
OneToken == {t1}
TwoTokens == {t1, t2}
OneCode == {c1}
TwoCodes == {c1, c2}
OnePassword == {w1}
TwoPasswords == {w1, w2}

\* Operations clients call in a run.
DeviceOperations == {"Register", "ActivateAccount", "Login"}

ReplicaSymmetry ==
    Permutations(TwoReplicas) \cup Permutations(TwoTokens)
    \cup Permutations(TwoPasswords)
SerialSymmetry ==
    Permutations(TwoUsers) \cup Permutations(TwoCodes)
    \cup Permutations(TwoPasswords)
=============================================================================
