---------------------------- MODULE MCUserProfile ----------------------------
(* Instances of UserProfile for TLC.                                        *)
EXTENDS UserProfile, TLC

CONSTANTS r1, r2, u1, u2, m1, m2, m3, p1, p2, admin

TwoReplicas == {r1, r2}
TwoUsers == {u1, u2}
ThreeMails == {m1, m2, m3}
OnePhone == {p1}
TwoPhones == {p1, p2}
OneRole == {admin}

ProfileSymmetry ==
    Permutations(TwoReplicas) \cup Permutations(TwoUsers)
    \cup Permutations(ThreeMails)
=============================================================================
