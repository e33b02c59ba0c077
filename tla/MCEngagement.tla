---------------------------- MODULE MCEngagement ----------------------------
(* Small instances of Engagement for TLC.                                   *)
EXTENDS Engagement, TLC

CONSTANTS p1, p2, u1, u2, f1, f2, lost, s1

MCProcs    == {p1, p2}
MCUsers    == {u1, u2}
MCPlaceOf  == [ph \in Photos |-> s1]
MCSymmetry == Permutations(MCProcs) \cup Permutations(MCUsers)
=============================================================================
