------------------------------ MODULE MCPlaces ------------------------------
(* Small instances of Places for TLC.                                       *)
EXTENDS Places, TLC

CONSTANTS p1, p2, u1, u2, n1, n2, a, b, c

MCProcs   == {p1, p2}
MCUsers   == {u1, u2}
MCImages  == {a, b, c}
OneImage  == {<<a>>}
TwoImages == {<<b, c>>}

\* 8 is the last position within reach of (0, 0), which a place id without a row
\* reads as.  8 and 10 are joined by a look-up by name and not by an automatic
\* one; 17 is the first position out of reach of 8.
Nearby    == {8, 10}
Far       == {8, 17}

MCSymmetry == Permutations(MCProcs) \cup Permutations(MCUsers)
=============================================================================
