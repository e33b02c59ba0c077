---------------------------- MODULE MCUserSession ---------------------------
(* Small instances of UserSession for TLC.                                  *)
EXTENDS UserSession

CONSTANTS p1, p2, p3, u1, u2
=============================================================================
