----------------------------- MODULE MCLauncher -----------------------------
(* Two shells for Launcher.                                                 *)
EXTENDS Launcher

CONSTANTS s1, s2

MCScripts == {s1, s2}
=============================================================================
