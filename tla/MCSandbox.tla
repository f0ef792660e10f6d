------------------------------ MODULE MCSandbox ------------------------------
(* Instance of Sandbox for TLC: two callers and two shells.               *)
EXTENDS Sandbox

CONSTANTS c1, c2, s1, s2

MCCallers == {c1, c2}
MCShellIds == {s1, s2}

=============================================================================
