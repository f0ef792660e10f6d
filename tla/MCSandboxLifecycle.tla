-------------------------- MODULE MCSandboxLifecycle --------------------------
(* Instance of SandboxLifecycle for TLC: one caller, two shells.          *)
EXTENDS SandboxLifecycle

CONSTANTS c1, s1, s2

MCCallers == {c1}
MCShellIds == {s1, s2}

=============================================================================
