---------------------------- MODULE MCBuildImage ----------------------------
(* Instance of BuildImage for TLC: the two control sockets as model values. *)
EXTENDS BuildImage

CONSTANTS vnc, qmp

MCSocketFiles == {vnc, qmp}

=============================================================================
