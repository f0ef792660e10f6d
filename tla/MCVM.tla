-------------------------------- MODULE MCVM --------------------------------
(* Instance of VM for TLC: the two control sockets as model values.       *)
EXTENDS VM

CONSTANTS vnc, qmp

MCSocketFiles == {vnc, qmp}

\* Restricts a run to behaviours in which vm.qemu.Start succeeds.
SpawnSucceeds == st = "spawn" => q' = "running"

=============================================================================
