------------------------- MODULE MCVMReadinessTimer -------------------------
(* The two control sockets of a virtual machine; 90 seconds as 3 ticks.  *)
EXTENDS VMReadinessTimer

MCSocketFiles == {"vnc.sock", "qmp.sock"}
MCTimeout == 3

=============================================================================
