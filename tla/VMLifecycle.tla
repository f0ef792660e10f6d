----------------------------- MODULE VMLifecycle -----------------------------
(***************************************************************************)
(* What a QEMU virtual machine promises its users (spec 4.3 and the doc    *)
(* comments of src/engines/qemu/vm/vm.go), without its goroutines: Start   *)
(* is called once; it either fails before spawning, closing Done, or       *)
(* spawns QEMU and returns once the control sockets are ready, once Done  *)
(* is closed, or after giving up and killing QEMU.  Kill acts only while  *)
(* Done is open.  Done is closed once QEMU has exited, or by a Start that *)
(* never spawned it, and then stays closed.  The order of the resource    *)
(* releases and the first-error rule of vm.Error are not part of it.      *)
(***************************************************************************)

VARIABLES
    proc,   \* QEMU: "notStarted", "running", "killed", "exited"
    done,   \* vm.Done is closed
    start,  \* the Start call: "idle", "waiting", "returned"
    ready   \* readiness has been signalled (both control sockets seen)

avars == <<proc, done, start, ready>>

\* What Kill does to QEMU: nothing once Done is closed.
KillStep == proc' = IF ~done /\ proc = "running" THEN "killed" ELSE proc

AInit ==
    /\ proc = "notStarted"
    /\ done = FALSE
    /\ start = "idle"
    /\ ready = FALSE

\* Start is entered (once).
ABegin ==
    /\ start = "idle"
    /\ start' = "waiting"
    /\ UNCHANGED <<proc, done, ready>>

\* Start fails before QEMU is spawned: Done is closed and Start returns.
AStartFail ==
    /\ start \in {"idle", "waiting"}
    /\ proc = "notStarted"
    /\ ~done
    /\ done' = TRUE
    /\ start' = "returned"
    /\ UNCHANGED <<proc, ready>>

\* Start spawns QEMU.
ASpawn ==
    /\ start = "waiting"
    /\ proc = "notStarted"
    /\ ~done
    /\ proc' = "running"
    /\ UNCHANGED <<done, start, ready>>

\* The control sockets of a spawned QEMU are ready.
AReady ==
    /\ proc # "notStarted"
    /\ ~ready
    /\ ready' = TRUE
    /\ UNCHANGED <<proc, done, start>>

\* Start returns because the VM is ready or done.
AReturn ==
    /\ start = "waiting"
    /\ proc # "notStarted"
    /\ ready \/ done
    /\ start' = "returned"
    /\ UNCHANGED <<proc, done, ready>>

\* Start gives up on readiness: it kills QEMU and returns.
AGiveUp ==
    /\ start = "waiting"
    /\ proc # "notStarted"
    /\ KillStep
    /\ start' = "returned"
    /\ UNCHANGED <<done, ready>>

\* Kill, called after Start, while QEMU runs and Done is open.
AKill ==
    /\ start = "returned"
    /\ ~done
    /\ proc = "running"
    /\ proc' = "killed"
    /\ UNCHANGED <<done, start, ready>>

\* QEMU exits, by itself or killed.
AExit ==
    /\ proc \in {"running", "killed"}
    /\ proc' = "exited"
    /\ UNCHANGED <<done, start, ready>>

\* Done is closed after QEMU has exited.
AClose ==
    /\ proc = "exited"
    /\ ~done
    /\ done' = TRUE
    /\ UNCHANGED <<proc, start, ready>>

ANext ==
    \/ ABegin \/ AStartFail \/ ASpawn \/ AReady \/ AReturn \/ AGiveUp
    \/ AKill \/ AExit \/ AClose

ASpec == AInit /\ [][ANext]_avars

=============================================================================
