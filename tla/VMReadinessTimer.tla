--------------------------- MODULE VMReadinessTimer ---------------------------
(***************************************************************************)
(* The loop of the readiness monitor of waitForSockets                    *)
(* (src/engines/qemu/vm/vm.go L385-415) with time: every iteration of the *)
(* for loop evaluates time.After(90 * time.Second) anew, so the timer is  *)
(* re-armed whenever the select takes another case.  Time advances in     *)
(* ticks; Timeout ticks stand for the 90 seconds.  QEMU creates each       *)
(* control socket at most once, at any time, and nothing else happens in  *)
(* its private socket folder; fsnotify delivers one Create event per      *)
(* socket.  As in VM, EventNameBase says whether e.Name is the bare file  *)
(* name the loop compares with (vm.go L392/L395); fsnotify gives the      *)
(* path, so in the code no flag is ever set and only a timeout, Done or a *)
(* watcher error ends the loop.                                            *)
(***************************************************************************)
EXTENDS Naturals, FiniteSets

CONSTANTS
    SocketFiles,  \* {vncSocketFile, qmpSocketFile}
    Timeout,      \* ticks in 90 seconds
    EventNameBase \* e.Name of a Create event equals the bare file name

ASSUME TimerAssumption ==
    /\ SocketFiles # {}
    /\ IsFiniteSet(SocketFiles)
    /\ Timeout \in Nat \ {0}
    /\ EventNameBase \in BOOLEAN

VARIABLES
    now,      \* ticks since waitForSockets armed the watch
    armed,    \* tick at which the pending time.After was created
    created,  \* sockets QEMU has created
    queued,   \* Create events fsnotify has not yet delivered
    seen,     \* sockets whose Create event the loop has received
    mon       \* "watching", "ready", "timedOut", "stopped"

tvars == <<now, armed, created, queued, seen, mon>>

\* Longest time the model lets pass: one timeout beyond the bound the loop
\* is claimed to keep, so that a longer watch would be seen.
Horizon == (Cardinality(SocketFiles) + 2) * Timeout

\* The flags vncReady and qmpReady: a received event sets one only when its
\* e.Name equals the bare file name.
Flagged(evs) == IF EventNameBase THEN evs ELSE {}

TimerInit ==
    /\ now = 0
    /\ armed = 0
    /\ created = {}
    /\ queued = {}
    /\ seen = {}
    /\ mon = "watching"

\* Time passes while no time.After has expired (a due timer fires first).
Tick ==
    /\ now < Horizon
    /\ mon # "watching" \/ now - armed < Timeout
    /\ now' = now + 1
    /\ UNCHANGED <<armed, created, queued, seen, mon>>

\* QEMU binds one of its control sockets: fsnotify queues a Create event.
QemuCreateSocket(f) ==
    /\ f \notin created
    /\ created' = created \cup {f}
    /\ queued' = queued \cup {f}
    /\ UNCHANGED <<now, armed, seen, mon>>

\* Mutant: the loop takes a Create event for a socket whenever that socket
\* exists, as a watcher that reports existing files again would, so one
\* socket can re-arm the timer many times.
MonitorEventRedelivered(f) ==
    /\ mon = "watching"
    /\ f \in created
    /\ queued' = queued \ {f}
    /\ seen' = seen \cup {f}
    /\ armed' = now
    /\ mon' = IF Flagged(seen') = SocketFiles THEN "ready" ELSE "watching"
    /\ UNCHANGED <<now, created>>

\* case e := <-w.Events: the flag whose name matches e.Name is set; the loop
\* ends when both are set, otherwise the next iteration creates a new
\* time.After.
MonitorEvent(f) ==
    /\ mon = "watching"
    /\ f \in queued
    /\ queued' = queued \ {f}
    /\ seen' = seen \cup {f}
    /\ armed' = now
    /\ mon' = IF Flagged(seen') = SocketFiles THEN "ready" ELSE "watching"
    /\ UNCHANGED <<now, created>>

\* case <-time.After(90 * time.Second): the timer of this iteration fired.
MonitorTimeout ==
    /\ mon = "watching"
    /\ now - armed = Timeout
    /\ mon' = "timedOut"
    /\ UNCHANGED <<now, armed, created, queued, seen>>

\* case <-vm.Done or case err := <-w.Errors: QEMU died or fsnotify failed.
MonitorStop ==
    /\ mon = "watching"
    /\ mon' = "stopped"
    /\ UNCHANGED <<now, armed, created, queued, seen>>

TimerNext ==
    \/ Tick \/ MonitorTimeout \/ MonitorStop
    \/ \E f \in SocketFiles : QemuCreateSocket(f) \/ MonitorEvent(f)

TimerSpec == TimerInit /\ [][TimerNext]_tvars

-----------------------------------------------------------------------------
(* Properties.                                                             *)

\* Spec 4.3 says "a 90-second timeout with no dual-readiness is a hard
\* failure", but every event restarts the timer, and in the code the
\* loop does not end on readiness (no flag matches a path).  What the loop
\* does guarantee: each Create event of a control socket re-arms the
\* 90-second timer at most once, so the monitor gives up within one more
\* timeout after the last socket, that is within (sockets + 1) timeouts
\* (270 seconds for the vnc and qmp sockets), however late QEMU creates
\* them.
WorstCaseWatch ==
    mon = "watching" => now <= (Cardinality(SocketFiles) + 1) * Timeout

=============================================================================
