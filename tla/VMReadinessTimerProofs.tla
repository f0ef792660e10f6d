----------------------- MODULE VMReadinessTimerProofs -----------------------
(***************************************************************************)
(* Proof that the readiness monitor of waitForSockets (vm.go L385-415)    *)
(* gives up within one more 90-second timeout than there are control      *)
(* sockets, for any number of sockets, any timeout, and whether or not the *)
(* event names match the flags.                                            *)
(***************************************************************************)
EXTENDS VMReadinessTimer, FiniteSetTheorems, TLAPS

\* The inductive invariant.  Each Create event is delivered once (queued
\* and seen are disjoint parts of created), and the timer is re-armed only
\* by such an event, so while watching it was last armed no later than one
\* timeout per socket already seen, and the current timer is not yet past.
TimerIInv ==
    /\ now \in Nat /\ armed \in Nat /\ armed <= now
    /\ created \subseteq SocketFiles
    /\ queued \subseteq created /\ seen \subseteq created
    /\ queued \cap seen = {}
    /\ mon \in {"watching", "ready", "timedOut", "stopped"}
    /\ mon = "watching" => /\ now - armed <= Timeout
                           /\ armed <= Cardinality(seen) * Timeout

LEMMA InitTimerIInv == TimerInit => TimerIInv
BY FS_EmptySet, TimerAssumption DEF TimerInit, TimerIInv

\* Adding a socket not yet seen raises the count of seen sockets by one.
LEMMA SeenGrows ==
    ASSUME NEW S \in SUBSET SocketFiles, NEW f \in SocketFiles, f \notin S
    PROVE  /\ IsFiniteSet(S)
           /\ Cardinality(S \cup {f}) = Cardinality(S) + 1
           /\ Cardinality(S) \in Nat
<1>1. IsFiniteSet(S)
  BY TimerAssumption, FS_Subset
<1>. QED  BY <1>1, FS_AddElement, FS_CardinalityType

LEMMA NextTimerIInv == TimerIInv /\ [TimerNext]_tvars => TimerIInv'
<1> SUFFICES ASSUME TimerIInv, [TimerNext]_tvars PROVE TimerIInv'
  OBVIOUS
<1>1. CASE Tick
  BY <1>1, TimerAssumption DEF TimerIInv, Tick
<1>2. CASE MonitorTimeout
  BY <1>2 DEF TimerIInv, MonitorTimeout
<1>3. CASE MonitorStop
  BY <1>3 DEF TimerIInv, MonitorStop
<1>4. ASSUME NEW f \in SocketFiles, QemuCreateSocket(f)
      PROVE TimerIInv'
  BY <1>4 DEF TimerIInv, QemuCreateSocket
<1>5. ASSUME NEW f \in SocketFiles, MonitorEvent(f)
      PROVE TimerIInv'
  <2>1. f \notin seen /\ seen \subseteq SocketFiles
    BY <1>5 DEF TimerIInv, MonitorEvent
  <2>2. /\ Cardinality(seen') = Cardinality(seen) + 1
        /\ Cardinality(seen) \in Nat
    BY <1>5, <2>1, SeenGrows DEF MonitorEvent
  <2>3. now - armed <= Timeout /\ armed <= Cardinality(seen) * Timeout
    BY <1>5 DEF TimerIInv, MonitorEvent
  <2>4. armed' <= Cardinality(seen') * Timeout
    BY <1>5, <2>2, <2>3, TimerAssumption DEF TimerIInv, MonitorEvent
  <2>. QED
    BY <1>5, <2>4, TimerAssumption DEF TimerIInv, MonitorEvent
<1>6. CASE UNCHANGED tvars
  BY <1>6 DEF TimerIInv, tvars
<1>. QED  BY <1>1, <1>2, <1>3, <1>4, <1>5, <1>6 DEF TimerNext

LEMMA TimerIInvBound == TimerIInv => WorstCaseWatch
<1> SUFFICES ASSUME TimerIInv, mon = "watching"
             PROVE now <= (Cardinality(SocketFiles) + 1) * Timeout
  BY DEF WorstCaseWatch
<1>1. seen \subseteq SocketFiles
  BY DEF TimerIInv
<1>2. /\ Cardinality(seen) \in Nat /\ Cardinality(SocketFiles) \in Nat
      /\ Cardinality(seen) <= Cardinality(SocketFiles)
  BY <1>1, TimerAssumption, FS_Subset, FS_CardinalityType
<1>3. now \in Nat /\ now <= (Cardinality(seen) + 1) * Timeout
  BY <1>2, TimerAssumption DEF TimerIInv
<1>4. \A a, b, t \in Nat : a <= b => a * t <= b * t
  OBVIOUS
<1>5. (Cardinality(seen) + 1) * Timeout
        <= (Cardinality(SocketFiles) + 1) * Timeout
  BY <1>2, <1>4, TimerAssumption
<1>. QED  BY <1>2, <1>3, <1>5, TimerAssumption

\* The readiness monitor of waitForSockets, whose loop in the code never
\* ends on readiness, gives up at most one timeout after the last control
\* socket appears: WorstCaseWatch holds in every reachable state, for every
\* finite set of sockets, every timeout and both values of EventNameBase.
THEOREM WorstCaseWatchHolds == TimerSpec => []WorstCaseWatch
BY InitTimerIInv, NextTimerIInv, TimerIInvBound, PTL DEF TimerSpec

=============================================================================
