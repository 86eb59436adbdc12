------------------------ MODULE GatewayLifecycle_proofs ------------------------
(***************************************************************************)
(* Proofs about GatewayLifecycle, for any number of wiring slots, any      *)
(* failure threshold and any number of faults and overlapping heartbeats.  *)
(***************************************************************************)
EXTENDS GatewayLifecycle, TLAPS

\* The host holds both loops of one wiring, or none while it builds the next.
HandlesInv ==
  /\ keepaliveStop = gatewayHandle
  /\ cycle \in {"resolving", "registering", "backoff"} => gatewayHandle = None
  /\ cycle = "unregistering" => \A w \in Wirings : ~armed[w]
  /\ life = "unregistering" => cycle = "idle"

\* The slot being wired is unused; before the first wiring all slots are.
SlotsInv ==
  \A w \in Wirings :
    wiring = w \/ life = "booting" =>
      loop[w] = "off" /\ beats[w] = 0 /\ reregisters[w] = 0

BootInv == life = "booting" => cycle \in {"resolving", "registering"}

\* The keepalive of a wiring that serves was not unsubscribed.
ServingInv == \A w \in Wirings : armed[w] /\ ~shuttingDown => ~cancelled[w]

\* The inductive invariant.
IInv ==
  /\ TypeOK /\ HandlesInv /\ SlotsInv /\ BootInv /\ ServingInv
  /\ NoOrphanLoop /\ SignalNotLost

-----------------------------------------------------------------------------
LEMMA CountsInRange ==
  /\ 0 \in 0 .. FailureThreshold /\ 0 \in 0 .. MaxFaults
  /\ \A w \in Wirings : TypeOK => OneMoreFailure(w) \in 0 .. FailureThreshold
BY BoundAssumption DEF TypeOK, OneMoreFailure

LEMMA InitIInv == Init => IInv
<1> SUFFICES ASSUME Init PROVE IInv
  OBVIOUS
<1>1. TypeOK
  BY CountsInRange DEF Init, TypeOK, Maybe
<1>2. HandlesInv /\ SlotsInv /\ BootInv
  BY DEF Init, HandlesInv, SlotsInv, BootInv
<1>3. ServingInv /\ NoOrphanLoop /\ SignalNotLost
  BY DEF Init, ServingInv, NoOrphanLoop, SignalNotLost
<1> QED
  BY <1>1, <1>2, <1>3 DEF IInv

LEMMA FaultCounted == TypeOK /\ Fault => faults' \in 0 .. MaxFaults
BY BoundAssumption DEF TypeOK, Fault

\* The part of the state reconnect() writes keeps its type; before the first
\* wiring nothing can call it.
HostTypes ==
  /\ armed \in [Wirings -> BOOLEAN] /\ cancelled \in [Wirings -> BOOLEAN]
  /\ gatewayHandle \in Maybe /\ keepaliveStop \in Maybe /\ wiring \in Maybe
  /\ cycle \in {"idle", "unregistering", "resolving", "registering", "backoff"}
  /\ life \in {"booting", "serving", "unregistering", "closing", "exited"}
  /\ cycle = "registering" <=> wiring # None
  /\ cycle = "unregistering" \/ life = "unregistering" => gatewayHandle # None

LEMMA ReconnectTypes == IInv /\ life # "booting" /\ Reconnect => HostTypes'
BY NoneAssumption DEF IInv, TypeOK, Maybe, HandlesInv, HostTypes, Reconnect,
   StopKeepalive, shuttingDown, reconnecting, hostVars

LEMMA TickFailsTypes ==
  ASSUME IInv, NEW w \in Wirings, life # "booting", TickFails(w)
  PROVE  /\ failures' \in [Wirings -> 0 .. FailureThreshold]
         /\ fired' \in [Wirings -> BOOLEAN]
         /\ HostTypes'
<1>1. failures' \in [Wirings -> 0 .. FailureThreshold]
  BY CountsInRange DEF IInv, TypeOK, TickFails
<1>2. fired' \in [Wirings -> BOOLEAN]
  BY DEF IInv, TypeOK, TickFails
<1>3. Reconnect \/ UNCHANGED <<armed, cancelled, hostVars>>
  BY DEF TickFails
<1>4. (UNCHANGED <<armed, cancelled, hostVars>>) => HostTypes'
  BY DEF IInv, TypeOK, HostTypes, hostVars
<1> QED
  BY <1>1, <1>2, <1>3, <1>4, ReconnectTypes

LEMMA NextIInv == IInv /\ [Next]_vars => IInv'
<1> USE NoneAssumption DEF IInv, TypeOK, Maybe, HandlesInv, SlotsInv,
        BootInv, ServingInv, NoOrphanLoop, SignalNotLost, shuttingDown, reconnecting,
        Running, envVars, registrarVars, keepaliveVars, hostVars, vars
<1>1. ASSUME IInv, Environment PROVE IInv'
  <2>1. CASE LinkDown
    BY <1>1, <2>1, FaultCounted DEF LinkDown
  <2>2. CASE LinkUp
    BY <1>1, <2>2 DEF LinkUp
  <2>3. CASE GatewayRestart
    BY <1>1, <2>3, FaultCounted DEF GatewayRestart
  <2>4. CASE SandboxDies
    BY <1>1, <2>4, FaultCounted DEF SandboxDies
  <2> QED
    BY <1>1, <2>1, <2>2, <2>3, <2>4 DEF Environment
<1>2. ASSUME IInv, NEW w \in Wirings, TickStart(w) \/ Heartbeat(w) \/ Keepalive(w)
      PROVE  IInv'
  <2>1. CASE TickStart(w)
    BY <1>2, <2>1 DEF TickStart
  <2>2. CASE HeartbeatAnswered(w)
    <3>1. TypeOK'
      BY <1>2, <2>2, CountsInRange DEF HeartbeatAnswered, TickSucceeds
    <3>2. HandlesInv'
      BY <1>2, <2>2 DEF HeartbeatAnswered, TickSucceeds
    <3>3. SlotsInv'
      BY <1>2, <2>2 DEF HeartbeatAnswered, TickSucceeds
    <3>4. BootInv'
      BY <1>2, <2>2 DEF HeartbeatAnswered, TickSucceeds
    <3>5. ServingInv'
      BY <1>2, <2>2 DEF HeartbeatAnswered, TickSucceeds
    <3>6. NoOrphanLoop'
      BY <1>2, <2>2 DEF HeartbeatAnswered, TickSucceeds
    <3>7. SignalNotLost'
      BY <1>2, <2>2 DEF HeartbeatAnswered, TickSucceeds
    <3> QED
      BY <3>1, <3>2, <3>3, <3>4, <3>5, <3>6, <3>7
  <2>3. CASE HeartbeatRejected(w)
    <3>1. TypeOK'
      <4>1. HostTypes' /\ TickFails(w)
        BY <1>2, <2>3, TickFailsTypes DEF HeartbeatRejected
      <4> QED
        BY <1>2, <2>3, <4>1, TickFailsTypes DEF HeartbeatRejected, HostTypes
    <3>2. HandlesInv'
      BY <1>2, <2>3 DEF HeartbeatRejected, TickFails, Reconnect, StopKeepalive
    <3>3. SlotsInv'
      BY <1>2, <2>3 DEF HeartbeatRejected, TickFails, Reconnect, StopKeepalive
    <3>4. BootInv'
      BY <1>2, <2>3 DEF HeartbeatRejected, TickFails, Reconnect, StopKeepalive
    <3>5. ServingInv'
      BY <1>2, <2>3 DEF HeartbeatRejected, TickFails, Reconnect, StopKeepalive
    <3>6. NoOrphanLoop'
      BY <1>2, <2>3 DEF HeartbeatRejected, TickFails, Reconnect, StopKeepalive
    <3>7. SignalNotLost'
      BY <1>2, <2>3 DEF HeartbeatRejected, TickFails, Reconnect, StopKeepalive
    <3> QED
      BY <3>1, <3>2, <3>3, <3>4, <3>5, <3>6, <3>7
  <2>4. CASE ReregisterAnswered(w)
    <3>1. TypeOK'
      BY <1>2, <2>4, CountsInRange DEF ReregisterAnswered, TickSucceeds, Replied
    <3>2. HandlesInv'
      BY <1>2, <2>4 DEF ReregisterAnswered, TickSucceeds, Replied
    <3>3. SlotsInv'
      BY <1>2, <2>4 DEF ReregisterAnswered, TickSucceeds, Replied
    <3>4. BootInv'
      BY <1>2, <2>4 DEF ReregisterAnswered, TickSucceeds, Replied
    <3>5. ServingInv'
      BY <1>2, <2>4 DEF ReregisterAnswered, TickSucceeds, Replied
    <3>6. NoOrphanLoop'
      BY <1>2, <2>4 DEF ReregisterAnswered, TickSucceeds, Replied
    <3>7. SignalNotLost'
      BY <1>2, <2>4 DEF ReregisterAnswered, TickSucceeds, Replied
    <3> QED
      BY <3>1, <3>2, <3>3, <3>4, <3>5, <3>6, <3>7
  <2>5. CASE ReregisterRejected(w)
    <3>1. TypeOK'
      <4>1. HostTypes' /\ TickFails(w)
        BY <1>2, <2>5, TickFailsTypes DEF ReregisterRejected
      <4>2. row' \in BOOLEAN
        BY <1>2, <2>5 DEF ReregisterRejected, Rejected
      <4>3. reregisters' \in [Wirings -> Nat]
        BY <1>2, <2>5 DEF ReregisterRejected
      <4>4. failures' \in [Wirings -> 0 .. FailureThreshold]
        BY <1>2, <4>1, CountsInRange DEF TickFails
      <4>5. fired' \in [Wirings -> BOOLEAN]
        BY <1>2, <4>1 DEF TickFails
      <4>6. UNCHANGED <<link, session, faults, live, beats, loop>>
        BY <2>5 DEF ReregisterRejected
      <4> QED
        BY <1>2, <4>1, <4>2, <4>3, <4>4, <4>5, <4>6 DEF TypeOK, HostTypes
    <3>2. HandlesInv'
      BY <1>2, <2>5 DEF ReregisterRejected, TickFails, Rejected, Reconnect, StopKeepalive
    <3>3. SlotsInv'
      BY <1>2, <2>5 DEF ReregisterRejected, TickFails, Rejected, Reconnect, StopKeepalive
    <3>4. BootInv'
      BY <1>2, <2>5 DEF ReregisterRejected, TickFails, Rejected, Reconnect, StopKeepalive
    <3>5. ServingInv'
      BY <1>2, <2>5 DEF ReregisterRejected, TickFails, Rejected, Reconnect, StopKeepalive
    <3>6. NoOrphanLoop'
      BY <1>2, <2>5 DEF ReregisterRejected, TickFails, Rejected, Reconnect, StopKeepalive
    <3>7. SignalNotLost'
      BY <1>2, <2>5 DEF ReregisterRejected, TickFails, Rejected, Reconnect, StopKeepalive
    <3> QED
      BY <3>1, <3>2, <3>3, <3>4, <3>5, <3>6, <3>7
  <2>6. CASE KeepaliveWakes(w)
    BY <1>2, <2>6 DEF KeepaliveWakes
  <2>7. CASE KeepaliveAnswered(w)
    BY <1>2, <2>7 DEF KeepaliveAnswered
  <2>8. CASE ApiReportsGone(w)
    BY <1>2, <2>8 DEF ApiReportsGone
  <2>9. CASE GatewayGone(w)
    <3>1. TypeOK'
      <4>1. HostTypes'
        BY <1>2, <2>9, ReconnectTypes DEF GatewayGone
      <4> QED
        BY <1>2, <2>9, <4>1 DEF GatewayGone, HostTypes
    <3>2. HandlesInv'
      BY <1>2, <2>9 DEF GatewayGone, Reconnect, StopKeepalive
    <3>3. SlotsInv'
      BY <1>2, <2>9 DEF GatewayGone, Reconnect, StopKeepalive
    <3>4. BootInv'
      BY <1>2, <2>9 DEF GatewayGone, Reconnect, StopKeepalive
    <3>5. ServingInv'
      BY <1>2, <2>9 DEF GatewayGone, Reconnect, StopKeepalive
    <3>6. NoOrphanLoop'
      BY <1>2, <2>9 DEF GatewayGone, Reconnect, StopKeepalive
    <3>7. SignalNotLost'
      BY <1>2, <2>9 DEF GatewayGone, Reconnect, StopKeepalive
    <3> QED
      BY <3>1, <3>2, <3>3, <3>4, <3>5, <3>6, <3>7
  <2> QED
    BY <1>2, <2>1, <2>2, <2>3, <2>4, <2>5, <2>6, <2>7, <2>8, <2>9 DEF Heartbeat, Keepalive
<1>3. ASSUME IInv, Host PROVE IInv'
  <2>1. CASE ReconnectUnregistered
    BY <1>3, <2>1 DEF ReconnectUnregistered, Settled, Replied, Rejected, StopKeepalive
  <2>2. CASE ResolveNull
    BY <1>3, <2>2 DEF ResolveNull, LeaveCycle
  <2>3. CASE WireThrows
    BY <1>3, <2>3, FaultCounted DEF WireThrows, LeaveCycle
  <2>4. CASE Wired
    <3>1. TypeOK'
      BY <1>3, <2>4, CountsInRange DEF Wired, Settled, Replied, Rejected, LeaveCycle
    <3>2. HandlesInv'
      BY <1>3, <2>4 DEF Wired, Settled, Replied, Rejected, LeaveCycle
    <3>3. SlotsInv'
      BY <1>3, <2>4 DEF Wired, Settled, Replied, Rejected, LeaveCycle
    <3>4. BootInv'
      BY <1>3, <2>4 DEF Wired, Settled, Replied, Rejected, LeaveCycle
    <3>5. ServingInv'
      BY <1>3, <2>4 DEF Wired, Settled, Replied, Rejected, LeaveCycle
    <3>6. NoOrphanLoop'
      BY <1>3, <2>4 DEF Wired, Settled, Replied, Rejected, LeaveCycle
    <3>7. SignalNotLost'
      BY <1>3, <2>4 DEF Wired, Settled, Replied, Rejected, LeaveCycle
    <3> QED
      BY <3>1, <3>2, <3>3, <3>4, <3>5, <3>6, <3>7
  <2>5. CASE BackoffOver
    BY <1>3, <2>5 DEF BackoffOver
  <2>6. ASSUME NEW w \in Wirings, Resolved(w) PROVE IInv'
    BY <1>3, <2>6 DEF Resolved, Free
  <2>7. ASSUME NEW w \in Wirings, ResolvedStale(w) PROVE IInv'
    BY <1>3, <2>7, FaultCounted DEF ResolvedStale, Free
  <2> QED
    BY <1>3, <2>1, <2>2, <2>3, <2>4, <2>5, <2>6, <2>7 DEF Host
<1>4. ASSUME IInv, Shutdown PROVE IInv'
  BY <1>4 DEF Shutdown, HandleArmed, StopKeepalive
<1>5. ASSUME IInv, ShutdownUnregistered PROVE IInv'
  BY <1>5 DEF ShutdownUnregistered, Settled, Replied, Rejected
<1>6. ASSUME IInv, ShutdownTimesOut PROVE IInv'
  BY <1>6, FaultCounted DEF ShutdownTimesOut
<1>7. ASSUME IInv, Exit PROVE IInv'
  BY <1>7 DEF Exit
<1>8. ASSUME IInv, Exited PROVE IInv'
  BY <1>8 DEF Exited
<1>9. ASSUME IInv, UNCHANGED vars PROVE IInv'
  BY <1>9 DEF vars
<1> HIDE DEF IInv
<1> QED
  BY <1>1, <1>2, <1>3, <1>4, <1>5, <1>6, <1>7, <1>8, <1>9 DEF Next

LEMMA IInvInvariant == Spec => []IInv
BY InitIInv, NextIInv, PTL DEF Spec

\* Every variable keeps its type: in particular a wiring in progress has a
\* slot, and an unregister call in flight has the handle it belongs to.
THEOREM TypesHold == Spec => []TypeOK
<1>1. IInv => TypeOK
  BY DEF IInv
<1> QED
  BY IInvInvariant, <1>1, PTL

\* However reconnects, late answers and the shutdown overlap, every heartbeat
\* timer and keepalive loop that runs is one the host can still stop.
THEOREM NoLoopIsOrphaned == Spec => []NoOrphanLoop
<1>1. IInv => NoOrphanLoop
  BY DEF IInv
<1> QED
  BY IInvInvariant, <1>1, PTL

\* The one reconnect request a registrar makes, and the one its keepalive
\* makes, is never dropped while that wiring stays in service.
THEOREM NoSignalIsLost == Spec => []SignalNotLost
<1>1. IInv => SignalNotLost
  BY DEF IInv
<1> QED
  BY IInvInvariant, <1>1, PTL

\* A step taken after the shutdown handler has run never starts an attempt.
LEMMA ShutdownEndsAttempts ==
  ASSUME [Next]_vars, shuttingDown, cycle # "resolving"
  PROVE  cycle' # "resolving"
<1>1. Reconnect => UNCHANGED cycle
  BY DEF Reconnect, hostVars
<1>2. CASE Environment
  BY <1>2 DEF Environment, LinkDown, LinkUp, GatewayRestart, SandboxDies, hostVars
<1>3. ASSUME NEW w \in Wirings, TickStart(w) \/ Heartbeat(w) \/ Keepalive(w)
      PROVE  UNCHANGED cycle
  <2>1. TickFails(w) => UNCHANGED cycle
    BY <1>1 DEF TickFails, hostVars
  <2>2. CASE TickStart(w)
    BY <2>2 DEF TickStart, hostVars
  <2>3. CASE Heartbeat(w)
    BY <2>1, <2>3 DEF Heartbeat, HeartbeatAnswered, HeartbeatRejected,
       ReregisterAnswered, ReregisterRejected, hostVars
  <2>4. CASE Keepalive(w)
    BY <1>1, <2>4 DEF Keepalive, KeepaliveWakes, KeepaliveAnswered,
       ApiReportsGone, GatewayGone, hostVars
  <2> QED
    BY <1>3, <2>2, <2>3, <2>4
<1>4. CASE Host
  BY <1>4 DEF Host, ReconnectUnregistered, ResolveNull, WireThrows, Wired,
     BackoffOver, Resolved, ResolvedStale, LeaveCycle
<1>5. CASE Shutdown \/ ShutdownUnregistered \/ ShutdownTimesOut \/ Exit \/ Exited
  BY <1>5 DEF Shutdown, ShutdownUnregistered, ShutdownTimesOut, Exit, Exited,
     vars, hostVars
<1>6. CASE UNCHANGED vars
  BY <1>6 DEF vars, hostVars
<1> QED
  BY <1>2, <1>3, <1>4, <1>5, <1>6 DEF Next

\* After the shutdown handler has run, no late heartbeat failure, 410 or
\* backoff makes reconnect() resolve the gateway again.
THEOREM ShutdownIsFinal == Spec => NoAttemptAfterShutdown
<1>1. [Next]_vars => [shuttingDown /\ cycle # "resolving" => cycle' # "resolving"]_vars
  BY ShutdownEndsAttempts
<1> QED
  BY <1>1, PTL DEF Spec, NoAttemptAfterShutdown
-----------------------------------------------------------------------------
(* A daemon that met no fault, and a daemon that left.                     *)

\* No heartbeat and no register call of one is in flight.
NoCalls == \A w \in Wirings : beats[w] = 0 /\ reregisters[w] = 0

\* The daemon is going away, and nothing of it runs that could register it.
Left ==
  /\ shuttingDown /\ cycle = "idle" /\ ~row
  /\ NoCalls /\ \A w \in Wirings : ~armed[w]

\* Until the first fault the one wiring is never replaced: its link works, it
\* is armed and registered, and the calls in flight are its own.
FaultlessInv ==
  faults = 0 =>
    /\ link /\ session # "gone"
    /\ cycle \in {"idle", "resolving", "registering"}
    /\ cycle = "idle" <=> life # "booting"
    /\ life = "booting" => gatewayHandle = None
    /\ wiring # None => live[wiring]
    /\ gatewayHandle = None => ~row /\ NoCalls
    /\ gatewayHandle # None => live[gatewayHandle]
    /\ gatewayHandle # None /\ life = "serving" => armed[gatewayHandle]
    /\ shuttingDown => \A w \in Wirings : ~armed[w]
    /\ gatewayHandle # None /\ life \in {"serving", "unregistering"} =>
         row /\ \A w \in Wirings : reregisters[w] = 0
    /\ \A w \in Wirings : /\ loop[w] # "gone"
                          /\ beats[w] > 0 \/ reregisters[w] > 0 => gatewayHandle = w

LEMMA FaultlessInit == Init => FaultlessInv
BY DEF Init, FaultlessInv, NoCalls, shuttingDown

\* A fault is not undone.
LEMMA FaultsGrow ==
  ASSUME IInv, [Next]_vars, faults' = 0
  PROVE  faults = 0 /\ ~Fault
<1>1. faults \in Nat /\ (Fault => faults' = faults + 1)
  BY BoundAssumption DEF IInv, TypeOK, Fault
<1>2. Fault \/ faults' = faults
  BY DEF Next, Environment, Heartbeat, Keepalive, Host, LinkDown, LinkUp, GatewayRestart,
     SandboxDies, TickStart, HeartbeatAnswered, HeartbeatRejected, ReregisterAnswered,
     ReregisterRejected, KeepaliveWakes, KeepaliveAnswered, ApiReportsGone, GatewayGone,
     ReconnectUnregistered, ResolveNull, WireThrows, Wired, BackoffOver, Resolved, ResolvedStale,
     Shutdown, ShutdownUnregistered, ShutdownTimesOut, Exit, Exited, vars, envVars
<1> QED
  BY <1>1, <1>2

LEMMA FaultlessStep == IInv /\ FaultlessInv /\ [Next]_vars => FaultlessInv'
<1> SUFFICES ASSUME IInv, FaultlessInv, [Next]_vars, faults' = 0 PROVE FaultlessInv'
  BY DEF FaultlessInv
<1>0. faults = 0 /\ ~Fault
  BY FaultsGrow
<1> USE NoneAssumption DEF FaultlessInv, NoCalls, Reachable, shuttingDown, envVars, registrarVars,
        keepaliveVars, hostVars
<1>t. TypeOK /\ HandlesInv /\ SlotsInv /\ NoOrphanLoop
  BY DEF IInv
<1>1. CASE Environment
  BY <1>0, <1>1 DEF Environment, LinkDown, LinkUp, GatewayRestart, SandboxDies
<1>2. ASSUME NEW w \in Wirings, TickStart(w) PROVE FaultlessInv'
  BY <1>0, <1>2, <1>t DEF TickStart, NoOrphanLoop, TypeOK
<1>3. ASSUME NEW w \in Wirings, Heartbeat(w) PROVE FaultlessInv'
  <2>1. Reachable(w) /\ (reregisters[w] > 0 => gatewayHandle = w) /\ (beats[w] > 0 => gatewayHandle = w)
    BY <1>0, <1>3, <1>t DEF Heartbeat, HeartbeatAnswered, HeartbeatRejected,
       ReregisterAnswered, ReregisterRejected, TypeOK
  <2>2. CASE HeartbeatAnswered(w)
    BY <1>0, <1>t, <2>1, <2>2 DEF HeartbeatAnswered, TickSucceeds, TypeOK
  <2>3. CASE ReregisterAnswered(w)
    BY <1>0, <1>t, <2>1, <2>3 DEF ReregisterAnswered, Replied, TickSucceeds, TypeOK
  <2> QED
    BY <1>3, <2>1, <2>2, <2>3 DEF Heartbeat, HeartbeatRejected, ReregisterRejected, Rejected
<1>4. ASSUME NEW w \in Wirings, Keepalive(w) PROVE FaultlessInv'
  <2>1. session # "gone" /\ loop[w] # "gone"
    BY <1>0
  <2>2. /\ loop' \in {[loop EXCEPT ![w] = "off"], [loop EXCEPT ![w] = "posting"],
                      [loop EXCEPT ![w] = "sleeping"]}
        /\ UNCHANGED <<envVars, registrarVars, cancelled, hostVars>>
    BY <1>4, <2>1 DEF Keepalive, KeepaliveWakes, KeepaliveAnswered, ApiReportsGone, GatewayGone
  <2>3. \A v \in Wirings : loop'[v] # "gone"
    BY <1>0, <1>t, <2>2 DEF TypeOK
  <2> QED
    BY <1>0, <2>2, <2>3
<1>5. CASE Host
  <2>1. CASE ReconnectUnregistered
    BY <1>0, <2>1 DEF ReconnectUnregistered
  <2>2. CASE ResolveNull
    BY <1>0, <1>t, <2>2 DEF ResolveNull, LeaveCycle, TypeOK, HandlesInv
  <2>3. CASE WireThrows
    BY <1>0, <2>3 DEF WireThrows
  <2>4. CASE Wired
    <3>1. /\ wiring \in Wirings /\ Reachable(wiring) /\ row' = TRUE
          /\ gatewayHandle' = wiring /\ life' = "serving" /\ cycle' = "idle" /\ wiring' = None
          /\ armed'[wiring] /\ NoCalls
      BY <1>0, <1>t, <2>4 DEF Wired, Settled, Replied, Rejected, LeaveCycle, TypeOK, Maybe, HandlesInv
    <3> QED
      BY <1>0, <1>t, <2>4, <3>1 DEF Wired, TypeOK
  <2>5. CASE BackoffOver
    BY <1>0, <2>5 DEF BackoffOver
  <2>6. ASSUME NEW w \in Wirings, Resolved(w) PROVE FaultlessInv'
    BY <1>0, <1>t, <2>6 DEF Resolved, Free, TypeOK, HandlesInv
  <2>7. ASSUME NEW w \in Wirings, ResolvedStale(w) PROVE FaultlessInv'
    BY <1>0, <2>7 DEF ResolvedStale
  <2> QED
    BY <1>5, <2>1, <2>2, <2>3, <2>4, <2>5, <2>6, <2>7 DEF Host
<1>6. CASE Shutdown
  <2>1. /\ life = "serving" /\ cycle = "idle"
        /\ \A w \in Wirings : armed[w] => gatewayHandle = w
        /\ gatewayHandle # None => HandleArmed
    BY <1>0, <1>t, <1>6 DEF Shutdown, HandleArmed, TypeOK, HandlesInv, Maybe, NoOrphanLoop
  <2>2. /\ \A w \in Wirings : ~armed'[w]
        /\ life' = IF gatewayHandle # None THEN "unregistering" ELSE "closing"
    BY <1>t, <1>6, <2>1 DEF Shutdown, HandleArmed, TypeOK
  <2> QED
    BY <1>0, <1>6, <2>1, <2>2 DEF Shutdown
<1>7. CASE ShutdownUnregistered
  BY <1>0, <1>t, <1>7 DEF ShutdownUnregistered, Settled, Replied, Rejected, TypeOK, Maybe
<1>8. CASE ShutdownTimesOut \/ Exit \/ Exited \/ UNCHANGED vars
  BY <1>0, <1>t, <1>8 DEF ShutdownTimesOut, Exit, Exited, vars
<1> QED
  BY <1>1, <1>2, <1>3, <1>4, <1>5, <1>6, <1>7, <1>8 DEF Next

LEMMA FaultlessInvariant == Spec => [](IInv /\ FaultlessInv)
<1>1. Init => IInv /\ FaultlessInv
  BY InitIInv, FaultlessInit
<1>2. IInv /\ FaultlessInv /\ [Next]_vars => (IInv /\ FaultlessInv)'
  BY NextIInv, FaultlessStep
<1> QED
  BY <1>1, <1>2, PTL DEF Spec

\* A daemon that met no fault is registered exactly if it holds a registrar,
\* from its first wiring to the answer to its own unregister call: neither the
\* heartbeats nor the keepalive, however they overlap, take the row away or
\* start a reconnect.
THEOREM FaultlessIsRegistered ==
  Spec => [](faults = 0 /\ life \in {"serving", "unregistering"} =>
               cycle = "idle" /\ (row <=> gatewayHandle # None))
<1>1. FaultlessInv => (faults = 0 /\ life \in {"serving", "unregistering"} =>
                         cycle = "idle" /\ (row <=> gatewayHandle # None))
  BY DEF FaultlessInv
<1> QED
  BY <1>1, FaultlessInvariant, PTL

\* A step that takes the daemon away without a call in flight.
Leaves == faults = 0 /\ life = "unregistering" /\ life' = "closing" /\ NoCalls

\* os-host.ts:415 promises a clean signal.  It is one when no heartbeat is in
\* flight as the unregister call of a faultless daemon settles: the row is gone
\* then and, whatever fails afterwards, nothing puts it back.  (CleanLeave, which
\* leaves the heartbeats out of account, does not hold.)
THEOREM QuietLeaveIsClean == Spec => [][Leaves \/ Left => Left']_vars
<1>1. ASSUME IInv, FaultlessInv, [Next]_vars, Left PROVE Left'
  <2> USE <1>1 DEF Left, NoCalls, envVars, registrarVars, keepaliveVars, hostVars, shuttingDown
  <2>1. TypeOK /\ HandlesInv /\ life # "booting" /\ ~(life = "serving")
    BY DEF IInv
  <2>2. CASE Environment
    BY <2>2 DEF Environment, LinkDown, LinkUp, GatewayRestart, SandboxDies
  <2>3. ASSUME NEW w \in Wirings, TickStart(w) \/ Heartbeat(w) PROVE Left'
    <3>1. ~armed[w] /\ ~(beats[w] > 0) /\ ~(reregisters[w] > 0)
      OBVIOUS
    <3> QED
      BY <2>3, <3>1 DEF TickStart, Heartbeat, HeartbeatAnswered, HeartbeatRejected,
         ReregisterAnswered, ReregisterRejected
  <2>4. ASSUME NEW w \in Wirings, Keepalive(w) PROVE Left'
    BY <2>4 DEF Keepalive, KeepaliveWakes, KeepaliveAnswered, ApiReportsGone, GatewayGone, Reconnect
  <2>5. CASE Host
    BY <2>5 DEF Host, ReconnectUnregistered, ResolveNull, WireThrows, Wired, BackoffOver,
       Resolved, ResolvedStale
  <2>6. CASE Shutdown
    BY <2>1, <2>6 DEF Shutdown
  <2>7. CASE ShutdownUnregistered
    BY <2>7 DEF ShutdownUnregistered, Settled, Replied, Rejected
  <2>8. CASE ShutdownTimesOut \/ Exit \/ Exited \/ UNCHANGED vars
    BY <2>8 DEF ShutdownTimesOut, Exit, Exited, vars
  <2> QED
    BY <2>2, <2>3, <2>4, <2>5, <2>6, <2>7, <2>8 DEF Next
<1>2. ASSUME IInv, FaultlessInv, [Next]_vars, Leaves PROVE Left'
  <2> USE <1>2 DEF Leaves, envVars, registrarVars, keepaliveVars, hostVars
  <2>1. /\ TypeOK /\ HandlesInv /\ cycle = "idle" /\ gatewayHandle # None /\ link
        /\ live[gatewayHandle] /\ \A w \in Wirings : ~armed[w]
    BY DEF IInv, TypeOK, HandlesInv, FaultlessInv, shuttingDown
  <2>2. ShutdownUnregistered
    BY <2>1 DEF Next, Environment, LinkDown, LinkUp, GatewayRestart, SandboxDies, TickStart,
       Heartbeat, HeartbeatAnswered, HeartbeatRejected, ReregisterAnswered, ReregisterRejected,
       TickFails, Keepalive, KeepaliveWakes, KeepaliveAnswered, ApiReportsGone, GatewayGone,
       Reconnect, Host, ReconnectUnregistered, ResolveNull, WireThrows, Wired, BackoffOver,
       Resolved, ResolvedStale, LeaveCycle, Shutdown, ShutdownTimesOut, Exit, Exited, vars
  <2> QED
    BY <2>1, <2>2 DEF ShutdownUnregistered, Settled, Replied, Rejected, Reachable, Left, NoCalls,
       shuttingDown
<1>3. IInv /\ FaultlessInv /\ [Next]_vars => [Leaves \/ Left => Left']_vars
  BY <1>1, <1>2
<1> QED
  BY <1>3, FaultlessInvariant, PTL DEF Spec
=============================================================================
