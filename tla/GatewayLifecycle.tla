-------------------------- MODULE GatewayLifecycle --------------------------
(***************************************************************************)
(* How an OlaneOS daemon keeps itself registered with its remote gateway:  *)
(* runOlaneOSHost (os-host.ts) wires one registrar with its libp2p         *)
(* heartbeat (gateway-registrar.ts) and one api keepalive loop             *)
(* (auto-resolve-gateway.ts), and replaces both in its reconnect cycle.    *)
(*                                                                         *)
(* The daemon is one event loop: a step is the code between two awaits.    *)
(* Each call of wireGatewayRegistrationAndKeepalive uses one wiring slot;  *)
(* a slot is used again once nothing of its last use is pending.           *)
(*                                                                         *)
(* The gateway, the api and the network are outside the repository: one    *)
(* registry row for the daemon's id, the api's view of the sandbox, and a  *)
(* libp2p link that goes down and comes back.  MaxFaults bounds what the   *)
(* environment does wrong, MaxTicks the heartbeats of a registrar that are *)
(* in flight at once.                                                      *)
(***************************************************************************)
EXTENDS Naturals

CONSTANTS
  Wirings,           \* wiring slots: a registrar and its keepalive loop
  None,              \* "null" of gatewayHandle, keepaliveStop and wiring
  FailureThreshold,  \* heartbeat failures in a row that ask for a reconnect
  MaxTicks,          \* bound: heartbeat ticks of one registrar in flight
  MaxFaults          \* bound: faults of the environment

ASSUME NoneAssumption == None \notin Wirings
ASSUME BoundAssumption == /\ FailureThreshold \in Nat \ {0}
                          /\ MaxTicks \in Nat
                          /\ MaxFaults \in Nat

VARIABLES
  link,           \* the libp2p path to the gateway works
  session,        \* the api's view of the sandbox: running, gone, stopped
  row,            \* the live gateway's registry holds the daemon's row
  faults,         \* faults so far
  live,           \* the slot's multiaddr is the one of the live sandbox
  armed,          \* the slot's registrar timer runs (~stopped)
  failures,       \* the slot's consecutiveFailures
  fired,          \* the slot's reconnectFired
  beats,          \* heartbeat calls in flight
  reregisters,    \* register calls of heartbeat ticks in flight
  loop,           \* the slot's keepalive: off, sleeping, posting, gone
  cancelled,      \* the slot's keepalive was unsubscribed
  gatewayHandle,  \* the registrar the host holds
  keepaliveStop,  \* the keepalive the host holds
  cycle,          \* where the host's wiring or reconnect is
  wiring,         \* the slot whose first register call is in flight
  life            \* booting, serving, then the shutdown handler's awaits

envVars       == <<link, session, row, faults, live>>
registrarVars == <<armed, failures, fired, beats, reregisters>>
keepaliveVars == <<loop, cancelled>>
hostVars      == <<gatewayHandle, keepaliveStop, cycle, wiring, life>>
vars          == <<envVars, registrarVars, keepaliveVars, hostVars>>

Maybe == Wirings \union {None}

TypeOK ==
  /\ link \in BOOLEAN
  /\ session \in {"running", "gone", "stopped"}
  /\ row \in BOOLEAN
  /\ faults \in 0 .. MaxFaults
  /\ live \in [Wirings -> BOOLEAN]
  /\ armed \in [Wirings -> BOOLEAN]
  /\ failures \in [Wirings -> 0 .. FailureThreshold]
  /\ fired \in [Wirings -> BOOLEAN]
  /\ beats \in [Wirings -> Nat]
  /\ reregisters \in [Wirings -> Nat]
  /\ loop \in [Wirings -> {"off", "sleeping", "posting", "gone"}]
  /\ cancelled \in [Wirings -> BOOLEAN]
  /\ gatewayHandle \in Maybe
  /\ keepaliveStop \in Maybe
  /\ cycle \in {"idle", "unregistering", "resolving", "registering", "backoff"}
  /\ wiring \in Maybe
  /\ life \in {"booting", "serving", "unregistering", "closing", "exited"}
  /\ cycle = "registering" <=> wiring # None
  /\ cycle = "unregistering" \/ life = "unregistering" => gatewayHandle # None

shuttingDown == life \in {"unregistering", "closing", "exited"}
reconnecting == life # "booting" /\ cycle # "idle"
Running      == life # "exited"

Init ==
  /\ link = TRUE /\ session = "stopped" /\ row = FALSE /\ faults = 0
  /\ live = [w \in Wirings |-> FALSE]
  /\ armed = [w \in Wirings |-> FALSE]
  /\ failures = [w \in Wirings |-> 0]
  /\ fired = [w \in Wirings |-> FALSE]
  /\ beats = [w \in Wirings |-> 0]
  /\ reregisters = [w \in Wirings |-> 0]
  /\ loop = [w \in Wirings |-> "off"]
  /\ cancelled = [w \in Wirings |-> FALSE]
  /\ gatewayHandle = None /\ keepaliveStop = None /\ wiring = None
  /\ cycle = "resolving" /\ life = "booting"

-----------------------------------------------------------------------------
(* The environment.                                                        *)

Reachable(w) == link /\ live[w]

Fault == faults < MaxFaults /\ faults' = faults + 1

LinkDown ==
  /\ Running /\ link /\ Fault
  /\ link' = FALSE
  /\ UNCHANGED <<session, row, live, registrarVars, keepaliveVars, hostVars>>

LinkUp ==
  /\ Running /\ ~link
  /\ link' = TRUE
  /\ UNCHANGED <<session, row, faults, live>>
  /\ UNCHANGED <<registrarVars, keepaliveVars, hostVars>>

\* The gateway restarts and its in-memory registry is empty.
GatewayRestart ==
  /\ Running /\ row /\ Fault
  /\ row' = FALSE
  /\ UNCHANGED <<link, session, live, registrarVars, keepaliveVars, hostVars>>

\* E2B stops the idle sandbox: its address is dead, the api does not know yet.
SandboxDies ==
  /\ Running /\ session = "running" /\ Fault
  /\ session' = "gone" /\ row' = FALSE
  /\ live' = [w \in Wirings |-> FALSE]
  /\ UNCHANGED <<link, registrarVars, keepaliveVars, hostVars>>

\* A call to the gateway that ends with a reply: it has set the row to r.
Replied(w, r) == Reachable(w) /\ row' = r

\* A call that rejects.  The gateway may have served it before the link broke.
Rejected(w, r) ==
  /\ ~Reachable(w)
  /\ \/ UNCHANGED row
     \/ live[w] /\ row' = r

\* A call whose error the caller swallows: both ends look the same to it.
Settled(w, r) == Replied(w, r) \/ Rejected(w, r)

-----------------------------------------------------------------------------
(* reconnect(): the synchronous part, up to its first await.               *)

StopKeepalive(k) ==
  cancelled' = IF k = None THEN cancelled ELSE [cancelled EXCEPT ![k] = TRUE]

Reconnect ==
  \/ /\ shuttingDown \/ reconnecting
     /\ UNCHANGED <<armed, cancelled, hostVars>>
  \/ /\ ~shuttingDown /\ ~reconnecting
     /\ gatewayHandle # None
     /\ armed' = [armed EXCEPT ![gatewayHandle] = FALSE]
     /\ cycle' = "unregistering"
     /\ UNCHANGED <<cancelled, gatewayHandle, keepaliveStop, wiring, life>>
  \/ /\ ~shuttingDown /\ ~reconnecting
     /\ gatewayHandle = None
     /\ StopKeepalive(keepaliveStop)
     /\ keepaliveStop' = None
     /\ cycle' = "resolving"
     /\ UNCHANGED <<armed, gatewayHandle, wiring, life>>

-----------------------------------------------------------------------------
(* The registrar's heartbeat.  Ticks are started by setInterval and may    *)
(* overlap; only a tick's start looks at `stopped'.                        *)

TickStart(w) ==
  /\ Running /\ armed[w]
  /\ beats[w] + reregisters[w] < MaxTicks
  /\ beats' = [beats EXCEPT ![w] = @ + 1]
  /\ UNCHANGED <<envVars, armed, failures, fired, reregisters>>
  /\ UNCHANGED <<keepaliveVars, hostVars>>

TickSucceeds(w) == failures' = [failures EXCEPT ![w] = 0] /\ UNCHANGED fired

\* consecutiveFailures after one more; beyond the threshold nothing reads it.
OneMoreFailure(w) ==
  IF failures[w] < FailureThreshold THEN failures[w] + 1 ELSE FailureThreshold

AsksReconnect(w) == OneMoreFailure(w) >= FailureThreshold /\ ~fired[w]

\* The tick's catch block: count, and ask the host once for a reconnect.
TickFails(w) ==
  /\ failures' = [failures EXCEPT ![w] = OneMoreFailure(w)]
  /\ \/ /\ AsksReconnect(w)
        /\ fired' = [fired EXCEPT ![w] = TRUE]
        /\ Reconnect
     \/ /\ ~AsksReconnect(w)
        /\ UNCHANGED <<fired, armed, cancelled, hostVars>>

\* Mutant: the registrar takes not_registered for a success.
HeartbeatNeverReregisters(w) ==
  /\ Running /\ beats[w] > 0 /\ Reachable(w)
  /\ beats' = [beats EXCEPT ![w] = @ - 1]
  /\ TickSucceeds(w)
  /\ UNCHANGED <<envVars, armed, reregisters, keepaliveVars, hostVars>>

\* The gateway answers a heartbeat; an unknown daemon registers again.
HeartbeatAnswered(w) ==
  /\ Running /\ beats[w] > 0 /\ Reachable(w)
  /\ beats' = [beats EXCEPT ![w] = @ - 1]
  /\ \/ row /\ TickSucceeds(w) /\ UNCHANGED reregisters
     \/ /\ ~row
        /\ reregisters' = [reregisters EXCEPT ![w] = @ + 1]
        /\ UNCHANGED <<failures, fired>>
  /\ UNCHANGED <<envVars, armed, keepaliveVars, hostVars>>

HeartbeatRejected(w) ==
  /\ Running /\ beats[w] > 0 /\ ~Reachable(w)
  /\ beats' = [beats EXCEPT ![w] = @ - 1]
  /\ TickFails(w)
  /\ UNCHANGED <<envVars, reregisters, loop>>

ReregisterAnswered(w) ==
  /\ Running /\ reregisters[w] > 0
  /\ reregisters' = [reregisters EXCEPT ![w] = @ - 1]
  /\ Replied(w, TRUE)
  /\ TickSucceeds(w)
  /\ UNCHANGED <<link, session, faults, live, armed, beats>>
  /\ UNCHANGED <<keepaliveVars, hostVars>>

ReregisterRejected(w) ==
  /\ Running /\ reregisters[w] > 0
  /\ reregisters' = [reregisters EXCEPT ![w] = @ - 1]
  /\ Rejected(w, TRUE)
  /\ TickFails(w)
  /\ UNCHANGED <<link, session, faults, live, beats, loop>>

-----------------------------------------------------------------------------
(* The keepalive loop: one tick at a time, and a sleep in between that     *)
(* the unsubscribe function ends at once.                                  *)

KeepaliveWakes(w) ==
  /\ Running /\ loop[w] = "sleeping"
  /\ loop' = [loop EXCEPT ![w] = IF cancelled[w] THEN "off" ELSE "posting"]
  /\ UNCHANGED <<envVars, registrarVars, cancelled, hostVars>>

\* Any answer but 410, a network error, or no token: the loop goes on.
KeepaliveAnswered(w) ==
  /\ Running /\ loop[w] = "posting"
  /\ loop' = [loop EXCEPT ![w] = IF cancelled[w] THEN "off" ELSE "sleeping"]
  /\ UNCHANGED <<envVars, registrarVars, cancelled, hostVars>>

\* The api finds the sandbox dead, marks the session and answers 410.
ApiReportsGone(w) ==
  /\ Running /\ loop[w] = "posting" /\ session = "gone"
  /\ session' = "stopped"
  /\ loop' = [loop EXCEPT ![w] = "gone"]
  /\ UNCHANGED <<link, row, faults, live, registrarVars, cancelled, hostVars>>

\* The 410 reaches the tick, which does not look at `stopped' before firing.
GatewayGone(w) ==
  /\ Running /\ loop[w] = "gone"
  /\ loop' = [loop EXCEPT ![w] = "off"]
  /\ Reconnect
  /\ UNCHANGED <<envVars, failures, fired, beats, reregisters>>

-----------------------------------------------------------------------------
(* The host: first wiring, reconnect cycle, shutdown.                      *)

\* Mutant: reconnect() forgets the old keepalive instead of stopping it.
ReconnectLeaksKeepalive ==
  /\ Running /\ cycle = "unregistering"
  /\ Settled(gatewayHandle, FALSE)
  /\ gatewayHandle' = None /\ keepaliveStop' = None
  /\ cycle' = IF shuttingDown THEN "idle" ELSE "resolving"
  /\ UNCHANGED <<link, session, faults, live, registrarVars, keepaliveVars>>
  /\ UNCHANGED <<wiring, life>>

\* reconnect() goes on once the old registrar's unregister call settled.
ReconnectUnregistered ==
  /\ Running /\ cycle = "unregistering"
  /\ Settled(gatewayHandle, FALSE)
  /\ gatewayHandle' = None
  /\ StopKeepalive(keepaliveStop)
  /\ keepaliveStop' = None
  /\ cycle' = IF shuttingDown THEN "idle" ELSE "resolving"
  /\ UNCHANGED <<link, session, faults, live, registrarVars, loop, wiring, life>>

\* The wiring or the cycle ends; the first one hands over to serving.
LeaveCycle ==
  /\ cycle' = "idle"
  /\ life' = IF life = "booting" THEN "serving" ELSE life

\* resolveGatewayOptions returns null: no-registration mode.
ResolveNull ==
  /\ Running /\ cycle = "resolving"
  /\ LeaveCycle
  /\ UNCHANGED <<envVars, registrarVars, keepaliveVars>>
  /\ UNCHANGED <<gatewayHandle, keepaliveStop, wiring>>

\* registerWithGateway throws: the leader is missing or has no transport.
WireThrows ==
  /\ Running /\ cycle = "resolving" /\ Fault
  /\ IF life = "booting" THEN LeaveCycle
                         ELSE cycle' = "backoff" /\ UNCHANGED life
  /\ UNCHANGED <<link, session, row, live, registrarVars, keepaliveVars>>
  /\ UNCHANGED <<gatewayHandle, keepaliveStop, wiring>>

Free(w) == /\ ~armed[w] /\ beats[w] = 0 /\ reregisters[w] = 0
           /\ loop[w] = "off" /\ w \notin {gatewayHandle, keepaliveStop, wiring}

\* The api returns the sandbox's address, provisioning one if there is none,
\* and registerWithGateway sends the first register call.
Resolved(w) ==
  /\ Running /\ cycle = "resolving" /\ Free(w)
  /\ session' = "running"
  /\ live' = [live EXCEPT ![w] = TRUE]
  /\ row' = IF session = "running" THEN row ELSE FALSE
  /\ wiring' = w
  /\ cycle' = "registering"
  /\ UNCHANGED <<link, faults, registrarVars, keepaliveVars>>
  /\ UNCHANGED <<gatewayHandle, keepaliveStop, life>>

\* The api has not noticed that the sandbox is dead and returns its address.
ResolvedStale(w) ==
  /\ Running /\ cycle = "resolving" /\ Free(w)
  /\ session = "gone" /\ Fault
  /\ live' = [live EXCEPT ![w] = FALSE]
  /\ wiring' = w
  /\ cycle' = "registering"
  /\ UNCHANGED <<link, session, row, registrarVars, keepaliveVars>>
  /\ UNCHANGED <<gatewayHandle, keepaliveStop, life>>

\* Mutant: the old registrar is armed again instead of building a fresh one.
WiredStale ==
  /\ Running /\ cycle = "registering"
  /\ Settled(wiring, TRUE)
  /\ armed' = [armed EXCEPT ![wiring] = TRUE]
  /\ loop' = [loop EXCEPT ![wiring] = "posting"]
  /\ cancelled' = [cancelled EXCEPT ![wiring] = FALSE]
  /\ gatewayHandle' = wiring /\ keepaliveStop' = wiring /\ wiring' = None
  /\ LeaveCycle
  /\ UNCHANGED <<link, session, faults, live>>
  /\ UNCHANGED <<failures, fired, beats, reregisters>>

\* The first register call settled, its error swallowed: the heartbeat timer
\* is armed, the host holds the handle, the keepalive sends its first POST.
Wired ==
  /\ Running /\ cycle = "registering"
  /\ Settled(wiring, TRUE)
  /\ armed' = [armed EXCEPT ![wiring] = TRUE]
  /\ failures' = [failures EXCEPT ![wiring] = 0]
  /\ fired' = [fired EXCEPT ![wiring] = FALSE]
  /\ loop' = [loop EXCEPT ![wiring] = "posting"]
  /\ cancelled' = [cancelled EXCEPT ![wiring] = FALSE]
  /\ gatewayHandle' = wiring
  /\ keepaliveStop' = wiring
  /\ wiring' = None
  /\ LeaveCycle
  /\ UNCHANGED <<link, session, faults, live, beats, reregisters>>

\* Mutant: the retry loop is while (true).
BackoffIgnoresShutdown ==
  /\ Running /\ cycle = "backoff"
  /\ cycle' = "resolving"
  /\ UNCHANGED <<envVars, registrarVars, keepaliveVars>>
  /\ UNCHANGED <<gatewayHandle, keepaliveStop, wiring, life>>

BackoffOver ==
  /\ Running /\ cycle = "backoff"
  /\ cycle' = IF shuttingDown THEN "idle" ELSE "resolving"
  /\ UNCHANGED <<envVars, registrarVars, keepaliveVars>>
  /\ UNCHANGED <<gatewayHandle, keepaliveStop, wiring, life>>

\* Mutant: the shutdown handler clears the handle under a reconnect.
ShutdownClearsHandle ==
  /\ life = "serving"
  /\ StopKeepalive(keepaliveStop)
  /\ armed' = [w \in Wirings |-> armed[w] /\ w # gatewayHandle]
  /\ life' = "closing" /\ gatewayHandle' = None
  /\ UNCHANGED <<envVars, failures, fired, beats, reregisters, loop>>
  /\ UNCHANGED <<keepaliveStop, cycle, wiring>>

HandleArmed == \E w \in Wirings : w = gatewayHandle /\ armed[w]

\* SIGTERM: stop the keepalive, then unregister.  The unregister call of a
\* registrar that reconnect() is already unregistering returns at once.
Shutdown ==
  /\ life = "serving"
  /\ StopKeepalive(keepaliveStop)
  /\ \/ /\ HandleArmed
        /\ armed' = [armed EXCEPT ![gatewayHandle] = FALSE]
        /\ life' = "unregistering"
     \/ /\ ~HandleArmed
        /\ life' = "closing"
        /\ UNCHANGED armed
  /\ UNCHANGED <<envVars, failures, fired, beats, reregisters, loop>>
  /\ UNCHANGED <<gatewayHandle, keepaliveStop, cycle, wiring>>

ShutdownUnregistered ==
  /\ life = "unregistering"
  /\ Settled(gatewayHandle, FALSE)
  /\ life' = "closing"
  /\ UNCHANGED <<link, session, faults, live, registrarVars, keepaliveVars>>
  /\ UNCHANGED <<gatewayHandle, keepaliveStop, cycle, wiring>>

\* The unregister call outlasts the handler's 30 s: the process is ended.
ShutdownTimesOut ==
  /\ life = "unregistering" /\ Fault
  /\ life' = "exited"
  /\ UNCHANGED <<link, session, row, live, registrarVars, keepaliveVars>>
  /\ UNCHANGED <<gatewayHandle, keepaliveStop, cycle, wiring>>

\* Token manager and OS are stopped and the process ends.
Exit ==
  /\ life = "closing"
  /\ life' = "exited"
  /\ UNCHANGED <<envVars, registrarVars, keepaliveVars>>
  /\ UNCHANGED <<gatewayHandle, keepaliveStop, cycle, wiring>>

Exited == ~Running /\ UNCHANGED vars

-----------------------------------------------------------------------------
Environment == LinkDown \/ LinkUp \/ GatewayRestart \/ SandboxDies

Heartbeat(w) ==
  \/ HeartbeatAnswered(w) \/ HeartbeatRejected(w)
  \/ ReregisterAnswered(w) \/ ReregisterRejected(w)

Keepalive(w) ==
  KeepaliveWakes(w) \/ KeepaliveAnswered(w) \/ ApiReportsGone(w) \/ GatewayGone(w)

Host ==
  \/ ReconnectUnregistered \/ ResolveNull \/ WireThrows \/ Wired \/ BackoffOver
  \/ \E w \in Wirings : Resolved(w) \/ ResolvedStale(w)

Next ==
  \/ Environment
  \/ \E w \in Wirings : TickStart(w) \/ Heartbeat(w) \/ Keepalive(w)
  \/ Host
  \/ Shutdown \/ ShutdownUnregistered \/ ShutdownTimesOut \/ Exit
  \/ Exited

(***************************************************************************)
(* Timers fire, calls settle or time out, and the event loop runs every    *)
(* ready continuation; the link comes back.  Nobody has to shut down.      *)
(***************************************************************************)
Fairness ==
  /\ WF_vars(LinkUp)
  /\ WF_vars(Host)
  /\ \A w \in Wirings : /\ WF_vars(TickStart(w))
                        /\ WF_vars(Heartbeat(w))
                        /\ WF_vars(Keepalive(w))

Spec == Init /\ [][Next]_vars /\ Fairness

-----------------------------------------------------------------------------
(* Properties.                                                             *)

\* No heartbeat timer and no keepalive loop runs that the host cannot stop:
\* across reconnects, stale signals and shutdown, only the ones it holds run.
NoOrphanLoop ==
  \A w \in Wirings :
    /\ armed[w] => gatewayHandle = w
    /\ loop[w] \in {"sleeping", "posting"} /\ ~cancelled[w] => keepaliveStop = w

\* A registrar asks for a reconnect once, and reconnect() drops requests while
\* it is busy.  No request of the current registrar is lost that way: one that
\* has asked is being torn down, or the daemon is going away.
SignalNotLost ==
  \A w \in Wirings :
    armed[w] /\ ~shuttingDown => ~fired[w] /\ loop[w] # "off"

\* Once the shutdown handler has run, reconnect() makes no further attempt: it
\* does not resolve the gateway again, whatever late signals arrive.
NoAttemptAfterShutdown ==
  [][shuttingDown /\ cycle # "resolving" => cycle' # "resolving"]_vars

Unregistered == gatewayHandle = None /\ cycle = "idle"

\* When faults stop, the daemon is registered with the live gateway for good,
\* has given up (no-registration mode), or is being shut down.
EventuallyRegistered ==
  <>[](row \/ Unregistered \/ shuttingDown)

\* os-host.ts:415: unregistering first "gives the gateway a clean signal that
\* we're going away instead of waiting for the stale-after-N-minutes filter":
\* a daemon that exits and never met a fault leaves no row behind.
CleanLeave == life = "exited" /\ faults = 0 => ~row
=============================================================================
