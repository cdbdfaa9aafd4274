--------------------------- MODULE PodConnection ---------------------------
(***************************************************************************)
(* One PodConnection of the daemon: the status it publishes, the routes it *)
(* owns (pod-server proxy and git tunnel), its event loop, the supervisor  *)
(* that repairs it, the demand for a connection, and the host it runs on.  *)
(* Models daemon/pod_connection.rs, daemon/connections.rs and the parts of *)
(* daemon.rs that drive them.                                              *)
(*                                                                         *)
(* The repair epoch is a counter that is only ever compared for equality   *)
(* with a copy read earlier.  Instead of numbers the model keeps, for each *)
(* copy, whether it still equals the counter: noted holds the actors whose *)
(* repair_epoch does, current those whose connection epoch (a loop) or     *)
(* attempt's epoch (the supervisor) does.  A signal empties both.          *)
(*                                                                         *)
(* A step is what one actor does between two points where another can run. *)
(* Simplified: the pod stays on one host; the ssh agent, the codex proxy   *)
(* and forwarded ports are left out; a stopped loop's thread must have     *)
(* ended before its name in Loops is used again.                           *)
(***************************************************************************)
EXTENDS Naturals, Sequences, FiniteSets

CONSTANTS
    Loops,           \* event-loop threads
    NoLoop,          \* the empty event_loop slot
    Supervisor,      \* the task that supervise_git_tunnel runs in
    Clients,         \* callers that subscribe or prepare a connection
    Slots,           \* POD_REPAIR_CONCURRENCY
    FailureLimit,    \* POD_REPAIR_FAILURE_LIMIT
    Compose,         \* whether the pod is a compose project
    Operations,      \* the operations an instance includes
    Faults,          \* the faults an instance includes
    MaxHostEvents    \* bound on host events not yet read

ASSUME ConnectionAssumption ==
    /\ NoLoop \notin Loops
    /\ Supervisor \notin Loops
    /\ IsFiniteSet(Loops)
    /\ Slots \in Nat \ {0}
    /\ FailureLimit \in Nat \ {0}
    /\ Compose \in BOOLEAN
    /\ Operations \subseteq
           {"connect", "enter", "stop", "recreate", "remove", "subscribe", "repair"}
    /\ Faults \subseteq {"host", "link", "pod", "server", "tunnel"}
    /\ MaxHostEvents \in Nat

VARIABLES
    status,          \* PodConnection.status
    paused,          \* repair_state.paused
    requested,       \* connection_requested
    processing,      \* last_agent_processing
    httpVersion,     \* the loop event_http_version was learned from, or NoLoop
    server,          \* resources.pod_server
    tunnel,          \* resources.git_tunnel
    supervise,       \* resources.supervise_git_tunnel
    validate,        \* resources.validate_pod_before_git_tunnel_repair
    slot,            \* event_loop
    removed,         \* the connection is no longer in the registry
    noted, current,  \* which copies of the epoch are up to date
    pc,              \* where each loop is
    stop,            \* loops whose stop flag is set
    failures,        \* backoff.failures of each loop
    wasDown,         \* loops whose host_was_disconnected is set
    routed,          \* loops whose endpoint is the present pod server
    sup,             \* where the supervisor's task is
    supFailures,     \* its backoff.failures
    cooling,         \* slots that failed attempts still hold
    todo,            \* remaining steps of the operation that has the lease
    client,          \* what each client has
    hostStatus,      \* the host's watch channel
    hostEvents,      \* host events not yet read
    podUp,           \* the pod's container and server run
    setupDone        \* the pod server's setup_done

connVars == <<status, paused, requested, processing, httpVersion, removed>>
routeVars == <<server, tunnel, supervise, validate>>
epochVars == <<noted, current>>
loopVars == <<pc, stop, failures, wasDown, routed>>
supVars  == <<sup, supFailures>>
hostVars == <<hostStatus, hostEvents>>
podVars  == <<podUp, setupDone>>
vars == <<connVars, routeVars, slot, epochVars, loopVars, supVars, cooling,
          todo, client, hostVars, podVars>>

Statuses == {"HostDisconnected", "Connecting", "Connected", "PodDisconnected", "Stopped"}

LoopPlaces == {"none", "resume", "host", "hostDown", "connecting", "permit", "connect",
               "greeting", "apply", "read", "event", "failed", "eof", "lost", "wait"}

\* the places in which the repair attempt holds its permit and git_tunnel_setup
Attempt == {"validate", "gone", "mark", "dial", "install", "proxy", "publish", "loop"}

Route == {"none", "alive", "dead"}

ForegroundSteps == {"enable", "tunnel", "dial", "route", "probe", "proxy", "ready", "events"}

TypeOK ==
    /\ status \in Statuses
    /\ paused \in BOOLEAN /\ requested \in BOOLEAN /\ processing \in BOOLEAN
    /\ httpVersion \in Loops \cup {NoLoop} /\ removed \in BOOLEAN
    /\ server \in Route /\ tunnel \in Route
    /\ supervise \in BOOLEAN /\ validate \in BOOLEAN
    /\ podUp \in BOOLEAN /\ setupDone \in BOOLEAN
    /\ slot \in Loops \cup {NoLoop}
    /\ noted \subseteq Loops \cup {Supervisor}
    /\ current \subseteq Loops \cup {Supervisor}
    /\ pc \in [Loops -> LoopPlaces]
    /\ stop \subseteq Loops /\ wasDown \subseteq Loops /\ routed \subseteq Loops
    /\ failures \in [Loops -> 0 .. FailureLimit - 1]
    /\ sup \in Attempt \cup {"idle", "admit", "wait"}
    /\ supFailures \in 0 .. FailureLimit - 1
    /\ cooling \in Nat
    /\ todo \in Seq(ForegroundSteps)
    /\ client \in [Clients -> {"none", "prepared", "waiting", "told"}]
    /\ hostStatus \in {"Connected", "Disconnected"}
    /\ hostEvents \in Seq({"Connected", "Disconnected"})

-----------------------------------------------------------------------------
(* What the connection and its parts report.                                *)

\* wants_reconnect: a request, a subscriber, or an agent at work
WantsReconnect ==
    requested \/ processing \/ \E c \in Clients : client[c] \in {"waiting", "told"}

\* HostConnection::is_connected
HostIsConnected == hostStatus = "Connected"

\* everything that try_schedule_git_tunnel_repair wants alive
AllAlive == tunnel = "alive" /\ server = "alive" /\ slot # NoLoop

\* A bug: the event loop keeps its permit until the greeting
FreeSlotsHeld ==
    Slots - cooling - Cardinality({l \in Loops : pc[l] \in {"connect", "greeting"}})
          - (IF sup \in Attempt THEN 1 ELSE 0)

\* free slots of the host's PodRepairLimiter
FreeSlots ==
    Slots - cooling - Cardinality({l \in Loops : pc[l] = "connect"})
          - (IF sup \in Attempt THEN 1 ELSE 0)

\* the loop's endpoint leads to a pod server that answers
Reachable(l) == podUp /\ server = "alive" /\ l \in routed

\* a transport over the host may break before the monitor notices
Unnoticed == "link" \in Faults

\* the backend can run a command in the pod
Backend == podUp /\ HostIsConnected

-----------------------------------------------------------------------------
(* Operations of PodConnection, as the actors below use them.               *)

\* PodRepairState::signal: every copy of the epoch is out of date
Signal == noted' = {} /\ current' = {}

\* PodRepairState::resume, taken when cond holds
ResumeIf(cond) ==
    IF cond THEN paused' = FALSE /\ Signal ELSE UNCHANGED <<paused, epochVars>>

\* both transports are up: the request is served and waiting clients are told
Served(st, tun, sv) == st = "Connected" /\ (~sv \/ tun = "alive")

\* the clients after emit_reconnect(Connected) or emit_reconnect(Stopped)
Told == [c \in Clients |-> IF client[c] = "waiting" THEN "told" ELSE client[c]]

\* A bug: the waiting clients are not told
FinishRequestUntold(st, tun, sv) ==
    requested' = (requested /\ ~Served(st, tun, sv)) /\ UNCHANGED client

\* finish_connection_request_locked: the request is served, clients are told
FinishRequest(st, tun, sv) ==
    IF Served(st, tun, sv)
    THEN requested' = FALSE /\ client' = Told
    ELSE UNCHANGED <<requested, client>>

\* request_connection: unless it is served at once, a request resumes repair
RequestResumes == ~Served(status, tunnel, supervise) /\ (paused \/ status # "Connected")

RequestConnection ==
    IF Served(status, tunnel, supervise)
    THEN requested' = FALSE /\ client' = Told
    ELSE requested' = TRUE /\ UNCHANGED client

\* A bug: the pause leaves the request
PauseRepairOnly == paused' = TRUE /\ Signal /\ UNCHANGED requested

\* pause_pod_repair
PauseRepair == requested' = FALSE /\ paused' = TRUE /\ Signal

\* stop_event_loop_locked
StopEventLoop ==
    /\ stop' = stop \cup ({slot} \ {NoLoop})
    /\ slot' = NoLoop
    /\ httpVersion' = NoLoop
    /\ Signal

\* stop_events, disable_git_tunnel_supervision included
StopEvents ==
    /\ StopEventLoop
    /\ processing' = FALSE
    /\ requested' = FALSE
    /\ status' = "Stopped"
    /\ supervise' = FALSE /\ validate' = FALSE /\ tunnel' = "none"
    /\ client' = Told

\* begin_event_loop_at_epoch and the thread that start_event_loop spawns
BeginEventLoop(l) ==
    /\ pc[l] = "none"
    /\ slot' = l
    /\ pc' = [pc EXCEPT ![l] = "resume"]
    /\ routed' = routed \cup {l}
    /\ status' = "Connecting"

\* A bug: the slot is not looked at
NoServerForEventLoop == server # "alive"

\* start_event_loop has nothing to do
NoEventLoopToStart == server # "alive" \/ slot # NoLoop

\* a foreground operation has git_tunnel_setup
SetupBusy == todo # <<>> /\ Head(todo) = "dial"

-----------------------------------------------------------------------------
(* The event loop: run_pod_event_loop.                                      *)

Goto(l, place) == pc' = [pc EXCEPT ![l] = place]

\* wait_for_pod_repair_resume goes round its loop
LoopIdle(l) ==
    /\ pc[l] = "resume" /\ l \notin stop
    /\ paused \/ ~WantsReconnect
    /\ noted' = noted \cup {l}
    /\ UNCHANGED <<connVars, routeVars, slot, current, loopVars, supVars, cooling, todo,
                   client, hostVars, podVars>>

\* wait_for_pod_repair_resume returns true; the loop looks at the host
LoopResume(l) ==
    /\ pc[l] = "resume" /\ l \notin stop
    /\ ~paused /\ WantsReconnect
    /\ wasDown' = IF HostIsConnected THEN wasDown \ {l} ELSE wasDown \cup {l}
    /\ Goto(l, "host")
    /\ UNCHANGED <<connVars, routeVars, slot, epochVars, stop, failures, routed, supVars,
                   cooling, todo, client, hostVars, podVars>>

\* the stop flag ends the thread wherever it is read
LoopExit(l) ==
    /\ pc[l] \in {"resume", "host", "read"} /\ l \in stop
    /\ Goto(l, "none")
    /\ stop' = stop \ {l} /\ wasDown' = wasDown \ {l} /\ routed' = routed \ {l}
    /\ failures' = [failures EXCEPT ![l] = 0]
    /\ noted' = noted \ {l} /\ current' = current \ {l}
    /\ UNCHANGED <<connVars, routeVars, slot, supVars, cooling, todo, client, hostVars,
                   podVars>>

\* wait_for_host finds the host connected
LoopHostUp(l) ==
    /\ pc[l] = "host" /\ l \notin stop
    /\ hostStatus = "Connected"
    /\ IF l \in wasDown
       THEN failures' = [failures EXCEPT ![l] = 0] /\ noted' = noted \cup {l}
       ELSE UNCHANGED <<failures, noted>>
    /\ wasDown' = wasDown \ {l}
    /\ Goto(l, "connecting")
    /\ UNCHANGED <<connVars, routeVars, slot, current, stop, routed, supVars, cooling, todo,
                   client, hostVars, podVars>>

\* wait_for_host finds it disconnected
LoopHostDown(l) ==
    /\ pc[l] = "host" /\ l \notin stop
    /\ hostStatus = "Disconnected"
    /\ Goto(l, "hostDown")
    /\ UNCHANGED <<connVars, routeVars, slot, epochVars, stop, failures, wasDown, routed,
                   supVars, cooling, todo, client, hostVars, podVars>>

\* set_status, which takes no epoch and does not look at the stop flag
LoopSetHostDown(l) ==
    /\ pc[l] = "hostDown"
    /\ status' = "HostDisconnected"
    /\ Goto(l, "host")
    /\ UNCHANGED <<paused, requested, processing, httpVersion, removed, routeVars, slot,
                   epochVars, stop, failures, wasDown, routed, supVars, cooling, todo, client,
                   hostVars, podVars>>

\* the same, and the epoch this connection belongs to
LoopSetConnecting(l) ==
    /\ pc[l] = "connecting"
    /\ status' = "Connecting"
    /\ current' = current \cup {l}
    /\ Goto(l, "permit")
    /\ UNCHANGED <<paused, requested, processing, httpVersion, removed, routeVars, slot, noted,
                   stop, failures, wasDown, routed, supVars, cooling, todo, client, hostVars,
                   podVars>>

\* A bug: an interrupted request is tried again, as if its connection had failed
LoopInterruptedRetries(l) ==
    /\ pc[l] \in {"permit", "connect", "greeting", "read"}
    /\ l \in stop \/ l \notin current
    /\ cooling' = IF pc[l] = "connect" THEN cooling + 1 ELSE cooling
    /\ Goto(l, "connecting")
    /\ UNCHANGED <<connVars, routeVars, slot, epochVars, stop, failures, wasDown, routed,
                   supVars, todo, client, hostVars, podVars>>

\* event_request returns None: stopped, or the epoch has changed
LoopInterrupted(l) ==
    /\ pc[l] \in {"permit", "connect", "greeting", "read"}
    /\ l \in stop \/ l \notin current
    /\ cooling' = IF pc[l] = "connect" THEN cooling + 1 ELSE cooling
    /\ Goto(l, "resume")
    /\ current' = current \ {l}
    /\ UNCHANGED <<connVars, routeVars, slot, noted, stop, failures, wasDown, routed,
                   supVars, todo, client, hostVars, podVars>>

\* the limiter admits the loop, which checks once more that it should connect
LoopAdmit(l) ==
    /\ pc[l] = "permit" /\ l \notin stop /\ l \in current
    /\ FreeSlots > 0
    /\ IF HostIsConnected /\ WantsReconnect
       THEN Goto(l, "connect") /\ UNCHANGED <<cooling, current>>
       ELSE Goto(l, "resume") /\ cooling' = cooling + 1 /\ current' = current \ {l}
    /\ UNCHANGED <<connVars, routeVars, slot, noted, stop, failures, wasDown, routed,
                   supVars, todo, client, hostVars, podVars>>

\* the pod answered: connect_pod_events gives the permit back and waits for
\* the greeting
LoopHeaders(l) ==
    /\ pc[l] = "connect" /\ l \in current /\ Reachable(l)
    /\ Goto(l, "greeting")
    /\ UNCHANGED <<connVars, routeVars, slot, epochVars, stop, failures, wasDown, routed,
                   supVars, cooling, todo, client, hostVars, podVars>>

\* the greeting, which the pod sends when its setup is done
LoopGreeting(l) ==
    /\ pc[l] = "greeting" /\ l \in current /\ Reachable(l) /\ setupDone
    /\ Goto(l, "apply")
    /\ UNCHANGED <<connVars, routeVars, slot, epochVars, stop, failures, wasDown, routed,
                   supVars, cooling, todo, client, hostVars, podVars>>

\* A bug: a greeting is applied whatever became of the epoch
LoopApplyAlways(l) ==
    /\ pc[l] = "apply"
    /\ status' = "Connected" /\ httpVersion' = l /\ processing' \in BOOLEAN
    /\ FinishRequest("Connected", tunnel, supervise)
    /\ Goto(l, "read")
    /\ UNCHANGED <<paused, removed, routeVars, slot, epochVars, stop, failures, wasDown, routed,
                   supVars, cooling, todo, hostVars, podVars>>

\* apply_greeting_at_epoch, then finish_connection_request
LoopApply(l) ==
    /\ pc[l] = "apply"
    /\ IF l \in current
       THEN /\ status' = "Connected" /\ httpVersion' = l /\ processing' \in BOOLEAN
            /\ FinishRequest("Connected", tunnel, supervise)
            /\ Goto(l, "read")
       ELSE /\ Goto(l, "resume")
            /\ UNCHANGED <<status, httpVersion, processing, requested, client>>
    /\ UNCHANGED <<paused, removed, routeVars, slot, epochVars, stop, failures, wasDown, routed,
                   supVars, cooling, todo, hostVars, podVars>>

\* an event of the stream is read
LoopEvent(l) ==
    /\ pc[l] = "read" /\ l \notin stop /\ HostIsConnected /\ l \in current /\ Reachable(l)
    /\ Goto(l, "event")
    /\ UNCHANGED <<connVars, routeVars, slot, epochVars, stop, failures, wasDown, routed,
                   supVars, cooling, todo, client, hostVars, podVars>>

\* A bug: a late event is applied whatever became of the epoch
LoopAgentAlways(l) ==
    /\ pc[l] = "event"
    /\ processing' \in BOOLEAN
    /\ Goto(l, "read")
    /\ UNCHANGED <<status, paused, requested, httpVersion, removed, routeVars, slot,
                   epochVars, stop, failures, wasDown, routed, supVars, cooling, todo, client,
                   hostVars, podVars>>

\* set_claude_state_at_epoch, set_codex_state_at_epoch
LoopAgent(l) ==
    /\ pc[l] = "event"
    /\ IF l \in current THEN processing' \in BOOLEAN ELSE UNCHANGED processing
    /\ Goto(l, "read")
    /\ UNCHANGED <<status, paused, requested, httpVersion, removed, routeVars, slot,
                   epochVars, stop, failures, wasDown, routed, supVars, cooling, todo, client,
                   hostVars, podVars>>

\* the inner loop finds the host disconnected
LoopLost(l) ==
    /\ pc[l] = "read" /\ l \notin stop /\ ~HostIsConnected
    /\ Goto(l, "lost")
    /\ UNCHANGED <<connVars, routeVars, slot, epochVars, stop, failures, wasDown, routed,
                   supVars, cooling, todo, client, hostVars, podVars>>

\* the request fails or the stream ends
Fails(l) ==
    /\ pc[l] \in {"connect", "greeting", "read"} /\ l \in current
    /\ cooling' = IF pc[l] = "connect" THEN cooling + 1 ELSE cooling
    /\ Goto(l, IF pc[l] = "read" THEN "eof" ELSE "failed")
    /\ UNCHANGED <<connVars, routeVars, slot, epochVars, stop, failures, wasDown, routed,
                   supVars, todo, client, hostVars, podVars>>

\* a pod that cannot be reached times out; while setup runs the pod sends
\* keepalives, so that waiting for the greeting does not
LoopError(l) == ~Reachable(l) /\ Fails(l)

\* the transport breaks by itself
LoopBroken(l) == Unnoticed /\ Reachable(l) /\ Fails(l)

\* wait_after_pod_failure with n failures so far: the last one pauses repair
Backoff(l, n) ==
    IF n + 1 >= FailureLimit
    THEN /\ PauseRepair
         /\ failures' = [failures EXCEPT ![l] = FailureLimit - 1]
         /\ Goto(l, "resume")
    ELSE /\ failures' = [failures EXCEPT ![l] = n + 1]
         /\ Goto(l, "wait")
         /\ current' = current \ {l}
         /\ UNCHANGED <<requested, paused, noted>>

\* the connection fails: mark_event_disconnected, then the backoff
LoopFailed(l) ==
    /\ pc[l] = "failed"
    /\ status' = IF l \in current THEN "PodDisconnected" ELSE status
    /\ Backoff(l, failures[l])
    /\ UNCHANGED <<processing, httpVersion, removed, routeVars, slot, stop, wasDown, routed,
                   supVars, cooling, todo, client, hostVars, podVars>>

\* the stream has ended or the host is lost: the new status, and the backoff,
\* which a connection that lasted has reset, unless the host or epoch changed
LoopEnded(l) ==
    /\ pc[l] \in {"eof", "lost"}
    /\ status' = IF pc[l] = "lost" THEN "HostDisconnected"
                 ELSE IF l \in current THEN "PodDisconnected" ELSE status
    /\ IF HostIsConnected /\ l \in current
       THEN \E n \in {0, failures[l]} : Backoff(l, n)
       ELSE /\ Goto(l, "resume") /\ current' = current \ {l}
            /\ UNCHANGED <<failures, requested, paused, noted>>
    /\ UNCHANGED <<processing, httpVersion, removed, routeVars, slot, stop, wasDown, routed,
                   supVars, cooling, todo, client, hostVars, podVars>>

\* the delay is over, or the epoch has changed
LoopWait(l) ==
    /\ pc[l] = "wait"
    /\ IF l \in noted
       THEN UNCHANGED <<failures, noted>>
       ELSE failures' = [failures EXCEPT ![l] = 0] /\ noted' = noted \cup {l}
    /\ Goto(l, "resume")
    /\ UNCHANGED <<connVars, routeVars, slot, current, stop, wasDown, routed, supVars,
                   cooling, todo, client, hostVars, podVars>>

LoopStep(l) ==
    \/ LoopIdle(l) \/ LoopResume(l) \/ LoopExit(l)
    \/ LoopHostUp(l) \/ LoopHostDown(l) \/ LoopSetHostDown(l) \/ LoopSetConnecting(l)
    \/ LoopInterrupted(l) \/ LoopAdmit(l) \/ LoopHeaders(l) \/ LoopGreeting(l) \/ LoopApply(l)
    \/ LoopEvent(l) \/ LoopAgent(l) \/ LoopLost(l)
    \/ LoopError(l) \/ LoopFailed(l) \/ LoopEnded(l) \/ LoopWait(l)

-----------------------------------------------------------------------------
(* The supervisor: git_tunnels_needing_repair, supervise_git_tunnel and one *)
(* attempt, try_repair_git_tunnel.                                          *)

\* the top of supervise_git_tunnel's loop finds nothing to repair
NothingToRepair == ~supervise \/ paused \/ ~WantsReconnect \/ AllAlive \/ ~HostIsConnected

\* git_tunnels_needing_repair, try_schedule_git_tunnel_repair
Schedule ==
    /\ "repair" \in Operations
    /\ sup = "idle" /\ ~removed /\ ~NothingToRepair
    /\ sup' = "admit"
    /\ noted' = noted \cup {Supervisor}
    /\ UNCHANGED <<connVars, routeVars, slot, current, loopVars, supFailures, cooling, todo,
                   client, hostVars, podVars>>

\* the task ends: finish_git_tunnel_repair
SupEnd == sup' = "idle" /\ supFailures' = 0 /\ noted' = noted \ {Supervisor}

\* back at the top of the loop, with n failures so far
SupAgain(n) ==
    IF NothingToRepair
    THEN SupEnd
    ELSE sup' = "admit" /\ supFailures' = n /\ noted' = noted \cup {Supervisor}

\* the epoch changes before the limiter admits the attempt, or in the delay
SupChanged ==
    /\ sup \in {"admit", "wait"} /\ Supervisor \notin noted
    /\ SupAgain(0)
    /\ UNCHANGED <<connVars, routeVars, slot, current, loopVars, cooling, todo, client,
                   hostVars, podVars>>

SupDelayOver ==
    /\ sup = "wait" /\ Supervisor \in noted
    /\ SupAgain(supFailures)
    /\ UNCHANGED <<connVars, routeVars, slot, current, loopVars, cooling, todo, client,
                   hostVars, podVars>>

\* the next thing an attempt does about the tunnel tun and the server: a dead
\* tunnel is removed and dialled, then a dead server gets a new proxy
RepairTunnel ==
    IF tunnel = "alive"
    THEN sup' = (IF server = "alive" THEN "loop" ELSE "proxy") /\ UNCHANGED tunnel
    ELSE sup' = "dial" /\ tunnel' = "none"

\* the limiter admits the attempt, which takes git_tunnel_setup and repeats
\* the checks under the epoch it notes
SupAdmit ==
    /\ sup = "admit" /\ Supervisor \in noted
    /\ FreeSlots > 0
    /\ IF ~HostIsConnected \/ ~WantsReconnect
       THEN SupEnd /\ cooling' = cooling + 1 /\ UNCHANGED <<current, tunnel>>
       ELSE IF SetupBusy \/ ~supervise \/ AllAlive
       THEN SupEnd /\ UNCHANGED <<current, cooling, tunnel>>
       ELSE /\ current' = current \cup {Supervisor}
            /\ IF validate THEN sup' = "validate" /\ UNCHANGED tunnel ELSE RepairTunnel
            /\ UNCHANGED <<supFailures, noted, cooling>>
    /\ UNCHANGED <<connVars, server, supervise, validate, slot, loopVars, todo, client,
                   hostVars, podVars>>

\* an attempt fails: its slot cools down, the last failure pauses repair
SupFail ==
    /\ cooling' = cooling + 1
    /\ IF supFailures + 1 >= FailureLimit
       THEN sup' = "idle" /\ supFailures' = 0 /\ PauseRepair
       ELSE /\ sup' = "wait" /\ supFailures' = supFailures + 1
            /\ current' = current \ {Supervisor}
            /\ UNCHANGED <<requested, paused, noted>>

\* a command the attempt waits for: executor.status, try_start_tunnel, or
\* read_container_server_port and start_pod_http_proxy_in_container
SupCommand(from, works, to) ==
    /\ sup = from
    /\ \/ works /\ sup' = to /\ UNCHANGED <<supFailures, cooling, requested, paused, epochVars>>
       \/ (~works \/ Unnoticed) /\ SupFail
    /\ UNCHANGED <<status, processing, httpVersion, removed, routeVars, slot, loopVars, todo,
                   client, hostVars, podVars>>

\* mark_pod_validated_for_git_tunnel_repair
SupMark ==
    /\ sup = "mark"
    /\ validate' = FALSE
    /\ RepairTunnel
    /\ UNCHANGED <<connVars, server, supervise, slot, epochVars, loopVars, supFailures, cooling,
                   todo, client, hostVars, podVars>>

\* the pod does not run: stop_events, then pause_pod_repair
SupGone ==
    /\ sup = "gone" /\ sup' = "idle" /\ supFailures' = 0
    /\ StopEvents
    /\ paused' = TRUE
    /\ UNCHANGED <<removed, server, pc, failures, wasDown, routed, cooling, todo, hostVars,
                   podVars>>

\* A bug: a late tunnel is installed whatever became of the epoch
SupInstallLate ==
    /\ sup = "install"
    /\ IF supervise
       THEN tunnel' = "alive" /\ validate' = FALSE
       ELSE UNCHANGED <<tunnel, validate>>
    /\ FinishRequest(status, tunnel', supervise)
    /\ sup' = IF server = "alive" THEN "loop" ELSE "proxy"
    /\ UNCHANGED <<status, paused, processing, httpVersion, removed, server, supervise, slot,
                   epochVars, loopVars, supFailures, cooling, todo, hostVars, podVars>>

\* install_repaired_git_tunnel, finish_connection_request included
SupInstall ==
    /\ sup = "install"
    /\ IF supervise /\ Supervisor \in current
       THEN tunnel' = "alive" /\ validate' = FALSE
       ELSE UNCHANGED <<tunnel, validate>>
    /\ FinishRequest(status, tunnel', supervise)
    /\ sup' = IF server = "alive" THEN "loop" ELSE "proxy"
    /\ UNCHANGED <<status, paused, processing, httpVersion, removed, server, supervise, slot,
                   epochVars, loopVars, supFailures, cooling, todo, hostVars, podVars>>

\* install_repaired_routes
SupPublish ==
    /\ sup = "publish" /\ sup' = "loop"
    /\ IF supervise /\ Supervisor \in current /\ server # "alive"
       THEN server' = "alive" /\ routed' = {}
       ELSE UNCHANGED <<server, routed>>
    /\ UNCHANGED <<connVars, tunnel, supervise, validate, slot, epochVars, pc, stop, failures,
                   wasDown, supFailures, cooling, todo, client, hostVars, podVars>>

\* ensure_repaired_event_loop; the attempt succeeds
SupLoop ==
    /\ sup = "loop" /\ sup' = "idle" /\ supFailures' = 0
    /\ IF NoEventLoopToStart \/ Supervisor \notin current
       THEN noted' = noted \ {Supervisor} /\ UNCHANGED <<status, slot, pc, routed>>
       ELSE \E l \in Loops : BeginEventLoop(l) /\ noted' = (noted \ {Supervisor}) \cup {l}
    /\ current' = current \ {Supervisor}
    /\ UNCHANGED <<paused, requested, processing, httpVersion, removed, routeVars, stop, failures,
                   wasDown, cooling, todo, client, hostVars, podVars>>

SupervisorStep ==
    \/ Schedule \/ SupChanged \/ SupDelayOver \/ SupAdmit
    \/ SupCommand("validate", HostIsConnected, IF podUp THEN "mark" ELSE "gone")
    \/ SupMark \/ SupGone
    \/ SupCommand("dial", Backend, "install") \/ SupInstall
    \/ SupCommand("proxy", Backend, "publish") \/ SupPublish
    \/ SupLoop

\* the cooldown of a failed attempt's permit
CoolDown ==
    /\ cooling > 0 /\ cooling' = cooling - 1
    /\ UNCHANGED <<connVars, routeVars, slot, epochVars, loopVars, supVars, todo, client,
                   hostVars, podVars>>

-----------------------------------------------------------------------------
(* Operations that hold the pod's lifecycle lease: connect, enter, stop,    *)
(* recreate, delete and subscribe.  todo is what remains of the one at work.*)

\* the lease is free for an operation of this kind
Idle(op) == op \in Operations /\ todo = <<>> /\ ~removed

\* reconnect_docker, reconnect_k8s: the order in which routes are brought back;
\* a route that is alive is probed for connect and for compose projects
Reconnect(repairServer) ==
    <<"tunnel", IF repairServer \/ Compose THEN "probe" ELSE "route", "ready", "events">>

\* connect_pod, whose probe of the pod succeeds
ConnectProbed ==
    /\ Idle("connect") /\ server = "alive" /\ Backend
    /\ todo' = IF Compose THEN Reconnect(TRUE) ELSE <<"enable", "events", "tunnel">>
    /\ UNCHANGED <<connVars, routeVars, slot, epochVars, loopVars, supVars, cooling, client,
                   hostVars, podVars>>

\* connect_pod, whose probe fails: prepare_pod_server_repair
ConnectRepair ==
    /\ Idle("connect") /\ HostIsConnected
    /\ server' = "none" /\ routed' = {} /\ StopEventLoop
    /\ paused' = FALSE
    /\ status' = "PodDisconnected"
    /\ todo' = Reconnect(TRUE)
    /\ UNCHANGED <<requested, processing, removed, tunnel, supervise, validate, pc, failures,
                   wasDown, supVars, cooling, client, hostVars, podVars>>

\* enter on a pod that runs
EnterRunning ==
    /\ Idle("enter") /\ Backend
    /\ todo' = Reconnect(FALSE)
    /\ UNCHANGED <<connVars, routeVars, slot, epochVars, loopVars, supVars, cooling, client,
                   hostVars, podVars>>

\* enter on a stopped pod: its old routes are dropped
EnterStopped ==
    /\ Idle("enter") /\ ~podUp /\ HostIsConnected
    /\ server' = "none" /\ tunnel' = "none" /\ routed' = {} /\ StopEventLoop
    /\ podUp' = TRUE /\ setupDone' = FALSE
    /\ todo' = Reconnect(FALSE)
    /\ UNCHANGED <<status, paused, requested, processing, removed, supervise, validate, pc,
                   failures, wasDown, supVars, cooling, client, hostVars>>

\* stop_pod: stop_events before the container is stopped
StopPod ==
    /\ Idle("stop")
    /\ StopEvents
    /\ podUp' = FALSE /\ setupDone' = FALSE
    /\ UNCHANGED <<paused, removed, server, pc, failures, wasDown, routed, supVars, cooling,
                   todo, hostVars>>

\* recreate: reset_for_recreate, then a new container
Recreate ==
    /\ Idle("recreate")
    /\ StopEvents
    /\ server' = "none" /\ routed' = {}
    /\ podUp' = TRUE /\ setupDone' = FALSE
    /\ todo' = Reconnect(FALSE)
    /\ UNCHANGED <<paused, removed, pc, failures, wasDown, supVars, cooling, hostVars>>

\* A bug: delete stops the events alone, and the proxy outlives the pod
RemoveKeepingServer ==
    /\ Idle("remove")
    /\ StopEvents
    /\ routed' = {} /\ removed' = TRUE
    /\ podUp' = FALSE /\ setupDone' = FALSE
    /\ UNCHANGED <<server, paused, pc, failures, wasDown, supVars, cooling, todo, hostVars>>

\* delete: drop_all, and the registry forgets the connection
Remove ==
    /\ Idle("remove")
    /\ StopEvents
    /\ server' = "none" /\ routed' = {} /\ removed' = TRUE
    /\ podUp' = FALSE /\ setupDone' = FALSE
    /\ UNCHANGED <<paused, pc, failures, wasDown, supVars, cooling, todo, hostVars>>

\* subscribe_pod_reconnect on a connection that is not stopped
SubscribeReconnect(c) ==
    /\ Idle("subscribe") /\ client[c] = "none" /\ status # "Stopped"
    /\ ResumeIf(paused \/ status # "Connected")
    /\ IF Served(status, tunnel, supervise)
       THEN requested' = FALSE /\ client' = [Told EXCEPT ![c] = "told"]
       ELSE client' = [client EXCEPT ![c] = "waiting"] /\ UNCHANGED requested
    /\ todo' = IF supervise THEN <<>> ELSE <<"enable">>
    /\ UNCHANGED <<status, processing, httpVersion, removed, routeVars, slot, loopVars,
                   supVars, cooling, hostVars, podVars>>

\* enable_git_tunnel_supervision
Enable ==
    /\ todo # <<>> /\ Head(todo) = "enable" /\ todo' = Tail(todo)
    /\ supervise' = TRUE /\ validate' = (tunnel = "none")
    /\ ResumeIf(paused)
    /\ UNCHANGED <<status, requested, processing, httpVersion, removed, server, tunnel, slot,
                   loopVars, supVars, cooling, client, hostVars, podVars>>

\* ensure_git_tunnel, once it has the setup lock
EnsureTunnel ==
    /\ todo # <<>> /\ Head(todo) = "tunnel" /\ sup \notin Attempt
    /\ IF tunnel = "alive"
       THEN todo' = Tail(todo) /\ UNCHANGED tunnel
       ELSE todo' = <<"dial">> \o Tail(todo) /\ tunnel' = "none"
    /\ UNCHANGED <<connVars, server, supervise, validate, slot, epochVars, loopVars, supVars,
                   cooling, client, hostVars, podVars>>

\* set_git_tunnel, when start_tunnel has succeeded
SetTunnel ==
    /\ todo # <<>> /\ Head(todo) = "dial" /\ todo' = Tail(todo) /\ Backend
    /\ tunnel' = "alive" /\ supervise' = TRUE /\ validate' = FALSE
    /\ ResumeIf(paused)
    /\ FinishRequest(status, "alive", TRUE)
    /\ UNCHANGED <<status, processing, httpVersion, removed, server, slot, loopVars, supVars,
                   cooling, hostVars, podVars>>

\* ensure_pod_server_route: a live route is kept, unless it is probed and the
\* probe fails; a new one that replaces a dead one is probed too
EnsureRoute ==
    /\ todo # <<>> /\ Head(todo) \in {"route", "probe"}
    /\ \/ /\ server = "alive" /\ (Backend \/ Head(todo) = "route") /\ todo' = Tail(todo)
          /\ UNCHANGED <<httpVersion, server, slot, epochVars, stop, routed>>
       \/ /\ server # "alive" \/ Head(todo) = "probe"
          /\ todo' = <<"proxy">> \o (IF server = "alive" THEN Tail(todo) ELSE todo)
          /\ server' = "none" /\ routed' = {} /\ StopEventLoop
    /\ UNCHANGED <<status, paused, requested, processing, removed, tunnel, supervise, validate,
                   pc, failures, wasDown, supVars, cooling, client, hostVars, podVars>>

\* set_pod_server
SetServer ==
    /\ todo # <<>> /\ Head(todo) = "proxy" /\ todo' = Tail(todo) /\ Backend
    /\ IF server # "none" THEN StopEventLoop ELSE UNCHANGED <<httpVersion, slot, epochVars, stop>>
    /\ server' = "alive" /\ routed' = {}
    /\ UNCHANGED <<status, paused, requested, processing, removed, tunnel, supervise, validate,
                   pc, failures, wasDown, supVars, cooling, client, hostVars, podVars>>

\* PodClient::new waits for the pod's greeting
Ready ==
    /\ todo # <<>> /\ Head(todo) = "ready" /\ todo' = Tail(todo)
    /\ podUp /\ setupDone /\ server = "alive"
    /\ UNCHANGED <<connVars, routeVars, slot, epochVars, loopVars, supVars, cooling, client,
                   hostVars, podVars>>

\* ensure_event_loop: request_connection, then start_event_loop
EnsureEventLoop ==
    /\ todo # <<>> /\ Head(todo) = "events" /\ todo' = Tail(todo)
    /\ RequestConnection
    /\ paused' = (paused /\ ~RequestResumes)
    /\ current' = IF RequestResumes THEN {} ELSE current
    /\ LET kept == IF RequestResumes THEN {} ELSE noted
       IN  IF NoEventLoopToStart
           THEN noted' = kept /\ UNCHANGED <<status, slot, pc, routed>>
           ELSE \E l \in Loops : BeginEventLoop(l) /\ noted' = kept \cup {l}
    /\ UNCHANGED <<processing, httpVersion, removed, routeVars, stop, failures, wasDown, supVars,
                   cooling, hostVars, podVars>>

\* an await of the operation fails, times out or is cancelled
Abandon ==
    /\ todo # <<>> /\ Head(todo) \in {"tunnel", "dial", "route", "probe", "proxy", "ready"}
    /\ todo' = <<>>
    /\ UNCHANGED <<connVars, routeVars, slot, epochVars, loopVars, supVars, cooling, client,
                   hostVars, podVars>>

OperationStep ==
    \/ Enable \/ EnsureTunnel \/ SetTunnel \/ EnsureRoute \/ SetServer \/ Ready
    \/ EnsureEventLoop \/ Abandon

ForegroundStep ==
    \/ ConnectProbed \/ ConnectRepair \/ EnterRunning \/ EnterStopped \/ StopPod \/ Recreate
    \/ Remove \/ OperationStep
    \/ \E c \in Clients : SubscribeReconnect(c)

-----------------------------------------------------------------------------
(* Clients that do not take the lease.                                      *)

\* frontend_reconnect_demand: subscribe, whatever the status
SubscribeFrontend(c) ==
    /\ ~removed /\ client[c] = "none"
    /\ ResumeIf(paused \/ status # "Connected")
    /\ IF Served(status, tunnel, supervise)
       THEN requested' = FALSE /\ client' = [Told EXCEPT ![c] = "told"]
       ELSE client' = [client EXCEPT ![c] = "waiting"] /\ UNCHANGED requested
    /\ UNCHANGED <<status, processing, httpVersion, removed, routeVars, slot, loopVars,
                   supVars, cooling, todo, hostVars, podVars>>

\* prepared_connection finds the connection usable ...
Prepare(c) ==
    /\ ~removed /\ client[c] = "none"
    /\ status = "Connected" /\ server = "alive"
    /\ client' = [client EXCEPT ![c] = "prepared"]
    /\ UNCHANGED <<connVars, routeVars, slot, epochVars, loopVars, supVars, cooling, todo,
                   hostVars, podVars>>

\* ... and requests it
PreparedRequest(c) ==
    /\ client[c] = "prepared"
    /\ requested' = ~Served(status, tunnel, supervise)
    /\ ResumeIf(RequestResumes)
    /\ client' = [(IF requested' THEN client ELSE Told) EXCEPT ![c] = "none"]
    /\ UNCHANGED <<status, processing, httpVersion, removed, routeVars, slot, loopVars,
                   supVars, cooling, todo, hostVars, podVars>>

\* the client drops its receiver
Leave(c) ==
    /\ client[c] \in {"waiting", "told"}
    /\ client' = [client EXCEPT ![c] = "none"]
    /\ UNCHANGED <<connVars, routeVars, slot, epochVars, loopVars, supVars, cooling, todo,
                   hostVars, podVars>>

-----------------------------------------------------------------------------
(* The host, its monitor and the reader of host events.                     *)

\* ensure_connected records what the probe found
HostProbe(st) ==
    /\ "host" \in Faults \/ st = "Connected"
    /\ st # hostStatus /\ Len(hostEvents) < MaxHostEvents
    /\ hostStatus' = st
    /\ hostEvents' = Append(hostEvents, st)
    /\ UNCHANGED <<connVars, routeVars, slot, epochVars, loopVars, supVars, cooling, todo,
                   client, podVars>>

\* notify_host_connected
NotifyConnected ==
    /\ hostEvents # <<>> /\ Head(hostEvents) = "Connected"
    /\ hostEvents' = Tail(hostEvents)
    /\ IF removed \/ status = "Stopped" \/ ~WantsReconnect
       THEN UNCHANGED <<status, paused, epochVars>>
       ELSE status' = "Connecting" /\ ResumeIf(TRUE)
    /\ UNCHANGED <<requested, processing, httpVersion, removed, routeVars, slot, loopVars,
                   supVars, cooling, todo, client, hostStatus, podVars>>

\* notify_host_disconnected
NotifyDisconnected ==
    /\ hostEvents # <<>> /\ Head(hostEvents) = "Disconnected"
    /\ hostEvents' = Tail(hostEvents)
    /\ IF removed \/ status = "Stopped"
       THEN UNCHANGED <<status, epochVars, tunnel, validate>>
       ELSE /\ Signal
            /\ status' = "HostDisconnected"
            /\ IF supervise
               THEN tunnel' = "none" /\ validate' = TRUE
               ELSE UNCHANGED <<tunnel, validate>>
    /\ UNCHANGED <<paused, requested, processing, httpVersion, removed, server, supervise, slot,
                   loopVars, supVars, cooling, todo, client, hostStatus, podVars>>

-----------------------------------------------------------------------------
(* The pod and the routes to it.                                            *)

\* the listener of the pod-server proxy ends on an accept error
ServerDies ==
    /\ "server" \in Faults
    /\ server = "alive" /\ server' = "dead"
    /\ UNCHANGED <<connVars, tunnel, supervise, validate, slot, epochVars, loopVars, supVars,
                   cooling, todo, client, hostVars, podVars>>

\* the tunnel's process ends
TunnelDies ==
    /\ "tunnel" \in Faults
    /\ tunnel = "alive" /\ tunnel' = "dead"
    /\ UNCHANGED <<connVars, server, supervise, validate, slot, epochVars, loopVars, supVars,
                   cooling, todo, client, hostVars, podVars>>

\* the container dies by itself
PodDies ==
    /\ "pod" \in Faults
    /\ podUp /\ podUp' = FALSE /\ setupDone' = FALSE
    /\ UNCHANGED <<connVars, routeVars, slot, epochVars, loopVars, supVars, cooling, todo,
                   client, hostVars>>

\* the container comes back without the daemon's doing
PodRestarts ==
    /\ "pod" \in Faults
    /\ ~podUp /\ ~removed /\ podUp' = TRUE
    /\ UNCHANGED <<connVars, routeVars, slot, epochVars, loopVars, supVars, cooling, todo,
                   client, hostVars, setupDone>>

\* the pod server's setup fetches through the git tunnel
PodSetup ==
    /\ podUp /\ ~setupDone /\ tunnel = "alive" /\ setupDone' = TRUE
    /\ UNCHANGED <<connVars, routeVars, slot, epochVars, loopVars, supVars, cooling, todo,
                   client, hostVars, podUp>>

\* PodConnection::new; restore_processing_pod for a pod whose agent worked
\* when the daemon ended
NewConnection ==
    /\ status' = IF HostIsConnected THEN "PodDisconnected" ELSE "HostDisconnected"
    /\ removed' = FALSE
    /\ processing' \in BOOLEAN
    /\ supervise' = processing' /\ validate' = processing'

\* a removed connection is gone with its last user; the pod is made again
GetOrCreate ==
    /\ removed /\ todo = <<>> /\ sup = "idle"
    /\ \A l \in Loops : pc[l] = "none"
    /\ \A c \in Clients : client[c] = "none"
    /\ NewConnection
    /\ paused' = FALSE /\ requested' = FALSE /\ httpVersion' = NoLoop
    /\ server' = "none" /\ tunnel' = "none"
    /\ noted' = {} /\ current' = {}
    /\ UNCHANGED <<slot, loopVars, supVars, cooling, todo, client, hostVars, podVars>>

Init ==
    /\ hostStatus \in {"Connected", "Disconnected"} /\ hostEvents = <<>>
    /\ status = IF HostIsConnected THEN "PodDisconnected" ELSE "HostDisconnected"
    /\ paused = FALSE /\ requested = FALSE /\ httpVersion = NoLoop /\ removed = FALSE
    /\ processing \in BOOLEAN
    /\ supervise = processing /\ validate = processing
    /\ server = "none" /\ tunnel = "none" /\ slot = NoLoop
    /\ noted = {} /\ current = {}
    /\ pc = [l \in Loops |-> "none"] /\ failures = [l \in Loops |-> 0]
    /\ stop = {} /\ wasDown = {} /\ routed = {}
    /\ sup = "idle" /\ supFailures = 0 /\ cooling = 0
    /\ todo = <<>> /\ client = [c \in Clients |-> "none"]
    /\ podUp \in BOOLEAN /\ setupDone = FALSE

ClientStep(c) ==
    SubscribeFrontend(c) \/ Prepare(c) \/ PreparedRequest(c) \/ Leave(c)

HostStep ==
    \/ \E st \in {"Connected", "Disconnected"} : HostProbe(st)
    \/ NotifyConnected \/ NotifyDisconnected

PodStep == ServerDies \/ TunnelDies \/ PodDies \/ PodRestarts \/ PodSetup

Next ==
    \/ \E l \in Loops : LoopStep(l) \/ LoopBroken(l)
    \/ SupervisorStep \/ CoolDown
    \/ ForegroundStep \/ GetOrCreate
    \/ \E c \in Clients : ClientStep(c)
    \/ HostStep \/ PodStep

Spec == Init /\ [][Next]_vars

-----------------------------------------------------------------------------
(* Safety.                                                                  *)

\* At most one event loop is not told to stop, and it is the one in the slot:
\* the loops that replaced or stopped connections leave behind all have their
\* stop flag set (begin_event_loop_at_epoch, stop_event_loop_locked).
OneLiveLoop == \A l \in Loops : pc[l] # "none" /\ l \notin stop => slot = l

\* The HTTP version that attached terminals use was learned from the greeting of
\* the very event loop that runs now: a greeting that arrives after its loop was
\* stopped or replaced publishes nothing (apply_greeting_at_epoch), and what an
\* earlier loop learned does not outlive it (stop_event_loop_locked).
GreetedByCurrentLoop == httpVersion # NoLoop => httpVersion = slot

\* A connection that reports Stopped has no event loop, no greeting, and no agent
\* at work: no event that was on its way when stop_events ran brings the agent's
\* activity back (set_claude_state_at_epoch), which would be saved and restored.
StoppedIsQuiet == status = "Stopped" => slot = NoLoop /\ httpVersion = NoLoop /\ ~processing

\* A repair attempt whose epoch has passed (the host was lost, the pod stopped or
\* recreated meanwhile) brings nothing back: not its tunnel, not its proxy, not
\* an event loop (install_repaired_git_tunnel, install_repaired_routes,
\* ensure_repaired_event_loop).
LateRepairRejected ==
    [][Supervisor \notin current /\ sup \in Attempt /\ sup' # sup =>
         /\ tunnel' = "alive" => tunnel = "alive"
         /\ server' = "alive" => server = "alive"
         /\ slot' \in {slot, NoLoop}]_vars

\* Once a deleted pod's connection has left the registry no route, tunnel or loop
\* comes back to it, whatever repair or request was under way (drop_all).
RemovedKeepsNothing ==
    removed => server = "none" /\ tunnel = "none" /\ slot = NoLoop /\ ~supervise

\* Repair is never paused while a connection request is outstanding: a request
\* resumes it and a pause retires the request (request_connection,
\* pause_pod_repair).
RequestNotPaused == ~(requested /\ paused)

\* No subscriber waits for a connection that is up: whichever transport comes back
\* last, event stream or git tunnel, tells every client that subscribed before,
\* and a client that subscribes afterwards is told at once
\* (finish_connection_request, subscribe).
NoneLeftWaiting ==
    Served(status, tunnel, supervise) => \A c \in Clients : client[c] # "waiting"

\* What request_connection says of its request, "Keep this one request alive
\* until both transports finish connecting": when ensure_event_loop has started
\* an event loop, which is not connected yet, the request is outstanding.
RequestKept == [][EnsureEventLoop /\ slot' # slot => requested']_vars

-----------------------------------------------------------------------------
(* Liveness.                                                                *)

\* Threads and tasks run, timers fire, host events are read, and operations with
\* the lease end (they have a timeout).  The limiter's semaphore is first come,
\* first served: nobody waits for ever while slots become free.  Nobody has to
\* start an operation, the host or a transport may be lost again, and the pod
\* may or may not answer a stopped loop.
ConnectionFairness ==
    /\ \A l \in Loops : WF_vars(LoopStep(l))
    /\ WF_vars(SupervisorStep) /\ WF_vars(CoolDown)
    /\ SF_vars(SupAdmit) /\ \A l \in Loops : SF_vars(LoopAdmit(l))
    /\ WF_vars(NotifyConnected \/ NotifyDisconnected)
    /\ WF_vars(OperationStep)
    /\ WF_vars(PodSetup)

FairSpec == Spec /\ ConnectionFairness

\* A request that is left alone, on a pod that runs on a host that is up, is
\* served, or retired because repair pauses, unless the tunnel dies again: with
\* one slot of the limiter the event loop that waits for the greeting and the
\* repair of the tunnel that setup needs do not block each other
\* (connect_pod_events gives the permit back at the headers).
RequestServed ==
    requested /\ todo = <<>> ~> ~requested \/ ~Backend \/ todo # <<>> \/ tunnel = "dead"

\* The thread of a stopped event loop ends, whether it waits for the host, for a
\* permit, for the pod or for its next event (event_request).
StoppedLoopEnds == \A l \in Loops : l \in stop ~> pc[l] = "none"
=============================================================================
