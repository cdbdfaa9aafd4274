------------------------------ MODULE MCPodSide ------------------------------
(* Instances of the modules about the services a pod offers its clients and  *)
(* of the connection to its host.                                            *)
(* They share no state, so one of them, the part, runs in a behaviour and    *)
(* the others rest in their initial state.                                   *)
EXTENDS Tunnel, PtySessions, Exec, PodSetup, GitSync, HostConnection, TLC

VARIABLE part

Parts == {"tunnel", "terminals", "exec", "setup", "sync", "host"}

\* Two connections at once, the second of which only answers; or one, with
\* faults of the link or a tunnel-server that starts slowly.
TunnelWorkloads ==
    {[asks |-> <<0, 0>>, answers |-> <<1, 1>>, closers |-> {1}, faults |-> 0],
     [asks |-> <<1>>, answers |-> <<2>>, closers |-> {1}, faults |-> 0],
     [asks |-> <<0>>, answers |-> <<2>>, closers |-> {}, faults |-> 2]}

\* A lagging terminal; one that reconnects; two users at once;
\* output and a change of route; a pod that is launched again.
Scenario(a, b, chunks, routes) ==
    [sockets |-> ("u1" :> a @@ "u2" :> b), chunks |-> chunks, routes |-> routes]
PtyScenarios ==
    {Scenario(1, 0, <<2, 0>>, 0), Scenario(2, 0, <<1, 0>>, 0),
     Scenario(1, 1, <<0, 0>>, 0), Scenario(1, 0, <<1, 0>>, 1), Scenario(2, 0, <<0, 0>>, 2)}

\* All commands, waiting for the second; none awaited; all awaited.
LifecyclePlans ==
    {[has |-> 1..4, waitFor |-> 2], [has |-> {1, 3, 4}, waitFor |-> 0],
     [has |-> 1..4, waitFor |-> 5]}

\* Two updates and an outage; one with an outage and a restart, or with one
\* outage or failure after the other.
SyncLoad(u, o, r, f) ==
    [updates |-> u, outages |-> o, restarts |-> r, failures |-> f]
SyncBounds == {SyncLoad(2, 1, 0, 0), SyncLoad(1, 1, 1, 0), SyncLoad(1, 1, 0, 1)}

\* A change of the host with a probe asked for and a delay; two requests at once.
HostLoad(c, r, p, d) ==
    [changes |-> c, requests |-> r, probes |-> p, delays |-> d]
HostBounds == {HostLoad(1, 1, 1, 1), HostLoad(1, 2, 0, 0)}

allVars == <<part, tunnelVars, ptyVars, execVars, setupVars, syncVars, hostConnVars>>

Resting(p, x, S) == part = p \/ x = CHOOSE s \in S : TRUE

Init ==
    /\ part \in Parts
    /\ TunnelInit /\ PtyInit /\ ExecInit /\ SetupInit /\ SyncInit /\ HostInit
    /\ Resting("tunnel", workload, Workloads) /\ Resting("terminals", scenario, Scenarios)
    /\ Resting("setup", plan, Plans) /\ Resting("sync", syncLoad, SyncLoads)
    /\ Resting("host", <<hostLoad, hostKind, answers>>, HostLoads \X {"ssh"} \X {TRUE})

TunnelOnly ==
    part = "tunnel" /\ UNCHANGED <<part, ptyVars, execVars, setupVars, syncVars, hostConnVars>>
TerminalsOnly ==
    part = "terminals" /\ UNCHANGED <<part, tunnelVars, execVars, setupVars, syncVars, hostConnVars>>
ExecOnly ==
    part = "exec" /\ UNCHANGED <<part, tunnelVars, ptyVars, setupVars, syncVars, hostConnVars>>
SetupOnly ==
    part = "setup" /\ UNCHANGED <<part, tunnelVars, ptyVars, execVars, syncVars, hostConnVars>>
SyncOnly ==
    part = "sync" /\ UNCHANGED <<part, tunnelVars, ptyVars, execVars, setupVars, hostConnVars>>
HostOnly ==
    part = "host" /\ UNCHANGED <<part, tunnelVars, ptyVars, execVars, setupVars, syncVars>>

Next ==
    \/ TunnelOnly /\ TunnelNext
    \/ TerminalsOnly /\ PtyNext
    \/ ExecOnly /\ ExecNext
    \/ SetupOnly /\ SetupNext
    \/ SyncOnly /\ SyncNext
    \/ HostOnly /\ HostNext

\* The parts' fairness, one conjunct of each part per line: only one part runs,
\* so weak fairness of the disjunction is that of the running part's disjunct.
First ==
    \/ TunnelOnly /\ ServerTasks
    \/ TerminalsOnly /\ Readers
    \/ ExecOnly /\ TaskHangsUp
    \/ SetupOnly /\ SetupStep
    \/ SyncOnly /\ (PushStep \/ HookStep)
    \/ HostOnly /\ HostProbes
Second ==
    \/ TunnelOnly /\ DaemonTasks
    \/ TerminalsOnly /\ Monitors
    \/ ExecOnly /\ Signalling
    \/ SetupOnly /\ Greetings
    \/ SyncOnly /\ Recovery
    \/ HostOnly /\ MonitorWakes
Third == (TunnelOnly /\ Heartbeat) \/ (HostOnly /\ HostEventReader)
Fourth == TunnelOnly /\ Watchdogs
Strong == TerminalsOnly /\ Terminals

Spec == Init /\ [][Next]_allVars /\ WF_allVars(First) /\ WF_allVars(Second)
             /\ WF_allVars(Third) /\ WF_allVars(Fourth) /\ SF_allVars(Strong)

\* Whatever else is waited for, each service comes back to a state in which
\* nobody waits for it: the tunnel recovers from a stale tunnel-server, a dead
\* transport and a client that does not read (tunnel.rs wait_for_stalled_host);
\* no terminal stays with a frontend that is gone (pty_session.rs run_bridge);
\* a command ends, or hears its signal, once its caller is gone or asks for it
\* (pod/exec.rs forward_input, forward_signal); and every client of the event
\* stream gets its greeting (pod/server.rs SetupDoneGuard).  After an outage the
\* host repository has the pod's branches (pod/server.rs recover_push).  A host
\* that comes or goes is found out, and the pods hear of it (host_connection.rs
\* ssh_monitor, localhost_monitor, k8s_monitor).
ServicesRecover ==
    []<>( /\ part = "tunnel" => TunnelServes
          /\ part = "terminals" => NobodyStranded
          /\ part = "exec" => CommandObeys
          /\ part = "setup" => EveryoneGreeted
          /\ part = "sync" => GatewayCurrent
          /\ part = "host" => HostFollowed)
==============================================================================
