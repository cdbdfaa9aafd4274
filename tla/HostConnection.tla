---------------------------- MODULE HostConnection ----------------------------
(* The daemon's connection to a host (daemon/host_connection.rs).             *)
(*                                                                            *)
(* A host runs the containers: this machine, a machine reached over SSH, or a *)
(* Kubernetes cluster.  Its connection is made on first use and has one       *)
(* background monitor.  The monitor and every request that needs the host     *)
(* probe it through the same function, one at a time under the lock bring_up; *)
(* the outcome is published twice, on a watch channel for the pods' loops and *)
(* as an event for the daemon's reader, which are separate steps.             *)
EXTENDS Naturals, Sequences

CONSTANTS
  Requests,      \* requests of the daemon that need the host
  HostLoads      \* how often the host, the users and the network may act

VARIABLES
  hostKind,      \* "localhost", "ssh" or "kubernetes"
  answers,       \* the host answers probes
  made,          \* the registry holds the connection
  hostStatus,    \* HostStatus of the watch channel
  events,        \* events on their way to the daemon's reader
  lastHeard,     \* the last event the reader took
  permit,        \* the monitor's Notify holds a permit
  bringUp,       \* holder of the lock bring_up
  kube,          \* the cached kube client: "none", "good" or "stale"
  prober,        \* prober[r]: where a request, or the monitor, is
  owed,          \* a probe was requested and has not begun
  hostLoad       \* what is left of the chosen load

published == <<hostStatus, events, lastHeard>>
hostConnVars == <<hostKind, answers, made, published, permit, bringUp, kube, prober, owed,
                  hostLoad>>

Monitor == "monitor"
Probers == Requests \cup {Monitor}
Nobody == "nobody"

ASSUME HostAssumption == Requests \cap {Monitor, Nobody} = {}

HostInit ==
  /\ hostKind \in {"localhost", "ssh", "kubernetes"}
  /\ answers \in BOOLEAN
  /\ made = FALSE
  /\ hostStatus = "disconnected"
  /\ events = <<>>
  /\ lastHeard = "disconnected"
  /\ permit = FALSE
  /\ bringUp = Nobody
  /\ kube = "none"
  /\ prober = [r \in Probers |-> [pc |-> "idle"]]
  /\ owed = FALSE
  /\ hostLoad \in HostLoads

HostSpend(what) == hostLoad[what] > 0 /\ hostLoad' = [hostLoad EXCEPT ![what] = @ - 1]

To(r, pc) == prober' = [prober EXCEPT ![r] = [pc |-> pc]]

\* The monitor goes back to its sleep, a request is answered.
Resume(r) == To(r, IF r = Monitor THEN "waiting" ELSE "idle")

-----------------------------------------------------------------------------
(* The host and its users.                                                    *)

HostChanges ==
  /\ HostSpend("changes")
  /\ answers' = ~answers
  /\ UNCHANGED <<hostKind, made, published, permit, bringUp, kube, prober, owed>>

\* The cluster's credentials change: the cached client is of no more use.
ClientExpires ==
  /\ kube = "good"
  /\ HostSpend("changes")
  /\ kube' = "stale"
  /\ UNCHANGED <<hostKind, answers, made, published, permit, bringUp, prober, owed>>

\* The monitor of an SSH host begins with a probe, the others with a sleep.
MonitorStarts == [pc |-> IF hostKind = "ssh" THEN "queued" ELSE "waiting"]

\* The first request makes the connection.
GetOrCreate(r) ==
  /\ prober[r].pc = "idle" /\ r # Monitor
  /\ HostSpend("requests")
  /\ made' = TRUE
  /\ prober' = [prober EXCEPT ![r] = [pc |-> "queued"],
                              ![Monitor] = IF made THEN @ ELSE MonitorStarts]
  /\ UNCHANGED <<hostKind, answers, published, permit, bringUp, kube, owed>>

\* A pod's loop whose endpoint fails asks for a probe.  Notify keeps one permit.
RequestProbe ==
  /\ made
  /\ HostSpend("probes")
  /\ permit' = TRUE
  /\ owed' = TRUE
  /\ UNCHANGED <<hostKind, answers, made, published, bringUp, kube, prober>>

\* The monitor's sleep ends, by its timer or by the permit.
MonitorWakes ==
  /\ prober[Monitor].pc = "waiting"
  /\ permit' \in {permit, FALSE}
  /\ To(Monitor, "queued")
  /\ UNCHANGED <<hostKind, answers, made, published, bringUp, kube, owed, hostLoad>>

\* The daemon's reader tells the pods of the host.
HostEventReader ==
  /\ events # <<>>
  /\ lastHeard' = Head(events)
  /\ events' = Tail(events)
  /\ UNCHANGED <<hostKind, answers, made, hostStatus, permit, bringUp, kube, prober, owed,
                 hostLoad>>

-----------------------------------------------------------------------------
(* The probe.                                                                 *)

\* A bug: probes do not exclude each other.
EnterAtOnce(r) ==
  /\ prober[r].pc = "queued"
  /\ bringUp' = r
  /\ owed' = FALSE
  /\ To(r, IF hostKind = "kubernetes" /\ kube = "none" THEN "building" ELSE "probing")
  /\ UNCHANGED <<hostKind, answers, made, published, permit, kube, hostLoad>>

\* The lock is had; a cluster without a cached client gets a new one first.
Enter(r) ==
  /\ prober[r].pc = "queued"
  /\ bringUp = Nobody
  /\ bringUp' = r
  /\ owed' = FALSE
  /\ To(r, IF hostKind = "kubernetes" /\ kube = "none" THEN "building" ELSE "probing")
  /\ UNCHANGED <<hostKind, answers, made, published, permit, kube, hostLoad>>

\* Waiting for another probe has a deadline of its own.
WaitTimesOut(r) ==
  /\ prober[r].pc = "queued"
  /\ bringUp # Nobody
  /\ HostSpend("delays")
  /\ Resume(r)
  /\ UNCHANGED <<hostKind, answers, made, published, permit, bringUp, kube, owed>>

StatusOf(connected) == IF connected THEN "connected" ELSE "disconnected"

Found(r, connected, next) ==
  prober' = [prober EXCEPT ![r] = [pc |-> "found", status |-> StatusOf(connected), next |-> next]]

\* This machine's engine, or the one behind ssh, is pinged.
PingEngine(r) ==
  /\ prober[r].pc = "probing" /\ hostKind # "kubernetes"
  /\ Found(r, answers, "over")
  /\ UNCHANGED <<hostKind, answers, made, published, permit, bringUp, kube, owed, hostLoad>>

\* The cached client asks for the server's version.  A stale client is dropped
\* and the probe goes on with a new one.
CheckClient(r) ==
  LET alive == answers /\ kube = "good"
  IN /\ prober[r].pc = "probing" /\ hostKind = "kubernetes"
     /\ kube' = IF alive THEN kube ELSE "none"
     /\ Found(r, alive, IF alive THEN "over" ELSE "building")
     /\ UNCHANGED <<hostKind, answers, made, published, permit, bringUp, owed, hostLoad>>

\* A new client is cached only after it answered.
BuildClient(r) ==
  /\ prober[r].pc = "building"
  /\ kube' = IF answers THEN "good" ELSE kube
  /\ Found(r, answers, "over")
  /\ UNCHANGED <<hostKind, answers, made, published, permit, bringUp, owed, hostLoad>>

\* A probe that is slow, or that cannot start, finds the host silent.
ProbeTimesOut(r) ==
  /\ prober[r].pc \in {"probing", "building"}
  /\ HostSpend("delays")
  /\ IF hostKind = "kubernetes" /\ prober[r].pc = "probing"
     THEN kube' = "none" /\ Found(r, FALSE, "building")
     ELSE UNCHANGED kube /\ Found(r, FALSE, "over")
  /\ UNCHANGED <<hostKind, answers, made, published, permit, bringUp, owed>>

\* Only a change is followed by an event.
SetStatus(r) ==
  /\ prober[r].pc = "found"
  /\ hostStatus' = prober[r].status
  /\ prober' = [prober EXCEPT ![r].pc = IF hostStatus = prober[r].status THEN "told" ELSE "telling"]
  /\ UNCHANGED <<hostKind, answers, made, events, lastHeard, permit, bringUp, kube, owed,
                 hostLoad>>

SendEvent(r) ==
  /\ prober[r].pc = "telling"
  /\ events' = Append(events, prober[r].status)
  /\ prober' = [prober EXCEPT ![r].pc = "told"]
  /\ UNCHANGED <<hostKind, answers, made, hostStatus, lastHeard, permit, bringUp, kube, owed,
                 hostLoad>>

\* The lock is released, or the probe goes on with a new client.
Proceed(r) ==
  /\ prober[r].pc = "told"
  /\ IF prober[r].next = "building"
     THEN To(r, "building") /\ UNCHANGED bringUp
     ELSE Resume(r) /\ bringUp' = Nobody
  /\ UNCHANGED <<hostKind, answers, made, published, permit, kube, owed, hostLoad>>

\* A request is cancelled where it waits, and its guard releases the lock.
Cancelled(r) ==
  /\ r # Monitor
  /\ prober[r].pc \in {"queued", "probing", "building"}
  /\ HostSpend("delays")
  /\ To(r, "idle")
  /\ bringUp' = IF bringUp = r THEN Nobody ELSE bringUp
  /\ UNCHANGED <<hostKind, answers, made, published, permit, kube, owed>>

ProbeStep(r) ==
  \/ Enter(r) \/ PingEngine(r) \/ CheckClient(r) \/ BuildClient(r)
  \/ SetStatus(r) \/ SendEvent(r) \/ Proceed(r)

HostNext ==
  \/ HostChanges \/ ClientExpires \/ RequestProbe \/ MonitorWakes \/ HostEventReader
  \/ \E r \in Requests : GetOrCreate(r) \/ Cancelled(r)
  \/ \E r \in Probers : ProbeStep(r) \/ WaitTimesOut(r) \/ ProbeTimesOut(r)

\* The probes under way: the runtime runs their tasks.
HostProbes == \E r \in Probers : ProbeStep(r)

\* The monitor's timer ends, and the reader takes every event.
HostFair ==
  /\ WF_hostConnVars(HostProbes) /\ WF_hostConnVars(MonitorWakes)
  /\ WF_hostConnVars(HostEventReader)

HostSpec == HostInit /\ [][HostNext]_hostConnVars /\ HostFair

-----------------------------------------------------------------------------
(* Properties.                                                                *)

\* Whenever no probe holds the lock, the last event sent to the daemon's reader,
\* or the last one it took, is the status on the watch channel, and a cluster is
\* connected exactly when it has a cached client ("mirroring state.client"),
\* although they are published by separate steps of the monitor and of requests
\* that may be cancelled (set_status, ensure_connected_async, ensure_client_async).
EventsFollowStatus ==
  bringUp = Nobody =>
    /\ hostStatus = IF events = <<>> THEN lastHeard ELSE events[Len(events)]
    /\ hostKind = "kubernetes" => ((hostStatus = "connected") <=> (kube # "none"))

\* The connection's liveness: once the host stops changing, its status is the
\* truth, the pods were told so, and no requested probe is outstanding.
HostFollowed == made => ~owed /\ hostStatus = StatusOf(answers) /\ lastHeard = hostStatus

=============================================================================
