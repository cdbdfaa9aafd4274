------------------------------- MODULE Tunnel -------------------------------
(***************************************************************************)
(* The git tunnel (tunnel.rs).  The daemon execs `rumpel tunnel-server` in *)
(* the pod and carries many TCP connections over its stdin and stdout.     *)
(* The pod side accepts the connections of git clients on the gateway      *)
(* port; the host side opens one connection to the git server for each.    *)
(*                                                                         *)
(* Every await on which a task can be held up is a step of its own: a full *)
(* pipe, a full channel, a map lock held by a task that is waiting.  The   *)
(* module also has what happens around a session: a tunnel-server whose    *)
(* transport is lost keeps the port until its lease runs out.              *)
(***************************************************************************)
EXTENDS Naturals, Sequences, FiniteSets, SequencesExt

CONSTANTS
    Streams,        \* stream ids one tunnel-server hands out: 1 .. n
    Workloads,      \* bounds on what a behaviour does, see workload
    PipeRoom,       \* frames the exec's stdin or stdout holds
    ChannelRoom,    \* capacity of a stream's channel (64 in the code)
    Servers,        \* tunnel-server processes alive at a time
    LeaseTicks      \* heartbeat periods a lease lasts (60 s / 5 s in the code)

NoServer == 0
NoFrame == <<>>

VARIABLES
    mux,            \* the daemon's end: "idle", "starting", "up"
    server,         \* [Servers -> phase of that tunnel-server process]
    lease,          \* [Servers -> heartbeat periods since its last input]
    current,        \* the process the daemon's end is attached to
    linked,         \* whether the current exec transport carries frames
    toHost,         \* frames in the exec's stdout
    toPod,          \* frames in the exec's stdin
    streams,        \* ids in the pod side's map
    channel,        \* [Streams -> chunks queued for the client]
    dispatching,    \* frame the stdin reader holds while it waits for room
    writes,         \* ids in the host side's map of write halves
    writing,        \* frame the mux is writing to the git server
    client,         \* [Streams -> state of the git client's connection]
    target,         \* [Streams -> state of the connection to the git server]
    podReader, podWriter, hostReader,   \* [Streams -> state of that task]
    asked, answered,                    \* [Streams -> chunks written by the ends]
    gotTarget, gotClient,               \* [Streams -> what the ends have read]
    faults,         \* transport losses and failed starts so far
    workload        \* [asks, answers: chunks the client and the server of each
                    \*  stream write; closers: streams whose ends close;
                    \*  faults: how many may happen]

processVars == <<mux, server, lease, current, linked, faults, workload>>
podVars == <<streams, channel, dispatching, podReader, podWriter, gotClient>>
hostVars == <<writes, writing, hostReader, gotTarget>>
endVars == <<client, target, asked, answered>>
tunnelVars == <<processVars, podVars, hostVars, endVars, toHost, toPod>>

Open(s) == [kind |-> "open", s |-> s, n |-> 0]
Data(s, n) == [kind |-> "data", s |-> s, n |-> n]
CloseOf(s) == [kind |-> "close", s |-> s, n |-> 0]

PerStream(x) == [s \in Streams |-> x]

DataPlaneInit ==
    /\ toHost = <<>> /\ toPod = <<>>
    /\ streams = {} /\ channel = PerStream(<<>>) /\ dispatching = NoFrame
    /\ writes = {} /\ writing = NoFrame
    /\ client = PerStream("none") /\ target = PerStream("none")
    /\ podReader = PerStream("none") /\ podWriter = PerStream("none")
    /\ hostReader = PerStream("none")
    /\ asked = PerStream(0) /\ answered = PerStream(0)
    /\ gotTarget = PerStream(<<>>) /\ gotClient = PerStream(<<>>)

\* The end of a session takes its connections with it.
DropStreams ==
    /\ toHost' = <<>> /\ toPod' = <<>>
    /\ streams' = {} /\ channel' = PerStream(<<>>) /\ dispatching' = NoFrame
    /\ writes' = {} /\ writing' = NoFrame
    /\ client' = PerStream("none") /\ target' = PerStream("none")
    /\ podReader' = PerStream("none") /\ podWriter' = PerStream("none")
    /\ hostReader' = PerStream("none")
    /\ asked' = PerStream(0) /\ answered' = PerStream(0)
    /\ gotTarget' = PerStream(<<>>) /\ gotClient' = PerStream(<<>>)

TunnelInit ==
    /\ mux = "idle"
    /\ server = [p \in Servers |-> "none"]
    /\ lease = [p \in Servers |-> 0]
    /\ current = NoServer
    /\ linked = TRUE
    /\ faults = 0
    /\ workload \in Workloads
    /\ DataPlaneInit

dataVars == <<podVars, hostVars, endVars, toHost, toPod>>

-----------------------------------------------------------------------------
(* Sessions: starting a tunnel, the gateway port, the lease.               *)

Fault == faults < workload.faults /\ faults' = faults + 1

\* start_tunnel, try_start_tunnel: exec a tunnel-server.
StartTunnel(p) ==
    /\ mux = "idle"
    /\ server[p] = "none"
    /\ mux' = "starting"
    /\ current' = p
    /\ linked' = TRUE
    /\ server' = [server EXCEPT ![p] = "starting"]
    /\ lease' = [lease EXCEPT ![p] = 0]
    /\ UNCHANGED <<faults, workload, dataVars>>

PortFree == \A p \in Servers : server[p] \notin {"bound", "up"}

Exit(p) ==
    /\ server' = [server EXCEPT ![p] = "none"]
    /\ lease' = [lease EXCEPT ![p] = 0]
    /\ IF p = current
       THEN current' = NoServer /\ DropStreams
       ELSE UNCHANGED <<current, dataVars>>

\* Binding the recorded port panics while an older process still owns it.
Bind(p) ==
    /\ server[p] = "starting"
    /\ IF PortFree
       THEN server' = [server EXCEPT ![p] = "bound"] /\ UNCHANGED <<lease, current, dataVars>>
       ELSE Exit(p)
    /\ UNCHANGED <<mux, linked, faults, workload>>

\* The container server is told of the port; its refusal ends the process.
Announce(p) ==
    /\ server[p] = "bound"
    /\ \/ server' = [server EXCEPT ![p] = "up"] /\ UNCHANGED <<lease, current, faults, dataVars>>
       \/ Fault /\ Exit(p)
    /\ UNCHANGED <<mux, linked, workload>>

\* The readiness line arrives and the mux task is spawned.
Ready ==
    /\ mux = "starting" /\ linked /\ current # NoServer
    /\ server[current] = "up"
    /\ mux' = "up"
    /\ UNCHANGED <<server, lease, current, linked, faults, workload, dataVars>>

Detach ==
    /\ mux' = "idle" /\ current' = NoServer
    /\ DropStreams
    /\ UNCHANGED <<linked, workload>>

Unreachable == current = NoServer \/ ~linked

\* start_tunnel_inner gives up: stderr closed before the readiness line, or no
\* line came for ten seconds.  The process it started may still be there.
NotReady ==
    /\ mux = "starting" /\ Unreachable
    /\ Detach
    /\ UNCHANGED <<server, lease, faults>>

SlowStart ==
    /\ mux = "starting" /\ ~Unreachable
    /\ Fault
    /\ Detach
    /\ UNCHANGED <<server, lease>>

\* The exec transport stops carrying bytes; nobody is told.
LinkLost ==
    /\ current # NoServer /\ linked
    /\ Fault
    /\ linked' = FALSE
    /\ UNCHANGED <<mux, server, lease, current, workload, dataVars>>

\* The mux task ends: it reads an error, or a heartbeat cannot be written.
MuxEnds ==
    /\ mux = "up" /\ Unreachable
    /\ Detach
    /\ UNCHANGED <<server, lease, faults>>

\* The handle is dropped: the process reads end of file and exits.
Cancel ==
    /\ mux = "up" /\ ~Unreachable
    /\ Fault
    /\ server' = [server EXCEPT ![current] = "none"]
    /\ lease' = [lease EXCEPT ![current] = 0]
    /\ Detach

\* A process whose stdin reader can read gets a frame every period, a
\* heartbeat if nothing else.  The ten seconds a start may take are far less
\* than a lease.
Hears(p) == p = current /\ mux = "up" /\ linked /\ dispatching = NoFrame
Starts(p) == p = current /\ mux = "starting"

Heartbeat ==
    /\ lease' = [p \in Servers |->
                    IF server[p] = "none" \/ Hears(p) \/ Starts(p) THEN 0
                    ELSE IF lease[p] < LeaseTicks THEN lease[p] + 1 ELSE lease[p]]
    /\ UNCHANGED <<mux, server, current, linked, faults, workload, dataVars>>

\* wait_for_stalled_host: no input for a whole lease ends the process.
LeaseOver(p) ==
    /\ server[p] # "none"
    /\ lease[p] = LeaseTicks
    /\ Exit(p)
    /\ UNCHANGED <<mux, linked, faults, workload>>

-----------------------------------------------------------------------------
(* The pod side of a session.                                              *)

PodRuns == current # NoServer /\ server[current] = "up"
Writable(pipe) == PodRuns /\ linked /\ mux = "up" /\ Len(pipe) < PipeRoom
MapFree == dispatching = NoFrame

\* A client connects: its id enters the map and OPEN is sent.
Accept(s) ==
    /\ PodRuns /\ MapFree /\ Writable(toHost)
    /\ client[s] = "none" /\ s \in DOMAIN workload.asks
    /\ \A r \in Streams : r < s => client[r] # "none"
    /\ client' = [client EXCEPT ![s] = "open"]
    /\ streams' = streams \union {s}
    /\ toHost' = Append(toHost, Open(s))
    /\ podReader' = [podReader EXCEPT ![s] = "reading"]
    /\ podWriter' = [podWriter EXCEPT ![s] = "writing"]
    /\ UNCHANGED <<processVars, channel, dispatching, gotClient, hostVars, target, asked,
                   answered, toPod>>

\* TCP read -> DATA.
PodRead(s) ==
    /\ podReader[s] = "reading" /\ client[s] = "open"
    /\ asked[s] < workload.asks[s]
    /\ Writable(toHost)
    /\ asked' = [asked EXCEPT ![s] = @ + 1]
    /\ toHost' = Append(toHost, Data(s, asked[s] + 1))
    /\ UNCHANGED <<processVars, podVars, hostVars, client, target, answered, toPod>>

\* The client half-closes, or closes and reads no more.
ClientCloses(s) ==
    /\ client[s] = "open" /\ s \in workload.closers
    /\ \E how \in {"half", "gone"} : client' = [client EXCEPT ![s] = how]
    /\ UNCHANGED <<processVars, podVars, hostVars, target, asked, answered, toHost, toPod>>

\* End of the client's data -> CLOSE.
PodReadEof(s) ==
    /\ podReader[s] = "reading" /\ client[s] \in {"half", "gone"}
    /\ Writable(toHost)
    /\ toHost' = Append(toHost, CloseOf(s))
    /\ podReader' = [podReader EXCEPT ![s] = "closing"]
    /\ UNCHANGED <<processVars, streams, channel, dispatching, podWriter, gotClient,
                   hostVars, endVars, toPod>>

\* ... after which the reader takes its stream out of the map.
PodReaderEnds(s) ==
    /\ podReader[s] = "closing" /\ MapFree
    /\ streams' = streams \ {s}
    /\ podReader' = [podReader EXCEPT ![s] = "done"]
    /\ UNCHANGED <<processVars, channel, dispatching, podWriter, gotClient, hostVars,
                   endVars, toHost, toPod>>

\* A bug: a chunk for which the channel has no room is dropped (try_send).
EnqueueOrDrop(f) ==
    /\ channel' = IF f.s \in streams /\ podWriter[f.s] # "done" /\ Len(channel[f.s]) < ChannelRoom
                    THEN [channel EXCEPT ![f.s] = Append(@, f.n)] ELSE channel
    /\ dispatching' = NoFrame

\* The stdin reader hands a DATA frame to its stream.  It keeps the map locked
\* while the channel is full; a stream that is gone takes nothing.
Enqueue(f) ==
    IF f.s \notin streams \/ podWriter[f.s] = "done"
    THEN UNCHANGED channel /\ dispatching' = NoFrame
    ELSE IF Len(channel[f.s]) < ChannelRoom
         THEN /\ channel' = [channel EXCEPT ![f.s] = Append(@, f.n)]
              /\ dispatching' = NoFrame
         ELSE UNCHANGED channel /\ dispatching' = <<f>>

DispatchData ==
    /\ PodRuns /\ MapFree
    /\ toPod # <<>> /\ Head(toPod).kind = "data"
    /\ toPod' = Tail(toPod)
    /\ Enqueue(Head(toPod))
    /\ UNCHANGED <<processVars, streams, podReader, podWriter, gotClient, hostVars, endVars, toHost>>

DispatchRoom ==
    /\ dispatching # NoFrame
    /\ LET f == Head(dispatching)
       IN  (podWriter[f.s] = "done" \/ Len(channel[f.s]) < ChannelRoom) /\ Enqueue(f)
    /\ UNCHANGED <<processVars, streams, podReader, podWriter, gotClient, hostVars, endVars,
                   toHost, toPod>>

DispatchClose ==
    /\ PodRuns /\ MapFree
    /\ toPod # <<>> /\ Head(toPod).kind = "close"
    /\ toPod' = Tail(toPod)
    /\ streams' = streams \ {Head(toPod).s}
    /\ UNCHANGED <<processVars, channel, dispatching, podReader, podWriter, gotClient,
                   hostVars, endVars, toHost>>

\* The writer task passes the channel on to the client.
PodWrite(s) ==
    /\ PodRuns /\ podWriter[s] = "writing"
    /\ channel[s] # <<>> /\ client[s] # "gone"
    /\ gotClient' = [gotClient EXCEPT ![s] = Append(@, Head(channel[s]))]
    /\ channel' = [channel EXCEPT ![s] = Tail(@)]
    /\ UNCHANGED <<processVars, streams, dispatching, podReader, podWriter, hostVars,
                   endVars, toHost, toPod>>

\* It ends when the channel is closed and drained, or the client is gone.
PodWriterEnds(s) ==
    /\ PodRuns /\ podWriter[s] = "writing"
    /\ \/ channel[s] = <<>> /\ s \notin streams
       \/ channel[s] # <<>> /\ client[s] = "gone"
    /\ podWriter' = [podWriter EXCEPT ![s] = "done"]
    /\ channel' = [channel EXCEPT ![s] = <<>>]
    /\ gotClient' = [gotClient EXCEPT ![s] = Append(@, 0)]
    /\ UNCHANGED <<processVars, streams, dispatching, podReader, hostVars, endVars, toHost, toPod>>

-----------------------------------------------------------------------------
(* The host side of a session.                                             *)

MuxReads(kind) ==
    /\ mux = "up" /\ linked /\ writing = NoFrame
    /\ \A s \in Streams : hostReader[s] # "refused"
    /\ toHost # <<>> /\ Head(toHost).kind = kind
    /\ toHost' = Tail(toHost)

MuxOpen ==
    /\ MuxReads("open")
    /\ LET s == Head(toHost).s
       IN  \/ /\ target' = [target EXCEPT ![s] = "open"]
              /\ writes' = writes \union {s}
              /\ hostReader' = [hostReader EXCEPT ![s] = "reading"]
              /\ UNCHANGED gotTarget
           \/ /\ target' = [target EXCEPT ![s] = "gone"]
              /\ hostReader' = [hostReader EXCEPT ![s] = "refused"]
              /\ gotTarget' = [gotTarget EXCEPT ![s] = <<0>>]
              /\ UNCHANGED writes
    /\ UNCHANGED <<processVars, podVars, writing, client, asked, answered, toPod>>

\* A DATA frame goes to the write half of its stream, if it is still there.
MuxData ==
    /\ MuxReads("data")
    /\ writing' = IF Head(toHost).s \in writes THEN <<Head(toHost)>> ELSE NoFrame
    /\ UNCHANGED <<processVars, podVars, writes, hostReader, gotTarget, endVars, toPod>>

MuxWritten ==
    /\ writing # NoFrame
    /\ LET f == Head(writing)
       IN  /\ gotTarget' = [gotTarget EXCEPT ![f.s] =
                              Append(@, IF target[f.s] = "gone" THEN 0 ELSE f.n)]
           /\ writes' = IF target[f.s] = "gone" THEN writes \ {f.s} ELSE writes
    /\ writing' = NoFrame
    /\ UNCHANGED <<processVars, podVars, hostReader, endVars, toHost, toPod>>

MuxClose ==
    /\ MuxReads("close")
    /\ LET s == Head(toHost).s
       IN  /\ writes' = writes \ {s}
           /\ gotTarget' = IF s \in writes
                           THEN [gotTarget EXCEPT ![s] = Append(@, 0)] ELSE gotTarget
    /\ UNCHANGED <<processVars, podVars, writing, hostReader, endVars, toPod>>

HostRead(s) ==
    /\ hostReader[s] = "reading" /\ target[s] = "open"
    /\ answered[s] < workload.answers[s]
    /\ Writable(toPod)
    /\ answered' = [answered EXCEPT ![s] = @ + 1]
    /\ toPod' = Append(toPod, Data(s, answered[s] + 1))
    /\ UNCHANGED <<processVars, podVars, hostVars, client, target, asked, toHost>>

TargetCloses(s) ==
    /\ target[s] = "open" /\ s \in workload.closers
    /\ \E how \in {"half", "gone"} : target' = [target EXCEPT ![s] = how]
    /\ UNCHANGED <<processVars, podVars, hostVars, client, asked, answered, toHost, toPod>>

\* End of the server's data, or a refused connection -> CLOSE.
HostReadEof(s) ==
    /\ \/ hostReader[s] = "reading" /\ target[s] \in {"half", "gone"}
       \/ hostReader[s] = "refused"
    /\ Writable(toPod)
    /\ toPod' = Append(toPod, CloseOf(s))
    /\ hostReader' = [hostReader EXCEPT ![s] = IF @ = "refused" THEN "done" ELSE "closing"]
    /\ UNCHANGED <<processVars, podVars, writes, writing, gotTarget, endVars, toHost>>

HostReaderEnds(s) ==
    /\ hostReader[s] = "closing" /\ writing = NoFrame
    /\ hostReader' = [hostReader EXCEPT ![s] = "done"]
    /\ writes' = writes \ {s}
    /\ gotTarget' = IF s \in writes
                    THEN [gotTarget EXCEPT ![s] = Append(@, 0)] ELSE gotTarget
    /\ UNCHANGED <<processVars, podVars, writing, endVars, toHost, toPod>>

-----------------------------------------------------------------------------
Session ==
    \/ \E p \in Servers : StartTunnel(p) \/ Bind(p) \/ Announce(p) \/ LeaseOver(p)
    \/ Ready \/ NotReady \/ SlowStart \/ LinkLost \/ MuxEnds \/ Cancel \/ Heartbeat

PodSide ==
    \/ DispatchData \/ DispatchRoom \/ DispatchClose
    \/ \E s \in Streams :
          \/ Accept(s) \/ PodRead(s) \/ PodReadEof(s) \/ PodReaderEnds(s)
          \/ PodWrite(s) \/ PodWriterEnds(s) \/ ClientCloses(s)

HostSide ==
    \/ MuxOpen \/ MuxData \/ MuxWritten \/ MuxClose
    \/ \E s \in Streams :
          HostRead(s) \/ HostReadEof(s) \/ HostReaderEnds(s) \/ TargetCloses(s)

TunnelNext == Session \/ PodSide \/ HostSide

\* What keeps a tunnel coming back: the watchdog of each server process, the
\* daemon's start of the next tunnel and the end of a dead one, and the
\* heartbeat, each a task or a process of its own.  Faults are not in them.
ServerTasks == \E p \in Servers : Bind(p) \/ Announce(p)
Watchdogs == \E p \in Servers : LeaseOver(p)
DaemonTasks == (\E p \in Servers : StartTunnel(p)) \/ Ready \/ NotReady \/ MuxEnds

TunnelFair ==
    /\ WF_tunnelVars(ServerTasks) /\ WF_tunnelVars(Watchdogs)
    /\ WF_tunnelVars(DaemonTasks) /\ WF_tunnelVars(Heartbeat)

TunnelSpec == TunnelInit /\ [][TunnelNext]_tunnelVars /\ TunnelFair

-----------------------------------------------------------------------------
(* What the connections see.                                               *)

Frames(pipe, s) ==
    LET mine(f) == f.s = s /\ f.kind # "open"
        own == SelectSeq(pipe, mine)
    IN  [i \in DOMAIN own |-> own[i].n]

FlowToTarget(s) ==
    IF hostReader[s] = "none" \/ s \in writes THEN Frames(writing \o toHost, s) ELSE <<>>

FlowToClient(s) ==
    CASE podWriter[s] # "writing" -> <<>>
      [] podWriter[s] = "writing" /\ s \in streams ->
            channel[s] \o Frames(dispatching \o toPod, s)
      [] OTHER -> Append(channel[s], 0)

EndsClosed(s) ==
    {e \in {"client", "target"} :
        (IF e = "client" THEN client[s] ELSE target[s]) \in {"half", "gone"}}

PairOf(c, t) == [e \in {"client", "target"} |-> IF e = "client" THEN c ELSE t]

Pipes == INSTANCE StreamPipes WITH
    flow <- PairOf([s \in Streams |-> FlowToClient(s)], [s \in Streams |-> FlowToTarget(s)]),
    out <- PairOf(gotClient, gotTarget),
    written <- PairOf(answered, asked),
    closed <- [s \in Streams |-> EndsClosed(s)]

\* The tunnel carries every connection as a pair of FIFO pipes of its own
\* (StreamPipes): whatever the shared stdin and stdout, the maps and the full
\* channels do to the order in which tasks run, a chunk is never lost, repeated,
\* reordered or handed to another connection, and end of stream comes after the
\* data it ends, as long as the receiver has not closed itself and the
\* tunnel-server lives.
TunnelIsPipes == Pipes!Spec

\* The daemon has a running tunnel whose stdin reader is not held up, although
\* a stale tunnel-server may own the port and a client may never read: "A dead
\* SSH transport or a wedged stream consumer must not retain the listener
\* forever" (tunnel.rs, before wait_for_stalled_host).
TunnelServes == mux = "up" /\ PodRuns /\ linked /\ dispatching = NoFrame

=============================================================================
