--------------------------- MODULE ForwardedPorts ---------------------------
(* Host ports forwarded into pods: the rows of the forwarded_ports table, the *)
(* listeners that serve them, and who makes both.  A pod's forwards are set   *)
(* up (daemon.rs setup_port_forwarding) by a launch or reconnect, of which    *)
(* the lifecycle lease admits one at a time, and by the supervisor's repair   *)
(* of the connection, which takes no lease; `rumpel forward-port` requests    *)
(* run beside them and beside each other (add_forwarded_port).  A listener is *)
(* closed by the task that accepts on it, some time after its handle has been *)
(* dropped (exec_proxy.rs accept_loop).  A pod here is a row of the pods      *)
(* table; what happens to its ports when that row is deleted is left out.     *)
EXTENDS Integers

CONSTANTS Pods,       \* pods of the daemon
          MaxPort,    \* host ports are 1..MaxPort
          Ephemeral,  \* the ports the system hands out by itself
          Near,       \* bind_near's NEAR_ATTEMPTS
          Declared,   \* Pods -> sequence of container ports (forwardPorts)
          Adders,     \* numbers of forward-port requests that may be under way
          AddTargets, \* container ports they ask for
          PortLoads   \* [adds, drops, restarts, foreign, faults, repairs]: bounds

HostPorts == 1..MaxPort

\* Who sets a pod's forwards up: the holder of its lease, or its repair.
Jobs == Pods \X {"lease", "repair"}
PodOf(j) == j[1]
IsRepair(j) == j[2] = "repair"

ASSUME PortsAssumption ==
    /\ MaxPort \in Nat /\ Ephemeral \subseteq HostPorts /\ Near \in Nat \ {0}
    /\ AddTargets \subseteq HostPorts /\ Adders \subseteq Nat
    /\ \A p \in Pods : \A i \in DOMAIN Declared[p] : i \in Nat /\ Declared[p][i] \in HostPorts

VARIABLES portLoad,
          rows,     \* forwarded_ports: set of [pod, target, local]
          bound,    \* per host port: who has a listener on it
          forwarding, \* pods whose connection has a list of handles
          setUp,    \* per job: its set-up
          adder,    \* per request: how far it is
          superseded, \* pods stopped since their repair began (its epoch)
          disturbed,  \* history: pods where a request, or two set-ups, crossed a set-up
          overlapped  \* history: pods where two set-ups crossed

portVars == <<portLoad, rows, bound, forwarding, setUp, adder, superseded, disturbed, overlapped>>

NoJob == [at |-> "none"]

\* A listener belongs to nobody, to another process, to a set-up or a request,
\* to a pod's list of handles, or to an accept_loop that is to end.
Unbound == [by |-> "nobody"]
Foreign == [by |-> "another"]
BySetUp(j, t) == [by |-> "setup", job |-> j, target |-> t]
ByRequest(a) == [by |-> "request", number |-> a]
InList(p, t) == [by |-> "list", pod |-> p, target |-> t]
Closing == [by |-> "closing"]

PortsInit ==
    /\ portLoad \in PortLoads
    /\ rows = {} /\ bound = [x \in HostPorts |-> Unbound] /\ forwarding = {}
    /\ setUp = [j \in Jobs |-> NoJob] /\ adder = [a \in Adders |-> NoJob]
    /\ superseded = {} /\ disturbed = {} /\ overlapped = {}

RowsOf(p) == {r \in rows : r.pod = p}
Allocated == {r.local : r \in rows}
Row(p, t, x) == [pod |-> p, target |-> t, local |-> x]
Handle(t, x) == [target |-> t, local |-> x]

\* The ports of the handles a set-up has, of those the pod's connection has,
\* and the latter's handles.
MadeBy(j) == {x \in HostPorts : bound[x].by = "setup" /\ bound[x].job = j}
ListedFor(p) == {x \in HostPorts : bound[x].by = "list" /\ bound[x].pod = p}
Handles(p) == {Handle(bound[x].target, x) : x \in ListedFor(p)}

\* The handles are dropped; their listeners close later.
DropHandles(ports) == [x \in HostPorts |-> IF x \in ports THEN Closing ELSE bound[x]]

\* Requests that deal with pod p.
Busy(a, p) == adder[a].at \notin {"none", "done", "failed"} /\ adder[a].pod = p
AddsOf(p) == {a \in Adders : Busy(a, p)}

\* Set-ups of pod p that are under way.
SetUpsOf(p) == {j \in Jobs : PodOf(j) = p /\ setUp[j].at # "none"}

-----------------------------------------------------------------------------
(* Binding (bind_near, rebind_or_near)                                       *)

Free(x) == bound[x].by = "nobody"

NearPorts(t, reserved) ==
    {x \in HostPorts : t <= x /\ x < t + Near /\ x \notin reserved /\ Free(x)}

\* The ports bind_near(t, reserved) may return: the first of the near ones, or
\* any the system hands out; reserved ports are not kept from the system.
BindNear(t, reserved) ==
    LET near == NearPorts(t, reserved)
    IN  IF near # {} THEN {x \in near : \A y \in near : x <= y}
        ELSE {x \in Ephemeral : Free(x)}

RebindOrNear(x, t, reserved) ==
    IF x \notin reserved /\ Free(x) THEN {x} ELSE BindNear(t, reserved)

-----------------------------------------------------------------------------
(* setup_port_forwarding                                                     *)

\* What a set-up is to serve, in the order of rank: a row that was saved, which
\* are ordered by container port, or an entry of forwardPorts.
SavedEntry(r) == [rank |-> r.target, target |-> r.target, local |-> r.local]
DeclaredEntries(p) ==
    {[rank |-> i, target |-> Declared[p][i], local |-> 0] : i \in DOMAIN Declared[p]}

\* Whoever finds no list of handles reads the rows, then, in a second look, all
\* allocated ports.
SetUpBegins(j) ==
    LET p == PodOf(j)
        cross == SetUpsOf(p) # {}
    IN  /\ setUp[j].at = "none" /\ p \notin forwarding
        /\ IF IsRepair(j)
             THEN /\ portLoad.repairs > 0 /\ portLoad' = [portLoad EXCEPT !.repairs = @ - 1]
                  /\ superseded' = superseded \ {p}
             ELSE UNCHANGED <<portLoad, superseded>>
        /\ setUp' = [setUp EXCEPT ![j] =
             [at |-> "read", todo |-> {SavedEntry(r) : r \in RowsOf(p)}]]
        /\ disturbed' = IF AddsOf(p) # {} \/ cross THEN disturbed \union {p} ELSE disturbed \ {p}
        /\ overlapped' = IF cross THEN overlapped \union {p} ELSE overlapped \ {p}
        /\ UNCHANGED <<rows, bound, forwarding, adder>>

\* What is to be bound: the saved rows, or else the declared ports, of which a
\* launch knows, a reconnect or repair does not.
SetUpReads(j) ==
    /\ setUp[j].at = "read"
    /\ \E declared \in {{}, IF IsRepair(j) THEN {} ELSE DeclaredEntries(PodOf(j))} :
         LET saved == setUp[j].todo
         IN  setUp' = [setUp EXCEPT ![j] =
               [at |-> "bind", reserved |-> Allocated \ {e.local : e \in saved},
                mode |-> IF saved = {} THEN "fresh" ELSE "saved",
                todo |-> IF saved = {} THEN declared ELSE saved]]
    /\ UNCHANGED <<portLoad, rows, bound, forwarding, adder, superseded, disturbed, overlapped>>

SetUpChoices(j, e) ==
    IF setUp[j].mode = "fresh" THEN BindNear(e.target, setUp[j].reserved)
    ELSE RebindOrNear(e.local, e.target, setUp[j].reserved)

IsNext(j, e) == e \in setUp[j].todo /\ \A d \in setUp[j].todo : e.rank <= d.rank

SetUpBinds(j) ==
    /\ setUp[j].at = "bind"
    /\ \E e \in setUp[j].todo : IsNext(j, e) /\ \E x \in SetUpChoices(j, e) :
         /\ bound' = [bound EXCEPT ![x] = BySetUp(j, e.target)]
         /\ setUp' = [setUp EXCEPT ![j] =
              [at |-> "record", reserved |-> @.reserved \union {x}, mode |-> @.mode,
               todo |-> @.todo \ {e}, entry |-> e, port |-> x]]
    /\ UNCHANGED <<portLoad, rows, forwarding, adder, superseded, disturbed, overlapped>>

\* A bug: local_port is not UNIQUE.
RecordableAlways(x, except) == TRUE

\* The row that says x, unless another row does: local_port is UNIQUE.
Recordable(x, except) == \A r \in rows \ except : r.local # x

\* The rows with the new listener's port, for a declared port or a saved one.
\* The UPDATE is for all rows of the container port.
Recorded(j) ==
    LET p == PodOf(j)
        e == setUp[j].entry
        x == setUp[j].port
        mine == {r \in rows : r.pod = p /\ r.target = e.target}
    IN  IF setUp[j].mode = "fresh"
          THEN {R \in {rows \union {Row(p, e.target, x)}} : Recordable(x, {})}
        ELSE IF x = e.local THEN {rows}
        ELSE {R \in {(rows \ mine) \union {Row(p, e.target, x) : r \in mine}} :
                   Recordable(x, mine) /\ \A r, s \in mine : r = s}

\* Then the container of the service is looked up, and the port is served.
SetUpRecords(j) ==
    /\ setUp[j].at = "record"
    /\ rows' \in Recorded(j)
    /\ setUp' = [setUp EXCEPT ![j] = [at |-> "bind", reserved |-> @.reserved, mode |-> @.mode,
                                      todo |-> @.todo]]
    /\ UNCHANGED <<portLoad, bound, forwarding, adder, superseded, disturbed, overlapped>>

\* The set-up has an error: the listener at hand is dropped, and every handle
\* made so far; rows stay.
SetUpGivesUp(j) ==
    /\ setUp' = [setUp EXCEPT ![j] = NoJob]
    /\ bound' = IF setUp[j].at = "record"
                  THEN [DropHandles(MadeBy(j)) EXCEPT ![setUp[j].port] = Unbound]
                  ELSE DropHandles(MadeBy(j))

SetUpFindsNoContainer(j) ==
    /\ setUp[j].at = "record" /\ portLoad.faults > 0
    /\ portLoad' = [portLoad EXCEPT !.faults = @ - 1]
    /\ rows' \in Recorded(j)
    /\ SetUpGivesUp(j)
    /\ UNCHANGED <<forwarding, adder, superseded, disturbed, overlapped>>

\* No port can be had, or the one that was is another row's.
SetUpFails(j) ==
    /\ \/ setUp[j].at = "bind" /\ \E e \in setUp[j].todo : IsNext(j, e) /\ SetUpChoices(j, e) = {}
       \/ setUp[j].at = "record" /\ Recorded(j) = {}
    /\ SetUpGivesUp(j)
    /\ UNCHANGED <<portLoad, rows, forwarding, adder, superseded, disturbed, overlapped>>

\* set_forwarded_ports, install_repaired_routes: the new handles replace
\* whatever is there; a repair's do only if the pod was not stopped meanwhile.
SetUpEnds(j) ==
    /\ setUp[j].at = "bind" /\ setUp[j].todo = {}
    /\ IsRepair(j) => PodOf(j) \notin superseded
    /\ bound' = [x \in HostPorts |->
                   IF x \in MadeBy(j) THEN InList(PodOf(j), bound[x].target)
                   ELSE IF x \in ListedFor(PodOf(j)) THEN Closing ELSE bound[x]]
    /\ forwarding' = forwarding \union {PodOf(j)}
    /\ setUp' = [setUp EXCEPT ![j] = NoJob]
    /\ UNCHANGED <<portLoad, rows, adder, superseded, disturbed, overlapped>>

\* install_repaired_routes is refused: the pod was stopped, or has a route to its
\* server again.
RepairRefused(j) ==
    /\ IsRepair(j) /\ setUp[j].at = "bind" /\ setUp[j].todo = {}
    /\ SetUpGivesUp(j)
    /\ UNCHANGED <<portLoad, rows, forwarding, adder, superseded, disturbed, overlapped>>

-----------------------------------------------------------------------------
(* add_forwarded_port                                                        *)

\* The pod's rows are looked at; a container port that has one is refused.
\* Requests are numbered as they come.
AddBegins(a, p, t, x) ==
    /\ adder[a].at = "none" /\ portLoad.adds > 0
    /\ \A b \in Adders : b < a => adder[b].at # "none"
    /\ portLoad' = [portLoad EXCEPT !.adds = @ - 1]
    /\ adder' = [adder EXCEPT ![a] =
         IF \E r \in RowsOf(p) : r.target = t THEN [at |-> "failed"]
         ELSE [at |-> "read", pod |-> p, target |-> t, local |-> x, allocated |-> {}]]
    /\ disturbed' = IF SetUpsOf(p) # {} \/ AddsOf(p) # {}
                      THEN disturbed \union {p} ELSE disturbed
    /\ UNCHANGED <<rows, bound, forwarding, setUp, superseded, overlapped>>

AddReads(a) ==
    /\ adder[a].at = "read"
    /\ adder' = [adder EXCEPT ![a].at = "bind", ![a].allocated = Allocated]
    /\ UNCHANGED <<portLoad, rows, bound, forwarding, setUp, superseded, disturbed, overlapped>>

\* The requested port must not be promised to anyone.
AddChoices(a) ==
    LET r == adder[a]
    IN  IF r.local = 0 THEN BindNear(r.target, r.allocated)
        ELSE {x \in {r.local} : x \notin r.allocated /\ Free(x)}

AddBinds(a) ==
    /\ adder[a].at = "bind"
    /\ \E x \in AddChoices(a) :
         /\ bound' = [bound EXCEPT ![x] = ByRequest(a)]
         /\ adder' = [adder EXCEPT ![a].at = "record", ![a].local = x, ![a].allocated = {}]
    /\ UNCHANGED <<portLoad, rows, forwarding, setUp, superseded, disturbed, overlapped>>

AddFails(a) ==
    LET r == adder[a] IN
    /\ \/ r.at = "bind" /\ AddChoices(a) = {} /\ bound' = bound
       \/ r.at = "record" /\ ~Recordable(r.local, {})
          /\ bound' = [bound EXCEPT ![r.local] = Unbound]
    /\ adder' = [adder EXCEPT ![a] = [at |-> "failed"]]
    /\ UNCHANGED <<portLoad, rows, forwarding, setUp, superseded, disturbed, overlapped>>

AddRecords(a) ==
    LET r == adder[a] IN
    /\ r.at = "record" /\ Recordable(r.local, {})
    /\ rows' = rows \union {Row(r.pod, r.target, r.local)}
    /\ adder' = [adder EXCEPT ![a].at = "serve"]
    /\ UNCHANGED <<portLoad, bound, forwarding, setUp, superseded, disturbed, overlapped>>

\* get_or_insert_with: without a list of handles, one with this handle only.
AddServes(a) ==
    LET r == adder[a] IN
    /\ r.at = "serve"
    /\ bound' = [bound EXCEPT ![r.local] = InList(r.pod, r.target)]
    /\ forwarding' = forwarding \union {r.pod}
    /\ adder' = [adder EXCEPT ![a] = [at |-> "done"]]
    /\ disturbed' = IF r.pod \in forwarding THEN disturbed ELSE disturbed \union {r.pod}
    /\ UNCHANGED <<portLoad, rows, setUp, superseded, overlapped>>

-----------------------------------------------------------------------------
(* The rest of the world                                                     *)

\* accept_loop notices the cancellation and ends, with its listener.
ListenerCloses(x) ==
    /\ bound[x].by = "closing" /\ bound' = [bound EXCEPT ![x] = Unbound]
    /\ UNCHANGED <<portLoad, rows, forwarding, setUp, adder, superseded, disturbed, overlapped>>

\* Under the lease: the pod stops, which supersedes its repair, or its services have
\* moved to other containers.
ForwardsDropped(p, stops) ==
    /\ portLoad.drops > 0 /\ setUp[<<p, "lease">>].at = "none"
    /\ stops \/ p \in forwarding
    /\ portLoad' = [portLoad EXCEPT !.drops = @ - 1]
    /\ superseded' = IF stops THEN superseded \union {p} ELSE superseded
    /\ forwarding' = forwarding \ {p} /\ bound' = DropHandles(ListedFor(p))
    /\ UNCHANGED <<rows, setUp, adder, disturbed, overlapped>>

DaemonRestart ==
    /\ portLoad.restarts > 0
    /\ portLoad' = [portLoad EXCEPT !.restarts = @ - 1]
    /\ bound' = [x \in HostPorts |-> IF bound[x].by = "another" THEN Foreign ELSE Unbound]
    /\ forwarding' = {} /\ setUp' = [j \in Jobs |-> NoJob]
    /\ adder' = [a \in Adders |-> IF adder[a].at = "none" THEN NoJob ELSE [at |-> "failed"]]
    /\ superseded' = {} /\ disturbed' = {} /\ overlapped' = {}
    /\ UNCHANGED rows

\* Another process takes a port.
ForeignBinds(x) ==
    /\ portLoad.foreign > 0 /\ Free(x)
    /\ portLoad' = [portLoad EXCEPT !.foreign = @ - 1]
    /\ bound' = [bound EXCEPT ![x] = Foreign]
    /\ UNCHANGED <<rows, forwarding, setUp, adder, superseded, disturbed, overlapped>>

PortsNext ==
    \/ \E j \in Jobs :
         \/ SetUpBegins(j) \/ SetUpReads(j) \/ SetUpBinds(j) \/ SetUpRecords(j)
         \/ SetUpFindsNoContainer(j) \/ SetUpFails(j) \/ SetUpEnds(j) \/ RepairRefused(j)
    \/ \E p \in Pods, stops \in BOOLEAN : ForwardsDropped(p, stops)
    \/ \E a \in Adders :
         \/ \E p \in Pods, t \in AddTargets, x \in {0, MaxPort} : AddBegins(a, p, t, x)
         \/ AddReads(a) \/ AddBinds(a) \/ AddFails(a) \/ AddRecords(a) \/ AddServes(a)
    \/ \E x \in HostPorts : ListenerCloses(x) \/ ForeignBinds(x)
    \/ DaemonRestart

PortsSpec == PortsInit /\ [][PortsNext]_portVars

-----------------------------------------------------------------------------
(* Properties                                                                *)

\* What `rumpel ports` shows.
ListPorts(p) == {Handle(r.target, r.local) : r \in RowsOf(p)}

\* A forward goes where the database says: a host port some row promises to a
\* pod's container port is never served for another pod or container port,
\* although the set-ups and requests read the rows, bind and record in
\* separate steps, and the system hands out ports that are promised; unless by
\* a pod of which a reconnect's set-up and a repair's have crossed.
ForwardsGoHome ==
    \A p \in Pods \ overlapped : \A h \in Handles(p) : \A r \in rows :
        r.local = h.local => r.pod = p /\ r.target = h.target

\* Every port of a pod that has been set up is served: no row without a
\* handle and no handle without a row, over daemon restarts, ports lost to
\* other processes, half-done set-ups and refused repairs; unless another
\* set-up or a forward-port request crossed the set-up, or the request came
\* before it.  (Of two that cross, one moves the row to another port, and the
\* handles that stay may be the other's.)
PromisesAreServed ==
    \A p \in Pods :
        (p \in forwarding /\ SetUpsOf(p) = {} /\ AddsOf(p) = {} /\ p \notin disturbed) =>
            Handles(p) = ListPorts(p)

\* The rows are promises to the user that are kept: no port of theirs leads
\* elsewhere, and each is served (setup_port_forwarding, add_forwarded_port).
PortsAsPromised == ForwardsGoHome /\ PromisesAreServed
=============================================================================
