---------------------------- MODULE PodLifecycle ----------------------------
(***************************************************************************)
(* The operations on ONE pod name, over its lifecycle lock: enter, fork,   *)
(* recreate, connect, stop, delete, forget, and the sweep of unconfirmed   *)
(* creations (daemon.rs, daemon/creation.rs), with the three stores they   *)
(* keep in step: the row in the database, the intent files, the backend.   *)
(*                                                                         *)
(* Every creation of the pod has a fresh token.  The row holds it, the     *)
(* intent file is named by its hash and the container carries the hash as  *)
(* a label, so all three are members of Tokens here.  The container's NAME *)
(* is derived from the pod's name: creations of one pod compete for it, and*)
(* delete, start, stop and inspect address the container by name.          *)
(*                                                                         *)
(* A create request is a message to a backend which may act on it after    *)
(* the daemon lost interest (cancellation), lost the answer or died.  Rows *)
(* and intents survive a restart, everything else in the daemon does not.  *)
(*                                                                         *)
(* Simplifications.  A compose project counts as its agent container.  The *)
(* connection to the pod, caches, refs, ports and events are left out.     *)
(* SQLite statements, and the sweep's own file operations, are taken to    *)
(* succeed.  A backend delete that returned success has removed the        *)
(* container.                                                              *)
(***************************************************************************)
EXTENDS PodLifecycleLock

CONSTANTS Tokens,
          NoToken,
          Kubernetes,      \* TRUE: a Kubernetes host; FALSE: Docker or Podman
          DeleteAttempts,  \* length of delays_secs, 3 in the code
          MaxRestarts,     \* bound on the number of daemon restarts
          Disturbed        \* may others, or delete_all_pods, remove containers

ASSUME TokensAssumption ==
    /\ NoToken \notin Tokens
    /\ Kubernetes \in BOOLEAN
    /\ DeleteAttempts \in Nat \ {0}
    /\ MaxRestarts \in Nat
    /\ Disturbed \in BOOLEAN

VARIABLES
    pod,         \* token of the pod's row, NoToken when there is no row
    status,      \* status of the row, Initializing when there is none
    intents,     \* files in pending-creations
    container,   \* label of the container that has the pod's name
    running,     \* is that container running (on Kubernetes: not yet exited)
    requested,   \* create requests the backend may still act on
    created,     \* create requests answered with success
    used,        \* tokens drawn so far
    forgotten,   \* history: creations that `delete --forget` left alone
    step,        \* next step of each actor's operation
    token,       \* per startup: the token it drew
    retried,     \* startups that used up their overlay2 retry
    attempts,    \* per delete: failed attempts so far
    scanned,     \* entries of the directory scan the sweep has not handled
    entry,       \* the entry it is handling
    restarts     \* number of restarts so far

rowVars   == <<pod, status>>
backVars  == <<container, running, requested, created>>
opVars    == <<step, token, retried, attempts>>
sweepVars == <<scanned, entry>>
podVars   == <<pod, status, intents, container, running, requested, created,
               used, forgotten, step, token, retried, attempts, scanned,
               entry, restarts>>
vars      == <<lockVars, podVars>>

Statuses == {"Initializing", "Ready", "Error", "Stopping", "Deleting",
             "DeleteFailed"}

Steps == {"none", "done",
          "enter", "fork", "recreate", "connect", "gone", "reconnect",
          "prepare", "intent", "send", "creating", "starting", "setup",
          "broken", "replace",
          "stop", "stopping",
          "wait", "background", "forget", "forgetRow", "removing",
          "retrying", "sweep", "sweeping"}

StoreTypeOK ==
    /\ pod \in Tokens \cup {NoToken}
    /\ status \in Statuses
    /\ intents \subseteq Tokens
    /\ container \in Tokens \cup {NoToken}
    /\ running \in BOOLEAN
    /\ requested \subseteq Tokens
    /\ created \subseteq Tokens
    /\ used \subseteq Tokens
    /\ forgotten \subseteq Tokens

OperationTypeOK ==
    /\ step \in [Actors -> Steps]
    /\ token \in [Startups -> Tokens \cup {NoToken}]
    /\ retried \subseteq Startups
    /\ attempts \in [Deletes -> 0..(DeleteAttempts - 1)]
    /\ scanned \subseteq Tokens
    /\ entry \in [Cleaners -> Tokens \cup {NoToken}]
    /\ restarts \in Nat

TypeOK == LockTypeOK /\ StoreTypeOK /\ OperationTypeOK

Init ==
    /\ LockInit
    /\ pod = NoToken
    /\ status = "Initializing"
    /\ intents = {}
    /\ container = NoToken
    /\ running = FALSE
    /\ requested = {}
    /\ created = {}
    /\ used = {}
    /\ forgotten = {}
    /\ step = [a \in Actors |-> "none"]
    /\ token = [t \in Startups |-> NoToken]
    /\ retried = {}
    /\ attempts = [d \in Deletes |-> 0]
    /\ scanned = {}
    /\ entry = [c \in Cleaners |-> NoToken]
    /\ restarts = 0

To(a, s) == step' = [step EXCEPT ![a] = s]

\* The actor holds the lease and its operation is at step s
At(a, s) ==
    /\ phase[a] = IF a \in Startups THEN "running" ELSE "holding"
    /\ step[a] = s

SetStatus(s) == status' = s /\ UNCHANGED pod

RemoveRow == pod' = NoToken /\ status' = "Initializing"

\* The operation returns to its caller, with an error or without
Return(a) == To(a, "done") /\ UNCHANGED <<token, retried, attempts>>

Continue(a, s) == To(a, s) /\ UNCHANGED <<token, retried, attempts>>

\* A backend delete by name: done, or failed with or without an effect
Removed == container' = NoToken /\ running' = FALSE /\ UNCHANGED <<requested, created>>

NotRemoved == UNCHANGED backVars \/ (container # NoToken /\ Removed)

-----------------------------------------------------------------------------
(* Startups: the operation is chosen when the task is spawned and runs once *)
(* the task has the lease.                                                  *)

\* validate_connect_status, also called by connect_pod before it spawns
Connectable == pod # NoToken /\ status \in {"Initializing", "Ready", "Error"}

\* launch_pod, fork_pod, recreate_pod, connect_pod
SpawnOperation(t) ==
    /\ Spawn(t)
    /\ \E op \in {"enter", "fork", "recreate", "connect"} :
        /\ op = "connect" => Connectable
        /\ step' = [step EXCEPT ![t] = op]
    /\ UNCHANGED <<rowVars, intents, backVars, used, forgotten, token, retried,
                   attempts, sweepVars, restarts>>

\* A Kubernetes pod that failed or succeeded: it is never restarted, and the
\* object stays until somebody deletes it
Exited == Kubernetes /\ ~running

\* docker_status, get_pod_status: such a pod is reported Gone, as is one that
\* does not exist
ReportedGone == container = NoToken \/ Exited

\* launch_pod_impl: look at the row, then at the container it should have.  A
\* compose pod is taken to run and looked at by the reconnect only.
InspectExisting(t) ==
    /\ At(t, "enter")
    /\ \/ pod = NoToken /\ Continue(t, "prepare")
       \/ pod # NoToken /\ ReportedGone /\ Continue(t, "gone")
       \/ pod # NoToken /\ (ReportedGone => ~Kubernetes) /\ Continue(t, "reconnect")
       \/ pod # NoToken /\ Return(t)
    /\ UNCHANGED <<lockVars, rowVars, intents, backVars, used, forgotten,
                   sweepVars, restarts>>

\* fork_pod_impl: the new name must be free; its source is another pod
ForkIntoNew(t) ==
    /\ At(t, "fork")
    /\ \/ pod = NoToken /\ Continue(t, "prepare")
       \/ Return(t)
    /\ UNCHANGED <<lockVars, rowVars, intents, backVars, used, forgotten,
                   sweepVars, restarts>>

\* forget_gone_pod, then on to a fresh creation
ForgetGonePod(t) ==
    /\ At(t, "gone")
    /\ RemoveRow
    /\ Continue(t, "prepare")
    /\ UNCHANGED <<lockVars, intents, backVars, used, forgotten, sweepVars,
                   restarts>>

\* reconnect_docker: the container is found by name and started
ReconnectDocker(t) ==
    /\ ~Kubernetes
    /\ running' = TRUE
    /\ SetStatus("Ready")
    /\ Return(t)

\* reconnect_k8s: a pod that does not run is an error
ReconnectK8s(t) ==
    /\ Kubernetes /\ running
    /\ SetStatus("Ready")
    /\ Return(t)
    /\ UNCHANGED running

\* the pod is gone: forget_gone_pod, or delete_pod_impl_async for a compose pod
ReconnectGone(t) ==
    /\ \/ Continue(t, "gone") /\ UNCHANGED rowVars
       \/ ~Kubernetes /\ SetStatus("Deleting") /\ Continue(t, "replace")
    /\ UNCHANGED running

\* reconnect_pod_async with start_stopped: any error leaves the row as it is
Reconnect(t) ==
    /\ At(t, "reconnect")
    /\ \/ ReportedGone /\ ReconnectGone(t)
       \/ container # NoToken /\ (ReconnectDocker(t) \/ ReconnectK8s(t))
       \/ /\ container # NoToken
          /\ running' \in {running, running \/ ~Kubernetes}
          /\ Return(t)
          /\ UNCHANGED rowVars
    /\ UNCHANGED <<lockVars, intents, container, requested, created, used,
                   forgotten, sweepVars, restarts>>

\* connect_pod_impl_async: does not start a stopped container and keeps the row
\* of a container that is gone
Connect(t) ==
    /\ At(t, "connect")
    /\ \/ /\ Connectable
          /\ container # NoToken /\ running
          /\ SetStatus("Ready")
       \/ UNCHANGED rowVars
    /\ Return(t)
    /\ UNCHANGED <<lockVars, intents, backVars, used, forgotten, sweepVars,
                   restarts>>

\* recreate_pod_impl up to the status change in delete_pod_impl_async
Recreate(t) ==
    /\ At(t, "recreate")
    /\ \/ /\ pod # NoToken
          /\ SetStatus("Deleting")
          /\ Continue(t, "replace")
       \/ Return(t) /\ UNCHANGED rowVars
    /\ UNCHANGED <<lockVars, intents, backVars, used, forgotten, sweepVars,
                   restarts>>

\* the inline delete of recreate (or of a compose pod that is gone), then a fresh launch without a row
Replace(t) ==
    /\ At(t, "replace")
    /\ \/ Removed /\ RemoveRow /\ Continue(t, "prepare")
       \/ NotRemoved /\ Return(t) /\ UNCHANGED rowVars
    /\ UNCHANGED <<lockVars, intents, used, forgotten, sweepVars, restarts>>

\* The initializer, the image, the gateway or the host: nothing is stored yet
PreparationFails(t) == Return(t) /\ UNCHANGED <<rowVars, used>>

\* create_pod_container, launch_pod_k8s: the row, with a fresh token
InsertRow(t) ==
    \E k \in Tokens \ used :
        /\ pod = NoToken
        /\ pod' = k
        /\ status' = "Initializing"
        /\ used' = used \cup {k}
        /\ token' = [token EXCEPT ![t] = k]
        /\ To(t, "intent")
        /\ UNCHANGED <<retried, attempts>>

\* launch_pod_from_source
Prepare(t) ==
    /\ At(t, "prepare")
    /\ InsertRow(t) \/ PreparationFails(t)
    /\ UNCHANGED <<lockVars, intents, backVars, forgotten, sweepVars, restarts>>

\* mark_error.  launch_pod_k8s does not call it on every path, and neither does
\* the last check of create_pod_container.
MarkError == SetStatus("Error")

\* A bug: the request is sent without an intent
WriteNothing(t) ==
    /\ At(t, "intent")
    /\ Continue(t, "send")
    /\ UNCHANGED <<lockVars, rowVars, intents, backVars, used, forgotten,
                   sweepVars, restarts>>

\* CreateIntent::new: durable before the request is sent.  On failure the file
\* may be there or not, and launch_pod_k8s leaves the row Initializing.
WriteIntent(t) ==
    /\ At(t, "intent")
    /\ \/ /\ intents' = intents \cup {token[t]}
          /\ Continue(t, "send")
          /\ UNCHANGED rowVars
       \/ /\ intents' \in {intents, intents \cup {token[t]}}
          /\ Return(t)
          /\ MarkError \/ (Kubernetes /\ UNCHANGED rowVars)
    /\ UNCHANGED <<lockVars, backVars, used, forgotten, sweepVars, restarts>>

\* launch_async: the request leaves the daemon
SendCreate(t) ==
    /\ At(t, "send")
    /\ requested' = requested \cup {token[t]}
    /\ Continue(t, "creating")
    /\ UNCHANGED <<lockVars, rowVars, intents, container, running, created, used,
                   forgotten, sweepVars, restarts>>

\* launch_async: the answer, or an error that says nothing about the request
CreateAnswered(t) ==
    /\ At(t, "creating")
    /\ \/ /\ token[t] \in created
          /\ Continue(t, "starting")
          /\ UNCHANGED rowVars
       \/ MarkError /\ Return(t)
    /\ created' = created \ {token[t]}
    /\ UNCHANGED <<lockVars, intents, container, running, requested, used,
                   forgotten, sweepVars, restarts>>

\* docker start by name, or wait_running, which fails once the pod has exited;
\* then `confirmed` removes the intent.  A compose project may fail before that
\* when its sidecars are prepared.
StartContainer(t) ==
    /\ At(t, "starting")
    /\ \/ /\ ~ReportedGone
          /\ running' = TRUE
          /\ \/ /\ intents' = intents \ {token[t]}
                /\ Continue(t, "setup")
                /\ UNCHANGED rowVars
             \/ /\ Return(t)
                /\ MarkError \/ (Kubernetes /\ UNCHANGED rowVars)
                /\ UNCHANGED intents
             \/ /\ ~Kubernetes /\ t \notin retried
                /\ Continue(t, "broken")
                /\ UNCHANGED <<rowVars, intents>>
       \/ /\ MarkError
          /\ Return(t)
          /\ UNCHANGED <<running, intents>>
    /\ UNCHANGED <<lockVars, container, requested, created, used, forgotten,
                   sweepVars, restarts>>

\* Tunnel, container server, proxy, readiness, uploads; then the row is Ready.
\* is_overlay2_setup_error asks for one retry.
SetupDocker(t) ==
    /\ ~Kubernetes
    /\ \/ SetStatus("Ready") /\ Return(t)
       \/ MarkError /\ Return(t)
       \/ UNCHANGED rowVars /\ Return(t)
       \/ t \notin retried /\ UNCHANGED rowVars /\ Continue(t, "broken")

SetupK8s(t) ==
    /\ Kubernetes
    /\ SetStatus("Ready") \/ MarkError
    /\ Return(t)

Setup(t) ==
    /\ At(t, "setup")
    /\ SetupDocker(t) \/ SetupK8s(t)
    /\ UNCHANGED <<lockVars, intents, backVars, used, forgotten, sweepVars,
                   restarts>>

\* overlay2 retry: remove the container (a failure is only logged), once more
RemoveBroken(t) ==
    /\ At(t, "broken")
    /\ Removed \/ NotRemoved
    /\ retried' = retried \cup {t}
    /\ To(t, "intent")
    /\ UNCHANGED <<lockVars, rowVars, intents, used, forgotten, token, attempts,
                   sweepVars, restarts>>

\* The task ends: it returned, gave up waiting for the lease, or was aborted at
\* an await.  Whatever it had asked of the backend is not taken back.
EndStartup(t) ==
    /\ \/ step[t] = "done" /\ FinishOperation(t)
       \/ StartupTimeout(t)
       \/ CancelStartup(t)
    /\ To(t, "none")
    /\ token' = [token EXCEPT ![t] = NoToken]
    /\ retried' = retried \ {t}
    /\ created' = created \ {token[t]}
    /\ UNCHANGED <<rowVars, intents, container, running, requested, used,
                   forgotten, attempts, sweepVars, restarts>>

StartupLocking(t) ==
    /\ StartupLock(t) \/ SetOwner(t) \/ Complete(t)
    /\ UNCHANGED podVars

-----------------------------------------------------------------------------
(* Requests: stop_pod.  subscribe_pod_reconnect takes the same guard and    *)
(* changes nothing modelled here.                                           *)

QueueRequest(r) ==
    /\ Queue(r)
    /\ \E op \in {"stop", "done"} : To(r, op)
    /\ UNCHANGED <<rowVars, intents, backVars, used, forgotten, token, retried,
                   attempts, sweepVars, restarts>>

\* Kubernetes is rejected; a host that cannot be resolved changes nothing
BeginStop(r) ==
    /\ At(r, "stop")
    /\ \/ /\ ~Kubernetes
          /\ IF pod # NoToken THEN SetStatus("Stopping") ELSE UNCHANGED rowVars
          /\ Continue(r, "stopping")
       \/ Return(r) /\ UNCHANGED rowVars
    /\ UNCHANGED <<lockVars, intents, backVars, used, forgotten, sweepVars,
                   restarts>>

\* A bug: an early return on a failed stop
FinishStopEarly(r) ==
    /\ At(r, "stopping")
    /\ Return(r)
    /\ UNCHANGED <<lockVars, rowVars, intents, backVars, used, forgotten,
                   sweepVars, restarts>>

\* the row is Ready again whether or not the backend stopped the container
FinishStop(r) ==
    /\ At(r, "stopping")
    /\ running' \in {running, FALSE}
    /\ IF pod # NoToken THEN SetStatus("Ready") ELSE UNCHANGED rowVars
    /\ Return(r)
    /\ UNCHANGED <<lockVars, intents, container, requested, created, used,
                   forgotten, sweepVars, restarts>>

EndRequest(r) ==
    /\ \/ Refuse(r)
       \/ RequestTimeout(r)
       \/ step[r] = "done" /\ ReleaseRequest(r)
    /\ To(r, "none")
    /\ UNCHANGED <<rowVars, intents, backVars, used, forgotten, token, retried,
                   attempts, sweepVars, restarts>>

RequestLocking(r) ==
    /\ RequestLock(r) \/ Admit(r)
    /\ UNCHANGED podVars

-----------------------------------------------------------------------------
(* Deletes: delete_pod and delete_pod_impl_async.                           *)

RequestDelete(d) ==
    /\ BeginDelete(d)
    /\ \E op \in {"wait", "background", "forget"} : To(d, op)
    /\ UNCHANGED <<rowVars, intents, backVars, used, forgotten, token, retried,
                   attempts, sweepVars, restarts>>

\* --forget: first the intents (removing them may fail half way) ...
ForgetIntents(d) ==
    /\ At(d, "forget")
    /\ \/ /\ intents' = {}
          /\ forgotten' = used
          /\ Continue(d, "forgetRow")
       \/ /\ intents' \in SUBSET intents
          /\ forgotten' = forgotten \cup (intents \ intents')
          /\ Return(d)
    /\ UNCHANGED <<lockVars, rowVars, backVars, used, sweepVars, restarts>>

\* ... then the row; the backend is not contacted
ForgetRow(d) ==
    /\ At(d, "forgetRow")
    /\ RemoveRow
    /\ Return(d)
    /\ UNCHANGED <<lockVars, intents, backVars, used, forgotten, sweepVars,
                   restarts>>

\* no row: nothing to do.  A host that cannot be resolved: an error, before the
\* status changes.  Kubernetes deletes inline whatever the caller asked for.
StartDelete(d) ==
    /\ \E op \in {"wait", "background"} :
        /\ At(d, op)
        /\ \/ Return(d) /\ UNCHANGED rowVars
           \/ /\ pod # NoToken
              /\ SetStatus("Deleting")
              /\ Continue(d, IF op = "wait" \/ Kubernetes THEN "removing" ELSE "retrying")
    /\ UNCHANGED <<lockVars, intents, backVars, used, forgotten, sweepVars,
                   restarts>>

\* the inline delete: one attempt, an error leaves the row Deleting
RemoveInline(d) ==
    /\ At(d, "removing")
    /\ \/ Removed /\ RemoveRow
       \/ NotRemoved /\ UNCHANGED rowVars
    /\ Return(d)
    /\ UNCHANGED <<lockVars, intents, used, forgotten, sweepVars, restarts>>

\* is there another delay in delays_secs
MoreAttempts(d) == attempts[d] + 1 < DeleteAttempts

\* the background task, which owns the guard: retry, then DeleteFailed
RemoveInBackground(d) ==
    /\ At(d, "retrying")
    /\ \/ Removed /\ RemoveRow /\ Return(d)
       \/ /\ NotRemoved
          /\ MoreAttempts(d)
          /\ attempts' = [attempts EXCEPT ![d] = @ + 1]
          /\ UNCHANGED <<rowVars, step, token, retried>>
       \/ /\ NotRemoved
          /\ ~MoreAttempts(d)
          /\ SetStatus("DeleteFailed")
          /\ Return(d)
    /\ UNCHANGED <<lockVars, intents, used, forgotten, sweepVars, restarts>>

\* A bug: the handler drops the guard while the background task is at work
EndDeleteEarly(d) ==
    /\ step[d] \in {"done", "retrying"}
    /\ DropGuard(d)
    /\ UNCHANGED podVars

EndDelete(d) ==
    /\ step[d] = "done"
    /\ DropGuard(d)
    /\ To(d, "none")
    /\ attempts' = [attempts EXCEPT ![d] = 0]
    /\ UNCHANGED <<rowVars, intents, backVars, used, forgotten, token, retried,
                   sweepVars, restarts>>

DeleteLocking(d) ==
    /\ DeleteLock(d) \/ ReleaseDelete(d)
    /\ UNCHANGED podVars

-----------------------------------------------------------------------------
(* The sweep: cleanup_pending_creations.                                    *)

\* pending_creations: a snapshot of the directory
Scan(c) ==
    /\ phase[c] = "idle"
    /\ scanned = {}
    /\ intents # {}
    /\ scanned' = intents
    /\ UNCHANGED <<lockVars, rowVars, intents, backVars, used, forgotten, opVars,
                   entry, restarts>>

\* an entry whose pod is busy is left for the next tick
SkipBusy(c) ==
    /\ phase[c] = "idle"
    /\ holder # NoOne
    /\ \E k \in scanned : scanned' = scanned \ {k}
    /\ UNCHANGED <<lockVars, rowVars, intents, backVars, used, forgotten, opVars,
                   entry, restarts>>

TryEntry(c) ==
    /\ CleanerTryLock(c)
    /\ \E k \in scanned :
        /\ scanned' = scanned \ {k}
        /\ entry' = [entry EXCEPT ![c] = k]
    /\ To(c, "sweep")
    /\ UNCHANGED <<rowVars, intents, backVars, used, forgotten, token, retried,
                   attempts, restarts>>

\* the pod's row was made by this creation; the bug ignores the row
NeverWanted(k) == FALSE

Wanted(k) == pod = k

\* the intent may have been removed since the scan: check it under the lease,
\* or, the bug, trust the scan
AlwaysPending(k) == TRUE

StillPending(k) == k \in intents

Judge(c) ==
    /\ At(c, "sweep")
    /\ IF StillPending(entry[c]) /\ ~Wanted(entry[c])
       THEN Continue(c, "sweeping")
       ELSE Return(c)
    /\ UNCHANGED <<lockVars, rowVars, intents, backVars, used, forgotten,
                   sweepVars, restarts>>

\* delete_creation_async lists all containers with the label, also stopped ones,
\* which the bug leaves out
ListRunning(k) == container = k /\ running

ListCreation(k) == container = k

\* after the backend's answer the intent stays: the request may still be acted
\* on, and dropping it is the bug
DropIntent(k) == intents' = intents \ {k}

KeepIntent(k) == UNCHANGED intents

\* delete_creation_async: removes what carries the label; errors are logged
DeleteCreation(c) ==
    /\ At(c, "sweeping")
    /\ UNCHANGED backVars \/ (ListCreation(entry[c]) /\ Removed)
    /\ KeepIntent(entry[c])
    /\ Return(c)
    /\ UNCHANGED <<lockVars, rowVars, used, forgotten, sweepVars, restarts>>

EndEntry(c) ==
    /\ \/ CleanerSkip(c)
       \/ step[c] = "done" /\ ReleaseCleaner(c)
    /\ To(c, "none")
    /\ entry' = [entry EXCEPT ![c] = NoToken]
    /\ UNCHANGED <<rowVars, intents, backVars, used, forgotten, token, retried,
                   attempts, scanned, restarts>>

CleanerLocking(c) ==
    /\ CleanerProceed(c)
    /\ UNCHANGED podVars

-----------------------------------------------------------------------------
(* The environment.                                                         *)

\* an answer reaches a startup that still waits for it
Awaits(t, k) == step[t] = "creating" /\ token[t] = k

\* The backend acts on a create request: the name must be free
BackendCreate ==
    /\ \E k \in requested :
        /\ requested' = requested \ {k}
        /\ IF container = NoToken
           THEN /\ container' = k
                /\ running' = Kubernetes
                /\ created' = created \cup {token[t] : t \in {u \in Startups : Awaits(u, k)}}
           ELSE UNCHANGED <<container, running, created>>
    /\ UNCHANGED <<lockVars, rowVars, intents, used, forgotten, opVars, sweepVars,
                   restarts>>

\* The request never reached the backend, or the backend refused it
BackendDrop ==
    /\ \E k \in requested : requested' = requested \ {k}
    /\ UNCHANGED <<lockVars, rowVars, intents, container, running, created, used,
                   forgotten, opVars, sweepVars, restarts>>

\* The container exits, or somebody removes it (a user, an eviction)
BackendLoses ==
    /\ Disturbed
    /\ container # NoToken
    /\ \/ Removed
       \/ running /\ running' = FALSE /\ UNCHANGED <<container, requested, created>>
    /\ UNCHANGED <<lockVars, rowVars, intents, used, forgotten, opVars, sweepVars,
                   restarts>>

\* delete_all_pods: the containers of all rows, without any lease; rows stay
DeleteAllPods ==
    /\ Disturbed
    /\ pod # NoToken
    /\ container # NoToken
    /\ Removed
    /\ UNCHANGED <<lockVars, rowVars, intents, used, forgotten, opVars, sweepVars,
                   restarts>>

\* The daemon dies and comes back: run_daemon makes new locks and keeps nothing
\* but the database and the intents
Restart ==
    /\ restarts < MaxRestarts
    /\ restarts' = restarts + 1
    /\ LockLost
    /\ step' = [a \in Actors |-> "none"]
    /\ token' = [t \in Startups |-> NoToken]
    /\ retried' = {}
    /\ attempts' = [d \in Deletes |-> 0]
    /\ scanned' = {}
    /\ entry' = [c \in Cleaners |-> NoToken]
    /\ UNCHANGED <<rowVars, intents, backVars, used, forgotten>>

FreshLock == ForPodFresh /\ UNCHANGED podVars

-----------------------------------------------------------------------------
StartupStep(t) ==
    \/ InspectExisting(t) \/ ForkIntoNew(t) \/ ForgetGonePod(t) \/ Reconnect(t)
    \/ Connect(t) \/ Recreate(t) \/ Replace(t) \/ Prepare(t) \/ WriteIntent(t)
    \/ SendCreate(t) \/ CreateAnswered(t) \/ StartContainer(t) \/ Setup(t)
    \/ RemoveBroken(t)

RequestStep(r) == BeginStop(r) \/ FinishStop(r)

DeleteStep(d) ==
    \/ ForgetIntents(d) \/ ForgetRow(d) \/ StartDelete(d) \/ RemoveInline(d)
    \/ RemoveInBackground(d)

CleanerStep(c) == Judge(c) \/ DeleteCreation(c)

Next ==
    \/ \E t \in Startups : \/ SpawnOperation(t) \/ StartupLocking(t)
                           \/ StartupStep(t) \/ EndStartup(t)
    \/ \E r \in Requests : \/ QueueRequest(r) \/ RequestLocking(r)
                           \/ RequestStep(r) \/ EndRequest(r)
    \/ \E d \in Deletes : \/ RequestDelete(d) \/ DeleteLocking(d)
                          \/ DeleteStep(d) \/ EndDelete(d)
    \/ \E c \in Cleaners : \/ Scan(c) \/ SkipBusy(c) \/ TryEntry(c)
                           \/ CleanerLocking(c) \/ CleanerStep(c) \/ EndEntry(c)
    \/ BackendCreate \/ BackendDrop \/ BackendLoses \/ DeleteAllPods
    \/ Restart \/ FreshLock

Spec == Init /\ [][Next]_vars

(* Fairness of the sweep.  Its task ticks every 30 s, works through the whole *)
(* scan and is never cancelled; a backend that can be reached again and again *)
(* carries out a removal in the end.  Nothing is assumed of the other actors. *)
SweepFairness ==
    \A c \in Cleaners :
        /\ WF_vars(Scan(c) \/ SkipBusy(c) \/ TryEntry(c))
        /\ WF_vars(CleanerLocking(c) \/ CleanerStep(c) \/ EndEntry(c))
        /\ SF_vars(DeleteCreation(c) /\ container' # container)

FairSpec == Spec /\ SweepFairness

-----------------------------------------------------------------------------
(* Properties.                                                              *)

\* creation k has a container, or may still get one
Outstanding(k) == container = k \/ k \in requested

\* No backend resource that runs, or may come to run, escapes the daemon:
\* whatever a creation left on the backend, or may still leave there after a
\* cancelled request or a crash, belongs to the pod's row, has an intent file
\* that makes the sweep look for it, or was left alone on purpose by `delete
\* --forget`.  What can be left over is the object of a Kubernetes pod that has
\* exited: get_pod_status calls it Gone, and forget_gone_pod drops its row only.
NoOrphan ==
    \A k \in Tokens : Outstanding(k) =>
        \/ pod = k \/ k \in intents \/ k \in forgotten
        \/ k \notin requested /\ Exited

\* The step is one of the sweep's own backend deletes
SweepStep == \E c \in Cleaners : step[c] = "sweeping" /\ step'[c] = "done"

\* The sweep never removes the container its pod's row was created with, also
\* when it works from a stale directory scan.
SweepSparesWanted ==
    [][SweepStep /\ pod # NoToken /\ container = pod => container' = container]_vars

\* Resources that `delete --forget` decided to leave alone stay: no later sweep
\* removes them, though its scan may predate the forget and the container may
\* appear after it.
SweepSparesForgotten ==
    [][SweepStep /\ container \in forgotten => container' = container]_vars

\* While a delete is removing the pod, its row changes only by that delete's
\* own steps: no cancelled startup, stop or reconnect writes a status over it.
DeleteOwnsRow ==
    [][\A d \in Deletes :
        step[d] \in {"removing", "retrying"} /\ rowVars' # rowVars
            => step'[d] = "done"]_vars

\* Unless the daemon died, a row says Stopping only while a stop is at work:
\* also a failed backend stop gives the status back.
StoppingHasStopper ==
    pod # NoToken /\ status = "Stopping" /\ restarts = 0
        => \E r \in Requests : step[r] = "stopping"

\* The comment on the sweep says of requests that finish late: "The identity
\* label protects subsequent pods."  It would mean that the sweep never takes
\* the running container from under a later pod of that name that is Ready.  (On
\* Docker only the daemon starts these containers, so it did so for that pod.)
LabelProtectsSubsequentPods ==
    [][SweepStep /\ pod # NoToken /\ status = "Ready" /\ running
            => container' = container]_vars

\* The pod is left alone: no operation on it is under way
LeftAlone == \A a \in Startups \cup Requests \cup Deletes : phase[a] = "idle"

\* Once users leave the pod alone, a container of an abandoned creation is swept
\* in the end, however late it appeared and however often a sweep failed,
\* unless a `delete --forget` decides otherwise.
OrphanIsSwept ==
    <>[]LeftAlone =>
        \A k \in Tokens :
            container = k /\ k \in intents /\ pod # k
                ~> container # k \/ k \in forgotten
=============================================================================
