-------------------------- MODULE PodLifecycleLock --------------------------
(***************************************************************************)
(* The lifecycle lock of ONE pod: `PodLifecycleLock` in daemon.rs.         *)
(*                                                                         *)
(* Every operation that changes a pod goes through this lock.  Four kinds  *)
(* of actor use it:                                                        *)
(*   Startups  enter, recreate, fork, connect: tokio tasks made by `spawn`.*)
(*             They register themselves, can be aborted, and wait at most  *)
(*             30 s for the lease;                                         *)
(*   Requests  stop and subscribe: `queue()?.acquire()` on a blocking      *)
(*             thread, which also waits at most 30 s;                      *)
(*   Deletes   delete and forget: `acquire_for_delete`, which cancels every*)
(*             registered startup, waits for each to be gone and then waits*)
(*             for the lease without a bound;                              *)
(*   Cleaners  the sweep of unconfirmed creations, which only try_locks.   *)
(*                                                                         *)
(* Granularity.  One action is what one actor does between two points at   *)
(* which others can see or interrupt it: a critical section of the `state` *)
(* mutex, an operation on the lease, or the drop of a future or guard.  A  *)
(* try_lock that fails is followed by lock_owned; that pair is one action, *)
(* since a lease freed in between is simply taken by the second call.      *)
(* Abort handles are set in BeginDelete itself: an aborted startup may     *)
(* still take steps here (tokio stops it only at its next await), which    *)
(* covers the moment between the drain and the call of abort().            *)
(*                                                                         *)
(* Simplifications.  `host` and the operation names only feed messages.    *)
(* A task id is a member of Startups; it is used again only after its      *)
(* completion ran, and the code's fresh ids cannot be told apart from that.*)
(***************************************************************************)
EXTENDS Naturals, Sequences, FiniteSets

CONSTANTS Startups, Requests, Deletes, Cleaners,
          NoOne,          \* "no actor": Option::None
          MaxGeneration   \* bound on the number of deletes in a behaviour

Actors == Startups \cup Requests \cup Deletes \cup Cleaners

\* The four kinds of actor are different things, and None is no actor.
ASSUME ActorsAssumption ==
    /\ Startups \cap Requests = {}
    /\ Startups \cap Deletes = {}
    /\ Startups \cap Cleaners = {}
    /\ Requests \cap Deletes = {}
    /\ Requests \cap Cleaners = {}
    /\ Deletes \cap Cleaners = {}
    /\ NoOne \notin Actors

\* The accounting of `deleting` counts deletes, of which there are finitely many.
ASSUME FiniteAssumption ==
    /\ IsFiniteSet(Deletes)
    /\ MaxGeneration \in Nat

VARIABLES
    generation,   \* PodLifecycleState.generation
    deleting,     \* PodLifecycleState.deleting
    tasks,        \* keys of PodLifecycleState.tasks: the registered startups
    owner,        \* PodLifecycleState.owner
    holder,       \* who owns the permit of the lease (a tokio Mutex)
    waiters,      \* FIFO queue of the lease
    phase,        \* where each actor is
    aborted,      \* startups whose AbortHandle::abort() was called
    cancelled,    \* per delete: the drained startups it waits for
    captured,     \* per request: PodLifecycleRequest.generation
    overtaken     \* history: requests with a delete begun since queue()

leaseVars == <<holder, waiters>>
stateVars == <<generation, deleting, tasks, owner>>
lockVars  == <<generation, deleting, tasks, owner, holder, waiters, phase,
               aborted, cancelled, captured, overtaken>>

Phases == {"idle", "spawned", "queued", "draining", "waiting", "leased",
           "running", "holding", "releasing", "completing"}

LockTypeOK ==
    /\ generation \in Nat
    /\ deleting \in Nat
    /\ tasks \subseteq Startups
    /\ owner \in Startups \cup {NoOne}
    /\ holder \in Actors \cup {NoOne}
    /\ waiters \in Seq(Actors)
    /\ phase \in [Actors -> Phases]
    /\ aborted \subseteq Startups
    /\ cancelled \in [Deletes -> SUBSET Startups]
    /\ captured \in [Requests -> Nat]
    /\ overtaken \subseteq Requests

LockInit ==
    /\ generation = 0
    /\ deleting = 0
    /\ tasks = {}
    /\ owner = NoOne
    /\ holder = NoOne
    /\ waiters = <<>>
    /\ phase = [a \in Actors |-> "idle"]
    /\ aborted = {}
    /\ cancelled = [d \in Deletes |-> {}]
    /\ captured = [r \in Requests |-> 0]
    /\ overtaken = {}

Goto(a, p) == phase' = [phase EXCEPT ![a] = p]

-----------------------------------------------------------------------------
(* The lease: a tokio::sync::Mutex.  It is fair: a release hands the permit *)
(* to the first waiter, so a free lease has no waiters, and a waiter that   *)
(* is dropped gives back a permit that was already handed to it.            *)

\* try_lock_owned succeeds, or lock_owned finds the lease free
TakeLease(a) ==
    /\ holder = NoOne
    /\ holder' = a
    /\ UNCHANGED waiters

\* lock_owned has to wait
JoinQueue(a) ==
    /\ holder # NoOne
    /\ waiters' = Append(waiters, a)
    /\ UNCHANGED holder

\* Drop of the OwnedMutexGuard, or of a waiter that owned the permit
PassLease ==
    IF waiters = <<>>
    THEN holder' = NoOne /\ UNCHANGED waiters
    ELSE holder' = Head(waiters) /\ waiters' = Tail(waiters)

\* The queue without its i-th waiter
Without(s, i) == SubSeq(s, 1, i - 1) \o SubSeq(s, i + 1, Len(s))

\* Drop of the future of lock_owned
LeaveQueue(a) ==
    IF holder = a
    THEN PassLease
    ELSE \E i \in 1..Len(waiters) :
            /\ waiters[i] = a
            /\ waiters' = Without(waiters, i)
            /\ UNCHANGED holder

\* The first poll of lock_owned: with the lease the actor goes to `acquired`
LockOwned(a, acquired) ==
    \/ TakeLease(a) /\ Goto(a, acquired)
    \/ JoinQueue(a) /\ Goto(a, "waiting")

\* A waiter is polled again after the permit was handed to it
Granted(a, acquired) ==
    /\ phase[a] = "waiting"
    /\ holder = a
    /\ Goto(a, acquired)
    /\ UNCHANGED leaseVars

-----------------------------------------------------------------------------
(* Startups: `spawn` and the task it makes.                                 *)

\* spawn: the task is registered, ...
SpawnUnchecked(t) ==
    /\ phase[t] = "idle"
    /\ tasks' = tasks \cup {t}
    /\ Goto(t, "spawned")
    /\ UNCHANGED <<generation, deleting, owner, leaseVars, aborted, cancelled,
                   captured, overtaken>>

\* ... unless a delete is active
Spawn(t) ==
    /\ deleting = 0
    /\ SpawnUnchecked(t)

\* first poll of the task, up to its first await or past the lease
StartupLock(t) ==
    /\ \/ phase[t] = "spawned" /\ LockOwned(t, "leased")
       \/ Granted(t, "leased")
    /\ UNCHANGED <<stateVars, aborted, cancelled, captured, overtaken>>

\* `owner = Some(id)`, then the operation is polled
SetOwner(t) ==
    /\ phase[t] = "leased"
    /\ owner' = t
    /\ Goto(t, "running")
    /\ UNCHANGED <<generation, deleting, tasks, leaseVars, aborted, cancelled,
                   captured, overtaken>>

\* The operation returned.  Locals drop in reverse order: first the lease, or,
\* were they declared the other way round, the completion ...
FinishKeepingLease(t) ==
    /\ phase[t] = "running"
    /\ Goto(t, "completing")
    /\ UNCHANGED <<stateVars, leaseVars, aborted, cancelled, captured, overtaken>>

FinishOperation(t) ==
    /\ phase[t] = "running"
    /\ PassLease
    /\ Goto(t, "completing")
    /\ UNCHANGED <<stateVars, aborted, cancelled, captured, overtaken>>

\* control::bounded gives up on the lease ("pod is busy").  The permit may be
\* handed over between the last poll and the drop of the future.
StartupTimeout(t) ==
    /\ phase[t] = "waiting"
    /\ LeaveQueue(t)
    /\ Goto(t, "completing")
    /\ UNCHANGED <<stateVars, aborted, cancelled, captured, overtaken>>

\* tokio drops an aborted task at an await (or before its first poll).  There
\* is no await between taking the lease and setting the owner.
LoseLease(t) ==
    CASE phase[t] = "spawned" -> UNCHANGED leaseVars
      [] phase[t] = "waiting" -> LeaveQueue(t)
      [] phase[t] = "running" -> PassLease

CancelStartup(t) ==
    /\ t \in aborted
    /\ phase[t] \in {"spawned", "waiting", "running"}
    /\ LoseLease(t)
    /\ Goto(t, "completing")
    /\ UNCHANGED <<stateVars, aborted, cancelled, captured, overtaken>>

\* ... then StartupCompletion: unregister, clear our own ownership, signal
\* `done` (phase idle).  Another startup may own the lease by now.
ClearOwner(t) == owner' = IF owner = t THEN NoOne ELSE owner

Complete(t) ==
    /\ phase[t] = "completing"
    /\ tasks' = tasks \ {t}
    /\ ClearOwner(t)
    /\ aborted' = aborted \ {t}
    /\ Goto(t, "idle")
    /\ UNCHANGED <<generation, deleting, leaseVars, cancelled, captured,
                   overtaken>>

-----------------------------------------------------------------------------
(* Requests: queue() and acquire().                                         *)

Queue(r) ==
    /\ phase[r] = "idle"
    /\ deleting = 0
    /\ captured' = [captured EXCEPT ![r] = generation]
    /\ Goto(r, "queued")
    /\ UNCHANGED <<stateVars, leaseVars, aborted, cancelled, overtaken>>

RequestLock(r) ==
    /\ \/ phase[r] = "queued" /\ LockOwned(r, "leased")
       \/ Granted(r, "leased")
    /\ UNCHANGED <<stateVars, aborted, cancelled, captured, overtaken>>

\* acquire(self) consumes the request when it returns
Consumed(r) ==
    /\ captured' = [captured EXCEPT ![r] = 0]
    /\ overtaken' = overtaken \ {r}

\* acquire() checks under the lease that no delete has begun since queue()
Admit(r) ==
    /\ phase[r] = "leased"
    /\ generation = captured[r] /\ deleting = 0
    /\ Goto(r, "holding")
    /\ Consumed(r)
    /\ UNCHANGED <<stateVars, leaseVars, aborted, cancelled>>

Refuse(r) ==
    /\ phase[r] = "leased"
    /\ ~(generation = captured[r] /\ deleting = 0)
    /\ PassLease
    /\ Goto(r, "idle")
    /\ Consumed(r)
    /\ UNCHANGED <<stateVars, aborted, cancelled>>

\* control::bounded around the wait.  Bugs: no bound, or its error ignored.
RequestNeverTimesOut(r) == FALSE

RequestIgnoresTimeout(r) ==
    /\ phase[r] = "waiting"
    /\ LeaveQueue(r)
    /\ Goto(r, "leased")
    /\ UNCHANGED <<stateVars, aborted, cancelled, captured, overtaken>>

RequestTimeout(r) ==
    /\ phase[r] = "waiting"
    /\ LeaveQueue(r)
    /\ Goto(r, "idle")
    /\ Consumed(r)
    /\ UNCHANGED <<stateVars, aborted, cancelled>>

\* Drop of a PodLifecycleGuard with deleting = false
ReleaseRequest(r) ==
    /\ phase[r] = "holding"
    /\ PassLease
    /\ Goto(r, "idle")
    /\ UNCHANGED <<stateVars, aborted, cancelled, captured, overtaken>>

-----------------------------------------------------------------------------
(* Deletes: acquire_for_delete and the drop of its guard.                   *)

\* Requests that called queue() and have not been admitted yet
PendingRequests == {r \in Requests : phase[r] \in {"queued", "waiting", "leased"}}

\* deleting and generation are bumped together; the bug bumps one of them
SupersedeSameGeneration(d) ==
    /\ deleting' = deleting + 1
    /\ UNCHANGED generation

Supersede(d) ==
    /\ deleting' = deleting + 1
    /\ generation' = generation + 1

\* task.abort.abort() for each drained task; the bug leaves them running
AbortNone(d) == UNCHANGED aborted

AbortDrained(d) == aborted' = aborted \cup tasks

\* One critical section blocks newcomers and drains the registered startups
BeginDelete(d) ==
    /\ phase[d] = "idle"
    /\ generation < MaxGeneration
    /\ Supersede(d)
    /\ cancelled' = [cancelled EXCEPT ![d] = tasks]
    /\ AbortDrained(d)
    /\ tasks' = {}
    /\ overtaken' = overtaken \cup PendingRequests
    /\ Goto(d, "draining")
    /\ UNCHANGED <<owner, leaseVars, captured>>

\* every drained startup signalled done, so ask for the lease
DeleteLock(d) ==
    /\ \/ /\ phase[d] = "draining"
          /\ \A t \in cancelled[d] : phase[t] = "idle"
          /\ LockOwned(d, "holding")
          /\ cancelled' = [cancelled EXCEPT ![d] = {}]
       \/ /\ Granted(d, "holding")
          /\ UNCHANGED cancelled
    /\ UNCHANGED <<stateVars, aborted, captured, overtaken>>

\* `deleting` counts deletes, it is not a flag
ClearDeleting == deleting' = 0

UncountDelete == deleting' = deleting - 1

\* PodLifecycleGuard::drop runs first, the lease field is dropped after it
DropGuard(d) ==
    /\ phase[d] = "holding"
    /\ UncountDelete
    /\ Goto(d, "releasing")
    /\ UNCHANGED <<generation, tasks, owner, leaseVars, aborted, cancelled,
                   captured, overtaken>>

ReleaseDelete(d) ==
    /\ phase[d] = "releasing"
    /\ PassLease
    /\ Goto(d, "idle")
    /\ UNCHANGED <<stateVars, aborted, cancelled, captured, overtaken>>

-----------------------------------------------------------------------------
(* Cleaners: one entry of cleanup_pending_creations.                        *)

CleanerTryLock(c) ==
    /\ phase[c] = "idle"
    /\ TakeLease(c)
    /\ Goto(c, "leased")
    /\ UNCHANGED <<stateVars, aborted, cancelled, captured, overtaken>>

\* `deleting != 0`: a delete is between its cancellations and its lease
CleanerSkip(c) ==
    /\ phase[c] = "leased"
    /\ deleting # 0
    /\ PassLease
    /\ Goto(c, "idle")
    /\ UNCHANGED <<stateVars, aborted, cancelled, captured, overtaken>>

CleanerProceed(c) ==
    /\ phase[c] = "leased"
    /\ deleting = 0
    /\ Goto(c, "holding")
    /\ UNCHANGED <<stateVars, leaseVars, aborted, cancelled, captured,
                   overtaken>>

ReleaseCleaner(c) ==
    /\ phase[c] = "holding"
    /\ PassLease
    /\ Goto(c, "idle")
    /\ UNCHANGED <<stateVars, aborted, cancelled, captured, overtaken>>

-----------------------------------------------------------------------------
\* for_pod: the map holds a Weak, so once nobody uses the lock the next user
\* gets a new one, whose generation starts at zero again.
ForPodFresh ==
    /\ \A a \in Actors : phase[a] = "idle"
    /\ generation # 0
    /\ generation' = 0
    /\ UNCHANGED <<deleting, tasks, owner, leaseVars, phase, aborted,
                   cancelled, captured, overtaken>>

\* The daemon's death, for modules that compose the lock with a crash: all of
\* this state is in memory and every actor lives in the daemon
LockLost ==
    /\ generation' = 0
    /\ deleting' = 0
    /\ tasks' = {}
    /\ owner' = NoOne
    /\ holder' = NoOne
    /\ waiters' = <<>>
    /\ phase' = [a \in Actors |-> "idle"]
    /\ aborted' = {}
    /\ cancelled' = [d \in Deletes |-> {}]
    /\ captured' = [r \in Requests |-> 0]
    /\ overtaken' = {}

StartupNext(t) ==
    \/ Spawn(t) \/ StartupLock(t) \/ SetOwner(t) \/ FinishOperation(t)
    \/ StartupTimeout(t) \/ CancelStartup(t) \/ Complete(t)

RequestNext(r) ==
    \/ Queue(r) \/ RequestLock(r) \/ Admit(r) \/ Refuse(r)
    \/ RequestTimeout(r) \/ ReleaseRequest(r)

DeleteNext(d) ==
    BeginDelete(d) \/ DeleteLock(d) \/ DropGuard(d) \/ ReleaseDelete(d)

CleanerNext(c) ==
    CleanerTryLock(c) \/ CleanerSkip(c) \/ CleanerProceed(c) \/ ReleaseCleaner(c)

LockNext ==
    \/ \E t \in Startups : StartupNext(t)
    \/ \E r \in Requests : RequestNext(r)
    \/ \E d \in Deletes : DeleteNext(d)
    \/ \E c \in Cleaners : CleanerNext(c)
    \/ ForPodFresh

LockSpec == LockInit /\ [][LockNext]_lockVars

(* Fairness.  The runtime polls woken tasks and drops aborted ones, threads *)
(* run, and timers fire.  Nothing makes a startup's operation end (it may   *)
(* hang in an image build), so FinishOperation is not fair.  Stop, delete   *)
(* and the sweep end once the backend command they run has exited, which is *)
(* assumed; nothing interrupts them.                                        *)
LockFairness ==
    /\ \A t \in Startups :
        WF_lockVars(StartupLock(t) \/ SetOwner(t) \/ StartupTimeout(t)
                    \/ CancelStartup(t) \/ Complete(t))
    /\ \A r \in Requests :
        WF_lockVars(RequestLock(r) \/ Admit(r) \/ Refuse(r)
                    \/ RequestTimeout(r) \/ ReleaseRequest(r))
    /\ \A d \in Deletes : WF_lockVars(DeleteLock(d) \/ DropGuard(d) \/ ReleaseDelete(d))
    /\ \A c \in Cleaners : WF_lockVars(CleanerSkip(c) \/ CleanerProceed(c) \/ ReleaseCleaner(c))

FairLockSpec == LockSpec /\ LockFairness

-----------------------------------------------------------------------------
(* Properties.                                                              *)

\* a is inside the region the lease protects
InCritical(a) == phase[a] \in {"leased", "running", "holding", "releasing"}

\* deletes between `deleting += 1` and the drop of their guard
ActiveDeletes == {d \in Deletes : phase[d] \in {"draining", "waiting", "holding"}}

\* At most one enter, stop, delete or sweep works on the pod at a time, through
\* hand-overs of the lease, timeouts of waiters and aborts of queued tasks.
MutualExclusion ==
    \A a, b \in Actors : InCritical(a) /\ InCritical(b) => a = b

\* The lease is never left with an actor that is gone: a waiter that timed out
\* or was aborted while the permit was on its way to it has passed it on, and
\* nobody who left is still in the queue.
LeaseNotStranded ==
    /\ holder # NoOne => InCritical(holder) \/ phase[holder] = "waiting"
    /\ \A i \in 1..Len(waiters) : phase[waiters[i]] = "waiting"

\* From the moment acquire_for_delete has drained the task table until its
\* guard is dropped, every startup still alive is one that a delete cancelled
\* and is still waiting for: none registers, and none escapes the drain.
DeleteFencesStartups ==
    ActiveDeletes # {} =>
        \A t \in Startups : phase[t] # "idle" =>
            \E d \in Deletes : phase[d] = "draining" /\ t \in cancelled[d]

\* The startup that runs is the one describe_owner names ("waiting for another
\* operation (...)"): the completion of an earlier startup, which runs after it
\* gave up the lease, does not erase the entry of its successor.
OwnerIsRunning ==
    \A t \in Startups : phase[t] = "running" => owner = t

\* A stop or subscribe that called queue() before a delete began is never
\* admitted after it, even when that delete has come and gone meanwhile.
NoOvertakenAdmission ==
    [][\A r \in Requests :
        phase[r] # "holding" /\ phase'[r] = "holding" => r \notin overtaken]_lockVars

\* While any delete is active, also when another one has just ended, nothing
\* new starts on the pod: no startup is spawned, no request is admitted and the
\* sweep does not proceed in the gap between the cancellation and the lease.
NothingStartsDuringDelete ==
    [][ActiveDeletes # {} =>
        /\ \A t \in Startups : phase[t] = "idle" => phase'[t] = "idle"
        /\ \A r \in Requests \cup Cleaners :
              phase[r] # "holding" => phase'[r] # "holding"]_lockVars

\* A delete gets the lease even if a startup hangs for ever in its operation:
\* cancelling does not depend on the operation ever returning.
DeleteAcquires ==
    \A d \in Deletes : phase[d] = "draining" ~> phase[d] = "holding"

\* A stop or subscribe is answered (admitted, refused or "pod is busy") even if
\* the operation that holds the lease hangs.
RequestAnswered ==
    \A r \in Requests : phase[r] = "queued" ~> phase[r] \in {"holding", "idle"}
=============================================================================
