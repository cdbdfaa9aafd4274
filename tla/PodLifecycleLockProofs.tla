----------------------- MODULE PodLifecycleLockProofs -----------------------
(***************************************************************************)
(* The safety properties of PodLifecycleLock, for any sets of actors.      *)
(*                                                                         *)
(* LockInv is inductive.  Each of its parts says what the code relies on   *)
(* without checking it:                                                    *)
(*   LeaseInv   who works on the pod holds the lease, and the queue holds  *)
(*              every waiter once, and nobody who is not waiting;          *)
(*   OwnerInv   a running startup is the recorded owner;                   *)
(*   DeleteInv  `deleting` counts the active deletes, the task table is    *)
(*              empty while there is one, and a live startup is registered *)
(*              or awaited by the delete that drained it;                  *)
(*   RequestInv what a queued request captured is not ahead of the         *)
(*              generation, and is behind it once a delete has begun.      *)
(***************************************************************************)
EXTENDS PodLifecycleLock, FiniteSetTheorems, TLAPS

LeaseInv ==
    /\ \A a \in Actors : InCritical(a) => holder = a
    /\ holder # NoOne => InCritical(holder) \/ phase[holder] = "waiting"
    /\ \A i \in 1..Len(waiters) : phase[waiters[i]] = "waiting" /\ waiters[i] # holder
    /\ \A i, j \in 1..Len(waiters) : waiters[i] = waiters[j] => i = j

OwnerInv == OwnerIsRunning

DeleteInv ==
    /\ deleting = Cardinality(ActiveDeletes)
    /\ ActiveDeletes # {} => tasks = {}
    /\ \A t \in Startups : phase[t] # "idle" =>
          t \in tasks \/ \E d \in Deletes : phase[d] = "draining" /\ t \in cancelled[d]

RequestInv ==
    \A r \in Requests :
        /\ r \in PendingRequests => captured[r] <= generation
        /\ r \in overtaken => r \in PendingRequests /\ captured[r] < generation

LockInv == LockTypeOK /\ LeaseInv /\ OwnerInv /\ DeleteInv /\ RequestInv

-----------------------------------------------------------------------------
(* Sequences: what the queue operations do.                                 *)

\* Removing the element at i shifts the later ones down by one.
LEMMA WithoutElements ==
    ASSUME NEW S, NEW s \in Seq(S), NEW i \in 1..Len(s)
    PROVE  /\ Without(s, i) \in Seq(S)
           /\ Len(Without(s, i)) = Len(s) - 1
           /\ \A j \in 1..(Len(s) - 1) :
                Without(s, i)[j] = IF j < i THEN s[j] ELSE s[j + 1]
<1> DEFINE front == SubSeq(s, 1, i - 1)
           back  == SubSeq(s, i + 1, Len(s))
<1>1. /\ front \in Seq(S)
      /\ Len(front) = i - 1
      /\ \A j \in 1..(i - 1) : front[j] = s[j]
  OBVIOUS
<1>2. /\ back \in Seq(S)
      /\ Len(back) = Len(s) - i
      /\ \A j \in 1..(Len(s) - i) : back[j] = s[j + i]
  OBVIOUS
<1>3. Without(s, i) = front \o back
  BY Zenon DEF Without
<1> HIDE DEF front, back
<1>4. /\ front \o back \in Seq(S)
      /\ Len(front \o back) = Len(front) + Len(back)
      /\ \A j \in 1..(Len(front) + Len(back)) :
            (front \o back)[j] = IF j <= Len(front) THEN front[j]
                                ELSE back[j - Len(front)]
  <2>1. front \in Seq(S) /\ back \in Seq(S)  BY <1>1, <1>2, Zenon
  <2> QED BY <2>1
<1>5. Len(s) \in Nat
  OBVIOUS
<1>6. ASSUME NEW j \in 1..(Len(s) - 1)
      PROVE  (front \o back)[j] = IF j < i THEN s[j] ELSE s[j + 1]
  <2>1. CASE j < i
    BY <1>1, <1>2, <1>4, <1>5, <2>1
  <2>2. CASE ~(j < i)
    <3>1. j - (i - 1) \in 1..(Len(s) - i) /\ j - (i - 1) + i = j + 1
      BY <1>5, <2>2
    <3>2. (front \o back)[j] = back[j - (i - 1)]
      BY <1>1, <1>2, <1>4, <1>5, <2>2, SMTT(30)
    <3>3. back[j - (i - 1)] = s[j + 1]
      BY <1>2, <3>1, Zenon
    <3> QED
      BY <2>2, <3>2, <3>3, Zenon
  <2> QED
    BY <2>1, <2>2, Zenon
<1> QED
  BY <1>1, <1>2, <1>3, <1>4, <1>5, <1>6, SMTT(30)

\* Tail shifts everything down by one.
LEMMA TailElements ==
    ASSUME NEW S, NEW s \in Seq(S), s # << >>
    PROVE  /\ Head(s) \in S
           /\ Head(s) = s[1]
           /\ 1 \in 1..Len(s)
           /\ Tail(s) \in Seq(S)
           /\ Len(Tail(s)) = Len(s) - 1
           /\ \A j \in 1..(Len(s) - 1) : Tail(s)[j] = s[j + 1]
OBVIOUS

-----------------------------------------------------------------------------
(* The lease: each way it changes hands preserves LeaseInv.                  *)

CriticalPhases == {"leased", "running", "holding", "releasing"}

\* The free lease is taken.
LEMMA TakeLeaseInv ==
    ASSUME LockTypeOK, LeaseInv, NEW a \in Actors, NEW p \in CriticalPhases,
           phase[a] # "waiting", TakeLease(a), Goto(a, p)
    PROVE  LeaseInv'
<1>1. \A b \in Actors : phase'[b] = IF b = a THEN p ELSE phase[b]
  BY Zenon DEF LockTypeOK, Goto
<1>2. \A i \in 1..Len(waiters) : waiters[i] \in Actors
  BY DEF LockTypeOK
<1>3. \A b \in Actors : ~InCritical(b)
  BY ActorsAssumption, Zenon DEF LeaseInv, TakeLease
<1> QED
  BY <1>1, <1>2, <1>3 DEF LeaseInv, TakeLease, InCritical, CriticalPhases

\* The actor joins the queue of a lease that somebody else holds.
LEMMA JoinQueueInv ==
    ASSUME LockTypeOK, LeaseInv, NEW a \in Actors, ~InCritical(a),
           phase[a] # "waiting", JoinQueue(a), Goto(a, "waiting")
    PROVE  LeaseInv'
<1>1. \A b \in Actors : phase'[b] = IF b = a THEN "waiting" ELSE phase[b]
  BY Zenon DEF LockTypeOK, Goto
<1>2. \A i \in 1..Len(waiters) : waiters[i] \in Actors /\ waiters[i] # a
  BY DEF LockTypeOK, LeaseInv
<1>3. holder \in Actors /\ holder # a /\ holder' = holder
  BY Zenon DEF LockTypeOK, LeaseInv, JoinQueue
<1>4. /\ Len(waiters) \in Nat
      /\ Len(waiters') = Len(waiters) + 1
      /\ \A i \in 1..Len(waiters) : waiters'[i] = waiters[i]
      /\ waiters'[Len(waiters) + 1] = a
  BY DEF LockTypeOK, JoinQueue
<1>5. \A i \in 1..Len(waiters') : i \in 1..Len(waiters) \/ i = Len(waiters) + 1
  BY <1>4
<1>6. \A b \in Actors : InCritical(b)' => holder' = b
  BY <1>1, <1>3, Zenon DEF LeaseInv, InCritical
<1>7. InCritical(holder)' \/ phase'[holder'] = "waiting"
  BY <1>1, <1>3, Zenon DEF LeaseInv, InCritical, JoinQueue
<1>8. \A i \in 1..Len(waiters') : phase'[waiters'[i]] = "waiting" /\ waiters'[i] # holder'
  BY <1>1, <1>2, <1>3, <1>4, <1>5 DEF LeaseInv
<1>9. \A i, j \in 1..Len(waiters') : waiters'[i] = waiters'[j] => i = j
  BY <1>2, <1>4, <1>5 DEF LeaseInv
<1> QED
  BY <1>3, <1>6, <1>7, <1>8, <1>9, Zenon DEF LeaseInv, InCritical

\* A step that neither touches the lease nor enters, leaves or joins.
LEMMA StayInv ==
    ASSUME LockTypeOK, LeaseInv, NEW a \in Actors, NEW p,
           UNCHANGED leaseVars, Goto(a, p), p # "waiting", phase[a] # "waiting",
           p \in CriticalPhases <=> InCritical(a)
    PROVE  LeaseInv'
<1>1. \A b \in Actors : phase'[b] = IF b = a THEN p ELSE phase[b]
  BY Zenon DEF LockTypeOK, Goto
<1>2. \A i \in 1..Len(waiters) : waiters[i] \in Actors
  BY DEF LockTypeOK
<1> QED
  BY <1>1, <1>2, ActorsAssumption, Zenon DEF LockTypeOK, LeaseInv, InCritical, CriticalPhases,
     leaseVars

\* A waiter finds that it has the lease.
LEMMA GrantedInv ==
    ASSUME LockTypeOK, LeaseInv, NEW a \in Actors, NEW p \in CriticalPhases,
           Granted(a, p)
    PROVE  LeaseInv'
<1>1. \A b \in Actors : phase'[b] = IF b = a THEN p ELSE phase[b]
  BY Zenon DEF LockTypeOK, Granted, Goto
<1>2. \A i \in 1..Len(waiters) : waiters[i] \in Actors /\ waiters[i] # a
  BY DEF LockTypeOK, LeaseInv, Granted
<1> QED
  BY <1>1, <1>2, Zenon DEF LeaseInv, Granted, InCritical, CriticalPhases, leaseVars

\* The holder gives the lease up; the first waiter gets it.
LEMMA PassLeaseInv ==
    ASSUME LockTypeOK, LeaseInv, NEW a \in Actors, NEW p, holder = a,
           PassLease, Goto(a, p), p # "waiting", p \notin CriticalPhases
    PROVE  LeaseInv'
<1>1. \A b \in Actors : phase'[b] = IF b = a THEN p ELSE phase[b]
  BY Zenon DEF LockTypeOK, Goto
<1>2. \A b \in Actors : ~InCritical(b)'
  BY <1>1, Zenon DEF LeaseInv, InCritical, CriticalPhases
<1>3. CASE waiters = << >>
  BY <1>2, <1>3 DEF LeaseInv, PassLease, InCritical
<1>4. CASE waiters # << >>
  <2> USE DEF LockTypeOK
  <2>1. \A i \in 1..Len(waiters) : waiters[i] \in Actors /\ waiters[i] # a
    BY DEF LeaseInv
  <2>2. /\ holder' = waiters[1] /\ 1 \in 1..Len(waiters)
        /\ Len(waiters) \in Nat
        /\ Len(waiters') = Len(waiters) - 1
        /\ \A j \in 1..(Len(waiters) - 1) : waiters'[j] = waiters[j + 1]
    <3>1. holder' = Head(waiters) /\ waiters' = Tail(waiters)  BY <1>4, Zenon DEF PassLease
    <3>2. waiters \in Seq(Actors) /\ Len(waiters) \in Nat  OBVIOUS
    <3> HIDE DEF LockTypeOK
    <3> QED BY <1>4, <3>1, <3>2, TailElements, Zenon
  <2>3. phase'[holder'] = "waiting"
    BY <1>1, <2>1, <2>2, Zenon DEF LeaseInv
  <2>4. \A j \in 1..Len(waiters') : j + 1 \in 1..Len(waiters) /\ j + 1 # 1
    BY <2>2
  <2>5. \A i \in 1..Len(waiters') : phase'[waiters'[i]] = "waiting" /\ waiters'[i] # holder'
    BY <1>1, <2>1, <2>2, <2>4, SMTT(60) DEF LeaseInv
  <2>6. \A i, j \in 1..Len(waiters') : waiters'[i] = waiters'[j] => i = j
    <3> TAKE i, j \in 1..Len(waiters')
    <3> HAVE waiters'[i] = waiters'[j]
    <3>1. i + 1 = j + 1
      BY <2>2, <2>4, SMTT(60) DEF LeaseInv
    <3> QED
      BY <2>2, <3>1
  <2> QED
    BY <1>2, <2>3, <2>5, <2>6, Zenon DEF LeaseInv, InCritical
<1> QED
  BY <1>3, <1>4, Zenon

\* A waiter is dropped, before or after the lease was handed to it.
LEMMA LeaveQueueInv ==
    ASSUME LockTypeOK, LeaseInv, NEW a \in Actors, NEW p, phase[a] = "waiting",
           LeaveQueue(a), Goto(a, p), p # "waiting", p \notin CriticalPhases
    PROVE  LeaseInv'
<1>1. CASE holder = a
  BY <1>1, PassLeaseInv, Zenon DEF LeaveQueue
<1>2. CASE holder # a
  <2> USE DEF LockTypeOK
  <2>1. \A b \in Actors : phase'[b] = IF b = a THEN p ELSE phase[b]
    BY Zenon DEF Goto
  <2>2. PICK i \in 1..Len(waiters) :
            waiters[i] = a /\ waiters' = Without(waiters, i) /\ holder' = holder
    BY <1>2, Zenon DEF LeaveQueue
  <2>3. /\ Len(waiters) \in Nat
        /\ Len(waiters') = Len(waiters) - 1
        /\ \A j \in 1..(Len(waiters) - 1) :
              waiters'[j] = IF j < i THEN waiters[j] ELSE waiters[j + 1]
    <3>1. waiters \in Seq(Actors) /\ Len(waiters) \in Nat  OBVIOUS
    <3> HIDE DEF LockTypeOK
    <3> QED BY <2>2, <3>1, WithoutElements, Zenon
  <2> DEFINE old(j) == IF j < i THEN j ELSE j + 1
  <2>4. \A j \in 1..Len(waiters') :
            old(j) \in 1..Len(waiters) /\ old(j) # i /\ waiters'[j] = waiters[old(j)]
    BY <2>3
  <2>5. \A j \in 1..Len(waiters') : waiters'[j] \in Actors /\ waiters'[j] # a
    BY <2>2, <2>4 DEF LeaseInv
  <2>6. \A j \in 1..Len(waiters') : phase'[waiters'[j]] = "waiting" /\ waiters'[j] # holder'
    BY <2>1, <2>2, <2>4, <2>5 DEF LeaseInv
  <2>7. \A j, k \in 1..Len(waiters') : waiters'[j] = waiters'[k] => j = k
    <3> TAKE j, k \in 1..Len(waiters')
    <3> HAVE waiters'[j] = waiters'[k]
    <3>1. old(j) = old(k)
      BY <2>4 DEF LeaseInv
    <3> QED
      BY <2>3, <3>1
  <2>8. \A b \in Actors : InCritical(b)' => holder' = b
    BY <2>1, <2>2, Zenon DEF LeaseInv, InCritical, CriticalPhases
  <2>9. holder' # NoOne => InCritical(holder)' \/ phase'[holder'] = "waiting"
    BY <1>2, <2>1, <2>2, Zenon DEF LeaseInv, InCritical
  <2> QED
    BY <2>6, <2>7, <2>8, <2>9, Zenon DEF LeaseInv
<1> QED
  BY <1>1, <1>2, Zenon

\* The lease operations keep the types of the lease.
LEMMA LeaseTypes ==
    ASSUME LockTypeOK, NEW a \in Actors
    PROVE  /\ TakeLease(a) => holder' \in Actors \cup {NoOne} /\ waiters' \in Seq(Actors)
           /\ JoinQueue(a) => holder' \in Actors \cup {NoOne} /\ waiters' \in Seq(Actors)
           /\ PassLease => holder' \in Actors \cup {NoOne} /\ waiters' \in Seq(Actors)
           /\ LeaveQueue(a) => holder' \in Actors \cup {NoOne} /\ waiters' \in Seq(Actors)
<1> USE DEF LockTypeOK
<1>1. TakeLease(a) => holder' \in Actors \cup {NoOne} /\ waiters' \in Seq(Actors)
  BY Zenon DEF TakeLease
<1>2. JoinQueue(a) => holder' \in Actors \cup {NoOne} /\ waiters' \in Seq(Actors)
  BY DEF JoinQueue
<1>3. PassLease => holder' \in Actors \cup {NoOne} /\ waiters' \in Seq(Actors)
  BY TailElements, SMTT(60) DEF PassLease
<1>4. LeaveQueue(a) => holder' \in Actors \cup {NoOne} /\ waiters' \in Seq(Actors)
  BY <1>3, WithoutElements DEF LeaveQueue
<1> QED
  BY <1>1, <1>2, <1>3, <1>4, Zenon

-----------------------------------------------------------------------------
(* Each action preserves LockInv.  In every proof <1>1 is the lease and the  *)
(* types, the other steps are the parts the action can disturb.              *)

\* While no delete is active the counter is zero, and conversely.
LEMMA DeletingCounts ==
    ASSUME LockTypeOK, DeleteInv
    PROVE  /\ deleting = 0 <=> ActiveDeletes = {}
           /\ IsFiniteSet(ActiveDeletes)
BY FiniteAssumption, FS_Subset, FS_EmptySet, Zenon DEF DeleteInv, ActiveDeletes

\* A step of one startup, request or cleaner leaves the deletes alone.
LEMMA DeletesApart ==
    ASSUME LockTypeOK, NEW a \in Actors \ Deletes, NEW p, Goto(a, p)
    PROVE  /\ ActiveDeletes' = ActiveDeletes
           /\ \A d \in Deletes : phase'[d] = phase[d]
           /\ \A b \in Actors : phase'[b] = IF b = a THEN p ELSE phase[b]
BY Zenon DEF LockTypeOK, Goto, ActiveDeletes, Actors

\* A step of a startup, delete or cleaner leaves the pending requests alone.
LEMMA RequestsApart ==
    ASSUME LockTypeOK, RequestInv, NEW a \in Actors \ Requests, NEW p, Goto(a, p),
           UNCHANGED <<generation, captured, overtaken>>
    PROVE  RequestInv'
<1>1. PendingRequests' = PendingRequests
  BY Zenon DEF LockTypeOK, Goto, PendingRequests, Actors
<1> QED
  BY <1>1, Zenon DEF RequestInv

\* A startup takes its place among the actors.
LEMMA StartupKind ==
    ASSUME NEW t \in Startups
    PROVE  t \in Actors /\ t \in Actors \ Deletes /\ t \in Actors \ Requests
BY ActorsAssumption, Zenon DEF Actors

\* spawn registers the task it makes, and only while no delete is active.
LEMMA SpawnInv ==
    ASSUME LockInv, NEW t \in Startups, Spawn(t)
    PROVE  LockInv'
<1> USE StartupKind DEF LockInv, Spawn, SpawnUnchecked
<1>1. LockTypeOK'
  BY Zenon DEF LockTypeOK, Goto, Phases, leaseVars
<1>2. LeaseInv'
  BY StayInv, Zenon DEF CriticalPhases, InCritical
<1>3. OwnerInv'
  BY DeletesApart, Zenon DEF OwnerInv, OwnerIsRunning, Actors
<1>4. DeleteInv'
  <2>1. ActiveDeletes' = {}
    BY DeletesApart, DeletingCounts, Zenon
  <2> QED
    BY <2>1, DeletesApart, Zenon DEF DeleteInv, Actors
<1>5. RequestInv'
  BY RequestsApart, Zenon
<1> QED
  BY <1>1, <1>2, <1>3, <1>4, <1>5, Zenon

\* A startup that stays alive keeps DeleteInv if it leaves the tables alone.
LEMMA StartupKeepsDeleteInv ==
    ASSUME LockTypeOK, DeleteInv, NEW t \in Startups, NEW p, Goto(t, p),
           phase[t] # "idle", UNCHANGED <<deleting, tasks, cancelled>>
    PROVE  DeleteInv'
BY StartupKind, DeletesApart DEF DeleteInv, Actors

\* The first polls of the task: the lease, or a place in the queue.
LEMMA StartupLockInv ==
    ASSUME LockInv, NEW t \in Startups, StartupLock(t)
    PROVE  LockInv'
<1> USE StartupKind DEF LockInv, StartupLock, stateVars
<1>1. \E p \in {"leased", "waiting"} : Goto(t, p)
  BY Zenon DEF LockOwned, Granted
<1>2. PICK p \in {"leased", "waiting"} : Goto(t, p)
  BY <1>1, Zenon
<1>3. LockTypeOK'
  <2>1. holder' \in Actors \cup {NoOne} /\ waiters' \in Seq(Actors)
    BY LeaseTypes, Zenon DEF LockOwned, Granted, LockTypeOK, leaseVars
  <2> QED
    BY <1>2, <2>1, Zenon DEF LockTypeOK, Goto, Phases
<1>4. LeaseInv'
  BY TakeLeaseInv, JoinQueueInv, GrantedInv, Zenon DEF CriticalPhases, InCritical, LockOwned
<1>5. OwnerInv'
  BY <1>2, DeletesApart, Zenon DEF OwnerInv, OwnerIsRunning, Actors
<1>6. DeleteInv'
  <2>1. phase[t] # "idle"
    BY Zenon DEF Granted
  <2> QED
    BY <1>2, <2>1, StartupKeepsDeleteInv, Zenon
<1>7. RequestInv'
  BY <1>2, RequestsApart, Zenon
<1> QED
  BY <1>3, <1>4, <1>5, <1>6, <1>7, Zenon

\* The owner is recorded under the lease, so nobody else is running.
LEMMA SetOwnerInv ==
    ASSUME LockInv, NEW t \in Startups, SetOwner(t)
    PROVE  LockInv'
<1> USE StartupKind DEF LockInv, SetOwner
<1>1. LockTypeOK'
  BY Zenon DEF LockTypeOK, Goto, Phases, leaseVars
<1>2. LeaseInv'
  BY StayInv, Zenon DEF CriticalPhases, InCritical
<1>3. OwnerInv'
  <2>1. \A u \in Startups : phase[u] = "running" => u = t
    BY StartupKind, Zenon DEF LeaseInv, InCritical
  <2> QED
    BY <2>1, DeletesApart, Zenon DEF OwnerInv, OwnerIsRunning, Actors
<1>4. DeleteInv'
  BY StartupKeepsDeleteInv, Zenon
<1>5. RequestInv'
  BY RequestsApart, Zenon
<1> QED
  BY <1>1, <1>2, <1>3, <1>4, <1>5, Zenon

\* The task stops working: it returned, timed out or was cancelled.
LEMMA StopWorkingInv ==
    ASSUME LockInv, NEW t \in Startups,
           FinishOperation(t) \/ StartupTimeout(t) \/ CancelStartup(t)
    PROVE  LockInv'
<1> USE StartupKind DEF LockInv
<1>1. /\ Goto(t, "completing") /\ phase[t] # "idle"
      /\ UNCHANGED <<stateVars, aborted, cancelled, captured, overtaken>>
  BY Zenon DEF FinishOperation, StartupTimeout, CancelStartup
<1>2. \/ phase[t] = "running" /\ PassLease
      \/ phase[t] = "waiting" /\ LeaveQueue(t)
      \/ phase[t] = "spawned" /\ UNCHANGED leaseVars
  BY Zenon DEF FinishOperation, StartupTimeout, CancelStartup, LoseLease
<1>3. LockTypeOK'
  <2>1. holder' \in Actors \cup {NoOne} /\ waiters' \in Seq(Actors)
    BY <1>2, LeaseTypes, Zenon DEF LockTypeOK, leaseVars
  <2> QED
    BY <1>1, <2>1, Zenon DEF LockTypeOK, Goto, Phases, stateVars
<1>4. LeaseInv'
  <2>1. CASE phase[t] = "running" /\ PassLease
    <3>1. holder = t
      BY <2>1, Zenon DEF LeaseInv, InCritical
    <3> QED
      BY <1>1, <2>1, <3>1, PassLeaseInv, Zenon DEF CriticalPhases
  <2>2. CASE phase[t] = "waiting" /\ LeaveQueue(t)
    BY <1>1, <2>2, LeaveQueueInv, Zenon DEF CriticalPhases
  <2>3. CASE phase[t] = "spawned" /\ UNCHANGED leaseVars
    BY <1>1, <2>3, StayInv, Zenon DEF CriticalPhases, InCritical
  <2> QED
    BY <1>2, <2>1, <2>2, <2>3, Zenon
<1>5. OwnerInv'
  BY <1>1, DeletesApart, Zenon DEF OwnerInv, OwnerIsRunning, Actors, stateVars
<1>6. DeleteInv'
  BY <1>1, StartupKeepsDeleteInv, Zenon DEF stateVars
<1>7. RequestInv'
  BY <1>1, RequestsApart, Zenon DEF stateVars
<1> QED
  BY <1>3, <1>4, <1>5, <1>6, <1>7, Zenon

\* The completion clears the entry of its own task only.
LEMMA CompleteInv ==
    ASSUME LockInv, NEW t \in Startups, Complete(t)
    PROVE  LockInv'
<1> USE StartupKind DEF LockInv, Complete
<1>1. LockTypeOK'
  BY ZenonT(60) DEF LockTypeOK, Goto, Phases, leaseVars, ClearOwner
<1>2. LeaseInv'
  BY StayInv, Zenon DEF CriticalPhases, InCritical
<1>3. OwnerInv'
  BY DeletesApart, Zenon DEF OwnerInv, OwnerIsRunning, Actors, ClearOwner
<1>4. DeleteInv'
  BY DeletesApart DEF DeleteInv, Actors
<1>5. RequestInv'
  BY RequestsApart, Zenon
<1> QED
  BY <1>1, <1>2, <1>3, <1>4, <1>5, Zenon

-----------------------------------------------------------------------------
\* A request takes its place among the actors.
LEMMA RequestKind ==
    ASSUME NEW r \in Requests
    PROVE  r \in Actors /\ r \in Actors \ Deletes /\ r \notin Startups
BY ActorsAssumption, Zenon DEF Actors

\* An actor that is neither a startup nor a delete disturbs neither the owner
\* nor the tables.
LEMMA OthersKeep ==
    ASSUME LockInv, NEW a \in Actors \ (Startups \cup Deletes), NEW p, Goto(a, p),
           UNCHANGED <<deleting, tasks, owner, cancelled>>
    PROVE  OwnerInv' /\ DeleteInv'
<1>1. \A t \in Startups : t \in Actors /\ phase'[t] = phase[t]
  BY Zenon DEF LockInv, LockTypeOK, Goto, Actors
<1>2. OwnerInv'
  BY <1>1, Zenon DEF LockInv, OwnerInv, OwnerIsRunning
<1>3. DeleteInv'
  BY <1>1, DeletesApart, Zenon DEF LockInv, DeleteInv
<1> QED
  BY <1>2, <1>3, Zenon

\* queue(): the generation is captured.
LEMMA QueueInv ==
    ASSUME LockInv, NEW r \in Requests, Queue(r)
    PROVE  LockInv'
<1> USE RequestKind DEF LockInv, Queue, stateVars
<1>1. LockTypeOK'
  BY Zenon DEF LockTypeOK, Goto, Phases, leaseVars
<1>2. LeaseInv'
  BY StayInv, Zenon DEF CriticalPhases, InCritical
<1>3. OwnerInv' /\ DeleteInv'
  BY OthersKeep, Zenon
<1>4. RequestInv'
  <2>1. r \notin overtaken
    BY Zenon DEF RequestInv, PendingRequests
  <2> QED
    BY <2>1, DeletesApart DEF LockTypeOK, RequestInv, PendingRequests, Actors
<1> QED
  BY <1>1, <1>2, <1>3, <1>4, Zenon

\* acquire(): the lease, or a place in the queue.
LEMMA RequestLockInv ==
    ASSUME LockInv, NEW r \in Requests, RequestLock(r)
    PROVE  LockInv'
<1> USE RequestKind DEF LockInv, RequestLock, stateVars
<1>1. PICK p \in {"leased", "waiting"} : Goto(r, p)
  BY Zenon DEF LockOwned, Granted
<1>2. LockTypeOK'
  <2>1. holder' \in Actors \cup {NoOne} /\ waiters' \in Seq(Actors)
    BY LeaseTypes, Zenon DEF LockOwned, Granted, LockTypeOK, leaseVars
  <2> QED
    BY <1>1, <2>1, Zenon DEF LockTypeOK, Goto, Phases
<1>3. LeaseInv'
  BY TakeLeaseInv, JoinQueueInv, GrantedInv, Zenon DEF CriticalPhases, InCritical, LockOwned
<1>4. OwnerInv' /\ DeleteInv'
  BY <1>1, OthersKeep, Zenon
<1>5. RequestInv'
  <2>1. PendingRequests' = PendingRequests
    BY <1>1, DeletesApart, Zenon DEF PendingRequests, Actors, Granted
  <2> QED
    BY <2>1, Zenon DEF RequestInv
<1> QED
  BY <1>2, <1>3, <1>4, <1>5, Zenon

\* acquire() returns: the request is no longer pending.
LEMMA ConsumedInv ==
    ASSUME LockTypeOK, RequestInv, NEW r \in Requests, NEW p \in {"idle", "holding"},
           Goto(r, p), Consumed(r), UNCHANGED generation
    PROVE  RequestInv'
<1>1. PendingRequests' = PendingRequests \ {r}
  BY RequestKind, DeletesApart DEF PendingRequests, Actors
<1>2. \A q \in Requests \ {r} : captured'[q] = captured[q]
  BY Zenon DEF LockTypeOK, Consumed
<1> QED
  BY <1>1, <1>2, Zenon DEF RequestInv, Consumed

\* acquire() returns a guard, or gives the lease back.
LEMMA AnswerInv ==
    ASSUME LockInv, NEW r \in Requests, Admit(r) \/ Refuse(r) \/ RequestTimeout(r)
    PROVE  LockInv'
<1> USE RequestKind DEF LockInv
<1>1. /\ \E p \in {"idle", "holding"} : Goto(r, p)
      /\ Consumed(r)
      /\ UNCHANGED <<generation, deleting, tasks, owner, aborted, cancelled>>
  BY Zenon DEF Admit, Refuse, RequestTimeout, stateVars
<1>2. PICK p \in {"idle", "holding"} : Goto(r, p)
  BY <1>1, Zenon
<1>3. LockTypeOK'
  <2>1. holder' \in Actors \cup {NoOne} /\ waiters' \in Seq(Actors)
    BY LeaseTypes, Zenon DEF Admit, Refuse, RequestTimeout, LockTypeOK, leaseVars
  <2> QED
    BY <1>1, <1>2, <2>1, Zenon DEF LockTypeOK, Goto, Phases, Consumed
<1>4. LeaseInv'
  <2>1. CASE Admit(r)
    BY <2>1, StayInv, Zenon DEF Admit, CriticalPhases, InCritical
  <2>2. CASE Refuse(r)
    <3>1. holder = r
      BY <2>2, Zenon DEF Refuse, LeaseInv, InCritical
    <3> QED
      BY <2>2, <3>1, PassLeaseInv, Zenon DEF Refuse, CriticalPhases
  <2>3. CASE RequestTimeout(r)
    BY <2>3, LeaveQueueInv, Zenon DEF RequestTimeout, CriticalPhases
  <2> QED
    BY <2>1, <2>2, <2>3, Zenon
<1>5. OwnerInv' /\ DeleteInv'
  BY <1>1, <1>2, OthersKeep, Zenon
<1>6. RequestInv'
  BY <1>1, <1>2, ConsumedInv, Zenon
<1> QED
  BY <1>3, <1>4, <1>5, <1>6, Zenon

\* A guard that is not a delete's is dropped.
LEMMA ReleaseInv ==
    ASSUME LockInv, NEW a \in Actors \ (Startups \cup Deletes), InCritical(a),
           phase[a] = "holding" \/ a \in Cleaners, PassLease, Goto(a, "idle"),
           UNCHANGED <<stateVars, aborted, cancelled, captured, overtaken>>
    PROVE  LockInv'
<1> USE DEF LockInv, stateVars
<1>1. LockTypeOK'
  BY LeaseTypes, Zenon DEF LockTypeOK, Goto, Phases
<1>2. LeaseInv'
  BY PassLeaseInv, Zenon DEF LeaseInv, CriticalPhases
<1>3. OwnerInv' /\ DeleteInv'
  BY OthersKeep, Zenon
<1>4. RequestInv'
  <2>1. PendingRequests' = PendingRequests
    BY ActorsAssumption, DeletesApart, Zenon DEF PendingRequests, Actors
  <2> QED
    BY <2>1, Zenon DEF RequestInv
<1> QED
  BY <1>1, <1>2, <1>3, <1>4, Zenon

\* The sweep takes the lease only if it is free, and leaves it at once or later.
LEMMA CleanerInv ==
    ASSUME LockInv, NEW c \in Cleaners, CleanerNext(c)
    PROVE  LockInv'
<1> USE DEF LockInv, stateVars
<1>0. c \in Actors /\ c \in Actors \ Requests /\ c \in Actors \ (Startups \cup Deletes)
  BY ActorsAssumption, Zenon DEF Actors
<1>1. CASE CleanerTryLock(c) \/ CleanerProceed(c)
  <2>1. PICK p \in {"leased", "holding"} : Goto(c, p)
    BY <1>1, Zenon DEF CleanerTryLock, CleanerProceed
  <2>2. LockTypeOK'
    BY <1>0, <1>1, <2>1, LeaseTypes, Zenon
    DEF CleanerTryLock, CleanerProceed, LockTypeOK, Goto, Phases, leaseVars
  <2>3. LeaseInv'
    BY <1>0, <1>1, TakeLeaseInv, StayInv, Zenon
    DEF CleanerTryLock, CleanerProceed, CriticalPhases, InCritical
  <2>4. OwnerInv' /\ DeleteInv'
    BY <1>0, <1>1, <2>1, OthersKeep, Zenon DEF CleanerTryLock, CleanerProceed
  <2>5. RequestInv'
    BY <1>0, <1>1, <2>1, RequestsApart, Zenon DEF CleanerTryLock, CleanerProceed
  <2> QED
    BY <2>2, <2>3, <2>4, <2>5, Zenon
<1>2. CASE CleanerSkip(c) \/ ReleaseCleaner(c)
  BY <1>0, <1>2, ReleaseInv, Zenon DEF CleanerSkip, ReleaseCleaner, InCritical
<1> QED
  BY <1>1, <1>2, Zenon DEF CleanerNext

-----------------------------------------------------------------------------
\* A delete takes its place among the actors.
LEMMA DeleteKind ==
    ASSUME NEW d \in Deletes
    PROVE  d \in Actors /\ d \in Actors \ Requests /\ d \notin Startups
BY ActorsAssumption, Zenon DEF Actors

\* A step of a delete leaves the startups, requests and other deletes alone.
LEMMA StartupsApart ==
    ASSUME LockTypeOK, NEW d \in Deletes, NEW p, Goto(d, p)
    PROVE  /\ \A t \in Startups : phase'[t] = phase[t]
           /\ \A e \in Deletes : phase'[e] = IF e = d THEN p ELSE phase[e]
           /\ PendingRequests' = PendingRequests
BY DeleteKind, ActorsAssumption DEF LockTypeOK, Goto, Actors, PendingRequests

\* The drain moves every registered startup to the delete that waits for it, and
\* every request that is pending now falls behind the generation.
LEMMA BeginDeleteInv ==
    ASSUME LockInv, NEW d \in Deletes, BeginDelete(d)
    PROVE  LockInv'
<1> USE DeleteKind DEF LockInv, BeginDelete
<1>1. LockTypeOK'
  BY DEF LockTypeOK, Goto, Phases, leaseVars, Supersede, AbortDrained, PendingRequests
<1>2. LeaseInv'
  BY StayInv, Zenon DEF CriticalPhases, InCritical
<1>3. OwnerInv'
  BY StartupsApart, Zenon DEF OwnerInv, OwnerIsRunning
<1>4. DeleteInv'
  <2>1. ActiveDeletes' = ActiveDeletes \cup {d} /\ d \notin ActiveDeletes
    BY StartupsApart, Zenon DEF ActiveDeletes
  <2>2. deleting' = Cardinality(ActiveDeletes')
    BY <2>1, DeletingCounts, FS_AddElement, Zenon DEF DeleteInv, Supersede
  <2>3. ASSUME NEW t \in Startups, phase'[t] # "idle"
        PROVE  \E e \in Deletes : phase'[e] = "draining" /\ t \in cancelled'[e]
    <3>1. CASE t \in tasks
      BY <3>1, StartupsApart, Zenon DEF LockTypeOK
    <3>2. CASE t \notin tasks
      <4>1. PICK e \in Deletes : phase[e] = "draining" /\ t \in cancelled[e]
        BY <2>3, <3>2, StartupsApart, Zenon DEF DeleteInv
      <4> QED
        BY <4>1, StartupsApart, Zenon DEF LockTypeOK
    <3> QED
      BY <3>1, <3>2, Zenon
  <2> QED
    BY <2>2, <2>3, ZenonT(60) DEF DeleteInv
<1>5. RequestInv'
  <2>1. \A r \in Requests : captured[r] \in Nat
    BY Zenon DEF LockTypeOK
  <2> QED
    BY <2>1, StartupsApart DEF LockTypeOK, RequestInv, Supersede
<1> QED
  BY <1>1, <1>2, <1>3, <1>4, <1>5, Zenon

\* The delete stops draining only when every startup it cancelled is gone.
LEMMA DeleteLockInv ==
    ASSUME LockInv, NEW d \in Deletes, DeleteLock(d)
    PROVE  LockInv'
<1> USE DeleteKind DEF LockInv, DeleteLock, stateVars
<1>1. PICK p \in {"holding", "waiting"} : Goto(d, p)
  BY Zenon DEF LockOwned, Granted
<1>2. LockTypeOK'
  <2>1. holder' \in Actors \cup {NoOne} /\ waiters' \in Seq(Actors)
    BY LeaseTypes, Zenon DEF LockOwned, Granted, LockTypeOK, leaseVars
  <2> QED
    BY <1>1, <2>1, Zenon DEF LockTypeOK, Goto, Phases
<1>3. LeaseInv'
  BY TakeLeaseInv, JoinQueueInv, GrantedInv, Zenon DEF CriticalPhases, InCritical, LockOwned
<1>4. OwnerInv'
  BY <1>1, StartupsApart, Zenon DEF OwnerInv, OwnerIsRunning
<1>5. DeleteInv'
  <2>1. ActiveDeletes' = ActiveDeletes
    BY <1>1, StartupsApart DEF ActiveDeletes, Granted
  <2>2. ASSUME NEW t \in Startups, NEW e \in Deletes,
               phase'[t] # "idle", phase[e] = "draining", t \in cancelled[e]
        PROVE  phase'[e] = "draining" /\ t \in cancelled'[e]
    BY <1>1, <2>2, StartupsApart DEF LockTypeOK, Granted
  <2> QED
    BY <1>1, <2>1, <2>2, StartupsApart, Zenon DEF DeleteInv
<1>6. RequestInv'
  BY <1>1, RequestsApart, Zenon
<1> QED
  BY <1>2, <1>3, <1>4, <1>5, <1>6, Zenon

\* The guard is dropped: one active delete less, then the lease is passed on.
LEMMA EndDeleteInv ==
    ASSUME LockInv, NEW d \in Deletes, DropGuard(d) \/ ReleaseDelete(d)
    PROVE  LockInv'
<1> USE DeleteKind DEF LockInv, stateVars
<1>1. PICK p \in {"releasing", "idle"} : Goto(d, p)
  BY Zenon DEF DropGuard, ReleaseDelete
<1>2. OwnerInv'
  BY <1>1, StartupsApart, Zenon DEF OwnerInv, OwnerIsRunning, DropGuard, ReleaseDelete
<1>3. RequestInv'
  BY <1>1, RequestsApart, Zenon DEF DropGuard, ReleaseDelete
<1>4. CASE DropGuard(d)
  <2>1. ActiveDeletes' = ActiveDeletes \ {d} /\ d \in ActiveDeletes
    BY <1>4, StartupsApart DEF DropGuard, ActiveDeletes
  <2>2. deleting' = Cardinality(ActiveDeletes') /\ deleting' \in Nat
    <3>1. /\ deleting = Cardinality(ActiveDeletes) /\ IsFiniteSet(ActiveDeletes)
          /\ deleting' = deleting - 1
      BY <1>4, DeletingCounts, Zenon DEF DropGuard, UncountDelete, DeleteInv
    <3>2. /\ Cardinality(ActiveDeletes \ {d}) = Cardinality(ActiveDeletes) - 1
          /\ Cardinality(ActiveDeletes \ {d}) \in Nat
      BY <2>1, <3>1, FS_RemoveElement, FS_CardinalityType, Zenon
    <3> QED
      BY <2>1, <3>1, <3>2, Zenon
  <2>3. LockTypeOK'
    BY <1>1, <1>4, <2>2, Zenon DEF DropGuard, LockTypeOK, Goto, Phases, leaseVars
  <2>4. LeaseInv'
    BY <1>4, StayInv, Zenon DEF DropGuard, CriticalPhases, InCritical
  <2>5. DeleteInv'
    <3>1. tasks' = tasks /\ tasks = {} /\ cancelled' = cancelled
      BY <1>4, <2>1, Zenon DEF DropGuard, DeleteInv
    <3>2. \A e \in Deletes : phase[e] = "draining" => phase'[e] = "draining"
      BY <1>4, StartupsApart, Zenon DEF DropGuard
    <3>3. \A t \in Startups : phase'[t] = phase[t]
      BY <1>1, StartupsApart, Zenon
    <3> QED
      BY <2>2, <3>1, <3>2, <3>3, Zenon DEF DeleteInv
  <2> QED
    BY <1>2, <1>3, <2>3, <2>4, <2>5, Zenon
<1>5. CASE ReleaseDelete(d)
  <2>1. LockTypeOK'
    BY <1>5, LeaseTypes, Zenon DEF ReleaseDelete, LockTypeOK, Goto, Phases
  <2>2. LeaseInv'
    BY <1>5, PassLeaseInv, Zenon DEF ReleaseDelete, LeaseInv, InCritical, CriticalPhases
  <2>3. DeleteInv'
    <3>1. ActiveDeletes' = ActiveDeletes
      BY <1>5, StartupsApart, Zenon DEF ReleaseDelete, ActiveDeletes
    <3>2. \A e \in Deletes : phase[e] = "draining" => phase'[e] = "draining"
      BY <1>5, StartupsApart, Zenon DEF ReleaseDelete
    <3>3. \A t \in Startups : phase'[t] = phase[t]
      BY <1>1, StartupsApart, Zenon
    <3> QED
      BY <1>5, <3>1, <3>2, <3>3, Zenon DEF ReleaseDelete, DeleteInv
  <2> QED
    BY <1>2, <1>3, <2>1, <2>2, <2>3, Zenon
<1> QED
  BY <1>4, <1>5, Zenon

-----------------------------------------------------------------------------
\* A new lock, or the lock of a new daemon, starts from nothing.
LEMMA LockInitInv ==
    LockInit => LockInv
<1> SUFFICES ASSUME LockInit PROVE LockInv
  BY Zenon
<1> USE DEF LockInit
<1>1. LockTypeOK
  BY DEF LockTypeOK, Phases
<1>2. LeaseInv
  BY DEF LeaseInv, InCritical
<1>3. OwnerInv
  BY Zenon DEF OwnerInv, OwnerIsRunning, Actors
<1>4. DeleteInv
  <2>1. ActiveDeletes = {}
    BY Zenon DEF ActiveDeletes, Actors
  <2> QED
    BY <2>1, FS_EmptySet, Zenon DEF DeleteInv, Actors
<1>5. RequestInv
  BY ZenonT(60) DEF RequestInv, PendingRequests, Actors
<1> QED
  BY <1>1, <1>2, <1>3, <1>4, <1>5, Zenon DEF LockInv

\* The same for the primed form, which a daemon restart uses.
LEMMA LockLostInv ==
    ASSUME LockLost
    PROVE  LockInv'
<1> USE DEF LockLost
<1>1. LockTypeOK'
  BY DEF LockTypeOK, Phases
<1>2. LeaseInv'
  BY DEF LeaseInv, InCritical
<1>3. OwnerInv'
  BY Zenon DEF OwnerInv, OwnerIsRunning, Actors
<1>4. DeleteInv'
  <2>1. ActiveDeletes' = {}
    BY Zenon DEF ActiveDeletes, Actors
  <2> QED
    BY <2>1, FS_EmptySet, Zenon DEF DeleteInv, Actors
<1>5. RequestInv'
  BY Zenon DEF RequestInv, PendingRequests, Actors
<1> QED
  BY <1>1, <1>2, <1>3, <1>4, <1>5, Zenon DEF LockInv

\* A fresh lock from for_pod: nobody is pending, so the generation may restart.
LEMMA ForPodFreshInv ==
    ASSUME LockInv, ForPodFresh
    PROVE  LockInv'
<1> USE DEF LockInv, ForPodFresh, leaseVars
<1>1. LockTypeOK'
  BY Zenon DEF LockTypeOK
<1>2. LeaseInv' /\ OwnerInv' /\ DeleteInv'
  BY DEF LeaseInv, InCritical, OwnerInv, OwnerIsRunning, DeleteInv, ActiveDeletes
<1>3. RequestInv'
  BY Zenon DEF RequestInv, PendingRequests, Actors
<1> QED
  BY <1>1, <1>2, <1>3, Zenon

\* Every step of the lock preserves LockInv.
LEMMA LockStepInv ==
    ASSUME LockInv, [LockNext]_lockVars
    PROVE  LockInv'
<1>1. CASE UNCHANGED lockVars
  BY <1>1 DEF lockVars, LockInv, LockTypeOK, LeaseInv, InCritical, OwnerInv,
              OwnerIsRunning, DeleteInv, ActiveDeletes, RequestInv, PendingRequests
<1>2. ASSUME NEW t \in Startups, StartupNext(t)
      PROVE  LockInv'
  BY <1>2, SpawnInv, StartupLockInv, SetOwnerInv, StopWorkingInv, CompleteInv, Zenon
  DEF StartupNext
<1>3. ASSUME NEW r \in Requests, RequestNext(r)
      PROVE  LockInv'
  <2>1. CASE ReleaseRequest(r)
    <3>1. r \in Actors \ (Startups \cup Deletes)
      BY ActorsAssumption, Zenon DEF Actors
    <3> QED
      BY <2>1, <3>1, ReleaseInv, Zenon DEF ReleaseRequest, InCritical
  <2> QED
    BY <1>3, <2>1, QueueInv, RequestLockInv, AnswerInv, Zenon DEF RequestNext
<1>4. ASSUME NEW d \in Deletes, DeleteNext(d)
      PROVE  LockInv'
  BY <1>4, BeginDeleteInv, DeleteLockInv, EndDeleteInv, Zenon DEF DeleteNext
<1> QED
  BY <1>1, <1>2, <1>3, <1>4, CleanerInv, ForPodFreshInv, Zenon DEF LockNext

-----------------------------------------------------------------------------
(* Who can make an actor start to work.                                     *)

\* Nobody moves another actor.
LEMMA MovesItself ==
    ASSUME LockTypeOK, NEW b \in Actors, phase'[b] # phase[b]
    PROVE  \A a \in Actors : \A p : Goto(a, p) => a = b /\ phase'[b] = p
BY Zenon DEF LockTypeOK, Goto

\* A cleaner takes its place among the actors.
LEMMA CleanerKind ==
    ASSUME NEW c \in Cleaners
    PROVE  c \in Actors /\ c \notin Startups /\ c \notin Requests /\ c \notin Deletes
BY ActorsAssumption, Zenon DEF Actors

\* Only acquire() itself admits a request.
LEMMA OnlyAdmit ==
    ASSUME LockTypeOK, LockNext, NEW r \in Requests,
           phase[r] # "holding", phase'[r] = "holding"
    PROVE  Admit(r)
<1>1. \A a \in Actors : \A p : Goto(a, p) => a = r /\ p = "holding"
  BY RequestKind, MovesItself, Zenon
<1>2. ~ForPodFresh
  BY Zenon DEF ForPodFresh
<1>3. ASSUME NEW t \in Startups PROVE ~StartupNext(t)
  BY <1>1, StartupKind, RequestKind, ZenonT(60)
  DEF StartupNext, Spawn, SpawnUnchecked, StartupLock, LockOwned, Granted,
      SetOwner, FinishOperation, StartupTimeout, CancelStartup, Complete
<1>4. ASSUME NEW d \in Deletes PROVE ~DeleteNext(d)
  BY <1>1, DeleteKind, RequestKind, ZenonT(60)
  DEF DeleteNext, BeginDelete, DeleteLock, LockOwned, Granted, DropGuard,
      ReleaseDelete
<1>5. ASSUME NEW c \in Cleaners PROVE ~CleanerNext(c)
  BY <1>1, CleanerKind, ZenonT(60)
  DEF CleanerNext, CleanerTryLock, CleanerSkip, CleanerProceed, ReleaseCleaner
<1>6. PICK q \in Requests : RequestNext(q)
  BY <1>2, <1>3, <1>4, <1>5, Zenon DEF LockNext
<1> QED
  BY <1>1, <1>6, RequestKind
  DEF RequestNext, Queue, RequestLock, LockOwned, Granted, Admit, Refuse,
      RequestTimeout, ReleaseRequest

\* Only spawn makes a startup.
LEMMA OnlySpawn ==
    ASSUME LockTypeOK, LockNext, NEW t \in Startups,
           phase[t] = "idle", phase'[t] # "idle"
    PROVE  Spawn(t)
<1>1. \A a \in Actors : \A p : Goto(a, p) => a = t /\ p # "idle"
  BY StartupKind, MovesItself, Zenon
<1>2. ~ForPodFresh
  BY Zenon DEF ForPodFresh
<1>3. ASSUME NEW r \in Requests PROVE ~RequestNext(r)
  BY <1>1, RequestKind, ZenonT(60)
  DEF RequestNext, Queue, RequestLock, LockOwned, Granted, Admit, Refuse,
      RequestTimeout, ReleaseRequest
<1>4. ASSUME NEW d \in Deletes PROVE ~DeleteNext(d)
  BY <1>1, DeleteKind, ZenonT(60)
  DEF DeleteNext, BeginDelete, DeleteLock, LockOwned, Granted, DropGuard,
      ReleaseDelete
<1>5. ASSUME NEW c \in Cleaners PROVE ~CleanerNext(c)
  BY <1>1, CleanerKind, ZenonT(60)
  DEF CleanerNext, CleanerTryLock, CleanerSkip, CleanerProceed, ReleaseCleaner
<1>6. PICK u \in Startups : StartupNext(u)
  BY <1>2, <1>3, <1>4, <1>5, ZenonT(60) DEF LockNext
<1> QED
  BY <1>1, <1>6, StartupKind, ZenonT(60)
  DEF StartupNext, StartupLock, LockOwned, Granted,
      SetOwner, FinishOperation, StartupTimeout, CancelStartup, Complete, Spawn,
      SpawnUnchecked

\* Only the sweep's own check of `deleting` lets it proceed.
LEMMA OnlyProceed ==
    ASSUME LockTypeOK, LockNext, NEW c \in Cleaners,
           phase[c] # "holding", phase'[c] = "holding"
    PROVE  CleanerProceed(c)
<1>1. \A a \in Actors : \A p : Goto(a, p) => a = c /\ p = "holding"
  BY MovesItself, Zenon DEF Actors
<1>2. ~ForPodFresh
  BY Zenon DEF ForPodFresh
<1>3. ASSUME NEW r \in Requests PROVE ~RequestNext(r)
  BY <1>1, CleanerKind, RequestKind, ZenonT(60)
  DEF RequestNext, Queue, RequestLock, LockOwned, Granted, Admit, Refuse,
      RequestTimeout, ReleaseRequest
<1>4. ASSUME NEW d \in Deletes PROVE ~DeleteNext(d)
  BY <1>1, CleanerKind, DeleteKind, ZenonT(60)
  DEF DeleteNext, BeginDelete, DeleteLock, LockOwned, Granted, DropGuard,
      ReleaseDelete
<1>5. ASSUME NEW t \in Startups PROVE ~StartupNext(t)
  BY <1>1, CleanerKind, StartupKind, ZenonT(60)
  DEF StartupNext, Spawn, SpawnUnchecked, StartupLock, LockOwned, Granted,
      SetOwner, FinishOperation, StartupTimeout, CancelStartup, Complete
<1>6. PICK e \in Cleaners : CleanerNext(e)
  BY <1>2, <1>3, <1>4, <1>5, Zenon DEF LockNext
<1> QED
  BY <1>1, <1>6 DEF Actors, CleanerNext, CleanerTryLock, CleanerSkip,
                    CleanerProceed, ReleaseCleaner

-----------------------------------------------------------------------------
(* The theorems.                                                            *)

\* PodLifecycleLock keeps the inductive invariant for ever.
THEOREM LockInvariant == LockSpec => []LockInv
<1>1. LockInv /\ [LockNext]_lockVars => LockInv'
  BY LockStepInv, Zenon
<1> QED
  BY <1>1, LockInitInv, PTL DEF LockSpec

\* The state of PodLifecycleLock is well formed; in particular `deleting`, a
\* usize, is never decremented below zero.
THEOREM LockTypeCorrect == LockSpec => []LockTypeOK
<1>1. LockInv => LockTypeOK
  BY Zenon DEF LockInv
<1> QED
  BY <1>1, LockInvariant, PTL

\* Any number of startups, stops, deletes and sweeps exclude each other.
THEOREM LockMutualExclusion == LockSpec => []MutualExclusion
<1>1. LockInv => MutualExclusion
  BY Zenon DEF LockInv, LeaseInv, MutualExclusion
<1> QED
  BY <1>1, LockInvariant, PTL

\* The lease never stays with an actor that timed out or was aborted.
THEOREM LockLeaseNotStranded == LockSpec => []LeaseNotStranded
<1>1. LockInv => LeaseNotStranded
  BY Zenon DEF LockInv, LeaseInv, LeaseNotStranded
<1> QED
  BY <1>1, LockInvariant, PTL

\* No startup registers with, or escapes the drain of, acquire_for_delete.
THEOREM LockDeleteFencesStartups == LockSpec => []DeleteFencesStartups
<1>1. LockInv => DeleteFencesStartups
  BY Zenon DEF LockInv, DeleteInv, DeleteFencesStartups
<1> QED
  BY <1>1, LockInvariant, PTL

\* describe_owner names the startup that runs.
THEOREM LockOwnerIsRunning == LockSpec => []OwnerIsRunning
<1>1. LockInv => OwnerIsRunning
  BY Zenon DEF LockInv, OwnerInv
<1> QED
  BY <1>1, LockInvariant, PTL


\* acquire() admits no request that was queued before a delete began.
THEOREM LockNoOvertakenAdmission == LockSpec => NoOvertakenAdmission
<1>1. ASSUME LockInv, [LockNext]_lockVars
      PROVE  [\A r \in Requests : phase[r] # "holding" /\ phase'[r] = "holding"
                                    => r \notin overtaken]_lockVars
  <2> SUFFICES ASSUME LockNext, NEW r \in Requests,
                      phase[r] # "holding", phase'[r] = "holding"
               PROVE  r \notin overtaken
    BY <1>1, Zenon
  <2>1. Admit(r)
    BY <1>1, OnlyAdmit, Zenon DEF LockInv
  <2>2. captured[r] \in Nat /\ generation \in Nat
    BY <1>1, Zenon DEF LockInv, LockTypeOK
  <2> QED
    BY <1>1, <2>1, <2>2 DEF Admit, LockInv, RequestInv
<1> QED
  BY <1>1, LockInvariant, PTL DEF LockSpec, NoOvertakenAdmission

\* While any delete is active, no startup, request or sweep begins its work.
THEOREM LockNothingStartsDuringDelete == LockSpec => NothingStartsDuringDelete
<1> DEFINE Quiet ==
        ActiveDeletes # {} =>
            /\ \A t \in Startups : phase[t] = "idle" => phase'[t] = "idle"
            /\ \A r \in Requests \cup Cleaners :
                  phase[r] # "holding" => phase'[r] # "holding"
<1>1. ASSUME LockInv, [LockNext]_lockVars
      PROVE  [Quiet]_lockVars
  <2> SUFFICES ASSUME LockNext, ActiveDeletes # {} PROVE Quiet
    BY <1>1, Zenon
  <2>1. deleting # 0
    BY <1>1, DeletingCounts, Zenon DEF LockInv
  <2>2. ASSUME NEW t \in Startups, phase[t] = "idle"
        PROVE  phase'[t] = "idle"
    BY <1>1, <2>1, <2>2, OnlySpawn, Zenon DEF LockInv, Spawn
  <2>3. ASSUME NEW r \in Requests, phase[r] # "holding"
        PROVE  phase'[r] # "holding"
    BY <1>1, <2>1, <2>3, OnlyAdmit, Zenon DEF LockInv, Admit
  <2>4. ASSUME NEW c \in Cleaners, phase[c] # "holding"
        PROVE  phase'[c] # "holding"
    BY <1>1, <2>1, <2>4, OnlyProceed, Zenon DEF LockInv, CleanerProceed
  <2> QED
    BY <2>2, <2>3, <2>4, Zenon
<1> QED
  BY <1>1, LockInvariant, PTL DEF LockSpec, NothingStartsDuringDelete
=============================================================================
