------------------------- MODULE PodLifecycleProofs -------------------------
(***************************************************************************)
(* The safety properties of PodLifecycle, for any sets of actors and tokens*)
(* on either kind of host, with any number of restarts.                    *)
(*                                                                         *)
(* PodInv is inductive.  Its parts:                                        *)
(*   LockInv       of the lifecycle lock, carried over step by step;       *)
(*   PhaseInv      an operation is past its first step only while its actor*)
(*                 holds the lease;                                        *)
(*   UsedInv       every token in any store was drawn before;              *)
(*   StartupInv    what a startup knows of the stores at each of its steps;*)
(*   RequestedInv  a request the backend may still act on has an intent or *)
(*                 was forgotten, whatever the row says;                   *)
(*   ContainerInv  so is the container, unless it belongs to the row or is *)
(*                 an exited Kubernetes pod;                               *)
(*   ForgetInv     a forgotten creation has no intent, and the row is      *)
(*                 forgotten only after every creation was;                *)
(*   SweepInv      what the sweep removes has an intent and is not the     *)
(*                 row's;                                                  *)
(*   StopInv       only a stop at work leaves the row Stopping.            *)
(***************************************************************************)
EXTENDS PodLifecycle, PodLifecycleLockProofs

PhaseInv ==
    /\ \A t \in Startups : phase[t] # "running" =>
          token[t] = NoToken /\ step[t] \in {"none", "enter", "fork", "recreate", "connect"}
    /\ \A r \in Requests : phase[r] # "holding" => step[r] \in {"none", "stop", "done"}
    /\ \A d \in Deletes : phase[d] # "holding" =>
          step[d] \in {"none", "wait", "background", "forget"}
    /\ \A c \in Cleaners : phase[c] # "holding" => step[c] \in {"none", "sweep"}

UsedInv ==
    /\ pod \in used \cup {NoToken}
    /\ container \in used \cup {NoToken}
    /\ intents \subseteq used
    /\ requested \subseteq used
    /\ created \subseteq used
    /\ forgotten \subseteq used
    /\ \A t \in Startups : token[t] \in used \cup {NoToken}

\* the startup has drawn its token and inserted the row
Creating(t) ==
    step[t] \in {"intent", "send", "creating", "starting", "setup", "broken"}

StartupAt(t) ==
    /\ Creating(t) => token[t] # NoToken /\ pod = token[t]
    /\ step[t] \in {"send", "creating", "starting"} => token[t] \in intents
    /\ step[t] # "creating" => token[t] \notin created
    /\ step[t] = "starting" => token[t] \notin requested
    /\ step[t] = "gone" => ReportedGone \/ container \in intents \cup forgotten
    /\ token[t] \notin forgotten

StartupInv == \A t \in Startups : StartupAt(t)

RequestedInv ==
    /\ requested \subseteq intents \cup forgotten
    /\ requested \cap created = {}

ContainerInv ==
    ~ReportedGone => pod = container \/ container \in intents \cup forgotten

ForgetInv ==
    /\ intents \cap forgotten = {}
    /\ \A d \in Deletes : step[d] = "forgetRow" => used \subseteq forgotten

SweepInv ==
    \A c \in Cleaners : step[c] = "sweeping" => entry[c] \in intents /\ entry[c] # pod

StopInv == StoppingHasStopper

PodInv ==
    /\ TypeOK
    /\ LockInv
    /\ PhaseInv
    /\ UsedInv
    /\ StartupInv
    /\ RequestedInv
    /\ ContainerInv
    /\ ForgetInv
    /\ SweepInv
    /\ StopInv

-----------------------------------------------------------------------------
(* One actor at a time: what the others are doing while one is at work.     *)

StartupFirst == {"none", "enter", "fork", "recreate", "connect"}
RequestFirst == {"none", "stop", "done"}
DeleteFirst  == {"none", "wait", "background", "forget"}
CleanerFirst == {"none", "sweep"}

\* the actors other than a have not begun their operation
OthersWait(a) ==
    /\ \A t \in Startups \ {a} : token[t] = NoToken /\ step[t] \in StartupFirst
    /\ \A r \in Requests \ {a} : step[r] \in RequestFirst
    /\ \A d \in Deletes \ {a} : step[d] \in DeleteFirst
    /\ \A c \in Cleaners \ {a} : step[c] \in CleanerFirst

\* The lease makes an operation that has begun the only one.
LEMMA Alone ==
    ASSUME LockInv, PhaseInv, NEW a \in Actors, phase[a] \in {"running", "holding"}
    PROVE  OthersWait(a)
<1>1. \A b \in Actors \ {a} : phase[b] \notin {"running", "holding"}
  BY Zenon DEF LockInv, LeaseInv, InCritical
<1> QED
  BY <1>1, Zenon DEF PhaseInv, OthersWait, Actors, StartupFirst, RequestFirst, DeleteFirst,
              CleanerFirst

\* Nothing brings back a pod that is reported gone except a new container.
LEMMA GoneStays ==
    ASSUME container' \in {container, NoToken},
           Kubernetes /\ ReportedGone => running' \in {running, FALSE}
    PROVE  ReportedGone => ReportedGone'
<1>1. CASE container' = NoToken
  BY <1>1 DEF ReportedGone
<1>2. CASE container' = container /\ Exited
  <2>1. Kubernetes /\ ~running  BY <1>2, Zenon DEF Exited
  <2>2. ReportedGone  BY <1>2, Zenon DEF ReportedGone
  <2>3. CASE running' = running  BY <2>1, <2>3, Zenon DEF Exited, ReportedGone
  <2>4. CASE running' = FALSE  BY <2>1, <2>4, Zenon DEF Exited, ReportedGone
  <2> QED
    BY <2>1, <2>2, <2>3, <2>4, Zenon
<1>3. CASE container' = container /\ ~Exited
  BY <1>3 DEF ReportedGone
<1> QED
  BY <1>1, <1>2, <1>3

\* LockInv depends on the lock's variables only.
LEMMA LockInvKept ==
    ASSUME LockInv, UNCHANGED lockVars
    PROVE  LockInv'
BY LockStepInv, Zenon

\* PhaseInv survives a step inside an operation.
LEMMA PhaseInvKept ==
    ASSUME TypeOK, LockInv, PhaseInv, UNCHANGED lockVars,
           NEW a \in Actors, NEW s, To(a, s),
           a \in Startups => phase[a] = "running",
           a \notin Startups => phase[a] = "holding",
           \A t \in Startups \ {a} : token'[t] = token[t]
    PROVE  PhaseInv'
<1>1. \A b \in Actors : step'[b] = IF b = a THEN s ELSE step[b]
  BY Zenon DEF TypeOK, OperationTypeOK, To
<1>2. phase' = phase
  BY Zenon DEF lockVars
<1> QED
  BY <1>1, <1>2, ActorsAssumption DEF PhaseInv, Actors

-----------------------------------------------------------------------------
(* Steps of a startup's operation.                                          *)

\* What every step of a startup's operation has in common.
LEMMA StartupFrame ==
    ASSUME PodInv, NEW t \in Startups, StartupStep(t)
    PROVE  /\ phase[t] = "running"
           /\ UNCHANGED <<lockVars, forgotten, attempts, sweepVars, restarts>>
           /\ \E s \in Steps : To(t, s)
           /\ \A u \in Startups \ {t} : token'[u] = token[u]
<1> USE DEF PodInv, TypeOK, OperationTypeOK, StartupStep, At, Continue, Return, Steps
<1>1. CASE InspectExisting(t) \/ ForkIntoNew(t) \/ ForgetGonePod(t) \/ Reconnect(t) \/ Connect(t)
  BY <1>1, Zenon DEF InspectExisting, ForkIntoNew, ForgetGonePod, Reconnect, ReconnectGone,
              ReconnectDocker, ReconnectK8s, Connect
<1>2. CASE Recreate(t) \/ Replace(t) \/ Prepare(t) \/ WriteIntent(t) \/ SendCreate(t)
  BY <1>2, Zenon DEF Recreate, Replace, Prepare, InsertRow, PreparationFails, WriteIntent,
              SendCreate
<1>3. CASE CreateAnswered(t) \/ StartContainer(t) \/ Setup(t) \/ RemoveBroken(t)
  BY <1>3, Zenon DEF CreateAnswered, StartContainer, Setup, SetupDocker, SetupK8s, RemoveBroken
<1> QED
  BY <1>1, <1>2, <1>3

\* What a step of startup t may rely on.
LEMMA StartupAlone ==
    ASSUME PodInv, NEW t \in Startups, StartupStep(t)
    PROVE  /\ OthersWait(t)
           /\ t \in Actors /\ t \notin Requests /\ t \notin Deletes /\ t \notin Cleaners
           /\ LockTypeOK'
           /\ step' \in [Actors -> Steps]
           /\ \A b \in Actors : b # t => step'[b] = step[b]
<1>1. t \in Actors /\ t \notin Requests /\ t \notin Deletes /\ t \notin Cleaners
  BY ActorsAssumption, Zenon DEF Actors
<1>2. OthersWait(t)
  BY <1>1, StartupFrame, Alone, Zenon DEF PodInv
<1>3. LockTypeOK'
  BY StartupFrame, LockInvKept, Zenon DEF PodInv, LockInv
<1>4. step' \in [Actors -> Steps] /\ \A b \in Actors : b # t => step'[b] = step[b]
  BY <1>1, StartupFrame DEF PodInv, TypeOK, OperationTypeOK, To
<1> QED
  BY <1>1, <1>2, <1>3, <1>4, Zenon

\* A step keeps PodInv if it does so in the stores and for its own startup.
LEMMA StartupStepKeeps ==
    ASSUME PodInv, NEW t \in Startups, StartupStep(t),
           StoreTypeOK', retried' \subseteq Startups,
           token' \in [Startups -> Tokens \cup {NoToken}],
           UsedInv', StartupAt(t)', RequestedInv', ContainerInv',
           intents' \cap forgotten' = {},
           pod' = NoToken \/ status' # "Stopping" \/ UNCHANGED <<pod, status>>
    PROVE  PodInv'
<1> USE DEF PodInv
<1>1. LockInv' /\ PhaseInv'
  BY StartupAlone, StartupFrame, LockInvKept, PhaseInvKept, Zenon
<1>2. TypeOK'
  BY StartupAlone, StartupFrame, Zenon DEF TypeOK, OperationTypeOK, sweepVars
<1>3. StartupInv'
  <2> SUFFICES ASSUME NEW u \in Startups \ {t} PROVE StartupAt(u)'
    BY Zenon DEF StartupInv
  <2>1. token'[u] = NoToken /\ step'[u] \in StartupFirst
    BY StartupAlone, StartupFrame DEF OthersWait, Actors
  <2> QED
    BY <2>1, TokensAssumption, Zenon
    DEF StoreTypeOK, StartupAt, ReportedGone, Exited, Creating, StartupFirst
<1>4. ForgetInv'
  <2>1. \A d \in Deletes : step'[d] # "forgetRow"
    BY StartupAlone, Zenon DEF OthersWait, DeleteFirst, Actors
  <2> QED
    BY <2>1, Zenon DEF ForgetInv
<1>5. SweepInv'
  <2>1. \A c \in Cleaners : step'[c] # "sweeping"
    BY StartupAlone, Zenon DEF OthersWait, CleanerFirst, Actors
  <2> QED
    BY <2>1, Zenon DEF SweepInv
<1>6. StopInv'
  <2>1. \A r \in Requests : step[r] # "stopping"
    BY StartupAlone, Zenon DEF OthersWait, RequestFirst, Actors
  <2> QED
    BY <2>1, StartupFrame, Zenon DEF StopInv, StoppingHasStopper
<1> QED
  BY <1>1, <1>2, <1>3, <1>4, <1>5, <1>6, Zenon

\* The state that a step of a startup's operation starts from.
LEMMA StartupAssumes ==
    ASSUME PodInv, NEW t \in Startups
    PROVE  /\ StoreTypeOK /\ OperationTypeOK /\ UsedInv /\ StartupAt(t)
           /\ RequestedInv /\ ContainerInv /\ intents \cap forgotten = {}
           /\ t \in Actors
BY DEF PodInv, TypeOK, StartupInv, ForgetInv, Actors

\* Steps that leave intents and backend alone, and at most set the status.
LEMMA LookInv ==
    ASSUME PodInv, NEW t \in Startups,
           InspectExisting(t) \/ ForkIntoNew(t) \/ Connect(t) \/ Recreate(t) \/ Setup(t)
    PROVE  PodInv'
<1>1. StartupStep(t)
  BY Zenon DEF StartupStep
<1>2. /\ pod' = pod
      /\ status' \in {"Ready", "Deleting", "Error", status}
      /\ step[t] \in {"enter", "fork", "connect", "recreate", "setup"}
      /\ \/ step'[t] \in {"prepare", "gone", "reconnect", "replace", "done"}
         \/ step[t] = "setup" /\ step'[t] = "broken"
      /\ step'[t] = "gone" => ReportedGone
      /\ UNCHANGED <<intents, container, running, requested, created, used,
                     forgotten, token, retried>>
  BY StartupAssumes, Zenon
  DEF InspectExisting, ForkIntoNew, Connect, Recreate, Setup, SetupDocker, SetupK8s,
      MarkError, SetStatus,
      rowVars, backVars, At, Continue, Return, To, OperationTypeOK
<1>3. /\ StoreTypeOK' /\ UsedInv' /\ RequestedInv' /\ ContainerInv'
      /\ token' \in [Startups -> Tokens \cup {NoToken}] /\ retried' \subseteq Startups
  BY <1>2, StartupAssumes
  DEF StoreTypeOK, OperationTypeOK, Statuses, UsedInv, RequestedInv, ContainerInv,
      ReportedGone, Exited
<1>4. StartupAt(t)'
  BY <1>2, StartupAssumes, Zenon DEF StartupAt, ReportedGone, Exited, Creating
<1>5. pod' = NoToken \/ status' # "Stopping" \/ UNCHANGED <<pod, status>>
  BY <1>2
<1> QED
  BY <1>1, <1>2, <1>3, <1>4, <1>5, StartupStepKeeps, StartupAssumes, Zenon

\* forget_gone_pod and the deletion in recreate: the row goes only when the
\* container is gone or has an intent.
LEMMA RowGoesInv ==
    ASSUME PodInv, NEW t \in Startups, ForgetGonePod(t) \/ Replace(t)
    PROVE  PodInv'
<1>1. StartupStep(t)
  BY Zenon DEF StartupStep
<1>2. /\ step[t] \in {"gone", "replace"}
      /\ step'[t] \in {"prepare", "done"}
      /\ (pod' = NoToken /\ status' = "Initializing") \/ UNCHANGED <<pod, status>>
      /\ \/ container' = NoToken /\ running' = FALSE
         \/ UNCHANGED <<container, running>> /\ step[t] = "gone"
         \/ UNCHANGED <<container, running, pod, status>>
      /\ UNCHANGED <<intents, requested, created, used, forgotten, token, retried>>
  BY StartupAssumes, Zenon
  DEF ForgetGonePod, Replace, Removed, NotRemoved, RemoveRow, rowVars, backVars, At,
      Continue, Return, To, OperationTypeOK
<1>3. /\ StoreTypeOK' /\ UsedInv' /\ RequestedInv'
      /\ token' \in [Startups -> Tokens \cup {NoToken}] /\ retried' \subseteq Startups
  BY <1>2, StartupAssumes, Zenon DEF StoreTypeOK, OperationTypeOK, Statuses, UsedInv, RequestedInv
<1>4. ReportedGone => ReportedGone'
  BY <1>2, GoneStays, Zenon
<1>5. container' = NoToken => ReportedGone'
  BY Zenon DEF ReportedGone
<1>6. ContainerInv' /\ StartupAt(t)'
  BY <1>2, <1>4, <1>5, StartupAssumes, Zenon DEF StartupAt, Creating, ContainerInv
<1> QED
  BY <1>1, <1>2, <1>3, <1>6, StartupStepKeeps, StartupAssumes, Zenon

\* Reconnecting, starting and removing the broken container touch only the
\* container of the row; `confirmed` removes an intent whose request is done.
LEMMA ContainerStepInv ==
    ASSUME PodInv, NEW t \in Startups, Reconnect(t) \/ StartContainer(t) \/ RemoveBroken(t)
    PROVE  PodInv'
<1>1. StartupStep(t)
  BY Zenon DEF StartupStep
<1>2. /\ pod' = pod
      /\ status' \in {"Ready", "Error", "Deleting", status}
      /\ running' \in BOOLEAN
      /\ container' \in {container, NoToken}
      /\ UNCHANGED <<requested, created, used, forgotten, token>>
      /\ retried' \subseteq Startups
  BY StartupAssumes, Zenon
  DEF Reconnect, ReconnectGone, ReconnectDocker, ReconnectK8s, StartContainer, RemoveBroken,
      Removed, NotRemoved, MarkError, SetStatus,
      rowVars, backVars, Continue, Return, OperationTypeOK, StoreTypeOK
<1>3. \/ /\ step[t] = "reconnect" /\ intents' = intents
         /\ \/ step'[t] \in {"done", "replace"}
            \/ step'[t] = "gone" /\ ReportedGone'
      \/ /\ step[t] = "starting" /\ container' = container
         /\ \/ intents' = intents \ {token[t]} /\ step'[t] = "setup"
            \/ intents' = intents /\ step'[t] \in {"done", "broken"}
      \/ step[t] = "broken" /\ intents' = intents /\ step'[t] = "intent"
  BY StartupAssumes, Zenon
  DEF ReportedGone, Exited, Reconnect, ReconnectGone, ReconnectDocker, ReconnectK8s,
      StartContainer, RemoveBroken, At, Continue, Return, To, OperationTypeOK
<1>7. Kubernetes /\ ReportedGone => running' \in {running, FALSE}
  <2>1. CASE Reconnect(t)
    <3>1. Kubernetes => running' \in {running, running \/ FALSE}
      BY <2>1, Zenon DEF Reconnect, ReconnectGone, ReconnectDocker, ReconnectK8s
    <3> QED
      BY <3>1, StartupAssumes DEF StoreTypeOK
  <2>2. CASE StartContainer(t)
    BY <2>2, Zenon DEF StartContainer
  <2>3. CASE RemoveBroken(t)
    BY <2>3, Zenon DEF RemoveBroken, Removed, NotRemoved, backVars
  <2> QED
    BY <2>1, <2>2, <2>3, Zenon
<1>8. ReportedGone => ReportedGone'
  BY <1>2, <1>7, GoneStays, Zenon
<1>9. container' = NoToken => ReportedGone'
  BY Zenon DEF ReportedGone
<1>4. /\ StoreTypeOK' /\ UsedInv' /\ intents' \cap forgotten' = {}
      /\ token' \in [Startups -> Tokens \cup {NoToken}]
  BY <1>2, <1>3, StartupAssumes DEF StoreTypeOK, OperationTypeOK, Statuses, UsedInv
<1>5. StartupAt(t)'
  BY <1>2, <1>3, StartupAssumes, Zenon DEF StartupAt, Creating
<1>6. RequestedInv' /\ ContainerInv'
  BY <1>2, <1>3, <1>8, <1>9, StartupAssumes DEF StartupAt, Creating, RequestedInv, ContainerInv
<1> QED
  BY <1>1, <1>2, <1>4, <1>5, <1>6, StartupStepKeeps

\* The row and the intent are written before the request is sent.
LEMMA CreationInv ==
    ASSUME PodInv, NEW t \in Startups,
           Prepare(t) \/ WriteIntent(t) \/ SendCreate(t) \/ CreateAnswered(t)
    PROVE  PodInv'
<1>1. StartupStep(t)
  BY DEF StartupStep
<1> USE StartupAssumes DEF At, Continue, Return, To, OperationTypeOK, rowVars, backVars
<1>2. CASE Prepare(t)
  <2>1. /\ StoreTypeOK' /\ UsedInv' /\ RequestedInv' /\ ContainerInv'
        /\ token' \in [Startups -> Tokens \cup {NoToken}] /\ retried' \subseteq Startups
        /\ intents' \cap forgotten' = {}
        /\ status' # "Stopping" \/ UNCHANGED <<pod, status>>
    BY <1>2 DEF Prepare, InsertRow, PreparationFails, StoreTypeOK, Statuses,
                UsedInv, RequestedInv, ContainerInv, ReportedGone, Exited
  <2>2. StartupAt(t)'
    BY <1>2, TokensAssumption
    DEF Prepare, InsertRow, PreparationFails, UsedInv, StartupAt, ReportedGone, Exited, Creating
  <2> QED
    BY <1>1, <2>1, <2>2, StartupStepKeeps, Zenon
<1>3. CASE WriteIntent(t)
  <2>1. /\ token[t] \in Tokens /\ token[t] \in used /\ token[t] \notin forgotten
        /\ intents' \in {intents, intents \cup {token[t]}}
        /\ UNCHANGED <<pod, container, running, requested, created, used, forgotten,
                       token, retried>>
        /\ status' \in {status, "Error"}
    BY <1>3, Zenon
    DEF WriteIntent, StartupAt, ReportedGone, Exited, Creating, UsedInv, MarkError, SetStatus
  <2>2. /\ StoreTypeOK' /\ UsedInv' /\ RequestedInv' /\ ContainerInv'
        /\ token' \in [Startups -> Tokens \cup {NoToken}] /\ retried' \subseteq Startups
        /\ intents' \cap forgotten' = {}
    BY <2>1 DEF StoreTypeOK, Statuses, UsedInv, RequestedInv, ContainerInv, ReportedGone, Exited
  <2>3. StartupAt(t)'
    BY <1>3, <2>1, Zenon DEF WriteIntent, StartupAt, ReportedGone, Exited, Creating
  <2> QED
    BY <1>1, <2>1, <2>2, <2>3, StartupStepKeeps, Zenon
<1>4. CASE SendCreate(t)
  <2>1. /\ StoreTypeOK' /\ UsedInv' /\ RequestedInv' /\ ContainerInv'
        /\ token' \in [Startups -> Tokens \cup {NoToken}] /\ retried' \subseteq Startups
        /\ intents' \cap forgotten' = {}
    BY <1>4
    DEF SendCreate, StoreTypeOK, Statuses, UsedInv, RequestedInv, ContainerInv,
                StartupAt, ReportedGone, Exited, Creating
  <2>2. StartupAt(t)' /\ UNCHANGED <<pod, status>>
    BY <1>4, Zenon DEF SendCreate, StartupAt, ReportedGone, Exited, Creating
  <2> QED
    BY <1>1, <2>1, <2>2, StartupStepKeeps, Zenon
<1>5. CASE CreateAnswered(t)
  <2>1. /\ StoreTypeOK' /\ UsedInv' /\ RequestedInv' /\ ContainerInv'
        /\ token' \in [Startups -> Tokens \cup {NoToken}] /\ retried' \subseteq Startups
        /\ intents' \cap forgotten' = {}
        /\ status' # "Stopping" \/ UNCHANGED <<pod, status>>
    BY <1>5, Zenon DEF CreateAnswered, MarkError, SetStatus, StoreTypeOK, Statuses, UsedInv,
                RequestedInv, ContainerInv, ReportedGone, Exited
  <2>2. StartupAt(t)'
    BY <1>5, Zenon
    DEF CreateAnswered, MarkError, SetStatus, StartupAt, ReportedGone, Exited, Creating,
        RequestedInv
  <2> QED
    BY <1>1, <2>1, <2>2, StartupStepKeeps, Zenon
<1> QED
  BY <1>2, <1>3, <1>4, <1>5, Zenon

-----------------------------------------------------------------------------
(* Steps that only begin or end an operation or move an actor in the lock.  *)

\* Such a step keeps PodInv if it keeps the lock's part and the phases.
LEMMA QuietInv ==
    ASSUME PodInv, LockInv', PhaseInv', OperationTypeOK',
           UNCHANGED <<rowVars, intents, container, running, requested, used,
                       forgotten, restarts>>,
           created' \subseteq created,
           \A t \in Startups : \/ token'[t] = token[t] /\ step'[t] = step[t]
                               \/ token'[t] = NoToken /\ step'[t] \in StartupFirst,
           \A r \in Requests : step[r] = "stopping" => step'[r] = "stopping",
           \A d \in Deletes : step'[d] = "forgetRow" => step[d] = "forgetRow",
           \A c \in Cleaners : step'[c] = "sweeping" =>
                                    step[c] = "sweeping" /\ entry'[c] = entry[c]
    PROVE  PodInv'
<1> USE DEF PodInv, rowVars
<1>1. TypeOK'
  BY Zenon DEF TypeOK, StoreTypeOK, LockInv
<1>2. UsedInv'
  BY Zenon DEF UsedInv
<1>3. StartupInv'
  <2> SUFFICES ASSUME NEW t \in Startups PROVE StartupAt(t)'
    BY Zenon DEF StartupInv
  <2>1. CASE token'[t] = token[t] /\ step'[t] = step[t]
    BY <2>1, Zenon DEF StartupInv, StartupAt, ReportedGone, Exited, Creating
  <2>2. CASE token'[t] = NoToken /\ step'[t] \in StartupFirst
    BY <1>1, <2>2, TokensAssumption
    DEF TypeOK, StoreTypeOK, StartupAt, ReportedGone, Exited, Creating, StartupFirst
  <2> QED
    BY <2>1, <2>2, Zenon
<1>4. RequestedInv' /\ ContainerInv'
  BY Zenon DEF RequestedInv, ContainerInv, ReportedGone, Exited
<1>5. ForgetInv' /\ SweepInv'
  BY Zenon DEF ForgetInv, SweepInv
<1>6. StopInv'
  BY Zenon DEF StopInv, StoppingHasStopper
<1> QED
  BY <1>1, <1>2, <1>3, <1>4, <1>5, <1>6, Zenon

\* Nothing but the lock changes.
LEMMA LockingInv ==
    ASSUME PodInv, LockInv', PhaseInv', UNCHANGED podVars
    PROVE  PodInv'
<1>1. OperationTypeOK'
  BY Zenon DEF PodInv, TypeOK, OperationTypeOK, podVars
<1> QED
  BY <1>1, QuietInv, Zenon DEF podVars, rowVars

\* How the phases and steps of the actors follow a move of one of them.
LEMMA MoveInv ==
    ASSUME LockTypeOK, PhaseInv, NEW a \in Actors, NEW p, Goto(a, p),
           a \in Startups =>
              p = "running" \/ (token'[a] = NoToken /\ step'[a] \in StartupFirst),
           a \in Requests => p = "holding" \/ step'[a] \in RequestFirst,
           a \in Deletes => p = "holding" \/ step'[a] \in DeleteFirst,
           a \in Cleaners => p = "holding" \/ step'[a] \in CleanerFirst,
           \A t \in Startups \ {a} : token'[t] = token[t],
           \A b \in Actors \ {a} : step'[b] = step[b]
    PROVE  PhaseInv'
<1>1. \A b \in Actors : phase'[b] = IF b = a THEN p ELSE phase[b]
  BY Zenon DEF LockTypeOK, Goto
<1> QED
  BY <1>1 DEF PhaseInv, Actors, StartupFirst, RequestFirst, DeleteFirst, CleanerFirst

\* launch_pod, fork_pod, recreate_pod and connect_pod spawn their task.
LEMMA SpawnOperationInv ==
    ASSUME PodInv, NEW t \in Startups, SpawnOperation(t)
    PROVE  PodInv'
<1> USE StartupKind DEF PodInv, TypeOK
<1>1. LockInv'
  BY SpawnInv, Zenon DEF SpawnOperation
<1>2. PICK op \in {"enter", "fork", "recreate", "connect"} : To(t, op)
  BY Zenon DEF SpawnOperation, To
<1>3. /\ Goto(t, "spawned") /\ token[t] = NoToken
      /\ UNCHANGED <<rowVars, intents, backVars, used, forgotten, token, retried,
                     attempts, sweepVars, restarts>>
  BY Zenon DEF SpawnOperation, Spawn, SpawnUnchecked, PhaseInv
<1>4. \A b \in Actors : step'[b] = IF b = t THEN op ELSE step[b]
  BY <1>2, Zenon DEF OperationTypeOK, To
<1>5. PhaseInv'
  BY <1>3, <1>4, MoveInv, ActorsAssumption, Zenon DEF StartupFirst
<1>6. OperationTypeOK'
  BY <1>2, <1>3 DEF OperationTypeOK, To, Steps, sweepVars
<1> QED
  BY <1>1, <1>3, <1>4, <1>5, <1>6, QuietInv, ActorsAssumption, ZenonT(60)
  DEF backVars, sweepVars, StartupFirst, Actors

\* The task returns, times out or is cancelled; its answer is dropped.
LEMMA EndStartupInv ==
    ASSUME PodInv, NEW t \in Startups, EndStartup(t)
    PROVE  PodInv'
<1> USE StartupKind DEF PodInv, TypeOK
<1>1. LockInv'
  BY StopWorkingInv, Zenon DEF EndStartup
<1>2. /\ Goto(t, "completing") /\ To(t, "none")
      /\ token' = [token EXCEPT ![t] = NoToken]
      /\ created' \subseteq created /\ retried' \subseteq retried
      /\ UNCHANGED <<rowVars, intents, container, running, requested, used,
                     forgotten, attempts, sweepVars, restarts>>
  BY Zenon DEF EndStartup, FinishOperation, StartupTimeout, CancelStartup
<1>3. \A b \in Actors : step'[b] = IF b = t THEN "none" ELSE step[b]
  BY <1>2, Zenon DEF OperationTypeOK, To
<1>4. \A u \in Startups : token'[u] = IF u = t THEN NoToken ELSE token[u]
  BY <1>2, Zenon DEF OperationTypeOK
<1>5. PhaseInv'
  BY <1>2, <1>3, <1>4, MoveInv, ActorsAssumption, Zenon DEF StartupFirst
<1>6. OperationTypeOK'
  BY <1>2, Zenon DEF OperationTypeOK, To, Steps, sweepVars
<1> QED
  BY <1>1, <1>2, <1>3, <1>4, <1>5, <1>6, QuietInv, ActorsAssumption, Zenon
  DEF sweepVars, StartupFirst, Actors

\* The task gets the lease, becomes the owner, or is done.
LEMMA StartupLockingInv ==
    ASSUME PodInv, NEW t \in Startups, StartupLocking(t)
    PROVE  PodInv'
<1> USE StartupKind DEF PodInv, TypeOK, StartupLocking
<1>1. LockInv'
  BY StartupLockInv, SetOwnerInv, CompleteInv, Zenon
<1>2. phase[t] # "running"
  BY Zenon DEF StartupLock, Granted, SetOwner, Complete
<1>3. \E p : Goto(t, p)
  BY Zenon DEF StartupLock, LockOwned, Granted, SetOwner, Complete
<1>4. PhaseInv'
  BY <1>2, <1>3, MoveInv, ActorsAssumption, Zenon DEF PhaseInv, podVars, StartupFirst
<1> QED
  BY <1>1, <1>4, LockingInv

-----------------------------------------------------------------------------
(* Requests.                                                                *)

\* A request is queued, waits, is admitted, refused or released.
LEMMA RequestMoveInv ==
    ASSUME PodInv, NEW r \in Requests,
           QueueRequest(r) \/ EndRequest(r) \/ RequestLocking(r)
    PROVE  PodInv'
<1> USE RequestKind DEF PodInv, TypeOK
<1>0. r \notin Cleaners
  BY ActorsAssumption, Zenon
<1>1. LockInv'
  <2>1. CASE QueueRequest(r) \/ RequestLocking(r)
    BY <2>1, QueueInv, RequestLockInv, AnswerInv DEF QueueRequest, RequestLocking
  <2>2. CASE EndRequest(r)
    <3>1. RequestNext(r)
      BY <2>2, Zenon DEF EndRequest, RequestNext
    <3> QED
      BY <3>1, LockStepInv, Zenon DEF LockNext
  <2> QED
    BY <2>1, <2>2, Zenon
<1>2. \E p : Goto(r, p)
  BY Zenon DEF QueueRequest, EndRequest, RequestLocking, Queue, RequestLock, LockOwned, Granted,
         Admit, Refuse, RequestTimeout, ReleaseRequest
<1>3. phase[r] # "holding" \/ step[r] = "done"
  BY Zenon DEF QueueRequest, EndRequest, RequestLocking, Queue, RequestLock, Granted, Admit,
         Refuse, RequestTimeout
<1>4. PICK s \in RequestFirst : To(r, s) \/ (s = step[r] /\ UNCHANGED step)
  BY <1>3, Zenon DEF QueueRequest, EndRequest, RequestLocking, PhaseInv, podVars, RequestFirst, To
<1>5. UNCHANGED <<rowVars, intents, backVars, used, forgotten, token, retried, attempts,
                  sweepVars, restarts>>
  BY Zenon DEF QueueRequest, EndRequest, RequestLocking, podVars, rowVars, backVars, sweepVars
<1>6. \A b \in Actors : step'[b] = IF b = r THEN s ELSE step[b]
  BY <1>4, Zenon DEF OperationTypeOK, To
<1>7. PhaseInv'
  BY <1>0, <1>2, <1>5, <1>6, MoveInv, Zenon
<1>8. OperationTypeOK'
  BY <1>4, <1>5, Zenon DEF OperationTypeOK, To, Steps, RequestFirst, sweepVars
<1>9. step[r] # "stopping"
  BY <1>3, Zenon DEF PhaseInv
<1> QED
  BY <1>0, <1>1, <1>5, <1>6, <1>7, <1>8, <1>9, QuietInv, ZenonT(60)
  DEF backVars, sweepVars, Actors

\* stop_pod: the row says Stopping exactly while the backend is asked to stop.
LEMMA StopStepInv ==
    ASSUME PodInv, NEW r \in Requests, RequestStep(r)
    PROVE  PodInv'
<1> USE RequestKind DEF PodInv, TypeOK, RequestStep, At, Continue, Return, rowVars
<1>0. r \notin Cleaners /\ phase[r] = "holding"
  BY ActorsAssumption, Zenon DEF BeginStop, FinishStop
<1>1. OthersWait(r)
  BY <1>0, Alone, Zenon
<1>2. /\ UNCHANGED <<lockVars, pod, intents, container, requested, created, used,
                     forgotten, token, retried, attempts, sweepVars, restarts>>
      /\ running' \in {running, FALSE}
      /\ \/ step[r] = "stop" /\ To(r, "stopping") /\ status' \in {status, "Stopping"}
         \/ step[r] = "stop" /\ To(r, "done") /\ status' = status
         \/ /\ step[r] = "stopping" /\ To(r, "done")
            /\ pod # NoToken => status' = "Ready"
            /\ pod = NoToken => status' = status
  BY Zenon DEF BeginStop, FinishStop, SetStatus, backVars, StoreTypeOK
<1>3. PICK s \in {"stopping", "done"} : To(r, s)
  BY <1>2, Zenon
<1>4. \A b \in Actors : step'[b] = IF b = r THEN s ELSE step[b]
  BY <1>3, Zenon DEF OperationTypeOK, To
<1>5. LockInv' /\ PhaseInv'
  BY <1>0, <1>2, <1>3, LockInvKept, PhaseInvKept, SMTT(30)
<1>6. TypeOK'
  BY <1>2, <1>3, <1>5, ZenonT(60)
  DEF StoreTypeOK, OperationTypeOK, To, Steps, Statuses, sweepVars, LockInv
<1>10. ReportedGone => ReportedGone'
  BY <1>2, GoneStays, Zenon
<1>7. UsedInv' /\ RequestedInv' /\ ContainerInv'
  BY <1>2, <1>10, Zenon DEF UsedInv, RequestedInv, ContainerInv
<1>8. StartupInv' /\ ForgetInv' /\ SweepInv'
  BY <1>0, <1>2, <1>4, <1>10, Zenon
  DEF StartupInv, StartupAt, Creating, ForgetInv, SweepInv, Actors, sweepVars
<1>9. StopInv'
  <2>1. step'[r] = s
    BY <1>4, Zenon
  <2>2. CASE s = "stopping"
    BY <2>1, <2>2 DEF StopInv, StoppingHasStopper
  <2>3. CASE s = "done"
    <3>1. \A q \in Requests : step[q] = "stopping" => q = r
      BY <1>1, Zenon DEF OthersWait, RequestFirst
    <3>2. To(r, "done") => ~To(r, "stopping")
      BY <2>1, <2>3, ZenonT(60) DEF OperationTypeOK, To
    <3> QED
      BY <1>2, <1>3, <2>3, <3>1, <3>2, Zenon DEF StopInv, StoppingHasStopper
  <2> QED
    BY <2>2, <2>3, Zenon
<1> QED
  BY <1>5, <1>6, <1>7, <1>8, <1>9, SMTT(30)

-----------------------------------------------------------------------------
(* Deletes.                                                                 *)

\* A delete begins, gets the lease, drops its guard or releases the lease.
LEMMA DeleteMoveInv ==
    ASSUME PodInv, NEW d \in Deletes,
           RequestDelete(d) \/ EndDelete(d) \/ DeleteLocking(d)
    PROVE  PodInv'
<1> USE DeleteKind DEF PodInv, TypeOK
<1>0. d \notin Cleaners /\ d \notin Requests
  BY ActorsAssumption, Zenon
<1>1. LockInv'
  BY BeginDeleteInv, EndDeleteInv, DeleteLockInv DEF RequestDelete, EndDelete, DeleteLocking
<1>2. \E p : Goto(d, p)
  BY Zenon DEF RequestDelete, EndDelete, DeleteLocking, BeginDelete, DeleteLock, LockOwned,
         Granted, DropGuard, ReleaseDelete
<1>3. PICK s \in DeleteFirst : To(d, s) \/ (s = step[d] /\ UNCHANGED step)
  BY Zenon DEF RequestDelete, EndDelete, DeleteLocking, DeleteLock, Granted, ReleaseDelete,
         PhaseInv, podVars, DeleteFirst
<1>4. /\ UNCHANGED <<rowVars, intents, backVars, used, forgotten, token, retried,
                     sweepVars, restarts>>
      /\ attempts' = attempts \/ attempts' = [attempts EXCEPT ![d] = 0]
  BY Zenon DEF RequestDelete, EndDelete, DeleteLocking, podVars, rowVars, backVars, sweepVars
<1>5. \A b \in Actors : step'[b] = IF b = d THEN s ELSE step[b]
  BY <1>3 DEF OperationTypeOK, To
<1>6. PhaseInv'
  BY <1>0, <1>2, <1>4, <1>5, MoveInv, Zenon
<1>7. OperationTypeOK'
  BY <1>3, <1>4, TokensAssumption DEF OperationTypeOK, To, Steps, DeleteFirst, sweepVars
<1> QED
  BY <1>0, <1>1, <1>4, <1>5, <1>6, <1>7, QuietInv, SMTT(30)
  DEF backVars, sweepVars, DeleteFirst, Actors

\* What every step of a delete's operation has in common.
LEMMA DeleteFrame ==
    ASSUME PodInv, NEW d \in Deletes, DeleteStep(d)
    PROVE  /\ phase[d] = "holding"
           /\ UNCHANGED <<lockVars, requested, created, used, token, retried, sweepVars,
                          restarts>>
           /\ attempts' \in [Deletes -> 0..(DeleteAttempts - 1)]
           /\ \E s \in Steps : To(d, s)
<1> USE DeleteKind DEF PodInv, TypeOK, OperationTypeOK, At, Continue, Return, backVars
<1>1. CASE ForgetIntents(d) \/ ForgetRow(d) \/ StartDelete(d)
  BY <1>1, Zenon DEF ForgetIntents, ForgetRow, StartDelete, Steps
<1>2. CASE RemoveInline(d)
  BY <1>2, Zenon DEF RemoveInline, Removed, NotRemoved, Steps
<1>3. CASE RemoveInBackground(d)
  <2>1. /\ phase[d] = "holding"
        /\ UNCHANGED <<lockVars, requested, created, used, token, retried, sweepVars,
                       restarts>>
    BY <1>3, Zenon DEF RemoveInBackground, Removed, NotRemoved
  <2>2. attempts' \in [Deletes -> 0..(DeleteAttempts - 1)]
    BY <1>3, TokensAssumption DEF RemoveInBackground, MoreAttempts
  <2>3. To(d, "retrying") \/ To(d, "done")
    BY <1>3, Zenon DEF RemoveInBackground, To
  <2> QED
    BY <2>1, <2>2, <2>3 DEF Steps
<1> QED
  BY <1>1, <1>2, <1>3, Zenon DEF DeleteStep

\* An actor that goes to a step leaves the others where they are.
LEMMA StepMoved ==
    ASSUME OperationTypeOK, NEW a \in Actors, NEW s \in Steps, To(a, s)
    PROVE  step' \in [Actors -> Steps] /\ \A b \in Actors : b # a => step'[b] = step[b]
BY Zenon DEF OperationTypeOK, To

\* A step keeps PodInv if it does so in the stores.
LEMMA DeleteStepKeeps ==
    ASSUME PodInv, NEW d \in Deletes, DeleteStep(d),
           StoreTypeOK', UsedInv', RequestedInv', ContainerInv',
           intents' \cap forgotten' = {},
           step'[d] = "forgetRow" => used' \subseteq forgotten',
           pod' = NoToken \/ status' # "Stopping" \/ UNCHANGED <<pod, status>>
    PROVE  PodInv'
<1> USE DeleteKind, DeleteFrame DEF PodInv
<1>0. d \notin Cleaners /\ d \notin Requests
  BY ActorsAssumption, Zenon
<1>1. OthersWait(d)
  BY Alone, Zenon
<1>2. step' \in [Actors -> Steps] /\ \A b \in Actors : b # d => step'[b] = step[b]
  <2>1. PICK s \in Steps : To(d, s)
    BY DeleteFrame, Zenon
  <2> QED
    BY <2>1, StepMoved, Zenon DEF TypeOK
<1>3. LockInv' /\ PhaseInv'
  BY LockInvKept, PhaseInvKept, Zenon
<1>4. TypeOK'
  BY <1>2, <1>3, Zenon DEF TypeOK, OperationTypeOK, LockInv, sweepVars
<1>5. StartupInv'
  <2> SUFFICES ASSUME NEW u \in Startups PROVE StartupAt(u)'
    BY Zenon DEF StartupInv
  <2>1. token'[u] = NoToken /\ step'[u] \in StartupFirst
    BY <1>1, <1>2, Zenon DEF OthersWait, Actors
  <2> QED
    BY <2>1, TokensAssumption, Zenon
    DEF StoreTypeOK, StartupAt, ReportedGone, Exited, Creating, StartupFirst
<1>6. ForgetInv'
  BY <1>1, <1>2 DEF ForgetInv, OthersWait, DeleteFirst, Actors
<1>7. SweepInv'
  BY <1>0, <1>1, <1>2, Zenon DEF SweepInv, OthersWait, CleanerFirst, Actors
<1>8. StopInv'
  BY <1>0, <1>1, <1>2, Zenon DEF StopInv, StoppingHasStopper, OthersWait, RequestFirst, Actors
<1> QED
  BY <1>3, <1>4, <1>5, <1>6, <1>7, <1>8, Zenon

\* delete_pod_impl_async removes the row with the container or not at all, and
\* forget removes it after every intent.
LEMMA DeleteStepInv ==
    ASSUME PodInv, NEW d \in Deletes, DeleteStep(d)
    PROVE  PodInv'
<1>0. /\ StoreTypeOK /\ OperationTypeOK /\ UsedInv /\ RequestedInv /\ ContainerInv
      /\ ForgetInv /\ d \in Actors
  BY DeleteKind, Zenon DEF PodInv, TypeOK
<1> USE <1>0 DEF At, Continue, Return, To, OperationTypeOK, rowVars, backVars
<1>1. CASE ForgetIntents(d)
  <2>1. /\ StoreTypeOK' /\ UsedInv' /\ RequestedInv' /\ ContainerInv'
        /\ intents' \cap forgotten' = {} /\ UNCHANGED <<pod, status>>
        /\ step'[d] = "forgetRow" => used' \subseteq forgotten'
    BY <1>1, Zenon
    DEF ForgetIntents, StoreTypeOK, UsedInv, RequestedInv, ContainerInv, ReportedGone, Exited,
        ForgetInv
  <2> QED
    BY <2>1, DeleteStepKeeps, Zenon
<1>2. CASE ForgetRow(d)
  <2>1. /\ StoreTypeOK' /\ UsedInv' /\ RequestedInv' /\ ContainerInv'
        /\ intents' \cap forgotten' = {} /\ pod' = NoToken /\ step'[d] # "forgetRow"
    BY <1>2, Zenon DEF ForgetRow, RemoveRow, StoreTypeOK, Statuses, UsedInv, RequestedInv,
                ContainerInv, ReportedGone, Exited, ForgetInv
  <2> QED
    BY <2>1, DeleteStepKeeps, Zenon
<1>3. CASE StartDelete(d)
  <2>1. /\ StoreTypeOK' /\ UsedInv' /\ RequestedInv' /\ ContainerInv'
        /\ intents' \cap forgotten' = {} /\ step'[d] # "forgetRow"
        /\ status' # "Stopping" \/ UNCHANGED <<pod, status>>
    BY <1>3, Zenon DEF StartDelete, SetStatus, StoreTypeOK, Statuses, UsedInv, RequestedInv,
                ContainerInv, ReportedGone, Exited, ForgetInv
  <2> QED
    BY <2>1, DeleteStepKeeps, Zenon
<1>4. CASE RemoveInline(d) \/ RemoveInBackground(d)
  <2>1. /\ UNCHANGED <<intents, requested, created, used, forgotten, token>>
        /\ container' = NoToken \/ UNCHANGED <<container, pod>>
        /\ running' \in {FALSE, running} /\ step'[d] # "forgetRow"
        /\ \/ pod' = NoToken /\ status' = "Initializing"
           \/ UNCHANGED <<pod, status>>
           \/ pod' = pod /\ status' = "DeleteFailed"
    BY <1>4, Zenon DEF RemoveInline, RemoveInBackground, Removed, NotRemoved, RemoveRow, SetStatus
  <2>2. StoreTypeOK'
    BY <2>1, Zenon DEF StoreTypeOK, Statuses
  <2>4. ReportedGone => ReportedGone'
    BY <2>1, GoneStays, Zenon
  <2>5. container' = NoToken => ReportedGone'
    BY Zenon DEF ReportedGone
  <2>3. UsedInv' /\ RequestedInv' /\ ContainerInv' /\ intents' \cap forgotten' = {}
    BY <2>1, <2>4, <2>5, Zenon
    DEF StoreTypeOK, UsedInv, RequestedInv, ContainerInv, ForgetInv
  <2> QED
    BY <2>1, <2>2, <2>3, DeleteStepKeeps, Zenon
<1> QED
  BY <1>1, <1>2, <1>3, <1>4, Zenon DEF DeleteStep

-----------------------------------------------------------------------------
(* The sweep.                                                               *)

\* The scan, the lease and the end of an entry.
LEMMA CleanerMoveInv ==
    ASSUME PodInv, NEW c \in Cleaners,
           \/ Scan(c) \/ SkipBusy(c) \/ TryEntry(c) \/ EndEntry(c) \/ CleanerLocking(c)
    PROVE  PodInv'
<1> USE DEF PodInv, TypeOK
<1>0. c \in Actors /\ c \notin Startups /\ c \notin Requests /\ c \notin Deletes
  BY ActorsAssumption DEF Actors
<1>1. CASE Scan(c) \/ SkipBusy(c)
  <2>1. /\ UNCHANGED <<lockVars, rowVars, intents, backVars, used, forgotten, opVars,
                       entry, restarts>>
        /\ scanned' \subseteq Tokens
    BY <1>1, Zenon DEF Scan, SkipBusy, StoreTypeOK, OperationTypeOK
  <2>2. LockInv' /\ PhaseInv'
    BY <2>1, LockInvKept, Zenon DEF lockVars, opVars, PhaseInv
  <2>3. OperationTypeOK'
    BY <2>1 DEF OperationTypeOK, opVars
  <2> QED
    BY <2>1, <2>2, <2>3, QuietInv, Zenon DEF opVars, backVars
<1>2. CASE TryEntry(c) \/ EndEntry(c) \/ CleanerLocking(c)
  <2>1. CleanerNext(c) /\ \E p : Goto(c, p)
    BY <1>2, Zenon DEF TryEntry, EndEntry, CleanerLocking, CleanerNext, CleanerTryLock,
                CleanerSkip, CleanerProceed, ReleaseCleaner
  <2>2. LockInv'
    BY <2>1, CleanerInv, Zenon
  <2>3. PICK s \in CleanerFirst : To(c, s) \/ (s = step[c] /\ UNCHANGED step)
    BY <1>2, Zenon DEF TryEntry, EndEntry, CleanerLocking, CleanerProceed, PhaseInv, podVars,
                CleanerFirst
  <2>4. /\ UNCHANGED <<rowVars, intents, backVars, used, forgotten, token, retried,
                       attempts, restarts>>
        /\ scanned' \subseteq scanned
        /\ \E k \in Tokens \cup {NoToken} : entry' = [entry EXCEPT ![c] = k]
    BY <1>2, Zenon DEF TryEntry, EndEntry, CleanerLocking, podVars, rowVars, backVars,
                OperationTypeOK
  <2>5. \A b \in Actors : step'[b] = IF b = c THEN s ELSE step[b]
    BY <1>0, <2>3 DEF OperationTypeOK, To
  <2>6. PhaseInv'
    BY <1>0, <2>1, <2>4, <2>5, MoveInv, ZenonT(60)
  <2>7. OperationTypeOK'
    BY <2>3, <2>4 DEF OperationTypeOK, To, Steps, CleanerFirst
  <2>8. \A e \in Cleaners : e # c => entry'[e] = entry[e]
    BY <2>4, Zenon DEF OperationTypeOK
  <2> QED
    BY <1>0, <2>2, <2>4, <2>5, <2>6, <2>7, <2>8, QuietInv, ZenonT(60)
       DEF backVars, CleanerFirst, Actors
<1> QED
  BY <1>1, <1>2, Zenon

\* What the sweep removes is not the pod's: its entry is not the row's token.
LEMMA CleanerStepInv ==
    ASSUME PodInv, NEW c \in Cleaners, CleanerStep(c)
    PROVE  PodInv'
<1> USE DEF PodInv, TypeOK, CleanerStep, At, Continue, Return, rowVars, sweepVars
<1>0. /\ c \in Actors /\ c \notin Startups /\ c \notin Requests /\ c \notin Deletes
      /\ phase[c] = "holding"
  BY ActorsAssumption, Zenon DEF Actors, Judge, DeleteCreation
<1>1. OthersWait(c)
  BY <1>0, Alone, Zenon
<1>2. /\ UNCHANGED <<lockVars, rowVars, intents, requested, created, used, forgotten,
                     token, retried, attempts, sweepVars, restarts>>
      /\ (container' = NoToken /\ running' = FALSE) \/ UNCHANGED <<container, running>>
      /\ \E s \in {"sweeping", "done"} : To(c, s)
  BY Zenon DEF Judge, DeleteCreation, Removed, backVars, KeepIntent
<1>3. step'[c] = "sweeping" => entry[c] \in intents /\ entry[c] # pod
  BY <1>0, Zenon DEF Judge, DeleteCreation, To, StillPending, Wanted, OperationTypeOK
<1>4. step' \in [Actors -> Steps] /\ \A b \in Actors : b # c => step'[b] = step[b]
  BY <1>2, Zenon DEF OperationTypeOK, To, Steps
<1>5. LockInv' /\ PhaseInv'
  BY <1>0, <1>2, LockInvKept, PhaseInvKept, Zenon
<1>6. StoreTypeOK'
  BY <1>2, Zenon DEF StoreTypeOK
<1>7. TypeOK'
  BY <1>2, <1>4, <1>5, <1>6, SMTT(30) DEF OperationTypeOK, LockInv
<1>13. ReportedGone => ReportedGone'
  BY <1>2, GoneStays, Zenon
<1>14. container' = NoToken => ReportedGone'
  BY Zenon DEF ReportedGone
<1>8. UsedInv' /\ RequestedInv' /\ ContainerInv'
  BY <1>2, <1>13, <1>14, Zenon DEF UsedInv, RequestedInv, ContainerInv
<1>9. StartupInv'
  <2> SUFFICES ASSUME NEW u \in Startups PROVE StartupAt(u)'
    BY Zenon DEF StartupInv
  <2>1. token'[u] = NoToken /\ step'[u] \in StartupFirst
    BY <1>0, <1>1, <1>2, <1>4, SMTT(30) DEF OthersWait, Actors
  <2> QED
    BY <1>6, <2>1, TokensAssumption, Zenon
    DEF StoreTypeOK, StartupAt, ReportedGone, Exited, Creating, StartupFirst
<1>10. ForgetInv'
  BY <1>0, <1>2, <1>4, Zenon DEF ForgetInv, Actors
<1>11. SweepInv'
  BY <1>1, <1>2, <1>3, <1>4, SMTT(30) DEF SweepInv, OthersWait, CleanerFirst, Actors
<1>12. StopInv'
  BY <1>0, <1>2, <1>4, Zenon DEF StopInv, StoppingHasStopper, Actors
<1> QED
  BY <1>5, <1>7, <1>8, <1>9, <1>10, <1>11, <1>12, ZenonT(60)

-----------------------------------------------------------------------------
(* The environment.                                                         *)

\* A late create finds its intent in place, or was forgotten.
LEMMA BackendCreateInv ==
    ASSUME PodInv, BackendCreate
    PROVE  PodInv'
<1> USE DEF PodInv, TypeOK, opVars, sweepVars, rowVars
<1>0. /\ UNCHANGED <<lockVars, rowVars, intents, used, forgotten, opVars, sweepVars,
                     restarts>>
  BY Zenon DEF BackendCreate
<1>1. PICK k \in requested :
        /\ requested' = requested \ {k}
        /\ IF container = NoToken
           THEN /\ container' = k
                /\ running' = Kubernetes
                /\ created' = created \cup {token[t] : t \in {u \in Startups : Awaits(u, k)}}
           ELSE UNCHANGED <<container, running, created>>
  BY Zenon DEF BackendCreate
<1>2. /\ container' \in {container, k} /\ running' \in BOOLEAN
      /\ created' \subseteq created \cup {k}
      /\ \A t \in Startups : token[t] \in created' =>
            token[t] \in created \/ (token[t] = k /\ \E u \in Startups : Awaits(u, k))
  BY <1>1, TokensAssumption DEF Awaits, StoreTypeOK
<1>3. k \in Tokens /\ k \in used /\ k \in intents \cup forgotten
  BY Zenon DEF StoreTypeOK, UsedInv, RequestedInv
<1>4. LockInv' /\ PhaseInv'
  BY <1>0, LockInvKept, Zenon DEF lockVars, PhaseInv
<1>5. TypeOK'
  BY <1>0, <1>1, <1>2, <1>3, <1>4, Zenon DEF StoreTypeOK, OperationTypeOK, LockInv
<1>6. UsedInv' /\ RequestedInv' /\ ContainerInv'
  BY <1>0, <1>1, <1>2, <1>3, Zenon DEF UsedInv, RequestedInv, ContainerInv, ReportedGone, Exited
<1>7. StartupInv'
  <2> SUFFICES ASSUME NEW t \in Startups PROVE StartupAt(t)'
    BY Zenon DEF StartupInv
  <2>1. StartupAt(t) /\ t \in Actors
    BY DEF StartupInv, Actors
  <2>2. ASSUME token[t] = k PROVE \A u \in Startups : Awaits(u, k) => u = t
    BY <1>3, <2>2, TokensAssumption, ZenonT(60)
       DEF PhaseInv, LockInv, LeaseInv, InCritical, Awaits, Actors
  <2>3. step[t] # "creating" => token[t] \notin created'
    BY <1>2, <2>1, <2>2 DEF StartupAt, ReportedGone, Exited, Awaits
  <2> QED
    BY <1>0, <1>1, <1>2, <1>3, <2>1, <2>3, Zenon DEF StartupAt, ReportedGone, Exited, Creating
<1>8. ForgetInv' /\ SweepInv' /\ StopInv'
  BY <1>0, Zenon DEF ForgetInv, SweepInv, StopInv, StoppingHasStopper
<1> QED
  BY <1>4, <1>5, <1>6, <1>7, <1>8, Zenon

\* Losing a request or a container leaves less to keep track of.
LEMMA BackendLosesInv ==
    ASSUME PodInv, BackendDrop \/ BackendLoses \/ DeleteAllPods
    PROVE  PodInv'
<1> USE DEF PodInv, TypeOK, opVars, sweepVars, rowVars
<1>1. /\ UNCHANGED <<lockVars, rowVars, intents, used, forgotten, opVars, sweepVars,
                     restarts, created>>
      /\ container' \in {container, NoToken} /\ running' \in {running, FALSE}
      /\ requested' \subseteq requested
  BY Zenon DEF BackendDrop, BackendLoses, DeleteAllPods, Removed
<1>2. LockInv' /\ PhaseInv'
  BY <1>1, LockInvKept DEF lockVars, PhaseInv
<1>3. TypeOK'
  BY <1>1, <1>2, Zenon DEF StoreTypeOK, OperationTypeOK, LockInv
<1>7. ReportedGone => ReportedGone'
  BY <1>1, GoneStays, Zenon
<1>8. container' = NoToken => ReportedGone'
  BY Zenon DEF ReportedGone
<1>4. UsedInv' /\ RequestedInv' /\ ContainerInv'
  BY <1>1, <1>7, <1>8, Zenon DEF UsedInv, RequestedInv, ContainerInv
<1>5. StartupInv'
  BY <1>1, <1>7, <1>8, Zenon DEF StartupInv, StartupAt, Creating
<1>6. ForgetInv' /\ SweepInv' /\ StopInv'
  BY <1>1 DEF ForgetInv, SweepInv, StopInv, StoppingHasStopper
<1> QED
  BY <1>2, <1>3, <1>4, <1>5, <1>6, SMTT(30)

\* A crash forgets the operations and nothing else.
LEMMA RestartInv ==
    ASSUME PodInv, Restart
    PROVE  PodInv'
<1> USE DEF PodInv, TypeOK, Restart, backVars, rowVars
<1>1. LockInv'
  BY LockLostInv, Zenon
<1>2. /\ \A a \in Actors : step'[a] = "none"
      /\ \A t \in Startups : token'[t] = NoToken
      /\ restarts' \in Nat /\ restarts' # 0
  BY DEF OperationTypeOK
<1>3. PhaseInv'
  BY <1>2, Zenon DEF PhaseInv, Actors
<1>4. StoreTypeOK'
  BY Zenon DEF StoreTypeOK
<1>5. OperationTypeOK'
  BY <1>2, TokensAssumption DEF OperationTypeOK, Steps
<1>6. UsedInv' /\ RequestedInv' /\ ContainerInv'
  BY <1>2, Zenon DEF UsedInv, RequestedInv, ContainerInv, ReportedGone, Exited
<1>7. StartupInv'
  BY <1>2, <1>4, TokensAssumption, Zenon
  DEF StartupInv, StartupAt, ReportedGone, Exited, Creating, StoreTypeOK, Actors
<1>8. ForgetInv' /\ SweepInv' /\ StopInv'
  BY <1>2, Zenon DEF ForgetInv, SweepInv, StopInv, StoppingHasStopper, Actors
<1> QED
  BY <1>1, <1>3, <1>4, <1>5, <1>6, <1>7, <1>8, SMTT(30) DEF LockInv

\* for_pod dropping the lock's record of a quiet pod changes nothing here.
LEMMA FreshLockInv ==
    ASSUME PodInv, FreshLock
    PROVE  PodInv'
<1>1. LockInv'
  BY ForPodFreshInv, Zenon DEF PodInv, FreshLock
<1>2. PhaseInv'
  BY Zenon DEF PodInv, FreshLock, ForPodFresh, podVars, PhaseInv
<1> QED
  BY <1>1, <1>2, LockingInv, Zenon DEF FreshLock

-----------------------------------------------------------------------------
(* The theorems.                                                            *)

\* The daemon's first start: no row, no intent and no container satisfy PodInv.
LEMMA PodInitInv ==
    Init => PodInv
<1> SUFFICES ASSUME Init PROVE PodInv
  BY Zenon
<1> USE TokensAssumption DEF Init
<1>1. LockInv
  BY LockInitInv, Zenon
<1>2. StoreTypeOK /\ OperationTypeOK
  <2>1. StoreTypeOK
    BY Zenon DEF StoreTypeOK, Statuses
  <2>2. OperationTypeOK
    BY DEF OperationTypeOK, Steps
  <2> QED
    BY <2>1, <2>2, Zenon
<1>3. PhaseInv
  BY Zenon DEF PhaseInv, Actors
<1>4. UsedInv /\ StartupInv /\ RequestedInv /\ ContainerInv
  BY Zenon
  DEF UsedInv, StartupInv, StartupAt, Creating, RequestedInv, ContainerInv, ReportedGone,
      Exited, Actors
<1>5. ForgetInv /\ SweepInv /\ StopInv
  BY Zenon DEF ForgetInv, SweepInv, StopInv, StoppingHasStopper, Actors
<1> QED
  BY <1>1, <1>2, <1>3, <1>4, <1>5, Zenon DEF PodInv, TypeOK, LockInv

\* Every step of the daemon's operations, of the backend and of a restart keeps
\* PodInv.
LEMMA PodStepInv ==
    ASSUME PodInv, [Next]_vars
    PROVE  PodInv'
<1>1. CASE UNCHANGED vars
  <2>1. UNCHANGED lockVars /\ UNCHANGED podVars
    BY <1>1, Zenon DEF vars
  <2>2. LockInv' /\ PhaseInv'
    BY <2>1, LockInvKept, ZenonT(60) DEF PodInv, lockVars, podVars, PhaseInv
  <2> QED
    BY <2>1, <2>2, LockingInv, Zenon
<1>2. ASSUME NEW t \in Startups,
             SpawnOperation(t) \/ StartupLocking(t) \/ StartupStep(t) \/ EndStartup(t)
      PROVE  PodInv'
  BY SMTT(30), <1>2, SpawnOperationInv, StartupLockingInv, EndStartupInv, LookInv, RowGoesInv,
     ContainerStepInv, CreationInv DEF StartupStep
<1>3. ASSUME NEW r \in Requests,
             QueueRequest(r) \/ RequestLocking(r) \/ RequestStep(r) \/ EndRequest(r)
      PROVE  PodInv'
  BY <1>3, RequestMoveInv, StopStepInv, Zenon
<1>4. ASSUME NEW d \in Deletes,
             RequestDelete(d) \/ DeleteLocking(d) \/ DeleteStep(d) \/ EndDelete(d)
      PROVE  PodInv'
  BY <1>4, DeleteMoveInv, DeleteStepInv, Zenon
<1>5. ASSUME NEW c \in Cleaners,
             \/ Scan(c) \/ SkipBusy(c) \/ TryEntry(c)
             \/ CleanerLocking(c) \/ CleanerStep(c) \/ EndEntry(c)
      PROVE  PodInv'
  BY <1>5, CleanerMoveInv, CleanerStepInv
<1>6. CASE \/ BackendCreate \/ BackendDrop \/ BackendLoses \/ DeleteAllPods
           \/ Restart \/ FreshLock
  BY <1>6, BackendCreateInv, BackendLosesInv, RestartInv, FreshLockInv, Zenon
<1> QED
  BY <1>1, <1>2, <1>3, <1>4, <1>5, <1>6, SMTT(30) DEF Next

\* The inductive invariant holds in every reachable state, for any number of
\* actors, tokens, restarts and delete attempts, on either kind of host.
THEOREM PodInvariant == Spec => []PodInv
<1>1. PodInv /\ [Next]_vars => PodInv'
  BY PodStepInv, Zenon
<1> QED
  BY <1>1, PodInitInv, PTL DEF Spec

\* The state of PodLifecycle is well formed; in particular the background delete
\* never indexes past the end of delays_secs.
THEOREM PodTypeCorrect == Spec => []TypeOK
<1>1. PodInv => TypeOK
  BY Zenon DEF PodInv
<1> QED
  BY <1>1, PodInvariant, PTL

\* No backend resource that runs or may come to run escapes the daemon, whatever
\* is cancelled, lost or killed; what can be left over is the object of a
\* Kubernetes pod that has exited (forget_gone_pod).
THEOREM PodNoOrphan == Spec => []NoOrphan
<1>1. PodInv => NoOrphan
  BY TokensAssumption, Zenon
  DEF PodInv, ContainerInv, ReportedGone, Exited, RequestedInv, NoOrphan, Outstanding
<1> QED
  BY <1>1, PodInvariant, PTL

\* A row says Stopping only while a stop is at work, unless the daemon died.
THEOREM PodStoppingHasStopper == Spec => []StoppingHasStopper
<1>1. PodInv => StoppingHasStopper
  BY Zenon DEF PodInv, StopInv
<1> QED
  BY <1>1, PodInvariant, PTL

\* Whatever moves another actor does not move c.
LEMMA OthersStep ==
    ASSUME OperationTypeOK, NEW c \in Actors, NEW a \in Actors \ {c}, NEW s, To(a, s)
    PROVE  step'[c] = step[c]
BY DEF OperationTypeOK, To

\* A cleaner goes from "sweeping" to "done" by delete_creation_async only.
LEMMA OnlyDeleteCreation ==
    ASSUME PodInv, Next, NEW c \in Cleaners, step[c] = "sweeping", step'[c] = "done"
    PROVE  DeleteCreation(c)
<1>0. /\ OperationTypeOK /\ c \in Actors
      /\ c \notin Startups /\ c \notin Requests /\ c \notin Deletes
  BY ActorsAssumption, Zenon DEF PodInv, TypeOK, Actors
<1>1. \A a \in Actors \ {c} : \A s : ~To(a, s)
  BY <1>0, OthersStep, Zenon
<1>2. step' # step
  BY Zenon
<1>3. ASSUME NEW t \in Startups,
             SpawnOperation(t) \/ StartupLocking(t) \/ StartupStep(t) \/ EndStartup(t)
      PROVE  FALSE
  <2>1. \A s : ~To(t, s)
    BY <1>0, <1>1, StartupKind, SMTT(30)
  <2> QED
    BY <1>2, <1>3, <2>1, StartupFrame, ZenonT(60)
    DEF SpawnOperation, StartupLocking, EndStartup, podVars, To
<1>4. ASSUME NEW r \in Requests,
             QueueRequest(r) \/ RequestLocking(r) \/ RequestStep(r) \/ EndRequest(r)
      PROVE  FALSE
  <2>1. \A s : ~To(r, s)
    BY <1>0, <1>1, RequestKind
  <2> QED
    BY <1>2, <1>4, <2>1, Zenon DEF QueueRequest, RequestLocking, EndRequest, podVars, RequestStep,
                           BeginStop, FinishStop, Continue, Return
<1>5. ASSUME NEW d \in Deletes,
             RequestDelete(d) \/ DeleteLocking(d) \/ DeleteStep(d) \/ EndDelete(d)
      PROVE  FALSE
  <2>1. \A s : ~To(d, s)
    BY <1>0, <1>1, DeleteKind
  <2> QED
    BY <1>2, <1>5, <2>1, DeleteFrame, Zenon DEF RequestDelete, DeleteLocking, EndDelete, podVars
<1>6. ASSUME NEW e \in Cleaners,
             \/ Scan(e) \/ SkipBusy(e) \/ TryEntry(e)
             \/ CleanerLocking(e) \/ CleanerStep(e) \/ EndEntry(e)
      PROVE  DeleteCreation(c)
  <2>1. e # c => \A s : ~To(e, s)
    BY <1>1, Zenon DEF Actors
  <2>2. ~Scan(e) /\ ~SkipBusy(e) /\ ~CleanerLocking(e)
    BY <1>2, Zenon DEF Scan, SkipBusy, CleanerLocking, opVars, podVars
  <2>3. ~TryEntry(e) /\ ~EndEntry(e) /\ ~Judge(e)
    BY <1>0, <2>1, Zenon DEF TryEntry, EndEntry, Judge, At, Continue, Return, OperationTypeOK, To
  <2>4. DeleteCreation(e) => e = c
    BY <2>1, Zenon DEF DeleteCreation, Return
  <2> QED
    BY <1>6, <2>2, <2>3, <2>4, Zenon DEF CleanerStep
<1>7. CASE \/ BackendCreate \/ BackendDrop \/ BackendLoses \/ DeleteAllPods
           \/ Restart \/ FreshLock
  BY <1>0, <1>2, <1>7, SMTT(30) DEF BackendCreate, BackendDrop, BackendLoses, DeleteAllPods,
     Restart,
                          FreshLock, podVars, opVars
<1> QED
  BY <1>3, <1>4, <1>5, <1>6, <1>7, Zenon DEF Next

\* A sweep that removes a container removes one whose creation is still pending
\* and is not the row's.
LEMMA SweepTakes ==
    ASSUME PodInv, [Next]_vars, SweepStep, container' # container
    PROVE  container \in intents /\ container # pod
<1>1. PICK c \in Cleaners : step[c] = "sweeping" /\ step'[c] = "done"
  BY Zenon DEF SweepStep
<1>2. Next
  BY Zenon DEF vars, podVars
<1>3. DeleteCreation(c)
  BY <1>1, <1>2, OnlyDeleteCreation, Zenon
<1>4. container = entry[c]
  BY <1>3, Zenon DEF DeleteCreation, ListCreation, backVars
<1> QED
  BY <1>1, <1>4, Zenon DEF PodInv, SweepInv

\* The sweep never removes the container its pod's row was created with.
THEOREM PodSweepSparesWanted == Spec => SweepSparesWanted
<1> DEFINE Spares == SweepStep /\ pod # NoToken /\ container = pod => container' = container
<1>1. ASSUME PodInv, [Next]_vars PROVE [Spares]_vars
  BY <1>1, SweepTakes, Zenon
<1> QED
  BY <1>1, PodInvariant, PTL DEF Spec, SweepSparesWanted

\* The sweep never removes what `delete --forget` left alone.
THEOREM PodSweepSparesForgotten == Spec => SweepSparesForgotten
<1> DEFINE Spares == SweepStep /\ container \in forgotten => container' = container
<1>1. ASSUME PodInv, [Next]_vars PROVE [Spares]_vars
  BY <1>1, SweepTakes, Zenon DEF PodInv, ForgetInv
<1> QED
  BY <1>1, PodInvariant, PTL DEF Spec, SweepSparesForgotten

\* While a delete is removing the pod, nobody else changes the row.
THEOREM PodDeleteOwnsRow == Spec => DeleteOwnsRow
<1> DEFINE Owns(d) == step[d] \in {"removing", "retrying"} /\ rowVars' # rowVars
                          => step'[d] = "done"
<1>1. ASSUME PodInv, Next, NEW d \in Deletes, step[d] \in {"removing", "retrying"},
             rowVars' # rowVars
      PROVE  step'[d] = "done"
  <2>0. d \in Actors /\ OperationTypeOK
    BY <1>1, DeleteKind, Zenon DEF PodInv, TypeOK
  <2>1. phase[d] = "holding"
    BY <1>1, Zenon DEF PodInv, PhaseInv
  <2>2. \A a \in Actors \ {d} : phase[a] \notin {"running", "holding"}
    BY <1>1, <2>0, <2>1, SMTT(30) DEF PodInv, LockInv, LeaseInv, InCritical
  <2>3. ASSUME NEW t \in Startups,
               SpawnOperation(t) \/ StartupLocking(t) \/ StartupStep(t) \/ EndStartup(t)
        PROVE  FALSE
    BY <1>1, <2>2, <2>3, StartupKind, DeleteKind, StartupFrame, ZenonT(60)
    DEF SpawnOperation, StartupLocking, EndStartup, podVars, rowVars
  <2>4. ASSUME NEW r \in Requests,
               QueueRequest(r) \/ RequestLocking(r) \/ RequestStep(r) \/ EndRequest(r)
        PROVE  FALSE
    BY <1>1, <2>2, <2>4, RequestKind, DeleteKind, Zenon
    DEF QueueRequest, RequestLocking, EndRequest, RequestStep, BeginStop, FinishStop, At,
        podVars, rowVars
  <2>5. ASSUME NEW e \in Deletes,
               RequestDelete(e) \/ DeleteLocking(e) \/ DeleteStep(e) \/ EndDelete(e)
        PROVE  step'[d] = "done"
    <3>1. DeleteStep(e)
      BY <1>1, <2>5 DEF RequestDelete, DeleteLocking, EndDelete, podVars, rowVars
    <3>2. e = d
      BY <1>1, <2>2, <3>1, DeleteKind, DeleteFrame, ZenonT(60)
    <3>3. RemoveInline(d) \/ RemoveInBackground(d)
      BY <1>1, <3>1, <3>2, Zenon DEF DeleteStep, ForgetIntents, ForgetRow, StartDelete, At
    <3>4. Return(d)
      BY <1>1, <3>3, Zenon DEF RemoveInline, RemoveInBackground, rowVars
    <3> QED
      BY <2>0, <3>4, Zenon DEF Return, To, OperationTypeOK
  <2>6. ASSUME NEW c \in Cleaners,
               \/ Scan(c) \/ SkipBusy(c) \/ TryEntry(c)
               \/ CleanerLocking(c) \/ CleanerStep(c) \/ EndEntry(c)
        PROVE  FALSE
    BY <1>1, <2>6, Zenon DEF Scan, SkipBusy, TryEntry, CleanerLocking, CleanerStep, Judge,
                      DeleteCreation, EndEntry, podVars, rowVars
  <2>7. ~(\/ BackendCreate \/ BackendDrop \/ BackendLoses \/ DeleteAllPods
          \/ Restart \/ FreshLock)
    BY <1>1, Zenon DEF BackendCreate, BackendDrop, BackendLoses, DeleteAllPods, Restart, FreshLock,
                podVars, rowVars
  <2> QED
    BY <1>1, <2>3, <2>4, <2>5, <2>6, <2>7, ZenonT(60) DEF Next
<1>2. ASSUME PodInv, [Next]_vars PROVE [\A d \in Deletes : Owns(d)]_vars
  BY <1>1, <1>2, Zenon DEF vars
<1> QED
  BY <1>2, PodInvariant, PTL DEF Spec, DeleteOwnsRow
=============================================================================
