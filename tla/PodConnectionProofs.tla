------------------------ MODULE PodConnectionProofs -------------------------
(***************************************************************************)
(* The safety properties of PodConnection, for any loops and clients, any  *)
(* limits, and any mix of operations and faults.                           *)
(*                                                                         *)
(* TypeOK is inductive by itself; it is proved in parts, by what changes   *)
(* together, one step per action.  So is ConnInv, whose other parts are:   *)
(*   LoopInv     the slot names the one loop that is not told to stop, and *)
(*               a loop that was admitted and whose epoch is current is    *)
(*               not told to stop: what it learned is about the slot's     *)
(*               connection.  Currency alone is not enough, since a loop   *)
(*               that is told to stop still notes the epoch at its top;    *)
(*   QuietInv    the properties of greetings and of Stopped;               *)
(*   RemovedInv  a removed connection keeps nothing, and no operation is   *)
(*               at work on it;                                            *)
(*   and that no request is paused and no served client left waiting.      *)
(***************************************************************************)
EXTENDS PodConnection, TLAPS

-----------------------------------------------------------------------------
(* Types                                                                     *)

\* TypeOK in parts, by what changes together.
FlagType ==
    /\ status \in Statuses
    /\ paused \in BOOLEAN /\ requested \in BOOLEAN /\ processing \in BOOLEAN
    /\ httpVersion \in Loops \cup {NoLoop} /\ removed \in BOOLEAN

RouteType ==
    /\ server \in Route /\ tunnel \in Route
    /\ supervise \in BOOLEAN /\ validate \in BOOLEAN
    /\ podUp \in BOOLEAN /\ setupDone \in BOOLEAN

EpochType ==
    /\ slot \in Loops \cup {NoLoop}
    /\ noted \subseteq Loops \cup {Supervisor}
    /\ current \subseteq Loops \cup {Supervisor}

LoopType ==
    /\ pc \in [Loops -> LoopPlaces]
    /\ stop \subseteq Loops /\ wasDown \subseteq Loops /\ routed \subseteq Loops
    /\ failures \in [Loops -> 0 .. FailureLimit - 1]

TaskType ==
    /\ sup \in Attempt \cup {"idle", "admit", "wait"}
    /\ supFailures \in 0 .. FailureLimit - 1
    /\ cooling \in Nat

PartyType ==
    /\ todo \in Seq(ForegroundSteps)
    /\ client \in [Clients -> {"none", "prepared", "waiting", "told"}]
    /\ hostStatus \in {"Connected", "Disconnected"}
    /\ hostEvents \in Seq({"Connected", "Disconnected"})

\* TypeOK is the conjunction of its parts, in a state ...
LEMMA TypeParts ==
    TypeOK <=> FlagType /\ RouteType /\ EpochType /\ LoopType /\ TaskType /\ PartyType
BY Zenon DEF TypeOK, FlagType, RouteType, EpochType, LoopType, TaskType, PartyType

\* ... and in the next.
LEMMA TypePartsNext ==
    TypeOK' <=> FlagType' /\ RouteType' /\ EpochType' /\ LoopType' /\ TaskType' /\ PartyType'
BY Zenon DEF TypeOK, FlagType, RouteType, EpochType, LoopType, TaskType, PartyType

-----------------------------------------------------------------------------
(* What an operation has to do is always a sequence of steps.              *)

\* What reconnecting comes to.
LEMMA ReconnectSteps ==
    ASSUME NEW repairServer \in BOOLEAN
    PROVE  Reconnect(repairServer) \in Seq(ForegroundSteps)
<1>1. CASE repairServer \/ Compose
  BY <1>1 DEF Reconnect, ForegroundSteps
<1>2. CASE ~(repairServer \/ Compose)
  BY <1>2 DEF Reconnect, ForegroundSteps
<1> QED BY <1>1, <1>2, Zenon

\* What the other operations come to.
LEMMA ShortSteps ==
    /\ <<>> \in Seq(ForegroundSteps)
    /\ <<"enable">> \in Seq(ForegroundSteps)
    /\ <<"enable", "events", "tunnel">> \in Seq(ForegroundSteps)
  BY DEF ForegroundSteps

\* A step put in front.
LEMMA StepFirst ==
    ASSUME NEW s \in Seq(ForegroundSteps), NEW step \in ForegroundSteps
    PROVE  <<step>> \o s \in Seq(ForegroundSteps)
  BY DEF ForegroundSteps

\* What remains after a step.
LEMMA StepRest ==
    ASSUME NEW s \in Seq(ForegroundSteps), s # <<>>
    PROVE  Tail(s) \in Seq(ForegroundSteps)
  OBVIOUS

-----------------------------------------------------------------------------
(* The steps.                                                               *)

\* Every step of an event loop keeps the types: in particular the counter of
\* failures stays below the limit.
LEMMA LoopTypes ==
    ASSUME TypeOK, NEW l \in Loops, LoopStep(l) \/ LoopBroken(l)
    PROVE  TypeOK'
<1> USE TypeParts, TypePartsNext, ConnectionAssumption
    DEF connVars, routeVars, epochVars, loopVars, supVars, hostVars, podVars
<1>1. CASE LoopIdle(l)
  BY <1>1, Zenon DEF LoopIdle, WantsReconnect, EpochType, FlagType, RouteType,
     LoopType, TaskType, PartyType
<1>2. CASE LoopResume(l)
  BY <1>2, Zenon DEF LoopResume, Goto, HostIsConnected, WantsReconnect, LoopType,
     LoopPlaces, FlagType, RouteType, EpochType, TaskType, PartyType
<1>3. CASE LoopExit(l)
  BY <1>3 DEF LoopExit, Goto, EpochType, LoopType, LoopPlaces, FlagType,
     RouteType, TaskType, PartyType
<1>4. CASE LoopHostUp(l)
  <2>1. EpochType'
    BY <1>4, Zenon DEF LoopHostUp, Goto, EpochType
  <2>2. LoopType'
    BY <1>4 DEF LoopHostUp, Goto, LoopType, LoopPlaces
  <2>3. FlagType' /\ RouteType'
    BY <1>4, Zenon DEF LoopHostUp, FlagType, RouteType
  <2>4. TaskType' /\ PartyType'
    BY <1>4, Zenon DEF LoopHostUp, TaskType, PartyType
  <2> QED
    BY <2>1, <2>2, <2>3, <2>4, Zenon
<1>5. CASE LoopHostDown(l)
  BY <1>5, Zenon DEF LoopHostDown, Goto, LoopType, LoopPlaces, FlagType, RouteType,
     EpochType, TaskType, PartyType
<1>6. CASE LoopSetHostDown(l)
  BY <1>6, Zenon DEF LoopSetHostDown, Goto, FlagType, Statuses, LoopType, LoopPlaces,
     RouteType, EpochType, TaskType, PartyType
<1>7. CASE LoopSetConnecting(l)
  BY <1>7, Zenon DEF LoopSetConnecting, Goto, FlagType, Statuses, EpochType, LoopType,
     LoopPlaces, RouteType, TaskType, PartyType
<1>8. CASE LoopInterrupted(l)
  BY <1>8, SMTT(30) DEF LoopInterrupted, Goto, EpochType, LoopType, LoopPlaces, TaskType,
     Attempt, FlagType, RouteType, PartyType
<1>9. CASE LoopAdmit(l)
  <2>1. EpochType'
    BY <1>9, Zenon DEF LoopAdmit, Goto, WantsReconnect, HostIsConnected, FreeSlots,
       Attempt, EpochType
  <2>2. LoopType'
    BY <1>9, ZenonT(60) DEF LoopAdmit, Goto, WantsReconnect, HostIsConnected, FreeSlots,
       Attempt, LoopType, LoopPlaces
  <2>3. TaskType'
    BY <1>9 DEF LoopAdmit, Goto, WantsReconnect, HostIsConnected, FreeSlots,
       Attempt, TaskType
  <2>4. FlagType' /\ RouteType' /\ PartyType'
    BY <1>9 DEF LoopAdmit, FlagType, RouteType, PartyType
  <2> QED
    BY <2>1, <2>2, <2>3, <2>4, Zenon
<1>10. CASE LoopHeaders(l)
  BY <1>10, Zenon DEF LoopHeaders, Goto, Reachable, LoopType, LoopPlaces, FlagType,
     RouteType, EpochType, TaskType, PartyType
<1>11. CASE LoopGreeting(l)
  BY <1>11, Zenon DEF LoopGreeting, Goto, Reachable, LoopType, LoopPlaces, FlagType,
     RouteType, EpochType, TaskType, PartyType
<1>12. CASE LoopApply(l)
  <2>1. FlagType'
    BY <1>12, Zenon DEF LoopApply, Goto, FinishRequest, Told, Served, FlagType, Statuses
  <2>2. LoopType'
    BY <1>12, Zenon DEF LoopApply, Goto, FinishRequest, Told, Served, LoopType, LoopPlaces
  <2>3. PartyType'
    BY <1>12, Zenon DEF LoopApply, Goto, FinishRequest, Told, Served, PartyType,
       ForegroundSteps
  <2>4. RouteType' /\ EpochType' /\ TaskType'
    BY <1>12, Zenon DEF LoopApply, RouteType, EpochType, TaskType
  <2> QED
    BY <2>1, <2>2, <2>3, <2>4, Zenon
<1>13. CASE LoopEvent(l)
  BY <1>13, Zenon DEF LoopEvent, Goto, Reachable, HostIsConnected, LoopType,
     LoopPlaces, FlagType, RouteType, EpochType, TaskType, PartyType
<1>14. CASE LoopAgent(l)
  BY <1>14, Zenon DEF LoopAgent, Goto, FlagType, Statuses, LoopType, LoopPlaces,
     RouteType, EpochType, TaskType, PartyType
<1>15. CASE LoopLost(l)
  BY <1>15, Zenon DEF LoopLost, Goto, HostIsConnected, LoopType, LoopPlaces, FlagType,
     RouteType, EpochType, TaskType, PartyType
<1>16. CASE LoopError(l)
  BY <1>16, SMTT(30) DEF LoopError, Fails, Goto, Reachable, LoopType, LoopPlaces,
     TaskType, Attempt, FlagType, RouteType, EpochType, PartyType
<1>17. CASE LoopBroken(l)
  BY <1>17, SMTT(30) DEF LoopBroken, Fails, Goto, Reachable, Unnoticed, LoopType,
     LoopPlaces, TaskType, Attempt, FlagType, RouteType, EpochType, PartyType
<1>18. CASE LoopFailed(l)
  <2>1. FlagType'
    BY <1>18, Zenon DEF LoopFailed, Backoff, Goto, PauseRepair, Signal, FlagType, Statuses
  <2>2. EpochType'
    BY <1>18, Zenon DEF LoopFailed, Backoff, Goto, PauseRepair, Signal, EpochType
  <2>3. LoopType'
    BY <1>18 DEF LoopFailed, Backoff, Goto, PauseRepair, Signal, LoopType,
       LoopPlaces
  <2>4. RouteType' /\ TaskType' /\ PartyType'
    BY <1>18, Zenon DEF LoopFailed, RouteType, TaskType, PartyType
  <2> QED
    BY <2>1, <2>2, <2>3, <2>4, Zenon
<1>19. CASE LoopEnded(l)
  <2>1. FlagType'
    BY <1>19, Zenon DEF LoopEnded, Goto, Backoff, PauseRepair, Signal, HostIsConnected,
       FlagType, Statuses
  <2>2. EpochType'
    BY <1>19, Zenon DEF LoopEnded, Goto, Backoff, PauseRepair, Signal, HostIsConnected,
       EpochType
  <2>3. LoopType'
    BY <1>19 DEF LoopEnded, Goto, Backoff, PauseRepair, Signal, HostIsConnected,
       LoopType, LoopPlaces
  <2>4. RouteType' /\ TaskType' /\ PartyType'
    BY <1>19, Zenon DEF LoopEnded, RouteType, TaskType, PartyType
  <2> QED
    BY <2>1, <2>2, <2>3, <2>4, Zenon
<1>20. CASE LoopWait(l)
  BY <1>20, SMTT(90) DEF LoopWait, Goto, EpochType, LoopType, LoopPlaces, FlagType,
     RouteType, TaskType, PartyType
<1> QED
  BY ZenonT(60), <1>1, <1>2, <1>3, <1>4, <1>5, <1>6, <1>7, <1>8, <1>9, <1>10, <1>11, <1>12,
     <1>13, <1>14, <1>15, <1>16, <1>17, <1>18, <1>19, <1>20 DEF LoopStep

\* Every step of the supervisor keeps the types.
LEMMA SupervisorTypes ==
    ASSUME TypeOK, SupervisorStep
    PROVE  TypeOK'
<1> USE TypeParts, TypePartsNext, ConnectionAssumption
    DEF connVars, routeVars, epochVars, loopVars, supVars, hostVars, podVars
<1>1. CASE Schedule
  BY <1>1, Zenon DEF Schedule, NothingToRepair, HostIsConnected, AllAlive,
     WantsReconnect, EpochType, TaskType, Attempt, FlagType, RouteType,
     LoopType, PartyType
<1>2. CASE SupChanged
  BY <1>2 DEF SupChanged, SupAgain, SupEnd, NothingToRepair, HostIsConnected,
     AllAlive, WantsReconnect, EpochType, TaskType, Attempt, FlagType,
     RouteType, LoopType, PartyType
<1>3. CASE SupDelayOver
  BY <1>3 DEF SupDelayOver, SupAgain, SupEnd, NothingToRepair, HostIsConnected,
     AllAlive, WantsReconnect, EpochType, TaskType, Attempt, FlagType,
     RouteType, LoopType, PartyType
<1>4. CASE SupAdmit
  BY <1>4, SMTT(30) DEF SupAdmit, RepairTunnel, SupEnd, AllAlive, SetupBusy,
     WantsReconnect, HostIsConnected, FreeSlots, Attempt, RouteType, Route,
     EpochType, TaskType, FlagType, LoopType, PartyType
<1>5. CASE SupCommand("validate", HostIsConnected, IF podUp THEN "mark" ELSE "gone")
  <2>1. FlagType'
    BY <1>5, Zenon DEF SupCommand, SupFail, PauseRepair, Signal, Unnoticed, FlagType,
       Statuses
  <2>2. EpochType'
    BY <1>5, Zenon DEF SupCommand, SupFail, PauseRepair, Signal, Unnoticed, EpochType
  <2>3. TaskType'
    BY <1>5 DEF SupCommand, SupFail, PauseRepair, Signal, Unnoticed, TaskType,
       Attempt
  <2>4. RouteType' /\ LoopType' /\ PartyType'
    BY <1>5, Zenon DEF SupCommand, RouteType, LoopType, PartyType
  <2> QED
    BY <2>1, <2>2, <2>3, <2>4, Zenon
<1>6. CASE SupMark
  BY <1>6, Zenon DEF SupMark, RepairTunnel, RouteType, Route, TaskType,
     Attempt, FlagType, EpochType, LoopType, PartyType
<1>7. CASE SupGone
  <2>1. FlagType'
    BY <1>7, Zenon DEF SupGone, StopEvents, Told, StopEventLoop, Signal, FlagType, Statuses
  <2>2. RouteType'
    BY <1>7, Zenon DEF SupGone, StopEvents, Told, StopEventLoop, Signal, RouteType, Route
  <2>3. EpochType'
    BY <1>7, Zenon DEF SupGone, StopEvents, Told, StopEventLoop, Signal, EpochType
  <2>4. LoopType'
    BY <1>7, Zenon DEF SupGone, StopEvents, Told, StopEventLoop, Signal, LoopType,
       EpochType, LoopPlaces
  <2>5. TaskType'
    BY <1>7 DEF SupGone, StopEvents, Told, StopEventLoop, Signal, TaskType, Attempt
  <2>6. PartyType'
    BY <1>7, Zenon DEF SupGone, StopEvents, Told, StopEventLoop, Signal, PartyType,
       ForegroundSteps
  <2> QED
    BY <2>1, <2>2, <2>3, <2>4, <2>5, <2>6, Zenon
<1>8. CASE SupCommand("dial", Backend, "install")
  <2>1. FlagType'
    BY <1>8, Zenon DEF SupCommand, SupFail, PauseRepair, Signal, Unnoticed, FlagType,
       Statuses
  <2>2. EpochType'
    BY <1>8, Zenon DEF SupCommand, SupFail, PauseRepair, Signal, Unnoticed, EpochType
  <2>3. TaskType'
    BY <1>8 DEF SupCommand, SupFail, PauseRepair, Signal, Unnoticed, TaskType,
       Attempt
  <2>4. RouteType' /\ LoopType' /\ PartyType'
    BY <1>8, Zenon DEF SupCommand, RouteType, LoopType, PartyType
  <2> QED
    BY <2>1, <2>2, <2>3, <2>4, Zenon
<1>9. CASE SupInstall
  BY <1>9, Zenon DEF SupInstall, FinishRequest, Told, Served, FlagType,
     Statuses, RouteType, Route, TaskType, Attempt, PartyType, ForegroundSteps,
     EpochType, LoopType
<1>10. CASE SupCommand("proxy", Backend, "publish")
  <2>1. FlagType'
    BY <1>10, Zenon DEF SupCommand, SupFail, PauseRepair, Signal, Unnoticed, FlagType,
       Statuses
  <2>2. EpochType'
    BY <1>10, Zenon DEF SupCommand, SupFail, PauseRepair, Signal, Unnoticed, EpochType
  <2>3. TaskType'
    BY <1>10 DEF SupCommand, SupFail, PauseRepair, Signal, Unnoticed, TaskType,
       Attempt
  <2>4. RouteType' /\ LoopType' /\ PartyType'
    BY <1>10, Zenon DEF SupCommand, RouteType, LoopType, PartyType
  <2> QED
    BY <2>1, <2>2, <2>3, <2>4, Zenon
<1>11. CASE SupPublish
  BY <1>11, Zenon DEF SupPublish, RouteType, Route, LoopType, LoopPlaces, TaskType,
     Attempt, FlagType, EpochType, PartyType
<1>12. CASE SupLoop
  BY <1>12, SMTT(30) DEF SupLoop, BeginEventLoop, NoEventLoopToStart, FlagType, Statuses,
     EpochType, LoopType, LoopPlaces, TaskType, Attempt, RouteType, PartyType
<1> QED
  BY <1>1, <1>2, <1>3, <1>4, <1>5, <1>6, <1>7, <1>8, <1>9, <1>10, <1>11, <1>12, Zenon
     DEF SupervisorStep

\* Every step inside an operation keeps the types: what remains of it stays a
\* sequence of steps.
LEMMA OperationTypes ==
    ASSUME TypeOK, OperationStep
    PROVE  TypeOK'
<1> USE TypeParts, TypePartsNext, ConnectionAssumption
    DEF connVars, routeVars, epochVars, loopVars, supVars, hostVars, podVars
<1>1. CASE Enable
  BY <1>1, StepRest, Zenon DEF Enable, ResumeIf, Signal, FlagType, Statuses,
     RouteType, Route, EpochType, PartyType, ForegroundSteps, LoopType,
     TaskType
<1>2. CASE EnsureTunnel
  <2>1. RouteType'
    BY <1>2, Zenon DEF EnsureTunnel, Attempt, RouteType, Route
  <2>2. PartyType'
    BY <1>2, StepRest, StepFirst, Zenon DEF EnsureTunnel, Attempt, PartyType,
       ForegroundSteps
  <2>3. FlagType' /\ EpochType'
    BY <1>2, Zenon DEF EnsureTunnel, FlagType, EpochType
  <2>4. LoopType' /\ TaskType'
    BY <1>2, Zenon DEF EnsureTunnel, LoopType, TaskType
  <2> QED
    BY <2>1, <2>2, <2>3, <2>4, Zenon
<1>3. CASE SetTunnel
  BY <1>3, StepRest, Zenon DEF SetTunnel, FinishRequest, Told, Served,
     ResumeIf, Signal, Backend, HostIsConnected, FlagType, Statuses, RouteType,
     Route, EpochType, PartyType, ForegroundSteps, LoopType, TaskType
<1>4. CASE EnsureRoute
  <2>1. FlagType'
    BY <1>4, Zenon DEF EnsureRoute, StopEventLoop, Signal, Backend, HostIsConnected,
       FlagType, Statuses
  <2>2. RouteType'
    BY <1>4, Zenon DEF EnsureRoute, StopEventLoop, Signal, Backend, HostIsConnected,
       RouteType, Route
  <2>3. EpochType'
    BY <1>4, Zenon DEF EnsureRoute, StopEventLoop, Signal, Backend, HostIsConnected,
       EpochType
  <2>4. LoopType'
    BY <1>4, Zenon DEF EnsureRoute, StopEventLoop, Signal, Backend, HostIsConnected,
       LoopType, EpochType, LoopPlaces
  <2>5. PartyType'
    BY <1>4, StepRest, StepFirst, Zenon DEF EnsureRoute, StopEventLoop, Signal, Backend,
       HostIsConnected, PartyType, ForegroundSteps
  <2>6. TaskType'
    BY <1>4, Zenon DEF EnsureRoute, TaskType
  <2> QED
    BY <2>1, <2>2, <2>3, <2>4, <2>5, <2>6, Zenon
<1>5. CASE SetServer
  BY <1>5, StepRest, Zenon DEF SetServer, StopEventLoop, Signal, Backend,
     HostIsConnected, FlagType, Statuses, RouteType, Route, EpochType,
     LoopType, LoopPlaces, PartyType, ForegroundSteps, TaskType
<1>6. CASE Ready
  BY <1>6, StepRest, Zenon DEF Ready, PartyType, ForegroundSteps, FlagType, RouteType,
     EpochType, LoopType, TaskType
<1>7. CASE EnsureEventLoop
  <2>1. FlagType'
    BY <1>7, Zenon DEF EnsureEventLoop, BeginEventLoop, NoEventLoopToStart, RequestResumes,
       Served, RequestConnection, Told, FlagType, Statuses
  <2>2. EpochType'
    BY <1>7, Zenon DEF EnsureEventLoop, BeginEventLoop, NoEventLoopToStart, RequestResumes,
       Served, RequestConnection, Told, EpochType
  <2>3. LoopType'
    BY <1>7 DEF EnsureEventLoop, BeginEventLoop, NoEventLoopToStart, RequestResumes,
       Served, RequestConnection, Told, LoopType, LoopPlaces
  <2>4. PartyType'
    BY <1>7, StepRest DEF EnsureEventLoop, BeginEventLoop, NoEventLoopToStart,
       RequestResumes, Served, RequestConnection, Told, PartyType, ForegroundSteps
  <2>5. RouteType' /\ TaskType'
    BY <1>7, Zenon DEF EnsureEventLoop, RouteType, TaskType
  <2> QED
    BY <2>1, <2>2, <2>3, <2>4, <2>5, Zenon
<1>8. CASE Abandon
  BY <1>8, ShortSteps, Zenon DEF Abandon, PartyType, ForegroundSteps, FlagType,
     RouteType, EpochType, LoopType, TaskType
<1> QED
  BY <1>1, <1>2, <1>3, <1>4, <1>5, <1>6, <1>7, <1>8, Zenon DEF OperationStep

\* Every start and step of an operation keeps the types.
LEMMA ForegroundTypes ==
    ASSUME TypeOK, ForegroundStep
    PROVE  TypeOK'
<1> USE TypeParts, TypePartsNext, ConnectionAssumption
    DEF connVars, routeVars, epochVars, loopVars, supVars, hostVars, podVars
<1>1. CASE ConnectProbed
  BY <1>1, ReconnectSteps, ShortSteps, Zenon DEF ConnectProbed, Backend,
     HostIsConnected, Idle, PartyType, ForegroundSteps, FlagType, RouteType,
     EpochType, LoopType, TaskType
<1>2. CASE ConnectRepair
  BY <1>2, ReconnectSteps, Zenon DEF ConnectRepair, Reconnect, StopEventLoop,
     Signal, HostIsConnected, Idle, FlagType, Statuses, RouteType, Route,
     EpochType, LoopType, LoopPlaces, PartyType, ForegroundSteps, TaskType
<1>3. CASE EnterRunning
  BY <1>3, ReconnectSteps, Zenon DEF EnterRunning, Backend, HostIsConnected,
     Idle, PartyType, ForegroundSteps, FlagType, RouteType, EpochType,
     LoopType, TaskType
<1>4. CASE EnterStopped
  BY <1>4, ReconnectSteps, Zenon DEF EnterStopped, Reconnect, StopEventLoop,
     Signal, HostIsConnected, Idle, FlagType, Statuses, RouteType, Route,
     EpochType, LoopType, LoopPlaces, PartyType, ForegroundSteps, TaskType
<1>5. CASE StopPod
  BY <1>5, Zenon DEF StopPod, StopEvents, Told, StopEventLoop, Signal, Idle,
     FlagType, Statuses, RouteType, Route, EpochType, LoopType, LoopPlaces,
     PartyType, ForegroundSteps, TaskType
<1>6. CASE Recreate
  BY <1>6, ReconnectSteps, Zenon DEF Recreate, Reconnect, StopEvents, Told,
     StopEventLoop, Signal, Idle, FlagType, Statuses, RouteType, Route,
     EpochType, LoopType, LoopPlaces, PartyType, ForegroundSteps, TaskType
<1>7. CASE Remove
  BY <1>7, Zenon DEF Remove, StopEvents, Told, StopEventLoop, Signal, Idle,
     FlagType, Statuses, RouteType, Route, EpochType, LoopType, LoopPlaces,
     PartyType, ForegroundSteps, TaskType
<1>8. CASE OperationStep
  BY <1>8, OperationTypes, Zenon
<1>9. CASE \E c \in Clients : SubscribeReconnect(c)
  <2>0. PICK c \in Clients : SubscribeReconnect(c)
    BY <1>9, Zenon
  <2>1. FlagType'
    BY <2>0, Zenon DEF SubscribeReconnect, Told, Served, ResumeIf, Signal, Idle, FlagType,
       Statuses
  <2>2. EpochType'
    BY <2>0, Zenon DEF SubscribeReconnect, Told, Served, ResumeIf, Signal, Idle, EpochType
  <2>3. PartyType'
    BY <2>0, ShortSteps, Zenon DEF SubscribeReconnect, Told, Served, ResumeIf, Signal,
       Idle, PartyType, ForegroundSteps
  <2>4. RouteType' /\ LoopType' /\ TaskType'
    BY <2>0, Zenon DEF SubscribeReconnect, RouteType, LoopType, TaskType
  <2> QED
    BY <2>1, <2>2, <2>3, <2>4, Zenon
<1> QED
  BY <1>1, <1>2, <1>3, <1>4, <1>5, <1>6, <1>7, <1>8, <1>9, Zenon DEF ForegroundStep

\* Every step of a client keeps the types.
LEMMA ClientTypes ==
    ASSUME TypeOK, NEW c \in Clients, ClientStep(c)
    PROVE  TypeOK'
<1> USE TypeParts, TypePartsNext, ConnectionAssumption
    DEF connVars, routeVars, epochVars, loopVars, supVars, hostVars, podVars
<1>1. CASE SubscribeFrontend(c)
  BY <1>1, Zenon DEF SubscribeFrontend, Told, Served, ResumeIf, Signal,
     FlagType, Statuses, EpochType, PartyType, ForegroundSteps, RouteType,
     LoopType, TaskType
<1>2. CASE Prepare(c)
  BY <1>2, Zenon DEF Prepare, PartyType, ForegroundSteps, FlagType, RouteType,
     EpochType, LoopType, TaskType
<1>3. CASE PreparedRequest(c)
  BY <1>3, Zenon DEF PreparedRequest, Told, RequestResumes, Served, ResumeIf,
     Signal, FlagType, Statuses, EpochType, PartyType, ForegroundSteps,
     RouteType, LoopType, TaskType
<1>4. CASE Leave(c)
  BY <1>4, Zenon DEF Leave, PartyType, ForegroundSteps, FlagType, RouteType,
     EpochType, LoopType, TaskType
<1> QED
  BY <1>1, <1>2, <1>3, <1>4, Zenon DEF ClientStep

\* Every step of the host, the pod, the limiter and the registry keeps the types.
LEMMA EnvironmentTypes ==
    ASSUME TypeOK, HostStep \/ PodStep \/ CoolDown \/ GetOrCreate
    PROVE  TypeOK'
<1> USE TypeParts, TypePartsNext, ConnectionAssumption
    DEF connVars, routeVars, epochVars, loopVars, supVars, hostVars, podVars
<1>1. CASE \E st \in {"Connected", "Disconnected"} : HostProbe(st)
  <2>0. PICK st \in {"Connected", "Disconnected"} : HostProbe(st)
    BY <1>1, Zenon
  <2>1. PartyType'
    BY <2>0 DEF HostProbe, PartyType, ForegroundSteps
  <2>2. FlagType' /\ RouteType'
    BY <2>0 DEF HostProbe, FlagType, RouteType
  <2>3. EpochType' /\ LoopType' /\ TaskType'
    BY <2>0, Zenon DEF HostProbe, EpochType, LoopType, TaskType
  <2> QED
    BY <2>1, <2>2, <2>3, Zenon
<1>2. CASE NotifyConnected
  <2>1. FlagType'
    BY <1>2, Zenon DEF NotifyConnected, ResumeIf, Signal, WantsReconnect, FlagType,
       Statuses
  <2>2. EpochType'
    BY <1>2, Zenon DEF NotifyConnected, ResumeIf, Signal, WantsReconnect, EpochType
  <2>3. PartyType'
    BY <1>2 DEF NotifyConnected, ResumeIf, Signal,
       WantsReconnect, PartyType, ForegroundSteps
  <2>4. RouteType' /\ LoopType' /\ TaskType'
    BY <1>2, Zenon DEF NotifyConnected, RouteType, LoopType, TaskType
  <2> QED
    BY <2>1, <2>2, <2>3, <2>4, Zenon
<1>3. CASE NotifyDisconnected
  <2>1. FlagType'
    BY <1>3, Zenon DEF NotifyDisconnected, Signal, FlagType, Statuses
  <2>2. RouteType'
    BY <1>3, Zenon DEF NotifyDisconnected, Signal, RouteType, Route
  <2>3. EpochType'
    BY <1>3, Zenon DEF NotifyDisconnected, Signal, EpochType
  <2>4. PartyType'
    BY <1>3 DEF NotifyDisconnected, Signal, PartyType,
       ForegroundSteps
  <2>5. LoopType' /\ TaskType'
    BY <1>3, Zenon DEF NotifyDisconnected, LoopType, TaskType
  <2> QED
    BY <2>1, <2>2, <2>3, <2>4, <2>5, Zenon
<1>4. CASE ServerDies
  BY <1>4, Zenon DEF ServerDies, RouteType, Route, FlagType, EpochType, LoopType,
     TaskType, PartyType
<1>5. CASE TunnelDies
  BY <1>5, Zenon DEF TunnelDies, RouteType, Route, FlagType, EpochType, LoopType,
     TaskType, PartyType
<1>6. CASE PodDies
  BY <1>6, Zenon DEF PodDies, RouteType, Route, FlagType, EpochType, LoopType,
     TaskType, PartyType
<1>7. CASE PodRestarts
  BY <1>7, Zenon DEF PodRestarts, RouteType, Route, FlagType, EpochType, LoopType,
     TaskType, PartyType
<1>8. CASE PodSetup
  BY <1>8, Zenon DEF PodSetup, RouteType, Route, FlagType, EpochType, LoopType,
     TaskType, PartyType
<1>9. CASE CoolDown
  BY <1>9 DEF CoolDown, TaskType, Attempt, FlagType, RouteType, EpochType,
     LoopType, PartyType
<1>10. CASE GetOrCreate
  BY <1>10, Zenon DEF GetOrCreate, NewConnection, HostIsConnected, FlagType,
     Statuses, RouteType, Route, EpochType, LoopType, TaskType, PartyType
<1> QED
  BY <1>1, <1>2, <1>3, <1>4, <1>5, <1>6, <1>7, <1>8, <1>9, <1>10, Zenon DEF HostStep, PodStep

-----------------------------------------------------------------------------

\* The initial states have the types.
LEMMA TypesInit == Init => TypeOK
<1> SUFFICES ASSUME Init PROVE TypeOK
  BY Zenon
<1> USE TypeParts, ConnectionAssumption
<1>1. FlagType /\ RouteType
  BY Zenon DEF Init, FlagType, RouteType, Statuses, Route, HostIsConnected
<1>2. EpochType /\ LoopType /\ TaskType
  BY DEF Init, EpochType, LoopType, TaskType, LoopPlaces, Attempt
<1>3. PartyType
  BY ShortSteps DEF Init, PartyType
<1> QED
  BY <1>1, <1>2, <1>3, Zenon

\* Every step keeps the types.
LEMMA TypesNext == TypeOK /\ [Next]_vars => TypeOK'
<1> SUFFICES ASSUME TypeOK, [Next]_vars PROVE TypeOK'
  BY Zenon
<1>1. CASE \E l \in Loops : LoopStep(l) \/ LoopBroken(l)
  BY <1>1, LoopTypes, Zenon
<1>2. CASE SupervisorStep
  BY <1>2, SupervisorTypes, Zenon
<1>3. CASE ForegroundStep
  BY <1>3, ForegroundTypes, Zenon
<1>4. CASE \E c \in Clients : ClientStep(c)
  BY <1>4, ClientTypes, Zenon
<1>5. CASE HostStep \/ PodStep \/ CoolDown \/ GetOrCreate
  BY <1>5, EnvironmentTypes, Zenon
<1>6. CASE UNCHANGED vars
  BY <1>6 DEF TypeOK, vars, connVars, routeVars, epochVars, loopVars, supVars, hostVars,
     podVars
<1> QED
  BY <1>1, <1>2, <1>3, <1>4, <1>5, <1>6, Zenon DEF Next

\* Type correctness of the connection, for any number of loops and clients, any
\* limit of failures and any mix of operations and faults: the failure counters of
\* the loops and of the supervisor stay below the limit (next_delay), and what
\* remains of an operation is always a sequence of its steps.
THEOREM ConnTypeCorrect == Spec => []TypeOK
<1> QED
  BY TypesInit, TypesNext, PTL DEF Spec

-----------------------------------------------------------------------------
(* The connection and its loops                                              *)

\* The places of a loop that was admitted under its connection epoch.
Admitted == {"connect", "greeting", "apply", "read", "event", "failed", "eof", "lost"}

LoopInv ==
    /\ OneLiveLoop
    /\ \A l \in stop : pc[l] # "none"
    /\ slot # NoLoop => slot \notin stop /\ pc[slot] # "none"
    /\ \A l \in Loops : pc[l] \in Admitted /\ l \in current => l \notin stop

QuietInv == GreetedByCurrentLoop /\ StoppedIsQuiet

RemovedInv == RemovedKeepsNothing /\ (removed => todo = <<>>)

RestInv == QuietInv /\ RemovedInv /\ RequestNotPaused /\ NoneLeftWaiting

ConnInv == TypeOK /\ LoopInv /\ RestInv

\* A step moves loop l, and leaves the slot, the stop flags and the other loops
\* as they are.
Moved(l) ==
    /\ pc[l] # "none" /\ pc'[l] # "none"
    /\ \A k \in Loops \ {l} : pc'[k] = pc[k]
    /\ slot' = slot /\ stop' = stop
    /\ current' \subseteq current \cup {l}
    /\ pc'[l] \in Admitted /\ l \in current' => l \notin stop

\* A step that takes nothing RestInv is about.
Calm == UNCHANGED <<connVars, routeVars, slot, todo, client>>

-----------------------------------------------------------------------------
(* What the steps share.                                                     *)

\* A step that leaves the loops and the slot alone keeps LoopInv: an epoch can
\* only go out of date.
LEMMA UntouchedLoops ==
    ASSUME LoopInv, slot' = slot, stop' = stop, pc' = pc,
           current' \cap Loops \subseteq current
    PROVE  LoopInv'
BY Zenon DEF LoopInv, OneLiveLoop

\* A loop that goes from one place to another keeps LoopInv.
LEMMA MovedLoop ==
    ASSUME TypeOK, LoopInv, NEW l \in Loops, Moved(l)
    PROVE  LoopInv'
BY Zenon DEF Moved, LoopInv, OneLiveLoop, TypeOK

\* stop_event_loop: the loop of the slot is told to stop, and the slot is empty.
LEMMA StoppedLoop ==
    ASSUME TypeOK, LoopInv, StopEventLoop, pc' = pc
    PROVE  LoopInv'
<1>1. OneLiveLoop' /\ slot' = NoLoop
  BY Zenon DEF StopEventLoop, LoopInv, OneLiveLoop
<1>2. \A l \in stop' : pc'[l] # "none"
  BY Zenon DEF StopEventLoop, LoopInv
<1> QED
  BY <1>1, <1>2, Zenon DEF LoopInv, StopEventLoop, Signal

\* begin_event_loop_at_epoch: a new loop takes the empty slot.
LEMMA BegunLoop ==
    ASSUME TypeOK, LoopInv, NEW l \in Loops, BeginEventLoop(l), slot = NoLoop, stop' = stop,
           current' \cap Loops \subseteq current
    PROVE  LoopInv'
<1>1. l \notin stop /\ slot' = l /\ pc'[l] = "resume" /\ \A k \in Loops \ {l} : pc'[k] = pc[k]
  BY Zenon DEF BeginEventLoop, LoopInv, TypeOK
<1> QED
  BY <1>1, ConnectionAssumption, Zenon DEF LoopInv, OneLiveLoop, TypeOK, Admitted

\* A step that takes nothing RestInv is about keeps it.
LEMMA CalmKeeps == RestInv /\ Calm => RestInv'
BY DEF Calm, RestInv, QuietInv, GreetedByCurrentLoop, StoppedIsQuiet, RemovedInv,
   RemovedKeepsNothing, RequestNotPaused, NoneLeftWaiting, Served, connVars, routeVars

\* stop_events leaves nothing that RestInv could object to, whatever it found.
LEMMA StoppedRest ==
    ASSUME TypeOK, StopEvents, removed' => server' = "none" /\ todo' = <<>>
    PROVE  RestInv'
BY Zenon DEF StopEvents, StopEventLoop, Told, RestInv, QuietInv, GreetedByCurrentLoop,
   StoppedIsQuiet,
   RemovedInv, RemovedKeepsNothing, RequestNotPaused, NoneLeftWaiting, Served

-----------------------------------------------------------------------------
(* The steps of the event loops.                                             *)

\* Every step of an event loop keeps LoopInv.  A loop past its admission whose
\* epoch is current has not been stopped, so it is the one in the slot.
LEMMA LoopLoops ==
    ASSUME TypeOK, LoopInv, NEW l \in Loops, LoopStep(l) \/ LoopBroken(l)
    PROVE  LoopInv'
<1>0. /\ pc \in [Loops -> LoopPlaces] /\ NoLoop \notin Loops
      /\ pc[l] \in Admitted /\ l \in current => l \notin stop
  BY ConnectionAssumption, Zenon DEF TypeOK, LoopInv
<1>1. CASE LoopIdle(l)
  BY <1>1, UntouchedLoops, Zenon DEF LoopIdle, loopVars
<1>2. CASE LoopExit(l)
  BY <1>0, <1>2 DEF LoopExit, Goto, LoopInv, OneLiveLoop
<1>3. CASE LoopResume(l) \/ LoopHostUp(l) \/ LoopHostDown(l) \/ LoopSetHostDown(l) \/ LoopWait(l)
  <2>1. Moved(l)
    BY <1>0, <1>3, Zenon DEF LoopResume, LoopHostUp, LoopHostDown, LoopSetHostDown, LoopWait, Goto,
       Moved, Admitted, epochVars
  <2> QED
    BY <2>1, MovedLoop, Zenon
<1>4. CASE LoopSetConnecting(l) \/ LoopInterrupted(l) \/ LoopAdmit(l)
  <2>1. Moved(l)
    BY <1>0, <1>4, Zenon DEF LoopSetConnecting, LoopInterrupted, LoopAdmit, Goto, Moved, Admitted
  <2> QED
    BY <2>1, MovedLoop, Zenon
<1>5. CASE LoopHeaders(l) \/ LoopGreeting(l) \/ LoopApply(l) \/ LoopEvent(l) \/ LoopAgent(l)
           \/ LoopLost(l)
  <2>1. Moved(l)
    BY <1>0, <1>5, Zenon DEF LoopHeaders, LoopGreeting, LoopApply, LoopEvent, LoopAgent,
       LoopLost, Goto,
       Moved, Admitted, epochVars
  <2> QED
    BY <2>1, MovedLoop, Zenon
<1>6. CASE LoopError(l) \/ LoopBroken(l)
  <2>1. Moved(l)
    BY <1>0, <1>6, Zenon DEF LoopError, LoopBroken, Fails, Goto, Moved, Admitted, epochVars
  <2> QED
    BY <2>1, MovedLoop, Zenon
<1>7. CASE LoopFailed(l) \/ LoopEnded(l)
  <2>1. Moved(l)
    BY <1>0, <1>7, Zenon DEF LoopFailed, LoopEnded, Backoff, PauseRepair, Signal, Goto, Moved,
       Admitted
  <2> QED
    BY <2>1, MovedLoop, Zenon
<1> QED
  BY <1>1, <1>2, <1>3, <1>4, <1>5, <1>6, <1>7, Zenon DEF LoopStep

\* Every step of an event loop keeps RestInv: what a loop publishes, it publishes
\* under an epoch that is still current, or it is a status other than Stopped.
LEMMA LoopRest ==
    ASSUME TypeOK, LoopInv, RestInv, NEW l \in Loops, LoopStep(l) \/ LoopBroken(l)
    PROVE  RestInv'
<1> USE DEF RestInv, connVars, routeVars
<1>1. CASE \/ LoopIdle(l) \/ LoopResume(l) \/ LoopExit(l) \/ LoopHostUp(l) \/ LoopHostDown(l)
           \/ LoopInterrupted(l) \/ LoopAdmit(l) \/ LoopHeaders(l) \/ LoopGreeting(l)
           \/ LoopEvent(l) \/ LoopLost(l) \/ LoopError(l) \/ LoopBroken(l) \/ LoopWait(l)
  <2>1. Calm
    BY <1>1, Zenon DEF LoopIdle, LoopResume, LoopExit, LoopHostUp, LoopHostDown, LoopInterrupted,
       LoopAdmit, LoopHeaders, LoopGreeting, LoopEvent, LoopLost, LoopError, LoopBroken, Fails,
       LoopWait, Calm
  <2> QED
    BY <2>1, CalmKeeps, Zenon
<1>2. CASE LoopSetHostDown(l) \/ LoopSetConnecting(l)
  BY <1>2 DEF LoopSetHostDown, LoopSetConnecting, QuietInv, GreetedByCurrentLoop,
     StoppedIsQuiet, RemovedInv, RemovedKeepsNothing, RequestNotPaused, NoneLeftWaiting, Served
<1>3. CASE LoopApply(l)
  <2>1. l \in current => slot = l /\ l # NoLoop
    BY <1>3, ConnectionAssumption, Zenon DEF LoopApply, LoopInv, OneLiveLoop, Admitted
  <2>2. QuietInv' /\ RemovedInv'
    BY <1>3, <2>1, Zenon DEF LoopApply, QuietInv, GreetedByCurrentLoop, StoppedIsQuiet, RemovedInv,
       RemovedKeepsNothing
  <2>3. RequestNotPaused' /\ NoneLeftWaiting'
    BY <1>3, Zenon DEF LoopApply, FinishRequest, Told, RequestNotPaused, NoneLeftWaiting, Served
  <2> QED
    BY <2>2, <2>3, Zenon
<1>4. CASE LoopAgent(l)
  <2>1. l \in current => slot # NoLoop
    BY <1>4, ConnectionAssumption, Zenon DEF LoopAgent, LoopInv, OneLiveLoop, Admitted
  <2> QED
    BY <1>4, <2>1, Zenon DEF LoopAgent, QuietInv, GreetedByCurrentLoop, StoppedIsQuiet, RemovedInv,
       RemovedKeepsNothing, RequestNotPaused, NoneLeftWaiting, Served
<1>5. CASE LoopFailed(l) \/ LoopEnded(l)
  <2>1. /\ status' \in {status, "PodDisconnected", "HostDisconnected"}
        /\ UNCHANGED <<requested, paused>> \/ ~requested'
        /\ UNCHANGED <<processing, httpVersion, removed, routeVars, slot, todo, client>>
    BY <1>5, Zenon DEF LoopFailed, LoopEnded, Backoff, PauseRepair
  <2> QED
    BY <2>1 DEF QuietInv, GreetedByCurrentLoop, StoppedIsQuiet, RemovedInv, RemovedKeepsNothing,
       RequestNotPaused, NoneLeftWaiting, Served
<1> QED
  BY <1>1, <1>2, <1>3, <1>4, <1>5, Zenon DEF LoopStep

-----------------------------------------------------------------------------
(* The steps of the supervisor.                                              *)

\* Every step of the supervisor keeps LoopInv: it starts a loop only where the
\* slot is empty, and its own epoch is none of the loops'.
LEMMA SupervisorLoops ==
    ASSUME TypeOK, LoopInv, SupervisorStep
    PROVE  LoopInv'
<1>0. Supervisor \notin Loops
  BY ConnectionAssumption, Zenon
<1> USE DEF loopVars, epochVars
<1>1. CASE Schedule \/ SupChanged \/ SupDelayOver \/ SupMark \/ SupInstall \/ SupPublish
  BY <1>1, UntouchedLoops, Zenon DEF Schedule, SupChanged, SupDelayOver, SupMark, SupInstall,
     SupPublish
<1>2. CASE SupAdmit
  BY <1>0, <1>2, UntouchedLoops, Zenon DEF SupAdmit
<1>3. ASSUME NEW from, NEW works, NEW to, SupCommand(from, works, to)
      PROVE  LoopInv'
  BY <1>3, UntouchedLoops, Zenon DEF SupCommand, SupFail, PauseRepair, Signal
<1>4. CASE SupGone
  BY <1>4, StoppedLoop, Zenon DEF SupGone, StopEvents
<1>5. CASE SupLoop
  <2>1. CASE NoEventLoopToStart \/ Supervisor \notin current
    BY <1>5, <2>1, UntouchedLoops, Zenon DEF SupLoop
  <2>2. CASE ~NoEventLoopToStart /\ Supervisor \in current
    <3>1. PICK l \in Loops : BeginEventLoop(l)
      BY <1>5, <2>2, Zenon DEF SupLoop
    <3> QED
      BY <1>5, <2>2, <3>1, BegunLoop, Zenon DEF SupLoop, NoEventLoopToStart
  <2> QED
    BY <2>1, <2>2, Zenon
<1> QED
  BY <1>1, <1>2, <1>3, <1>4, <1>5, Zenon DEF SupervisorStep

\* Every step of the supervisor keeps RestInv: what a late attempt brings is
\* compared with the epoch under the lock, and a removed connection is not
\* supervised.
LEMMA SupervisorRest ==
    ASSUME TypeOK, RestInv, SupervisorStep
    PROVE  RestInv'
<1> USE DEF RestInv, connVars, routeVars
<1>1. CASE Schedule \/ SupChanged \/ SupDelayOver
  BY <1>1, CalmKeeps, Zenon DEF Schedule, SupChanged, SupDelayOver, Calm
<1>2. CASE SupAdmit \/ SupMark \/ SupPublish
  <2>1. /\ tunnel' = tunnel \/ tunnel' = "none"
        /\ server' = server \/ supervise
        /\ UNCHANGED <<connVars, supervise, slot, todo, client>>
    BY <1>2, Zenon DEF SupAdmit, SupMark, SupPublish, RepairTunnel
  <2> QED
    BY <2>1, Zenon DEF QuietInv, GreetedByCurrentLoop, StoppedIsQuiet, RemovedInv,
       RemovedKeepsNothing,
       RequestNotPaused, NoneLeftWaiting, Served
<1>3. ASSUME NEW from, NEW works, NEW to, SupCommand(from, works, to)
      PROVE  RestInv'
  <2>1. /\ UNCHANGED <<requested, paused>> \/ ~requested'
        /\ UNCHANGED <<status, processing, httpVersion, removed, routeVars, slot, todo, client>>
    BY <1>3, Zenon DEF SupCommand, SupFail, PauseRepair
  <2> QED
    BY <2>1 DEF QuietInv, GreetedByCurrentLoop, StoppedIsQuiet, RemovedInv, RemovedKeepsNothing,
       RequestNotPaused, NoneLeftWaiting, Served
<1>4. CASE SupGone
  BY <1>4, StoppedRest, Zenon DEF SupGone, RemovedInv, RemovedKeepsNothing
<1>5. CASE SupInstall
  <2>1. QuietInv' /\ RemovedInv'
    BY <1>5, Zenon DEF SupInstall, QuietInv, GreetedByCurrentLoop, StoppedIsQuiet, RemovedInv,
       RemovedKeepsNothing
  <2>2. RequestNotPaused' /\ NoneLeftWaiting'
    BY <1>5, Zenon DEF SupInstall, FinishRequest, Told, RequestNotPaused, NoneLeftWaiting, Served
  <2> QED
    BY <2>1, <2>2, Zenon
<1>6. CASE SupLoop
  <2>1. \/ UNCHANGED <<status, slot>>
        \/ status' = "Connecting" /\ slot = NoLoop /\ slot' # NoLoop /\ server = "alive"
    BY <1>6, ConnectionAssumption, Zenon DEF SupLoop, BeginEventLoop, NoEventLoopToStart
  <2> QED
    BY <1>6, <2>1, Zenon DEF SupLoop, QuietInv, GreetedByCurrentLoop, StoppedIsQuiet, RemovedInv,
       RemovedKeepsNothing, RequestNotPaused, NoneLeftWaiting, Served
<1> QED
  BY <1>1, <1>2, <1>3, <1>4, <1>5, <1>6, Zenon DEF SupervisorStep

-----------------------------------------------------------------------------
(* The operations, the clients and the environment.                          *)

\* The steps of an operation keep LoopInv.
LEMMA OperationLoops ==
    ASSUME TypeOK, LoopInv, OperationStep
    PROVE  LoopInv'
<1> USE DEF loopVars, epochVars
<1>1. CASE Enable \/ SetTunnel
  BY <1>1, UntouchedLoops, Zenon DEF Enable, SetTunnel, ResumeIf, Signal
<1>2. CASE EnsureTunnel \/ Ready \/ Abandon
  BY <1>2, UntouchedLoops, Zenon DEF EnsureTunnel, Ready, Abandon
<1>3. CASE EnsureRoute \/ SetServer
  <2>1. /\ pc' = pc
        /\ StopEventLoop \/ UNCHANGED <<slot, current, stop>>
    BY <1>3, Zenon DEF EnsureRoute, SetServer
  <2> QED
    BY <2>1, UntouchedLoops, StoppedLoop, Zenon
<1>4. CASE EnsureEventLoop
  <2>1. CASE NoEventLoopToStart
    BY <1>4, <2>1, UntouchedLoops, Zenon DEF EnsureEventLoop
  <2>2. CASE ~NoEventLoopToStart
    <3>1. PICK l \in Loops : BeginEventLoop(l)
      BY <1>4, <2>2, Zenon DEF EnsureEventLoop
    <3> QED
      BY <1>4, <2>2, <3>1, BegunLoop, Zenon DEF EnsureEventLoop, NoEventLoopToStart
  <2> QED
    BY <2>1, <2>2, Zenon
<1> QED
  BY <1>1, <1>2, <1>3, <1>4, Zenon DEF OperationStep

\* The steps of an operation keep RestInv: there is none on a removed connection.
LEMMA OperationRest ==
    ASSUME TypeOK, RestInv, OperationStep
    PROVE  RestInv'
<1> USE DEF RestInv, connVars, routeVars
<1>0. ~removed /\ ~removed'
  <2>1. todo # <<>> /\ removed' = removed
    BY Zenon DEF OperationStep, Enable, EnsureTunnel, SetTunnel, EnsureRoute, SetServer, Ready,
       EnsureEventLoop, Abandon
  <2> QED
    BY <2>1, Zenon DEF RemovedInv
<1>1. CASE Enable \/ SetTunnel
  <2>1. UNCHANGED <<status, processing, httpVersion, slot>>
    BY <1>1, Zenon DEF Enable, SetTunnel
  <2>2. QuietInv' /\ RemovedInv'
    BY <1>0, <2>1, Zenon DEF QuietInv, GreetedByCurrentLoop, StoppedIsQuiet, RemovedInv,
       RemovedKeepsNothing
  <2>3. RequestNotPaused' /\ NoneLeftWaiting'
    BY <1>1, Zenon DEF Enable, SetTunnel, ResumeIf, FinishRequest, Told, RequestNotPaused,
       NoneLeftWaiting, Served
  <2> QED
    BY <2>2, <2>3, Zenon
<1>2. CASE EnsureTunnel \/ Ready \/ Abandon
  <2>1. tunnel' \in {tunnel, "none"} /\ UNCHANGED <<connVars, supervise, slot, client>>
    BY <1>2, Zenon DEF EnsureTunnel, Ready, Abandon
  <2> QED
    BY <1>0, <2>1, Zenon DEF QuietInv, GreetedByCurrentLoop, StoppedIsQuiet, RemovedInv,
       RemovedKeepsNothing, RequestNotPaused, NoneLeftWaiting, Served
<1>3. CASE EnsureRoute \/ SetServer
  <2>1. /\ UNCHANGED <<httpVersion, slot>> \/ (slot' = NoLoop /\ httpVersion' = NoLoop)
        /\ UNCHANGED <<status, paused, requested, processing, tunnel, supervise, client>>
    BY <1>3, Zenon DEF EnsureRoute, SetServer, StopEventLoop
  <2> QED
    BY <1>0, <2>1 DEF QuietInv, GreetedByCurrentLoop, StoppedIsQuiet, RemovedInv,
       RemovedKeepsNothing, RequestNotPaused, NoneLeftWaiting, Served
<1>4. CASE EnsureEventLoop
  <2>1. \/ UNCHANGED <<status, slot>>
        \/ status' = "Connecting" /\ slot = NoLoop /\ slot' # NoLoop
    BY <1>4, ConnectionAssumption, Zenon DEF EnsureEventLoop, BeginEventLoop, NoEventLoopToStart
  <2>2. QuietInv' /\ RemovedInv'
    BY <1>0, <1>4, <2>1, Zenon DEF EnsureEventLoop, QuietInv, GreetedByCurrentLoop, StoppedIsQuiet,
       RemovedInv, RemovedKeepsNothing
  <2>3. NoneLeftWaiting'
    BY <1>4, <2>1, Zenon DEF EnsureEventLoop, RequestConnection, Told, NoneLeftWaiting, Served
  <2>4. RequestNotPaused'
    BY <1>4, Zenon DEF EnsureEventLoop, RequestConnection, RequestResumes, RequestNotPaused, TypeOK
  <2> QED
    BY <2>2, <2>3, <2>4, Zenon
<1> QED
  BY <1>1, <1>2, <1>3, <1>4, Zenon DEF OperationStep

\* The starts of operations keep LoopInv.
LEMMA ForegroundLoops ==
    ASSUME TypeOK, LoopInv, ForegroundStep
    PROVE  LoopInv'
<1>1. CASE ConnectProbed \/ EnterRunning
  BY <1>1, UntouchedLoops, Zenon DEF ConnectProbed, EnterRunning, loopVars, epochVars
<1>2. CASE ConnectRepair \/ EnterStopped
  BY <1>2, StoppedLoop, Zenon DEF ConnectRepair, EnterStopped
<1>3. CASE StopPod \/ Recreate \/ Remove
  BY <1>3, StoppedLoop, Zenon DEF StopPod, Recreate, Remove, StopEvents
<1>4. CASE OperationStep
  BY <1>4, OperationLoops, Zenon
<1>5. ASSUME NEW c \in Clients, SubscribeReconnect(c)
      PROVE  LoopInv'
  BY <1>5, UntouchedLoops, Zenon DEF SubscribeReconnect, ResumeIf, Signal, loopVars, epochVars
<1> QED
  BY <1>1, <1>2, <1>3, <1>4, <1>5, Zenon DEF ForegroundStep

\* The starts of operations keep RestInv.
LEMMA ForegroundRest ==
    ASSUME TypeOK, RestInv, ForegroundStep
    PROVE  RestInv'
<1> USE DEF RestInv, connVars, routeVars
<1>1. CASE ConnectProbed \/ EnterRunning
  <2>1. ~removed
    BY <1>1, Zenon DEF ConnectProbed, EnterRunning, Idle
  <2>2. UNCHANGED <<connVars, routeVars, slot, client>>
    BY <1>1, Zenon DEF ConnectProbed, EnterRunning
  <2> QED
    BY <2>1, <2>2, Zenon
       DEF QuietInv, GreetedByCurrentLoop, StoppedIsQuiet, RemovedInv, RemovedKeepsNothing,
           RequestNotPaused, NoneLeftWaiting, Served
<1>2. CASE ConnectRepair \/ EnterStopped
  <2>1. ~removed
    BY <1>2, Zenon DEF ConnectRepair, EnterStopped, Idle
  <2>2. /\ status' = status \/ status' = "PodDisconnected"
        /\ paused' = paused \/ paused' = FALSE
        /\ tunnel' = tunnel \/ tunnel' = "none"
        /\ slot' = NoLoop /\ httpVersion' = NoLoop
        /\ UNCHANGED <<requested, processing, removed, supervise, client>>
    BY <1>2, Zenon DEF ConnectRepair, EnterStopped, StopEventLoop
  <2> QED
    BY <2>1, <2>2
       DEF QuietInv, GreetedByCurrentLoop, StoppedIsQuiet, RemovedInv, RemovedKeepsNothing,
           RequestNotPaused, NoneLeftWaiting, Served
<1>3. CASE StopPod \/ Recreate \/ Remove
  <2>1. StopEvents /\ ~removed /\ todo = <<>>
    BY <1>3, Zenon DEF StopPod, Recreate, Remove, Idle
  <2>2. removed' = removed \/ (server' = "none" /\ todo' = todo)
    BY <1>3, Zenon DEF StopPod, Recreate, Remove
  <2> QED
    BY <2>1, <2>2, StoppedRest
<1>4. CASE OperationStep
  BY <1>4, OperationRest, Zenon
<1>5. ASSUME NEW c \in Clients, SubscribeReconnect(c)
      PROVE  RestInv'
  <2>1. ~removed' /\ UNCHANGED <<status, processing, httpVersion, routeVars, slot>>
    BY <1>5, Zenon DEF SubscribeReconnect, Idle
  <2>2. QuietInv' /\ RemovedInv'
    BY <2>1, Zenon DEF QuietInv, GreetedByCurrentLoop, StoppedIsQuiet, RemovedInv,
       RemovedKeepsNothing
  <2>3. RequestNotPaused'
    BY <1>5, Zenon DEF SubscribeReconnect, ResumeIf, RequestNotPaused
  <2>4. NoneLeftWaiting'
    BY <1>5, Zenon DEF SubscribeReconnect, Told, NoneLeftWaiting, Served
  <2> QED
    BY <2>2, <2>3, <2>4, Zenon
<1> QED
  BY <1>1, <1>2, <1>3, <1>4, <1>5, Zenon DEF ForegroundStep

\* The clients' steps keep LoopInv.
LEMMA ClientLoops ==
    ASSUME LoopInv, NEW c \in Clients, ClientStep(c)
    PROVE  LoopInv'
<1>1. slot' = slot /\ stop' = stop /\ pc' = pc /\ (current' = current \/ current' = {})
  BY Zenon DEF ClientStep, SubscribeFrontend, Prepare, PreparedRequest, Leave, ResumeIf, Signal,
     loopVars, epochVars
<1> QED
  BY <1>1, UntouchedLoops, Zenon

\* The clients' steps keep RestInv: a subscriber of a served connection is told at
\* once, and a request resumes repair.
LEMMA ClientRest ==
    ASSUME TypeOK, RestInv, NEW c \in Clients, ClientStep(c)
    PROVE  RestInv'
<1> USE DEF RestInv, connVars, routeVars
<1>1. UNCHANGED <<status, processing, httpVersion, removed, routeVars, slot, todo>>
  BY Zenon DEF ClientStep, SubscribeFrontend, Prepare, PreparedRequest, Leave
<1>2. QuietInv' /\ RemovedInv'
  BY <1>1, Zenon DEF QuietInv, GreetedByCurrentLoop, StoppedIsQuiet, RemovedInv, RemovedKeepsNothing
<1>3. RequestNotPaused'
  <2>1. CASE SubscribeFrontend(c)
    BY <2>1, Zenon DEF SubscribeFrontend, ResumeIf, RequestNotPaused
  <2>2. CASE Prepare(c) \/ Leave(c)
    BY <2>2, Zenon DEF Prepare, Leave, RequestNotPaused
  <2>3. CASE PreparedRequest(c)
    BY <2>3, Zenon DEF PreparedRequest, RequestResumes, ResumeIf, RequestNotPaused, TypeOK
  <2> QED
    BY <2>1, <2>2, <2>3, Zenon DEF ClientStep
<1>4. NoneLeftWaiting'
  <2>1. CASE SubscribeFrontend(c)
    BY <2>1, Zenon DEF SubscribeFrontend, Told, NoneLeftWaiting, Served
  <2>2. CASE Prepare(c)
    BY <2>2 DEF Prepare, NoneLeftWaiting, Served
  <2>3. CASE PreparedRequest(c)
    BY <2>3, Zenon DEF PreparedRequest, Told, NoneLeftWaiting, Served
  <2>4. CASE Leave(c)
    BY <2>4 DEF Leave, NoneLeftWaiting, Served
  <2> QED
    BY <2>1, <2>2, <2>3, <2>4, Zenon DEF ClientStep
<1> QED
  BY <1>2, <1>3, <1>4, Zenon

\* The steps of the host, the pod, the limiter and the registry keep LoopInv.
LEMMA EnvironmentLoops ==
    ASSUME LoopInv, HostStep \/ PodStep \/ CoolDown \/ GetOrCreate
    PROVE  LoopInv'
<1>1. slot' = slot /\ stop' = stop /\ pc' = pc /\ (current' = current \/ current' = {})
  BY Zenon DEF HostStep, HostProbe, NotifyConnected, NotifyDisconnected, PodStep, ServerDies,
     TunnelDies, PodDies, PodRestarts, PodSetup, CoolDown, GetOrCreate, ResumeIf, Signal,
     loopVars, epochVars
<1> QED
  BY <1>1, UntouchedLoops, Zenon

\* The steps of the host, the pod, the limiter and the registry keep RestInv.
LEMMA EnvironmentRest ==
    ASSUME TypeOK, RestInv, HostStep \/ PodStep \/ CoolDown \/ GetOrCreate
    PROVE  RestInv'
<1> USE DEF RestInv, connVars, routeVars
<1>1. CASE \/ \E st \in {"Connected", "Disconnected"} : HostProbe(st)
           \/ PodDies \/ PodRestarts \/ PodSetup \/ CoolDown
  BY <1>1, CalmKeeps, Zenon DEF HostProbe, PodDies, PodRestarts, PodSetup, CoolDown, Calm
<1>2. CASE NotifyConnected \/ NotifyDisconnected \/ ServerDies \/ TunnelDies
  <2>1. /\ UNCHANGED status \/ status' \in {"Connecting", "HostDisconnected"}
        /\ paused' = paused \/ ~paused'
        /\ tunnel' = tunnel \/ (tunnel' # "alive" /\ (tunnel = "alive" \/ tunnel' = "none"))
        /\ server' = server \/ server = "alive"
        /\ UNCHANGED <<requested, processing, httpVersion, removed, supervise, slot, todo, client>>
    BY <1>2, Zenon DEF NotifyConnected, NotifyDisconnected, ServerDies, TunnelDies, ResumeIf
  <2> QED
    BY <2>1 DEF QuietInv, GreetedByCurrentLoop, StoppedIsQuiet, RemovedInv, RemovedKeepsNothing,
       RequestNotPaused, NoneLeftWaiting, Served
<1>3. CASE GetOrCreate
  BY <1>3, Zenon DEF GetOrCreate, NewConnection, QuietInv, GreetedByCurrentLoop, StoppedIsQuiet,
     RemovedInv, RemovedKeepsNothing, RequestNotPaused, NoneLeftWaiting, Served
<1> QED
  BY <1>1, <1>2, <1>3, Zenon DEF HostStep, PodStep

-----------------------------------------------------------------------------
(* The theorems.                                                             *)

\* The initial states satisfy the invariant.
LEMMA StateInit == Init => LoopInv /\ RestInv
BY ConnectionAssumption, Zenon DEF Init, LoopInv, OneLiveLoop, Admitted, RestInv, QuietInv,
   GreetedByCurrentLoop, StoppedIsQuiet, RemovedInv, RemovedKeepsNothing,
   RequestNotPaused, NoneLeftWaiting, Served, HostIsConnected

\* Every step keeps the invariant.
LEMMA StateNext == ConnInv /\ [Next]_vars => ConnInv'
<1> SUFFICES ASSUME TypeOK, LoopInv, RestInv, [Next]_vars PROVE ConnInv'
  BY Zenon DEF ConnInv
<1>0. TypeOK'
  BY TypesNext, Zenon
<1>1. ASSUME NEW l \in Loops, LoopStep(l) \/ LoopBroken(l) PROVE LoopInv' /\ RestInv'
  BY <1>1, LoopLoops, LoopRest, Zenon
<1>2. CASE SupervisorStep
  BY <1>0, <1>2, SupervisorLoops, SupervisorRest, Zenon DEF ConnInv
<1>3. CASE ForegroundStep
  BY <1>0, <1>3, ForegroundLoops, ForegroundRest, Zenon DEF ConnInv
<1>4. ASSUME NEW c \in Clients, ClientStep(c) PROVE LoopInv' /\ RestInv'
  BY <1>4, ClientLoops, ClientRest, Zenon
<1>5. CASE HostStep \/ PodStep \/ CoolDown \/ GetOrCreate
  BY <1>0, <1>5, EnvironmentLoops, EnvironmentRest, Zenon DEF ConnInv
<1>6. CASE UNCHANGED vars
  BY <1>0, <1>6, UntouchedLoops, CalmKeeps, Zenon DEF ConnInv, Calm, vars, epochVars, loopVars
<1> QED
  BY <1>0, <1>1, <1>2, <1>3, <1>4, <1>5, <1>6, Zenon DEF Next, ConnInv

\* The inductive invariant holds for any number of loops and clients.
THEOREM ConnInvariant == Spec => []ConnInv
<1>1. Init => ConnInv
  BY TypesInit, StateInit, Zenon DEF ConnInv
<1> QED
  BY <1>1, StateNext, PTL DEF Spec

\* However many stopped loops are still ending, at most one is not told to stop,
\* and it is the one in the slot (begin_event_loop_at_epoch).
THEOREM ConnOneLiveLoop == Spec => []OneLiveLoop
<1>1. ConnInv => OneLiveLoop
  BY Zenon DEF ConnInv, LoopInv
<1> QED
  BY <1>1, ConnInvariant, PTL

\* A greeting that arrives after its loop was stopped or replaced publishes
\* nothing (apply_greeting_at_epoch).
THEOREM ConnGreetedByCurrentLoop == Spec => []GreetedByCurrentLoop
<1>1. ConnInv => GreetedByCurrentLoop
  BY Zenon DEF ConnInv, RestInv, QuietInv
<1> QED
  BY <1>1, ConnInvariant, PTL

\* No event that was on its way when stop_events ran brings the activity of a
\* stopped connection back (set_claude_state_at_epoch).
THEOREM ConnStoppedIsQuiet == Spec => []StoppedIsQuiet
<1>1. ConnInv => StoppedIsQuiet
  BY Zenon DEF ConnInv, RestInv, QuietInv
<1> QED
  BY <1>1, ConnInvariant, PTL

\* Nothing comes back to a connection that has left the registry, whatever repair
\* was under way (drop_all).
THEOREM ConnRemovedKeepsNothing == Spec => []RemovedKeepsNothing
<1>1. ConnInv => RemovedKeepsNothing
  BY Zenon DEF ConnInv, RestInv, RemovedInv
<1> QED
  BY <1>1, ConnInvariant, PTL

\* Repair is never paused while a request is outstanding (pause_pod_repair).
THEOREM ConnRequestNotPaused == Spec => []RequestNotPaused
<1>1. ConnInv => RequestNotPaused
  BY Zenon DEF ConnInv, RestInv
<1> QED
  BY <1>1, ConnInvariant, PTL

\* No subscriber waits for a connection whose transports are both up
\* (finish_connection_request, subscribe).
THEOREM ConnNoneLeftWaiting == Spec => []NoneLeftWaiting
<1>1. ConnInv => NoneLeftWaiting
  BY Zenon DEF ConnInv, RestInv
<1> QED
  BY <1>1, ConnInvariant, PTL

\* Only the supervisor's own steps move it.
LEMMA OthersLeaveSupervisor == Next => SupervisorStep \/ sup' = sup
<1> SUFFICES ASSUME Next, ~SupervisorStep PROVE sup' = sup
  BY Zenon
<1> USE DEF supVars
<1>1. ASSUME NEW l \in Loops, LoopStep(l) \/ LoopBroken(l) PROVE sup' = sup
  BY <1>1, Zenon DEF LoopStep, LoopIdle, LoopResume, LoopExit, LoopHostUp, LoopHostDown,
     LoopSetHostDown, LoopSetConnecting, LoopInterrupted, LoopAdmit, LoopHeaders,
     LoopGreeting, LoopApply, LoopEvent, LoopAgent, LoopLost, LoopError, LoopBroken, Fails,
     LoopFailed, LoopEnded, LoopWait
<1>2. CASE OperationStep
  BY <1>2, Zenon DEF OperationStep, Enable, EnsureTunnel, SetTunnel, EnsureRoute, SetServer, Ready,
     EnsureEventLoop, Abandon
<1>3. CASE ForegroundStep
  BY <1>2, <1>3, Zenon DEF ForegroundStep, ConnectProbed, ConnectRepair, EnterRunning, EnterStopped,
     StopPod, Recreate, Remove, SubscribeReconnect
<1>4. ASSUME NEW c \in Clients, ClientStep(c) PROVE sup' = sup
  BY <1>4, Zenon DEF ClientStep, SubscribeFrontend, Prepare, PreparedRequest, Leave
<1>5. CASE HostStep \/ PodStep \/ CoolDown \/ GetOrCreate
  BY <1>5, Zenon DEF HostStep, HostProbe, NotifyConnected, NotifyDisconnected, PodStep, ServerDies,
     TunnelDies, PodDies, PodRestarts, PodSetup, CoolDown, GetOrCreate
<1> QED
  BY <1>1, <1>3, <1>4, <1>5, Zenon DEF Next

\* A repair attempt whose epoch has passed brings back no tunnel, no proxy and no
\* event loop (install_repaired_git_tunnel, install_repaired_routes,
\* ensure_repaired_event_loop).
THEOREM ConnLateRepairRejected == Spec => LateRepairRejected
<1> DEFINE Rejected ==
      Supervisor \notin current /\ sup \in Attempt /\ sup' # sup =>
         /\ tunnel' = "alive" => tunnel = "alive"
         /\ server' = "alive" => server = "alive"
         /\ slot' \in {slot, NoLoop}
<1>1. ASSUME SupervisorStep PROVE Rejected
  <2> SUFFICES ASSUME Supervisor \notin current, sup \in Attempt, sup' # sup
               PROVE  /\ tunnel' = "alive" => tunnel = "alive"
                      /\ server' = "alive" => server = "alive"
                      /\ slot' \in {slot, NoLoop}
    BY Zenon
  <2> USE DEF routeVars, connVars, Attempt
  <2>1. CASE Schedule \/ SupChanged \/ SupDelayOver \/ SupAdmit
    BY <2>1, Zenon DEF Schedule, SupChanged, SupDelayOver, SupAdmit
  <2>2. ASSUME NEW from, NEW works, NEW to, SupCommand(from, works, to)
        PROVE  UNCHANGED <<tunnel, server, slot>>
    BY <2>2, Zenon DEF SupCommand
  <2>3. CASE SupMark
    BY <2>3, Zenon DEF SupMark, RepairTunnel
  <2>4. CASE SupGone
    BY <2>4, Zenon DEF SupGone, StopEvents, StopEventLoop
  <2>5. CASE SupInstall
    BY <2>5, Zenon DEF SupInstall
  <2>6. CASE SupPublish
    BY <2>6, Zenon DEF SupPublish
  <2>7. CASE SupLoop
    BY <2>7, Zenon DEF SupLoop
  <2> QED
    BY <1>1, <2>1, <2>2, <2>3, <2>4, <2>5, <2>6, <2>7, Zenon DEF SupervisorStep
<1>2. [Next]_vars => [Rejected]_vars
  BY <1>1, OthersLeaveSupervisor, Zenon
<1> QED
  BY <1>2, PTL DEF Spec, LateRepairRejected
=============================================================================
