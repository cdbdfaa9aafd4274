------------------------------ MODULE PodSetup ------------------------------
(* The start of a pod's container server (pod/server.rs run_container_server *)
(* and run_setup, pod/lifecycle.rs): it listens first, then one setup task   *)
(* resolves the environment, prepares the repository and runs the            *)
(* devcontainer's lifecycle commands, while clients of /events already wait  *)
(* for its greeting.  Flag files survive a restart of the container; all the *)
(* rest of the server's state is lost with its process.                      *)
EXTENDS Integers

CONSTANTS Viewers,       \* clients that open /events (the launch, the daemon's loop)
          Plans,         \* devcontainer configs: [has: commands, waitFor: 0..5]
          RestartLimit,  \* bound on restarts of the container
          VisitLimit     \* bound on a viewer's connections

\* The lifecycle commands in their order; WaitFor's order has 0 for
\* initializeCommand and 5 for postAttachCommand, which run elsewhere.
Commands == 1..4
OnCreate == 1
UpdateContent == 2
PostCreate == 3
PostStart == 4

ASSUME SetupAssumption ==
    /\ Plans \subseteq [has : SUBSET Commands, waitFor : 0..5]
    /\ RestartLimit \in Nat /\ VisitLimit \in Nat

VARIABLES plan,       \* the config in force
          served,     \* the server process is up
          setup,      \* the setup task: "env", "git", "commands", "over"
          todo,       \* commands the task has still to look at, the least first
          doing,      \* the command the setup task runs, 0 when none
          background, \* commands handed to the background thread, which runs the least
          flags,      \* flag files: the once-per-creation commands that ran
          postStartRan,
          setupDone,  \* the watch channel of the same name
          lifecycleError, \* TRUE: an error waits for the first /events caller
          viewers,    \* "away", "waiting", "early" (greeted before the end of the
                      \* setup), "ready", "failed"
          visits, restarts,
          begun, cut, skipped, \* history: starts of a command, those a restart cut
                               \* short, and commands marked as run without running
          failed, told         \* history of this start: the setup failed; who was given
                               \* the error: "nobody", a "client", or one that was "gone"

setupVars == <<plan, served, setup, todo, doing, background, flags, postStartRan,
               setupDone, lifecycleError, viewers, visits, restarts, begun, cut,
               skipped, failed, told>>

commandVars == <<todo, doing, background, flags, postStartRan, begun, cut, skipped>>
viewerVars == <<viewers, visits>>

SetupInit ==
    /\ plan \in Plans
    /\ served = FALSE /\ setup = "over" /\ todo = {} /\ doing = 0
    /\ background = {} /\ flags = {} /\ postStartRan = FALSE
    /\ setupDone = FALSE /\ lifecycleError = FALSE
    /\ viewers = [v \in Viewers |-> "away"] /\ visits = [v \in Viewers |-> 0]
    /\ restarts = 0
    /\ begun = [c \in Commands |-> 0] /\ cut = [c \in Commands |-> 0]
    /\ skipped = {} /\ failed = FALSE /\ told = "nobody"

\* Commands run in their order: the next of several is the least.
Earliest(cs) == CHOOSE c \in cs : \A d \in cs : c <= d

\* Running now: what the setup task or the background thread executes.
Active == {c \in Commands : doing = c \/ (background # {} /\ Earliest(background) = c)}

-----------------------------------------------------------------------------
(* The process and its setup task                                            *)

\* run_container_server binds before it spawns the setup task.
ServerStarts ==
    /\ ~served
    /\ served' = TRUE /\ setup' = "env"
    /\ setupDone' = FALSE /\ lifecycleError' = FALSE /\ postStartRan' = FALSE
    /\ failed' = FALSE /\ told' = "nobody"
    /\ UNCHANGED <<plan, todo, doing, background, flags, begun, cut, skipped,
                   viewerVars, restarts>>

\* The container stops or the server dies with everything it runs; its
\* clients' streams break.
ContainerStops ==
    /\ served /\ restarts < RestartLimit
    /\ restarts' = restarts + 1
    /\ served' = FALSE /\ setup' = "over" /\ todo' = {} /\ doing' = 0
    /\ background' = {}
    /\ cut' = [c \in Commands |-> IF c \in Active THEN cut[c] + 1 ELSE cut[c]]
    /\ viewers' = [v \in Viewers |-> "away"]
    /\ UNCHANGED <<plan, flags, postStartRan, setupDone, lifecycleError, visits,
                   begun, skipped, failed, told>>

\* The closure's last statement; its guard's drop sends the same value again.
Finish == setup' = "over" /\ setupDone' = TRUE

\* A bug: no SetupDoneGuard, so a panic leaves setup_done unset.
SetupPanicsUnguarded ==
    /\ lifecycleError' = TRUE /\ failed' = TRUE
    /\ setup' = "over" /\ UNCHANGED setupDone

\* A panic in the task: the error is recorded by the caller of catch_unwind,
\* and the guard, dropped after that, signals setup_done.
SetupPanics ==
    /\ lifecycleError' = TRUE /\ failed' = TRUE
    /\ Finish

\* resolve_pod_env, or its panic.
ResolveEnv ==
    /\ served /\ setup = "env"
    /\ \/ setup' = "git" /\ UNCHANGED <<setupDone, lifecycleError, failed>>
       \/ SetupPanics
    /\ UNCHANGED <<plan, served, commandVars, viewerVars, restarts, told>>

\* The flag files are read once, before the first command.
ShouldRun(c) == c \notin flags /\ (c = PostStart => ~postStartRan)

Sequence == {c \in plan.has : ShouldRun(c)}

\* The clone of a first launch or the gateway refresh of a later one, every
\* step of which ends in expect(); then lifecycle::run builds its sequence.
PrepareRepository ==
    /\ served /\ setup = "git"
    /\ \/ /\ setup' = "commands" /\ todo' = Sequence
          /\ UNCHANGED <<setupDone, lifecycleError, failed>>
       \/ SetupPanics /\ UNCHANGED todo
    /\ UNCHANGED <<plan, served, doing, background, flags, postStartRan, begun, cut,
                   skipped, viewerVars, restarts, told>>

-----------------------------------------------------------------------------
(* lifecycle::run                                                            *)

Foreground(c) == plan.waitFor >= c

\* mark_ran: flag files for the once-per-creation commands, a flag in memory
\* for postStart.
MarkRan(cs) ==
    /\ flags' = flags \union (cs \intersect {OnCreate, PostCreate})
    /\ postStartRan' = (postStartRan \/ PostStart \in cs)

\* mark_ran_on_failure: what a failed command marks as done besides itself.
SkippedAfter(c) == IF c \in {OnCreate, UpdateContent} THEN {PostCreate} ELSE {}

\* The loop over the sequence: a foreground command is run here.
StartForeground ==
    /\ served /\ setup = "commands" /\ doing = 0
    /\ todo # {} /\ Foreground(Earliest(todo))
    /\ doing' = Earliest(todo) /\ todo' = todo \ {doing'}
    /\ begun' = [begun EXCEPT ![doing'] = @ + 1]
    /\ UNCHANGED <<plan, served, setup, background, flags, postStartRan, setupDone,
                   lifecycleError, viewerVars, restarts, cut, skipped, failed, told>>

\* A command runs until it is marked; a restart before that runs it again.
ForegroundSucceeds ==
    /\ served /\ doing # 0
    /\ MarkRan({doing}) /\ doing' = 0
    /\ UNCHANGED <<plan, served, setup, todo, background, setupDone, lifecycleError,
                   viewerVars, restarts, begun, cut, skipped, failed, told>>

\* A bug: a failed command ends the setup as a successful one does.
ForegroundFailsSilently ==
    /\ served /\ doing # 0
    /\ MarkRan({doing} \union SkippedAfter(doing))
    /\ skipped' = skipped \union SkippedAfter(doing)
    /\ doing' = 0 /\ todo' = {}
    /\ failed' = TRUE
    /\ Finish
    /\ UNCHANGED <<plan, served, background, viewerVars, restarts, begun, cut, told,
                   lifecycleError>>

\* A non-zero exit returns before the background thread is spawned; run_setup
\* turns the result into the lifecycle error.
ForegroundFails ==
    /\ served /\ doing # 0
    /\ MarkRan({doing} \union SkippedAfter(doing))
    /\ skipped' = skipped \union SkippedAfter(doing)
    /\ doing' = 0 /\ todo' = {}
    /\ lifecycleError' = TRUE /\ failed' = TRUE
    /\ Finish
    /\ UNCHANGED <<plan, served, background, viewerVars, restarts, begun, cut, told>>

\* The command cannot be spawned: it is marked as run all the same, and
\* run_setup's expect() panics.
ForegroundErrs ==
    /\ served /\ doing # 0
    /\ MarkRan({doing})
    /\ doing' = 0 /\ todo' = {}
    /\ SetupPanics
    /\ UNCHANGED <<plan, served, background, viewerVars, restarts, begun, cut,
                   skipped, told>>

\* The background thread runs the first of the commands it has, if any.
Starting(cs) == IF cs = {} THEN begun ELSE [begun EXCEPT ![Earliest(cs)] = @ + 1]

\* The rest of the sequence goes to one thread, and run_setup is through.
LeaveRestToThread ==
    /\ served /\ setup = "commands" /\ doing = 0
    /\ ~(todo # {} /\ Foreground(Earliest(todo)))
    /\ background' = todo /\ todo' = {}
    /\ begun' = Starting(todo)
    /\ Finish
    /\ UNCHANGED <<plan, served, doing, flags, postStartRan, lifecycleError, viewerVars,
                   restarts, cut, skipped, failed, told>>

\* The thread marks its command, whatever its exit code, and starts the next.
BackgroundEnds ==
    /\ served /\ background # {}
    /\ MarkRan({Earliest(background)})
    /\ background' = background \ {Earliest(background)}
    /\ begun' = Starting(background')
    /\ UNCHANGED <<plan, served, setup, todo, doing, setupDone, lifecycleError,
                   viewerVars, restarts, cut, skipped, failed, told>>

\* A command that cannot be spawned ends the thread.
BackgroundErrs ==
    /\ served /\ background # {}
    /\ background' = {}
    /\ cut' = [cut EXCEPT ![Earliest(background)] = @ + 1]
    /\ UNCHANGED <<plan, served, setup, todo, doing, flags, postStartRan, setupDone,
                   lifecycleError, viewerVars, restarts, begun, skipped, failed, told>>

-----------------------------------------------------------------------------
(* /events                                                                   *)

\* A client connects as soon as the server listens.
ViewerConnects(v) ==
    /\ served /\ viewers[v] # "waiting" /\ visits[v] < VisitLimit
    /\ viewers' = [viewers EXCEPT ![v] = "waiting"]
    /\ visits' = [visits EXCEPT ![v] = @ + 1]
    /\ UNCHANGED <<plan, served, setup, commandVars, setupDone, lifecycleError,
                   restarts, failed, told>>

\* events_handler's task: it waits for setup_done, takes the error and sends
\* the greeting, which the client reads as success or as failure, unless the
\* connection breaks first: then an error taken for it is gone.
Greet(v) ==
    /\ served /\ viewers[v] = "waiting" /\ setupDone
    /\ \/ /\ viewers' = [viewers EXCEPT ![v] = IF lifecycleError THEN "failed" ELSE "ready"]
          /\ told' = IF lifecycleError THEN "client" ELSE told
       \/ /\ viewers' = [viewers EXCEPT ![v] = "away"]
          /\ told' = IF lifecycleError THEN "gone" ELSE told
    /\ lifecycleError' = FALSE
    /\ UNCHANGED <<plan, served, setup, commandVars, setupDone, visits, restarts, failed>>

\* A client that does not read while the setup reports more progress than the
\* broadcast channel holds: recv() answers Lagged, which ends the wait like
\* setup_done does, and the greeting follows at once.
GreetEarly(v) ==
    /\ served /\ viewers[v] = "waiting" /\ ~setupDone
    /\ viewers' = [viewers EXCEPT ![v] = "early"]
    /\ UNCHANGED <<plan, served, setup, commandVars, setupDone, lifecycleError, visits,
                   restarts, failed, told>>

\* The connection breaks before the greeting.
ViewerLost(v) ==
    /\ viewers[v] = "waiting"
    /\ viewers' = [viewers EXCEPT ![v] = "away"]
    /\ UNCHANGED <<plan, served, setup, commandVars, setupDone, lifecycleError, visits,
                   restarts, failed, told>>

SetupStep ==
    \/ ResolveEnv \/ PrepareRepository
    \/ StartForeground \/ ForegroundSucceeds \/ ForegroundFails \/ ForegroundErrs
    \/ LeaveRestToThread

Greetings == \E v \in Viewers : Greet(v)

SetupNext ==
    \/ ServerStarts \/ SetupStep \/ ContainerStops \/ BackgroundEnds \/ BackgroundErrs
    \/ \E v \in Viewers : ViewerConnects(v) \/ Greet(v) \/ GreetEarly(v) \/ ViewerLost(v)

\* The setup task runs to its end (a lifecycle command that never ends keeps
\* every client waiting, by design), and so does each greeting task.
SetupFair ==
    /\ WF_setupVars(SetupStep)
    /\ WF_setupVars(Greetings)

SetupSpec == SetupInit /\ [][SetupNext]_setupVars /\ SetupFair

-----------------------------------------------------------------------------
(* Properties                                                                *)

\* Lifecycle commands keep the devcontainer order over all restarts of the
\* container: one command runs at a time, a command starts only when every
\* configured command before it has been run in this container (or was marked
\* as run because an earlier one failed, or could not be spawned), and a once-
\* per-creation command is started again only if a restart or a spawn error
\* cut short each of its earlier runs, never after its flag file exists.
LifecycleOnceInOrder ==
    /\ \A c, d \in Active : c = d
    /\ \A c \in Active : \A d \in plan.has : d < c => begun[d] > 0 \/ d \in skipped
    /\ \A c \in {OnCreate, PostCreate} : begun[c] <= 1 + cut[c]
    /\ \A c \in Active : c \in {OnCreate, PostCreate} => c \notin skipped

\* The readiness greeting is honest: behind a client that kept up with the
\* progress and was greeted as ready is a live server with a finished setup
\* (events_handler), no foreground command runs, and a failure of this start
\* went to another client first: one that got it, or one that was gone when
\* the error had been taken for it.
ReadyIsHonest ==
    \A v \in Viewers : viewers[v] = "ready" =>
        served /\ setup = "over" /\ doing = 0 /\ (failed => told \in {"client", "gone"})

\* The setup of a container does what it reports, over restarts and failures of
\* commands (lifecycle::run, events_handler).
SetupIsHonest == LifecycleOnceInOrder /\ ReadyIsHonest

\* Nobody waits for a greeting: every client connected to a server is greeted,
\* or its connection or the server has ended, even when the setup task panics.
EveryoneGreeted == \A v \in Viewers : viewers[v] # "waiting"
=============================================================================
