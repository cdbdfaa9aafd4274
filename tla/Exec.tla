-------------------------------- MODULE Exec --------------------------------
(***************************************************************************)
(* "rumpel exec": the calling command (exec.rs), the daemon that relays it  *)
(* (daemon_exec) and the pod server that runs it (pod/exec.rs) with its     *)
(* process group (async_command.rs).                                        *)
(*                                                                          *)
(* One execution.  Its request, its response and its signals are separate   *)
(* HTTP/2 streams, so a response nobody reads and an input nobody takes     *)
(* fill up without holding back a signal.  Output is a number of chunks;    *)
(* the descendants of the command are one process that holds the output     *)
(* open, one that has redirected it, or none.                               *)
(***************************************************************************)
EXTENDS Integers, Sequences

CONSTANTS
  OutputChunks,  \* chunks the command and its descendants write at most
  InputChunks,   \* chunks the caller has on its standard input
  FrameRoom,     \* capacity of the response channel (4)
  ControlRoom,   \* capacity of the control channel (4)
  SignalLimit    \* signals the caller gets at most

ASSUME ExecAssumption ==
  /\ OutputChunks \in Nat /\ InputChunks \in Nat /\ SignalLimit \in Nat
  /\ FrameRoom \in Nat \ {0} /\ ControlRoom \in Nat \ {0}

VARIABLES
  caller,     \* exec(): what the calling command is doing or has reported
  wire,       \* the connection from the caller to the pod server
  reply,      \* the response head
  starts,     \* processes started for this call
  leader,     \* the command's process
  status,     \* its exit status
  offspring,  \* its descendants
  wrote,      \* chunks written to the output pipes
  pumped,     \* chunks forward_output has taken from them
  frames,     \* frames of the response on their way to the caller
  heard,      \* chunks the caller has printed
  task,       \* run_process
  registered,     \* whether the execution ID is registered
  typed,      \* chunks read from the caller's standard input
  stdin,      \* input frames on their way to the command
  controls,   \* signals in the control channel
  signals,    \* signal requests on their way
  spent,      \* signals the caller has had
  reached,    \* the process each of the caller's signals went to
  killed      \* whom SIGKILL to the command's process group found

execVars == <<caller, wire, reply, starts, leader, status, offspring, wrote,
              pumped, frames, heard, task, registered, typed, stdin, controls,
              signals, spent, reached, killed>>

ExecInit ==
  /\ caller = "asking" /\ wire = "up" /\ reply = "none"
  /\ starts = 0 /\ leader = "none" /\ status = 0 /\ offspring = "none"
  /\ wrote = 0 /\ pumped = 0 /\ frames = <<>> /\ heard = 0
  /\ task = "none" /\ registered = FALSE
  /\ typed = 0 /\ stdin = <<>>
  /\ controls = 0 /\ signals = 0 /\ spent = 0 /\ reached = {} /\ killed = {}

execProcessVars == <<leader, status, offspring, wrote>>
replyVars == <<reply, frames, heard>>
inputVars == <<typed, stdin>>
signalVars == <<controls, signals, spent, reached, killed>>

-----------------------------------------------------------------------------
(* Starting the command *)

(* No usable connection to the pod, or a pod server that speaks HTTP/1. *)
Refusals == {"refused", "missing"}

(* daemon_exec, and exec_handler for an invalid request, an unfinished setup or
   a program that does not start: refused before anything is started. *)
DaemonRefuses ==
  /\ caller = "asking" /\ reply = "none" /\ task = "none" /\ wire = "up"
  /\ reply' \in Refusals
  /\ task' = "never"
  /\ UNCHANGED <<caller, wire, starts, execProcessVars, pumped, frames, heard,
                 registered, inputVars, signalVars>>

(* exec_handler: the process runs, its ID is registered and only then the
   response begins. *)
PodStarts ==
  /\ caller = "asking" /\ task = "none" /\ wire = "up"
  /\ starts' = starts + 1
  /\ leader' = "running"
  /\ registered' = TRUE
  /\ task' = "running"
  /\ reply' = "accepted"
  /\ UNCHANGED <<caller, wire, status, offspring, wrote, pumped, frames, heard,
                 inputVars, signalVars>>

(* The response head arrives, or an error that leaves the outcome unknown. *)
CallerHearsReply ==
  /\ caller = "asking"
  /\ \/ /\ wire = "up" /\ reply # "none"
        /\ caller' = IF reply = "accepted" THEN "streaming"
                     ELSE IF reply = "refused" THEN "failed" ELSE "legacy"
     \/ wire = "down" /\ caller' = "unknown"
  /\ UNCHANGED <<wire, reply, starts, execProcessVars, pumped, frames, heard, task,
                 registered, inputVars, signalVars>>

(* Only a missing endpoint proves that nothing was started: run the command
   through enter instead. *)
CallerEnters ==
  /\ caller = "legacy"
  /\ starts' = starts + 1
  /\ caller' = "entered"
  /\ UNCHANGED <<wire, replyVars, execProcessVars, pumped, task, registered, inputVars,
                 signalVars>>

-----------------------------------------------------------------------------
(* The command and its descendants *)

OutputOpen == leader = "running" \/ offspring = "holding"

CommandWrites ==
  /\ OutputOpen /\ wrote < OutputChunks
  /\ wrote' = wrote + 1
  /\ UNCHANGED <<caller, wire, replyVars, starts, leader, status, offspring,
                 pumped, task, registered, inputVars, signalVars>>

CommandForks ==
  /\ leader = "running" /\ offspring = "none"
  /\ offspring' = "holding"
  /\ UNCHANGED <<caller, wire, replyVars, starts, leader, status, wrote, pumped,
                 task, registered, inputVars, signalVars>>

DescendantCloses ==
  /\ offspring = "holding"
  /\ offspring' \in {"quiet", "none"}
  /\ UNCHANGED <<caller, wire, replyVars, starts, leader, status, wrote, pumped,
                 task, registered, inputVars, signalVars>>

CommandExits ==
  /\ leader = "running"
  /\ leader' = "exited"
  /\ status' \in {0, 1}
  /\ UNCHANGED <<caller, wire, replyVars, starts, offspring, wrote, pumped,
                 task, registered, inputVars, signalVars>>

-----------------------------------------------------------------------------
(* run_process *)

(* forward_output, or forward_terminal_output, waits for room in the
   response. *)
PumpOutput ==
  /\ task = "running" /\ pumped < wrote /\ Len(frames) < FrameRoom
  /\ pumped' = pumped + 1
  /\ frames' = Append(frames, "output")
  /\ UNCHANGED <<caller, wire, reply, heard, starts, execProcessVars, task, registered,
                 inputVars, signalVars>>

\* A bug: the leader is reaped as soon as it exits.
ReapLeaderAtOnce ==
  /\ task = "running" /\ leader = "exited"
  /\ leader' = "reaped"
  /\ task' = "exiting"
  /\ registered' = FALSE
  /\ UNCHANGED <<caller, wire, replyVars, starts, status, offspring, wrote,
                 pumped, inputVars, signalVars>>

(* The output is at its end and only now is the leader reaped, so its process
   ID was reserved until here; the registration goes with it. *)
ReapLeader ==
  /\ task = "running" /\ ~OutputOpen /\ pumped = wrote /\ leader = "exited"
  /\ leader' = "reaped"
  /\ task' = "exiting"
  /\ registered' = FALSE
  /\ UNCHANGED <<caller, wire, replyVars, starts, status, offspring, wrote,
                 pumped, inputVars, signalVars>>

(* killpg: the ID of a group without members, whose leader has been reaped, is
   free for reuse. *)
Killpg ==
  killed' = killed \cup {IF leader = "reaped" /\ offspring = "none" THEN "free" ELSE "group"}

(* The last frame; then the process group is dropped, which kills it unless the
   command succeeded, though the leader has been reaped. *)
SendExit ==
  /\ task = "exiting"
  /\ IF wire = "up" THEN Len(frames) < FrameRoom /\ frames' = Append(frames, "exit")
                    ELSE UNCHANGED frames
  /\ IF status = 0 THEN UNCHANGED <<offspring, killed>>
                   ELSE offspring' = "none" /\ Killpg
  /\ task' = "ended"
  /\ UNCHANGED <<caller, wire, reply, heard, starts, leader, status, wrote,
                 pumped, registered, inputVars, controls, signals, spent, reached>>

(* An early return of run_process drops the process group and the child. *)
KillGroup ==
  /\ leader' = IF leader = "running" THEN "exited" ELSE leader
  /\ status' = IF leader = "running" THEN 137 ELSE status
  /\ offspring' = "none"
  /\ Killpg
  /\ registered' = FALSE

(* tx.closed(): the caller or the connection is gone. *)
TaskHangsUp ==
  /\ task = "running" /\ wire = "down"
  /\ KillGroup
  /\ task' = "ended"
  /\ UNCHANGED <<caller, wire, replyVars, starts, wrote, pumped, inputVars,
                 controls, signals, spent, reached>>

(* forward_input: a data frame waits for the command to read it, or is dropped
   when the command no longer does, and EOF closes the command's input. *)
FeedCommand ==
  /\ task = "running" /\ stdin # <<>> /\ Head(stdin) # "error"
  /\ stdin' = Tail(stdin)
  /\ UNCHANGED <<caller, wire, replyVars, starts, execProcessVars, pumped, task,
                 registered, typed, signalVars>>

(* A request body that fails before EOF ends the execution. *)
InputFails ==
  /\ task = "running" /\ stdin # <<>> /\ Head(stdin) = "error"
  /\ KillGroup
  /\ task' = "failing"
  /\ stdin' = <<>>
  /\ UNCHANGED <<caller, wire, replyVars, starts, wrote, pumped, typed,
                 controls, signals, spent, reached>>

SendError ==
  /\ task = "failing"
  /\ IF wire = "up" THEN Len(frames) < FrameRoom /\ frames' = Append(frames, "error")
                    ELSE UNCHANGED frames
  /\ task' = "ended"
  /\ UNCHANGED <<caller, wire, reply, heard, starts, execProcessVars, pumped, registered,
                 inputVars, signalVars>>

(* A signal goes to the process group of the leader (and of a terminal's
   foreground job), whatever the output and the input are waiting for. *)
DeliverSignal ==
  /\ task = "running" /\ controls > 0
  /\ controls' = controls - 1
  /\ reached' = reached \cup {leader}
  /\ UNCHANGED <<caller, wire, replyVars, starts, execProcessVars, pumped, task,
                 registered, inputVars, signals, spent, killed>>

-----------------------------------------------------------------------------
(* The caller's streams *)

CallerPrints ==
  /\ caller = "streaming" /\ frames # <<>> /\ wire = "up"
  /\ frames' = Tail(frames)
  /\ IF Head(frames) = "output"
       THEN heard' = heard + 1 /\ UNCHANGED caller
       ELSE /\ caller' = IF Head(frames) = "exit" THEN "exited" ELSE "failed"
            /\ UNCHANGED heard
  /\ UNCHANGED <<wire, reply, starts, execProcessVars, pumped, task, registered,
                 inputVars, signalVars>>

(* The response ends without its last frame. *)
CallerLosesResponse ==
  /\ caller = "streaming" /\ wire = "down"
  /\ caller' = "unknown"
  /\ UNCHANGED <<wire, replyVars, starts, execProcessVars, pumped, task, registered,
                 inputVars, signalVars>>

(* forward_stdin, which starts with the accepted response: a chunk, EOF at the
   end, or a read error. *)
CallerTypes ==
  /\ caller = "streaming" /\ wire = "up" /\ typed <= InputChunks
  /\ Len(stdin) < FrameRoom
  /\ \/ typed < InputChunks /\ stdin' = Append(stdin, "data") /\ typed' = typed + 1
     \/ typed = InputChunks /\ stdin' = Append(stdin, "eof") /\ typed' = typed + 1
     \/ stdin' = Append(stdin, "error") /\ typed' = InputChunks + 1
  /\ UNCHANGED <<caller, wire, replyVars, starts, execProcessVars, pumped, task,
                 registered, signalVars>>

CallerSignals ==
  /\ caller = "streaming" /\ wire = "up" /\ spent < SignalLimit
  /\ signals' = signals + 1
  /\ spent' = spent + 1
  /\ UNCHANGED <<caller, wire, replyVars, starts, execProcessVars, pumped, task,
                 registered, inputVars, controls, reached, killed>>

(* signal_handler: an unknown ID has finished; a full channel is waited for. *)
SignalHandler ==
  \/ ~registered /\ UNCHANGED controls
  \/ registered /\ controls < ControlRoom /\ controls' = controls + 1

(* daemon_signal passes the request on. *)
SignalArrives ==
  /\ signals > 0 /\ wire = "up"
  /\ signals' = signals - 1
  /\ SignalHandler
  /\ UNCHANGED <<caller, wire, replyVars, starts, execProcessVars, pumped, task,
                 registered, inputVars, spent, reached, killed>>

(* The caller is killed, its terminal closes, or the exec proxy drops the
   connections of a lost host transport. *)
WireBreaks ==
  /\ wire = "up" /\ caller \in {"asking", "streaming"}
  /\ wire' = "down"
  /\ caller' \in {caller, "gone"}
  /\ UNCHANGED <<replyVars, starts, execProcessVars, pumped, task, registered, inputVars,
                 signalVars>>

-----------------------------------------------------------------------------
ExecNext ==
  \/ DaemonRefuses \/ PodStarts \/ CallerHearsReply \/ CallerEnters
  \/ CommandWrites \/ CommandForks \/ DescendantCloses \/ CommandExits
  \/ PumpOutput \/ ReapLeader \/ SendExit \/ TaskHangsUp \/ FeedCommand
  \/ InputFails \/ SendError \/ DeliverSignal
  \/ CallerPrints \/ CallerLosesResponse \/ CallerTypes \/ CallerSignals
  \/ SignalArrives \/ WireBreaks

(* The task of the execution polls the hang-up of its response and its control
   channel in the same select; the daemon delivers a signal request. *)
Signalling == DeliverSignal \/ SignalArrives

ExecFair == WF_execVars(TaskHangsUp) /\ WF_execVars(Signalling)

ExecSpec == ExecInit /\ [][ExecNext]_execVars /\ ExecFair

(* Type correctness of an execution. *)
ExecTypeOK ==
  /\ caller \in {"asking", "streaming", "legacy", "entered", "exited", "failed",
                 "unknown", "gone"}
  /\ wire \in {"up", "down"}
  /\ reply \in {"none", "accepted"} \cup Refusals
  /\ starts \in Nat
  /\ leader \in {"none", "running", "exited", "reaped"}
  /\ status \in {0, 1, 137} /\ offspring \in {"none", "holding", "quiet"}
  /\ wrote \in Nat /\ pumped \in Nat /\ heard \in Nat
  /\ frames \in Seq({"output", "exit", "error"})
  /\ task \in {"none", "never", "running", "exiting", "failing", "ended"}

(* What the caller reports is true: an exit status comes with every chunk the
   command and its descendants wrote, and after a fallback the command has run
   once ("Retrying other failures could execute a command twice").  No signal
   of the caller went to a process ID that was already free for reuse.  The
   processes a successful command leaves behind are spared; the kill that
   follows a failed command, and only that one, may find the group's ID free. *)
ExecFaithful ==
  /\ caller = "exited" => heard = wrote /\ ~OutputOpen /\ starts = 1
  /\ starts <= 1
  /\ reached \subseteq {"running", "exited"}
  /\ killed # {} /\ status = 0 => leader # "reaped" /\ caller # "exited"
  /\ "free" \in killed => task = "ended" /\ leader = "reaped"

(* The command answers to its caller: once the caller or the connection is
   gone it does not keep running, and a signal reaches it, or finds it ended,
   even while nobody takes its output or it takes no input. *)
CommandObeys ==
  /\ wire = "down" => leader # "running"
  /\ wire = "down" \/ (signals = 0 /\ controls = 0) \/ task # "running"
=============================================================================
