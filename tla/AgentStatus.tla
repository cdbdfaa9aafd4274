---------------------------- MODULE AgentStatus ----------------------------
(* How the state of the coding agents in a pod reaches the host daemon.      *)
(* Claude reports through hooks (pod/claude.rs ClaudeSessions); Codex is     *)
(* watched over a WebSocket (pod/codex.rs run_codex_monitor).  Both publish  *)
(* into watch channels of the pod server, whose /events stream (pod/server.rs *)
(* events_handler) greets the daemon with the current state and forwards     *)
(* later changes; the daemon (daemon/pod_connection.rs) keeps a view of it.  *)
EXTENDS Integers, Sequences, FiniteSets

CONSTANTS Sessions, Subagents,  \* Claude sessions and the subagents of one
          Threads,              \* Codex threads
          StatusLoads,          \* [hooks, changes, dials, streams]: how many hook events, thread
                                \* changes, watcher connections and event streams may come
          StreamRoom            \* capacity of the stream's mpsc channel (64 in the code)

ASSUME StatusAssumption ==
    /\ StatusLoads \subseteq [hooks : Nat, changes : Nat, dials : Nat, streams : Nat]
    /\ StreamRoom \in Nat \ {0}
    /\ Threads \intersect {"none", "hello", "list"} = {}  \* what a request may be besides

Agents == {"claude", "codex"}
NoAgent == "none"
ThreadStates == {"not_loaded", "idle", "asking", "active", "error"}

VARIABLES statusLoad,
          main, subagents,   \* ClaudeSessions: main per session ("absent"), its subagents
          thread,            \* the status of each thread in the app-server (external)
          watcher,           \* "off", "hello", "list", "read", "live"
          request,           \* the watcher's request: "none", "list" or a thread
          answer,            \* the reply the app-server has composed but not sent
          inbox,             \* messages on their way to the watcher
          known,             \* CodexThreads.threads
          unread, listed,    \* ids still to read of this page; ids listed so far
          published,         \* the two watch channels
          stream,            \* "down", or how far events_handler is: "open", "greeting", "greeted"
          subscribed,        \* channels its forwarders have subscribed to
          changed,           \* subscribed channels with a change not yet picked up
          held,              \* a value a forwarder is about to send
          greeting,          \* the greeting read and not yet sent
          events,            \* the mpsc channel and the connection
          view, greeted,     \* the daemon's copy; the greeting has been applied
          overtaken          \* history: agents whose state changed past the greeting

codexVars == <<thread, watcher, request, answer, inbox, known, unread, listed>>
claudeVars == <<main, subagents>>
streamVars == <<stream, subscribed, held, greeting, events, view, greeted>>
statusVars == <<statusLoad, claudeVars, codexVars, published, changed, streamVars,
                overtaken>>

NoEvent == "nothing"
NoMessage == <<>>

StatusInit ==
    /\ statusLoad \in StatusLoads
    /\ main = [s \in Sessions |-> "absent"] /\ subagents = [s \in Sessions |-> {}]
    /\ thread = [t \in Threads |-> "not_loaded"]
    /\ watcher = "off" /\ request = "none" /\ answer = NoMessage /\ inbox = <<>>
    /\ known = [t \in Threads |-> "unknown"] /\ unread = {} /\ listed = {}
    /\ published = [a \in Agents |-> NoAgent]
    /\ stream = "down" /\ subscribed = {} /\ changed = {}
    /\ held = [a \in Agents |-> NoEvent] /\ greeting = NoMessage /\ events = <<>>
    /\ view = [a \in Agents |-> NoAgent] /\ greeted = FALSE /\ overtaken = {}

SpendStatus(what) ==
    /\ statusLoad[what] > 0
    /\ statusLoad' = [statusLoad EXCEPT ![what] = @ - 1]

\* A value goes into a watch channel: send_replace marks it changed for every
\* subscriber.  A subscriber that comes later has seen it.
Publish(a, value) ==
    /\ published' = [published EXCEPT ![a] = value]
    /\ changed' = changed \union ({a} \intersect subscribed)
    /\ overtaken' = IF \/ greeting # NoMessage
                       \/ stream = "greeted" /\ a \notin subscribed
                      THEN overtaken \union {a} ELSE overtaken

PublishIfModified(a, value) ==
    IF value = published[a] THEN UNCHANGED <<published, changed, overtaken>>
    ELSE Publish(a, value)

-----------------------------------------------------------------------------
(* Claude: ClaudeSessions.update and its handler                             *)

\* The order of the sessions does not matter: processing wins over an
\* authentication error, that over waiting, and waiting over stopped.
ClaudeSummary(m, subs) ==
    LET Some(x) == \E s \in Sessions : m[s] = x IN
    IF Some("processing") \/ (\E s \in Sessions : subs[s] # {}) THEN "processing"
    ELSE IF Some("auth_error") THEN "auth_error"
    ELSE IF Some("waiting") THEN "waiting" ELSE "stopped"

Hooks == {"SessionStart", "UserPromptSubmit", "Stop", "StopFailure", "SessionEnd"}
           \union ({"SubagentStart", "SubagentStop"} \X Subagents)

\* What an event does to a session's main state and its subagents; an ended
\* session ignores everything but SessionStart.
Update(m, subs, event) ==
    CASE event = "SessionStart" -> <<"waiting", {}>>
      [] event # "SessionStart" /\ m = "stopped" -> <<m, subs>>
      [] event = "UserPromptSubmit" /\ m # "stopped" -> <<"processing", subs>>
      [] event = "Stop" /\ m # "stopped" -> <<"waiting", subs>>
      [] event = "StopFailure" /\ m # "stopped" -> <<"auth_error", subs>>
      [] event = "SessionEnd" /\ m # "stopped" -> <<"stopped", {}>>
      [] OTHER -> <<IF m = "absent" THEN "waiting" ELSE m,
                    IF event[1] = "SubagentStart" THEN subs \union {event[2]}
                    ELSE subs \ {event[2]}>>

\* claude_state_handler: the sessions' lock is held over the publication.
ClaudeHook(s, event) ==
    LET result == Update(main[s], subagents[s], event) IN
    /\ SpendStatus("hooks")
    /\ main' = [main EXCEPT ![s] = result[1]]
    /\ subagents' = [subagents EXCEPT ![s] = result[2]]
    /\ Publish("claude", ClaudeSummary(main', subagents'))
    /\ UNCHANGED <<codexVars, streamVars>>

-----------------------------------------------------------------------------
(* Codex: the app-server (external) and its watcher                          *)

Notify(t, status) ==
    IF watcher = "off" THEN inbox ELSE Append(inbox, <<"changed", t, status>>)

\* A thread starts or changes; every connection is notified.
ThreadChanges(t, status) ==
    /\ SpendStatus("changes") /\ status # thread[t]
    /\ thread' = [thread EXCEPT ![t] = status]
    /\ inbox' = Notify(t, status)
    /\ UNCHANGED <<claudeVars, watcher, request, answer, known, unread, listed,
                   published, changed, streamVars, overtaken>>

Loaded == {t \in Threads : thread[t] # "not_loaded"}

\* The app-server composes a reply from the state of this moment ...
ServerComposes ==
    /\ request # "none" /\ answer = NoMessage
    /\ \/ request = "hello" /\ answer' = <<"hello">>
       \/ /\ request = "list"
          /\ \E page \in SUBSET (Loaded \ listed) :
               /\ page = {} => Loaded \subseteq listed
               /\ answer' = <<"list", page, Loaded \ (listed \union page) # {}>>
       \/ request \in Threads /\ answer' = <<"thread", request, thread[request]>>
    /\ UNCHANGED <<statusLoad, claudeVars, thread, watcher, request, inbox, known,
                   unread, listed, published, changed, streamVars, overtaken>>

\* ... and sends it, possibly behind the notification of a later change.
ServerReplies ==
    /\ answer # NoMessage
    /\ inbox' = Append(inbox, answer)
    /\ answer' = NoMessage /\ request' = "none"
    /\ UNCHANGED <<statusLoad, claudeVars, thread, watcher, known, unread, listed,
                   published, changed, streamVars, overtaken>>

\* codex_state_monitor's loop connects, and starts over from no threads.
MonitorConnects ==
    /\ watcher = "off" /\ SpendStatus("dials")
    /\ watcher' = "hello" /\ request' = "hello"
    /\ known' = [t \in Threads |-> "unknown"] /\ unread' = {} /\ listed' = {}
    /\ UNCHANGED <<claudeVars, thread, answer, inbox, published, changed, streamVars,
                   overtaken>>

\* The connection ends, or a reply is a timeout or an error: the state is
\* unknown until the next connection.
MonitorDrops ==
    /\ watcher # "off"
    /\ watcher' = "off" /\ request' = "none" /\ answer' = NoMessage /\ inbox' = <<>>
    /\ Publish("codex", NoAgent)
    /\ UNCHANGED <<statusLoad, claudeVars, thread, known, unread, listed, streamVars>>

\* CodexThreads.state, whatever the order of the map.
CodexSummary(k) ==
    LET Some(x) == \E t \in Threads : k[t] = x IN
    IF Some("active") THEN "processing"
    ELSE IF Some("error") THEN "error"
    ELSE IF Some("idle") \/ Some("asking") THEN "idle" ELSE NoAgent

\* After a page's threads have been read: the next page, or live.
AfterReply(left, more) ==
    IF left # {} THEN /\ watcher' = "read" /\ request' \in left /\ unread' = left
    ELSE /\ watcher' = IF more THEN "list" ELSE "live"
         /\ request' = IF more THEN "list" ELSE "none"
         /\ unread' = {}

\* thread/status/changed and thread/started.  Between the handshake and the
\* end of the snapshot nothing is published.
MonitorHearsChange ==
    /\ inbox # <<>> /\ Head(inbox)[1] = "changed"
    /\ inbox' = Tail(inbox)
    /\ known' = [known EXCEPT ![Head(inbox)[2]] = Head(inbox)[3]]
    /\ IF watcher \in {"hello", "live"} THEN PublishIfModified("codex", CodexSummary(known'))
       ELSE UNCHANGED <<published, changed, overtaken>>
    /\ UNCHANGED <<statusLoad, claudeVars, thread, watcher, request, answer, unread,
                   listed, streamVars>>

MonitorGreeted ==
    /\ inbox # <<>> /\ Head(inbox)[1] = "hello"
    /\ inbox' = Tail(inbox)
    /\ watcher' = "list" /\ request' = "list"
    /\ PublishIfModified("codex", CodexSummary(known))
    /\ UNCHANGED <<statusLoad, claudeVars, thread, answer, known, unread, listed,
                   streamVars>>

\* thread/loaded/list: `listed` stands for the cursor.
MonitorHearsList ==
    /\ inbox # <<>> /\ Head(inbox)[1] = "list"
    /\ inbox' = Tail(inbox)
    /\ listed' = IF Head(inbox)[3] THEN listed \union Head(inbox)[2] ELSE Threads
    /\ AfterReply(Head(inbox)[2], Head(inbox)[3])
    /\ IF watcher' = "live" THEN PublishIfModified("codex", CodexSummary(known))
       ELSE UNCHANGED <<published, changed, overtaken>>
    /\ UNCHANGED <<statusLoad, claudeVars, thread, answer, known, streamVars>>

\* A bug: a snapshot replaces what a notification has said.
SnapshotReplaces(k, t, status) == [k EXCEPT ![t] = status]

\* A snapshot never replaces what a notification has said.
Snapshot(k, t, status) == IF k[t] = "unknown" THEN [k EXCEPT ![t] = status] ELSE k

MonitorReadsThread ==
    /\ inbox # <<>> /\ Head(inbox)[1] = "thread"
    /\ inbox' = Tail(inbox)
    /\ known' = Snapshot(known, Head(inbox)[2], Head(inbox)[3])
    /\ AfterReply(unread \ {Head(inbox)[2]}, listed # Threads)
    /\ IF watcher' = "live" THEN PublishIfModified("codex", CodexSummary(known'))
       ELSE UNCHANGED <<published, changed, overtaken>>
    /\ UNCHANGED <<statusLoad, claudeVars, thread, answer, listed, streamVars>>

-----------------------------------------------------------------------------
(* The event stream                                                          *)

\* events_handler spawns the greeting task, then subscribes one forwarder
\* after the other.
StreamOpens ==
    /\ stream = "down" /\ SpendStatus("streams")
    /\ stream' = "open" /\ greeted' = FALSE
    /\ overtaken' = {}
    /\ UNCHANGED <<claudeVars, codexVars, published, subscribed, changed, held,
                   greeting, events, view>>

Subscribe(a) ==
    /\ stream # "down" /\ a \notin subscribed
    /\ a = "codex" => "claude" \in subscribed
    /\ subscribed' = subscribed \union {a}
    /\ UNCHANGED <<statusLoad, claudeVars, codexVars, published, changed, stream, held,
                   greeting, events, view, greeted, overtaken>>

\* Setup is done: the greeting task reads both channels ...
GreetingReads ==
    /\ stream = "open"
    /\ stream' = "greeting" /\ greeting' = <<"state", published>>
    /\ UNCHANGED <<statusLoad, claudeVars, codexVars, published, subscribed, changed,
                   held, events, view, greeted, overtaken>>

Room == Len(events) < StreamRoom

\* ... and sends what it read.
GreetingSends ==
    /\ stream = "greeting" /\ Room
    /\ stream' = "greeted" /\ greeting' = NoMessage
    /\ events' = Append(events, greeting)
    /\ UNCHANGED <<statusLoad, claudeVars, codexVars, published, subscribed, changed,
                   held, view, greeted, overtaken>>

\* A forwarder wakes on a change and takes the channel's value of now ...
ForwarderTakes(a) ==
    /\ a \in changed /\ held[a] = NoEvent
    /\ changed' = changed \ {a}
    /\ held' = [held EXCEPT ![a] = published[a]]
    /\ UNCHANGED <<statusLoad, claudeVars, codexVars, published, stream, subscribed,
                   greeting, events, view, greeted, overtaken>>

\* ... and sends it, before or after the greeting.
ForwarderSends(a) ==
    /\ held[a] # NoEvent /\ Room
    /\ events' = Append(events, <<a, held[a]>>)
    /\ held' = [held EXCEPT ![a] = NoEvent]
    /\ overtaken' = IF stream = "greeted" THEN overtaken \ {a} ELSE overtaken
    /\ UNCHANGED <<statusLoad, claudeVars, codexVars, published, changed, stream,
                   subscribed, greeting, view, greeted>>

\* connect_events skips everything before the state event.
DaemonSkips ==
    /\ events # <<>> /\ ~greeted /\ Head(events)[1] # "state"
    /\ events' = Tail(events)
    /\ UNCHANGED <<statusLoad, claudeVars, codexVars, published, changed, stream,
                   subscribed, held, greeting, view, greeted, overtaken>>

DaemonGreeted ==
    /\ events # <<>> /\ Head(events)[1] = "state"
    /\ events' = Tail(events)
    /\ view' = Head(events)[2] /\ greeted' = TRUE
    /\ UNCHANGED <<statusLoad, claudeVars, codexVars, published, changed, stream,
                   subscribed, held, greeting, overtaken>>

DaemonHears ==
    /\ events # <<>> /\ greeted /\ Head(events)[1] # "state"
    /\ events' = Tail(events)
    /\ view' = [view EXCEPT ![Head(events)[1]] = Head(events)[2]]
    /\ UNCHANGED <<statusLoad, claudeVars, codexVars, published, changed, stream,
                   subscribed, held, greeting, greeted, overtaken>>

\* The connection is lost; the daemon keeps its view until the next greeting.
StreamBreaks ==
    /\ stream # "down"
    /\ stream' = "down" /\ subscribed' = {} /\ changed' = {}
    /\ held' = [a \in Agents |-> NoEvent] /\ greeting' = NoMessage /\ events' = <<>>
    /\ greeted' = FALSE /\ overtaken' = {}
    /\ UNCHANGED <<statusLoad, claudeVars, codexVars, published, view>>

StatusNext ==
    \/ \E s \in Sessions, event \in Hooks : ClaudeHook(s, event)
    \/ \E t \in Threads, status \in ThreadStates : ThreadChanges(t, status)
    \/ ServerComposes \/ ServerReplies
    \/ MonitorConnects \/ MonitorDrops \/ MonitorHearsChange \/ MonitorGreeted
    \/ MonitorHearsList \/ MonitorReadsThread
    \/ StreamOpens \/ GreetingReads \/ GreetingSends \/ StreamBreaks
    \/ \E a \in Agents : Subscribe(a) \/ ForwarderTakes(a) \/ ForwarderSends(a)
    \/ DaemonSkips \/ DaemonGreeted \/ DaemonHears

StatusSpec == StatusInit /\ [][StatusNext]_statusVars

-----------------------------------------------------------------------------
(* Properties                                                                *)

\* Once the Codex watcher has read its snapshot, and no message to it is under
\* way, the state it has published is the one the app-server's threads are in,
\* although it reads every thread in a request of its own while they change
\* and its connection comes and goes.
CodexStatusTrue ==
    (watcher = "live" /\ inbox = <<>>) => published.codex = CodexSummary(thread)

\* Everything the pod has to tell the daemon has arrived.
Settled ==
    /\ stream = "greeted" /\ greeted /\ events = <<>>
    /\ subscribed = Agents /\ changed = {} /\ \A a \in Agents : held[a] = NoEvent

\* With nothing more under way the daemon's view of an agent is the pod's,
\* over any number of reconnections, except for an agent whose state changed
\* between the greeting's look at it and the greeting's sending (or the
\* forwarder's subscription, if that is later), and not again since.
ViewFollows == Settled => \A a \in Agents \ overtaken : view[a] = published[a]

\* What `rumpel list` shows of an agent is true: the pod's state is the one the
\* agent is in, and the daemon's is the pod's (run_codex_monitor, events_handler).
StatusFollows == CodexStatusTrue /\ ViewFollows

=============================================================================
