---------------------------- MODULE PtySessions ----------------------------
(***************************************************************************)
(* Terminal sessions: pty_session.rs, which owns the children and their    *)
(* screens, pty_attach.rs, the user's side of an attachment, and the part  *)
(* of codex.rs that replaces a frontend whose connection gave up.          *)
(*                                                                         *)
(* One session name.  Names share nothing but the mutex around the table,  *)
(* and each has a creation lock of its own.  A child that is spawned gets  *)
(* the next generation (next_session_id).  Output is a run of numbered     *)
(* chunks; the screen of a generation is the number of chunks its parser   *)
(* processed, and any output may show the failure banner that              *)
(* reconnect_failed looks for.  Window sizes are left out.                 *)
(*                                                                         *)
(* A child holds its terminal until it exits, so the reader reaches the    *)
(* end of the terminal only after that (a descendant may hold it longer).  *)
(***************************************************************************)
EXTENDS Integers, Sequences

CONSTANTS
  Users,          \* runs of the attaching command
  Generations,    \* children spawned at most
  BroadcastRoom,  \* capacity of the output channel (256)
  Scenarios       \* bounds, one of which a behaviour has: the WebSockets each
                  \* user opens, the chunks each child writes, the route changes

ASSUME PtyAssumption ==
  /\ Generations \in Nat \ {0} /\ BroadcastRoom \in Nat \ {0}
  /\ Scenarios \subseteq [sockets : [Users -> Nat], chunks : [1..Generations -> Nat],
                           routes : Nat]

VARIABLES
  table,     \* PtySessions::inner: the registered generation, or NoSession
  nextId,    \* PtySessions::next_session_id
  child,     \* the process of each generation
  screen,    \* chunks each generation's parser has processed
  broadcast,   \* output_tx of each generation: chunks and Replaced
  reader,    \* the persistent reader of each generation
  monitor,   \* FrontendRecovery::monitor of each generation
  dials,     \* the route each child was started with
  holder,    \* who holds the creation lock
  route,     \* the pod's current endpoint; odd: none
  inForce,   \* history: it, and those it replaced without a cleanup
  proxy,     \* the route the codex proxy forwards to, or NoSession
  cleanup,   \* terminate_with_cleanup, run by whoever changed the route
  bridge,    \* run_bridge of each WebSocket
  link,      \* whether each WebSocket's connection works
  user,      \* attach_async of each user
  scenario   \* the bounds of this behaviour

ptyVars == <<table, nextId, child, screen, broadcast, reader, monitor, dials,
             holder, route, inForce, proxy, cleanup, bridge, link, user, scenario>>

NoSession == 0
Replaced == 0
Gens == 1..Generations
MostSockets == CHOOSE n \in UNION {{s.sockets[u] : u \in Users} : s \in Scenarios} :
                 \A s \in Scenarios : \A u \in Users : s.sockets[u] <= n
Links == Users \X (1..MostSockets)

ASSUME SocketsAssumption ==
  /\ MostSockets \in Nat
  /\ \A s \in Scenarios : \A u \in Users : s.sockets[u] \in 0..MostSockets

Idle == [phase |-> "none", frame |-> "none", gen |-> NoSession, via |-> NoSession,
         cursor |-> 0, seen |-> {}, missed |-> "nothing", reply |-> "none"]

PtyInit ==
  /\ table = NoSession /\ nextId = 1
  /\ child = [g \in Gens |-> "none"]
  /\ screen = [g \in Gens |-> 0]
  /\ broadcast = [g \in Gens |-> <<>>]
  /\ reader = [g \in Gens |-> "none"]
  /\ monitor = [g \in Gens |-> "none"]
  /\ dials = [g \in Gens |-> NoSession]
  /\ holder = "free"
  /\ route = 2 /\ inForce = {2}
  /\ proxy = NoSession
  /\ cleanup = [phase |-> "none", gen |-> NoSession]
  /\ bridge = [l \in Links |-> Idle]
  /\ link = [l \in Links |-> "none"]
  /\ user = [u \in Users |-> [phase |-> "start", link |-> 0, launched |-> FALSE]]
  /\ scenario \in Scenarios

-----------------------------------------------------------------------------
(* The registry *)

Runs(g) == child[g] \in {"alive", "signalled"}
Connected == route % 2 = 0
CanSpawn == nextId \in Gens

(* attach_existing: the table without a dead child, which waitpid reaps. *)
Existing == IF table # NoSession /\ ~Runs(table) THEN NoSession ELSE table

ReapTable == table' = Existing

(* The receiver that attach_existing subscribes before anybody reads the
   screen: it starts behind the newest message. *)
Subscribed(b, g) ==
  [b EXCEPT !.phase = "replay", !.gen = g, !.cursor = Len(broadcast[g]) + 1,
            !.seen = {}, !.missed = "nothing"]

Answered(b, reply) == [Idle EXCEPT !.phase = "over", !.reply = reply]

(* spawn_session: fork the child and start its reader. *)
SpawnChild(g, endpoint) ==
  /\ nextId' = g + 1
  /\ child' = [child EXCEPT ![g] = "alive"]
  /\ reader' = [reader EXCEPT ![g] = "reading"]
  /\ dials' = [dials EXCEPT ![g] = endpoint]

(* A session is dropped, and with it a sender of its output channel, when no
   task and no table entry holds it any more. *)
SessionHeld(g) ==
  \/ table = g
  \/ \E l \in Links : bridge[l].phase = "insert" /\ bridge[l].gen = g
  \/ monitor[g] \in {"notifying", "killing"}
  \/ cleanup.phase = "killing" /\ cleanup.gen = g

OutputClosed(g) == reader[g] = "done" /\ ~SessionHeld(g)

-----------------------------------------------------------------------------
(* Children and persistent readers *)

ChildExits(g) ==
  /\ Runs(g)
  /\ child' = [child EXCEPT ![g] = "dead"]
  /\ UNCHANGED <<nextId, table, screen, broadcast, reader, monitor, dials, holder,
                 route, inForce, proxy, cleanup, bridge, link, user, scenario>>

(* The child wrote a chunk, maybe just before it exited. *)
ReaderParses(g) ==
  /\ reader[g] = "reading" /\ screen[g] < scenario.chunks[g]
  /\ screen' = [screen EXCEPT ![g] = @ + 1]
  /\ reader' = [reader EXCEPT ![g] = "sending"]
  /\ UNCHANGED <<nextId, table, child, broadcast, monitor, dials, holder, route,
                 inForce, proxy, cleanup, bridge, link, user, scenario>>

ReaderBroadcasts(g) ==
  /\ reader[g] = "sending"
  /\ broadcast' = [broadcast EXCEPT ![g] = Append(@, screen[g])]
  /\ reader' = [reader EXCEPT ![g] = "reading"]
  /\ UNCHANGED <<nextId, table, child, screen, monitor, dials, holder, route,
                 inForce, proxy, cleanup, bridge, link, user, scenario>>

(* The end of the terminal: remove_session, if this generation still owns the
   name.  During a replacement the monitor holds the table's mutex, so only
   the creation by a bridge can be overtaken here. *)
RemoveSession(g) == table' = IF table = g THEN NoSession ELSE table

ReaderEnds(g) ==
  /\ reader[g] = "reading" /\ child[g] = "dead"
  /\ RemoveSession(g)
  /\ reader' = [reader EXCEPT ![g] = "done"]
  /\ UNCHANGED <<nextId, child, screen, broadcast, monitor, dials, holder, route,
                 inForce, proxy, cleanup, bridge, link, user, scenario>>

-----------------------------------------------------------------------------
(* run_bridge: acquiring a session *)

SetBridge(l, b) == bridge' = [bridge EXCEPT ![l] = b]

(* The first attach_existing, without the creation lock. *)
BridgeLooks(l) ==
  LET b == bridge[l] IN
  /\ b.phase = "look"
  /\ ReapTable
  /\ SetBridge(l, IF Existing # NoSession THEN Subscribed(b, Existing)
                  ELSE IF b.frame = "attach" THEN [b EXCEPT !.phase = "queue"]
                  ELSE Answered(b, "ended"))
  /\ UNCHANGED <<nextId, child, screen, broadcast, reader, monitor, dials, holder,
                 route, inForce, proxy, cleanup, link, user, scenario>>

BridgeLocks(l) ==
  /\ bridge[l].phase = "queue" /\ holder = "free"
  /\ holder' = "bridge"
  /\ SetBridge(l, [bridge[l] EXCEPT !.phase = "recheck"])
  /\ UNCHANGED <<nextId, table, child, screen, broadcast, reader, monitor,
                 dials, route, inForce, proxy, cleanup, link, user, scenario>>

(* Another request may have created the session while this one waited. *)
BridgeRechecks(l) ==
  LET b == bridge[l] IN
  /\ b.phase = "recheck"
  /\ ReapTable
  /\ IF Existing # NoSession
     THEN SetBridge(l, Subscribed(b, Existing)) /\ holder' = "free"
     ELSE SetBridge(l, [b EXCEPT !.phase = "build"]) /\ UNCHANGED holder
  /\ UNCHANGED <<nextId, child, screen, broadcast, reader, monitor, dials, route,
                 inForce, proxy, cleanup, link, user, scenario>>

(* ensure_codex_proxy: the listener that forwards to this endpoint replaces
   one that forwards to another. *)
EnsureProxy(via) == proxy' = via

(* build_codex_spec, first half: the endpoint of a connected pod.  Without
   one the session is unavailable; the rest may fail before it uses the
   endpoint (no codex binary, a bad configuration, the credential upload). *)
BridgeBuilds(l) ==
  LET b == bridge[l] IN
  /\ b.phase = "build"
  /\ \/ /\ Connected
        /\ SetBridge(l, [b EXCEPT !.phase = "prepare", !.via = route])
        /\ UNCHANGED holder
     \/ /\ ~Connected
        /\ SetBridge(l, Answered(b, "unavailable")) /\ holder' = "free"
     \/ /\ Connected
        /\ SetBridge(l, Answered(b, "error")) /\ holder' = "free"
  /\ UNCHANGED <<nextId, table, child, screen, broadcast, reader, monitor,
                 dials, route, inForce, proxy, cleanup, link, user, scenario>>

(* Second half: ensure_codex_proxy for the endpoint read before, which needs
   a connection to keep it in; then spawn_session. *)
BridgeSpawns(l) ==
  LET b == bridge[l] IN
  /\ b.phase = "prepare"
  /\ \/ /\ Connected /\ CanSpawn
        /\ EnsureProxy(b.via)
        /\ SpawnChild(nextId, b.via)
        /\ SetBridge(l, [b EXCEPT !.phase = "insert", !.gen = nextId])
        /\ UNCHANGED holder
     \/ /\ ~Connected
        /\ SetBridge(l, Answered(b, "error")) /\ holder' = "free"
        /\ UNCHANGED <<proxy, nextId, child, reader, dials>>
  /\ UNCHANGED <<table, screen, broadcast, monitor, route, inForce, cleanup,
                 link, user, scenario>>

BridgeInserts(l) ==
  LET b == bridge[l] IN
  /\ b.phase = "insert"
  /\ table' = b.gen
  /\ monitor' = [monitor EXCEPT ![b.gen] = "watching"]
  /\ SetBridge(l, [b EXCEPT !.phase = "join"])
  /\ UNCHANGED <<nextId, child, screen, broadcast, reader, dials, holder, route,
                 inForce, proxy, cleanup, link, user, scenario>>

(* The last attach_existing, then the creation lock is released. *)
BridgeJoins(l) ==
  LET b == bridge[l] IN
  /\ b.phase = "join"
  /\ ReapTable
  /\ SetBridge(l, IF Existing # NoSession THEN Subscribed(b, Existing)
                  ELSE Answered(b, "ended"))
  /\ holder' = "free"
  /\ UNCHANGED <<nextId, child, screen, broadcast, reader, monitor, dials, route,
                 inForce, proxy, cleanup, link, user, scenario>>

-----------------------------------------------------------------------------
(* run_bridge: the attached client *)

\* A bug: a terminal that attaches gets no replay of the screen.
BridgeReplaysNothing(l) ==
  LET b == bridge[l] IN
  /\ b.phase = "replay"
  /\ SetBridge(l, IF link[l] = "up" THEN [b EXCEPT !.phase = "bridging"]
                                    ELSE Answered(b, "closed"))
  /\ UNCHANGED <<nextId, table, child, screen, broadcast, reader, monitor, dials,
                 holder, route, inForce, proxy, cleanup, link, user, scenario>>

(* build_screen_replay under the screen's lock, sent to the client. *)
BridgeReplays(l) ==
  LET b == bridge[l] IN
  /\ b.phase = "replay"
  /\ SetBridge(l, IF link[l] = "up"
                  THEN [b EXCEPT !.phase = "bridging", !.seen = 1..screen[b.gen]]
                  ELSE Answered(b, "closed"))
  /\ UNCHANGED <<nextId, table, child, screen, broadcast, reader, monitor, dials,
                 holder, route, inForce, proxy, cleanup, link, user, scenario>>

(* A receiver more than BroadcastRoom behind skips to the oldest message the
   channel still holds. *)
Lags(b) == Len(broadcast[b.gen]) - b.cursor + 1 > BroadcastRoom

BridgeForwards(l) ==
  LET b == bridge[l]
      sent == broadcast[b.gen]
  IN
  /\ b.phase = "bridging"
  /\ \/ /\ Lags(b)
        /\ SetBridge(l, [b EXCEPT !.cursor = Len(sent) - BroadcastRoom + 1,
                                  !.missed = "some", !.seen = {}])
     \/ /\ ~Lags(b) /\ b.cursor <= Len(sent) /\ sent[b.cursor] # Replaced
        /\ SetBridge(l, IF link[l] = "up"
                        THEN [b EXCEPT !.cursor = @ + 1, !.seen = @ \cup {sent[b.cursor]}]
                        ELSE Answered(b, "closed"))
     \/ /\ ~Lags(b)
        /\ IF b.cursor <= Len(sent) THEN sent[b.cursor] = Replaced
                                    ELSE OutputClosed(b.gen)
        /\ SetBridge(l, [b EXCEPT !.phase = "switch"])
  /\ UNCHANGED <<nextId, table, child, screen, broadcast, reader, monitor, dials,
                 holder, route, inForce, proxy, cleanup, link, user, scenario>>

(* Replaced, or the channel closed: follow a successor or report the end. *)
BridgeSwitches(l) ==
  LET b == bridge[l] IN
  /\ b.phase = "switch"
  /\ ReapTable
  /\ SetBridge(l, IF Existing \notin {NoSession, b.gen} THEN Subscribed(b, Existing)
                  ELSE Answered(b, "ended"))
  /\ UNCHANGED <<nextId, child, screen, broadcast, reader, monitor, dials, holder,
                 route, inForce, proxy, cleanup, link, user, scenario>>

(* write_input resolves the registered child; with none the bridge closes. *)
BridgeInputFails(l) ==
  /\ bridge[l].phase = "bridging" /\ table = NoSession /\ link[l] = "up"
  /\ SetBridge(l, Answered(bridge[l], "closed"))
  /\ UNCHANGED <<nextId, table, child, screen, broadcast, reader, monitor, dials,
                 holder, route, inForce, proxy, cleanup, link, user, scenario>>

(* The socket reports that the client is gone. *)
BridgeHangsUp(l) ==
  /\ bridge[l].phase = "bridging" /\ link[l] # "up"
  /\ SetBridge(l, Answered(bridge[l], "closed"))
  /\ UNCHANGED <<nextId, table, child, screen, broadcast, reader, monitor, dials,
                 holder, route, inForce, proxy, cleanup, link, user, scenario>>

-----------------------------------------------------------------------------
(* FrontendRecovery::monitor and SessionWatch::replace *)

SetMonitor(g, phase) == monitor' = [monitor EXCEPT ![g] = phase]

(* reconnect_failed: the screen shows the failure banner. *)
ReconnectFailed(g) == screen[g] > 0

(* probe_app_server: the app server answers through the pod's endpoint. *)
AppServerAnswers == Connected

(* The monitor checks the screen, which only grows, after every message, so a
   banner that is up is seen.  It ends with the output channel. *)
MonitorWatches(g) ==
  /\ monitor[g] = "watching"
  /\ \/ ReconnectFailed(g) /\ SetMonitor(g, "recovering")
     \/ OutputClosed(g) /\ SetMonitor(g, "done")
  /\ UNCHANGED <<nextId, table, child, screen, broadcast, reader, dials, holder,
                 route, inForce, proxy, cleanup, bridge, link, user, scenario>>

(* One turn of the recovery loop: is_current, a connected pod and a probe of
   its app server, then replace waits for the creation lock. *)
MonitorProbes(g) ==
  /\ monitor[g] = "recovering"
  /\ \/ table # g /\ SetMonitor(g, "done")
     \/ table = g /\ AppServerAnswers /\ SetMonitor(g, "queue")
  /\ UNCHANGED <<nextId, table, child, screen, broadcast, reader, dials, holder,
                 route, inForce, proxy, cleanup, bridge, link, user, scenario>>

MonitorLocks(g) ==
  /\ monitor[g] = "queue" /\ holder = "free"
  /\ holder' = "monitor"
  /\ SetMonitor(g, "build")
  /\ UNCHANGED <<nextId, table, child, screen, broadcast, reader, dials, route,
                 inForce, proxy, cleanup, bridge, link, user, scenario>>

(* is_current again, then build_codex_spec: no connection sends the monitor
   back to its loop.  dials keeps the endpoint for the child to come. *)
MonitorBuilds(g) ==
  /\ monitor[g] = "build"
  /\ \/ /\ table = g /\ Connected /\ CanSpawn
        /\ dials' = [dials EXCEPT ![nextId] = route]
        /\ SetMonitor(g, "prepare") /\ UNCHANGED holder
     \/ /\ table # g \/ ~Connected
        /\ SetMonitor(g, "recovering") /\ holder' = "free"
        /\ UNCHANGED dials
  /\ UNCHANGED <<nextId, table, child, screen, broadcast, reader, route, inForce,
                 proxy, cleanup, bridge, link, user, scenario>>

(* ensure_codex_proxy, which fails without a connection and ends the monitor;
   then, holding the table's mutex: the old child must still be registered and
   alive, and its replacement is spawned and registered in its place. *)
MonitorInserts(g) ==
  LET n == nextId IN
  /\ monitor[g] = "prepare"
  /\ \/ /\ Connected /\ Existing = g
        /\ EnsureProxy(dials[n])
        /\ SpawnChild(n, dials[n])
        /\ table' = n
        /\ SetMonitor(g, "notifying") /\ UNCHANGED holder
     \/ /\ Connected /\ Existing # g
        /\ EnsureProxy(dials[n])
        /\ SetMonitor(g, "recovering") /\ holder' = "free"
        /\ UNCHANGED <<table, nextId, child, reader, dials>>
     \/ /\ ~Connected
        /\ SetMonitor(g, "done") /\ holder' = "free"
        /\ UNCHANGED <<table, nextId, child, reader, dials, proxy>>
  /\ UNCHANGED <<screen, broadcast, route, inForce, cleanup, bridge, link, user,
                 scenario>>

MonitorNotifies(g) ==
  /\ monitor[g] = "notifying"
  /\ broadcast' = [broadcast EXCEPT ![g] = Append(@, Replaced)]
  /\ SetMonitor(g, "killing")
  /\ UNCHANGED <<nextId, table, child, screen, reader, dials, holder, route,
                 inForce, proxy, cleanup, bridge, link, user, scenario>>

Signalled(g) == [child EXCEPT ![g] = IF @ = "alive" THEN "signalled" ELSE @]

(* SIGTERM to the old child, on_spawn for the new one, and the creation lock
   is released: the holder is the newest generation's predecessor. *)
MonitorKills(g) ==
  /\ monitor[g] = "killing"
  /\ child' = Signalled(g)
  /\ monitor' = [monitor EXCEPT ![g] = "done", ![nextId - 1] = "watching"]
  /\ holder' = "free"
  /\ UNCHANGED <<nextId, table, screen, broadcast, reader, dials, route, inForce,
                 proxy, cleanup, bridge, link, user, scenario>>

-----------------------------------------------------------------------------
(* Stopping, deleting or rerouting the pod *)

(* The connection is removed, stopped or given another endpoint first, and
   cleanup_codex_runtime runs next. *)
RouteChanges ==
  /\ cleanup.phase = "none"
  /\ \E r \in {route + 1, route + 2} : r <= 2 + scenario.routes /\ route' = r
  /\ inForce' = {route'}
  /\ cleanup' = [cleanup EXCEPT !.phase = "queue"]
  /\ UNCHANGED <<nextId, table, child, screen, broadcast, reader, monitor,
                 dials, holder, proxy, bridge, link, user, scenario>>

(* Two changes without a cleanup: ensure_pod_server_route removes the endpoint
   and then fails, and install_repaired_routes puts a new one in the place of
   one that died or was removed that way. *)
RouteReplaced ==
  /\ \/ cleanup.phase = "none" /\ Connected /\ route' = route + 1
     \/ Connected /\ route' = route + 2
     \/ ~Connected /\ route - 1 \in inForce /\ route' = route + 1
  /\ route' <= 2 + scenario.routes
  /\ inForce' = inForce \cup {route'}
  /\ UNCHANGED <<nextId, table, child, screen, broadcast, reader, monitor, dials,
                 holder, proxy, cleanup, bridge, link, user, scenario>>

\* A bug: the cleanup does not wait for the creation lock.
CleanupStartsUnlocked ==
  /\ cleanup.phase = "queue"
  /\ cleanup' = [cleanup EXCEPT !.phase = "removing"]
  /\ UNCHANGED <<nextId, table, child, screen, broadcast, reader, monitor, holder,
                 dials, route, inForce, proxy, bridge, link, user, scenario>>

CleanupLocks ==
  /\ cleanup.phase = "queue" /\ holder = "free"
  /\ holder' = "cleanup"
  /\ cleanup' = [cleanup EXCEPT !.phase = "removing"]
  /\ UNCHANGED <<nextId, table, child, screen, broadcast, reader, monitor,
                 dials, route, inForce, proxy, bridge, link, user, scenario>>

(* remove_codex_proxy, then the session leaves the table. *)
CleanupRemoves ==
  /\ cleanup.phase = "removing"
  /\ proxy' = NoSession
  /\ table' = NoSession
  /\ cleanup' = [phase |-> "killing", gen |-> table]
  /\ UNCHANGED <<nextId, child, screen, broadcast, reader, monitor, dials,
                 holder, route, inForce, bridge, link, user, scenario>>

CleanupKills ==
  /\ cleanup.phase = "killing"
  /\ child' = IF cleanup.gen = NoSession THEN child ELSE Signalled(cleanup.gen)
  /\ cleanup' = [phase |-> "none", gen |-> NoSession]
  /\ holder' = "free"
  /\ UNCHANGED <<nextId, table, screen, broadcast, reader, monitor, dials,
                 route, inForce, proxy, bridge, link, user, scenario>>

-----------------------------------------------------------------------------
(* pty_attach *)

UserLink(u) == <<u, user[u].link>>

(* serve_ws_session: the first frame tells an attachment, which may create the
   session, from a reconnection. *)
Looking(frame) == [Idle EXCEPT !.phase = "look", !.frame = frame]

(* connect_ws: the first connection may create the session, a later one only
   finds it. *)
UserConnects(u) ==
  LET l == <<u, user[u].link + 1>> IN
  /\ user[u].phase \in {"start", "lost"} /\ l[2] <= scenario.sockets[u]
  /\ link' = [link EXCEPT ![l] = "up"]
  /\ bridge' = [bridge EXCEPT ![l] = Looking(IF user[u].phase = "start" THEN "attach" ELSE "reconnect")]
  /\ user' = [user EXCEPT ![u].phase = "attached", ![u].link = l[2]]
  /\ UNCHANGED <<nextId, table, child, screen, broadcast, reader, monitor,
                 dials, holder, route, inForce, proxy, cleanup, scenario>>

(* While the connection is lost a stopped pod ends the attachment. *)
UserHearsStopped(u) ==
  /\ user[u].phase = "lost" /\ ~Connected
  /\ user' = [user EXCEPT ![u].phase = "ended"]
  /\ UNCHANGED <<nextId, table, child, screen, broadcast, reader, monitor, dials,
                 holder, route, inForce, proxy, cleanup, bridge, link, scenario>>

LinkDies(u) ==
  /\ user[u].phase = "attached" /\ link[UserLink(u)] = "up"
  /\ user[u].link < scenario.sockets[u]
  /\ link' = [link EXCEPT ![UserLink(u)] = "dead"]
  /\ UNCHANGED <<nextId, table, child, screen, broadcast, reader, monitor, dials,
                 holder, route, inForce, proxy, cleanup, bridge, user, scenario>>

(* A ping interval in which nothing arrived. *)
UserPings(u) ==
  /\ user[u].phase = "attached" /\ link[UserLink(u)] = "dead"
  /\ user' = [user EXCEPT ![u].phase = "lost"]
  /\ UNCHANGED <<nextId, table, child, screen, broadcast, reader, monitor, dials,
                 holder, route, inForce, proxy, cleanup, bridge, link, scenario>>

(* The bridge's last message, or its close without one. *)
UserHears(u) ==
  LET b == bridge[UserLink(u)] IN
  /\ user[u].phase = "attached" /\ link[UserLink(u)] = "up" /\ b.phase = "over"
  /\ user' = [user EXCEPT ![u].phase = IF b.reply = "closed" THEN "lost" ELSE b.reply]
  /\ link' = [link EXCEPT ![UserLink(u)] = "dead"]
  /\ UNCHANGED <<nextId, table, child, screen, broadcast, reader, monitor,
                 dials, holder, route, inForce, proxy, cleanup, bridge, scenario>>

(* The session was unavailable: the command launches the pod and attaches
   once more, and gives up when it is unavailable again. *)
UserLaunches(u) ==
  /\ user[u].phase = "unavailable" /\ ~user[u].launched /\ Connected
  /\ user[u].link < scenario.sockets[u]
  /\ user' = [user EXCEPT ![u].phase = "start", ![u].launched = TRUE]
  /\ UNCHANGED <<nextId, table, child, screen, broadcast, reader, monitor, dials,
                 holder, route, inForce, proxy, cleanup, bridge, link, scenario>>

(* Ctrl-a d, forwarded only once the replay has put the terminal in raw mode. *)
UserDetaches(u) ==
  /\ user[u].phase = "attached" /\ link[UserLink(u)] = "up"
  /\ bridge[UserLink(u)].phase = "bridging"
  /\ user' = [user EXCEPT ![u].phase = "detached"]
  /\ link' = [link EXCEPT ![UserLink(u)] = "dead"]
  /\ UNCHANGED <<nextId, table, child, screen, broadcast, reader, monitor,
                 dials, holder, route, inForce, proxy, cleanup, bridge, scenario>>

-----------------------------------------------------------------------------
PtyNext ==
  \/ \E g \in Gens :
       \/ ChildExits(g)
       \/ ReaderParses(g) \/ ReaderBroadcasts(g) \/ ReaderEnds(g)
       \/ MonitorWatches(g) \/ MonitorProbes(g) \/ MonitorLocks(g)
       \/ MonitorBuilds(g) \/ MonitorInserts(g) \/ MonitorNotifies(g)
       \/ MonitorKills(g)
  \/ \E l \in Links :
       \/ BridgeLooks(l) \/ BridgeLocks(l) \/ BridgeRechecks(l)
       \/ BridgeBuilds(l) \/ BridgeSpawns(l) \/ BridgeInserts(l)
       \/ BridgeJoins(l) \/ BridgeReplays(l) \/ BridgeForwards(l)
       \/ BridgeSwitches(l) \/ BridgeInputFails(l) \/ BridgeHangsUp(l)
  \/ RouteChanges \/ RouteReplaced \/ CleanupLocks \/ CleanupRemoves \/ CleanupKills
  \/ \E u \in Users :
       \/ UserConnects(u) \/ UserHearsStopped(u) \/ LinkDies(u)
       \/ UserPings(u) \/ UserHears(u) \/ UserLaunches(u) \/ UserDetaches(u)

(* The reader threads, the recovery monitors (which may probe an app-server
   that does not answer for ever: MonitorProbes stays out), and the rest, who
   compete for the creation lock, a fair mutex. *)
Readers == \E g \in Gens : ReaderParses(g) \/ ReaderBroadcasts(g) \/ ReaderEnds(g)

Monitors == \E g \in Gens :
  \/ MonitorWatches(g) \/ MonitorLocks(g) \/ MonitorBuilds(g) \/ MonitorInserts(g)
  \/ MonitorNotifies(g) \/ MonitorKills(g)

Terminals ==
  \/ \E l \in Links :
       \/ BridgeLooks(l) \/ BridgeLocks(l) \/ BridgeRechecks(l) \/ BridgeBuilds(l)
       \/ BridgeSpawns(l) \/ BridgeInserts(l) \/ BridgeJoins(l) \/ BridgeReplays(l)
       \/ BridgeForwards(l) \/ BridgeSwitches(l)
  \/ CleanupLocks \/ CleanupRemoves \/ CleanupKills
  \/ \E u \in Users : UserPings(u) \/ UserHears(u)

PtyFair == WF_ptyVars(Readers) /\ WF_ptyVars(Monitors) /\ SF_ptyVars(Terminals)

PtySpec == PtyInit /\ [][PtyNext]_ptyVars /\ PtyFair

(* A child that runs and was never told to stop is the registered one, was
   started for the pod's current route and has a proxy to it, unless somebody
   who holds or waits for the creation lock is about to register it, replace
   it or clean up after a change of route ("lifecycle cleanup cannot return
   while a frontend for the old pod is still being spawned").  A route that a
   repair, or a reconnection that failed, replaced keeps its frontend until the
   next cleanup. *)
NoStrayFrontend ==
  \A g \in Gens : child[g] = "alive" =>
    \/ table = g /\ dials[g] \in inForce /\ proxy \in inForce
    \/ cleanup.phase # "none"
    \/ holder = "bridge" /\ \E l \in Links : bridge[l].phase = "insert" /\ bridge[l].gen = g
    \/ holder = "monitor" /\ monitor[g] \in {"notifying", "killing"}

(* An attached terminal that has not lagged misses no output of the child it
   shows: a chunk the screen has is in the replay, was forwarded, or is still
   to come, whatever order the reader, the subscription and the replay ran in. *)
NothingMissed ==
  \A l \in Links :
    LET b == bridge[l] IN
    b.phase = "bridging" /\ b.missed = "nothing" =>
      \A k \in 1..screen[b.gen] :
        \/ k \in b.seen
        \/ \E i \in b.cursor..Len(broadcast[b.gen]) : broadcast[b.gen][i] = k
        \/ reader[b.gen] = "sending" /\ k = screen[b.gen]

(* A user is stranded while the terminal shows a child that is gone or the
   connection is dead. *)
Stranded(u) ==
  /\ user[u].phase = "attached"
  /\ \/ link[UserLink(u)] = "dead"
     \/ bridge[UserLink(u)].phase # "bridging"
     \/ ~Runs(bridge[UserLink(u)].gen)

(* No user is stranded: the bridge moves to the successor or reports the end,
   even when a lagging receiver missed the Replaced message, and a dead
   connection is noticed. *)
NobodyStranded == \A u \in Users : ~Stranded(u)
=============================================================================
