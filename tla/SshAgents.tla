------------------------------ MODULE SshAgents ------------------------------
(* The SSH agents a pod may use.  Ambient ones are sockets that clients have *)
(* told the daemon of; a pod's request tries them from newest to oldest and  *)
(* drops those that do not answer (git_http_server.rs AmbientSshAgents).     *)
(* A managed one is an ssh-agent process the daemon keeps for the pod, in a  *)
(* directory named after the pod (ssh_agent.rs, daemon/pod_connection.rs).   *)
EXTENDS Integers, Sequences, FiniteSets

CONSTANTS Sockets,     \* the sockets clients may name
          MaxAmbient,  \* MAX_AMBIENT_SSH_AGENTS
          AgentAsks,   \* concurrent requests of pods for an ambient agent
          AgentTasks,  \* daemon tasks that configure the managed agent
          SshLoads     \* [told, ends, runs, keys, deaths, removals]: bounds

NoProcess == 0
Connections == {"first", "second"} \* one PodConnection, and its successor
NoConnection == "none"

ASSUME SshAssumption ==
    /\ MaxAmbient \in Nat \ {0} /\ IsFiniteSet(Sockets)
    /\ SshLoads \subseteq [told : Nat, ends : Nat, runs : Nat, keys : Nat, deaths : Nat,
                           removals : Nat]

VARIABLES sshLoad,
          answering,   \* sockets behind which an agent answers
          candidates,  \* known ambient agents: a set of [generation, socket]
          generation,  \* next_generation
          ask,         \* per request: the candidate it probes, and the outcome
          latest,      \* history: generation of every socket's latest registration
          steady,      \* history: generations whose socket has always answered in time
          keys,        \* version of the configured key files
          registered,  \* the connection `PodConnections` has for the pod
          slot,        \* managed_ssh_agent of every connection
          setup,       \* the connections whose ssh_agent_setup is held
          task,        \* per task: [at, conn, kind, hash, agent]
          agents,      \* every agent process so far: [is, hash, loaded]
          served,      \* the agent whose socket is in the pod's agent_dir
          outlived     \* history: a task, or an agent, went on after its connection's removal

sshVars == <<sshLoad, answering, candidates, generation, ask, latest, steady, keys, registered,
             slot, setup, task, agents, served, outlived>>
ambientVars == <<answering, candidates, generation, ask, latest, steady>>
managedVars == <<keys, registered, slot, setup, task, agents, served, outlived>>

IdleTask == [at |-> "idle"]
IdleAsk == [at |-> "idle"]

SshInit ==
    /\ sshLoad \in SshLoads
    /\ answering = Sockets /\ candidates = {} /\ generation = 0
    /\ ask = [r \in AgentAsks |-> IdleAsk]
    /\ latest = [s \in Sockets |-> 0] /\ steady = {}
    /\ keys = 1 /\ registered = NoConnection
    /\ slot = [c \in Connections |-> NoProcess]
    /\ setup = {}
    /\ task = [t \in AgentTasks |-> IdleTask]
    /\ agents = <<>> /\ served = NoProcess /\ outlived = FALSE

-----------------------------------------------------------------------------
(* Ambient agents                                                            *)

\* The newer ones among some candidates, and the one the Vec of them ends with.
Newer(c, all) == {d \in all : d.generation > c.generation}
IsNewest(c) == \A d \in candidates : d.generation <= c.generation

\* A client names its SSH_AUTH_SOCK; the socket becomes the newest candidate,
\* and the oldest go while there are too many.
Remember(s) ==
    /\ sshLoad.told > 0 /\ sshLoad' = [sshLoad EXCEPT !.told = @ - 1]
    /\ generation' = generation + 1
    /\ LET all == {c \in candidates : c.socket # s}
                    \union {[generation |-> generation', socket |-> s]}
       IN  candidates' = {c \in all : Cardinality(Newer(c, all)) < MaxAmbient}
    /\ latest' = [latest EXCEPT ![s] = generation']
    /\ steady' = IF s \in answering THEN steady \union {generation'} ELSE steady
    /\ UNCHANGED <<answering, ask, managedVars>>

\* connect_latest_live reads the newest candidate, and unlocks the state.
Probe(r) ==
    /\ ask[r].at \in {"idle", "again"}
    /\ \/ candidates = {} /\ ask' = [ask EXCEPT ![r] = [at |-> "none"]]
       \/ \E c \in candidates :
            IsNewest(c) /\ ask' = [ask EXCEPT ![r] = [at |-> "probing", candidate |-> c]]
    /\ UNCHANGED <<sshLoad, answering, candidates, generation, latest, steady, managedVars>>

\* The agent answers, or the socket is dead.
ProbeAnswers(r) ==
    /\ ask[r].at = "probing"
    /\ ask' = [ask EXCEPT ![r].at =
                 IF ask[r].candidate.socket \in answering THEN "bridged" ELSE "failed"]
    /\ UNCHANGED <<sshLoad, answering, candidates, generation, latest, steady, managedVars>>

\* SSH_AGENT_PROBE_TIMEOUT passes first: the agent was too slow for this one.
ProbeTimesOut(r) ==
    /\ ask[r].at = "probing" /\ sshLoad.ends > 0
    /\ sshLoad' = [sshLoad EXCEPT !.ends = @ - 1]
    /\ ask' = [ask EXCEPT ![r].at = "failed"]
    /\ steady' = steady \ {ask[r].candidate.generation}
    /\ UNCHANGED <<answering, candidates, generation, latest, managedVars>>

\* The candidate that failed is dropped if it is still the newest one, as it
\* was registered then.
Discard(r) ==
    /\ ask[r].at = "failed"
    /\ candidates' = {c \in candidates :
                         IsNewest(c) => c.generation # ask[r].candidate.generation}
    /\ ask' = [ask EXCEPT ![r] = [at |-> "again"]]
    /\ UNCHANGED <<sshLoad, answering, generation, latest, steady, managedVars>>

\* The pod's SSH client is done: ssh_agent_bridge, or the handler without an
\* agent, closes the WebSocket.
Hangup(r) ==
    /\ ask[r].at \in {"bridged", "none"}
    /\ ask' = [ask EXCEPT ![r] = IdleAsk]
    /\ UNCHANGED <<sshLoad, answering, candidates, generation, latest, steady, managedVars>>

\* A client's agent ends, or starts again behind the same socket.
SocketDies(s) ==
    /\ s \in answering /\ sshLoad.ends > 0
    /\ sshLoad' = [sshLoad EXCEPT !.ends = @ - 1]
    /\ answering' = answering \ {s}
    /\ steady' = steady \ {latest[s]}
    /\ UNCHANGED <<candidates, generation, ask, latest, managedVars>>

SocketReturns(s) ==
    /\ s \notin answering
    /\ answering' = answering \union {s}
    /\ UNCHANGED <<sshLoad, candidates, generation, ask, latest, steady, managedVars>>

-----------------------------------------------------------------------------
(* The managed agent                                                         *)

Alive(a) == a # NoProcess /\ agents[a].is = "alive"

Killed(a) == IF a = NoProcess THEN agents ELSE [agents EXCEPT ![a].is = "dead"]

\* Drop of a ManagedSshAgent: the process is killed and agent_dir removed,
\* whoever's socket is in it by now.
DropAgent(a) ==
    /\ agents' = Killed(a)
    /\ served' = IF a = NoProcess THEN served ELSE NoProcess

\* A pod operation, or `rumpel ssh-add`, with the pod's connection, made if
\* there is none.  The keys' hash is taken before the lock.
TaskBegins(t, kind) ==
    /\ task[t].at = "idle" /\ sshLoad.runs > 0
    /\ sshLoad' = [sshLoad EXCEPT !.runs = @ - 1]
    /\ \E c \in Connections :
         /\ IF registered # NoConnection THEN c = registered
            ELSE slot[c] = NoProcess /\ \A u \in AgentTasks : task[u].at # "idle" => task[u].conn # c
         /\ registered' = c
         /\ task' = [task EXCEPT ![t] =
                       [at |-> "lock", conn |-> c, kind |-> kind, hash |-> keys,
                        agent |-> NoProcess]]
    /\ UNCHANGED <<ambientVars, keys, slot, setup, agents, served, outlived>>

Fits(t, a) == Alive(a) /\ (task[t].kind = "configure" => agents[a].hash = task[t].hash)

\* A bug: without ssh_agent_setup.
TaskLooksUnlocked(t) ==
    /\ task[t].at = "lock"
    /\ LET c == task[t].conn
       IN  IF Fits(t, slot[c])
             THEN /\ task' = [task EXCEPT ![t] = IdleTask]
                  /\ UNCHANGED <<slot, setup, agents, served>>
             ELSE /\ slot' = [slot EXCEPT ![c] = NoProcess]
                  /\ DropAgent(slot[c])
                  /\ task' = [task EXCEPT ![t].at = "start"]
                  /\ setup' = setup
    /\ UNCHANGED <<sshLoad, ambientVars, keys, registered, outlived>>

\* ensure_ssh_agent and configure_ssh_agent: under ssh_agent_setup, a fitting
\* agent is kept, and any other dropped before the new one starts.
TaskLooks(t) ==
    /\ task[t].at = "lock" /\ task[t].conn \notin setup
    /\ LET c == task[t].conn
       IN  IF Fits(t, slot[c])
             THEN /\ task' = [task EXCEPT ![t] = IdleTask]
                  /\ UNCHANGED <<slot, setup, agents, served>>
             ELSE /\ slot' = [slot EXCEPT ![c] = NoProcess]
                  /\ DropAgent(slot[c])
                  /\ task' = [task EXCEPT ![t].at = "start"]
                  /\ setup' = setup \union {c}
    /\ UNCHANGED <<sshLoad, ambientVars, keys, registered, outlived>>

\* ManagedSshAgent::start: the directory is made anew, and the process waited
\* for until its socket is there.
TaskStarts(t) ==
    /\ task[t].at = "start"
    /\ agents' = Append(agents, [is |-> "alive", hash |-> 0, loaded |-> 0])
    /\ served' = Len(agents')
    /\ task' = [task EXCEPT ![t].at = IF task[t].kind = "configure" THEN "add" ELSE "store",
                            ![t].agent = Len(agents'), ![t].hash = keys]
    /\ UNCHANGED <<sshLoad, ambientVars, keys, registered, slot, setup, outlived>>

\* ssh-add reads the key files, and reaches whoever serves the socket.
TaskAddsKeys(t) ==
    /\ task[t].at = "add" /\ Alive(served)
    /\ agents' = [a \in DOMAIN agents |->
                    [is |-> agents[a].is,
                     hash |-> IF a = task[t].agent THEN task[t].hash ELSE agents[a].hash,
                     loaded |-> IF a = served THEN keys ELSE agents[a].loaded]]
    /\ task' = [task EXCEPT ![t].at = "store"]
    /\ UNCHANGED <<sshLoad, ambientVars, keys, registered, slot, setup, served, outlived>>

\* ssh-add fails: the new agent is dropped.
TaskGivesUp(t) ==
    /\ task[t].at = "add" /\ ~Alive(served)
    /\ DropAgent(task[t].agent)
    /\ task' = [task EXCEPT ![t] = IdleTask]
    /\ setup' = setup \ {task[t].conn}
    /\ UNCHANGED <<sshLoad, ambientVars, keys, registered, slot, outlived>>

TaskStores(t) ==
    /\ task[t].at = "store"
    /\ slot' = [slot EXCEPT ![task[t].conn] = task[t].agent]
    /\ DropAgent(slot[task[t].conn])
    /\ setup' = setup \ {task[t].conn}
    /\ task' = [task EXCEPT ![t] = IdleTask]
    /\ UNCHANGED <<sshLoad, ambientVars, keys, registered, outlived>>

\* The user edits a configured key file.
KeysChange ==
    /\ sshLoad.keys > 0 /\ sshLoad' = [sshLoad EXCEPT !.keys = @ - 1]
    /\ keys' = keys + 1
    /\ UNCHANGED <<ambientVars, registered, slot, setup, task, agents, served, outlived>>

\* The agent process of the pod dies, and its socket with it.
AgentDies ==
    /\ Alive(served) /\ sshLoad.deaths > 0
    /\ sshLoad' = [sshLoad EXCEPT !.deaths = @ - 1]
    /\ agents' = Killed(served)
    /\ UNCHANGED <<ambientVars, keys, registered, slot, setup, task, served, outlived>>

\* The connection is removed with its pod.  drop_all takes the agent without
\* waiting for ssh_agent_setup.
RemoveConnection ==
    /\ registered # NoConnection /\ sshLoad.removals > 0
    /\ sshLoad' = [sshLoad EXCEPT !.removals = @ - 1]
    /\ slot' = [slot EXCEPT ![registered] = NoProcess]
    /\ DropAgent(slot[registered])
    /\ outlived' = (outlived \/ \E t \in AgentTasks :
                                   task[t].at # "idle" /\ task[t].conn = registered)
    /\ registered' = NoConnection
    /\ UNCHANGED <<ambientVars, keys, setup, task>>

\* The last user of a removed connection lets go of it.
ConnectionDrops(c) ==
    /\ c # registered /\ slot[c] # NoProcess
    /\ \A t \in AgentTasks : task[t].at # "idle" => task[t].conn # c
    /\ slot' = [slot EXCEPT ![c] = NoProcess]
    /\ DropAgent(slot[c])
    /\ UNCHANGED <<sshLoad, ambientVars, keys, registered, setup, task, outlived>>

SshNext ==
    \/ \E s \in Sockets : Remember(s) \/ SocketDies(s) \/ SocketReturns(s)
    \/ \E r \in AgentAsks :
         Probe(r) \/ ProbeAnswers(r) \/ ProbeTimesOut(r) \/ Discard(r) \/ Hangup(r)
    \/ \E t \in AgentTasks :
         \/ \E kind \in {"configure", "ensure"} : TaskBegins(t, kind)
         \/ TaskLooks(t) \/ TaskStarts(t) \/ TaskAddsKeys(t) \/ TaskGivesUp(t) \/ TaskStores(t)
    \/ \E c \in Connections : ConnectionDrops(c)
    \/ KeysChange \/ AgentDies \/ RemoveConnection

SshSpec == SshInit /\ [][SshNext]_sshVars

-----------------------------------------------------------------------------

\* A socket that has answered since its latest registration stays a candidate
\* until MAX_AMBIENT_SSH_AGENTS newer ones have displaced it: a probe that
\* failed before the socket was registered again never drops the new
\* registration (connect_latest_live compares generations).
LiveAgentsKept ==
    \A s \in Sockets :
        /\ latest[s] \in steady
        /\ Cardinality({n \in Sockets : latest[n] > latest[s]}) < MaxAmbient
        => \E c \in candidates : c.generation = latest[s]

\* While no task outlives the connection it works for: a live agent the
\* pod's connection holds is the one behind the socket pods are sent to, and
\* one that claims the current keys has them (ensure_ssh_agent,
\* configure_ssh_agent and Drop share the pod's agent_dir, and ssh-add reads
\* the files after they were hashed).
AgentIsReachable ==
    \/ outlived
    \/ \A c \in Connections : Alive(slot[c]) =>
         /\ served = slot[c]
         /\ agents[slot[c]].hash = keys => agents[slot[c]].loaded = keys

\* A pod that asks for an SSH agent gets one that can serve it: an ambient one
\* of the user's, or the managed one with the configured keys.
AgentsServe == LiveAgentsKept /\ AgentIsReachable
=============================================================================
