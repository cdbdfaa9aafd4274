------------------------------- MODULE PodEnv -------------------------------
(* The environment of a pod: how the values of devcontainer.json reach the    *)
(* pod's server.                                                              *)
(*                                                                            *)
(* devcontainer.json refers to variables of the user's shell, of the          *)
(* container and of rumpelpod itself.  No process knows them all, so they     *)
(* are substituted in phases: the client collects the shell variables the     *)
(* file names (enter.rs), the daemon substitutes what is known before the     *)
(* container exists (devcontainer.rs, daemon.rs) and passes containerEnv to   *)
(* the container, and the pod's server substitutes the rest of remoteEnv      *)
(* each time it starts (pod/server.rs).  The daemon keeps the raw file and    *)
(* the collected variables in the pod's row, bakes the raw file into the      *)
(* image, and starts the server again from one or the other: when the user    *)
(* re-enters a stopped pod, when it repairs a dead server, and in a fork.     *)
(*                                                                            *)
(* A value is a sequence of tokens: a text, a reference with its default, or  *)
(* a `$NAME` or `$$NAME`, which mean something to docker compose only.        *)
EXTENDS Integers, Sequences, SequencesExt, Functions, TLC

CONSTANTS
  EnvPods,       \* names of pods
  Configs,       \* contents the user may give devcontainer.json
  Shells,        \* environments of the user's shell
  EnvFiles,      \* contents of the file that --env-file in runArgs names
  Profiles,      \* environments the user's shell profile in the pod may give
  ImageEnv,      \* ENV of the image
  BackendSet,    \* variables initialize.rs sets for the chosen backend
  BackendUnset,  \* names initialize.rs removes for the chosen backend
  EnvLoads       \* how often the user, the runtime and the daemon may act

VARIABLES
  config,        \* devcontainer.json in the user's repository
  shell,         \* environment of the user's shell
  envFile,       \* the file of --env-file
  envRow,        \* envRow[p]: the pod's row in the daemon's database
  box,           \* box[p]: the pod's container
  server,        \* server[p]: the pod's server
  envJob,        \* envJob[p]: the startup task of the pod
  envLoad        \* what is left of the chosen load

envVars == <<config, shell, envFile, envRow, box, server, envJob, envLoad>>

-----------------------------------------------------------------------------
(* Values and their substitution.                                             *)

Lit(x) == [kind |-> "text", name |-> x, default |-> <<>>]
Ref(kind, name, default) == [kind |-> kind, name |-> name, default |-> default]

Dollar(name) == Ref("dollar", name, <<>>)
Escaped(name) == Ref("escaped", name, <<>>)

NoEnv == [k \in {} |-> <<>>]

\* The variable if it is set, the default of the reference otherwise, and the
\* empty text when there is none.
LookUp(env, token) ==
  IF token.name \in DOMAIN env THEN env[token.name] ELSE token.default

\* A context is a function from the kinds of reference it can resolve.  Other
\* references stay as they are, for a later phase.
ResolveVariable(token, ctx) ==
  IF token.kind \notin DOMAIN ctx THEN <<token>>
  ELSE IF token.kind \in {"local", "container"}
       THEN LookUp(ctx[token.kind], token)
       ELSE ctx[token.kind]

\* What a reference resolves to is not scanned again.
SubstituteVars(value, ctx) ==
  FlattenSeq([i \in DOMAIN value |-> ResolveVariable(value[i], ctx)])

SubstituteEnv(env, ctx) == [k \in DOMAIN env |-> SubstituteVars(env[k], ctx)]

\* DevContainer::substitute, for the fields a launch depends on.
Substitute(dc, ctx) ==
  [dc EXCEPT !.container = SubstituteEnv(@, ctx),
             !.remote = SubstituteEnv(@, ctx),
             !.mount = SubstituteVars(@, ctx),
             !.folder = SubstituteVars(@, ctx)]

Tokens(value) == {value[i] : i \in DOMAIN value}

\* The shell variables that the raw file names, wherever it does.
CollectLocalEnvVarNames(dc) ==
  LET values == Range(dc.container) \cup Range(dc.remote) \cup {dc.mount, dc.folder}
  IN {t.name : t \in {u \in UNION {Tokens(v) : v \in values} : u.kind = "local"}}

CollectLocalEnvVars(dc) ==
  [n \in CollectLocalEnvVarNames(dc) \cap DOMAIN shell |-> shell[n]]

\* workspaceFolder, and the folder a pod has without one.
ContainerRepoPath(dc) ==
  IF dc.folder = <<>> THEN <<Lit("/workspaces/repo")>> ELSE dc.folder

DevcontainerId(p) == <<Lit(<<"id of", p>>)>>

HostContext(p, local) ==
  [local |-> local, id |-> DevcontainerId(p), localFolder |-> <<Lit("/home/repo")>>]

\* The workspace folder first, since the other fields may refer to it.
ResolveDevcontainerVars(dc, p, local) ==
  LET ctx == HostContext(p, local)
      placed == [dc EXCEPT !.folder = SubstituteVars(@, ctx)]
  IN Substitute(placed, [podFolder |-> ContainerRepoPath(placed)] @@ ctx)

\* containerEnv takes precedence over the variables of the file.
ResolveEnvFiles(dc) ==
  IF dc.readsFile THEN [dc EXCEPT !.container = @ @@ envFile] ELSE dc

LoadAndResolveDevcontainer(p, local) ==
  ResolveDevcontainerVars(ResolveEnvFiles(config), p, local)

\* The stored file, which the daemon reads instead of the repository's once the
\* pod exists.  It does not read the file of --env-file again.
ParseStoredDevcontainer(row, p) == ResolveDevcontainerVars(row.raw, p, row.local)

\* "${" is in the value.
Unresolved(value) == \E t \in Tokens(value) : t.kind \notin {"text", "dollar", "escaped"}

\* docker compose reads the override file: it replaces $NAME by the variable of
\* the client's environment, and $$ by a dollar sign (external).
Interpolate(value, client) ==
  FlattenSeq([i \in DOMAIN value |->
    CASE value[i].kind = "dollar" -> LookUp(client, value[i])
      [] value[i].kind = "escaped" -> <<Dollar(value[i].name)>>
      [] OTHER -> <<value[i]>>])

-----------------------------------------------------------------------------
(* State.                                                                     *)

NoEnvRow == [exists |-> FALSE]
NoBox == [exists |-> FALSE]
NoServer == [state |-> "none"]
NoEnvJob == [pc |-> "idle"]

EnvInit ==
  /\ config \in Configs
  /\ shell \in Shells
  /\ envFile \in EnvFiles
  /\ envRow = [p \in EnvPods |-> NoEnvRow]
  /\ box = [p \in EnvPods |-> NoBox]
  /\ server = [p \in EnvPods |-> NoServer]
  /\ envJob = [p \in EnvPods |-> NoEnvJob]
  /\ envLoad \in EnvLoads

EnvSpend(what) == envLoad[what] > 0 /\ envLoad' = [envLoad EXCEPT ![what] = @ - 1]

-----------------------------------------------------------------------------
(* The user.                                                                  *)

EditConfig ==
  /\ EnvSpend("edits")
  /\ config' \in Configs \ {config}
  /\ UNCHANGED <<shell, envFile, envRow, box, server, envJob>>

ChangeShell ==
  /\ EnvSpend("edits")
  /\ shell' \in Shells \ {shell}
  /\ UNCHANGED <<config, envFile, envRow, box, server, envJob>>

EditEnvFile ==
  /\ EnvSpend("edits")
  /\ envFile' \in EnvFiles \ {envFile}
  /\ UNCHANGED <<config, shell, envRow, box, server, envJob>>

\* The client collects the shell variables and asks the daemon to launch or to
\* recreate the pod.
Asks(p, recreate) ==
  /\ envJob[p].pc = "idle"
  /\ recreate => envRow[p].exists
  /\ EnvSpend("asks")
  /\ envJob' = [envJob EXCEPT ![p] =
       [pc |-> "asked", recreate |-> recreate, local |-> CollectLocalEnvVars(config),
        client |-> shell]]
  /\ UNCHANGED <<config, shell, envFile, envRow, box, server>>

-----------------------------------------------------------------------------
(* The pod's server.                                                          *)

ResolveLocalEnv(env, local) == SubstituteEnv(env, [local |-> local])
ResolveContainerEnv(env, process) == SubstituteEnv(env, [container |-> process])

\* What the user's shell adds to the environment or changes in it; nothing when
\* there is no bash, or when the profile fails or does not end in time.
ProbeEnv(env) ==
  {Restrict(a, {k \in DOMAIN a : k \notin DOMAIN env \/ a[k] # env[k]}) : a \in Profiles}
    \cup {NoEnv}

\* The environment of a server that starts in container b with the --local-env
\* flags and the repository path of its command line: remoteEnv over what the
\* shell profile adds over the environment of the process.  The server knows
\* neither the devcontainer's ID nor the folder on the host.
ResolvePodEnv(b, local, folder, probed) ==
  LET placed == SubstituteEnv(b.raw.remote, [podFolder |-> folder])
      afterLocal == ResolveLocalEnv(placed, local)
  IN ResolveContainerEnv(afterLocal, b.env) @@ probed @@ b.env

Started(b, via, local, folder, probed) ==
  [state |-> "up", via |-> via, local |-> local, folder |-> folder,
   env |-> ResolvePodEnv(b, local, folder, probed)]

StartServer(p, via, local, dc) ==
  \E probed \in ProbeEnv(box[p].env) :
    server' = [server EXCEPT ![p] =
                 Started(box[p], via, local, ContainerRepoPath(dc), probed)]

\* GET /container-env: the variables the daemon set, with their values in the
\* process.
ContainerEnv(p) == [k \in box[p].keys \cap DOMAIN box[p].env |-> box[p].env[k]]

ContainerStops(p) ==
  /\ server[p].state \in {"up", "dead"}
  /\ EnvSpend("stops")
  /\ server' = [server EXCEPT ![p] = [state |-> "stopped"]]
  /\ UNCHANGED <<config, shell, envFile, envRow, box, envJob>>

ServerDies(p) ==
  /\ server[p].state = "up"
  /\ EnvSpend("stops")
  /\ server' = [server EXCEPT ![p] = [state |-> "dead"]]
  /\ UNCHANGED <<config, shell, envFile, envRow, box, envJob>>

\* Somebody removes the container behind the daemon's back.
BoxVanishes(p) ==
  /\ box[p].exists
  /\ EnvSpend("stops")
  /\ box' = [box EXCEPT ![p] = NoBox]
  /\ server' = [server EXCEPT ![p] = NoServer]
  /\ UNCHANGED <<config, shell, envFile, envRow, envJob>>

-----------------------------------------------------------------------------
(* The daemon.                                                                *)

JobGoesOn(p, pc, fields) == envJob' = [envJob EXCEPT ![p] = fields @@ [@ EXCEPT !.pc = pc]]
JobOver(p) == envJob' = [envJob EXCEPT ![p] = NoEnvJob]

\* A pod that exists is only reconnected.  A stopped container is started with a
\* server that gets the caller's variables and the path of the file as it is
\* now; a compose pod uses its row for both, and alone has a dead server
\* repaired.
Reenter(p) ==
  LET row == envRow[p]
      local == IF row.compose THEN row.local ELSE envJob[p].local
      dc == IF row.compose THEN ParseStoredDevcontainer(row, p)
                           ELSE LoadAndResolveDevcontainer(p, local)
  IN /\ envJob[p].pc = "asked" /\ ~envJob[p].recreate
     /\ row.exists /\ box[p].exists
     /\ IF server[p].state = "stopped" \/ (row.compose /\ server[p].state = "dead")
        THEN StartServer(p, IF row.compose THEN "row" ELSE "caller", local, dc)
        ELSE UNCHANGED server
     /\ JobOver(p)
     /\ UNCHANGED <<config, shell, envFile, envRow, box, envLoad>>

\* forget_gone_pod, or nothing to forget.
LaunchAnew(p) ==
  /\ envJob[p].pc = "asked"
  /\ ~envJob[p].recreate => ~box[p].exists
  /\ envRow' = [envRow EXCEPT ![p] = IF envJob[p].recreate THEN @ ELSE NoEnvRow]
  /\ JobGoesOn(p, "initialize", NoEnv)
  /\ UNCHANGED <<config, shell, envFile, box, server, envLoad>>

WithBackend(local) == BackendSet @@ Restrict(local, DOMAIN local \ BackendUnset)

\* The variables of the backend join the collected ones, so that the host
\* command and the container see the same values.  A recreation then deletes
\* the old pod.
RunInitialize(p) ==
  /\ envJob[p].pc = "initialize"
  /\ JobGoesOn(p, "load", [local |-> WithBackend(envJob[p].local)])
  /\ envRow' = [envRow EXCEPT ![p] = NoEnvRow]
  /\ box' = [box EXCEPT ![p] = NoBox]
  /\ server' = [server EXCEPT ![p] = NoServer]
  /\ UNCHANGED <<config, shell, envFile, envLoad>>

Load(p) ==
  /\ envJob[p].pc = "load"
  /\ JobGoesOn(p, "raw", [dc |-> LoadAndResolveDevcontainer(p, envJob[p].local),
                          loaded |-> config])
  /\ UNCHANGED <<config, shell, envFile, envRow, box, server, envLoad>>

\* The raw file is read once more, for the row and the image; then the mounts
\* are checked.
ReadRaw(p) ==
  /\ envJob[p].pc = "raw"
  /\ IF Unresolved(envJob[p].dc.mount)
     THEN JobOver(p)
     ELSE JobGoesOn(p, "create",
            [raw |-> config, keys |-> DOMAIN envJob[p].dc.container, from |-> NoEnv])
  /\ UNCHANGED <<config, shell, envFile, envRow, box, server, envLoad>>

\* A bug: the values of the stored file win over the source's.
ForkEnvFromFile(s, dc) == dc.container @@ ContainerEnv(s)

\* The source's values replace those the stored file gives in the new pod.
ForkEnv(s, dc) == ContainerEnv(s) @@ dc.container

\* A fork takes the source's row, image and container environment.
ForkPod(s, p) ==
  LET dc == ResolveDevcontainerVars(envRow[s].raw, p, envRow[s].local)
  IN /\ s # p /\ envJob[p].pc = "idle"
     /\ envRow[s].exists /\ server[s].state = "up" /\ ~envRow[p].exists
     /\ EnvSpend("forks")
     /\ ~Unresolved(dc.mount)
     /\ envJob' = [envJob EXCEPT ![p] =
          [pc |-> "create", local |-> envRow[s].local, client |-> shell, raw |-> envRow[s].raw,
           loaded |-> box[s].loaded, keys |-> box[s].keys, from |-> ContainerEnv(s),
           dc |-> [dc EXCEPT !.container = ForkEnv(s, dc)]]]
     /\ UNCHANGED <<config, shell, envFile, envRow, box, server>>

\* containerEnv as the container gets it: of generate_override's file, what
\* docker compose makes of it, which yaml_scalar does not keep it from.
CreatedEnv(job) ==
  IF job.raw.compose
  THEN [k \in DOMAIN job.dc.container |-> Interpolate(job.dc.container[k], job.client)]
  ELSE job.dc.container

RowCreated(p) ==
  envRow' = [envRow EXCEPT ![p] = [exists |-> TRUE, raw |-> envJob[p].raw,
                                   local |-> envJob[p].local, compose |-> envJob[p].raw.compose]]

\* docker compose refuses a "${containerEnv:NAME}" that the substitution left.
ComposeRefuses(job) ==
  job.raw.compose /\ \E k \in DOMAIN job.dc.container : Unresolved(job.dc.container[k])

CreateFails(p) ==
  /\ envJob[p].pc = "create" /\ ComposeRefuses(envJob[p])
  /\ RowCreated(p)
  /\ JobOver(p)
  /\ UNCHANGED <<config, shell, envFile, box, server, envLoad>>

\* The row, the container with its environment, and the first server.
Create(p) ==
  LET job == envJob[p]
      b == [exists |-> TRUE, raw |-> job.raw, loaded |-> job.loaded, keys |-> job.keys,
            from |-> job.from, env |-> CreatedEnv(job) @@ ImageEnv]
  IN /\ job.pc = "create" /\ ~ComposeRefuses(job)
     /\ RowCreated(p)
     /\ \E probed \in ProbeEnv(b.env) :
          LET first == Started(b, "launch", job.local, ContainerRepoPath(job.dc), probed)
          IN /\ server' = [server EXCEPT ![p] = first]
             /\ box' = [box EXCEPT ![p] = b @@ [first |-> first.env]]
     /\ JobOver(p)
     /\ UNCHANGED <<config, shell, envFile, envLoad>>

\* The connection's loop finds the server dead and starts it from the row.
Repair(p) ==
  /\ envJob[p].pc = "idle"
  /\ envRow[p].exists /\ server[p].state = "dead"
  /\ StartServer(p, "row", envRow[p].local, ParseStoredDevcontainer(envRow[p], p))
  /\ UNCHANGED <<config, shell, envFile, envRow, box, envJob, envLoad>>

EnvNext ==
  \/ EditConfig \/ ChangeShell \/ EditEnvFile
  \/ \E p \in EnvPods :
       \/ \E recreate \in BOOLEAN : Asks(p, recreate)
       \/ ContainerStops(p) \/ ServerDies(p) \/ BoxVanishes(p)
       \/ Reenter(p) \/ LaunchAnew(p) \/ RunInitialize(p) \/ Load(p) \/ ReadRaw(p)
       \/ Create(p) \/ CreateFails(p) \/ Repair(p)
       \/ \E s \in EnvPods : ForkPod(s, p)

EnvSpec == EnvInit /\ [][EnvNext]_envVars

-----------------------------------------------------------------------------
(* Properties.                                                                *)

\* A variable of the shell whose text looks like a reference to the container
\* is expanded once more by the last phase.
ExpandedAgain(local) == \E n \in DOMAIN local : Unresolved(local[n])

\* The environment of a pod survives what happens to the pod and to the files
\* it was made from. The phases of substitution give remoteEnv the values that
\* one substitution would with all the server knows, the shell's variables, the
\* container's and the pod's folder (resolve_pod_env); other references stay as
\* they are, and the shell profile never overrides them. A server started again
\* from the pod's row has the remoteEnv of the pod's first server, whatever
\* became of the repository's devcontainer.json, of its env file and of the
\* user's shell (parse_stored_devcontainer), unless the file was edited between
\* the two reads of one launch. A fork, and a fork of a fork, has its source's
\* containerEnv, although its own name and the env file would give other values
\* (launch_pod_from_source), but for a value of a compose pod with a `$`, which
\* docker compose reads once more in generate_override's file.
EnvSurvives ==
  \A p \in EnvPods :
    LET b == box[p]
        s == server[p]
        ctx == [local |-> s.local, container |-> b.env, podFolder |-> s.folder]
    IN /\ s.state = "up" /\ ~ExpandedAgain(s.local) =>
            \A k \in DOMAIN b.raw.remote : s.env[k] = SubstituteVars(b.raw.remote[k], ctx)
       /\ s.state = "up" /\ s.via = "row" /\ b.raw = b.loaded =>
            \A k \in DOMAIN b.raw.remote : s.env[k] = b.first[k]
       /\ b.exists => \A k \in DOMAIN b.from :
            \/ b.env[k] = b.from[k]
            \/ b.raw.compose /\ \E t \in Tokens(b.from[k]) : t.kind \in {"dollar", "escaped"}

=============================================================================
