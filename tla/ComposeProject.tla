---------------------------- MODULE ComposeProject ----------------------------
(* Launching and forking a pod of several services (compose.rs and the launch *)
(* of daemon.rs).                                                             *)
(*                                                                            *)
(* A launch renders the compose files, works out which services will run,     *)
(* refuses ports that no running service could serve, and builds the services *)
(* that have a build section.  Images are kept under tags made from the       *)
(* content of ALL local build contexts, so that a later launch of the same    *)
(* content finds them.  Launches of several pods run at once and the user     *)
(* edits the contexts meanwhile.  A fork uses its source's images.            *)
EXTENDS Integers, Sequences, SequencesExt, FiniteSets, Functions

CONSTANTS
  ComposePods,   \* pods, which are also project names
  Files,         \* compose configurations, with their devcontainer.json
  ComposeLoads   \* how often the user may edit, launch and fork

VARIABLES
  file,          \* the compose configuration
  content,       \* content[s]: version of the build context of service s
  engine,        \* engine[name]: image the engine has under a name
  starting,      \* starting[p]: the launch of pod p
  project,       \* project[p]: what the pod's row and engine have of it
  spoilt,        \* cache tags given while the contexts changed under a build
  composeLoad

composeVars == <<file, content, engine, starting, project, spoilt, composeLoad>>

Names(S) == DOMAIN S
NumberPort == "number"     \* a forwardPorts entry that is a number
Idle == [pc |-> "idle"]
NoProject == [images |-> << >>, services |-> {}, from |-> << >>, quiet |-> TRUE]

ComposeInit ==
  /\ file \in Files
  /\ content = [s \in file.builds |-> 0]
  /\ engine = << >>
  /\ starting = [p \in ComposePods |-> Idle]
  /\ project = [p \in ComposePods |-> NoProject]
  /\ spoilt = {}
  /\ composeLoad \in ComposeLoads

ComposeSpend(what) ==
  composeLoad[what] > 0 /\ composeLoad' = [composeLoad EXCEPT ![what] = @ - 1]

-----------------------------------------------------------------------------
(* Which services run.                                                        *)

\* runServices and the agent's service; none named means all of them.
SelectedServices ==
  IF file.runAll THEN <<>>
  ELSE IF file.agent \in ToSet(file.run) THEN file.run ELSE Append(file.run, file.agent)

ValidSelection ==
  file.agent \in file.services /\ ToSet(SelectedServices) \subseteq file.services

\* Services docker compose starts with the ones in pending: through depends_on,
\* links, volumes_from, ipc, network_mode and pid.
RECURSIVE ServicesStartedWith(_, _)
ServicesStartedWith(started, pending) ==
  IF pending = <<>> THEN started
  ELSE LET s == Last(pending)
       IN IF s \in started THEN ServicesStartedWith(started, Front(pending))
          ELSE ServicesStartedWith(started \cup {s}, Front(pending) \o SetToSeq(file.needs[s]))

StartedServices ==
  IF file.runAll THEN file.services ELSE ServicesStartedWith({}, SelectedServices)

\* The service of a forwardPorts entry; a name must not be the agent's.
ForwardTarget(entry) == IF entry = NumberPort THEN file.agent ELSE entry

ValidTarget(entry) ==
  entry = NumberPort \/ (entry \in file.services /\ entry # file.agent)

ValidForwards ==
  \A e \in file.forwards : ValidTarget(e) /\ ForwardTarget(e) \in StartedServices

\* Bind mounts name paths that a remote engine does not have.
ValidBinds == ~file.remote \/ file.binds = {}

-----------------------------------------------------------------------------
(* The build cache.                                                           *)

\* A bug: a tag made from the service's own context.
TagOfContext(s, snapshot) ==
  [of |-> "cache", service |-> s, digest |-> [t \in {s} |-> snapshot[t]]]

\* One fingerprint of the project's contexts, and the service.
CacheTag(s, snapshot) == [of |-> "cache", service |-> s, digest |-> snapshot]

\* Secrets, SSH, unresolved arguments and remote contexts are not cached.
Cacheable == ~file.volatile

\* The image built of a service: its context, and the images it builds upon.
RECURSIVE BuiltFrom(_, _)
BuiltFrom(s, snapshot) ==
  [own |-> snapshot[s], uses |-> [t \in file.uses[s] |-> BuiltFrom(t, snapshot)]]

\* Where the engine has a built service: the image it names, or the project's.
ImageName(p, s) == [of |-> IF s \in file.named THEN "file" ELSE p, service |-> s]

Tagged(name, image) ==
  [n \in Names(engine) \cup {name} |-> IF n = name THEN image ELSE engine[n]]

-----------------------------------------------------------------------------
(* A launch.                                                                  *)

\* The files are rendered and checked before anything is built.
Render(p) ==
  /\ starting[p] = Idle /\ project[p] = NoProject
  /\ composeLoad.launches[p] > 0
  /\ composeLoad' = [composeLoad EXCEPT !.launches[p] = @ - 1]
  /\ starting' = [starting EXCEPT ![p].pc =
       IF ValidBinds /\ ValidSelection /\ ValidForwards THEN "rendered" ELSE "idle"]
  /\ UNCHANGED <<file, content, engine, project, spoilt>>

\* The contexts are hashed and the tags looked up: all of them, or a build.
LookUpTags(p) ==
  LET hit == Cacheable /\ \A s \in file.builds : CacheTag(s, content) \in Names(engine)
  IN /\ starting[p].pc = "rendered"
     /\ starting' = [starting EXCEPT ![p] =
        [pc |-> IF hit \/ file.builds = {} THEN "inspect" ELSE "build",
         snapshot |-> content, hit |-> hit, quiet |-> TRUE, read |-> << >>, images |-> << >>]]
     /\ UNCHANGED <<file, content, engine, project, spoilt, composeLoad>>

\* The builder reads a context, after the ones it builds upon.
ReadContext(p, s) ==
  /\ starting[p].pc = "build"
  /\ s \in file.builds \ Names(starting[p].read)
  /\ file.uses[s] \subseteq Names(starting[p].read)
  /\ starting' = [starting EXCEPT ![p].read =
       [t \in Names(@) \cup {s} |->
          IF t = s THEN [own |-> content[s], uses |-> [u \in file.uses[s] |-> @[u]]] ELSE @[t]]]
  /\ UNCHANGED <<file, content, engine, project, spoilt, composeLoad>>

\* The build names its images.  A launch that shares a name with a build whose
\* contexts changed may take that build's image for its own.
BuildEnds(p) ==
  LET mine == {ImageName(p, s) : s \in file.builds}
  IN /\ starting[p].pc = "build"
     /\ Names(starting[p].read) = file.builds
     /\ engine' = [n \in Names(engine) \cup mine |->
          IF n \in mine THEN starting[p].read[n.service] ELSE engine[n]]
     /\ starting' = [q \in ComposePods |->
          IF q = p THEN [starting[p] EXCEPT !.pc = "inspect"]
          ELSE IF starting[q].pc \in {"build", "inspect"} /\ file.named # {}
                  /\ ~starting[p].quiet
               THEN [starting[q] EXCEPT !.quiet = FALSE]
               ELSE starting[q]]
     /\ UNCHANGED <<file, content, project, spoilt, composeLoad>>

ComposeBuildFails(p) ==
  /\ starting[p].pc = "build"
  /\ ComposeSpend("failures")
  /\ starting' = [starting EXCEPT ![p] = Idle]
  /\ UNCHANGED <<file, content, engine, project, spoilt>>

\* A built service's image is looked up, under its tag if that was a hit, and a
\* new one is given its tag.
InspectImage(p, s) ==
  LET tag   == CacheTag(s, starting[p].snapshot)
      image == engine[IF starting[p].hit THEN tag ELSE ImageName(p, s)]
      tags  == ~starting[p].hit /\ Cacheable
  IN /\ starting[p].pc = "inspect"
     /\ s \in file.builds \ Names(starting[p].images)
     /\ engine' = IF tags THEN Tagged(tag, image) ELSE engine
     /\ spoilt' = IF tags /\ ~starting[p].quiet THEN spoilt \cup {tag} ELSE spoilt
     /\ starting' = [starting EXCEPT
          ![p].images = [t \in Names(@) \cup {s} |-> IF t = s THEN image ELSE @[t]],
          ![p].quiet = @ /\ ~(starting[p].hit /\ tag \in spoilt)]
     /\ UNCHANGED <<file, content, project, composeLoad>>

\* The images are pinned in the model, the row is made and the project started;
\* what a failed start leaves behind is the subject of PodLifecycle.
Up(p) ==
  /\ starting[p].pc = "inspect"
  /\ Names(starting[p].images) = file.builds
  /\ project' = [project EXCEPT ![p] =
       [images |-> starting[p].images, services |-> StartedServices,
        from |-> starting[p].snapshot, quiet |-> starting[p].quiet]]
  /\ starting' = [starting EXCEPT ![p] = Idle]
  /\ UNCHANGED <<file, content, engine, spoilt, composeLoad>>

\* A fork takes its source's rendered model, with the images pinned in it.
ForkCompose(p, q) ==
  /\ starting[q] = Idle /\ project[q] = NoProject
  /\ project[p] # NoProject
  /\ ComposeSpend("forks")
  /\ ValidBinds /\ ValidSelection /\ ValidForwards
  /\ project' = [project EXCEPT ![q] = [project[p] EXCEPT !.services = StartedServices]]
  /\ UNCHANGED <<file, content, engine, starting, spoilt>>

\* A pod is deleted, its images stay.
Down(p) ==
  /\ project[p] # NoProject
  /\ project' = [project EXCEPT ![p] = NoProject]
  /\ UNCHANGED <<file, content, engine, starting, spoilt, composeLoad>>

\* The user edits a build context.
EditContext(s) ==
  /\ ComposeSpend("edits")
  /\ content' = [content EXCEPT ![s] = 1 - @]
  /\ starting' = [p \in ComposePods |->
       IF starting[p].pc \in {"build", "inspect"} /\ ~starting[p].hit
       THEN [starting[p] EXCEPT !.quiet = FALSE] ELSE starting[p]]
  /\ UNCHANGED <<file, engine, project, spoilt>>

ComposeNext ==
  \/ \E p \in ComposePods :
       \/ Render(p) \/ LookUpTags(p) \/ BuildEnds(p) \/ ComposeBuildFails(p) \/ Up(p) \/ Down(p)
       \/ \E s \in file.builds : ReadContext(p, s) \/ InspectImage(p, s)
       \/ \E q \in ComposePods : ForkCompose(p, q)
  \/ \E s \in file.builds : EditContext(s)

-----------------------------------------------------------------------------
(* Properties.                                                                *)

\* What docker compose itself starts: the least set that has the selected
\* services and, with a service, all it needs.
ClosedUnderNeeds(S) == \A s \in S : file.needs[s] \subseteq S
RunsBy ==
  {s \in file.services : \A S \in SUBSET file.services :
     ToSet(SelectedServices) \subseteq S /\ ClosedUnderNeeds(S) => s \in S}

\* A pod of several services runs what was asked for when it was launched.  Its
\* images are built from the contexts as the launch hashed them, dependent
\* images included, whether they were built or found in the cache by this launch
\* or an earlier one of another pod (compose.rs build_cache_tags), unless the
\* contexts changed while a build was reading them.  Every port that was accepted
\* for forwarding is one of a service compose starts (services_started_with).
ComposeAsAsked ==
  \A p \in ComposePods : project[p] # NoProject =>
    /\ project[p].quiet =>
         \A s \in file.builds : project[p].images[s] = BuiltFrom(s, project[p].from)
    /\ \A e \in file.forwards :
         ForwardTarget(e) \in IF file.runAll THEN file.services ELSE RunsBy

=============================================================================
