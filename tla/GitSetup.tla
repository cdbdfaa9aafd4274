------------------------------ MODULE GitSetup ------------------------------
(* The repository inside a pod (pod/git_setup.rs, run_setup): how the first   *)
(* start turns whatever the image has at the repository's path into a         *)
(* checkout of the branches the daemon asks for, with its submodules, and how *)
(* the URLs of the gateway are kept current when the tunnel's port changes.   *)
(* Setup and refreshes are sequences of git commands, run by tasks that do    *)
(* not wait for each other; any command may fail and end its task.            *)
EXTENDS Naturals, Sequences, FiniteSets, SequencesExt

CONSTANTS Modules,     \* per repository: its .gitmodules entries, in order
          Gitlinks,    \* the entries that are submodules in the index
          PodName, SourceName,
          GitScenarios \* [image, source, early, late, faults]; bounds on refreshes that
                       \* begin during and after the setup, and on failures

Top == "top"
Repos == DOMAIN Modules
Nothing == "none"

(* An image:  [repo, merging, dirty: BOOLEAN, files: Nothing, or untracked ones  *)
(*             "apart" from or "in the way" of a checkout, hooks: whose lines *)
(*             its reference-transaction hook has, head: Nothing or a branch,    *)
(*             branches: names to upstreams].  A source is <<>> for a fresh   *)
(*             pod, else the forked pod's branches, [name, upstream], as      *)
(*             for-each-ref lists them; an upstream is <<>>, <<"host", b>>,   *)
(*             <<"local", b>>, <<"rumpelpod", pod>>, <<"rumpelpod", pod, b>>, *)
(*             or, of a remote of the image's own, <<"origin", b>>.           *)
ASSUME GitAssumption ==
    /\ Top \in Repos
    /\ \A r \in Repos : \A i \in DOMAIN Modules[r] : Modules[r][i] \in Gitlinks =>
         Modules[r][i] \in Repos
    /\ PodName # SourceName

VARIABLES gitScenario,
          git,       \* the top repository: files, branches, HEAD, hooks
          sub,       \* per submodule: "absent", "cloned", "ready"
          link,      \* per repository: gateway URLs and credentials, by tunnel port
          setting,   \* the setup task: what it still has to do
          refreshing,\* per refresh request: the same
          announced, \* the port the last task to start was given
          calm,      \* history: that task has run alone and to its end, so far
          torn,      \* history: some task ever overlapped another or failed
          result     \* "running", "done", "failed", "conflict", "no upstream"

gitVars == <<gitScenario, git, sub, link, setting, refreshing, announced, calm, torn, result>>

-----------------------------------------------------------------------------
(* The branches the daemon asks for                                          *)

\* rewrite_upstream: <<>> for none; the primary branch has the pod's name.
RewriteUpstream(up, names) ==
    IF up = <<>> \/ up[1] = "host" THEN up
    ELSE IF up[1] = "rumpelpod" THEN (IF up[2] = SourceName THEN [up EXCEPT ![2] = PodName] ELSE up)
    ELSE IF up[2] = SourceName THEN <<"local", PodName>>
    ELSE IF up[2] \in names THEN up ELSE <<>>

\* fresh_pod_git_setup, or fork_pod_impl's list.
Wanted ==
    LET source == gitScenario.source
        names == {source[i].name : i \in DOMAIN source}
    IN  IF source = <<>>
          THEN <<[name |-> PodName, base |-> "host/HEAD", upstream |-> <<"host", "main">>]>>
          ELSE [i \in DOMAIN source |->
                 [name |-> IF source[i].name = SourceName THEN PodName ELSE source[i].name,
                  base |-> source[i].name,
                  upstream |-> RewriteUpstream(source[i].upstream, names)]]

-----------------------------------------------------------------------------
(* Submodules                                                                *)

\* detect_submodules_from_gitmodules: entries without a gitlink are skipped.
Submodules(r) == SelectSeq(Modules[r], LAMBDA s : s \in Gitlinks)

\* Below r, parents before children, as clone_recursive and
\* detect_existing_submodules_recursive walk; those in `there` only.
Walk(there) ==
    LET walk[r \in Repos] ==
          LET here == SelectSeq(Submodules(r), LAMBDA s : s \in there)
          IN  FlattenSeq([i \in DOMAIN here |-> <<here[i]>> \o walk[here[i]]])
    IN  walk[Top]

Existing == {s \in Repos \ {Top} : sub[s] # "absent"}

-----------------------------------------------------------------------------
(* The tasks' commands: <<operation, repository or branch number>>           *)

\* configure_gateway_urls
Configure(r) == <<<<"forget", r>>, <<"authorize", r>>, <<"host url", r>>, <<"pod url", r>>>>

\* setup_git_impl and what run_setup does before it.
TopPlan ==
    <<<<"init", Top>>, <<"sanitize", Top>>>> \o Configure(Top) \o
    <<<<"fetch", Top>>, <<"hook", Top>>, <<"detach", Top>>>> \o
    [i \in DOMAIN Wanted |-> <<"branch", i>>] \o <<<<"checkout", Top>>>>

\* setup_submodules_impl: all are cloned, then all are configured.
SubPlan ==
    LET subs == Walk(Gitlinks)
    IN  [i \in DOMAIN subs |-> <<"clone", subs[i]>>] \o
        FlattenSeq([i \in DOMAIN subs |-> Configure(subs[i]) \o <<<<"set up", subs[i]>>>>])

SetupPlan == TopPlan \o SubPlan \o <<<<"push", Top>>>>

NoTask == [todo |-> <<>>, port |-> 0]
Requests == {"first", "second"}

GitInit ==
    /\ gitScenario \in GitScenarios
    /\ LET image == gitScenario.image
       IN  git = [there |-> image.repo, merging |-> image.merging, dirty |-> image.dirty,
                  files |-> image.files, head |-> image.head,
                  hooks |-> image.hooks,
                  at |-> [b \in DOMAIN image.branches |-> "image"],
                  upstream |-> image.branches,
                  fetched |-> {}]
    /\ sub = [s \in Repos \ {Top} |-> "absent"]
    /\ link = [r \in Repos |-> [host |-> 0, pod |-> 0, auth |-> {}, recorded |-> 0]]
    /\ setting = [todo |-> SetupPlan, port |-> 1]
    /\ refreshing = [q \in Requests |-> NoTask]
    /\ announced = 1 /\ calm = TRUE /\ torn = FALSE /\ result = "running"

Active == (IF setting.todo # <<>> THEN {"setup"} ELSE {}) \union
          {q \in Requests : refreshing[q].todo # <<>>}

-----------------------------------------------------------------------------
(* What a command of configure_gateway_urls does to the repository's config  *)

\* A bug: the settings of a URL outlive it.
ForgottenNever(l, port) == l

\* A URL that changes takes its settings with it.
Forgotten(l, port) == [l EXCEPT !.auth = @ \ ({l.host, l.pod} \ {port})]

Linked(op, l, port) ==
    CASE op = "forget" -> Forgotten(l, port)
      [] op = "authorize" -> [l EXCEPT !.auth = @ \union {port}]
      [] op = "host url" -> [l EXCEPT !.host = port]
      [] op = "pod url" -> [l EXCEPT !.pod = port]
      [] op = "record" -> [l EXCEPT !.recorded = port]

LinkOps == {"forget", "authorize", "host url", "pod url", "record"}

Configures(task) ==
    LET c == Head(task.todo)
    IN  c[1] \in LinkOps /\ link' = [link EXCEPT ![c[2]] = Linked(c[1], @, task.port)]

-----------------------------------------------------------------------------
(* The setup task                                                            *)

Now(op) == setting.todo # <<>> /\ Head(setting.todo)[1] = op
Proceed == setting' = [setting EXCEPT !.todo = Tail(@)]
Subject == Head(setting.todo)[2]
SetupOf(g) == git' = g /\ Proceed /\ UNCHANGED <<sub, link, result, calm, torn>>

\* A task ends early.
SetupStops(why) ==
    /\ setting' = NoTask /\ result' = why
    /\ calm' = FALSE /\ torn' = TRUE
    /\ UNCHANGED <<git, sub, link>>

\* initialize_repository
Initialize == Now("init") /\ SetupOf([git EXCEPT !.there = TRUE])

\* A repository of the image, without a hook of that name: operations are
\* aborted, changes thrown away, untracked files removed.
NeedsSanitize == git.merging \/ git.head = Nothing \/ git.dirty \/ git.files # Nothing


Sanitize ==
    /\ Now("sanitize")
    /\ IF gitScenario.image.repo /\ git.hooks = {} /\ NeedsSanitize
         THEN SetupOf([git EXCEPT !.merging = FALSE, !.dirty = FALSE, !.files = Nothing])
         ELSE SetupOf(git)

SetupConfigures ==
    /\ setting.todo # <<>> /\ Configures(setting)
    /\ Proceed /\ UNCHANGED <<git, sub, result, calm, torn>>

\* git fetch host, with the refspecs written before.
Fetch ==
    /\ Now("fetch")
    /\ SetupOf([git EXCEPT !.fetched = {"host/HEAD"} \union
                  {gitScenario.source[i].name : i \in DOMAIN gitScenario.source}])

\* install_hook_impl: the host's lines go, the user's stay.
InstallHook ==
    Now("hook") /\ SetupOf([git EXCEPT !.hooks = (@ \ {"host"}) \union {"pod"}])

Detach == Now("detach") /\ SetupOf([git EXCEPT !.head = Nothing])

\* What `git branch --set-upstream-to` can be told: a fetched branch of the
\* host, or a branch that is there; the rumpelpod remote has only what this
\* pod's hook has pushed.
UpstreamThere(up, at) ==
    CASE up = <<>> -> TRUE
      [] up # <<>> /\ up[1] = "host" -> "host/HEAD" \in git.fetched
      [] up # <<>> /\ up[1] = "local" -> up[2] \in DOMAIN at
      [] OTHER -> up[2] = PodName /\ (IF Len(up) = 2 THEN PodName ELSE up[3]) \in DOMAIN at

\* The upstream a branch of the repository has, or a new one.
UpstreamBefore(g, name) == IF name \in DOMAIN g THEN g[name] ELSE <<>>

\* create_or_reset_branch, for the i-th wanted branch: --no-track sets no
\* upstream, and does not remove one.
CreateBranch ==
    /\ Now("branch")
    /\ LET b == Wanted[Subject]
           names == DOMAIN git.at \union {b.name}
           at == [n \in names |-> IF n = b.name THEN b.base ELSE git.at[n]]
       IN  IF UpstreamThere(b.upstream, at)
             THEN SetupOf([git EXCEPT !.at = at,
                     !.upstream = [n \in names |->
                        IF n = b.name /\ b.upstream # <<>> THEN b.upstream
                        ELSE UpstreamBefore(git.upstream, n)]])
             ELSE SetupStops("no upstream")

\* Untracked files may be in the checkout's way; changes that were not thrown
\* away may be, or are kept.
Checkout ==
    /\ Now("checkout")
    /\ \/ git.files # "in the way" /\ SetupOf([git EXCEPT !.head = PodName])
       \/ (git.files = "in the way" \/ git.dirty \/ git.merging) /\ SetupStops("conflict")

\* git submodule init, config and update: the URL recorded in the parent and
\* the clone's origin are the gateway's.
CloneSubmodule ==
    /\ Now("clone")
    /\ sub' = [sub EXCEPT ![Subject] = "cloned"]
    /\ link' = [link EXCEPT ![Subject].recorded = setting.port]
    /\ Proceed /\ UNCHANGED <<git, result, calm, torn>>

\* The rest of configure_submodule: refspecs, fetch, hook, branch, checkout.
SetUpSubmodule ==
    /\ Now("set up")
    /\ sub' = [sub EXCEPT ![Subject] = "ready"]
    /\ Proceed /\ UNCHANGED <<git, link, result, calm, torn>>

\* recover_push
PushInitial ==
    /\ Now("push")
    /\ setting' = NoTask /\ result' = "done"
    /\ UNCHANGED <<git, sub, link, calm, torn>>

\* A command fails, or finds the config locked by another task's.
SetupFails ==
    /\ setting.todo # <<>> /\ gitScenario.faults > 0
    /\ gitScenario' = [gitScenario EXCEPT !.faults = @ - 1]
    /\ SetupStops("failed")
    /\ UNCHANGED <<refreshing, announced>>

SetupStep ==
    /\ \/ Initialize \/ Sanitize \/ SetupConfigures \/ Fetch \/ InstallHook \/ Detach
       \/ CreateBranch \/ Checkout \/ CloneSubmodule \/ SetUpSubmodule \/ PushInitial
    /\ UNCHANGED <<gitScenario, refreshing, announced>>

-----------------------------------------------------------------------------
(* Refreshes: a tunnel server has announced itself on a port, or the          *)
(* container server has been restarted (refresh_gateway_urls_impl)            *)

RefreshBegins(q, port) ==
    /\ refreshing[q].todo = <<>> /\ git.there
    /\ q = "second" => refreshing["first"].todo # <<>>
    /\ LET when == IF setting.todo # <<>> THEN "early" ELSE "late"
       IN  /\ gitScenario[when] > 0
           /\ gitScenario' = [gitScenario EXCEPT ![when] = @ - 1]
    /\ refreshing' = [refreshing EXCEPT ![q] =
                        [todo |-> Configure(Top) \o <<<<"detect", Top>>>>, port |-> port]]
    /\ announced' = port
    /\ calm' = (Active = {}) /\ torn' = (torn \/ Active # {})
    /\ UNCHANGED <<git, sub, link, setting, result>>

\* The submodules are looked up once the top repository is done.
RefreshStep(q) ==
    LET task == refreshing[q]
    IN  /\ task.todo # <<>>
        /\ \/ /\ Configures(task)
              /\ refreshing' = [refreshing EXCEPT ![q].todo = Tail(@)]
           \/ /\ Head(task.todo)[1] = "detect"
              /\ LET subs == Walk(Existing)
                 IN  refreshing' = [refreshing EXCEPT ![q].todo =
                       FlattenSeq([i \in DOMAIN subs |->
                                     <<<<"record", subs[i]>>>> \o Configure(subs[i])])]
              /\ UNCHANGED link
        /\ UNCHANGED <<gitScenario, git, sub, setting, announced, calm, torn, result>>

RefreshFails(q) ==
    /\ refreshing[q].todo # <<>> /\ gitScenario.faults > 0
    /\ gitScenario' = [gitScenario EXCEPT !.faults = @ - 1]
    /\ refreshing' = [refreshing EXCEPT ![q] = NoTask]
    /\ calm' = FALSE /\ torn' = TRUE
    /\ UNCHANGED <<git, sub, link, setting, announced, result>>

GitNext ==
    \/ SetupStep \/ SetupFails
    \/ \E q \in Requests :
         \/ \E port \in {1, 2} : RefreshBegins(q, port)
         \/ RefreshStep(q) \/ RefreshFails(q)

GitSpec == GitInit /\ [][GitNext]_gitVars

-----------------------------------------------------------------------------
(* Properties                                                                *)

\* Two branches of the source may not end up with one name in the fork.
NoNameTaken == \A i, j \in DOMAIN Wanted : i # j => Wanted[i].name # Wanted[j].name


\* The gateway's URLs are current: when the last setup or refresh to start ran
\* alone and to its end, every repository of the pod fetches from and pushes
\* to the port it was given, with credentials for it, whatever earlier tasks
\* left behind; and as long as no task ever failed or overlapped another, no
\* repository keeps the credentials of a port it does not use.
GatewayUrlsCurrent ==
    (Active = {} /\ calm) =>
        \A r \in {Top} \union Existing :
            /\ link[r].host = announced /\ link[r].pod = announced
            /\ announced \in link[r].auth
            /\ ~torn => link[r].auth = {announced}
            /\ r # Top => link[r].recorded = announced

=============================================================================
