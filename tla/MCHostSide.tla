------------------------------ MODULE MCHostSide ------------------------------
(* Instances of the modules about what the daemon prepares and keeps for its *)
(* pods.  They share no state, so one of them, the part, runs in a behaviour *)
(* and the others rest in an initial state.                                  *)
EXTENDS AgentStatus, PreparedImage, ForwardedPorts, AgentHome, GitSetup, SshAgents, LfsRelay,
        PodEnv, ComposeProject

VARIABLE part

\* Thread changes under a watcher; watchers that come and go; streams.
StatusLoad(h, c, d, s) == [hooks |-> h, changes |-> c, dials |-> d, streams |-> s]
StatusBounds == {StatusLoad(0, 2, 1, 0), StatusLoad(0, 1, 1, 1), StatusLoad(2, 0, 0, 2)}

\* An image for the image's user, one for a named user with the client's IDs, and
\* one for a cluster; a base without a repository, and one with tools of its own.
Wish(clone, user, ids, prompt, kubernetes) ==
    [clone |-> clone, user |-> user, ids |-> ids, prompt |-> prompt, kubernetes |-> kubernetes]
ImageWishes ==
    {Wish("local", "", <<501, 20>>, TRUE, FALSE), Wish("skip", "dev", <<501, 20>>, FALSE, FALSE),
     Wish("local", "dev", <<>>, TRUE, TRUE)}
NoAgents == [a \in Agents4 |-> Missing]
Base(user, repo, clis) ==
    [user |-> user, repo |-> repo, hostHooks |-> repo, git |-> TRUE, has |-> clis,
     passwd |-> ("root" :> <<0, 0>> @@ "dev" :> <<1000, 100>> @@ "other" :> <<1001, 100>>),
     groups |-> {0, 100, 50},
     owner |-> ("repo" :> <<0, 0>> @@ "home" :> <<1000, 100>> @@ "config" :> <<0, 0>>
                @@ "opt" :> <<0, 0>> @@ "other" :> <<1001, 100>>)]
ImageBases ==
    {Base("root", FALSE, NoAgents),
     Base("dev", TRUE, [NoAgents EXCEPT !["claude"] = <<"1">>, !["grok"] = <<"1">>])}
\* Clients without agents, with a broken codex, with a broken claude, and two whose
\* different versions of claude and pi spell the same text.
CliVersions == {<<"1">>, <<"1", "1">>}
Client(claude, pi, codex, grok) ==
    "claude" :> claude @@ "pi" :> pi @@ "codex" :> codex @@ "grok" :> grok
ImageMachines ==
    {NoAgents, Client(<<"1">>, Missing, Broken, Missing),
     Client(Broken, Missing, <<"1">>, <<"1", "1">>),
     Client(<<"1">>, <<"1", "1">>, Missing, <<"1">>),
     Client(<<"1", "1">>, <<"1">>, Missing, <<"1">>)}

PortLoad(a, d, r, f, x, s) ==
    [adds |-> a, drops |-> d, restarts |-> r, foreign |-> f, faults |-> x, repairs |-> s]
PortBounds ==
    {PortLoad(1, 1, 0, 0, 0, 0), PortLoad(0, 0, 1, 1, 0, 0), PortLoad(1, 0, 0, 0, 1, 0),
     PortLoad(0, 1, 0, 0, 0, 1)}
PortsDeclared == "p" :> <<1>> @@ "q" :> <<1>>

HomeLoad(c, e, j, f) == [copies |-> c, edits |-> e, jobs |-> j, faults |-> f]
HomeBounds ==
    {HomeLoad(1, 1, 1, 1), HomeLoad(1, 0, 2, 0), HomeLoad(2, 1, 1, 0), HomeLoad(2, 1, 0, 1)}

\* Images without a repository, with files apart from or in the way of one; with
\* a repository in the middle of a merge, and with a hook.  Forks of pods.
Image(repo, merging, dirty, files, hooks, head, branches) ==
    [repo |-> repo, merging |-> merging, dirty |-> dirty, files |-> files, hooks |-> hooks,
     head |-> head, branches |-> branches]
EmptyImage == Image(FALSE, FALSE, FALSE, "apart", {}, Nothing, <<>>)
FilledImage == Image(FALSE, FALSE, FALSE, "in the way", {}, Nothing, <<>>)
Baked == "main" :> <<>> @@ "dev" :> <<"origin", "dev">> @@ "a" :> <<"local", "main">>
MergingImage == Image(TRUE, TRUE, TRUE, "in the way", {}, "main", Baked)
HookedImage == Image(TRUE, FALSE, TRUE, Nothing, {"user", "host"}, "main", Baked)
Upstream(name, upstream) == [name |-> name, upstream |-> upstream]
Fork1 == <<Upstream("a", <<"host", "main">>), Upstream("dev", <<"local", "s">>),
           Upstream("s", <<"local", "a">>)>>
Fork3 == <<Upstream("a", <<"local", "gone">>), Upstream("dev", <<>>),
           Upstream("s", <<"local", "dev">>), Upstream("t", <<"rumpelpod", "s">>)>>
Fork2 == <<Upstream("a", <<"local", "s">>), Upstream("s", <<"rumpelpod", "s">>)>>
GitScenario(image, source, early, late, faults) ==
    [image |-> image, source |-> source, early |-> early, late |-> late, faults |-> faults]
GitBounds ==
    {GitScenario(EmptyImage, <<>>, 1, 0, 1), GitScenario(FilledImage, <<>>, 0, 0, 0),
     GitScenario(MergingImage, Fork1, 0, 0, 0), GitScenario(HookedImage, <<>>, 1, 1, 0),
     GitScenario(MergingImage, Fork2, 0, 0, 0), GitScenario(MergingImage, Fork3, 0, 0, 0)}
RepoModules == "top" :> <<"lib", "gone">> @@ "lib" :> <<"deep">> @@ "deep" :> <<>>

SshLoad(t, e, r, k, d, m) ==
    [told |-> t, ends |-> e, runs |-> r, keys |-> k, deaths |-> d, removals |-> m]
SshBounds == {SshLoad(3, 1, 0, 0, 0, 0), SshLoad(0, 0, 3, 1, 0, 0), SshLoad(0, 0, 2, 0, 1, 1)}

LfsLoad(c, f, l, t) == [commits |-> c, fetches |-> f, losses |-> l, cuts |-> t]
LfsBounds == {LfsLoad(2, 1, 0, 0), LfsLoad(2, 0, 0, 1), LfsLoad(2, 0, 1, 0)}

\* An edit of the configuration or of the shell, forks, and containers that stop.
EnvConfig(inContainer, remote, mount, folder, readsFile, compose) ==
    [container |-> inContainer, remote |-> remote, mount |-> mount, folder |-> folder,
     readsFile |-> readsFile, compose |-> compose]
One == <<Lit("1")>>
Two == <<Lit("2")>>
EnvConfigs ==
    {EnvConfig("A" :> <<Ref("local", "A", Two), Ref("id", "", <<>>)>>,
               "R" :> <<Ref("container", "A", <<>>), Ref("local", "A", <<>>),
                        Ref("podFolder", "", <<>>), Ref("id", "", <<>>)>>,
               <<>>, <<>>, TRUE, FALSE),
     EnvConfig("A" :> <<Ref("podFolder", "", <<>>)>> @@ "D" :> <<Escaped("A")>>,
               "R" :> <<Ref("container", "F", <<>>), Ref("local", "S", <<>>)>>,
               <<Ref("id", "", <<>>)>>, <<Ref("local", "A", One)>>, FALSE, TRUE),
     EnvConfig(NoEnv, NoEnv, <<Ref("container", "A", <<>>)>>, <<>>, FALSE, FALSE)}
UserShells == {"A" :> One, "A" :> <<Ref("container", "A", <<>>)>>}
UserEnvFiles == {"F" :> One @@ "A" :> Two, "F" :> <<Ref("local", "A", <<>>)>>}
PodProfiles == {"R" :> Two}
EnvOfImage == "A" :> <<Lit("image")>>
BackendSets == "S" :> <<Lit("sock")>>
EnvLoad(e, a, s, f) == [edits |-> e, asks |-> a, stops |-> s, forks |-> f]
EnvBounds == {EnvLoad(1, 2, 1, 0), EnvLoad(1, 1, 0, 1), EnvLoad(0, 2, 1, 0)}

\* The agent's service a builds upon b, which needs d; e needs a.  Some of the
\* configurations are refused, some have ports of other services.
ComposeFile(runAll, run, forwards, named, volatile, remote, binds) ==
    [services |-> {"a", "b", "d", "e"}, agent |-> "a", runAll |-> runAll, run |-> run,
     forwards |-> forwards,
     needs |-> ("a" :> {"b"} @@ "b" :> {"d"} @@ "d" :> {} @@ "e" :> {"a"}),
     builds |-> {"a", "b"}, uses |-> ("a" :> {"b"} @@ "b" :> {}),
     named |-> named, volatile |-> volatile, remote |-> remote, binds |-> binds]
ComposeFiles ==
    {ComposeFile(TRUE, <<>>, {NumberPort, "e"}, {}, FALSE, FALSE, {"d"}),
     ComposeFile(FALSE, <<"d">>, {NumberPort, "d", "b"}, {"b"}, FALSE, TRUE, {}),
     ComposeFile(FALSE, <<>>, {"e"}, {}, FALSE, FALSE, {}),
     ComposeFile(FALSE, <<"a">>, {"b", "d"}, {}, TRUE, FALSE, {}),
     ComposeFile(TRUE, <<>>, {"x"}, {}, FALSE, FALSE, {}),
     ComposeFile(TRUE, <<>>, {"a"}, {}, FALSE, FALSE, {}),
     ComposeFile(TRUE, <<>>, {}, {}, FALSE, TRUE, {"d"})}
\* Two launches at once with a fork or a failing build; three one after another.
ComposeLoad(e, p, q, f, b) ==
    [edits |-> e, launches |-> ("p" :> p @@ "q" :> q), forks |-> f, failures |-> b]
ComposeBounds ==
    {ComposeLoad(1, 1, 1, 1, 0), ComposeLoad(1, 1, 1, 0, 1), ComposeLoad(2, 3, 0, 0, 0)}

-----------------------------------------------------------------------------

Parts == {"status", "image", "ports", "home", "git", "ssh", "lfs", "env", "compose"}

Resting(p, x, S) == part = p \/ x = CHOOSE s \in S : TRUE

Init ==
    /\ part \in Parts
    /\ StatusInit /\ Resting("status", statusLoad, StatusLoads)
    /\ ImageInit /\ Resting("image", clientHas, Machines) /\ Resting("image", base, Bases)
    /\ PortsInit /\ Resting("ports", portLoad, PortLoads)
    /\ HomeInit /\ Resting("home", homeLoad, HomeLoads)
    /\ GitInit /\ Resting("git", gitScenario, GitScenarios)
    /\ SshInit /\ Resting("ssh", sshLoad, SshLoads)
    /\ LfsInit /\ Resting("lfs", lfsLoad, LfsLoads)
    /\ EnvInit /\ Resting("env", config, Configs) /\ Resting("env", shell, Shells)
    /\ Resting("env", envFile, EnvFiles) /\ Resting("env", envLoad, EnvLoads)
    /\ ComposeInit /\ Resting("compose", file, Files)
    /\ Resting("compose", composeLoad, ComposeLoads)

allVars == <<part, statusVars, imageVars, portVars, homeVars, gitVars, sshVars, lfsVars,
             envVars, composeVars>>

\* Only the part's variables change.
Only(p, others) == part = p /\ UNCHANGED <<part, others>>

Next ==
    \/ /\ Only("status", <<imageVars, portVars, homeVars, gitVars, sshVars,
                       lfsVars, envVars, composeVars>>)
       /\ StatusNext
    \/ /\ Only("image", <<statusVars, portVars, homeVars, gitVars, sshVars,
                      lfsVars, envVars, composeVars>>)
       /\ ImageNext
    \/ /\ Only("ports", <<statusVars, imageVars, homeVars, gitVars, sshVars,
                      lfsVars, envVars, composeVars>>)
       /\ PortsNext
    \/ /\ Only("home", <<statusVars, imageVars, portVars, gitVars, sshVars,
                     lfsVars, envVars, composeVars>>)
       /\ HomeNext
    \/ /\ Only("git", <<statusVars, imageVars, portVars, homeVars, sshVars,
                    lfsVars, envVars, composeVars>>)
       /\ GitNext
    \/ /\ Only("ssh", <<statusVars, imageVars, portVars, homeVars, gitVars,
                    lfsVars, envVars, composeVars>>)
       /\ SshNext
    \/ /\ Only("lfs", <<statusVars, imageVars, portVars, homeVars, gitVars,
                    sshVars, envVars, composeVars>>)
       /\ LfsNext
    \/ /\ Only("env", <<statusVars, imageVars, portVars, homeVars, gitVars,
                    sshVars, lfsVars, composeVars>>)
       /\ EnvNext
    \/ /\ Only("compose", <<statusVars, imageVars, portVars, homeVars, gitVars,
                        sshVars, lfsVars, envVars>>)
       /\ ComposeNext

Spec == Init /\ [][Next]_allVars
==============================================================================
