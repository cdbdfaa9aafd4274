---------------------------- MODULE PreparedImage ----------------------------
(* Prepared images (prepared_image.rs): a launch detects the agents on the   *)
(* client machine, names the image it needs by a tag, and takes the image    *)
(* that has the tag or builds it.  The build runs `rumpel prepare-image` in   *)
(* the base image, one step after the other; any step may fail, and a failed *)
(* build tags nothing.  Several launches build at the same time.             *)
EXTENDS Integers, Sequences, FiniteSets

CONSTANTS Launches,    \* launches of pods
          Wishes,      \* what a launch may ask for
          Bases,       \* base images
          Versions,    \* versions of an agent's CLI, each the sequence of its characters
          Machines,    \* what the client machine may have: agents to versions
          UpgradeLimit

Agents4 == {"claude", "pi", "codex", "grok"}
Missing == <<>>          \* no CLI: it adds nothing to the text that is hashed
Broken == <<"?">>        \* a CLI whose version cannot be read

\* Of "config", the directories ~/.codex, ~/.pi and ~/.grok of the pod's user.
Paths == {"repo", "home", "config", "opt", "other"}

(* A wish:  [clone: "local" or "skip", user: "" (the image's) or a name,     *)
(*           ids: <<uid, gid>> or <<>>, prompt, kubernetes: BOOLEAN].        *)
(* A base:  [user, repo, hostHooks, git: BOOLEAN, has: agents' versions,     *)
(*           passwd: names to <<uid, gid>>, groups: set of gids,             *)
(*           owner: paths to <<uid, gid>>].                                  *)
ASSUME ImageAssumption ==
    /\ Missing \notin Versions /\ Broken \notin Versions /\ UpgradeLimit \in Nat
    /\ Machines \subseteq [Agents4 -> {Missing, Broken} \union Versions]
    /\ \A w \in Wishes : w.clone \in {"local", "skip"} /\ w.prompt \in BOOLEAN
    /\ \A b \in Bases : DOMAIN b.has = Agents4 /\ DOMAIN b.owner = Paths

VARIABLES clientHas,  \* the agents' versions on the client machine
          upgrades,
          base,       \* the base image of this repository
          images,     \* the engine's prepared images: tag to image
          launch      \* per launch: where it is and what it works with

imageVars == <<clientHas, upgrades, base, images, launch>>

NoLaunch == [at |-> "idle"]

ImageInit ==
    /\ clientHas \in Machines
    /\ upgrades = 0
    /\ base \in Bases
    /\ images = <<>>
    /\ launch = [l \in Launches |-> NoLaunch]

\* The user installs, upgrades, breaks or removes CLIs on the client machine.
Upgrade(machine) ==
    /\ upgrades < UpgradeLimit /\ clientHas # machine
    /\ upgrades' = upgrades + 1
    /\ clientHas' = machine
    /\ UNCHANGED <<base, images, launch>>

-----------------------------------------------------------------------------
(* The tag                                                                   *)

\* detect_local_*: claude and pi are optional even when broken, codex and
\* grok are not.
Detected(a) == IF clientHas[a] = Broken /\ a \in {"claude", "pi"} THEN Missing ELSE clientHas[a]
DetectionFails == \E a \in {"codex", "grok"} : clientHas[a] = Broken

User(w) == IF w.user = "" THEN base.user ELSE w.user

Numeric == {"1000"}

\* Root and numeric users keep their IDs.
IdUpdate(w) == IF User(w) = "root" \/ User(w) \in Numeric THEN <<>> ELSE w.ids

Refused(w) == w.kubernetes /\ base.user # "root" /\ User(w) # base.user

\* A bug: two users of different IDs would share an image.
TagWithoutIds(w, found) ==
    <<"clone", w.clone, "user", User(w)>> \o
    found["claude"] \o found["pi"] \o <<"codex">> \o found["codex"] \o <<"/">> \o
    <<"grok">> \o found["grok"] \o <<"/">> \o <<w.prompt>>

\* compute_prepared_tag: what is hashed, in order.  The versions of claude and
\* pi follow each other character by character, without a mark between them.
Tag(w, found) ==
    <<"clone", w.clone, "user", User(w)>> \o
    (IF IdUpdate(w) = <<>> THEN <<"0">> ELSE <<"1">> \o IdUpdate(w)) \o
    found["claude"] \o found["pi"] \o <<"codex">> \o found["codex"] \o <<"/">> \o
    <<"grok">> \o found["grok"] \o <<"/">> \o <<w.prompt>>

-----------------------------------------------------------------------------
(* The launch                                                                *)

Steps == <<"ids", "clone", "hooks", "own", "agents", "prompt", "record", "share">>

Moved(l, rec) == launch' = [launch EXCEPT ![l] = rec]

\* assemble_build_context: a build starts from the base image.
FromBase ==
    [has |-> base.has, passwd |-> base.passwd, groups |-> base.groups, owner |-> base.owner,
     repo |-> base.repo, hooks |-> base.hostHooks, prompts |-> {}, user |-> ""]

\* build_prepared_image: what the launch needs is fixed here; the cache decides
\* whether anything is built.
Resolve(l, w) ==
    /\ launch[l].at = "idle"
    /\ LET found == [a \in Agents4 |-> Detected(a)]
           tag == Tag(w, found)
       IN  IF DetectionFails \/ Refused(w)
             THEN Moved(l, [at |-> "failed"])
             ELSE IF tag \in DOMAIN images
             THEN Moved(l, [at |-> "done", wish |-> w, found |-> found, image |-> images[tag]])
             ELSE Moved(l, [at |-> "building", step |-> 1, wish |-> w, found |-> found,
                            image |-> FromBase])
    /\ UNCHANGED <<clientHas, upgrades, base, images>>

At(l, step) == launch[l].at = "building" /\ Steps[launch[l].step] = step

\* The step is done and has left the image i.
Done(l, i) ==
    /\ launch' = [launch EXCEPT ![l].image = i, ![l].step = @ + 1]
    /\ UNCHANGED <<clientHas, upgrades, base, images>>

\* A download, a clone, a package manager or a chown fails, the image has no
\* git, or the user's records do not allow the update: so does the build.
BuildFails(l) ==
    /\ launch[l].at = "building"
    /\ Moved(l, [at |-> "failed"])
    /\ UNCHANGED <<clientHas, upgrades, base, images>>

\* The user's record in /etc/passwd.
Ids(l) == launch[l].image.passwd[User(launch[l].wish)]

\* translate_root_filesystem_ownership: a file's UID and GID, each on its own.
Translated(o, old, new) ==
    <<IF o[1] = old[1] THEN new[1] ELSE o[1], IF o[2] = old[2] THEN new[2] ELSE o[2]>>

\* update_remote_user_ids.  The GID stays if another group has the new one;
\* the group's record moves along, and so does every file of the old IDs.
UpdateUserIds(l) ==
    LET i == launch[l].image
        w == launch[l].wish
        u == User(w)
        want == IdUpdate(w)
        old == Ids(l)
        gid == IF old[2] # want[2] /\ want[2] \in i.groups THEN old[2] ELSE want[2]
    IN  /\ At(l, "ids")
        /\ \/ /\ want = <<>> \/ old[1] = 0
              /\ Done(l, i)
           \/ /\ want # <<>> /\ old[1] # 0
              /\ \A n \in DOMAIN i.passwd \ {u} : i.passwd[n][1] # want[1]
              /\ Done(l, [i EXCEPT !.passwd[u] = <<want[1], gid>>,
                                   !.groups = (@ \ {old[2]}) \union {gid},
                                   !.owner = [p \in DOMAIN @ |-> Translated(@[p], old, <<want[1], gid>>)]])

\* A baked repository is kept, an absent one is cloned or, in skip mode, left
\* to the pod server as an empty directory.
CloneRepository(l) ==
    LET i == launch[l].image IN
    /\ At(l, "clone") /\ base.git
    /\ \/ i.repo /\ Done(l, i)
       \/ ~i.repo /\ launch[l].wish.clone = "local"
          /\ Done(l, [i EXCEPT !.repo = TRUE, !.owner["repo"] = <<0, 0>>])
       \/ ~i.repo /\ launch[l].wish.clone = "skip"
          /\ Done(l, [i EXCEPT !.owner["repo"] = <<0, 0>>])

\* The host's hook lines in a repository baked into the base image.
RemoveHostHooks(l) ==
    At(l, "hooks") /\ Done(l, [launch[l].image EXCEPT !.hooks = IF @ THEN ~launch[l].image.repo ELSE @])

\* chown -R <user>: of the repository, and safe.directory.
OwnRepository(l) == At(l, "own") /\ Done(l, [launch[l].image EXCEPT !.owner["repo"] = Ids(l)])

\* Which version an agent has after its install step, which is there only for
\* an agent the client has.  claude and pi are skipped if there is one (pi
\* brings a Node.js along if it needs one), codex is always replaced, grok
\* unless its version is the wanted one.
InstalledClaude(there, wanted) == IF there = Missing THEN wanted ELSE there
InstalledPi(there, wanted) == IF there = Missing THEN wanted ELSE there
InstalledCodex(there, wanted) == wanted
InstalledGrok(there, wanted) == IF there = wanted THEN there ELSE wanted

Installed(a, there, wanted) ==
    CASE wanted = Missing -> there
      [] wanted # Missing /\ a = "claude" -> InstalledClaude(there, wanted)
      [] wanted # Missing /\ a = "pi" -> InstalledPi(there, wanted)
      [] wanted # Missing /\ a = "codex" -> InstalledCodex(there, wanted)
      [] wanted # Missing /\ a = "grok" -> InstalledGrok(there, wanted)

InstallAgents(l) ==
    LET i == launch[l].image IN
    /\ At(l, "agents")
    /\ Done(l, [i EXCEPT !.has = [a \in Agents4 |-> Installed(a, i.has[a], launch[l].found[a])],
                         !.owner["opt"] = <<0, 0>>])

\* container_has_codex, ..._pi, ..._grok: the program is on the PATH.
HasAgent(i, a) == i.has[a] # Missing

\* claude's prompt is written for all, under /etc; the others' only where the
\* agent is, in its directory of the user's home, which is handed to the user.
WritePrompts(l) ==
    LET i == launch[l].image IN
    /\ At(l, "prompt")
    /\ \/ ~launch[l].wish.prompt /\ Done(l, i)
       \/ /\ launch[l].wish.prompt
          /\ LET others == {a \in Agents4 \ {"claude"} : HasAgent(i, a)} IN
             Done(l, [i EXCEPT !.prompts = {"claude"} \union others,
                               !.owner["config"] = IF others = {} THEN @ ELSE Ids(l)])

\* The user file; then /opt/rumpelpod and the mount targets are handed over.
RecordUser(l) == At(l, "record") /\ Done(l, [launch[l].image EXCEPT !.user = User(launch[l].wish)])

ShareWithUser(l) == At(l, "share") /\ Done(l, [launch[l].image EXCEPT !.owner["opt"] = Ids(l)])

\* The engine tags the image; of two builds of a tag the later stays.
TagImage(l) ==
    /\ launch[l].at = "building" /\ launch[l].step > Len(Steps)
    /\ LET r == launch[l]
           tag == Tag(r.wish, r.found)
       IN  /\ images' = [t \in DOMAIN images \union {tag} |-> IF t = tag THEN r.image ELSE images[t]]
           /\ Moved(l, [at |-> "done", wish |-> r.wish, found |-> r.found, image |-> r.image])
    /\ UNCHANGED <<clientHas, upgrades, base>>

BuildStep(l) ==
    \/ launch[l].step <= Len(Steps) /\
       (\/ UpdateUserIds(l) \/ CloneRepository(l) \/ RemoveHostHooks(l) \/ OwnRepository(l)
        \/ InstallAgents(l) \/ WritePrompts(l) \/ RecordUser(l) \/ ShareWithUser(l))
    \/ TagImage(l)

ImageNext ==
    \/ \E machine \in Machines : Upgrade(machine)
    \/ \E l \in Launches :
         \/ \E w \in Wishes : Resolve(l, w)
         \/ launch[l].at = "building" /\ BuildStep(l)
         \/ BuildFails(l)

ImageSpec == ImageInit /\ [][ImageNext]_imageVars

-----------------------------------------------------------------------------
(* Properties                                                                *)

\* Whatever other launches build at the same time, whatever is upgraded on the
\* client meanwhile, and whether or not it comes from the cache: the image a
\* launch gets is the one its own build would have made.  It has the codex and
\* grok the launch detected; the user's home, repository, agents' directories
\* and /opt/rumpelpod belong to the user it records, under the IDs it asked for;
\* no other account's files have changed hands, every agent present has its
\* prompt, and no host hook is left in its repository.  Its claude and pi are
\* of versions that spell, one after the other, what the launch's own spell:
\* the tag tells no more apart (claude 2.1.7 and pi 90.1 share an image with
\* claude 2.1.79 and pi 0.1).
PreparedFits ==
    \A l \in Launches : launch[l].at = "done" =>
        LET i == launch[l].image
            w == launch[l].wish
            u == User(w)
            found == launch[l].found
        IN  /\ i.user = u
            /\ \A p \in {"repo", "opt"} : i.owner[p] = i.passwd[u]
            /\ u = "dev" => i.owner["home"] = i.passwd[u]
            /\ w.prompt /\ (\E a \in Agents4 \ {"claude"} : HasAgent(i, a)) =>
                 i.owner["config"] = i.passwd[u]
            /\ i.owner["other"][1] = i.passwd["other"][1]
            /\ IdUpdate(w) # <<>> /\ base.passwd[u][1] # 0 => i.passwd[u][1] = IdUpdate(w)[1]
            /\ w.prompt => \A a \in Agents4 : i.has[a] # Missing => a \in i.prompts
            /\ i.repo => ~i.hooks
            /\ w.clone = "local" => i.repo
            /\ \A a \in {"codex", "grok"} : i.has[a] = Installed(a, base.has[a], found[a])
            /\ \E c, p \in {Missing} \union Versions :
                 /\ c \o p = found["claude"] \o found["pi"]
                 /\ i.has["claude"] = Installed("claude", base.has["claude"], c)
                 /\ i.has["pi"] = Installed("pi", base.has["pi"], p)
=============================================================================
