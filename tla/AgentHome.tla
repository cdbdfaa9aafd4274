------------------------------ MODULE AgentHome ------------------------------
(* What the coding agents keep in a pod's home, and who writes there: the     *)
(* commands that copy the user's configuration in when an agent is first used *)
(* (ensure_claude_config, ensure_pi_config, write_codex_credentials), the     *)
(* agents themselves, and `rumpel recreate` and `rumpel fork`, which carry    *)
(* the homes and the uncommitted work into new containers.  Recreations and   *)
(* forks hold the lifecycle lease of the pod they make; the copies do not.    *)
EXTENDS Naturals, Sequences

CONSTANTS HomePods,  \* pod names
          Commands,  \* `rumpel claude` and `rumpel pi` commands under way
          HomeLoads  \* [copies, edits, jobs, faults]: bounds

NoRow == <<>>
NoId == 0
Claude == "claude"
Pi == "pi"

VARIABLES homeLoad,
          row,      \* per pod: NoRow or <<id, claude_config_copied>>
          nextId,   \* the next row id (also the next container, identity)
          container,\* per pod: which container is running, 0 for none
          home,     \* per pod: what is in the home directory
          copy,     \* per command: how far it is
          job,      \* per pod: the recreation or fork that makes it
          crossed,  \* history: pods whose job crossed a copy, or whose copy or job failed, and
                    \* their forks
          unreset,  \* history: forks that failed before they had an identity of their own
          lost      \* history: pods whose own agent state was replaced

homeVars == <<homeLoad, row, nextId, container, home, copy, job, crossed, unreset, lost>>

\* "bare": what the prepared image has; "host": as copied from the user's
\* home; "own": changed in the pod since.  The mark of pi is a file beside it.
NoCodex == [auth |-> "bare", initialized |-> FALSE, id |-> NoId, remote |-> FALSE]
FreshHome == [claude |-> "bare", pi |-> "bare", codex |-> NoCodex, work |-> 0]

NoCopy == [at |-> "idle"]
NoTransfer == [plan |-> <<>>, step |-> 1]

HomeInit ==
    /\ homeLoad \in HomeLoads
    /\ nextId = 2
    /\ LET p == CHOOSE q \in HomePods : TRUE
       IN  /\ row = [q \in HomePods |-> IF q = p THEN <<1, FALSE>> ELSE NoRow]
           /\ container = [q \in HomePods |-> IF q = p THEN 1 ELSE 0]
    /\ home = [p \in HomePods |-> FreshHome]
    /\ copy = [c \in Commands |-> NoCopy] /\ job = [p \in HomePods |-> NoTransfer]
    /\ crossed = {} /\ unreset = {} /\ lost = {}

Leased(p) == job[p].step <= Len(job[p].plan)
Spend(what) ==
    homeLoad[what] > 0 /\ homeLoad' = [homeLoad EXCEPT ![what] = @ - 1]

\* HomePods some job reads from or writes to, and pods some command copies to.
InJob == {p \in HomePods : Leased(p)} \union {job[p].source : p \in {q \in HomePods : Leased(q)}}
Involved(p) == {p} \union {q \in HomePods : Leased(q) /\ job[q].source = p}
InCopy == {copy[c].pod : c \in {d \in Commands : copy[d].at # "idle"}}

-----------------------------------------------------------------------------
(* First use of an agent                                                     *)

Copied(p, agent) == IF agent = Claude THEN row[p][2] ELSE home[p].pi # "bare"

\* The command launches the pod or enters it, which waits for the lease.  (A
\* claude that attaches through a cached connection copies nothing.)
Entered(p) == row[p] # NoRow /\ container[p] # 0 /\ ~Leased(p)

\* Then the mark is looked at.
CopyChecks(c, p, agent) ==
    /\ copy[c].at = "idle" /\ Entered(p) /\ ~Copied(p, agent) /\ Spend("copies")
    /\ copy' = [copy EXCEPT ![c] = [at |-> "put", pod |-> p, agent |-> agent,
                                    id |-> row[p][1], to |-> container[p]]]
    /\ crossed' = IF p \in InJob \union InCopy THEN crossed \union Involved(p) ELSE crossed
    /\ UNCHANGED <<row, nextId, container, home, job, unreset, lost>>

\* PUT /agent-files with the token of the container the command has entered.
CopyPuts(c) ==
    LET k == copy[c] IN
    /\ k.at = "put"
    /\ IF container[k.pod] = k.to
         THEN /\ home' = [home EXCEPT ![k.pod][k.agent] = "host"]
              /\ lost' = IF home[k.pod][k.agent] = "own" THEN lost \union {k.pod} ELSE lost
              /\ copy' = [copy EXCEPT ![c] = IF k.agent = Claude THEN [k EXCEPT !.at = "mark"]
                                                                 ELSE NoCopy]
         ELSE copy' = [copy EXCEPT ![c] = NoCopy] /\ UNCHANGED <<home, lost>>
    /\ UNCHANGED <<homeLoad, row, nextId, container, job, crossed, unreset>>

\* mark_claude_config_copied: no row may have that id any more.
CopyMarks(c) ==
    /\ copy[c].at = "mark"
    /\ row' = [p \in HomePods |-> IF row[p] # NoRow /\ row[p][1] = copy[c].id
                                THEN <<row[p][1], TRUE>> ELSE row[p]]
    /\ copy' = [copy EXCEPT ![c] = NoCopy]
    /\ UNCHANGED <<homeLoad, nextId, container, home, job, crossed, unreset, lost>>

\* The upload breaks off, with or without files in place, or the mark cannot be
\* written, or the daemon ends in between: the next command copies again.
CopyFails(c) ==
    LET k == copy[c] IN
    /\ k.at # "idle" /\ Spend("faults")
    /\ copy' = [copy EXCEPT ![c] = NoCopy]
    /\ \/ k.at = "put" /\ UNCHANGED <<home, crossed, lost>>
       \/ /\ k.at = "put" /\ container[k.pod] = k.to
          /\ home' = [home EXCEPT ![k.pod][k.agent] = "host"]
          /\ lost' = IF home[k.pod][k.agent] = "own" THEN lost \union {k.pod} ELSE lost
          /\ crossed' = crossed \union Involved(k.pod)
       \/ k.at = "mark" /\ crossed' = crossed \union Involved(k.pod) /\ UNCHANGED <<home, lost>>
    /\ UNCHANGED <<row, nextId, container, job, unreset>>

\* preserve_credentials, and what the upload of the host's login leaves.
Preserves(codex) == codex.initialized \/ codex.auth # "bare"
Uploaded(codex) == IF Preserves(codex) THEN codex ELSE [codex EXCEPT !.auth = "host"]

\* An attach uploads the host's login (refused when neither has one), and the
\* pod initializes its config and starts the native daemon, which makes itself
\* an identity.
CodexAttaches(p, hostHasLogin) ==
    /\ container[p] # 0 /\ Spend("copies")
    /\ hostHasLogin \/ Preserves(home[p].codex)
    /\ LET codex == Uploaded(home[p].codex)
       IN  /\ home' = [home EXCEPT ![p].codex =
                [codex EXCEPT !.initialized = TRUE, !.id = IF @ = NoId THEN nextId ELSE @]]
           /\ lost' = IF home[p].codex.auth = "own" /\ codex.auth # "own"
                        THEN lost \union {p} ELSE lost
    /\ nextId' = nextId + 1
    /\ UNCHANGED <<row, container, copy, job, crossed, unreset>>

-----------------------------------------------------------------------------
(* The agents and the user at work in the pod                                *)

EditFile(p, agent) ==
    /\ container[p] # 0 /\ home[p][agent] = "host" /\ Spend("edits")
    /\ home' = [home EXCEPT ![p][agent] = "own"]
    /\ UNCHANGED <<row, nextId, container, copy, job, crossed, unreset, lost>>

\* A login of the pod's own, and remote control switched on.
EditCodex(p) ==
    /\ container[p] # 0 /\ home[p].codex.initialized /\ Spend("edits")
    /\ home' = [home EXCEPT ![p].codex.auth = "own", ![p].codex.remote = TRUE]
    /\ UNCHANGED <<row, nextId, container, copy, job, crossed, unreset, lost>>

EditWork(p) ==
    /\ container[p] # 0 /\ Spend("edits")
    /\ home' = [home EXCEPT ![p].work = @ + 1]
    /\ UNCHANGED <<row, nextId, container, copy, job, crossed, unreset, lost>>

-----------------------------------------------------------------------------
(* recreate_pod_impl and fork_pod_impl                                       *)

\* What a job still has to do, in order.  A recreation reads the mark first, a
\* fork last.
RecreatePlan == <<"flag", "get_work", "get_claude", "get_codex", "get_pi", "replace",
                  "put_work", "put_claude", "put_codex", "put_pi", "mark">>
ForkPlan == <<"get_work", "get_claude", "get_codex", "get_pi", "replace",
              "put_claude", "put_codex", "put_pi", "put_work", "flag", "mark">>

\* The container is not running, or its server cannot be reached: recreate
\* goes on without a snapshot.
BlindPlan == <<"flag", "replace">>

StartJob(p, source, plan) ==
    /\ Spend("jobs") /\ row[source] # NoRow /\ ~Leased(p)
    /\ job' = [job EXCEPT ![p] = [plan |-> plan, step |-> 1, source |-> source,
                                  sourceId |-> row[source][1], copied |-> FALSE,
                                  snapshot |-> FreshHome]]
    /\ crossed' = IF {p, source} \intersect InCopy # {} \/ source \in InJob \union crossed
                    THEN crossed \union {p, source} ELSE crossed
    /\ UNCHANGED <<row, nextId, container, home, copy, unreset, lost>>

Recreate(p) == StartJob(p, p, RecreatePlan)
RecreateBlind(p) ==
    /\ homeLoad.faults > 0 /\ StartJob(p, p, BlindPlan)

Fork(p, source) ==
    /\ row[p] = NoRow /\ container[source] # 0
    /\ StartJob(p, source, ForkPlan)

Doing(p, step) == Leased(p) /\ job[p].plan[job[p].step] = step
Advance(p) == job' = [job EXCEPT ![p].step = @ + 1]

ReadFlag(p) ==
    /\ Doing(p, "flag")
    /\ LET r == row[job[p].source]
       IN  /\ r # NoRow /\ r[1] = job[p].sourceId
           /\ job' = [job EXCEPT ![p].step = @ + 1, ![p].copied = r[2]]
    /\ UNCHANGED <<homeLoad, row, nextId, container, home, copy, crossed, unreset, lost>>

\* Requests to the source's server, one after the other.
Get(p, part) ==
    /\ container[job[p].source] # 0
    /\ job' = [job EXCEPT ![p].step = @ + 1,
                          ![p].snapshot[part] = home[job[p].source][part]]
    /\ UNCHANGED <<homeLoad, row, nextId, container, home, copy, crossed, unreset, lost>>

GetWork(p) == Doing(p, "get_work") /\ Get(p, "work")
GetFiles(p) ==
    \/ Doing(p, "get_claude") /\ Get(p, Claude)
    \/ Doing(p, "get_pi") /\ Get(p, Pi)

\* archive: the files, the databases and the settings, with the source's name.
GetCodex(p) == Doing(p, "get_codex") /\ Get(p, "codex")

\* The old pod, if any, is deleted with its row; a new one is launched.
Replace(p) ==
    /\ Doing(p, "replace")
    /\ row' = [row EXCEPT ![p] = <<nextId, FALSE>>]
    /\ container' = [container EXCEPT ![p] = nextId]
    /\ nextId' = nextId + 1
    /\ home' = [home EXCEPT ![p] = FreshHome]
    /\ Advance(p)
    /\ UNCHANGED <<homeLoad, copy, crossed, unreset, lost>>

\* A bug: a fork keeps its source's identity.
RestoredUnchanged(codex, source, p) == codex

\* agent_files_put_impl: the snapshot says which pod it is from, and a fork
\* gets an identity of its own.
Restored(codex, source, p) ==
    IF source = p THEN codex ELSE [codex EXCEPT !.id = NoId, !.remote = FALSE]

Put(p, part, value) ==
    /\ home' = [home EXCEPT ![p][part] = value]
    /\ Advance(p)
    /\ UNCHANGED <<homeLoad, row, nextId, container, copy, crossed, unreset, lost>>

PutWork(p) == Doing(p, "put_work") /\ Put(p, "work", job[p].snapshot.work)
PutAgent(p) ==
    LET s == job[p].snapshot IN
    \/ Doing(p, "put_claude") /\ Put(p, Claude, s.claude)
    \/ Doing(p, "put_pi") /\ Put(p, Pi, s.pi)
    \/ Doing(p, "put_codex") /\ Put(p, "codex", Restored(s.codex, job[p].source, p))

\* mark_restored_agent_configs: if the snapshot had files of claude's.
MarkRestored(p) ==
    /\ Doing(p, "mark")
    /\ row' = IF job[p].copied /\ job[p].snapshot.claude # "bare"
                THEN [row EXCEPT ![p] = <<@[1], TRUE>>] ELSE row
    /\ Advance(p)
    /\ UNCHANGED <<homeLoad, nextId, container, home, copy, crossed, unreset, lost>>

\* The source's row is gone, or its container.
SourceGone(p) ==
    LET j == job[p] IN
    /\ \/ Doing(p, "flag") /\ row[j.source] = NoRow
       \/ Doing(p, "flag") /\ row[j.source] # NoRow /\ row[j.source][1] # j.sourceId
       \/ /\ \E part \in {"get_work", "get_claude", "get_codex", "get_pi"} : Doing(p, part)
          /\ container[j.source] = 0
    /\ job' = [job EXCEPT ![p] = NoTransfer]
    /\ crossed' = crossed \union {p}
    /\ UNCHANGED <<homeLoad, row, nextId, container, home, copy, unreset, lost>>

\* A step fails: before the old pod is gone nothing is lost; afterwards the
\* snapshot is, and an upload may have stopped short of the reset.
JobFails(p) ==
    /\ Leased(p) /\ Spend("faults")
    /\ job' = [job EXCEPT ![p] = NoTransfer]
    /\ IF Doing(p, "replace")
         THEN /\ row' = [row EXCEPT ![p] = NoRow] /\ container' = [container EXCEPT ![p] = 0]
              /\ home' = home
         ELSE /\ home' = IF Doing(p, "put_codex")
                           THEN [home EXCEPT ![p].codex = job[p].snapshot.codex] ELSE home
              /\ UNCHANGED <<row, container>>
    /\ crossed' = crossed \union {p}
    /\ unreset' = IF Doing(p, "put_codex") THEN unreset \union ({p} \ {job[p].source}) ELSE unreset
    /\ UNCHANGED <<nextId, copy, lost>>

JobStep(p) ==
    \/ ReadFlag(p) \/ Replace(p) \/ MarkRestored(p) \/ SourceGone(p) \/ JobFails(p)
    \/ GetWork(p) \/ GetFiles(p) \/ GetCodex(p) \/ PutWork(p) \/ PutAgent(p)

HomeNext ==
    \/ \E c \in Commands :
         \/ \E p \in HomePods, agent \in {Claude, Pi} : CopyChecks(c, p, agent)
         \/ CopyPuts(c) \/ CopyMarks(c) \/ CopyFails(c)
    \/ \E p \in HomePods :
         \/ \E hostHasLogin \in BOOLEAN : CodexAttaches(p, hostHasLogin)
         \/ EditFile(p, Claude) \/ EditFile(p, Pi) \/ EditCodex(p) \/ EditWork(p)
         \/ Recreate(p) \/ RecreateBlind(p) \/ JobStep(p)
         \/ \E source \in HomePods \ {p} : Fork(p, source)

HomeSpec == HomeInit /\ [][HomeNext]_homeVars

-----------------------------------------------------------------------------
(* Properties                                                                *)

\* A pod whose row says that the claude configuration has been copied has it,
\* although copies, recreations and forks overlap and fail: a copy that ends
\* after its pod has been recreated marks no other pod, and a restored home is
\* marked only for what it has, even where a fork reads its source's mark after
\* a copy that its snapshot has missed.
MarkedIsConfigured ==
    \A p \in HomePods :
        (row[p] # NoRow /\ row[p][2] /\ container[p] # 0) => home[p].claude # "bare"

\* Two pods never have the codex identity of one installation: a recreated pod
\* keeps its own, a fork does not take its source's, unless its restore failed.
NoSharedIdentity ==
    \A p, q \in HomePods \ unreset :
        (p # q /\ container[p] # 0 /\ container[q] # 0 /\ home[p].codex.id = home[q].codex.id)
            => home[p].codex.id = NoId

\* What an agent in a pod has made its own is never replaced by another copy
\* of the host's files: not by later commands, and not after a recreation or
\* a fork, whose marks travel with the state; unless two copies, or a copy and
\* a job, overlapped, or a copy failed between its first file and its mark, or
\* a job before it had restored the mark, or that was so of the pod it is a
\* fork of.
OwnStateKept == lost \subseteq crossed

\* The home of an agent's files is its pod's own, whatever copies, recreations
\* and forks overlap (ensure_claude_config, recreate_pod_impl,
\* fork_pod_impl, reset_fork_identity).
HomesAreOwn == MarkedIsConfigured /\ NoSharedIdentity /\ OwnStateKept
=============================================================================
