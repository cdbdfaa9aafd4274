------------------------------ MODULE LfsRelay -------------------------------
(* Git LFS payloads of pods' branches.  A branch reaches the host with its   *)
(* payloads stored in the host repository first: by Git LFS' own pre-push    *)
(* hook, or, for a new ref, by prepare_lfs_* (git.rs), after which the push  *)
(* skips that hook.  The host's store is written by lfs_upload_handler and   *)
(* looked up with exists() (git_http_server.rs).  git and git-lfs are        *)
(* external.  A history is the sequence of payloads its commits add, so an   *)
(* ancestor is a prefix.                                                     *)
EXTENDS Integers, Sequences, FiniteSets, Functions

CONSTANTS LfsPods,
          Payloads,   \* what commits in pods may add
          LfsLoads    \* [commits, fetches, losses, cuts]: bounds

Old == "old"           \* a payload of the host's history that only the host's own remote has
HostHead == <<Old>>
Unborn == <<>>
LfsBranches == {"main", "topic"} \* pod-name's own branch, published at setup, and another
NotStored == "absent"
Partial == "partial"
Whole == "whole"

ASSUME LfsAssumption ==
    /\ Old \notin Payloads
    /\ LfsLoads \subseteq [commits : Nat, fetches : Nat, losses : Nat, cuts : Nat]

VARIABLES lfsLoad,
          tip,        \* refs/heads/* of every pod
          shown,      \* refs/rumpelpod/* of every pod, in the host repository
          tracked,    \* refs/remotes/rumpelpod/* for the pod's own branches
          fetched,    \* what its other remote-tracking refs point to
          has,        \* payloads in every pod's own LFS store
          store,      \* the host repository's lfs/objects
          writer,     \* who opened an object's file last
          pushing,    \* per lane: the push under way
          cut,        \* history: payloads whose write was cut short
          mixed,      \* history: payloads of existing refs pushed along with a new one
          landed        \* history: payloads committed between a push's preparation and its refs

lfsVars ==
    <<lfsLoad, tip, shown, tracked, fetched, has, store, writer, pushing, cut, mixed, landed>>

\* A pod's pushes: one of its hook, for a commit, and one of its server, for all.
Lanes == LfsPods \X {"hook", "server"}
PodOfLane(l) == l[1]
ForAll(l) == l[2] = "server"
Nobody == <<>>
NotPushing == [at |-> "idle"]

LfsInit ==
    /\ lfsLoad \in LfsLoads
    /\ tip = [p \in LfsPods |-> [b \in LfsBranches |-> IF b = "main" THEN HostHead ELSE Unborn]]
    /\ shown = tip /\ tracked = tip
    /\ fetched = [p \in LfsPods |-> {HostHead}]
    /\ has = [p \in LfsPods |-> {}]
    /\ store = [o \in Payloads |-> NotStored] /\ writer = [o \in Payloads |-> Nobody]
    /\ pushing = [l \in Lanes |-> NotPushing]
    /\ cut = {} /\ mixed = {} /\ landed = {}

-----------------------------------------------------------------------------
(* Which payloads a push needs                                               *)

\* rev-list --objects <new> --not <bases>, the pointers among the blobs.
PayloadsOutside(bases, new) == Range(new) \ UNION {Range(c) : c \in bases}

\* remote_tracking_ancestors
TrackedBases(p, new) ==
    {c \in (Range(tracked[p]) \ {Unborn}) \union fetched[p] :
        Len(c) <= Len(new) /\ SubSeq(new, 1, Len(c)) = c}

\* Git LFS' pre-push hook: everything reachable for a new destination, and
\* what the remote is not known to have for another (external).
PrePush(p, b, new) ==
    IF tracked[p][b] = Unborn THEN Range(new)
    ELSE PayloadsOutside(Range(tracked[p]) \union fetched[p], new)

\* A push whose uploads are known: of the heads want, some of them new, onto
\* the refs old.
Uploading(skip, want, new, old, needs) ==
    [at |-> "batch", skip |-> skip, want |-> want, new |-> new, old |-> old, needs |-> needs,
     send |-> {}, open |-> {}]

Heads(p) == {b \in LfsBranches : tip[p][b] # Unborn}
Known(p) == Range(tracked[p]) \union fetched[p]

\* A bug: the first new ref settles it, the others are not looked at.
PreparedFirstOnly(p, want, new) ==
    IF new # {} THEN Uploading(TRUE, want, new, shown[p], {})
    ELSE [at |-> "start", refs |-> DOMAIN want]

\* prepare_lfs_for_new_ref and prepare_lfs_for_rumpelpod_push: with a base for
\* every new ref, what is outside the bases is uploaded, and the push skips
\* the hook; otherwise the hook does its work.
Prepared(p, want, new) ==
    IF new # {} /\ \A b \in new : TrackedBases(p, want[b]) # {}
      THEN Uploading(TRUE, want, new, shown[p],
             UNION {PayloadsOutside(TrackedBases(p, want[b]), want[b]) : b \in new})
      ELSE [at |-> "start", refs |-> DOMAIN want]

-----------------------------------------------------------------------------
(* The pod                                                                   *)

\* A commit adds payload o to branch b, or makes the branch, out of a commit
\* the pod has or out of nothing; the reference-transaction hook pushes it,
\* and the committer waits for the hook.
CommitPayload(p, b, o) ==
    LET l == <<p, "hook">> IN
    /\ lfsLoad.commits > 0 /\ pushing[l] = NotPushing
    /\ lfsLoad' = [lfsLoad EXCEPT !.commits = @ - 1]
    /\ \E base \in IF tip[p][b] # Unborn THEN {tip[p][b]} ELSE fetched[p] \union {Unborn} :
         /\ tip' = [tip EXCEPT ![p][b] = Append(base, o)]
         /\ pushing' = [pushing EXCEPT ![l] =
              Prepared(p, [x \in {b} |-> Append(base, o)], IF tip[p][b] = Unborn THEN {b} ELSE {})]
    /\ has' = [has EXCEPT ![p] = @ \union {o}]
    /\ UNCHANGED <<shown, tracked, fetched, store, writer, cut, mixed, landed>>

\* recover_push and git_push_handler push every branch, if one is not known
\* to be on the host.
PushAll(p) ==
    LET l == <<p, "server">> IN
    /\ pushing[l] = NotPushing /\ tip[p] # tracked[p]
    /\ pushing' = [pushing EXCEPT ![l] =
         Prepared(p, [b \in Heads(p) |-> tip[p][b]], {b \in Heads(p) : tracked[p][b] = Unborn})]
    /\ UNCHANGED <<lfsLoad, tip, shown, tracked, fetched, has, store, writer, cut, mixed, landed>>

\* `git push` with its pre-push hook: the refs of the remote, then the heads as
\* they are now, are what the hook looks at and what is pushed later.
GitPushStarts(l) ==
    LET p == PodOfLane(l) IN
    /\ pushing[l].at = "start"
    /\ LET refs == IF ForAll(l) THEN Heads(p) ELSE pushing[l].refs
       IN  pushing' = [pushing EXCEPT ![l] =
             Uploading(FALSE, [b \in refs |-> tip[p][b]], {}, shown[p],
               UNION {PrePush(p, b, tip[p][b]) : b \in refs})]
    /\ UNCHANGED <<lfsLoad, tip, shown, tracked, fetched, has, store, writer, cut, mixed, landed>>

\* `git fetch rumpelpod` shows the pod another pod's branches.
FetchPeers(p) ==
    /\ lfsLoad.fetches > 0 /\ lfsLoad' = [lfsLoad EXCEPT !.fetches = @ - 1]
    /\ fetched' = [fetched EXCEPT ![p] =
                     (@ \union {shown[q][b] : q \in LfsPods \ {p}, b \in LfsBranches}) \ {Unborn}]
    /\ UNCHANGED <<tip, shown, tracked, has, store, writer, pushing, cut, mixed, landed>>

\* lfs_batch_handler and lfs_download_handler serve whatever file exists; git
\* lfs refuses one whose hash is wrong (external).
Download(p, o) ==
    /\ o \notin has[p] /\ \E c \in fetched[p] : o \in Range(c)
    /\ store[o] = Whole
    /\ has' = [has EXCEPT ![p] = @ \union {o}]
    /\ UNCHANGED <<lfsLoad, tip, shown, tracked, fetched, store, writer, pushing, cut, mixed,
                   landed>>

-----------------------------------------------------------------------------
(* The upload, and the push                                                  *)

\* lfs_batch_handler for an upload: a payload whose file exists is not asked
\* for.
AskedFor(l) == {o \in pushing[l].needs : o = Old \/ store[o] = NotStored}

\* upload_lfs_oids, or the pre-push hook: one that has to be sent and is not
\* there fails the push.
Batch(l) ==
    /\ pushing[l].at = "batch"
    /\ pushing' = [pushing EXCEPT ![l] =
         IF AskedFor(l) \subseteq has[PodOfLane(l)]
           THEN [@ EXCEPT !.at = "put", !.send = AskedFor(l)]
           ELSE NotPushing]
    /\ UNCHANGED <<lfsLoad, tip, shown, tracked, fetched, has, store, writer, cut, mixed, landed>>

\* lfs_upload_handler has the body, whose hash is right: fs::write truncates.
PutOpens(l, o) ==
    /\ pushing[l].at = "put" /\ o \in pushing[l].send \ pushing[l].open
    /\ store' = [store EXCEPT ![o] = Partial]
    /\ writer' = [writer EXCEPT ![o] = l]
    /\ pushing' = [pushing EXCEPT ![l].open = @ \union {o}]
    /\ UNCHANGED <<lfsLoad, tip, shown, tracked, fetched, has, cut, mixed, landed>>

\* All is written.  What a later writer truncated, that one has to complete.
PutEnds(l, o) ==
    /\ pushing[l].at = "put" /\ o \in pushing[l].open
    /\ store' = [store EXCEPT ![o] = IF writer[o] = l THEN Whole ELSE @]
    /\ writer' = [writer EXCEPT ![o] = IF @ = l THEN Nobody ELSE @]
    /\ pushing' = [pushing EXCEPT ![l].open = @ \ {o}, ![l].send = @ \ {o}]
    /\ UNCHANGED <<lfsLoad, tip, shown, tracked, fetched, has, cut, mixed, landed>>

\* The writes fail, or the daemon dies: what is written so far stays, and the
\* push is over.
PutIsCut(l) ==
    /\ lfsLoad.cuts > 0 /\ pushing[l].at = "put" /\ pushing[l].open # {}
    /\ lfsLoad' = [lfsLoad EXCEPT !.cuts = @ - 1]
    /\ LET torn == {o \in pushing[l].open : writer[o] = l}
       IN  /\ cut' = cut \union torn
           /\ writer' = [o \in Payloads |-> IF o \in torn THEN Nobody ELSE writer[o]]
    /\ pushing' = [pushing EXCEPT ![l] = NotPushing]
    /\ UNCHANGED <<tip, shown, tracked, fetched, has, store, mixed, landed>>

\* The refs follow once all uploads have succeeded: after the pre-push hook, the
\* heads it has seen, where the remote's refs are still those it has seen; with
\* the hook skipped, the heads as they are now.
PushRefs(l) ==
    LET p == PodOfLane(l)
        r == pushing[l]
        refs == IF r.skip /\ ForAll(l) THEN Heads(p) ELSE DOMAIN r.want
        goes == IF r.skip THEN refs ELSE {b \in refs : shown[p][b] = r.old[b]}
        Set(old) == [b \in LfsBranches |->
                       IF b \notin goes THEN old[b] ELSE IF r.skip THEN tip[p][b] ELSE r.want[b]]
        Planned(b) == IF b \in DOMAIN r.want THEN {r.want[b]} ELSE {}
        Besides(payloads) == IF r.skip THEN (UNION payloads) \ r.needs ELSE {}
    IN  /\ r.at = "put" /\ r.send = {}
        /\ shown' = [shown EXCEPT ![p] = Set(@)]
        /\ tracked' = [tracked EXCEPT ![p] = Set(@)]
        /\ mixed' = mixed \union
             Besides({PayloadsOutside(Known(p), r.want[b]) : b \in DOMAIN r.want \ r.new})
        /\ landed' = landed \union
             Besides({PayloadsOutside(Known(p) \union Planned(b), tip[p][b]) : b \in refs})
        /\ pushing' = [pushing EXCEPT ![l] = NotPushing]
        /\ UNCHANGED <<lfsLoad, tip, fetched, has, store, writer, cut>>

\* The tunnel is down: the push fails at once, between two uploads.
PushLost(l) ==
    /\ pushing[l] # NotPushing /\ (pushing[l].at = "put" => pushing[l].open = {})
    /\ lfsLoad.losses > 0 /\ lfsLoad' = [lfsLoad EXCEPT !.losses = @ - 1]
    /\ pushing' = [pushing EXCEPT ![l] = NotPushing]
    /\ UNCHANGED <<tip, shown, tracked, fetched, has, store, writer, cut, mixed, landed>>

LfsNext ==
    \/ \E p \in LfsPods :
         \/ \E o \in Payloads :
              (\E b \in LfsBranches : CommitPayload(p, b, o)) \/ Download(p, o)
         \/ PushAll(p) \/ FetchPeers(p)
    \/ \E l \in Lanes :
         \/ \E o \in Payloads : PutOpens(l, o) \/ PutEnds(l, o)
         \/ GitPushStarts(l) \/ Batch(l) \/ PutIsCut(l) \/ PushRefs(l) \/ PushLost(l)

LfsSpec == LfsInit /\ [][LfsNext]_lfsVars

-----------------------------------------------------------------------------

ShownPayloads == (UNION {Range(shown[p][b]) : p \in LfsPods, b \in LfsBranches}) \ {Old}

\* The one whose write counts is still at it.
BeingWritten(o) ==
    \E l \in Lanes : writer[o] = l /\ pushing[l].at = "put" /\ o \in pushing[l].open

\* Whatever two pods upload at a time, and whichever pushes are lost: a
\* payload of a branch the host shows is in its store, or is being written
\* there, unless its write was cut short (what exists() takes for the payload
\* from then on), or it went out with the pre-push hook off, which
\* prepare_lfs_for_rumpelpod_push does for every ref of a push that makes one:
\* a payload of a ref that is not new, or of a commit that landed between the
\* preparation and `git push`, which takes the heads as they are by then.
PayloadsFollow ==
    \A o \in ShownPayloads \ (cut \union mixed \union landed) : store[o] = Whole \/ BeingWritten(o)

\* The host has every payload of the branches it shows ("creating an LFS file
\* inside a pod stores the object in the host's .git/lfs directory",
\* tests/cli/gateway): payloads precede their ref, also in a push that makes
\* one ref and moves another, for which prepare_lfs_for_rumpelpod_push turns
\* the pre-push hook off; only a write that was cut short, or a payload
\* committed while the push was under way, may be missing.
PayloadsPrecedeRefs ==
    \A o \in ShownPayloads \ (cut \union landed) : store[o] = Whole \/ BeingWritten(o)
=============================================================================
