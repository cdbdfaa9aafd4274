------------------------------- MODULE GitSync -------------------------------
(* How a pod's branches reach the host repository.  Every update of a branch *)
(* in the pod runs a hook that pushes it (hook.rs reference_transaction); a  *)
(* failed push is forgotten, and made up for when the git tunnel has been    *)
(* set up again, or the pod server has restarted (pod/server.rs needs_push,  *)
(* recover_push).  `git push` itself is external: it reads the local refs,   *)
(* then the gateway's, sends its updates, each of which the host's           *)
(* receive-pack applies only if the ref is still what was advertised, and    *)
(* last records what was accepted in the remote-tracking refs.               *)
EXTENDS Integers, FiniteSets

CONSTANTS Branches,     \* the pod's possible branches
          Primary,      \* the one named after the pod, also pushed as the shortcut
          HookSlots,    \* hook processes that may run at a time
          SyncLoads     \* [updates, outages, restarts, failures]: bounds

Shortcut == "shortcut"  \* refs/rumpelpod/<pod>
Refs == Branches \union {Shortcut}
Recoveries == {"gate", "boot"}  \* behind push_gate; run_setup's own thread
Pushers == HookSlots \union Recoveries
None == 0

ASSUME SyncAssumption ==
    /\ Primary \in Branches /\ Shortcut \notin Branches
    /\ SyncLoads \subseteq [updates : Nat, outages : Nat, restarts : Nat, failures : Nat]
    /\ HookSlots \intersect Recoveries = {}

VARIABLES syncLoad,
          head,     \* refs/heads/<b>: 0 or the number of a commit
          commits,  \* commits made so far
          gateway,  \* refs/rumpelpod/* of this pod in the host repository
          tracking, \* refs/remotes/rumpelpod/* in the pod
          online,   \* the git tunnel works
          booting,  \* run_setup has not come to its recovery yet
          refresh,  \* refreshes of the gateway URL waiting for the gate
          push,     \* per pusher: its git push and how far it is
          hook,     \* per hook process: its next push, and [branch, value, made]
          raced,    \* history: refs two pushes had different values for
          rewound,  \* history: refs whose branch went back to what the tracking
                    \* ref says, though the gateway was, or was being, moved on,
                    \* and no push succeeded since
          unretried \* history: refs whose last push failed with the tunnel up

syncVars == <<syncLoad, head, commits, gateway, tracking, online, booting, refresh, push,
              hook, raced, rewound, unretried>>
syncHistory == <<raced, rewound, unretried>>

NoPush == [at |-> "none"]
NoHook == [next |-> "none"]

SyncInit ==
    /\ syncLoad \in SyncLoads
    \* run_setup's first recover_push, which must succeed, has published what
    \* setup_git_impl made.
    /\ head = [b \in Branches |-> IF b = Primary THEN 1 ELSE None]
    /\ commits = 1
    /\ gateway = [r \in Refs |-> IF r \in {Primary, Shortcut} THEN 1 ELSE None]
    /\ tracking = gateway
    /\ online = TRUE /\ refresh = 0 /\ booting = FALSE
    /\ push = [p \in Pushers |-> NoPush]
    /\ hook = [h \in HookSlots |-> NoHook]
    /\ raced = {} /\ rewound = {} /\ unretried = {}

-----------------------------------------------------------------------------
(* git push (external)                                                       *)

InFlight(p) == push[p].at # "none"

BranchOf(r) == IF r = Shortcut THEN Primary ELSE r

\* Pusher p starts with the values it wants the refs to have; a ref that
\* another push wants to have another value is raced, and so is one that is
\* sent a commit its branch has left by now.
Start(p, want) ==
    /\ push' = [push EXCEPT ![p] = [at |-> "local", want |-> want]]
    /\ raced' = raced \union
         {r \in DOMAIN want : \E q \in Pushers \ {p} :
             InFlight(q) /\ r \in DOMAIN push[q].want /\ push[q].want[r] # want[r]}
         \union {r \in DOMAIN want : want[r] # head[BranchOf(r)]}
    /\ unretried' = unretried \ DOMAIN want
    /\ UNCHANGED rewound

\* The gateway's refs are listed.
Advertise(p) ==
    /\ online /\ push[p].at = "local"
    /\ push' = [push EXCEPT ![p] = [at |-> "sent", want |-> push[p].want,
                                    old |-> [r \in DOMAIN push[p].want |-> gateway[r]]]]
    /\ UNCHANGED <<booting, syncLoad, head, commits, gateway, tracking, online, refresh, hook,
                   syncHistory>>

\* receive-pack, with the host's pre-receive hook (check_push_access allows a
\* pod its own refs): a ref moves only from its advertised value.
Accepted(p) == {r \in DOMAIN push[p].want : gateway[r] = push[p].old[r]}

Receive(p) ==
    /\ online /\ push[p].at = "sent"
    /\ gateway' = [r \in Refs |-> IF r \in Accepted(p) THEN push[p].want[r] ELSE gateway[r]]
    /\ push' = [push EXCEPT ![p] = [at |-> "done", want |-> push[p].want,
                                    accepted |-> Accepted(p)]]
    /\ UNCHANGED <<booting, syncLoad, head, commits, tracking, online, refresh, hook, syncHistory>>

\* The client has its answer and moves the tracking refs.
Track(p) ==
    /\ push[p].at = "done"
    /\ tracking' = [r \in Refs |->
                      IF r \in push[p].accepted THEN push[p].want[r] ELSE tracking[r]]
    /\ rewound' = rewound \ push[p].accepted
    /\ push' = [push EXCEPT ![p] = NoPush]
    /\ UNCHANGED <<booting, syncLoad, head, commits, gateway, online, refresh, hook, raced,
                   unretried>>

\* Something fails with the tunnel up.
FailsOnline ==
    /\ online /\ syncLoad.failures > 0
    /\ syncLoad' = [syncLoad EXCEPT !.failures = @ - 1]

\* Without a tunnel, with the answer lost or for another reason, the push
\* fails; nobody hears, and nobody retries before the next recovery.
PushFails(p) ==
    /\ InFlight(p)
    /\ \/ ~online /\ UNCHANGED <<syncLoad, unretried>>
       \/ FailsOnline /\ unretried' = unretried \union DOMAIN push[p].want
    /\ push' = [push EXCEPT ![p] = NoPush]
    /\ UNCHANGED <<booting, head, commits, gateway, tracking, online, refresh, hook,
                   raced, rewound>>

-----------------------------------------------------------------------------
(* The reference-transaction hook                                            *)

RefsOf(b) == {b} \union (IF b = Primary THEN {Shortcut} ELSE {})

\* Ref r, whose branch is now at this value, looks published and is not.
LooksPublished(r, value) ==
    /\ tracking[r] = value
    /\ \/ gateway[r] # value
       \/ \E p \in Pushers :
             InFlight(p) /\ r \in DOMAIN push[p].want /\ push[p].want[r] # value

\* git runs the hook once the ref has moved.
UpdateBranch(b, value) ==
    /\ syncLoad.updates > 0
    /\ syncLoad' = [syncLoad EXCEPT !.updates = @ - 1]
    /\ head' = [head EXCEPT ![b] = value]
    /\ rewound' = rewound \union {r \in RefsOf(b) : LooksPublished(r, value)}
    /\ \E h \in HookSlots : hook[h] = NoHook /\ ~InFlight(h)
    /\ LET h == CHOOSE h \in HookSlots : hook[h] = NoHook /\ ~InFlight(h)
       IN  hook' = [hook EXCEPT ![h] = [next |-> "branch", branch |-> b, value |-> value,
                                        made |-> head[b] = None]]
    /\ UNCHANGED <<booting, gateway, tracking, online, refresh, push, raced, unretried>>

\* A commit, a reset to an earlier one, or a new branch at either.
MoveBranch(b) ==
    \E value \in 1..(commits + 1) :
        /\ value # head[b]
        /\ commits' = IF value > commits THEN value ELSE commits
        /\ UpdateBranch(b, value)

DeleteBranch(b) ==
    /\ head[b] # None /\ b # Primary
    /\ UpdateBranch(b, None)
    /\ UNCHANGED commits

After(h) == IF hook[h].branch = Primary
              THEN [hook EXCEPT ![h].next = "shortcut"] ELSE [hook EXCEPT ![h] = NoHook]

\* `git push rumpelpod <branch> --force` pushes what the branch is by now.
HookPushesBranch(h) ==
    /\ hook[h].next = "branch" /\ hook[h].value # None /\ ~InFlight(h)
    /\ head[hook[h].branch] # None
    /\ Start(h, [r \in {hook[h].branch} |-> head[r]])
    /\ hook' = After(h)
    /\ UNCHANGED <<booting, syncLoad, head, commits, gateway, tracking, online, refresh>>

\* The branch is gone by then, or is being deleted: `git push rumpelpod
\* --delete <branch>` looks for a ref of that very name, which the gateway,
\* where branches are refs/rumpelpod/<branch>@<pod>, does not have.  Both
\* pushes fail, and the error is dropped.
HookFindsNoBranch(h) ==
    /\ hook[h].next = "branch"
    /\ hook[h].value = None \/ head[hook[h].branch] = None
    /\ hook' = After(h)
    /\ UNCHANGED <<booting, syncLoad, head, commits, gateway, tracking, online, refresh, push,
                   syncHistory>>

\* The LFS payloads of a new branch cannot be prepared: the hook passes over the
\* update, the shortcut included.
HookSkips(h) ==
    /\ hook[h].next = "branch" /\ hook[h].made /\ ~InFlight(h)
    /\ FailsOnline
    /\ unretried' = unretried \union RefsOf(hook[h].branch)
    /\ hook' = [hook EXCEPT ![h] = NoHook]
    /\ UNCHANGED <<booting, head, commits, gateway, tracking, online, refresh, push, raced,
                   rewound>>

\* The shortcut is pushed by the value the hook was given.
HookPushesShortcut(h) ==
    /\ hook[h].next = "shortcut" /\ ~InFlight(h)
    /\ Start(h, [r \in {Shortcut} |-> hook[h].value])
    /\ hook' = [hook EXCEPT ![h] = NoHook]
    /\ UNCHANGED <<booting, syncLoad, head, commits, gateway, tracking, online, refresh>>

-----------------------------------------------------------------------------
(* Recovery                                                                  *)

\* The listing of refs/heads/.
Present == {b \in Branches : head[b] # None}

\* A bug: the shortcut's tracking ref is not looked at.
NeedsPushIgnoringShortcut == \E b \in Present : tracking[b] # head[b]

\* needs_push: some branch is not what its tracking refs say.
NeedsPush == \E b \in Present :
    tracking[b] # head[b] \/ (b = Primary /\ tracking[Shortcut] # head[b])

\* `git push rumpelpod --force` with both configured refspecs.
AllHeads == [r \in Present \union {Shortcut} |-> IF r = Shortcut THEN head[Primary] ELSE head[r]]

\* recover_push; a failure before the push (the LFS payloads) is only logged.
Recover(p) ==
    \/ ~NeedsPush /\ UNCHANGED <<push, syncHistory, syncLoad>>
    \/ NeedsPush /\ Start(p, AllHeads) /\ UNCHANGED syncLoad
    \/ /\ NeedsPush /\ FailsOnline
       /\ unretried' = unretried \union DOMAIN AllHeads
       /\ UNCHANGED <<push, raced, rewound>>

\* The tunnel goes down; a new tunnel server announces itself to the pod
\* server when it comes up (gateway_refresh_handler, queue_recover_push).
TunnelDown ==
    /\ online /\ syncLoad.outages > 0
    /\ syncLoad' = [syncLoad EXCEPT !.outages = @ - 1]
    /\ online' = FALSE
    /\ UNCHANGED <<booting, head, commits, gateway, tracking, refresh, push, hook, syncHistory>>

TunnelUp ==
    /\ ~online
    /\ online' = TRUE /\ refresh' = refresh + 1
    /\ UNCHANGED <<booting, syncLoad, head, commits, gateway, tracking, push, hook, syncHistory>>

\* A queued recovery gets the permit, which it keeps until its push is over.
RecoverBehindGate ==
    /\ refresh > 0 /\ ~InFlight("gate")
    /\ refresh' = refresh - 1
    /\ Recover("gate")
    /\ UNCHANGED <<booting, head, commits, gateway, tracking, online, hook>>

\* The container restarts and takes every process with it, the tunnel server
\* included; run_setup then recovers in a thread of its own, beside the gate.
ContainerRestarts ==
    /\ syncLoad.restarts > 0
    /\ syncLoad' = [syncLoad EXCEPT !.restarts = @ - 1]
    /\ online' = FALSE /\ refresh' = 0 /\ booting' = TRUE
    /\ push' = [p \in Pushers |-> NoPush]
    /\ hook' = [h \in HookSlots |-> NoHook]
    /\ UNCHANGED <<head, commits, gateway, tracking, syncHistory>>

SetupRecovers ==
    /\ booting /\ booting' = FALSE
    /\ Recover("boot")
    /\ UNCHANGED <<head, commits, gateway, tracking, online, refresh, hook>>

PushStep == \E p \in Pushers : Advertise(p) \/ Receive(p) \/ Track(p) \/ PushFails(p)

HookStep == \E h \in HookSlots :
    HookPushesBranch(h) \/ HookFindsNoBranch(h) \/ HookSkips(h) \/ HookPushesShortcut(h)

Recovery == TunnelUp \/ RecoverBehindGate \/ SetupRecovers

SyncNext ==
    \/ \E b \in Branches : MoveBranch(b) \/ DeleteBranch(b)
    \/ PushStep \/ HookStep \/ Recovery
    \/ TunnelDown \/ ContainerRestarts

\* Git commands end (they have low-speed limits); a broken tunnel is repaired
\* (TunnelServes of module Tunnel); the gate hands its permit on.
SyncFair == WF_syncVars(PushStep \/ HookStep) /\ WF_syncVars(Recovery)

SyncSpec == SyncInit /\ [][SyncNext]_syncVars /\ SyncFair

-----------------------------------------------------------------------------
(* Properties                                                                *)

\* What a push has in hand, by how far it is.
Values == UNION {[D -> Nat] : D \in SUBSET Refs}
PushTypes ==
    {NoPush} \union [at : {"local"}, want : Values]
    \union [at : {"sent"}, want : Values, old : Values]
    \union [at : {"done"}, want : Values, accepted : SUBSET Refs]

SyncTypeOK ==
    /\ commits \in Nat
    /\ head \in [Branches -> Nat] /\ gateway \in [Refs -> Nat] /\ tracking \in [Refs -> Nat]
    /\ push \in [Pushers -> PushTypes]
    /\ hook \in [HookSlots -> {NoHook} \union
                  [next : {"branch", "shortcut"}, branch : Branches, value : Nat,
                   made : BOOLEAN]]

NoPushRuns == \A p \in Pushers : ~InFlight(p)

Published(b) == gateway[b] = head[b] /\ (b = Primary => gateway[Shortcut] = head[b])

\* What needs_push's documentation says of its answer: when it is no, and no
\* push is under way, the gateway has the pod's current branches, whatever
\* pushes failed, half succeeded or lost their answer before.  It may be wrong
\* about a ref that two overlapping pushes wanted to move to different commits,
\* and about one whose branch was moved back to the commit of its tracking ref
\* (git reset, checkout -B) when the gateway had taken, or was about to take,
\* another commit and the pod had not heard of it, until a push of it succeeds.
NoNeedMeansPublished ==
    (NoPushRuns /\ ~NeedsPush) =>
        \A b \in Present :
            RefsOf(b) \intersect (raced \union rewound) = {} => Published(b)

\* The gateway has caught up: every branch of the pod is published, except where
\* needs_push may be wrong and where the last push failed with the tunnel up,
\* which nobody repeats before the next recovery.
GatewayCurrent ==
    \A b \in Present :
        RefsOf(b) \intersect (raced \union rewound \union unretried) = {} => Published(b)
=============================================================================
