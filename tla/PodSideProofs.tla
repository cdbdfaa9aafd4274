--------------------------- MODULE PodSideProofs ----------------------------
(***************************************************************************)
(* What goes on beside a pod: the daemon watches its host, and its server  *)
(* publishes branches and runs the lifecycle commands.  Each proof has an  *)
(* inductive invariant.                                                    *)
(*                                                                         *)
(* HostInv, for any requests and any load.  What EventsFollowStatus says   *)
(* when nobody holds the lock bring_up has to be known of every place      *)
(* where its holder may be:                                                *)
(*   Exclusion  one prober is past Enter, and it is the lock's holder;     *)
(*   Told       the watch channel is ahead of the events only between      *)
(*              set_status and its event;                                  *)
(*   Mirrors    the watch channel lags behind the cached client only       *)
(*              between the probe and its set_status.                      *)
(*                                                                         *)
(* SyncInv, for any branches and hook processes, any number of updates,    *)
(* outages, failures and restarts.  For a ref that no two pushes wanted to *)
(* move to different commits, and, where the tracking ref is said to be    *)
(* what the branch is, that is not rewound:                                *)
(*   Agree    the pushes under way want one value;                         *)
(*   Wanted   if the tracking ref says what the branch is, a push under    *)
(*            way wants nothing else;                                      *)
(*   Arrived  a push that was accepted and has not recorded it yet has its *)
(*            value on the gateway still;                                  *)
(*   Current  if the tracking ref says what the branch is, so does the     *)
(*            gateway.                                                     *)
(*                                                                         *)
(* SetupInv, for any number of restarts and failures:                      *)
(*   OneRunner    the set-up task runs commands in its last phase, and the *)
(*                background thread only after it;                         *)
(*   OrderKept    a command that is not yet to come was begun, or skipped  *)
(*                after a failure, before any later one;                   *)
(*   RunsCounted  a run that is neither marked nor under way was cut off;  *)
(*   FailureKept  a failure waits for a client, or was taken for one;      *)
(*   ReadyKnown   a client greeted as ready has a server whose set-up is   *)
(*                done, and whose error, if any, was taken before.         *)
(***************************************************************************)
EXTENDS GitSync, PodSetup, HostConnection, TLAPS


-----------------------------------------------------------------------------
(* HostConnection                                                            *)

Probed == {"found", "telling", "told"}
Inside == {"probing", "building"} \cup Probed

HostTypes ==
  /\ bringUp \in Probers \cup {Nobody}
  /\ made \in BOOLEAN
  /\ hostStatus \in {"connected", "disconnected"}
  /\ events \in Seq({"connected", "disconnected"})
  /\ lastHeard \in {"connected", "disconnected"}
  /\ kube \in {"none", "good", "stale"}
  /\ prober \in [Probers ->
       [pc : {"idle", "waiting", "queued", "probing", "building"}]
       \cup [pc : Probed, status : {"connected", "disconnected"}, next : {"over", "building"}]]

Exclusion ==
  /\ \A r \in Probers : prober[r].pc \in Inside <=> bringUp = r
  /\ ~made => prober[Monitor].pc = "idle"

Heard == IF events = <<>> THEN lastHeard ELSE events[Len(events)]

Told ==
  /\ (\A r \in Probers : prober[r].pc # "telling") => hostStatus = Heard
  /\ \A r \in Probers : prober[r].pc \in {"telling", "told"} =>
       hostStatus = prober[r].status

\* Of a cluster: the holder, if there is one, has published its last finding.
NoneProbed == \A r \in Probers : prober[r].pc \notin Probed

Mirrors ==
  hostKind = "kubernetes" =>
    /\ NoneProbed => ((hostStatus = "connected") <=> (kube # "none"))
    /\ \A r \in Probers : prober[r].pc \in Probed =>
         /\ (prober[r].status = "connected") <=> (kube # "none")
         /\ prober[r].next = "building" => kube = "none"
    /\ \A r \in Probers : prober[r].pc = "building" => kube = "none"

HostInv == HostTypes /\ Exclusion /\ Told /\ Mirrors

-----------------------------------------------------------------------------
(* The steps.                                                                *)

\* The last event sent is the one heard of when the reader is done.
LEMMA HeardLast ==
  ASSUME HostTypes
  PROVE  /\ Heard \in {"connected", "disconnected"}
         /\ HostEventReader => Heard' = Heard
         /\ \A s \in {"connected", "disconnected"} : events' = Append(events, s) => Heard' = s
BY SMTT(30) DEF HostTypes, Heard, HostEventReader

\* Every step keeps the types.
LEMMA HostTypesStep ==
  ASSUME HostTypes, HostNext
  PROVE  HostTypes'
<1> USE DEF HostTypes, Probers
<1>1. CASE HostChanges \/ ClientExpires \/ RequestProbe \/ HostEventReader
  BY <1>1 DEF HostChanges, ClientExpires, RequestProbe, HostEventReader, published
<1>2. CASE MonitorWakes
  BY <1>2, Zenon DEF MonitorWakes, To, published
<1>3. ASSUME NEW r \in Requests, GetOrCreate(r) PROVE HostTypes'
  BY <1>3, Zenon DEF GetOrCreate, MonitorStarts, published
<1>4. ASSUME NEW r \in Requests, Cancelled(r) PROVE HostTypes'
  BY <1>4, Zenon DEF Cancelled, To, published
<1>5. ASSUME NEW r \in Probers, Enter(r) PROVE HostTypes'
  BY <1>5, Zenon DEF Enter, To, published
<1>6. ASSUME NEW r \in Probers, PingEngine(r) \/ CheckClient(r) \/ BuildClient(r) PROVE HostTypes'
  BY <1>6 DEF PingEngine, CheckClient, BuildClient, Found, StatusOf, Probed, published
<1>7. ASSUME NEW r \in Probers, SetStatus(r) \/ SendEvent(r) PROVE HostTypes'
  <2>1. prober[r].pc \in Probed => prober[r].status \in {"connected", "disconnected"}
    BY Zenon DEF Probed
  <2>2. CASE SetStatus(r)
    BY <2>1, <2>2, SMTT(30) DEF SetStatus, Probed
  <2>3. CASE SendEvent(r)
    <3>1. UNCHANGED <<made, hostStatus, lastHeard, bringUp, kube>>
      BY <2>3, Zenon DEF SendEvent
    <3>2. events' \in Seq({"connected", "disconnected"})
      BY <2>1, <2>3 DEF SendEvent, Probed
    <3>3. prober' \in [Probers ->
            [pc : {"idle", "waiting", "queued", "probing", "building"}]
            \cup [pc : Probed, status : {"connected", "disconnected"}, next : {"over", "building"}]]
      BY <2>3 DEF SendEvent, Probed
    <3> QED
      BY <3>1, <3>2, <3>3, Zenon
  <2> QED
    BY <1>7, <2>2, <2>3, Zenon
<1>8. ASSUME NEW r \in Probers, Proceed(r) \/ WaitTimesOut(r) PROVE HostTypes'
  BY <1>8 DEF Proceed, WaitTimesOut, Resume, To, published
<1>9. ASSUME NEW r \in Probers, ProbeTimesOut(r) PROVE HostTypes'
  BY <1>9 DEF ProbeTimesOut, Found, StatusOf, Probed, published
<1> QED
  BY <1>1, <1>2, <1>3, <1>4, <1>5, <1>6, <1>7, <1>8, <1>9, Zenon DEF HostNext, ProbeStep

\* Every step keeps the rest of the invariant.
LEMMA HostInvStep ==
  ASSUME HostInv, HostNext
  PROVE  HostInv'
<1> USE DEF HostInv
<1>0. HostTypes'
  BY HostTypesStep, Zenon
<1>1. CASE HostChanges \/ ClientExpires \/ RequestProbe
  BY <1>0, <1>1 DEF HostChanges, ClientExpires, RequestProbe, published, HostTypes, Exclusion,
     Told, Heard, Mirrors, NoneProbed
<1>2. CASE HostEventReader
  BY <1>0, <1>2, HeardLast, Zenon DEF HostEventReader, Exclusion, Told, Mirrors, NoneProbed
<1>3. CASE MonitorWakes
  BY <1>0, <1>3, SMTT(30) DEF MonitorWakes, To, published, HostTypes, Probers, Inside, Probed,
     Exclusion, Told, Heard, Mirrors, NoneProbed
<1>4. ASSUME NEW r \in Requests, GetOrCreate(r) PROVE HostInv'
  BY <1>0, <1>4, SMTT(30) DEF GetOrCreate, MonitorStarts, published, HostTypes, Probers, Inside,
     Probed,
     Exclusion, Told, Heard, Mirrors, NoneProbed
<1>5. ASSUME NEW r \in Requests, Cancelled(r) PROVE HostInv'
  BY <1>0, <1>5, HostAssumption, SMTT(30) DEF Cancelled, To, published, HostTypes, Probers, Inside,
     Probed, Exclusion, Told, Heard, Mirrors, NoneProbed, Nobody, Monitor
<1>6. ASSUME NEW r \in Probers, Enter(r) PROVE HostInv'
  BY <1>0, <1>6, HostAssumption DEF Enter, To, published, HostTypes, Probers, Inside,
     Probed, Exclusion, Told, Heard, Mirrors, NoneProbed, Nobody, Monitor
<1>7. ASSUME NEW r \in Probers, PingEngine(r) PROVE HostInv'
  BY <1>0, <1>7, SMTT(30) DEF PingEngine, Found, StatusOf, published, HostTypes, Inside, Probed,
     Exclusion, Told, Heard, Mirrors, NoneProbed
<1>8. ASSUME NEW r \in Probers, CheckClient(r) PROVE HostInv'
  BY <1>0, <1>8, SMTT(30) DEF CheckClient, Found, StatusOf, published, HostTypes, Inside, Probed,
     Exclusion, Told, Heard, Mirrors, NoneProbed
<1>9. ASSUME NEW r \in Probers, BuildClient(r) PROVE HostInv'
  BY <1>0, <1>9 DEF BuildClient, Found, StatusOf, published, HostTypes, Inside, Probed,
     Exclusion, Told, Heard, Mirrors, NoneProbed
<1>10. ASSUME NEW r \in Probers, ProbeTimesOut(r) PROVE HostInv'
  <2>1. /\ \A q \in Probers \ {r} : prober'[q] = prober[q]
        /\ prober[r].pc \in {"probing", "building"}
        /\ prober'[r].pc = "found" /\ prober'[r].status = "disconnected"
        /\ UNCHANGED <<hostKind, made, published, bringUp>>
    BY <1>10 DEF ProbeTimesOut, Found, StatusOf, HostTypes
  <2>2. /\ hostKind = "kubernetes" => kube' = "none"
    BY <1>10, Zenon DEF ProbeTimesOut, Mirrors
  <2>3. Exclusion'
    BY <2>1, Zenon DEF Exclusion, Inside, Probed, Probers
  <2>4. Told'
    BY <2>1, Zenon DEF Told, Heard, published
  <2>5. Mirrors'
    <3>1. \A q \in Probers \ {r} : prober'[q].pc \notin Inside
      BY <2>1, Zenon DEF Exclusion, Inside
    <3> QED
      BY <2>1, <2>2, <3>1, Zenon DEF Mirrors, NoneProbed, Probed, Inside
  <2> QED
    BY <1>0, <2>3, <2>4, <2>5, Zenon
<1>11. ASSUME NEW r \in Probers, SetStatus(r) PROVE HostInv'
  BY <1>0, <1>11 DEF SetStatus, HostTypes, Inside, Probed,
     Exclusion, Told, Heard, Mirrors, NoneProbed
<1>12. ASSUME NEW r \in Probers, SendEvent(r) PROVE HostInv'
  BY <1>0, <1>12, HeardLast, SMTT(30) DEF SendEvent, HostTypes, Inside, Probed,
     Exclusion, Told, Mirrors, NoneProbed
<1>13. ASSUME NEW r \in Probers, Proceed(r) PROVE HostInv'
  BY <1>0, <1>13, HostAssumption, SMTT(30) DEF Proceed, Resume, To, published, HostTypes, Probers,
     Inside, Probed, Exclusion, Told, Heard, Mirrors, NoneProbed, Nobody, Monitor
<1>14. ASSUME NEW r \in Probers, WaitTimesOut(r) PROVE HostInv'
  BY <1>0, <1>14 DEF WaitTimesOut, Resume, To, published, HostTypes, Inside,
     Probed, Exclusion, Told, Heard, Mirrors, NoneProbed
<1> QED
  BY <1>1, <1>2, <1>3, <1>4, <1>5, <1>6, <1>7, <1>8, <1>9, <1>10, <1>11, <1>12, <1>13, <1>14, Zenon
  DEF HostNext, ProbeStep

\* HostInv holds throughout.
THEOREM HostInvariant == HostSpec => []HostInv
<1>1. HostInit => HostInv
  <2> SUFFICES ASSUME HostInit PROVE HostInv
    BY Zenon
  <2>1. HostTypes
    <3>1. [pc |-> "idle"] \in [pc : {"idle", "waiting", "queued", "probing", "building"}]
      BY Zenon
    <3>2. made \in BOOLEAN
      BY Zenon DEF HostInit
    <3>3. events \in Seq({"connected", "disconnected"})
      BY DEF HostInit
    <3> QED
      BY <3>1, <3>2, <3>3, Zenon DEF HostInit, HostTypes
  <2>2. Exclusion
    BY HostAssumption, Zenon DEF HostInit, Exclusion, Probers, Inside, Probed, Nobody, Monitor
  <2>3. Told /\ Mirrors
    BY Zenon DEF HostInit, Told, Heard, Mirrors, NoneProbed, Probed
  <2> QED
    BY <2>1, <2>2, <2>3, Zenon DEF HostInv
<1>2. HostInv /\ UNCHANGED hostConnVars => HostInv'
  BY DEF hostConnVars, published, HostInv, HostTypes, Exclusion, Told, Heard, Mirrors, NoneProbed
<1> QED
  BY <1>1, <1>2, HostInvStep, PTL DEF HostSpec

\* Whenever no probe holds bring_up, the daemon's reader has heard or will hear
\* last what the watch channel says, and a cluster is connected exactly when it
\* has a cached client: for any number of requests, probes, delays and changes
\* of the host (set_status, ensure_connected_async, ensure_client_async).
THEOREM HostEventsFollowStatus == HostSpec => []EventsFollowStatus
<1>1. HostInv => EventsFollowStatus
  BY HostAssumption DEF HostInv, HostTypes, Exclusion, Told, Heard, Mirrors, NoneProbed, Inside,
     Probed, EventsFollowStatus, Probers, Monitor, Nobody
<1> QED
  BY <1>1, HostInvariant, PTL

-----------------------------------------------------------------------------
(* GitSync                                                                   *)

\* Push p is to move ref r, about which pushes never disagreed.
Moves(p, r) == InFlight(p) /\ r \in DOMAIN push[p].want /\ r \notin raced

\* The branch of ref r is what the tracking ref says, and did not return to it
\* behind a push's back.
Tracked(r) ==
    r \notin rewound /\ head[BranchOf(r)] # None /\ tracking[r] = head[BranchOf(r)]

Agree == \A p, q \in Pushers, r \in Refs :
    Moves(p, r) /\ Moves(q, r) => push[p].want[r] = push[q].want[r]

Wanted == \A p \in Pushers, r \in Refs :
    Moves(p, r) /\ Tracked(r) => push[p].want[r] = head[BranchOf(r)]

Arrived == \A p \in Pushers, r \in Refs :
    Moves(p, r) /\ push[p].at = "done" /\ r \in push[p].accepted =>
        gateway[r] = push[p].want[r]

AcceptedWanted == \A p \in Pushers :
    push[p].at = "done" => push[p].accepted \subseteq DOMAIN push[p].want

Current == \A r \in Refs \ raced : Tracked(r) => gateway[r] = head[BranchOf(r)]

PushInv == Agree /\ Wanted /\ Arrived /\ AcceptedWanted

SyncInv == SyncTypeOK /\ PushInv /\ Current

-----------------------------------------------------------------------------
(* Facts about refs and pushes.                                              *)

\* A ref belongs to a branch.
LEMMA BranchOfRef ==
    /\ \A r \in Refs : BranchOf(r) \in Branches
    /\ \A b \in Branches : b \in Refs /\ BranchOf(b) = b
    /\ Shortcut \in Refs /\ BranchOf(Shortcut) = Primary
BY SyncAssumption, Zenon DEF Refs, BranchOf

\* The shape of a push tells how far it is.
LEMMA PushShape ==
    ASSUME SyncTypeOK, NEW p \in Pushers
    PROVE  /\ push[p].at \in {"none", "local", "sent", "done"}
           /\ InFlight(p) => push[p].want \in Values
           /\ push[p].at = "done" => push[p].accepted \subseteq Refs
<1>1. push[p] \in PushTypes
  BY Zenon DEF SyncTypeOK
<1> QED
  BY <1>1 DEF PushTypes, NoPush, InFlight

\* What a push wants is a number for each of its refs.
LEMMA WantedValues ==
    ASSUME NEW v \in Values
    PROVE  DOMAIN v \subseteq Refs /\ \A r \in DOMAIN v : v[r] \in Nat
BY Zenon DEF Values

\* Starting a push keeps the types.
LEMMA StartType ==
    ASSUME SyncTypeOK, NEW p \in Pushers, NEW D \in SUBSET Refs, NEW v \in [D -> Nat], Start(p, v)
    PROVE  push' \in [Pushers -> PushTypes]
<1>1. [at |-> "local", want |-> v] \in PushTypes
  BY Zenon DEF PushTypes, Values
<1> QED
  BY <1>1, Zenon DEF Start, SyncTypeOK

\* What recovery pushes.
LEMMA AllHeadsType ==
    ASSUME SyncTypeOK
    PROVE  /\ Present \union {Shortcut} \in SUBSET Refs
           /\ AllHeads \in [Present \union {Shortcut} -> Nat]
           /\ \A r \in Present \union {Shortcut} : AllHeads[r] = head[BranchOf(r)]
BY SyncAssumption, Zenon DEF SyncTypeOK, Present, AllHeads, Refs, BranchOf

-----------------------------------------------------------------------------
(* The types.                                                                *)

\* Every step keeps the types.
LEMMA SyncTypeStep ==
    ASSUME SyncTypeOK, AcceptedWanted, SyncNext
    PROVE  SyncTypeOK'
<1> USE SyncTypeOK
<1>1. ASSUME NEW p \in Pushers, Advertise(p)
      PROVE  SyncTypeOK'
  <2>1. push[p].want \in Values /\ [r \in DOMAIN push[p].want |-> gateway[r]] \in Values
    BY <1>1, PushShape, WantedValues DEF Advertise, InFlight, SyncTypeOK, Values
  <2> QED
    BY <1>1, <2>1, Zenon DEF Advertise, SyncTypeOK, PushTypes
<1>2. ASSUME NEW p \in Pushers, Receive(p)
      PROVE  SyncTypeOK'
  <2>1. push[p].want \in Values /\ Accepted(p) \subseteq DOMAIN push[p].want
    BY <1>2, PushShape, Zenon DEF Receive, InFlight, Accepted
  <2>2. /\ Accepted(p) \in SUBSET Refs
        /\ \A r \in Accepted(p) : push[p].want[r] \in Nat
    BY <2>1, WantedValues, Zenon
  <2>3. gateway' \in [Refs -> Nat]
    BY <1>2, <2>2, Zenon DEF Receive, SyncTypeOK
  <2> QED
    BY <1>2, <2>1, <2>2, <2>3, Zenon DEF Receive, SyncTypeOK, PushTypes
<1>3. ASSUME NEW p \in Pushers, Track(p)
      PROVE  SyncTypeOK'
  <2>1. \A r \in push[p].accepted : push[p].want[r] \in Nat
    BY <1>3, PushShape, WantedValues, Zenon DEF Track, InFlight, AcceptedWanted
  <2>2. tracking' \in [Refs -> Nat]
    BY <1>3, <2>1, Zenon DEF Track, SyncTypeOK
  <2> QED
    BY <1>3, <2>2, Zenon DEF Track, SyncTypeOK, PushTypes
<1>4. ASSUME NEW p \in Pushers, PushFails(p)
      PROVE  SyncTypeOK'
  BY <1>4, Zenon DEF PushFails, SyncTypeOK, PushTypes
<1>5. ASSUME NEW b \in Branches, NEW v \in Nat, UpdateBranch(b, v)
      PROVE  /\ head' \in [Branches -> Nat]
             /\ hook' \in [HookSlots -> {NoHook} \union
                   [next : {"branch", "shortcut"}, branch : Branches, value : Nat,
                    made : BOOLEAN]]
  BY <1>5, Zenon DEF UpdateBranch, SyncTypeOK
<1>6. ASSUME NEW b \in Branches, MoveBranch(b)
      PROVE  SyncTypeOK'
  <2>1. PICK v \in 1..(commits + 1) :
          commits' = (IF v > commits THEN v ELSE commits) /\ UpdateBranch(b, v)
    BY <1>6, Zenon DEF MoveBranch
  <2>2. v \in Nat /\ commits' \in Nat  BY <2>1 DEF SyncTypeOK
  <2>3. UNCHANGED <<gateway, tracking, push>>  BY <2>1, Zenon DEF UpdateBranch
  <2> QED BY <1>5, <2>1, <2>2, <2>3, Zenon DEF SyncTypeOK
<1>7. ASSUME NEW b \in Branches, DeleteBranch(b)
      PROVE  SyncTypeOK'
  BY <1>5, <1>7, Zenon DEF DeleteBranch, UpdateBranch, SyncTypeOK, None
<1>8. ASSUME NEW h \in HookSlots, hook[h] # NoHook
      PROVE  /\ hook[h].branch \in Branches /\ hook[h].value \in Nat
             /\ After(h) \in [HookSlots -> {NoHook} \union
                   [next : {"branch", "shortcut"}, branch : Branches, value : Nat,
                    made : BOOLEAN]]
  BY <1>8, Zenon DEF After, SyncTypeOK
<1>9. \A h \in HookSlots : hook[h].next # "none" => hook[h] # NoHook
  BY DEF NoHook
<1>10. ASSUME NEW h \in HookSlots, HookPushesBranch(h)
       PROVE  SyncTypeOK'
  <2>1. /\ hook[h] # NoHook /\ h \in Pushers
    BY <1>10, <1>9, Zenon DEF HookPushesBranch, Pushers
  <2>2. [r \in {hook[h].branch} |-> head[r]] \in [{hook[h].branch} -> Nat]
    BY <1>8, <2>1, Zenon DEF SyncTypeOK
  <2>3. /\ {hook[h].branch} \in SUBSET Refs
        /\ Start(h, [r \in {hook[h].branch} |-> head[r]])
    BY <1>8, <1>10, <2>1, BranchOfRef, Zenon DEF HookPushesBranch
  <2>4. push' \in [Pushers -> PushTypes]
    BY <2>1, <2>2, <2>3, StartType, Zenon
  <2> QED
    BY <1>8, <1>10, <2>1, <2>4, Zenon DEF HookPushesBranch, SyncTypeOK
<1>11. ASSUME NEW h \in HookSlots, HookFindsNoBranch(h)
       PROVE  SyncTypeOK'
  BY <1>8, <1>9, <1>11, Zenon DEF HookFindsNoBranch, SyncTypeOK
<1>17. ASSUME NEW h \in HookSlots, HookSkips(h)
       PROVE  SyncTypeOK'
  BY <1>17, Zenon DEF HookSkips, SyncTypeOK
<1>12. ASSUME NEW h \in HookSlots, HookPushesShortcut(h)
       PROVE  SyncTypeOK'
  <2>1. hook[h] # NoHook /\ h \in Pushers
    BY <1>12, <1>9, Zenon DEF HookPushesShortcut, Pushers
  <2>2. [r \in {Shortcut} |-> hook[h].value] \in [{Shortcut} -> Nat]
    BY <1>8, <2>1, Zenon
  <2>3. push' \in [Pushers -> PushTypes]
    BY <1>12, <2>1, <2>2, StartType, BranchOfRef DEF HookPushesShortcut
  <2> QED
    BY <1>12, <2>3, Zenon DEF HookPushesShortcut, SyncTypeOK
<1>13. ASSUME NEW p \in Pushers, Recover(p)
       PROVE  push' \in [Pushers -> PushTypes]
  <2>1. CASE Start(p, AllHeads)
    BY <2>1, StartType, AllHeadsType, Zenon
  <2>2. CASE UNCHANGED push
    BY <2>2, Zenon DEF SyncTypeOK
  <2> QED
    BY <1>13, <2>1, <2>2, Zenon DEF Recover
<1>14. CASE RecoverBehindGate \/ SetupRecovers
  <2>1. "gate" \in Pushers /\ "boot" \in Pushers
    BY Zenon DEF Pushers, Recoveries
  <2>2. push' \in [Pushers -> PushTypes]
    BY <1>13, <1>14, <2>1, Zenon DEF RecoverBehindGate, SetupRecovers
  <2> QED
    BY <1>14, <2>2, Zenon DEF RecoverBehindGate, SetupRecovers, SyncTypeOK
<1>15. CASE TunnelUp \/ TunnelDown
  BY <1>15, Zenon DEF TunnelUp, TunnelDown, SyncTypeOK
<1>16. CASE ContainerRestarts
  BY <1>16, Zenon DEF ContainerRestarts, SyncTypeOK, PushTypes
<1> QED
  BY <1>1, <1>2, <1>3, <1>4, <1>6, <1>7, <1>10, <1>11, <1>12, <1>14, <1>15, <1>16, <1>17, Zenon
  DEF SyncNext, PushStep, HookStep, Recovery

-----------------------------------------------------------------------------
(* The pushes.                                                               *)

\* A push that starts wants what its branches are, and what the pushes under
\* way want, except for the refs that become raced.
LEMMA StartKeeps ==
    ASSUME SyncInv, NEW p \in Pushers, NEW D \in SUBSET Refs, NEW v \in [D -> Nat], Start(p, v),
           UNCHANGED <<head, gateway, tracking>>
    PROVE  PushInv' /\ Current'
<1> USE DEF SyncInv, PushInv
<1>1. /\ raced \subseteq raced' /\ push'[p] = [at |-> "local", want |-> v]
      /\ \A q \in Pushers \ {p} : push'[q] = push[q]
  BY Zenon DEF Start, SyncTypeOK
<1>2. \A q \in Pushers \ {p}, r \in Refs : Moves(q, r)' => Moves(q, r)
  BY <1>1, Zenon DEF Moves, InFlight
<1>3. ASSUME NEW r \in Refs, Moves(p, r)'
      PROVE  /\ r \in D /\ v[r] = head[BranchOf(r)]
             /\ \A q \in Pushers \ {p} : Moves(q, r) => push[q].want[r] = v[r]
  <2>1. r \in D /\ r \notin raced'
    BY <1>1, <1>3 DEF Moves
  <2> QED
    BY <2>1, Zenon DEF Start, Moves
<1>4. \A r \in Refs : Tracked(r)' = Tracked(r)
  BY Zenon DEF Tracked, BranchOf, Start
<1>5. Agree'
  <2> SUFFICES ASSUME NEW q \in Pushers, NEW q2 \in Pushers, NEW r \in Refs,
                      Moves(q, r)', Moves(q2, r)'
               PROVE  push'[q].want[r] = push'[q2].want[r]
    BY DEF Agree
  <2>1. CASE q # p /\ q2 # p
    BY <1>1, <1>2, <2>1 DEF Agree
  <2>2. CASE q = p \/ q2 = p
    BY <1>1, <1>2, <1>3, <2>2
  <2> QED
    BY <2>1, <2>2, Zenon
<1>6. Wanted'
  <2> SUFFICES ASSUME NEW q \in Pushers, NEW r \in Refs, Moves(q, r)', Tracked(r)'
               PROVE  push'[q].want[r] = head'[BranchOf(r)]
    BY Zenon DEF Wanted, BranchOf
  <2>1. CASE q # p
    BY <1>1, <1>2, <1>4, <2>1 DEF Wanted
  <2>2. CASE q = p
    BY <1>1, <1>3, <2>2
  <2> QED
    BY <2>1, <2>2, Zenon
<1>7. Arrived' /\ AcceptedWanted'
  BY <1>1, <1>2 DEF Arrived, AcceptedWanted
<1>8. Current'
  BY <1>1, <1>4, Zenon DEF Current, BranchOf
<1> QED
  BY <1>5, <1>6, <1>7, <1>8, Zenon

\* Pushes that go on with what they want, or end without a trace.
LEMMA GoOnKeeps ==
    ASSUME SyncInv,
           \A q \in Pushers : \/ ~InFlight(q)'
                              \/ InFlight(q) /\ push'[q].want = push[q].want
                                 /\ (push'[q].at = "done" => push'[q] = push[q]),
           UNCHANGED <<head, gateway, tracking, raced, rewound>>
    PROVE  PushInv' /\ Current'
<1> USE DEF SyncInv, PushInv
<1>1. \A q \in Pushers, r \in Refs :
        Moves(q, r)' => Moves(q, r) /\ push'[q].want = push[q].want
  BY Zenon DEF Moves
<1>2. \A r \in Refs : Tracked(r)' = Tracked(r)
  BY Zenon DEF Tracked, BranchOf
<1>3. Agree'
  BY <1>1 DEF Agree
<1>4. Wanted'
  BY <1>1, <1>2 DEF Wanted, BranchOf
<1>5. \A q \in Pushers : push'[q].at = "done" => push'[q] = push[q]
  BY Zenon DEF InFlight
<1>6. Arrived' /\ AcceptedWanted'
  BY <1>1, <1>5 DEF Arrived, AcceptedWanted
<1>7. Current'
  BY <1>2, Zenon DEF Current, BranchOf
<1> QED
  BY <1>3, <1>4, <1>6, <1>7, Zenon

\* A push that arrives brings every ref what the others want for it, too, and
\* what its branch is, if that is tracked.
LEMMA ReceiveKeeps ==
    ASSUME SyncInv, NEW p \in Pushers, Receive(p)
    PROVE  PushInv' /\ Current'
<1> USE DEF SyncInv, PushInv
<1>1. /\ push'[p] = [at |-> "done", want |-> push[p].want, accepted |-> Accepted(p)]
      /\ InFlight(p) /\ \A q \in Pushers \ {p} : push'[q] = push[q]
  BY Zenon DEF Receive, SyncTypeOK, InFlight
<1>2. \A q \in Pushers, r \in Refs :
        Moves(q, r)' => Moves(q, r) /\ push'[q].want = push[q].want
  BY <1>1 DEF Moves, InFlight, Receive, syncHistory
<1>3. \A r \in Refs : Tracked(r)' = Tracked(r)
  BY Zenon DEF Tracked, BranchOf, Receive, syncHistory
<1>4. \A r \in Refs : gateway'[r] # gateway[r] => r \in Accepted(p)
  BY Zenon DEF Receive, SyncTypeOK
<1>5. \A r \in Accepted(p) : r \in DOMAIN push[p].want
  BY Zenon DEF Accepted
<1>6. \A r \in Refs : r \in Accepted(p) => gateway'[r] = push[p].want[r]
  BY Zenon DEF Receive, SyncTypeOK
<1>7. Agree'
  BY <1>2 DEF Agree
<1>8. Wanted'
  BY <1>2, <1>3 DEF Wanted, BranchOf, Receive
<1>9. Arrived'
  <2> SUFFICES ASSUME NEW q \in Pushers, NEW r \in Refs, Moves(q, r)', push'[q].at = "done",
                      r \in push'[q].accepted
               PROVE  gateway'[r] = push'[q].want[r]
    BY Zenon DEF Arrived
  <2>1. CASE r \in Accepted(p)
    <3>1. Moves(p, r) /\ Moves(q, r) /\ push'[q].want = push[q].want
      BY <1>1, <1>2, <1>5, <2>1, Zenon DEF Moves
    <3> QED
      BY <1>6, <2>1, <3>1 DEF Agree
  <2>2. CASE r \notin Accepted(p)
    BY <1>1, <1>2, <1>4, <2>2 DEF Arrived
  <2> QED
    BY <2>1, <2>2, Zenon
<1>10. AcceptedWanted'
  BY <1>1, <1>5 DEF AcceptedWanted
<1>11. Current'
  <2> SUFFICES ASSUME NEW r \in Refs \ raced, Tracked(r)
               PROVE  gateway'[r] = head[BranchOf(r)]
    BY <1>3, Zenon DEF Current, BranchOf, Receive, syncHistory
  <2>1. CASE r \in Accepted(p)
    BY <1>1, <1>5, <1>6, <2>1, Zenon DEF Wanted, Moves
  <2>2. CASE r \notin Accepted(p)
    BY <1>4, <2>2, Zenon DEF Current
  <2> QED
    BY <2>1, <2>2, Zenon
<1> QED
  BY <1>7, <1>8, <1>9, <1>10, <1>11, Zenon

\* What a push records is on the gateway, and is what the others want.
LEMMA TrackKeeps ==
    ASSUME SyncInv, NEW p \in Pushers, Track(p)
    PROVE  PushInv' /\ Current'
<1> USE DEF SyncInv, PushInv
<1>1. /\ ~InFlight(p)' /\ InFlight(p) /\ \A q \in Pushers \ {p} : push'[q] = push[q]
  BY Zenon DEF Track, SyncTypeOK, InFlight, NoPush
<1>2. \A q \in Pushers, r \in Refs :
        Moves(q, r)' => q # p /\ Moves(q, r) /\ push'[q] = push[q]
  BY <1>1, Zenon DEF Moves, InFlight, Track
<1>3. \A r \in Refs : tracking'[r] # tracking[r] => r \in push[p].accepted
  BY Zenon DEF Track, SyncTypeOK
<1>4. ASSUME NEW r \in Refs \ raced, r \in push[p].accepted
      PROVE  /\ Moves(p, r) /\ tracking'[r] = push[p].want[r]
             /\ gateway[r] = push[p].want[r]
  BY <1>1, <1>4, Zenon DEF Track, SyncTypeOK, Moves, Arrived, AcceptedWanted
<1>5. Agree'
  BY <1>2 DEF Agree
<1>6. Wanted'
  <2> SUFFICES ASSUME NEW q \in Pushers, NEW r \in Refs, Moves(q, r)', Tracked(r)'
               PROVE  push[q].want[r] = head[BranchOf(r)]
    BY <1>2 DEF Wanted, BranchOf, Track
  <2>0. Moves(q, r) /\ r \in Refs \ raced
    BY <1>2, Zenon DEF Moves
  <2>1. CASE r \in push[p].accepted
    <3>1. tracking'[r] = push[q].want[r]
      BY <1>4, <2>0, <2>1, Zenon DEF Agree
    <3> QED
      BY <3>1, Zenon DEF Tracked, BranchOf, Track
  <2>2. CASE r \notin push[p].accepted
    BY <1>3, <2>0, <2>2, Zenon DEF Wanted, Tracked, BranchOf, Track
  <2> QED
    BY <2>1, <2>2, Zenon
<1>7. Arrived'
  BY <1>2 DEF Arrived, Track
<1>8. AcceptedWanted'
  BY <1>1, Zenon DEF AcceptedWanted, InFlight
<1>9. Current'
  <2> SUFFICES ASSUME NEW r \in Refs \ raced, Tracked(r)'
               PROVE  gateway[r] = head[BranchOf(r)]
    BY Zenon DEF Current, BranchOf, Track
  <2>1. CASE r \in push[p].accepted
    BY <1>4, <2>1, Zenon DEF Tracked, BranchOf, Track
  <2>2. CASE r \notin push[p].accepted
    BY <1>3, <2>2, Zenon DEF Current, Tracked, BranchOf, Track
  <2> QED
    BY <2>1, <2>2, Zenon
<1> QED
  BY <1>5, <1>6, <1>7, <1>8, <1>9, Zenon

\* A branch that moves to what its tracking ref says finds that on the gateway,
\* with no push under way that wants another value, or its ref is rewound.
LEMMA UpdateKeeps ==
    ASSUME SyncInv, NEW b \in Branches, NEW v \in Nat, UpdateBranch(b, v)
    PROVE  PushInv' /\ Current'
<1> USE DEF SyncInv, PushInv
<1>1. UNCHANGED <<gateway, tracking, push, raced>>
  BY Zenon DEF UpdateBranch
<1>2. head'[b] = v /\ \A c \in Branches \ {b} : head'[c] = head[c]
  BY Zenon DEF UpdateBranch, SyncTypeOK
<1>3. \A q \in Pushers, r \in Refs : Moves(q, r)' = Moves(q, r)
  BY <1>1, Zenon DEF Moves, InFlight
<1>4. Agree' /\ Arrived' /\ AcceptedWanted'
  BY <1>1, <1>3, ZenonT(60) DEF Agree, Arrived, AcceptedWanted
<1>5. ASSUME NEW r \in Refs, Tracked(r)', r \notin raced
      PROVE  /\ gateway[r] = head'[BranchOf(r)]
             /\ \A q \in Pushers : Moves(q, r) => push[q].want[r] = head'[BranchOf(r)]
  <2>1. /\ r \notin rewound' /\ head'[BranchOf(r)] # None
        /\ tracking[r] = head'[BranchOf(r)] /\ BranchOf(r) \in Branches
    BY <1>1, <1>5, BranchOfRef, Zenon DEF Tracked, BranchOf
  <2>2. r \notin rewound /\ (r \in RefsOf(b) => ~LooksPublished(r, v))
    BY <2>1, Zenon DEF UpdateBranch
  <2>3. CASE BranchOf(r) = b
    <3>1. r \in RefsOf(b)  BY <2>3, Zenon DEF BranchOf, RefsOf
    <3> QED BY <1>2, <2>1, <2>2, <2>3, <3>1, Zenon DEF LooksPublished, Moves
  <2>4. CASE BranchOf(r) # b
    <3>1. head'[BranchOf(r)] = head[BranchOf(r)]  BY <1>2, <2>1, <2>4, Zenon
    <3>2. Tracked(r)  BY <2>1, <2>2, <3>1, Zenon DEF Tracked
    <3> QED BY <1>5, <3>1, <3>2, Zenon DEF Wanted, Current
  <2> QED BY <2>3, <2>4, Zenon
<1>6. Wanted'
  BY <1>1, <1>3, <1>5, Zenon DEF Wanted, BranchOf, Moves
<1>7. Current'
  BY <1>1, <1>5, Zenon DEF Current, BranchOf
<1> QED
  BY <1>4, <1>6, <1>7, Zenon

-----------------------------------------------------------------------------
(* The steps.                                                                *)

\* The steps of a push keep the invariant.
LEMMA PushStepKeeps ==
    ASSUME SyncInv, SyncTypeOK', NEW p \in Pushers,
           Advertise(p) \/ Receive(p) \/ Track(p) \/ PushFails(p)
    PROVE  SyncInv'
<1> USE DEF SyncInv
<1>1. CASE Advertise(p)
  <2>1. /\ InFlight(p) /\ push'[p].at = "sent" /\ push'[p].want = push[p].want
        /\ \A q \in Pushers \ {p} : push'[q] = push[q]
    BY <1>1, Zenon DEF Advertise, SyncTypeOK, InFlight
  <2> QED
    BY <1>1, <2>1, GoOnKeeps, Zenon DEF Advertise, InFlight, syncHistory
<1>2. CASE Receive(p)
  BY <1>2, ReceiveKeeps, Zenon
<1>3. CASE Track(p)
  BY <1>3, TrackKeeps, Zenon
<1>4. CASE PushFails(p)
  <2>1. ~InFlight(p)' /\ \A q \in Pushers \ {p} : push'[q] = push[q]
    BY <1>4, Zenon DEF PushFails, SyncTypeOK, InFlight, NoPush
  <2> QED
    BY <1>4, <2>1, GoOnKeeps, Zenon DEF PushFails, InFlight
<1> QED
  BY <1>1, <1>2, <1>3, <1>4, Zenon

\* The steps of a hook keep the invariant.
LEMMA HookStepKeeps ==
    ASSUME SyncInv, SyncTypeOK', NEW h \in HookSlots,
           HookPushesBranch(h) \/ HookFindsNoBranch(h) \/ HookSkips(h) \/ HookPushesShortcut(h)
    PROVE  SyncInv'
<1> USE DEF SyncInv
<1>1. /\ h \in Pushers /\ hook[h] # NoHook
      /\ hook[h].branch \in Branches /\ hook[h].value \in Nat
  BY DEF HookPushesBranch, HookFindsNoBranch, HookSkips, HookPushesShortcut, Pushers, NoHook,
         SyncTypeOK
<1>2. CASE HookPushesBranch(h)
  <2> DEFINE v == [r \in {hook[h].branch} |-> head[r]]
  <2>1. v \in [{hook[h].branch} -> Nat] /\ {hook[h].branch} \in SUBSET Refs
    BY <1>1, BranchOfRef, Zenon DEF SyncTypeOK
  <2>2. Start(h, v) /\ UNCHANGED <<head, gateway, tracking>>
    BY <1>2, Zenon DEF HookPushesBranch
  <2> HIDE DEF v
  <2> QED
    BY <1>1, <2>1, <2>2, StartKeeps, Zenon
<1>3. CASE HookFindsNoBranch(h) \/ HookSkips(h)
  BY <1>3, GoOnKeeps, Zenon DEF HookFindsNoBranch, HookSkips, InFlight, syncHistory
<1>4. CASE HookPushesShortcut(h)
  <2> DEFINE v == [r \in {Shortcut} |-> hook[h].value]
  <2>1. v \in [{Shortcut} -> Nat] /\ {Shortcut} \in SUBSET Refs
    BY <1>1, BranchOfRef, Zenon
  <2>2. Start(h, v) /\ UNCHANGED <<head, gateway, tracking>>
    BY <1>4, Zenon DEF HookPushesShortcut
  <2> HIDE DEF v
  <2> QED
    BY <1>1, <2>1, <2>2, StartKeeps, Zenon
<1> QED
  BY <1>2, <1>3, <1>4, Zenon

\* Recovery keeps the invariant.
LEMMA RecoverKeeps ==
    ASSUME SyncInv, SyncTypeOK', NEW p \in Pushers, Recover(p),
           UNCHANGED <<head, gateway, tracking>>
    PROVE  SyncInv'
<1>1. CASE Start(p, AllHeads)
  BY <1>1, AllHeadsType, StartKeeps, Zenon DEF SyncInv
<1>2. CASE UNCHANGED <<push, raced, rewound>>
  BY <1>2, GoOnKeeps, Zenon DEF SyncInv, InFlight
<1> QED
  BY <1>1, <1>2, Zenon DEF Recover, syncHistory

\* Every step keeps the invariant.
LEMMA SyncStepKeeps ==
    ASSUME SyncInv, SyncNext
    PROVE  SyncInv'
<1>1. SyncTypeOK'
  BY SyncTypeStep, Zenon DEF SyncInv, PushInv
<1>2. ASSUME NEW b \in Branches, MoveBranch(b) \/ DeleteBranch(b)
      PROVE  SyncInv'
  <2>1. \A v \in 1..(commits + 1) : v \in Nat  BY DEF SyncInv, SyncTypeOK
  <2>2. None \in Nat  BY DEF None
  <2>3. \E v \in Nat : UpdateBranch(b, v)
    BY <1>2, <2>1, <2>2, Zenon DEF MoveBranch, DeleteBranch
  <2> QED
    BY <1>1, <2>3, UpdateKeeps, Zenon DEF SyncInv
<1>3. CASE RecoverBehindGate \/ SetupRecovers
  BY <1>1, <1>3, RecoverKeeps, Zenon DEF RecoverBehindGate, SetupRecovers, Pushers, Recoveries
<1>4. CASE TunnelUp \/ TunnelDown
  <2>1. UNCHANGED <<head, gateway, tracking, push, raced, rewound>>
    BY <1>4, Zenon DEF TunnelUp, TunnelDown, syncHistory
  <2> QED
    BY <1>1, <2>1, GoOnKeeps, Zenon DEF SyncInv, InFlight
<1>5. CASE ContainerRestarts
  <2>1. /\ \A p \in Pushers : ~InFlight(p)'
        /\ UNCHANGED <<head, gateway, tracking, raced, rewound>>
    BY <1>5, Zenon DEF ContainerRestarts, InFlight, NoPush, syncHistory
  <2> QED
    BY <1>1, <2>1, GoOnKeeps, Zenon DEF SyncInv
<1> QED
  BY <1>1, <1>2, <1>3, <1>4, <1>5, PushStepKeeps, HookStepKeeps, Zenon
  DEF SyncNext, PushStep, HookStep, Recovery

\* SyncInv holds throughout.
THEOREM SyncInvariant == SyncSpec => []SyncInv
<1>1. SyncInit => SyncInv
  <2> SUFFICES ASSUME SyncInit PROVE SyncInv
    BY Zenon
  <2>1. SyncTypeOK
    BY SyncAssumption, Zenon DEF SyncInit, SyncTypeOK, PushTypes, None
  <2>2. \A p \in Pushers : push[p] = NoPush /\ ~InFlight(p)
    BY Zenon DEF SyncInit, InFlight, NoPush
  <2>3. PushInv
    BY <2>2 DEF PushInv, Agree, Wanted, Arrived, AcceptedWanted, Moves, NoPush
  <2>5. Current
    BY BranchOfRef, SyncAssumption, Zenon DEF SyncInit, Current, Tracked, None, BranchOf, Refs
  <2> QED
    BY <2>1, <2>3, <2>5, Zenon DEF SyncInv
<1>2. SyncInv /\ [SyncNext]_syncVars => SyncInv'
  <2> SUFFICES ASSUME SyncInv, UNCHANGED syncVars PROVE SyncInv'
    BY SyncStepKeeps, Zenon
  <2>1. SyncTypeOK'
    BY Zenon DEF syncVars, SyncInv, SyncTypeOK, PushTypes, Values
  <2> QED
    BY <2>1, GoOnKeeps, Zenon DEF syncVars, SyncInv, InFlight
<1> QED
  BY <1>1, <1>2, PTL DEF SyncSpec

\* needs_push is right: when it says no and no push is under way, the gateway
\* has every branch of the pod for which pushes did not race and which did not
\* return to its tracked commit behind a push's back, for any number of hooks,
\* resets, outages, lost answers, failures and restarts.
THEOREM SyncNoNeedMeansPublished == SyncSpec => []NoNeedMeansPublished
<1>1. SyncInv => NoNeedMeansPublished
  <2> SUFFICES ASSUME SyncInv, ~NeedsPush, NEW b \in Present,
                      RefsOf(b) \intersect (raced \union rewound) = {}
               PROVE  Published(b)
    BY Zenon DEF NoNeedMeansPublished
  <2>1. /\ b \in Branches /\ head[b] # None /\ tracking[b] = head[b]
        /\ b = Primary => tracking[Shortcut] = head[b]
    BY Zenon DEF NeedsPush, Present
  <2> QED
    BY <2>1, BranchOfRef, Zenon DEF SyncInv, Current, Tracked, Published, RefsOf
<1> QED
  BY <1>1, SyncInvariant, PTL

-----------------------------------------------------------------------------
(* PodSetup                                                                  *)

\* A command that was begun or passed over does not hold up a later one.
Passed(c) == begun[c] > 0 \/ c \in skipped

SetupTypeOK ==
    /\ plan \in [has : SUBSET Commands, waitFor : 0..5]
    /\ setup \in {"env", "git", "commands", "over"}
    /\ todo \subseteq plan.has /\ background \subseteq plan.has /\ plan.has \subseteq Commands
    /\ doing \in Commands \union {0}
    /\ flags \subseteq {OnCreate, PostCreate}
    /\ begun \in [Commands -> Nat] /\ cut \in [Commands -> Nat]

\* Who may run what: the task runs commands only in its last phase, and the
\* thread gets its commands when the task is through with them.
OneRunner ==
    /\ ~served => setup = "over" /\ background = {}
    /\ todo # {} \/ doing # 0 => setup = "commands"
    /\ background # {} => setup = "over"
    /\ setup \in {"env", "git"} => ~postStartRan

\* Every configured command that is not yet to come has been begun, or passed
\* over for a failure; what is to come is not marked, and comes later.
OrderKept ==
    /\ skipped \subseteq flags
    /\ \A c \in flags : Passed(c)
    /\ doing # 0 => doing \notin flags /\ \A c \in todo : doing < c
    /\ todo \intersect flags = {} /\ background \intersect flags = {}
    /\ doing # 0 \/ setup = "commands" => \A c \in plan.has \ todo : Passed(c)
    /\ \A c \in plan.has \ background : background # {} => Passed(c)
    /\ \A c \in background : c = Earliest(background) => Passed(c)
    /\ doing # 0 => begun[doing] > 0

\* A command that neither runs nor is marked has as many runs cut as begun.
RunsCounted ==
    \A c \in {OnCreate, PostCreate} :
        /\ begun[c] <= 1 + cut[c]
        /\ c \notin Active \union flags => begun[c] <= cut[c]

\* A failure waits for a client, or was taken for one.
FailureKept ==
    /\ served /\ setupDone => setup = "over"
    /\ failed => lifecycleError \/ told \in {"client", "gone"}

\* A client greeted as ready was greeted after the set-up and after its error.
ReadyKnown ==
    /\ viewers \in [Viewers -> {"away", "waiting", "early", "ready", "failed"}]
    /\ \A v \in Viewers : viewers[v] = "ready" => served /\ setupDone /\ ~lifecycleError

SetupInv == SetupTypeOK /\ OneRunner /\ OrderKept /\ RunsCounted /\ FailureKept

\* The first of some commands is one of them, and none of them precedes it.
LEMMA EarliestIsLeast ==
    ASSUME NEW cs, cs \subseteq Commands, cs # {}
    PROVE  Earliest(cs) \in cs /\ \A d \in cs : Earliest(cs) <= d
<1>1. \E c \in cs : \A d \in cs : c <= d
  <2>1. \A d \in cs : d \in {1, 2, 3, 4}  BY DEF Commands
  <2>2. CASE 1 \in cs  BY <2>1, <2>2
  <2>3. CASE 1 \notin cs /\ 2 \in cs  BY <2>1, <2>3
  <2>4. CASE 1 \notin cs /\ 2 \notin cs /\ 3 \in cs
    <3>1. \A d \in cs : d \in {3, 4}  BY <2>1, <2>4, Zenon
    <3> QED BY <2>4, <3>1
  <2>5. CASE 1 \notin cs /\ 2 \notin cs /\ 3 \notin cs
    <3>1. cs = {4}  BY <2>1, <2>5, Zenon
    <3> QED BY <3>1
  <2> QED BY <2>2, <2>3, <2>4, <2>5, Zenon
<1> QED BY <1>1, Zenon DEF Earliest

\* The state before the first start of the container satisfies the invariant.
LEMMA SetupInitInv == SetupInit => SetupInv
BY SetupAssumption DEF SetupInit, SetupInv, SetupTypeOK, OneRunner, OrderKept, RunsCounted,
   FailureKept, Active, Commands, Passed, OnCreate, PostCreate

\* A count of one command goes up by one.
LEMMA CountsOne ==
    ASSUME NEW count \in [Commands -> Nat], NEW c \in Commands, NEW after,
           after = [count EXCEPT ![c] = @ + 1]
    PROVE  /\ after \in [Commands -> Nat]
           /\ after[c] = count[c] + 1
           /\ \A d \in Commands : d # c => after[d] = count[d]
OBVIOUS

-----------------------------------------------------------------------------
(* One lemma for each actor.                                                 *)

\* Starting and stopping the container keeps the invariant.
LEMMA ProcessKeepsSetup ==
    ASSUME SetupInv, ServerStarts \/ ContainerStops
    PROVE  SetupInv'
<1> USE DEF Commands, OnCreate, UpdateContent, PostCreate, PostStart
<1>1. CASE ServerStarts
  BY <1>1, Zenon DEF ServerStarts, SetupInv, SetupTypeOK, OneRunner, OrderKept, RunsCounted,
     FailureKept, Active, Passed, viewerVars
<1>2. CASE ContainerStops
  <2> USE <1>2 DEF ContainerStops, SetupInv
  <2>1. SetupTypeOK'  BY DEF SetupTypeOK
  <2>2. OneRunner'  BY Zenon DEF OneRunner
  <2>3. OrderKept'  BY Zenon DEF OrderKept, Passed
  <2>4. RunsCounted'  BY DEF RunsCounted, Active, SetupTypeOK
  <2>5. FailureKept'  BY Zenon DEF FailureKept
  <2> QED BY <2>1, <2>2, <2>3, <2>4, <2>5, Zenon
<1> QED BY <1>1, <1>2, Zenon

\* The first two phases of the setup task keep it: no command runs in them.
LEMMA PreparationKeepsSetup ==
    ASSUME SetupInv, ResolveEnv \/ PrepareRepository
    PROVE  SetupInv'
<1> USE DEF Commands, OnCreate, UpdateContent, PostCreate, PostStart
<1>1. CASE ResolveEnv
  BY <1>1 DEF ResolveEnv, SetupPanics, Finish, SetupInv, SetupTypeOK, OneRunner, OrderKept,
     RunsCounted, FailureKept, Active, Passed, commandVars, viewerVars
<1>2. CASE PrepareRepository
  <2> USE <1>2 DEF PrepareRepository, SetupPanics, Finish, SetupInv
  <2>1. SetupTypeOK'  BY Zenon DEF SetupTypeOK, Sequence
  <2>2. OneRunner'  BY Zenon DEF OneRunner
  <2>3. OrderKept'  BY Zenon DEF OrderKept, Passed, OneRunner, Sequence, ShouldRun, SetupTypeOK
  <2>4. RunsCounted'  BY Zenon DEF RunsCounted, Active
  <2>5. FailureKept'  BY DEF FailureKept, OneRunner
  <2> QED BY <2>1, <2>2, <2>3, <2>4, <2>5, Zenon
<1> QED BY <1>1, <1>2, Zenon

\* The setup task's commands keep it: it begins the least of those to come,
\* and marks what it has run or passed over.
LEMMA ForegroundKeepsSetup ==
    ASSUME SetupInv,
           StartForeground \/ ForegroundSucceeds \/ ForegroundFails \/ ForegroundErrs
    PROVE  SetupInv'
<1> USE DEF Commands, OnCreate, UpdateContent, PostCreate, PostStart
<1>1. CASE StartForeground
  <2> USE <1>1 DEF StartForeground, SetupInv
  <2>1. Earliest(todo) \in todo /\ \A d \in todo : Earliest(todo) <= d
    BY EarliestIsLeast, Zenon DEF SetupTypeOK
  <2> DEFINE c == Earliest(todo)
  <2>2. /\ c \in todo /\ c \in Commands /\ c # 0 /\ doing = 0 /\ setup = "commands"
        /\ \A d \in todo : d \in Commands /\ c <= d
    <3>1. \A d \in todo : d \in Commands  BY Zenon DEF SetupTypeOK
    <3>2. doing = 0 /\ setup = "commands"  BY Zenon
    <3>3. 0 \notin Commands  OBVIOUS
    <3> HIDE <1>1 DEF StartForeground, SetupInv, Commands
    <3> QED BY <2>1, <3>1, <3>2, <3>3, Zenon
  <2>3. /\ begun' \in [Commands -> Nat] /\ begun'[c] = begun[c] + 1
        /\ \A d \in Commands : d # c => begun'[d] = begun[d]
        /\ begun \in [Commands -> Nat]
    BY <2>2, CountsOne, Zenon DEF SetupTypeOK
  <2>4. /\ doing' = c /\ todo' = todo \ {c}
        /\ UNCHANGED <<plan, served, setup, background, flags, postStartRan, setupDone,
                       lifecycleError, cut, skipped, failed, told>>
    BY Zenon DEF viewerVars
  <2> HIDE <1>1 DEF StartForeground, c
  <2>5. SetupTypeOK'  BY <2>2, <2>3, <2>4, Zenon DEF SetupTypeOK
  <2>6. OneRunner'  BY <2>2, <2>4, Zenon DEF OneRunner
  <2>7. \A d \in Commands : Passed(d) => Passed(d)'  BY <2>3, <2>4, <2>2 DEF Passed
  <2>8. \A d \in Commands : d = c => Passed(d)' /\ begun'[d] > 0  BY <2>2, <2>3, SMTT(30) DEF Passed
  <2>9. OrderKept'
    <3>1. \A d \in flags : Passed(d)'  BY <2>7 DEF OrderKept, SetupTypeOK
    <3>2. background = {}  BY <2>2, Zenon DEF OneRunner
    <3>3. \A d \in plan.has \ todo' : Passed(d)'
      BY <2>2, <2>4, <2>7, <2>8, Zenon DEF OrderKept, SetupTypeOK
    <3> QED BY <2>2, <2>4, <2>8, <3>1, <3>2, <3>3 DEF OrderKept
  <2>10. RunsCounted'
    BY <2>2, <2>3, <2>4 DEF RunsCounted, Active, OrderKept, OneRunner, SetupTypeOK
  <2>11. FailureKept'  BY <2>4, Zenon DEF FailureKept
  <2> QED BY <2>5, <2>6, <2>9, <2>10, <2>11, Zenon
<1>2. CASE ForegroundSucceeds
  <2> USE <1>2 DEF ForegroundSucceeds, MarkRan, SetupInv
  <2>2. SetupTypeOK'  BY Zenon DEF SetupTypeOK
  <2>3. OneRunner'  BY ZenonT(60) DEF OneRunner
  <2>4. OrderKept'  BY DEF OrderKept, Passed, OneRunner, SetupTypeOK
  <2>5. RunsCounted'  BY Zenon DEF RunsCounted, Active, SetupTypeOK, OneRunner, OrderKept
  <2>6. FailureKept'  BY Zenon DEF FailureKept
  <2> QED BY <2>2, <2>3, <2>4, <2>5, <2>6, Zenon
<1>3. CASE ForegroundFails
  <2> USE <1>3 DEF ForegroundFails, MarkRan, SkippedAfter, Finish, SetupInv
  <2>2. SetupTypeOK'  BY Zenon DEF SetupTypeOK
  <2>3. OneRunner'  BY Zenon DEF OneRunner
  <2>4. OrderKept'  BY Zenon DEF OrderKept, Passed, OneRunner, SetupTypeOK
  <2>5. RunsCounted'  BY Zenon DEF RunsCounted, Active, SetupTypeOK, OneRunner, OrderKept
  <2>6. FailureKept'  BY Zenon DEF FailureKept
  <2> QED BY <2>2, <2>3, <2>4, <2>5, <2>6, Zenon
<1>4. CASE ForegroundErrs
  <2> USE <1>4 DEF ForegroundErrs, MarkRan, SetupPanics, Finish, SetupInv
  <2>2. SetupTypeOK'  BY Zenon DEF SetupTypeOK
  <2>3. OneRunner'  BY Zenon DEF OneRunner
  <2>4. OrderKept'  BY Zenon DEF OrderKept, Passed, OneRunner, SetupTypeOK
  <2>5. RunsCounted'  BY Zenon DEF RunsCounted, Active, SetupTypeOK, OneRunner, OrderKept
  <2>6. FailureKept'  BY Zenon DEF FailureKept
  <2> QED BY <2>2, <2>3, <2>4, <2>5, <2>6, Zenon
<1> QED BY <1>1, <1>2, <1>3, <1>4, Zenon

\* The background thread keeps it, from the moment it is given its commands.
LEMMA BackgroundKeepsSetup ==
    ASSUME SetupInv, LeaveRestToThread \/ BackgroundEnds \/ BackgroundErrs
    PROVE  SetupInv'
<1> USE DEF Commands, OnCreate, UpdateContent, PostCreate, PostStart
<1>1. CASE LeaveRestToThread
  <2> USE <1>1 DEF LeaveRestToThread, Starting, Finish, SetupInv
  <2> DEFINE c == Earliest(todo)
  <2>1. /\ doing = 0 /\ setup = "commands" /\ background = {} /\ setup' = "over"
        /\ background' = todo /\ todo' = {} /\ begun \in [Commands -> Nat]
        /\ UNCHANGED <<plan, served, doing, flags, postStartRan, lifecycleError, cut, skipped,
                       failed, told>>
    BY Zenon DEF OneRunner, SetupTypeOK, viewerVars
  <2>2. CASE todo = {}
    <3> HIDE <1>1 DEF LeaveRestToThread
    <3>1. begun' = begun  BY <1>1, <2>2, Zenon DEF LeaveRestToThread
    <3>2. setup' = "over"  BY <2>1, Zenon
    <3> QED BY <2>1, <2>2, <3>1, Zenon DEF SetupTypeOK, OneRunner, OrderKept, RunsCounted,
               FailureKept,
            Active, Passed
  <2>3. CASE todo # {}
    <3>1. /\ c \in todo /\ c \in Commands /\ \A d \in todo : d \in Commands /\ c <= d
      BY <2>3, EarliestIsLeast, Zenon DEF SetupTypeOK
    <3>2. /\ begun' \in [Commands -> Nat] /\ begun'[c] = begun[c] + 1
          /\ \A d \in Commands : d # c => begun'[d] = begun[d]
      BY <2>1, <2>3, <3>1, CountsOne, Zenon
    <3>3. Earliest(background') = c  BY <2>1, Zenon
    <3> HIDE <1>1 DEF LeaveRestToThread, c
    <3>4. SetupTypeOK'  BY <2>1, <3>2, Zenon DEF SetupTypeOK
    <3>5. OneRunner'  BY <2>1, Zenon DEF OneRunner
    <3>6. \A d \in Commands : Passed(d) => Passed(d)'  BY <2>1, <3>1, <3>2 DEF Passed
    <3>7. \A d \in Commands : d = c => Passed(d)'  BY <2>1, <3>1, <3>2 DEF Passed
    <3>8. OrderKept'
      <4>1. \A d \in flags : Passed(d)'  BY <3>6 DEF OrderKept, SetupTypeOK
      <4>2. \A d \in plan.has \ background' : Passed(d)'
        BY <2>1, <3>6, Zenon DEF OrderKept, SetupTypeOK
      <4>3. \A d \in background' : d = Earliest(background') => Passed(d)'
        BY <2>1, <3>1, <3>3, <3>7, Zenon
      <4>4. skipped \subseteq flags /\ todo \intersect flags = {}  BY Zenon DEF OrderKept
      <4> QED BY <2>1, <4>1, <4>2, <4>3, <4>4, Zenon DEF OrderKept
    <3>9. RunsCounted'
      BY <2>1, <3>1, <3>2, <3>3 DEF RunsCounted, Active, OrderKept, SetupTypeOK
    <3>10. FailureKept'  BY <2>1, Zenon DEF FailureKept
    <3> QED BY <3>4, <3>5, <3>8, <3>9, <3>10, Zenon
  <2> QED BY <2>2, <2>3, Zenon
<1>2. CASE BackgroundEnds
  <2> DEFINE c == Earliest(background)
             rest == background \ {c}
             next == Earliest(rest)
  <2> USE <1>2 DEF BackgroundEnds, MarkRan, Starting, SetupInv
  <2>1. /\ c \in background /\ c \in Commands /\ \A d \in background : d \in Commands /\ c <= d
    BY EarliestIsLeast, Zenon DEF SetupTypeOK
  <2>2. /\ setup = "over" /\ doing = 0 /\ todo = {} /\ background' = rest
        /\ flags' = flags \union ({c} \intersect {OnCreate, PostCreate})
        /\ begun \in [Commands -> Nat]
        /\ UNCHANGED <<plan, served, setup, todo, doing, setupDone, lifecycleError, cut, skipped,
                       failed, told>>
    BY Zenon DEF OneRunner, SetupTypeOK, viewerVars
  <2>3. /\ begun' \in [Commands -> Nat]
        /\ rest = {} => begun' = begun
        /\ rest # {} => /\ next \in rest /\ next \in Commands
                        /\ begun'[next] = begun[next] + 1
                        /\ \A d \in Commands : d # next => begun'[d] = begun[d]
    <3>1. CASE rest = {}  BY <2>2, <3>1, Zenon
    <3>2. CASE rest # {}
      <4>1. next \in rest /\ next \in Commands
        BY <2>1, <3>2, EarliestIsLeast, Zenon DEF SetupTypeOK
      <4>2. begun' = [begun EXCEPT ![next] = @ + 1]  BY <2>2, <3>2, Zenon
      <4> QED BY <2>2, <3>2, <4>1, <4>2, CountsOne, Zenon
    <3> QED BY <3>1, <3>2, Zenon
  <2>4. Earliest(background') = next  BY <2>2, Zenon
  <2> HIDE <1>2 DEF BackgroundEnds, MarkRan, Starting, c, rest, next
  <2>5. c # next \/ rest = {}  BY <2>3, Zenon DEF rest
  <2>6. SetupTypeOK'
    BY <2>1, <2>2, <2>3, Zenon DEF SetupTypeOK, rest
  <2>7. OneRunner'  BY <1>2, <2>2, <2>1, Zenon DEF OneRunner, rest
  <2>8. \A d \in Commands : Passed(d) => Passed(d)'  BY <2>2, <2>3 DEF Passed
  <2>9. OrderKept'
    <3>1. Passed(c)  BY <2>1, Zenon DEF OrderKept, c
    <3>2. \A d \in flags' : Passed(d)'  BY <2>1, <2>2, <2>8, <3>1 DEF OrderKept, SetupTypeOK
    <3>3. \A d \in plan.has \ background' : Passed(d)'
      BY <2>1, <2>2, <2>8, <3>1, Zenon DEF OrderKept, SetupTypeOK, rest
    <3>4. \A d \in Commands : rest # {} /\ d = next => Passed(d)'  BY <2>2, <2>3 DEF Passed
    <3>5. background' \intersect flags' = {}  BY <2>2, Zenon DEF OrderKept, rest
    <3>6. \A d \in background' : d = Earliest(background') => Passed(d)'
      BY <2>1, <2>2, <2>3, <2>4, <3>4, Zenon DEF rest
    <3>7. skipped' \subseteq flags'  BY <2>2, Zenon DEF OrderKept
    <3> QED BY <2>2, <3>2, <3>3, <3>5, <3>6, <3>7, Zenon DEF OrderKept
  <2>10. RunsCounted'
    <3>1. \A d \in Commands : d \in Active <=> d = c
      BY <2>1, <2>2 DEF Active, c
    <3>2. \A d \in Commands : d \in Active' <=> rest # {} /\ d = next
      BY <2>2, <2>4 DEF Active
    <3>3. rest # {} => next \notin flags  BY <2>2, <2>3, Zenon DEF OrderKept, rest
    <3>4. \A d \in {OnCreate, PostCreate} : d \in Commands
      BY DEF OnCreate, PostCreate, Commands
    <3>5. SUFFICES ASSUME NEW d \in {OnCreate, PostCreate}
                   PROVE  /\ begun'[d] <= 1 + cut[d]
                          /\ d \notin Active' \union flags' => begun'[d] <= cut[d]
      BY <2>2, Zenon DEF RunsCounted
    <3>6. begun[d] \in Nat /\ cut[d] \in Nat /\ d \in Commands
      BY <2>2, <3>4, Zenon DEF SetupTypeOK
    <3>7. /\ begun[d] <= 1 + cut[d] /\ (d \notin Active \union flags => begun[d] <= cut[d])
      BY Zenon DEF RunsCounted
    <3>8. CASE rest # {} /\ d = next
      BY <2>2, <2>3, <2>5, <3>1, <3>2, <3>3, <3>6, <3>7, <3>8
    <3>9. CASE rest = {} \/ d # next
      <4>1. begun'[d] = begun[d]  BY <2>3, <3>6, <3>9, Zenon
      <4>2. d \notin flags' => d \notin Active  BY <2>2, <3>1, <3>6, Zenon
      <4> QED BY <2>2, <3>6, <3>7, <4>1, <4>2, Zenon
    <3> QED BY <3>8, <3>9, Zenon
  <2>11. FailureKept'  BY <2>2, Zenon DEF FailureKept
  <2> QED BY <2>6, <2>7, <2>9, <2>10, <2>11, Zenon
<1>3. CASE BackgroundErrs
  <2> USE <1>3 DEF BackgroundErrs, SetupInv
  <2>1. Earliest(background) \in background /\ \A d \in background : Earliest(background) <= d
    BY EarliestIsLeast, Zenon DEF SetupTypeOK
  <2>2. SetupTypeOK'
    <3>1. Earliest(background) \in Commands  BY <2>1, Zenon DEF SetupTypeOK
    <3> QED BY <3>1, CountsOne, Zenon DEF SetupTypeOK
  <2>3. OneRunner'  BY Zenon DEF OneRunner
  <2>4. OrderKept'  BY <2>1, Zenon DEF OrderKept, Passed
  <2>5. RunsCounted'  BY <2>1 DEF RunsCounted, Active, SetupTypeOK
  <2>6. FailureKept'  BY Zenon DEF FailureKept
  <2> QED BY <2>2, <2>3, <2>4, <2>5, <2>6, Zenon
<1> QED BY <1>1, <1>2, <1>3, Zenon

\* Clients of /events keep it: only a greeting touches the error, and it has
\* taken it for somebody then.
LEMMA ViewersKeepSetup ==
    ASSUME SetupInv, NEW v \in Viewers,
           ViewerConnects(v) \/ Greet(v) \/ GreetEarly(v) \/ ViewerLost(v)
    PROVE  SetupInv'
<1>1. UNCHANGED <<plan, served, setup, commandVars, setupDone, restarts, failed>>
  BY Zenon DEF ViewerConnects, Greet, GreetEarly, ViewerLost
<1>2. lifecycleError \/ told \in {"client", "gone"} =>
        (lifecycleError \/ told \in {"client", "gone"})'
  BY Zenon DEF ViewerConnects, Greet, GreetEarly, ViewerLost
<1>3. SetupTypeOK' /\ OneRunner'  BY <1>1, Zenon DEF SetupInv, SetupTypeOK, OneRunner, commandVars
<1>4. OrderKept'  BY <1>1, Zenon DEF SetupInv, OrderKept, Passed, commandVars
<1>5. RunsCounted'  BY <1>1, Zenon DEF SetupInv, RunsCounted, Active, commandVars
<1>6. FailureKept'  BY <1>1, <1>2, Zenon DEF SetupInv, FailureKept
<1> QED BY <1>3, <1>4, <1>5, <1>6, Zenon DEF SetupInv

\* Every step keeps the invariant.
LEMMA SetupNextInv == SetupInv /\ [SetupNext]_setupVars => SetupInv'
<1> SUFFICES ASSUME SetupInv, [SetupNext]_setupVars  PROVE SetupInv'
  BY Zenon
<1>1. CASE UNCHANGED setupVars
  BY <1>1, Zenon DEF setupVars, SetupInv, SetupTypeOK, OneRunner, OrderKept, RunsCounted,
     FailureKept,
     Active, Passed
<1>2. CASE SetupNext
  BY Zenon, <1>2, ProcessKeepsSetup, PreparationKeepsSetup, ForegroundKeepsSetup,
     BackgroundKeepsSetup,
     ViewersKeepSetup DEF SetupNext, SetupStep
<1> QED BY <1>1, <1>2, Zenon

\* Every step keeps what the greeted clients know: the error is set, and the
\* set-up ended, only while no client is greeted as ready.
LEMMA ReadyStaysKnown == SetupInv /\ ReadyKnown /\ [SetupNext]_setupVars => ReadyKnown'
<1> SUFFICES ASSUME SetupInv, ReadyKnown, [SetupNext]_setupVars  PROVE ReadyKnown'
  BY Zenon
<1>1. setup # "over" => \A v \in Viewers : viewers[v] # "ready"
  BY Zenon DEF SetupInv, FailureKept, ReadyKnown
<1>2. doing # 0 => setup = "commands"  BY Zenon DEF SetupInv, OneRunner
<1>3. CASE UNCHANGED setupVars  BY <1>3, Zenon DEF setupVars, ReadyKnown
<1>4. CASE ServerStarts
  BY <1>4, Zenon DEF ServerStarts, viewerVars, ReadyKnown
<1>5. CASE ContainerStops
  BY <1>5, Zenon DEF ContainerStops, ReadyKnown
<1>6. CASE SetupStep
  <2>1. setup # "over"
    BY <1>2, <1>6, Zenon DEF SetupStep, ResolveEnv, PrepareRepository, StartForeground,
       ForegroundSucceeds, ForegroundFails, ForegroundErrs, LeaveRestToThread
  <2>2. viewers' = viewers
    BY <1>6, Zenon DEF SetupStep, ResolveEnv, PrepareRepository, StartForeground,
       ForegroundSucceeds, ForegroundFails, ForegroundErrs, LeaveRestToThread, viewerVars
  <2> QED BY <1>1, <2>1, <2>2, Zenon DEF ReadyKnown
<1>7. CASE BackgroundEnds \/ BackgroundErrs
  <2>1. UNCHANGED <<viewers, served, setupDone, lifecycleError>>
    BY <1>7, Zenon DEF BackgroundEnds, BackgroundErrs, viewerVars
  <2> QED BY <2>1, Zenon DEF ReadyKnown
<1>8. ASSUME NEW v \in Viewers, ViewerConnects(v) \/ GreetEarly(v) \/ ViewerLost(v)
      PROVE  ReadyKnown'
  <2>1. UNCHANGED <<served, setupDone, lifecycleError>>
    BY <1>8, Zenon DEF ViewerConnects, GreetEarly, ViewerLost
  <2>2. \E o \in {"away", "waiting", "early"} : viewers' = [viewers EXCEPT ![v] = o]
    BY <1>8, Zenon DEF ViewerConnects, GreetEarly, ViewerLost
  <2> QED BY <2>1, <2>2, Zenon DEF ReadyKnown
<1>9. ASSUME NEW v \in Viewers, Greet(v)
      PROVE  ReadyKnown'
  <2>1. served' /\ setupDone' /\ ~lifecycleError'  BY <1>9, Zenon DEF Greet
  <2>2. viewers' \in [Viewers -> {"away", "waiting", "early", "ready", "failed"}]
    BY <1>9, Zenon DEF Greet, ReadyKnown
  <2> QED BY <2>1, <2>2, Zenon DEF ReadyKnown
<1> QED BY <1>3, <1>4, <1>5, <1>6, <1>7, <1>8, <1>9, Zenon DEF SetupNext

\* The invariants have what a container's setup promises.
LEMMA SetupInvHonest == SetupInv /\ ReadyKnown => SetupIsHonest
<1> USE DEF Commands, OnCreate, UpdateContent, PostCreate, PostStart
<1> SUFFICES ASSUME SetupInv, ReadyKnown PROVE SetupIsHonest
  BY Zenon
<1>1. background # {} =>
        /\ Earliest(background) \in background
        /\ \A d \in background : Earliest(background) <= d
  BY EarliestIsLeast, Zenon DEF SetupInv, SetupTypeOK
<1>2. \A c, d \in Active : c = d
  BY DEF SetupInv, OneRunner, Active
<1>3. \A c \in Active : \A d \in plan.has : d < c => begun[d] > 0 \/ d \in skipped
  BY <1>1 DEF SetupInv, OrderKept, Active, Passed, SetupTypeOK
<1>4. \A c \in {OnCreate, PostCreate} : begun[c] <= 1 + cut[c]
  BY Zenon DEF SetupInv, RunsCounted
<1>5. \A c \in Active : c \in {OnCreate, PostCreate} => c \notin skipped
  BY <1>1 DEF SetupInv, OrderKept, Active
<1>6. ReadyIsHonest
  BY Zenon DEF SetupInv, FailureKept, OneRunner, ReadyKnown, ReadyIsHonest
<1> QED BY <1>2, <1>3, <1>4, <1>5, <1>6, Zenon DEF SetupIsHonest, LifecycleOnceInOrder

\* The setup of a container does what it reports, for every devcontainer config,
\* every number of clients and every series of restarts and failures: commands
\* run once and in order (lifecycle::run), and a failure is taken for a client
\* before another that kept up with the progress is told that the pod is ready
\* (events_handler).
THEOREM SetupAlwaysHonest == SetupSpec => []SetupIsHonest
<1>1. SetupSpec => []SetupInv
  BY SetupInitInv, SetupNextInv, PTL DEF SetupSpec
<1>2. SetupInit => ReadyKnown
  BY Zenon DEF SetupInit, ReadyKnown
<1>3. SetupSpec => []ReadyKnown
  BY <1>1, <1>2, ReadyStaysKnown, PTL DEF SetupSpec
<1> QED BY <1>1, <1>3, SetupInvHonest, PTL
=============================================================================
