-------------------------- MODULE TerminalProofs ----------------------------
(***************************************************************************)
(* What a user sees of a process in a pod: a terminal session, or the      *)
(* output and the status of an exec.  Each proof has an inductive          *)
(* invariant.                                                              *)
(*                                                                         *)
(* PtyInv, for any users, WebSockets, chunks of output and number of       *)
(* sessions:                                                               *)
(*   OneCreator      one bridge, monitor or cleanup has the creation lock; *)
(*   Answerable      somebody answers for every running frontend: the      *)
(*                   table, a creation, a replacement or the cleanup;      *)
(*   NameIsFree      a creation and the end of a cleanup find no session;  *)
(*   RouteIsCurrent  unless a cleanup is to come, what was read of the     *)
(*                   pod's route is still so;                              *)
(*   CursorsBehind   a receiver is never ahead of its channel;             *)
(*   Unused          a user opens one WebSocket after the other.           *)
(*                                                                         *)
(* ExecInv, for any number of chunks and signals and any capacities:       *)
(*   StageInv   what is known where run_process is: one process for an     *)
(*              accepted request and none for a refused one, an unreaped   *)
(*              leader while the task runs, all output taken when it has   *)
(*              reaped it;                                                 *)
(*   FrameInv   the response is output, in the number that was taken and   *)
(*              not yet printed, followed by at most one last frame; an    *)
(*              exit frame, like the caller's report of it, says that the  *)
(*              output is over.                                            *)
(***************************************************************************)
EXTENDS PtySessions, Exec, TLAPS


-----------------------------------------------------------------------------
(* PtySessions                                                               *)

BridgePhases ==
    {"none", "look", "queue", "recheck", "build", "prepare", "insert", "join", "replay",
     "bridging", "switch", "over"}

Bridges ==
    [phase : BridgePhases, frame : {"none", "attach", "reconnect"}, gen : 0..Generations,
     via : Nat, cursor : Nat, seen : SUBSET Nat, missed : {"nothing", "some"},
     reply : {"none", "ended", "unavailable", "error", "closed"}]

PtyTypeOK ==
    /\ nextId \in 1..(Generations + 1)
    /\ table \in 0..(nextId - 1)
    /\ child \in [Gens -> {"none", "alive", "signalled", "dead"}]
    /\ \A g \in Gens : child[g] = "alive" \/ reader[g] # "none" => g < nextId
    /\ screen \in [Gens -> Nat] /\ broadcast \in [Gens -> Seq(Nat)]
    /\ monitor \in [Gens -> {"none", "watching", "recovering", "queue", "build", "prepare",
                             "notifying", "killing", "done"}]
    /\ dials \in [Gens -> Nat] /\ route \in Nat /\ route \in inForce
    /\ reader \in [Gens -> {"none", "reading", "sending", "done"}]
    /\ cleanup \in [phase : {"none", "queue", "removing", "killing"}, gen : 0..Generations]
    /\ bridge \in [Links -> Bridges]
    /\ \A l \in Links : bridge[l].phase \in {"insert", "replay", "bridging", "switch"} =>
         bridge[l].gen \in Gens
    /\ \A l \in Links : bridge[l].phase = "insert" => bridge[l].gen < nextId

\* Who holds the creation lock: one bridge, one monitor or the cleanup.
CreatingPhases == {"recheck", "build", "prepare", "insert", "join"}
ReplacingPhases == {"build", "prepare", "notifying", "killing"}

OneCreator ==
    /\ \A l \in Links : bridge[l].phase \in CreatingPhases => holder = "bridge"
    /\ \A l, m \in Links :
         bridge[l].phase \in CreatingPhases /\ bridge[m].phase \in CreatingPhases => l = m
    /\ \A g \in Gens : monitor[g] \in ReplacingPhases => holder = "monitor"
    /\ \A g, h \in Gens :
         monitor[g] \in ReplacingPhases /\ monitor[h] \in ReplacingPhases => g = h
    /\ cleanup.phase \in {"removing", "killing"} => holder = "cleanup"
    /\ \A g \in Gens : monitor[g] = "prepare" => nextId \in Gens

\* Somebody answers for every child that was not told to stop.
Answerable ==
    \A g \in Gens : child[g] = "alive" =>
      \/ table = g
      \/ \E l \in Links : bridge[l].phase = "insert" /\ bridge[l].gen = g
      \/ monitor[g] \in {"notifying", "killing"}
      \/ cleanup.phase = "killing" /\ cleanup.gen = g

\* The name is free while a creation or the end of a cleanup is under way.
NameIsFree ==
    /\ \A l \in Links : bridge[l].phase \in {"build", "prepare", "insert"} => table = NoSession
    /\ cleanup.phase = "killing" => table = NoSession

\* Unless a cleanup is to come, what a creation has read of the pod's route is
\* still so.
RouteIsCurrent ==
    cleanup.phase = "none" =>
      /\ \A g \in Gens : child[g] = "alive" /\ table = g =>
           dials[g] \in inForce /\ proxy \in inForce
      /\ \A l \in Links : bridge[l].phase = "prepare" => bridge[l].via \in inForce
      /\ \A l \in Links : bridge[l].phase = "insert" =>
           dials[bridge[l].gen] \in inForce /\ proxy \in inForce
      /\ \A g \in Gens : monitor[g] = "prepare" => dials[nextId] \in inForce

\* A receiver is never ahead of its channel.
CursorsBehind ==
    \A l \in Links : bridge[l].phase \in {"replay", "bridging"} =>
      bridge[l].cursor \in 1..(Len(broadcast[bridge[l].gen]) + 1)

\* Every user opens one WebSocket after the other.
Unused ==
    /\ user \in [Users -> [phase : {"start", "attached", "lost", "ended", "unavailable", "error",
                                    "detached", "none"},
                           link : Nat, launched : BOOLEAN]]
    /\ \A l \in Links : user[l[1]].link < l[2] => bridge[l].phase = "none"
    /\ \A u \in Users : user[u].phase = "attached" => UserLink(u) \in Links
    /\ scenario \in Scenarios

PtyCore ==
    /\ PtyTypeOK /\ OneCreator /\ Answerable /\ NameIsFree /\ RouteIsCurrent
    /\ CursorsBehind /\ NothingMissed

PtyInv == PtyCore /\ Unused

\* The numbers up to the next one.
LEMMA UpToNext ==
    \A n \in Nat :
        /\ \A k \in 1..(n + 1) : k = n + 1 \/ k \in 1..n
        /\ \A k \in Nat : k < n => k < n + 1
        /\ n < n + 1
OBVIOUS

\* A connection that has not begun.
LEMMA IdleBridge == Idle \in Bridges /\ Idle.phase = "none"
BY PtyAssumption DEF Idle, Bridges, BridgePhases, NoSession

\* Before the first attachment there is nothing.
LEMMA PtyInitInv == PtyInit => PtyInv
<1> SUFFICES ASSUME PtyInit PROVE PtyInv
  BY Zenon
<1>1. Idle \in Bridges /\ Idle.phase = "none"  BY IdleBridge, Zenon
<1>2. PtyTypeOK
  <2>1. broadcast \in [Gens -> Seq(Nat)]  BY DEF PtyInit
  <2> QED BY <1>1, <2>1, PtyAssumption DEF PtyInit, PtyTypeOK, NoSession, Gens
<1>3. \A l \in Links : bridge[l].phase = "none"  BY <1>1, Zenon DEF PtyInit
<1>4. OneCreator /\ Answerable /\ NameIsFree /\ RouteIsCurrent
  BY <1>3, Zenon DEF PtyInit, OneCreator, Answerable, NameIsFree, RouteIsCurrent, CreatingPhases,
     ReplacingPhases, Gens
<1>5. CursorsBehind /\ NothingMissed  BY <1>3, Zenon DEF CursorsBehind, NothingMissed
<1>6. Unused
  <2>1. user \in [Users -> [phase : {"start", "attached", "lost", "ended", "unavailable", "error",
                                     "detached", "none"},
                            link : Nat, launched : BOOLEAN]]
    BY Zenon DEF PtyInit
  <2> QED BY <1>3, <2>1, Zenon DEF PtyInit, Unused
<1> QED BY <1>2, <1>4, <1>5, <1>6, Zenon DEF PtyInv, PtyCore

-----------------------------------------------------------------------------
(* A bridge that does not create anything                                    *)

\* A receiver that has cursor of the output of generation g before it, and
\* has shown the chunks in seen, misses none.
MissesNothing(g, cursor, seen) ==
    \A k \in 1..screen[g] :
      \/ k \in seen
      \/ \E i \in cursor..Len(broadcast[g]) : broadcast[g][i] = k
      \/ reader[g] = "sending" /\ k = screen[g]

\* What attach_existing finds runs, and removes only what does not.
LEMMA ExistingRuns ==
    ASSUME PtyTypeOK
    PROVE  /\ Existing \in 0..(nextId - 1)
           /\ Existing = NoSession \/ Existing = table
           /\ \A g \in Gens : child[g] = "alive" /\ table = g => Existing = g
           /\ Existing # NoSession => Existing \in Gens /\ Runs(Existing)
BY PtyAssumption DEF Existing, Runs, PtyTypeOK, NoSession, Gens

\* A bridge that gets an answer, or a session that runs, gives up no child,
\* and gives back the lock if it had it.
LEMMA BridgeSettles ==
    ASSUME PtyCore, NEW l \in Links, NEW b \in Bridges,
           bridge' = [bridge EXCEPT ![l] = b],
           bridge[l].phase # "insert", b.phase \notin CreatingPhases,
           b.phase \in {"replay", "bridging", "switch"} => b.gen \in Gens,
           b.phase \in {"replay", "bridging"} => b.cursor \in 1..(Len(broadcast[b.gen]) + 1),
           b.phase = "bridging" /\ b.missed = "nothing" => MissesNothing(b.gen, b.cursor, b.seen),
           table' \in {table, Existing},
           holder' = holder \/ (bridge[l].phase \in CreatingPhases /\ holder' = "free"),
           UNCHANGED <<nextId, child, screen, broadcast, reader, monitor, dials, route, inForce,
                       proxy, cleanup>>
    PROVE  PtyCore'
<1> USE DEF PtyCore
<1>1. bridge'[l] = b /\ \A m \in Links : m # l => bridge'[m] = bridge[m]
  BY Zenon DEF PtyTypeOK
<1>2. /\ table' \in 0..(nextId - 1) /\ (table' = table \/ table' = NoSession)
      /\ \A g \in Gens : child[g] = "alive" /\ table = g => table' = g
  BY ExistingRuns, Zenon DEF PtyTypeOK
<1>3. b.phase \notin {"recheck", "build", "prepare", "insert", "join"}  BY Zenon DEF CreatingPhases
<1>4. PtyTypeOK'  BY <1>1, <1>2, <1>3, Zenon DEF PtyTypeOK
<1>5. OneCreator'  BY <1>1, <1>3, Zenon DEF OneCreator, CreatingPhases, ReplacingPhases
<1>6. Answerable'  BY <1>1, <1>2 DEF Answerable
<1>7. NameIsFree'  BY <1>1, <1>2, <1>3, Zenon DEF NameIsFree
<1>8. RouteIsCurrent'  BY <1>1, <1>2, <1>3, PtyAssumption DEF RouteIsCurrent, NoSession, Gens
<1>9. CursorsBehind'  BY <1>1, Zenon DEF CursorsBehind
<1>10. NothingMissed'
  <2>1. \A m \in Links : bridge'[m].phase = "bridging" /\ bridge'[m].missed = "nothing" =>
          MissesNothing(bridge'[m].gen, bridge'[m].cursor, bridge'[m].seen)
    BY <1>1 DEF NothingMissed, MissesNothing
  <2> QED BY <2>1 DEF NothingMissed, MissesNothing
<1> QED BY <1>4, <1>5, <1>6, <1>7, <1>8, <1>9, <1>10, Zenon

\* attach_existing subscribes behind the newest message.
LEMMA SubscribedBridge ==
    ASSUME PtyCore, NEW b \in Bridges, NEW g \in Gens
    PROVE  /\ Subscribed(b, g) \in Bridges
           /\ Subscribed(b, g).phase = "replay" /\ Subscribed(b, g).gen = g
           /\ Subscribed(b, g).cursor = Len(broadcast[g]) + 1
           /\ Subscribed(b, g).cursor \in 1..(Len(broadcast[g]) + 1)
<1>1. Len(broadcast[g]) \in Nat  BY DEF PtyCore, PtyTypeOK
<1>2. g \in 0..Generations  BY DEF Gens
<1> DEFINE c == Len(broadcast[g]) + 1
<1>3. c \in Nat /\ c \in 1..c /\ c = Len(broadcast[g]) + 1  BY <1>1
<1> HIDE DEF c
<1>4. Subscribed(b, g) = [b EXCEPT !.phase = "replay", !.gen = g, !.cursor = c, !.seen = {},
                                   !.missed = "nothing"]
  BY <1>3, Zenon DEF Subscribed
<1>5. /\ Subscribed(b, g).phase = "replay" /\ Subscribed(b, g).gen = g
      /\ Subscribed(b, g).cursor = c
  BY <1>4, Zenon DEF Bridges
<1>6. Subscribed(b, g) \in Bridges
  BY <1>2, <1>3, <1>4, Zenon DEF Bridges, BridgePhases
<1> QED BY <1>3, <1>5, <1>6, Zenon

\* The last message of a bridge.
LEMMA AnsweredBridge ==
    ASSUME NEW b, NEW answer \in {"ended", "unavailable", "error", "closed"}
    PROVE  Answered(b, answer) \in Bridges /\ Answered(b, answer).phase = "over"
<1>1. Idle \in Bridges  BY IdleBridge, Zenon
<1>2. Answered(b, answer) = [Idle EXCEPT !.phase = "over", !.reply = answer]  BY Zenon DEF Answered
<1> QED BY <1>1, <1>2, Zenon DEF Bridges, BridgePhases

\* The looks at the table that create nothing: the first, the last, and the
\* one for a successor.
LEMMA BridgeLooksKeeps ==
    ASSUME PtyCore, NEW l \in Links, BridgeLooks(l) \/ BridgeJoins(l) \/ BridgeSwitches(l)
    PROVE  PtyCore'
<1> DEFINE b == bridge[l]
<1>1. b \in Bridges  BY Zenon DEF PtyCore, PtyTypeOK
<1>2. /\ b.phase \in {"look", "join", "switch"} /\ b.phase # "insert"
      /\ table' = Existing
      /\ holder' = holder \/ (b.phase \in CreatingPhases /\ holder' = "free")
      /\ UNCHANGED <<nextId, child, screen, broadcast, reader, monitor, dials, route, inForce,
                     proxy, cleanup>>
  BY Zenon DEF BridgeLooks, BridgeJoins, BridgeSwitches, ReapTable, CreatingPhases
<1>3. PICK after \in {Subscribed(b, Existing), [b EXCEPT !.phase = "queue"],
                      Answered(b, "ended")} :
        /\ bridge' = [bridge EXCEPT ![l] = after]
        /\ after # Answered(b, "ended") /\ after # [b EXCEPT !.phase = "queue"] =>
             Existing # NoSession
  BY Zenon DEF BridgeLooks, BridgeJoins, BridgeSwitches, SetBridge
<1>4. Existing # NoSession => Existing \in Gens  BY ExistingRuns, Zenon DEF PtyCore
<1>5. CASE after = Answered(b, "ended")
  <2>1. after \in Bridges /\ after.phase = "over"  BY <1>5, AnsweredBridge, Zenon
  <2> HIDE DEF b
  <2> QED BY <1>2, <1>3, <2>1, BridgeSettles, Zenon DEF b, CreatingPhases
<1>6. CASE after = [b EXCEPT !.phase = "queue"]
  <2>1. after \in Bridges /\ after.phase = "queue"  BY <1>1, <1>6, Zenon DEF Bridges, BridgePhases
  <2> QED BY <1>2, <1>3, <2>1, BridgeSettles, Zenon DEF CreatingPhases
<1>7. CASE after = Subscribed(b, Existing) /\ Existing # NoSession
  <2>1. /\ after \in Bridges /\ after.phase = "replay" /\ after.gen \in Gens
        /\ after.cursor \in 1..(Len(broadcast[after.gen]) + 1)
    BY <1>1, <1>4, <1>7, SubscribedBridge
  <2> HIDE DEF b
  <2> QED BY <1>2, <1>3, <2>1, BridgeSettles, Zenon DEF b, CreatingPhases
<1> QED BY <1>3, <1>5, <1>6, <1>7, Zenon

\* build_screen_replay shows all the screen has.
LEMMA BridgeReplaysKeeps ==
    ASSUME PtyCore, NEW l \in Links, BridgeReplays(l)
    PROVE  PtyCore'
<1> DEFINE b == bridge[l]
           shows == [b EXCEPT !.phase = "bridging", !.seen = 1..screen[b.gen]]
<1>1. b \in Bridges /\ b.phase = "replay" /\ b.gen \in Gens
  BY Zenon DEF PtyCore, PtyTypeOK, BridgeReplays
<1>2. UNCHANGED <<table, holder, nextId, child, screen, broadcast, reader, monitor, dials, route,
                  inForce, proxy, cleanup>>
  BY Zenon DEF BridgeReplays
<1>3. PICK after \in {shows, Answered(b, "closed")} : bridge' = [bridge EXCEPT ![l] = after]
  BY Zenon DEF BridgeReplays, SetBridge
<1>4. CASE after = Answered(b, "closed")
  <2>1. after \in Bridges /\ after.phase = "over"  BY <1>4, AnsweredBridge, Zenon
  <2> QED BY <1>1, <1>2, <1>3, <2>1, BridgeSettles, Zenon DEF CreatingPhases
<1>5. CASE after = shows
  <2>1. 1..screen[b.gen] \subseteq Nat  BY <1>1 DEF PtyCore, PtyTypeOK
  <2>2. /\ after \in Bridges /\ after.phase = "bridging" /\ after.gen = b.gen
        /\ after.cursor = b.cursor /\ after.seen = 1..screen[b.gen]
    BY <1>1, <1>5, <2>1, Zenon DEF Bridges, BridgePhases
  <2>3. after.cursor \in 1..(Len(broadcast[after.gen]) + 1)
    BY <1>1, <2>2, Zenon DEF PtyCore, CursorsBehind
  <2>4. MissesNothing(after.gen, after.cursor, after.seen)  BY <2>2, Zenon DEF MissesNothing
  <2> HIDE DEF shows, b
  <2> QED BY <1>1, <1>2, <1>3, <2>2, <2>3, <2>4, BridgeSettles, Zenon DEF CreatingPhases, b
<1> QED BY <1>3, <1>4, <1>5, Zenon

\* The client is gone, or the name it writes to is.
LEMMA BridgeClosesKeeps ==
    ASSUME PtyCore, NEW l \in Links, BridgeInputFails(l) \/ BridgeHangsUp(l)
    PROVE  PtyCore'
<1>1. /\ bridge[l].phase = "bridging"
      /\ bridge' = [bridge EXCEPT ![l] = Answered(bridge[l], "closed")]
      /\ UNCHANGED <<table, holder, nextId, child, screen, broadcast, reader, monitor, dials,
                     route, inForce, proxy, cleanup>>
  BY Zenon DEF BridgeInputFails, BridgeHangsUp, SetBridge
<1>2. /\ Answered(bridge[l], "closed") \in Bridges
      /\ Answered(bridge[l], "closed").phase = "over"
  BY AnsweredBridge, Zenon
<1> QED BY <1>1, <1>2, BridgeSettles, Zenon DEF CreatingPhases

\* A chunk is shown to the client, a lagging receiver skips, or the session is
\* over.
LEMMA BridgeForwardsKeeps ==
    ASSUME PtyCore, NEW l \in Links, BridgeForwards(l)
    PROVE  PtyCore'
<1> DEFINE b == bridge[l]
           sent == broadcast[b.gen]
<1>1. /\ b \in Bridges /\ b.phase = "bridging" /\ b.gen \in Gens
      /\ b.cursor \in 1..(Len(sent) + 1) /\ sent \in Seq(Nat)
  BY Zenon DEF PtyCore, PtyTypeOK, BridgeForwards, CursorsBehind
<1>2. UNCHANGED <<table, holder, nextId, child, screen, broadcast, reader, monitor, dials, route,
                  inForce, proxy, cleanup>>
  BY Zenon DEF BridgeForwards
<1>3. CASE /\ Lags(b)
           /\ SetBridge(l, [b EXCEPT !.cursor = Len(sent) - BroadcastRoom + 1,
                                     !.missed = "some", !.seen = {}])
  <2> DEFINE c == Len(sent) - BroadcastRoom + 1
             after == [b EXCEPT !.cursor = c, !.missed = "some", !.seen = {}]
  <2>1. c \in Nat /\ c \in 1..(Len(sent) + 1)
    <3>1. Len(sent) - b.cursor + 1 > BroadcastRoom  BY <1>3, Zenon DEF Lags
    <3>2. Len(sent) \in Nat /\ BroadcastRoom \in Nat \ {0} /\ b.cursor \in Nat /\ b.cursor >= 1
      BY <1>1, PtyAssumption
    <3> HIDE DEF b, sent
    <3> QED BY <3>1, <3>2
  <2> HIDE DEF c
  <2>2. /\ after \in Bridges /\ after.phase = "bridging" /\ after.gen = b.gen
        /\ after.cursor = c /\ after.missed = "some"
    BY <1>1, <2>1, Zenon DEF Bridges, BridgePhases
  <2>3. bridge' = [bridge EXCEPT ![l] = after]  BY <1>3, Zenon DEF SetBridge, c
  <2> HIDE DEF after
  <2>4. after.cursor \in 1..(Len(broadcast[after.gen]) + 1)  BY <2>1, <2>2, Zenon
  <2> QED BY <1>1, <1>2, <2>2, <2>3, <2>4, BridgeSettles, Zenon DEF CreatingPhases
<1>4. CASE /\ b.cursor <= Len(sent)
           /\ SetBridge(l, [b EXCEPT !.cursor = @ + 1, !.seen = @ \cup {sent[b.cursor]}])
  <2> DEFINE after == [b EXCEPT !.cursor = @ + 1, !.seen = @ \cup {sent[b.cursor]}]
  <2>1. sent[b.cursor] \in Nat /\ b.cursor \in 1..Len(sent)  BY <1>1, <1>4, SMTT(30)
  <2>2. /\ after \in Bridges /\ after.phase = "bridging" /\ after.gen = b.gen
        /\ after.cursor = b.cursor + 1 /\ after.missed = b.missed
        /\ after.seen = b.seen \cup {sent[b.cursor]}
    <3> DEFINE c == b.cursor + 1
               seen == b.seen \cup {sent[b.cursor]}
    <3>1. c \in Nat /\ seen \in SUBSET Nat
      <4>1. b.cursor \in Nat /\ b.seen \subseteq Nat  BY <1>1, Zenon DEF Bridges
      <4> HIDE DEF b, sent
      <4> QED BY <2>1, <4>1
    <3>2. after = [b EXCEPT !.cursor = c, !.seen = seen]  BY <1>1, Zenon DEF Bridges
    <3> HIDE DEF c, seen, after
    <3>3. /\ after \in Bridges /\ after.phase = b.phase /\ after.gen = b.gen
          /\ after.cursor = c /\ after.missed = b.missed /\ after.seen = seen
      BY <1>1, <3>1, <3>2, Zenon DEF Bridges
    <3> QED BY <1>1, <3>3, Zenon DEF c, seen
  <2>3. bridge' = [bridge EXCEPT ![l] = after]  BY <1>4, Zenon DEF SetBridge
  <2> HIDE DEF after
  <2>4. after.cursor \in 1..(Len(broadcast[after.gen]) + 1)  BY <1>1, <2>1, <2>2, SMTT(30)
  <2>5. ASSUME b.missed = "nothing"
        PROVE  MissesNothing(after.gen, after.cursor, after.seen)
    <3>1. SUFFICES ASSUME NEW k \in 1..screen[b.gen]
                   PROVE  \/ k \in after.seen
                          \/ \E i \in after.cursor..Len(sent) : sent[i] = k
                          \/ reader[b.gen] = "sending" /\ k = screen[b.gen]
      BY <2>2, Zenon DEF MissesNothing
    <3>2. \/ k \in b.seen
          \/ \E i \in b.cursor..Len(sent) : sent[i] = k
          \/ reader[b.gen] = "sending" /\ k = screen[b.gen]
      BY <1>1, <2>5, Zenon DEF PtyCore, NothingMissed
    <3>3. \A i \in b.cursor..Len(sent) : i = b.cursor \/ i \in (b.cursor + 1)..Len(sent)
      BY <2>1
    <3> QED BY <2>2, <3>2, <3>3, Zenon
  <2> HIDE DEF b, sent
  <2> QED BY <1>1, <1>2, <2>2, <2>3, <2>4, <2>5, BridgeSettles, Zenon DEF CreatingPhases, b
<1>5. CASE SetBridge(l, Answered(b, "closed"))
  <2>1. Answered(b, "closed") \in Bridges /\ Answered(b, "closed").phase = "over"
    BY AnsweredBridge, Zenon
  <2> QED BY <1>1, <1>2, <1>5, <2>1, BridgeSettles, Zenon DEF CreatingPhases, SetBridge
<1>6. CASE SetBridge(l, [b EXCEPT !.phase = "switch"])
  <2> DEFINE after == [b EXCEPT !.phase = "switch"]
  <2>1. after \in Bridges /\ after.phase = "switch" /\ after.gen = b.gen
    BY <1>1, Zenon DEF Bridges, BridgePhases
  <2>2. bridge' = [bridge EXCEPT ![l] = after]  BY <1>6, Zenon DEF SetBridge
  <2> HIDE DEF after
  <2> QED BY <1>1, <1>2, <2>1, <2>2, BridgeSettles, Zenon DEF CreatingPhases
<1>7. \/ Lags(b) /\ SetBridge(l, [b EXCEPT !.cursor = Len(sent) - BroadcastRoom + 1,
                                           !.missed = "some", !.seen = {}])
      \/ /\ b.cursor <= Len(sent)
         /\ SetBridge(l, [b EXCEPT !.cursor = @ + 1, !.seen = @ \cup {sent[b.cursor]}])
      \/ SetBridge(l, Answered(b, "closed"))
      \/ SetBridge(l, [b EXCEPT !.phase = "switch"])
  BY Zenon DEF BridgeForwards
<1> QED BY <1>3, <1>4, <1>5, <1>6, <1>7, Zenon

-----------------------------------------------------------------------------
(* A bridge that creates the session                                         *)

\* What a step that leaves the output alone, and no bridge attached that was
\* not, does to the attached ones.
LEMMA OutputUntouched ==
    ASSUME PtyCore, NEW l \in Links, NEW b \in Bridges,
           bridge' = [bridge EXCEPT ![l] = b], b.phase \notin {"replay", "bridging"},
           UNCHANGED <<screen, broadcast>>,
           \A g \in Gens : reader[g] # "none" => reader'[g] = reader[g]
    PROVE  CursorsBehind' /\ NothingMissed'
<1>1. bridge'[l] = b /\ \A m \in Links : m # l => bridge'[m] = bridge[m]
  BY Zenon DEF PtyCore, PtyTypeOK
<1>2. CursorsBehind'  BY <1>1, Zenon DEF PtyCore, CursorsBehind
<1>3. ASSUME NEW m \in Links, bridge'[m].phase = "bridging", bridge'[m].missed = "nothing",
             NEW k \in 1..screen'[bridge'[m].gen]
      PROVE  \/ k \in bridge'[m].seen
             \/ \E i \in bridge'[m].cursor..Len(broadcast'[bridge'[m].gen]) :
                   broadcast'[bridge'[m].gen][i] = k
             \/ reader'[bridge'[m].gen] = "sending" /\ k = screen'[bridge'[m].gen]
  <2>1. bridge'[m] = bridge[m]  BY <1>1, <1>3, Zenon
  <2>2. bridge[m].gen \in Gens  BY <1>3, <2>1, Zenon DEF PtyCore, PtyTypeOK
  <2>3. \/ k \in bridge[m].seen
        \/ \E i \in bridge[m].cursor..Len(broadcast[bridge[m].gen]) :
              broadcast[bridge[m].gen][i] = k
        \/ reader[bridge[m].gen] = "sending" /\ k = screen[bridge[m].gen]
    BY <1>3, <2>1, Zenon DEF PtyCore, NothingMissed
  <2> QED BY <2>1, <2>2, <2>3, Zenon
<1>4. NothingMissed'  BY <1>3, Zenon DEF NothingMissed
<1> QED BY <1>2, <1>4, Zenon

\* A bridge gets the creation lock.
LEMMA BridgeLocksKeeps ==
    ASSUME PtyCore, NEW l \in Links, BridgeLocks(l)
    PROVE  PtyCore'
<1> DEFINE b == [bridge[l] EXCEPT !.phase = "recheck"]
<1>1. /\ bridge[l].phase = "queue" /\ holder = "free" /\ holder' = "bridge"
      /\ bridge' = [bridge EXCEPT ![l] = b]
      /\ UNCHANGED <<table, nextId, child, screen, broadcast, reader, monitor, dials, route,
                     inForce, proxy, cleanup>>
  BY Zenon DEF BridgeLocks, SetBridge
<1>2. b \in Bridges /\ b.phase = "recheck"
  <2>1. bridge[l] \in Bridges  BY Zenon DEF PtyCore, PtyTypeOK
  <2> QED BY <2>1, Zenon DEF Bridges, BridgePhases
<1> HIDE DEF b
<1> USE DEF PtyCore
<1>3. bridge'[l] = b /\ \A m \in Links : m # l => bridge'[m] = bridge[m]
  BY <1>1, Zenon DEF PtyTypeOK
<1>4. PtyTypeOK'  BY <1>1, <1>2, <1>3, Zenon DEF PtyTypeOK
<1>5. OneCreator'  BY <1>1, <1>2, <1>3 DEF OneCreator, CreatingPhases, ReplacingPhases
<1>6. Answerable'  BY <1>1, <1>3 DEF Answerable
<1>7. NameIsFree'  BY <1>1, <1>2, <1>3, Zenon DEF NameIsFree
<1>8. RouteIsCurrent'
  <2>1. \A m \in Links : bridge'[m].phase \in {"prepare", "insert"} => bridge'[m] = bridge[m]
    BY <1>2, <1>3, Zenon
  <2>2. \A g \in Gens : child'[g] = child[g] /\ dials'[g] = dials[g] /\ monitor'[g] = monitor[g]
    BY <1>1, Zenon
  <2> QED BY <1>1, <2>1, <2>2 DEF RouteIsCurrent
<1>9. CursorsBehind' /\ NothingMissed'  BY <1>1, <1>2, OutputUntouched, Zenon
<1> QED BY <1>4, <1>5, <1>6, <1>7, <1>8, <1>9, Zenon

\* The second look, under the lock: nothing there, so the name is free.
LEMMA BridgeRechecksKeeps ==
    ASSUME PtyCore, NEW l \in Links, BridgeRechecks(l)
    PROVE  PtyCore'
<1>1. /\ bridge[l] \in Bridges /\ bridge[l].phase = "recheck" /\ table' = Existing
      /\ UNCHANGED <<nextId, child, screen, broadcast, reader, monitor, dials, route, inForce,
                     proxy, cleanup>>
  BY Zenon DEF BridgeRechecks, ReapTable, PtyCore, PtyTypeOK
<1>2. CASE Existing # NoSession
  <2>1. bridge' = [bridge EXCEPT ![l] = Subscribed(bridge[l], Existing)] /\ holder' = "free"
    BY <1>2, Zenon DEF BridgeRechecks, SetBridge
  <2>2. Existing \in Gens  BY <1>2, ExistingRuns, Zenon DEF PtyCore
  <2>3. PICK b \in Bridges : b = Subscribed(bridge[l], Existing)
    BY <1>1, <2>2, SubscribedBridge, Zenon
  <2>4. b.phase = "replay" /\ b.gen \in Gens /\ b.cursor \in 1..(Len(broadcast[b.gen]) + 1)
    BY <1>1, <2>2, <2>3, SubscribedBridge
  <2> QED BY <1>1, <2>1, <2>3, <2>4, BridgeSettles, Zenon DEF CreatingPhases
<1>3. CASE Existing = NoSession
  <2> DEFINE b == [bridge[l] EXCEPT !.phase = "build"]
  <2>1. bridge' = [bridge EXCEPT ![l] = b] /\ holder' = holder
    BY <1>3, Zenon DEF BridgeRechecks, SetBridge
  <2>2. b \in Bridges /\ b.phase = "build"  BY <1>1, Zenon DEF Bridges, BridgePhases
  <2> HIDE DEF b
  <2> USE DEF PtyCore
  <2>3. bridge'[l] = b /\ \A m \in Links : m # l => bridge'[m] = bridge[m]
    BY <2>1, Zenon DEF PtyTypeOK
  <2>4. /\ table' = NoSession /\ table' \in 0..(nextId - 1)
        /\ \A g \in Gens : child[g] = "alive" => table # g
    <3>1. NoSession \notin Gens  BY PtyAssumption DEF NoSession, Gens
    <3>2. /\ Existing \in 0..(nextId - 1)
          /\ \A g \in Gens : child[g] = "alive" /\ table = g => Existing = g
      BY ExistingRuns, Zenon
    <3> QED BY <1>1, <1>3, <3>1, <3>2, Zenon
  <2>5. PtyTypeOK'  BY <1>1, <2>1, <2>2, <2>3, <2>4 DEF PtyTypeOK
  <2>6. OneCreator'
    BY <1>1, <2>1, <2>2, <2>3 DEF OneCreator, CreatingPhases, ReplacingPhases
  <2>7. Answerable'  BY <1>1, <2>3, <2>4 DEF Answerable
  <2>8. NameIsFree'  BY <2>4, Zenon DEF NameIsFree
  <2>9. RouteIsCurrent'
    BY <1>1, <2>2, <2>3, <2>4, PtyAssumption DEF RouteIsCurrent, NoSession, Gens
  <2>10. CursorsBehind' /\ NothingMissed'  BY <1>1, <2>1, <2>2, OutputUntouched, Zenon
  <2> QED BY <2>5, <2>6, <2>7, <2>8, <2>9, <2>10, Zenon
<1> QED BY <1>2, <1>3, Zenon

\* build_codex_spec reads the pod's endpoint.
LEMMA BridgeBuildsKeeps ==
    ASSUME PtyCore, NEW l \in Links, BridgeBuilds(l)
    PROVE  PtyCore'
<1>1. /\ bridge[l] \in Bridges /\ bridge[l].phase = "build"
      /\ UNCHANGED <<table, nextId, child, screen, broadcast, reader, monitor, dials, route,
                     inForce, proxy, cleanup>>
  BY Zenon DEF BridgeBuilds, PtyCore, PtyTypeOK
<1> DEFINE b == [bridge[l] EXCEPT !.phase = "prepare", !.via = route]
<1>2. \/ bridge' = [bridge EXCEPT ![l] = b] /\ holder' = holder
      \/ \E answer \in {"unavailable", "error"} :
           bridge' = [bridge EXCEPT ![l] = Answered(bridge[l], answer)] /\ holder' = "free"
  BY Zenon DEF BridgeBuilds, SetBridge
<1>3. ASSUME NEW answer \in {"unavailable", "error"}, holder' = "free",
             bridge' = [bridge EXCEPT ![l] = Answered(bridge[l], answer)]
      PROVE  PtyCore'
  <2>1. Answered(bridge[l], answer) \in Bridges /\ Answered(bridge[l], answer).phase = "over"
    BY AnsweredBridge, Zenon
  <2> QED BY <1>1, <1>3, <2>1, BridgeSettles, Zenon DEF CreatingPhases
<1>4. CASE bridge' = [bridge EXCEPT ![l] = b] /\ holder' = holder
  <2>1. route \in Nat  BY Zenon DEF PtyCore, PtyTypeOK
  <2>2. b \in Bridges /\ b.phase = "prepare" /\ b.via = route
    BY <1>1, <2>1, Zenon DEF Bridges, BridgePhases
  <2> HIDE DEF b
  <2> USE DEF PtyCore
  <2>3. bridge'[l] = b /\ \A m \in Links : m # l => bridge'[m] = bridge[m]
    BY <1>4, Zenon DEF PtyTypeOK
  <2>4. PtyTypeOK'  BY <1>1, <1>4, <2>2, <2>3, Zenon DEF PtyTypeOK
  <2>5. OneCreator'
    BY <1>1, <1>4, <2>2, <2>3 DEF OneCreator, CreatingPhases, ReplacingPhases
  <2>6. Answerable'  BY <1>1, <2>3 DEF Answerable
  <2>7. NameIsFree'  BY <1>1, <2>2, <2>3, Zenon DEF NameIsFree
  <2>8. RouteIsCurrent'
    <3>1. bridge'[l].phase = "prepare" /\ bridge'[l].via \in inForce
      BY <2>2, <2>3, Zenon DEF PtyTypeOK
    <3>2. \A m \in Links : bridge'[m].phase = "insert" => bridge'[m] = bridge[m]
      BY <2>3, <3>1, Zenon
    <3>3. \A m \in Links : bridge'[m].phase = "prepare" =>
            bridge'[m] = bridge[m] \/ bridge'[m].via \in inForce
      BY <2>3, <3>1, Zenon
    <3> QED BY <1>1, <3>2, <3>3, Zenon DEF RouteIsCurrent
  <2>9. CursorsBehind' /\ NothingMissed'  BY <1>1, <1>4, <2>2, OutputUntouched, Zenon
  <2> QED BY <2>4, <2>5, <2>6, <2>7, <2>8, <2>9, Zenon
<1> QED BY <1>2, <1>3, <1>4, Zenon

\* The child and its reader are started, for the endpoint read before; only
\* the holder of the lock starts any.
LEMMA BridgeSpawnsKeeps ==
    ASSUME PtyCore, NEW l \in Links, BridgeSpawns(l)
    PROVE  PtyCore'
<1>1. /\ bridge[l] \in Bridges /\ bridge[l].phase = "prepare"
      /\ UNCHANGED <<table, screen, broadcast, monitor, route, inForce, cleanup>>
  BY Zenon DEF BridgeSpawns, PtyCore, PtyTypeOK
<1> DEFINE n == nextId
           b == [bridge[l] EXCEPT !.phase = "insert", !.gen = n]
<1>2. CASE /\ bridge' = [bridge EXCEPT ![l] = Answered(bridge[l], "error")] /\ holder' = "free"
           /\ UNCHANGED <<proxy, nextId, child, reader, dials>>
  <2>1. Answered(bridge[l], "error") \in Bridges /\ Answered(bridge[l], "error").phase = "over"
    BY AnsweredBridge, Zenon
  <2> QED BY <1>1, <1>2, <2>1, BridgeSettles, Zenon DEF CreatingPhases
<1>3. CASE /\ n \in Gens /\ proxy' = bridge[l].via /\ nextId' = n + 1
           /\ child' = [child EXCEPT ![n] = "alive"]
           /\ reader' = [reader EXCEPT ![n] = "reading"]
           /\ dials' = [dials EXCEPT ![n] = bridge[l].via]
           /\ bridge' = [bridge EXCEPT ![l] = b] /\ holder' = holder
  <2>1. /\ n \in 0..Generations /\ n \in Nat /\ 1 <= n /\ n <= Generations /\ Generations \in Nat
        /\ bridge[l].via \in Nat
    BY <1>1, <1>3, PtyAssumption DEF Gens, Bridges
  <2>2. b \in Bridges /\ b.phase = "insert" /\ b.gen = n
    BY <1>1, <2>1, Zenon DEF Bridges, BridgePhases
  <2> HIDE DEF b
  <2> USE DEF PtyCore
  <2>3. bridge'[l] = b /\ \A m \in Links : m # l => bridge'[m] = bridge[m]
    BY <1>3, Zenon DEF PtyTypeOK
  <2>4. /\ child'[n] = "alive" /\ dials'[n] = bridge[l].via /\ reader'[n] = "reading"
        /\ \A g \in Gens : g # n =>
             child'[g] = child[g] /\ dials'[g] = dials[g] /\ reader'[g] = reader[g]
    BY <1>3, Zenon DEF PtyTypeOK
  <2>5. PtyTypeOK'
    <3>1. /\ child' \in [Gens -> {"none", "alive", "signalled", "dead"}]
          /\ reader' \in [Gens -> {"none", "reading", "sending", "done"}]
          /\ dials' \in [Gens -> Nat]
      BY <1>3, <2>1, Zenon DEF PtyTypeOK
    <3>2. bridge' \in [Links -> Bridges]  BY <1>3, <2>2, Zenon DEF PtyTypeOK
    <3>3. nextId' \in 1..(Generations + 1) /\ table' \in 0..(nextId' - 1)
      BY <1>1, <1>3, <2>1 DEF PtyTypeOK
    <3>4. \A g \in Gens : child'[g] = "alive" \/ reader'[g] # "none" => g < nextId'
      BY <1>3, <2>1, <2>4 DEF PtyTypeOK, Gens
    <3>5. \A m \in Links : bridge'[m].phase \in {"insert", "replay", "bridging", "switch"} =>
            bridge'[m].gen \in Gens
      BY <1>3, <2>2, <2>3, Zenon DEF PtyTypeOK
    <3>6. \A m \in Links : bridge'[m].phase = "insert" => bridge'[m].gen < nextId'
      <4>1. \A x \in Gens : x \in Nat  BY PtyAssumption DEF Gens
      <4>2. \A x \in Gens : x < n => x < nextId'  BY <1>3, <2>1, <4>1, UpToNext, Zenon
      <4>3. n < nextId'  BY <1>3, <2>1, UpToNext, Zenon
      <4> QED BY <2>2, <2>3, <3>5, <4>2, <4>3, Zenon DEF PtyTypeOK
    <3> QED BY <1>1, <3>1, <3>2, <3>3, <3>4, <3>5, <3>6, Zenon DEF PtyTypeOK
  <2>6. OneCreator'
    <3>1. \A g \in Gens : monitor[g] # "prepare"
      BY <1>1, Zenon DEF OneCreator, CreatingPhases, ReplacingPhases
    <3> QED BY <1>1, <1>3, <2>2, <2>3, <3>1 DEF OneCreator, CreatingPhases, ReplacingPhases
  <2>7. Answerable'
    <3>1. \A g \in Gens : g # n /\ child'[g] = "alive" =>
            \/ table' = g
            \/ \E m \in Links : bridge'[m].phase = "insert" /\ bridge'[m].gen = g
            \/ monitor'[g] \in {"notifying", "killing"}
            \/ cleanup'.phase = "killing" /\ cleanup'.gen = g
      BY <1>1, <2>3, <2>4 DEF Answerable
    <3>2. \E m \in Links : bridge'[m].phase = "insert" /\ bridge'[m].gen = n
      BY <2>2, <2>3, Zenon
    <3> QED BY <3>1, <3>2, Zenon DEF Answerable
  <2>8. NameIsFree'  BY <1>1, <2>2, <2>3, Zenon DEF NameIsFree
  <2>9. RouteIsCurrent'
    <3>1. SUFFICES ASSUME cleanup.phase = "none"
                   PROVE  /\ \A g \in Gens : child'[g] = "alive" /\ table' = g =>
                               dials'[g] \in inForce' /\ proxy' \in inForce'
                          /\ \A m \in Links : bridge'[m].phase = "prepare" =>
                               bridge'[m].via \in inForce'
                          /\ \A m \in Links : bridge'[m].phase = "insert" =>
                               dials'[bridge'[m].gen] \in inForce' /\ proxy' \in inForce'
                          /\ \A g \in Gens : monitor'[g] = "prepare" =>
                               dials'[nextId'] \in inForce'
      BY <1>1, Zenon DEF RouteIsCurrent
    <3>2. bridge[l].via \in inForce  BY <1>1, <3>1, Zenon DEF RouteIsCurrent
    <3>3. table' = NoSession /\ NoSession \notin Gens
      BY <1>1, PtyAssumption DEF NameIsFree, NoSession, Gens
    <3>4. \A m \in Links : m # l => bridge'[m].phase \notin {"prepare", "insert"}
      BY <1>1, <2>3, Zenon DEF OneCreator, CreatingPhases
    <3>5. \A g \in Gens : monitor'[g] # "prepare"
      BY <1>1, Zenon DEF OneCreator, CreatingPhases, ReplacingPhases
    <3>6. dials'[bridge'[l].gen] \in inForce' /\ proxy' \in inForce' /\ bridge'[l].phase = "insert"
      <4>1. bridge'[l].gen = n /\ dials'[n] = bridge[l].via  BY <1>3, <2>2, <2>3, <2>4, Zenon
      <4>2. proxy' = bridge[l].via /\ inForce' = inForce  BY <1>1, <1>3, Zenon
      <4>3. bridge'[l].phase = "insert"  BY <2>2, <2>3, Zenon
      <4> QED BY <3>2, <4>1, <4>2, <4>3, Zenon
    <3> QED BY <3>3, <3>4, <3>5, <3>6, Zenon
  <2>10. CursorsBehind' /\ NothingMissed'
    <3>1. \A g \in Gens : reader[g] # "none" => reader'[g] = reader[g]
      BY <2>1, <2>4 DEF PtyTypeOK
    <3> QED BY <1>1, <1>3, <2>2, <3>1, OutputUntouched, Zenon
  <2> QED BY <2>5, <2>6, <2>7, <2>8, <2>9, <2>10, Zenon
<1> QED BY <1>2, <1>3, Zenon DEF BridgeSpawns, SetBridge, EnsureProxy, SpawnChild, CanSpawn

\* The child is registered under the free name.
LEMMA BridgeInsertsKeeps ==
    ASSUME PtyCore, NEW l \in Links, BridgeInserts(l)
    PROVE  PtyCore'
<1> DEFINE b == [bridge[l] EXCEPT !.phase = "join"]
           n == bridge[l].gen
<1>1. /\ bridge[l] \in Bridges /\ bridge[l].phase = "insert" /\ n \in Gens
      /\ table' = n /\ monitor' = [monitor EXCEPT ![n] = "watching"]
      /\ bridge' = [bridge EXCEPT ![l] = b]
      /\ UNCHANGED <<nextId, child, screen, broadcast, reader, dials, holder, route, inForce,
                     proxy, cleanup>>
  BY Zenon DEF BridgeInserts, SetBridge, PtyCore, PtyTypeOK
<1>2. b \in Bridges /\ b.phase = "join"  BY <1>1, Zenon DEF Bridges, BridgePhases
<1> HIDE DEF b, n
<1> USE DEF PtyCore
<1>3. bridge'[l] = b /\ \A m \in Links : m # l => bridge'[m] = bridge[m]
  BY <1>1, Zenon DEF PtyTypeOK
<1>4. monitor'[n] = "watching" /\ \A g \in Gens : g # n => monitor'[g] = monitor[g]
  BY <1>1, Zenon DEF PtyTypeOK
<1>5. \A m \in Links : m # l => bridge'[m].phase \notin CreatingPhases
  BY <1>1, <1>3, Zenon DEF OneCreator, CreatingPhases
<1>6. holder = "bridge" /\ \A g \in Gens : monitor[g] \notin ReplacingPhases
  BY <1>1, Zenon DEF OneCreator, CreatingPhases
<1>7. PtyTypeOK'
  <2>1. n < nextId  BY <1>1, Zenon DEF PtyTypeOK, n
  <2>2. table' \in 0..(nextId' - 1)  BY <1>1, <2>1, PtyAssumption DEF PtyTypeOK, Gens
  <2>3. monitor' \in [Gens -> {"none", "watching", "recovering", "queue", "build", "prepare",
                               "notifying", "killing", "done"}]
    BY <1>1, Zenon DEF PtyTypeOK
  <2>4. bridge' \in [Links -> Bridges]  BY <1>1, <1>2, Zenon DEF PtyTypeOK
  <2> QED BY <1>1, <1>2, <1>3, <2>2, <2>3, <2>4, SMTT(30) DEF PtyTypeOK
<1>8. OneCreator'
  BY <1>1, <1>2, <1>3, <1>4, <1>5, <1>6 DEF OneCreator, CreatingPhases, ReplacingPhases
<1>9. Answerable'
  <2>1. table = NoSession /\ NoSession \notin Gens
    BY <1>1, PtyAssumption DEF NameIsFree, NoSession, Gens
  <2>2. \A g \in Gens : child[g] = "alive" /\ g # n => cleanup.phase = "killing" /\ cleanup.gen = g
    BY <1>1, <1>3, <1>5, <1>6, <2>1 DEF Answerable, CreatingPhases, ReplacingPhases, n
  <2> QED BY <1>1, <2>2, Zenon DEF Answerable
<1>10. NameIsFree'
  <2>1. cleanup.phase # "killing"  BY <1>6, Zenon DEF OneCreator
  <2> QED BY <1>1, <1>2, <1>3, <1>5, <2>1, Zenon DEF NameIsFree, CreatingPhases
<1>11. RouteIsCurrent'
  BY <1>1, <1>2, <1>3, <1>4, <1>5, <1>6 DEF RouteIsCurrent, CreatingPhases, ReplacingPhases, n
<1>12. CursorsBehind' /\ NothingMissed'  BY <1>1, <1>2, OutputUntouched, Zenon
<1> QED BY <1>7, <1>8, <1>9, <1>10, <1>11, <1>12, Zenon

-----------------------------------------------------------------------------
(* Children, readers and users                                               *)

\* No output is added, and a reader that has a chunk to send still has it.
LEMMA OutputTheSame ==
    ASSUME PtyCore, UNCHANGED <<bridge, screen, broadcast>>,
           \A h \in Gens : reader[h] = "sending" => reader'[h] = "sending"
    PROVE  CursorsBehind' /\ NothingMissed'
<1> USE DEF PtyCore
<1>1. CursorsBehind'  BY Zenon DEF CursorsBehind
<1>2. bridge' = bridge /\ screen' = screen /\ broadcast' = broadcast  BY Zenon
<1>3. SUFFICES ASSUME NEW l \in Links, bridge[l].phase = "bridging",
                      bridge[l].missed = "nothing", NEW k \in 1..screen[bridge[l].gen]
               PROVE  \/ k \in bridge[l].seen
                      \/ \E i \in bridge[l].cursor..Len(broadcast[bridge[l].gen]) :
                            broadcast[bridge[l].gen][i] = k
                      \/ reader'[bridge[l].gen] = "sending" /\ k = screen[bridge[l].gen]
  BY <1>1, <1>2 DEF NothingMissed
<1>4. bridge[l].gen \in Gens  BY <1>3, Zenon DEF PtyTypeOK
<1> QED BY <1>3, <1>4, Zenon DEF NothingMissed

\* What NothingMissed says after a step that attaches nobody.
LEMMA NoneMisses ==
    ASSUME UNCHANGED <<bridge, screen>>,
           \A l \in Links : bridge[l].phase = "bridging" /\ bridge[l].missed = "nothing" =>
             \A k \in 1..screen[bridge[l].gen] :
               \/ k \in bridge[l].seen
               \/ \E i \in bridge[l].cursor..Len(broadcast'[bridge[l].gen]) :
                     broadcast'[bridge[l].gen][i] = k
               \/ reader'[bridge[l].gen] = "sending" /\ k = screen[bridge[l].gen]
    PROVE  NothingMissed'
BY Zenon DEF NothingMissed

\* A message is added to an output: the chunk its reader had to send, or
\* Replaced.
LEMMA OutputAppended ==
    ASSUME PtyCore, NEW g \in Gens, NEW x \in Nat,
           broadcast' = [broadcast EXCEPT ![g] = Append(@, x)], UNCHANGED <<bridge, screen>>,
           \A h \in Gens : reader[h] = "sending" =>
             (h = g /\ x = screen[g]) \/ reader'[h] = "sending"
    PROVE  CursorsBehind' /\ NothingMissed'
<1> USE DEF PtyCore
<1>1. /\ broadcast[g] \in Seq(Nat) /\ broadcast'[g] = Append(broadcast[g], x)
      /\ \A h \in Gens : h # g => broadcast'[h] = broadcast[h]
  BY Zenon DEF PtyTypeOK
<1>2. /\ Len(broadcast'[g]) = Len(broadcast[g]) + 1 /\ Len(broadcast[g]) \in Nat
      /\ broadcast'[g][Len(broadcast[g]) + 1] = x
      /\ \A i \in 1..Len(broadcast[g]) : broadcast'[g][i] = broadcast[g][i]
  BY <1>1
<1>3. bridge' = bridge /\ screen' = screen  BY Zenon
<1>4. ASSUME NEW l \in Links, bridge[l].phase \in {"replay", "bridging"}
      PROVE  bridge[l].cursor \in 1..(Len(broadcast'[bridge[l].gen]) + 1)
  <2>1. /\ bridge[l].gen \in Gens
        /\ bridge[l].cursor \in 1..(Len(broadcast[bridge[l].gen]) + 1)
    BY <1>4, Zenon DEF PtyTypeOK, CursorsBehind
  <2>2. CASE bridge[l].gen = g  BY <1>2, <2>1, <2>2
  <2>3. CASE bridge[l].gen # g  BY <1>1, <2>1, <2>3, Zenon
  <2> QED BY <2>2, <2>3, Zenon
<1>5. CursorsBehind'  BY <1>3, <1>4, Zenon DEF CursorsBehind
<1>6. ASSUME NEW l \in Links, bridge[l].phase = "bridging", bridge[l].missed = "nothing",
             NEW k \in 1..screen[bridge[l].gen]
      PROVE  \/ k \in bridge[l].seen
             \/ \E i \in bridge[l].cursor..Len(broadcast'[bridge[l].gen]) :
                   broadcast'[bridge[l].gen][i] = k
             \/ reader'[bridge[l].gen] = "sending" /\ k = screen[bridge[l].gen]
  <2>1. /\ bridge[l].gen \in Gens
        /\ bridge[l].cursor \in 1..(Len(broadcast[bridge[l].gen]) + 1)
    BY <1>6, Zenon DEF PtyTypeOK, CursorsBehind
  <2>2. \/ k \in bridge[l].seen
        \/ \E i \in bridge[l].cursor..Len(broadcast[bridge[l].gen]) :
              broadcast[bridge[l].gen][i] = k
        \/ reader[bridge[l].gen] = "sending" /\ k = screen[bridge[l].gen]
    BY <1>6, Zenon DEF NothingMissed
  <2>3. CASE bridge[l].gen # g  BY <1>1, <2>1, <2>2, <2>3, Zenon
  <2>4. CASE bridge[l].gen = g
    <3>1. Len(broadcast[g]) + 1 \in bridge[l].cursor..Len(broadcast'[g])
      BY <1>2, <2>1, <2>4
    <3>2. \A i \in bridge[l].cursor..Len(broadcast[g]) :
            i \in bridge[l].cursor..Len(broadcast'[g]) /\ broadcast'[g][i] = broadcast[g][i]
      BY <1>2, <2>1, <2>4
    <3>3. CASE k \in bridge[l].seen  BY <3>3, Zenon
    <3>4. CASE \E i \in bridge[l].cursor..Len(broadcast[g]) : broadcast[g][i] = k
      BY <2>4, <3>2, <3>4, Zenon
    <3>5. CASE reader[g] = "sending" /\ k = screen[g]
      <4>1. x = screen[g] \/ reader'[g] = "sending"  BY <3>5, Zenon
      <4>2. CASE x = screen[g]
        <5>1. broadcast'[g][Len(broadcast[g]) + 1] = k  BY <1>2, <3>5, <4>2, Zenon
        <5> QED BY <2>4, <3>1, <5>1, Zenon
      <4>3. CASE reader'[g] = "sending"  BY <2>4, <3>5, <4>3, Zenon
      <4> QED BY <4>1, <4>2, <4>3, Zenon
    <3> QED BY <2>2, <2>4, <3>3, <3>4, <3>5, Zenon
  <2> QED BY <2>3, <2>4, Zenon
<1>7. NothingMissed'  BY <1>6, NoneMisses, Zenon
<1> QED BY <1>5, <1>7, Zenon

\* A reader that sends, and what is attached to it, as output is added.
LEMMA ReadersKeep ==
    ASSUME PtyCore, NEW g \in Gens,
           ChildExits(g) \/ ReaderParses(g) \/ ReaderBroadcasts(g) \/ ReaderEnds(g)
    PROVE  PtyCore'
<1> USE DEF PtyCore
<1>1. CASE ChildExits(g)
  <2>1. /\ child' = [child EXCEPT ![g] = "dead"] /\ child[g] \in {"alive", "signalled"}
        /\ UNCHANGED <<nextId, table, screen, broadcast, reader, monitor, dials, holder, route,
                       inForce, proxy, cleanup, bridge>>
    BY <1>1, Zenon DEF ChildExits, Runs
  <2>2. \A h \in Gens : child'[h] = "alive" => child[h] = "alive"  BY <2>1, Zenon DEF PtyTypeOK
  <2>3. PtyTypeOK'
    <3>1. child' \in [Gens -> {"none", "alive", "signalled", "dead"}]  BY <2>1, Zenon DEF PtyTypeOK
    <3> QED BY <2>1, <2>2, <3>1, Zenon DEF PtyTypeOK
  <2>4. OneCreator' /\ NameIsFree' /\ CursorsBehind' /\ NothingMissed'
    BY <2>1, Zenon DEF OneCreator, NameIsFree, CursorsBehind, NothingMissed
  <2>5. Answerable' /\ RouteIsCurrent'  BY <2>1, <2>2, Zenon DEF Answerable, RouteIsCurrent
  <2> QED BY <2>3, <2>4, <2>5, Zenon
<1>2. CASE ReaderParses(g)
  <2>1. /\ reader[g] = "reading" /\ screen' = [screen EXCEPT ![g] = @ + 1]
        /\ reader' = [reader EXCEPT ![g] = "sending"]
        /\ UNCHANGED <<nextId, table, child, broadcast, monitor, dials, holder, route, inForce,
                       proxy, cleanup, bridge>>
    BY <1>2, Zenon DEF ReaderParses
  <2>2. /\ screen'[g] = screen[g] + 1 /\ reader'[g] = "sending" /\ screen[g] \in Nat
        /\ \A h \in Gens : h # g => screen'[h] = screen[h] /\ reader'[h] = reader[h]
    BY <2>1, Zenon DEF PtyTypeOK
  <2>3. PtyTypeOK'
    <3>1. /\ screen' \in [Gens -> Nat]
          /\ reader' \in [Gens -> {"none", "reading", "sending", "done"}]
      BY <2>1, <2>2 DEF PtyTypeOK
    <3> QED BY <2>1, <2>2, <3>1, Zenon DEF PtyTypeOK
  <2>4. OneCreator' /\ NameIsFree' /\ CursorsBehind' /\ Answerable' /\ RouteIsCurrent'
    <3>1. OneCreator'  BY <2>1, Zenon DEF OneCreator
    <3>2. NameIsFree' /\ CursorsBehind'  BY <2>1, Zenon DEF NameIsFree, CursorsBehind
    <3>3. Answerable'  BY <2>1, Zenon DEF Answerable
    <3>4. RouteIsCurrent'  BY <2>1, Zenon DEF RouteIsCurrent
    <3> QED BY <3>1, <3>2, <3>3, <3>4, Zenon
  <2>5. ASSUME NEW l \in Links, bridge[l].phase = "bridging", bridge[l].missed = "nothing",
               NEW k \in 1..screen'[bridge[l].gen]
        PROVE  \/ k \in bridge[l].seen
               \/ \E i \in bridge[l].cursor..Len(broadcast[bridge[l].gen]) :
                     broadcast[bridge[l].gen][i] = k
               \/ reader'[bridge[l].gen] = "sending" /\ k = screen'[bridge[l].gen]
    <3>1. bridge[l].gen \in Gens  BY <2>5, Zenon DEF PtyTypeOK
    <3>2. CASE bridge[l].gen # g  BY <2>2, <2>5, <3>1, <3>2, Zenon DEF NothingMissed
    <3>3. CASE bridge[l].gen = g
      <4>1. k = screen'[g] \/ k \in 1..screen[g]  BY <2>2, <2>5, <3>3, UpToNext, Zenon
      <4> QED BY <2>1, <2>2, <2>5, <3>3, <4>1, Zenon DEF NothingMissed
    <3> QED BY <3>2, <3>3, Zenon
  <2>6. NothingMissed'  BY <2>1, <2>5 DEF NothingMissed
  <2> QED BY <2>3, <2>4, <2>6, Zenon
<1>3. CASE ReaderBroadcasts(g)
  <2>1. /\ reader[g] = "sending" /\ broadcast' = [broadcast EXCEPT ![g] = Append(@, screen[g])]
        /\ reader' = [reader EXCEPT ![g] = "reading"]
        /\ UNCHANGED <<nextId, table, child, screen, monitor, dials, holder, route, inForce, proxy,
                       cleanup, bridge>>
    BY <1>3, Zenon DEF ReaderBroadcasts
  <2>2. /\ broadcast[g] \in Seq(Nat) /\ screen[g] \in Nat
        /\ broadcast'[g] = Append(broadcast[g], screen[g]) /\ reader'[g] = "reading"
        /\ \A h \in Gens : h # g => broadcast'[h] = broadcast[h] /\ reader'[h] = reader[h]
    BY <2>1, Zenon DEF PtyTypeOK
  <2>3. broadcast'[g] \in Seq(Nat)  BY <2>2
  <2>4. PtyTypeOK'
    <3>1. broadcast' \in [Gens -> Seq(Nat)]  BY <2>1, <2>2, <2>3, Zenon DEF PtyTypeOK
    <3>2. reader' \in [Gens -> {"none", "reading", "sending", "done"}]
      BY <2>1, Zenon DEF PtyTypeOK
    <3> QED BY <2>1, <2>2, <3>1, <3>2, Zenon DEF PtyTypeOK
  <2>5. OneCreator' /\ NameIsFree' /\ Answerable' /\ RouteIsCurrent'
    <3>1. OneCreator'  BY <2>1, Zenon DEF OneCreator
    <3>2. NameIsFree'  BY <2>1, Zenon DEF NameIsFree
    <3>3. Answerable'  BY <2>1, Zenon DEF Answerable
    <3>4. RouteIsCurrent'  BY <2>1, Zenon DEF RouteIsCurrent
    <3> QED BY <3>1, <3>2, <3>3, <3>4, Zenon
  <2>6. CursorsBehind' /\ NothingMissed'
    <3>1. \A h \in Gens : reader[h] = "sending" => h = g \/ reader'[h] = "sending"  BY <2>2, Zenon
    <3> QED BY <2>1, <2>2, <3>1, OutputAppended, Zenon
  <2> QED BY <2>4, <2>5, <2>6, Zenon
<1>4. CASE ReaderEnds(g)
  <2>1. /\ reader[g] = "reading" /\ child[g] = "dead" /\ reader' = [reader EXCEPT ![g] = "done"]
        /\ table' = IF table = g THEN NoSession ELSE table
        /\ UNCHANGED <<nextId, child, screen, broadcast, monitor, dials, holder, route, inForce,
                       proxy, cleanup, bridge>>
    BY <1>4, Zenon DEF ReaderEnds, RemoveSession
  <2>2. /\ reader'[g] = "done" /\ \A h \in Gens : h # g => reader'[h] = reader[h]
        /\ \A h \in Gens : child[h] = "alive" => (table' = h <=> table = h)
        /\ table' \in {table, NoSession} /\ NoSession \notin Gens
    <3>1. NoSession \notin Gens  BY PtyAssumption DEF NoSession, Gens
    <3>2. reader'[g] = "done" /\ \A h \in Gens : h # g => reader'[h] = reader[h]
      BY <2>1, Zenon DEF PtyTypeOK
    <3>3. \A h \in Gens : child[h] = "alive" => h # g  BY <2>1, Zenon
    <3> QED BY <2>1, <3>1, <3>2, <3>3, Zenon
  <2>3. PtyTypeOK'
    <3>1. reader' \in [Gens -> {"none", "reading", "sending", "done"}]  BY <2>1, Zenon DEF PtyTypeOK
    <3>2. table' \in 0..(nextId' - 1)  BY <2>1, <2>2 DEF PtyTypeOK, NoSession
    <3>3. \A h \in Gens : reader'[h] # "none" => reader[h] # "none"  BY <2>1, <2>2, Zenon
    <3> QED BY <2>1, <3>1, <3>2, <3>3, Zenon DEF PtyTypeOK
  <2>4. OneCreator' /\ CursorsBehind'  BY <2>1, Zenon DEF OneCreator, CursorsBehind
  <2>5. NameIsFree'  BY <2>1, <2>2, Zenon DEF NameIsFree
  <2>6. Answerable' /\ RouteIsCurrent'  BY <2>1, <2>2, Zenon DEF Answerable, RouteIsCurrent
  <2>7. \A h \in Gens : reader[h] = "sending" => reader'[h] = "sending"  BY <2>1, <2>2, Zenon
  <2>8. NothingMissed'  BY <2>1, <2>7, OutputTheSame, Zenon
  <2> QED BY <2>3, <2>4, <2>5, <2>6, <2>8, Zenon
<1> QED BY <1>1, <1>2, <1>3, <1>4, Zenon

\* A user's steps change only the WebSocket, and a new one looks at the table.
LEMMA UsersKeep ==
    ASSUME PtyInv, NEW u \in Users,
           \/ UserConnects(u) \/ UserHearsStopped(u) \/ LinkDies(u)
           \/ UserPings(u) \/ UserHears(u) \/ UserLaunches(u) \/ UserDetaches(u)
    PROVE  PtyCore'
<1>1. UNCHANGED <<table, holder, nextId, child, screen, broadcast, reader, monitor, dials, route,
                  inForce, proxy, cleanup>>
  BY Zenon DEF UserConnects, UserHearsStopped, LinkDies, UserPings, UserHears, UserLaunches,
         UserDetaches
<1>2. CASE UNCHANGED bridge
  <2> USE <1>1, <1>2
  <2>1. PtyTypeOK'  BY Zenon DEF PtyInv, PtyCore, PtyTypeOK
  <2>2. OneCreator'  BY Zenon DEF PtyInv, PtyCore, OneCreator
  <2>3. Answerable'  BY Zenon DEF PtyInv, PtyCore, Answerable
  <2>4. NameIsFree'  BY Zenon DEF PtyInv, PtyCore, NameIsFree
  <2>5. RouteIsCurrent'  BY Zenon DEF PtyInv, PtyCore, RouteIsCurrent
  <2>6. CursorsBehind'  BY Zenon DEF PtyInv, PtyCore, CursorsBehind
  <2>7. NothingMissed'  BY Zenon DEF PtyInv, PtyCore, NothingMissed
  <2> QED BY <2>1, <2>2, <2>3, <2>4, <2>5, <2>6, <2>7, Zenon DEF PtyCore
<1>3. CASE UserConnects(u)
  <2> DEFINE l == <<u, user[u].link + 1>>
  <2>1. PICK frame \in {"attach", "reconnect"} : bridge' = [bridge EXCEPT ![l] = Looking(frame)]
    BY <1>3, Zenon DEF UserConnects
  <2>2. CASE l \notin Links
    <3>1. bridge' = bridge  BY <2>1, <2>2, Zenon DEF PtyInv, PtyCore, PtyTypeOK
    <3> QED BY <1>2, <3>1, Zenon
  <2>3. CASE l \in Links
    <3>1. bridge[l].phase = "none"  BY <2>3 DEF PtyInv, Unused
    <3>2. Looking(frame) \in Bridges /\ Looking(frame).phase = "look"
      BY IdleBridge, Zenon DEF Looking, Bridges, BridgePhases
    <3> HIDE DEF l
    <3> QED BY <1>1, <2>1, <2>3, <3>1, <3>2, BridgeSettles, Zenon DEF PtyInv, CreatingPhases
  <2> QED BY <2>2, <2>3, Zenon
<1> QED BY <1>2, <1>3, Zenon DEF UserHearsStopped, LinkDies, UserPings, UserHears, UserLaunches,
    UserDetaches

\* A bridge that is at work is that of a WebSocket its user has opened.
LEMMA UnusedKept ==
    ASSUME PtyInv, PtyNext
    PROVE  Unused'
<1> USE DEF PtyInv
<1>0. UNCHANGED scenario
  <2>1. ASSUME NEW g \in Gens, ChildExits(g) \/ ReaderParses(g) \/ ReaderBroadcasts(g)
                 \/ ReaderEnds(g) \/ MonitorWatches(g) \/ MonitorProbes(g) \/ MonitorLocks(g)
                 \/ MonitorBuilds(g) \/ MonitorInserts(g) \/ MonitorNotifies(g) \/ MonitorKills(g)
        PROVE  scenario' = scenario
    BY <2>1, Zenon DEF ChildExits, ReaderParses, ReaderBroadcasts, ReaderEnds, MonitorWatches,
       MonitorProbes, MonitorLocks, MonitorBuilds, MonitorInserts, MonitorNotifies, MonitorKills
  <2>2. ASSUME NEW l \in Links, BridgeLooks(l) \/ BridgeLocks(l) \/ BridgeRechecks(l)
                 \/ BridgeBuilds(l) \/ BridgeSpawns(l) \/ BridgeInserts(l) \/ BridgeJoins(l)
                 \/ BridgeReplays(l) \/ BridgeForwards(l) \/ BridgeSwitches(l)
                 \/ BridgeInputFails(l) \/ BridgeHangsUp(l)
        PROVE  scenario' = scenario
    BY <2>2, Zenon DEF BridgeLooks, BridgeLocks, BridgeRechecks, BridgeBuilds, BridgeSpawns,
       BridgeInserts, BridgeJoins, BridgeReplays, BridgeForwards, BridgeSwitches,
       BridgeInputFails, BridgeHangsUp
  <2>3. ASSUME NEW u \in Users, UserConnects(u) \/ UserHearsStopped(u) \/ LinkDies(u)
                 \/ UserPings(u) \/ UserHears(u) \/ UserLaunches(u) \/ UserDetaches(u)
        PROVE  scenario' = scenario
    BY <2>3, Zenon DEF UserConnects, UserHearsStopped, LinkDies, UserPings, UserHears,
       UserLaunches, UserDetaches
  <2>4. RouteChanges \/ RouteReplaced \/ CleanupLocks \/ CleanupRemoves \/ CleanupKills
          => scenario' = scenario
    BY Zenon DEF RouteChanges, RouteReplaced, CleanupLocks, CleanupRemoves, CleanupKills
  <2> QED BY <2>1, <2>2, <2>3, <2>4, Zenon DEF PtyNext
<1>1. CASE UNCHANGED <<user, bridge>>  BY <1>0, <1>1, Zenon DEF Unused, UserLink
<1>2. ASSUME NEW l \in Links, NEW b, bridge[l].phase # "none",
             bridge' = [bridge EXCEPT ![l] = b], UNCHANGED user
      PROVE  Unused'
  <2>1. \A m \in Links : m # l => bridge'[m] = bridge[m]  BY <1>2, Zenon DEF PtyCore, PtyTypeOK
  <2> QED BY <1>0, <1>2, <2>1, Zenon DEF Unused, UserLink
<1>3. ASSUME NEW l \in Links,
             \/ BridgeLooks(l) \/ BridgeLocks(l) \/ BridgeRechecks(l)
             \/ BridgeBuilds(l) \/ BridgeSpawns(l) \/ BridgeInserts(l)
             \/ BridgeJoins(l) \/ BridgeReplays(l) \/ BridgeForwards(l)
             \/ BridgeSwitches(l) \/ BridgeInputFails(l) \/ BridgeHangsUp(l)
      PROVE  Unused'
  <2>1. bridge[l].phase # "none" /\ UNCHANGED user
    BY <1>3, Zenon DEF BridgeLooks, BridgeLocks, BridgeRechecks, BridgeBuilds, BridgeSpawns,
       BridgeInserts, BridgeJoins, BridgeReplays, BridgeForwards, BridgeSwitches,
       BridgeInputFails, BridgeHangsUp
  <2>2. \E b : SetBridge(l, b)
    BY <1>3, Zenon DEF BridgeLooks, BridgeLocks, BridgeRechecks, BridgeBuilds, BridgeSpawns,
       BridgeInserts, BridgeJoins, BridgeReplays, BridgeForwards, BridgeSwitches,
       BridgeInputFails, BridgeHangsUp
  <2> QED BY <1>2, <2>1, <2>2, Zenon DEF SetBridge
<1>4. ASSUME NEW u \in Users,
             \/ UserConnects(u) \/ UserHearsStopped(u) \/ LinkDies(u)
             \/ UserPings(u) \/ UserHears(u) \/ UserLaunches(u) \/ UserDetaches(u)
      PROVE  Unused'
  <2> DEFINE Records == [phase : {"start", "attached", "lost", "ended", "unavailable", "error",
                                  "detached", "none"}, link : Nat, launched : BOOLEAN]
  <2>1. user \in [Users -> Records] /\ user[u] \in Records  BY Zenon DEF Unused
  <2>2. ASSUME NEW after \in Records, user' = [user EXCEPT ![u] = after],
               after.link = user[u].link, after.phase # "attached", UNCHANGED bridge
        PROVE  Unused'
    <3>1. user' \in [Users -> Records]  BY <2>1, <2>2, Zenon
    <3>2. \A v \in Users : user'[v].link = user[v].link  BY <2>1, <2>2, Zenon
    <3>3. \A l \in Links : l[1] \in Users  BY Zenon DEF Links
    <3>4. \A v \in Users : user'[v].phase = "attached" => user'[v] = user[v]  BY <2>1, <2>2, Zenon
    <3> QED BY <1>0, <2>2, <3>1, <3>2, <3>3, <3>4, Zenon DEF Unused, UserLink
  <2>3. ASSUME NEW phase \in {"lost", "ended", "unavailable", "error", "detached", "none"},
               user' = [user EXCEPT ![u].phase = phase], UNCHANGED bridge
        PROVE  Unused'
    <3> DEFINE after == [user[u] EXCEPT !.phase = phase]
    <3>1. after \in Records /\ after.link = user[u].link /\ after.phase = phase  BY <2>1, Zenon
    <3>2. user' = [user EXCEPT ![u] = after]  BY <2>3, Zenon
    <3> HIDE DEF after
    <3> QED BY <2>2, <2>3, <3>1, <3>2, Zenon
  <2>4. CASE UserConnects(u)
    <3> DEFINE k == user[u].link + 1
               after == [user[u] EXCEPT !.phase = "attached", !.link = k]
    <3>1. k \in Nat /\ user[u].link \in Nat  BY <2>1
    <3>2. user' = [user EXCEPT ![u] = after]  BY <2>1, <2>4, Zenon DEF UserConnects
    <3>3. \E b : bridge' = [bridge EXCEPT ![<<u, k>>] = b]  BY <2>4, Zenon DEF UserConnects
    <3>4. after \in Records /\ after.link = k  BY <2>1, <3>1, Zenon
    <3> HIDE DEF after
    <3>5. user' \in [Users -> Records] /\ user'[u].link = k
      BY <2>1, <3>2, <3>4, Zenon
    <3>6. \A v \in Users : v # u => user'[v] = user[v]  BY <2>1, <3>2, Zenon
    <3>7. ASSUME NEW l \in Links, user'[l[1]].link < l[2] PROVE bridge'[l].phase = "none"
      <4>1. l[1] \in Users /\ l[2] \in Int /\ l = <<l[1], l[2]>>  BY DEF Links
      <4>2. user[l[1]].link < l[2]  BY <3>1, <3>5, <3>6, <3>7, <4>1
      <4>3. l # <<u, k>>  BY <3>1, <3>5, <3>7, <4>1
      <4>4. bridge'[l] = bridge[l]  BY <3>3, <4>3, Zenon DEF PtyCore, PtyTypeOK
      <4> QED BY <4>2, <4>4, Zenon DEF Unused
    <3>8. ASSUME NEW v \in Users, user'[v].phase = "attached"
          PROVE  <<v, user'[v].link>> \in Links
      <4>1. CASE v # u  BY <3>6, <3>8, <4>1, Zenon DEF Unused, UserLink
      <4>2. CASE v = u
        <5>1. k <= scenario.sockets[u]  BY <2>4, Zenon DEF UserConnects
        <5>2. scenario.sockets[u] \in 0..MostSockets  BY SocketsAssumption, Zenon DEF Unused
        <5>3. k \in 1..MostSockets  BY <3>1, <5>1, <5>2, SocketsAssumption
        <5> QED BY <3>5, <4>2, <5>3, Zenon DEF Links
      <4> QED BY <4>1, <4>2, Zenon
    <3> QED BY <1>0, <3>5, <3>7, <3>8, Zenon DEF Unused, UserLink
  <2>5. CASE LinkDies(u)  BY <1>1, <2>5, Zenon DEF LinkDies
  <2>6. CASE UserLaunches(u)
    <3> DEFINE after == [user[u] EXCEPT !.phase = "start", !.launched = TRUE]
    <3>1. after \in Records /\ after.link = user[u].link /\ after.phase = "start"  BY <2>1, Zenon
    <3>2. user' = [user EXCEPT ![u] = after] /\ UNCHANGED bridge
      BY <2>1, <2>6, Zenon DEF UserLaunches
    <3> HIDE DEF after
    <3> QED BY <2>2, <3>1, <3>2, Zenon
  <2>7. CASE UserHears(u)
    <3> DEFINE phase == IF bridge[UserLink(u)].reply = "closed" THEN "lost"
                        ELSE bridge[UserLink(u)].reply
    <3>1. user' = [user EXCEPT ![u].phase = phase] /\ UNCHANGED bridge
      BY <2>7, Zenon DEF UserHears
    <3>2. phase \in {"lost", "ended", "unavailable", "error", "detached", "none"}
      <4>1. UserLink(u) \in Links  BY <2>7, Zenon DEF UserHears, Unused
      <4>2. bridge[UserLink(u)].reply \in {"none", "ended", "unavailable", "error", "closed"}
        BY <4>1, Zenon DEF PtyCore, PtyTypeOK, Bridges
      <4> QED BY <4>2, Zenon
    <3> HIDE DEF phase
    <3> QED BY <2>3, <3>1, <3>2, Zenon
  <2>8. CASE UserHearsStopped(u) \/ UserPings(u) \/ UserDetaches(u)
    BY <2>3, <2>8, Zenon DEF UserHearsStopped, UserPings, UserDetaches
  <2> QED BY <1>4, <2>4, <2>5, <2>6, <2>7, <2>8, Zenon
<1>5. ASSUME NEW g \in Gens,
             \/ ChildExits(g)
             \/ ReaderParses(g) \/ ReaderBroadcasts(g) \/ ReaderEnds(g)
             \/ MonitorWatches(g) \/ MonitorProbes(g) \/ MonitorLocks(g)
             \/ MonitorBuilds(g) \/ MonitorInserts(g) \/ MonitorNotifies(g)
             \/ MonitorKills(g)
      PROVE  UNCHANGED <<user, bridge>>
  BY <1>5, Zenon DEF ChildExits, ReaderParses, ReaderBroadcasts, ReaderEnds, MonitorWatches,
     MonitorProbes, MonitorLocks, MonitorBuilds, MonitorInserts, MonitorNotifies, MonitorKills
<1>6. CASE RouteChanges \/ RouteReplaced \/ CleanupLocks \/ CleanupRemoves \/ CleanupKills
  BY <1>1, <1>6, Zenon DEF RouteChanges, RouteReplaced, CleanupLocks, CleanupRemoves, CleanupKills
<1> QED BY <1>1, <1>3, <1>4, <1>5, <1>6, Zenon DEF PtyNext

-----------------------------------------------------------------------------
(* The monitors of frontends                                                 *)

MonitorPhases ==
    {"none", "watching", "recovering", "queue", "build", "prepare", "notifying", "killing",
     "done"}

\* A monitor's step that leaves the sessions alone, and the lock unless it had it.
LEMMA MonitorSettles ==
    ASSUME PtyCore, NEW g \in Gens, NEW phase \in {"recovering", "queue", "done"},
           monitor' = [monitor EXCEPT ![g] = phase], monitor[g] \notin {"notifying", "killing"},
           holder' = holder \/ (monitor[g] \in ReplacingPhases /\ holder' = "free"),
           proxy' = proxy \/ (cleanup.phase = "none" => proxy' \in inForce),
           UNCHANGED <<table, nextId, child, screen, broadcast, reader, dials, route, inForce,
                       cleanup, bridge>>
    PROVE  PtyCore'
<1> USE DEF PtyCore
<1>1. monitor'[g] = phase /\ \A h \in Gens : h # g => monitor'[h] = monitor[h]
  BY Zenon DEF PtyTypeOK
<1>2. PtyTypeOK'  BY <1>1, Zenon DEF PtyTypeOK
<1>3. OneCreator'  BY <1>1, Zenon DEF OneCreator, ReplacingPhases
<1>4. Answerable'  BY <1>1, Zenon DEF Answerable
<1>5. NameIsFree' /\ CursorsBehind'  BY Zenon DEF NameIsFree, CursorsBehind
<1>6. RouteIsCurrent'  BY <1>1, Zenon DEF RouteIsCurrent
<1>7. NothingMissed'  BY Zenon DEF NothingMissed
<1> QED BY <1>2, <1>3, <1>4, <1>5, <1>6, <1>7, Zenon

\* Watching and probing, and replacements that come to nothing.
LEMMA MonitorWaitsKeeps ==
    ASSUME PtyCore, NEW g \in Gens, MonitorWatches(g) \/ MonitorProbes(g)
    PROVE  PtyCore'
<1>1. PICK phase \in {"recovering", "queue", "done"} : monitor' = [monitor EXCEPT ![g] = phase]
  BY Zenon DEF MonitorWatches, MonitorProbes, SetMonitor
<1>2. /\ monitor[g] \notin {"notifying", "killing"}
      /\ UNCHANGED <<table, nextId, child, screen, broadcast, reader, dials, route, inForce,
                     cleanup, bridge, holder, proxy>>
  BY Zenon DEF MonitorWatches, MonitorProbes
<1> QED BY <1>1, <1>2, MonitorSettles, Zenon

\* A monitor gets the creation lock.
LEMMA MonitorLocksKeeps ==
    ASSUME PtyCore, NEW g \in Gens, MonitorLocks(g)
    PROVE  PtyCore'
<1>1. /\ monitor[g] = "queue" /\ holder = "free" /\ holder' = "monitor"
      /\ monitor' = [monitor EXCEPT ![g] = "build"]
      /\ UNCHANGED <<table, nextId, child, screen, broadcast, reader, dials, route, inForce,
                     cleanup, bridge, proxy>>
  BY Zenon DEF MonitorLocks, SetMonitor
<1> USE DEF PtyCore
<1>2. monitor'[g] = "build" /\ \A h \in Gens : h # g => monitor'[h] = monitor[h]
  BY <1>1, Zenon DEF PtyTypeOK
<1>3. PtyTypeOK'  BY <1>1, <1>2, Zenon DEF PtyTypeOK
<1>4. OneCreator'  BY <1>1, <1>2, Zenon DEF OneCreator, CreatingPhases, ReplacingPhases
<1>5. Answerable'  BY <1>1, <1>2, Zenon DEF Answerable
<1>6. NameIsFree' /\ CursorsBehind'  BY <1>1, Zenon DEF NameIsFree, CursorsBehind
<1>7. RouteIsCurrent'  BY <1>1, <1>2, Zenon DEF RouteIsCurrent
<1>8. NothingMissed'  BY <1>1, Zenon DEF NothingMissed
<1> QED BY <1>3, <1>4, <1>5, <1>6, <1>7, <1>8, Zenon

\* The endpoint for the replacement is read; nobody else starts a child.
LEMMA MonitorBuildsKeeps ==
    ASSUME PtyCore, NEW g \in Gens, MonitorBuilds(g)
    PROVE  PtyCore'
<1> DEFINE n == nextId
<1>1. /\ monitor[g] = "build"
      /\ UNCHANGED <<table, nextId, child, screen, broadcast, reader, route, inForce, cleanup,
                     bridge, proxy>>
  BY Zenon DEF MonitorBuilds
<1>2. CASE UNCHANGED dials /\ monitor' = [monitor EXCEPT ![g] = "recovering"] /\ holder' = "free"
  BY <1>1, <1>2, MonitorSettles, Zenon DEF ReplacingPhases
<1>3. CASE /\ n \in Gens /\ dials' = [dials EXCEPT ![n] = route]
           /\ monitor' = [monitor EXCEPT ![g] = "prepare"] /\ holder' = holder
  <2> USE DEF PtyCore
  <2>1. monitor'[g] = "prepare" /\ \A h \in Gens : h # g => monitor'[h] = monitor[h]
    BY <1>3, Zenon DEF PtyTypeOK
  <2>2. dials'[n] = route /\ \A h \in Gens : h # n => dials'[h] = dials[h]
    BY <1>3, Zenon DEF PtyTypeOK
  <2>3. \A m \in Links : bridge[m].phase \notin CreatingPhases
    BY <1>1, Zenon DEF OneCreator, ReplacingPhases
  <2>4. \A h \in Gens : child[h] = "alive" => h # n  BY DEF PtyTypeOK, Gens
  <2>5. PtyTypeOK'
    <3>1. dials' \in [Gens -> Nat]  BY <1>3, Zenon DEF PtyTypeOK
    <3> QED BY <1>1, <1>3, <2>1, <3>1, Zenon DEF PtyTypeOK
  <2>6. OneCreator'  BY <1>1, <1>3, <2>1 DEF OneCreator, ReplacingPhases
  <2>7. Answerable'  BY <1>1, <2>1, Zenon DEF Answerable
  <2>8. NameIsFree' /\ CursorsBehind'  BY <1>1, Zenon DEF NameIsFree, CursorsBehind
  <2>9. RouteIsCurrent'
    <3>1. dials'[n] \in inForce  BY <2>2, Zenon DEF PtyTypeOK
    <3> QED BY <1>1, <2>1, <2>2, <2>3, <2>4, <3>1, Zenon DEF RouteIsCurrent, CreatingPhases
  <2>10. NothingMissed'  BY <1>1, Zenon DEF NothingMissed
  <2> QED BY <2>5, <2>6, <2>7, <2>8, <2>9, <2>10, Zenon
<1> QED BY <1>2, <1>3, Zenon DEF MonitorBuilds, SetMonitor, CanSpawn

\* The replacement is started and registered in one step, under the lock and
\* the table's mutex.
LEMMA MonitorInsertsKeeps ==
    ASSUME PtyCore, NEW g \in Gens, MonitorInserts(g)
    PROVE  PtyCore'
<1> DEFINE n == nextId
<1>1. /\ monitor[g] = "prepare"
      /\ UNCHANGED <<screen, broadcast, route, inForce, cleanup, bridge>>
  BY Zenon DEF MonitorInserts
<1>2. n \in Gens /\ dials[n] \in Nat /\ (cleanup.phase = "none" => dials[n] \in inForce)
  BY <1>1, Zenon DEF PtyCore, OneCreator, PtyTypeOK, RouteIsCurrent
<1>3. CASE /\ UNCHANGED <<table, nextId, child, reader, dials>> /\ holder' = "free"
           /\ proxy' \in {proxy, dials[n]}
           /\ \E phase \in {"recovering", "done"} : monitor' = [monitor EXCEPT ![g] = phase]
  <2>1. PICK phase \in {"recovering", "queue", "done"} : monitor' = [monitor EXCEPT ![g] = phase]
    BY <1>3, Zenon
  <2> QED BY <1>1, <1>2, <1>3, <2>1, MonitorSettles, Zenon DEF ReplacingPhases
<1>4. CASE /\ Existing = g /\ proxy' = dials[n] /\ nextId' = n + 1 /\ table' = n
           /\ child' = [child EXCEPT ![n] = "alive"]
           /\ reader' = [reader EXCEPT ![n] = "reading"]
           /\ dials' = [dials EXCEPT ![n] = dials[n]]
           /\ monitor' = [monitor EXCEPT ![g] = "notifying"] /\ holder' = holder
  <2> USE DEF PtyCore
  <2>1. monitor'[g] = "notifying" /\ \A h \in Gens : h # g => monitor'[h] = monitor[h]
    BY <1>4, Zenon DEF PtyTypeOK
  <2>2. dials' = dials  BY <1>2, <1>4, Zenon DEF PtyTypeOK
  <2>3. /\ child'[n] = "alive" /\ reader'[n] = "reading"
        /\ \A h \in Gens : h # n => child'[h] = child[h] /\ reader'[h] = reader[h]
    BY <1>2, <1>4, Zenon DEF PtyTypeOK
  <2>4. /\ holder = "monitor" /\ \A m \in Links : bridge[m].phase \notin CreatingPhases
        /\ \A h \in Gens : monitor[h] \in ReplacingPhases => h = g
        /\ cleanup.phase \notin {"removing", "killing"}
    BY <1>1, Zenon DEF OneCreator, ReplacingPhases
  <2>5. table = g
    <3>1. NoSession \notin Gens  BY PtyAssumption DEF NoSession, Gens
    <3> QED BY <1>4, <3>1, ExistingRuns, Zenon
  <2>6. PtyTypeOK'
    <3>1. /\ child' \in [Gens -> {"none", "alive", "signalled", "dead"}]
          /\ reader' \in [Gens -> {"none", "reading", "sending", "done"}]
          /\ monitor' \in [Gens -> MonitorPhases]
      BY <1>2, <1>4, Zenon DEF PtyTypeOK, MonitorPhases
    <3>2. nextId' \in 1..(Generations + 1) /\ table' \in 0..(nextId' - 1)
      BY <1>2, <1>4, PtyAssumption DEF PtyTypeOK, Gens
    <3>3. \A h \in Gens : child'[h] = "alive" \/ reader'[h] # "none" => h < nextId'
      BY <1>2, <1>4, <2>3 DEF PtyTypeOK, Gens
    <3>4. \A m \in Links : bridge'[m].phase # "insert"  BY <1>1, <2>4, Zenon DEF CreatingPhases
    <3> QED BY <1>1, <2>2, <3>1, <3>2, <3>3, <3>4, Zenon DEF PtyTypeOK, MonitorPhases
  <2>7. OneCreator'
    BY <1>1, <1>4, <2>1, <2>4, Zenon DEF OneCreator, CreatingPhases, ReplacingPhases
  <2>8. Answerable'
    <3>1. \A h \in Gens : child[h] = "alive" => h = g
      BY <2>4, <2>5, Zenon DEF Answerable, CreatingPhases, ReplacingPhases
    <3> QED BY <1>4, <2>1, <2>3, <3>1 DEF Answerable
  <2>9. NameIsFree'  BY <1>1, <2>4, Zenon DEF NameIsFree, CreatingPhases
  <2>10. RouteIsCurrent'
    <3>1. \A h \in Gens : monitor'[h] # "prepare"  BY <2>1, <2>4, Zenon DEF ReplacingPhases
    <3> QED BY <1>1, <1>2, <1>4, <2>2, <2>4, <3>1, Zenon DEF RouteIsCurrent, CreatingPhases
  <2>11. CursorsBehind' /\ NothingMissed'
    <3>1. \A h \in Gens : reader[h] = "sending" => reader'[h] = "sending"
      BY <1>2, <2>3 DEF PtyTypeOK
    <3> QED BY <1>1, <3>1, OutputTheSame, Zenon
  <2> QED BY <2>6, <2>7, <2>8, <2>9, <2>10, <2>11, Zenon
<1> QED BY <1>3, <1>4, Zenon DEF MonitorInserts, SetMonitor, EnsureProxy, SpawnChild

\* The old child's terminals are told.
LEMMA MonitorNotifiesKeeps ==
    ASSUME PtyCore, NEW g \in Gens, MonitorNotifies(g)
    PROVE  PtyCore'
<1>1. /\ monitor[g] = "notifying" /\ broadcast' = [broadcast EXCEPT ![g] = Append(@, Replaced)]
      /\ monitor' = [monitor EXCEPT ![g] = "killing"]
      /\ UNCHANGED <<table, nextId, child, screen, reader, dials, holder, route, inForce, proxy,
                     cleanup, bridge>>
  BY Zenon DEF MonitorNotifies, SetMonitor
<1> USE DEF PtyCore
<1>2. monitor'[g] = "killing" /\ \A h \in Gens : h # g => monitor'[h] = monitor[h]
  BY <1>1, Zenon DEF PtyTypeOK
<1>3. Replaced \in Nat  BY Zenon DEF Replaced
<1>4. PtyTypeOK'
  <2>1. Append(broadcast[g], Replaced) \in Seq(Nat)  BY <1>3 DEF PtyTypeOK
  <2>2. broadcast' \in [Gens -> Seq(Nat)]  BY <1>1, <2>1, Zenon DEF PtyTypeOK
  <2> QED BY <1>1, <1>2, <2>2, Zenon DEF PtyTypeOK
<1>5. OneCreator'  BY <1>1, <1>2, Zenon DEF OneCreator, ReplacingPhases
<1>6. Answerable'  BY <1>1, <1>2, Zenon DEF Answerable
<1>7. NameIsFree'  BY <1>1, Zenon DEF NameIsFree
<1>8. RouteIsCurrent'  BY <1>1, <1>2, Zenon DEF RouteIsCurrent
<1>9. CursorsBehind' /\ NothingMissed'  BY <1>1, <1>3, OutputAppended, Zenon
<1> QED BY <1>4, <1>5, <1>6, <1>7, <1>8, <1>9, Zenon

\* The old child is told to stop, and the lock is given back.
LEMMA MonitorKillsKeeps ==
    ASSUME PtyCore, NEW g \in Gens, MonitorKills(g)
    PROVE  PtyCore'
<1>1. /\ monitor[g] = "killing" /\ child' = Signalled(g) /\ holder' = "free"
      /\ monitor' = [monitor EXCEPT ![g] = "done", ![nextId - 1] = "watching"]
      /\ UNCHANGED <<table, nextId, screen, broadcast, reader, dials, route, inForce, proxy,
                     cleanup, bridge>>
  BY Zenon DEF MonitorKills
<1> USE DEF PtyCore
<1>2. /\ monitor' \in [Gens -> MonitorPhases]
      /\ \A h \in Gens : monitor'[h] = monitor[h] \/ monitor'[h] \in {"done", "watching"}
      /\ monitor'[g] \in {"done", "watching"}
  BY <1>1, Zenon DEF PtyTypeOK, MonitorPhases
<1>3. /\ child' \in [Gens -> {"none", "alive", "signalled", "dead"}]
      /\ \A h \in Gens : child'[h] = "alive" => child[h] = "alive" /\ h # g
  BY <1>1, Zenon DEF PtyTypeOK, Signalled
<1>4. /\ holder = "monitor" /\ \A m \in Links : bridge[m].phase \notin CreatingPhases
      /\ \A h \in Gens : monitor[h] \in ReplacingPhases => h = g
      /\ cleanup.phase \notin {"removing", "killing"}
  BY <1>1, Zenon DEF OneCreator, ReplacingPhases
<1>5. \A h \in Gens : monitor'[h] \notin ReplacingPhases  BY <1>2, <1>4, Zenon DEF ReplacingPhases
<1>6. PtyTypeOK'  BY <1>1, <1>2, <1>3, Zenon DEF PtyTypeOK, MonitorPhases
<1>7. OneCreator'  BY <1>1, <1>4, <1>5, Zenon DEF OneCreator, ReplacingPhases
<1>8. Answerable'
  BY <1>1, <1>3, <1>4, Zenon DEF Answerable, CreatingPhases, ReplacingPhases
<1>9. NameIsFree'  BY <1>1, Zenon DEF NameIsFree
<1>10. RouteIsCurrent'  BY <1>1, <1>3, <1>5, Zenon DEF RouteIsCurrent, ReplacingPhases
<1>11. CursorsBehind' /\ NothingMissed'  BY <1>1, OutputTheSame, Zenon
<1> QED BY <1>6, <1>7, <1>8, <1>9, <1>10, <1>11, Zenon

-----------------------------------------------------------------------------
(* The cleanup after a change of route, and all together                     *)

\* A route changes only when no cleanup is to come, and the cleanup waits for
\* the lock; then it takes and stops whatever is registered.
LEMMA CleanupKeeps ==
    ASSUME PtyCore, RouteChanges \/ RouteReplaced \/ CleanupLocks \/ CleanupRemoves \/ CleanupKills
    PROVE  PtyCore'
<1> USE DEF PtyCore
<1>0. cleanup.gen \in 0..Generations  BY Zenon DEF PtyTypeOK
<1>1. UNCHANGED <<nextId, screen, broadcast, reader, monitor, dials, bridge>>
  BY Zenon DEF RouteChanges, RouteReplaced, CleanupLocks, CleanupRemoves, CleanupKills
<1>2. CursorsBehind' /\ NothingMissed'  BY <1>1, OutputTheSame, Zenon
<1>3. CASE RouteChanges
  <2>1. /\ cleanup.phase = "none" /\ cleanup'.phase = "queue"
        /\ route' \in Nat /\ route' \in inForce'
        /\ cleanup' \in [phase : {"none", "queue", "removing", "killing"}, gen : 0..Generations]
        /\ UNCHANGED <<table, child, holder, proxy>>
    <3>1. cleanup' = [cleanup EXCEPT !.phase = "queue"]  BY <1>3, Zenon DEF RouteChanges
    <3>2. route' \in {route + 1, route + 2} /\ route \in Nat
      BY <1>3, Zenon DEF RouteChanges, PtyTypeOK
    <3>3. cleanup \in [phase : {"none", "queue", "removing", "killing"}, gen : 0..Generations]
      BY Zenon DEF PtyTypeOK
    <3>4. /\ cleanup'.phase = "queue"
          /\ cleanup' \in [phase : {"none", "queue", "removing", "killing"}, gen : 0..Generations]
      BY <3>1, <3>3, Zenon
    <3>5. route' \in Nat  BY <3>2
    <3>6. route' \in inForce'  BY <1>3, Zenon DEF RouteChanges
    <3> QED BY <1>3, <3>4, <3>5, <3>6, Zenon DEF RouteChanges
  <2>2. PtyTypeOK'  BY <1>1, <2>1, Zenon DEF PtyTypeOK
  <2>3. OneCreator' /\ Answerable' /\ NameIsFree' /\ RouteIsCurrent'
    <3>1. OneCreator'  BY <1>1, <2>1, Zenon DEF OneCreator
    <3>2. NameIsFree'  BY <1>1, <2>1, Zenon DEF NameIsFree
    <3>3. Answerable'  BY <1>1, <2>1, Zenon DEF Answerable
    <3>4. RouteIsCurrent'  BY <1>1, <2>1, Zenon DEF RouteIsCurrent
    <3> QED BY <3>1, <3>2, <3>3, <3>4, Zenon
  <2> QED BY <1>2, <2>2, <2>3, Zenon
<1>4. CASE CleanupLocks
  <2>1. /\ cleanup.phase = "queue" /\ cleanup'.phase = "removing"
        /\ cleanup' \in [phase : {"none", "queue", "removing", "killing"}, gen : 0..Generations]
        /\ holder = "free" /\ holder' = "cleanup" /\ UNCHANGED <<table, child, route, inForce,
                                                                 proxy>>
    BY <1>4, Zenon DEF CleanupLocks, PtyTypeOK
  <2>2. PtyTypeOK'  BY <1>1, <2>1, Zenon DEF PtyTypeOK
  <2>3. OneCreator'  BY <1>1, <2>1, Zenon DEF OneCreator
  <2>4. Answerable' /\ NameIsFree' /\ RouteIsCurrent'
    BY <1>1, <2>1 DEF Answerable, NameIsFree, RouteIsCurrent
  <2> QED BY <1>2, <2>2, <2>3, <2>4, Zenon
<1>5. ASSUME cleanup.phase \in {"removing", "killing"}
      PROVE  /\ holder = "cleanup" /\ \A l \in Links : bridge[l].phase \notin CreatingPhases
             /\ \A g \in Gens : monitor[g] \notin ReplacingPhases
  BY <1>5, Zenon DEF OneCreator
<1>6. CASE CleanupRemoves
  <2>1. /\ cleanup.phase = "removing" /\ table' = NoSession
        /\ cleanup' = [phase |-> "killing", gen |-> table] /\ UNCHANGED <<child, holder, route,
                                                                          inForce>>
    BY <1>6, Zenon DEF CleanupRemoves
  <2>2. table \in 0..Generations /\ NoSession \in 0..(nextId - 1)
    BY PtyAssumption DEF PtyTypeOK, NoSession
  <2>3. PtyTypeOK'  BY <1>1, <2>1, <2>2, Zenon DEF PtyTypeOK
  <2>4. OneCreator'  BY <1>1, <1>5, <2>1, Zenon DEF OneCreator
  <2>5. Answerable'
    BY <1>1, <1>5, <2>1, Zenon DEF Answerable, CreatingPhases, ReplacingPhases
  <2>6. NameIsFree' /\ RouteIsCurrent'  BY <2>1, Zenon DEF NameIsFree, RouteIsCurrent
  <2> QED BY <1>2, <2>3, <2>4, <2>5, <2>6, Zenon
<1>7. CASE CleanupKills
  <2>1. /\ cleanup.phase = "killing" /\ cleanup' = [phase |-> "none", gen |-> NoSession]
        /\ child' = IF cleanup.gen = NoSession THEN child ELSE Signalled(cleanup.gen)
        /\ holder' = "free" /\ UNCHANGED <<table, route, inForce, proxy>>
    BY <1>7, Zenon DEF CleanupKills
  <2>2. NoSession \notin Gens /\ NoSession \in 0..Generations
    BY PtyAssumption DEF NoSession, Gens
  <2>3. \A g \in Gens : child[g] = "alive" => cleanup.gen = g
    BY <1>5, <2>1, <2>2, Zenon DEF Answerable, NameIsFree, CreatingPhases, ReplacingPhases
  <2>4. /\ child' \in [Gens -> {"none", "alive", "signalled", "dead"}]
        /\ \A g \in Gens : child'[g] # "alive"
    <3>1. CASE cleanup.gen = NoSession  BY <2>1, <2>2, <2>3, <3>1, Zenon DEF PtyTypeOK
    <3>2. CASE cleanup.gen # NoSession
      <4>1. child' = Signalled(cleanup.gen)  BY <2>1, <3>2, Zenon
      <4> QED BY <2>3, <4>1, Zenon DEF PtyTypeOK, Signalled
    <3> QED BY <3>1, <3>2, Zenon
  <2>5. PtyTypeOK'  BY <1>1, <2>1, <2>2, <2>4, Zenon DEF PtyTypeOK
  <2>6. OneCreator'  BY <1>1, <1>5, <2>1, Zenon DEF OneCreator
  <2>7. Answerable'  BY <1>1, <2>1, <2>4, Zenon DEF Answerable
  <2>9. NameIsFree'  BY <1>1, <2>1, <2>4, Zenon DEF NameIsFree
  <2>8. RouteIsCurrent'
    BY <1>1, <1>5, <2>1, <2>4, Zenon DEF RouteIsCurrent, CreatingPhases, ReplacingPhases
  <2> QED BY <1>2, <2>5, <2>6, <2>7, <2>8, <2>9, Zenon
<1>8. CASE RouteReplaced
  <2>1. UNCHANGED <<table, child, holder, proxy, cleanup>>  BY <1>8, Zenon DEF RouteReplaced
  <2>2. route' \in Nat
    <3>1. route' \in {route + 1, route + 2} /\ route \in Nat
      BY <1>8, Zenon DEF RouteReplaced, PtyTypeOK
    <3> QED BY <3>1
  <2>3. route' \in inForce' /\ inForce \subseteq inForce'  BY <1>8, Zenon DEF RouteReplaced
  <2>4. PtyTypeOK'  BY <1>1, <2>1, <2>2, <2>3, Zenon DEF PtyTypeOK
  <2>5. OneCreator'  BY <1>1, <2>1, Zenon DEF OneCreator
  <2>6. Answerable'  BY <1>1, <2>1, Zenon DEF Answerable
  <2>7. NameIsFree'  BY <1>1, <2>1, Zenon DEF NameIsFree
  <2>8. RouteIsCurrent'  BY <1>1, <2>1, <2>3, Zenon DEF RouteIsCurrent
  <2> QED BY <1>2, <2>4, <2>5, <2>6, <2>7, <2>8, Zenon
<1> QED BY <1>3, <1>4, <1>6, <1>7, <1>8, Zenon

\* Every step keeps the invariant.
LEMMA PtyNextInv == PtyInv /\ [PtyNext]_ptyVars => PtyInv'
<1>1. ASSUME PtyInv, PtyNext PROVE PtyInv'
  <2>1. PtyCore'
    BY Zenon, <1>1, BridgeLooksKeeps, BridgeReplaysKeeps, BridgeClosesKeeps, BridgeForwardsKeeps,
       BridgeLocksKeeps, BridgeRechecksKeeps, BridgeBuildsKeeps, BridgeSpawnsKeeps,
       BridgeInsertsKeeps, ReadersKeep, UsersKeep, MonitorWaitsKeeps, MonitorLocksKeeps,
       MonitorBuildsKeeps, MonitorInsertsKeeps, MonitorNotifiesKeeps, MonitorKillsKeeps,
       CleanupKeeps DEF PtyNext, PtyInv
  <2>2. Unused'  BY <1>1, UnusedKept, Zenon
  <2> QED BY <2>1, <2>2, Zenon DEF PtyInv
<1>2. ASSUME PtyInv, UNCHANGED ptyVars PROVE PtyInv'
  <2> USE <1>2 DEF ptyVars, PtyInv, PtyCore
  <2>1. PtyTypeOK' /\ OneCreator'  BY Zenon DEF PtyTypeOK, OneCreator
  <2>2. Answerable' /\ NameIsFree' /\ RouteIsCurrent'
    <3>1. Answerable'  BY Zenon DEF Answerable
    <3>2. NameIsFree'  BY Zenon DEF NameIsFree
    <3>3. RouteIsCurrent'  BY Zenon DEF RouteIsCurrent
    <3> QED BY <3>1, <3>2, <3>3, Zenon
  <2>3. CursorsBehind' /\ NothingMissed'  BY OutputTheSame, Zenon
  <2>4. Unused'  BY Zenon DEF Unused, UserLink
  <2> QED BY <2>1, <2>2, <2>3, <2>4, Zenon
<1> QED BY <1>1, <1>2, Zenon

\* Somebody answers for a child, and unless a cleanup is to come it is for the
\* pod's route.
LEMMA PtyInvNoStray == PtyInv => NoStrayFrontend
<1> SUFFICES ASSUME PtyInv, NEW g \in Gens, child[g] = "alive", cleanup.phase = "none"
             PROVE  \/ table = g /\ dials[g] \in inForce /\ proxy \in inForce
                    \/ holder = "bridge" /\ \E l \in Links : bridge[l].phase = "insert"
                                                             /\ bridge[l].gen = g
                    \/ holder = "monitor" /\ monitor[g] \in {"notifying", "killing"}
  BY Zenon DEF NoStrayFrontend
<1>1. CASE table = g  BY <1>1, Zenon DEF PtyInv, PtyCore, RouteIsCurrent
<1>2. CASE \E l \in Links : bridge[l].phase = "insert" /\ bridge[l].gen = g
  BY <1>2, Zenon DEF PtyInv, PtyCore, OneCreator, CreatingPhases
<1>3. CASE monitor[g] \in {"notifying", "killing"}
  BY <1>3, Zenon DEF PtyInv, PtyCore, OneCreator, ReplacingPhases
<1> QED BY <1>1, <1>2, <1>3, Zenon DEF PtyInv, PtyCore, Answerable

\* However many terminals attach, frontends are replaced and routes change at
\* a time: run_bridge, SessionWatch::replace and terminate_with_cleanup
\* (pty_session.rs) leave no child behind that runs, was not told to stop, and
\* is not the registered one for the pod's current route, or for one replaced
\* without a cleanup since.
THEOREM NeverStrayFrontend == PtySpec => []NoStrayFrontend
BY PtyInitInv, PtyNextInv, PtyInvNoStray, PTL DEF PtySpec

\* Whatever order the reader, attach_existing and build_screen_replay run in,
\* an attached terminal that has not lagged misses no output of its child.
THEOREM NeverMissed == PtySpec => []NothingMissed
<1>1. PtyInv => NothingMissed  BY Zenon DEF PtyInv, PtyCore
<1> QED BY <1>1, PtyInitInv, PtyNextInv, PTL DEF PtySpec

-----------------------------------------------------------------------------
(* Exec                                                                      *)

StageInv ==
  /\ task = "none" => leader = "none" /\ starts = 0 /\ reply = "none"
  /\ task = "never" => leader = "none" /\ reply \in Refusals
                       /\ starts = IF caller = "entered" THEN 1 ELSE 0
  /\ task \notin {"none", "never"} => starts = 1 /\ reply = "accepted"
  /\ caller \in {"legacy", "entered"} => task = "never"
  /\ task = "running" => leader \in {"running", "exited"}
  /\ task \in {"exiting", "failing", "ended"} => leader \in {"exited", "reaped"}
  /\ task = "exiting" => pumped = wrote /\ offspring # "holding"
  /\ reached \subseteq {"running", "exited"}

LastFrame == frames[Len(frames)]

Concluded == frames # <<>> /\ LastFrame # "output"

OutputIsOver == task = "ended" /\ pumped = wrote /\ ~OutputOpen

FrameInv ==
  /\ \A i \in 1 .. Len(frames) : i < Len(frames) => frames[i] = "output"
  /\ pumped = heard + IF Concluded THEN Len(frames) - 1 ELSE Len(frames)
  /\ Concluded => task = "ended"
  /\ Concluded /\ LastFrame = "exit" => OutputIsOver
  /\ caller = "exited" => frames = <<>> /\ OutputIsOver

ExecInv == ExecTypeOK /\ StageInv /\ FrameInv

-----------------------------------------------------------------------------

\* A step that touches neither the response nor the output keeps FrameInv, if
\* it does not take back that the output is over, or that run_process has ended.
LEMMA FramesUntouched ==
  ASSUME FrameInv, frames' = frames, heard' = heard, pumped' = pumped,
         task = "ended" => task' = "ended",
         OutputIsOver => OutputIsOver',
         caller' = "exited" => caller = "exited"
  PROVE  FrameInv'
BY Zenon DEF FrameInv, Concluded, LastFrame

\* The caller's input and its signals on their way touch nothing of ExecInv.
LEMMA InputKeepsExec ==
  ASSUME ExecInv, FeedCommand \/ CallerTypes \/ CallerSignals \/ SignalArrives
  PROVE  ExecInv'
<1>1. UNCHANGED <<caller, wire, replyVars, starts, execProcessVars, pumped, task, reached>>
  BY Zenon DEF FeedCommand, CallerTypes, CallerSignals, SignalArrives, signalVars
<1> QED
  BY <1>1 DEF replyVars, execProcessVars, ExecInv, ExecTypeOK, StageInv, FrameInv, Concluded,
     LastFrame, OutputIsOver, OutputOpen

\* Starting the command, and the end of the caller or of its connection, keep it.
LEMMA CallKeepsExec ==
  ASSUME ExecInv,
         \/ DaemonRefuses \/ PodStarts \/ CallerHearsReply \/ CallerEnters
         \/ CallerLosesResponse \/ WireBreaks
  PROVE  ExecInv'
<1> USE DEF ExecInv, ExecTypeOK, execProcessVars, replyVars, signalVars
<1>1. ExecTypeOK'
  BY SMTT(30) DEF DaemonRefuses, PodStarts, CallerHearsReply, CallerEnters, CallerLosesResponse,
     WireBreaks,
     Refusals
<1>2. StageInv'
  <2>1. CASE DaemonRefuses
    BY <2>1, Zenon DEF DaemonRefuses, StageInv, Refusals
  <2>2. CASE PodStarts
    BY <2>2, SMTT(30) DEF PodStarts, StageInv, Refusals
  <2>3. CASE CallerHearsReply
    BY <2>3 DEF CallerHearsReply, StageInv, Refusals
  <2>4. CASE CallerEnters
    BY <2>4 DEF CallerEnters, StageInv
  <2>5. CASE CallerLosesResponse
    BY <2>5, Zenon DEF CallerLosesResponse, StageInv
  <2>6. CASE WireBreaks
    BY <2>6, SMTT(30) DEF WireBreaks, StageInv
  <2> QED
    BY <2>1, <2>2, <2>3, <2>4, <2>5, <2>6, Zenon
<1>3. FrameInv'
  BY FramesUntouched DEF DaemonRefuses, PodStarts, CallerHearsReply, CallerEnters,
     CallerLosesResponse, WireBreaks, StageInv, OutputIsOver, OutputOpen
<1> QED
  BY <1>1, <1>2, <1>3, ZenonT(60)

\* What the command and its descendants do keeps it: they write no more when the
\* output is over.
LEMMA CommandKeepsExec ==
  ASSUME ExecInv, CommandWrites \/ CommandForks \/ DescendantCloses \/ CommandExits
  PROVE  ExecInv'
<1> USE DEF ExecInv, ExecTypeOK, replyVars, signalVars
<1>1. ExecTypeOK'
  BY SMTT(30) DEF CommandWrites, CommandForks, DescendantCloses, CommandExits
<1>2. StageInv'
  <2>1. CASE CommandWrites
    BY <2>1 DEF CommandWrites, StageInv, OutputOpen
  <2>2. CASE CommandForks
    BY <2>2, Zenon DEF CommandForks, StageInv
  <2>3. CASE DescendantCloses
    BY <2>3 DEF DescendantCloses, StageInv
  <2>4. CASE CommandExits
    BY <2>4, Zenon DEF CommandExits, StageInv
  <2> QED
    BY <2>1, <2>2, <2>3, <2>4, Zenon
<1>3. FrameInv'
  BY FramesUntouched, SMTT(30) DEF CommandWrites, CommandForks, DescendantCloses, CommandExits,
     OutputIsOver,
     OutputOpen
<1> QED
  BY <1>1, <1>2, <1>3, Zenon

\* What run_process does besides answering keeps it: the leader is reaped only at
\* the end of the output, and a signal goes to a leader that is not reaped.
LEMMA TaskKeepsExec ==
  ASSUME ExecInv, ReapLeader \/ TaskHangsUp \/ InputFails \/ DeliverSignal
  PROVE  ExecInv'
<1> USE DEF ExecInv, ExecTypeOK, execProcessVars, replyVars, signalVars
<1>1. ExecTypeOK'
  BY SMTT(30) DEF ReapLeader, TaskHangsUp, InputFails, DeliverSignal, KillGroup
<1>2. StageInv'
  <2>1. CASE ReapLeader
    BY <2>1, Zenon DEF ReapLeader, StageInv, OutputOpen
  <2>2. CASE TaskHangsUp
    BY <2>2, Zenon DEF TaskHangsUp, KillGroup, StageInv
  <2>3. CASE InputFails
    BY <2>3, Zenon DEF InputFails, KillGroup, StageInv
  <2>4. CASE DeliverSignal
    BY <2>4, ZenonT(60) DEF DeliverSignal, StageInv
  <2> QED
    BY <2>1, <2>2, <2>3, <2>4, Zenon
<1>3. FrameInv'
  BY FramesUntouched DEF ReapLeader, TaskHangsUp, InputFails, DeliverSignal, KillGroup,
     OutputIsOver, OutputOpen, StageInv
<1> QED
  BY <1>1, <1>2, <1>3, Zenon

\* The response stays a true account of the output.
LEMMA ResponseKeepsExec ==
  ASSUME ExecInv, PumpOutput \/ SendExit \/ SendError \/ CallerPrints
  PROVE  ExecInv'
<1>1. ExecTypeOK'
  <2>1. CASE PumpOutput
    BY <2>1 DEF PumpOutput, ExecInv, ExecTypeOK, execProcessVars
  <2>2. CASE SendExit \/ SendError
    <3>1. /\ UNCHANGED <<caller, wire, reply, heard, starts, leader, status, wrote, pumped>>
          /\ offspring' = offspring \/ offspring' = "none"
          /\ task' = "ended"
          /\ \/ frames' = frames \/ frames' = Append(frames, "exit")
             \/ frames' = Append(frames, "error")
      BY <2>2, Zenon DEF SendExit, SendError, execProcessVars
    <3> QED
      BY <3>1, SMTT(30) DEF ExecInv, ExecTypeOK
  <2>3. CASE CallerPrints
    <3>1. /\ Head(frames) \in {"output", "exit", "error"}
          /\ Tail(frames) \in Seq({"output", "exit", "error"})
      BY <2>3 DEF CallerPrints, ExecInv, ExecTypeOK
    <3> QED
      BY <2>3, <3>1 DEF CallerPrints, ExecInv, ExecTypeOK, execProcessVars
  <2> QED
    BY <2>1, <2>2, <2>3, Zenon
<1>2. StageInv'
  <2>1. UNCHANGED <<starts, reply, reached, leader, wrote>>
    BY Zenon DEF PumpOutput, SendExit, SendError, CallerPrints, execProcessVars, signalVars
  <2>2. CASE PumpOutput \/ CallerPrints
    BY <2>1, <2>2, Zenon DEF PumpOutput, CallerPrints, ExecInv, StageInv, execProcessVars
  <2>3. CASE SendExit \/ SendError
    BY <2>1, <2>3, Zenon DEF SendExit, SendError, ExecInv, StageInv
  <2> QED
    BY <2>2, <2>3, Zenon
<1> USE <1>1 DEF ExecInv, ExecTypeOK, FrameInv
<1>3. ASSUME PumpOutput PROVE FrameInv'
  <2>1. task # "ended" /\ ~Concluded
    BY <1>3, Zenon DEF PumpOutput
  <2>2. \A i \in 1 .. Len(frames) : frames[i] = "output"
    BY <2>1, SMTT(30) DEF Concluded, LastFrame
  <2>3. caller # "exited"
    BY <2>1, Zenon DEF OutputIsOver
  <2>4. /\ Len(frames') = Len(frames) + 1
        /\ \A i \in 1 .. Len(frames') : frames'[i] = "output"
    BY <1>3, <2>2, SMTT(30) DEF PumpOutput
  <2> QED
    BY <1>3, <2>1, <2>3, <2>4, SMTT(30) DEF PumpOutput, Concluded, LastFrame, OutputIsOver
<1>4. ASSUME SendExit PROVE FrameInv'
  <2>1. task # "ended" /\ ~Concluded
    BY <1>4, Zenon DEF SendExit
  <2>2. \A i \in 1 .. Len(frames) : frames[i] = "output"
    BY <2>1 DEF Concluded, LastFrame
  <2>3. caller # "exited"
    BY <2>1, Zenon DEF OutputIsOver
  <2>4. CASE wire = "up"
    <3>1. /\ Len(frames') = Len(frames) + 1
          /\ \A i \in 1 .. Len(frames) : frames'[i] = "output"
          /\ frames'[Len(frames) + 1] = "exit"
      BY <1>4, <2>2, <2>4, SMTT(30) DEF SendExit
    <3>2. /\ caller' # "exited" /\ task' = "ended"
          /\ UNCHANGED <<wrote, pumped, heard, leader>>
          /\ offspring' = offspring \/ offspring' = "none"
      BY <1>4, <2>3, Zenon DEF SendExit
    <3>3. OutputIsOver'
      BY <1>4, <3>2, SMTT(30) DEF SendExit, OutputIsOver, OutputOpen, StageInv
    <3> QED
      BY <2>1, <3>1, <3>2, <3>3, SMTT(30) DEF Concluded, LastFrame
  <2>5. CASE wire # "up"
    BY <1>4, <2>1, <2>3, <2>5
      DEF SendExit, Concluded, LastFrame, OutputIsOver, OutputOpen
  <2> QED
    BY <2>4, <2>5, Zenon
<1>5. ASSUME SendError PROVE FrameInv'
  <2>1. task # "ended" /\ ~Concluded
    BY <1>5, Zenon DEF SendError
  <2>2. \A i \in 1 .. Len(frames) : frames[i] = "output"
    BY <2>1 DEF Concluded, LastFrame
  <2>3. caller # "exited"
    BY <2>1, Zenon DEF OutputIsOver
  <2>4. CASE wire = "up"
    <3>1. /\ Len(frames') = Len(frames) + 1
          /\ \A i \in 1 .. Len(frames) : frames'[i] = "output"
          /\ frames'[Len(frames) + 1] = "error"
      BY <1>5, <2>2, <2>4, SMTT(30) DEF SendError
    <3>2. /\ caller' # "exited" /\ task' = "ended" /\ UNCHANGED <<pumped, heard>>
      BY <1>5, <2>3, Zenon DEF SendError
    <3> QED
      BY <2>1, <3>1, <3>2, SMTT(30) DEF Concluded, LastFrame
  <2>5. CASE wire # "up"
    BY <1>5, <2>1, <2>3, <2>5 DEF SendError, Concluded, LastFrame, OutputIsOver, OutputOpen
  <2> QED
    BY <2>4, <2>5, Zenon
<1>6. ASSUME CallerPrints PROVE FrameInv'
  <2>1. /\ Len(frames) \in Nat \ {0} /\ Len(frames') = Len(frames) - 1
        /\ \A i \in 1 .. Len(frames') : frames'[i] = frames[i + 1]
        /\ Head(frames) = frames[1]
    BY <1>6 DEF CallerPrints
  <2>2. CASE Len(frames) = 1
    <3>1. frames # <<>> /\ frames' = <<>> /\ LastFrame = Head(frames) /\ ~Concluded'
      BY <1>6, <2>1, <2>2 DEF CallerPrints, LastFrame, Concluded
    <3>2. caller = "streaming" /\ UNCHANGED <<task, wrote, pumped, OutputOpen>>
      BY <1>6, Zenon DEF CallerPrints, OutputOpen, execProcessVars
    <3>3. CASE Head(frames) = "output"
      <4>1. ~Concluded /\ pumped = heard + 1
        BY <2>2, <3>1, <3>3, Zenon DEF Concluded
      <4>2. heard' = heard + 1 /\ caller' = caller
        BY <1>6, <3>3, Zenon DEF CallerPrints
      <4> QED
        BY <3>1, <3>2, <4>1, <4>2
    <3>4. CASE Head(frames) # "output"
      <4>1. Concluded /\ pumped = heard
        BY <2>2, <3>1, <3>4 DEF Concluded
      <4>2. heard' = heard /\ (caller' = "exited" => LastFrame = "exit")
        BY <1>6, <3>1, <3>4, ZenonT(60) DEF CallerPrints
      <4> QED
        BY <3>1, <3>2, <4>1, <4>2 DEF OutputIsOver
    <3> QED
      BY <3>3, <3>4, Zenon
  <2>3. CASE Len(frames) # 1
    <3>1. /\ Head(frames) = "output" /\ frames' # <<>> /\ LastFrame' = LastFrame
      BY <1>6, <2>1, <2>3, SMTT(30) DEF LastFrame
    <3> QED
      BY <1>6, <2>1, <2>3, <3>1, SMTT(30)
      DEF CallerPrints, Concluded, OutputIsOver, OutputOpen, execProcessVars
  <2> QED
    BY <2>2, <2>3, Zenon
<1> QED
  BY <1>2, <1>3, <1>4, <1>5, <1>6, Zenon

\* ExecInv holds throughout an execution.
THEOREM ExecInvariant == ExecSpec => []ExecInv
<1>1. ExecInit => ExecInv
  BY DEF ExecInit, ExecInv, ExecTypeOK, StageInv, FrameInv, Concluded, LastFrame, Refusals
<1>2. ExecInv /\ [ExecNext]_execVars => ExecInv'
  <2> SUFFICES ASSUME ExecInv, [ExecNext]_execVars PROVE ExecInv'
    BY Zenon
  <2>1. CASE ExecNext
    BY <2>1, InputKeepsExec, CallKeepsExec, CommandKeepsExec, TaskKeepsExec, ResponseKeepsExec,
       Zenon
       DEF ExecNext
  <2>2. CASE UNCHANGED execVars
    <3>1. ExecTypeOK' /\ StageInv'
      BY <2>2 DEF execVars, replyVars, execProcessVars, signalVars, ExecInv, ExecTypeOK, StageInv
    <3>2. FrameInv'
      BY <2>2, FramesUntouched, Zenon DEF execVars, replyVars, execProcessVars, ExecInv,
         OutputIsOver,
         OutputOpen
    <3> QED
      BY <3>1, <3>2, Zenon DEF ExecInv
  <2> QED
    BY <2>1, <2>2, Zenon
<1> QED
  BY <1>1, <1>2, PTL DEF ExecSpec

\* Whom SIGKILL finds, and that an exit status is reported of a reaped leader.
KillInv ==
  /\ task = "exiting" => leader = "reaped"
  /\ leader = "reaped" => task \in {"exiting", "ended"}
  /\ killed # {} => task \in {"failing", "ended"}
  /\ "free" \in killed => task = "ended" /\ leader = "reaped"
  /\ killed # {} /\ status = 0 => leader # "reaped"
  /\ \A i \in 1 .. Len(frames) : frames[i] = "exit" => leader = "reaped"
  /\ caller = "exited" => leader = "reaped"

\* Every step keeps it: run_process kills the group when it returns early, with
\* the leader unreaped, and after the exit frame of a failed command.
LEMMA KillKept == ExecInv /\ KillInv /\ [ExecNext]_execVars => KillInv'
<1> SUFFICES ASSUME ExecInv, KillInv, [ExecNext]_execVars PROVE KillInv'
  BY Zenon
<1>1. /\ task \in {"none", "never"} => leader = "none"
      /\ task = "running" => leader \in {"running", "exited"}
      /\ task \in {"exiting", "failing", "ended"} => leader \in {"exited", "reaped"}
      /\ task \in {"none", "never", "running", "exiting", "failing", "ended"}
      /\ frames \in Seq({"output", "exit", "error"})
  BY Zenon DEF ExecInv, StageInv, ExecTypeOK
<1>2. CASE UNCHANGED <<leader, status, task, killed, frames, caller>>
  BY <1>2, Zenon DEF KillInv
<1>3. CASE UNCHANGED <<leader, status, task, killed, frames>> /\ caller' # "exited"
  BY <1>3, Zenon DEF KillInv
<1>4. CASE DaemonRefuses \/ PodStarts
  <2>1. /\ task = "none" /\ task' \in {"never", "running"} /\ leader' \in {"none", "running"}
        /\ UNCHANGED <<status, killed, frames, caller>>
    BY <1>1, <1>4, Zenon DEF DaemonRefuses, PodStarts, signalVars, execProcessVars
  <2> QED BY <1>1, <2>1, Zenon DEF KillInv
<1>5. CASE CommandExits
  <2>1. /\ leader = "running" /\ leader' = "exited"
        /\ UNCHANGED <<task, killed, frames, caller>>
    BY <1>5, Zenon DEF CommandExits, signalVars, replyVars
  <2> QED BY <1>1, <2>1, Zenon DEF KillInv
<1>6. CASE ReapLeader
  <2>1. /\ task = "running" /\ task' = "exiting" /\ leader' = "reaped"
        /\ UNCHANGED <<status, killed, frames, caller>>
    BY <1>6, Zenon DEF ReapLeader, signalVars, replyVars
  <2> QED BY <1>1, <2>1, Zenon DEF KillInv
<1>7. CASE TaskHangsUp \/ InputFails
  <2>1. /\ task = "running" /\ task' \in {"ended", "failing"} /\ leader' = "exited"
        /\ killed' = killed \cup {"group"} /\ UNCHANGED <<frames, caller>>
    BY <1>1, <1>7, ZenonT(60) DEF TaskHangsUp, InputFails, KillGroup, Killpg, replyVars
  <2>2. "free" \notin killed'  BY <2>1, Zenon DEF KillInv
  <2> QED BY <1>1, <2>1, <2>2, Zenon DEF KillInv
<1>8. CASE SendExit
  <2>1. /\ task = "exiting" /\ task' = "ended" /\ UNCHANGED <<leader, status, caller>>
        /\ status = 0 => killed' = killed
    BY <1>8, Zenon DEF SendExit
  <2>2. leader = "reaped" /\ killed = {}  BY <2>1, Zenon DEF KillInv
  <2> QED BY <2>1, <2>2, Zenon DEF KillInv
<1>9. CASE PumpOutput
  <2>1. /\ frames' = Append(frames, "output")
        /\ UNCHANGED <<leader, status, task, killed, caller>>
    BY <1>9, Zenon DEF PumpOutput, execProcessVars, signalVars
  <2>2. \A i \in 1 .. Len(frames') :
          frames'[i] = "exit" => i \in 1 .. Len(frames) /\ frames[i] = "exit"
    BY <1>1, <2>1, SMTT(30)
  <2> QED BY <2>1, <2>2, Zenon DEF KillInv
<1>10. CASE SendError
  <2>1. /\ task = "failing" /\ task' = "ended"
        /\ frames' = frames \/ frames' = Append(frames, "error")
        /\ UNCHANGED <<leader, status, killed, caller>>
    BY <1>10, Zenon DEF SendError, execProcessVars, signalVars
  <2>2. \A i \in 1 .. Len(frames') :
          frames'[i] = "exit" => i \in 1 .. Len(frames) /\ frames[i] = "exit"
    BY <1>1, <2>1, SMTT(30)
  <2>3. leader = "exited" /\ "free" \notin killed  BY <1>1, <2>1, Zenon DEF KillInv
  <2> QED BY <2>1, <2>2, <2>3, Zenon DEF KillInv
<1>11. CASE CallerPrints
  <2>1. /\ frames # <<>> /\ frames' = Tail(frames)
        /\ caller = "streaming" /\ (caller' = "exited" => Head(frames) = "exit")
        /\ UNCHANGED <<leader, status, task, killed>>
    BY <1>11, ZenonT(60) DEF CallerPrints, execProcessVars, signalVars
  <2>2. /\ 1 \in 1 .. Len(frames) /\ Head(frames) = frames[1]
        /\ \A i \in 1 .. Len(frames') :
              i + 1 \in 1 .. Len(frames) /\ frames'[i] = frames[i + 1]
    BY <1>1, <2>1, SMTT(30)
  <2> QED BY <2>1, <2>2, Zenon DEF KillInv
<1>12. CASE CallerHearsReply \/ CallerEnters \/ CallerLosesResponse
  <2>1. UNCHANGED <<leader, status, task, killed, frames>> /\ caller' # "exited"
    BY <1>12, Zenon DEF CallerHearsReply, CallerEnters, CallerLosesResponse, execProcessVars,
       signalVars, replyVars
  <2> QED BY <1>3, <2>1, Zenon
<1>13. CASE WireBreaks
  <2>1. UNCHANGED <<leader, status, task, killed, frames>> /\ caller' # "exited"
    BY <1>13, Zenon DEF WireBreaks, execProcessVars, signalVars, replyVars
  <2> QED BY <1>3, <2>1, Zenon
<1>14. CASE \/ CommandWrites \/ CommandForks \/ DescendantCloses \/ FeedCommand
            \/ DeliverSignal \/ CallerTypes \/ CallerSignals \/ SignalArrives
            \/ UNCHANGED execVars
  <2>1. UNCHANGED <<leader, status, task, killed, frames, caller>>
    BY <1>14, Zenon DEF CommandWrites, CommandForks, DescendantCloses, FeedCommand,
       DeliverSignal, CallerTypes, CallerSignals, SignalArrives, execProcessVars, signalVars,
       replyVars, execVars
  <2> QED BY <1>2, <2>1, Zenon
<1> QED
  BY <1>4, <1>5, <1>6, <1>7, <1>8, <1>9, <1>10, <1>11, <1>12, <1>13, <1>14, Zenon DEF ExecNext

\* What the caller of an execution reports is true, its command is started at
\* most once, and its signals go to the command's unreaped process; a kill spares
\* what a successful command left behind, and only the one after a failed
\* command's exit frame may find the group's ID free.
THEOREM ExecIsFaithful == ExecSpec => []ExecFaithful
<1>1. ExecInit => KillInv
  BY DEF ExecInit, KillInv
<1>2. ExecSpec => []KillInv
  BY <1>1, ExecInvariant, KillKept, PTL DEF ExecSpec
<1>3. ExecInv /\ KillInv => ExecFaithful
  <2> SUFFICES ASSUME ExecInv, KillInv PROVE ExecFaithful
    BY Zenon
  <2>1. /\ caller = "exited" => heard = wrote /\ ~OutputOpen /\ starts = 1
        /\ starts <= 1
        /\ reached \subseteq {"running", "exited"}
    BY DEF ExecInv, ExecTypeOK, StageInv, FrameInv, Concluded, LastFrame, OutputIsOver,
       OutputOpen
  <2> QED BY <2>1, Zenon DEF ExecFaithful, KillInv
<1> QED
  BY <1>2, <1>3, ExecInvariant, PTL
=============================================================================
