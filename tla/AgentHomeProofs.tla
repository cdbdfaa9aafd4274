-------------------------- MODULE AgentHomeProofs ---------------------------
(***************************************************************************)
(* HomesAreOwn for any pods, commands and load.                            *)
(*                                                                         *)
(* HomeInv is inductive.  Its parts:                                       *)
(*   Matches          a row names its pod's container, a copy goes into    *)
(*                    the container it was started for, and the source of  *)
(*                    a job stays what it was;                             *)
(*   IdentitiesApart  no two pods share a Codex identity, counting         *)
(*                    those a recreate has saved and will restore;         *)
(*   MarksHold        where a row is marked, or a copy or job is about to  *)
(*                    mark it, the files of Claude are there;              *)
(*   StateIsMarked    where the files are, a mark is, or somebody is about *)
(*                    to make it.                                          *)
(* The second and the last except pods that a history variable names: a    *)
(* failed fork without an identity of its own, and a pod whose copies and  *)
(* jobs crossed or failed.                                                 *)
(***************************************************************************)
EXTENDS AgentHome, TLAPS

\* The types of the model's records.
AgentStates == {"bare", "host", "own"}
Codexes == [auth : AgentStates, initialized : BOOLEAN, id : Nat, remote : BOOLEAN]
Homes == [claude : AgentStates, pi : AgentStates, codex : Codexes, work : Nat]
Copies == [at : {"put", "mark"}, pod : HomePods, agent : {Claude, Pi}, id : Nat, to : Nat]
Jobs == [plan : {RecreatePlan, ForkPlan, BlindPlan}, step : 1..12, source : HomePods,
         sourceId : Nat, copied : BOOLEAN, snapshot : Homes]

\* Rows, containers, homes, copies and jobs keep their types.
HomeTypeOK ==
    /\ row \in [HomePods -> (Nat \X BOOLEAN) \union {NoRow}]
    /\ nextId \in Nat /\ container \in [HomePods -> Nat]
    /\ home \in [HomePods -> Homes]
    /\ copy \in [Commands -> Copies \union {NoCopy}]
    /\ job \in [HomePods -> Jobs \union {NoTransfer}]

-----------------------------------------------------------------------------
(* Rows, containers and jobs                                                 *)

\* A job is under way, is at step x, has done step x.
Active(j) == j.step <= Len(j.plan)
IsAt(j, x) == Active(j) /\ j.plan[j.step] = x
Did(j, x) == \E i \in 1..Len(j.plan) : i < j.step /\ j.plan[i] = x

\* A copy is under way; a recreate or a fork is; its container is the new one.
Copying(c) == copy[c].at # "idle"
Recreated(p) == Leased(p) /\ job[p].plan = RecreatePlan
Forked(p) == Leased(p) /\ job[p].plan = ForkPlan
Replaced(p) == Leased(p) /\ Did(job[p], "replace")

\* The pod a job is from still is the one it started from.
SourceStays(p) == container[job[p].source] = job[p].sourceId

\* A row names the pod's container; without a row there is none.
RowMatches(p) ==
    /\ container[p] < nextId
    /\ row[p] = NoRow => container[p] = 0
    /\ row[p] # NoRow => row[p][1] = container[p] /\ container[p] # 0

\* No container is of two pods.
RowsMatch ==
    /\ \A p \in HomePods : RowMatches(p)
    /\ \A p, q \in HomePods : container[p] = container[q] /\ container[p] # 0 => p = q

\* A copy goes into the container it was started for, and that is either gone
\* or still its pod's, not the one a job has just made.
CopyMatches(c) ==
    Copying(c) =>
        /\ copy[c].id = copy[c].to /\ copy[c].to # 0 /\ copy[c].to < nextId
        /\ copy[c].at = "mark" => copy[c].agent = Claude
        /\ \A p \in HomePods : container[p] = copy[c].to => p = copy[c].pod /\ ~Replaced(p)

\* A fork is from another pod and a recreate from its own, which stays until
\* the job replaces it; the source of a fork is not replaced meanwhile,
\* unless the two jobs crossed.
JobMatches(p) ==
    Leased(p) =>
        /\ job[p].plan = ForkPlan <=> job[p].source # p
        /\ job[p].sourceId # 0 /\ job[p].sourceId < nextId
        /\ Replaced(p) => row[p] # NoRow
        /\ (~Replaced(p) /\ job[p].source = p) => SourceStays(p)
        /\ (~Replaced(p) /\ job[p].source # p) => row[p] = NoRow
        /\ (job[p].source # p /\ SourceStays(p) /\ p \notin crossed)
             => ~Replaced(job[p].source)

\* Rows, containers, copies and jobs match.
Matches ==
    /\ HomeTypeOK /\ RowsMatch
    /\ \A c \in Commands : CopyMatches(c)
    /\ \A p \in HomePods : JobMatches(p)

-----------------------------------------------------------------------------
(* Identities                                                                *)

\* The Codex identity in a home, and the one a job took from its source.
Identity(p) == home[p].codex.id
SavedIdentity(p) == job[p].snapshot.codex.id

\* Identities are given once, and no two pods that a failed fork did not leave
\* with another's have the same, counting those that a recreate will restore.
IdentitiesApart ==
    /\ \A p \in HomePods : Identity(p) < nextId /\ (Leased(p) => SavedIdentity(p) < nextId)
    /\ \A p, q \in HomePods \ unreset : p # q =>
         /\ Identity(p) = Identity(q) => Identity(p) = NoId
         /\ (Recreated(p) /\ SavedIdentity(p) = Identity(q)) => Identity(q) = NoId
         /\ (Recreated(p) /\ Recreated(q) /\ SavedIdentity(p) = SavedIdentity(q))
              => SavedIdentity(p) = NoId

-----------------------------------------------------------------------------
(* The mark says that there is a configuration                               *)

\* The home has the configuration of Claude.
Has(h) == h.claude # "bare"

\* A copy that is about to mark its pod has put the configuration there.
CopyHas(c) ==
    \A p \in HomePods : (copy[c].at = "mark" /\ container[p] = copy[c].to) => Has(home[p])

\* No copy goes into the container a job is from.
NoCopyToSource(p) == \A c \in Commands : Copying(c) => copy[c].to # job[p].sourceId

\* A marked row has a configuration in its home.
MarkIsTrue(p) == (row[p] # NoRow /\ row[p][2]) => Has(home[p])

\* A job that has restored a configuration has it in the new home.
RestoresTruly(p) ==
    (Leased(p) /\ Did(job[p], "put_claude") /\ Has(job[p].snapshot)) => Has(home[p])

\* A job marks last.
NotYetMarked(p) == Replaced(p) => ~row[p][2]

\* The mark says the truth, and will.
Marked(p) == MarkIsTrue(p) /\ RestoresTruly(p)

\* So it is of every pod, whatever its fork has read half-written.
MarksHold ==
    /\ \A c \in Commands : CopyHas(c)
    /\ \A p \in HomePods : NotYetMarked(p) /\ Marked(p)

-----------------------------------------------------------------------------
(* A configuration has its mark                                              *)

\* The home has a configuration of the agent.
Used(h, agent) == IF agent = Claude THEN h.claude # "bare" ELSE h.pi # "bare"

\* A copy is alone with its pod, which has no configuration of its agent yet.
CopiesAlone(p) ==
    \A c \in Commands : (Copying(c) /\ copy[c].pod = p) =>
        /\ ~Leased(p) /\ copy[c].to = container[p]
        /\ copy[c].at = "put" => ~Used(home[p], copy[c].agent)
        /\ \A d \in Commands : (Copying(d) /\ copy[d].pod = p) => c = d

\* A configuration in a home has its mark, or a copy or a job is to make it.
HasMark(p) ==
    (row[p] # NoRow /\ Has(home[p])) =>
        \/ row[p][2] \/ Replaced(p)
        \/ \E c \in Commands : copy[c].at = "mark" /\ copy[c].pod = p

\* A recreate that has a configuration will mark.
RecreateKeepsMark(p) ==
    LET j == job[p] IN
    (Recreated(p) /\ Did(j, "flag")) =>
        /\ (~Did(j, "replace") /\ Has(home[p])) => j.copied
        /\ (Did(j, "get_claude") /\ Has(j.snapshot)) => j.copied

\* A fork that has a configuration will mark.
ForkKeepsMark(p) ==
    LET j == job[p] IN
    Forked(p) =>
        /\ (~Did(j, "flag") /\ SourceStays(p)) =>
             /\ NoCopyToSource(p)
             /\ Has(home[j.source]) \/ (Did(j, "get_claude") /\ Has(j.snapshot))
                  => row[j.source][2]
        /\ (Did(j, "flag") /\ Has(j.snapshot)) => j.copied

\* What is in a new home came from the old one.
HomeIsRestored(p) == (Replaced(p) /\ Has(home[p])) => Has(job[p].snapshot)

\* A configuration has its mark, and will.
Kept(p) ==
    /\ CopiesAlone(p) /\ HasMark(p) /\ RecreateKeepsMark(p) /\ ForkKeepsMark(p)
    /\ HomeIsRestored(p)

\* So it is of every pod that crossed nothing; only others lost their state.
StateIsMarked == (\A p \in HomePods \ crossed : Kept(p)) /\ lost \subseteq crossed

\* The inductive invariant.
HomeInv == Matches /\ IdentitiesApart /\ MarksHold /\ StateIsMarked

-----------------------------------------------------------------------------
(* Types                                                                     *)

\* What the homes begin with.
LEMMA FreshTypes == FreshHome \in Homes /\ ~Has(FreshHome)
<1>1. NoCodex \in Codexes  BY Zenon DEF NoCodex, Codexes, AgentStates, NoId
<1> QED BY <1>1, Zenon DEF FreshHome, Homes, AgentStates, Has

\* Attaching Codex.
LEMMA AttachTypes ==
    ASSUME NEW codex \in Codexes, NEW n \in Nat
    PROVE  /\ Uploaded(codex) \in Codexes /\ Uploaded(codex).id = codex.id
           /\ codex.auth = "own" => Uploaded(codex).auth = "own"
           /\ [Uploaded(codex) EXCEPT !.initialized = TRUE, !.id = IF @ = NoId THEN n ELSE @]
                \in Codexes
           /\ [Uploaded(codex) EXCEPT !.initialized = TRUE, !.id = IF @ = NoId THEN n ELSE @].id
                = IF codex.id = NoId THEN n ELSE codex.id
<1>1. /\ Uploaded(codex) \in Codexes /\ Uploaded(codex).id = codex.id
      /\ codex.auth = "own" => Uploaded(codex).auth = "own"
  <2>1. CASE Preserves(codex)  BY <2>1, Zenon DEF Uploaded
  <2>2. CASE ~Preserves(codex)
    <3>1. Uploaded(codex) = [codex EXCEPT !.auth = "host"] /\ codex.auth = "bare"
      BY <2>2, Zenon DEF Uploaded, Preserves
    <3> QED BY <3>1, Zenon DEF Codexes, AgentStates
  <2> QED BY <2>1, <2>2, Zenon
<1>2. \A x \in Codexes :
        /\ [x EXCEPT !.initialized = TRUE, !.id = IF @ = NoId THEN n ELSE @] \in Codexes
        /\ [x EXCEPT !.initialized = TRUE, !.id = IF @ = NoId THEN n ELSE @].id
             = IF x.id = NoId THEN n ELSE x.id
  BY Zenon DEF Codexes
<1> QED BY <1>1, <1>2, Zenon

\* A fork's identity is reset.
LEMMA RestoredTypes ==
    ASSUME NEW codex \in Codexes, NEW source, NEW p
    PROVE  /\ Restored(codex, source, p) \in Codexes
           /\ Restored(codex, source, p).id = IF source = p THEN codex.id ELSE NoId
BY Zenon DEF Restored, Codexes, NoId

\* One part of a home is replaced.
LEMMA HomeParts ==
    ASSUME NEW h \in Homes
    PROVE  /\ \A v \in AgentStates :
                /\ [h EXCEPT !["claude"] = v] \in Homes
                /\ [h EXCEPT !["claude"] = v].claude = v
                /\ [h EXCEPT !["claude"] = v].pi = h.pi
                /\ [h EXCEPT !["claude"] = v].codex = h.codex
           /\ \A v \in AgentStates :
                /\ [h EXCEPT !["pi"] = v] \in Homes
                /\ [h EXCEPT !["pi"] = v].claude = h.claude
                /\ [h EXCEPT !["pi"] = v].pi = v
                /\ [h EXCEPT !["pi"] = v].codex = h.codex
           /\ \A v \in Codexes :
                /\ [h EXCEPT !["codex"] = v] \in Homes
                /\ [h EXCEPT !["codex"] = v].claude = h.claude
                /\ [h EXCEPT !["codex"] = v].pi = h.pi
                /\ [h EXCEPT !["codex"] = v].codex = v
           /\ \A v \in Nat :
                /\ [h EXCEPT !["work"] = v] \in Homes
                /\ [h EXCEPT !["work"] = v].claude = h.claude
                /\ [h EXCEPT !["work"] = v].pi = h.pi
                /\ [h EXCEPT !["work"] = v].codex = h.codex
BY Zenon DEF Homes

-----------------------------------------------------------------------------
(* How far a job is                                                          *)

\* The steps of a recreation, by their places in RecreatePlan.
LEMMA RecreatePlaces ==
    ASSUME NEW j \in Jobs, j.plan = RecreatePlan
    PROVE  /\ Active(j) <=> j.step <= 11
           /\ Did(j, "flag") <=> j.step > 1
           /\ Did(j, "get_claude") <=> j.step > 3
           /\ Did(j, "replace") <=> j.step > 6
           /\ Did(j, "put_claude") <=> j.step > 8
           /\ IsAt(j, "flag") <=> j.step = 1
           /\ IsAt(j, "get_work") <=> j.step = 2
           /\ IsAt(j, "get_claude") <=> j.step = 3
           /\ IsAt(j, "get_codex") <=> j.step = 4
           /\ IsAt(j, "get_pi") <=> j.step = 5
           /\ IsAt(j, "replace") <=> j.step = 6
           /\ IsAt(j, "put_work") <=> j.step = 7
           /\ IsAt(j, "put_claude") <=> j.step = 8
           /\ IsAt(j, "put_codex") <=> j.step = 9
           /\ IsAt(j, "put_pi") <=> j.step = 10
           /\ IsAt(j, "mark") <=> j.step = 11
<1>1. j.step \in 1..12 /\ Len(RecreatePlan) = 11  BY Zenon DEF Jobs, RecreatePlan
<1>2. /\ RecreatePlan[1] = "flag" /\ RecreatePlan[2] = "get_work"
      /\ RecreatePlan[3] = "get_claude" /\ RecreatePlan[4] = "get_codex"
      /\ RecreatePlan[5] = "get_pi" /\ RecreatePlan[6] = "replace"
      /\ RecreatePlan[7] = "put_work" /\ RecreatePlan[8] = "put_claude"
      /\ RecreatePlan[9] = "put_codex" /\ RecreatePlan[10] = "put_pi"
      /\ RecreatePlan[11] = "mark"
  BY Zenon DEF RecreatePlan
<1>3. \A i \in 1..11 : i \in {1, 2, 3, 4, 5, 6, 7, 8, 9, 10, 11}  OBVIOUS
<1> QED BY <1>1, <1>2, <1>3 DEF Active, Did, IsAt

\* The steps of a fork, by their places in ForkPlan.
LEMMA ForkPlaces ==
    ASSUME NEW j \in Jobs, j.plan = ForkPlan
    PROVE  /\ Active(j) <=> j.step <= 11
           /\ Did(j, "get_claude") <=> j.step > 2
           /\ Did(j, "replace") <=> j.step > 5
           /\ Did(j, "put_claude") <=> j.step > 6
           /\ Did(j, "flag") <=> j.step > 10
           /\ IsAt(j, "get_work") <=> j.step = 1
           /\ IsAt(j, "get_claude") <=> j.step = 2
           /\ IsAt(j, "get_codex") <=> j.step = 3
           /\ IsAt(j, "get_pi") <=> j.step = 4
           /\ IsAt(j, "replace") <=> j.step = 5
           /\ IsAt(j, "put_claude") <=> j.step = 6
           /\ IsAt(j, "put_codex") <=> j.step = 7
           /\ IsAt(j, "put_pi") <=> j.step = 8
           /\ IsAt(j, "put_work") <=> j.step = 9
           /\ IsAt(j, "flag") <=> j.step = 10
           /\ IsAt(j, "mark") <=> j.step = 11
<1>1. j.step \in 1..12 /\ Len(ForkPlan) = 11  BY Zenon DEF Jobs, ForkPlan
<1>2. /\ ForkPlan[1] = "get_work" /\ ForkPlan[2] = "get_claude" /\ ForkPlan[3] = "get_codex"
      /\ ForkPlan[4] = "get_pi" /\ ForkPlan[5] = "replace" /\ ForkPlan[6] = "put_claude"
      /\ ForkPlan[7] = "put_codex" /\ ForkPlan[8] = "put_pi" /\ ForkPlan[9] = "put_work"
      /\ ForkPlan[10] = "flag" /\ ForkPlan[11] = "mark"
  BY Zenon DEF ForkPlan
<1>3. \A i \in 1..11 : i \in {1, 2, 3, 4, 5, 6, 7, 8, 9, 10, 11}  OBVIOUS
<1> QED BY <1>1, <1>2, <1>3 DEF Active, Did, IsAt

\* The steps of a recreation without a snapshot.
LEMMA BlindPlaces ==
    ASSUME NEW j \in Jobs, j.plan = BlindPlan
    PROVE  /\ Active(j) <=> j.step <= 2
           /\ Did(j, "replace") <=> j.step > 2
           /\ IsAt(j, "flag") <=> j.step = 1
           /\ IsAt(j, "replace") <=> j.step = 2
           /\ \A x : IsAt(j, x) => x \in {"flag", "replace"}
           /\ ~Did(j, "put_claude")
<1>1. j.step \in 1..12 /\ Len(BlindPlan) = 2  BY Zenon DEF Jobs, BlindPlan
<1>2. BlindPlan[1] = "flag" /\ BlindPlan[2] = "replace"  BY Zenon DEF BlindPlan
<1>3. \A i \in 1..2 : i \in {1, 2}  OBVIOUS
<1> QED BY <1>1, <1>2, <1>3 DEF Active, Did, IsAt

\* The three plans are different, and a job has one of them.
LEMMA JobPlans ==
    ASSUME HomeTypeOK, NEW p \in HomePods, Leased(p)
    PROVE  /\ job[p] \in Jobs
           /\ job[p].plan = RecreatePlan \/ job[p].plan = ForkPlan \/ job[p].plan = BlindPlan
           /\ RecreatePlan # ForkPlan /\ RecreatePlan # BlindPlan /\ ForkPlan # BlindPlan
<1>1. job[p] # NoTransfer  BY DEF Leased, NoTransfer
<1>2. job[p] \in Jobs  BY <1>1, Zenon DEF HomeTypeOK
<1>3. /\ Len(RecreatePlan) = 11 /\ RecreatePlan[1] = "flag" /\ Len(ForkPlan) = 11
      /\ ForkPlan[1] = "get_work" /\ Len(BlindPlan) = 2
  BY Zenon DEF RecreatePlan, ForkPlan, BlindPlan
<1> QED BY <1>2, <1>3 DEF Jobs

\* What is said of a job in terms of its record.
LEMMA JobRecord ==
    ASSUME NEW p \in HomePods
    PROVE  /\ Leased(p) <=> Active(job[p])
           /\ \A x : Doing(p, x) <=> IsAt(job[p], x)
           /\ Leased(p)' <=> Active(job'[p])
BY Zenon DEF Leased, Active, Doing, IsAt

\* A job that is left alone.
LEMMA SameJob ==
    ASSUME NEW p \in HomePods, job'[p] = job[p]
    PROVE  /\ (Leased(p)' <=> Leased(p)) /\ (Replaced(p)' <=> Replaced(p))
           /\ (Recreated(p)' <=> Recreated(p)) /\ (Forked(p)' <=> Forked(p))
           /\ \A x : Did(job'[p], x) <=> Did(job[p], x)
BY Zenon DEF Leased, Replaced, Recreated, Forked

\* A job does its next step.
LEMMA JobAdvances ==
    ASSUME NEW j \in Jobs, NEW k \in Jobs, k.plan = j.plan, k.step = j.step + 1,
           NEW x, IsAt(j, x)
    PROVE  /\ Active(k) => Active(j)
           /\ \A y : Did(k, y) <=> (Did(j, y) \/ y = x)
<1>1. /\ j.step \in Nat /\ j.step >= 1 /\ Len(j.plan) \in Nat
  <2>1. j.plan \in {RecreatePlan, ForkPlan, BlindPlan}  BY Zenon DEF Jobs
  <2>2. Len(RecreatePlan) \in Nat /\ Len(ForkPlan) \in Nat /\ Len(BlindPlan) \in Nat
    BY Zenon DEF RecreatePlan, ForkPlan, BlindPlan
  <2> QED BY <2>1, <2>2, SMTT(30) DEF Jobs
<1> QED BY <1>1 DEF Active, IsAt, Did

\* What a step leaves in a job's record.
LEMMA JobParts ==
    ASSUME NEW j \in Jobs, Active(j)
    PROVE  /\ [j EXCEPT !.step = @ + 1] \in Jobs
           /\ \A b \in BOOLEAN : [j EXCEPT !.step = @ + 1, !.copied = b] \in Jobs
           /\ \A h \in Homes : [j EXCEPT !.step = @ + 1, !.snapshot = h] \in Jobs
<1>1. j.step + 1 \in 1..12
  <2>1. j.step \in 1..12 /\ j.plan \in {RecreatePlan, ForkPlan, BlindPlan}  BY Zenon DEF Jobs
  <2>2. j.step <= 11  BY <2>1, RecreatePlaces, ForkPlaces, BlindPlaces
  <2> QED BY <2>1, <2>2
<1> QED BY <1>1, Zenon DEF Jobs

\* The record of a job that is under way.
LEMMA JobFields ==
    ASSUME NEW j \in Jobs \union {NoTransfer}, Active(j)
    PROVE  /\ j \in Jobs /\ j.source \in HomePods /\ j.sourceId \in Nat
           /\ j.copied \in BOOLEAN /\ j.snapshot \in Homes
<1>1. j # NoTransfer  BY DEF NoTransfer, Active
<1> QED BY <1>1, Zenon DEF Jobs

\* The record of a copy that is under way.
LEMMA CopyFields ==
    ASSUME NEW k \in Copies \union {NoCopy}, k.at # "idle"
    PROVE  /\ k \in Copies /\ k.at \in {"put", "mark"} /\ k.pod \in HomePods
           /\ k.agent \in {Claude, Pi} /\ k.id \in Nat /\ k.to \in Nat
<1>1. k # NoCopy  BY DEF NoCopy
<1> QED BY <1>1, Zenon DEF Copies

\* The types, pod by pod and command by command.
LEMMA TypesOf ==
    ASSUME HomeTypeOK
    PROVE  /\ nextId \in Nat
           /\ \A p \in HomePods :
                /\ row[p] \in (Nat \X BOOLEAN) \union {NoRow} /\ container[p] \in Nat
                /\ home[p] \in Homes /\ job[p] \in Jobs \union {NoTransfer}
           /\ \A c \in Commands : copy[c] \in Copies \union {NoCopy}
BY Zenon DEF HomeTypeOK

-----------------------------------------------------------------------------
(* Rows, containers and jobs                                                 *)

\* What a pod's job is between two steps, if it is not started or replaced.
JobGoesOn(q) ==
    Leased(q)' =>
        /\ Leased(q) /\ job'[q].plan = job[q].plan
        /\ job'[q].source = job[q].source /\ job'[q].sourceId = job[q].sourceId
        /\ Replaced(q)' <=> Replaced(q)

\* What a command's copy is, if it is not started.
CopyGoesOn(c) ==
    Copying(c)' =>
        /\ Copying(c)
        /\ copy'[c].id = copy[c].id /\ copy'[c].to = copy[c].to /\ copy'[c].pod = copy[c].pod
        /\ copy'[c].at = "mark" => (copy[c].at = "mark" \/ copy[c].agent = Claude)
        /\ copy'[c].agent = copy[c].agent

\* The row of the pod stays, and names the same container.
RowStays(q) ==
    /\ row'[q] = NoRow <=> row[q] = NoRow
    /\ row[q] # NoRow => row'[q][1] = row[q][1]

\* No container comes or goes.
LEMMA MatchesKept ==
    ASSUME Matches, HomeTypeOK', container' = container, nextId' >= nextId,
           crossed \subseteq crossed',
           \A q \in HomePods : JobGoesOn(q) /\ RowStays(q),
           \A c \in Commands : CopyGoesOn(c)
    PROVE  Matches'
<1>0. /\ nextId \in Nat /\ nextId' \in Nat
      /\ \A p \in HomePods : /\ container[p] \in Nat
                             /\ job[p] \in Jobs \union {NoTransfer}
                             /\ job'[p] \in Jobs \union {NoTransfer}
      /\ \A c \in Commands : /\ copy[c] \in Copies \union {NoCopy}
                             /\ copy'[c] \in Copies \union {NoCopy}
  BY Zenon DEF Matches, HomeTypeOK
<1>1. RowsMatch'
  BY <1>0 DEF Matches, RowsMatch, RowMatches, RowStays
<1>2. ASSUME NEW c \in Commands PROVE CopyMatches(c)'
  <2> SUFFICES ASSUME Copying(c)' PROVE CopyMatches(c)'  BY Zenon DEF CopyMatches
  <2>1. CopyMatches(c) /\ Copying(c) /\ CopyGoesOn(c)  BY Zenon DEF Matches, CopyGoesOn
  <2>2. copy[c].to \in Nat /\ copy'[c].at \in {"put", "mark"}
    BY <1>0, <2>1, CopyFields, Zenon DEF Copying
  <2>3. \A p \in HomePods : Replaced(p)' => Replaced(p)
    BY Zenon DEF JobGoesOn, Replaced
  <2>4. /\ copy[c].id = copy[c].to /\ copy[c].to # 0 /\ copy[c].to < nextId
        /\ copy[c].at = "mark" => copy[c].agent = Claude
        /\ \A p \in HomePods : container[p] = copy[c].to => p = copy[c].pod /\ ~Replaced(p)
    BY <2>1, Zenon DEF CopyMatches
  <2>5. /\ copy'[c].id = copy[c].id /\ copy'[c].to = copy[c].to /\ copy'[c].pod = copy[c].pod
        /\ copy'[c].at = "mark" => copy'[c].agent = Claude
    BY <2>1, <2>4, Zenon DEF CopyGoesOn
  <2>6. copy'[c].to < nextId'  BY <1>0, <2>2, <2>4, <2>5
  <2> QED BY <2>3, <2>4, <2>5, <2>6, Zenon DEF CopyMatches
<1>3. ASSUME NEW p \in HomePods PROVE JobMatches(p)'
  <2> SUFFICES ASSUME Leased(p)' PROVE JobMatches(p)'  BY Zenon DEF JobMatches
  <2>1. JobMatches(p) /\ JobGoesOn(p) /\ Leased(p)  BY Zenon DEF Matches, JobGoesOn
  <2>3. job[p].source \in HomePods /\ job[p].sourceId \in Nat
    BY <1>0, <2>1, JobFields, Zenon DEF Leased, Active
  <2>4. Replaced(job[p].source)' => Replaced(job[p].source)
    BY <2>3, Zenon DEF JobGoesOn, Replaced
  <2>5. RowStays(p)  BY Zenon
  <2>6. job[p].sourceId < nextId'  BY <1>0, <2>1, <2>3 DEF JobMatches
  <2>7. /\ job'[p].plan = job[p].plan
        /\ job'[p].source = job[p].source /\ job'[p].sourceId = job[p].sourceId
        /\ Replaced(p)' <=> Replaced(p)
    BY <2>1, Zenon DEF JobGoesOn
  <2>8. SourceStays(p)' <=> SourceStays(p)  BY <2>7, Zenon DEF SourceStays
  <2> QED BY <2>1, <2>4, <2>5, <2>6, <2>7, <2>8, Zenon DEF JobMatches, RowStays
<1> QED BY <1>1, <1>2, <1>3, Zenon DEF Matches

\* A command begins to copy into a pod that no job holds.
LEMMA MatchesCheck ==
    ASSUME Matches, NEW c \in Commands, NEW p \in HomePods, NEW agent \in {Claude, Pi},
           CopyChecks(c, p, agent)
    PROVE  Matches'
<1>0. /\ nextId \in Nat /\ row[p] \in (Nat \X BOOLEAN) \union {NoRow}
      /\ copy \in [Commands -> Copies \union {NoCopy}] /\ container \in [HomePods -> Nat]
  BY Zenon DEF Matches, HomeTypeOK
<1>1. /\ UNCHANGED <<row, nextId, container, home, job>>
      /\ row[p] # NoRow /\ ~Leased(p)
      /\ crossed \subseteq crossed'
  BY Zenon DEF CopyChecks, Entered
<1>2. RowMatches(p)  BY Zenon DEF Matches, RowsMatch
<1> DEFINE k == [at |-> "put", pod |-> p, agent |-> agent, id |-> row[p][1], to |-> container[p]]
<1>3. copy' = [copy EXCEPT ![c] = k]  BY Zenon DEF CopyChecks
<1>4. /\ k \in Copies /\ k.at = "put" /\ k.pod = p /\ k.id = container[p] /\ k.to = container[p]
      /\ container[p] # 0 /\ container[p] < nextId
  BY <1>0, <1>1, <1>2, Zenon DEF Copies, RowMatches
<1> HIDE DEF k
<1>5. HomeTypeOK'
  BY <1>0, <1>1, <1>3, <1>4, Zenon DEF Matches, HomeTypeOK
<1>6. \A q \in HomePods : Replaced(q)' <=> Replaced(q)
  BY <1>1, Zenon DEF Replaced, Leased
<1>7. RowsMatch'  BY <1>1, Zenon DEF Matches, RowsMatch, RowMatches
<1>8. ASSUME NEW d \in Commands PROVE CopyMatches(d)'
  <2>1. CASE d = c
    <3>1. copy'[d] = k  BY <1>0, <1>3, <2>1, Zenon
    <3>2. \A q \in HomePods : container[q] = container[p] => q = p
      BY <1>4, Zenon DEF Matches, RowsMatch
    <3>3. ~Replaced(p)  BY <1>1, Zenon DEF Replaced
    <3> QED BY <1>1, <1>4, <1>6, <3>1, <3>2, <3>3, Zenon DEF CopyMatches
  <2>2. CASE d # c
    <3>1. copy'[d] = copy[d] /\ CopyMatches(d)  BY <1>0, <1>3, <2>2, Zenon DEF Matches
    <3> QED BY <1>1, <1>6, <3>1, Zenon DEF CopyMatches, Copying
  <2> QED BY <2>1, <2>2, Zenon
<1>9. ASSUME NEW q \in HomePods PROVE JobMatches(q)'
  <2>1. JobMatches(q)  BY Zenon DEF Matches
  <2>2. (Leased(q)' <=> Leased(q)) /\ (SourceStays(q)' <=> SourceStays(q))
    BY <1>1, Zenon DEF Leased, SourceStays
  <2>3. Leased(q) => job[q].source \in HomePods
    BY JobFields, TypesOf, Zenon DEF Matches, Leased, Active
  <2>4. /\ Leased(q) => (Replaced(job[q].source)' <=> Replaced(job[q].source))
        /\ Replaced(q)' <=> Replaced(q)
    BY <1>1, <1>6, <2>3, Zenon
  <2> QED BY <1>1, <2>1, <2>2, <2>4, Zenon DEF JobMatches
<1> QED BY <1>5, <1>7, <1>8, <1>9, Zenon DEF Matches

\* A job starts: nothing is replaced yet.
LEMMA MatchesStart ==
    ASSUME Matches, NEW p \in HomePods, NEW source \in HomePods,
           NEW plan \in {RecreatePlan, ForkPlan, BlindPlan}, StartJob(p, source, plan),
           plan = ForkPlan <=> source # p, source # p => row[p] = NoRow
    PROVE  /\ Matches' /\ UNCHANGED <<row, nextId, container, home, copy, unreset, lost>>
           /\ \A q \in HomePods \ {p} : job'[q] = job[q]
           /\ Leased(p)' /\ \A x : ~Did(job'[p], x)
           /\ job'[p].plan = plan /\ job'[p].source = source /\ job'[p].sourceId = row[source][1]
           /\ job'[p].copied = FALSE /\ job'[p].snapshot = FreshHome
           /\ row[source] # NoRow /\ ~Leased(p) /\ container[source] = row[source][1]
<1>0. /\ nextId \in Nat /\ row[source] \in (Nat \X BOOLEAN) \union {NoRow}
      /\ job \in [HomePods -> Jobs \union {NoTransfer}] /\ container \in [HomePods -> Nat]
  BY Zenon DEF Matches, HomeTypeOK
<1>1. /\ UNCHANGED <<row, nextId, container, home, copy, unreset, lost>>
      /\ row[source] # NoRow /\ ~Leased(p)
      /\ crossed \subseteq crossed'
  BY Zenon DEF StartJob
<1>2. container[source] = row[source][1] /\ container[source] # 0 /\ container[source] < nextId
  BY <1>1, Zenon DEF Matches, RowsMatch, RowMatches
<1> DEFINE j == [plan |-> plan, step |-> 1, source |-> source,
                 sourceId |-> row[source][1], copied |-> FALSE, snapshot |-> FreshHome]
<1>3. job' = [job EXCEPT ![p] = j]  BY Zenon DEF StartJob
<1>4. /\ j \in Jobs /\ j.plan = plan /\ j.step = 1 /\ j.source = source
      /\ j.sourceId = container[source] /\ j.copied = FALSE /\ j.snapshot = FreshHome
  <2>1. row[source][1] \in Nat  BY <1>0, <1>2, Zenon
  <2> QED BY <1>2, <2>1, FreshTypes DEF Jobs
<1> HIDE DEF j
<1>5. HomeTypeOK'  BY <1>0, <1>1, <1>3, <1>4, Zenon DEF Matches, HomeTypeOK
<1>6. job'[p] = j /\ \A q \in HomePods \ {p} : job'[q] = job[q]  BY <1>0, <1>3, Zenon
<1>7. Leased(p)' /\ \A x : ~Did(job'[p], x)
  <2>1. Len(RecreatePlan) = 11 /\ Len(ForkPlan) = 11 /\ Len(BlindPlan) = 2
    BY Zenon DEF RecreatePlan, ForkPlan, BlindPlan
  <2>2. Len(plan) = 2 \/ Len(plan) = 11  BY <2>1, Zenon
  <2>3. job'[p].plan = plan /\ job'[p].step = 1  BY <1>4, <1>6, Zenon
  <2>4. \A x : ~Did(job'[p], x)  BY <2>2, <2>3 DEF Did
  <2>5. Active(j)  BY <1>4, RecreatePlaces, ForkPlaces, BlindPlaces
  <2>6. Leased(p)'  BY <1>6, <2>5, Zenon DEF Leased, Active
  <2> QED BY <2>4, <2>6, Zenon
<1>8. \A q \in HomePods : Replaced(q)' => Replaced(q)
  BY <1>6, <1>7, SameJob, Zenon DEF Replaced
<1>9. \A q \in HomePods \ {p} : Replaced(q)' <=> Replaced(q)
  BY <1>6, SameJob, Zenon
<1>10. RowsMatch'  BY <1>1, Zenon DEF Matches, RowsMatch, RowMatches
<1>11. ASSUME NEW d \in Commands PROVE CopyMatches(d)'
  <2>1. CopyMatches(d)  BY Zenon DEF Matches
  <2> QED BY <1>1, <1>8, <2>1, Zenon DEF CopyMatches, Copying
<1>12. ASSUME NEW q \in HomePods PROVE JobMatches(q)'
  <2>1. CASE q = p
    <3>1. ~Replaced(p)'  BY <1>7, Zenon DEF Replaced
    <3>2. SourceStays(p)'  BY <1>1, <1>4, <1>6, Zenon DEF SourceStays
    <3>3. source # p /\ p \notin crossed' => ~Replaced(source)'
      <4> SUFFICES ASSUME source # p, Replaced(source)' PROVE p \in crossed'
        BY Zenon
      <4>1. Leased(source)  BY <1>9, Zenon DEF Replaced
      <4>2. source \in InJob  BY <4>1, Zenon DEF InJob
      <4> QED BY <4>2, Zenon DEF StartJob
    <3> QED BY <1>1, <1>2, <1>4, <1>6, <2>1, <3>1, <3>2, <3>3, Zenon DEF JobMatches
  <2>2. CASE q # p
    <3>1. JobMatches(q) /\ job'[q] = job[q] /\ (Leased(q)' <=> Leased(q))
          /\ (Replaced(q)' <=> Replaced(q))
      BY <1>6, <2>2, SameJob, Zenon DEF Matches
    <3>2. Leased(q) => job[q].source \in HomePods
      BY JobFields, TypesOf, Zenon DEF Matches, Leased, Active
    <3>3. SourceStays(q)' <=> SourceStays(q)  BY <1>1, <3>1, Zenon DEF SourceStays
    <3>4. Leased(q) /\ Replaced(job[q].source)' => Replaced(job[q].source)
      BY <1>8, <3>1, <3>2, Zenon
    <3> QED BY <1>1, <3>1, <3>3, <3>4, Zenon DEF JobMatches
  <2> QED BY <2>1, <2>2, Zenon
<1>13. Matches'  BY <1>5, <1>10, <1>11, <1>12, Zenon DEF Matches
<1> QED BY <1>1, <1>2, <1>4, <1>6, <1>7, <1>13, Zenon

\* A pod's container is replaced by a new one, or by none.
LEMMA MatchesRenewed ==
    ASSUME Matches, HomeTypeOK', NEW p \in HomePods, nextId' >= nextId, copy' = copy,
           \A q \in HomePods \ {p} :
               row'[q] = row[q] /\ container'[q] = container[q] /\ job'[q] = job[q],
           container'[p] = 0 \/ container'[p] = nextId, RowMatches(p)',
           Leased(p)' => /\ Leased(p) /\ job'[p].plan = job[p].plan
                         /\ job'[p].source = job[p].source /\ job'[p].sourceId = job[p].sourceId
                         /\ Replaced(p)' /\ row'[p] # NoRow,
           crossed \subseteq crossed'
    PROVE  Matches'
<1>0. /\ nextId \in Nat /\ nextId' \in Nat
      /\ \A q \in HomePods : /\ container[q] \in Nat /\ container'[q] \in Nat
                             /\ job[q] \in Jobs \union {NoTransfer}
                             /\ job'[q] \in Jobs \union {NoTransfer}
      /\ \A c \in Commands : copy[c] \in Copies \union {NoCopy}
  BY Zenon DEF Matches, HomeTypeOK
<1>1. \A q \in HomePods \ {p} : (Replaced(q)' <=> Replaced(q)) /\ (Leased(q)' <=> Leased(q))
  BY SameJob, Zenon
<1>2. \A q \in HomePods : container[q] < nextId  BY Zenon DEF Matches, RowsMatch, RowMatches
<1>3. RowsMatch'
  <2>1. ASSUME NEW q \in HomePods PROVE RowMatches(q)'
    <3>1. CASE q = p  BY <3>1, Zenon
    <3>2. CASE q # p
      <4>1. RowMatches(q)  BY Zenon DEF Matches, RowsMatch
      <4> QED BY <1>0, <3>2, <4>1 DEF RowMatches
    <3> QED BY <3>1, <3>2, Zenon
  <2>2. ASSUME NEW q \in HomePods, NEW r \in HomePods,
               container'[q] = container'[r], container'[q] # 0
        PROVE  q = r
    <3>1. CASE q = p  BY <1>0, <1>2, <2>2, <3>1
    <3>2. CASE r = p  BY <1>0, <1>2, <2>2, <3>2
    <3>3. CASE q # p /\ r # p  BY <2>2, <3>3 DEF Matches, RowsMatch
    <3> QED BY <3>1, <3>2, <3>3, Zenon
  <2> QED BY <2>1, <2>2, Zenon DEF RowsMatch
<1>4. ASSUME NEW c \in Commands PROVE CopyMatches(c)'
  <2> SUFFICES ASSUME Copying(c) PROVE CopyMatches(c)'  BY Zenon DEF CopyMatches, Copying
  <2>1. CopyMatches(c)  BY Zenon DEF Matches
  <2>2. copy[c].to \in Nat  BY <1>0, CopyFields, Zenon DEF Copying
  <2>3. /\ copy[c].id = copy[c].to /\ copy[c].to # 0 /\ copy[c].to < nextId
        /\ copy[c].at = "mark" => copy[c].agent = Claude
    BY <2>1, Zenon DEF CopyMatches
  <2>4. ASSUME NEW q \in HomePods, container'[q] = copy[c].to
        PROVE  q = copy[c].pod /\ ~Replaced(q)'
    <3>1. q # p  BY <1>0, <2>2, <2>3, <2>4
    <3>2. container[q] = copy[c].to  BY <2>4, <3>1, Zenon
    <3> QED BY <1>1, <2>1, <3>1, <3>2, Zenon DEF CopyMatches
  <2>5. copy[c].to < nextId'  BY <1>0, <2>2, <2>3
  <2> QED BY <2>3, <2>4, <2>5, Zenon DEF CopyMatches
<1>5. ASSUME NEW q \in HomePods PROVE JobMatches(q)'
  <2> SUFFICES ASSUME Leased(q)' PROVE JobMatches(q)'  BY Zenon DEF JobMatches
  <2>1. JobMatches(q) /\ Leased(q)  BY <1>1, Zenon DEF Matches
  <2> DEFINE s == job[q].source
  <2>2. s \in HomePods /\ job[q].sourceId \in Nat
    BY <1>0, <2>1, JobFields, Zenon DEF Leased, Active
  <2>3. /\ job'[q].plan = job[q].plan /\ job'[q].source = s /\ job'[q].sourceId = job[q].sourceId
    BY <2>1, Zenon
  <2>4. /\ s # p /\ SourceStays(q)' => SourceStays(q)
        /\ s = p => ~SourceStays(q)'
        /\ s # p /\ SourceStays(q) => SourceStays(q)'
    <3>1. job[q].sourceId # 0 /\ job[q].sourceId < nextId  BY <2>1, Zenon DEF JobMatches
    <3> QED BY <1>0, <2>2, <2>3, <3>1 DEF SourceStays
  <2>5. job[q].sourceId < nextId'  BY <1>0, <2>1, <2>2 DEF JobMatches
  <2>6. s # p => (Replaced(job[q].source)' <=> Replaced(s))  BY <1>1, <2>2, <2>3, Zenon
  <2>7. Replaced(q) => Replaced(q)'  BY <1>1, Zenon
  <2>8. Replaced(q)' => row'[q] # NoRow  BY <1>1, <2>1, Zenon DEF JobMatches
  <2>9. ~Replaced(q)' => q # p /\ ~Replaced(q) /\ row'[q] = row[q]  BY <2>7, Zenon
  <2>10. (~Replaced(q)' /\ s = q) => SourceStays(q)'  BY <2>1, <2>4, <2>9, Zenon DEF JobMatches
  <2>11. (s # q /\ SourceStays(q)' /\ q \notin crossed')
           => ~Replaced(job[q].source)'
    BY <2>1, <2>4, <2>6, Zenon DEF JobMatches
  <2>12. (~Replaced(q)' /\ s # q) => row'[q] = NoRow  BY <2>1, <2>9, Zenon DEF JobMatches
  <2>13. (job[q].plan = ForkPlan <=> s # q) /\ job[q].sourceId # 0
    BY <2>1, Zenon DEF JobMatches
  <2> HIDE DEF s
  <2> QED BY <2>3, <2>5, <2>8, <2>10, <2>11, <2>12, <2>13, Zenon DEF JobMatches
<1> QED BY <1>3, <1>4, <1>5, Zenon DEF Matches

-----------------------------------------------------------------------------
(* What the steps of a job do                                                *)

\* The job of pod p does step x, and no other job does any.
Moved(p, x) ==
    /\ Leased(p) /\ IsAt(job[p], x) /\ job[p] \in Jobs /\ job'[p] \in Jobs
    /\ job'[p].plan = job[p].plan /\ job'[p].step = job[p].step + 1
    /\ job'[p].source = job[p].source /\ job'[p].sourceId = job[p].sourceId
    /\ \A y : Did(job'[p], y) <=> (Did(job[p], y) \/ y = x)
    /\ \A q \in HomePods \ {p} : job'[q] = job[q]

\* Whatever else the step does to the job.
LEMMA JobMoved ==
    ASSUME HomeTypeOK, NEW p \in HomePods, NEW x, Doing(p, x), NEW j \in Jobs,
           job' = [job EXCEPT ![p] = j], j.plan = job[p].plan, j.step = job[p].step + 1,
           j.source = job[p].source, j.sourceId = job[p].sourceId
    PROVE  Moved(p, x) /\ job'[p] = j /\ job' \in [HomePods -> Jobs \union {NoTransfer}]
<1>1. job \in [HomePods -> Jobs \union {NoTransfer}]  BY Zenon DEF HomeTypeOK
<1>2. IsAt(job[p], x) /\ Leased(p)  BY Zenon DEF Doing, IsAt, Leased, Active
<1>3. job[p] \in Jobs  BY <1>1, <1>2, JobFields, Zenon DEF IsAt
<1>4. job'[p] = j /\ \A q \in HomePods \ {p} : job'[q] = job[q]  BY <1>1, Zenon
<1>5. \A y : Did(j, y) <=> (Did(job[p], y) \/ y = x)
  BY <1>2, <1>3, JobAdvances, Zenon
<1> QED BY <1>1, <1>2, <1>3, <1>4, <1>5, Zenon DEF Moved

\* A step that is not the replacement leaves the jobs in that respect.
LEMMA MovedGoesOn ==
    ASSUME HomeTypeOK, NEW p \in HomePods, NEW x, Moved(p, x), x # "replace"
    PROVE  \A q \in HomePods : JobGoesOn(q)
<1>1. ASSUME NEW q \in HomePods, q # p PROVE JobGoesOn(q)
  <2>1. job'[q] = job[q]  BY <1>1, Zenon DEF Moved
  <2> QED BY <2>1, SameJob, Zenon DEF JobGoesOn
<1>2. JobGoesOn(p)
  BY Zenon DEF JobGoesOn, Moved, Replaced
<1> QED BY <1>1, <1>2, Zenon

\* ReadFlag: what the mark said is kept.
LEMMA FlagEffect ==
    ASSUME Matches, NEW p \in HomePods, ReadFlag(p)
    PROVE  /\ Matches' /\ Moved(p, "flag")
           /\ row[job[p].source] # NoRow /\ row[job[p].source][1] = job[p].sourceId
           /\ job'[p].copied = row[job[p].source][2] /\ job'[p].snapshot = job[p].snapshot
           /\ UNCHANGED <<row, nextId, container, home, copy, crossed, unreset, lost>>
<1> DEFINE r == row[job[p].source]
           j == [job[p] EXCEPT !.step = @ + 1, !.copied = r[2]]
<1>0. HomeTypeOK /\ job \in [HomePods -> Jobs \union {NoTransfer}]  BY Zenon DEF Matches, HomeTypeOK
<1>1. Doing(p, "flag") /\ r # NoRow /\ r[1] = job[p].sourceId  BY Zenon DEF ReadFlag
<1>2. Active(job[p])  BY <1>1, Zenon DEF Doing, Leased, Active
<1>3. job[p] \in Jobs /\ job[p].source \in HomePods  BY <1>0, <1>2, JobFields, Zenon
<1>4. r[2] \in BOOLEAN  BY <1>0, <1>1, <1>3, TypesOf, Zenon
<1>5. job' = [job EXCEPT ![p] = j]  BY <1>0, Zenon DEF ReadFlag
<1>6. j \in Jobs  BY <1>2, <1>3, <1>4, JobParts, Zenon
<1>7. /\ j.plan = job[p].plan /\ j.step = job[p].step + 1 /\ j.source = job[p].source
      /\ j.sourceId = job[p].sourceId /\ j.copied = r[2] /\ j.snapshot = job[p].snapshot
  BY <1>3, Zenon DEF Jobs
<1> HIDE DEF j
<1>8. Moved(p, "flag") /\ job'[p] = j /\ job' \in [HomePods -> Jobs \union {NoTransfer}]
  BY <1>0, <1>1, <1>5, <1>6, <1>7, JobMoved, Zenon
<1>9. UNCHANGED <<row, nextId, container, home, copy, crossed, unreset, lost>>
  BY Zenon DEF ReadFlag
<1>10. HomeTypeOK'  BY <1>0, <1>8, <1>9, Zenon DEF HomeTypeOK
<1>11. \A q \in HomePods : JobGoesOn(q)  BY <1>0, <1>8, MovedGoesOn, Zenon
<1>12. Matches'
  <2>1. \A q \in HomePods : RowStays(q)  BY <1>9, Zenon DEF RowStays
  <2>2. \A c \in Commands : CopyGoesOn(c)  BY <1>9, Zenon DEF CopyGoesOn, Copying
  <2>3. nextId' >= nextId  BY <1>0, <1>9 DEF HomeTypeOK
  <2> QED BY <1>9, <1>10, <1>11, <2>1, <2>2, <2>3, MatchesKept, Zenon
<1> QED BY <1>1, <1>7, <1>8, <1>9, <1>12, Zenon

\* Get: one part of the source's home is kept.
LEMMA GetEffect ==
    ASSUME Matches, NEW p \in HomePods, NEW x, x # "replace", Doing(p, x),
           NEW part \in {"claude", "pi", "codex", "work"}, Get(p, part)
    PROVE  /\ Matches' /\ Moved(p, x) /\ job'[p].copied = job[p].copied
           /\ job[p].snapshot \in Homes /\ job'[p].snapshot \in Homes
           /\ job'[p].snapshot =
                [job[p].snapshot EXCEPT ![part] = home[job[p].source][part]]
           /\ home[job[p].source] \in Homes
           /\ UNCHANGED <<row, nextId, container, home, copy, crossed, unreset, lost>>
<1> DEFINE h == [job[p].snapshot EXCEPT ![part] = home[job[p].source][part]]
           j == [job[p] EXCEPT !.step = @ + 1, !.snapshot = h]
<1>0. HomeTypeOK /\ job \in [HomePods -> Jobs \union {NoTransfer}]  BY Zenon DEF Matches, HomeTypeOK
<1>2. Active(job[p])  BY Zenon DEF Doing, Leased, Active
<1>3. job[p] \in Jobs /\ job[p].source \in HomePods /\ job[p].snapshot \in Homes
  BY <1>0, <1>2, JobFields, Zenon
<1>4. h \in Homes /\ home[job[p].source] \in Homes
  <2>1. home[job[p].source] \in Homes  BY <1>0, <1>3, TypesOf, Zenon
  <2>2. /\ home[job[p].source].claude \in AgentStates /\ home[job[p].source].pi \in AgentStates
        /\ home[job[p].source].codex \in Codexes /\ home[job[p].source].work \in Nat
    BY <2>1, Zenon DEF Homes
  <2> QED BY <1>3, <2>1, <2>2, HomeParts, Zenon
<1>5. job' = [job EXCEPT ![p] = j]
  BY <1>0, Zenon DEF Get
<1>6. j \in Jobs
  <2> HIDE DEF h
  <2> QED BY <1>2, <1>3, <1>4, JobParts, Zenon
<1>7. /\ j.plan = job[p].plan /\ j.step = job[p].step + 1 /\ j.source = job[p].source
      /\ j.sourceId = job[p].sourceId /\ j.copied = job[p].copied /\ j.snapshot = h
  <2> HIDE DEF h
  <2> QED BY <1>3, Zenon DEF Jobs
<1> HIDE DEF j
<1>8. Moved(p, x) /\ job'[p] = j /\ job' \in [HomePods -> Jobs \union {NoTransfer}]
  BY <1>0, <1>5, <1>6, <1>7, JobMoved, Zenon
<1>9. UNCHANGED <<row, nextId, container, home, copy, crossed, unreset, lost>>
  BY Zenon DEF Get
<1>10. HomeTypeOK'  BY <1>0, <1>8, <1>9, Zenon DEF HomeTypeOK
<1>11. \A q \in HomePods : JobGoesOn(q)  BY <1>0, <1>8, MovedGoesOn, Zenon
<1>12. Matches'
  <2>1. \A q \in HomePods : RowStays(q)  BY <1>9, Zenon DEF RowStays
  <2>2. \A c \in Commands : CopyGoesOn(c)  BY <1>9, Zenon DEF CopyGoesOn, Copying
  <2>3. nextId' >= nextId  BY <1>0, <1>9 DEF HomeTypeOK
  <2> QED BY <1>9, <1>10, <1>11, <2>1, <2>2, <2>3, MatchesKept, Zenon
<1> QED BY <1>3, <1>4, <1>7, <1>8, <1>9, <1>12, Zenon

\* A step whose only change to the job is that it is done.
LEMMA AdvanceEffect ==
    ASSUME HomeTypeOK, NEW p \in HomePods, NEW x, Doing(p, x), Advance(p)
    PROVE  /\ Moved(p, x) /\ job' \in [HomePods -> Jobs \union {NoTransfer}]
           /\ job'[p].copied = job[p].copied /\ job'[p].snapshot = job[p].snapshot
<1> DEFINE j == [job[p] EXCEPT !.step = @ + 1]
<1>0. job \in [HomePods -> Jobs \union {NoTransfer}]  BY Zenon DEF HomeTypeOK
<1>2. Active(job[p])  BY Zenon DEF Doing, Leased, Active
<1>3. job[p] \in Jobs  BY <1>0, <1>2, JobFields, Zenon
<1>5. job' = [job EXCEPT ![p] = j]  BY <1>0, Zenon DEF Advance
<1>6. j \in Jobs  BY <1>2, <1>3, JobParts, Zenon
<1>7. /\ j.plan = job[p].plan /\ j.step = job[p].step + 1 /\ j.source = job[p].source
      /\ j.sourceId = job[p].sourceId /\ j.copied = job[p].copied
      /\ j.snapshot = job[p].snapshot
  BY <1>3, Zenon DEF Jobs
<1> HIDE DEF j
<1>8. Moved(p, x) /\ job'[p] = j /\ job' \in [HomePods -> Jobs \union {NoTransfer}]
  BY <1>5, <1>6, <1>7, JobMoved, Zenon
<1> QED BY <1>7, <1>8, Zenon

\* Put: one part of the new home is restored.
LEMMA PutEffect ==
    ASSUME Matches, NEW p \in HomePods, NEW x, x # "replace", Doing(p, x), NEW h \in Homes,
           home' = [home EXCEPT ![p] = h], Advance(p),
           UNCHANGED <<row, nextId, container, copy, crossed, unreset, lost>>
    PROVE  /\ Matches' /\ Moved(p, x) /\ home'[p] = h
           /\ \A q \in HomePods \ {p} : home'[q] = home[q]
           /\ job'[p].copied = job[p].copied /\ job'[p].snapshot = job[p].snapshot
<1>0. HomeTypeOK /\ home \in [HomePods -> Homes]  BY Zenon DEF Matches, HomeTypeOK
<1>1. /\ Moved(p, x) /\ job' \in [HomePods -> Jobs \union {NoTransfer}]
      /\ job'[p].copied = job[p].copied /\ job'[p].snapshot = job[p].snapshot
  BY <1>0, AdvanceEffect, Zenon
<1>2. /\ home' \in [HomePods -> Homes] /\ home'[p] = h
      /\ \A q \in HomePods \ {p} : home'[q] = home[q]
  BY <1>0, Zenon
<1>3. HomeTypeOK'  BY <1>0, <1>1, <1>2, Zenon DEF HomeTypeOK
<1>4. \A q \in HomePods : JobGoesOn(q)  BY <1>0, <1>1, MovedGoesOn, Zenon
<1>5. \A q \in HomePods : RowStays(q)  BY Zenon DEF RowStays
<1>6. \A c \in Commands : CopyGoesOn(c)  BY Zenon DEF CopyGoesOn, Copying
<1>7. nextId' >= nextId  BY <1>0 DEF HomeTypeOK
<1>8. Matches'  BY <1>3, <1>4, <1>5, <1>6, <1>7, MatchesKept, Zenon
<1> QED BY <1>1, <1>2, <1>8, Zenon

\* MarkRestored: the new row gets the mark the job has read.
LEMMA MarkEffect ==
    ASSUME Matches, NEW p \in HomePods, MarkRestored(p)
    PROVE  /\ Matches' /\ Moved(p, "mark")
           /\ \A q \in HomePods \ {p} : row'[q] = row[q]
           /\ (row[p] # NoRow /\ row'[p] # NoRow)
                => (row'[p][2] <=> (row[p][2] \/ (job[p].copied /\ Has(job[p].snapshot))))
           /\ row'[p] = NoRow <=> row[p] = NoRow
           /\ job'[p].copied = job[p].copied /\ job'[p].snapshot = job[p].snapshot
           /\ UNCHANGED <<nextId, container, home, copy, crossed, unreset, lost>>
<1>0. HomeTypeOK /\ row \in [HomePods -> (Nat \X BOOLEAN) \union {NoRow}]
  BY Zenon DEF Matches, HomeTypeOK
<1>a. Doing(p, "mark") /\ Advance(p)  BY Zenon DEF MarkRestored
<1>1. /\ Moved(p, "mark") /\ job' \in [HomePods -> Jobs \union {NoTransfer}]
      /\ job'[p].copied = job[p].copied /\ job'[p].snapshot = job[p].snapshot
  BY <1>0, <1>a, AdvanceEffect, Zenon
<1>b. UNCHANGED <<nextId, container, home, copy, crossed, unreset, lost>>
  BY Zenon DEF MarkRestored
<1>c. Replaced(p) /\ row[p] # NoRow
  <2>1. job[p] \in Jobs /\ IsAt(job[p], "mark") /\ Leased(p)  BY <1>1, Zenon DEF Moved
  <2>2. job[p].plan \in {RecreatePlan, ForkPlan, BlindPlan}  BY <2>1, Zenon DEF Jobs
  <2>3. Did(job[p], "replace")  BY <2>1, <2>2, RecreatePlaces, ForkPlaces, BlindPlaces
  <2>4. Replaced(p)  BY <2>1, <2>3, Zenon DEF Replaced
  <2> QED BY <2>1, <2>4, Zenon DEF Matches, JobMatches
<1>d. row[p] \in Nat \X BOOLEAN  BY <1>0, <1>c, Zenon
<1>2. /\ row' \in [HomePods -> (Nat \X BOOLEAN) \union {NoRow}]
      /\ \A q \in HomePods \ {p} : row'[q] = row[q]
      /\ row'[p] \in Nat \X BOOLEAN /\ row'[p][1] = row[p][1]
      /\ row'[p][2] <=> (row[p][2] \/ (job[p].copied /\ Has(job[p].snapshot)))
  <2>1. CASE job[p].copied /\ Has(job[p].snapshot)
    <3>1. row' = [row EXCEPT ![p] = <<row[p][1], TRUE>>]
      BY <1>0, <2>1, Zenon DEF MarkRestored, Has
    <3>2. row[p][1] \in Nat  BY <1>d, Zenon
    <3>3. row'[p] = <<row[p][1], TRUE>>  BY <1>0, <3>1, Zenon
    <3>4. row'[p] \in Nat \X BOOLEAN /\ row'[p][1] = row[p][1] /\ row'[p][2]
      <4>0. \A n \in Nat : <<n, TRUE>> \in Nat \X BOOLEAN  BY Zenon
      <4>1. row'[p] \in Nat \X BOOLEAN  BY <3>2, <3>3, <4>0, Zenon
      <4>2. row'[p][1] = row[p][1]  BY <3>3
      <4>3. row'[p][2] = TRUE  BY <3>3
      <4> QED BY <4>1, <4>2, <4>3, Zenon
    <3>5. /\ row' \in [HomePods -> (Nat \X BOOLEAN) \union {NoRow}]
          /\ \A q \in HomePods \ {p} : row'[q] = row[q]
      BY <1>0, <3>1, <3>2, Zenon
    <3> QED BY <2>1, <3>4, <3>5, Zenon
  <2>2. CASE ~(job[p].copied /\ Has(job[p].snapshot))
    <3>1. row' = row  BY <2>2, Zenon DEF MarkRestored, Has
    <3> QED BY <1>0, <1>d, <2>2, <3>1, Zenon
  <2> QED BY <2>1, <2>2, Zenon
<1>3. HomeTypeOK'  BY <1>0, <1>1, <1>b, <1>2, Zenon DEF HomeTypeOK
<1>4. \A q \in HomePods : JobGoesOn(q)  BY <1>0, <1>1, MovedGoesOn, Zenon
<1>e. row'[p] # NoRow  BY <1>2 DEF NoRow
<1>5. \A q \in HomePods : RowStays(q)  BY <1>2, <1>c, <1>e, Zenon DEF RowStays
<1>6. \A c \in Commands : CopyGoesOn(c)  BY <1>b, Zenon DEF CopyGoesOn, Copying
<1>7. nextId' >= nextId  BY <1>0, <1>b DEF HomeTypeOK
<1>8. Matches'  BY <1>b, <1>3, <1>4, <1>5, <1>6, <1>7, MatchesKept, Zenon
<1> QED BY <1>1, <1>2, <1>8, <1>b, <1>c, <1>e, Zenon

\* Replace: the pod has a new row, a new container and a fresh home.
LEMMA ReplaceEffect ==
    ASSUME Matches, NEW p \in HomePods, Replace(p)
    PROVE  /\ Matches' /\ Moved(p, "replace")
           /\ row'[p] # NoRow /\ row'[p][1] = nextId /\ row'[p][2] = FALSE
           /\ container'[p] = nextId /\ home'[p] = FreshHome /\ nextId' = nextId + 1
           /\ \A q \in HomePods \ {p} :
                row'[q] = row[q] /\ container'[q] = container[q] /\ home'[q] = home[q]
           /\ job'[p].copied = job[p].copied /\ job'[p].snapshot = job[p].snapshot
           /\ UNCHANGED <<copy, crossed, unreset, lost>>
<1>0. /\ HomeTypeOK /\ row \in [HomePods -> (Nat \X BOOLEAN) \union {NoRow}]
      /\ home \in [HomePods -> Homes] /\ container \in [HomePods -> Nat] /\ nextId \in Nat
  BY Zenon DEF Matches, HomeTypeOK
<1>a. Doing(p, "replace") /\ Advance(p)  BY Zenon DEF Replace
<1>1. /\ Moved(p, "replace") /\ job' \in [HomePods -> Jobs \union {NoTransfer}]
      /\ job'[p].copied = job[p].copied /\ job'[p].snapshot = job[p].snapshot
  BY <1>0, <1>a, AdvanceEffect, Zenon
<1>b. UNCHANGED <<copy, crossed, unreset, lost>>  BY Zenon DEF Replace
<1>2. /\ row' = [row EXCEPT ![p] = <<nextId, FALSE>>]
      /\ container' = [container EXCEPT ![p] = nextId] /\ nextId' = nextId + 1
      /\ home' = [home EXCEPT ![p] = FreshHome]
  BY Zenon DEF Replace
<1>3. /\ row' \in [HomePods -> (Nat \X BOOLEAN) \union {NoRow}] /\ row'[p] = <<nextId, FALSE>>
      /\ container' \in [HomePods -> Nat] /\ container'[p] = nextId
      /\ home' \in [HomePods -> Homes] /\ home'[p] = FreshHome
      /\ \A q \in HomePods \ {p} :
           row'[q] = row[q] /\ container'[q] = container[q] /\ home'[q] = home[q]
  BY <1>0, <1>2, FreshTypes, Zenon
<1>4. row'[p] # NoRow /\ row'[p][1] = nextId /\ row'[p][2] = FALSE  BY <1>3 DEF NoRow
<1>5. HomeTypeOK'
  <2>1. nextId' \in Nat  BY <1>0, <1>2
  <2>2. copy' \in [Commands -> Copies \union {NoCopy}]  BY <1>0, <1>b DEF HomeTypeOK
  <2> QED BY <1>1, <1>3, <2>1, <2>2, Zenon DEF HomeTypeOK
<1>6. nextId # 0
  <2>1. container[p] < nextId  BY Zenon DEF Matches, RowsMatch, RowMatches
  <2> QED BY <1>0, <2>1
<1>7. RowMatches(p)'
  <2>1. container'[p] = nextId /\ nextId' = nextId + 1  BY <1>2, <1>3, Zenon
  <2>2. container'[p] < nextId'  BY <1>0, <2>1
  <2> QED BY <1>4, <1>6, <2>1, <2>2, Zenon DEF RowMatches
<1>8. Leased(p)' => Replaced(p)'  BY <1>1, Zenon DEF Moved, Replaced
<1>9. nextId' >= nextId  BY <1>0, <1>2
<1>10. Matches'
  BY <1>b, <1>1, <1>3, <1>4, <1>5, <1>7, <1>8, <1>9, MatchesRenewed, Zenon DEF Moved
<1> QED BY <1>1, <1>2, <1>3, <1>4, <1>10, <1>b, Zenon

\* SourceGone and JobFails: the job is over.
LEMMA AbortEffect ==
    ASSUME Matches, NEW p \in HomePods, SourceGone(p) \/ JobFails(p)
    PROVE  /\ Matches' /\ Leased(p) /\ ~Leased(p)' /\ job[p] \in Jobs
           /\ \A q \in HomePods \ {p} :
                /\ job'[q] = job[q] /\ row'[q] = row[q]
                /\ container'[q] = container[q] /\ home'[q] = home[q]
           /\ \/ row'[p] = NoRow
              \/ /\ row'[p] = row[p] /\ container'[p] = container[p]
                 /\ home'[p].claude = home[p].claude
           /\ \/ home'[p].codex.id = home[p].codex.id /\ unreset' = unreset
              \/ /\ IsAt(job[p], "put_codex") /\ home'[p].codex.id = job[p].snapshot.codex.id
                 /\ unreset' = unreset \union ({p} \ {job[p].source})
           /\ crossed' = crossed \union {p} /\ UNCHANGED <<nextId, copy, lost>>
<1>0. /\ HomeTypeOK /\ row \in [HomePods -> (Nat \X BOOLEAN) \union {NoRow}]
      /\ home \in [HomePods -> Homes] /\ container \in [HomePods -> Nat] /\ nextId \in Nat
      /\ job \in [HomePods -> Jobs \union {NoTransfer}]
      /\ copy \in [Commands -> Copies \union {NoCopy}]
  BY Zenon DEF Matches, HomeTypeOK
<1>1. /\ Leased(p) /\ job' = [job EXCEPT ![p] = NoTransfer]
      /\ crossed' = crossed \union {p} /\ UNCHANGED <<nextId, copy, lost>>
  BY Zenon DEF SourceGone, JobFails, Doing
<1>2. job[p] \in Jobs /\ job[p].snapshot \in Homes
  BY <1>0, <1>1, JobFields, Zenon DEF Leased, Active
<1>3. /\ job'[p] = NoTransfer /\ \A q \in HomePods \ {p} : job'[q] = job[q]
      /\ job' \in [HomePods -> Jobs \union {NoTransfer}]
  BY <1>0, <1>1, Zenon
<1>4. ~Leased(p)'  BY <1>3 DEF Leased, NoTransfer
<1> DEFINE restored == [home EXCEPT ![p].codex = job[p].snapshot.codex]
<1>5. /\ restored \in [HomePods -> Homes] /\ restored[p].claude = home[p].claude
      /\ restored[p].codex.id = job[p].snapshot.codex.id
      /\ \A q \in HomePods \ {p} : restored[q] = home[q]
  <2>1. home[p] \in Homes /\ job[p].snapshot.codex \in Codexes  BY <1>0, <1>2, Zenon DEF Homes
  <2> DEFINE h == [home[p] EXCEPT !["codex"] = job[p].snapshot.codex]
  <2>2. h \in Homes /\ h.claude = home[p].claude /\ h.codex = job[p].snapshot.codex
    BY <2>1, HomeParts
  <2>3. restored = [home EXCEPT ![p] = h]  BY <1>0, Zenon
  <2> HIDE DEF h, restored
  <2>4. restored \in [HomePods -> Homes] /\ restored[p] = h
        /\ \A q \in HomePods \ {p} : restored[q] = home[q]
    BY <1>0, <2>2, <2>3, Zenon
  <2> QED BY <2>2, <2>4, Zenon
<1> HIDE DEF restored
<1>6. \/ UNCHANGED <<row, container, home, unreset>>
      \/ /\ row' = [row EXCEPT ![p] = NoRow] /\ container' = [container EXCEPT ![p] = 0]
         /\ UNCHANGED <<home, unreset>>
      \/ /\ Doing(p, "put_codex") /\ home' = restored /\ UNCHANGED <<row, container>>
         /\ unreset' = unreset \union ({p} \ {job[p].source})
  <2>1. CASE SourceGone(p)  BY <2>1, Zenon DEF SourceGone
  <2>2. CASE JobFails(p)
    <3>1. CASE Doing(p, "replace")
      <4>1. ~Doing(p, "put_codex")  BY <3>1, Zenon DEF Doing
      <4> QED BY <2>2, <3>1, <4>1, Zenon DEF JobFails
    <3>2. CASE Doing(p, "put_codex") /\ ~Doing(p, "replace")
      BY <2>2, <3>2, Zenon DEF JobFails, restored
    <3>3. CASE ~Doing(p, "put_codex") /\ ~Doing(p, "replace")
      BY <2>2, <3>3, Zenon DEF JobFails
    <3> QED BY <3>1, <3>2, <3>3, Zenon
  <2> QED BY <2>1, <2>2, Zenon
<1>7. /\ row' \in [HomePods -> (Nat \X BOOLEAN) \union {NoRow}]
      /\ container' \in [HomePods -> Nat] /\ home' \in [HomePods -> Homes]
      /\ \A q \in HomePods \ {p} :
           row'[q] = row[q] /\ container'[q] = container[q] /\ home'[q] = home[q]
  BY <1>0, <1>5, <1>6
<1>8. HomeTypeOK'  BY <1>0, <1>1, <1>3, <1>7, Zenon DEF HomeTypeOK
<1>9. nextId' >= nextId  BY <1>0, <1>1
<1>10. Matches' /\ (row'[p] = NoRow \/ (row'[p] = row[p] /\ container'[p] = container[p]))
  <2>1. CASE UNCHANGED <<row, container>>
    <3>1. \A q \in HomePods : JobGoesOn(q)
      <4>1. ASSUME NEW q \in HomePods, q # p PROVE JobGoesOn(q)
        BY <1>3, <4>1, SameJob, Zenon DEF JobGoesOn
      <4> QED BY <1>4, <4>1, Zenon DEF JobGoesOn
    <3>2. \A q \in HomePods : RowStays(q)  BY <2>1, Zenon DEF RowStays
    <3>3. \A c \in Commands : CopyGoesOn(c)  BY <1>1, Zenon DEF CopyGoesOn, Copying
    <3>4. Matches'  BY <1>1, <1>8, <1>9, <2>1, <3>1, <3>2, <3>3, MatchesKept, Zenon
    <3> QED BY <2>1, <3>4, Zenon
  <2>2. CASE row' = [row EXCEPT ![p] = NoRow] /\ container' = [container EXCEPT ![p] = 0]
    <3>1. row'[p] = NoRow /\ container'[p] = 0  BY <1>0, <2>2, Zenon
    <3>2. container[p] < nextId  BY Zenon DEF Matches, RowsMatch, RowMatches
    <3>3. RowMatches(p)'  BY <1>0, <1>1, <3>1, <3>2 DEF RowMatches
    <3>4. Matches'
      BY <1>1, <1>3, <1>4, <1>7, <1>8, <1>9, <3>1, <3>3, MatchesRenewed, Zenon
    <3> QED BY <3>1, <3>4, Zenon
  <2> QED BY <1>6, <2>1, <2>2, Zenon
<1>11. home'[p].claude = home[p].claude  BY <1>5, <1>6, Zenon
<1>12. \/ home'[p].codex.id = home[p].codex.id /\ unreset' = unreset
       \/ /\ IsAt(job[p], "put_codex") /\ home'[p].codex.id = job[p].snapshot.codex.id
          /\ unreset' = unreset \union ({p} \ {job[p].source})
  BY <1>5, <1>6, Zenon DEF IsAt, Doing, Active, Leased
<1> QED BY <1>1, <1>2, <1>3, <1>4, <1>7, <1>10, <1>11, <1>12, Zenon

\* CopyPuts: the host's files, unless the container is another one by now.
LEMMA PutsEffect ==
    ASSUME Matches, NEW c \in Commands, CopyPuts(c)
    PROVE  /\ Matches' /\ copy[c] \in Copies /\ copy[c].at = "put"
           /\ UNCHANGED <<row, nextId, container, job, crossed, unreset>>
           /\ \A d \in Commands \ {c} : copy'[d] = copy[d]
           /\ \A q \in HomePods : home'[q] # home[q] =>
                q = copy[c].pod /\ container[q] = copy[c].to
           /\ \A q \in HomePods : home'[q].codex = home[q].codex
           /\ \A q \in HomePods : Has(home[q]) => Has(home'[q])
           /\ container[copy[c].pod] = copy[c].to =>
                /\ \A agent \in {Claude, Pi} : agent # copy[c].agent =>
                     (Used(home'[copy[c].pod], agent) <=> Used(home[copy[c].pod], agent))
                /\ copy[c].agent = Claude => Has(home'[copy[c].pod])
                /\ copy[c].agent = Claude <=> copy'[c].at = "mark"
           /\ Copying(c)' => /\ copy'[c].at = "mark" /\ copy'[c].pod = copy[c].pod
                             /\ copy'[c].to = copy[c].to /\ copy'[c].agent = copy[c].agent
                             /\ copy[c].agent = Claude /\ container[copy[c].pod] = copy[c].to
           /\ lost' = lost \/ (/\ lost' = lost \union {copy[c].pod}
                               /\ Used(home[copy[c].pod], copy[c].agent))
<1> DEFINE k == copy[c]
<1>0. /\ HomeTypeOK /\ home \in [HomePods -> Homes]
      /\ copy \in [Commands -> Copies \union {NoCopy}]
  BY Zenon DEF Matches, HomeTypeOK
<1>1. k.at = "put" /\ UNCHANGED <<row, nextId, container, job, crossed, unreset>>
  BY Zenon DEF CopyPuts
<1>2. k \in Copies /\ k.pod \in HomePods /\ k.agent \in {Claude, Pi}
  BY <1>0, <1>1, CopyFields, Zenon
<1>3. home[k.pod] \in Homes  BY <1>0, <1>2, Zenon
<1>4. CASE container[k.pod] = k.to
  <2> DEFINE m == IF k.agent = Claude THEN [k EXCEPT !.at = "mark"] ELSE NoCopy
             h == [home[k.pod] EXCEPT ![k.agent] = "host"]
  <2>1. /\ home' = [home EXCEPT ![k.pod] = h] /\ copy' = [copy EXCEPT ![c] = m]
        /\ lost' = IF home[k.pod][k.agent] = "own" THEN lost \union {k.pod} ELSE lost
    BY <1>0, <1>2, <1>4, Zenon DEF CopyPuts
  <2>2. m \in Copies \union {NoCopy}
        /\ (k.agent = Claude => /\ m.at = "mark" /\ m.pod = k.pod /\ m.to = k.to /\ m.id = k.id
                                /\ m.agent = k.agent)
        /\ (k.agent # Claude => m.at = "idle")
    BY <1>2, Zenon DEF Copies, NoCopy
  <2>3. /\ h \in Homes /\ h.codex = home[k.pod].codex
        /\ k.agent = Claude => h.claude = "host" /\ h.pi = home[k.pod].pi
        /\ k.agent = Pi => h.claude = home[k.pod].claude /\ h.pi = "host"
    <3>1. "host" \in AgentStates /\ (k.agent = "claude" \/ k.agent = "pi") /\ Claude # Pi
      BY <1>2, Zenon DEF Claude, Pi, AgentStates
    <3>2. CASE k.agent = "claude"  BY <1>3, <3>1, <3>2, HomeParts DEF Claude, Pi
    <3>3. CASE k.agent = "pi"  BY <1>3, <3>1, <3>3, HomeParts DEF Claude, Pi
    <3> QED BY <3>1, <3>2, <3>3, Zenon
  <2> HIDE DEF m, h
  <2>4. /\ home' \in [HomePods -> Homes] /\ home'[k.pod] = h
        /\ \A q \in HomePods : q # k.pod => home'[q] = home[q]
        /\ copy' \in [Commands -> Copies \union {NoCopy}] /\ copy'[c] = m
        /\ \A d \in Commands \ {c} : copy'[d] = copy[d]
    BY <1>0, <1>2, <2>1, <2>2, <2>3, Zenon
  <2>5. HomeTypeOK'  BY <1>0, <1>1, <2>4, Zenon DEF HomeTypeOK
  <2>6. \A q \in HomePods : JobGoesOn(q) /\ RowStays(q)
    BY <1>1, SameJob, Zenon DEF JobGoesOn, RowStays
  <2>7. \A d \in Commands : CopyGoesOn(d)
    <3>1. CopyGoesOn(c)  BY <1>1, <2>2, <2>4, Zenon DEF CopyGoesOn, Copying
    <3> QED BY <2>4, <3>1, Zenon DEF CopyGoesOn, Copying
  <2>8. nextId' >= nextId  BY <1>0, <1>1 DEF HomeTypeOK
  <2>9. Matches'  BY <1>1, <2>5, <2>6, <2>7, <2>8, MatchesKept, Zenon
  <2>10. \A q \in HomePods : home'[q].codex = home[q].codex /\ (Has(home[q]) => Has(home'[q]))
    <3>1. h.codex = home[k.pod].codex /\ (Has(home[k.pod]) => Has(h))
      BY <1>2, <2>3, Zenon DEF Has
    <3> QED BY <2>4, <3>1, Zenon
  <2>11. /\ \A agent \in {Claude, Pi} : agent # k.agent =>
              (Used(h, agent) <=> Used(home[k.pod], agent))
         /\ k.agent = Claude => Has(h)
    BY <1>2, <2>3, Zenon DEF Used, Has, Claude, Pi
  <2>12. home[k.pod][k.agent] = "own" => Used(home[k.pod], k.agent)
    BY <1>2, Zenon DEF Used, Claude, Pi
  <2>13. k.agent = Claude <=> copy'[c].at = "mark"  BY <2>2, <2>4, Zenon
  <2>14. Copying(c)' => /\ copy'[c].at = "mark" /\ copy'[c].pod = k.pod
                        /\ copy'[c].to = k.to /\ copy'[c].agent = k.agent
                        /\ k.agent = Claude
    BY <2>2, <2>4, Zenon DEF Copying
  <2>15. \A q \in HomePods : home'[q] # home[q] => q = k.pod /\ container[q] = k.to
    BY <1>4, <2>4, Zenon
  <2>16. lost' = lost \/ (lost' = lost \union {k.pod} /\ Used(home[k.pod], k.agent))
    BY <2>1, <2>12, Zenon
  <2> QED BY <1>1, <1>2, <1>4, <2>4, <2>9, <2>10, <2>11, <2>13, <2>14, <2>15, <2>16, Zenon
<1>5. CASE container[k.pod] # k.to
  <2>1. copy' = [copy EXCEPT ![c] = NoCopy] /\ UNCHANGED <<home, lost>>
    BY <1>5, Zenon DEF CopyPuts
  <2>2. /\ copy' \in [Commands -> Copies \union {NoCopy}] /\ copy'[c] = NoCopy
        /\ \A d \in Commands \ {c} : copy'[d] = copy[d]
    BY <1>0, <2>1, Zenon
  <2>3. ~Copying(c)'  BY <2>2 DEF Copying, NoCopy
  <2>5. HomeTypeOK'  BY <1>0, <1>1, <2>1, <2>2, Zenon DEF HomeTypeOK
  <2>6. \A q \in HomePods : JobGoesOn(q) /\ RowStays(q)
    BY <1>1, SameJob, Zenon DEF JobGoesOn, RowStays
  <2>7. \A d \in Commands : CopyGoesOn(d)
    BY <2>2, <2>3, Zenon DEF CopyGoesOn, Copying
  <2>8. nextId' >= nextId  BY <1>0, <1>1 DEF HomeTypeOK
  <2>9. Matches'  BY <1>1, <2>1, <2>5, <2>6, <2>7, <2>8, MatchesKept, Zenon
  <2> QED BY <1>1, <1>2, <1>5, <2>1, <2>2, <2>3, <2>9, Zenon
<1> QED BY <1>4, <1>5, Zenon

\* CopyMarks: the row the command has looked at is marked, if it is still there.
LEMMA MarksEffect ==
    ASSUME Matches, NEW c \in Commands, CopyMarks(c)
    PROVE  /\ Matches' /\ copy[c].at = "mark" /\ ~Copying(c)'
           /\ \A d \in Commands \ {c} : copy'[d] = copy[d]
           /\ \A q \in HomePods : row'[q] = NoRow <=> row[q] = NoRow
           /\ \A q \in HomePods : row[q] # NoRow =>
                (row'[q][2] <=> (row[q][2] \/ row[q][1] = copy[c].id))
           /\ UNCHANGED <<nextId, container, home, job, crossed, unreset, lost>>
<1>0. /\ HomeTypeOK /\ row \in [HomePods -> (Nat \X BOOLEAN) \union {NoRow}]
      /\ copy \in [Commands -> Copies \union {NoCopy}]
  BY Zenon DEF Matches, HomeTypeOK
<1>1. /\ copy[c].at = "mark" /\ copy' = [copy EXCEPT ![c] = NoCopy]
      /\ UNCHANGED <<nextId, container, home, job, crossed, unreset, lost>>
  BY Zenon DEF CopyMarks
<1>2. /\ copy' \in [Commands -> Copies \union {NoCopy}] /\ copy'[c] = NoCopy
      /\ \A d \in Commands \ {c} : copy'[d] = copy[d]
  BY <1>0, <1>1, Zenon
<1>3. ~Copying(c)'  BY <1>2 DEF Copying, NoCopy
<1> DEFINE new(q) == IF row[q] # NoRow /\ row[q][1] = copy[c].id
                       THEN <<row[q][1], TRUE>> ELSE row[q]
<1>4. row' = [q \in HomePods |-> new(q)]  BY Zenon DEF CopyMarks
<1>5. ASSUME NEW q \in HomePods
      PROVE  /\ new(q) \in (Nat \X BOOLEAN) \union {NoRow} /\ (new(q) = NoRow <=> row[q] = NoRow)
             /\ row[q] # NoRow => /\ new(q)[1] = row[q][1]
                                  /\ new(q)[2] <=> (row[q][2] \/ row[q][1] = copy[c].id)
  <2>1. CASE row[q] # NoRow /\ row[q][1] = copy[c].id
    <3>1. row[q][1] \in Nat  BY <1>0, <2>1, Zenon
    <3>2. new(q) = <<row[q][1], TRUE>>  BY <2>1, Zenon
    <3>3. \A n \in Nat : /\ <<n, TRUE>> \in Nat \X BOOLEAN /\ <<n, TRUE>> # NoRow
                         /\ <<n, TRUE>>[1] = n /\ <<n, TRUE>>[2]
      BY Zenon DEF NoRow
    <3> QED BY <2>1, <3>1, <3>2, <3>3, Zenon
  <2>2. CASE ~(row[q] # NoRow /\ row[q][1] = copy[c].id)
    <3>1. new(q) = row[q]  BY <2>2, Zenon
    <3>2. row[q] # NoRow => row[q][2] \in BOOLEAN  BY <1>0, Zenon
    <3> QED BY <1>0, <2>2, <3>1, <3>2, Zenon
  <2> QED BY <2>1, <2>2, Zenon
<1>6. \A q \in HomePods : row'[q] = new(q)  BY <1>4, Zenon
<1>7. row' \in [HomePods -> (Nat \X BOOLEAN) \union {NoRow}]  BY <1>4, <1>5, Zenon
<1> HIDE DEF new
<1>8. HomeTypeOK'  BY <1>0, <1>1, <1>2, <1>7, Zenon DEF HomeTypeOK
<1>9. \A q \in HomePods : JobGoesOn(q)  BY <1>1, SameJob, Zenon DEF JobGoesOn
<1>10. \A q \in HomePods : RowStays(q)  BY <1>5, <1>6, Zenon DEF RowStays
<1>11. \A d \in Commands : CopyGoesOn(d)  BY <1>2, <1>3, Zenon DEF CopyGoesOn, Copying
<1>12. nextId' >= nextId  BY <1>0, <1>1 DEF HomeTypeOK
<1>13. Matches'  BY <1>1, <1>8, <1>9, <1>10, <1>11, <1>12, MatchesKept, Zenon
<1> QED BY <1>1, <1>2, <1>3, <1>5, <1>6, <1>13

\* CopyFails: the host's files may be there, and then the pod and its forks
\* are counted among the crossed.
LEMMA FailsEffect ==
    ASSUME Matches, NEW c \in Commands, CopyFails(c)
    PROVE  /\ Matches' /\ copy[c] \in Copies /\ copy[c].pod \in HomePods /\ ~Copying(c)'
           /\ UNCHANGED <<row, nextId, container, job, unreset>>
           /\ \A d \in Commands \ {c} : copy'[d] = copy[d]
           /\ \A q \in HomePods \ {copy[c].pod} : home'[q] = home[q]
           /\ \A q \in HomePods : home'[q].codex = home[q].codex
           /\ \A q \in HomePods : Has(home[q]) => Has(home'[q])
           /\ crossed \subseteq crossed' /\ lost' \subseteq lost \union crossed'
           /\ \/ copy[c].at = "put" /\ home' = home
              \/ Involved(copy[c].pod) \subseteq crossed'
<1> DEFINE k == copy[c]
           h == [home[k.pod] EXCEPT ![k.agent] = "host"]
<1>0. /\ HomeTypeOK /\ home \in [HomePods -> Homes]
      /\ copy \in [Commands -> Copies \union {NoCopy}]
  BY Zenon DEF Matches, HomeTypeOK
<1>1. k.at # "idle" /\ UNCHANGED <<row, nextId, container, job, unreset>>
      /\ copy' = [copy EXCEPT ![c] = NoCopy]
  BY Zenon DEF CopyFails
<1>2. k \in Copies /\ k.pod \in HomePods /\ k.agent \in {Claude, Pi}
  BY <1>0, <1>1, CopyFields, Zenon
<1>3. home[k.pod] \in Homes  BY <1>0, <1>2, Zenon
<1>4. /\ copy' \in [Commands -> Copies \union {NoCopy}] /\ copy'[c] = NoCopy
      /\ \A d \in Commands \ {c} : copy'[d] = copy[d]
  BY <1>0, <1>1, Zenon
<1>5. ~Copying(c)'  BY <1>4 DEF Copying, NoCopy
<1>6. k.pod \in Involved(k.pod)  BY Zenon DEF Involved
<1>7. \/ k.at = "put" /\ UNCHANGED <<home, crossed, lost>>
      \/ /\ home' = home \/ home' = [home EXCEPT ![k.pod] = h]
         /\ crossed' = crossed \union Involved(k.pod)
         /\ lost' = lost \/ lost' = lost \union {k.pod}
  BY <1>0, <1>2, Zenon DEF CopyFails
<1>8. h \in Homes /\ h.codex = home[k.pod].codex /\ (Has(home[k.pod]) => Has(h))
  <2>1. "host" \in AgentStates /\ "host" # "bare" /\ (k.agent = "claude" \/ k.agent = "pi")
    BY <1>2, Zenon DEF Claude, Pi, AgentStates
  <2>2. CASE k.agent = "claude"  BY <1>3, <2>1, <2>2, HomeParts DEF Has
  <2>3. CASE k.agent = "pi"  BY <1>3, <2>1, <2>3, HomeParts DEF Has
  <2> QED BY <2>1, <2>2, <2>3, Zenon
<1> HIDE DEF h
<1>9. /\ home' \in [HomePods -> Homes]
      /\ \A q \in HomePods \ {k.pod} : home'[q] = home[q]
      /\ home'[k.pod] = home[k.pod] \/ home'[k.pod] = h
  BY <1>0, <1>2, <1>7, <1>8, Zenon
<1>10. \A q \in HomePods : home'[q].codex = home[q].codex /\ (Has(home[q]) => Has(home'[q]))
  BY <1>8, <1>9, Zenon
<1>11. crossed \subseteq crossed' /\ lost' \subseteq lost \union crossed'
  BY <1>6, <1>7, Zenon
<1>12. \/ k.at = "put" /\ home' = home
       \/ Involved(k.pod) \subseteq crossed'
  BY <1>7, Zenon
<1>13. HomeTypeOK'  BY <1>0, <1>1, <1>4, <1>9, Zenon DEF HomeTypeOK
<1>14. \A q \in HomePods : JobGoesOn(q) /\ RowStays(q)
  BY <1>1, SameJob, Zenon DEF JobGoesOn, RowStays
<1>15. \A d \in Commands : CopyGoesOn(d)  BY <1>4, <1>5, Zenon DEF CopyGoesOn, Copying
<1>16. nextId' >= nextId  BY <1>0, <1>1 DEF HomeTypeOK
<1>17. Matches'  BY <1>1, <1>11, <1>13, <1>14, <1>15, <1>16, MatchesKept, Zenon
<1> QED BY <1>1, <1>2, <1>4, <1>5, <1>9, <1>10, <1>11, <1>12, <1>17, Zenon

\* What the agents and the user do in a pod, and an attach of Codex, as far
\* as the invariant sees it: whether there are files of an agent stays as it is.
Quietly ==
    /\ UNCHANGED <<row, container, copy, job, crossed, unreset, lost>>
    /\ nextId' >= nextId
    /\ \A q \in HomePods :
         /\ Has(home'[q]) <=> Has(home[q])
         /\ \A agent \in {Claude, Pi} : Used(home'[q], agent) <=> Used(home[q], agent)

\* One pod's home is another one.
LEMMA QuietHome ==
    ASSUME HomeTypeOK, NEW p \in HomePods, NEW h \in Homes, home' = [home EXCEPT ![p] = h],
           (h.claude = "bare") = (home[p].claude = "bare"), (h.pi = "bare") = (home[p].pi = "bare")
    PROVE  /\ home' \in [HomePods -> Homes] /\ home'[p] = h
           /\ \A q \in HomePods \ {p} : home'[q] = home[q]
           /\ \A q \in HomePods :
                /\ Has(home'[q]) <=> Has(home[q])
                /\ \A agent \in {Claude, Pi} : Used(home'[q], agent) <=> Used(home[q], agent)
<1>1. home \in [HomePods -> Homes]  BY Zenon DEF HomeTypeOK
<1>2. /\ home' \in [HomePods -> Homes] /\ home'[p] = h
      /\ \A q \in HomePods \ {p} : home'[q] = home[q]
  BY <1>1, Zenon
<1> QED BY <1>2, Zenon DEF Has, Used

\* EditFile, EditCodex and EditWork.
LEMMA EditEffect ==
    ASSUME Matches, NEW p \in HomePods,
           EditFile(p, Claude) \/ EditFile(p, Pi) \/ EditCodex(p) \/ EditWork(p)
    PROVE  /\ Matches' /\ Quietly /\ nextId' = nextId
           /\ \A q \in HomePods : home'[q].codex.id = home[q].codex.id
<1>0. HomeTypeOK /\ home[p] \in Homes  BY TypesOf, Zenon DEF Matches
<1>1. UNCHANGED <<row, nextId, container, copy, job, crossed, unreset, lost>>
  BY Zenon DEF EditFile, EditCodex, EditWork
<1>2. PICK h \in Homes : /\ home' = [home EXCEPT ![p] = h] /\ h.codex.id = home[p].codex.id
                         /\ (h.claude = "bare") = (home[p].claude = "bare")
                         /\ (h.pi = "bare") = (home[p].pi = "bare")
  <2>0. home \in [HomePods -> Homes] /\ "own" \in AgentStates
    BY Zenon DEF Matches, HomeTypeOK, AgentStates
  <2>1. CASE EditFile(p, Claude)
    <3>1. home' = [home EXCEPT ![p] = [home[p] EXCEPT !["claude"] = "own"]]
          /\ home[p].claude = "host"
      BY <2>0, <2>1, Zenon DEF EditFile, Claude
    <3> DEFINE g == [home[p] EXCEPT !["claude"] = "own"]
    <3>5. /\ g \in Homes /\ g.codex.id = home[p].codex.id
          /\ (g.claude = "bare") = (home[p].claude = "bare")
          /\ (g.pi = "bare") = (home[p].pi = "bare")
      BY <1>0, <2>0, <3>1, HomeParts, ZenonT(60)
    <3> HIDE DEF g
    <3> QED BY <3>1, <3>5, Zenon DEF g
  <2>2. CASE EditFile(p, Pi)
    <3>1. home' = [home EXCEPT ![p] = [home[p] EXCEPT !["pi"] = "own"]] /\ home[p].pi = "host"
      BY <2>0, <2>2, Zenon DEF EditFile, Pi
    <3> DEFINE g == [home[p] EXCEPT !["pi"] = "own"]
    <3>5. /\ g \in Homes /\ g.codex.id = home[p].codex.id
          /\ (g.claude = "bare") = (home[p].claude = "bare")
          /\ (g.pi = "bare") = (home[p].pi = "bare")
      BY <1>0, <2>0, <3>1, HomeParts, ZenonT(60)
    <3> HIDE DEF g
    <3> QED BY <3>1, <3>5, Zenon DEF g
  <2>3. CASE EditCodex(p)
    <3> DEFINE x == [home[p].codex EXCEPT !.auth = "own", !.remote = TRUE]
    <3>1. home' = [home EXCEPT ![p] = [home[p] EXCEPT !["codex"] = x]]
      BY <2>0, <2>3, Zenon DEF EditCodex
    <3>2. home[p].codex \in Codexes  BY <1>0, Zenon DEF Homes
    <3>3. x \in Codexes /\ x.id = home[p].codex.id  BY <2>0, <3>2, Zenon DEF Codexes
    <3> HIDE DEF x
    <3> DEFINE g == [home[p] EXCEPT !["codex"] = x]
    <3>5. /\ g \in Homes /\ g.codex.id = home[p].codex.id
          /\ (g.claude = "bare") = (home[p].claude = "bare")
          /\ (g.pi = "bare") = (home[p].pi = "bare")
      BY <1>0, <3>3, HomeParts
    <3> HIDE DEF g
    <3> QED BY <3>1, <3>5, Zenon DEF g
  <2>4. CASE EditWork(p)
    <3>1. home' = [home EXCEPT ![p] = [home[p] EXCEPT !["work"] = home[p].work + 1]]
      BY <2>0, <2>4, Zenon DEF EditWork
    <3>2. home[p].work + 1 \in Nat  BY <1>0 DEF Homes
    <3> DEFINE g == [home[p] EXCEPT !["work"] = home[p].work + 1]
    <3>5. /\ g \in Homes /\ g.codex.id = home[p].codex.id
          /\ (g.claude = "bare") = (home[p].claude = "bare")
          /\ (g.pi = "bare") = (home[p].pi = "bare")
      BY <1>0, <3>2, HomeParts
    <3> HIDE DEF g
    <3> QED BY <3>1, <3>5, Zenon DEF g
  <2> QED BY <2>1, <2>2, <2>3, <2>4, Zenon
<1>3. /\ home' \in [HomePods -> Homes] /\ home'[p] = h
      /\ \A q \in HomePods \ {p} : home'[q] = home[q]
      /\ \A q \in HomePods :
           /\ Has(home'[q]) <=> Has(home[q])
           /\ \A agent \in {Claude, Pi} : Used(home'[q], agent) <=> Used(home[q], agent)
  BY <1>0, <1>2, QuietHome, Zenon
<1>4. HomeTypeOK'  BY <1>0, <1>1, <1>3, Zenon DEF HomeTypeOK
<1>5. nextId' >= nextId  BY <1>0, <1>1 DEF HomeTypeOK
<1>6. Quietly  BY <1>1, <1>2, <1>3, <1>5, Zenon DEF Quietly
<1>7. \A q \in HomePods : JobGoesOn(q) /\ RowStays(q)
  BY <1>1, SameJob, Zenon DEF JobGoesOn, RowStays
<1>8. \A c \in Commands : CopyGoesOn(c)  BY <1>1, Zenon DEF CopyGoesOn, Copying
<1>9. Matches'  BY <1>1, <1>4, <1>5, <1>7, <1>8, MatchesKept, Zenon
<1>10. \A q \in HomePods : home'[q].codex.id = home[q].codex.id  BY <1>2, <1>3, Zenon
<1> QED BY <1>1, <1>6, <1>9, <1>10, Zenon

\* CodexAttaches: the pod gets an identity, if it has none.
LEMMA AttachEffect ==
    ASSUME Matches, NEW p \in HomePods, NEW hostHasLogin \in BOOLEAN,
           CodexAttaches(p, hostHasLogin)
    PROVE  /\ Matches' /\ Quietly /\ nextId' = nextId + 1
           /\ home'[p].codex.id = IF home[p].codex.id = NoId THEN nextId ELSE home[p].codex.id
           /\ \A q \in HomePods \ {p} : home'[q] = home[q]
<1>0. HomeTypeOK /\ home[p] \in Homes /\ home \in [HomePods -> Homes] /\ nextId \in Nat
  BY TypesOf, Zenon DEF Matches, HomeTypeOK
<1>1. UNCHANGED <<row, container, copy, job, crossed, unreset>> /\ nextId' = nextId + 1
  BY Zenon DEF CodexAttaches
<1> DEFINE u == Uploaded(home[p].codex)
           x == [u EXCEPT !.initialized = TRUE, !.id = IF @ = NoId THEN nextId ELSE @]
           h == [home[p] EXCEPT !["codex"] = x]
<1>2. home[p].codex \in Codexes  BY <1>0, Zenon DEF Homes
<1>3. /\ x \in Codexes
      /\ x.id = IF home[p].codex.id = NoId THEN nextId ELSE home[p].codex.id
      /\ home[p].codex.auth = "own" => u.auth = "own"
  BY <1>0, <1>2, AttachTypes, Zenon
<1>4. home' = [home EXCEPT ![p] = h]  BY <1>0, Zenon DEF CodexAttaches
<1>5. lost' = lost  BY <1>3, Zenon DEF CodexAttaches
<1> HIDE DEF x
<1>6. h \in Homes /\ h.claude = home[p].claude /\ h.pi = home[p].pi /\ h.codex = x
  BY <1>0, <1>3, HomeParts
<1> HIDE DEF h
<1>7. /\ home' \in [HomePods -> Homes] /\ home'[p] = h
      /\ \A q \in HomePods \ {p} : home'[q] = home[q]
      /\ \A q \in HomePods :
           /\ Has(home'[q]) <=> Has(home[q])
           /\ \A agent \in {Claude, Pi} : Used(home'[q], agent) <=> Used(home[q], agent)
  BY <1>0, <1>4, <1>6, QuietHome, Zenon
<1>8. nextId' >= nextId /\ nextId' \in Nat  BY <1>0, <1>1
<1>9. HomeTypeOK'  BY <1>0, <1>1, <1>7, <1>8, Zenon DEF HomeTypeOK
<1>10. Quietly  BY <1>1, <1>5, <1>7, <1>8, Zenon DEF Quietly
<1>11. \A q \in HomePods : JobGoesOn(q) /\ RowStays(q)
  BY <1>1, SameJob, Zenon DEF JobGoesOn, RowStays
<1>12. \A c \in Commands : CopyGoesOn(c)  BY <1>1, Zenon DEF CopyGoesOn, Copying
<1>13. Matches'  BY <1>1, <1>8, <1>9, <1>11, <1>12, MatchesKept, Zenon
<1> QED BY <1>1, <1>3, <1>6, <1>7, <1>10, <1>13, Zenon

-----------------------------------------------------------------------------
(* Identities                                                                *)

\* A pod keeps its identity, loses it, gets a new one or the one of its own
\* snapshot; a snapshot has what it had, none, or the identity of the pod.
LEMMA ApartKept ==
    ASSUME IdentitiesApart, HomeTypeOK, HomeTypeOK', nextId' >= nextId, unreset \subseteq unreset',
           NEW p \in HomePods,
           \A q \in HomePods \ {p} : job'[q] = job[q] /\ Identity(q)' = Identity(q),
           \/ Identity(p)' \in {Identity(p), NoId}
           \/ /\ Identity(p)' = SavedIdentity(p) /\ Leased(p)
              /\ Recreated(p) \/ p \in unreset'
           \/ Identity(p)' = nextId /\ nextId' = nextId + 1,
           Leased(p)' =>
               \/ SavedIdentity(p)' = NoId
               \/ /\ Leased(p) /\ (Recreated(p)' => Recreated(p))
                  /\ \/ SavedIdentity(p)' = SavedIdentity(p)
                     \/ \E s \in HomePods : /\ SavedIdentity(p)' = Identity(s)
                                            /\ Recreated(p)' => s = p
    PROVE  IdentitiesApart'
<1>0. nextId \in Nat /\ nextId' \in Nat  BY Zenon DEF HomeTypeOK
<1>1. \A q \in HomePods : Identity(q) \in Nat /\ Identity(q) < nextId
  BY Zenon DEF HomeTypeOK, Identity, Homes, Codexes, IdentitiesApart
<1>2. \A q \in HomePods : Leased(q) => SavedIdentity(q) \in Nat /\ SavedIdentity(q) < nextId
  <2> SUFFICES ASSUME NEW q \in HomePods, Leased(q)
               PROVE  SavedIdentity(q) \in Nat /\ SavedIdentity(q) < nextId
    BY Zenon
  <2>1. job[q].snapshot \in Homes  BY TypesOf, JobFields, Zenon DEF Leased, Active
  <2> QED BY <2>1, Zenon DEF SavedIdentity, Homes, Codexes, IdentitiesApart
<1>3. \A q \in HomePods \ {p} : /\ Leased(q)' <=> Leased(q)
                                /\ Recreated(q)' <=> Recreated(q)
                                /\ SavedIdentity(q)' = SavedIdentity(q)
  BY SameJob, Zenon DEF SavedIdentity
<1>4. ASSUME NEW q \in HomePods
      PROVE  Identity(q)' < nextId' /\ (Leased(q)' => SavedIdentity(q)' < nextId')
  <2>1. CASE q # p  BY <1>0, <1>1, <1>2, <1>3, <2>1
  <2>2. CASE q = p  BY <1>0, <1>1, <1>2, <2>2 DEF NoId
  <2> QED BY <2>1, <2>2, Zenon
<1> DEFINE Pair(q, r) ==
               /\ Identity(q) = Identity(r) => Identity(q) = NoId
               /\ (Recreated(q) /\ SavedIdentity(q) = Identity(r)) => Identity(r) = NoId
               /\ (Recreated(q) /\ Recreated(r) /\ SavedIdentity(q) = SavedIdentity(r))
                    => SavedIdentity(q) = NoId
<1>5. \A q, r \in HomePods \ unreset : q # r => Pair(q, r)
  BY Zenon DEF IdentitiesApart
<1>6. /\ Recreated(p)' => Leased(p)'
      /\ \A q \in HomePods : Recreated(q) => Leased(q)
  BY Zenon DEF Recreated
<1>7. ASSUME NEW q \in HomePods \ unreset', q # p, p \notin unreset'
      PROVE  /\ Identity(p)' = Identity(q)' => Identity(p)' = NoId
             /\ (Recreated(p)' /\ SavedIdentity(p)' = Identity(q)') => Identity(q)' = NoId
             /\ (Recreated(q)' /\ SavedIdentity(q)' = Identity(p)') => Identity(p)' = NoId
             /\ (Recreated(p)' /\ Recreated(q)' /\ SavedIdentity(p)' = SavedIdentity(q)')
                  => SavedIdentity(p)' = NoId
  <2>1. Pair(p, q) /\ Pair(q, p)  BY <1>5, <1>7, Zenon
  <2>2. /\ Identity(q)' = Identity(q) /\ SavedIdentity(q)' = SavedIdentity(q)
        /\ Recreated(q)' <=> Recreated(q)
    BY <1>3, <1>7, Zenon
  <2>3. \/ Identity(p)' \in {Identity(p), NoId}
        \/ Identity(p)' = SavedIdentity(p) /\ Recreated(p)
        \/ /\ Identity(p)' # Identity(q) /\ (Recreated(q) => Identity(p)' # SavedIdentity(q))
    BY <1>0, <1>1, <1>2, <1>6, <1>7
  <2>4. Recreated(p)' => \/ SavedIdentity(p)' = NoId
                         \/ Recreated(p) /\ SavedIdentity(p)' = SavedIdentity(p)
                         \/ SavedIdentity(p)' = Identity(p)
    BY <1>6, Zenon
  <2> QED BY <2>1, <2>2, <2>3, <2>4, Zenon
<1>8. ASSUME NEW q \in HomePods \ unreset', NEW r \in HomePods \ unreset', q # r
      PROVE  Pair(q, r)'
  <2>1. CASE q = p  BY <1>7, <1>8, <2>1, Zenon
  <2>2. CASE r = p  BY <1>7, <1>8, <2>2, Zenon
  <2>3. CASE q # p /\ r # p
    <3>1. Pair(q, r)  BY <1>5, <1>8, Zenon
    <3> QED BY <1>3, <2>3, <3>1, Zenon
  <2> QED BY <2>1, <2>2, <2>3, Zenon
<1> QED BY <1>4, <1>8, Zenon DEF IdentitiesApart

-----------------------------------------------------------------------------
(* What a step leaves alone                                                  *)

\* A pod that has the job it had, whose mark is not set and whose files stay.
LEMMA MarksFrame ==
    ASSUME NEW q \in HomePods, job'[q] = job[q],
           (row'[q] # NoRow /\ row'[q][2]) => (row[q] # NoRow /\ row[q][2]),
           Has(home[q]) => Has(home'[q]),
           Marked(q)
    PROVE  Marked(q)'
<1>1. (Leased(q)' <=> Leased(q)) /\ \A x : Did(job'[q], x) <=> Did(job[q], x)
  BY SameJob, Zenon
<1>0. MarkIsTrue(q) /\ RestoresTruly(q)  BY Zenon DEF Marked
<1>2. MarkIsTrue(q)'  BY <1>0, Zenon DEF MarkIsTrue
<1>3. RestoresTruly(q)'  BY <1>0, <1>1, Zenon DEF RestoresTruly
<1> QED BY <1>2, <1>3, Zenon DEF Marked

\* The pod a fork is from, for what it will find marked.
SourceAsKept(q) ==
    LET s == job[q].source IN
    (Forked(q) /\ ~Did(job[q], "flag") /\ container'[s] = job[q].sourceId) =>
        /\ SourceStays(q)
        /\ \A c \in Commands : (Copying(c)' /\ copy'[c].to = job[q].sourceId)
             => (Copying(c) /\ copy[c].to = job[q].sourceId)
        /\ row[s][2] => row'[s][2]
        /\ Has(home'[s]) => Has(home[s])

\* A pod that has the job it had, with the same files in the same container.
LEMMA KeptFrame ==
    ASSUME NEW q \in HomePods, job'[q] = job[q], SourceAsKept(q), Kept(q),
           container'[q] = container[q], row'[q] # NoRow => row[q] # NoRow,
           row'[q] # NoRow /\ row[q][2] => row'[q][2],
           Has(home'[q]) <=> Has(home[q]),
           \A agent \in {Claude, Pi} : Used(home'[q], agent) <=> Used(home[q], agent),
           \A c \in Commands : Copying(c)' /\ copy'[c].pod = q => copy'[c] = copy[c],
           \A c \in Commands : Copying(c) /\ copy[c].pod = q /\ copy[c].at = "mark" =>
               copy'[c] = copy[c] \/ (row'[q] # NoRow => row'[q][2]),
           \A c \in Commands : Copying(c) => copy[c].agent \in {Claude, Pi}
    PROVE  Kept(q)'
<1>1. /\ (Recreated(q)' <=> Recreated(q)) /\ (Forked(q)' <=> Forked(q))
      /\ (Leased(q)' <=> Leased(q)) /\ (Replaced(q)' <=> Replaced(q))
      /\ \A x : Did(job'[q], x) <=> Did(job[q], x)
  BY SameJob, Zenon
<1>2. CopiesAlone(q)'
  <2> SUFFICES ASSUME NEW c \in Commands, Copying(c)', copy'[c].pod = q
               PROVE  /\ ~Leased(q)' /\ copy'[c].to = container'[q]
                      /\ copy'[c].at = "put" => ~Used(home'[q], copy'[c].agent)
                      /\ \A d \in Commands : (Copying(d)' /\ copy'[d].pod = q) => c = d
    BY Zenon DEF CopiesAlone
  <2>1. copy'[c] = copy[c] /\ Copying(c) /\ copy[c].pod = q  BY Zenon DEF Copying
  <2>2. CopiesAlone(q)  BY Zenon DEF Kept
  <2>3. \A d \in Commands : (Copying(d)' /\ copy'[d].pod = q) => Copying(d) /\ copy[d].pod = q
    BY Zenon DEF Copying
  <2> QED BY <1>1, <2>1, <2>2, <2>3, Zenon DEF CopiesAlone
<1>3. HasMark(q)'
  <2> SUFFICES ASSUME row'[q] # NoRow, Has(home'[q]), ~row'[q][2], ~Replaced(q)'
               PROVE  \E c \in Commands : copy'[c].at = "mark" /\ copy'[c].pod = q
    BY Zenon DEF HasMark
  <2>1. PICK c \in Commands : copy[c].at = "mark" /\ copy[c].pod = q
    BY <1>1, Zenon DEF Kept, HasMark
  <2> QED BY <2>1, Zenon DEF Copying
<1>4. RecreateKeepsMark(q)' /\ HomeIsRestored(q)'
  BY <1>1, Zenon DEF Kept, RecreateKeepsMark, HomeIsRestored
<1>5. ForkKeepsMark(q)'
  <2> DEFINE s == job[q].source
  <2> SUFFICES ASSUME Forked(q) PROVE ForkKeepsMark(q)'  BY <1>1, Zenon DEF ForkKeepsMark
  <2>0. ForkKeepsMark(q)  BY Zenon DEF Kept
  <2>1. ASSUME ~Did(job[q], "flag"), SourceStays(q)'
        PROVE  /\ NoCopyToSource(q)'
               /\ Has(home'[s]) \/ (Did(job[q], "get_claude") /\ Has(job[q].snapshot))
                    => row'[s][2]
    <3>1. container'[s] = job[q].sourceId  BY <2>1, Zenon DEF SourceStays
    <3>2. /\ SourceStays(q)
          /\ \A c \in Commands : (Copying(c)' /\ copy'[c].to = job[q].sourceId)
               => (Copying(c) /\ copy[c].to = job[q].sourceId)
          /\ row[s][2] => row'[s][2]
          /\ Has(home'[s]) => Has(home[s])
      BY <2>1, <3>1, Zenon DEF SourceAsKept
    <3>3. /\ NoCopyToSource(q)
          /\ Has(home[s]) \/ (Did(job[q], "get_claude") /\ Has(job[q].snapshot)) => row[s][2]
      BY <2>0, <2>1, <3>2, Zenon DEF ForkKeepsMark
    <3>4. NoCopyToSource(q)'  BY <3>2, <3>3, Zenon DEF NoCopyToSource
    <3> QED BY <3>2, <3>3, <3>4, Zenon
  <2>2. (Did(job[q], "flag") /\ Has(job[q].snapshot)) => job[q].copied
    BY <2>0, Zenon DEF ForkKeepsMark
  <2> QED BY <1>1, <2>1, <2>2, Zenon DEF ForkKeepsMark
<1> QED BY <1>2, <1>3, <1>4, <1>5, Zenon DEF Kept

\* The records of copies and jobs under way.
LEMMA UnderwayFields ==
    ASSUME HomeTypeOK
    PROVE  /\ \A c \in Commands : Copying(c) =>
                /\ copy[c] \in Copies /\ copy[c].agent \in {Claude, Pi}
                /\ copy[c].pod \in HomePods /\ copy[c].to \in Nat
           /\ \A q \in HomePods : Leased(q) =>
                /\ job[q] \in Jobs /\ job[q].source \in HomePods /\ job[q].sourceId \in Nat
                /\ job[q].snapshot \in Homes
<1>1. \A c \in Commands : Copying(c) =>
        /\ copy[c] \in Copies /\ copy[c].agent \in {Claude, Pi}
        /\ copy[c].pod \in HomePods /\ copy[c].to \in Nat
  BY TypesOf, CopyFields, Zenon DEF Copying
<1>2. \A q \in HomePods : Leased(q) =>
        /\ job[q] \in Jobs /\ job[q].source \in HomePods /\ job[q].sourceId \in Nat
        /\ job[q].snapshot \in Homes
  BY TypesOf, JobFields, Zenon DEF Leased, Active
<1> QED BY <1>1, <1>2, Zenon

\* What goes on in a pod neither sets a mark nor makes or removes files.
LEMMA QuietKeeps ==
    ASSUME HomeInv, Quietly
    PROVE  MarksHold' /\ StateIsMarked'
<1>0. /\ UNCHANGED <<row, container, copy, job, crossed, unreset, lost>>
      /\ \A q \in HomePods :
           /\ Has(home'[q]) <=> Has(home[q])
           /\ \A agent \in {Claude, Pi} : Used(home'[q], agent) <=> Used(home[q], agent)
  BY Zenon DEF Quietly
<1>1. HomeTypeOK /\ MarksHold /\ StateIsMarked  BY Zenon DEF HomeInv, Matches
<1>2. \A q \in HomePods : SourceAsKept(q)
  <2> SUFFICES ASSUME NEW q \in HomePods PROVE SourceAsKept(q)
    BY Zenon
  <2>1. Forked(q) => job[q].source \in HomePods  BY <1>1, UnderwayFields, Zenon DEF Forked
  <2>2. Forked(q) => (Has(home'[job[q].source]) <=> Has(home[job[q].source]))
    BY <1>0, <2>1, Zenon
  <2> QED BY <1>0, <2>2, Zenon DEF SourceAsKept, SourceStays, Copying
<1>3. \A q \in HomePods : Marked(q)'
  <2> SUFFICES ASSUME NEW q \in HomePods PROVE Marked(q)'
    BY Zenon
  <2>1. Marked(q)  BY <1>1, Zenon DEF MarksHold
  <2> QED BY <1>0, <2>1, MarksFrame, Zenon
<1>4. \A q \in HomePods \ crossed' : Kept(q)'
  <2> SUFFICES ASSUME NEW q \in HomePods, q \notin crossed' PROVE Kept(q)'
    BY Zenon
  <2>1. Kept(q)  BY <1>0, <1>1, Zenon DEF StateIsMarked
  <2>2. \A c \in Commands : Copying(c) => copy[c].agent \in {Claude, Pi}
    BY <1>1, UnderwayFields, Zenon
  <2> QED BY <1>0, <1>2, <2>1, <2>2, KeptFrame, Zenon
<1>5. \A c \in Commands : CopyHas(c)'
  BY <1>0, <1>1, Zenon DEF MarksHold, CopyHas
<1>6. \A q \in HomePods : NotYetMarked(q)'
  BY <1>0, <1>1, SameJob, Zenon DEF MarksHold, NotYetMarked
<1>7. lost' \subseteq crossed'  BY <1>0, <1>1, Zenon DEF StateIsMarked
<1> QED BY <1>3, <1>4, <1>5, <1>6, <1>7, Zenon DEF MarksHold, StateIsMarked

\* EditFile, EditCodex and EditWork.
LEMMA EditKeeps ==
    ASSUME HomeInv, NEW p \in HomePods,
           EditFile(p, Claude) \/ EditFile(p, Pi) \/ EditCodex(p) \/ EditWork(p)
    PROVE  HomeInv'
<1>1. Matches /\ HomeTypeOK /\ IdentitiesApart  BY Zenon DEF HomeInv, Matches
<1>2. /\ Matches' /\ Quietly /\ nextId' = nextId
      /\ \A q \in HomePods : home'[q].codex.id = home[q].codex.id
  BY <1>1, EditEffect, Zenon
<1>3. MarksHold' /\ StateIsMarked'  BY <1>2, QuietKeeps, Zenon
<1>4. IdentitiesApart'
  <2>1. HomeTypeOK' /\ nextId' >= nextId /\ UNCHANGED <<job, unreset>>
    BY <1>2, Zenon DEF Matches, Quietly
  <2>2. \A q \in HomePods : Identity(q)' = Identity(q) /\ SavedIdentity(q)' = SavedIdentity(q)
    BY <1>2, <2>1, Zenon DEF Identity, SavedIdentity
  <2>3. (Leased(p)' <=> Leased(p)) /\ (Recreated(p)' <=> Recreated(p))
    BY <2>1, SameJob, Zenon
  <2> QED BY <1>1, <2>1, <2>2, <2>3, ApartKept, Zenon
<1> QED BY <1>2, <1>3, <1>4, Zenon DEF HomeInv

\* CodexAttaches: a new identity is nobody's.
LEMMA AttachKeeps ==
    ASSUME HomeInv, NEW p \in HomePods, NEW hostHasLogin \in BOOLEAN,
           CodexAttaches(p, hostHasLogin)
    PROVE  HomeInv'
<1>1. Matches /\ HomeTypeOK /\ IdentitiesApart  BY Zenon DEF HomeInv, Matches
<1>2. /\ Matches' /\ Quietly /\ nextId' = nextId + 1
      /\ home'[p].codex.id = IF home[p].codex.id = NoId THEN nextId ELSE home[p].codex.id
      /\ \A q \in HomePods \ {p} : home'[q] = home[q]
  BY <1>1, AttachEffect, Zenon
<1>3. MarksHold' /\ StateIsMarked'  BY <1>2, QuietKeeps, Zenon
<1>4. IdentitiesApart'
  <2>1. HomeTypeOK' /\ nextId' >= nextId /\ UNCHANGED <<job, unreset>>
    BY <1>2, Zenon DEF Matches, Quietly
  <2>2. \A q \in HomePods \ {p} : Identity(q)' = Identity(q)
    BY <1>2, Zenon DEF Identity
  <2>3. Identity(p)' \in {Identity(p), nextId}  BY <1>2, Zenon DEF Identity
  <2>4. (Leased(p)' <=> Leased(p)) /\ (Recreated(p)' <=> Recreated(p))
        /\ SavedIdentity(p)' = SavedIdentity(p)
    BY <2>1, SameJob, Zenon DEF SavedIdentity
  <2> QED BY <1>1, <1>2, <2>1, <2>2, <2>3, <2>4, ApartKept, Zenon
<1> QED BY <1>2, <1>3, <1>4, Zenon DEF HomeInv

\* No identity changes hands where no home's codex and no job changes.
LEMMA ApartSame ==
    ASSUME IdentitiesApart, HomeTypeOK, HomeTypeOK', nextId' = nextId, unreset' = unreset,
           job' = job, NEW p \in HomePods,
           \A q \in HomePods : home'[q].codex = home[q].codex
    PROVE  IdentitiesApart'
<1>1. \A q \in HomePods : Identity(q)' = Identity(q) /\ SavedIdentity(q)' = SavedIdentity(q)
  BY Zenon DEF Identity, SavedIdentity
<1>2. (Leased(p)' <=> Leased(p)) /\ (Recreated(p)' <=> Recreated(p))  BY SameJob, Zenon
<1>3. nextId' >= nextId  BY DEF HomeTypeOK
<1> QED BY <1>1, <1>2, <1>3, ApartKept, Zenon

\* CopyChecks: a command that finds no mark finds no files, unless copies or
\* jobs overlap.
LEMMA CheckKeeps ==
    ASSUME HomeInv, NEW c \in Commands, NEW p \in HomePods, NEW agent \in {Claude, Pi},
           CopyChecks(c, p, agent)
    PROVE  HomeInv'
<1>1. Matches /\ HomeTypeOK /\ IdentitiesApart /\ MarksHold /\ StateIsMarked /\ RowsMatch
  BY Zenon DEF HomeInv, Matches
<1>2. Matches'  BY <1>1, MatchesCheck, Zenon
<1> DEFINE k == [at |-> "put", pod |-> p, agent |-> agent, id |-> row[p][1], to |-> container[p]]
<1>3. /\ UNCHANGED <<row, nextId, container, home, job, unreset, lost>>
      /\ copy[c].at = "idle" /\ ~Leased(p) /\ row[p] # NoRow /\ ~Copied(p, agent)
      /\ container[p] # 0 /\ copy' = [copy EXCEPT ![c] = k]
  BY Zenon DEF CopyChecks, Entered
<1>4. /\ copy'[c] = k /\ \A d \in Commands \ {c} : copy'[d] = copy[d]
      /\ k.at = "put" /\ k.pod = p /\ k.to = container[p] /\ k.agent = agent
  BY <1>1, <1>3, Zenon DEF HomeTypeOK
<1> HIDE DEF k
<1>5. /\ crossed \subseteq crossed'
      /\ p \in InJob \union InCopy => Involved(p) \subseteq crossed'
  BY Zenon DEF CopyChecks
<1>6. /\ \A d \in Commands : Copying(d) => copy[d].agent \in {Claude, Pi}
      /\ \A q \in HomePods : Leased(q) => job[q].source \in HomePods
  BY <1>1, UnderwayFields, Zenon
<1>7. ~Copying(c)  BY <1>3, Zenon DEF Copying
\* A fork of p is involved.
<1>8. ASSUME NEW q \in HomePods, Forked(q), container[job[q].source] = job[q].sourceId,
             k.to = job[q].sourceId
      PROVE  q \in crossed'
  <2>1. Leased(q) /\ JobMatches(q)  BY <1>1, <1>8, Zenon DEF Forked, Matches
  <2>2. job[q].source = p  BY <1>1, <1>3, <1>4, <1>6, <1>8, <2>1, ZenonT(60) DEF RowsMatch
  <2>4. q \in Involved(p)  BY <2>1, <2>2, Zenon DEF Involved
  <2>5. p \in InJob  BY <2>1, <2>2, Zenon DEF InJob
  <2> QED BY <1>5, <2>4, <2>5, Zenon
<1>9. ASSUME NEW q \in HomePods, q \notin crossed' PROVE SourceAsKept(q)
  <2>1. ASSUME Forked(q), container[job[q].source] = job[q].sourceId,
               NEW d \in Commands, Copying(d)', copy'[d].to = job[q].sourceId
        PROVE  Copying(d) /\ copy[d].to = job[q].sourceId
    <3>1. d # c  BY <1>4, <1>8, <1>9, <2>1, Zenon
    <3> QED BY <1>4, <2>1, <3>1, Zenon DEF Copying
  <2> QED BY <1>3, <2>1, Zenon DEF SourceAsKept, SourceStays
<1>10. MarksHold'
  <2>1. \A q \in HomePods : Marked(q)'
    <3> SUFFICES ASSUME NEW q \in HomePods PROVE Marked(q)'
      BY Zenon
    <3>1. Marked(q)  BY <1>1, Zenon DEF MarksHold
    <3> QED BY <1>3, <3>1, MarksFrame, Zenon
  <2>2. ASSUME NEW d \in Commands PROVE CopyHas(d)'
    <3>1. CASE d = c  BY <1>4, <3>1, Zenon DEF CopyHas
    <3>2. CASE d # c  BY <1>1, <1>3, <1>4, <3>2, Zenon DEF CopyHas, MarksHold
    <3> QED BY <3>1, <3>2, Zenon
  <2>3. \A q \in HomePods : NotYetMarked(q)'
    BY <1>1, <1>3, SameJob, Zenon DEF MarksHold, NotYetMarked
  <2> QED BY <2>1, <2>2, <2>3, Zenon DEF MarksHold
<1>11. StateIsMarked'
  <2>1. ASSUME NEW q \in HomePods, q \notin crossed', q # p PROVE Kept(q)'
    <3>1. Kept(q) /\ SourceAsKept(q)  BY <1>1, <1>5, <1>9, <2>1, Zenon DEF StateIsMarked
    <3>2. /\ \A d \in Commands : Copying(d)' /\ copy'[d].pod = q => copy'[d] = copy[d]
          /\ \A d \in Commands : Copying(d) => copy'[d] = copy[d]
      BY <1>4, <1>7, <2>1, Zenon
    <3> QED BY <1>3, <1>6, <3>1, <3>2, KeptFrame, Zenon
  <2>2. ASSUME p \notin crossed' PROVE Kept(p)'
    <3>1. Kept(p) /\ p \notin InJob /\ p \notin InCopy
      <4>1. p \in Involved(p)  BY Zenon DEF Involved
      <4> QED BY <1>1, <1>5, <2>2, <4>1, Zenon DEF StateIsMarked
    <3>2. \A d \in Commands : ~(Copying(d) /\ copy[d].pod = p)
      BY <3>1, Zenon DEF InCopy, Copying
    <3>3. ~Leased(p)' /\ ~Replaced(p)' /\ ~Recreated(p)' /\ ~Forked(p)' /\ ~Replaced(p)
      BY <1>3, Zenon DEF Leased, Replaced, Recreated, Forked
    <3>4. ~Used(home[p], agent)
      <4>1. CASE agent = Claude
        <5>1. ~row[p][2]  BY <1>3, <4>1, Zenon DEF Copied
        <5>2. \A d \in Commands : ~(copy[d].at = "mark" /\ copy[d].pod = p)
          BY <3>2, Zenon DEF Copying
        <5>3. ~Has(home[p])  BY <1>3, <3>1, <3>3, <5>1, <5>2, Zenon DEF Kept, HasMark
        <5> QED BY <4>1, <5>3, Zenon DEF Has, Used
      <4>2. CASE agent = Pi  BY <1>3, <4>2, Zenon DEF Copied, Used, Claude, Pi
      <4> QED BY <4>1, <4>2, Zenon
    <3>5. \A d \in Commands : Copying(d)' /\ copy'[d].pod = p => d = c
      BY <1>4, <3>2, Zenon DEF Copying
    <3>6. CopiesAlone(p)'
      BY <1>3, <1>4, <3>3, <3>4, <3>5, Zenon DEF CopiesAlone
    <3>7. HasMark(p)'
      <4>1. (row[p] # NoRow /\ Has(home[p])) => row[p][2]
        BY <3>1, <3>2, <3>3, Zenon DEF Kept, HasMark, Copying
      <4> QED BY <1>3, <4>1, Zenon DEF HasMark
    <3> QED BY <3>3, <3>6, <3>7, Zenon DEF Kept, RecreateKeepsMark, ForkKeepsMark, HomeIsRestored
  <2>3. lost' \subseteq crossed'  BY <1>1, <1>3, <1>5, Zenon DEF StateIsMarked
  <2> QED BY <2>1, <2>2, <2>3, Zenon DEF StateIsMarked
<1>12. IdentitiesApart'
  <2>1. HomeTypeOK'  BY <1>2, Zenon DEF Matches
  <2> QED BY <1>1, <1>3, <2>1, ApartSame, Zenon
<1> QED BY <1>2, <1>10, <1>11, <1>12, Zenon DEF HomeInv

\* CopyPuts: the files come where there were none, or the pod is one where
\* copies or jobs overlapped; no fork has taken the pod for one without.
LEMMA PutsKeeps ==
    ASSUME HomeInv, NEW c \in Commands, CopyPuts(c)
    PROVE  HomeInv'
<1>1. Matches /\ HomeTypeOK /\ IdentitiesApart /\ MarksHold /\ StateIsMarked /\ RowsMatch
  BY Zenon DEF HomeInv, Matches
<1>p. PICK p \in HomePods : p = copy[c].pod
  <2>1. copy[c].pod \in HomePods  BY <1>1, PutsEffect, Zenon DEF Copies
  <2> QED BY <2>1, Zenon
<1>2. /\ Matches' /\ copy[c] \in Copies /\ copy[c].at = "put"
      /\ UNCHANGED <<row, nextId, container, job, crossed, unreset>>
      /\ \A d \in Commands \ {c} : copy'[d] = copy[d]
      /\ \A q \in HomePods : home'[q] # home[q] => q = p /\ container[q] = copy[c].to
      /\ \A q \in HomePods : home'[q].codex = home[q].codex
      /\ \A q \in HomePods : Has(home[q]) => Has(home'[q])
      /\ Copying(c)' => /\ copy'[c].at = "mark" /\ copy'[c].pod = p
                        /\ copy'[c].to = copy[c].to /\ copy'[c].agent = copy[c].agent
                        /\ copy[c].agent = Claude /\ container[p] = copy[c].to
      /\ lost' = lost \/ (lost' = lost \union {p} /\ Used(home[p], copy[c].agent))
  BY <1>1, <1>p, PutsEffect, Zenon
<1>3. container[p] = copy[c].to =>
        /\ \A agent \in {Claude, Pi} : agent # copy[c].agent =>
             (Used(home'[p], agent) <=> Used(home[p], agent))
        /\ copy[c].agent = Claude => Has(home'[p])
        /\ copy[c].agent = Claude <=> copy'[c].at = "mark"
  BY <1>1, <1>p, PutsEffect, Zenon
<1>4. Copying(c) /\ p \in HomePods /\ copy[c].agent \in {Claude, Pi} /\ CopyMatches(c)
  BY <1>1, <1>2, <1>p, Zenon DEF Copying, Copies, Matches
<1>5. /\ \A d \in Commands : Copying(d) => copy[d].agent \in {Claude, Pi}
      /\ \A q \in HomePods : Leased(q) => job[q].source \in HomePods
  BY <1>1, UnderwayFields, Zenon
<1>6. \A d \in Commands : Copying(d)' => Copying(d) /\ copy'[d].to = copy[d].to
                                         /\ copy'[d].pod = copy[d].pod
  BY <1>2, <1>4, <1>p, Zenon DEF Copying
<1>7. MarksHold'
  <2>1. \A q \in HomePods : Marked(q)'
    <3> SUFFICES ASSUME NEW q \in HomePods PROVE Marked(q)'
      BY Zenon
    <3>1. Marked(q)  BY <1>1, Zenon DEF MarksHold
    <3> QED BY <1>2, <3>1, MarksFrame, Zenon
  <2>2. ASSUME NEW d \in Commands PROVE CopyHas(d)'
    <3>1. CASE d = c
      <4> SUFFICES ASSUME NEW q \in HomePods, copy'[c].at = "mark", container[q] = copy'[c].to
                   PROVE  Has(home'[q])
        BY <1>2, <3>1, Zenon DEF CopyHas
      <4>1. Copying(c)'  BY Zenon DEF Copying
      <4>2. copy[c].agent = Claude /\ container[p] = copy[c].to /\ container[q] = copy[c].to
        BY <1>2, <4>1, Zenon
      <4>3. q = p  BY <1>p, <1>4, <4>2, Zenon DEF CopyMatches
      <4> QED BY <1>3, <4>2, <4>3, Zenon
    <3>2. CASE d # c  BY <1>1, <1>2, <3>2, Zenon DEF CopyHas, MarksHold
    <3> QED BY <3>1, <3>2, Zenon
  <2>3. \A q \in HomePods : NotYetMarked(q)'
    BY <1>1, <1>2, SameJob, Zenon DEF MarksHold, NotYetMarked
  <2> QED BY <2>1, <2>2, <2>3, Zenon DEF MarksHold
<1>8. StateIsMarked'
  <2>1. ASSUME NEW q \in HomePods, q \notin crossed' PROVE SourceAsKept(q)
    <3> DEFINE s == job[q].source
    <3> SUFFICES ASSUME Forked(q), ~Did(job[q], "flag"), container[s] = job[q].sourceId
                 PROVE  Has(home'[s]) => Has(home[s])
      BY <1>2, <1>6, Zenon DEF SourceAsKept, SourceStays
    <3>1. ForkKeepsMark(q) /\ SourceStays(q)
      BY <1>1, <1>2, <2>1, Zenon DEF StateIsMarked, Kept, SourceStays
    <3>2. NoCopyToSource(q)  BY <3>1, Zenon DEF ForkKeepsMark
    <3>3. copy[c].to # container[s]  BY <1>4, <3>2, Zenon DEF NoCopyToSource
    <3>4. s \in HomePods  BY <1>5, Zenon DEF Forked
    <3> QED BY <1>2, <3>3, <3>4, Zenon
  <2>2. ASSUME NEW q \in HomePods, q \notin crossed', q # p PROVE Kept(q)'
    <3>1. Kept(q) /\ SourceAsKept(q)  BY <1>1, <1>2, <2>1, <2>2, Zenon DEF StateIsMarked
    <3>2. /\ \A d \in Commands : Copying(d)' /\ copy'[d].pod = q => copy'[d] = copy[d]
          /\ \A d \in Commands : Copying(d) /\ copy[d].pod = q => copy'[d] = copy[d]
      BY <1>p, <1>2, <1>6, <2>2, Zenon
    <3>3. home'[q] = home[q]  BY <1>2, <2>2, Zenon
    <3> QED BY <1>2, <1>5, <3>1, <3>2, <3>3, KeptFrame, Zenon
  <2>3. ASSUME p \notin crossed' PROVE Kept(p)' /\ ~Used(home[p], copy[c].agent)
    <3>1. Kept(p)  BY <1>1, <1>2, <1>4, <2>3, Zenon DEF StateIsMarked
    <3>2. /\ ~Leased(p) /\ copy[c].to = container[p] /\ ~Used(home[p], copy[c].agent)
          /\ \A d \in Commands : (Copying(d) /\ copy[d].pod = p) => c = d
      BY <1>p, <1>2, <1>4, <3>1, Zenon DEF Kept, CopiesAlone
    <3>3. ~Leased(p)' /\ ~Replaced(p)' /\ ~Recreated(p)' /\ ~Forked(p)' /\ ~Replaced(p)
      BY <1>2, <3>2, Zenon DEF Leased, Replaced, Recreated, Forked
    <3>4. CopiesAlone(p)'
      <4>1. \A d \in Commands : Copying(d)' /\ copy'[d].pod = p => d = c
        BY <1>6, <3>2, Zenon
      <4>2. Copying(c)' => copy'[c].at = "mark" /\ copy'[c].to = container'[p]
        BY <1>2, <3>2, Zenon
      <4> QED BY <3>3, <4>1, <4>2, Zenon DEF CopiesAlone
    <3>5. HasMark(p)'
      <4>1. CASE copy[c].agent = Claude
        <5>1. copy'[c].at = "mark"  BY <1>3, <3>2, <4>1, Zenon
        <5>2. copy'[c].pod = p  BY <1>2, <5>1, Zenon DEF Copying
        <5> QED BY <5>1, <5>2, Zenon DEF HasMark
      <4>2. CASE copy[c].agent # Claude
        <5>1. Has(home'[p]) <=> Has(home[p])
          BY <1>3, <3>2, <4>2, Zenon DEF Used, Has
        <5>2. \A d \in Commands : ~(copy[d].at = "mark" /\ copy[d].pod = p)
          BY <1>2, <3>2, Zenon DEF Copying
        <5>3. (row[p] # NoRow /\ Has(home[p])) => row[p][2]
          BY <3>1, <3>3, <5>2, Zenon DEF Kept, HasMark
        <5> QED BY <1>2, <5>1, <5>3, Zenon DEF HasMark
      <4> QED BY <4>1, <4>2, Zenon
    <3>6. Kept(p)'
      BY <3>3, <3>4, <3>5, Zenon DEF Kept, RecreateKeepsMark, ForkKeepsMark, HomeIsRestored
    <3> QED BY <3>2, <3>6, Zenon
  <2>4. lost' \subseteq crossed'  BY <1>1, <1>2, <2>3, Zenon DEF StateIsMarked
  <2> QED BY <2>2, <2>3, <2>4, Zenon DEF StateIsMarked
<1>9. IdentitiesApart'
  <2>1. HomeTypeOK'  BY <1>2, Zenon DEF Matches
  <2> QED BY <1>1, <1>2, <1>4, <2>1, ApartSame, Zenon
<1> QED BY <1>2, <1>7, <1>8, <1>9, Zenon DEF HomeInv

\* CopyMarks: the row that is marked is that of the container with the files.
LEMMA MarksKeeps ==
    ASSUME HomeInv, NEW c \in Commands, CopyMarks(c)
    PROVE  HomeInv'
<1>1. Matches /\ HomeTypeOK /\ IdentitiesApart /\ MarksHold /\ StateIsMarked /\ RowsMatch
  BY Zenon DEF HomeInv, Matches
<1>2. /\ Matches' /\ copy[c].at = "mark" /\ ~Copying(c)'
      /\ \A d \in Commands \ {c} : copy'[d] = copy[d]
      /\ \A q \in HomePods : row'[q] = NoRow <=> row[q] = NoRow
      /\ \A q \in HomePods : row[q] # NoRow =>
           (row'[q][2] <=> (row[q][2] \/ row[q][1] = copy[c].id))
      /\ UNCHANGED <<nextId, container, home, job, crossed, unreset, lost>>
  BY <1>1, MarksEffect, Zenon
<1>3. Copying(c) /\ CopyMatches(c) /\ CopyHas(c) /\ copy[c].pod \in HomePods
  <2>1. Copying(c)  BY <1>2, Zenon DEF Copying
  <2> QED BY <1>1, <2>1, UnderwayFields, Zenon DEF Matches, MarksHold
<1>4. copy[c].id = copy[c].to  BY <1>3, Zenon DEF CopyMatches
<1>5. \A q \in HomePods : row[q] # NoRow =>
        row[q][1] = container[q] /\ (row'[q][2] <=> (row[q][2] \/ container[q] = copy[c].to))
  BY <1>1, <1>2, <1>4, Zenon DEF RowsMatch, RowMatches
<1>6. /\ \A d \in Commands : Copying(d) => copy[d].agent \in {Claude, Pi}
      /\ \A q \in HomePods : Leased(q) => job[q].source \in HomePods
  BY <1>1, UnderwayFields, Zenon
<1>7. \A d \in Commands : Copying(d)' => Copying(d) /\ copy'[d] = copy[d]
  BY <1>2, Zenon DEF Copying
\* The source of a fork is still the one it started from, and has a row.
<1>8. ASSUME NEW q \in HomePods, Forked(q), container[job[q].source] = job[q].sourceId
      PROVE  row[job[q].source] # NoRow
  <2>1. Leased(q) /\ JobMatches(q)  BY <1>1, <1>8, Zenon DEF Forked, Matches
  <2>2. job[q].source \in HomePods /\ job[q].sourceId # 0  BY <1>6, <2>1, Zenon DEF JobMatches
  <2> QED BY <1>1, <1>8, <2>2, Zenon DEF RowsMatch, RowMatches
<1>9. MarksHold'
  <2>1. ASSUME NEW q \in HomePods PROVE Marked(q)'
    <3>1. Marked(q)  BY <1>1, Zenon DEF MarksHold
    <3>3. CASE row[q] # NoRow /\ container[q] = copy[c].to
      <4>1. Has(home[q])  BY <1>2, <1>3, <3>3, Zenon DEF CopyHas
      <4> QED BY <1>2, <4>1, Zenon DEF Marked, MarkIsTrue, RestoresTruly
    <3>4. CASE ~(row[q] # NoRow /\ container[q] = copy[c].to)
      <4>1. (row'[q] # NoRow /\ row'[q][2]) => (row[q] # NoRow /\ row[q][2])
        BY <1>2, <1>5, <3>4, Zenon
      <4> QED BY <1>2, <3>1, <4>1, MarksFrame, Zenon
    <3> QED BY <3>3, <3>4, Zenon
  <2>2. \A d \in Commands : CopyHas(d)'
    BY <1>1, <1>2, <1>7 DEF CopyHas, MarksHold, Copying
  <2>3. ASSUME NEW q \in HomePods PROVE NotYetMarked(q)'
    <3> SUFFICES ASSUME Replaced(q) PROVE ~row'[q][2]
      BY <1>2, SameJob, Zenon DEF NotYetMarked
    <3>1. container[q] # copy[c].to  BY <1>3, Zenon DEF CopyMatches
    <3>2. row[q] # NoRow  BY <1>1, Zenon DEF Matches, JobMatches, Replaced
    <3>3. ~row[q][2]  BY <1>1, Zenon DEF MarksHold, NotYetMarked
    <3> QED BY <1>5, <3>1, <3>2, <3>3, Zenon
  <2> QED BY <2>1, <2>2, <2>3, Zenon DEF MarksHold
<1>10. StateIsMarked'
  <2>1. ASSUME NEW q \in HomePods, q \notin crossed' PROVE Kept(q)'
    <3>1. Kept(q)  BY <1>1, <1>2, <2>1, Zenon DEF StateIsMarked
    <3>2. SourceAsKept(q)
      <4> DEFINE s == job[q].source
      <4> SUFFICES ASSUME Forked(q), container[s] = job[q].sourceId
                   PROVE  row[s][2] => row'[s][2]
        BY <1>2, <1>7, Zenon DEF SourceAsKept, SourceStays
      <4>1. s \in HomePods /\ row[s] # NoRow  BY <1>6, <1>8, Zenon DEF Forked
      <4> QED BY <1>5, <4>1, Zenon
    <3>3. ASSUME NEW d \in Commands, Copying(d), copy[d].pod = q
          PROVE  copy'[d] = copy[d] \/ (row'[q] # NoRow => row'[q][2])
      <4>1. copy[d].to = container[q]  BY <3>1, <3>3, Zenon DEF Kept, CopiesAlone
      <4> QED BY <1>2, <1>5, <4>1, Zenon
    <3>4. /\ row'[q] # NoRow => row[q] # NoRow
          /\ row'[q] # NoRow /\ row[q][2] => row'[q][2]
      BY <1>2, <1>5, Zenon
    <3> QED BY <1>2, <1>6, <1>7, <3>1, <3>2, <3>3, <3>4, KeptFrame, Zenon
  <2>2. lost' \subseteq crossed'  BY <1>1, <1>2, Zenon DEF StateIsMarked
  <2> QED BY <2>1, <2>2, Zenon DEF StateIsMarked
<1>11. IdentitiesApart'
  <2>1. HomeTypeOK'  BY <1>2, Zenon DEF Matches
  <2> QED BY <1>1, <1>2, <1>3, <2>1, ApartSame, Zenon
<1> QED BY <1>2, <1>9, <1>10, <1>11, Zenon DEF HomeInv

\* CopyFails: where files stay without their mark, the pod and its forks are
\* counted among the crossed.
LEMMA FailsKeeps ==
    ASSUME HomeInv, NEW c \in Commands, CopyFails(c)
    PROVE  HomeInv'
<1>1. Matches /\ HomeTypeOK /\ IdentitiesApart /\ MarksHold /\ StateIsMarked
  BY Zenon DEF HomeInv, Matches
<1>p. PICK p \in HomePods : p = copy[c].pod
  <2>1. copy[c].pod \in HomePods  BY <1>1, FailsEffect, Zenon
  <2> QED BY <2>1, Zenon
<1>2. /\ Matches' /\ copy[c] \in Copies /\ ~Copying(c)'
      /\ UNCHANGED <<row, nextId, container, job, unreset>>
      /\ \A d \in Commands \ {c} : copy'[d] = copy[d]
      /\ \A q \in HomePods \ {p} : home'[q] = home[q]
      /\ \A q \in HomePods : home'[q].codex = home[q].codex
      /\ \A q \in HomePods : Has(home[q]) => Has(home'[q])
      /\ crossed \subseteq crossed' /\ lost' \subseteq lost \union crossed'
      /\ (copy[c].at = "put" /\ home' = home) \/ Involved(p) \subseteq crossed'
  BY <1>1, <1>p, FailsEffect, Zenon
<1>3. /\ \A d \in Commands : Copying(d) => copy[d].agent \in {Claude, Pi}
      /\ \A q \in HomePods : Leased(q) => job[q].source \in HomePods
  BY <1>1, UnderwayFields, Zenon
<1>4. \A d \in Commands : Copying(d)' => Copying(d) /\ copy'[d] = copy[d]
  BY <1>2, Zenon DEF Copying
<1>5. MarksHold'
  <2>1. \A q \in HomePods : Marked(q)'
    <3> SUFFICES ASSUME NEW q \in HomePods PROVE Marked(q)'
      BY Zenon
    <3>1. Marked(q)  BY <1>1, Zenon DEF MarksHold
    <3> QED BY <1>2, <3>1, MarksFrame, Zenon
  <2>2. ASSUME NEW d \in Commands PROVE CopyHas(d)'
    <3>1. CopyHas(d) /\ (copy'[d].at = "mark" => copy'[d] = copy[d])
      BY <1>1, <1>4, Zenon DEF MarksHold, Copying
    <3> QED BY <1>2, <3>1, Zenon DEF CopyHas
  <2>3. \A q \in HomePods : NotYetMarked(q)'
    BY <1>1, <1>2, SameJob, Zenon DEF MarksHold, NotYetMarked
  <2> QED BY <2>1, <2>2, <2>3, Zenon DEF MarksHold
<1>6. StateIsMarked'
  <2>1. ASSUME NEW q \in HomePods, q \notin crossed' PROVE Kept(q)'
    <3>1. Kept(q)  BY <1>1, <1>2, <2>1, Zenon DEF StateIsMarked
    <3>2. SourceAsKept(q)
      <4> DEFINE s == job[q].source
      <4> SUFFICES ASSUME Forked(q) PROVE home'[s] = home[s]
        BY <1>2, <1>4, Zenon DEF SourceAsKept, SourceStays
      <4>1. Leased(q) /\ s \in HomePods  BY <1>3, Zenon DEF Forked
      <4>2. s = p => home' = home  BY <1>2, <2>1, <4>1, Zenon DEF Involved
      <4> QED BY <1>2, <4>1, <4>2, Zenon
    <3>3. home'[q] = home[q] /\ (q = p => copy[c].at = "put")
      <4>1. q = p => home' = home /\ copy[c].at = "put"  BY <1>2, <2>1, Zenon DEF Involved
      <4> QED BY <1>2, <4>1, Zenon
    <3>4. /\ \A d \in Commands : Copying(d)' /\ copy'[d].pod = q => copy'[d] = copy[d]
          /\ \A d \in Commands : Copying(d) /\ copy[d].pod = q /\ copy[d].at = "mark"
               => copy'[d] = copy[d]
      <4>1. \A d \in Commands : Copying(d) /\ copy[d].pod = q /\ copy[d].at = "mark" => d # c
        BY <1>p, <3>3, Zenon
      <4> QED BY <1>2, <1>4, <4>1, Zenon
    <3> QED BY <1>2, <1>3, <3>1, <3>2, <3>3, <3>4, KeptFrame, Zenon
  <2>2. lost' \subseteq crossed'  BY <1>1, <1>2, Zenon DEF StateIsMarked
  <2> QED BY <2>1, <2>2, Zenon DEF StateIsMarked
<1>7. IdentitiesApart'
  <2>1. HomeTypeOK'  BY <1>2, Zenon DEF Matches
  <2> QED BY <1>1, <1>2, <1>p, <2>1, ApartSame, Zenon
<1> QED BY <1>2, <1>5, <1>6, <1>7, Zenon DEF HomeInv

\* StartJob: a fork knows nothing of its source yet but that it is there.
LEMMA StartKeeps ==
    ASSUME HomeInv, NEW p \in HomePods, NEW source \in HomePods,
           NEW plan \in {RecreatePlan, ForkPlan, BlindPlan}, StartJob(p, source, plan),
           plan = ForkPlan <=> source # p, source # p => row[p] = NoRow
    PROVE  HomeInv'
<1>1. Matches /\ HomeTypeOK /\ IdentitiesApart /\ MarksHold /\ StateIsMarked /\ RowsMatch
  BY Zenon DEF HomeInv, Matches
<1>2. /\ Matches' /\ UNCHANGED <<row, nextId, container, home, copy, unreset, lost>>
      /\ \A q \in HomePods \ {p} : job'[q] = job[q]
      /\ Leased(p)' /\ \A x : ~Did(job'[p], x)
      /\ job'[p].plan = plan /\ job'[p].source = source /\ job'[p].sourceId = row[source][1]
      /\ job'[p].copied = FALSE /\ job'[p].snapshot = FreshHome
      /\ row[source] # NoRow /\ ~Leased(p) /\ container[source] = row[source][1]
  BY <1>1, MatchesStart, ZenonT(60)
<1>3. /\ crossed \subseteq crossed'
      /\ p \notin crossed' => /\ p \notin InCopy /\ source \notin InCopy
                              /\ source \notin InJob /\ source \notin crossed
  BY Zenon DEF StartJob
<1>4. /\ \A d \in Commands : Copying(d) => copy[d].agent \in {Claude, Pi}
      /\ \A q \in HomePods : Leased(q) => job[q].source \in HomePods
  BY <1>1, UnderwayFields, Zenon
<1>5. ~Replaced(p) /\ ~Replaced(p)' /\ ~Has(FreshHome)  BY <1>2, FreshTypes, Zenon DEF Replaced
\* A copy to the source's container is a copy to the source.
<1>6. ASSUME NEW d \in Commands, Copying(d), copy[d].to = container[source]
      PROVE  source \in InCopy
  <2>1. CopyMatches(d)  BY <1>1, Zenon DEF Matches
  <2>2. source = copy[d].pod  BY <1>6, <2>1, Zenon DEF CopyMatches
  <2> QED BY <1>6, <2>2, Zenon DEF InCopy, Copying
<1>7. source \notin InCopy => NoCopyToSource(p)'
  BY <1>2, <1>6, Zenon DEF NoCopyToSource, Copying
<1>9. \A q \in HomePods \ {p} : SourceAsKept(q)
  BY <1>2, Zenon DEF SourceAsKept, SourceStays, Copying
<1>10. MarksHold'
  <2>1. ASSUME NEW q \in HomePods, q # p PROVE Marked(q)'
    <3>1. Marked(q)  BY <1>1, Zenon DEF MarksHold
    <3> QED BY <1>2, <2>1, <3>1, MarksFrame, Zenon
  <2>2. Marked(p)'
    <3>1. MarkIsTrue(p)'  BY <1>1, <1>2, Zenon DEF MarksHold, Marked, MarkIsTrue
    <3>2. RestoresTruly(p)'  BY <1>2, Zenon DEF RestoresTruly
    <3> QED BY <3>1, <3>2, Zenon DEF Marked
  <2>3. \A d \in Commands : CopyHas(d)'  BY <1>1, <1>2, Zenon DEF CopyHas, MarksHold
  <2>4. \A q \in HomePods : NotYetMarked(q)'
    BY <1>1, <1>2, <1>5, SameJob, Zenon DEF MarksHold, NotYetMarked
  <2> QED BY <2>1, <2>2, <2>3, <2>4, Zenon DEF MarksHold
<1>11. StateIsMarked'
  <2>1. ASSUME NEW q \in HomePods, q \notin crossed', q # p PROVE Kept(q)'
    <3>1. Kept(q)  BY <1>1, <1>3, <2>1, Zenon DEF StateIsMarked
    <3> QED BY <1>2, <1>4, <1>9, <2>1, <3>1, KeptFrame, Zenon
  <2>2. ASSUME p \notin crossed' PROVE Kept(p)'
    <3>1. Kept(p) /\ Kept(source)  BY <1>1, <1>3, <2>2, Zenon DEF StateIsMarked
    <3>2. \A q \in {p, source} : \A d \in Commands : ~(Copying(d) /\ copy[d].pod = q)
      BY <1>3, <2>2, Zenon DEF InCopy, Copying
    <3>3. CopiesAlone(p)'  BY <1>2, <3>2, Zenon DEF CopiesAlone, Copying
    <3>4. HasMark(p)'
      <4>1. HasMark(p)  BY <3>1, Zenon DEF Kept
      <4> QED BY <1>2, <1>5, <4>1, Zenon DEF HasMark
    <3>5. RecreateKeepsMark(p)' /\ HomeIsRestored(p)'
      BY <1>2, <1>5, Zenon DEF RecreateKeepsMark, HomeIsRestored
    <3>6. Has(home[source]) => row[source][2]
      <4>1. HasMark(source)  BY <3>1, Zenon DEF Kept
      <4>2. ~Replaced(source)  BY <1>3, <2>2, Zenon DEF InJob, Replaced
      <4> QED BY <1>2, <3>2, <4>1, <4>2, Zenon DEF HasMark, Copying
    <3>7. NoCopyToSource(p)'  BY <1>3, <1>7, <2>2, Zenon
    <3>8. ForkKeepsMark(p)'  BY <1>2, <1>5, <3>6, <3>7, Zenon DEF ForkKeepsMark
    <3> QED BY <3>3, <3>4, <3>5, <3>8, Zenon DEF Kept
  <2>3. lost' \subseteq crossed'  BY <1>1, <1>2, <1>3, Zenon DEF StateIsMarked
  <2> QED BY <2>1, <2>2, <2>3, Zenon DEF StateIsMarked
<1>12. IdentitiesApart'
  <2>1. HomeTypeOK' /\ nextId' >= nextId  BY <1>1, <1>2 DEF Matches, HomeTypeOK
  <2>2. \A q \in HomePods : Identity(q)' = Identity(q)  BY <1>2, Zenon DEF Identity
  <2>3. SavedIdentity(p)' = NoId  BY <1>2 DEF SavedIdentity, FreshHome, NoCodex
  <2> QED BY <1>1, <1>2, <2>1, <2>2, <2>3, ApartKept, Zenon
<1> QED BY <1>2, <1>10, <1>11, <1>12, Zenon DEF HomeInv

\* SourceGone and JobFails: the pod is taken for one where the mark may be
\* missing, and a fork of it goes on only if its container stays.
LEMMA AbortKeeps ==
    ASSUME HomeInv, NEW p \in HomePods, SourceGone(p) \/ JobFails(p)
    PROVE  HomeInv'
<1>1. Matches /\ HomeTypeOK /\ IdentitiesApart /\ MarksHold /\ StateIsMarked /\ RowsMatch
  BY Zenon DEF HomeInv, Matches
<1>2. /\ Matches' /\ Leased(p) /\ ~Leased(p)' /\ job[p] \in Jobs
      /\ \A q \in HomePods \ {p} :
           /\ job'[q] = job[q] /\ row'[q] = row[q]
           /\ container'[q] = container[q] /\ home'[q] = home[q]
      /\ \/ row'[p] = NoRow
         \/ /\ row'[p] = row[p] /\ container'[p] = container[p]
            /\ home'[p].claude = home[p].claude
      /\ \/ home'[p].codex.id = home[p].codex.id /\ unreset' = unreset
         \/ /\ IsAt(job[p], "put_codex") /\ home'[p].codex.id = job[p].snapshot.codex.id
            /\ unreset' = unreset \union ({p} \ {job[p].source})
      /\ crossed' = crossed \union {p} /\ UNCHANGED <<nextId, copy, lost>>
  BY <1>1, AbortEffect, Zenon
<1>3. /\ \A d \in Commands : Copying(d) => copy[d].agent \in {Claude, Pi}
      /\ \A q \in HomePods : Leased(q) => job[q].source \in HomePods
  BY <1>1, UnderwayFields, Zenon
<1>4. row'[p] = NoRow => container'[p] = 0  BY <1>2, Zenon DEF Matches, RowsMatch, RowMatches
<1>5. ASSUME NEW q \in HomePods, q # p PROVE SourceAsKept(q)
  <2> DEFINE s == job[q].source
  <2> SUFFICES ASSUME Forked(q), container'[s] = job[q].sourceId
               PROVE  SourceStays(q) /\ row'[s] = row[s] /\ (Has(home'[s]) <=> Has(home[s]))
    BY <1>2, Zenon DEF SourceAsKept, Copying
  <2>1. Leased(q) /\ JobMatches(q)  BY <1>1, Zenon DEF Forked, Matches
  <2>2. s \in HomePods /\ job[q].sourceId # 0  BY <1>3, <2>1, Zenon DEF JobMatches
  <2>3. CASE s # p  BY <1>2, <2>2, <2>3, Zenon DEF SourceStays
  <2>4. CASE s = p
    <3>1. row'[p] # NoRow  BY <1>4, <2>2, <2>4, Zenon
    <3> QED BY <1>2, <2>4, <3>1, Zenon DEF SourceStays, Has
  <2> QED BY <2>3, <2>4, Zenon
<1>6. MarksHold'
  <2>1. ASSUME NEW q \in HomePods, q # p PROVE Marked(q)'
    <3>1. Marked(q)  BY <1>1, Zenon DEF MarksHold
    <3> QED BY <1>2, <2>1, <3>1, MarksFrame, Zenon
  <2>2. Marked(p)'
    <3>1. MarkIsTrue(p)  BY <1>1, Zenon DEF MarksHold, Marked
    <3>2. MarkIsTrue(p)'  BY <1>2, <3>1, Zenon DEF MarkIsTrue, Has
    <3> QED BY <1>2, <3>2, Zenon DEF Marked, RestoresTruly
  <2>3. ASSUME NEW d \in Commands PROVE CopyHas(d)'
    <3> SUFFICES ASSUME NEW q \in HomePods, copy[d].at = "mark", container'[q] = copy[d].to
                 PROVE  Has(home'[q])
      BY <1>2, Zenon DEF CopyHas
    <3>1. CopyHas(d) /\ copy[d].to # 0
      BY <1>1, Zenon DEF MarksHold, Matches, CopyMatches, Copying
    <3>2. CASE q # p  BY <1>2, <3>1, <3>2, Zenon DEF CopyHas
    <3>3. CASE q = p
      <4>1. row'[p] # NoRow  BY <1>4, <3>1, <3>3, Zenon
      <4> QED BY <1>2, <3>1, <3>3, <4>1, Zenon DEF CopyHas, Has
    <3> QED BY <3>2, <3>3, Zenon
  <2>4. \A q \in HomePods : NotYetMarked(q)'
    <3>1. NotYetMarked(p)'  BY <1>2, Zenon DEF NotYetMarked, Replaced
    <3> QED BY <1>1, <1>2, <3>1, SameJob, Zenon DEF MarksHold, NotYetMarked
  <2> QED BY <2>1, <2>2, <2>3, <2>4, Zenon DEF MarksHold
<1>7. StateIsMarked'
  <2>1. ASSUME NEW q \in HomePods, q \notin crossed' PROVE Kept(q)'
    <3>1. Kept(q) /\ q # p  BY <1>1, <1>2, <2>1, Zenon DEF StateIsMarked
    <3> QED BY <1>2, <1>3, <1>5, <3>1, KeptFrame, Zenon
  <2>2. lost' \subseteq crossed'  BY <1>1, <1>2, Zenon DEF StateIsMarked
  <2> QED BY <2>1, <2>2, Zenon DEF StateIsMarked
<1>8. IdentitiesApart'
  <2>1. HomeTypeOK' /\ nextId' >= nextId /\ unreset \subseteq unreset'
    BY <1>1, <1>2 DEF Matches, HomeTypeOK
  <2>2. \A q \in HomePods \ {p} : Identity(q)' = Identity(q)  BY <1>2, Zenon DEF Identity
  <2>3. CASE home'[p].codex.id = home[p].codex.id
    BY <1>1, <1>2, <2>1, <2>2, <2>3, ApartKept, Zenon DEF Identity
  <2>4. CASE /\ IsAt(job[p], "put_codex") /\ home'[p].codex.id = job[p].snapshot.codex.id
             /\ unreset' = unreset \union ({p} \ {job[p].source})
    <3>1. job[p].plan \in {RecreatePlan, ForkPlan, BlindPlan}  BY <1>2, Zenon DEF Jobs
    <3>2. job[p].plan # BlindPlan  BY <1>2, <2>4, BlindPlaces
    <3>3. JobMatches(p)  BY <1>1, Zenon DEF Matches
    <3>4. Recreated(p) \/ p \in unreset'
      BY <1>2, <2>4, <3>1, <3>2, <3>3, Zenon DEF JobMatches, Recreated
    <3>5. Identity(p)' = SavedIdentity(p)  BY <2>4, Zenon DEF Identity, SavedIdentity
    <3> QED BY <1>1, <1>2, <2>1, <2>2, <3>4, <3>5, ApartKept, Zenon
  <2> QED BY <1>2, <2>3, <2>4, ZenonT(60)
<1> QED BY <1>2, <1>6, <1>7, <1>8, Zenon DEF HomeInv

\* A step of a job that changes neither rows, containers, homes nor copies
\* concerns no other pod.
LEMMA OthersKeep ==
    ASSUME HomeInv, NEW p \in HomePods, NEW x, Moved(p, x), x # "replace",
           UNCHANGED <<row, container, home, copy, crossed, lost>>,
           Marked(p)', p \notin crossed => Kept(p)'
    PROVE  MarksHold' /\ StateIsMarked'
<1>1. HomeTypeOK /\ MarksHold /\ StateIsMarked  BY Zenon DEF HomeInv, Matches
<1>2. \A q \in HomePods \ {p} : job'[q] = job[q]  BY Zenon DEF Moved
<1>3. \A d \in Commands : Copying(d) => copy[d].agent \in {Claude, Pi}
  BY <1>1, UnderwayFields, Zenon
<1>4. \A q \in HomePods \ {p} : SourceAsKept(q)
  BY Zenon DEF SourceAsKept, SourceStays, Copying
<1>5. ASSUME NEW q \in HomePods PROVE Marked(q)'
  <2>1. CASE q = p  BY <2>1, Zenon
  <2>2. CASE q # p
    <3>1. Marked(q)  BY <1>1, Zenon DEF MarksHold
    <3> QED BY <1>2, <2>2, <3>1, MarksFrame, Zenon
  <2> QED BY <2>1, <2>2, Zenon
<1>6. ASSUME NEW q \in HomePods, q \notin crossed' PROVE Kept(q)'
  <2>1. CASE q = p  BY <1>6, <2>1, Zenon
  <2>2. CASE q # p
    <3>1. Kept(q)  BY <1>1, <1>6, Zenon DEF StateIsMarked
    <3> QED BY <1>2, <1>3, <1>4, <2>2, <3>1, KeptFrame, Zenon
  <2> QED BY <2>1, <2>2, Zenon
<1>7. \A d \in Commands : CopyHas(d)'  BY <1>1, Zenon DEF CopyHas, MarksHold
<1>8. \A q \in HomePods : NotYetMarked(q)'
  <2>1. \A q \in HomePods : JobGoesOn(q)  BY <1>1, MovedGoesOn, Zenon
  <2> QED BY <1>1, <2>1, Zenon DEF JobGoesOn, MarksHold, NotYetMarked, Replaced
<1>9. lost' \subseteq crossed'  BY <1>1, Zenon DEF StateIsMarked
<1> QED BY <1>5, <1>6, <1>7, <1>8, <1>9, Zenon DEF MarksHold, StateIsMarked

\* The files of a pod that has not been replaced, and that no copy goes to.
LEMMA StillKept ==
    ASSUME HomeTypeOK, NEW p \in HomePods, NEW x, Moved(p, x), Kept(p), Leased(p)',
           x # "replace", UNCHANGED <<row, container, home, copy>>
    PROVE  CopiesAlone(p)' /\ HasMark(p)'
<1>1. JobGoesOn(p)  BY MovedGoesOn, Zenon
<1>2. \A d \in Commands : ~(Copying(d) /\ copy[d].pod = p)
  BY Zenon DEF Kept, CopiesAlone, Moved
<1>3. CopiesAlone(p)'  BY <1>2, Zenon DEF CopiesAlone, Copying
<1>4. HasMark(p)'  BY <1>1, Zenon DEF JobGoesOn, Kept, HasMark
<1> QED BY <1>3, <1>4, Zenon

\* ReadFlag: a recreation has the mark of the home it is going to save, a fork
\* that of the home it has saved.
LEMMA FlagKeeps ==
    ASSUME HomeInv, NEW p \in HomePods, ReadFlag(p)
    PROVE  HomeInv'
<1> DEFINE s == job[p].source
<1>1. Matches /\ HomeTypeOK /\ IdentitiesApart /\ MarksHold /\ StateIsMarked /\ RowsMatch
      /\ JobMatches(p)
  BY Zenon DEF HomeInv, Matches
<1>2. /\ Matches' /\ Moved(p, "flag")
      /\ row[s] # NoRow /\ row[s][1] = job[p].sourceId
      /\ job'[p].copied = row[s][2] /\ job'[p].snapshot = job[p].snapshot
      /\ UNCHANGED <<row, nextId, container, home, copy, crossed, unreset, lost>>
  BY <1>1, FlagEffect, Zenon
<1>3. /\ Leased(p) /\ IsAt(job[p], "flag") /\ job[p] \in Jobs /\ job'[p] \in Jobs
      /\ job'[p].plan = job[p].plan /\ job'[p].step = job[p].step + 1
      /\ job'[p].source = s /\ job'[p].sourceId = job[p].sourceId
      /\ \A y : Did(job'[p], y) <=> (Did(job[p], y) \/ y = "flag")
  BY <1>2, Zenon DEF Moved
<1>4. /\ s \in HomePods /\ SourceStays(p)
      /\ job[p].plan \in {RecreatePlan, ForkPlan, BlindPlan}
      /\ RecreatePlan # ForkPlan /\ RecreatePlan # BlindPlan /\ ForkPlan # BlindPlan
  BY <1>1, <1>2, <1>3, UnderwayFields, JobPlans, ZenonT(60)
     DEF SourceStays, RowsMatch, RowMatches, Jobs
<1>5. /\ job[p].plan = RecreatePlan =>
           /\ ~Did(job[p], "get_claude") /\ ~Did(job[p], "replace") /\ ~Did(job[p], "put_claude")
      /\ job[p].plan = BlindPlan => ~Did(job[p], "replace")
      /\ job[p].plan = ForkPlan =>
           /\ ~Did(job[p], "flag") /\ Did(job[p], "get_claude") /\ Did(job[p], "put_claude")
  BY <1>3, RecreatePlaces, BlindPlaces, ForkPlaces
<1>6. Leased(p)'
  <2>1. Active(job'[p])
    BY <1>3, <1>4, RecreatePlaces, BlindPlaces, ForkPlaces
  <2> QED BY <2>1, Zenon DEF Leased, Active
<1>7. (Recreated(p)' <=> Recreated(p)) /\ (Forked(p)' <=> Forked(p))
  BY <1>3, <1>6, Zenon DEF Recreated, Forked
<1>8. (Recreated(p) => s = p) /\ (Forked(p) => s # p)
  BY <1>1, <1>3, <1>4, Zenon DEF JobMatches, Recreated, Forked
<1>9. Marked(p)'
  <2>1. Marked(p)  BY <1>1, Zenon DEF MarksHold
  <2>2. MarkIsTrue(p)'  BY <1>2, <2>1, Zenon DEF Marked, MarkIsTrue
  <2>3. RestoresTruly(p)'  BY <1>2, <1>3, <2>1, Zenon DEF Marked, RestoresTruly
  <2> QED BY <2>2, <2>3, Zenon DEF Marked
<1>10. ASSUME p \notin crossed PROVE Kept(p)'
  <2>1. Kept(p)  BY <1>1, <1>10, Zenon DEF StateIsMarked
  <2>2. CopiesAlone(p)' /\ HasMark(p)'  BY <1>1, <1>2, <1>6, <2>1, StillKept, Zenon
  <2>3. RecreateKeepsMark(p)'
    <3> SUFFICES ASSUME Recreated(p) PROVE RecreateKeepsMark(p)'
      BY <1>7, Zenon DEF RecreateKeepsMark
    <3>1. ~Replaced(p) /\ ~Did(job'[p], "get_claude")
      BY <1>3, <1>5, Zenon DEF Replaced, Recreated
    <3>2. \A d \in Commands : ~(Copying(d) /\ copy[d].pod = p)
      BY <1>3, <2>1, Zenon DEF Kept, CopiesAlone
    <3>3. Has(home[p]) => row[p][2]
      BY <1>2, <1>8, <2>1, <3>1, <3>2, Zenon DEF Kept, HasMark, Copying
    <3> QED BY <1>2, <1>8, <3>1, <3>3, Zenon DEF RecreateKeepsMark
  <2>4. ForkKeepsMark(p)'
    <3> SUFFICES ASSUME Forked(p) PROVE ForkKeepsMark(p)'
      BY <1>7, Zenon DEF ForkKeepsMark
    <3>1. Has(job[p].snapshot) => row[s][2]
      BY <1>4, <1>5, <2>1, Zenon DEF Kept, ForkKeepsMark, Forked
    <3>2. Did(job'[p], "flag")  BY <1>3, Zenon
    <3> QED BY <1>2, <3>1, <3>2, Zenon DEF ForkKeepsMark
  <2>5. HomeIsRestored(p)'
    <3>1. Replaced(p)' => Replaced(p)  BY <1>3, <1>6, Zenon DEF Replaced
    <3> QED BY <1>2, <2>1, <3>1, Zenon DEF Kept, HomeIsRestored
  <2> QED BY <2>2, <2>3, <2>4, <2>5, Zenon DEF Kept
<1>11. MarksHold' /\ StateIsMarked'  BY <1>2, <1>9, <1>10, OthersKeep, Zenon
<1>12. IdentitiesApart'
  <2>1. HomeTypeOK' /\ nextId' >= nextId  BY <1>1, <1>2 DEF Matches, HomeTypeOK
  <2>2. \A q \in HomePods : Identity(q)' = Identity(q)  BY <1>2, Zenon DEF Identity
  <2>3. SavedIdentity(p)' = SavedIdentity(p)  BY <1>2, Zenon DEF SavedIdentity
  <2>4. \A q \in HomePods \ {p} : job'[q] = job[q]  BY <1>2, Zenon DEF Moved
  <2> QED BY <1>1, <1>2, <1>3, <1>7, <2>1, <2>2, <2>3, <2>4, ApartKept, ZenonT(60)
<1> QED BY <1>2, <1>11, <1>12, Zenon DEF HomeInv

\* GetWork, GetFiles and GetCodex: what is saved is as the home is, mark and all.
LEMMA GetKeeps ==
    ASSUME HomeInv, NEW p \in HomePods, GetWork(p) \/ GetFiles(p) \/ GetCodex(p)
    PROVE  HomeInv'
<1> DEFINE s == job[p].source
<1>1. Matches /\ HomeTypeOK /\ IdentitiesApart /\ MarksHold /\ StateIsMarked /\ RowsMatch
      /\ JobMatches(p)
  BY Zenon DEF HomeInv, Matches
<1>0. PICK x \in {"get_work", "get_claude", "get_pi", "get_codex"},
           part \in {"claude", "pi", "codex", "work"} :
        /\ Doing(p, x) /\ Get(p, part)
        /\ part = "claude" <=> x = "get_claude"
        /\ part = "codex" <=> x = "get_codex"
  BY Zenon DEF GetWork, GetFiles, GetCodex, Claude, Pi
<1>2. /\ Matches' /\ Moved(p, x) /\ job'[p].copied = job[p].copied
      /\ job[p].snapshot \in Homes /\ job'[p].snapshot \in Homes
      /\ job'[p].snapshot = [job[p].snapshot EXCEPT ![part] = home[s][part]]
      /\ home[s] \in Homes
      /\ UNCHANGED <<row, nextId, container, home, copy, crossed, unreset, lost>>
  BY <1>0, <1>1, GetEffect, Zenon
<1>3. /\ Leased(p) /\ IsAt(job[p], x) /\ job[p] \in Jobs /\ job'[p] \in Jobs
      /\ job'[p].plan = job[p].plan /\ job'[p].step = job[p].step + 1
      /\ job'[p].source = s /\ job'[p].sourceId = job[p].sourceId
      /\ \A y : Did(job'[p], y) <=> (Did(job[p], y) \/ y = x)
  BY <1>2, Zenon DEF Moved
<1>4. /\ job'[p].snapshot.claude = IF x = "get_claude" THEN home[s].claude
                                                       ELSE job[p].snapshot.claude
      /\ job'[p].snapshot.codex = IF x = "get_codex" THEN home[s].codex
                                                     ELSE job[p].snapshot.codex
  <2>1. /\ home[s].claude \in AgentStates /\ home[s].pi \in AgentStates
        /\ home[s].codex \in Codexes /\ home[s].work \in Nat
    BY <1>2, ZenonT(60) DEF Homes
  <2>2. CASE part = "claude"  BY <1>0, <1>2, <2>1, <2>2, HomeParts, SMTT(30)
  <2>3. CASE part = "pi"  BY <1>0, <1>2, <2>1, <2>3, HomeParts, SMTT(30)
  <2>4. CASE part = "codex"  BY <1>0, <1>2, <2>1, <2>4, HomeParts, SMTT(30)
  <2>5. CASE part = "work"  BY <1>0, <1>2, <2>1, <2>5, HomeParts
  <2> QED BY <2>2, <2>3, <2>4, <2>5, Zenon
<1>5. /\ s \in HomePods /\ job[p].plan \in {RecreatePlan, ForkPlan}
      /\ RecreatePlan # ForkPlan
  <2>1. job[p].plan \in {RecreatePlan, ForkPlan, BlindPlan}  BY <1>3, Zenon DEF Jobs
  <2>2. job[p].plan # BlindPlan  BY <1>0, <1>3, BlindPlaces, ZenonT(60)
  <2> QED BY <1>1, <1>3, <2>1, <2>2, UnderwayFields, JobPlans, Zenon
<1>6. /\ ~Did(job[p], "replace") /\ ~Did(job[p], "put_claude")
      /\ job[p].plan = RecreatePlan => Did(job[p], "flag")
      /\ job[p].plan = ForkPlan => ~Did(job[p], "flag")
      /\ (job[p].plan = ForkPlan /\ x = "get_claude") => ~Did(job[p], "get_claude")
  BY <1>0, <1>3, <1>5, RecreatePlaces, ForkPlaces
<1>7. Leased(p)'
  <2>1. Active(job'[p])  BY <1>0, <1>3, <1>5, RecreatePlaces, ForkPlaces, SMTT(30)
  <2> QED BY <2>1, Zenon DEF Leased, Active
<1>8. /\ Recreated(p)' <=> Recreated(p)
      /\ Forked(p)' <=> Forked(p)
      /\ ~Replaced(p) /\ ~Replaced(p)'
      /\ SourceStays(p)' <=> SourceStays(p)
  BY <1>0, <1>2, <1>3, <1>6, <1>7, Zenon DEF Recreated, Forked, Replaced, SourceStays
<1>9. (Recreated(p) => s = p) /\ (Forked(p) => s # p)
  BY <1>1, <1>3, <1>5, Zenon DEF JobMatches, Recreated, Forked
<1>10. Has(job'[p].snapshot) <=> (IF x = "get_claude" THEN Has(home[s]) ELSE Has(job[p].snapshot))
  BY <1>4, Zenon DEF Has
<1>11. Marked(p)'
  <2>1. Marked(p)  BY <1>1, Zenon DEF MarksHold
  <2>2. MarkIsTrue(p)'  BY <1>2, <2>1, Zenon DEF Marked, MarkIsTrue
  <2>3. ~Did(job'[p], "put_claude")  BY <1>0, <1>3, <1>6, Zenon
  <2> QED BY <2>2, <2>3, Zenon DEF Marked, RestoresTruly
<1>12. ASSUME p \notin crossed PROVE Kept(p)'
  <2>1. Kept(p)  BY <1>1, <1>12, Zenon DEF StateIsMarked
  <2>2. CopiesAlone(p)' /\ HasMark(p)'  BY <1>0, <1>1, <1>2, <1>7, <2>1, StillKept, Zenon
  <2>3. RecreateKeepsMark(p)'
    <3> SUFFICES ASSUME Recreated(p) PROVE RecreateKeepsMark(p)'
      BY <1>8, Zenon DEF RecreateKeepsMark
    <3>1. /\ Has(home[p]) => job[p].copied
          /\ (Did(job[p], "get_claude") /\ Has(job[p].snapshot)) => job[p].copied
      BY <1>6, <2>1, Zenon DEF Kept, RecreateKeepsMark, Recreated
    <3>2. (Did(job'[p], "get_claude") /\ Has(job'[p].snapshot)) => job[p].copied
      BY <1>3, <1>9, <1>10, <3>1, Zenon
    <3> QED BY <1>2, <3>1, <3>2, Zenon DEF RecreateKeepsMark
  <2>4. ForkKeepsMark(p)'
    <3> SUFFICES ASSUME Forked(p) PROVE ForkKeepsMark(p)'
      BY <1>8, Zenon DEF ForkKeepsMark
    <3>1. ASSUME SourceStays(p)
          PROVE  /\ NoCopyToSource(p)'
                 /\ Has(home[s]) \/ (Did(job'[p], "get_claude") /\ Has(job'[p].snapshot))
                      => row[s][2]
      <4>1. /\ NoCopyToSource(p)
            /\ Has(home[s]) \/ (Did(job[p], "get_claude") /\ Has(job[p].snapshot)) => row[s][2]
        BY <1>6, <2>1, <3>1, Zenon DEF Kept, ForkKeepsMark, Forked
      <4>2. NoCopyToSource(p)'  BY <1>2, <1>3, <4>1, Zenon DEF NoCopyToSource, Copying
      <4> QED BY <1>3, <1>10, <4>1, <4>2, Zenon
    <3>2. ~Did(job'[p], "flag")  BY <1>0, <1>3, <1>6, Zenon DEF Forked
    <3> QED BY <1>2, <1>3, <1>8, <3>1, <3>2, Zenon DEF ForkKeepsMark
  <2>5. HomeIsRestored(p)'  BY <1>8, Zenon DEF HomeIsRestored
  <2> QED BY <2>2, <2>3, <2>4, <2>5, Zenon DEF Kept
<1>13. MarksHold' /\ StateIsMarked'  BY <1>0, <1>2, <1>11, <1>12, OthersKeep
<1>14. IdentitiesApart'
  <2>1. HomeTypeOK' /\ nextId' >= nextId  BY <1>1, <1>2 DEF Matches, HomeTypeOK
  <2>2. \A q \in HomePods : Identity(q)' = Identity(q)  BY <1>2, Zenon DEF Identity
  <2>3. \/ SavedIdentity(p)' = SavedIdentity(p)
        \/ SavedIdentity(p)' = Identity(s)
    BY <1>4, Zenon DEF SavedIdentity, Identity
  <2>4. \A q \in HomePods \ {p} : job'[q] = job[q]  BY <1>2, Zenon DEF Moved
  <2>5. Recreated(p)' => s = p  BY <1>8, <1>9, Zenon
  <2> HIDE DEF s
  <2> QED BY <1>1, <1>2, <1>3, <1>5, <1>8, <2>1, <2>2, <2>3, <2>4, <2>5, ApartKept, ZenonT(60)
<1> QED BY <1>2, <1>13, <1>14, Zenon DEF HomeInv

\* Replace: the new pod has no mark and no files, and is nobody's source yet.
LEMMA ReplaceKeeps ==
    ASSUME HomeInv, NEW p \in HomePods, Replace(p)
    PROVE  HomeInv'
<1> DEFINE s == job[p].source
<1>1. Matches /\ HomeTypeOK /\ IdentitiesApart /\ MarksHold /\ StateIsMarked /\ RowsMatch
      /\ JobMatches(p) /\ nextId \in Nat
  BY Zenon DEF HomeInv, Matches, HomeTypeOK
<1>2. /\ Matches' /\ Moved(p, "replace")
      /\ row'[p] # NoRow /\ row'[p][2] = FALSE
      /\ container'[p] = nextId /\ home'[p] = FreshHome /\ nextId' = nextId + 1
      /\ \A q \in HomePods \ {p} :
           row'[q] = row[q] /\ container'[q] = container[q] /\ home'[q] = home[q]
      /\ job'[p].copied = job[p].copied /\ job'[p].snapshot = job[p].snapshot
      /\ UNCHANGED <<copy, crossed, unreset, lost>>
  BY <1>1, ReplaceEffect, Zenon
<1>3. /\ Leased(p) /\ IsAt(job[p], "replace") /\ job[p] \in Jobs /\ job'[p] \in Jobs
      /\ job'[p].plan = job[p].plan /\ job'[p].source = s /\ job'[p].sourceId = job[p].sourceId
      /\ \A y : Did(job'[p], y) <=> (Did(job[p], y) \/ y = "replace")
      /\ \A q \in HomePods \ {p} : job'[q] = job[q]
  BY <1>2, Zenon DEF Moved
<1>4. /\ \A d \in Commands : Copying(d) => copy[d].agent \in {Claude, Pi} /\ copy[d].to \in Nat
      /\ \A q \in HomePods : Leased(q) => job[q].source \in HomePods /\ job[q].sourceId \in Nat
  BY <1>1, UnderwayFields, Zenon
<1>5. /\ job[p].plan = RecreatePlan => Did(job[p], "flag")
      /\ job[p].plan = ForkPlan => ~Did(job[p], "flag")
      /\ ~Did(job[p], "put_claude")
  <2>1. job[p].plan \in {RecreatePlan, ForkPlan, BlindPlan}  BY <1>3, Zenon DEF Jobs
  <2>2. RecreatePlan # ForkPlan /\ RecreatePlan # BlindPlan /\ ForkPlan # BlindPlan
    BY <1>1, <1>3, JobPlans, Zenon
  <2>3. CASE job[p].plan = RecreatePlan  BY <1>3, <2>2, <2>3, RecreatePlaces
  <2>4. CASE job[p].plan = ForkPlan  BY <1>3, <2>2, <2>4, ForkPlaces
  <2>5. CASE job[p].plan = BlindPlan  BY <1>3, <2>2, <2>5, BlindPlaces
  <2> QED BY <2>1, <2>3, <2>4, <2>5, Zenon
<1>6. /\ Recreated(p)' => Recreated(p)
      /\ Forked(p)' => Forked(p) /\ s # p
      /\ Did(job'[p], "replace") /\ ~Has(FreshHome)
  <2>1. Leased(p)' => Leased(p)  BY <1>3, Zenon
  <2> QED BY <1>1, <1>3, <2>1, FreshTypes, Zenon DEF Recreated, Forked, JobMatches
<1>7. ASSUME NEW q \in HomePods, q # p PROVE SourceAsKept(q)
  <2> SUFFICES ASSUME Forked(q), container'[job[q].source] = job[q].sourceId
               PROVE  job[q].source # p /\ job[q].source \in HomePods
    BY <1>2, Zenon DEF SourceAsKept, SourceStays, Copying
  <2>1. Leased(q) /\ JobMatches(q)  BY <1>1, Zenon DEF Forked, Matches
  <2>2. job[q].sourceId < nextId /\ job[q].sourceId \in Nat  BY <1>4, <2>1, Zenon DEF JobMatches
  <2> QED BY <1>1, <1>2, <1>4, <2>1, <2>2, SMTT(30)
<1>8. MarksHold'
  <2>1. ASSUME NEW q \in HomePods, q # p PROVE Marked(q)'
    <3>1. Marked(q)  BY <1>1, Zenon DEF MarksHold
    <3> QED BY <1>2, <1>3, <2>1, <3>1, MarksFrame, Zenon
  <2>2. Marked(p)'
    <3>1. MarkIsTrue(p)'  BY <1>2, Zenon DEF MarkIsTrue
    <3>2. ~Did(job'[p], "put_claude")  BY <1>3, <1>5, Zenon
    <3> QED BY <3>1, <3>2, Zenon DEF Marked, RestoresTruly
  <2>3. ASSUME NEW d \in Commands PROVE CopyHas(d)'
    <3> SUFFICES ASSUME NEW q \in HomePods, copy[d].at = "mark", container'[q] = copy[d].to
                 PROVE  Has(home'[q])
      BY <1>2, Zenon DEF CopyHas
    <3>1. CopyHas(d) /\ copy[d].to < nextId /\ copy[d].to \in Nat
      BY <1>1, <1>4, Zenon DEF MarksHold, Matches, CopyMatches, Copying
    <3>2. q # p  BY <1>1, <1>2, <3>1
    <3> QED BY <1>2, <3>1, <3>2, Zenon DEF CopyHas
  <2>4. \A q \in HomePods : NotYetMarked(q)'
    <3>1. NotYetMarked(p)'  BY <1>2, Zenon DEF NotYetMarked
    <3> QED BY <1>1, <1>2, <1>3, <3>1, SameJob, Zenon DEF MarksHold, NotYetMarked
  <2> QED BY <2>1, <2>2, <2>3, <2>4, Zenon DEF MarksHold
<1>9. StateIsMarked'
  <2>1. ASSUME NEW q \in HomePods, q \notin crossed', q # p PROVE Kept(q)'
    <3>1. Kept(q)  BY <1>1, <1>2, <2>1, Zenon DEF StateIsMarked
    <3> QED BY <1>2, <1>3, <1>4, <1>7, <2>1, <3>1, KeptFrame, Zenon
  <2>2. ASSUME p \notin crossed' PROVE Kept(p)'
    <3>1. Kept(p)  BY <1>1, <1>2, <2>2, Zenon DEF StateIsMarked
    <3>2. \A d \in Commands : ~(Copying(d) /\ copy[d].pod = p)
      BY <1>3, <3>1, Zenon DEF Kept, CopiesAlone
    <3>3. CopiesAlone(p)'  BY <1>2, <3>2, Zenon DEF CopiesAlone, Copying
    <3>4. HasMark(p)' /\ HomeIsRestored(p)'  BY <1>2, <1>6, Zenon DEF HasMark, HomeIsRestored
    <3>5. RecreateKeepsMark(p)'
      <4> SUFFICES ASSUME Recreated(p) PROVE RecreateKeepsMark(p)'
        BY <1>6, Zenon DEF RecreateKeepsMark
      <4>1. (Did(job[p], "get_claude") /\ Has(job[p].snapshot)) => job[p].copied
        BY <1>5, <3>1, ZenonT(60) DEF Kept, RecreateKeepsMark, Recreated
      <4> QED BY <1>2, <1>3, <1>6, <4>1, Zenon DEF RecreateKeepsMark
    <3>6. ForkKeepsMark(p)'
      <4> SUFFICES ASSUME Forked(p), s # p PROVE ForkKeepsMark(p)'
        BY <1>6, Zenon DEF ForkKeepsMark
      <4>1. s \in HomePods  BY <1>3, <1>4, Zenon
      <4>2. /\ row'[s] = row[s] /\ container'[s] = container[s] /\ home'[s] = home[s]
        BY <1>2, <4>1, Zenon
      <4>3. (SourceStays(p)' <=> SourceStays(p)) /\ (NoCopyToSource(p)' <=> NoCopyToSource(p))
        BY <1>2, <1>3, <4>2, Zenon DEF SourceStays, NoCopyToSource, Copying
      <4>4. ForkKeepsMark(p)  BY <3>1, Zenon DEF Kept
      <4>5. ~Did(job'[p], "flag") /\ ~Did(job[p], "flag")
            /\ (Did(job'[p], "get_claude") <=> Did(job[p], "get_claude"))
        BY <1>3, <1>5, ZenonT(60) DEF Forked
      <4> QED BY <1>2, <1>3, <4>2, <4>3, <4>4, <4>5 DEF ForkKeepsMark
    <3> QED BY <3>3, <3>4, <3>5, <3>6, Zenon DEF Kept
  <2>3. lost' \subseteq crossed'  BY <1>1, <1>2, SMTT(30) DEF StateIsMarked
  <2> QED BY <2>1, <2>2, <2>3, Zenon DEF StateIsMarked
<1>10. IdentitiesApart'
  <2>1. HomeTypeOK' /\ nextId' >= nextId  BY <1>1, <1>2, SMTT(30) DEF Matches
  <2>2. \A q \in HomePods \ {p} : Identity(q)' = Identity(q)  BY <1>2, Zenon DEF Identity
  <2>3. Identity(p)' = NoId  BY <1>2, SMTT(30) DEF Identity, FreshHome, NoCodex
  <2>4. SavedIdentity(p)' = SavedIdentity(p)  BY <1>2, Zenon DEF SavedIdentity
  <2> QED BY <1>1, <1>2, <1>3, <1>6, <2>1, <2>2, <2>3, <2>4, ApartKept, ZenonT(60)
<1> QED BY <1>2, <1>8, <1>9, <1>10, Zenon DEF HomeInv

\* A pod that has been replaced and is being restored: no copy goes to it, and
\* a fork that started from it before is counted among the crossed.
LEMMA BeingRestored ==
    ASSUME HomeInv, NEW p \in HomePods, Replaced(p)
    PROVE  /\ \A d \in Commands : Copying(d) => container[p] # copy[d].to
           /\ p \notin crossed => \A d \in Commands : ~(Copying(d) /\ copy[d].pod = p)
           /\ \A q \in HomePods : (Forked(q) /\ job[q].source = p /\ SourceStays(q))
                => q \in crossed
<1>1. \A d \in Commands : Copying(d) => container[p] # copy[d].to
  BY Zenon DEF HomeInv, Matches, CopyMatches
<1>2. p \notin crossed => \A d \in Commands : ~(Copying(d) /\ copy[d].pod = p)
  BY Zenon DEF HomeInv, StateIsMarked, Kept, CopiesAlone, Replaced
<1>3. ASSUME NEW q \in HomePods, Forked(q), job[q].source = p, SourceStays(q)
      PROVE  q \in crossed
  BY <1>3, Zenon DEF HomeInv, Matches, JobMatches, Forked
<1> QED BY <1>1, <1>2, <1>3, Zenon

\* PutWork and PutAgent: what was saved is restored, and a fork gets no identity.
LEMMA PutKeeps ==
    ASSUME HomeInv, NEW p \in HomePods, PutWork(p) \/ PutAgent(p)
    PROVE  HomeInv'
<1> DEFINE s == job[p].source
           n == job[p].snapshot
<1>1. Matches /\ HomeTypeOK /\ IdentitiesApart /\ MarksHold /\ StateIsMarked /\ RowsMatch
      /\ JobMatches(p) /\ home \in [HomePods -> Homes] /\ home[p] \in Homes
  BY Zenon DEF HomeInv, Matches, HomeTypeOK
<1>a. PICK x \in {"put_work", "put_claude", "put_pi", "put_codex"} :
        /\ Doing(p, x) /\ Advance(p)
        /\ UNCHANGED <<row, nextId, container, copy, crossed, unreset, lost>>
        /\ x = "put_work" => home' = [home EXCEPT ![p]["work"] = n.work]
        /\ x = "put_claude" => home' = [home EXCEPT ![p]["claude"] = n.claude]
        /\ x = "put_pi" => home' = [home EXCEPT ![p]["pi"] = n.pi]
        /\ x = "put_codex" => home' = [home EXCEPT ![p]["codex"] = Restored(n.codex, s, p)]
  BY Zenon DEF PutWork, PutAgent, Put, Claude, Pi
<1>b. Leased(p) /\ n \in Homes
  BY <1>1, <1>a, UnderwayFields, Zenon DEF Doing
<1>c. /\ n.claude \in AgentStates /\ n.pi \in AgentStates /\ n.work \in Nat
      /\ Restored(n.codex, s, p) \in Codexes
      /\ Restored(n.codex, s, p).id = IF s = p THEN n.codex.id ELSE NoId
  BY <1>b, RestoredTypes DEF Homes
<1>d. PICK h \in Homes :
        /\ home' = [home EXCEPT ![p] = h]
        /\ h.claude = IF x = "put_claude" THEN n.claude ELSE home[p].claude
        /\ h.codex = IF x = "put_codex" THEN Restored(n.codex, s, p) ELSE home[p].codex
  <2>1. CASE x = "put_work"
    <3> DEFINE g == [home[p] EXCEPT !["work"] = n.work]
    <3>1. home' = [home EXCEPT ![p] = g]  BY <1>1, <1>a, <2>1, ZenonT(60)
    <3>2. g \in Homes /\ g.claude = home[p].claude /\ g.codex = home[p].codex
      BY <1>1, <1>c, HomeParts
    <3> HIDE DEF g
    <3> QED BY <2>1, <3>1, <3>2, Zenon
  <2>2. CASE x = "put_claude"
    <3> DEFINE g == [home[p] EXCEPT !["claude"] = n.claude]
    <3>1. home' = [home EXCEPT ![p] = g]  BY <1>1, <1>a, <2>2, ZenonT(60)
    <3>2. g \in Homes /\ g.claude = n.claude /\ g.codex = home[p].codex
      BY <1>1, <1>c, HomeParts
    <3> HIDE DEF g
    <3> QED BY <2>2, <3>1, <3>2, Zenon
  <2>3. CASE x = "put_pi"
    <3> DEFINE g == [home[p] EXCEPT !["pi"] = n.pi]
    <3>1. home' = [home EXCEPT ![p] = g]  BY <1>1, <1>a, <2>3, ZenonT(60)
    <3>2. g \in Homes /\ g.claude = home[p].claude /\ g.codex = home[p].codex
      BY <1>1, <1>c, HomeParts
    <3> HIDE DEF g
    <3> QED BY <2>3, <3>1, <3>2, Zenon
  <2>4. CASE x = "put_codex"
    <3> DEFINE g == [home[p] EXCEPT !["codex"] = Restored(n.codex, s, p)]
    <3>1. home' = [home EXCEPT ![p] = g]  BY <1>1, <1>a, <2>4, ZenonT(60)
    <3>2. g \in Homes /\ g.claude = home[p].claude /\ g.codex = Restored(n.codex, s, p)
      BY <1>1, <1>c, HomeParts
    <3> HIDE DEF g
    <3> QED BY <2>4, <3>1, <3>2, Zenon
  <2> QED BY <2>1, <2>2, <2>3, <2>4, Zenon
<1>2. /\ Matches' /\ Moved(p, x) /\ home'[p] = h
      /\ \A q \in HomePods \ {p} : home'[q] = home[q]
      /\ job'[p].copied = job[p].copied /\ job'[p].snapshot = n
  <2>1. x # "replace"  BY Zenon
  <2> QED BY <1>1, <1>a, <1>d, <2>1, PutEffect, Zenon
<1>3. /\ IsAt(job[p], x) /\ job[p] \in Jobs /\ job'[p] \in Jobs
      /\ job'[p].plan = job[p].plan /\ job'[p].step = job[p].step + 1
      /\ job'[p].source = s /\ job'[p].sourceId = job[p].sourceId
      /\ \A y : Did(job'[p], y) <=> (Did(job[p], y) \/ y = x)
      /\ \A q \in HomePods \ {p} : job'[q] = job[q]
  BY <1>2, Zenon DEF Moved
<1>4. /\ \A d \in Commands : Copying(d) => copy[d].agent \in {Claude, Pi}
      /\ \A q \in HomePods : Leased(q) => job[q].source \in HomePods
  BY <1>1, UnderwayFields, Zenon
<1>5. job[p].plan \in {RecreatePlan, ForkPlan} /\ RecreatePlan # ForkPlan
  <2>1. job[p].plan \in {RecreatePlan, ForkPlan, BlindPlan}  BY <1>3, Zenon DEF Jobs
  <2>2. job[p].plan # BlindPlan  BY <1>3, BlindPlaces, SMTT(30)
  <2> QED BY <1>1, <1>b, <2>1, <2>2, JobPlans, Zenon
<1>6. /\ Did(job[p], "replace")
      /\ job[p].plan = RecreatePlan => Did(job[p], "flag") /\ Did(job[p], "get_claude")
      /\ job[p].plan = ForkPlan => ~Did(job[p], "flag") /\ Did(job[p], "get_claude")
  BY <1>3, <1>5, RecreatePlaces, ForkPlaces, SMTT(30)
<1>7. Leased(p)'
  <2>1. Active(job'[p])  BY <1>3, <1>5, RecreatePlaces, ForkPlaces, SMTT(30)
  <2> QED BY <2>1, ZenonT(60) DEF Leased, Active
<1>8. /\ Recreated(p)' <=> Recreated(p)
      /\ Forked(p)' <=> Forked(p)
      /\ Replaced(p) /\ Replaced(p)'
  BY <1>b, <1>3, <1>6, <1>7, Zenon DEF Recreated, Forked, Replaced
<1>9. (Recreated(p) <=> s = p) /\ (Forked(p) <=> s # p)
  BY <1>1, <1>b, <1>5, Zenon DEF JobMatches, Recreated, Forked
<1>10. Has(home'[p]) <=> (IF x = "put_claude" THEN Has(n) ELSE Has(home[p]))
  BY <1>d, <1>2, Zenon DEF Has
<1>11. /\ \A d \in Commands : Copying(d) => container[p] # copy[d].to
       /\ p \notin crossed => \A d \in Commands : ~(Copying(d) /\ copy[d].pod = p)
       /\ \A q \in HomePods : (Forked(q) /\ job[q].source = p /\ SourceStays(q))
            => q \in crossed
  BY <1>8, BeingRestored, Zenon
<1>12. ASSUME NEW q \in HomePods, q # p, q \notin crossed PROVE SourceAsKept(q)
  <2> SUFFICES ASSUME Forked(q), SourceStays(q)
               PROVE  job[q].source # p /\ job[q].source \in HomePods
    BY <1>a, <1>2, Zenon DEF SourceAsKept, SourceStays, Copying
  <2> QED BY <1>4, <1>11, <1>12, Zenon DEF Forked
\* A fork's source is another pod, and as it was.
<1>13. s # p =>
         /\ home'[s] = home[s]
         /\ SourceStays(p)' <=> SourceStays(p)
         /\ NoCopyToSource(p)' <=> NoCopyToSource(p)
  BY <1>a, <1>b, <1>2, <1>3, <1>4, Zenon DEF SourceStays, NoCopyToSource, Copying
<1>14. MarksHold'
  <2>1. ASSUME NEW q \in HomePods, q # p PROVE Marked(q)'
    <3>1. Marked(q)  BY <1>1, Zenon DEF MarksHold
    <3> QED BY <1>a, <1>2, <1>3, <2>1, <3>1, MarksFrame, Zenon
  <2>2. Marked(p)'
    <3>1. Marked(p)  BY <1>1, Zenon DEF MarksHold
    <3>2. MarkIsTrue(p)'
      <4>1. ~row[p][2]  BY <1>1, <1>8, Zenon DEF MarksHold, NotYetMarked
      <4> QED BY <1>a, <4>1, Zenon DEF MarkIsTrue
    <3>3. RestoresTruly(p)'
      BY <1>b, <1>2, <1>3, <1>10, <3>1, Zenon DEF Marked, RestoresTruly
    <3> QED BY <3>2, <3>3, Zenon DEF Marked
  <2>3. ASSUME NEW d \in Commands PROVE CopyHas(d)'
    <3> SUFFICES ASSUME NEW q \in HomePods, copy[d].at = "mark", container[q] = copy[d].to
                 PROVE  Has(home'[q])
      BY <1>a, Zenon DEF CopyHas
    <3>1. CopyHas(d) /\ q # p  BY <1>1, <1>11, Zenon DEF MarksHold, Copying
    <3> QED BY <1>2, <3>1, Zenon DEF CopyHas
  <2>4. \A q \in HomePods : NotYetMarked(q)'
    <3>1. NotYetMarked(p)'  BY <1>1, <1>a, <1>8, Zenon DEF NotYetMarked, MarksHold
    <3> QED BY <1>1, <1>a, <1>3, <3>1, SameJob, Zenon DEF MarksHold, NotYetMarked
  <2> QED BY <2>1, <2>2, <2>3, <2>4, Zenon DEF MarksHold
<1>15. StateIsMarked'
  <2>1. ASSUME NEW q \in HomePods, q \notin crossed', q # p PROVE Kept(q)'
    <3>1. Kept(q)  BY <1>1, <1>a, <2>1, Zenon DEF StateIsMarked
    <3>2. SourceAsKept(q)  BY <1>a, <1>12, <2>1, Zenon
    <3> QED BY <1>a, <1>2, <1>3, <1>4, <2>1, <3>1, <3>2, KeptFrame, Zenon
  <2>2. ASSUME p \notin crossed' PROVE Kept(p)'
    <3>1. Kept(p)  BY <1>1, <1>a, <2>2, Zenon DEF StateIsMarked
    <3>2. CopiesAlone(p)'  BY <1>a, <1>11, <2>2, Zenon DEF CopiesAlone, Copying
    <3>3. HasMark(p)'  BY <1>8, Zenon DEF HasMark
    <3>4. HomeIsRestored(p)'  BY <1>2, <1>8, <1>10, <3>1, Zenon DEF Kept, HomeIsRestored
    <3>5. RecreateKeepsMark(p)'
      <4> SUFFICES ASSUME Recreated(p) PROVE RecreateKeepsMark(p)'
        BY <1>8, Zenon DEF RecreateKeepsMark
      <4>1. Has(n) => job[p].copied
        BY <1>6, <3>1, Zenon DEF Kept, RecreateKeepsMark, Recreated
      <4>2. Did(job'[p], "replace")  BY <1>3, <1>6, Zenon
      <4> QED BY <1>2, <4>1, <4>2, Zenon DEF RecreateKeepsMark
    <3>6. ForkKeepsMark(p)'
      <4> SUFFICES ASSUME Forked(p) PROVE ForkKeepsMark(p)'
        BY <1>8, Zenon DEF ForkKeepsMark
      <4>1. ForkKeepsMark(p)  BY <3>1, Zenon DEF Kept
      <4>2. /\ ~Did(job'[p], "flag") /\ Did(job'[p], "get_claude")
            /\ ~Did(job[p], "flag") /\ Did(job[p], "get_claude")
        BY <1>3, <1>6, Zenon DEF Forked
      <4>3. SourceStays(p)' =>
              /\ NoCopyToSource(p)'
              /\ Has(home'[s]) \/ Has(n) => row'[s][2]
        BY <1>a, <1>9, <1>13, <4>1, <4>2, Zenon DEF ForkKeepsMark
      <4> QED BY <1>2, <1>3, <4>2, <4>3, Zenon DEF ForkKeepsMark
    <3> QED BY <3>2, <3>3, <3>4, <3>5, <3>6, Zenon DEF Kept
  <2>3. lost' \subseteq crossed'  BY <1>1, <1>a, ZenonT(60) DEF StateIsMarked
  <2> QED BY <2>1, <2>2, <2>3 DEF StateIsMarked
<1>16. IdentitiesApart'
  <2>1. HomeTypeOK' /\ nextId' >= nextId  BY <1>1, <1>a, <1>2 DEF Matches, HomeTypeOK
  <2>2. \A q \in HomePods \ {p} : Identity(q)' = Identity(q)  BY <1>2, Zenon DEF Identity
  <2>3. \/ Identity(p)' \in {Identity(p), NoId}
        \/ Identity(p)' = SavedIdentity(p) /\ Recreated(p)
    BY <1>c, <1>d, <1>2, <1>9, Zenon DEF Identity, SavedIdentity
  <2>4. SavedIdentity(p)' = SavedIdentity(p)  BY <1>2, Zenon DEF SavedIdentity
  <2>5. unreset \subseteq unreset'  BY <1>a, Zenon
  <2>6. \/ Identity(p)' \in {Identity(p), NoId}
        \/ /\ Identity(p)' = SavedIdentity(p) /\ Leased(p)
           /\ Recreated(p) \/ p \in unreset'
    BY <1>b, <2>3, Zenon
  <2>7. Leased(p) /\ (Recreated(p)' => Recreated(p))  BY <1>b, <1>8, Zenon
  <2>8. \A q \in HomePods \ {p} : job'[q] = job[q] /\ Identity(q)' = Identity(q)
    BY <1>3, <2>2, Zenon
  <2> QED BY <1>1, <2>1, <2>4, <2>5, <2>6, <2>7, <2>8, ApartKept, ZenonT(60)
<1> QED BY <1>2, <1>14, <1>15, <1>16, Zenon DEF HomeInv

\* MarkRestored: the mark comes to a home that has the files, and to one that
\* has them it comes.
LEMMA MarkKeeps ==
    ASSUME HomeInv, NEW p \in HomePods, MarkRestored(p)
    PROVE  HomeInv'
<1>1. Matches /\ HomeTypeOK /\ IdentitiesApart /\ MarksHold /\ StateIsMarked /\ RowsMatch
      /\ JobMatches(p)
  BY Zenon DEF HomeInv, Matches
<1>2. /\ Matches' /\ Moved(p, "mark")
      /\ \A q \in HomePods \ {p} : row'[q] = row[q]
      /\ (row[p] # NoRow /\ row'[p] # NoRow)
           => (row'[p][2] <=> (row[p][2] \/ (job[p].copied /\ Has(job[p].snapshot))))
      /\ row'[p] = NoRow <=> row[p] = NoRow
      /\ UNCHANGED <<nextId, container, home, copy, crossed, unreset, lost>>
  BY <1>1, MarkEffect, Zenon
<1>3. /\ Leased(p) /\ IsAt(job[p], "mark") /\ job[p] \in Jobs /\ job'[p] \in Jobs
      /\ job'[p].plan = job[p].plan /\ job'[p].step = job[p].step + 1
      /\ \A q \in HomePods \ {p} : job'[q] = job[q]
  BY <1>2, Zenon DEF Moved
<1>4. /\ \A d \in Commands : Copying(d) => copy[d].agent \in {Claude, Pi}
      /\ \A q \in HomePods : Leased(q) => job[q].source \in HomePods
  BY <1>1, UnderwayFields, Zenon
<1>5. job[p].plan \in {RecreatePlan, ForkPlan}
  <2>1. job[p].plan \in {RecreatePlan, ForkPlan, BlindPlan}  BY <1>3, ZenonT(60) DEF Jobs
  <2>2. job[p].plan # BlindPlan  BY <1>3, BlindPlaces, SMTT(30)
  <2> QED BY <2>1, <2>2, Zenon
<1>6. /\ Did(job[p], "flag") /\ Did(job[p], "get_claude") /\ Did(job[p], "replace")
      /\ Did(job[p], "put_claude") /\ ~Active(job'[p])
  BY <1>3, <1>5, RecreatePlaces, ForkPlaces, SMTT(30)
<1>7. /\ ~Leased(p)' /\ ~Recreated(p)' /\ ~Forked(p)' /\ ~Replaced(p)' /\ Replaced(p)
      /\ Recreated(p) \/ Forked(p)
  BY <1>3, <1>5, <1>6, Zenon DEF Leased, Active, Recreated, Forked, Replaced
<1>8. /\ p \notin crossed => \A d \in Commands : ~(Copying(d) /\ copy[d].pod = p)
      /\ \A q \in HomePods : (Forked(q) /\ job[q].source = p /\ SourceStays(q))
           => q \in crossed
  BY <1>7, BeingRestored, Zenon
<1>9. /\ row[p] # NoRow /\ row'[p] # NoRow /\ ~row[p][2]
      /\ row'[p][2] <=> (job[p].copied /\ Has(job[p].snapshot))
  BY <1>1, <1>2, <1>3, <1>7, Zenon DEF JobMatches, MarksHold, NotYetMarked
<1>10. MarksHold'
  <2>1. ASSUME NEW q \in HomePods, q # p PROVE Marked(q)'
    <3>1. Marked(q)  BY <1>1, Zenon DEF MarksHold
    <3> QED BY <1>2, <1>3, <2>1, <3>1, MarksFrame, Zenon
  <2>2. Marked(p)'
    <3>1. RestoresTruly(p)  BY <1>1, Zenon DEF MarksHold, Marked
    <3>2. Has(job[p].snapshot) => Has(home[p])  BY <1>3, <1>6, <3>1, Zenon DEF RestoresTruly
    <3>3. MarkIsTrue(p)'  BY <1>2, <1>9, <3>2, Zenon DEF MarkIsTrue
    <3> QED BY <1>7, <3>3, Zenon DEF Marked, RestoresTruly
  <2>3. \A d \in Commands : CopyHas(d)'  BY <1>1, <1>2 DEF CopyHas, MarksHold
  <2>4. \A q \in HomePods : NotYetMarked(q)'
    BY <1>1, <1>2, <1>3, <1>7, SameJob, ZenonT(60) DEF MarksHold, NotYetMarked
  <2> QED BY <2>1, <2>2, <2>3, <2>4, Zenon DEF MarksHold
<1>11. StateIsMarked'
  <2>1. ASSUME NEW q \in HomePods, q \notin crossed', q # p PROVE Kept(q)'
    <3>1. Kept(q)  BY <1>1, <1>2, <2>1, Zenon DEF StateIsMarked
    <3>2. SourceAsKept(q)
      <4> SUFFICES ASSUME Forked(q) PROVE row[job[q].source][2] => row'[job[q].source][2]
        BY <1>2, Zenon DEF SourceAsKept, SourceStays, Copying
      <4>1. job[q].source \in HomePods  BY <1>4, Zenon DEF Forked
      <4> QED BY <1>2, <1>9, <4>1, Zenon
    <3> QED BY <1>2, <1>3, <1>4, <2>1, <3>1, <3>2, KeptFrame, ZenonT(60)
  <2>2. ASSUME p \notin crossed' PROVE Kept(p)'
    <3>1. Kept(p)  BY <1>1, <1>2, <2>2, Zenon DEF StateIsMarked
    <3>2. CopiesAlone(p)'  BY <1>2, <1>8, <2>2, Zenon DEF CopiesAlone, Copying
    <3>3. Has(home[p]) => job[p].copied /\ Has(job[p].snapshot)
      <4>1. Has(home[p]) => Has(job[p].snapshot)
        BY <1>7, <3>1, Zenon DEF Kept, HomeIsRestored
      <4>2. (Recreated(p) /\ Has(job[p].snapshot)) => job[p].copied
        BY <1>6, <3>1, Zenon DEF Kept, RecreateKeepsMark
      <4>3. (Forked(p) /\ Has(job[p].snapshot)) => job[p].copied
        BY <1>6, <3>1, Zenon DEF Kept, ForkKeepsMark
      <4> QED BY <1>7, <4>1, <4>2, <4>3, SMTT(30)
    <3>4. HasMark(p)'  BY <1>2, <1>9, <3>3 DEF HasMark
    <3> QED BY <1>7, <3>2, <3>4, Zenon DEF Kept, RecreateKeepsMark, ForkKeepsMark, HomeIsRestored
  <2>3. lost' \subseteq crossed'  BY <1>1, <1>2, ZenonT(60) DEF StateIsMarked
  <2> QED BY <2>1, <2>2, <2>3, Zenon DEF StateIsMarked
<1>12. IdentitiesApart'
  <2>1. HomeTypeOK' /\ nextId' >= nextId  BY <1>1, <1>2 DEF Matches, HomeTypeOK
  <2>2. \A q \in HomePods : Identity(q)' = Identity(q)  BY <1>2, Zenon DEF Identity
  <2>3. unreset \subseteq unreset'  BY <1>2, Zenon
  <2>4. Identity(p)' \in {Identity(p), NoId}  BY <2>2, Zenon
  <2>5. \A q \in HomePods \ {p} : job'[q] = job[q] /\ Identity(q)' = Identity(q)
    BY <1>3, <2>2, Zenon
  <2>6. ~Leased(p)'  BY <1>7, Zenon
  <2> QED BY <1>1, <2>1, <2>3, <2>4, <2>5, <2>6, ApartKept, ZenonT(60)
<1> QED BY <1>2, <1>10, <1>11, <1>12, Zenon DEF HomeInv

-----------------------------------------------------------------------------
(* HomesAreOwn                                                               *)

\* There is one pod, nothing has been copied and no job is under way.
LEMMA HomeInitially == HomeInit => HomeInv
<1> SUFFICES ASSUME HomeInit PROVE HomeInv
  BY Zenon
<1> DEFINE p == CHOOSE q \in HomePods : TRUE
<1>1. /\ nextId = 2
      /\ row = [q \in HomePods |-> IF q = p THEN <<1, FALSE>> ELSE NoRow]
      /\ container = [q \in HomePods |-> IF q = p THEN 1 ELSE 0]
      /\ home = [q \in HomePods |-> FreshHome]
      /\ copy = [c \in Commands |-> NoCopy] /\ job = [q \in HomePods |-> NoTransfer]
      /\ lost = {}
  BY Zenon DEF HomeInit
<1> HIDE DEF p
<1>2. HomeTypeOK
  <2>1. <<1, FALSE>> \in Nat \X BOOLEAN  BY Zenon
  <2>2. row \in [HomePods -> (Nat \X BOOLEAN) \union {NoRow}]  BY <1>1, <2>1, Zenon
  <2>3. nextId \in Nat /\ container \in [HomePods -> Nat]  BY <1>1, Zenon
  <2>4. home \in [HomePods -> Homes]  BY <1>1, FreshTypes, Zenon
  <2> QED BY <1>1, <2>2, <2>3, <2>4, Zenon DEF HomeTypeOK
<1>3. \A q \in HomePods : ~Leased(q) /\ ~Recreated(q) /\ ~Forked(q) /\ ~Replaced(q)
  <2>1. \A q \in HomePods : job[q] = NoTransfer  BY <1>1, Zenon
  <2>2. ~Active(NoTransfer)  BY DEF NoTransfer, Active
  <2>3. \A q \in HomePods : ~Leased(q)  BY <2>1, <2>2, Zenon DEF Leased, Active
  <2> QED BY <2>3, Zenon DEF Recreated, Forked, Replaced
<1>4. \A c \in Commands : ~Copying(c)  BY <1>1, Zenon DEF Copying, NoCopy
<1>5. RowsMatch
  <2>1. <<1, FALSE>> # NoRow /\ <<1, FALSE>>[1] = 1  BY Zenon DEF NoRow
  <2>2. \A q \in HomePods : /\ q = p => row[q] = <<1, FALSE>> /\ container[q] = 1
                            /\ q # p => row[q] = NoRow /\ container[q] = 0
    BY <1>1, Zenon
  <2>3. \A q \in HomePods : RowMatches(q)
    <3> SUFFICES ASSUME NEW q \in HomePods PROVE RowMatches(q)
      BY Zenon
    <3>1. CASE q = p
      <4>1. row[q] # NoRow /\ row[q][1] = 1 /\ container[q] = 1 /\ nextId = 2
        BY <1>1, <2>1, <2>2, <3>1, Zenon
      <4> QED BY <4>1 DEF RowMatches
    <3>2. CASE q # p  BY <1>1, <2>2, <3>2 DEF RowMatches
    <3> QED BY <3>1, <3>2, Zenon
  <2>4. \A q, r \in HomePods : container[q] = container[r] /\ container[q] # 0 => q = r
    BY <2>2, Zenon
  <2> QED BY <2>3, <2>4, Zenon DEF RowsMatch
<1>6. Matches  BY <1>2, <1>3, <1>4, <1>5, Zenon DEF Matches, CopyMatches, JobMatches
<1>7. \A q \in HomePods : ~Has(home[q]) /\ Identity(q) = NoId
  BY <1>1, FreshTypes, Zenon DEF Identity, FreshHome, NoCodex
<1>8. IdentitiesApart  BY <1>1, <1>3, <1>7 DEF IdentitiesApart, NoId
<1>9. MarksHold
  <2>1. \A q \in HomePods : ~(row[q] # NoRow /\ row[q][2])
    <3>1. <<1, FALSE>>[2] = FALSE  BY Zenon
    <3> QED BY <1>1, <3>1, Zenon
  <2>2. \A c \in Commands : CopyHas(c)  BY <1>4, ZenonT(60) DEF CopyHas, Copying
  <2> QED BY <1>3, <2>1, <2>2, Zenon DEF MarksHold, Marked, MarkIsTrue, RestoresTruly,
                                         NotYetMarked
<1>10. StateIsMarked
  <2>1. \A q \in HomePods : CopiesAlone(q)  BY <1>4, Zenon DEF CopiesAlone
  <2>2. \A q \in HomePods : HasMark(q)  BY <1>7, Zenon DEF HasMark
  <2>3. \A q \in HomePods : RecreateKeepsMark(q) /\ ForkKeepsMark(q) /\ HomeIsRestored(q)
    BY <1>3, Zenon DEF RecreateKeepsMark, ForkKeepsMark, HomeIsRestored
  <2>4. lost \subseteq crossed  BY <1>1, Zenon
  <2> QED BY <2>1, <2>2, <2>3, <2>4, Zenon DEF StateIsMarked, Kept
<1> QED BY <1>6, <1>8, <1>9, <1>10, Zenon DEF HomeInv

\* Every step of a command, of the agents or of a job keeps it so.
LEMMA HomeStep == HomeInv /\ [HomeNext]_homeVars => HomeInv'
<1> SUFFICES ASSUME HomeInv, [HomeNext]_homeVars PROVE HomeInv'
  BY Zenon
<1>1. ASSUME NEW c \in Commands, NEW p \in HomePods, NEW agent \in {Claude, Pi},
             CopyChecks(c, p, agent)
      PROVE  HomeInv'
  BY <1>1, CheckKeeps, Zenon
<1>2. ASSUME NEW c \in Commands, CopyPuts(c) PROVE HomeInv'  BY <1>2, PutsKeeps, Zenon
<1>3. ASSUME NEW c \in Commands, CopyMarks(c) PROVE HomeInv'  BY <1>3, MarksKeeps, Zenon
<1>10. ASSUME NEW c \in Commands, CopyFails(c) PROVE HomeInv'  BY <1>10, FailsKeeps, Zenon
<1>4. ASSUME NEW p \in HomePods, NEW hostHasLogin \in BOOLEAN, CodexAttaches(p, hostHasLogin)
      PROVE  HomeInv'
  BY <1>4, AttachKeeps, Zenon
<1>5. ASSUME NEW p \in HomePods,
             EditFile(p, Claude) \/ EditFile(p, Pi) \/ EditCodex(p) \/ EditWork(p)
      PROVE  HomeInv'
  BY <1>5, EditKeeps, Zenon
<1>6. ASSUME NEW p \in HomePods, Recreate(p) \/ RecreateBlind(p) PROVE HomeInv'
  <2>1. RecreatePlan # ForkPlan /\ ForkPlan # BlindPlan
    <3>1. Len(RecreatePlan) = 11 /\ RecreatePlan[1] = "flag" /\ Len(ForkPlan) = 11
          /\ ForkPlan[1] = "get_work" /\ Len(BlindPlan) = 2
      BY Zenon DEF RecreatePlan, ForkPlan, BlindPlan
    <3> QED BY <3>1
  <2>2. CASE Recreate(p)  BY <2>1, <2>2, StartKeeps, Zenon DEF Recreate
  <2>3. CASE RecreateBlind(p)  BY <2>1, <2>3, StartKeeps, Zenon DEF RecreateBlind
  <2> QED BY <1>6, <2>2, <2>3, Zenon
<1>7. ASSUME NEW p \in HomePods, NEW source \in HomePods \ {p}, Fork(p, source) PROVE HomeInv'
  BY <1>7, StartKeeps DEF Fork
<1>8. ASSUME NEW p \in HomePods, JobStep(p) PROVE HomeInv'
  <2>1. CASE ReadFlag(p)  BY <2>1, FlagKeeps, Zenon
  <2>2. CASE Replace(p)  BY <2>2, ReplaceKeeps, Zenon
  <2>3. CASE MarkRestored(p)  BY <2>3, MarkKeeps, Zenon
  <2>4. CASE SourceGone(p) \/ JobFails(p)  BY <2>4, AbortKeeps, Zenon
  <2>5. CASE GetWork(p) \/ GetFiles(p) \/ GetCodex(p)  BY <2>5, GetKeeps, Zenon
  <2>6. CASE PutWork(p) \/ PutAgent(p)  BY <2>6, PutKeeps, Zenon
  <2> QED BY <1>8, <2>1, <2>2, <2>3, <2>4, <2>5, <2>6, SMTT(30) DEF JobStep
<1>9. CASE UNCHANGED homeVars
  <2>1. UNCHANGED <<row, nextId, container, home, copy, job, crossed, unreset, lost>>
    BY <1>9, SMTT(30) DEF homeVars
  <2>2. Matches'
    <3>1. Matches /\ HomeTypeOK  BY Zenon DEF HomeInv, Matches
    <3>2. HomeTypeOK'  BY <2>1, <3>1, Zenon DEF HomeTypeOK
    <3>3. container' = container /\ nextId' >= nextId /\ crossed \subseteq crossed'
      BY <2>1, <3>1 DEF HomeTypeOK
    <3>4. \A q \in HomePods : JobGoesOn(q)  BY <2>1, SameJob, Zenon DEF JobGoesOn
    <3>5. \A q \in HomePods : RowStays(q)  BY <2>1, Zenon DEF RowStays
    <3>6. \A c \in Commands : CopyGoesOn(c)  BY <2>1, Zenon DEF CopyGoesOn, Copying
    <3> QED BY <3>1, <3>2, <3>3, <3>4, <3>5, <3>6, MatchesKept, Zenon
  <2>3. IdentitiesApart'
    <3>1. \A p \in HomePods :
            /\ Identity(p)' = Identity(p) /\ SavedIdentity(p)' = SavedIdentity(p)
            /\ (Leased(p)' <=> Leased(p)) /\ (Recreated(p)' <=> Recreated(p))
      BY <2>1, Zenon DEF Identity, SavedIdentity, Recreated, Leased
    <3>2. IdentitiesApart /\ nextId' = nextId /\ unreset' = unreset  BY <2>1, Zenon DEF HomeInv
    <3>3. ASSUME NEW p \in HomePods
          PROVE  Identity(p)' < nextId' /\ (Leased(p)' => SavedIdentity(p)' < nextId')
      BY <3>1, <3>2, Zenon DEF IdentitiesApart
    <3>4. ASSUME NEW p \in HomePods \ unreset', NEW q \in HomePods \ unreset', p # q
          PROVE  /\ Identity(p)' = Identity(q)' => Identity(p)' = NoId
                 /\ (Recreated(p)' /\ SavedIdentity(p)' = Identity(q)') => Identity(q)' = NoId
                 /\ (Recreated(p)' /\ Recreated(q)' /\ SavedIdentity(p)' = SavedIdentity(q)')
                      => SavedIdentity(p)' = NoId
      <4>1. p \in HomePods \ unreset /\ q \in HomePods \ unreset  BY <3>2, <3>4, Zenon
      <4>2. /\ Identity(p) = Identity(q) => Identity(p) = NoId
            /\ (Recreated(p) /\ SavedIdentity(p) = Identity(q)) => Identity(q) = NoId
            /\ (Recreated(p) /\ Recreated(q) /\ SavedIdentity(p) = SavedIdentity(q))
                 => SavedIdentity(p) = NoId
        BY <3>2, <3>4, <4>1, Zenon DEF IdentitiesApart
      <4> QED BY <3>1, <4>1, <4>2, Zenon
    <3> QED BY <3>3, <3>4, Zenon DEF IdentitiesApart, NoId
  <2>4. MarksHold' /\ StateIsMarked'
    <3>1. nextId' >= nextId  BY <2>1 DEF HomeInv, Matches, HomeTypeOK
    <3>2. Quietly  BY <2>1, <3>1, Zenon DEF Quietly
    <3> QED BY <3>2, QuietKeeps, Zenon
  <2> QED BY <2>2, <2>3, <2>4, Zenon DEF HomeInv
<1> QED BY <1>1, <1>2, <1>3, <1>4, <1>5, <1>6, <1>7, <1>8, <1>9, <1>10, Zenon DEF HomeNext

\* The home of an agent's files stays its pod's own, for any pods, commands
\* and numbers of copies, edits, recreations, forks and failures.
THEOREM HomesAlwaysOwn == HomeSpec => []HomesAreOwn
<1>1. HomeInv => HomesAreOwn
  <2> SUFFICES ASSUME HomeInv PROVE HomesAreOwn
    BY Zenon
  <2>1. MarkedIsConfigured
    BY Zenon DEF HomeInv, MarksHold, Marked, MarkIsTrue, Has, MarkedIsConfigured
  <2>2. NoSharedIdentity
    BY Zenon DEF HomeInv, IdentitiesApart, Identity, NoSharedIdentity
  <2>3. OwnStateKept  BY Zenon DEF HomeInv, StateIsMarked, OwnStateKept
  <2> QED BY <2>1, <2>2, <2>3, Zenon DEF HomesAreOwn
<1> QED BY <1>1, HomeInitially, HomeStep, PTL DEF HomeSpec
=============================================================================
