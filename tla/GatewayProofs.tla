--------------------------- MODULE GatewayProofs ----------------------------
(***************************************************************************)
(* What pods get from the host through the gateway: the user's SSH agents, *)
(* and the payloads of pushed branches.  Each proof has an inductive       *)
(* invariant.                                                              *)
(*                                                                         *)
(* SshInv, for any sockets, requests, connections and tasks, in two parts  *)
(* that share no variable:                                                 *)
(*   GenerationsName, SteadyAnswer, ProbesKnown, LiveAgentsKept            *)
(*                  a generation names one registration of a socket, and a *)
(*                  request has not failed on the latest registration of a *)
(*                  socket that has answered since;                        *)
(*   OneConnection, OneConfigures, HeldServes                              *)
(*                  while no task outlives its connection, one task at a   *)
(*                  time configures an agent, and a live one that is held  *)
(*                  is served, with no older keys than it claims.          *)
(*                                                                         *)
(* LfsInv, for any pods, branches and payloads:                            *)
(*   RefsSettled  what the host shows, what pods have fetched and what is  *)
(*                in the store is accounted for: a whole file, one being   *)
(*                written, or one of the exceptions;                       *)
(*   PushesOwe    of the heads a push looks at (with the hook off, the new *)
(*                ones), it uploads what is not accounted for.             *)
(***************************************************************************)
EXTENDS SshAgents, LfsRelay, FiniteSetTheorems, TLAPS


-----------------------------------------------------------------------------
(* SshAgents                                                                 *)

Candidates == [generation : Nat \ {0}, socket : Sockets]

AmbientTypeOK ==
    /\ answering \subseteq Sockets /\ generation \in Nat
    /\ candidates \subseteq Candidates
    /\ latest \in [Sockets -> 0..generation] /\ steady \subseteq 1..generation
    /\ ask \in [AgentAsks -> [at : {"idle", "again", "none"}]
                             \union [at : {"probing", "failed", "bridged"}, candidate : Candidates]]

\* A generation names one registration of one socket.
GenerationsName ==
    /\ \A s, n \in Sockets : latest[s] = latest[n] /\ latest[s] # 0 => s = n
    /\ \A c \in candidates : c.generation = latest[c.socket]

\* A socket that has answered since its latest registration answers.
SteadyAnswer == \A s \in Sockets : latest[s] \in steady => s \in answering

\* What a request probes was registered; what failed is not the latest
\* registration of a socket that has answered since.
ProbesKnown ==
    \A r \in AgentAsks : ask[r].at \in {"probing", "failed"} =>
        /\ ask[r] \in [at : {"probing", "failed"}, candidate : Candidates]
        /\ ask[r].candidate.generation <= generation
        /\ \A s \in Sockets : latest[s] = ask[r].candidate.generation =>
             /\ ask[r].candidate.socket = s
             /\ ask[r].at = "failed" => latest[s] \notin steady

AmbientInv == AmbientTypeOK /\ GenerationsName /\ SteadyAnswer /\ ProbesKnown /\ LiveAgentsKept

AgentProcesses == [is : {"alive", "dead"}, hash : Nat, loaded : Nat]
Processes == 0..Len(agents)

Tasks == [at : {"lock", "start", "add", "store"}, conn : Connections,
          kind : {"configure", "ensure"}, hash : 0..keys, agent : Processes]

ManagedTypeOK ==
    /\ keys \in Nat \ {0} /\ outlived \in BOOLEAN
    /\ registered \in Connections \union {NoConnection} /\ setup \subseteq Connections
    /\ agents \in Seq(AgentProcesses)
    /\ slot \in [Connections -> Processes] /\ served \in Processes
    /\ task \in [AgentTasks -> [at : {"idle"}] \union Tasks]

\* Task t has ssh_agent_setup of its connection.
Configuring(t) == task[t].at \in {"start", "add", "store"}

\* While no task outlives its connection, everything is the registered one's.
OneConnection ==
    /\ \A t \in AgentTasks : task[t].at # "idle" => task[t].conn = registered
    /\ \A c \in Connections : slot[c] # NoProcess => c = registered

\* One task at a time configures, and no agent is held meanwhile.
OneConfigures ==
    /\ \A t \in AgentTasks : Configuring(t) => task[t].conn \in setup
    /\ \A t, u \in AgentTasks : Configuring(t) /\ Configuring(u) => t = u
    /\ \A t \in AgentTasks : Configuring(t) => slot[task[t].conn] = NoProcess
    /\ \A t \in AgentTasks : task[t].at \in {"add", "store"} => served = task[t].agent

\* A live agent that is held is served, and has no older keys than it claims.
HeldServes ==
    /\ \A c \in Connections : Alive(slot[c]) => served = slot[c]
    /\ served # NoProcess =>
         agents[served].hash <= agents[served].loaded /\ agents[served].loaded <= keys

ManagedInv == ManagedTypeOK /\ (outlived \/ (OneConnection /\ OneConfigures /\ HeldServes))

SshInv == AmbientInv /\ ManagedInv

\* Before the first client there are no agents.
LEMMA SshInitInv == SshInit => SshInv
<1> SUFFICES ASSUME SshInit PROVE SshInv
  BY Zenon
<1>1. AmbientTypeOK /\ GenerationsName /\ SteadyAnswer /\ ProbesKnown
  BY DEF SshInit, AmbientTypeOK, GenerationsName, SteadyAnswer, ProbesKnown, IdleAsk
<1>2. LiveAgentsKept  BY Zenon DEF SshInit, LiveAgentsKept
<1>3. ManagedTypeOK
  <2>1. agents \in Seq(AgentProcesses) /\ Len(agents) = 0
    BY DEF SshInit
  <2>2. task \in [AgentTasks -> [at : {"idle"}]]  BY Zenon DEF SshInit, IdleTask
  <2>3. slot \in [Connections -> Processes] /\ served \in Processes
    BY <2>1 DEF SshInit, Processes, NoProcess
  <2>4. registered \in Connections \union {NoConnection} /\ setup \subseteq Connections
    BY Zenon DEF SshInit
  <2>5. keys \in Nat \ {0}  BY DEF SshInit
  <2>6. outlived \in BOOLEAN  BY Zenon DEF SshInit
  <2>7. \A t \in AgentTasks : task[t] \in [at : {"idle"}]  BY <2>2, Zenon
  <2> QED BY <2>1, <2>2, <2>3, <2>4, <2>5, <2>6, <2>7, Zenon DEF ManagedTypeOK
<1>4. OneConnection /\ OneConfigures /\ HeldServes
  BY Zenon DEF SshInit, OneConnection, OneConfigures, HeldServes, Configuring, IdleTask,
     NoProcess, Alive
<1> QED BY <1>1, <1>2, <1>3, <1>4, Zenon DEF SshInv, AmbientInv, ManagedInv

-----------------------------------------------------------------------------
(* Ambient agents                                                            *)

\* The sockets registered later than s.
Later(last, s) == {n \in Sockets : last[n] > last[s]}

\* Of candidates that are the latest registrations of their sockets, no more
\* are newer than a socket's than there are sockets registered later.
LEMMA NewerAreSockets ==
    ASSUME NEW all, all \subseteq Candidates, NEW last \in [Sockets -> Nat],
           \A c \in all : c.generation = last[c.socket],
           NEW s \in Sockets, NEW c \in all, c.generation = last[s]
    PROVE  /\ IsFiniteSet(Newer(c, all))
           /\ Cardinality(Newer(c, all)) <= Cardinality(Later(last, s))
           /\ Cardinality(Newer(c, all)) \in Nat
           /\ Cardinality(Later(last, s)) \in Nat
<1> DEFINE S == Newer(c, all)
           T == Later(last, s)
           f == [d \in S |-> d.socket]
<1>1. IsFiniteSet(T)
  <2>1. T \subseteq Sockets  BY Zenon DEF Later
  <2> QED BY <2>1, SshAssumption, FS_Subset, Zenon
<1>2. f \in [S -> T]
  BY Zenon DEF Newer, Candidates, Later
<1>3. \A a, b \in S : f[a] = f[b] => a = b
  <2> SUFFICES ASSUME NEW a \in S, NEW b \in S, a.socket = b.socket
               PROVE  a = b
    BY Zenon
  <2>1. a \in Candidates /\ b \in Candidates /\ a \in all /\ b \in all  BY Zenon DEF Newer
  <2>2. a.generation = b.generation  BY <2>1, Zenon
  <2> QED BY <2>1, <2>2 DEF Candidates
<1>4. f \in Injection(S, T)
  BY <1>2, <1>3, Zenon DEF Injection, IsInjective
<1> HIDE DEF S, T, f
<1>5. IsFiniteSet(S) /\ Cardinality(S) <= Cardinality(T)
  BY <1>1, <1>4, FS_Injection, Zenon
<1>6. Cardinality(S) \in Nat /\ Cardinality(T) \in Nat
  BY <1>1, <1>5, FS_CardinalityType, Zenon
<1> QED BY <1>5, <1>6, Zenon DEF S, T

\* remember keeps every candidate but those MAX_AMBIENT_SSH_AGENTS newer ones
\* displace, and the earlier registration of the socket.
LEMMA RememberKeeps ==
    ASSUME AmbientInv, NEW s \in Sockets, Remember(s)
    PROVE  AmbientInv'
<1> DEFINE g == generation + 1
           new == [generation |-> g, socket |-> s]
           all == {c \in candidates : c.socket # s} \union {new}
<1>1. /\ AmbientTypeOK /\ GenerationsName /\ SteadyAnswer /\ ProbesKnown /\ LiveAgentsKept
  BY Zenon DEF AmbientInv
<1>2. /\ generation' = g /\ latest' = [latest EXCEPT ![s] = g]
      /\ steady' = (IF s \in answering THEN steady \union {g} ELSE steady)
      /\ candidates' = {c \in all : Cardinality(Newer(c, all)) < MaxAmbient}
      /\ UNCHANGED <<answering, ask>>
  BY Zenon DEF Remember
<1>3. /\ generation \in Nat /\ g \in Nat \ {0} /\ g > generation
      /\ new \in Candidates /\ new.generation = g /\ new.socket = s
      /\ all \subseteq Candidates
  BY <1>1 DEF AmbientTypeOK, Candidates
<1>4. latest' \in [Sockets -> 0..g] /\ latest'[s] = g /\ g \notin steady
  BY <1>1, <1>2, <1>3 DEF AmbientTypeOK
<1>5. \A n \in Sockets : n # s => latest'[n] = latest[n] /\ latest[n] \in 0..generation
  BY <1>1, <1>2, Zenon DEF AmbientTypeOK
<1>6. \A c \in all : c.generation = latest'[c.socket]
  <2>1. \A c \in candidates : c.socket # s => c.generation = latest'[c.socket]
    BY <1>1, <1>5, Zenon DEF GenerationsName, AmbientTypeOK, Candidates
  <2> QED BY <1>3, <1>4, <2>1, Zenon
<1>7. AmbientTypeOK'
  <2>1. candidates' \subseteq Candidates  BY <1>2, <1>3, Zenon
  <2>2. steady' \subseteq 1..generation'
    <3>1. \A n \in 1..generation : n \in 1..g  BY <1>3
    <3>2. g \in 1..g  BY <1>3
    <3>3. steady' \subseteq steady \union {g}  BY <1>2, Zenon
    <3> QED BY <1>1, <1>2, <3>1, <3>2, <3>3, Zenon DEF AmbientTypeOK
  <2> QED BY <1>1, <1>2, <1>3, <1>4, <2>1, <2>2, Zenon DEF AmbientTypeOK
<1>8. GenerationsName'
  <2>1. \A n, m \in Sockets : latest'[n] = latest'[m] /\ latest'[n] # 0 => n = m
    BY <1>1, <1>3, <1>4, <1>5 DEF GenerationsName
  <2> QED BY <1>2, <1>6, <2>1, Zenon DEF GenerationsName
<1>9. SteadyAnswer'
  <2> SUFFICES ASSUME NEW n \in Sockets, latest'[n] \in steady' PROVE n \in answering
    BY <1>2, Zenon DEF SteadyAnswer
  <2>1. CASE n = s  BY <1>2, <1>4, <2>1, Zenon
  <2>2. CASE n # s  BY <1>1, <1>2, <1>3, <1>5, <2>2 DEF SteadyAnswer
  <2> QED BY <2>1, <2>2, Zenon
<1>10. ProbesKnown'
  <2> SUFFICES ASSUME NEW r \in AgentAsks, ask[r].at \in {"probing", "failed"}
               PROVE  /\ ask[r] \in [at : {"probing", "failed"}, candidate : Candidates]
                      /\ ask[r].candidate.generation <= g
                      /\ \A n \in Sockets : latest'[n] = ask[r].candidate.generation =>
                           /\ ask[r].candidate.socket = n
                           /\ ask[r].at = "failed" => latest'[n] \notin steady'
    BY <1>2 DEF ProbesKnown
  <2>1. /\ ask[r] \in [at : {"probing", "failed"}, candidate : Candidates]
        /\ ask[r].candidate.generation <= generation
        /\ \A n \in Sockets : latest[n] = ask[r].candidate.generation =>
             /\ ask[r].candidate.socket = n
             /\ ask[r].at = "failed" => latest[n] \notin steady
    BY <1>1, Zenon DEF ProbesKnown
  <2>2. ask[r].candidate.generation \in Nat  BY <2>1, Zenon DEF Candidates
  <2>3. ASSUME NEW n \in Sockets, latest'[n] = ask[r].candidate.generation
        PROVE  /\ ask[r].candidate.socket = n
               /\ ask[r].at = "failed" => latest'[n] \notin steady'
    <3>1. n # s  BY <1>3, <1>4, <2>1, <2>2, <2>3
    <3> QED BY <1>2, <1>3, <1>5, <2>1, <2>3, <3>1
  <2> QED BY <1>3, <2>1, <2>2, <2>3
<1>11. LiveAgentsKept'
  <2> SUFFICES ASSUME NEW n \in Sockets, latest'[n] \in steady',
                      Cardinality(Later(latest', n)) < MaxAmbient
               PROVE  \E c \in candidates' : c.generation = latest'[n]
    BY Zenon DEF LiveAgentsKept, Later
  <2>1. \E c \in all : c.generation = latest'[n]
    <3>1. CASE n = s  BY <1>3, <1>4, <3>1, Zenon
    <3>2. CASE n # s
      <4>1. latest[n] \in steady  BY <1>2, <1>3, <1>5, <3>2
      <4> DEFINE before == Later(latest, n)
                 after == Later(latest', n)
      <4>2. before \subseteq after
        <5> SUFFICES ASSUME NEW m \in Sockets, latest[m] > latest[n]
                     PROVE  latest'[m] > latest'[n]
          BY Zenon DEF Later
        <5> QED BY <1>3, <1>4, <1>5, <3>2
      <4>3. IsFiniteSet(after)
        <5>1. after \subseteq Sockets  BY Zenon DEF Later
        <5> QED BY <5>1, SshAssumption, FS_Subset, Zenon
      <4> HIDE DEF before, after
      <4>4. Cardinality(before) <= Cardinality(after) /\ IsFiniteSet(before)
        BY <4>2, <4>3, FS_Subset, Zenon
      <4>5. Cardinality(before) \in Nat /\ Cardinality(after) \in Nat
        BY <4>3, <4>4, FS_CardinalityType, Zenon
      <4>6. Cardinality(before) < MaxAmbient
        BY <4>4, <4>5, SshAssumption DEF after
      <4>7. PICK c \in candidates : c.generation = latest[n]
        BY <1>1, <4>1, <4>6, Zenon DEF LiveAgentsKept, before, Later
      <4>8. c \in Candidates /\ latest[c.socket] = latest[n] /\ latest[n] # 0
        BY <1>1, <4>7, Zenon DEF AmbientTypeOK, GenerationsName, Candidates
      <4>9. c.socket = n  BY <1>1, <4>8, Zenon DEF GenerationsName, Candidates
      <4> QED BY <1>5, <3>2, <4>7, <4>9, Zenon
    <3> QED BY <3>1, <3>2, Zenon
  <2>2. PICK c \in all : c.generation = latest'[n]  BY <2>1, Zenon
  <2>3. latest' \in [Sockets -> Nat]  BY <1>3, <1>4
  <2> HIDE DEF all
  <2>4. /\ Cardinality(Newer(c, all)) <= Cardinality(Later(latest', n))
        /\ Cardinality(Newer(c, all)) \in Nat
        /\ Cardinality(Later(latest', n)) \in Nat
    BY <1>3, <1>6, <2>2, <2>3, NewerAreSockets, Zenon
  <2>5. Cardinality(Newer(c, all)) < MaxAmbient
    BY <2>4, SshAssumption
  <2> QED BY <1>2, <2>2, <2>5, Zenon
<1> QED BY <1>7, <1>8, <1>9, <1>10, <1>11, Zenon DEF AmbientInv

\* connect_latest_live drops a candidate only if that registration failed; a
\* socket that ends, or comes back, is no longer, or not yet, a steady one.
LEMMA ProbesKeep ==
    ASSUME AmbientInv,
           \/ \E s \in Sockets : SocketDies(s) \/ SocketReturns(s)
           \/ \E r \in AgentAsks : Probe(r) \/ ProbeAnswers(r) \/ ProbeTimesOut(r)
                                   \/ Discard(r) \/ Hangup(r)
    PROVE  AmbientInv'
<1>1. /\ AmbientTypeOK /\ GenerationsName /\ SteadyAnswer /\ ProbesKnown /\ LiveAgentsKept
  BY Zenon DEF AmbientInv
<1>2. ASSUME NEW s \in Sockets, SocketDies(s) \/ SocketReturns(s)
      PROVE  AmbientInv'
  <2>1. /\ answering' \subseteq Sockets
        /\ \/ answering' = answering \union {s} /\ steady' = steady
           \/ answering' = answering \ {s} /\ steady' = steady \ {latest[s]}
        /\ UNCHANGED <<candidates, generation, ask, latest>>
    BY <1>1, <1>2, Zenon DEF SocketDies, SocketReturns, AmbientTypeOK
  <2>2. AmbientTypeOK'  BY <1>1, <2>1, Zenon DEF AmbientTypeOK
  <2>3. GenerationsName'  BY <1>1, <2>1, Zenon DEF GenerationsName
  <2>4. SteadyAnswer'  BY <1>1, <2>1, Zenon DEF SteadyAnswer
  <2>5. ProbesKnown'  BY <1>1, <2>1, Zenon DEF ProbesKnown
  <2>6. LiveAgentsKept'  BY <1>1, <2>1, Zenon DEF LiveAgentsKept
  <2> QED BY <2>2, <2>3, <2>4, <2>5, <2>6, Zenon DEF AmbientInv
<1>3. ASSUME NEW r \in AgentAsks, Probe(r) \/ Hangup(r)
      PROVE  AmbientInv'
  <2>1. UNCHANGED <<answering, candidates, generation, latest, steady>>
    BY <1>3, Zenon DEF Probe, Hangup
  <2>2. ProbesKnown'
    <3>1. \A q \in AgentAsks : q # r => ask'[q] = ask[q]
      BY <1>1, <1>3, Zenon DEF Probe, Hangup, AmbientTypeOK
    <3>2. ask'[r].at \in {"probing", "failed"} =>
            ask'[r] \in {[at |-> "probing", candidate |-> c] : c \in candidates}
      BY <1>1, <1>3 DEF Probe, Hangup, IdleAsk, AmbientTypeOK
    <3>3. \A c \in candidates :
            /\ c \in Candidates /\ c.generation <= generation
            /\ \A s \in Sockets : latest[s] = c.generation => c.socket = s
      BY <1>1 DEF AmbientTypeOK, GenerationsName, Candidates
    <3> QED BY <1>1, <2>1, <3>1, <3>2, <3>3 DEF ProbesKnown
  <2>3. AmbientTypeOK'
    <3>1. ask' \in [AgentAsks -> [at : {"idle", "again", "none"}]
                     \union [at : {"probing", "failed", "bridged"}, candidate : Candidates]]
      BY <1>1, <1>3 DEF Probe, Hangup, IdleAsk, AmbientTypeOK
    <3> QED BY <1>1, <2>1, <3>1, Zenon DEF AmbientTypeOK
  <2>4. GenerationsName' /\ SteadyAnswer' /\ LiveAgentsKept'
    BY <1>1, <2>1, Zenon DEF GenerationsName, SteadyAnswer, LiveAgentsKept
  <2> QED BY <2>2, <2>3, <2>4, Zenon DEF AmbientInv
<1>4. ASSUME NEW r \in AgentAsks, ProbeAnswers(r) \/ ProbeTimesOut(r)
      PROVE  AmbientInv'
  <2>1. /\ ask[r].at = "probing" /\ UNCHANGED <<answering, candidates, generation, latest>>
        /\ \/ /\ steady' = steady
              /\ ask'[r].at = "failed" => ask[r].candidate.socket \notin answering
           \/ steady' = steady \ {ask[r].candidate.generation}
        /\ ask' = [ask EXCEPT ![r] = ask'[r]]
        /\ \A q \in AgentAsks : q # r => ask'[q] = ask[q]
        /\ ask'[r] \in {[ask[r] EXCEPT !.at = a] : a \in {"bridged", "failed"}}
    BY <1>1, <1>4 DEF ProbeAnswers, ProbeTimesOut, AmbientTypeOK
  <2>2. ask[r] \in [at : {"probing", "failed"}, candidate : Candidates]
    BY <1>1, <2>1, Zenon DEF ProbesKnown
  <2>3. AmbientTypeOK'
    <3>1. ask'[r] \in [at : {"probing", "failed", "bridged"}, candidate : Candidates]
      BY <2>1, <2>2, Zenon
    <3> QED BY <1>1, <2>1, <3>1 DEF AmbientTypeOK
  <2>4. GenerationsName' /\ SteadyAnswer' /\ LiveAgentsKept'
    BY <1>1, <2>1, Zenon DEF GenerationsName, SteadyAnswer, LiveAgentsKept
  <2>5. ProbesKnown'
    <3>1. \A q \in AgentAsks : q # r /\ ask'[q].at \in {"probing", "failed"} =>
            /\ ask'[q] \in [at : {"probing", "failed"}, candidate : Candidates]
            /\ ask'[q].candidate.generation <= generation
            /\ \A s \in Sockets : latest[s] = ask'[q].candidate.generation =>
                 /\ ask'[q].candidate.socket = s
                 /\ ask'[q].at = "failed" => latest[s] \notin steady'
      BY <1>1, <2>1 DEF ProbesKnown
    <3>2. ASSUME ask'[r].at \in {"probing", "failed"}
          PROVE  /\ ask'[r] \in [at : {"probing", "failed"}, candidate : Candidates]
                 /\ ask'[r].candidate.generation <= generation
                 /\ \A s \in Sockets : latest[s] = ask'[r].candidate.generation =>
                      /\ ask'[r].candidate.socket = s
                      /\ ask'[r].at = "failed" => latest[s] \notin steady'
      <4>1. /\ ask'[r] \in [at : {"probing", "failed"}, candidate : Candidates]
            /\ ask'[r].candidate = ask[r].candidate
        BY <2>1, <2>2, <3>2, Zenon
      <4>2. /\ ask[r].candidate.generation <= generation
            /\ \A s \in Sockets : latest[s] = ask[r].candidate.generation =>
                 ask[r].candidate.socket = s
        BY <1>1, <2>1, Zenon DEF ProbesKnown
      <4>3. \A s \in Sockets : latest[s] = ask[r].candidate.generation =>
              (ask'[r].at = "failed" => latest[s] \notin steady')
        BY <1>1, <2>1, <4>2, Zenon DEF SteadyAnswer
      <4> QED BY <4>1, <4>2, <4>3, Zenon
    <3> QED BY <2>1, <3>1, <3>2 DEF ProbesKnown
  <2> QED BY <2>3, <2>4, <2>5, Zenon DEF AmbientInv
<1>5. ASSUME NEW r \in AgentAsks, Discard(r)
      PROVE  AmbientInv'
  <2>1. /\ ask[r].at = "failed" /\ UNCHANGED <<answering, generation, latest, steady>>
        /\ candidates' \subseteq candidates
        /\ \A c \in candidates : c.generation # ask[r].candidate.generation => c \in candidates'
        /\ ask' = [ask EXCEPT ![r] = [at |-> "again"]]
    BY <1>5, Zenon DEF Discard
  <2>2. AmbientTypeOK' /\ GenerationsName' /\ SteadyAnswer'
    BY <1>1, <2>1, Zenon DEF AmbientTypeOK, GenerationsName, SteadyAnswer
  <2>3. ProbesKnown'  BY <1>1, <2>1 DEF ProbesKnown
  <2>4. LiveAgentsKept'
    <3>1. \A s \in Sockets : latest[s] \in steady => latest[s] # ask[r].candidate.generation
      BY <1>1, <2>1, Zenon DEF ProbesKnown
    <3> QED BY <1>1, <2>1, <3>1, Zenon DEF LiveAgentsKept
  <2> QED BY <2>2, <2>3, <2>4, Zenon DEF AmbientInv
<1> QED BY <1>2, <1>3, <1>4, <1>5, Zenon

-----------------------------------------------------------------------------
(* The managed agent                                                         *)

\* A pod operation or `rumpel ssh-add` begins with the pod's connection.
LEMMA TaskBeginsKeeps ==
    ASSUME ManagedInv, NEW t \in AgentTasks, NEW kind \in {"configure", "ensure"},
           TaskBegins(t, kind)
    PROVE  ManagedInv'
<1>1. ManagedTypeOK /\ (outlived \/ (OneConnection /\ OneConfigures /\ HeldServes))
  BY Zenon DEF ManagedInv
<1>2. PICK c \in Connections :
        /\ registered # NoConnection => c = registered
        /\ registered' = c
        /\ task' = [task EXCEPT ![t] = [at |-> "lock", conn |-> c, kind |-> kind, hash |-> keys,
                                        agent |-> NoProcess]]
  BY Zenon DEF TaskBegins
<1>3. task[t].at = "idle" /\ UNCHANGED <<keys, slot, setup, agents, served, outlived>>
  BY Zenon DEF TaskBegins
<1>4. Processes' = Processes  BY <1>3, Zenon DEF Processes
<1>5. ManagedTypeOK'
  <2>1. task'[t] \in Tasks  BY <1>1, <1>2 DEF ManagedTypeOK, Tasks, Processes, NoProcess
  <2> QED BY <1>1, <1>2, <1>3, <1>4, <2>1, Zenon DEF ManagedTypeOK, Tasks
<1>6. ASSUME ~outlived PROVE OneConnection' /\ OneConfigures' /\ HeldServes'
  <2>1. OneConnection /\ OneConfigures /\ HeldServes  BY <1>1, <1>6, Zenon
  <2>2. /\ task'[t].at = "lock" /\ task'[t].conn = c
        /\ \A u \in AgentTasks : u # t => task'[u] = task[u]
    BY <1>1, <1>2, Zenon DEF ManagedTypeOK
  <2>3. NoConnection \notin Connections  BY Zenon DEF NoConnection, Connections
  <2>4. OneConnection'
    <3>1. \A u \in AgentTasks : u # t /\ task[u].at # "idle" => task[u].conn \in Connections
      BY <1>1, Zenon DEF ManagedTypeOK, Tasks
    <3> QED BY <1>2, <1>3, <2>1, <2>2, <2>3, <3>1, Zenon DEF OneConnection
  <2>5. OneConfigures'  BY <1>3, <2>1, <2>2, Zenon DEF OneConfigures, Configuring
  <2>6. HeldServes'  BY <1>3, <2>1, Zenon DEF HeldServes, Alive
  <2> QED BY <2>4, <2>5, <2>6, Zenon
<1> QED BY <1>3, <1>5, <1>6, Zenon DEF ManagedInv

\* Who drops an agent keeps the processes, and leaves nothing in agent_dir if
\* there was one.
LEMMA DropAgentKeeps ==
    ASSUME ManagedTypeOK, NEW a \in Processes, DropAgent(a)
    PROVE  /\ agents' \in Seq(AgentProcesses)
           /\ Len(agents') = Len(agents) /\ served' \in {served, NoProcess}
           /\ \A b \in 1..Len(agents) :
                /\ agents'[b].hash = agents[b].hash /\ agents'[b].loaded = agents[b].loaded
                /\ b # a => agents'[b].is = agents[b].is
                /\ b = a => agents'[b].is = "dead"
           /\ a = NoProcess => served' = served
           /\ a # NoProcess => served' = NoProcess
<1>1. agents \in Seq(AgentProcesses)
  BY Zenon DEF ManagedTypeOK
<1>2. CASE a = NoProcess
  BY <1>1, <1>2 DEF DropAgent, Killed, NoProcess
<1>3. CASE a # NoProcess
  <2>1. a \in 1..Len(agents)  BY <1>1, <1>3 DEF Processes, NoProcess
  <2>2. agents[a] \in AgentProcesses  BY <1>1, <2>1
  <2> DEFINE b == [agents[a] EXCEPT !.is = "dead"]
  <2>3. /\ b \in AgentProcesses
        /\ b.hash = agents[a].hash /\ b.loaded = agents[a].loaded /\ b.is = "dead"
    BY <2>2, Zenon DEF AgentProcesses
  <2>4. agents' = [agents EXCEPT ![a] = b] /\ served' = NoProcess
    BY <1>3, Zenon DEF DropAgent, Killed
  <2> HIDE DEF b
  <2> QED BY <1>1, <1>3, <2>1, <2>3, <2>4
<1> QED BY <1>2, <1>3, Zenon

\* ensure_ssh_agent and configure_ssh_agent keep a fitting agent, or drop the
\* one there is and have ssh_agent_setup.
LEMMA TaskLooksKeeps ==
    ASSUME ManagedInv, NEW t \in AgentTasks, TaskLooks(t)
    PROVE  ManagedInv'
<1> DEFINE c == task[t].conn
<1>1. ManagedTypeOK /\ (outlived \/ (OneConnection /\ OneConfigures /\ HeldServes))
  BY Zenon DEF ManagedInv
<1>2. task[t].at = "lock" /\ c \notin setup /\ UNCHANGED <<keys, registered, outlived>>
  BY Zenon DEF TaskLooks
<1>3. task[t] \in Tasks /\ c \in Connections /\ slot[c] \in Processes
  BY <1>1, <1>2, Zenon DEF ManagedTypeOK, Tasks
<1>4. CASE /\ task' = [task EXCEPT ![t] = IdleTask]
           /\ UNCHANGED <<slot, setup, agents, served>>
  <2>1. Processes' = Processes  BY <1>4, Zenon DEF Processes
  <2>2. ManagedTypeOK'
    <3>1. Tasks' = Tasks  BY <1>2, <2>1, Zenon DEF Tasks
    <3> QED BY <1>1, <1>2, <1>4, <2>1, <3>1, Zenon DEF ManagedTypeOK, IdleTask
  <2>3. task'[t].at = "idle" /\ \A u \in AgentTasks : u # t => task'[u] = task[u]
    BY <1>1, <1>4, Zenon DEF ManagedTypeOK, IdleTask
  <2>4. OneConnection => OneConnection'  BY <1>2, <1>4, <2>3, Zenon DEF OneConnection
  <2>5. OneConfigures => OneConfigures'  BY <1>4, <2>3 DEF OneConfigures, Configuring
  <2>6. HeldServes => HeldServes'  BY <1>2, <1>4, Zenon DEF HeldServes, Alive
  <2> QED BY <1>1, <1>2, <2>2, <2>4, <2>5, <2>6, Zenon DEF ManagedInv
<1>5. CASE /\ slot' = [slot EXCEPT ![c] = NoProcess]
           /\ DropAgent(slot[c])
           /\ task' = [task EXCEPT ![t].at = "start"]
           /\ setup' = setup \union {c}
  <2>1. /\ agents' \in Seq(AgentProcesses)
        /\ Len(agents') = Len(agents) /\ served' \in {served, NoProcess}
        /\ \A b \in 1..Len(agents) :
             /\ agents'[b].hash = agents[b].hash /\ agents'[b].loaded = agents[b].loaded
             /\ b # slot[c] => agents'[b].is = agents[b].is
        /\ slot[c] = NoProcess => served' = served
    BY <1>1, <1>3, <1>5, DropAgentKeeps, Zenon
  <2>2. Processes' = Processes /\ NoProcess \in Processes
    BY <1>1, <2>1 DEF Processes, NoProcess, ManagedTypeOK
  <2> DEFINE b == [task[t] EXCEPT !.at = "start"]
  <2>3. b \in Tasks /\ b.at = "start" /\ b.conn = c  BY <1>3, Zenon DEF Tasks
  <2>4. task' = [task EXCEPT ![t] = b]  BY <1>5, Zenon
  <2> HIDE DEF b
  <2>5. task'[t] = b /\ \A u \in AgentTasks : u # t => task'[u] = task[u]
    BY <1>1, <2>4, Zenon DEF ManagedTypeOK
  <2>6. ManagedTypeOK'
    <3>1. slot' \in [Connections -> Processes'] /\ served' \in Processes'
      BY <1>1, <1>3, <1>5, <2>1, <2>2, Zenon DEF ManagedTypeOK
    <3>2. task' \in [AgentTasks -> [at : {"idle"}] \union Tasks']
      <4>1. Tasks' = Tasks  BY <1>2, <2>2, Zenon DEF Tasks
      <4> QED BY <1>1, <2>3, <2>4, <4>1, Zenon DEF ManagedTypeOK
    <3> QED BY <1>1, <1>2, <1>3, <1>5, <2>1, <3>1, <3>2, Zenon DEF ManagedTypeOK
  <2>7. slot'[c] = NoProcess /\ \A d \in Connections : d # c => slot'[d] = slot[d]
    BY <1>1, <1>3, <1>5, Zenon DEF ManagedTypeOK
  <2>8. ASSUME ~outlived PROVE OneConnection' /\ OneConfigures' /\ HeldServes'
    <3>1. OneConnection /\ OneConfigures /\ HeldServes  BY <1>1, <2>8, Zenon
    <3>2. c = registered /\ \A d \in Connections : slot'[d] = NoProcess
      BY <1>2, <1>3, <2>7, <3>1, Zenon DEF OneConnection
    <3>3. OneConnection'
      BY <1>2, <2>3, <2>5, <3>1, <3>2, Zenon DEF OneConnection
    <3>4. \A u \in AgentTasks : u # t => ~Configuring(u)
      BY <1>2, <3>1, <3>2, Zenon DEF OneConfigures, OneConnection, Configuring
    <3>5. OneConfigures'
      <4>1. \A u \in AgentTasks : Configuring(u)' => u = t
        BY <2>5, <3>4, Zenon DEF Configuring
      <4> QED BY <1>3, <1>5, <2>3, <2>5, <3>2, <4>1 DEF OneConfigures, Configuring
    <3>6. HeldServes'
      <4>1. served' # NoProcess => served' = served /\ served \in 1..Len(agents)
        BY <1>1, <2>1 DEF ManagedTypeOK, Processes, NoProcess
      <4> QED BY <1>2, <2>1, <3>1, <3>2, <4>1, Zenon DEF HeldServes, Alive
    <3> QED BY <3>3, <3>5, <3>6, Zenon
  <2> QED BY <1>2, <2>6, <2>8, Zenon DEF ManagedInv
<1> QED BY <1>4, <1>5, Zenon DEF TaskLooks

\* ManagedSshAgent::start: the new agent is behind the pod's socket.
LEMMA TaskStartsKeeps ==
    ASSUME ManagedInv, NEW t \in AgentTasks, TaskStarts(t)
    PROVE  ManagedInv'
<1> DEFINE new == [is |-> "alive", hash |-> 0, loaded |-> 0]
           n == Len(agents) + 1
           b == [task[t] EXCEPT !.at = IF task[t].kind = "configure" THEN "add" ELSE "store",
                                !.agent = n, !.hash = keys]
<1>1. ManagedTypeOK /\ (outlived \/ (OneConnection /\ OneConfigures /\ HeldServes))
  BY Zenon DEF ManagedInv
<1>2. task[t].at = "start" /\ UNCHANGED <<keys, registered, slot, setup, outlived>>
  BY Zenon DEF TaskStarts
<1>3. /\ agents \in Seq(AgentProcesses) /\ new \in AgentProcesses
      /\ agents' = Append(agents, new) /\ Len(agents) \in Nat
  BY <1>1 DEF TaskStarts, ManagedTypeOK, AgentProcesses
<1> HIDE DEF new
<1>4. /\ agents' \in Seq(AgentProcesses) /\ Len(agents') = n /\ agents'[n] = new
      /\ \A a \in 1..Len(agents) : agents'[a] = agents[a]
  BY <1>3
<1>5. Processes \subseteq Processes' /\ n \in Processes' /\ NoProcess # n /\ n \notin Processes
  BY <1>3, <1>4 DEF Processes, NoProcess
<1>6. served' = n /\ task' = [task EXCEPT ![t] = b]
  BY <1>4, Zenon DEF TaskStarts
<1>7. task[t] \in Tasks  BY <1>1, <1>2, Zenon DEF ManagedTypeOK, Tasks
<1>8. /\ b \in Tasks' /\ b.at \in {"add", "store"} /\ b.conn = task[t].conn /\ b.agent = n
  <2>1. keys \in 0..keys  BY <1>1 DEF ManagedTypeOK
  <2> QED BY <1>2, <1>5, <1>7, <2>1, Zenon DEF Tasks
<1> HIDE DEF b
<1>9. task'[t] = b /\ \A u \in AgentTasks : u # t => task'[u] = task[u]
  BY <1>1, <1>6, Zenon DEF ManagedTypeOK
<1>10. ManagedTypeOK'
  <2>1. Tasks \subseteq Tasks'  BY <1>2, <1>5, Zenon DEF Tasks
  <2>2. task' \in [AgentTasks -> [at : {"idle"}] \union Tasks']
    BY <1>1, <1>6, <1>8, <2>1, Zenon DEF ManagedTypeOK
  <2>3. slot' \in [Connections -> Processes']  BY <1>1, <1>2, <1>5, Zenon DEF ManagedTypeOK
  <2> QED BY <1>1, <1>2, <1>4, <1>5, <1>6, <2>2, <2>3, Zenon DEF ManagedTypeOK
<1>11. ASSUME ~outlived PROVE OneConnection' /\ OneConfigures' /\ HeldServes'
  <2>1. OneConnection /\ OneConfigures /\ HeldServes  BY <1>1, <1>11, Zenon
  <2>2. Configuring(t) /\ task[t].conn \in Connections  BY <1>2, <1>7, Zenon DEF Configuring, Tasks
  <2>3. \A d \in Connections : slot[d] = NoProcess
    BY <1>2, <2>1, <2>2, Zenon DEF OneConnection, OneConfigures, Configuring
  <2>4. OneConnection'  BY <1>2, <1>8, <1>9, <2>1, Zenon DEF OneConnection
  <2>5. \A u \in AgentTasks : Configuring(u)' => u = t
    BY <1>9, <2>1, <2>2, Zenon DEF OneConfigures, Configuring
  <2>6. OneConfigures'
    <3>1. task[t].conn \in setup  BY <2>1, <2>2, Zenon DEF OneConfigures
    <3> QED BY <1>2, <1>6, <1>8, <1>9, <2>2, <2>3, <2>5, <3>1 DEF OneConfigures, Configuring
  <2>7. HeldServes'
    <3>1. new.hash = 0 /\ new.loaded = 0  BY Zenon DEF new
    <3>2. agents'[served'].hash <= agents'[served'].loaded /\ agents'[served'].loaded <= keys'
      BY <1>1, <1>2, <1>4, <1>6, <3>1 DEF ManagedTypeOK
    <3> QED BY <1>2, <2>3, <3>2, Zenon DEF HeldServes, Alive
  <2> QED BY <2>4, <2>6, <2>7, Zenon
<1> QED BY <1>2, <1>10, <1>11, Zenon DEF ManagedInv

\* ssh-add gives the agent at least the keys that were hashed.
LEMMA TaskAddsKeysKeeps ==
    ASSUME ManagedInv, NEW t \in AgentTasks, TaskAddsKeys(t)
    PROVE  ManagedInv'
<1> DEFINE b == [task[t] EXCEPT !.at = "store"]
<1>1. ManagedTypeOK /\ (outlived \/ (OneConnection /\ OneConfigures /\ HeldServes))
  BY Zenon DEF ManagedInv
<1>2. /\ task[t].at = "add" /\ Alive(served)
      /\ UNCHANGED <<keys, registered, slot, setup, served, outlived>>
      /\ task' = [task EXCEPT ![t] = b]
  BY Zenon DEF TaskAddsKeys
<1>3. task[t] \in Tasks  BY <1>1, <1>2, Zenon DEF ManagedTypeOK, Tasks
<1>4. b \in Tasks /\ b.at = "store" /\ b.conn = task[t].conn /\ b.agent = task[t].agent
  BY <1>3, Zenon DEF Tasks
<1> HIDE DEF b
<1>5. task'[t] = b /\ \A u \in AgentTasks : u # t => task'[u] = task[u]
  BY <1>1, <1>2, Zenon DEF ManagedTypeOK
<1>6. agents \in Seq(AgentProcesses) /\ DOMAIN agents = 1..Len(agents) /\ Len(agents) \in Nat
  BY <1>1 DEF ManagedTypeOK
<1>7. \A a \in 1..Len(agents) : agents[a] \in AgentProcesses  BY <1>6
<1>8. agents' = [a \in 1..Len(agents) |->
                   [is |-> agents[a].is,
                    hash |-> IF a = task[t].agent THEN task[t].hash ELSE agents[a].hash,
                    loaded |-> IF a = served THEN keys ELSE agents[a].loaded]]
  BY <1>6, Zenon DEF TaskAddsKeys
<1>9. /\ agents' \in [1..Len(agents) -> AgentProcesses]
      /\ \A a \in 1..Len(agents) : agents'[a].is = agents[a].is
      /\ \A a \in 1..Len(agents) : a = task[t].agent => agents'[a].hash = task[t].hash
      /\ \A a \in 1..Len(agents) : a = served => agents'[a].loaded = keys
  <2>1. task[t].hash \in Nat /\ keys \in Nat  BY <1>1, <1>3 DEF ManagedTypeOK, Tasks
  <2> QED BY <1>7, <1>8, <2>1, Zenon DEF AgentProcesses
<1>10. agents' \in Seq(AgentProcesses) /\ Len(agents') = Len(agents)
  BY <1>6, <1>9
<1>11. Processes' = Processes  BY <1>10, Zenon DEF Processes
<1>12. ManagedTypeOK'
  <2>1. Tasks' = Tasks  BY <1>2, <1>11, Zenon DEF Tasks
  <2>2. task' \in [AgentTasks -> [at : {"idle"}] \union Tasks']
    BY <1>1, <1>2, <1>4, <2>1, Zenon DEF ManagedTypeOK
  <2> QED BY <1>1, <1>2, <1>10, <1>11, <2>2, Zenon DEF ManagedTypeOK
<1>13. ASSUME ~outlived PROVE OneConnection' /\ OneConfigures' /\ HeldServes'
  <2>1. OneConnection /\ OneConfigures /\ HeldServes  BY <1>1, <1>13, Zenon
  <2>2. Configuring(t) /\ served = task[t].agent
    BY <1>2, <2>1, Zenon DEF Configuring, OneConfigures
  <2>3. OneConnection'  BY <1>2, <1>4, <1>5, <2>1, Zenon DEF OneConnection
  <2>4. OneConfigures'
    <3>1. \A u \in AgentTasks : Configuring(u)' => Configuring(u)
      BY <1>4, <1>5, <2>2, Zenon DEF Configuring
    <3>2. \A u \in AgentTasks : Configuring(u) =>
            task'[u].conn = task[u].conn /\ task'[u].agent = task[u].agent
      BY <1>4, <1>5, Zenon
    <3>3. \A u \in AgentTasks : task'[u].at \in {"add", "store"} => served' = task'[u].agent
      BY <1>2, <1>4, <1>5, <2>1, <2>2, Zenon DEF OneConfigures
    <3> QED BY <1>2, <2>1, <3>1, <3>2, <3>3 DEF OneConfigures
  <2>5. HeldServes'
    <3>1. served \in 1..Len(agents)
      BY <1>1, <1>2, <1>6 DEF Alive, ManagedTypeOK, Processes, NoProcess
    <3>2. agents'[served].hash <= agents'[served].loaded /\ agents'[served].loaded <= keys
      <4>1. task[t].hash <= keys /\ keys <= keys  BY <1>1, <1>3 DEF ManagedTypeOK, Tasks
      <4> QED BY <1>9, <2>2, <3>1, <4>1, Zenon
    <3>3. \A c \in Connections : slot[c] # NoProcess => slot[c] \in 1..Len(agents)
      BY <1>1, <1>6 DEF ManagedTypeOK, Processes, NoProcess
    <3>4. \A c \in Connections : Alive(slot[c])' => Alive(slot[c])
      BY <1>2, <1>9, <3>3, Zenon DEF Alive
    <3> QED BY <1>2, <2>1, <3>2, <3>4, Zenon DEF HeldServes
  <2> QED BY <2>3, <2>4, <2>5, Zenon
<1> QED BY <1>2, <1>12, <1>13, Zenon DEF ManagedInv

\* A task ends: it has stored its agent in the connection, or could not add
\* the keys to it and has dropped it.
LEMMA TaskEndsKeeps ==
    ASSUME ManagedInv, NEW t \in AgentTasks, TaskGivesUp(t) \/ TaskStores(t)
    PROVE  ManagedInv'
<1> DEFINE c == task[t].conn
           dropped == IF task[t].at = "add" THEN task[t].agent ELSE slot[c]
<1>1. ManagedTypeOK /\ (outlived \/ (OneConnection /\ OneConfigures /\ HeldServes))
  BY Zenon DEF ManagedInv
<1>2. /\ task[t].at \in {"add", "store"} /\ task' = [task EXCEPT ![t] = IdleTask]
      /\ setup' = setup \ {c} /\ UNCHANGED <<keys, registered, outlived>>
      /\ DropAgent(dropped)
      /\ task[t].at = "add" => slot' = slot
      /\ task[t].at = "store" => slot' = [slot EXCEPT ![c] = task[t].agent]
  BY Zenon DEF TaskGivesUp, TaskStores
<1>3. task[t] \in Tasks /\ c \in Connections /\ task[t].agent \in Processes /\ slot[c] \in Processes
  BY <1>1, <1>2, Zenon DEF ManagedTypeOK, Tasks
<1>4. dropped \in Processes  BY <1>3, Zenon
<1> HIDE DEF dropped
<1>5. /\ agents' \in Seq(AgentProcesses) /\ Len(agents') = Len(agents)
      /\ served' \in {served, NoProcess}
      /\ \A a \in 1..Len(agents) :
           /\ agents'[a].hash = agents[a].hash /\ agents'[a].loaded = agents[a].loaded
           /\ a # dropped => agents'[a].is = agents[a].is
           /\ a = dropped => agents'[a].is = "dead"
      /\ dropped = NoProcess => served' = served
  BY <1>1, <1>2, <1>4, DropAgentKeeps, Zenon
<1>6. Processes' = Processes /\ NoProcess \in Processes
  BY <1>1, <1>5 DEF Processes, NoProcess, ManagedTypeOK
<1>7. task'[t].at = "idle" /\ \A u \in AgentTasks : u # t => task'[u] = task[u]
  BY <1>1, <1>2, Zenon DEF ManagedTypeOK, IdleTask
<1>8. ManagedTypeOK'
  <2>1. Tasks' = Tasks  BY <1>2, <1>6, Zenon DEF Tasks
  <2>2. task' \in [AgentTasks -> [at : {"idle"}] \union Tasks']
    BY <1>1, <1>2, <2>1, Zenon DEF ManagedTypeOK, IdleTask
  <2>3. slot' \in [Connections -> Processes'] /\ served' \in Processes'
    BY <1>1, <1>2, <1>3, <1>5, <1>6, Zenon DEF ManagedTypeOK
  <2> QED BY <1>1, <1>2, <1>5, <2>2, <2>3, Zenon DEF ManagedTypeOK
<1>9. ASSUME ~outlived PROVE OneConnection' /\ OneConfigures' /\ HeldServes'
  <2>1. OneConnection /\ OneConfigures /\ HeldServes  BY <1>1, <1>9, Zenon
  <2>2. Configuring(t) /\ served = task[t].agent /\ slot[c] = NoProcess
    BY <1>2, <2>1, Zenon DEF Configuring, OneConfigures
  <2>3. c = registered /\ \A d \in Connections : slot[d] = NoProcess
    BY <1>2, <2>1, <2>2, Zenon DEF OneConnection
  <2>4. OneConnection'
    BY <1>1, <1>2, <1>3, <1>7, <2>1, <2>3, Zenon DEF OneConnection, ManagedTypeOK
  <2>5. \A u \in AgentTasks : ~Configuring(u)'
    BY <1>7, <2>1, <2>2, Zenon DEF OneConfigures, Configuring
  <2>6. OneConfigures'  BY <2>5, Zenon DEF OneConfigures, Configuring
  <2>7. HeldServes'
    <3>1. \A d \in Connections : slot'[d] # NoProcess =>
            task[t].at = "store" /\ slot'[d] = task[t].agent
      BY <1>1, <1>2, <1>3, <2>3, Zenon DEF ManagedTypeOK
    <3>2. task[t].at = "store" => served' = task[t].agent
      BY <1>5, <2>2, Zenon DEF dropped
    <3>3. served' # NoProcess => served' = served /\ served \in 1..Len(agents)
      BY <1>1, <1>5 DEF ManagedTypeOK, Processes, NoProcess
    <3> QED BY <1>2, <1>5, <2>1, <3>1, <3>2, <3>3, Zenon DEF HeldServes, Alive
  <2> QED BY <2>4, <2>6, <2>7, Zenon
<1> QED BY <1>2, <1>8, <1>9, Zenon DEF ManagedInv

\* A connection that goes, removed with its pod or let go of by its last user,
\* takes its agent with it.
LEMMA ConnectionGoesKeeps ==
    ASSUME ManagedInv, RemoveConnection \/ \E c \in Connections : ConnectionDrops(c)
    PROVE  ManagedInv'
<1>1. ManagedTypeOK /\ (outlived \/ (OneConnection /\ OneConfigures /\ HeldServes))
  BY Zenon DEF ManagedInv
<1>2. PICK c \in Connections :
        /\ slot' = [slot EXCEPT ![c] = NoProcess] /\ DropAgent(slot[c])
        /\ registered' \in {registered, NoConnection}
        /\ registered' = NoConnection \/ (c # registered /\ slot[c] # NoProcess)
        /\ outlived' \in BOOLEAN /\ (outlived => outlived')
        /\ ~outlived' => \A t \in AgentTasks : task[t].at # "idle" => task[t].conn # c
        /\ registered' # registered => c = registered
        /\ UNCHANGED <<keys, setup, task>>
  <2>1. CASE RemoveConnection
    <3>1. registered \in Connections  BY <1>1, <2>1, Zenon DEF RemoveConnection, ManagedTypeOK
    <3>2. outlived' \in BOOLEAN  BY <2>1, Zenon DEF RemoveConnection
    <3> QED BY <2>1, <3>1, <3>2, Zenon DEF RemoveConnection
  <2>2. CASE \E c \in Connections : ConnectionDrops(c)
    <3>1. outlived' = outlived /\ outlived \in BOOLEAN
      BY <1>1, <2>2, Zenon DEF ConnectionDrops, ManagedTypeOK
    <3> QED BY <2>2, <3>1, Zenon DEF ConnectionDrops
  <2> QED BY <2>1, <2>2, Zenon
<1>3. slot[c] \in Processes  BY <1>1, Zenon DEF ManagedTypeOK
<1>4. /\ agents' \in Seq(AgentProcesses) /\ Len(agents') = Len(agents)
      /\ served' \in {served, NoProcess}
      /\ \A a \in 1..Len(agents) :
           agents'[a].hash = agents[a].hash /\ agents'[a].loaded = agents[a].loaded
  BY <1>1, <1>2, <1>3, DropAgentKeeps, Zenon
<1>5. Processes' = Processes /\ NoProcess \in Processes
  BY <1>1, <1>4 DEF Processes, NoProcess, ManagedTypeOK
<1>6. ManagedTypeOK'
  <2>1. Tasks' = Tasks  BY <1>2, <1>5, Zenon DEF Tasks
  <2>2. slot' \in [Connections -> Processes'] /\ served' \in Processes'
    BY <1>1, <1>2, <1>4, <1>5, Zenon DEF ManagedTypeOK
  <2> QED BY <1>1, <1>2, <1>4, <2>1, <2>2, Zenon DEF ManagedTypeOK
<1>7. ASSUME ~outlived' PROVE OneConnection' /\ OneConfigures' /\ HeldServes'
  <2>1. OneConnection /\ OneConfigures /\ HeldServes  BY <1>1, <1>2, <1>7, Zenon
  <2>2. /\ registered' = NoConnection
        /\ \A d \in Connections : slot'[d] = NoProcess
    <3>1. NoConnection \notin Connections  BY Zenon DEF NoConnection, Connections
    <3>2. registered' = NoConnection  BY <1>2, <2>1, Zenon DEF OneConnection
    <3>3. \A d \in Connections : slot'[d] = IF d = c THEN NoProcess ELSE slot[d]
      BY <1>1, <1>2, Zenon DEF ManagedTypeOK
    <3> QED BY <1>2, <2>1, <3>1, <3>2, <3>3, Zenon DEF OneConnection
  <2>3. \A t \in AgentTasks : task[t].at = "idle"
    <3>1. \A t \in AgentTasks : task[t].at # "idle" => task[t].conn \in Connections
      BY <1>1, Zenon DEF ManagedTypeOK, Tasks
    <3>2. NoConnection \notin Connections  BY Zenon DEF NoConnection, Connections
    <3> QED BY <1>2, <1>7, <2>1, <2>2, <3>1, <3>2, Zenon DEF OneConnection
  <2>4. OneConnection' /\ OneConfigures'
    BY <1>2, <2>2, <2>3, Zenon DEF OneConnection, OneConfigures, Configuring
  <2>5. HeldServes'
    <3>1. served' # NoProcess => served' = served /\ served \in 1..Len(agents)
      BY <1>1, <1>4 DEF ManagedTypeOK, Processes, NoProcess
    <3> QED BY <1>2, <1>4, <2>1, <2>2, <3>1, Zenon DEF HeldServes, Alive
  <2> QED BY <2>4, <2>5, Zenon
<1> QED BY <1>2, <1>6, <1>7, Zenon DEF ManagedInv

\* The user edits the keys, or the agent process dies.
LEMMA KeysOrAgentGoKeeps ==
    ASSUME ManagedInv, KeysChange \/ AgentDies
    PROVE  ManagedInv'
<1>1. ManagedTypeOK /\ (outlived \/ (OneConnection /\ OneConfigures /\ HeldServes))
  BY Zenon DEF ManagedInv
<1>2. /\ UNCHANGED <<registered, slot, setup, task, served, outlived>>
      /\ keys' \in {keys, keys + 1}
      /\ agents' = agents \/ (keys' = keys /\ Alive(served) /\ agents' = Killed(served))
  BY Zenon DEF KeysChange, AgentDies
<1>3. /\ agents' \in Seq(AgentProcesses) /\ Len(agents') = Len(agents)
      /\ \A a \in 1..Len(agents) :
           /\ agents'[a].hash = agents[a].hash /\ agents'[a].loaded = agents[a].loaded
           /\ agents'[a].is = "alive" => agents[a].is = "alive"
  <2>1. agents \in Seq(AgentProcesses)  BY <1>1, Zenon DEF ManagedTypeOK
  <2>2. CASE agents' = agents  BY <2>1, <2>2, Zenon
  <2>3. CASE Alive(served) /\ agents' = Killed(served)
    <3> DEFINE b == [agents[served] EXCEPT !.is = "dead"]
    <3>1. served \in 1..Len(agents)
      BY <1>1, <2>1, <2>3 DEF Alive, ManagedTypeOK, Processes, NoProcess
    <3>2. agents[served] \in AgentProcesses  BY <2>1, <3>1
    <3>3. /\ b \in AgentProcesses /\ b.hash = agents[served].hash
          /\ b.loaded = agents[served].loaded /\ b.is = "dead"
      BY <3>2, Zenon DEF AgentProcesses
    <3>4. agents' = [agents EXCEPT ![served] = b]
      BY <2>3, Zenon DEF Killed, Alive
    <3> HIDE DEF b
    <3> QED BY <2>1, <3>1, <3>3, <3>4
  <2> QED BY <1>2, <2>2, <2>3, Zenon
<1>4. Processes' = Processes  BY <1>3, Zenon DEF Processes
<1>5. ManagedTypeOK'
  <2>1. keys' \in Nat \ {0} /\ 0..keys \subseteq 0..keys'  BY <1>1, <1>2 DEF ManagedTypeOK
  <2>2. Tasks \subseteq Tasks'  BY <1>4, <2>1, Zenon DEF Tasks
  <2> QED BY <1>1, <1>2, <1>3, <1>4, <2>1, <2>2, Zenon DEF ManagedTypeOK
<1>6. OneConnection => OneConnection'  BY <1>2, Zenon DEF OneConnection
<1>7. OneConfigures => OneConfigures'  BY <1>2, Zenon DEF OneConfigures, Configuring
<1>8. HeldServes => HeldServes'
  <2> SUFFICES ASSUME HeldServes PROVE HeldServes'
    BY Zenon
  <2>1. \A c \in Connections : slot[c] # NoProcess => slot[c] \in 1..Len(agents)
    BY <1>1 DEF ManagedTypeOK, Processes, NoProcess
  <2>2. \A c \in Connections : Alive(slot[c])' => Alive(slot[c])
    BY <1>2, <1>3, <2>1, Zenon DEF Alive
  <2>3. served # NoProcess => served \in 1..Len(agents)
    BY <1>1 DEF ManagedTypeOK, Processes, NoProcess
  <2>4. served # NoProcess => agents'[served].loaded <= keys'
    <3>1. served # NoProcess => agents[served] \in AgentProcesses
      BY <1>1, <2>3 DEF ManagedTypeOK
    <3>2. served # NoProcess => agents[served].loaded \in Nat  BY <3>1, Zenon DEF AgentProcesses
    <3>3. served # NoProcess =>
            agents'[served].loaded = agents[served].loaded /\ agents[served].loaded <= keys
      BY <1>3, <2>3, Zenon DEF HeldServes
    <3>4. \A x \in Nat : x <= keys => x <= keys'  BY <1>1, <1>2 DEF ManagedTypeOK
    <3> QED BY <3>2, <3>3, <3>4, Zenon
  <2> QED BY <1>2, <1>3, <2>2, <2>3, <2>4, Zenon DEF HeldServes
<1> QED BY <1>1, <1>2, <1>5, <1>6, <1>7, <1>8, Zenon DEF ManagedInv

-----------------------------------------------------------------------------

\* Every step keeps the invariant.
LEMMA SshNextInv == SshInv /\ [SshNext]_sshVars => SshInv'
<1> SUFFICES ASSUME SshInv, [SshNext]_sshVars PROVE SshInv'
  BY Zenon
<1>1. AmbientInv /\ ManagedInv  BY Zenon DEF SshInv
<1>2. UNCHANGED ambientVars => AmbientInv'
  BY <1>1 DEF ambientVars, AmbientInv, AmbientTypeOK, GenerationsName, SteadyAnswer, ProbesKnown,
     LiveAgentsKept
<1>3. UNCHANGED managedVars => ManagedInv'
  BY <1>1 DEF managedVars, ManagedInv, ManagedTypeOK, Tasks, Processes, OneConnection,
     OneConfigures, Configuring, HeldServes, Alive
<1>4. ASSUME \E s \in Sockets : Remember(s) \/ SocketDies(s) \/ SocketReturns(s)
      PROVE  SshInv'
  <2>1. AmbientInv'  BY <1>1, <1>4, RememberKeeps, ProbesKeep, Zenon
  <2>2. UNCHANGED managedVars  BY <1>4, Zenon DEF Remember, SocketDies, SocketReturns
  <2> QED BY <1>3, <2>1, <2>2, Zenon DEF SshInv
<1>5. ASSUME \E r \in AgentAsks : Probe(r) \/ ProbeAnswers(r) \/ ProbeTimesOut(r) \/ Discard(r)
                                  \/ Hangup(r)
      PROVE  SshInv'
  <2>1. AmbientInv'  BY <1>1, <1>5, ProbesKeep, Zenon
  <2>2. UNCHANGED managedVars
    BY <1>5, Zenon DEF Probe, ProbeAnswers, ProbeTimesOut, Discard, Hangup
  <2> QED BY <1>3, <2>1, <2>2, Zenon DEF SshInv
<1>6. ASSUME NEW t \in AgentTasks,
             \/ \E kind \in {"configure", "ensure"} : TaskBegins(t, kind)
             \/ TaskLooks(t) \/ TaskStarts(t) \/ TaskAddsKeys(t) \/ TaskGivesUp(t) \/ TaskStores(t)
      PROVE  SshInv'
  <2>1. ManagedInv'
    BY Zenon, <1>1, <1>6, TaskBeginsKeeps, TaskLooksKeeps, TaskStartsKeeps, TaskAddsKeysKeeps,
       TaskEndsKeeps
  <2>2. UNCHANGED ambientVars
    BY <1>6, Zenon DEF TaskBegins, TaskLooks, TaskStarts, TaskAddsKeys, TaskGivesUp, TaskStores
  <2> QED BY <1>2, <2>1, <2>2, Zenon DEF SshInv
<1>7. ASSUME KeysChange \/ AgentDies \/ RemoveConnection
             \/ \E c \in Connections : ConnectionDrops(c)
      PROVE  SshInv'
  <2>1. ManagedInv'  BY <1>1, <1>7, KeysOrAgentGoKeeps, ConnectionGoesKeeps, Zenon
  <2>2. UNCHANGED ambientVars
    BY <1>7, Zenon DEF KeysChange, AgentDies, RemoveConnection, ConnectionDrops
  <2> QED BY <1>2, <2>1, <2>2, Zenon DEF SshInv
<1>8. CASE UNCHANGED sshVars
  BY <1>2, <1>3, <1>8, Zenon DEF sshVars, ambientVars, managedVars, SshInv
<1> QED BY <1>4, <1>5, <1>6, <1>7, <1>8, Zenon DEF SshNext

\* Whatever clients name, whichever sockets die and however many tasks
\* configure the managed agent: an ambient agent that answers is kept until
\* it is displaced, and a live managed agent is reachable with its keys.
THEOREM AgentsAlwaysServe == SshSpec => []AgentsServe
<1>1. SshInv => AgentsServe
  <2> SUFFICES ASSUME SshInv PROVE AgentsServe
    BY Zenon
  <2>1. LiveAgentsKept /\ ManagedInv  BY Zenon DEF SshInv, AmbientInv
  <2>2. ASSUME ~outlived, NEW c \in Connections, Alive(slot[c])
        PROVE  /\ served = slot[c]
               /\ agents[slot[c]].hash = keys => agents[slot[c]].loaded = keys
    <3>1. ManagedTypeOK /\ HeldServes  BY <2>1, <2>2, Zenon DEF ManagedInv
    <3>2. served = slot[c] /\ slot[c] # NoProcess  BY <2>2, <3>1, Zenon DEF HeldServes, Alive
    <3>3. agents[slot[c]] \in AgentProcesses /\ keys \in Nat
      BY <3>1, <3>2 DEF ManagedTypeOK, Processes, NoProcess
    <3> QED BY <3>1, <3>2, <3>3 DEF HeldServes, AgentProcesses
  <2>3. AgentIsReachable  BY <2>2, Zenon DEF AgentIsReachable
  <2> QED BY <2>1, <2>3, Zenon DEF AgentsServe
<1> QED BY <1>1, SshInitInv, SshNextInv, PTL DEF SshSpec

-----------------------------------------------------------------------------
(* LfsRelay                                                                  *)

History == Seq(Payloads \union {Old})

\* The ways a push asks for refs: some branches, each with a history.
Wants == UNION {[S -> History] : S \in SUBSET LfsBranches}

Uploads ==
    [at : {"batch", "put"}, skip : BOOLEAN, want : Wants, new : SUBSET LfsBranches,
     old : [LfsBranches -> History], needs : SUBSET (Payloads \union {Old}),
     send : SUBSET Payloads, open : SUBSET Payloads]
Pushes == [at : {"idle"}] \union [at : {"start"}, refs : SUBSET LfsBranches] \union Uploads

LfsTypeOK ==
    /\ tip \in [LfsPods -> [LfsBranches -> History]]
    /\ shown \in [LfsPods -> [LfsBranches -> History]]
    /\ fetched \in [LfsPods -> SUBSET History]
    /\ has \in [LfsPods -> SUBSET Payloads]
    /\ store \in [Payloads -> {NotStored, Partial, Whole}]
    /\ writer \in [Payloads -> Lanes \union {Nobody}]
    /\ pushing \in [Lanes -> Pushes]

\* The host has the payload, or it is one of the exceptions.
AccountedFor(o) ==
    \/ o = Old
    \/ o \in Payloads /\ (store[o] = Whole \/ BeingWritten(o))
    \/ o \in cut \union mixed \union landed

Settled(history) == \A o \in Range(history) : AccountedFor(o)

\* What the host shows, and what pods have of it, is accounted for, and so is
\* every file in the store.
RefsSettled ==
    /\ tracked = shown
    /\ \A p \in LfsPods : \A b \in LfsBranches : Settled(shown[p][b])
    /\ \A p \in LfsPods : \A c \in fetched[p] : Settled(c)
    /\ \A o \in Payloads : store[o] # NotStored => AccountedFor(o)

\* The heads whose payloads a push looks at: with the hook off, the new ones.
Checked(job) == IF job.skip THEN job.new ELSE DOMAIN job.want

\* Of the heads a push looks at, it uploads what is not accounted for.
Owes(job) ==
    /\ job.at \in {"batch", "put"} =>
         /\ job.new \subseteq DOMAIN job.want
         /\ \A b \in Checked(job) : \A o \in Range(job.want[b]) :
              AccountedFor(o) \/ o \in job.needs
    /\ job.at = "batch" => job.open = {}
    /\ job.at = "put" =>
         /\ \A o \in job.needs : AccountedFor(o) \/ o \in job.send
         /\ job.open \subseteq job.send
         /\ \A o \in job.open : store[o] # NotStored

PushesOwe == \A l \in Lanes : Owes(pushing[l])

LfsInv == LfsTypeOK /\ RefsSettled /\ PushesOwe

\* A lane that pushes nothing is idle.
LEMMA NotPushingIsIdle == NotPushing \in Pushes /\ NotPushing.at = "idle"
BY Zenon DEF NotPushing, Pushes

\* A lane is a pod's.
LEMMA LaneOfPod == \A l \in Lanes : PodOfLane(l) \in LfsPods
BY DEF Lanes, PodOfLane

\* A history's payloads are payloads.
LEMMA PayloadsOfHistory ==
    ASSUME NEW c \in History
    PROVE  Range(c) \subseteq Payloads \union {Old}
BY DEF Range, History

\* Before any push every ref is the host's own head, or none.
LEMMA LfsInitInv == LfsInit => LfsInv
<1> SUFFICES ASSUME LfsInit PROVE LfsInv
  BY Zenon
<1>1. HostHead \in History /\ Unborn \in History  BY DEF HostHead, Unborn, History
<1>2. Settled(HostHead) /\ Settled(Unborn)
  BY DEF HostHead, Unborn, Settled, AccountedFor, Range
<1>3. LfsTypeOK
  BY <1>1, Zenon DEF LfsInit, LfsTypeOK, Pushes, NotPushing, NotStored
<1>4. RefsSettled  BY <1>2, Zenon DEF LfsInit, RefsSettled
<1>5. PushesOwe  BY Zenon DEF LfsInit, PushesOwe, Owes, NotPushing
<1> QED BY <1>3, <1>4, <1>5, Zenon DEF LfsInv

-----------------------------------------------------------------------------
(* What a push asks for                                                      *)

\* rev-list leaves out only what the bases have.
LEMMA OutsideTheBases ==
    ASSUME NEW bases, NEW new \in History, \A c \in bases : Settled(c)
    PROVE  /\ PayloadsOutside(bases, new) \subseteq Payloads \union {Old}
           /\ \A o \in Range(new) : AccountedFor(o) \/ o \in PayloadsOutside(bases, new)
<1>1. PayloadsOutside(bases, new) \subseteq Payloads \union {Old}
  BY PayloadsOfHistory, Zenon DEF PayloadsOutside
<1>2. ASSUME NEW o \in Range(new), o \notin PayloadsOutside(bases, new)
      PROVE  AccountedFor(o)
  BY <1>2, Zenon DEF PayloadsOutside, Settled
<1> QED BY <1>1, <1>2, Zenon

\* The remote-tracking refs and the fetched ones are what the host has shown.
LEMMA BasesSettled ==
    ASSUME LfsInv, NEW p \in LfsPods, NEW new
    PROVE  /\ \A c \in Known(p) : Settled(c)
           /\ \A c \in TrackedBases(p, new) : Settled(c)
<1>1. \A c \in Range(tracked[p]) : \E b \in LfsBranches : c = shown[p][b]
  BY Zenon DEF LfsInv, LfsTypeOK, RefsSettled, Range
<1>2. \A c \in Known(p) : Settled(c)
  BY <1>1, Zenon DEF LfsInv, RefsSettled, Known
<1> QED BY <1>2, Zenon DEF TrackedBases, Known

\* prepare_lfs_for_rumpelpod_push has what is outside the bases of a new ref
\* uploaded, or leaves it to the hook.
LEMMA PreparedOwes ==
    ASSUME LfsInv, NEW p \in LfsPods, NEW want \in Wants, NEW new, new \subseteq DOMAIN want
    PROVE  Prepared(p, want, new) \in Pushes /\ Owes(Prepared(p, want, new))
<1> DEFINE job == Prepared(p, want, new)
<1>1. /\ \A b \in DOMAIN want : want[b] \in History /\ b \in LfsBranches
      /\ DOMAIN want \subseteq LfsBranches
  BY Zenon DEF Wants
<1>2. CASE new # {} /\ \A b \in new : TrackedBases(p, want[b]) # {}
  <2> DEFINE needs == UNION {PayloadsOutside(TrackedBases(p, want[b]), want[b]) : b \in new}
  <2>1. \A b \in DOMAIN want :
          /\ PayloadsOutside(TrackedBases(p, want[b]), want[b]) \subseteq Payloads \union {Old}
          /\ \A o \in Range(want[b]) :
               AccountedFor(o) \/ o \in PayloadsOutside(TrackedBases(p, want[b]), want[b])
    BY <1>1, OutsideTheBases, BasesSettled, Zenon
  <2>2. /\ needs \subseteq Payloads \union {Old}
        /\ \A b \in new : \A o \in Range(want[b]) : AccountedFor(o) \/ o \in needs
    BY <2>1, Zenon
  <2>3. job = Uploading(TRUE, want, new, shown[p], needs)  BY <1>2, Zenon DEF Prepared
  <2> HIDE DEF needs, job
  <2>4. /\ job.at = "batch" /\ job.skip = TRUE /\ job.want = want /\ job.new = new
        /\ job.needs = needs /\ job.open = {}
    BY <2>3, Zenon DEF Uploading
  <2>5. job \in Uploads
    <3>1. shown[p] \in [LfsBranches -> History]  BY Zenon DEF LfsInv, LfsTypeOK
    <3> QED BY <1>1, <2>2, <2>3, <3>1, Zenon DEF Uploads, Uploading
  <2>6. Owes(job)  BY <2>2, <2>4, Zenon DEF Owes, Checked
  <2> QED BY <2>5, <2>6, Zenon DEF job, Pushes
<1>3. CASE ~(new # {} /\ \A b \in new : TrackedBases(p, want[b]) # {})
  <2>1. job = [at |-> "start", refs |-> DOMAIN want]  BY <1>3, Zenon DEF Prepared
  <2> HIDE DEF job
  <2>2. job \in Pushes /\ job.at = "start"  BY <1>1, <2>1, Zenon DEF Pushes
  <2> QED BY <2>2, Zenon DEF Owes, job
<1> QED BY <1>2, <1>3, Zenon

-----------------------------------------------------------------------------
(* Every step keeps the invariant                                            *)

\* What is accounted for stays so in a step that leaves the store alone and
\* changes the push of a lane that has no file open.
LEMMA AccountedKept ==
    ASSUME LfsTypeOK, NEW l \in Lanes, NEW job,
           pushing' = [pushing EXCEPT ![l] = job],
           pushing[l].at = "put" => pushing[l].open = {},
           UNCHANGED <<store, writer, cut>>, mixed \subseteq mixed', landed \subseteq landed'
    PROVE  \A o : AccountedFor(o) => AccountedFor(o)'
<1>1. \A k \in Lanes : k # l => pushing'[k] = pushing[k]  BY Zenon DEF LfsTypeOK
<1>2. \A o : BeingWritten(o) => BeingWritten(o)'  BY <1>1, Zenon DEF BeingWritten
<1> QED BY <1>2, Zenon DEF AccountedFor

\* The refs stay settled when what is accounted for stays so, and a file that
\* is new in the store is accounted for.
LEMMA RefsStaySettled ==
    ASSUME RefsSettled, UNCHANGED <<shown, tracked, fetched>>,
           \A o : AccountedFor(o) => AccountedFor(o)',
           \A o \in Payloads : store'[o] # NotStored => store[o] # NotStored \/ AccountedFor(o)'
    PROVE  RefsSettled'
BY Zenon DEF RefsSettled, Settled

\* A push that does not move owes no more than it did.
LEMMA PushStillOwes ==
    ASSUME LfsTypeOK, PushesOwe, NEW l \in Lanes, pushing'[l] = pushing[l],
           \A o : AccountedFor(o) => AccountedFor(o)',
           \A o \in Payloads : store[o] # NotStored => store'[o] # NotStored
    PROVE  Owes(pushing[l])'
<1>1. pushing[l].at = "put" => pushing[l].open \subseteq Payloads
  BY Zenon DEF LfsTypeOK, Pushes, Uploads
<1> QED BY <1>1, Zenon DEF PushesOwe, Owes, Checked

\* A push that moves on without a file open, to one that owes what it should.
LEMMA LaneMoves ==
    ASSUME LfsInv, NEW l \in Lanes, NEW job \in Pushes, Owes(job),
           pushing' = [pushing EXCEPT ![l] = job],
           pushing[l].at = "put" => pushing[l].open = {},
           tip' \in [LfsPods -> [LfsBranches -> History]],
           has' \in [LfsPods -> SUBSET Payloads],
           UNCHANGED <<shown, tracked, fetched, store, writer, cut, mixed, landed>>
    PROVE  LfsInv'
<1>1. LfsTypeOK'  BY Zenon DEF LfsInv, LfsTypeOK
<1>2. \A o : AccountedFor(o) => AccountedFor(o)'  BY AccountedKept, Zenon DEF LfsInv
<1>3. RefsSettled'  BY <1>2, RefsStaySettled, Zenon DEF LfsInv
<1>4. pushing'[l] = job /\ \A k \in Lanes : k # l => pushing'[k] = pushing[k]
  BY Zenon DEF LfsInv, LfsTypeOK
<1>5. Owes(pushing[l])'  BY <1>2, <1>4, Zenon DEF Owes, Checked
<1>6. PushesOwe'  BY <1>2, <1>4, <1>5, PushStillOwes, Zenon DEF PushesOwe, LfsInv
<1> QED BY <1>1, <1>3, <1>6, Zenon DEF LfsInv

\* A commit, and a push of every branch, begin a push for what they have.
LEMMA PodBeginsPush ==
    ASSUME LfsInv, NEW p \in LfsPods,
           PushAll(p) \/ \E b \in LfsBranches, o \in Payloads : CommitPayload(p, b, o)
    PROVE  LfsInv'
<1>0. <<p, "hook">> \in Lanes /\ <<p, "server">> \in Lanes  BY DEF Lanes
<1>1. CASE PushAll(p)
  <2> DEFINE want == [b \in Heads(p) |-> tip[p][b]]
             new == {b \in Heads(p) : tracked[p][b] = Unborn}
             l == <<p, "server">>
  <2>1. want \in Wants
    <3>1. want \in [Heads(p) -> History]  BY DEF LfsInv, LfsTypeOK, Heads
    <3>2. Heads(p) \subseteq LfsBranches  BY Zenon DEF Heads
    <3> QED BY <3>1, <3>2, Zenon DEF Wants
  <2>2. new \subseteq DOMAIN want  BY Zenon
  <2>3. /\ pushing' = [pushing EXCEPT ![l] = Prepared(p, want, new)]
        /\ pushing[l] = NotPushing
        /\ UNCHANGED <<tip, shown, tracked, fetched, has, store, writer, cut, mixed, landed>>
    BY <1>1, Zenon DEF PushAll
  <2> HIDE DEF want, new
  <2>4. Prepared(p, want, new) \in Pushes /\ Owes(Prepared(p, want, new))
    BY <2>1, <2>2, PreparedOwes, Zenon
  <2>5. tip' \in [LfsPods -> [LfsBranches -> History]] /\ has' \in [LfsPods -> SUBSET Payloads]
    BY <2>3, Zenon DEF LfsInv, LfsTypeOK
  <2>6. pushing[l].at = "idle" /\ l \in Lanes  BY <1>0, <2>3, NotPushingIsIdle, Zenon
  <2> HIDE DEF l
  <2> QED BY <2>3, <2>4, <2>5, <2>6, LaneMoves, Zenon
<1>2. ASSUME NEW b \in LfsBranches, NEW o \in Payloads, CommitPayload(p, b, o)
      PROVE  LfsInv'
  <2> DEFINE l == <<p, "hook">>
             new == IF tip[p][b] = Unborn THEN {b} ELSE {}
  <2>1. PICK base \in IF tip[p][b] # Unborn THEN {tip[p][b]} ELSE fetched[p] \union {Unborn} :
          /\ tip' = [tip EXCEPT ![p][b] = Append(base, o)]
          /\ pushing' = [pushing EXCEPT ![l] = Prepared(p, [x \in {b} |-> Append(base, o)], new)]
    BY <1>2, Zenon DEF CommitPayload
  <2> DEFINE want == [x \in {b} |-> Append(base, o)]
  <2>2. base \in History  BY SMTT(30) DEF LfsInv, LfsTypeOK, Unborn, History
  <2>3. Append(base, o) \in History  BY <2>2 DEF History
  <2>4. want \in Wants
    <3>1. want \in [{b} -> History]  BY <2>3, Zenon
    <3> QED BY <3>1, Zenon DEF Wants
  <2>5. tip' \in [LfsPods -> [LfsBranches -> History]]  BY <2>1, <2>3, Zenon DEF LfsInv, LfsTypeOK
  <2>6. has' \in [LfsPods -> SUBSET Payloads]  BY <1>2 DEF CommitPayload, LfsInv, LfsTypeOK
  <2>7. /\ pushing[l] = NotPushing
        /\ UNCHANGED <<shown, tracked, fetched, store, writer, cut, mixed, landed>>
    BY <1>2, Zenon DEF CommitPayload
  <2>8. new \subseteq DOMAIN want  BY Zenon
  <2>9. pushing' = [pushing EXCEPT ![l] = Prepared(p, want, new)]  BY <2>1, Zenon
  <2> HIDE DEF want, new
  <2>10. Prepared(p, want, new) \in Pushes /\ Owes(Prepared(p, want, new))
    BY <2>4, <2>8, PreparedOwes, Zenon
  <2>11. pushing[l].at = "idle" /\ l \in Lanes  BY <1>0, <2>7, NotPushingIsIdle, Zenon
  <2> HIDE DEF l
  <2> QED BY <2>5, <2>6, <2>7, <2>9, <2>10, <2>11, LaneMoves, Zenon
<1> QED BY <1>1, <1>2, Zenon

\* `git push` looks at the heads it is to push: the hook uploads whatever of
\* them the host is not known to have.
LEMMA GitPushStartsKeeps ==
    ASSUME LfsInv, NEW l \in Lanes, GitPushStarts(l)
    PROVE  LfsInv'
<1> DEFINE p == PodOfLane(l)
           refs == IF ForAll(l) THEN Heads(p) ELSE pushing[l].refs
           want == [b \in refs |-> tip[p][b]]
           needs == UNION {PrePush(p, b, tip[p][b]) : b \in refs}
           job == Uploading(FALSE, want, {}, shown[p], needs)
<1>1. /\ pushing[l].at = "start" /\ pushing' = [pushing EXCEPT ![l] = job]
      /\ UNCHANGED <<tip, shown, tracked, fetched, has, store, writer, cut, mixed, landed>>
  BY Zenon DEF GitPushStarts
<1>2. p \in LfsPods  BY LaneOfPod, Zenon
<1>3. refs \subseteq LfsBranches
  <2>1. pushing[l] \in Pushes  BY Zenon DEF LfsInv, LfsTypeOK
  <2>2. pushing[l].refs \subseteq LfsBranches  BY <1>1, <2>1, Zenon DEF Pushes, Uploads
  <2> QED BY <2>2, Zenon DEF Heads
<1> HIDE DEF p, refs
<1>4. \A b \in refs : tip[p][b] \in History  BY <1>2, <1>3, Zenon DEF LfsInv, LfsTypeOK
<1>5. \A b \in refs :
        /\ PrePush(p, b, tip[p][b]) \subseteq Payloads \union {Old}
        /\ \A o \in Range(tip[p][b]) : AccountedFor(o) \/ o \in PrePush(p, b, tip[p][b])
  <2> SUFFICES ASSUME NEW b \in refs
               PROVE  /\ PrePush(p, b, tip[p][b]) \subseteq Payloads \union {Old}
                      /\ \A o \in Range(tip[p][b]) : AccountedFor(o) \/ o \in PrePush(p, b, tip[p][b])
    BY Zenon
  <2>1. /\ PayloadsOutside(Known(p), tip[p][b]) \subseteq Payloads \union {Old}
        /\ \A o \in Range(tip[p][b]) :
             AccountedFor(o) \/ o \in PayloadsOutside(Known(p), tip[p][b])
    BY <1>2, <1>4, OutsideTheBases, BasesSettled, Zenon
  <2>2. Range(tip[p][b]) \subseteq Payloads \union {Old}  BY <1>4, PayloadsOfHistory, Zenon
  <2> QED BY <2>1, <2>2, Zenon DEF PrePush, Known
<1>6. /\ needs \subseteq Payloads \union {Old}
      /\ \A b \in refs : \A o \in Range(tip[p][b]) : AccountedFor(o) \/ o \in needs
  BY <1>5, Zenon
<1>7. want \in Wants /\ DOMAIN want = refs /\ \A b \in refs : want[b] = tip[p][b]
  <2>1. want \in [refs -> History]  BY <1>4, Zenon
  <2> QED BY <1>3, <2>1, Zenon DEF Wants
<1> HIDE DEF want, needs
<1>8. job \in Uploads
  <2>1. shown[p] \in [LfsBranches -> History]  BY <1>2, Zenon DEF LfsInv, LfsTypeOK
  <2> QED BY <1>6, <1>7, <2>1, Zenon DEF Uploads, Uploading
<1>9. /\ job.at = "batch" /\ job.skip = FALSE /\ job.want = want /\ job.new = {}
      /\ job.needs = needs /\ job.open = {}
  BY Zenon DEF Uploading
<1> HIDE DEF job
<1>10. Owes(job)  BY <1>6, <1>7, <1>9, Zenon DEF Owes, Checked
<1>11. tip' \in [LfsPods -> [LfsBranches -> History]] /\ has' \in [LfsPods -> SUBSET Payloads]
  BY <1>1, Zenon DEF LfsInv, LfsTypeOK
<1>12. job \in Pushes  BY <1>8, Zenon DEF Pushes
<1> QED BY <1>1, <1>10, <1>11, <1>12, LaneMoves, Zenon

\* Another pod's branches, and a payload of them, come to a pod.
LEMMA FetchesKeep ==
    ASSUME LfsInv, NEW p \in LfsPods, FetchPeers(p) \/ \E o \in Payloads : Download(p, o)
    PROVE  LfsInv'
<1>1. CASE FetchPeers(p)
  <2>1. UNCHANGED <<tip, shown, tracked, has, store, writer, pushing, cut, mixed, landed>>
    BY <1>1, Zenon DEF FetchPeers
  <2>2. /\ fetched' \in [LfsPods -> SUBSET History]
        /\ \A q \in LfsPods : q # p => fetched'[q] = fetched[q]
        /\ \A c \in fetched'[p] :
             c \in fetched[p] \/ \E q \in LfsPods, b \in LfsBranches : c = shown[q][b]
    <3> DEFINE seen == (fetched[p] \union {shown[q][b] : q \in LfsPods \ {p}, b \in LfsBranches})
                          \ {Unborn}
    <3>1. fetched' = [fetched EXCEPT ![p] = seen]  BY <1>1 DEF FetchPeers
    <3>2. seen \subseteq History  BY DEF LfsInv, LfsTypeOK
    <3>3. \A c \in seen :
            c \in fetched[p] \/ \E q \in LfsPods, b \in LfsBranches : c = shown[q][b]
      OBVIOUS
    <3> HIDE DEF seen
    <3> QED BY <3>1, <3>2, <3>3, Zenon DEF LfsInv, LfsTypeOK
  <2>3. LfsTypeOK'  BY <2>1, <2>2, Zenon DEF LfsInv, LfsTypeOK
  <2>4. \A o : AccountedFor(o)' <=> AccountedFor(o)  BY <2>1, Zenon DEF AccountedFor, BeingWritten
  <2>5. RefsSettled'
    <3>1. \A c \in fetched'[p] : Settled(c)  BY <2>2, ZenonT(60) DEF LfsInv, RefsSettled
    <3>2. \A q \in LfsPods : q # p => \A c \in fetched'[q] : Settled(c)
      BY <2>2, Zenon DEF LfsInv, RefsSettled
    <3> QED BY <2>1, <2>4, <3>1, <3>2, Zenon DEF LfsInv, RefsSettled, Settled
  <2>6. PushesOwe'  BY <2>1, <2>4, Zenon DEF LfsInv, PushesOwe, Owes
  <2> QED BY <2>3, <2>5, <2>6, Zenon DEF LfsInv
<1>2. ASSUME NEW o \in Payloads, Download(p, o)
      PROVE  LfsInv'
  <2>1. UNCHANGED <<tip, shown, tracked, fetched, store, writer, pushing, cut, mixed, landed>>
    BY <1>2, Zenon DEF Download
  <2>2. LfsTypeOK'  BY <1>2, <2>1 DEF Download, LfsInv, LfsTypeOK
  <2>3. \A x : AccountedFor(x)' <=> AccountedFor(x)  BY <2>1, Zenon DEF AccountedFor, BeingWritten
  <2>4. RefsSettled'  BY <2>1, <2>3, Zenon DEF LfsInv, RefsSettled, Settled
  <2>5. PushesOwe'  BY <2>1, <2>3, Zenon DEF LfsInv, PushesOwe, Owes
  <2> QED BY <2>2, <2>4, <2>5, Zenon DEF LfsInv
<1> QED BY <1>1, <1>2, Zenon

\* What lfs_batch_handler does not ask for has a file; a lost push has nothing
\* open.
LEMMA PushMovesOn ==
    ASSUME LfsInv, NEW l \in Lanes, Batch(l) \/ PushLost(l)
    PROVE  LfsInv'
<1>0. pushing[l] \in Pushes  BY Zenon DEF LfsInv, LfsTypeOK
<1> DEFINE asked == AskedFor(l)
           put == [pushing[l] EXCEPT !.at = "put", !.send = asked]
<1>1. PICK job \in {NotPushing, put} :
        /\ pushing' = [pushing EXCEPT ![l] = job]
        /\ job = put => pushing[l].at = "batch" /\ asked \subseteq has[PodOfLane(l)]
  BY Zenon DEF Batch, PushLost, NotPushing
<1>2. pushing[l].at = "put" => pushing[l].open = {}  BY Zenon DEF Batch, PushLost
<1>3. UNCHANGED <<tip, shown, tracked, fetched, has, store, writer, cut, mixed, landed>>
  BY Zenon DEF Batch, PushLost
<1>4. job = put => put \in Uploads /\ Owes(put)
  <2>1. SUFFICES ASSUME job = put PROVE put \in Uploads /\ Owes(put)
    BY Zenon
  <2>2. pushing[l] \in Uploads  BY <1>0, <1>1, <2>1, Zenon DEF Pushes
  <2>3. asked \subseteq Payloads
    <3>1. has[PodOfLane(l)] \subseteq Payloads  BY LaneOfPod, Zenon DEF LfsInv, LfsTypeOK
    <3> QED BY <1>1, <2>1, <3>1, Zenon
  <2>4. \A o \in pushing[l].needs : o \in asked \/ AccountedFor(o)
    <3>1. pushing[l].needs \subseteq Payloads \union {Old}  BY <2>2, Zenon DEF Uploads
    <3> QED BY <3>1, Zenon DEF AskedFor, LfsInv, RefsSettled, AccountedFor
  <2> HIDE DEF asked
  <2>5. /\ put \in Uploads /\ put.at = "put" /\ put.send = asked
        /\ put.skip = pushing[l].skip /\ put.want = pushing[l].want /\ put.new = pushing[l].new
        /\ put.needs = pushing[l].needs /\ put.open = pushing[l].open
    BY <2>2, <2>3, Zenon DEF Uploads
  <2> HIDE DEF put
  <2>6. Owes(pushing[l]) /\ pushing[l].at = "batch"  BY <1>1, <2>1, Zenon DEF LfsInv, PushesOwe
  <2>7. Checked(put) = Checked(pushing[l])  BY <2>5, Zenon DEF Checked
  <2> QED BY <2>4, <2>5, <2>6, <2>7, Zenon DEF Owes
<1>5. job \in Pushes /\ Owes(job)
  <2>1. Owes(NotPushing)  BY NotPushingIsIdle, Zenon DEF Owes
  <2> QED BY <1>4, <2>1, NotPushingIsIdle, Zenon DEF Pushes
<1>6. tip' \in [LfsPods -> [LfsBranches -> History]] /\ has' \in [LfsPods -> SUBSET Payloads]
  BY <1>3, Zenon DEF LfsInv, LfsTypeOK
<1> QED BY <1>1, <1>2, <1>3, <1>5, <1>6, LaneMoves, Zenon

\* With the hook off, what the pushed heads have beyond what was uploaded and
\* what the host shows already is recorded as an exception.
LEMMA HooklessSettled ==
    ASSUME LfsInv, NEW l \in Lanes, PushRefs(l), pushing[l].skip = TRUE,
           \A o : AccountedFor(o) => AccountedFor(o)',
           NEW b \in LfsBranches,
           ForAll(l) \/ b \in DOMAIN pushing[l].want,
           ForAll(l) => b \in Heads(PodOfLane(l)),
           NEW o \in Range(tip[PodOfLane(l)][b])
    PROVE  AccountedFor(o)'
<1> DEFINE p == PodOfLane(l)
           r == pushing[l]
           refs == IF r.skip /\ ForAll(l) THEN Heads(p) ELSE DOMAIN r.want
           planned(x) == IF x \in DOMAIN r.want THEN {r.want[x]} ELSE {}
           others == UNION {PayloadsOutside(Known(p), r.want[x]) : x \in DOMAIN r.want \ r.new}
           since == UNION {PayloadsOutside(Known(p) \union planned(x), tip[p][x]) : x \in refs}
<1>1. r.at = "put" /\ r.send = {} /\ p \in LfsPods  BY LaneOfPod, Zenon DEF PushRefs
<1>2. mixed' = mixed \union (others \ r.needs) /\ landed' = landed \union (since \ r.needs)
  BY Zenon DEF PushRefs
<1>3. b \in refs  BY Zenon
<1>4. \A x \in r.needs : AccountedFor(x)  BY <1>1, Zenon DEF LfsInv, PushesOwe, Owes
<1>5. \A c \in Known(p) : Settled(c)  BY <1>1, BasesSettled, Zenon
<1>6. \A x \in r.new : \A y \in Range(r.want[x]) : AccountedFor(y)
  BY <1>1, <1>4, Zenon DEF LfsInv, PushesOwe, Owes, Checked
<1>7. o \in since \ r.needs => AccountedFor(o)'
  <2> HIDE DEF since
  <2> QED BY <1>2, Zenon DEF AccountedFor
<1>8. o \in others \ r.needs => AccountedFor(o)'
  <2> HIDE DEF others
  <2> QED BY <1>2, Zenon DEF AccountedFor
<1>9. CASE o \in PayloadsOutside(Known(p) \union planned(b), tip[p][b])
  <2>1. o \in since  BY <1>3, <1>9, Zenon
  <2> HIDE DEF since
  <2> QED BY <1>4, <1>7, <2>1, Zenon
<1>10. CASE o \notin PayloadsOutside(Known(p) \union planned(b), tip[p][b])
  <2>1. PICK c \in Known(p) \union planned(b) : o \in Range(c)
    BY <1>10, Zenon DEF PayloadsOutside
  <2>2. CASE c \in Known(p)  BY <1>5, <2>1, <2>2, Zenon DEF Settled
  <2>3. CASE c \in planned(b) /\ c \notin Known(p)
    <3>1. b \in DOMAIN r.want /\ o \in Range(r.want[b])  BY <2>1, <2>3, Zenon
    <3>2. CASE b \in r.new  BY <1>6, <3>1, <3>2, Zenon
    <3>3. CASE b \notin r.new
      <4>1. CASE o \in PayloadsOutside(Known(p), r.want[b])
        <5>1. o \in others  BY <3>1, <3>3, <4>1, Zenon
        <5> HIDE DEF others
        <5> QED BY <1>4, <1>8, <5>1, Zenon
      <4>2. CASE o \notin PayloadsOutside(Known(p), r.want[b])
        BY <1>5, <3>1, <4>2, Zenon DEF PayloadsOutside, Settled
      <4> QED BY <4>1, <4>2, Zenon
    <3> QED BY <3>2, <3>3, Zenon
  <2> QED BY <2>1, <2>2, <2>3, Zenon
<1> QED BY <1>9, <1>10, Zenon

\* The refs follow once nothing is left to send: the host shows what it has,
\* or what went out with the hook off.
LEMMA PushRefsKeeps ==
    ASSUME LfsInv, NEW l \in Lanes, PushRefs(l)
    PROVE  LfsInv'
<1> DEFINE p == PodOfLane(l)
           r == pushing[l]
           pushed == IF r.skip /\ ForAll(l) THEN Heads(p) ELSE DOMAIN r.want
           goes == IF r.skip THEN pushed ELSE {b \in pushed : shown[p][b] = r.old[b]}
           refs == [b \in LfsBranches |->
                      IF b \notin goes THEN shown[p][b] ELSE IF r.skip THEN tip[p][b] ELSE r.want[b]]
<1>1. r.at = "put" /\ r.send = {} /\ r \in Pushes /\ p \in LfsPods
  BY LaneOfPod, Zenon DEF PushRefs, LfsInv, LfsTypeOK
<1>2. r \in Uploads  BY <1>1, Zenon DEF Pushes
<1>3. /\ r.want \in Wants /\ r.open = {} /\ r.skip \in BOOLEAN
      /\ Owes(r)
  BY <1>1, <1>2, Zenon DEF Uploads, LfsInv, PushesOwe, Owes
<1>4. /\ shown' = [shown EXCEPT ![p] = refs] /\ tracked' = shown'
      /\ pushing' = [pushing EXCEPT ![l] = NotPushing]
      /\ mixed \subseteq mixed' /\ landed \subseteq landed'
      /\ UNCHANGED <<tip, fetched, has, store, writer, cut>>
  <2>1. tracked = shown  BY Zenon DEF LfsInv, RefsSettled
  <2> QED BY <2>1, Zenon DEF PushRefs
<1>5. \A o : AccountedFor(o) => AccountedFor(o)'
  BY <1>3, <1>4, AccountedKept, Zenon DEF LfsInv
<1>6. DOMAIN r.want \subseteq LfsBranches /\ \A b \in DOMAIN r.want : r.want[b] \in History
  <2>1. \A w \in Wants : DOMAIN w \subseteq LfsBranches /\ \A b \in DOMAIN w : w[b] \in History
    BY Zenon DEF Wants
  <2> QED BY <1>3, <2>1, Zenon
<1>7. \A b \in LfsBranches : \A o \in Range(refs[b]) : AccountedFor(o)'
  <2> SUFFICES ASSUME NEW b \in LfsBranches, NEW o \in Range(refs[b]) PROVE AccountedFor(o)'
    BY Zenon
  <2>1. CASE b \notin goes
    <3>1. refs[b] = shown[p][b]  BY <2>1, Zenon
    <3> QED BY <1>1, <1>5, <3>1, Zenon DEF LfsInv, RefsSettled, Settled
  <2>2. CASE b \in goes /\ r.skip
    <3>1. o \in Range(tip[p][b])  BY <2>2, Zenon
    <3>2. (ForAll(l) \/ b \in DOMAIN r.want) /\ (ForAll(l) => b \in Heads(p))  BY <2>2, Zenon
    <3>3. r.skip = TRUE  BY <1>3, <2>2, Zenon
    <3> HIDE DEF goes, pushed, refs
    <3> QED BY <1>5, <3>1, <3>2, <3>3, HooklessSettled, Zenon
  <2>3. CASE b \in goes /\ ~r.skip
    <3>1. refs[b] = r.want[b] /\ b \in DOMAIN r.want /\ b \in Checked(r)
      BY <2>3, Zenon DEF Checked
    <3>2. AccountedFor(o) \/ o \in r.needs  BY <1>1, <1>3, <3>1, Zenon DEF Owes
    <3>3. o \in r.needs => AccountedFor(o)  BY <1>1, <1>3, Zenon DEF Owes
    <3> QED BY <1>5, <3>2, <3>3, Zenon
  <2> QED BY <2>1, <2>2, <2>3, Zenon
<1>8. refs \in [LfsBranches -> History]
  <2>1. \A b \in LfsBranches : shown[p][b] \in History /\ tip[p][b] \in History
    BY <1>1, Zenon DEF LfsInv, LfsTypeOK
  <2>2. \A b \in LfsBranches : b \in goes /\ ~r.skip => r.want[b] \in History
    BY <1>6, Zenon
  <2> HIDE DEF goes
  <2> QED BY <2>1, <2>2, Zenon
<1> HIDE DEF refs, goes, pushed
<1>9. LfsTypeOK'
  <2>1. NotPushing \in Pushes  BY NotPushingIsIdle, Zenon
  <2> QED BY <1>1, <1>4, <1>8, <2>1, Zenon DEF LfsInv, LfsTypeOK
<1>10. RefsSettled'
  <2>1. \A q \in LfsPods : \A b \in LfsBranches : \A o \in Range(shown'[q][b]) : AccountedFor(o)'
    <3> SUFFICES ASSUME NEW q \in LfsPods, NEW b \in LfsBranches, NEW o \in Range(shown'[q][b])
                 PROVE  AccountedFor(o)'
      BY Zenon
    <3>1. CASE q = p
      <4>1. shown'[q][b] = refs[b]  BY <1>4, <3>1, Zenon DEF LfsInv, LfsTypeOK
      <4> QED BY <1>7, <4>1, Zenon
    <3>2. CASE q # p
      <4>1. shown'[q][b] = shown[q][b]  BY <1>4, <3>2, Zenon DEF LfsInv, LfsTypeOK
      <4> QED BY <1>5, <4>1, Zenon DEF LfsInv, RefsSettled, Settled
    <3> QED BY <3>1, <3>2, Zenon
  <2>2. \A q \in LfsPods : \A c \in fetched'[q] : \A o \in Range(c) : AccountedFor(o)'
    BY <1>4, <1>5, Zenon DEF LfsInv, RefsSettled, Settled
  <2>3. \A o \in Payloads : store'[o] # NotStored => AccountedFor(o)'
    BY <1>4, <1>5, Zenon DEF LfsInv, RefsSettled
  <2> QED BY <1>4, <2>1, <2>2, <2>3, Zenon DEF RefsSettled, Settled
<1>11. PushesOwe'
  <2>1. /\ pushing'[l].at = "idle"
        /\ \A k \in Lanes : k # l => pushing'[k] = pushing[k]
    BY <1>4, Zenon DEF LfsInv, LfsTypeOK, NotPushing
  <2>2. Owes(pushing[l])'  BY <2>1, Zenon DEF Owes
  <2> QED BY <1>4, <1>5, <2>1, <2>2, PushStillOwes, Zenon DEF PushesOwe, LfsInv
<1> QED BY <1>9, <1>10, <1>11, Zenon DEF LfsInv

\* lfs_upload_handler truncates the file: the payload is being written.
LEMMA PutOpensKeeps ==
    ASSUME LfsInv, NEW l \in Lanes, NEW o \in Payloads, PutOpens(l, o)
    PROVE  LfsInv'
<1> DEFINE job == [pushing[l] EXCEPT !.open = @ \union {o}]
<1>1. /\ pushing[l].at = "put" /\ o \in pushing[l].send \ pushing[l].open
      /\ store' = [store EXCEPT ![o] = Partial] /\ writer' = [writer EXCEPT ![o] = l]
      /\ pushing' = [pushing EXCEPT ![l] = job]
      /\ UNCHANGED <<tip, shown, tracked, fetched, has, cut, mixed, landed>>
  BY Zenon DEF PutOpens
<1>2. pushing[l] \in Uploads
  BY <1>1, Zenon DEF LfsInv, LfsTypeOK, Pushes
<1>3. /\ job \in Uploads /\ job.at = pushing[l].at /\ job.skip = pushing[l].skip
      /\ job.want = pushing[l].want /\ job.new = pushing[l].new /\ job.needs = pushing[l].needs
      /\ job.send = pushing[l].send /\ job.open = pushing[l].open \union {o}
  BY <1>2, Zenon DEF Uploads
<1>4. job \in Pushes  BY <1>3, Zenon DEF Pushes
<1> HIDE DEF job
<1>5. LfsTypeOK'  BY <1>1, <1>4, Zenon DEF LfsInv, LfsTypeOK
<1>6. pushing'[l] = job /\ \A k \in Lanes : k # l => pushing'[k] = pushing[k]
  BY <1>1, Zenon DEF LfsInv, LfsTypeOK
<1>7. /\ store'[o] = Partial /\ writer'[o] = l
      /\ \A x \in Payloads : x # o => store'[x] = store[x] /\ writer'[x] = writer[x]
  BY <1>1, Zenon DEF LfsInv, LfsTypeOK
<1>8. BeingWritten(o)'
  <2>1. writer'[o] = l /\ pushing'[l].at = "put" /\ o \in pushing'[l].open
    BY <1>1, <1>3, <1>6, <1>7, Zenon
  <2> QED BY <2>1, Zenon DEF BeingWritten
<1>9. \A x : AccountedFor(x) => AccountedFor(x)'
  <2>1. \A x \in Payloads : x # o /\ BeingWritten(x) => BeingWritten(x)'
    BY <1>1, <1>3, <1>6, <1>7 DEF BeingWritten
  <2> QED BY <1>1, <1>7, <1>8, <2>1, Zenon DEF AccountedFor
<1>10. RefsSettled'
  <2>1. AccountedFor(o)'  BY <1>8, Zenon DEF AccountedFor
  <2>2. \A x \in Payloads : store'[x] # NotStored => store[x] # NotStored \/ AccountedFor(x)'
    BY <1>7, <2>1, Zenon
  <2> QED BY <1>1, <1>9, <2>2, RefsStaySettled, Zenon DEF LfsInv
<1>11. PushesOwe'
  <2>1. \A x \in Payloads : store[x] # NotStored => store'[x] # NotStored
    BY <1>7, Zenon DEF Partial, NotStored
  <2>2. Checked(job) = Checked(pushing[l])  BY <1>3, Zenon DEF Checked
  <2>3. \A x \in job.open : store'[x] # NotStored
    <3>1. \A x \in pushing[l].open : store[x] # NotStored /\ x \in Payloads
      BY <1>1, <1>2, Zenon DEF LfsInv, PushesOwe, Owes, Uploads
    <3>2. store'[o] # NotStored  BY <1>7, Zenon DEF Partial, NotStored
    <3> QED BY <1>3, <2>1, <3>1, <3>2, Zenon
  <2>4. Owes(pushing[l])  BY Zenon DEF LfsInv, PushesOwe
  <2>5. /\ job.new \subseteq DOMAIN job.want
        /\ \A b \in Checked(job) : \A x \in Range(job.want[b]) :
             AccountedFor(x)' \/ x \in job.needs
        /\ \A x \in job.needs : AccountedFor(x)' \/ x \in job.send
        /\ job.open \subseteq job.send
    BY <1>1, <1>3, <1>9, <2>2, <2>4, Zenon DEF Owes
  <2>6. Owes(pushing[l])'
    BY <1>1, <1>3, <1>6, <2>3, <2>5, Zenon DEF Owes, Checked
  <2> QED BY <1>6, <1>9, <2>1, <2>6, PushStillOwes, Zenon DEF PushesOwe, LfsInv
<1> QED BY <1>5, <1>10, <1>11, Zenon DEF LfsInv

\* A write ends: if nobody truncated the file meanwhile the payload is there,
\* and otherwise that one is at it, or was cut.
LEMMA PutEndsKeeps ==
    ASSUME LfsInv, NEW l \in Lanes, NEW o \in Payloads, PutEnds(l, o)
    PROVE  LfsInv'
<1> DEFINE job == [pushing[l] EXCEPT !.open = @ \ {o}, !.send = @ \ {o}]
<1>1. /\ pushing[l].at = "put" /\ o \in pushing[l].open
      /\ store' = [store EXCEPT ![o] = IF writer[o] = l THEN Whole ELSE @]
      /\ writer' = [writer EXCEPT ![o] = IF @ = l THEN Nobody ELSE @]
      /\ UNCHANGED <<tip, shown, tracked, fetched, has, cut, mixed, landed>>
  BY Zenon DEF PutEnds
<1>2. pushing[l] \in Uploads
  BY <1>1, Zenon DEF LfsInv, LfsTypeOK, Pushes
<1>3. pushing' = [pushing EXCEPT ![l] = job]
  BY <1>2, Zenon DEF PutEnds, LfsInv, LfsTypeOK
<1>4. /\ job \in Uploads /\ job.at = pushing[l].at /\ job.skip = pushing[l].skip
      /\ job.want = pushing[l].want /\ job.new = pushing[l].new /\ job.needs = pushing[l].needs
      /\ job.send = pushing[l].send \ {o} /\ job.open = pushing[l].open \ {o}
  BY <1>2, Zenon DEF Uploads
<1>5. job \in Pushes  BY <1>4, Zenon DEF Pushes
<1> HIDE DEF job
<1>6. LfsTypeOK'  BY <1>1, <1>3, <1>5, Zenon DEF LfsInv, LfsTypeOK
<1>7. pushing'[l] = job /\ \A k \in Lanes : k # l => pushing'[k] = pushing[k]
  BY <1>3, Zenon DEF LfsInv, LfsTypeOK
<1>8. /\ store'[o] = IF writer[o] = l THEN Whole ELSE store[o]
      /\ writer'[o] = IF writer[o] = l THEN Nobody ELSE writer[o]
      /\ \A x \in Payloads : x # o => store'[x] = store[x] /\ writer'[x] = writer[x]
  BY <1>1, Zenon DEF LfsInv, LfsTypeOK
<1>9. \A x : AccountedFor(x) => AccountedFor(x)'
  <2>1. \A x \in Payloads : x # o /\ BeingWritten(x) => BeingWritten(x)'
    BY <1>1, <1>4, <1>7, <1>8, ZenonT(60) DEF BeingWritten
  <2>2. writer[o] # l /\ BeingWritten(o) => BeingWritten(o)'
    BY <1>7, <1>8, Zenon DEF BeingWritten
  <2> QED BY <1>1, <1>8, <2>1, <2>2, Zenon DEF AccountedFor
<1>10. \A x \in Payloads : store'[x] # NotStored <=> store[x] # NotStored
  <2>1. store[o] # NotStored  BY <1>1, Zenon DEF LfsInv, PushesOwe, Owes
  <2> QED BY <1>8, <2>1, Zenon DEF Whole, NotStored
<1>11. RefsSettled'  BY <1>1, <1>9, <1>10, RefsStaySettled, Zenon DEF LfsInv
<1>12. PushesOwe'
  <2>1. AccountedFor(o)'
    <3>1. store[o] # NotStored  BY <1>1, Zenon DEF LfsInv, PushesOwe, Owes
    <3> QED BY <1>9, <3>1, Zenon DEF LfsInv, RefsSettled
  <2>2. Checked(job) = Checked(pushing[l])  BY <1>4, Zenon DEF Checked
  <2>3. Owes(pushing[l])  BY Zenon DEF LfsInv, PushesOwe
  <2>4. \A x \in job.open : store'[x] # NotStored
    <3>1. \A x \in pushing[l].open : store[x] # NotStored /\ x \in Payloads
      BY <1>1, <1>2, Zenon DEF LfsInv, PushesOwe, Owes, Uploads
    <3> QED BY <1>4, <1>10, <3>1, Zenon
  <2>5. /\ job.new \subseteq DOMAIN job.want
        /\ \A b \in Checked(job) : \A x \in Range(job.want[b]) :
             AccountedFor(x)' \/ x \in job.needs
        /\ \A x \in job.needs : AccountedFor(x)' \/ x \in job.send
        /\ job.open \subseteq job.send
    BY <1>1, <1>4, <1>9, <2>1, <2>2, <2>3, Zenon DEF Owes
  <2>6. Owes(pushing[l])'
    BY <1>1, <1>4, <1>7, <2>4, <2>5, Zenon DEF Owes, Checked
  <2> QED BY <1>7, <1>9, <1>10, <2>6, PushStillOwes, Zenon DEF PushesOwe, LfsInv
<1> QED BY <1>6, <1>11, <1>12, Zenon DEF LfsInv

\* Writes that are cut are recorded as such.
LEMMA PutIsCutKeeps ==
    ASSUME LfsInv, NEW l \in Lanes, PutIsCut(l)
    PROVE  LfsInv'
<1> DEFINE torn == {o \in pushing[l].open : writer[o] = l}
<1>1. /\ pushing[l].at = "put" /\ cut' = cut \union torn
      /\ writer' = [o \in Payloads |-> IF o \in torn THEN Nobody ELSE writer[o]]
      /\ pushing' = [pushing EXCEPT ![l] = NotPushing]
      /\ UNCHANGED <<tip, shown, tracked, fetched, has, store, mixed, landed>>
  BY Zenon DEF PutIsCut
<1>2. LfsTypeOK'
  <2>1. NotPushing \in Pushes  BY NotPushingIsIdle, Zenon
  <2>2. writer' \in [Payloads -> Lanes \union {Nobody}]  BY <1>1, Zenon DEF LfsInv, LfsTypeOK
  <2> QED BY <1>1, <2>1, <2>2, Zenon DEF LfsInv, LfsTypeOK
<1>3. /\ pushing'[l].at = "idle"
      /\ \A k \in Lanes : k # l => pushing'[k] = pushing[k]
  BY <1>1, Zenon DEF LfsInv, LfsTypeOK, NotPushing
<1>4. \A o : AccountedFor(o) => AccountedFor(o)'
  <2>1. \A o \in Payloads : BeingWritten(o) /\ o \notin torn => BeingWritten(o)'
    BY <1>1, <1>3, Zenon DEF BeingWritten
  <2> QED BY <1>1, <2>1, Zenon DEF AccountedFor
<1>5. RefsSettled'  BY <1>1, <1>4, RefsStaySettled, Zenon DEF LfsInv
<1>6. Owes(pushing[l])'  BY <1>3, Zenon DEF Owes
<1>7. PushesOwe'  BY <1>1, <1>3, <1>4, <1>6, PushStillOwes, Zenon DEF PushesOwe, LfsInv
<1> QED BY <1>2, <1>5, <1>7, Zenon DEF LfsInv

\* Every step of a pod or of the daemon keeps the invariant.
LEMMA LfsNextInv == LfsInv /\ [LfsNext]_lfsVars => LfsInv'
<1>1. ASSUME LfsInv, LfsNext PROVE LfsInv'
  BY Zenon, <1>1, PodBeginsPush, GitPushStartsKeeps, FetchesKeep, PushMovesOn, PushRefsKeeps,
     PutOpensKeeps, PutEndsKeeps, PutIsCutKeeps DEF LfsNext
<1>2. ASSUME LfsInv, UNCHANGED lfsVars PROVE LfsInv'
  BY <1>2, ZenonT(60) DEF lfsVars, LfsInv, LfsTypeOK, RefsSettled, PushesOwe, Owes, Settled,
     AccountedFor, BeingWritten
<1> QED BY <1>1, <1>2, Zenon

\* The payloads of what the host shows are accounted for.
LEMMA LfsInvFollows == LfsInv => PayloadsFollow
<1> SUFFICES ASSUME LfsInv, NEW o \in ShownPayloads \ (cut \union mixed \union landed)
             PROVE  store[o] = Whole \/ BeingWritten(o)
  BY Zenon DEF PayloadsFollow
<1>1. PICK p \in LfsPods, b \in LfsBranches : o \in Range(shown[p][b])  BY DEF ShownPayloads
<1>2. o # Old  BY DEF ShownPayloads
<1> QED BY <1>1, <1>2, Zenon DEF LfsInv, RefsSettled, Settled, AccountedFor

\* Whatever pods commit, fetch and push at a time, and whatever is lost or cut
\* short: no ref that git_http_server.rs took shows a payload that is missing
\* from the host's lfs/objects, but those a write left torn and those a push
\* with a new ref took along with the hook off, from refs that are not new or
\* from commits that landed since its preparation.
THEOREM PayloadsAlwaysFollow == LfsSpec => []PayloadsFollow
BY LfsInitInv, LfsNextInv, LfsInvFollows, PTL DEF LfsSpec
=============================================================================
