-------------------------- MODULE HostSideProofs ----------------------------
(***************************************************************************)
(* What the daemon keeps up to date for its pods: their forwarded ports,   *)
(* and what is known of their coding agents.  Each proof has an inductive  *)
(* invariant.                                                              *)
(*                                                                         *)
(* PortsInv, for any pods, ports, declared forwards, requests and repairs. *)
(* PortsCore holds always:                                                 *)
(*   SetUpOwns    a port a set-up is about to record is one it has bound;  *)
(*   SavedAreRows what a set-up has read are rows, unless another set-up   *)
(*                of its pod has crossed;                                  *)
(*   RequestOwns  the port of a request is one it has bound;               *)
(*   PortOwned    a handle belongs to a set-up under way or to a list;     *)
(*   GoesHome     whoever serves a port of the table, or is about to, does *)
(*                it for the row's pod and container port, unless set-ups  *)
(*                of its pod have crossed.                                 *)
(* Promises holds of a pod that no crossing requests or set-ups have       *)
(* disturbed: one request or one set-up at a time is at work on it, and    *)
(* every row is listed, just added, made or still to be made.              *)
(*                                                                         *)
(* StatusInv, for any threads and any load, in two halves that meet in     *)
(* what is published:                                                      *)
(*   Protocol     one request is under way, and at most one answer, to it; *)
(*   Follows      of each thread, the last waiting notification is so, or  *)
(*                what is known of it is, or its answer will be;           *)
(*   HeldIsCurrent, GreetingIsCurrent, GreetingGoes                        *)
(*                what was taken out of a channel is its latest value, or  *)
(*                the channel has changed again;                           *)
(*   AllDelivered the last event under way about an agent, or else what    *)
(*                the client has, is what is published.                    *)
(***************************************************************************)
EXTENDS ForwardedPorts, AgentStatus, TLAPS


-----------------------------------------------------------------------------
(* ForwardedPorts                                                            *)

Rows == [pod : Pods, target : HostPorts, local : HostPorts]
Entries == [rank : Nat, target : HostPorts, local : HostPorts \union {0}]

Listeners ==
    [by : {"nobody", "another", "closing"}]
    \union [by : {"setup"}, job : Jobs, target : HostPorts]
    \union [by : {"list"}, pod : Pods, target : HostPorts]
    \union [by : {"request"}, number : Adders]

SetUps ==
    [at : {"none"}]
    \union [at : {"read"}, todo : SUBSET Entries]
    \union [at : {"bind"}, reserved : SUBSET HostPorts, mode : {"fresh", "saved"},
            todo : SUBSET Entries]
    \union [at : {"record"}, reserved : SUBSET HostPorts, mode : {"fresh", "saved"},
            todo : SUBSET Entries, entry : Entries, port : HostPorts]

Requests ==
    [at : {"none", "done", "failed"}]
    \union [at : {"read", "bind", "record", "serve"}, pod : Pods, target : HostPorts,
            local : HostPorts \union {0}, allocated : SUBSET HostPorts]

PortsTypeOK ==
    /\ rows \subseteq Rows /\ bound \in [HostPorts -> Listeners]
    /\ setUp \in [Jobs -> SetUps] /\ adder \in [Adders -> Requests]
    /\ forwarding \subseteq Pods /\ disturbed \subseteq Pods /\ overlapped \subseteq disturbed

LocalsUnique == \A r, s \in rows : r.local = s.local => r = s

\* Of a pod whose set-ups have not crossed, one is under way at most.
OneSetUp(p) == \A j, k \in SetUpsOf(p) : j = k

\* The entries a set-up has yet to record.
Pending(j) ==
    IF setUp[j].at = "none" THEN {}
    ELSE setUp[j].todo \union IF setUp[j].at = "record" THEN {setUp[j].entry} ELSE {}

\* A set-up for saved rows: they are there still, because a pod's rows are
\* moved by its own set-ups only, and no handle has their ports yet.
ForSaved(j) == setUp[j].at = "read" \/ (setUp[j].at # "none" /\ setUp[j].mode = "saved")

\* The port at hand in a set-up.
AtHand(j, x) == setUp[j].at = "record" /\ setUp[j].port = x

\* Port x has a handle that set-up j has made.
IsMade(j, x) == bound[x].by = "setup" /\ bound[x].job = j /\ ~AtHand(j, x)

SavedAreRows(j) ==
    /\ ForSaved(j) => \A e \in Pending(j) :
         /\ Row(PodOf(j), e.target, e.local) \in rows /\ e.rank = e.target
         /\ ~IsMade(j, e.local)
    /\ setUp[j].at = "record" => setUp[j].entry \notin setUp[j].todo

\* Who has a listener knows of it, and is in the middle of something.
SetUpOwns(j) ==
    /\ ForSaved(j) => \A e \in Pending(j) : e.local \in HostPorts
    /\ setUp[j].at = "record" =>
         /\ bound[setUp[j].port].by = "setup" /\ bound[setUp[j].port].job = j
         /\ bound[setUp[j].port].target = setUp[j].entry.target

RequestOwns(a) ==
    adder[a].at \in {"record", "serve"} =>
        /\ adder[a].local \in HostPorts
        /\ bound[adder[a].local].by = "request" /\ bound[adder[a].local].number = a

PortOwned(x) ==
    /\ bound[x].by = "setup" => setUp[bound[x].job].at \in {"bind", "record"}
    /\ bound[x].by = "list" => bound[x].pod \in forwarding

\* Whoever serves a port, or is about to, is the one a row promises it to,
\* pods aside whose set-ups have crossed.
ListGoesHome(r) ==
    bound[r.local].by = "list" /\ bound[r.local].pod \notin overlapped =>
        bound[r.local].pod = r.pod /\ bound[r.local].target = r.target
MadeGoHome(r) == \A j \in Jobs :
    PodOf(j) \notin overlapped /\ IsMade(j, r.local) =>
        PodOf(j) = r.pod /\ bound[r.local].target = r.target
AddedGoHome(r) == \A a \in Adders :
    adder[a].at = "serve" /\ adder[a].local = r.local =>
        adder[a].pod = r.pod /\ adder[a].target = r.target
GoesHome(r) == ListGoesHome(r) /\ MadeGoHome(r) /\ AddedGoHome(r)

\* A row whose port is served, about to be, made, or to be made.
IsListed(r) == bound[r.local].by = "list" /\ bound[r.local].pod = r.pod
               /\ bound[r.local].target = r.target
IsAdded(r) == \E a \in Adders :
    /\ adder[a].at = "serve" /\ adder[a].pod = r.pod
    /\ adder[a].target = r.target /\ adder[a].local = r.local
IsRebound(j, r) == IsMade(j, r.local) /\ bound[r.local].target = r.target

\* Of a pod without crossing requests: it has one request at a time, and none
\* beside a set-up, which finds no list of handles.
OneRequest(p) == \A a, b \in Adders : Busy(a, p) /\ Busy(b, p) => a = b
Alone(p) == p \notin forwarding /\ \A a \in Adders : ~Busy(a, p)

\* What is listed, or made and to be made, is what the rows say.
AllListed(p) ==
    /\ \A r \in RowsOf(p) : IsListed(r) \/ IsAdded(r)
    /\ \A x \in ListedFor(p) : Row(p, bound[x].target, x) \in rows
    /\ \A a \in Adders : adder[a].at = "serve" /\ adder[a].pod = p =>
         Row(p, adder[a].target, adder[a].local) \in rows

AllSaved(j) == \A r \in RowsOf(PodOf(j)) : SavedEntry(r) \in setUp[j].todo

AllMade(j) ==
    /\ \A r \in RowsOf(PodOf(j)) :
         IsRebound(j, r) \/ (setUp[j].mode = "saved" /\ SavedEntry(r) \in Pending(j))
    /\ \A x \in HostPorts : IsMade(j, x) => Row(PodOf(j), bound[x].target, x) \in rows

\* A set-up that is under way is alone with its pod, and knows of all its rows.
Complete(j) ==
    /\ setUp[j].at # "none" => Alone(PodOf(j))
    /\ setUp[j].at = "read" => AllSaved(j)
    /\ setUp[j].at \in {"bind", "record"} => AllMade(j)

Promises(p) ==
    /\ OneRequest(p)
    /\ \A j \in Jobs : PodOf(j) = p => Complete(j)
    /\ SetUpsOf(p) = {} /\ p \in forwarding => AllListed(p)

PortsCore ==
    /\ PortsTypeOK /\ LocalsUnique
    /\ \A p \in Pods : p \notin overlapped => OneSetUp(p)
    /\ \A j \in Jobs : SetUpOwns(j) /\ (PodOf(j) \notin overlapped => SavedAreRows(j))
    /\ \A a \in Adders : RequestOwns(a)
    /\ \A x \in HostPorts : PortOwned(x)
    /\ \A r \in rows : GoesHome(r)

PortsInv == PortsCore /\ \A p \in Pods \ disturbed : Promises(p)

\* A job is one of a pod, which has a holder of its lease.
LEMMA JobsOfPods ==
    /\ \A j \in Jobs : PodOf(j) \in Pods
    /\ \A p \in Pods : <<p, "lease">> \in Jobs /\ PodOf(<<p, "lease">>) = p
BY DEF Jobs, PodOf

\* Before the first pod nothing is bound or promised.
LEMMA PortsInitInv == PortsInit => PortsInv
<1> SUFFICES ASSUME PortsInit PROVE PortsInv
  BY Zenon
<1>1. /\ bound \in [HostPorts -> Listeners] /\ \A x \in HostPorts : bound[x].by = "nobody"
      /\ setUp \in [Jobs -> SetUps] /\ \A j \in Jobs : setUp[j].at = "none"
      /\ adder \in [Adders -> Requests] /\ \A a \in Adders : adder[a].at = "none"
      /\ rows = {} /\ forwarding = {} /\ disturbed = {} /\ overlapped = {}
  BY Zenon DEF PortsInit, Unbound, NoJob, Listeners, SetUps, Requests
<1>2. PortsTypeOK /\ LocalsUnique  BY <1>1, Zenon DEF PortsTypeOK, LocalsUnique
<1>3. PortsCore
  BY <1>1, <1>2, Zenon DEF PortsCore, SavedAreRows, ForSaved, SetUpOwns, Pending, RequestOwns,
     PortOwned, OneSetUp, SetUpsOf
<1>4. \A p \in Pods : Promises(p)  BY <1>1, Zenon DEF Promises, OneRequest, Busy, Complete
<1> QED BY <1>3, <1>4, Zenon DEF PortsInv

-----------------------------------------------------------------------------
(* What setups and requests are                                              *)

\* A set-up's fields, where it is.
LEMMA SetUpFields ==
    ASSUME PortsTypeOK, NEW j \in Jobs
    PROVE  /\ setUp[j].at \in {"none", "read", "bind", "record"}
           /\ setUp[j].at # "none" => setUp[j].todo \subseteq Entries
           /\ setUp[j].at \in {"bind", "record"} =>
                setUp[j].mode \in {"fresh", "saved"} /\ setUp[j].reserved \subseteq HostPorts
           /\ setUp[j].at = "record" => setUp[j].entry \in Entries /\ setUp[j].port \in HostPorts
<1>1. setUp[j] \in SetUps  BY Zenon DEF PortsTypeOK
<1> QED BY <1>1, Zenon DEF SetUps

\* A request's fields, while it is under way.
LEMMA RequestFields ==
    ASSUME PortsTypeOK, NEW a \in Adders
    PROVE  /\ adder[a].at \in {"none", "done", "failed", "read", "bind", "record", "serve"}
           /\ adder[a].at \notin {"none", "done", "failed"} =>
                adder[a] \in [at : {"read", "bind", "record", "serve"}, pod : Pods,
                              target : HostPorts, local : HostPorts \union {0},
                              allocated : SUBSET HostPorts]
<1>1. adder[a] \in Requests  BY Zenon DEF PortsTypeOK
<1> QED BY <1>1, Zenon DEF Requests

\* A listener's fields.
LEMMA ListenerFields ==
    ASSUME PortsTypeOK, NEW x \in HostPorts
    PROVE  /\ bound[x].by \in {"nobody", "another", "closing", "setup", "list", "request"}
           /\ bound[x].by = "setup" => bound[x].job \in Jobs /\ bound[x].target \in HostPorts
           /\ bound[x].by = "list" => bound[x].pod \in Pods /\ bound[x].target \in HostPorts
           /\ bound[x].by = "request" => bound[x].number \in Adders
<1>1. bound[x] \in Listeners  BY Zenon DEF PortsTypeOK
<1> QED BY <1>1, Zenon DEF Listeners

-----------------------------------------------------------------------------
(* What a set-up records                                                     *)

\* The rows after a set-up has recorded its port: the rows of other pods are
\* as they were, and the only new row says the port is the entry's.
LEMMA RecordedAny ==
    ASSUME PortsCore, NEW j \in Jobs, setUp[j].at = "record", NEW R \in Recorded(j)
    PROVE  LET p == PodOf(j)
               e == setUp[j].entry
               x == setUp[j].port
           IN  /\ R \subseteq Rows
               /\ \A r, s \in R : r.local = s.local => r = s
               /\ \A r \in R : r \in rows \/ r = Row(p, e.target, x)
               /\ \A r \in rows : r \in R \/ r.pod = p
<1> DEFINE p == PodOf(j)
           e == setUp[j].entry
           x == setUp[j].port
           new == Row(p, e.target, x)
           mine == {r \in rows : r.pod = p /\ r.target = e.target}
<1>1. /\ PortsTypeOK /\ LocalsUnique /\ rows \subseteq Rows /\ p \in Pods
  BY JobsOfPods, Zenon DEF PortsCore, PortsTypeOK
<1>2. e \in Entries /\ x \in HostPorts /\ setUp[j].mode \in {"fresh", "saved"}
  BY <1>1, SetUpFields, Zenon
<1>3. new \in Rows /\ new.local = x
  BY <1>1, <1>2, Zenon DEF Rows, Row, Entries
<1>4. \/ R = rows
      \/ \E m \in SUBSET mine :
           /\ R = (rows \ m) \union {new : r \in m} /\ \A r \in rows \ m : r.local # x
      \/ R = rows \union {new} /\ \A r \in rows : r.local # x
  <2>1. CASE setUp[j].mode = "fresh"
    BY <2>1, Zenon DEF Recorded, Recordable
  <2>2. CASE setUp[j].mode # "fresh" /\ x = e.local
    BY <2>2, Zenon DEF Recorded
  <2>3. CASE setUp[j].mode # "fresh" /\ x # e.local
    <3>1. R = (rows \ mine) \union {new : r \in mine} /\ \A r \in rows \ mine : r.local # x
      BY <2>3, Zenon DEF Recorded, Recordable
    <3> QED BY <3>1, Zenon
  <2> QED BY <2>1, <2>2, <2>3, Zenon
<1>5. \A m \in SUBSET mine : \A r \in m : r.pod = p  BY Zenon
<1> HIDE DEF p, e, x, new, mine
<1>6. CASE R = rows
  BY <1>1, <1>6, Zenon DEF LocalsUnique, p, e, x, new
<1>7. ASSUME NEW m \in SUBSET mine, R = (rows \ m) \union {new : r \in m},
             \A r \in rows \ m : r.local # x
      PROVE  /\ R \subseteq Rows /\ \A r, s \in R : r.local = s.local => r = s
             /\ \A r \in R : r \in rows \/ r = new
             /\ \A r \in rows : r \in R \/ r.pod = p
  <2>1. \A r \in R : r \in rows \ m \/ r = new  BY <1>7, Zenon
  <2>2. \A r, s \in R : r.local = s.local => r = s
    BY <1>1, <1>3, <1>7, <2>1, Zenon DEF LocalsUnique
  <2> QED BY <1>1, <1>3, <1>5, <1>7, <2>1, <2>2, Zenon
<1>8. CASE R = rows \union {new} /\ \A r \in rows : r.local # x
  <2>1. \A r, s \in R : r.local = s.local => r = s
    BY <1>1, <1>3, <1>8, Zenon DEF LocalsUnique
  <2> QED BY <1>1, <1>3, <1>8, <2>1, Zenon DEF p, e, x, new
<1> QED BY <1>4, <1>6, <1>7, <1>8, Zenon DEF p, e, x, new

\* If no other set-up has crossed, that port's row is the entry's, whose earlier
\* row is gone; all else, what is still to be done among it, is as it was.
LEMMA RecordedRows ==
    ASSUME PortsCore, NEW j \in Jobs, setUp[j].at = "record", NEW R \in Recorded(j),
           SavedAreRows(j)
    PROVE  LET p == PodOf(j)
               e == setUp[j].entry
               x == setUp[j].port
           IN  /\ R \subseteq Rows /\ Row(p, e.target, x) \in R
               /\ \A r, s \in R : r.local = s.local => r = s
               /\ \A r \in R : r \in rows \/ r = Row(p, e.target, x)
               /\ \A r \in rows : \/ r \in R
                                  \/ setUp[j].mode = "saved" /\ r = Row(p, e.target, e.local)
               /\ setUp[j].mode = "saved" => \A d \in setUp[j].todo :
                    Row(p, d.target, d.local) \in R /\ d.local # x
               /\ setUp[j].mode = "saved" /\ x # e.local => Row(p, e.target, e.local) \notin R
<1> DEFINE p == PodOf(j)
           e == setUp[j].entry
           x == setUp[j].port
           new == Row(p, e.target, x)
           mine == {r \in rows : r.pod = p /\ r.target = e.target}
<1>1. /\ PortsTypeOK /\ LocalsUnique /\ rows \subseteq Rows /\ p \in Pods
  BY JobsOfPods, Zenon DEF PortsCore, PortsTypeOK
<1>2. /\ e \in Entries /\ x \in HostPorts /\ setUp[j].mode \in {"fresh", "saved"}
      /\ setUp[j].todo \subseteq Entries /\ e \notin setUp[j].todo
  BY <1>1, SetUpFields, Zenon DEF SavedAreRows
<1>3. /\ new \in Rows /\ new.local = x /\ new.pod = p /\ new.target = e.target
  BY <1>1, <1>2, Zenon DEF Rows, Row, Entries
<1> HIDE DEF e, x
<1>4. CASE setUp[j].mode = "fresh"
  <2>1. R = rows \union {new} /\ \A r \in rows : r.local # x
    BY <1>4, Zenon DEF Recorded, Recordable, e, x
  <2> HIDE DEF new
  <2>2. \A r, s \in R : r.local = s.local => r = s
    BY <1>1, <1>3, <2>1, Zenon DEF LocalsUnique
  <2> QED BY <1>1, <1>3, <1>4, <2>1, <2>2, Zenon DEF new, e, x
<1>5. CASE setUp[j].mode = "saved"
  <2>1. /\ e.rank = e.target /\ Row(p, e.target, e.local) \in rows
        /\ \A d \in setUp[j].todo : d.rank = d.target /\ Row(p, d.target, d.local) \in rows
    BY <1>1, <1>5, Zenon DEF SavedAreRows, ForSaved, Pending, e
  <2>2. \A d \in setUp[j].todo : d.target = e.target /\ d.local = e.local => d = e
    BY <1>2, <2>1 DEF Entries
  <2>3. \A d : /\ Row(p, d.target, d.local).pod = p
              /\ Row(p, d.target, d.local).target = d.target
              /\ Row(p, d.target, d.local).local = d.local
    BY Zenon DEF Row
  <2>4. \A d \in setUp[j].todo : d.local # e.local
    BY <1>1, <1>2, <2>1, <2>2, <2>3 DEF LocalsUnique
  <2>5. CASE x = e.local
    <3>1. R = rows  BY <1>5, <2>5, Zenon DEF Recorded, e, x
    <3> QED BY <1>1, <1>5, <2>1, <2>4, <2>5, <3>1, Zenon DEF LocalsUnique, e, x
  <2>6. CASE x # e.local
    <3>1. /\ R = (rows \ mine) \union {Row(p, e.target, x) : r \in mine}
          /\ \A r \in rows \ mine : r.local # x
          /\ \A r, s \in mine : r = s
      BY <1>5, <2>6, Zenon DEF Recorded, Recordable, e, x
    <3>2. Row(p, e.target, e.local) \in mine  BY <1>2, <2>1, <2>3, Zenon
    <3>3. mine = {Row(p, e.target, e.local)}  BY <3>1, <3>2, Zenon
    <3>4. R = (rows \ {Row(p, e.target, e.local)}) \union {new}  BY <3>1, <3>3, Zenon
    <3>5. \A d \in setUp[j].todo : Row(p, d.target, d.local) # Row(p, e.target, e.local)
      BY <1>2, <2>3, <2>4, Zenon
    <3>6. \A r \in rows : r # Row(p, e.target, e.local) => r.local # x
      BY <3>1, <3>3, Zenon
    <3>7. \A d \in setUp[j].todo : d.local # x
      BY <1>2, <2>1, <2>3, <3>5, <3>6, Zenon
    <3>8. new # Row(p, e.target, e.local)  BY <1>2, <1>3, <2>3, <2>6, Zenon
    <3> HIDE DEF new, mine
    <3>9. \A r, s \in R : r.local = s.local => r = s
      BY <1>1, <1>3, <3>4, <3>6, Zenon DEF LocalsUnique
    <3>10. /\ R \subseteq Rows /\ new \in R /\ \A r \in R : r \in rows \/ r = new
           /\ \A r \in rows : r \in R \/ r = Row(p, e.target, e.local)
           /\ Row(p, e.target, e.local) \notin R
           /\ \A d \in setUp[j].todo : Row(p, d.target, d.local) \in R
      BY <1>1, <1>3, <2>1, <3>4, <3>5, <3>8, Zenon
    <3> QED BY <1>5, <3>7, <3>9, <3>10, Zenon DEF new, e, x
  <2> QED BY <2>5, <2>6, Zenon
<1> QED BY <1>2, <1>4, <1>5, Zenon

-----------------------------------------------------------------------------
(* What a step does to pods it is not about                                  *)

\* A pod's promises are kept by a step that changes neither its rows nor its
\* listeners nor its set-ups nor its requests.
LEMMA OthersPromises ==
    ASSUME PortsTypeOK, NEW q \in Pods, Promises(q), rows' \subseteq Rows,
           \A k \in Jobs : PodOf(k) = q => setUp'[k] = setUp[k],
           q \in forwarding' <=> q \in forwarding,
           \A r \in Rows : r.pod = q => (r \in rows' <=> r \in rows),
           \A x \in HostPorts :
             \/ bound[x].by = "setup" /\ PodOf(bound[x].job) = q
             \/ bound'[x].by = "setup" /\ PodOf(bound'[x].job) = q
             \/ bound[x].by = "list" /\ bound[x].pod = q
             \/ bound'[x].by = "list" /\ bound'[x].pod = q
             => bound'[x] = bound[x],
           \A a \in Adders : Busy(a, q) \/ Busy(a, q)' => adder'[a] = adder[a]
    PROVE  Promises(q)'
<1>1. rows \subseteq Rows  BY Zenon DEF PortsTypeOK
<1>2. \A a \in Adders : Busy(a, q)' <=> Busy(a, q)
  BY Zenon DEF Busy
<1>3. ASSUME NEW k \in Jobs, PodOf(k) = q
      PROVE  \A x \in HostPorts : IsMade(k, x)' <=> IsMade(k, x)
  BY <1>3, Zenon DEF IsMade, AtHand
<1>4. ASSUME NEW k \in Jobs, PodOf(k) = q
      PROVE  \A x \in HostPorts : IsMade(k, x) => bound'[x] = bound[x]
  BY <1>4, Zenon DEF IsMade
<1>5. \A x \in HostPorts : x \in ListedFor(q)' <=> x \in ListedFor(q)
  BY Zenon DEF ListedFor
<1>6. \A x \in ListedFor(q) : x \in HostPorts /\ bound'[x] = bound[x]
  BY Zenon DEF ListedFor
<1>7. \A r \in Rows : r.pod = q => (r \in RowsOf(q)' <=> r \in RowsOf(q))
  BY Zenon DEF RowsOf
<1>8. RowsOf(q)' \subseteq RowsOf(q) /\ RowsOf(q)' \subseteq Rows
  BY <1>1, <1>7, Zenon DEF RowsOf
<1>9. \A r \in RowsOf(q) : r \in Rows /\ r.pod = q /\ r.local \in HostPorts
  BY <1>1, Zenon DEF RowsOf, Rows
<1>10. \A r \in RowsOf(q) : /\ IsListed(r) => IsListed(r)'
                            /\ IsAdded(r) => IsAdded(r)'
  <2> SUFFICES ASSUME NEW r \in RowsOf(q)
               PROVE  /\ IsListed(r) => IsListed(r)'
                      /\ IsAdded(r) => IsAdded(r)'
    BY Zenon
  <2>1. IsListed(r) => IsListed(r)'  BY <1>9, Zenon DEF IsListed
  <2>2. IsAdded(r) => IsAdded(r)'
    <3> SUFFICES ASSUME NEW a \in Adders, adder[a].at = "serve", adder[a].pod = r.pod,
                        adder[a].target = r.target, adder[a].local = r.local
                 PROVE  adder'[a] = adder[a]
      BY Zenon DEF IsAdded
    <3> QED BY <1>9, Zenon DEF Busy
  <2> QED BY <2>1, <2>2, Zenon
<1>11. \A t, x : Row(q, t, x) \in rows => Row(q, t, x) \in rows'
  BY <1>1, Zenon DEF Row
<1>12. \A a \in Adders : adder'[a].at = "serve" /\ adder'[a].pod = q => adder'[a] = adder[a]
  BY Zenon DEF Busy
<1>13. AllListed(q) => AllListed(q)'
  <2> SUFFICES ASSUME AllListed(q) PROVE AllListed(q)'
    BY Zenon
  <2>1. \A r \in RowsOf(q)' : IsListed(r)' \/ IsAdded(r)'  BY <1>8, <1>10, Zenon DEF AllListed
  <2>2. ListedFor(q)' \subseteq HostPorts  BY Zenon DEF ListedFor
  <2>3. \A x \in ListedFor(q)' : Row(q, bound'[x].target, x) \in rows'
    BY <1>5, <1>6, <1>11, <2>2, Zenon DEF AllListed
  <2>4. \A a \in Adders : adder'[a].at = "serve" /\ adder'[a].pod = q =>
          Row(q, adder'[a].target, adder'[a].local) \in rows'
    BY <1>11, <1>12, Zenon DEF AllListed
  <2> QED BY <2>1, <2>3, <2>4, Zenon DEF AllListed
<1>14. ASSUME NEW k \in Jobs, PodOf(k) = q, AllMade(k) PROVE AllMade(k)'
  <2>1. Pending(k)' = Pending(k) /\ setUp'[k] = setUp[k]  BY <1>14, Zenon DEF Pending
  <2>2. \A r \in RowsOf(q) : IsRebound(k, r) => IsRebound(k, r)'
    BY <1>3, <1>4, <1>9, <1>14, Zenon DEF IsRebound
  <2>3. \A r \in RowsOf(q)' : IsRebound(k, r)'
          \/ (setUp'[k].mode = "saved" /\ SavedEntry(r) \in Pending(k)')
    BY <1>8, <1>14, <2>1, <2>2, Zenon DEF AllMade
  <2>4. \A x \in HostPorts : IsMade(k, x)' => Row(q, bound'[x].target, x) \in rows'
    BY <1>3, <1>4, <1>11, <1>14, Zenon DEF AllMade
  <2> QED BY <1>14, <2>3, <2>4, Zenon DEF AllMade, SavedEntry
<1>15. ASSUME NEW k \in Jobs, PodOf(k) = q, AllSaved(k) PROVE AllSaved(k)'
  BY <1>8, <1>15, Zenon DEF AllSaved, SavedEntry
<1>16. OneRequest(q) => OneRequest(q)'  BY <1>2, Zenon DEF OneRequest
<1>17. Alone(q) => Alone(q)'  BY <1>2, Zenon DEF Alone
<1>18. \A k \in Jobs : PodOf(k) = q => Complete(k)'
  BY <1>14, <1>15, <1>17, Zenon DEF Promises, Complete
<1>19. SetUpsOf(q)' = SetUpsOf(q)  BY Zenon DEF SetUpsOf
<1> QED BY <1>13, <1>16, <1>18, <1>19, Zenon DEF Promises

\* So is what is known of a set-up.
LEMMA OthersSetUp ==
    ASSUME PortsCore, NEW k \in Jobs, setUp'[k] = setUp[k],
           PodOf(k) \notin overlapped' /\ setUp[k].at # "none" =>
             /\ PodOf(k) \notin overlapped
             /\ \A r \in rows : r.pod = PodOf(k) => r \in rows',
           \A x \in HostPorts :
             \/ bound[x].by = "setup" /\ bound[x].job = k
             \/ bound'[x].by = "setup" /\ bound'[x].job = k
             => bound'[x] = bound[x]
    PROVE  SetUpOwns(k)' /\ (PodOf(k) \notin overlapped' => SavedAreRows(k)')
<1>1. SetUpOwns(k) /\ rows \subseteq Rows /\ PortsTypeOK
  BY Zenon DEF PortsCore, PortsTypeOK
<1>2. Pending(k)' = Pending(k) /\ (ForSaved(k)' <=> ForSaved(k))
  BY Zenon DEF Pending, ForSaved
<1>3. \A x \in HostPorts : IsMade(k, x)' => IsMade(k, x)
  BY Zenon DEF IsMade, AtHand
<1>4. ASSUME PodOf(k) \notin overlapped' PROVE SavedAreRows(k)'
  <2>1. CASE setUp[k].at = "none"
    BY <2>1, Zenon DEF SavedAreRows, ForSaved
  <2>2. CASE setUp[k].at # "none"
    <3>1. SavedAreRows(k)  BY <1>4, <2>2, Zenon DEF PortsCore
    <3>2. \A r \in rows : r.pod = PodOf(k) => r \in rows'  BY <1>4, <2>2, Zenon
    <3>3. \A t, x : Row(PodOf(k), t, x) \in rows =>
            Row(PodOf(k), t, x) \in rows' /\ x \in HostPorts
      <4> TAKE t, x
      <4>1. Row(PodOf(k), t, x).pod = PodOf(k) /\ Row(PodOf(k), t, x).local = x
        BY Zenon DEF Row
      <4> QED BY <1>1, <3>2, <4>1, Zenon DEF Rows
    <3> QED BY <1>2, <1>3, <3>1, <3>3, Zenon DEF SavedAreRows
  <2> QED BY <2>1, <2>2, Zenon
<1>5. SetUpOwns(k)'
  BY <1>1, <1>2, SetUpFields, Zenon DEF SetUpOwns
<1> QED BY <1>4, <1>5, Zenon

\* What a step of set-up j does beside it: of its pod, if no other set-up has
\* crossed, no other is under way.
LEMMA OtherIsOff ==
    ASSUME PortsCore, NEW j \in Jobs, NEW k \in Jobs, j # k, PodOf(k) = PodOf(j),
           PodOf(j) \notin overlapped, setUp[j].at # "none"
    PROVE  setUp[k].at = "none"
<1>1. OneSetUp(PodOf(j))  BY JobsOfPods, Zenon DEF PortsCore
<1> QED BY <1>1, Zenon DEF OneSetUp, SetUpsOf

-----------------------------------------------------------------------------
(* setup_port_forwarding                                                     *)

\* Set-ups do not cross when none begins.
LEMMA OneSetUpStays ==
    ASSUME PortsCore, overlapped' = overlapped,
           \A k \in Jobs : setUp'[k].at # "none" => setUp[k].at # "none"
    PROVE  \A q \in Pods : q \notin overlapped' => OneSetUp(q)'
<1> SUFFICES ASSUME NEW q \in Pods, q \notin overlapped PROVE OneSetUp(q)'
  BY Zenon
<1>1. OneSetUp(q)  BY Zenon DEF PortsCore
<1>2. SetUpsOf(q)' \subseteq SetUpsOf(q)  BY Zenon DEF SetUpsOf
<1> QED BY <1>1, <1>2, Zenon DEF OneSetUp

\* What the rows say is an entry of theirs.
LEMMA SavedEntries ==
    ASSUME PortsTypeOK
    PROVE  \A r \in rows : /\ SavedEntry(r) \in Entries
                           /\ SavedEntry(r).rank = r.target /\ SavedEntry(r).target = r.target
                           /\ SavedEntry(r).local = r.local /\ r.local \in HostPorts
                           /\ r = Row(r.pod, r.target, r.local)
<1>1. rows \subseteq Rows  BY Zenon DEF PortsTypeOK
<1> QED BY <1>1 DEF SavedEntry, Entries, Rows, Row, HostPorts

\* A set-up reads the rows while its pod has no list of handles.  If another is
\* under way they cross; else the pod has no listeners of a set-up.
LEMMA SetUpBeginsKeeps ==
    ASSUME PortsInv, NEW j \in Jobs, SetUpBegins(j)
    PROVE  PortsInv'
<1> DEFINE p == PodOf(j)
           todo == {SavedEntry(r) : r \in RowsOf(p)}
<1>1. PortsCore /\ PortsTypeOK /\ rows \subseteq Rows /\ p \in Pods
  BY JobsOfPods, Zenon DEF PortsInv, PortsCore, PortsTypeOK
<1>2. /\ setUp[j].at = "none" /\ p \notin forwarding
      /\ UNCHANGED <<rows, bound, forwarding, adder>>
      /\ setUp' = [setUp EXCEPT ![j] = [at |-> "read", todo |-> todo]]
  BY Zenon DEF SetUpBegins
<1>3. /\ SetUpsOf(p) # {} => p \in overlapped'
      /\ \A q \in Pods : q # p => (q \in overlapped' <=> q \in overlapped)
      /\ \A q \in Pods : q # p => (q \in disturbed' <=> q \in disturbed)
      /\ p \notin disturbed' => AddsOf(p) = {} /\ SetUpsOf(p) = {}
  BY Zenon DEF SetUpBegins
<1>4. overlapped' \subseteq disturbed' /\ disturbed' \subseteq Pods
  <2>1. CASE SetUpsOf(p) # {}
    BY <1>1, <2>1, Zenon DEF SetUpBegins, PortsTypeOK
  <2>2. CASE SetUpsOf(p) = {}
    <3>1. overlapped' = overlapped \ {p} /\ disturbed' \in {disturbed \ {p}, disturbed \union {p}}
      BY <2>2, Zenon DEF SetUpBegins
    <3> QED BY <1>1, <3>1, Zenon DEF PortsTypeOK
  <2> QED BY <2>1, <2>2, Zenon
<1>5. /\ setUp'[j] = [at |-> "read", todo |-> todo]
      /\ \A k \in Jobs : k # j => setUp'[k] = setUp[k]
  BY <1>1, <1>2, Zenon DEF PortsTypeOK
<1>6. setUp'[j].at = "read" /\ setUp'[j].todo = todo  BY <1>5
<1>7. todo \subseteq Entries /\ \A e \in todo :
        Row(p, e.target, e.local) \in rows /\ e.rank = e.target /\ e.local \in HostPorts
  <2> SUFFICES ASSUME NEW r \in rows, r.pod = p
               PROVE  LET e == SavedEntry(r)
                      IN  /\ e \in Entries /\ Row(p, e.target, e.local) \in rows
                          /\ e.rank = e.target /\ e.local \in HostPorts
    BY Zenon DEF RowsOf
  <2> QED BY <1>1, SavedEntries, Zenon
<1>8. /\ \A x \in HostPorts : bound[x].by = "setup" => setUp[bound[x].job].at # "none"
      /\ \A x \in HostPorts : bound[x].by = "list" => bound[x].pod # p
      /\ \A x \in HostPorts : bound[x].by = "setup" => bound[x].job # j
  BY <1>1, <1>2, Zenon DEF PortsCore, PortOwned
<1>9. p \notin overlapped' => \A k \in Jobs : PodOf(k) = p => setUp[k].at = "none"
  BY <1>3, Zenon DEF SetUpsOf
<1>10. setUp' \in [Jobs -> SetUps]
  <2> HIDE DEF todo
  <2>1. [at |-> "read", todo |-> todo] \in SetUps  BY <1>7, Zenon DEF SetUps
  <2> QED BY <1>1, <1>2, <2>1, Zenon DEF PortsTypeOK
<1> HIDE DEF p, todo
<1>11. \A k \in Jobs, y \in HostPorts : IsMade(k, y)' <=> IsMade(k, y)
  BY <1>2, <1>5, <1>8, Zenon DEF IsMade, AtHand
<1>12. PortsTypeOK'  BY <1>1, <1>2, <1>4, <1>10, Zenon DEF PortsTypeOK
<1>13. PortsCore'
  <2>1. LocalsUnique'  BY <1>1, <1>2, Zenon DEF PortsCore, LocalsUnique
  <2>2. \A q \in Pods : q \notin overlapped' => OneSetUp(q)'
    <3> SUFFICES ASSUME NEW q \in Pods, q \notin overlapped' PROVE OneSetUp(q)'
      BY Zenon
    <3>1. CASE q = p  BY <1>5, <1>9, <3>1, Zenon DEF OneSetUp, SetUpsOf
    <3>2. CASE q # p
      <4>1. OneSetUp(q)  BY <1>1, <1>3, <3>2, Zenon DEF PortsCore
      <4>2. \A k \in SetUpsOf(q)' : k \in SetUpsOf(q)
        BY <1>5, <3>2, Zenon DEF SetUpsOf, p
      <4> QED BY <4>1, <4>2, Zenon DEF OneSetUp
    <3> QED BY <3>1, <3>2, Zenon
  <2>3. SetUpOwns(j)' /\ SavedAreRows(j)'
    <3>2. Pending(j)' = todo  BY <1>6, Zenon DEF Pending
    <3>1. SetUpOwns(j)'  BY <1>6, <1>7, <3>2, Zenon DEF SetUpOwns
    <3>3. \A y \in HostPorts : ~IsMade(j, y)'  BY <1>2, <1>8, Zenon DEF IsMade
    <3>4. SavedAreRows(j)'
      BY <1>2, <1>6, <1>7, <3>2, <3>3, Zenon DEF SavedAreRows, p
    <3> QED BY <3>1, <3>4, Zenon
  <2>4. \A k \in Jobs : k # j => SetUpOwns(k)' /\ (PodOf(k) \notin overlapped' => SavedAreRows(k)')
    <3> SUFFICES ASSUME NEW k \in Jobs, k # j
                 PROVE  SetUpOwns(k)' /\ (PodOf(k) \notin overlapped' => SavedAreRows(k)')
      BY Zenon
    <3>1. PodOf(k) \notin overlapped' /\ setUp[k].at # "none" => PodOf(k) \notin overlapped
      BY <1>3, <1>9, JobsOfPods, Zenon
    <3> QED BY <1>1, <1>2, <1>5, <3>1, OthersSetUp, Zenon
  <2>5. \A a \in Adders : RequestOwns(a)'  BY <1>1, <1>2, Zenon DEF PortsCore, RequestOwns
  <2>6. \A x \in HostPorts : PortOwned(x)'
    <3> SUFFICES ASSUME NEW x \in HostPorts PROVE PortOwned(x)'
      BY Zenon
    <3>1. bound[x].by = "setup" => bound[x].job \in Jobs  BY <1>1, ListenerFields, Zenon
    <3>2. PortOwned(x)  BY <1>1, Zenon DEF PortsCore
    <3> QED BY <1>2, <1>5, <1>8, <3>1, <3>2, Zenon DEF PortOwned
  <2>7. \A r \in rows' : GoesHome(r)'
    <3> SUFFICES ASSUME NEW r \in rows PROVE GoesHome(r)'
      BY <1>2, Zenon
    <3>1. GoesHome(r) /\ r.local \in HostPorts
      <4>1. r.local \in HostPorts  BY <1>1, Zenon DEF Rows
      <4> QED BY <1>1, <4>1, Zenon DEF PortsCore
    <3>2. ListGoesHome(r)'
      <4>1. bound[r.local].by = "list" => bound[r.local].pod \in Pods
        BY <1>1, <3>1, ListenerFields, Zenon
      <4> QED BY <1>2, <1>3, <1>8, <3>1, <4>1, Zenon DEF GoesHome, ListGoesHome
    <3>3. MadeGoHome(r)'
      <4> SUFFICES ASSUME NEW k \in Jobs, PodOf(k) \notin overlapped', IsMade(k, r.local)'
                   PROVE  PodOf(k) = r.pod /\ bound[r.local].target = r.target
        BY <1>2, Zenon DEF MadeGoHome
      <4>1. IsMade(k, r.local)  BY <1>11, <3>1, Zenon
      <4>2. setUp[k].at # "none"  BY <1>8, <3>1, <4>1, Zenon DEF IsMade
      <4>3. PodOf(k) \notin overlapped  BY <1>3, <1>9, <4>2, JobsOfPods, Zenon
      <4> QED BY <3>1, <4>1, <4>3, Zenon DEF GoesHome, MadeGoHome
    <3>4. AddedGoHome(r)'  BY <1>2, <3>1, Zenon DEF GoesHome, AddedGoHome
    <3> QED BY <3>2, <3>3, <3>4, Zenon DEF GoesHome
  <2> QED BY <1>12, <2>1, <2>2, <2>3, <2>4, <2>5, <2>6, <2>7, Zenon DEF PortsCore
<1>14. ASSUME NEW q \in Pods \ disturbed', q # p PROVE Promises(q)'
  <2>1. Promises(q)  BY <1>3, <1>14, Zenon DEF PortsInv
  <2>2. \A k \in Jobs : PodOf(k) = q => setUp'[k] = setUp[k]  BY <1>5, <1>14, Zenon DEF p
  <2> QED BY <1>1, <1>2, <1>14, <2>1, <2>2, OthersPromises, Zenon DEF Busy
<1>15. ASSUME p \notin disturbed' PROVE Promises(p)'
  <2>1. AddsOf(p) = {} /\ SetUpsOf(p) = {}  BY <1>3, <1>15, Zenon
  <2>2. \A a \in Adders : ~Busy(a, p)'  BY <1>2, <2>1, Zenon DEF AddsOf, Busy
  <2>3. OneRequest(p)' /\ Alone(p)'  BY <1>2, <2>2, Zenon DEF OneRequest, Alone
  <2>4. \A r \in RowsOf(p)' : SavedEntry(r) \in setUp'[j].todo
    BY <1>2, <1>6, Zenon DEF RowsOf, todo
  <2>5. AllSaved(j)'  BY <2>4, Zenon DEF AllSaved, SavedEntry, p
  <2>6. Complete(j)'  BY <1>6, <2>3, <2>5, Zenon DEF Complete, p
  <2>7. \A k \in Jobs : k # j /\ PodOf(k) = p => setUp'[k].at = "none"
    BY <1>5, <2>1, Zenon DEF SetUpsOf
  <2>8. \A k \in Jobs : PodOf(k) = p => Complete(k)'
    BY <2>6, <2>7, Zenon DEF Complete
  <2> QED BY <1>2, <2>3, <2>8, Zenon DEF Promises
<1> QED BY <1>13, <1>14, <1>15, Zenon DEF PortsInv

\* The other set-ups, when set-up j takes a step.
LEMMA OtherSetUps ==
    ASSUME PortsCore, NEW j \in Jobs, setUp[j].at # "none", overlapped' = overlapped,
           \A k \in Jobs : k # j => setUp'[k] = setUp[k],
           \A r \in rows : r.pod # PodOf(j) => r \in rows',
           \A x \in HostPorts :
             \/ bound[x].by = "setup" /\ bound[x].job # j
             \/ bound'[x].by = "setup" /\ bound'[x].job # j
             => bound'[x] = bound[x]
    PROVE  /\ \A k \in Jobs : k # j =>
                SetUpOwns(k)' /\ (PodOf(k) \notin overlapped' => SavedAreRows(k)')
           /\ PodOf(j) \notin overlapped =>
                \A k \in Jobs : k # j /\ PodOf(k) = PodOf(j) =>
                   setUp'[k].at = "none" /\ Complete(k)'
<1>1. ASSUME NEW k \in Jobs, k # j
      PROVE  SetUpOwns(k)' /\ (PodOf(k) \notin overlapped' => SavedAreRows(k)')
  <2>1. PodOf(k) \notin overlapped /\ setUp[k].at # "none" => PodOf(k) # PodOf(j)
    BY <1>1, OtherIsOff, Zenon
  <2>2. \A x \in HostPorts :
          \/ bound[x].by = "setup" /\ bound[x].job = k
          \/ bound'[x].by = "setup" /\ bound'[x].job = k
          => bound'[x] = bound[x]
    BY <1>1, Zenon
  <2>3. setUp'[k] = setUp[k]  BY <1>1, Zenon
  <2>4. PodOf(k) \notin overlapped' /\ setUp[k].at # "none" =>
          /\ PodOf(k) \notin overlapped
          /\ \A r \in rows : r.pod = PodOf(k) => r \in rows'
    BY <2>1, Zenon
  <2> QED BY <2>2, <2>3, <2>4, OthersSetUp, Zenon
<1>2. ASSUME PodOf(j) \notin overlapped, NEW k \in Jobs, k # j, PodOf(k) = PodOf(j)
      PROVE  setUp'[k].at = "none" /\ Complete(k)'
  BY <1>2, OtherIsOff, Zenon DEF Complete
<1> QED BY <1>1, <1>2, Zenon

\* It takes the rows, or else what is declared, while it has no listeners.
LEMMA SetUpReadsKeeps ==
    ASSUME PortsInv, NEW j \in Jobs, SetUpReads(j)
    PROVE  PortsInv'
<1> DEFINE p == PodOf(j)
           saved == setUp[j].todo
           reserved == Allocated \ {e.local : e \in saved}
           mode == IF saved = {} THEN "fresh" ELSE "saved"
<1>1. PortsCore /\ PortsTypeOK /\ rows \subseteq Rows /\ p \in Pods /\ overlapped \subseteq disturbed
  BY JobsOfPods, Zenon DEF PortsInv, PortsCore, PortsTypeOK
<1>2. PICK declared \in {{}, IF IsRepair(j) THEN {} ELSE DeclaredEntries(p)} :
        setUp' = [setUp EXCEPT ![j] =
          [at |-> "bind", reserved |-> reserved, mode |-> mode,
           todo |-> IF saved = {} THEN declared ELSE saved]]
  BY Zenon DEF SetUpReads
<1> DEFINE todo == IF saved = {} THEN declared ELSE saved
           next == [at |-> "bind", reserved |-> reserved, mode |-> mode, todo |-> todo]
<1>3. /\ setUp[j].at = "read" /\ setUp' = [setUp EXCEPT ![j] = next]
      /\ UNCHANGED <<rows, bound, forwarding, adder, disturbed, overlapped>>
  BY <1>2, Zenon DEF SetUpReads
<1>4. reserved \subseteq HostPorts /\ mode \in {"fresh", "saved"} /\ saved \subseteq Entries
  <2>1. Allocated \subseteq HostPorts  BY <1>1, Zenon DEF Allocated, Rows
  <2> QED BY <1>1, <1>3, <2>1, SetUpFields, Zenon
<1>5. todo \subseteq Entries
  <2>1. \A i \in DOMAIN Declared[p] : i \in Nat /\ Declared[p][i] \in HostPorts
    BY <1>1, PortsAssumption, Zenon
  <2>2. DeclaredEntries(p) \subseteq Entries
    <3> SUFFICES ASSUME NEW i \in DOMAIN Declared[p]
                 PROVE  [rank |-> i, target |-> Declared[p][i], local |-> 0] \in Entries
      BY Zenon DEF DeclaredEntries
    <3> QED BY <2>1, Zenon DEF Entries
  <2>3. declared \subseteq Entries  BY <2>2, Zenon
  <2> QED BY <1>4, <2>3, Zenon
<1>6. saved # {} => mode = "saved" /\ todo = saved  BY Zenon
<1>7. saved = {} => mode = "fresh"  BY Zenon
<1> HIDE DEF reserved, mode, todo
<1>8. /\ setUp'[j] = next /\ next \in SetUps
      /\ \A k \in Jobs : k # j => setUp'[k] = setUp[k]
  BY <1>1, <1>3, <1>4, <1>5, Zenon DEF PortsTypeOK, SetUps
<1>9. setUp'[j].at = "bind" /\ setUp'[j].todo = todo /\ setUp'[j].mode = mode  BY <1>8
<1>10. setUp' \in [Jobs -> SetUps]
  <2> HIDE DEF next
  <2> QED BY <1>1, <1>3, <1>8, Zenon DEF PortsTypeOK
<1> HIDE DEF p, saved, next
<1>11. \A x \in HostPorts : bound[x].by = "setup" => bound[x].job # j
  BY <1>1, <1>3, Zenon DEF PortsCore, PortOwned
<1>12. \A k \in Jobs, y \in HostPorts : IsMade(k, y)' <=> IsMade(k, y)
  BY <1>3, <1>8, <1>11, Zenon DEF IsMade, AtHand
<1>13. PortsTypeOK'  BY <1>1, <1>3, <1>10, Zenon DEF PortsTypeOK
<1>14. Pending(j) = saved /\ Pending(j)' = todo  BY <1>3, <1>9, Zenon DEF Pending, saved
<1>15. /\ \A k \in Jobs : k # j =>
            SetUpOwns(k)' /\ (PodOf(k) \notin overlapped' => SavedAreRows(k)')
       /\ PodOf(j) \notin overlapped =>
            \A k \in Jobs : k # j /\ PodOf(k) = PodOf(j) => setUp'[k].at = "none" /\ Complete(k)'
  BY <1>1, <1>3, <1>8, OtherSetUps, Zenon
<1>16. PortsCore'
  <2>1. LocalsUnique'  BY <1>1, <1>3, Zenon DEF PortsCore, LocalsUnique
  <2>2. \A q \in Pods : q \notin overlapped' => OneSetUp(q)'
    BY <1>1, <1>3, <1>8, OneSetUpStays, Zenon
  <2>3. SetUpOwns(j)' /\ (PodOf(j) \notin overlapped' => SavedAreRows(j)')
    <3>0. ForSaved(j) /\ (ForSaved(j)' => todo = saved)
      BY <1>3, <1>6, <1>7, <1>9, Zenon DEF ForSaved
    <3>1. SetUpOwns(j)'
      <4>1. SetUpOwns(j)  BY <1>1, Zenon DEF PortsCore
      <4> QED BY <1>9, <1>14, <3>0, <4>1, Zenon DEF SetUpOwns
    <3>2. ASSUME PodOf(j) \notin overlapped PROVE SavedAreRows(j)'
      <4>1. \A e \in saved : /\ Row(PodOf(j), e.target, e.local) \in rows /\ e.rank = e.target
                             /\ ~IsMade(j, e.local)
        BY <1>1, <1>3, <1>14, <3>2, Zenon DEF PortsCore, SavedAreRows, ForSaved
      <4>3. \A y : ~IsMade(j, y) => ~IsMade(j, y)'
        BY <1>3, <1>9, Zenon DEF IsMade, AtHand
      <4> QED BY <1>3, <1>9, <1>14, <3>0, <4>1, <4>3, Zenon DEF SavedAreRows
    <3> QED BY <1>3, <3>1, <3>2, Zenon
  <2>4. \A a \in Adders : RequestOwns(a)'  BY <1>1, <1>3, Zenon DEF PortsCore, RequestOwns
  <2>5. \A x \in HostPorts : PortOwned(x)'
    <3> SUFFICES ASSUME NEW x \in HostPorts PROVE PortOwned(x)'
      BY Zenon
    <3>1. bound[x].by = "setup" => bound[x].job \in Jobs  BY <1>1, ListenerFields, Zenon
    <3>2. PortOwned(x)  BY <1>1, Zenon DEF PortsCore
    <3> QED BY <1>3, <1>8, <1>11, <3>1, <3>2, Zenon DEF PortOwned
  <2>6. \A r \in rows' : GoesHome(r)'
    <3> SUFFICES ASSUME NEW r \in rows PROVE GoesHome(r)'
      BY <1>3, Zenon
    <3>1. r.local \in HostPorts  BY <1>1, Zenon DEF Rows
    <3>2. GoesHome(r)  BY <1>1, Zenon DEF PortsCore
    <3> QED BY <1>3, <1>12, <3>1, <3>2, Zenon
            DEF GoesHome, ListGoesHome, MadeGoHome, AddedGoHome
  <2> QED BY <1>13, <1>15, <2>1, <2>2, <2>3, <2>4, <2>5, <2>6, Zenon DEF PortsCore
<1>17. ASSUME NEW q \in Pods \ disturbed', q # p PROVE Promises(q)'
  <2>1. Promises(q)  BY <1>3, <1>17, Zenon DEF PortsInv
  <2>2. \A k \in Jobs : PodOf(k) = q => setUp'[k] = setUp[k]  BY <1>8, <1>17, Zenon DEF p
  <2> QED BY <1>1, <1>3, <1>17, <2>1, <2>2, OthersPromises, Zenon DEF Busy
<1>18. ASSUME p \notin disturbed' PROVE Promises(p)'
  <2>1. Promises(p) /\ p \notin overlapped  BY <1>1, <1>3, <1>18, Zenon DEF PortsInv
  <2>2. Complete(j)  BY <2>1, Zenon DEF Promises, p
  <2>3. Alone(p)' /\ OneRequest(p)'
    <3>1. Alone(p)  BY <1>3, <2>2, Zenon DEF Complete, p
    <3>2. \A a \in Adders : ~Busy(a, p)'  BY <1>3, <3>1, Zenon DEF Alone, Busy
    <3> QED BY <1>3, <3>1, <3>2, Zenon DEF Alone, OneRequest
  <2>4. \A r \in RowsOf(p)' : setUp'[j].mode = "saved" /\ SavedEntry(r) \in Pending(j)'
    <3>1. \A r \in RowsOf(p) : SavedEntry(r) \in saved
      BY <1>3, <2>2, Zenon DEF Complete, AllSaved, p, saved
    <3> QED BY <1>3, <1>6, <1>9, <1>14, <3>1, Zenon DEF RowsOf
  <2>5. \A x \in HostPorts : ~IsMade(j, x)'  BY <1>3, <1>11, Zenon DEF IsMade
  <2>6. AllMade(j)'  BY <2>4, <2>5, Zenon DEF AllMade, SavedEntry, p
  <2>7. Complete(j)'  BY <1>9, <2>3, <2>6, Zenon DEF Complete, p
  <2>8. j \in SetUpsOf(p)'  BY <1>9, Zenon DEF SetUpsOf, p
  <2> QED BY <1>15, <2>1, <2>3, <2>7, <2>8, Zenon DEF Promises, p
<1> QED BY <1>16, <1>17, <1>18, Zenon DEF PortsInv

\* bind_near has a free port of the host.
LEMMA BindNearIsFree ==
    \A t, reserved : \A x \in BindNear(t, reserved) : x \in HostPorts /\ Free(x)
<1> SUFFICES ASSUME NEW t, NEW reserved, NEW x \in BindNear(t, reserved)
             PROVE  x \in HostPorts /\ Free(x)
  BY Zenon
<1>1. x \in NearPorts(t, reserved) \/ x \in {y \in Ephemeral : Free(y)}
  BY Zenon DEF BindNear
<1>2. Ephemeral \subseteq HostPorts  BY PortsAssumption, Zenon
<1> QED BY <1>1, <1>2, Zenon DEF NearPorts

\* A set-up binds a port nobody has, which has no handle yet: nothing is served
\* that was not, and what is to be done is what it was.
LEMMA SetUpBindsKeeps ==
    ASSUME PortsInv, NEW j \in Jobs, SetUpBinds(j)
    PROVE  PortsInv'
<1> DEFINE p == PodOf(j)
<1>1. PortsCore /\ PortsTypeOK /\ rows \subseteq Rows /\ p \in Pods /\ overlapped \subseteq disturbed
  BY JobsOfPods, Zenon DEF PortsInv, PortsCore, PortsTypeOK
<1>2a. PICK e \in setUp[j].todo : \E x \in SetUpChoices(j, e) :
         /\ bound' = [bound EXCEPT ![x] = BySetUp(j, e.target)]
         /\ setUp' = [setUp EXCEPT ![j] =
              [at |-> "record", reserved |-> @.reserved \union {x}, mode |-> @.mode,
               todo |-> @.todo \ {e}, entry |-> e, port |-> x]]
  BY Zenon DEF SetUpBinds
<1>2. PICK x \in SetUpChoices(j, e) :
        /\ bound' = [bound EXCEPT ![x] = BySetUp(j, e.target)]
        /\ setUp' = [setUp EXCEPT ![j] =
             [at |-> "record", reserved |-> @.reserved \union {x}, mode |-> @.mode,
              todo |-> @.todo \ {e}, entry |-> e, port |-> x]]
  BY <1>2a, Zenon
<1>3. /\ setUp[j].at = "bind" /\ UNCHANGED <<rows, forwarding, adder, disturbed, overlapped>>
      /\ setUp[j].mode \in {"fresh", "saved"} /\ setUp[j].reserved \subseteq HostPorts
      /\ setUp[j].todo \subseteq Entries /\ e \in Entries
  BY <1>1, SetUpFields, Zenon DEF SetUpBinds
<1>4. x \in HostPorts /\ bound[x].by = "nobody"
  <2>1. CASE x \in BindNear(e.target, setUp[j].reserved)
    BY <2>1, BindNearIsFree, Zenon DEF Free
  <2>2. CASE setUp[j].mode = "saved" /\ x = e.local /\ Free(x)
    <3>1. e.local \in HostPorts
      BY <1>1, <1>3, <2>2, Zenon DEF PortsCore, SetUpOwns, ForSaved, Pending
    <3> QED BY <2>2, <3>1, Zenon DEF Free
  <2> QED BY <1>3, <2>1, <2>2, Zenon DEF SetUpChoices, RebindOrNear
<1>5. /\ \A y \in HostPorts : y # x => bound'[y] = bound[y]
      /\ bound'[x] = BySetUp(j, e.target) /\ bound' \in [HostPorts -> Listeners]
  <2>1. BySetUp(j, e.target) \in Listeners  BY <1>3, Zenon DEF BySetUp, Listeners, Entries
  <2> QED BY <1>1, <1>2, <1>4, <2>1, Zenon DEF PortsTypeOK
<1>6. bound'[x].by = "setup" /\ bound'[x].job = j /\ bound'[x].target = e.target
  BY <1>5 DEF BySetUp
<1> DEFINE next == [at |-> "record", reserved |-> setUp[j].reserved \union {x},
                    mode |-> setUp[j].mode, todo |-> setUp[j].todo \ {e}, entry |-> e, port |-> x]
<1>7. setUp'[j] = next /\ \A k \in Jobs : k # j => setUp'[k] = setUp[k]
  BY <1>1, <1>2, Zenon DEF PortsTypeOK
<1>8. next \in SetUps  BY <1>3, <1>4, Zenon DEF SetUps
<1>9. /\ setUp'[j].at = "record" /\ setUp'[j].mode = setUp[j].mode
      /\ setUp'[j].todo = setUp[j].todo \ {e} /\ setUp'[j].entry = e /\ setUp'[j].port = x
  BY <1>7
<1> HIDE DEF next, p
<1>10. setUp' \in [Jobs -> SetUps]
  <2>1. setUp' = [setUp EXCEPT ![j] = next]  BY <1>2, Zenon DEF next
  <2> QED BY <1>1, <1>8, <2>1, Zenon DEF PortsTypeOK
<1>11. Pending(j)' = Pending(j) /\ (ForSaved(j)' <=> ForSaved(j))
  BY <1>3, <1>9, Zenon DEF Pending, ForSaved
<1>12. \A k \in Jobs, y \in HostPorts :
         (IsMade(k, y)' <=> IsMade(k, y)) /\ (IsMade(k, y) => bound'[y] = bound[y])
  <2> SUFFICES ASSUME NEW k \in Jobs, NEW y \in HostPorts
               PROVE  (IsMade(k, y)' <=> IsMade(k, y)) /\ (IsMade(k, y) => bound'[y] = bound[y])
    BY Zenon
  <2>1. CASE y = x  BY <1>4, <1>6, <1>9, <2>1, Zenon DEF IsMade, AtHand
  <2>2. CASE y # x
    <3>1. CASE k = j  BY <1>3, <1>5, <1>9, <2>2, <3>1, Zenon DEF IsMade, AtHand
    <3>2. CASE k # j  BY <1>5, <1>7, <2>2, <3>2, Zenon DEF IsMade, AtHand
    <3> QED BY <3>1, <3>2, Zenon
  <2> QED BY <2>1, <2>2, Zenon
<1>13. PortsTypeOK'  BY <1>1, <1>3, <1>5, <1>10, Zenon DEF PortsTypeOK
<1>14. /\ \A k \in Jobs : k # j =>
            SetUpOwns(k)' /\ (PodOf(k) \notin overlapped' => SavedAreRows(k)')
       /\ PodOf(j) \notin overlapped =>
            \A k \in Jobs : k # j /\ PodOf(k) = PodOf(j) => setUp'[k].at = "none" /\ Complete(k)'
  BY <1>1, <1>3, <1>4, <1>5, <1>6, <1>7, OtherSetUps, Zenon
<1>15. PortsCore'
  <2>1. LocalsUnique'  BY <1>1, <1>3, Zenon DEF PortsCore, LocalsUnique
  <2>2. PodOf(j) \notin overlapped' => SavedAreRows(j)'
    <3> SUFFICES ASSUME PodOf(j) \notin overlapped PROVE SavedAreRows(j)'
      BY <1>3, Zenon
    <3>1. \A t, y : Row(PodOf(j), t, y) \in rows => y \in HostPorts
      <4> TAKE t, y
      <4>1. Row(PodOf(j), t, y).local = y  BY Zenon DEF Row
      <4> QED BY <1>1, <4>1, Zenon DEF Rows
    <3>2. SavedAreRows(j)  BY <1>1, Zenon DEF PortsCore
    <3> QED BY <1>3, <1>9, <1>11, <1>12, <3>1, <3>2, Zenon DEF SavedAreRows
  <2>3. SetUpOwns(j)'
    <3>1. SetUpOwns(j)  BY <1>1, Zenon DEF PortsCore
    <3> QED BY <1>6, <1>9, <1>11, <3>1, Zenon DEF SetUpOwns
  <2>4. \A q \in Pods : q \notin overlapped' => OneSetUp(q)'
    BY <1>1, <1>3, <1>7, OneSetUpStays, Zenon
  <2>5. \A a \in Adders : RequestOwns(a)'
    BY <1>1, <1>3, <1>4, <1>5 DEF PortsCore, RequestOwns
  <2>6. \A y \in HostPorts : PortOwned(y)'
    <3> SUFFICES ASSUME NEW y \in HostPorts PROVE PortOwned(y)'
      BY Zenon
    <3>1. CASE y = x  BY <1>6, <1>9, <3>1, Zenon DEF PortOwned
    <3>2. CASE y # x
      <4>1. bound[y].by = "setup" => bound[y].job \in Jobs  BY <1>1, ListenerFields, Zenon
      <4>2. PortOwned(y)  BY <1>1, Zenon DEF PortsCore
      <4> QED BY <1>3, <1>5, <1>7, <1>9, <3>2, <4>1, <4>2 DEF PortOwned
    <3> QED BY <3>1, <3>2, Zenon
  <2>7. \A r \in rows' : GoesHome(r)'
    <3> SUFFICES ASSUME NEW r \in rows PROVE GoesHome(r)'
      BY <1>3, Zenon
    <3>1. r.local \in HostPorts  BY <1>1, Zenon DEF Rows
    <3>2. GoesHome(r)  BY <1>1, Zenon DEF PortsCore
    <3>3. bound'[r.local].by = "list" => bound'[r.local] = bound[r.local]
      BY <1>5, <1>6, <3>1, Zenon
    <3>4. ListGoesHome(r)'  BY <1>3, <3>2, <3>3, Zenon DEF GoesHome, ListGoesHome
    <3>5. MadeGoHome(r)'  BY <1>3, <1>12, <3>1, <3>2, Zenon DEF GoesHome, MadeGoHome
    <3>6. AddedGoHome(r)'  BY <1>3, <3>2, Zenon DEF GoesHome, AddedGoHome
    <3> QED BY <3>4, <3>5, <3>6, Zenon DEF GoesHome
  <2> QED BY <1>13, <1>14, <2>1, <2>2, <2>3, <2>4, <2>5, <2>6, <2>7, Zenon DEF PortsCore
<1>16. ASSUME NEW q \in Pods \ disturbed', q # p PROVE Promises(q)'
  <2>1. Promises(q)  BY <1>3, <1>16, Zenon DEF PortsInv
  <2>2. \A k \in Jobs : PodOf(k) = q => setUp'[k] = setUp[k]  BY <1>7, <1>16, Zenon DEF p
  <2>3. \A y \in HostPorts :
          \/ bound[y].by = "setup" /\ PodOf(bound[y].job) = q
          \/ bound'[y].by = "setup" /\ PodOf(bound'[y].job) = q
          \/ bound[y].by = "list" /\ bound[y].pod = q
          \/ bound'[y].by = "list" /\ bound'[y].pod = q
          => bound'[y] = bound[y]
    BY <1>4, <1>5, <1>6, <1>16, Zenon DEF p
  <2> QED BY <1>1, <1>3, <1>16, <2>1, <2>2, <2>3, OthersPromises, Zenon DEF Busy
<1>17. ASSUME p \notin disturbed' PROVE Promises(p)'
  <2>1. Promises(p) /\ p \notin overlapped  BY <1>1, <1>3, <1>17, Zenon DEF PortsInv
  <2>a. Complete(j)  BY <2>1, Zenon DEF Promises, p
  <2>2. Alone(p)' /\ OneRequest(p)'
    <3>1. Alone(p)  BY <1>3, <2>a, Zenon DEF Complete, p
    <3>2. \A a \in Adders : ~Busy(a, p)'  BY <1>3, <3>1, Zenon DEF Alone, Busy
    <3> QED BY <1>3, <3>1, <3>2, Zenon DEF Alone, OneRequest
  <2>3. RowsOf(p)' = RowsOf(p) /\ \A r \in RowsOf(p) : r.pod = p /\ r.local \in HostPorts
    BY <1>1, <1>3, Zenon DEF RowsOf, Rows
  <2>4. \A r \in RowsOf(p) : IsRebound(j, r) => IsRebound(j, r)'
    BY <1>12, <2>3, Zenon DEF IsRebound
  <2>5. AllMade(j)  BY <1>3, <2>a, Zenon DEF Complete
  <2>6. \A y \in HostPorts : IsMade(j, y)' => Row(p, bound'[y].target, y) \in rows'
    BY <1>3, <1>12, <2>5, Zenon DEF AllMade, p
  <2>7. AllMade(j)'  BY <1>9, <1>11, <2>3, <2>4, <2>5, <2>6, Zenon DEF AllMade, SavedEntry, p
  <2>8. Complete(j)'  BY <1>9, <2>2, <2>7, Zenon DEF Complete, p
  <2>9. j \in SetUpsOf(p)'  BY <1>9, Zenon DEF SetUpsOf, p
  <2> QED BY <1>14, <2>1, <2>2, <2>8, <2>9, Zenon DEF Promises, p
<1> QED BY <1>15, <1>16, <1>17, Zenon DEF PortsInv

\* A port that is recorded gets its handle; it is the port of no other row,
\* and of nothing that is yet to be done.
LEMMA SetUpRecordsKeeps ==
    ASSUME PortsInv, NEW j \in Jobs, SetUpRecords(j)
    PROVE  PortsInv'
<1> DEFINE p == PodOf(j)
           e == setUp[j].entry
           x == setUp[j].port
           new == Row(p, e.target, x)
           next == [at |-> "bind", reserved |-> setUp[j].reserved, mode |-> setUp[j].mode,
                    todo |-> setUp[j].todo]
<1>1. PortsCore /\ PortsTypeOK /\ rows \subseteq Rows /\ p \in Pods /\ overlapped \subseteq disturbed
  BY JobsOfPods, Zenon DEF PortsInv, PortsCore, PortsTypeOK
<1>2. /\ setUp[j].at = "record" /\ rows' \in Recorded(j)
      /\ setUp' = [setUp EXCEPT ![j] = next]
      /\ UNCHANGED <<bound, forwarding, adder, disturbed, overlapped>>
  BY Zenon DEF SetUpRecords
<1>3. /\ e \in Entries /\ x \in HostPorts /\ setUp[j].mode \in {"fresh", "saved"}
      /\ setUp[j].todo \subseteq Entries /\ setUp[j].reserved \subseteq HostPorts
  BY <1>1, <1>2, SetUpFields, Zenon
<1>4. /\ rows' \subseteq Rows /\ LocalsUnique'
      /\ \A r \in rows' : r \in rows \/ r = new
      /\ \A r \in rows : r \in rows' \/ r.pod = p
  BY <1>1, <1>2, RecordedAny, Zenon DEF LocalsUnique
<1>5. PodOf(j) \notin overlapped =>
        /\ SavedAreRows(j) /\ new \in rows'
        /\ \A r \in rows : r \in rows' \/ (setUp[j].mode = "saved" /\ r = Row(p, e.target, e.local))
        /\ setUp[j].mode = "saved" => \A d \in setUp[j].todo :
             Row(p, d.target, d.local) \in rows' /\ d.local # x
        /\ setUp[j].mode = "saved" /\ x # e.local => Row(p, e.target, e.local) \notin rows'
  <2> SUFFICES ASSUME PodOf(j) \notin overlapped
               PROVE  /\ SavedAreRows(j) /\ new \in rows'
                      /\ \A r \in rows : r \in rows'
                           \/ (setUp[j].mode = "saved" /\ r = Row(p, e.target, e.local))
                      /\ setUp[j].mode = "saved" => \A d \in setUp[j].todo :
                           Row(p, d.target, d.local) \in rows' /\ d.local # x
                      /\ setUp[j].mode = "saved" /\ x # e.local =>
                           Row(p, e.target, e.local) \notin rows'
    BY Zenon
  <2>1. SavedAreRows(j)  BY <1>1, Zenon DEF PortsCore
  <2> QED BY <1>1, <1>2, <2>1, RecordedRows, Zenon
<1>6. new.pod = p /\ new.target = e.target /\ new.local = x  BY Zenon DEF Row
<1>7. /\ SetUpOwns(j) /\ bound[x].by = "setup" /\ bound[x].job = j /\ bound[x].target = e.target
  BY <1>1, <1>2, Zenon DEF PortsCore, SetUpOwns
<1>8. setUp'[j] = next /\ \A k \in Jobs : k # j => setUp'[k] = setUp[k]
  BY <1>1, <1>2, Zenon DEF PortsTypeOK
<1>9. setUp'[j].at = "bind" /\ setUp'[j].mode = setUp[j].mode /\ setUp'[j].todo = setUp[j].todo
  BY <1>8
<1>10. setUp' \in [Jobs -> SetUps]
  <2>1. next \in SetUps  BY <1>3, Zenon DEF SetUps
  <2> HIDE DEF next
  <2> QED BY <1>1, <1>2, <2>1, Zenon DEF PortsTypeOK
<1>11. AtHand(j, x) /\ \A y : AtHand(j, y) => y = x
  BY <1>2, Zenon DEF AtHand
<1> HIDE DEF p, e, x, new, next
<1>12. \A y \in HostPorts : (IsMade(j, y)' <=> IsMade(j, y) \/ y = x)
  BY <1>2, <1>7, <1>9, <1>11, Zenon DEF IsMade, AtHand
<1>13. \A k \in Jobs, y \in HostPorts : k # j => (IsMade(k, y)' <=> IsMade(k, y))
  BY <1>2, <1>8, Zenon DEF IsMade, AtHand
<1>14. PortsTypeOK'  BY <1>1, <1>2, <1>4, <1>10, Zenon DEF PortsTypeOK
<1>15. \A a \in Adders : adder[a].at = "serve" => adder[a].local # x
  BY <1>1, <1>7, Zenon DEF PortsCore, RequestOwns
<1>16. Pending(j)' = setUp[j].todo /\ Pending(j) = setUp[j].todo \union {e}
  BY <1>2, <1>9, Zenon DEF Pending, e
<1>17. (ForSaved(j) <=> setUp[j].mode = "saved") /\ (ForSaved(j)' <=> setUp[j].mode = "saved")
  BY <1>2, <1>9, Zenon DEF ForSaved
<1>18. \A t, y : Row(p, t, y) \in rows => y \in HostPorts
  <2> TAKE t, y
  <2>1. Row(p, t, y).local = y  BY Zenon DEF Row
  <2> QED BY <1>1, <2>1, Zenon DEF Rows
<1>19. PodOf(j) \notin overlapped /\ setUp[j].mode = "saved" => \A d \in Pending(j) :
         /\ Row(p, d.target, d.local) \in rows /\ d.rank = d.target /\ ~IsMade(j, d.local)
         /\ d.local \in HostPorts
  BY <1>5, <1>17, <1>18, Zenon DEF SavedAreRows, p
<1>20. /\ \A k \in Jobs : k # j =>
            SetUpOwns(k)' /\ (PodOf(k) \notin overlapped' => SavedAreRows(k)')
       /\ PodOf(j) \notin overlapped =>
            \A k \in Jobs : k # j /\ PodOf(k) = PodOf(j) => setUp'[k].at = "none" /\ Complete(k)'
  BY <1>1, <1>2, <1>4, <1>8, OtherSetUps, Zenon DEF p
<1>21. PortsCore'
  <2>1. SetUpOwns(j)'  BY <1>7, <1>9, <1>16, <1>17, Zenon DEF SetUpOwns
  <2>2. PodOf(j) \notin overlapped' => SavedAreRows(j)'
    <3> SUFFICES ASSUME PodOf(j) \notin overlapped PROVE SavedAreRows(j)'
      BY <1>2, Zenon
    <3> QED BY <1>5, <1>9, <1>12, <1>16, <1>17, <1>19, Zenon DEF SavedAreRows, p
  <2>3. \A q \in Pods : q \notin overlapped' => OneSetUp(q)'
    BY <1>1, <1>2, <1>8, OneSetUpStays, Zenon
  <2>4. \A a \in Adders : RequestOwns(a)'  BY <1>1, <1>2, Zenon DEF PortsCore, RequestOwns
  <2>5. \A y \in HostPorts : PortOwned(y)'
    <3> SUFFICES ASSUME NEW y \in HostPorts PROVE PortOwned(y)'
      BY Zenon
    <3>1. bound[y].by = "setup" => bound[y].job \in Jobs  BY <1>1, ListenerFields, Zenon
    <3>2. PortOwned(y)  BY <1>1, Zenon DEF PortsCore
    <3> QED BY <1>2, <1>8, <1>9, <3>1, <3>2 DEF PortOwned
  <2>6. \A r \in rows' : GoesHome(r)'
    <3> SUFFICES ASSUME NEW r \in rows' PROVE GoesHome(r)'
      BY Zenon
    <3>1. CASE r = new
      <4>1. ListGoesHome(r)'  BY <1>2, <1>6, <1>7, <3>1 DEF ListGoesHome
      <4>2. MadeGoHome(r)'
        BY <1>2, <1>6, <1>7, <3>1, Zenon DEF MadeGoHome, IsMade, p
      <4>3. AddedGoHome(r)'  BY <1>2, <1>6, <1>15, <3>1, Zenon DEF AddedGoHome
      <4> QED BY <4>1, <4>2, <4>3, Zenon DEF GoesHome
    <3>2. CASE r # new
      <4>1. r \in rows /\ r.local \in HostPorts  BY <1>4, <3>2, Zenon DEF Rows
      <4>2. GoesHome(r)  BY <1>1, <4>1, Zenon DEF PortsCore
      <4>3. PodOf(j) \notin overlapped => r.local # x
        BY <1>4, <1>5, <1>6, <3>2, Zenon DEF LocalsUnique
      <4>4. MadeGoHome(r)'
        <5> SUFFICES ASSUME NEW k \in Jobs, PodOf(k) \notin overlapped, IsMade(k, r.local)'
                     PROVE  PodOf(k) = r.pod /\ bound[r.local].target = r.target
          BY <1>2, Zenon DEF MadeGoHome
        <5>1. IsMade(k, r.local)  BY <1>12, <1>13, <4>1, <4>3, Zenon
        <5> QED BY <4>2, <5>1, Zenon DEF GoesHome, MadeGoHome
      <4>5. ListGoesHome(r)' /\ AddedGoHome(r)'
        BY <1>2, <4>2, Zenon DEF GoesHome, ListGoesHome, AddedGoHome
      <4> QED BY <4>4, <4>5, Zenon DEF GoesHome
    <3> QED BY <3>1, <3>2, Zenon
  <2> QED BY <1>4, <1>14, <1>20, <2>1, <2>2, <2>3, <2>4, <2>5, <2>6, Zenon DEF PortsCore
<1>22. ASSUME NEW q \in Pods \ disturbed', q # p PROVE Promises(q)'
  <2>1. Promises(q)  BY <1>2, <1>22, Zenon DEF PortsInv
  <2>2. \A r \in Rows : r.pod = q => (r \in rows' <=> r \in rows)
    BY <1>4, <1>6, <1>22, Zenon
  <2>3. \A k \in Jobs : PodOf(k) = q => setUp'[k] = setUp[k]  BY <1>8, <1>22, Zenon DEF p
  <2> QED BY <1>1, <1>2, <1>4, <1>22, <2>1, <2>2, <2>3, OthersPromises, Zenon DEF Busy
<1>23. ASSUME p \notin disturbed' PROVE Promises(p)'
  <2>1. Promises(p) /\ p \notin overlapped /\ PodOf(j) \notin overlapped
    BY <1>1, <1>2, <1>23, Zenon DEF PortsInv, p
  <2>a. Complete(j)  BY <2>1, Zenon DEF Promises, p
  <2>2. Alone(p)' /\ OneRequest(p)'
    <3>1. Alone(p)  BY <1>2, <2>a, Zenon DEF Complete, p
    <3>2. \A a \in Adders : ~Busy(a, p)'  BY <1>2, <3>1, Zenon DEF Alone, Busy
    <3> QED BY <1>2, <3>1, <3>2, Zenon DEF Alone, OneRequest
  <2>3. AllMade(j)  BY <1>2, <2>a, Zenon DEF Complete
  <2>4. \A y \in HostPorts : IsMade(j, y) => Row(p, bound[y].target, y) \in rows
    BY <2>3, Zenon DEF AllMade, p
  <2>5. ASSUME NEW r \in RowsOf(p)'
        PROVE  IsRebound(j, r)' \/ (setUp[j].mode = "saved" /\ SavedEntry(r) \in setUp[j].todo)
    <3>1. r \in rows' /\ r.pod = p /\ r.local \in HostPorts /\ r \in Rows
      BY <1>4, Zenon DEF RowsOf, Rows
    <3>2. CASE r = new
      BY <1>2, <1>3, <1>6, <1>7, <1>12, <3>2, Zenon DEF IsRebound
    <3>3. CASE r # new
      <4>1. r \in RowsOf(p)  BY <1>4, <3>1, <3>3, Zenon DEF RowsOf
      <4>2. IsRebound(j, r) => IsRebound(j, r)'
        BY <1>2, <1>12, <3>1, Zenon DEF IsRebound
      <4>3. ASSUME setUp[j].mode = "saved", SavedEntry(r) = e PROVE FALSE
        <5>1. e.target = r.target /\ e.local = r.local  BY <4>3, Zenon DEF SavedEntry
        <5>2. r = Row(p, r.target, r.local)  BY <3>1, Zenon DEF Row, Rows
        <5>3. r = Row(p, e.target, e.local)  BY <5>1, <5>2, Zenon
        <5> QED BY <1>5, <2>1, <3>1, <3>3, <4>3, <5>3, Zenon DEF new
      <4>4. IsRebound(j, r) \/ (setUp[j].mode = "saved" /\ SavedEntry(r) \in Pending(j))
        BY <2>3, <4>1, Zenon DEF AllMade, p
      <4> QED BY <1>16, <4>2, <4>3, <4>4, Zenon
    <3> QED BY <3>2, <3>3, Zenon
  <2>6. ASSUME NEW y \in HostPorts, IsMade(j, y)' PROVE Row(p, bound'[y].target, y) \in rows'
    <3>1. CASE y = x  BY <1>2, <1>5, <1>7, <2>1, <3>1, Zenon DEF new
    <3>2. CASE y # x
      <4>1. IsMade(j, y) /\ Row(p, bound[y].target, y) \in rows  BY <1>12, <2>4, <2>6, <3>2, Zenon
      <4>2. \A z : Row(p, z, y).local = y /\ Row(p, e.target, e.local).local = e.local
        BY Zenon DEF Row
      <4>3. setUp[j].mode = "saved" => y # e.local  BY <1>16, <1>19, <2>1, <4>1, Zenon
      <4> QED BY <1>2, <1>5, <2>1, <4>1, <4>2, <4>3, Zenon
    <3> QED BY <3>1, <3>2, Zenon
  <2>7. AllMade(j)'  BY <1>9, <1>16, <2>5, <2>6, Zenon DEF AllMade, SavedEntry, p
  <2>8. Complete(j)'  BY <1>9, <2>2, <2>7, Zenon DEF Complete, p
  <2>9. j \in SetUpsOf(p)'  BY <1>9, Zenon DEF SetUpsOf, p
  <2> QED BY <1>20, <2>1, <2>2, <2>8, <2>9, Zenon DEF Promises, p
<1> QED BY <1>21, <1>22, <1>23, Zenon DEF PortsInv

\* A set-up gives up, perhaps after it has recorded its port.
GivesUp(j) ==
    /\ setUp[j].at \in {"bind", "record"} /\ SetUpGivesUp(j)
    /\ UNCHANGED <<forwarding, adder, disturbed, overlapped>>
    /\ rows' \subseteq Rows /\ LocalsUnique'
    /\ \A r \in rows' : r \in rows
         \/ (setUp[j].at = "record" /\ r = Row(PodOf(j), setUp[j].entry.target, setUp[j].port))
    /\ \A r \in rows : r.pod # PodOf(j) => r \in rows'

\* It drops what it has; a pod without a list of handles promises nothing.
LEMMA SetUpGivesUpKeeps ==
    ASSUME PortsInv, NEW j \in Jobs, GivesUp(j)
    PROVE  PortsInv'
<1> DEFINE p == PodOf(j)
           x == setUp[j].port
<1>1. PortsCore /\ PortsTypeOK /\ rows \subseteq Rows /\ p \in Pods /\ overlapped \subseteq disturbed
  BY JobsOfPods, Zenon DEF PortsInv, PortsCore, PortsTypeOK
<1>0. /\ setUp[j].at \in {"bind", "record"} /\ UNCHANGED <<forwarding, adder, disturbed, overlapped>>
      /\ rows' \subseteq Rows /\ LocalsUnique'
  BY Zenon DEF GivesUp
<1>a. SetUpGivesUp(j)  BY Zenon DEF GivesUp
<1>b. \A r \in rows' : r \in rows
        \/ (setUp[j].at = "record" /\ r = Row(p, setUp[j].entry.target, setUp[j].port))
  BY Zenon DEF GivesUp
<1>c. \A r \in rows : r.pod # p => r \in rows'  BY Zenon DEF GivesUp
<1>2. setUp[j].at = "record" =>
        x \in HostPorts /\ bound[x].by = "setup" /\ bound[x].job = j
  <2>1. SetUpOwns(j)  BY <1>1, Zenon DEF PortsCore
  <2> QED BY <1>1, <2>1, SetUpFields, Zenon DEF SetUpOwns
<1>3. /\ setUp' \in [Jobs -> SetUps] /\ setUp'[j].at = "none"
      /\ \A k \in Jobs : k # j => setUp'[k] = setUp[k]
  <2>1. NoJob \in SetUps /\ NoJob.at = "none"  BY Zenon DEF NoJob, SetUps
  <2> QED BY <1>1, <1>a, <2>1, Zenon DEF SetUpGivesUp, PortsTypeOK
<1>4. \A y \in HostPorts :
        /\ bound'[y] = bound[y] \/ bound'[y] \in {Unbound, Closing}
        /\ bound[y].by = "setup" /\ bound[y].job = j => bound'[y] \in {Unbound, Closing}
        /\ bound'[y] = bound[y] \/ (bound[y].by = "setup" /\ bound[y].job = j)
  BY <1>2, <1>a, Zenon DEF SetUpGivesUp, DropHandles, MadeBy
<1>5. bound' \in [HostPorts -> Listeners]
  <2>1. Unbound \in Listeners /\ Closing \in Listeners  BY Zenon DEF Unbound, Closing, Listeners
  <2>2. \A y \in HostPorts : bound'[y] \in Listeners  BY <1>1, <1>4, <2>1, Zenon DEF PortsTypeOK
  <2>3. bound' = [y \in HostPorts |-> bound'[y]]
    BY <1>a, Zenon DEF SetUpGivesUp, DropHandles
  <2> QED BY <2>2, <2>3, Zenon
<1>6. \A y \in HostPorts :
        /\ bound'[y] = bound[y] \/ bound'[y].by \in {"nobody", "closing"}
        /\ bound[y].by = "setup" /\ bound[y].job = j => bound'[y].by \in {"nobody", "closing"}
        /\ bound'[y] = bound[y] \/ (bound[y].by = "setup" /\ bound[y].job = j)
  <2>1. Unbound.by = "nobody" /\ Closing.by = "closing"  BY Zenon DEF Unbound, Closing
  <2> QED BY <1>4, <2>1, Zenon
<1> HIDE DEF x, p
<1>7. \A k \in Jobs, y \in HostPorts : IsMade(k, y)' => IsMade(k, y) /\ bound'[y] = bound[y]
  <2> SUFFICES ASSUME NEW k \in Jobs, NEW y \in HostPorts, IsMade(k, y)'
               PROVE  IsMade(k, y) /\ bound'[y] = bound[y]
    BY Zenon
  <2>1. bound'[y].by = "setup" /\ bound'[y].job = k  BY Zenon DEF IsMade
  <2>2. bound'[y] = bound[y] /\ k # j  BY <1>6, <2>1, Zenon
  <2> QED BY <1>3, <2>1, <2>2, Zenon DEF IsMade, AtHand
<1>8. PortsTypeOK'  BY <1>0, <1>1, <1>3, <1>5, Zenon DEF PortsTypeOK
<1>d. /\ \A k \in Jobs : k # j =>
           SetUpOwns(k)' /\ (PodOf(k) \notin overlapped' => SavedAreRows(k)')
      /\ PodOf(j) \notin overlapped =>
           \A k \in Jobs : k # j /\ PodOf(k) = PodOf(j) => setUp'[k].at = "none" /\ Complete(k)'
  <2>1. setUp[j].at # "none" /\ overlapped' = overlapped  BY <1>0, Zenon
  <2>2. \A y \in HostPorts :
          \/ bound[y].by = "setup" /\ bound[y].job # j
          \/ bound'[y].by = "setup" /\ bound'[y].job # j
          => bound'[y] = bound[y]
    BY <1>6, Zenon
  <2>3. \A r \in rows : r.pod # PodOf(j) => r \in rows'  BY <1>c, Zenon DEF p
  <2> QED BY <1>1, <1>3, <2>1, <2>2, <2>3, OtherSetUps, Zenon
<1>9. PortsCore'
  <2>1. SavedAreRows(j)' /\ SetUpOwns(j)'
    BY <1>3, Zenon DEF SavedAreRows, SetUpOwns, ForSaved
  <2>2. \A a \in Adders : RequestOwns(a)'
    <3>1. \A a \in Adders : RequestOwns(a)  BY <1>1, Zenon DEF PortsCore
    <3> QED BY <1>0, <1>6, <3>1 DEF RequestOwns
  <2>3. \A y \in HostPorts : PortOwned(y)'
    <3> SUFFICES ASSUME NEW y \in HostPorts PROVE PortOwned(y)'
      BY Zenon
    <3>1. bound[y].by = "setup" => bound[y].job \in Jobs  BY <1>1, ListenerFields, Zenon
    <3>2. PortOwned(y)  BY <1>1, Zenon DEF PortsCore
    <3> QED BY <1>0, <1>3, <1>6, <3>1, <3>2 DEF PortOwned
  <2>4. \A r \in rows' : GoesHome(r)'
    <3> SUFFICES ASSUME NEW r \in rows' PROVE GoesHome(r)'
      BY Zenon
    <3>1. r.local \in HostPorts  BY <1>0, Zenon DEF Rows
    <3>2. CASE r \in rows
      <4>1. GoesHome(r)  BY <1>1, <3>2, Zenon DEF PortsCore
      <4>2. ListGoesHome(r)' /\ AddedGoHome(r)'
        BY <1>0, <1>6, <3>1, <4>1, Zenon DEF GoesHome, ListGoesHome, AddedGoHome
      <4>3. MadeGoHome(r)'  BY <1>0, <1>7, <3>1, <4>1, Zenon DEF GoesHome, MadeGoHome
      <4> QED BY <4>2, <4>3, Zenon DEF GoesHome
    <3>3. CASE r \notin rows
      <4>1. setUp[j].at = "record" /\ r = Row(p, setUp[j].entry.target, x)
        BY <1>b, <3>3, Zenon DEF x
      <4>2. r.local = x  BY <4>1, Zenon DEF Row
      <4>3. bound'[x].by \in {"nobody", "closing"} /\ x \in HostPorts  BY <1>2, <1>6, <4>1, Zenon
      <4>4. \A a \in Adders : adder[a].at = "serve" => adder[a].local # x
        <5>1. \A a \in Adders : RequestOwns(a)  BY <1>1, Zenon DEF PortsCore
        <5> QED BY <1>2, <4>1, <5>1, Zenon DEF RequestOwns
      <4> QED BY <1>0, <4>2, <4>3, <4>4, Zenon
              DEF GoesHome, ListGoesHome, MadeGoHome, AddedGoHome, IsMade
    <3> QED BY <3>2, <3>3, Zenon
  <2>5. \A q \in Pods : q \notin overlapped' => OneSetUp(q)'
    BY <1>0, <1>1, <1>3, OneSetUpStays, Zenon
  <2> QED BY <1>0, <1>8, <1>d, <2>1, <2>2, <2>3, <2>4, <2>5, Zenon DEF PortsCore
<1>10. ASSUME NEW q \in Pods \ disturbed', q # p PROVE Promises(q)'
  <2>1. Promises(q)  BY <1>0, <1>10, Zenon DEF PortsInv
  <2>2. \A r \in Rows : r.pod = q => (r \in rows' <=> r \in rows)
    <3>1. \A t, y : Row(p, t, y).pod = p  BY Zenon DEF Row
    <3> QED BY <1>10, <1>b, <1>c, <3>1, Zenon
  <2>3. \A a \in Adders : adder'[a] = adder[a]  BY <1>0, Zenon
  <2>4. \A k \in Jobs : PodOf(k) = q => setUp'[k] = setUp[k]  BY <1>3, <1>10, Zenon DEF p
  <2>5. \A y \in HostPorts :
          \/ bound[y].by = "setup" /\ PodOf(bound[y].job) = q
          \/ bound'[y].by = "setup" /\ PodOf(bound'[y].job) = q
          \/ bound[y].by = "list" /\ bound[y].pod = q
          \/ bound'[y].by = "list" /\ bound'[y].pod = q
          => bound'[y] = bound[y]
    BY <1>6, <1>10, Zenon DEF p
  <2> QED BY <1>0, <1>1, <1>10, <2>1, <2>2, <2>3, <2>4, <2>5, OthersPromises, Zenon
<1>11. ASSUME p \notin disturbed' PROVE Promises(p)'
  <2>0. Promises(p) /\ p \notin overlapped  BY <1>0, <1>1, <1>11, Zenon DEF PortsInv
  <2>1. Alone(p)  BY <1>0, <2>0, Zenon DEF Promises, Complete, p
  <2>2. \A a \in Adders : ~Busy(a, p)'  BY <1>0, <2>1, Zenon DEF Alone, Busy
  <2>3. OneRequest(p)'  BY <2>2, Zenon DEF OneRequest
  <2>4. Complete(j)'  BY <1>3, Zenon DEF Complete
  <2> QED BY <1>0, <1>d, <2>0, <2>1, <2>3, <2>4, Zenon DEF Promises, Alone, p
<1> QED BY <1>9, <1>10, <1>11, Zenon DEF PortsInv

\* So it is for a port that cannot be had or is another row's, for a container
\* that is not found, after the port was recorded, and for a repair that comes
\* too late.
LEMMA SetUpFailsKeeps ==
    ASSUME PortsInv, NEW j \in Jobs,
           SetUpFails(j) \/ SetUpFindsNoContainer(j) \/ RepairRefused(j)
    PROVE  PortsInv'
<1>1. PortsCore /\ rows \subseteq Rows /\ LocalsUnique
  BY Zenon DEF PortsInv, PortsCore, PortsTypeOK
<1>2. CASE SetUpFails(j) \/ RepairRefused(j)
  <2>1. /\ setUp[j].at \in {"bind", "record"} /\ SetUpGivesUp(j)
        /\ UNCHANGED <<rows, forwarding, adder, disturbed, overlapped>>
    BY <1>2, Zenon DEF SetUpFails, RepairRefused
  <2>2. LocalsUnique'  BY <1>1, <2>1, Zenon DEF LocalsUnique
  <2>3. GivesUp(j)  BY <1>1, <2>1, <2>2, Zenon DEF GivesUp
  <2> QED BY <2>3, SetUpGivesUpKeeps, Zenon
<1>3. CASE SetUpFindsNoContainer(j)
  <2>1. /\ setUp[j].at = "record" /\ SetUpGivesUp(j) /\ rows' \in Recorded(j)
        /\ UNCHANGED <<forwarding, adder, disturbed, overlapped>>
    BY <1>3, Zenon DEF SetUpFindsNoContainer
  <2>2. /\ rows' \subseteq Rows /\ LocalsUnique'
        /\ \A r \in rows' : r \in rows \/ r = Row(PodOf(j), setUp[j].entry.target, setUp[j].port)
        /\ \A r \in rows : r.pod # PodOf(j) => r \in rows'
    BY <1>1, <2>1, RecordedAny, Zenon DEF LocalsUnique
  <2>3. GivesUp(j)  BY <2>1, <2>2, Zenon DEF GivesUp
  <2> QED BY <2>3, SetUpGivesUpKeeps, Zenon
<1> QED BY <1>2, <1>3, Zenon

\* A set-up that has done all lists its handles: they are the pod's rows.
LEMMA SetUpEndsKeeps ==
    ASSUME PortsInv, NEW j \in Jobs, SetUpEnds(j)
    PROVE  PortsInv'
<1> DEFINE p == PodOf(j)
           made(y) == bound[y].by = "setup" /\ bound[y].job = j
           inList(y) == bound[y].by = "list" /\ bound[y].pod = p
<1>1. PortsCore /\ PortsTypeOK /\ rows \subseteq Rows /\ p \in Pods /\ overlapped \subseteq disturbed
  BY JobsOfPods, Zenon DEF PortsInv, PortsCore, PortsTypeOK
<1>2. /\ setUp[j].at = "bind" /\ setUp[j].todo = {} /\ forwarding' = forwarding \union {p}
      /\ UNCHANGED <<rows, adder, disturbed, overlapped>>
  BY Zenon DEF SetUpEnds
<1>3. /\ setUp' \in [Jobs -> SetUps] /\ setUp'[j].at = "none"
      /\ \A k \in Jobs : k # j => setUp'[k] = setUp[k]
  <2>1. NoJob \in SetUps /\ NoJob.at = "none"  BY Zenon DEF NoJob, SetUps
  <2> QED BY <1>1, <2>1, Zenon DEF SetUpEnds, PortsTypeOK
<1>4. \A y \in HostPorts :
        /\ made(y) => bound'[y] = InList(p, bound[y].target)
        /\ inList(y) => bound'[y] = Closing
        /\ ~made(y) /\ ~inList(y) => bound'[y] = bound[y]
  BY Zenon DEF SetUpEnds, MadeBy, ListedFor
<1>5. bound' \in [HostPorts -> Listeners]
  <2>1. Closing \in Listeners  BY Zenon DEF Closing, Listeners
  <2>2. \A t \in HostPorts : InList(p, t) \in Listeners  BY <1>1, Zenon DEF InList, Listeners
  <2>3. \A y \in HostPorts : bound[y].by = "setup" => bound[y].target \in HostPorts
    BY <1>1, ListenerFields, Zenon
  <2>4. \A y \in HostPorts : bound'[y] \in Listeners
    BY <1>1, <1>4, <2>1, <2>2, <2>3, Zenon DEF PortsTypeOK
  <2>5. bound' = [y \in HostPorts |-> bound'[y]]  BY Zenon DEF SetUpEnds
  <2> QED BY <2>4, <2>5, Zenon
<1>6. \A y \in HostPorts :
        /\ made(y) => /\ bound'[y].by = "list" /\ bound'[y].pod = p
                      /\ bound'[y].target = bound[y].target
        /\ inList(y) => bound'[y].by = "closing"
        /\ ~made(y) /\ ~inList(y) => bound'[y] = bound[y]
  <2>1. Closing.by = "closing"  BY Zenon DEF Closing
  <2>2. \A t : InList(p, t).by = "list" /\ InList(p, t).pod = p /\ InList(p, t).target = t
    BY Zenon DEF InList
  <2> QED BY <1>4, <2>1, <2>2
<1>7. \A y \in HostPorts : IsMade(j, y) <=> made(y)  BY <1>2, Zenon DEF IsMade, AtHand
<1>8. \A k \in Jobs, y \in HostPorts :
        IsMade(k, y)' => k # j /\ IsMade(k, y) /\ bound'[y] = bound[y]
  <2> SUFFICES ASSUME NEW k \in Jobs, NEW y \in HostPorts, IsMade(k, y)'
               PROVE  k # j /\ IsMade(k, y) /\ bound'[y] = bound[y]
    BY Zenon
  <2>1. bound'[y].by = "setup" /\ bound'[y].job = k  BY Zenon DEF IsMade
  <2>2. bound'[y] = bound[y] /\ k # j  BY <1>6, <2>1, Zenon
  <2> QED BY <1>3, <2>1, <2>2, Zenon DEF IsMade, AtHand
<1> HIDE DEF p
<1>9. PortsTypeOK'  BY <1>1, <1>2, <1>3, <1>5, Zenon DEF PortsTypeOK
<1>d. /\ \A k \in Jobs : k # j =>
           SetUpOwns(k)' /\ (PodOf(k) \notin overlapped' => SavedAreRows(k)')
      /\ PodOf(j) \notin overlapped =>
           \A k \in Jobs : k # j /\ PodOf(k) = PodOf(j) => setUp'[k].at = "none" /\ Complete(k)'
  <2>1. \A y \in HostPorts :
          \/ bound[y].by = "setup" /\ bound[y].job # j
          \/ bound'[y].by = "setup" /\ bound'[y].job # j
          => bound'[y] = bound[y]
    BY <1>6, Zenon
  <2> QED BY <1>1, <1>2, <1>3, <2>1, OtherSetUps, Zenon
<1>10. PortsCore'
  <2>1. SavedAreRows(j)' /\ SetUpOwns(j)'
    BY <1>3, Zenon DEF SavedAreRows, SetUpOwns, ForSaved
  <2>2. LocalsUnique'  BY <1>1, <1>2, Zenon DEF PortsCore, LocalsUnique
  <2>3. \A a \in Adders : RequestOwns(a)'
    <3>1. \A a \in Adders : RequestOwns(a)  BY <1>1, Zenon DEF PortsCore
    <3> QED BY <1>2, <1>6, <3>1 DEF RequestOwns
  <2>4. \A y \in HostPorts : PortOwned(y)'
    <3> SUFFICES ASSUME NEW y \in HostPorts PROVE PortOwned(y)'
      BY Zenon
    <3>1. bound[y].by = "setup" => bound[y].job \in Jobs  BY <1>1, ListenerFields, Zenon
    <3>2. PortOwned(y)  BY <1>1, Zenon DEF PortsCore
    <3> QED BY <1>2, <1>3, <1>6, <3>1, <3>2 DEF PortOwned
  <2>5. \A r \in rows' : GoesHome(r)'
    <3> SUFFICES ASSUME NEW r \in rows PROVE GoesHome(r)'
      BY <1>2, Zenon
    <3>1. r.local \in HostPorts  BY <1>1, Zenon DEF Rows
    <3>2. GoesHome(r)  BY <1>1, Zenon DEF PortsCore
    <3>3. ListGoesHome(r)'
      <4>1. CASE made(r.local)
        <5>1. IsMade(j, r.local)  BY <1>7, <3>1, <4>1, Zenon
        <5>2. PodOf(j) \notin overlapped => PodOf(j) = r.pod /\ bound[r.local].target = r.target
          BY <3>2, <5>1, Zenon DEF GoesHome, MadeGoHome
        <5> QED BY <1>2, <1>6, <3>1, <4>1, <5>2, Zenon DEF ListGoesHome, p
      <4>2. CASE ~made(r.local)
        BY <1>2, <1>6, <3>1, <3>2, <4>2, Zenon DEF GoesHome, ListGoesHome
      <4> QED BY <4>1, <4>2, Zenon
    <3>4. MadeGoHome(r)'  BY <1>2, <1>8, <3>1, <3>2, Zenon DEF GoesHome, MadeGoHome
    <3>5. AddedGoHome(r)'  BY <1>2, <3>2, Zenon DEF GoesHome, AddedGoHome
    <3> QED BY <3>3, <3>4, <3>5, Zenon DEF GoesHome
  <2>6. \A q \in Pods : q \notin overlapped' => OneSetUp(q)'
    BY <1>1, <1>2, <1>3, OneSetUpStays, Zenon
  <2> QED BY <1>9, <1>d, <2>1, <2>2, <2>3, <2>4, <2>5, <2>6, Zenon DEF PortsCore
<1>11. ASSUME NEW q \in Pods \ disturbed', q # p PROVE Promises(q)'
  <2>1. Promises(q)  BY <1>2, <1>11, Zenon DEF PortsInv
  <2>2. \A k \in Jobs : PodOf(k) = q => setUp'[k] = setUp[k]  BY <1>3, <1>11, Zenon DEF p
  <2>3. \A y \in HostPorts :
          \/ bound[y].by = "setup" /\ PodOf(bound[y].job) = q
          \/ bound'[y].by = "setup" /\ PodOf(bound'[y].job) = q
          \/ bound[y].by = "list" /\ bound[y].pod = q
          \/ bound'[y].by = "list" /\ bound'[y].pod = q
          => bound'[y] = bound[y]
    BY <1>6, <1>11, Zenon DEF p
  <2> QED BY <1>1, <1>2, <1>11, <2>1, <2>2, <2>3, OthersPromises, Zenon DEF Busy
<1>12. ASSUME p \notin disturbed' PROVE Promises(p)'
  <2>0. Promises(p) /\ p \notin overlapped  BY <1>1, <1>2, <1>12, Zenon DEF PortsInv
  <2>1. Complete(j)  BY <2>0, Zenon DEF Promises, p
  <2>2. \A a \in Adders : ~Busy(a, p)'
    <3>1. Alone(p)  BY <1>2, <2>1, Zenon DEF Complete, p
    <3> QED BY <1>2, <3>1, Zenon DEF Alone, Busy
  <2>a. AllMade(j)  BY <1>2, <2>1, Zenon DEF Complete
  <2>3. \A r \in RowsOf(p)' : IsListed(r)'
    <3> SUFFICES ASSUME NEW r \in RowsOf(p) PROVE IsListed(r)'
      BY <1>2, Zenon DEF RowsOf
    <3>1. Pending(j) = {}  BY <1>2, Zenon DEF Pending
    <3>2. IsRebound(j, r)  BY <2>a, <3>1, Zenon DEF AllMade, p
    <3>3. r.pod = p /\ r.local \in HostPorts  BY <1>1, Zenon DEF RowsOf, Rows
    <3> QED BY <1>6, <1>7, <3>2, <3>3, Zenon DEF IsRebound, IsListed
  <2>4. \A y \in ListedFor(p)' : Row(p, bound'[y].target, y) \in rows'
    <3> SUFFICES ASSUME NEW y \in HostPorts, bound'[y].by = "list", bound'[y].pod = p
                 PROVE  Row(p, bound'[y].target, y) \in rows
      BY <1>2, Zenon DEF ListedFor
    <3>1. IsMade(j, y) /\ bound'[y].target = bound[y].target  BY <1>6, <1>7, Zenon
    <3> QED BY <2>a, <3>1, Zenon DEF AllMade, p
  <2>5. \A a \in Adders : ~(adder'[a].at = "serve" /\ adder'[a].pod = p)  BY <2>2, Zenon DEF Busy
  <2>6. OneRequest(p)' /\ AllListed(p)'
    BY <2>2, <2>3, <2>4, <2>5, Zenon DEF OneRequest, AllListed
  <2>7. Complete(j)'  BY <1>3, Zenon DEF Complete
  <2> QED BY <1>d, <2>0, <2>6, <2>7, Zenon DEF Promises, p
<1> QED BY <1>10, <1>11, <1>12, Zenon DEF PortsInv

-----------------------------------------------------------------------------
(* add_forwarded_port, and what happens beside it                            *)

\* A step makes and loses no handle, a request that serves its port is left
\* alone, and one that becomes busy with a pod is alone with it.
HandlesStay == \A y \in HostPorts : bound'[y] = bound[y]
    \/ (bound[y].by \notin {"setup", "list"} /\ bound'[y].by \notin {"setup", "list"})
ServingStays == \A a \in Adders : adder'[a] = adder[a]
    \/ (adder[a].at # "serve" /\ adder'[a].at # "serve")
BusyAlone == \A q \in Pods \ disturbed' : \A a \in Adders : Busy(a, q)' =>
    \/ Busy(a, q)
    \/ SetUpsOf(q) = {} /\ \A b \in Adders : b # a => ~Busy(b, q)'

\* Such a step, if it changes no row, no list and no set-up, keeps the promises.
LEMMA AsideKeeps ==
    ASSUME PortsInv, UNCHANGED <<rows, forwarding, setUp, overlapped>>, PortsTypeOK',
           disturbed \subseteq disturbed', \A a \in Adders : RequestOwns(a)',
           HandlesStay, ServingStays, BusyAlone
    PROVE  PortsInv'
<1>1. PortsCore /\ PortsTypeOK /\ rows \subseteq Rows
  BY Zenon DEF PortsInv, PortsCore, PortsTypeOK
<1>2. \A k \in Jobs, y \in HostPorts :
        (IsMade(k, y)' <=> IsMade(k, y)) /\ (IsMade(k, y) => bound'[y] = bound[y])
  BY Zenon DEF HandlesStay, IsMade, AtHand
<1>3. \A y \in HostPorts : bound'[y].by = "list" \/ bound[y].by = "list" => bound'[y] = bound[y]
  BY Zenon DEF HandlesStay
<1>4. \A a \in Adders : adder'[a].at = "serve" \/ adder[a].at = "serve" => adder'[a] = adder[a]
  BY Zenon DEF ServingStays
<1>5. \A y \in HostPorts : bound[y].by = "setup" \/ bound'[y].by = "setup" => bound'[y] = bound[y]
  BY Zenon DEF HandlesStay
<1>6. PortsCore'
  <2>1. LocalsUnique'  BY <1>1, Zenon DEF PortsCore, LocalsUnique
  <2>2. \A k \in Jobs : SetUpOwns(k)' /\ (PodOf(k) \notin overlapped' => SavedAreRows(k)')
    BY <1>1, <1>5, OthersSetUp, Zenon
  <2>a. \A q \in Pods : q \notin overlapped' => OneSetUp(q)'  BY <1>1, OneSetUpStays, Zenon
  <2>3. \A y \in HostPorts : PortOwned(y)'
    <3>1. \A y \in HostPorts : PortOwned(y)  BY <1>1, Zenon DEF PortsCore
    <3> QED BY <1>3, <1>5, <3>1, Zenon DEF PortOwned
  <2>4. \A r \in rows' : GoesHome(r)'
    <3> SUFFICES ASSUME NEW r \in rows PROVE GoesHome(r)'
      BY Zenon
    <3>1. r.local \in HostPorts  BY <1>1, Zenon DEF Rows
    <3>2. GoesHome(r)  BY <1>1, Zenon DEF PortsCore
    <3>3. ListGoesHome(r)'  BY <1>3, <3>1, <3>2, Zenon DEF GoesHome, ListGoesHome
    <3>4. MadeGoHome(r)'  BY <1>2, <3>1, <3>2, Zenon DEF GoesHome, MadeGoHome
    <3>5. AddedGoHome(r)'  BY <1>4, <3>2, Zenon DEF GoesHome, AddedGoHome
    <3> QED BY <3>3, <3>4, <3>5, Zenon DEF GoesHome
  <2> QED BY <2>1, <2>2, <2>3, <2>4, <2>a, Zenon DEF PortsCore
<1>7. ASSUME NEW q \in Pods \ disturbed' PROVE Promises(q)'
  <2>1. Promises(q)  BY <1>7, Zenon DEF PortsInv
  <2>2. OneRequest(q)'
    <3>1. OneRequest(q)  BY <2>1, Zenon DEF Promises
    <3> QED BY <1>7, <3>1, Zenon DEF OneRequest, BusyAlone
  <2>3. ASSUME NEW k \in Jobs, PodOf(k) = q, setUp[k].at # "none" PROVE Alone(q)'
    <3>1. Alone(q)  BY <2>1, <2>3, Zenon DEF Promises, Complete
    <3>2. SetUpsOf(q) # {}  BY <2>3, Zenon DEF SetUpsOf
    <3> QED BY <1>7, <3>1, <3>2, Zenon DEF Alone, BusyAlone
  <2>4. RowsOf(q)' = RowsOf(q) /\ \A r \in RowsOf(q) : r.pod = q /\ r.local \in HostPorts
    BY <1>1, Zenon DEF RowsOf, Rows
  <2>5. \A r \in RowsOf(q) : IsListed(r) => IsListed(r)'
    BY <1>3, <2>4, Zenon DEF IsListed
  <2>6. \A r \in RowsOf(q) : IsAdded(r) => IsAdded(r)'
    BY <1>4, <2>4, Zenon DEF IsAdded
  <2>7. \A k \in Jobs : \A r \in RowsOf(q) : IsRebound(k, r) => IsRebound(k, r)'
    BY <1>2, <2>4, Zenon DEF IsRebound
  <2>8. AllListed(q) => AllListed(q)'
    <3> SUFFICES ASSUME AllListed(q) PROVE AllListed(q)'
      BY Zenon
    <3>1. \A r \in RowsOf(q)' : IsListed(r)' \/ IsAdded(r)'
      BY <2>4, <2>5, <2>6, Zenon DEF AllListed
    <3>2. \A x \in ListedFor(q)' : x \in ListedFor(q) /\ bound'[x] = bound[x]
      BY <1>3, Zenon DEF ListedFor
    <3>3. \A x \in ListedFor(q)' : Row(q, bound'[x].target, x) \in rows'
      BY <3>2, Zenon DEF AllListed
    <3>4. \A a \in Adders : adder'[a].at = "serve" /\ adder'[a].pod = q =>
            Row(q, adder'[a].target, adder'[a].local) \in rows'
      BY <1>4, Zenon DEF AllListed
    <3> QED BY <3>1, <3>3, <3>4, Zenon DEF AllListed
  <2>9. ASSUME NEW k \in Jobs, PodOf(k) = q, AllMade(k) PROVE AllMade(k)'
    <3>1. Pending(k)' = Pending(k)  BY Zenon DEF Pending
    <3>2. \A r \in RowsOf(q)' : IsRebound(k, r)'
            \/ (setUp'[k].mode = "saved" /\ SavedEntry(r) \in Pending(k)')
      BY <2>4, <2>7, <2>9, <3>1, Zenon DEF AllMade
    <3>3. \A x \in HostPorts : IsMade(k, x)' => Row(q, bound'[x].target, x) \in rows'
      BY <1>2, <2>9, Zenon DEF AllMade
    <3> QED BY <2>9, <3>2, <3>3, Zenon DEF AllMade, SavedEntry
  <2>10. ASSUME NEW k \in Jobs, PodOf(k) = q, AllSaved(k) PROVE AllSaved(k)'
    BY <2>4, <2>10, Zenon DEF AllSaved, SavedEntry
  <2>11. \A k \in Jobs : PodOf(k) = q => Complete(k)'
    BY <2>1, <2>3, <2>9, <2>10, Zenon DEF Promises, Complete
  <2>12. SetUpsOf(q)' = SetUpsOf(q)  BY Zenon DEF SetUpsOf
  <2> QED BY <2>1, <2>2, <2>8, <2>11, <2>12, Zenon DEF Promises
<1> QED BY <1>6, <1>7, Zenon DEF PortsInv

\* A request that is left alone has the port it had.
LEMMA StillOwns ==
    ASSUME NEW b \in Adders, adder'[b] = adder[b], bound' = bound, RequestOwns(b)
    PROVE  RequestOwns(b)'
BY Zenon DEF RequestOwns

\* A request that looks at the rows has nothing yet.
LEMMA AddLooksKeeps ==
    ASSUME PortsInv, NEW a \in Adders,
           \/ \E p \in Pods, t \in AddTargets, x \in {0, MaxPort} : AddBegins(a, p, t, x)
           \/ AddReads(a)
    PROVE  PortsInv'
<1>1. PortsCore /\ PortsTypeOK /\ rows \subseteq Rows
  BY Zenon DEF PortsInv, PortsCore, PortsTypeOK
<1>2. CASE \E p \in Pods, t \in AddTargets, x \in {0, MaxPort} : AddBegins(a, p, t, x)
  <2>1. PICK p \in Pods, t \in AddTargets, x \in {0, MaxPort} : AddBegins(a, p, t, x)
    BY <1>2, Zenon
  <2>2. x \in HostPorts \union {0} /\ t \in HostPorts
    BY PortsAssumption DEF HostPorts
  <2> DEFINE asked == [at |-> "read", pod |-> p, target |-> t, local |-> x, allocated |-> {}]
             refused == [at |-> "failed"]
  <2>3. asked \in Requests /\ refused \in Requests
    BY <2>2, Zenon DEF Requests
  <2>4. /\ asked.at = "read" /\ asked.pod = p /\ refused.at = "failed"
    BY Zenon
  <2>5. /\ adder[a].at = "none" /\ UNCHANGED <<rows, bound, forwarding, setUp, overlapped>>
        /\ adder' = [adder EXCEPT ![a] = asked] \/ adder' = [adder EXCEPT ![a] = refused]
        /\ disturbed' = IF SetUpsOf(p) # {} \/ AddsOf(p) # {}
                          THEN disturbed \union {p} ELSE disturbed
    BY <2>1, Zenon DEF AddBegins
  <2> HIDE DEF asked, refused
  <2>6. /\ adder' \in [Adders -> Requests]
        /\ adder'[a].at = "failed" \/ (adder'[a].at = "read" /\ adder'[a].pod = p)
        /\ \A b \in Adders : b # a => adder'[b] = adder[b]
    BY <1>1, <2>3, <2>4, <2>5, Zenon DEF PortsTypeOK
  <2>7. \A b \in Adders : RequestOwns(b)'
    <3>1. \A b \in Adders : RequestOwns(b)  BY <1>1, Zenon DEF PortsCore
    <3>2. RequestOwns(a)'  BY <2>6, Zenon DEF RequestOwns
    <3>3. \A b \in Adders : b # a => RequestOwns(b)'  BY <2>5, <2>6, <3>1, StillOwns, Zenon
    <3> QED BY <3>2, <3>3, Zenon
  <2>8. ASSUME NEW q \in Pods \ disturbed', NEW b \in Adders, Busy(b, q)', ~Busy(b, q)
        PROVE  SetUpsOf(q) = {} /\ \A c \in Adders : c # b => ~Busy(c, q)'
    <3>1. b = a /\ q = p  BY <2>6, <2>8, Zenon DEF Busy
    <3>2. SetUpsOf(p) = {} /\ AddsOf(p) = {}  BY <2>5, <2>8, <3>1, Zenon
    <3>3. \A c \in Adders : ~Busy(c, p)  BY <3>2, Zenon DEF AddsOf
    <3> QED BY <2>6, <3>1, <3>2, <3>3, Zenon DEF Busy
  <2>9. /\ disturbed \subseteq disturbed' /\ disturbed' \subseteq Pods
        /\ overlapped' \subseteq disturbed'
    BY <1>1, <2>5, Zenon DEF PortsTypeOK
  <2>10. PortsTypeOK'  BY <1>1, <2>5, <2>6, <2>9, Zenon DEF PortsTypeOK
  <2>11. HandlesStay /\ ServingStays  BY <2>5, <2>6, Zenon DEF HandlesStay, ServingStays
  <2>12. BusyAlone  BY <2>8, Zenon DEF BusyAlone
  <2> QED BY <2>5, <2>7, <2>9, <2>10, <2>11, <2>12, AsideKeeps, Zenon
<1>3. CASE AddReads(a)
  <2>1. /\ adder[a].at = "read" /\ UNCHANGED <<rows, bound, forwarding, setUp, disturbed, overlapped>>
        /\ adder' = [adder EXCEPT ![a].at = "bind", ![a].allocated = Allocated]
    BY <1>3, Zenon DEF AddReads
  <2>2. Allocated \subseteq HostPorts  BY <1>1, Zenon DEF Allocated, Rows
  <2>3. adder[a] \in [at : {"read", "bind", "record", "serve"}, pod : Pods, target : HostPorts,
                      local : HostPorts \union {0}, allocated : SUBSET HostPorts]
    BY <1>1, <2>1, RequestFields, Zenon
  <2>4. /\ adder'[a] \in [at : {"read", "bind", "record", "serve"}, pod : Pods,
                          target : HostPorts, local : HostPorts \union {0},
                          allocated : SUBSET HostPorts]
        /\ adder'[a].at = "bind" /\ adder'[a].pod = adder[a].pod
        /\ \A b \in Adders : b # a => adder'[b] = adder[b]
    BY <1>1, <2>1, <2>2, <2>3, Zenon DEF PortsTypeOK
  <2>5. adder' \in [Adders -> Requests]
    <3>1. \A b \in Adders : adder'[b] \in Requests  BY <1>1, <2>4, Zenon DEF PortsTypeOK, Requests
    <3>2. adder' = [b \in Adders |-> adder'[b]]  BY <1>1, <2>1, Zenon DEF PortsTypeOK
    <3> QED BY <3>1, <3>2, Zenon
  <2>6. \A b \in Adders : RequestOwns(b)'
    <3>1. RequestOwns(a)'  BY <2>4, Zenon DEF RequestOwns
    <3>2. \A b \in Adders : b # a => RequestOwns(b)'
      <4>1. \A b \in Adders : RequestOwns(b)  BY <1>1, Zenon DEF PortsCore
      <4>2. \A b \in Adders : b # a => adder'[b] = adder[b]  BY <2>4, Zenon
      <4> QED BY <2>1, <4>1, <4>2, StillOwns, Zenon
    <3> QED BY <3>1, <3>2, Zenon
  <2>7. BusyAlone
    <3>1. \A q \in Pods, b \in Adders : Busy(b, q)' => Busy(b, q)  BY <2>1, <2>4, Zenon DEF Busy
    <3> QED BY <3>1, Zenon DEF BusyAlone
  <2>8. HandlesStay /\ ServingStays  BY <2>1, <2>4, Zenon DEF HandlesStay, ServingStays
  <2>9. PortsTypeOK'  BY <1>1, <2>1, <2>5, Zenon DEF PortsTypeOK
  <2> QED BY <2>1, <2>6, <2>7, <2>8, <2>9, AsideKeeps, Zenon
<1> QED BY <1>2, <1>3, Zenon

\* A request binds a port nobody has, or drops the one it has: no handle is
\* made or lost.
LEMMA AddBindsKeeps ==
    ASSUME PortsInv, NEW a \in Adders, AddBinds(a) \/ AddFails(a)
    PROVE  PortsInv'
<1> DEFINE Going == [at : {"read", "bind", "record", "serve"}, pod : Pods, target : HostPorts,
                     local : HostPorts \union {0}, allocated : SUBSET HostPorts]
<1>1. PortsCore /\ PortsTypeOK /\ rows \subseteq Rows
  BY Zenon DEF PortsInv, PortsCore, PortsTypeOK
<1>2. \A b \in Adders : RequestOwns(b)  BY <1>1, Zenon DEF PortsCore
<1>3. /\ adder[a].at \in {"bind", "record"}
      /\ UNCHANGED <<rows, forwarding, setUp, disturbed, overlapped>>
  BY Zenon DEF AddBinds, AddFails
<1>4. adder[a] \in Going  BY <1>1, <1>3, RequestFields, Zenon
<1>5. CASE AddBinds(a)
  <2>1. PICK x \in AddChoices(a) :
          /\ bound' = [bound EXCEPT ![x] = ByRequest(a)]
          /\ adder' = [adder EXCEPT ![a].at = "record", ![a].local = x, ![a].allocated = {}]
    BY <1>5, Zenon DEF AddBinds
  <2>2. x \in HostPorts /\ bound[x].by = "nobody"
    <3>1. CASE adder[a].local = 0
      BY <2>1, <3>1, BindNearIsFree, Zenon DEF AddChoices, Free
    <3>2. CASE adder[a].local # 0
      <4>1. x = adder[a].local /\ Free(x)  BY <2>1, <3>2, Zenon DEF AddChoices
      <4> QED BY <1>4, <3>2, <4>1, Zenon DEF Free
    <3> QED BY <3>1, <3>2, Zenon
  <2>3. ByRequest(a) \in Listeners /\ ByRequest(a).by = "request" /\ ByRequest(a).number = a
    BY Zenon DEF ByRequest, Listeners
  <2>4. /\ bound' \in [HostPorts -> Listeners] /\ bound'[x].by = "request" /\ bound'[x].number = a
        /\ \A y \in HostPorts : y # x => bound'[y] = bound[y]
    BY <1>1, <2>1, <2>2, <2>3, Zenon DEF PortsTypeOK
  <2>5. /\ adder'[a] \in Going /\ adder'[a].at = "record" /\ adder'[a].local = x
        /\ adder'[a].pod = adder[a].pod
        /\ \A b \in Adders : b # a => adder'[b] = adder[b]
    BY <1>1, <1>4, <2>1, <2>2, Zenon DEF PortsTypeOK
  <2>6. adder' \in [Adders -> Requests]
    <3>1. \A b \in Adders : adder'[b] \in Requests  BY <1>1, <2>5, Zenon DEF PortsTypeOK, Requests
    <3>2. adder' = [b \in Adders |-> adder'[b]]  BY <1>1, <2>1, Zenon DEF PortsTypeOK
    <3> QED BY <3>1, <3>2, Zenon
  <2> HIDE DEF Going
  <2>7. \A b \in Adders : RequestOwns(b)'
    <3>1. RequestOwns(a)'  BY <2>2, <2>4, <2>5, Zenon DEF RequestOwns
    <3>2. \A b \in Adders : b # a => RequestOwns(b)'
      BY <1>2, <2>2, <2>4, <2>5 DEF RequestOwns
    <3> QED BY <3>1, <3>2, Zenon
  <2>8. BusyAlone
    <3>1. \A q \in Pods, b \in Adders : Busy(b, q)' => Busy(b, q)  BY <1>3, <2>5, Zenon DEF Busy
    <3> QED BY <3>1, Zenon DEF BusyAlone
  <2>9. HandlesStay /\ ServingStays
    BY <1>3, <2>2, <2>4, <2>5, Zenon DEF HandlesStay, ServingStays
  <2>10. PortsTypeOK'  BY <1>1, <1>3, <2>4, <2>6, Zenon DEF PortsTypeOK
  <2> QED BY <1>3, <2>7, <2>8, <2>9, <2>10, AsideKeeps, Zenon
<1>6. CASE AddFails(a)
  <2>1. /\ adder' = [adder EXCEPT ![a] = [at |-> "failed"]]
        /\ \/ bound' = bound /\ adder[a].at = "bind"
           \/ adder[a].at = "record" /\ bound' = [bound EXCEPT ![adder[a].local] = Unbound]
    BY <1>6, Zenon DEF AddFails
  <2>2. /\ adder' \in [Adders -> Requests] /\ adder'[a].at = "failed"
        /\ \A b \in Adders : b # a => adder'[b] = adder[b]
    <3>1. [at |-> "failed"] \in Requests  BY Zenon DEF Requests
    <3> QED BY <1>1, <2>1, <3>1, Zenon DEF PortsTypeOK
  <2>3. Unbound \in Listeners /\ Unbound.by = "nobody"  BY Zenon DEF Unbound, Listeners
  <2>4. /\ bound' \in [HostPorts -> Listeners]
        /\ \A y \in HostPorts : bound'[y] = bound[y]
             \/ (bound[y].by = "request" /\ bound[y].number = a /\ bound'[y].by = "nobody")
    <3>1. CASE bound' = bound /\ adder[a].at = "bind"  BY <1>1, <3>1, Zenon DEF PortsTypeOK
    <3>2. CASE adder[a].at = "record" /\ bound' = [bound EXCEPT ![adder[a].local] = Unbound]
      <4>1. /\ adder[a].local \in HostPorts /\ bound[adder[a].local].by = "request"
            /\ bound[adder[a].local].number = a
        BY <1>2, <3>2, Zenon DEF RequestOwns
      <4> QED BY <1>1, <2>3, <3>2, <4>1, Zenon DEF PortsTypeOK
    <3> QED BY <2>1, <3>1, <3>2, Zenon
  <2>5. \A b \in Adders : RequestOwns(b)'
    <3>1. RequestOwns(a)'  BY <2>2, Zenon DEF RequestOwns
    <3>2. \A b \in Adders : b # a => RequestOwns(b)'
      BY <1>2, <2>2, <2>4 DEF RequestOwns
    <3> QED BY <3>1, <3>2, Zenon
  <2>6. BusyAlone
    <3>1. \A q \in Pods, b \in Adders : Busy(b, q)' => Busy(b, q)  BY <2>2, Zenon DEF Busy
    <3> QED BY <3>1, Zenon DEF BusyAlone
  <2>7. HandlesStay /\ ServingStays  BY <1>3, <2>2, <2>4, Zenon DEF HandlesStay, ServingStays
  <2>8. PortsTypeOK'  BY <1>1, <1>3, <2>2, <2>4, Zenon DEF PortsTypeOK
  <2> QED BY <1>3, <2>5, <2>6, <2>7, <2>8, AsideKeeps, Zenon
<1> QED BY <1>5, <1>6, Zenon

\* Listeners that close and ports other processes take are nobody's handles.
LEMMA OutsideKeeps ==
    ASSUME PortsInv, NEW x \in HostPorts, ListenerCloses(x) \/ ForeignBinds(x)
    PROVE  PortsInv'
<1>1. PortsCore /\ PortsTypeOK
  BY Zenon DEF PortsInv, PortsCore
<1>2. /\ UNCHANGED <<rows, forwarding, setUp, adder, disturbed, overlapped>>
      /\ bound[x].by \in {"nobody", "closing"}
      /\ \E l \in {Unbound, Foreign} : bound' = [bound EXCEPT ![x] = l]
  BY Zenon DEF ListenerCloses, ForeignBinds, Free
<1>3. \A l \in {Unbound, Foreign} : l \in Listeners /\ l.by \in {"nobody", "another"}
  BY DEF Unbound, Foreign, Listeners
<1>4. /\ bound' \in [HostPorts -> Listeners] /\ bound'[x].by \in {"nobody", "another"}
      /\ \A y \in HostPorts : y # x => bound'[y] = bound[y]
  BY <1>1, <1>2, <1>3, Zenon DEF PortsTypeOK
<1>5. \A b \in Adders : RequestOwns(b)'
  <2>1. \A b \in Adders : RequestOwns(b)  BY <1>1, Zenon DEF PortsCore
  <2> QED BY <1>2, <1>4, <2>1, Zenon DEF RequestOwns
<1>6. BusyAlone
  <2>1. \A q \in Pods, b \in Adders : Busy(b, q)' => Busy(b, q)  BY <1>2, Zenon DEF Busy
  <2> QED BY <2>1, Zenon DEF BusyAlone
<1>7. HandlesStay /\ ServingStays  BY <1>2, <1>4, Zenon DEF HandlesStay, ServingStays
<1>8. PortsTypeOK'  BY <1>1, <1>2, <1>4, Zenon DEF PortsTypeOK
<1> QED BY <1>2, <1>5, <1>6, <1>7, <1>8, AsideKeeps, Zenon

\* A request records a port no row has: it is the port it is about to serve.
LEMMA AddRecordsKeeps ==
    ASSUME PortsInv, NEW a \in Adders, AddRecords(a)
    PROVE  PortsInv'
<1> DEFINE Going == [at : {"read", "bind", "record", "serve"}, pod : Pods, target : HostPorts,
                     local : HostPorts \union {0}, allocated : SUBSET HostPorts]
<1>0. \E q, y : q = adder[a].pod /\ y = adder[a].local
  BY Zenon
<1>p. PICK p, x : p = adder[a].pod /\ x = adder[a].local
  BY <1>0, Zenon
<1>r. PICK new : new = Row(p, adder[a].target, x)
  BY Zenon
<1>1. PortsCore /\ PortsTypeOK /\ rows \subseteq Rows /\ LocalsUnique
  BY Zenon DEF PortsInv, PortsCore, PortsTypeOK
<1>2. /\ adder[a].at = "record" /\ \A r \in rows : r.local # x
      /\ rows' = rows \union {new} /\ adder' = [adder EXCEPT ![a].at = "serve"]
      /\ UNCHANGED <<bound, forwarding, setUp, disturbed, overlapped>>
  BY <1>p, <1>r, Zenon DEF AddRecords, Recordable
<1>7. \A b \in Adders : RequestOwns(b)  BY <1>1, Zenon DEF PortsCore
<1>8. x \in HostPorts /\ bound[x].by = "request" /\ bound[x].number = a
  BY <1>2, <1>7, <1>p, Zenon DEF RequestOwns
<1>3. adder[a] \in Going /\ x \in HostPorts /\ p \in Pods /\ adder[a].target \in HostPorts
  BY <1>1, <1>2, <1>8, <1>p, RequestFields, Zenon
<1>4. /\ adder'[a] \in Going /\ adder'[a].at = "serve" /\ adder'[a].local = x
      /\ adder'[a].pod = p /\ adder'[a].target = adder[a].target
      /\ \A b \in Adders : b # a => adder'[b] = adder[b]
  BY <1>1, <1>2, <1>3, <1>p, Zenon DEF PortsTypeOK
<1>5. adder' \in [Adders -> Requests]
  <2>1. \A b \in Adders : adder'[b] \in Requests  BY <1>1, <1>4, Zenon DEF PortsTypeOK, Requests
  <2>2. adder' = [b \in Adders |-> adder'[b]]  BY <1>1, <1>2, Zenon DEF PortsTypeOK
  <2> QED BY <2>1, <2>2, Zenon
<1>6. /\ new \in Rows /\ new.pod = p /\ new.local = x /\ new.target = adder[a].target
  BY <1>3, <1>r, Zenon DEF Row, Rows
<1> HIDE DEF Going
<1>9. PortsTypeOK'  BY <1>1, <1>2, <1>5, <1>6, Zenon DEF PortsTypeOK
<1>10. \A b \in Adders : RequestOwns(b)'
  <2>1. RequestOwns(a)'  BY <1>2, <1>3, <1>4, <1>8, Zenon DEF RequestOwns
  <2>2. \A b \in Adders : b # a => RequestOwns(b)'  BY <1>2, <1>4, <1>7 DEF RequestOwns
  <2> QED BY <2>1, <2>2, Zenon
<1>11. \A k \in Jobs, y \in HostPorts : IsMade(k, y)' <=> IsMade(k, y)
  BY <1>2, Zenon DEF IsMade, AtHand
<1>12. \A b \in Adders : adder'[b].at = "serve" /\ adder'[b].local = x => b = a
  BY <1>2, <1>8, <1>10 DEF RequestOwns
<1>13. PortsCore'
  <2>1. LocalsUnique'  BY <1>1, <1>2, <1>6, Zenon DEF LocalsUnique
  <2>2. \A k \in Jobs : SetUpOwns(k)' /\ (PodOf(k) \notin overlapped' => SavedAreRows(k)')
    BY <1>1, <1>2, OthersSetUp, Zenon
  <2>a. \A q \in Pods : q \notin overlapped' => OneSetUp(q)'  BY <1>1, <1>2, OneSetUpStays, Zenon
  <2>3. \A y \in HostPorts : PortOwned(y)'
    <3>1. \A y \in HostPorts : PortOwned(y)  BY <1>1, Zenon DEF PortsCore
    <3> QED BY <1>2, <3>1, Zenon DEF PortOwned
  <2>4. \A r \in rows' : GoesHome(r)'
    <3> SUFFICES ASSUME NEW r \in rows' PROVE GoesHome(r)'
      BY Zenon
    <3>1. CASE r = new
      BY <1>2, <1>4, <1>6, <1>8, <1>12, <3>1, Zenon
         DEF GoesHome, ListGoesHome, MadeGoHome, AddedGoHome, IsMade
    <3>2. CASE r \in rows
      <4>1. r.local # x /\ r.local \in HostPorts  BY <1>1, <1>2, <3>2, Zenon DEF Rows
      <4>a. GoesHome(r)  BY <1>1, <3>2, Zenon DEF PortsCore
      <4>2. \A b \in Adders : adder'[b].at = "serve" /\ adder'[b].local = r.local =>
              adder'[b] = adder[b]
        BY <1>4, <4>1, Zenon
      <4>3. bound' = bound /\ overlapped' = overlapped  BY <1>2, Zenon
      <4>4. ListGoesHome(r)' /\ MadeGoHome(r)'
        BY <1>11, <4>1, <4>3, <4>a, Zenon DEF GoesHome, ListGoesHome, MadeGoHome
      <4>5. AddedGoHome(r)'  BY <4>2, <4>a, Zenon DEF GoesHome, AddedGoHome
      <4> QED BY <4>4, <4>5, Zenon DEF GoesHome
    <3> QED BY <1>2, <3>1, <3>2, Zenon
  <2> QED BY <1>9, <1>10, <2>1, <2>2, <2>3, <2>4, <2>a, Zenon DEF PortsCore
<1>14. ASSUME NEW q \in Pods \ disturbed', q # p PROVE Promises(q)'
  <2>1. Promises(q) /\ rows' \subseteq Rows  BY <1>2, <1>9, <1>14, Zenon DEF PortsInv, PortsTypeOK
  <2>2. \A r \in Rows : r.pod = q => (r \in rows' <=> r \in rows)  BY <1>2, <1>6, <1>14, Zenon
  <2>3. \A b \in Adders : Busy(b, q) \/ Busy(b, q)' => adder'[b] = adder[b]
    BY <1>4, <1>14, <1>p, Zenon DEF Busy
  <2> QED BY <1>1, <1>2, <1>14, <2>1, <2>2, <2>3, OthersPromises, Zenon
<1>15. ASSUME p \notin disturbed' PROVE Promises(p)'
  <2>1. Promises(p)  BY <1>2, <1>3, <1>15, Zenon DEF PortsInv
  <2>2. Busy(a, p) /\ \A b \in Adders : Busy(b, p)' <=> Busy(b, p)
    BY <1>2, <1>4, <1>p, Zenon DEF Busy
  <2>3. /\ OneRequest(p)
        /\ \A k \in Jobs : PodOf(k) = p /\ setUp[k].at # "none" => Alone(p)
    BY <2>1, Zenon DEF Promises, Complete
  <2>4. /\ OneRequest(p)' /\ SetUpsOf(p) = {}
        /\ \A k \in Jobs : PodOf(k) = p => setUp[k].at = "none"
    BY <2>2, <2>3, Zenon DEF OneRequest, Alone, SetUpsOf
  <2>5. ASSUME p \in forwarding PROVE AllListed(p)'
    <3>1. AllListed(p)  BY <2>1, <2>4, <2>5, Zenon DEF Promises
    <3>2. \A b \in Adders : Busy(b, p) => b = a  BY <2>2, <2>3, Zenon DEF OneRequest
    <3>3. \A r \in RowsOf(p) : IsListed(r)
      <4> SUFFICES ASSUME NEW r \in RowsOf(p), IsAdded(r) PROVE FALSE
        BY <3>1, Zenon DEF AllListed
      <4>1. PICK b \in Adders : adder[b].at = "serve" /\ adder[b].pod = p
        BY Zenon DEF IsAdded, RowsOf
      <4>2. b = a  BY <3>2, <4>1, Zenon DEF Busy
      <4> QED BY <1>2, <4>1, <4>2, Zenon
    <3>4. IsAdded(new)'  BY <1>4, <1>6, Zenon DEF IsAdded
    <3>5. \A r \in RowsOf(p) : IsListed(r)'  BY <1>2, <3>3, Zenon DEF IsListed
    <3>6. \A r \in RowsOf(p)' : r = new \/ r \in RowsOf(p)  BY <1>2, Zenon DEF RowsOf
    <3>7. ListedFor(p)' = ListedFor(p)  BY <1>2, Zenon DEF ListedFor
    <3>8. Row(p, adder'[a].target, adder'[a].local) \in rows'  BY <1>2, <1>4, <1>r
    <3>9. \A b \in Adders : adder'[b].at = "serve" /\ adder'[b].pod = p => b = a
      BY <2>2, <3>2, Zenon DEF Busy
    <3>10. \A y \in ListedFor(p)' : Row(p, bound'[y].target, y) \in rows'
      BY <1>2, <3>1, <3>7, Zenon DEF AllListed
    <3> QED BY <3>4, <3>5, <3>6, <3>8, <3>9, <3>10, Zenon DEF AllListed
  <2>6. \A k \in Jobs : PodOf(k) = p => Complete(k)'  BY <1>2, <2>4, Zenon DEF Complete
  <2> QED BY <1>2, <2>4, <2>5, <2>6, Zenon DEF Promises
<1> QED BY <1>13, <1>14, <1>15, Zenon DEF PortsInv

\* A request's port is served as its row says; on a pod without a list of
\* handles this disturbs.
LEMMA AddServesKeeps ==
    ASSUME PortsInv, NEW a \in Adders, AddServes(a)
    PROVE  PortsInv'
<1>0. \E q, y, z : q = adder[a].pod /\ y = adder[a].target /\ z = adder[a].local
  BY Zenon
<1>p. PICK p, t, x : p = adder[a].pod /\ t = adder[a].target /\ x = adder[a].local
  BY <1>0, Zenon
<1>1. PortsCore /\ PortsTypeOK /\ rows \subseteq Rows
  BY Zenon DEF PortsInv, PortsCore, PortsTypeOK
<1>2. /\ adder[a].at = "serve" /\ bound' = [bound EXCEPT ![x] = InList(p, t)]
      /\ forwarding' = forwarding \union {p} /\ adder' = [adder EXCEPT ![a] = [at |-> "done"]]
      /\ disturbed' = IF p \in forwarding THEN disturbed ELSE disturbed \union {p}
      /\ UNCHANGED <<rows, setUp, overlapped>>
  BY <1>p, Zenon DEF AddServes
<1>3. x \in HostPorts /\ p \in Pods /\ t \in HostPorts
  <2>1. RequestOwns(a)  BY <1>1, Zenon DEF PortsCore
  <2>2. x \in HostPorts  BY <1>2, <1>p, <2>1, Zenon DEF RequestOwns
  <2> QED BY <1>1, <1>2, <1>p, <2>2, RequestFields, Zenon
<1>4. /\ adder' \in [Adders -> Requests] /\ adder'[a].at = "done"
      /\ \A b \in Adders : b # a => adder'[b] = adder[b]
  <2>1. [at |-> "done"] \in Requests  BY Zenon DEF Requests
  <2> QED BY <1>1, <1>2, <2>1, Zenon DEF PortsTypeOK
<1>5. /\ bound' \in [HostPorts -> Listeners]
      /\ bound'[x].by = "list" /\ bound'[x].pod = p /\ bound'[x].target = t
      /\ \A y \in HostPorts : y # x => bound'[y] = bound[y]
  <2>1. /\ InList(p, t) \in Listeners /\ InList(p, t).by = "list"
        /\ InList(p, t).pod = p /\ InList(p, t).target = t
    BY <1>3, Zenon DEF InList, Listeners
  <2> QED BY <1>1, <1>2, <1>3, <2>1, Zenon DEF PortsTypeOK
<1>6. \A b \in Adders : RequestOwns(b)  BY <1>1, Zenon DEF PortsCore
<1>7. bound[x].by = "request" /\ bound[x].number = a  BY <1>2, <1>6, <1>p, Zenon DEF RequestOwns
<1>8. Busy(a, p) /\ \A b \in Adders : Busy(b, p)' => b # a /\ Busy(b, p)
  BY <1>2, <1>4, <1>p, Zenon DEF Busy
<1>9. \A r \in rows : r.local = x => r.pod = p /\ r.target = t
  <2>1. \A r \in rows : GoesHome(r)  BY <1>1, Zenon DEF PortsCore
  <2> QED BY <1>2, <1>p, <2>1, Zenon DEF GoesHome, AddedGoHome
<1>10. \A b \in Adders : b # a /\ adder[b].at \in {"record", "serve"} =>
         adder[b].local \in HostPorts /\ adder[b].local # x
  BY <1>6, <1>7, Zenon DEF RequestOwns
<1>11. \A q \in Pods : q # p => \A b \in Adders : Busy(b, q) \/ Busy(b, q)' => adder'[b] = adder[b]
  BY <1>4, <1>p, Zenon DEF Busy
<1>12. PortsTypeOK'  BY <1>1, <1>2, <1>3, <1>4, <1>5, Zenon DEF PortsTypeOK
<1>13. \A b \in Adders : RequestOwns(b)'
  <2>1. RequestOwns(a)'  BY <1>4, Zenon DEF RequestOwns
  <2>2. \A b \in Adders : b # a => RequestOwns(b)'
    BY <1>4, <1>5, <1>6, <1>10 DEF RequestOwns
  <2> QED BY <2>1, <2>2, Zenon
<1>14. \A k \in Jobs, y \in HostPorts : IsMade(k, y)' => IsMade(k, y) /\ bound'[y] = bound[y]
  BY <1>2, <1>5, Zenon DEF IsMade, AtHand
<1>15. PortsCore'
  <2>1. LocalsUnique'  BY <1>1, <1>2, Zenon DEF PortsCore, LocalsUnique
  <2>2. \A k \in Jobs : SetUpOwns(k)' /\ (PodOf(k) \notin overlapped' => SavedAreRows(k)')
    BY <1>1, <1>2, <1>5, <1>7, OthersSetUp, Zenon
  <2>a. \A q \in Pods : q \notin overlapped' => OneSetUp(q)'  BY <1>1, <1>2, OneSetUpStays, Zenon
  <2>3. \A y \in HostPorts : PortOwned(y)'
    <3>1. \A y \in HostPorts : PortOwned(y)  BY <1>1, Zenon DEF PortsCore
    <3> QED BY <1>2, <1>5, <3>1, Zenon DEF PortOwned
  <2>4. \A r \in rows' : GoesHome(r)'
    <3> SUFFICES ASSUME NEW r \in rows PROVE GoesHome(r)'
      BY <1>2, Zenon
    <3>a. r.local \in HostPorts  BY <1>1, Zenon DEF Rows
    <3>1. GoesHome(r) /\ r.local \in HostPorts  BY <1>1, <3>a, Zenon DEF PortsCore
    <3>2. ListGoesHome(r)'
      BY <1>2, <1>5, <1>9, <3>1, Zenon DEF GoesHome, ListGoesHome
    <3>3. \A b \in Adders : adder'[b].at = "serve" => adder'[b] = adder[b]
      BY <1>4, Zenon
    <3>4. MadeGoHome(r)'  BY <1>2, <1>14, <3>1, Zenon DEF GoesHome, MadeGoHome
    <3>5. AddedGoHome(r)'  BY <3>1, <3>3, Zenon DEF GoesHome, AddedGoHome
    <3> QED BY <3>2, <3>4, <3>5, Zenon DEF GoesHome
  <2> QED BY <1>12, <1>13, <2>1, <2>2, <2>3, <2>4, <2>a, Zenon DEF PortsCore
<1>16. ASSUME NEW q \in Pods \ disturbed', q # p PROVE Promises(q)'
  <2>1. Promises(q)  BY <1>2, <1>16, Zenon DEF PortsInv
  <2> QED BY <1>1, <1>2, <1>5, <1>7, <1>11, <1>16, <2>1, OthersPromises, Zenon
<1>17. ASSUME p \notin disturbed' PROVE Promises(p)'
  <2>1. p \in forwarding /\ p \notin disturbed  BY <1>2, <1>17, Zenon
  <2>2. Promises(p)  BY <1>3, <2>1, Zenon DEF PortsInv
  <2>3. /\ \A b \in Adders : Busy(b, p) => b = a
        /\ SetUpsOf(p) = {} /\ \A k \in Jobs : PodOf(k) = p => setUp[k].at = "none"
    <3>1. /\ OneRequest(p)
          /\ \A k \in Jobs : PodOf(k) = p /\ setUp[k].at # "none" => Alone(p)
      BY <2>2, Zenon DEF Promises, Complete
    <3> QED BY <1>8, <3>1, Zenon DEF OneRequest, Alone, SetUpsOf
  <2>4. \A b \in Adders : ~Busy(b, p)'  BY <1>8, <2>3, Zenon
  <2>5. /\ \A r \in RowsOf(p) : IsListed(r) \/ IsAdded(r)
        /\ \A y \in ListedFor(p) : Row(p, bound[y].target, y) \in rows
        /\ Row(p, t, x) \in rows
    <3>1. AllListed(p)  BY <2>1, <2>2, <2>3, Zenon DEF Promises
    <3> QED BY <1>2, <1>p, <3>1, Zenon DEF AllListed
  <2>6. \A r \in RowsOf(p)' : IsListed(r)'
    <3> SUFFICES ASSUME NEW r \in RowsOf(p) PROVE IsListed(r)'
      BY <1>2, Zenon DEF RowsOf
    <3>1. r \in rows /\ r.pod = p /\ r.local \in HostPorts  BY <1>1, Zenon DEF RowsOf, Rows
    <3>2. CASE IsListed(r)  BY <1>5, <1>7, <3>1, <3>2, Zenon DEF IsListed
    <3>3. CASE IsAdded(r)
      <4>1. PICK b \in Adders : /\ adder[b].at = "serve" /\ adder[b].pod = p
                                /\ adder[b].target = r.target /\ adder[b].local = r.local
        BY <3>1, <3>3, Zenon DEF IsAdded
      <4>2. b = a  BY <2>3, <4>1, Zenon DEF Busy
      <4>3. r.local = x /\ r.target = t  BY <1>p, <4>1, <4>2, Zenon
      <4> QED BY <1>5, <3>1, <4>3, Zenon DEF IsListed
    <3> QED BY <2>5, <3>2, <3>3, Zenon
  <2>7. \A y \in ListedFor(p)' : Row(p, bound'[y].target, y) \in rows'
    <3> SUFFICES ASSUME NEW y \in HostPorts, bound'[y].by = "list", bound'[y].pod = p
                 PROVE  Row(p, bound'[y].target, y) \in rows
      BY <1>2, Zenon DEF ListedFor
    <3>1. CASE y = x  BY <1>5, <2>5, <3>1, Zenon
    <3>2. CASE y # x
      <4>1. bound'[y] = bound[y]  BY <1>5, <3>2, Zenon
      <4>2. y \in ListedFor(p)  BY <4>1, Zenon DEF ListedFor
      <4> QED BY <2>5, <4>1, <4>2, Zenon
    <3> QED BY <3>1, <3>2, Zenon
  <2>8. \A b \in Adders : ~(adder'[b].at = "serve" /\ adder'[b].pod = p)  BY <2>4, Zenon DEF Busy
  <2>9. OneRequest(p)' /\ AllListed(p)'
    BY <2>4, <2>6, <2>7, <2>8, Zenon DEF OneRequest, AllListed
  <2>10. \A k \in Jobs : PodOf(k) = p => Complete(k)'  BY <1>2, <2>3, Zenon DEF Complete
  <2> QED BY <2>9, <2>10, Zenon DEF Promises
<1> QED BY <1>15, <1>16, <1>17, Zenon DEF PortsInv

-----------------------------------------------------------------------------
(* Pods that stop, and the daemon                                            *)

\* A pod whose handles are dropped has no list of them; one with a repair under
\* way had none.
LEMMA ForwardsDroppedKeeps ==
    ASSUME PortsInv, NEW p \in Pods, NEW stops \in BOOLEAN, ForwardsDropped(p, stops)
    PROVE  PortsInv'
<1>1. PortsCore /\ PortsTypeOK /\ rows \subseteq Rows
  BY Zenon DEF PortsInv, PortsCore, PortsTypeOK
<1>2. /\ forwarding' = forwarding \ {p}
      /\ UNCHANGED <<rows, setUp, adder, disturbed, overlapped>>
  BY Zenon DEF ForwardsDropped
<1>3. \A y \in HostPorts :
        bound'[y] = (IF bound[y].by = "list" /\ bound[y].pod = p THEN Closing ELSE bound[y])
  BY Zenon DEF ForwardsDropped, DropHandles, ListedFor
<1>4. bound' \in [HostPorts -> Listeners]
  <2>1. Closing \in Listeners  BY Zenon DEF Closing, Listeners
  <2>2. \A y \in HostPorts : bound'[y] \in Listeners  BY <1>1, <1>3, <2>1, Zenon DEF PortsTypeOK
  <2>3. bound' = [y \in HostPorts |-> bound'[y]]  BY Zenon DEF ForwardsDropped, DropHandles
  <2> QED BY <2>2, <2>3, Zenon
<1>5. \A y \in HostPorts :
        \/ bound'[y] = bound[y] /\ ~(bound[y].by = "list" /\ bound[y].pod = p)
        \/ bound'[y].by = "closing" /\ bound[y].by = "list" /\ bound[y].pod = p
  <2>1. Closing.by = "closing"  BY Zenon DEF Closing
  <2> QED BY <1>3, <2>1, Zenon
<1>6. \A k \in Jobs, y \in HostPorts : IsMade(k, y)' => IsMade(k, y) /\ bound'[y] = bound[y]
  BY <1>2, <1>5, Zenon DEF IsMade, AtHand
<1>7. PortsTypeOK'  BY <1>1, <1>2, <1>4, Zenon DEF PortsTypeOK
<1>8. PortsCore'
  <2>1. LocalsUnique'  BY <1>1, <1>2, Zenon DEF PortsCore, LocalsUnique
  <2>2. \A k \in Jobs : SetUpOwns(k)' /\ (PodOf(k) \notin overlapped' => SavedAreRows(k)')
    BY <1>1, <1>2, <1>5, OthersSetUp, Zenon
  <2>a. \A q \in Pods : q \notin overlapped' => OneSetUp(q)'  BY <1>1, <1>2, OneSetUpStays, Zenon
  <2>3. \A a \in Adders : RequestOwns(a)'
    <3>1. \A a \in Adders : RequestOwns(a)  BY <1>1, Zenon DEF PortsCore
    <3> QED BY <1>2, <1>5, <3>1 DEF RequestOwns
  <2>4. \A y \in HostPorts : PortOwned(y)'
    <3>1. \A y \in HostPorts : PortOwned(y)  BY <1>1, Zenon DEF PortsCore
    <3> QED BY <1>2, <1>5, <3>1, Zenon DEF PortOwned
  <2>5. \A r \in rows' : GoesHome(r)'
    <3> SUFFICES ASSUME NEW r \in rows PROVE GoesHome(r)'
      BY <1>2, Zenon
    <3>1. r.local \in HostPorts  BY <1>1, Zenon DEF Rows
    <3>2. GoesHome(r)  BY <1>1, Zenon DEF PortsCore
    <3>3. ListGoesHome(r)'  BY <1>2, <1>5, <3>1, <3>2, Zenon DEF GoesHome, ListGoesHome
    <3>4. MadeGoHome(r)'  BY <1>2, <1>6, <3>1, <3>2, Zenon DEF GoesHome, MadeGoHome
    <3>5. AddedGoHome(r)'  BY <1>2, <3>2, Zenon DEF GoesHome, AddedGoHome
    <3> QED BY <3>3, <3>4, <3>5, Zenon DEF GoesHome
  <2> QED BY <1>7, <2>1, <2>2, <2>3, <2>4, <2>5, <2>a, Zenon DEF PortsCore
<1>9. ASSUME NEW q \in Pods \ disturbed', q # p PROVE Promises(q)'
  <2>1. Promises(q)  BY <1>2, <1>9, Zenon DEF PortsInv
  <2> QED BY <1>1, <1>2, <1>5, <1>9, <2>1, OthersPromises, Zenon DEF Busy
<1>10. ASSUME p \notin disturbed' PROVE Promises(p)'
  <2>1. Promises(p)  BY <1>2, <1>10, Zenon DEF PortsInv
  <2>2. CASE SetUpsOf(p) = {}
    <3>1. OneRequest(p)  BY <2>1, Zenon DEF Promises
    <3>2. OneRequest(p)'  BY <1>2, <3>1, Zenon DEF OneRequest, Busy
    <3>3. \A k \in Jobs : PodOf(k) = p => Complete(k)'
      BY <1>2, <2>2, Zenon DEF Complete, SetUpsOf
    <3> QED BY <1>2, <3>2, <3>3, Zenon DEF Promises
  <2>3. CASE SetUpsOf(p) # {}
    <3>1. p \notin forwarding
      BY <2>1, <2>3, Zenon DEF Promises, Complete, Alone, SetUpsOf
    <3>2. \A y \in HostPorts : bound'[y] = bound[y]
      BY <1>1, <1>5, <3>1, Zenon DEF PortsCore, PortOwned
    <3>3. p \in forwarding' <=> p \in forwarding  BY <1>2, <3>1, Zenon
    <3> QED BY <1>1, <1>2, <2>1, <3>2, <3>3, OthersPromises, Zenon DEF Busy
  <2> QED BY <2>2, <2>3, Zenon
<1> QED BY <1>8, <1>9, <1>10, Zenon DEF PortsInv

\* After a restart of the daemon there are rows, and nobody's work.
LEMMA DaemonRestartKeeps ==
    ASSUME PortsInv, DaemonRestart
    PROVE  PortsInv'
<1>1. PortsCore /\ PortsTypeOK
  BY Zenon DEF PortsInv, PortsCore
<1>2. rows' = rows /\ forwarding' = {} /\ disturbed' = {} /\ overlapped' = {}
  BY Zenon DEF DaemonRestart
<1>3. /\ bound' \in [HostPorts -> Listeners]
      /\ \A y \in HostPorts : bound'[y].by \in {"nobody", "another"}
  BY Zenon DEF DaemonRestart, Foreign, Unbound, Listeners
<1>4. setUp' \in [Jobs -> SetUps] /\ \A k \in Jobs : setUp'[k].at = "none"
  BY Zenon DEF DaemonRestart, NoJob, SetUps
<1>5. adder' \in [Adders -> Requests] /\ \A a \in Adders : adder'[a].at \in {"none", "failed"}
  BY Zenon DEF DaemonRestart, NoJob, Requests
<1>6. PortsTypeOK'  BY <1>1, <1>2, <1>3, <1>4, <1>5, Zenon DEF PortsTypeOK
<1>7. LocalsUnique'  BY <1>1, <1>2, Zenon DEF PortsCore, LocalsUnique
<1>8. \A k \in Jobs : SavedAreRows(k)' /\ SetUpOwns(k)'
  BY <1>4, Zenon DEF SavedAreRows, ForSaved, SetUpOwns
<1>9. \A a \in Adders : RequestOwns(a)'  BY <1>5, Zenon DEF RequestOwns
<1>10. \A y \in HostPorts : PortOwned(y)'  BY <1>3, Zenon DEF PortOwned
<1>11. \A r \in rows' : GoesHome(r)'
  <2>1. \A r \in rows' : r.local \in HostPorts  BY <1>6, Zenon DEF PortsTypeOK, Rows
  <2> QED BY <1>3, <1>5, <2>1, Zenon
          DEF GoesHome, ListGoesHome, MadeGoHome, AddedGoHome, IsMade
<1>12. \A p \in Pods : Promises(p)'
  BY <1>2, <1>4, <1>5, Zenon DEF Promises, OneRequest, Busy, Complete
<1>13. \A p \in Pods : OneSetUp(p)'  BY <1>4, Zenon DEF OneSetUp, SetUpsOf
<1> QED BY <1>6, <1>7, <1>8, <1>9, <1>10, <1>11, <1>12, <1>13, Zenon DEF PortsInv, PortsCore

-----------------------------------------------------------------------------
(* The result                                                                *)

\* Every step keeps the invariant.
LEMMA PortsNextInv == PortsInv /\ [PortsNext]_portVars => PortsInv'
<1> SUFFICES ASSUME PortsInv, [PortsNext]_portVars PROVE PortsInv'
  BY Zenon
<1>1. CASE UNCHANGED portVars
  <2>1. UNCHANGED <<rows, bound, forwarding, setUp, adder, disturbed, overlapped>>
    BY <1>1, Zenon DEF portVars
  <2>2. PortsTypeOK /\ \A a \in Adders : RequestOwns(a)  BY Zenon DEF PortsInv, PortsCore
  <2>3. \A a \in Adders : RequestOwns(a)'  BY <2>1, <2>2, Zenon DEF RequestOwns
  <2>4. HandlesStay /\ ServingStays /\ BusyAlone
    BY <2>1, Zenon DEF HandlesStay, ServingStays, BusyAlone, Busy
  <2>5. PortsTypeOK'  BY <2>1, <2>2, Zenon DEF PortsTypeOK
  <2> QED BY <2>1, <2>3, <2>4, <2>5, AsideKeeps, Zenon
<1>2. ASSUME NEW j \in Jobs,
             \/ SetUpBegins(j) \/ SetUpReads(j) \/ SetUpBinds(j) \/ SetUpRecords(j)
             \/ SetUpFindsNoContainer(j) \/ SetUpFails(j) \/ SetUpEnds(j) \/ RepairRefused(j)
      PROVE  PortsInv'
  BY Zenon, <1>2, SetUpBeginsKeeps, SetUpReadsKeeps, SetUpBindsKeeps, SetUpRecordsKeeps,
     SetUpFailsKeeps, SetUpEndsKeeps
<1>6. ASSUME NEW p \in Pods, NEW stops \in BOOLEAN, ForwardsDropped(p, stops) PROVE PortsInv'
  BY <1>6, ForwardsDroppedKeeps, Zenon
<1>3. ASSUME NEW a \in Adders,
             \/ \E p \in Pods, t \in AddTargets, x \in {0, MaxPort} : AddBegins(a, p, t, x)
             \/ AddReads(a) \/ AddBinds(a) \/ AddFails(a) \/ AddRecords(a) \/ AddServes(a)
      PROVE  PortsInv'
  BY <1>3, AddLooksKeeps, AddBindsKeeps, AddRecordsKeeps, AddServesKeeps, Zenon
<1>4. ASSUME NEW x \in HostPorts, ListenerCloses(x) \/ ForeignBinds(x) PROVE PortsInv'
  BY <1>4, OutsideKeeps, Zenon
<1>5. CASE DaemonRestart  BY <1>5, DaemonRestartKeeps, Zenon
<1> QED BY <1>1, <1>2, <1>3, <1>4, <1>5, <1>6, Zenon DEF PortsNext

\* What is promised is served, and nothing else.
LEMMA PortsInvPromises == PortsInv => PortsAsPromised
<1> SUFFICES ASSUME PortsInv PROVE PortsAsPromised
  BY Zenon
<1>1. PortsCore /\ PortsTypeOK /\ rows \subseteq Rows
  BY Zenon DEF PortsInv, PortsCore, PortsTypeOK
<1>2. \A u, v : Handle(u, v).target = u /\ Handle(u, v).local = v  BY Zenon DEF Handle
<1>3. ForwardsGoHome
  <2> SUFFICES ASSUME NEW p \in Pods \ overlapped, NEW x \in ListedFor(p), NEW r \in rows,
                      r.local = x
               PROVE  r.pod = p /\ r.target = bound[x].target
    BY <1>2 DEF ForwardsGoHome, Handles
  <2> QED BY <1>1, Zenon DEF PortsCore, GoesHome, ListGoesHome, ListedFor
<1>4. PromisesAreServed
  <2> SUFFICES ASSUME NEW p \in Pods, p \in forwarding, SetUpsOf(p) = {}, AddsOf(p) = {},
                      p \notin disturbed
               PROVE  Handles(p) = ListPorts(p)
    BY Zenon DEF PromisesAreServed
  <2>1. Promises(p)  BY Zenon DEF PortsInv
  <2>2. \A a \in Adders : ~Busy(a, p)  BY Zenon DEF AddsOf
  <2>3. /\ \A r \in RowsOf(p) : IsListed(r) \/ IsAdded(r)
        /\ \A x \in ListedFor(p) : Row(p, bound[x].target, x) \in rows
    BY <2>1, Zenon DEF Promises, AllListed
  <2>4. ASSUME NEW r \in RowsOf(p) PROVE Handle(r.target, r.local) \in Handles(p)
    <3>1. r.pod = p /\ r.local \in HostPorts  BY <1>1, Zenon DEF RowsOf, Rows
    <3>2. ~IsAdded(r)  BY <2>2, <3>1, Zenon DEF IsAdded, Busy
    <3>3. IsListed(r)  BY <2>3, <3>2, Zenon
    <3>4. r.local \in ListedFor(p) /\ bound[r.local].target = r.target
      BY <3>1, <3>3, Zenon DEF IsListed, ListedFor
    <3> QED BY <3>4, Zenon DEF Handles
  <2>5. ASSUME NEW x \in ListedFor(p) PROVE Handle(bound[x].target, x) \in ListPorts(p)
    <3> DEFINE r == Row(p, bound[x].target, x)
    <3>1. r \in rows /\ r.pod = p /\ r.target = bound[x].target /\ r.local = x
      BY <2>3, Zenon DEF Row
    <3> HIDE DEF r
    <3>2. r \in RowsOf(p)  BY <3>1, Zenon DEF RowsOf
    <3> QED BY <3>1, <3>2, Zenon DEF ListPorts
  <2> QED BY <2>4, <2>5, Zenon DEF Handles, ListPorts
<1> QED BY <1>3, <1>4, Zenon DEF PortsAsPromised

\* The forwards are what the table promises, for any pods, ports, declared
\* forwards, requests and repairs: no promised port leads to another pod or
\* container port, unless by a pod whose set-ups have crossed, and a pod that
\* has been set up without crossing set-ups or requests serves all its rows and
\* nothing else (setup_port_forwarding, add_forwarded_port,
\* install_repaired_routes).
THEOREM PortsAlwaysAsPromised == PortsSpec => []PortsAsPromised
<1>1. PortsInit => PortsInv  BY PortsInitInv, Zenon
<1>2. PortsInv /\ [PortsNext]_portVars => PortsInv'  BY PortsNextInv, Zenon
<1>3. PortsInv => PortsAsPromised  BY PortsInvPromises, Zenon
<1> QED BY <1>1, <1>2, <1>3, PTL DEF PortsSpec

-----------------------------------------------------------------------------
(* AgentStatus                                                               *)

\* What the watchers of Claude and Codex may publish.
States == {"none", "processing", "auth_error", "waiting", "stopped", "error", "idle"}

\* What the app server sends: an answer to a request, or a notification.
Messages ==
    {<<"hello">>} \union ({"changed", "thread"} \X Threads \X ThreadStates)
      \union ({"list"} \X (SUBSET Threads) \X BOOLEAN)

\* What goes down the stream: one agent's state, or the greeting with all.
Events ==
    {<<a, v>> : a \in Agents, v \in States} \union {<<"state", p>> : p \in [Agents -> States]}

\* The watcher keeps its types.
WatchTypeOK ==
    /\ thread \in [Threads -> ThreadStates]
    /\ watcher \in {"off", "hello", "list", "read", "live"}
    /\ answer \in Messages \union {NoMessage} /\ inbox \in Seq(Messages)
    /\ known \in [Threads -> ThreadStates \union {"unknown"}]
    /\ unread \subseteq Threads /\ listed \subseteq Threads

\* The stream keeps its types.
StreamTypeOK ==
    /\ published \in [Agents -> States]
    /\ stream \in {"down", "open", "greeting", "greeted"}
    /\ subscribed \subseteq Agents /\ changed \subseteq subscribed /\ overtaken \subseteq Agents
    /\ held \in [Agents -> States \union {NoEvent}]
    /\ greeting \in {<<"state", p>> : p \in [Agents -> States]} \union {NoMessage}
    /\ events \in Seq(Events)
    /\ view \in [Agents -> States]

-----------------------------------------------------------------------------
(* The watcher                                                               *)

\* The message waits to be sent or to be read.
Underway(m) == answer = m \/ \E i \in 1..Len(inbox) : inbox[i] = m

\* The kind of answer that the watcher waits for.
Kind(w) == IF w = "read" THEN "thread" ELSE w

\* What the watcher may ask for next.
Asked(w) ==
    IF w = "read" THEN unread ELSE IF w \in {"hello", "list"} THEN {w} ELSE {}

\* The watcher asks one thing at a time, and the one answer under way is to
\* what it asks; when live it has read every page and published what it knows.
Protocol ==
    /\ watcher = "off" => request = "none" /\ inbox = <<>>
    /\ request = "none" => answer = NoMessage
    /\ request # "none" => request \in Asked(watcher)
    /\ \A i \in 1..Len(inbox) : inbox[i][1] # "changed" =>
         /\ inbox[i][1] = Kind(watcher) /\ request = "none"
         /\ \A j \in 1..Len(inbox) : inbox[j][1] # "changed" => i = j
    /\ answer # NoMessage => answer[1] = Kind(watcher)
    /\ watcher \in {"hello", "list", "live"} => unread = {}
    /\ watcher = "live" => listed = Threads /\ published["codex"] = CodexSummary(known)

\* The message is a notification about the thread; none is waiting.
Says(m, t) == m[1] = "changed" /\ m[2] = t
Silent(t) == \A i \in 1..Len(inbox) : ~Says(inbox[i], t)

\* The last notification about a thread says what it is now.
LastIsTrue(t) ==
    \A i \in 1..Len(inbox) :
        (Says(inbox[i], t) /\ \A j \in 1..Len(inbox) : j > i => ~Says(inbox[j], t))
            => inbox[i][3] = thread[t]

\* With none waiting, what the watcher knows of a thread is so.
KnownIsTrue(t) == Silent(t) => known[t] \in {"unknown", thread[t]}

\* With none waiting, an answer about a thread that will be used is true.
ReplyIsTrue(t) ==
    (Silent(t) /\ known[t] = "unknown") =>
        \A m \in Messages : (Underway(m) /\ m[1] = "thread" /\ m[2] = t) => m[3] = thread[t]

\* A loaded thread that the watcher does not know is still to be read, or to
\* be listed: the list under way has it, or a further page follows.
IsToCome(t) ==
    (Silent(t) /\ known[t] = "unknown" /\ thread[t] # "not_loaded") =>
        \/ t \in unread
        \/ /\ t \notin listed
           /\ \A m \in Messages : (Underway(m) /\ m[1] = "list") => t \in m[2] \/ m[3] = TRUE

\* What the watcher has of a thread, or is to receive, leads to its state.
Follows(t) == LastIsTrue(t) /\ KnownIsTrue(t) /\ ReplyIsTrue(t) /\ IsToCome(t)

\* The watcher's half of the invariant.
WatchInv ==
    /\ WatchTypeOK /\ Protocol
    /\ watcher # "off" => \A t \in Threads : Follows(t)

-----------------------------------------------------------------------------
(* The stream                                                                *)

\* The event says something of the agent, and what.
Concerns(e, a) == e[1] = a \/ e[1] = "state"
Value(e, a) == IF e[1] = "state" THEN e[2][a] ELSE e[2]

\* Nothing is left of a stream that is down.
DownIsEmpty ==
    stream = "down" => subscribed = {} /\ events = <<>> /\ \A a \in Agents : held[a] = NoEvent

\* A value taken out of a channel is the latest, or the channel has changed.
HeldIsCurrent ==
    \A a \in Agents : held[a] # NoEvent =>
        a \in subscribed /\ (a \notin changed => held[a] = published[a])

\* The greeting made ready is the latest of an agent not overtaken since.
GreetingIsCurrent ==
    /\ stream = "greeting" <=> greeting # NoMessage
    /\ stream = "greeting" => \A a \in Agents \ overtaken : greeting[2][a] = published[a]

\* A stream past its greeting has it under way, or it has arrived.
GreetingGoes ==
    stream = "greeted" => greeted \/ \E i \in 1..Len(events) : events[i][1] = "state"

\* The last event about the agent is its state; with none under way, the
\* client has it.
Delivered(a) ==
    /\ \A i \in 1..Len(events) :
         (Concerns(events[i], a) /\ \A j \in 1..Len(events) : j > i => ~Concerns(events[j], a))
             => Value(events[i], a) = published[a]
    /\ (\A i \in 1..Len(events) : ~Concerns(events[i], a)) => view[a] = published[a]

\* So it is of each agent for which nothing is left to send.
AllDelivered ==
    stream = "greeted" =>
        \A a \in Agents :
            (a \notin overtaken /\ a \notin changed /\ held[a] = NoEvent) => Delivered(a)

\* The stream's half of the invariant.
StreamInv ==
    /\ StreamTypeOK /\ DownIsEmpty /\ HeldIsCurrent /\ GreetingIsCurrent /\ GreetingGoes
    /\ AllDelivered

\* The inductive invariant.
StatusInv == WatchInv /\ StreamInv

-----------------------------------------------------------------------------
(* Sequences                                                                 *)

\* What Tail leaves of a sequence.
LEMMA TailIndex ==
    ASSUME NEW S, NEW q \in Seq(S), q # <<>>
    PROVE  /\ Len(q) \in Nat /\ Len(q) > 0 /\ Head(q) = q[1] /\ Head(q) \in S
           /\ Tail(q) \in Seq(S) /\ Len(Tail(q)) = Len(q) - 1
           /\ \A i \in 1..Len(Tail(q)) : Tail(q)[i] = q[i + 1]
OBVIOUS

\* What Append makes of a sequence.
LEMMA AppendIndex ==
    ASSUME NEW S, NEW q \in Seq(S), NEW x \in S
    PROVE  /\ Append(q, x) \in Seq(S) /\ Len(q) \in Nat /\ Len(Append(q, x)) = Len(q) + 1
           /\ Append(q, x)[Len(q) + 1] = x
           /\ \A i \in 1..Len(q) : Append(q, x)[i] = q[i]
OBVIOUS

-----------------------------------------------------------------------------
(* The event stream                                                          *)

\* A state that is published is marked as a change for the forwarders, or the
\* agent counts as overtaken.
LEMMA PublishKeepsStream ==
    ASSUME StreamInv, NEW a \in Agents, NEW value \in States, Publish(a, value),
           UNCHANGED streamVars
    PROVE  StreamInv' /\ published' = [published EXCEPT ![a] = value]
<1>1. /\ published' = [published EXCEPT ![a] = value]
      /\ changed' = changed \union ({a} \intersect subscribed)
      /\ overtaken' = IF greeting # NoMessage \/ (stream = "greeted" /\ a \notin subscribed)
                        THEN overtaken \union {a} ELSE overtaken
      /\ stream' = stream /\ subscribed' = subscribed /\ held' = held /\ greeting' = greeting
      /\ events' = events /\ view' = view /\ greeted' = greeted
  BY Zenon DEF Publish, streamVars
<1> USE DEF StreamInv
<1>2. StreamTypeOK'  BY <1>1, Zenon DEF StreamTypeOK
<1>3. DownIsEmpty'  BY <1>1, Zenon DEF DownIsEmpty
<1>4. \A b \in Agents : b # a => published'[b] = published[b]  BY <1>1, Zenon DEF StreamTypeOK
<1>5. HeldIsCurrent'
  <2>1. SUFFICES ASSUME NEW b \in Agents, held[b] # NoEvent, b \notin changed'
                 PROVE  b \in subscribed /\ held[b] = published'[b]
    BY <1>1, Zenon DEF HeldIsCurrent
  <2>2. b \in subscribed  BY <2>1, Zenon DEF HeldIsCurrent
  <2>3. b # a /\ b \notin changed  BY <1>1, <2>1, <2>2, Zenon
  <2> QED BY <1>4, <2>1, <2>2, <2>3, Zenon DEF HeldIsCurrent
<1>6. GreetingIsCurrent'
  <2>1. stream' = "greeting" <=> greeting' # NoMessage  BY <1>1, Zenon DEF GreetingIsCurrent
  <2>2. ASSUME NEW b \in Agents, b \notin overtaken', stream = "greeting"
        PROVE  greeting[2][b] = published'[b]
    <3>1. overtaken' = overtaken \union {a}  BY <1>1, <2>2, Zenon DEF GreetingIsCurrent
    <3> QED BY <1>4, <2>2, <3>1, Zenon DEF GreetingIsCurrent
  <2> QED BY <1>1, <2>1, <2>2, Zenon DEF GreetingIsCurrent
<1>7. GreetingGoes'  BY <1>1, Zenon DEF GreetingGoes
<1>8. AllDelivered'
  <2>1. SUFFICES ASSUME NEW b \in Agents, stream = "greeted", b \notin overtaken',
                        b \notin changed', held[b] = NoEvent
                 PROVE  Delivered(b)'
    BY <1>1, Zenon DEF AllDelivered
  <2>2. b # a /\ b \notin overtaken /\ b \notin changed  BY <1>1, <2>1, Zenon
  <2>3. Delivered(b)  BY <2>1, <2>2, Zenon DEF AllDelivered
  <2> QED BY <1>1, <1>4, <2>2, <2>3, Zenon DEF Delivered
<1> QED BY <1>1, <1>2, <1>3, <1>5, <1>6, <1>7, <1>8, Zenon

\* Likewise if the state is published only when it differs.
LEMMA PublishIfModifiedKeepsStream ==
    ASSUME StreamInv, NEW a \in Agents, NEW value \in States, PublishIfModified(a, value),
           UNCHANGED streamVars
    PROVE  StreamInv' /\ published' = [published EXCEPT ![a] = value]
<1>1. CASE value = published[a]
  <2>1. UNCHANGED <<published, changed, overtaken>>  BY <1>1, Zenon DEF PublishIfModified
  <2>2. published' = [published EXCEPT ![a] = value]
    BY <1>1, <2>1, Zenon DEF StreamInv, StreamTypeOK
  <2>3. StreamInv'
    BY <2>1, ZenonT(60) DEF StreamInv, StreamTypeOK, DownIsEmpty, HeldIsCurrent, GreetingIsCurrent,
                GreetingGoes, AllDelivered, Delivered, streamVars
  <2> QED BY <2>2, <2>3, Zenon
<1>2. CASE value # published[a]
  <2>1. Publish(a, value)  BY <1>2, Zenon DEF PublishIfModified
  <2> QED BY <2>1, PublishKeepsStream, Zenon
<1> QED BY <1>1, <1>2, Zenon

\* Steps that neither publish nor touch the stream.
LEMMA StreamUntouched ==
    ASSUME StreamInv, UNCHANGED <<published, changed, overtaken>>, UNCHANGED streamVars
    PROVE  StreamInv'
BY ZenonT(60) DEF StreamInv, StreamTypeOK, DownIsEmpty, HeldIsCurrent, GreetingIsCurrent,
             GreetingGoes, AllDelivered, Delivered, streamVars

\* The summaries are states.
LEMMA SummariesAreStates ==
    /\ \A m, subs : ClaudeSummary(m, subs) \in States
    /\ \A k : CodexSummary(k) \in States
BY Zenon DEF ClaudeSummary, CodexSummary, States, NoAgent

\* The stream comes, its forwarders subscribe, the greeting is read, and the
\* connection is lost.
LEMMA StreamComesAndGoes ==
    ASSUME StreamInv,
           \/ StreamOpens \/ GreetingReads \/ StreamBreaks
           \/ \E a \in Agents : Subscribe(a)
    PROVE  StreamInv'
<1> USE DEF StreamInv
<1>1. CASE StreamOpens
  <2>1. /\ stream = "down" /\ stream' = "open" /\ overtaken' = {}
        /\ UNCHANGED <<published, subscribed, changed, held, greeting, events, view>>
    BY <1>1, Zenon DEF StreamOpens
  <2>2. StreamTypeOK'  BY <2>1, Zenon DEF StreamTypeOK
  <2>3. HeldIsCurrent'  BY <2>1, Zenon DEF HeldIsCurrent
  <2>4. GreetingIsCurrent'  BY <2>1, Zenon DEF GreetingIsCurrent
  <2> QED BY <2>1, <2>2, <2>3, <2>4, Zenon DEF DownIsEmpty, GreetingGoes, AllDelivered
<1>2. CASE GreetingReads
  <2>1. /\ stream = "open" /\ stream' = "greeting" /\ greeting' = <<"state", published>>
        /\ UNCHANGED <<published, subscribed, changed, overtaken, held, events, view>>
    BY <1>2, Zenon DEF GreetingReads
  <2>2. StreamTypeOK'  BY <2>1, Zenon DEF StreamTypeOK
  <2>3. HeldIsCurrent'  BY <2>1, Zenon DEF HeldIsCurrent
  <2>4. GreetingIsCurrent'  BY <2>1, Zenon DEF GreetingIsCurrent, NoMessage
  <2> QED BY <2>1, <2>2, <2>3, <2>4, Zenon DEF DownIsEmpty, GreetingGoes, AllDelivered
<1>3. CASE StreamBreaks
  <2>1. /\ stream' = "down" /\ subscribed' = {} /\ changed' = {} /\ events' = <<>>
        /\ held' = [a \in Agents |-> NoEvent] /\ greeting' = NoMessage /\ overtaken' = {}
        /\ UNCHANGED <<published, view>>
    BY <1>3, Zenon DEF StreamBreaks
  <2>2. StreamTypeOK'  BY <2>1 DEF StreamTypeOK
  <2>3. HeldIsCurrent' /\ DownIsEmpty'  BY <2>1, Zenon DEF HeldIsCurrent, DownIsEmpty
  <2>4. GreetingIsCurrent'  BY <2>1, Zenon DEF GreetingIsCurrent
  <2> QED BY <2>1, <2>2, <2>3, <2>4, Zenon DEF GreetingGoes, AllDelivered
<1>4. ASSUME NEW a \in Agents, Subscribe(a)  PROVE StreamInv'
  <2>1. /\ stream # "down" /\ subscribed' = subscribed \union {a}
        /\ UNCHANGED <<published, changed, overtaken, stream, held, greeting, events, view,
                       greeted>>
    BY <1>4, Zenon DEF Subscribe
  <2>2. StreamTypeOK'  BY <2>1, Zenon DEF StreamTypeOK
  <2>3. HeldIsCurrent'  BY <2>1, Zenon DEF HeldIsCurrent
  <2>4. GreetingIsCurrent' /\ GreetingGoes' /\ AllDelivered'
    BY <2>1, Zenon DEF GreetingIsCurrent, GreetingGoes, AllDelivered, Delivered
  <2> QED BY <2>1, <2>2, <2>3, <2>4, Zenon DEF DownIsEmpty
<1> QED BY <1>1, <1>2, <1>3, <1>4, Zenon

\* An event at the end of the channel is the last that concerns its agent.
LEMMA AppendDelivers ==
    ASSUME NEW a \in Agents, NEW e \in Events, events \in Seq(Events),
           events' = Append(events, e), published' = published, view' = view
    PROVE  /\ (Concerns(e, a) /\ Value(e, a) = published[a]) => Delivered(a)'
           /\ (~Concerns(e, a) /\ Delivered(a)) => Delivered(a)'
<1>1. /\ Len(events) \in Nat /\ Len(events') = Len(events) + 1
      /\ events'[Len(events) + 1] = e /\ \A i \in 1..Len(events) : events'[i] = events[i]
  BY AppendIndex
<1>2. ASSUME Concerns(e, a), Value(e, a) = published[a]  PROVE Delivered(a)'
  <2>1. ASSUME NEW i \in 1..Len(events'),
               \A j \in 1..Len(events') : j > i => ~Concerns(events'[j], a)
        PROVE  i = Len(events) + 1
    BY <1>1, <1>2, <2>1
  <2>2. ~(\A i \in 1..Len(events') : ~Concerns(events'[i], a))  BY <1>1, <1>2
  <2> QED BY <1>1, <1>2, <2>1, <2>2, Zenon DEF Delivered
<1>3. ASSUME ~Concerns(e, a), Delivered(a)  PROVE Delivered(a)'
  <2>1. ASSUME NEW i \in 1..Len(events'), Concerns(events'[i], a),
               \A j \in 1..Len(events') : j > i => ~Concerns(events'[j], a)
        PROVE  Value(events'[i], a) = published[a]
    <3>1. i \in 1..Len(events) /\ events'[i] = events[i]  BY <1>1, <1>3, <2>1
    <3>2. \A j \in 1..Len(events) : j > i => ~Concerns(events[j], a)  BY <1>1, <2>1
    <3> QED BY <1>3, <2>1, <3>1, <3>2, Zenon DEF Delivered
  <2>2. ASSUME \A i \in 1..Len(events') : ~Concerns(events'[i], a)  PROVE view[a] = published[a]
    BY <1>1, <1>3, <2>2 DEF Delivered
  <2> QED BY <2>1, <2>2, Zenon DEF Delivered
<1> QED BY <1>2, <1>3, Zenon

\* What is sent: the greeting, and what the forwarders have taken.
LEMMA StreamSends ==
    ASSUME StreamInv, GreetingSends \/ \E a \in Agents : ForwarderTakes(a) \/ ForwarderSends(a)
    PROVE  StreamInv'
<1> USE DEF StreamInv
<1>1. CASE GreetingSends
  <2>1. /\ stream = "greeting" /\ stream' = "greeted" /\ greeting' = NoMessage
        /\ events' = Append(events, greeting)
        /\ UNCHANGED <<published, subscribed, changed, overtaken, held, view, greeted>>
    BY <1>1, Zenon DEF GreetingSends
  <2>2. PICK p \in [Agents -> States] : greeting = <<"state", p>>
    BY <2>1, Zenon DEF StreamTypeOK, GreetingIsCurrent
  <2>3. greeting \in Events  BY <2>2 DEF Events
  <2>4. events \in Seq(Events)  BY Zenon DEF StreamTypeOK
  <2>5. /\ Len(events) \in Nat /\ Len(events') = Len(events) + 1 /\ events' \in Seq(Events)
        /\ events'[Len(events) + 1] = greeting
    BY <2>1, <2>3, <2>4, AppendIndex
  <2>6. StreamTypeOK'  BY <2>1, <2>5, Zenon DEF StreamTypeOK
  <2>7. HeldIsCurrent'  BY <2>1, Zenon DEF HeldIsCurrent
  <2>8. GreetingGoes'
    <3>1. Len(events) + 1 \in 1..Len(events') /\ events'[Len(events) + 1][1] = "state"
      BY <2>2, <2>5
    <3> QED BY <3>1, Zenon DEF GreetingGoes
  <2>9. ASSUME NEW a \in Agents, a \notin overtaken  PROVE Delivered(a)'
    <3>1. Concerns(greeting, a) /\ Value(greeting, a) = published[a]
      BY <2>1, <2>2, <2>9, Zenon DEF GreetingIsCurrent, Concerns, Value
    <3> QED BY <2>1, <2>3, <2>4, <3>1, AppendDelivers, Zenon
  <2> QED BY <2>1, <2>6, <2>7, <2>8, <2>9, Zenon DEF DownIsEmpty, GreetingIsCurrent, AllDelivered
<1>2. ASSUME NEW a \in Agents, ForwarderTakes(a)  PROVE StreamInv'
  <2>1. /\ a \in changed /\ changed' = changed \ {a} /\ held' = [held EXCEPT ![a] = published[a]]
        /\ UNCHANGED <<published, stream, subscribed, greeting, events, view, greeted, overtaken>>
    BY <1>2, Zenon DEF ForwarderTakes
  <2>2. published[a] \in States /\ published[a] # NoEvent /\ held'[a] = published[a]
    BY <2>1, Zenon DEF StreamTypeOK, States, NoEvent
  <2>3. \A b \in Agents : b # a => held'[b] = held[b]  BY <2>1, Zenon DEF StreamTypeOK
  <2>4. StreamTypeOK'  BY <2>1, <2>2, Zenon DEF StreamTypeOK
  <2>5. DownIsEmpty'  BY <2>1, Zenon DEF DownIsEmpty, StreamTypeOK
  <2>6. HeldIsCurrent'  BY <2>1, <2>2, <2>3, Zenon DEF HeldIsCurrent, StreamTypeOK
  <2>7. GreetingIsCurrent' /\ GreetingGoes'
    BY <2>1, Zenon DEF GreetingIsCurrent, GreetingGoes
  <2>8. ASSUME NEW b \in Agents, stream = "greeted", b \notin overtaken, b \notin changed',
               held'[b] = NoEvent
        PROVE  Delivered(b)'
    <3>1. b # a  BY <2>2, <2>8, Zenon
    <3>2. Delivered(b)  BY <2>1, <2>3, <2>8, <3>1, Zenon DEF AllDelivered
    <3> QED BY <2>1, <3>2, Zenon DEF Delivered
  <2>9. AllDelivered'  BY <2>1, <2>8, Zenon DEF AllDelivered
  <2> QED BY <2>4, <2>5, <2>6, <2>7, <2>9, Zenon
<1>3. ASSUME NEW a \in Agents, ForwarderSends(a)  PROVE StreamInv'
  <2> DEFINE e == <<a, held[a]>>
  <2>1. /\ held[a] # NoEvent /\ events' = Append(events, e)
        /\ held' = [held EXCEPT ![a] = NoEvent]
        /\ overtaken' = IF stream = "greeted" THEN overtaken \ {a} ELSE overtaken
        /\ UNCHANGED <<published, changed, stream, subscribed, greeting, view, greeted>>
    BY <1>3, Zenon DEF ForwarderSends
  <2>2. /\ held[a] \in States /\ e \in Events /\ events \in Seq(Events)
        /\ \A b \in Agents : Concerns(e, b) <=> b = a
        /\ Value(e, a) = held[a]
    BY <2>1 DEF StreamTypeOK, Events, Concerns, Value, Agents
  <2>3. /\ Len(events) \in Nat /\ Len(events') = Len(events) + 1 /\ events' \in Seq(Events)
        /\ \A i \in 1..Len(events) : events'[i] = events[i]
    BY <2>1, <2>2, AppendIndex
  <2>4. held'[a] = NoEvent /\ \A b \in Agents : b # a => held'[b] = held[b]
    BY <2>1, Zenon DEF StreamTypeOK
  <2>5. StreamTypeOK'  BY <2>1, <2>3, Zenon DEF StreamTypeOK
  <2>6. stream # "down"  BY <2>1, Zenon DEF DownIsEmpty
  <2>7. HeldIsCurrent'  BY <2>1, <2>4, Zenon DEF HeldIsCurrent
  <2>8. GreetingIsCurrent'  BY <2>1, Zenon DEF GreetingIsCurrent
  <2>9. GreetingGoes'  BY <2>1, <2>3 DEF GreetingGoes
  <2>10. ASSUME NEW b \in Agents, stream = "greeted", b \notin overtaken', b \notin changed,
                held'[b] = NoEvent
         PROVE  Delivered(b)'
    <3>1. CASE b = a
      <4>1. Value(e, a) = published[a]  BY <2>1, <2>2, <2>10, <3>1, Zenon DEF HeldIsCurrent
      <4> QED BY <2>1, <2>2, <3>1, <4>1, AppendDelivers, Zenon
    <3>2. CASE b # a
      <4>1. Delivered(b)  BY <2>1, <2>4, <2>10, <3>2, Zenon DEF AllDelivered
      <4> QED BY <2>1, <2>2, <3>2, <4>1, AppendDelivers, Zenon
    <3> QED BY <3>1, <3>2, Zenon
  <2> QED BY <2>1, <2>5, <2>6, <2>7, <2>8, <2>9, <2>10, Zenon DEF DownIsEmpty, AllDelivered
<1> QED BY <1>1, <1>2, <1>3, Zenon

\* The daemon takes the first event: what was last for an agent is last still,
\* or it is the first and the daemon's view has it now.
LEMMA TailDelivers ==
    ASSUME NEW a \in Agents, events \in Seq(Events), events # <<>>, events' = Tail(events),
           published' = published, Delivered(a),
           Concerns(Head(events), a) =>
             \/ view'[a] = Value(Head(events), a)
             \/ \E i \in 1..Len(events) : i > 1 /\ Concerns(events[i], a),
           ~Concerns(Head(events), a) => view'[a] = view[a]
    PROVE  Delivered(a)'
<1>1. /\ Len(events) \in Nat /\ Len(events) > 0 /\ Head(events) = events[1]
      /\ Len(events') = Len(events) - 1
      /\ \A i \in 1..Len(events') : events'[i] = events[i + 1]
  BY TailIndex, Zenon
<1>2. ASSUME NEW i \in 1..Len(events'), Concerns(events'[i], a),
             \A j \in 1..Len(events') : j > i => ~Concerns(events'[j], a)
      PROVE  Value(events'[i], a) = published[a]
  <2>1. i + 1 \in 1..Len(events) /\ events'[i] = events[i + 1]  BY <1>1
  <2>2. ASSUME NEW j \in 1..Len(events), j > i + 1  PROVE ~Concerns(events[j], a)
    <3>1. j - 1 \in 1..Len(events') /\ j - 1 > i /\ (j - 1) + 1 = j  BY <1>1, <2>2
    <3> QED BY <1>1, <1>2, <3>1, Zenon
  <2> QED BY <1>2, <2>1, <2>2, Zenon DEF Delivered
<1>3. ASSUME \A i \in 1..Len(events') : ~Concerns(events'[i], a)
      PROVE  view'[a] = published[a]
  <2>1. ASSUME NEW j \in 1..Len(events), j > 1  PROVE ~Concerns(events[j], a)
    <3>1. j - 1 \in 1..Len(events') /\ (j - 1) + 1 = j  BY <1>1, <2>1
    <3> QED BY <1>1, <1>3, <3>1, Zenon
  <2>2. 1 \in 1..Len(events)  BY <1>1
  <2>3. CASE Concerns(Head(events), a)
    <3>1. view'[a] = Value(events[1], a)  BY <1>1, <2>1, <2>3, Zenon
    <3> QED BY <1>1, <2>1, <2>2, <2>3, <3>1, Zenon DEF Delivered
  <2>4. CASE ~Concerns(Head(events), a)
    <3>1. \A j \in 1..Len(events) : ~Concerns(events[j], a)  BY <1>1, <2>1, <2>4
    <3> QED BY <2>4, <3>1, Zenon DEF Delivered
  <2> QED BY <2>3, <2>4, Zenon
<1> QED BY <1>2, <1>3, Zenon DEF Delivered

\* The daemon skips events, is greeted and hears of changes.
LEMMA DaemonReads ==
    ASSUME StreamInv, DaemonSkips \/ DaemonGreeted \/ DaemonHears
    PROVE  StreamInv'
<1> USE DEF StreamInv
<1>1. /\ events # <<>> /\ events' = Tail(events)
      /\ UNCHANGED <<published, changed, stream, subscribed, held, greeting, overtaken>>
  BY Zenon DEF DaemonSkips, DaemonGreeted, DaemonHears
<1>2. /\ events \in Seq(Events) /\ Head(events) \in Events /\ Head(events) = events[1]
      /\ Len(events) \in Nat /\ Len(events) > 0
      /\ events' \in Seq(Events) /\ Len(events') = Len(events) - 1
      /\ \A i \in 1..Len(events') : events'[i] = events[i + 1]
  BY <1>1, TailIndex, Zenon DEF StreamTypeOK
<1>3. /\ Head(events)[1] = "state" => Head(events)[2] \in [Agents -> States]
      /\ Head(events)[1] # "state" => Head(events)[1] \in Agents /\ Head(events)[2] \in States
  BY <1>2 DEF Events, Agents
<1>4. view' \in [Agents -> States]
  BY <1>3, Zenon DEF DaemonSkips, DaemonGreeted, DaemonHears, StreamTypeOK
<1>5. StreamTypeOK'  BY <1>1, <1>2, <1>4, Zenon DEF StreamTypeOK
<1>6. DownIsEmpty'  BY <1>1, Zenon DEF DownIsEmpty
<1>7. HeldIsCurrent' /\ GreetingIsCurrent'
  BY <1>1, Zenon DEF HeldIsCurrent, GreetingIsCurrent
<1>8. CASE DaemonSkips
  <2>1. ~greeted /\ Head(events)[1] # "state" /\ view' = view /\ greeted' = greeted
    BY <1>8, Zenon DEF DaemonSkips
  <2>2. ASSUME stream = "greeted"  PROVE \E i \in 1..Len(events) : i > 1 /\ events[i][1] = "state"
    BY <1>2, <2>1, <2>2 DEF GreetingGoes
  <2>3. GreetingGoes'
    <3>1. SUFFICES ASSUME stream = "greeted"
                   PROVE  \E i \in 1..Len(events') : events'[i][1] = "state"
      BY <1>1, Zenon DEF GreetingGoes
    <3>2. PICK i \in 1..Len(events) : i > 1 /\ events[i][1] = "state"  BY <2>2, <3>1, Zenon
    <3>3. i - 1 \in 1..Len(events') /\ events'[i - 1] = events[i]  BY <1>2, <3>2
    <3> QED BY <3>2, <3>3, Zenon
  <2>4. ASSUME NEW a \in Agents, stream = "greeted", Delivered(a)  PROVE Delivered(a)'
    <3>1. \E i \in 1..Len(events) : i > 1 /\ Concerns(events[i], a)
      BY <2>2, <2>4, Zenon DEF Concerns
    <3> QED BY <1>1, <1>2, <2>1, <2>4, <3>1, TailDelivers, Zenon
  <2> QED BY <1>1, <1>5, <1>6, <1>7, <2>3, <2>4, Zenon DEF AllDelivered
<1>9. CASE DaemonGreeted
  <2>1. Head(events)[1] = "state" /\ view' = Head(events)[2] /\ greeted'
    BY <1>9, Zenon DEF DaemonGreeted
  <2>2. ASSUME NEW a \in Agents, Delivered(a)  PROVE Delivered(a)'
    <3>1. Concerns(Head(events), a) /\ view'[a] = Value(Head(events), a)
      BY <2>1, Zenon DEF Concerns, Value
    <3> QED BY <1>1, <1>2, <2>2, <3>1, TailDelivers, Zenon
  <2>3. GreetingGoes'  BY <2>1, Zenon DEF GreetingGoes
  <2> QED BY <1>1, <1>5, <1>6, <1>7, <2>2, <2>3, Zenon DEF AllDelivered
<1>10. CASE DaemonHears
  <2>1. /\ greeted /\ greeted' = greeted /\ Head(events)[1] # "state"
        /\ view' = [view EXCEPT ![Head(events)[1]] = Head(events)[2]]
    BY <1>10, Zenon DEF DaemonHears
  <2>2. ASSUME NEW a \in Agents, Delivered(a)  PROVE Delivered(a)'
    <3>1. view \in [Agents -> States]  BY Zenon DEF StreamTypeOK
    <3>2. /\ Concerns(Head(events), a) => view'[a] = Value(Head(events), a)
          /\ ~Concerns(Head(events), a) => view'[a] = view[a]
      BY <1>3, <2>1, <3>1, Zenon DEF Concerns, Value
    <3> QED BY <1>1, <1>2, <2>2, <3>2, TailDelivers, Zenon
  <2>3. GreetingGoes'  BY <2>1, Zenon DEF GreetingGoes
  <2> QED BY <1>1, <1>5, <1>6, <1>7, <2>2, <2>3, Zenon DEF AllDelivered
<1> QED BY <1>8, <1>9, <1>10, Zenon

-----------------------------------------------------------------------------
(* The watcher of Codex                                                      *)

\* What the messages look like.
LEMMA MessageShapes ==
    ASSUME NEW m \in Messages
    PROVE  /\ m # NoMessage /\ m[1] \in {"hello", "changed", "list", "thread"}
           /\ m[1] \in {"changed", "thread"} => m[2] \in Threads /\ m[3] \in ThreadStates
           /\ m[1] = "list" => m[2] \subseteq Threads /\ m[3] \in BOOLEAN
<1>1. CASE m = <<"hello">>  BY <1>1, Zenon DEF NoMessage
<1>2. CASE m \in {"changed", "thread"} \X Threads \X ThreadStates  BY <1>2 DEF NoMessage
<1>3. CASE m \in {"list"} \X (SUBSET Threads) \X BOOLEAN  BY <1>3 DEF NoMessage
<1> QED BY <1>1, <1>2, <1>3, Zenon DEF Messages

\* A page is a message.
LEMMA PageIsMessage ==
    ASSUME NEW page \in SUBSET Threads, NEW more \in BOOLEAN
    PROVE  <<"list", page, more>> \in Messages
BY Zenon DEF Messages

\* Steps of Claude and of the stream leave the watcher alone.
LEMMA WatcherUntouched ==
    ASSUME WatchInv, UNCHANGED codexVars, published'["codex"] = published["codex"]
    PROVE  WatchInv'
<1>1. /\ thread' = thread /\ watcher' = watcher /\ request' = request /\ answer' = answer
      /\ inbox' = inbox /\ known' = known /\ unread' = unread /\ listed' = listed
  BY Zenon DEF codexVars
<1>2. WatchTypeOK' /\ Protocol'
  BY <1>1, Zenon DEF WatchInv, WatchTypeOK, Protocol, Asked, Kind, CodexSummary
<1>3. \A t \in Threads : Follows(t) => Follows(t)'
  BY <1>1, Zenon DEF Follows, LastIsTrue, KnownIsTrue, ReplyIsTrue, IsToCome, Silent, Underway
<1> QED BY <1>1, <1>2, <1>3, Zenon DEF WatchInv

\* A thread changes, and the watcher is going to hear of it.
LEMMA ChangeIsSent ==
    ASSUME WatchInv, NEW t \in Threads, NEW status \in ThreadStates, ThreadChanges(t, status)
    PROVE  WatchInv'
<1> DEFINE m == <<"changed", t, status>>
<1> USE DEF WatchInv
<1>1. /\ thread' = [thread EXCEPT ![t] = status] /\ inbox' = Notify(t, status)
      /\ watcher' = watcher /\ request' = request /\ answer' = answer /\ known' = known
      /\ unread' = unread /\ listed' = listed /\ published' = published
  BY Zenon DEF ThreadChanges
<1>2. CASE watcher = "off"
  <2>1. inbox' = inbox  BY <1>1, <1>2, Zenon DEF Notify
  <2>2. WatchTypeOK'  BY <1>1, <2>1, Zenon DEF WatchTypeOK
  <2>3. Protocol'  BY <1>1, <2>1, Zenon DEF Protocol, Asked, Kind, CodexSummary
  <2> QED BY <1>1, <1>2, <2>2, <2>3, Zenon
<1>3. CASE watcher # "off"
  <2>1. inbox' = Append(inbox, m)  BY <1>1, <1>3, Zenon DEF Notify
  <2>2. m \in Messages /\ inbox \in Seq(Messages)  BY Zenon DEF Messages, WatchTypeOK
  <2>3. /\ inbox' \in Seq(Messages) /\ Len(inbox) \in Nat /\ Len(inbox') = Len(inbox) + 1
        /\ inbox'[Len(inbox) + 1] = m /\ \A i \in 1..Len(inbox) : inbox'[i] = inbox[i]
    BY <2>1, <2>2, AppendIndex
  <2>4. WatchTypeOK'  BY <1>1, <2>3, Zenon DEF WatchTypeOK
  <2>5. m[1] = "changed" /\ m[2] = t /\ m[3] = status  BY Zenon
  <2>6. \A i \in 1..Len(inbox') : inbox'[i] = m \/ (i \in 1..Len(inbox) /\ inbox'[i] = inbox[i])
    BY <2>3
  <2>7. Protocol'
    <3>1. ASSUME NEW i \in 1..Len(inbox'), inbox'[i][1] # "changed"
          PROVE  /\ inbox'[i][1] = Kind(watcher) /\ request = "none"
                 /\ \A j \in 1..Len(inbox') : inbox'[j][1] # "changed" => i = j
      <4>1. i \in 1..Len(inbox) /\ inbox'[i] = inbox[i]  BY <2>5, <2>6, <3>1, Zenon
      <4> QED BY <2>5, <2>6, <3>1, <4>1, Zenon DEF Protocol
    <3> QED BY <1>1, <1>3, <3>1, Zenon DEF Protocol, Asked, Kind, CodexSummary
  <2>8. ASSUME NEW u \in Threads  PROVE Follows(u)'
    <3>1. Follows(u)  BY <1>3, Zenon
    <3>2. CASE u = t
      <4>1. Says(m, t) /\ thread'[t] = status  BY <1>1, <2>5, Zenon DEF Says, WatchTypeOK
      <4>2. ~Silent(t)'  BY <2>3, <4>1 DEF Silent
      <4>3. LastIsTrue(t)'
        <5>1. ASSUME NEW i \in 1..Len(inbox'),
                     \A j \in 1..Len(inbox') : j > i => ~Says(inbox'[j], t)
              PROVE  i = Len(inbox) + 1
          BY <2>3, <4>1, <5>1, SMTT(30)
        <5> QED BY <2>3, <2>5, <4>1, <5>1, Zenon DEF LastIsTrue
      <4> QED BY <3>2, <4>2, <4>3, Zenon DEF Follows, KnownIsTrue, ReplyIsTrue, IsToCome
    <3>3. CASE u # t
      <4>1. ~Says(m, u) /\ thread'[u] = thread[u]  BY <1>1, <2>5, <3>3, Zenon DEF Says, WatchTypeOK
      <4>2. Silent(u)' <=> Silent(u)  BY <2>3, <2>6, <4>1 DEF Silent
      <4>3. LastIsTrue(u)'
        <5>1. SUFFICES ASSUME NEW i \in 1..Len(inbox'), Says(inbox'[i], u),
                              \A j \in 1..Len(inbox') : j > i => ~Says(inbox'[j], u)
                       PROVE  inbox'[i][3] = thread[u]
          BY <4>1, Zenon DEF LastIsTrue
        <5>2. i \in 1..Len(inbox) /\ inbox'[i] = inbox[i]  BY <2>6, <4>1, <5>1, Zenon
        <5>3. \A j \in 1..Len(inbox) : j > i => ~Says(inbox[j], u)  BY <2>3, <5>1
        <5> QED BY <3>1, <5>1, <5>2, <5>3, Zenon DEF Follows, LastIsTrue
      <4>4. \A k \in Messages : Underway(k)' => k = m \/ Underway(k)
        BY <1>1, <2>6, Zenon DEF Underway
      <4>5. KnownIsTrue(u)'  BY <1>1, <3>1, <4>1, <4>2, Zenon DEF Follows, KnownIsTrue
      <4>6. ReplyIsTrue(u)'
        BY <1>1, <2>5, <3>1, <4>1, <4>2, <4>4, Zenon DEF Follows, ReplyIsTrue
      <4>7. IsToCome(u)'
        BY <1>1, <2>5, <3>1, <4>1, <4>2, <4>4, Zenon DEF Follows, IsToCome
      <4> QED BY <4>3, <4>5, <4>6, <4>7, Zenon DEF Follows
    <3> QED BY <3>2, <3>3, Zenon
  <2> QED BY <2>4, <2>7, <2>8, Zenon
<1> QED BY <1>2, <1>3, Zenon

\* The app-server composes an answer: what it says of a thread is true now, and
\* a page leaves out no loaded thread unless there is another page.
LEMMA AnswerIsComposed ==
    ASSUME WatchInv, ServerComposes
    PROVE  WatchInv'
<1> USE DEF WatchInv
<1>1. /\ request # "none" /\ answer = NoMessage
      /\ thread' = thread /\ inbox' = inbox /\ watcher' = watcher /\ request' = request
      /\ known' = known /\ unread' = unread /\ listed' = listed /\ published' = published
  BY Zenon DEF ServerComposes
<1>2. watcher # "off" /\ request \in Asked(watcher)  BY <1>1, Zenon DEF Protocol
<1> DEFINE Right ==
             /\ answer' \in Messages /\ answer'[1] = Kind(watcher)
             /\ answer'[1] = "thread" => answer'[3] = thread[answer'[2]]
             /\ answer'[1] = "list" =>
                  \A t \in Threads : t \notin listed /\ thread[t] # "not_loaded"
                                       => t \in answer'[2] \/ answer'[3] = TRUE
<1>3. Right
  <2>1. CASE request = "hello" /\ answer' = <<"hello">>
    <3>1. watcher = "hello"  BY <1>2, <2>1, StatusAssumption, Zenon DEF Asked, WatchTypeOK
    <3> QED BY <2>1, <3>1, Zenon DEF Messages, Kind
  <2>2. ASSUME request = "list", NEW page \in SUBSET (Loaded \ listed),
               answer' = <<"list", page, Loaded \ (listed \union page) # {}>>
        PROVE  Right
    <3>1. watcher = "list"  BY <1>2, <2>2, StatusAssumption, Zenon DEF Asked, WatchTypeOK
    <3>2. page \in SUBSET Threads  BY Zenon DEF Loaded
    <3>3. answer'[1] = "list" /\ answer'[2] = page  BY <2>2, Zenon
    <3>4. CASE Loaded \ (listed \union page) # {}
      <4>1. answer' = <<"list", page, TRUE>>  BY <2>2, <3>4, Zenon
      <4>2. answer' \in Messages /\ answer'[3] = TRUE  BY <3>2, <4>1, PageIsMessage, Zenon
      <4> QED BY <3>1, <3>3, <4>2, Zenon DEF Kind
    <3>5. CASE Loaded \ (listed \union page) = {}
      <4>1. answer' = <<"list", page, FALSE>>  BY <2>2, <3>5, Zenon
      <4>2. answer' \in Messages  BY <3>2, <4>1, PageIsMessage, Zenon
      <4>3. \A t \in Threads : t \notin listed /\ thread[t] # "not_loaded" => t \in page
        BY <3>5, Zenon DEF Loaded
      <4> QED BY <3>1, <3>3, <4>2, <4>3, Zenon DEF Kind
    <3> QED BY <3>4, <3>5, Zenon
  <2>3. CASE request \in Threads /\ answer' = <<"thread", request, thread[request]>>
    <3>1. watcher = "read"  BY <1>2, <2>3, StatusAssumption, Zenon DEF Asked, WatchTypeOK
    <3>2. thread[request] \in ThreadStates  BY <2>3, Zenon DEF WatchTypeOK
    <3> QED BY <2>3, <3>1, <3>2, Zenon DEF Messages, Kind
  <2> QED BY <2>1, <2>2, <2>3, Zenon DEF ServerComposes
<1>4. WatchTypeOK'  BY <1>1, <1>3, Zenon DEF WatchTypeOK
<1>5. Protocol'  BY <1>1, <1>3, Zenon DEF Protocol, Asked, Kind, CodexSummary
<1>6. ASSUME NEW t \in Threads  PROVE Follows(t)'
  <2>1. Follows(t)  BY <1>2, Zenon
  <2>2. (Silent(t)' <=> Silent(t)) /\ (LastIsTrue(t)' <=> LastIsTrue(t))
    BY <1>1, Zenon DEF Silent, LastIsTrue
  <2>3. \A m \in Messages : Underway(m)' => m = answer' \/ Underway(m)  BY <1>1, Zenon DEF Underway
  <2>4. KnownIsTrue(t)'  BY <1>1, <2>1, <2>2, Zenon DEF Follows, KnownIsTrue
  <2>5. ReplyIsTrue(t)'  BY <1>1, <1>3, <2>1, <2>2, <2>3, Zenon DEF Follows, ReplyIsTrue
  <2>6. IsToCome(t)'  BY <1>1, <1>3, <2>1, <2>2, <2>3, Zenon DEF Follows, IsToCome
  <2> QED BY <2>1, <2>2, <2>4, <2>5, <2>6, Zenon DEF Follows
<1> QED BY <1>4, <1>5, <1>6, Zenon

\* The answer goes behind what has been sent meanwhile.
LEMMA AnswerIsSent ==
    ASSUME WatchInv, ServerReplies
    PROVE  WatchInv'
<1> USE DEF WatchInv
<1>1. /\ answer # NoMessage /\ inbox' = Append(inbox, answer)
      /\ answer' = NoMessage /\ request' = "none"
      /\ thread' = thread /\ watcher' = watcher
      /\ known' = known /\ unread' = unread /\ listed' = listed /\ published' = published
  BY Zenon DEF ServerReplies
<1>2. answer \in Messages /\ inbox \in Seq(Messages)  BY <1>1, Zenon DEF WatchTypeOK
<1>3. /\ inbox' \in Seq(Messages) /\ Len(inbox) \in Nat /\ Len(inbox') = Len(inbox) + 1
      /\ inbox'[Len(inbox) + 1] = answer /\ \A i \in 1..Len(inbox) : inbox'[i] = inbox[i]
  BY <1>1, <1>2, AppendIndex
<1>4. request # "none" /\ watcher # "off" /\ answer[1] = Kind(watcher)  BY <1>1, Zenon DEF Protocol
<1>5. Kind(watcher) # "changed"  BY <1>4, Zenon DEF Kind, WatchTypeOK
<1>6. \A i \in 1..Len(inbox) : inbox[i][1] = "changed"  BY <1>4, Zenon DEF Protocol
<1>7. WatchTypeOK'  BY <1>1, <1>3, Zenon DEF WatchTypeOK
<1>8. Protocol'
  <2>1. ASSUME NEW i \in 1..Len(inbox'), inbox'[i][1] # "changed"
        PROVE  i = Len(inbox) + 1
    BY <1>3, <1>6, <2>1
  <2>2. ASSUME NEW i \in 1..Len(inbox'), inbox'[i][1] # "changed"
        PROVE  /\ inbox'[i][1] = Kind(watcher)
               /\ \A j \in 1..Len(inbox') : inbox'[j][1] # "changed" => i = j
    BY <1>3, <1>4, <2>1, <2>2, Zenon
  <2>3. /\ watcher \in {"hello", "list", "live"} => unread = {}
        /\ watcher = "live" => listed = Threads /\ published["codex"] = CodexSummary(known)
    BY Zenon DEF Protocol
  <2> QED BY <1>1, <1>4, <2>2, <2>3, Zenon DEF Protocol, CodexSummary
<1>9. ASSUME NEW t \in Threads  PROVE Follows(t)'
  <2>1. Follows(t)  BY <1>4, Zenon
  <2>2. ~Says(answer, t)  BY <1>4, <1>5, Zenon DEF Says
  <2>3. Silent(t)' <=> Silent(t)  BY <1>3, <2>2 DEF Silent
  <2>4. LastIsTrue(t)'
    <3>1. SUFFICES ASSUME NEW i \in 1..Len(inbox'), Says(inbox'[i], t),
                          \A j \in 1..Len(inbox') : j > i => ~Says(inbox'[j], t)
                   PROVE  inbox'[i][3] = thread[t]
      BY <1>1, Zenon DEF LastIsTrue
    <3>2. i \in 1..Len(inbox) /\ inbox'[i] = inbox[i]  BY <1>3, <2>2, <3>1
    <3>3. \A j \in 1..Len(inbox) : j > i => ~Says(inbox[j], t)  BY <1>3, <3>1
    <3> QED BY <2>1, <3>1, <3>2, <3>3, Zenon DEF Follows, LastIsTrue
  <2>5. \A m \in Messages : Underway(m)' => Underway(m)
    BY <1>1, <1>3, MessageShapes DEF Underway
  <2>6. KnownIsTrue(t)'  BY <1>1, <2>1, <2>3, Zenon DEF Follows, KnownIsTrue
  <2>7. ReplyIsTrue(t)' /\ IsToCome(t)'
    BY <1>1, <2>1, <2>3, <2>5, Zenon DEF Follows, ReplyIsTrue, IsToCome
  <2> QED BY <2>4, <2>6, <2>7, Zenon DEF Follows
<1> QED BY <1>7, <1>8, <1>9, Zenon

\* A connection starts with nothing known and nothing under way, and ends with
\* nothing under way.
LEMMA MonitorComesAndGoes ==
    ASSUME WatchInv, MonitorConnects \/ MonitorDrops
    PROVE  WatchInv'
<1> USE DEF WatchInv
<1>1. CASE MonitorConnects
  <2>1. /\ watcher = "off" /\ watcher' = "hello" /\ request' = "hello"
        /\ known' = [t \in Threads |-> "unknown"] /\ unread' = {} /\ listed' = {}
        /\ thread' = thread /\ answer' = answer /\ inbox' = inbox /\ published' = published
    BY <1>1, Zenon DEF MonitorConnects
  <2>2. answer = NoMessage /\ inbox = <<>>  BY <2>1, Zenon DEF Protocol
  <2>3. WatchTypeOK'  BY <2>1, Zenon DEF WatchTypeOK
  <2>4. Protocol'  BY <2>1, <2>2 DEF Protocol, Asked
  <2>5. ASSUME NEW t \in Threads  PROVE Follows(t)'
    <3>1. \A m \in Messages : ~Underway(m)'  BY <2>1, <2>2, MessageShapes DEF Underway
    <3>2. known'[t] = "unknown" /\ LastIsTrue(t)'  BY <2>1, <2>2 DEF LastIsTrue
    <3> QED BY <2>1, <3>1, <3>2, Zenon DEF Follows, KnownIsTrue, ReplyIsTrue, IsToCome
  <2> QED BY <2>3, <2>4, <2>5, Zenon
<1>2. CASE MonitorDrops
  <2>1. /\ watcher' = "off" /\ request' = "none" /\ answer' = NoMessage /\ inbox' = <<>>
        /\ thread' = thread /\ known' = known /\ unread' = unread /\ listed' = listed
    BY <1>2, Zenon DEF MonitorDrops
  <2>2. WatchTypeOK'  BY <2>1 DEF WatchTypeOK
  <2>3. Protocol'  BY <2>1 DEF Protocol
  <2> QED BY <2>1, <2>2, <2>3, Zenon
<1> QED BY <1>1, <1>2, Zenon

\* The watcher hears of a change: it is the last word if no other is under way.
LEMMA ChangeIsHeard ==
    ASSUME WatchInv, MonitorHearsChange, watcher = "live" =>
             published'["codex"] = CodexSummary(known')
    PROVE  WatchInv'
<1> DEFINE m == Head(inbox)
<1> USE DEF WatchInv
<1>1. /\ inbox # <<>> /\ m[1] = "changed" /\ inbox' = Tail(inbox)
      /\ known' = [known EXCEPT ![m[2]] = m[3]]
      /\ thread' = thread /\ watcher' = watcher /\ request' = request /\ answer' = answer
      /\ unread' = unread /\ listed' = listed
  BY Zenon DEF MonitorHearsChange
<1>2. /\ Len(inbox) \in Nat /\ Len(inbox) > 0 /\ m = inbox[1] /\ m \in Messages
      /\ inbox' \in Seq(Messages) /\ Len(inbox') = Len(inbox) - 1
      /\ \A i \in 1..Len(inbox') : inbox'[i] = inbox[i + 1]
  BY <1>1, TailIndex, Zenon DEF WatchTypeOK
<1>3. m[2] \in Threads /\ m[3] \in ThreadStates  BY <1>1, <1>2, MessageShapes, Zenon
<1>4. WatchTypeOK'  BY <1>1, <1>2, <1>3, Zenon DEF WatchTypeOK
<1>5. \A i \in 1..Len(inbox') : i + 1 \in 1..Len(inbox) /\ inbox'[i] = inbox[i + 1]  BY <1>2
<1>6. Protocol'
  <2>1. ASSUME NEW i \in 1..Len(inbox'), inbox'[i][1] # "changed"
        PROVE  /\ inbox'[i][1] = Kind(watcher) /\ request = "none"
               /\ \A j \in 1..Len(inbox') : inbox'[j][1] # "changed" => i = j
    <3>1. /\ inbox[i + 1][1] = Kind(watcher) /\ request = "none"
          /\ \A j \in 1..Len(inbox) : inbox[j][1] # "changed" => i + 1 = j
      BY <1>5, <2>1, Zenon DEF Protocol
    <3>2. ASSUME NEW j \in 1..Len(inbox'), inbox'[j][1] # "changed"  PROVE i = j
      <4>1. i + 1 = j + 1  BY <1>5, <3>1, <3>2, Zenon
      <4>2. i \in Int /\ j \in Int  BY <1>2
      <4> QED BY <4>1, <4>2
    <3>3. inbox'[i] = inbox[i + 1]  BY <1>5, Zenon
    <3> QED BY <3>1, <3>2, <3>3, Zenon
  <2>2. /\ watcher = "off" => inbox = <<>>
        /\ request # "none" => request \in Asked(watcher)
        /\ request = "none" => answer = NoMessage
        /\ answer # NoMessage => answer[1] = Kind(watcher)
        /\ watcher \in {"hello", "list", "live"} => unread = {}
        /\ watcher = "live" => listed = Threads
    BY Zenon DEF Protocol
  <2> QED BY <1>1, <2>1, <2>2, Zenon DEF Protocol, Asked, Kind, CodexSummary
<1>7. ASSUME NEW t \in Threads  PROVE Follows(t)'
  <2>1. Follows(t)  BY <1>1, Zenon DEF Protocol
  <2>2. LastIsTrue(t)'
    <3>1. SUFFICES ASSUME NEW i \in 1..Len(inbox'), Says(inbox'[i], t),
                          \A j \in 1..Len(inbox') : j > i => ~Says(inbox'[j], t)
                   PROVE  inbox'[i][3] = thread[t]
      BY <1>1, Zenon DEF LastIsTrue
    <3>2. ASSUME NEW j \in 1..Len(inbox), j > i + 1  PROVE ~Says(inbox[j], t)
      <4>1. j - 1 \in 1..Len(inbox') /\ j - 1 > i /\ (j - 1) + 1 = j  BY <1>2, <3>2
      <4> QED BY <1>2, <3>1, <4>1, Zenon
    <3> QED BY <1>5, <2>1, <3>1, <3>2, SMTT(30) DEF Follows, LastIsTrue
  <2>3. ASSUME Silent(t)'
        PROVE  \A j \in 1..Len(inbox) : j > 1 => ~Says(inbox[j], t)
    <3>1. SUFFICES ASSUME NEW j \in 1..Len(inbox), j > 1  PROVE ~Says(inbox[j], t)
      BY Zenon
    <3>2. j - 1 \in 1..Len(inbox') /\ (j - 1) + 1 = j  BY <1>2, <3>1
    <3> QED BY <1>2, <2>3, <3>2, Zenon DEF Silent
  <2>4. CASE t = m[2]
    <3>1. known'[t] = m[3] /\ m[3] # "unknown"
      BY <1>1, <1>3, <2>4, Zenon DEF WatchTypeOK, ThreadStates
    <3>2. KnownIsTrue(t)'
      <4>1. SUFFICES ASSUME Silent(t)'  PROVE m[3] = thread[t]
        BY <1>1, <3>1, Zenon DEF KnownIsTrue
      <4>2. 1 \in 1..Len(inbox) /\ Says(inbox[1], t)  BY <1>1, <1>2, <2>4 DEF Says
      <4> QED BY <1>2, <2>1, <2>3, <4>1, <4>2, Zenon DEF Follows, LastIsTrue
    <3> QED BY <2>2, <3>1, <3>2, Zenon DEF Follows, ReplyIsTrue, IsToCome
  <2>5. CASE t # m[2]
    <3>1. known'[t] = known[t] /\ ~Says(m, t)  BY <1>1, <1>3, <2>5, Zenon DEF WatchTypeOK, Says
    <3>2. Silent(t)' => Silent(t)  BY <1>2, <2>3, <3>1, SMTT(30) DEF Silent
    <3>3. \A k \in Messages : Underway(k)' => Underway(k)  BY <1>1, <1>5, Zenon DEF Underway
    <3>4. KnownIsTrue(t)'  BY <1>1, <2>1, <3>1, <3>2, Zenon DEF Follows, KnownIsTrue
    <3>5. ReplyIsTrue(t)' /\ IsToCome(t)'
      BY <1>1, <2>1, <3>1, <3>2, <3>3, Zenon DEF Follows, ReplyIsTrue, IsToCome
    <3> QED BY <2>2, <3>4, <3>5, Zenon DEF Follows
  <2> QED BY <2>4, <2>5, Zenon
<1> QED BY <1>4, <1>6, <1>7, Zenon

\* A reply is heard: it is the one under way, and it is no change.
LEMMA ReplyIsHeard ==
    ASSUME WatchInv, inbox # <<>>, Head(inbox)[1] # "changed", inbox' = Tail(inbox),
           thread' = thread, answer' = answer
    PROVE  /\ watcher # "off" /\ answer = NoMessage /\ inbox' \in Seq(Messages)
           /\ Head(inbox) \in Messages /\ Head(inbox)[1] = Kind(watcher)
           /\ \A i \in 1..Len(inbox') : inbox'[i][1] = "changed"
           /\ \A m \in Messages : Underway(m)' => m[1] = "changed"
           /\ Underway(Head(inbox))
           /\ \A t \in Threads : LastIsTrue(t)' /\ (Silent(t)' => Silent(t))
<1> DEFINE m == Head(inbox)
<1> USE DEF WatchInv
<1>1. /\ Len(inbox) \in Nat /\ Len(inbox) > 0 /\ m = inbox[1] /\ m \in Messages
      /\ inbox' \in Seq(Messages) /\ Len(inbox') = Len(inbox) - 1
      /\ \A i \in 1..Len(inbox') : inbox'[i] = inbox[i + 1]
  BY TailIndex, Zenon DEF WatchTypeOK
<1>2. 1 \in 1..Len(inbox)  BY <1>1
<1>3. /\ m[1] = Kind(watcher) /\ request = "none" /\ answer = NoMessage /\ watcher # "off"
      /\ \A j \in 1..Len(inbox) : inbox[j][1] # "changed" => j = 1
  BY <1>1, <1>2, Zenon DEF Protocol
<1>4. \A i \in 1..Len(inbox') : inbox'[i][1] = "changed"
  <2>1. SUFFICES ASSUME NEW i \in 1..Len(inbox')  PROVE inbox'[i][1] = "changed"
    BY Zenon
  <2>2. i + 1 \in 1..Len(inbox) /\ i + 1 # 1  BY <1>1
  <2> QED BY <1>1, <1>3, <2>2, Zenon
<1>5. \A k \in Messages : Underway(k)' => k[1] = "changed"
  BY <1>3, <1>4, MessageShapes, Zenon DEF Underway
<1>6. Underway(m)  BY <1>1, <1>2, Zenon DEF Underway
<1>7. ASSUME NEW t \in Threads  PROVE LastIsTrue(t)' /\ (Silent(t)' => Silent(t))
  <2>1. LastIsTrue(t)  BY <1>3, Zenon DEF Follows
  <2>2. LastIsTrue(t)'
    <3>1. SUFFICES ASSUME NEW i \in 1..Len(inbox'), Says(inbox'[i], t),
                          \A j \in 1..Len(inbox') : j > i => ~Says(inbox'[j], t)
                   PROVE  inbox'[i][3] = thread[t]
      BY Zenon DEF LastIsTrue
    <3>2. i + 1 \in 1..Len(inbox) /\ inbox'[i] = inbox[i + 1]  BY <1>1
    <3>3. ASSUME NEW j \in 1..Len(inbox), j > i + 1  PROVE ~Says(inbox[j], t)
      <4>1. j - 1 \in 1..Len(inbox') /\ j - 1 > i /\ (j - 1) + 1 = j  BY <1>1, <3>3
      <4> QED BY <1>1, <3>1, <4>1, Zenon
    <3> QED BY <2>1, <3>1, <3>2, <3>3, Zenon DEF LastIsTrue
  <2>3. ASSUME Silent(t)', NEW j \in 1..Len(inbox)  PROVE ~Says(inbox[j], t)
    <3>1. CASE j = 1  BY <1>1, <3>1, Zenon DEF Says
    <3>2. CASE j # 1
      <4>1. j - 1 \in 1..Len(inbox') /\ (j - 1) + 1 = j  BY <1>1, <3>2
      <4> QED BY <1>1, <2>3, <4>1, Zenon DEF Silent
    <3> QED BY <3>1, <3>2, Zenon
  <2> QED BY <2>2, <2>3, Zenon DEF Silent
<1> QED BY <1>1, <1>3, <1>4, <1>5, <1>6, <1>7, Zenon

\* The handshake is over, a page of the list has come, or the reply about one
\* thread: what has been read is not to come any more, and live begins when
\* nothing is.
LEMMA MonitorReads ==
    ASSUME WatchInv, MonitorGreeted \/ MonitorHearsList \/ MonitorReadsThread,
           watcher' = "live" => published'["codex"] = CodexSummary(known')
    PROVE  WatchInv'
<1> DEFINE m == Head(inbox)
<1>1. /\ inbox # <<>> /\ m[1] # "changed" /\ inbox' = Tail(inbox)
      /\ thread' = thread /\ answer' = answer
  BY Zenon DEF MonitorGreeted, MonitorHearsList, MonitorReadsThread
<1>2. /\ watcher # "off" /\ answer = NoMessage /\ inbox' \in Seq(Messages)
      /\ m \in Messages /\ m[1] = Kind(watcher) /\ Underway(m)
      /\ \A i \in 1..Len(inbox') : inbox'[i][1] = "changed"
      /\ \A k \in Messages : Underway(k)' => k[1] = "changed"
      /\ \A t \in Threads : LastIsTrue(t)' /\ (Silent(t)' => Silent(t))
  BY <1>1, ReplyIsHeard, Zenon
<1> USE DEF WatchInv
<1>3. SUFFICES
        /\ watcher' \in {"list", "read", "live"} /\ request' \in Asked(watcher)' \union {"none"}
        /\ known' \in [Threads -> ThreadStates \union {"unknown"}]
        /\ unread' \subseteq Threads /\ listed' \subseteq Threads
        /\ watcher' # "read" => unread' = {}
        /\ watcher' = "live" => listed' = Threads
        /\ \A t \in Threads :
             /\ known'[t] = known[t]
                  \/ (known[t] = "unknown" /\ (Silent(t) => known'[t] = thread[t]))
             /\ (Silent(t) /\ known'[t] = "unknown" /\ thread[t] # "not_loaded") =>
                  t \in unread' \/ t \notin listed'
  <2>1. WatchTypeOK'  BY <1>1, <1>2, <1>3, Zenon DEF WatchTypeOK
  <2>2. Protocol'  BY <1>1, <1>2, <1>3, Zenon DEF Protocol
  <2>3. ASSUME NEW t \in Threads  PROVE Follows(t)'
    <3>1. Follows(t)  BY <1>2, Zenon
    <3>2. KnownIsTrue(t)'  BY <1>1, <1>2, <1>3, <3>1, Zenon DEF Follows, KnownIsTrue
    <3>3. ReplyIsTrue(t)'  BY <1>2, Zenon DEF ReplyIsTrue
    <3>4. IsToCome(t)'  BY <1>1, <1>2, <1>3, Zenon DEF IsToCome
    <3> QED BY <1>2, <3>2, <3>3, <3>4, Zenon DEF Follows
  <2> QED BY <2>1, <2>2, <2>3, Zenon
<1>4. ASSUME NEW t \in Threads, Silent(t), known[t] = "unknown", thread[t] # "not_loaded"
      PROVE  \/ t \in unread
             \/ t \notin listed /\ (m[1] = "list" => t \in m[2] \/ m[3] = TRUE)
  BY <1>2, <1>4, Zenon DEF Follows, IsToCome
<1>5. /\ unread \subseteq Threads /\ listed \subseteq Threads
      /\ known \in [Threads -> ThreadStates \union {"unknown"}]
  BY Zenon DEF WatchTypeOK
<1>6. CASE MonitorGreeted
  <2>1. /\ watcher' = "list" /\ request' = "list"
        /\ known' = known /\ unread' = unread /\ listed' = listed
    BY <1>6, Zenon DEF MonitorGreeted
  <2>2. m[1] = "hello"  BY <1>6, Zenon DEF MonitorGreeted
  <2>3. unread = {}  BY <1>2, <2>2, Zenon DEF Kind, Protocol
  <2> QED BY <1>4, <1>5, <2>1, <2>3, Zenon DEF Asked
<1>7. CASE MonitorHearsList
  <2>1. /\ m[1] = "list" /\ known' = known
        /\ listed' = IF m[3] THEN listed \union m[2] ELSE Threads
        /\ AfterReply(m[2], m[3])
    BY <1>7, Zenon DEF MonitorHearsList
  <2>2. m[2] \subseteq Threads  BY <1>2, <2>1, MessageShapes, Zenon
  <2>3. unread' = m[2]  BY <2>1, Zenon DEF AfterReply
  <2>4. watcher' \in {"list", "read", "live"} /\ request' \in Asked(watcher)' \union {"none"}
    BY <2>1, <2>3, Zenon DEF AfterReply, Asked
  <2>5. unread = {} /\ (watcher' # "read" => m[2] = {})
    BY <1>2, <2>1, Zenon DEF Kind, Protocol, AfterReply
  <2>6. CASE m[3]
    <3>1. watcher' # "live" /\ listed' = listed \union m[2]  BY <2>1, <2>6, Zenon DEF AfterReply
    <3>2. \A t \in Threads :
            (Silent(t) /\ known[t] = "unknown" /\ thread[t] # "not_loaded") =>
               t \in m[2] \/ t \notin listed'
      BY <1>4, <2>5, <3>1, Zenon
    <3> QED BY <1>5, <2>1, <2>2, <2>3, <2>4, <2>5, <3>1, <3>2, Zenon
  <2>7. CASE ~m[3]
    <3>1. listed' = Threads /\ m[3] # TRUE  BY <2>1, <2>7, Zenon
    <3>2. \A t \in Threads :
            (Silent(t) /\ known[t] = "unknown" /\ thread[t] # "not_loaded") => t \in m[2]
      BY <1>4, <2>1, <2>5, <3>1, Zenon
    <3> QED BY <1>5, <2>1, <2>2, <2>3, <2>4, <2>5, <3>1, <3>2, Zenon
  <2> QED BY <2>6, <2>7, Zenon
<1>8. CASE MonitorReadsThread
  <2>1. /\ m[1] = "thread" /\ listed' = listed
        /\ known' = Snapshot(known, m[2], m[3])
        /\ AfterReply(unread \ {m[2]}, listed # Threads)
    BY <1>8, Zenon DEF MonitorReadsThread
  <2>2. m[2] \in Threads /\ m[3] \in ThreadStates  BY <1>2, <2>1, MessageShapes, Zenon
  <2>3. unread' = unread \ {m[2]}  BY <2>1, Zenon DEF AfterReply
  <2>4. watcher' \in {"list", "read", "live"} /\ request' \in Asked(watcher)' \union {"none"}
    BY <2>1, <2>3, Zenon DEF AfterReply, Asked
  <2>5. (watcher' # "read" => unread' = {}) /\ (watcher' = "live" => listed' = Threads)
    BY <2>1, <2>3, Zenon DEF AfterReply
  <2>6. known' \in [Threads -> ThreadStates \union {"unknown"}]
    BY <1>5, <2>1, <2>2, Zenon DEF Snapshot
  <2>7. known'[m[2]] # "unknown"  BY <1>5, <2>1, <2>2, Zenon DEF Snapshot, ThreadStates
  <2>8. ASSUME NEW t \in Threads
        PROVE  known'[t] = known[t]
                 \/ (known[t] = "unknown" /\ (Silent(t) => known'[t] = thread[t]))
    <3>1. CASE t = m[2] /\ known[t] = "unknown"
      <4>1. known'[t] = m[3]  BY <1>5, <2>1, <2>2, <3>1, Zenon DEF Snapshot
      <4>2. Silent(t) => m[3] = thread[t]  BY <1>2, <2>1, <3>1, Zenon DEF Follows, ReplyIsTrue
      <4> QED BY <3>1, <4>1, <4>2, Zenon
    <3>2. CASE ~(t = m[2] /\ known[t] = "unknown")
      BY <1>5, <2>1, <2>2, <3>2, Zenon DEF Snapshot
    <3> QED BY <3>1, <3>2, Zenon
  <2>9. ASSUME NEW t \in Threads, Silent(t), known'[t] = "unknown", thread[t] # "not_loaded"
        PROVE  t \in unread' \/ t \notin listed'
    <3>1. t # m[2] /\ known[t] = "unknown"  BY <2>7, <2>8, <2>9, Zenon
    <3> QED BY <1>4, <2>1, <2>3, <2>9, <3>1, Zenon
  <2> QED BY <1>5, <2>1, <2>3, <2>4, <2>5, <2>6, <2>8, <2>9, Zenon
<1> QED BY <1>6, <1>7, <1>8, Zenon

-----------------------------------------------------------------------------
(* The invariant                                                             *)

\* StatusInv holds at first.
LEMMA StatusInvInit == StatusInit => StatusInv
<1> SUFFICES ASSUME StatusInit PROVE StatusInv
  BY Zenon
<1> USE DEF StatusInit
<1>1. WatchTypeOK  BY DEF WatchTypeOK, Messages, ThreadStates
<1>2. Protocol  BY DEF Protocol
<1>3. StreamTypeOK  BY DEF StreamTypeOK, States, NoAgent, Events
<1>4. DownIsEmpty /\ HeldIsCurrent /\ GreetingIsCurrent
  BY Zenon DEF DownIsEmpty, HeldIsCurrent, GreetingIsCurrent
<1>5. GreetingGoes /\ AllDelivered  BY Zenon DEF GreetingGoes, AllDelivered
<1> QED BY <1>1, <1>2, <1>3, <1>4, <1>5, Zenon DEF StatusInv, WatchInv, StreamInv

\* Every step keeps StatusInv.
LEMMA StatusInvStep == StatusInv /\ [StatusNext]_statusVars => StatusInv'
<1> SUFFICES ASSUME StatusInv, [StatusNext]_statusVars  PROVE StatusInv'
  BY Zenon
<1> USE DEF StatusInv
<1>0. "codex" \in Agents /\ "claude" \in Agents /\ published \in [Agents -> States]
  BY Zenon DEF Agents, StreamInv, StreamTypeOK
<1>1. ASSUME NEW s \in Sessions, NEW event \in Hooks, ClaudeHook(s, event)  PROVE StatusInv'
  <2>1. /\ Publish("claude", ClaudeSummary(main', subagents'))
        /\ UNCHANGED codexVars /\ UNCHANGED streamVars
    BY <1>1, Zenon DEF ClaudeHook
  <2>2. ClaudeSummary(main', subagents') \in States  BY SummariesAreStates, Zenon
  <2>3. StreamInv' /\ published' = [published EXCEPT !["claude"] = ClaudeSummary(main', subagents')]
    BY <1>0, <2>1, <2>2, PublishKeepsStream, Zenon
  <2>4. published'["codex"] = published["codex"]  BY <1>0, <2>3, Zenon
  <2> QED BY <2>1, <2>3, <2>4, WatcherUntouched, Zenon
<1>2. ASSUME NEW t \in Threads, NEW status \in ThreadStates, ThreadChanges(t, status)
      PROVE  StatusInv'
  BY <1>2, ChangeIsSent, StreamUntouched, Zenon DEF ThreadChanges
<1>3. CASE ServerComposes
  BY <1>3, AnswerIsComposed, StreamUntouched, Zenon DEF ServerComposes
<1>4. CASE ServerReplies
  BY <1>4, AnswerIsSent, StreamUntouched, Zenon DEF ServerReplies
<1>5. CASE MonitorConnects
  BY <1>5, MonitorComesAndGoes, StreamUntouched, Zenon DEF MonitorConnects
<1>6. CASE MonitorDrops
  <2>1. Publish("codex", NoAgent) /\ UNCHANGED streamVars  BY <1>6, Zenon DEF MonitorDrops
  <2>2. NoAgent \in States  BY Zenon DEF NoAgent, States
  <2>3. StreamInv'  BY <1>0, <2>1, <2>2, PublishKeepsStream, Zenon
  <2> QED BY <1>6, <2>3, MonitorComesAndGoes, Zenon
<1>7. CASE MonitorHearsChange
  <2>1. UNCHANGED streamVars  BY <1>7, Zenon DEF MonitorHearsChange
  <2>2. CodexSummary(known') \in States  BY SummariesAreStates, Zenon
  <2>3. CASE watcher \in {"hello", "live"}
    <3>1. PublishIfModified("codex", CodexSummary(known'))
      BY <1>7, <2>3, Zenon DEF MonitorHearsChange
    <3>2. StreamInv' /\ published' = [published EXCEPT !["codex"] = CodexSummary(known')]
      BY <1>0, <2>1, <2>2, <3>1, PublishIfModifiedKeepsStream, Zenon
    <3>3. published'["codex"] = CodexSummary(known')  BY <1>0, <3>2, Zenon
    <3> QED BY <1>7, <3>2, <3>3, ChangeIsHeard, Zenon
  <2>4. CASE watcher \notin {"hello", "live"}
    <3>1. UNCHANGED <<published, changed, overtaken>>  BY <1>7, <2>4, Zenon DEF MonitorHearsChange
    <3> QED BY <1>7, <2>1, <2>4, <3>1, ChangeIsHeard, StreamUntouched, Zenon
  <2> QED BY <2>3, <2>4, Zenon
<1>8. CASE MonitorGreeted
  <2>1. /\ UNCHANGED streamVars /\ PublishIfModified("codex", CodexSummary(known))
        /\ watcher' = "list"
    BY <1>8, Zenon DEF MonitorGreeted
  <2>2. CodexSummary(known) \in States  BY SummariesAreStates, Zenon
  <2>3. StreamInv'  BY <1>0, <2>1, <2>2, PublishIfModifiedKeepsStream, Zenon
  <2> QED BY <1>8, <2>1, <2>3, MonitorReads, Zenon
<1>9. CASE MonitorHearsList \/ MonitorReadsThread
  <2>1. /\ UNCHANGED streamVars
        /\ IF watcher' = "live" THEN PublishIfModified("codex", CodexSummary(known'))
           ELSE UNCHANGED <<published, changed, overtaken>>
    BY <1>9, Zenon DEF MonitorHearsList, MonitorReadsThread, CodexSummary
  <2>2. CodexSummary(known') \in States  BY SummariesAreStates, Zenon
  <2>3. CASE watcher' = "live"
    <3>1. StreamInv' /\ published' = [published EXCEPT !["codex"] = CodexSummary(known')]
      BY <1>0, <2>1, <2>2, <2>3, PublishIfModifiedKeepsStream, Zenon
    <3>2. published'["codex"] = CodexSummary(known')  BY <1>0, <3>1, Zenon
    <3> QED BY <1>9, <3>1, <3>2, MonitorReads, Zenon
  <2>4. CASE watcher' # "live"
    BY <1>9, <2>1, <2>4, MonitorReads, StreamUntouched, Zenon
  <2> QED BY <2>3, <2>4, Zenon
<1>10. CASE \/ StreamOpens \/ GreetingReads \/ StreamBreaks
            \/ \E a \in Agents : Subscribe(a)
  <2>1. UNCHANGED codexVars /\ published' = published
    BY <1>10, Zenon DEF StreamOpens, GreetingReads, StreamBreaks, Subscribe
  <2> QED BY <1>10, <2>1, StreamComesAndGoes, WatcherUntouched, Zenon
<1>11. CASE GreetingSends \/ \E a \in Agents : ForwarderTakes(a) \/ ForwarderSends(a)
  <2>1. UNCHANGED codexVars /\ published' = published
    BY <1>11, Zenon DEF GreetingSends, ForwarderTakes, ForwarderSends
  <2> QED BY <1>11, <2>1, StreamSends, WatcherUntouched, Zenon
<1>12. CASE DaemonSkips \/ DaemonGreeted \/ DaemonHears
  <2>1. UNCHANGED codexVars /\ published' = published
    BY <1>12, Zenon DEF DaemonSkips, DaemonGreeted, DaemonHears
  <2> QED BY <1>12, <2>1, DaemonReads, WatcherUntouched, Zenon
<1>13. CASE UNCHANGED statusVars
  <2>1. /\ UNCHANGED codexVars /\ UNCHANGED streamVars
        /\ UNCHANGED <<published, changed, overtaken>>
    BY <1>13, Zenon DEF statusVars
  <2> QED BY <2>1, StreamUntouched, WatcherUntouched, Zenon
<1> QED BY <1>1, <1>2, <1>3, <1>4, <1>5, <1>6, <1>7, <1>8, <1>9, <1>10, <1>11, <1>12, <1>13, Zenon
        DEF StatusNext

\* When nothing is under way, what is known of the threads says the same as
\* the threads, and every agent's last event has reached the daemon's view.
LEMMA StatusInvFollows == StatusInv => StatusFollows
<1> SUFFICES ASSUME StatusInv PROVE StatusFollows
  BY Zenon
<1>1. CodexStatusTrue
  <2>1. SUFFICES ASSUME watcher = "live", inbox = <<>>
                 PROVE  published["codex"] = CodexSummary(thread)
    BY Zenon DEF CodexStatusTrue
  <2>2. published["codex"] = CodexSummary(known) /\ unread = {} /\ listed = Threads
    BY <2>1, Zenon DEF StatusInv, WatchInv, Protocol
  <2>3. ASSUME NEW t \in Threads
        PROVE  known[t] = thread[t] \/ (known[t] = "unknown" /\ thread[t] = "not_loaded")
    <3>1. Silent(t) /\ Follows(t)  BY <2>1 DEF StatusInv, WatchInv, Silent
    <3> QED BY <2>2, <3>1, Zenon DEF Follows, KnownIsTrue, IsToCome
  <2>4. \A x \in {"active", "error", "idle", "asking"} :
          (\E t \in Threads : known[t] = x) <=> (\E t \in Threads : thread[t] = x)
    BY <2>3, Zenon
  <2> QED BY <2>2, <2>4, Zenon DEF CodexSummary
<1>2. ViewFollows
  <2>1. SUFFICES ASSUME Settled, NEW a \in Agents, a \notin overtaken
                 PROVE  view[a] = published[a]
    BY Zenon DEF ViewFollows
  <2>2. /\ stream = "greeted" /\ events = <<>> /\ a \notin changed /\ held[a] = NoEvent
    BY <2>1, Zenon DEF Settled
  <2>3. Delivered(a)  BY <2>1, <2>2, Zenon DEF StatusInv, StreamInv, AllDelivered
  <2> QED BY <2>2, <2>3 DEF Delivered
<1> QED BY <1>1, <1>2, Zenon DEF StatusFollows

\* What the daemon shows of the agents is what they do, for any number of
\* sessions, threads, connections and streams and any capacity of the stream.
THEOREM StatusAlwaysFollows == StatusSpec => []StatusFollows
BY StatusInvInit, StatusInvStep, StatusInvFollows, PTL DEF StatusSpec
=============================================================================
