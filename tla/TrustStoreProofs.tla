-------------------------- MODULE TrustStoreProofs --------------------------
(* Theorems about TrustStore, for every set of devices and threads, with or *)
(* without failing writes, and any number of runs of the program.           *)
EXTENDS TrustStore, TLAPS

PendingOps == {"store_host", "remove"}

\* What a thread is doing fits the phase of the program.
TaskInv ==
    /\ \A t \in Threads : task[t].op \in {"store_host", "announce"} => task[t].key \in Peers
    /\ \A t \in Threads : task[t].op = "remove" => task[t].key \in Keys
    /\ \A t \in Threads : task[t].op \in {"save_identity", "save_self"} =>
          t = UI /\ app = "choosing" /\ identity \in SelfKeys
    /\ app # "up" => \A t \in Threads : task[t].op \notin PendingOps \cup {"announce", "adopt_secret"}

\* Before the program is up no peer is in memory; once a mesh is created over
\* rows that were not read, these are torn.
StartInv == app # "up" =>
    /\ devices \cap Peers = {}
    /\ \A t \in Threads : task[t].op \in {"save_identity", "save_self"} =>
          stored \cap Peers \subseteq torn

Holds(t, op, p) == task[t].op = op /\ task[t].key = p

\* A thread between memory and database knows what memory holds, and is alone
\* with its device, unless the device is torn.
PendInv == app = "up" => \A p \in Peers \ torn :
    /\ \A t \in Threads : Holds(t, "remove", p) => p \notin devices
    /\ \A t \in Threads : Holds(t, "store_host", p) => p \in devices
    /\ \A t, u \in Threads :
          /\ task[t].key = p /\ task[t].op \in PendingOps
          /\ task[u].key = p /\ task[u].op \in PendingOps
          => t = u

IInv == TypeOK /\ TaskInv /\ StartInv /\ PendInv /\ CopiesAgree

LEMMA TaskChange ==
    ASSUME TypeOK, NEW t \in Threads, NEW v, task' = [task EXCEPT ![t] = v]
    PROVE  task'[t] = v /\ \A u \in Threads : u # t => task'[u] = task[u]
BY DEF TypeOK

LEMMA InitInv == Init => IInv
<1>. SUFFICES ASSUME Init PROVE IInv
  OBVIOUS
<1>1. TypeOK
  <2>1. task \in [Threads -> [op : Ops, key : Keys \cup {NoKey}]]
    BY DEF Init, Idle, Ops
  <2>2. starts \in 0..MaxStarts
    BY BoundsAssumption DEF Init
  <2>. QED BY <2>1, <2>2 DEF Init, TypeOK, Secrets
<1>. QED BY <1>1 DEF Init, IInv, TaskInv, StartInv, PendInv, CopiesAgree, Idle, PendingOps

LEMMA StartKeeps == ASSUME IInv, Start PROVE IInv'
<1>. USE DEF memVars, dbVars, runVars, PendingOps
<1>0. TypeOK /\ TaskInv /\ StartInv
  BY DEF IInv
<1>1. CASE Launch
  <2>1. TypeOK'
    BY <1>0, <1>1, BoundsAssumption DEF Launch, TypeOK
  <2>. QED BY <1>0, <1>1, <2>1 DEF Launch, IInv, TaskInv, StartInv, PendInv, CopiesAgree
<1>2. CASE OpenStore
  <2>1. TypeOK'
    BY <1>0, <1>2 DEF OpenStore, TypeOK
  <2>. QED BY <1>0, <1>2, <2>1 DEF OpenStore, IInv, TaskInv, StartInv, PendInv, CopiesAgree
<1>3. CASE LoadIdentity
  <2>1. TypeOK'
    BY <1>0, <1>3 DEF LoadIdentity, TypeOK
  <2>. QED BY <1>0, <1>3, <2>1 DEF LoadIdentity, IInv, TaskInv, StartInv, PendInv, CopiesAgree
<1>4. CASE LoadDevices
  <2>1. TypeOK'
    BY <1>0, <1>4 DEF LoadDevices, TypeOK
  <2>2. \A t \in Threads : task'[t].op \notin PendingOps
    BY <1>0, <1>4 DEF LoadDevices, TaskInv
  <2>3. TaskInv' /\ StartInv' /\ PendInv'
    BY <1>0, <1>4, <2>2 DEF LoadDevices, TaskInv, StartInv, PendInv, Holds
  <2>4. CopiesAgree'
    BY <1>0, <1>4 DEF LoadDevices, StartInv, CopiesAgree
  <2>. QED BY <2>1, <2>3, <2>4 DEF IInv
<1>5. CASE Terminate
  <2>1. TypeOK'
    BY <1>0, <1>5 DEF Terminate, TypeOK, Idle, Ops, Secrets
  <2>. QED BY <1>5, <2>1 DEF Terminate, IInv, TaskInv, StartInv, PendInv, CopiesAgree, Idle
<1>. QED BY <1>1, <1>2, <1>3, <1>4, <1>5 DEF Start

\* With no thread between memory and database, no peer in memory and every
\* stored peer torn, nothing else is left to show.
LEMMA QuietNext ==
    ASSUME \A t \in Threads : task'[t].op \notin PendingOps,
           devices' \cap Peers = {}, stored' \cap Peers \subseteq torn'
    PROVE  StartInv' /\ PendInv' /\ CopiesAgree'
<1>1. StartInv'
  BY DEF StartInv
<1>2. PendInv'
  BY DEF PendInv, Holds, PendingOps
<1>3. CopiesAgree'
  BY DEF CopiesAgree
<1>. QED BY <1>1, <1>2, <1>3

LEMMA CreateKeeps == ASSUME IInv, Create PROVE IInv'
<1>. USE DEF memVars, dbVars, runVars, PendingOps
<1>0. TypeOK /\ TaskInv /\ StartInv /\ UI \in Threads
  BY DEF IInv, Threads
<1>1. ASSUME NEW k \in SelfKeys, CreateMesh(k) PROVE IInv'
  <2>1. /\ app = "choosing" /\ k \in Keys /\ k \notin Peers
        /\ devices' \cap Peers = {} /\ stored' = stored /\ stored \subseteq torn'
    BY <1>0, <1>1, KeysAssumption DEF CreateMesh, Keys, StartInv
  <2>2. \/ task' = task /\ app' = "up"
        \/ Do(UI, "save_identity", k) /\ app' = "choosing"
    BY <1>1 DEF CreateMesh
  <2>3. \A t \in Threads : task'[t].op \notin PendingOps \cup {"announce", "adopt_secret"}
    BY <1>0, <2>1, <2>2, TaskChange DEF TaskInv, Do
  <2>4. /\ task' \in [Threads -> [op : Ops, key : Keys \cup {NoKey}]]
        /\ app' \in {"up", "choosing"}
    BY <1>0, <2>1, <2>2 DEF TypeOK, Do, Ops
  <2>5. TypeOK'
    BY <1>0, <1>1, <2>1, <2>4 DEF CreateMesh, TypeOK, Secrets
  <2>6. app' = "up" => \A t \in Threads : task'[t].op \notin {"save_identity", "save_self"}
    <3>1. task[UI].op = "none"
      BY <1>1 DEF CreateMesh, Idle
    <3>. QED BY <1>0, <2>1, <2>2, <3>1, TaskChange DEF TaskInv, Do
  <2>7. TaskInv'
    <3>1. identity' = k
      BY <1>1 DEF CreateMesh
    <3>2. \A t \in Threads : task'[t].op \in {"save_identity", "save_self"} =>
             t = UI /\ app' = "choosing"
      BY <1>0, <2>1, <2>2, <2>6, TaskChange DEF TaskInv, Do
    <3>. QED BY <2>3, <3>1, <3>2 DEF TaskInv
  <2>8. StartInv' /\ PendInv' /\ CopiesAgree'
    BY <2>1, <2>3, QuietNext
  <2>. QED BY <2>5, <2>7, <2>8 DEF IInv
<1>2. CASE SaveIdentity
  <2>1. /\ app = "choosing" /\ identity \in SelfKeys /\ task[UI].op = "save_identity"
        /\ stored \cap Peers \subseteq torn /\ devices \cap Peers = {}
    BY <1>0, <1>2 DEF SaveIdentity, At, TaskInv, StartInv
  <2>2. UNCHANGED <<identity, secret, devices, selfMem, storeOpen, stored, selfStored,
                    runVars, torn>>
    BY <1>2 DEF SaveIdentity
  <2>3. \/ app' = app /\ Do(UI, "save_self", identity)
        \/ app' = "up" /\ Finish(UI)
    BY <1>2 DEF SaveIdentity
  <2>4. /\ app' \in {"choosing", "up"}
        /\ \A t \in Threads : /\ task'[t].op \notin PendingOps \cup {"announce", "adopt_secret"}
                              /\ task'[t].op \in {"save_identity", "save_self"}
                                    => t = UI /\ app' = "choosing"
    BY <1>0, <2>1, <2>3, TaskChange DEF TaskInv, Do, Finish, Idle
  <2>5. task' \in [Threads -> [op : Ops, key : Keys \cup {NoKey}]]
    BY <1>0, <2>1, <2>3 DEF TypeOK, Do, Finish, Idle, Ops, Keys
  <2>6. TypeOK'
    <3>1. dbIdentity' \in SelfKeys \cup {NoKey} /\ dbSecret' \in Secrets
      BY <1>0, <1>2 DEF SaveIdentity, TypeOK
    <3>. QED BY <1>0, <2>2, <2>4, <2>5, <3>1 DEF TypeOK
  <2>7. TaskInv'
    BY <2>1, <2>2, <2>4 DEF TaskInv
  <2>8. StartInv' /\ PendInv' /\ CopiesAgree'
    BY <2>1, <2>2, <2>4, QuietNext
  <2>. QED BY <2>6, <2>7, <2>8 DEF IInv
<1>3. CASE SaveSelf
  <2>1. /\ app = "choosing" /\ identity \in SelfKeys /\ task[UI].op = "save_self"
        /\ stored \cap Peers \subseteq torn /\ devices \cap Peers = {}
    BY <1>0, <1>3 DEF SaveSelf, At, TaskInv, StartInv
  <2>2. UNCHANGED <<identity, secret, devices, selfMem, storeOpen, dbIdentity, dbSecret,
                    runVars, torn>> /\ Finish(UI) /\ app' = "up"
    BY <1>3 DEF SaveSelf
  <2>3. \A t \in Threads :
           task'[t].op \notin PendingOps \cup {"announce", "adopt_secret", "save_identity", "save_self"}
    <3>1. task'[UI].op = "none"
      BY <1>0, <2>2 DEF Finish, Idle, TypeOK
    <3>2. \A t \in Threads : t # UI => task'[t] = task[t]
      BY <1>0, <2>2 DEF Finish, TypeOK
    <3>. QED BY <1>0, <2>1, <3>1, <3>2 DEF TaskInv
  <2>4. /\ stored' \subseteq Keys /\ selfStored' \subseteq stored'
        /\ stored' \cap Peers = stored \cap Peers
    BY <1>0, <1>3, <2>1, KeysAssumption DEF SaveSelf, TypeOK, Keys
  <2>5. task' \in [Threads -> [op : Ops, key : Keys \cup {NoKey}]]
    BY <1>0, <2>2 DEF TypeOK, Finish, Idle, Ops
  <2>6. TypeOK'
    BY <1>0, <2>2, <2>4, <2>5 DEF TypeOK
  <2>7. TaskInv'
    BY <2>2, <2>3 DEF TaskInv
  <2>8. StartInv' /\ PendInv' /\ CopiesAgree'
    BY <2>1, <2>2, <2>3, <2>4, QuietNext
  <2>. QED BY <2>6, <2>7, <2>8 DEF IInv
<1>. QED BY <1>1, <1>2, <1>3 DEF Create

\* An operation on p by thread t disturbs no other device, and p only if the
\* thread is not alone with it.
LEMMA OnePeer ==
    ASSUME IInv, app = "up", app' = "up", NEW t \in Threads, NEW p, NEW v,
           task' = [task EXCEPT ![t] = v],
           task[t].op \in PendingOps => task[t].key = p,
           v.op \in PendingOps => v.key = p,
           \A q \in Peers : q # p =>
               /\ q \in devices' <=> q \in devices
               /\ q \in stored' <=> q \in stored
               /\ q \notin torn' => q \notin torn,
           p \in Peers /\ p \notin torn' =>
               /\ \A u \in Threads : u # t => ~(task[u].key = p /\ task[u].op \in PendingOps)
               /\ v.op = "remove" => p \notin devices'
               /\ v.op = "store_host" => p \in devices'
               /\ v.op \notin PendingOps => (p \in devices' <=> p \in stored')
    PROVE  StartInv' /\ PendInv' /\ CopiesAgree'
<1>. USE DEF PendingOps
<1>1. task'[t] = v /\ \A u \in Threads : u # t => task'[u] = task[u]
  BY TaskChange DEF IInv
<1>2. StartInv'
  BY DEF StartInv
<1>3. PendInv'
  <2>. SUFFICES ASSUME NEW q \in Peers \ torn'
       PROVE /\ \A u \in Threads : Holds(u, "remove", q)' => q \notin devices'
             /\ \A u \in Threads : Holds(u, "store_host", q)' => q \in devices'
             /\ \A u, w \in Threads :
                   /\ task'[u].key = q /\ task'[u].op \in PendingOps
                   /\ task'[w].key = q /\ task'[w].op \in PendingOps
                   => u = w
    BY DEF PendInv
  <2>1. CASE q = p
    BY <1>1, <2>1 DEF Holds
  <2>2. CASE q # p
    <3>1. \A u \in Threads : task'[u].key = q /\ task'[u].op \in PendingOps
                => u # t /\ task'[u] = task[u]
      BY <1>1, <2>2
    <3>2. q \in Peers \ torn /\ (q \in devices' <=> q \in devices)
      BY <2>2
    <3>. QED BY <3>1, <3>2 DEF IInv, PendInv, Holds
  <2>. QED BY <2>1, <2>2
<1>4. CopiesAgree'
  <2>. SUFFICES ASSUME NEW q \in Peers, ~Pending(q)', q \notin torn'
       PROVE  q \in devices' <=> q \in stored'
    BY DEF CopiesAgree
  <2>1. CASE q = p
    <3>1. v.op \notin PendingOps
      BY <1>1, <2>1 DEF Pending
    <3>. QED BY <2>1, <3>1
  <2>2. CASE q # p
    <3>1. ~Pending(q)
      BY <1>1, <2>2 DEF Pending
    <3>. QED BY <2>2, <3>1 DEF IInv, CopiesAgree
  <2>. QED BY <2>1, <2>2
<1>. QED BY <1>2, <1>3, <1>4

\* A step of a thread that is not between memory and database, neither before
\* nor after it, changes nothing that matters.
LEMMA NoPeer ==
    ASSUME IInv, app = "up", app' = "up", UNCHANGED <<devices, stored, torn>>,
           NEW t \in Threads, NEW v, task' = [task EXCEPT ![t] = v],
           task[t].op \notin PendingOps, v.op \notin PendingOps
    PROVE  StartInv' /\ PendInv' /\ CopiesAgree'
<1>. USE DEF PendingOps
<1>1. task'[t] = v /\ \A u \in Threads : u # t => task'[u] = task[u]
  BY TaskChange DEF IInv
<1>2. \A u \in Threads : task'[u].op \in PendingOps <=> task[u].op \in PendingOps
  BY <1>1
<1>3. \A u \in Threads : task'[u].op \in PendingOps => task'[u] = task[u]
  BY <1>1
<1>4. PendInv'
  BY <1>2, <1>3 DEF IInv, PendInv, Holds
<1>5. \A q : Pending(q)' <=> Pending(q)
  BY <1>1 DEF Pending
<1>6. CopiesAgree'
  BY <1>5 DEF IInv, CopiesAgree
<1>7. StartInv'
  BY DEF StartInv
<1>. QED BY <1>4, <1>6, <1>7

\* While the program is up the tasks stay those of an up program.
LEMMA UpTasks ==
    ASSUME IInv, app = "up", app' = "up", NEW t \in Threads, NEW v,
           task' = [task EXCEPT ![t] = v],
           v.op \in Ops \ {"save_identity", "save_self"}, v.key \in Keys \cup {NoKey},
           v = [op |-> v.op, key |-> v.key],
           v.op \in {"store_host", "announce"} => v.key \in Peers,
           v.op = "remove" => v.key \in Keys
    PROVE  TaskInv' /\ task' \in [Threads -> [op : Ops, key : Keys \cup {NoKey}]]
<1>1. task'[t] = v /\ \A u \in Threads : u # t => task'[u] = task[u]
  BY TaskChange DEF IInv
<1>2. \A u \in Threads : task[u].op \notin {"save_identity", "save_self"}
  BY DEF IInv, TaskInv
<1>3. TaskInv'
  BY <1>1, <1>2 DEF IInv, TaskInv, Ops
<1>4. v \in [op : Ops, key : Keys \cup {NoKey}]
  OBVIOUS
<1>5. task' \in [Threads -> [op : Ops, key : Keys \cup {NoKey}]]
  BY <1>4 DEF IInv, TypeOK
<1>. QED BY <1>3, <1>5

LEMMA JoinKeeps == ASSUME IInv, Join PROVE IInv'
<1>. USE KeysAssumption DEF memVars, dbVars, runVars
<1>0. TypeOK /\ TaskInv /\ UI \in Threads
  BY DEF IInv, Threads
<1>1. ASSUME NEW p \in Peers, JoinInMemory(p) PROVE IInv'
  <2>. DEFINE v == [op |-> "store_host", key |-> p]
  <2>1. /\ app = "up" /\ app' = "up" /\ task[UI].op = "none" /\ p \in Keys
        /\ task' = [task EXCEPT ![UI] = v]
    BY <1>1 DEF JoinInMemory, Idle, Do, Keys
  <2>2. TaskInv' /\ task' \in [Threads -> [op : Ops, key : Keys \cup {NoKey}]]
    BY <1>0, <2>1, UpTasks DEF Ops
  <2>3. torn \subseteq torn' /\ torn' \subseteq torn \cup {p} /\ (p \notin torn' => ~Pending(p))
    BY <1>1 DEF JoinInMemory, MarkOverlap
  <2>4. StartInv' /\ PendInv' /\ CopiesAgree'
    <3>1. task[UI].op \notin PendingOps
      BY <2>1 DEF PendingOps
    <3>2. devices' = devices \cup {p} /\ stored' = stored
      BY <1>1 DEF JoinInMemory
    <3>3. p \notin torn' => \A u \in Threads : ~(task[u].key = p /\ task[u].op \in PendingOps)
      BY <2>3 DEF Pending, PendingOps
    <3>. HIDE DEF v
    <3>4. v.op = "store_host" /\ v.key = p
      BY DEF v
    <3>. QED BY <1>0, <2>1, <2>3, <3>1, <3>2, <3>3, <3>4, OnePeer DEF PendingOps
  <2>5. TypeOK'
    BY <1>0, <1>1, <2>1, <2>2, <2>3 DEF JoinInMemory, TypeOK
  <2>. QED BY <2>2, <2>4, <2>5 DEF IInv
<1>2. CASE StoreHost
  <2>. DEFINE p == task[UI].key
              v == [op |-> "adopt_secret", key |-> p]
  <2>1. /\ app = "up" /\ app' = "up" /\ task[UI].op = "store_host" /\ p \in Peers /\ p \in Keys
        /\ task' = [task EXCEPT ![UI] = v] /\ devices' = devices
    BY <1>0, <1>2 DEF StoreHost, At, TaskInv, PendingOps, Do, Keys
  <2>2. TaskInv' /\ task' \in [Threads -> [op : Ops, key : Keys \cup {NoKey}]]
    BY <1>0, <2>1, UpTasks DEF Ops
  <2>3. \/ stored' = stored \cup {p} /\ selfStored' = selfStored \ {p} /\ torn' = torn
        \/ stored' = stored /\ selfStored' = selfStored /\ torn' = torn \cup {p}
    BY <1>2 DEF StoreHost, Write
  <2>4. p \notin torn' => p \in devices /\
           \A u \in Threads : u # UI => ~(task[u].key = p /\ task[u].op \in PendingOps)
    BY <1>0, <2>1, <2>3 DEF IInv, PendInv, Holds, PendingOps
  <2>5. StartInv' /\ PendInv' /\ CopiesAgree'
    <3>. HIDE DEF p
    <3>1. v.op = "adopt_secret" /\ task[UI].key = p
      BY DEF p
    <3>. HIDE DEF v
    <3>. QED BY <1>0, <2>1, <2>3, <2>4, <3>1, OnePeer DEF PendingOps
  <2>6. TypeOK'
    BY <1>0, <1>2, <2>1, <2>2, <2>3 DEF StoreHost, Write, TypeOK
  <2>. QED BY <2>2, <2>5, <2>6 DEF IInv
<1>3. CASE AdoptSecret
  <2>1. /\ app = "up" /\ app' = "up" /\ task[UI].op = "adopt_secret"
        /\ task' = [task EXCEPT ![UI] = Idle]
        /\ UNCHANGED <<identity, devices, selfMem, storeOpen, stored, selfStored, runVars, torn>>
    BY <1>0, <1>3 DEF AdoptSecret, At, TaskInv, Finish
  <2>2. TaskInv' /\ task' \in [Threads -> [op : Ops, key : Keys \cup {NoKey}]]
    BY <1>0, <2>1, UpTasks DEF Ops, Idle
  <2>3. StartInv' /\ PendInv' /\ CopiesAgree'
    BY <1>0, <2>1, NoPeer DEF Idle, PendingOps
  <2>4. secret' \in Secrets /\ dbSecret' \in Secrets /\ dbIdentity' \in SelfKeys \cup {NoKey}
    BY <1>0, <1>3 DEF AdoptSecret, TypeOK, Secrets
  <2>5. TypeOK'
    BY <1>0, <2>1, <2>2, <2>4 DEF TypeOK
  <2>. QED BY <2>2, <2>3, <2>5 DEF IInv
<1>. QED BY <1>1, <1>2, <1>3 DEF Join

LEMMA EraseKeeps ==
    ASSUME IInv, app = "up", NEW t \in Threads, NEW p \in Keys, Erase(t, p),
           task[t].op \notin PendingOps
    PROVE  IInv'
<1>. USE KeysAssumption DEF memVars, dbVars, runVars
<1>. DEFINE v == [op |-> "remove", key |-> p]
<1>0. TypeOK /\ TaskInv
  BY DEF IInv
<1>1. app' = "up" /\ p \in Keys /\ task' = [task EXCEPT ![t] = v]
  BY DEF Erase, Do, Keys
<1>2. TaskInv' /\ task' \in [Threads -> [op : Ops, key : Keys \cup {NoKey}]]
  BY <1>1, UpTasks DEF Ops
<1>3. torn \subseteq torn' /\ torn' \subseteq torn \cup {p} /\ (p \notin torn' => ~Pending(p))
  BY DEF Erase, MarkOverlap
<1>4. devices' = devices \ {p} /\ stored' = stored
  BY DEF Erase
<1>5. p \notin torn' => \A u \in Threads : ~(task[u].key = p /\ task[u].op \in PendingOps)
  BY <1>3 DEF Pending, PendingOps
<1>6. v.op = "remove" /\ v.key = p
  OBVIOUS
<1>7. StartInv' /\ PendInv' /\ CopiesAgree'
  <2>. HIDE DEF v
  <2>. QED BY <1>1, <1>3, <1>4, <1>5, <1>6, OnePeer DEF PendingOps
<1>8. TypeOK'
  BY <1>0, <1>1, <1>2, <1>3 DEF Erase, TypeOK
<1>. QED BY <1>2, <1>7, <1>8 DEF IInv

LEMMA RevokeKeeps == ASSUME IInv, Revoke PROVE IInv'
<1>. USE KeysAssumption DEF memVars, dbVars, runVars
<1>0. TypeOK /\ TaskInv /\ UI \in Threads /\ Conns \subseteq Threads
  BY DEF IInv, Threads
<1>1. ASSUME NEW p \in Peers, RequestRevoke(p) PROVE IInv'
  <2>. DEFINE v == [op |-> "announce", key |-> p]
  <2>1. /\ app = "up" /\ app' = "up" /\ task[UI].op = "none" /\ p \in Keys
        /\ task' = [task EXCEPT ![UI] = v]
        /\ UNCHANGED <<identity, secret, devices, selfMem, storeOpen, dbVars, runVars, torn>>
    BY <1>1 DEF RequestRevoke, Idle, Do, Keys
  <2>2. TaskInv' /\ task' \in [Threads -> [op : Ops, key : Keys \cup {NoKey}]]
    BY <1>0, <2>1, UpTasks DEF Ops
  <2>3. StartInv' /\ PendInv' /\ CopiesAgree'
    BY <1>0, <2>1, NoPeer DEF PendingOps
  <2>4. TypeOK'
    BY <1>0, <2>1, <2>2 DEF TypeOK
  <2>. QED BY <2>2, <2>3, <2>4 DEF IInv
<1>2. CASE EraseRevoked
  <2>1. app = "up" /\ task[UI].key \in Peers /\ task[UI].op = "announce"
    BY <1>0, <1>2 DEF EraseRevoked, At, TaskInv, PendingOps
  <2>2. task[UI].key \in Keys
    BY <2>1 DEF Keys
  <2>. QED BY <1>0, <1>2, <2>1, <2>2, EraseKeeps DEF EraseRevoked, PendingOps
<1>3. ASSUME NEW c \in Conns, NEW p \in Keys, ReceiveRevocation(c, p) PROVE IInv'
  <2>1. app = "up" /\ task[c].op = "none" /\ c \in Threads
    BY <1>0, <1>3 DEF ReceiveRevocation, Idle
  <2>. QED BY <1>3, <2>1, EraseKeeps DEF ReceiveRevocation, PendingOps
<1>4. ASSUME NEW t \in Threads, RemoveStored(t) PROVE IInv'
  <2>. DEFINE p == task[t].key
  <2>1. /\ app = "up" /\ app' = "up" /\ task[t].op = "remove" /\ p \in Keys
        /\ task' = [task EXCEPT ![t] = Idle] /\ devices' = devices
    BY <1>0, <1>4 DEF RemoveStored, At, TaskInv, PendingOps, Finish
  <2>2. TaskInv' /\ task' \in [Threads -> [op : Ops, key : Keys \cup {NoKey}]]
    BY <2>1, UpTasks DEF Ops, Idle
  <2>3. \/ stored' = stored \ {p} /\ selfStored' = selfStored \ {p} /\ torn' = torn
        \/ stored' = stored /\ selfStored' = selfStored /\ torn' = torn \cup {p}
    BY <1>4 DEF RemoveStored, Write
  <2>4. p \in Peers /\ p \notin torn' => p \notin devices /\
           \A u \in Threads : u # t => ~(task[u].key = p /\ task[u].op \in PendingOps)
    BY <2>1, <2>3 DEF IInv, PendInv, Holds, PendingOps
  <2>5. StartInv' /\ PendInv' /\ CopiesAgree'
    <3>1. task[t].key = p /\ Idle.op = "none"
      BY DEF Idle
    <3>. HIDE DEF p
    <3>. QED BY <2>1, <2>3, <2>4, <3>1, OnePeer DEF PendingOps
  <2>6. TypeOK'
    <3>1. p \in Keys
      BY <2>1 DEF Keys
    <3>2. UNCHANGED <<dbIdentity, dbSecret>>
      BY <1>4 DEF RemoveStored, Write
    <3>. HIDE DEF p
    <3>. QED BY <1>0, <1>4, <2>1, <2>2, <2>3, <3>1, <3>2 DEF RemoveStored, TypeOK
  <2>. QED BY <2>2, <2>5, <2>6 DEF IInv
<1>. QED BY <1>1, <1>2, <1>3, <1>4 DEF Revoke

LEMMA DiscoverKeeps == ASSUME IInv, NEW p \in Peers, Discover(p) PROVE IInv'
<1>. USE DEF memVars, dbVars, runVars
<1>0. TypeOK /\ TaskInv /\ UI \in Threads /\ p \in Keys
  BY DEF IInv, Threads, Keys
<1>1. /\ app = "up" /\ app' = "up" /\ task' = task /\ p \notin devices
      /\ devices' = devices \cup {p}
  BY DEF Discover
<1>2. \/ /\ stored' = stored \cup {p} /\ selfStored' = selfStored \ {p}
         /\ torn' = (IF Pending(p) THEN torn \cup {p} ELSE torn)
      \/ stored' = stored /\ selfStored' = selfStored /\ torn' = torn \cup {p}
  BY DEF Discover, MarkOverlap
<1>3. PendInv'
  BY <1>1, <1>2 DEF IInv, PendInv, Holds, PendingOps, Pending
<1>4. CopiesAgree'
  <2>1. \A q : Pending(q)' <=> Pending(q)
    BY <1>1 DEF Pending
  <2>. QED BY <1>1, <1>2, <2>1 DEF IInv, CopiesAgree
<1>5. TaskInv' /\ StartInv'
  BY <1>0, <1>1 DEF TaskInv, StartInv, Discover
<1>6. TypeOK'
  BY <1>0, <1>1, <1>2 DEF Discover, TypeOK
<1>. QED BY <1>3, <1>4, <1>5, <1>6 DEF IInv

LEMMA NextKeeps == IInv /\ [Next]_vars => IInv'
<1>. SUFFICES ASSUME IInv, [Next]_vars PROVE IInv'
  OBVIOUS
<1>1. CASE Next
  BY <1>1, StartKeeps, CreateKeeps, JoinKeeps, RevokeKeeps, DiscoverKeeps DEF Next
<1>2. CASE UNCHANGED vars
  BY <1>2 DEF vars, IInv, TypeOK, TaskInv, StartInv, PendInv, Holds, PendingOps,
         CopiesAgree, Pending
<1>. QED BY <1>1, <1>2

LEMMA Invariance == Spec => []IInv
<1>. QED BY InitInv, NextKeeps, PTL DEF Spec

\* Every reachable state is well typed; in particular a device flagged "this
\* device" is in the list (memory and table).
THEOREM TypeCorrect == Spec => []TypeOK
<1>1. IInv => TypeOK
  BY DEF IInv
<1>. QED BY <1>1, Invariance, PTL

\* Memory and database agree about every peer no thread is working on, except
\* where operations overlapped, a write failed or a row was never loaded: the
\* unlocked writes of join, revoke and Revocation are the only cause.
THEOREM CopiesAgreeHolds == Spec => []CopiesAgree
<1>1. IInv => CopiesAgree
  BY DEF IInv
<1>. QED BY <1>1, Invariance, PTL
(* The identity.  SelfInv is what OnlySelfIsSelf needs to be inductive: which *)
(* identity each phase of the start-up may hold beside the saved one.         *)
Saving == {"save_identity", "save_self"}

SelfInv == ~openFailed =>
    /\ selfMem \subseteq {identity} /\ selfStored \subseteq {dbIdentity}
    /\ app # "up" /\ task[UI].op \notin Saving => selfMem = {}
    /\ app = "choosing" /\ task[UI].op # "save_self" => dbIdentity = NoKey
    /\ app = "reading" \/ task[UI].op = "save_self" => identity = dbIdentity
    /\ app = "up" => dbIdentity \in {identity, NoKey}

LEMMA SelfInit == Init => SelfInv
BY DEF Init, SelfInv, Idle, Saving

\* A step of thread t that is not saving, when the program is up, and that
\* touches neither the identity nor a flag except to clear it.
LEMMA SelfUp ==
    ASSUME IInv, SelfInv, app = "up", app' = "up",
           UNCHANGED <<identity, dbIdentity, openFailed>>,
           selfMem' \subseteq selfMem, selfStored' \subseteq selfStored,
           task'[UI].op \notin Saving
    PROVE  SelfInv'
BY DEF SelfInv, Saving

LEMMA SelfNext == IInv /\ SelfInv /\ [Next]_vars => SelfInv'
<1>. SUFFICES ASSUME IInv, SelfInv, [Next]_vars PROVE SelfInv'
  OBVIOUS
<1>. USE DEF memVars, dbVars, runVars
<1>0. /\ TypeOK /\ TaskInv /\ UI \in Threads /\ NoKey \notin selfStored
      /\ UI \notin Conns
  BY KeysAssumption, ThreadsAssumption DEF IInv, Threads, TypeOK, Keys
<1>1. CASE Start
  <2>1. CASE Launch
    BY <2>1 DEF Launch, SelfInv
  <2>2. CASE OpenStore
    <3>1. task[UI].op \notin Saving
      BY <1>0, <2>2 DEF OpenStore, TaskInv, Saving
    <3>2. dbIdentity = dbIdentity' /\ (app' = "loading" \/ openFailed')
      BY <2>2 DEF OpenStore
    <3>. QED BY <2>2, <3>1, <3>2 DEF OpenStore, SelfInv, Saving
  <2>3. CASE LoadIdentity
    <3>1. task[UI].op \notin Saving
      BY <1>0, <2>3 DEF LoadIdentity, TaskInv, Saving
    <3>. QED BY <2>3, <3>1 DEF LoadIdentity, SelfInv, Saving
  <2>4. CASE LoadDevices
    <3>1. task[UI].op \notin Saving
      BY <1>0, <2>4 DEF LoadDevices, TaskInv, Saving
    <3>. QED BY <2>4, <3>1 DEF LoadDevices, SelfInv, Saving
  <2>5. CASE Terminate
    BY <1>0, <2>5 DEF Terminate, SelfInv, Idle, Saving
  <2>. QED BY <1>1, <2>1, <2>2, <2>3, <2>4, <2>5 DEF Start
<1>2. CASE Create
  <2>1. ASSUME NEW k \in SelfKeys, CreateMesh(k) PROVE SelfInv'
    <3>1. app = "choosing" /\ task[UI].op = "none"
      BY <2>1 DEF CreateMesh, Idle
    <3>2. ~openFailed => dbIdentity = NoKey /\ selfMem = {} /\ selfStored = {}
      BY <1>0, <3>1 DEF SelfInv, Saving
    <3>3. /\ identity' = k /\ selfMem' = selfMem \cup {k}
          /\ UNCHANGED <<dbIdentity, selfStored, openFailed>>
      BY <2>1 DEF CreateMesh
    <3>4. \/ task' = task /\ app' = "up"
          \/ task'[UI].op = "save_identity" /\ app' = "choosing"
      BY <1>0, <2>1 DEF CreateMesh, Do, TypeOK
    <3>. QED BY <3>1, <3>2, <3>3, <3>4 DEF SelfInv, Saving
  <2>2. CASE SaveIdentity
    <3>1. app = "choosing" /\ task[UI].op = "save_identity"
      BY <1>0, <2>2 DEF SaveIdentity, At, TaskInv
    <3>2. \/ dbIdentity' = identity /\ task'[UI].op = "save_self" /\ app' = app
          \/ dbIdentity' = dbIdentity /\ task'[UI].op = "none" /\ app' = "up"
      BY <1>0, <2>2 DEF SaveIdentity, Do, Finish, Idle, TypeOK
    <3>3. UNCHANGED <<identity, selfMem, selfStored, openFailed>>
      BY <2>2 DEF SaveIdentity
    <3>. QED BY <1>0, <3>1, <3>2, <3>3 DEF SelfInv, Saving
  <2>3. CASE SaveSelf
    <3>1. task[UI].op = "save_self" /\ task'[UI].op = "none" /\ app' = "up"
      BY <1>0, <2>3 DEF SaveSelf, At, Finish, Idle, TypeOK
    <3>2. UNCHANGED <<identity, dbIdentity, selfMem, openFailed>>
          /\ selfStored' \subseteq selfStored \cup {identity}
      BY <2>3 DEF SaveSelf
    <3>. QED BY <3>1, <3>2 DEF SelfInv, Saving
  <2>. QED BY <1>2, <2>1, <2>2, <2>3 DEF Create
<1>3. CASE Join
  <2>1. ASSUME NEW p \in Peers, JoinInMemory(p) PROVE SelfInv'
    <3>1. task'[UI].op = "store_host"
      BY <1>0, <2>1 DEF JoinInMemory, Do, TypeOK
    <3>. QED BY <2>1, <3>1, SelfUp DEF JoinInMemory, Saving
  <2>2. CASE StoreHost
    <3>1. app = "up" /\ app' = "up" /\ task'[UI].op = "adopt_secret"
      BY <1>0, <2>2 DEF StoreHost, At, TaskInv, PendingOps, Do, TypeOK
    <3>2. UNCHANGED <<identity, selfMem, dbIdentity, openFailed>>
          /\ selfStored' \subseteq selfStored
      BY <2>2 DEF StoreHost, Write
    <3>. QED BY <3>1, <3>2, SelfUp DEF Saving
  <2>3. CASE AdoptSecret
    <3>1. app = "up" /\ app' = "up" /\ task'[UI].op = "none"
      BY <1>0, <2>3 DEF AdoptSecret, At, TaskInv, Finish, Idle, TypeOK
    <3>2. UNCHANGED <<identity, selfMem, selfStored, openFailed>>
          /\ dbIdentity' \in {dbIdentity, identity}
      BY <2>3 DEF AdoptSecret
    <3>. QED BY <1>0, <3>1, <3>2 DEF SelfInv, Saving
  <2>. QED BY <1>3, <2>1, <2>2, <2>3 DEF Join
<1>4. CASE Revoke
  <2>1. \A t \in Threads : \A p : Do(t, "remove", p) \/ Do(t, "announce", p) \/ Finish(t)
            => task'[UI].op \in {task[UI].op, "remove", "announce", "none"}
    BY <1>0 DEF Do, Finish, Idle, TypeOK
  <2>2. app = "up" => task[UI].op \notin Saving
    BY <1>0 DEF TaskInv, Saving
  <2>3. \E t \in Threads : \E p \in Keys \cup {task[t].key} :
             \/ RequestRevoke(p) /\ t = UI
             \/ app = "up" /\ Erase(t, p)
             \/ RemoveStored(t)
    <3>1. EraseRevoked => app = "up"
      BY <1>0 DEF EraseRevoked, At, TaskInv
    <3>2. Conns \subseteq Threads
      BY DEF Threads
    <3>. QED BY <1>0, <1>4, <3>1, <3>2 DEF Revoke, EraseRevoked, ReceiveRevocation, Keys
  <2>4. /\ app = "up" /\ app' = "up"
        /\ UNCHANGED <<identity, dbIdentity, openFailed>>
        /\ selfMem' \subseteq selfMem /\ selfStored' \subseteq selfStored
        /\ \E t \in Threads : \E p : Do(t, "remove", p) \/ Do(t, "announce", p) \/ Finish(t)
    <3>1. ASSUME NEW t \in Threads, RemoveStored(t) PROVE app = "up"
      BY <1>0, <3>1 DEF RemoveStored, At, TaskInv, PendingOps
    <3>. QED BY <2>3, <3>1 DEF RequestRevoke, Erase, RemoveStored, Write
  <2>. QED BY <2>1, <2>2, <2>4, SelfUp DEF Saving
<1>5. ASSUME NEW p \in Peers, Discover(p) PROVE SelfInv'
  <2>1. task[UI].op \notin Saving
    BY <1>0, <1>5 DEF Discover, TaskInv, Saving
  <2>2. app = "up" /\ UNCHANGED <<app, identity, dbIdentity, openFailed, selfMem, task>>
        /\ selfStored' \subseteq selfStored
    BY <1>5 DEF Discover
  <2>. QED BY <2>1, <2>2, SelfUp
<1>6. CASE UNCHANGED vars
  BY <1>6 DEF vars, SelfInv
<1>. QED BY <1>1, <1>2, <1>3, <1>4, <1>5, <1>6 DEF Next

LEMMA SelfInvariance == Spec => [](IInv /\ SelfInv)
<1>. QED BY InitInv, SelfInit, NextKeeps, SelfNext, PTL DEF Spec

\* As long as no start has failed to open the store, the only device flagged
\* "this device" is the identity, in memory and in the table.
THEOREM OnlySelfIsSelfHolds == Spec => []OnlySelfIsSelf
<1>1. SelfInv => OnlySelfIsSelf
  BY DEF SelfInv, OnlySelfIsSelf
<1>. QED BY <1>1, SelfInvariance, PTL

LEMMA IdentityStep ==
    IInv /\ SelfInv /\ [Next]_vars =>
        [dbIdentity # NoKey /\ ~openFailed => dbIdentity' = dbIdentity]_vars
<1>. SUFFICES ASSUME IInv, SelfInv, Next, dbIdentity # NoKey, ~openFailed
     PROVE  dbIdentity' = dbIdentity
  OBVIOUS
<1>. USE DEF memVars, dbVars, runVars
<1>1. CASE SaveIdentity
  BY <1>1 DEF SaveIdentity, At, IInv, TaskInv, Threads, SelfInv
<1>2. CASE AdoptSecret
  BY <1>2 DEF AdoptSecret, At, IInv, TaskInv, Threads, SelfInv
<1>3. ASSUME ~SaveIdentity, ~AdoptSecret PROVE dbIdentity' = dbIdentity
  <2>1. Start => dbIdentity' = dbIdentity
    BY DEF Start, Launch, OpenStore, LoadIdentity, LoadDevices, Terminate
  <2>2. Create => dbIdentity' = dbIdentity
    BY <1>3 DEF Create, CreateMesh, SaveSelf
  <2>3. Join => dbIdentity' = dbIdentity
    BY <1>3 DEF Join, JoinInMemory, StoreHost, Write
  <2>4. Revoke => dbIdentity' = dbIdentity
    BY DEF Revoke, RequestRevoke, EraseRevoked, ReceiveRevocation, Erase, RemoveStored, Write
  <2>5. \A p \in Peers : Discover(p) => dbIdentity' = dbIdentity
    BY DEF Discover
  <2>. QED BY <2>1, <2>2, <2>3, <2>4, <2>5 DEF Next
<1>. QED BY <1>1, <1>2, <1>3

\* A saved identity is replaced by no step, unless a start could not open the
\* store that holds it.
THEOREM IdentityIsKeptHolds == Spec => IdentityIsKept
<1>. QED BY SelfInvariance, IdentityStep, PTL DEF Spec, IdentityIsKept
=============================================================================
