----------------------------- MODULE TrustStore -----------------------------
(***************************************************************************)
(* The trust list of MeshEngine and its copy in PersistenceStore, over     *)
(* several runs of the program.  devices_ is changed under devices_mutex_, *)
(* but only on_peer_discovered keeps the mutex while it writes the         *)
(* database: the user's thread (create, join, revoke) and the connection   *)
(* threads (Revocation packets) release it between the two.                *)
(*                                                                         *)
(* A device is its public key; of its other columns only is_self matters   *)
(* here.  One SQL statement is one step.                                   *)
(***************************************************************************)
EXTENDS Integers, FiniteSets

CONSTANTS
    Peers,      \* public keys of other devices
    SelfKeys,   \* key pairs create_initial_mesh can generate
    NoKey,      \* no identity
    Conns,      \* connection threads
    UI,         \* the user's thread
    Faults,     \* TRUE: opening, reading and writing the database may fail
    MaxStarts   \* bound on the runs of the program

ASSUME KeysAssumption ==
    Peers \cap SelfKeys = {} /\ NoKey \notin Peers \cup SelfKeys
ASSUME ThreadsAssumption == UI \notin Conns
ASSUME BoundsAssumption == Faults \in BOOLEAN /\ MaxStarts \in Nat

Keys == Peers \cup SelfKeys
Threads == Conns \cup {UI}
Secrets == {"own", "mesh"}

VARIABLES
    app,        \* the program: where it is in its start-up, or down
    identity,   \* identity_.local_public_key
    secret,     \* identity_.mesh_secret
    devices,    \* keys of devices_
    selfMem,    \* devices with is_self
    task,       \* task[t]: what thread t does next, and to which device
    storeOpen,  \* store_ is not null
    dbIdentity, dbSecret,   \* table mesh_identity
    stored, selfStored,     \* table trusted_devices
    starts,     \* runs begun so far
    openFailed, \* auxiliary: try_load_persisted has failed to open the store
    torn        \* auxiliary: devices whose two copies may disagree, because
                \* operations overlapped, a write failed, or rows were not loaded

memVars == <<app, identity, secret, devices, selfMem>>
dbVars  == <<dbIdentity, dbSecret, stored, selfStored>>
runVars == <<starts, openFailed>>
vars == <<app, identity, secret, devices, selfMem, task, storeOpen, dbIdentity,
          dbSecret, stored, selfStored, starts, openFailed, torn>>

Idle == [op |-> "none", key |-> NoKey]
Ops  == {"none", "save_identity", "save_self", "store_host", "adopt_secret",
         "announce", "remove"}

TypeOK ==
    /\ app \in {"down", "opening", "loading", "reading", "choosing", "up", "threw"}
    /\ identity \in SelfKeys \cup {NoKey} /\ dbIdentity \in SelfKeys \cup {NoKey}
    /\ secret \in Secrets /\ dbSecret \in Secrets
    /\ devices \subseteq Keys /\ stored \subseteq Keys
    /\ selfMem \subseteq devices /\ selfStored \subseteq stored
    /\ task \in [Threads -> [op : Ops, key : Keys \cup {NoKey}]]
    /\ storeOpen \in BOOLEAN /\ openFailed \in BOOLEAN
    /\ starts \in 0..MaxStarts
    /\ torn \subseteq Keys

Init ==
    /\ app = "down" /\ identity = NoKey /\ secret = "own"
    /\ devices = {} /\ selfMem = {}
    /\ task = [t \in Threads |-> Idle]
    /\ storeOpen = FALSE
    /\ dbIdentity = NoKey /\ dbSecret = "own"
    /\ stored = {} /\ selfStored = {}
    /\ starts = 0 /\ openFailed = FALSE /\ torn = {}

Do(t, op, key) == task' = [task EXCEPT ![t] = [op |-> op, key |-> key]]
Finish(t)      == task' = [task EXCEPT ![t] = Idle]
At(t, op)      == app # "down" /\ task[t].op = op

\* A database write of a device: it happens, or it throws and is logged.
Write(k, effect) ==
    \/ storeOpen /\ effect /\ UNCHANGED torn
    \/ /\ ~storeOpen \/ Faults
       /\ UNCHANGED dbVars
       /\ torn' = torn \cup {k}

\* Another thread has changed devices_ for k and not yet the database.
Pending(k) == \E t \in Threads :
    task[t].key = k /\ task[t].op \in {"store_host", "remove"}

MarkOverlap(k) == torn' = IF Pending(k) THEN torn \cup {k} ELSE torn

-----------------------------------------------------------------------------
(* The program starts and stops. *)

Launch ==
    /\ app \in {"down", "threw"} /\ starts < MaxStarts
    /\ app' = "opening"
    /\ starts' = starts + 1
    /\ UNCHANGED <<identity, secret, devices, selfMem, task, storeOpen, dbVars,
                   openFailed, torn>>

\* try_load_persisted: the constructor of PersistenceStore.
OpenStore ==
    /\ app = "opening"
    /\ \/ storeOpen' = TRUE /\ app' = "loading" /\ UNCHANGED openFailed
       \/ Faults /\ storeOpen' = FALSE /\ app' = "choosing" /\ openFailed' = TRUE
    /\ UNCHANGED <<identity, secret, devices, selfMem, task, dbVars, starts, torn>>

\* Mutant: an identity without a device list is taken for a fresh install.
LoadIdentity_NeedsDevices ==
    /\ app = "loading"
    /\ IF stored = {}
       THEN app' = "choosing" /\ UNCHANGED <<identity, secret>>
       ELSE app' = "reading" /\ identity' = dbIdentity /\ secret' = dbSecret
    /\ UNCHANGED <<devices, selfMem, task, storeOpen, dbVars, runVars, torn>>

\* load_identity, outside of any try block: its exception leaves the function.
LoadIdentity ==
    /\ app = "loading"
    /\ \/ /\ dbIdentity = NoKey
          /\ app' = "choosing"
          /\ UNCHANGED <<identity, secret>>
       \/ /\ dbIdentity # NoKey
          /\ app' = "reading"
          /\ identity' = dbIdentity /\ secret' = dbSecret
       \/ /\ Faults
          /\ app' = "threw"
          /\ UNCHANGED <<identity, secret>>
    /\ UNCHANGED <<devices, selfMem, task, storeOpen, dbVars, runVars, torn>>

\* Mutant: only the other devices are read back, the flags of all are.
LoadDevices_WithoutSelf ==
    /\ app = "reading"
    /\ app' = "up"
    /\ devices' = stored \ selfStored /\ selfMem' = selfStored /\ torn' = {}
    /\ UNCHANGED <<identity, secret, task, storeOpen, dbVars, runVars>>

LoadDevices ==
    /\ app = "reading"
    /\ app' = "up"
    /\ \/ devices' = stored /\ selfMem' = selfStored /\ torn' = {}
       \/ Faults /\ torn' = stored /\ UNCHANGED <<devices, selfMem>>
    /\ UNCHANGED <<identity, secret, task, storeOpen, dbVars, runVars>>

\* create_initial_mesh up to the database: a new key pair, the self entry, and
\* a second attempt to open the store if there is none.  start() comes later,
\* so no other thread runs yet.  Rows left in trusted_devices are not read.
CreateMesh(k) ==
    /\ app = "choosing" /\ task[UI] = Idle
    /\ k \notin {dbIdentity} \cup selfStored
    /\ identity' = k /\ secret' = "own"
    /\ devices' = devices \cup {k} /\ selfMem' = selfMem \cup {k}
    /\ \/ storeOpen' = TRUE /\ Do(UI, "save_identity", k) /\ UNCHANGED app
       \/ ~storeOpen /\ Faults /\ storeOpen' = FALSE /\ app' = "up" /\ UNCHANGED task
    /\ torn' = torn \cup stored
    /\ UNCHANGED <<dbVars, runVars>>

\* Mutant: the device is written before the identity.
SaveIdentity_SelfFirst ==
    /\ At(UI, "save_identity")
    /\ stored' = stored \cup {identity} /\ selfStored' = selfStored \cup {identity}
    /\ Do(UI, "save_self", identity)
    /\ UNCHANGED <<memVars, storeOpen, dbIdentity, dbSecret, runVars, torn>>

\* A failed save_identity skips upsert_device as well.
SaveIdentity ==
    /\ At(UI, "save_identity")
    /\ \/ /\ dbIdentity' = identity /\ dbSecret' = secret
          /\ Do(UI, "save_self", identity)
          /\ UNCHANGED app
       \/ Faults /\ Finish(UI) /\ app' = "up" /\ UNCHANGED <<dbIdentity, dbSecret>>
    /\ UNCHANGED <<identity, secret, devices, selfMem, storeOpen, stored, selfStored,
                   runVars, torn>>

SaveSelf ==
    /\ At(UI, "save_self")
    /\ \/ stored' = stored \cup {identity} /\ selfStored' = selfStored \cup {identity}
       \/ Faults /\ UNCHANGED <<stored, selfStored>>
    /\ Finish(UI)
    /\ app' = "up"
    /\ UNCHANGED <<identity, secret, devices, selfMem, storeOpen, dbIdentity, dbSecret,
                   runVars, torn>>

\* The user quits, or the process dies, between any two steps.
Terminate ==
    /\ app # "down"
    /\ app' = "down" /\ identity' = NoKey /\ secret' = "own"
    /\ devices' = {} /\ selfMem' = {}
    /\ task' = [t \in Threads |-> Idle]
    /\ storeOpen' = FALSE
    /\ torn' = {}
    /\ UNCHANGED <<dbVars, runVars>>

-----------------------------------------------------------------------------
(* complete_join_handshake, on the user's thread, with another device's token. *)

JoinInMemory(p) ==
    /\ app = "up" /\ task[UI] = Idle
    /\ devices' = devices \cup {p} /\ selfMem' = selfMem \ {p}
    /\ Do(UI, "store_host", p)
    /\ MarkOverlap(p)
    /\ UNCHANGED <<app, identity, secret, storeOpen, dbVars, runVars>>

StoreHost ==
    /\ At(UI, "store_host")
    /\ LET p == task[UI].key IN
          /\ Write(p, /\ stored' = stored \cup {p} /\ selfStored' = selfStored \ {p}
                      /\ UNCHANGED <<dbIdentity, dbSecret>>)
          /\ Do(UI, "adopt_secret", p)
    /\ UNCHANGED <<memVars, storeOpen, runVars>>

\* The token may carry no secret, or the one we have; JOIN_ACCEPT follows,
\* whose failure undoes nothing.
AdoptSecret ==
    /\ At(UI, "adopt_secret")
    /\ \/ UNCHANGED <<secret, dbIdentity, dbSecret>>
       \/ /\ secret' = "mesh" /\ secret # "mesh"
          /\ \/ storeOpen /\ dbIdentity' = identity /\ dbSecret' = "mesh"
             \/ (~storeOpen \/ Faults) /\ UNCHANGED <<dbIdentity, dbSecret>>
    /\ Finish(UI)
    /\ UNCHANGED <<app, identity, devices, selfMem, storeOpen, stored, selfStored,
                   runVars, torn>>

-----------------------------------------------------------------------------
(* revoke_device and the Revocation packet. *)

\* The user picks a device that is not this one; the packets to the others are
\* sent before anything is changed.
RequestRevoke(p) ==
    /\ app = "up" /\ task[UI] = Idle
    /\ p \in devices \ selfMem
    /\ Do(UI, "announce", p)
    /\ UNCHANGED <<memVars, storeOpen, dbVars, runVars, torn>>

Erase(t, p) ==
    /\ devices' = devices \ {p} /\ selfMem' = selfMem \ {p}
    /\ Do(t, "remove", p)
    /\ MarkOverlap(p)
    /\ UNCHANGED <<app, identity, secret, storeOpen, dbVars, runVars>>

EraseRevoked == At(UI, "announce") /\ Erase(UI, task[UI].key)

\* A mesh member revoked p and told us.  p may be this PC, if
\* the address the member has of another device is now ours.
ReceiveRevocation(c, p) ==
    app = "up" /\ task[c] = Idle /\ p \in Peers \cup {identity} /\ Erase(c, p)

\* Mutant: the device is removed from memory only.
RemoveStored_Forgotten(t) ==
    /\ At(t, "remove")
    /\ Finish(t)
    /\ UNCHANGED <<memVars, storeOpen, dbVars, runVars, torn>>

RemoveStored(t) ==
    /\ At(t, "remove")
    /\ LET p == task[t].key IN
          Write(p, /\ stored' = stored \ {p} /\ selfStored' = selfStored \ {p}
                   /\ UNCHANGED <<dbIdentity, dbSecret>>)
    /\ Finish(t)
    /\ UNCHANGED <<memVars, storeOpen, runVars>>

\* on_peer_discovered: a known peer's address is refreshed in memory only, a new
\* one is added and written with the mutex held.
Discover(p) ==
    /\ app = "up" /\ p \notin devices
    /\ devices' = devices \cup {p}
    /\ \/ /\ storeOpen
          /\ stored' = stored \cup {p} /\ selfStored' = selfStored \ {p}
          /\ MarkOverlap(p)
       \/ /\ ~storeOpen \/ Faults
          /\ torn' = torn \cup {p}
          /\ UNCHANGED <<stored, selfStored>>
    /\ UNCHANGED <<app, identity, secret, selfMem, task, storeOpen, dbIdentity,
                   dbSecret, runVars>>

-----------------------------------------------------------------------------
Start == Launch \/ OpenStore \/ LoadIdentity \/ LoadDevices \/ Terminate

Create == (\E k \in SelfKeys : CreateMesh(k)) \/ SaveIdentity \/ SaveSelf

Join == (\E p \in Peers : JoinInMemory(p)) \/ StoreHost \/ AdoptSecret

Revoke ==
    \/ \E p \in Peers : RequestRevoke(p)
    \/ EraseRevoked
    \/ \E c \in Conns, p \in Keys : ReceiveRevocation(c, p)
    \/ \E t \in Threads : RemoveStored(t)

Next == Start \/ Create \/ Join \/ Revoke \/ \E p \in Peers : Discover(p)

Spec == Init /\ [][Next]_vars

-----------------------------------------------------------------------------
(* Properties *)

\* Memory and database disagree about a peer only while a thread is between the
\* two (mesh_engine.cpp:216-228, 398-409, 562-577), or when operations on that
\* peer overlapped, a write failed, or its row was never loaded.
CopiesAgree ==
    app = "up" => \A p \in Peers :
        ~Pending(p) /\ p \notin torn => (p \in devices <=> p \in stored)

\* A saved identity is never replaced by another, whatever crashes and failed
\* reads and writes happen during and after create_initial_mesh, unless a start
\* could not open the store: create_initial_mesh then opens it a second time and
\* saves over what it holds (mesh_engine.cpp:56-69, 131-146).
IdentityIsKept == [][dbIdentity # NoKey /\ ~openFailed => dbIdentity' = dbIdentity]_vars

\* With the same exception, this PC is listed as "this device" only under the
\* identity it has.
OnlySelfIsSelf ==
    ~openFailed => selfMem \subseteq {identity} /\ selfStored \subseteq {dbIdentity}

\* persistence.hpp:39, "MeshEngine already serializes all identity/trust-list
\* mutation behind its own devices_mutex_": with no operation under way and no
\* failed write, the two copies are equal.
AgreeAtRest ==
    app = "up" /\ (\A t \in Threads : task[t] = Idle)
        => devices \cap Peers = stored \cap Peers
=============================================================================
