---------------------------- MODULE MeshPackets ----------------------------
(***************************************************************************)
(* The engines of several devices and the packets between them: under      *)
(* which key each operation of MeshEngine encrypts, at which address it    *)
(* delivers, and which key decrypt_packet_payload tries at the other end.  *)
(* Devices join meshes, change their address and restart meanwhile.        *)
(*                                                                         *)
(* A key is the record of what it is derived from: two keys are equal      *)
(* exactly if these inputs are, and AES-GCM opens a payload exactly with   *)
(* the key that sealed it.  A mesh secret is named by the device that      *)
(* generated it.  FILE_START stands for all packets of a transfer, which   *)
(* share key and addressing.                                               *)
(***************************************************************************)
EXTENDS Integers, FiniteSets, Functions

CONSTANTS
    Nodes,      \* devices, each named by its public key
    MeshName,   \* MeshName[n]: mesh_name of the identity of n
    Addresses,  \* (ip, port) pairs
    Home,       \* Home[n]: where n listens at first
    NoNode,     \* no target_key
    MaxOps,     \* bound on the operations users start
    MaxFaults   \* bound on changes of address, restarts and failed writes

ASSUME NodesAssumption == NoNode \notin Nodes /\ IsFiniteSet(Nodes)
ASSUME HomeAssumption == Home \in Injection(Nodes, Addresses)
ASSUME BoundsAssumption == MaxOps \in Nat /\ MaxFaults \in Nat

VARIABLES
    secret,     \* secret[n]: identity_.mesh_secret
    saved,      \* saved[n]: the mesh secret in table identity
    devices,    \* devices[n]: devices_ without n itself, key to address
    stored,     \* stored[n]: the addresses in table trusted_devices
    addr,       \* addr[n]: where n listens
    job,        \* job[n]: what the user's thread of n is doing
    inbox,      \* inbox[n]: packets acknowledged by n and not yet decrypted
    erasing,    \* erasing[n]: Revocations whose handlers still have to remove the row
    ops, faults

vars == <<secret, saved, devices, stored, addr, job, inbox, erasing, ops, faults>>

NoSession == 0
Sessions == 0..MaxOps

MeshKey(s, name) == [kind |-> "mesh", of |-> {s}, salt |-> name]
PeerKey(a, b, session) == [kind |-> "peer", of |-> {a, b}, salt |-> session]

Types == {"ClipboardSync", "BrowserHandoff", "FileStart", "Revocation", "JoinAccept"}

\* "about" is the device a Revocation names; "chosen" the device the user picked as
\* the only reader and devices_ lists, if any (auxiliary, not in the packet).
Packet(type, from, target, key, session, about, chosen) ==
    [type |-> type, from |-> from, target |-> target, key |-> key,
     session |-> session, about |-> about, chosen |-> chosen]

Idle == [op |-> "none"]

AddressBooks == UNION {[S -> Addresses] : S \in SUBSET Nodes}

TypeOK ==
    /\ secret \in [Nodes -> Nodes] /\ saved \in [Nodes -> Nodes]
    /\ devices \in [Nodes -> AddressBooks] /\ stored \in [Nodes -> AddressBooks]
    /\ \A n \in Nodes : n \notin DOMAIN devices[n] \cup DOMAIN stored[n]
    /\ addr \in [Nodes -> Addresses]
    /\ \A n, m \in Nodes : addr[n] = addr[m] => n = m
    /\ \A n \in Nodes :
          /\ job[n].op \in {"none", "store", "adopt", "spread", "send", "forget"}
          /\ job[n].op \in {"store", "adopt"} =>
                job[n].host \in Nodes /\ job[n].secret \in Nodes
          /\ job[n].op = "send" => job[n].todo \in AddressBooks
    /\ \A n \in Nodes : \A p \in inbox[n] \cup erasing[n] :
          p.type \in Types /\ p.from \in Nodes /\ p.target \in Nodes \cup {NoNode}
    /\ ops \in 0..MaxOps /\ faults \in 0..MaxFaults

Init ==
    /\ secret = [n \in Nodes |-> n] /\ saved = secret
    /\ devices = [n \in Nodes |-> [m \in {} |-> 0]]
    /\ stored = devices
    /\ addr = Home
    /\ job = [n \in Nodes |-> Idle]
    /\ inbox = [n \in Nodes |-> {}] /\ erasing = inbox
    /\ ops = 0 /\ faults = 0

Drop(book, m) == Restrict(book, DOMAIN book \ {m})
Put(book, m, a) == [x \in DOMAIN book \cup {m} |-> IF x = m THEN a ELSE book[x]]

\* The mesh key of n as its identity is now.
MyMeshKey(n) == MeshKey(secret[n], MeshName[n])

\* tcp_.send_packet: whoever listens at the address gets the packet, or nobody.
Deliver(a, p) ==
    \/ UNCHANGED inbox
    \/ \E n \in Nodes : addr[n] = a /\ inbox' = [inbox EXCEPT ![n] = @ \cup {p}]

\* The user starts an operation on n; it becomes the session_id of its packets.
Begin(n) == job[n] = Idle /\ ops < MaxOps /\ ops' = ops + 1

\* devices_ of n loses d, under devices_mutex_.
Erase(n, d) == devices' = [devices EXCEPT ![n] = Drop(@, d)]

\* One more mishap.
Mishap == faults < MaxFaults /\ faults' = faults + 1

\* A write to a table either leaves what it should, or fails, which is logged only.
Write(n, book) ==
    \/ stored' = [stored EXCEPT ![n] = book] /\ UNCHANGED faults
    \/ UNCHANGED stored /\ Mishap
SaveSecret(n, s) ==
    \/ saved' = [saved EXCEPT ![n] = s] /\ UNCHANGED faults
    \/ UNCHANGED saved /\ Mishap

-----------------------------------------------------------------------------
(* Operations of the user's thread *)

\* complete_join_handshake with the token of h, which the user has completed with
\* its address (build_join_token_json leaves it out, and without it the function
\* returns at once): h is trusted at that address in memory, and then, without the
\* lock, in the table.
BeginJoin(n, h) ==
    /\ n # h
    /\ Begin(n)
    /\ devices' = [devices EXCEPT ![n] = Put(@, h, addr[h])]
    /\ job' = [job EXCEPT ![n] = [op |-> "store", host |-> h, at |-> addr[h],
                                  secret |-> secret[h], session |-> ops + 1]]
    /\ UNCHANGED <<secret, saved, stored, addr, inbox, erasing, faults>>

StoreHost(n) ==
    /\ job[n].op = "store"
    /\ Write(n, Put(stored[n], job[n].host, job[n].at))
    /\ job' = [job EXCEPT ![n].op = "adopt"]
    /\ UNCHANGED <<secret, saved, devices, addr, inbox, erasing, ops>>

\* The secret is adopted, the mesh name is not; saving it may fail.  JOIN_ACCEPT is
\* sealed with the mesh key but carries the host as target_key.
AdoptSecret(n) ==
    /\ job[n].op = "adopt"
    /\ secret' = [secret EXCEPT ![n] = job[n].secret]
    /\ SaveSecret(n, job[n].secret)
    /\ Deliver(job[n].at, Packet("JoinAccept", n, job[n].host,
                                 MeshKey(job[n].secret, MeshName[n]), job[n].session,
                                 NoNode, NoNode))
    /\ job' = [job EXCEPT ![n] = Idle]
    /\ UNCHANGED <<devices, stored, addr, erasing, ops>>

\* The three broadcasts compute their key and send one packet after the other to the
\* devices in "todo".
BeginSending(n, op, type, key, targeted, todo, about, chosen) ==
    /\ job' = [job EXCEPT ![n] =
          [op |-> op, type |-> type, key |-> key, targeted |-> targeted,
           todo |-> todo, about |-> about, chosen |-> chosen, session |-> ops + 1]]
    /\ UNCHANGED <<secret, saved, devices, stored, addr, inbox, erasing, faults>>

BroadcastClipboard(n) ==
    /\ Begin(n)
    /\ BeginSending(n, "send", "ClipboardSync", MyMeshKey(n), TRUE, devices[n],
                    NoNode, NoNode)

Listed(n, d) == d \in DOMAIN devices[n]

\* Mutant: the mesh key for a handoff to one device as well.
HandoffKey_Mesh(n, d) == MyMeshKey(n)

HandoffKey(n, d) == IF Listed(n, d) THEN PeerKey(n, d, ops + 1) ELSE MyMeshKey(n)

\* To one device of the list.  Without a target, and with one that the list does not
\* have (any more), to all: the list is looked up and copied under two locks.
SendBrowserHandoff(n, d) ==
    /\ d # n
    /\ Begin(n)
    /\ \/ /\ Listed(n, d)
          /\ BeginSending(n, "send", "BrowserHandoff", HandoffKey(n, d), TRUE,
                          Restrict(devices[n], {d}), NoNode, d)
       \/ /\ ~Listed(n, d)
          /\ BeginSending(n, "spread", "BrowserHandoff", HandoffKey(n, d), TRUE,
                          <<>>, NoNode, NoNode)

CopyList(n) ==
    /\ job[n].op = "spread"
    /\ job' = [job EXCEPT ![n].op = "send", ![n].todo = devices[n]]
    /\ UNCHANGED <<secret, saved, devices, stored, addr, inbox, erasing, ops, faults>>

\* Of a device that need not be listed any more.  The Revocation packets carry no
\* target_key; the list changes after them.
RevokeDevice(n, d) ==
    /\ d # n
    /\ Begin(n)
    /\ BeginSending(n, "send", "Revocation", MyMeshKey(n), FALSE, Drop(devices[n], d),
                    d, NoNode)

SendNext(n) ==
    /\ job[n].op = "send"
    /\ \E d \in DOMAIN job[n].todo :
          /\ Deliver(job[n].todo[d],
                 Packet(job[n].type, n, IF job[n].targeted THEN d ELSE NoNode,
                        job[n].key, job[n].session, job[n].about, job[n].chosen))
          /\ job' = [job EXCEPT ![n].todo = Drop(@, d)]
    /\ UNCHANGED <<secret, saved, devices, stored, addr, erasing, ops, faults>>

EndSending(n) ==
    /\ job[n].op = "send" /\ DOMAIN job[n].todo = {}
    /\ \/ /\ job[n].type = "Revocation"
          /\ Erase(n, job[n].about)
          /\ job' = [job EXCEPT ![n].op = "forget"]
       \/ /\ job[n].type # "Revocation"
          /\ job' = [job EXCEPT ![n] = Idle]
          /\ UNCHANGED devices
    /\ UNCHANGED <<secret, saved, stored, addr, inbox, erasing, ops, faults>>

\* The row goes after the entry in memory, without the lock.
ForgetRow(n) ==
    /\ job[n].op = "forget"
    /\ Write(n, Drop(stored[n], job[n].about))
    /\ job' = [job EXCEPT ![n] = Idle]
    /\ UNCHANGED <<secret, saved, devices, addr, inbox, erasing, ops>>

\* send_file, on a thread of its own: the peer key without the session.
SendFile(n, d) ==
    /\ Listed(n, d) /\ ops < MaxOps /\ ops' = ops + 1
    /\ Deliver(devices[n][d], Packet("FileStart", n, d, PeerKey(n, d, NoSession),
                                     ops + 1, NoNode, d))
    /\ UNCHANGED <<secret, saved, devices, stored, addr, job, erasing, faults>>

-----------------------------------------------------------------------------
(* The receiving side *)

\* Mutant: the session does not enter the key.
DecryptionKey_NoSession(n, p) ==
    IF p.target = n THEN PeerKey(n, p.from, NoSession) ELSE MyMeshKey(n)

\* decrypt_packet_payload: the only key that is tried.
DecryptionKey(n, p) ==
    IF p.target = n THEN PeerKey(n, p.from, p.session) ELSE MyMeshKey(n)

Readable(n, p) == p.key = DecryptionKey(n, p)

Taken(n, p) == inbox' = [inbox EXCEPT ![n] = @ \ {p}]

\* on_packet_received.  A Revocation drops the device from memory; what the other
\* types do lies outside of the engine's trust list.
Dispatch(n, p) ==
    /\ Taken(n, p)
    /\ \/ /\ p.type = "Revocation"
          /\ Erase(n, p.about)
          /\ erasing' = [erasing EXCEPT ![n] = @ \cup {p}]
       \/ p.type # "Revocation" /\ UNCHANGED <<devices, erasing>>
    /\ UNCHANGED <<secret, saved, stored, addr, job, ops, faults>>

\* Mutant: a payload that no key opens is dispatched as it is.
Handle_Unopened(n, p) == p \in inbox[n] /\ Dispatch(n, p)

Handle(n, p) == p \in inbox[n] /\ Readable(n, p) /\ Dispatch(n, p)

\* The handler of a Revocation goes on to remove the row.
RemoveRow(n, p) ==
    /\ p \in erasing[n]
    /\ Write(n, Drop(stored[n], p.about))
    /\ erasing' = [erasing EXCEPT ![n] = @ \ {p}]
    /\ UNCHANGED <<secret, saved, devices, addr, job, inbox, ops>>

\* Dropped: the key does not fit, or identity_.mesh_secret is read while the
\* user's thread is writing it.
Ignore(n, p) ==
    /\ p \in inbox[n]
    /\ ~Readable(n, p) \/ (p.target # n /\ job[n].op = "adopt")
    /\ Taken(n, p)
    /\ UNCHANGED <<secret, saved, devices, stored, addr, job, erasing, ops, faults>>

\* Mutant: the address of a known peer stays as it is.
HearBeacon_KeepsAddress(n, m) ==
    /\ n # m /\ MeshName[m] = MeshName[n]
    /\ \/ Listed(n, m) /\ UNCHANGED <<devices, stored, faults>>
       \/ /\ ~Listed(n, m) /\ Write(n, Put(stored[n], m, addr[m]))
          /\ devices' = [devices EXCEPT ![n] = Put(@, m, addr[m])]
    /\ UNCHANGED <<secret, saved, addr, job, inbox, erasing, ops>>

\* Mutant: a device takes its own beacon for another's.
HearBeacon_OwnToo(n, m) ==
    /\ MeshName[m] = MeshName[n]
    /\ devices' = [devices EXCEPT ![n] = Put(@, m, addr[m])]
    /\ \/ Listed(n, m) /\ UNCHANGED <<stored, faults>>
       \/ ~Listed(n, m) /\ Write(n, Put(stored[n], m, addr[m]))
    /\ UNCHANGED <<secret, saved, addr, job, inbox, erasing, ops>>

\* A beacon of m reaches on_peer_discovered of n: a known peer's address is
\* refreshed in memory only; an unknown one is written too, under the same lock.
HearBeacon(n, m) ==
    /\ n # m /\ MeshName[m] = MeshName[n]
    /\ devices' = [devices EXCEPT ![n] = Put(@, m, addr[m])]
    /\ \/ Listed(n, m) /\ UNCHANGED <<stored, faults>>
       \/ ~Listed(n, m) /\ Write(n, Put(stored[n], m, addr[m]))
    /\ UNCHANGED <<secret, saved, addr, job, inbox, erasing, ops>>

-----------------------------------------------------------------------------
(* The environment *)

FreeAddress(a) == \A n \in Nodes : addr[n] # a

\* The network gives n another address.
Move(n, a) ==
    /\ Mishap
    /\ FreeAddress(a)
    /\ addr' = [addr EXCEPT ![n] = a]
    /\ UNCHANGED <<secret, saved, devices, stored, job, inbox, erasing, ops>>

\* n is closed or crashes between any two steps and is started again from its tables;
\* its port may be another one of the scan.
Restart(n, a) ==
    /\ Mishap
    /\ a = addr[n] \/ FreeAddress(a)
    /\ addr' = [addr EXCEPT ![n] = a]
    /\ devices' = [devices EXCEPT ![n] = stored[n]]
    /\ secret' = [secret EXCEPT ![n] = saved[n]]
    /\ job' = [job EXCEPT ![n] = Idle]
    /\ inbox' = [inbox EXCEPT ![n] = {}]
    /\ erasing' = [erasing EXCEPT ![n] = {}]
    /\ UNCHANGED <<saved, stored, ops>>

UserStep(n) ==
    \/ \E h \in Nodes : BeginJoin(n, h)
    \/ BroadcastClipboard(n)
    \/ \E d \in Nodes \cup {NoNode} : SendBrowserHandoff(n, d)
    \/ \E d \in Nodes : RevokeDevice(n, d) \/ SendFile(n, d)

\* What the user's thread has begun it carries on with.
JobStep(n) ==
    \/ StoreHost(n) \/ AdoptSecret(n)
    \/ CopyList(n) \/ SendNext(n) \/ EndSending(n) \/ ForgetRow(n)

ReceiveStep(n) ==
    \/ \E p \in inbox[n] : Handle(n, p) \/ Ignore(n, p)
    \/ \E p \in erasing[n] : RemoveRow(n, p)

Next ==
    \E n \in Nodes :
        \/ UserStep(n)
        \/ JobStep(n)
        \/ ReceiveStep(n)
        \/ \E m \in Nodes : HearBeacon(n, m)
        \/ \E a \in Addresses : Move(n, a) \/ Restart(n, a)

Spec == Init /\ [][Next]_vars

\* Threads run on; a beacon is sent every six seconds, so that some get through.
Fairness == \A n \in Nodes :
    /\ WF_vars(JobStep(n))
    /\ WF_vars(ReceiveStep(n))
    /\ \A m \in Nodes : WF_vars(HearBeacon(n, m))

FairSpec == Spec /\ Fairness
-----------------------------------------------------------------------------
(* Properties *)

\* mesh_engine.cpp:307-375.  What is sent to one device of the list is read by no
\* other, whatever stands at its address by then and whatever meshes the devices have
\* joined meanwhile.  (A handoff to a device that is not listed goes to all, under the
\* mesh key, and any device of the mesh may read it.)
OnlyChosenReads ==
    \A n \in Nodes : \A p \in inbox[n] :
        p.chosen # NoNode /\ Readable(n, p) => n = p.chosen

\* mesh_engine.cpp:307-354.  A browser handoff to a device of the list that reaches it
\* can be read there, even if one of the two has adopted another mesh secret since.
HandoffIsReadable ==
    \A n \in Nodes : \A p \in inbox[n] :
        p.type = "BrowserHandoff" /\ p.chosen = n => Readable(n, p)

\* mesh_engine.cpp:377-409, 440-479, 562-577.  While n runs, a device leaves its trust
\* list only when the user of n has revoked it, or with a Revocation about it from a
\* device of n's mesh name, sealed with the mesh key n has at that moment: no packet of
\* another mesh or left over from before a join removes anybody.  (A restart forgets the
\* devices whose row is not written: after a failed write, a crash before it, or the
\* row removed by a Revocation that a beacon has overtaken.)
OnlyMembersRevoke ==
    [][\A n \in Nodes : \A d \in DOMAIN devices[n] \ DOMAIN devices'[n] :
          \/ job[n].op = "send" /\ job[n].type = "Revocation" /\ job[n].about = d
          \/ \E p \in inbox[n] : /\ p.type = "Revocation" /\ p.about = d
                                  /\ p.key = MyMeshKey(n)
                                  /\ MeshName[p.from] = MeshName[n]
          \/ \E a \in Addresses : Restart(n, a)]_vars

\* Devices of one mesh name come to know each other, and each other's address,
\* after moves, restarts and revocations (DESIGN_NOTES.md, "should show up in
\* each other's devices list").
DevicesAreFound ==
    \A n, m \in Nodes : n # m /\ MeshName[n] = MeshName[m] =>
        <>[](m \in DOMAIN devices[n] /\ devices[n][m] = addr[m])

\* crypto.hpp:14, "Session keys: ECDH + HKDF, per-peer, salted with the session
\* ID": a packet that names its receiver as target_key can be read there, if
\* sender and receiver are in the same mesh.
TargetCanRead ==
    \A n \in Nodes : \A p \in inbox[n] :
        p.target = n /\ MyMeshKey(p.from) = MyMeshKey(n) => Readable(n, p)
=============================================================================
