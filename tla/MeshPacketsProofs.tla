------------------------- MODULE MeshPacketsProofs -------------------------
(***************************************************************************)
(* Who can read what MeshPackets sends to one chosen device: for any       *)
(* number of devices, meshes, addresses, operations and changes of address.*)
(***************************************************************************)
EXTENDS MeshPackets, TLAPS

\* A packet for one device names it as target and is sealed for the pair of
\* sender and device, a browser handoff with its own session.
Sealed(p) == p.chosen # NoNode =>
    /\ p.target = p.chosen
    /\ p.key.kind = "peer"
    /\ p.type = "BrowserHandoff" => p.key = PeerKey(p.from, p.chosen, p.session)

PacketInv == \A n \in Nodes : \A p \in inbox[n] : Sealed(p)

\* So is a job that is sending to one device, and no other is on its list; one that
\* has still to copy the list is for no single device.
JobSealed(n, j) ==
    /\ j.op = "send" /\ j.chosen # NoNode =>
          /\ j.targeted /\ DOMAIN j.todo \subseteq {j.chosen}
          /\ j.key = PeerKey(n, j.chosen, j.session)
    /\ j.op = "spread" => j.chosen = NoNode

JobInv == \A n \in Nodes : JobSealed(n, job[n])

Shapes == DOMAIN job = Nodes /\ DOMAIN inbox = Nodes
          /\ job = [n \in Nodes |-> job[n]] /\ inbox = [n \in Nodes |-> inbox[n]]

KeyInv == Shapes /\ PacketInv /\ JobInv

LEMMA PeerKeyKind ==
    \A a, b, s : PeerKey(a, b, s).kind = "peer" /\ PeerKey(a, b, s) = PeerKey(b, a, s)
<1>. SUFFICES ASSUME NEW a, NEW b, NEW s
              PROVE  PeerKey(a, b, s).kind = "peer" /\ PeerKey(a, b, s) = PeerKey(b, a, s)
  OBVIOUS
<1>1. {a, b} = {b, a}
  OBVIOUS
<1>. QED BY <1>1 DEF PeerKey

\* A packet that is delivered somewhere or lost leaves only sealed packets.
LEMMA DeliverKeeps ==
    ASSUME KeyInv, NEW a, NEW p, Deliver(a, p), Sealed(p)
    PROVE  PacketInv' /\ DOMAIN inbox' = Nodes /\ inbox' = [n \in Nodes |-> inbox'[n]]
<1>1. CASE UNCHANGED inbox
  BY <1>1 DEF KeyInv, PacketInv, Shapes, Sealed, PeerKey
<1>2. ASSUME NEW m \in Nodes, inbox' = [inbox EXCEPT ![m] = @ \cup {p}]
      PROVE  PacketInv' /\ DOMAIN inbox' = Nodes /\ inbox' = [n \in Nodes |-> inbox'[n]]
  <2>1. \A n \in Nodes : inbox'[n] \subseteq inbox[n] \cup {p}
    BY <1>2 DEF KeyInv, Shapes
  <2>2. PacketInv'
    BY <2>1 DEF KeyInv, PacketInv, Sealed, PeerKey
  <2>. QED BY <1>2, <2>2 DEF KeyInv, Shapes
<1>. QED BY <1>1, <1>2 DEF Deliver

LEMMA TakenKeeps ==
    ASSUME KeyInv, NEW n \in Nodes, NEW p, Taken(n, p)
    PROVE  PacketInv' /\ DOMAIN inbox' = Nodes /\ inbox' = [m \in Nodes |-> inbox'[m]]
<1>1. \A m \in Nodes : inbox'[m] \subseteq inbox[m]
  BY DEF Taken, KeyInv, Shapes
<1>2. PacketInv'
  BY <1>1 DEF KeyInv, PacketInv, Sealed, PeerKey
<1>. QED BY <1>2 DEF Taken, KeyInv, Shapes

\* A job that is replaced by a sealed one.
LEMMA JobChange ==
    ASSUME KeyInv, NEW n \in Nodes, NEW j, job' = [job EXCEPT ![n] = j], JobSealed(n, j)
    PROVE  JobInv' /\ DOMAIN job' = Nodes /\ job' = [m \in Nodes |-> job'[m]]
<1>1. \A m \in Nodes : job'[m] = IF m = n THEN j ELSE job[m]
  BY DEF KeyInv, Shapes
<1>2. ASSUME NEW m \in Nodes PROVE JobSealed(m, job'[m])
  <2>1. JobSealed(m, job[m])
    BY DEF KeyInv, JobInv
  <2>. QED BY <1>1, <2>1
<1>3. JobInv'
  BY <1>2 DEF JobInv, JobSealed, PeerKey
<1>. QED BY <1>3 DEF KeyInv, Shapes

LEMMA IdleSealed == \A n : JobSealed(n, Idle)
BY DEF JobSealed, Idle

LEMMA InitKeys == Init => KeyInv
<1>. SUFFICES ASSUME Init PROVE KeyInv
  OBVIOUS
<1>1. Shapes
  BY DEF Init, Shapes
<1>2. PacketInv
  BY DEF Init, PacketInv
<1>3. JobInv
  BY IdleSealed DEF Init, JobInv
<1>. QED BY <1>1, <1>2, <1>3 DEF KeyInv

\* A job of BeginSending whose key and list fit its target.
LEMMA SendingKeeps ==
    ASSUME KeyInv, NEW n \in Nodes, NEW op, NEW type, NEW key, NEW targeted, NEW todo,
           NEW about, NEW chosen,
           BeginSending(n, op, type, key, targeted, todo, about, chosen),
           chosen # NoNode => /\ op = "send" /\ targeted /\ DOMAIN todo \subseteq {chosen}
                              /\ key = PeerKey(n, chosen, ops + 1)
    PROVE  KeyInv'
<1>. DEFINE j == [op |-> op, type |-> type, key |-> key, targeted |-> targeted,
                  todo |-> todo, about |-> about, chosen |-> chosen, session |-> ops + 1]
<1>1. job' = [job EXCEPT ![n] = j] /\ UNCHANGED inbox
  BY DEF BeginSending
<1>2. JobSealed(n, j)
  BY DEF JobSealed
<1>. HIDE DEF j
<1>3. JobInv' /\ DOMAIN job' = Nodes /\ job' = [m \in Nodes |-> job'[m]]
  BY <1>1, <1>2, JobChange
<1>4. PacketInv' /\ inbox' = inbox
  BY <1>1 DEF KeyInv, PacketInv, Sealed, PeerKey
<1>. QED BY <1>3, <1>4 DEF KeyInv, Shapes

\* A job that goes on without a packet.
LEMMA GoesOnKeeps ==
    ASSUME KeyInv, NEW n \in Nodes, NEW j, job' = [job EXCEPT ![n] = j], JobSealed(n, j),
           UNCHANGED inbox
    PROVE  KeyInv'
<1>1. PacketInv'
  BY DEF KeyInv, PacketInv, Sealed, PeerKey
<1>. QED BY <1>1, JobChange DEF KeyInv, Shapes

LEMMA UserKeeps == ASSUME KeyInv, NEW n \in Nodes, UserStep(n) PROVE KeyInv'
<1>1. ASSUME NEW h \in Nodes, BeginJoin(n, h) PROVE KeyInv'
  <2>. DEFINE j == [op |-> "store", host |-> h, at |-> addr[h],
                    secret |-> secret[h], session |-> ops + 1]
  <2>1. job' = [job EXCEPT ![n] = j] /\ UNCHANGED inbox
    BY <1>1 DEF BeginJoin
  <2>2. JobSealed(n, j)
    BY DEF JobSealed
  <2>. HIDE DEF j
  <2>. QED BY <2>1, <2>2, GoesOnKeeps
<1>2. CASE BroadcastClipboard(n)
  BY <1>2, SendingKeeps DEF BroadcastClipboard
<1>3. ASSUME NEW d \in Nodes \cup {NoNode}, SendBrowserHandoff(n, d) PROVE KeyInv'
  <2>1. CASE /\ Listed(n, d)
             /\ BeginSending(n, "send", "BrowserHandoff", HandoffKey(n, d), TRUE,
                             Restrict(devices[n], {d}), NoNode, d)
    <3>1. HandoffKey(n, d) = PeerKey(n, d, ops + 1)
      BY <2>1 DEF HandoffKey
    <3>2. DOMAIN Restrict(devices[n], {d}) \subseteq {d}
      BY DEF Restrict
    <3>. QED BY <2>1, <3>1, <3>2, SendingKeeps
  <2>2. CASE BeginSending(n, "spread", "BrowserHandoff", HandoffKey(n, d), TRUE,
                          <<>>, NoNode, NoNode)
    BY <2>2, SendingKeeps
  <2>. QED BY <1>3, <2>1, <2>2 DEF SendBrowserHandoff
<1>4. ASSUME NEW d \in Nodes, RevokeDevice(n, d) PROVE KeyInv'
  BY <1>4, SendingKeeps DEF RevokeDevice
<1>5. ASSUME NEW d \in Nodes, SendFile(n, d) PROVE KeyInv'
  <2>. DEFINE p == Packet("FileStart", n, d, PeerKey(n, d, NoSession), ops + 1, NoNode, d)
  <2>1. Deliver(devices[n][d], p) /\ job' = job
    BY <1>5 DEF SendFile
  <2>2. Sealed(p)
    BY PeerKeyKind DEF Sealed, Packet
  <2>. HIDE DEF p
  <2>3. JobInv'
    BY <2>1 DEF KeyInv, JobInv, JobSealed, PeerKey
  <2>. QED BY <2>1, <2>2, <2>3, DeliverKeeps DEF KeyInv, Shapes
<1>. QED BY <1>1, <1>2, <1>3, <1>4, <1>5 DEF UserStep

LEMMA JobKeeps == ASSUME KeyInv, NEW n \in Nodes, JobStep(n) PROVE KeyInv'
<1>0. JobSealed(n, job[n])
  BY DEF KeyInv, JobInv
<1>1. CASE StoreHost(n)
  <2>. DEFINE j == [job[n] EXCEPT !.op = "adopt"]
  <2>1. job' = [job EXCEPT ![n] = j] /\ UNCHANGED inbox
    BY <1>1 DEF StoreHost
  <2>2. JobSealed(n, j)
    <3>1. j.op = "adopt"
      BY <1>1 DEF StoreHost
    <3>. QED BY <3>1 DEF JobSealed
  <2>. HIDE DEF j
  <2>. QED BY <2>1, <2>2, GoesOnKeeps
<1>2. CASE AdoptSecret(n)
  <2>. DEFINE p == Packet("JoinAccept", n, job[n].host,
                          MeshKey(job[n].secret, MeshName[n]), job[n].session, NoNode, NoNode)
  <2>1. Deliver(job[n].at, p) /\ job' = [job EXCEPT ![n] = Idle]
    BY <1>2 DEF AdoptSecret
  <2>2. Sealed(p)
    BY DEF Sealed, Packet
  <2>. HIDE DEF p
  <2>. QED BY <2>1, <2>2, DeliverKeeps, JobChange, IdleSealed DEF KeyInv, Shapes
<1>3. CASE CopyList(n)
  <2>. DEFINE j == [job[n] EXCEPT !.op = "send", !.todo = devices[n]]
  <2>1. job' = [job EXCEPT ![n] = j] /\ UNCHANGED inbox /\ job[n].op = "spread"
    BY <1>3 DEF CopyList
  <2>2. JobSealed(n, j)
    <3>1. job[n].chosen = NoNode
      BY <1>0, <2>1 DEF JobSealed
    <3>2. j.op = "send" /\ j.chosen = job[n].chosen
      BY <1>3 DEF CopyList
    <3>. QED BY <3>1, <3>2 DEF JobSealed
  <2>. HIDE DEF j
  <2>. QED BY <2>1, <2>2, GoesOnKeeps
<1>4. CASE SendNext(n)
  <2>1. PICK d \in DOMAIN job[n].todo :
          /\ job[n].op = "send"
          /\ Deliver(job[n].todo[d],
                 Packet(job[n].type, n, IF job[n].targeted THEN d ELSE NoNode,
                        job[n].key, job[n].session, job[n].about, job[n].chosen))
          /\ job' = [job EXCEPT ![n].todo = Drop(@, d)]
    BY <1>4 DEF SendNext
  <2>. DEFINE p == Packet(job[n].type, n, IF job[n].targeted THEN d ELSE NoNode,
                          job[n].key, job[n].session, job[n].about, job[n].chosen)
              j == [job[n] EXCEPT !.todo = Drop(@, d)]
  <2>2. Sealed(p)
    BY <1>0, <2>1, PeerKeyKind DEF Sealed, Packet, JobSealed
  <2>3. JobSealed(n, j)
    <3>1. DOMAIN Drop(job[n].todo, d) \subseteq DOMAIN job[n].todo
      BY DEF Drop, Restrict
    <3>. QED BY <1>0, <2>1, <3>1 DEF JobSealed
  <2>4. job' = [job EXCEPT ![n] = j]
    BY <2>1
  <2>. HIDE DEF p, j
  <2>5. Deliver(job[n].todo[d], p)
    BY <2>1 DEF p
  <2>. QED BY <2>2, <2>3, <2>4, <2>5, DeliverKeeps, JobChange DEF KeyInv, Shapes
<1>5. CASE EndSending(n)
  <2>. DEFINE j == [job[n] EXCEPT !.op = "forget"]
  <2>1. UNCHANGED inbox /\ (job' = [job EXCEPT ![n] = j] \/ job' = [job EXCEPT ![n] = Idle])
    BY <1>5 DEF EndSending
  <2>2. JobSealed(n, j)
    <3>1. j.op = "forget"
      BY <1>5 DEF EndSending
    <3>. QED BY <3>1 DEF JobSealed
  <2>. HIDE DEF j
  <2>. QED BY <2>1, <2>2, GoesOnKeeps, IdleSealed
<1>6. CASE ForgetRow(n)
  BY <1>6, GoesOnKeeps, IdleSealed DEF ForgetRow
<1>. QED BY <1>1, <1>2, <1>3, <1>4, <1>5, <1>6 DEF JobStep

\* Neither packets nor jobs change.
LEMMA UnchangedKeeps == ASSUME KeyInv, UNCHANGED <<job, inbox>> PROVE KeyInv'
BY DEF KeyInv, Shapes, PacketInv, JobInv, Sealed, JobSealed, PeerKey

LEMMA StepKeeps == KeyInv /\ [Next]_vars => KeyInv'
<1>. SUFFICES ASSUME KeyInv, [Next]_vars PROVE KeyInv'
  OBVIOUS
<1>1. ASSUME NEW n \in Nodes, ReceiveStep(n) PROVE KeyInv'
  <2>1. ASSUME NEW p \in inbox[n], Taken(n, p), job' = job PROVE KeyInv'
    <3>1. JobInv'
      BY <2>1 DEF KeyInv, JobInv, JobSealed, PeerKey
    <3>. QED BY <2>1, <3>1, TakenKeeps DEF KeyInv, Shapes
  <2>. QED BY <1>1, <2>1, UnchangedKeeps DEF ReceiveStep, Handle, Dispatch, Ignore, RemoveRow
<1>2. ASSUME NEW n \in Nodes, NEW m \in Nodes, HearBeacon(n, m) PROVE KeyInv'
  BY <1>2, UnchangedKeeps DEF HearBeacon
<1>3. ASSUME NEW n \in Nodes, NEW a \in Addresses, Move(n, a) PROVE KeyInv'
  BY <1>3, UnchangedKeeps DEF Move
<1>4. ASSUME NEW n \in Nodes, NEW a \in Addresses, Restart(n, a) PROVE KeyInv'
  <2>1. job' = [job EXCEPT ![n] = Idle] /\ inbox' = [inbox EXCEPT ![n] = {}]
    BY <1>4 DEF Restart
  <2>2. \A m \in Nodes : inbox'[m] \subseteq inbox[m]
    BY <2>1 DEF KeyInv, Shapes
  <2>3. PacketInv'
    BY <2>2 DEF KeyInv, PacketInv, Sealed, PeerKey
  <2>. QED BY <2>1, <2>3, JobChange, IdleSealed DEF KeyInv, Shapes
<1>5. CASE UNCHANGED vars
  BY <1>5, UnchangedKeeps DEF vars
<1>. QED BY <1>1, <1>2, <1>3, <1>4, <1>5, UserKeeps, JobKeeps DEF Next

\* Whatever is in an inbox by mistake, a packet for another device cannot be
\* read: the mesh key never opens what was sealed with a peer key.
LEMMA KeysHideChosen == KeyInv => OnlyChosenReads
<1>. SUFFICES ASSUME KeyInv, NEW n \in Nodes, NEW p \in inbox[n],
                     p.chosen # NoNode, Readable(n, p)
              PROVE  n = p.chosen
  BY DEF OnlyChosenReads
<1>1. p.target = p.chosen /\ p.key.kind = "peer"
  BY DEF KeyInv, PacketInv, Sealed
<1>2. p.target # n => p.key.kind = "mesh"
  BY DEF Readable, DecryptionKey, MyMeshKey, MeshKey
<1>. QED BY <1>1, <1>2

\* The receiver derives the key of the pair from its own side.
LEMMA KeysFitHandoff == KeyInv => HandoffIsReadable
<1>. SUFFICES ASSUME KeyInv, NEW n \in Nodes, NEW p \in inbox[n],
                     p.type = "BrowserHandoff", p.chosen = n
              PROVE  Readable(n, p)
  BY DEF HandoffIsReadable
<1>1. p.target = n /\ p.key = PeerKey(p.from, n, p.session)
  BY NodesAssumption DEF KeyInv, PacketInv, Sealed
<1>. QED BY <1>1, PeerKeyKind DEF Readable, DecryptionKey

LEMMA KeysHold == Spec => []KeyInv
BY InitKeys, StepKeeps, PTL DEF Spec

\* What is sent to one device of the list is read by no other (mesh_engine.cpp:307-375,
\* 440-479), for any number of devices, meshes and moves.
THEOREM OnlyChosenReadsHolds == Spec => []OnlyChosenReads
BY KeysHold, KeysHideChosen, PTL

\* A browser handoff to one device of the list can be read there although the meshes of the
\* two may have changed (mesh_engine.cpp:307-354, 440-479).
THEOREM HandoffIsReadableHolds == Spec => []HandoffIsReadable
BY KeysHold, KeysFitHandoff, PTL
-----------------------------------------------------------------------------
(* Types *)

LEMMA BookDef ==
    \A f : f \in AddressBooks <=> DOMAIN f \subseteq Nodes /\ f \in [DOMAIN f -> Addresses]
BY DEF AddressBooks

LEMMA PutBook ==
    ASSUME NEW f \in AddressBooks, NEW m \in Nodes, NEW a \in Addresses
    PROVE  Put(f, m, a) \in AddressBooks /\ DOMAIN Put(f, m, a) = DOMAIN f \cup {m}
BY BookDef DEF Put

LEMMA DropBook ==
    ASSUME NEW f \in AddressBooks, NEW m
    PROVE  Drop(f, m) \in AddressBooks /\ DOMAIN Drop(f, m) \subseteq DOMAIN f
BY BookDef DEF Drop, Restrict

LEMMA RestrictBook ==
    ASSUME NEW f \in AddressBooks, NEW m \in DOMAIN f
    PROVE  Restrict(f, {m}) \in AddressBooks
BY BookDef DEF Restrict

\* The parts of TypeOK, with what the jobs and packets need beyond it.
BooksOK ==
    /\ devices \in [Nodes -> AddressBooks] /\ stored \in [Nodes -> AddressBooks]
    /\ \A n \in Nodes : n \notin DOMAIN devices[n] \cup DOMAIN stored[n]

AddrOK == addr \in [Nodes -> Addresses] /\ \A n, m \in Nodes : addr[n] = addr[m] => n = m

JobOK(n, j) ==
    /\ j.op \in {"none", "store", "adopt", "spread", "send", "forget"}
    /\ j.op \in {"store", "adopt"} =>
          j.host \in Nodes /\ j.host # n /\ j.at \in Addresses /\ j.secret \in Nodes
    /\ j.op \in {"spread", "send"} => j.type \in Types
    /\ j.op = "send" => j.todo \in AddressBooks

PacketOK(p) == p.type \in Types /\ p.from \in Nodes /\ p.target \in Nodes \cup {NoNode}

JobsOK == DOMAIN job = Nodes /\ \A n \in Nodes : JobOK(n, job[n])
InboxOK == DOMAIN inbox = Nodes /\ \A n \in Nodes : \A p \in inbox[n] : PacketOK(p)
ErasingOK == DOMAIN erasing = Nodes /\ \A n \in Nodes : \A p \in erasing[n] : PacketOK(p)
CountersOK == ops \in 0..MaxOps /\ faults \in 0..MaxFaults
SecretsOK == secret \in [Nodes -> Nodes] /\ saved \in [Nodes -> Nodes]

TypeInv ==
    SecretsOK /\ BooksOK /\ AddrOK /\ JobsOK /\ InboxOK /\ ErasingOK /\ CountersOK

LEMMA TypeInvImplies == TypeInv => TypeOK
BY DEF TypeInv, TypeOK, SecretsOK, BooksOK, AddrOK, JobsOK, JobOK, InboxOK, ErasingOK,
   PacketOK, CountersOK

\* What a step leaves alone keeps its type.
LEMMA TypesUnchanged ==
    /\ SecretsOK /\ UNCHANGED <<secret, saved>> => SecretsOK'
    /\ BooksOK /\ UNCHANGED <<devices, stored>> => BooksOK'
    /\ AddrOK /\ UNCHANGED addr => AddrOK'
    /\ JobsOK /\ UNCHANGED job => JobsOK'
    /\ InboxOK /\ UNCHANGED inbox => InboxOK'
    /\ ErasingOK /\ UNCHANGED erasing => ErasingOK'
    /\ CountersOK /\ UNCHANGED <<ops, faults>> => CountersOK'
BY DEF SecretsOK, BooksOK, AddrOK, JobsOK, JobOK, InboxOK, ErasingOK, PacketOK, CountersOK

LEMMA InitTypes == Init => TypeInv
<1>. SUFFICES ASSUME Init PROVE TypeInv
  OBVIOUS
<1>1. AddrOK
  BY HomeAssumption DEF Init, AddrOK, Injection, IsInjective
<1>2. BooksOK
  <2>1. [m \in {} |-> 0] \in AddressBooks
    BY BookDef
  <2>. QED BY <2>1 DEF Init, BooksOK
<1>3. JobsOK /\ InboxOK /\ ErasingOK
  BY DEF Init, JobsOK, JobOK, InboxOK, ErasingOK, Idle
<1>4. CountersOK /\ SecretsOK
  BY BoundsAssumption DEF Init, CountersOK, SecretsOK
<1>. QED BY <1>1, <1>2, <1>3, <1>4 DEF TypeInv

\* One job is replaced, one packet delivered, one packet taken.
LEMMA JobTyped ==
    ASSUME JobsOK, NEW n \in Nodes, NEW j, job' = [job EXCEPT ![n] = j], JobOK(n, j)
    PROVE  JobsOK'
<1>1. DOMAIN job' = Nodes /\ \A m \in Nodes : job'[m] = IF m = n THEN j ELSE job[m]
  BY DEF JobsOK
<1>. QED BY <1>1 DEF JobsOK, JobOK

LEMMA DeliverTyped ==
    ASSUME InboxOK, NEW a, NEW p, Deliver(a, p), PacketOK(p)
    PROVE  InboxOK'
<1>1. CASE UNCHANGED inbox
  BY <1>1 DEF InboxOK, PacketOK
<1>2. ASSUME NEW m \in Nodes, inbox' = [inbox EXCEPT ![m] = @ \cup {p}]
      PROVE  InboxOK'
  <2>1. DOMAIN inbox' = Nodes /\ \A n \in Nodes : inbox'[n] \subseteq inbox[n] \cup {p}
    BY <1>2 DEF InboxOK
  <2>. QED BY <2>1 DEF InboxOK, PacketOK
<1>. QED BY <1>1, <1>2 DEF Deliver

LEMMA IdleTyped == \A n : JobOK(n, Idle)
BY DEF JobOK, Idle

LEMMA SendingTyped ==
    ASSUME JobsOK, NEW n \in Nodes, NEW op \in {"spread", "send"}, NEW type \in Types,
           NEW key, NEW targeted, NEW todo, op = "send" => todo \in AddressBooks,
           NEW about, NEW chosen,
           BeginSending(n, op, type, key, targeted, todo, about, chosen)
    PROVE  JobsOK'
<1>. DEFINE j == [op |-> op, type |-> type, key |-> key, targeted |-> targeted,
                  todo |-> todo, about |-> about, chosen |-> chosen, session |-> ops + 1]
<1>1. job' = [job EXCEPT ![n] = j] /\ JobOK(n, j)
  BY DEF BeginSending, JobOK
<1>. HIDE DEF j
<1>. QED BY <1>1, JobTyped

LEMMA BeginTyped == ASSUME CountersOK, NEW n, Begin(n), UNCHANGED faults PROVE CountersOK'
BY BoundsAssumption DEF CountersOK, Begin

LEMMA MishapTyped ==
    ASSUME CountersOK, UNCHANGED ops, UNCHANGED faults \/ Mishap PROVE CountersOK'
BY BoundsAssumption DEF CountersOK, Mishap

\* The list of n in memory loses device m; a write to its table succeeds or fails.
LEMMA EraseTyped ==
    ASSUME BooksOK, NEW n \in Nodes, NEW m, Erase(n, m), UNCHANGED stored
    PROVE  BooksOK'
<1>1. devices[n] \in AddressBooks /\ n \notin DOMAIN devices[n]
  BY DEF BooksOK
<1>2. Drop(devices[n], m) \in AddressBooks /\ n \notin DOMAIN Drop(devices[n], m)
  BY <1>1, DropBook
<1>. QED BY <1>2 DEF Erase, BooksOK

LEMMA WriteTyped ==
    ASSUME BooksOK, CountersOK, NEW n \in Nodes, NEW book \in AddressBooks,
           n \notin DOMAIN book, Write(n, book), UNCHANGED <<devices, ops>>
    PROVE  BooksOK' /\ CountersOK'
<1>1. CountersOK'
  BY MishapTyped DEF Write
<1>2. BooksOK'
  BY DEF Write, BooksOK
<1>. QED BY <1>1, <1>2

\* A row is dropped, or the write fails.
LEMMA DropTyped ==
    ASSUME BooksOK, CountersOK, NEW n \in Nodes, NEW m, Write(n, Drop(stored[n], m)),
           UNCHANGED <<devices, ops>>
    PROVE  BooksOK' /\ CountersOK'
<1>1. stored[n] \in AddressBooks /\ n \notin DOMAIN stored[n]
  BY DEF BooksOK
<1>2. Drop(stored[n], m) \in AddressBooks /\ n \notin DOMAIN Drop(stored[n], m)
  BY <1>1, DropBook
<1>. QED BY <1>2, WriteTyped

LEMMA RememberTyped ==
    ASSUME BooksOK, NEW n \in Nodes, NEW m \in Nodes, n # m, NEW a \in Addresses,
           devices' = [devices EXCEPT ![n] = Put(@, m, a)],
           stored' = stored \/ stored' = [stored EXCEPT ![n] = Put(@, m, a)]
    PROVE  BooksOK'
<1>1. /\ devices[n] \in AddressBooks /\ stored[n] \in AddressBooks
      /\ n \notin DOMAIN devices[n] /\ n \notin DOMAIN stored[n]
  BY DEF BooksOK
<1>2. ASSUME NEW f \in AddressBooks, n \notin DOMAIN f
      PROVE  Put(f, m, a) \in AddressBooks /\ n \notin DOMAIN Put(f, m, a)
  <2>1. Put(f, m, a) \in AddressBooks /\ DOMAIN Put(f, m, a) = DOMAIN f \cup {m}
    BY PutBook
  <2>2. n \notin DOMAIN f \cup {m}
    BY <1>2
  <2>. QED BY <2>1, <2>2
<1>3. /\ Put(devices[n], m, a) \in AddressBooks /\ n \notin DOMAIN Put(devices[n], m, a)
      /\ Put(stored[n], m, a) \in AddressBooks /\ n \notin DOMAIN Put(stored[n], m, a)
  BY <1>1, <1>2
<1>. QED BY <1>3 DEF BooksOK

LEMMA UserTypes == ASSUME TypeInv, NEW n \in Nodes, UserStep(n) PROVE TypeInv'
<1>0. /\ SecretsOK /\ BooksOK /\ AddrOK /\ JobsOK /\ InboxOK /\ ErasingOK /\ CountersOK
      /\ devices[n] \in AddressBooks
  BY DEF TypeInv, BooksOK
<1>1. ASSUME NEW h \in Nodes, BeginJoin(n, h) PROVE TypeInv'
  <2>. DEFINE j == [op |-> "store", host |-> h, at |-> addr[h],
                    secret |-> secret[h], session |-> ops + 1]
  <2>1. /\ n # h /\ addr[h] \in Addresses
        /\ devices' = [devices EXCEPT ![n] = Put(@, h, addr[h])]
        /\ job' = [job EXCEPT ![n] = j] /\ Begin(n)
        /\ UNCHANGED <<secret, saved, stored, addr, inbox, erasing, faults>>
    BY <1>0, <1>1 DEF BeginJoin, AddrOK
  <2>2. JobOK(n, j)
    BY <1>0, <2>1 DEF JobOK, SecretsOK
  <2>. HIDE DEF j
  <2>3. BooksOK'
    BY <1>0, <2>1, RememberTyped
  <2>4. JobsOK' /\ CountersOK'
    BY <1>0, <2>1, <2>2, JobTyped, BeginTyped
  <2>. QED BY <1>0, <2>1, <2>3, <2>4, TypesUnchanged DEF TypeInv
<1>2. ASSUME NEW op \in {"spread", "send"}, NEW type \in Types, NEW key, NEW targeted,
             NEW todo, op = "send" => todo \in AddressBooks, NEW about, NEW chosen, Begin(n),
             BeginSending(n, op, type, key, targeted, todo, about, chosen)
      PROVE  TypeInv'
  <2>1. UNCHANGED <<secret, saved, devices, stored, addr, inbox, erasing, faults>>
    BY <1>2 DEF BeginSending
  <2>2. JobsOK' /\ CountersOK'
    BY <1>0, <1>2, <2>1, SendingTyped, BeginTyped
  <2>. QED BY <1>0, <2>1, <2>2, TypesUnchanged DEF TypeInv
<1>3. CASE BroadcastClipboard(n)
  BY <1>0, <1>2, <1>3 DEF BroadcastClipboard, Types
<1>4. ASSUME NEW d \in Nodes \cup {NoNode}, SendBrowserHandoff(n, d) PROVE TypeInv'
  <2>1. "BrowserHandoff" \in Types
    BY DEF Types
  <2>2. CASE /\ Listed(n, d)
             /\ BeginSending(n, "send", "BrowserHandoff", HandoffKey(n, d), TRUE,
                             Restrict(devices[n], {d}), NoNode, d)
    <3>1. Restrict(devices[n], {d}) \in AddressBooks
      BY <1>0, <2>2, RestrictBook DEF Listed
    <3>. QED BY <1>2, <1>4, <2>1, <2>2, <3>1 DEF SendBrowserHandoff
  <2>3. CASE BeginSending(n, "spread", "BrowserHandoff", HandoffKey(n, d), TRUE,
                          <<>>, NoNode, NoNode)
    BY <1>2, <1>4, <2>1, <2>3 DEF SendBrowserHandoff
  <2>. QED BY <1>4, <2>2, <2>3 DEF SendBrowserHandoff
<1>5. ASSUME NEW d \in Nodes, RevokeDevice(n, d) PROVE TypeInv'
  <2>1. Drop(devices[n], d) \in AddressBooks
    BY <1>0, DropBook
  <2>. QED BY <1>2, <1>5, <2>1 DEF RevokeDevice, Types
<1>6. ASSUME NEW d \in Nodes, SendFile(n, d) PROVE TypeInv'
  <2>. DEFINE p == Packet("FileStart", n, d, PeerKey(n, d, NoSession), ops + 1, NoNode, d)
  <2>1. /\ Deliver(devices[n][d], p) /\ ops < MaxOps /\ ops' = ops + 1
        /\ UNCHANGED <<secret, saved, devices, stored, addr, job, erasing, faults>>
    BY <1>6 DEF SendFile
  <2>2. PacketOK(p)
    BY DEF PacketOK, Packet, Types
  <2>. HIDE DEF p
  <2>3. InboxOK'
    BY <1>0, <2>1, <2>2, DeliverTyped
  <2>4. CountersOK'
    BY <1>0, <2>1, BoundsAssumption DEF CountersOK
  <2>. QED BY <1>0, <2>1, <2>3, <2>4, TypesUnchanged DEF TypeInv
<1>. QED BY <1>1, <1>3, <1>4, <1>5, <1>6 DEF UserStep

LEMMA JobTypes == ASSUME TypeInv, NEW n \in Nodes, JobStep(n) PROVE TypeInv'
<1>0. /\ SecretsOK /\ BooksOK /\ AddrOK /\ JobsOK /\ InboxOK /\ ErasingOK /\ CountersOK
      /\ JobOK(n, job[n]) /\ devices[n] \in AddressBooks
  BY DEF TypeInv, BooksOK, JobsOK
<1>1. CASE StoreHost(n)
  <2>. DEFINE j == [job[n] EXCEPT !.op = "adopt"]
  <2>1. /\ job[n].op = "store" /\ job' = [job EXCEPT ![n] = j]
        /\ Write(n, Put(stored[n], job[n].host, job[n].at))
        /\ UNCHANGED <<secret, saved, devices, addr, inbox, erasing, ops>>
    BY <1>1 DEF StoreHost
  <2>2. job[n].host \in Nodes /\ job[n].host # n /\ job[n].at \in Addresses
    BY <1>0, <2>1 DEF JobOK
  <2>3. JobOK(n, j)
    BY <1>0, <2>1 DEF JobOK
  <2>. HIDE DEF j
  <2>4. stored[n] \in AddressBooks /\ n \notin DOMAIN stored[n]
    BY <1>0 DEF BooksOK
  <2>5. /\ Put(stored[n], job[n].host, job[n].at) \in AddressBooks
        /\ DOMAIN Put(stored[n], job[n].host, job[n].at) = DOMAIN stored[n] \cup {job[n].host}
    BY <2>2, <2>4, PutBook
  <2>6. n \notin DOMAIN Put(stored[n], job[n].host, job[n].at)
    BY <2>2, <2>4, <2>5
  <2>7. BooksOK' /\ CountersOK' /\ JobsOK'
    BY <1>0, <2>1, <2>3, <2>5, <2>6, WriteTyped, JobTyped
  <2>. QED BY <1>0, <2>1, <2>7, TypesUnchanged DEF TypeInv
<1>2. CASE AdoptSecret(n)
  <2>. DEFINE p == Packet("JoinAccept", n, job[n].host,
                          MeshKey(job[n].secret, MeshName[n]), job[n].session, NoNode, NoNode)
  <2>1. /\ secret' = [secret EXCEPT ![n] = job[n].secret]
        /\ SaveSecret(n, job[n].secret)
        /\ Deliver(job[n].at, p) /\ job' = [job EXCEPT ![n] = Idle]
        /\ UNCHANGED <<devices, stored, addr, erasing, ops>>
    BY <1>2 DEF AdoptSecret
  <2>2. job[n].host \in Nodes /\ job[n].secret \in Nodes
    BY <1>0, <1>2 DEF AdoptSecret, JobOK
  <2>3. PacketOK(p)
    BY <2>2 DEF PacketOK, Packet, Types
  <2>. HIDE DEF p
  <2>4. InboxOK' /\ JobsOK'
    BY <1>0, <2>1, <2>3, DeliverTyped, JobTyped, IdleTyped
  <2>5. SecretsOK' /\ CountersOK'
    BY <1>0, <2>1, <2>2, MishapTyped DEF SaveSecret, SecretsOK
  <2>. QED BY <1>0, <2>1, <2>4, <2>5, TypesUnchanged DEF TypeInv
<1>3. CASE CopyList(n)
  <2>. DEFINE j == [job[n] EXCEPT !.op = "send", !.todo = devices[n]]
  <2>1. /\ job[n].op = "spread" /\ job' = [job EXCEPT ![n] = j]
        /\ UNCHANGED <<secret, saved, devices, stored, addr, inbox, erasing, ops, faults>>
    BY <1>3 DEF CopyList
  <2>2. JobOK(n, j)
    BY <1>0, <2>1 DEF JobOK
  <2>. HIDE DEF j
  <2>. QED BY <1>0, <2>1, <2>2, JobTyped, TypesUnchanged DEF TypeInv
<1>4. CASE SendNext(n)
  <2>1. PICK d \in DOMAIN job[n].todo :
          /\ job[n].op = "send"
          /\ Deliver(job[n].todo[d],
                 Packet(job[n].type, n, IF job[n].targeted THEN d ELSE NoNode,
                        job[n].key, job[n].session, job[n].about, job[n].chosen))
          /\ job' = [job EXCEPT ![n].todo = Drop(@, d)]
    BY <1>4 DEF SendNext
  <2>. DEFINE p == Packet(job[n].type, n, IF job[n].targeted THEN d ELSE NoNode,
                          job[n].key, job[n].session, job[n].about, job[n].chosen)
              j == [job[n] EXCEPT !.todo = Drop(@, d)]
  <2>2. job[n].type \in Types /\ job[n].todo \in AddressBooks /\ d \in Nodes
    BY <1>0, <2>1, BookDef DEF JobOK
  <2>3. PacketOK(p)
    BY <2>2 DEF PacketOK, Packet
  <2>4. JobOK(n, j)
    BY <1>0, <2>1, <2>2, DropBook DEF JobOK
  <2>5. job' = [job EXCEPT ![n] = j] /\ Deliver(job[n].todo[d], p)
    BY <2>1
  <2>6. UNCHANGED <<secret, saved, devices, stored, addr, erasing, ops, faults>>
    BY <1>4 DEF SendNext
  <2>. HIDE DEF p, j
  <2>7. JobsOK' /\ InboxOK'
    BY <1>0, <2>3, <2>4, <2>5, JobTyped, DeliverTyped
  <2>. QED BY <1>0, <2>6, <2>7, TypesUnchanged DEF TypeInv
<1>5. CASE EndSending(n)
  <2>. DEFINE j == [job[n] EXCEPT !.op = "forget"]
  <2>1. /\ \/ Erase(n, job[n].about) /\ job' = [job EXCEPT ![n] = j]
           \/ UNCHANGED devices /\ job' = [job EXCEPT ![n] = Idle]
        /\ UNCHANGED <<secret, saved, stored, addr, inbox, erasing, ops, faults>>
    BY <1>5 DEF EndSending
  <2>2. JobOK(n, j)
    BY <1>0, <1>5 DEF JobOK, EndSending
  <2>. HIDE DEF j
  <2>3. JobsOK'
    BY <1>0, <2>1, <2>2, JobTyped, IdleTyped
  <2>4. BooksOK'
    BY <1>0, <2>1, EraseTyped, TypesUnchanged
  <2>. QED BY <1>0, <2>1, <2>3, <2>4, TypesUnchanged DEF TypeInv
<1>6. CASE ForgetRow(n)
  <2>1. /\ Write(n, Drop(stored[n], job[n].about)) /\ job' = [job EXCEPT ![n] = Idle]
        /\ UNCHANGED <<secret, saved, devices, addr, inbox, erasing, ops>>
    BY <1>6 DEF ForgetRow
  <2>2. BooksOK' /\ CountersOK' /\ JobsOK'
    BY <1>0, <2>1, DropTyped, JobTyped, IdleTyped
  <2>. QED BY <1>0, <2>1, <2>2, TypesUnchanged DEF TypeInv
<1>. QED BY <1>1, <1>2, <1>3, <1>4, <1>5, <1>6 DEF JobStep

LEMMA ReceiveTypes == ASSUME TypeInv, NEW n \in Nodes, ReceiveStep(n) PROVE TypeInv'
<1>0. SecretsOK /\ BooksOK /\ AddrOK /\ JobsOK /\ InboxOK /\ ErasingOK /\ CountersOK
  BY DEF TypeInv
<1>1. ASSUME NEW p \in inbox[n], Taken(n, p) PROVE InboxOK'
  <2>1. DOMAIN inbox' = Nodes /\ \A m \in Nodes : inbox'[m] \subseteq inbox[m]
    BY <1>0, <1>1 DEF Taken, InboxOK
  <2>. QED BY <1>0, <2>1 DEF InboxOK, PacketOK
<1>2. ASSUME NEW p \in inbox[n], Handle(n, p) PROVE TypeInv'
  <2>1. /\ Taken(n, p)
        /\ \/ Erase(n, p.about) /\ erasing' = [erasing EXCEPT ![n] = @ \cup {p}]
           \/ UNCHANGED <<devices, erasing>>
        /\ UNCHANGED <<secret, saved, stored, addr, job, ops, faults>>
    BY <1>2 DEF Handle, Dispatch
  <2>2. BooksOK'
    BY <1>0, <2>1, EraseTyped, TypesUnchanged
  <2>3. ErasingOK'
    <3>1. PacketOK(p)
      BY <1>0 DEF InboxOK
    <3>2. DOMAIN erasing' = Nodes /\ \A m \in Nodes : erasing'[m] \subseteq erasing[m] \cup {p}
      BY <1>0, <2>1 DEF ErasingOK
    <3>. QED BY <1>0, <3>1, <3>2 DEF ErasingOK, PacketOK
  <2>. QED BY <1>0, <1>1, <2>1, <2>2, <2>3, TypesUnchanged DEF TypeInv
<1>3. ASSUME NEW p \in inbox[n], Ignore(n, p) PROVE TypeInv'
  BY <1>0, <1>1, <1>3, TypesUnchanged DEF Ignore, TypeInv
<1>4. ASSUME NEW p \in erasing[n], RemoveRow(n, p) PROVE TypeInv'
  <2>1. /\ Write(n, Drop(stored[n], p.about))
        /\ erasing' = [erasing EXCEPT ![n] = @ \ {p}]
        /\ UNCHANGED <<secret, saved, devices, addr, job, inbox, ops>>
    BY <1>4 DEF RemoveRow
  <2>2. BooksOK' /\ CountersOK'
    BY <1>0, <2>1, DropTyped
  <2>3. ErasingOK'
    <3>1. DOMAIN erasing' = Nodes /\ \A m \in Nodes : erasing'[m] \subseteq erasing[m]
      BY <1>0, <2>1 DEF ErasingOK
    <3>. QED BY <1>0, <3>1 DEF ErasingOK, PacketOK
  <2>. QED BY <1>0, <2>1, <2>2, <2>3, TypesUnchanged DEF TypeInv
<1>. QED BY <1>2, <1>3, <1>4 DEF ReceiveStep

LEMMA StepTypes == TypeInv /\ [Next]_vars => TypeInv'
<1>. SUFFICES ASSUME TypeInv, [Next]_vars PROVE TypeInv'
  OBVIOUS
<1>0. SecretsOK /\ BooksOK /\ AddrOK /\ JobsOK /\ InboxOK /\ ErasingOK /\ CountersOK
  BY DEF TypeInv
<1>1. ASSUME NEW n \in Nodes, NEW m \in Nodes, HearBeacon(n, m) PROVE TypeInv'
  <2>1. /\ n # m /\ addr[m] \in Addresses
        /\ devices' = [devices EXCEPT ![n] = Put(@, m, addr[m])]
        /\ stored' = stored \/ stored' = [stored EXCEPT ![n] = Put(@, m, addr[m])]
        /\ UNCHANGED faults \/ Mishap
        /\ UNCHANGED <<secret, saved, addr, job, inbox, erasing, ops>>
    BY <1>0, <1>1 DEF HearBeacon, Write, AddrOK
  <2>2. BooksOK' /\ CountersOK'
    BY <1>0, <2>1, RememberTyped, MishapTyped
  <2>. QED BY <1>0, <2>1, <2>2, TypesUnchanged DEF TypeInv
<1>2. ASSUME NEW n \in Nodes, NEW a \in Addresses,
             Mishap, UNCHANGED ops, a = addr[n] \/ FreeAddress(a),
             addr' = [addr EXCEPT ![n] = a]
      PROVE  AddrOK' /\ CountersOK'
  <2>1. AddrOK'
    BY <1>0, <1>2 DEF AddrOK, FreeAddress
  <2>. QED BY <1>0, <1>2, <2>1, MishapTyped
<1>3. ASSUME NEW n \in Nodes, NEW a \in Addresses, Move(n, a) PROVE TypeInv'
  <2>1. AddrOK' /\ CountersOK'
    BY <1>2, <1>3 DEF Move
  <2>. QED BY <1>0, <1>3, <2>1, TypesUnchanged DEF Move, TypeInv
<1>4. ASSUME NEW n \in Nodes, NEW a \in Addresses, Restart(n, a) PROVE TypeInv'
  <2>1. AddrOK' /\ CountersOK'
    BY <1>2, <1>4 DEF Restart
  <2>2. SecretsOK' /\ BooksOK'
    BY <1>0, <1>4 DEF Restart, SecretsOK, BooksOK
  <2>3. JobsOK'
    BY <1>0, <1>4, JobTyped, IdleTyped DEF Restart
  <2>4. InboxOK' /\ ErasingOK'
    <3>1. /\ DOMAIN inbox' = Nodes /\ \A m \in Nodes : inbox'[m] \subseteq inbox[m]
          /\ DOMAIN erasing' = Nodes /\ \A m \in Nodes : erasing'[m] \subseteq erasing[m]
      BY <1>0, <1>4 DEF Restart, InboxOK, ErasingOK
    <3>. QED BY <1>0, <3>1 DEF InboxOK, ErasingOK, PacketOK
  <2>. QED BY <2>1, <2>2, <2>3, <2>4 DEF TypeInv
<1>5. CASE UNCHANGED vars
  BY <1>0, <1>5, TypesUnchanged DEF vars, TypeInv
<1>. QED BY <1>1, <1>3, <1>4, <1>5, UserTypes, JobTypes, ReceiveTypes DEF Next

\* Every reachable state of MeshPackets is well typed; in particular no two devices
\* listen at one address, and no device lists itself, for any number of devices.
THEOREM TypeCorrect == Spec => []TypeOK
<1>. QED BY InitTypes, StepTypes, TypeInvImplies, PTL DEF Spec

-----------------------------------------------------------------------------
(* Who removes a device from a trust list *)

\* A Revocation names no target and is sealed with a mesh key of its sender's name, from
\* the job that sends it to the inbox it lies in.
Revokes(p) == p.type = "Revocation" =>
    p.target = NoNode /\ p.key.salt = MeshName[p.from]

RevokingJob(n, j) == j.op \in {"spread", "send"} /\ j.type = "Revocation" =>
    ~j.targeted /\ j.key.salt = MeshName[n]

InboxRevokes == \A n \in Nodes : \A p \in inbox[n] : Revokes(p)
JobsRevoke   == \A n \in Nodes : RevokingJob(n, job[n])

RevokeInv == InboxRevokes /\ JobsRevoke

LEMMA RevokeUnchanged ==
    /\ InboxRevokes /\ UNCHANGED inbox => InboxRevokes'
    /\ JobsRevoke /\ UNCHANGED job => JobsRevoke'
BY DEF InboxRevokes, JobsRevoke, Revokes, RevokingJob

LEMMA InboxShrinks ==
    ASSUME InboxRevokes, \A n \in Nodes : inbox'[n] \subseteq inbox[n]
    PROVE  InboxRevokes'
BY DEF InboxRevokes, Revokes

LEMMA DeliverRevokes ==
    ASSUME InboxOK, InboxRevokes, NEW a, NEW p, Deliver(a, p), Revokes(p)
    PROVE  InboxRevokes'
<1>1. \A n \in Nodes : inbox'[n] \subseteq inbox[n] \cup {p}
  BY DEF Deliver, InboxOK
<1>. QED BY <1>1 DEF InboxRevokes, Revokes

LEMMA JobReplaced ==
    ASSUME JobsOK, JobsRevoke, NEW n \in Nodes, NEW j, job' = [job EXCEPT ![n] = j],
           RevokingJob(n, j)
    PROVE  JobsRevoke'
<1>1. \A m \in Nodes : job'[m] = IF m = n THEN j ELSE job[m]
  BY DEF JobsOK
<1>. QED BY <1>1 DEF JobsRevoke, RevokingJob

LEMMA IdleRevokes == \A n : RevokingJob(n, Idle)
BY DEF RevokingJob, Idle

LEMMA SendingRevokes ==
    ASSUME JobsOK, JobsRevoke, NEW n \in Nodes, NEW op, NEW type, NEW key, NEW targeted,
           NEW todo, NEW about, NEW chosen,
           BeginSending(n, op, type, key, targeted, todo, about, chosen),
           type = "Revocation" => ~targeted /\ key.salt = MeshName[n]
    PROVE  JobsRevoke'
<1>. DEFINE j == [op |-> op, type |-> type, key |-> key, targeted |-> targeted,
                  todo |-> todo, about |-> about, chosen |-> chosen, session |-> ops + 1]
<1>1. job' = [job EXCEPT ![n] = j] /\ RevokingJob(n, j)
  BY DEF BeginSending, RevokingJob
<1>. HIDE DEF j
<1>. QED BY <1>1, JobReplaced

LEMMA InitRevokes == Init => RevokeInv
<1>. SUFFICES ASSUME Init PROVE RevokeInv
  OBVIOUS
<1>1. JobsRevoke
  BY IdleRevokes DEF Init, JobsRevoke
<1>2. InboxRevokes
  BY DEF Init, InboxRevokes
<1>. QED BY <1>1, <1>2 DEF RevokeInv

LEMMA UserRevokes ==
    ASSUME TypeInv, RevokeInv, NEW n \in Nodes, UserStep(n) PROVE RevokeInv'
<1>0. JobsOK /\ InboxOK /\ InboxRevokes /\ JobsRevoke
  BY DEF TypeInv, RevokeInv
<1>1. ASSUME NEW h \in Nodes, BeginJoin(n, h) PROVE RevokeInv'
  <2>. DEFINE j == [op |-> "store", host |-> h, at |-> addr[h],
                    secret |-> secret[h], session |-> ops + 1]
  <2>1. job' = [job EXCEPT ![n] = j] /\ UNCHANGED inbox
    BY <1>1 DEF BeginJoin
  <2>2. RevokingJob(n, j)
    BY DEF RevokingJob
  <2>. HIDE DEF j
  <2>. QED BY <1>0, <2>1, <2>2, JobReplaced, RevokeUnchanged DEF RevokeInv
<1>2. ASSUME NEW op, NEW type, NEW key, NEW targeted, NEW todo, NEW about, NEW chosen,
             BeginSending(n, op, type, key, targeted, todo, about, chosen),
             type = "Revocation" => ~targeted /\ key.salt = MeshName[n]
      PROVE  RevokeInv'
  <2>1. UNCHANGED inbox
    BY <1>2 DEF BeginSending
  <2>. QED BY <1>0, <1>2, <2>1, SendingRevokes, RevokeUnchanged DEF RevokeInv
<1>3. CASE BroadcastClipboard(n)
  BY <1>2, <1>3 DEF BroadcastClipboard
<1>4. ASSUME NEW d \in Nodes \cup {NoNode}, SendBrowserHandoff(n, d) PROVE RevokeInv'
  BY <1>2, <1>4 DEF SendBrowserHandoff
<1>5. ASSUME NEW d \in Nodes, RevokeDevice(n, d) PROVE RevokeInv'
  <2>1. MyMeshKey(n).salt = MeshName[n]
    BY DEF MyMeshKey, MeshKey
  <2>. QED BY <1>2, <1>5, <2>1 DEF RevokeDevice
<1>6. ASSUME NEW d \in Nodes, SendFile(n, d) PROVE RevokeInv'
  <2>. DEFINE p == Packet("FileStart", n, d, PeerKey(n, d, NoSession), ops + 1, NoNode, d)
  <2>1. Deliver(devices[n][d], p) /\ UNCHANGED job
    BY <1>6 DEF SendFile
  <2>2. Revokes(p)
    BY DEF Revokes, Packet
  <2>. HIDE DEF p
  <2>. QED BY <1>0, <2>1, <2>2, DeliverRevokes, RevokeUnchanged DEF RevokeInv
<1>. QED BY <1>1, <1>3, <1>4, <1>5, <1>6 DEF UserStep

LEMMA JobRevokes ==
    ASSUME TypeInv, RevokeInv, NEW n \in Nodes, JobStep(n) PROVE RevokeInv'
<1>0. JobsOK /\ InboxOK /\ InboxRevokes /\ JobsRevoke /\ RevokingJob(n, job[n])
  BY DEF TypeInv, RevokeInv, JobsRevoke
<1>1. ASSUME NEW j, job' = [job EXCEPT ![n] = j], RevokingJob(n, j), UNCHANGED inbox
      PROVE  RevokeInv'
  BY <1>0, <1>1, JobReplaced, RevokeUnchanged DEF RevokeInv
<1>2. CASE StoreHost(n)
  <2>. DEFINE j == [job[n] EXCEPT !.op = "adopt"]
  <2>1. job' = [job EXCEPT ![n] = j] /\ UNCHANGED inbox
    BY <1>2 DEF StoreHost
  <2>2. RevokingJob(n, j)
    <3>1. j.op = "adopt"
      BY <1>2 DEF StoreHost
    <3>. QED BY <3>1 DEF RevokingJob
  <2>. HIDE DEF j
  <2>. QED BY <1>1, <2>1, <2>2
<1>3. CASE AdoptSecret(n)
  <2>. DEFINE p == Packet("JoinAccept", n, job[n].host,
                          MeshKey(job[n].secret, MeshName[n]), job[n].session, NoNode, NoNode)
  <2>1. Deliver(job[n].at, p) /\ job' = [job EXCEPT ![n] = Idle]
    BY <1>3 DEF AdoptSecret
  <2>2. Revokes(p)
    BY DEF Revokes, Packet
  <2>. HIDE DEF p
  <2>. QED BY <1>0, <2>1, <2>2, DeliverRevokes, JobReplaced, IdleRevokes DEF RevokeInv
<1>4. CASE CopyList(n)
  <2>. DEFINE j == [job[n] EXCEPT !.op = "send", !.todo = devices[n]]
  <2>1. job' = [job EXCEPT ![n] = j] /\ UNCHANGED inbox
    BY <1>4 DEF CopyList
  <2>2. RevokingJob(n, j)
    BY <1>0, <1>4 DEF RevokingJob, CopyList
  <2>. HIDE DEF j
  <2>. QED BY <1>1, <2>1, <2>2
<1>5. CASE SendNext(n)
  <2>1. PICK d \in DOMAIN job[n].todo :
          /\ job[n].op = "send"
          /\ Deliver(job[n].todo[d],
                 Packet(job[n].type, n, IF job[n].targeted THEN d ELSE NoNode,
                        job[n].key, job[n].session, job[n].about, job[n].chosen))
          /\ job' = [job EXCEPT ![n].todo = Drop(@, d)]
    BY <1>5 DEF SendNext
  <2>. DEFINE p == Packet(job[n].type, n, IF job[n].targeted THEN d ELSE NoNode,
                          job[n].key, job[n].session, job[n].about, job[n].chosen)
              j == [job[n] EXCEPT !.todo = Drop(@, d)]
  <2>2. Revokes(p)
    BY <1>0, <2>1 DEF Revokes, Packet, RevokingJob
  <2>3. RevokingJob(n, j)
    BY <1>0, <2>1 DEF RevokingJob
  <2>4. job' = [job EXCEPT ![n] = j] /\ Deliver(job[n].todo[d], p)
    BY <2>1
  <2>. HIDE DEF p, j
  <2>. QED BY <1>0, <2>2, <2>3, <2>4, DeliverRevokes, JobReplaced DEF RevokeInv
<1>6. CASE EndSending(n)
  <2>. DEFINE j == [job[n] EXCEPT !.op = "forget"]
  <2>1. UNCHANGED inbox /\ (job' = [job EXCEPT ![n] = j] \/ job' = [job EXCEPT ![n] = Idle])
    BY <1>6 DEF EndSending
  <2>2. RevokingJob(n, j)
    <3>1. j.op = "forget"
      BY <1>6 DEF EndSending
    <3>. QED BY <3>1 DEF RevokingJob
  <2>. HIDE DEF j
  <2>. QED BY <1>1, <2>1, <2>2, IdleRevokes
<1>7. CASE ForgetRow(n)
  BY <1>1, <1>7, IdleRevokes DEF ForgetRow
<1>. QED BY <1>2, <1>3, <1>4, <1>5, <1>6, <1>7 DEF JobStep

LEMMA RevokeStep == TypeInv /\ RevokeInv /\ [Next]_vars => RevokeInv'
<1>. SUFFICES ASSUME TypeInv, RevokeInv, [Next]_vars PROVE RevokeInv'
  OBVIOUS
<1>0. JobsOK /\ InboxOK /\ InboxRevokes /\ JobsRevoke
  BY DEF TypeInv, RevokeInv
<1>1. ASSUME UNCHANGED job, \A m \in Nodes : inbox'[m] \subseteq inbox[m] PROVE RevokeInv'
  BY <1>0, <1>1, InboxShrinks, RevokeUnchanged DEF RevokeInv
<1>2. ASSUME NEW n \in Nodes, ReceiveStep(n) PROVE RevokeInv'
  <2>1. UNCHANGED job /\ (UNCHANGED inbox \/ \E p : Taken(n, p))
    BY <1>2 DEF ReceiveStep, Handle, Dispatch, Ignore, RemoveRow
  <2>2. \A m \in Nodes : inbox'[m] \subseteq inbox[m]
    BY <1>0, <2>1 DEF Taken, InboxOK
  <2>. QED BY <1>1, <2>1, <2>2
<1>3. ASSUME NEW n \in Nodes, NEW m \in Nodes, HearBeacon(n, m) PROVE RevokeInv'
  BY <1>1, <1>3 DEF HearBeacon
<1>4. ASSUME NEW n \in Nodes, NEW a \in Addresses, Move(n, a) PROVE RevokeInv'
  BY <1>1, <1>4 DEF Move
<1>5. ASSUME NEW n \in Nodes, NEW a \in Addresses, Restart(n, a) PROVE RevokeInv'
  <2>1. \A m \in Nodes : inbox'[m] \subseteq inbox[m]
    BY <1>0, <1>5 DEF Restart, InboxOK
  <2>2. JobsRevoke'
    BY <1>0, <1>5, JobReplaced, IdleRevokes DEF Restart
  <2>. QED BY <1>0, <2>1, <2>2, InboxShrinks DEF RevokeInv
<1>6. CASE UNCHANGED vars
  BY <1>1, <1>6 DEF vars
<1>. QED BY <1>2, <1>3, <1>4, <1>5, <1>6, UserRevokes, JobRevokes DEF Next

\* What justifies the removal of d from the list of n.
Justified(n, d) ==
    \/ job[n].op = "send" /\ job[n].type = "Revocation" /\ job[n].about = d
    \/ \E p \in inbox[n] : /\ p.type = "Revocation" /\ p.about = d
                            /\ p.key = MyMeshKey(n)
                            /\ MeshName[p.from] = MeshName[n]
    \/ \E a \in Addresses : Restart(n, a)

RemovalsJustified ==
    \A n \in Nodes : \A d \in DOMAIN devices[n] \ DOMAIN devices'[n] : Justified(n, d)

LEMMA RemovalStep == TypeInv /\ RevokeInv /\ [Next]_vars => RemovalsJustified
<1>. SUFFICES ASSUME TypeInv, RevokeInv, [Next]_vars,
                     NEW k \in Nodes, NEW d \in DOMAIN devices[k] \ DOMAIN devices'[k]
              PROVE  Justified(k, d)
  BY DEF RemovalsJustified
<1>0. BooksOK /\ InboxRevokes
  BY DEF TypeInv, RevokeInv
<1>1. \A n \in Nodes : \A m : Erase(n, m) => n = k /\ m = d
  BY <1>0 DEF Erase, BooksOK, Drop, Restrict
<1>2. ~UNCHANGED devices
  OBVIOUS
<1>3. \A n \in Nodes : \A m, a : devices' # [devices EXCEPT ![n] = Put(@, m, a)]
  BY <1>0 DEF BooksOK, Put
<1>4. ASSUME NEW n \in Nodes, UserStep(n) PROVE FALSE
  BY <1>2, <1>3, <1>4 DEF UserStep, BeginJoin, BroadcastClipboard, SendBrowserHandoff,
     RevokeDevice, SendFile, BeginSending
<1>5. ASSUME NEW n \in Nodes, JobStep(n) PROVE Justified(k, d)
  <2>1. EndSending(n)
    BY <1>2, <1>5 DEF JobStep, StoreHost, AdoptSecret, CopyList, SendNext, ForgetRow
  <2>2. job[n].op = "send" /\ job[n].type = "Revocation" /\ Erase(n, job[n].about)
    BY <1>2, <2>1 DEF EndSending
  <2>. QED BY <1>1, <2>2 DEF Justified
<1>6. ASSUME NEW n \in Nodes, ReceiveStep(n) PROVE Justified(k, d)
  <2>1. PICK p \in inbox[n] : Handle(n, p)
    BY <1>2, <1>6 DEF ReceiveStep, Ignore, RemoveRow
  <2>2. Readable(n, p) /\ p.type = "Revocation" /\ Erase(n, p.about)
    BY <1>2, <2>1 DEF Handle, Dispatch
  <2>3. n = k /\ p.about = d
    BY <1>1, <2>2
  <2>4. p.target = NoNode /\ p.key.salt = MeshName[p.from]
    BY <1>0, <2>2 DEF InboxRevokes, Revokes
  <2>5. p.key = MyMeshKey(n)
    BY <2>2, <2>4, NodesAssumption DEF Readable, DecryptionKey
  <2>6. MeshName[p.from] = MeshName[n]
    BY <2>4, <2>5 DEF MyMeshKey, MeshKey
  <2>. QED BY <2>2, <2>3, <2>5, <2>6 DEF Justified
<1>7. ASSUME NEW n \in Nodes, NEW a \in Addresses, Restart(n, a) PROVE Justified(k, d)
  <2>1. n = k
    BY <1>0, <1>7 DEF Restart, BooksOK
  <2>. QED BY <1>7, <2>1 DEF Justified
<1>8. ASSUME NEW n \in Nodes, NEW m \in Nodes, HearBeacon(n, m) PROVE Justified(k, d)
  BY <1>3, <1>8 DEF HearBeacon
<1>9. ASSUME NEW n \in Nodes, NEW a \in Addresses, Move(n, a) PROVE Justified(k, d)
  BY <1>2, <1>9 DEF Move
<1>10. CASE UNCHANGED vars
  BY <1>2, <1>10 DEF vars
<1>. QED BY <1>4, <1>5, <1>6, <1>7, <1>8, <1>9, <1>10 DEF Next

\* While a device runs, another leaves its trust list by a revocation of its own mesh
\* only: mesh_engine.cpp:377-409 and 562-577, whatever joins, moves, failed writes and
\* restarts happen around it.
THEOREM OnlyMembersRevokeHolds == Spec => OnlyMembersRevoke
<1>1. Init => TypeInv /\ RevokeInv
  BY InitTypes, InitRevokes
<1>2. TypeInv /\ RevokeInv /\ [Next]_vars => (TypeInv /\ RevokeInv)'
  BY StepTypes, RevokeStep
<1>3. OnlyMembersRevoke <=> [][RemovalsJustified]_vars
  BY DEF OnlyMembersRevoke, RemovalsJustified, Justified
<1>. QED BY <1>1, <1>2, <1>3, RemovalStep, PTL DEF Spec
=============================================================================
