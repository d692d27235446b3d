------------------------- MODULE FileTransferProofs -------------------------
(* Theorems about FileTransfer, for every set of transfers, every number of *)
(* chunks and every mode, with their proofs.                                *)
EXTENDS FileTransfer, TLAPS

USE DEF ConnStates, recvVars

LEMMA LastFacts ==
    ASSUME NEW f \in Files
    PROVE  /\ Last(f) \in Nat /\ Last(f) >= 1 /\ 0 \in 0..Last(f)
           /\ Last(f) \in 0..Last(f)
           /\ \A i \in Data(f) : i \in Nat /\ 0 < i /\ i < Last(f) /\ i \in 0..Last(f)
BY ChunksAssumption DEF Last, Data

LEMMA PacketFacts ==
    /\ \A f \in Files : \A i \in 0..Last(f) : <<f, i>> \in Packets
    /\ \A p \in Packets : p[1] \in Files /\ p[2] \in 0..Last(p[1]) /\ p = <<p[1], p[2]>>
<1>1. ASSUME NEW f \in Files, NEW i \in 0..Last(f) PROVE <<f, i>> \in Packets
  <2>1. <<f, i>> \in {f} \X (0..Last(f))
    OBVIOUS
  <2>. QED BY <2>1 DEF Packets
<1>2. ASSUME NEW p \in Packets
      PROVE  p[1] \in Files /\ p[2] \in 0..Last(p[1]) /\ p = <<p[1], p[2]>>
  <2>1. PICK f \in Files : p \in {f} \X (0..Last(f))
    BY DEF Packets
  <2>. QED BY <2>1
<1>. QED BY <1>1, <1>2

LEMMA PathFacts ==
    \A f \in Files : <<NameOf[f], "plain">> \in Paths /\ <<NameOf[f], "suffixed">> \in Paths
BY DEF Paths, Names

LEMMA StepFacts ==
    ASSUME TypeOK, NEW f \in Files
    PROVE  /\ step[f] \in Nat /\ Last(f) \in Nat /\ step[f] <= Last(f)
           /\ step[f] # Last(f) =>
                 step[f] < Last(f) /\ step[f] + 1 \in Nat /\ step[f] + 1 <= Last(f)
<1>1. step[f] \in Nat /\ Last(f) \in Nat /\ step[f] <= Last(f)
  BY LastFacts DEF TypeOK
<1>. QED BY <1>1

-----------------------------------------------------------------------------
(* Type correctness *)

LEMMA InitType == Init => TypeOK
<1>. SUFFICES ASSUME Init PROVE TypeOK
  OBVIOUS
<1>1. dest \in [Files -> Paths]
  BY PathFacts DEF Init
<1>2. disk \in [Paths -> [owner : Files \cup {NoFile}, chunks : SUBSET Nat]]
  BY DEF Init
<1>3. step \in [Files -> Nat] /\ \A f \in Files : step[f] <= Last(f)
  BY LastFacts DEF Init
<1>. QED BY <1>1, <1>2, <1>3 DEF Init, TypeOK

LEMMA SenderType ==
    ASSUME TypeOK, NEW f \in Files, SenderStep(f)
    PROVE  TypeOK'
<1>. USE LastFacts, PacketFacts DEF TypeOK, tempVars, endVars
<1>1. CASE BeginSend(f)
  BY <1>1 DEF BeginSend
<1>2. CASE RefuseSend(f)
  BY <1>2 DEF RefuseSend
<1>3. CASE SendPacket(f)
  BY <1>3 DEF SendPacket
<1>4. CASE AckArrives(f)
  <2>1. CASE step[f] = Last(f)
    BY <1>4, <2>1 DEF AckArrives, Advance
  <2>2. CASE step[f] # Last(f)
    <3>1. step[f] + 1 \in Nat /\ step[f] + 1 <= Last(f)
      BY <2>2, StepFacts
    <3>2. sender' = [sender EXCEPT ![f] = "sending"] /\ step' = [step EXCEPT ![f] = @ + 1]
      BY <1>4, <2>2 DEF AckArrives, Advance
    <3>. QED BY <1>4, <3>1, <3>2 DEF AckArrives
  <2>. QED BY <2>1, <2>2
<1>5. CASE ConnectFails(f)
  BY <1>5 DEF ConnectFails, GiveUp
<1>6. CASE AckTimesOut(f)
  BY <1>6 DEF AckTimesOut, GiveUp
<1>. QED BY <1>1, <1>2, <1>3, <1>4, <1>5, <1>6, SenderStep(f) DEF SenderStep, SendingStep

LEMMA ReceiverType ==
    ASSUME TypeOK, NEW f \in Files,
           StartStep(f) \/ \E i \in Data(f) : ChunkStep(f, i)
    PROVE  TypeOK'
<1>. USE DEF TypeOK, tempVars, endVars, senderVars, Go
<1>1. CASE PreAllocate(f)
  BY <1>1 DEF PreAllocate
<1>2. CASE InsertInFlight(f)
  BY <1>2 DEF InsertInFlight
<1>3. ASSUME NEW i \in Data(f), ChunkStep(f, i) PROVE TypeOK'
  <2>0. i \in Nat
    BY LastFacts
  <2>1. CASE FindReceive(f, i)
    BY <2>1 DEF FindReceive
  <2>2. CASE WriteChunk(f, i)
    <3>1. handle' \in [Packets -> {"none", "buffered", "flushed"}]
      BY <2>2 DEF WriteChunk
    <3>2. written' \in [Files -> SUBSET Nat]
      BY <2>0, <2>2 DEF WriteChunk
    <3>3. conn' \in [Packets -> ConnStates]
      BY <2>2 DEF WriteChunk
    <3>. QED BY <2>2, <3>1, <3>2, <3>3 DEF WriteChunk
  <2>3. CASE MarkReceived(f, i)
    BY <2>0, <2>3 DEF MarkReceived
  <2>4. CASE CloseStream(f, i)
    <3>1. handle' \in [Packets -> {"none", "buffered", "flushed"}]
      BY <2>4 DEF CloseStream
    <3>2. written' \in [Files -> SUBSET Nat]
      BY <2>0, <2>4 DEF CloseStream
    <3>3. conn' \in [Packets -> ConnStates]
      BY <2>4 DEF CloseStream
    <3>. QED BY <2>4, <3>1, <3>2, <3>3 DEF CloseStream
  <2>. QED BY <1>3, <2>1, <2>2, <2>3, <2>4 DEF ChunkStep
<1>. QED BY <1>1, <1>2, <1>3 DEF StartStep

LEMMA LandType ==
    ASSUME TypeOK, NEW f \in Files, NEW chunks \in SUBSET Nat, Land(f, chunks)
    PROVE  disk' \in [Paths -> [owner : Files \cup {NoFile}, chunks : SUBSET Nat]]
BY DEF Land, TypeOK

LEMMA PlaceType ==
    ASSUME TypeOK, NEW f \in Files, PlaceStep(f)
    PROVE  TypeOK'
<1>. USE LandType DEF TypeOK, tempVars, endVars, senderVars, Go
<1>1. CASE RenameToDestination(f)
  BY <1>1 DEF RenameToDestination
<1>2. CASE RenameThrows(f) \/ CopyRefused(f) \/ RemoveThrows(f)
  BY <1>2 DEF RenameThrows, CopyRefused, RemoveThrows
<1>3. CASE BeginCopy(f)
  BY <1>3 DEF BeginCopy
<1>4. CASE FinishCopy(f)
  BY <1>4 DEF FinishCopy
<1>5. CASE CopyBreaksOff(f)
  <2>1. disk' \in [Paths -> [owner : Files \cup {NoFile}, chunks : SUBSET Nat]]
    BY <1>5 DEF CopyBreaksOff
  <2>. QED BY <1>5, <2>1 DEF CopyBreaksOff
<1>6. CASE RemoveTemp(f)
  BY <1>6 DEF RemoveTemp
<1>. QED BY <1>1, <1>2, <1>3, <1>4, <1>5, <1>6 DEF PlaceStep

LEMMA CompleteType ==
    ASSUME TypeOK, NEW f \in Files, CompleteStep(f)
    PROVE  TypeOK'
<1>. USE DEF TypeOK, tempVars, endVars, senderVars, Go
<1>1. CASE ClaimReceive(f)
  BY <1>1 DEF ClaimReceive
<1>2. CASE CheckCount(f)
  BY <1>2 DEF CheckCount
<1>3. CASE CheckHash(f)
  BY <1>3 DEF CheckHash
<1>4. CASE Discard(f)
  BY <1>4 DEF Discard
<1>5. CASE ChooseDestination(f)
  BY <1>5, PathFacts DEF ChooseDestination
<1>6. CASE ChooseThrows(f)
  BY <1>6 DEF ChooseThrows
<1>7. CASE PlaceStep(f)
  BY <1>7, PlaceType
<1>8. CASE Report(f)
  BY <1>8 DEF Report
<1>. QED BY <1>1, <1>2, <1>3, <1>4, <1>5, <1>6, <1>7, <1>8 DEF CompleteStep

LEMMA OtherType ==
    ASSUME TypeOK, (\E p \in Packets : ConnectionStep(p)) \/ Restart
    PROVE  TypeOK'
<1>. USE DEF TypeOK, tempVars, endVars, senderVars, Go
<1>1. ASSUME NEW p \in Packets, ConnectionStep(p) PROVE TypeOK'
  BY <1>1 DEF ConnectionStep, LosePacket, Acknowledge, AcknowledgeThrows
<1>2. CASE Restart
  BY <1>2, ModeAssumption DEF Restart
<1>. QED BY <1>1, <1>2

LEMMA NextType == TypeOK /\ [Next]_vars => TypeOK'
<1>. SUFFICES ASSUME TypeOK, [Next]_vars PROVE TypeOK'
  OBVIOUS
<1>1. CASE Next
  BY <1>1, SenderType, ReceiverType, CompleteType, OtherType DEF Next
<1>2. CASE UNCHANGED vars
  BY <1>2 DEF vars, TypeOK
<1>. QED BY <1>1, <1>2

\* Every reachable state is well typed, and send_file never steps beyond its
\* FILE_COMPLETE.
THEOREM TypeCorrect == Spec => []TypeOK
<1>. QED BY InitType, NextType, PTL DEF Spec

-----------------------------------------------------------------------------
(* Safety.  The inductive invariant: packets are handed over one after the  *)
(* other, FILE_START is done before anybody finds or takes its entry, and   *)
(* the temp file is complete from the hash check on.                        *)

Unsent(f, i) ==
    i > step[f] \/ (i = step[f] /\ sender[f] \in {"idle", "sending"})

OrderInv == \A f \in Files :
    /\ sender[f] = "idle" => step[f] = 0
    /\ sender[f] = "false" => step[f] < Last(f)
    /\ \A i \in 0..Last(f) : Unsent(f, i) => conn[<<f, i>>] = "unsent"

EntryInv == \A f \in Files :
    f \in inFlight \/ Claimed(f) \/ record[f] # "none" => conn[<<f, 0>>] = "closed"

RecordInv == \A f \in Files :
    record[f] # "none" => conn[<<f, Last(f)>>] = "closed"

\* The count and the hash were right, and the temp file is still there.
Checked(f) ==
    conn[<<f, Last(f)>>] \in {"verified", "placing", "fallback", "copying", "copied"}

PlaceInv == \A f \in Files :
    /\ written[f] \subseteq Data(f)
    /\ Checked(f) /\ hashed[f] => f \in tempFiles /\ written[f] = Data(f)

\* The handler of FILE_COMPLETE has begun to fill its destination, and may be gone.
Landed(f) ==
    conn[<<f, Last(f)>>] \in {"copying", "copied", "moved", "kept", "unplaced", "closed"}

\* The copy in the downloads directory is made, or the only one.
Whole(f) == conn[<<f, Last(f)>>] = "copied" \/ f \notin tempFiles

DiskInv == \A path \in Paths : \A f \in Files :
    disk[path].owner = f
        => /\ path = dest[f] /\ Landed(f)
           /\ hashed[f] /\ Whole(f) => disk[path].chunks = Data(f)

IInv == TypeOK /\ OrderInv /\ EntryInv /\ RecordInv /\ PlaceInv /\ DiskInv

LEMMA Moved ==
    ASSUME TypeOK, NEW f \in Files, NEW i \in 0..Last(f), NEW from, NEW to,
           Go(<<f, i>>, from, to)
    PROVE  /\ conn[<<f, i>>] = from /\ conn'[<<f, i>>] = to
           /\ \A g \in Files : \A j \in 0..Last(g) :
                 g # f \/ j # i => conn'[<<g, j>>] = conn[<<g, j>>]
<1>1. <<f, i>> \in Packets
  BY PacketFacts
<1>2. ASSUME NEW g \in Files, NEW j \in 0..Last(g), g # f \/ j # i
      PROVE  <<g, j>> \in Packets /\ <<g, j>> # <<f, i>>
  BY <1>2, PacketFacts
<1>. QED BY <1>1, <1>2 DEF Go, TypeOK

LEMMA InitSafe == Init => IInv
<1>. SUFFICES ASSUME Init PROVE IInv
  OBVIOUS
<1>1. OrderInv
  BY LastFacts, PacketFacts DEF Init, OrderInv
<1>2. EntryInv /\ RecordInv
  BY LastFacts, PacketFacts DEF Init, EntryInv, RecordInv, Claimed
<1>3. PlaceInv
  BY LastFacts, PacketFacts DEF Init, PlaceInv, Checked
<1>4. DiskInv
  BY NoFileAssumption DEF Init, DiskInv, Landed, Whole
<1>. QED BY <1>1, <1>2, <1>3, <1>4, InitType DEF IInv

LEMMA SenderSafe ==
    ASSUME IInv, NEW f \in Files, SenderStep(f)
    PROVE  IInv'
<1>. USE LastFacts DEF tempVars, endVars
<1>0. TypeOK /\ TypeOK'
  BY SenderType DEF IInv
<1>1. CASE BeginSend(f)
  <2>1. hashed' \in [Files -> BOOLEAN] /\ \A g \in Files : g # f => hashed'[g] = hashed[g]
    BY <1>0, <1>1 DEF BeginSend, TypeOK
  <2>2. conn[<<f, Last(f)>>] = "unsent" /\ record[f] = "none"
    BY <1>0, <1>1 DEF BeginSend, IInv, OrderInv, Unsent, RecordInv, TypeOK
  <2>3. OrderInv'
    BY <1>0, <1>1 DEF BeginSend, IInv, OrderInv, Unsent, TypeOK
  <2>4. EntryInv' /\ RecordInv'
    BY <1>1 DEF BeginSend, IInv, EntryInv, RecordInv, Claimed
  <2>5. PlaceInv'
    BY <1>1, <2>1, <2>2 DEF BeginSend, IInv, PlaceInv, Checked
  <2>6. DiskInv'
    BY <1>1, <2>1, <2>2 DEF BeginSend, IInv, DiskInv, Landed, Whole
  <2>. QED BY <1>0, <2>3, <2>4, <2>5, <2>6 DEF IInv
<1>2. CASE SendPacket(f)
  <2>1. step[f] \in 0..Last(f)
    BY <1>0 DEF TypeOK
  <2>2. Go(<<f, step[f]>>, "unsent", "wire")
    BY <1>2, <2>1 DEF SendPacket, Go, IInv, OrderInv, Unsent
  <2>3. /\ conn[<<f, step[f]>>] = "unsent" /\ conn'[<<f, step[f]>>] = "wire"
        /\ \A g \in Files : \A j \in 0..Last(g) :
              g # f \/ j # step[f] => conn'[<<g, j>>] = conn[<<g, j>>]
    BY <1>0, <2>1, <2>2, Moved
  <2>4. OrderInv'
    BY <1>0, <1>2, <2>3 DEF SendPacket, IInv, OrderInv, Unsent, TypeOK
  <2>5. EntryInv'
    BY <1>2, <2>3 DEF SendPacket, IInv, EntryInv, Claimed
  <2>6. RecordInv' /\ PlaceInv'
    BY <1>2, <2>3 DEF SendPacket, IInv, RecordInv, PlaceInv, Checked
  <2>7. DiskInv'
    BY <1>2, <2>3 DEF SendPacket, IInv, DiskInv, Landed, Whole
  <2>. QED BY <1>0, <2>4, <2>5, <2>6, <2>7 DEF IInv
<1>3. ASSUME UNCHANGED <<hashed, conn, inFlight, tempVars, endVars>>, OrderInv'
      PROVE  IInv'
  BY <1>0, <1>3 DEF IInv, EntryInv, Claimed, RecordInv, PlaceInv, Checked, DiskInv, Landed, Whole
<1>4. CASE RefuseSend(f)
  <2>1. OrderInv'
    BY <1>0, <1>4 DEF RefuseSend, IInv, OrderInv, Unsent, TypeOK
  <2>. QED BY <1>3, <1>4, <2>1 DEF RefuseSend
<1>5. CASE AckArrives(f)
  <2>1. OrderInv'
    BY <1>0, <1>5 DEF AckArrives, Advance, IInv, OrderInv, Unsent, TypeOK
  <2>. QED BY <1>3, <1>5, <2>1 DEF AckArrives
<1>6. ASSUME GiveUp(f), sender[f] \notin {"idle"}, conn' = conn PROVE OrderInv'
  <2>1. step[f] \in Nat /\ Last(f) \in Nat /\ (step[f] # Last(f) => step[f] < Last(f))
    BY <1>0, StepFacts
  <2>2. ASSUME NEW g \in Files
        PROVE  /\ sender'[g] = "idle" => step'[g] = 0
               /\ sender'[g] = "false" => step'[g] < Last(g)
    BY <1>0, <1>6, <2>1, <2>2 DEF GiveUp, IInv, OrderInv, TypeOK
  <2>3. ASSUME NEW g \in Files, NEW i \in 0..Last(g), Unsent(g, i)'
        PROVE  conn'[<<g, i>>] = "unsent"
    BY <1>0, <1>6, <2>3 DEF GiveUp, IInv, OrderInv, Unsent, TypeOK
  <2>. QED BY <2>2, <2>3 DEF OrderInv
<1>7. CASE ConnectFails(f)
  BY <1>3, <1>6, <1>7 DEF ConnectFails
<1>8. CASE AckTimesOut(f)
  BY <1>3, <1>6, <1>8 DEF AckTimesOut
<1>. QED BY <1>1, <1>2, <1>4, <1>5, <1>7, <1>8 DEF SenderStep, SendingStep

\* What a step of a connection thread must show: the sender's variables stand
\* still and only packets that were already sent move.
LEMMA OrderKept ==
    ASSUME IInv, UNCHANGED <<sender, step>>,
           \A f \in Files : \A i \in 0..Last(f) :
               conn[<<f, i>>] = "unsent" => conn'[<<f, i>>] = "unsent"
    PROVE  OrderInv'
BY DEF IInv, OrderInv, Unsent

LEMMA StartSafe ==
    ASSUME IInv, NEW f \in Files, StartStep(f)
    PROVE  IInv'
<1>. USE LastFacts DEF tempVars, endVars, senderVars
<1>0. TypeOK /\ TypeOK'
  BY ReceiverType DEF IInv
<1>1. CASE PreAllocate(f)
  <2>1. /\ conn[<<f, 0>>] = "acked" /\ conn'[<<f, 0>>] = "allocated"
        /\ \A g \in Files : \A j \in 0..Last(g) :
              g # f \/ j # 0 => conn'[<<g, j>>] = conn[<<g, j>>]
    BY <1>0, <1>1, Moved DEF PreAllocate
  <2>2. f \notin inFlight /\ ~Claimed(f) /\ record[f] = "none"
    BY <2>1 DEF IInv, EntryInv
  <2>3. OrderInv'
    BY <1>1, <2>1, OrderKept DEF PreAllocate
  <2>4. EntryInv' /\ RecordInv'
    BY <1>1, <2>1, <2>2 DEF PreAllocate, IInv, EntryInv, RecordInv, Claimed
  <2>5. PlaceInv'
    <3>1. \A g \in Files : conn'[<<g, Last(g)>>] = conn[<<g, Last(g)>>]
      BY <2>1
    <3>2. \A g \in Files : g # f =>
              written'[g] = written[g] /\ (g \in tempFiles => g \in tempFiles')
      BY <1>0, <1>1 DEF PreAllocate, TypeOK
    <3>3. written'[f] \subseteq written[f]
      BY <1>0, <1>1 DEF PreAllocate, TypeOK
    <3>4. conn[<<f, Last(f)>>] \notin
              {"verified", "placing", "fallback", "copying", "copied"}
      BY <2>2 DEF Claimed
    <3>5. hashed' = hashed
      BY <1>1 DEF PreAllocate
    <3>. QED BY <3>1, <3>2, <3>3, <3>4, <3>5 DEF IInv, PlaceInv, Checked
  <2>6. DiskInv'
    <3>1. \A g \in Files : conn'[<<g, Last(g)>>] = conn[<<g, Last(g)>>]
      BY <2>1
    <3>2. \A g \in Files : g \notin tempFiles' => g \notin tempFiles
      BY <1>1 DEF PreAllocate
    <3>3. UNCHANGED <<hashed, dest, disk>>
      BY <1>1 DEF PreAllocate
    <3>. QED BY <3>1, <3>2, <3>3 DEF IInv, DiskInv, Landed, Whole
  <2>. QED BY <1>0, <2>3, <2>4, <2>5, <2>6 DEF IInv
<1>2. CASE InsertInFlight(f)
  <2>1. /\ conn[<<f, 0>>] = "allocated" /\ conn'[<<f, 0>>] = "closed"
        /\ \A g \in Files : \A j \in 0..Last(g) :
              g # f \/ j # 0 => conn'[<<g, j>>] = conn[<<g, j>>]
    BY <1>0, <1>2, Moved DEF InsertInFlight
  <2>2. OrderInv'
    BY <1>2, <2>1, OrderKept DEF InsertInFlight
  <2>3. EntryInv' /\ RecordInv'
    BY <1>2, <2>1 DEF InsertInFlight, IInv, EntryInv, RecordInv, Claimed
  <2>4. PlaceInv' /\ DiskInv'
    BY <1>2, <2>1 DEF InsertInFlight, IInv, PlaceInv, Checked, DiskInv, Landed, Whole
  <2>. QED BY <1>0, <2>2, <2>3, <2>4 DEF IInv
<1>. QED BY <1>1, <1>2 DEF StartStep

LEMMA ChunkSafe ==
    ASSUME IInv, NEW f \in Files, NEW i \in Data(f), ChunkStep(f, i)
    PROVE  IInv'
<1>. USE LastFacts DEF tempVars, endVars, senderVars
<1>0. TypeOK /\ TypeOK'
  BY ReceiverType DEF IInv
<1>1. ASSUME NEW from \in ConnStates \ {"unsent"}, NEW to, Go(<<f, i>>, from, to)
      PROVE  /\ \A g \in Files : conn'[<<g, 0>>] = conn[<<g, 0>>]
             /\ \A g \in Files : conn'[<<g, Last(g)>>] = conn[<<g, Last(g)>>]
             /\ \A g \in Files : \A j \in 0..Last(g) :
                   conn[<<g, j>>] = "unsent" => conn'[<<g, j>>] = "unsent"
  <2>1. i \in 0..Last(f) /\ i # 0 /\ i # Last(f)
    OBVIOUS
  <2>2. /\ conn[<<f, i>>] = from
        /\ \A g \in Files : \A j \in 0..Last(g) :
              g # f \/ j # i => conn'[<<g, j>>] = conn[<<g, j>>]
    BY <1>0, <1>1, <2>1, Moved
  <2>. QED BY <2>1, <2>2
<1>2. PICK from \in ConnStates \ {"unsent"}, to \in ConnStates : Go(<<f, i>>, from, to)
  BY DEF ChunkStep, FindReceive, WriteChunk, MarkReceived, CloseStream, Go
<1>3. UNCHANGED <<senderVars, inFlight, tempFiles, endVars>>
  BY DEF ChunkStep, FindReceive, WriteChunk, MarkReceived, CloseStream
<1>4. written' = written \/ written' = [written EXCEPT ![f] = @ \cup {i}]
  BY DEF ChunkStep, FindReceive, WriteChunk, MarkReceived, CloseStream
<1>5. OrderInv'
  BY <1>1, <1>2, <1>3, OrderKept
<1>6. EntryInv' /\ RecordInv'
  BY <1>1, <1>2, <1>3 DEF IInv, EntryInv, RecordInv, Claimed
<1>7. PlaceInv'
  <2>1. \A g \in Files : conn'[<<g, Last(g)>>] = conn[<<g, Last(g)>>]
    BY <1>1, <1>2
  <2>2. \A g \in Files : written'[g] = written[g] \/ (g = f /\ written'[g] = written[g] \cup {i})
    BY <1>0, <1>4 DEF TypeOK
  <2>. QED BY <1>3, <2>1, <2>2 DEF IInv, PlaceInv, Checked
<1>8. DiskInv'
  <2>1. \A g \in Files : conn'[<<g, Last(g)>>] = conn[<<g, Last(g)>>]
    BY <1>1, <1>2
  <2>. QED BY <1>3, <2>1 DEF IInv, DiskInv, Landed, Whole
<1>. QED BY <1>0, <1>5, <1>6, <1>7, <1>8 DEF IInv

\* Every action of handle_file_complete moves FILE_COMPLETE only.
LEMMA CompleteMoves ==
    ASSUME IInv, NEW f \in Files, CompleteStep(f)
    PROVE  /\ conn[<<f, Last(f)>>] = "acked" \/ Claimed(f)
           /\ \A g \in Files : conn'[<<g, 0>>] = conn[<<g, 0>>]
           /\ \A g \in Files : g # f => conn'[<<g, Last(g)>>] = conn[<<g, Last(g)>>]
           /\ OrderInv'
<1>. DEFINE C == {"acked", "claimed", "counted", "incomplete", "corrupt", "verified",
                  "placing", "fallback", "copying", "copied", "moved", "kept", "unplaced"}
<1>0. TypeOK
  BY DEF IInv
<1>1. PICK from \in C, to \in ConnStates : Go(<<f, Last(f)>>, from, to)
  BY DEF CompleteStep, ClaimReceive, CheckCount, CheckHash, Discard, ChooseDestination,
         ChooseThrows,
         PlaceStep, RenameToDestination, RenameThrows, BeginCopy, CopyRefused, FinishCopy,
         CopyBreaksOff, RemoveTemp, RemoveThrows, Report, Go
<1>2. UNCHANGED <<sender, step>>
  BY DEF CompleteStep, ClaimReceive, CheckCount, CheckHash, Discard, ChooseDestination,
         ChooseThrows,
         PlaceStep, RenameToDestination, RenameThrows, BeginCopy, CopyRefused, FinishCopy,
         CopyBreaksOff, RemoveTemp, RemoveThrows, Report, senderVars
<1>3. /\ conn[<<f, Last(f)>>] = from
      /\ \A g \in Files : \A j \in 0..Last(g) :
            g # f \/ j # Last(f) => conn'[<<g, j>>] = conn[<<g, j>>]
  BY <1>0, <1>1, LastFacts, Moved
<1>4. from # "unsent"
  OBVIOUS
<1>5. OrderInv'
  BY <1>2, <1>3, <1>4, OrderKept
<1>6. \A g \in Files : conn'[<<g, 0>>] = conn[<<g, 0>>]
  BY <1>3, LastFacts
<1>7. \A g \in Files : g # f => conn'[<<g, Last(g)>>] = conn[<<g, Last(g)>>]
  BY <1>3, LastFacts
<1>. QED BY <1>3, <1>5, <1>6, <1>7 DEF Claimed

\* The checks before the file is placed.
LEMMA ChecksSafe ==
    ASSUME IInv, NEW f \in Files,
           \/ ClaimReceive(f) \/ CheckCount(f) \/ CheckHash(f)
           \/ ChooseDestination(f) \/ ChooseThrows(f)
    PROVE  IInv'
<1>0. TypeOK /\ TypeOK'
  BY CompleteType DEF IInv, CompleteStep
<1>1. /\ conn[<<f, Last(f)>>] # "closed"
      /\ \A g \in Files : conn'[<<g, 0>>] = conn[<<g, 0>>]
      /\ \A g \in Files : g # f => conn'[<<g, Last(g)>>] = conn[<<g, Last(g)>>]
      /\ OrderInv'
  BY CompleteMoves DEF CompleteStep, Claimed
<1>2. UNCHANGED <<hashed, tempFiles, written, disk, record>>
  BY DEF ClaimReceive, CheckCount, CheckHash, ChooseDestination, ChooseThrows, senderVars,
         tempVars, endVars
<1>3. inFlight' \subseteq inFlight
  BY DEF ClaimReceive, CheckCount, CheckHash, ChooseDestination, ChooseThrows
<1>4. f \in inFlight \/ Claimed(f) \/ conn'[<<f, Last(f)>>] = "closed"
  <2>1. <<f, Last(f)>> \in Packets
    BY LastFacts, PacketFacts
  <2>2. CASE ClaimReceive(f)
    BY <1>0, <2>1, <2>2 DEF ClaimReceive, Go, TypeOK
  <2>3. CASE CheckCount(f) \/ CheckHash(f) \/ ChooseDestination(f) \/ ChooseThrows(f)
    BY <2>3 DEF CheckCount, CheckHash, ChooseDestination, ChooseThrows, Go, Claimed
  <2>. QED BY <2>2, <2>3
<1>5. Checked(f)' /\ hashed[f]
        => \/ conn[<<f, Last(f)>>] = "verified"
           \/ f \in tempFiles /\ written[f] = Data(f)
  <2>1. <<f, Last(f)>> \in Packets
    BY LastFacts, PacketFacts
  <2>2. CASE ClaimReceive(f)
    BY <1>0, <2>1, <2>2 DEF ClaimReceive, Go, TypeOK, Checked
  <2>3. CASE CheckCount(f)
    BY <1>0, <2>1, <2>3 DEF CheckCount, Go, TypeOK, Checked
  <2>4. CASE CheckHash(f)
    BY <1>0, <2>1, <2>4 DEF CheckHash, HashMatches, Go, TypeOK, Checked
  <2>5. CASE ChooseDestination(f)
    BY <2>5 DEF ChooseDestination, Go, Checked
  <2>6. CASE ChooseThrows(f)
    BY <1>0, <2>1, <2>6 DEF ChooseThrows, Go, TypeOK, Checked
  <2>. QED BY <2>2, <2>3, <2>4, <2>5, <2>6
<1>6. record[f] = "none"
  BY <1>1 DEF IInv, RecordInv, TypeOK
<1>7. EntryInv'
  BY <1>1, <1>2, <1>3, <1>4, <1>6 DEF IInv, EntryInv, Claimed
<1>8. RecordInv'
  BY <1>1, <1>2, <1>6 DEF IInv, RecordInv
<1>9. PlaceInv'
  BY <1>1, <1>2, <1>5 DEF IInv, PlaceInv, Checked
<1>10. DiskInv'
  <2>1. ~Landed(f)
    BY DEF Landed, ClaimReceive, CheckCount, CheckHash, ChooseDestination, ChooseThrows, Go
  <2>2. \A path \in Paths : disk[path].owner # f
    BY <2>1 DEF IInv, DiskInv, Landed
  <2>3. \A g \in Files : g # f => dest'[g] = dest[g]
    BY <1>0 DEF ClaimReceive, CheckCount, CheckHash, ChooseDestination, ChooseThrows, endVars,
           TypeOK
  <2>. QED BY <1>1, <1>2, <2>2, <2>3 DEF IInv, DiskInv, Landed, Whole
<1>. QED BY <1>0, <1>1, <1>7, <1>8, <1>9, <1>10 DEF IInv

\* The actions that tell of the outcome.
LEMMA EndsSafe ==
    ASSUME IInv, NEW f \in Files, Discard(f) \/ Report(f)
    PROVE  IInv'
<1>0. TypeOK /\ TypeOK' /\ <<f, Last(f)>> \in Packets
  BY CompleteType, LastFacts, PacketFacts DEF IInv, CompleteStep
<1>1. /\ \A g \in Files : conn'[<<g, 0>>] = conn[<<g, 0>>]
      /\ \A g \in Files : g # f => conn'[<<g, Last(g)>>] = conn[<<g, Last(g)>>]
      /\ OrderInv'
  BY CompleteMoves DEF CompleteStep
<1>2. UNCHANGED <<hashed, inFlight, written, dest, disk>>
  BY DEF Discard, Report, senderVars, tempVars, endVars
<1>3. Claimed(f) /\ conn'[<<f, Last(f)>>] = "closed"
  BY <1>0 DEF Discard, Report, Claimed, TypeOK
<1>4. /\ \A g \in Files : g # f => record'[g] = record[g]
      /\ \A g \in Files : g # f => (g \in tempFiles <=> g \in tempFiles')
  BY <1>0 DEF Discard, Report, tempVars, TypeOK
<1>5. EntryInv'
  BY <1>1, <1>2, <1>3, <1>4 DEF IInv, EntryInv, Claimed
<1>6. RecordInv'
  BY <1>1, <1>3, <1>4 DEF IInv, RecordInv
<1>7. PlaceInv'
  BY <1>1, <1>2, <1>3, <1>4 DEF IInv, PlaceInv, Checked
<1>8. DiskInv'
  <2>1. ASSUME NEW path \in Paths, disk[path].owner = f
        PROVE  tempFiles' = tempFiles
    BY <2>1 DEF Discard, Report, tempVars, IInv, DiskInv, Landed
  <2>. QED BY <1>1, <1>2, <1>3, <1>4, <2>1 DEF IInv, DiskInv, Landed, Whole
<1>. QED BY <1>0, <1>1, <1>5, <1>6, <1>7, <1>8 DEF IInv

\* What a step of rename, copy or remove leaves alone.
LEMMA PlaceMoves ==
    ASSUME IInv, NEW f \in Files, PlaceStep(f)
    PROVE  /\ UNCHANGED <<hashed, inFlight, written, dest, record>>
           /\ Claimed(f) /\ Claimed(f)' /\ conn[<<f, Last(f)>>] # "closed"
           /\ \A g \in Files : g # f => (g \in tempFiles <=> g \in tempFiles')
           /\ \A path \in Paths : path # dest[f] => disk'[path] = disk[path]
           /\ disk'[dest[f]] = disk[dest[f]] \/ disk'[dest[f]].owner \in {f, NoFile}
<1>0. TypeOK /\ <<f, Last(f)>> \in Packets /\ dest[f] \in Paths
  BY LastFacts, PacketFacts DEF IInv, TypeOK
<1>1. UNCHANGED <<hashed, inFlight, written, dest, record>>
  BY DEF PlaceStep, RenameToDestination, RenameThrows, BeginCopy, CopyRefused, FinishCopy,
         CopyBreaksOff, RemoveTemp, RemoveThrows, senderVars, tempVars, endVars
<1>2. Claimed(f) /\ Claimed(f)' /\ conn[<<f, Last(f)>>] # "closed"
  BY <1>0 DEF PlaceStep, RenameToDestination, RenameThrows, BeginCopy, CopyRefused, FinishCopy,
         CopyBreaksOff, RemoveTemp, RemoveThrows, Go, Claimed, TypeOK
<1>3. \A g \in Files : g # f => (g \in tempFiles <=> g \in tempFiles')
  BY DEF PlaceStep, RenameToDestination, RenameThrows, BeginCopy, CopyRefused, FinishCopy,
         CopyBreaksOff, RemoveTemp, RemoveThrows, tempVars
<1>4. \/ disk' = disk
      \/ \E owner \in {f, NoFile}, chunks \in SUBSET Nat :
            disk' = [disk EXCEPT ![dest[f]] = [owner |-> owner, chunks |-> chunks]]
  <2>1. written[f] \in SUBSET Nat /\ {} \in SUBSET Nat
    BY <1>0 DEF TypeOK
  <2>2. CASE RenameThrows(f) \/ CopyRefused(f) \/ RemoveTemp(f) \/ RemoveThrows(f)
    BY <2>2 DEF RenameThrows, CopyRefused, RemoveTemp, RemoveThrows, endVars
  <2>3. CASE RenameToDestination(f) \/ FinishCopy(f)
    BY <2>1, <2>3 DEF RenameToDestination, FinishCopy, Land
  <2>4. CASE BeginCopy(f)
    BY <2>1, <2>4 DEF BeginCopy, Land
  <2>5. CASE CopyBreaksOff(f)
    BY <2>1, <2>5 DEF CopyBreaksOff
  <2>. QED BY <2>2, <2>3, <2>4, <2>5 DEF PlaceStep
<1>5. disk \in [Paths -> [owner : Files \cup {NoFile}, chunks : SUBSET Nat]]
  BY <1>0 DEF TypeOK
<1>6. /\ \A path \in Paths : path # dest[f] => disk'[path] = disk[path]
      /\ disk'[dest[f]] = disk[dest[f]] \/ disk'[dest[f]].owner \in {f, NoFile}
  <2>1. CASE disk' = disk
    BY <2>1
  <2>2. ASSUME NEW owner \in {f, NoFile}, NEW chunks \in SUBSET Nat,
               disk' = [disk EXCEPT ![dest[f]] = [owner |-> owner, chunks |-> chunks]]
        PROVE  /\ \A path \in Paths : path # dest[f] => disk'[path] = disk[path]
               /\ disk'[dest[f]].owner = owner
    BY <1>0, <1>5, <2>2
  <2>. QED BY <1>4, <2>1, <2>2
<1>. QED BY <1>1, <1>2, <1>3, <1>6

\* The actions that put the file in its place.
LEMMA PlaceSafe ==
    ASSUME IInv, NEW f \in Files, PlaceStep(f)
    PROVE  IInv'
<1>0. TypeOK /\ TypeOK' /\ <<f, Last(f)>> \in Packets /\ dest[f] \in Paths
  BY PlaceType, LastFacts, PacketFacts DEF IInv, TypeOK
<1>1. /\ \A g \in Files : conn'[<<g, 0>>] = conn[<<g, 0>>]
      /\ \A g \in Files : g # f => conn'[<<g, Last(g)>>] = conn[<<g, Last(g)>>]
      /\ OrderInv'
  BY CompleteMoves DEF CompleteStep
<1>2. /\ UNCHANGED <<hashed, inFlight, written, dest, record>>
      /\ Claimed(f) /\ Claimed(f)' /\ conn[<<f, Last(f)>>] # "closed"
      /\ \A g \in Files : g # f => (g \in tempFiles <=> g \in tempFiles')
      /\ \A path \in Paths : path # dest[f] => disk'[path] = disk[path]
      /\ disk'[dest[f]] = disk[dest[f]] \/ disk'[dest[f]].owner \in {f, NoFile}
  BY PlaceMoves
<1>3. EntryInv' /\ RecordInv'
  <2>1. record[f] = "none"
    BY <1>2 DEF IInv, RecordInv
  <2>. QED BY <1>1, <1>2, <2>1 DEF IInv, EntryInv, RecordInv, Claimed
<1>4. PlaceInv'
  <2>1. Checked(f)' => Checked(f) /\ tempFiles' = tempFiles
    BY <1>0 DEF PlaceStep, RenameToDestination, RenameThrows, BeginCopy, CopyRefused, FinishCopy,
         CopyBreaksOff, RemoveTemp, RemoveThrows, Go, TypeOK, tempVars, Checked
  <2>. QED BY <1>1, <1>2, <2>1 DEF IInv, PlaceInv, Checked
<1>5. \A path \in Paths : \A g \in Files \ {f} : disk'[path].owner = g
          => /\ path = dest'[g] /\ Landed(g)'
             /\ hashed'[g] /\ Whole(g)' => disk'[path].chunks = Data(g)
  <2>1. \A g \in Files \ {f} : (Landed(g)' <=> Landed(g)) /\ (Whole(g)' <=> Whole(g))
    BY <1>1, <1>2 DEF Landed, Whole
  <2>2. \A path \in Paths : \A g \in Files \ {f} :
            disk'[path].owner = g => disk'[path] = disk[path]
    BY <1>2, NoFileAssumption
  <2>. QED BY <1>2, <2>1, <2>2 DEF IInv, DiskInv, Landed, Whole
<1>6. \A path \in Paths : disk'[path].owner = f => path = dest[f]
  BY <1>2 DEF IInv, DiskInv, Landed, Whole
<1>7. disk'[dest[f]].owner = f
          => Landed(f)' /\ (hashed[f] /\ Whole(f)' => disk'[dest[f]].chunks = Data(f))
  <2>1. CASE RenameToDestination(f)
    BY <1>0, <2>1 DEF RenameToDestination, Land, Go, TypeOK, IInv, PlaceInv, Checked, Landed
  <2>2. CASE RenameThrows(f) \/ CopyRefused(f)
    BY <1>0, <2>2 DEF RenameThrows, CopyRefused, Go, IInv, DiskInv, Landed, endVars
  <2>3. CASE BeginCopy(f)
    BY <1>0, <2>3 DEF BeginCopy, Go, TypeOK, Landed, Whole, tempVars
  <2>4. CASE FinishCopy(f)
    BY <1>0, <2>4 DEF FinishCopy, Land, Go, TypeOK, IInv, PlaceInv, Checked, Landed
  <2>5. CASE CopyBreaksOff(f)
    BY <1>0, <2>5 DEF CopyBreaksOff, Go, TypeOK, IInv, PlaceInv, Checked, Landed, Whole, tempVars
  <2>6. CASE RemoveTemp(f) \/ RemoveThrows(f)
    BY <1>0, <2>6 DEF RemoveTemp, RemoveThrows, Go, TypeOK, IInv, DiskInv,
           Landed, Whole, endVars
  <2>. QED BY <2>1, <2>2, <2>3, <2>4, <2>5, <2>6 DEF PlaceStep
<1>8. DiskInv'
  BY <1>2, <1>5, <1>6, <1>7 DEF DiskInv, Landed, Whole
<1>. QED BY <1>0, <1>1, <1>3, <1>4, <1>8 DEF IInv

LEMMA ConnectionSafe ==
    ASSUME IInv, NEW p \in Packets, ConnectionStep(p)
    PROVE  IInv'
<1>0. TypeOK /\ TypeOK'
  BY OtherType DEF IInv
<1>1. PICK to \in {"lost", "acked", "closed"} : Go(p, "wire", to)
  BY DEF ConnectionStep, LosePacket, Acknowledge, AcknowledgeThrows
<1>2. UNCHANGED <<senderVars, inFlight, tempVars, endVars>>
  BY DEF ConnectionStep, LosePacket, Acknowledge, AcknowledgeThrows
<1>3. \A g \in Files : \A j \in 0..Last(g) :
         \/ conn'[<<g, j>>] = conn[<<g, j>>]
         \/ conn[<<g, j>>] = "wire" /\ conn'[<<g, j>>] \in {"lost", "acked", "closed"}
  BY <1>0, <1>1, PacketFacts DEF Go, TypeOK
<1>4. OrderInv'
  BY <1>2, <1>3, OrderKept DEF senderVars
<1>5. EntryInv' /\ RecordInv'
  BY <1>2, <1>3, LastFacts DEF IInv, EntryInv, RecordInv, Claimed, endVars
<1>6. PlaceInv'
  BY <1>2, <1>3, LastFacts DEF IInv, PlaceInv, Checked, senderVars, tempVars
<1>7. DiskInv'
  BY <1>2, <1>3, LastFacts DEF IInv, DiskInv, Landed, Whole, senderVars, tempVars, endVars
<1>. QED BY <1>0, <1>4, <1>5, <1>6, <1>7 DEF IInv

LEMMA RestartSafe ==
    ASSUME IInv, Restart
    PROVE  IInv'
<1>0. TypeOK /\ TypeOK'
  BY OtherType DEF IInv
<1>1. UNCHANGED <<senderVars, tempVars, endVars>> /\ inFlight' = {}
  BY DEF Restart
<1>2. \A p \in Packets :
         /\ conn[p] = "unsent" => conn'[p] = "unsent"
         /\ conn[p] \notin {"unsent", "wire", "lost"} => conn'[p] = "closed"
         /\ conn'[p] \in {"unsent", "lost", "closed"}
  BY DEF Restart
<1>3. \A g \in Files : \A j \in 0..Last(g) :
         /\ conn[<<g, j>>] = "unsent" => conn'[<<g, j>>] = "unsent"
         /\ conn[<<g, j>>] \notin {"unsent", "wire", "lost"} => conn'[<<g, j>>] = "closed"
         /\ conn'[<<g, j>>] \in {"unsent", "lost", "closed"}
  BY <1>2, PacketFacts
<1>4. OrderInv'
  BY <1>1, <1>3, OrderKept DEF senderVars
<1>5. EntryInv' /\ RecordInv'
  BY <1>1, <1>3, LastFacts DEF IInv, EntryInv, RecordInv, Claimed, endVars
<1>6. PlaceInv'
  BY <1>1, <1>3, LastFacts DEF IInv, PlaceInv, Checked, senderVars, tempVars
<1>7. DiskInv'
  BY <1>1, <1>3, LastFacts DEF IInv, DiskInv, Landed, Whole, senderVars, tempVars, endVars
<1>. QED BY <1>0, <1>4, <1>5, <1>6, <1>7 DEF IInv

LEMMA NextSafe == IInv /\ [Next]_vars => IInv'
<1>. SUFFICES ASSUME IInv, [Next]_vars PROVE IInv'
  OBVIOUS
<1>1. ASSUME NEW f \in Files, SenderStep(f) PROVE IInv'
  BY <1>1, SenderSafe
<1>2. ASSUME NEW f \in Files, StartStep(f) PROVE IInv'
  BY <1>2, StartSafe
<1>3. ASSUME NEW f \in Files, NEW i \in Data(f), ChunkStep(f, i) PROVE IInv'
  BY <1>3, ChunkSafe
<1>4. ASSUME NEW f \in Files, CompleteStep(f) PROVE IInv'
  BY <1>4, ChecksSafe, EndsSafe, PlaceSafe DEF CompleteStep
<1>5. ASSUME NEW p \in Packets, ConnectionStep(p) PROVE IInv'
  BY <1>5, ConnectionSafe
<1>6. CASE Restart
  BY <1>6, RestartSafe
<1>7. CASE UNCHANGED vars
  BY <1>7 DEF vars, IInv, TypeOK, OrderInv, Unsent, EntryInv, Claimed, RecordInv,
         PlaceInv, Checked, DiskInv, Landed, Whole
<1>. QED BY <1>1, <1>2, <1>3, <1>4, <1>5, <1>6, <1>7 DEF Next

LEMMA Invariance == Spec => []IInv
<1>. QED BY InitSafe, NextSafe, PTL DEF Spec

\* No interleaving of handlers, fault of the file system or crash puts a file
\* with missing chunks into the downloads directory, unless the sender itself
\* could not compute the checksum (the count and SHA-256 checks) or the temp file
\* is still there (a copy in progress or cut short).
THEOREM SavedIsIntactHolds == Spec => []SavedIsIntact
<1>1. IInv => SavedIsIntact
  <2>. SUFFICES ASSUME IInv, NEW path \in Paths, disk[path].owner # NoFile,
                       hashed[disk[path].owner], disk[path].owner \notin tempFiles
                PROVE  disk[path].chunks = Data(disk[path].owner)
    BY DEF SavedIsIntact
  <2>1. disk[path].owner \in Files
    BY DEF IInv, TypeOK
  <2>. QED BY <2>1 DEF IInv, DiskInv, Whole
<1>. QED BY <1>1, Invariance, PTL

\* A transfer that send_file gave up is saved by no receiver: FILE_COMPLETE was
\* never sent (the early returns of send_file).
THEOREM FailedSendIsNeverSavedHolds == Spec => []FailedSendIsNeverSaved
<1>1. IInv => FailedSendIsNeverSaved
  <2>. SUFFICES ASSUME IInv, NEW f \in Files, sender[f] = "false"
                PROVE  record[f] = "none" /\ \A path \in Paths : disk[path].owner # f
    BY DEF FailedSendIsNeverSaved
  <2>1. step[f] < Last(f) /\ Unsent(f, Last(f))
    BY DEF IInv, OrderInv, Unsent
  <2>2. conn[<<f, Last(f)>>] = "unsent"
    BY <2>1, LastFacts DEF IInv, OrderInv
  <2>3. record[f] = "none"
    BY <2>2 DEF IInv, RecordInv
  <2>. QED BY <2>2, <2>3 DEF IInv, DiskInv, Landed
<1>. QED BY <1>1, Invariance, PTL

\* Once FILE_COMPLETE has taken a transfer over, no late handler creates its temp
\* file again (FILE_START is finished, FILE_CHUNK never creates).
THEOREM TempFileIsNotRecreatedHolds == Spec => TempFileIsNotRecreated
<1>. DEFINE A == \A f \in tempFiles' \ tempFiles : record[f] = "none" /\ ~Claimed(f)
<1>1. IInv /\ [Next]_vars => A \/ UNCHANGED vars
  <2>. SUFFICES ASSUME IInv, Next, NEW f \in tempFiles' \ tempFiles
                PROVE  record[f] = "none" /\ ~Claimed(f)
    BY DEF vars
  <2>1. PICK g \in Files : PreAllocate(g)
    <3>1. ASSUME NEW g \in Files, SenderStep(g) PROVE tempFiles' = tempFiles
      BY <3>1 DEF SenderStep, SendingStep, BeginSend, RefuseSend, SendPacket, AckArrives,
             ConnectFails, AckTimesOut, tempVars
    <3>2. ASSUME NEW g \in Files, InsertInFlight(g) PROVE tempFiles' = tempFiles
      BY <3>2 DEF InsertInFlight, tempVars
    <3>3. ASSUME NEW g \in Files, NEW i \in Data(g), ChunkStep(g, i)
          PROVE  tempFiles' = tempFiles
      BY <3>3 DEF ChunkStep, FindReceive, WriteChunk, MarkReceived, CloseStream, tempVars
    <3>4. ASSUME NEW g \in Files, CompleteStep(g) PROVE tempFiles' \subseteq tempFiles
      BY <3>4 DEF CompleteStep, ClaimReceive, CheckCount, CheckHash, Discard,
             ChooseDestination, ChooseThrows,
         PlaceStep, RenameToDestination, RenameThrows, BeginCopy, CopyRefused, FinishCopy,
         CopyBreaksOff, RemoveTemp, RemoveThrows, Report, tempVars
    <3>5. ASSUME NEW p \in Packets, ConnectionStep(p) PROVE tempFiles' = tempFiles
      BY <3>5 DEF ConnectionStep, LosePacket, Acknowledge, AcknowledgeThrows, tempVars
    <3>6. CASE Restart
      BY <3>6 DEF Restart, tempVars
    <3>. QED BY <3>1, <3>2, <3>3, <3>4, <3>5, <3>6 DEF Next, StartStep
  <2>2. f = g
    BY <2>1 DEF PreAllocate, tempVars
  <2>3. conn[<<f, 0>>] # "closed"
    BY <2>1, <2>2 DEF PreAllocate, Go
  <2>. QED BY <2>1, <2>2, <2>3 DEF IInv, EntryInv
<1>. QED BY <1>1, Invariance, PTL DEF Spec, TempFileIsNotRecreated
=============================================================================
