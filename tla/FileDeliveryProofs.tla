------------------------- MODULE FileDeliveryProofs -------------------------
(* FileTransfer implements FileDelivery, for every set of transfers, their  *)
(* names and contents, with or without faults and crashes; and the two      *)
(* invariants about what a transfer leaves on either side.                  *)
EXTENDS FileTransferProofs

USE DEF ConnStates, recvVars

(* What was acknowledged stays received. *)

\* The packet has not reached a connection thread.
Outside == {"unsent", "wire", "lost"}

ReceivedInv == \A f \in Files :
    /\ sender[f] = "true" => step[f] = Last(f)
    /\ sender[f] = "awaiting" => conn[<<f, step[f]>>] # "unsent"
    /\ \A i \in 0..Last(f) : i < step[f] => conn[<<f, i>>] \notin Outside

LEMMA InitReceived == Init => ReceivedInv
BY LastFacts DEF Init, ReceivedInv

LEMMA SenderReceived ==
    ASSUME TypeOK, ReceivedInv, NEW f \in Files, SenderStep(f)
    PROVE  ReceivedInv'
<1>. USE LastFacts DEF Outside
<1>0. TypeOK'
  BY SenderType
<1>1. CASE BeginSend(f) \/ RefuseSend(f)
  BY <1>0, <1>1 DEF BeginSend, RefuseSend, ReceivedInv, TypeOK
<1>2. CASE SendPacket(f)
  <2>1. step[f] \in 0..Last(f) /\ <<f, step[f]>> \in Packets
    BY PacketFacts DEF TypeOK
  <2>2. \A g \in Files : \A j \in 0..Last(g) :
            conn'[<<g, j>>] = IF g = f /\ j = step[f] THEN "wire" ELSE conn[<<g, j>>]
    BY <1>2, <2>1, PacketFacts DEF SendPacket, TypeOK
  <2>3. step' = step /\ sender' = [sender EXCEPT ![f] = "awaiting"]
    BY <1>2 DEF SendPacket
  <2>4. \A g \in Files : step[g] \in 0..Last(g)
    BY DEF TypeOK
  <2>. QED BY <1>0, <2>2, <2>3, <2>4 DEF ReceivedInv, TypeOK
<1>3. CASE AckArrives(f)
  <2>1. conn' = conn /\ conn[<<f, step[f]>>] \notin Outside
    BY <1>3 DEF AckArrives, ReceivedInv
  <2>2. CASE step[f] = Last(f)
    BY <1>0, <1>3, <2>1, <2>2 DEF AckArrives, Advance, ReceivedInv, TypeOK
  <2>3. CASE step[f] # Last(f)
    <3>1. /\ step' = [step EXCEPT ![f] = @ + 1]
          /\ sender' = [sender EXCEPT ![f] = "sending"]
      BY <1>3, <2>3 DEF AckArrives, Advance
    <3>2. \A g \in Files : \A i \in 0..Last(g) :
              i < step'[g] => i < step[g] \/ (g = f /\ i = step[f])
      <4>1. step'[f] = step[f] + 1 /\ \A g \in Files : g # f => step'[g] = step[g]
        BY <3>1 DEF TypeOK
      <4>2. step[f] \in Nat /\ \A g \in Files : 0..Last(g) \subseteq Nat
        BY DEF TypeOK
      <4>. QED BY <4>1, <4>2
    <3>3. \A g \in Files : g # f => sender'[g] = sender[g] /\ step'[g] = step[g]
      BY <3>1 DEF TypeOK
    <3>4. sender'[f] = "sending"
      BY <3>1 DEF TypeOK
    <3>. QED BY <2>1, <3>2, <3>3, <3>4 DEF ReceivedInv
  <2>. QED BY <2>2, <2>3
<1>4. CASE ConnectFails(f) \/ AckTimesOut(f)
  BY <1>0, <1>4 DEF ConnectFails, AckTimesOut, GiveUp, ReceivedInv, TypeOK
<1>. QED BY <1>1, <1>2, <1>3, <1>4, SenderStep(f) DEF SenderStep, SendingStep

\* Steps of the network and of the receiver, its death included, take no packet back.
LEMMA NothingTakenBack ==
    ASSUME TypeOK,
           \/ \E f \in Files : \/ StartStep(f) \/ CompleteStep(f)
                               \/ \E i \in Data(f) : ChunkStep(f, i)
           \/ \E p \in Packets : ConnectionStep(p)
           \/ Restart
    PROVE  /\ UNCHANGED senderVars
           /\ \A p \in Packets : /\ conn[p] = "unsent" <=> conn'[p] = "unsent"
                                 /\ conn[p] \notin Outside => conn'[p] \notin Outside
<1>. USE DEF Outside
<1>1. CASE Restart
  BY <1>1 DEF Restart, TypeOK
<1>2. ASSUME NEW p \in Packets, NEW from \in ConnStates \ Outside,
             NEW to \in ConnStates \ Outside, Go(p, from, to)
      PROVE  \A q \in Packets : /\ conn[q] = "unsent" <=> conn'[q] = "unsent"
                                /\ conn[q] \notin Outside => conn'[q] \notin Outside
  BY <1>2 DEF Go, TypeOK
<1>3. ASSUME NEW p \in Packets, ConnectionStep(p)
      PROVE  /\ UNCHANGED senderVars
             /\ \A q \in Packets : /\ conn[q] = "unsent" <=> conn'[q] = "unsent"
                                   /\ conn[q] \notin Outside => conn'[q] \notin Outside
  BY <1>3 DEF ConnectionStep, LosePacket, Acknowledge, AcknowledgeThrows, Go, TypeOK
<1>4. ASSUME NEW f \in Files, StartStep(f)
      PROVE  UNCHANGED senderVars /\ \E p \in Packets, from, to \in ConnStates \ Outside :
                 Go(p, from, to)
  <2>1. <<f, 0>> \in Packets
    BY LastFacts, PacketFacts
  <2>. QED BY <1>4, <2>1 DEF StartStep, PreAllocate, InsertInFlight
<1>5. ASSUME NEW f \in Files, NEW i \in Data(f), ChunkStep(f, i)
      PROVE  UNCHANGED senderVars /\ \E p \in Packets, from, to \in ConnStates \ Outside :
                 Go(p, from, to)
  <2>1. <<f, i>> \in Packets
    BY LastFacts, PacketFacts
  <2>. QED BY <1>5, <2>1 DEF ChunkStep, FindReceive, WriteChunk, MarkReceived, CloseStream
<1>6. ASSUME NEW f \in Files, CompleteStep(f)
      PROVE  UNCHANGED senderVars /\ \E p \in Packets, from, to \in ConnStates \ Outside :
                 Go(p, from, to)
  <2>1. <<f, Last(f)>> \in Packets
    BY LastFacts, PacketFacts
  <2>2. CASE Discard(f)
    BY <2>1, <2>2 DEF Discard, Go
  <2>3. CASE \/ ClaimReceive(f) \/ CheckCount(f) \/ CheckHash(f)
             \/ ChooseDestination(f) \/ ChooseThrows(f)
    BY <2>1, <2>3 DEF ClaimReceive, CheckCount, CheckHash, ChooseDestination, ChooseThrows
  <2>4. CASE PlaceStep(f)
    BY <2>1, <2>4 DEF PlaceStep, RenameToDestination, RenameThrows, BeginCopy, CopyRefused,
       FinishCopy, CopyBreaksOff, RemoveTemp, RemoveThrows
  <2>5. CASE Report(f)
    BY <2>1, <2>5 DEF Report, Go
  <2>. QED BY <1>6, <2>2, <2>3, <2>4, <2>5 DEF CompleteStep
<1>. QED BY <1>1, <1>2, <1>3, <1>4, <1>5, <1>6

LEMMA NextReceived == TypeOK /\ ReceivedInv /\ [Next]_vars => ReceivedInv'
<1>. SUFFICES ASSUME TypeOK, ReceivedInv, [Next]_vars PROVE ReceivedInv'
  OBVIOUS
<1>1. ASSUME NEW f \in Files, SenderStep(f) PROVE ReceivedInv'
  BY <1>1, SenderReceived
<1>2. ASSUME UNCHANGED <<sender, step>>,
             \A p \in Packets : /\ conn[p] = "unsent" <=> conn'[p] = "unsent"
                                /\ conn[p] \notin Outside => conn'[p] \notin Outside
      PROVE  ReceivedInv'
  <2>1. \A f \in Files : step[f] \in 0..Last(f)
    BY LastFacts DEF TypeOK
  <2>. QED BY <1>2, <2>1, PacketFacts DEF ReceivedInv
<1>3. CASE UNCHANGED vars
  BY <1>2, <1>3 DEF vars
<1>4. CASE /\ Next
           /\ ~\E f \in Files : SenderStep(f)
  <2>1. \/ \E f \in Files : \/ StartStep(f) \/ CompleteStep(f)
                            \/ \E i \in Data(f) : ChunkStep(f, i)
        \/ \E p \in Packets : ConnectionStep(p)
        \/ Restart
    BY <1>4 DEF Next
  <2>. QED BY <1>2, <2>1, NothingTakenBack DEF senderVars
<1>. QED BY <1>1, <1>3, <1>4

\* A send_file that returns true has had an acknowledgement for FILE_START and for
\* every chunk, whatever became of FILE_COMPLETE (the early returns of send_file).
THEOREM SentIsReceivedHolds == Spec => []SentIsReceived
<1>1. ReceivedInv => SentIsReceived
  <2>1. \A f \in Files : \A i \in 0..ChunksOf[f] : i \in 0..Last(f) /\ i < Last(f)
    BY ChunksAssumption DEF Last
  <2>. QED BY <2>1 DEF ReceivedInv, SentIsReceived, Outside
<1>. QED BY <1>1, InitReceived, NextReceived, TypeCorrect, PTL DEF Spec

-----------------------------------------------------------------------------
(* What a transfer leaves behind on the receiver. *)

LEMMA InitTaken == Init => TakenLeavesNoEntry
BY LastFacts, PacketFacts DEF Init, TakenLeavesNoEntry, Claimed

\* Steps that neither insert an entry nor create a temp file nor touch FILE_COMPLETE.
LEMMA TakenKept ==
    ASSUME TakenLeavesNoEntry, inFlight' \subseteq inFlight, tempFiles' \subseteq tempFiles,
           record' = record, \A f \in Files : Claimed(f)' => Claimed(f),
           \A f \in Files : conn'[<<f, Last(f)>>] = "moved" => conn[<<f, Last(f)>>] = "moved"
    PROVE  TakenLeavesNoEntry'
BY DEF TakenLeavesNoEntry

\* Every step of a FILE_START or a FILE_CHUNK leaves FILE_COMPLETE alone.
LEMMA OtherPackets ==
    ASSUME TypeOK, NEW f \in Files, StartStep(f) \/ \E i \in Data(f) : ChunkStep(f, i)
    PROVE  /\ UNCHANGED <<dest, disk, record>>
           /\ \A g \in Files : conn'[<<g, Last(g)>>] = conn[<<g, Last(g)>>]
<1>1. UNCHANGED <<dest, disk, record>>
  BY DEF StartStep, PreAllocate, InsertInFlight, ChunkStep, FindReceive, WriteChunk,
     MarkReceived, CloseStream, endVars
<1>2. \E i \in 0..Last(f), from, to \in ConnStates : i # Last(f) /\ Go(<<f, i>>, from, to)
  <2>1. CASE StartStep(f)
    <3>1. \E from, to \in ConnStates : Go(<<f, 0>>, from, to)
      BY <2>1 DEF StartStep, PreAllocate, InsertInFlight
    <3>. QED BY <3>1, LastFacts
  <2>2. ASSUME NEW i \in Data(f), ChunkStep(f, i)
        PROVE  \E from, to \in ConnStates : Go(<<f, i>>, from, to)
    BY <2>2 DEF ChunkStep, FindReceive, WriteChunk, MarkReceived, CloseStream
  <2>3. \A i \in Data(f) : i \in 0..Last(f) /\ i # Last(f)
    BY LastFacts
  <2>. QED BY <2>1, <2>2, <2>3
<1>3. PICK i \in 0..Last(f), from, to \in ConnStates : i # Last(f) /\ Go(<<f, i>>, from, to)
  BY <1>2
<1>. QED BY <1>1, <1>3, Moved, LastFacts

LEMMA CompleteTaken ==
    ASSUME IInv, TakenLeavesNoEntry, NEW f \in Files, CompleteStep(f)
    PROVE  TakenLeavesNoEntry'
<1>. USE DEF TakenLeavesNoEntry
<1>0. TypeOK /\ <<f, Last(f)>> \in Packets
  BY LastFacts, PacketFacts DEF IInv
<1>1. \A g \in Files : g # f => conn'[<<g, Last(g)>>] = conn[<<g, Last(g)>>]
  BY CompleteMoves
<1>2. \A g \in Files : g # f => (Claimed(g)' <=> Claimed(g))
  BY <1>1 DEF Claimed
<1>3. CASE ClaimReceive(f)
  <2>1. f \notin inFlight' /\ inFlight' \subseteq inFlight /\ UNCHANGED <<record, tempFiles>>
    BY <1>3 DEF ClaimReceive, tempVars, endVars
  <2>2. record[f] = "none"
    BY <1>0, <1>3 DEF ClaimReceive, Go, IInv, RecordInv
  <2>3. conn'[<<f, Last(f)>>] # "moved"
    BY <1>0, <1>3 DEF ClaimReceive, Go, TypeOK
  <2>. QED BY <1>1, <1>2, <2>1, <2>2, <2>3
<1>4. CASE CheckCount(f) \/ CheckHash(f) \/ ChooseDestination(f) \/ ChooseThrows(f)
  <2>1. UNCHANGED <<inFlight, record, tempFiles>> /\ Claimed(f)
    BY <1>4 DEF CheckCount, CheckHash, ChooseDestination, ChooseThrows, Go, Claimed,
       tempVars, endVars
  <2>2. conn'[<<f, Last(f)>>] # "moved"
    BY <1>0, <1>4 DEF CheckCount, CheckHash, ChooseDestination, ChooseThrows, Go, TypeOK
  <2>. QED BY <1>1, <1>2, <2>1, <2>2
<1>5. CASE PlaceStep(f)
  <2>1. inFlight' = inFlight /\ record' = record /\ Claimed(f) /\ Claimed(f)'
    BY <1>5, PlaceMoves
  <2>2. \A g \in Files : g # f => (g \in tempFiles <=> g \in tempFiles')
    BY <1>5, PlaceMoves
  <2>3. record[f] = "none"
    BY <1>5, PlaceMoves DEF IInv, RecordInv
  <2>4. conn'[<<f, Last(f)>>] = "moved" => f \notin tempFiles'
    BY <1>0, <1>5 DEF PlaceStep, RenameToDestination, RenameThrows, BeginCopy, CopyRefused,
       FinishCopy, CopyBreaksOff, RemoveTemp, RemoveThrows, Go, TypeOK
  <2>. QED BY <1>1, <1>2, <2>1, <2>2, <2>3, <2>4
<1>6. CASE Discard(f) \/ Report(f)
  <2>1. /\ inFlight' = inFlight /\ tempFiles' \subseteq tempFiles /\ Claimed(f)
        /\ conn'[<<f, Last(f)>>] = "closed"
    BY <1>0, <1>6 DEF Discard, Report, Claimed, tempVars, TypeOK
  <2>2. \A g \in Files : g # f => record'[g] = record[g]
    BY <1>0, <1>6 DEF Discard, Report, TypeOK
  <2>3. record'[f] = "saved" => record[f] = "saved" \/ f \notin tempFiles'
    BY <1>0, <1>6 DEF Discard, Report, tempVars, TypeOK
  <2>. QED BY <1>1, <1>2, <2>1, <2>2, <2>3
<1>. QED BY <1>3, <1>4, <1>5, <1>6 DEF CompleteStep

LEMMA NextTaken == IInv /\ TakenLeavesNoEntry /\ [Next]_vars => TakenLeavesNoEntry'
<1>. SUFFICES ASSUME IInv, TakenLeavesNoEntry, [Next]_vars PROVE TakenLeavesNoEntry'
  OBVIOUS
<1>. USE DEF tempVars, endVars, senderVars
<1>0. TypeOK
  BY DEF IInv
<1>1. ASSUME NEW f \in Files, SenderStep(f) PROVE TakenLeavesNoEntry'
  <2>1. UNCHANGED <<inFlight, tempFiles, record>>
    BY <1>1 DEF SenderStep, SendingStep, BeginSend, RefuseSend, SendPacket, AckArrives,
       ConnectFails, AckTimesOut
  <2>2. \A p \in Packets : conn'[p] \in {conn[p], "wire"}
    BY <1>0, <1>1 DEF SenderStep, SendingStep, BeginSend, RefuseSend, SendPacket, AckArrives,
       ConnectFails, AckTimesOut, TypeOK
  <2>3. \A g \in Files : conn'[<<g, Last(g)>>] \in {conn[<<g, Last(g)>>], "wire"}
    BY <2>2, LastFacts, PacketFacts
  <2>. QED BY <2>1, <2>3, TakenKept DEF Claimed
<1>2. ASSUME NEW f \in Files, StartStep(f) PROVE TakenLeavesNoEntry'
  <2>1. conn[<<f, 0>>] # "closed" /\ \A g \in Files : conn'[<<g, Last(g)>>] = conn[<<g, Last(g)>>]
    <3>1. \E from, to \in {"acked", "allocated", "closed"} : from # "closed" /\ Go(<<f, 0>>, from, to)
      BY <1>2 DEF StartStep, PreAllocate, InsertInFlight
    <3>. QED BY <1>0, <3>1, Moved, LastFacts
  <2>2. ~Claimed(f) /\ record[f] = "none"
    BY <2>1 DEF IInv, EntryInv
  <2>3. /\ record' = record
        /\ inFlight' \subseteq inFlight \cup {f} /\ tempFiles' \subseteq tempFiles \cup {f}
    BY <1>2 DEF StartStep, PreAllocate, InsertInFlight
  <2>. QED BY <2>1, <2>2, <2>3 DEF TakenLeavesNoEntry, Claimed
<1>3. ASSUME NEW f \in Files, NEW i \in Data(f), ChunkStep(f, i) PROVE TakenLeavesNoEntry'
  <2>1. UNCHANGED <<inFlight, tempFiles, record>>
    BY <1>3 DEF ChunkStep, FindReceive, WriteChunk, MarkReceived, CloseStream
  <2>2. PICK from, to \in ConnStates : Go(<<f, i>>, from, to)
    BY <1>3 DEF ChunkStep, FindReceive, WriteChunk, MarkReceived, CloseStream
  <2>3. \A g \in Files : conn'[<<g, Last(g)>>] = conn[<<g, Last(g)>>]
    BY <1>0, <2>2, Moved, LastFacts
  <2>. QED BY <2>1, <2>3, TakenKept DEF Claimed
<1>4. ASSUME NEW f \in Files, CompleteStep(f) PROVE TakenLeavesNoEntry'
  BY <1>4, CompleteTaken
<1>5. ASSUME NEW p \in Packets, ConnectionStep(p) PROVE TakenLeavesNoEntry'
  <2>1. UNCHANGED <<inFlight, tempFiles, record>>
    BY <1>5 DEF ConnectionStep, LosePacket, Acknowledge, AcknowledgeThrows
  <2>2. \A q \in Packets : conn'[q] \in {conn[q], "lost", "acked", "closed"}
    BY <1>0, <1>5 DEF ConnectionStep, LosePacket, Acknowledge, AcknowledgeThrows, Go, TypeOK
  <2>3. \A g \in Files : conn'[<<g, Last(g)>>] \in {conn[<<g, Last(g)>>], "lost", "acked", "closed"}
    BY <2>2, LastFacts, PacketFacts
  <2>. QED BY <2>1, <2>3, TakenKept DEF Claimed
<1>6. CASE Restart
  <2>1. inFlight' = {} /\ UNCHANGED <<tempFiles, record>>
    BY <1>6 DEF Restart
  <2>2. \A p \in Packets : conn'[p] # "moved"
    BY <1>6 DEF Restart
  <2>. QED BY <2>1, <2>2, LastFacts, PacketFacts DEF TakenLeavesNoEntry
<1>7. CASE UNCHANGED vars
  BY <1>7 DEF vars, TakenLeavesNoEntry, Claimed
<1>. QED BY <1>1, <1>2, <1>3, <1>4, <1>5, <1>6, <1>7 DEF Next

\* No late FILE_START inserts the entry of a transfer again that FILE_COMPLETE has
\* taken, and a saved transfer leaves no temp file, whatever races and crashes.
THEOREM TakenLeavesNoEntryHolds == Spec => []TakenLeavesNoEntry
<1>. QED BY InitTaken, NextTaken, Invariance, PTL DEF Spec

-----------------------------------------------------------------------------
(* The refinement.  The mapping is that of FileTransfer: phase, outcome and the *)
(* owners of the paths in the downloads directory.                              *)

\* A destination carries the name of its transfer; while a copy is being written,
\* no other transfer takes its destination away.
CopyInv ==
    /\ \A f \in Files : dest[f][1] = NameOf[f]
    /\ \A f \in Files : conn[<<f, Last(f)>>] = "copying" => disk[dest[f]].owner = f

LEMMA InitCopies == Init => CopyInv
BY LastFacts, PacketFacts DEF Init, CopyInv

\* Steps that leave the places alone and begin no copy.
LEMMA CopiesStay ==
    ASSUME CopyInv, UNCHANGED <<dest, disk>>,
           \A f \in Files : conn'[<<f, Last(f)>>] = "copying" => conn[<<f, Last(f)>>] = "copying"
    PROVE  CopyInv'
BY DEF CopyInv

LEMMA PlaceCopies ==
    ASSUME IInv, CopyInv, NEW f \in Files, PlaceStep(f)
    PROVE  CopyInv'
<1>0. TypeOK /\ <<f, Last(f)>> \in Packets /\ dest[f] \in Paths
  BY LastFacts, PacketFacts DEF IInv, TypeOK
<1>1. /\ dest' = dest
      /\ \A g \in Files : g # f => conn'[<<g, Last(g)>>] = conn[<<g, Last(g)>>]
      /\ \A path \in Paths : path # dest[f] => disk'[path] = disk[path]
  BY PlaceMoves, CompleteMoves DEF CompleteStep
<1>2. conn'[<<f, Last(f)>>] = "copying" => disk'[dest[f]].owner = f
  BY <1>0 DEF PlaceStep, RenameToDestination, RenameThrows, BeginCopy, CopyRefused,
     FinishCopy, CopyBreaksOff, RemoveTemp, RemoveThrows, Go, Land, TypeOK
<1>3. ASSUME NEW g \in Files, g # f, conn[<<g, Last(g)>>] = "copying", dest[g] = dest[f]
      PROVE  disk' = disk
  <2>1. disk[dest[f]].owner = g /\ g # NoFile
    BY <1>3, NoFileAssumption DEF CopyInv
  <2>2. ~RenameToDestination(f) /\ ~BeginCopy(f)
    BY <1>3, <2>1 DEF RenameToDestination, Contended, BeginCopy, Free
  <2>3. conn[<<f, Last(f)>>] # "copying"
    BY <1>3, <2>1 DEF CopyInv
  <2>. QED BY <2>2, <2>3 DEF PlaceStep, RenameThrows, CopyRefused, FinishCopy, CopyBreaksOff,
           RemoveTemp, RemoveThrows, Go, endVars
<1>4. \A g \in Files : dest[g] \in Paths
  BY <1>0 DEF TypeOK
<1>. QED BY <1>1, <1>2, <1>3, <1>4 DEF CopyInv

LEMMA NextCopies == IInv /\ CopyInv /\ [Next]_vars => CopyInv'
<1>. SUFFICES ASSUME IInv, CopyInv, [Next]_vars PROVE CopyInv'
  OBVIOUS
<1>. USE DEF tempVars, endVars, senderVars
<1>0. TypeOK
  BY DEF IInv
<1>1. ASSUME NEW f \in Files, SenderStep(f) PROVE CopyInv'
  <2>1. UNCHANGED <<dest, disk>>
    BY <1>1 DEF SenderStep, SendingStep, BeginSend, RefuseSend, SendPacket, AckArrives,
       ConnectFails, AckTimesOut
  <2>2. \A p \in Packets : conn'[p] \in {conn[p], "wire"}
    BY <1>0, <1>1 DEF SenderStep, SendingStep, BeginSend, RefuseSend, SendPacket, AckArrives,
       ConnectFails, AckTimesOut, TypeOK
  <2>3. \A g \in Files : conn'[<<g, Last(g)>>] \in {conn[<<g, Last(g)>>], "wire"}
    BY <2>2, LastFacts, PacketFacts
  <2>. QED BY <2>1, <2>3, CopiesStay
<1>2. ASSUME NEW f \in Files, StartStep(f) \/ \E i \in Data(f) : ChunkStep(f, i)
      PROVE  UNCHANGED <<dest, disk, record>> /\ \A g \in Files :
                 conn'[<<g, Last(g)>>] = conn[<<g, Last(g)>>]
  BY <1>2, <1>0, OtherPackets
<1>3. ASSUME NEW f \in Files, CompleteStep(f), ~PlaceStep(f) PROVE CopyInv'
  <2>1. \A g \in Files : g # f => conn'[<<g, Last(g)>>] = conn[<<g, Last(g)>>]
    BY <1>3, CompleteMoves
  <2>2. <<f, Last(f)>> \in Packets
    BY LastFacts, PacketFacts
  <2>3. conn'[<<f, Last(f)>>] # "copying"
    BY <1>0, <1>3, <2>2 DEF CompleteStep, ClaimReceive, CheckCount, CheckHash, Discard,
       ChooseDestination, ChooseThrows, Report, Go, TypeOK
  <2>4. CASE ChooseDestination(f)
    <3>1. /\ disk' = disk /\ \A g \in Files : g # f => dest'[g] = dest[g]
          /\ dest'[f] \in {<<NameOf[f], "plain">>, <<NameOf[f], "suffixed">>}
      BY <1>0, <2>4 DEF ChooseDestination, TypeOK
    <3>. QED BY <2>1, <2>3, <3>1 DEF CopyInv
  <2>5. CASE ~ChooseDestination(f)
    <3>1. UNCHANGED <<dest, disk>>
      BY <1>3, <2>5 DEF CompleteStep, ClaimReceive, CheckCount, CheckHash, Discard,
         ChooseThrows, Report
    <3>. QED BY <2>1, <2>3, <3>1, CopiesStay
  <2>. QED BY <2>4, <2>5
<1>4. ASSUME (\E p \in Packets : ConnectionStep(p)) \/ Restart PROVE CopyInv'
  <2>1. UNCHANGED <<dest, disk>>
    BY <1>4 DEF ConnectionStep, LosePacket, Acknowledge, AcknowledgeThrows, Restart
  <2>2. \A p \in Packets : conn'[p] = "copying" => conn[p] = "copying"
    BY <1>0, <1>4 DEF ConnectionStep, LosePacket, Acknowledge, AcknowledgeThrows, Restart, Go,
       TypeOK
  <2>. QED BY <2>1, <2>2, LastFacts, PacketFacts, CopiesStay
<1>5. CASE UNCHANGED vars
  BY <1>5 DEF vars, CopyInv
<1>. QED BY <1>1, <1>2, <1>3, <1>4, <1>5, PlaceCopies, CopiesStay DEF Next

-----------------------------------------------------------------------------
(* What FileDelivery sees of a step. *)

LEMMA OutcomeOf ==
    ASSUME NEW f \in Files
    PROVE  /\ record[f] # "none" => outcome[f] = record[f]
           /\ record[f] = "none" =>
                 /\ conn[<<f, Last(f)>>] \in {"moved", "copied", "kept"} => outcome[f] = "placed"
                 /\ conn[<<f, Last(f)>>] \in {"closed", "lost"} => outcome[f] = "over"
                 /\ conn[<<f, Last(f)>>] \notin {"moved", "copied", "kept", "closed", "lost"}
                       => outcome[f] = "none"
BY DEF outcome

\* A step of one transfer changes the outcome of no other.
LEMMA OutcomeMoves ==
    ASSUME NEW f \in Files,
           \A g \in Files \ {f} : /\ conn'[<<g, Last(g)>>] = conn[<<g, Last(g)>>]
                                  /\ record'[g] = record[g]
    PROVE  /\ outcome' = [outcome EXCEPT ![f] = outcome'[f]]
           /\ outcome'[f] = outcome[f] => outcome' = outcome
<1>1. \A g \in Files \ {f} : outcome'[g] = outcome[g]
  BY DEF outcome
<1>2. outcome = [g \in Files |-> outcome[g]] /\ outcome' = [g \in Files |-> outcome'[g]]
  BY DEF outcome
<1>3. outcome' = [outcome EXCEPT ![f] = outcome'[f]]
  BY <1>1, <1>2
<1>4. outcome'[f] = outcome[f] => outcome' = outcome
  BY <1>1, <1>2
<1>. QED BY <1>3, <1>4

LEMMA InitDelivery == Init => Delivery!Init
<1>. SUFFICES ASSUME Init PROVE Delivery!Init
  OBVIOUS
<1>1. phase = [f \in Files |-> "open"]
  BY LastFacts, PacketFacts DEF Init, phase
<1>2. downloads = {}
  BY DEF Init, downloads
<1>3. outcome = [f \in Files |-> "none"]
  BY LastFacts, PacketFacts DEF Init, outcome
<1>. QED BY <1>1, <1>2, <1>3 DEF Delivery!Init

\* Steps that neither move a sender nor take the first step of a packet.
LEMMA PhaseStays ==
    ASSUME UNCHANGED sender, \A p \in Packets : conn[p] = "unsent" <=> conn'[p] = "unsent"
    PROVE  phase' = phase
<1>1. \A f \in Files : conn[<<f, Last(f)>>] = "unsent" <=> conn'[<<f, Last(f)>>] = "unsent"
  BY LastFacts, PacketFacts
<1>. QED BY <1>1 DEF phase

\* send_file has handed a file over when its FILE_COMPLETE is on its way.
LEMMA HandedOver ==
    ASSUME IInv, NEW f \in Files, conn[<<f, Last(f)>>] # "unsent"
    PROVE  phase[f] = "handed_over"
<1>1. sender[f] = "false" => Unsent(f, Last(f))
  BY LastFacts DEF IInv, OrderInv, Unsent
<1>2. sender[f] # "false"
  BY <1>1, LastFacts DEF IInv, OrderInv
<1>. QED BY <1>2 DEF phase

LEMMA Stutters ==
    ASSUME UNCHANGED <<phase, outcome, disk>>
    PROVE  UNCHANGED Delivery!vars
BY DEF Delivery!vars, downloads

\* send_file hands over with the first byte of FILE_COMPLETE, or when it could not
\* even connect for it, and abandons before.
LEMMA SenderDelivers ==
    ASSUME IInv, ReceivedInv, NEW f \in Files, SenderStep(f)
    PROVE  [Delivery!Next]_(Delivery!vars)
<1>. USE LastFacts DEF tempVars, endVars
<1>0. TypeOK /\ TypeOK'
  BY SenderType DEF IInv
<1>1. UNCHANGED <<record, disk>> /\ downloads' = downloads
  BY DEF SenderStep, SendingStep, BeginSend, RefuseSend, SendPacket, AckArrives,
     ConnectFails, AckTimesOut, downloads
<1>2. \A g \in Files : g # f => sender'[g] = sender[g]
  BY <1>0 DEF SenderStep, SendingStep, BeginSend, RefuseSend, SendPacket, AckArrives,
     ConnectFails, AckTimesOut, Advance, GiveUp, TypeOK
<1>3. \A g \in Files : conn'[<<g, Last(g)>>] = conn[<<g, Last(g)>>] \/ (g = f /\ SendPacket(f))
  <2>1. CASE SendPacket(f)
    <3>1. \A p \in Packets : p # <<f, step[f]>> => conn'[p] = conn[p]
      BY <1>0, <2>1 DEF SendPacket, TypeOK
    <3>. QED BY <2>1, <3>1, PacketFacts
  <2>2. CASE ~SendPacket(f)
    BY <2>2 DEF SenderStep, SendingStep, BeginSend, RefuseSend, AckArrives,
       ConnectFails, AckTimesOut
  <2>. QED BY <2>1, <2>2
<1>8. outcome' = outcome
  <2>1. SendPacket(f) => conn[<<f, step[f]>>] = "unsent" /\ conn'[<<f, step[f]>>] = "wire"
    <3>1. SendPacket(f) => <<f, step[f]>> \in Packets /\ step[f] \in 0..Last(f)
      BY <1>0, PacketFacts DEF TypeOK
    <3>. QED BY <1>0, <3>1 DEF SendPacket, IInv, OrderInv, Unsent, TypeOK
  <2>2. \A g \in Files : \/ conn'[<<g, Last(g)>>] = conn[<<g, Last(g)>>]
                         \/ conn[<<g, Last(g)>>] = "unsent" /\ conn'[<<g, Last(g)>>] = "wire"
    <3>1. CASE SendPacket(f) /\ step[f] # Last(f)
      <4>1. \A p \in Packets : p # <<f, step[f]>> => conn'[p] = conn[p]
        BY <1>0, <3>1 DEF SendPacket, TypeOK
      <4>. QED BY <3>1, <4>1, PacketFacts
    <3>. QED BY <1>3, <2>1, <3>1
  <2>. QED BY <1>1, <2>2 DEF outcome
<1>4. \A g \in Files : g # f => phase'[g] = phase[g]
  BY <1>2, <1>3 DEF phase
<1>5. \/ phase'[f] = phase[f]
      \/ phase[f] = "open" /\ phase'[f] \in {"handed_over", "abandoned"}
  <2>1. CASE RefuseSend(f) \/ BeginSend(f)
    <3>1. conn[<<f, Last(f)>>] = "unsent" /\ conn' = conn
      BY <1>0, <2>1 DEF RefuseSend, BeginSend, IInv, OrderInv, Unsent, TypeOK
    <3>. QED BY <1>0, <2>1, <3>1 DEF RefuseSend, BeginSend, phase, TypeOK
  <2>2. CASE SendPacket(f)
    BY <1>0, <2>2 DEF SendPacket, phase, TypeOK
  <2>3. CASE AckArrives(f)
    <3>1. conn' = conn /\ sender[f] = "awaiting"
      BY <2>3 DEF AckArrives
    <3>2. CASE step[f] = Last(f)
      <4>1. conn[<<f, Last(f)>>] # "unsent"
        BY <3>1, <3>2 DEF ReceivedInv
      <4>2. sender'[f] = "true"
        BY <1>0, <2>3, <3>2 DEF AckArrives, Advance, TypeOK
      <4>. QED BY <3>1, <4>1, <4>2 DEF phase
    <3>3. CASE step[f] # Last(f)
      BY <1>0, <2>3, <3>1, <3>3 DEF AckArrives, Advance, TypeOK, phase
    <3>. QED BY <3>2, <3>3
  <2>4. CASE ConnectFails(f) \/ AckTimesOut(f)
    <3>1. conn' = conn /\ sender[f] \in {"sending", "awaiting"} /\ GiveUp(f)
      BY <2>4 DEF ConnectFails, AckTimesOut
    <3>2. CASE step[f] = Last(f)
      <4>1. sender'[f] = "true"
        BY <1>0, <3>1, <3>2 DEF GiveUp, TypeOK
      <4>. QED BY <3>1, <4>1 DEF phase
    <3>3. CASE step[f] # Last(f)
      <4>1. sender'[f] = "false"
        BY <1>0, <3>1, <3>3 DEF GiveUp, TypeOK
      <4>2. conn[<<f, Last(f)>>] = "unsent"
        BY <1>0, <3>3, StepFacts DEF IInv, OrderInv, Unsent
      <4>. QED BY <3>1, <4>1, <4>2 DEF phase
    <3>. QED BY <3>2, <3>3
  <2>. QED BY <2>1, <2>2, <2>3, <2>4 DEF SenderStep, SendingStep
<1>6. CASE phase'[f] = phase[f]
  <2>1. phase' = phase
    BY <1>4, <1>6 DEF phase
  <2>. QED BY <1>1, <1>8, <2>1, Stutters
<1>7. ASSUME NEW to \in {"handed_over", "abandoned"}, phase[f] = "open", phase'[f] = to
      PROVE  Delivery!Next
  <2>1. phase' = [phase EXCEPT ![f] = to]
    BY <1>4, <1>7 DEF phase
  <2>2. Delivery!HandOver(f) \/ Delivery!Abandon(f)
    BY <1>1, <1>7, <1>8, <2>1 DEF Delivery!HandOver, Delivery!Abandon, Delivery!Leave
  <2>. QED BY <2>2 DEF Delivery!Next
<1>. QED BY <1>5, <1>6, <1>7

\* A file that lands takes the place of at most one other, which has its name.
LEMMA LandDelivers ==
    ASSUME IInv, CopyInv, NEW f \in Files, NEW chunks, Land(f, chunks)
    PROVE  /\ Free(dest[f]) => downloads' = downloads \cup {f}
           /\ \/ downloads' = downloads \cup {f}
              \/ \E g \in downloads \ {f} : NameOf[g] = NameOf[f]
                                           /\ downloads' = (downloads \ {g}) \cup {f}
<1>. DEFINE g == disk[dest[f]].owner
<1>0. TypeOK /\ dest[f] \in Paths
  BY DEF IInv, TypeOK
<1>1. \A path \in Paths : disk'[path].owner = IF path = dest[f] THEN f ELSE disk[path].owner
  BY <1>0 DEF Land, TypeOK
<1>2. f # NoFile
  BY NoFileAssumption
<1>3. f \in downloads' /\ downloads' \subseteq downloads \cup {f}
  BY <1>0, <1>1, <1>2 DEF downloads
<1>4. \A h \in downloads : h # g => h \in downloads'
  BY <1>1, <1>2 DEF downloads
<1>5. CASE g \notin downloads \/ g \in downloads'
  BY <1>3, <1>4, <1>5
<1>6. CASE g \in downloads /\ g \notin downloads'
  <2>1. downloads' = (downloads \ {g}) \cup {f}
    BY <1>3, <1>4, <1>6
  <2>2. g # f
    BY <1>3, <1>6
  <2>3. g # NoFile /\ g \in Files
    BY <1>0, <1>6 DEF downloads, TypeOK
  <2>4. NameOf[g] = NameOf[f]
    <3>1. dest[g] = dest[f]
      BY <1>0, <2>3 DEF IInv, DiskInv
    <3>. QED BY <2>3, <3>1 DEF CopyInv
  <2>. QED BY <1>6, <2>1, <2>2, <2>3, <2>4 DEF Free
<1>. QED BY <1>5, <1>6

\* rename, copy and remove: the file is begun, taken back, or in its place.
LEMMA PlaceDelivers ==
    ASSUME IInv, CopyInv, NEW f \in Files, PlaceStep(f)
    PROVE  [Delivery!Next]_(Delivery!vars)
<1>0. TypeOK /\ <<f, Last(f)>> \in Packets /\ dest[f] \in Paths
  BY LastFacts, PacketFacts DEF IInv, TypeOK
<1>1. conn[<<f, Last(f)>>] \notin {"unsent", "closed"} /\ record' = record /\ record[f] = "none"
  BY PlaceMoves DEF Claimed, IInv, RecordInv
<1>2. phase' = phase /\ phase[f] = "handed_over"
  BY <1>0, <1>1, NothingTakenBack, PhaseStays, HandedOver DEF senderVars, CompleteStep
<1>3. \A g \in Files \ {f} : conn'[<<g, Last(g)>>] = conn[<<g, Last(g)>>]
  BY CompleteMoves DEF CompleteStep
<1>4. /\ outcome' = [outcome EXCEPT ![f] = outcome'[f]]
      /\ outcome'[f] = outcome[f] => outcome' = outcome
  BY <1>1, <1>3, OutcomeMoves
<1>5. ASSUME NEW from, NEW to, Go(<<f, Last(f)>>, from, to)
      PROVE  conn[<<f, Last(f)>>] = from /\ conn'[<<f, Last(f)>>] = to
  BY <1>0, <1>5 DEF Go, TypeOK
<1>6. CASE RenameThrows(f) \/ CopyRefused(f) \/ RemoveTemp(f) \/ RemoveThrows(f)
  <2>1. outcome'[f] = outcome[f]
    BY <1>1, <1>5, <1>6 DEF RenameThrows, CopyRefused, RemoveTemp, RemoveThrows, outcome
  <2>2. disk' = disk
    BY <1>6 DEF RenameThrows, CopyRefused, RemoveTemp, RemoveThrows, endVars
  <2>. QED BY <1>2, <1>4, <2>1, <2>2, Stutters
<1>7. CASE RenameToDestination(f) \/ FinishCopy(f)
  <2>1. outcome[f] = "none" /\ outcome'[f] = "placed"
    BY <1>1, <1>5, <1>7 DEF RenameToDestination, FinishCopy, outcome
  <2>2. Land(f, written[f])
    BY <1>7 DEF RenameToDestination, FinishCopy
  <2>3. Delivery!Place(f)
    BY <1>2, <1>4, <2>1, <2>2, LandDelivers DEF Delivery!Place, Delivery!Turn
  <2>. QED BY <2>3 DEF Delivery!Next
<1>8. ASSUME outcome[f] = "none", outcome'[f] = "none",
             downloads' \in {downloads \cup {f}, downloads \ {f}}
      PROVE  Delivery!Next
  BY <1>2, <1>4, <1>8 DEF Delivery!Next, Delivery!Prepare
<1>9. CASE BeginCopy(f)
  <2>1. outcome[f] = "none" /\ outcome'[f] = "none"
    BY <1>1, <1>5, <1>9 DEF BeginCopy, outcome
  <2>2. Free(dest[f]) /\ Land(f, {})
    BY <1>9 DEF BeginCopy
  <2>. QED BY <1>8, <2>1, <2>2, LandDelivers
<1>10. CASE CopyBreaksOff(f)
  <2>1. outcome[f] = "none" /\ outcome'[f] = "none"
    BY <1>1, <1>5, <1>10 DEF CopyBreaksOff, outcome
  <2>2. CASE disk' = disk
    BY <1>2, <1>4, <2>1, <2>2, Stutters
  <2>3. CASE disk' = [disk EXCEPT ![dest[f]] = [owner |-> NoFile, chunks |-> {}]]
    <3>1. disk[dest[f]].owner = f
      BY <1>10 DEF CopyBreaksOff, Go, CopyInv
    <3>2. \A path \in Paths : disk[path].owner = f => path = dest[f]
      BY DEF IInv, DiskInv
    <3>3. \A path \in Paths :
             disk'[path].owner = IF path = dest[f] THEN NoFile ELSE disk[path].owner
      BY <1>0, <2>3 DEF TypeOK
    <3>4. downloads' = downloads \ {f}
      BY <1>0, <3>1, <3>2, <3>3 DEF downloads
    <3>. QED BY <1>8, <2>1, <3>4
  <2>. QED BY <1>10, <2>2, <2>3 DEF CopyBreaksOff
<1>. QED BY <1>6, <1>7, <1>9, <1>10 DEF PlaceStep

LEMMA CompleteDelivers ==
    ASSUME IInv, CopyInv, NEW f \in Files, CompleteStep(f)
    PROVE  [Delivery!Next]_(Delivery!vars)
<1>. USE DEF tempVars, endVars
<1>0. TypeOK /\ <<f, Last(f)>> \in Packets
  BY LastFacts, PacketFacts DEF IInv
<1>1. conn[<<f, Last(f)>>] \notin {"unsent", "lost", "closed"}
  BY CompleteMoves DEF Claimed
<1>2. phase' = phase /\ phase[f] = "handed_over"
  BY <1>0, <1>1, NothingTakenBack, PhaseStays, HandedOver DEF senderVars
<1>3. record[f] = "none" /\ outcome[f] \in {"none", "placed"}
  BY <1>0, <1>1 DEF IInv, RecordInv, outcome
<1>4. /\ \A g \in Files \ {f} : conn'[<<g, Last(g)>>] = conn[<<g, Last(g)>>]
  BY CompleteMoves
<1>5. ASSUME ~PlaceStep(f)
      PROVE  /\ outcome' = [outcome EXCEPT ![f] = outcome'[f]]
             /\ outcome'[f] = outcome[f] => outcome' = outcome
             /\ disk' = disk /\ downloads' = downloads
  <2>1. disk' = disk /\ \A g \in Files \ {f} : record'[g] = record[g]
    BY <1>0, <1>5 DEF CompleteStep, ClaimReceive, CheckCount, CheckHash, Discard,
       ChooseDestination, ChooseThrows, Report, TypeOK
  <2>. QED BY <1>4, <2>1, OutcomeMoves DEF downloads
<1>6. ASSUME ~PlaceStep(f), outcome'[f] = "over" PROVE Delivery!Next
  <2>1. {f} \in SUBSET {g \in Files : phase[g] = "handed_over"
                                      /\ outcome[g] \in {"none", "placed"}}
    BY <1>2, <1>3
  <2>2. outcome' = [g \in Files |-> IF g \in {f} THEN "over" ELSE outcome[g]]
    BY <1>5, <1>6 DEF outcome
  <2>3. Delivery!GiveUp
    BY <1>2, <1>5, <1>6, <2>1, <2>2 DEF Delivery!GiveUp
  <2>. QED BY <2>3 DEF Delivery!Next
<1>7. ASSUME ~PlaceStep(f), outcome'[f] = outcome[f] PROVE UNCHANGED Delivery!vars
  BY <1>2, <1>5, <1>7, Stutters
<1>8. CASE \/ ClaimReceive(f) \/ CheckCount(f) \/ CheckHash(f)
           \/ ChooseDestination(f) \/ ChooseThrows(f)
  <2>1. record'[f] = "none" /\ ~PlaceStep(f)
    BY <1>3, <1>8 DEF ClaimReceive, CheckCount, CheckHash, ChooseDestination, ChooseThrows,
       PlaceStep, RenameToDestination, RenameThrows, BeginCopy, CopyRefused, FinishCopy,
       CopyBreaksOff, RemoveTemp, RemoveThrows, Go
  <2>2. /\ conn[<<f, Last(f)>>] \in {"acked", "claimed", "counted", "verified"}
        /\ conn'[<<f, Last(f)>>] \in {"claimed", "counted", "incomplete", "verified", "corrupt",
                                    "placing", "closed"}
    BY <1>0, <1>8 DEF ClaimReceive, CheckCount, CheckHash, ChooseDestination, ChooseThrows, Go,
       TypeOK
  <2>3. outcome[f] = "none" /\ outcome'[f] \in {"none", "over"}
    BY <1>3, <2>1, <2>2 DEF outcome
  <2>. QED BY <1>6, <1>7, <2>1, <2>3
<1>9. CASE Discard(f)
  <2>1. /\ conn[<<f, Last(f)>>] \in {"incomplete", "corrupt"}
        /\ conn'[<<f, Last(f)>>] = "closed" /\ record'[f] \in {"none", "failed"}
    BY <1>0, <1>3, <1>9 DEF Discard, TypeOK
  <2>2. ~PlaceStep(f) /\ outcome'[f] \in {"over", "failed"}
    BY <2>1 DEF PlaceStep, RenameToDestination, RenameThrows, BeginCopy, CopyRefused, FinishCopy,
       CopyBreaksOff, RemoveTemp, RemoveThrows, Go, outcome
  <2>3. outcome'[f] = "failed" => Delivery!Reject(f)
    BY <1>2, <1>3, <1>5, <2>2 DEF Delivery!Reject, Delivery!Turn
  <2>. QED BY <1>6, <2>2, <2>3 DEF Delivery!Next
<1>10. CASE Report(f)
  <2>1. /\ conn[<<f, Last(f)>>] \in {"moved", "kept", "unplaced"}
        /\ record'[f] = IF conn[<<f, Last(f)>>] = "moved" THEN "saved" ELSE "failed"
    BY <1>0, <1>10 DEF Report, TypeOK
  <2>2. ~PlaceStep(f) /\ outcome'[f] = record'[f]
    BY <2>1 DEF PlaceStep, RenameToDestination, RenameThrows, BeginCopy, CopyRefused, FinishCopy,
       CopyBreaksOff, RemoveTemp, RemoveThrows, Go, outcome
  <2>3. conn[<<f, Last(f)>>] = "moved" => outcome[f] = "placed"
    BY <1>3 DEF outcome
  <2>4. Delivery!Confirm(f) \/ Delivery!Reject(f)
    BY <1>2, <1>3, <1>5, <2>1, <2>2, <2>3 DEF Delivery!Confirm, Delivery!Reject, Delivery!Turn
  <2>. QED BY <2>4 DEF Delivery!Next
<1>. QED BY <1>8, <1>9, <1>10, PlaceDelivers DEF CompleteStep

\* Losses and crashes take what was handed over and not reported.
LEMMA LossDelivers ==
    ASSUME IInv, UNCHANGED <<sender, disk, record>>,
           \A p \in Packets : conn[p] = "unsent" <=> conn'[p] = "unsent",
           \A f \in Files : \/ outcome'[f] = outcome[f]
                            \/ /\ conn[<<f, Last(f)>>] # "unsent" /\ outcome'[f] = "over"
                               /\ outcome[f] \in {"none", "placed"}
    PROVE  [Delivery!Next]_(Delivery!vars)
<1>. DEFINE S == {f \in Files : outcome'[f] # outcome[f]}
<1>1. phase' = phase /\ downloads' = downloads
  BY PhaseStays DEF downloads
<1>2. S \in SUBSET {f \in Files : phase[f] = "handed_over" /\ outcome[f] \in {"none", "placed"}}
  BY HandedOver
<1>3. outcome' = [f \in Files |-> IF f \in S THEN "over" ELSE outcome[f]]
  BY DEF outcome
<1>4. Delivery!GiveUp
  BY <1>1, <1>2, <1>3 DEF Delivery!GiveUp
<1>. QED BY <1>4 DEF Delivery!Next

LEMMA NextDelivers ==
    IInv /\ ReceivedInv /\ CopyInv /\ [Next]_vars => [Delivery!Next]_(Delivery!vars)
<1>. SUFFICES ASSUME IInv, ReceivedInv, CopyInv, [Next]_vars
              PROVE  [Delivery!Next]_(Delivery!vars)
  OBVIOUS
<1>0. TypeOK
  BY DEF IInv
<1>1. ASSUME NEW f \in Files, SenderStep(f) PROVE [Delivery!Next]_(Delivery!vars)
  BY <1>1, SenderDelivers
<1>2. ASSUME NEW f \in Files, CompleteStep(f) PROVE [Delivery!Next]_(Delivery!vars)
  BY <1>2, CompleteDelivers
<1>3. ASSUME NEW f \in Files, StartStep(f) \/ \E i \in Data(f) : ChunkStep(f, i)
      PROVE  UNCHANGED Delivery!vars
  <2>1. /\ UNCHANGED <<record, disk>>
        /\ \A g \in Files : conn'[<<g, Last(g)>>] = conn[<<g, Last(g)>>]
    BY <1>0, <1>3, OtherPackets
  <2>2. phase' = phase
    BY <1>0, <1>3, NothingTakenBack, PhaseStays DEF senderVars
  <2>3. outcome' = outcome
    BY <2>1 DEF outcome
  <2>. QED BY <2>1, <2>2, <2>3, Stutters
<1>4. ASSUME (\E p \in Packets : ConnectionStep(p)) \/ Restart
      PROVE  [Delivery!Next]_(Delivery!vars)
  <2>1. UNCHANGED <<record, disk>>
    BY <1>4 DEF ConnectionStep, LosePacket, Acknowledge, AcknowledgeThrows, Restart, endVars
  <2>2. sender' = sender /\ \A p \in Packets : conn[p] = "unsent" <=> conn'[p] = "unsent"
    BY <1>0, <1>4, NothingTakenBack DEF senderVars
  <2>3. \A p \in Packets :
           \/ conn'[p] = conn[p]
           \/ conn[p] = "wire" /\ conn'[p] = "acked"
           \/ conn[p] # "unsent" /\ conn'[p] \in {"lost", "closed"}
    BY <1>0, <1>4 DEF ConnectionStep, LosePacket, Acknowledge, AcknowledgeThrows, Restart, Go,
       TypeOK
  <2>4. \A f \in Files : LET p == <<f, Last(f)>> IN
           \/ conn'[p] = conn[p]
           \/ conn[p] = "wire" /\ conn'[p] = "acked"
           \/ conn[p] # "unsent" /\ conn'[p] \in {"lost", "closed"}
    BY <2>3, LastFacts, PacketFacts
  <2>5. \A f \in Files : \/ outcome'[f] = outcome[f]
                         \/ /\ conn[<<f, Last(f)>>] # "unsent" /\ outcome'[f] = "over"
                            /\ outcome[f] \in {"none", "placed"}
    BY <2>1, <2>4 DEF outcome
  <2>. QED BY <2>1, <2>2, <2>5, LossDelivers
<1>5. CASE UNCHANGED vars
  BY <1>5, Stutters DEF vars, phase, outcome
<1>. QED BY <1>1, <1>2, <1>3, <1>4, <1>5 DEF Next

\* The engine, with its packets, threads, temp files and destinations, does nothing
\* a user of FileDelivery could not see there: one outcome for a transfer handed
\* over, none for one abandoned, a file reported saved only once it was in place, and
\* none displaced but by one of its name.
THEOREM ImplementsDeliveryHolds == Spec => ImplementsDelivery
<1>1. Spec => [](IInv /\ ReceivedInv /\ CopyInv)
  BY InitReceived, NextReceived, InitCopies, NextCopies, TypeCorrect, Invariance, PTL DEF Spec
<1>. QED BY <1>1, InitDelivery, NextDelivers, PTL DEF Spec, ImplementsDelivery, Delivery!Spec

-----------------------------------------------------------------------------
(* The connections of a transfer are those Transport describes. *)

InitialStates == {"unsent", "wire", "lost", "acked"}

LEMMA AnswerStays ==
    ASSUME UNCHANGED <<sender, step>> PROVE answer' = answer
BY DEF answer

\* A packet changes its state, and with it what Transport knows of it.
LEMMA FateMoves ==
    ASSUME TypeOK, NEW p \in Packets, NEW from \in ConnStates, NEW to \in ConnStates,
           Go(p, from, to)
    PROVE  /\ from \notin InitialStates /\ to \notin InitialStates => fate' = fate
           /\ from = "unsent" /\ to = "wire" => fate' = fate
           /\ from = "wire" /\ to = "acked" =>
                 fate[p] = "open" /\ fate' = [fate EXCEPT ![p] = "accepted"]
           /\ from = "wire" /\ to = "closed" =>
                 fate[p] = "open" /\ fate' = [fate EXCEPT ![p] = "over"]
           /\ from = "acked" /\ to \notin InitialStates =>
                 fate[p] = "accepted" /\ fate' = [fate EXCEPT ![p] = "over"]
<1>. USE DEF InitialStates, Go, TypeOK
<1>1. from = "wire" => fate[p] = "open"
  BY DEF fate
<1>2. from = "acked" => fate[p] = "accepted"
  BY DEF fate
<1>3. from \notin InitialStates /\ to \notin InitialStates => fate' = fate
  BY DEF fate
<1>4. from = "unsent" /\ to = "wire" => fate' = fate
  BY DEF fate
<1>5. from = "wire" /\ to = "acked" => fate' = [fate EXCEPT ![p] = "accepted"]
  BY DEF fate
<1>6. from \in {"wire", "acked"} /\ to \notin InitialStates
          => fate' = [fate EXCEPT ![p] = "over"]
  BY DEF fate
<1>. QED BY <1>1, <1>2, <1>3, <1>4, <1>5, <1>6

\* The steps of a handler: the first takes the packet, the others nobody sees.
LEMMA HandlerTransports ==
    ASSUME TypeOK, NEW p \in Packets, UNCHANGED <<sender, step>>,
           \E from, to \in ConnStates \ {"unsent", "wire", "lost"} :
               to # "acked" /\ Go(p, from, to)
    PROVE  [Network!Next]_(Network!vars)
<1>1. PICK from, to \in ConnStates \ {"unsent", "wire", "lost"} :
          to # "acked" /\ Go(p, from, to)
  OBVIOUS
<1>2. to \notin InitialStates
  BY <1>1 DEF InitialStates
<1>3. CASE from = "acked"
  BY <1>1, <1>2, <1>3, FateMoves, AnswerStays
     DEF Network!Next, Network!Dispatch, Network!Become
<1>4. CASE from # "acked"
  <2>1. from \notin InitialStates
    BY <1>1, <1>4 DEF InitialStates
  <2>. QED BY <1>1, <1>2, <2>1, FateMoves, AnswerStays DEF Network!vars
<1>. QED BY <1>3, <1>4

LEMMA ReceiverTransports ==
    ASSUME TypeOK, NEW f \in Files,
           StartStep(f) \/ CompleteStep(f) \/ \E i \in Data(f) : ChunkStep(f, i)
    PROVE  [Network!Next]_(Network!vars)
<1>. DEFINE Inner == ConnStates \ {"unsent", "wire", "lost"}
<1>1. UNCHANGED <<sender, step>>
  BY NothingTakenBack DEF senderVars
<1>2. CASE StartStep(f)
  <2>1. <<f, 0>> \in Packets
    BY LastFacts, PacketFacts
  <2>2. \E from, to \in Inner : to # "acked" /\ Go(<<f, 0>>, from, to)
    BY <1>2 DEF StartStep, PreAllocate, InsertInFlight
  <2>. QED BY <1>1, <2>1, <2>2, HandlerTransports
<1>3. ASSUME NEW i \in Data(f), ChunkStep(f, i) PROVE [Network!Next]_(Network!vars)
  <2>1. <<f, i>> \in Packets
    BY LastFacts, PacketFacts
  <2>2. \E from, to \in Inner : to # "acked" /\ Go(<<f, i>>, from, to)
    BY <1>3 DEF ChunkStep, FindReceive, WriteChunk, MarkReceived, CloseStream
  <2>. QED BY <1>1, <2>1, <2>2, HandlerTransports
<1>4. CASE CompleteStep(f)
  <2>1. <<f, Last(f)>> \in Packets
    BY LastFacts, PacketFacts
  <2>2. \E from, to \in Inner : to # "acked" /\ Go(<<f, Last(f)>>, from, to)
    <3>1. CASE Discard(f)
      BY <3>1 DEF Discard, Go
    <3>2. CASE \/ ClaimReceive(f) \/ CheckCount(f) \/ CheckHash(f)
               \/ ChooseDestination(f) \/ ChooseThrows(f)
      BY <3>2 DEF ClaimReceive, CheckCount, CheckHash, ChooseDestination, ChooseThrows
    <3>3. CASE PlaceStep(f)
      BY <3>3 DEF PlaceStep, RenameToDestination, RenameThrows, BeginCopy, CopyRefused,
         FinishCopy, CopyBreaksOff, RemoveTemp, RemoveThrows
    <3>4. CASE Report(f)
      BY <3>4 DEF Report, Go
    <3>. QED BY <1>4, <3>1, <3>2, <3>3, <3>4 DEF CompleteStep
  <2>. QED BY <1>1, <2>1, <2>2, HandlerTransports
<1>. QED BY <1>2, <1>3, <1>4

\* Packets that never arrive.
LEMMA LossRefuses ==
    ASSUME TypeOK, NEW S \in SUBSET Packets, \A p \in S : conn[p] = "wire",
           UNCHANGED <<sender, step>>,
           conn' = [p \in Packets |-> IF p \in S THEN "lost" ELSE conn[p]]
    PROVE  Network!Refuse
<1>1. S \in SUBSET Network!Open
  BY DEF Network!Open, fate
<1>2. fate' = [p \in Packets |-> IF p \in S THEN "refused" ELSE fate[p]]
  BY DEF fate
<1>. QED BY <1>1, <1>2, AnswerStays DEF Network!Refuse

LEMMA ConnectionTransports ==
    ASSUME TypeOK, OrderInv, NEW p \in Packets, ConnectionStep(p)
    PROVE  Network!Next
<1>1. UNCHANGED <<sender, step>>
  BY NothingTakenBack DEF senderVars
<1>2. CASE LosePacket(p)
  <2>1. conn' = [q \in Packets |-> IF q \in {p} THEN "lost" ELSE conn[q]]
    BY <1>2 DEF LosePacket, Go, TypeOK
  <2>2. {p} \in SUBSET Packets /\ \A q \in {p} : conn[q] = "wire"
    BY <1>2 DEF LosePacket, Go
  <2>. QED BY <1>1, <2>1, <2>2, LossRefuses DEF Network!Next
<1>3. CASE Acknowledge(p)
  BY <1>1, <1>3, FateMoves, AnswerStays
     DEF Acknowledge, Network!Next, Network!Accept, Network!Become
<1>4. CASE AcknowledgeThrows(p)
  <2>1. /\ p[1] \in Files /\ p[2] \in 0..Last(p[1]) /\ p = <<p[1], p[2]>>
        /\ step[p[1]] \in Nat /\ Last(p[1]) \in Nat
    BY PacketFacts, StepFacts
  <2>2. conn[p] = "wire"
    BY <1>4 DEF AcknowledgeThrows, Go
  <2>3. ~Unsent(p[1], p[2])
    BY <2>1, <2>2 DEF OrderInv
  <2>4. p[2] <= step[p[1]] /\ (p[2] = step[p[1]] => sender[p[1]] \in {"true", "false"})
    BY <1>4, <2>1, <2>3 DEF AcknowledgeThrows, Unsent, TypeOK
  <2>5. answer[p] # "none"
    BY <2>1, <2>4 DEF answer
  <2>. QED BY <1>1, <1>4, <2>5, FateMoves, AnswerStays
       DEF AcknowledgeThrows, Network!Next, Network!BreakOff, Network!Become
<1>. QED BY <1>2, <1>3, <1>4 DEF ConnectionStep

LEMMA RestartTransports ==
    ASSUME TypeOK, Restart PROVE Network!Next
<1>. DEFINE S == {p \in Packets : conn[p] = "wire"}
<1>1. answer' = answer
  BY NothingTakenBack, AnswerStays DEF senderVars
<1>2. S \in SUBSET Network!Open
  BY DEF Network!Open, fate
<1>3. ASSUME NEW p \in Packets
      PROVE  fate'[p] = IF p \in S THEN "refused"
                        ELSE IF fate[p] = "accepted" THEN "over" ELSE fate[p]
  <2>1. conn'[p] = CASE conn[p] \in {"unsent", "lost"} -> conn[p]
                     [] conn[p] = "wire" -> "lost"
                     [] OTHER -> "closed"
    BY <1>3 DEF Restart
  <2>2. CASE conn[p] \in {"unsent", "lost"}
    BY <2>1, <2>2 DEF fate
  <2>3. CASE conn[p] = "wire"
    BY <2>1, <2>3 DEF fate
  <2>4. CASE conn[p] = "acked"
    BY <2>1, <2>4 DEF fate
  <2>5. CASE conn[p] \notin InitialStates
    BY <2>1, <2>5 DEF fate, InitialStates
  <2>. QED BY <2>2, <2>3, <2>4, <2>5 DEF InitialStates
<1>4. fate' = [p \in Packets |-> IF p \in S THEN "refused"
                                 ELSE IF fate[p] = "accepted" THEN "over" ELSE fate[p]]
  BY <1>3 DEF fate
<1>. QED BY <1>1, <1>2, <1>4 DEF Network!Next, Network!Die

-----------------------------------------------------------------------------
(* The sender's side. *)

\* send_packet comes back to the send_file of f.
LEMMA SenderLearns ==
    ASSUME TypeOK, NEW f \in Files, NEW what \in {"ok", "failed"},
           sender[f] \notin {"true", "false"}, fate' = fate,
           \E to \in {"sending", "true", "false"} : sender' = [sender EXCEPT ![f] = to],
           \/ /\ what = "ok" /\ step' = [step EXCEPT ![f] = @ + 1]
              /\ sender'[f] = "sending"
           \/ /\ what = "failed" /\ step' = step
              /\ sender'[f] \in {"true", "false"}
    PROVE  <<f, step[f]>> \in Packets /\ Network!Learn(<<f, step[f]>>, what)
<1>. DEFINE p == <<f, step[f]>>
<1>1. p \in Packets
  BY StepFacts, LastFacts, PacketFacts
<1>2. answer[p] = "none"
  BY <1>1, StepFacts DEF answer
<1>3. ASSUME NEW q \in Packets, q # p PROVE answer'[q] = answer[q]
  <2>1. /\ q[1] \in Files /\ q[2] \in Nat /\ q = <<q[1], q[2]>>
        /\ step[q[1]] \in Nat
    BY <1>3, PacketFacts, StepFacts, LastFacts
  <2>2. CASE q[1] # f
    BY <2>1, <2>2 DEF answer, TypeOK
  <2>3. CASE q[1] = f
    <3>1. q[2] # step[f]
      BY <1>3, <2>1, <2>3
    <3>2. step'[f] \in {step[f], step[f] + 1}
      BY DEF TypeOK
    <3>3. q[2] < step'[f] <=> q[2] < step[f]
      BY <2>1, <2>3, <3>1, <3>2
    <3>4. q[2] = step'[f] => sender'[f] \notin {"true", "false"}
      BY <2>1, <2>3, <3>1 DEF TypeOK
    <3>. QED BY <2>1, <2>3, <3>1, <3>3, <3>4 DEF answer
  <2>. QED BY <2>2, <2>3
<1>4. answer'[p] = what
  BY <1>1, StepFacts DEF answer, TypeOK
<1>5. answer' = [answer EXCEPT ![p] = what]
  BY <1>1, <1>3, <1>4 DEF answer
<1>. QED BY <1>1, <1>2, <1>5 DEF Network!Learn

LEMMA SenderTransports ==
    ASSUME TypeOK, OrderInv, ReceivedInv, NEW f \in Files, SenderStep(f)
    PROVE  [Network!Next]_(Network!vars)
<1>. DEFINE p == <<f, step[f]>>
<1>0. p \in Packets /\ step[f] \in 0..Last(f)
  BY StepFacts, LastFacts, PacketFacts
<1>1. ASSUME conn' = conn PROVE fate' = fate
  BY <1>1 DEF fate
<1>2. CASE RefuseSend(f)
  BY <1>1, <1>2, SenderLearns
     DEF RefuseSend, recvVars, TypeOK, Network!Next, Network!Fail
<1>3. CASE ConnectFails(f) \/ AckTimesOut(f)
  BY <1>1, <1>3, SenderLearns
     DEF ConnectFails, AckTimesOut, GiveUp, TypeOK, Network!Next, Network!Fail
<1>4. CASE AckArrives(f)
  <2>1. CASE step[f] = Last(f)
    BY <1>1, <1>4, <2>1, SenderLearns
       DEF AckArrives, Advance, TypeOK, Network!Next, Network!Fail
  <2>2. CASE step[f] # Last(f)
    <3>1. Network!Learn(p, "ok")
      BY <1>1, <1>4, <2>2, SenderLearns DEF AckArrives, Advance, TypeOK
    <3>2. conn[p] \notin {"unsent", "wire", "lost"}
      BY <1>4 DEF AckArrives, ReceivedInv
    <3>3. fate[p] \in {"accepted", "over"}
      BY <1>0, <3>2 DEF fate
    <3>. QED BY <1>0, <3>1, <3>3 DEF Network!Next, Network!Succeed
  <2>. QED BY <2>1, <2>2
<1>5. CASE SendPacket(f)
  <2>1. conn[p] = "unsent"
    BY <1>0, <1>5 DEF SendPacket, OrderInv, Unsent
  <2>2. fate' = fate
    BY <1>0, <1>5, <2>1, FateMoves DEF SendPacket, Go
  <2>3. answer' = answer
    BY <1>5 DEF SendPacket, answer, TypeOK
  <2>. QED BY <2>2, <2>3 DEF Network!vars
<1>6. CASE BeginSend(f)
  BY <1>1, <1>6 DEF BeginSend, answer, TypeOK, Network!vars
<1>. QED BY <1>2, <1>3, <1>4, <1>5, <1>6 DEF SenderStep, SendingStep

LEMMA NextTransports ==
    IInv /\ ReceivedInv /\ [Next]_vars => [Network!Next]_(Network!vars)
<1>. SUFFICES ASSUME TypeOK, OrderInv, ReceivedInv, [Next]_vars
              PROVE  [Network!Next]_(Network!vars)
  BY DEF IInv
<1>1. CASE UNCHANGED vars
  BY <1>1 DEF vars, Network!vars, answer, fate
<1>. QED BY <1>1, SenderTransports, ReceiverTransports, ConnectionTransports, RestartTransports
     DEF Next

\* Transfers use their connections within what Transport promises of them: send_file
\* goes on only after an acceptance, a handler runs once for what was accepted, and a
\* crash of the receiver takes both from it without the sender's learning.
THEOREM UsesTransportHolds == Spec => UsesTransport
<1>1. Init => Network!Init
  <2>1. Init => \A p \in Packets : answer[p] = "none" /\ fate[p] = "open"
    BY PacketFacts DEF Init, answer, fate
  <2>. QED BY <2>1 DEF Network!Init, answer, fate
<1>2. Spec => [](IInv /\ ReceivedInv)
  BY InitReceived, NextReceived, TypeCorrect, Invariance, PTL DEF Spec
<1>. QED BY <1>1, <1>2, NextTransports, PTL DEF Spec, UsesTransport, Network!Spec
=============================================================================
