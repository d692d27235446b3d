---------------------------- MODULE FileTransfer ----------------------------
(***************************************************************************)
(* FileTransferEngine: send_file on one machine, the three handlers of     *)
(* the receiver on another, and between them the one-packet connections    *)
(* of TcpTransport.  The receiver runs every connection on a thread of its *)
(* own and acknowledges a packet before it dispatches it, so the sender    *)
(* moves on while earlier packets are still being handled: FILE_START,     *)
(* FILE_CHUNK and FILE_COMPLETE of one transfer race with each other.      *)
(*                                                                         *)
(* Packet <<f, 0>> is the FILE_START of transfer f, <<f, i>> its i-th      *)
(* FILE_CHUNK and <<f, Last(f)>> its FILE_COMPLETE.  File operations have  *)
(* the semantics of Windows, the platform the program ships on: a file     *)
(* that some thread holds open can be neither removed nor renamed.         *)
(***************************************************************************)
EXTENDS Integers, FiniteSets

CONSTANTS
    Files,        \* transfers, each with the fresh file_id of its send_file
    ChunksOf,     \* ChunksOf[f]: chunks the loop of send_file reads from f
    NameOf,       \* NameOf[f]: the file's name, shared by different transfers
    NoFile,       \* holder of a path at which there is no file
    Inline,       \* TRUE: send_packet runs the handler to its end (the tests)
    IoFaults,     \* TRUE: a file operation may fail although nobody interferes
    MaxRestarts   \* bound on crashes of the receiver

ASSUME ChunksAssumption == ChunksOf \in [Files -> Nat]
ASSUME NoFileAssumption == NoFile \notin Files
ASSUME ModeAssumption ==
    Inline \in BOOLEAN /\ IoFaults \in BOOLEAN /\ MaxRestarts \in Nat

Last(f) == ChunksOf[f] + 1
Data(f) == 1..ChunksOf[f]
Packets == UNION {{f} \X (0..Last(f)) : f \in Files}

\* metadata.total_chunks: an empty file still announces one chunk.
TotalChunks(f) == IF ChunksOf[f] = 0 THEN 1 ELSE ChunksOf[f]

Names == {NameOf[f] : f \in Files}
\* file_id.substr(0, 6) is the constant prefix of every generated token, so a
\* name has exactly two places in the downloads directory.
Paths == Names \X {"plain", "suffixed"}

VARIABLES
    sender,    \* sender[f]: where send_file of f is, or what it returned
    step,      \* step[f]: the packet of f that send_file is at
    hashed,    \* hashed[f]: sha256_hex could read the local file
    conn,      \* conn[p]: progress of the connection (thread) of packet p
    handle,    \* handle[p]: the fstream of a chunk handler on the temp file
    inFlight,  \* keys of in_flight_
    received,  \* received[f]: received_chunks of the entry of f
    tempFiles, \* transfers whose temp file exists
    written,   \* written[f]: chunks whose bytes are in the temp file
    dest,      \* dest[f]: destination chosen by handle_file_complete
    disk,      \* disk[path]: what the downloads directory holds there
    record,    \* record[f]: what on_received_ was told of f
    restarts

senderVars == <<sender, step, hashed>>
tempVars   == <<tempFiles, written>>
endVars    == <<dest, disk, record>>
recvVars   == <<handle, inFlight, received, tempVars, endVars, restarts>>
vars == <<sender, step, hashed, conn, handle, inFlight, received, tempFiles,
          written, dest, disk, record, restarts>>

ConnStates ==
    {"unsent", "wire", "lost", "acked", "closed",                 \* any packet
     "allocated",                                                 \* FILE_START
     "found", "written", "marked",                                \* FILE_CHUNK
     "claimed", "counted", "incomplete", "corrupt", "verified",   \* FILE_COMPLETE
     "placing", "fallback", "copying", "copied", "moved", "kept", "unplaced"}

TypeOK ==
    /\ sender \in [Files -> {"idle", "sending", "awaiting", "true", "false"}]
    /\ step \in [Files -> Nat] /\ \A f \in Files : step[f] <= Last(f)
    /\ hashed \in [Files -> BOOLEAN]
    /\ conn \in [Packets -> ConnStates]
    /\ handle \in [Packets -> {"none", "buffered", "flushed"}]
    /\ inFlight \subseteq Files
    /\ received \in [Files -> SUBSET Nat]
    /\ tempFiles \subseteq Files
    /\ written \in [Files -> SUBSET Nat]
    /\ dest \in [Files -> Paths]
    /\ disk \in [Paths -> [owner : Files \cup {NoFile}, chunks : SUBSET Nat]]
    /\ record \in [Files -> {"none", "saved", "failed"}]
    /\ restarts \in Nat

Init ==
    /\ sender = [f \in Files |-> "idle"]
    /\ step = [f \in Files |-> 0]
    /\ hashed = [f \in Files |-> FALSE]
    /\ conn = [p \in Packets |-> "unsent"]
    /\ handle = [p \in Packets |-> "none"]
    /\ inFlight = {}
    /\ received = [f \in Files |-> {}]
    /\ tempFiles = {}
    /\ written = [f \in Files |-> {}]
    /\ dest = [f \in Files |-> <<NameOf[f], "plain">>]
    /\ disk = [path \in Paths |-> [owner |-> NoFile, chunks |-> {}]]
    /\ record = [f \in Files |-> "none"]
    /\ restarts = 0

-----------------------------------------------------------------------------
(* The sending thread: send_file, and the outcomes of send_packet.          *)

\* The target has no address, or the local file cannot be opened.
RefuseSend(f) ==
    /\ ~Inline
    /\ sender[f] = "idle"
    /\ sender' = [sender EXCEPT ![f] = "false"]
    /\ UNCHANGED <<step, hashed, conn, recvVars>>

\* Up to FILE_START.  sha256_hex opens the file a second time and returns ""
\* when it cannot.
BeginSend(f) ==
    /\ sender[f] = "idle"
    /\ sender' = [sender EXCEPT ![f] = "sending"]
    /\ \E ok \in BOOLEAN :
          /\ ok \/ IoFaults
          /\ hashed' = [hashed EXCEPT ![f] = ok]
    /\ UNCHANGED <<step, conn, recvVars>>

\* send_packet connected and wrote its line.
SendPacket(f) ==
    /\ sender[f] = "sending"
    /\ conn' = [conn EXCEPT ![<<f, step[f]>>] = "wire"]
    /\ sender' = [sender EXCEPT ![f] = "awaiting"]
    /\ UNCHANGED <<step, hashed, recvVars>>

\* Mutant: the loop runs once too often.
Advance_PastLast(f) ==
    /\ sender' = [sender EXCEPT ![f] = IF step[f] > Last(f) THEN "true" ELSE "sending"]
    /\ step' = [step EXCEPT ![f] = IF @ > Last(f) THEN @ ELSE @ + 1]

\* send_packet returned a latency: next packet, or the end of send_file.
Advance(f) ==
    IF step[f] = Last(f)
    THEN /\ sender' = [sender EXCEPT ![f] = "true"]
         /\ UNCHANGED step
    ELSE /\ sender' = [sender EXCEPT ![f] = "sending"]
         /\ step' = [step EXCEPT ![f] = @ + 1]

\* Mutant: a lost FILE_COMPLETE is reported as a failed transfer as well.
GiveUp_OnComplete(f) ==
    /\ sender' = [sender EXCEPT ![f] = "false"]
    /\ UNCHANGED step

\* send_packet returned nullopt: FILE_START and FILE_CHUNK abort the transfer,
\* the result of FILE_COMPLETE is not looked at.
GiveUp(f) ==
    /\ sender' = [sender EXCEPT ![f] = IF step[f] = Last(f) THEN "true" ELSE "false"]
    /\ UNCHANGED step

\* Mutant: the end of the connection is taken for an answer.
AckArrives_AnyEnd(f) ==
    /\ sender[f] = "awaiting"
    /\ conn[<<f, step[f]>>] # "wire"
    /\ Inline => conn[<<f, step[f]>>] = "closed"
    /\ Advance(f)
    /\ UNCHANGED <<hashed, conn, recvVars>>

AckArrives(f) ==
    /\ sender[f] = "awaiting"
    /\ conn[<<f, step[f]>>] \notin {"wire", "lost"}
    /\ Inline => conn[<<f, step[f]>>] = "closed"
    /\ Advance(f)
    /\ UNCHANGED <<hashed, conn, recvVars>>

\* The connection is refused or times out; nothing was delivered.
ConnectFails(f) ==
    /\ ~Inline
    /\ sender[f] = "sending"
    /\ GiveUp(f)
    /\ UNCHANGED <<hashed, conn, recvVars>>

\* Mutant: the wait for the ACK has no timeout.
AckTimesOut_Never(f) ==
    /\ FALSE
    /\ UNCHANGED vars

\* No ACK within the timeout, whatever the receiver has done or will do.
AckTimesOut(f) ==
    /\ ~Inline
    /\ sender[f] = "awaiting"
    /\ GiveUp(f)
    /\ UNCHANGED <<hashed, conn, recvVars>>

-----------------------------------------------------------------------------
(* The receiver's connection threads: handle_connection.                    *)

Go(p, from, to) == conn[p] = from /\ conn' = [conn EXCEPT ![p] = to]

\* The line never reaches a connection thread.
LosePacket(p) ==
    /\ ~Inline
    /\ Go(p, "wire", "lost")
    /\ UNCHANGED <<senderVars, recvVars>>

Acknowledge(p) ==
    /\ Go(p, "wire", "acked")
    /\ UNCHANGED <<senderVars, recvVars>>

\* The sender has closed its socket: writing the ACK throws before dispatch.
AcknowledgeThrows(p) ==
    /\ ~(sender[p[1]] = "awaiting" /\ step[p[1]] = p[2])
    /\ Go(p, "wire", "closed")
    /\ UNCHANGED <<senderVars, recvVars>>

-----------------------------------------------------------------------------
(* handle_file_start *)

\* The temp file is truncated to zeros, or could not be created.
PreAllocate(f) ==
    /\ Go(<<f, 0>>, "acked", "allocated")
    /\ \/ /\ tempFiles' = tempFiles \cup {f}
          /\ written' = [written EXCEPT ![f] = {}]
       \/ /\ IoFaults
          /\ UNCHANGED tempVars
    /\ UNCHANGED <<senderVars, handle, inFlight, received, endVars, restarts>>

InsertInFlight(f) ==
    /\ Go(<<f, 0>>, "allocated", "closed")
    /\ inFlight' = inFlight \cup {f}
    /\ received' = [received EXCEPT ![f] = {}]
    /\ UNCHANGED <<senderVars, handle, tempVars, endVars, restarts>>

-----------------------------------------------------------------------------
(* handle_file_chunk *)

\* The lookup under in_flight_mutex_; a chunk without an entry is dropped.
FindReceive(f, i) ==
    /\ Go(<<f, i>>, "acked", IF f \in inFlight THEN "found" ELSE "closed")
    /\ UNCHANGED <<senderVars, recvVars>>

\* Mutant: the stream is opened in a mode that creates the file.
WriteChunk_Creating(f, i) ==
    /\ Go(<<f, i>>, "found", "written")
    /\ tempFiles' = tempFiles \cup {f}
    /\ written' = [written EXCEPT ![f] = @ \cup {i}]
    /\ handle' = [handle EXCEPT ![<<f, i>>] = "flushed"]
    /\ UNCHANGED <<senderVars, inFlight, received, endVars, restarts>>

\* Open, seek, write.  The stream throws nothing: without a temp file, or when
\* the open fails, the write does nothing.  Otherwise the bytes are in the file
\* already or still in the buffer of the stream, which stays open.
WriteChunk(f, i) ==
    /\ Go(<<f, i>>, "found", "written")
    /\ \/ /\ f \in tempFiles
          /\ \/ /\ handle' = [handle EXCEPT ![<<f, i>>] = "flushed"]
                /\ written' = [written EXCEPT ![f] = @ \cup {i}]
             \/ /\ handle' = [handle EXCEPT ![<<f, i>>] = "buffered"]
                /\ UNCHANGED written
       \/ /\ f \notin tempFiles \/ IoFaults
          /\ UNCHANGED <<handle, written>>
    /\ UNCHANGED <<senderVars, inFlight, received, tempFiles, endVars, restarts>>

\* received_chunks is updated while the stream is still open.
MarkReceived(f, i) ==
    /\ Go(<<f, i>>, "written", "marked")
    /\ received' = [received EXCEPT ![f] = @ \cup {i}]
    /\ UNCHANGED <<senderVars, handle, inFlight, tempVars, endVars, restarts>>

\* The stream's destructor at the end of the try block flushes and closes.
CloseStream(f, i) ==
    /\ Go(<<f, i>>, "marked", "closed")
    /\ handle' = [handle EXCEPT ![<<f, i>>] = "none"]
    /\ \/ /\ handle[<<f, i>>] = "buffered"
          /\ written' = [written EXCEPT ![f] = @ \cup {i}]
       \/ /\ handle[<<f, i>>] # "buffered" \/ IoFaults
          /\ UNCHANGED written
    /\ UNCHANGED <<senderVars, inFlight, received, tempFiles, endVars, restarts>>

-----------------------------------------------------------------------------
(* handle_file_complete *)

Busy(f) == \E i \in Data(f) : handle[<<f, i>>] # "none"

\* Mutant: the entry is looked up and not erased.
ClaimReceive_KeepsEntry(f) ==
    /\ Go(<<f, Last(f)>>, "acked", IF f \in inFlight THEN "claimed" ELSE "closed")
    /\ UNCHANGED <<senderVars, handle, inFlight, received, tempVars, endVars, restarts>>

\* Lookup and erase under in_flight_mutex_.
ClaimReceive(f) ==
    /\ Go(<<f, Last(f)>>, "acked", IF f \in inFlight THEN "claimed" ELSE "closed")
    /\ inFlight' = inFlight \ {f}
    /\ UNCHANGED <<senderVars, handle, received, tempVars, endVars, restarts>>

CheckCount(f) ==
    /\ Go(<<f, Last(f)>>, "claimed",
          IF Cardinality(received[f]) = TotalChunks(f) THEN "counted" ELSE "incomplete")
    /\ UNCHANGED <<senderVars, recvVars>>

\* Mutant: the hash is not compared.
HashMatches_Unchecked(f) == TRUE

\* An empty checksum skips the check; otherwise it passes exactly on the bytes
\* the sender hashed.
HashMatches(f) ==
    \/ ~hashed[f]
    \/ f \in tempFiles /\ written[f] = Data(f)

\* sha256_hex also returns "" when the temp file cannot be opened.
HashMayDiffer(f) == hashed[f] /\ (~HashMatches(f) \/ IoFaults)

CheckHash(f) ==
    /\ \/ HashMatches(f) /\ Go(<<f, Last(f)>>, "counted", "verified")
       \/ HashMayDiffer(f) /\ Go(<<f, Last(f)>>, "counted", "corrupt")
    /\ UNCHANGED <<senderVars, recvVars>>

\* filesystem::remove throws on a file somebody holds open; the exception ends
\* the connection thread before on_received_ is called.
Discard(f) ==
    /\ conn[<<f, Last(f)>>] \in {"incomplete", "corrupt"}
    /\ conn' = [conn EXCEPT ![<<f, Last(f)>>] = "closed"]
    /\ \/ /\ ~Busy(f)
          /\ tempFiles' = tempFiles \ {f}
          /\ record' = [record EXCEPT ![f] = "failed"]
       \/ /\ Busy(f) \/ IoFaults
          /\ UNCHANGED <<tempFiles, record>>
    /\ UNCHANGED <<senderVars, handle, inFlight, received, written, dest, disk,
                   restarts>>

Free(path) == disk[path].owner = NoFile

\* filesystem::exists on the plain name; the suffixed name is not looked at.
ChooseDestination(f) ==
    /\ Go(<<f, Last(f)>>, "verified", "placing")
    /\ dest' = [dest EXCEPT ![f] =
          <<NameOf[f], IF Free(<<NameOf[f], "plain">>) THEN "plain" ELSE "suffixed">>]
    /\ UNCHANGED <<senderVars, handle, inFlight, received, tempVars, disk, record, restarts>>

\* exists, or finding the directory, throws outside any try block.
ChooseThrows(f) ==
    /\ IoFaults
    /\ Go(<<f, Last(f)>>, "verified", "closed")
    /\ UNCHANGED <<senderVars, recvVars>>

\* The copy of another transfer is writing to the destination of f.
Contended(f) ==
    \E g \in Files \ {f} : conn[<<g, Last(g)>>] = "copying" /\ dest[g] = dest[f]

Land(f, chunks) == disk' = [disk EXCEPT ![dest[f]] = [owner |-> f, chunks |-> chunks]]

\* filesystem::rename replaces whatever is at the destination.
RenameToDestination(f) ==
    /\ f \in tempFiles /\ ~Busy(f) /\ ~Contended(f)
    /\ Go(<<f, Last(f)>>, "placing", "moved")
    /\ Land(f, written[f])
    /\ tempFiles' = tempFiles \ {f}
    /\ UNCHANGED <<senderVars, handle, inFlight, received, written, dest, record, restarts>>

RenameThrows(f) ==
    /\ f \notin tempFiles \/ Busy(f) \/ Contended(f) \/ IoFaults
    /\ Go(<<f, Last(f)>>, "placing", "fallback")
    /\ UNCHANGED <<senderVars, recvVars>>

\* filesystem::copy never replaces: it creates the destination, empty at first.
BeginCopy(f) ==
    /\ f \in tempFiles /\ Free(dest[f])
    /\ Go(<<f, Last(f)>>, "fallback", "copying")
    /\ Land(f, {})
    /\ UNCHANGED <<senderVars, handle, inFlight, received, tempVars, dest, record, restarts>>

CopyRefused(f) ==
    /\ f \notin tempFiles \/ ~Free(dest[f]) \/ IoFaults
    /\ Go(<<f, Last(f)>>, "fallback", "unplaced")
    /\ UNCHANGED <<senderVars, recvVars>>

\* The bytes of the temp file, which from the hash check on are the same throughout.
FinishCopy(f) ==
    /\ Go(<<f, Last(f)>>, "copying", "copied")
    /\ Land(f, written[f])
    /\ UNCHANGED <<senderVars, handle, inFlight, received, tempVars, dest, record, restarts>>

\* The copy fails on its way; what it wrote is taken away again, or stays.
CopyBreaksOff(f) ==
    /\ IoFaults
    /\ Go(<<f, Last(f)>>, "copying", "unplaced")
    /\ disk' \in {disk, [disk EXCEPT ![dest[f]] = [owner |-> NoFile, chunks |-> {}]]}
    /\ UNCHANGED <<senderVars, handle, inFlight, received, tempVars, dest, record, restarts>>

RemoveTemp(f) ==
    /\ ~Busy(f)
    /\ Go(<<f, Last(f)>>, "copied", "moved")
    /\ tempFiles' = tempFiles \ {f}
    /\ UNCHANGED <<senderVars, handle, inFlight, received, written, endVars, restarts>>

\* The copy is made, but removing the temp file throws.
RemoveThrows(f) ==
    /\ Busy(f) \/ IoFaults
    /\ Go(<<f, Last(f)>>, "copied", "kept")
    /\ UNCHANGED <<senderVars, recvVars>>

\* Mutant: the exception of the fallback leaves dest as it was.
Report_AlwaysSaved(f) ==
    /\ conn[<<f, Last(f)>>] \in {"moved", "kept", "unplaced"}
    /\ conn' = [conn EXCEPT ![<<f, Last(f)>>] = "closed"]
    /\ record' = [record EXCEPT ![f] = "saved"]
    /\ UNCHANGED <<senderVars, handle, inFlight, received, tempVars, dest, disk, restarts>>

\* on_received_ is told the destination, or "" after any exception of the fallback.
Report(f) ==
    /\ conn[<<f, Last(f)>>] \in {"moved", "kept", "unplaced"}
    /\ conn' = [conn EXCEPT ![<<f, Last(f)>>] = "closed"]
    /\ record' = [record EXCEPT ![f] =
          IF conn[<<f, Last(f)>>] = "moved" THEN "saved" ELSE "failed"]
    /\ UNCHANGED <<senderVars, handle, inFlight, received, tempVars, dest, disk, restarts>>

-----------------------------------------------------------------------------
\* The receiving process dies and is started again: in_flight_ and its threads
\* are gone, the files are as they were, one that a copy had begun included.
Restart ==
    /\ ~Inline
    /\ restarts < MaxRestarts
    /\ restarts' = restarts + 1
    /\ inFlight' = {}
    /\ received' = [f \in Files |-> {}]
    /\ handle' = [p \in Packets |-> "none"]
    /\ conn' = [p \in Packets |->
          CASE conn[p] \in {"unsent", "lost"} -> conn[p]
            [] conn[p] = "wire" -> "lost"
            [] OTHER -> "closed"]
    /\ UNCHANGED <<senderVars, tempVars, endVars>>

SendingStep(f) ==
    SendPacket(f) \/ AckArrives(f) \/ ConnectFails(f) \/ AckTimesOut(f)

SenderStep(f) == BeginSend(f) \/ RefuseSend(f) \/ SendingStep(f)

StartStep(f) == PreAllocate(f) \/ InsertInFlight(f)

ChunkStep(f, i) ==
    FindReceive(f, i) \/ WriteChunk(f, i) \/ MarkReceived(f, i) \/ CloseStream(f, i)

PlaceStep(f) ==
    \/ RenameToDestination(f) \/ RenameThrows(f)
    \/ BeginCopy(f) \/ CopyRefused(f) \/ FinishCopy(f) \/ CopyBreaksOff(f)
    \/ RemoveTemp(f) \/ RemoveThrows(f)

CompleteStep(f) ==
    \/ ClaimReceive(f) \/ CheckCount(f) \/ CheckHash(f) \/ Discard(f)
    \/ ChooseDestination(f) \/ ChooseThrows(f)
    \/ PlaceStep(f) \/ Report(f)

ConnectionStep(p) == LosePacket(p) \/ Acknowledge(p) \/ AcknowledgeThrows(p)

Next ==
    \/ \E f \in Files :
          \/ SenderStep(f)
          \/ StartStep(f)
          \/ \E i \in Data(f) : ChunkStep(f, i)
          \/ CompleteStep(f)
    \/ \E p \in Packets : ConnectionStep(p)
    \/ Restart

Spec == Init /\ [][Next]_vars

\* Every thread that can run is eventually run: the sending thread, the thread
\* of each connection.  In send_packet the connect and the wait for the ACK have
\* a timeout; the write between them has none, and ends because the other side
\* reads its line at once or TCP gives the connection up.
Fairness ==
    /\ \A f \in Files :
          /\ WF_vars(SendingStep(f))
          /\ WF_vars(StartStep(f))
          /\ WF_vars(CompleteStep(f))
          /\ \A i \in Data(f) : WF_vars(ChunkStep(f, i))
    /\ \A p \in Packets : WF_vars(ConnectionStep(p))

FairSpec == Spec /\ Fairness
-----------------------------------------------------------------------------
(* Properties *)

\* Whatever the order of the handlers, the faults of the file system and the
\* crashes, a file in the downloads directory holds every chunk of the file the
\* sender hashed (the count and SHA-256 checks of handle_file_complete), unless its
\* temp file is still there: only a copy that was cut short leaves less.
SavedIsIntact ==
    \A path \in Paths : LET f == disk[path].owner IN
        f # NoFile /\ hashed[f] /\ f \notin tempFiles => disk[path].chunks = Data(f)

\* A transfer that send_file reported as failed is never saved by the receiver,
\* although the packet whose ACK timed out may well have been handled.
FailedSendIsNeverSaved ==
    \A f \in Files : sender[f] = "false" =>
        record[f] # "saved" /\ \A path \in Paths : disk[path].owner # f

\* When send_file returns true, FILE_START and every chunk were acknowledged, and
\* what was acknowledged is handled unless the receiver dies: FILE_COMPLETE, the
\* result of which is not looked at (file_transfer.cpp:244), is all that may be lost.
SentIsReceived ==
    \A f \in Files : sender[f] = "true" =>
        \A i \in 0..ChunksOf[f] : conn[<<f, i>>] \notin {"unsent", "wire", "lost"}

\* A handler of FILE_COMPLETE has taken the entry of f.
Claimed(f) == conn[<<f, Last(f)>>] \in
    {"claimed", "counted", "incomplete", "corrupt", "verified",
     "placing", "fallback", "copying", "copied", "moved", "kept", "unplaced"}

\* From the moment FILE_COMPLETE takes a transfer over, no handler of it that is
\* late creates its temp file again: what was moved or discarded stays gone.
TempFileIsNotRecreated ==
    [][\A f \in tempFiles' \ tempFiles : record[f] = "none" /\ ~Claimed(f)]_vars

\* A transfer that FILE_COMPLETE has taken over leaves no entry in in_flight_, and
\* one that was moved or is saved no temp file, in whatever order its packets were handled: what
\* stays behind for ever is of transfers whose FILE_COMPLETE found nothing.
TakenLeavesNoEntry ==
    \A f \in Files :
        /\ Claimed(f) \/ record[f] # "none" => f \notin inFlight
        /\ conn[<<f, Last(f)>>] = "moved" \/ record[f] = "saved" => f \notin tempFiles

\* send_file always comes back, whatever becomes of its packets and of the
\* receiver, because no wait of send_packet is for the answer alone.
SendReturns ==
    \A f \in Files : sender[f] = "sending" ~> sender[f] \in {"true", "false"}

\* When send_packet runs each handler to its end, as the tests wire it, every
\* file that is sent is saved (test_file_transfer.cpp: "received file has a
\* non-empty path (was saved successfully)").
EverySendIsSaved ==
    \A f \in Files : sender[f] = "sending" ~> record[f] = "saved"

\* file_transfer.cpp:385, "Suffix-deduplicate if name exists": the name a file is
\* to be moved to is not taken when it is chosen.
ChosenNameIsFree ==
    [][\A f \in Files :
          conn'[<<f, Last(f)>>] = "placing" /\ conn[<<f, Last(f)>>] = "verified"
          => Free(dest'[f])]_vars

\* The transfer as its user sees it.
phase == [f \in Files |->
    IF sender[f] = "false" THEN "abandoned"
    ELSE IF sender[f] = "true" \/ conn[<<f, Last(f)>>] # "unsent" THEN "handed_over"
    ELSE "open"]

downloads == {disk[path].owner : path \in Paths} \ {NoFile}

outcome == [f \in Files |->
    IF record[f] # "none" THEN record[f]
    ELSE CASE conn[<<f, Last(f)>>] \in {"moved", "copied", "kept"} -> "placed"
           [] conn[<<f, Last(f)>>] \in {"closed", "lost"} -> "over"
           [] OTHER -> "none"]

Delivery == INSTANCE FileDelivery

\* The engine implements the delivery protocol of module FileDelivery: whatever
\* the handlers, faults and crashes do, a file handed over has one outcome, is reported
\* saved only once it is in place, and goes from the downloads directory only when
\* another of its name is put there.
ImplementsDelivery == Delivery!Spec

\* Its packets as TcpTransport sees them.  send_file does not keep the result of
\* FILE_COMPLETE, which counts as one that taught it nothing.
answer == [p \in Packets |->
    IF p[2] < step[p[1]] THEN "ok"
    ELSE IF p[2] = step[p[1]] /\ sender[p[1]] \in {"true", "false"} THEN "failed"
    ELSE "none"]
fate == [p \in Packets |->
    CASE conn[p] \in {"unsent", "wire"} -> "open"
      [] conn[p] = "acked" -> "accepted"
      [] conn[p] = "lost" -> "refused"
      [] OTHER -> "over"]

Network == INSTANCE Transport

\* What senders, handlers and crashes do to a transfer's packets is within module
\* Transport, which Lifecycle shows transport.cpp to implement: send_file goes on only
\* after an acceptance, and what is handled was accepted and is handled once.
UsesTransport == Network!Spec
=============================================================================
