# Rin for Windows: a verification project

Rin connects a user's devices into a *mesh*: they share a clipboard, hand over
URLs and send files, directly over the local network. This directory holds TLA+
models of the parts of `src/` where several threads, machines or runs of the
program meet, TLC configurations that check them on small instances, and proofs,
checked by TLAPS, of what matters most for every instance.

## The system

| Part | State it keeps | Operations | Talks to |
|---|---|---|---|
| `MeshEngine` (`mesh_engine.cpp`) | identity with the mesh secret, trust list `devices_`, event list | create or load a mesh, join, clipboard, browser handoff, send file, revoke; handlers for packets and discovered peers | all others |
| `PersistenceStore` (`persistence.cpp`) | SQLite tables `mesh_identity`, `trusted_devices` | save/load identity, upsert/remove/load devices | engine |
| `FileTransferEngine` (`file_transfer.cpp`) | `in_flight_` receives, temp files, downloads directory | `send_file`; handlers of FILE_START, FILE_CHUNK, FILE_COMPLETE | engine, transport |
| `TcpTransport` (`transport.cpp`) | listening socket, accept thread, detached connection threads | `send_packet`, accept, verify, acknowledge, dispatch | engine |
| `UdpBeacon` (`transport.cpp`) | socket, two loops | announce the device every six seconds, hear others | engine |
| `CryptoEngine` (`crypto.cpp`) | none | keys, signatures, AES-GCM | engine, file transfer |
| `CameraQrScanner` (`camera_qr_scanner.cpp`) | running and fired flags, callback, capture, frame reader | start, stop, frame handler on WinRT pool threads | shell |
| `Win32Shell`, console (`win32_shell.cpp`, `main.cpp`) | windows, selected row, QR bitmap | the user's operations, first-launch chooser | engine, scanner |
| `MeshAuditLogger` (`audit_logger.cpp`) | bounded buffer of events | log, read, clear | everyone |
| wire protocol, Base64, QR rendering | none | conversions | engine, shell |

What makes the system hard:

* **Threads.** The user's thread, one detached thread per incoming connection,
  the beacon's listener, one thread per file being sent, and WinRT pool threads.
  `devices_mutex_` protects the trust list but, except in discovery, not the
  database write that follows; `identity_` has no lock at all.
* **Acknowledge before dispatch.** A receiver answers a packet before it handles
  it, so the sender's next packet is handled concurrently with the previous one.
* **Shutdown.** `stop()` meets accept loop and beacon loops wherever they are, and
  connection threads are detached: nothing waits for them.
* **Nested messages.** While a message box is open the UI thread handles other
  messages inside it, and camera threads call back into it.
* **Failure.** Any packet or acknowledgement may be lost or late, any file or
  database operation may fail, and the program may die between two of them.
* **Keys chosen twice.** Sender and receiver each work out the key of a packet on
  their own, while joins replace mesh secrets and addresses change under them.

For each part, what makes it correct: a saved file is the file that was sent, and
a transfer ends at most once (file transfer); the two copies of the trust list
agree and the identity survives crashes (engine with store); a packet can be read
by those it is for and by no other, and devices find each other (engine, keys,
beacon); stopping ends every loop, and what was acknowledged is handled (transport,
beacon); a scan fires once, its result is not lost and the camera is given back
(scanner); no code is joined with twice, and the answers to nested boxes reach the
right handler (shell).

## Modules

| Module | Models | Instance, proofs |
|---|---|---|
| `FileDelivery` | abstract: what the engine promises of its transfers | - |
| `Transport` | abstract: what `TcpTransport` promises of a packet | - |
| `OneShot` | abstract: what the scanner promises of a callback | - |
| `FileTransfer` | `file_transfer.cpp` with the connections of `transport.cpp` | `MCFileTransfer`, `FileTransferProofs`, `FileDeliveryProofs` |
| `TrustStore` | trust list, identity and their tables over several runs | `MCTrustStore`, `TrustStoreProofs` |
| `MeshPackets` | several engines, the keys and addresses of their packets, beacons | `MCMeshPackets`, `MeshPacketsProofs` |
| `Lifecycle` | `transport.cpp`, start and stop of `MeshEngine`, `main.cpp` | `MCLifecycle`, `LifecycleProofs` |
| `CameraScanner` | `camera_qr_scanner.cpp` with the UI thread | `MCCameraScanner`, `CameraScannerProofs` |
| `Shell` | `win32_shell.cpp`, composed with `CameraScanner` | `MCShell`, `ShellProofs` |

The modules cut the engine along what interacts. `FileTransfer` and `TrustStore`
look inside operations that are one step in `MeshPackets`; keys, which
`MeshPackets` is about, play no part in the other two. `Lifecycle` looks at the
threads underneath, for which a packet is a connection. `Shell` extends
`CameraScanner`: every step of the scanner is a step of the shell or runs beside it.

Three abstract specifications say what a component promises to those who use it, and
the detailed modules refine them. `FileDelivery` knows of a transfer only whether it was
handed over, what the receiver has made of it (in place, reported as saved, reported as
failed, or over without a report) and which files lie in the downloads directory; `OneShot` only
whether a callback is armed, taken or over; `Transport` only whether a packet was
accepted and what its sender learned. `Transport` holds two modules together:
`Lifecycle`, which looks at `transport.cpp` thread by thread, implements it
(`ImplementsTransport`), and the connections on which `FileTransfer` builds stay within
it (`UsesTransport`). The mapping from `Lifecycle` reads `peer[c]` and `at[c]`; the one
from `FileTransfer` reads `step[f]`, `sender[f]` and `conn[p]`, and counts the answer to
FILE_COMPLETE as none, since `send_file` does not keep it. Both sides refine one
specification; that every behaviour of it can arise from `transport.cpp` is not claimed.

Operators whose comment
begins with "Mutant" are variants of the operator after them with a plausible
bug; no specification uses them. They show that a property notices such a bug.

### FileTransfer

`sender[f]` and `step[f]` are the position of a `send_file` call and what it
returned. A transfer's packets are numbered: 0 is FILE_START, then the chunks,
then FILE_COMPLETE. `conn[p]` is the connection of one packet and, once it is
acknowledged, the handler thread that dispatches it: `PreAllocate` and
`InsertInFlight` (`handle_file_start`), `FindReceive`, `WriteChunk`,
`MarkReceived`, `CloseStream` (`handle_file_chunk`), `ClaimReceive`, `CheckCount`,
`CheckHash`, `Discard`, `ChooseDestination` (or `ChooseThrows`: `exists` throws and the
handler ends without a record), `RenameToDestination` or `RenameThrows`, in the fallback
`BeginCopy`, `FinishCopy`, `CopyRefused`, `CopyBreaksOff`, `RemoveTemp`, `RemoveThrows`,
and at last `Report`, which calls `on_received_` (`handle_file_complete`). A step is what happens between two points
where another thread can observe or interfere: a lock, or a file operation.

* A chunk's content is its index; `written[f]` are those in the temp file. Bytes
  of an `fstream` reach the file when it is closed or earlier, as the C++ library
  pleases (`handle` is "buffered" or "flushed").
* Files behave as on Windows, which the program ships on: what a thread has open
  can be neither removed nor renamed.
* `HashMatches` compares sets of chunks, and only if the sender's own hash could
  be computed: with an empty checksum the code skips the comparison.
* `Inline = TRUE` is the wiring of `tests/test_file_transfer.cpp`, where sending a
  packet runs its handler to the end.
* A copy creates its destination empty and fills it later. A crash in between, or a
  failure that leaves what was written, keeps a truncated file at the destination, with
  the temp file still there; `SavedIsIntact` excepts exactly this. While a copy is
  writing, no other transfer can rename to its destination.
* `downloads`, for the mapping to `FileDelivery`, are the transfers with a file in the
  downloads directory: one goes from it only when a file of the same name is put there.
  The record follows as a step of its own, so a file may lie there unreported for ever
  after a crash, and a file reported as saved may have been displaced before the report.
* `IoFaults` allows failing file operations; `Restart` is a crash of the receiver:
  `in_flight_` and all threads go, files stay.
* `CheckCount` and `Discard` run under a mutex in the code. They are steps of their
  own here; nothing can tell the difference.

### TrustStore

`devices`, `selfMem`, `identity`, `secret` are memory, `stored`, `selfStored`,
`dbIdentity`, `dbSecret` the tables. `app` is the start-up
(`try_load_persisted`, then `create_initial_mesh` if there is no identity), and
`task[t]` what the user's thread or a connection thread does next. One SQL
statement is one step, since each is its own transaction. `Terminate` is the end of
the process between any two steps, wanted or not. `torn` is an auxiliary variable:
the devices about which the copies may disagree because a write failed, operations
on the same device overlapped, or rows were never loaded. `openFailed`, auxiliary
too, records that a start could not open the database, after which
`create_initial_mesh` may open it and save over what it holds. A Revocation may name
this PC (it is sent to the address another device once had): the self entry goes, in
memory and table, and nothing in the code brings it back.

### MeshPackets

A key is the record of what it is derived from: kind, the two devices or the
device that generated the mesh secret, and the salt. Equal records stand for equal
keys and AES-GCM opens exactly what was sealed with the key. `job[n]` is the
operation of the user's thread: all broadcasts first compute one key, copy the
trust list and then send packet after packet, and the list may change meanwhile.
Memory (`devices`, `secret`) and tables (`stored`, `saved`) change in separate steps,
as the code releases `devices_mutex_` in between: a join goes through `BeginJoin`,
`StoreHost` and `AdoptSecret`, a revocation ends with `EndSending` and `ForgetRow`, the
handler of a Revocation is `Handle` and, for those in `erasing[n]`, `RemoveRow`. Each
write may fail, and the program may be restarted between any two steps; only discovery
writes under the lock.
`inbox[n]` are acknowledged packets whose handler has not decrypted yet. A packet
goes to whoever listens at the address, which may not be the device the sender has
in mind. `chosen` is auxiliary: the device of the list the user picked as the only reader.

A handoff whose target the list does not have, or has no more, is sealed with the mesh
key and sent to every device (`SendBrowserHandoff`, `CopyList`), as is one without a
target: any device of the mesh can read it. Nothing in `src/` calls
`send_browser_handoff` yet; `OnlyChosenReads` and `HandoffIsReadable` are about targets
the list has. `revoke_device` broadcasts also for a key that is not listed.

Devices keep the mesh name they were created with: a join adopts the secret only.
The token a host shows carries no address; the user adds it, as `main.cpp:121-124`
asks for (other platforms' tokens may bring it). FILE_START stands for all packets of
a transfer. Engine packets are always signed by their sender, so verification
succeeds. `Ignore` includes the case that `mesh_secret` is read while the user's
thread assigns it, which is a data race: what is derived then fits no packet.

### Lifecycle

`main` is the main thread in `MeshEngine::start()` (port scan, beacon), the command or
message loop, `stop()`, and the destructors; `leaving` says whether it is destroying
the engine and whether `stop()` had been called. The ways of the console program and
of the GUI are both open: an exception of `start()` returns from `main()` or ends the
process, a failed window returns from `run()` without `stop()`. Each test of
`running_` and each use of the socket in `accept_loop`, `listen_loop` and
`broadcast_loop` is a step of its own. `at[c]` is a connection as this PC sees it,
from the backlog to its detached thread in `handle_connection`; `peer[c]` is the
`send_packet` at the other end, which may time out at any point.

* Closing a socket makes a blocked accept or receive on it fail, as Winsock does. The
  sockets are closed while the loops use them; every outcome of that race the loops can
  see is an error code.
* A thread that uses members of a destroyed engine (`UsesMembers`) goes unnoticed or
  ends the process. `StoppedIsQuiet` shows that loops do not after `stop()`; connection
  threads may, and so may loops of an engine that was never stopped.
* Destruction runs `~UdpBeacon` before `~TcpTransport`, the reverse of the order of the
  members, and both call `stop()` again.

### CameraScanner

`ui` walks through `start()` and `stop()`, `handler[h]` through the FrameArrived
handler, each with the number of the scan its reader belongs to and the callback it
has taken. `StopAsync` does not wait for handlers that have begun, so handlers of an
old scan meet the flags of a new one. `Faults` makes WinRT calls throw or
`StartAsync` return a failed status, which the code does not look at. `stage`, the
mapping to `OneShot`, is read off the number of the last scan, the fired flag and the
callbacks that handlers hold.

### Shell

`phase` is where `run()` is: the first-launch chooser step by step, the main window's
loop, the end. `boxes` is the stack of `MessageBoxW` calls on the UI thread: posted
codes (`inbox`), beacons and the tray menu are handled inside the innermost one, and
only that one can return. A box that finds the main window enabled disables it until it
is answered (`owns`); answering an outer one therefore enables the window while an inner
box is still open. `OpenMain` may fail, when `engine_.start()` throws or the window
cannot be created. `qrOpen` are the QR windows on the screen, `qr` is
`qr_hwnd_`. The scanner's callback of the chooser writes local variables (`token`,
`got`, and `camera_done`, which is `body = "done"`) and may do so after the chooser
has returned; the one of the main window posts the code.

* A row of the list view is an index into a copy of an unordered map taken after the
  rows were drawn, so a click on Remove stands for any device.
* `PostMessageW(nullptr, ...)` in the callback reaches the queue of the pool thread,
  not the chooser's loop, which goes on with its next message of any kind.
* The paste dialog has `DefWindowProcW` as its window procedure; its buttons send it
  `WM_COMMAND`, and the loop looks for `WM_COMMAND` among queue messages. Its loop
  ends only through a `WM_CLOSE` another program posts.
* Drawing, the tray icon, minimising and the text of the rows are left out.

## Runs

Passing:

| Run | Instance | Shows |
|---|---|---|
| `FT_faults` | one file, two chunks, I/O faults, one receiver crash | `SavedIsIntact`: a file in the downloads directory whose hash was computed is complete, unless its temp file is still there. `FailedSendIsNeverSaved`: although an acknowledgement may be lost after the packet was handled, a send reported as failed is never saved, because FILE_COMPLETE was never sent. `SentIsReceived`: of a send reported as successful all but FILE_COMPLETE was acknowledged. `TakenLeavesNoEntry`: a transfer FILE_COMPLETE took over leaves nothing in `in_flight_`. `UsesTransport`: its packets travel as `Transport` says. `SendReturns`: `send_file` ends |
| `FT_pair` | two files of the same name, one chunk each, I/O faults, one receiver crash | the transfers do not damage each other; `ImplementsDelivery`: the engine refines `FileDelivery`, so that a file is reported as saved only after it was put in place, there is one report at most, only of a transfer handed over, and a file is displaced only by one of its name; `TempFileIsNotRecreated`: no late handler brings a discarded or moved temp file back |
| `TS_store` | two peers, two connection threads, three runs of the program, crashes, database faults | `CopiesAgree`: memory and database differ only in a window or about torn devices. `OnlySelfIsSelf`, `IdentityIsKept`: unless a start could not open the database, crashes and faults cost neither the identity nor give a second device the self mark |
| `MP_mesh` | three devices, two mesh names, four addresses, two operations, two changes of address, restarts or failed writes | `OnlyChosenReads`, `HandoffIsReadable`, `DevicesAreFound`; `OnlyMembersRevoke`: while its engine runs, a device leaves a trust list only by its user or by a Revocation about it, of a device of the same mesh name, under the mesh key of the moment |
| `EL_life` | two ports, two connections | `FirstFreePort`, `StoppedIsQuiet`, `StopReturns`; `AckedReachesEngine`: an acknowledged packet is given to the engine, also when connections break or the program stops meanwhile. `ImplementsTransport`: the threads refine `Transport`. `JoinedLoopWindsDown`: a loop that `stop()` waits for is held up by no peer and at most three steps from its end |
| `SH_shell` | two frame handlers, two scans, one peer, two window handles, WinRT faults | `SingleFire`: a code is called back once. `CodeIsKept`: from its claim on, a code of any scan of the main window, an earlier one included, is with its handler, in the queue or joined with, until Quit. `JoinedOnce`: whatever nests in the box of its handler, it is joined with once. `ImplementsOneShot`: within the shell the scanner refines `OneShot`. `QrHandleIsLive` |

Disagreements between the code and what it says of itself, each with a
counterexample:

| Run | Says | Does |
|---|---|---|
| `FT_empty` | tests: a successful send is saved | an empty file announces one chunk and sends none; the receiver discards it, the sender reports success |
| `FT_suffix` | "Suffix-deduplicate if name exists" | the suffix is the prefix common to all file ids: the third file of a name replaces the second |
| `TS_rest` | mutations are serialized by `devices_mutex_` | the mutex is released before the database write; a revocation and a beacon leave the copies different for good |
| `MP_target` | session keys are per peer, salted with the session ID | JOIN_ACCEPT and clipboard packets are sealed with the mesh key, files with an unsalted peer key, but all name a target for which the receiver tries only the salted peer key; they are dropped |
| `SH_paste` | "Fall back to paste dialog" | Join and Cancel never end the dialog's loop, so the token is never read |
| `CAM_release` | `stop()` "releases the camera" | after a code was decoded `stop()` returns at its first line |

Found while modelling, and described here without a run: a chunk is marked received
before its stream is flushed, so an intact transfer can fail its hash check; removing
a rejected temp file throws while a chunk handler has it open, and the promised
failure record (`file_transfer.hpp:39-41`) is never delivered; two completions of one
name can both find it free, and the later replaces the earlier file, also between the
earlier one's rename and its record, which then names another file; a crash inside the
fallback's copy leaves a truncated file in the downloads directory, a crash before
`on_received_` a complete one nobody is told of; a restart forgets a device whose row
is missing (a failed write, a crash before the write, or the row a Revocation's handler
removes after a beacon has brought the device back);
`try_load_persisted` lets an exception of `load_identity` through although
`mesh_engine.hpp:83` says it never throws; a crash between `save_identity` and
`upsert_device` leaves an identity without a self entry; `DESIGN_NOTES.md:179` still
calls the trust list in-memory only; the first-launch loop posts its wake-up message
to the wrong thread (`win32_shell.cpp:206`); Cancel in the scan prompt, offered for
entering the token by hand, starts the camera too (`win32_shell.cpp:194`); the paste
dialog's result replaces `got_token`, and with it a code scanned meanwhile
(`win32_shell.cpp:230`), and the chooser's callback may write to locals that are gone:
codes of the chooser may be lost, which `CodeIsKept` therefore leaves out; the chooser sends JOIN_ACCEPT before `engine_.start()`, with
the default port and nobody listening; success is shown whatever
`complete_join_handshake` returned (`win32_shell.cpp:592-594`); `read_line` has no
timeout although its comment names one (`transport.cpp:25`), so a silent peer holds a
thread for ever; a removal confirmed in a box below the innermost one, followed by
Quit, revokes on a stopped engine, where its packets fail; a join keeps the old mesh name, with
which the adopted secret yields a key nobody else has.

### Bounds and why they are enough

* Two chunks: one may be handled early, one late, around the completion; a third adds
  no kind of order. Two files of one name compete for a destination, three exhaust
  "plain" and "suffixed".
* One receiver crash: a second would only discard what the first had discarded.
* In `FT_pair` the two transfers have the same contents and name and are explored up to
  symmetry; the run checks safety only.
* Three runs of the program: one to write, one to read back, and one after a fault in
  the second. Two peers and two connection threads give an overlap on one device and a
  bystander. Peers, connection threads and generated keys are interchangeable, and the
  run explores them up to symmetry; it checks no liveness.
* Three devices: sender, chosen receiver, third party at the wrong address; two mesh
  names; two operations, for a join between the start and the receipt of a packet.
  A fourth address lets a device move to one nobody had; two mishaps let one device
  leave an address and another take it, or a write fail before a restart.
* Two ports: the first taken and the second free, both taken, both free. Two
  connections: one handled while the other is in the backlog.
* Two scans and two handlers: a handler left over from the first scan meets the flags
  of the second. One scan may be the chooser's and one the main window's, or both the
  latter. One peer, which comes and goes while it is being removed. Two window handles, so
  that an older QR window stays open. Message boxes need no bound: each is opened by
  one of finitely many clicks and codes.

`CHECK_DEADLOCK FALSE` is set where the instance comes to its end: all transfers are
over, all runs of the program are used up, or the program has ended. `MaxRestarts`, `MaxStarts`, `MaxOps`,
`MaxFaults` and `MaxScans` are the only counters that are cut off.

### Fairness

`FileTransfer`: every thread that has begun keeps running (sender, connection,
handler). Connecting and waiting for the acknowledgement have timeouts in the code.
Writing the packet has none; that it ends is an assumption, true when the peer reads
or TCP gives up. Nothing is assumed of the network. `MeshPackets`: threads run on,
and of the beacons sent every six seconds some are heard. `Lifecycle`: the main thread,
the loops and the connection threads go on when they can; nothing obliges the user to
quit or a peer to connect, to send or to answer, so `StopReturns` does not rest on
them. `Shell`: handlers that have begun and the chooser's own code run on; no message,
click or frame has to come. `TrustStore` and `CameraScanner` are safety only and state
no fairness.

## Proofs

All for arbitrary values of the constants, from the named assumptions of the modules
only (`ChunksAssumption`, `KeysAssumption`, ...); TLC evaluates these assumptions in
every run.

* `FileTransferProofs`: `TypeCorrect`, `SavedIsIntactHolds`,
  `FailedSendIsNeverSavedHolds`, `TempFileIsNotRecreatedHolds`. The inductive
  invariant `IInv` adds to the types: packets are sent in order and those beyond
  `step` are unsent (`OrderInv`); an entry in `in_flight_` and a completion that has
  claimed it exclude each other (`EntryInv`); a record exists only after the last
  packet (`RecordInv`); a completion past its hash check has all chunks in the temp
  file, which nobody can write any more (`PlaceInv`); what is on disk came that way
  (`DiskInv`). `SavedIsIntact` alone is not inductive: the step that moves the temp
  file needs to know what the earlier checks established and that no late chunk
  handler has undone it.
* `FileDeliveryProofs`: `SentIsReceivedHolds` (`ReceivedInv`: every packet below `step`
  has reached a connection thread, and no step takes it back), `TakenLeavesNoEntryHolds`,
  inductive together with `IInv`, and two refinements. `ImplementsDeliveryHolds` needs
  `NameInv`: a file lies under a path of its own name, so that putting one there displaces
  only a file of that name; rename and the end of a copy map to `Place`, the record to
  `Confirm` or `Reject`, the steps of a copy to `Prepare`, a crash to `GiveUp`, other
  handler steps to these or a stutter, the sender to `HandOver`, `Abandon` or a stutter. `UsesTransportHolds`: the
  first step of a handler is `Dispatch`, a crash is `Die`, and an ACK that cannot be
  written means, by `OrderInv`, that the sender has learned or given up already.
* `TrustStoreProofs`: `TypeCorrect`, `CopiesAgreeHolds`, `OnlySelfIsSelfHolds`,
  `IdentityIsKeptHolds`. Needed besides: what a
  thread between memory and database knows of memory, and that it is alone with its
  device unless the device is torn (`PendInv`); tasks fit the phase of the program
  (`TaskInv`); no peer is in memory before it is up (`StartInv`). `SelfInv`: until a
  start fails to open the database, a new identity is generated only when the table has
  none, and table and memory have the same one when the program is up.
* `MeshPacketsProofs`: `TypeCorrect` (with `TypeInv`, the types of jobs and packets),
  `OnlyChosenReadsHolds`, `HandoffIsReadableHolds`. `KeyInv`
  says that packets and jobs for one chosen device name it as target and carry a peer
  key, a handoff that of its own session; the two properties follow from the symmetry
  of peer keys and from mesh and peer keys being of different kinds.
  `OnlyMembersRevokeHolds` with `RevokeInv`: a Revocation names no target and is sealed
  with a mesh key of its sender's name, from the job to the inbox. A restart is excepted:
  the table may list less than memory.
* `CameraScannerProofs`: `TypeCorrect`, `SingleFireHolds`. `SingleInv`: at most one
  handler holds the callback of a scan and none after it was called, and "fired" is
  set from the claim until the next scan. From the same invariant
  `ImplementsOneShotHolds`, the refinement of `OneShot`.
* `ShellProofs`: `UsesScanner` shows that every step of the shell is a step of the
  scanner or leaves it alone, so that `CameraScannerProofs` carries over
  (`ShellSingleFire`, `ShellImplementsOneShot`). `ShellTypeCorrect`; `QrHandleIsLiveHolds` with
  `EarlyInv`: before the main window exists there is no QR window and the only scan is
  the chooser's. `CodeIsKeptHolds` needs no more than the types: a handler lets go of a
  code only by its callback, which queues it, and the queue only by handling it.
  `JoinedOnceHolds` with `CalledInv`: what is queued or handled has been called back, so
  that by `SingleFire` it is not called back again.
* `LifecycleProofs`: `TypeCorrect`; `FirstFreePortHolds` (`PortInv`: until a port is
  found the acceptor is closed and all ports left behind are busy);
  `StoppedIsQuietHolds` (`DownInv`: which half is down at each point of `stop()` and of
  the destructors. `running_` alone tells that a half is down outside the `stop()` that
  clears it, and the second `stop()`, of the destructor, relies on that);
  `AckedReachesEngineHolds` (`AckInv`: an acknowledged connection is at its dispatch or
  past it, and a sender knows of an ACK only after it was sent), and from it
  `ImplementsTransportHolds`; `JoinedLoopWindsDownHolds`, from `DownInv`: the safety half
  of `StopReturns`, a bound on what a loop can still do when its end is waited for.

Only model-checked: liveness (`SendReturns`, `DevicesAreFound`, `StopReturns`), which
needs ENABLED and fairness, out of the prover's reach. Every other property of the
passing runs is a theorem.

## Not modelled

* The JSON and Base64 codecs and the QR rendering: pure conversions. That a line does
  not parse, or a token is invalid, is an outcome of its own where it arrives.
* The audit log: diagnostics that no other part reads, every operation one critical
  section.
* Drawing, tray icon, minimising and the text of the list view's rows.
* Parsing and printing of the console program; each of its commands is an operation of
  `MeshPackets` or `FileTransfer`.
* Heartbeats and connection states, which are only displayed.
* A token scanned by the device that shows it: tokens made by this code carry no
  address, with which `complete_join_handshake` returns before it changes anything.
* POSIX, where closing a socket does not wake a blocked accept or receive, and the
  reuse of a port another Windows program holds, which `SO_REUSEADDR` permits.
* Packets from devices that do not run this engine.

## Plan

1. Codec: Base64 and HKDF block counts as recursive functions against a reference over
   bounded inputs; the audit buffer's limit.
2. Shell and `TrustStore` composed, so that a revocation in a nested box meets the
   database.
