----------------------------- MODULE Lifecycle -----------------------------
(***************************************************************************)
(* The threads of the network side from MeshEngine::start() to the end of  *)
(* the process: the main thread in start(), stop() and the destructors,    *)
(* the accept loop of TcpTransport with one detached thread per            *)
(* connection, the two loops of UdpBeacon, and peers that send a packet    *)
(* and wait for its ACK.  The main thread is that of the console program   *)
(* or of the GUI: where they differ, both ways are open.                   *)
(*                                                                         *)
(* A packet is its connection.  Closing a socket makes a blocked accept or *)
(* receive on it fail, as Winsock does.  acceptor_ and socket_ are closed  *)
(* while their loops use them, a data race whose outcomes are all an error *)
(* code in the loop.                                                       *)
(***************************************************************************)
EXTENDS Naturals

CONSTANTS
    Conns,      \* connections that peers open
    Ports       \* kTcpPortScanAttempts

ASSUME PortsAssumption == Ports \in Nat \ {0}

VARIABLES
    main,       \* where the main thread is
    leaving,    \* whether MeshEngine is being destroyed, and after stop() or not
    members,    \* identity_, devices_, store_ ... exist
    busy,       \* ports of the range that another program holds
    port,       \* the port the scan tries, and then listening_port_
    tcpRunning, udpRunning,     \* running_ of TcpTransport and of UdpBeacon
    acceptor,   \* "closed", "opened" (not bound) or "listening"
    socket,     \* the beacon's socket is open
    accepting, listening, broadcasting,     \* the loop threads
    at,         \* at[c]: the connection as this PC sees it
    acked, dispatched,          \* connections whose ACK was sent, whose packet was
                                \* given to on_packet_
    peer        \* peer[c]: how far the sender on the other side is

mainVars   == <<main, leaving, members, busy>>
tcpVars    == <<port, tcpRunning, acceptor>>
udpVars    == <<udpRunning, socket>>
loops      == <<accepting, listening, broadcasting>>
connVars   == <<at, acked, dispatched>>
vars       == <<mainVars, tcpVars, udpVars, loops, connVars, peer>>

Over == {"exited", "terminated", "crashed"}
Stopping == {"stopTcp", "closeTcp", "joinTcp", "stopUdp", "closeUdp", "joinListen",
             "joinBroadcast"}
Ended == {"none", "exited"}     \* of a loop: not started, or returned

MainTypes ==
    /\ main \in {"new", "tcp", "udp", "window", "loop", "stopped"} \cup Stopping \cup Over
    /\ leaving \in {"no", "stopped", "abandoned"}
    /\ members \in BOOLEAN

TcpTypes ==
    /\ busy \subseteq 1..Ports /\ port \in 1..(Ports + 1)
    /\ acceptor \in {"closed", "opened", "listening"}
    /\ acceptor = "listening" => port <= Ports

LoopTypes ==
    /\ tcpRunning \in BOOLEAN /\ udpRunning \in BOOLEAN /\ socket \in BOOLEAN
    /\ accepting \in {"test", "accept", "error"} \cup Ended
    /\ listening \in {"test", "receive", "error", "peer"} \cup Ended
    /\ broadcasting \in {"test", "send", "sleep"} \cup Ended

ConnTypes ==
    /\ at \in [Conns -> {"none", "backlog", "read", "verify", "ack", "dispatch", "done", "lost"}]
    /\ acked \subseteq Conns /\ dispatched \subseteq Conns
    /\ peer \in [Conns -> {"idle", "connected", "sent", "ok", "failed"}]

TypeOK == MainTypes /\ TcpTypes /\ LoopTypes /\ ConnTypes

Init ==
    /\ main = "new" /\ leaving = "no" /\ members = TRUE
    /\ busy \in SUBSET (1..Ports) /\ port = 1
    /\ tcpRunning = FALSE /\ udpRunning = FALSE
    /\ acceptor = "closed" /\ socket = FALSE
    /\ accepting = "none" /\ listening = "none" /\ broadcasting = "none"
    /\ at = [c \in Conns |-> "none"] /\ acked = {} /\ dispatched = {}
    /\ peer = [c \in Conns |-> "idle"]

-----------------------------------------------------------------------------
(* MeshEngine::start() *)

\* The engine is destroyed: its data members first, then udp_, then tcp_.
Destroy(how) == main' = "stopUdp" /\ leaving' = how /\ members' = FALSE

\* An exception of start(): the console program returns, WinMain does not catch it.
StartThrows ==
    \/ Destroy("abandoned")
    \/ main' = "terminated" /\ UNCHANGED <<leaving, members>>

StartTcp ==
    /\ main = "new" /\ main' = "tcp"
    /\ tcpRunning' = TRUE
    /\ UNCHANGED <<leaving, members, busy, port, acceptor, udpVars, loops, connVars, peer>>

\* Mutant: the acceptor of a failed attempt stays open.
TryPort_LeavesOpen ==
    /\ main = "tcp" /\ port <= Ports
    /\ IF acceptor = "closed" /\ port \notin busy
       THEN acceptor' = "listening" /\ accepting' = "test" /\ main' = "udp"
            /\ UNCHANGED port
       ELSE acceptor' = "opened" /\ port' = port + 1 /\ UNCHANGED <<accepting, main>>
    /\ UNCHANGED <<leaving, members, busy, tcpRunning, udpVars, listening,
                   broadcasting, connVars, peer>>

\* Mutant: the scan goes one port beyond the range.
TryPort_OneMore ==
    /\ main = "tcp" /\ port <= Ports + 1
    /\ IF acceptor = "closed" /\ port \notin busy
       THEN acceptor' = "listening" /\ accepting' = "test" /\ main' = "udp"
            /\ UNCHANGED port
       ELSE acceptor' = "closed" /\ port' = port + 1 /\ UNCHANGED <<accepting, main>>
    /\ UNCHANGED <<leaving, members, busy, tcpRunning, udpVars, listening,
                   broadcasting, connVars, peer>>

\* One attempt of the scan.  open() throws for an acceptor that is open.
TryPort ==
    /\ main = "tcp" /\ port <= Ports
    /\ IF acceptor = "closed" /\ port \notin busy
       THEN acceptor' = "listening" /\ accepting' = "test" /\ main' = "udp"
            /\ UNCHANGED port
       ELSE acceptor' = "closed" /\ port' = port + 1 /\ UNCHANGED <<accepting, main>>
    /\ UNCHANGED <<leaving, members, busy, tcpRunning, udpVars, listening,
                   broadcasting, connVars, peer>>

NoPort ==
    /\ main = "tcp" /\ port > Ports
    /\ StartThrows
    /\ UNCHANGED <<busy, tcpVars, udpVars, loops, connVars, peer>>

\* UdpBeacon::start(); binding its port may fail, with the accept loop running.
StartUdp ==
    /\ main = "udp"
    /\ udpRunning' = TRUE /\ socket' = TRUE
    /\ \/ StartThrows /\ UNCHANGED <<listening, broadcasting>>
       \/ /\ main' \in {"window", "loop"}
          /\ listening' = "test" /\ broadcasting' = "test"
          /\ UNCHANGED <<leaving, members>>
    /\ UNCHANGED <<busy, tcpVars, accepting, connVars, peer>>

\* create_main_window; without a window run() returns, and no stop() is called.
CreateWindow ==
    /\ main = "window"
    /\ \/ Destroy("abandoned")
       \/ main' = "loop" /\ UNCHANGED <<leaving, members>>
    /\ UNCHANGED <<busy, tcpVars, udpVars, loops, connVars, peer>>

-----------------------------------------------------------------------------
(* MeshEngine::stop() and the destructors *)

\* "quit" or the end of the input; Quit in the tray menu.
Leave ==
    /\ main = "loop" /\ main' = "stopTcp"
    /\ UNCHANGED <<leaving, members, busy, tcpVars, udpVars, loops, connVars, peer>>

\* What comes after TcpTransport::stop() and after UdpBeacon::stop().
AfterTcp == IF leaving = "no" THEN "stopUdp" ELSE "exited"
AfterUdp == IF leaving = "no" THEN "stopped" ELSE "stopTcp"

\* running_.exchange(false); a second stop() returns at once.
StopTcp ==
    /\ main = "stopTcp"
    /\ main' = IF tcpRunning THEN "closeTcp" ELSE AfterTcp
    /\ tcpRunning' = FALSE
    /\ UNCHANGED <<leaving, members, busy, port, acceptor, udpVars, loops, connVars, peer>>

\* Connections that were not accepted are reset.
CloseTcp ==
    /\ main = "closeTcp" /\ main' = "joinTcp"
    /\ acceptor' = "closed"
    /\ at' = [c \in Conns |-> IF at[c] = "backlog" THEN "lost" ELSE at[c]]
    /\ UNCHANGED <<leaving, members, busy, port, tcpRunning, udpVars, loops,
                   acked, dispatched, peer>>

JoinTcp ==
    /\ main = "joinTcp" /\ accepting \in Ended
    /\ main' = AfterTcp
    /\ UNCHANGED <<leaving, members, busy, tcpVars, udpVars, loops, connVars, peer>>

\* Mutant: running_ is read, and cleared only after the joins.
StopUdp_ClearsLate ==
    /\ main = "stopUdp"
    /\ main' = IF udpRunning THEN "closeUdp" ELSE AfterUdp
    /\ UNCHANGED <<leaving, members, busy, tcpVars, udpVars, loops, connVars, peer>>

StopUdp ==
    /\ main = "stopUdp"
    /\ main' = IF udpRunning THEN "closeUdp" ELSE AfterUdp
    /\ udpRunning' = FALSE
    /\ UNCHANGED <<leaving, members, busy, tcpVars, socket, loops, connVars, peer>>

CloseUdp ==
    /\ main = "closeUdp" /\ main' = "joinListen"
    /\ socket' = FALSE
    /\ UNCHANGED <<leaving, members, busy, tcpVars, udpRunning, loops, connVars, peer>>

\* Mutant: the listening thread is not waited for.
JoinListen_Detached ==
    /\ main = "joinListen"
    /\ main' = "joinBroadcast"
    /\ UNCHANGED <<leaving, members, busy, tcpVars, udpVars, loops, connVars, peer>>

JoinListen ==
    /\ main = "joinListen" /\ listening \in Ended
    /\ main' = "joinBroadcast"
    /\ UNCHANGED <<leaving, members, busy, tcpVars, udpVars, loops, connVars, peer>>

JoinBroadcast ==
    /\ main = "joinBroadcast" /\ broadcasting \in Ended
    /\ main' = AfterUdp
    /\ UNCHANGED <<leaving, members, busy, tcpVars, udpVars, loops, connVars, peer>>

Return ==
    /\ main = "stopped"
    /\ Destroy("stopped")
    /\ UNCHANGED <<busy, tcpVars, udpVars, loops, connVars, peer>>

MainThread == StartTcp \/ TryPort \/ NoPort \/ StartUdp \/ CreateWindow \/ StopTcp
              \/ CloseTcp \/ JoinTcp \/ StopUdp \/ CloseUdp \/ JoinListen
              \/ JoinBroadcast \/ Return

-----------------------------------------------------------------------------
(* accept_loop() *)

AcceptTest ==
    /\ accepting = "test"
    /\ accepting' = IF tcpRunning THEN "accept" ELSE "exited"
    /\ UNCHANGED <<mainVars, tcpVars, udpVars, listening, broadcasting, connVars, peer>>

\* A connection gets its thread; if there is none to have, it is dropped.
Accept ==
    /\ accepting = "accept" /\ accepting' = "test"
    /\ \E c \in Conns, next \in {"read", "lost"} :
          at[c] = "backlog" /\ at' = [at EXCEPT ![c] = next]
    /\ UNCHANGED <<mainVars, tcpVars, udpVars, listening, broadcasting, acked, dispatched, peer>>

AcceptFails ==
    /\ accepting = "accept" /\ accepting' = "error"
    /\ UNCHANGED <<mainVars, tcpVars, udpVars, listening, broadcasting, connVars, peer>>

AcceptError ==
    /\ accepting = "error"
    /\ accepting' = IF tcpRunning THEN "test" ELSE "exited"
    /\ UNCHANGED <<mainVars, tcpVars, udpVars, listening, broadcasting, connVars, peer>>

AcceptLoop == AcceptTest \/ Accept \/ (acceptor = "closed" /\ AcceptFails) \/ AcceptError

-----------------------------------------------------------------------------
(* handle_connection() of connection c *)

\* A thread uses the data members of the engine.  Once they are destroyed this goes
\* unnoticed or ends the process.
UsesMembers ==
    /\ IF members THEN UNCHANGED main ELSE main' \in {main, "crashed"}
    /\ UNCHANGED <<leaving, members, busy>>

\* Mutant: the ACK is sent before the signature is verified.
ReadLine_AckFirst(c) ==
    /\ at[c] = "read"
    /\ \/ /\ peer[c] \in {"sent", "failed"}
          /\ at' = [at EXCEPT ![c] = "verify"] /\ acked' = acked \cup {c}
       \/ peer[c] = "failed" /\ at' = [at EXCEPT ![c] = "done"] /\ UNCHANGED acked
    /\ UNCHANGED <<mainVars, tcpVars, udpVars, loops, dispatched, peer>>

\* read_line() has no timeout: it returns a line, or throws when the peer has closed
\* the connection without one.
ReadLine(c) ==
    /\ at[c] = "read"
    /\ \/ peer[c] \in {"sent", "failed"} /\ at' = [at EXCEPT ![c] = "verify"]
       \/ peer[c] = "failed" /\ at' = [at EXCEPT ![c] = "done"]
    /\ UNCHANGED <<mainVars, tcpVars, udpVars, loops, acked, dispatched, peer>>

\* An empty or malformed line, or a bad signature, ends the connection.
Verify(c) ==
    /\ at[c] = "verify"
    /\ \E next \in {"ack", "done"} : at' = [at EXCEPT ![c] = next]
    /\ UNCHANGED <<mainVars, tcpVars, udpVars, loops, acked, dispatched, peer>>

\* Writing to a connection the peer has closed may throw.
SendAck(c) ==
    /\ at[c] = "ack"
    /\ \/ at' = [at EXCEPT ![c] = "dispatch"] /\ acked' = acked \cup {c}
       \/ peer[c] = "failed" /\ at' = [at EXCEPT ![c] = "done"] /\ UNCHANGED acked
    /\ UNCHANGED <<mainVars, tcpVars, udpVars, loops, dispatched, peer>>

Dispatch(c) ==
    /\ at[c] = "dispatch" /\ at' = [at EXCEPT ![c] = "done"]
    /\ dispatched' = dispatched \cup {c}
    /\ UsesMembers
    /\ UNCHANGED <<tcpVars, udpVars, loops, acked, peer>>

Handler(c) == ReadLine(c) \/ Verify(c) \/ SendAck(c) \/ Dispatch(c)

-----------------------------------------------------------------------------
(* listen_loop() and broadcast_loop() *)

ListenTest ==
    /\ listening = "test"
    /\ listening' = IF udpRunning THEN "receive" ELSE "exited"
    /\ UNCHANGED <<mainVars, tcpVars, udpVars, accepting, broadcasting, connVars, peer>>

\* A datagram: a beacon of another device, or one that is disregarded.
Receive ==
    /\ listening = "receive" /\ socket
    /\ listening' \in {"peer", "test"}
    /\ UNCHANGED <<mainVars, tcpVars, udpVars, accepting, broadcasting, connVars, peer>>

ReceiveFails ==
    /\ listening = "receive" /\ listening' = "error"
    /\ UNCHANGED <<mainVars, tcpVars, udpVars, accepting, broadcasting, connVars, peer>>

ReceiveError ==
    /\ listening = "error"
    /\ listening' = IF udpRunning THEN "test" ELSE "exited"
    /\ UNCHANGED <<mainVars, tcpVars, udpVars, accepting, broadcasting, connVars, peer>>

\* on_peer_
PeerFound ==
    /\ listening = "peer" /\ listening' = "test"
    /\ UsesMembers
    /\ UNCHANGED <<tcpVars, udpVars, accepting, broadcasting, connVars, peer>>

ListenLoop == ListenTest \/ PeerFound \/ (~socket /\ ReceiveFails) \/ ReceiveError

\* Errors of send_to are ignored; the sleep ends early when running_ is cleared.
BroadcastLoop ==
    /\ \/ broadcasting = "test" /\ broadcasting' = IF udpRunning THEN "send" ELSE "exited"
       \/ broadcasting = "send" /\ broadcasting' = "sleep"
       \/ broadcasting = "sleep" /\ broadcasting' = "test"
    /\ UNCHANGED <<mainVars, tcpVars, udpVars, accepting, listening, connVars, peer>>

-----------------------------------------------------------------------------
(* Peers: send_packet() *)

Connect(c) ==
    /\ peer[c] = "idle"
    /\ IF acceptor = "listening"
       THEN at' = [at EXCEPT ![c] = "backlog"] /\ peer' = [peer EXCEPT ![c] = "connected"]
       ELSE peer' = [peer EXCEPT ![c] = "failed"] /\ UNCHANGED at
    /\ UNCHANGED <<mainVars, tcpVars, udpVars, loops, acked, dispatched>>

SendLine(c) ==
    /\ peer[c] = "connected" /\ peer' = [peer EXCEPT ![c] = "sent"]
    /\ UNCHANGED <<mainVars, tcpVars, udpVars, loops, connVars>>

\* A line comes back before the timeout.
AckArrives(c) ==
    /\ peer[c] = "sent" /\ c \in acked /\ peer' = [peer EXCEPT ![c] = "ok"]
    /\ UNCHANGED <<mainVars, tcpVars, udpVars, loops, connVars>>

\* The timeout, or the end of the connection; the packet may be on its way.
GiveUp(c) ==
    /\ peer[c] \in {"connected", "sent"} /\ peer' = [peer EXCEPT ![c] = "failed"]
    /\ UNCHANGED <<mainVars, tcpVars, udpVars, loops, connVars>>

Peer(c) == Connect(c) \/ SendLine(c) \/ AckArrives(c) \/ GiveUp(c)

-----------------------------------------------------------------------------
Next ==
    /\ main \notin Over
    /\ \/ MainThread \/ Leave
       \/ AcceptLoop \/ AcceptFails
       \/ ListenLoop \/ Receive \/ ReceiveFails \/ BroadcastLoop
       \/ \E c \in Conns : Handler(c) \/ Peer(c)

Spec == Init /\ [][Next]_vars

Going == main \notin Over

\* Threads that can go on do.  Nothing obliges a peer or the user.
Fairness ==
    /\ WF_vars(Going /\ MainThread)
    /\ WF_vars(Going /\ AcceptLoop)
    /\ WF_vars(Going /\ ListenLoop)
    /\ WF_vars(Going /\ BroadcastLoop)
    /\ \A c \in Conns : WF_vars(Going /\ Handler(c))

FairSpec == Spec /\ Fairness
-----------------------------------------------------------------------------
(* Properties *)

\* transport.cpp:46-80.  The accept loop listens on the lowest port of the range
\* that is free, and start() gives up only if none is.
FirstFreePort ==
    /\ accepting # "none" => port \notin busy /\ 1..(port - 1) \subseteq busy
    /\ main \notin {"new", "tcp"} /\ accepting = "none" => 1..Ports \subseteq busy

\* transport.cpp:82-87, 250-256.  Once engine.stop() has returned, no loop accepts a
\* connection or reports a peer any more, whatever the loops were doing when running_
\* was cleared, so that the engine can be destroyed under them.
StoppedIsQuiet ==
    main \in {"stopped", "exited"} \/ leaving = "stopped" =>
        /\ accepting \in Ended /\ listening \in Ended /\ broadcasting \in Ended
        /\ acceptor = "closed" /\ ~socket

\* transport.cpp:132-141.  A sender that got its ACK knows that its packet passed the
\* checks: it was given to the engine or is next, also if that sender or others
\* timed out, the connection broke or the program is being stopped.
AckedReachesEngine ==
    \A c \in Conns : peer[c] = "ok" => at[c] = "dispatch" \/ c \in dispatched

\* How many more steps a loop can take before it has returned, once running_ is clear
\* and its socket is closed.
AcceptLeft == CASE accepting = "accept" -> 2 [] accepting \in {"test", "error"} -> 1
                [] OTHER -> 0
ListenLeft == CASE listening \in {"receive", "peer"} -> 2
                [] listening \in {"test", "error"} -> 1 [] OTHER -> 0
BroadcastLeft == CASE broadcasting = "send" -> 3 [] broadcasting = "sleep" -> 2
                   [] broadcasting = "test" -> 1 [] OTHER -> 0

\* The thread that is waited for is not in a call that only a peer could end.
NotBlocked ==
    /\ main = "joinTcp" /\ accepting = "accept" => acceptor = "closed"
    /\ main = "joinListen" /\ listening = "receive" => ~socket

\* What that thread does brings it nearer to its return.
WindsDown ==
    /\ main = "joinTcp" /\ accepting' # accepting => AcceptLeft' < AcceptLeft
    /\ main = "joinListen" /\ listening' # listening => ListenLeft' < ListenLeft
    /\ main = "joinBroadcast" /\ broadcasting' # broadcasting
          => BroadcastLeft' < BroadcastLeft

\* transport.cpp:82-87, 250-256.  A loop that stop() waits for is at most three steps
\* from its return when the wait begins, is held up by no peer, and goes round no more.
JoinedLoopWindsDown == []NotBlocked /\ [][WindsDown]_vars

\* The packets as TcpTransport's users see them.
answer == [c \in Conns |-> IF peer[c] \in {"ok", "failed"} THEN peer[c] ELSE "none"]
fate == [c \in Conns |->
    IF c \in dispatched THEN "over"
    ELSE CASE at[c] = "dispatch" -> "accepted"
           [] at[c] \in {"done", "lost"} -> "refused"
           [] OTHER -> "open"]

Promise == INSTANCE Transport WITH Packets <- Conns

\* The accept loop, the detached threads and the senders implement module Transport:
\* whatever breaks, times out or is being stopped, a packet is given to the engine at
\* most once, only after it was accepted, and only then can its sender succeed.
ImplementsTransport == Promise!Spec

\* engine.stop() and the destructors return: no join waits for ever.
StopReturns == main \in Stopping ~> (main \notin Stopping)
=============================================================================
