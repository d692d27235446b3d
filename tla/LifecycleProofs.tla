-------------------------- MODULE LifecycleProofs --------------------------
(* Proofs about Lifecycle, for any number of connections and ports.         *)
EXTENDS Lifecycle, TLAPS

USE DEF Over, Stopping, Ended, mainVars, tcpVars, udpVars, loops, connVars

(* Types *)

LEMMA MainTypesNext == ASSUME MainTypes, [Next]_vars PROVE MainTypes'
<1>. USE DEF MainTypes
<1>1. CASE StartTcp
  BY <1>1 DEF StartTcp
<1>2. CASE TryPort
  BY <1>2 DEF TryPort
<1>3. CASE NoPort
  BY <1>3 DEF NoPort, StartThrows, Destroy
<1>4. CASE StartUdp
  BY <1>4 DEF StartUdp, StartThrows, Destroy
<1>5. CASE CreateWindow
  BY <1>5 DEF CreateWindow, Destroy
<1>6. CASE StopTcp
  BY <1>6 DEF StopTcp, AfterTcp
<1>7. CASE CloseTcp
  BY <1>7 DEF CloseTcp
<1>8. CASE JoinTcp
  BY <1>8 DEF JoinTcp, AfterTcp
<1>9. CASE StopUdp
  BY <1>9 DEF StopUdp, AfterUdp
<1>10. CASE CloseUdp
  BY <1>10 DEF CloseUdp
<1>11. CASE JoinListen
  BY <1>11 DEF JoinListen
<1>12. CASE JoinBroadcast
  BY <1>12 DEF JoinBroadcast, AfterUdp
<1>13. CASE Return
  BY <1>13 DEF Return, Destroy
<1>14. CASE AcceptLoop \/ AcceptFails
  BY <1>14 DEF AcceptLoop, AcceptTest, Accept, AcceptFails, AcceptError
<1>15. CASE ListenLoop \/ Receive \/ ReceiveFails \/ BroadcastLoop
  BY <1>15 DEF ListenLoop, ListenTest, PeerFound, ReceiveFails, ReceiveError, Receive,
     BroadcastLoop, UsesMembers
<1>16. CASE Leave
  BY <1>16 DEF Leave
<1>17. CASE UNCHANGED vars
  BY <1>17 DEF vars
<1>18. ASSUME NEW c \in Conns, ReadLine(c) \/ Verify(c) \/ SendAck(c) PROVE MainTypes'
  BY <1>18 DEF ReadLine, Verify, SendAck
<1>19. ASSUME NEW c \in Conns, Dispatch(c) PROVE MainTypes'
  BY <1>19 DEF Dispatch, UsesMembers
<1>20. ASSUME NEW c \in Conns, Peer(c) PROVE MainTypes'
  BY <1>20 DEF Peer, Connect, SendLine, AckArrives, GiveUp
<1>. QED BY <1>1, <1>2, <1>3, <1>4, <1>5, <1>6, <1>7, <1>8, <1>9, <1>10, <1>11, <1>12, <1>13, <1>14, <1>15, <1>16, <1>17, <1>18, <1>19, <1>20
     DEF Next, MainThread, Handler, Peer

LEMMA TcpTypesNext == ASSUME TcpTypes, [Next]_vars PROVE TcpTypes'
<1>. USE DEF TcpTypes
<1>1. CASE StartTcp
  BY <1>1 DEF StartTcp
<1>2. CASE TryPort
  BY <1>2, PortsAssumption DEF TryPort
<1>3. CASE NoPort
  BY <1>3 DEF NoPort, StartThrows, Destroy
<1>4. CASE StartUdp
  BY <1>4 DEF StartUdp, StartThrows, Destroy
<1>5. CASE CreateWindow
  BY <1>5 DEF CreateWindow, Destroy
<1>6. CASE StopTcp
  BY <1>6 DEF StopTcp, AfterTcp
<1>7. CASE CloseTcp
  BY <1>7 DEF CloseTcp
<1>8. CASE JoinTcp
  BY <1>8 DEF JoinTcp, AfterTcp
<1>9. CASE StopUdp
  BY <1>9 DEF StopUdp, AfterUdp
<1>10. CASE CloseUdp
  BY <1>10 DEF CloseUdp
<1>11. CASE JoinListen
  BY <1>11 DEF JoinListen
<1>12. CASE JoinBroadcast
  BY <1>12 DEF JoinBroadcast, AfterUdp
<1>13. CASE Return
  BY <1>13 DEF Return, Destroy
<1>14. CASE AcceptLoop \/ AcceptFails
  BY <1>14 DEF AcceptLoop, AcceptTest, Accept, AcceptFails, AcceptError
<1>15. CASE ListenLoop \/ Receive \/ ReceiveFails \/ BroadcastLoop
  BY <1>15 DEF ListenLoop, ListenTest, PeerFound, ReceiveFails, ReceiveError, Receive,
     BroadcastLoop, UsesMembers
<1>16. CASE Leave
  BY <1>16 DEF Leave
<1>17. CASE UNCHANGED vars
  BY <1>17 DEF vars
<1>18. ASSUME NEW c \in Conns, ReadLine(c) \/ Verify(c) \/ SendAck(c) PROVE TcpTypes'
  BY <1>18 DEF ReadLine, Verify, SendAck
<1>19. ASSUME NEW c \in Conns, Dispatch(c) PROVE TcpTypes'
  BY <1>19 DEF Dispatch, UsesMembers
<1>20. ASSUME NEW c \in Conns, Peer(c) PROVE TcpTypes'
  BY <1>20 DEF Peer, Connect, SendLine, AckArrives, GiveUp
<1>. QED BY <1>1, <1>2, <1>3, <1>4, <1>5, <1>6, <1>7, <1>8, <1>9, <1>10, <1>11, <1>12, <1>13, <1>14, <1>15, <1>16, <1>17, <1>18, <1>19, <1>20
     DEF Next, MainThread, Handler, Peer

LEMMA LoopTypesNext == ASSUME LoopTypes, [Next]_vars PROVE LoopTypes'
<1>. USE DEF LoopTypes
<1>1. CASE StartTcp
  BY <1>1 DEF StartTcp
<1>2. CASE TryPort
  BY <1>2 DEF TryPort
<1>3. CASE NoPort
  BY <1>3 DEF NoPort, StartThrows, Destroy
<1>4. CASE StartUdp
  BY <1>4 DEF StartUdp, StartThrows, Destroy
<1>5. CASE CreateWindow
  BY <1>5 DEF CreateWindow, Destroy
<1>6. CASE StopTcp
  BY <1>6 DEF StopTcp, AfterTcp
<1>7. CASE CloseTcp
  BY <1>7 DEF CloseTcp
<1>8. CASE JoinTcp
  BY <1>8 DEF JoinTcp, AfterTcp
<1>9. CASE StopUdp
  BY <1>9 DEF StopUdp, AfterUdp
<1>10. CASE CloseUdp
  BY <1>10 DEF CloseUdp
<1>11. CASE JoinListen
  BY <1>11 DEF JoinListen
<1>12. CASE JoinBroadcast
  BY <1>12 DEF JoinBroadcast, AfterUdp
<1>13. CASE Return
  BY <1>13 DEF Return, Destroy
<1>14. CASE AcceptLoop \/ AcceptFails
  BY <1>14 DEF AcceptLoop, AcceptTest, Accept, AcceptFails, AcceptError
<1>15. CASE ListenLoop \/ Receive \/ ReceiveFails \/ BroadcastLoop
  BY <1>15 DEF ListenLoop, ListenTest, PeerFound, ReceiveFails, ReceiveError, Receive,
     BroadcastLoop, UsesMembers
<1>16. CASE Leave
  BY <1>16 DEF Leave
<1>17. CASE UNCHANGED vars
  BY <1>17 DEF vars
<1>18. ASSUME NEW c \in Conns, ReadLine(c) \/ Verify(c) \/ SendAck(c) PROVE LoopTypes'
  BY <1>18 DEF ReadLine, Verify, SendAck
<1>19. ASSUME NEW c \in Conns, Dispatch(c) PROVE LoopTypes'
  BY <1>19 DEF Dispatch, UsesMembers
<1>20. ASSUME NEW c \in Conns, Peer(c) PROVE LoopTypes'
  BY <1>20 DEF Peer, Connect, SendLine, AckArrives, GiveUp
<1>. QED BY <1>1, <1>2, <1>3, <1>4, <1>5, <1>6, <1>7, <1>8, <1>9, <1>10, <1>11, <1>12, <1>13, <1>14, <1>15, <1>16, <1>17, <1>18, <1>19, <1>20
     DEF Next, MainThread, Handler, Peer

LEMMA ConnTypesNext == ASSUME ConnTypes, [Next]_vars PROVE ConnTypes'
<1>. USE DEF ConnTypes
<1>1. CASE MainThread /\ ~CloseTcp
  BY <1>1 DEF MainThread, StartTcp, TryPort, NoPort, StartUdp, CreateWindow, StopTcp, CloseTcp, JoinTcp,
     StopUdp, CloseUdp, JoinListen, JoinBroadcast, Return, StartThrows, Destroy,
     AfterTcp, AfterUdp
<1>2. CASE CloseTcp
  BY <1>2 DEF CloseTcp
<1>3. CASE AcceptLoop \/ AcceptFails
  BY <1>3 DEF AcceptLoop, AcceptTest, Accept, AcceptFails, AcceptError
<1>4. CASE ListenLoop \/ Receive \/ ReceiveFails \/ BroadcastLoop
  BY <1>4 DEF ListenLoop, ListenTest, PeerFound, ReceiveFails, ReceiveError, Receive,
     BroadcastLoop, UsesMembers
<1>5. CASE Leave
  BY <1>5 DEF Leave
<1>6. CASE UNCHANGED vars
  BY <1>6 DEF vars
<1>7. ASSUME NEW c \in Conns, ReadLine(c) PROVE ConnTypes'
  BY <1>7 DEF ReadLine
<1>8. ASSUME NEW c \in Conns, Verify(c) PROVE ConnTypes'
  BY <1>8 DEF Verify
<1>9. ASSUME NEW c \in Conns, SendAck(c) PROVE ConnTypes'
  BY <1>9 DEF SendAck
<1>10. ASSUME NEW c \in Conns, Dispatch(c) PROVE ConnTypes'
  BY <1>10 DEF Dispatch, UsesMembers
<1>11. ASSUME NEW c \in Conns, Connect(c) PROVE ConnTypes'
  BY <1>11 DEF Connect
<1>12. ASSUME NEW c \in Conns, SendLine(c) PROVE ConnTypes'
  BY <1>12 DEF SendLine
<1>13. ASSUME NEW c \in Conns, AckArrives(c) PROVE ConnTypes'
  BY <1>13 DEF AckArrives
<1>14. ASSUME NEW c \in Conns, GiveUp(c) PROVE ConnTypes'
  BY <1>14 DEF GiveUp
<1>. QED BY <1>1, <1>2, <1>3, <1>4, <1>5, <1>6, <1>7, <1>8, <1>9, <1>10, <1>11, <1>12, <1>13, <1>14
     DEF Next, MainThread, Handler, Peer

\* The threads keep every variable in its type, and listen to a port of the range only.
THEOREM TypeCorrect == Spec => []TypeOK
<1>1. Init => TypeOK
  <2>1. Init => TcpTypes
    BY PortsAssumption DEF Init, TcpTypes
  <2>2. Init => MainTypes /\ LoopTypes
    BY DEF Init, MainTypes, LoopTypes
  <2>3. Init => ConnTypes
    BY DEF Init, ConnTypes
  <2>. QED BY <2>1, <2>2, <2>3 DEF TypeOK
<1>2. TypeOK /\ [Next]_vars => TypeOK'
  BY MainTypesNext, TcpTypesNext, LoopTypesNext, ConnTypesNext DEF TypeOK
<1>. QED BY <1>1, <1>2, PTL DEF Spec

-----------------------------------------------------------------------------
(* The port scan *)

\* Until a port is found nothing is open, and the ports left behind are busy.
PortInv ==
    /\ main \in {"new", "tcp"} =>
          /\ members /\ accepting = "none" /\ acceptor = "closed"
          /\ 1..(port - 1) \subseteq busy
    /\ FirstFreePort

LEMMA PortStep == TypeOK /\ PortInv /\ [Next]_vars => PortInv'
<1>. SUFFICES ASSUME TypeOK, PortInv, [Next]_vars PROVE PortInv'
  OBVIOUS
<1>. USE DEF PortInv, FirstFreePort
<1>1. CASE TryPort
  <2>1. port \in Nat /\ (port + 1) - 1 = port
    BY DEF TypeOK, TcpTypes
  <2>2. port \in busy => 1..port \subseteq busy
    <3>1. ASSUME NEW i \in 1..port, port \in busy PROVE i \in busy
      <4>1. i = port \/ i \in 1..(port - 1)
        BY <2>1
      <4>. QED BY <1>1, <3>1, <4>1 DEF TryPort
    <3>. QED BY <3>1
  <2>. QED BY <1>1, <2>1, <2>2 DEF TryPort
<1>2. CASE NoPort
  <2>1. 1..Ports \subseteq 1..(port - 1)
    BY <1>2, PortsAssumption DEF NoPort, TypeOK, TcpTypes
  <2>. QED BY <1>2, <2>1 DEF NoPort, StartThrows, Destroy
<1>3. CASE StartTcp
  BY <1>3 DEF StartTcp
<1>4. CASE StartUdp \/ CreateWindow \/ Return
  BY <1>4 DEF StartUdp, CreateWindow, Return, StartThrows, Destroy
<1>5. CASE StopTcp \/ CloseTcp \/ JoinTcp
  BY <1>5 DEF StopTcp, CloseTcp, JoinTcp, AfterTcp
<1>6. CASE StopUdp \/ CloseUdp \/ JoinListen \/ JoinBroadcast \/ Leave
  BY <1>6 DEF StopUdp, CloseUdp, JoinListen, JoinBroadcast, Leave, AfterUdp
<1>7. CASE AcceptLoop \/ AcceptFails
  BY <1>7 DEF AcceptLoop, AcceptTest, Accept, AcceptFails, AcceptError
<1>8. CASE PeerFound
  BY <1>8 DEF PeerFound, UsesMembers
<1>9. CASE (ListenLoop /\ ~PeerFound) \/ Receive \/ ReceiveFails \/ BroadcastLoop
  BY <1>9 DEF ListenLoop, ListenTest, ReceiveFails, ReceiveError, Receive, BroadcastLoop
<1>10. ASSUME NEW c \in Conns, Dispatch(c) PROVE PortInv'
  BY <1>10 DEF Dispatch, UsesMembers
<1>11. ASSUME NEW c \in Conns, (Handler(c) /\ ~Dispatch(c)) \/ Peer(c) PROVE PortInv'
  BY <1>11 DEF Handler, ReadLine, Verify, SendAck, Peer, Connect, SendLine, AckArrives, GiveUp
<1>12. CASE UNCHANGED vars
  BY <1>12 DEF vars
<1>. QED BY <1>1, <1>2, <1>3, <1>4, <1>5, <1>6, <1>7, <1>8, <1>9, <1>10, <1>11,
     <1>12 DEF Next, MainThread, ListenLoop, Handler

\* The port scan ends at the lowest free port, or fails because there is none.
THEOREM FirstFreePortHolds == Spec => []FirstFreePort
<1>1. Init => PortInv
  BY DEF Init, PortInv, FirstFreePort
<1>2. PortInv => FirstFreePort
  BY DEF PortInv
<1>. QED BY <1>1, <1>2, TypeCorrect, PortStep, PTL DEF Spec

-----------------------------------------------------------------------------
(* Stopping *)

TcpDown == ~tcpRunning /\ acceptor = "closed" /\ accepting \in Ended
UdpDown == ~udpRunning /\ ~socket /\ listening \in Ended /\ broadcasting \in Ended

\* How far the two halves are down at each point of the main thread.  running_ alone
\* tells it outside the stop() that clears it, and a second stop() relies on that.
DownInv ==
    /\ main \in {"new", "tcp", "udp", "window", "loop", "stopped"} => leaving = "no" /\ members
    /\ leaving = "no" => members
    /\ main \in {"tcp", "udp", "window", "loop"} => tcpRunning
    /\ ~tcpRunning => TcpDown \/ main \in {"closeTcp", "joinTcp", "crashed"}
    /\ ~udpRunning => UdpDown \/ main \in {"closeUdp", "joinListen", "joinBroadcast", "crashed"}
    /\ main \in {"closeTcp", "joinTcp"} => ~tcpRunning
    /\ main = "joinTcp" => acceptor = "closed"
    /\ main \in {"closeUdp", "joinListen", "joinBroadcast"} => ~udpRunning
    /\ main \in {"joinListen", "joinBroadcast"} => ~socket
    /\ main = "joinBroadcast" => listening \in Ended
    /\ leaving = "no" /\ main \in {"stopUdp", "closeUdp", "joinListen", "joinBroadcast"} => TcpDown
    /\ leaving # "no" /\ main \in {"stopTcp", "closeTcp", "joinTcp"} => UdpDown
    /\ main = "stopped" => TcpDown /\ UdpDown
    /\ leaving = "stopped" =>
          TcpDown /\ UdpDown /\ main \in {"stopUdp", "stopTcp", "exited", "crashed"}
    /\ main = "exited" => TcpDown /\ UdpDown

LEMMA DownStep == TypeOK /\ DownInv /\ [Next]_vars => DownInv'
<1>. SUFFICES ASSUME MainTypes, LoopTypes, DownInv, [Next]_vars PROVE DownInv'
  BY DEF TypeOK
<1>. USE DEF DownInv, TcpDown, UdpDown, MainTypes, LoopTypes
<1>1. CASE StartTcp
  BY <1>1 DEF StartTcp
<1>2. CASE TryPort
  BY <1>2 DEF TryPort
<1>3. CASE NoPort
  <2>1. main = "tcp" /\ UNCHANGED <<tcpVars, udpVars, loops>>
    BY <1>3 DEF NoPort
  <2>2. CASE main' = "stopUdp" /\ leaving' = "abandoned" /\ members' = FALSE
    BY <2>1, <2>2
  <2>3. CASE main' = "terminated" /\ UNCHANGED <<leaving, members>>
    BY <2>1, <2>3
  <2>. QED BY <1>3, <2>2, <2>3 DEF NoPort, StartThrows, Destroy
<1>4. CASE StartUdp
  BY <1>4 DEF StartUdp, StartThrows, Destroy
<1>5. CASE CreateWindow
  BY <1>5 DEF CreateWindow, Destroy
<1>6. CASE Leave
  BY <1>6 DEF Leave
<1>7. CASE StopTcp
  BY <1>7 DEF StopTcp, AfterTcp
<1>8. CASE CloseTcp
  BY <1>8 DEF CloseTcp
<1>9. CASE JoinTcp
  BY <1>9 DEF JoinTcp, AfterTcp
<1>10. CASE StopUdp
  BY <1>10 DEF StopUdp, AfterUdp
<1>11. CASE CloseUdp
  BY <1>11 DEF CloseUdp
<1>12. CASE JoinListen
  BY <1>12 DEF JoinListen
<1>13. CASE JoinBroadcast
  BY <1>13 DEF JoinBroadcast, AfterUdp
<1>14. CASE Return
  BY <1>14 DEF Return, Destroy
<1>15. CASE AcceptLoop \/ AcceptFails
  BY <1>15 DEF AcceptLoop, AcceptTest, Accept, AcceptFails, AcceptError
<1>16. CASE PeerFound
  BY <1>16 DEF PeerFound, UsesMembers
<1>17. CASE (ListenLoop /\ ~PeerFound) \/ Receive \/ ReceiveFails
  BY <1>17 DEF ListenLoop, ListenTest, ReceiveFails, ReceiveError, Receive
<1>18. CASE BroadcastLoop
  BY <1>18 DEF BroadcastLoop
<1>19. ASSUME NEW c \in Conns, Dispatch(c) PROVE DownInv'
  BY <1>19 DEF Dispatch, UsesMembers
<1>20. ASSUME NEW c \in Conns, (Handler(c) /\ ~Dispatch(c)) \/ Peer(c) PROVE DownInv'
  BY <1>20 DEF Handler, ReadLine, Verify, SendAck, Peer, Connect, SendLine, AckArrives, GiveUp
<1>21. CASE UNCHANGED vars
  BY <1>21 DEF vars
<1>. QED BY <1>1, <1>2, <1>3, <1>4, <1>5, <1>6, <1>7, <1>8, <1>9, <1>10, <1>11, <1>12,
     <1>13, <1>14, <1>15, <1>16, <1>17, <1>18, <1>19, <1>20, <1>21
     DEF Next, MainThread, ListenLoop, Handler

\* Once stop() has returned, both loops of the beacon and the accept loop have ended.
THEOREM StoppedIsQuietHolds == Spec => []StoppedIsQuiet
<1>1. Init => DownInv
  BY DEF Init, DownInv, TcpDown, UdpDown
<1>2. DownInv => StoppedIsQuiet
  BY DEF DownInv, TcpDown, UdpDown, StoppedIsQuiet
<1>. QED BY <1>1, <1>2, TypeCorrect, DownStep, PTL DEF Spec

LEMMA WindsDownStep == ASSUME LoopTypes, DownInv, [Next]_vars PROVE WindsDown
<1>. USE DEF WindsDown
<1>1. CASE UNCHANGED loops
  BY <1>1
<1>2. CASE main \notin {"joinTcp", "joinListen", "joinBroadcast"}
  BY <1>2
<1>3. CASE (AcceptLoop \/ AcceptFails) /\ main \in {"joinTcp", "joinListen", "joinBroadcast"}
  <2>1. UNCHANGED <<listening, broadcasting>>
    BY <1>3 DEF AcceptLoop, AcceptTest, Accept, AcceptFails, AcceptError
  <2>2. main = "joinTcp" => ~tcpRunning
    BY DEF DownInv
  <2>3. main = "joinTcp" => AcceptLeft' < AcceptLeft
    BY <1>3, <2>2 DEF AcceptLoop, AcceptTest, Accept, AcceptFails, AcceptError, AcceptLeft
  <2>. QED BY <2>1, <2>3
<1>4. CASE /\ ListenLoop \/ Receive \/ ReceiveFails
           /\ main \in {"joinTcp", "joinListen", "joinBroadcast"}
  <2>1. UNCHANGED <<accepting, broadcasting>>
    BY <1>4 DEF ListenLoop, ListenTest, PeerFound, Receive, ReceiveFails, ReceiveError
  <2>2. main = "joinListen" => ~udpRunning /\ ~socket
    BY DEF DownInv
  <2>3. main = "joinListen" => ListenLeft' < ListenLeft
    BY <1>4, <2>2 DEF ListenLoop, ListenTest, PeerFound, Receive, ReceiveFails,
                      ReceiveError, ListenLeft
  <2>. QED BY <2>1, <2>3
<1>5. CASE BroadcastLoop /\ main \in {"joinTcp", "joinListen", "joinBroadcast"}
  <2>1. UNCHANGED <<accepting, listening>>
    BY <1>5 DEF BroadcastLoop
  <2>2. main = "joinBroadcast" => ~udpRunning
    BY DEF DownInv
  <2>3. main = "joinBroadcast" => BroadcastLeft' < BroadcastLeft
    BY <1>5, <2>2 DEF BroadcastLoop, BroadcastLeft
  <2>. QED BY <2>1, <2>3
<1>6. CASE UNCHANGED vars
  BY <1>1, <1>6 DEF vars
<1>7. CASE Leave
  BY <1>1, <1>7 DEF Leave
<1>8. CASE MainThread
  BY <1>1, <1>2, <1>8 DEF MainThread, StartTcp, TryPort, NoPort, StartUdp, CreateWindow, StopTcp,
     CloseTcp, JoinTcp, StopUdp, CloseUdp, JoinListen, JoinBroadcast, Return
<1>9. ASSUME NEW c \in Conns, Handler(c) \/ Peer(c) PROVE WindsDown
  BY <1>1, <1>9 DEF Handler, ReadLine, Verify, SendAck, Dispatch, Peer, Connect, SendLine,
     AckArrives, GiveUp
<1>. QED BY <1>2, <1>3, <1>4, <1>5, <1>6, <1>7, <1>8, <1>9 DEF Next

\* While stop() joins a thread, that thread is on its last way round its loop: what
\* StopReturns needs besides the fairness of the threads.
THEOREM JoinedLoopWindsDownHolds == Spec => JoinedLoopWindsDown
<1>1. Init => DownInv
  BY DEF Init, DownInv, TcpDown, UdpDown
<1>2. DownInv => NotBlocked
  BY DEF DownInv, NotBlocked
<1>3. TypeOK /\ DownInv /\ [Next]_vars => [WindsDown]_vars
  BY WindsDownStep DEF TypeOK
<1>. QED BY <1>1, <1>2, <1>3, TypeCorrect, DownStep, PTL DEF Spec, JoinedLoopWindsDown

-----------------------------------------------------------------------------
(* Acknowledgements *)

AckInv ==
    \A c \in Conns :
        /\ at[c] # "none" => peer[c] # "idle"
        /\ c \in acked => at[c] # "none" /\ (at[c] = "dispatch" \/ c \in dispatched)
        /\ peer[c] = "ok" => c \in acked
        /\ c \in dispatched => at[c] = "done"

LEMMA AckStep == TypeOK /\ AckInv /\ [Next]_vars => AckInv'
<1>. SUFFICES ASSUME ConnTypes, AckInv, [Next]_vars PROVE AckInv'
  BY DEF TypeOK
<1>. USE DEF AckInv, ConnTypes
<1>1. CASE UNCHANGED <<connVars, peer>>
  BY <1>1
<1>2. CASE CloseTcp
  BY <1>2 DEF CloseTcp
<1>3. CASE MainThread /\ ~CloseTcp
  BY <1>1, <1>3 DEF MainThread, StartTcp, TryPort, NoPort, StartUdp, CreateWindow, StopTcp,
     JoinTcp, StopUdp, CloseUdp, JoinListen, JoinBroadcast, Return
<1>4. CASE Accept
  BY <1>4 DEF Accept
<1>5. CASE (AcceptLoop /\ ~Accept) \/ AcceptFails
  BY <1>1, <1>5 DEF AcceptLoop, AcceptTest, AcceptFails, AcceptError
<1>6. CASE ListenLoop \/ Receive \/ ReceiveFails \/ BroadcastLoop \/ Leave
  BY <1>1, <1>6 DEF ListenLoop, ListenTest, PeerFound, ReceiveFails, ReceiveError, Receive,
     BroadcastLoop, Leave
<1>7. ASSUME NEW c \in Conns, Handler(c) \/ Peer(c) PROVE AckInv'
  <2>1. CASE ReadLine(c) \/ Verify(c)
    BY <2>1 DEF ReadLine, Verify
  <2>2. CASE SendAck(c)
    BY <2>2 DEF SendAck
  <2>3. CASE Dispatch(c)
    BY <2>3 DEF Dispatch
  <2>4. CASE Connect(c)
    BY <2>4 DEF Connect
  <2>5. CASE SendLine(c) \/ GiveUp(c)
    BY <2>5 DEF SendLine, GiveUp
  <2>6. CASE AckArrives(c)
    BY <2>6 DEF AckArrives
  <2>. QED BY <1>7, <2>1, <2>2, <2>3, <2>4, <2>5, <2>6 DEF Handler, Peer
<1>8. CASE UNCHANGED vars
  BY <1>1, <1>8 DEF vars
<1>. QED BY <1>2, <1>3, <1>4, <1>5, <1>6, <1>7, <1>8 DEF Next

\* An ACK received means that the packet was verified and reaches the engine.
THEOREM AckedReachesEngineHolds == Spec => []AckedReachesEngine
<1>1. Init => AckInv
  BY DEF Init, AckInv
<1>2. AckInv => AckedReachesEngine
  BY DEF AckInv, AckedReachesEngine
<1>. QED BY <1>1, <1>2, TypeCorrect, AckStep, PTL DEF Spec

-----------------------------------------------------------------------------
(* Refinement of Transport *)

LEMMA TransportStutters ==
    ASSUME UNCHANGED <<connVars, peer>> PROVE UNCHANGED Promise!vars
BY DEF Promise!vars, answer, fate

\* A connection that ends before its packet was accepted.
LEMMA Refuses ==
    ASSUME ConnTypes, NEW c \in Conns, c \notin dispatched,
           at[c] \in {"backlog", "read", "verify", "ack"},
           \E to \in {"done", "lost"} : at' = [at EXCEPT ![c] = to],
           UNCHANGED <<dispatched, peer>>
    PROVE  Promise!Refuse
<1>1. answer' = answer
  BY DEF answer
<1>2. {c} \in SUBSET Promise!Open
  BY DEF Promise!Open, fate
<1>3. fate' = [d \in Conns |-> IF d \in {c} THEN "refused" ELSE fate[d]]
  BY DEF fate, ConnTypes
<1>. QED BY <1>1, <1>2, <1>3 DEF Promise!Refuse

\* Progress of a connection that does not decide over its packet.
LEMMA Proceeds ==
    ASSUME ConnTypes, NEW c \in Conns, c \notin dispatched,
           at[c] \in {"none", "backlog", "read", "verify"},
           \E to \in {"backlog", "read", "verify", "ack"} : at' = [at EXCEPT ![c] = to],
           UNCHANGED dispatched
    PROVE  fate' = fate
BY DEF fate, ConnTypes

LEMMA CloseRefuses ==
    ASSUME ConnTypes, AckInv, CloseTcp PROVE Promise!Refuse
<1>. DEFINE S == {c \in Conns : at[c] = "backlog"}
<1>1. answer' = answer
  BY DEF answer, CloseTcp
<1>2. \A c \in S : c \notin dispatched
  BY DEF AckInv
<1>3. S \in SUBSET Promise!Open
  BY <1>2 DEF Promise!Open, fate
<1>4. fate' = [c \in Conns |-> IF c \in S THEN "refused" ELSE fate[c]]
  BY <1>2 DEF fate, ConnTypes, CloseTcp
<1>. QED BY <1>1, <1>3, <1>4 DEF Promise!Refuse

LEMMA HandlerTransports ==
    ASSUME ConnTypes, AckInv, NEW c \in Conns, Handler(c)
    PROVE  [Promise!Next]_(Promise!vars)
<1>1. peer' = peer /\ answer' = answer
  BY DEF Handler, ReadLine, Verify, SendAck, Dispatch, answer
<1>2. at[c] # "done" => c \notin dispatched
  BY DEF AckInv
<1>3. CASE ReadLine(c)
  <2>1. CASE at' = [at EXCEPT ![c] = "verify"]
    BY <1>1, <1>2, <1>3, <2>1, Proceeds DEF ReadLine, Promise!vars
  <2>2. CASE at' = [at EXCEPT ![c] = "done"]
    BY <1>1, <1>2, <1>3, <2>2, Refuses DEF ReadLine, Promise!Next
  <2>. QED BY <1>3, <2>1, <2>2 DEF ReadLine
<1>4. CASE Verify(c)
  <2>1. CASE at' = [at EXCEPT ![c] = "ack"]
    BY <1>1, <1>2, <1>4, <2>1, Proceeds DEF Verify, Promise!vars
  <2>2. CASE at' = [at EXCEPT ![c] = "done"]
    BY <1>1, <1>2, <1>4, <2>2, Refuses DEF Verify, Promise!Next
  <2>. QED BY <1>4, <2>1, <2>2 DEF Verify
<1>5. CASE SendAck(c)
  <2>1. CASE at' = [at EXCEPT ![c] = "dispatch"]
    <3>1. fate[c] = "open"
      BY <1>2, <1>5 DEF SendAck, fate
    <3>2. fate' = [fate EXCEPT ![c] = "accepted"]
      BY <1>2, <1>5, <2>1 DEF SendAck, fate, ConnTypes
    <3>. QED BY <1>1, <3>1, <3>2 DEF Promise!Next, Promise!Accept, Promise!Become
  <2>2. CASE at' = [at EXCEPT ![c] = "done"]
    BY <1>1, <1>2, <1>5, <2>2, Refuses DEF SendAck, Promise!Next
  <2>. QED BY <1>5, <2>1, <2>2 DEF SendAck
<1>6. CASE Dispatch(c)
  <2>1. fate[c] = "accepted"
    BY <1>2, <1>6 DEF Dispatch, fate
  <2>2. fate' = [fate EXCEPT ![c] = "over"]
    BY <1>6 DEF Dispatch, fate, ConnTypes
  <2>. QED BY <1>1, <2>1, <2>2 DEF Promise!Next, Promise!Dispatch, Promise!Become
<1>. QED BY <1>3, <1>4, <1>5, <1>6 DEF Handler

\* The sender learns of its packet once.
LEMMA Learns ==
    ASSUME ConnTypes, NEW c \in Conns, NEW what \in {"ok", "failed"},
           peer[c] \in {"idle", "connected", "sent"}, peer' = [peer EXCEPT ![c] = what],
           UNCHANGED connVars
    PROVE  Promise!Learn(c, what)
<1>1. fate' = fate
  BY DEF fate
<1>2. answer[c] = "none" /\ answer' = [answer EXCEPT ![c] = what]
  BY DEF answer, ConnTypes
<1>. QED BY <1>1, <1>2 DEF Promise!Learn

LEMMA PeerTransports ==
    ASSUME ConnTypes, AckInv, NEW c \in Conns, Peer(c)
    PROVE  [Promise!Next]_(Promise!vars)
<1>1. CASE Connect(c)
  <2>1. CASE acceptor = "listening"
    <3>1. answer' = answer
      BY <1>1, <2>1 DEF Connect, answer, ConnTypes
    <3>2. at[c] = "none" /\ c \notin dispatched
      BY <1>1 DEF Connect, AckInv, ConnTypes
    <3>. QED BY <1>1, <2>1, <3>1, <3>2, Proceeds DEF Connect, Promise!vars
  <2>2. CASE acceptor # "listening"
    BY <1>1, <2>2, Learns DEF Connect, Promise!Next, Promise!Fail
  <2>. QED BY <2>1, <2>2
<1>2. CASE SendLine(c)
  BY <1>2 DEF SendLine, Promise!vars, answer, fate, ConnTypes
<1>3. CASE AckArrives(c)
  <2>1. fate[c] \in {"accepted", "over"}
    BY <1>3 DEF AckArrives, AckInv, fate
  <2>. QED BY <1>3, <2>1, Learns DEF AckArrives, Promise!Next, Promise!Succeed
<1>4. CASE GiveUp(c)
  BY <1>4, Learns DEF GiveUp, Promise!Next, Promise!Fail
<1>. QED BY <1>1, <1>2, <1>3, <1>4 DEF Peer

LEMMA NextTransports ==
    TypeOK /\ AckInv /\ [Next]_vars => [Promise!Next]_(Promise!vars)
<1>. SUFFICES ASSUME ConnTypes, AckInv, [Next]_vars PROVE [Promise!Next]_(Promise!vars)
  BY DEF TypeOK
<1>1. CASE UNCHANGED <<connVars, peer>>
  BY <1>1, TransportStutters
<1>2. CASE CloseTcp
  BY <1>2, CloseRefuses DEF Promise!Next
<1>3. CASE MainThread /\ ~CloseTcp
  BY <1>1, <1>3 DEF MainThread, StartTcp, TryPort, NoPort, StartUdp, CreateWindow, StopTcp,
     JoinTcp, StopUdp, CloseUdp, JoinListen, JoinBroadcast, Return
<1>4. CASE Accept
  <2>1. PICK c \in Conns, next \in {"read", "lost"} :
            at[c] = "backlog" /\ at' = [at EXCEPT ![c] = next]
    BY <1>4 DEF Accept
  <2>2. c \notin dispatched
    BY <2>1 DEF AckInv
  <2>3. UNCHANGED <<dispatched, peer>> /\ answer' = answer
    BY <1>4 DEF Accept, answer
  <2>4. CASE next = "read"
    BY <2>1, <2>2, <2>3, <2>4, Proceeds DEF Promise!vars
  <2>5. CASE next = "lost"
    BY <2>1, <2>2, <2>3, <2>5, Refuses DEF Promise!Next
  <2>. QED BY <2>4, <2>5
<1>5. CASE (AcceptLoop /\ ~Accept) \/ AcceptFails
  BY <1>1, <1>5 DEF AcceptLoop, AcceptTest, AcceptFails, AcceptError
<1>6. CASE ListenLoop \/ Receive \/ ReceiveFails \/ BroadcastLoop \/ Leave
  BY <1>1, <1>6 DEF ListenLoop, ListenTest, PeerFound, ReceiveFails, ReceiveError, Receive,
     BroadcastLoop, Leave
<1>7. ASSUME NEW c \in Conns, Handler(c) \/ Peer(c) PROVE [Promise!Next]_(Promise!vars)
  BY <1>7, HandlerTransports, PeerTransports
<1>8. CASE UNCHANGED vars
  BY <1>1, <1>8 DEF vars
<1>. QED BY <1>2, <1>3, <1>4, <1>5, <1>6, <1>7, <1>8 DEF Next

\* The transport keeps its promise to senders and to the engine in every state of
\* start(), stop() and the loops: each step is one of Transport or changes nothing in it.
THEOREM ImplementsTransportHolds == Spec => ImplementsTransport
<1>1. Init => AckInv
  BY DEF Init, AckInv
<1>2. Init => Promise!Init
  BY DEF Init, Promise!Init, answer, fate
<1>. QED BY <1>1, <1>2, TypeCorrect, AckStep, NextTransports, PTL
     DEF Spec, ImplementsTransport, Promise!Spec
=============================================================================
