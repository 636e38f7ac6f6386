------------------------- MODULE DeviceThreadsProofs -------------------------
(* What holds of the threads that write motor commands and of the listeners,   *)
(* for any number of Sub-Pis, descriptors, client threads and failures.       *)
EXTENDS DeviceServerProofs

(* Motor commands.                                                           *)

\* Who writes a frame holds send_mutex_.
WriterHoldsMutex ==
    \A c \in Clients : motor[c].pc \in {"header", "body"} => send_mutex = c

HalfFrame(f) == IsOpen(f) /\ sock[f].peer = "open" /\ sock[f].cmd \in SubPis

MotorInv == WriterHoldsMutex /\ HalfFrameHasWriter

\* A step begins no frame.
NoNewFrames == \A f \in Fds : HalfFrame(f)' => HalfFrame(f)

LEMMA QuietForMotor ==
    ASSUME MotorInv, NoNewFrames, UNCHANGED <<motor, send_mutex>>
    PROVE  MotorInv'
BY DEF MotorInv, WriterHoldsMutex, HalfFrameHasWriter, NoNewFrames, HalfFrame

LEMMA WorldFrames == ASSUME TypeOK, World PROVE NoNewFrames /\ UNCHANGED <<motor, send_mutex>>
<1> USE SocketsAssumption, NoneIsNoConnection DEF TypeOK, SocketsTypeOK, NoNewFrames, HalfFrame, IsOpen
<1>1. ASSUME NEW d \in SubPis, Boot(d) PROVE NoNewFrames
  BY <1>1 DEF Boot
<1>2. ASSUME NEW d \in SubPis, NEW how \in Endings, Crash(d, how) PROVE NoNewFrames
  <2> SUFFICES ASSUME NEW f \in Fds, HalfFrame(f)' PROVE HalfFrame(f)
    OBVIOUS
  <2>1. sock[f] # None
    BY <1>2 DEF Crash
  <2>2. sock'[f] = sock[f] \/ sock'[f] = [sock[f] EXCEPT !.peer = how]
    BY <1>2 DEF Crash
  <2>3. sock[f] \in Connection /\ how # "open"
    BY <2>1 DEF Endings
  <2>4. sock'[f] = sock[f]
    BY <2>2, <2>3 DEF Connection
  <2> QED
    BY <2>4
<1>3. ASSUME NEW g \in Fds, SubPiSends(g) PROVE NoNewFrames
  <2> DEFINE c == [sock[g] EXCEPT !.unread = @ + 1]
  <2>1. sock[g] \in Connection /\ sock' = [sock EXCEPT ![g] = c]
    BY <1>3 DEF SubPiSends
  <2>2. c.peer = sock[g].peer /\ c.cmd = sock[g].cmd
    BY <2>1 DEF Connection
  <2> HIDE DEF c
  <2> QED
    BY <1>3, <2>1, <2>2 DEF SubPiSends
<1> QED
  BY <1>1, <1>2, <1>3 DEF World, Environment, managerVars

LEMMA ListenerFrames ==
    ASSUME TypeOK, NEW d \in SubPis, ListenerThread(d)
    PROVE  NoNewFrames /\ UNCHANGED <<motor, send_mutex>>
<1> USE NoneIsNoConnection DEF TypeOK, SocketsTypeOK, NoNewFrames, HalfFrame
<1>1. CASE HasData(d) /\ sock' = Consumed(listener[d].fd)
  <2> DEFINE g == listener[d].fd
             c == [sock[g] EXCEPT !.unread = @ - 1]
  <2>1. g \in Fds /\ sock[g] \in Connection /\ sock' = [sock EXCEPT ![g] = c] /\ IsOpen(g)
    BY <1>1 DEF HasData, IsOpen, Consumed, SubPiTypeOK
  <2>2. c.peer = sock[g].peer /\ c.cmd = sock[g].cmd
    BY <2>1 DEF Connection
  <2> HIDE DEF c, g
  <2>3. NoNewFrames
    BY <2>1, <2>2 DEF IsOpen
  <2> QED
    BY <2>3 DEF ListenerThread, ListenerReadsEvent, ListenerCallbackReturns, ListenerReadsStatus,
       ListenerReadsGarbage, ListenerSkipsPacket, ListenerDisconnected, managerVars
<1>2. CASE UNCHANGED sock
  BY <1>2 DEF IsOpen, ListenerThread, ListenerReadsEvent, ListenerCallbackReturns,
     ListenerReadsStatus, ListenerReadsGarbage, ListenerSkipsPacket, ListenerDisconnected,
     managerVars
<1> QED
  BY <1>1, <1>2 DEF ListenerThread, ListenerReadsEvent, ListenerCallbackReturns,
     ListenerReadsStatus, ListenerReadsGarbage, ListenerSkipsPacket, ListenerDisconnected,
     kernelVars

LEMMA BeaconFrames ==
    ASSUME TypeOK, BeaconThread
    PROVE  NoNewFrames /\ UNCHANGED <<motor, send_mutex>>
<1> USE DEF TypeOK, SocketsTypeOK, NoNewFrames, HalfFrame, IsOpen, kernelVars, managerVars
<1>1. ASSUME NEW d \in SubPis, BeaconOf(d) \/ ConnectGivesUp
      PROVE  NoNewFrames /\ UNCHANGED <<motor, send_mutex>>
  BY <1>1 DEF BeaconOf, ConnectGivesUp
<1>2. ASSUME NEW d \in SubPis, ConnectTo(d)
      PROVE  NoNewFrames /\ UNCHANGED <<motor, send_mutex>>
  BY <1>2, SocketsAssumption DEF ConnectTo, ConnectSucceeds, NewConnection
<1>3. ASSUME BeaconProceeds PROVE NoNewFrames /\ UNCHANGED <<motor, send_mutex>>
  BY <1>3 DEF BeaconProceeds, BeaconRegisters
<1>4. ASSUME ConnectGivesUp PROVE NoNewFrames /\ UNCHANGED <<motor, send_mutex>>
  BY <1>4 DEF ConnectGivesUp
<1> QED
  BY <1>1, <1>2, <1>3, <1>4 DEF BeaconThread

LEMMA MonitorFrames ==
    ASSUME TypeOK, MonitorThread
    PROVE  NoNewFrames /\ UNCHANGED <<motor, send_mutex>>
<1> USE DEF TypeOK, SocketsTypeOK, NoNewFrames, HalfFrame, IsOpen, kernelVars
<1>1. CASE MonitorApplies
  BY <1>1 DEF MonitorApplies, AfterClose
<1>2. CASE UNCHANGED sock
  BY <1>2 DEF MonitorThread, MonitorSnapshot, MonitorChecks, MonitorCycleEnds, MonitorApplies,
     MonitorUnmounts
<1> QED
  BY <1>1, <1>2 DEF MonitorThread

\* A write changes one socket, and leaves no half frame on it but its own.
LEMMA WriteFrames ==
    ASSUME TypeOK, NEW g \in Fds, IsOpen(g), NEW cmd \in SubPis \cup {None, Torn},
           AfterWrite(g, cmd)
    PROVE  /\ \A f \in Fds : f # g /\ HalfFrame(f)' => HalfFrame(f)
           /\ cmd \notin SubPis => ~HalfFrame(g)'
<1> USE NoneIsNoConnection, SocketsAssumption DEF TypeOK, SocketsTypeOK, HalfFrame, IsOpen
<1>1. PICK frame \in {cmd, Torn},
            peer \in IF sock[g].peer \in {"fin", "lost"} THEN {sock[g].peer, "reset"}
                                                       ELSE {sock[g].peer} :
         sock' = [sock EXCEPT ![g].cmd = frame, ![g].peer = peer]
  BY WriteEffect
<1> DEFINE c == [[sock[g] EXCEPT !.cmd = frame] EXCEPT !.peer = peer]
<1>2. sock[g] \in Connection /\ sock' = [sock EXCEPT ![g] = c]
  BY <1>1
<1>3. c.cmd = frame
  BY <1>2 DEF Connection
<1> HIDE DEF c
<1> QED
  BY <1>1, <1>2, <1>3

LEMMA MotorFrames ==
    ASSUME TypeOK, MotorInv, NEW c \in Clients, MotorProceeds(c) \/ \E d \in SubPis : MotorCommand(c, d)
    PROVE  MotorInv'
<1> USE NoneIsNoDevice DEF TypeOK, ManagerTypeOK, MotorInv, WriterHoldsMutex, kernelVars
<1> HIDE DEF SocketsTypeOK
<1>1. HalfFrameHasWriter <=> \A f \in Fds : HalfFrame(f) =>
        \E w \in Clients : send_mutex = w /\ motor[w].pc = "body" /\ motor[w].fd = f
  BY DEF HalfFrameHasWriter, HalfFrame
<1>2. HalfFrameHasWriter' <=> \A f \in Fds : HalfFrame(f)' =>
        \E w \in Clients : send_mutex' = w /\ motor'[w].pc = "body" /\ motor'[w].fd = f
  BY DEF HalfFrameHasWriter, HalfFrame
<1>3. CASE \E d \in SubPis : MotorCommand(c, d)
  <2>1. PICK d \in SubPis : MotorCommand(c, d)
    BY <1>3
  <2>2. \A f \in Fds : HalfFrame(f)' => HalfFrame(f)
    BY <2>1 DEF MotorCommand, HalfFrame, IsOpen
  <2>3. motor[c].pc = "idle" /\ send_mutex' = send_mutex
        /\ motor'[c].pc = "lock" /\ \A w \in Clients : w # c => motor'[w] = motor[w]
    BY <2>1 DEF MotorCommand, MotorLooksUp
  <2> QED
    BY <1>1, <1>2, <2>2, <2>3
<1>4. CASE MotorLocks(c) /\ UNCHANGED kernelVars
  <2>1. \A f \in Fds : HalfFrame(f)' => HalfFrame(f)
    BY <1>4 DEF HalfFrame, IsOpen
  <2>2. send_mutex = None /\ send_mutex' = c /\ motor'[c].pc = "header"
        /\ \A w \in Clients : w # c => motor'[w] = motor[w]
    BY <1>4 DEF MotorLocks, SendMutexFree
  <2> QED
    BY <1>1, <1>2, <2>1, <2>2
<1>5. ASSUME motor[c].pc \in {"header", "body"}, MotorReturns(c),
             \A f \in Fds : HalfFrame(f)' => HalfFrame(f),
             \A f \in Fds : f = motor[c].fd => ~HalfFrame(f)'
      PROVE  MotorInv'
  <2>1. send_mutex = c /\ send_mutex' = None /\ motor'[c] = MotorIdle
        /\ \A w \in Clients : w # c => motor'[w] = motor[w]
    BY <1>5 DEF MotorReturns
  <2>2. \A f \in Fds : ~HalfFrame(f)'
    BY <1>1, <1>5, <2>1
  <2>3. HalfFrameHasWriter'
    BY <1>2, <2>2
  <2>4. WriterHoldsMutex'
    BY <2>1 DEF MotorIdle
  <2> QED
    BY <2>3, <2>4
<1>6. CASE MotorSendFails(c) /\ UNCHANGED kernelVars
  <2>1. \A f \in Fds : HalfFrame(f)' <=> HalfFrame(f)
    BY <1>6 DEF HalfFrame, IsOpen
  <2>2. \A f \in Fds : f = motor[c].fd => ~HalfFrame(f)
    BY <1>6 DEF MotorSendFails, SendExactFails, HalfFrame
  <2> QED
    BY <1>5, <1>6, <2>1, <2>2 DEF MotorSendFails
<1>7. CASE MotorSendsHeader(c)
  <2>1. PICK g \in Fds : g = motor[c].fd /\ IsOpen(g)
    BY <1>7 DEF MotorSendsHeader, SendExactFails, IsOpen
  <2>2. \A f \in Fds : f # g /\ HalfFrame(f)' => HalfFrame(f)
    BY <1>7, <2>1, WriteFrames DEF MotorSendsHeader
  <2>3. motor[c].pc = "header" /\ send_mutex = c /\ send_mutex' = c
        /\ motor'[c].pc = "body" /\ motor'[c].fd = motor[c].fd
        /\ \A w \in Clients : w # c => motor'[w] = motor[w]
    BY <1>7 DEF MotorSendsHeader
  <2> QED
    BY <1>1, <1>2, <2>1, <2>2, <2>3
<1>8. CASE MotorSendsBody(c)
  <2>1. PICK g \in Fds : g = motor[c].fd /\ IsOpen(g)
    BY <1>8 DEF MotorSendsBody, SendExactFails, IsOpen
  <2>2. AfterWrite(g, None) /\ motor[c].pc = "body" /\ MotorReturns(c)
    BY <1>8, <2>1 DEF MotorSendsBody
  <2>3. (\A f \in Fds : f # g /\ HalfFrame(f)' => HalfFrame(f)) /\ ~HalfFrame(g)'
    BY <2>1, <2>2, WriteFrames, SocketsAssumption
  <2>4. \A f \in Fds : HalfFrame(f)' => HalfFrame(f)
    BY <2>3
  <2>5. \A f \in Fds : f = motor[c].fd => ~HalfFrame(f)'
    BY <2>1, <2>3
  <2> QED
    BY <1>5, <2>2, <2>4, <2>5
<1>9. CASE MotorSendTimesOut(c)
  <2>1. PICK g \in Fds : g = motor[c].fd /\ IsOpen(g)
    BY <1>9 DEF MotorSendTimesOut, SendExactFails, IsOpen
  <2>2. motor[c].pc \in {"header", "body"} /\ MotorReturns(c)
        /\ ((motor[c].pc = "header" /\ UNCHANGED sock) \/ AfterWrite(g, Torn))
    BY <1>9, <2>1 DEF MotorSendTimesOut
  <2>3. CASE motor[c].pc = "header" /\ UNCHANGED sock
    <3>1. \A f \in Fds : HalfFrame(f)' <=> HalfFrame(f)
      BY <2>3 DEF HalfFrame, IsOpen
    <3>2. send_mutex = c
      BY <2>3
    <3>3. \A f \in Fds : ~HalfFrame(f)
      BY <1>1, <2>3, <3>2
    <3> QED
      BY <1>5, <2>2, <3>1, <3>3
  <2>4. CASE AfterWrite(g, Torn)
    <3>1. (\A f \in Fds : f # g /\ HalfFrame(f)' => HalfFrame(f)) /\ ~HalfFrame(g)'
      BY <2>1, <2>4, WriteFrames, SocketsAssumption
    <3>2. \A f \in Fds : HalfFrame(f)' => HalfFrame(f)
      BY <3>1
    <3>3. \A f \in Fds : f = motor[c].fd => ~HalfFrame(f)'
      BY <2>1, <3>1
    <3> QED
      BY <1>5, <2>2, <3>2, <3>3
  <2> QED
    BY <2>2, <2>3, <2>4
<1> QED
  BY <1>3, <1>4, <1>6, <1>7, <1>8, <1>9 DEF MotorProceeds

LEMMA MotorStep == ASSUME TypeOK, MotorInv, [Next]_vars PROVE MotorInv'
<1>1. CASE MainThread \/ UNCHANGED vars
  <2>1. NoNewFrames /\ UNCHANGED <<motor, send_mutex>>
    BY <1>1 DEF MainThread, vars, kernelVars, managerVars, NoNewFrames, HalfFrame, IsOpen
  <2> QED
    BY <2>1, QuietForMotor
<1>2. CASE BeaconThread
  BY <1>2, BeaconFrames, QuietForMotor
<1>3. CASE \E d \in SubPis : ListenerThread(d)
  BY <1>3, ListenerFrames, QuietForMotor
<1>4. CASE MonitorThread
  BY <1>4, MonitorFrames, QuietForMotor
<1>5. CASE \E c \in Clients : MotorProceeds(c) \/ \E d \in SubPis : MotorCommand(c, d)
  BY <1>5, MotorFrames
<1>6. CASE World
  BY <1>6, WorldFrames, QuietForMotor
<1> QED
  BY <1>1, <1>2, <1>3, <1>4, <1>5, <1>6 DEF Next

\* sendMotorCommand: where no send has timed out, a frame that is half written
\* on a working connection has its writer, who holds send_mutex_, so that no
\* other command gets into it.
THEOREM FramesHaveWriters == Spec => []HalfFrameHasWriter
<1>1. Init => MotorInv
  BY DEF Init, SocketsInit, ManagerInit, MotorIdle, MotorInv, WriterHoldsMutex, HalfFrameHasWriter,
     IsOpen
<1>2. TypeOK /\ MotorInv /\ [Next]_vars => MotorInv'
  BY MotorStep
<1>3. MotorInv => HalfFrameHasWriter
  BY DEF MotorInv
<1> QED
  BY <1>1, <1>2, <1>3, TypeCorrect, PTL DEF Spec

----------------------------------------------------------------------------
(* Listeners: which devices they stand for.                                  *)

Known(d) == devices[d] # None

\* Nobody listens to, or reports on, a device that is not registered.
KnownInv ==
    /\ \A d \in SubPis : listener[d].pc # "none" \/ d \in device_status => Known(d)
    /\ beacon.pc \in {"relay", "cleanup", "reap"} => beacon.dev \in SubPis /\ Known(beacon.dev)

LEMMA KnownKept ==
    ASSUME KnownInv, \A d \in SubPis : Known(d) => Known(d)',
           UNCHANGED <<listener, device_status, beacon>>
    PROVE  KnownInv'
BY DEF KnownInv, Known

LEMMA KnownBeacon == ASSUME TypeOK, BeaconHoldsSocket, KnownInv, BeaconThread PROVE KnownInv'
<1> USE NoneIsNoDevice DEF TypeOK, ManagerTypeOK, SubPiTypeOK, KnownInv, Known, managerVars
<1>1. CASE \E d \in SubPis : BeaconOf(d)
  BY <1>1 DEF BeaconOf, ReceiveBeacon, BeaconIdle
<1>2. CASE \E d \in SubPis : ConnectTo(d)
  BY <1>2 DEF ConnectTo, ConnectSucceeds
<1>3. CASE ConnectGivesUp
  BY <1>3 DEF ConnectGivesUp, ConnectFails, BeaconIdle
<1>4. CASE BeaconRegisters
  <2>1. beacon.dev \in SubPis /\ beacon.fd \in Fds \cup {None} /\ beacon.port \in Nat
    BY <1>4 DEF BeaconRegisters, BeaconHoldsSocket
  <2>2. devices' = IF IsOnline(beacon.dev) THEN devices
                   ELSE Registered(beacon.dev, beacon.fd, beacon.port)
    BY <1>4 DEF BeaconRegisters, OnDeviceFound
  <2>3. [is_online |-> TRUE, command_socket_fd |-> beacon.fd, udp_listen_port |-> beacon.port]
          \in DeviceInfo
    BY <2>1 DEF DeviceInfo
  <2>4. (\A d \in SubPis : d = beacon.dev => Known(d)') /\ \A d \in SubPis : Known(d) => Known(d)'
    BY <2>1, <2>2, <2>3 DEF Registered, IsOnline
  <2>5. beacon'.dev = beacon.dev /\ UNCHANGED <<listener, device_status>>
    BY <1>4 DEF BeaconRegisters
  <2> QED
    BY <2>1, <2>4, <2>5
<1>5. CASE BeaconRelays /\ UNCHANGED <<kernelVars, managerVars>>
  BY <1>5 DEF BeaconRelays
<1>6. CASE /\ CleanupSwaps \/ (\E d \in SubPis : CleanupReaps(d)) \/ BeaconSpawnsListener
           /\ UNCHANGED <<kernelVars, rtspVars, managerVars>>
  BY <1>6 DEF CleanupSwaps, CleanupReaps, BeaconSpawnsListener, NoListener, NewListener, BeaconIdle
<1> QED
  BY <1>1, <1>2, <1>3, <1>4, <1>5, <1>6 DEF BeaconThread, BeaconProceeds

LEMMA KnownListener ==
    ASSUME TypeOK, KnownInv, NEW d \in SubPis, ListenerThread(d)
    PROVE  KnownInv'
<1>1. listener[d].pc # "none" /\ UNCHANGED <<devices, beacon>>
  BY DEF ListenerThread, ListenerReadsEvent, ListenerCallbackReturns, ListenerReadsStatus,
     ListenerReadsGarbage, ListenerSkipsPacket, ListenerDisconnected, HasData, managerVars, subPiVars
<1>2. \A e \in SubPis : e # d => listener'[e] = listener[e]
  BY DEF ListenerThread, ListenerReadsEvent, ListenerCallbackReturns, ListenerReadsStatus,
     ListenerReadsGarbage, ListenerSkipsPacket, ListenerDisconnected, ListenerEnds, subPiVars,
     TypeOK, SubPiTypeOK
<1>3. device_status' \subseteq device_status \cup {d}
  BY DEF ListenerThread, ListenerReadsEvent, ListenerCallbackReturns, ListenerReadsStatus,
     ListenerReadsGarbage, ListenerSkipsPacket, ListenerDisconnected, OnAvailableEvent, managerVars
<1> QED
  BY <1>1, <1>2, <1>3 DEF KnownInv, Known

LEMMA KnownMonitor == ASSUME TypeOK, KnownInv, MonitorThread PROVE KnownInv'
<1>1. \A d \in SubPis : Known(d) => Known(d)'
  <2>1. CASE MonitorApplies
    <3>1. \A d \in SubPis : Known(d) /\ d \in GoingOffline =>
             SetOffline(GoingOffline)[d] \in DeviceInfo
      BY DEF SetOffline, DeviceInfo, Known, TypeOK, ManagerTypeOK
    <3> QED
      BY <2>1, <3>1, NoneIsNoDevice DEF MonitorApplies, SetOffline, Known
  <2>2. CASE UNCHANGED devices
    BY <2>2 DEF Known
  <2> QED
    BY <2>1, <2>2 DEF MonitorThread, MonitorSnapshot, MonitorChecks, MonitorCycleEnds, MonitorUnmounts
<1>2. UNCHANGED <<listener, device_status, beacon>>
  BY DEF MonitorThread, MonitorSnapshot, MonitorChecks, MonitorCycleEnds, MonitorUnmounts,
     MonitorApplies, subPiVars
<1> QED
  BY <1>1, <1>2, KnownKept

LEMMA KnownStep == ASSUME TypeOK, BeaconHoldsSocket, KnownInv, [Next]_vars PROVE KnownInv'
<1>1. CASE UNCHANGED <<devices, listener, device_status, beacon>>
  BY <1>1 DEF KnownInv, Known
<1>2. ASSUME MainThread \/ World \/ UNCHANGED vars
             \/ \E c \in Clients : MotorProceeds(c) \/ \E d \in SubPis : MotorCommand(c, d)
      PROVE  UNCHANGED <<devices, listener, device_status, beacon>>
  BY <1>2 DEF MainThread, World, vars, managerVars, subPiVars, MotorProceeds, MotorCommand,
     MotorLooksUp, MotorLocks, MotorSendFails, MotorSendTimesOut, MotorSendsHeader,
     MotorSendsBody
<1> QED
  BY <1>1, <1>2, KnownBeacon, KnownListener, KnownMonitor DEF Next

\* getDeviceStatusList finds the ip of every status that a Sub-Pi reported.
THEOREM StatusesHaveIps == Spec => []StatusHasIp
<1>1. Init => KnownInv
  BY DEF Init, ManagerInit, SubPiInit, BeaconIdle, NoListener, KnownInv, Known
<1>2. IndInv /\ KnownInv /\ [Next]_vars => KnownInv'
  BY KnownStep DEF IndInv
<1>3. IndInv /\ KnownInv => StatusHasIp
  BY DEF IndInv, TypeOK, ManagerTypeOK, KnownInv, Known, StatusHasIp, StatusWithoutIp
<1> QED
  BY <1>1, <1>2, <1>3, Inductive, PTL DEF Spec

----------------------------------------------------------------------------
(* Listeners: who is listened to, if nobody sends malformed packets.         *)

\* The listener that the beacon thread is about to start gets the descriptor
\* of the device's registration.
PendingHasFd ==
    \A d \in SubPis : IsOnline(d) /\ ListenerPending(d) => devices[d].command_socket_fd = beacon.fd

CoverInv == PendingHasFd /\ NoZombie

\* The end of a connection is not forgotten, unless its number was not in use.
EndsKept == \A f \in Fds : IsOpen(f) /\ PeekSeesEnd(f) => PeekSeesEnd(f)'

LEMMA OnlineFd ==
    ASSUME IndInv, NEW d \in SubPis, IsOnline(d)
    PROVE  devices[d].command_socket_fd \in Fds /\ IsOpen(devices[d].command_socket_fd)
BY DEF IndInv, OnlineOwnsSocket, IsOnline, IsOpen, TypeOK, ManagerTypeOK, DeviceInfo

\* Steps that neither register a device nor end, start or join a listener.
LEMMA CoverKept ==
    ASSUME IndInv, CoverInv, EndsKept, UNCHANGED beacon,
           \A d \in SubPis : IsOnline(d)' => IsOnline(d) /\ devices'[d] = devices[d],
           \A d \in SubPis : Listening(d) => \/ listener'[d].pc \in {"select", "callback"}
                                                /\ listener'[d].fd = listener[d].fd
                                             \/ PeekSeesEnd(listener[d].fd)
    PROVE  CoverInv'
<1>1. PendingHasFd'
  BY DEF CoverInv, PendingHasFd, ListenerPending
<1>2. NoZombie'
  <2> SUFFICES ASSUME NEW d \in SubPis, IsOnline(d)', ~ListenerPending(d)'
               PROVE  (Listening(d) \/ PeekSeesEnd(devices[d].command_socket_fd))'
    BY DEF NoZombie
  <2>1. PICK f \in Fds : f = devices[d].command_socket_fd /\ f = devices'[d].command_socket_fd
                         /\ IsOpen(f)
    BY OnlineFd
  <2>2. IsOnline(d) /\ ~ListenerPending(d)
    BY DEF ListenerPending
  <2>3. Listening(d) \/ PeekSeesEnd(f)
    BY <2>1, <2>2 DEF CoverInv, NoZombie
  <2>4. CASE PeekSeesEnd(f)
    BY <2>1, <2>4 DEF EndsKept
  <2>5. CASE Listening(d)
    <3>1. CASE PeekSeesEnd(listener[d].fd)
      BY <2>1, <2>5, <3>1 DEF EndsKept, Listening
    <3>2. CASE listener'[d].pc \in {"select", "callback"} /\ listener'[d].fd = listener[d].fd
      BY <2>1, <2>5, <3>2 DEF Listening
    <3> QED
      BY <2>5, <3>1, <3>2
  <2> QED
    BY <2>3, <2>4, <2>5
<1> QED
  BY <1>1, <1>2 DEF CoverInv

LEMMA WorldCover == ASSUME IndInv, CoverInv, World PROVE CoverInv'
<1> USE SocketsAssumption, NoneIsNoConnection DEF IndInv, TypeOK, SocketsTypeOK
<1>1. EndsKept
  <2>1. ASSUME NEW d \in SubPis, Boot(d) PROVE EndsKept
    BY <2>1 DEF Boot, EndsKept, IsOpen, PeekSeesEnd
  <2>2. ASSUME NEW d \in SubPis, NEW how \in Endings, Crash(d, how) PROVE EndsKept
    <3>1. \A f \in Fds : IsOpen(f) /\ sock[f].peer # "open" => sock'[f] = sock[f]
      BY <2>2 DEF Crash
    <3> QED
      BY <3>1 DEF EndsKept, IsOpen, PeekSeesEnd
  <2>3. ASSUME NEW g \in Fds, SubPiSends(g) PROVE EndsKept
    BY <2>3 DEF SubPiSends, EndsKept, IsOpen, PeekSeesEnd
  <2> QED
    BY <2>1, <2>2, <2>3 DEF World, Environment
<1>2. UNCHANGED <<beacon, devices, listener>>
  BY DEF World, managerVars, subPiVars
<1> QED
  BY <1>1, <1>2, CoverKept DEF IsOnline, Listening

LEMMA MotorCover ==
    ASSUME IndInv, CoverInv, NEW c \in Clients,
           MotorProceeds(c) \/ \E d \in SubPis : MotorCommand(c, d)
    PROVE  CoverInv'
<1> USE NoneIsNoConnection DEF IndInv, TypeOK, SocketsTypeOK
<1>1. ASSUME NEW g \in Fds, NEW cmd \in SubPis \cup {None, Torn}, IsOpen(g),
             AfterWrite(g, cmd)
      PROVE  EndsKept
  <2>1. PICK frame \in {cmd, Torn},
              peer \in IF sock[g].peer \in {"fin", "lost"} THEN {sock[g].peer, "reset"}
                                                         ELSE {sock[g].peer} :
           sock' = [sock EXCEPT ![g].cmd = frame, ![g].peer = peer]
    BY <1>1, WriteEffect
  <2> DEFINE s == [[sock[g] EXCEPT !.cmd = frame] EXCEPT !.peer = peer]
  <2>2. sock[g] \in Connection /\ sock' = [sock EXCEPT ![g] = s]
    BY <1>1, <2>1 DEF IsOpen
  <2>3. s \in Connection /\ s.peer = peer /\ s.unread = sock[g].unread
    BY <1>1, <2>1, <2>2 DEF Connection, Endings
  <2> HIDE DEF s
  <2> QED
    BY <1>1, <2>1, <2>2, <2>3 DEF EndsKept, IsOpen, PeekSeesEnd
<1>2. UNCHANGED <<beacon, devices, listener>>
  BY DEF MotorProceeds, MotorCommand, MotorLooksUp, MotorLocks, MotorSendFails, MotorSendTimesOut,
     MotorSendsHeader, MotorSendsBody, subPiVars
<1>3. EndsKept
  <2>1. CASE MotorSendsHeader(c)
    <3>1. PICK g \in Fds : g = motor[c].fd /\ IsOpen(g)
      BY <2>1 DEF MotorSendsHeader, SendExactFails, IsOpen, ManagerTypeOK
    <3>2. motor[c].dev \in SubPis \cup {None}
      BY DEF ManagerTypeOK
    <3> QED
      BY <1>1, <2>1, <3>1, <3>2 DEF MotorSendsHeader
  <2>2. CASE MotorSendsBody(c)
    <3>1. PICK g \in Fds : g = motor[c].fd /\ IsOpen(g)
      BY <2>2 DEF MotorSendsBody, SendExactFails, IsOpen, ManagerTypeOK
    <3> QED
      BY <1>1, <2>2, <3>1 DEF MotorSendsBody
  <2>3. CASE UNCHANGED sock
    BY <2>3 DEF EndsKept, IsOpen, PeekSeesEnd
  <2>4. CASE MotorSendTimesOut(c) /\ ~UNCHANGED sock
    <3>1. PICK g \in Fds : g = motor[c].fd /\ IsOpen(g)
      BY <2>4 DEF MotorSendTimesOut, SendExactFails, IsOpen, ManagerTypeOK
    <3>2. AfterWrite(g, Torn)
      BY <2>4, <3>1 DEF MotorSendTimesOut
    <3> QED
      BY <1>1, <3>1, <3>2
  <2> QED
    BY <2>1, <2>2, <2>3, <2>4 DEF MotorProceeds, MotorCommand, kernelVars
<1> QED
  BY <1>2, <1>3, CoverKept DEF IsOnline, Listening

LEMMA ListenerCover ==
    ASSUME IndInv, CoverInv, "garbage" \notin Faults, NEW d \in SubPis, ListenerThread(d)
    PROVE  CoverInv'
<1> USE SocketsAssumption, NoneIsNoConnection DEF IndInv, TypeOK, SocketsTypeOK, SubPiTypeOK
<1>1. UNCHANGED <<beacon, devices>>
  BY DEF ListenerThread, ListenerReadsEvent, ListenerCallbackReturns, ListenerReadsStatus,
     ListenerReadsGarbage, ListenerSkipsPacket, ListenerDisconnected, managerVars, subPiVars
<1>2. EndsKept
  <2>1. CASE HasData(d) /\ sock' = Consumed(listener[d].fd)
    BY <2>1 DEF HasData, IsOpen, Consumed, EndsKept, PeekSeesEnd
  <2>2. CASE UNCHANGED sock
    BY <2>2 DEF EndsKept, IsOpen, PeekSeesEnd
  <2> QED
    BY <2>1, <2>2 DEF ListenerThread, ListenerReadsEvent, ListenerCallbackReturns,
       ListenerReadsStatus, ListenerReadsGarbage, ListenerSkipsPacket, ListenerDisconnected, kernelVars
<1>3. \A e \in SubPis : Listening(e) => \/ listener'[e].pc \in {"select", "callback"}
                                           /\ listener'[e].fd = listener[e].fd
                                        \/ PeekSeesEnd(listener[e].fd)
  BY DEF Listening, ListenerThread, ListenerReadsEvent, ListenerCallbackReturns,
     ListenerReadsStatus, ListenerReadsGarbage, ListenerSkipsPacket, ListenerDisconnected,
     ListenerEnds, AtEnd
<1> QED
  BY <1>1, <1>2, <1>3, CoverKept DEF IsOnline

LEMMA MonitorCover == ASSUME IndInv, CoverInv, MonitorThread PROVE CoverInv'
<1> USE DEF IndInv, TypeOK, ManagerTypeOK
<1>1. UNCHANGED <<beacon, listener>>
  BY DEF MonitorThread, MonitorSnapshot, MonitorChecks, MonitorCycleEnds, MonitorUnmounts,
     MonitorApplies, subPiVars
<1>2. CASE UNCHANGED <<sock, devices>>
  <2>1. EndsKept
    BY <1>2 DEF EndsKept, IsOpen, PeekSeesEnd
  <2> QED
    BY <1>1, <1>2, <2>1, CoverKept DEF IsOnline, Listening
<1>3. CASE MonitorApplies
  <2>1. EndsKept
    BY <1>3 DEF MonitorApplies, AfterClose, EndsKept, IsOpen, PeekSeesEnd
  <2>2. devices' = SetOffline(GoingOffline)
    BY <1>3 DEF MonitorApplies
  <2>3. \A d \in SubPis : IsOnline(d)' => IsOnline(d) /\ devices'[d] = devices[d]
    BY <2>2 DEF SetOffline, GoingOffline, IsOnline
  <2> QED
    BY <1>1, <2>1, <2>3, CoverKept DEF Listening
<1> QED
  BY <1>2, <1>3 DEF MonitorThread, MonitorSnapshot, MonitorChecks, MonitorCycleEnds, MonitorUnmounts,
     kernelVars

\* The beacon thread: it registers a device and goes on to its listener.
LEMMA BeaconCover == ASSUME IndInv, CoverInv, BeaconThread PROVE CoverInv'
<1> USE DEF IndInv, TypeOK, ManagerTypeOK, SubPiTypeOK
<1>1. ASSUME UNCHANGED <<devices, listener>>, EndsKept,
             \A d \in SubPis : ListenerPending(d)' <=> ListenerPending(d),
             \A d \in SubPis : ListenerPending(d)' => beacon'.fd = beacon.fd
      PROVE  CoverInv'
  <2>1. PendingHasFd'
    BY <1>1 DEF CoverInv, PendingHasFd, IsOnline
  <2>2. ASSUME NEW d \in SubPis, IsOnline(d)', ~ListenerPending(d)'
        PROVE  (Listening(d) \/ PeekSeesEnd(devices[d].command_socket_fd))'
    <3>1. IsOnline(d) /\ ~ListenerPending(d) /\ devices'[d] = devices[d]
      BY <1>1, <2>2 DEF IsOnline
    <3>2. PICK f \in Fds : f = devices[d].command_socket_fd /\ IsOpen(f)
      BY <3>1, OnlineFd
    <3>3. Listening(d) \/ PeekSeesEnd(f)
      BY <3>1, <3>2 DEF CoverInv, NoZombie
    <3>4. Listening(d) => Listening(d)'
      BY <1>1 DEF Listening
    <3>5. PeekSeesEnd(f) => PeekSeesEnd(f)'
      BY <1>1, <3>2 DEF EndsKept
    <3> QED
      BY <3>1, <3>2, <3>3, <3>4, <3>5
  <2> QED
    BY <2>1, <2>2 DEF CoverInv, NoZombie
<1>2. CASE (\E d \in SubPis : BeaconOf(d)) \/ ConnectGivesUp
  <2>1. EndsKept
    BY <1>2 DEF BeaconOf, ConnectGivesUp, kernelVars, EndsKept, IsOpen, PeekSeesEnd
  <2>2. beacon.pc \in {"idle", "connect"} /\ beacon'.pc \in {"idle", "connect"}
        /\ UNCHANGED <<devices, listener>>
    <3>1. ASSUME NEW d \in SubPis, BeaconOf(d)
          PROVE  beacon.pc = "idle" /\ beacon'.pc = "connect" /\ UNCHANGED <<devices, listener>>
      BY <3>1 DEF BeaconOf, ReceiveBeacon, BeaconIdle, managerVars
    <3>2. ASSUME ConnectGivesUp
          PROVE  beacon.pc = "connect" /\ beacon'.pc = "idle" /\ UNCHANGED <<devices, listener>>
      BY <3>2 DEF ConnectGivesUp, ConnectFails, BeaconIdle, managerVars
    <3> QED
      BY <1>2, <3>1, <3>2
  <2>3. \A d \in SubPis : ~ListenerPending(d)' /\ ~ListenerPending(d)
    BY <2>2 DEF ListenerPending
  <2> QED
    BY <1>1, <2>1, <2>2, <2>3
<1>3. CASE \E d \in SubPis : ConnectTo(d)
  <2>1. EndsKept
    BY <1>3 DEF ConnectTo, ConnectSucceeds, EndsKept, IsOpen, PeekSeesEnd, SocketsTypeOK
  <2>2. beacon.pc = "connect" /\ beacon'.pc = "found" /\ UNCHANGED <<devices, listener>>
    BY <1>3 DEF ConnectTo, ConnectSucceeds, managerVars
  <2>3. \A d \in SubPis : ~ListenerPending(d)' /\ ~ListenerPending(d)
    BY <2>2 DEF ListenerPending
  <2> QED
    BY <1>1, <2>1, <2>2, <2>3
<1>4. CASE BeaconRegisters /\ UNCHANGED <<kernelVars, rtspVars>>
  <2>1. beacon.pc = "found" /\ beacon.dev \in SubPis /\ ~IsOnline(beacon.dev)
    BY <1>4 DEF BeaconRegisters, BeaconHoldsSocket
  <2>2. /\ devices' = Registered(beacon.dev, beacon.fd, beacon.port)
        /\ beacon' = [beacon EXCEPT !.pc = "relay"] /\ UNCHANGED <<sock, listener>>
    BY <1>4, <2>1 DEF BeaconRegisters, OnDeviceFound, kernelVars
  <2>3. /\ devices'[beacon.dev].command_socket_fd = beacon.fd
        /\ \A d \in SubPis : d # beacon.dev => devices'[d] = devices[d]
    BY <2>1, <2>2 DEF Registered
  <2>4. beacon'.dev = beacon.dev /\ beacon'.pc = "relay" /\ beacon'.fd = beacon.fd
    BY <2>2
  <2>5. PendingHasFd'
    BY <2>3, <2>4 DEF PendingHasFd, ListenerPending
  <2>6. ASSUME NEW d \in SubPis, IsOnline(d)', ~ListenerPending(d)'
        PROVE  (Listening(d) \/ PeekSeesEnd(devices[d].command_socket_fd))'
    <3>1. d # beacon.dev
      BY <2>4, <2>6 DEF ListenerPending
    <3>2. devices'[d] = devices[d] /\ IsOnline(d) /\ ~ListenerPending(d)
      BY <2>1, <2>3, <2>6, <3>1 DEF IsOnline, ListenerPending
    <3>3. Listening(d) \/ PeekSeesEnd(devices[d].command_socket_fd)
      BY <3>2 DEF CoverInv, NoZombie
    <3> QED
      BY <2>2, <3>2, <3>3 DEF Listening, PeekSeesEnd, IsOpen
  <2> QED
    BY <2>5, <2>6 DEF CoverInv, NoZombie
<1>5. CASE (BeaconRelays \/ CleanupSwaps) /\ UNCHANGED <<kernelVars, managerVars>>
  <2>1. EndsKept
    BY <1>5 DEF kernelVars, EndsKept, IsOpen, PeekSeesEnd
  <2>2. \A d \in SubPis : ListenerPending(d)' <=> ListenerPending(d)
    BY <1>5 DEF BeaconRelays, CleanupSwaps, ListenerPending
  <2> QED
    BY <1>1, <1>5, <2>1, <2>2 DEF BeaconRelays, CleanupSwaps, managerVars
<1>6. ASSUME NEW e \in SubPis, CleanupReaps(e), UNCHANGED <<kernelVars, managerVars>> PROVE CoverInv'
  <2>1. EndsKept
    BY <1>6 DEF kernelVars, EndsKept, IsOpen, PeekSeesEnd
  <2>2. \A d \in SubPis : Listening(d) => listener'[d] = listener[d]
    BY <1>6 DEF CleanupReaps, Joinable, Listening
  <2> QED
    BY <1>6, <2>1, <2>2, CoverKept DEF CleanupReaps, managerVars, IsOnline, Listening
<1>7. CASE BeaconSpawnsListener /\ UNCHANGED <<kernelVars, managerVars>>
  <2>1. /\ beacon.pc = "reap" /\ beacon' = BeaconIdle
        /\ listener' = [listener EXCEPT ![beacon.dev] = NewListener(beacon.fd)]
        /\ UNCHANGED <<sock, devices>>
    BY <1>7 DEF BeaconSpawnsListener, kernelVars, managerVars
  <2>2. \A d \in SubPis : ~ListenerPending(d)'
    BY <2>1 DEF BeaconIdle, ListenerPending
  <2>3. ASSUME NEW d \in SubPis, IsOnline(d)'
        PROVE  (Listening(d) \/ PeekSeesEnd(devices[d].command_socket_fd))'
    <3>1. IsOnline(d) /\ devices'[d] = devices[d]
      BY <2>1, <2>3 DEF IsOnline
    <3>2. CASE d = beacon.dev
      <4>1. devices[d].command_socket_fd = beacon.fd
        BY <2>1, <3>1, <3>2 DEF CoverInv, PendingHasFd, ListenerPending
      <4> QED
        BY <2>1, <3>1, <3>2, <4>1 DEF Listening, NewListener
    <3>3. CASE d # beacon.dev
      <4>1. Listening(d) \/ PeekSeesEnd(devices[d].command_socket_fd)
        BY <3>1, <3>3 DEF CoverInv, NoZombie, ListenerPending
      <4> QED
        BY <2>1, <3>1, <3>3, <4>1 DEF Listening, PeekSeesEnd, IsOpen
    <3> QED
      BY <3>2, <3>3
  <2> QED
    BY <2>2, <2>3 DEF CoverInv, PendingHasFd, NoZombie
<1> QED
  BY <1>2, <1>3, <1>4, <1>5, <1>6, <1>7 DEF BeaconThread, BeaconProceeds

LEMMA CoverStep ==
    ASSUME IndInv, CoverInv, "garbage" \notin Faults, [Next]_vars
    PROVE  CoverInv'
<1>1. CASE MainThread \/ UNCHANGED vars
  <2>1. UNCHANGED <<sock, devices, beacon, listener>>
    BY <1>1 DEF MainThread, vars, kernelVars, managerVars, subPiVars
  <2>2. EndsKept
    BY <2>1 DEF EndsKept, IsOpen, PeekSeesEnd
  <2> QED
    BY <2>1, <2>2, CoverKept DEF IsOnline, Listening
<1> QED
  BY <1>1, BeaconCover, ListenerCover, MonitorCover, MotorCover, WorldCover DEF Next

\* An online Sub-Pi has a listener on its connection, or the connection has
\* ended and the monitor's peek will tell, as long as its JSON parses.
THEOREM OnlineIsListenedTo == Spec => []ListenerCoversOnline
<1>1. CASE "garbage" \in Faults
  <2>1. ListenerCoversOnline
    BY <1>1 DEF ListenerCoversOnline
  <2> QED
    BY <2>1, PTL
<1>2. CASE "garbage" \notin Faults
  <2>1. Init => CoverInv
    BY DEF Init, ManagerInit, CoverInv, PendingHasFd, NoZombie, IsOnline
  <2>2. IndInv /\ CoverInv /\ [Next]_vars => CoverInv'
    BY <1>2, CoverStep
  <2>3. CoverInv => ListenerCoversOnline
    BY DEF CoverInv, ListenerCoversOnline
  <2> QED
    BY <2>1, <2>2, <2>3, Inductive, PTL DEF Spec
<1> QED
  BY <1>1, <1>2
============================================================================
