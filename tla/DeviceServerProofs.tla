-------------------------- MODULE DeviceServerProofs --------------------------
(* What holds of DeviceServer for any number of Sub-Pis, descriptors, client  *)
(* threads, crashes and unread packets.                                      *)
EXTENDS DeviceServer, TLAPS

(* Types, action by action.                                                  *)

LEMMA TypeInit == Init => TypeOK
<1> SUFFICES ASSUME Init PROVE TypeOK
  OBVIOUS
<1> USE SocketsAssumption DEF Init
<1>1. SocketsTypeOK
  BY DEF SocketsInit, SocketsTypeOK
<1>2. RtspTypeOK
  BY DEF RtspInit, RtspTypeOK
<1>3. ManagerTypeOK
  BY DEF ManagerInit, ManagerTypeOK, MonitorAsleep, MotorIdle
<1>4. SubPiTypeOK
  BY DEF SubPiInit, SubPiTypeOK, BeaconIdle, NoListener, FirstPort, ListenerStates
<1> QED
  BY <1>1, <1>2, <1>3, <1>4 DEF TypeOK

LEMMA TypeWorld == TypeOK /\ World => TypeOK'
<1> SUFFICES ASSUME TypeOK, World PROVE TypeOK'
  OBVIOUS
<1>1. SocketsTypeOK'
  <2> USE SocketsAssumption, NoneIsNoConnection DEF TypeOK, SocketsTypeOK
  <2>1. ASSUME NEW d \in SubPis, Boot(d) PROVE SocketsTypeOK'
    BY <2>1 DEF Boot
  <2>2. ASSUME NEW d \in SubPis, NEW how \in Endings, Crash(d, how) PROVE SocketsTypeOK'
    <3>1. \A f \in Fds : sock'[f] \in Connection \cup {None}
      BY <2>2 DEF Crash, IsOpen, Connection, Endings
    <3>2. crashes' \in 0..MaxCrashes /\ up' \in SUBSET SubPis
      BY <2>2 DEF Crash
    <3> QED
      BY <2>2, <3>1, <3>2 DEF Crash
  <2>3. ASSUME NEW f \in Fds, SubPiSends(f) PROVE SocketsTypeOK'
    BY <2>3 DEF SubPiSends, IsOpen, Connection
  <2> QED
    BY <2>1, <2>2, <2>3 DEF World, Environment
<1>2. RtspTypeOK' /\ ManagerTypeOK' /\ SubPiTypeOK'
  BY DEF World, rtspVars, managerVars, subPiVars, TypeOK, RtspTypeOK, ManagerTypeOK,
     SubPiTypeOK
<1> QED
  BY <1>1, <1>2 DEF TypeOK

LEMMA TypeBeacon == TypeOK /\ BeaconThread => TypeOK'
<1> SUFFICES ASSUME TypeOK, BeaconThread PROVE TypeOK'
  OBVIOUS
<1> USE SocketsAssumption DEF TypeOK, kernelVars, rtspVars, managerVars
<1>1. ASSUME NEW d \in SubPis, BeaconOf(d) PROVE TypeOK'
  BY <1>1 DEF BeaconOf, ReceiveBeacon, BeaconIdle, SocketsTypeOK, RtspTypeOK,
     ManagerTypeOK, SubPiTypeOK
<1>2. ASSUME ConnectGivesUp PROVE TypeOK'
  BY <1>2 DEF ConnectGivesUp, ConnectFails, BeaconIdle, SocketsTypeOK, RtspTypeOK,
     ManagerTypeOK, SubPiTypeOK
<1>3. ASSUME NEW d \in SubPis, ConnectTo(d) PROVE TypeOK'
  <2>1. PICK f \in Fds : ConnectSucceeds(f)
    BY <1>3 DEF ConnectTo
  <2>2. NewConnection(beacon.dev, next_port) \in Connection
    BY <1>3 DEF ConnectTo, NewConnection, Connection, SubPiTypeOK
  <2>3. SocketsTypeOK'
    BY <2>1, <2>2 DEF ConnectSucceeds, SocketsTypeOK
  <2>4. SubPiTypeOK'
    BY <2>1 DEF ConnectSucceeds, SubPiTypeOK, NextPort
  <2> QED
    BY <1>3, <2>3, <2>4 DEF ConnectTo, RtspTypeOK, ManagerTypeOK
<1>4. ASSUME BeaconProceeds PROVE TypeOK'
  <2>1. CASE BeaconRegisters /\ UNCHANGED <<kernelVars, rtspVars>>
    <3>1. devices' \in [SubPis -> DeviceInfo \cup {None}]
      BY <2>1 DEF BeaconRegisters, OnDeviceFound, Registered, DeviceInfo, ManagerTypeOK,
         SubPiTypeOK
    <3> QED
      BY <2>1, <3>1 DEF BeaconRegisters, SocketsTypeOK, RtspTypeOK, ManagerTypeOK,
         SubPiTypeOK
  <2>2. CASE /\ BeaconRelays
             /\ AddRelayPath(beacon.dev, beacon.port)
             /\ UNCHANGED <<kernelVars, managerVars>>
    BY <2>2 DEF BeaconRelays, AddRelayPath, SocketsTypeOK, RtspTypeOK, ManagerTypeOK,
       SubPiTypeOK
  <2>3. CASE /\ \/ CleanupSwaps
                \/ \E d \in SubPis : CleanupReaps(d)
                \/ BeaconSpawnsListener
             /\ UNCHANGED <<kernelVars, rtspVars, managerVars>>
    BY <2>3 DEF CleanupSwaps, CleanupReaps, BeaconSpawnsListener, NoListener, NewListener,
       BeaconIdle, ListenerStates, SocketsTypeOK, RtspTypeOK, ManagerTypeOK, SubPiTypeOK
  <2> QED
    BY <1>4, <2>1, <2>2, <2>3 DEF BeaconProceeds
<1> QED
  BY <1>1, <1>2, <1>3, <1>4 DEF BeaconThread

LEMMA TypeListener == ASSUME TypeOK, NEW d \in SubPis, ListenerThread(d)
                      PROVE  TypeOK'
<1> USE SocketsAssumption, NoneIsNoConnection DEF TypeOK, kernelVars, rtspVars, managerVars
<1>1. SocketsTypeOK'
  <2>1. HasData(d) => Consumed(listener[d].fd) \in [Fds -> Connection \cup {None}]
    <3> SUFFICES ASSUME HasData(d) PROVE Consumed(listener[d].fd) \in [Fds -> Connection \cup {None}]
      OBVIOUS
    <3> DEFINE c == sock[listener[d].fd]
    <3>1. c \in Connection /\ c.unread > 0
      BY DEF HasData, IsOpen, SocketsTypeOK, SubPiTypeOK
    <3>2. [c EXCEPT !.unread = @ - 1] \in Connection
      BY <3>1 DEF Connection
    <3> QED
      BY <3>2 DEF Consumed, SocketsTypeOK
  <2> QED
    BY <2>1 DEF ListenerThread, ListenerReadsEvent, ListenerCallbackReturns,
       ListenerReadsStatus, ListenerReadsGarbage, ListenerSkipsPacket,
       ListenerDisconnected, SocketsTypeOK
<1>2. ManagerTypeOK'
  BY DEF ListenerThread, ListenerReadsEvent, ListenerCallbackReturns,
     ListenerReadsStatus, ListenerReadsGarbage, ListenerSkipsPacket,
     ListenerDisconnected, OnAvailableEvent, ManagerTypeOK
<1>3. SubPiTypeOK'
  BY DEF ListenerThread, ListenerReadsEvent, ListenerCallbackReturns,
     ListenerReadsStatus, ListenerReadsGarbage, ListenerSkipsPacket,
     ListenerDisconnected, ListenerEnds, HasData, IsOpen, Connection, ListenerStates,
     SubPiTypeOK, SocketsTypeOK, subPiVars
<1> QED
  BY <1>1, <1>2, <1>3 DEF ListenerThread, RtspTypeOK

LEMMA TypeMonitor == TypeOK /\ MonitorThread => TypeOK'
<1> SUFFICES ASSUME TypeOK, MonitorThread PROVE TypeOK'
  OBVIOUS
<1> USE SocketsAssumption, NoneIsNoDevice DEF TypeOK, kernelVars, rtspVars, subPiVars
<1>1. CASE MonitorSnapshot /\ UNCHANGED <<kernelVars, rtspVars, subPiVars>>
  <2>1. OnlineTargets \subseteq CheckTarget
    BY DEF OnlineTargets, CheckTarget, IsOnline, DeviceInfo, ManagerTypeOK
  <2> QED
    BY <1>1, <2>1 DEF MonitorSnapshot, MonitorAsleep, SocketsTypeOK, RtspTypeOK,
       ManagerTypeOK, SubPiTypeOK
<1>2. CASE /\ \E t \in monitor.targets : MonitorChecks(t)
           /\ UNCHANGED <<kernelVars, rtspVars, subPiVars>>
  <2>1. PICK t \in monitor.targets : MonitorChecks(t)
    BY <1>2
  <2> DEFINE gone == monitor.went_offline \cup (IF IsAlive(t.fd) THEN {} ELSE {t.id})
  <2>2. t.id \in SubPis /\ gone \in SUBSET SubPis
    BY DEF CheckTarget, ManagerTypeOK
  <2>3. monitor.targets \ {t} \in SUBSET CheckTarget
    BY DEF ManagerTypeOK
  <2> HIDE DEF gone
  <2>4. monitor' = [pc |-> "check", targets |-> monitor.targets \ {t},
                    went_offline |-> gone, removed_ids |-> {}]
    BY <2>1 DEF MonitorChecks, MonitorAsleep, gone
  <2>5. ManagerTypeOK'
    BY <2>1, <2>2, <2>3, <2>4 DEF MonitorChecks, ManagerTypeOK
  <2> QED
    BY <1>2, <2>5 DEF SocketsTypeOK, RtspTypeOK, SubPiTypeOK
<1>3. CASE MonitorCycleEnds /\ UNCHANGED <<kernelVars, rtspVars, subPiVars>>
  BY <1>3 DEF MonitorCycleEnds, MonitorAsleep, SocketsTypeOK, RtspTypeOK, ManagerTypeOK,
     SubPiTypeOK
<1>4. CASE MonitorApplies /\ UNCHANGED <<rtspVars, subPiVars>>
  <2>1. SetOffline(GoingOffline) \in [SubPis -> DeviceInfo \cup {None}]
    BY DEF SetOffline, GoingOffline, IsOnline, DeviceInfo, ManagerTypeOK
  <2>2. \A F : AfterClose(F) \in [Fds -> Connection \cup {None}]
    BY DEF AfterClose, SocketsTypeOK
  <2>3. GoingOffline \in SUBSET SubPis
    BY DEF GoingOffline, ManagerTypeOK
  <2> QED
    BY <1>4, <2>1, <2>2, <2>3 DEF MonitorApplies, MonitorAsleep, SocketsTypeOK,
       RtspTypeOK, ManagerTypeOK, SubPiTypeOK
<1>5. CASE \E d \in SubPis : /\ MonitorUnmounts(d)
                             /\ RemoveRelayPath(d)
                             /\ UNCHANGED <<kernelVars, subPiVars>>
  BY <1>5 DEF MonitorUnmounts, RemoveRelayPath, SocketsTypeOK, RtspTypeOK,
     ManagerTypeOK, SubPiTypeOK
<1> QED
  BY <1>1, <1>2, <1>3, <1>4, <1>5 DEF MonitorThread
\* A write leaves its mark on the frame of one socket, unless that is torn, and
\* may find the peer reset; nothing else of the socket changes.
LEMMA WriteEffect ==
    ASSUME SocketsTypeOK, NEW f \in Fds, NEW cmd \in SubPis \cup {None, Torn},
           IsOpen(f), AfterWrite(f, cmd)
    PROVE  \E frame \in {cmd, Torn},
              peer \in IF sock[f].peer \in {"fin", "lost"} THEN {sock[f].peer, "reset"}
                                                         ELSE {sock[f].peer} :
              sock' = [sock EXCEPT ![f].cmd = frame, ![f].peer = peer]
<1>1. PICK peer \in IF sock[f].peer \in {"fin", "lost"} THEN {sock[f].peer, "reset"}
                                                       ELSE {sock[f].peer} :
         sock' = [sock EXCEPT ![f].cmd = IF @ = Torn THEN Torn ELSE cmd, ![f].peer = peer]
  BY DEF AfterWrite
<1>2. sock[f] \in Connection /\ sock \in [Fds -> Connection \cup {None}]
  BY DEF SocketsTypeOK, IsOpen
<1> DEFINE frame == IF sock[f].cmd = Torn THEN Torn ELSE cmd
<1>3. sock' = [sock EXCEPT ![f].cmd = frame, ![f].peer = peer]
  BY <1>1, <1>2
<1>4. frame \in {cmd, Torn}
  OBVIOUS
<1> HIDE DEF frame
<1> QED
  BY <1>1, <1>3, <1>4

LEMMA TypeMotor == ASSUME TypeOK, NEW c \in Clients,
                          MotorProceeds(c) \/ \E d \in SubPis : MotorCommand(c, d)
                   PROVE  TypeOK'
<1> USE SocketsAssumption, NoneIsNoConnection, NoneIsNoDevice
    DEF TypeOK, kernelVars, rtspVars, subPiVars
<1>1. CASE \E d \in SubPis : MotorCommand(c, d)
  <2>1. PICK d \in SubPis : MotorCommand(c, d)
    BY <1>1
  <2>2. devices[d].command_socket_fd \in Fds \cup {None}
    BY <2>1 DEF MotorCommand, MotorLooksUp, IsOnline, DeviceInfo, ManagerTypeOK
  <2> QED
    BY <2>1, <2>2 DEF MotorCommand, MotorLooksUp, SocketsTypeOK, RtspTypeOK,
       ManagerTypeOK, SubPiTypeOK
<1>2. ASSUME NEW f \in Fds, NEW cmd \in SubPis \cup {None, Torn}, IsOpen(f),
             AfterWrite(f, cmd), UNCHANGED <<up, crashes>>
      PROVE  SocketsTypeOK'
  <2>1. sock[f] \in Connection
    BY <1>2 DEF IsOpen, SocketsTypeOK
  <2>2. PICK frame \in {cmd, Torn}, peer \in {sock[f].peer, "reset"} :
           sock' = [sock EXCEPT ![f].cmd = frame, ![f].peer = peer]
    BY <1>2, WriteEffect
  <2>3. [[sock[f] EXCEPT !.cmd = frame] EXCEPT !.peer = peer] \in Connection
    BY <1>2, <2>1 DEF Connection, Endings
  <2> QED
    BY <1>2, <2>2, <2>3 DEF SocketsTypeOK
<1>3. CASE MotorProceeds(c)
  <2>1. CASE MotorLocks(c) /\ UNCHANGED kernelVars
    BY <1>3, <2>1 DEF MotorProceeds, MotorLocks, SocketsTypeOK, RtspTypeOK,
       ManagerTypeOK, SubPiTypeOK
  <2>2. CASE MotorSendFails(c) /\ UNCHANGED kernelVars
    BY <1>3, <2>2 DEF MotorProceeds, MotorSendFails, MotorReturns, MotorIdle,
       SocketsTypeOK, RtspTypeOK, ManagerTypeOK, SubPiTypeOK
  <2>3. CASE MotorSendsHeader(c)
    <3>1. motor[c].fd \in Fds /\ IsOpen(motor[c].fd) /\ motor[c].dev \in SubPis \cup {None}
      BY <2>3 DEF MotorSendsHeader, SendExactFails, IsOpen, ManagerTypeOK
    <3>2. SocketsTypeOK'
      BY <1>2, <2>3, <3>1 DEF MotorSendsHeader
    <3> QED
      BY <1>3, <2>3, <3>2 DEF MotorProceeds, MotorSendsHeader, RtspTypeOK,
         ManagerTypeOK, SubPiTypeOK
  <2>4. CASE MotorSendsBody(c)
    <3>1. motor[c].fd \in Fds /\ IsOpen(motor[c].fd)
      BY <2>4 DEF MotorSendsBody, SendExactFails, IsOpen, ManagerTypeOK
    <3>2. SocketsTypeOK'
      BY <1>2, <2>4, <3>1 DEF MotorSendsBody
    <3> QED
      BY <1>3, <2>4, <3>2 DEF MotorProceeds, MotorSendsBody, MotorReturns, MotorIdle,
         RtspTypeOK, ManagerTypeOK, SubPiTypeOK
  <2>5. CASE MotorSendTimesOut(c)
    <3>1. motor[c].fd \in Fds /\ IsOpen(motor[c].fd)
      BY <2>5 DEF MotorSendTimesOut, SendExactFails, IsOpen, ManagerTypeOK
    <3>2. SocketsTypeOK'
      BY <1>2, <2>5, <3>1 DEF MotorSendTimesOut, SocketsTypeOK
    <3> QED
      BY <1>3, <2>5, <3>2 DEF MotorProceeds, MotorSendTimesOut, MotorReturns, MotorIdle,
         RtspTypeOK, ManagerTypeOK, SubPiTypeOK
  <2> QED
    BY <1>3, <2>1, <2>2, <2>3, <2>4, <2>5 DEF MotorProceeds
<1> QED
  BY <1>1, <1>3

LEMMA TypeMain == TypeOK /\ MainThread => TypeOK'
  BY DEF MainThread, StartRtsp, kernelVars, managerVars, subPiVars, TypeOK,
     SocketsTypeOK, RtspTypeOK, ManagerTypeOK, SubPiTypeOK

LEMMA TypeStep == TypeOK /\ [Next]_vars => TypeOK'
<1> SUFFICES ASSUME TypeOK, [Next]_vars PROVE TypeOK'
  OBVIOUS
<1>1. CASE UNCHANGED vars
  BY <1>1 DEF vars, kernelVars, rtspVars, managerVars, subPiVars, TypeOK,
     SocketsTypeOK, RtspTypeOK, ManagerTypeOK, SubPiTypeOK
<1> QED
  BY <1>1, TypeMain, TypeBeacon, TypeListener, TypeMonitor, TypeMotor, TypeWorld DEF Next

\* Every variable keeps its type, however many Sub-Pis come and go and in
\* whatever order the threads run.
THEOREM TypeCorrect == Spec => []TypeOK
<1>1. Init => TypeOK
  BY TypeInit
<1>2. TypeOK /\ [Next]_vars => TypeOK'
  BY TypeStep
<1> QED
  BY <1>1, <1>2, PTL DEF Spec

-----------------------------------------------------------------------------
(* The safety invariant.  Most steps leave the registry and both threads alone *)
(* and touch a socket without opening, closing or reviving it; they are dealt *)
(* with together, the others one by one.                                     *)

SocketsKept ==
    \A f \in Fds :
        /\ IsOpen(f)' = IsOpen(f)
        /\ IsOpen(f) => /\ sock'[f].dev = sock[f].dev
                        /\ sock'[f].port = sock[f].port
                        /\ ~IsAlive(f) => ~IsAlive(f)'

Quiet == /\ SocketsKept
         /\ UNCHANGED <<devices, monitor, beacon, mounts>>
         /\ rtspStarted => rtspStarted'

\* A dead socket stays dead: no packet, read or write brings it back.
LEMMA WorldQuiet == TypeOK /\ World => Quiet
<1> SUFFICES ASSUME TypeOK, World PROVE Quiet
  OBVIOUS
<1> USE SocketsAssumption, NoneIsNoConnection
    DEF TypeOK, SocketsTypeOK, World, rtspVars, managerVars, subPiVars
<1>1. ASSUME NEW d \in SubPis, Boot(d) PROVE SocketsKept
  BY <1>1 DEF Boot, SocketsKept, IsOpen, IsAlive, PeekSeesEnd, ZeroSendFails
<1>2. ASSUME NEW d \in SubPis, NEW how \in Endings, Crash(d, how) PROVE SocketsKept
  <2> SUFFICES ASSUME NEW f \in Fds
               PROVE  /\ IsOpen(f)' = IsOpen(f)
                      /\ IsOpen(f) => /\ sock'[f].dev = sock[f].dev
                                      /\ sock'[f].port = sock[f].port
                                      /\ ~IsAlive(f) => ~IsAlive(f)'
    BY DEF SocketsKept
  <2>1. CASE IsOpen(f) /\ sock[f].dev = d /\ sock[f].peer = "open"
    <3>1. sock'[f] = [sock[f] EXCEPT !.peer = how] /\ sock[f] \in Connection
      BY <1>2, <2>1 DEF Crash, IsOpen
    <3>2. IsAlive(f)
      BY <2>1 DEF IsAlive, PeekSeesEnd, ZeroSendFails
    <3> QED
      BY <2>1, <3>1, <3>2 DEF IsOpen, Connection
  <2>2. CASE ~(IsOpen(f) /\ sock[f].dev = d /\ sock[f].peer = "open")
    <3>1. sock'[f] = sock[f]
      BY <1>2, <2>2 DEF Crash
    <3> QED
      BY <3>1 DEF IsOpen, IsAlive, PeekSeesEnd, ZeroSendFails
  <2> QED
    BY <2>1, <2>2
<1>3. ASSUME NEW g \in Fds, SubPiSends(g) PROVE SocketsKept
  <2>1. IsAlive(g) /\ sock[g] \in Connection
    BY <1>3 DEF SubPiSends, IsAlive, PeekSeesEnd, ZeroSendFails, IsOpen
  <2>2. sock' = [sock EXCEPT ![g] = [sock[g] EXCEPT !.unread = sock[g].unread + 1]]
    BY <1>3 DEF SubPiSends
  <2>3. [sock[g] EXCEPT !.unread = sock[g].unread + 1] \in Connection
    BY <1>3, <2>1 DEF SubPiSends, Connection
  <2> QED
    BY <2>1, <2>2, <2>3 DEF SocketsKept, IsOpen, IsAlive, PeekSeesEnd, ZeroSendFails,
       Connection
<1> QED
  BY <1>1, <1>2, <1>3 DEF Environment, Quiet

LEMMA ListenerQuiet == ASSUME TypeOK, NEW d \in SubPis, ListenerThread(d)
                       PROVE  Quiet
<1> USE NoneIsNoConnection DEF TypeOK, SocketsTypeOK
<1>1. CASE HasData(d) /\ sock' = Consumed(listener[d].fd)
  <2> DEFINE g == listener[d].fd
             s == sock[g]
             c == [s EXCEPT !.unread = s.unread - 1]
  <2>1. g \in Fds /\ IsOpen(g) /\ sock[g] \in Connection /\ sock[g].unread > 0
    BY <1>1 DEF HasData, IsOpen, SubPiTypeOK
  <2>2. c \in Connection /\ c.dev = s.dev /\ c.port = s.port /\ c.peer = s.peer
    <3> HIDE DEF g, s
    <3>1. s \in Connection /\ s.unread > 0
      BY <2>1 DEF s
    <3>2. s.unread - 1 \in 0..MaxUnread
      BY <3>1, SocketsAssumption DEF Connection
    <3> QED
      BY <3>1, <3>2 DEF Connection
  <2>3. sock' = [sock EXCEPT ![g] = c]
    BY <1>1 DEF Consumed
  <2> HIDE DEF g, c
  <2>4. ~IsAlive(g) => c.peer = "reset"
    BY <2>1, <2>2 DEF IsAlive, PeekSeesEnd, ZeroSendFails
  <2>5. SocketsKept
    BY <2>1, <2>2, <2>3, <2>4 DEF SocketsKept, IsOpen, IsAlive, PeekSeesEnd, ZeroSendFails
  <2> QED
    BY <2>5 DEF Quiet, ListenerThread, ListenerReadsEvent, ListenerCallbackReturns,
       ListenerReadsStatus, ListenerReadsGarbage, ListenerSkipsPacket,
       ListenerDisconnected, ListenerEnds, rtspVars, managerVars, subPiVars
<1>2. CASE UNCHANGED sock
  <2>1. SocketsKept
    BY <1>2 DEF SocketsKept, IsOpen, IsAlive, PeekSeesEnd, ZeroSendFails
  <2> QED
    BY <2>1 DEF Quiet, ListenerThread, ListenerReadsEvent, ListenerCallbackReturns,
       ListenerReadsStatus, ListenerReadsGarbage, ListenerSkipsPacket,
       ListenerDisconnected, ListenerEnds, rtspVars, managerVars, subPiVars
<1> QED
  BY <1>1, <1>2 DEF ListenerThread, ListenerReadsEvent, ListenerCallbackReturns,
     ListenerReadsStatus, ListenerReadsGarbage, ListenerSkipsPacket,
     ListenerDisconnected, kernelVars

LEMMA MotorQuiet == ASSUME TypeOK, NEW c \in Clients,
                           MotorProceeds(c) \/ \E d \in SubPis : MotorCommand(c, d)
                    PROVE  Quiet
<1> USE NoneIsNoConnection DEF TypeOK, SocketsTypeOK
<1>1. ASSUME NEW f \in Fds, NEW cmd \in SubPis \cup {None, Torn}, IsOpen(f),
             AfterWrite(f, cmd)
      PROVE  SocketsKept
  <2>1. sock[f] \in Connection
    BY <1>1 DEF IsOpen
  <2>2. PICK frame \in {cmd, Torn},
              peer \in IF sock[f].peer \in {"fin", "lost"} THEN {sock[f].peer, "reset"}
                                                         ELSE {sock[f].peer} :
           sock' = [sock EXCEPT ![f].cmd = frame, ![f].peer = peer]
    BY <1>1, WriteEffect
  <2> DEFINE s == [[sock[f] EXCEPT !.cmd = frame] EXCEPT !.peer = peer]
  <2>3. /\ s \in Connection /\ s.dev = sock[f].dev /\ s.port = sock[f].port
        /\ s.peer = peer /\ s.unread = sock[f].unread
    BY <1>1, <2>1, <2>2 DEF Connection, Endings
  <2>4. sock' = [sock EXCEPT ![f] = s]
    BY <2>2
  <2> HIDE DEF s
  <2> QED
    BY <1>1, <2>2, <2>3, <2>4 DEF SocketsKept, IsOpen, IsAlive, PeekSeesEnd, ZeroSendFails
<1>2. CASE UNCHANGED sock
  <2>1. SocketsKept
    BY <1>2 DEF SocketsKept, IsOpen, IsAlive, PeekSeesEnd, ZeroSendFails
  <2> QED
    BY <2>1 DEF Quiet, MotorProceeds, MotorCommand, MotorLooksUp, MotorLocks,
       MotorSendFails, MotorSendTimesOut, MotorSendsHeader, MotorSendsBody, rtspVars, subPiVars
<1>3. CASE MotorSendsHeader(c)
  <2>1. motor[c].fd \in Fds /\ IsOpen(motor[c].fd) /\ motor[c].dev \in SubPis \cup {None}
    BY <1>3 DEF MotorSendsHeader, SendExactFails, IsOpen, ManagerTypeOK
  <2>2. SocketsKept
    BY <1>1, <1>3, <2>1 DEF MotorSendsHeader
  <2> QED
    BY <1>3, <2>2 DEF Quiet, MotorProceeds, MotorCommand, MotorSendsHeader, rtspVars,
       subPiVars
<1>4. CASE MotorSendsBody(c)
  <2>1. motor[c].fd \in Fds /\ IsOpen(motor[c].fd)
    BY <1>4 DEF MotorSendsBody, SendExactFails, IsOpen, ManagerTypeOK
  <2>2. SocketsKept
    BY <1>1, <1>4, <2>1 DEF MotorSendsBody
  <2> QED
    BY <1>4, <2>2 DEF Quiet, MotorProceeds, MotorCommand, MotorSendsBody, rtspVars,
       subPiVars
<1>5. CASE MotorSendTimesOut(c) /\ ~UNCHANGED sock
  <2>1. motor[c].fd \in Fds /\ IsOpen(motor[c].fd) /\ AfterWrite(motor[c].fd, Torn)
    BY <1>5 DEF MotorSendTimesOut, SendExactFails, IsOpen, ManagerTypeOK
  <2>2. SocketsKept
    BY <1>1, <2>1
  <2> QED
    BY <1>5, <2>2 DEF Quiet, MotorProceeds, MotorCommand, MotorSendTimesOut, rtspVars,
       subPiVars
<1> QED
  BY <1>2, <1>3, <1>4, <1>5 DEF MotorProceeds, MotorCommand, kernelVars

LEMMA MainQuiet == TypeOK /\ MainThread => Quiet
  BY DEF MainThread, StartRtsp, Quiet, SocketsKept, IsOpen, IsAlive, PeekSeesEnd,
     ZeroSendFails, kernelVars, managerVars, subPiVars

LEMMA StutterQuiet == UNCHANGED vars => Quiet
  BY DEF vars, Quiet, SocketsKept, IsOpen, IsAlive, PeekSeesEnd, ZeroSendFails,
     kernelVars, rtspVars, managerVars, subPiVars

\* A quiet step keeps the invariant.
LEMMA QuietStep == IndInv /\ Quiet /\ TypeOK' => IndInv'
<1> SUFFICES ASSUME IndInv, Quiet, TypeOK' PROVE IndInv'
  OBVIOUS
<1> USE DEF IndInv, Quiet, SocketsKept, IsOnline
<1>1. OnlineOwnsSocket'
  BY DEF OnlineOwnsSocket, TypeOK, ManagerTypeOK, DeviceInfo
<1>2. DescriptorsAccounted'
  BY DEF DescriptorsAccounted, HeldByBeacon, HeldByRegistry
<1>3. BeaconHoldsSocket'
  BY DEF BeaconHoldsSocket, TypeOK, SubPiTypeOK, IsOpen
<1>4. MonitorTargetsFresh'
  <2> SUFFICES ASSUME monitor.pc = "check",
                      NEW d \in SubPis, d \in monitor.went_offline
               PROVE  ~IsAlive(devices[d].command_socket_fd)'
    BY DEF MonitorTargetsFresh, TypeOK, ManagerTypeOK
  <2>1. IsOnline(d) /\ ~IsAlive(devices[d].command_socket_fd)
    BY DEF MonitorTargetsFresh
  <2>2. IsOpen(devices[d].command_socket_fd) /\ devices[d].command_socket_fd \in Fds
    BY <2>1 DEF OnlineOwnsSocket, TypeOK, ManagerTypeOK, DeviceInfo
  <2> QED
    BY <2>1, <2>2
<1>5. RelayPortAgrees' /\ NoMountsBeforeStart'
  BY DEF RelayPortAgrees, NoMountsBeforeStart, OnlineOwnsSocket, ConnectionOf, TypeOK, ManagerTypeOK, DeviceInfo
<1> QED
  BY <1>1, <1>2, <1>3, <1>4, <1>5

\* A step of the monitor or of the beacon thread that changes neither the
\* registry nor a socket nor a relay leaves the first two invariants alone.
LEMMA OwnershipKept ==
    ASSUME IndInv, TypeOK', UNCHANGED <<devices, sock>>,
           \A f \in Fds : HeldByBeacon(f) => HeldByBeacon(f)'
    PROVE  OnlineOwnsSocket' /\ DescriptorsAccounted'
  BY DEF IndInv, OnlineOwnsSocket, DescriptorsAccounted, HeldByRegistry, IsOnline, IsOpen

LEMMA MonitorKept ==
    ASSUME IndInv, TypeOK', UNCHANGED <<devices, sock, monitor>>
    PROVE  MonitorTargetsFresh'
  BY DEF IndInv, MonitorTargetsFresh, IsOnline, IsAlive, PeekSeesEnd, ZeroSendFails, IsOpen

LEMMA RelayKept ==
    ASSUME IndInv, TypeOK', UNCHANGED <<devices, sock, mounts>>,
           \A d \in SubPis : beacon.pc = "relay" /\ beacon.dev = d
                              => (beacon.pc = "relay" /\ beacon.dev = d)'
    PROVE  RelayPortAgrees'
  BY DEF IndInv, RelayPortAgrees, IsOnline, ConnectionOf

LEMMA MountsStep == ASSUME IndInv, BeaconThread \/ MonitorThread
                    PROVE  NoMountsBeforeStart'
  BY DEF IndInv, TypeOK, RtspTypeOK, NoMountsBeforeStart, BeaconThread, BeaconOf, ConnectTo,
     ConnectGivesUp, BeaconProceeds, MonitorThread, AddRelayPath, RemoveRelayPath, rtspVars

\* The monitor's phases.
LEMMA SafeMonitor == IndInv /\ MonitorThread /\ TypeOK' => IndInv'
<1> SUFFICES ASSUME IndInv, MonitorThread, TypeOK' PROVE IndInv'
  OBVIOUS
<1>0. NoMountsBeforeStart'
  BY MountsStep
<1>1. CASE MonitorSnapshot /\ UNCHANGED <<kernelVars, rtspVars, subPiVars>>
  <2> USE <1>1 DEF MonitorSnapshot, kernelVars, rtspVars, subPiVars
  <2>1. OnlineOwnsSocket' /\ DescriptorsAccounted' /\ RelayPortAgrees'
    BY OwnershipKept, RelayKept DEF HeldByBeacon
  <2>2. BeaconHoldsSocket'
    BY DEF IndInv, BeaconHoldsSocket, IsOnline, IsOpen
  <2>3. MonitorTargetsFresh'
    BY DEF MonitorTargetsFresh, MonitorAsleep, OnlineTargets, IsOnline
  <2> QED
    BY <2>1, <2>2, <2>3, <1>0 DEF IndInv
<1>2. CASE /\ \E t \in monitor.targets : MonitorChecks(t)
           /\ UNCHANGED <<kernelVars, rtspVars, subPiVars>>
  <2>1. PICK t \in monitor.targets : MonitorChecks(t)
    BY <1>2
  <2> USE <1>2, <2>1 DEF MonitorChecks, kernelVars, rtspVars, subPiVars
  <2>2. OnlineOwnsSocket' /\ DescriptorsAccounted' /\ RelayPortAgrees'
    BY OwnershipKept, RelayKept DEF HeldByBeacon
  <2>3. BeaconHoldsSocket'
    BY DEF IndInv, BeaconHoldsSocket, IsOnline, IsOpen
  <2>4. MonitorTargetsFresh'
    <3>1. /\ monitor'.targets \subseteq monitor.targets
          /\ \A d \in monitor'.went_offline :
                d \in monitor.went_offline \/ (d = t.id /\ ~IsAlive(t.fd))
      BY DEF MonitorAsleep
    <3>2. IsOnline(t.id) /\ devices[t.id].command_socket_fd = t.fd
      BY DEF IndInv, MonitorTargetsFresh
    <3> QED
      BY <3>1, <3>2 DEF IndInv, MonitorTargetsFresh, IsOnline, IsAlive, PeekSeesEnd,
         ZeroSendFails, IsOpen
  <2> QED
    BY <2>2, <2>3, <2>4, <1>0 DEF IndInv
<1>3. CASE MonitorCycleEnds /\ UNCHANGED <<kernelVars, rtspVars, subPiVars>>
  <2> USE <1>3 DEF MonitorCycleEnds, kernelVars, rtspVars, subPiVars
  <2>1. OnlineOwnsSocket' /\ DescriptorsAccounted' /\ RelayPortAgrees'
    BY OwnershipKept, RelayKept DEF HeldByBeacon
  <2>2. BeaconHoldsSocket'
    BY DEF IndInv, BeaconHoldsSocket, IsOnline, IsOpen
  <2>3. MonitorTargetsFresh'
    BY DEF MonitorTargetsFresh, MonitorAsleep
  <2> QED
    BY <2>1, <2>2, <2>3, <1>0 DEF IndInv
<1>4. CASE MonitorApplies /\ UNCHANGED <<rtspVars, subPiVars>>
  <2> DEFINE closed == {devices[d].command_socket_fd : d \in GoingOffline}
  <2>1. /\ devices' = SetOffline(GoingOffline)
        /\ sock' = AfterClose(closed)
        /\ GoingOffline \subseteq SubPis
        /\ UNCHANGED <<beacon, mounts>>
    BY <1>4 DEF MonitorApplies, GoingOffline, IndInv, TypeOK, ManagerTypeOK, rtspVars,
       subPiVars
  <2>2. \A d \in SubPis : IsOnline(d)' <=> IsOnline(d) /\ d \notin GoingOffline
    BY <2>1 DEF SetOffline, IsOnline, GoingOffline, IndInv, TypeOK, ManagerTypeOK,
       DeviceInfo, NoneIsNoDevice
  <2>3. \A d \in SubPis : IsOnline(d)' => devices'[d] = devices[d]
    BY <2>1, <2>2 DEF SetOffline
  <2>4. \A d \in SubPis : IsOnline(d) =>
           /\ devices[d].command_socket_fd \in Fds
           /\ IsOpen(devices[d].command_socket_fd)
           /\ sock[devices[d].command_socket_fd].dev = d
    BY DEF IndInv, OnlineOwnsSocket, IsOnline, TypeOK, ManagerTypeOK, DeviceInfo
  <2>5. \A d \in SubPis : IsOnline(d)' => devices[d].command_socket_fd \notin closed
    BY <2>1, <2>2, <2>4 DEF GoingOffline
  <2>6. \A f \in Fds : f \notin closed => sock'[f] = sock[f]
    BY <2>1 DEF AfterClose
  <2>7. \A f \in Fds : f \in closed => sock'[f] = None
    BY <2>1 DEF AfterClose
  <2> HIDE DEF closed
  <2>8. OnlineOwnsSocket'
    <3> SUFFICES ASSUME NEW d \in SubPis, devices'[d] # None
                 PROVE  LET fd == devices'[d].command_socket_fd
                        IN  IF devices'[d].is_online
                            THEN /\ fd # None /\ sock'[fd] # None
                                 /\ sock'[fd].dev = d
                                 /\ sock'[fd].port = devices'[d].udp_listen_port
                            ELSE fd = None
      BY DEF OnlineOwnsSocket, IsOpen
    <3>1. CASE devices'[d].is_online
      BY <3>1, <2>2, <2>3, <2>4, <2>5, <2>6 DEF IndInv, OnlineOwnsSocket, IsOnline, IsOpen
    <3>2. CASE ~devices'[d].is_online
      BY <3>2, <2>1 DEF SetOffline, IndInv, OnlineOwnsSocket
    <3> QED
      BY <3>1, <3>2
  <2>9. DescriptorsAccounted'
    <3> SUFFICES ASSUME NEW f \in Fds, IsOpen(f)'
                 PROVE  HeldByBeacon(f)' \/ HeldByRegistry(f)'
      BY DEF DescriptorsAccounted
    <3>1. f \notin closed /\ IsOpen(f)
      BY <2>6, <2>7 DEF IsOpen
    <3>2. CASE HeldByBeacon(f)
      BY <3>2, <2>1 DEF HeldByBeacon
    <3>3. CASE HeldByRegistry(f)
      <4>1. PICK d \in SubPis : IsOnline(d) /\ devices[d].command_socket_fd = f
        BY <3>3 DEF HeldByRegistry
      <4>2. d \notin GoingOffline
        BY <3>1, <4>1 DEF closed
      <4> QED
        BY <4>1, <4>2, <2>2, <2>3 DEF HeldByRegistry
    <3> QED
      BY <3>1, <3>2, <3>3 DEF IndInv, DescriptorsAccounted
  <2>10. BeaconHoldsSocket'
    <3>1. beacon.pc = "found" => beacon.fd \in Fds /\ beacon.fd \notin closed
      BY <2>4 DEF closed, GoingOffline, IndInv, BeaconHoldsSocket, TypeOK, SubPiTypeOK,
         IsOpen, ManagerTypeOK
    <3> QED
      BY <3>1, <2>1, <2>2, <2>3, <2>6 DEF IndInv, BeaconHoldsSocket, IsOpen
  <2>11. MonitorTargetsFresh'
    BY <1>4 DEF MonitorApplies, MonitorAsleep, MonitorTargetsFresh
  <2>12. RelayPortAgrees'
    BY <2>1, <2>2, <2>3, <2>4, <2>5, <2>6 DEF IndInv, RelayPortAgrees, ConnectionOf
  <2> QED
    BY <2>8, <2>9, <2>10, <2>11, <2>12, <1>0 DEF IndInv
<1>5. CASE \E d \in SubPis : /\ MonitorUnmounts(d)
                             /\ RemoveRelayPath(d)
                             /\ UNCHANGED <<kernelVars, subPiVars>>
  <2>1. PICK d \in SubPis : MonitorUnmounts(d) /\ RemoveRelayPath(d)
                            /\ UNCHANGED <<kernelVars, subPiVars>>
    BY <1>5
  <2> USE <2>1 DEF MonitorUnmounts, kernelVars, subPiVars
  <2>2. OnlineOwnsSocket' /\ DescriptorsAccounted'
    BY OwnershipKept DEF HeldByBeacon
  <2>3. BeaconHoldsSocket'
    BY DEF IndInv, BeaconHoldsSocket, IsOnline, IsOpen
  <2>4. MonitorTargetsFresh'
    BY DEF MonitorTargetsFresh, IndInv, TypeOK, ManagerTypeOK
  <2>5. RelayPortAgrees'
    <3>1. \A e \in SubPis : mounts'[e] # None => mounts'[e] = mounts[e]
      BY DEF RemoveRelayPath, IndInv, TypeOK, RtspTypeOK
    <3> QED
      BY <3>1 DEF IndInv, RelayPortAgrees, IsOnline, ConnectionOf
  <2> QED
    BY <2>2, <2>3, <2>4, <2>5, <1>0 DEF IndInv
<1> QED
  BY <1>1, <1>2, <1>3, <1>4, <1>5 DEF MonitorThread

\* The beacon thread.
LEMMA SafeBeacon == IndInv /\ BeaconThread /\ TypeOK' => IndInv'
<1> SUFFICES ASSUME IndInv, BeaconThread, TypeOK' PROVE IndInv'
  OBVIOUS
<1>0. NoMountsBeforeStart'
  BY MountsStep
<1>1. ASSUME NEW d \in SubPis, BeaconOf(d) PROVE IndInv'
  <2> USE <1>1 DEF BeaconOf, ReceiveBeacon, kernelVars, rtspVars, managerVars
  <2>1. OnlineOwnsSocket' /\ DescriptorsAccounted'
    BY OwnershipKept DEF HeldByBeacon
  <2>2. BeaconHoldsSocket'
    BY DEF BeaconHoldsSocket, BeaconIdle, IsRegistered, IsOnline
  <2>3. MonitorTargetsFresh' /\ RelayPortAgrees'
    BY MonitorKept, RelayKept
  <2> QED
    BY <2>1, <2>2, <2>3, <1>0 DEF IndInv
<1>2. ASSUME ConnectGivesUp PROVE IndInv'
  <2> USE <1>2 DEF ConnectGivesUp, ConnectFails, kernelVars, rtspVars, managerVars
  <2>1. OnlineOwnsSocket' /\ DescriptorsAccounted'
    BY OwnershipKept DEF HeldByBeacon
  <2>2. BeaconHoldsSocket'
    BY DEF BeaconHoldsSocket, BeaconIdle
  <2>3. MonitorTargetsFresh' /\ RelayPortAgrees'
    BY MonitorKept, RelayKept
  <2> QED
    BY <2>1, <2>2, <2>3, <1>0 DEF IndInv
<1>3. ASSUME NEW d \in SubPis, ConnectTo(d) PROVE IndInv'
  <2>1. PICK f \in Fds : ConnectSucceeds(f)
    BY <1>3 DEF ConnectTo
  <2> DEFINE c == NewConnection(d, next_port)
  <2>2. /\ beacon.pc = "connect" /\ beacon.dev = d /\ ~IsOnline(d) /\ ~IsOpen(f)
        /\ sock' = [sock EXCEPT ![f] = c]
        /\ beacon' = [pc |-> "found", dev |-> d, fd |-> f, port |-> next_port]
        /\ UNCHANGED <<devices, monitor, mounts>>
    BY <1>3, <2>1 DEF ConnectTo, ConnectSucceeds, IndInv, BeaconHoldsSocket, rtspVars,
       managerVars
  <2>3. c # None /\ c.dev = d /\ c.port = next_port
    BY NoneIsNoConnection, SocketsAssumption, SMT DEF NewConnection, Connection, IndInv,
       TypeOK, SubPiTypeOK
  <2> HIDE DEF c
  <2>4. f # None /\ \A g \in Fds : sock'[g] = IF g = f THEN c ELSE sock[g]
    BY <2>2, SocketsAssumption DEF IndInv, TypeOK, SocketsTypeOK
  <2>5. \A e \in SubPis : IsOnline(e) =>
           devices[e].command_socket_fd \in Fds /\ devices[e].command_socket_fd # f
    BY <2>2 DEF IndInv, OnlineOwnsSocket, IsOnline, TypeOK, ManagerTypeOK, DeviceInfo
  <2>6. OnlineOwnsSocket'
    BY <2>2, <2>4, <2>5 DEF IndInv, OnlineOwnsSocket, IsOnline, IsOpen
  <2>7. DescriptorsAccounted'
    BY <2>2, <2>4 DEF IndInv, DescriptorsAccounted, HeldByBeacon, HeldByRegistry,
       IsOnline, IsOpen
  <2>8. BeaconHoldsSocket'
    BY <2>2, <2>3, <2>4 DEF BeaconHoldsSocket, IsOnline, IsOpen
  <2>9. MonitorTargetsFresh'
    BY <2>2, <2>4, <2>5 DEF IndInv, MonitorTargetsFresh, IsOnline, IsOpen, IsAlive,
       PeekSeesEnd, ZeroSendFails, TypeOK, ManagerTypeOK
  <2>10. RelayPortAgrees'
    BY <2>2, <2>4, <2>5 DEF IndInv, RelayPortAgrees, IsOnline, ConnectionOf
  <2> QED
    BY <2>6, <2>7, <2>8, <2>9, <2>10, <1>0 DEF IndInv
<1>4. CASE BeaconRegisters /\ UNCHANGED <<kernelVars, rtspVars>>
  <2> DEFINE b == beacon.dev
             info == [is_online |-> TRUE, command_socket_fd |-> beacon.fd,
                      udp_listen_port |-> beacon.port]
  <2>1. /\ beacon.pc = "found" /\ b \in SubPis /\ ~IsOnline(b)
        /\ beacon.fd \in Fds /\ IsOpen(beacon.fd)
        /\ sock[beacon.fd].dev = b /\ sock[beacon.fd].port = beacon.port
    BY <1>4 DEF BeaconRegisters, IndInv, BeaconHoldsSocket, TypeOK, SubPiTypeOK, IsOpen
  <2>2. /\ devices' = [devices EXCEPT ![b] = info]
        /\ beacon' = [beacon EXCEPT !.pc = "relay"]
        /\ UNCHANGED <<sock, monitor, mounts>>
    BY <1>4, <2>1 DEF BeaconRegisters, OnDeviceFound, Registered, kernelVars, rtspVars
  <2>3. info \in DeviceInfo /\ info # None
    <3>1. beacon.port \in Nat
      BY DEF IndInv, TypeOK, SubPiTypeOK
    <3>2. info \in DeviceInfo
      BY <2>1, <3>1 DEF DeviceInfo
    <3> HIDE DEF info
    <3> QED
      BY <3>2, NoneIsNoDevice
  <2>4. \A d \in SubPis : devices'[d] = IF d = b THEN info ELSE devices[d]
    BY <2>1, <2>2 DEF IndInv, TypeOK, ManagerTypeOK
  <2>5. \A d \in SubPis : IsOnline(d)' <=> IsOnline(d) \/ d = b
    BY <2>3, <2>4 DEF IsOnline
  <2>6. beacon'.pc = "relay" /\ beacon'.dev = b /\ beacon'.fd = beacon.fd /\ beacon'.port = beacon.port
    BY <2>2 DEF IndInv, TypeOK, SubPiTypeOK
  <2>7. OnlineOwnsSocket'
    BY <2>1, <2>2, <2>4 DEF IndInv, OnlineOwnsSocket, IsOpen
  <2>8. DescriptorsAccounted'
    <3> SUFFICES ASSUME NEW f \in Fds, IsOpen(f)
                 PROVE  HeldByRegistry(f)'
      BY <2>2 DEF DescriptorsAccounted, IsOpen
    <3>1. CASE HeldByBeacon(f)
      BY <3>1, <2>1, <2>4, <2>5 DEF HeldByBeacon, HeldByRegistry
    <3>2. CASE HeldByRegistry(f)
      BY <3>2, <2>1, <2>4, <2>5 DEF HeldByRegistry
    <3> QED
      BY <3>1, <3>2 DEF IndInv, DescriptorsAccounted
  <2>9. BeaconHoldsSocket'
    BY <2>1, <2>4, <2>6 DEF BeaconHoldsSocket
  <2>10. MonitorTargetsFresh'
    BY <2>1, <2>2, <2>4, <2>5 DEF IndInv, MonitorTargetsFresh, IsAlive, PeekSeesEnd,
       ZeroSendFails, IsOpen, TypeOK, ManagerTypeOK, CheckTarget
  <2>11. RelayPortAgrees'
    BY <2>1, <2>2, <2>4, <2>5, <2>6 DEF IndInv, RelayPortAgrees, ConnectionOf
  <2> QED
    BY <2>7, <2>8, <2>9, <2>10, <2>11, <1>0 DEF IndInv
<1>5. CASE /\ BeaconRelays
           /\ AddRelayPath(beacon.dev, beacon.port)
           /\ UNCHANGED <<kernelVars, managerVars>>
  <2>1. beacon.pc = "relay" /\ beacon' = [beacon EXCEPT !.pc = "cleanup"]
    BY <1>5 DEF BeaconRelays
  <2>2. beacon'.pc = "cleanup" /\ beacon'.dev = beacon.dev
    BY <2>1 DEF IndInv, TypeOK, SubPiTypeOK
  <2> USE <1>5 DEF kernelVars, managerVars
  <2>3. OnlineOwnsSocket' /\ DescriptorsAccounted' /\ MonitorTargetsFresh'
    BY <2>1, OwnershipKept, MonitorKept DEF HeldByBeacon
  <2>4. BeaconHoldsSocket'
    BY <2>1, <2>2 DEF IndInv, BeaconHoldsSocket
  <2>5. RelayPortAgrees'
    <3> SUFFICES ASSUME NEW d \in SubPis, IsOnline(d), mounts'[d] # None
                 PROVE  mounts'[d] = ConnectionOf(d).port
      BY DEF RelayPortAgrees, IsOnline, ConnectionOf
    <3>1. ConnectionOf(d).port = devices[d].udp_listen_port
      BY DEF IndInv, OnlineOwnsSocket, IsOnline, ConnectionOf
    <3>2. CASE rtspStarted /\ d = beacon.dev
      BY <3>1, <3>2, <2>1 DEF AddRelayPath, IndInv, BeaconHoldsSocket, TypeOK, RtspTypeOK
    <3>3. CASE ~(rtspStarted /\ d = beacon.dev)
      <4>1. mounts'[d] = mounts[d]
        BY <3>3 DEF AddRelayPath, IndInv, TypeOK, RtspTypeOK
      <4>2. CASE d # beacon.dev
        BY <4>1, <4>2 DEF IndInv, RelayPortAgrees
      <4>3. CASE ~rtspStarted
        BY <4>1, <4>3 DEF IndInv, NoMountsBeforeStart
      <4> QED
        BY <3>3, <4>2, <4>3
    <3> QED
      BY <3>2, <3>3
  <2> QED
    BY <2>3, <2>4, <2>5, <1>0 DEF IndInv
<1>6. CASE /\ \/ CleanupSwaps
              \/ \E d \in SubPis : CleanupReaps(d)
              \/ BeaconSpawnsListener
           /\ UNCHANGED <<kernelVars, rtspVars, managerVars>>
  <2>1. /\ UNCHANGED <<devices, sock, monitor, mounts>>
        /\ beacon.pc \in {"cleanup", "reap"}
        /\ beacon' \in {beacon, [beacon EXCEPT !.pc = "reap"], BeaconIdle}
    BY <1>6 DEF CleanupSwaps, CleanupReaps, BeaconSpawnsListener, kernelVars, rtspVars,
       managerVars
  <2>2. OnlineOwnsSocket' /\ DescriptorsAccounted' /\ MonitorTargetsFresh' /\ RelayPortAgrees'
    BY <2>1, OwnershipKept, MonitorKept, RelayKept DEF HeldByBeacon
  <2>3. BeaconHoldsSocket'
    BY <2>1 DEF IndInv, BeaconHoldsSocket, BeaconIdle, TypeOK, SubPiTypeOK
  <2> QED
    BY <2>2, <2>3, <1>0 DEF IndInv
<1> QED
  BY <1>1, <1>2, <1>3, <1>4, <1>5, <1>6 DEF BeaconThread, BeaconProceeds

LEMMA IndInit == Init => IndInv
<1> SUFFICES ASSUME Init PROVE IndInv
  OBVIOUS
<1>1. TypeOK
  BY TypeInit
<1>2. /\ \A d \in SubPis : devices[d] = None /\ mounts[d] = None
      /\ \A f \in Fds : ~IsOpen(f)
      /\ beacon.pc = "idle" /\ monitor.pc = "sleep"
  BY DEF Init, SocketsInit, RtspInit, ManagerInit, SubPiInit, IsOpen, BeaconIdle,
     MonitorAsleep
<1> QED
  BY <1>1, <1>2 DEF IndInv, OnlineOwnsSocket, DescriptorsAccounted, BeaconHoldsSocket,
     MonitorTargetsFresh, RelayPortAgrees, NoMountsBeforeStart, IsOnline

LEMMA IndStep == IndInv /\ [Next]_vars => IndInv'
<1> SUFFICES ASSUME IndInv, [Next]_vars PROVE IndInv'
  OBVIOUS
<1>1. TypeOK /\ TypeOK'
  BY TypeStep DEF IndInv
<1>2. CASE Quiet
  BY <1>1, <1>2, QuietStep
<1>3. CASE BeaconThread
  BY <1>1, <1>3, SafeBeacon
<1>4. CASE MonitorThread
  BY <1>1, <1>4, SafeMonitor
<1> QED
  BY <1>1, <1>2, <1>3, <1>4, MainQuiet, ListenerQuiet, MotorQuiet, WorldQuiet,
     StutterQuiet DEF Next

LEMMA Inductive == Spec => []IndInv
<1>1. Init => IndInv
  BY IndInit
<1>2. IndInv /\ [Next]_vars => IndInv'
  BY IndStep
<1> QED
  BY <1>1, <1>2, PTL DEF Spec

\* The descriptor of an online Sub-Pi is open and leads to that Sub-Pi, which
\* streams to the registered port; offline entries hold no descriptor.
THEOREM OnlineOwnsItsSocket == Spec => []OnlineOwnsSocket
<1>1. IndInv => OnlineOwnsSocket
  BY DEF IndInv
<1> QED
  BY <1>1, Inductive, PTL

\* No descriptor is ever lost: each open one is the beacon thread's or the
\* registry's.
THEOREM NoDescriptorLeaks == Spec => []DescriptorsAccounted
<1>1. IndInv => DescriptorsAccounted
  BY DEF IndInv
<1> QED
  BY <1>1, Inductive, PTL

\* The monitor's unlocked copy of the registry never goes stale, and neither
\* does a verdict it has reached.
THEOREM MonitorNeverStale == Spec => []MonitorTargetsFresh
<1>1. IndInv => MonitorTargetsFresh
  BY DEF IndInv
<1> QED
  BY <1>1, Inductive, PTL

\* A mounted relay of an online Sub-Pi listens where that Sub-Pi streams to.
THEOREM RelayPortsRight == Spec => []RelayPortAgrees
<1>1. IndInv => RelayPortAgrees
  BY DEF IndInv
<1> QED
  BY <1>1, Inductive, PTL

\* A step closes no working connection.
LEMMA StepKeepsHealthy == IndInv /\ [Next]_vars => KeepsHealthy
<1> SUFFICES ASSUME IndInv, [Next]_vars PROVE KeepsHealthy
  OBVIOUS
<1>1. TypeOK
  BY DEF IndInv
<1>2. CASE Quiet
  BY <1>2 DEF Quiet, SocketsKept, KeepsHealthy, IsOpen
<1>3. CASE UNCHANGED sock
  BY <1>3 DEF KeepsHealthy, IsOpen
<1>4. ASSUME NEW d \in SubPis, ConnectTo(d) PROVE KeepsHealthy
  <2>1. PICK f \in Fds : ConnectSucceeds(f)
    BY <1>4 DEF ConnectTo
  <2> QED
    BY <2>1, <1>1 DEF ConnectSucceeds, KeepsHealthy, IsOpen, TypeOK, SocketsTypeOK
<1>5. ASSUME MonitorApplies PROVE KeepsHealthy
  <2> SUFFICES ASSUME NEW f \in Fds, IsOpen(f), sock[f].peer = "open"
               PROVE  sock'[f] = sock[f]
    BY DEF KeepsHealthy, IsOpen
  <2>1. \A d \in GoingOffline : devices[d].command_socket_fd # f
    BY <1>5 DEF MonitorApplies, GoingOffline, IndInv, MonitorTargetsFresh, IsAlive,
       PeekSeesEnd, ZeroSendFails
  <2> QED
    BY <1>5, <2>1 DEF MonitorApplies, AfterClose
<1>6. BeaconThread => UNCHANGED sock \/ \E d \in SubPis : ConnectTo(d)
  BY DEF BeaconThread, BeaconOf, ConnectGivesUp, BeaconProceeds, kernelVars
<1>7. MonitorThread => UNCHANGED sock \/ MonitorApplies
  BY DEF MonitorThread, kernelVars
<1> QED
  BY <1>1, <1>2, <1>3, <1>4, <1>5, <1>6, <1>7, MainQuiet, ListenerQuiet, MotorQuiet,
     WorldQuiet, StutterQuiet DEF Next

\* The process never closes a connection whose other end is open, although the
\* monitor decides to close it without holding the lock.
THEOREM HealthyStayOpen == Spec => HealthyNeverClosed
<1>1. IndInv /\ [Next]_vars => [KeepsHealthy]_vars
  BY StepKeepsHealthy
<1> QED
  BY <1>1, Inductive, PTL DEF Spec, HealthyNeverClosed
=============================================================================
