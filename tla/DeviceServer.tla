---------------------------- MODULE DeviceServer ----------------------------
(* DeviceServer's device side, composed: the kernel and the Sub-Pis, the      *)
(* registry with its monitor, Sub-Pi discovery and the RTSP relay table, wired *)
(* as DeviceController::run wires them.  on_device_changed_ only triggers a   *)
(* push to ClientServer and changes nothing here.                            *)
EXTENDS SubPiManager, RtspServer

vars == <<kernelVars, rtspVars, managerVars, subPiVars>>

Init == SocketsInit /\ RtspInit /\ ManagerInit /\ SubPiInit

----------------------------------------------------------------------------
(* The threads.                                                              *)

\* DeviceController::run starts discovery first and the relay server second,
\* so the other threads may take any number of steps before this one.
MainThread == StartRtsp /\ UNCHANGED <<kernelVars, managerVars, subPiVars>>

\* A beacon of d that the thread acts upon.
BeaconOf(d) == ReceiveBeacon(d) /\ UNCHANGED <<kernelVars, rtspVars, managerVars>>

ConnectTo(d) ==
    /\ beacon.dev = d
    /\ \E f \in Fds : ConnectSucceeds(f)
    /\ UNCHANGED <<rtspVars, managerVars>>

ConnectGivesUp == ConnectFails /\ UNCHANGED <<kernelVars, rtspVars, managerVars>>

\* What the beacon thread does with a connected Sub-Pi, in order.
BeaconProceeds ==
    \/ BeaconRegisters /\ UNCHANGED <<kernelVars, rtspVars>>
    \/ /\ BeaconRelays
       /\ AddRelayPath(beacon.dev, beacon.port)
       /\ UNCHANGED <<kernelVars, managerVars>>
    \/ /\ \/ CleanupSwaps
          \/ \E d \in SubPis : CleanupReaps(d)
          \/ BeaconSpawnsListener
       /\ UNCHANGED <<kernelVars, rtspVars, managerVars>>

BeaconThread ==
    \/ \E d \in SubPis : BeaconOf(d) \/ ConnectTo(d)
    \/ ConnectGivesUp
    \/ BeaconProceeds

ListenerThread(d) ==
    /\ \/ ListenerReadsEvent(d)
       \/ ListenerCallbackReturns(d)
       \/ ListenerReadsStatus(d)
       \/ ListenerReadsGarbage(d)
       \/ ListenerSkipsPacket(d)
       \/ ListenerDisconnected(d)
    /\ UNCHANGED rtspVars

MonitorThread ==
    \/ /\ \/ MonitorSnapshot
          \/ \E t \in monitor.targets : MonitorChecks(t)
          \/ MonitorCycleEnds
       /\ UNCHANGED <<kernelVars, rtspVars, subPiVars>>
    \/ MonitorApplies /\ UNCHANGED <<rtspVars, subPiVars>>
    \/ \E d \in SubPis :
          /\ MonitorUnmounts(d)
          /\ RemoveRelayPath(d)
          /\ UNCHANGED <<kernelVars, subPiVars>>

\* A client thread takes up a motor command, and what it then does with it.
MotorCommand(c, d) ==
    MotorLooksUp(c, d) /\ UNCHANGED <<kernelVars, rtspVars, subPiVars>>

MotorProceeds(c) ==
    /\ \/ MotorLocks(c) /\ UNCHANGED kernelVars
       \/ MotorSendFails(c) /\ UNCHANGED kernelVars
       \/ MotorSendTimesOut(c)
       \/ MotorSendsHeader(c)
       \/ MotorSendsBody(c)
    /\ UNCHANGED <<rtspVars, subPiVars>>

World == Environment /\ UNCHANGED <<rtspVars, managerVars, subPiVars>>

Next ==
    \/ MainThread
    \/ BeaconThread
    \/ \E d \in SubPis : ListenerThread(d)
    \/ MonitorThread
    \/ \E c \in Clients : MotorProceeds(c) \/ \E d \in SubPis : MotorCommand(c, d)
    \/ World

Spec == Init /\ [][Next]_vars

----------------------------------------------------------------------------
(* Fairness.  Every thread that can run eventually runs; a callback into the  *)
(* push side returns (its own module says when it does).  A Sub-Pi that is up *)
(* broadcasts for ever and sooner or later accepts the connection, so strong  *)
(* fairness on its beacon and its connect.  Nothing makes a Sub-Pi fail, boot *)
(* or send, and nobody is obliged to send motor commands.                     *)
Fairness ==
    /\ WF_vars(MainThread)
    /\ \A d \in SubPis : SF_vars(BeaconOf(d)) /\ SF_vars(ConnectTo(d))
    /\ WF_vars(ConnectGivesUp)
    /\ WF_vars(BeaconProceeds)
    /\ \A d \in SubPis : WF_vars(ListenerThread(d))
    /\ WF_vars(MonitorThread)
    /\ \A c \in Clients : WF_vars(MotorProceeds(c))

FairSpec == Spec /\ Fairness

----------------------------------------------------------------------------
(* Types.                                                                    *)

\* Every variable keeps its type: in particular errors never reaches 3 and no
\* descriptor or port escapes its range.
TypeOK == SocketsTypeOK /\ RtspTypeOK /\ ManagerTypeOK /\ SubPiTypeOK

----------------------------------------------------------------------------
(* Safety.                                                                   *)

\* The connection a registered Sub-Pi's descriptor leads to.
ConnectionOf(d) == sock[devices[d].command_socket_fd]

\* The descriptor of an online Sub-Pi is open and leads to that very Sub-Pi,
\* which streams to the port the registry holds; an offline one holds none.
\* Two threads close, open and store descriptors without a common lock.
OnlineOwnsSocket ==
    \A d \in SubPis : devices[d] # None =>
        LET fd == devices[d].command_socket_fd IN
        IF devices[d].is_online
        THEN /\ fd # None
             /\ IsOpen(fd)
             /\ sock[fd].dev = d
             /\ sock[fd].port = devices[d].udp_listen_port
        ELSE fd = None

\* The descriptor is in the hands of the beacon thread, not registered yet.
HeldByBeacon(f) == beacon.pc = "found" /\ beacon.fd = f

HeldByRegistry(f) == \E d \in SubPis : IsOnline(d) /\ devices[d].command_socket_fd = f

\* No socket leaks: every open descriptor is either in the beacon thread's
\* hands or in the registry, where the monitor will find and close it.
DescriptorsAccounted ==
    \A f \in Fds : IsOpen(f) => HeldByBeacon(f) \/ HeldByRegistry(f)

\* Between phases 1 and 3, without the lock, what the monitor copied stays
\* current: each target is online with that descriptor, and a device found
\* dead is still dead on the descriptor that phase 3 will close.
MonitorTargetsFresh ==
    monitor.pc = "check" =>
        /\ \A t \in monitor.targets :
              IsOnline(t.id) /\ devices[t.id].command_socket_fd = t.fd
        /\ \A d \in monitor.went_offline :
              IsOnline(d) /\ ~IsAlive(devices[d].command_socket_fd)

\* The relay of an online device listens on the UDP port that the device was
\* told to stream to, except while the beacon thread is about to remount it.
RelayPortAgrees ==
    \A d \in SubPis :
        IsOnline(d) /\ mounts[d] # None /\ ~(beacon.pc = "relay" /\ beacon.dev = d)
        => mounts[d] = ConnectionOf(d).port

\* The Sub-Pi that the beacon thread dials is not online before it is
\* registered, and the descriptor in its hands leads to that Sub-Pi, with the
\* port that START_STREAM named; what it then mounts is what it registered.
BeaconHoldsSocket ==
    /\ beacon.pc # "idle" => beacon.dev \in SubPis
    /\ beacon.pc \in {"connect", "found"} => ~IsOnline(beacon.dev)
    /\ beacon.pc = "found" => /\ IsOpen(beacon.fd)
                              /\ sock[beacon.fd].dev = beacon.dev
                              /\ sock[beacon.fd].port = beacon.port
    /\ beacon.pc = "relay" /\ IsOnline(beacon.dev) =>
          devices[beacon.dev].udp_listen_port = beacon.port

\* Nothing is mounted before the relay server has started.
NoMountsBeforeStart == rtspStarted \/ \A d \in SubPis : mounts[d] = None

\* The strengthening under which these invariants are inductive.
IndInv ==
    /\ TypeOK
    /\ OnlineOwnsSocket
    /\ DescriptorsAccounted
    /\ BeaconHoldsSocket
    /\ MonitorTargetsFresh
    /\ RelayPortAgrees
    /\ NoMountsBeforeStart

\* The beacon thread has not yet come to the listener of d's new connection.
ListenerPending(d) == beacon.dev = d /\ beacon.pc \in {"relay", "cleanup", "reap"}

\* d's listener reads d's current connection.
Listening(d) ==
    /\ listener[d].pc \in {"select", "callback"}
    /\ listener[d].fd = devices[d].command_socket_fd

\* An online Sub-Pi has a listener on its socket, unless the connection has
\* ended, which the monitor will notice.
NoZombie ==
    \A d \in SubPis :
        IsOnline(d) /\ ~ListenerPending(d)
        => Listening(d) \/ PeekSeesEnd(devices[d].command_socket_fd)

\* That is so as long as no Sub-Pi sends malformed packets.
ListenerCoversOnline == "garbage" \notin Faults => NoZombie

\* Every status that is pushed carries the ip of its device: nothing reports a
\* status before it is registered.
StatusHasIp == StatusWithoutIp = {}

\* Where no send has timed out, a half-written motor frame on a working
\* connection has its writer, who holds send_mutex_: no second command gets
\* between header and body.  After a time-out the frame stays Torn, and there
\* the next command does follow in its middle: FramesAreWhole, refuted below.
HalfFrameHasWriter ==
    \A f \in Fds :
        IsOpen(f) /\ sock[f].peer = "open" /\ sock[f].cmd \in SubPis
        => \E c \in Clients : send_mutex = c /\ motor[c].pc = "body" /\ motor[c].fd = f

\* A step closes only sockets whose other end is gone, and never hands one
\* connection's descriptor over to another without a close in between.
KeepsHealthy ==
    \A f \in Fds : IsOpen(f) /\ sock[f].peer = "open"
        => sock'[f] # None /\ sock'[f].port = sock[f].port

HealthyNeverClosed == [][KeepsHealthy]_vars

----------------------------------------------------------------------------
(* Liveness.                                                                 *)

\* A connection that was closed or reset does not stay in the registry, even
\* if its last packets are still unread, which hides the end from the monitor.
DisconnectNoticed ==
    \A d \in SubPis :
        (IsOnline(d) /\ ConnectionOf(d).peer \in {"fin", "reset"}) ~> ~IsOnline(d)

\* Someone reads d's connection.
IsRead(d) == \E e \in SubPis :
    listener[e].pc \in {"select", "callback"} /\ listener[e].fd = devices[d].command_socket_fd

\* A Sub-Pi that stays up ends up online for good, connected and read, however
\* it failed before.
Connected(d) == IsOnline(d) /\ ConnectionOf(d).peer = "open" /\ IsRead(d)

EveryoneRecovers == \A d \in SubPis : <>[](d \in up) => <>[]Connected(d)

----------------------------------------------------------------------------
(* What comments and documents say of the code and the runs find otherwise.   *)

\* SubPiManager.h: finished_ids_ holds the ids of listeners that have ended;
\* cleanupFinishedThreads relies on it to join without waiting.
FinishedAreDone == \A d \in finished_ids : listener[d].pc \in {"none", "done"}

\* No relay callback for d is outstanding.
QuiescentFor(d) ==
    /\ rtspStarted
    /\ ~(beacon.dev = d /\ beacon.pc \in {"found", "relay"})
    /\ d \notin monitor.removed_ids

\* A device found gets its RTSP relay.
OnlineIsMounted == \A d \in SubPis : QuiescentFor(d) /\ IsOnline(d) => mounts[d] # None

\* A device lost has its RTSP relay removed.
OfflineIsUnmounted == \A d \in SubPis : QuiescentFor(d) /\ mounts[d] # None => IsOnline(d)

\* A motor command is delivered to the Sub-Pi it names.
CommandsReachTarget == \A f \in Fds : IsOpen(f) => sock[f].cmd \in {None, Torn, sock[f].dev}

\* NetUtil.h: sendExact sends exactly N bytes and prevents partial writes.  No
\* frame is left half sent on a working connection.
FramesAreWhole == \A f \in Fds : IsOpen(f) /\ sock[f].peer = "open" => sock[f].cmd # Torn

\* The device_id added to an event is that of the Sub-Pi it came from.
EventsLabelledRight == \A d \in SubPis : listener[d].from \in {None, d}
============================================================================
