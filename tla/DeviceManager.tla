---------------------------- MODULE DeviceManager ----------------------------
(* The device registry of DeviceServer (DeviceManager.cpp): the map devices_  *)
(* and the cache device_status_ behind device_mutex_, the monitor thread with *)
(* its three phases, and sendMotorCommand as run by the threads that serve    *)
(* ClientServer connections.  Whatever the code does under one lock is one    *)
(* action; whatever it does after unlocking is a later action of that thread. *)
EXTENDS Sockets

CONSTANT Clients      \* the threads that may run sendMotorCommand

VARIABLES
    devices,          \* devices_: Sub-Pi -> DeviceInfo, or None if unknown
    device_status,    \* the ids that device_status_ holds a status for
    monitor,          \* the monitor thread
    motor,            \* client thread -> its sendMotorCommand in progress
    send_mutex        \* the client thread that holds send_mutex_, or None

managerVars == <<devices, device_status, monitor, motor, send_mutex>>

DeviceInfo == [is_online : BOOLEAN,
               command_socket_fd : Fds \cup {None},
               udp_listen_port : Nat]

CheckTarget == [id : SubPis, fd : Fds \cup {None}]

ASSUME NoneIsNoDevice == None \notin DeviceInfo /\ None \notin Clients

ManagerTypeOK ==
    /\ devices \in [SubPis -> DeviceInfo \cup {None}]
    /\ device_status \in SUBSET SubPis
    /\ monitor \in [pc : {"sleep", "check", "unmount"},
                    targets : SUBSET CheckTarget,
                    went_offline : SUBSET SubPis,
                    removed_ids : SUBSET SubPis]
    /\ motor \in [Clients -> [pc : {"idle", "lock", "header", "body"},
                              dev : SubPis \cup {None},
                              fd : Fds \cup {None}]]
    /\ send_mutex \in Clients \cup {None}

MonitorAsleep == [pc |-> "sleep", targets |-> {},
                  went_offline |-> {}, removed_ids |-> {}]

MotorIdle == [pc |-> "idle", dev |-> None, fd |-> None]

ManagerInit ==
    /\ devices = [d \in SubPis |-> None]
    /\ device_status = {}
    /\ monitor = MonitorAsleep
    /\ motor = [c \in Clients |-> MotorIdle]
    /\ send_mutex = None

----------------------------------------------------------------------------
(* The registry.                                                             *)

IsOnline(d) == devices[d] # None /\ devices[d].is_online

\* Mutants: no duplicate check; a known device counts, online or not.
NeverRegistered(d) == FALSE

EverRegistered(d) == devices[d] # None

\* setIsDeviceRegistered's callback: only an online device counts.
IsRegistered(d) == IsOnline(d)

\* setOnDeviceFound's callback under device_mutex_: a new entry, or an offline
\* one brought back with the new descriptor and port; an online one is left.
Registered(d, fd, port) ==
    [devices EXCEPT ![d] = [is_online |-> TRUE, command_socket_fd |-> fd,
                            udp_listen_port |-> port]]

OnDeviceFound(d, fd, port) ==
    devices' = IF IsOnline(d) THEN devices ELSE Registered(d, fd, port)

\* setOnAvailableEvent's callback: the cache entry of the reporting device.
OnAvailableEvent(d) == device_status' = device_status \cup {d}

\* getDeviceStatusList adds the ip of the statuses whose device it finds.
StatusWithoutIp == {d \in device_status : devices[d] = None}

----------------------------------------------------------------------------
(* monitorLoop.                                                              *)

\* Mutant: offline devices are not skipped.
EveryTarget ==
    {[id |-> d, fd |-> devices[d].command_socket_fd] :
        d \in {e \in SubPis : devices[e] # None}}

\* Phase 1, under the lock: copy id and descriptor of every online device.
OnlineTargets ==
    {[id |-> d, fd |-> devices[d].command_socket_fd] :
        d \in {e \in SubPis : IsOnline(e)}}

MonitorSnapshot ==
    /\ monitor.pc = "sleep"
    /\ monitor' = [MonitorAsleep EXCEPT !.pc = "check",
                                        !.targets = OnlineTargets]
    /\ UNCHANGED <<devices, device_status, motor, send_mutex>>

\* Mutants: EAGAIN counts as an error; the send alone decides.
IsAliveWithData(fd) == IsOpen(fd) /\ sock[fd].unread > 0

IsAliveBySend(fd) == ~ZeroSendFails(fd)

\* Phase 2, without the lock, one target at a time: peek, then empty send.
IsAlive(fd) == ~PeekSeesEnd(fd) /\ ~ZeroSendFails(fd)

MonitorChecks(t) ==
    /\ monitor.pc = "check"
    /\ t \in monitor.targets
    /\ monitor' = [MonitorAsleep EXCEPT
                     !.pc = "check",
                     !.targets = monitor.targets \ {t},
                     !.went_offline = monitor.went_offline \cup
                                      (IF IsAlive(t.fd) THEN {} ELSE {t.id})]
    /\ UNCHANGED <<devices, device_status, motor, send_mutex>>

\* Phase 3, under the lock again: those still online go offline and their
\* sockets are closed.  The relays are removed after unlocking.
GoingOffline == {d \in monitor.went_offline : IsOnline(d)}

\* Mutants: command_socket_fd is not reset; the entry is erased.
SetOfflineKeepsFd(gone) ==
    [d \in SubPis |-> IF d \in gone THEN [devices[d] EXCEPT !.is_online = FALSE]
                                    ELSE devices[d]]

SetOfflineErases(gone) == [d \in SubPis |-> IF d \in gone THEN None ELSE devices[d]]

SetOffline(gone) ==
    [d \in SubPis |->
       IF d \in gone
       THEN [is_online |-> FALSE, command_socket_fd |-> None,
             udp_listen_port |-> devices[d].udp_listen_port]
       ELSE devices[d]]

MonitorApplies ==
    /\ monitor.pc = "check"
    /\ monitor.targets = {}
    /\ devices' = SetOffline(GoingOffline)
    /\ sock' = AfterClose({devices[d].command_socket_fd : d \in GoingOffline})
    /\ monitor' = [MonitorAsleep EXCEPT !.pc = "unmount",
                                        !.removed_ids = GoingOffline]
    /\ UNCHANGED <<up, crashes, device_status, motor, send_mutex>>

\* on_device_removed_ for one id; the relay table is changed by the caller.
MonitorUnmounts(d) ==
    /\ monitor.pc = "unmount"
    /\ d \in monitor.removed_ids
    /\ monitor' = [monitor EXCEPT !.removed_ids = @ \ {d}]
    /\ UNCHANGED <<devices, device_status, motor, send_mutex>>

MonitorCycleEnds ==
    /\ monitor.pc = "unmount"
    /\ monitor.removed_ids = {}
    /\ monitor' = MonitorAsleep
    /\ UNCHANGED <<devices, device_status, motor, send_mutex>>

----------------------------------------------------------------------------
(* sendMotorCommand, by client thread c for the Sub-Pi d.                    *)

\* [1] look the descriptor up and unlock; an offline device ends the call.
MotorLooksUp(c, d) ==
    /\ motor[c].pc = "idle"
    /\ IsOnline(d)
    /\ motor' = [motor EXCEPT ![c] = [pc |-> "lock", dev |-> d,
                                      fd |-> devices[d].command_socket_fd]]
    /\ UNCHANGED <<devices, device_status, monitor, send_mutex>>

\* Mutant: no lock.
SendUnlocked(c) == TRUE

\* [2] wait for send_mutex_.
SendMutexFree(c) == send_mutex = None

MotorLocks(c) ==
    /\ motor[c].pc = "lock"
    /\ SendMutexFree(c)
    /\ motor' = [motor EXCEPT ![c].pc = "header"]
    /\ send_mutex' = c
    /\ UNCHANGED <<devices, device_status, monitor>>

MotorReturns(c) ==
    /\ motor' = [motor EXCEPT ![c] = MotorIdle]
    /\ send_mutex' = None

\* A write to a peer that is gone is accepted; the answer may be a reset.  What
\* is written behind a torn frame is not a frame to its receiver.
AfterWrite(f, cmd) ==
    \E peer \in IF sock[f].peer \in {"fin", "lost"} THEN {sock[f].peer, "reset"}
                                                    ELSE {sock[f].peer} :
        sock' = [sock EXCEPT ![f].cmd = IF @ = Torn THEN Torn ELSE cmd,
                             ![f].peer = peer]

SendExactFails(fd) == IsOpen(fd) => sock[fd].peer = "reset"

\* sendExact fails on a closed descriptor or after a reset, and the call ends.
\* That it may also time out is MotorSendTimesOut.
MotorSendFails(c) ==
    /\ motor[c].pc \in {"header", "body"}
    /\ SendExactFails(motor[c].fd)
    /\ MotorReturns(c)
    /\ UNCHANGED <<devices, device_status, monitor>>

\* The peer does not read, the buffer is full and SO_SNDTIMEO (2 s, set by
\* requestStartStream) ends a send(): sendExact returns false with any part of
\* its bytes sent, none of the header's perhaps, and the socket stays in use.
MotorSendTimesOut(c) ==
    /\ motor[c].pc \in {"header", "body"}
    /\ ~SendExactFails(motor[c].fd)
    /\ \/ motor[c].pc = "header" /\ UNCHANGED sock
       \/ AfterWrite(motor[c].fd, Torn)
    /\ MotorReturns(c)
    /\ UNCHANGED <<up, crashes, devices, device_status, monitor>>

MotorSendsHeader(c) ==
    /\ motor[c].pc = "header"
    /\ ~SendExactFails(motor[c].fd)
    /\ AfterWrite(motor[c].fd, motor[c].dev)
    /\ motor' = [motor EXCEPT ![c].pc = "body"]
    /\ UNCHANGED <<up, crashes, devices, device_status, monitor, send_mutex>>

MotorSendsBody(c) ==
    /\ motor[c].pc = "body"
    /\ ~SendExactFails(motor[c].fd)
    /\ AfterWrite(motor[c].fd, None)
    /\ MotorReturns(c)
    /\ UNCHANGED <<up, crashes, devices, device_status, monitor>>
============================================================================
