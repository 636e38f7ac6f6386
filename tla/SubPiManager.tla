---------------------------- MODULE SubPiManager ----------------------------
(* Discovery of Sub-Pis (SubPiManager.cpp): the beacon thread, which dials a  *)
(* Sub-Pi that is not online, registers it through DeviceManager's callback   *)
(* and starts its listener; and the listener threads, one per device id.      *)
(* std::thread objects live in listener_threads_, read and written by the     *)
(* beacon thread only; finished_ids_ is how a listener announces its end.     *)
EXTENDS DeviceManager

VARIABLES
    beacon,       \* the beacon thread
    next_port,    \* next_port_
    listener,     \* listener_threads_ and the state of the thread in it
    finished_ids, \* finished_ids_
    reap          \* ids_to_clean of the running cleanupFinishedThreads

subPiVars == <<beacon, next_port, listener, finished_ids, reap>>

FirstPort == 15001

\* "none": no entry in the map; "done": the thread ended but was not joined.
ListenerStates == {"none", "select", "callback", "done"}

SubPiTypeOK ==
    /\ beacon \in [pc : {"idle", "connect", "found", "relay", "cleanup", "reap"},
                   dev : SubPis \cup {None},
                   fd : Fds \cup {None},
                   port : Nat]
    /\ next_port \in Nat
    /\ listener \in [SubPis -> [pc : ListenerStates,
                                fd : Fds \cup {None},
                                errors : 0..2,
                                from : SubPis \cup {None}]]
    /\ finished_ids \in SUBSET SubPis
    /\ reap \in SUBSET SubPis

BeaconIdle == [pc |-> "idle", dev |-> None, fd |-> None, port |-> 0]

NoListener == [pc |-> "none", fd |-> None, errors |-> 0, from |-> None]

NewListener(fd) == [pc |-> "select", fd |-> fd, errors |-> 0, from |-> None]

SubPiInit ==
    /\ beacon = BeaconIdle
    /\ next_port = FirstPort
    /\ listener = [d \in SubPis |-> NoListener]
    /\ finished_ids = {}
    /\ reap = {}

----------------------------------------------------------------------------
(* runBeaconReceiver.                                                        *)

\* A beacon of a device that is not registered as online; others are skipped.
ReceiveBeacon(d) ==
    /\ beacon.pc = "idle"
    /\ d \in up
    /\ ~IsRegistered(d)
    /\ beacon' = [BeaconIdle EXCEPT !.pc = "connect", !.dev = d]
    /\ UNCHANGED <<next_port, listener, finished_ids, reap>>

\* requestStartStream: connect fails or times out, and the socket is closed.
ConnectFails ==
    /\ beacon.pc = "connect"
    /\ beacon' = BeaconIdle
    /\ UNCHANGED <<next_port, listener, finished_ids, reap>>

\* next_port_++
NextPort(port) == port + 1

\* requestStartStream succeeds: START_STREAM names the port info will carry.
ConnectSucceeds(f) ==
    /\ beacon.pc = "connect"
    /\ beacon.dev \in up
    /\ ~IsOpen(f)
    /\ sock' = [sock EXCEPT ![f] = NewConnection(beacon.dev, next_port)]
    /\ beacon' = [pc |-> "found", dev |-> beacon.dev, fd |-> f, port |-> next_port]
    /\ next_port' = NextPort(next_port)
    /\ UNCHANGED <<up, crashes, listener, finished_ids, reap>>

\* on_device_found_: register under the lock; the relay follows if it changed.
BeaconRegisters ==
    /\ beacon.pc = "found"
    /\ OnDeviceFound(beacon.dev, beacon.fd, beacon.port)
    /\ beacon' = [beacon EXCEPT !.pc = IF IsOnline(beacon.dev) THEN "cleanup"
                                                               ELSE "relay"]
    /\ UNCHANGED <<device_status, monitor, motor, send_mutex,
                   next_port, listener, finished_ids, reap>>

\* on_device_registered_; the relay table is changed by the caller.
BeaconRelays ==
    /\ beacon.pc = "relay"
    /\ beacon' = [beacon EXCEPT !.pc = "cleanup"]
    /\ UNCHANGED <<next_port, listener, finished_ids, reap>>

\* cleanupFinishedThreads takes the announced ids under finished_mutex_ ...
CleanupSwaps ==
    /\ beacon.pc = "cleanup"
    /\ beacon' = [beacon EXCEPT !.pc = "reap"]
    /\ reap' = finished_ids
    /\ finished_ids' = {}
    /\ UNCHANGED <<next_port, listener>>

\* join() returns once the thread has ended: until then the caller waits.
Joinable(d) == listener[d].pc \in {"none", "done"}

\* ... and joins and erases each of them.
CleanupReaps(d) ==
    /\ beacon.pc = "reap"
    /\ d \in reap
    /\ Joinable(d)
    /\ listener' = [listener EXCEPT ![d] = NoListener]
    /\ reap' = reap \ {d}
    /\ UNCHANGED <<beacon, next_port, finished_ids>>

\* Join the listener this device had before, if any, and start the new one.
BeaconSpawnsListener ==
    /\ beacon.pc = "reap"
    /\ reap = {}
    /\ Joinable(beacon.dev)
    /\ listener' = [listener EXCEPT ![beacon.dev] = NewListener(beacon.fd)]
    /\ beacon' = BeaconIdle
    /\ UNCHANGED <<next_port, finished_ids, reap>>

----------------------------------------------------------------------------
(* subPiListener.  The listener keeps the descriptor number it was given; the *)
(* data it reads is that of whatever connection has the number now.          *)

\* Mutant: recv is entered without data.
HasDataUnchecked(d) == listener[d].pc = "select" /\ IsOpen(listener[d].fd)

HasData(d) ==
    /\ listener[d].pc = "select"
    /\ IsOpen(listener[d].fd)
    /\ sock[listener[d].fd].unread > 0

Consumed(f) == [sock EXCEPT ![f].unread = @ - 1]

\* An AI, IMAGE or META packet: the callback broadcasts it and may block.
ListenerReadsEvent(d) ==
    /\ HasData(d)
    /\ sock' = Consumed(listener[d].fd)
    /\ listener' = [listener EXCEPT
                      ![d].pc = "callback",
                      ![d].from = sock[listener[d].fd].dev,
                      ![d].errors = 0]
    /\ UNCHANGED <<up, crashes, managerVars, beacon, next_port, finished_ids, reap>>

ListenerCallbackReturns(d) ==
    /\ listener[d].pc = "callback"
    /\ listener' = [listener EXCEPT ![d].pc = "select", ![d].from = None]
    /\ UNCHANGED <<kernelVars, managerVars, beacon, next_port, finished_ids, reap>>

\* An AVAILABLE packet: the status cache, under device_mutex_.
ListenerReadsStatus(d) ==
    /\ HasData(d)
    /\ sock' = Consumed(listener[d].fd)
    /\ OnAvailableEvent(d)
    /\ listener' = [listener EXCEPT ![d].errors = 0]
    /\ UNCHANGED <<up, crashes, devices, monitor, motor, send_mutex,
                   beacon, next_port, finished_ids, reap>>

\* The thread ends: it announces its id; the socket is left to the monitor.
ListenerEnds(d) ==
    /\ listener' = [listener EXCEPT ![d].pc = "done"]
    /\ finished_ids' = finished_ids \cup {d}

\* A body that does not parse: the third one in a row ends the loop.
ListenerReadsGarbage(d) ==
    /\ HasData(d)
    /\ "garbage" \in Faults
    /\ sock' = Consumed(listener[d].fd)
    /\ IF listener[d].errors = 2
       THEN ListenerEnds(d)
       ELSE /\ listener' = [listener EXCEPT ![d].errors = @ + 1]
            /\ UNCHANGED finished_ids
    /\ UNCHANGED <<up, crashes, managerVars, beacon, next_port, reap>>

\* A body_len or jpeg_size outside its bounds: skipped, and never counted.
ListenerSkipsPacket(d) ==
    /\ HasData(d)
    /\ "garbage" \in Faults
    /\ sock' = Consumed(listener[d].fd)
    /\ UNCHANGED <<up, crashes, managerVars, subPiVars>>

\* Mutant: a select that times out ends the loop, too.
AtEndOrTimeout(f) == TRUE

\* select or recv fails (the descriptor was closed), or the peer has ended.
AtEnd(f) == PeekSeesEnd(f)

ListenerDisconnected(d) ==
    /\ listener[d].pc = "select"
    /\ AtEnd(listener[d].fd)
    /\ ListenerEnds(d)
    /\ UNCHANGED <<kernelVars, managerVars, beacon, next_port, reap>>
============================================================================
