-------------------------- MODULE CameraDiscovery --------------------------
(* The scanner, DeviceManager's registry and its monitor thread, as far as    *)
(* they deal with Hanwha cameras, and stopDiscovery.  A camera's channels are *)
(* devices of their own; the registry is the map devices_ restricted to them. *)
(* Relays are not involved: addRelayPath returns at once for a Hanwha camera. *)
EXTENDS OnvifScanner

VARIABLES
    devices,      \* <<address, channel>> -> whether it is known and online
    monitor,      \* the monitor thread
    stop          \* how far stopDiscovery has come

vars == <<cameraVars, scannerVars, devices, monitor, stop>>

Devices == Ips \X Channels

(* The monitor: what it copied under the lock, which of it it has checked, the *)
(* verdicts by address, and the devices that it found offline.               *)
Monitor == [pc : {"sleep", "check", "ended"}, targets : SUBSET Devices,
            checked : SUBSET Devices, ip_check_cache : [Ips -> BOOLEAN \cup {None}],
            went_offline : SUBSET Devices]

\* Every variable keeps its type; no failure count passes the limit.
TypeOK ==
    /\ ScannerTypeOK
    /\ devices \in [Devices -> {"unknown", "online", "offline"}]
    /\ monitor \in Monitor
    /\ stop \in {"running", "subpi", "scanner", "monitor", "stopped"}

MonitorAt(pc) == [pc |-> pc, targets |-> {}, checked |-> {},
                  ip_check_cache |-> [i \in Ips |-> None], went_offline |-> {}]

Init ==
    /\ ScannerInit
    /\ devices = [d \in Devices |-> "unknown"]
    /\ monitor = MonitorAt("sleep")
    /\ stop = "running"

is_discovering == stop = "running"

----------------------------------------------------------------------------
(* The registry's callbacks, each under device_mutex_.                       *)

\* Mutant: a known device counts, online or not.
EverRegistered(i) == devices[<<i, 0>>] # "unknown"

\* setIsDeviceRegistered's: channel 0 stands for the camera.
IsRegistered(i) == devices[<<i, 0>>] = "online"

\* setOnDeviceFound's: a new entry, or one brought back; an online one is left.
OnDeviceFound(d) == devices' = [devices EXCEPT ![d] = "online"]

ScannerThread ==
    /\ \/ ScannerProbes /\ is_discovering
       \/ \E i \in Ips : \/ ScannerMatches(i, IsRegistered(i))
                         \/ ScannerTriesArp(i, IsRegistered(i), is_discovering)
       \/ WindowCloses
       \/ ScannerRests(is_discovering)
       \/ ScannerStops(is_discovering)
       \/ SunapiLists
       \/ SunapiUnavailable
       \/ SingleAnswers
       \/ SingleFails
       \/ SingleUnavailable
    /\ UNCHANGED <<devices, monitor, stop>>

ScannerReportsDevice ==
    /\ ScannerReports
    /\ OnDeviceFound(<<scanner.ip, scanner.reported>>)
    /\ UNCHANGED <<monitor, stop>>

----------------------------------------------------------------------------
(* monitorLoop's branch for Hanwha cameras.                                  *)

MonitorSnapshot ==
    /\ monitor.pc = "sleep"
    /\ is_discovering
    /\ monitor' = [MonitorAt("check") EXCEPT
                     !.targets = {d \in Devices : devices[d] = "online"}]
    /\ UNCHANGED <<cameraVars, scannerVars, devices, stop>>

\* checkTcpPort: a camera that is silent still accepts; no socket, no answer.
CheckTcpPort(i) == camera[i] # "down" /\ ~exhausted

\* Mutant: every channel is checked for itself.
EachChecked(i) == CheckTcpPort(i)

\* The verdict of the address, from the cache if it is there.
Verdict(i) == IF monitor.ip_check_cache[i] = None THEN CheckTcpPort(i)
              ELSE monitor.ip_check_cache[i]

MonitorChecks(d) ==
    /\ monitor.pc = "check"
    /\ is_discovering
    /\ d \in monitor.targets \ monitor.checked
    /\ monitor' = [monitor EXCEPT
                     !.checked = @ \cup {d},
                     !.ip_check_cache[d[1]] = Verdict(d[1]),
                     !.went_offline = IF Verdict(d[1]) THEN @ ELSE @ \cup {d}]
    /\ UNCHANGED <<cameraVars, scannerVars, devices, stop>>

\* Under the lock again; stop() cuts the checks short, not this.
MonitorApplies ==
    /\ monitor.pc = "check"
    /\ is_discovering => monitor.checked = monitor.targets
    /\ devices' = [d \in Devices |->
                     IF d \in monitor.went_offline /\ devices[d] = "online"
                     THEN "offline" ELSE devices[d]]
    /\ monitor' = MonitorAt("sleep")
    /\ UNCHANGED <<cameraVars, scannerVars, stop>>

\* Mutant: the flag is only looked at inside the cycle.
MonitorSleepsOn ==
    /\ monitor.pc = "sleep"
    /\ ~is_discovering
    /\ monitor' = MonitorAt("sleep")
    /\ UNCHANGED <<cameraVars, scannerVars, devices, stop>>

MonitorStops ==
    /\ monitor.pc = "sleep"
    /\ ~is_discovering
    /\ monitor' = MonitorAt("ended")
    /\ UNCHANGED <<cameraVars, scannerVars, devices, stop>>

MonitorThread ==
    \/ MonitorSnapshot
    \/ \E d \in Devices : MonitorChecks(d)
    \/ MonitorApplies
    \/ MonitorStops

----------------------------------------------------------------------------
(* stopDiscovery: clear is_discovering_, stop the Sub-Pi threads, join the      *)
(* scanner, join the monitor.                                                *)

StopRequested ==
    /\ stop = "running"
    /\ stop' = "subpi"
    /\ UNCHANGED <<cameraVars, scannerVars, devices, monitor>>

\* subpi_mgr_.stop() has joined the listeners and the beacon thread.  When, if
\* ever, it does is up to them: this module promises nothing of it.
JoinsSubPis ==
    /\ stop = "subpi"
    /\ stop' = "scanner"
    /\ UNCHANGED <<cameraVars, scannerVars, devices, monitor>>

JoinsScanner ==
    /\ stop = "scanner"
    /\ scanner.pc = "ended"
    /\ stop' = "monitor"
    /\ UNCHANGED <<cameraVars, scannerVars, devices, monitor>>

JoinsMonitor ==
    /\ stop = "monitor"
    /\ monitor.pc = "ended"
    /\ stop' = "stopped"
    /\ UNCHANGED <<cameraVars, scannerVars, devices, monitor>>

Cameras ==
    /\ DescriptorsChange \/ \E i \in Ips : CameraChanges(i) \/ CameraAnswers(i)
    /\ UNCHANGED <<devices, monitor, stop>>

Next ==
    \/ ScannerThread \/ ScannerReportsDevice
    \/ MonitorThread
    \/ StopRequested \/ JoinsSubPis \/ JoinsScanner \/ JoinsMonitor
    \/ Cameras

Spec == Init /\ [][Next]_vars

(* Every thread runs.  stop() need never be called, subpi_mgr_.stop() need      *)
(* never return, and no camera owes an answer.                               *)
Fairness ==
    /\ WF_vars(ScannerThread \/ ScannerReportsDevice)
    /\ WF_vars(MonitorThread)
    /\ WF_vars(JoinsScanner \/ JoinsMonitor)

FairSpec == Spec /\ Fairness

----------------------------------------------------------------------------
(* Properties.                                                               *)

\* A camera that refuses the credentials is sent at most the two requests of
\* one attempt, by whichever of the two loops, so that it is not locked.
ForeignCamerasSpared == \A i \in Foreign : requests[i] <= 2

\* The channels of one camera get one verdict in a cycle of the monitor, also
\* when the camera fails between their checks.
SameVerdict ==
    \A d, e \in monitor.checked :
        d[1] = e[1] => (d \in monitor.went_offline <=> e \in monitor.went_offline)

\* curl waits for a camera that accepted and is silent.  It has no limit for
\* that, so that a camera may hold the scanner for ever; the promises that need
\* the scanner say so in their hypothesis.
CurlWaits == scanner.pc \in {"list", "single"} /\ ~CurlReturns(scanner.ip)

\* The registry follows a camera that stays as it is: one that stays down has no
\* channel online, whatever the others do; one that stays up is online, unless
\* it was banned or some camera holds the scanner for ever.
CamerasTracked ==
    \A i \in Ips :
        /\ ([]<>~CurlWaits /\ <>[](camera[i] = "up" /\ ~exhausted) =>
                <>[](devices[<<i, 0>>] = "online" \/ Banned(i) \/ scanner.pc = "ended"))
        /\ (<>[](camera[i] = "down") =>
                <>[](~is_discovering \/ \A ch \in Channels : devices[<<i, ch>>] # "online"))

\* Once the Sub-Pi threads are joined, stopDiscovery returns, wherever scanner
\* and monitor are and whichever cameras hang, unless the scanner is asking one
\* that never answers: StopAlwaysReturns, refuted below.
StopReturns == []<>~CurlWaits => (stop = "scanner" ~> stop = "stopped")

----------------------------------------------------------------------------
(* What documents say of the code and runs find otherwise.                   *)

\* ~DeviceManager calls stopDiscovery and relies on its return.
StopAlwaysReturns == stop = "scanner" ~> stop = "stopped"

\* A camera that was online once comes back after a failure.
KnownCamerasReturn ==
    \A i \in Ips :
        (devices[<<i, 0>>] # "unknown" /\ []<>(camera[i] = "up"))
        ~> (devices[<<i, 0>>] = "online" \/ ~is_discovering)

\* A camera that stays up has all its channels online, unless it was banned.
AllChannelsReturn ==
    \A i \in Ips : <>[](camera[i] = "up") =>
        <>[](\/ \A ch \in Channels : ch < Streams[i] => devices[<<i, ch>>] = "online"
             \/ Banned(i) \/ i \in Foreign \/ ~is_discovering)
============================================================================
