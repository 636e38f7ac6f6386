---------------------------- MODULE CameraProofs ----------------------------
(* Proofs about CameraDiscovery, for any cameras, channels and changes.       *)
EXTENDS CameraDiscovery, TLAPS

Busy == {"list", "single", "report"}

\* Whom the scanner is busy with, and how far it can have come with it.
ScannerInv ==
    /\ scanner.pc \in Busy => scanner.ip \in Ips
    /\ scanner.pc \in {"list", "single"} => sunapi_fail_count[scanner.ip] = 0
    /\ scanner.pc \notin {"list", "report"} => scanner.urls = 0
    /\ scanner.pc = "list" => scanner.urls < MaxChannels
    /\ scanner.pc # "report" => scanner.reported = 0
    /\ scanner.pc = "report" => scanner.reported < scanner.urls

\* What a camera that refuses the credentials has refused so far: the second
\* request ends the attempt with a failure on its account, and there is no
\* attempt after that.
RefusedInv ==
    \A i \in Foreign :
        /\ scanner.pc = "list" /\ scanner.ip = i => scanner.urls = 0
        /\ sunapi_fail_count[i] = 1 => requests[i] <= 2
        /\ sunapi_fail_count[i] = 0 =>
              requests[i] <= IF scanner.pc = "single" /\ scanner.ip = i THEN 1 ELSE 0

\* A cycle's verdicts are those of its cache.
MonitorInv ==
    /\ monitor.went_offline \subseteq monitor.checked
    /\ \A d \in monitor.checked :
           /\ d \in Devices
           /\ monitor.ip_check_cache[d[1]] # None
           /\ d \in monitor.went_offline <=> ~monitor.ip_check_cache[d[1]]

ScanInv == ScannerTypeOK /\ ScannerInv /\ RefusedInv

IndInv == TypeOK /\ ScannerInv /\ RefusedInv /\ MonitorInv

----------------------------------------------------------------------------
(* The scanner's steps.                                                      *)

LEMMA ScannerFields ==
    ASSUME ScannerTypeOK
    PROVE  /\ scanner \in Scanner /\ scanner.ip \in Ips \cup {None} /\ scanner.todo \subseteq Ips
           /\ scanner.urls \in 0..MaxChannels /\ scanner.reported \in 0..MaxChannels
           /\ scanner.urls \in Nat /\ scanner.reported \in Nat
           /\ MaxChannels \in Nat \ {0} /\ None \notin Ips /\ Foreign \subseteq Ips
           /\ sunapi_fail_count \in [Ips -> 0..1] /\ requests \in [Ips -> Nat]
BY CamerasAssumption DEF ScannerTypeOK, Scanner

\* The scanner only moves on in its loops, or stays.
LEMMA LoopStep ==
    ASSUME ScanInv, UNCHANGED <<cameraVars, sunapi_fail_count, requests>>,
           matches' \subseteq Ips, scanner.pc \notin Busy,
           NEW pc \in {"rest", "window", "arp", "ended"}, NEW todo \in SUBSET Ips,
           scanner' = [scanner EXCEPT !.pc = pc, !.todo = todo]
    PROVE  ScanInv'
<1>1. scanner' \in Scanner /\ scanner'.pc = pc /\ scanner'.ip = scanner.ip
      /\ scanner'.urls = scanner.urls /\ scanner'.reported = scanner.reported
  BY DEF ScanInv, ScannerTypeOK, Scanner
<1>2. ScannerTypeOK'
  BY <1>1 DEF ScanInv, ScannerTypeOK, cameraVars
<1>3. ScannerInv'
  BY <1>1 DEF ScanInv, ScannerInv, Busy
<1>4. RefusedInv'
  BY <1>1 DEF ScanInv, RefusedInv, Busy
<1> QED
  BY <1>2, <1>3, <1>4 DEF ScanInv

\* It begins with a camera that has not failed yet.
LEMMA AskStep ==
    ASSUME ScanInv, UNCHANGED <<cameraVars, sunapi_fail_count, requests>>,
           matches' \subseteq Ips, scanner.pc \notin Busy,
           NEW i \in Ips, ~Banned(i), NEW arp \in BOOLEAN, NEW todo \in SUBSET Ips,
           scanner' = [scanner EXCEPT !.pc = "list", !.ip = i, !.arp = arp, !.todo = todo]
    PROVE  ScanInv'
<1>1. scanner' \in Scanner /\ scanner'.pc = "list" /\ scanner'.ip = i
      /\ scanner'.urls = scanner.urls /\ scanner'.reported = scanner.reported
  BY DEF ScanInv, ScannerTypeOK, Scanner
<1>2. scanner.urls = 0 /\ scanner.reported = 0 /\ sunapi_fail_count[i] = 0
  BY ScannerFields DEF ScanInv, ScannerInv, Busy, Banned
<1>3. ScannerTypeOK'
  BY <1>1 DEF ScanInv, ScannerTypeOK, cameraVars
<1>4. ScannerInv'
  BY <1>1, <1>2, ScannerFields DEF ScanInv, ScannerInv, Busy
<1>5. RefusedInv'
  BY <1>1, <1>2 DEF ScanInv, RefusedInv, Busy
<1> QED
  BY <1>3, <1>4, <1>5 DEF ScanInv

LEMMA ResumedFields ==
    ASSUME ScannerTypeOK
    PROVE  /\ Resumed \in Scanner /\ Resumed.pc \in {"arp", "window"} /\ Resumed.ip = None
           /\ Resumed.urls = 0 /\ Resumed.reported = 0
<1>1. scanner \in Scanner /\ 0 \in 0..MaxChannels
  BY ScannerFields
<1>2. CASE scanner.arp
  BY <1>1, <1>2 DEF Resumed, Scanner
<1>3. CASE ~scanner.arp
  BY <1>1, <1>3 DEF Resumed, Scanner
<1> QED
  BY <1>2, <1>3

LEMMA FailStep ==
    ASSUME ScanInv, scanner.pc \in {"list", "single"}, scanner.urls = 0, ScannerFails,
           \/ UNCHANGED requests
           \/ scanner.pc = "single" /\ Refused(scanner.ip)
    PROVE  ScanInv'
<1>1. /\ scanner' \in Scanner /\ scanner'.pc \in {"arp", "window"} /\ scanner'.ip = None
      /\ scanner'.urls = 0 /\ scanner'.reported = 0
      /\ UNCHANGED <<cameraVars, matches>>
  BY ResumedFields DEF ScannerFails, ScanInv
<1>2. scanner.ip \in Ips /\ sunapi_fail_count[scanner.ip] = 0
  BY DEF ScanInv, ScannerInv, Busy
<1>3. /\ sunapi_fail_count' = [sunapi_fail_count EXCEPT ![scanner.ip] = 1]
      /\ sunapi_fail_count' \in [Ips -> 0..1]
  BY <1>2, ScannerFields DEF ScannerFails, ScanInv
<1>4. /\ requests' \in [Ips -> Nat]
      /\ \A i \in Ips : i # scanner.ip => requests'[i] = requests[i]
      /\ \/ requests'[scanner.ip] = requests[scanner.ip]
         \/ scanner.pc = "single" /\ requests'[scanner.ip] = requests[scanner.ip] + 1
  BY <1>2, ScannerFields DEF Refused, ScanInv
<1>5. ScannerTypeOK'
  BY <1>1, <1>3, <1>4 DEF ScanInv, ScannerTypeOK, cameraVars
<1>6. ScannerInv'
  BY <1>1 DEF ScannerInv, Busy
<1>7. RefusedInv'
  <2> SUFFICES ASSUME NEW i \in Foreign
               PROVE  /\ sunapi_fail_count'[i] = 1 => requests'[i] <= 2
                      /\ sunapi_fail_count'[i] = 0 => requests'[i] <= 0
    BY <1>1 DEF RefusedInv
  <2>1. i \in Ips /\ requests[i] \in Nat
    BY ScannerFields DEF ScanInv
  <2>2. CASE i = scanner.ip
    BY <1>2, <1>3, <1>4, <2>1, <2>2, ScannerFields DEF ScanInv, RefusedInv
  <2>3. CASE i # scanner.ip
    BY <1>2, <1>3, <1>4, <2>1, <2>3, ScannerFields DEF ScanInv, RefusedInv
  <2> QED
    BY <2>2, <2>3
<1> QED
  BY <1>5, <1>6, <1>7 DEF ScanInv

\* A list is complete.
LEMMA ListedStep ==
    ASSUME ScanInv, scanner.pc = "list" \/ (scanner.pc = "single" /\ scanner.ip \notin Foreign),
           \E n \in 1..MaxChannels : scanner' = Reporting(n), UNCHANGED <<cameraVars, matches, sunapi_fail_count, requests>>
    PROVE  ScanInv'
<1>1. scanner' \in Scanner /\ scanner'.pc = "report" /\ scanner'.ip = scanner.ip
      /\ scanner'.urls \in 1..MaxChannels /\ scanner'.reported = 0
  <2>1. PICK n \in 1..MaxChannels : scanner' = Reporting(n)
    OBVIOUS
  <2>2. n \in 0..MaxChannels /\ scanner.reported = 0 /\ scanner \in Scanner
    BY ScannerFields DEF ScanInv, ScannerInv
  <2> QED
    BY <2>1, <2>2 DEF Scanner, Reporting
<1>2. ScannerTypeOK'
  BY <1>1 DEF ScanInv, ScannerTypeOK, cameraVars
<1>3. ScannerInv'
  BY <1>1 DEF ScanInv, ScannerInv, Busy
<1>4. RefusedInv'
  <2> SUFFICES ASSUME NEW i \in Foreign
               PROVE  /\ sunapi_fail_count[i] = 1 => requests[i] <= 2
                      /\ sunapi_fail_count[i] = 0 => requests[i] <= 0
    BY <1>1 DEF RefusedInv
  <2>1. ~(scanner.pc = "single" /\ scanner.ip = i)
    OBVIOUS
  <2> QED
    BY <2>1 DEF ScanInv, RefusedInv
<1> QED
  BY <1>2, <1>3, <1>4 DEF ScanInv

\* One more channel is found.
LEMMA CountStep ==
    ASSUME ScanInv, scanner.pc = "list", scanner.urls + 1 # MaxChannels, scanner.ip \notin Foreign,
           scanner' = [scanner EXCEPT !.urls = @ + 1],
           UNCHANGED <<cameraVars, matches, sunapi_fail_count, requests>>
    PROVE  ScanInv'
<1>1. scanner.urls \in Nat /\ scanner.urls < MaxChannels /\ MaxChannels \in Nat
  BY ScannerFields DEF ScanInv, ScannerInv
<1>2. scanner.urls + 1 \in 0..MaxChannels /\ scanner.urls + 1 < MaxChannels
  BY <1>1
<1>3. scanner' \in Scanner /\ scanner'.pc = "list" /\ scanner'.ip = scanner.ip
      /\ scanner'.urls = scanner.urls + 1 /\ scanner'.reported = scanner.reported
  BY <1>2 DEF ScanInv, ScannerTypeOK, Scanner
<1>4. ScannerTypeOK'
  BY <1>3 DEF ScanInv, ScannerTypeOK, cameraVars
<1>5. ScannerInv'
  BY <1>2, <1>3 DEF ScanInv, ScannerInv, Busy
<1>6. RefusedInv'
  BY <1>3 DEF ScanInv, RefusedInv
<1> QED
  BY <1>4, <1>5, <1>6 DEF ScanInv

\* The first channel is refused, and the request without one follows.
LEMMA SingleStep ==
    ASSUME ScanInv, scanner.pc = "list", scanner.urls = 0,
           scanner' = [scanner EXCEPT !.pc = "single"], Refused(scanner.ip),
           UNCHANGED <<cameraVars, matches, sunapi_fail_count>>
    PROVE  ScanInv'
<1>1. scanner' \in Scanner /\ scanner'.pc = "single" /\ scanner'.ip = scanner.ip
      /\ scanner'.urls = scanner.urls /\ scanner'.reported = scanner.reported
  BY DEF ScanInv, ScannerTypeOK, Scanner
<1>2. scanner.ip \in Ips /\ sunapi_fail_count[scanner.ip] = 0
  BY DEF ScanInv, ScannerInv, Busy
<1>3. /\ requests' \in [Ips -> Nat]
      /\ \A i \in Ips : i # scanner.ip => requests'[i] = requests[i]
      /\ requests'[scanner.ip] \in {requests[scanner.ip], requests[scanner.ip] + 1}
  BY <1>2, ScannerFields DEF Refused, ScanInv
<1>4. ScannerTypeOK'
  BY <1>1, <1>3 DEF ScanInv, ScannerTypeOK, cameraVars
<1>5. ScannerInv'
  BY <1>1 DEF ScanInv, ScannerInv, Busy
<1>6. RefusedInv'
  <2> SUFFICES ASSUME NEW i \in Foreign
               PROVE  /\ sunapi_fail_count[i] = 1 => requests'[i] <= 2
                      /\ sunapi_fail_count[i] = 0 =>
                            requests'[i] <= IF scanner.ip = i THEN 1 ELSE 0
    BY <1>1 DEF RefusedInv
  <2>1. i \in Ips /\ requests[i] \in Nat
    BY ScannerFields DEF ScanInv
  <2>2. CASE i = scanner.ip
    BY <1>2, <1>3, <2>1, <2>2 DEF ScanInv, RefusedInv
  <2>3. CASE i # scanner.ip
    BY <1>3, <2>1, <2>3 DEF ScanInv, RefusedInv
  <2> QED
    BY <2>2, <2>3
<1> QED
  BY <1>4, <1>5, <1>6 DEF ScanInv

LEMMA ReportStep == ScanInv /\ ScannerReports => ScanInv'
<1> SUFFICES ASSUME ScanInv, ScannerReports PROVE ScanInv'
  OBVIOUS
<1>1. scanner.pc = "report" /\ UNCHANGED <<cameraVars, matches, sunapi_fail_count, requests>>
  BY DEF ScannerReports
<1>2. /\ scanner.urls \in Nat /\ scanner.reported \in Nat /\ scanner.reported < scanner.urls
      /\ scanner.urls <= MaxChannels /\ MaxChannels \in Nat
  BY <1>1, ScannerFields DEF ScanInv, ScannerInv
<1>3. /\ scanner' \in Scanner /\ scanner'.pc \notin {"list", "single"}
      /\ \/ scanner'.pc \notin Busy /\ scanner'.urls = 0 /\ scanner'.reported = 0
         \/ /\ scanner'.pc = "report" /\ scanner'.ip = scanner.ip
            /\ scanner'.reported < scanner'.urls
  <2>1. CASE scanner.reported + 1 = scanner.urls
    BY <2>1, ResumedFields DEF ScanInv, ScannerReports, Busy
  <2>2. CASE scanner.reported + 1 # scanner.urls
    <3>1. scanner.reported + 1 \in 0..MaxChannels /\ scanner.reported + 1 < scanner.urls
      BY <1>2, <2>2
    <3>2. scanner' = [scanner EXCEPT !.reported = scanner.reported + 1]
      BY <2>2 DEF ScannerReports
    <3> QED
      BY <1>1, <3>1, <3>2 DEF ScanInv, ScannerTypeOK, Scanner
  <2> QED
    BY <2>1, <2>2
<1>4. ScannerTypeOK'
  BY <1>1, <1>3 DEF ScanInv, ScannerTypeOK, cameraVars
<1>5. ScannerInv'
  BY <1>1, <1>3 DEF ScanInv, ScannerInv, Busy
<1>6. RefusedInv'
  BY <1>1, <1>3 DEF ScanInv, RefusedInv
<1> QED
  BY <1>4, <1>5, <1>6 DEF ScanInv

----------------------------------------------------------------------------
(* The threads.                                                              *)

LEMMA MonitorKeeps ==
    ASSUME TypeOK, MonitorInv, UNCHANGED <<monitor, stop>>,
           devices' \in [Devices -> {"unknown", "online", "offline"}], ScannerTypeOK'
    PROVE  TypeOK' /\ MonitorInv'
BY DEF TypeOK, MonitorInv

LEMMA ScannerThreadSafe == IndInv /\ ScannerThread => IndInv'
<1> SUFFICES ASSUME IndInv, ScannerThread PROVE IndInv'
  OBVIOUS
<1>1. ScanInv /\ ScannerTypeOK
  BY DEF IndInv, ScanInv, TypeOK
<1>2. ScanInv'
  <2> USE DEF Busy
  <2>1. CASE ScannerProbes
    <3>1. matches' \subseteq Ips /\ scanner' = [scanner EXCEPT !.pc = "window", !.todo = scanner.todo]
      BY <1>1, <2>1 DEF ScannerProbes, ScannerTypeOK, Scanner
    <3> QED
      BY <1>1, <2>1, <3>1, LoopStep, ScannerFields DEF ScannerProbes
  <2>2. ASSUME NEW i \in Ips, ScannerMatches(i, IsRegistered(i)) PROVE ScanInv'
    <3>1. matches' \subseteq Ips
      BY <1>1, <2>2 DEF ScannerMatches, ScannerTypeOK
    <3>2. CASE PassedOver(IsRegistered(i), i)
      <4>1. scanner' = [scanner EXCEPT !.pc = "window", !.todo = scanner.todo]
        BY <1>1, <2>2, <3>2 DEF ScannerMatches, ScannerTypeOK, Scanner
      <4> QED
        BY <1>1, <2>2, <3>1, <4>1, LoopStep, ScannerFields DEF ScannerMatches
    <3>3. CASE ~PassedOver(IsRegistered(i), i)
      <4>1. scanner' = [scanner EXCEPT !.pc = "list", !.ip = i, !.arp = FALSE, !.todo = scanner.todo]
        BY <1>1, <2>2, <3>3 DEF ScannerMatches, Asking, ScannerTypeOK, Scanner
      <4> QED
        BY <1>1, <2>2, <3>1, <3>3, <4>1, AskStep, ScannerFields DEF ScannerMatches, PassedOver
    <3> QED
      BY <3>2, <3>3
  <2>3. ASSUME NEW i \in Ips, ScannerTriesArp(i, IsRegistered(i), is_discovering) PROVE ScanInv'
    <3>1. matches' \subseteq Ips /\ scanner.todo \ {i} \in SUBSET Ips
      BY <1>1, <2>3, ScannerFields DEF ScannerTriesArp, ScannerTypeOK
    <3>2. CASE PassedOver(IsRegistered(i), i)
      <4>1. scanner' = [scanner EXCEPT !.pc = "arp", !.todo = scanner.todo \ {i}]
        BY <1>1, <2>3, <3>2 DEF ScannerTriesArp, ScannerTypeOK, Scanner
      <4> QED
        BY <1>1, <2>3, <3>1, <4>1, LoopStep DEF ScannerTriesArp
    <3>3. CASE ~PassedOver(IsRegistered(i), i)
      <4>1. scanner' = [scanner EXCEPT !.pc = "list", !.ip = i, !.arp = TRUE, !.todo = scanner.todo \ {i}]
        BY <1>1, <2>3, <3>3 DEF ScannerTriesArp, Asking, ScannerTypeOK, Scanner
      <4> QED
        BY <1>1, <2>3, <3>1, <3>3, <4>1, AskStep DEF ScannerTriesArp, PassedOver
    <3> QED
      BY <3>2, <3>3
  <2>4. CASE WindowCloses
    <3>1. PICK stale \in SUBSET Ips :
            scanner' = [scanner EXCEPT !.pc = "arp",
                                       !.todo = IF exhausted THEN {} ELSE
                                                stale \cup {i \in Ips : camera[i] # "down"}]
      BY <2>4 DEF WindowCloses
    <3>2. PICK todo \in SUBSET Ips : scanner' = [scanner EXCEPT !.pc = "arp", !.todo = todo]
      BY <3>1
    <3> QED
      BY <1>1, <2>4, <3>2, LoopStep DEF WindowCloses, ScannerTypeOK
  <2>5. CASE ScannerRests(is_discovering)
    <3>1. PICK pc \in {"rest", "ended"} : scanner' = [scanner EXCEPT !.pc = pc, !.todo = {}]
      BY <2>5 DEF ScannerRests
    <3> QED
      BY <1>1, <2>5, <3>1, LoopStep DEF ScannerRests, ScannerTypeOK
  <2>6. CASE ScannerStops(is_discovering)
    <3>1. scanner' = [scanner EXCEPT !.pc = "ended", !.todo = scanner.todo]
      BY <1>1, <2>6 DEF ScannerStops, ScannerTypeOK, Scanner
    <3> QED
      BY <1>1, <2>6, <3>1, LoopStep, ScannerFields DEF ScannerStops, ScannerTypeOK
  <2>7. CASE SunapiLists
    <3>1. /\ scanner.pc = "list" /\ UNCHANGED <<cameraVars, matches, sunapi_fail_count>>
          /\ scanner.urls \in Nat /\ scanner.urls < MaxChannels /\ MaxChannels \in Nat \ {0}
      BY <1>1, <2>7, ScannerFields DEF SunapiLists, ScanInv, ScannerInv
    <3>2. CASE HasChannel(scanner.ip, scanner.urls)
      <4>1. scanner.ip \notin Foreign /\ UNCHANGED requests
        BY <2>7, <3>2 DEF SunapiLists, HasChannel
      <4>2. CASE scanner.urls + 1 = MaxChannels
        <5>1. MaxChannels \in 1..MaxChannels
          BY <3>1
        <5> QED
          BY <1>1, <2>7, <3>1, <3>2, <4>1, <4>2, <5>1, ListedStep DEF SunapiLists
      <4>3. CASE scanner.urls + 1 # MaxChannels
        BY <1>1, <2>7, <3>1, <3>2, <4>1, <4>3, CountStep DEF SunapiLists
      <4> QED
        BY <4>2, <4>3
    <3>3. CASE ~HasChannel(scanner.ip, scanner.urls) /\ scanner.urls = 0
      BY <1>1, <2>7, <3>1, <3>3, SingleStep DEF SunapiLists
    <3>4. CASE ~HasChannel(scanner.ip, scanner.urls) /\ scanner.urls # 0
      <4>1. scanner.ip \notin Foreign
        BY <1>1, <3>1, <3>4 DEF ScanInv, RefusedInv
      <4>2. UNCHANGED requests
        BY <2>7, <3>4, <4>1 DEF SunapiLists, Refused
      <4>3. scanner.urls \in 1..MaxChannels
        BY <3>1, <3>4
      <4> QED
        BY <1>1, <2>7, <3>1, <3>4, <4>2, <4>3, ListedStep DEF SunapiLists
    <3> QED
      BY <3>2, <3>3, <3>4
  <2>8. CASE SunapiUnavailable
    <3>1. scanner.pc = "list" /\ scanner.urls \in 0..MaxChannels /\ MaxChannels \in Nat
      BY <1>1, <2>8, ScannerFields DEF SunapiUnavailable
    <3>2. CASE scanner.urls = 0
      BY <1>1, <2>8, <3>1, <3>2, FailStep DEF SunapiUnavailable
    <3>3. CASE scanner.urls # 0
      <4>1. scanner.urls \in 1..MaxChannels
        BY <3>1, <3>3
      <4> QED
        BY <1>1, <2>8, <3>1, <3>3, <4>1, ListedStep DEF SunapiUnavailable
    <3> QED
      BY <3>2, <3>3
  <2>9. CASE SingleAnswers
    <3>1. 1 \in 1..MaxChannels
      BY <1>1, ScannerFields
    <3>2. scanner.ip \notin Foreign
      BY <2>9 DEF SingleAnswers, HasStream
    <3> QED
      BY <1>1, <2>9, <3>1, <3>2, ListedStep DEF SingleAnswers
  <2>10. CASE SingleFails \/ SingleUnavailable
    <3>1. scanner.urls = 0
      BY <1>1, <2>10 DEF ScanInv, ScannerInv, SingleFails, SingleUnavailable
    <3> QED
      BY <1>1, <2>10, <3>1, FailStep DEF SingleFails, SingleUnavailable
  <2> QED
    BY <2>1, <2>2, <2>3, <2>4, <2>5, <2>6, <2>7, <2>8, <2>9, <2>10 DEF ScannerThread
<1>3. UNCHANGED <<monitor, stop>> /\ devices' \in [Devices -> {"unknown", "online", "offline"}]
  BY DEF ScannerThread, IndInv, TypeOK
<1> QED
  BY <1>2, <1>3, MonitorKeeps DEF IndInv, ScanInv

LEMMA ReportsSafe == IndInv /\ ScannerReportsDevice => IndInv'
<1> SUFFICES ASSUME IndInv, ScannerReportsDevice PROVE IndInv'
  OBVIOUS
<1>1. ScanInv'
  BY ReportStep DEF IndInv, ScanInv, TypeOK, ScannerReportsDevice
<1>2. UNCHANGED <<monitor, stop>> /\ devices' \in [Devices -> {"unknown", "online", "offline"}]
  BY DEF ScannerReportsDevice, OnDeviceFound, IndInv, TypeOK
<1> QED
  BY <1>1, <1>2, MonitorKeeps DEF IndInv, ScanInv

LEMMA MonitorThreadSafe == IndInv /\ MonitorThread => IndInv'
<1> SUFFICES ASSUME IndInv, MonitorThread PROVE IndInv'
  OBVIOUS
<1>1. UNCHANGED <<cameraVars, scannerVars, stop>>
  BY DEF MonitorThread, MonitorSnapshot, MonitorChecks, MonitorApplies, MonitorStops
<1>2. ScannerTypeOK' /\ ScannerInv' /\ RefusedInv'
  BY <1>1 DEF IndInv, TypeOK, ScannerTypeOK, ScannerInv, RefusedInv, cameraVars, scannerVars
<1>3. \A pc \in {"sleep", "check", "ended"} :
        MonitorAt(pc) \in Monitor /\ MonitorAt(pc).checked = {}
        /\ MonitorAt(pc).went_offline = {}
  BY DEF MonitorAt, Monitor
<1>4. monitor' \in Monitor /\ MonitorInv'
  <2>1. CASE MonitorSnapshot
    BY <1>3, <2>1 DEF MonitorSnapshot, MonitorInv, Monitor, MonitorAt
  <2>2. ASSUME NEW d \in Devices, MonitorChecks(d) PROVE monitor' \in Monitor /\ MonitorInv'
    <3>1. monitor \in Monitor /\ d[1] \in Ips /\ Verdict(d[1]) \in BOOLEAN /\ None \notin BOOLEAN
      BY CamerasAssumption DEF IndInv, TypeOK, ScannerTypeOK, Devices, Monitor, Verdict, CheckTcpPort
    <3>2. /\ monitor'.checked = monitor.checked \cup {d}
          /\ monitor'.ip_check_cache = [monitor.ip_check_cache EXCEPT ![d[1]] = Verdict(d[1])]
          /\ monitor'.went_offline = IF Verdict(d[1]) THEN monitor.went_offline
                                     ELSE monitor.went_offline \cup {d}
          /\ monitor'.targets = monitor.targets /\ monitor' \in Monitor
      BY <2>2, <3>1 DEF MonitorChecks, Monitor
    <3>3. d \notin monitor.checked
      BY <2>2 DEF MonitorChecks
    <3>4. monitor'.ip_check_cache[d[1]] = Verdict(d[1])
          /\ \A i \in Ips : i # d[1] => monitor'.ip_check_cache[i] = monitor.ip_check_cache[i]
      BY <3>1, <3>2 DEF Monitor
    <3>5. ASSUME NEW e \in monitor.checked
          PROVE  /\ e \in Devices /\ e[1] \in Ips /\ e # d
                 /\ monitor'.ip_check_cache[e[1]] = monitor.ip_check_cache[e[1]]
                 /\ monitor'.ip_check_cache[e[1]] # None
                 /\ e \in monitor.went_offline <=> ~monitor.ip_check_cache[e[1]]
      BY <3>3, <3>4 DEF IndInv, MonitorInv, Verdict, Devices
    <3>6. d \notin monitor.went_offline
      BY <3>3 DEF IndInv, MonitorInv
    <3>7. MonitorInv'
      <4> SUFFICES ASSUME NEW e \in monitor.checked \cup {d}
                   PROVE  /\ e \in Devices
                          /\ monitor'.ip_check_cache[e[1]] # None
                          /\ e \in monitor'.went_offline <=> ~monitor'.ip_check_cache[e[1]]
        <5>1. monitor'.went_offline \subseteq monitor'.checked
          BY <3>2 DEF IndInv, MonitorInv
        <5> QED
          BY <3>2, <5>1 DEF MonitorInv
      <4>1. CASE e = d
        BY <3>1, <3>2, <3>4, <3>6, <4>1
      <4>2. CASE e # d
        BY <3>2, <3>5, <4>2
      <4> QED
        BY <4>1, <4>2
    <3> QED
      BY <3>2, <3>7
  <2>3. CASE MonitorApplies \/ MonitorStops
    BY <1>3, <2>3 DEF MonitorApplies, MonitorStops, MonitorInv
  <2> QED
    BY <2>1, <2>2, <2>3 DEF MonitorThread
<1>5. devices' \in [Devices -> {"unknown", "online", "offline"}]
  BY DEF MonitorThread, MonitorSnapshot, MonitorChecks, MonitorApplies, MonitorStops, IndInv, TypeOK
<1> QED
  BY <1>1, <1>2, <1>4, <1>5 DEF IndInv, TypeOK

LEMMA StopSafe == IndInv /\ (StopRequested \/ JoinsSubPis \/ JoinsScanner \/ JoinsMonitor) => IndInv'
BY DEF StopRequested, JoinsSubPis, JoinsScanner, JoinsMonitor, IndInv, TypeOK, ScannerTypeOK, ScannerInv, RefusedInv,
   MonitorInv, cameraVars, scannerVars

LEMMA CamerasSafe == IndInv /\ Cameras => IndInv'
<1> SUFFICES ASSUME IndInv, Cameras PROVE IndInv'
  OBVIOUS
<1>1. UNCHANGED <<scannerVars, devices, monitor, stop>>
  BY DEF Cameras, DescriptorsChange, CameraChanges, CameraAnswers
<1>2. /\ camera' \in [Ips -> {"up", "down", "hung"}]
      /\ exhausted' \in BOOLEAN /\ changes' \in 0..MaxChanges
  <2> USE CamerasAssumption DEF IndInv, TypeOK, ScannerTypeOK
  <2>1. CASE DescriptorsChange
    BY <2>1 DEF DescriptorsChange
  <2>2. ASSUME NEW i \in Ips, CameraChanges(i) \/ CameraAnswers(i)
        PROVE  /\ camera' \in [Ips -> {"up", "down", "hung"}]
               /\ exhausted' \in BOOLEAN /\ changes' \in 0..MaxChanges
    BY <2>2 DEF CameraChanges, CameraAnswers
  <2> QED
    BY <2>1, <2>2 DEF Cameras
<1> QED
  BY <1>1, <1>2 DEF IndInv, TypeOK, ScannerTypeOK, ScannerInv, RefusedInv, MonitorInv, scannerVars

LEMMA InitHolds == Init => IndInv
<1> SUFFICES ASSUME Init PROVE IndInv
  OBVIOUS
<1> USE CamerasAssumption DEF Init, ScannerInit
<1>1. ScannerTypeOK
  <2>1. scanner \in Scanner
    <3>1. 0 \in 0..MaxChannels /\ {} \in SUBSET Ips
      OBVIOUS
    <3>2. CASE exhausted
      BY <3>1, <3>2 DEF Scanner
    <3>3. CASE ~exhausted
      BY <3>1, <3>3 DEF Scanner
    <3> QED
      BY <3>2, <3>3
  <2>2. changes \in 0..MaxChanges
    OBVIOUS
  <2>3. exhausted \in BOOLEAN
    <3>1. exhausted = FALSE \/ exhausted = MayExhaust
      OBVIOUS
    <3> QED
      BY <3>1, Zenon
  <2> QED
    BY <2>1, <2>2, <2>3 DEF ScannerTypeOK
<1>2. TypeOK
  BY <1>1 DEF TypeOK, MonitorAt, Monitor
<1>3. ScannerInv /\ RefusedInv
  BY DEF ScannerInv, RefusedInv, Busy
<1>4. MonitorInv
  BY DEF MonitorInv, MonitorAt
<1> QED
  BY <1>2, <1>3, <1>4 DEF IndInv

\* Every reachable state satisfies the invariant.
THEOREM InductiveInvariant == Spec => []IndInv
<1>1. IndInv /\ [Next]_vars => IndInv'
  <2>1. IndInv /\ UNCHANGED vars => IndInv'
    BY DEF vars, IndInv, TypeOK, ScannerTypeOK, ScannerInv, RefusedInv, MonitorInv, cameraVars, scannerVars
  <2> QED
    BY <2>1, ScannerThreadSafe, ReportsSafe, MonitorThreadSafe, StopSafe, CamerasSafe DEF Next
<1> QED
  BY <1>1, InitHolds, PTL DEF Spec

\* Every variable keeps its type; no camera is asked after its first failure.
THEOREM TypeCorrect == Spec => []TypeOK
<1>1. IndInv => TypeOK
  BY DEF IndInv
<1> QED
  BY <1>1, InductiveInvariant, PTL

\* A camera that refuses the credentials is sent no more than the two requests
\* of one attempt, however it was found and whatever fails.
THEOREM ForeignAreSpared == Spec => []ForeignCamerasSpared
<1>1. IndInv => ForeignCamerasSpared
  <2> SUFFICES ASSUME IndInv, NEW i \in Foreign PROVE requests[i] <= 2
    BY DEF ForeignCamerasSpared
  <2>1. sunapi_fail_count[i] \in {0, 1} /\ requests[i] \in Nat
    BY CamerasAssumption DEF IndInv, TypeOK, ScannerTypeOK
  <2> QED
    BY <2>1 DEF IndInv, RefusedInv
<1> QED
  BY <1>1, InductiveInvariant, PTL

\* The channels of one camera share the verdict of a cycle.
THEOREM VerdictsAgree == Spec => []SameVerdict
<1>1. IndInv => SameVerdict
  BY DEF IndInv, MonitorInv, SameVerdict
<1> QED
  BY <1>1, InductiveInvariant, PTL
============================================================================
