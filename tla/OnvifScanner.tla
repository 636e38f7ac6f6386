---------------------------- MODULE OnvifScanner ----------------------------
(* The scanner thread of DeviceServer for Hanwha cameras (OnvifScanner.cpp):  *)
(* every round it probes by multicast, then goes through the ARP table, asks  *)
(* each camera that is neither online nor banned for its channels, one SUNAPI *)
(* request after the other, and reports what it found.  The cameras are       *)
(* modelled from how the code uses them.                                      *)
EXTENDS Naturals

CONSTANTS
    Ips,          \* addresses of Hanwha cameras
    Foreign,      \* those that refuse the program's credentials
    Streams,      \* address -> channels it has; 0: it knows no channel numbers
    MaxChannels,  \* the scanner asks for channels 0..MaxChannels-1
    MaxChanges,   \* bound: changes of the cameras and of the shortage
    MayExhaust,   \* whether the process may run out of descriptors
    None          \* "no value"

ASSUME CamerasAssumption ==
    /\ Foreign \subseteq Ips
    /\ MaxChannels \in Nat \ {0} /\ MaxChanges \in Nat
    /\ Streams \in [Ips -> 0..MaxChannels]
    /\ MayExhaust \in BOOLEAN
    /\ None \notin Ips \cup BOOLEAN

Channels == 0..MaxChannels-1

VARIABLES
    camera,       \* address -> "up", "down" or "hung": accepts and stays silent
    exhausted,    \* the process has no descriptor left
    changes,      \* changes of the two so far
    matches,      \* ProbeMatch datagrams under way or in the scanner's socket
    scanner,      \* the scanner thread
    sunapi_fail_count,
    requests      \* history: SUNAPI requests that each camera has refused

cameraVars == <<camera, exhausted, changes>>
scannerVars == <<matches, scanner, sunapi_fail_count, requests>>

(* The scanner: its program point; the camera it asks or reports, how many    *)
(* channels it found and reported; the ARP entries it has left; whether the   *)
(* camera came from the ARP table rather than from a ProbeMatch.              *)
Scanner == [pc : {"rest", "window", "list", "single", "report", "arp", "ended"},
            ip : Ips \cup {None}, urls : 0..MaxChannels, reported : 0..MaxChannels,
            todo : SUBSET Ips, arp : BOOLEAN]

ScannerTypeOK ==
    /\ camera \in [Ips -> {"up", "down", "hung"}]
    /\ exhausted \in BOOLEAN
    /\ changes \in 0..MaxChanges
    /\ matches \in SUBSET Ips
    /\ scanner \in Scanner
    /\ sunapi_fail_count \in [Ips -> 0..1]
    /\ requests \in [Ips -> Nat]

\* A thread that gets no socket ends at once.
ScannerInit ==
    /\ camera \in [Ips -> {"up", "down"}]
    /\ exhausted \in {FALSE, MayExhaust}
    /\ changes = 0
    /\ matches = {}
    /\ scanner = [pc |-> IF exhausted THEN "ended" ELSE "rest", ip |-> None,
                  urls |-> 0, reported |-> 0, todo |-> {}, arp |-> FALSE]
    /\ sunapi_fail_count = [i \in Ips |-> 0]
    /\ requests = [i \in Ips |-> 0]

----------------------------------------------------------------------------
(* The cameras.                                                              *)

CameraChanges(i) ==
    /\ changes < MaxChanges
    /\ changes' = changes + 1
    /\ \E s \in {"up", "down", "hung"} \ {camera[i]} : camera' = [camera EXCEPT ![i] = s]
    /\ UNCHANGED <<exhausted, scannerVars>>

\* A camera that hung answers again; not counted, so that it always may.
CameraAnswers(i) ==
    /\ camera[i] = "hung"
    /\ camera' = [camera EXCEPT ![i] = "up"]
    /\ UNCHANGED <<exhausted, changes, scannerVars>>

\* The process runs out of descriptors, or has some again.
DescriptorsChange ==
    /\ MayExhaust
    /\ changes < MaxChanges
    /\ changes' = changes + 1
    /\ exhausted' = ~exhausted
    /\ UNCHANGED <<camera, scannerVars>>

\* What a SUNAPI request for a channel and one without a channel bring.
HasChannel(i, ch) == camera[i] = "up" /\ i \notin Foreign /\ ch < Streams[i]

HasStream(i) == camera[i] = "up" /\ i \notin Foreign

\* curl has a limit for connecting, none for the answer.
CurlReturns(i) == camera[i] # "hung"

Refused(i) == requests' = IF i \in Foreign /\ camera[i] = "up"
                          THEN [requests EXCEPT ![i] = @ + 1] ELSE requests

----------------------------------------------------------------------------
(* runScan and arpFallbackScan.                                              *)

\* Send the Probe; some of the cameras that are up hear it and answer.
ScannerProbes ==
    /\ scanner.pc = "rest"
    /\ \E heard \in SUBSET {i \in Ips : camera[i] = "up"} : matches' = matches \cup heard
    /\ scanner' = [scanner EXCEPT !.pc = "window"]
    /\ UNCHANGED <<cameraVars, sunapi_fail_count, requests>>

\* Mutant: the limit that version_history.md:184 gives.
BannedAfterTwo(i) == sunapi_fail_count[i] >= 2

Banned(i) == sunapi_fail_count[i] >= 1

\* Mutant: the failure count is not looked at.
PassedOverOnline(registered, i) == registered

\* is_registered_ is asked before curl is run, and again for every answer.
PassedOver(registered, i) == registered \/ Banned(i)

Asking(i, arp) == [scanner EXCEPT !.pc = "list", !.ip = i, !.arp = arp]

\* A ProbeMatch is received.
ScannerMatches(i, registered) ==
    /\ scanner.pc = "window"
    /\ i \in matches
    /\ matches' = matches \ {i}
    /\ scanner' = IF PassedOver(registered, i) THEN scanner ELSE Asking(i, FALSE)
    /\ UNCHANGED <<cameraVars, sunapi_fail_count, requests>>

\* Three seconds without an answer; late ones stay in the socket.  fping has
\* every camera that is up enter the ARP table, others may still be in it; the
\* table is a file to open.
WindowCloses ==
    /\ scanner.pc = "window"
    /\ \E stale \in SUBSET Ips :
          scanner' = [scanner EXCEPT !.pc = "arp",
                                     !.todo = IF exhausted THEN {} ELSE
                                              stale \cup {i \in Ips : camera[i] # "down"}]
    /\ UNCHANGED <<cameraVars, matches, sunapi_fail_count, requests>>

\* One entry of the ARP table.
ScannerTriesArp(i, registered, running) ==
    /\ scanner.pc = "arp"
    /\ running
    /\ i \in scanner.todo
    /\ scanner' = [IF PassedOver(registered, i) THEN scanner ELSE Asking(i, TRUE)
                   EXCEPT !.todo = @ \ {i}]
    /\ UNCHANGED <<cameraVars, matches, sunapi_fail_count, requests>>

\* The table is done with, or stop() was called: rest, or end.
ScannerRests(running) ==
    /\ scanner.pc = "arp"
    /\ running => scanner.todo = {}
    /\ scanner' = [scanner EXCEPT !.pc = IF running THEN "rest" ELSE "ended", !.todo = {}]
    /\ UNCHANGED <<cameraVars, matches, sunapi_fail_count, requests>>

\* is_running_ is seen false during the rest.
ScannerStops(running) ==
    /\ scanner.pc = "rest"
    /\ ~running
    /\ scanner' = [scanner EXCEPT !.pc = "ended"]
    /\ UNCHANGED <<cameraVars, matches, sunapi_fail_count, requests>>

\* Back to the loop that found the camera.
Resumed == [scanner EXCEPT !.pc = IF scanner.arp THEN "arp" ELSE "window", !.ip = None,
                           !.urls = 0, !.reported = 0, !.arp = FALSE]

Reporting(n) == [scanner EXCEPT !.pc = "report", !.urls = n]

\* getRtspUrls returns an empty list.
ScannerFails ==
    /\ sunapi_fail_count' = [sunapi_fail_count EXCEPT ![scanner.ip] = @ + 1]
    /\ scanner' = Resumed
    /\ UNCHANGED <<cameraVars, matches>>

\* One request of getRtspUrls; the first that fails ends the list, and a first
\* one that fails is tried again without a channel.
SunapiLists ==
    /\ scanner.pc = "list"
    /\ ~exhausted
    /\ CurlReturns(scanner.ip)
    /\ IF HasChannel(scanner.ip, scanner.urls)
       THEN /\ scanner' = IF scanner.urls + 1 = MaxChannels THEN Reporting(MaxChannels)
                          ELSE [scanner EXCEPT !.urls = @ + 1]
            /\ UNCHANGED requests
       ELSE /\ scanner' = IF scanner.urls = 0 THEN [scanner EXCEPT !.pc = "single"]
                          ELSE Reporting(scanner.urls)
            /\ Refused(scanner.ip)
    /\ UNCHANGED <<cameraVars, matches, sunapi_fail_count>>

\* popen fails: the list is what there is so far.
SunapiUnavailable ==
    /\ scanner.pc = "list"
    /\ exhausted
    /\ IF scanner.urls = 0
       THEN ScannerFails /\ UNCHANGED requests
       ELSE /\ scanner' = Reporting(scanner.urls)
            /\ UNCHANGED <<cameraVars, matches, sunapi_fail_count, requests>>

\* getSingleRtspUrl.
SingleAnswers ==
    /\ scanner.pc = "single"
    /\ ~exhausted
    /\ CurlReturns(scanner.ip)
    /\ HasStream(scanner.ip)
    /\ scanner' = Reporting(1)
    /\ UNCHANGED <<cameraVars, matches, sunapi_fail_count, requests>>

SingleFails ==
    /\ scanner.pc = "single"
    /\ ~exhausted
    /\ CurlReturns(scanner.ip)
    /\ ~HasStream(scanner.ip)
    /\ Refused(scanner.ip)
    /\ ScannerFails

SingleUnavailable ==
    /\ scanner.pc = "single"
    /\ exhausted
    /\ ScannerFails
    /\ UNCHANGED requests

\* on_device_found_ for one channel; what it does is the registry's.
ScannerReports ==
    /\ scanner.pc = "report"
    /\ scanner' = IF scanner.reported + 1 = scanner.urls THEN Resumed
                  ELSE [scanner EXCEPT !.reported = @ + 1]
    /\ UNCHANGED <<cameraVars, matches, sunapi_fail_count, requests>>
============================================================================
