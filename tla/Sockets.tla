------------------------------ MODULE Sockets ------------------------------
(* The operating system and the network as DeviceServer sees them: the       *)
(* process's table of file descriptors, and behind each descriptor the TCP   *)
(* connection to one Sub-Pi (the program on port 5000 that DeviceServer      *)
(* dials after a beacon).  None of this is in the repository; it is modelled *)
(* from the calls the code makes: socket/connect/send (requestStartStream),  *)
(* recv(MSG_PEEK) and a zero-length send (monitorLoop), recvExact            *)
(* (subPiListener), sendExact (sendMotorCommand) and close.                  *)
EXTENDS Naturals, FiniteSets

CONSTANTS
    SubPis,       \* the Sub-Pi devices; a Sub-Pi is its id "SubPi_<ip>"
    Fds,          \* the descriptor numbers the process may be given
    None,         \* "no value": -1 for a descriptor, nullptr for a mount
    MaxUnread,    \* bound: packets waiting in one receive buffer
    MaxCrashes,   \* bound: how often Sub-Pis fail in one behaviour
    Faults        \* the ways in which a Sub-Pi may fail in this model

\* How the other end of a connection may end: an orderly close, a TCP reset,
\* or a power cut / unplugged cable, after which not a single segment arrives.
Endings == {"fin", "reset", "lost"}

\* Faults may also contain "garbage": packets whose JSON does not parse.
\* A frame was given up half sent: the receiver takes what follows for its rest.
Torn == "torn"

ASSUME SocketsAssumption ==
    /\ None \notin Fds /\ None \notin SubPis /\ None \notin Nat
    /\ Torn \notin SubPis /\ None # Torn
    /\ MaxUnread \in Nat \ {0} /\ MaxCrashes \in Nat
    /\ Faults \subseteq Endings \cup {"garbage"}

(* One established connection.                                               *)
(*   dev    the Sub-Pi at the other end                                      *)
(*   peer   what that end has done: still open, or one of Endings            *)
(*   unread packets it sent that the process has not read                    *)
(*   port   the UDP port START_STREAM told it to stream to                   *)
(*   cmd    the Sub-Pi meant by the motor command whose header has been      *)
(*          written here and whose body has not, or None; Torn for good      *)
(*          once a frame was given up half sent                             *)
Connection == [dev : SubPis, peer : {"open"} \cup Endings,
               unread : 0..MaxUnread, port : Nat, cmd : SubPis \cup {None, Torn}]

ASSUME NoneIsNoConnection == None \notin Connection

VARIABLES
    sock,         \* descriptor -> the connection behind it, or None if closed
    up,           \* the Sub-Pis that run and send beacons
    crashes       \* failures so far, only to bound them

kernelVars == <<sock, up, crashes>>

SocketsTypeOK ==
    /\ sock \in [Fds -> Connection \cup {None}]
    /\ up \in SUBSET SubPis
    /\ crashes \in 0..MaxCrashes

SocketsInit ==
    /\ sock = [f \in Fds |-> None]
    /\ up = {}
    /\ crashes = 0

IsOpen(f) == f # None /\ sock[f] # None

\* socket() and connect(): any free number may come back, because the rest of
\* the process opens and closes descriptors all the time.
NewConnection(d, port) ==
    [dev |-> d, peer |-> "open", unread |-> 0, port |-> port, cmd |-> None]

AfterClose(fds) == [f \in Fds |-> IF f \in fds THEN None ELSE sock[f]]

\* recv(MSG_PEEK | MSG_DONTWAIT) = 0, or an error other than EAGAIN.  A byte
\* that waits in the buffer is returned whatever the peer has done since.
PeekSeesEnd(f) ==
    IsOpen(f) => sock[f].unread = 0 /\ sock[f].peer \in {"fin", "reset"}

\* send() of zero bytes: an error on a closed descriptor and after a reset; it
\* puts no segment on the wire, so it learns nothing new.
ZeroSendFails(f) == IsOpen(f) => sock[f].peer = "reset"

----------------------------------------------------------------------------
(* Steps of the environment.                                                 *)

\* A Sub-Pi is switched on (or comes back) and starts to broadcast beacons.
Boot(d) ==
    /\ d \notin up
    /\ up' = up \cup {d}
    /\ UNCHANGED <<sock, crashes>>

\* A Sub-Pi's program ends, is reset, or loses power: all its connections end.
Crash(d, how) ==
    /\ d \in up
    /\ crashes < MaxCrashes
    /\ crashes' = crashes + 1
    /\ up' = up \ {d}
    /\ sock' = [f \in Fds |->
                  IF IsOpen(f) /\ sock[f].dev = d /\ sock[f].peer = "open"
                  THEN [sock[f] EXCEPT !.peer = how]
                  ELSE sock[f]]

\* A Sub-Pi sends one packet (AI, IMAGE, META, AVAILABLE) on a connection.
SubPiSends(f) ==
    /\ IsOpen(f)
    /\ sock[f].peer = "open"
    /\ sock[f].unread < MaxUnread
    /\ sock' = [sock EXCEPT ![f].unread = @ + 1]
    /\ UNCHANGED <<up, crashes>>

Environment ==
    \/ \E d \in SubPis : Boot(d)
    \/ \E d \in SubPis, how \in Faults \cap Endings : Crash(d, how)
    \/ \E f \in Fds : SubPiSends(f)
============================================================================
