---------------------------- MODULE LinkSockets ----------------------------
(* TCP between DeviceServer (port 30000) and ClientServer, both on one host:  *)
(* the connections, what is on its way in each of them, and DeviceServer's    *)
(* table of file descriptors.  Modelled from the calls the code makes:        *)
(* connect, accept, send, recv, select, close.                               *)
EXTENDS Naturals, Sequences

CONSTANTS
    Fds,          \* the descriptor numbers DeviceServer may be given
    None,         \* "no value": -1 for a descriptor
    Other,        \* a descriptor's use by another part of DeviceServer
    Event,        \* the content of an AI, META or IMAGE packet
    MaxConns,     \* bound: connections ClientServer makes
    MaxVersion,   \* bound: versions of the device list
    MaxPieces     \* bound: pieces of packets the kernel buffers

Conns == 1..MaxConns

\* What a packet carries: a version of the device list, or an event.
Content == 0..MaxVersion \cup {Event}

\* sendMessage writes a packet by two sends: its header, then its body.
Piece == [part : {"header", "body"}, content : Content]

ASSUME LinkAssumption ==
    /\ MaxConns \in Nat /\ MaxVersion \in Nat /\ MaxPieces \in Nat \ {0}
    /\ None \notin Fds \cup Conns /\ Other \notin Conns \cup {None}
    /\ Event \notin Nat

VARIABLES
    conn,         \* connection -> its two ends and what is on its way
    lastConn,     \* connections made so far
    fds           \* descriptor -> its connection, Other or None

kernelVars == <<conn, lastConn, fds>>

(* One connection.                                                           *)
(*   client   ClientServer's end is open                                     *)
(*   server   DeviceServer's end: not accepted yet, open or closed           *)
(*   wire     pieces of packets sent to the client and not read yet          *)
(*   command  a motor command is on its way to the server                    *)
Connection == [client : BOOLEAN, server : {"queued", "open", "closed"},
               wire : Seq(Piece), command : BOOLEAN]

Unused == [client |-> FALSE, server |-> "closed", wire |-> <<>>, command |-> FALSE]

LinkTypeOK ==
    /\ conn \in [Conns -> Connection]
    /\ \A i \in Conns : Len(conn[i].wire) <= MaxPieces
    /\ lastConn \in 0..MaxConns
    /\ fds \in [Fds -> Conns \cup {Other, None}]

LinkInit ==
    /\ conn = [i \in Conns |-> Unused]
    /\ lastConn = 0
    /\ fds = [f \in Fds |-> None]

\* A packet sent to descriptor f arrives somewhere: else send() fails at once,
\* or the peer's kernel throws the data away.
Reaches(f) == fds[f] \in Conns /\ conn[fds[f]].client

\* send() returns: it blocks while the buffers of a live connection are full.
SendReturns(f) == Reaches(f) => Len(conn[fds[f]].wire) < MaxPieces

AfterSend(f, piece) ==
    IF Reaches(f) THEN [conn EXCEPT ![fds[f]].wire = Append(@, piece)] ELSE conn

\* The client's end is closed, by close() or because ClientServer ends.
WithoutClient(i) ==
    [conn EXCEPT ![i] = [client |-> FALSE, server |-> conn[i].server,
                         wire |-> <<>>, command |-> FALSE]]

\* The server's end is closed; what was sent can still be read.
WithoutServer(i) == [conn EXCEPT ![i].server = "closed", ![i].command = FALSE]

\* Another part of DeviceServer opens and closes a descriptor.
OthersOpen(f) ==
    /\ fds[f] = None
    /\ fds' = [fds EXCEPT ![f] = Other]
    /\ UNCHANGED <<conn, lastConn>>

OthersClose(f) ==
    /\ fds[f] = Other
    /\ fds' = [fds EXCEPT ![f] = None]
    /\ UNCHANGED <<conn, lastConn>>
============================================================================
