--------------------------- MODULE InternalClient ---------------------------
(* ClientServer's side of the link: the thread that connects, reconnects and  *)
(* reads, the cached list, and the commands that Qt clients' threads send.    *)
EXTENDS LinkSockets

VARIABLES
    client,         \* the connection thread
    current_fd,     \* the connection that commands and stop() use, or None
    cache           \* version of the cached list; 0 is the initial, empty one

clientVars == <<client, current_fd, cache>>

(* The connection thread.                                                    *)
(*   pc    connecting, waiting to retry, storing current_fd_, reading a       *)
(*         header or a body, in an event's callback, resetting current_fd_,  *)
(*         closing                                                           *)
(*   sock  its connection, or None                                           *)
(*   torn  it reads out of step with the packets                             *)
Client == [pc : {"connect", "wait", "set", "read", "body", "callback", "reset", "close"},
           sock : Conns \cup {None}, torn : BOOLEAN]

ClientStart == [pc |-> "connect", sock |-> None, torn |-> FALSE]

ClientTypeOK ==
    /\ client \in Client
    /\ current_fd \in Conns \cup {None}
    /\ cache \in 0..MaxVersion

ClientInit ==
    /\ client = ClientStart
    /\ current_fd = None
    /\ cache = 0

ClientAt(pc, torn) == client' = [pc |-> pc, sock |-> client.sock, torn |-> torn]

----------------------------------------------------------------------------
(* connectionLoop.                                                           *)

ClientConnects ==
    /\ client.pc = "connect"
    /\ lastConn < MaxConns
    /\ lastConn' = lastConn + 1
    /\ conn' = [conn EXCEPT ![lastConn + 1] =
                  [client |-> TRUE, server |-> "queued", wire |-> <<>>, command |-> FALSE]]
    /\ client' = [pc |-> "set", sock |-> lastConn + 1, torn |-> FALSE]
    /\ UNCHANGED <<current_fd, cache, fds>>

\* connect() fails: wait three seconds.
ClientConnectFails ==
    /\ client.pc = "connect"
    /\ ClientAt("wait", FALSE)
    /\ UNCHANGED <<current_fd, cache, kernelVars>>

ClientRetries ==
    /\ client.pc = "wait"
    /\ ClientAt("connect", FALSE)
    /\ UNCHANGED <<current_fd, cache, kernelVars>>

ClientStoresFd ==
    /\ client.pc = "set"
    /\ current_fd' = client.sock
    /\ ClientAt("read", FALSE)
    /\ UNCHANGED <<cache, kernelVars>>

ClientResetsFd ==
    /\ client.pc = "reset"
    /\ current_fd' = None
    /\ ClientAt("close", client.torn)
    /\ UNCHANGED <<cache, kernelVars>>

ClientCloses ==
    /\ client.pc = "close"
    /\ conn' = WithoutClient(client.sock)
    /\ client' = ClientStart
    /\ UNCHANGED <<current_fd, cache, lastConn, fds>>

----------------------------------------------------------------------------
(* handleIncoming and dispatchPushEvent.                                     *)

Wire == conn[client.sock].wire

WireEnds == Wire = <<>> /\ conn[client.sock].server = "closed"

TakePiece == conn' = [conn EXCEPT ![client.sock].wire = Tail(@)]

\* Five bytes that are a packet's header.
ClientReadsHeader ==
    /\ client.pc = "read"
    /\ Wire # <<>>
    /\ Head(Wire).part = "header"
    /\ TakePiece
    /\ ClientAt("body", FALSE)
    /\ UNCHANGED <<current_fd, cache, lastConn, fds>>

\* Bytes out of step with the packets: their "length" is rejected or their
\* "body" does not parse, and reading goes on.  Nothing brings the reader back
\* in step but a header that happens to start where it reads next.
ClientReadsGarbage ==
    /\ client.pc = "read"
    /\ Wire # <<>>
    /\ client.torn \/ Head(Wire).part = "body"
    /\ TakePiece
    /\ ClientAt("read", TRUE)
    /\ UNCHANGED <<current_fd, cache, lastConn, fds>>

\* Mutant: the parsed list is assigned to a copy of the cache.
ClientLosesList ==
    /\ client.pc = "body"
    /\ Wire # <<>>
    /\ Head(Wire).part = "body"
    /\ Head(Wire).content # Event
    /\ TakePiece
    /\ ClientAt("read", FALSE)
    /\ UNCHANGED <<current_fd, cache, lastConn, fds>>

\* A list's body: the cache is replaced.
ClientReadsList ==
    /\ client.pc = "body"
    /\ Wire # <<>>
    /\ Head(Wire).part = "body"
    /\ Head(Wire).content # Event
    /\ TakePiece
    /\ cache' = Head(Wire).content
    /\ ClientAt("read", FALSE)
    /\ UNCHANGED <<current_fd, lastConn, fds>>

\* An event's body: the callback that sends it to the Qt clients.
ClientReadsEvent ==
    /\ client.pc = "body"
    /\ Wire # <<>>
    /\ Head(Wire) = [part |-> "body", content |-> Event]
    /\ TakePiece
    /\ ClientAt("callback", FALSE)
    /\ UNCHANGED <<current_fd, cache, lastConn, fds>>

ClientCallbackReturns ==
    /\ client.pc = "callback"
    /\ ClientAt("read", FALSE)
    /\ UNCHANGED <<current_fd, cache, kernelVars>>

\* Another packet's header where the body should be: the JSON does not parse.
ClientReadsTorn ==
    /\ client.pc = "body"
    /\ Wire # <<>>
    /\ Head(Wire).part = "header"
    /\ TakePiece
    /\ ClientAt("read", TRUE)
    /\ UNCHANGED <<current_fd, cache, lastConn, fds>>

\* Mutant: current_fd_ is not reset.
ClientLeavesFd ==
    /\ client.pc \in {"read", "body"}
    /\ WireEnds
    /\ ClientAt("close", client.torn)
    /\ UNCHANGED <<current_fd, cache, kernelVars>>

\* recv returns 0 or an error.
ClientDisconnected ==
    /\ client.pc \in {"read", "body"}
    /\ WireEnds
    /\ ClientAt("reset", client.torn)
    /\ UNCHANGED <<current_fd, cache, kernelVars>>

----------------------------------------------------------------------------
\* sendDeviceCommand, on the thread of a Qt client, under fd_mutex_.
ClientSendsCommand ==
    /\ current_fd # None
    /\ conn[current_fd].server # "closed"
    /\ ~conn[current_fd].command
    /\ conn' = [conn EXCEPT ![current_fd].command = TRUE]
    /\ UNCHANGED <<clientVars, lastConn, fds>>

\* ClientServer ends and starts again: the kernel closes its connection.
ClientServerRestarts ==
    /\ client.sock # None
    /\ conn' = WithoutClient(client.sock)
    /\ client' = ClientStart
    /\ current_fd' = None
    /\ cache' = 0
    /\ UNCHANGED <<lastConn, fds>>
============================================================================
