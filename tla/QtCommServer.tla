---------------------------- MODULE QtCommServer ----------------------------
(* ClientServer's side towards the Qt clients: the accept loop, one handler    *)
(* per client with its TLS session and its role, replies, broadcasts from two *)
(* other threads, and the reaping of finished handlers.  Three mutexes guard  *)
(* five maps keyed by descriptor numbers, which the kernel reuses.           *)
EXTENDS Naturals, Sequences, FiniteSets, Subsequences

CONSTANTS
    Fds,          \* descriptor numbers of the process
    None,         \* "no value"
    Reserved,     \* a number that accept() has taken and not yet returned
    Casters,      \* the threads that broadcast: MainLoop and InternalClient's
    MainLoop,     \* ClientController::run's thread: status every five seconds
    TlsModes,     \* TRUE: initTLS made a context; FALSE: it failed
    Requests,     \* what Qt clients ask: "LOGIN", "AI", "malformed", "other"
    MaxConns,     \* bound: connections that Qt clients make
    MaxStalls,    \* bound: how often clients stop reading
    SslFails,     \* whether SSL_new may fail
    Signals       \* what SIGINT may find the main thread at: "idle", "busy"

Conns == 1..MaxConns
Threads == Fds \cup Casters  \* a handler thread is named by its descriptor

ASSUME QtAssumption ==
    /\ MaxConns \in Nat /\ MaxStalls \in Nat /\ SslFails \in BOOLEAN
    /\ MainLoop \in Casters /\ TlsModes \subseteq BOOLEAN
    /\ Signals \subseteq {"idle", "busy"}
    /\ Requests \subseteq {"LOGIN", "AI", "malformed", "other"}
    /\ Fds \cap (Casters \cup Conns) = {}
    /\ None \notin Fds \cup Conns \cup Casters
    /\ Reserved \notin Conns \cup {None}

VARIABLES
    conn,         \* connection -> its ends
    lastConn,     \* connections made so far
    stalls,       \* how often clients have stopped reading
    fds,          \* descriptor -> connection, Reserved or None
    tls,          \* tls_ctx_ # nullptr
    stop,         \* how far ClientController::stop has come
    acceptor,     \* the accept thread
    handler,      \* client_threads_: program point of each handler
    client_fds,   \* descriptors that broadcasts go to
    client_roles, \* descriptor -> the connection that logged in on it, or None
    tls_sessions, \* descriptor -> its TLS session, or None
    finished_fds, \* descriptors whose handlers have ended
    client_mutex, \* the thread that holds it across sends, or None
    tls_mutex,    \* the thread that holds it across sends, or None
    task          \* what each thread is sending

socketVars == <<conn, lastConn, stalls, fds>>
maps == <<client_fds, client_roles, tls_sessions, finished_fds>>
locks == <<client_mutex, tls_mutex>>
flags == <<tls, stop>>
vars == <<socketVars, flags, acceptor, handler, maps, locks, task>>

\* One connection: the client's end is open, it reads what it is sent, the
\* server's end, and whether a status list has arrived.
Connection == [client : BOOLEAN, reads : BOOLEAN, server : {"queued", "open", "closed"},
               status : BOOLEAN]

\* A TLS session: the connection it was made for and the client's handshake
\* flights it has processed; after the second it is done.
Session == [of : Conns \cup {None}, flights : 0..2]

ASSUME NoneIsNoSession == None \notin Session

(* One thread's sending.                                                     *)
(*   kind  "reply" to its own client, "all" for broadcast(), "role" for        *)
(*         broadcastToRole(), broadcastByRole() and broadcastImage()         *)
(*   todo  descriptors still to send to                                      *)
(*   at    waiting for client_mutex_, choosing how to send to the next one,    *)
(*         or before the header or the body of an encrypted or plain packet  *)
Task == [kind : {"none", "reply", "all", "role"}, todo : Seq(Fds),
         at : {"idle", "lock", "lookup", "record", "recordbody", "plain", "plainbody"}]

NoTask == [kind |-> "none", todo |-> <<>>, at |-> "idle"]

HandlerPoints == {"none", "session", "recv", "handshake", "rawbody", "role", "send",
                  "close", "unlist", "unsession", "finish", "done"}

\* Every variable keeps its type.
TypeOK ==
    /\ conn \in [Conns -> Connection]
    /\ lastConn \in 0..MaxConns /\ stalls \in 0..MaxStalls
    /\ fds \in [Fds -> Conns \cup {Reserved, None}]
    /\ tls \in BOOLEAN
    /\ stop \in {"running", "link", "server", "clients", "sessions", "acceptor",
                 "handlers", "stopped"}
    /\ acceptor \in [pc : {"cleanup", "enter", "blocked", "list", "spawn", "ended", "aborted"},
                     fd : Fds \cup {None}]
    /\ handler \in [Fds -> HandlerPoints]
    /\ client_fds \in Seq(Fds)
    /\ client_roles \in [Fds -> Conns \cup {None}]
    /\ tls_sessions \in [Fds -> Session \cup {None}]
    /\ finished_fds \in SUBSET Fds
    /\ client_mutex \in Threads \cup {None}
    /\ tls_mutex \in Threads \cup {None}
    /\ task \in [Threads -> Task]

\* After start(), with or without a TLS context (initTLS may fail).
Init ==
    /\ conn = [i \in Conns |-> [client |-> FALSE, reads |-> TRUE, server |-> "closed",
                                status |-> FALSE]]
    /\ lastConn = 0 /\ stalls = 0
    /\ fds = [f \in Fds |-> None]
    /\ tls \in TlsModes
    /\ stop = "running"
    /\ acceptor = [pc |-> "cleanup", fd |-> None]
    /\ handler = [f \in Fds |-> "none"]
    /\ client_fds = <<>>
    /\ client_roles = [f \in Fds |-> None]
    /\ tls_sessions = [f \in Fds |-> None]
    /\ finished_fds = {}
    /\ client_mutex = None /\ tls_mutex = None
    /\ task = [t \in Threads |-> NoTask]

\* The server's is_running_, and its listening socket is open.
is_running == stop \in {"running", "link"}

Listening == is_running \/ stop = "server"

----------------------------------------------------------------------------
(* Sockets.                                                                  *)

Reaches(f) == fds[f] \in Conns /\ conn[fds[f]].client

\* send() blocks while a live client does not read: the buffer is full.
SendReturns(f) == Reaches(f) => conn[fds[f]].reads

\* A Qt client connects; stops reading; goes on; disconnects.
ClientConnects ==
    /\ lastConn < MaxConns
    /\ Listening
    /\ lastConn' = lastConn + 1
    /\ conn' = [conn EXCEPT ![lastConn + 1] = [client |-> TRUE, reads |-> TRUE,
                                               server |-> "queued", status |-> FALSE]]
    /\ UNCHANGED <<stalls, fds, flags, acceptor, handler, maps, locks, task>>

ClientStalls(i) ==
    /\ conn[i].client /\ conn[i].reads
    /\ stalls < MaxStalls
    /\ stalls' = stalls + 1
    /\ conn' = [conn EXCEPT ![i].reads = FALSE]
    /\ UNCHANGED <<lastConn, fds, flags, acceptor, handler, maps, locks, task>>

ClientResumes(i) ==
    /\ conn[i].client /\ ~conn[i].reads
    /\ conn' = [conn EXCEPT ![i].reads = TRUE]
    /\ UNCHANGED <<lastConn, stalls, fds, flags, acceptor, handler, maps, locks, task>>

ClientLeaves(i) ==
    /\ conn[i].client
    /\ conn' = [conn EXCEPT ![i].client = FALSE, ![i].reads = TRUE]
    /\ UNCHANGED <<lastConn, stalls, fds, flags, acceptor, handler, maps, locks, task>>

\* close() of some descriptors, those closed already included.
Closes(F) ==
    /\ conn' = [i \in Conns |-> IF \E f \in F : fds[f] = i
                                THEN [conn[i] EXCEPT !.server = "closed"] ELSE conn[i]]
    /\ fds' = [f \in Fds |-> IF f \in F THEN None ELSE fds[f]]

----------------------------------------------------------------------------
(* acceptLoop.                                                               *)

AcceptorAt(pc, f) == acceptor' = [pc |-> pc, fd |-> f]

\* A handler's loop: receive the next packet, or leave.
Again == IF is_running THEN "recv" ELSE "close"

\* cleanupFinishedThreads: swap the set, join and erase outside finished_mutex_.
AcceptorCleansUp ==
    /\ acceptor.pc = "cleanup"
    /\ is_running
    /\ \A f \in finished_fds : handler[f] \in {"none", "done"}
    /\ AcceptorAt("enter", None)
    /\ handler' = [f \in Fds |-> IF f \in finished_fds THEN "none" ELSE handler[f]]
    /\ finished_fds' = {}
    /\ UNCHANGED <<socketVars, flags, client_fds, client_roles, tls_sessions, locks, task>>

\* The loop's condition, seen after stop().
AcceptorStops ==
    /\ acceptor.pc = "cleanup"
    /\ ~is_running
    /\ AcceptorAt("ended", None)
    /\ UNCHANGED <<socketVars, flags, handler, maps, locks, task>>

\* accept(): the kernel reserves a descriptor number before it waits.
AcceptorEnters(f) ==
    /\ acceptor.pc = "enter"
    /\ Listening
    /\ fds[f] = None
    /\ AcceptorAt("blocked", f)
    /\ fds' = [fds EXCEPT ![f] = Reserved]
    /\ UNCHANGED <<conn, lastConn, stalls, flags, handler, maps, locks, task>>

\* Mutant: accept's result is not checked.
AcceptorUnchecked ==
    /\ acceptor.pc = "enter"
    /\ \A f \in Fds : fds[f] # None
    /\ AcceptorAt("list", None)
    /\ UNCHANGED <<socketVars, flags, handler, maps, locks, task>>

\* accept() fails for want of a descriptor or of a socket: the loop ends.
AcceptorFails ==
    /\ acceptor.pc = "enter"
    /\ Listening => \A f \in Fds : fds[f] # None
    /\ AcceptorAt("ended", None)
    /\ UNCHANGED <<socketVars, flags, handler, maps, locks, task>>

\* The listening socket is shut down under accept().
AcceptorIsInterrupted ==
    /\ acceptor.pc = "blocked"
    /\ ~Listening
    /\ AcceptorAt("ended", None)
    /\ fds' = [fds EXCEPT ![acceptor.fd] = None]
    /\ UNCHANGED <<conn, lastConn, stalls, flags, handler, maps, locks, task>>

AcceptorReturns ==
    /\ acceptor.pc = "blocked"
    /\ \E i \in Conns :
          /\ conn[i].server = "queued"
          /\ \A j \in 1..i-1 : conn[j].server # "queued"
          /\ conn' = [conn EXCEPT ![i].server = "open"]
          /\ fds' = [fds EXCEPT ![acceptor.fd] = i]
    /\ AcceptorAt("list", acceptor.fd)
    /\ UNCHANGED <<lastConn, stalls, flags, handler, maps, locks, task>>

AcceptorLists ==
    /\ acceptor.pc = "list"
    /\ client_mutex = None
    /\ client_fds' = Append(client_fds, acceptor.fd)
    /\ AcceptorAt("spawn", acceptor.fd)
    /\ UNCHANGED <<socketVars, flags, handler, client_roles, tls_sessions, finished_fds, locks, task>>

\* Storing a thread over one that has not been joined calls std::terminate.
AcceptorSpawns ==
    /\ acceptor.pc = "spawn"
    /\ IF handler[acceptor.fd] = "none"
       THEN /\ handler' = [handler EXCEPT ![acceptor.fd] = IF tls THEN "session" ELSE Again]
            /\ AcceptorAt("cleanup", None)
       ELSE AcceptorAt("aborted", None) /\ UNCHANGED handler
    /\ UNCHANGED <<socketVars, flags, maps, locks, task>>

----------------------------------------------------------------------------
(* clientHandler.                                                            *)

HandlerAt(f, pc) == handler' = [handler EXCEPT ![f] = pc]

\* emplace() leaves a session alone that is there already.
HandlerMakesSession(f) ==
    /\ handler[f] = "session"
    /\ tls_mutex = None
    /\ tls_sessions' = [tls_sessions EXCEPT ![f] =
                           IF @ = None THEN [of |-> fds[f], flights |-> 0] ELSE @]
    /\ HandlerAt(f, Again)
    /\ UNCHANGED <<socketVars, flags, acceptor, client_fds, client_roles, finished_fds, locks, task>>

\* SSL_new fails: close and return at once.
HandlerGivesUp(f) ==
    /\ SslFails
    /\ handler[f] = "session"
    /\ tls_mutex = None
    /\ tls_sessions' = [tls_sessions EXCEPT ![f] =
                           IF @ = None THEN [of |-> fds[f], flights |-> 0] ELSE @]
    /\ Closes({f})
    /\ HandlerAt(f, "done")
    /\ UNCHANGED <<lastConn, stalls, flags, acceptor, client_fds, client_roles, finished_fds, locks, task>>

Receives(f) == handler[f] = "recv" /\ Reaches(f)

HandshakeDone(f) == tls_sessions[f] # None /\ tls_sessions[f].flights = 2

\* A HANDSHAKE packet: the session is fed under tls_mutex_, its answer is sent
\* after unlocking.
HandlerShakesHands(f) ==
    /\ Receives(f)
    /\ tls
    /\ tls_sessions[f] # None /\ ~HandshakeDone(f)
    /\ tls_mutex = None
    /\ tls_sessions' = [tls_sessions EXCEPT ![f].flights = @ + 1]
    /\ HandlerAt(f, "handshake")
    /\ UNCHANGED <<socketVars, flags, acceptor, client_fds, client_roles, finished_fds, locks, task>>

\* sendRaw takes no lock.
HandlerSendsRaw(f) ==
    /\ handler[f] \in {"handshake", "rawbody"}
    /\ SendReturns(f)
    /\ HandlerAt(f, IF handler[f] = "handshake" /\ Reaches(f) THEN "rawbody" ELSE Again)
    /\ UNCHANGED <<socketVars, flags, acceptor, maps, locks, task>>

\* A packet that is too long, or not a HANDSHAKE before the handshake is done.
HandlerRejects(f) ==
    /\ "malformed" \in Requests
    /\ Receives(f)
    /\ HandlerAt(f, "close")
    /\ UNCHANGED <<socketVars, flags, acceptor, maps, locks, task>>

\* A message: after the handshake, decrypted under tls_mutex_.
Hears(f, request) ==
    /\ request \in Requests
    /\ Receives(f)
    /\ tls => HandshakeDone(f) /\ tls_mutex = None

\* One that is answered with one packet, a LOGIN that fails included.
HandlerReplies(f) ==
    /\ Hears(f, "other")
    /\ HandlerAt(f, "send")
    /\ task' = [task EXCEPT ![f] = [kind |-> "reply", todo |-> <<f>>, at |-> "lookup"]]
    /\ UNCHANGED <<socketVars, flags, acceptor, maps, locks>>

\* AI: broadcast to everyone.
HandlerBroadcasts(f) ==
    /\ Hears(f, "AI")
    /\ HandlerAt(f, "send")
    /\ task' = [task EXCEPT ![f] = [kind |-> "all", todo |-> <<>>, at |-> "lock"]]
    /\ UNCHANGED <<socketVars, flags, acceptor, maps, locks>>

\* LOGIN that succeeds: the role, then SUCCESS and CAMERA.
HandlerLogsIn(f) ==
    /\ Hears(f, "LOGIN")
    /\ HandlerAt(f, "role")
    /\ UNCHANGED <<socketVars, flags, acceptor, maps, locks, task>>

HandlerSetsRole(f) ==
    /\ handler[f] = "role"
    /\ client_mutex = None
    /\ client_roles' = [client_roles EXCEPT ![f] = fds[f]]
    /\ HandlerAt(f, "send")
    /\ task' = [task EXCEPT ![f] = [kind |-> "reply", todo |-> <<f, f>>, at |-> "lookup"]]
    /\ UNCHANGED <<socketVars, flags, acceptor, client_fds, tls_sessions, finished_fds, locks>>

HandlerDisconnected(f) ==
    /\ handler[f] = "recv"
    /\ ~Reaches(f)
    /\ HandlerAt(f, "close")
    /\ UNCHANGED <<socketVars, flags, acceptor, maps, locks, task>>

\* Mutant: the handler announces its end before it cleans up.
HandlerAnnouncesEarly(f) ==
    /\ handler[f] = "close"
    /\ Closes({f})
    /\ finished_fds' = finished_fds \cup {f}
    /\ HandlerAt(f, "unlist")
    /\ UNCHANGED <<lastConn, stalls, flags, acceptor, client_fds, client_roles, tls_sessions, locks, task>>

HandlerCloses(f) ==
    /\ handler[f] = "close"
    /\ Closes({f})
    /\ HandlerAt(f, "unlist")
    /\ UNCHANGED <<lastConn, stalls, flags, acceptor, maps, locks, task>>

\* Mutant: the descriptor stays in the list of those to send to.
HandlerStaysListed(f) ==
    /\ handler[f] = "unlist"
    /\ client_mutex = None
    /\ client_roles' = [client_roles EXCEPT ![f] = None]
    /\ HandlerAt(f, "unsession")
    /\ UNCHANGED <<socketVars, flags, acceptor, client_fds, tls_sessions, finished_fds, locks, task>>

\* Mutant: descriptor and role are erased without client_mutex_.
HandlerUnlistsUnlocked(f) ==
    /\ handler[f] = "unlist"
    /\ client_fds' = Keep(client_fds, Fds \ {f})
    /\ client_roles' = [client_roles EXCEPT ![f] = None]
    /\ HandlerAt(f, "unsession")
    /\ UNCHANGED <<socketVars, flags, acceptor, tls_sessions, finished_fds, locks, task>>

HandlerUnlists(f) ==
    /\ handler[f] = "unlist"
    /\ client_mutex = None
    /\ client_fds' = Keep(client_fds, Fds \ {f})
    /\ client_roles' = [client_roles EXCEPT ![f] = None]
    /\ HandlerAt(f, "unsession")
    /\ UNCHANGED <<socketVars, flags, acceptor, tls_sessions, finished_fds, locks, task>>

\* Mutant: the session is not erased.
HandlerKeepsSession(f) ==
    /\ handler[f] = "unsession"
    /\ HandlerAt(f, "finish")
    /\ UNCHANGED <<socketVars, flags, acceptor, maps, locks, task>>

HandlerDropsSession(f) ==
    /\ handler[f] = "unsession"
    /\ tls_mutex = None
    /\ tls_sessions' = [tls_sessions EXCEPT ![f] = None]
    /\ HandlerAt(f, "finish")
    /\ UNCHANGED <<socketVars, flags, acceptor, client_fds, client_roles, finished_fds, locks, task>>

HandlerFinishes(f) ==
    /\ handler[f] = "finish"
    /\ finished_fds' = finished_fds \cup {f}
    /\ HandlerAt(f, "done")
    /\ UNCHANGED <<socketVars, flags, acceptor, client_fds, client_roles, tls_sessions, locks, task>>

----------------------------------------------------------------------------
(* Replies and broadcasts: sendMessage and sendImageMessage, one descriptor    *)
(* after the other.                                                          *)

CastStarts(c, kind) ==
    /\ task[c].at = "idle"
    /\ stop = "running"
    /\ c = MainLoop => kind = "role"
    /\ task' = [task EXCEPT ![c] = [kind |-> kind, todo |-> <<>>, at |-> "lock"]]
    /\ UNCHANGED <<socketVars, flags, acceptor, handler, maps, locks>>

CastLocks(t) ==
    /\ task[t].at = "lock"
    /\ client_mutex = None
    /\ client_mutex' = t
    /\ task' = [task EXCEPT ![t].todo = client_fds, ![t].at = "lookup"]
    /\ UNCHANGED <<socketVars, flags, acceptor, handler, maps, tls_mutex>>

Target(t) == Head(task[t].todo)

NextTarget(t) == [task EXCEPT ![t].todo = Tail(@), ![t].at = "lookup"]

\* Nobody has logged in there.
CastSkips(t) ==
    /\ task[t].at = "lookup" /\ task[t].todo # <<>>
    /\ task[t].kind = "role" /\ client_roles[Target(t)] = None
    /\ task' = NextTarget(t)
    /\ UNCHANGED <<socketVars, flags, acceptor, handler, maps, locks>>

\* Mutant: tls_mutex_ is released once the packet is encrypted.
SendEncryptsOnly(t) ==
    /\ task[t].at = "lookup" /\ task[t].todo # <<>>
    /\ task[t].kind = "role" => client_roles[Target(t)] # None
    /\ tls_mutex = None
    /\ task' = [task EXCEPT ![t].at = IF HandshakeDone(Target(t)) THEN "record" ELSE "plain"]
    /\ UNCHANGED <<socketVars, flags, acceptor, handler, maps, locks>>

\* Under tls_mutex_: encrypt if the handshake is done, and keep the lock; else
\* send as plain text without it.
SendLooksUp(t) ==
    /\ task[t].at = "lookup" /\ task[t].todo # <<>>
    /\ task[t].kind = "role" => client_roles[Target(t)] # None
    /\ tls_mutex = None
    /\ IF HandshakeDone(Target(t))
       THEN tls_mutex' = t /\ task' = [task EXCEPT ![t].at = "record"]
       ELSE task' = [task EXCEPT ![t].at = "plain"] /\ UNCHANGED tls_mutex
    /\ UNCHANGED <<socketVars, flags, acceptor, handler, maps, client_mutex>>

\* Mutant: a send that fails returns with tls_mutex_ locked.
SendGivesUpLocked(t) ==
    /\ task[t].at \in {"record", "plain"}
    /\ SendReturns(Target(t))
    /\ task' = IF Reaches(Target(t))
               THEN [task EXCEPT ![t].at = IF @ = "record" THEN "recordbody" ELSE "plainbody"]
               ELSE NextTarget(t)
    /\ UNCHANGED <<socketVars, flags, acceptor, handler, maps, locks>>

SendsHeader(t) ==
    /\ task[t].at \in {"record", "plain"}
    /\ SendReturns(Target(t))
    /\ IF Reaches(Target(t))
       THEN /\ task' = [task EXCEPT ![t].at = IF @ = "record" THEN "recordbody" ELSE "plainbody"]
            /\ UNCHANGED tls_mutex
       ELSE /\ task' = NextTarget(t)
            /\ tls_mutex' = IF tls_mutex = t THEN None ELSE tls_mutex
    /\ UNCHANGED <<socketVars, flags, acceptor, handler, maps, client_mutex>>

SendsBody(t) ==
    /\ task[t].at \in {"recordbody", "plainbody"}
    /\ SendReturns(Target(t))
    /\ conn' = IF Reaches(Target(t)) /\ task[t].kind = "role"
               THEN [conn EXCEPT ![fds[Target(t)]].status = TRUE] ELSE conn
    /\ task' = NextTarget(t)
    /\ tls_mutex' = IF tls_mutex = t THEN None ELSE tls_mutex
    /\ UNCHANGED <<lastConn, stalls, fds, flags, acceptor, handler, maps, client_mutex>>

\* The last packet is sent: unlock; a handler goes back to recv.
SendEnds(t) ==
    /\ task[t].at = "lookup" /\ task[t].todo = <<>>
    /\ task' = [task EXCEPT ![t] = NoTask]
    /\ client_mutex' = IF client_mutex = t THEN None ELSE client_mutex
    /\ handler' = IF t \in Fds THEN [handler EXCEPT ![t] = Again] ELSE handler
    /\ UNCHANGED <<socketVars, flags, acceptor, maps, tls_mutex>>

----------------------------------------------------------------------------
(* ClientController::stop, run by the SIGINT handler on the main thread, which  *)
(* does nothing else meanwhile.  First InternalClient's thread is joined.      *)

Interrupts(t) == t = MainLoop /\ stop \notin {"running", "stopped"}

SignalArrives ==
    /\ stop = "running"
    /\ \/ "idle" \in Signals /\ task[MainLoop].at = "idle"
       \/ "busy" \in Signals /\ task[MainLoop].at # "idle"
    /\ stop' = "link"
    /\ UNCHANGED <<socketVars, tls, acceptor, handler, maps, locks, task>>

StopAt(from, to) == stop = from /\ stop' = to /\ UNCHANGED tls

StopJoinsLink ==
    /\ StopAt("link", "server")
    /\ \A c \in Casters \ {MainLoop} : task[c].at = "idle"
    /\ UNCHANGED <<socketVars, acceptor, handler, maps, locks, task>>

\* Those who wait to be accepted are refused.
StopShutsServer ==
    /\ StopAt("server", "clients")
    /\ conn' = [i \in Conns |-> IF conn[i].server = "queued"
                                THEN [conn[i] EXCEPT !.server = "closed"] ELSE conn[i]]
    /\ UNCHANGED <<lastConn, stalls, fds, acceptor, handler, maps, locks, task>>

\* Mutant: the descriptors of the clients are not closed.
StopKeepsClients ==
    /\ StopAt("clients", "sessions")
    /\ client_mutex = None
    /\ client_fds' = <<>>
    /\ UNCHANGED <<socketVars, acceptor, handler, client_roles, tls_sessions, finished_fds,
                   locks, task>>

StopClosesClients ==
    /\ StopAt("clients", "sessions")
    /\ client_mutex = None
    /\ Closes({f \in Fds : Occurs(f, client_fds)})
    /\ client_fds' = <<>>
    /\ UNCHANGED <<lastConn, stalls, acceptor, handler, client_roles, tls_sessions,
                   finished_fds, locks, task>>

StopDropsSessions ==
    /\ StopAt("sessions", "acceptor")
    /\ tls_mutex = None
    /\ tls_sessions' = [f \in Fds |-> None]
    /\ UNCHANGED <<socketVars, acceptor, handler, client_fds, client_roles, finished_fds,
                   locks, task>>

StopJoinsAcceptor ==
    /\ StopAt("acceptor", "handlers")
    /\ acceptor.pc = "ended"
    /\ UNCHANGED <<socketVars, acceptor, handler, maps, locks, task>>

StopJoinsHandlers ==
    /\ StopAt("handlers", "stopped")
    /\ \A f \in Fds : handler[f] \in {"none", "done"}
    /\ handler' = [f \in Fds |-> "none"]
    /\ UNCHANGED <<socketVars, acceptor, maps, locks, task>>
============================================================================
