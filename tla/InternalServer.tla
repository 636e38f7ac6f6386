--------------------------- MODULE InternalServer ---------------------------
(* DeviceServer's side of the link: the accept loop, one handler thread per   *)
(* ClientServer connection, the reaping of finished handlers, and the         *)
(* broadcasts that beacon thread, monitor and listeners call into.  The       *)
(* CAMERA and the AVAILABLE list are pushed in the same places by the same    *)
(* code; one list stands for both.                                           *)
EXTENDS LinkSockets, FiniteSets, Subsequences

CONSTANTS Pushers,  \* threads of DeviceServer that broadcast
          Monitor   \* the one that does so every five seconds

ASSUME PushersAssumption == Monitor \in Pushers /\ None \notin Pushers

VARIABLES
    registry,       \* version of what get_camera_list_ returns
    acceptor,       \* the accept thread: program point, the number it was given
    handler,        \* client_threads_: the handler of each descriptor
    client_fds,     \* descriptors that broadcasts go to
    client_mutex,   \* the thread that holds client_mutex_ across sends, or None
    finished_fds,   \* descriptors whose handlers have ended
    pusher          \* threads in a broadcast

serverVars == <<registry, acceptor, handler, client_fds, client_mutex, finished_fds, pusher>>

\* A handler: in its welcome push ("read", "header", "body"), serving, cleaning
\* up, ended but not joined, or not there.
Handler == [pc : {"none", "read", "header", "body", "serve", "close", "unlist",
                  "finish", "done"},
            content : Content \cup {None}]

NoHandler == [pc |-> "none", content |-> None]

\* A broadcast: about to lock, or sending to the descriptors in todo.
Pusher == [pc : {"idle", "lock", "header", "body"},
           content : Content \cup {None}, todo : Seq(Fds)]

IdlePusher == [pc |-> "idle", content |-> None, todo |-> <<>>]

ServerTypeOK ==
    /\ registry \in 0..MaxVersion
    /\ acceptor \in [pc : {"down", "cleanup", "enter", "blocked", "list", "spawn", "ended", "aborted"},
                     fd : Fds \cup {None}]
    /\ handler \in [Fds -> Handler]
    /\ client_fds \in Seq(Fds)
    /\ client_mutex \in Pushers \cup {None}
    /\ finished_fds \in SUBSET Fds
    /\ pusher \in [Pushers -> Pusher]

ServerInit ==
    /\ registry = 0
    /\ acceptor = [pc |-> "down", fd |-> None]
    /\ handler = [f \in Fds |-> NoHandler]
    /\ client_fds = <<>>
    /\ client_mutex = None
    /\ finished_fds = {}
    /\ pusher = [p \in Pushers |-> IdlePusher]

\* The process runs: std::terminate has not ended it.
Alive == acceptor.pc # "aborted"

\* Connections are accepted or queued: the listening socket stays open even
\* after the accept loop has ended.
Listening == acceptor.pc \notin {"down", "aborted"}

----------------------------------------------------------------------------
(* acceptLoop.                                                               *)

AcceptorAt(pc, f) == acceptor' = [pc |-> pc, fd |-> f]

\* InternalServer::start.
ServerStarts ==
    /\ acceptor.pc = "down"
    /\ AcceptorAt("cleanup", None)
    /\ UNCHANGED <<registry, handler, client_fds, client_mutex, finished_fds, pusher,
                   conn, lastConn, fds>>

\* cleanupFinishedThreads: a handler's entry in finished_fds_ is its last act,
\* so that join does not wait.
AcceptorCleansUp ==
    /\ acceptor.pc = "cleanup"
    /\ \A f \in finished_fds : handler[f].pc \in {"none", "done"}
    /\ AcceptorAt("enter", None)
    /\ handler' = [f \in Fds |-> IF f \in finished_fds THEN NoHandler ELSE handler[f]]
    /\ finished_fds' = {}
    /\ UNCHANGED <<registry, client_fds, client_mutex, pusher, conn, lastConn, fds>>

FreeFds == {f \in Fds : fds[f] = None}

\* accept(): the kernel reserves a descriptor number before it waits.
AcceptorEnters(f) ==
    /\ acceptor.pc = "enter"
    /\ fds[f] = None
    /\ AcceptorAt("blocked", f)
    /\ fds' = [fds EXCEPT ![f] = Other]
    /\ UNCHANGED <<registry, handler, client_fds, client_mutex, finished_fds, pusher, conn, lastConn>>

\* Mutant: accept's result is not checked.
AcceptorUnchecked ==
    /\ acceptor.pc = "enter"
    /\ FreeFds = {}
    /\ AcceptorAt("list", None)
    /\ UNCHANGED <<registry, handler, client_fds, client_mutex, finished_fds, pusher, conn, lastConn, fds>>

\* accept() fails for want of a descriptor: the loop ends for good.
AcceptorFails ==
    /\ acceptor.pc = "enter"
    /\ FreeFds = {}
    /\ AcceptorAt("ended", None)
    /\ UNCHANGED <<registry, handler, client_fds, client_mutex, finished_fds, pusher, conn, lastConn, fds>>

\* accept() returns the oldest connection that waits.
AcceptorReturns ==
    /\ acceptor.pc = "blocked"
    /\ \E i \in Conns :
          /\ conn[i].server = "queued"
          /\ \A j \in 1..i-1 : conn[j].server # "queued"
          /\ conn' = [conn EXCEPT ![i].server = "open"]
          /\ fds' = [fds EXCEPT ![acceptor.fd] = i]
    /\ AcceptorAt("list", acceptor.fd)
    /\ UNCHANGED <<registry, handler, client_fds, client_mutex, finished_fds, pusher, lastConn>>

AcceptorLists ==
    /\ acceptor.pc = "list"
    /\ client_mutex = None
    /\ client_fds' = Append(client_fds, acceptor.fd)
    /\ AcceptorAt("spawn", acceptor.fd)
    /\ UNCHANGED <<registry, handler, client_mutex, finished_fds, pusher, conn, lastConn, fds>>

\* Mutant: the old thread is detached and forgotten.
AcceptorSpawnsDetached ==
    /\ acceptor.pc = "spawn"
    /\ handler' = [handler EXCEPT ![acceptor.fd] = [pc |-> "read", content |-> None]]
    /\ AcceptorAt("cleanup", None)
    /\ UNCHANGED <<registry, client_fds, client_mutex, finished_fds, pusher, conn, lastConn, fds>>

\* client_threads_[client_fd] = std::thread(...): assigning to a thread object
\* that has not been joined calls std::terminate.
AcceptorSpawns ==
    /\ acceptor.pc = "spawn"
    /\ IF handler[acceptor.fd].pc = "none"
       THEN /\ handler' = [handler EXCEPT ![acceptor.fd] = [pc |-> "read", content |-> None]]
            /\ AcceptorAt("cleanup", None)
       ELSE /\ AcceptorAt("aborted", None)
            /\ UNCHANGED handler
    /\ UNCHANGED <<registry, client_fds, client_mutex, finished_fds, pusher, conn, lastConn, fds>>

----------------------------------------------------------------------------
(* clientHandler.  Its sends take no lock.                                   *)

HandlerAt(f, pc, content) ==
    handler' = [handler EXCEPT ![f] = [pc |-> pc, content |-> content]]

HandlerLeaves == UNCHANGED <<registry, acceptor, client_mutex, pusher, lastConn>>

HandlerReadsList(f) ==
    /\ handler[f].pc = "read"
    /\ HandlerAt(f, "header", registry)
    /\ UNCHANGED <<client_fds, finished_fds, conn, fds>> /\ HandlerLeaves

HandlerSendsHeader(f) ==
    /\ handler[f].pc = "header"
    /\ SendReturns(f)
    /\ conn' = AfterSend(f, [part |-> "header", content |-> handler[f].content])
    /\ IF Reaches(f) THEN HandlerAt(f, "body", handler[f].content)
                     ELSE HandlerAt(f, "serve", None)
    /\ UNCHANGED <<client_fds, finished_fds, fds>> /\ HandlerLeaves

HandlerSendsBody(f) ==
    /\ handler[f].pc = "body"
    /\ SendReturns(f)
    /\ conn' = AfterSend(f, [part |-> "body", content |-> handler[f].content])
    /\ HandlerAt(f, "serve", None)
    /\ UNCHANGED <<client_fds, finished_fds, fds>> /\ HandlerLeaves

\* A DEVICE packet: sendMotorCommand, modelled in DeviceManager.  ClientServer
\* sends no packets of other types.
HandlerTakesCommand(f) ==
    /\ handler[f].pc = "serve"
    /\ conn[fds[f]].command
    /\ conn' = [conn EXCEPT ![fds[f]].command = FALSE]
    /\ UNCHANGED <<handler, client_fds, finished_fds, fds>> /\ HandlerLeaves

\* Mutant: the handler ends without close().
HandlerForgetsClose(f) ==
    /\ handler[f].pc = "serve"
    /\ ~conn[fds[f]].client
    /\ HandlerAt(f, "unlist", None)
    /\ UNCHANGED <<client_fds, finished_fds, conn, fds>> /\ HandlerLeaves

\* recvExact fails: the client has closed.
HandlerDisconnected(f) ==
    /\ handler[f].pc = "serve"
    /\ ~conn[fds[f]].client
    /\ HandlerAt(f, "close", None)
    /\ UNCHANGED <<client_fds, finished_fds, conn, fds>> /\ HandlerLeaves

\* Mutant: the end is announced before the clean-up.
HandlerAnnouncesEarly(f) ==
    /\ handler[f].pc = "close"
    /\ conn' = WithoutServer(fds[f])
    /\ fds' = [fds EXCEPT ![f] = None]
    /\ HandlerAt(f, "unlist", None)
    /\ finished_fds' = finished_fds \cup {f}
    /\ UNCHANGED client_fds /\ HandlerLeaves

HandlerCloses(f) ==
    /\ handler[f].pc = "close"
    /\ conn' = WithoutServer(fds[f])
    /\ fds' = [fds EXCEPT ![f] = None]
    /\ HandlerAt(f, "unlist", None)
    /\ UNCHANGED <<client_fds, finished_fds>> /\ HandlerLeaves

HandlerUnlists(f) ==
    /\ handler[f].pc = "unlist"
    /\ client_mutex = None
    /\ client_fds' = Keep(client_fds, Fds \ {f})
    /\ HandlerAt(f, "finish", None)
    /\ UNCHANGED <<finished_fds, conn, fds>> /\ HandlerLeaves

HandlerFinishes(f) ==
    /\ handler[f].pc = "finish"
    /\ finished_fds' = finished_fds \cup {f}
    /\ HandlerAt(f, "done", None)
    /\ UNCHANGED <<client_fds, conn, fds>> /\ HandlerLeaves

----------------------------------------------------------------------------
(* The broadcasts, each holding client_mutex_ until its last send returns.   *)

PusherAt(p, pc, content, todo) ==
    pusher' = [pusher EXCEPT ![p] = [pc |-> pc, content |-> content, todo |-> todo]]

PusherLeaves == UNCHANGED <<registry, acceptor, handler, client_fds, finished_fds, lastConn, fds>>

\* A device comes, goes or reports a status of its own; the providers will
\* return the new list.  If the thread pushes it, it reads it first.
RegistryChanges ==
    /\ registry < MaxVersion
    /\ registry' = registry + 1
    /\ UNCHANGED <<acceptor, handler, client_fds, client_mutex, finished_fds, pusher,
                   conn, lastConn, fds>>

\* broadcastCameraList and broadcastDeviceStatus read the list before they lock.
PusherReadsList(p) ==
    /\ pusher[p].pc = "idle"
    /\ PusherAt(p, "lock", registry, <<>>)
    /\ UNCHANGED <<client_mutex, conn>> /\ PusherLeaves

\* broadcastAiEvent, broadcastMetaEvent, broadcastImageEvent, from listeners.
PusherHasEvent(p) ==
    /\ p # Monitor
    /\ pusher[p].pc = "idle"
    /\ PusherAt(p, "lock", Event, <<>>)
    /\ UNCHANGED <<client_mutex, conn>> /\ PusherLeaves

PusherLocks(p) ==
    /\ pusher[p].pc = "lock"
    /\ client_mutex = None
    /\ client_mutex' = p
    /\ PusherAt(p, "header", pusher[p].content, client_fds)
    /\ UNCHANGED conn /\ PusherLeaves

\* Mutant: a failed send ends the broadcast, and the mutex stays locked.
PusherGivesUp(p) ==
    LET f == Head(pusher[p].todo) IN
    /\ pusher[p].pc = "header"
    /\ pusher[p].todo # <<>>
    /\ SendReturns(f)
    /\ conn' = AfterSend(f, [part |-> "header", content |-> pusher[p].content])
    /\ IF Reaches(f) THEN PusherAt(p, "body", pusher[p].content, pusher[p].todo)
                     ELSE PusherAt(p, "idle", None, <<>>)
    /\ UNCHANGED client_mutex /\ PusherLeaves

PusherSendsHeader(p) ==
    LET f == Head(pusher[p].todo) IN
    /\ pusher[p].pc = "header"
    /\ pusher[p].todo # <<>>
    /\ SendReturns(f)
    /\ conn' = AfterSend(f, [part |-> "header", content |-> pusher[p].content])
    /\ IF Reaches(f) THEN PusherAt(p, "body", pusher[p].content, pusher[p].todo)
                     ELSE PusherAt(p, "header", pusher[p].content, Tail(pusher[p].todo))
    /\ UNCHANGED client_mutex /\ PusherLeaves

PusherSendsBody(p) ==
    LET f == Head(pusher[p].todo) IN
    /\ pusher[p].pc = "body"
    /\ SendReturns(f)
    /\ conn' = AfterSend(f, [part |-> "body", content |-> pusher[p].content])
    /\ PusherAt(p, "header", pusher[p].content, Tail(pusher[p].todo))
    /\ UNCHANGED client_mutex /\ PusherLeaves

PusherUnlocks(p) ==
    /\ pusher[p].pc = "header"
    /\ pusher[p].todo = <<>>
    /\ client_mutex' = None
    /\ PusherAt(p, "idle", None, <<>>)
    /\ UNCHANGED conn /\ PusherLeaves
============================================================================
