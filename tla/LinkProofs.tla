----------------------------- MODULE LinkProofs -----------------------------
(* Proofs about InternalLink, for any numbers of descriptors, broadcasting    *)
(* threads, connections, restarts and versions of the list.                  *)
EXTENDS InternalLink, SubsequenceProofs

\* What may be on its way: no version of the list that has not existed.
Old == 0..registry \cup {Event}
OldPiece == [part : {"header", "body"}, content : Old]
OldConnection == [client : BOOLEAN, server : {"queued", "open", "closed"},
                  wire : Seq(OldPiece), command : BOOLEAN]
OldHandler == [pc : {"none", "read", "header", "body", "serve", "close", "unlist", "finish", "done"},
               content : Old \cup {None}]

\* The types, except of the sequences of descriptors, which are not needed.
VersionsExist ==
    /\ registry \in 0..MaxVersion /\ cache \in 0..registry
    /\ conn \in [Conns -> OldConnection]
    /\ handler \in [Fds -> OldHandler]
    /\ \A f \in Fds : handler[f].pc \in {"header", "body"} => handler[f].content \in Old
    /\ DOMAIN pusher = Pushers
    /\ \A p \in Pushers : pusher[p].pc # "idle" => pusher[p].content \in Old

RestTyped ==
    /\ lastConn \in 0..MaxConns
    /\ fds \in [Fds -> Conns \cup {Other, None}]
    /\ acceptor \in [pc : {"down", "cleanup", "enter", "blocked", "list", "spawn", "ended", "aborted"},
                     fd : Fds \cup {None}]
    /\ finished_fds \subseteq Fds
    /\ client \in Client /\ current_fd \in Conns \cup {None}

\* f's handler has not closed its connection.
Busy(f) == handler[f].pc \in {"read", "header", "body", "serve", "close"}

\* Who owns which descriptor of DeviceServer.
ServerInv ==
    /\ acceptor.pc \in {"blocked", "list", "spawn"} => acceptor.fd \in Fds
    /\ acceptor.pc = "blocked" => fds[acceptor.fd] = Other
    /\ acceptor.pc \in {"list", "spawn"} => fds[acceptor.fd] \in Conns /\ ~Busy(acceptor.fd)
    /\ \A f \in Fds : Busy(f) => fds[f] \in Conns
    /\ \A f \in Fds : fds[f] \in Conns =>
          /\ fds[f] <= lastConn
          /\ conn[fds[f]].server = "open"
          /\ \A g \in Fds : g # f => fds[g] # fds[f]
          /\ Alive => Busy(f) \/ (acceptor.pc \in {"list", "spawn"} /\ acceptor.fd = f)
    /\ \A f \in finished_fds : handler[f].pc = "done"
    /\ \A i \in Conns : conn[i].server = "queued" => i <= lastConn

\* What the connection thread has open, and when commands may use it.
ClientInv ==
    /\ client.pc \in {"connect", "wait"} => client.sock = None
    /\ client.pc \notin {"connect", "wait"} => client.sock \in Conns
    /\ client.sock \in Conns => conn[client.sock].client /\ client.sock <= lastConn
    /\ current_fd # None => /\ current_fd = client.sock
                            /\ client.pc \in {"read", "body", "callback", "reset"}
    /\ client.pc = "body" => ~client.torn

IndInv == VersionsExist /\ RestTyped /\ ServerInv /\ ClientInv

----------------------------------------------------------------------------
(* Pieces of packets.                                                        *)

LEMMA Constants ==
    /\ MaxConns \in Nat /\ MaxVersion \in Nat /\ Conns = 1..MaxConns
    /\ None \notin Fds /\ None \notin Conns /\ Other \notin Conns /\ Other # None
    /\ Monitor \in Pushers
BY LinkAssumption, PushersAssumption DEF Conns

\* What existed still does when the list gets one more version.
LEMMA OldStays ==
    ASSUME VersionsExist, registry' \in {registry, registry + 1}
    PROVE  /\ Old \subseteq Old'
           /\ OldConnection \subseteq OldConnection' /\ OldHandler \subseteq OldHandler'
<1>1. Old \subseteq Old'
  BY LinkAssumption DEF VersionsExist, Old
<1>2. OldPiece \subseteq OldPiece'
  BY <1>1 DEF OldPiece
<1>3. Seq(OldPiece) \subseteq Seq(OldPiece')
  BY <1>2
<1> QED
  BY <1>1, <1>3 DEF OldConnection, OldHandler

\* A send changes no end of any connection, and adds at most that piece.
LEMMA SendKeeps ==
    ASSUME VersionsExist, \E f, q : q \in OldPiece /\ conn' = AfterSend(f, q)
    PROVE  /\ conn' \in [Conns -> OldConnection]
           /\ \A i \in Conns : conn'[i].client = conn[i].client /\ conn'[i].server = conn[i].server
<1>1. PICK f, q : q \in OldPiece /\ conn' = AfterSend(f, q)
  OBVIOUS
<1>2. CASE Reaches(f)
  <2>1. PICK i \in Conns : i = fds[f]
    BY <1>2 DEF Reaches
  <2>2. conn' = [conn EXCEPT ![i].wire = Append(conn[i].wire, q)]
    BY <1>1, <1>2, <2>1 DEF AfterSend
  <2>3. Append(conn[i].wire, q) \in Seq(OldPiece)
    BY <1>1 DEF VersionsExist, OldConnection
  <2> QED
    BY <2>2, <2>3 DEF VersionsExist, OldConnection
<1>3. CASE ~Reaches(f)
  BY <1>1, <1>3 DEF AfterSend, VersionsExist
<1> QED
  BY <1>2, <1>3

\* accept() opens the server's end.
LEMMA AcceptKeeps ==
    ASSUME VersionsExist, NEW i \in Conns, conn' = [conn EXCEPT ![i].server = "open"]
    PROVE  /\ conn' \in [Conns -> OldConnection]
           /\ conn'[i].server = "open"
           /\ \A j \in Conns : j # i => conn'[j] = conn[j]
           /\ \A j \in Conns : conn'[j].client = conn[j].client
<1>1. conn[i] \in OldConnection /\ conn \in [Conns -> OldConnection]
  BY DEF VersionsExist
<1>2. [conn[i] EXCEPT !.server = "open"] \in OldConnection
      /\ [conn[i] EXCEPT !.server = "open"].server = "open"
      /\ [conn[i] EXCEPT !.server = "open"].client = conn[i].client
  BY <1>1 DEF OldConnection
<1> QED
  BY <1>1, <1>2

----------------------------------------------------------------------------
(* What the one program does not touch.                                      *)

SameEnds == \A i \in Conns : conn'[i].client = conn[i].client /\ conn'[i].server = conn[i].server

LEMMA ServerFrame ==
    ASSUME RestTyped, ServerInv, UNCHANGED <<acceptor, handler, finished_fds, lastConn, fds>>,
           \A i \in Conns : conn'[i].server = conn[i].server
    PROVE  ServerInv'
BY Constants DEF RestTyped, ServerInv, Busy, Alive

LEMMA ClientFrame ==
    ASSUME RestTyped, ClientInv, UNCHANGED <<clientVars, lastConn>>,
           \A i \in Conns : conn'[i].client = conn[i].client
    PROVE  ClientInv'
BY Constants DEF RestTyped, ClientInv, clientVars

----------------------------------------------------------------------------
(* DeviceServer.                                                             *)

LEMMA AcceptThreadSafe == IndInv /\ Alive /\ AcceptThread /\ UNCHANGED clientVars => IndInv'
<1> SUFFICES ASSUME IndInv, Alive, AcceptThread, UNCHANGED clientVars PROVE IndInv'
  OBVIOUS
<1> USE Constants DEF IndInv
<1>1. /\ UNCHANGED <<registry, pusher, lastConn, cache>>
      /\ SameEnds \/ AcceptorReturns
      /\ \A i \in Conns : conn'[i].client = conn[i].client
  <2>1. UNCHANGED <<registry, pusher, lastConn, cache>> /\ (UNCHANGED conn \/ AcceptorReturns)
    BY DEF AcceptThread, ServerStarts, AcceptorCleansUp, AcceptorEnters, AcceptorFails, AcceptorReturns,
       AcceptorLists, AcceptorSpawns, AcceptorAt, clientVars
  <2>2. CASE AcceptorReturns
    BY <2>1, <2>2, AcceptKeeps DEF AcceptorReturns
  <2> QED
    BY <2>1, <2>2 DEF SameEnds
<1>2. VersionsExist'
  <2>1. conn' \in [Conns -> OldConnection]
    <3>1. CASE AcceptorReturns
      BY <3>1, AcceptKeeps DEF AcceptorReturns
    <3> QED
      BY <3>1 DEF AcceptThread, ServerStarts, AcceptorCleansUp, AcceptorEnters, AcceptorFails,
         AcceptorLists, AcceptorSpawns, VersionsExist
  <2>2. /\ handler' \in [Fds -> OldHandler]
        /\ \A f \in Fds : handler'[f].pc \in {"header", "body"} => handler'[f].content \in Old
    <3>1. CASE AcceptorCleansUp
      BY <3>1 DEF AcceptorCleansUp, NoHandler, VersionsExist, OldHandler
    <3>2. CASE AcceptorSpawns
      BY <3>2 DEF AcceptorSpawns, VersionsExist, OldHandler
    <3> QED
      BY <3>1, <3>2 DEF AcceptThread, ServerStarts, AcceptorEnters, AcceptorFails, AcceptorReturns,
         AcceptorLists, VersionsExist
  <2> QED
    BY <1>1, <2>1, <2>2 DEF VersionsExist, Old, OldPiece, OldConnection, OldHandler
<1>3. RestTyped' /\ ServerInv'
  <2> USE DEF RestTyped, ServerInv, Busy, Alive, AcceptorAt
  <2>1. CASE ServerStarts
    BY <2>1 DEF ServerStarts, clientVars
  <2>2. CASE AcceptorCleansUp
    BY <2>2 DEF AcceptorCleansUp, NoHandler, clientVars, VersionsExist
  <2>3. ASSUME NEW f \in Fds, AcceptorEnters(f) PROVE RestTyped' /\ ServerInv'
    BY <2>3 DEF AcceptorEnters, clientVars
  <2>4. CASE AcceptorFails
    BY <2>4 DEF AcceptorFails, clientVars
  <2>5. CASE AcceptorReturns
    <3>1. PICK i \in Conns : /\ conn[i].server = "queued"
                             /\ conn' = [conn EXCEPT ![i].server = "open"]
                             /\ fds' = [fds EXCEPT ![acceptor.fd] = i]
      BY <2>5 DEF AcceptorReturns
    <3>2. PICK f \in Fds : f = acceptor.fd
      BY <2>5 DEF AcceptorReturns
    <3>3. conn'[i].server = "open" /\ \A j \in Conns : j # i => conn'[j].server = conn[j].server
      BY <3>1, AcceptKeeps
    <3>4. acceptor' = [pc |-> "list", fd |-> f] /\ acceptor.pc = "blocked"
          /\ UNCHANGED <<handler, finished_fds, lastConn, client, current_fd>>
      BY <2>5, <3>2 DEF AcceptorReturns, clientVars
    <3>5. \A g \in Fds : fds[g] # i
      BY <3>1
    <3>8. i <= lastConn
      BY <3>1
    <3>6. fds' \in [Fds -> Conns \cup {Other, None}]
          /\ fds'[f] = i /\ \A g \in Fds : g # f => fds'[g] = fds[g]
      BY <3>1, <3>2
    <3>7. RestTyped'
      BY <3>4, <3>6
    <3>9. ServerInv'
      BY <3>2, <3>3, <3>4, <3>5, <3>6, <3>8
    <3> QED
      BY <3>7, <3>9
  <2>6. CASE AcceptorLists
    BY <2>6 DEF AcceptorLists, clientVars
  <2>7. CASE AcceptorSpawns
    <3>1. /\ UNCHANGED <<conn, fds, lastConn, finished_fds, client, current_fd>>
          /\ acceptor.pc = "spawn" /\ acceptor.fd \in Fds
      BY <2>7 DEF AcceptorSpawns, clientVars
    <3>2. CASE handler[acceptor.fd].pc = "none"
      <4>1. acceptor' = [pc |-> "cleanup", fd |-> None]
            /\ handler' = [handler EXCEPT ![acceptor.fd] = [pc |-> "read", content |-> None]]
        BY <2>7, <3>2 DEF AcceptorSpawns
      <4>2. handler'[acceptor.fd].pc = "read"
            /\ \A f \in Fds : f # acceptor.fd => handler'[f] = handler[f]
        BY <3>1, <4>1 DEF VersionsExist
      <4> QED
        BY <3>1, <3>2, <4>1, <4>2
    <3>3. CASE handler[acceptor.fd].pc # "none"
      BY <2>7, <3>1, <3>3 DEF AcceptorSpawns
    <3> QED
      BY <3>2, <3>3
  <2> QED
    BY <2>1, <2>2, <2>3, <2>4, <2>5, <2>6, <2>7 DEF AcceptThread
<1>4. ClientInv'
  BY <1>1, ClientFrame
<1> QED
  BY <1>2, <1>3, <1>4

\* A handler's sends and the commands it takes change no end of a connection.
LEMMA HandlerSendsSafe ==
    ASSUME IndInv, UNCHANGED clientVars, NEW f \in Fds,
           HandlerReadsList(f) \/ HandlerSendsHeader(f) \/ HandlerSendsBody(f) \/ HandlerTakesCommand(f)
    PROVE  IndInv'
<1> USE Constants DEF IndInv
<1>1. UNCHANGED <<registry, acceptor, client_mutex, pusher, lastConn, client_fds, finished_fds, fds,
                  client, current_fd, cache>>
  BY DEF HandlerReadsList, HandlerSendsHeader, HandlerSendsBody, HandlerTakesCommand, HandlerLeaves, clientVars
<1>2. /\ conn' \in [Conns -> OldConnection]
      /\ \A i \in Conns : conn'[i].client = conn[i].client /\ conn'[i].server = conn[i].server
  <2>1. CASE HandlerReadsList(f)
    BY <2>1 DEF HandlerReadsList, VersionsExist
  <2>2. CASE HandlerSendsHeader(f)
    <3>1. [part |-> "header", content |-> handler[f].content] \in OldPiece
      BY <2>2 DEF HandlerSendsHeader, VersionsExist, OldPiece
    <3> QED
      BY <2>2, <3>1, SendKeeps DEF HandlerSendsHeader
  <2>3. CASE HandlerSendsBody(f)
    <3>1. [part |-> "body", content |-> handler[f].content] \in OldPiece
      BY <2>3 DEF HandlerSendsBody, VersionsExist, OldPiece
    <3> QED
      BY <2>3, <3>1, SendKeeps DEF HandlerSendsBody
  <2>4. CASE HandlerTakesCommand(f)
    <3>1. fds[f] \in Conns
      BY <2>4 DEF HandlerTakesCommand, ServerInv, Busy
    <3>2. PICK i \in Conns : i = fds[f]
      BY <3>1
    <3>3. conn' = [conn EXCEPT ![i].command = FALSE]
      BY <2>4, <3>2 DEF HandlerTakesCommand
    <3> QED
      BY <3>3 DEF VersionsExist, OldConnection
  <2> QED
    BY <2>1, <2>2, <2>3, <2>4
<1>3. /\ handler' \in [Fds -> OldHandler]
      /\ handler'[f].pc \in {"header", "body"} => handler'[f].content \in Old
      /\ \A g \in Fds : g # f => handler'[g] = handler[g]
      /\ handler[f].pc \in {"read", "header", "body", "serve"}
      /\ handler'[f].pc \in {"header", "body", "serve"}
  <2>1. registry \in Old
    BY DEF VersionsExist, Old
  <2>2. CASE HandlerReadsList(f)
    BY <2>1, <2>2 DEF HandlerReadsList, HandlerAt, VersionsExist, OldHandler
  <2>3. CASE HandlerSendsHeader(f)
    BY <2>3 DEF HandlerSendsHeader, HandlerAt, VersionsExist, OldHandler
  <2>4. CASE HandlerSendsBody(f)
    BY <2>4 DEF HandlerSendsBody, HandlerAt, VersionsExist, OldHandler
  <2>5. CASE HandlerTakesCommand(f)
    BY <2>5 DEF HandlerTakesCommand, VersionsExist
  <2> QED
    BY <2>2, <2>3, <2>4, <2>5
<1>4. VersionsExist'
  BY <1>1, <1>2, <1>3 DEF VersionsExist, Old, OldPiece, OldConnection, OldHandler
<1>5. RestTyped'
  BY <1>1 DEF RestTyped
<1>6. ServerInv'
  <2>1. \A g \in Fds : Busy(g)' <=> Busy(g)
    BY <1>3 DEF Busy
  <2>2. \A g \in finished_fds : handler'[g].pc = "done"
    BY <1>3 DEF RestTyped, ServerInv
  <2> QED
    BY <1>1, <1>2, <2>1, <2>2 DEF RestTyped, ServerInv, Alive
<1>7. ClientInv'
  BY <1>1, <1>2, ClientFrame DEF clientVars
<1> QED
  BY <1>4, <1>5, <1>6, <1>7

\* The end of a handler.
LEMMA HandlerEndsSafe ==
    ASSUME IndInv, UNCHANGED clientVars, NEW f \in Fds,
           HandlerDisconnected(f) \/ HandlerCloses(f) \/ HandlerUnlists(f) \/ HandlerFinishes(f)
    PROVE  IndInv'
<1> USE Constants DEF IndInv
<1>1. UNCHANGED <<registry, acceptor, pusher, lastConn, client, current_fd, cache>>
  BY DEF HandlerDisconnected, HandlerCloses, HandlerUnlists, HandlerFinishes, HandlerLeaves, clientVars
<1>2. PICK pc \in {"close", "unlist", "finish", "done"} :
         handler' = [handler EXCEPT ![f] = [pc |-> pc, content |-> None]]
  BY DEF HandlerDisconnected, HandlerCloses, HandlerUnlists, HandlerFinishes, HandlerAt
<1>3. /\ handler' \in [Fds -> OldHandler] /\ handler'[f].pc = pc
      /\ \A g \in Fds : g # f => handler'[g] = handler[g]
  BY <1>2 DEF VersionsExist, OldHandler
<1>4. CASE HandlerCloses(f)
  <2>1. PICK i \in Conns : i = fds[f]
    BY <1>4 DEF HandlerCloses, ServerInv, Busy
  <2>2. /\ conn' = [conn EXCEPT ![i].server = "closed", ![i].command = FALSE]
        /\ fds' = [fds EXCEPT ![f] = None]
        /\ handler[f].pc = "close" /\ handler'[f].pc = "unlist" /\ UNCHANGED finished_fds
    BY <1>4, <2>1 DEF HandlerCloses, WithoutServer, HandlerAt, VersionsExist
  <2>3. /\ conn' \in [Conns -> OldConnection]
        /\ \A j \in Conns : conn'[j].client = conn[j].client
        /\ \A j \in Conns : j # i => conn'[j] = conn[j]
        /\ conn'[i].server = "closed"
    BY <2>2 DEF VersionsExist, OldConnection
  <2>4. fds' \in [Fds -> Conns \cup {Other, None}] /\ fds'[f] = None
        /\ \A g \in Fds : g # f => fds'[g] = fds[g]
    BY <2>2 DEF RestTyped
  <2>5. VersionsExist'
    BY <1>1, <1>3, <2>2, <2>3 DEF VersionsExist, Old, OldPiece, OldConnection, OldHandler
  <2>6. RestTyped'
    BY <1>1, <2>2, <2>4 DEF RestTyped
  <2>7. ServerInv'
    BY <1>1, <1>3, <2>1, <2>2, <2>3, <2>4 DEF RestTyped, ServerInv, Busy, Alive
  <2>8. ClientInv'
    BY <1>1, <2>3, ClientFrame DEF clientVars
  <2> QED
    BY <2>5, <2>6, <2>7, <2>8
<1>5. CASE HandlerDisconnected(f) \/ HandlerUnlists(f) \/ HandlerFinishes(f)
  <2>1. UNCHANGED <<conn, fds>>
    BY <1>5 DEF HandlerDisconnected, HandlerUnlists, HandlerFinishes
  <2>2. VersionsExist'
    BY <1>1, <1>2, <1>3, <2>1 DEF VersionsExist, Old, OldPiece, OldConnection, OldHandler
  <2>3. finished_fds' \subseteq Fds
    BY <1>5 DEF HandlerDisconnected, HandlerUnlists, HandlerFinishes, RestTyped
  <2>4. RestTyped'
    BY <1>1, <2>1, <2>3 DEF RestTyped
  <2>5. CASE HandlerDisconnected(f)
    <3>1. handler[f].pc = "serve" /\ handler'[f].pc = "close" /\ UNCHANGED finished_fds
      BY <1>3, <2>5 DEF HandlerDisconnected, HandlerAt, VersionsExist
    <3> QED
      BY <1>1, <1>3, <2>1, <2>2, <2>4, <3>1, ClientFrame DEF RestTyped, ServerInv, Busy, Alive, clientVars
  <2>6. CASE HandlerUnlists(f)
    <3>1. handler[f].pc = "unlist" /\ handler'[f].pc = "finish" /\ UNCHANGED finished_fds
      BY <1>3, <2>6 DEF HandlerUnlists, HandlerAt, VersionsExist
    <3> QED
      BY <1>1, <1>3, <2>1, <2>2, <2>4, <3>1, ClientFrame DEF RestTyped, ServerInv, Busy, Alive, clientVars
  <2>7. CASE HandlerFinishes(f)
    <3>1. handler[f].pc = "finish" /\ handler'[f].pc = "done" /\ finished_fds' = finished_fds \cup {f}
      BY <1>3, <2>7 DEF HandlerFinishes, HandlerAt, VersionsExist
    <3> QED
      BY <1>1, <1>3, <2>1, <2>2, <2>4, <3>1, ClientFrame DEF RestTyped, ServerInv, Busy, Alive, clientVars
  <2> QED
    BY <1>5, <2>5, <2>6, <2>7
<1> QED
  BY <1>4, <1>5

\* A broadcast holds what it read from the list, or an event.
LEMMA PushersSafe ==
    ASSUME IndInv, UNCHANGED clientVars, NEW p \in Pushers,
           PusherReadsList(p) \/ PusherHasEvent(p) \/ Broadcast(p)
    PROVE  IndInv'
<1> USE Constants DEF IndInv
<1>1. /\ UNCHANGED <<registry, acceptor, handler, finished_fds, lastConn, fds, client, current_fd, cache>>
  BY DEF PusherReadsList, PusherHasEvent, Broadcast, PusherLocks, PusherSendsHeader, PusherSendsBody,
     PusherUnlocks, PusherLeaves, clientVars
<1>2. PICK pc, content, todo :
        /\ pusher' = [pusher EXCEPT ![p] = [pc |-> pc, content |-> content, todo |-> todo]]
        /\ pc # "idle" => content \in Old
        /\ \/ UNCHANGED conn
           \/ \E f, q : q \in OldPiece /\ conn' = AfterSend(f, q)
  <2>1. registry \in Old /\ Event \in Old
    BY DEF VersionsExist, Old
  <2>2. pusher[p].pc # "idle" => pusher[p].content \in Old
    BY DEF VersionsExist
  <2>3. CASE PusherReadsList(p)
    BY <2>1, <2>3 DEF PusherReadsList, PusherAt
  <2>4. CASE PusherHasEvent(p)
    BY <2>1, <2>4 DEF PusherHasEvent, PusherAt
  <2>5. CASE PusherLocks(p)
    BY <2>2, <2>5 DEF PusherLocks, PusherAt
  <2>6. CASE PusherSendsHeader(p)
    <3>1. pusher[p].content \in Old
      BY <2>2, <2>6 DEF PusherSendsHeader
    <3>2. [part |-> "header", content |-> pusher[p].content] \in OldPiece
      BY <3>1 DEF OldPiece
    <3>3. conn' = AfterSend(Head(pusher[p].todo), [part |-> "header", content |-> pusher[p].content])
      BY <2>6 DEF PusherSendsHeader
    <3>4. \/ PusherAt(p, "body", pusher[p].content, pusher[p].todo)
          \/ PusherAt(p, "header", pusher[p].content, Tail(pusher[p].todo))
      BY <2>6 DEF PusherSendsHeader
    <3> QED
      BY <3>1, <3>2, <3>3, <3>4 DEF PusherAt
  <2>7. CASE PusherSendsBody(p)
    <3>1. pusher[p].content \in Old
      BY <2>2, <2>7 DEF PusherSendsBody
    <3>2. [part |-> "body", content |-> pusher[p].content] \in OldPiece
      BY <3>1 DEF OldPiece
    <3>3. conn' = AfterSend(Head(pusher[p].todo), [part |-> "body", content |-> pusher[p].content])
      BY <2>7 DEF PusherSendsBody
    <3>4. PusherAt(p, "header", pusher[p].content, Tail(pusher[p].todo))
      BY <2>7 DEF PusherSendsBody
    <3> QED
      BY <3>1, <3>2, <3>3, <3>4 DEF PusherAt
  <2>8. CASE PusherUnlocks(p)
    BY <2>8 DEF PusherUnlocks, PusherAt
  <2> QED
    BY <2>3, <2>4, <2>5, <2>6, <2>7, <2>8 DEF Broadcast
<1>3. /\ conn' \in [Conns -> OldConnection]
      /\ \A i \in Conns : conn'[i].client = conn[i].client /\ conn'[i].server = conn[i].server
  BY <1>2, SendKeeps DEF VersionsExist
<1>4. /\ DOMAIN pusher' = Pushers
      /\ \A q \in Pushers : pusher'[q].pc # "idle" => pusher'[q].content \in Old
  BY <1>2 DEF VersionsExist
<1>5. VersionsExist'
  BY <1>1, <1>3, <1>4 DEF VersionsExist, Old, OldPiece, OldConnection, OldHandler
<1>6. RestTyped' /\ ServerInv' /\ ClientInv'
  BY <1>1, <1>3, ServerFrame, ClientFrame DEF RestTyped, clientVars
<1> QED
  BY <1>5, <1>6

LEMMA ElsewhereSafe == IndInv /\ Elsewhere /\ UNCHANGED clientVars => IndInv'
<1> SUFFICES ASSUME IndInv, Elsewhere, UNCHANGED clientVars PROVE IndInv'
  OBVIOUS
<1> USE Constants DEF IndInv
<1>1. CASE RegistryChanges
  <2>1. /\ registry' = registry + 1 /\ registry' \in 0..MaxVersion /\ cache' \in 0..registry'
        /\ UNCHANGED <<acceptor, handler, finished_fds, pusher, conn, lastConn, fds, client, current_fd,
                       cache>>
    BY <1>1 DEF RegistryChanges, VersionsExist, clientVars
  <2>2. Old \subseteq Old' /\ OldConnection \subseteq OldConnection' /\ OldHandler \subseteq OldHandler'
    BY <2>1, OldStays
  <2>3. VersionsExist'
    BY <2>1, <2>2 DEF VersionsExist
  <2> QED
    BY <2>1, <2>3, ServerFrame, ClientFrame DEF RestTyped, clientVars
<1>2. ASSUME NEW f \in Fds, UNCHANGED serverVars,
             OthersOpen(f) \/ (OthersClose(f) /\ acceptor # [pc |-> "blocked", fd |-> f])
      PROVE  IndInv'
  <2>1. UNCHANGED <<registry, acceptor, handler, finished_fds, pusher, conn, lastConn, client, current_fd,
                    cache>>
    BY <1>2 DEF OthersOpen, OthersClose, serverVars, clientVars
  <2>2. /\ fds' \in [Fds -> Conns \cup {Other, None}] /\ fds'[f] \in {Other, None}
        /\ \A g \in Fds : g # f => fds'[g] = fds[g]
        /\ fds[f] \in {Other, None}
        /\ acceptor.pc = "blocked" => acceptor.fd # f
    BY <1>2 DEF OthersOpen, OthersClose, RestTyped, ServerInv
  <2>3. VersionsExist'
    BY <2>1 DEF VersionsExist, Old, OldPiece, OldConnection, OldHandler
  <2>4. RestTyped'
    BY <2>1, <2>2 DEF RestTyped
  <2>5. ServerInv'
    BY <2>1, <2>2 DEF RestTyped, ServerInv, Busy, Alive
  <2> QED
    BY <2>1, <2>3, <2>4, <2>5, ClientFrame DEF clientVars
<1> QED
  BY <1>1, <1>2 DEF Elsewhere

LEMMA RestartSafe == IndInv /\ DeviceServerRestarts => IndInv'
<1> SUFFICES ASSUME IndInv, DeviceServerRestarts PROVE IndInv'
  OBVIOUS
<1> USE Constants DEF IndInv
<1>1. /\ registry' = registry + 1 /\ registry' \in 0..MaxVersion /\ cache' \in 0..registry'
      /\ acceptor' = [pc |-> "down", fd |-> None] /\ handler' = [f \in Fds |-> NoHandler]
      /\ finished_fds' = {} /\ pusher' = [p \in Pushers |-> IdlePusher] /\ fds' = [f \in Fds |-> None]
      /\ UNCHANGED <<lastConn, clientVars>>
  BY DEF DeviceServerRestarts, VersionsExist, clientVars
<1>2. Old \subseteq Old' /\ OldConnection \subseteq OldConnection' /\ OldHandler \subseteq OldHandler'
  BY <1>1, OldStays
<1>3. /\ conn' \in [Conns -> OldConnection]
      /\ \A i \in Conns : conn'[i].client = conn[i].client /\ conn'[i].server = "closed"
  <2>1. conn' = [i \in Conns |-> [client |-> conn[i].client, server |-> "closed",
                                 wire |-> conn[i].wire, command |-> FALSE]]
    BY DEF DeviceServerRestarts
  <2>2. \A i \in Conns : conn[i].client \in BOOLEAN /\ conn[i].wire \in Seq(OldPiece)
    BY DEF VersionsExist, OldConnection
  <2> QED
    BY <2>1, <2>2 DEF OldConnection
<1>4. handler' \in [Fds -> OldHandler'] /\ \A f \in Fds : handler'[f].pc = "none"
  BY <1>1 DEF NoHandler, OldHandler
<1>5. DOMAIN pusher' = Pushers /\ \A p \in Pushers : pusher'[p].pc = "idle"
  BY <1>1 DEF IdlePusher
<1>6. VersionsExist'
  BY <1>1, <1>2, <1>3, <1>4, <1>5 DEF VersionsExist
<1>7. RestTyped'
  BY <1>1 DEF RestTyped, clientVars
<1>8. ServerInv'
  BY <1>1, <1>3, <1>4 DEF ServerInv, Busy
<1> QED
  BY <1>1, <1>3, <1>6, <1>7, <1>8, ClientFrame

----------------------------------------------------------------------------
(* ClientServer.                                                             *)

\* A connection that the thread makes or ends.
LEMMA ClientOpensSafe ==
    ASSUME IndInv, UNCHANGED serverVars, ClientConnects \/ ClientCloses \/ ClientServerRestarts
    PROVE  IndInv'
<1> USE Constants DEF IndInv, serverVars
<1>1. CASE ClientConnects
  <2>1. PICK i \in Conns : i = lastConn + 1
    BY <1>1 DEF ClientConnects, RestTyped
  <2>2. /\ conn' = [conn EXCEPT ![i] = [client |-> TRUE, server |-> "queued", wire |-> <<>>, command |-> FALSE]]
        /\ client' = [pc |-> "set", sock |-> i, torn |-> FALSE] /\ lastConn' = i
        /\ client.pc = "connect" /\ UNCHANGED <<current_fd, cache, fds>>
    BY <1>1, <2>1 DEF ClientConnects
  <2>3. /\ conn' \in [Conns -> OldConnection] /\ conn'[i].client /\ conn'[i].server = "queued"
        /\ \A j \in Conns : j # i => conn'[j] = conn[j]
    BY <2>2 DEF VersionsExist, OldConnection
  <2>4. VersionsExist'
    BY <2>2, <2>3 DEF VersionsExist, Old, OldPiece, OldConnection, OldHandler
  <2>5. RestTyped'
    BY <2>1, <2>2 DEF RestTyped, Client
  <2>6. ServerInv'
    BY <2>1, <2>2, <2>3 DEF RestTyped, ServerInv, Busy, Alive
  <2>7. ClientInv'
    BY <2>1, <2>2, <2>3 DEF RestTyped, ClientInv
  <2> QED
    BY <2>4, <2>5, <2>6, <2>7
<1>2. CASE ClientCloses \/ ClientServerRestarts
  <2>1. PICK i \in Conns : i = client.sock
    BY <1>2 DEF ClientCloses, ClientServerRestarts, ClientInv, RestTyped, Client
  <2>2. /\ conn' = WithoutClient(i) /\ client' = ClientStart /\ UNCHANGED <<lastConn, fds>>
        /\ current_fd' = None /\ cache' \in 0..registry
    BY <1>2, <2>1 DEF ClientCloses, ClientServerRestarts, ClientInv, VersionsExist
  <2>3. /\ conn' \in [Conns -> OldConnection]
        /\ \A j \in Conns : conn'[j].server = conn[j].server
    BY <2>2 DEF WithoutClient, VersionsExist, OldConnection
  <2>4. VersionsExist'
    BY <2>2, <2>3 DEF VersionsExist, Old, OldPiece, OldConnection, OldHandler
  <2>5. RestTyped'
    BY <2>2 DEF RestTyped, Client, ClientStart
  <2>6. ServerInv'
    BY <2>2, <2>3, ServerFrame
  <2>7. ClientInv'
    BY <2>2 DEF ClientInv, ClientStart
  <2> QED
    BY <2>4, <2>5, <2>6, <2>7
<1> QED
  BY <1>1, <1>2

\* Steps of the thread that leave the connections alone.
LEMMA ClientMovesSafe ==
    ASSUME IndInv, UNCHANGED serverVars,
           ClientConnectFails \/ ClientRetries \/ ClientStoresFd \/ ClientResetsFd
           \/ ClientCallbackReturns \/ ClientDisconnected
    PROVE  IndInv'
<1> USE Constants DEF IndInv, serverVars
<1>1. UNCHANGED <<cache, conn, lastConn, fds>>
  BY DEF ClientConnectFails, ClientRetries, ClientStoresFd, ClientResetsFd, ClientCallbackReturns,
     ClientDisconnected, kernelVars
<1>2. VersionsExist'
  BY <1>1 DEF VersionsExist, Old, OldPiece, OldConnection, OldHandler
<1>3. RestTyped' /\ ClientInv'
  <2> USE <1>1 DEF ClientAt, RestTyped, Client, ClientInv
  <2>1. CASE ClientConnectFails \/ ClientRetries
    <3>1. client.sock = None /\ current_fd = None
      BY <2>1 DEF ClientConnectFails, ClientRetries
    <3>2. PICK pc \in {"wait", "connect"} : client' = [pc |-> pc, sock |-> None, torn |-> FALSE]
      BY <2>1, <3>1 DEF ClientConnectFails, ClientRetries
    <3>3. UNCHANGED current_fd
      BY <2>1 DEF ClientConnectFails, ClientRetries
    <3> QED
      BY <3>1, <3>2, <3>3
  <2>2. CASE ClientStoresFd
    BY <2>2 DEF ClientStoresFd
  <2>3. CASE ClientResetsFd
    BY <2>3 DEF ClientResetsFd
  <2>4. CASE ClientCallbackReturns
    BY <2>4 DEF ClientCallbackReturns
  <2>5. CASE ClientDisconnected
    BY <2>5 DEF ClientDisconnected
  <2> QED
    BY <2>1, <2>2, <2>3, <2>4, <2>5
<1> QED
  BY <1>1, <1>2, <1>3, ServerFrame

\* The next piece is one of those that were sent.
LEMMA NextPiece ==
    ASSUME IndInv, client.pc \in {"read", "body"}, Wire # <<>>, TakePiece
    PROVE  /\ Head(Wire) \in OldPiece
           /\ conn' \in [Conns -> OldConnection]
           /\ \A i \in Conns : conn'[i].client = conn[i].client /\ conn'[i].server = conn[i].server
<1> USE Constants DEF IndInv
<1>1. PICK i \in Conns : i = client.sock
  BY DEF ClientInv
<1>2. conn[i].wire \in Seq(OldPiece) /\ conn[i].wire # <<>> /\ Wire = conn[i].wire
      /\ conn' = [conn EXCEPT ![i].wire = Tail(conn[i].wire)]
  BY <1>1 DEF VersionsExist, OldConnection, Wire, TakePiece
<1>3. Tail(conn[i].wire) \in Seq(OldPiece) /\ Head(conn[i].wire) \in OldPiece
  BY <1>2
<1> QED
  BY <1>2, <1>3 DEF VersionsExist, OldConnection

LEMMA ClientReadsSafe ==
    ASSUME IndInv, UNCHANGED serverVars,
           ClientReadsHeader \/ ClientReadsGarbage \/ ClientReadsList \/ ClientReadsEvent \/ ClientReadsTorn
    PROVE  IndInv'
<1> USE Constants DEF IndInv, serverVars
<1>1. /\ client.pc \in {"read", "body"} /\ Wire # <<>> /\ TakePiece /\ UNCHANGED <<current_fd, lastConn, fds>>
  BY DEF ClientReadsHeader, ClientReadsGarbage, ClientReadsList, ClientReadsEvent, ClientReadsTorn
<1>2. /\ Head(Wire) \in OldPiece
      /\ conn' \in [Conns -> OldConnection]
      /\ \A i \in Conns : conn'[i].client = conn[i].client /\ conn'[i].server = conn[i].server
  BY <1>1, NextPiece
<1>3. cache' \in 0..registry
  <2>1. CASE ClientReadsList
    <3>1. Head(Wire).content \in Old /\ Head(Wire).content # Event /\ cache' = Head(Wire).content
      BY <1>2, <2>1 DEF ClientReadsList, OldPiece
    <3> QED
      BY <3>1 DEF Old
  <2>2. CASE UNCHANGED cache
    BY <2>2 DEF VersionsExist
  <2> QED
    BY <2>1, <2>2 DEF ClientReadsHeader, ClientReadsGarbage, ClientReadsEvent, ClientReadsTorn
<1>4. PICK pc \in {"read", "body", "callback"}, torn \in BOOLEAN :
         client' = [pc |-> pc, sock |-> client.sock, torn |-> torn] /\ (pc = "body" => ~torn)
  BY DEF ClientReadsHeader, ClientReadsGarbage, ClientReadsList, ClientReadsEvent, ClientReadsTorn, ClientAt
<1>5. VersionsExist'
  BY <1>1, <1>2, <1>3 DEF VersionsExist, Old, OldPiece, OldConnection, OldHandler
<1>6. RestTyped'
  BY <1>1, <1>4 DEF RestTyped, Client
<1>7. ClientInv'
  BY <1>1, <1>2, <1>4 DEF ClientInv, RestTyped, Client
<1> QED
  BY <1>1, <1>2, <1>5, <1>6, <1>7, ServerFrame

LEMMA CommandSafe == IndInv /\ UNCHANGED serverVars /\ ClientSendsCommand => IndInv'
<1> SUFFICES ASSUME IndInv, UNCHANGED serverVars, ClientSendsCommand PROVE IndInv'
  OBVIOUS
<1> USE Constants DEF IndInv, serverVars
<1>1. PICK i \in Conns : i = current_fd
  BY DEF ClientSendsCommand, RestTyped
<1>2. conn' = [conn EXCEPT ![i].command = TRUE] /\ UNCHANGED <<clientVars, lastConn, fds>>
  BY <1>1 DEF ClientSendsCommand
<1>3. /\ conn' \in [Conns -> OldConnection]
      /\ \A j \in Conns : conn'[j].client = conn[j].client /\ conn'[j].server = conn[j].server
  BY <1>2 DEF VersionsExist, OldConnection
<1>4. VersionsExist'
  BY <1>2, <1>3 DEF VersionsExist, Old, OldPiece, OldConnection, OldHandler, clientVars
<1> QED
  BY <1>2, <1>3, <1>4, ServerFrame, ClientFrame DEF RestTyped, clientVars

----------------------------------------------------------------------------
LEMMA InitHolds == Init => IndInv
<1> SUFFICES ASSUME Init PROVE IndInv
  OBVIOUS
<1> USE Constants DEF Init, LinkInit, ServerInit, ClientInit
<1>1. Unused \in OldConnection /\ NoHandler \in OldHandler
  BY DEF Unused, OldConnection, NoHandler, OldHandler
<1>2. VersionsExist
  BY <1>1 DEF VersionsExist, NoHandler, IdlePusher
<1>3. RestTyped
  BY DEF RestTyped, Client, ClientStart
<1>4. ServerInv
  BY DEF ServerInv, Busy, NoHandler, Unused
<1>5. ClientInv
  BY DEF ClientInv, ClientStart
<1> QED
  BY <1>2, <1>3, <1>4, <1>5 DEF IndInv

LEMMA StepSafe == IndInv /\ [Next]_vars => IndInv'
<1> SUFFICES ASSUME IndInv, [Next]_vars PROVE IndInv'
  OBVIOUS
<1>1. CASE DeviceServerSteps
  <2>1. UNCHANGED clientVars /\ Alive
    BY <1>1 DEF DeviceServerSteps
  <2>2. ASSUME NEW f \in Fds, HandlerThread(f) PROVE IndInv'
    BY <2>1, <2>2, HandlerSendsSafe, HandlerEndsSafe DEF HandlerThread
  <2>3. ASSUME NEW p \in Pushers, PusherReadsList(p) \/ PusherHasEvent(p) \/ Broadcast(p) PROVE IndInv'
    BY <2>1, <2>3, PushersSafe
  <2> QED
    BY <1>1, <2>1, <2>2, <2>3, AcceptThreadSafe, ElsewhereSafe DEF DeviceServerSteps
<1>2. CASE ClientServerSteps
  <2>1. UNCHANGED serverVars
    BY <1>2 DEF ClientServerSteps
  <2> QED
    BY <1>2, <2>1, ClientOpensSafe, ClientMovesSafe, ClientReadsSafe, CommandSafe
       DEF ClientServerSteps, ConnectionThread
<1>3. CASE UNCHANGED vars
  BY <1>3 DEF vars, kernelVars, serverVars, clientVars, IndInv, VersionsExist, RestTyped, ServerInv,
     ClientInv, Old, OldPiece, OldConnection, OldHandler, Busy, Alive
<1> QED
  BY <1>1, <1>2, <1>3, RestartSafe DEF Next

\* Every reachable state satisfies the invariant.
THEOREM InductiveInvariant == Spec => []IndInv
BY InitHolds, StepSafe, PTL DEF Spec

----------------------------------------------------------------------------
(* What follows from it.                                                     *)

\* The accept thread never waits in a join.
THEOREM JoinsAreImmediate == Spec => []JoinNeverWaits
<1>1. IndInv => JoinNeverWaits
  BY DEF IndInv, ServerInv, JoinNeverWaits
<1> QED
  BY <1>1, InductiveInvariant, PTL

\* Every connection that was accepted and not closed has a thread that will
\* close it.
THEOREM ConnectionsHaveOwners == Spec => []ConnectionsOwned
<1>1. IndInv => ConnectionsOwned
  BY DEF IndInv, ServerInv, ConnectionsOwned, Serves, Busy
<1> QED
  BY <1>1, InductiveInvariant, PTL

\* Commands and stop() only ever use a descriptor that ClientServer has open.
THEOREM CommandsUseOpenFd == Spec => []CurrentFdIsOpen
<1>1. IndInv => CurrentFdIsOpen
  BY DEF IndInv, RestTyped, ClientInv, CurrentFdIsOpen
<1> QED
  BY <1>1, InductiveInvariant, PTL

\* A client that is served has a connection to itself, which is open.
ServedAreConnected ==
    \A f \in Fds : Serves(f) =>
        /\ fds[f] \in Conns
        /\ conn[fds[f]].server = "open"
        /\ \A g \in Fds : g # f => fds[g] # fds[f]

\* The connection that a handler serves is open and no other handler's, however
\* descriptors are reused.
THEOREM HandlersAreConnected == Spec => []ServedAreConnected
<1>1. IndInv => ServedAreConnected
  BY DEF IndInv, ServerInv, ServedAreConnected, Serves, Busy
<1> QED
  BY <1>1, InductiveInvariant, PTL

----------------------------------------------------------------------------
(* The lists of descriptors, which the invariant so far says nothing of.      *)

Room == \A i \in Conns : Len(conn[i].wire) <= MaxPieces

PushersTyped ==
    /\ client_mutex \in Pushers \cup {None}
    /\ pusher \in [Pushers -> Pusher]
    /\ \A p \in Pushers : pusher[p].pc = "body" => pusher[p].todo # <<>>

Spawns(f) == acceptor.pc = "spawn" /\ acceptor.fd = f

\* A descriptor is in client_fds_ once from when the accept thread lists it
\* until its handler takes it out.  Nothing is said of the time between close()
\* and that: the number may be listed a second time.
Listing ==
    /\ client_fds \in Seq(Fds)
    /\ \A f \in Fds : Busy(f) => OccursOnce(f, client_fds)
    /\ Alive => \A f \in Fds :
          /\ Spawns(f) /\ handler[f].pc = "none" => OccursOnce(f, client_fds)
          /\ ~Spawns(f) /\ handler[f].pc \in {"none", "finish", "done"} => ~Occurs(f, client_fds)

ListInv == Room /\ PushersTyped /\ Listing

\* Wires that keep their length or are emptied.
LEMMA WiresStay ==
    ASSUME VersionsExist, Room,
           \A i \in Conns : conn'[i].wire = conn[i].wire \/ conn'[i].wire = <<>>
    PROVE  Room'
<1>1. Len(<<>>) = 0 /\ MaxPieces \in Nat
  BY LinkAssumption
<1> QED
  BY <1>1 DEF Room

\* A send adds a piece where it had room.
LEMMA SendRoom ==
    ASSUME VersionsExist, Room, NEW f, NEW q \in OldPiece, SendReturns(f), conn' = AfterSend(f, q)
    PROVE  Room'
<1>1. CASE Reaches(f)
  <2>1. PICK i \in Conns : i = fds[f]
    BY <1>1 DEF Reaches
  <2>2. /\ conn' = [conn EXCEPT ![i].wire = Append(conn[i].wire, q)]
        /\ Len(conn[i].wire) < MaxPieces /\ conn[i].wire \in Seq(OldPiece)
    BY <1>1, <2>1 DEF AfterSend, SendReturns, VersionsExist, OldConnection
  <2>3. Len(Append(conn[i].wire, q)) = Len(conn[i].wire) + 1 /\ Len(conn[i].wire) \in Nat
    BY <2>2
  <2>4. /\ conn'[i].wire = Append(conn[i].wire, q)
        /\ \A j \in Conns : j # i => conn'[j].wire = conn[j].wire
    BY <2>2 DEF VersionsExist, OldConnection
  <2> QED
    BY <2>2, <2>3, <2>4, LinkAssumption DEF Room
<1>2. CASE ~Reaches(f)
  BY <1>2, WiresStay DEF AfterSend
<1> QED
  BY <1>1, <1>2

LEMMA HandlersRoom ==
    ASSUME IndInv, Room, NEW f \in Fds, HandlerThread(f)
    PROVE  Room'
<1> USE DEF IndInv
<1>1. CASE HandlerSendsHeader(f) \/ HandlerSendsBody(f)
  <2>1. PICK part \in {"header", "body"} :
          SendReturns(f) /\ conn' = AfterSend(f, [part |-> part, content |-> handler[f].content])
          /\ handler[f].pc = part
    BY <1>1 DEF HandlerSendsHeader, HandlerSendsBody
  <2>2. PICK q \in OldPiece : q = [part |-> part, content |-> handler[f].content]
    BY <2>1 DEF VersionsExist, OldPiece
  <2> QED
    BY <2>1, <2>2, SendRoom
<1>2. CASE HandlerTakesCommand(f) \/ HandlerCloses(f)
  <2>1. PICK j : j = fds[f]
    OBVIOUS
  <2>2. \/ conn' = [conn EXCEPT ![j].command = FALSE]
        \/ conn' = [conn EXCEPT ![j].server = "closed", ![j].command = FALSE]
    BY <1>2, <2>1 DEF HandlerTakesCommand, HandlerCloses, WithoutServer
  <2>3. ASSUME NEW i \in Conns PROVE conn'[i].wire = conn[i].wire
    <3>1. conn \in [Conns -> OldConnection] /\ conn[i] \in OldConnection
      BY DEF VersionsExist
    <3>2. CASE i # j
      BY <2>2, <3>1, <3>2
    <3>3. CASE i = j
      BY <2>2, <3>1, <3>3 DEF OldConnection
    <3> QED
      BY <3>2, <3>3
  <2> QED
    BY <2>3, WiresStay
<1>3. CASE UNCHANGED conn
  BY <1>3, WiresStay
<1> QED
  BY <1>1, <1>2, <1>3 DEF HandlerThread, HandlerReadsList, HandlerDisconnected, HandlerUnlists,
     HandlerFinishes

LEMMA PushersRoom ==
    ASSUME IndInv, Room, NEW p \in Pushers, PusherReadsList(p) \/ PusherHasEvent(p) \/ Broadcast(p)
    PROVE  Room'
<1> USE DEF IndInv
<1>1. CASE PusherSendsHeader(p) \/ PusherSendsBody(p)
  <2>1. PICK f : f = Head(pusher[p].todo)
    OBVIOUS
  <2>2. PICK part \in {"header", "body"} :
          SendReturns(f) /\ conn' = AfterSend(f, [part |-> part, content |-> pusher[p].content])
          /\ pusher[p].pc = part
    BY <1>1, <2>1 DEF PusherSendsHeader, PusherSendsBody
  <2>3. PICK q \in OldPiece : q = [part |-> part, content |-> pusher[p].content]
    BY <2>2 DEF VersionsExist, OldPiece
  <2> QED
    BY <2>2, <2>3, SendRoom
<1>2. CASE UNCHANGED conn
  BY <1>2, WiresStay
<1> QED
  BY <1>1, <1>2 DEF Broadcast, PusherReadsList, PusherHasEvent, PusherLocks, PusherUnlocks

LEMMA ClientRoom ==
    ASSUME IndInv, Room, ConnectionThread \/ ClientSendsCommand \/ ClientServerRestarts
    PROVE  Room'
<1> USE DEF IndInv
<1>1. CASE TakePiece /\ client.pc \in {"read", "body"} /\ Wire # <<>>
  <2>1. PICK i \in Conns : i = client.sock
    BY <1>1 DEF ClientInv
  <2>2. /\ conn[i].wire \in Seq(OldPiece) /\ conn[i].wire # <<>>
        /\ conn' = [conn EXCEPT ![i].wire = Tail(conn[i].wire)]
    BY <1>1, <2>1 DEF VersionsExist, OldConnection, Wire, TakePiece
  <2>3. Len(Tail(conn[i].wire)) = Len(conn[i].wire) - 1 /\ Len(conn[i].wire) \in Nat
    BY <2>2
  <2>4. /\ conn'[i].wire = Tail(conn[i].wire)
        /\ \A j \in Conns : j # i => conn'[j].wire = conn[j].wire
    BY <2>2 DEF VersionsExist, OldConnection
  <2>5. Len(conn[i].wire) <= MaxPieces /\ MaxPieces \in Nat
    BY LinkAssumption DEF Room
  <2>6. Len(conn'[i].wire) <= MaxPieces
    BY <2>3, <2>4, <2>5
  <2> QED
    BY <2>4, <2>6 DEF Room
<1>2. CASE ClientConnects \/ ClientCloses \/ ClientSendsCommand \/ ClientServerRestarts
  <2>1. PICK j, ends :
          \/ conn' = [conn EXCEPT ![j].command = TRUE]
          \/ conn' = [conn EXCEPT ![j] = [client |-> ends.client, server |-> ends.server,
                                          wire |-> <<>>, command |-> FALSE]]
    <3>1. CASE ClientConnects
      <4> DEFINE ends == [client |-> TRUE, server |-> "queued"]
      <4>1. conn' = [conn EXCEPT ![lastConn + 1] = [client |-> ends.client, server |-> ends.server,
                                                   wire |-> <<>>, command |-> FALSE]]
        BY <3>1 DEF ClientConnects
      <4> QED
        BY <4>1
    <3>2. CASE ClientCloses \/ ClientServerRestarts
      <4> DEFINE ends == [client |-> FALSE, server |-> conn[client.sock].server]
      <4>1. conn' = [conn EXCEPT ![client.sock] = [client |-> ends.client, server |-> ends.server,
                                                   wire |-> <<>>, command |-> FALSE]]
        BY <3>2 DEF ClientCloses, ClientServerRestarts, WithoutClient
      <4> QED
        BY <4>1
    <3>3. CASE ClientSendsCommand
      BY <3>3 DEF ClientSendsCommand
    <3> QED
      BY <1>2, <3>1, <3>2, <3>3
  <2>2. ASSUME NEW i \in Conns PROVE conn'[i].wire = conn[i].wire \/ conn'[i].wire = <<>>
    <3>1. conn \in [Conns -> OldConnection] /\ conn[i] \in OldConnection
      BY DEF VersionsExist
    <3>2. CASE i # j
      BY <2>1, <3>1, <3>2
    <3>3. CASE i = j
      BY <2>1, <3>1, <3>3 DEF OldConnection
    <3> QED
      BY <3>2, <3>3
  <2> QED
    BY <2>2, WiresStay
<1>3. CASE UNCHANGED conn
  BY <1>3, WiresStay
<1> QED
  BY <1>1, <1>2, <1>3 DEF ConnectionThread, ClientConnectFails, ClientRetries, ClientStoresFd,
     ClientReadsHeader, ClientReadsGarbage, ClientReadsList, ClientReadsEvent, ClientCallbackReturns,
     ClientReadsTorn, ClientDisconnected, ClientResetsFd, kernelVars

LEMMA AcceptRoom == ASSUME IndInv, Room, AcceptThread \/ Elsewhere PROVE Room'
<1> USE DEF IndInv
<1>1. CASE AcceptorReturns
  <2>1. \A i \in Conns : conn'[i].wire = conn[i].wire
    BY <1>1 DEF AcceptorReturns, VersionsExist, OldConnection
  <2> QED
    BY <2>1, WiresStay
<1>2. CASE UNCHANGED conn
  BY <1>2, WiresStay
<1> QED
  BY <1>1, <1>2 DEF AcceptThread, ServerStarts, AcceptorCleansUp, AcceptorEnters, AcceptorFails,
     AcceptorLists, AcceptorSpawns, Elsewhere, RegistryChanges, OthersOpen, OthersClose

LEMMA RoomStep == ASSUME IndInv, Room, [Next]_vars PROVE Room'
<1>1. CASE DeviceServerSteps
  BY <1>1, AcceptRoom, HandlersRoom, PushersRoom DEF DeviceServerSteps
<1>2. CASE ClientServerSteps
  BY <1>2, ClientRoom DEF ClientServerSteps
<1>3. CASE DeviceServerRestarts
  <2>1. \A i \in Conns : conn'[i].wire = conn[i].wire
    BY <1>3 DEF DeviceServerRestarts
  <2> QED
    BY <2>1, WiresStay DEF IndInv
<1>4. CASE UNCHANGED vars
  BY <1>4, WiresStay DEF vars, kernelVars, IndInv
<1> QED
  BY <1>1, <1>2, <1>3, <1>4 DEF Next

\* The broadcasts.
LEMMA PushersTypedStep == ASSUME IndInv, PushersTyped, client_fds \in Seq(Fds), [Next]_vars PROVE PushersTyped'
<1>1. ASSUME NEW p \in Pushers, PusherReadsList(p) \/ PusherHasEvent(p) \/ Broadcast(p)
      PROVE  PushersTyped'
  <2>0. Content \subseteq Content \cup {None} /\ registry \in Content /\ Event \in Content
        /\ pusher[p] \in Pusher /\ <<>> \in Seq(Fds)
    BY EmptyIsSeq DEF IndInv, VersionsExist, Content, PushersTyped
  <2>1. PICK pc \in {"idle", "lock", "header", "body"}, content \in Content \cup {None}, todo \in Seq(Fds) :
           /\ pusher' = [pusher EXCEPT ![p] = [pc |-> pc, content |-> content, todo |-> todo]]
           /\ pc = "body" => todo # <<>>
    <3>1. CASE PusherReadsList(p)
      BY <2>0, <3>1 DEF PusherReadsList, PusherAt
    <3>2. CASE PusherHasEvent(p)
      BY <2>0, <3>2 DEF PusherHasEvent, PusherAt
    <3>3. CASE PusherLocks(p)
      BY <2>0, <3>3 DEF PusherLocks, PusherAt, Pusher
    <3>4. CASE PusherSendsHeader(p) \/ PusherSendsBody(p)
      <4>1. pusher[p].todo # <<>> /\ pusher[p].todo \in Seq(Fds) /\ pusher[p].content \in Content \cup {None}
        BY <2>0, <3>4 DEF PusherSendsHeader, PusherSendsBody, PushersTyped, Pusher
      <4>2. Tail(pusher[p].todo) \in Seq(Fds)
        BY <4>1
      <4>3. \/ PusherAt(p, "body", pusher[p].content, pusher[p].todo)
            \/ PusherAt(p, "header", pusher[p].content, Tail(pusher[p].todo))
        BY <3>4 DEF PusherSendsHeader, PusherSendsBody
      <4> QED
        BY <4>1, <4>2, <4>3 DEF PusherAt
    <3>5. CASE PusherUnlocks(p)
      BY <2>0, <3>5 DEF PusherUnlocks, PusherAt
    <3> QED
      BY <1>1, <3>1, <3>2, <3>3, <3>4, <3>5 DEF Broadcast
  <2>2. [pc |-> pc, content |-> content, todo |-> todo] \in Pusher
    BY DEF Pusher
  <2>3. client_mutex' \in Pushers \cup {None}
    BY <1>1 DEF PusherReadsList, PusherHasEvent, Broadcast, PusherLocks, PusherSendsHeader,
       PusherSendsBody, PusherUnlocks, PushersTyped
  <2> QED
    BY <2>1, <2>2, <2>3 DEF PushersTyped
<1>2. CASE UNCHANGED <<pusher, client_mutex>>
  BY <1>2 DEF PushersTyped
<1>3. CASE DeviceServerRestarts
  <2>1. IdlePusher \in Pusher /\ IdlePusher.pc = "idle"
    BY DEF IdlePusher, Pusher
  <2> QED
    BY <1>3, <2>1 DEF DeviceServerRestarts, PushersTyped
<1>4. CASE DeviceServerSteps
  <2>1. AcceptThread \/ Elsewhere => UNCHANGED <<pusher, client_mutex>>
    BY DEF AcceptThread, ServerStarts, AcceptorCleansUp, AcceptorEnters, AcceptorFails, AcceptorReturns,
       AcceptorLists, AcceptorSpawns, Elsewhere, RegistryChanges, serverVars
  <2>2. \A f \in Fds : HandlerThread(f) => UNCHANGED <<pusher, client_mutex>>
    BY DEF HandlerThread, HandlerReadsList, HandlerSendsHeader, HandlerSendsBody, HandlerTakesCommand,
       HandlerDisconnected, HandlerCloses, HandlerUnlists, HandlerFinishes, HandlerLeaves
  <2> QED
    BY <1>1, <1>2, <1>4, <2>1, <2>2 DEF DeviceServerSteps
<1> QED
  BY <1>2, <1>3, <1>4 DEF Next, ClientServerSteps, vars, serverVars

\* A step that lists and unlists nobody, starts no handler and gives no number
\* back.
LEMMA ListingFrame ==
    ASSUME Listing, UNCHANGED client_fds, Alive' => Alive,
           acceptor'.pc = "spawn" \/ acceptor.pc = "spawn" => acceptor' = acceptor,
           \A f \in Fds :
              /\ Busy(f)' => Busy(f)
              /\ handler'[f].pc \in {"none", "finish", "done"} => handler[f].pc \in {"none", "finish", "done"}
              /\ handler'[f].pc = "none" /\ acceptor.pc = "spawn" => handler[f].pc = "none"
    PROVE  Listing'
<1>1. \A f \in Fds : Spawns(f)' <=> Spawns(f)
  BY DEF Spawns
<1> QED
  BY <1>1 DEF Listing, Spawns

LEMMA AcceptorListing == ASSUME IndInv, Listing, Alive, AcceptThread PROVE Listing'
<1> USE DEF IndInv
<1>1. CASE AcceptorCleansUp
  <2>1. \A f \in Fds : handler'[f].pc = IF f \in finished_fds THEN "none" ELSE handler[f].pc
    BY <1>1 DEF AcceptorCleansUp, NoHandler
  <2>2. \A f \in finished_fds : handler[f].pc = "done"
    BY DEF ServerInv
  <2> QED
    BY <1>1, <2>1, <2>2, ListingFrame DEF AcceptorCleansUp, AcceptorAt, Alive, Busy
<1>2. CASE ServerStarts \/ AcceptorFails \/ AcceptorReturns \/ \E f \in Fds : AcceptorEnters(f)
  BY <1>2, ListingFrame
     DEF ServerStarts, AcceptorFails, AcceptorReturns, AcceptorEnters, AcceptorAt, Alive, Busy
<1>3. CASE AcceptorLists
  <2>1. PICK f \in Fds : f = acceptor.fd
    BY <1>3 DEF AcceptorLists, ServerInv
  <2>2. /\ ~Busy(f) /\ UNCHANGED handler /\ client_fds' = Append(client_fds, f)
        /\ acceptor.pc = "list" /\ acceptor' = [pc |-> "spawn", fd |-> f]
    BY <1>3, <2>1 DEF AcceptorLists, AcceptorAt, ServerInv
  <2>3. client_fds \in Seq(Fds)
    BY DEF Listing
  <2>4. \A g \in Fds : /\ Occurs(g, client_fds') <=> g = f \/ Occurs(g, client_fds)
                       /\ OccursOnce(g, client_fds') <=>
                             IF g = f THEN ~Occurs(g, client_fds) ELSE OccursOnce(g, client_fds)
    <3>1. PICK s \in Seq(Fds) : s = client_fds
      BY <2>3
    <3>2. \A g \in Fds : /\ Occurs(g, Append(s, f)) <=> g = f \/ Occurs(g, s)
                         /\ OccursOnce(g, Append(s, f)) <=>
                               IF g = f THEN ~Occurs(g, s) ELSE OccursOnce(g, s)
      BY OccursAppend
    <3> QED
      BY <2>2, <3>1, <3>2
  <2>5. client_fds' \in Seq(Fds)
    BY <2>2, <2>3
  <2>6. \A g \in Fds : ~Spawns(g) /\ (Spawns(g)' <=> g = f)
    BY <2>2 DEF Spawns
  <2>7. ASSUME NEW g \in Fds, Busy(g)' PROVE OccursOnce(g, client_fds')
    BY <2>2, <2>4, <2>7 DEF Busy, Listing
  <2>8. ASSUME NEW g \in Fds, Spawns(g)', handler'[g].pc = "none" PROVE OccursOnce(g, client_fds')
    BY <2>2, <2>4, <2>6, <2>8 DEF Listing
  <2>9. ASSUME NEW g \in Fds, ~Spawns(g)', handler'[g].pc \in {"none", "finish", "done"}
        PROVE  ~Occurs(g, client_fds')
    BY <2>2, <2>4, <2>6, <2>9 DEF Listing
  <2> QED
    BY <2>5, <2>7, <2>8, <2>9 DEF Listing
<1>4. CASE AcceptorSpawns
  <2>1. PICK f \in Fds : f = acceptor.fd
    BY <1>4 DEF AcceptorSpawns, ServerInv
  <2>2. CASE handler[f].pc = "none"
    <3>1. /\ acceptor.pc = "spawn" /\ acceptor' = [pc |-> "cleanup", fd |-> None]
          /\ handler'[f].pc = "read" /\ \A g \in Fds : g # f => handler'[g] = handler[g]
          /\ UNCHANGED client_fds
      BY <1>4, <2>1, <2>2 DEF AcceptorSpawns, AcceptorAt, VersionsExist
    <3>2. \A g \in Fds : ~Spawns(g)' /\ (Spawns(g) <=> g = f)
      BY <2>1, <3>1 DEF Spawns
    <3>3. OccursOnce(f, client_fds)
      BY <2>2, <3>2 DEF Listing
    <3>4. ASSUME NEW g \in Fds, Busy(g)' PROVE OccursOnce(g, client_fds')
      BY <3>1, <3>3, <3>4 DEF Busy, Listing
    <3>5. ASSUME NEW g \in Fds, handler'[g].pc \in {"none", "finish", "done"}
          PROVE  ~Occurs(g, client_fds')
      <4>1. g # f
        BY <3>1, <3>5
      <4> QED
        BY <3>1, <3>2, <3>5, <4>1 DEF Listing
    <3> QED
      BY <3>1, <3>2, <3>4, <3>5 DEF Listing
  <2>3. CASE handler[f].pc # "none"
    <3>1. ~Alive' /\ UNCHANGED <<handler, client_fds>>
      BY <1>4, <2>1, <2>3 DEF AcceptorSpawns, AcceptorAt, Alive
    <3> QED
      BY <3>1 DEF Listing, Busy
  <2> QED
    BY <2>2, <2>3
<1> QED
  BY <1>1, <1>2, <1>3, <1>4 DEF AcceptThread

LEMMA HandlerListing == ASSUME IndInv, Listing, NEW f \in Fds, HandlerThread(f) PROVE Listing'
<1>1. /\ \A g \in Fds : g # f => handler'[g] = handler[g]
      /\ UNCHANGED acceptor
  <2>1. UNCHANGED acceptor
    BY DEF HandlerThread, HandlerReadsList, HandlerSendsHeader, HandlerSendsBody, HandlerTakesCommand,
       HandlerDisconnected, HandlerCloses, HandlerUnlists, HandlerFinishes, HandlerLeaves
  <2>2. UNCHANGED handler \/ \E new : handler' = [handler EXCEPT ![f] = new]
    BY DEF HandlerThread, HandlerReadsList, HandlerSendsHeader, HandlerSendsBody, HandlerTakesCommand,
       HandlerDisconnected, HandlerCloses, HandlerUnlists, HandlerFinishes, HandlerAt
  <2> QED
    BY <2>1, <2>2 DEF IndInv, VersionsExist
<1>2. CASE HandlerUnlists(f)
  <2>1. handler[f].pc = "unlist" /\ handler'[f].pc = "finish"
    BY <1>2 DEF HandlerUnlists, HandlerAt, IndInv, VersionsExist
  <2>2. client_fds \in Seq(Fds) /\ client_fds' = Keep(client_fds, Fds \ {f})
    BY <1>2 DEF HandlerUnlists, Listing
  <2>3. /\ client_fds' \in Seq(Fds) /\ ~Occurs(f, client_fds')
        /\ \A g \in Fds \ {f} : /\ Occurs(g, client_fds') <=> Occurs(g, client_fds)
                                /\ OccursOnce(g, client_fds') <=> OccursOnce(g, client_fds)
    <3>1. PICK s \in Seq(Fds) : s = client_fds
      BY <2>2
    <3>2. Keep(s, Fds \ {f}) \in Seq(Fds \cap (Fds \ {f}))
      BY KeepType
    <3>3. Seq(Fds \cap (Fds \ {f})) \subseteq Seq(Fds)
      OBVIOUS
    <3>4. \A g \in Fds : /\ Occurs(g, Keep(s, Fds \ {f})) <=> g \in Fds \ {f} /\ Occurs(g, s)
                         /\ OccursOnce(g, Keep(s, Fds \ {f})) <=> g \in Fds \ {f} /\ OccursOnce(g, s)
      BY KeepOccurs
    <3> QED
      BY <2>2, <3>1, <3>2, <3>3, <3>4
  <2>4. ASSUME NEW g \in Fds, Busy(g)' PROVE OccursOnce(g, client_fds')
    BY <1>1, <2>1, <2>3, <2>4 DEF Busy, Listing
  <2>5. \A g \in Fds : Spawns(g)' <=> Spawns(g)
    BY <1>1 DEF Spawns
  <2>6. ASSUME Alive', NEW g \in Fds, Spawns(g)', handler'[g].pc = "none" PROVE OccursOnce(g, client_fds')
    BY <1>1, <2>1, <2>3, <2>5, <2>6 DEF Alive, Listing
  <2>7. ASSUME Alive', NEW g \in Fds, ~Spawns(g)', handler'[g].pc \in {"none", "finish", "done"}
        PROVE  ~Occurs(g, client_fds')
    BY <1>1, <2>1, <2>3, <2>5, <2>7 DEF Alive, Listing
  <2> QED
    BY <2>3, <2>4, <2>6, <2>7 DEF Listing
<1>3. CASE ~HandlerUnlists(f)
  <2>1. UNCHANGED client_fds
    BY <1>3 DEF HandlerThread, HandlerReadsList, HandlerSendsHeader, HandlerSendsBody, HandlerTakesCommand,
       HandlerDisconnected, HandlerCloses, HandlerFinishes
  <2>2. \/ Busy(f) /\ handler'[f].pc \in {"header", "body", "serve", "close", "unlist"}
        \/ handler[f].pc = "finish" /\ handler'[f].pc = "done"
    BY <1>3 DEF HandlerThread, HandlerReadsList, HandlerSendsHeader, HandlerSendsBody, HandlerTakesCommand,
       HandlerDisconnected, HandlerCloses, HandlerFinishes, HandlerAt, IndInv, VersionsExist, Busy
  <2>3. \A g \in Fds :
              /\ Busy(g)' => Busy(g)
              /\ handler'[g].pc \in {"none", "finish", "done"} => handler[g].pc \in {"none", "finish", "done"}
              /\ handler'[g].pc = "none" /\ acceptor.pc = "spawn" => handler[g].pc = "none"
    BY <1>1, <2>2 DEF Busy
  <2> QED
    BY <1>1, <2>1, <2>3, ListingFrame DEF Alive
<1> QED
  BY <1>2, <1>3

LEMMA ListingStep == ASSUME IndInv, Listing, [Next]_vars PROVE Listing'
<1>1. CASE UNCHANGED <<handler, acceptor, client_fds>>
  BY <1>1, ListingFrame DEF Alive, Busy
<1>2. CASE DeviceServerSteps
  <2>1. ASSUME NEW p \in Pushers, PusherReadsList(p) \/ PusherHasEvent(p) \/ Broadcast(p)
        PROVE  UNCHANGED <<handler, acceptor, client_fds>>
    BY <2>1 DEF PusherReadsList, PusherHasEvent, Broadcast, PusherLocks, PusherSendsHeader,
       PusherSendsBody, PusherUnlocks, PusherLeaves
  <2>2. Elsewhere => UNCHANGED <<handler, acceptor, client_fds>>
    BY DEF Elsewhere, RegistryChanges, serverVars
  <2> QED
    BY <1>1, <1>2, <2>1, <2>2, AcceptorListing, HandlerListing DEF DeviceServerSteps
<1>3. CASE DeviceServerRestarts
  <2>1. /\ client_fds' = <<>> /\ acceptor'.pc = "down" /\ \A f \in Fds : handler'[f].pc = "none"
    BY <1>3 DEF DeviceServerRestarts, NoHandler
  <2>2. <<>> \in Seq(Fds)
    BY EmptyIsSeq
  <2> QED
    BY <2>1, <2>2 DEF Listing, Busy, Spawns, Occurs
<1> QED
  BY <1>1, <1>2, <1>3 DEF Next, ClientServerSteps, vars, serverVars

\* Every reachable state lists descriptors as their handlers' points say.
THEOREM ListsAreKept == Spec => []ListInv
<1>1. Init => ListInv
  <2> SUFFICES ASSUME Init PROVE ListInv
    OBVIOUS
  <2>1. Room
    BY LinkAssumption DEF Init, LinkInit, Unused, Room
  <2>2. IdlePusher \in Pusher /\ IdlePusher.pc = "idle"
    BY DEF IdlePusher, Pusher
  <2>3. PushersTyped
    BY <2>2 DEF Init, ServerInit, PushersTyped
  <2>4. Listing
    BY EmptyIsSeq DEF Init, ServerInit, NoHandler, Listing, Busy, Spawns, Occurs
  <2> QED
    BY <2>1, <2>3, <2>4 DEF ListInv
<1>2. IndInv /\ ListInv /\ [Next]_vars => ListInv'
  BY RoomStep, PushersTypedStep, ListingStep DEF ListInv, Listing
<1> QED
  BY <1>1, <1>2, InductiveInvariant, PTL DEF Spec

\* Every variable keeps its type, and the kernel's buffers their bound.
THEOREM TypeCorrect == Spec => []TypeOK
<1>1. IndInv /\ ListInv => TypeOK
  <2> SUFFICES ASSUME IndInv, ListInv PROVE TypeOK
    OBVIOUS
  <2> USE Constants DEF IndInv, ListInv
  <2>1. Old \subseteq Content /\ cache \in 0..MaxVersion
    BY DEF VersionsExist, Old, Content
  <2>2. Seq(OldPiece) \subseteq Seq(Piece)
    <3>1. OldPiece \subseteq Piece
      BY <2>1 DEF OldPiece, Piece
    <3> QED
      BY <3>1
  <2>3. OldConnection \subseteq Connection /\ OldHandler \subseteq Handler
    BY <2>1, <2>2 DEF OldConnection, Connection, OldHandler, Handler
  <2>4. LinkTypeOK
    BY <2>3 DEF LinkTypeOK, VersionsExist, RestTyped, Room
  <2>5. ServerTypeOK
    BY <2>3 DEF ServerTypeOK, VersionsExist, RestTyped, PushersTyped, Listing
  <2>6. ClientTypeOK
    BY <2>1 DEF ClientTypeOK, RestTyped
  <2> QED
    BY <2>4, <2>5, <2>6 DEF TypeOK
<1> QED
  BY <1>1, InductiveInvariant, ListsAreKept, PTL

\* A client that is served is in client_fds_ once, under a descriptor that is
\* open: it gets every broadcast once, however the numbers are reused.
THEOREM ServedGetBroadcastsOnce == Spec => []ServedAreListed
<1>1. IndInv /\ ListInv => ServedAreListed
  BY DEF IndInv, ListInv, ServerInv, Listing, ServedAreListed, Serves, Busy
<1> QED
  BY <1>1, InductiveInvariant, ListsAreKept, PTL

----------------------------------------------------------------------------
(* The refinement of PushedList, without its fairness.                        *)

LEMMA InitRefines == Init => PL!ListInit
BY DEF Init, LinkInit, ServerInit, ClientInit, ClientStart, PL!ListInit, InStep

\* A step that leaves both lists alone may take the link in or out of step.
LEMMA StepAside == UNCHANGED <<registry, cache>> => [PL!ListNext]_(PL!listVars)
BY DEF PL!ListNext, PL!LinkChanges, PL!listVars, InStep

LEMMA StepRefines == IndInv /\ [Next]_vars => [PL!ListNext]_(PL!listVars)
<1> SUFFICES ASSUME IndInv, [Next]_vars PROVE [PL!ListNext]_(PL!listVars)
  OBVIOUS
<1>1. CASE UNCHANGED <<registry, cache>>
  BY <1>1, StepAside
<1>2. CASE DeviceServerRestarts
  <2>1. registry' = registry + 1 /\ UNCHANGED cache /\ fds' = [f \in Fds |-> None]
    BY <1>2 DEF DeviceServerRestarts, clientVars
  <2>2. ~InStep'
    BY <2>1 DEF InStep
  <2> QED
    BY <2>1, <2>2 DEF PL!ListNext, PL!ListLost
<1>3. CASE RegistryChanges /\ UNCHANGED clientVars
  <2>1. registry' = registry + 1 /\ UNCHANGED cache /\ (InStep' <=> InStep)
    BY <1>3 DEF RegistryChanges, clientVars, InStep, Serves, Alive
  <2> QED
    BY <2>1 DEF PL!ListNext, PL!Change
<1>4. CASE ClientReadsList /\ UNCHANGED serverVars
  <2>1. cache' \in 0..registry
    BY <1>4, ClientReadsSafe DEF IndInv, VersionsExist, serverVars
  <2>2. /\ UNCHANGED <<registry, acceptor, handler, fds>>
        /\ client'.sock = client.sock /\ client'.torn = FALSE /\ client.torn = FALSE
    BY <1>4 DEF ClientReadsList, ClientAt, serverVars, IndInv, ClientInv, RestTyped, Client
  <2>3. InStep' <=> InStep
    BY <2>2 DEF InStep, Serves, Alive
  <2> QED
    BY <2>1, <2>2, <2>3 DEF PL!ListNext, PL!Learn
<1>5. CASE ClientServerRestarts /\ UNCHANGED serverVars
  <2>1. UNCHANGED registry /\ cache' = 0 /\ client'.sock = None
    BY <1>5 DEF ClientServerRestarts, ClientStart, serverVars
  <2>2. ~InStep'
    BY <2>1 DEF InStep
  <2> QED
    BY <2>1, <2>2 DEF PL!ListNext, PL!CopyLost
<1>6. CASE DeviceServerSteps
  <2>1. UNCHANGED clientVars /\ (UNCHANGED registry \/ RegistryChanges)
    <3>1. UNCHANGED clientVars
      BY <1>6 DEF DeviceServerSteps
    <3>2. AcceptThread => UNCHANGED registry
      BY DEF AcceptThread, ServerStarts, AcceptorCleansUp, AcceptorEnters, AcceptorFails, AcceptorReturns,
         AcceptorLists, AcceptorSpawns
    <3>3. \A f \in Fds : HandlerThread(f) => UNCHANGED registry
      BY DEF HandlerThread, HandlerReadsList, HandlerSendsHeader, HandlerSendsBody, HandlerTakesCommand,
         HandlerDisconnected, HandlerCloses, HandlerUnlists, HandlerFinishes, HandlerLeaves
    <3>4. \A p \in Pushers : PusherReadsList(p) \/ PusherHasEvent(p) \/ Broadcast(p) => UNCHANGED registry
      BY DEF PusherReadsList, PusherHasEvent, Broadcast, PusherLocks, PusherSendsHeader, PusherSendsBody,
         PusherUnlocks, PusherLeaves
    <3>5. Elsewhere => UNCHANGED registry \/ RegistryChanges
      BY DEF Elsewhere, serverVars
    <3> QED
      BY <1>6, <3>1, <3>2, <3>3, <3>4, <3>5 DEF DeviceServerSteps
  <2> QED
    BY <1>1, <1>3, <2>1 DEF clientVars
<1>7. CASE ClientServerSteps
  <2>1. UNCHANGED serverVars /\ (UNCHANGED cache \/ ClientReadsList \/ ClientServerRestarts)
    BY <1>7 DEF ClientServerSteps, ConnectionThread, ClientConnects, ClientConnectFails, ClientRetries,
       ClientStoresFd, ClientReadsHeader, ClientReadsGarbage, ClientReadsEvent, ClientCallbackReturns,
       ClientReadsTorn, ClientDisconnected, ClientResetsFd, ClientCloses, ClientSendsCommand, clientVars
  <2> QED
    BY <1>1, <1>4, <1>5, <2>1 DEF serverVars
<1>8. CASE UNCHANGED vars
  BY <1>1, <1>8 DEF vars, serverVars, clientVars
<1> QED
  BY <1>2, <1>6, <1>7, <1>8 DEF Next

\* ClientServer's copy never shows a list that DeviceServer has not had, and
\* changes only as PushedList says: the safety part of KeepsPromise.
THEOREM CopyFollowsList == Spec => PL!ListInit /\ [][PL!ListNext]_(PL!listVars)
<1>1. Init => PL!ListInit
  BY InitRefines
<1>2. IndInv /\ [Next]_vars => [PL!ListNext]_(PL!listVars)
  BY StepRefines
<1> QED
  BY <1>1, <1>2, InductiveInvariant, PTL DEF Spec
============================================================================
