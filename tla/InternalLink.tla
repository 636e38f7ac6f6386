---------------------------- MODULE InternalLink ----------------------------
(* The link between DeviceServer and ClientServer: InternalServer and         *)
(* InternalClient over TCP, with restarts of either program.                 *)
EXTENDS InternalServer, InternalClient

vars == <<kernelVars, serverVars, clientVars>>

Init == LinkInit /\ ServerInit /\ ClientInit

----------------------------------------------------------------------------
(* DeviceServer's threads.                                                   *)

AcceptThread ==
    \/ ServerStarts
    \/ AcceptorCleansUp
    \/ \E f \in Fds : AcceptorEnters(f)
    \/ AcceptorFails
    \/ AcceptorReturns
    \/ AcceptorLists
    \/ AcceptorSpawns

HandlerThread(f) ==
    \/ HandlerReadsList(f)
    \/ HandlerSendsHeader(f)
    \/ HandlerSendsBody(f)
    \/ HandlerTakesCommand(f)
    \/ HandlerDisconnected(f)
    \/ HandlerCloses(f)
    \/ HandlerUnlists(f)
    \/ HandlerFinishes(f)

\* A broadcast that has begun.
Broadcast(p) ==
    \/ PusherLocks(p)
    \/ PusherSendsHeader(p)
    \/ PusherSendsBody(p)
    \/ PusherUnlocks(p)

\* The rest of DeviceServer: its lists, its other descriptors.
Elsewhere ==
    \/ RegistryChanges
    \/ \E f \in Fds :
          /\ OthersOpen(f) \/ (OthersClose(f) /\ acceptor # [pc |-> "blocked", fd |-> f])
          /\ UNCHANGED serverVars

DeviceServerSteps ==
    /\ Alive
    /\ \/ AcceptThread
       \/ \E f \in Fds : HandlerThread(f)
       \/ \E p \in Pushers : PusherReadsList(p) \/ PusherHasEvent(p) \/ Broadcast(p)
       \/ Elsewhere
    /\ UNCHANGED clientVars

\* DeviceServer ends, in whatever way, and is started again: it begins with no
\* devices, which is one more version of the list.
DeviceServerRestarts ==
    /\ acceptor.pc # "down"
    /\ registry < MaxVersion
    /\ registry' = registry + 1
    /\ acceptor' = [pc |-> "down", fd |-> None]
    /\ handler' = [f \in Fds |-> NoHandler]
    /\ client_fds' = <<>>
    /\ client_mutex' = None
    /\ finished_fds' = {}
    /\ pusher' = [p \in Pushers |-> IdlePusher]
    /\ fds' = [f \in Fds |-> None]
    /\ conn' = [i \in Conns |-> [client |-> conn[i].client, server |-> "closed",
                                 wire |-> conn[i].wire, command |-> FALSE]]
    /\ UNCHANGED <<lastConn, clientVars>>

----------------------------------------------------------------------------
(* ClientServer's threads.                                                   *)

ConnectionThread ==
    \/ Listening /\ ClientConnects
    \/ ~Listening /\ ClientConnectFails
    \/ ClientRetries
    \/ ClientStoresFd
    \/ ClientReadsHeader
    \/ ClientReadsGarbage
    \/ ClientReadsList
    \/ ClientReadsEvent
    \/ ClientCallbackReturns
    \/ ClientReadsTorn
    \/ ClientDisconnected
    \/ ClientResetsFd
    \/ ClientCloses

ClientServerSteps ==
    /\ ConnectionThread \/ ClientSendsCommand \/ ClientServerRestarts
    /\ UNCHANGED serverVars

Next == DeviceServerSteps \/ DeviceServerRestarts \/ ClientServerSteps

Spec == Init /\ [][Next]_vars

----------------------------------------------------------------------------
(* Fairness.  Every thread that can run eventually does.  Strong fairness for  *)
(* DeviceServer's threads says that a mutex and the room in a socket's buffer  *)
(* are in the end given to everyone who waits for them.  The monitor pushes   *)
(* again and again.  Nobody need send an event or a command, change the list, *)
(* restart, or use another descriptor.                                       *)
Fairness ==
    /\ SF_vars(Alive /\ AcceptThread /\ UNCHANGED clientVars)
    /\ \A f \in Fds : SF_vars(Alive /\ HandlerThread(f) /\ UNCHANGED clientVars)
    /\ \A p \in Pushers : SF_vars(Alive /\ Broadcast(p) /\ UNCHANGED clientVars)
    /\ WF_vars(Alive /\ PusherReadsList(Monitor) /\ UNCHANGED clientVars)
    /\ WF_vars(ConnectionThread /\ UNCHANGED serverVars)

FairSpec == Spec /\ Fairness

----------------------------------------------------------------------------
(* Types.                                                                    *)

\* Every variable keeps its type.
TypeOK == LinkTypeOK /\ ServerTypeOK /\ ClientTypeOK

----------------------------------------------------------------------------
(* Safety.                                                                   *)

\* f's handler serves its client or is in its welcome push.
Serves(f) == handler[f].pc \in {"read", "header", "body", "serve"}

\* A client that is served gets every broadcast once: its descriptor is open
\* and in client_fds_ exactly once, however the numbers are reused.
ServedAreListed ==
    \A f \in Fds : Serves(f) =>
        /\ fds[f] \in Conns
        /\ conn[fds[f]].server = "open"
        /\ OccursOnce(f, client_fds)

\* The accept thread never waits in a join: whoever is in finished_fds_ has
\* done everything, and the entry does not outlive the thread it names.
JoinNeverWaits == \A f \in finished_fds : handler[f].pc = "done"

\* Every connection that was accepted and not closed has a thread that will
\* close it: the accept thread before it starts the handler, then the handler.
ConnectionsOwned ==
    Alive => \A f \in Fds : fds[f] \in Conns =>
        \/ acceptor.pc \in {"list", "spawn"} /\ acceptor.fd = f
        \/ Serves(f)
        \/ handler[f].pc = "close"

\* Commands and stop() only ever use a descriptor that ClientServer has open:
\* it is reset before it is closed.
CurrentFdIsOpen == current_fd # None => conn[current_fd].client /\ current_fd = client.sock

----------------------------------------------------------------------------
(* Liveness and refinement.                                                  *)

\* The client's connection is served and read in step.
InStep ==
    /\ client.sock # None
    /\ ~client.torn
    /\ Alive
    /\ \E f \in Fds : fds[f] = client.sock /\ Serves(f)

PL == INSTANCE PushedList WITH inStep <- InStep

\* The link keeps the promise of PushedList.
KeepsPromise == PL!ListSpec

\* A client that has connected is served, unless it or the server goes away
\* first.
ConnectedIsServed ==
    client.sock # None ~> \/ InStep \/ client.torn
                          \/ client.sock = None
                          \/ acceptor.pc \in {"down", "aborted", "ended"}

\* A motor command that was sent is taken from the connection, unless the
\* connection ends.
CommandsTaken ==
    \A i \in Conns : conn[i].command ~> \/ ~conn[i].command
                                        \/ acceptor.pc \in {"aborted", "ended"}

----------------------------------------------------------------------------
(* What comments and documents say of the code and the runs find otherwise.   *)

\* Packets arrive as header and body, one after the other.
PacketsInStep == ~client.torn

\* client_fds_ holds the descriptors of connected clients.
ListedAreConnected ==
    \A f \in Fds : Occurs(f, client_fds) => fds[f] \in Conns /\ conn[fds[f]].server = "open"

\* The accept loop joins and removes a finished thread before its descriptor's
\* next thread is stored.
FinishedAreRemoved == acceptor.pc = "spawn" => handler[acceptor.fd].pc = "none"
============================================================================
