----------------------------- MODULE QtService -----------------------------
(* QtCommServer under its Qt clients, ClientController's main loop and         *)
(* InternalClient's events: the behaviours, and what they must satisfy.      *)
EXTENDS QtCommServer

AcceptThread ==
    \/ AcceptorCleansUp
    \/ AcceptorStops
    \/ \E f \in Fds : AcceptorEnters(f)
    \/ AcceptorFails
    \/ AcceptorIsInterrupted
    \/ AcceptorReturns
    \/ AcceptorLists
    \/ AcceptorSpawns

Sending(t) ==
    /\ ~Interrupts(t)
    /\ \/ CastLocks(t)
       \/ CastSkips(t)
       \/ SendLooksUp(t)
       \/ SendsHeader(t)
       \/ SendsBody(t)
       \/ SendEnds(t)

\* What a handler does with what its client sends; the client chooses.
HandlerReceives(f) ==
    \/ HandlerShakesHands(f)
    \/ HandlerRejects(f)
    \/ HandlerReplies(f)
    \/ HandlerBroadcasts(f)
    \/ HandlerLogsIn(f)

HandlerContinues(f) ==
    \/ HandlerMakesSession(f)
    \/ HandlerGivesUp(f)
    \/ HandlerSendsRaw(f)
    \/ HandlerSetsRole(f)
    \/ HandlerDisconnected(f)
    \/ HandlerCloses(f)
    \/ HandlerUnlists(f)
    \/ HandlerDropsSession(f)
    \/ HandlerFinishes(f)

Stopping ==
    \/ StopJoinsLink
    \/ StopShutsServer
    \/ StopClosesClients
    \/ StopDropsSessions
    \/ StopJoinsAcceptor
    \/ StopJoinsHandlers

ServerSteps ==
    /\ acceptor.pc # "aborted"
    /\ \/ AcceptThread
       \/ \E f \in Fds : HandlerReceives(f) \/ HandlerContinues(f)
       \/ \E c \in Casters, kind \in {"all", "role"} : CastStarts(c, kind)
       \/ \E t \in Threads : Sending(t)
       \/ SignalArrives
       \/ Stopping

QtClients ==
    \/ ClientConnects
    \/ \E i \in Conns : ClientStalls(i) \/ ClientResumes(i) \/ ClientLeaves(i)

Next == ServerSteps \/ QtClients

Spec == Init /\ [][Next]_vars

----------------------------------------------------------------------------
(* Fairness.  Every thread that sends or handles a client runs when it can, and *)
(* gets a mutex in the end; the main loop broadcasts every five seconds; a    *)
(* client that stops reading goes on or leaves in the end, which neither the  *)
(* code nor TCP enforces: the send has no time-out, and a peer that keeps     *)
(* acknowledging a zero window keeps the connection.  Nobody need connect,    *)
(* say anything or be accepted.                                              *)
Fairness ==
    /\ \A f \in Fds : SF_vars(acceptor.pc # "aborted" /\ (HandlerContinues(f) \/ Sending(f)))
    /\ SF_vars(acceptor.pc # "aborted" /\ (CastStarts(MainLoop, "role") \/ Sending(MainLoop)))
    /\ \A c \in Casters \ {MainLoop} : SF_vars(acceptor.pc # "aborted" /\ Sending(c))
    /\ WF_vars(\E i \in Conns : ClientResumes(i))

FairSpec == Spec /\ Fairness

\* Once the program is to stop, the accept thread and stop() run as well.
StopSpec ==
    /\ FairSpec
    /\ SF_vars(acceptor.pc # "aborted" /\ stop # "running" /\ (AcceptThread \/ Stopping))

----------------------------------------------------------------------------
(* Safety.                                                                   *)

\* f's handler serves a client, past the making of its session.
Serves(f) == handler[f] \in {"recv", "handshake", "rawbody", "role", "send"}

\* While a client is served, everything that is filed under its descriptor is
\* its own: nothing is left over from the number's previous owner.
MapsAreCurrent ==
    \A f \in Fds : Serves(f) =>
        /\ fds[f] \in Conns
        /\ client_roles[f] \in {None, fds[f]}
        /\ tls => tls_sessions[f].of = fds[f]
        /\ OccursOnce(f, client_fds)

\* A number without a handler has left nothing behind in any map.
NothingLeftBehind ==
    \A f \in Fds : handler[f] = "none" =>
        /\ tls_sessions[f] = None /\ client_roles[f] = None
        /\ f \notin finished_fds

\* Only a handler that has ended is announced to the accept thread, whose join
\* therefore does not wait.  One that ends unannounced is one whose SSL_new
\* failed: it is not joined before stop(), and leaves session and list entry.
EndedAreAnnounced ==
    \A f \in Fds :
        /\ f \in finished_fds => handler[f] = "done"
        /\ handler[f] = "done" /\ f \notin finished_fds =>
              tls_sessions[f] # None /\ Occurs(f, client_fds)

\* Two packets are not encrypted for one session until the first is on the
\* wire: TLS records arrive in the order of their sequence numbers.
RecordsInOrder ==
    \A s, t \in Threads :
        /\ s # t
        /\ task[s].at \in {"record", "recordbody"}
        /\ task[t].at \in {"record", "recordbody"}
        => Target(s) # Target(t)

\* While a broadcast sends to a client because it has logged in, its role stays
\* filed: nobody erases what the broadcast has looked up.
RoleStaysWhileSending ==
    \A t \in Threads :
        task[t].kind = "role" /\ task[t].at \in {"record", "recordbody", "plain", "plainbody"}
        => client_roles[Target(t)] # None

----------------------------------------------------------------------------
(* Liveness.                                                                 *)

\* A handler whose client has gone ends, whoever holds the locks.
HandlersEnd ==
    \A f \in Fds :
        (handler[f] \notin {"none", "done"} /\ fds[f] \in Conns /\ ~conn[fds[f]].client)
        ~> (handler[f] \in {"none", "done"} \/ acceptor.pc = "aborted")

\* A client that has logged in and stays receives the status lists, even if
\* others stop reading for a while.
StatusArrives ==
    \A i \in Conns :
        (\E f \in Fds : client_roles[f] = i /\ Serves(f))
        ~> (conn[i].status \/ ~conn[i].client \/ acceptor.pc = "aborted"
            \/ conn[i].server = "closed")

\* ClientController::stop returns, with no thread and no descriptor left over,
\* if clients that stopped reading read again or leave.
StopsCleanly ==
    stop = "link" ~> \/ acceptor.pc = "aborted"
                     \/ /\ stop = "stopped" /\ acceptor.pc = "ended"
                        /\ \A f \in Fds : fds[f] = None /\ handler[f] = "none"

----------------------------------------------------------------------------
(* What comments and documents say of the code and the runs find otherwise.   *)

\* A handshake's answer is sent before anything is encrypted in its session.
AnswerBeforeRecords ==
    \A f \in Fds, t \in Threads :
        handler[f] = "handshake" /\ task[t].at \in {"record", "recordbody"}
        => Target(t) # f

\* Packets to one client are written one after the other.
Writing(f) ==
    {t \in Threads : task[t].at \in {"recordbody", "plainbody"} /\ Target(t) = f}
    \cup {g \in {f} : handler[g] = "rawbody"}

PacketsWhole == \A f \in Fds : Cardinality(Writing(f)) <= 1

\* What is sent to those who logged in reaches nobody else: the connection that
\* has the descriptor, if any, is the one that logged in on it.
OnlyToLoggedIn ==
    \A t \in Threads :
        task[t].kind = "role" /\ task[t].at \in {"recordbody", "plainbody"}
                       /\ fds[Target(t)] \in Conns
        => client_roles[Target(t)] = fds[Target(t)]

\* Every handler announces its end, so that the accept loop joins it.
AllEndedAreAnnounced == \A f \in Fds : handler[f] = "done" => f \in finished_fds

\* The accept loop joins and removes a finished thread before its descriptor's
\* next thread is stored.
FinishedAreRemoved == acceptor.pc = "spawn" => handler[acceptor.fd] = "none"
============================================================================
