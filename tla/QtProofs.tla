------------------------------ MODULE QtProofs ------------------------------
(* Proofs about QtService, for any numbers of descriptors, broadcasting       *)
(* threads and connections, with TLS and without.                            *)
EXTENDS QtService, SubsequenceProofs

\* What the proofs need of the types.
Shape ==
    /\ handler \in [Fds -> HandlerPoints]
    /\ DOMAIN client_roles = Fds /\ DOMAIN tls_sessions = Fds
    /\ DOMAIN task = Threads
    /\ \A t \in Threads : DOMAIN task[t] = {"kind", "todo", "at"}

Writes == {"record", "recordbody", "plain", "plainbody"}

\* Who holds which mutex while sending, and what that keeps in place.
HeldInv ==
    \A t \in Threads :
        /\ task[t].at \in {"record", "recordbody"} => tls_mutex = t
        /\ task[t].kind \in {"all", "role"} /\ task[t].at \notin {"idle", "lock"} => client_mutex = t
        /\ task[t].kind = "role" /\ task[t].at \in Writes => client_roles[Target(t)] # None

\* A handler that is sending is in no other step.
SenderInv == \A f \in Fds : task[f].at # "idle" => handler[f] = "send"

IndInv == Shape /\ HeldInv /\ SenderInv

----------------------------------------------------------------------------
(* The task of one thread changes.                                           *)

LEMMA Constants ==
    /\ None \notin Threads /\ Fds \subseteq Threads /\ Casters \subseteq Threads
    /\ Fds \cap Casters = {} /\ Threads = Fds \cup Casters
BY QtAssumption DEF Threads

LEMMA NewTask ==
    ASSUME Shape, NEW t \in Threads, NEW kind, NEW todo, NEW at,
           task' = [task EXCEPT ![t] = [kind |-> kind, todo |-> todo, at |-> at]]
    PROVE  /\ DOMAIN task' = Threads /\ \A s \in Threads : DOMAIN task'[s] = {"kind", "todo", "at"}
           /\ task'[t].kind = kind /\ task'[t].todo = todo /\ task'[t].at = at
           /\ \A s \in Threads : s # t => task'[s] = task[s]
BY DEF Shape

LEMMA NextTask ==
    ASSUME Shape, NEW t \in Threads, task' = NextTarget(t)
    PROVE  /\ DOMAIN task' = Threads /\ \A s \in Threads : DOMAIN task'[s] = {"kind", "todo", "at"}
           /\ task'[t].kind = task[t].kind /\ task'[t].at = "lookup"
           /\ \A s \in Threads : s # t => task'[s] = task[s]
BY DEF Shape, NextTarget

LEMMA TaskAt ==
    ASSUME Shape, NEW t \in Threads, NEW at, task' = [task EXCEPT ![t].at = at]
    PROVE  /\ DOMAIN task' = Threads /\ \A s \in Threads : DOMAIN task'[s] = {"kind", "todo", "at"}
           /\ task'[t].kind = task[t].kind /\ task'[t].todo = task[t].todo /\ task'[t].at = at
           /\ \A s \in Threads : s # t => task'[s] = task[s]
BY DEF Shape

\* Nothing happens to tasks, mutexes and roles.
LEMMA HeldFrame ==
    ASSUME HeldInv, UNCHANGED <<task, client_mutex, tls_mutex, client_roles>> PROVE HeldInv'
BY DEF HeldInv, Target

\* A task that has just begun, or ended, holds nothing yet.
LEMMA BeginsSafe ==
    ASSUME Shape, HeldInv, SenderInv, NEW t \in Threads, NEW kind, NEW todo, NEW at,
           task' = [task EXCEPT ![t] = [kind |-> kind, todo |-> todo, at |-> at]],
           at \in {"idle", "lock"} \/ (kind = "reply" /\ at = "lookup"),
           UNCHANGED <<client_mutex, tls_mutex, client_roles>>,
           handler' \in [Fds -> HandlerPoints],
           \A f \in Fds : f # t /\ handler[f] = "send" => handler'[f] = "send",
           t \in Fds /\ at # "idle" => handler'[t] = "send",
           DOMAIN tls_sessions' = Fds
    PROVE  IndInv'
<1>1. /\ DOMAIN task' = Threads /\ \A s \in Threads : DOMAIN task'[s] = {"kind", "todo", "at"}
      /\ task'[t].kind = kind /\ task'[t].at = at
      /\ \A s \in Threads : s # t => task'[s] = task[s]
  BY NewTask
<1>2. Shape'
  BY <1>1 DEF Shape
<1>3. HeldInv'
  BY <1>1 DEF HeldInv, Target, Writes
<1>4. SenderInv'
  BY <1>1, Constants DEF SenderInv
<1> QED
  BY <1>2, <1>3, <1>4 DEF IndInv

----------------------------------------------------------------------------
(* Every step keeps the invariant.                                           *)

\* A step of a thread that is not sending, and starts nothing.
LEMMA OtherSteps ==
    ASSUME IndInv, UNCHANGED <<task, client_mutex, tls_mutex, client_roles>>,
           handler' \in [Fds -> HandlerPoints], DOMAIN tls_sessions' = Fds,
           \A f \in Fds : handler[f] = "send" => handler'[f] = "send"
    PROVE  IndInv'
<1>1. Shape' BY DEF IndInv, Shape
<1>2. HeldInv' BY HeldFrame DEF IndInv
<1>3. SenderInv' BY DEF IndInv, SenderInv
<1> QED BY <1>1, <1>2, <1>3 DEF IndInv

LEMMA AcceptSafe == ASSUME IndInv, AcceptThread PROVE IndInv'
<1> USE DEF IndInv, Shape
<1>1. CASE AcceptorCleansUp
  <2>1. handler' \in [Fds -> HandlerPoints]
    BY <1>1 DEF AcceptorCleansUp, HandlerPoints
  <2>2. \A f \in Fds : handler[f] = "send" => handler'[f] = "send"
    BY <1>1 DEF AcceptorCleansUp
  <2> QED
    BY <1>1, <2>1, <2>2, OtherSteps DEF AcceptorCleansUp, maps, locks
<1>2. CASE AcceptorSpawns
  <2>1. /\ handler' \in [Fds -> HandlerPoints]
        /\ \A f \in Fds : handler[f] = "send" => handler'[f] = "send"
    BY <1>2 DEF AcceptorSpawns, Again, HandlerPoints
  <2> QED
    BY <1>2, <2>1, OtherSteps DEF AcceptorSpawns, maps, locks
<1>3. CASE AcceptorStops \/ AcceptorFails \/ AcceptorIsInterrupted \/ AcceptorReturns
  BY <1>3, OtherSteps
     DEF AcceptorStops, AcceptorFails, AcceptorIsInterrupted, AcceptorReturns, maps, locks
<1>4. CASE AcceptorLists \/ \E f \in Fds : AcceptorEnters(f)
  BY <1>4, OtherSteps DEF AcceptorLists, AcceptorEnters, maps, locks
<1> QED
  BY <1>1, <1>2, <1>3, <1>4 DEF AcceptThread

\* A handler that goes from one point, not "send", to another.
LEMMA HandlerMoves ==
    ASSUME IndInv, NEW f \in Fds, handler[f] # "send", NEW pc \in HandlerPoints,
           HandlerAt(f, pc), UNCHANGED <<task, client_mutex, tls_mutex, client_roles>>,
           DOMAIN tls_sessions' = Fds
    PROVE  IndInv'
<1>1. handler' \in [Fds -> HandlerPoints]
  BY DEF IndInv, Shape, HandlerAt
<1>2. \A g \in Fds : handler[g] = "send" => handler'[g] = "send"
  BY DEF IndInv, Shape, HandlerAt
<1> QED
  BY <1>1, <1>2, OtherSteps

\* A handler that begins to send.
LEMMA HandlerBegins ==
    ASSUME IndInv, NEW f \in Fds, HandlerAt(f, "send"),
           NEW kind, NEW todo, NEW at,
           task' = [task EXCEPT ![f] = [kind |-> kind, todo |-> todo, at |-> at]],
           at = "lock" \/ (kind = "reply" /\ at = "lookup"),
           UNCHANGED <<client_mutex, tls_mutex, client_roles, tls_sessions>>
    PROVE  IndInv'
<1>1. /\ handler' \in [Fds -> HandlerPoints] /\ handler'[f] = "send"
      /\ \A g \in Fds \ {f} : handler'[g] = handler[g]
  BY DEF IndInv, Shape, HandlerAt, HandlerPoints
<1>2. DOMAIN tls_sessions' = Fds /\ f \in Threads
  BY Constants DEF IndInv, Shape
<1> QED
  BY <1>1, <1>2, BeginsSafe DEF IndInv

\* A successful LOGIN: client_mutex_ is free, so no broadcast relies on a role.
LEMMA SetsRoleSafe == ASSUME IndInv, NEW f \in Fds, HandlerSetsRole(f) PROVE IndInv'
<1> USE DEF HandlerSetsRole
<1>1. /\ handler' \in [Fds -> HandlerPoints] /\ handler'[f] = "send"
      /\ \A g \in Fds : g # f => handler'[g] = handler[g]
  BY DEF IndInv, Shape, HandlerAt, HandlerPoints
<1>2. f \in Threads
  BY Constants
<1>3. /\ DOMAIN task' = Threads /\ \A s \in Threads : DOMAIN task'[s] = {"kind", "todo", "at"}
      /\ task'[f].kind = "reply" /\ task'[f].at = "lookup"
      /\ \A s \in Threads : s # f => task'[s] = task[s]
  BY <1>2, NewTask DEF IndInv
<1>4. Shape'
  BY <1>1, <1>3 DEF IndInv, Shape, locks
<1>5. HeldInv'
  <2>1. ASSUME NEW t \in Threads, t # f
        PROVE  /\ task'[t].at \in {"record", "recordbody"} => tls_mutex' = t
               /\ ~(task'[t].kind \in {"all", "role"} /\ task'[t].at \notin {"idle", "lock"})
    BY <2>1, <1>3, Constants DEF IndInv, HeldInv, locks
  <2> QED
    BY <2>1, <1>3 DEF HeldInv, Writes
<1>6. SenderInv'
  BY <1>1, <1>3, Constants DEF IndInv, SenderInv
<1> QED
  BY <1>4, <1>5, <1>6 DEF IndInv

\* The end of a client: its role goes under client_mutex_.
LEMMA UnlistsSafe == ASSUME IndInv, NEW f \in Fds, HandlerUnlists(f) PROVE IndInv'
<1> USE DEF HandlerUnlists
<1>1. /\ handler' \in [Fds -> HandlerPoints] /\ \A g \in Fds : handler[g] = "send" => handler'[g] = "send"
  BY DEF IndInv, Shape, HandlerAt, HandlerPoints
<1>2. Shape'
  BY <1>1 DEF IndInv, Shape, locks
<1>3. \A t \in Threads : ~(task[t].kind \in {"all", "role"} /\ task[t].at \notin {"idle", "lock"})
  BY Constants DEF IndInv, HeldInv
<1>4. HeldInv'
  BY <1>3 DEF IndInv, HeldInv, locks, Writes
<1>5. SenderInv'
  BY <1>1 DEF IndInv, SenderInv
<1> QED
  BY <1>2, <1>4, <1>5 DEF IndInv

LEMMA HandlersSafe ==
    ASSUME IndInv, NEW f \in Fds, HandlerReceives(f) \/ HandlerContinues(f)
    PROVE  IndInv'
<1>0. Again \in HandlerPoints
  BY DEF Again, HandlerPoints
<1>1. CASE HandlerShakesHands(f) \/ HandlerRejects(f) \/ HandlerLogsIn(f)
  BY <1>1, HandlerMoves
     DEF HandlerShakesHands, HandlerRejects, HandlerLogsIn, Hears, Receives, maps, locks,
         HandlerPoints, IndInv, Shape
<1>2. CASE HandlerReplies(f)
  BY <1>2, HandlerBegins DEF HandlerReplies, maps, locks
<1>3. CASE HandlerBroadcasts(f)
  BY <1>3, HandlerBegins DEF HandlerBroadcasts, maps, locks
<1>4. CASE HandlerMakesSession(f)
  <2>1. DOMAIN tls_sessions' = Fds
    BY <1>4 DEF HandlerMakesSession, IndInv, Shape
  <2> QED
    BY <1>4, <1>0, <2>1, HandlerMoves DEF HandlerMakesSession, locks
<1>5. CASE HandlerGivesUp(f)
  <2>1. DOMAIN tls_sessions' = Fds
    BY <1>5 DEF HandlerGivesUp, IndInv, Shape
  <2>2. "done" \in HandlerPoints
    BY DEF HandlerPoints
  <2> QED
    BY <1>5, <2>1, <2>2, HandlerMoves DEF HandlerGivesUp, locks
<1>6. CASE HandlerSendsRaw(f)
  <2> DEFINE pc == IF handler[f] = "handshake" /\ Reaches(f) THEN "rawbody" ELSE Again
  <2>1. pc \in HandlerPoints
    BY <1>0 DEF HandlerPoints
  <2>2. HandlerAt(f, pc) /\ handler[f] # "send"
    BY <1>6 DEF HandlerSendsRaw
  <2> HIDE DEF pc
  <2> QED
    BY <1>6, <2>1, <2>2, HandlerMoves DEF HandlerSendsRaw, maps, locks, IndInv, Shape
<1>7. CASE HandlerSetsRole(f)
  BY <1>7, SetsRoleSafe
<1>8. CASE HandlerUnlists(f)
  BY <1>8, UnlistsSafe
<1>9. CASE HandlerDisconnected(f) \/ HandlerCloses(f)
  BY <1>9, HandlerMoves
     DEF HandlerDisconnected, HandlerCloses, maps, locks, HandlerPoints, IndInv, Shape
<1>10. CASE HandlerDropsSession(f) \/ HandlerFinishes(f)
  BY <1>10, HandlerMoves
     DEF HandlerDropsSession, HandlerFinishes, locks, HandlerPoints, IndInv, Shape
<1> QED
  BY <1>1, <1>2, <1>3, <1>4, <1>5, <1>6, <1>7, <1>8, <1>9, <1>10
     DEF HandlerReceives, HandlerContinues

LEMMA StoppingSafe == ASSUME IndInv, Stopping \/ SignalArrives PROVE IndInv'
<1>1. CASE StopJoinsHandlers
  <2>1. /\ handler' \in [Fds -> HandlerPoints]
        /\ \A f \in Fds : handler[f] = "send" => handler'[f] = "send"
    BY <1>1 DEF StopJoinsHandlers, HandlerPoints
  <2> QED
    BY <1>1, <2>1, OtherSteps DEF StopJoinsHandlers, maps, locks, IndInv, Shape
<1>2. CASE StopJoinsLink \/ StopShutsServer \/ StopJoinsAcceptor \/ SignalArrives
  BY <1>2, OtherSteps
     DEF StopJoinsLink, StopShutsServer, StopJoinsAcceptor, SignalArrives, maps, locks,
         IndInv, Shape
<1>3. CASE StopClosesClients \/ StopDropsSessions
  BY <1>3, OtherSteps DEF StopClosesClients, StopDropsSessions, locks, IndInv, Shape
<1> QED
  BY <1>1, <1>2, <1>3 DEF Stopping, SignalArrives
----------------------------------------------------------------------------
(* The steps of a thread that sends.                                         *)

\* Everything but the mutexes is settled when a task goes on sending.
LEMMA GoesOn ==
    ASSUME IndInv, NEW t \in Threads, task[t].at # "idle",
           DOMAIN task' = Threads, \A s \in Threads : DOMAIN task'[s] = {"kind", "todo", "at"},
           \A s \in Threads : s # t => task'[s] = task[s],
           UNCHANGED <<handler, client_roles, tls_sessions>>
    PROVE  Shape' /\ SenderInv'
<1>1. Shape' BY DEF IndInv, Shape
<1>2. SenderInv' BY Constants DEF IndInv, SenderInv
<1> QED BY <1>1, <1>2

\* Going to the next descriptor, with tls_mutex_ released if it was held.
LEMMA NextSafe ==
    ASSUME IndInv, NEW t \in Threads, task[t].at \notin {"idle", "lock"},
           task' = NextTarget(t),
           tls_mutex' \in {tls_mutex, IF tls_mutex = t THEN None ELSE tls_mutex},
           UNCHANGED <<handler, client_roles, tls_sessions, client_mutex>>
    PROVE  IndInv'
<1>1. /\ DOMAIN task' = Threads /\ \A s \in Threads : DOMAIN task'[s] = {"kind", "todo", "at"}
      /\ task'[t].kind = task[t].kind /\ task'[t].at = "lookup"
      /\ \A s \in Threads : s # t => task'[s] = task[s]
  BY NextTask DEF IndInv
<1>2. Shape' /\ SenderInv'
  BY <1>1, GoesOn
<1>3. HeldInv'
  BY <1>1 DEF IndInv, HeldInv, Target, Writes
<1> QED
  BY <1>2, <1>3 DEF IndInv

LEMMA LooksUpSafe == ASSUME IndInv, NEW t \in Threads, SendLooksUp(t) PROVE IndInv'
<1>1. PICK at \in {"record", "plain"} :
        /\ task' = [task EXCEPT ![t].at = at]
        /\ at = "record" => tls_mutex' = t
  BY DEF SendLooksUp
<1>2. /\ DOMAIN task' = Threads /\ \A s \in Threads : DOMAIN task'[s] = {"kind", "todo", "at"}
      /\ task'[t].kind = task[t].kind /\ task'[t].todo = task[t].todo /\ task'[t].at = at
      /\ \A s \in Threads : s # t => task'[s] = task[s]
  BY <1>1, TaskAt DEF IndInv
<1>3. Shape' /\ SenderInv'
  BY <1>2, GoesOn DEF SendLooksUp, maps
<1>4. ASSUME NEW s \in Threads, s # t PROVE task[s].at \notin {"record", "recordbody"}
  BY Constants DEF SendLooksUp, IndInv, HeldInv
<1>5. HeldInv'
  <2>1. /\ task'[t].at \in {"record", "recordbody"} => tls_mutex' = t
        /\ task'[t].kind \in {"all", "role"} => client_mutex' = t
        /\ task'[t].kind = "role" => client_roles'[Target(t)'] # None
    BY <1>1, <1>2 DEF SendLooksUp, IndInv, HeldInv, maps, Target
  <2> QED
    BY <1>2, <1>4, <2>1 DEF SendLooksUp, IndInv, HeldInv, maps, Target
<1> QED
  BY <1>3, <1>5 DEF IndInv

LEMMA HeaderSafe == ASSUME IndInv, NEW t \in Threads, SendsHeader(t) PROVE IndInv'
<1>1. CASE ~Reaches(Target(t))
  BY <1>1, NextSafe DEF SendsHeader, maps
<1>2. CASE Reaches(Target(t))
  <2>1. PICK at : /\ task' = [task EXCEPT ![t].at = at]
                  /\ (task[t].at = "record" /\ at = "recordbody")
                     \/ (task[t].at = "plain" /\ at = "plainbody")
    BY <1>2 DEF SendsHeader
  <2>2. /\ DOMAIN task' = Threads /\ \A s \in Threads : DOMAIN task'[s] = {"kind", "todo", "at"}
        /\ task'[t].kind = task[t].kind /\ task'[t].todo = task[t].todo /\ task'[t].at = at
        /\ \A s \in Threads : s # t => task'[s] = task[s]
    BY <2>1, TaskAt DEF IndInv
  <2>3. Shape' /\ SenderInv'
    BY <2>2, GoesOn DEF SendsHeader, maps
  <2>4. HeldInv'
    BY <1>2, <2>1, <2>2 DEF SendsHeader, IndInv, HeldInv, maps, Target, Writes
  <2> QED
    BY <2>3, <2>4 DEF IndInv
<1> QED
  BY <1>1, <1>2

LEMMA LocksSafe == ASSUME IndInv, NEW t \in Threads, CastLocks(t) PROVE IndInv'
<1> USE DEF CastLocks
<1>1. /\ DOMAIN task' = Threads /\ \A s \in Threads : DOMAIN task'[s] = {"kind", "todo", "at"}
      /\ task'[t].at = "lookup"
      /\ \A s \in Threads : s # t => task'[s] = task[s]
  BY DEF IndInv, Shape
<1>2. Shape' /\ SenderInv'
  BY <1>1, GoesOn DEF maps
<1>3. ASSUME NEW s \in Threads, s # t
      PROVE  ~(task[s].kind \in {"all", "role"} /\ task[s].at \notin {"idle", "lock"})
  BY Constants DEF IndInv, HeldInv
<1>4. HeldInv'
  BY <1>1, <1>3 DEF IndInv, HeldInv, maps, Target, Writes
<1> QED
  BY <1>2, <1>4 DEF IndInv

LEMMA EndsSafe == ASSUME IndInv, NEW t \in Threads, SendEnds(t) PROVE IndInv'
<1> USE DEF SendEnds
<1>1. /\ DOMAIN task' = Threads /\ \A s \in Threads : DOMAIN task'[s] = {"kind", "todo", "at"}
      /\ task'[t].kind = "none" /\ task'[t].at = "idle"
      /\ \A s \in Threads : s # t => task'[s] = task[s]
  BY DEF IndInv, Shape, NoTask
<1>2. /\ handler' \in [Fds -> HandlerPoints]
      /\ \A f \in Fds : f # t => handler'[f] = handler[f]
  BY DEF IndInv, Shape, Again, HandlerPoints
<1>3. Shape'
  BY <1>1, <1>2 DEF IndInv, Shape, maps
<1>4. SenderInv'
  BY <1>1, <1>2, Constants DEF IndInv, SenderInv
<1>5. HeldInv'
  BY <1>1 DEF IndInv, HeldInv, maps, Target, Writes
<1> QED
  BY <1>3, <1>4, <1>5 DEF IndInv

LEMMA SendingSafe == ASSUME IndInv, NEW t \in Threads, Sending(t) PROVE IndInv'
<1>1. CASE CastSkips(t)
  BY <1>1, NextSafe DEF CastSkips, maps, locks
<1>2. CASE SendsBody(t)
  BY <1>2, NextSafe DEF SendsBody, maps
<1> QED
  BY <1>1, <1>2, LocksSafe, LooksUpSafe, HeaderSafe, EndsSafe DEF Sending

LEMMA CastStartsSafe ==
    ASSUME IndInv, NEW c \in Casters, NEW kind \in {"all", "role"}, CastStarts(c, kind)
    PROVE  IndInv'
<1>1. c \in Threads /\ c \notin Fds
  BY Constants
<1>2. /\ UNCHANGED <<client_mutex, tls_mutex, client_roles, handler>>
      /\ DOMAIN tls_sessions' = Fds /\ handler' \in [Fds -> HandlerPoints]
  BY DEF CastStarts, maps, locks, IndInv, Shape
<1>3. task' = [task EXCEPT ![c] = [kind |-> kind, todo |-> <<>>, at |-> "lock"]]
  BY DEF CastStarts
<1> QED
  BY <1>1, <1>2, <1>3, BeginsSafe DEF IndInv
----------------------------------------------------------------------------
\* Every reachable state satisfies the invariant.
THEOREM InductiveInvariant == Spec => []IndInv
<1>1. Init => IndInv
  <2> SUFFICES ASSUME Init PROVE IndInv
    OBVIOUS
  <2>1. \A t \in Threads : task[t] = NoTask
    BY DEF Init
  <2>2. Shape
    BY <2>1 DEF Init, Shape, NoTask, HandlerPoints
  <2>3. HeldInv
    BY <2>1 DEF HeldInv, NoTask, Writes
  <2>4. SenderInv
    BY <2>1, Constants DEF SenderInv, NoTask
  <2> QED
    BY <2>2, <2>3, <2>4 DEF IndInv
<1>2. IndInv /\ [Next]_vars => IndInv'
  <2> SUFFICES ASSUME IndInv, [Next]_vars PROVE IndInv'
    OBVIOUS
  <2>1. CASE UNCHANGED vars
    BY <2>1, OtherSteps DEF vars, maps, locks, IndInv, Shape
  <2>2. CASE QtClients
    BY <2>2, OtherSteps
       DEF QtClients, ClientConnects, ClientStalls, ClientResumes, ClientLeaves, maps, locks,
           IndInv, Shape
  <2>3. CASE ServerSteps
    BY <2>3, AcceptSafe, HandlersSafe, CastStartsSafe, SendingSafe, StoppingSafe
       DEF ServerSteps
  <2> QED
    BY <2>1, <2>2, <2>3 DEF Next
<1> QED
  BY <1>1, <1>2, PTL DEF Spec

\* Whatever the clients do and however the server is stopped, two packets are
\* not encrypted in one session before the first is on the wire: tls_mutex_ is
\* held from the encryption to the last byte.
THEOREM RecordsStayInOrder == Spec => []RecordsInOrder
<1>1. IndInv => RecordsInOrder
  BY DEF IndInv, HeldInv, RecordsInOrder
<1> QED
  BY <1>1, InductiveInvariant, PTL

\* client_mutex_ keeps the role that a broadcast has looked up in place until
\* that packet is sent, although its descriptor may be closed meanwhile.
THEOREM RolesStay == Spec => []RoleStaysWhileSending
<1>1. IndInv => RoleStaysWhileSending
  BY DEF IndInv, HeldInv, RoleStaysWhileSending, Writes
<1> QED
  BY <1>1, InductiveInvariant, PTL

----------------------------------------------------------------------------
(* While the server runs, a handler's number is clean before it is announced,  *)
(* and stays so until the next thread takes it.  A handler that gives up      *)
(* because SSL_new fails leaves its session, and is never announced.         *)
CleanInv ==
    /\ stop = "running"
    /\ \A f \in Fds :
          /\ handler[f] \in {"none", "session", "unsession", "finish", "done"} =>
                client_roles[f] = None
          /\ handler[f] \in {"none", "finish"} => tls_sessions[f] = None
          /\ f \in finished_fds => handler[f] = "done" /\ tls_sessions[f] = None

LEMMA CleanFrame ==
    ASSUME CleanInv, UNCHANGED <<stop, handler, client_roles, tls_sessions, finished_fds>>
    PROVE  CleanInv'
BY DEF CleanInv

\* A handler goes on, having erased what its new point requires.
LEMMA CleanMoves ==
    ASSUME Shape, CleanInv, NEW f \in Fds, NEW pc, HandlerAt(f, pc),
           handler[f] # "done", pc \notin {"none", "done"},
           pc \in {"session", "unsession", "finish"} => client_roles'[f] = None,
           pc = "finish" => tls_sessions'[f] = None,
           \A g \in Fds \ {f} : client_roles'[g] = client_roles[g] /\ tls_sessions'[g] = tls_sessions[g],
           UNCHANGED <<finished_fds, stop>>
    PROVE  CleanInv'
<1>1. handler'[f] = pc /\ \A g \in Fds \ {f} : handler'[g] = handler[g]
  BY DEF Shape, HandlerAt
<1>2. ASSUME NEW g \in Fds, g # f
      PROVE  /\ handler'[g] \in {"none", "session", "unsession", "finish", "done"} =>
                   client_roles'[g] = None
             /\ handler'[g] \in {"none", "finish"} => tls_sessions'[g] = None
             /\ g \in finished_fds' => handler'[g] = "done" /\ tls_sessions'[g] = None
  BY <1>1, <1>2 DEF CleanInv
<1>3. /\ handler'[f] \in {"none", "session", "unsession", "finish", "done"} =>
            client_roles'[f] = None
      /\ handler'[f] \in {"none", "finish"} => tls_sessions'[f] = None
      /\ f \notin finished_fds'
  BY <1>1 DEF CleanInv
<1> QED
  BY <1>2, <1>3 DEF CleanInv

LEMMA HandlersClean ==
    ASSUME Shape, CleanInv, NEW f \in Fds, HandlerReceives(f) \/ HandlerContinues(f)
    PROVE  CleanInv'
<1>0. Again = "recv" /\ is_running
  BY DEF Again, is_running, CleanInv
<1>1. CASE HandlerRejects(f) \/ HandlerReplies(f) \/ HandlerBroadcasts(f) \/ HandlerLogsIn(f)
  BY <1>1, CleanMoves
     DEF HandlerRejects, HandlerReplies, HandlerBroadcasts, HandlerLogsIn, Hears, Receives,
         maps, flags
<1>2. CASE HandlerShakesHands(f)
  <2>1. \A g \in Fds \ {f} : client_roles'[g] = client_roles[g] /\ tls_sessions'[g] = tls_sessions[g]
    BY <1>2 DEF HandlerShakesHands, Shape
  <2> QED
    BY <1>2, <2>1, CleanMoves DEF HandlerShakesHands, Receives, flags
<1>3. CASE HandlerMakesSession(f)
  <2>1. \A g \in Fds \ {f} : client_roles'[g] = client_roles[g] /\ tls_sessions'[g] = tls_sessions[g]
    BY <1>3 DEF HandlerMakesSession, Shape
  <2> QED
    BY <1>0, <1>3, <2>1, CleanMoves DEF HandlerMakesSession, flags
<1>4. CASE HandlerGivesUp(f)
  <2>1. /\ handler[f] = "session" /\ handler'[f] = "done" /\ f \notin finished_fds
        /\ \A g \in Fds \ {f} : handler'[g] = handler[g] /\ tls_sessions'[g] = tls_sessions[g]
    BY <1>4 DEF HandlerGivesUp, HandlerAt, Shape, CleanInv
  <2> QED
    BY <1>4, <2>1 DEF HandlerGivesUp, CleanInv, flags
<1>5. CASE HandlerSendsRaw(f)
  <2>1. PICK pc \in {"rawbody", "recv"} : HandlerAt(f, pc)
    BY <1>0, <1>5 DEF HandlerSendsRaw
  <2> QED
    BY <1>5, <2>1, CleanMoves DEF HandlerSendsRaw, maps, flags
<1>6. CASE HandlerSetsRole(f)
  <2>1. \A g \in Fds \ {f} : client_roles'[g] = client_roles[g] /\ tls_sessions'[g] = tls_sessions[g]
    BY <1>6 DEF HandlerSetsRole, Shape
  <2> QED
    BY <1>6, <2>1, CleanMoves DEF HandlerSetsRole, flags
<1>7. CASE HandlerDisconnected(f) \/ HandlerCloses(f)
  BY <1>7, CleanMoves DEF HandlerDisconnected, HandlerCloses, maps, flags
<1>8. CASE HandlerUnlists(f)
  <2>1. /\ client_roles'[f] = None
        /\ \A g \in Fds \ {f} : client_roles'[g] = client_roles[g] /\ tls_sessions'[g] = tls_sessions[g]
    BY <1>8 DEF HandlerUnlists, Shape
  <2> QED
    BY <1>8, <2>1, CleanMoves DEF HandlerUnlists, flags
<1>9. CASE HandlerDropsSession(f)
  <2>1. /\ tls_sessions'[f] = None /\ client_roles'[f] = None
        /\ \A g \in Fds \ {f} : client_roles'[g] = client_roles[g] /\ tls_sessions'[g] = tls_sessions[g]
    BY <1>9 DEF HandlerDropsSession, Shape, CleanInv
  <2> QED
    BY <1>9, <2>1, CleanMoves DEF HandlerDropsSession, flags
<1>10. CASE HandlerFinishes(f)
  <2>1. handler'[f] = "done" /\ \A g \in Fds \ {f} : handler'[g] = handler[g]
    BY <1>10 DEF HandlerFinishes, HandlerAt, Shape
  <2> QED
    BY <1>10, <2>1 DEF HandlerFinishes, CleanInv, flags
<1> QED
  BY <1>1, <1>2, <1>3, <1>4, <1>5, <1>6, <1>7, <1>8, <1>9, <1>10
     DEF HandlerReceives, HandlerContinues

LEMMA AcceptClean == ASSUME Shape, CleanInv, AcceptThread PROVE CleanInv'
<1>1. CASE AcceptorCleansUp
  BY <1>1 DEF AcceptorCleansUp, CleanInv, flags
<1>2. CASE AcceptorSpawns
  <2>1. PICK f : f = acceptor.fd
    OBVIOUS
  <2>2. CASE f \in Fds /\ handler[f] = "none"
    <3>1. PICK pc \in {"session", "recv"} : HandlerAt(f, pc)
      BY <1>2, <2>1, <2>2 DEF AcceptorSpawns, HandlerAt, Again, is_running, CleanInv
    <3>2. client_roles'[f] = None
      BY <1>2, <2>2 DEF AcceptorSpawns, maps, CleanInv
    <3> QED
      BY <1>2, <2>2, <3>1, <3>2, CleanMoves DEF AcceptorSpawns, maps, flags
  <2>3. CASE ~(f \in Fds /\ handler[f] = "none")
    <3>1. handler' = handler
      BY <1>2, <2>1, <2>3 DEF AcceptorSpawns, Shape
    <3> QED
      BY <1>2, <3>1, CleanFrame DEF AcceptorSpawns, maps, flags
  <2> QED
    BY <2>2, <2>3
<1>3. CASE AcceptorStops \/ AcceptorFails \/ AcceptorIsInterrupted \/ AcceptorReturns
  BY <1>3, CleanFrame
     DEF AcceptorStops, AcceptorFails, AcceptorIsInterrupted, AcceptorReturns, maps, flags
<1>4. CASE AcceptorLists \/ \E f \in Fds : AcceptorEnters(f)
  BY <1>4, CleanFrame DEF AcceptorLists, AcceptorEnters, maps, flags
<1> QED
  BY <1>1, <1>2, <1>3, <1>4 DEF AcceptThread

LEMMA SendersClean ==
    ASSUME Shape, SenderInv, CleanInv, NEW t \in Threads, Sending(t)
    PROVE  CleanInv'
<1>1. CASE SendEnds(t)
  <2>1. CASE t \in Fds
    <3>1. handler[t] = "send" /\ HandlerAt(t, "recv")
      BY <1>1, <2>1 DEF SendEnds, SenderInv, HandlerAt, Again, is_running, CleanInv
    <3> QED
      BY <1>1, <2>1, <3>1, CleanMoves DEF SendEnds, maps, flags
  <2>2. CASE t \notin Fds
    BY <1>1, <2>2, CleanFrame DEF SendEnds, maps, flags
  <2> QED
    BY <2>1, <2>2
<1>2. CASE CastLocks(t) \/ CastSkips(t) \/ SendLooksUp(t) \/ SendsHeader(t) \/ SendsBody(t)
  BY <1>2, CleanFrame
     DEF CastLocks, CastSkips, SendLooksUp, SendsHeader, SendsBody, maps, flags
<1> QED
  BY <1>1, <1>2 DEF Sending

\* Only ClientController::stop changes stop, and never back.
LEMMA StopIsFinal == ASSUME [Next]_vars, stop' = "running" PROVE stop = "running" /\ ~Stopping /\ ~SignalArrives
<1>1. ~Stopping /\ ~SignalArrives
  BY DEF SignalArrives, Stopping, StopAt, StopJoinsLink, StopShutsServer, StopClosesClients,
         StopDropsSessions, StopJoinsAcceptor, StopJoinsHandlers
<1>2. AcceptThread => stop' = stop
  BY DEF AcceptThread, AcceptorCleansUp, AcceptorStops, AcceptorEnters, AcceptorFails,
         AcceptorIsInterrupted, AcceptorReturns, AcceptorLists, AcceptorSpawns, flags
<1>3. \A f \in Fds : HandlerReceives(f) => stop' = stop
  BY DEF HandlerReceives, HandlerShakesHands, HandlerRejects, HandlerReplies, HandlerBroadcasts,
         HandlerLogsIn, flags
<1>4. \A f \in Fds : HandlerContinues(f) => stop' = stop
  BY DEF HandlerContinues, HandlerMakesSession, HandlerGivesUp, HandlerSendsRaw, HandlerSetsRole,
         HandlerDisconnected, HandlerCloses, HandlerUnlists, HandlerDropsSession, HandlerFinishes,
         flags
<1>5. \A t \in Threads : Sending(t) => stop' = stop
  BY DEF Sending, CastLocks, CastSkips, SendLooksUp, SendsHeader, SendsBody, SendEnds, flags
<1>6. (\E c \in Casters, kind \in {"all", "role"} : CastStarts(c, kind)) => stop' = stop
  BY DEF CastStarts, flags
<1>7. QtClients \/ UNCHANGED vars => stop' = stop
  BY DEF QtClients, ClientConnects, ClientStalls, ClientResumes, ClientLeaves, flags, vars
<1> QED
  BY <1>1, <1>2, <1>3, <1>4, <1>5, <1>6, <1>7 DEF Next, ServerSteps

\* Until SIGINT, every reachable state is clean in this sense.
THEOREM NumbersAreClean == Spec => [](stop = "running" => CleanInv)
<1>1. Init => CleanInv
  BY DEF Init, CleanInv
<1>2. IndInv /\ (stop = "running" => CleanInv) /\ [Next]_vars => (stop = "running" => CleanInv)'
  <2> SUFFICES ASSUME IndInv, stop = "running" => CleanInv, [Next]_vars, stop' = "running"
               PROVE  CleanInv'
    OBVIOUS
  <2>0. CleanInv /\ ~Stopping /\ ~SignalArrives
    BY StopIsFinal
  <2>1. CASE UNCHANGED vars
    BY <2>0, <2>1, CleanFrame DEF vars, maps, flags
  <2>2. CASE QtClients
    BY <2>0, <2>2, CleanFrame
       DEF QtClients, ClientConnects, ClientStalls, ClientResumes, ClientLeaves, maps, flags
  <2>3. CASE ServerSteps
    <3>1. CASE \E c \in Casters, kind \in {"all", "role"} : CastStarts(c, kind)
      BY <2>0, <3>1, CleanFrame DEF CastStarts, maps, flags
    <3> QED
      BY <2>0, <2>3, <3>1, AcceptClean, HandlersClean, SendersClean DEF ServerSteps, IndInv
  <2> QED
    BY <2>1, <2>2, <2>3 DEF Next
<1> QED
  BY <1>1, <1>2, InductiveInvariant, PTL DEF Spec

\* Until SIGINT, a number without a handler has no session, no role and no
\* announcement that its next owner could inherit.
THEOREM NumbersInheritNothing == Spec => [](stop = "running" => NothingLeftBehind)
<1>1. CleanInv => NothingLeftBehind
  BY DEF CleanInv, NothingLeftBehind
<1> QED
  BY <1>1, NumbersAreClean, PTL

----------------------------------------------------------------------------
(* Types.  What a handler or the accept thread holds is never the number that  *)
(* accept() has only reserved, however the server is stopped meanwhile.      *)

\* From when a handler is started until it has closed its descriptor.
Busy(f) == handler[f] \in {"session", "recv", "handshake", "rawbody", "role", "send", "close"}

SockInv ==
    /\ acceptor.pc \in {"blocked", "list", "spawn"} => acceptor.fd \in Fds /\ ~Busy(acceptor.fd)
    /\ acceptor.pc \in {"list", "spawn"} => fds[acceptor.fd] # Reserved
    /\ \A f \in Fds : Busy(f) => fds[f] # Reserved
    /\ Listening =>
          /\ acceptor.pc = "blocked" => fds[acceptor.fd] = Reserved
          /\ acceptor.pc \in {"list", "spawn"} => fds[acceptor.fd] \in Conns
          /\ \A f \in Fds : Busy(f) => fds[f] \in Conns

TodoInv == \A t \in Threads : task[t].at \in Writes => task[t].todo # <<>>

TypeInv == TypeOK /\ TodoInv /\ SockInv

\* Only ClientController::stop and the signal change the flags.
LEMMA FlagsStay ==
    ASSUME [Next]_vars
    PROVE  /\ ~Stopping /\ ~SignalArrives => UNCHANGED flags
           /\ Listening' => Listening
<1>1. ASSUME ~Stopping, ~SignalArrives PROVE UNCHANGED flags
  <2>2. AcceptThread => UNCHANGED flags
    BY DEF AcceptThread, AcceptorCleansUp, AcceptorStops, AcceptorEnters, AcceptorFails,
           AcceptorIsInterrupted, AcceptorReturns, AcceptorLists, AcceptorSpawns
  <2>3. \A f \in Fds : HandlerReceives(f) => UNCHANGED flags
    BY DEF HandlerReceives, HandlerShakesHands, HandlerRejects, HandlerReplies, HandlerBroadcasts,
           HandlerLogsIn
  <2>4. \A f \in Fds : HandlerContinues(f) => UNCHANGED flags
    BY DEF HandlerContinues, HandlerMakesSession, HandlerGivesUp, HandlerSendsRaw, HandlerSetsRole,
           HandlerDisconnected, HandlerCloses, HandlerUnlists, HandlerDropsSession, HandlerFinishes
  <2>5. \A t \in Threads : Sending(t) => UNCHANGED flags
    BY DEF Sending, CastLocks, CastSkips, SendLooksUp, SendsHeader, SendsBody, SendEnds
  <2>6. (\E c \in Casters, kind \in {"all", "role"} : CastStarts(c, kind)) => UNCHANGED flags
    BY DEF CastStarts
  <2>7. QtClients \/ UNCHANGED vars => UNCHANGED flags
    BY DEF QtClients, ClientConnects, ClientStalls, ClientResumes, ClientLeaves, vars
  <2> QED
    BY <1>1, <2>2, <2>3, <2>4, <2>5, <2>6, <2>7 DEF Next, ServerSteps
<1>2. (Stopping \/ SignalArrives) /\ Listening' => Listening
  BY DEF SignalArrives, Stopping, StopAt, StopJoinsLink, StopShutsServer, StopClosesClients,
         StopDropsSessions, StopJoinsAcceptor, StopJoinsHandlers, Listening, is_running
<1>3. UNCHANGED flags /\ Listening' => Listening
  BY DEF flags, Listening, is_running
<1> QED
  BY <1>1, <1>2, <1>3

LEMMA FlagsTyped ==
    ASSUME TypeOK, [Next]_vars
    PROVE  /\ tls' \in BOOLEAN
           /\ stop' \in {"running", "link", "server", "clients", "sessions", "acceptor",
                         "handlers", "stopped"}
<1>1. CASE Stopping \/ SignalArrives
  BY <1>1 DEF TypeOK, SignalArrives, Stopping, StopAt, StopJoinsLink, StopShutsServer, StopClosesClients,
         StopDropsSessions, StopJoinsAcceptor, StopJoinsHandlers
<1>2. CASE UNCHANGED flags
  BY <1>2 DEF TypeOK, flags
<1> QED
  BY <1>1, <1>2, FlagsStay

\* A number that is closed, and the connection that had it.
LEMMA ClosesTyped ==
    ASSUME TypeOK, NEW F, Closes(F)
    PROVE  /\ conn' \in [Conns -> Connection] /\ fds' \in [Fds -> Conns \cup {Reserved, None}]
           /\ \A f \in Fds : fds'[f] = IF f \in F THEN None ELSE fds[f]
<1>1. \A i \in Conns : [conn[i] EXCEPT !.server = "closed"] \in Connection
  BY DEF TypeOK, Connection
<1>2. \A i \in Conns : conn[i] \in Connection
  BY DEF TypeOK
<1> QED
  BY <1>1, <1>2 DEF Closes, TypeOK

\* Connections, their number and the descriptors.
SocketsTyped ==
    /\ conn \in [Conns -> Connection]
    /\ lastConn \in 0..MaxConns /\ stalls \in 0..MaxStalls
    /\ fds \in [Fds -> Conns \cup {Reserved, None}]

LEMMA SocketsFrame == ASSUME TypeOK, UNCHANGED socketVars PROVE SocketsTyped'
BY DEF TypeOK, SocketsTyped, socketVars

LEMMA ClientsTyped == ASSUME TypeOK, QtClients PROVE SocketsTyped'
<1>0. \A i \in Conns : conn[i] \in Connection
  BY DEF TypeOK
<1>1. CASE ClientConnects
  <2>1. lastConn + 1 \in Conns
    BY <1>1, QtAssumption DEF ClientConnects, TypeOK, Conns
  <2>2. [client |-> TRUE, reads |-> TRUE, server |-> "queued", status |-> FALSE] \in Connection
    BY DEF Connection
  <2> QED
    BY <1>1, <2>1, <2>2 DEF ClientConnects, TypeOK, SocketsTyped, Conns
<1>2. ASSUME NEW i \in Conns, ClientStalls(i) PROVE SocketsTyped'
  <2>1. [conn[i] EXCEPT !.reads = FALSE] \in Connection
    BY <1>0 DEF Connection
  <2>2. stalls' \in 0..MaxStalls
    BY <1>2, QtAssumption DEF ClientStalls, TypeOK
  <2> QED
    BY <1>2, <2>1, <2>2 DEF ClientStalls, TypeOK, SocketsTyped
<1>3. ASSUME NEW i \in Conns, ClientResumes(i) PROVE SocketsTyped'
  <2>1. [conn[i] EXCEPT !.reads = TRUE] \in Connection
    BY <1>0 DEF Connection
  <2> QED
    BY <1>3, <2>1 DEF ClientResumes, TypeOK, SocketsTyped
<1>4. ASSUME NEW i \in Conns, ClientLeaves(i) PROVE SocketsTyped'
  <2>1. [conn[i] EXCEPT !.client = FALSE, !.reads = TRUE] \in Connection
    BY <1>0 DEF Connection
  <2>2. conn' = [conn EXCEPT ![i] = [conn[i] EXCEPT !.client = FALSE, !.reads = TRUE]]
    BY <1>0, <1>4 DEF ClientLeaves, Connection
  <2> QED
    BY <1>4, <2>1, <2>2 DEF ClientLeaves, TypeOK, SocketsTyped
<1> QED
  BY <1>1, <1>2, <1>3, <1>4 DEF QtClients

LEMMA AcceptorSockets == ASSUME TypeOK, SockInv, AcceptThread PROVE SocketsTyped'
<1>1. CASE UNCHANGED socketVars
  BY <1>1, SocketsFrame
<1>2. ASSUME NEW f \in Fds, AcceptorEnters(f) PROVE SocketsTyped'
  BY <1>2 DEF AcceptorEnters, TypeOK, SocketsTyped
<1>3. CASE AcceptorIsInterrupted
  BY <1>3 DEF AcceptorIsInterrupted, TypeOK, SocketsTyped
<1>4. CASE AcceptorReturns
  <2>1. PICK i \in Conns : conn' = [conn EXCEPT ![i].server = "open"] /\ fds' = [fds EXCEPT ![acceptor.fd] = i]
    BY <1>4 DEF AcceptorReturns
  <2>2. [conn[i] EXCEPT !.server = "open"] \in Connection
    BY DEF TypeOK, Connection
  <2> QED
    BY <1>4, <2>1, <2>2 DEF AcceptorReturns, TypeOK, SocketsTyped
<1> QED
  BY <1>1, <1>2, <1>3, <1>4 DEF AcceptThread, AcceptorCleansUp, AcceptorStops, AcceptorFails,
     AcceptorLists, AcceptorSpawns

LEMMA SocketsStep == ASSUME TypeOK, SockInv, [Next]_vars PROVE SocketsTyped'
<1>1. ASSUME NEW f \in Fds, HandlerReceives(f) PROVE SocketsTyped'
  BY <1>1, SocketsFrame DEF HandlerReceives, HandlerShakesHands, HandlerRejects, HandlerReplies,
     HandlerBroadcasts, HandlerLogsIn
<1>2. ASSUME NEW f \in Fds, HandlerContinues(f) PROVE SocketsTyped'
  <2>1. CASE HandlerGivesUp(f) \/ HandlerCloses(f)
    BY <2>1, ClosesTyped DEF HandlerGivesUp, HandlerCloses, TypeOK, SocketsTyped
  <2>2. CASE UNCHANGED socketVars
    BY <2>2, SocketsFrame
  <2> QED
    BY <1>2, <2>1, <2>2 DEF HandlerContinues, HandlerMakesSession, HandlerSendsRaw, HandlerSetsRole,
       HandlerDisconnected, HandlerUnlists, HandlerDropsSession, HandlerFinishes
<1>3. ASSUME NEW t \in Threads, Sending(t) PROVE SocketsTyped'
  <2>1. CASE SendsBody(t)
    <3>1. PICK f : f = Target(t)
      OBVIOUS
    <3>2. CASE Reaches(f) /\ task[t].kind = "role"
      <4>1. PICK i \in Conns : i = fds[f]
        BY <3>2 DEF Reaches
      <4>2. [conn[i] EXCEPT !.status = TRUE] \in Connection
        <5>1. conn[i] \in Connection
          BY DEF TypeOK
        <5> QED
          BY <5>1 DEF Connection
      <4> QED
        BY <2>1, <3>1, <3>2, <4>1, <4>2 DEF SendsBody, TypeOK, SocketsTyped
    <3>3. CASE ~(Reaches(f) /\ task[t].kind = "role")
      BY <2>1, <3>1, <3>3 DEF SendsBody, TypeOK, SocketsTyped
    <3> QED
      BY <3>2, <3>3
  <2>2. CASE UNCHANGED socketVars
    BY <2>2, SocketsFrame
  <2> QED
    BY <1>3, <2>1, <2>2 DEF Sending, CastLocks, CastSkips, SendLooksUp, SendsHeader, SendEnds
<1>4. ASSUME NEW c \in Casters, NEW kind, CastStarts(c, kind) PROVE SocketsTyped'
  BY <1>4, SocketsFrame DEF CastStarts
<1>5. CASE SignalArrives \/ Stopping
  <2>1. CASE StopShutsServer
    <3>1. \A i \in Conns : [conn[i] EXCEPT !.server = "closed"] \in Connection /\ conn[i] \in Connection
      BY DEF TypeOK, Connection
    <3> QED
      BY <2>1, <3>1 DEF StopShutsServer, TypeOK, SocketsTyped
  <2>2. CASE StopClosesClients
    BY <2>2, ClosesTyped DEF StopClosesClients, TypeOK, SocketsTyped
  <2>3. CASE UNCHANGED socketVars
    BY <2>3, SocketsFrame
  <2> QED
    BY <1>5, <2>1, <2>2, <2>3 DEF SignalArrives, Stopping, StopJoinsLink, StopDropsSessions,
       StopJoinsAcceptor, StopJoinsHandlers
<1>6. CASE UNCHANGED vars
  BY <1>6, SocketsFrame DEF vars
<1> QED
  BY <1>1, <1>2, <1>3, <1>4, <1>5, <1>6, ClientsTyped, AcceptorSockets DEF Next, ServerSteps

LEMMA AcceptorTyped ==
    ASSUME TypeOK, SockInv, [Next]_vars
    PROVE  acceptor' \in [pc : {"cleanup", "enter", "blocked", "list", "spawn", "ended", "aborted"},
                          fd : Fds \cup {None}]
<1>1. CASE AcceptThread
  <2>1. acceptor.pc \in {"blocked", "list", "spawn"} => acceptor.fd \in Fds
    BY DEF SockInv
  <2> QED
    BY <1>1, <2>1 DEF AcceptThread, AcceptorCleansUp, AcceptorStops, AcceptorEnters, AcceptorFails,
       AcceptorIsInterrupted, AcceptorReturns, AcceptorLists, AcceptorSpawns, AcceptorAt, TypeOK
<1>2. CASE ~AcceptThread
  <2>1. ASSUME NEW f \in Fds, HandlerReceives(f) \/ HandlerContinues(f) PROVE UNCHANGED acceptor
    BY <2>1 DEF HandlerReceives, HandlerShakesHands, HandlerRejects, HandlerReplies, HandlerBroadcasts,
       HandlerLogsIn, HandlerContinues, HandlerMakesSession, HandlerGivesUp, HandlerSendsRaw,
       HandlerSetsRole, HandlerDisconnected, HandlerCloses, HandlerUnlists, HandlerDropsSession,
       HandlerFinishes
  <2>2. ASSUME NEW t \in Threads, Sending(t) PROVE UNCHANGED acceptor
    BY <2>2 DEF Sending, CastLocks, CastSkips, SendLooksUp, SendsHeader, SendsBody, SendEnds
  <2>3. Stopping \/ SignalArrives => UNCHANGED acceptor
    BY DEF SignalArrives, Stopping, StopJoinsLink, StopShutsServer, StopClosesClients,
       StopDropsSessions, StopJoinsAcceptor, StopJoinsHandlers
  <2>4. QtClients \/ UNCHANGED vars => UNCHANGED acceptor
    BY DEF QtClients, ClientConnects, ClientStalls, ClientResumes, ClientLeaves, vars
  <2>5. UNCHANGED acceptor
    BY <1>2, <2>1, <2>2, <2>3, <2>4 DEF Next, ServerSteps, CastStarts
  <2> QED
    BY <2>5 DEF TypeOK
<1> QED
  BY <1>1, <1>2

\* The five maps.
MapsTyped ==
    /\ client_fds \in Seq(Fds)
    /\ client_roles \in [Fds -> Conns \cup {None}]
    /\ tls_sessions \in [Fds -> Session \cup {None}]
    /\ finished_fds \in SUBSET Fds

LEMMA MapsFrame == ASSUME TypeOK, UNCHANGED maps PROVE MapsTyped'
BY DEF TypeOK, MapsTyped, maps

LEMMA HandlersMapsTyped ==
    ASSUME TypeOK, SockInv, NEW f \in Fds, HandlerReceives(f) \/ HandlerContinues(f)
    PROVE  MapsTyped'
<1>1. CASE HandlerMakesSession(f) \/ HandlerGivesUp(f)
  <2>1. [of |-> fds[f], flights |-> 0] \in Session
    <3>1. fds[f] \in Conns \cup {None}
      BY <1>1 DEF HandlerMakesSession, HandlerGivesUp, SockInv, Busy, TypeOK
    <3> QED
      BY <3>1 DEF Session
  <2>2. tls_sessions' \in [Fds -> Session \cup {None}]
    BY <1>1, <2>1 DEF HandlerMakesSession, HandlerGivesUp, TypeOK
  <2> QED
    BY <1>1, <2>2 DEF HandlerMakesSession, HandlerGivesUp, TypeOK, MapsTyped
<1>2. CASE HandlerShakesHands(f)
  <2>1. tls_sessions[f] \in Session /\ tls_sessions[f].flights \in 0..1
    <3>1. tls_sessions[f] \in Session
      BY <1>2 DEF HandlerShakesHands, TypeOK
    <3> QED
      BY <1>2, <3>1 DEF HandlerShakesHands, HandshakeDone, Session
  <2>2. [tls_sessions[f] EXCEPT !.flights = @ + 1] \in Session
    BY <2>1 DEF Session
  <2> QED
    BY <1>2, <2>2 DEF HandlerShakesHands, TypeOK, MapsTyped
<1>3. CASE HandlerSetsRole(f)
  <2>1. fds[f] \in Conns \cup {None}
    BY <1>3 DEF HandlerSetsRole, SockInv, Busy, TypeOK
  <2> QED
    BY <1>3, <2>1 DEF HandlerSetsRole, TypeOK, MapsTyped
<1>4. CASE HandlerUnlists(f)
  <2>1. client_fds' \in Seq(Fds)
    <3>1. PICK s \in Seq(Fds) : s = client_fds
      BY DEF TypeOK
    <3>2. Keep(s, Fds \ {f}) \in Seq(Fds \cap (Fds \ {f}))
      BY KeepType
    <3>3. Seq(Fds \cap (Fds \ {f})) \subseteq Seq(Fds)
      OBVIOUS
    <3> QED
      BY <1>4, <3>1, <3>2, <3>3 DEF HandlerUnlists
  <2> QED
    BY <1>4, <2>1 DEF HandlerUnlists, TypeOK, MapsTyped
<1>5. CASE HandlerDropsSession(f) \/ HandlerFinishes(f)
  BY <1>5 DEF HandlerDropsSession, HandlerFinishes, TypeOK, MapsTyped
<1>6. CASE UNCHANGED maps
  BY <1>6, MapsFrame
<1> QED
  BY <1>1, <1>2, <1>3, <1>4, <1>5, <1>6 DEF HandlerReceives, HandlerRejects, HandlerReplies,
     HandlerBroadcasts, HandlerLogsIn, HandlerContinues, HandlerSendsRaw, HandlerDisconnected,
     HandlerCloses

LEMMA MapsStep == ASSUME TypeOK, SockInv, [Next]_vars PROVE MapsTyped'
<1>1. CASE AcceptThread
  <2>1. CASE AcceptorLists
    <3>1. acceptor.fd \in Fds /\ client_fds \in Seq(Fds)
      BY <2>1 DEF AcceptorLists, SockInv, TypeOK
    <3> QED
      BY <2>1, <3>1 DEF AcceptorLists, TypeOK, MapsTyped
  <2>2. CASE AcceptorCleansUp
    BY <2>2 DEF AcceptorCleansUp, TypeOK, MapsTyped
  <2>3. CASE UNCHANGED maps
    BY <2>3, MapsFrame
  <2> QED
    BY <1>1, <2>1, <2>2, <2>3 DEF AcceptThread, AcceptorStops, AcceptorEnters, AcceptorFails,
       AcceptorIsInterrupted, AcceptorReturns, AcceptorSpawns
<1>2. ASSUME NEW t \in Threads, Sending(t) PROVE MapsTyped'
  BY <1>2, MapsFrame DEF Sending, CastLocks, CastSkips, SendLooksUp, SendsHeader, SendsBody, SendEnds
<1>3. CASE Stopping \/ SignalArrives
  <2>1. CASE StopClosesClients
    BY <2>1, EmptyIsSeq DEF StopClosesClients, TypeOK, MapsTyped
  <2>2. CASE StopDropsSessions
    BY <2>2 DEF StopDropsSessions, TypeOK, MapsTyped
  <2>3. CASE UNCHANGED maps
    BY <2>3, MapsFrame
  <2> QED
    BY <1>3, <2>1, <2>2, <2>3 DEF SignalArrives, Stopping, StopJoinsLink, StopShutsServer,
       StopJoinsAcceptor, StopJoinsHandlers
<1>4. ASSUME NEW c \in Casters, NEW kind, CastStarts(c, kind) PROVE MapsTyped'
  BY <1>4, MapsFrame DEF CastStarts
<1>5. CASE QtClients \/ UNCHANGED vars
  BY <1>5, MapsFrame DEF QtClients, ClientConnects, ClientStalls, ClientResumes, ClientLeaves, vars
<1> QED
  BY <1>1, <1>2, <1>3, <1>4, <1>5, HandlersMapsTyped DEF Next, ServerSteps

\* What the threads are sending, and the mutexes they hold meanwhile.
TasksTyped ==
    /\ task \in [Threads -> Task] /\ TodoInv
    /\ client_mutex \in Threads \cup {None} /\ tls_mutex \in Threads \cup {None}

LEMMA TasksFrame == ASSUME TypeOK, TodoInv, UNCHANGED <<task, locks>> PROVE TasksTyped'
BY DEF TypeOK, TodoInv, TasksTyped, locks

LEMMA OneTaskTyped ==
    ASSUME TypeOK, TodoInv, NEW t \in Threads, NEW new \in Task, task' = [task EXCEPT ![t] = new],
           new.at \in Writes => new.todo # <<>>,
           client_mutex' \in Threads \cup {None}, tls_mutex' \in Threads \cup {None}
    PROVE  TasksTyped'
<1>1. task' \in [Threads -> Task]
  BY DEF TypeOK
<1>2. TodoInv'
  BY DEF TypeOK, TodoInv
<1> QED
  BY <1>1, <1>2 DEF TasksTyped

LEMMA HandlersTasksTyped ==
    ASSUME TypeOK, TodoInv, NEW f \in Fds, HandlerReceives(f) \/ HandlerContinues(f)
    PROVE  TasksTyped'
<1>1. CASE HandlerReplies(f) \/ HandlerBroadcasts(f) \/ HandlerSetsRole(f)
  <2>1. PICK kind \in {"reply", "all"}, todo \in Seq(Fds), at \in {"lookup", "lock"} :
          task' = [task EXCEPT ![f] = [kind |-> kind, todo |-> todo, at |-> at]]
    <3>1. <<>> \in Seq(Fds) /\ <<f>> \in Seq(Fds) /\ <<f, f>> \in Seq(Fds)
      BY EmptyIsSeq
    <3> QED
      BY <1>1, <3>1 DEF HandlerReplies, HandlerBroadcasts, HandlerSetsRole
  <2>2. PICK new \in Task : new = [kind |-> kind, todo |-> todo, at |-> at]
    BY DEF Task
  <2>3. new.at \notin Writes
    BY <2>2 DEF Writes
  <2>4. client_mutex' \in Threads \cup {None} /\ tls_mutex' \in Threads \cup {None}
    BY <1>1 DEF HandlerReplies, HandlerBroadcasts, HandlerSetsRole, locks, TypeOK
  <2> QED
    BY <2>1, <2>2, <2>3, <2>4, Constants, OneTaskTyped
<1>2. CASE UNCHANGED <<task, locks>>
  BY <1>2, TasksFrame
<1> QED
  BY <1>1, <1>2 DEF HandlerReceives, HandlerShakesHands, HandlerRejects, HandlerLogsIn, HandlerContinues,
     HandlerMakesSession, HandlerGivesUp, HandlerSendsRaw, HandlerDisconnected, HandlerCloses,
     HandlerUnlists, HandlerDropsSession, HandlerFinishes

LEMMA SendersTasksTyped ==
    ASSUME TypeOK, TodoInv, NEW t \in Threads, Sending(t)
    PROVE  TasksTyped'
<1>0. /\ task[t] \in Task /\ task[t].todo \in Seq(Fds) /\ task[t].kind \in {"none", "reply", "all", "role"}
      /\ client_mutex \in Threads \cup {None} /\ tls_mutex \in Threads \cup {None}
      /\ task[t].at \in Writes => task[t].todo # <<>>
  <2>1. task[t] \in Task
    BY DEF TypeOK
  <2> QED
    BY <2>1 DEF TypeOK, Task, TodoInv
<1>1. /\ client_mutex' \in Threads \cup {None} /\ tls_mutex' \in Threads \cup {None}
  BY <1>0 DEF Sending, CastLocks, CastSkips, SendLooksUp, SendsHeader, SendsBody, SendEnds, locks
<1>2. PICK new \in Task : task' = [task EXCEPT ![t] = new] /\ (new.at \in Writes => new.todo # <<>>)
  <2>1. ASSUME task' = NextTarget(t), task[t].todo # <<>>
        PROVE  \E new \in Task : task' = [task EXCEPT ![t] = new] /\ new.at \notin Writes
    <3>1. Tail(task[t].todo) \in Seq(Fds)
      BY <1>0, <2>1
    <3>2. [task[t] EXCEPT !.todo = Tail(@), !.at = "lookup"] \in Task
      BY <1>0, <3>1 DEF Task
    <3>3. task' = [task EXCEPT ![t] = [task[t] EXCEPT !.todo = Tail(@), !.at = "lookup"]]
      BY <2>1 DEF NextTarget, TypeOK
    <3>4. [task[t] EXCEPT !.todo = Tail(@), !.at = "lookup"].at = "lookup"
      BY <1>0 DEF Task
    <3> QED
      BY <3>2, <3>3, <3>4 DEF Writes
  <2>2. ASSUME NEW at \in Writes, task' = [task EXCEPT ![t].at = at], task[t].todo # <<>>
        PROVE  \E new \in Task : task' = [task EXCEPT ![t] = new] /\ (new.at \in Writes => new.todo # <<>>)
    <3>1. PICK new : new = [task[t] EXCEPT !.at = at]
      OBVIOUS
    <3>2. new \in Task /\ new.todo = task[t].todo
      BY <1>0, <3>1 DEF Task, Writes
    <3>3. task' = [task EXCEPT ![t] = new]
      BY <2>2, <3>1 DEF TypeOK
    <3> QED
      BY <2>2, <3>2, <3>3
  <2>3. CASE CastLocks(t)
    <3>1. PICK new : new = [task[t] EXCEPT !.todo = client_fds, !.at = "lookup"]
      OBVIOUS
    <3>2. new \in Task /\ new.at = "lookup"
      BY <1>0, <3>1 DEF TypeOK, Task
    <3>3. task' = [task EXCEPT ![t] = new]
      BY <2>3, <3>1 DEF CastLocks, TypeOK
    <3> QED
      BY <3>2, <3>3 DEF Writes
  <2>4. CASE CastSkips(t)
    BY <2>1, <2>4 DEF CastSkips
  <2>5. CASE SendLooksUp(t)
    BY <2>2, <2>5 DEF SendLooksUp, Writes
  <2>6. CASE SendsHeader(t)
    BY <1>0, <2>1, <2>2, <2>6 DEF SendsHeader, Writes
  <2>7. CASE SendsBody(t)
    BY <1>0, <2>1, <2>7 DEF SendsBody, Writes
  <2>8. CASE SendEnds(t)
    <3>1. NoTask \in Task /\ NoTask.at = "idle"
      BY EmptyIsSeq DEF NoTask, Task
    <3> QED
      BY <2>8, <3>1 DEF SendEnds, Writes
  <2> QED
    BY <2>3, <2>4, <2>5, <2>6, <2>7, <2>8 DEF Sending
<1> QED
  BY <1>1, <1>2, OneTaskTyped

LEMMA TasksStep == ASSUME TypeOK, TodoInv, [Next]_vars PROVE TasksTyped'
<1>1. ASSUME NEW c \in Casters, NEW kind \in {"all", "role"}, CastStarts(c, kind) PROVE TasksTyped'
  <2>1. PICK new : new = [kind |-> kind, todo |-> <<>>, at |-> "lock"]
    OBVIOUS
  <2>2. new \in Task /\ new.at = "lock"
    BY <2>1, EmptyIsSeq DEF Task
  <2>3. task' = [task EXCEPT ![c] = new] /\ UNCHANGED locks /\ c \in Threads
    BY <1>1, <2>1, Constants DEF CastStarts
  <2> QED
    BY <2>2, <2>3, OneTaskTyped DEF TypeOK, locks, Writes
<1>2. CASE AcceptThread
  BY <1>2, TasksFrame DEF AcceptThread, AcceptorCleansUp, AcceptorStops, AcceptorEnters, AcceptorFails,
     AcceptorIsInterrupted, AcceptorReturns, AcceptorLists, AcceptorSpawns
<1>3. CASE Stopping \/ SignalArrives
  BY <1>3, TasksFrame DEF SignalArrives, Stopping, StopJoinsLink, StopShutsServer, StopClosesClients,
     StopDropsSessions, StopJoinsAcceptor, StopJoinsHandlers
<1>4. CASE QtClients \/ UNCHANGED vars
  BY <1>4, TasksFrame DEF QtClients, ClientConnects, ClientStalls, ClientResumes, ClientLeaves, vars
<1> QED
  BY <1>1, <1>2, <1>3, <1>4, HandlersTasksTyped, SendersTasksTyped DEF Next, ServerSteps

\* A step that leaves the accept thread and the descriptors alone, and starts
\* no handler.
LEMMA SockFrame ==
    ASSUME SockInv, UNCHANGED <<acceptor, fds>>, Listening' => Listening,
           \A f \in Fds : Busy(f)' => Busy(f)
    PROVE  SockInv'
BY DEF SockInv

\* A handler's thread goes on, and may be the one that closes its descriptor.
LEMMA HandlersSock ==
    ASSUME TypeOK, SockInv, Listening' => Listening, NEW f \in Fds,
           HandlerReceives(f) \/ HandlerContinues(f)
    PROVE  SockInv'
<1>1. UNCHANGED acceptor /\ \A g \in Fds : g # f => handler'[g] = handler[g]
  <2>1. UNCHANGED acceptor
    BY DEF HandlerReceives, HandlerShakesHands, HandlerRejects, HandlerReplies, HandlerBroadcasts,
       HandlerLogsIn, HandlerContinues, HandlerMakesSession, HandlerGivesUp, HandlerSendsRaw,
       HandlerSetsRole, HandlerDisconnected, HandlerCloses, HandlerUnlists, HandlerDropsSession,
       HandlerFinishes
  <2>2. \E pc : HandlerAt(f, pc)
    BY DEF HandlerReceives, HandlerShakesHands, HandlerRejects, HandlerReplies, HandlerBroadcasts,
       HandlerLogsIn, HandlerContinues, HandlerMakesSession, HandlerGivesUp, HandlerSendsRaw,
       HandlerSetsRole, HandlerDisconnected, HandlerCloses, HandlerUnlists, HandlerDropsSession,
       HandlerFinishes
  <2> QED
    BY <2>1, <2>2 DEF HandlerAt, TypeOK
<1>2. CASE HandlerGivesUp(f) \/ HandlerCloses(f)
  <2>1. Busy(f) /\ ~Busy(f)' /\ fds'[f] = None /\ \A g \in Fds : g # f => fds'[g] = fds[g]
    BY <1>2, ClosesTyped DEF HandlerGivesUp, HandlerCloses, HandlerAt, Busy, TypeOK
  <2>2. \A g \in Fds : g # f => (Busy(g)' <=> Busy(g))
    BY <1>1 DEF Busy
  <2> QED
    BY <1>1, <2>1, <2>2 DEF SockInv
<1>3. CASE ~(HandlerGivesUp(f) \/ HandlerCloses(f))
  <2>1. Busy(f)' => Busy(f)
    BY <1>3 DEF HandlerReceives, HandlerShakesHands, HandlerRejects, HandlerReplies, HandlerBroadcasts,
       HandlerLogsIn, HandlerContinues, HandlerMakesSession, HandlerSendsRaw, HandlerSetsRole,
       HandlerDisconnected, HandlerUnlists, HandlerDropsSession, HandlerFinishes, HandlerAt, Busy,
       Hears, Receives, TypeOK
  <2>2. UNCHANGED fds
    BY <1>3 DEF HandlerReceives, HandlerShakesHands, HandlerRejects, HandlerReplies, HandlerBroadcasts,
       HandlerLogsIn, HandlerContinues, HandlerMakesSession, HandlerSendsRaw, HandlerSetsRole,
       HandlerDisconnected, HandlerUnlists, HandlerDropsSession, HandlerFinishes, socketVars
  <2>3. \A g \in Fds : Busy(g)' => Busy(g)
    BY <1>1, <2>1 DEF Busy
  <2> QED
    BY <1>1, <2>2, <2>3, SockFrame
<1> QED
  BY <1>2, <1>3

LEMMA AcceptorSock ==
    ASSUME TypeOK, SockInv, Listening' => Listening, AcceptThread
    PROVE  SockInv'
<1>1. CASE AcceptorCleansUp \/ AcceptorStops \/ AcceptorFails
  <2>1. acceptor'.pc \in {"enter", "ended"} /\ UNCHANGED fds
    BY <1>1 DEF AcceptorCleansUp, AcceptorStops, AcceptorFails, AcceptorAt, socketVars
  <2>2. \A f \in Fds : Busy(f)' => Busy(f)
    BY <1>1 DEF AcceptorCleansUp, AcceptorStops, AcceptorFails, Busy
  <2> QED
    BY <2>1, <2>2 DEF SockInv
<1>2. ASSUME NEW f \in Fds, AcceptorEnters(f) PROVE SockInv'
  <2>1. /\ acceptor' = [pc |-> "blocked", fd |-> f] /\ UNCHANGED handler /\ Listening
        /\ fds[f] = None /\ fds'[f] = Reserved /\ \A g \in Fds : g # f => fds'[g] = fds[g]
    BY <1>2 DEF AcceptorEnters, AcceptorAt, TypeOK
  <2>2. ~Busy(f) /\ \A g \in Fds : Busy(g)' <=> Busy(g)
    BY <2>1, QtAssumption DEF SockInv, Busy
  <2> QED
    BY <2>1, <2>2 DEF SockInv
<1>3. CASE AcceptorIsInterrupted
  <2>1. /\ acceptor' = [pc |-> "ended", fd |-> None] /\ UNCHANGED handler /\ ~Listening'
        /\ \A g \in Fds : fds'[g] = fds[g] \/ fds'[g] = None
    BY <1>3 DEF AcceptorIsInterrupted, AcceptorAt, TypeOK, flags, Listening, is_running
  <2>2. \A g \in Fds : Busy(g)' <=> Busy(g)
    BY <2>1 DEF Busy
  <2> QED
    BY <2>1, <2>2, QtAssumption DEF SockInv
<1>4. CASE AcceptorReturns
  <2>1. PICK f \in Fds, i \in Conns :
          /\ f = acceptor.fd /\ acceptor' = [pc |-> "list", fd |-> f] /\ UNCHANGED handler
          /\ fds'[f] = i /\ \A g \in Fds : g # f => fds'[g] = fds[g]
    BY <1>4 DEF AcceptorReturns, AcceptorAt, TypeOK, SockInv
  <2>2. ~Busy(f) /\ \A g \in Fds : Busy(g)' <=> Busy(g)
    BY <1>4, <2>1 DEF AcceptorReturns, SockInv, Busy
  <2> QED
    BY <2>1, <2>2, QtAssumption DEF SockInv
<1>5. CASE AcceptorLists
  <2>1. /\ acceptor' = [pc |-> "spawn", fd |-> acceptor.fd] /\ acceptor.pc = "list"
        /\ UNCHANGED <<handler, fds>>
    BY <1>5 DEF AcceptorLists, AcceptorAt, socketVars
  <2>2. \A g : Busy(g)' <=> Busy(g)
    BY <2>1 DEF Busy
  <2> QED
    BY <2>1, <2>2 DEF SockInv
<1>6. CASE AcceptorSpawns
  <2>1. PICK f \in Fds : f = acceptor.fd
    BY <1>6 DEF AcceptorSpawns, SockInv
  <2>2. /\ acceptor.pc = "spawn" /\ acceptor'.pc \in {"cleanup", "aborted"} /\ UNCHANGED fds
        /\ \A g \in Fds : g # f => handler'[g] = handler[g]
    BY <1>6, <2>1 DEF AcceptorSpawns, AcceptorAt, socketVars, TypeOK
  <2>3. \A g \in Fds : Busy(g)' => Busy(g) \/ g = f
    BY <2>2 DEF Busy
  <2> QED
    BY <2>1, <2>2, <2>3 DEF SockInv
<1> QED
  BY <1>1, <1>2, <1>3, <1>4, <1>5, <1>6 DEF AcceptThread

LEMMA SockStep == ASSUME IndInv, TypeOK, SockInv, [Next]_vars PROVE SockInv'
<1>0. Listening' => Listening
  BY FlagsStay
<1>1. ASSUME NEW t \in Threads, Sending(t) PROVE SockInv'
  <2>1. UNCHANGED <<acceptor, fds>>
    BY <1>1 DEF Sending, CastLocks, CastSkips, SendLooksUp, SendsHeader, SendsBody, SendEnds, socketVars
  <2>2. \A f \in Fds : Busy(f)' => Busy(f)
    <3>1. CASE SendEnds(t) /\ t \in Fds
      <4>1. handler[t] = "send"
        BY <3>1 DEF SendEnds, IndInv, SenderInv
      <4>2. \A f \in Fds : f # t => handler'[f] = handler[f]
        BY <3>1 DEF SendEnds, TypeOK
      <4> QED
        BY <4>1, <4>2 DEF Busy
    <3>2. CASE UNCHANGED handler
      BY <3>2 DEF Busy
    <3> QED
      BY <1>1, <3>1, <3>2 DEF Sending, CastLocks, CastSkips, SendLooksUp, SendsHeader, SendsBody, SendEnds
  <2> QED
    BY <1>0, <2>1, <2>2, SockFrame
<1>2. ASSUME NEW c \in Casters, NEW kind, CastStarts(c, kind) PROVE SockInv'
  BY <1>0, <1>2, SockFrame DEF CastStarts, socketVars, Busy
<1>3. CASE SignalArrives \/ Stopping
  <2>1. CASE StopClosesClients
    <3>1. /\ UNCHANGED <<acceptor, handler>> /\ ~Listening'
          /\ \A g \in Fds : fds'[g] = fds[g] \/ fds'[g] = None
      BY <2>1, ClosesTyped DEF StopClosesClients, StopAt, Listening, is_running
    <3>2. \A g \in Fds : Busy(g)' <=> Busy(g)
      BY <3>1 DEF Busy
    <3> QED
      BY <3>1, <3>2, QtAssumption DEF SockInv
  <2>2. CASE UNCHANGED <<acceptor, fds, handler>>
    BY <1>0, <2>2, SockFrame DEF Busy
  <2>3. CASE StopJoinsHandlers
    <3>1. UNCHANGED <<acceptor, fds>> /\ \A f \in Fds : ~Busy(f)'
      BY <2>3 DEF StopJoinsHandlers, socketVars, Busy
    <3> QED
      BY <1>0, <3>1, SockFrame
  <2> QED
    BY <1>3, <2>1, <2>2, <2>3 DEF SignalArrives, Stopping, StopJoinsLink, StopShutsServer,
       StopDropsSessions, StopJoinsAcceptor, socketVars
<1>4. CASE QtClients \/ UNCHANGED vars
  BY <1>0, <1>4, SockFrame DEF QtClients, ClientConnects, ClientStalls, ClientResumes, ClientLeaves,
     vars, socketVars, Busy
<1> QED
  BY <1>0, <1>1, <1>2, <1>3, <1>4, HandlersSock, AcceptorSock DEF Next, ServerSteps

\* In every reachable state a thread holds what its point and its work say.
THEOREM TypeInvariant == Spec => [](IndInv /\ TypeInv)
<1>1. Init => TypeInv
  <2> SUFFICES ASSUME Init PROVE TypeInv
    OBVIOUS
  <2>1. NoTask \in Task /\ NoTask.at = "idle"
    BY EmptyIsSeq DEF NoTask, Task
  <2>2. TypeOK
    BY <2>1, EmptyIsSeq, QtAssumption DEF Init, TypeOK, Connection, HandlerPoints
  <2>3. TodoInv
    BY <2>1 DEF Init, TodoInv, Writes
  <2>4. SockInv
    BY DEF Init, SockInv, Busy
  <2> QED
    BY <2>2, <2>3, <2>4 DEF TypeInv
<1>2. IndInv /\ IndInv' /\ TypeInv /\ [Next]_vars => TypeInv'
  <2> SUFFICES ASSUME IndInv, IndInv', TypeInv, [Next]_vars PROVE TypeInv'
    OBVIOUS
  <2>1. TypeOK /\ TodoInv /\ SockInv
    BY DEF TypeInv
  <2>2. SocketsTyped' /\ MapsTyped' /\ TasksTyped' /\ SockInv'
    BY <2>1, SocketsStep, MapsStep, TasksStep, SockStep
  <2>3. handler' \in [Fds -> HandlerPoints]
    BY DEF IndInv, Shape
  <2>4. TypeOK'
    BY <2>1, <2>2, <2>3, FlagsTyped, AcceptorTyped DEF TypeOK, SocketsTyped, MapsTyped, TasksTyped
  <2> QED
    BY <2>2, <2>4 DEF TypeInv, TasksTyped
<1> QED
  BY <1>1, <1>2, InductiveInvariant, PTL DEF Spec

\* Every variable keeps its type, in particular: no session and no role is ever
\* filed for the number that accept() has only reserved.
THEOREM TypeCorrect == Spec => []TypeOK
<1>1. TypeInv => TypeOK
  BY DEF TypeInv
<1> QED
  BY <1>1, TypeInvariant, PTL

----------------------------------------------------------------------------
(* While the server runs, what is filed under a client's number is its own.    *)

Alive == acceptor.pc # "aborted"

Spawns(f) == acceptor.pc = "spawn" /\ acceptor.fd = f

\* From LOGIN or not, and from the making of the TLS session.
OwnInv ==
    \A f \in Fds :
        /\ Busy(f) => client_roles[f] \in {None, fds[f]}
        /\ handler[f] = "session" => tls_sessions[f] = None
        /\ tls /\ Serves(f) => tls_sessions[f] \in Session /\ tls_sessions[f].of = fds[f]

\* No handler, or one that has taken its descriptor out of the list.
Unlisted(f) == handler[f] \in {"none", "unsession", "finish"} \/ f \in finished_fds

\* A descriptor is in client_fds_ once from when the accept thread lists it
\* until its handler takes it out.  Nothing is said of the time between close()
\* and that: the number may be listed a second time.
Listing ==
    \A f \in Fds :
        /\ Busy(f) => OccursOnce(f, client_fds)
        /\ Alive /\ Spawns(f) /\ handler[f] = "none" => OccursOnce(f, client_fds)
        /\ Alive /\ ~Spawns(f) /\ Unlisted(f) => ~Occurs(f, client_fds)

CurrentInv == OwnInv /\ Listing

RunInv == IndInv /\ TypeInv /\ CleanInv

\* A step that files nothing, starts no handler and closes nothing.
LEMMA OwnFrame ==
    ASSUME OwnInv, UNCHANGED <<tls, client_roles, tls_sessions>>,
           \A f \in Fds : /\ Busy(f)' => Busy(f) /\ fds'[f] = fds[f]
                          /\ Serves(f)' => Serves(f)
                          /\ handler'[f] = "session" => handler[f] = "session"
    PROVE  OwnInv'
<1>1. \A f \in Fds : Serves(f)' => Busy(f)'
  BY DEF Serves, Busy
<1> QED
  BY <1>1 DEF OwnInv

\* A step of one handler.
LEMMA OwnMoves ==
    ASSUME OwnInv, NEW f \in Fds, UNCHANGED tls,
           \A g \in Fds \ {f} : /\ handler'[g] = handler[g] /\ fds'[g] = fds[g]
                                /\ client_roles'[g] = client_roles[g] /\ tls_sessions'[g] = tls_sessions[g],
           Busy(f)' => client_roles'[f] \in {None, fds'[f]},
           handler'[f] = "session" => tls_sessions'[f] = None,
           tls /\ Serves(f)' => tls_sessions'[f] \in Session /\ tls_sessions'[f].of = fds'[f]
    PROVE  OwnInv'
<1>1. ASSUME NEW g \in Fds, g # f
      PROVE  /\ Busy(g)' => client_roles'[g] \in {None, fds'[g]}
             /\ handler'[g] = "session" => tls_sessions'[g] = None
             /\ tls /\ Serves(g)' => tls_sessions'[g] \in Session /\ tls_sessions'[g].of = fds'[g]
  BY <1>1 DEF OwnInv, Busy, Serves
<1> QED
  BY <1>1 DEF OwnInv

LEMMA HandlersOwn ==
    ASSUME RunInv, OwnInv, NEW f \in Fds, HandlerReceives(f) \/ HandlerContinues(f)
    PROVE  OwnInv'
<1>0. Again = "recv" /\ TypeOK
  BY DEF Again, is_running, RunInv, CleanInv, TypeInv
<1>1. CASE HandlerMakesSession(f)
  <2>1. /\ handler[f] = "session" /\ tls_sessions[f] = None /\ handler'[f] = "recv"
        /\ tls_sessions'[f] = [of |-> fds[f], flights |-> 0] /\ UNCHANGED <<fds, client_roles, tls>>
        /\ \A g \in Fds \ {f} : handler'[g] = handler[g] /\ tls_sessions'[g] = tls_sessions[g]
    BY <1>0, <1>1 DEF HandlerMakesSession, HandlerAt, OwnInv, TypeOK, socketVars, flags
  <2>2. fds[f] \in Conns
    BY <2>1 DEF RunInv, CleanInv, TypeInv, SockInv, Listening, is_running, Busy
  <2>3. PICK new \in Session : new = tls_sessions'[f] /\ new.of = fds[f]
    BY <2>1, <2>2 DEF Session
  <2>4. Busy(f) /\ client_roles'[f] \in {None, fds'[f]}
    BY <2>1 DEF Busy, OwnInv
  <2> QED
    BY <2>1, <2>3, <2>4, OwnMoves
<1>2. CASE HandlerShakesHands(f)
  <2>1. /\ handler[f] = "recv" /\ tls_sessions[f] \in Session /\ handler'[f] = "handshake"
        /\ tls_sessions' = [tls_sessions EXCEPT ![f] = [tls_sessions[f] EXCEPT !.flights = @ + 1]]
        /\ UNCHANGED <<fds, client_roles, tls>>
        /\ \A g \in Fds \ {f} : handler'[g] = handler[g]
    BY <1>0, <1>2 DEF HandlerShakesHands, Receives, HandlerAt, TypeOK, socketVars, flags
  <2>2. /\ \A g \in Fds \ {f} : tls_sessions'[g] = tls_sessions[g]
        /\ tls_sessions'[f].of = tls_sessions[f].of
    BY <1>0, <2>1 DEF TypeOK, Session
  <2>3. tls_sessions'[f] \in Session
    <3>1. tls_sessions[f].flights \in 0..1
      BY <1>2, <2>1 DEF HandlerShakesHands, HandshakeDone, Session
    <3>2. [tls_sessions[f] EXCEPT !.flights = @ + 1] \in Session
      BY <2>1, <3>1 DEF Session
    <3> QED
      BY <1>0, <2>1, <3>2 DEF TypeOK
  <2>4. Busy(f) /\ Serves(f)
    BY <2>1 DEF Busy, Serves
  <2> QED
    BY <2>1, <2>2, <2>3, <2>4, OwnMoves DEF OwnInv
<1>3. CASE HandlerSetsRole(f)
  <2>1. /\ handler[f] = "role" /\ handler'[f] = "send" /\ client_roles'[f] = fds[f]
        /\ UNCHANGED <<fds, tls_sessions, tls>>
        /\ \A g \in Fds \ {f} : handler'[g] = handler[g] /\ client_roles'[g] = client_roles[g]
    BY <1>0, <1>3 DEF HandlerSetsRole, HandlerAt, TypeOK, socketVars, flags
  <2>2. Serves(f)
    BY <2>1 DEF Serves
  <2> QED
    BY <2>1, <2>2, OwnMoves DEF OwnInv
<1>4. CASE HandlerCloses(f)
  <2>1. /\ handler'[f] = "unlist" /\ UNCHANGED <<client_roles, tls_sessions, tls>>
        /\ \A g \in Fds \ {f} : handler'[g] = handler[g] /\ fds'[g] = fds[g]
    BY <1>0, <1>4, ClosesTyped DEF HandlerCloses, HandlerAt, TypeOK, maps, flags
  <2> QED
    BY <2>1, OwnMoves DEF Busy, Serves
<1>5. CASE HandlerUnlists(f)
  <2>1. /\ handler'[f] = "unsession" /\ UNCHANGED <<fds, tls_sessions, tls>>
        /\ \A g \in Fds \ {f} : handler'[g] = handler[g] /\ client_roles'[g] = client_roles[g]
    BY <1>0, <1>5 DEF HandlerUnlists, HandlerAt, TypeOK, socketVars, flags
  <2> QED
    BY <2>1, OwnMoves DEF Busy, Serves
<1>6. CASE HandlerDropsSession(f)
  <2>1. /\ handler'[f] = "finish" /\ UNCHANGED <<fds, client_roles, tls>>
        /\ \A g \in Fds \ {f} : handler'[g] = handler[g] /\ tls_sessions'[g] = tls_sessions[g]
    BY <1>0, <1>6 DEF HandlerDropsSession, HandlerAt, TypeOK, socketVars, flags
  <2> QED
    BY <2>1, OwnMoves DEF Busy, Serves
<1>7. ASSUME NEW pc, HandlerAt(f, pc), UNCHANGED <<fds, tls, client_roles, tls_sessions>>,
             pc = "done" \/ Serves(f), pc # "session"
      PROVE  OwnInv'
  <2>1. handler'[f] = pc /\ \A g \in Fds \ {f} : handler'[g] = handler[g]
    BY <1>0, <1>7 DEF HandlerAt, TypeOK
  <2>2. CASE Serves(f)
    BY <1>7, <2>1, <2>2, OwnMoves DEF OwnInv, Busy, Serves
  <2>3. CASE pc = "done"
    BY <1>7, <2>1, <2>3, OwnMoves DEF Busy, Serves
  <2> QED
    BY <1>7, <2>2, <2>3
<1>8. CASE HandlerRejects(f) \/ HandlerReplies(f) \/ HandlerBroadcasts(f) \/ HandlerLogsIn(f)
  BY <1>7, <1>8 DEF HandlerRejects, HandlerReplies, HandlerBroadcasts, HandlerLogsIn, Hears, Receives,
     Serves, socketVars, maps, flags
<1>9. CASE HandlerSendsRaw(f) \/ HandlerDisconnected(f) \/ HandlerFinishes(f)
  BY <1>0, <1>7, <1>9 DEF HandlerSendsRaw, HandlerDisconnected, HandlerFinishes, Serves, socketVars, maps,
     flags
<1>10. CASE HandlerGivesUp(f)
  <2>1. /\ handler'[f] = "done" /\ UNCHANGED <<client_roles, tls>>
        /\ \A g \in Fds \ {f} : /\ handler'[g] = handler[g] /\ fds'[g] = fds[g]
                                /\ tls_sessions'[g] = tls_sessions[g]
    BY <1>0, <1>10, ClosesTyped DEF HandlerGivesUp, HandlerAt, TypeOK, flags
  <2> QED
    BY <2>1, OwnMoves DEF Busy, Serves
<1> QED
  BY <1>1, <1>2, <1>3, <1>4, <1>5, <1>6, <1>8, <1>9, <1>10 DEF HandlerReceives, HandlerContinues

LEMMA AcceptorOwn == ASSUME RunInv, OwnInv, AcceptThread PROVE OwnInv'
<1>0. TypeOK /\ SockInv /\ CleanInv /\ Listening /\ Again = "recv"
  BY DEF Again, is_running, Listening, RunInv, CleanInv, TypeInv
<1>1. CASE AcceptorSpawns
  <2>1. PICK f \in Fds : f = acceptor.fd
    BY <1>0, <1>1 DEF AcceptorSpawns, SockInv
  <2>2. UNCHANGED <<fds, tls, client_roles, tls_sessions>>
    BY <1>1 DEF AcceptorSpawns, socketVars, maps, flags
  <2>3. CASE handler[f] = "none"
    <3>1. /\ handler'[f] = IF tls THEN "session" ELSE "recv"
          /\ \A g \in Fds \ {f} : handler'[g] = handler[g]
      BY <1>0, <1>1, <2>1, <2>3 DEF AcceptorSpawns, TypeOK
    <3>2. client_roles[f] = None /\ tls_sessions[f] = None
      BY <1>0, <2>3 DEF CleanInv
    <3> QED
      BY <2>2, <3>1, <3>2, OwnMoves DEF Serves
  <2>4. CASE handler[f] # "none"
    BY <1>1, <2>1, <2>2, <2>4, OwnFrame DEF AcceptorSpawns, Busy, Serves
  <2> QED
    BY <2>3, <2>4
<1>2. CASE AcceptorCleansUp
  <2>1. \A f \in Fds : handler'[f] = handler[f] \/ handler'[f] = "none"
    BY <1>2 DEF AcceptorCleansUp
  <2> QED
    BY <1>2, <2>1, OwnFrame DEF AcceptorCleansUp, Busy, Serves, socketVars, flags
<1>3. CASE AcceptorStops \/ AcceptorFails \/ AcceptorLists
  BY <1>3, OwnFrame DEF AcceptorStops, AcceptorFails, AcceptorLists, Busy, Serves, socketVars, flags, maps
<1>4. CASE AcceptorIsInterrupted \/ AcceptorReturns \/ \E f \in Fds : AcceptorEnters(f)
  <2>1. \A f \in Fds : Busy(f)' => Busy(f) /\ fds'[f] = fds[f]
    <3>1. CASE AcceptorIsInterrupted \/ AcceptorReturns
      <4>1. acceptor.fd \in Fds /\ ~Busy(acceptor.fd) /\ UNCHANGED handler
        BY <1>0, <3>1 DEF AcceptorIsInterrupted, AcceptorReturns, SockInv
      <4>2. \A f \in Fds : f # acceptor.fd => fds'[f] = fds[f]
        BY <1>0, <3>1 DEF AcceptorIsInterrupted, AcceptorReturns, TypeOK
      <4> QED
        BY <4>1, <4>2 DEF Busy
    <3>2. ASSUME NEW f \in Fds, AcceptorEnters(f) PROVE \A g \in Fds : Busy(g)' => Busy(g) /\ fds'[g] = fds[g]
      <4>1. ~Busy(f) /\ UNCHANGED handler
        BY <1>0, <3>2, QtAssumption DEF AcceptorEnters, SockInv
      <4>2. \A g \in Fds : g # f => fds'[g] = fds[g]
        BY <1>0, <3>2 DEF AcceptorEnters, TypeOK
      <4> QED
        BY <4>1, <4>2 DEF Busy
    <3> QED
      BY <1>4, <3>1, <3>2
  <2> QED
    BY <1>4, <2>1, OwnFrame DEF AcceptorIsInterrupted, AcceptorReturns, AcceptorEnters, Serves, flags, maps
<1> QED
  BY <1>1, <1>2, <1>3, <1>4 DEF AcceptThread

LEMMA SendersOwn == ASSUME RunInv, OwnInv, NEW t \in Threads, Sending(t) PROVE OwnInv'
<1>1. UNCHANGED <<fds, tls, client_roles, tls_sessions>>
  BY DEF Sending, CastLocks, CastSkips, SendLooksUp, SendsHeader, SendsBody, SendEnds, socketVars, flags, maps
<1>2. CASE SendEnds(t) /\ t \in Fds
  <2>1. handler[t] = "send" /\ handler'[t] = "recv" /\ \A f \in Fds \ {t} : handler'[f] = handler[f]
    BY <1>2 DEF SendEnds, RunInv, IndInv, SenderInv, TypeInv, TypeOK, Again, is_running, CleanInv
  <2>2. Busy(t) /\ Serves(t)
    BY <2>1 DEF Busy, Serves
  <2> QED
    BY <1>1, <1>2, <2>1, <2>2, OwnMoves DEF OwnInv
<1>3. CASE UNCHANGED handler
  BY <1>1, <1>3, OwnFrame DEF Busy, Serves
<1> QED
  BY <1>2, <1>3 DEF Sending, CastLocks, CastSkips, SendLooksUp, SendsHeader, SendsBody, SendEnds

\* A step that lists and unlists nobody, starts no handler and gives no number
\* back.
LEMMA ListingFrame ==
    ASSUME Listing, UNCHANGED client_fds, Alive' => Alive,
           acceptor'.pc = "spawn" \/ acceptor.pc = "spawn" => acceptor' = acceptor,
           \A f \in Fds :
              /\ Busy(f)' => Busy(f)
              /\ Unlisted(f)' => Unlisted(f)
              /\ handler'[f] = "none" /\ acceptor.pc = "spawn" => handler[f] = "none"
    PROVE  Listing'
<1>1. \A f \in Fds : Spawns(f)' <=> Spawns(f)
  BY DEF Spawns
<1> QED
  BY <1>1 DEF Listing, Spawns

LEMMA AcceptorListing == ASSUME RunInv, Listing, Alive, AcceptThread PROVE Listing'
<1>0. TypeOK /\ SockInv /\ CleanInv /\ Again = "recv"
  BY DEF Again, is_running, RunInv, CleanInv, TypeInv
<1>1. CASE AcceptorCleansUp
  <2>1. \A f \in Fds : handler'[f] = IF f \in finished_fds THEN "none" ELSE handler[f]
    BY <1>1 DEF AcceptorCleansUp
  <2>2. \A f \in finished_fds : handler[f] = "done"
    BY <1>0 DEF CleanInv, TypeOK
  <2>3. \A f \in Fds : Unlisted(f)' => Unlisted(f)
    BY <1>1, <2>1, <2>2 DEF AcceptorCleansUp, Unlisted
  <2> QED
    BY <1>1, <2>1, <2>2, <2>3, ListingFrame DEF AcceptorCleansUp, AcceptorAt, Alive, Busy
<1>2. CASE AcceptorStops \/ AcceptorFails \/ AcceptorIsInterrupted \/ AcceptorReturns
           \/ \E f \in Fds : AcceptorEnters(f)
  BY <1>2, ListingFrame
     DEF AcceptorStops, AcceptorFails, AcceptorIsInterrupted, AcceptorReturns, AcceptorEnters, AcceptorAt,
         Alive, Busy, Unlisted, maps
<1>3. CASE AcceptorLists
  <2>1. PICK f \in Fds, s \in Seq(Fds) : f = acceptor.fd /\ s = client_fds
    BY <1>0, <1>3 DEF AcceptorLists, SockInv, TypeOK
  <2>2. /\ ~Busy(f) /\ UNCHANGED <<handler, finished_fds>> /\ client_fds' = Append(client_fds, f)
        /\ acceptor.pc = "list" /\ acceptor' = [pc |-> "spawn", fd |-> f]
    BY <1>0, <1>3, <2>1 DEF AcceptorLists, AcceptorAt, SockInv
  <2>3. \A g \in Fds : /\ Occurs(g, client_fds') <=> g = f \/ Occurs(g, client_fds)
                       /\ OccursOnce(g, client_fds') <=>
                             IF g = f THEN ~Occurs(g, client_fds) ELSE OccursOnce(g, client_fds)
    <3>1. \A g \in Fds : /\ Occurs(g, Append(s, f)) <=> g = f \/ Occurs(g, s)
                         /\ OccursOnce(g, Append(s, f)) <=>
                               IF g = f THEN ~Occurs(g, s) ELSE OccursOnce(g, s)
      BY OccursAppend
    <3> QED
      BY <2>1, <2>2, <3>1
  <2>4. \A g \in Fds : ~Spawns(g) /\ (Spawns(g)' <=> g = f)
    BY <2>2 DEF Spawns
  <2>5. ASSUME NEW g \in Fds, Busy(g)' PROVE OccursOnce(g, client_fds')
    BY <2>2, <2>3, <2>5 DEF Busy, Listing
  <2>6. ASSUME NEW g \in Fds, Spawns(g)', handler'[g] = "none" PROVE OccursOnce(g, client_fds')
    BY <2>2, <2>3, <2>4, <2>6 DEF Listing, Unlisted
  <2>7. ASSUME NEW g \in Fds, ~Spawns(g)', Unlisted(g)' PROVE ~Occurs(g, client_fds')
    BY <2>2, <2>3, <2>4, <2>7 DEF Listing, Unlisted
  <2> QED
    BY <2>5, <2>6, <2>7 DEF Listing
<1>4. CASE AcceptorSpawns
  <2>1. PICK f \in Fds : f = acceptor.fd
    BY <1>0, <1>4 DEF AcceptorSpawns, SockInv
  <2>2. CASE handler[f] = "none"
    <3>1. /\ acceptor.pc = "spawn" /\ acceptor' = [pc |-> "cleanup", fd |-> None]
          /\ handler'[f] \in {"session", "recv"} /\ \A g \in Fds : g # f => handler'[g] = handler[g]
          /\ UNCHANGED <<client_fds, finished_fds>> /\ f \notin finished_fds
      BY <1>0, <1>4, <2>1, <2>2 DEF AcceptorSpawns, AcceptorAt, TypeOK, maps, CleanInv
    <3>2. \A g \in Fds : ~Spawns(g)' /\ (Spawns(g) <=> g = f)
      BY <2>1, <3>1 DEF Spawns
    <3>3. OccursOnce(f, client_fds)
      BY <2>2, <3>2 DEF Listing
    <3>4. ASSUME NEW g \in Fds, Busy(g)' PROVE OccursOnce(g, client_fds')
      BY <3>1, <3>3, <3>4 DEF Busy, Listing
    <3>5. ASSUME NEW g \in Fds, Unlisted(g)' PROVE ~Occurs(g, client_fds')
      <4>1. g # f /\ Unlisted(g)
        BY <3>1, <3>5 DEF Unlisted
      <4> QED
        BY <3>1, <3>2, <4>1 DEF Listing
    <3> QED
      BY <3>2, <3>4, <3>5 DEF Listing
  <2>3. CASE handler[f] # "none"
    <3>1. ~Alive' /\ UNCHANGED <<handler, client_fds>>
      BY <1>4, <2>1, <2>3 DEF AcceptorSpawns, AcceptorAt, Alive, maps
    <3> QED
      BY <3>1 DEF Listing, Busy
  <2> QED
    BY <2>2, <2>3
<1> QED
  BY <1>1, <1>2, <1>3, <1>4 DEF AcceptThread

LEMMA HandlersListing ==
    ASSUME RunInv, Listing, NEW f \in Fds, HandlerReceives(f) \/ HandlerContinues(f)
    PROVE  Listing'
<1>0. TypeOK /\ Again = "recv"
  BY DEF Again, is_running, RunInv, CleanInv, TypeInv
<1>1. /\ UNCHANGED acceptor /\ \A g \in Fds : g # f => handler'[g] = handler[g]
      /\ \A g \in Fds : Spawns(g)' <=> Spawns(g)
  <2>1. UNCHANGED acceptor
    BY DEF HandlerReceives, HandlerShakesHands, HandlerRejects, HandlerReplies, HandlerBroadcasts,
       HandlerLogsIn, HandlerContinues, HandlerMakesSession, HandlerGivesUp, HandlerSendsRaw,
       HandlerSetsRole, HandlerDisconnected, HandlerCloses, HandlerUnlists, HandlerDropsSession,
       HandlerFinishes
  <2>2. \E pc : HandlerAt(f, pc)
    BY DEF HandlerReceives, HandlerShakesHands, HandlerRejects, HandlerReplies, HandlerBroadcasts,
       HandlerLogsIn, HandlerContinues, HandlerMakesSession, HandlerGivesUp, HandlerSendsRaw,
       HandlerSetsRole, HandlerDisconnected, HandlerCloses, HandlerUnlists, HandlerDropsSession,
       HandlerFinishes
  <2> QED
    BY <1>0, <2>1, <2>2 DEF HandlerAt, TypeOK, Spawns
<1>2. CASE HandlerUnlists(f)
  <2>1. /\ handler[f] = "unlist" /\ handler'[f] = "unsession" /\ UNCHANGED finished_fds
        /\ client_fds' = Keep(client_fds, Fds \ {f})
    BY <1>0, <1>2 DEF HandlerUnlists, HandlerAt, TypeOK
  <2>2. /\ ~Occurs(f, client_fds')
        /\ \A g \in Fds \ {f} : /\ Occurs(g, client_fds') <=> Occurs(g, client_fds)
                                /\ OccursOnce(g, client_fds') <=> OccursOnce(g, client_fds)
    <3>1. PICK s \in Seq(Fds) : s = client_fds
      BY <1>0 DEF TypeOK
    <3>2. \A g \in Fds : /\ Occurs(g, Keep(s, Fds \ {f})) <=> g \in Fds \ {f} /\ Occurs(g, s)
                         /\ OccursOnce(g, Keep(s, Fds \ {f})) <=> g \in Fds \ {f} /\ OccursOnce(g, s)
      BY KeepOccurs
    <3> QED
      BY <2>1, <3>1, <3>2
  <2>3. ASSUME NEW g \in Fds, Busy(g)' PROVE OccursOnce(g, client_fds')
    BY <1>1, <2>1, <2>2, <2>3 DEF Busy, Listing
  <2>4. ASSUME Alive', NEW g \in Fds, Spawns(g)', handler'[g] = "none" PROVE OccursOnce(g, client_fds')
    BY <1>1, <2>1, <2>2, <2>4 DEF Alive, Listing
  <2>5. ASSUME Alive', NEW g \in Fds, ~Spawns(g)', Unlisted(g)' PROVE ~Occurs(g, client_fds')
    BY <1>1, <2>1, <2>2, <2>5 DEF Alive, Listing, Unlisted
  <2> QED
    BY <2>3, <2>4, <2>5 DEF Listing
<1>3. CASE ~HandlerUnlists(f)
  <2>1. UNCHANGED client_fds
    BY <1>3 DEF HandlerReceives, HandlerShakesHands, HandlerRejects, HandlerReplies, HandlerBroadcasts,
       HandlerLogsIn, HandlerContinues, HandlerMakesSession, HandlerGivesUp, HandlerSendsRaw,
       HandlerSetsRole, HandlerDisconnected, HandlerCloses, HandlerDropsSession, HandlerFinishes, maps
  <2>2. PICK pc \in HandlerPoints : HandlerAt(f, pc)
          /\ \/ Busy(f) /\ pc \notin {"none", "unsession", "finish"} /\ UNCHANGED finished_fds
             \/ /\ handler[f] \in {"unsession", "finish"} /\ pc \in {"finish", "done"}
                /\ finished_fds' \subseteq finished_fds \cup {f}
    BY <1>0, <1>3 DEF HandlerReceives, HandlerShakesHands, HandlerRejects, HandlerReplies,
       HandlerBroadcasts, HandlerLogsIn, HandlerContinues, HandlerMakesSession, HandlerGivesUp,
       HandlerSendsRaw, HandlerSetsRole, HandlerDisconnected, HandlerCloses, HandlerDropsSession,
       HandlerFinishes, Hears, Receives, Busy, HandlerPoints, maps
  <2>3. handler'[f] = pc
    BY <1>0, <2>2 DEF HandlerAt, TypeOK
  <2>4. \A g \in Fds :
              /\ Busy(g)' => Busy(g)
              /\ Unlisted(g)' => Unlisted(g)
              /\ handler'[g] = "none" /\ acceptor.pc = "spawn" => handler[g] = "none"
    <3>1. \A g \in finished_fds : g \in Fds => handler[g] = "done"
      BY DEF RunInv, CleanInv
    <3>2. f \notin finished_fds
      BY <2>2, <3>1 DEF Busy
    <3>3. ASSUME NEW g \in Fds, Unlisted(g)' PROVE Unlisted(g)
      BY <1>1, <2>2, <2>3, <3>2, <3>3 DEF Unlisted, Busy
    <3> QED
      BY <1>1, <2>2, <2>3, <3>3 DEF Busy
  <2> QED
    BY <1>1, <2>1, <2>4, ListingFrame DEF Alive
<1> QED
  BY <1>2, <1>3

LEMMA SendersListing == ASSUME RunInv, Listing, NEW t \in Threads, Sending(t) PROVE Listing'
<1>1. UNCHANGED <<acceptor, client_fds, finished_fds>>
  BY DEF Sending, CastLocks, CastSkips, SendLooksUp, SendsHeader, SendsBody, SendEnds, maps
<1>2. CASE SendEnds(t) /\ t \in Fds
  <2>1. handler[t] = "send" /\ handler'[t] = "recv" /\ \A f \in Fds \ {t} : handler'[f] = handler[f]
    BY <1>2 DEF SendEnds, RunInv, IndInv, SenderInv, TypeInv, TypeOK, Again, is_running, CleanInv
  <2> QED
    BY <1>1, <1>2, <2>1, ListingFrame DEF Busy, Unlisted, Alive
<1>3. CASE UNCHANGED handler
  BY <1>1, <1>3, ListingFrame DEF Busy, Unlisted, Alive
<1> QED
  BY <1>2, <1>3 DEF Sending, CastLocks, CastSkips, SendLooksUp, SendsHeader, SendsBody, SendEnds

\* Until SIGINT, what is filed for a number that is served is its own.
THEOREM CurrentInvariant == Spec => [](stop = "running" => CurrentInv)
<1>1. Init => CurrentInv
  <2>1. Init => ~\E f \in Fds : Occurs(f, client_fds)
    BY DEF Init, Occurs
  <2> QED
    BY <2>1 DEF Init, CurrentInv, OwnInv, Listing, Busy, Serves, Spawns
<1>2. /\ IndInv /\ TypeInv /\ (stop = "running" => CleanInv)
      /\ (stop = "running" => CurrentInv) /\ [Next]_vars
      => (stop = "running" => CurrentInv)'
  <2> SUFFICES ASSUME IndInv, TypeInv, stop = "running" => CleanInv, stop = "running" => CurrentInv,
                      [Next]_vars, stop' = "running"
               PROVE  CurrentInv'
    OBVIOUS
  <2>0. RunInv /\ OwnInv /\ Listing /\ ~Stopping /\ ~SignalArrives
    BY StopIsFinal DEF RunInv, CurrentInv
  <2>1. CASE UNCHANGED <<fds, handler, acceptor, tls, maps>>
    <3>1. OwnInv'
      BY <2>0, <2>1, OwnFrame DEF Busy, Serves, maps
    <3>2. Listing'
      BY <2>0, <2>1, ListingFrame DEF Busy, Unlisted, Alive, maps
    <3> QED
      BY <3>1, <3>2 DEF CurrentInv
  <2>2. CASE QtClients \/ UNCHANGED vars
    BY <2>1, <2>2 DEF QtClients, ClientConnects, ClientStalls, ClientResumes, ClientLeaves, maps, flags,
       vars, socketVars
  <2>3. CASE ServerSteps
    <3>1. CASE \E c \in Casters, kind \in {"all", "role"} : CastStarts(c, kind)
      BY <2>1, <3>1 DEF CastStarts, maps, flags, socketVars
    <3>2. CASE AcceptThread
      BY <2>0, <2>3, <3>2, AcceptorOwn, AcceptorListing DEF ServerSteps, Alive, CurrentInv
    <3>3. ASSUME NEW f \in Fds, HandlerReceives(f) \/ HandlerContinues(f) PROVE CurrentInv'
      BY <2>0, <3>3, HandlersOwn, HandlersListing DEF CurrentInv
    <3>4. ASSUME NEW t \in Threads, Sending(t) PROVE CurrentInv'
      BY <2>0, <3>4, SendersOwn, SendersListing DEF CurrentInv
    <3> QED
      BY <2>0, <2>3, <3>1, <3>2, <3>3, <3>4 DEF ServerSteps
  <2> QED
    BY <2>2, <2>3 DEF Next
<1> QED
  BY <1>1, <1>2, TypeInvariant, NumbersAreClean, PTL DEF Spec

\* Until SIGINT, what is filed under the descriptor of a client that is served,
\* its role, its TLS session, its place in the list, is its own and not what the
\* number's previous owner left, however often numbers are used again.
THEOREM ServedByTheirOwn == Spec => [](stop = "running" => MapsAreCurrent)
<1>1. TypeInv /\ (stop = "running" => CurrentInv) => (stop = "running" => MapsAreCurrent)
  <2> SUFFICES ASSUME TypeInv, stop = "running", CurrentInv, NEW f \in Fds, Serves(f)
               PROVE  /\ fds[f] \in Conns
                      /\ client_roles[f] \in {None, fds[f]}
                      /\ tls => tls_sessions[f].of = fds[f]
                      /\ OccursOnce(f, client_fds)
    BY DEF MapsAreCurrent
  <2>1. Busy(f)
    BY DEF Busy, Serves
  <2>2. fds[f] \in Conns
    BY <2>1 DEF TypeInv, SockInv, Listening, is_running
  <2> QED
    BY <2>1, <2>2 DEF CurrentInv, OwnInv, Listing
<1> QED
  BY <1>1, TypeInvariant, CurrentInvariant, PTL

----------------------------------------------------------------------------
(* Handlers that end without announcing it.                                   *)

\* f's handler has returned because SSL_new failed.
GaveUp(f) == handler[f] = "done" /\ f \notin finished_fds

\* It leaves the session that it has just made, and its descriptor listed.
LeftInv == \A f \in Fds : GaveUp(f) => tls_sessions[f] # None /\ Occurs(f, client_fds)

\* A step that erases neither of them where a handler has given up.
LEMMA LeftFrame ==
    ASSUME LeftInv,
           \A f \in Fds : GaveUp(f)' =>
              /\ GaveUp(f)
              /\ tls_sessions'[f] = tls_sessions[f]
              /\ Occurs(f, client_fds) => Occurs(f, client_fds')
    PROVE  LeftInv'
BY DEF LeftInv

LEMMA HandlersLeft ==
    ASSUME RunInv, CurrentInv, LeftInv, NEW f \in Fds, HandlerReceives(f) \/ HandlerContinues(f)
    PROVE  LeftInv'
<1>0. TypeOK /\ SockInv /\ CleanInv /\ Listening /\ Again = "recv"
  BY DEF Again, is_running, Listening, RunInv, CleanInv, TypeInv
<1>1. CASE HandlerGivesUp(f)
  <2>1. /\ handler[f] = "session" /\ tls_sessions[f] = None /\ UNCHANGED <<client_fds, finished_fds>>
        /\ tls_sessions'[f] = [of |-> fds[f], flights |-> 0]
        /\ \A g \in Fds \ {f} : handler'[g] = handler[g] /\ tls_sessions'[g] = tls_sessions[g]
    BY <1>0, <1>1 DEF HandlerGivesUp, HandlerAt, CurrentInv, OwnInv, TypeOK
  <2>2. fds[f] \in Conns
    BY <1>0, <2>1 DEF SockInv, Busy
  <2>3. PICK new \in Session : new = tls_sessions'[f]
    BY <2>1, <2>2 DEF Session
  <2>4. tls_sessions'[f] # None
    BY <2>3, NoneIsNoSession
  <2>5. Occurs(f, client_fds')
    <3>1. OccursOnce(f, client_fds)
      BY <2>1 DEF CurrentInv, Listing, Busy
    <3> QED
      BY <2>1, <3>1 DEF OccursOnce, Occurs
  <2> QED
    BY <2>1, <2>4, <2>5 DEF LeftInv, GaveUp
<1>2. CASE HandlerFinishes(f)
  <2>1. /\ f \in finished_fds' /\ finished_fds \subseteq finished_fds'
        /\ UNCHANGED <<tls_sessions, client_fds>> /\ \A g \in Fds \ {f} : handler'[g] = handler[g]
    BY <1>0, <1>2 DEF HandlerFinishes, HandlerAt, TypeOK
  <2> QED
    BY <2>1, LeftFrame DEF GaveUp
<1>3. CASE ~HandlerGivesUp(f) /\ ~HandlerFinishes(f)
  <2>1. /\ \A g \in Fds : GaveUp(g)' => g # f /\ GaveUp(g)
        /\ \A g \in Fds : g # f => tls_sessions'[g] = tls_sessions[g]
    <3>1. PICK pc \in HandlerPoints \ {"done"} : HandlerAt(f, pc)
      BY <1>0, <1>3 DEF HandlerReceives, HandlerShakesHands, HandlerRejects, HandlerReplies,
         HandlerBroadcasts, HandlerLogsIn, HandlerContinues, HandlerMakesSession, HandlerSendsRaw,
         HandlerSetsRole, HandlerDisconnected, HandlerCloses, HandlerUnlists, HandlerDropsSession,
         HandlerPoints
    <3>2. UNCHANGED finished_fds /\ \A g \in Fds : g # f => tls_sessions'[g] = tls_sessions[g]
      BY <1>0, <1>3 DEF HandlerReceives, HandlerShakesHands, HandlerRejects, HandlerReplies,
         HandlerBroadcasts, HandlerLogsIn, HandlerContinues, HandlerMakesSession, HandlerSendsRaw,
         HandlerSetsRole, HandlerDisconnected, HandlerCloses, HandlerUnlists, HandlerDropsSession,
         maps, TypeOK
    <3> QED
      BY <1>0, <3>1, <3>2 DEF HandlerAt, TypeOK, GaveUp
  <2>2. \A g \in Fds : g # f /\ Occurs(g, client_fds) => Occurs(g, client_fds')
    <3>1. CASE HandlerUnlists(f)
      <4>1. PICK s \in Seq(Fds) : s = client_fds
        BY <1>0 DEF TypeOK
      <4>2. \A g \in Fds : Occurs(g, Keep(s, Fds \ {f})) <=> g \in Fds \ {f} /\ Occurs(g, s)
        BY KeepOccurs
      <4> QED
        BY <3>1, <4>1, <4>2 DEF HandlerUnlists
    <3>2. CASE UNCHANGED client_fds
      BY <3>2
    <3> QED
      BY <1>3, <3>1, <3>2 DEF HandlerReceives, HandlerShakesHands, HandlerRejects, HandlerReplies,
         HandlerBroadcasts, HandlerLogsIn, HandlerContinues, HandlerMakesSession, HandlerSendsRaw,
         HandlerSetsRole, HandlerDisconnected, HandlerCloses, HandlerDropsSession, maps
  <2> QED
    BY <2>1, <2>2, LeftFrame
<1> QED
  BY <1>1, <1>2, <1>3

LEMMA AcceptorLeft == ASSUME RunInv, LeftInv, AcceptThread PROVE LeftInv'
<1>0. TypeOK /\ CleanInv
  BY DEF RunInv, TypeInv
<1>1. CASE AcceptorCleansUp
  BY <1>1, LeftFrame DEF AcceptorCleansUp, GaveUp
<1>2. CASE AcceptorLists
  <2>1. PICK f \in Fds, s \in Seq(Fds) : f = acceptor.fd /\ s = client_fds
    BY <1>0, <1>2 DEF AcceptorLists, RunInv, TypeInv, SockInv, TypeOK
  <2>2. \A g \in Fds : Occurs(g, s) => Occurs(g, Append(s, f))
    BY OccursAppend
  <2> QED
    BY <1>2, <2>1, <2>2, LeftFrame DEF AcceptorLists, GaveUp
<1>3. CASE AcceptorSpawns
  <2>1. /\ UNCHANGED maps /\ \A f \in Fds : handler'[f] = "done" => handler[f] = "done"
    BY <1>0, <1>3 DEF AcceptorSpawns, Again, TypeOK
  <2> QED
    BY <2>1, LeftFrame DEF GaveUp, maps
<1>4. CASE UNCHANGED <<handler, maps>>
  BY <1>4, LeftFrame DEF GaveUp, maps
<1> QED
  BY <1>1, <1>2, <1>3, <1>4 DEF AcceptThread, AcceptorStops, AcceptorEnters, AcceptorFails,
     AcceptorIsInterrupted, AcceptorReturns

\* Until SIGINT, only handlers that have ended are announced to the accept
\* thread; and the one way to end unannounced, and so unjoined, is that SSL_new
\* fails, which always leaves the TLS session and the place in the list behind.
THEOREM EndsAreAnnounced == Spec => [](stop = "running" => EndedAreAnnounced)
<1>1. Init => LeftInv
  BY DEF Init, LeftInv, GaveUp
<1>2. /\ IndInv /\ TypeInv /\ (stop = "running" => CleanInv) /\ (stop = "running" => CurrentInv)
      /\ (stop = "running" => LeftInv) /\ [Next]_vars
      => (stop = "running" => LeftInv)'
  <2> SUFFICES ASSUME IndInv, TypeInv, stop = "running" => CleanInv, stop = "running" => CurrentInv,
                      stop = "running" => LeftInv, [Next]_vars, stop' = "running"
               PROVE  LeftInv'
    OBVIOUS
  <2>0. RunInv /\ CurrentInv /\ LeftInv /\ ~Stopping /\ ~SignalArrives
    BY StopIsFinal DEF RunInv
  <2>1. CASE UNCHANGED <<handler, maps>>
    BY <2>0, <2>1, LeftFrame DEF GaveUp, maps
  <2>2. CASE QtClients \/ UNCHANGED vars
    BY <2>1, <2>2 DEF QtClients, ClientConnects, ClientStalls, ClientResumes, ClientLeaves, vars
  <2>3. CASE \E c \in Casters, kind \in {"all", "role"} : CastStarts(c, kind)
    BY <2>1, <2>3 DEF CastStarts
  <2>4. ASSUME NEW t \in Threads, Sending(t) PROVE LeftInv'
    <3>1. /\ UNCHANGED maps /\ \A f \in Fds : handler'[f] = "done" => handler[f] = "done"
      BY <2>0, <2>4 DEF Sending, CastLocks, CastSkips, SendLooksUp, SendsHeader, SendsBody, SendEnds,
         Again, RunInv, TypeInv, TypeOK
    <3> QED
      BY <2>0, <3>1, LeftFrame DEF GaveUp, maps
  <2> QED
    BY <2>0, <2>2, <2>3, <2>4, HandlersLeft, AcceptorLeft DEF Next, ServerSteps
<1>3. (stop = "running" => CleanInv) /\ (stop = "running" => LeftInv)
      => (stop = "running" => EndedAreAnnounced)
  BY DEF CleanInv, LeftInv, GaveUp, EndedAreAnnounced
<1> QED
  BY <1>1, <1>2, <1>3, TypeInvariant, NumbersAreClean, CurrentInvariant, PTL DEF Spec

----------------------------------------------------------------------------
(* Whose the descriptors are, also if SSL_new fails and while the server is    *)
(* stopped.                                                                  *)

\* The accept thread has the number, for a connection or to wait for one.
Holds(f) == acceptor.pc \in {"blocked", "list", "spawn"} /\ acceptor.fd = f

\* Each number in use has a thread that is to close it; and what stop() has
\* joined does not come back.
OwnerInv ==
    /\ Alive => \A f \in Fds : fds[f] # None => Busy(f) \/ Holds(f)
    /\ stop \in {"handlers", "stopped"} => acceptor.pc = "ended"
    /\ stop = "stopped" => \A f \in Fds : handler[f] = "none"

\* The connections that are open at the server's end are those that have a
\* number, and each has one.
ConnInv ==
    /\ \A f \in Fds : fds[f] \in Conns => conn[fds[f]].server = "open"
    /\ \A i \in Conns : conn[i].server = "open" => \E f \in Fds : fds[f] = i
    /\ \A f, g \in Fds : fds[f] \in Conns /\ fds[f] = fds[g] => f = g
    /\ \A i \in Conns : i > lastConn => conn[i].server = "closed"
    /\ acceptor.pc = "blocked" => fds[acceptor.fd] \notin Conns

LEMMA OwnerFrame ==
    ASSUME OwnerInv, UNCHANGED <<acceptor, stop>>,
           \A f \in Fds : /\ fds'[f] # None /\ fds[f] # None /\ Busy(f) => Busy(f)'
                          /\ fds'[f] # None => fds[f] # None
                          /\ handler[f] = "none" => handler'[f] = "none"
    PROVE  OwnerInv'
BY DEF OwnerInv, Alive, Holds

LEMMA HandlersOwner ==
    ASSUME TypeOK, OwnerInv, NEW f \in Fds, HandlerReceives(f) \/ HandlerContinues(f)
    PROVE  OwnerInv'
<1>1. /\ UNCHANGED <<acceptor, stop>> /\ handler[f] # "none"
      /\ \A g \in Fds : g # f => handler'[g] = handler[g]
  <2>1. UNCHANGED <<acceptor, stop>> /\ handler[f] # "none"
    BY DEF HandlerReceives, HandlerShakesHands, HandlerRejects, HandlerReplies, HandlerBroadcasts,
       HandlerLogsIn, HandlerContinues, HandlerMakesSession, HandlerGivesUp, HandlerSendsRaw,
       HandlerSetsRole, HandlerDisconnected, HandlerCloses, HandlerUnlists, HandlerDropsSession,
       HandlerFinishes, Hears, Receives, flags
  <2>2. \E pc : HandlerAt(f, pc)
    BY DEF HandlerReceives, HandlerShakesHands, HandlerRejects, HandlerReplies, HandlerBroadcasts,
       HandlerLogsIn, HandlerContinues, HandlerMakesSession, HandlerGivesUp, HandlerSendsRaw,
       HandlerSetsRole, HandlerDisconnected, HandlerCloses, HandlerUnlists, HandlerDropsSession,
       HandlerFinishes
  <2> QED
    BY <2>1, <2>2 DEF HandlerAt, TypeOK
<1>2. CASE HandlerGivesUp(f) \/ HandlerCloses(f)
  <2>1. fds'[f] = None /\ \A g \in Fds : g # f => fds'[g] = fds[g]
    BY <1>2, ClosesTyped DEF HandlerGivesUp, HandlerCloses
  <2> QED
    BY <1>1, <2>1, OwnerFrame DEF Busy
<1>3. CASE ~(HandlerGivesUp(f) \/ HandlerCloses(f))
  <2>1. UNCHANGED fds /\ (Busy(f) => Busy(f)')
    BY <1>3 DEF HandlerReceives, HandlerShakesHands, HandlerRejects, HandlerReplies, HandlerBroadcasts,
       HandlerLogsIn, HandlerContinues, HandlerMakesSession, HandlerSendsRaw, HandlerSetsRole,
       HandlerDisconnected, HandlerUnlists, HandlerDropsSession, HandlerFinishes, HandlerAt, Busy, Again,
       Hears, Receives, TypeOK, socketVars
  <2> QED
    BY <1>1, <2>1, OwnerFrame DEF Busy
<1> QED
  BY <1>2, <1>3

LEMMA AcceptorOwner ==
    ASSUME TypeOK, SockInv, OwnerInv, Alive, AcceptThread
    PROVE  OwnerInv'
<1>1. UNCHANGED stop /\ acceptor.pc # "ended" /\ stop \notin {"handlers", "stopped"}
  BY DEF AcceptThread, AcceptorCleansUp, AcceptorStops, AcceptorEnters, AcceptorFails,
     AcceptorIsInterrupted, AcceptorReturns, AcceptorLists, AcceptorSpawns, flags, OwnerInv
<1> SUFFICES ASSUME Alive', NEW f \in Fds, fds'[f] # None PROVE Busy(f)' \/ Holds(f)'
  BY <1>1 DEF OwnerInv
<1>2. fds[f] # None => Busy(f) \/ Holds(f)
  BY DEF OwnerInv
<1>3. CASE AcceptorCleansUp
  <2>1. fds[f] # None /\ ~Holds(f) /\ (handler'[f] = handler[f] \/ handler[f] \in {"none", "done"})
    BY <1>3 DEF AcceptorCleansUp, Holds, socketVars
  <2> QED
    BY <1>2, <2>1 DEF Busy
<1>4. CASE AcceptorStops \/ AcceptorFails
  BY <1>2, <1>4 DEF AcceptorStops, AcceptorFails, Holds, socketVars, Busy
<1>5. ASSUME NEW g \in Fds, AcceptorEnters(g) PROVE Busy(f)' \/ Holds(f)'
  <2>1. acceptor' = [pc |-> "blocked", fd |-> g] /\ UNCHANGED handler /\ ~Holds(f) /\ (f # g => fds'[f] = fds[f])
    BY <1>5 DEF AcceptorEnters, AcceptorAt, TypeOK, Holds
  <2> QED
    BY <1>2, <2>1 DEF Holds, Busy
<1>6. CASE AcceptorIsInterrupted \/ AcceptorReturns
  <2>1. /\ UNCHANGED handler
        /\ f = acceptor.fd => fds'[f] = None \/ acceptor' = [pc |-> "list", fd |-> f]
        /\ f # acceptor.fd => fds'[f] = fds[f]
    BY <1>6 DEF AcceptorIsInterrupted, AcceptorReturns, AcceptorAt, TypeOK
  <2> QED
    BY <1>2, <2>1 DEF Holds, Busy
<1>7. CASE AcceptorLists
  <2>1. UNCHANGED <<handler, fds>> /\ acceptor' = [pc |-> "spawn", fd |-> acceptor.fd]
    BY <1>7 DEF AcceptorLists, AcceptorAt, socketVars
  <2> QED
    BY <1>2, <2>1 DEF Holds, Busy
<1>8. CASE AcceptorSpawns
  <2>1. /\ acceptor.fd \in Fds /\ handler[acceptor.fd] = "none" /\ UNCHANGED fds
        /\ handler' = [handler EXCEPT ![acceptor.fd] = IF tls THEN "session" ELSE Again]
    BY <1>8 DEF AcceptorSpawns, AcceptorAt, SockInv, Alive, socketVars
  <2>2. CASE f = acceptor.fd
    BY <2>1, <2>2 DEF TypeOK, Busy, Again
  <2>3. CASE f # acceptor.fd
    BY <1>2, <2>1, <2>3 DEF TypeOK, Busy, Holds
  <2> QED
    BY <2>2, <2>3
<1> QED
  BY <1>3, <1>4, <1>5, <1>6, <1>7, <1>8 DEF AcceptThread

LEMMA OwnerStep == ASSUME IndInv, TypeInv, OwnerInv, [Next]_vars PROVE OwnerInv'
<1>0. TypeOK /\ SockInv
  BY DEF TypeInv
<1>1. ASSUME NEW t \in Threads, Sending(t) PROVE OwnerInv'
  <2>1. UNCHANGED <<acceptor, stop, fds>>
    BY <1>1 DEF Sending, CastLocks, CastSkips, SendLooksUp, SendsHeader, SendsBody, SendEnds, socketVars, flags
  <2>2. CASE SendEnds(t) /\ t \in Fds
    <3>1. handler[t] = "send" /\ handler'[t] \in {"recv", "close"} /\ \A f \in Fds \ {t} : handler'[f] = handler[f]
      BY <1>0, <2>2 DEF SendEnds, IndInv, SenderInv, TypeOK, Again
    <3> QED
      BY <2>1, <2>2, <3>1, OwnerFrame DEF Busy
  <2>3. CASE UNCHANGED handler
    BY <2>1, <2>3, OwnerFrame DEF Busy
  <2> QED
    BY <1>1, <2>2, <2>3 DEF Sending, CastLocks, CastSkips, SendLooksUp, SendsHeader, SendsBody, SendEnds
<1>2. ASSUME NEW c \in Casters, NEW kind, CastStarts(c, kind) PROVE OwnerInv'
  BY <1>2, OwnerFrame DEF CastStarts, socketVars, flags, Busy
<1>3. CASE SignalArrives \/ Stopping
  <2>1. CASE SignalArrives \/ StopJoinsLink \/ StopShutsServer \/ StopDropsSessions \/ StopJoinsAcceptor
    <3>1. UNCHANGED <<acceptor, handler, fds>>
      BY <2>1 DEF SignalArrives, StopJoinsLink, StopShutsServer, StopDropsSessions, StopJoinsAcceptor,
         socketVars
    <3>2. stop' \in {"handlers", "stopped"} => acceptor.pc = "ended" /\ stop' = "handlers"
      BY <2>1 DEF SignalArrives, StopJoinsLink, StopShutsServer, StopDropsSessions, StopJoinsAcceptor, StopAt
    <3> QED
      BY <3>1, <3>2 DEF OwnerInv, Alive, Holds, Busy
  <2>2. CASE StopClosesClients
    <3>1. /\ UNCHANGED <<acceptor, handler>> /\ stop' = "sessions"
          /\ \A g \in Fds : fds'[g] = fds[g] \/ fds'[g] = None
      BY <1>0, <2>2, ClosesTyped DEF StopClosesClients, StopAt
    <3> QED
      BY <3>1 DEF OwnerInv, Alive, Holds, Busy
  <2>3. CASE StopJoinsHandlers
    <3>1. /\ stop = "handlers" /\ stop' = "stopped" /\ UNCHANGED <<acceptor, fds>>
          /\ \A f \in Fds : handler'[f] = "none" /\ ~Busy(f)
      BY <2>3 DEF StopJoinsHandlers, StopAt, socketVars, Busy
    <3> QED
      BY <3>1 DEF OwnerInv, Alive, Holds
  <2> QED
    BY <1>3, <2>1, <2>2, <2>3 DEF Stopping
<1>4. CASE QtClients \/ UNCHANGED vars
  BY <1>4, OwnerFrame DEF QtClients, ClientConnects, ClientStalls, ClientResumes, ClientLeaves,
     vars, socketVars, flags, Busy
<1>5. CASE AcceptThread /\ Alive
  BY <1>0, <1>5, AcceptorOwner
<1>6. ASSUME NEW f \in Fds, HandlerReceives(f) \/ HandlerContinues(f) PROVE OwnerInv'
  BY <1>0, <1>6, HandlersOwner
<1> QED
  BY <1>1, <1>2, <1>3, <1>4, <1>5, <1>6 DEF Next, ServerSteps, Alive

LEMMA ConnFrame ==
    ASSUME ConnInv, UNCHANGED <<fds, lastConn>>,
           acceptor'.pc = "blocked" => acceptor' = acceptor,
           \A i \in Conns : conn'[i].server = conn[i].server
    PROVE  ConnInv'
BY DEF ConnInv

\* close() of numbers: exactly their connections are closed.
LEMMA ClosesConn ==
    ASSUME TypeOK, SockInv, ConnInv, NEW F \in SUBSET Fds, Closes(F), UNCHANGED <<acceptor, lastConn>>
    PROVE  ConnInv'
<1>1. \A f \in Fds : fds'[f] = IF f \in F THEN None ELSE fds[f]
  BY DEF Closes
<1>2. \A i \in Conns : conn'[i].server = IF \E f \in F : fds[f] = i THEN "closed" ELSE conn[i].server
  <2> SUFFICES ASSUME NEW i \in Conns
               PROVE  conn'[i].server = IF \E f \in F : fds[f] = i THEN "closed" ELSE conn[i].server
    OBVIOUS
  <2>1. conn[i] \in Connection
    BY DEF TypeOK
  <2>2. [conn[i] EXCEPT !.server = "closed"].server = "closed"
    BY <2>1 DEF Connection
  <2> QED
    BY <2>2 DEF Closes
<1>3. None \notin Conns
  BY QtAssumption
<1>4. ASSUME NEW f \in Fds, fds'[f] \in Conns PROVE conn'[fds'[f]].server = "open"
  <2>1. f \notin F /\ fds'[f] = fds[f] /\ conn[fds[f]].server = "open"
    BY <1>1, <1>3, <1>4 DEF ConnInv
  <2>2. ~\E g \in F : fds[g] = fds[f]
    BY <1>4, <2>1 DEF ConnInv
  <2> QED
    BY <1>2, <1>4, <2>1, <2>2
<1>5. ASSUME NEW i \in Conns, conn'[i].server = "open" PROVE \E f \in Fds : fds'[f] = i
  <2>1. conn[i].server = "open" /\ ~\E f \in F : fds[f] = i
    BY <1>2, <1>5
  <2>2. PICK f \in Fds : fds[f] = i
    BY <2>1 DEF ConnInv
  <2> QED
    BY <1>1, <2>1, <2>2
<1>6. ASSUME NEW f \in Fds, NEW g \in Fds, fds'[f] \in Conns, fds'[f] = fds'[g] PROVE f = g
  BY <1>1, <1>3, <1>6 DEF ConnInv
<1>7. \A i \in Conns : i > lastConn' => conn'[i].server = "closed"
  BY <1>2 DEF ConnInv
<1>8. acceptor'.pc = "blocked" => fds'[acceptor'.fd] \notin Conns
  BY <1>1, <1>3 DEF ConnInv, SockInv
<1> QED
  BY <1>4, <1>5, <1>6, <1>7, <1>8 DEF ConnInv

LEMMA AcceptorConn ==
    ASSUME TypeOK, SockInv, ConnInv, AcceptThread
    PROVE  ConnInv'
<1>0. None \notin Conns /\ Reserved \notin Conns
  BY QtAssumption
<1>1. CASE AcceptorCleansUp \/ AcceptorStops \/ AcceptorFails \/ AcceptorLists \/ AcceptorSpawns
  BY <1>1, ConnFrame
     DEF AcceptorCleansUp, AcceptorStops, AcceptorFails, AcceptorLists, AcceptorSpawns, AcceptorAt, socketVars
<1>2. ASSUME NEW f \in Fds, AcceptorEnters(f) PROVE ConnInv'
  <2>1. /\ UNCHANGED <<conn, lastConn>> /\ acceptor' = [pc |-> "blocked", fd |-> f]
        /\ fds[f] = None /\ fds'[f] = Reserved /\ \A g \in Fds : g # f => fds'[g] = fds[g]
    BY <1>2 DEF AcceptorEnters, AcceptorAt, TypeOK
  <2> QED
    BY <1>0, <2>1 DEF ConnInv
<1>3. CASE AcceptorIsInterrupted
  <2>1. PICK f \in Fds : f = acceptor.fd
    BY <1>3 DEF AcceptorIsInterrupted, SockInv
  <2>2. /\ UNCHANGED <<conn, lastConn>> /\ acceptor'.pc = "ended" /\ fds[f] \notin Conns
        /\ fds'[f] = None /\ \A g \in Fds : g # f => fds'[g] = fds[g]
    BY <1>3, <2>1 DEF AcceptorIsInterrupted, AcceptorAt, TypeOK, ConnInv
  <2> QED
    BY <1>0, <2>2 DEF ConnInv
<1>4. CASE AcceptorReturns
  <2>1. PICK f \in Fds, i \in Conns :
          /\ f = acceptor.fd /\ fds[f] \notin Conns /\ acceptor'.pc = "list" /\ UNCHANGED lastConn
          /\ conn[i].server = "queued" /\ conn' = [conn EXCEPT ![i].server = "open"]
          /\ fds'[f] = i /\ \A g \in Fds : g # f => fds'[g] = fds[g]
    <3>1. PICK f \in Fds : f = acceptor.fd /\ fds[f] \notin Conns
      BY <1>4 DEF AcceptorReturns, SockInv, ConnInv
    <3>2. PICK i \in Conns : /\ conn[i].server = "queued" /\ conn' = [conn EXCEPT ![i].server = "open"]
                             /\ fds' = [fds EXCEPT ![f] = i]
      BY <1>4, <3>1 DEF AcceptorReturns
    <3>3. acceptor'.pc = "list" /\ UNCHANGED lastConn
      BY <1>4 DEF AcceptorReturns, AcceptorAt
    <3>4. fds'[f] = i /\ \A g \in Fds : g # f => fds'[g] = fds[g]
      BY <3>2 DEF TypeOK
    <3> QED
      BY <3>1, <3>2, <3>3, <3>4
  <2>2. conn'[i].server = "open" /\ \A j \in Conns : j # i => conn'[j] = conn[j]
    <3>1. conn[i] \in Connection
      BY DEF TypeOK
    <3> QED
      BY <2>1, <3>1 DEF TypeOK, Connection
  <2>3. \A g \in Fds : fds[g] # i
    BY <2>1 DEF ConnInv
  <2>4. ASSUME NEW g \in Fds, fds'[g] \in Conns PROVE conn'[fds'[g]].server = "open"
    BY <2>1, <2>2, <2>3, <2>4 DEF ConnInv
  <2>5. ASSUME NEW j \in Conns, conn'[j].server = "open" PROVE \E g \in Fds : fds'[g] = j
    <3>1. CASE j = i
      BY <2>1, <3>1
    <3>2. CASE j # i
      <4>1. PICK g \in Fds : fds[g] = j
        BY <2>2, <2>5, <3>2 DEF ConnInv
      <4> QED
        BY <2>1, <4>1
    <3> QED
      BY <3>1, <3>2
  <2>6. ASSUME NEW g \in Fds, NEW h \in Fds, fds'[g] \in Conns, fds'[g] = fds'[h] PROVE g = h
    BY <2>1, <2>3, <2>6 DEF ConnInv
  <2>7. ASSUME NEW j \in Conns, j > lastConn' PROVE conn'[j].server = "closed"
    BY <2>1, <2>2, <2>7 DEF ConnInv
  <2> QED
    BY <2>1, <2>4, <2>5, <2>6, <2>7 DEF ConnInv
<1> QED
  BY <1>1, <1>2, <1>3, <1>4 DEF AcceptThread

LEMMA ClientsConn == ASSUME TypeOK, ConnInv, QtClients PROVE ConnInv'
<1>1. CASE ClientConnects
  <2>1. PICK i \in Conns : i = lastConn + 1
    BY <1>1, QtAssumption DEF ClientConnects, TypeOK, Conns
  <2>2. /\ lastConn' = i /\ lastConn < i /\ UNCHANGED <<fds, acceptor>> /\ conn'[i].server = "queued"
        /\ \A j \in Conns : j # i => conn'[j] = conn[j]
    BY <1>1, <2>1 DEF ClientConnects, TypeOK
  <2>3. conn[i].server = "closed"
    BY <2>2 DEF ConnInv
  <2>4. ASSUME NEW f \in Fds, fds'[f] \in Conns PROVE conn'[fds'[f]].server = "open"
    BY <2>2, <2>3, <2>4 DEF ConnInv
  <2>5. ASSUME NEW j \in Conns, conn'[j].server = "open" PROVE \E f \in Fds : fds'[f] = j
    BY <2>2, <2>5 DEF ConnInv
  <2>6. ASSUME NEW j \in Conns, j > lastConn' PROVE conn'[j].server = "closed"
    <3>1. j > lastConn /\ j # i
      BY <2>1, <2>2, <2>6 DEF TypeOK, Conns
    <3> QED
      BY <2>2, <3>1 DEF ConnInv
  <2> QED
    BY <2>2, <2>4, <2>5, <2>6 DEF ConnInv
<1>2. ASSUME NEW i \in Conns, ClientStalls(i) \/ ClientResumes(i) \/ ClientLeaves(i) PROVE ConnInv'
  <2>1. \A j \in Conns : conn'[j].server = conn[j].server
    <3>1. conn[i] \in Connection
      BY DEF TypeOK
    <3>2. \A j \in Conns : j # i => conn'[j] = conn[j]
      BY <1>2 DEF ClientStalls, ClientResumes, ClientLeaves, TypeOK
    <3>3. conn'[i].server = conn[i].server
      BY <1>2, <3>1 DEF ClientStalls, ClientResumes, ClientLeaves, TypeOK, Connection
    <3> QED
      BY <3>2, <3>3
  <2> QED
    BY <1>2, <2>1, ConnFrame DEF ClientStalls, ClientResumes, ClientLeaves
<1> QED
  BY <1>1, <1>2 DEF QtClients

LEMMA ConnStep == ASSUME TypeInv, ConnInv, [Next]_vars PROVE ConnInv'
<1>0. TypeOK /\ SockInv
  BY DEF TypeInv
<1>1. ASSUME NEW f \in Fds, HandlerReceives(f) \/ HandlerContinues(f) PROVE ConnInv'
  <2>1. CASE HandlerGivesUp(f) \/ HandlerCloses(f)
    BY <1>0, <2>1, ClosesConn DEF HandlerGivesUp, HandlerCloses
  <2>2. CASE UNCHANGED <<conn, lastConn, fds, acceptor>>
    BY <2>2, ConnFrame
  <2> QED
    BY <1>1, <2>1, <2>2 DEF HandlerReceives, HandlerShakesHands, HandlerRejects, HandlerReplies,
       HandlerBroadcasts, HandlerLogsIn, HandlerContinues, HandlerMakesSession, HandlerSendsRaw,
       HandlerSetsRole, HandlerDisconnected, HandlerUnlists, HandlerDropsSession, HandlerFinishes, socketVars
<1>2. ASSUME NEW t \in Threads, Sending(t) PROVE ConnInv'
  <2>1. CASE SendsBody(t)
    <3>1. PICK i : i = fds[Target(t)]
      OBVIOUS
    <3>2. conn' = conn \/ conn' = [conn EXCEPT ![i].status = TRUE]
      BY <2>1, <3>1 DEF SendsBody
    <3>3. ASSUME NEW j \in Conns PROVE conn'[j].server = conn[j].server
      <4>1. conn[j] \in Connection
        BY <1>0 DEF TypeOK
      <4>2. CASE j = i
        BY <1>0, <3>2, <4>1, <4>2 DEF TypeOK, Connection
      <4>3. CASE j # i
        BY <1>0, <3>2, <4>3 DEF TypeOK
      <4> QED
        BY <4>2, <4>3
    <3> QED
      BY <2>1, <3>3, ConnFrame DEF SendsBody
  <2>2. CASE UNCHANGED <<conn, lastConn, fds, acceptor>>
    BY <2>2, ConnFrame
  <2> QED
    BY <1>2, <2>1, <2>2 DEF Sending, CastLocks, CastSkips, SendLooksUp, SendsHeader, SendEnds, socketVars
<1>3. ASSUME NEW c \in Casters, NEW kind, CastStarts(c, kind) PROVE ConnInv'
  BY <1>3, ConnFrame DEF CastStarts, socketVars
<1>4. CASE SignalArrives \/ Stopping
  <2>1. CASE StopShutsServer
    <3>1. \A i \in Conns : conn'[i].server = IF conn[i].server = "queued" THEN "closed" ELSE conn[i].server
      <4> SUFFICES ASSUME NEW i \in Conns
                   PROVE  conn'[i].server = IF conn[i].server = "queued" THEN "closed" ELSE conn[i].server
        OBVIOUS
      <4>1. conn[i] \in Connection
        BY <1>0 DEF TypeOK
      <4>2. [conn[i] EXCEPT !.server = "closed"].server = "closed"
        BY <4>1 DEF Connection
      <4> QED
        BY <2>1, <4>2 DEF StopShutsServer
    <3>2. UNCHANGED <<lastConn, fds, acceptor>>
      BY <2>1 DEF StopShutsServer
    <3> QED
      BY <3>1, <3>2 DEF ConnInv
  <2>2. CASE StopClosesClients
    <3>1. {f \in Fds : Occurs(f, client_fds)} \in SUBSET Fds
      OBVIOUS
    <3>2. PICK F \in SUBSET Fds : F = {f \in Fds : Occurs(f, client_fds)}
      BY <3>1
    <3> QED
      BY <1>0, <2>2, <3>2, ClosesConn DEF StopClosesClients
  <2>3. CASE UNCHANGED <<conn, lastConn, fds, acceptor>>
    BY <2>3, ConnFrame
  <2> QED
    BY <1>4, <2>1, <2>2, <2>3 DEF SignalArrives, Stopping, StopJoinsLink, StopDropsSessions,
       StopJoinsAcceptor, StopJoinsHandlers, socketVars
<1>5. CASE UNCHANGED vars
  BY <1>5, ConnFrame DEF vars, socketVars
<1> QED
  BY <1>0, <1>1, <1>2, <1>3, <1>4, <1>5, AcceptorConn, ClientsConn DEF Next, ServerSteps

\* In every reachable state, each number in use has a thread that will close it.
THEOREM OwnershipInvariant == Spec => [](OwnerInv /\ ConnInv)
<1>1. Init => OwnerInv /\ ConnInv
  <2>1. Init => OwnerInv
    BY DEF Init, OwnerInv
  <2>2. Init => ConnInv
    BY QtAssumption DEF Init, ConnInv
  <2> QED
    BY <2>1, <2>2
<1>2. IndInv /\ TypeInv /\ OwnerInv /\ ConnInv /\ [Next]_vars => (OwnerInv /\ ConnInv)'
  BY OwnerStep, ConnStep
<1> QED
  BY <1>1, <1>2, TypeInvariant, PTL DEF Spec

\* Whatever the clients do, SSL_new fails or stop() runs, a connection that is
\* open at the server's end has one number, and that number is the accept
\* thread's or a handler's, who is still to close it: none is forgotten.
EveryConnectionOwned ==
    acceptor.pc # "aborted" =>
        \A i \in Conns : conn[i].server = "open" =>
            \E f \in Fds :
                /\ \A g \in Fds : fds[g] = i <=> g = f
                /\ Busy(f) \/ Holds(f)

THEOREM NoConnectionForgotten == Spec => []EveryConnectionOwned
<1>1. OwnerInv /\ ConnInv => EveryConnectionOwned
  <2> SUFFICES ASSUME OwnerInv, ConnInv, Alive, NEW i \in Conns, conn[i].server = "open"
               PROVE  \E f \in Fds : (\A g \in Fds : fds[g] = i <=> g = f) /\ (Busy(f) \/ Holds(f))
    BY DEF EveryConnectionOwned, Alive
  <2>1. PICK f \in Fds : fds[f] = i
    BY DEF ConnInv
  <2>2. \A g \in Fds : fds[g] = i <=> g = f
    BY <2>1 DEF ConnInv
  <2>3. fds[f] # None
    BY <2>1, QtAssumption
  <2>4. Busy(f) \/ Holds(f)
    BY <2>3 DEF OwnerInv
  <2> QED
    BY <2>2, <2>4
<1> QED
  BY <1>1, OwnershipInvariant, PTL

\* When stop() has returned, there is no thread, no number in use and no open
\* connection left, and there will be none: the safety half of StopsCleanly.
NothingSurvives ==
    stop = "stopped" /\ acceptor.pc # "aborted" =>
        /\ acceptor.pc = "ended"
        /\ \A f \in Fds : handler[f] = "none" /\ fds[f] = None
        /\ \A i \in Conns : conn[i].server # "open"

THEOREM StopLeavesNothing == Spec => []NothingSurvives
<1>1. OwnerInv /\ ConnInv => NothingSurvives
  <2> SUFFICES ASSUME OwnerInv, ConnInv, stop = "stopped", Alive
               PROVE  /\ acceptor.pc = "ended"
                      /\ \A f \in Fds : handler[f] = "none" /\ fds[f] = None
                      /\ \A i \in Conns : conn[i].server # "open"
    BY DEF NothingSurvives, Alive
  <2>1. acceptor.pc = "ended" /\ \A f \in Fds : handler[f] = "none"
    BY DEF OwnerInv
  <2>2. \A f \in Fds : fds[f] = None
    BY <2>1 DEF OwnerInv, Busy, Holds
  <2>3. \A i \in Conns : conn[i].server # "open"
    BY <2>2, QtAssumption DEF ConnInv
  <2> QED
    BY <2>1, <2>2, <2>3
<1> QED
  BY <1>1, OwnershipInvariant, PTL
============================================================================
