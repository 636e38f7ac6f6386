------------------------------ MODULE Accounts ------------------------------
(* AuthManager under ClientController::onQtMessage: several handlers log in,   *)
(* register, list and approve at the same time, and the program ends and      *)
(* starts again at any point, the filling of an empty table included.        *)
EXTENDS AuthManager

CONSTANTS
    Handlers,     \* the threads that serve a Qt client each
    MaxRestarts   \* bound: how often the program ends

ASSUME RestartsAssumption == MaxRestarts \in Nat

VARIABLES
    program,      \* "down", "seeding" or "up"
    seeded,       \* accounts that seedTestData has gone through in this start
    restarts,     \* how often the program has ended
    handler,      \* what each handler does between two locks
    client_roles, \* handler -> the role that its client logged in with, or None
    loggedIn,     \* history: handler -> the account its client logged in to
    told          \* history: accounts that somebody was told are registered

vars == <<users, program, seeded, restarts, handler, client_roles, loggedIn, told>>

(* A handler: idle; has loginUser's result and has not filed the role; has a  *)
(* registration's result and has not sent it.                                *)
Handler == [pc : {"idle", "tag", "reply"}, name : Names \cup {None},
            role : Roles \cup {None}, password : Passwords \cup {None}]

Idle == [pc |-> "idle", name |-> None, role |-> None, password |-> None]

\* Every variable keeps its type; in particular no pending client has a role.
TypeOK ==
    /\ UsersTypeOK
    /\ program \in {"down", "seeding", "up"}
    /\ seeded \in 0..Len(Seeds)
    /\ restarts \in 0..MaxRestarts
    /\ handler \in [Handlers -> Handler]
    /\ client_roles \in [Handlers -> {"user", "admin", None}]
    /\ loggedIn \in [Handlers -> Names \cup {None}]
    /\ told \in SUBSET (Names \X Passwords)

NobodyServed ==
    /\ handler' = [h \in Handlers |-> Idle]
    /\ client_roles' = [h \in Handlers |-> None]
    /\ loggedIn' = [h \in Handlers |-> None]

Init ==
    /\ UsersInit
    /\ program = "down"
    /\ seeded = 0
    /\ restarts = 0
    /\ handler = [h \in Handlers |-> Idle]
    /\ client_roles = [h \in Handlers |-> None]
    /\ loggedIn = [h \in Handlers |-> None]
    /\ told = {}

----------------------------------------------------------------------------
(* The program's life.                                                       *)

\* init: the table is filled only if it is empty.
Starts ==
    /\ program = "down"
    /\ program' = IF \A n \in Names : users[n] = None THEN "seeding" ELSE "up"
    /\ seeded' = 0
    /\ UNCHANGED <<users, restarts, handler, client_roles, loggedIn, told>>

SeedsNext ==
    /\ program = "seeding"
    /\ seeded < Len(Seeds)
    /\ \E works \in Works(SeedFails) : Seed(seeded + 1, works)
    /\ seeded' = seeded + 1
    /\ UNCHANGED <<program, restarts, handler, client_roles, loggedIn, told>>

SeedingEnds ==
    /\ program = "seeding"
    /\ seeded = Len(Seeds)
    /\ program' = "up"
    /\ UNCHANGED <<users, seeded, restarts, handler, client_roles, loggedIn, told>>

\* The process ends; what is committed stays.
Ends ==
    /\ program # "down"
    /\ restarts < MaxRestarts
    /\ program' = "down"
    /\ restarts' = restarts + 1
    /\ NobodyServed
    /\ UNCHANGED <<users, seeded, told>>

----------------------------------------------------------------------------
(* onQtMessage.                                                              *)

Serves(h) == program = "up" /\ handler[h].pc = "idle"

\* LOGIN; the role is filed in a later step, under another mutex.
LogsIn(h, n, p) ==
    /\ Serves(h)
    /\ LoginUser(n, p)
    /\ handler' = [handler EXCEPT ![h] = [Idle EXCEPT !.pc = "tag", !.name = n,
                                                      !.role = users[n].role]]
    /\ UNCHANGED <<users, program, seeded, restarts, client_roles, loggedIn, told>>

FilesRole(h) ==
    /\ program = "up" /\ handler[h].pc = "tag"
    /\ client_roles' = [client_roles EXCEPT ![h] = handler[h].role]
    /\ loggedIn' = [loggedIn EXCEPT ![h] = handler[h].name]
    /\ handler' = [handler EXCEPT ![h] = Idle]
    /\ UNCHANGED <<users, program, seeded, restarts, told>>

\* ASSIGN "register": the result, then the answer.
Registers(h, n, e, p) ==
    /\ Serves(h)
    /\ \E works \in Works(DbFails), success \in BOOLEAN :
          /\ RegisterUser(n, e, p, works, success)
          /\ handler' = IF success
                        THEN [handler EXCEPT ![h] = [Idle EXCEPT !.pc = "reply", !.name = n,
                                                                 !.password = p]]
                        ELSE handler
    /\ UNCHANGED <<program, seeded, restarts, client_roles, loggedIn, told>>

Answers(h) ==
    /\ program = "up" /\ handler[h].pc = "reply"
    /\ told' = told \cup {<<handler[h].name, handler[h].password>>}
    /\ handler' = [handler EXCEPT ![h] = Idle]
    /\ UNCHANGED <<users, program, seeded, restarts, client_roles, loggedIn>>

\* ASSIGN "approve", of anybody, listed or not.
Approves(h, n) ==
    /\ Serves(h)
    /\ \E works \in Works(DbFails), success \in BOOLEAN : ApproveUser(n, works, success)
    /\ UNCHANGED <<program, seeded, restarts, handler, client_roles, loggedIn, told>>

\* The client leaves: its role is erased.
Leaves(h) ==
    /\ Serves(h)
    /\ client_roles' = [client_roles EXCEPT ![h] = None]
    /\ loggedIn' = [loggedIn EXCEPT ![h] = None]
    /\ UNCHANGED <<users, program, seeded, restarts, handler, told>>

Next ==
    \/ Starts \/ SeedsNext \/ SeedingEnds \/ Ends
    \/ \E h \in Handlers :
          \/ \E n \in Names, p \in Passwords : LogsIn(h, n, p)
          \/ FilesRole(h)
          \/ \E n \in Names, e \in Emails, p \in Passwords : Registers(h, n, e, p)
          \/ Answers(h)
          \/ \E n \in Names : Approves(h, n)
          \/ Leaves(h)

Spec == Init /\ [][Next]_vars

----------------------------------------------------------------------------
(* Properties.                                                               *)

\* Whoever was told that a registration succeeded owns the account: its
\* password opens it, whoever else registers and whenever the program restarts.
SuccessOwns == \A t \in told : Matches(t[1], t[2])

\* A role that was copied out of the database under one mutex and filed under
\* another is the account's role for as long as it is filed.
RolesCurrent ==
    \A h \in Handlers : client_roles[h] # None =>
        users[loggedIn[h]] # None /\ users[loggedIn[h]].role = client_roles[h]

\* Once the program serves clients there is an administrator, wherever an
\* earlier start was cut short.
AdminExists == program = "up" => \E n \in Names : users[n] # None /\ users[n].role = "admin"

----------------------------------------------------------------------------
(* What the code does not promise.                                           *)

\* A table that was filled holds all the accounts that it is to be filled with.
SeedsComplete == program = "up" => \A i \in DOMAIN Seeds : users[Seeds[i].name] # None
============================================================================
