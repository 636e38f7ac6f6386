--------------------------- MODULE AccountsProofs ---------------------------
(* Proofs about Accounts, for any names, passwords, handlers and bounds.      *)
EXTENDS Accounts, TLAPS

\* What a handler carries from one lock to the next is still so in the table.
HandlersHold ==
    \A h \in Handlers :
        /\ handler[h].pc = "tag" =>
              /\ handler[h].name \in Names /\ handler[h].role \in {"user", "admin"}
              /\ users[handler[h].name] # None
              /\ users[handler[h].name].role = handler[h].role
        /\ handler[h].pc = "reply" =>
              /\ handler[h].name \in Names /\ handler[h].password \in Passwords
              /\ Matches(handler[h].name, handler[h].password)

\* Who has a role has an account.
RolesHaveAccounts == \A h \in Handlers : client_roles[h] # None => loggedIn[h] \in Names

\* While the program does not serve clients nobody is served, and while the
\* table is being filled nobody has ever been told of an account.
QuietUnlessUp ==
    /\ program # "up" => \A h \in Handlers : handler[h] = Idle /\ client_roles[h] = None
    /\ program = "seeding" => told = {}

IndInv ==
    /\ TypeOK
    /\ SuccessOwns
    /\ RolesCurrent
    /\ HandlersHold
    /\ RolesHaveAccounts
    /\ QuietUnlessUp

\* No account is taken away, and none changes but from pending to user.
Grows ==
    \A n \in Names : users[n] # None =>
        /\ users'[n] # None
        /\ users'[n].password = users[n].password
        /\ users[n].role # "pending" => users'[n].role = users[n].role

----------------------------------------------------------------------------
(* What the methods do to the table.                                         *)

LEMMA AccountFields ==
    ASSUME NEW a \in Account
    PROVE  a.email \in Emails /\ a.password \in Passwords /\ a.role \in Roles
BY DEF Account

LEMMA InsertedType ==
    ASSUME UsersTypeOK, NEW n \in Names, NEW e \in Emails, NEW p \in Passwords, NEW r \in Roles,
           users' = Inserted(n, e, p, r)
    PROVE  /\ UsersTypeOK'
           /\ users'[n] = [email |-> e, password |-> p, role |-> r]
           /\ users'[n] # None
           /\ \A m \in Names : m # n => users'[m] = users[m]
BY AccountsAssumption DEF UsersTypeOK, Inserted, Account

LEMMA RegisterGrows ==
    ASSUME UsersTypeOK, NEW n \in Names, NEW e \in Emails, NEW p \in Passwords,
           NEW works \in BOOLEAN, NEW success \in BOOLEAN, RegisterUser(n, e, p, works, success)
    PROVE  UsersTypeOK' /\ Grows /\ (success => Matches(n, p)')
<1>1. CASE success
  <2>1. users' = Inserted(n, e, p, "pending") /\ users[n] = None
    BY <1>1 DEF RegisterUser, Insertable, Unique
  <2>2. /\ UsersTypeOK'
        /\ users'[n] = [email |-> e, password |-> p, role |-> "pending"]
        /\ users'[n] # None
        /\ \A m \in Names : m # n => users'[m] = users[m]
    BY <2>1, InsertedType DEF Roles
  <2> QED
    BY <2>1, <2>2 DEF Grows, Matches
<1>2. CASE ~success
  BY <1>2 DEF RegisterUser, Grows, UsersTypeOK
<1> QED
  BY <1>1, <1>2

LEMMA ApproveGrows ==
    ASSUME UsersTypeOK, NEW n \in Names, NEW works \in BOOLEAN, NEW success \in BOOLEAN,
           ApproveUser(n, works, success)
    PROVE  UsersTypeOK' /\ Grows
<1>1. CASE success
  <2>1. users[n] \in Account /\ users[n].role = "pending"
        /\ users' = [users EXCEPT ![n].role = "user"]
    BY <1>1 DEF ApproveUser, Approvable, UsersTypeOK
  <2>2. users'[n] = [users[n] EXCEPT !.role = "user"]
    BY <2>1 DEF UsersTypeOK
  <2>3. users'[n] \in Account /\ users'[n].password = users[n].password
    BY <2>1, <2>2, AccountFields DEF Account, Roles
  <2>4. users' \in [Names -> Account \cup {None}]
        /\ \A m \in Names : m # n => users'[m] = users[m]
    BY <2>1, <2>3 DEF UsersTypeOK
  <2> QED
    BY <2>1, <2>3, <2>4, AccountsAssumption DEF Grows, UsersTypeOK
<1>2. CASE ~success
  BY <1>2 DEF ApproveUser, Grows, UsersTypeOK
<1> QED
  BY <1>1, <1>2

\* A table that only grows keeps what was said of it.
LEMMA GrowsKeeps ==
    ASSUME TypeOK, SuccessOwns, RolesCurrent, HandlersHold, RolesHaveAccounts, Grows,
           UNCHANGED <<client_roles, loggedIn, told>>
    PROVE  SuccessOwns' /\ RolesCurrent' /\ RolesHaveAccounts'
<1>1. SuccessOwns'
  BY DEF SuccessOwns, Matches, Grows, TypeOK
<1>2. RolesHaveAccounts'
  BY DEF RolesHaveAccounts
<1>3. RolesCurrent'
  <2> SUFFICES ASSUME NEW h \in Handlers, client_roles[h] # None
               PROVE  users'[loggedIn[h]] # None /\ users'[loggedIn[h]].role = client_roles[h]
    BY DEF RolesCurrent
  <2>1. loggedIn[h] \in Names /\ client_roles[h] \in {"user", "admin"}
    BY DEF RolesHaveAccounts, TypeOK
  <2>2. users[loggedIn[h]] # None /\ users[loggedIn[h]].role = client_roles[h]
    BY DEF RolesCurrent
  <2> QED
    BY <2>1, <2>2 DEF Grows
<1> QED
  BY <1>1, <1>2, <1>3

LEMMA HolderKeeps ==
    ASSUME HandlersHold, Grows, NEW h \in Handlers, handler'[h] = handler[h]
    PROVE  /\ handler'[h].pc = "tag" =>
                 /\ handler'[h].name \in Names /\ handler'[h].role \in {"user", "admin"}
                 /\ users'[handler'[h].name] # None
                 /\ users'[handler'[h].name].role = handler'[h].role
           /\ handler'[h].pc = "reply" =>
                 /\ handler'[h].name \in Names /\ handler'[h].password \in Passwords
                 /\ users'[handler'[h].name] # None
                 /\ users'[handler'[h].name].password = handler'[h].password
BY DEF HandlersHold, Matches, Grows

----------------------------------------------------------------------------
(* The steps.                                                                *)

LEMMA InitHolds == Init => IndInv
<1> SUFFICES ASSUME Init PROVE IndInv
  OBVIOUS
<1> USE DEF Init
<1>1. TypeOK
  BY AccountsAssumption, RestartsAssumption
     DEF TypeOK, UsersTypeOK, UsersInit, Handler, Idle
<1>2. SuccessOwns /\ RolesCurrent /\ HandlersHold /\ RolesHaveAccounts /\ QuietUnlessUp
  BY DEF SuccessOwns, RolesCurrent, HandlersHold, RolesHaveAccounts, QuietUnlessUp, Idle
<1> QED
  BY <1>1, <1>2 DEF IndInv

\* The program starts: an empty table has nobody who was told of an account.
LEMMA StartsSafe == IndInv /\ Starts => IndInv'
<1> SUFFICES ASSUME IndInv, Starts PROVE IndInv'
  OBVIOUS
<1> USE DEF IndInv, Starts
<1>1. TypeOK'
  BY AccountsAssumption DEF TypeOK, UsersTypeOK
<1>2. SuccessOwns' /\ RolesCurrent' /\ HandlersHold' /\ RolesHaveAccounts'
  BY DEF SuccessOwns, RolesCurrent, HandlersHold, RolesHaveAccounts, Matches
<1>3. program' = "seeding" => told = {}
  <2> SUFFICES ASSUME program' = "seeding", NEW t \in told PROVE FALSE
    OBVIOUS
  <2>1. t[1] \in Names
    BY DEF TypeOK
  <2>2. users[t[1]] = None
    BY <2>1
  <2> QED
    BY <2>2 DEF SuccessOwns, Matches
<1>4. QuietUnlessUp'
  BY <1>3 DEF QuietUnlessUp
<1> QED
  BY <1>1, <1>2, <1>4

LEMMA ElementOf == ASSUME NEW S, NEW q \in Seq(S), NEW i \in DOMAIN q PROVE q[i] \in S
OBVIOUS

LEMMA SeedsNextSafe == IndInv /\ SeedsNext => IndInv'
<1> SUFFICES ASSUME IndInv, SeedsNext PROVE IndInv'
  OBVIOUS
<1> USE DEF IndInv
<1>1. program = "seeding" /\ UNCHANGED <<program, restarts, handler, client_roles, loggedIn, told>>
      /\ seeded' = seeded + 1 /\ seeded < Len(Seeds)
  BY DEF SeedsNext
<1>2. told = {} /\ \A h \in Handlers : handler[h] = Idle /\ client_roles[h] = None
  BY <1>1 DEF QuietUnlessUp
<1>3. Len(Seeds) \in Nat /\ seeded \in Nat /\ DOMAIN Seeds = 1..Len(Seeds)
  BY AccountsAssumption DEF TypeOK
<1>4. seeded + 1 \in DOMAIN Seeds
  BY <1>1, <1>3
<1>5. UsersTypeOK'
  <2> DEFINE s == Seeds[seeded + 1]
  <2>1. s \in [name : Names, email : Emails, password : Passwords, role : Roles]
    BY <1>4, AccountsAssumption, ElementOf
  <2>2. s.name \in Names /\ s.email \in Emails /\ s.password \in Passwords /\ s.role \in Roles
    BY <2>1
  <2>3. users' = users \/ users' = Inserted(s.name, s.email, s.password, s.role)
    BY DEF SeedsNext, Seed, InsertSeed
  <2>4. CASE users' = users
    BY <2>4 DEF TypeOK, UsersTypeOK
  <2>5. CASE users' = Inserted(s.name, s.email, s.password, s.role)
    BY <2>2, <2>5, InsertedType DEF TypeOK
  <2> QED
    BY <2>3, <2>4, <2>5
<1>6. TypeOK'
  BY <1>1, <1>3, <1>5 DEF TypeOK
<1>7. SuccessOwns' /\ RolesCurrent' /\ HandlersHold' /\ RolesHaveAccounts' /\ QuietUnlessUp'
  BY <1>1, <1>2 DEF SuccessOwns, RolesCurrent, HandlersHold, RolesHaveAccounts, QuietUnlessUp, Idle
<1> QED
  BY <1>6, <1>7

\* The program goes up, or ends: the table stays.
LEMMA SeedingEndsSafe == IndInv /\ SeedingEnds => IndInv'
BY DEF IndInv, SeedingEnds, TypeOK, UsersTypeOK, SuccessOwns, RolesCurrent, HandlersHold,
       RolesHaveAccounts, QuietUnlessUp, Matches

LEMMA EndsSafe == IndInv /\ Ends => IndInv'
<1> SUFFICES ASSUME IndInv, Ends PROVE IndInv'
  OBVIOUS
<1> USE DEF IndInv, Ends, NobodyServed
<1>1. TypeOK'
  BY RestartsAssumption DEF TypeOK, UsersTypeOK, Handler, Idle
<1>2. SuccessOwns'
  BY DEF SuccessOwns, Matches
<1>3. RolesCurrent' /\ HandlersHold' /\ RolesHaveAccounts' /\ QuietUnlessUp'
  BY DEF RolesCurrent, HandlersHold, RolesHaveAccounts, QuietUnlessUp, Idle
<1> QED
  BY <1>1, <1>2, <1>3

LEMMA LogsInSafe ==
    ASSUME IndInv, NEW h \in Handlers, NEW n \in Names, NEW p \in Passwords, LogsIn(h, n, p)
    PROVE  IndInv'
<1> USE DEF IndInv
<1> DEFINE new == [Idle EXCEPT !.pc = "tag", !.name = n, !.role = users[n].role]
<1>1. program = "up" /\ handler' = [handler EXCEPT ![h] = new]
      /\ UNCHANGED <<users, program, seeded, restarts, client_roles, loggedIn, told>>
  BY DEF LogsIn, Serves
<1>2. users[n] # None /\ users[n] \in Account /\ users[n].role \in {"user", "admin"}
  BY AccountFields DEF LogsIn, LoginUser, Matches, TypeOK, UsersTypeOK, Roles
<1>3. new \in Handler /\ new.pc = "tag" /\ new.name = n /\ new.role = users[n].role
  BY <1>2 DEF Idle, Handler, Roles
<1>4. TypeOK'
  BY <1>1, <1>3 DEF TypeOK, UsersTypeOK
<1>5. SuccessOwns' /\ RolesCurrent' /\ RolesHaveAccounts' /\ QuietUnlessUp'
  BY <1>1 DEF SuccessOwns, RolesCurrent, RolesHaveAccounts, QuietUnlessUp, Matches
<1>6. handler'[h] = new /\ \A g \in Handlers : g # h => handler'[g] = handler[g]
  BY <1>1 DEF TypeOK
<1>7. HandlersHold'
  BY <1>1, <1>2, <1>3, <1>6 DEF HandlersHold, Matches
<1> QED
  BY <1>4, <1>5, <1>7

LEMMA FilesRoleSafe == ASSUME IndInv, NEW h \in Handlers, FilesRole(h) PROVE IndInv'
<1> USE DEF IndInv, FilesRole
<1>1. /\ handler[h].name \in Names /\ handler[h].role \in {"user", "admin"}
      /\ users[handler[h].name] # None /\ users[handler[h].name].role = handler[h].role
  BY DEF HandlersHold
<1>2. /\ client_roles'[h] = handler[h].role /\ loggedIn'[h] = handler[h].name /\ handler'[h] = Idle
      /\ \A g \in Handlers : g # h => /\ client_roles'[g] = client_roles[g]
                                      /\ loggedIn'[g] = loggedIn[g] /\ handler'[g] = handler[g]
  BY DEF TypeOK
<1>3. TypeOK'
  BY <1>1 DEF TypeOK, UsersTypeOK, Handler, Idle
<1>4. SuccessOwns' /\ QuietUnlessUp'
  BY DEF SuccessOwns, QuietUnlessUp, Matches
<1>5. RolesCurrent' /\ RolesHaveAccounts'
  BY <1>1, <1>2 DEF RolesCurrent, RolesHaveAccounts
<1>6. HandlersHold'
  BY <1>2 DEF HandlersHold, Matches, Idle
<1> QED
  BY <1>3, <1>4, <1>5, <1>6

LEMMA RegistersSafe ==
    ASSUME IndInv, NEW h \in Handlers, NEW n \in Names, NEW e \in Emails, NEW p \in Passwords,
           Registers(h, n, e, p)
    PROVE  IndInv'
<1> USE DEF IndInv
<1> DEFINE new == [Idle EXCEPT !.pc = "reply", !.name = n, !.password = p]
<1>1. PICK works \in Works(DbFails), success \in BOOLEAN :
         /\ RegisterUser(n, e, p, works, success)
         /\ handler' = IF success THEN [handler EXCEPT ![h] = new] ELSE handler
  BY DEF Registers
<1>2. program = "up" /\ UNCHANGED <<program, seeded, restarts, client_roles, loggedIn, told>>
  BY DEF Registers, Serves
<1>3. works \in BOOLEAN
  BY AccountsAssumption DEF Works
<1>4. UsersTypeOK' /\ Grows /\ (success => Matches(n, p)')
  BY <1>1, <1>3, RegisterGrows DEF TypeOK
<1>5. new \in Handler /\ new.pc = "reply" /\ new.name = n /\ new.password = p
  BY DEF Idle, Handler
<1>6. TypeOK'
  BY <1>1, <1>2, <1>4, <1>5 DEF TypeOK
<1>7. SuccessOwns' /\ RolesCurrent' /\ RolesHaveAccounts'
  BY <1>2, <1>4, GrowsKeeps
<1>8. HandlersHold'
  <2> SUFFICES ASSUME NEW g \in Handlers
               PROVE  /\ handler'[g].pc = "tag" =>
                            /\ handler'[g].name \in Names /\ handler'[g].role \in {"user", "admin"}
                            /\ users'[handler'[g].name] # None
                            /\ users'[handler'[g].name].role = handler'[g].role
                      /\ handler'[g].pc = "reply" =>
                            /\ handler'[g].name \in Names /\ handler'[g].password \in Passwords
                            /\ users'[handler'[g].name] # None
                            /\ users'[handler'[g].name].password = handler'[g].password
    BY DEF HandlersHold, Matches
  <2>1. CASE handler'[g] = handler[g]
    BY <2>1, <1>4, HolderKeeps
  <2>2. CASE handler'[g] # handler[g]
    <3>1. success /\ handler'[g] = new
      BY <1>1, <2>2 DEF TypeOK
    <3> QED
      BY <3>1, <1>4, <1>5 DEF Matches
  <2> QED
    BY <2>1, <2>2
<1>9. QuietUnlessUp'
  BY <1>2 DEF QuietUnlessUp
<1> QED
  BY <1>6, <1>7, <1>8, <1>9

LEMMA AnswersSafe == ASSUME IndInv, NEW h \in Handlers, Answers(h) PROVE IndInv'
<1> USE DEF IndInv, Answers
<1>1. /\ handler[h].name \in Names /\ handler[h].password \in Passwords
      /\ Matches(handler[h].name, handler[h].password)
  BY DEF HandlersHold
<1>2. handler'[h] = Idle /\ \A g \in Handlers : g # h => handler'[g] = handler[g]
  BY DEF TypeOK
<1>3. TypeOK'
  BY <1>1 DEF TypeOK, UsersTypeOK, Handler, Idle
<1>4. SuccessOwns'
  BY <1>1 DEF SuccessOwns, Matches
<1>5. RolesCurrent' /\ RolesHaveAccounts' /\ QuietUnlessUp'
  BY DEF RolesCurrent, RolesHaveAccounts, QuietUnlessUp
<1>6. HandlersHold'
  BY <1>2 DEF HandlersHold, Matches, Idle
<1> QED
  BY <1>3, <1>4, <1>5, <1>6

LEMMA ApprovesSafe ==
    ASSUME IndInv, NEW h \in Handlers, NEW n \in Names, Approves(h, n)
    PROVE  IndInv'
<1> USE DEF IndInv
<1>1. PICK works \in Works(DbFails), success \in BOOLEAN : ApproveUser(n, works, success)
  BY DEF Approves
<1>2. UNCHANGED <<program, seeded, restarts, handler, client_roles, loggedIn, told>>
  BY DEF Approves
<1>3. works \in BOOLEAN
  BY AccountsAssumption DEF Works
<1>4. UsersTypeOK' /\ Grows
  BY <1>1, <1>3, ApproveGrows DEF TypeOK
<1>5. TypeOK'
  BY <1>2, <1>4 DEF TypeOK
<1>6. SuccessOwns' /\ RolesCurrent' /\ RolesHaveAccounts'
  BY <1>2, <1>4, GrowsKeeps
<1>7. HandlersHold'
  BY <1>2, <1>4, HolderKeeps DEF HandlersHold, Matches
<1>8. QuietUnlessUp'
  BY <1>2 DEF QuietUnlessUp
<1> QED
  BY <1>5, <1>6, <1>7, <1>8

LEMMA LeavesSafe == ASSUME IndInv, NEW h \in Handlers, Leaves(h) PROVE IndInv'
<1> USE DEF IndInv, Leaves
<1>1. TypeOK'
  BY DEF TypeOK, UsersTypeOK
<1>2. SuccessOwns' /\ HandlersHold' /\ QuietUnlessUp'
  BY DEF SuccessOwns, HandlersHold, QuietUnlessUp, Matches
<1>3. client_roles'[h] = None
      /\ \A g \in Handlers : g # h => client_roles'[g] = client_roles[g] /\ loggedIn'[g] = loggedIn[g]
  BY DEF TypeOK
<1>4. RolesCurrent' /\ RolesHaveAccounts'
  BY <1>3 DEF RolesCurrent, RolesHaveAccounts
<1> QED
  BY <1>1, <1>2, <1>4

LEMMA StepSafe == IndInv /\ [Next]_vars => IndInv'
<1> SUFFICES ASSUME IndInv, [Next]_vars PROVE IndInv'
  OBVIOUS
<1>1. CASE Starts
  BY <1>1, StartsSafe
<1>2. CASE SeedsNext
  BY <1>2, SeedsNextSafe
<1>3. CASE SeedingEnds
  BY <1>3, SeedingEndsSafe
<1>4. CASE Ends
  BY <1>4, EndsSafe
<1>5. ASSUME NEW h \in Handlers, NEW n \in Names, NEW p \in Passwords, LogsIn(h, n, p)
      PROVE  IndInv'
  BY <1>5, LogsInSafe
<1>6. ASSUME NEW h \in Handlers, FilesRole(h) PROVE IndInv'
  BY <1>6, FilesRoleSafe
<1>7. ASSUME NEW h \in Handlers, NEW n \in Names, NEW e \in Emails, NEW p \in Passwords,
             Registers(h, n, e, p)
      PROVE  IndInv'
  BY <1>7, RegistersSafe
<1>8. ASSUME NEW h \in Handlers, Answers(h) PROVE IndInv'
  BY <1>8, AnswersSafe
<1>9. ASSUME NEW h \in Handlers, NEW n \in Names, Approves(h, n) PROVE IndInv'
  BY <1>9, ApprovesSafe
<1>10. ASSUME NEW h \in Handlers, Leaves(h) PROVE IndInv'
  BY <1>10, LeavesSafe
<1>11. CASE UNCHANGED vars
  BY <1>11 DEF vars, IndInv, TypeOK, UsersTypeOK, SuccessOwns, RolesCurrent, HandlersHold,
               RolesHaveAccounts, QuietUnlessUp, Matches
<1> QED
  BY <1>1, <1>2, <1>3, <1>4, <1>5, <1>6, <1>7, <1>8, <1>9, <1>10, <1>11 DEF Next

----------------------------------------------------------------------------
\* Every reachable state satisfies the invariant.
THEOREM InductiveInvariant == Spec => []IndInv
<1>1. Init => IndInv
  BY InitHolds
<1>2. IndInv /\ [Next]_vars => IndInv'
  BY StepSafe
<1> QED
  BY <1>1, <1>2, PTL DEF Spec

\* Every variable keeps its type, for all constants.
THEOREM TypeCorrect == Spec => []TypeOK
<1>1. IndInv => TypeOK
  BY DEF IndInv
<1> QED
  BY <1>1, InductiveInvariant, PTL

\* Whoever was told that registerUser succeeded owns the account for good.
THEOREM RegistrationsHold == Spec => []SuccessOwns
<1>1. IndInv => SuccessOwns
  BY DEF IndInv
<1> QED
  BY <1>1, InductiveInvariant, PTL

\* A role filed by setClientRole stays the role of the account.
THEOREM RolesStayCurrent == Spec => []RolesCurrent
<1>1. IndInv => RolesCurrent
  BY DEF IndInv
<1> QED
  BY <1>1, InductiveInvariant, PTL

----------------------------------------------------------------------------
(* The administrator: the first of the accounts, who is never overtaken.      *)

\* seedTestData as it stands, if the database takes what it is given.
AdminFirst == ~SeedFails /\ Seeds # <<>> /\ Seeds[1].role = "admin"

AdminThere == users[Seeds[1].name] # None /\ users[Seeds[1].name].role = "admin"

\* There is no table without the administrator: a start that was cut short
\* left an empty table or one that has it.
AdminInv ==
    /\ (\E n \in Names : users[n] # None) => AdminThere
    /\ program = "seeding" /\ seeded > 0 => AdminThere
    /\ program = "up" => AdminThere

LEMMA FirstSeed ==
    ASSUME AdminFirst
    PROVE  1 \in DOMAIN Seeds /\ Seeds[1].name \in Names /\ Seeds[1].role = "admin"
<1>1. 1 \in DOMAIN Seeds
  BY AccountsAssumption DEF AdminFirst
<1> DEFINE s == Seeds[1]
<1>2. s \in [name : Names, email : Emails, password : Passwords, role : Roles]
  BY <1>1, AccountsAssumption, ElementOf
<1>3. s.name \in Names
  BY <1>2
<1> QED
  BY <1>1, <1>3 DEF AdminFirst

\* The table is filled: the administrator first, and nobody in his place.
LEMMA SeedsAdmin ==
    ASSUME AdminFirst, IndInv, AdminInv, SeedsNext
    PROVE  AdminInv'
<1>1. seeded \in Nat /\ seeded < Len(Seeds) /\ Len(Seeds) \in Nat /\ DOMAIN Seeds = 1..Len(Seeds)
  BY AccountsAssumption DEF IndInv, TypeOK, SeedsNext
<1>2. seeded + 1 \in DOMAIN Seeds
  BY <1>1
<1> DEFINE s == Seeds[seeded + 1]
<1>3. s \in [name : Names, email : Emails, password : Passwords, role : Roles]
  BY <1>2, AccountsAssumption, ElementOf
<1>4. s.name \in Names /\ s.email \in Emails /\ s.password \in Passwords /\ s.role \in Roles
  BY <1>3
<1>5. users' = Inserted(s.name, s.email, s.password, s.role)
  BY DEF SeedsNext, Seed, InsertSeed, Works, AdminFirst
<1>6. users'[s.name] = [email |-> s.email, password |-> s.password, role |-> s.role]
      /\ users'[s.name] # None /\ \A m \in Names : m # s.name => users'[m] = users[m]
  BY <1>4, <1>5, InsertedType DEF IndInv, TypeOK
<1>7. AdminThere'
  <2>1. CASE seeded = 0
    BY <2>1, <1>6, FirstSeed DEF AdminThere
  <2>2. CASE seeded > 0
    <3>1. s.name # Seeds[1].name
      BY <1>1, <1>2, <2>2, FirstSeed, AccountsAssumption
    <3>2. AdminThere
      BY <2>2 DEF AdminInv, SeedsNext
    <3> QED
      BY <3>1, <3>2, <1>6, FirstSeed DEF AdminThere
  <2> QED
    BY <1>1, <2>1, <2>2
<1> QED
  BY <1>7 DEF AdminInv

LEMMA AdminKept ==
    ASSUME AdminFirst, AdminInv, program = "up", program' = "up", Grows
    PROVE  AdminInv'
BY FirstSeed DEF AdminInv, AdminThere, Grows

LEMMA AdminStep ==
    ASSUME AdminFirst, IndInv, AdminInv, [Next]_vars
    PROVE  AdminInv'
<1>1. CASE Starts
  BY <1>1, FirstSeed DEF Starts, AdminInv, AdminThere
<1>2. CASE SeedsNext
  BY <1>2, SeedsAdmin
<1>3. CASE SeedingEnds
  <2>1. seeded > 0
    BY <1>3, AccountsAssumption DEF SeedingEnds, AdminFirst
  <2> QED
    BY <1>3, <2>1 DEF SeedingEnds, AdminInv, AdminThere
<1>4. CASE Ends
  BY <1>4 DEF Ends, AdminInv, AdminThere
<1>5. ASSUME NEW h \in Handlers, NEW n \in Names, NEW p \in Passwords,
             LogsIn(h, n, p)
      PROVE  AdminInv'
  BY <1>5 DEF LogsIn, Serves, AdminInv, AdminThere
<1>6. ASSUME NEW h \in Handlers, NEW n \in Names, NEW e \in Emails, NEW p \in Passwords,
             Registers(h, n, e, p)
      PROVE  AdminInv'
  <2>1. PICK works \in Works(DbFails), success \in BOOLEAN : RegisterUser(n, e, p, works, success)
    BY <1>6 DEF Registers
  <2>2. works \in BOOLEAN /\ program = "up" /\ program' = "up"
    BY <1>6, AccountsAssumption DEF Works, Registers, Serves
  <2> QED
    BY <2>1, <2>2, RegisterGrows, AdminKept DEF IndInv, TypeOK
<1>7. ASSUME NEW h \in Handlers, NEW n \in Names, Approves(h, n) PROVE AdminInv'
  <2>1. PICK works \in Works(DbFails), success \in BOOLEAN : ApproveUser(n, works, success)
    BY <1>7 DEF Approves
  <2>2. works \in BOOLEAN /\ program = "up" /\ program' = "up"
    BY <1>7, AccountsAssumption DEF Works, Approves, Serves
  <2> QED
    BY <2>1, <2>2, ApproveGrows, AdminKept DEF IndInv, TypeOK
<1>8. CASE UNCHANGED vars
  BY <1>8 DEF vars, AdminInv, AdminThere
<1>9. ASSUME NEW h \in Handlers, FilesRole(h) \/ Answers(h) \/ Leaves(h) PROVE AdminInv'
  BY <1>9 DEF FilesRole, Answers, Leaves, Serves, AdminInv, AdminThere
<1> QED
  BY <1>1, <1>2, <1>3, <1>4, <1>5, <1>6, <1>7, <1>8, <1>9 DEF Next

\* If the administrator comes first and the database takes the first table,
\* there is one whenever clients are served, wherever a start was cut short.
THEOREM AdministratorStays == ASSUME AdminFirst PROVE Spec => []AdminExists
<1>1. Init => AdminInv
  BY FirstSeed DEF Init, UsersInit, AdminInv
<1>2. IndInv /\ AdminInv /\ [Next]_vars => AdminInv'
  BY AdminStep
<1>3. AdminInv => AdminExists
  BY FirstSeed DEF AdminInv, AdminThere, AdminExists
<1> QED
  BY <1>1, <1>2, <1>3, InductiveInvariant, PTL DEF Spec
============================================================================
