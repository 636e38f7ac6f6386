----------------------------- MODULE AuthManager -----------------------------
(* The accounts of ClientServer (AuthManager.cpp): the table users of a SQLite *)
(* database, which outlives the process, and what each method does to it.     *)
(* Every method runs under db_mutex_ and is one statement that SQLite commits *)
(* on its own, hence one step.  A salted hash is equal for equal passwords    *)
(* only; the password stands for it.                                         *)
EXTENDS Naturals, Sequences

CONSTANTS
    Names, Emails, Passwords,
    Seeds,        \* the accounts that an empty table is filled with, in order
    DbFails,      \* whether a client's statement may fail (disk full, locked)
    SeedFails,    \* whether one of the first table's may
    None          \* "no value"

Roles == {"pending", "user", "admin"}

Account == [email : Emails, password : Passwords, role : Roles]

ASSUME AccountsAssumption ==
    /\ Seeds \in Seq([name : Names, email : Emails, password : Passwords, role : Roles])
    /\ \A i, j \in DOMAIN Seeds :
          Seeds[i].name = Seeds[j].name \/ Seeds[i].email = Seeds[j].email => i = j
    /\ DbFails \in BOOLEAN /\ SeedFails \in BOOLEAN
    /\ None \notin Account /\ None \notin Names \cup Roles

VARIABLE users    \* username -> its row, or None

UsersTypeOK == users \in [Names -> Account \cup {None}]

UsersInit == users = [n \in Names |-> None]

\* Whether a statement is carried out, if it may fail.
Works(fails) == {TRUE, ~fails}

\* UNIQUE on username and email.
Unique(n, e) == users[n] = None /\ \A m \in Names : users[m] # None => users[m].email # e

\* Mutant: INSERT OR REPLACE.
NameOrEmailTaken(n, e) == TRUE

\* An INSERT is refused if it breaks a constraint.
Insertable(n, e) == Unique(n, e)

Inserted(n, e, p, r) == [users EXCEPT ![n] = [email |-> e, password |-> p, role |-> r]]

\* registerUser, with its result.
RegisterUser(n, e, p, works, success) ==
    /\ success = (works /\ Insertable(n, e))
    /\ users' = IF success THEN Inserted(n, e, p, "pending") ELSE users

Matches(n, p) == users[n] # None /\ users[n].password = p

\* Mutant: the role is not looked at.
OpensUnapproved(n, p) == Matches(n, p)

\* loginUser: the account exists, the password is its own, and it is approved.
LoginUser(n, p) == Matches(n, p) /\ users[n].role # "pending"

\* Mutant: UPDATE without "AND role = 'pending'".
Known(n) == users[n] # None

\* approveUser: the row that the UPDATE changes.
Approvable(n) == users[n] # None /\ users[n].role = "pending"

ApproveUser(n, works, success) ==
    /\ success = (works /\ Approvable(n))
    /\ users' = IF success THEN [users EXCEPT ![n].role = "user"] ELSE users

InsertSeed(s, works) ==
    users' = IF works THEN Inserted(s.name, s.email, s.password, s.role) ELSE users

\* Mutant: the administrator comes last.
SeedFromLast(i, works) == InsertSeed(Seeds[Len(Seeds) + 1 - i], works)

\* seedTestData: one INSERT; its result is not looked at.
Seed(i, works) == InsertSeed(Seeds[i], works)
============================================================================
