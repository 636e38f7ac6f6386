----------------------------- MODULE MCAccounts -----------------------------
(* Accounts with an administrator and a client who waits as the first table,  *)
(* and one more name.                                                        *)
EXTENDS Accounts, TLC

CONSTANTS admin, waits, joins, a1, a2, a3, p1, p2

TestData == << [name |-> admin, email |-> a1, password |-> p1, role |-> "admin"],
               [name |-> waits, email |-> a2, password |-> p1, role |-> "pending"] >>

Symmetry == Permutations(Handlers)
============================================================================
