------------------------------ MODULE Identity -------------------------------
(***************************************************************************)
(* The accounts of the identity service (auth.service.ts, users.service.   *)
(* ts). A registration looks for its e-mail address and inserts the user   *)
(* later. Passwords, roles and profiles are left out.                      *)
(***************************************************************************)
EXTENDS Naturals, FiniteSets

CONSTANTS
  Registrations,  \* calls of register
  Admin,          \* the account seeded when the service starts
  Email,          \* Email[p]: the address that account p is asked for with
  Lower           \* Lower[a]: address a in lower case

ASSUME AdminIsSeeded == Admin \notin Registrations

VARIABLES
  users,  \* the rows of users: [id, email]
  reg     \* reg[r]: "idle", "unknown" (no such address), "created", "refused"

identityVars == <<users, reg>>

-----------------------------------------------------------------------------

Accounts == {u.id : u \in users}

\* onModuleInit has seeded the administrator.
IdentityInit ==
  /\ users = {[id |-> Admin, email |-> Lower[Email[Admin]]]}
  /\ reg = [r \in Registrations |-> "idle"]

\* findByEmail: a user who is found refuses the registration.
FindByEmail(r) ==
  /\ reg[r] = "idle"
  /\ reg' = [reg EXCEPT ![r] =
              IF \E u \in users: u.email = Lower[Email[r]] THEN "refused" ELSE "unknown"]
  /\ UNCHANGED users

\* Variation: the address is stored as it was typed.
InsertUser_AsTyped(r) ==
  /\ reg[r] = "unknown"
  /\ LET row == [id |-> r, email |-> Email[r]]
         taken == \E u \in users: u.email = row.email IN
     /\ reg' = [reg EXCEPT ![r] = IF taken THEN "refused" ELSE "created"]
     /\ users' = IF taken THEN users ELSE users \cup {row}

\* create: the column is unique.
InsertUser(r) ==
  /\ reg[r] = "unknown"
  /\ LET row == [id |-> r, email |-> Lower[Email[r]]]
         taken == \E u \in users: u.email = row.email IN
     /\ reg' = [reg EXCEPT ![r] = IF taken THEN "refused" ELSE "created"]
     /\ users' = IF taken THEN users ELSE users \cup {row}

-----------------------------------------------------------------------------
(* Properties.                                                             *)

\* However two registrations interleave and however they spell an address, it
\* has one account, so that login finds the one that was registered.
OneAccountPerEmail ==
  \A u, v \in users: Lower[Email[u.id]] = Lower[Email[v.id]] => u = v
=============================================================================
