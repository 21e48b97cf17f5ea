----------------------------- MODULE Directory -----------------------------
(***************************************************************************)
(* What signing up and creating workspaces promise, whatever runs at the   *)
(* same time: users appear once, a workspace named like n others gets the  *)
(* next number of that name, and no workspace is there before the system   *)
(* roles its members need are complete.                                    *)
(***************************************************************************)
EXTENDS Naturals

CONSTANTS Emails, Names

VARIABLES
  users,   \* emails of the accounts
  count,   \* count[n]: workspaces whose name is n
  roles    \* whether the system roles and their permissions are there

vars == <<users, count, roles>>

Init ==
  /\ users \subseteq Emails
  /\ count = [n \in Names |-> 0]
  /\ roles \in BOOLEAN

AddUser(e) ==
  /\ e \notin users
  /\ users' = users \cup {e}
  /\ UNCHANGED <<count, roles>>

AddWorkspace(n) ==
  /\ count' = [count EXCEPT ![n] = @ + 1]
  /\ roles' = TRUE
  /\ UNCHANGED users

AddBoth(e, n) ==
  /\ e \notin users
  /\ users' = users \cup {e}
  /\ count' = [count EXCEPT ![n] = @ + 1]
  /\ roles' = TRUE

Next ==
  \/ \E e \in Emails : AddUser(e)
  \/ \E n \in Names : AddWorkspace(n)
  \/ \E e \in Emails, n \in Names : AddBoth(e, n)

Spec == Init /\ [][Next]_vars
=============================================================================
