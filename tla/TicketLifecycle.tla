-------------------------- MODULE TicketLifecycle --------------------------
(***************************************************************************)
(* What TicketService promises about one ticket, with every operation a    *)
(* single step, to requests that may overlap.                              *)
(*                                                                         *)
(* Each operation decides on the ticket as it once was: a transition is    *)
(* allowed from a status the ticket has had, and an assign to a user it    *)
(* once had may leave the assignee alone.  What an operation changes is    *)
(* its own: the status and its trail, the assignee and its history, or the *)
(* columns a PATCH names.                                                  *)
(*                                                                         *)
(* TicketWorkflow is shown to implement this module.                       *)
(***************************************************************************)
EXTENDS Naturals, TicketEnums

CONSTANTS Assignees, NoUser, Columns, Values

VARIABLES
  ticket,       \* status, assignee and details, as a reader sees them
  moves,        \* moves[s][t]: how often the status was changed from s to t
  assignments   \* assignments[u]: how often it was assigned to u

vars == <<ticket, moves, assignments>>

\* Statuses the ticket has had, and users (or nobody) it was assigned to.
HasHad(status)    == \E s \in DOMAIN moves : moves[s][status] > 0
WasAssigned(user) == user = NoUser \/ assignments[user] > 0

Init ==
  /\ ticket \in [status : {"absent"}, assignee : {NoUser},
                 details : [Columns -> Values]]
  /\ moves = [s \in TicketStatus \cup {"-"} |-> [t \in TicketStatus |-> 0]]
  /\ assignments = [u \in Assignees |-> 0]

create ==
  /\ ticket.status = "absent"
  /\ ticket' = [ticket EXCEPT !.status = "new"]
  /\ moves' = [moves EXCEPT !["-"]["new"] = @ + 1]
  /\ UNCHANGED assignments

transition_status(from, target) ==
  /\ HasHad(from) /\ is_transition_allowed(from, target)
  /\ ticket' = [ticket EXCEPT !.status = target]
  /\ moves' = [moves EXCEPT ![from][target] = @ + 1]
  /\ UNCHANGED assignments

assign(user) ==
  /\ ticket.status # "absent"
  /\ \/ ticket' = [ticket EXCEPT !.assignee = user]
     \/ WasAssigned(user) /\ UNCHANGED ticket
  /\ assignments' = [assignments EXCEPT ![user] = @ + 1]
  /\ UNCHANGED moves

update(details) ==
  /\ ticket.status # "absent"
  /\ ticket' = [ticket EXCEPT !.details = details]
  /\ UNCHANGED <<moves, assignments>>

Next ==
  \/ create
  \/ \E from, target \in TicketStatus : transition_status(from, target)
  \/ \E user \in Assignees : assign(user)
  \/ \E details \in [Columns -> Values] : update(details)

Spec == Init /\ [][Next]_vars
============================================================================
