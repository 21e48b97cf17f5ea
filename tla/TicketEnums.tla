---------------------------- MODULE TicketEnums ----------------------------
(***************************************************************************)
(* The fixed lifecycle of a ticket: the statuses and the adjacency map of  *)
(* app/models/ticket_enums.py.  Pure definitions, shared by every module   *)
(* that speaks about a ticket's status.                                    *)
(***************************************************************************)

TicketStatus == {"new", "open", "in_progress", "waiting_customer",
                 "waiting_internal", "resolved", "closed"}

\* ALLOWED_TRANSITIONS[s] is the set of statuses a ticket in s may move to.
ALLOWED_TRANSITIONS ==
  [new              |-> {"open", "in_progress", "closed"},
   open             |-> {"in_progress", "waiting_customer", "waiting_internal",
                         "resolved", "closed"},
   in_progress      |-> {"open", "waiting_customer", "waiting_internal",
                         "resolved", "closed"},
   waiting_customer |-> {"in_progress", "open", "resolved", "closed"},
   waiting_internal |-> {"in_progress", "open", "resolved", "closed"},
   resolved         |-> {"open", "closed"},
   closed           |-> {"open"}]

is_transition_allowed(current, target) ==
  current # target /\ target \in ALLOWED_TRANSITIONS[current]
============================================================================
