-------------------------- MODULE MCTicketWorkflow --------------------------
(***************************************************************************)
(* Small instances of TicketWorkflow for TLC.                              *)
(***************************************************************************)
EXTENDS TicketWorkflow, TLC

\* Every call has been made and answered: the instance has nothing left to do.
AllAnswered ==
  /\ row.status # "absent"
  /\ \A r \in Requests : pc[r] = "done"
  /\ UNCHANGED vars

MCNext == Next \/ AllAnswered
MCSpec == Init /\ [][MCNext]_vars
MCFairSpec == MCSpec /\ Fairness

Symmetry == Permutations(Requests) \cup Permutations(Users)
=============================================================================
