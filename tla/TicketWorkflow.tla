--------------------------- MODULE TicketWorkflow ---------------------------
(***************************************************************************)
(* One ticket row and the requests that change it.                         *)
(*                                                                         *)
(* Every handler of api/v1/tickets.py runs TicketService in a worker       *)
(* thread, with a database session of its own.  A request is therefore a   *)
(* READ COMMITTED transaction of several steps: it loads the row and makes *)
(* its checks on that copy, its flushes run INSERTs and an UPDATE, and one *)
(* commit publishes them.  Only the UPDATE takes the row's lock, and the   *)
(* unit of work emits it only for attributes whose value differs from the  *)
(* one loaded.                                                             *)
(*                                                                         *)
(* A Request is one call.  Tickets share no row, so one ticket is enough.  *)
(***************************************************************************)
EXTENDS Naturals, FiniteSets, TicketEnums

CONSTANTS
  Requests,     \* calls that may arrive, each made once
  NoRequest,    \* nobody holds the row lock
  Closers,      \* requests whose caller holds tickets.close
  MaxInFlight,  \* worker threads: requests that may run at the same time
  Users,        \* members of the workspace
  NoUser,       \* assignee_user_id = None
  Columns,      \* columns TicketService.update may set
  Values,       \* their values
  Keep          \* a payload field left out (None)

ASSUME TicketConstants ==
  /\ NoRequest \notin Requests
  /\ NoUser \notin Users
  /\ Keep \notin Values
  /\ Values # {}
  /\ Closers \subseteq Requests
  /\ MaxInFlight \in Nat

VARIABLES
  row,      \* the committed ticket row; status "absent" before create
  history,  \* committed ticket_assignments rows
  audit,    \* committed audit events of this ticket
  lock,     \* request whose uncommitted UPDATE holds the row lock
  clock,    \* wall clock of the API process, read for each created_at
  pc,       \* next statement of each request
  job,      \* what each request was asked to do
  seen,     \* the row as each request loaded it
  stamp     \* created_at of the rows each request has inserted

vars == <<row, history, audit, lock, clock, pc, job, seen, stamp>>

Assignees == Users \cup {NoUser}
Details   == [Columns -> Values]
Rows      == [status   : TicketStatus \cup {"absent"},
              assignee : Assignees,
              details  : Details]

Transitions == [op : {"transition"}, status : TicketStatus]
Assigns     == [op : {"assign"}, assignee : Assignees]
Updates     == [op : {"update"}, patch : [Columns -> Values \cup {Keep}]]
NoJob       == [op |-> "none"]
Jobs        == Transitions \cup Assigns \cup Updates

\* created_at of an audit event and of an assignment row; 0 is "not yet".
Stamps  == [audit : Nat, assignment : Nat]
NoStamp == [audit |-> 0, assignment |-> 0]

Steps == {"audit", "update", "assignment", "commit"}

\* What a closed session holds: no request, no loaded row, no inserted row.
NoRow == [status   |-> "absent",
          assignee |-> NoUser,
          details  |-> [c \in Columns |-> CHOOSE v \in Values : TRUE]]
-----------------------------------------------------------------------------
InFlight == {r \in Requests : pc[r] \in Steps}

\* The columns a PATCH changes: given, and different from the loaded value.
ChangedColumns(r) ==
  {c \in Columns : job[r].patch[c] \notin {Keep, seen[r].details[c]}}

\* Does the unit of work emit an UPDATE of the ticket row for r?
EmitsUpdate(r) ==
  CASE job[r].op = "transition" -> job[r].status # seen[r].status
    [] job[r].op = "assign"     -> job[r].assignee # seen[r].assignee
    [] OTHER                    -> ChangedColumns(r) # {}

\* Mutant: the UPDATE writes the whole loaded row back, not the columns changed.
Written_WholeRow(r) ==
  CASE job[r].op = "transition" -> [seen[r] EXCEPT !.status = job[r].status]
    [] job[r].op = "assign"     -> [seen[r] EXCEPT !.assignee = job[r].assignee]
    [] OTHER -> [seen[r] EXCEPT !.details =
                   [c \in Columns |-> IF job[r].patch[c] = Keep
                                        THEN @[c] ELSE job[r].patch[c]]]

\* The row after r's UPDATE: the changed columns only, on the row as it is.
Written(r) ==
  CASE job[r].op = "transition" -> [row EXCEPT !.status = job[r].status]
    [] job[r].op = "assign"     -> [row EXCEPT !.assignee = job[r].assignee]
    [] OTHER -> [row EXCEPT !.details =
                   [c \in Columns |-> IF c \in ChangedColumns(r)
                                        THEN job[r].patch[c] ELSE @[c]]]

\* Mutant: previous_status is read after the new status was assigned.
AuditEvent_FromAfter(r) ==
  [action |-> CASE job[r].op = "transition" -> "status_changed"
                [] job[r].op = "assign" -> "assigned"
                [] OTHER -> "updated",
   from   |-> IF job[r].op = "transition" THEN job[r].status ELSE "-",
   to     |-> IF job[r].op = "transition" THEN job[r].status ELSE "-",
   at     |-> stamp[r].audit]

AuditEvent(r) ==
  CASE job[r].op = "transition" ->
         [action |-> "status_changed", from |-> seen[r].status,
          to |-> job[r].status, at |-> stamp[r].audit]
    [] job[r].op = "assign" ->
         [action |-> "assigned", from |-> "-", to |-> "-", at |-> stamp[r].audit]
    [] OTHER ->
         [action |-> "updated", from |-> "-", to |-> "-", at |-> stamp[r].audit]

\* The history row of an assign; `effective` records whether the request
\* that appended it also wrote the pointer (it held the row lock).
AssignmentRow(r) ==
  [assignee |-> job[r].assignee, at |-> stamp[r].assignment, effective |-> lock = r]
-----------------------------------------------------------------------------
Init ==
  /\ row \in [status : {"absent"}, assignee : {NoUser}, details : Details]
  /\ history = {} /\ audit = {}
  /\ lock = NoRequest /\ clock = 1
  /\ pc = [r \in Requests |-> "idle"]
  /\ job = [r \in Requests |-> NoJob]
  /\ seen = [r \in Requests |-> NoRow]
  /\ stamp = [r \in Requests |-> NoStamp]

\* TicketService.create: nobody can see the ticket before the commit, so the
\* INSERT, the audit event and the commit are one step.
Create ==
  /\ row.status = "absent"
  /\ row' = [row EXCEPT !.status = "new"]
  /\ audit' = {[action |-> "created", from |-> "-", to |-> "new", at |-> clock]}
  /\ clock' = clock + 1
  /\ UNCHANGED <<history, lock, pc, job, seen, stamp>>

\* A worker thread is free for r, and TicketService.get finds the ticket.
Found(r) ==
  /\ pc[r] = "idle"
  /\ Cardinality(InFlight) < MaxInFlight
  /\ row.status # "absent"

\* The handler loads the ticket into its session and passes its checks; a
\* request that fails one raises and leaves nothing behind.
Load(r, j, first) ==
  /\ job' = [job EXCEPT ![r] = j]
  /\ seen' = [seen EXCEPT ![r] = row]
  /\ pc' = [pc EXCEPT ![r] = first]
  /\ UNCHANGED <<row, history, audit, lock, clock, stamp>>

\* Mutant: the state machine is not consulted.
LoadTransition_Unchecked(r) ==
  Found(r) /\ \E j \in Transitions :
    /\ j.status = "closed" => r \in Closers
    /\ Load(r, j, "audit")

LoadTransition(r) ==
  Found(r) /\ \E j \in Transitions :
    /\ j.status = "closed" => r \in Closers
    /\ is_transition_allowed(row.status, j.status)
    /\ Load(r, j, "audit")

LoadAssign(r) == Found(r) /\ \E j \in Assigns : Load(r, j, "update")

LoadUpdate(r) == Found(r) /\ \E j \in Updates : Load(r, j, "audit")

\* AuditRepository.record: the INSERT of the audit event, stamped now.  In
\* one flush the audit INSERT precedes the ticket UPDATE.
InsertAudit(r) ==
  /\ pc[r] = "audit"
  /\ stamp' = [stamp EXCEPT ![r].audit = clock]
  /\ clock' = clock + 1
  /\ pc' = [pc EXCEPT ![r] = IF job[r].op = "assign" THEN "commit" ELSE "update"]
  /\ UNCHANGED <<row, history, audit, lock, job, seen>>

\* The flush of the ticket itself: the UPDATE waits for the row lock; with
\* nothing changed there is no statement and nothing to wait for.
UpdateRow(r) ==
  /\ pc[r] = "update"
  /\ IF EmitsUpdate(r) THEN lock = NoRequest /\ lock' = r ELSE lock' = lock
  /\ pc' = [pc EXCEPT ![r] = IF job[r].op = "assign" THEN "assignment" ELSE "commit"]
  /\ UNCHANGED <<row, history, audit, clock, job, seen, stamp>>

\* TicketAssignmentRepository.create: the INSERT of the history row.
InsertAssignment(r) ==
  /\ pc[r] = "assignment"
  /\ stamp' = [stamp EXCEPT ![r].assignment = clock]
  /\ clock' = clock + 1
  /\ pc' = [pc EXCEPT ![r] = "audit"]
  /\ UNCHANGED <<row, history, audit, lock, job, seen>>

\* Mutant: the session is closed without ending its transaction.
EndRequest_KeepsLock(r) ==
  /\ lock' = lock
  /\ pc' = [pc EXCEPT ![r] = "done"]
  /\ job' = [job EXCEPT ![r] = NoJob]
  /\ seen' = [seen EXCEPT ![r] = NoRow]
  /\ stamp' = [stamp EXCEPT ![r] = NoStamp]

\* The transaction is over: its lock is released and the session closed.
EndRequest(r) ==
  /\ lock' = IF lock = r THEN NoRequest ELSE lock
  /\ pc' = [pc EXCEPT ![r] = "done"]
  /\ job' = [job EXCEPT ![r] = NoJob]
  /\ seen' = [seen EXCEPT ![r] = NoRow]
  /\ stamp' = [stamp EXCEPT ![r] = NoStamp]

\* Mutant: unassigning appends no history row.
Commit_SkipsUnassign(r) ==
  /\ pc[r] = "commit"
  /\ row' = IF lock = r THEN Written(r) ELSE row
  /\ history' = history \cup (IF job[r] \in [op : {"assign"}, assignee : Users]
                               THEN {AssignmentRow(r)} ELSE {})
  /\ audit' = audit \cup {AuditEvent(r)}
  /\ EndRequest(r)
  /\ UNCHANGED clock

\* The single commit of every operation.
Commit(r) ==
  /\ pc[r] = "commit"
  /\ row' = IF lock = r THEN Written(r) ELSE row
  /\ history' = history \cup (IF job[r].op = "assign" THEN {AssignmentRow(r)} ELSE {})
  /\ audit' = audit \cup {AuditEvent(r)}
  /\ EndRequest(r)
  /\ UNCHANGED clock

\* Mutant: after the rollback the handler carries on with its statements.
Abort_CarriesOn(r) ==
  /\ pc[r] \in Steps
  /\ lock' = IF lock = r THEN NoRequest ELSE lock
  /\ job' = [job EXCEPT ![r] = NoJob]
  /\ UNCHANGED <<row, history, audit, clock, pc, seen, stamp>>

\* An error, a lost connection or a restart before the commit: the session
\* is closed and the database rolls the transaction back.
Abort(r) ==
  /\ pc[r] \in Steps
  /\ EndRequest(r)
  /\ UNCHANGED <<row, history, audit, clock>>

Advance(r) == InsertAudit(r) \/ UpdateRow(r) \/ InsertAssignment(r) \/ Commit(r)

Next ==
  \/ Create
  \/ \E r \in Requests :
       \/ LoadTransition(r) \/ LoadAssign(r) \/ LoadUpdate(r)
       \/ Advance(r)
       \/ Abort(r)

Spec == Init /\ [][Next]_vars

\* A thread that has started a request keeps executing it.
Fairness == \A r \in Requests : WF_vars(Advance(r))
-----------------------------------------------------------------------------
AuditEvents == [action : {"created", "status_changed", "assigned", "updated"},
                from : TicketStatus \cup {"-"}, to : TicketStatus \cup {"-"}, at : Nat]
AssignmentRows == [assignee : Assignees, at : Nat, effective : BOOLEAN]

TypeOK ==
  /\ row \in Rows
  /\ history \subseteq AssignmentRows
  /\ audit \subseteq AuditEvents
  /\ lock \in Requests \cup {NoRequest}
  /\ clock \in Nat \ {0}
  /\ pc \in [Requests -> Steps \cup {"idle", "done"}]
  /\ job \in [Requests -> Jobs \cup {NoJob}]
  /\ seen \in [Requests -> Rows]
  /\ stamp \in [Requests -> Stamps]
  /\ \A r \in Requests : pc[r] \in Steps =>
       job[r] \in Jobs /\ seen[r].status \in TicketStatus

\* The last of a set of timestamped rows.
IsLast(e, S) == e \in S /\ \A d \in S : d.at <= e.at

EffectiveHistory == {h \in history : h.effective}

\* The denormalised pointer names the assignee of the latest history row
\* written together with it, in every interleaving: assign() takes the row
\* lock before it stamps the history row, so stamps follow commits.
PointerFollowsWrites ==
  /\ EffectiveHistory = {} => row.assignee = NoUser
  /\ \A h \in EffectiveHistory :
       IsLast(h, EffectiveHistory) => row.assignee = h.assignee

\* What makes PointerFollowsWrites inductive: an assign that wrote the
\* pointer has stamped its history row after every one that wrote it before.
StampsFollowLocks ==
  \A r \in Requests :
    lock = r /\ job[r].op = "assign" /\ pc[r] \in {"audit", "commit"} =>
      \A h \in EffectiveHistory : h.at < stamp[r].assignment

\* r's uncommitted rows are stamped apart from every other row.
Apart(r) ==
  /\ stamp[r].audit # 0 =>
       /\ \A e \in audit : e.at # stamp[r].audit
       /\ \A q \in Requests \ {r} : stamp[q].audit # stamp[r].audit
  /\ stamp[r].assignment # 0 =>
       /\ \A h \in history : h.at # stamp[r].assignment
       /\ \A q \in Requests \ {r} : stamp[q].assignment # stamp[r].assignment

\* r has stamped the rows its program counter says it has inserted, and a
\* transition about to commit has written the status.
Prepared(r) ==
  /\ pc[r] \in {"idle", "done"} => stamp[r] = NoStamp
  /\ pc[r] = "commit" \/ (pc[r] = "update" /\ job[r].op # "assign") => stamp[r].audit # 0
  /\ pc[r] \in {"audit", "commit"} /\ job[r].op = "assign" => stamp[r].assignment # 0
  /\ job[r].op = "transition" =>
       job[r].status # seen[r].status /\ (pc[r] = "commit" => lock = r)

\* What makes EveryChangeIsAudited inductive: the rows a commit publishes are
\* new ones.
StampsAreFresh ==
  /\ row.status = "absent" => audit = {} /\ \A r \in Requests : pc[r] = "idle"
  /\ \A e \in audit \cup history : e.at < clock
  /\ \A r \in Requests :
       /\ stamp[r].audit < clock /\ stamp[r].assignment < clock
       /\ Apart(r) /\ Prepared(r)

\* The events and history rows a step publishes, against what it changes.
NewEvents(actions) == {e \in audit' \ audit : e.action \in actions}

ChangeAudited ==
  /\ \A e \in NewEvents({"created", "status_changed"}) : row'.status = e.to
  /\ row'.status # row.status => NewEvents({"created", "status_changed"}) # {}
  /\ row'.assignee # row.assignee =>
       /\ NewEvents({"assigned"}) # {}
       /\ \E h \in history' \ history : h.assignee = row'.assignee
  /\ row'.details # row.details => NewEvents({"updated"}) # {}

\* A commit moves the status exactly when it publishes a status_changed event
\* that ends there, moves the assignee only with an assigned event and its
\* history row, and the details only with an updated event: operations that
\* overlap never undo each other's columns.
EveryChangeIsAudited == [][ChangeAudited]_vars

\* Every request that got a thread finishes: no wait for the row lock is
\* endless, because each holder commits or rolls back.
RequestsFinish == \A r \in Requests : pc[r] \in Steps ~> pc[r] = "done"
-----------------------------------------------------------------------------
StatusEvents == {e \in audit : e.action \in {"created", "status_changed"}}

\* The trail read in created_at order never starts from nowhere: the ticket's
\* status is one that an event names, and every status change is allowed from
\* a status that an event stamped earlier led to, although requests stamp their
\* events before they wait for the row lock and commit in another order.
EventsFollowEarlierOnes ==
  /\ row.status # "absent" => \E e \in StatusEvents : e.to = row.status
  /\ \A e \in StatusEvents : e.action = "status_changed" =>
       /\ is_transition_allowed(e.from, e.to)
       /\ \E d \in StatusEvents : d.at < e.at /\ d.to = e.from

\* How many status changes from one status to another, and how many
\* assignments to each user, are committed.
Moves == [from \in TicketStatus \cup {"-"} |-> [to \in TicketStatus |->
            Cardinality({e \in StatusEvents : e.from = from /\ e.to = to})]]
Assignments == [user \in Assignees |-> Cardinality({h \in history : h.assignee = user})]

Lifecycle == INSTANCE TicketLifecycle WITH
               ticket <- row, moves <- Moves, assignments <- Assignments

\* However requests overlap, each is one step of the lifecycle: a transition
\* is one that the state machine allows from a status the ticket has had, an
\* assign adds one history row, and none touches what it was not asked to.
ImplementsLifecycle == Lifecycle!Spec
-----------------------------------------------------------------------------
\* ticket_enums.py: no caller can skip the state machine.  Two transitions
\* that overlap can: the second moves on a status it never looked at.
StatusFollowsStateMachine ==
  [][row'.status # row.status =>
       \/ row.status = "absent" /\ row'.status = "new"
       \/ row.status # "absent" /\ is_transition_allowed(row.status, row'.status)]_row

\* models/ticket.py: assignee_user_id points to the current assignee and the
\* history in TicketAssignment, read in created_at order, is authoritative.
\* It fails when an assign to the loaded assignee overlaps another assign.
PointerIsLatestAssignment ==
  \A h \in history : IsLast(h, history) => row.assignee = h.assignee

\* ADR-005: time in each status can be derived from the status_changed rows:
\* in created_at order each starts where the one before it ended, and the
\* last one ends in the current status.  It fails when transitions overlap.
AuditTrailReplays ==
  /\ \A e \in StatusEvents : IsLast(e, StatusEvents) => e.to = row.status
  /\ \A e \in StatusEvents : e.action = "status_changed" =>
       \E d \in StatusEvents :
         IsLast(d, {c \in StatusEvents : c.at < e.at}) /\ d.to = e.from
=============================================================================
