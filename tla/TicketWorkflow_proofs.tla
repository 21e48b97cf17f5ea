------------------------ MODULE TicketWorkflow_proofs ------------------------
(***************************************************************************)
(* Theorems about TicketWorkflow, for any number of requests, users and    *)
(* columns and any number of worker threads.                               *)
(***************************************************************************)
EXTENDS TicketWorkflow, FiniteSetTheorems, TLAPS

\* A closed session's empty row has the type of a row.
LEMMA NoRowType == NoRow \in Rows
<1>1. (CHOOSE v \in Values : TRUE) \in Values
  BY TicketConstants
<1> QED
  BY <1>1 DEF NoRow, Rows, Details, Assignees

\* What an UPDATE writes is again a row.
LEMMA WrittenType ==
  ASSUME TypeOK, NEW r \in Requests, job[r] \in Jobs
  PROVE  Written(r) \in Rows
<1>1. row \in Rows
  BY DEF TypeOK
<1>2. CASE job[r] \in Transitions
  BY <1>1, <1>2 DEF Written, Transitions, Rows
<1>3. CASE job[r] \in Assigns
  BY <1>1, <1>3 DEF Written, Assigns, Rows
<1>4. CASE job[r] \in Updates
  <2>1. job[r].op = "update" /\ job[r].patch \in [Columns -> Values \cup {Keep}]
    BY <1>4 DEF Updates
  <2> DEFINE d == [c \in Columns |-> IF c \in ChangedColumns(r)
                                       THEN job[r].patch[c] ELSE row.details[c]]
  <2>2. d \in Details
    BY <1>1, <2>1 DEF Rows, Details, ChangedColumns
  <2>3. Written(r) = [row EXCEPT !.details = d]
    BY <2>1 DEF Written
  <2> HIDE DEF d
  <2> QED
    BY <1>1, <2>2, <2>3 DEF Rows
<1> QED
  BY <1>2, <1>3, <1>4 DEF Jobs

\* Every step preserves the types.
LEMMA TypeStep == TypeOK /\ [Next]_vars => TypeOK'
<1> SUFFICES ASSUME TypeOK, [Next]_vars PROVE TypeOK'
  OBVIOUS
<1> USE DEF TypeOK
<1>1. CASE Create
  BY <1>1 DEF Create, Rows, AuditEvents, TicketStatus
<1>2. ASSUME NEW r \in Requests, NEW j \in Jobs, NEW first \in {"audit", "update"},
             Found(r), Load(r, j, first)
      PROVE  TypeOK'
  BY <1>2 DEF Found, Load, Rows, Steps
<1>3. ASSUME NEW r \in Requests, InsertAudit(r) PROVE TypeOK'
  BY <1>3 DEF InsertAudit, Steps, Stamps
<1>4. ASSUME NEW r \in Requests, UpdateRow(r) PROVE TypeOK'
  BY <1>4 DEF UpdateRow, Steps
<1>5. ASSUME NEW r \in Requests, InsertAssignment(r) PROVE TypeOK'
  BY <1>5 DEF InsertAssignment, Steps, Stamps
<1>6. ASSUME NEW r \in Requests, EndRequest(r), UNCHANGED clock,
             row' \in Rows, history' \subseteq AssignmentRows, audit' \subseteq AuditEvents
      PROVE  TypeOK'
  BY <1>6, NoRowType DEF EndRequest, Steps, Stamps, NoStamp
<1>7. ASSUME NEW r \in Requests, Commit(r) PROVE TypeOK'
  <2>1. job[r] \in Jobs
    BY <1>7 DEF Commit, Steps
  <2>2. row' \in Rows
    BY <1>7, <2>1, WrittenType DEF Commit
  <2>3. history' \subseteq AssignmentRows
    <3>1. CASE job[r].op = "assign"
      <4>1. job[r].assignee \in Assignees /\ stamp[r].assignment \in Nat
        BY <2>1, <3>1 DEF Jobs, Transitions, Assigns, Updates, Stamps
      <4>2. (lock = r) \in BOOLEAN
        OBVIOUS
      <4>3. AssignmentRow(r) \in AssignmentRows
        BY <4>1, <4>2, Zenon DEF AssignmentRow, AssignmentRows
      <4> QED
        BY <1>7, <3>1, <4>3 DEF Commit
    <3>2. CASE job[r].op # "assign"
      BY <1>7, <3>2 DEF Commit
    <3> QED
      BY <3>1, <3>2
  <2>4. AuditEvent(r) \in AuditEvents
    <3>1. seen[r].status \in TicketStatus /\ stamp[r].audit \in Nat
      BY <1>7 DEF Commit, Steps, Stamps
    <3>2. job[r].op = "transition" => job[r].status \in TicketStatus
      BY <2>1 DEF Jobs, Transitions, Assigns, Updates
    <3> QED
      BY <3>1, <3>2 DEF AuditEvent, AuditEvents
  <2> QED
    BY <1>6, <1>7, <2>2, <2>3, <2>4 DEF Commit
<1>8. ASSUME NEW r \in Requests, Abort(r) PROVE TypeOK'
  BY <1>6, <1>8 DEF Abort
<1>9. CASE UNCHANGED vars
  BY <1>9 DEF vars
<1> QED
  BY <1>1, <1>2, <1>3, <1>4, <1>5, <1>7, <1>8, <1>9
     DEF Next, Advance, LoadTransition, LoadAssign, LoadUpdate, Jobs

\* Every variable keeps its type: in particular a request past its load has a
\* payload, and a closed session holds none.
THEOREM TypeCorrect == Spec => []TypeOK
<1>1. Init => TypeOK
  BY NoRowType, TicketConstants
     DEF Init, TypeOK, Rows, Details, Assignees, Steps, Stamps, NoStamp
<1> QED
  BY <1>1, TypeStep, PTL DEF Spec
-----------------------------------------------------------------------------
\* Every step stamps its rows apart from those committed and those pending.
LEMMA FreshStep == TypeOK /\ StampsAreFresh /\ [Next]_vars => StampsAreFresh'
<1> SUFFICES ASSUME TypeOK, StampsAreFresh, [Next]_vars PROVE StampsAreFresh'
  OBVIOUS
<1>0. /\ clock \in Nat /\ clock > 0
      /\ \A e \in audit \cup history : e.at \in Nat
      /\ \A r \in Requests : /\ stamp[r].audit \in Nat /\ stamp[r].assignment \in Nat
                             /\ stamp[r] \in Stamps /\ r # NoRequest
  BY TicketConstants DEF TypeOK, Stamps, AuditEvents, AssignmentRows
<1>1. CASE Create
  BY <1>0, <1>1 DEF Create, StampsAreFresh, Apart, Prepared, NoStamp, TypeOK, Rows
<1>2. ASSUME NEW r \in Requests, NEW j \in Jobs, NEW first \in {"audit", "update"},
             Found(r), Load(r, j, first), j.op = "assign" <=> first = "update",
             j.op = "transition" => j.status # row.status
      PROVE  StampsAreFresh'
  <2>1. ASSUME NEW q \in Requests PROVE Apart(q)'
    BY <1>2 DEF Load, StampsAreFresh, Apart
  <2>2. ASSUME NEW q \in Requests PROVE Prepared(q)'
    BY <1>2 DEF Found, Load, StampsAreFresh, Prepared, TypeOK
  <2> QED
    BY <1>2, <2>1, <2>2 DEF Found, Load, StampsAreFresh
<1>3. ASSUME NEW r \in Requests, InsertAudit(r) PROVE StampsAreFresh'
  <2>1. \A q \in Requests : /\ stamp'[q].audit = IF q = r THEN clock ELSE stamp[q].audit
                            /\ stamp'[q].assignment = stamp[q].assignment
                            /\ q # r => stamp'[q] = stamp[q]
    BY <1>0, <1>3 DEF InsertAudit, TypeOK, Stamps
  <2>2. ASSUME NEW q \in Requests PROVE Apart(q)'
    BY <1>0, <1>3, <2>1 DEF InsertAudit, StampsAreFresh, Apart
  <2>3. ASSUME NEW q \in Requests PROVE Prepared(q)'
    BY <1>0, <1>3, <2>1 DEF InsertAudit, StampsAreFresh, Prepared, TypeOK
  <2> QED
    BY <1>0, <1>3, <2>1, <2>2, <2>3 DEF InsertAudit, StampsAreFresh, TypeOK
<1>4. ASSUME NEW r \in Requests, UpdateRow(r) PROVE StampsAreFresh'
  <2>1. ASSUME NEW q \in Requests PROVE Apart(q)'
    BY <1>4 DEF UpdateRow, StampsAreFresh, Apart
  <2>2. ASSUME NEW q \in Requests PROVE Prepared(q)'
    <3>1. pc[r] = "update" /\ job[r] \in Jobs /\ UNCHANGED <<job, seen, stamp>>
      BY <1>4 DEF UpdateRow, TypeOK, Steps
    <3>2. CASE q = r
      <4>1. pc'[r] = IF job[r].op = "assign" THEN "assignment" ELSE "commit"
        BY <1>4 DEF UpdateRow, TypeOK
      <4>2. job[r].op = "transition" => lock' = r
        BY <1>4 DEF UpdateRow, EmitsUpdate, StampsAreFresh, Prepared
      <4>3. stamp[r].audit # 0 \/ job[r].op = "assign"
        BY <3>1 DEF StampsAreFresh, Prepared
      <4> QED
        BY <3>1, <3>2, <4>1, <4>2, <4>3 DEF StampsAreFresh, Prepared
    <3>3. CASE q # r
      <4>1. pc'[q] = pc[q]
        BY <1>4, <3>3 DEF UpdateRow, TypeOK
      <4>2. lock = q => lock' = q
        BY <1>0, <1>4 DEF UpdateRow
      <4> QED
        BY <3>1, <4>1, <4>2 DEF StampsAreFresh, Prepared
    <3> QED
      BY <3>2, <3>3
  <2> QED
    BY <1>4, <2>1, <2>2 DEF UpdateRow, StampsAreFresh, TypeOK
<1>5. ASSUME NEW r \in Requests, InsertAssignment(r) PROVE StampsAreFresh'
  <2>1. \A q \in Requests : /\ stamp'[q].assignment = IF q = r THEN clock
                                                       ELSE stamp[q].assignment
                            /\ stamp'[q].audit = stamp[q].audit
                            /\ q # r => stamp'[q] = stamp[q]
    BY <1>0, <1>5 DEF InsertAssignment, TypeOK, Stamps
  <2>2. ASSUME NEW q \in Requests PROVE Apart(q)'
    <3>1. \A h \in history : h.at < clock /\ h.at # clock
      BY <1>0 DEF StampsAreFresh
    <3> QED
      BY <1>0, <1>5, <2>1, <3>1 DEF InsertAssignment, StampsAreFresh, Apart
  <2>3. ASSUME NEW q \in Requests PROVE Prepared(q)'
    BY <1>0, <1>5, <2>1 DEF InsertAssignment, StampsAreFresh, Prepared, TypeOK
  <2> QED
    BY <1>0, <1>5, <2>1, <2>2, <2>3 DEF InsertAssignment, StampsAreFresh, TypeOK
<1>6. ASSUME NEW r \in Requests, pc[r] \in Steps, EndRequest(r), UNCHANGED clock,
             row.status # "absent" => row'.status # "absent",
             \A e \in audit' \ audit : e.at = stamp[r].audit /\ e.at # 0,
             \A h \in history' \ history : h.at = stamp[r].assignment /\ h.at # 0
      PROVE  StampsAreFresh'
  <2>1. row.status # "absent"
    BY <1>6 DEF StampsAreFresh, Steps
  <2>2. \A q \in Requests : stamp'[q] = IF q = r THEN NoStamp ELSE stamp[q]
    BY <1>6 DEF EndRequest, TypeOK
  <2>3. ASSUME NEW q \in Requests PROVE Apart(q)'
    <3>1. CASE q = r
      BY <2>2, <3>1 DEF Apart, NoStamp
    <3>2. CASE q # r
      BY <1>0, <1>6, <2>2, <3>2 DEF StampsAreFresh, Apart, NoStamp
    <3> QED
      BY <3>1, <3>2
  <2>4. ASSUME NEW q \in Requests PROVE Prepared(q)'
    <3>1. CASE q = r
      BY <1>6, <2>2, <3>1 DEF EndRequest, Prepared, TypeOK, NoJob
    <3>2. CASE q # r
      BY <1>0, <1>6, <2>2, <3>2 DEF EndRequest, StampsAreFresh, Prepared, TypeOK
    <3> QED
      BY <3>1, <3>2
  <2> QED
    BY <1>0, <1>6, <2>1, <2>2, <2>3, <2>4 DEF StampsAreFresh, NoStamp
<1>7. ASSUME NEW r \in Requests, Commit(r) PROVE StampsAreFresh'
  <2>1. pc[r] \in Steps /\ job[r] \in Jobs /\ row.status # "absent"
    BY <1>7 DEF Commit, Steps, TypeOK, StampsAreFresh
  <2>2. row'.status # "absent"
    BY <1>7, <2>1 DEF Commit, Written, TypeOK, Rows, Jobs, Transitions, Assigns, Updates,
                      TicketStatus
  <2>3. AuditEvent(r).at = stamp[r].audit /\ stamp[r].audit # 0
    BY <1>7 DEF Commit, AuditEvent, StampsAreFresh, Prepared
  <2>4. \A h \in history' \ history : h.at = stamp[r].assignment /\ h.at # 0
    BY <1>7 DEF Commit, AssignmentRow, StampsAreFresh, Prepared
  <2> QED
    BY <1>6, <1>7, <2>1, <2>2, <2>3, <2>4 DEF Commit
<1>8. ASSUME NEW r \in Requests, Abort(r) PROVE StampsAreFresh'
  BY <1>6, <1>8 DEF Abort
<1>9. CASE UNCHANGED vars
  BY <1>9 DEF vars, StampsAreFresh, Apart, Prepared
<1>10. ASSUME NEW r \in Requests, LoadTransition(r) PROVE StampsAreFresh'
  BY <1>2, <1>10 DEF LoadTransition, is_transition_allowed, Jobs, Transitions
<1>11. ASSUME NEW r \in Requests, LoadAssign(r) \/ LoadUpdate(r) PROVE StampsAreFresh'
  BY <1>2, <1>11 DEF LoadAssign, LoadUpdate, Jobs, Assigns, Updates
<1> QED
  BY <1>1, <1>3, <1>4, <1>5, <1>7, <1>8, <1>9, <1>10, <1>11 DEF Next, Advance

\* No row is stamped at the start.
LEMMA FreshInit == Init => StampsAreFresh
BY TicketConstants DEF Init, StampsAreFresh, Apart, Prepared, NoStamp, NoJob

\* Freshness of the stamps is an invariant.
LEMMA Fresh == Spec => []StampsAreFresh
BY FreshInit, FreshStep, TypeCorrect, PTL DEF Spec
-----------------------------------------------------------------------------
PointerInv == StampsFollowLocks /\ PointerFollowsWrites

\* A step that adds no effective history row and leaves the pointer alone
\* keeps the invariant, when it keeps the stamps of the lock's holder.
LEMMA PointerKept ==
  ASSUME TypeOK, PointerInv,
         row'.assignee = row.assignee,
         EffectiveHistory' = EffectiveHistory,
         \A r \in Requests :
           (lock = r /\ job[r].op = "assign" /\ pc[r] \in {"audit", "commit"})' =>
             \A h \in EffectiveHistory : h.at < stamp'[r].assignment
  PROVE  PointerInv'
BY DEF PointerInv, StampsFollowLocks, PointerFollowsWrites, IsLast

\* Every step preserves the pointer and the order of locks and stamps.
LEMMA PointerStep == TypeOK /\ StampsAreFresh /\ PointerInv /\ [Next]_vars => PointerInv'
<1> SUFFICES ASSUME TypeOK, StampsAreFresh, PointerInv, [Next]_vars PROVE PointerInv'
  OBVIOUS
<1>0. /\ clock \in Nat /\ \A h \in history : h.at \in Nat /\ h.at < clock
      /\ \A r \in Requests : r # NoRequest
  BY TicketConstants DEF StampsAreFresh, TypeOK, AssignmentRows
<1>1. CASE Create
  BY <1>0, <1>1, PointerKept
     DEF Create, PointerInv, StampsFollowLocks, EffectiveHistory, TypeOK, Rows
<1>2. ASSUME NEW r \in Requests, NEW j \in Jobs, NEW first \in {"audit", "update"},
             Load(r, j, first), j.op = "assign" => first = "update"
      PROVE  PointerInv'
  <2>1. UNCHANGED <<row, history, lock, clock, stamp>>
    BY <1>2 DEF Load
  <2>2. ASSUME NEW q \in Requests,
               (lock = q /\ job[q].op = "assign" /\ pc[q] \in {"audit", "commit"})'
        PROVE  \A h \in EffectiveHistory : h.at < stamp'[q].assignment
    BY <1>2, <2>1, <2>2 DEF Load, TypeOK, PointerInv, StampsFollowLocks
  <2> QED
    BY <1>0, <2>1, <2>2, PointerKept DEF EffectiveHistory
<1>3. ASSUME NEW r \in Requests, InsertAudit(r) PROVE PointerInv'
  <2>1. UNCHANGED <<row, history, lock, job>> /\ clock' = clock + 1
    BY <1>3 DEF InsertAudit
  <2>2. ASSUME NEW q \in Requests,
               (lock = q /\ job[q].op = "assign" /\ pc[q] \in {"audit", "commit"})'
        PROVE  \A h \in EffectiveHistory : h.at < stamp'[q].assignment
    <3>1. stamp'[q].assignment = stamp[q].assignment
      BY <1>3 DEF InsertAudit, TypeOK, Stamps
    <3> QED
      BY <1>3, <2>1, <2>2, <3>1 DEF InsertAudit, TypeOK, PointerInv, StampsFollowLocks
  <2> QED
    BY <1>0, <2>1, <2>2, PointerKept DEF EffectiveHistory
<1>4. ASSUME NEW r \in Requests, UpdateRow(r) PROVE PointerInv'
  <2>1. UNCHANGED <<row, history, clock, job, stamp>>
    BY <1>4 DEF UpdateRow
  <2>2. ASSUME NEW q \in Requests,
               (lock = q /\ job[q].op = "assign" /\ pc[q] \in {"audit", "commit"})'
        PROVE  \A h \in EffectiveHistory : h.at < stamp'[q].assignment
    BY <1>4, <2>1, <2>2 DEF UpdateRow, TypeOK, PointerInv, StampsFollowLocks
  <2> QED
    BY <1>0, <2>1, <2>2, PointerKept DEF EffectiveHistory
<1>5. ASSUME NEW r \in Requests, InsertAssignment(r) PROVE PointerInv'
  <2>1. UNCHANGED <<row, history, lock, job>> /\ clock' = clock + 1
    BY <1>5 DEF InsertAssignment
  <2>2. ASSUME NEW q \in Requests,
               (lock = q /\ job[q].op = "assign" /\ pc[q] \in {"audit", "commit"})'
        PROVE  \A h \in EffectiveHistory : h.at < stamp'[q].assignment
    <3>1. CASE q = r
      <4>1. stamp'[q].assignment = clock
        BY <1>5, <3>1 DEF InsertAssignment, TypeOK, Stamps
      <4> QED
        BY <1>0, <4>1 DEF EffectiveHistory
    <3>2. CASE q # r
      BY <1>5, <2>1, <2>2, <3>2
         DEF InsertAssignment, TypeOK, PointerInv, StampsFollowLocks
    <3> QED
      BY <3>1, <3>2
  <2> QED
    BY <1>0, <2>1, <2>2, PointerKept DEF EffectiveHistory
<1>6. ASSUME NEW r \in Requests, EndRequest(r), UNCHANGED clock,
             row'.assignee = row.assignee, EffectiveHistory' = EffectiveHistory
      PROVE  PointerInv'
  <2>1. ASSUME NEW q \in Requests,
               (lock = q /\ job[q].op = "assign" /\ pc[q] \in {"audit", "commit"})'
        PROVE  \A h \in EffectiveHistory : h.at < stamp'[q].assignment
    BY <1>0, <1>6, <2>1 DEF EndRequest, TypeOK, PointerInv, StampsFollowLocks
  <2> QED
    BY <1>0, <1>6, <2>1, PointerKept
<1>7. ASSUME NEW r \in Requests, Commit(r) PROVE PointerInv'
  <2> DEFINE new == AssignmentRow(r)
  <2>1. job[r] \in Jobs /\ stamp[r] \in Stamps /\ row \in Rows
    BY <1>7 DEF Commit, TypeOK, Steps
  <2>2. /\ new.at = stamp[r].assignment /\ new.at < clock /\ new.at \in Nat
        /\ new.assignee = job[r].assignee /\ (new.effective <=> lock = r)
    BY <2>1 DEF AssignmentRow, StampsAreFresh, Stamps
  <2>4. CASE job[r].op = "assign" /\ lock = r
    <3>1. EffectiveHistory' = EffectiveHistory \cup {new}
      BY <1>7, <2>2, <2>4 DEF Commit, EffectiveHistory
    <3>2. row'.assignee = new.assignee
      BY <1>7, <2>1, <2>2, <2>4 DEF Commit, Written, Rows
    <3>3. \A h \in EffectiveHistory : h.at < new.at
      BY <1>7, <2>2, <2>4 DEF Commit, PointerInv, StampsFollowLocks
    <3>4. PointerFollowsWrites'
      BY <1>0, <2>2, <3>1, <3>2, <3>3 DEF PointerFollowsWrites, IsLast, EffectiveHistory
    <3>5. lock' = NoRequest /\ UNCHANGED clock
      BY <1>7, <2>4 DEF Commit, EndRequest
    <3> QED
      BY <1>0, <3>4, <3>5 DEF PointerInv, StampsFollowLocks
  <2>5. CASE job[r].op # "assign"
    <3>1. row'.assignee = row.assignee
      BY <1>7, <2>1, <2>5 DEF Commit, Written, Rows, Jobs, Transitions, Assigns, Updates
    <3> QED
      BY <1>6, <1>7, <2>5, <3>1 DEF Commit, EffectiveHistory
  <2>6. CASE job[r].op = "assign" /\ lock # r
    <3>1. EffectiveHistory' = EffectiveHistory
      BY <1>7, <2>2, <2>6 DEF Commit, EffectiveHistory
    <3> QED
      BY <1>6, <1>7, <2>6, <3>1 DEF Commit
  <2> QED
    BY <2>4, <2>5, <2>6
<1>8. ASSUME NEW r \in Requests, Abort(r) PROVE PointerInv'
  BY <1>0, <1>6, <1>8 DEF Abort, EffectiveHistory
<1>9. CASE UNCHANGED vars
  BY <1>9 DEF vars, PointerInv, StampsFollowLocks, PointerFollowsWrites, EffectiveHistory,
              IsLast
<1>10. ASSUME NEW r \in Requests, LoadTransition(r) \/ LoadAssign(r) \/ LoadUpdate(r)
       PROVE  PointerInv'
  BY <1>2, <1>10 DEF LoadTransition, LoadAssign, LoadUpdate, Jobs, Transitions, Assigns,
                     Updates
<1> QED
  BY <1>1, <1>3, <1>4, <1>5, <1>7, <1>8, <1>9, <1>10 DEF Next, Advance

\* The pointer and the history rows written with it agree in every
\* interleaving of any number of requests.
THEOREM PointerFollows == Spec => []PointerFollowsWrites
<1>1. Init => PointerInv
  BY TicketConstants
     DEF Init, PointerInv, StampsFollowLocks, PointerFollowsWrites, EffectiveHistory
<1>2. PointerInv => PointerFollowsWrites
  BY DEF PointerInv
<1> QED
  BY <1>1, <1>2, PointerStep, TypeCorrect, Fresh, PTL DEF Spec
-----------------------------------------------------------------------------
\* Each commit publishes an event that no earlier commit published, and the
\* columns it changes are those of its operation.
LEMMA ChangeStep == TypeOK /\ StampsAreFresh /\ [Next]_vars => [ChangeAudited]_vars
<1> SUFFICES ASSUME TypeOK, StampsAreFresh, Next PROVE ChangeAudited
  OBVIOUS
<1> USE DEF ChangeAudited, NewEvents
<1>1. CASE Create
  <2> DEFINE e == [action |-> "created", from |-> "-", to |-> "new", at |-> clock]
  <2>1. audit = {} /\ audit' = {e} /\ e.action = "created" /\ e.to = "new"
    BY <1>1 DEF Create, StampsAreFresh
  <2>2. row'.status = "new" /\ row'.assignee = row.assignee /\ row'.details = row.details
    BY <1>1 DEF Create, TypeOK, Rows
  <2> HIDE DEF e
  <2> QED
    BY <2>1, <2>2
<1>2. ASSUME NEW r \in Requests, Commit(r) PROVE ChangeAudited
  <2> DEFINE e == AuditEvent(r)
             h == AssignmentRow(r)
  <2>1. job[r] \in Jobs /\ row \in Rows /\ Apart(r) /\ Prepared(r) /\ pc[r] = "commit"
    BY <1>2 DEF Commit, TypeOK, Steps, StampsAreFresh
  <2>2. audit' = audit \cup {e}
    BY <1>2 DEF Commit
  <2>3. e \notin audit /\ e.at = stamp[r].audit
    BY <2>1 DEF AuditEvent, Apart, Prepared
  <2>4. CASE job[r].op = "transition"
    <3>1. e.action = "status_changed" /\ e.to = job[r].status
      BY <2>4 DEF AuditEvent
    <3>2. row' = [row EXCEPT !.status = job[r].status]
      BY <1>2, <2>1, <2>4 DEF Commit, Written, Prepared
    <3> HIDE DEF e
    <3> QED
      BY <2>1, <2>2, <2>3, <3>1, <3>2 DEF Rows
  <2>5. CASE job[r].op = "assign"
    <3>1. e.action = "assigned" /\ h.assignee = job[r].assignee
      BY <2>5 DEF AuditEvent, AssignmentRow
    <3>2. row' \in {row, [row EXCEPT !.assignee = job[r].assignee]}
      BY <1>2, <2>5 DEF Commit, Written
    <3>3. history' = history \cup {h}
      BY <1>2, <2>5 DEF Commit
    <3>4. h \notin history
      BY <2>1, <2>5 DEF Apart, Prepared, AssignmentRow
    <3> HIDE DEF e, h
    <3> QED
      BY <2>1, <2>2, <2>3, <3>1, <3>2, <3>3, <3>4 DEF Rows
  <2>6. CASE job[r].op \notin {"transition", "assign"}
    <3>1. e.action = "updated"
      BY <2>6 DEF AuditEvent
    <3>2. row'.status = row.status /\ row'.assignee = row.assignee
      BY <1>2, <2>1, <2>6 DEF Commit, Written, Rows
    <3> HIDE DEF e
    <3> QED
      BY <2>1, <2>2, <2>3, <3>1, <3>2
  <2> QED
    BY <2>4, <2>5, <2>6
<1>3. ASSUME UNCHANGED <<row, audit, history>> PROVE ChangeAudited
  BY <1>3
<1>4. ASSUME NEW r \in Requests, InsertAudit(r) \/ UpdateRow(r) \/ InsertAssignment(r) \/ Abort(r)
      PROVE  ChangeAudited
  BY <1>3, <1>4 DEF InsertAudit, UpdateRow, InsertAssignment, Abort
<1>5. ASSUME NEW r \in Requests, LoadTransition(r) \/ LoadAssign(r) \/ LoadUpdate(r)
      PROVE  ChangeAudited
  BY <1>3, <1>5 DEF LoadTransition, LoadAssign, LoadUpdate, Load
<1> QED
  BY <1>1, <1>2, <1>4, <1>5 DEF Next, Advance

\* No interleaving of requests lets one undo a column another wrote, or move
\* a column without its event in the audit trail.
THEOREM ChangesAudited == Spec => EveryChangeIsAudited
BY ChangeStep, TypeCorrect, Fresh, PTL DEF Spec, EveryChangeIsAudited
-----------------------------------------------------------------------------
\* What a copy of the row was once worth: its status is one that an event
\* stamped before r's own led to, and its assignee has a history row.  An
\* assign that went past its UPDATE without the lock asks for the copy's.
CopyWasRow(r) ==
  /\ \E d \in StatusEvents :
       d.to = seen[r].status /\ (stamp[r].audit # 0 => d.at < stamp[r].audit)
  /\ seen[r].assignee = NoUser \/ \E h \in history : h.assignee = seen[r].assignee
  /\ job[r].op = "transition" => is_transition_allowed(seen[r].status, job[r].status)
  /\ job[r].op = "assign" /\ pc[r] \in {"assignment", "audit", "commit"} /\ lock # r =>
       job[r].assignee = seen[r].assignee

\* What makes EventsFollowEarlierOnes inductive, and each commit a step of the
\* lifecycle: every copy was the row once.
TrailInv ==
  /\ EventsFollowEarlierOnes
  /\ row.assignee = NoUser \/ \E h \in history : h.assignee = row.assignee
  /\ \A r \in Requests : pc[r] \in Steps => CopyWasRow(r)
  /\ IsFiniteSet(audit) /\ IsFiniteSet(history)

\* No row is there at the start.
LEMMA TrailInit == Init => TrailInv
BY FS_EmptySet DEF Init, TrailInv, EventsFollowEarlierOnes, StatusEvents, Steps

\* A request goes on: nothing is published, and its event is stamped now.
LEMMA TrailAdvances ==
  ASSUME TypeOK, StampsAreFresh, TrailInv, NEW r \in Requests,
         InsertAudit(r) \/ UpdateRow(r) \/ InsertAssignment(r)
  PROVE  TrailInv'
<1>1. /\ UNCHANGED <<row, history, audit, job, seen>> /\ pc[r] \in Steps
      /\ \A q \in Requests : q # r => pc'[q] = pc[q] /\ stamp'[q] = stamp[q]
      /\ stamp'[r].audit \in {stamp[r].audit, clock}
  BY DEF InsertAudit, UpdateRow, InsertAssignment, TypeOK, Stamps, Steps
<1>2. \A d \in StatusEvents : d.at < clock
  BY DEF StatusEvents, StampsAreFresh
<1>3. ASSUME NEW q \in Requests, pc'[q] \in Steps PROVE CopyWasRow(q)'
  <2>1. CopyWasRow(q)
    BY <1>1, <1>3 DEF TrailInv
  <2>2. stamp'[q].audit \in {stamp[q].audit, clock}
    BY <1>1
  <2>3. job[q].op = "assign" /\ pc'[q] \in {"assignment", "audit", "commit"} /\ lock' # q =>
          job[q].assignee = seen[q].assignee
    <3>1. CASE q # r
      <4>1. lock' # q => lock # q
        BY <3>1, TicketConstants DEF InsertAudit, UpdateRow, InsertAssignment
      <4> QED
        BY <1>1, <2>1, <3>1, <4>1 DEF CopyWasRow
    <3>2. CASE q = r /\ UpdateRow(r)
      BY <3>2 DEF UpdateRow, EmitsUpdate
    <3>3. CASE q = r /\ (InsertAudit(r) \/ InsertAssignment(r))
      BY <2>1, <3>3 DEF CopyWasRow, InsertAudit, InsertAssignment, TypeOK
    <3> QED
      BY <3>1, <3>2, <3>3
  <2> QED
    BY <1>1, <1>2, <2>1, <2>2, <2>3 DEF CopyWasRow, StatusEvents
<1> QED
  BY <1>1, <1>3 DEF TrailInv, EventsFollowEarlierOnes, StatusEvents

\* Every step keeps the copies worth what they were: rows are only added.
LEMMA TrailStep == TypeOK /\ StampsAreFresh /\ TrailInv /\ [Next]_vars => TrailInv'
<1> SUFFICES ASSUME TypeOK, StampsAreFresh, TrailInv, [Next]_vars PROVE TrailInv'
  OBVIOUS
<1>1. CASE Create
  <2> DEFINE e == [action |-> "created", from |-> "-", to |-> "new", at |-> clock]
  <2>1. audit' = {e} /\ e.to = "new" /\ e.action = "created" /\ row'.status = "new"
    BY <1>1 DEF Create, TypeOK, Rows
  <2> HIDE DEF e
  <2>2. StatusEvents' = {e}
    BY <2>1 DEF StatusEvents
  <2>3. \A r \in Requests : pc'[r] \notin Steps
    BY <1>1 DEF Create, StampsAreFresh, Steps
  <2>4. row'.assignee = row.assignee /\ history' = history
    BY <1>1 DEF Create, TypeOK, Rows
  <2>5. IsFiniteSet(audit') /\ IsFiniteSet(history')
    BY <2>1, <2>4, FS_Singleton DEF TrailInv
  <2> QED
    BY <2>1, <2>2, <2>3, <2>4, <2>5 DEF TrailInv, EventsFollowEarlierOnes
<1>2. ASSUME NEW r \in Requests, NEW j \in Jobs, NEW first \in {"audit", "update"},
             Found(r), Load(r, j, first),
             j.op = "transition" => is_transition_allowed(row.status, j.status),
             j.op = "assign" => first = "update"
      PROVE  TrailInv'
  <2>1. /\ UNCHANGED <<row, history, audit, lock, stamp>> /\ pc[r] = "idle"
        /\ seen'[r] = row /\ job'[r] = j /\ pc'[r] = first
        /\ \A q \in Requests : q # r => pc'[q] = pc[q] /\ seen'[q] = seen[q] /\ job'[q] = job[q]
    BY <1>2 DEF Found, Load, TypeOK
  <2>2. CopyWasRow(r)'
    <3>1. stamp[r].audit = 0 /\ row.status # "absent"
      BY <1>2, <2>1 DEF Found, StampsAreFresh, Prepared, NoStamp
    <3>2. \E d \in StatusEvents : d.to = row.status
      BY <3>1 DEF TrailInv, EventsFollowEarlierOnes
    <3> QED
      BY <1>2, <2>1, <3>1, <3>2 DEF CopyWasRow, StatusEvents, TrailInv
  <2>3. ASSUME NEW q \in Requests, q # r, pc'[q] \in Steps PROVE CopyWasRow(q)'
    BY <2>1, <2>3 DEF TrailInv, CopyWasRow, StatusEvents
  <2> QED
    BY <2>1, <2>2, <2>3 DEF TrailInv, EventsFollowEarlierOnes, StatusEvents
<1>3. ASSUME NEW r \in Requests, Commit(r) PROVE TrailInv'
  <2> DEFINE e == AuditEvent(r)
             h == AssignmentRow(r)
  <2>1. /\ job[r] \in Jobs /\ row \in Rows /\ pc[r] \in Steps /\ CopyWasRow(r) /\ Prepared(r)
        /\ stamp[r].audit # 0
    BY <1>3 DEF Commit, TypeOK, Steps, StampsAreFresh, TrailInv, Prepared
  <2>2. audit' = audit \cup {e} /\ e.at = stamp[r].audit
    BY <1>3 DEF Commit, AuditEvent
  <2>3. /\ history \subseteq history'
        /\ job[r].op = "assign" => h \in history' /\ h.assignee = job[r].assignee
        /\ history' \in {history, history \cup {h}}
    BY <1>3 DEF Commit, AssignmentRow
  <2>4. IsFiniteSet(audit') /\ IsFiniteSet(history')
    BY <2>2, <2>3, FS_AddElement DEF TrailInv
  <2>5. ASSUME NEW q \in Requests, pc'[q] \in Steps PROVE CopyWasRow(q)'
    <3>1. /\ q # r /\ pc[q] \in Steps /\ UNCHANGED <<seen[q], stamp[q], job[q], pc[q]>>
          /\ lock' # q => lock # q
      BY <1>3, <2>5 DEF Commit, EndRequest, TypeOK, Steps
    <3>2. CopyWasRow(q)
      BY <3>1 DEF TrailInv
    <3>3. StatusEvents \subseteq StatusEvents'
      BY <2>2 DEF StatusEvents
    <3> HIDE DEF e, h
    <3> QED
      BY <2>3, <3>1, <3>2, <3>3 DEF CopyWasRow
  <2>6. row'.assignee = NoUser \/ \E g \in history' : g.assignee = row'.assignee
    <3>1. row'.assignee = row.assignee
          \/ (job[r].op = "assign" /\ row'.assignee = job[r].assignee)
      BY <1>3, <2>1 DEF Commit, Written, Rows, Jobs, Transitions, Assigns, Updates
    <3> HIDE DEF e, h
    <3> QED
      BY <2>3, <3>1 DEF TrailInv
  <2>7. EventsFollowEarlierOnes'
    <3>1. CASE job[r].op = "transition"
      <4>1. /\ e.action = "status_changed" /\ e.from = seen[r].status /\ e.to = job[r].status
            /\ row'.status = job[r].status
        BY <1>3, <2>1, <3>1 DEF AuditEvent, Commit, Written, Rows, Prepared
      <4>2. StatusEvents' = StatusEvents \cup {e}
        BY <2>2, <4>1 DEF StatusEvents
      <4>3. is_transition_allowed(e.from, e.to)
        BY <2>1, <3>1, <4>1 DEF CopyWasRow
      <4>4. \E d \in StatusEvents : d.at < e.at /\ d.to = e.from
        BY <2>1, <2>2, <4>1 DEF CopyWasRow
      <4> HIDE DEF e, h
      <4> QED
        BY <4>1, <4>2, <4>3, <4>4 DEF EventsFollowEarlierOnes, TrailInv
    <3>2. CASE job[r].op # "transition"
      <4>1. e.action \in {"assigned", "updated"}
        BY <3>2 DEF AuditEvent
      <4>2. StatusEvents' = StatusEvents
        BY <2>2, <4>1 DEF StatusEvents
      <4>3. row'.status = row.status
        BY <1>3, <2>1, <3>2 DEF Commit, Written, Rows, Jobs, Transitions, Assigns, Updates
      <4> HIDE DEF e, h
      <4> QED
        BY <4>2, <4>3 DEF EventsFollowEarlierOnes, TrailInv
    <3> QED
      BY <3>1, <3>2
  <2> QED
    BY <2>4, <2>5, <2>6, <2>7 DEF TrailInv
<1>4. ASSUME NEW r \in Requests, Abort(r) PROVE TrailInv'
  <2>1. /\ UNCHANGED <<row, history, audit>> /\ pc'[r] = "done"
        /\ \A q \in Requests : q # r =>
             /\ pc'[q] = pc[q] /\ seen'[q] = seen[q] /\ job'[q] = job[q] /\ stamp'[q] = stamp[q]
             /\ lock' # q => lock # q
    BY <1>4 DEF Abort, EndRequest, TypeOK
  <2>2. ASSUME NEW q \in Requests, pc'[q] \in Steps PROVE CopyWasRow(q)'
    BY <2>1, <2>2 DEF TrailInv, CopyWasRow, StatusEvents, Steps
  <2> QED
    BY <2>1, <2>2 DEF TrailInv, EventsFollowEarlierOnes, StatusEvents
<1>5. CASE UNCHANGED vars
  BY <1>5 DEF vars, TrailInv, EventsFollowEarlierOnes, StatusEvents, CopyWasRow
<1>6. ASSUME NEW r \in Requests, LoadTransition(r) \/ LoadAssign(r) \/ LoadUpdate(r)
      PROVE  TrailInv'
  BY <1>2, <1>6 DEF LoadTransition, LoadAssign, LoadUpdate, Jobs, Transitions, Assigns,
                    Updates
<1>7. ASSUME NEW r \in Requests, InsertAudit(r) \/ UpdateRow(r) \/ InsertAssignment(r)
      PROVE  TrailInv'
  BY <1>7, TrailAdvances
<1> QED
  BY <1>1, <1>3, <1>4, <1>5, <1>6, <1>7 DEF Next, Advance

\* Copies are worth what TrailInv says, always.
LEMMA Trails == Spec => []TrailInv
BY TrailInit, TrailStep, TypeCorrect, Fresh, PTL DEF Spec

\* Whatever the order in which overlapping requests stamp, lock and commit, the
\* trail in created_at order is one of allowed changes, each from a status
\* that an event before it led to.
THEOREM TrailsFollow == Spec => []EventsFollowEarlierOnes
<1>1. TrailInv => EventsFollowEarlierOnes
  BY DEF TrailInv
<1> QED
  BY <1>1, Trails, PTL
-----------------------------------------------------------------------------
\* A new status event adds one to the moves it names, and to no others.
LEMMA MovesGrow ==
  ASSUME TypeOK, IsFiniteSet(audit),
         NEW from \in TicketStatus \cup {"-"}, NEW to \in TicketStatus,
         \E e \in AuditEvents :
           /\ e \notin audit /\ audit' = audit \cup {e}
           /\ e.action \in {"created", "status_changed"} /\ e.from = from /\ e.to = to
  PROVE  Moves' = [Moves EXCEPT ![from][to] = @ + 1]
<1> DEFINE Of(f, t) == {e \in StatusEvents : e.from = f /\ e.to = t}
<1>1. PICK e \in AuditEvents :
        /\ e \notin audit /\ audit' = audit \cup {e}
        /\ e.action \in {"created", "status_changed"} /\ e.from = from /\ e.to = to
  OBVIOUS
<1>2. StatusEvents' = StatusEvents \cup {e}
  BY <1>1 DEF StatusEvents
<1>3. ASSUME NEW f \in TicketStatus \cup {"-"}, NEW t \in TicketStatus
      PROVE  Cardinality(Of(f, t)') = IF f = from /\ t = to THEN Cardinality(Of(f, t)) + 1
                                                          ELSE Cardinality(Of(f, t))
  <2>1. Of(f, t) \subseteq audit /\ IsFiniteSet(Of(f, t))
    BY FS_Subset DEF StatusEvents
  <2>2. CASE f = from /\ t = to
    <3> DEFINE S == Of(f, t)
    <3>1. Of(f, t)' = S \cup {e} /\ e \notin S /\ IsFiniteSet(S)
      BY <1>1, <1>2, <2>1, <2>2
    <3> HIDE DEF S
    <3>2. Cardinality(S \cup {e}) = Cardinality(S) + 1
      BY <3>1, FS_AddElement
    <3> QED
      BY <2>2, <3>1, <3>2 DEF S
  <2>3. CASE ~(f = from /\ t = to)
    <3>1. Of(f, t)' = Of(f, t)
      BY <1>1, <1>2, <2>3
    <3> QED
      BY <2>3, <3>1
  <2> QED
    BY <2>2, <2>3
<1>4. /\ Moves  = [f \in TicketStatus \cup {"-"} |-> [t \in TicketStatus |-> Cardinality(Of(f, t))]]
      /\ Moves' = [f \in TicketStatus \cup {"-"} |-> [t \in TicketStatus |-> Cardinality(Of(f, t)')]]
  BY DEF Moves
<1>5. /\ Moves  = [f \in TicketStatus \cup {"-"} |-> [t \in TicketStatus |-> Moves[f][t]]]
      /\ Moves' = [f \in TicketStatus \cup {"-"} |-> [t \in TicketStatus |-> Moves'[f][t]]]
  BY DEF Moves
<1>6. \A f \in TicketStatus \cup {"-"} : \A t \in TicketStatus :
        Moves'[f][t] = IF f = from /\ t = to THEN Moves[f][t] + 1 ELSE Moves[f][t]
  BY <1>3, <1>4
<1> HIDE DEF Of
<1>7. PICK A, m, n : A = TicketStatus \cup {"-"} /\ m = Moves /\ n = Moves'
  OBVIOUS
<1>8. m = [f \in A |-> [t \in TicketStatus |-> m[f][t]]]
  BY <1>5, <1>7
<1>9. n = [f \in A |-> [t \in TicketStatus |-> n[f][t]]]
  BY <1>5, <1>7
<1>10. \A f \in A : \A t \in TicketStatus :
         n[f][t] = IF f = from /\ t = to THEN m[f][t] + 1 ELSE m[f][t]
  BY <1>6, <1>7
<1>11. from \in A /\ to \in TicketStatus
  BY <1>7
<1>12. \A f \in A : m[f] = [t \in TicketStatus |-> m[f][t]] /\ n[f] = [t \in TicketStatus |-> n[f][t]]
  BY <1>8, <1>9
<1>13. n[from] = [m[from] EXCEPT ![to] = @ + 1]
  BY <1>10, <1>11, <1>12
<1>14. ASSUME NEW f \in A, f # from PROVE n[f] = m[f]
  <2>1. m[f] = [t \in TicketStatus |-> m[f][t]] /\ n[f] = [t \in TicketStatus |-> n[f][t]]
    BY <1>12
  <2>2. \A t \in TicketStatus : n[f][t] = m[f][t]
    BY <1>10, <1>14
  <2>3. [t \in TicketStatus |-> n[f][t]] = [t \in TicketStatus |-> m[f][t]]
    BY <2>2
  <2> QED
    BY <2>1, <2>3, Zenon
<1>15. n = [m EXCEPT ![from] = n[from]]
  BY <1>8, <1>9, <1>11, <1>14
<1> QED
  BY <1>7, <1>13, <1>15

\* A new history row adds one to the assignments of its user.
LEMMA AssignmentsGrow ==
  ASSUME TypeOK, IsFiniteSet(history), NEW user \in Assignees,
         \E h : h \notin history /\ history' = history \cup {h} /\ h.assignee = user
  PROVE  Assignments' = [Assignments EXCEPT ![user] = @ + 1]
<1> DEFINE Of(u) == {h \in history : h.assignee = u}
<1>1. PICK h : h \notin history /\ history' = history \cup {h} /\ h.assignee = user
  OBVIOUS
<1>2. ASSUME NEW u \in Assignees
      PROVE  Cardinality(Of(u)') = IF u = user THEN Cardinality(Of(u)) + 1
                                               ELSE Cardinality(Of(u))
  <2>1. Of(u) \subseteq history /\ IsFiniteSet(Of(u))
    BY FS_Subset
  <2>2. CASE u = user
    <3>1. Of(u)' = Of(u) \cup {h} /\ h \notin Of(u)
      BY <1>1, <2>1, <2>2
    <3> HIDE DEF Of
    <3> QED
      BY <2>1, <2>2, <3>1, FS_AddElement
  <2>3. CASE u # user
    <3>1. Of(u)' = Of(u)
      BY <1>1, <2>3
    <3> QED
      BY <2>3, <3>1
  <2> QED
    BY <2>2, <2>3
<1>3. /\ Assignments  = [u \in Assignees |-> Cardinality(Of(u))]
      /\ Assignments' = [u \in Assignees |-> Cardinality(Of(u)')]
  BY DEF Assignments
<1> HIDE DEF Of
<1> QED
  BY <1>2, <1>3

\* The empty tables are the abstract ones.
LEMMA LifecycleInit == Init => Lifecycle!Init
<1> SUFFICES ASSUME Init PROVE Lifecycle!Init
  OBVIOUS
<1>1. Moves = [s \in TicketStatus \cup {"-"} |-> [t \in TicketStatus |-> 0]]
  <2>1. \A f, t : {e \in StatusEvents : e.from = f /\ e.to = t} = {}
    BY DEF Init, StatusEvents
  <2> QED
    BY <2>1, FS_EmptySet DEF Moves
<1>2. Assignments = [u \in Assignees |-> 0]
  <2>1. \A u : {h \in history : h.assignee = u} = {}
    BY DEF Init
  <2> QED
    BY <2>1, FS_EmptySet DEF Assignments
<1>3. Lifecycle!TicketStatus = TicketStatus
  BY DEF Lifecycle!TicketStatus, TicketStatus
<1> QED
  BY <1>1, <1>2, <1>3 DEF Init, Lifecycle!Init, Details

\* Every step is a step of the lifecycle, or none: loads and flushes change
\* nothing that can be seen, and a commit is one operation.
LEMMA LifecycleStep ==
  TypeOK /\ StampsAreFresh /\ TrailInv /\ [Next]_vars => [Lifecycle!Next]_(Lifecycle!vars)
<1> SUFFICES ASSUME TypeOK, StampsAreFresh, TrailInv, [Next]_vars
             PROVE  Lifecycle!Next \/ UNCHANGED <<row, Moves, Assignments>>
  BY DEF Lifecycle!vars
<1>0. /\ Lifecycle!TicketStatus = TicketStatus
      /\ \A s, t : Lifecycle!is_transition_allowed(s, t) <=> is_transition_allowed(s, t)
  BY DEF Lifecycle!TicketStatus, TicketStatus, Lifecycle!is_transition_allowed,
         is_transition_allowed, Lifecycle!ALLOWED_TRANSITIONS, ALLOWED_TRANSITIONS
<1>1. ASSUME UNCHANGED <<row, history, audit>> PROVE UNCHANGED <<row, Moves, Assignments>>
  BY <1>1 DEF Moves, Assignments, StatusEvents
<1>2. CASE Create
  <2> DEFINE e == [action |-> "created", from |-> "-", to |-> "new", at |-> clock]
  <2>1. e \notin audit /\ audit' = audit \cup {e} /\ e \in AuditEvents
    BY <1>2 DEF Create, StampsAreFresh, AuditEvents, TicketStatus, TypeOK
  <2>2. e.action = "created" /\ e.from = "-" /\ e.to = "new"
    OBVIOUS
  <2> HIDE DEF e
  <2>3. "-" \in TicketStatus \cup {"-"} /\ "new" \in TicketStatus /\ IsFiniteSet(audit)
    BY DEF TicketStatus, TrailInv
  <2>4. Moves' = [Moves EXCEPT !["-"]["new"] = @ + 1]
    BY <2>1, <2>2, <2>3, MovesGrow
  <2>5. UNCHANGED Assignments
    BY <1>2 DEF Create, Assignments
  <2>6. Lifecycle!create
    BY <1>2, <2>4, <2>5 DEF Create, Lifecycle!create
  <2> QED
    BY <2>6 DEF Lifecycle!Next
<1>3. ASSUME NEW r \in Requests, Commit(r)
      PROVE  Lifecycle!Next \/ UNCHANGED <<row, Moves, Assignments>>
  <2> DEFINE e == AuditEvent(r)
             h == AssignmentRow(r)
  <2>1. /\ job[r] \in Jobs /\ row \in Rows /\ seen[r] \in Rows /\ pc[r] = "commit"
        /\ CopyWasRow(r) /\ Prepared(r) /\ Apart(r)
        /\ seen[r].status \in TicketStatus /\ row.status # "absent"
    BY <1>3 DEF Commit, TypeOK, Steps, StampsAreFresh, TrailInv
  <2>2. audit' = audit \cup {e} /\ e.at = stamp[r].audit /\ stamp[r].audit \in Nat
    BY <1>3 DEF Commit, AuditEvent, TypeOK, Stamps
  <2>3. e \notin audit
    BY <2>1, <2>2 DEF Apart, Prepared
  <2>4. IsFiniteSet(audit) /\ IsFiniteSet(history)
    BY DEF TrailInv
  <2>5. CASE job[r].op = "transition"
    <3> DEFINE from   == seen[r].status
               target == job[r].status
    <3>1. from \in TicketStatus /\ target \in TicketStatus
      BY <2>1, <2>5 DEF Jobs, Transitions, Assigns, Updates
    <3>2. e = [action |-> "status_changed", from |-> from, to |-> target, at |-> stamp[r].audit]
      BY <2>5 DEF AuditEvent
    <3>3. e \in AuditEvents /\ e.action = "status_changed" /\ e.from = from /\ e.to = target
      BY <2>2, <3>1, <3>2 DEF AuditEvents
    <3> HIDE DEF e
    <3>4. Moves' = [Moves EXCEPT ![from][target] = @ + 1]
      BY <2>2, <2>3, <2>4, <3>1, <3>3, MovesGrow
    <3>5. UNCHANGED Assignments
      BY <1>3, <2>5 DEF Commit, Assignments
    <3>6. row' = [row EXCEPT !.status = target]
      BY <1>3, <2>1, <2>5 DEF Commit, Written, Prepared
    <3>7. Lifecycle!HasHad(from)
      <4>1. PICK d \in StatusEvents : d.to = from
        BY <2>1 DEF CopyWasRow
      <4>2. d.from \in TicketStatus \cup {"-"}
        BY DEF StatusEvents, TypeOK, AuditEvents
      <4> DEFINE S == {x \in StatusEvents : x.from = d.from /\ x.to = from}
      <4>3. S \subseteq audit /\ S # {}
        BY <4>1 DEF StatusEvents
      <4>4. IsFiniteSet(S)
        BY <2>4, <4>3, FS_Subset
      <4>5. Cardinality(S) \in Nat /\ Cardinality(S) # 0
        <5> HIDE DEF S
        <5> QED
          BY <4>3, <4>4, FS_CardinalityType, FS_EmptySet
      <4>6. Moves[d.from][from] = Cardinality(S) /\ d.from \in DOMAIN Moves
        BY <3>1, <4>2 DEF Moves
      <4> HIDE DEF S
      <4>7. Moves[d.from][from] > 0
        BY <4>5, <4>6
      <4> QED
        BY <4>6, <4>7 DEF Lifecycle!HasHad
    <3>8. is_transition_allowed(from, target)
      BY <2>1, <2>5 DEF CopyWasRow
    <3> HIDE DEF from, target
    <3>9. Lifecycle!transition_status(from, target)
      BY <1>0, <3>4, <3>5, <3>6, <3>7, <3>8 DEF Lifecycle!transition_status
    <3> QED
      BY <1>0, <3>1, <3>9 DEF Lifecycle!Next
  <2>6. CASE job[r].op = "assign"
    <3> DEFINE user == job[r].assignee
    <3>1. user \in Assignees /\ job[r] \in Assigns
      BY <2>1, <2>6 DEF Jobs, Transitions, Assigns, Updates
    <3>2. /\ history' = history \cup {h} /\ h.assignee = user
          /\ h \notin history
      BY <1>3, <2>1, <2>6 DEF Commit, AssignmentRow, Apart, Prepared
    <3>3. e.action = "assigned"
      BY <2>6 DEF AuditEvent
    <3>4. StatusEvents' = StatusEvents
      BY <2>2, <3>3 DEF StatusEvents
    <3>5. UNCHANGED Moves
      BY <3>4 DEF Moves
    <3> HIDE DEF e, h
    <3>6. Assignments' = [Assignments EXCEPT ![user] = @ + 1]
      BY <2>4, <3>1, <3>2, AssignmentsGrow
    <3>7. row' = [row EXCEPT !.assignee = user] \/ (row' = row /\ user = seen[r].assignee)
      <4>1. lock = r \/ ~EmitsUpdate(r)
        BY <2>1, <2>6 DEF CopyWasRow, EmitsUpdate
      <4> QED
        BY <1>3, <2>6, <4>1 DEF Commit, Written, EmitsUpdate
    <3>8. user = seen[r].assignee => Lifecycle!WasAssigned(user)
      <4> SUFFICES ASSUME user = seen[r].assignee, user # NoUser PROVE Assignments[user] > 0
        BY DEF Lifecycle!WasAssigned
      <4> DEFINE S == {g \in history : g.assignee = user}
      <4>1. S \subseteq history /\ S # {}
        BY <2>1 DEF CopyWasRow
      <4>2. IsFiniteSet(S)
        BY <2>4, <4>1, FS_Subset
      <4>3. Cardinality(S) \in Nat /\ Cardinality(S) # 0
        <5> HIDE DEF S
        <5> QED
          BY <4>1, <4>2, FS_CardinalityType, FS_EmptySet
      <4>4. Assignments[user] = Cardinality(S)
        BY <3>1 DEF Assignments
      <4> HIDE DEF S
      <4> QED
        BY <4>3, <4>4
    <3> HIDE DEF user
    <3>9. Lifecycle!assign(user)
      BY <2>1, <3>5, <3>6, <3>7, <3>8 DEF Lifecycle!assign
    <3> QED
      BY <3>1, <3>9 DEF Lifecycle!Next
  <2>7. CASE job[r].op \notin {"transition", "assign"}
    <3>1. e.action = "updated"
      BY <2>7 DEF AuditEvent
    <3>2. StatusEvents' = StatusEvents
      BY <2>2, <3>1 DEF StatusEvents
    <3>3. UNCHANGED Moves /\ UNCHANGED Assignments
      BY <1>3, <2>7, <3>2 DEF Moves, Assignments, Commit
    <3>4. PICK details \in Details : row' = [row EXCEPT !.details = details]
      <4>1. row' = row \/ row' = Written(r)
        BY <1>3 DEF Commit
      <4>2. Written(r) \in Rows /\ row.details \in Details
        BY <2>1, WrittenType DEF Rows
      <4>3. Written(r) = [row EXCEPT !.details = Written(r).details]
        BY <2>1, <2>7, <4>2 DEF Written, Rows
      <4>4. row = [row EXCEPT !.details = row.details]
        BY <2>1 DEF Rows
      <4>5. Written(r).details \in Details
        BY <4>2 DEF Rows
      <4> QED
        BY <4>1, <4>2, <4>3, <4>4, <4>5
    <3>5. Lifecycle!update(details)
      BY <2>1, <3>3, <3>4 DEF Lifecycle!update
    <3> QED
      BY <3>4, <3>5 DEF Lifecycle!Next, Details
  <2> QED
    BY <2>5, <2>6, <2>7
<1>4. ASSUME NEW r \in Requests,
             InsertAudit(r) \/ UpdateRow(r) \/ InsertAssignment(r) \/ Abort(r)
      PROVE  UNCHANGED <<row, Moves, Assignments>>
  BY <1>1, <1>4 DEF InsertAudit, UpdateRow, InsertAssignment, Abort
<1>5. ASSUME NEW r \in Requests, LoadTransition(r) \/ LoadAssign(r) \/ LoadUpdate(r)
      PROVE  UNCHANGED <<row, Moves, Assignments>>
  BY <1>1, <1>5 DEF LoadTransition, LoadAssign, LoadUpdate, Load
<1>6. CASE UNCHANGED vars
  BY <1>1, <1>6 DEF vars
<1> QED
  BY <1>2, <1>3, <1>4, <1>5, <1>6 DEF Next, Advance

\* Any number of overlapping requests implement the lifecycle.
THEOREM RequestsImplementLifecycle == Spec => ImplementsLifecycle
<1>1. Spec => Lifecycle!Init
  BY LifecycleInit DEF Spec
<1>2. Spec => [][Lifecycle!Next]_(Lifecycle!vars)
  BY LifecycleStep, TypeCorrect, Fresh, Trails, PTL DEF Spec
<1> QED
  BY <1>1, <1>2, PTL DEF ImplementsLifecycle, Lifecycle!Spec
=============================================================================
